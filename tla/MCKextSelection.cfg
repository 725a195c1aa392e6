CONSTANTS
    Lilu = Lilu
    ECEnabler = ECEnabler
    RealtekCardReader = RealtekCardReader
    RealtekCardReaderFriend = RealtekCardReaderFriend
    SinetekRtsx = SinetekRtsx
    VoodooI2C = VoodooI2C
    VoodooI2CHID = VoodooI2CHID
    AlpsHID = AlpsHID
    RestrictEvents = RestrictEvents
    Ventura = Ventura
    Sonoma = Sonoma
    Sequoia = Sequoia
    RealtekGroup = RealtekGroup
    NoGroup = NoGroup
    Kexts = {Lilu, ECEnabler, RealtekCardReader, RealtekCardReaderFriend, SinetekRtsx, VoodooI2C, VoodooI2CHID, AlpsHID, RestrictEvents}
    Required = {Lilu}
    Requires <- MCRequires
    Group <- MCGroup
    FirstKext = Lilu
    PatchKext = ECEnabler
    Targets = {Ventura, Sonoma, Sequoia}
    Supports <- MCSupports
    HardwareKexts = {RealtekCardReader, SinetekRtsx, VoodooI2CHID, ECEnabler}
    SmbiosKexts = {RestrictEvents}
    MaxBatch = 2
SPECIFICATION Spec
INVARIANTS
    KextTypeOK
    OneOfEachGroup
    RequiredStayChecked
    UnsupportedAreForced
    AutomaticSelectionIsClosed
    PluginHasItsKext
PROPERTIES
    SelectionEnds

SPECIFICATION Spec
CONSTANTS
    Bundles <- MCBundles
    MaxLinks = 3
    Reports <- MCOptimusReport
    VersionChoices <- MCVersions
    OfferedPatches = {"Disable Devices", "XOSI"}
    OfferedKexts = {"AppleALC", "VoodooI2C", "IOSkywalkFamily"}
    OfferedModels = {"iMacPro1,1", "MacPro7,1"}
    Refusable <- MCRefusable
    MaxEdits = 1
INVARIANTS
    DisabledCardsOff
CHECK_DEADLOCK FALSE

SPECIFICATION Spec
CONSTANTS
    BrcmPatchRAM = BrcmPatchRAM
    OpenCorePkg = OpenCorePkg
    Kexts <- MCKexts
    Parts = {kext, plugin}
    MaxRelease = 2
INVARIANT GatherTypeOK
INVARIANT VerifiedIsWhole
INVARIANT GatheredIsWhole
PROPERTY ReplacedOnlyByDownload

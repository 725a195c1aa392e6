SPECIFICATION Spec
CONSTANTS
    Files = {updater, maestro}
    MaxCommit = 3
INVARIANT UpdaterTypeOK
INVARIANT InstalledAsRecorded

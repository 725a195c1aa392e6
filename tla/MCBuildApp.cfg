CONSTANTS
    Starts = {b1, b2}
    Cancels = {c1, c2}
    NoBuild = NoBuild
    NumKexts = 1
    MaxOutbox = 2
SPECIFICATION AppSpec
INVARIANTS
    AppTypeOK
    OneBuildOutstanding
    SpinnerHasBuild
    ResultIsOfAskedBuild
PROPERTIES
    OnlyUserCancels
    SpinnerStops

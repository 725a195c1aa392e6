CONSTANTS
    Starts = {b1}
    Cancels = {c1}
    NoBuild = NoBuild
    NumKexts = 1
    MaxOutbox = 2
SPECIFICATION ClicksSpec
PROPERTIES
    CancelledBuildStops

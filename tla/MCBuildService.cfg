CONSTANTS
    Starts = {b1, b2}
    Cancels = {c1}
    NoBuild = NoBuild
    NumKexts = 2
    MaxOutbox = 2
SPECIFICATION Spec
INVARIANTS
    ServiceTypeOK
    OneLiveToken
    MessagesInOrder
PROPERTIES
    CancelSticks
    EveryStartAnswered
    ImplementsLatestBuild
CHECK_DEADLOCK FALSE

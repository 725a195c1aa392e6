CONSTANTS
    Starts = {b1, b2}
    Cancels = {c1}
    NoBuild = NoBuild
    NumKexts = 1
    MaxOutbox = 2
SPECIFICATION AppSpec
INVARIANTS
    ResultPageTellsTheTruth

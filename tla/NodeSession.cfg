SPECIFICATION Spec
CONSTANTS
    Loop = "loop"
    Main = "main"
    Filters = {"all", "odd", "no"}
    None = "none"
    Bad = "bad"
    Matches <- MCMatches
    MaxFrames = 2
    MaxCalls = 3
INVARIANTS
    TypeOK
    NoLostWakeup
    StatusSettles
PROPERTY StatusCatchesUp
CHECK_DEADLOCK FALSE

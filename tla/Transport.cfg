SPECIFICATION FairSpec
CONSTANTS
    Times <- MCTimes
    StartTime = 2
    Loop = FALSE
    MaxTime = 4
    MaxClicks = 4
INVARIANTS
    TypeOK
    NothingSkipped
PROPERTIES
    StopEnds
CHECK_DEADLOCK FALSE

SPECIFICATION FairSpec
CONSTANTS
    Callers = {c1, c2}
    MaxCalls = 2
    RunLoopArgs = {"nil", "current", "other"}
    TimersMade = TRUE
INVARIANTS
    TypeOK
    TurnstileIsOne
    NobodyPassesEarly
    DeallocDoesNotBlock
PROPERTIES
    ScheduledBlocksRun
    CallsReturn
    ThreadEnds
CHECK_DEADLOCK FALSE

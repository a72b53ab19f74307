SPECIFICATION FairSpec
CONSTANTS
    MaxToken = 2
    MaxVersion = 2
    SizeMax = 7
    Allowed = {}
PROPERTIES
    WokenCallbacksAreCalled
    ChangesReachCallbacks
    WaitEnds
CHECK_DEADLOCK FALSE

SPECIFICATION Spec
CONSTANTS
    Threads = {a}
    Loop = loop
    Waiters = {}
    MaxSessions = 2
    MaxVersion = 1
    MaxCalls = 5
CHECK_DEADLOCK FALSE
INVARIANT
    UnregisterFindsSession

SPECIFICATION Spec
CONSTANTS
    Threads = {a, b}
    Loop = loop
    Waiters = {}
    MaxSessions = 1
    MaxVersion = 0
    MaxCalls = 3
CHECK_DEADLOCK FALSE
INVARIANT
    ReferencedStaysOpen

SPECIFICATION Spec
CONSTANTS
    Threads = {a}
    Loop = loop
    Waiters = {w1}
    MaxSessions = 2
    MaxVersion = 2
    MaxCalls = 4
CHECK_DEADLOCK FALSE
INVARIANTS
    TypeOK
    ReferencedIsRegistered
PROPERTIES
    CalledOnce
    ClosedAfterUpload
    WaitersAreCalled
    DyingSessionsClose

SPECIFICATION Spec
CONSTANTS
    MaxToken = 3
    MaxVersion = 1
    SizeMax = 7
    Allowed = {"nestedWrite", "failedCommit", "openFails", "unregister", "idleNotifier", "staleCheck"}
INVARIANTS
    TypeOK
    CountIsPackaged
    IndexTracksRunning
    HaveCallbacksExact
    HeldTokensAreFound
CHECK_DEADLOCK FALSE

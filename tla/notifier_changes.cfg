SPECIFICATION Spec
CONSTANTS
    MaxToken = 2
    MaxVersion = 3
    SizeMax = 7
    Allowed = {}
INVARIANTS
    ChangesAccountedFor
    InSyncWithSnapshot
    SkipVersionIsAhead
    OnlySuppressedDropped
CHECK_DEADLOCK FALSE

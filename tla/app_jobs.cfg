SPECIFICATION Spec
CONSTANTS
    s1 = s1
    s2 = s2
    s3 = s3
    Schedulers = {s1, s2, s3}
    MaxTicks = 3
SYMMETRY SchedulerSymmetry
INVARIANTS
    TypeOK
    ConversationFound
    StoredTokensLive
    ArraysKeepTheirTable
CHECK_DEADLOCK FALSE

SPECIFICATION Spec
CONSTANTS
    s1 = s1
    s2 = s2
    Schedulers = {s1, s2}
    MaxTicks = 2
SYMMETRY SchedulerSymmetry
INVARIANTS
    MutexDestroyedOnce
CHECK_DEADLOCK FALSE

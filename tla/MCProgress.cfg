SPECIFICATION MCSpec
CONSTANTS
    t1 = t1
    t2 = t2
    t3 = t3
    p1 = p1
    p2 = p2
    Thread = {t1, t2, t3}
    Process = {p1, p2}
    ProcessOf <- MCProcessOf
    Bootstrap = {t1, t3}
    MaxFaults = 2
    MaxCrashes = 1
    Null = Null
    MaxInterrupts = 4
    InterruptedCleanup = FALSE
    Independent = 1
    MaxEvents = 4
CHECK_DEADLOCK FALSE
INVARIANTS
    LeaseIsExclusive
    NothingIsLeaked
    TurnsAreAccounted
PROPERTIES
    EveryCallReturns

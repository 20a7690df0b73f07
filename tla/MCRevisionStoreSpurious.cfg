SPECIFICATION MCSpec
CONSTANTS
    w1 = w1
    w2 = w2
    r1 = r1
    p1 = p1
    p2 = p2
    t1 = t1
    t2 = t2
    b1 = b1
    b2 = b2
    Writer = {w1, w2}
    Reader = {r1}
    Process = {p1, p2}
    ProcessOf <- MCProcessOf
    Txn = {t1, t2}
    Body = {b1}
    MaxRevision = 2
    MaxFaults = 0
    MaxCrashes = 0
    MaxClaims = 0
    MetaBytes = 1
    RevBytes = 3
    PtrBytes = 1
    ClaimBytes = 1
    MaxRunBytes = 15
    Null = Null
CHECK_DEADLOCK FALSE
INVARIANTS
    ReadNeverFailsSpuriously

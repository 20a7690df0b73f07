SPECIFICATION MCSpec
CONSTANTS
    p1 = p1
    p2 = p2
    q1 = q1
    q2 = q2
    d1 = d1
    d2 = d2
    Callers = {p1, p2}
    QPlans = {q1, q2}
    DPlans = {d1, d2}
    Days <- MCDays
    Entries = 1
    PayloadEvidence <- MCEvidence
    Scenarios <- MCScenarios
    Sources = {"s1", "s2"}
    Live = "s1"
    Dest = "d"
    Replaced = {"state"}
    Appended = {"evidence"}
    Sensitive = {3}
    MaxWrites = 2
    MaxMigrations = 2
    MaxInitializations = 3
    MaxFaults = 1
    MaxCrashes = 1
SYMMETRY Symmetry
INVARIANTS
    PayloadIsSafe
    CopyWasTheSource
    RootIsNeverCorrupt
    LocalAnswersAreTrue
CHECK_DEADLOCK FALSE

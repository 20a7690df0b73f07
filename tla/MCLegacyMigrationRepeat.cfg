SPECIFICATION Spec
CONSTANTS
    Procs = {p1}
    Sources = {"s1", "s2"}
    Live = "s1"
    Dest = "d"
    Replaced = {"state"}
    Appended = {"evidence"}
    Sensitive = {3}
    MaxWrites = 0
    MaxCalls = 2
    MaxFaults = 1
    MaxCrashes = 1
INVARIANT
    InterruptedMigrationsCanBeRepeated
CHECK_DEADLOCK FALSE

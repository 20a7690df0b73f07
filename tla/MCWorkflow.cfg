CONSTANTS
    RuntimeLimit = 1
    RoundLimit = 1
    Procs = {p1, p2}
    Drivers = {d1, d2}
    Bundles = {b1, b2}
    Scenarios <- MCScenarios
SPECIFICATION MCSpec
INVARIANTS
    RunIsOrderly
    ProductIsTrue
    CompletionIsDurable
PROPERTIES
    FailureIsFinal

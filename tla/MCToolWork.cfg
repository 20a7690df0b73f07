SPECIFICATION MCSpec
CONSTANTS
    Caller = {c1, c2}
    Task = {0, 1}
    MaxRetries = 2
    Permit <- MCPermit
    Request <- MCRequest
    Outcome <- MCOutcome
    Offer <- MCOffer
    Setup <- MCSetup
    Cumulative = {"run_bytes", "retry_attempts"}
    PerValue = {}
    Evidence = {"effect", "raised", "ack", "unconfirmed", "not-confirmed", "never-started"}
    Category = {"tool_transient", "policy", "external_effect_unknown"}
    Null = Null
    SmallBlind = 1
    BigBlind = 2
    Grain = 2
    MaxUnits = 20
    MAX_ACTIONS = 7
    Sizes = {2, 3}
SYMMETRY Callers
CHECK_DEADLOCK FALSE
INVARIANTS
    WorkIsCovered
    EffectsAreNotDoubled
    RecordsAreTrue
    PotsAreRight

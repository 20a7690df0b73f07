SPECIFICATION MCSpec
CONSTANTS
    Independent = 2
    Runs = {"r1", "r2"}
    NoOne = NoOne
    c1 = c1
    c2 = c2
    Callers = {c1, c2}
    Identities = {1}
    Identifiers = {1, 101}
    Instants = {1}
    Scenarios <- MCScenarios
    Expiry <- MCExpiry
    AuthorityExpiry = 2
    MaxEvents = 2
    MaxFailed = 1
    Window = 2
    Cases <- MCCases
    ConfirmationIds = {1, 2}
    RequestLife = 2
    ConfirmLife = 1
    Reviews <- MCReviews
SYMMETRY Symmetry
CHECK_DEADLOCK FALSE
INVARIANTS
    RejectionsStay

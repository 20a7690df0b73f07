SPECIFICATION Spec
CONSTANTS
    p1 = p1
    Permit = {p1}
    Cumulative = {"tool_attempts"}
    PerValue = {}
    Request <- Requests
    Evidence <- Digests
    Category = {"cancel", "policy", "external", "tool"}
    Null = Null
    c1 = c1
    c2 = c2
    o1 = o1
    Controller = {c1, c2}
    Operator = {o1}
    JobPermit = p1
    JobPolicy <- AnyPolicy
    Runtime = 0
    Environment <- Environments
SYMMETRY Callers
CHECK_DEADLOCK FALSE
INVARIANTS
    EffectsAreRecorded
    TerminalIsBacked
    PermitOutlivesConfirmedWork
    RecoveryIsComplete
PROPERTIES
    EffectIsAdmitted

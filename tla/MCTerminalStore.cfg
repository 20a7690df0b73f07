SPECIFICATION Spec
CONSTANTS
    t1 = t1
    t2 = t2
    t3 = t3
    w1 = w1
    w2 = w2
    Permit = {t1, t2, t3}
    Writer = {w1, w2}
    Body = {"approval_required", "failed"}
    Cumulative = {"run_bytes"}
    PerValue = {}
    Request <- Requests
    Evidence <- Digests
    Category = {"internal"}
    Null = Null
    RunPolicy <- SmallPolicy
    Asked = 1
    MaxRevision = 2
    Environment <- Environments
SYMMETRY Symmetry
CHECK_DEADLOCK FALSE
INVARIANTS
    PublicationsStay
    DoubtKeepsItsPermit
    ReportsTruthful

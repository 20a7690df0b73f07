SPECIFICATION Spec
CONSTANTS
    Client = {c1, c2}
    Permit = {p1, p2}
    p1 = p1
    p2 = p2
    e1 = e1
    Evidence = {e1}
    Category = {"external"}
    Null = Null
    Cumulative = {"run_bytes"}
    PerValue = {"artifact_bytes"}
    Request <- AllRequests
    Workload <- Workloads
    Environment <- Environments
    MaxClock = 1
SYMMETRY Clients
CHECK_DEADLOCK FALSE
INVARIANTS
    LedgerIsSound
    AnswersAreTrue
PROPERTIES
    OutcomesHold
    ExactlyOnce

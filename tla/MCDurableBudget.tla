--------------------------- MODULE MCDurableBudget ---------------------------
(* Small sets of callers' requests for the durable budget.                  *)
EXTENDS DurableBudget, TLC

CONSTANTS p1, p2, e1

Amount(run, artifact) == [r \in Resource |-> IF r = "run_bytes" THEN run ELSE artifact]

Loose == [limit |-> Amount(2, 1), runtime |-> 2, slots |-> 2]
Brief == [limit |-> Amount(2, 1), runtime |-> 1, slots |-> 2]
Tight == [limit |-> Amount(1, 1), runtime |-> 2, slots |-> 1]

ReserveOf(id, p, run, time, attempt, parent) ==
    [id |-> id, kind |-> "reserve", permit |-> p, amount |-> Amount(run, 1), runtime |-> time,
     class |-> "local_free", binding |-> Null,
     lineage |-> [attempt |-> attempt, parent |-> parent, root |-> 1, ordinal |-> 0]]
StartOf(id, p) == [id |-> id, kind |-> "start", permit |-> p]
SettleOf(id, p, run, status, evidence, category) ==
    [id |-> id, kind |-> "settle", permit |-> p, actual |-> Amount(run, 1), status |-> status,
     evidence |-> evidence, cancelEvidence |-> evidence, category |-> category,
     authenticated |-> FALSE, peak |-> 1]
ReleaseOf(id, p) == [id |-> id, kind |-> "release", permit |-> p, evidence |-> e1]
RequestCancelOf(id, p) == [id |-> id, kind |-> "request_cancel", permit |-> p]
RecordCancelOf(id, p, state, evidence, live) ==
    [id |-> id, kind |-> "record_cancel", permit |-> p, state |-> state, evidence |-> evidence,
     live |-> live]
InitializeOf(id, policy) == [id |-> id, kind |-> "initialize", policy |-> policy]
TightenOf(id, policy) == [id |-> id, kind |-> "tighten", policy |-> policy]

\* One permit: everything that can end it, as the callers in the repository
\* end it (an unknown effect is settled with its failure category).
Lifecycle ==
    {InitializeOf("init", Loose),
     ReserveOf("reserve", p1, 1, 2, 1, Null),
     StartOf("start", p1),
     SettleOf("settle", p1, 1, "succeeded", e1, Null),
     SettleOf("stopped", p1, 1, "cancelled", e1, Null),
     SettleOf("unknown", p1, 1, "effect_unknown", e1, "external"),
     ReleaseOf("release", p1),
     RequestCancelOf("cancel", p1),
     RecordCancelOf("ack", p1, "acknowledged", e1, FALSE),
     RecordCancelOf("cancelled", p1, "cancelled", e1, FALSE),
     RecordCancelOf("unconfirmed", p1, "unconfirmed", e1, TRUE),
     RecordCancelOf("live", p1, "effect_unknown", e1, TRUE),
     RecordCancelOf("dead", p1, "effect_unknown", e1, FALSE)}

\* Two permits that compete for the limits, an overrun, a retry of the first
\* attempt and a policy that is tightened meanwhile.
Admission ==
    {InitializeOf("init", Loose),
     ReserveOf("reserve1", p1, 1, 1, 1, Null),
     ReserveOf("reserve2", p2, 1, 0, 2, 1),
     ReserveOf("reserve2", p2, 2, 0, 2, 1),
     StartOf("start1", p1),
     SettleOf("settle1", p1, 1, "succeeded", e1, Null),
     SettleOf("settle1", p1, 2, "succeeded", e1, Null),
     ReleaseOf("release2", p2),
     TightenOf("tighten", Tight)}

\* What is retried when an answer is lost, and an id that is used twice.
Retry ==
    {InitializeOf("init", Brief),
     ReserveOf("reserve", p1, 1, 0, 1, Null),
     StartOf("start", p1),
     ReleaseOf("start", p1)}

Env(calls, clock, faults, restarts) ==
    [calls |-> calls, clock |-> clock, faults |-> faults, restarts |-> restarts]
AllRequests == Lifecycle \cup Admission \cup Retry
Workloads ==
    [lifecycle |-> Lifecycle, admission |-> Admission, retry |-> Retry]
Environments ==
    {Env("lifecycle", 0, 0, 0), Env("admission", 0, 0, 0), Env("retry", 1, 1, 1)}

Clients == Permutations(Client)
=============================================================================

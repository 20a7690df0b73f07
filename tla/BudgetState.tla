----------------------------- MODULE BudgetState -----------------------------
(***************************************************************************)
(* budgets/durable_models.py and the operations of budgets/durable_store.py*)
(* on one loaded snapshot: when a mutation is admitted and what it makes   *)
(* of the snapshot.  A digest is modelled by the value it is the digest    *)
(* of, so a recorded operation is the request itself, and the event that   *)
(* the code appends beside each operation is that same record.  The        *)
(* settlement id is identified with the id of the operation.               *)
(***************************************************************************)
EXTENDS Integers, Sequences, FiniteSets

FSE == INSTANCE FiniteSetsExt

CONSTANTS
    Permit,
    Cumulative,  \* resources whose usage adds up (run_bytes, provider_attempts, ...)
    PerValue,    \* resources whose usage is a maximum (artifact_bytes, ...)
    Request,     \* the mutations that callers issue
    Evidence, Category,
    Null

Resource == Cumulative \cup PerValue

AttemptStatus == {"none", "reserved", "started", "succeeded", "failed", "cancelled",
                  "effect_unknown"}
SettlementStatus == {"succeeded", "failed", "cancelled", "effect_unknown", "overrun",
                     "released_no_effect"}
CancellationState == {"not_requested", "requested", "acknowledged", "cancelled",
                      "unconfirmed", "effect_unknown"}

FailureCode == {"settlement_overrun", "effect_unknown", "cancel_unconfirmed"}

Amounts == [Resource -> Nat]
\* BudgetPolicyV2 with its ExecutionActivationV1.
Policy == [limit : Amounts, runtime : Nat, slots : Nat]

Kind == {"initialize", "reserve", "start", "settle", "release", "request_cancel",
         "record_cancel", "tighten"}

\* What every request of a kind carries.
ASSUME RequestAssumption ==
    /\ \A q \in Request :
         /\ q.kind \in Kind
         /\ q.kind \in {"initialize", "tighten"} => q.policy \in Policy
         /\ q.kind \in {"reserve", "start", "settle", "release", "request_cancel",
                        "record_cancel"} => q.permit \in Permit
         /\ q.kind = "reserve" => q.amount \in Amounts /\ q.runtime \in Nat
         /\ q.kind = "settle" =>
              /\ q.actual \in Amounts /\ q.peak \in Nat
              /\ q.status \in {"succeeded", "failed", "cancelled", "effect_unknown"}
              /\ q.category \in Category \cup {Null}
         /\ q.kind \in {"settle", "release", "record_cancel"} => q.evidence \in Evidence \cup {Null}
         /\ q.kind = "record_cancel" => q.state \in CancellationState /\ q.live \in BOOLEAN
    /\ \A q \in Request, code \in FailureCode : [code |-> code, id |-> q.id] # Null

AttemptRecord ==
    [status : AttemptStatus, category : Category \cup {Null}, evidence : Evidence \cup {Null}]
CancellationRecord ==
    [state : CancellationState, live : BOOLEAN, evidence : Evidence \cup {Null}]

\* The recorded operations, in order of their generations.
Operations == Seq([req : Request, runtime : Nat])

\* DurableBudgetStateV1.  A permit is active while it is reserved or started;
\* origin is the request that reserved it, with its amounts and its lineage.
Snapshot ==
    [ops     : Operations,
     policy  : Policy \cup {Null},
     usage   : Amounts,
     runtime : Nat,
     peak    : Nat,
     permit  : [Permit -> {"none", "reserved", "started"}],
     origin  : [Permit -> Request \cup {Null}],
     since   : [Permit -> Nat],
     settled : [Permit -> SettlementStatus \cup {"none"}],
     attempt : [Permit -> AttemptRecord],
     cancel  : [Permit -> CancellationRecord],
     latch   : [code : FailureCode, id : {q.id : q \in Request}] \cup {Null}]

\* A snapshot before generation one.
Blank ==
    [ops     |-> <<>>,
     policy  |-> Null,
     usage   |-> [r \in Resource |-> 0],
     runtime |-> 0,
     peak    |-> 0,
     permit  |-> [p \in Permit |-> "none"],
     origin  |-> [p \in Permit |-> Null],
     since   |-> [p \in Permit |-> 0],
     settled |-> [p \in Permit |-> "none"],
     attempt |-> [p \in Permit |-> [status |-> "none", category |-> Null, evidence |-> Null]],
     cancel  |-> [p \in Permit |-> [state |-> "not_requested", live |-> FALSE,
                                    evidence |-> Null]],
     latch   |-> Null]

Active(s) == {p \in Permit : s.permit[p] # "none"}
Settled(s) == {p \in Permit : s.settled[p] # "none"}
Attempted(s) == {p \in Permit : s.attempt[p].status # "none"}

Recorded(s, id) == \E i \in DOMAIN s.ops : s.ops[i].req.id = id
\* mutant: the kind and the request digest are not compared.
Mut_RecordedExactly(s, q) == Recorded(s, q.id)

RecordedExactly(s, q) == \E i \in DOMAIN s.ops : s.ops[i].req = q

\* What the active permits hold of a resource, and of the active runtime.
Reserved(s, r) == FSE!MapThenSumSet(LAMBDA p : s.origin[p].amount[r], Active(s))
RuntimeReserved(s) == FSE!MapThenSumSet(LAMBDA p : s.origin[p].runtime, Active(s))

-----------------------------------------------------------------------------
(* Admission: the checks of each operation on the snapshot it has loaded,   *)
(* el being the active runtime since the process's last committed reading.  *)

\* _charge_active_runtime without allow_overrun.
InTime(s, el) == s.runtime + el <= s.policy.runtime

\* _admit_lineage: attempt stands for attempt, context and idempotency key,
\* ordinal for the execution ordinal and the other fields a retry must keep.
AdmitLineage(s, new) ==
    LET prior == {s.origin[p].lineage : p \in Attempted(s)}
        sameRoot == {l \in prior : l.root = new.root}
    IN  /\ \A l \in prior : l.attempt # new.attempt
        /\ \/ /\ sameRoot = {}
              /\ new.parent = Null
              /\ \A l \in prior : l.ordinal # new.ordinal
           \/ \E l \in sameRoot : l.attempt = new.parent /\ l.ordinal = new.ordinal

\* mutant: the reservations of other active permits are forgotten.
Mut_AdmitReservation(s, q, el) ==
    /\ s.latch = Null
    /\ s.runtime + el < s.policy.runtime
    /\ s.runtime + el + RuntimeReserved(s) + q.runtime <= s.policy.runtime
    /\ \A r \in Cumulative : s.usage[r] + q.amount[r] <= s.policy.limit[r]
    /\ \A r \in PerValue : q.amount[r] <= s.policy.limit[r]
    /\ Cardinality(Active(s)) + 1 <= s.policy.slots

\* _admit_reservation
AdmitReservation(s, q, el) ==
    /\ s.latch = Null
    /\ s.runtime + el < s.policy.runtime
    /\ s.runtime + el + RuntimeReserved(s) + q.runtime <= s.policy.runtime
    /\ \A r \in Cumulative : s.usage[r] + Reserved(s, r) + q.amount[r] <= s.policy.limit[r]
    /\ \A r \in PerValue : q.amount[r] <= s.policy.limit[r]
    /\ Cardinality(Active(s)) + 1 <= s.policy.slots

AdmitReserve(s, q, el) ==
    /\ q.binding # Null => q.binding = s.policy
    /\ InTime(s, el)
    /\ AdmitReservation(s, q, el)
    /\ AdmitLineage(s, q.lineage)
    /\ q.permit \notin Active(s) \cup Settled(s)

AdmitStart(s, q, el) ==
    /\ InTime(s, el)
    /\ s.permit[q.permit] = "reserved"
    /\ s.cancel[q.permit].state = "not_requested"

\* mutant: only a pending cancellation stands in the way of a settlement.
Mut_CancellationAllows(s, q) ==
    s.cancel[q.permit].state \notin {"requested", "unconfirmed"}

\* What the cancellation of the permit lets a settlement claim.
CancellationAllows(s, q) ==
    LET c == s.cancel[q.permit]
    IN  \/ c.state = "not_requested"
        \/ /\ ~c.live
           /\ \/ /\ c.state \in {"acknowledged", "cancelled"}
                 /\ q.status = "cancelled"
                 /\ q.cancelEvidence # Null /\ q.cancelEvidence = c.evidence
              \/ c.state = "effect_unknown" /\ q.status = "effect_unknown"

AdmitSettle(s, q) ==
    /\ s.permit[q.permit] = "started"
    /\ q.authenticated = (s.origin[q.permit].class = "external")
    /\ q.status = "succeeded" => q.evidence # Null
    /\ CancellationAllows(s, q)
    /\ q.peak <= s.policy.slots

AdmitRequestCancel(s, q) ==
    /\ q.permit \in Active(s)
    /\ s.cancel[q.permit].state = "not_requested"

\* The transitions of record_cancellation, and what DurableCancellationV1 accepts.
AdmitRecordCancel(s, q) ==
    LET c == s.cancel[q.permit]
    IN  /\ \/ /\ c.state = "requested"
              /\ q.state \in {"acknowledged", "unconfirmed", "effect_unknown"}
           \/ c.state = "acknowledged" /\ q.state = "cancelled"
           \/ c.state = "unconfirmed" /\ q.state = "effect_unknown" /\ ~q.live
           \/ /\ c.state = "effect_unknown" /\ c.live
              /\ q.state = "effect_unknown" /\ ~q.live
              /\ q.evidence = c.evidence
        /\ q.state \in {"acknowledged", "cancelled"} => q.evidence # Null /\ ~q.live

\* _is_policy_tightening, of a different policy.
Tightens(old, new) ==
    /\ new # old
    /\ \A r \in Resource : new.limit[r] <= old.limit[r]
    /\ new.runtime <= old.runtime
    /\ new.slots <= old.slots

AdmitTighten(s, q, el) ==
    /\ InTime(s, el)
    /\ s.latch = Null
    /\ Tightens(s.policy, q.policy)
    /\ s.runtime + el + RuntimeReserved(s) <= q.policy.runtime
    /\ \A r \in Cumulative : s.usage[r] + Reserved(s, r) <= q.policy.limit[r]
    /\ \A r \in PerValue :
         /\ s.usage[r] <= q.policy.limit[r]
         /\ \A p \in Active(s) : s.origin[p].amount[r] <= q.policy.limit[r]
    /\ Cardinality(Active(s)) <= q.policy.slots

Admits(s, q, el) ==
    CASE q.kind = "initialize"      -> s.ops = <<>>
      [] q.kind = "reserve"         -> AdmitReserve(s, q, el)
      [] q.kind = "start"           -> AdmitStart(s, q, el)
      [] q.kind = "settle"          -> AdmitSettle(s, q)
      [] q.kind = "release"         -> s.permit[q.permit] = "reserved"
      [] q.kind = "request_cancel"  -> AdmitRequestCancel(s, q)
      [] q.kind = "record_cancel"   -> AdmitRecordCancel(s, q)
      [] q.kind = "tighten"         -> AdmitTighten(s, q, el)

-----------------------------------------------------------------------------
(* Effects: the updates each operation hands to _append_operation.          *)

\* The permit leaves the active ones, its settlement is recorded.
Close(s, p, status, attempt) ==
    [s EXCEPT !.permit[p] = "none", !.settled[p] = status, !.attempt[p] = attempt]

Reserve(s, q) ==
    [s EXCEPT !.permit[q.permit] = "reserved",
              !.origin[q.permit] = q,
              !.since[q.permit] = s.runtime,
              !.attempt[q.permit] = [status |-> "reserved", category |-> Null,
                                     evidence |-> Null]]

Start(s, q) ==
    [s EXCEPT !.permit[q.permit] = "started",
              !.attempt[q.permit] = [s.attempt[q.permit] EXCEPT !.status = "started"]]

\* _released: the measured runtime or a reported resource exceeds its reservation.
Overruns(s, q) ==
    \/ s.runtime - s.since[q.permit] > s.origin[q.permit].runtime
    \/ \E r \in Resource : q.actual[r] > s.origin[q.permit].amount[r]

\* DurableUsageV1.apply_actual
ApplyActual(s, q) ==
    [s EXCEPT !.usage = [r \in Resource |-> IF r \in Cumulative
                                            THEN s.usage[r] + q.actual[r]
                                            ELSE FSE!Max({s.usage[r], q.actual[r]})],
              !.peak = FSE!Max({s.peak, q.peak})]

\* Only the first failure is latched.
Latch(s, code, q) ==
    IF s.latch = Null THEN [s EXCEPT !.latch = [code |-> code, id |-> q.id]] ELSE s

\* settle, on the snapshot already charged with the elapsed runtime.
Settle(s, q) ==
    LET status  == IF Overruns(s, q) THEN "overrun" ELSE q.status
        attempt == [status |-> IF status = "overrun" THEN "failed" ELSE status,
                    category |-> q.category, evidence |-> q.evidence]
        closed  == Close(ApplyActual(s, q), q.permit, status, attempt)
    IN  CASE status = "overrun"        -> Latch(closed, "settlement_overrun", q)
          [] status = "effect_unknown" -> Latch(closed, "effect_unknown", q)
          [] OTHER                     -> closed

Release(s, q) ==
    Close(s, q.permit, "released_no_effect",
          [s.attempt[q.permit] EXCEPT !.status = "cancelled", !.evidence = q.evidence])

RequestCancel(s, q) ==
    [s EXCEPT !.cancel[q.permit] = [state |-> "requested", live |-> TRUE, evidence |-> Null]]

\* record_cancellation: without a confirmed stop the attempt's effect is unknown.
RecordCancel(s, q) ==
    LET noted == [s EXCEPT !.cancel[q.permit] = [state |-> q.state, live |-> q.live,
                                                 evidence |-> q.evidence]]
        doubt == [noted EXCEPT !.attempt[q.permit] = [s.attempt[q.permit] EXCEPT
                                 !.status = "effect_unknown", !.evidence = q.evidence]]
    IN  CASE q.state = "unconfirmed"    -> Latch(doubt, "cancel_unconfirmed", q)
          [] q.state = "effect_unknown" -> Latch(doubt, "effect_unknown", q)
          [] OTHER                      -> noted

Update(s, q) ==
    CASE q.kind \in {"initialize", "tighten"} -> [s EXCEPT !.policy = q.policy]
      [] q.kind = "reserve"                   -> Reserve(s, q)
      [] q.kind = "start"                     -> Start(s, q)
      [] q.kind = "settle"                    -> Settle(s, q)
      [] q.kind = "release"                   -> Release(s, q)
      [] q.kind = "request_cancel"            -> RequestCancel(s, q)
      [] q.kind = "record_cancel"             -> RecordCancel(s, q)

Charge(s, el) == [s EXCEPT !.runtime = @ + el]

\* The charge, the operation's updates, and the record of the operation.
Apply(s, q, el) ==
    [Update(Charge(s, el), q) EXCEPT
       !.ops = Append(s.ops, [req |-> q, runtime |-> s.runtime + el])]

-----------------------------------------------------------------------------
(* Validation.                                                              *)

ExpectedAttempt(s, p) ==
    IF s.cancel[p].state \in {"unconfirmed", "effect_unknown"}
    THEN "effect_unknown" ELSE s.permit[p]

SettledAttempt(status) ==
    CASE status = "released_no_effect" -> "cancelled"
      [] status = "overrun"            -> "failed"
      [] OTHER                         -> status

\* DurableBudgetStateV1.validate_snapshot, on every snapshot that is built.
ValidSnapshot(s) ==
    /\ Active(s) \cap Settled(s) = {}
    /\ Attempted(s) = Active(s) \cup Settled(s)
    /\ \A p \in Active(s) : s.attempt[p].status = ExpectedAttempt(s, p)
    /\ \A p \in Settled(s) : s.attempt[p].status = SettledAttempt(s.settled[p])
    /\ \A p \in Permit : s.cancel[p].state # "not_requested" => p \in Active(s) \cup Settled(s)
    /\ \A i, j \in DOMAIN s.ops : s.ops[i].req.id = s.ops[j].req.id => i = j
    /\ Cardinality(Active(s)) <= s.policy.slots
    /\ s.peak <= s.policy.slots

Changed(f, g) == {p \in Permit : f[p] # g[p]}

\* _validate_state_successor, which load applies to every adjacent pair.
ValidSuccessor(old, new) ==
    LET q       == new.ops[Len(new.ops)].req
        closing == q.kind \in {"settle", "release"}
    IN  /\ new.ops = Append(old.ops, new.ops[Len(new.ops)])
        /\ q.kind # "initialize"
        /\ Changed(old.settled, new.settled) = IF closing THEN {q.permit} ELSE {}
        /\ old.latch # Null => new.latch = old.latch
        /\ new.latch # old.latch => q.kind \in {"settle", "record_cancel"}
        /\ (new.policy # old.policy) = (q.kind = "tighten")
        /\ new.policy # old.policy => Tightens(old.policy, new.policy)
        /\ Changed(old.permit, new.permit) =
             IF closing \/ q.kind \in {"reserve", "start"} THEN {q.permit} ELSE {}
        /\ q.kind = "reserve" => q.permit \notin Active(old)
        /\ IF closing \/ q.kind \in {"reserve", "start"}
           THEN Changed(old.attempt, new.attempt) = {q.permit}
           ELSE Changed(old.attempt, new.attempt) \subseteq
                  (IF q.kind = "record_cancel" THEN {q.permit} ELSE {})
        /\ \A p \in Attempted(old) : new.origin[p] = old.origin[p]
        /\ Changed(old.cancel, new.cancel) =
             IF q.kind \in {"request_cancel", "record_cancel"} THEN {q.permit} ELSE {}
        /\ new.runtime >= old.runtime
        /\ \A r \in Resource : new.usage[r] >= old.usage[r]
        /\ q.kind # "settle" => new.usage = old.usage
=============================================================================

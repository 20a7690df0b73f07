--------------------------- MODULE IsolatedJobProofs ---------------------------
(***************************************************************************)
(* Proofs about IsolatedJob, for any number of controllers, operators,     *)
(* failures and restarts.                                                  *)
(***************************************************************************)
EXTENDS IsolatedJob, BudgetStateProofs

-----------------------------------------------------------------------------
(* What the calls of a process do to the state.                            *)

ProcessState ==
    [pc : Place, identity : BOOLEAN, possible : BOOLEAN, evidence : JobEvidence \cup {Null},
     cancelled : BOOLEAN, then : Place, digest : Stage, tries : 0..2, seen : Status,
     mark : Nat]

Only(p) == \A q \in Process \ {p} : proc'[q] = proc[q]

\* Process p moves, and nothing else of it changes.
Stays(p) ==
    /\ Only(p)
    /\ proc'[p] \in ProcessState
    /\ proc'[p].identity = proc[p].identity /\ proc'[p].possible = proc[p].possible
    /\ proc'[p].evidence = proc[p].evidence /\ proc'[p].cancelled = proc[p].cancelled
    /\ proc'[p].then = proc[p].then /\ proc'[p].digest = proc[p].digest
    /\ proc'[p].tries = proc[p].tries /\ proc'[p].seen = proc[p].seen
    /\ proc'[p].mark = proc[p].mark

EnvStep ==
    /\ env' \in Surroundings
    /\ env'.stops = env.stops /\ env'.concurrent = env.concurrent /\ env'.elapsed = env.elapsed
    /\ env'.faults <= env.faults

EnvType ==
    /\ env \in Surroundings
    /\ \E e \in Environment : env = [e EXCEPT !.faults = env.faults] /\ env.faults <= e.faults

LEMMA GotoFields ==
    ASSUME proc \in [Process -> ProcessState], NEW p \in Process, NEW pc \in Place, Goto(p, pc)
    PROVE  /\ proc' \in [Process -> ProcessState]
           /\ Stays(p) /\ proc'[p].pc = pc
<1> DEFINE r == [proc[p] EXCEPT !.pc = pc]
<1>1. proc' = [proc EXCEPT ![p] = r]
  BY DEF Goto
<1>2. proc[p] \in ProcessState
  OBVIOUS
<1>3. /\ r \in ProcessState /\ r.pc = pc
      /\ r.identity = proc[p].identity /\ r.possible = proc[p].possible
      /\ r.evidence = proc[p].evidence /\ r.cancelled = proc[p].cancelled
      /\ r.then = proc[p].then /\ r.digest = proc[p].digest
      /\ r.tries = proc[p].tries /\ r.seen = proc[p].seen /\ r.mark = proc[p].mark
  BY <1>2 DEF ProcessState
<1> HIDE DEF r
<1>4. proc'[p] = r /\ \A q \in Process \ {p} : proc'[q] = proc[q]
  BY <1>1
<1>5. QED
  BY <1>1, <1>3, <1>4 DEF Stays, Only

LEMMA FaultStep ==
    ASSUME EnvType, Fault \/ UNCHANGED env
    PROVE  EnvType' /\ EnvStep
<1>1. PICK e \in Environment : env = [e EXCEPT !.faults = env.faults] /\ env.faults <= e.faults
  BY DEF EnvType
<1>2. e \in Surroundings /\ env \in Surroundings
  BY JobAssumption DEF EnvType
<1>3. CASE UNCHANGED env
  BY <1>3 DEF EnvType, EnvStep, Surroundings
<1>4. CASE Fault
  <2>1. env.faults \in Nat /\ env.faults > 0 /\ env' = [env EXCEPT !.faults = env.faults - 1]
    BY <1>2, <1>4 DEF Fault, Surroundings
  <2>2. /\ env' \in Surroundings /\ env'.faults = env.faults - 1
        /\ env'.stops = env.stops /\ env'.concurrent = env.concurrent
        /\ env'.elapsed = env.elapsed
    BY <1>2, <2>1 DEF Surroundings
  <2>3. env' = [e EXCEPT !.faults = env'.faults]
    BY <1>1, <1>2, <2>1, <2>2 DEF Surroundings
  <2>4. env'.faults <= e.faults /\ env'.faults <= env.faults
    BY <1>1, <1>2, <2>1, <2>2 DEF Surroundings
  <2>5. QED
    BY <1>1, <2>2, <2>3, <2>4 DEF EnvType, EnvStep
<1>5. QED
  BY <1>3, <1>4

-----------------------------------------------------------------------------
(* The permit of the job, in any snapshot.                                 *)

StartedIn(s) ==
    s.permit[JobPermit] = "started" \/ s.settled[JobPermit] \notin {"none", "released_no_effect"}
AnsweredIn(s) == s.cancel[JobPermit].state \notin {"not_requested", "requested"}
BeganIn(s) == \E i \in DOMAIN s.ops : s.ops[i].req.kind = "start"

\* What a recorded operation has left in the permit.
BackedIn(s, q) ==
    /\ q.kind = "start" => StartedIn(s)
    /\ q.kind = "release" => s.settled[JobPermit] = "released_no_effect"
    /\ q.kind = "settle" => s.settled[JobPermit] \in {q.status, "overrun"}
    /\ q.kind = "record_cancel" => AnsweredIn(s)

JobBudget(s) ==
    /\ s.settled[JobPermit] # "none" => s.permit[JobPermit] = "none"
    /\ AnsweredIn(s) => s.cancel[JobPermit].evidence \in Stage
    /\ StartedIn(s) => BeganIn(s)
    /\ \A i \in DOMAIN s.ops : BackedIn(s, s.ops[i].req)

\* What an operation of some kind may do to the permit of the job.
BudgetMoves(s, t, kind) ==
    /\ s.settled[JobPermit] # "none" => t.settled[JobPermit] = s.settled[JobPermit]
    /\ t.settled[JobPermit] # s.settled[JobPermit] =>
         \/ kind = "release" /\ s.permit[JobPermit] = "reserved"
         \/ kind = "settle" /\ s.permit[JobPermit] = "started"
    /\ StartedIn(s) => StartedIn(t)
    /\ s.permit[JobPermit] = "started" /\ kind # "settle" => t.permit[JobPermit] = "started"
    /\ AnsweredIn(s) => AnsweredIn(t)
    /\ BeganIn(t) => BeganIn(s) \/ kind = "start"

\* A request about the job's permit.
JobRequest(q) ==
    /\ q \in Request /\ q.kind \in PermitKind /\ q.permit = JobPermit
    /\ q.kind = "record_cancel" => q.evidence \in Stage

LEMMA RecordsOf ==
    ASSUME NEW s \in Snapshot, NEW t, NEW q \in Request, NEW n \in Nat,
           t.ops = Append(s.ops, [req |-> q, runtime |-> n])
    PROVE  /\ \A i \in DOMAIN t.ops : t.ops[i].req = q \/ \E j \in DOMAIN s.ops : t.ops[i] = s.ops[j]
           /\ \E i \in DOMAIN t.ops : t.ops[i].req = q
           /\ BeganIn(s) => BeganIn(t)
<1> DEFINE r == [req |-> q, runtime |-> n]
           o == s.ops
<1>1. o \in Seq([req : Request, runtime : Nat]) /\ r \in [req : Request, runtime : Nat]
  BY DEF Snapshot, Operations
<1>2. r.req = q
  OBVIOUS
<1> HIDE DEF r, o
<1>3. /\ Len(o) \in Nat /\ DOMAIN o = 1..Len(o)
      /\ DOMAIN Append(o, r) = 1..(Len(o) + 1)
      /\ Append(o, r)[Len(o) + 1] = r
      /\ \A i \in 1..Len(o) : Append(o, r)[i] = o[i]
  BY <1>1
<1>4. \A i \in 1..(Len(o) + 1) : i = Len(o) + 1 \/ i \in 1..Len(o)
  BY <1>3
<1>5. Len(o) + 1 \in 1..(Len(o) + 1)
  BY <1>3
<1>6. t.ops = Append(o, r)
  BY DEF o, r
<1>7. BeganIn(s) => BeganIn(t)
  BY <1>3, <1>4, <1>6 DEF BeganIn, o
<1>8. QED
  BY <1>2, <1>3, <1>4, <1>5, <1>6, <1>7 DEF o

LEMMA ApplyMoves ==
    ASSUME NEW s \in Snapshot, JobBudget(s), NEW q, JobRequest(q), NEW el \in Nat,
           Admits(s, q, el)
    PROVE  /\ Apply(s, q, el) \in Snapshot
           /\ JobBudget(Apply(s, q, el))
           /\ BudgetMoves(s, Apply(s, q, el), q.kind)
           /\ \E i \in DOMAIN Apply(s, q, el).ops : Apply(s, q, el).ops[i].req = q
<1> DEFINE t == Apply(s, q, el)
           x == JobPermit
<1>1. q \in Request /\ q.kind \in PermitKind /\ q.permit = x /\ x \in Permit
  BY JobAssumption DEF JobRequest
<1>2. Effect(s, t, q) /\ t.ops = Append(s.ops, [req |-> q, runtime |-> s.runtime + el])
  BY <1>1, ApplyEffect
<1>3. s.runtime + el \in Nat
  BY DEF Snapshot
<1> HIDE DEF t
<1>4. /\ \A i \in DOMAIN t.ops : t.ops[i].req = q \/ \E j \in DOMAIN s.ops : t.ops[i] = s.ops[j]
      /\ \E i \in DOMAIN t.ops : t.ops[i].req = q
      /\ BeganIn(s) => BeganIn(t)
  BY <1>1, <1>2, <1>3, RecordsOf
<1>5. t \in Snapshot /\ NamedPermit(s, t, q)
  BY <1>1, <1>2 DEF Effect
<1>6. /\ s.permit[x] \in {"none", "reserved", "started"}
      /\ s.settled[x] \in SettlementStatus \cup {"none"}
  BY <1>1 DEF Snapshot
<1>7. BeganIn(t) => BeganIn(s) \/ q.kind = "start"
  BY <1>4 DEF BeganIn
<1>8. ASSUME BudgetMoves(s, t, q.kind), BackedIn(t, q),
             AnsweredIn(t) => t.cancel[x].evidence \in Stage,
             t.settled[x] # "none" => t.permit[x] = "none",
             StartedIn(t) => StartedIn(s) \/ q.kind = "start"
      PROVE  JobBudget(t)
  <2>1. ASSUME NEW i \in DOMAIN s.ops PROVE BackedIn(t, s.ops[i].req)
    <3> DEFINE r == s.ops[i].req
    <3>1. BackedIn(s, r) /\ r \in Request
      <4> DEFINE o == s.ops
                 E == [req : Request, runtime : Nat]
      <4>1. o \in Seq(E) /\ i \in DOMAIN o
        BY <2>1 DEF Snapshot, Operations
      <4> HIDE DEF o, E
      <4>2. o[i] \in E
        BY <4>1
      <4>3. QED
        BY <2>1, <4>2 DEF JobBudget, o, E
    <3>2. r.kind = "settle" => r.status # "none"
      BY <3>1, RequestAssumption
    <3> HIDE DEF r
    <3>3. BackedIn(t, r)
      BY <1>8, <3>1, <3>2 DEF BackedIn, BudgetMoves
    <3>4. QED
      BY <3>3 DEF r
  <2>2. \A i \in DOMAIN t.ops : BackedIn(t, t.ops[i].req)
    BY <1>4, <1>8, <2>1
  <2>3. StartedIn(t) => BeganIn(t)
    BY <1>4, <1>8 DEF JobBudget, BeganIn
  <2>4. QED
    BY <1>8, <2>2, <2>3 DEF JobBudget
<1>9. CASE q.kind = "reserve"
  <2>1. s.settled[x] = "none" /\ s.permit[x] = "none"
    BY <1>1, <1>9 DEF Admits, AdmitReserve, Active, Settled
  <2>2. /\ BudgetMoves(s, t, q.kind) /\ BackedIn(t, q)
        /\ AnsweredIn(t) => t.cancel[x].evidence \in Stage
        /\ t.settled[x] # "none" => t.permit[x] = "none"
        /\ StartedIn(t) => StartedIn(s) \/ q.kind = "start"
    BY <1>1, <1>5, <1>7, <1>9, <2>1 DEF NamedPermit, BudgetMoves, BackedIn, StartedIn, AnsweredIn,
       JobBudget
  <2>3. QED
    BY <1>4, <1>5, <1>8, <2>2 DEF t
<1>10. CASE q.kind = "start"
  <2>1. s.settled[x] = "none" /\ s.permit[x] = "reserved"
    BY <1>1, <1>10 DEF Admits, AdmitStart, JobBudget
  <2>2. /\ BudgetMoves(s, t, q.kind) /\ BackedIn(t, q)
        /\ AnsweredIn(t) => t.cancel[x].evidence \in Stage
        /\ t.settled[x] # "none" => t.permit[x] = "none"
        /\ StartedIn(t) => StartedIn(s) \/ q.kind = "start"
    BY <1>1, <1>5, <1>7, <1>10, <2>1 DEF NamedPermit, BudgetMoves, BackedIn, StartedIn, AnsweredIn,
       JobBudget
  <2>3. QED
    BY <1>4, <1>5, <1>8, <2>2 DEF t
<1>11. CASE q.kind = "settle"
  <2>1. s.settled[x] = "none" /\ s.permit[x] = "started"
    BY <1>1, <1>11 DEF Admits, AdmitSettle, JobBudget
  <2>2. q.status \in {"succeeded", "failed", "cancelled", "effect_unknown"}
    BY <1>1, <1>11, RequestAssumption
  <2>3. /\ BudgetMoves(s, t, q.kind) /\ BackedIn(t, q)
        /\ AnsweredIn(t) => t.cancel[x].evidence \in Stage
        /\ t.settled[x] # "none" => t.permit[x] = "none"
        /\ StartedIn(t) => StartedIn(s) \/ q.kind = "start"
    BY <1>1, <1>5, <1>7, <1>11, <2>1, <2>2 DEF NamedPermit, BudgetMoves, BackedIn, StartedIn,
       AnsweredIn, JobBudget
  <2>4. QED
    BY <1>4, <1>5, <1>8, <2>3 DEF t
<1>12. CASE q.kind = "release"
  <2>1. s.settled[x] = "none" /\ s.permit[x] = "reserved"
    BY <1>1, <1>12 DEF Admits, JobBudget
  <2>2. /\ BudgetMoves(s, t, q.kind) /\ BackedIn(t, q)
        /\ AnsweredIn(t) => t.cancel[x].evidence \in Stage
        /\ t.settled[x] # "none" => t.permit[x] = "none"
        /\ StartedIn(t) => StartedIn(s) \/ q.kind = "start"
    BY <1>1, <1>5, <1>7, <1>12, <2>1 DEF NamedPermit, BudgetMoves, BackedIn, StartedIn, AnsweredIn,
       JobBudget
  <2>3. QED
    BY <1>4, <1>5, <1>8, <2>2 DEF t
<1>13. CASE q.kind = "request_cancel"
  <2>1. s.permit[x] # "none" /\ s.cancel[x].state = "not_requested"
    BY <1>1, <1>13 DEF Admits, AdmitRequestCancel, Active
  <2>2. /\ BudgetMoves(s, t, q.kind) /\ BackedIn(t, q)
        /\ AnsweredIn(t) => t.cancel[x].evidence \in Stage
        /\ t.settled[x] # "none" => t.permit[x] = "none"
        /\ StartedIn(t) => StartedIn(s) \/ q.kind = "start"
    BY <1>1, <1>5, <1>7, <1>13, <2>1 DEF NamedPermit, BudgetMoves, BackedIn, StartedIn, AnsweredIn,
       JobBudget
  <2>3. QED
    BY <1>4, <1>5, <1>8, <2>2 DEF t
<1>14. CASE q.kind = "record_cancel"
  <2>1. q.state \in {"acknowledged", "cancelled", "unconfirmed", "effect_unknown"}
    BY <1>1, <1>14 DEF Admits, AdmitRecordCancel
  <2>2. q.evidence \in Stage
    BY <1>14 DEF JobRequest
  <2>3. /\ BudgetMoves(s, t, q.kind) /\ BackedIn(t, q)
        /\ AnsweredIn(t) => t.cancel[x].evidence \in Stage
        /\ t.settled[x] # "none" => t.permit[x] = "none"
        /\ StartedIn(t) => StartedIn(s) \/ q.kind = "start"
    BY <1>1, <1>5, <1>7, <1>14, <2>1, <2>2 DEF NamedPermit, BudgetMoves, BackedIn, StartedIn,
       AnsweredIn, JobBudget
  <2>4. QED
    BY <1>4, <1>5, <1>8, <2>3 DEF t
<1>15. QED
  BY <1>1, <1>9, <1>10, <1>11, <1>12, <1>13, <1>14 DEF PermitKind, Kind

-----------------------------------------------------------------------------
(* The requests of the coordinator.                                        *)

LEMMA Requests ==
    /\ JobRequest(ReservePermit) /\ ReservePermit.kind = "reserve"
    /\ JobRequest(StartPermit) /\ StartPermit.kind = "start"
    /\ JobRequest(RequestCancellation) /\ RequestCancellation.kind = "request_cancel"
    /\ \A d \in Stage : JobRequest(ReleasePermit(d)) /\ ReleasePermit(d).kind = "release"
<1>1. \A d \in Stage : ReleasePermit(d) \in ReleaseRequest
  BY DEF ReleaseRequest
<1>2. /\ ReservePermit \in BudgetRequest /\ StartPermit \in BudgetRequest
      /\ RequestCancellation \in BudgetRequest
      /\ \A d \in Stage : ReleasePermit(d) \in BudgetRequest
  BY <1>1 DEF BudgetRequest
<1>3. QED
  BY <1>2, BudgetRequestAssumption DEF JobRequest, PermitKind, Kind, ReservePermit, StartPermit,
     RequestCancellation, ReleasePermit

\* The settlements that the coordinator makes.
Settles(q, status) ==
    JobRequest(q) /\ q.kind = "settle" /\ q.status = status

LEMMA Settlements ==
    /\ Settles(SettlePermit("settle", "succeeded", "outcome", Null, Null), "succeeded")
    /\ Settles(SettlePermit("settle", "failed", "outcome", Null, "tool"), "failed")
    /\ Settles(SettlePermit("settle", "cancelled", "outcome", "outcome", "cancel"), "cancelled")
    /\ Settles(SettlePermit("settle", "effect_unknown", "outcome", Null, "external"),
               "effect_unknown")
    /\ Settles(SettlePermit("settle-known-no-effect", "failed", "no_effect", Null, "policy"),
               "failed")
    /\ \A d \in Stage :
         /\ Settles(SettlePermit("settle-resume-unknown", "effect_unknown", d, Null, "external"),
                    "effect_unknown")
         /\ Settles(SettlePermit("settle-unknown", "effect_unknown", d, Null, "external"),
                    "effect_unknown")
         /\ Settles(SettlePermit("settle-cancel-recovery", "cancelled", d, d, "cancel"),
                    "cancelled")
<1>1. \A id, status, d, e, k :
        SettlePermit(id, status, d, e, k) \in BudgetRequest =>
          Settles(SettlePermit(id, status, d, e, k), status)
  <2>1. \A id, status, d, e, k :
          /\ SettlePermit(id, status, d, e, k).kind = "settle"
          /\ SettlePermit(id, status, d, e, k).status = status
          /\ SettlePermit(id, status, d, e, k).permit = JobPermit
    BY DEF SettlePermit
  <2>2. QED
    BY <2>1, BudgetRequestAssumption DEF Settles, JobRequest, PermitKind, Kind
<1>2. /\ SettlePermit("settle", "succeeded", "outcome", Null, Null) \in SettleRequest
      /\ SettlePermit("settle", "failed", "outcome", Null, "tool") \in SettleRequest
      /\ SettlePermit("settle", "cancelled", "outcome", "outcome", "cancel") \in SettleRequest
      /\ SettlePermit("settle", "effect_unknown", "outcome", Null, "external") \in SettleRequest
      /\ SettlePermit("settle-known-no-effect", "failed", "no_effect", Null, "policy")
           \in SettleRequest
  BY DEF SettleRequest
<1>3. \A d \in Stage :
        /\ SettlePermit("settle-resume-unknown", "effect_unknown", d, Null, "external")
             \in DoubtRequest
        /\ SettlePermit("settle-unknown", "effect_unknown", d, Null, "external") \in DoubtRequest
  BY DEF DoubtRequest
<1>4. \A d \in Stage :
        SettlePermit("settle-cancel-recovery", "cancelled", d, d, "cancel") \in CancelledRequest
  BY DEF CancelledRequest
<1>5. /\ SettleRequest \subseteq BudgetRequest /\ DoubtRequest \subseteq BudgetRequest
      /\ CancelledRequest \subseteq BudgetRequest
  BY DEF BudgetRequest
<1>6. QED
  BY <1>1, <1>2, <1>3, <1>4, <1>5

LEMMA Cancellations ==
    /\ JobRequest(RecordCancellation("cancel-ack", "acknowledged", "outcome", FALSE))
    /\ \A d \in Stage :
         /\ JobRequest(RecordCancellation("cancel-confirm", "cancelled", d, FALSE))
         /\ \A l \in BOOLEAN :
              JobRequest(RecordCancellation("cancel-unknown", "effect_unknown", d, l))
         /\ JobRequest(RecordCancellation("cancel-unknown-closed", "effect_unknown", d, FALSE))
    /\ \A id, state, d, l : RecordCancellation(id, state, d, l).kind = "record_cancel"
<1>1. \A d \in Stage : RecordCancellation("cancel-confirm", "cancelled", d, FALSE) \in ConfirmRequest
  BY DEF ConfirmRequest
<1>2. \A d \in Stage, l \in BOOLEAN :
        RecordCancellation("cancel-unknown", "effect_unknown", d, l) \in UnknownRequest
  BY DEF UnknownRequest
<1>3. \A d \in Stage :
        RecordCancellation("cancel-unknown-closed", "effect_unknown", d, FALSE) \in ClosedRequest
  BY DEF ClosedRequest
<1>4. /\ RecordCancellation("cancel-ack", "acknowledged", "outcome", FALSE) \in BudgetRequest
      /\ ConfirmRequest \subseteq BudgetRequest /\ UnknownRequest \subseteq BudgetRequest
      /\ ClosedRequest \subseteq BudgetRequest
  BY DEF BudgetRequest
<1>5. \A id, state, d, l :
        /\ RecordCancellation(id, state, d, l).kind = "record_cancel"
        /\ RecordCancellation(id, state, d, l).permit = JobPermit
        /\ RecordCancellation(id, state, d, l).evidence = d
  BY DEF RecordCancellation
<1>6. \A id, state, l : \A d \in Stage :
        RecordCancellation(id, state, d, l) \in BudgetRequest =>
          JobRequest(RecordCancellation(id, state, d, l))
  BY <1>5, BudgetRequestAssumption DEF JobRequest, PermitKind, Kind
<1>7. "outcome" \in Stage
  BY DEF Stage
<1>8. QED
  BY <1>1, <1>2, <1>3, <1>4, <1>5, <1>6, <1>7

-----------------------------------------------------------------------------
(* One call of a store.                                                    *)

TriesOf(p) == proc[p].pc = "settle_again" => proc[p].tries = 1

Typed ==
    /\ job \in JobState \cup {Null}
    /\ budget \in Snapshot
    /\ approval \in {"granted", "expired", "revoked"}
    /\ proc \in [Process -> ProcessState]
    /\ \A p \in Process : TriesOf(p)
    /\ alive \subseteq Controller /\ ran \subseteq Controller
    /\ EnvType

LEMMA TypedImplies == Typed => TypeOK
  BY DEF Typed, TypeOK, ProcessState, EnvType

LEMMA TransitShape ==
    ASSUME Typed, NEW p \in Process, NEW new, NEW ok \in Place, NEW err \in Place,
           Transit(p, new, ok, err)
    PROVE  /\ proc' \in [Process -> ProcessState] /\ Stays(p)
           /\ EnvType' /\ EnvStep
           /\ UNCHANGED <<budget, approval, alive, ran>>
           /\ \/ proc'[p].pc = ok /\ job' = new /\ Publishable(new)
              \/ proc'[p].pc = err /\ (job' = job \/ (job' = new /\ Publishable(new)))
<1>1. Fault \/ UNCHANGED env
  BY DEF Transit
<1>2. EnvType' /\ EnvStep
  BY <1>1, FaultStep DEF Typed
<1>3. \/ Goto(p, ok) /\ job' = new /\ Publishable(new)
      \/ Goto(p, err) /\ (job' = job \/ (job' = new /\ Publishable(new)))
  BY DEF Transit
<1>4. UNCHANGED <<budget, approval, alive, ran>>
  BY DEF Transit
<1>5. proc \in [Process -> ProcessState]
  BY DEF Typed
<1>6. QED
  BY <1>2, <1>3, <1>4, <1>5, GotoFields

LEMMA CallShape ==
    ASSUME Typed, JobBudget(budget), NEW p \in Process, NEW q, JobRequest(q),
           NEW ok \in Place, NEW err \in Place, BudgetCall(p, q, ok, err)
    PROVE  /\ proc' \in [Process -> ProcessState] /\ Stays(p)
           /\ EnvType' /\ EnvStep
           /\ UNCHANGED <<job, approval, alive, ran>>
           /\ budget' \in Snapshot /\ JobBudget(budget')
           /\ BudgetMoves(budget, budget', q.kind)
           /\ \/ proc'[p].pc = ok /\ BackedIn(budget', q)
              \/ proc'[p].pc = err
<1>1. PICK el \in env.elapsed :
         \/ /\ RecordedExactly(budget, q)
            /\ Goto(p, ok) /\ UNCHANGED <<budget, env>>
         \/ /\ Accepts(q, el)
            /\ budget' = Apply(budget, q, el) /\ Goto(p, ok) /\ UNCHANGED env
         \/ /\ ~RecordedExactly(budget, q) /\ ~Accepts(q, el)
            /\ Goto(p, err) /\ UNCHANGED <<budget, env>>
         \/ /\ Fault
            /\ budget' \in {budget} \cup {Apply(budget, x, el) : x \in {y \in {q} : Accepts(y, el)}}
            /\ Goto(p, err)
  BY DEF BudgetCall
<1>2. Fault \/ UNCHANGED env
  BY <1>1
<1>3. EnvType' /\ EnvStep
  BY <1>2, FaultStep DEF Typed
<1>4. UNCHANGED <<job, approval, alive, ran>>
  BY DEF BudgetCall
<1>5. budget \in Snapshot /\ proc \in [Process -> ProcessState] /\ el \in Nat
  BY DEF Typed, EnvType, Surroundings
<1>6. \/ Goto(p, ok) /\ RecordedExactly(budget, q) /\ budget' = budget
      \/ Goto(p, ok) /\ Accepts(q, el) /\ budget' = Apply(budget, q, el)
      \/ Goto(p, err) /\ (budget' = budget \/ (Accepts(q, el) /\ budget' = Apply(budget, q, el)))
  BY <1>1
<1>7. Accepts(q, el) => Admits(budget, q, el)
  BY DEF Accepts
<1>8. BudgetMoves(budget, budget, q.kind)
  BY DEF BudgetMoves
<1>9. JobBudget(budget) => \A i \in DOMAIN budget.ops : BackedIn(budget, budget.ops[i].req)
  BY DEF JobBudget
<1>10. ASSUME budget' = budget
       PROVE  /\ budget' \in Snapshot /\ JobBudget(budget')
              /\ BudgetMoves(budget, budget', q.kind)
              /\ RecordedExactly(budget, q) => BackedIn(budget', q)
  BY <1>5, <1>8, <1>9, <1>10 DEF RecordedExactly
<1>11. ASSUME Accepts(q, el), budget' = Apply(budget, q, el)
       PROVE  /\ budget' \in Snapshot /\ JobBudget(budget')
              /\ BudgetMoves(budget, budget', q.kind)
              /\ BackedIn(budget', q)
  <2> DEFINE t == Apply(budget, q, el)
  <2>1. /\ t \in Snapshot /\ JobBudget(t) /\ BudgetMoves(budget, t, q.kind)
        /\ \E i \in DOMAIN t.ops : t.ops[i].req = q
    BY <1>5, <1>7, <1>11, ApplyMoves
  <2> HIDE DEF t
  <2>2. BackedIn(t, q)
    BY <2>1 DEF JobBudget
  <2>3. QED
    BY <1>11, <2>1, <2>2 DEF t
<1>12. /\ budget' \in Snapshot /\ JobBudget(budget') /\ BudgetMoves(budget, budget', q.kind)
       /\ \/ Goto(p, ok) /\ BackedIn(budget', q)
          \/ Goto(p, err)
  BY <1>6, <1>10, <1>11
<1>13. QED
  BY <1>3, <1>4, <1>5, <1>12, GotoFields

\* What any call of the budget store leaves, whatever it answers.
CallEffect(p, kind) ==
    /\ proc' \in [Process -> ProcessState] /\ Stays(p)
    /\ EnvType' /\ EnvStep
    /\ UNCHANGED <<job, approval, alive, ran>>
    /\ budget' \in Snapshot /\ JobBudget(budget')
    /\ BudgetMoves(budget, budget', kind)

LEMMA CallHasEffect ==
    ASSUME Typed, JobBudget(budget), NEW p \in Process, NEW q, JobRequest(q),
           NEW ok \in Place, NEW err \in Place, BudgetCall(p, q, ok, err)
    PROVE  /\ CallEffect(p, q.kind)
           /\ (proc'[p].pc = ok /\ BackedIn(budget', q)) \/ proc'[p].pc = err
  BY CallShape DEF CallEffect

LEMMA MoveHasEffect ==
    ASSUME Typed, JobBudget(budget), NEW p \in Process, NEW pc \in Place, Moves(p, pc), NEW kind
    PROVE  CallEffect(p, kind) /\ proc'[p].pc = pc
<1>1. proc' \in [Process -> ProcessState] /\ Stays(p) /\ proc'[p].pc = pc
  BY GotoFields DEF Typed, Moves
<1>2. EnvType' /\ EnvStep
  BY FaultStep DEF Typed, Moves
<1>3. budget' = budget /\ budget \in Snapshot
  BY DEF Typed, Moves
<1>4. BudgetMoves(budget, budget', kind)
  BY <1>3 DEF BudgetMoves
<1>5. UNCHANGED <<job, approval, alive, ran>>
  BY DEF Moves
<1>6. QED
  BY <1>1, <1>2, <1>3, <1>4, <1>5 DEF CallEffect

LEMMA CloseHasEffect ==
    ASSUME Typed, JobBudget(budget), NEW p \in Process, NEW digest \in Stage,
           NEW live \in BOOLEAN, NEW ok \in Place, NEW err \in Place,
           CloseCancellation(p, digest, live, ok, err)
    PROVE  CallEffect(p, "record_cancel") /\ proc'[p].pc \in {ok, err}
<1>1. CASE BudgetCall(p, RecordCancellation("cancel-unknown", "effect_unknown", digest, live),
                      ok, err)
  <2> DEFINE q == RecordCancellation("cancel-unknown", "effect_unknown", digest, live)
  <2>1. JobRequest(q) /\ q.kind = "record_cancel"
    BY Cancellations
  <2> HIDE DEF q
  <2>2. QED
    BY <1>1, <2>1, CallHasEffect DEF q
<1>2. CASE /\ Cancellation.state = "effect_unknown"
           /\ BudgetCall(p, RecordCancellation("cancel-unknown-closed", "effect_unknown",
                                               Cancellation.evidence, FALSE), ok, err)
  <2> DEFINE q == RecordCancellation("cancel-unknown-closed", "effect_unknown",
                                     Cancellation.evidence, FALSE)
  <2>1. Cancellation.evidence \in Stage
    BY <1>2 DEF JobBudget, AnsweredIn, Cancellation
  <2>2. JobRequest(q) /\ q.kind = "record_cancel"
    BY <2>1, Cancellations
  <2>3. BudgetCall(p, q, ok, err)
    BY <1>2
  <2> HIDE DEF q
  <2>4. QED
    BY <2>2, <2>3, CallHasEffect
<1>3. CASE Moves(p, ok)
  BY <1>3, MoveHasEffect
<1>4. QED
  BY <1>1, <1>2, <1>3 DEF CloseCancellation

\* What a transition of the job leaves.
TransitEffect(p) ==
    /\ proc' \in [Process -> ProcessState] /\ Stays(p)
    /\ EnvType' /\ EnvStep
    /\ UNCHANGED <<budget, approval, alive, ran>>
    /\ job' \in JobState

LEMMA TransitHasEffect ==
    ASSUME Typed, job # Null, NEW p \in Process, NEW new \in JobState, NEW ok \in Place,
           NEW err \in Place, Transit(p, new, ok, err)
    PROVE  /\ TransitEffect(p)
           /\ \/ proc'[p].pc = ok /\ job' = new /\ Publishable(new)
              \/ proc'[p].pc = err /\ (job' = job \/ (job' = new /\ Publishable(new)))
<1>1. job \in JobState
  BY DEF Typed
<1>2. QED
  BY <1>1, TransitShape DEF TransitEffect

LEMMA CallTyped ==
    ASSUME Typed, NEW p \in Process, NEW kind, CallEffect(p, kind), TriesOf(p)'
    PROVE  Typed'
<1>1. \A q \in Process : TriesOf(q)'
  BY DEF Typed, CallEffect, Stays, Only, TriesOf
<1>2. QED
  BY <1>1 DEF Typed, CallEffect

LEMMA TransitTyped ==
    ASSUME Typed, NEW p \in Process, TransitEffect(p), TriesOf(p)'
    PROVE  Typed'
<1>1. \A q \in Process : TriesOf(q)'
  BY DEF Typed, TransitEffect, Stays, Only, TriesOf
<1>2. QED
  BY <1>1 DEF Typed, TransitEffect

-----------------------------------------------------------------------------
(* The inductive invariant.                                                *)

\* Where a controller has no job yet, and where it has one and is not done with it.
Outset == {"idle", "approve", "reserve", "create", "create_failed", "abandon"}
Unstarted ==
    {"prepare", "refuse", "refuse_job", "commit", "unlaunch", "unlaunch_release",
     "unlaunch_fail", "unlaunch_unknown", "admit", "start"}
Launching == {"admit", "start", "resume"}
Refusing == {"stop", "no_effect", "no_effect_job", "admission_unknown"}
Effected ==
    {"publish", "wait", "cancel_job", "cancel_budget", "cancel_stop", "cancel_failed",
     "settle", "settle_again", "settle_lost", "settle_unknown", "final"}
Judged == {"settle", "settle_again", "settle_lost", "settle_unknown", "final"}
Closing == {"ambiguous", "ambiguous_settle", "resume_unknown", "exit_unknown", "final_unknown",
            "unsettled"}
Committed == Launching \cup Refusing \cup Effected \cup Closing
Working == Unstarted \cup Committed \cup {"fallback"}

PcOf(p) == proc[p].pc
Named(c) == job # Null /\ job.process = c

Started == StartedIn(budget)
Began == BeganIn(budget)
Answered == AnsweredIn(budget)

\* What holds of a controller by the place where it is.
PlaceInv(c) ==
    /\ PcOf(c) \in Working => job # Null /\ job.process \in {Null, c}
    /\ PcOf(c) \in Committed => job.process = c
    /\ PcOf(c) \in {"prepare", "commit"} => job.process = Null
    /\ PcOf(c) \in Unstarted => ~Began
    /\ PcOf(c) = "resume" => Started
    /\ PcOf(c) \in Outset \cup Unstarted \cup Launching \cup (Refusing \ {"stop"}) =>
         ~proc[c].possible
    /\ PcOf(c) \in Effected => c \in ran
    /\ PcOf(c) \in Judged =>
         proc[c].evidence \in JobEvidence /\ (~proc[c].evidence.active => c \notin alive)
    /\ PcOf(c) = "settle_unknown" =>
         TreeGone(c) /\ (~proc[c].cancelled => proc[c].evidence.reason = "effect_unknown")
    /\ PcOf(c) \in {"ambiguous", "ambiguous_settle"} =>
         proc[c].then \in {"resume_unknown", "exit_unknown", "unsettled"}
    /\ PcOf(c) \in {"refuse_job", "unlaunch_fail"} => Settlement = "released_no_effect"
    /\ PcOf(c) = "no_effect_job" => Settlement \in {"failed", "overrun", "released_no_effect"}
    /\ PcOf(c) = "final" /\ TreeGone(c) /\ ~proc[c].cancelled =>
         /\ proc[c].evidence.reason = Null => Settlement \in {"succeeded", "overrun"}
         /\ proc[c].evidence.reason \in {"failed", "cancelled"} =>
              Settlement \in {"failed", "overrun"}

RanInv(c) == c \in ran => Named(c) /\ proc[c].possible /\ Started

\* Only the controller that made the job works on it.
Alone == \A c, d \in Controller : PcOf(c) \in Working /\ PcOf(d) \in Working => c = d

\* A job that is refused as without effect has none to come.
Refused ==
    job # Null /\ job.status = "failed" /\ job.refused =>
      ran = {} /\ \A c \in Controller : PcOf(c) \notin Launching

OperatorInv(o) ==
    /\ PcOf(o) # "idle" => job # Null
    /\ PcOf(o) = "recover_cancel" => Answered
    /\ PcOf(o) = "reconcile" =>
         Settlement # "none" /\ ProcessGone /\ job.status \in {"effect_unknown", "reconciled"}

\* With no operator beside a living controller, nothing changes under its launch.
CalmLaunch(c) ==
    /\ PcOf(c) \in Launching => job.status = "launch_committed"
    /\ PcOf(c) = "resume" => PermitStatus = "started"

\* With confirmed stops, a living child that ran holds its permit, and a
\* controller that closes in doubt has no living child.
CalmChild(c) ==
    /\ c \in ran \cap alive => Settlement = "none"
    /\ PcOf(c) \in {"ambiguous_settle", "resume_unknown", "exit_unknown"} => c \notin alive
    /\ PcOf(c) = "ambiguous" /\ c \in alive => StillLive(c)

CalmOf(c) ==
    ~env.concurrent => CalmLaunch(c) /\ (env.stops \subseteq {"wait"} => CalmChild(c))

CalmOperator(o) == ~env.concurrent /\ PcOf(o) # "idle" => Busy = {} /\ ProcessGone

ControllerInv(c) == PlaceInv(c) /\ RanInv(c) /\ CalmOf(c)

JobInv ==
    /\ JobBudget(budget)
    /\ Began => job # Null
    /\ \A c \in Controller : ControllerInv(c)
    /\ Alone
    /\ TerminalIsBacked
    /\ Refused
    /\ \A o \in Operator : OperatorInv(o) /\ CalmOperator(o)

-----------------------------------------------------------------------------
(* A step of the controller that works on the job.                         *)

JobStep(c) ==
    /\ job' \in JobState
    /\ job.process # Null => job'.process = job.process
    /\ job'.process \in {Null, c}
    /\ job.status \in {"effect_unknown", "reconciled"} =>
         job'.process = job.process /\ job'.status \in {"effect_unknown", "reconciled"}

PermitKept ==
    /\ JobBudget(budget')
    /\ Settlement # "none" => Settlement' = Settlement
    /\ Started => Started'
    /\ Answered => Answered'

ChildStep(c) ==
    /\ alive' \subseteq alive \/ (job' = job /\ job.process = Null /\ alive' = alive \cup {c})
    /\ ran' = ran \/ ran' = ran \cup {c}

WorkStep(c) == Only(c) /\ EnvStep /\ JobStep(c) /\ PermitKept /\ ChildStep(c)

LEMMA PlacesNest ==
    /\ Working \subseteq Place
    /\ Working \cap {"idle", "approve", "reserve", "create", "create_failed", "abandon", "done",
                     "crashed"} = {}
    /\ Launching \subseteq Committed /\ Refusing \subseteq Committed
    /\ Effected \subseteq Committed /\ Judged \subseteq Effected /\ Closing \subseteq Committed
    /\ Committed \subseteq Working /\ Unstarted \subseteq Working
  BY DEF Working, Unstarted, Committed, Launching, Refusing, Effected, Judged, Closing, Place

\* Another controller than the one that works on the job keeps its invariant.
LEMMA OthersKeep ==
    ASSUME JobInv, Typed, NEW c \in Controller, PcOf(c) \in Working, WorkStep(c),
           NEW d \in Controller \ {c}
    PROVE  ControllerInv(d)' /\ PcOf(d)' \notin Working
<1>1. PcOf(d) \notin Working
  BY DEF JobInv, Alone
<1>2. proc'[d] = proc[d]
  BY DEF WorkStep, Only, Process
<1>3. PcOf(d)' \notin Working
  BY <1>1, <1>2 DEF PcOf
<1>4. /\ PcOf(d)' \notin {"prepare", "commit"}
      /\ PcOf(d)' \notin {"refuse_job", "unlaunch_fail"}
      /\ PcOf(d)' \notin {"ambiguous", "ambiguous_settle", "resume_unknown", "exit_unknown"}
      /\ PcOf(d)' \notin Unstarted /\ PcOf(d)' \notin Launching /\ PcOf(d)' \notin Refusing
      /\ PcOf(d)' \notin Effected /\ PcOf(d)' \notin Judged /\ PcOf(d)' \notin Committed
      /\ PcOf(d)' # "resume" /\ PcOf(d)' # "settle_unknown" /\ PcOf(d)' # "no_effect_job"
      /\ PcOf(d)' # "final" /\ PcOf(d)' # "ambiguous"
  BY <1>3 DEF Working, Unstarted, Committed, Launching, Refusing, Effected, Judged, Closing
<1>5. PlaceInv(d)'
  BY <1>2, <1>3, <1>4 DEF PlaceInv, JobInv, ControllerInv, PcOf
<1>6. d \notin ran
  <2>1. d \in ran => job.process = d
    BY DEF JobInv, ControllerInv, RanInv, Named
  <2>2. job.process \in {Null, c}
    BY DEF JobInv, ControllerInv, PlaceInv
  <2>3. QED
    BY <2>1, <2>2, JobAssumption
<1>7. d \notin ran'
  BY <1>6 DEF WorkStep, ChildStep
<1>8. RanInv(d)'
  BY <1>7 DEF RanInv
<1>9. CalmOf(d)'
  BY <1>4, <1>7 DEF CalmOf, CalmLaunch, CalmChild
<1>10. QED
  BY <1>3, <1>5, <1>8, <1>9 DEF ControllerInv

LEMMA WorkerFrame ==
    ASSUME JobInv, Typed, NEW c \in Controller, PcOf(c) \in Working, WorkStep(c),
           ControllerInv(c)', TerminalIsBacked', Refused'
    PROVE  JobInv'
<1>1. \A d \in Controller : ControllerInv(d)'
  BY OthersKeep
<1>2. Alone'
  BY OthersKeep DEF Alone
<1>3. job # Null /\ job' # Null
  BY StateAssumption DEF JobInv, ControllerInv, PlaceInv, WorkStep, JobStep
<1>4. ASSUME NEW o \in Operator PROVE OperatorInv(o)' /\ CalmOperator(o)'
  <2>1. proc'[o] = proc[o]
    BY <1>4, JobAssumption DEF WorkStep, Only, Process
  <2>2. OperatorInv(o)
    BY <1>4 DEF JobInv
  <2>3. Settlement # "none" => Settlement' # "none"
    BY DEF WorkStep, PermitKept
  <2>4. ProcessGone /\ job.status \in {"effect_unknown", "reconciled"} => ProcessGone'
    BY DEF WorkStep, JobStep, ChildStep, ProcessGone
  <2>5. OperatorInv(o)'
    BY <1>3, <2>1, <2>2, <2>3, <2>4 DEF OperatorInv, PcOf, WorkStep, PermitKept, JobStep
  <2>6. c \in Busy
    BY PlacesNest DEF Busy, PcOf
  <2>7. CalmOperator(o)'
    BY <1>4, <2>1, <2>6 DEF JobInv, CalmOperator, PcOf, WorkStep, EnvStep
  <2>8. QED
    BY <2>5, <2>7
<1>5. JobBudget(budget') /\ (Began' => job' # Null)
  BY <1>3 DEF WorkStep, PermitKept
<1>6. QED
  BY <1>1, <1>2, <1>4, <1>5 DEF JobInv

\* The job does not change, or it is not at its end.
LEMMA JobKept ==
    ASSUME JobInv, Typed, NEW c \in Controller, PcOf(c) \in Working, WorkStep(c), job' = job,
           ran' # ran => PcOf(c) \in Launching,
           PcOf(c)' \in Launching => PcOf(c) \in Launching
    PROVE  TerminalIsBacked' /\ Refused'
<1>1. /\ job # Null /\ TerminalIsBacked /\ Refused
      /\ ran \subseteq ran'
      /\ \A d \in Controller : PcOf(d)' \in Launching => PcOf(d) \in Launching
  <2>1. \A d \in Controller \ {c} : PcOf(d)' = PcOf(d)
    BY DEF WorkStep, Only, Process, PcOf
  <2>2. QED
    BY <2>1 DEF JobInv, ControllerInv, PlaceInv, WorkStep, ChildStep
<1>2. job.process \in Controller /\ job.process \notin alive => job.process \notin alive'
  BY JobAssumption DEF WorkStep, ChildStep
<1>3. ran \subseteq Controller
  BY DEF Typed
<1>4. Settlement # "none" => Settlement' = Settlement
  BY DEF WorkStep, PermitKept
<1>5. ProcessGone => ProcessGone'
  BY DEF WorkStep, ChildStep, ProcessGone
<1>6. TerminalIsBacked'
  BY <1>1, <1>2, <1>3, <1>4, <1>5 DEF TerminalIsBacked
<1>7. ran' # ran => ~(job.status = "failed" /\ job.refused)
  BY <1>1 DEF Refused
<1>8. Refused'
  BY <1>1, <1>7 DEF Refused
<1>9. QED
  BY <1>6, <1>8

LEMMA JobOpen ==
    ASSUME job'.status \notin TerminalStatus
    PROVE  TerminalIsBacked' /\ Refused'
  BY DEF TerminalStatus, TerminalIsBacked, Refused

LEMMA TransitionTable ==
    /\ Status = {"prepared", "launch_committed", "running", "cancel_requested", "effect_unknown",
                 "cancelled", "reconciled", "completed", "failed"}
    /\ AllowedTransitions["effect_unknown"] = {"reconciled"}
    /\ \A end \in TerminalStatus : AllowedTransitions[end] = {}
    /\ TerminalStatus \subseteq Status
  BY DEF Status, AllowedTransitions, TerminalStatus

Doubting == {"ambiguous", "ambiguous_settle", "resume_unknown", "exit_unknown"}

LEMMA CallWorks ==
    ASSUME JobInv, Typed, NEW c \in Controller, PcOf(c) \in Working, NEW kind,
           CallEffect(c, kind)
    PROVE  WorkStep(c)
<1>1. job # Null /\ job.process \in {Null, c} /\ job \in JobState
  BY DEF JobInv, ControllerInv, PlaceInv, Typed
<1>2. JobStep(c) /\ ChildStep(c) /\ Only(c) /\ EnvStep
  BY <1>1 DEF JobStep, ChildStep, CallEffect, Stays
<1>3. PermitKept
  BY DEF PermitKept, CallEffect, BudgetMoves, Settlement, Started, Answered
<1>4. QED
  BY <1>2, <1>3 DEF WorkStep

LEMMA WorkerCall ==
    ASSUME JobInv, Typed, NEW c \in Controller, PcOf(c) \in Working, NEW kind,
           CallEffect(c, kind), TriesOf(c)', PlaceInv(c)', CalmOf(c)',
           PcOf(c)' \in Launching => PcOf(c) \in Launching
    PROVE  JobInv' /\ Typed'
<1>1. WorkStep(c)
  BY CallWorks
<1>2. job' = job /\ ran' = ran
  BY DEF CallEffect
<1>3. TerminalIsBacked' /\ Refused'
  BY <1>1, <1>2, JobKept
<1>4. RanInv(c)'
  BY <1>1, <1>2 DEF JobInv, ControllerInv, RanInv, Named, WorkStep, PermitKept, CallEffect, Stays
<1>5. JobInv'
  BY <1>1, <1>3, <1>4, WorkerFrame DEF ControllerInv
<1>6. Typed'
  BY CallTyped DEF Process
<1>7. QED
  BY <1>5, <1>6

\* Every stop is confirmed, and no operator acts beside a living controller.
Sure == ~env.concurrent /\ env.stops \subseteq {"wait"}

\* A call that leaves the launch and does not settle what may be alive is calm.
LEMMA CallCalm ==
    ASSUME JobInv, Typed, NEW c \in Controller, NEW kind, CallEffect(c, kind),
           PcOf(c)' \notin Launching,
           Sure /\ c \in alive => PcOf(c)' \notin Doubting,
           Sure /\ c \in ran \cap alive => kind # "settle"
    PROVE  CalmOf(c)'
<1>1. CalmOf(c) /\ RanInv(c) /\ (Settlement # "none" => PermitStatus = "none")
  BY DEF JobInv, ControllerInv, JobBudget, Settlement, PermitStatus
<1>2. c \in ran => kind = "settle" \/ Settlement' = Settlement
  BY <1>1 DEF RanInv, Started, StartedIn, CallEffect, BudgetMoves, Settlement, PermitStatus
<1>3. env'.concurrent = env.concurrent /\ env'.stops = env.stops /\ ran' = ran /\ alive' = alive
  BY DEF CallEffect, EnvStep
<1>4. CalmLaunch(c)'
  BY DEF CalmLaunch, Launching
<1>5. Sure => CalmChild(c)'
  BY <1>1, <1>2, <1>3 DEF Sure, CalmOf, CalmChild, Doubting
<1>6. QED
  BY <1>3, <1>4, <1>5 DEF CalmOf, Sure

LEMMA TransitWorks ==
    ASSUME JobInv, Typed, NEW c \in Controller, PcOf(c) \in Working, NEW new,
           TransitEffect(c), job' = job \/ (job' = new /\ Publishable(new)),
           new.process \in {job.process, c}
    PROVE  WorkStep(c)
<1>1. job # Null /\ job.process \in {Null, c} /\ job \in JobState
  BY DEF JobInv, ControllerInv, PlaceInv, Typed
<1>2. Publishable(new) =>
        /\ new.status \in AllowedTransitions[job.status]
        /\ new.process = job.process \/ (job.process = Null /\ job.status = "prepared")
  BY DEF Publishable, ValidTransition
<1>3. Publishable(new) /\ job.status \in {"effect_unknown", "reconciled"} =>
        new.status = "reconciled" /\ new.process = job.process
  BY <1>2, TransitionTable DEF TerminalStatus
<1>4. JobStep(c)
  BY <1>1, <1>2, <1>3 DEF JobStep, TransitEffect
<1>5. ChildStep(c) /\ Only(c) /\ EnvStep
  BY DEF ChildStep, TransitEffect, Stays
<1>6. PermitKept
  BY DEF PermitKept, TransitEffect, Settlement, Started, Answered, JobInv
<1>7. QED
  BY <1>4, <1>5, <1>6 DEF WorkStep

LEMMA WorkerTransit ==
    ASSUME JobInv, Typed, NEW c \in Controller, PcOf(c) \in Working, NEW new,
           TransitEffect(c), job' = job \/ (job' = new /\ Publishable(new)),
           new.process \in {job.process, c}, PlaceInv(c)', PcOf(c)' # "settle_again",
           PcOf(c)' \notin Doubting,
           PcOf(c)' \in Launching =>
             /\ job' = new /\ Publishable(new) /\ new.status = "launch_committed"
             /\ PcOf(c)' # "resume",
           job' = new /\ Publishable(new) => TerminalIsBacked' /\ Refused'
    PROVE  JobInv' /\ Typed'
<1>1. WorkStep(c)
  BY TransitWorks
<1>2. budget' = budget /\ alive' = alive /\ ran' = ran
  BY DEF TransitEffect
<1>3. TerminalIsBacked' /\ Refused'
  <2>1. CASE job' = new /\ Publishable(new)
    BY <2>1
  <2>2. CASE ~(job' = new /\ Publishable(new))
    <3>1. job' = job
      BY <2>2
    <3>2. PcOf(c)' \notin Launching
      BY <2>2, <3>1
    <3>3. QED
      BY <1>1, <1>2, <3>1, <3>2, JobKept
  <2>3. QED
    BY <2>1, <2>2
<1>4. RanInv(c)'
  BY <1>1, <1>2, StateAssumption, JobAssumption DEF JobInv, ControllerInv, RanInv, Named, WorkStep, JobStep, PermitKept,
     TransitEffect, Stays
<1>5. CalmOf(c)'
  <2>1. CalmOf(c)
    BY DEF JobInv, ControllerInv
  <2>2. env'.concurrent = env.concurrent /\ env'.stops = env.stops /\ Settlement' = Settlement
    BY <1>2 DEF TransitEffect, EnvStep, Settlement
  <2>3. CalmLaunch(c)'
    BY DEF CalmLaunch, Launching
  <2>4. QED
    BY <1>2, <2>1, <2>2, <2>3 DEF CalmOf, CalmChild, Doubting
<1>6. JobInv'
  BY <1>1, <1>3, <1>4, <1>5, WorkerFrame DEF ControllerInv
<1>7. Typed'
  <2>1. TriesOf(c)'
    BY DEF TriesOf, PcOf
  <2>2. QED
    BY <2>1, TransitTyped DEF Process
<1>8. QED
  BY <1>6, <1>7

-----------------------------------------------------------------------------
(* The transitions of the job that a controller makes.                     *)

LEMMA Successors ==
    ASSUME job \in JobState, NEW status \in Status
    PROVE  /\ Successor(status) \in JobState
           /\ Successor(status).status = status
           /\ Successor(status).process = job.process
           /\ Successor(status).refused = FALSE
  BY DEF Successor, JobState

LEMMA EvidenceFields ==
    ASSUME NEW j \in JobState, NEW e \in JobEvidence \cup {Null}
    PROVE  /\ WithEvidence(j, e) \in JobState
           /\ WithEvidence(j, e).status = j.status
           /\ WithEvidence(j, e).process = j.process
           /\ WithEvidence(j, e).refused = j.refused
           /\ WithEvidence(j, e).evidence = e
  BY DEF WithEvidence, JobState

LEMMA EasyTransit ==
    ASSUME JobInv, Typed, NEW c \in Controller, PcOf(c) \in Working, NEW new \in JobState,
           new.process = job.process, NEW ok \in {"done", "fallback"},
           NEW err \in {"done", "fallback"}, Transit(c, new, ok, err),
           job' = new /\ Publishable(new) => TerminalIsBacked' /\ Refused'
    PROVE  JobInv' /\ Typed'
<1>1. job # Null /\ c \in Process /\ ok \in Place /\ err \in Place
  BY DEF JobInv, ControllerInv, PlaceInv, Process, Place
<1>2. /\ TransitEffect(c) /\ PcOf(c)' \in {"done", "fallback"}
      /\ job' = job \/ (job' = new /\ Publishable(new))
  BY <1>1, TransitHasEffect DEF PcOf
<1>3. WorkStep(c)
  BY <1>2, TransitWorks
<1>4. /\ PcOf(c)' \notin Committed /\ PcOf(c)' \notin Unstarted /\ PcOf(c)' \notin Launching
      /\ PcOf(c)' \notin Refusing /\ PcOf(c)' \notin Effected /\ PcOf(c)' \notin Judged
      /\ PcOf(c)' \notin Doubting /\ PcOf(c)' \notin Outset
  BY <1>2 DEF Committed, Unstarted, Launching, Refusing, Effected, Judged, Closing, Doubting, Outset
<1>5. PlaceInv(c)'
  BY <1>2, <1>3, <1>4, StateAssumption DEF PlaceInv, WorkStep, JobStep
<1>6. QED
  BY <1>2, <1>4, <1>5, WorkerTransit

LEMMA UnknownTransit ==
    ASSUME JobInv, Typed, NEW c \in Controller, PcOf(c) \in Working, NEW new \in JobState,
           new.process = job.process, new.status = "effect_unknown", NEW ok \in {"done", "fallback"},
           NEW err \in {"done", "fallback"}, Transit(c, new, ok, err)
    PROVE  JobInv' /\ Typed'
<1>1. job' = new => TerminalIsBacked' /\ Refused'
  BY JobOpen DEF TerminalStatus
<1>2. QED
  BY <1>1, EasyTransit

LEMMA UnknownSteps ==
    ASSUME JobInv, Typed, NEW c \in Controller,
           \/ Fallback(c) \/ UnknownUnlaunched(c) \/ AdmissionUnknown(c) \/ ResumeUnknown(c)
           \/ ExitUnknown(c) \/ FinishUnknown(c)
    PROVE  JobInv' /\ Typed'
<1>1. PcOf(c) \in Working
  BY DEF PcOf, At, Fallback, UnknownUnlaunched, AdmissionUnknown, ResumeUnknown, ExitUnknown,
     FinishUnknown, Working, Committed, Unstarted, Refusing, Closing
<1>2. job \in JobState /\ proc[c].evidence \in JobEvidence \cup {Null}
  BY <1>1 DEF JobInv, ControllerInv, PlaceInv, Typed, ProcessState, Process
<1> DEFINE u == Successor("effect_unknown")
           v == [u EXCEPT !.recheck = TRUE]
           w == WithEvidence(u, proc[c].evidence)
<1>3. u \in JobState /\ u.process = job.process /\ u.status = "effect_unknown"
  BY <1>2, Successors, TransitionTable
<1>4. /\ Fallback(c) => Transit(c, u, "done", "done")
      /\ UnknownUnlaunched(c) => Transit(c, u, "done", "fallback")
      /\ AdmissionUnknown(c) => Transit(c, u, "done", "fallback")
      /\ ResumeUnknown(c) => Transit(c, v, "done", "done")
      /\ ExitUnknown(c) => Transit(c, u, "done", "done")
      /\ FinishUnknown(c) => Transit(c, w, "done", "done")
  BY DEF Fallback, UnknownUnlaunched, AdmissionUnknown, ResumeUnknown, ExitUnknown, FinishUnknown
<1> HIDE DEF u
<1>5. v \in JobState /\ v.process = job.process /\ v.status = "effect_unknown"
  BY <1>3 DEF JobState
<1>6. w \in JobState /\ w.process = job.process /\ w.status = "effect_unknown"
  BY <1>2, <1>3, EvidenceFields
<1> HIDE DEF v, w
<1>7. QED
  BY <1>1, <1>3, <1>4, <1>5, <1>6, UnknownTransit

LEMMA FailedSteps ==
    ASSUME JobInv, Typed, NEW c \in Controller, FailRefused(c) \/ FailUnlaunched(c)
    PROVE  JobInv' /\ Typed'
<1>1. PcOf(c) \in Working /\ Settlement = "released_no_effect"
  BY DEF PcOf, At, FailRefused, FailUnlaunched, Working, Unstarted, JobInv, ControllerInv, PlaceInv
<1>2. job \in JobState
  BY <1>1 DEF JobInv, ControllerInv, PlaceInv, Typed
<1> DEFINE u == Successor("failed")
<1>3. u \in JobState /\ u.process = job.process /\ u.status = "failed" /\ u.refused = FALSE
  BY <1>2, Successors, TransitionTable
<1>4. Transit(c, u, "done", "fallback")
  BY DEF FailRefused, FailUnlaunched
<1>5. Settlement' = Settlement
  BY <1>4 DEF Transit, Settlement
<1> HIDE DEF u
<1>6. job' = u => TerminalIsBacked' /\ Refused'
  BY <1>1, <1>3, <1>5 DEF TerminalIsBacked, Refused
<1>7. QED
  BY <1>1, <1>3, <1>4, <1>6, EasyTransit

LEMMA NoEffectStep ==
    ASSUME JobInv, Typed, NEW c \in Controller, FailNoEffect(c)
    PROVE  JobInv' /\ Typed'
<1>1. /\ PcOf(c) \in Working /\ PcOf(c) \in Committed
      /\ Settlement \in {"failed", "overrun", "released_no_effect"}
      /\ ~proc[c].possible
  BY DEF PcOf, At, FailNoEffect, Working, Committed, Refusing, JobInv, ControllerInv, PlaceInv
<1>2. job \in JobState /\ proc[c].evidence \in JobEvidence \cup {Null} /\ job.process = c
  BY <1>1 DEF JobInv, ControllerInv, PlaceInv, Typed, ProcessState, Process
<1> DEFINE u == Successor("failed")
           v == WithEvidence(u, proc[c].evidence)
           w == [v EXCEPT !.refused = TRUE]
<1>3. u \in JobState /\ u.process = job.process /\ u.status = "failed"
  BY <1>2, Successors, TransitionTable
<1>4. Transit(c, w, "done", "fallback")
  BY DEF FailNoEffect
<1> HIDE DEF u
<1>5. v \in JobState /\ v.process = job.process /\ v.status = "failed"
  BY <1>2, <1>3, EvidenceFields
<1> HIDE DEF v
<1>6. w \in JobState /\ w.process = job.process /\ w.status = "failed"
  BY <1>5 DEF JobState
<1> HIDE DEF w
<1>7. ran = {}
  <2>1. \A d \in ran : d \in Controller /\ job.process = d /\ proc[d].possible
    BY DEF JobInv, ControllerInv, RanInv, Named, Typed
  <2>2. QED
    BY <1>1, <1>2, <2>1
<1>8. /\ TransitEffect(c) /\ PcOf(c)' \in {"done", "fallback"}
      /\ job' = job \/ (job' = w /\ Publishable(w))
  <2>1. job # Null /\ c \in Process /\ "done" \in Place /\ "fallback" \in Place
    BY <1>2, StateAssumption DEF Process, Place
  <2>2. QED
    BY <1>4, <1>6, <2>1, TransitHasEffect DEF PcOf
<1>9. WorkStep(c)
  BY <1>1, <1>6, <1>8, TransitWorks
<1>10. \A d \in Controller : PcOf(d)' \notin Launching
  BY <1>1, <1>8, <1>9, OthersKeep, PlacesNest DEF Launching
<1>11. Settlement' = Settlement /\ ran' = ran
  BY <1>4 DEF Transit, Settlement
<1>12. job' = w => TerminalIsBacked' /\ Refused'
  BY <1>1, <1>6, <1>7, <1>10, <1>11 DEF TerminalIsBacked, Refused
<1>13. QED
  BY <1>1, <1>4, <1>6, <1>12, EasyTransit

LEMMA CommitStep ==
    ASSUME JobInv, Typed, NEW c \in Controller, CommitLaunch(c)
    PROVE  JobInv' /\ Typed'
<1>1. /\ PcOf(c) = "commit" /\ PcOf(c) \in Working /\ PcOf(c) \in Unstarted
  BY DEF PcOf, At, CommitLaunch, Working, Unstarted
<1>2. job # Null /\ job.process = Null /\ ~Began /\ ~proc[c].possible
  BY <1>1 DEF JobInv, ControllerInv, PlaceInv
<1>3. job \in JobState /\ c \in Process /\ "admit" \in Place /\ "unlaunch" \in Place
  BY <1>2 DEF Typed, Process, Place
<1> DEFINE u == Successor("launch_committed")
           w == [u EXCEPT !.process = c]
<1>4. u \in JobState /\ u.status = "launch_committed"
  BY <1>3, Successors, TransitionTable
<1>5. Transit(c, w, "admit", "unlaunch")
  BY DEF CommitLaunch
<1> HIDE DEF u
<1>6. w \in JobState /\ w.process = c /\ w.status = "launch_committed"
  BY <1>4 DEF JobState
<1> HIDE DEF w
<1>7. /\ TransitEffect(c)
      /\ \/ PcOf(c)' = "admit" /\ job' = w /\ Publishable(w)
         \/ PcOf(c)' = "unlaunch" /\ (job' = job \/ (job' = w /\ Publishable(w)))
  BY <1>2, <1>3, <1>5, <1>6, TransitHasEffect DEF PcOf
<1>8. job' # Null /\ job'.process \in {Null, c} /\ (job' = w => job'.process = c)
  BY <1>2, <1>6, <1>7, StateAssumption DEF TransitEffect
<1>9. ~Began' /\ ~(proc[c].possible)'
  BY <1>2, <1>7 DEF Began, BeganIn, TransitEffect, Stays
<1>10. PlaceInv(c)'
  <2>1. CASE PcOf(c)' = "admit"
    BY <1>7, <1>8, <1>9, <2>1 DEF PlaceInv, Unstarted, Effected, Judged, Refusing
  <2>2. CASE PcOf(c)' = "unlaunch"
    BY <1>8, <1>9, <2>2 DEF PlaceInv, Unstarted, Effected, Judged, Refusing, Committed, Launching,
       Closing
  <2>3. QED
    BY <1>7, <2>1, <2>2
<1>11. PcOf(c)' \notin Doubting /\ PcOf(c)' # "settle_again" /\ PcOf(c)' # "resume"
       /\ (PcOf(c)' \in Launching => PcOf(c)' = "admit")
  BY <1>7 DEF Doubting, Launching
<1>12. job' = w => TerminalIsBacked' /\ Refused'
  BY <1>6, JobOpen DEF TerminalStatus
<1>13. QED
  BY <1>1, <1>6, <1>7, <1>10, <1>11, <1>12, WorkerTransit

LEMMA RunningSteps ==
    ASSUME JobInv, Typed, NEW c \in Controller, PublishRunning(c) \/ CancelJob(c)
    PROVE  JobInv' /\ Typed'
<1>1. PcOf(c) \in Working /\ PcOf(c) \in Effected /\ PcOf(c) \in Committed
  BY DEF PcOf, At, PublishRunning, CancelJob, Working, Committed, Effected
<1>2. job # Null /\ job.process = c /\ c \in ran
  BY <1>1 DEF JobInv, ControllerInv, PlaceInv
<1>3. job \in JobState /\ c \in Process
      /\ {"wait", "stop", "cancel_budget", "cancel_failed"} \subseteq Place
  BY <1>2 DEF Typed, Process, Place
<1> DEFINE u == Successor("running")
           v == [u EXCEPT !.recheck = TRUE]
           w == Successor("cancel_requested")
<1>4. u \in JobState /\ u.status = "running" /\ u.process = c
  BY <1>2, <1>3, Successors, TransitionTable
<1>5. w \in JobState /\ w.status = "cancel_requested" /\ w.process = c
  BY <1>2, <1>3, Successors, TransitionTable
<1>6. \/ Transit(c, v, "wait", "stop")
      \/ Transit(c, w, "cancel_budget", "cancel_failed")
  BY DEF PublishRunning, CancelJob
<1> HIDE DEF u, w
<1>7. v \in JobState /\ v.process = c /\ v.status = "running"
  BY <1>4 DEF JobState
<1> HIDE DEF v
<1>8. PICK new \in {v, w} :
        /\ TransitEffect(c)
        /\ job' = job \/ (job' = new /\ Publishable(new))
        /\ PcOf(c)' \in {"wait", "stop", "cancel_budget", "cancel_failed"}
  BY <1>2, <1>3, <1>5, <1>6, <1>7, TransitHasEffect DEF PcOf
<1>9. new.process = c /\ new.status \notin TerminalStatus /\ new \in JobState
  BY <1>5, <1>7 DEF TerminalStatus
<1>10. job' # Null /\ job'.process = c /\ c \in ran'
  BY <1>2, <1>8, <1>9, StateAssumption DEF TransitEffect
<1>11. PcOf(c)' \notin Outset /\ PcOf(c)' \notin Unstarted /\ PcOf(c)' \notin Launching
       /\ PcOf(c)' \notin Judged /\ PcOf(c)' \notin Refusing \ {"stop"}
       /\ PcOf(c)' \notin Doubting
  BY <1>8 DEF Outset, Unstarted, Launching, Judged, Refusing, Doubting
<1>12. PlaceInv(c)'
  BY <1>8, <1>10, <1>11 DEF PlaceInv
<1>13. job' = new => TerminalIsBacked' /\ Refused'
  BY <1>9, JobOpen
<1>14. QED
  BY <1>1, <1>2, <1>8, <1>9, <1>11, <1>12, <1>13, WorkerTransit

LEMMA FinishStep ==
    ASSUME JobInv, Typed, NEW c \in Controller, Finish(c)
    PROVE  JobInv' /\ Typed'
<1>1. /\ PcOf(c) = "final" /\ PcOf(c) \in Working /\ PcOf(c) \in Committed
      /\ PcOf(c) \in Effected /\ PcOf(c) \in Judged
  BY DEF PcOf, At, Finish, Working, Committed, Effected, Judged
<1> DEFINE e == proc[c].evidence
           s == FinalStatus(c)
           u == Successor(s)
           w == WithEvidence(u, e)
<1>2. /\ job # Null /\ job.process = c /\ c \in ran
      /\ e \in JobEvidence /\ (~e.active => c \notin alive)
      /\ ~e.active /\ ~proc[c].cancelled =>
           /\ e.reason = Null => Settlement \in {"succeeded", "overrun"}
           /\ e.reason \in {"failed", "cancelled"} => Settlement \in {"failed", "overrun"}
  BY <1>1 DEF JobInv, ControllerInv, PlaceInv, TreeGone
<1>3. job \in JobState /\ c \in Process /\ "done" \in Place /\ "final_unknown" \in Place
  BY <1>2 DEF Typed, Process, Place
<1>4. /\ s \in {"effect_unknown", "cancelled", "completed", "failed"}
      /\ s = "cancelled" => ~e.active /\ Settlement = "cancelled"
      /\ s = "completed" => ~e.active /\ Settlement = "succeeded"
      /\ s = "failed" => Settlement \in {"failed", "overrun"}
  <2>1. e.active \in BOOLEAN /\ e.reason \in {Null, "cancelled", "failed", "effect_unknown"}
        /\ proc[c].cancelled \in BOOLEAN
    BY <1>2, <1>3 DEF JobEvidence, Typed, ProcessState
  <2>2. QED
    BY <1>2, <2>1 DEF FinalStatus, TreeGone, Settlement
<1>5. u \in JobState /\ u.status = s /\ u.process = c /\ u.refused = FALSE
  BY <1>2, <1>3, <1>4, Successors, TransitionTable
<1>6. Transit(c, w, "done", "final_unknown")
  BY DEF Finish
<1> HIDE DEF u, s
<1>7. w \in JobState /\ w.process = c /\ w.status = s /\ w.refused = FALSE
  BY <1>2, <1>5, EvidenceFields
<1> HIDE DEF w, e
<1>8. /\ TransitEffect(c)
      /\ job' = job \/ (job' = w /\ Publishable(w))
      /\ PcOf(c)' \in {"done", "final_unknown"}
  BY <1>2, <1>3, <1>6, <1>7, TransitHasEffect DEF PcOf
<1>9. job' # Null /\ job'.process = c /\ c \in ran' /\ ran' = ran /\ alive' = alive
      /\ Settlement' = Settlement
  BY <1>2, <1>7, <1>8, StateAssumption DEF TransitEffect, Settlement
<1>10. PcOf(c)' \notin Outset /\ PcOf(c)' \notin Unstarted /\ PcOf(c)' \notin Launching
       /\ PcOf(c)' \notin Judged /\ PcOf(c)' \notin Refusing /\ PcOf(c)' \notin Effected
       /\ PcOf(c)' \notin Doubting
  BY <1>8 DEF Outset, Unstarted, Launching, Judged, Refusing, Doubting, Effected
<1>11. PlaceInv(c)'
  BY <1>8, <1>9, <1>10 DEF PlaceInv
<1>12. job' = w => TerminalIsBacked' /\ Refused'
  BY <1>2, <1>4, <1>7, <1>9 DEF TerminalIsBacked, Refused
<1>13. QED
  BY <1>1, <1>2, <1>7, <1>8, <1>10, <1>11, <1>12, WorkerTransit

-----------------------------------------------------------------------------
(* The calls of the budget store that a controller makes.                  *)

\* What a call leaves as it was.
LEMMA CallFacts ==
    ASSUME NEW c, NEW kind, CallEffect(c, kind)
    PROVE  /\ job' = job /\ alive' = alive /\ ran' = ran
           /\ kind # "start" => (Began' => Began)
           /\ (proc[c].possible)' = proc[c].possible
           /\ (proc[c].evidence)' = proc[c].evidence
           /\ (proc[c].cancelled)' = proc[c].cancelled
           /\ (proc[c].then)' = proc[c].then
           /\ (proc[c].tries)' = proc[c].tries
           /\ TreeGone(c)' = TreeGone(c)
           /\ Started => Started'
           /\ Settlement # "none" => Settlement' = Settlement
  BY DEF CallEffect, BudgetMoves, Stays, Began, TreeGone, Started, Settlement

LEMMA ReleaseSteps ==
    ASSUME JobInv, Typed, NEW c \in Controller, ReleaseRefused(c) \/ ReleaseUnlaunched(c)
    PROVE  JobInv' /\ Typed'
<1>1. PcOf(c) \in {"refuse", "unlaunch_release"}
  BY DEF PcOf, At, ReleaseRefused, ReleaseUnlaunched
<1>2. PcOf(c) \in Working /\ PcOf(c) \in Unstarted
  BY <1>1 DEF Working, Unstarted
<1>3. /\ JobBudget(budget) /\ c \in Process /\ "prepare" \in Stage /\ "commit" \in Stage
      /\ {"refuse_job", "fallback", "unlaunch_fail", "unlaunch_unknown"} \subseteq Place
  BY DEF JobInv, Process, Stage, Place
<1>4. \/ BudgetCall(c, ReleasePermit("prepare"), "refuse_job", "fallback")
      \/ BudgetCall(c, ReleasePermit("commit"), "unlaunch_fail", "unlaunch_unknown")
  BY DEF ReleaseRefused, ReleaseUnlaunched
<1>5. PICK d \in {"prepare", "commit"} :
        /\ CallEffect(c, ReleasePermit(d).kind)
        /\ \/ PcOf(c)' \in {"refuse_job", "unlaunch_fail"} /\ BackedIn(budget', ReleasePermit(d))
           \/ PcOf(c)' \in {"fallback", "unlaunch_unknown"}
  BY <1>3, <1>4, Requests, CallHasEffect DEF PcOf
<1>6. /\ CallEffect(c, "release")
      /\ \/ PcOf(c)' \in {"refuse_job", "unlaunch_fail"} /\ Settlement' = "released_no_effect"
         \/ PcOf(c)' \in {"fallback", "unlaunch_unknown"}
  BY <1>3, <1>5, Requests DEF BackedIn, Settlement
<1>7. PcOf(c)' \notin Doubting /\ PcOf(c)' \notin Launching /\ PcOf(c)' \notin Committed
      /\ PcOf(c)' \notin Effected /\ PcOf(c)' \notin Judged /\ PcOf(c)' \notin Refusing
      /\ PcOf(c)' # "settle_again"
  BY <1>6 DEF Doubting, Launching, Committed, Refusing, Effected, Closing, Judged
<1>8. PlaceInv(c)'
  BY <1>2, <1>6, <1>7, CallFacts DEF JobInv, ControllerInv, PlaceInv
<1>9. CalmOf(c)' /\ TriesOf(c)'
  BY <1>6, <1>7, CallCalm DEF TriesOf, PcOf
<1>10. QED
  BY <1>2, <1>6, <1>7, <1>8, <1>9, WorkerCall

LEMMA StartStep ==
    ASSUME JobInv, Typed, NEW c \in Controller, StartBudget(c)
    PROVE  JobInv' /\ Typed'
<1>1. PcOf(c) = "start" /\ PcOf(c) \in Working /\ PcOf(c) \in Unstarted
      /\ PcOf(c) \in Launching /\ PcOf(c) \in Committed
  BY DEF PcOf, At, StartBudget, Working, Unstarted, Launching, Committed
<1>2. JobBudget(budget) /\ c \in Process /\ "resume" \in Place /\ "stop" \in Place
  BY DEF JobInv, Process, Place
<1>3. /\ CallEffect(c, "start")
      /\ \/ PcOf(c)' = "resume" /\ BackedIn(budget', StartPermit)
         \/ PcOf(c)' = "stop"
  BY <1>2, Requests, CallHasEffect DEF StartBudget, PcOf
<1>4. PcOf(c)' = "resume" => Started' /\ PermitStatus' = "started"
  <2>1. PcOf(c)' = "resume" => Started'
    BY <1>3, Requests DEF BackedIn, Started
  <2>2. ~StartedIn(budget)
    BY <1>1 DEF JobInv, ControllerInv, PlaceInv, Began, JobBudget
  <2>3. Settlement' = Settlement
    BY <1>3 DEF CallEffect, BudgetMoves, Settlement
  <2>4. QED
    BY <2>1, <2>2, <2>3 DEF Started, StartedIn, Settlement, PermitStatus
<1>5. PcOf(c)' \notin Effected /\ PcOf(c)' \notin Judged /\ PcOf(c)' \notin Unstarted
      /\ PcOf(c)' \notin Doubting /\ PcOf(c)' # "settle_again"
  BY <1>3 DEF Effected, Judged, Unstarted, Doubting
<1>6. PlaceInv(c)'
  BY <1>1, <1>3, <1>4, <1>5, CallFacts DEF JobInv, ControllerInv, PlaceInv, Refusing, Launching
<1>7. CalmOf(c)'
  <2>1. CASE PcOf(c)' = "resume"
    <3>1. CalmOf(c) /\ RanInv(c) /\ (Settlement' # "none" => PermitStatus' = "none")
      BY <1>3 DEF JobInv, ControllerInv, CallEffect, JobBudget, Settlement, PermitStatus
    <3>2. env'.concurrent = env.concurrent /\ job' = job
      BY <1>3 DEF CallEffect, EnvStep
    <3>3. QED
      BY <1>1, <1>4, <2>1, <3>1, <3>2 DEF CalmOf, CalmLaunch, CalmChild
  <2>2. CASE PcOf(c)' = "stop"
    BY <1>3, <2>2, CallCalm DEF Launching, Doubting
  <2>3. QED
    BY <1>3, <2>1, <2>2
<1>8. TriesOf(c)'
  BY <1>5 DEF TriesOf, PcOf
<1>9. QED
  BY <1>1, <1>3, <1>6, <1>7, <1>8, WorkerCall

LEMMA NoEffectClosed ==
    ASSUME JobInv, Typed, NEW c \in Controller, CloseNoEffect(c)
    PROVE  JobInv' /\ Typed'
<1>1. PcOf(c) = "no_effect" /\ PcOf(c) \in Working /\ PcOf(c) \in Committed
      /\ PcOf(c) \in Refusing \ {"stop"}
  BY DEF PcOf, At, CloseNoEffect, Working, Committed, Refusing
<1>2. job.process = c /\ c \notin ran /\ ~proc[c].possible
  BY <1>1 DEF JobInv, ControllerInv, PlaceInv, RanInv
<1>3. /\ JobBudget(budget) /\ c \in Process /\ "no_effect" \in Stage
      /\ "no_effect_job" \in Place /\ "admission_unknown" \in Place
  BY DEF JobInv, Process, Stage, Place
<1> DEFINE r == ReleasePermit("no_effect")
           q == SettlePermit("settle-known-no-effect", "failed", "no_effect", Null, "policy")
<1>4. JobRequest(r) /\ r.kind = "release" /\ JobRequest(q) /\ q.kind = "settle"
      /\ q.status = "failed"
  BY <1>3, Requests, Settlements DEF Settles
<1>5. \/ BudgetCall(c, r, "no_effect_job", "admission_unknown")
      \/ BudgetCall(c, q, "no_effect_job", "admission_unknown")
      \/ Moves(c, "no_effect_job") /\ Settlement \in {"failed", "released_no_effect"}
      \/ Moves(c, "admission_unknown")
  BY DEF CloseNoEffect, Settlement
<1> HIDE DEF r, q
<1>6. PICK kind \in {"release", "settle"} :
        /\ CallEffect(c, kind)
        /\ \/ /\ PcOf(c)' = "no_effect_job"
              /\ Settlement' \in {"failed", "overrun", "released_no_effect"}
           \/ PcOf(c)' = "admission_unknown"
  <2>1. CASE BudgetCall(c, r, "no_effect_job", "admission_unknown")
    BY <1>3, <1>4, <2>1, CallHasEffect DEF PcOf, BackedIn, Settlement
  <2>2. CASE BudgetCall(c, q, "no_effect_job", "admission_unknown")
    BY <1>3, <1>4, <2>2, CallHasEffect DEF PcOf, BackedIn, Settlement
  <2>3. CASE Moves(c, "no_effect_job") /\ Settlement \in {"failed", "released_no_effect"}
    <3>1. Settlement' = Settlement
      BY <2>3 DEF Moves, Settlement
    <3>2. CallEffect(c, "release") /\ PcOf(c)' = "no_effect_job"
      BY <1>3, <2>3, MoveHasEffect DEF PcOf
    <3>3. QED
      BY <2>3, <3>1, <3>2
  <2>4. CASE Moves(c, "admission_unknown")
    BY <1>3, <2>4, MoveHasEffect DEF PcOf
  <2>5. QED
    BY <1>5, <2>1, <2>2, <2>3, <2>4
<1>7. PcOf(c)' \notin Doubting /\ PcOf(c)' \notin Launching /\ PcOf(c)' \notin Unstarted
      /\ PcOf(c)' \notin Effected /\ PcOf(c)' \notin Judged /\ PcOf(c)' # "settle_again"
  BY <1>6 DEF Doubting, Launching, Unstarted, Effected, Judged
<1>8. PlaceInv(c)'
  BY <1>1, <1>2, <1>6, <1>7, CallFacts DEF JobInv, ControllerInv, PlaceInv
<1>9. CalmOf(c)' /\ TriesOf(c)'
  BY <1>2, <1>6, <1>7, CallCalm DEF TriesOf, PcOf
<1>10. QED
  BY <1>1, <1>6, <1>7, <1>8, <1>9, WorkerCall

\* A call that closes an ambiguous effect.
LEMMA DoubtCall ==
    ASSUME JobInv, Typed, NEW c \in Controller, PcOf(c) \in {"ambiguous", "ambiguous_settle"},
           NEW kind, CallEffect(c, kind), PcOf(c)' \in {proc[c].then, "ambiguous_settle"},
           Sure /\ c \in alive => PcOf(c)' \notin Doubting /\ kind # "settle"
    PROVE  JobInv' /\ Typed'
<1>1. PcOf(c) \in Working /\ PcOf(c) \in Committed
  BY DEF Working, Committed, Closing
<1>2. /\ job # Null /\ job.process = c
      /\ proc[c].then \in {"resume_unknown", "exit_unknown", "unsettled"}
  BY <1>1 DEF JobInv, ControllerInv, PlaceInv
<1>3. PcOf(c)' \in {"resume_unknown", "exit_unknown", "unsettled", "ambiguous_settle"}
  BY <1>2
<1>4. PcOf(c)' \notin Outset /\ PcOf(c)' \notin Launching /\ PcOf(c)' \notin Unstarted
      /\ PcOf(c)' \notin Effected /\ PcOf(c)' \notin Judged /\ PcOf(c)' \notin Refusing
      /\ PcOf(c)' # "settle_again"
  BY <1>3 DEF Launching, Unstarted, Effected, Judged, Refusing, Outset
<1>5. PlaceInv(c)'
  BY <1>2, <1>3, <1>4, CallFacts DEF PlaceInv
<1>6. CalmOf(c)' /\ TriesOf(c)'
  BY <1>4, CallCalm DEF TriesOf, PcOf
<1>7. QED
  BY <1>1, <1>4, <1>5, <1>6, WorkerCall

LEMMA AmbiguousClosed ==
    ASSUME JobInv, Typed, NEW c \in Controller, CloseAmbiguous(c)
    PROVE  JobInv' /\ Typed'
<1>1. PcOf(c) = "ambiguous" /\ PcOf(c) \in Working
  BY DEF PcOf, At, CloseAmbiguous, Working, Committed, Closing
<1>2. /\ JobBudget(budget) /\ c \in Process /\ proc[c].digest \in Stage
      /\ proc[c].then \in Place /\ "ambiguous_settle" \in Place
      /\ proc[c].then \in {"resume_unknown", "exit_unknown", "unsettled"}
      /\ Sure /\ c \in alive => StillLive(c)
  BY <1>1 DEF JobInv, ControllerInv, PlaceInv, CalmOf, CalmChild, Sure, Typed, ProcessState, Process,
     Place
<1> DEFINE next == IF StillLive(c) THEN proc[c].then ELSE "ambiguous_settle"
           then == proc[c].then
           live == StillLive(c)
           digest == proc[c].digest
<1>3. live \in BOOLEAN
  BY Zenon DEF StillLive
<1>4. next \in Place /\ next \in {then, "ambiguous_settle"} /\ (StillLive(c) => next = then)
  BY <1>2
<1>5. \/ Moves(c, then)
      \/ BudgetCall(c, ReleasePermit(digest), then, then)
      \/ CloseCancellation(c, digest, live, next, then)
  BY DEF CloseAmbiguous
<1> HIDE DEF next, live, then, digest
<1>6. then \in Place /\ digest \in Stage /\ then = proc[c].then
  BY <1>2 DEF then, digest
<1>7. PICK kind \in {"release", "record_cancel"} :
        CallEffect(c, kind) /\ PcOf(c)' \in {next, then}
  <2>1. CASE Moves(c, then)
    BY <1>2, <1>6, <2>1, MoveHasEffect DEF PcOf
  <2>2. CASE BudgetCall(c, ReleasePermit(digest), then, then)
    BY <1>2, <1>6, <2>2, Requests, CallHasEffect DEF PcOf
  <2>3. CASE CloseCancellation(c, digest, live, next, then)
    BY <1>2, <1>3, <1>4, <1>6, <2>3, CloseHasEffect DEF PcOf
  <2>4. QED
    BY <1>5, <2>1, <2>2, <2>3
<1>8. StillLive(c) => PcOf(c)' = "unsettled"
  BY <1>4, <1>6, <1>7 DEF StillLive
<1>9. Sure /\ c \in alive => PcOf(c)' \notin Doubting
  BY <1>2, <1>8 DEF Doubting
<1>10. QED
  BY <1>1, <1>4, <1>6, <1>7, <1>9, DoubtCall

LEMMA AmbiguousSettled ==
    ASSUME JobInv, Typed, NEW c \in Controller, SettleAmbiguous(c)
    PROVE  JobInv' /\ Typed'
<1>1. PcOf(c) = "ambiguous_settle"
  BY DEF PcOf, At, SettleAmbiguous
<1>2. /\ JobBudget(budget) /\ c \in Process /\ proc[c].digest \in Stage /\ proc[c].then \in Place
      /\ Sure => c \notin alive
  BY <1>1 DEF JobInv, ControllerInv, CalmOf, CalmChild, Sure, Typed, ProcessState, Process
<1> DEFINE q == SettlePermit("settle-resume-unknown", "effect_unknown", proc[c].digest, Null,
                             "external")
<1>3. JobRequest(q) /\ q.kind = "settle"
  BY <1>2, Settlements DEF Settles
<1>4. BudgetCall(c, q, proc[c].then, proc[c].then)
  BY DEF SettleAmbiguous
<1> HIDE DEF q
<1>5. CallEffect(c, "settle") /\ PcOf(c)' = proc[c].then
  BY <1>2, <1>3, <1>4, CallHasEffect DEF PcOf
<1>6. QED
  BY <1>1, <1>2, <1>5, DoubtCall

LEMMA CancelCalled ==
    ASSUME JobInv, Typed, NEW c \in Controller, CancelBudget(c)
    PROVE  JobInv' /\ Typed'
<1>1. PcOf(c) \in Effected /\ PcOf(c) \in Committed /\ PcOf(c) \in Working
  BY DEF PcOf, At, CancelBudget, Effected, Committed, Working
<1>2. job # Null /\ job.process = c /\ c \in ran
  BY <1>1 DEF JobInv, ControllerInv, PlaceInv
<1>3. JobBudget(budget) /\ c \in Process /\ "cancel_stop" \in Place /\ "cancel_failed" \in Place
  BY DEF JobInv, Process, Place
<1>4. CallEffect(c, "request_cancel") /\ PcOf(c)' \in {"cancel_stop", "cancel_failed"}
  BY <1>3, Requests, CallHasEffect DEF CancelBudget, PcOf
<1>5. PcOf(c)' \notin Outset /\ PcOf(c)' \notin Launching /\ PcOf(c)' \notin Unstarted
      /\ PcOf(c)' \notin Judged /\ PcOf(c)' \notin Refusing
      /\ PcOf(c)' \notin Doubting /\ PcOf(c)' # "settle_again"
  BY <1>4 DEF Launching, Unstarted, Judged, Refusing, Outset, Doubting
<1>6. PlaceInv(c)'
  BY <1>2, <1>4, <1>5, CallFacts DEF PlaceInv
<1>7. CalmOf(c)' /\ TriesOf(c)'
  BY <1>4, <1>5, CallCalm DEF TriesOf, PcOf
<1>8. QED
  BY <1>1, <1>4, <1>5, <1>6, <1>7, WorkerCall

\* A call of _settle_outcome.
LEMMA JudgedCall ==
    ASSUME JobInv, Typed, NEW c \in Controller, PcOf(c) \in {"settle", "settle_unknown"},
           NEW kind, CallEffect(c, kind), PcOf(c)' \in Judged,
           kind = "settle" => TreeGone(c),
           kind # "start",
           PcOf(c)' = "settle_again" => proc[c].tries = 1,
           PcOf(c)' = "settle_unknown" =>
             TreeGone(c) /\ (~proc[c].cancelled => proc[c].evidence.reason = "effect_unknown"),
           PcOf(c)' = "final" /\ TreeGone(c) /\ ~proc[c].cancelled =>
             /\ proc[c].evidence.reason = Null => Settlement' \in {"succeeded", "overrun"}
             /\ proc[c].evidence.reason \in {"failed", "cancelled"} =>
                  Settlement' \in {"failed", "overrun"}
    PROVE  JobInv' /\ Typed'
<1>1. PcOf(c) \in Judged /\ PcOf(c) \in Effected /\ PcOf(c) \in Committed /\ PcOf(c) \in Working
  BY DEF Judged, Effected, Committed, Working
<1>2. /\ job # Null /\ job.process = c /\ c \in ran /\ proc[c].evidence \in JobEvidence
      /\ ~proc[c].evidence.active => c \notin alive
  BY <1>1 DEF JobInv, ControllerInv, PlaceInv
<1>3. PcOf(c)' \notin Outset /\ PcOf(c)' \notin Launching /\ PcOf(c)' \notin Unstarted
      /\ PcOf(c)' \notin Refusing /\ PcOf(c)' \notin Doubting
  BY DEF Launching, Unstarted, Judged, Refusing, Outset, Doubting
<1>4. PlaceInv(c)'
  BY <1>2, <1>3, CallFacts, ZenonT(60)
     DEF PlaceInv, PcOf, Judged, Outset, Launching, Unstarted, Refusing,
     Doubting
<1>5. TreeGone(c) => c \notin alive
  BY <1>2 DEF TreeGone
<1>6. CalmOf(c)'
  BY <1>3, <1>5, CallCalm
<1>7. TriesOf(c)'
  BY CallFacts DEF TriesOf, PcOf
<1>8. QED
  BY <1>1, <1>3, <1>4, <1>6, <1>7, WorkerCall

LEMMA RetryPlaces ==
    ASSUME Typed, NEW c \in Controller
    PROVE  /\ RetryPc(c) \in {"settle_again", "settle_lost"}
           /\ RetryPc(c) = "settle_again" => proc[c].tries = 1
           /\ RetryPc(c) \in Place /\ RetryPc(c) \in Judged
  BY DEF RetryPc, Place, Judged

LEMMA UnclosedSettled ==
    ASSUME JobInv, Typed, NEW c \in Controller, SettleUnclosed(c)
    PROVE  JobInv' /\ Typed'
<1>1. PcOf(c) = "settle" /\ ~TreeGone(c)
  BY DEF PcOf, At, SettleUnclosed
<1>2. /\ JobBudget(budget) /\ c \in Process /\ "outcome" \in Stage /\ "final" \in Place
      /\ TRUE \in BOOLEAN
  BY DEF JobInv, Process, Stage, Place
<1>3. CallEffect(c, "record_cancel") /\ PcOf(c)' \in {"final", RetryPc(c)}
  BY <1>2, RetryPlaces, CloseHasEffect DEF SettleUnclosed, PcOf
<1>4. /\ PcOf(c)' \in Judged /\ PcOf(c)' # "settle_unknown"
      /\ PcOf(c)' = "settle_again" => proc[c].tries = 1
  BY <1>3, RetryPlaces DEF Judged
<1>5. QED
  BY <1>1, <1>3, <1>4, JudgedCall

LEMMA CancelledSettled ==
    ASSUME JobInv, Typed, NEW c \in Controller, SettleCancelled(c)
    PROVE  JobInv' /\ Typed'
<1>1. PcOf(c) = "settle" /\ TreeGone(c) /\ proc[c].cancelled
  BY DEF PcOf, At, SettleCancelled
<1>2. /\ JobBudget(budget) /\ c \in Process /\ "outcome" \in Stage /\ "final" \in Place
      /\ "settle" \in Place /\ "settle_unknown" \in Place /\ FALSE \in BOOLEAN
  BY DEF JobInv, Process, Stage, Place
<1>3. RetryPc(c) \in Place
  BY RetryPlaces
<1> DEFINE a == RecordCancellation("cancel-ack", "acknowledged", "outcome", FALSE)
           b == RecordCancellation("cancel-confirm", "cancelled", Cancellation.evidence, FALSE)
           q == SettlePermit("settle", "cancelled", "outcome", "outcome", "cancel")
<1>4. JobRequest(a) /\ a.kind = "record_cancel" /\ JobRequest(q) /\ q.kind = "settle"
  BY Cancellations, Settlements DEF Settles
<1>5. \/ BudgetCall(c, a, "settle", RetryPc(c))
      \/ Cancellation.state = "acknowledged" /\ BudgetCall(c, b, "settle", RetryPc(c))
      \/ BudgetCall(c, q, "final", RetryPc(c))
      \/ CloseCancellation(c, "outcome", FALSE, "settle_unknown", RetryPc(c))
  BY DEF SettleCancelled
<1>6. Cancellation.state = "acknowledged" => JobRequest(b) /\ b.kind = "record_cancel"
  <2>1. Cancellation.state = "acknowledged" => Cancellation.evidence \in Stage
    BY <1>2 DEF JobBudget, AnsweredIn, Cancellation
  <2>2. QED
    BY <2>1, Cancellations
<1> HIDE DEF a, b, q
<1>7. PICK kind \in {"settle", "record_cancel"} :
        CallEffect(c, kind) /\ PcOf(c)' \in {"settle", "final", "settle_unknown", RetryPc(c)}
  <2>1. CASE BudgetCall(c, a, "settle", RetryPc(c))
    BY <1>2, <1>3, <1>4, <2>1, CallHasEffect DEF PcOf
  <2>2. CASE Cancellation.state = "acknowledged" /\ BudgetCall(c, b, "settle", RetryPc(c))
    BY <1>2, <1>3, <1>6, <2>2, CallHasEffect DEF PcOf
  <2>3. CASE BudgetCall(c, q, "final", RetryPc(c))
    BY <1>2, <1>3, <1>4, <2>3, CallHasEffect DEF PcOf
  <2>4. CASE CloseCancellation(c, "outcome", FALSE, "settle_unknown", RetryPc(c))
    BY <1>2, <1>3, <2>4, CloseHasEffect DEF PcOf
  <2>5. QED
    BY <1>5, <2>1, <2>2, <2>3, <2>4
<1>8. PcOf(c)' \in Judged /\ (PcOf(c)' = "settle_again" => proc[c].tries = 1)
  BY <1>7, RetryPlaces DEF Judged
<1>9. QED
  BY <1>1, <1>7, <1>8, JudgedCall

LEMMA KnownSettled ==
    ASSUME JobInv, Typed, NEW c \in Controller, SettleKnown(c)
    PROVE  JobInv' /\ Typed'
<1>1. PcOf(c) = "settle" /\ TreeGone(c)
  BY DEF PcOf, At, SettleKnown
<1>2. /\ JobBudget(budget) /\ c \in Process /\ "outcome" \in Stage /\ "final" \in Place
      /\ "settle_unknown" \in Place /\ FALSE \in BOOLEAN
  BY DEF JobInv, Process, Stage, Place
<1>3. RetryPc(c) \in Place /\ RetryPc(c) \in {"settle_again", "settle_lost"}
  BY RetryPlaces
<1> DEFINE a == SettlePermit("settle", "succeeded", "outcome", Null, Null)
           b == SettlePermit("settle", "failed", "outcome", Null, "tool")
           why == proc[c].evidence.reason
<1>4. /\ JobRequest(a) /\ a.kind = "settle" /\ a.status = "succeeded"
      /\ JobRequest(b) /\ b.kind = "settle" /\ b.status = "failed"
  BY Settlements DEF Settles
<1>5. \/ /\ why = "effect_unknown"
         /\ CloseCancellation(c, "outcome", FALSE, "settle_unknown", RetryPc(c))
      \/ why = Null /\ BudgetCall(c, a, "final", RetryPc(c))
      \/ why \in {"failed", "cancelled"} /\ BudgetCall(c, b, "final", RetryPc(c))
  BY DEF SettleKnown
<1>6. Null \notin {"failed", "cancelled", "effect_unknown"}
  BY StateAssumption
<1> HIDE DEF a, b, why
<1>7. PICK kind \in {"settle", "record_cancel"} :
        /\ CallEffect(c, kind) /\ PcOf(c)' \in {"final", "settle_unknown", RetryPc(c)}
        /\ PcOf(c)' = "settle_unknown" => why = "effect_unknown"
        /\ PcOf(c)' = "final" =>
             /\ why = Null => Settlement' \in {"succeeded", "overrun"}
             /\ why \in {"failed", "cancelled"} => Settlement' \in {"failed", "overrun"}
  <2>1. CASE /\ why = "effect_unknown"
             /\ CloseCancellation(c, "outcome", FALSE, "settle_unknown", RetryPc(c))
    <3>1. CallEffect(c, "record_cancel") /\ PcOf(c)' \in {"settle_unknown", RetryPc(c)}
      BY <1>2, <1>3, <2>1, CloseHasEffect DEF PcOf
    <3>2. QED
      BY <1>3, <2>1, <3>1
  <2>2. CASE why = Null /\ BudgetCall(c, a, "final", RetryPc(c))
    <3>1. /\ CallEffect(c, "settle") /\ PcOf(c)' \in {"final", RetryPc(c)}
          /\ PcOf(c)' = "final" => BackedIn(budget', a)
      BY <1>2, <1>3, <1>4, <2>2, CallHasEffect DEF PcOf
    <3>2. PcOf(c)' = "final" => Settlement' \in {"succeeded", "overrun"}
      BY <1>4, <3>1 DEF BackedIn, Settlement
    <3>3. QED
      BY <1>3, <1>6, <2>2, <3>1, <3>2
  <2>3. CASE why \in {"failed", "cancelled"} /\ BudgetCall(c, b, "final", RetryPc(c))
    <3>1. /\ CallEffect(c, "settle") /\ PcOf(c)' \in {"final", RetryPc(c)}
          /\ PcOf(c)' = "final" => BackedIn(budget', b)
      BY <1>2, <1>3, <1>4, <2>3, CallHasEffect DEF PcOf
    <3>2. PcOf(c)' = "final" => Settlement' \in {"failed", "overrun"}
      BY <1>4, <3>1 DEF BackedIn, Settlement
    <3>3. QED
      BY <1>3, <1>6, <2>3, <3>1, <3>2
  <2>4. QED
    BY <1>5, <2>1, <2>2, <2>3
<1>8. PcOf(c)' \in Judged /\ (PcOf(c)' = "settle_again" => proc[c].tries = 1)
  BY <1>7, RetryPlaces DEF Judged
<1>9. QED
  BY <1>1, <1>7, <1>8, JudgedCall DEF why

LEMMA UnknownSettled ==
    ASSUME JobInv, Typed, NEW c \in Controller, SettleUnknown(c)
    PROVE  JobInv' /\ Typed'
<1>1. PcOf(c) = "settle_unknown"
  BY DEF PcOf, At, SettleUnknown
<1>2. TreeGone(c) /\ (~proc[c].cancelled => proc[c].evidence.reason = "effect_unknown")
  BY <1>1 DEF JobInv, ControllerInv, PlaceInv
<1>3. JobBudget(budget) /\ c \in Process /\ "final" \in Place
  BY DEF JobInv, Process, Place
<1> DEFINE q == SettlePermit("settle", "effect_unknown", "outcome", Null, "external")
<1>4. JobRequest(q) /\ q.kind = "settle"
  BY Settlements DEF Settles
<1>5. BudgetCall(c, q, "final", RetryPc(c))
  BY DEF SettleUnknown
<1> HIDE DEF q
<1>6. CallEffect(c, "settle") /\ PcOf(c)' \in {"final", RetryPc(c)}
  BY <1>3, <1>4, <1>5, RetryPlaces, CallHasEffect DEF PcOf
<1>7. /\ PcOf(c)' \in Judged /\ PcOf(c)' # "settle_unknown"
      /\ PcOf(c)' = "settle_again" => proc[c].tries = 1
  BY <1>6, RetryPlaces DEF Judged
<1>8. ~proc[c].cancelled => proc[c].evidence.reason \notin {Null, "failed", "cancelled"}
  BY <1>2, StateAssumption
<1>9. QED
  BY <1>1, <1>2, <1>6, <1>7, <1>8, JudgedCall

-----------------------------------------------------------------------------
(* The steps of a working controller that call no store.                   *)

LEMMA LocalWorks ==
    ASSUME JobInv, Typed, NEW c \in Controller, PcOf(c) \in Working, Only(c),
           UNCHANGED <<job, budget>>, Fault \/ UNCHANGED env, ChildStep(c)
    PROVE  WorkStep(c)
<1>1. job # Null /\ job.process \in {Null, c} /\ job \in JobState
  BY DEF JobInv, ControllerInv, PlaceInv, Typed
<1>2. JobStep(c)
  BY <1>1 DEF JobStep
<1>3. EnvStep
  BY FaultStep DEF Typed
<1>4. PermitKept
  BY DEF PermitKept, JobInv, Settlement, Started, Answered
<1>5. QED
  BY <1>2, <1>3, <1>4 DEF WorkStep

LEMMA LocalStep ==
    ASSUME JobInv, Typed, NEW c \in Controller, PcOf(c) \in Working, Only(c),
           proc' \in [Process -> ProcessState], UNCHANGED <<job, budget, approval>>,
           Fault \/ UNCHANGED env, ChildStep(c), alive' \subseteq Controller, TriesOf(c)',
           ControllerInv(c)',
           ran' # ran => PcOf(c) \in Launching,
           PcOf(c)' \in Launching => PcOf(c) \in Launching
    PROVE  JobInv' /\ Typed'
<1>1. WorkStep(c)
  BY LocalWorks
<1>2. TerminalIsBacked' /\ Refused'
  BY <1>1, JobKept
<1>3. JobInv'
  BY <1>1, <1>2, WorkerFrame
<1>4. EnvType'
  BY FaultStep DEF Typed
<1>5. \A q \in Process : TriesOf(q)'
  BY DEF Typed, Only, TriesOf
<1>6. ran' \subseteq Controller
  BY DEF ChildStep, Typed
<1>7. Typed'
  BY <1>4, <1>5, <1>6 DEF Typed
<1>8. QED
  BY <1>3, <1>7

\* A step that resumes no child and creates none.
LEMMA PlainStep ==
    ASSUME JobInv, Typed, NEW c \in Controller, PcOf(c) \in Working, Only(c),
           proc' \in [Process -> ProcessState], UNCHANGED <<job, budget, approval, ran>>,
           Fault \/ UNCHANGED env, alive' \subseteq alive, TriesOf(c)',
           proc'[c].possible = proc[c].possible, PlaceInv(c)',
           PcOf(c)' \in Launching => PcOf(c) = "admit" /\ PcOf(c)' = "start",
           Sure /\ c \in alive' => /\ PcOf(c)' \notin Doubting \ {"ambiguous"}
                                   /\ PcOf(c)' = "ambiguous" => StillLive(c)'
    PROVE  JobInv' /\ Typed'
<1>1. CalmOf(c) /\ RanInv(c)
  BY DEF JobInv, ControllerInv
<1>2. Settlement' = Settlement /\ Started' = Started
  BY DEF Settlement, Started
<1>3. RanInv(c)'
  BY <1>1, <1>2 DEF RanInv, Named
<1>4. env'.concurrent = env.concurrent /\ env'.stops = env.stops
  BY FaultStep DEF Typed, EnvStep
<1>5. ~env.concurrent => CalmLaunch(c)'
  BY <1>1 DEF CalmOf, CalmLaunch, Launching
<1>6. Sure => CalmChild(c)'
  BY <1>1, <1>2 DEF Sure, CalmOf, CalmChild, Doubting
<1>7. CalmOf(c)'
  BY <1>4, <1>5, <1>6 DEF CalmOf, Sure
<1>8. ChildStep(c) /\ alive' \subseteq Controller
  BY DEF ChildStep, Typed
<1>9. PcOf(c)' \in Launching => PcOf(c) \in Launching
  BY DEF Launching
<1>10. QED
  BY <1>3, <1>7, <1>8, <1>9, LocalStep DEF ControllerInv

LEMMA PrepareSteps ==
    ASSUME JobInv, Typed, NEW c \in Controller, PrepareChild(c) \/ PrepareFails(c)
    PROVE  JobInv' /\ Typed'
<1>1. PcOf(c) = "prepare" /\ PcOf(c) \in Working /\ PcOf(c) \in Unstarted /\ c \in Process
  BY DEF PcOf, At, PrepareChild, PrepareFails, Working, Unstarted, Process
<1>2. job # Null /\ job.process = Null /\ ~Began /\ ~proc[c].possible /\ CalmOf(c) /\ RanInv(c)
  BY <1>1 DEF JobInv, ControllerInv, PlaceInv
<1>3. "commit" \in Place /\ "refuse" \in Place /\ proc \in [Process -> ProcessState]
  BY DEF Place, Typed
<1>4. proc' \in [Process -> ProcessState] /\ Stays(c) /\ PcOf(c)' \in {"commit", "refuse"}
  BY <1>1, <1>3, GotoFields DEF PrepareChild, PrepareFails, PcOf
<1>5. UNCHANGED <<job, budget, approval, ran>> /\ (Fault \/ UNCHANGED env)
  BY DEF PrepareChild, PrepareFails
<1>6. alive' = alive \/ alive' = alive \cup {c}
  BY DEF PrepareChild, PrepareFails
<1>7. ~Began'
  BY <1>2, <1>5 DEF Began
<1>8. PcOf(c)' \notin Launching /\ PcOf(c)' \notin Committed /\ PcOf(c)' \notin Effected
      /\ PcOf(c)' \notin Judged /\ PcOf(c)' \notin Doubting /\ PcOf(c)' # "settle_again"
  BY <1>4 DEF Launching, Committed, Refusing, Effected, Closing, Judged, Doubting
<1>9. PlaceInv(c)'
  BY <1>2, <1>4, <1>5, <1>7, <1>8 DEF PlaceInv, Stays
<1>10. c \notin ran'
  BY <1>2, <1>5, JobAssumption DEF RanInv, Named
<1>11. RanInv(c)' /\ CalmOf(c)'
  BY <1>8, <1>10 DEF RanInv, CalmOf, CalmLaunch, CalmChild, Launching, Doubting
<1>12. ChildStep(c) /\ alive' \subseteq Controller
  BY <1>2, <1>5, <1>6 DEF ChildStep, Typed
<1>13. TriesOf(c)' /\ Only(c)
  BY <1>4, <1>8 DEF TriesOf, PcOf, Stays
<1>14. QED
  BY <1>1, <1>4, <1>5, <1>8, <1>9, <1>11, <1>12, <1>13, LocalStep DEF ControllerInv

LEMMA MoveSteps ==
    ASSUME JobInv, Typed, NEW c \in Controller, Unlaunch(c) \/ CancelWanted(c)
    PROVE  JobInv' /\ Typed'
<1>1. /\ PcOf(c) \in {"unlaunch", "wait"} /\ PcOf(c) \in Working /\ c \in Process
      /\ Unlaunch(c) => PcOf(c) \in Unstarted
      /\ CancelWanted(c) => PcOf(c) \in Committed /\ PcOf(c) \in Effected
  BY DEF PcOf, At, Unlaunch, CancelWanted, Working, Unstarted, Committed, Effected, Process
<1>2. /\ job # Null /\ job.process \in {Null, c}
      /\ Unlaunch(c) => ~Began /\ ~proc[c].possible
      /\ CancelWanted(c) => job.process = c /\ c \in ran
  BY <1>1 DEF JobInv, ControllerInv, PlaceInv
<1>3. "unlaunch_release" \in Place /\ "cancel_job" \in Place /\ proc \in [Process -> ProcessState]
  BY DEF Place, Typed
<1>4. /\ proc' \in [Process -> ProcessState] /\ Stays(c)
      /\ \/ Unlaunch(c) /\ PcOf(c)' = "unlaunch_release"
         \/ CancelWanted(c) /\ PcOf(c)' = "cancel_job"
  BY <1>1, <1>3, GotoFields DEF Unlaunch, CancelWanted, Moves, PcOf
<1>5. UNCHANGED <<job, budget, approval, ran, env>> /\ alive' \subseteq alive
  BY DEF Unlaunch, CancelWanted, Moves
<1>6. Began' = Began
  BY <1>5 DEF Began
<1>7. PcOf(c)' \notin Launching /\ PcOf(c)' \notin Judged /\ PcOf(c)' \notin Doubting
      /\ PcOf(c)' # "settle_again" /\ PcOf(c)' \notin Refusing
      /\ (Unlaunch(c) => PcOf(c)' \notin Committed /\ PcOf(c)' \notin Effected)
      /\ (CancelWanted(c) => PcOf(c)' \notin Outset /\ PcOf(c)' \notin Unstarted)
  <2>1. CASE PcOf(c)' = "unlaunch_release" /\ PcOf(c) = "unlaunch"
    BY <2>1 DEF Launching, Committed, Refusing, Effected, Closing, Judged, Doubting, CancelWanted,
       At, PcOf
  <2>2. CASE PcOf(c)' = "cancel_job" /\ PcOf(c) = "wait"
    BY <2>2 DEF Launching, Committed, Refusing, Effected, Closing, Judged, Doubting, Unlaunch, At,
       PcOf, Outset, Unstarted
  <2>3. QED
    BY <1>4, <2>1, <2>2 DEF Unlaunch, CancelWanted, At, PcOf
<1>8. PlaceInv(c)'
  BY <1>2, <1>4, <1>5, <1>6, <1>7 DEF PlaceInv, Stays
<1>9. TriesOf(c)' /\ Only(c) /\ proc'[c].possible = proc[c].possible
  BY <1>4, <1>7 DEF TriesOf, PcOf, Stays
<1>10. QED
  BY <1>1, <1>4, <1>5, <1>7, <1>8, <1>9, PlainStep DEF Doubting

LEMMA RecordStep ==
    ASSUME Typed, NEW c \in Process, NEW r \in ProcessState, proc' = [proc EXCEPT ![c] = r]
    PROVE  proc' \in [Process -> ProcessState] /\ Only(c) /\ proc'[c] = r
  BY DEF Typed, Only

LEMMA AdmitStep ==
    ASSUME JobInv, Typed, NEW c \in Controller, AdmitEffect(c)
    PROVE  JobInv' /\ Typed'
<1>1. /\ PcOf(c) = "admit" /\ PcOf(c) \in Working /\ PcOf(c) \in Committed
      /\ PcOf(c) \in Unstarted /\ PcOf(c) \in Launching /\ c \in Process
  BY DEF PcOf, At, AdmitEffect, Working, Committed, Launching, Unstarted, Process
<1>2. /\ job # Null /\ job.process = c /\ ~Began /\ ~proc[c].possible
  BY <1>1 DEF JobInv, ControllerInv, PlaceInv
<1>3. "start" \in Place /\ "stop" \in Place /\ proc \in [Process -> ProcessState]
      /\ proc[c] \in ProcessState
  BY <1>1 DEF Place, Typed
<1>4. UNCHANGED <<job, budget, approval, alive, ran>> /\ (Fault \/ UNCHANGED env)
  BY DEF AdmitEffect
<1>5. /\ proc' \in [Process -> ProcessState] /\ Only(c)
      /\ PcOf(c)' \in {"start", "stop"} /\ proc'[c].possible = proc[c].possible
  <2>1. CASE Goto(c, "stop")
    BY <1>1, <1>3, <2>1, GotoFields DEF Stays, PcOf
  <2>2. CASE proc' = [proc EXCEPT ![c].identity = TRUE,
                                  ![c].pc = IF approval = "granted" THEN "start" ELSE "stop"]
    <3> DEFINE r == [proc[c] EXCEPT !.identity = TRUE,
                                    !.pc = IF approval = "granted" THEN "start" ELSE "stop"]
    <3>1. r \in ProcessState /\ r.pc \in {"start", "stop"} /\ r.possible = proc[c].possible
      BY <1>3 DEF ProcessState
    <3>2. proc' = [proc EXCEPT ![c] = r]
      BY <1>1, <1>3, <2>2
    <3> HIDE DEF r
    <3>3. QED
      BY <1>1, <3>1, <3>2, RecordStep DEF PcOf
  <2>3. QED
    BY <2>1, <2>2 DEF AdmitEffect
<1>6. ~Began'
  BY <1>2, <1>4 DEF Began
<1>7. PcOf(c)' \notin Judged /\ PcOf(c)' \notin Doubting /\ PcOf(c)' \notin Effected
      /\ PcOf(c)' # "settle_again"
      /\ (PcOf(c)' \in Launching => PcOf(c)' = "start")
  BY <1>5 DEF Launching, Effected, Judged, Doubting
<1>8. PlaceInv(c)'
  BY <1>2, <1>4, <1>5, <1>6, <1>7 DEF PlaceInv
<1>9. TriesOf(c)'
  BY <1>7 DEF TriesOf, PcOf
<1>10. QED
  BY <1>1, <1>4, <1>5, <1>7, <1>8, <1>9, PlainStep

LEMMA ResumeStep ==
    ASSUME JobInv, Typed, NEW c \in Controller, Resume(c)
    PROVE  JobInv' /\ Typed'
<1>1. /\ PcOf(c) = "resume" /\ PcOf(c) \in Working /\ PcOf(c) \in Committed
      /\ PcOf(c) \in Launching /\ c \in Process
  BY DEF PcOf, At, Resume, Working, Committed, Launching, Process
<1>2. /\ job # Null /\ job.process = c /\ ~proc[c].possible /\ Started
      /\ CalmOf(c) /\ RanInv(c) /\ JobBudget(budget)
  BY <1>1 DEF JobInv, ControllerInv, PlaceInv
<1>3. "publish" \in Place /\ "stop" \in Place /\ proc \in [Process -> ProcessState]
      /\ proc[c] \in ProcessState
  BY <1>1 DEF Place, Typed
<1>4. UNCHANGED <<job, budget, approval, alive>> /\ (Fault \/ UNCHANGED env)
  BY DEF Resume
<1>5. /\ proc' \in [Process -> ProcessState] /\ Only(c)
      /\ \/ PcOf(c)' = "publish" /\ proc'[c].possible = TRUE /\ ran' = ran \cup {c}
         \/ PcOf(c)' = "stop" /\ proc'[c].possible = TRUE /\ ran' \in {ran, ran \cup {c}}
         \/ PcOf(c)' = "stop" /\ ran' = ran
  <2> DEFINE r(b, pc) == [proc[c] EXCEPT !.possible = b, !.pc = pc]
  <2>1. ASSUME NEW b \in BOOLEAN, NEW pc \in {"publish", "stop"}
        PROVE  r(b, pc) \in ProcessState /\ r(b, pc).pc = pc /\ r(b, pc).possible = b
    BY <1>3, <2>1 DEF ProcessState
  <2>2. CASE /\ ran' = ran \cup {c}
             /\ proc' = [proc EXCEPT ![c].possible = TRUE, ![c].pc = "publish"]
    <3>1. proc' = [proc EXCEPT ![c] = r(TRUE, "publish")]
      BY <1>1, <1>3, <2>2
    <3> HIDE DEF r
    <3>2. QED
      BY <1>1, <2>1, <2>2, <3>1, RecordStep DEF PcOf
  <2>3. CASE /\ ran' \in {ran, ran \cup {c}}
             /\ proc' = [proc EXCEPT ![c].possible = TRUE, ![c].pc = "stop"]
    <3>1. proc' = [proc EXCEPT ![c] = r(TRUE, "stop")]
      BY <1>1, <1>3, <2>3
    <3> HIDE DEF r
    <3>2. QED
      BY <1>1, <2>1, <2>3, <3>1, RecordStep DEF PcOf
  <2>4. CASE ran' = ran /\ proc' = [proc EXCEPT ![c].pc = "stop"]
    BY <1>1, <1>3, <2>4, GotoFields DEF Goto, Stays, PcOf
  <2>5. QED
    BY <2>2, <2>3, <2>4 DEF Resume
<1>6. PcOf(c)' \notin Launching /\ PcOf(c)' \notin Unstarted /\ PcOf(c)' \notin Outset
      /\ PcOf(c)' \notin Judged /\ PcOf(c)' \notin Doubting /\ PcOf(c)' # "settle_again"
      /\ PcOf(c)' \notin Refusing \ {"stop"} /\ (PcOf(c)' \in Effected => PcOf(c)' = "publish")
  BY <1>5 DEF Launching, Unstarted, Outset, Judged, Doubting, Refusing, Effected
<1>7. PlaceInv(c)'
  BY <1>2, <1>4, <1>5, <1>6 DEF PlaceInv
<1>8. Started' = Started /\ Settlement' = Settlement
  BY <1>4 DEF Started, Settlement
<1>9. RanInv(c)'
  BY <1>2, <1>4, <1>5, <1>8 DEF RanInv, Named
<1>10. ~env.concurrent => Settlement = "none"
  BY <1>1, <1>2 DEF CalmOf, CalmLaunch, JobBudget, Settlement, PermitStatus
<1>11. env'.concurrent = env.concurrent
  BY <1>4, FaultStep DEF Typed, EnvStep
<1>12. CalmOf(c)'
  BY <1>6, <1>8, <1>10, <1>11 DEF CalmOf, CalmLaunch, CalmChild, Launching, Doubting
<1>13. ChildStep(c) /\ alive' \subseteq Controller
  BY <1>4, <1>5 DEF ChildStep, Typed
<1>14. TriesOf(c)'
  BY <1>6 DEF TriesOf, PcOf
<1>15. QED
  BY <1>1, <1>4, <1>5, <1>6, <1>7, <1>9, <1>12, <1>13, <1>14, LocalStep DEF ControllerInv

LEMMA StopStep ==
    ASSUME JobInv, Typed, NEW c \in Controller, Stop(c)
    PROVE  JobInv' /\ Typed'
<1>1. /\ PcOf(c) = "stop" /\ PcOf(c) \in Working /\ PcOf(c) \in Committed /\ c \in Process
  BY DEF PcOf, At, Stop, Working, Committed, Refusing, Process
<1>2. job # Null /\ job.process = c
  BY <1>1 DEF JobInv, ControllerInv, PlaceInv
<1>3. proc \in [Process -> ProcessState] /\ proc[c] \in ProcessState
  BY <1>1 DEF Typed
<1>4. UNCHANGED <<job, budget, approval, ran, env>>
  BY DEF Stop
<1>5. PICK active \in BOOLEAN, complete \in BOOLEAN :
        /\ active => "resume" \in env.stops /\ c \in alive
        /\ alive' = IF active THEN alive ELSE alive \ {c}
        /\ IF proc[c].possible
           THEN proc' = [proc EXCEPT ![c].pc = "ambiguous", ![c].then = "resume_unknown",
                                     ![c].digest = "resume"]
           ELSE proc' = [proc EXCEPT
                           ![c].evidence = StopEvidence(c, active, complete),
                           ![c].pc = IF /\ TreeClosed(StopEvidence(c, active, complete))
                                        /\ StopEvidence(c, active, complete).complete
                                     THEN "no_effect" ELSE "admission_unknown"]
  BY DEF Stop
<1>6. alive' \subseteq alive /\ (Sure => c \notin alive')
  BY <1>5 DEF Sure
<1>7. /\ proc' \in [Process -> ProcessState] /\ Only(c)
      /\ proc'[c].possible = proc[c].possible
      /\ \/ PcOf(c)' = "ambiguous" /\ proc'[c].then = "resume_unknown"
         \/ PcOf(c)' \in {"no_effect", "admission_unknown"} /\ ~proc[c].possible
  <2>1. CASE proc[c].possible
    <3> DEFINE r == [proc[c] EXCEPT !.pc = "ambiguous", !.then = "resume_unknown",
                                    !.digest = "resume"]
    <3>1. "ambiguous" \in Place /\ "resume_unknown" \in Place /\ "resume" \in Stage
      BY DEF Place, Stage
    <3>2. r \in ProcessState /\ r.pc = "ambiguous" /\ r.then = "resume_unknown"
          /\ r.possible = proc[c].possible
      BY <1>3, <3>1 DEF ProcessState
    <3>3. proc' = [proc EXCEPT ![c] = r]
      BY <1>1, <1>3, <1>5, <2>1
    <3> HIDE DEF r
    <3>4. QED
      BY <1>1, <3>2, <3>3, RecordStep DEF PcOf
  <2>2. CASE ~proc[c].possible
    <3> DEFINE e == StopEvidence(c, active, complete)
               x == IF TreeClosed(e) /\ e.complete THEN "no_effect" ELSE "admission_unknown"
               r == [proc[c] EXCEPT !.evidence = e, !.pc = x]
    <3>1. e \in JobEvidence
      <4>1. proc[c].identity \in BOOLEAN
        BY <1>3 DEF ProcessState
      <4>2. (complete /\ ~active) \in BOOLEAN
        OBVIOUS
      <4>3. QED
        BY <4>1, <4>2 DEF StopEvidence, JobEvidence
    <3>2. x \in {"no_effect", "admission_unknown"} /\ x \in Place
      BY DEF Place
    <3>3. proc' = [proc EXCEPT ![c] = r]
      BY <1>1, <1>3, <1>5, <2>2
    <3> HIDE DEF e, x
    <3>4. r \in ProcessState /\ r.pc = x /\ r.possible = proc[c].possible
      BY <1>3, <3>1, <3>2 DEF ProcessState
    <3> HIDE DEF r
    <3>5. QED
      BY <1>1, <2>2, <3>2, <3>3, <3>4, RecordStep DEF PcOf
  <2>3. QED
    BY <2>1, <2>2
<1>8. PcOf(c)' \notin Launching /\ PcOf(c)' \notin Unstarted /\ PcOf(c)' \notin Outset
      /\ PcOf(c)' \notin Judged /\ PcOf(c)' # "settle_again" /\ PcOf(c)' \notin Effected
      /\ (PcOf(c)' \in Refusing => ~proc[c].possible)
  BY <1>7 DEF Launching, Unstarted, Outset, Judged, Refusing, Effected
<1>9. PlaceInv(c)'
  BY <1>2, <1>4, <1>7, <1>8 DEF PlaceInv
<1>10. TriesOf(c)'
  BY <1>8 DEF TriesOf, PcOf
<1>11. QED
  BY <1>1, <1>4, <1>6, <1>7, <1>8, <1>9, <1>10, PlainStep

\* The wait has an outcome.
LEMMA OutcomeStep ==
    ASSUME JobInv, Typed, NEW c \in Controller, PcOf(c) \in {"wait", "cancel_stop", "cancel_failed"},
           NEW e \in JobEvidence, NEW b \in BOOLEAN, Outcome(c, e, b),
           UNCHANGED <<job, budget, approval, ran, env>>, alive' \subseteq alive,
           ~e.active => c \notin alive'
    PROVE  JobInv' /\ Typed'
<1>1. PcOf(c) \in Working /\ PcOf(c) \in Committed /\ PcOf(c) \in Effected /\ c \in Process
  BY DEF Working, Committed, Effected, Process
<1>2. job # Null /\ job.process = c /\ c \in ran
  BY <1>1 DEF JobInv, ControllerInv, PlaceInv
<1>3. proc \in [Process -> ProcessState] /\ proc[c] \in ProcessState /\ "settle" \in Place
  BY <1>1 DEF Typed, Place
<1>4. /\ proc' \in [Process -> ProcessState] /\ Only(c)
      /\ proc'[c].possible = proc[c].possible /\ PcOf(c)' = "settle" /\ proc'[c].evidence = e
  <2> DEFINE r == [proc[c] EXCEPT !.evidence = e, !.cancelled = b, !.pc = "settle", !.tries = 1]
  <2>0. 1 \in 0..2
    OBVIOUS
  <2>1. r \in ProcessState /\ r.pc = "settle" /\ r.possible = proc[c].possible /\ r.evidence = e
    BY <1>3, <2>0 DEF ProcessState
  <2>2. proc' = [proc EXCEPT ![c] = r]
    BY <1>1, <1>3 DEF Outcome
  <2> HIDE DEF r
  <2>3. QED
    BY <1>1, <2>1, <2>2, RecordStep DEF PcOf
<1>5. PcOf(c)' \notin Launching /\ PcOf(c)' \notin Unstarted /\ PcOf(c)' \notin Outset
      /\ PcOf(c)' # "settle_again" /\ PcOf(c)' \notin Refusing /\ PcOf(c)' \notin Doubting
  BY <1>4 DEF Launching, Unstarted, Outset, Refusing, Doubting
<1>6. PlaceInv(c)'
  BY <1>2, <1>4, <1>5 DEF PlaceInv
<1>7. TriesOf(c)'
  BY <1>5 DEF TriesOf, PcOf
<1>8. QED
  BY <1>1, <1>4, <1>5, <1>6, <1>7, PlainStep DEF Doubting

LEMMA WaitSteps ==
    ASSUME JobInv, Typed, NEW c \in Controller, WaitEnds(c) \/ CancelStop(c)
    PROVE  JobInv' /\ Typed'
<1>1. PcOf(c) \in {"wait", "cancel_stop", "cancel_failed"}
  BY DEF PcOf, At, WaitEnds, CancelStop
<1>2. At(c, "cancel_stop") \in BOOLEAN
  BY DEF At
<1>3. PICK e \in JobEvidence, b \in BOOLEAN :
        /\ Outcome(c, e, b) /\ alive' \subseteq alive
        /\ ~e.active => c \notin alive'
  <2>1. CASE WaitEnds(c)
    <3>1. \/ /\ \E e \in Closed(c, {Null, "failed", "effect_unknown"}) : Outcome(c, e, FALSE)
             /\ alive' = alive /\ c \notin alive
          \/ /\ \E e \in Closed(c, {"failed", "effect_unknown"}) : Outcome(c, e, FALSE)
             /\ alive' = alive \ {c}
          \/ (\E e \in Unclosed(c) : Outcome(c, e, FALSE)) /\ alive' = alive
      BY <2>1 DEF WaitEnds
    <3>2. QED
      BY <3>1 DEF Closed, Unclosed
  <2>2. CASE CancelStop(c)
    <3>1. \/ /\ \E reasons : \E e \in Closed(c, reasons) : Outcome(c, e, At(c, "cancel_stop"))
             /\ alive' = alive \ {c}
          \/ (\E e \in Unclosed(c) : Outcome(c, e, FALSE)) /\ alive' = alive
      BY <2>2 DEF CancelStop
    <3>2. QED
      BY <1>2, <3>1 DEF Closed, Unclosed
  <2>3. QED
    BY <2>1, <2>2
<1>4. UNCHANGED <<job, budget, approval, ran, env>>
  BY DEF WaitEnds, CancelStop
<1>5. QED
  BY <1>1, <1>3, <1>4, OutcomeStep

LEMMA LostSteps ==
    ASSUME JobInv, Typed, NEW c \in Controller, WaitInterrupted(c) \/ SettleLost(c)
    PROVE  JobInv' /\ Typed'
<1>1. /\ PcOf(c) \in Working /\ PcOf(c) \in Committed /\ c \in Process
      /\ SettleLost(c) => PcOf(c) \in Judged
  BY DEF PcOf, At, WaitInterrupted, SettleLost, Working, Committed, Effected, Process, Judged
<1>2. /\ job # Null /\ job.process = c
      /\ SettleLost(c) /\ c \in alive => proc[c].evidence.active
  BY <1>1 DEF JobInv, ControllerInv, PlaceInv
<1>3. proc \in [Process -> ProcessState] /\ proc[c] \in ProcessState /\ "ambiguous" \in Place
      /\ {"exit_unknown", "unsettled"} \subseteq Place /\ {"exit", "outcome"} \subseteq Stage
  BY <1>1 DEF Typed, Place, Stage
<1>4. UNCHANGED <<job, budget, approval, ran>> /\ (Fault \/ UNCHANGED env) /\ alive' \subseteq alive
  BY DEF WaitInterrupted, SettleLost
<1>5. PICK then \in {"exit_unknown", "unsettled"}, digest \in {"exit", "outcome"} :
        /\ proc' = [proc EXCEPT ![c].pc = "ambiguous", ![c].then = then, ![c].digest = digest]
        /\ WaitInterrupted(c) \/ (SettleLost(c) /\ then = "unsettled")
  BY DEF WaitInterrupted, SettleLost
<1>6. /\ proc' \in [Process -> ProcessState] /\ Only(c)
      /\ proc'[c].possible = proc[c].possible /\ PcOf(c)' = "ambiguous" /\ proc'[c].then = then
      /\ proc'[c].evidence = proc[c].evidence
  <2> DEFINE r == [proc[c] EXCEPT !.pc = "ambiguous", !.then = then, !.digest = digest]
  <2>1. r \in ProcessState /\ r.pc = "ambiguous" /\ r.possible = proc[c].possible
        /\ r.then = then /\ r.evidence = proc[c].evidence
    BY <1>3 DEF ProcessState
  <2>2. proc' = [proc EXCEPT ![c] = r]
    BY <1>1, <1>3, <1>5
  <2> HIDE DEF r
  <2>3. QED
    BY <1>1, <2>1, <2>2, RecordStep DEF PcOf
<1>7. PcOf(c)' \notin Launching /\ PcOf(c)' \notin Unstarted /\ PcOf(c)' \notin Outset
      /\ PcOf(c)' # "settle_again" /\ PcOf(c)' \notin Refusing /\ PcOf(c)' \notin Judged
      /\ PcOf(c)' \notin Effected /\ PcOf(c)' \notin Doubting \ {"ambiguous"}
  BY <1>6 DEF Launching, Unstarted, Outset, Refusing, Judged, Effected
<1>8. PlaceInv(c)'
  BY <1>2, <1>4, <1>6, <1>7 DEF PlaceInv
<1>9. Sure /\ c \in alive' => StillLive(c)'
  <2>1. CASE SettleLost(c) /\ then = "unsettled"
    BY <1>2, <1>4, <1>6, <2>1 DEF StillLive
  <2>2. CASE WaitInterrupted(c)
    BY <2>2 DEF WaitInterrupted, Sure
  <2>3. QED
    BY <1>5, <2>1, <2>2
<1>10. TriesOf(c)'
  BY <1>7 DEF TriesOf, PcOf
<1>11. QED
  BY <1>1, <1>4, <1>6, <1>7, <1>8, <1>9, <1>10, PlainStep

LEMMA AgainStep ==
    ASSUME JobInv, Typed, NEW c \in Controller, SettleAgain(c)
    PROVE  JobInv' /\ Typed'
<1>1. /\ PcOf(c) = "settle_again" /\ PcOf(c) \in Working /\ PcOf(c) \in Committed
      /\ PcOf(c) \in Judged /\ PcOf(c) \in Effected /\ c \in Process
  BY DEF PcOf, At, SettleAgain, Working, Committed, Effected, Process, Judged
<1>2. /\ job # Null /\ job.process = c /\ c \in ran /\ proc[c].evidence \in JobEvidence
      /\ ~proc[c].evidence.active => c \notin alive
  BY <1>1 DEF JobInv, ControllerInv, PlaceInv
<1>3. proc \in [Process -> ProcessState] /\ proc[c] \in ProcessState /\ "settle" \in Place
      /\ proc[c].tries = 1
  BY <1>1 DEF Typed, Place, TriesOf, PcOf
<1>4. UNCHANGED <<job, budget, approval, ran, env, alive>>
  BY DEF SettleAgain
<1>5. /\ proc' \in [Process -> ProcessState] /\ Only(c)
      /\ proc'[c].possible = proc[c].possible /\ PcOf(c)' = "settle"
      /\ proc'[c].evidence = proc[c].evidence
  <2> DEFINE n == proc[c].tries + 1
             r == [proc[c] EXCEPT !.pc = "settle", !.tries = n]
  <2>0. n \in 0..2
    BY <1>3
  <2> HIDE DEF n
  <2>1. r \in ProcessState /\ r.pc = "settle" /\ r.possible = proc[c].possible
        /\ r.evidence = proc[c].evidence
    BY <1>3, <2>0 DEF ProcessState
  <2>2. proc' = [proc EXCEPT ![c] = r]
    BY <1>1, <1>3 DEF SettleAgain, n
  <2> HIDE DEF r
  <2>3. QED
    BY <1>1, <2>1, <2>2, RecordStep DEF PcOf
<1>6. PcOf(c)' \notin Launching /\ PcOf(c)' \notin Unstarted /\ PcOf(c)' \notin Outset
      /\ PcOf(c)' # "settle_again" /\ PcOf(c)' \notin Refusing /\ PcOf(c)' \notin Doubting
  BY <1>5 DEF Launching, Unstarted, Outset, Refusing, Doubting
<1>7. PlaceInv(c)'
  BY <1>2, <1>4, <1>5, <1>6 DEF PlaceInv
<1>8. TriesOf(c)'
  BY <1>6 DEF TriesOf, PcOf
<1>9. QED
  BY <1>1, <1>4, <1>5, <1>6, <1>7, <1>8, PlainStep DEF Doubting


-----------------------------------------------------------------------------
(* Steps of those who do not work on the job.                              *)

\* A controller that does not move keeps its invariant.
LEMMA QuietKeeps ==
    ASSUME JobInv, Typed, NEW kind, EnvStep, job' = job, ran' = ran, alive' \subseteq alive,
           BudgetMoves(budget, budget', kind), kind # "start",
           kind = "settle" /\ ~env.concurrent => Busy = {} /\ ProcessGone,
           NEW d \in Controller, proc'[d] = proc[d]
    PROVE  ControllerInv(d)'
<1>1. PlaceInv(d) /\ RanInv(d) /\ CalmOf(d) /\ JobBudget(budget)
  BY DEF JobInv, ControllerInv
<1>2. PcOf(d)' = PcOf(d) /\ TreeGone(d)' = TreeGone(d) /\ StillLive(d)' = StillLive(d)
  BY DEF PcOf, TreeGone, StillLive
<1>3. /\ Started => Started'
      /\ Settlement # "none" => Settlement' = Settlement
      /\ Began' => Began
  BY DEF BudgetMoves, Started, Settlement, Began
<1>4. PlaceInv(d)'
  BY <1>1, <1>2, <1>3 DEF PlaceInv
<1>5. RanInv(d)'
  BY <1>1, <1>3 DEF RanInv, Named
<1>6. kind = "settle" /\ ~env.concurrent => PcOf(d) # "resume" /\ d \notin ran \cap alive
  <2>1. d \in Busy \/ PcOf(d) # "resume"
    BY DEF Busy, PcOf
  <2>2. d \in ran => job.process = d
    BY <1>1 DEF RanInv, Named
  <2>3. QED
    BY <2>1, <2>2, JobAssumption DEF ProcessGone
<1>7. ~env.concurrent => CalmLaunch(d)'
  BY <1>1, <1>2, <1>6 DEF CalmOf, CalmLaunch, BudgetMoves, PermitStatus
<1>8. d \in ran /\ kind # "settle" => Settlement' = Settlement
  BY <1>1 DEF RanInv, Started, StartedIn, BudgetMoves, Settlement, JobBudget
<1>9. Sure => CalmChild(d)'
  BY <1>1, <1>2, <1>6, <1>8 DEF Sure, CalmOf, CalmChild
<1>10. CalmOf(d)'
  BY <1>7, <1>9 DEF CalmOf, Sure, EnvStep
<1>11. QED
  BY <1>4, <1>5, <1>10 DEF ControllerInv

LEMMA QuietStep ==
    ASSUME JobInv, Typed, NEW kind, EnvStep, job' = job, ran' = ran, alive' \subseteq alive,
           JobBudget(budget'), BudgetMoves(budget, budget', kind), kind # "start",
           kind = "settle" /\ ~env.concurrent => Busy = {} /\ ProcessGone,
           \A d \in Controller :
             proc'[d] = proc[d] \/ (ControllerInv(d)' /\ PcOf(d)' \notin Working),
           \A o \in Operator :
             proc'[o] = proc[o] \/ (OperatorInv(o)' /\ CalmOperator(o)'),
           job # Null => Busy' \subseteq Busy
    PROVE  JobInv'
<1>1. \A d \in Controller : ControllerInv(d)'
  BY QuietKeeps
<1>2. \A d \in Controller : PcOf(d)' \in Working => PcOf(d) \in Working /\ PcOf(d)' = PcOf(d)
  BY DEF PcOf
<1>3. Alone'
  BY <1>2 DEF JobInv, Alone
<1>4. /\ Settlement # "none" => Settlement' = Settlement
      /\ Answered => Answered'
      /\ Began' => Began
  BY DEF BudgetMoves, Settlement, Began, Answered
<1>5. ProcessGone => ProcessGone'
  BY DEF ProcessGone
<1>6. ASSUME NEW o \in Operator, proc'[o] = proc[o] PROVE OperatorInv(o)' /\ CalmOperator(o)'
  <2>1. OperatorInv(o) /\ CalmOperator(o) /\ PcOf(o)' = PcOf(o)
    BY <1>6 DEF JobInv, PcOf
  <2>2. OperatorInv(o)'
    BY <1>4, <1>5, <2>1 DEF OperatorInv
  <2>3. CalmOperator(o)'
    BY <1>5, <2>1 DEF CalmOperator, OperatorInv, EnvStep
  <2>4. QED
    BY <2>2, <2>3
<1>7. TerminalIsBacked'
  BY <1>4, <1>5 DEF JobInv, TerminalIsBacked
<1>8. Refused'
  BY <1>2, PlacesNest DEF JobInv, Refused
<1>9. Began' => job' # Null
  BY <1>4 DEF JobInv
<1>10. QED
  BY <1>1, <1>3, <1>6, <1>7, <1>8, <1>9 DEF JobInv

LEMMA OutsideCall ==
    ASSUME JobInv, Typed, NEW c \in Controller, NEW kind \in {"reserve", "release"},
           CallEffect(c, kind), PcOf(c)' \notin Working,
           PcOf(c)' \in Outset => PcOf(c) \in Outset,
           c \in Busy \/ PcOf(c)' = "done" \/ job = Null
    PROVE  JobInv' /\ Typed'
<1>1. PcOf(c)' \notin Working /\ RanInv(c) /\ PlaceInv(c)
  BY DEF JobInv, ControllerInv
<1>2. /\ PcOf(c)' \notin {"prepare", "commit"}
      /\ PcOf(c)' \notin {"refuse_job", "unlaunch_fail"}
      /\ PcOf(c)' \notin {"ambiguous", "ambiguous_settle", "resume_unknown", "exit_unknown"}
      /\ PcOf(c)' \notin Unstarted /\ PcOf(c)' \notin Launching /\ PcOf(c)' \notin Refusing
      /\ PcOf(c)' \notin Effected /\ PcOf(c)' \notin Judged /\ PcOf(c)' \notin Committed
      /\ PcOf(c)' # "resume" /\ PcOf(c)' # "settle_unknown" /\ PcOf(c)' # "no_effect_job"
      /\ PcOf(c)' # "final" /\ PcOf(c)' # "ambiguous" /\ PcOf(c)' # "settle_again"
  BY <1>1 DEF Working, Unstarted, Committed, Launching, Refusing, Effected, Judged, Closing
<1>3. PlaceInv(c)'
  BY <1>1, <1>2, CallFacts DEF PlaceInv
<1>4. RanInv(c)'
  BY <1>1, CallFacts DEF RanInv, Named
<1>5. CalmOf(c)'
  BY <1>2, CallCalm DEF Doubting
<1>6. JobInv'
  <2>1. \A q \in Process \ {c} : proc'[q] = proc[q]
    BY DEF CallEffect, Stays, Only
  <2>2. \A d \in Controller :
          proc'[d] = proc[d] \/ (ControllerInv(d)' /\ PcOf(d)' \notin Working)
    BY <1>3, <1>4, <1>5, <2>1 DEF ControllerInv, Process
  <2>3. \A o \in Operator : proc'[o] = proc[o]
    BY <2>1, JobAssumption DEF Process
  <2>4. job # Null => Busy' \subseteq Busy
    BY <2>1 DEF Busy, Process, PcOf
  <2>5. QED
    BY <2>2, <2>3, <2>4, QuietStep DEF CallEffect
<1>7. Typed'
  BY <1>2, CallTyped DEF TriesOf, PcOf, Process
<1>8. QED
  BY <1>6, <1>7

LEMMA OutsideSteps ==
    ASSUME JobInv, Typed, NEW c \in Controller,
           \/ Check(c) \/ VerifyApproval(c) \/ ReserveBudget(c) \/ ReloadAfterCreate(c)
           \/ Abandon(c) \/ Crash(c)
    PROVE  JobInv' /\ Typed'
<1>1. /\ c \in Process /\ JobBudget(budget) /\ "create" \in Stage
      /\ {"approve", "reserve", "create", "abandon", "done", "crashed"} \subseteq Place
      /\ proc \in [Process -> ProcessState]
  BY DEF Process, JobInv, Stage, Place, Typed
<1> DEFINE r == ReleasePermit("create")
<1>2. JobRequest(r) /\ r.kind = "release"
  BY <1>1, Requests
<1> HIDE DEF r
<1>3. PICK kind \in {"reserve", "release"} :
        /\ CallEffect(c, kind)
        /\ \/ PcOf(c) = "idle" /\ job = Null /\ PcOf(c)' = "approve"
           \/ PcOf(c)' = "done"
           \/ PcOf(c) = "approve" /\ PcOf(c)' = "reserve"
           \/ PcOf(c) = "reserve" /\ PcOf(c)' = "create"
           \/ PcOf(c) = "create_failed" /\ PcOf(c)' = "abandon"
           \/ c \in Busy /\ PcOf(c)' = "crashed"
  <2>1. CASE Check(c)
    <3>1. PcOf(c) = "idle" /\ ((job = Null /\ Moves(c, "approve")) \/ Moves(c, "done"))
      BY <2>1 DEF Check, At, PcOf
    <3>2. QED
      BY <1>1, <3>1, MoveHasEffect DEF PcOf
  <2>2. CASE VerifyApproval(c)
    <3>1. PcOf(c) = "approve" /\ (Moves(c, "reserve") \/ Moves(c, "done"))
      BY <2>2 DEF VerifyApproval, At, PcOf
    <3>2. QED
      BY <1>1, <3>1, MoveHasEffect DEF PcOf
  <2>3. CASE ReserveBudget(c)
    <3>1. PcOf(c) = "reserve" /\ BudgetCall(c, ReservePermit, "create", "done")
      BY <2>3 DEF ReserveBudget, At, PcOf
    <3>2. CallEffect(c, "reserve") /\ (PcOf(c)' = "create" \/ PcOf(c)' = "done")
      BY <1>1, <3>1, Requests, CallHasEffect DEF PcOf
    <3>3. QED
      BY <3>1, <3>2
  <2>4. CASE ReloadAfterCreate(c)
    <3>1. /\ PcOf(c) = "create_failed"
          /\ Moves(c, "done") \/ Moves(c, "abandon")
             \/ (Fault /\ Goto(c, "abandon") /\ UNCHANGED <<job, budget, approval, alive, ran>>)
      BY <2>4 DEF ReloadAfterCreate, At, PcOf
    <3>2. CASE Moves(c, "done") \/ Moves(c, "abandon")
      BY <1>1, <3>1, <3>2, MoveHasEffect DEF PcOf
    <3>3. CASE Fault /\ Goto(c, "abandon") /\ UNCHANGED <<job, budget, approval, alive, ran>>
      <4>1. proc' \in [Process -> ProcessState] /\ Stays(c) /\ PcOf(c)' = "abandon"
        BY <1>1, <3>3, GotoFields DEF PcOf
      <4>2. EnvType' /\ EnvStep
        BY <3>3, FaultStep DEF Typed
      <4>3. BudgetMoves(budget, budget', "release") /\ budget' \in Snapshot /\ JobBudget(budget')
        BY <1>1, <3>3 DEF BudgetMoves, Typed
      <4>4. CallEffect(c, "release")
        BY <3>3, <4>1, <4>2, <4>3 DEF CallEffect
      <4>5. QED
        BY <3>1, <4>1, <4>4
    <3>4. QED
      BY <3>1, <3>2, <3>3
  <2>5. CASE Abandon(c)
    <3>1. BudgetCall(c, r, "done", "done")
      BY <2>5 DEF Abandon, r
    <3>2. CallEffect(c, "release") /\ PcOf(c)' = "done"
      BY <1>1, <1>2, <3>1, CallHasEffect DEF PcOf
    <3>3. QED
      BY <3>2
  <2>6. CASE Crash(c)
    BY <1>1, <2>6, MoveHasEffect DEF Crash, PcOf
  <2>7. QED
    BY <2>1, <2>2, <2>3, <2>4, <2>5, <2>6
<1>4. /\ PcOf(c)' \in {"approve", "done", "reserve", "create", "abandon", "crashed"}
      /\ PcOf(c)' \in {"approve", "reserve", "create", "abandon"} => PcOf(c) \in Outset
  BY <1>3 DEF Outset
<1>5. PcOf(c)' \notin Working /\ (PcOf(c)' \in Outset => PcOf(c) \in Outset)
  BY <1>4 DEF Working, Unstarted, Committed, Launching, Refusing, Effected, Closing, Outset
<1>6. c \in Busy \/ PcOf(c)' = "done" \/ job = Null
  BY <1>3 DEF Busy, PcOf
<1>7. QED
  BY <1>3, <1>5, <1>6, OutsideCall

LEMMA CreateStep ==
    ASSUME JobInv, Typed, NEW c \in Controller, Create(c)
    PROVE  JobInv' /\ Typed'
<1> DEFINE new == [status |-> "prepared", process |-> Null, recheck |-> FALSE,
                   evidence |-> Null, refused |-> FALSE]
<1>1. /\ c \in Process /\ JobBudget(budget) /\ PcOf(c) = "create"
      /\ {"prepare", "done", "create_failed"} \subseteq Place
      /\ proc \in [Process -> ProcessState]
  BY DEF Process, JobInv, Place, Typed, Create, At, PcOf
<1>2. /\ UNCHANGED <<budget, approval, alive, ran>> /\ (Fault \/ UNCHANGED env)
      /\ \/ job = Null /\ job' = new /\ Goto(c, "prepare")
         \/ job = Null /\ job' = new /\ Goto(c, "create_failed")
         \/ job' = job /\ Goto(c, "done")
         \/ job' = job /\ Goto(c, "create_failed")
  BY DEF Create
<1>3. EnvType' /\ EnvStep
  BY <1>2, FaultStep DEF Typed
<1>4. new \in JobState /\ new.status = "prepared" /\ new.process = Null
  <2>1. "prepared" \in Status
    BY TransitionTable
  <2>2. QED
    BY <2>1 DEF JobState
<1> HIDE DEF new
<1>5. /\ proc' \in [Process -> ProcessState] /\ Stays(c)
      /\ \/ job = Null /\ job' = new /\ PcOf(c)' \in {"prepare", "create_failed"}
         \/ job' = job /\ PcOf(c)' \in {"done", "create_failed"}
  BY <1>1, <1>2, GotoFields DEF PcOf
<1>6. CASE job' = job
  <2>1. BudgetMoves(budget, budget', "release") /\ budget' \in Snapshot /\ JobBudget(budget')
    BY <1>1, <1>2 DEF BudgetMoves, Typed
  <2>2. CallEffect(c, "release")
    BY <1>2, <1>3, <1>5, <1>6, <2>1 DEF CallEffect
  <2>3. PcOf(c)' \in {"done", "create_failed"}
    BY <1>4, <1>5, <1>6, StateAssumption
  <2>4. PcOf(c)' \notin Working /\ (PcOf(c)' \in Outset => PcOf(c) \in Outset)
    BY <1>1, <2>3 DEF Working, Unstarted, Committed, Launching, Refusing, Effected, Closing, Outset
  <2>5. c \in Busy
    BY <1>1 DEF Busy, PcOf
  <2>6. QED
    BY <2>2, <2>4, <2>5, OutsideCall
<1>7. CASE job = Null /\ job' = new /\ PcOf(c)' \in {"prepare", "create_failed"}
  <2>1. /\ \A d \in Controller : PcOf(d) \notin Working /\ d \notin ran
        /\ \A o \in Operator : PcOf(o) = "idle"
        /\ ~Began
    BY <1>7 DEF JobInv, ControllerInv, PlaceInv, RanInv, Named, OperatorInv
  <2>2. \A q \in Process \ {c} : proc'[q] = proc[q]
    BY <1>5 DEF Stays, Only
  <2>3. ran' = {} /\ ~Began' /\ job' # Null
    BY <1>2, <1>4, <1>7, <2>1, StateAssumption DEF Typed, Began
  <2>4. ASSUME NEW d \in Controller PROVE ControllerInv(d)' /\ (PcOf(d)' \in Working => d = c)
    <3>1. d # c => proc'[d] = proc[d]
      BY <2>2, <2>4 DEF Process
    <3>2. PcOf(d)' \in Working => d = c /\ PcOf(d)' = "prepare"
      BY <1>7, <2>1, <3>1 DEF PcOf, Working, Unstarted, Committed, Launching, Refusing, Effected,
         Closing
    <3>3. (proc[d].possible)' = proc[d].possible /\ (PcOf(d)' \in Outset => PcOf(d) \in Outset)
      BY <1>1, <1>5, <3>1 DEF Stays, PcOf, Outset
    <3>4. PcOf(d)' \notin Committed /\ PcOf(d)' \notin Launching /\ PcOf(d)' \notin Refusing
          /\ PcOf(d)' \notin Effected /\ PcOf(d)' \notin Judged /\ PcOf(d)' \notin Doubting
          /\ PcOf(d)' # "resume" /\ PcOf(d)' # "settle_unknown" /\ PcOf(d)' # "no_effect_job"
          /\ PcOf(d)' # "final" /\ PcOf(d)' \notin {"refuse_job", "unlaunch_fail", "commit"}
      BY <3>2 DEF Working, Unstarted, Committed, Launching, Refusing, Effected, Judged, Closing,
         Doubting
    <3>5. (PcOf(d)' \in Outset \cup Unstarted) => ~proc[d].possible
      <4>1. CASE d = c
        BY <1>1, <4>1 DEF JobInv, ControllerInv, PlaceInv, Outset
      <4>2. CASE d # c
        BY <3>2, <3>3, <4>2 DEF JobInv, ControllerInv, PlaceInv, Working
      <4>3. QED
        BY <4>1, <4>2
    <3>6. PlaceInv(d)'
      BY <1>4, <1>7, <2>3, <3>2, <3>3, <3>4, <3>5 DEF PlaceInv, Doubting
    <3>7. RanInv(d)' /\ CalmOf(d)'
      BY <2>3, <3>4 DEF RanInv, CalmOf, CalmLaunch, CalmChild, Doubting
    <3>8. QED
      BY <3>2, <3>6, <3>7 DEF ControllerInv
  <2>5. Alone'
    BY <2>4 DEF Alone
  <2>6. TerminalIsBacked' /\ Refused'
    BY <1>4, <1>7, JobOpen DEF TerminalStatus
  <2>7. \A o \in Operator : OperatorInv(o)' /\ CalmOperator(o)'
    <3>1. \A o \in Operator : PcOf(o)' = "idle"
      BY <2>1, <2>2, JobAssumption DEF Process, PcOf
    <3>2. QED
      BY <3>1 DEF OperatorInv, CalmOperator
  <2>8. JobBudget(budget')
    BY <1>1, <1>2
  <2>9. JobInv'
    BY <2>3, <2>4, <2>5, <2>6, <2>7, <2>8 DEF JobInv
  <2>10. \A q \in Process : TriesOf(q)'
    BY <1>7, <2>2 DEF Typed, TriesOf, PcOf
  <2>11. Typed'
    BY <1>2, <1>3, <1>4, <1>5, <1>7, <2>10 DEF Typed
  <2>12. QED
    BY <2>9, <2>11
<1>8. QED
  BY <1>5, <1>6, <1>7

LEMMA EnvironmentSteps ==
    ASSUME JobInv, Typed, ApprovalLapses \/ \E c \in Controller : ChildEnds(c)
    PROVE  JobInv' /\ Typed'
<1>1. /\ UNCHANGED <<job, budget, proc, ran, env>> /\ alive' \subseteq alive
      /\ approval' \in {"granted", "expired", "revoked"}
  BY DEF ApprovalLapses, ChildEnds, Typed
<1>2. EnvType' /\ EnvStep
  BY <1>1, FaultStep DEF Typed
<1>3. BudgetMoves(budget, budget', "release") /\ JobBudget(budget')
  BY <1>1 DEF BudgetMoves, JobInv
<1>4. JobInv'
  BY <1>1, <1>2, <1>3, QuietStep DEF Busy
<1>5. \A q \in Process : TriesOf(q)'
  BY <1>1 DEF Typed, TriesOf
<1>6. Typed'
  BY <1>1, <1>2, <1>5 DEF Typed
<1>7. QED
  BY <1>4, <1>6

-----------------------------------------------------------------------------
(* The steps of an operator.                                               *)

\* A step that moves an operator and changes no job.
LEMMA OperatorQuiet ==
    ASSUME JobInv, Typed, NEW o \in Operator, NEW kind \in {"release", "record_cancel", "settle"},
           Only(o), proc' \in [Process -> ProcessState], EnvType', EnvStep,
           UNCHANGED <<job, approval, alive, ran>>,
           budget' \in Snapshot, JobBudget(budget'), BudgetMoves(budget, budget', kind),
           kind = "settle" => PcOf(o) # "idle",
           TriesOf(o)', OperatorInv(o)', CalmOperator(o)'
    PROVE  JobInv' /\ Typed'
<1>1. \A q \in Process \ {o} : proc'[q] = proc[q]
  BY DEF Only
<1>2. \A d \in Controller : proc'[d] = proc[d]
  BY <1>1, JobAssumption DEF Process
<1>3. \A x \in Operator : proc'[x] = proc[x] \/ (OperatorInv(x)' /\ CalmOperator(x)')
  BY <1>1 DEF Process
<1>4. Busy' \subseteq Busy
  BY <1>2 DEF Busy
<1>5. kind = "settle" /\ ~env.concurrent => Busy = {} /\ ProcessGone
  BY DEF JobInv, CalmOperator
<1>6. JobInv'
  BY <1>2, <1>3, <1>4, <1>5, QuietStep
<1>7. \A q \in Process : TriesOf(q)'
  BY <1>1 DEF Typed, TriesOf
<1>8. Typed'
  BY <1>7 DEF Typed
<1>9. QED
  BY <1>6, <1>8

LEMMA OperatorCall ==
    ASSUME JobInv, Typed, NEW o \in Operator, NEW kind \in {"release", "record_cancel", "settle"},
           CallEffect(o, kind), PcOf(o) # "idle",
           PcOf(o)' \in {"recover_job", "recover_cancel", "recover_settle", "recovered"},
           PcOf(o)' = "recover_cancel" => Answered'
    PROVE  JobInv' /\ Typed'
<1>1. job' = job /\ alive' = alive /\ Only(o) /\ EnvStep
  BY DEF CallEffect, Stays
<1>2. \A d \in Controller : proc'[d] = proc[d]
  BY <1>1, JobAssumption DEF Only, Process
<1>3. Busy' = Busy /\ ProcessGone' = ProcessGone
  BY <1>1, <1>2 DEF Busy, ProcessGone
<1>4. OperatorInv(o)'
  BY <1>1 DEF JobInv, OperatorInv
<1>5. CalmOperator(o)'
  BY <1>1, <1>3 DEF JobInv, CalmOperator, EnvStep
<1>6. TriesOf(o)'
  BY DEF TriesOf, PcOf
<1>7. QED
  BY <1>1, <1>4, <1>5, <1>6, OperatorQuiet DEF CallEffect

LEMMA RecoverSteps ==
    ASSUME JobInv, Typed, NEW o \in Operator, RecoverBudget(o) \/ RecoverSettle(o)
    PROVE  JobInv' /\ Typed'
<1>1. /\ o \in Process /\ JobBudget(budget) /\ proc[o].seen \in Stage /\ FALSE \in BOOLEAN
      /\ {"recover_job", "recover_cancel", "recover_settle"} \subseteq Place
  BY DEF Process, JobInv, Stage, Place, Typed, ProcessState
<1>2. PcOf(o) \in {"recover", "recover_cancel", "recover_settle"}
  BY DEF RecoverBudget, RecoverSettle, At, PcOf
<1> DEFINE d == proc[o].seen
           e == Cancellation.evidence
           a == ReleasePermit(d)
           b == RecordCancellation("cancel-confirm", "cancelled", e, FALSE)
           s == SettlePermit("settle-cancel-recovery", "cancelled", e, e, "cancel")
           u == SettlePermit("settle-unknown", "effect_unknown", d, Null, "external")
<1>3. Answered => e \in Stage
  BY <1>1 DEF JobBudget, Answered, Cancellation
<1>4. /\ JobRequest(a) /\ a.kind = "release" /\ JobRequest(u) /\ u.kind = "settle"
      /\ Answered => JobRequest(b) /\ b.kind = "record_cancel" /\ JobRequest(s) /\ s.kind = "settle"
  BY <1>1, <1>3, Requests, Settlements, Cancellations, ZenonT(60) DEF Settles
<1>5. \/ Moves(o, "recover_job")
      \/ BudgetCall(o, a, "recover_job", "recover_job")
      \/ Answered /\ BudgetCall(o, b, "recover_cancel", "recover_job")
      \/ Answered /\ Moves(o, "recover_cancel")
      \/ CloseCancellation(o, d, FALSE, "recover_settle", "recover_job")
      \/ Answered /\ BudgetCall(o, s, "recover_job", "recover_job")
      \/ BudgetCall(o, u, "recover_job", "recover_job")
  <2>1. Cancellation.state \in {"acknowledged", "cancelled"} => Answered
    BY DEF Answered, AnsweredIn, Cancellation
  <2>2. PcOf(o) = "recover_cancel" => Answered
    BY DEF JobInv, OperatorInv
  <2>3. QED
    BY <2>1, <2>2 DEF RecoverBudget, RecoverSettle, At, PcOf
<1> HIDE DEF a, b, s, u, d, e
<1>6. d \in Stage
  BY <1>1 DEF d
<1>7. PICK kind \in {"release", "record_cancel", "settle"} :
        /\ CallEffect(o, kind)
        /\ PcOf(o)' \in {"recover_job", "recover_cancel", "recover_settle"}
        /\ PcOf(o)' = "recover_cancel" => Answered
  <2>1. CASE Moves(o, "recover_job")
    BY <1>1, <2>1, MoveHasEffect DEF PcOf
  <2>2. CASE BudgetCall(o, a, "recover_job", "recover_job")
    BY <1>1, <1>4, <2>2, CallHasEffect DEF PcOf
  <2>3. CASE Answered /\ BudgetCall(o, b, "recover_cancel", "recover_job")
    BY <1>1, <1>4, <2>3, CallHasEffect DEF PcOf
  <2>4. CASE Answered /\ Moves(o, "recover_cancel")
    <3>1. CallEffect(o, "release") /\ PcOf(o)' = "recover_cancel"
      BY <1>1, <2>4, MoveHasEffect DEF PcOf
    <3>2. QED
      BY <2>4, <3>1
  <2>5. CASE CloseCancellation(o, d, FALSE, "recover_settle", "recover_job")
    <3>1. CallEffect(o, "record_cancel") /\ PcOf(o)' \in {"recover_settle", "recover_job"}
      BY <1>1, <1>6, <2>5, CloseHasEffect DEF PcOf
    <3>2. QED
      BY <3>1
  <2>6. CASE Answered /\ BudgetCall(o, s, "recover_job", "recover_job")
    BY <1>1, <1>4, <2>6, CallHasEffect DEF PcOf
  <2>7. CASE BudgetCall(o, u, "recover_job", "recover_job")
    BY <1>1, <1>4, <2>7, CallHasEffect DEF PcOf
  <2>8. QED
    BY <1>5, <2>1, <2>2, <2>3, <2>4, <2>5, <2>6, <2>7
<1>8. Answered => Answered'
  BY <1>7 DEF CallEffect, BudgetMoves, Answered
<1>9. QED
  BY <1>2, <1>7, <1>8, OperatorCall

LEMMA OperatorMoves ==
    ASSUME JobInv, Typed, NEW o \in Operator,
           LoadForRecovery(o) \/ CheckForReconcile(o) \/ OperatorEnds(o)
    PROVE  JobInv' /\ Typed'
<1>1. o \in Process /\ proc \in [Process -> ProcessState] /\ proc[o] \in ProcessState
  BY DEF Process, Typed
<1>2. UNCHANGED <<job, budget, approval, alive, ran, env>>
  BY DEF LoadForRecovery, CheckForReconcile, OperatorEnds, Moves
<1>3. /\ proc' \in [Process -> ProcessState] /\ Only(o)
      /\ \/ LoadForRecovery(o) /\ PcOf(o)' = "recover"
         \/ CheckForReconcile(o) /\ PcOf(o)' = "reconcile"
         \/ OperatorEnds(o) /\ PcOf(o)' = "idle"
  <2>1. CASE LoadForRecovery(o)
    <3> DEFINE s == job.status
               n == env.faults
               r == [proc[o] EXCEPT !.pc = "recover", !.seen = s, !.mark = n]
    <3>1. s \in Status /\ n \in Nat /\ "recover" \in Place
      BY <2>1 DEF LoadForRecovery, Typed, JobState, EnvType, Surroundings, Place
    <3>2. proc' = [proc EXCEPT ![o] = r]
      BY <1>1, <2>1 DEF LoadForRecovery
    <3> HIDE DEF s, n
    <3>3. r \in ProcessState /\ r.pc = "recover"
      BY <1>1, <3>1 DEF ProcessState
    <3> HIDE DEF r
    <3>4. QED
      BY <1>1, <2>1, <3>2, <3>3, RecordStep DEF PcOf
  <2>2. CASE CheckForReconcile(o)
    <3>1. "reconcile" \in Place /\ Goto(o, "reconcile")
      BY <2>2 DEF Place, CheckForReconcile, Moves
    <3>2. QED
      BY <1>1, <2>2, <3>1, GotoFields DEF Stays, PcOf
  <2>3. CASE OperatorEnds(o)
    <3>1. {"idle", "done"} \subseteq Place /\ "outcome" \in Stage /\ "prepared" \in Status
          /\ 0 \in 0..2
      BY TransitionTable DEF Place, Stage
    <3>2. Fresh \in ProcessState /\ Fresh.pc = "idle"
      BY <3>1 DEF Fresh, ProcessState
    <3>3. QED
      BY <1>1, <2>3, <3>2, RecordStep DEF OperatorEnds, PcOf
  <2>4. QED
    BY <2>1, <2>2, <2>3
<1>4. \A d \in Controller : proc'[d] = proc[d]
  BY <1>3, JobAssumption DEF Only, Process
<1>5. Busy' = Busy /\ ProcessGone' = ProcessGone /\ Settlement' = Settlement
  BY <1>2, <1>4 DEF Busy, ProcessGone, Settlement
<1>6. OperatorInv(o)'
  BY <1>2, <1>3, <1>5 DEF OperatorInv, LoadForRecovery, CheckForReconcile, Settlement
<1>7. CalmOperator(o)'
  BY <1>2, <1>3, <1>5 DEF CalmOperator, LoadForRecovery, CheckForReconcile
<1>8. EnvType' /\ EnvStep
  BY <1>2, FaultStep DEF Typed
<1>9. BudgetMoves(budget, budget', "release") /\ budget' \in Snapshot /\ JobBudget(budget')
  BY <1>2 DEF BudgetMoves, Typed, JobInv
<1>10. TriesOf(o)'
  BY <1>3 DEF TriesOf, PcOf
<1>11. QED
  BY <1>2, <1>3, <1>6, <1>7, <1>8, <1>9, <1>10, OperatorQuiet

LEMMA OperatorTransit ==
    ASSUME JobInv, Typed, NEW o \in Operator, RecoverJob(o) \/ Reconcile(o)
    PROVE  JobInv' /\ Typed'
<1>1. /\ o \in Process /\ JobBudget(budget) /\ proc \in [Process -> ProcessState]
      /\ {"recovered", "recovery_failed", "answered"} \subseteq Place
  BY DEF Process, JobInv, Place, Typed
<1>2. PcOf(o) \in {"recover_job", "reconcile"} /\ job # Null
  BY DEF RecoverJob, Reconcile, At, PcOf, JobInv, OperatorInv
<1>3. job \in JobState /\ (~env.concurrent => Busy = {} /\ ProcessGone)
  BY <1>2 DEF Typed, JobInv, CalmOperator
<1>4. CASE Moves(o, "recovered")
  <2>1. CallEffect(o, "release") /\ PcOf(o)' = "recovered"
    BY <1>1, <1>4, MoveHasEffect DEF PcOf
  <2>2. QED
    BY <1>2, <2>1, OperatorCall
<1>5. ASSUME NEW status \in {"effect_unknown", "reconciled"},
             NEW ok \in {"recovered", "answered"}, NEW err \in {"recovery_failed", "answered"},
             Transit(o, Successor(status), ok, err),
             status = "reconciled" => PcOf(o) = "reconcile"
      PROVE  JobInv' /\ Typed'
  <2> DEFINE new == Successor(status)
  <2>1. new \in JobState /\ new.process = job.process /\ new.status = status
    BY <1>3, Successors, TransitionTable
  <2> HIDE DEF new
  <2>2. /\ TransitEffect(o) /\ PcOf(o)' \in {"recovered", "answered", "recovery_failed"}
        /\ job' = job \/ (job' = new /\ Publishable(new))
    BY <1>1, <1>2, <1>5, <2>1, TransitHasEffect DEF PcOf, new
  <2>3. /\ Only(o) /\ EnvStep /\ EnvType' /\ proc' \in [Process -> ProcessState]
        /\ UNCHANGED <<budget, approval, alive, ran>>
    BY <2>2 DEF TransitEffect, Stays
  <2>4. \A q \in Process \ {o} : proc'[q] = proc[q]
    BY <2>3 DEF Only
  <2>5. \A d \in Controller : proc'[d] = proc[d]
    BY <2>4, JobAssumption DEF Process
  <2>6. /\ Busy' = Busy /\ job'.process = job.process /\ ProcessGone' = ProcessGone
        /\ job' # Null
    BY <1>2, <2>1, <2>2, <2>3, <2>5, StateAssumption DEF Busy, ProcessGone
  <2>7. OperatorInv(o)' /\ CalmOperator(o)' /\ TriesOf(o)'
    BY <1>3, <2>2, <2>3, <2>6 DEF OperatorInv, CalmOperator, EnvStep, TriesOf, PcOf
  <2>8. CASE job' = job
    <3>1. BudgetMoves(budget, budget', "release") /\ budget' \in Snapshot /\ JobBudget(budget')
      BY <1>1, <2>3 DEF BudgetMoves, Typed
    <3>2. QED
      BY <2>3, <2>7, <2>8, <3>1, OperatorQuiet
  <2>9. CASE job' = new
    <3>1. Settlement' = Settlement /\ Started' = Started /\ Began' = Began /\ Answered' = Answered
          /\ PermitStatus' = PermitStatus
      BY <2>3 DEF Settlement, Started, Began, Answered, PermitStatus
    <3>2. ASSUME NEW d \in Controller PROVE ControllerInv(d)'
      <4>1. /\ PcOf(d)' = PcOf(d) /\ proc'[d] = proc[d]
            /\ TreeGone(d)' = TreeGone(d) /\ StillLive(d)' = StillLive(d)
        BY <2>5, <3>2 DEF PcOf, TreeGone, StillLive
      <4>2. PlaceInv(d) /\ RanInv(d) /\ CalmOf(d)
        BY <3>2 DEF JobInv, ControllerInv
      <4>3. PlaceInv(d)'
        BY <2>3, <2>6, <3>1, <4>1, <4>2 DEF PlaceInv
      <4>4. RanInv(d)'
        BY <2>3, <2>6, <3>1, <4>1, <4>2 DEF RanInv, Named
      <4>5. ~env.concurrent => PcOf(d) \notin Launching
        <5>1. PcOf(d) \in Launching => d \in Busy
          BY <3>2 DEF Launching, Busy, PcOf
        <5>2. QED
          BY <1>3, <5>1
      <4>6. CalmOf(d)'
        BY <2>3, <3>1, <4>1, <4>2, <4>5 DEF CalmOf, CalmLaunch, CalmChild, Launching, EnvStep
      <4>7. QED
        BY <4>3, <4>4, <4>6 DEF ControllerInv
    <3>3. Alone'
      BY <2>5 DEF JobInv, Alone, PcOf
    <3>4. status = "reconciled" => Settlement # "none" /\ ProcessGone
      BY <1>5 DEF JobInv, OperatorInv
    <3>5. TerminalIsBacked' /\ Refused'
      BY <2>1, <2>6, <2>9, <3>1, <3>4 DEF TerminalIsBacked, Refused
    <3>6. ASSUME NEW x \in Operator PROVE OperatorInv(x)' /\ CalmOperator(x)'
      <4>1. CASE x = o
        BY <2>7, <4>1
      <4>2. CASE x # o
        <5>1. PcOf(x)' = PcOf(x) /\ OperatorInv(x) /\ CalmOperator(x)
          BY <2>4, <3>6, <4>2 DEF PcOf, Process, JobInv
        <5>2. OperatorInv(x)'
          BY <2>1, <2>6, <2>9, <3>1, <5>1 DEF OperatorInv
        <5>3. CalmOperator(x)'
          BY <2>3, <2>6, <5>1 DEF CalmOperator, EnvStep
        <5>4. QED
          BY <5>2, <5>3
      <4>3. QED
        BY <4>1, <4>2
    <3>7. JobInv'
      BY <1>1, <2>3, <2>6, <3>2, <3>3, <3>5, <3>6 DEF JobInv
    <3>8. QED
      BY <2>2, <2>7, <3>7, TransitTyped, <1>1
  <2>10. QED
    BY <2>2, <2>8, <2>9
<1>6. \/ Moves(o, "recovered")
      \/ Transit(o, Successor("effect_unknown"), "recovered", "recovery_failed")
      \/ PcOf(o) = "reconcile" /\ Transit(o, Successor("reconciled"), "answered", "answered")
  BY DEF RecoverJob, Reconcile, At, PcOf
<1>7. QED
  BY <1>4, <1>5, <1>6

-----------------------------------------------------------------------------
(* The invariant holds, and what follows from it.                          *)

LEMMA JobInit == Init => JobInv /\ Typed
<1> SUFFICES ASSUME Init PROVE JobInv /\ Typed
  OBVIOUS
<1> DEFINE q == InitializeBudget
           s == Apply(Blank, q, 0)
<1>1. q \in Request /\ q.kind = "initialize" /\ Blank \in Snapshot
  BY BudgetRequestAssumption, BlankIsSnapshot DEF BudgetRequest, InitializeBudget
<1>2. Effect(Blank, s, q) /\ s.ops = Append(Blank.ops, [req |-> q, runtime |-> Blank.runtime + 0])
  BY <1>1, ApplyEffect
<1>3. /\ s.permit = Blank.permit /\ s.settled = Blank.settled /\ s.cancel = Blank.cancel
  BY <1>1 DEF Apply, Update, Charge, Blank
<1>4. Blank.runtime + 0 \in Nat /\ Blank.ops = <<>>
  BY DEF Blank
<1> HIDE DEF q, s
<1>5. \A i \in DOMAIN s.ops : s.ops[i].req = q
  BY <1>1, <1>2, <1>4, RecordsOf
<1>6. /\ s.permit[JobPermit] = "none" /\ s.settled[JobPermit] = "none"
      /\ s.cancel[JobPermit].state = "not_requested"
  BY <1>3, JobAssumption DEF Blank
<1>7. ~StartedIn(s) /\ ~AnsweredIn(s) /\ ~BeganIn(s) /\ \A i \in DOMAIN s.ops : BackedIn(s, s.ops[i].req)
  BY <1>1, <1>5, <1>6 DEF StartedIn, AnsweredIn, BeganIn, BackedIn
<1>8. JobBudget(s) /\ s \in Snapshot
  BY <1>2, <1>6, <1>7 DEF JobBudget, Effect
<1>9. budget = s /\ ~Began
  BY <1>7 DEF Init, s, q, Began
<1>10. /\ job = Null /\ alive = {} /\ ran = {} /\ proc = [p \in Process |-> Fresh]
       /\ env \in Environment
  BY DEF Init
<1>11. \A p \in Process : PcOf(p) = "idle" /\ ~proc[p].possible
  BY <1>10 DEF PcOf, Fresh
<1>12. Busy = {} /\ Controller \subseteq Process /\ Operator \subseteq Process
  BY <1>11 DEF Busy, PcOf, Process
<1>13. /\ "idle" \notin Working /\ "idle" \notin Committed /\ "idle" \notin Unstarted
       /\ "idle" \notin Launching /\ "idle" \notin Refusing /\ "idle" \notin Effected
       /\ "idle" \notin Judged /\ "idle" \notin Doubting
  BY DEF Working, Committed, Unstarted, Launching, Refusing, Effected, Judged, Closing, Doubting
<1>14. ASSUME NEW c \in Controller PROVE ControllerInv(c) /\ PcOf(c) \notin Working
  <2>1. PcOf(c) = "idle" /\ ~proc[c].possible /\ c \notin ran
    BY <1>10, <1>11, <1>12
  <2>2. PlaceInv(c)
    BY <1>13, <2>1 DEF PlaceInv
  <2>3. RanInv(c) /\ CalmOf(c)
    BY <1>13, <2>1 DEF RanInv, CalmOf, CalmLaunch, CalmChild
  <2>4. QED
    BY <1>13, <2>1, <2>2, <2>3 DEF ControllerInv
<1>15. \A o \in Operator : OperatorInv(o) /\ CalmOperator(o)
  BY <1>11, <1>12 DEF OperatorInv, CalmOperator
<1>16. JobInv
  BY <1>8, <1>9, <1>10, <1>14, <1>15 DEF JobInv, Alone, TerminalIsBacked, Refused
<1>17. EnvType
  <2>1. env \in Surroundings
    BY <1>10, JobAssumption
  <2>2. env = [env EXCEPT !.faults = env.faults] /\ env.faults <= env.faults
    BY <2>1 DEF Surroundings
  <2>3. QED
    BY <1>10, <2>1, <2>2 DEF EnvType
<1>18. proc \in [Process -> ProcessState]
  <2>1. {"idle", "done"} \subseteq Place /\ "outcome" \in Stage /\ "prepared" \in Status
        /\ 0 \in 0..2
    BY TransitionTable DEF Place, Stage
  <2>2. Fresh \in ProcessState
    BY <2>1 DEF Fresh, ProcessState
  <2>3. QED
    BY <1>10, <2>2
<1>19. Typed
  BY <1>8, <1>9, <1>10, <1>11, <1>17, <1>18 DEF Typed, TriesOf, PcOf, Init
<1>20. QED
  BY <1>16, <1>19

LEMMA JobNext == JobInv /\ Typed /\ [Next]_vars => JobInv' /\ Typed'
<1> SUFFICES ASSUME JobInv, Typed, [Next]_vars PROVE JobInv' /\ Typed'
  OBVIOUS
<1>1. ASSUME NEW c \in Controller, Admission(c) PROVE JobInv' /\ Typed'
  BY <1>1, OutsideSteps, CreateStep, PrepareSteps, ReleaseSteps, FailedSteps, UnknownSteps
     DEF Admission
<1>2. ASSUME NEW c \in Controller, Launch(c) PROVE JobInv' /\ Typed'
  BY <1>2, CommitStep, MoveSteps, ReleaseSteps, FailedSteps, UnknownSteps, AdmitStep, StartStep,
     ResumeStep, RunningSteps, StopStep, NoEffectClosed, NoEffectStep, AmbiguousClosed,
     AmbiguousSettled DEF Launch
<1>3. ASSUME NEW c \in Controller, Completion(c) PROVE JobInv' /\ Typed'
  BY <1>3, WaitSteps, MoveSteps, RunningSteps, CancelCalled, LostSteps, UnknownSteps, AgainStep,
     UnclosedSettled, CancelledSettled, KnownSettled, UnknownSettled, FinishStep DEF Completion
<1>4. ASSUME NEW o \in Operator, Recovery(o) PROVE JobInv' /\ Typed'
  BY <1>4, RecoverSteps, OperatorMoves, OperatorTransit DEF Recovery
<1>5. CASE UNCHANGED vars
  <2>1. UNCHANGED <<job, budget, approval, proc, alive, ran, env>>
    BY <1>5 DEF vars
  <2>2. BudgetMoves(budget, budget', "release") /\ JobBudget(budget')
    BY <2>1 DEF BudgetMoves, JobInv
  <2>3. EnvType' /\ EnvStep
    BY <2>1, FaultStep DEF Typed
  <2>4. JobInv'
    BY <2>1, <2>2, <2>3, QuietStep DEF Busy
  <2>5. Typed'
    BY <2>1, <2>3 DEF Typed, TriesOf
  <2>6. QED
    BY <2>4, <2>5
<1>6. QED
  BY <1>1, <1>2, <1>3, <1>4, <1>5, OutsideSteps, EnvironmentSteps DEF Next

LEMMA JobAlways == Spec => [](JobInv /\ Typed)
  BY JobInit, JobNext, PTL DEF Spec

\* The variables keep their types.
THEOREM TypeCorrect == Spec => []TypeOK
  BY JobAlways, TypedImplies, PTL

LEMMA InvImpliesEffects == JobInv /\ Typed => EffectsAreRecorded
<1> SUFFICES ASSUME JobInv, Typed PROVE EffectsAreRecorded
  OBVIOUS
<1>1. \A c \in ran : c \in Controller /\ RanInv(c)
  BY DEF Typed, JobInv, ControllerInv
<1>2. EffectLeavesATrace
  BY <1>1 DEF EffectLeavesATrace, RanInv, Named
<1>3. NoEffectIsTrue
  <2>1. CASE Settlement = "released_no_effect"
    <3>1. PermitStatus = "none"
      BY <2>1 DEF JobInv, JobBudget, Settlement, PermitStatus
    <3>2. ~Started
      BY <2>1, <3>1 DEF Started, StartedIn, Settlement, PermitStatus
    <3>3. QED
      BY <1>1, <3>2 DEF NoEffectIsTrue, RanInv
  <2>2. CASE job # Null /\ job.status = "failed" /\ (job.process = Null \/ job.refused)
    BY <1>1, <2>2, JobAssumption DEF NoEffectIsTrue, RanInv, Named, JobInv, Refused
  <2>3. QED
    BY <2>1, <2>2 DEF NoEffectIsTrue
<1>4. QED
  BY <1>2, <1>3 DEF EffectsAreRecorded

\* The stores never deny an effect: whatever ran is the recorded process, and
\* what is recorded as without effect never ran (coordinator.py, the order of
\* LAUNCH_COMMITTED, the start of the permit and ResumeThread).
THEOREM EffectsRecorded == Spec => []EffectsAreRecorded
  BY JobAlways, InvImpliesEffects, PTL

\* Whatever the job's last state says, the budget agrees with it, and the
\* process that a completed, cancelled or reconciled job names is gone.
THEOREM TerminalsBacked == Spec => []TerminalIsBacked
<1>1. JobInv => TerminalIsBacked
  BY DEF JobInv
<1>2. QED
  BY <1>1, JobAlways, PTL

LEMMA InvImpliesHeld == JobInv /\ Typed => PermitOutlivesConfirmedWork
<1> SUFFICES ASSUME JobInv, Typed, Sure, NEW c \in ran \cap alive PROVE Settlement = "none"
  BY DEF PermitOutlivesConfirmedWork, PermitOutlivesWork, Sure
<1>1. c \in Controller
  BY DEF Typed
<1>2. QED
  BY <1>1 DEF JobInv, ControllerInv, CalmOf, CalmChild, Sure

\* As long as Windows confirms the stops and no operator recovers a job whose
\* controller lives, a resumed child holds the concurrency slot of its permit.
THEOREM PermitsOutlive == Spec => []PermitOutlivesConfirmedWork
  BY JobAlways, InvImpliesHeld, PTL

\* Only Resume makes a child run.
LEMMA RunsByResume ==
    ASSUME JobInv, Typed, [Next]_vars, NEW c \in ran' \ ran
    PROVE  c \in Controller /\ Resume(c) /\ c \in ran'
<1>1. ran' # ran
  OBVIOUS
<1>2. ASSUME NEW d \in Controller, Admission(d) PROVE FALSE
  BY <1>1, <1>2 DEF Admission, Check, VerifyApproval, ReserveBudget, Create, ReloadAfterCreate,
     Abandon, PrepareChild, PrepareFails, ReleaseRefused, FailRefused, Fallback, Moves, BudgetCall,
     Transit
<1>3. ASSUME NEW d \in Controller, Completion(d) PROVE FALSE
  BY <1>1, <1>3 DEF Completion, WaitEnds, CancelWanted, CancelJob, CancelBudget, CancelStop,
     WaitInterrupted, ExitUnknown, SettleAgain, SettleLost, SettleUnclosed, SettleCancelled,
     SettleKnown, SettleUnknown, Finish, FinishUnknown, Moves, BudgetCall, Transit,
     CloseCancellation
<1>4. ASSUME NEW d \in Controller, Launch(d) PROVE Resume(d)
  BY <1>1, <1>4 DEF Launch, CommitLaunch, Unlaunch, ReleaseUnlaunched, FailUnlaunched,
     UnknownUnlaunched, AdmitEffect, StartBudget, PublishRunning, Stop, CloseNoEffect,
     FailNoEffect, AdmissionUnknown, CloseAmbiguous, SettleAmbiguous, ResumeUnknown, Moves,
     BudgetCall, Transit, CloseCancellation
<1>5. ASSUME NEW o \in Operator, Recovery(o) PROVE FALSE
  BY <1>1, <1>5 DEF Recovery, LoadForRecovery, RecoverBudget, RecoverSettle, RecoverJob,
     CheckForReconcile, Reconcile, OperatorEnds, Moves, BudgetCall, Transit, CloseCancellation
<1>6. PICK d \in Controller : Resume(d)
  BY <1>1, <1>2, <1>3, <1>4, <1>5 DEF Next, vars, Crash, Moves, ChildEnds, ApprovalLapses
<1>7. ran' \subseteq ran \cup {d}
  BY <1>6 DEF Resume
<1>8. c = d
  BY <1>7
<1>9. QED
  BY <1>6, <1>8

\* When a child is resumed its launch is committed, its permit is started and
\* its approval has not expired, short of an operator who recovers meanwhile.
THEOREM EffectsAdmitted == Spec => EffectIsAdmitted
<1>1. ASSUME JobInv, Typed, [Next]_vars, NEW c \in ran' \ ran, ~env.concurrent
      PROVE  /\ job # Null /\ job.status = "launch_committed" /\ job.process = c
             /\ PermitStatus = "started" /\ approval # "expired"
  <2>1. c \in Controller /\ PcOf(c) = "resume"
    BY <1>1, RunsByResume DEF Resume, At, PcOf
  <2>2. PcOf(c) \in Launching /\ PcOf(c) \in Committed /\ PcOf(c) \in Working
    BY <2>1 DEF Launching, Committed, Working
  <2>3. PlaceInv(c) /\ CalmOf(c)
    BY <1>1, <2>1 DEF JobInv, ControllerInv
  <2>4. job # Null /\ job.process = c
    BY <2>2, <2>3 DEF PlaceInv
  <2>5. job.status = "launch_committed" /\ PermitStatus = "started"
    BY <1>1, <2>1, <2>2, <2>3 DEF CalmOf, CalmLaunch
  <2>6. approval # "expired"
    <3>1. Resume(c) /\ ran' # ran
      BY <1>1, RunsByResume
    <3>2. QED
      BY <3>1 DEF Resume
  <2>7. QED
    BY <2>4, <2>5, <2>6
<1>2. JobInv /\ Typed /\ [Next]_vars =>
        [\A c \in ran' \ ran : ~env.concurrent =>
           /\ job # Null /\ job.status = "launch_committed" /\ job.process = c
           /\ PermitStatus = "started"
           /\ approval # "expired"]_vars
  BY <1>1
<1>3. QED
  BY <1>2, JobAlways, PTL DEF Spec, EffectIsAdmitted
==============================================================================

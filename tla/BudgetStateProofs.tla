-------------------------- MODULE BudgetStateProofs --------------------------
(***************************************************************************)
(* Facts about the operations of BudgetState, for any snapshot that has its*)
(* type: what an operation changes, and what an admitted operation keeps.  *)
(* The proofs about DurableBudget and about IsolatedJob rest on them.      *)
(***************************************************************************)
EXTENDS BudgetState, TLAPS

-----------------------------------------------------------------------------
(* What one operation makes of a snapshot.                                 *)

LEMMA MaxOfTwo ==
    ASSUME NEW a \in Nat, NEW b \in Nat
    PROVE  FSE!Max({a, b}) \in Nat
  BY DEF FSE!Max

LEMMA AttemptTypes ==
    ASSUME NEW a \in AttemptRecord, NEW x \in AttemptStatus, NEW e \in Evidence \cup {Null}
    PROVE  /\ [a EXCEPT !.status = x] \in AttemptRecord
           /\ [a EXCEPT !.status = x, !.evidence = e] \in AttemptRecord
           /\ [a EXCEPT !.status = x].status = x
           /\ [a EXCEPT !.status = x, !.evidence = e].status = x
  BY DEF AttemptRecord

LEMMA CloseFields ==
    ASSUME NEW s \in Snapshot, NEW p \in Permit, NEW status \in SettlementStatus,
           NEW a \in AttemptRecord
    PROVE  /\ Close(s, p, status, a) \in Snapshot
           /\ Close(s, p, status, a).settled = [s.settled EXCEPT ![p] = status]
           /\ Close(s, p, status, a).permit = [s.permit EXCEPT ![p] = "none"]
           /\ Close(s, p, status, a).attempt = [s.attempt EXCEPT ![p] = a]
           /\ Close(s, p, status, a).cancel = s.cancel
           /\ Close(s, p, status, a).latch = s.latch
           /\ Close(s, p, status, a).policy = s.policy
           /\ Close(s, p, status, a).ops = s.ops
  BY DEF Close, Snapshot

LEMMA ReserveFields ==
    ASSUME NEW s \in Snapshot, NEW q \in Request, q.permit \in Permit
    PROVE  /\ Reserve(s, q) \in Snapshot
           /\ Reserve(s, q).settled = s.settled
           /\ Reserve(s, q).permit = [s.permit EXCEPT ![q.permit] = "reserved"]
           /\ Reserve(s, q).attempt = [s.attempt EXCEPT ![q.permit] =
                                        [status |-> "reserved", category |-> Null,
                                         evidence |-> Null]]
           /\ Reserve(s, q).cancel = s.cancel
           /\ Reserve(s, q).latch = s.latch
           /\ Reserve(s, q).policy = s.policy
  BY DEF Reserve, Snapshot, AttemptStatus, AttemptRecord

LEMMA StartFields ==
    ASSUME NEW s \in Snapshot, NEW q \in Request, q.permit \in Permit
    PROVE  /\ Start(s, q) \in Snapshot
           /\ Start(s, q).settled = s.settled
           /\ Start(s, q).permit = [s.permit EXCEPT ![q.permit] = "started"]
           /\ Start(s, q).attempt = [s.attempt EXCEPT ![q.permit] =
                                       [s.attempt[q.permit] EXCEPT !.status = "started"]]
           /\ Start(s, q).cancel = s.cancel
           /\ Start(s, q).latch = s.latch
           /\ Start(s, q).policy = s.policy
<1> DEFINE a == [s.attempt[q.permit] EXCEPT !.status = "started"]
<1>1. a \in AttemptRecord
  BY AttemptTypes, ZenonT(60) DEF Snapshot, AttemptStatus
<1> HIDE DEF a
<1>2. Start(s, q) = [s EXCEPT !.permit[q.permit] = "started", !.attempt[q.permit] = a]
  BY DEF Start, a
<1>3. s.attempt[q.permit] \in AttemptRecord
  BY DEF Snapshot
<1>4. /\ [s EXCEPT !.permit[q.permit] = "started", !.attempt[q.permit] = a] \in Snapshot
      /\ Start(s, q).settled = s.settled
      /\ Start(s, q).permit = [s.permit EXCEPT ![q.permit] = "started"]
      /\ Start(s, q).attempt = [s.attempt EXCEPT ![q.permit] = a]
      /\ Start(s, q).cancel = s.cancel
      /\ Start(s, q).latch = s.latch
      /\ Start(s, q).policy = s.policy
  BY <1>1, <1>2 DEF Snapshot
<1> QED
  BY <1>2, <1>4 DEF a

LEMMA LatchFields ==
    ASSUME NEW s \in Snapshot, NEW q \in Request, NEW code \in FailureCode
    PROVE  /\ Latch(s, code, q) \in Snapshot
           /\ Latch(s, code, q).latch # Null
           /\ s.latch # Null => Latch(s, code, q).latch = s.latch
           /\ Latch(s, code, q).settled = s.settled
           /\ Latch(s, code, q).permit = s.permit
           /\ Latch(s, code, q).attempt = s.attempt
           /\ Latch(s, code, q).cancel = s.cancel
           /\ Latch(s, code, q).policy = s.policy
  BY RequestAssumption DEF Latch, Snapshot

LEMMA ReleaseFields ==
    ASSUME NEW s \in Snapshot, NEW q \in Request, q.permit \in Permit,
           q.evidence \in Evidence \cup {Null}
    PROVE  /\ Release(s, q) \in Snapshot
           /\ Release(s, q).settled = [s.settled EXCEPT ![q.permit] = "released_no_effect"]
           /\ Release(s, q).permit = [s.permit EXCEPT ![q.permit] = "none"]
           /\ \A p \in Permit \ {q.permit} : Release(s, q).attempt[p] = s.attempt[p]
           /\ Release(s, q).cancel = s.cancel
           /\ Release(s, q).latch = s.latch
           /\ Release(s, q).policy = s.policy
<1> DEFINE a == [s.attempt[q.permit] EXCEPT !.status = "cancelled", !.evidence = q.evidence]
<1>1. a \in AttemptRecord
  BY AttemptTypes, ZenonT(60) DEF Snapshot, AttemptStatus
<1>2. Release(s, q) = Close(s, q.permit, "released_no_effect", a)
  BY DEF Release
<1> HIDE DEF a
<1>3. s.attempt \in [Permit -> AttemptRecord]
  BY DEF Snapshot
<1>4. "released_no_effect" \in SettlementStatus
  BY DEF SettlementStatus
<1>5. /\ Release(s, q) \in Snapshot
      /\ Release(s, q).settled = [s.settled EXCEPT ![q.permit] = "released_no_effect"]
      /\ Release(s, q).permit = [s.permit EXCEPT ![q.permit] = "none"]
      /\ Release(s, q).attempt = [s.attempt EXCEPT ![q.permit] = a]
      /\ Release(s, q).cancel = s.cancel
      /\ Release(s, q).latch = s.latch
      /\ Release(s, q).policy = s.policy
  <2>1. /\ Close(s, q.permit, "released_no_effect", a) \in Snapshot
        /\ Close(s, q.permit, "released_no_effect", a).settled
             = [s.settled EXCEPT ![q.permit] = "released_no_effect"]
        /\ Close(s, q.permit, "released_no_effect", a).permit
             = [s.permit EXCEPT ![q.permit] = "none"]
        /\ Close(s, q.permit, "released_no_effect", a).attempt
             = [s.attempt EXCEPT ![q.permit] = a]
        /\ Close(s, q.permit, "released_no_effect", a).cancel = s.cancel
        /\ Close(s, q.permit, "released_no_effect", a).latch = s.latch
        /\ Close(s, q.permit, "released_no_effect", a).policy = s.policy
    BY <1>1, <1>4, CloseFields
  <2> QED
    BY <1>2, <2>1
<1> QED
  BY <1>3, <1>5

LEMMA CancelEntry ==
    ASSUME NEW s \in Snapshot, NEW p \in Permit, NEW c \in CancellationRecord
    PROVE  /\ [s EXCEPT !.cancel[p] = c] \in Snapshot
           /\ [s EXCEPT !.cancel[p] = c].cancel = [s.cancel EXCEPT ![p] = c]
           /\ [s EXCEPT !.cancel[p] = c].settled = s.settled
           /\ [s EXCEPT !.cancel[p] = c].permit = s.permit
           /\ [s EXCEPT !.cancel[p] = c].attempt = s.attempt
           /\ [s EXCEPT !.cancel[p] = c].latch = s.latch
           /\ [s EXCEPT !.cancel[p] = c].policy = s.policy
  BY DEF Snapshot

LEMMA AttemptEntry ==
    ASSUME NEW s \in Snapshot, NEW p \in Permit, NEW a \in AttemptRecord
    PROVE  /\ [s EXCEPT !.attempt[p] = a] \in Snapshot
           /\ [s EXCEPT !.attempt[p] = a].attempt = [s.attempt EXCEPT ![p] = a]
           /\ [s EXCEPT !.attempt[p] = a].settled = s.settled
           /\ [s EXCEPT !.attempt[p] = a].permit = s.permit
           /\ [s EXCEPT !.attempt[p] = a].cancel = s.cancel
           /\ [s EXCEPT !.attempt[p] = a].latch = s.latch
           /\ [s EXCEPT !.attempt[p] = a].policy = s.policy
  BY DEF Snapshot

LEMMA RequestCancelFields ==
    ASSUME NEW s \in Snapshot, NEW q \in Request, q.permit \in Permit
    PROVE  /\ RequestCancel(s, q) \in Snapshot
           /\ RequestCancel(s, q).cancel =
                [s.cancel EXCEPT ![q.permit] = [state |-> "requested", live |-> TRUE,
                                                evidence |-> Null]]
           /\ RequestCancel(s, q).settled = s.settled
           /\ RequestCancel(s, q).permit = s.permit
           /\ RequestCancel(s, q).attempt = s.attempt
           /\ RequestCancel(s, q).latch = s.latch
           /\ RequestCancel(s, q).policy = s.policy
<1>1. [state |-> "requested", live |-> TRUE, evidence |-> Null] \in CancellationRecord
  BY DEF CancellationRecord, CancellationState
<1> QED
  BY <1>1, CancelEntry, Zenon DEF RequestCancel

\* record_cancellation notes the state; an unconfirmed stop or an unknown
\* effect also marks the attempt and sets the latch.
LEMMA RecordCancelFields ==
    ASSUME NEW s \in Snapshot, NEW q \in Request, q.permit \in Permit,
           q.evidence \in Evidence \cup {Null}, q.state \in CancellationState,
           q.live \in BOOLEAN
    PROVE  /\ RecordCancel(s, q) \in Snapshot
           /\ RecordCancel(s, q).cancel =
                [s.cancel EXCEPT ![q.permit] = [state |-> q.state, live |-> q.live,
                                                evidence |-> q.evidence]]
           /\ RecordCancel(s, q).settled = s.settled
           /\ RecordCancel(s, q).permit = s.permit
           /\ RecordCancel(s, q).policy = s.policy
           /\ \A p \in Permit \ {q.permit} : RecordCancel(s, q).attempt[p] = s.attempt[p]
           /\ s.latch # Null => RecordCancel(s, q).latch = s.latch
           /\ IF q.state \in {"unconfirmed", "effect_unknown"}
              THEN /\ RecordCancel(s, q).latch # Null
                   /\ RecordCancel(s, q).attempt[q.permit].status = "effect_unknown"
              ELSE /\ RecordCancel(s, q).latch = s.latch
                   /\ RecordCancel(s, q).attempt = s.attempt
<1> DEFINE a == [s.attempt[q.permit] EXCEPT !.status = "effect_unknown", !.evidence = q.evidence]
<1>1. a \in AttemptRecord /\ a.status = "effect_unknown"
  <2>1. s.attempt[q.permit] \in AttemptRecord
    BY DEF Snapshot
  <2>2. "effect_unknown" \in AttemptStatus
    BY DEF AttemptStatus
  <2> QED
    BY <2>1, <2>2 DEF AttemptRecord
<1> DEFINE c == [state |-> q.state, live |-> q.live, evidence |-> q.evidence]
<1>2. c \in CancellationRecord
  BY DEF CancellationRecord
<1> HIDE DEF a, c
<1> DEFINE noted == [s EXCEPT !.cancel[q.permit] = c]
<1>3. /\ noted \in Snapshot /\ noted.cancel = [s.cancel EXCEPT ![q.permit] = c]
      /\ noted.settled = s.settled /\ noted.permit = s.permit /\ noted.attempt = s.attempt
      /\ noted.latch = s.latch /\ noted.policy = s.policy
  BY <1>2, CancelEntry
<1> DEFINE doubt == [noted EXCEPT !.attempt[q.permit] = a]
<1>4. RecordCancel(s, q) = CASE q.state = "unconfirmed"    -> Latch(doubt, "cancel_unconfirmed", q)
                            [] q.state = "effect_unknown" -> Latch(doubt, "effect_unknown", q)
                            [] OTHER                      -> noted
  BY DEF RecordCancel, a, c
<1> HIDE DEF noted
<1>5. /\ doubt \in Snapshot /\ doubt.cancel = [s.cancel EXCEPT ![q.permit] = c]
      /\ doubt.settled = s.settled /\ doubt.permit = s.permit
      /\ doubt.attempt = [s.attempt EXCEPT ![q.permit] = a]
      /\ doubt.latch = s.latch /\ doubt.policy = s.policy
  BY <1>1, <1>3, AttemptEntry
<1> HIDE DEF doubt
<1>6. s.attempt \in [Permit -> AttemptRecord]
  BY DEF Snapshot
<1>7. \A k \in FailureCode :
        /\ Latch(doubt, k, q) \in Snapshot
        /\ Latch(doubt, k, q).latch # Null
        /\ s.latch # Null => Latch(doubt, k, q).latch = s.latch
        /\ Latch(doubt, k, q).settled = s.settled
        /\ Latch(doubt, k, q).permit = s.permit
        /\ Latch(doubt, k, q).attempt = [s.attempt EXCEPT ![q.permit] = a]
        /\ Latch(doubt, k, q).cancel = [s.cancel EXCEPT ![q.permit] = c]
        /\ Latch(doubt, k, q).policy = s.policy
  BY <1>5, LatchFields
<1>8. \A p \in Permit \ {q.permit} : [s.attempt EXCEPT ![q.permit] = a][p] = s.attempt[p]
  BY <1>6
<1>9. [s.attempt EXCEPT ![q.permit] = a][q.permit].status = "effect_unknown"
  BY <1>1, <1>6
<1> DEFINE t == RecordCancel(s, q)
<1>10. CASE q.state \in {"unconfirmed", "effect_unknown"}
  <2>1. PICK k \in FailureCode : t = Latch(doubt, k, q)
    <3>1. CASE q.state = "unconfirmed"
      BY <3>1, <1>4 DEF FailureCode
    <3>2. CASE q.state = "effect_unknown"
      BY <3>2, <1>4 DEF FailureCode
    <3> QED
      BY <3>1, <3>2, <1>10
  <2> QED
    BY <2>1, <1>7, <1>8, <1>9, <1>10, ZenonT(60) DEF c
<1>11. CASE q.state \notin {"unconfirmed", "effect_unknown"}
  <2>1. t = noted
    BY <1>4, <1>11
  <2> QED
    BY <2>1, <1>3, <1>11, Zenon DEF c
<1> QED
  BY <1>10, <1>11

LEMMA ApplyActualFields ==
    ASSUME NEW s \in Snapshot, NEW q \in Request, q.actual \in Amounts, q.peak \in Nat
    PROVE  /\ ApplyActual(s, q) \in Snapshot
           /\ ApplyActual(s, q).settled = s.settled
           /\ ApplyActual(s, q).permit = s.permit
           /\ ApplyActual(s, q).attempt = s.attempt
           /\ ApplyActual(s, q).cancel = s.cancel
           /\ ApplyActual(s, q).latch = s.latch
           /\ ApplyActual(s, q).policy = s.policy
<1> DEFINE u == [r \in Resource |-> IF r \in Cumulative THEN s.usage[r] + q.actual[r]
                                    ELSE FSE!Max({s.usage[r], q.actual[r]})]
           k == FSE!Max({s.peak, q.peak})
<1>1. s.usage \in [Resource -> Nat] /\ s.peak \in Nat /\ q.actual \in [Resource -> Nat]
  BY DEF Snapshot, Amounts
<1>2. \A r \in Resource : /\ s.usage[r] + q.actual[r] \in Nat
                          /\ FSE!Max({s.usage[r], q.actual[r]}) \in Nat
  BY <1>1, MaxOfTwo
<1>3. u \in Amounts
  BY <1>2 DEF Amounts
<1>4. k \in Nat
  BY <1>1, MaxOfTwo
<1>5. ApplyActual(s, q) = [s EXCEPT !.usage = u, !.peak = k]
  BY DEF ApplyActual
<1> HIDE DEF u, k
<1> QED
  BY <1>3, <1>4, <1>5 DEF Snapshot

\* settle closes the permit with its own status or as an overrun, and latches
\* an overrun and an unknown effect.
LEMMA SettleFields ==
    ASSUME NEW s \in Snapshot, NEW q \in Request, q.kind = "settle"
    PROVE  /\ Settle(s, q) \in Snapshot
           /\ \E status \in {"overrun", q.status} :
                /\ Settle(s, q).settled = [s.settled EXCEPT ![q.permit] = status]
                /\ status \in {"overrun", "effect_unknown"} => Settle(s, q).latch # Null
           /\ Settle(s, q).permit = [s.permit EXCEPT ![q.permit] = "none"]
           /\ \A p \in Permit \ {q.permit} : Settle(s, q).attempt[p] = s.attempt[p]
           /\ Settle(s, q).cancel = s.cancel
           /\ s.latch # Null => Settle(s, q).latch = s.latch
           /\ Settle(s, q).policy = s.policy
<1> DEFINE status == IF Overruns(s, q) THEN "overrun" ELSE q.status
           a == [status |-> IF status = "overrun" THEN "failed" ELSE status,
                 category |-> q.category, evidence |-> q.evidence]
           closed == Close(ApplyActual(s, q), q.permit, status, a)
<1>1. /\ q.permit \in Permit /\ q.actual \in Amounts /\ q.peak \in Nat
      /\ q.status \in {"succeeded", "failed", "cancelled", "effect_unknown"}
      /\ q.category \in Category \cup {Null} /\ q.evidence \in Evidence \cup {Null}
  BY RequestAssumption
<1>2. a \in AttemptRecord
  BY <1>1 DEF AttemptRecord, AttemptStatus
<1>3. status \in {"overrun", q.status} /\ status \in SettlementStatus
  BY <1>1 DEF SettlementStatus
<1>4. Settle(s, q) = CASE status = "overrun"        -> Latch(closed, "settlement_overrun", q)
                       [] status = "effect_unknown" -> Latch(closed, "effect_unknown", q)
                       [] OTHER                     -> closed
  BY DEF Settle
<1> HIDE DEF status, a
<1>5. /\ closed \in Snapshot
      /\ closed.settled = [s.settled EXCEPT ![q.permit] = status]
      /\ closed.permit = [s.permit EXCEPT ![q.permit] = "none"]
      /\ closed.attempt = [s.attempt EXCEPT ![q.permit] = a]
      /\ closed.cancel = s.cancel /\ closed.latch = s.latch /\ closed.policy = s.policy
  <2> DEFINE b == ApplyActual(s, q)
  <2>1. /\ b \in Snapshot /\ b.settled = s.settled /\ b.permit = s.permit
        /\ b.attempt = s.attempt /\ b.cancel = s.cancel /\ b.latch = s.latch
        /\ b.policy = s.policy
    BY <1>1, ApplyActualFields
  <2> HIDE DEF b
  <2>2. closed = Close(b, q.permit, status, a)
    BY DEF b
  <2>3. /\ Close(b, q.permit, status, a) \in Snapshot
        /\ Close(b, q.permit, status, a).settled = [b.settled EXCEPT ![q.permit] = status]
        /\ Close(b, q.permit, status, a).permit = [b.permit EXCEPT ![q.permit] = "none"]
        /\ Close(b, q.permit, status, a).attempt = [b.attempt EXCEPT ![q.permit] = a]
        /\ Close(b, q.permit, status, a).cancel = b.cancel
        /\ Close(b, q.permit, status, a).latch = b.latch
        /\ Close(b, q.permit, status, a).policy = b.policy
    <3>1. /\ b \in Snapshot /\ q.permit \in Permit /\ status \in SettlementStatus
          /\ a \in AttemptRecord
      BY <1>1, <1>2, <1>3, <2>1
    <3> QED
      BY <3>1, CloseFields
  <2> QED
    BY <2>1, <2>2, <2>3
<1> HIDE DEF closed
<1>6. \A p \in Permit \ {q.permit} : closed.attempt[p] = s.attempt[p]
  <2>1. s.attempt \in [Permit -> AttemptRecord]
    BY DEF Snapshot
  <2> QED
    BY <2>1, <1>5
<1>7. CASE status \in {"overrun", "effect_unknown"}
  <2>1. PICK code \in FailureCode : Settle(s, q) = Latch(closed, code, q)
    <3>1. CASE status = "overrun"
      BY <3>1, <1>4 DEF FailureCode
    <3>2. CASE status = "effect_unknown"
      BY <3>2, <1>4 DEF FailureCode
    <3> QED
      BY <3>1, <3>2, <1>7
  <2>2. /\ Latch(closed, code, q) \in Snapshot
        /\ Latch(closed, code, q).latch # Null
        /\ s.latch # Null => Latch(closed, code, q).latch = s.latch
        /\ Latch(closed, code, q).settled = closed.settled
        /\ Latch(closed, code, q).permit = closed.permit
        /\ Latch(closed, code, q).attempt = closed.attempt
        /\ Latch(closed, code, q).cancel = closed.cancel
        /\ Latch(closed, code, q).policy = closed.policy
    BY <1>5, LatchFields
  <2> QED
    BY <1>3, <1>5, <1>6, <2>1, <2>2
<1>8. CASE status \notin {"overrun", "effect_unknown"}
  <2>1. Settle(s, q) = closed
    BY <1>4, <1>8
  <2> QED
    BY <1>3, <1>5, <1>6, <1>8, <2>1
<1> QED
  BY <1>7, <1>8

\* The charge and the record of an operation change nothing that the
\* properties speak of.
LEMMA ChargeFields ==
    ASSUME NEW s \in Snapshot, NEW el \in Nat
    PROVE  /\ Charge(s, el) \in Snapshot
           /\ Charge(s, el).settled = s.settled
           /\ Charge(s, el).permit = s.permit
           /\ Charge(s, el).attempt = s.attempt
           /\ Charge(s, el).cancel = s.cancel
           /\ Charge(s, el).latch = s.latch
           /\ Charge(s, el).policy = s.policy
           /\ Charge(s, el).ops = s.ops
  BY DEF Charge, Snapshot

LEMMA RecordFields ==
    ASSUME NEW s \in Snapshot, NEW o \in Operations
    PROVE  /\ [s EXCEPT !.ops = o] \in Snapshot
           /\ [s EXCEPT !.ops = o].settled = s.settled
           /\ [s EXCEPT !.ops = o].permit = s.permit
           /\ [s EXCEPT !.ops = o].attempt = s.attempt
           /\ [s EXCEPT !.ops = o].cancel = s.cancel
           /\ [s EXCEPT !.ops = o].latch = s.latch
           /\ [s EXCEPT !.ops = o].policy = s.policy
           /\ [s EXCEPT !.ops = o].ops = o
  BY DEF Snapshot

-----------------------------------------------------------------------------
(* What a published snapshot satisfies, and what a successor keeps, one    *)
(* permit at a time.                                                       *)

\* A settled permit is not active, and a settlement that was not a release
\* found its cancellation absent or confirmed; doubt is latched.
PermitInv(s, p) ==
    /\ s.settled[p] # "none" => s.permit[p] = "none"
    /\ s.settled[p] \notin {"none", "released_no_effect"} =>
         \/ s.cancel[p].state = "not_requested"
         \/ /\ s.cancel[p].live = FALSE
            /\ s.cancel[p].state \in {"acknowledged", "cancelled", "effect_unknown"}
    /\ \/ s.settled[p] \in {"overrun", "effect_unknown"}
       \/ s.cancel[p].state \in {"unconfirmed", "effect_unknown"}
       => s.latch # Null

SnapInv(s) ==
    /\ \A p \in Permit : PermitInv(s, p)
    /\ s.ops = <<>> => s.latch = Null

Final(s, t, p) ==
    s.settled[p] # "none" =>
      /\ t.settled[p] = s.settled[p]
      /\ t.permit[p] = "none"
      /\ t.attempt[p] = s.attempt[p]

NoSuccess(s, t, p) ==
    s.cancel[p].state # "not_requested" =>
      /\ s.permit[p] = "reserved" => t.permit[p] # "started"
      /\ t.settled[p] # s.settled[p] =>
           /\ t.settled[p] \in {"cancelled", "effect_unknown", "overrun", "released_no_effect"}
           /\ t.settled[p] = "cancelled" => s.cancel[p].state \in {"acknowledged", "cancelled"}
           /\ t.settled[p] # "released_no_effect" => ~s.cancel[p].live

NotReserved(s, t, p) == s.latch # Null /\ t.permit[p] # "none" => s.permit[p] # "none"

PermitStep(s, t, p) ==
    PermitInv(t, p) /\ Final(s, t, p) /\ NoSuccess(s, t, p) /\ NotReserved(s, t, p)

\* A permit that an operation does not name keeps its part of the snapshot.
SamePermit(s, t, p) ==
    /\ t.settled[p] = s.settled[p] /\ t.permit[p] = s.permit[p]
    /\ t.attempt[p] = s.attempt[p] /\ t.cancel[p] = s.cancel[p]

LEMMA UnnamedPermit ==
    ASSUME NEW s, NEW t, NEW p, PermitInv(s, p), SamePermit(s, t, p),
           s.latch # Null => t.latch # Null
    PROVE  PermitStep(s, t, p)
  BY DEF PermitStep, PermitInv, Final, NoSuccess, NotReserved, SamePermit

\* How each kind of request changes the permit it names.
NamedPermit(s, t, q) ==
    LET x == q.permit
    IN  /\ q.kind = "reserve" =>
             /\ t.settled[x] = s.settled[x] /\ t.permit[x] = "reserved"
             /\ t.cancel[x] = s.cancel[x]
        /\ q.kind = "start" =>
             /\ t.settled[x] = s.settled[x] /\ t.permit[x] = "started"
             /\ t.cancel[x] = s.cancel[x]
        /\ q.kind = "settle" =>
             /\ t.settled[x] \in {"overrun", q.status} /\ t.permit[x] = "none"
             /\ t.cancel[x] = s.cancel[x]
             /\ t.settled[x] \in {"overrun", "effect_unknown"} => t.latch # Null
        /\ q.kind = "release" =>
             /\ t.settled[x] = "released_no_effect" /\ t.permit[x] = "none"
             /\ t.cancel[x] = s.cancel[x]
        /\ q.kind = "request_cancel" =>
             /\ t.settled[x] = s.settled[x] /\ t.permit[x] = s.permit[x]
             /\ t.attempt[x] = s.attempt[x] /\ t.cancel[x].state = "requested"
        /\ q.kind = "record_cancel" =>
             /\ t.settled[x] = s.settled[x] /\ t.permit[x] = s.permit[x]
             /\ t.cancel[x].state = q.state /\ t.cancel[x].live = q.live
             /\ t.cancel[x].evidence = q.evidence
             /\ IF q.state \in {"unconfirmed", "effect_unknown"}
                THEN t.latch # Null /\ t.attempt[x].status = "effect_unknown"
                ELSE t.attempt[x] = s.attempt[x]

PermitKind == Kind \ {"initialize", "tighten"}

\* Every operation as a change of the permit it names and of the run.
Effect(s, t, q) ==
    /\ t \in Snapshot
    /\ s.latch # Null => t.latch = s.latch
    /\ q.kind \notin {"initialize", "tighten"} => t.policy = s.policy
    /\ \A p \in Permit :
         q.kind \in {"initialize", "tighten"} \/ p # q.permit => SamePermit(s, t, p)
    /\ q.kind \in PermitKind => NamedPermit(s, t, q)

LEMMA UpdateEffect ==
    ASSUME NEW s \in Snapshot, NEW q \in Request
    PROVE  Effect(s, Update(s, q), q)
<1> DEFINE t == Update(s, q)
           e == [s EXCEPT !.policy = q.policy]
<1>1. /\ s.settled \in [Permit -> SettlementStatus \cup {"none"}]
      /\ s.permit \in [Permit -> {"none", "reserved", "started"}]
      /\ s.attempt \in [Permit -> AttemptRecord]
      /\ s.cancel \in [Permit -> CancellationRecord]
  BY DEF Snapshot
<1>2. q.kind \in Kind /\ (q.kind \in PermitKind => q.permit \in Permit)
  BY RequestAssumption DEF Kind, PermitKind
<1>3. CASE q.kind \in {"initialize", "tighten"}
  <2>1. t = e /\ q.policy \in Policy
    BY <1>3, RequestAssumption DEF Update
  <2>2. /\ e \in Snapshot /\ e.settled = s.settled /\ e.permit = s.permit
        /\ e.attempt = s.attempt /\ e.cancel = s.cancel /\ e.latch = s.latch
    BY <2>1 DEF Snapshot
  <2> HIDE DEF e, t
  <2> QED
    BY <1>3, <2>1, <2>2 DEF Effect, SamePermit, PermitKind, t
<1>4. CASE q.kind = "reserve"
  <2>1. t = Reserve(s, q)
    BY <1>4 DEF Update
  <2> HIDE DEF t
  <2>2. q.permit \in Permit
    BY <1>2, <1>4 DEF PermitKind, Kind
  <2>3. /\ t \in Snapshot /\ t.settled = s.settled
        /\ t.permit = [s.permit EXCEPT ![q.permit] = "reserved"]
        /\ t.attempt = [s.attempt EXCEPT ![q.permit] =
                          [status |-> "reserved", category |-> Null, evidence |-> Null]]
        /\ t.cancel = s.cancel /\ t.latch = s.latch /\ t.policy = s.policy
    BY <2>1, <2>2, ReserveFields
  <2>4. \A p \in Permit : p # q.permit => SamePermit(s, t, p)
    BY <1>1, <2>3 DEF SamePermit
  <2>5. NamedPermit(s, t, q)
    BY <1>1, <1>4, <2>2, <2>3 DEF NamedPermit
  <2> QED
    BY <1>4, <2>3, <2>4, <2>5 DEF Effect, t
<1>5. CASE q.kind = "start"
  <2>1. t = Start(s, q)
    BY <1>5 DEF Update
  <2> HIDE DEF t
  <2>2. q.permit \in Permit
    BY <1>2, <1>5 DEF PermitKind, Kind
  <2>3. /\ t \in Snapshot /\ t.settled = s.settled
        /\ t.permit = [s.permit EXCEPT ![q.permit] = "started"]
        /\ t.attempt = [s.attempt EXCEPT ![q.permit] =
                          [s.attempt[q.permit] EXCEPT !.status = "started"]]
        /\ t.cancel = s.cancel /\ t.latch = s.latch /\ t.policy = s.policy
    BY <2>1, <2>2, StartFields
  <2>4. \A p \in Permit : p # q.permit => SamePermit(s, t, p)
    BY <1>1, <2>3 DEF SamePermit
  <2>5. NamedPermit(s, t, q)
    BY <1>1, <1>5, <2>2, <2>3 DEF NamedPermit
  <2> QED
    BY <1>5, <2>3, <2>4, <2>5 DEF Effect, t
<1>6. CASE q.kind = "settle"
  <2>1. t = Settle(s, q)
    BY <1>6 DEF Update
  <2> HIDE DEF t
  <2>2. q.permit \in Permit
    BY <1>2, <1>6 DEF PermitKind, Kind
  <2>3. /\ t \in Snapshot
        /\ \E status \in {"overrun", q.status} :
             /\ t.settled = [s.settled EXCEPT ![q.permit] = status]
             /\ status \in {"overrun", "effect_unknown"} => t.latch # Null
        /\ t.permit = [s.permit EXCEPT ![q.permit] = "none"]
        /\ \A p \in Permit \ {q.permit} : t.attempt[p] = s.attempt[p]
        /\ t.cancel = s.cancel
        /\ s.latch # Null => t.latch = s.latch
        /\ t.policy = s.policy
    BY <2>1, <2>2, <1>6, SettleFields
  <2>4. \A p \in Permit : p # q.permit => SamePermit(s, t, p)
    BY <1>1, <2>3 DEF SamePermit
  <2>5. NamedPermit(s, t, q)
    BY <1>1, <1>6, <2>2, <2>3 DEF NamedPermit
  <2> QED
    BY <1>6, <2>3, <2>4, <2>5 DEF Effect, t
<1>7. CASE q.kind = "release"
  <2>1. t = Release(s, q)
    BY <1>7 DEF Update
  <2> HIDE DEF t
  <2>2. q.permit \in Permit
    BY <1>2, <1>7 DEF PermitKind, Kind
  <2>3. /\ t \in Snapshot
        /\ t.settled = [s.settled EXCEPT ![q.permit] = "released_no_effect"]
        /\ t.permit = [s.permit EXCEPT ![q.permit] = "none"]
        /\ \A p \in Permit \ {q.permit} : t.attempt[p] = s.attempt[p]
        /\ t.cancel = s.cancel /\ t.latch = s.latch /\ t.policy = s.policy
    BY <2>1, <2>2, <1>7, RequestAssumption, ReleaseFields
  <2>4. \A p \in Permit : p # q.permit => SamePermit(s, t, p)
    BY <1>1, <2>3 DEF SamePermit
  <2>5. NamedPermit(s, t, q)
    BY <1>1, <1>7, <2>2, <2>3 DEF NamedPermit
  <2> QED
    BY <1>7, <2>3, <2>4, <2>5 DEF Effect, t
<1>8. CASE q.kind = "request_cancel"
  <2>1. t = RequestCancel(s, q)
    BY <1>8 DEF Update
  <2> HIDE DEF t
  <2>2. q.permit \in Permit
    BY <1>2, <1>8 DEF PermitKind, Kind
  <2>3. /\ t \in Snapshot /\ t.settled = s.settled /\ t.permit = s.permit
        /\ t.attempt = s.attempt
        /\ t.cancel = [s.cancel EXCEPT ![q.permit] =
                         [state |-> "requested", live |-> TRUE, evidence |-> Null]]
        /\ t.latch = s.latch /\ t.policy = s.policy
    BY <2>1, <2>2, RequestCancelFields
  <2>4. \A p \in Permit : p # q.permit => SamePermit(s, t, p)
    BY <1>1, <2>3 DEF SamePermit
  <2>5. NamedPermit(s, t, q)
    BY <1>1, <1>8, <2>2, <2>3 DEF NamedPermit
  <2> QED
    BY <1>8, <2>3, <2>4, <2>5 DEF Effect, t
<1>9. CASE q.kind = "record_cancel"
  <2>1. t = RecordCancel(s, q)
    BY <1>9 DEF Update
  <2> HIDE DEF t
  <2>2. q.permit \in Permit
    BY <1>2, <1>9 DEF PermitKind, Kind
  <2>3. /\ t \in Snapshot /\ t.settled = s.settled /\ t.permit = s.permit
        /\ t.cancel = [s.cancel EXCEPT ![q.permit] =
                         [state |-> q.state, live |-> q.live, evidence |-> q.evidence]]
        /\ t.policy = s.policy
        /\ \A p \in Permit \ {q.permit} : t.attempt[p] = s.attempt[p]
        /\ s.latch # Null => t.latch = s.latch
        /\ IF q.state \in {"unconfirmed", "effect_unknown"}
           THEN t.latch # Null /\ t.attempt[q.permit].status = "effect_unknown"
           ELSE t.latch = s.latch /\ t.attempt = s.attempt
    BY <2>1, <2>2, <1>9, RequestAssumption, RecordCancelFields
  <2>4. \A p \in Permit : p # q.permit => SamePermit(s, t, p)
    BY <1>1, <2>3 DEF SamePermit
  <2>5. NamedPermit(s, t, q)
    BY <1>1, <1>9, <2>2, <2>3 DEF NamedPermit
  <2> QED
    BY <1>9, <2>3, <2>4, <2>5 DEF Effect, t
<1> QED
  BY <1>2, <1>3, <1>4, <1>5, <1>6, <1>7, <1>8, <1>9 DEF Kind

LEMMA ApplyEffect ==
    ASSUME NEW s \in Snapshot, NEW q \in Request, NEW el \in Nat
    PROVE  /\ Effect(s, Apply(s, q, el), q)
           /\ Apply(s, q, el).ops = Append(s.ops, [req |-> q, runtime |-> s.runtime + el])
           /\ Apply(s, q, el).ops # <<>>
<1> DEFINE u == Charge(s, el)
           w == Update(u, q)
           t == Apply(s, q, el)
           o == Append(s.ops, [req |-> q, runtime |-> s.runtime + el])
<1>1. /\ u \in Snapshot /\ u.settled = s.settled /\ u.permit = s.permit
      /\ u.attempt = s.attempt /\ u.cancel = s.cancel /\ u.latch = s.latch
      /\ u.policy = s.policy
  BY ChargeFields
<1> HIDE DEF u
<1>2. Effect(u, w, q)
  BY <1>1, UpdateEffect
<1>3. t = [w EXCEPT !.ops = o]
  BY DEF Apply, u
<1> HIDE DEF w, t
<1>4. o \in Operations /\ o # <<>>
  <2>1. s.ops \in Operations /\ s.runtime + el \in Nat
    BY DEF Snapshot
  <2> QED
    BY <2>1 DEF Operations
<1> HIDE DEF o
<1>5. /\ t \in Snapshot /\ t.settled = w.settled /\ t.permit = w.permit
      /\ t.attempt = w.attempt /\ t.cancel = w.cancel /\ t.latch = w.latch
      /\ t.policy = w.policy /\ t.ops = o
  BY <1>2, <1>3, <1>4, RecordFields DEF Effect
<1>6. \A p \in Permit : SamePermit(u, w, p) => SamePermit(s, t, p)
  BY <1>1, <1>5 DEF SamePermit
<1>7. NamedPermit(u, w, q) => NamedPermit(s, t, q)
  BY <1>1, <1>5 DEF NamedPermit
<1>8. Effect(s, t, q)
  BY <1>1, <1>2, <1>5, <1>6, <1>7 DEF Effect
<1> QED
  BY <1>4, <1>5, <1>8 DEF t, o

-----------------------------------------------------------------------------
(* What an operation does to the origins, the usage and the clock.         *)

\* A settlement adds its usage, and without a failure stays within what its
\* permit had reserved.
Spends(s, t, q) ==
    /\ t.origin = s.origin /\ t.runtime = s.runtime
    /\ \A r \in Cumulative : t.usage[r] = s.usage[r] + q.actual[r]
    /\ \A r \in Resource : t.usage[r] \in Nat /\ t.usage[r] >= s.usage[r]
    /\ t.latch = Null =>
         \A r \in Resource : s.origin[q.permit].amount[r] \in Nat =>
                              q.actual[r] <= s.origin[q.permit].amount[r]
    /\ \/ t.attempt[q.permit].status = "failed"
       \/ /\ t.attempt[q.permit].status = q.status
          /\ t.attempt[q.permit].category = q.category

LEMMA SettleSpends ==
    ASSUME NEW s \in Snapshot, NEW q \in Request, q.kind = "settle"
    PROVE  Spends(s, Settle(s, q), q)
<1> DEFINE status == IF Overruns(s, q) THEN "overrun" ELSE q.status
           a == [status |-> IF status = "overrun" THEN "failed" ELSE status,
                 category |-> q.category, evidence |-> q.evidence]
           u == [r \in Resource |-> IF r \in Cumulative THEN s.usage[r] + q.actual[r]
                                    ELSE FSE!Max({s.usage[r], q.actual[r]})]
           k == FSE!Max({s.peak, q.peak})
           b == [s EXCEPT !.usage = u, !.peak = k]
           d == [b EXCEPT !.permit[q.permit] = "none", !.settled[q.permit] = status,
                          !.attempt[q.permit] = a]
           t == Settle(s, q)
<1>1. /\ q.permit \in Permit /\ q.actual \in [Resource -> Nat] /\ s.usage \in [Resource -> Nat]
      /\ s.latch = Null \/ s.latch # Null
  BY RequestAssumption DEF Snapshot, Amounts
<1>2. /\ \A r \in Cumulative : u[r] = s.usage[r] + q.actual[r]
      /\ \A r \in Resource : u[r] \in Nat /\ u[r] >= s.usage[r]
  <2>1. ASSUME NEW x \in Nat, NEW y \in Nat
        PROVE  FSE!Max({x, y}) \in Nat /\ FSE!Max({x, y}) >= x
    BY DEF FSE!Max
  <2>2. QED
    BY <1>1, <2>1 DEF Resource
<1>3. t = CASE status = "overrun"        -> Latch(d, "settlement_overrun", q)
            [] status = "effect_unknown" -> Latch(d, "effect_unknown", q)
            [] OTHER                     -> d
  BY DEF Settle, Close, ApplyActual
<1>4. \/ a.status = "failed"
      \/ a.status = q.status /\ a.category = q.category
  OBVIOUS
<1>5. status # "overrun" =>
        \A r \in Resource : s.origin[q.permit].amount[r] \in Nat =>
                             q.actual[r] <= s.origin[q.permit].amount[r]
  <2>1. status # "overrun" => ~Overruns(s, q)
    OBVIOUS
  <2>2. \A r \in Resource : q.actual[r] \in Nat
    BY <1>1
  <2> HIDE DEF status
  <2>3. ~Overruns(s, q) => \A r \in Resource : ~(q.actual[r] > s.origin[q.permit].amount[r])
    BY DEF Overruns
  <2>4. QED
    BY <2>1, <2>2, <2>3
<1> HIDE DEF status, a, u, k
<1>6. /\ b.origin = s.origin /\ b.runtime = s.runtime /\ b.usage = u /\ b.latch = s.latch
      /\ b.attempt = s.attempt /\ b.attempt \in [Permit -> AttemptRecord]
      /\ DOMAIN b = DOMAIN s
  BY DEF Snapshot
<1>7. DOMAIN s = {"ops", "policy", "usage", "runtime", "peak", "permit", "origin", "since",
                  "settled", "attempt", "cancel", "latch"}
  BY DEF Snapshot
<1> HIDE DEF b
<1>8. /\ d.origin = s.origin /\ d.runtime = s.runtime /\ d.usage = u
      /\ d.attempt[q.permit] = a /\ d.latch = s.latch /\ DOMAIN d = DOMAIN s
  BY <1>1, <1>6, <1>7
<1> HIDE DEF d
<1>9. ASSUME NEW code \in FailureCode
      PROVE  /\ Latch(d, code, q).origin = s.origin
             /\ Latch(d, code, q).runtime = s.runtime
             /\ Latch(d, code, q).usage = u
             /\ Latch(d, code, q).attempt = d.attempt
             /\ Latch(d, code, q).latch # Null
  BY <1>7, <1>8, RequestAssumption DEF Latch
<1>10. /\ t.origin = s.origin /\ t.runtime = s.runtime /\ t.usage = u
       /\ t.attempt[q.permit] = a
       /\ status = "overrun" => t.latch # Null
  BY <1>3, <1>8, <1>9 DEF FailureCode
<1> HIDE DEF t
<1>11. QED
  BY <1>2, <1>4, <1>5, <1>10 DEF Spends, t

\* The parts of a snapshot, and of the attempt it names, that Effect leaves open.
Rest(s, t, q) ==
    /\ t.runtime = s.runtime
    /\ t.origin = IF q.kind = "reserve" THEN [s.origin EXCEPT ![q.permit] = q] ELSE s.origin
    /\ IF q.kind = "settle" THEN Spends(s, t, q) ELSE t.usage = s.usage
    /\ q.kind \notin {"settle", "record_cancel"} => t.latch = s.latch
    /\ q.kind \in {"initialize", "tighten"} => t.policy = q.policy
    /\ q.kind = "reserve" => /\ t.attempt[q.permit].status = "reserved"
                             /\ t.attempt[q.permit].category = Null
    /\ q.kind = "start" => t.attempt[q.permit].status = "started"
    /\ q.kind \in {"start", "record_cancel"} =>
         t.attempt[q.permit].category = s.attempt[q.permit].category
    /\ q.kind = "release" => t.attempt[q.permit].status = "cancelled"

SnapshotFields == {"ops", "policy", "usage", "runtime", "peak", "permit", "origin", "since",
                   "settled", "attempt", "cancel", "latch"}

LEMMA UpdateRest ==
    ASSUME NEW s \in Snapshot, NEW q \in Request
    PROVE  Rest(s, Update(s, q), q)
<1> DEFINE t == Update(s, q)
<1>1. /\ DOMAIN s = SnapshotFields
      /\ s.permit \in [Permit -> {"none", "reserved", "started"}]
      /\ s.origin \in [Permit -> Request \cup {Null}]
      /\ s.attempt \in [Permit -> AttemptRecord]
      /\ s.cancel \in [Permit -> CancellationRecord]
  BY DEF Snapshot, SnapshotFields
<1>2. q.kind \in Kind /\ (q.kind \in PermitKind => q.permit \in Permit)
  BY RequestAssumption DEF Kind, PermitKind
<1>3. CASE q.kind \in {"initialize", "tighten"}
  <2>1. t = [s EXCEPT !.policy = q.policy]
    BY <1>3 DEF Update
  <2>2. QED
    BY <1>1, <1>3, <2>1 DEF Rest, SnapshotFields
<1>4. CASE q.kind = "reserve"
  <2>1. t = Reserve(s, q)
    BY <1>4 DEF Update
  <2>2. QED
    BY <1>1, <1>2, <1>4, <2>1 DEF Rest, SnapshotFields, Reserve, PermitKind, Kind
<1>5. CASE q.kind = "start"
  <2>1. t = Start(s, q)
    BY <1>5 DEF Update
  <2>2. q.permit \in Permit
    BY <1>2, <1>5 DEF PermitKind, Kind
  <2> DEFINE a == [s.attempt[q.permit] EXCEPT !.status = "started"]
  <2>3. a.status = "started" /\ a.category = s.attempt[q.permit].category
    BY <1>1, <2>2 DEF AttemptRecord
  <2>4. t = [s EXCEPT !.permit[q.permit] = "started", !.attempt[q.permit] = a]
    BY <2>1 DEF Start
  <2> HIDE DEF a, t
  <2>5. QED
    BY <1>1, <1>5, <2>2, <2>3, <2>4 DEF Rest, SnapshotFields, t
<1>6. CASE q.kind = "settle"
  <2>1. t = Settle(s, q)
    BY <1>6 DEF Update
  <2>2. Spends(s, t, q)
    BY <1>6, <2>1, SettleSpends
  <2>3. t.runtime = s.runtime /\ t.origin = s.origin
    BY <2>2 DEF Spends
  <2> HIDE DEF t
  <2>4. QED
    BY <1>6, <2>2, <2>3 DEF Rest, t
<1>7. CASE q.kind = "release"
  <2>1. t = Release(s, q)
    BY <1>7 DEF Update
  <2>2. q.permit \in Permit /\ q.evidence \in Evidence \cup {Null}
    BY <1>7, RequestAssumption
  <2> DEFINE a == [s.attempt[q.permit] EXCEPT !.status = "cancelled", !.evidence = q.evidence]
  <2>3. a.status = "cancelled"
    BY <1>1, <2>2 DEF AttemptRecord
  <2>4. t = [s EXCEPT !.permit[q.permit] = "none", !.settled[q.permit] = "released_no_effect",
                      !.attempt[q.permit] = a]
    BY <2>1 DEF Release, Close
  <2> HIDE DEF a, t
  <2>5. QED
    BY <1>1, <1>7, <2>2, <2>3, <2>4 DEF Rest, SnapshotFields, t
<1>8. CASE q.kind = "request_cancel"
  <2>1. t = RequestCancel(s, q)
    BY <1>8 DEF Update
  <2>2. QED
    BY <1>1, <1>8, <2>1 DEF Rest, SnapshotFields, RequestCancel
<1>9. CASE q.kind = "record_cancel"
  <2> DEFINE noted == [s EXCEPT !.cancel[q.permit] = [state |-> q.state, live |-> q.live,
                                                      evidence |-> q.evidence]]
             a == [s.attempt[q.permit] EXCEPT !.status = "effect_unknown", !.evidence = q.evidence]
             doubt == [noted EXCEPT !.attempt[q.permit] = a]
  <2>0. q.permit \in Permit
    BY <1>9, RequestAssumption
  <2>1. t \in {noted, doubt, Latch(doubt, "cancel_unconfirmed", q),
               Latch(doubt, "effect_unknown", q)}
    BY <1>9 DEF Update, RecordCancel
  <2>2. /\ noted.origin = s.origin /\ noted.usage = s.usage /\ noted.runtime = s.runtime
        /\ noted.attempt = s.attempt /\ DOMAIN noted = SnapshotFields
    BY <1>1 DEF SnapshotFields
  <2>a. a.category = s.attempt[q.permit].category
    BY <1>1, <2>0 DEF AttemptRecord
  <2> HIDE DEF noted, a
  <2>3. /\ doubt.origin = s.origin /\ doubt.usage = s.usage /\ doubt.runtime = s.runtime
        /\ doubt.attempt[q.permit] = a /\ DOMAIN doubt = SnapshotFields
    BY <1>1, <2>0, <2>2 DEF SnapshotFields
  <2> HIDE DEF doubt
  <2>4. ASSUME NEW code
        PROVE  /\ Latch(doubt, code, q).origin = s.origin
               /\ Latch(doubt, code, q).usage = s.usage
               /\ Latch(doubt, code, q).runtime = s.runtime
               /\ Latch(doubt, code, q).attempt = doubt.attempt
    BY <2>3 DEF Latch, SnapshotFields
  <2> HIDE DEF t
  <2>5. /\ t.origin = s.origin /\ t.usage = s.usage /\ t.runtime = s.runtime
        /\ t.attempt[q.permit].category = s.attempt[q.permit].category
    BY <2>1, <2>2, <2>a, <2>3, <2>4
  <2>6. QED
    BY <1>9, <2>5 DEF Rest, t
<1>10. QED
  BY <1>2, <1>3, <1>4, <1>5, <1>6, <1>7, <1>8, <1>9 DEF Kind

LEMMA ApplyRest ==
    ASSUME NEW s \in Snapshot, NEW q \in Request, NEW el \in Nat
    PROVE  Rest([s EXCEPT !.runtime = @ + el], Apply(s, q, el), q)
<1> DEFINE u == Charge(s, el)
           w == Update(u, q)
           t == Apply(s, q, el)
           o == Append(s.ops, [req |-> q, runtime |-> s.runtime + el])
<1>1. u \in Snapshot /\ u = [s EXCEPT !.runtime = @ + el]
  BY ChargeFields DEF Charge
<1> HIDE DEF u
<1>2. Rest(u, w, q) /\ w \in Snapshot
  BY <1>1, UpdateRest, UpdateEffect DEF Effect
<1>3. t = [w EXCEPT !.ops = o]
  BY DEF Apply, u
<1> HIDE DEF w, t, o
<1>4. /\ t.runtime = w.runtime /\ t.origin = w.origin /\ t.usage = w.usage
      /\ t.latch = w.latch /\ t.policy = w.policy /\ t.attempt = w.attempt
  BY <1>2, <1>3 DEF Snapshot
<1>5. Spends(u, w, q) => Spends(u, t, q)
  BY <1>4 DEF Spends
<1>6. Rest(u, t, q)
  BY <1>2, <1>4, <1>5 DEF Rest
<1>7. QED
  BY <1>1, <1>6 DEF t

\* The heart of the argument: an operation that was admitted on s, and whose
\* snapshot t validates, is a permitted step of every permit.
LEMMA AdmittedStep ==
    ASSUME NEW s \in Snapshot, NEW q \in Request, NEW el, NEW t, SnapInv(s),
           Admits(s, q, el), Effect(s, t, q), ValidSnapshot(t)
    PROVE  /\ \A p \in Permit : PermitStep(s, t, p)
           /\ s.latch # Null => t.policy = s.policy
<1>1. q.kind \in Kind /\ (q.kind \in PermitKind => q.permit \in Permit)
  BY RequestAssumption DEF Kind, PermitKind
<1>2. s.latch # Null => t.latch # Null
  BY DEF Effect
<1>3. ASSUME NEW p \in Permit, q.kind \in {"initialize", "tighten"} \/ p # q.permit
      PROVE  PermitStep(s, t, p)
  BY <1>2, <1>3, UnnamedPermit DEF Effect, SnapInv
<1>4. s.latch # Null => t.policy = s.policy
  <2>1. q.kind = "tighten" => s.latch = Null
    BY DEF Admits, AdmitTighten
  <2>2. q.kind = "initialize" => s.latch = Null
    BY DEF Admits, SnapInv
  <2> QED
    BY <2>1, <2>2 DEF Effect
<1>5. ASSUME q.kind \in PermitKind
      PROVE  PermitStep(s, t, q.permit)
  <2> DEFINE x == q.permit
  <2>1. x \in Permit /\ PermitInv(s, x)
    BY <1>1, <1>5 DEF SnapInv
  <2>2. NamedPermit(s, t, q)
    BY <1>5 DEF Effect
  <2>3. s.permit[x] \in {"none", "reserved", "started"}
    BY <2>1 DEF Snapshot
  <2>4. CASE q.kind = "reserve"
    <3>1. s.settled[x] = "none" /\ s.permit[x] = "none" /\ s.latch = Null
      BY <2>1, <2>4 DEF Admits, AdmitReserve, AdmitReservation, Active, Settled
    <3> QED
      BY <1>2, <2>1, <2>2, <2>4, <3>1 DEF NamedPermit, PermitStep, PermitInv, Final,
           NoSuccess, NotReserved
  <2>5. CASE q.kind = "start"
    <3>1. s.permit[x] = "reserved" /\ s.cancel[x].state = "not_requested"
      BY <2>5 DEF Admits, AdmitStart
    <3> QED
      BY <1>2, <2>1, <2>2, <2>5, <3>1 DEF NamedPermit, PermitStep, PermitInv, Final,
           NoSuccess, NotReserved
  <2>6. CASE q.kind = "settle"
    <3>1. s.permit[x] = "started" /\ CancellationAllows(s, q)
      BY <2>6 DEF Admits, AdmitSettle
    <3>2. s.cancel[x].live \in BOOLEAN
      BY <2>1 DEF Snapshot, CancellationRecord
    <3>3. q.status \in {"succeeded", "failed", "cancelled", "effect_unknown"}
      BY <2>6, RequestAssumption
    <3> QED
      BY <1>2, <2>1, <2>2, <2>6, <3>1, <3>2, <3>3 DEF NamedPermit, PermitStep, PermitInv,
           Final, NoSuccess, NotReserved, CancellationAllows
  <2>7. CASE q.kind = "release"
    <3>1. s.permit[x] = "reserved"
      BY <2>7 DEF Admits
    <3> QED
      BY <1>2, <2>1, <2>2, <2>7, <3>1 DEF NamedPermit, PermitStep, PermitInv, Final,
           NoSuccess, NotReserved
  <2>8. CASE q.kind = "request_cancel"
    <3>1. s.permit[x] # "none" /\ s.cancel[x].state = "not_requested"
      BY <2>8 DEF Admits, AdmitRequestCancel, Active
    <3> QED
      BY <1>2, <2>1, <2>2, <2>8, <3>1 DEF NamedPermit, PermitStep, PermitInv, Final,
           NoSuccess, NotReserved
  <2>9. CASE q.kind = "record_cancel"
    <3>1. AdmitRecordCancel(s, q)
      BY <2>9 DEF Admits
    <3>2. q.state \in CancellationState /\ q.live \in BOOLEAN
      BY <2>9, RequestAssumption
    <3>3. s.cancel[x].live \in BOOLEAN
      BY <2>1 DEF Snapshot, CancellationRecord
    <3>4. t.settled[x] # "none" => t.attempt[x].status = SettledAttempt(t.settled[x])
      BY <2>1 DEF ValidSnapshot, Settled
    <3>5. CASE q.state \in {"unconfirmed", "effect_unknown"}
      <4>1. s.settled[x] = "none"
        <5>1. SUFFICES ASSUME s.settled[x] # "none" PROVE FALSE
          OBVIOUS
        <5>2. SettledAttempt(s.settled[x]) = "effect_unknown"
          BY <2>2, <2>9, <3>4, <3>5, <5>1 DEF NamedPermit
        <5>3. s.settled[x] = "effect_unknown"
          BY <5>2 DEF SettledAttempt
        <5> QED
          BY <2>1, <3>1, <3>5, <5>3 DEF PermitInv, AdmitRecordCancel
      <4> QED
        BY <1>2, <2>1, <2>2, <2>9, <3>5, <4>1 DEF NamedPermit, PermitStep, PermitInv,
             Final, NoSuccess, NotReserved
    <3>6. CASE q.state \notin {"unconfirmed", "effect_unknown"}
      <4>1. q.state \in {"acknowledged", "cancelled"} /\ q.live = FALSE
        BY <3>1, <3>2, <3>6 DEF AdmitRecordCancel
      <4> QED
        BY <1>2, <2>1, <2>2, <2>9, <4>1 DEF NamedPermit, PermitStep, PermitInv,
             Final, NoSuccess, NotReserved
    <3> QED
      BY <3>5, <3>6
  <2> QED
    BY <1>5, <2>4, <2>5, <2>6, <2>7, <2>8, <2>9 DEF PermitKind, Kind
<1> QED
  BY <1>1, <1>3, <1>4, <1>5 DEF PermitKind

LEMMA BlankIsSnapshot == Blank \in Snapshot
<1>1. <<>> \in Operations
  BY DEF Operations
<1>2. [r \in Resource |-> 0] \in Amounts
  BY DEF Amounts
<1>3. [status |-> "none", category |-> Null, evidence |-> Null] \in AttemptRecord
  BY DEF AttemptRecord, AttemptStatus
<1>4. [state |-> "not_requested", live |-> FALSE, evidence |-> Null] \in CancellationRecord
  BY DEF CancellationRecord, CancellationState
<1> QED
  BY <1>1, <1>2, <1>3, <1>4 DEF Blank, Snapshot
==============================================================================

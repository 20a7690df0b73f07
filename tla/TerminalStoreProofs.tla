-------------------------- MODULE TerminalStoreProofs --------------------------
(***************************************************************************)
(* Proofs about the terminal run store, for any number of processes,       *)
(* transactions, revisions and failures: what was published can be read and*)
(* stays published, a publication in doubt keeps its permit, and reports   *)
(* are true.  Files and budget are two roots without a transaction over    *)
(* them, so the invariant has a part for each and ties them together by the*)
(* number that a transaction has reserved.                                 *)
(***************************************************************************)
EXTENDS TerminalStore, BudgetStateProofs

-----------------------------------------------------------------------------
(* The budget's part of the invariant.                                     *)

Closed(s, p) == s.settled[p] \notin {"none", "released_no_effect"}

\* The permit of p was started, and was not released.
Begun(s, p) == s.permit[p] = "started" \/ Closed(s, p)

\* The budget's record of the reservation of a revision.
Reserves(s, r) ==
    /\ r.txn \in Attempted(s)
    /\ s.origin[r.txn].body = r.body
    /\ s.origin[r.txn].lineage.ordinal = r.num - 1

Started(s, r) == Reserves(s, r) /\ Begun(s, r.txn)

\* A recorded operation has left its mark.
OperationHolds(s, q) ==
    /\ q.kind = "reserve" => q.permit \in Attempted(s) /\ s.origin[q.permit] = q
    /\ q.kind = "start" => Begun(s, q.permit)

\* Attempts and settlements agree.
Balanced(s) == Active(s) \cap Settled(s) = {} /\ Attempted(s) = Active(s) \cup Settled(s)

\* A number is reserved by one transaction, of one body.
OriginsHold(s) ==
    /\ \A p \in Attempted(s) :
         \E r \in PointerId, n \in 0..Asked : r.txn = p /\ s.origin[p] = ReservePermit(r, n)
    /\ \A p, x \in Attempted(s) :
         s.origin[p].lineage.ordinal = s.origin[x].lineage.ordinal => p = x

\* A permit that was settled and not released was settled with the pointer of
\* the revision it was reserved for.
SettlementsHold(s) ==
    \A p \in Permit : Closed(s, p) =>
        \E r \in PointerId :
           r.txn = p /\ Reserves(s, r) /\ RecordedExactly(s, SettlePermit(r))

BudgetHolds(s) ==
    /\ s \in Snapshot
    /\ s.ops # <<>> => s.policy = RunPolicy
    /\ Balanced(s) /\ OriginsHold(s) /\ SettlementsHold(s)
    /\ \A i \in DOMAIN s.ops : OperationHolds(s, s.ops[i].req)

-----------------------------------------------------------------------------
(* The files' part.                                                        *)

\* A revision is numbered after the published one it is based on.
Based(r) ==
    \/ r.num = 1 /\ r.base = Null
    \/ /\ current # Null /\ r.num <= current.num + 1
       /\ \E b \in revs : b.num = r.num - 1 /\ r.base = IdOf(b)

FilesHold ==
    /\ \A r, x \in revs : r.num = x.num => r = x
    /\ \A r \in revs : Based(r) /\ Started(budget, r)
    /\ current # Null =>
         current \in revs /\ \A n \in 1..current.num : \E r \in revs : r.num = n

-----------------------------------------------------------------------------
(* A process's part.                                                       *)

PastReserve == {"start", "lock", "admit", "guard", "stage", "rename", "verify", "replace",
              "settle", "confirm", "release", "unlock"}
Critical == {"admit", "guard", "stage", "rename", "verify", "replace", "settle", "confirm",
             "unlock"}

\* What the process knows of both roots at each step.
PlaceInv(w) ==
    /\ proc[w].rev # Null => Based(proc[w].rev)
    /\ proc[w].pc # "idle" => proc[w].rev # Null
    /\ proc[w].rev # Null /\ proc[w].pc # "create" => budget.ops # <<>>
    /\ proc[w].pc \in PastReserve => Reserves(budget, proc[w].rev)
    /\ proc[w].pc \in PastReserve \ {"start"} => Begun(budget, proc[w].rev.txn)
    /\ proc[w].pc \in Critical => lock = w
    /\ proc[w].pc = "release" /\ proc[w].report.code # "run_locked" => lock = w
    /\ proc[w].pc = "replace" => proc[w].rev \in revs /\ IdOf(current) = proc[w].rev.base
    /\ proc[w].pc \in {"settle", "confirm"} => current = proc[w].rev

\* The flags of a call and what it did, at each step.
FlagsHold(p) ==
    /\ p.replaced <=> p.did = "advanced"
    /\ p.renamed => p.did \in {"renamed", "late", "advanced"}
    /\ p.pc \in {"create", "freeze", "reserve", "start", "lock", "admit", "guard", "stage"} =>
         p.did = "nothing" /\ ~p.renamed
    /\ p.pc = "rename" => p.did = "staged"
    /\ p.pc \in {"verify", "replace"} => p.did = "renamed" /\ p.renamed
    /\ p.pc \in {"settle", "confirm"} => p.did = "advanced"

\* What a report claims of a call that did this.
Says(report, did) ==
    report.code # "run_corrupt" =>
      /\ report.domain = "current_unchanged" => did # "advanced"
      /\ report.fs = "none" => did = "nothing"
      /\ report.fs = "unreferenced_revision" => did \in {"renamed", "late"}
      /\ report.code = "published" => did = "advanced"

ReportHolds(p) == p.pc \in {"idle", "release", "unlock"} => Says(p.report, p.did)

AcksHold == \A r \in acked : r \in revs /\ current # Null /\ r.num <= current.num /\ SettledFor(r)

ProcInv(w) == PlaceInv(w) /\ FlagsHold(proc[w]) /\ ReportHolds(proc[w])

StoreInv ==
    /\ TypeOK /\ BudgetHolds(budget) /\ FilesHold /\ AcksHold
    /\ \A w \in Writer : ProcInv(w)

-----------------------------------------------------------------------------
(* The operations that the coordinator issues, and what each of them does  *)
(* to the permit it names.                                                 *)

LEMMA Forms ==
    /\ \A t \in Permit : InitializeBudget(t) \in Request
    /\ \A r \in PointerId, n \in 0..Asked : ReservePermit(r, n) \in Request
    /\ \A r \in PointerId : StartPermit(r) \in Request /\ SettlePermit(r) \in Request
    /\ \A r \in PointerId, e \in FsEffect : ReleasePermit(r, e) \in Request
<1>1. \A t \in Permit : InitializeBudget(t) \in BudgetRequest
  BY DEF BudgetRequest, PointerId, Number
<1>2. \A r \in PointerId, n \in 0..Asked : ReservePermit(r, n) \in BudgetRequest
  BY DEF BudgetRequest, PointerId, Number
<1>3. \A r \in PointerId : StartPermit(r) \in BudgetRequest /\ SettlePermit(r) \in BudgetRequest
  BY DEF BudgetRequest, PointerId, Number
<1>4. \A r \in PointerId, e \in FsEffect : ReleasePermit(r, e) \in BudgetRequest
  BY DEF BudgetRequest, PointerId, Number
<1> QED
  BY <1>1, <1>2, <1>3, <1>4, BudgetRequestAssumption, Zenon

Issued(s, q) ==
    \/ \E t \in Permit : q = InitializeBudget(t)
    \/ \E r \in PointerId, n \in 0..Asked : q = ReservePermit(r, n)
    \/ \E r \in PointerId : q = StartPermit(r)
    \/ \E r \in PointerId : q = SettlePermit(r) /\ Reserves(s, r)
    \/ \E r \in PointerId, e \in FsEffect : q = ReleasePermit(r, e)

\* An operation was admitted on s and made t of it.
Taken(s, t, q) ==
    /\ Issued(s, q) /\ (q.kind = "initialize" \/ s.ops # <<>>)
    /\ \E el \in Nat : Admits(s, q, el) /\ t = Apply(s, q, el)
    /\ ValidSnapshot(t)

\* Where an operation takes the permit x that it names.
Moved(s, t, q, x) ==
    CASE q.kind = "reserve" -> /\ s.permit[x] = "none" /\ s.settled[x] = "none"
                               /\ t.permit[x] = "reserved" /\ t.settled[x] = "none"
      [] q.kind = "start"   -> /\ s.permit[x] = "reserved" /\ t.permit[x] = "started"
                               /\ t.settled[x] = s.settled[x]
      [] q.kind = "settle"  -> s.permit[x] = "started" /\ t.permit[x] = "none" /\ Closed(t, x)
      [] q.kind = "release" -> /\ s.permit[x] = "reserved" /\ t.permit[x] = "none"
                               /\ t.settled[x] = "released_no_effect"
      [] OTHER -> FALSE

\* The whole step of the snapshot.
MovesTo(s, t, q) ==
    /\ t \in Snapshot /\ Balanced(t)
    /\ t.ops = Append(s.ops, t.ops[Len(s.ops) + 1]) /\ t.ops[Len(s.ops) + 1].req = q
    /\ \A p \in Permit : q.kind = "initialize" \/ p # q.permit =>
         t.permit[p] = s.permit[p] /\ t.settled[p] = s.settled[p]
    /\ q.kind # "initialize" => q.permit \in Permit /\ Moved(s, t, q, q.permit)
    /\ t.policy = IF q.kind = "initialize" THEN RunPolicy ELSE s.policy
    /\ t.origin = IF q.kind = "reserve" THEN [s.origin EXCEPT ![q.permit] = q] ELSE s.origin
    /\ q.kind = "initialize" => s.ops = <<>>
    /\ q.kind = "reserve" => AdmitLineage(s, q.lineage)

LEMMA IssuedShape ==
    ASSUME NEW s, NEW q, Issued(s, q)
    PROVE  /\ q \in Request
           /\ q.kind \in {"initialize", "reserve", "start", "settle", "release"}
           /\ q.kind # "initialize" => q.permit \in Permit
           /\ q.kind = "initialize" => q.policy = RunPolicy
           /\ q.kind = "settle" => q.status \in {"succeeded", "failed"}
           /\ q.kind = "reserve" => \E r \in PointerId, n \in 0..Asked :
                                       q = ReservePermit(r, n) /\ r.txn = q.permit
           /\ q.kind = "settle" => \E r \in PointerId :
                                       q = SettlePermit(r) /\ Reserves(s, r) /\ r.txn = q.permit
<1>1. ASSUME NEW t \in Permit, q = InitializeBudget(t)
      PROVE  q \in Request /\ q.kind = "initialize" /\ q.policy = RunPolicy
  BY <1>1, Forms DEF InitializeBudget
<1>2. ASSUME NEW r \in PointerId, NEW n \in 0..Asked, q = ReservePermit(r, n)
      PROVE  q \in Request /\ q.kind = "reserve" /\ q.permit = r.txn /\ r.txn \in Permit
  BY <1>2, Forms DEF ReservePermit, PointerId
<1>3. ASSUME NEW r \in PointerId, q = StartPermit(r)
      PROVE  q \in Request /\ q.kind = "start" /\ q.permit = r.txn /\ r.txn \in Permit
  BY <1>3, Forms DEF StartPermit, PointerId
<1>4. ASSUME NEW r \in PointerId, q = SettlePermit(r)
      PROVE  /\ q \in Request /\ q.kind = "settle" /\ q.permit = r.txn /\ r.txn \in Permit
             /\ q.status \in {"succeeded", "failed"}
  BY <1>4, Forms DEF SettlePermit, PointerId
<1>5. ASSUME NEW r \in PointerId, NEW e \in FsEffect, q = ReleasePermit(r, e)
      PROVE  q \in Request /\ q.kind = "release" /\ q.permit = r.txn /\ r.txn \in Permit
  BY <1>5, Forms DEF ReleasePermit, PointerId
<1>6. CASE \E t \in Permit : q = InitializeBudget(t)
  BY <1>1, <1>6
<1>7. CASE \E r \in PointerId, n \in 0..Asked : q = ReservePermit(r, n)
  BY <1>2, <1>7
<1>8. CASE \E r \in PointerId : q = StartPermit(r)
  BY <1>3, <1>8
<1>9. CASE \E r \in PointerId : q = SettlePermit(r) /\ Reserves(s, r)
  BY <1>4, <1>9
<1>10. CASE \E r \in PointerId, e \in FsEffect : q = ReleasePermit(r, e)
  BY <1>5, <1>10
<1> QED
  BY <1>6, <1>7, <1>8, <1>9, <1>10 DEF Issued

LEMMA TakenMoves ==
    ASSUME NEW s \in Snapshot, NEW t, NEW q, Taken(s, t, q), Balanced(s)
    PROVE  MovesTo(s, t, q)
<1>1. PICK el \in Nat : Admits(s, q, el) /\ t = Apply(s, q, el)
  BY DEF Taken
<1> DEFINE o == [req |-> q, runtime |-> s.runtime + el]
           u == [s EXCEPT !.runtime = @ + el]
<1>2. /\ q \in Request
      /\ q.kind \in {"initialize", "reserve", "start", "settle", "release"}
      /\ q.kind # "initialize" => q.permit \in Permit
      /\ q.kind = "initialize" => q.policy = RunPolicy
      /\ q.kind = "settle" => q.status \in {"succeeded", "failed"}
  BY IssuedShape DEF Taken
<1>3. Effect(s, t, q) /\ t.ops = Append(s.ops, o)
  BY <1>1, <1>2, ApplyEffect
<1>4. Rest(u, t, q) /\ u.origin = s.origin
  BY <1>1, <1>2, ApplyRest DEF Snapshot
<1>5. t.ops[Len(s.ops) + 1] = o
  <2>1. s.ops \in Operations
    BY DEF Snapshot
  <2> QED
    BY <1>3, <2>1 DEF Operations
<1>6. \A p \in Permit : q.kind = "initialize" \/ p # q.permit =>
        t.permit[p] = s.permit[p] /\ t.settled[p] = s.settled[p]
  BY <1>3 DEF Effect, SamePermit
<1>7. q.kind # "initialize" => Moved(s, t, q, q.permit)
  <2>1. q.kind # "initialize" => NamedPermit(s, t, q)
    BY <1>2, <1>3 DEF Effect, PermitKind, Kind
  <2>2. CASE q.kind = "reserve"
    <3>1. q.permit \notin Active(s) \cup Settled(s)
      BY <1>1, <2>2 DEF Admits, AdmitReserve
    <3> QED
      BY <1>2, <2>1, <2>2, <3>1 DEF Moved, NamedPermit, Active, Settled
  <2>3. CASE q.kind = "start"
    BY <1>1, <2>1, <2>3 DEF Moved, NamedPermit, Admits, AdmitStart
  <2>4. CASE q.kind = "settle"
    BY <1>1, <1>2, <2>1, <2>4 DEF Moved, NamedPermit, Admits, AdmitSettle, Closed
  <2>5. CASE q.kind = "release"
    BY <1>1, <2>1, <2>5 DEF Moved, NamedPermit, Admits
  <2> QED
    BY <1>2, <2>2, <2>3, <2>4, <2>5
<1>8. t.policy = IF q.kind = "initialize" THEN RunPolicy ELSE s.policy
  BY <1>2, <1>3, <1>4 DEF Effect, Rest
<1>9. t.origin = IF q.kind = "reserve" THEN [s.origin EXCEPT ![q.permit] = q] ELSE s.origin
  BY <1>4 DEF Rest
<1>10. Balanced(t)
  BY DEF Taken, ValidSnapshot, Balanced
<1>11. /\ q.kind = "initialize" => s.ops = <<>>
       /\ q.kind = "reserve" => AdmitLineage(s, q.lineage)
  BY <1>1 DEF Admits, AdmitReserve
<1> QED
  BY <1>2, <1>3, <1>5, <1>6, <1>7, <1>8, <1>9, <1>10, <1>11 DEF Effect, MovesTo

\* What no operation takes back.
Grows(s, t) ==
    /\ \A r : Reserves(s, r) => Reserves(t, r)
    /\ \A p \in Permit : Begun(s, p) => Begun(t, p)
    /\ \A q : RecordedExactly(s, q) => RecordedExactly(t, q)
    /\ \A p \in Permit : s.settled[p] # "none" => t.settled[p] = s.settled[p]
    /\ s.ops # <<>> => t.ops # <<>>

LEMMA RecordsGrow ==
    ASSUME NEW s \in Snapshot, NEW t, NEW q, Taken(s, t, q), Balanced(s)
    PROVE  /\ \A x : RecordedExactly(s, x) => RecordedExactly(t, x)
           /\ RecordedExactly(t, q) /\ t.ops # <<>>
           /\ \A i \in DOMAIN t.ops : t.ops[i].req = q \/ \E j \in DOMAIN s.ops : t.ops[i] = s.ops[j]
<1> DEFINE o == t.ops[Len(s.ops) + 1]
<1>1. t.ops = Append(s.ops, o) /\ o.req = q
  <2>1. MovesTo(s, t, q)
    BY TakenMoves
  <2> QED
    BY <2>1 DEF MovesTo
<1>2. s.ops \in Seq([req : Request, runtime : Nat])
  BY DEF Snapshot, Operations
<1>3. t \in Snapshot
  <2>1. MovesTo(s, t, q)
    BY TakenMoves
  <2> QED
    BY <2>1 DEF MovesTo
<1>4. t.ops \in Seq([req : Request, runtime : Nat])
  BY <1>3 DEF Snapshot, Operations
<1> HIDE DEF o
<1>5. /\ DOMAIN s.ops = 1..Len(s.ops) /\ Len(s.ops) \in Nat
      /\ DOMAIN t.ops = 1..(Len(s.ops) + 1)
      /\ \A i \in DOMAIN s.ops : t.ops[i] = s.ops[i]
      /\ t.ops[Len(s.ops) + 1] = o
  <2>1. t.ops = Append(s.ops, o)
    BY <1>1
  <2>2. \A e : /\ DOMAIN Append(s.ops, e) = 1..(Len(s.ops) + 1)
               /\ \A i \in 1..Len(s.ops) : Append(s.ops, e)[i] = s.ops[i]
               /\ Append(s.ops, e)[Len(s.ops) + 1] = e
    BY <1>2 DEF Append
  <2> QED
    BY <1>2, <2>1, <2>2
<1>6. \A i \in DOMAIN t.ops : i \in DOMAIN s.ops \/ i = Len(s.ops) + 1
  BY <1>5
<1>7. Len(s.ops) + 1 \in DOMAIN t.ops /\ \A i \in DOMAIN s.ops : i \in DOMAIN t.ops
  BY <1>5
<1> QED
  BY <1>1, <1>5, <1>6, <1>7 DEF RecordedExactly

LEMMA TakenAttempts ==
    ASSUME NEW s, NEW t, NEW q, Taken(s, t, q), BudgetHolds(s)
    PROVE  /\ \A p \in Attempted(s) : p \in Attempted(t) /\ t.origin[p] = s.origin[p]
           /\ \A p \in Attempted(t) : p \in Attempted(s) \/ (q.kind = "reserve" /\ p = q.permit)
           /\ q.kind = "reserve" => /\ q.permit \in Attempted(t) /\ q.permit \notin Attempted(s)
                                    /\ t.origin[q.permit] = q
<1>1. s \in Snapshot /\ Balanced(s)
  BY DEF BudgetHolds
<1>2. /\ \A p \in Permit : q.kind = "initialize" \/ p # q.permit =>
           t.permit[p] = s.permit[p] /\ t.settled[p] = s.settled[p]
      /\ q.kind # "initialize" => q.permit \in Permit /\ Moved(s, t, q, q.permit)
      /\ t.origin = IF q.kind = "reserve" THEN [s.origin EXCEPT ![q.permit] = q] ELSE s.origin
      /\ Balanced(t)
  <2>1. MovesTo(s, t, q)
    BY <1>1, TakenMoves
  <2> QED
    BY <2>1 DEF MovesTo
<1>3. s.origin \in [Permit -> Request \cup {Null}]
  BY <1>1 DEF Snapshot
<1>4. /\ \A p : p \in Attempted(s) <=> p \in Permit /\ (s.permit[p] # "none" \/ s.settled[p] # "none")
      /\ \A p : p \in Attempted(t) <=> p \in Permit /\ (t.permit[p] # "none" \/ t.settled[p] # "none")
  BY <1>1, <1>2 DEF Balanced, Active, Settled
<1>5. q.kind # "initialize" =>
        /\ q.permit \in Attempted(t)
        /\ IF q.kind = "reserve" THEN q.permit \notin Attempted(s) ELSE q.permit \in Attempted(s)
  BY <1>2, <1>4 DEF Moved, Closed
<1>6. \A p \in Permit : q.kind = "initialize" \/ p # q.permit =>
        (p \in Attempted(t) <=> p \in Attempted(s))
  BY <1>2, <1>4
<1> QED
  BY <1>2, <1>3, <1>4, <1>5, <1>6

LEMMA TakenGrows ==
    ASSUME NEW s, NEW t, NEW q, Taken(s, t, q), BudgetHolds(s)
    PROVE  Grows(s, t)
<1>1. s \in Snapshot /\ Balanced(s)
  BY DEF BudgetHolds
<1>2. /\ \A p \in Permit : q.kind = "initialize" \/ p # q.permit =>
           t.permit[p] = s.permit[p] /\ t.settled[p] = s.settled[p]
      /\ q.kind # "initialize" => q.permit \in Permit /\ Moved(s, t, q, q.permit)
  <2>1. MovesTo(s, t, q)
    BY <1>1, TakenMoves
  <2> QED
    BY <2>1 DEF MovesTo
<1>3. \A r : Reserves(s, r) => Reserves(t, r)
  BY TakenAttempts DEF Reserves
<1>4. \A p \in Permit : s.settled[p] # "none" => s.permit[p] = "none"
  BY <1>1 DEF Balanced, Active, Settled
<1>5. ASSUME NEW p \in Permit
      PROVE  /\ Begun(s, p) => Begun(t, p)
             /\ s.settled[p] # "none" => t.settled[p] = s.settled[p]
  <2>1. CASE q.kind = "initialize" \/ p # q.permit
    BY <1>2, <2>1 DEF Begun, Closed
  <2>2. CASE q.kind # "initialize" /\ p = q.permit
    BY <1>2, <1>4, <2>2 DEF Begun, Closed, Moved
  <2> QED
    BY <2>1, <2>2
<1> QED
  BY <1>1, <1>3, <1>5, RecordsGrow DEF Grows

\* A second transaction is not admitted on a number that is reserved.
LEMMA NumbersAreOwn ==
    ASSUME NEW s, NEW r \in PointerId, NEW n, OriginsHold(s), AdmitLineage(s, ReservePermit(r, n).lineage)
    PROVE  \A p \in Attempted(s) : s.origin[p].lineage.ordinal # r.num - 1
<1> DEFINE new == ReservePermit(r, n).lineage
           prior == {s.origin[p].lineage : p \in Attempted(s)}
<1>1. new = [attempt |-> <<r.txn, r.num>>, parent |-> Null, root |-> <<r.txn, r.num>>,
             ordinal |-> r.num - 1]
  BY DEF ReservePermit
<1>2. \A l \in prior : l.attempt = l.root
  <2>1. ASSUME NEW x \in PointerId, NEW m
        PROVE  ReservePermit(x, m).lineage.attempt = ReservePermit(x, m).lineage.root
    BY DEF ReservePermit
  <2>2. \A p \in Attempted(s) : s.origin[p].lineage.attempt = s.origin[p].lineage.root
    BY <2>1 DEF OriginsHold
  <2> QED
    BY <2>2
<1>3. /\ \A l \in prior : l.attempt # new.attempt
      /\ \/ \A l \in prior : l.ordinal # new.ordinal
         \/ \E l \in prior : l.root = new.root
  BY DEF AdmitLineage
<1>4. \A l \in prior : l.ordinal # new.ordinal
  BY <1>1, <1>2, <1>3
<1> QED
  BY <1>1, <1>4

LEMMA TakenOrigins ==
    ASSUME NEW s, NEW t, NEW q, Taken(s, t, q), BudgetHolds(s)
    PROVE  OriginsHold(t)
<1>1. OriginsHold(s) /\ s \in Snapshot /\ Balanced(s)
  BY DEF BudgetHolds
<1>2. CASE q.kind # "reserve"
  BY <1>1, <1>2, TakenAttempts DEF OriginsHold
<1>3. CASE q.kind = "reserve"
  <2>1. PICK r \in PointerId, n \in 0..Asked : q = ReservePermit(r, n) /\ r.txn = q.permit
    BY <1>3, IssuedShape DEF Taken
  <2>2. \A p \in Attempted(s) : s.origin[p].lineage.ordinal # r.num - 1
    <3>1. MovesTo(s, t, q)
      BY <1>1, TakenMoves
    <3>2. AdmitLineage(s, ReservePermit(r, n).lineage)
      BY <1>3, <2>1, <3>1 DEF MovesTo
    <3> QED
      BY <1>1, <3>2, NumbersAreOwn
  <2>3. q.lineage.ordinal = r.num - 1
    BY <2>1 DEF ReservePermit
  <2>4. /\ \A p \in Attempted(s) : t.origin[p] = s.origin[p]
        /\ \A p \in Attempted(t) : p \in Attempted(s) \/ p = q.permit
        /\ t.origin[q.permit] = q
    BY <1>3, TakenAttempts
  <2>5. \A p \in Attempted(t) :
          \E x \in PointerId, m \in 0..Asked : x.txn = p /\ t.origin[p] = ReservePermit(x, m)
    BY <1>1, <2>1, <2>4 DEF OriginsHold
  <2>6. \A p, x \in Attempted(t) :
          t.origin[p].lineage.ordinal = t.origin[x].lineage.ordinal => p = x
    BY <1>1, <2>2, <2>3, <2>4, SMTT(60) DEF OriginsHold
  <2> QED
    BY <2>5, <2>6 DEF OriginsHold
<1> QED
  BY <1>2, <1>3

LEMMA TakenHolds ==
    ASSUME NEW s, NEW t, NEW q, Taken(s, t, q), BudgetHolds(s)
    PROVE  BudgetHolds(t) /\ Grows(s, t) /\ RecordedExactly(t, q)
<1>1. s \in Snapshot /\ Balanced(s)
  BY DEF BudgetHolds
<1>2. Grows(s, t)
  BY TakenGrows
<1>3. /\ t \in Snapshot /\ Balanced(t)
      /\ \A p \in Permit : q.kind = "initialize" \/ p # q.permit =>
           t.permit[p] = s.permit[p] /\ t.settled[p] = s.settled[p]
      /\ q.kind # "initialize" => q.permit \in Permit /\ Moved(s, t, q, q.permit)
      /\ t.policy = IF q.kind = "initialize" THEN RunPolicy ELSE s.policy
      /\ q.kind = "initialize" => s.ops = <<>>
  <2>1. MovesTo(s, t, q)
    BY <1>1, TakenMoves
  <2> QED
    BY <2>1 DEF MovesTo
<1>4. /\ q \in Request
      /\ q.kind \in {"initialize", "reserve", "start", "settle", "release"}
  BY IssuedShape DEF Taken
<1>5. t.ops # <<>> => t.policy = RunPolicy
  BY <1>3 DEF BudgetHolds, Taken
<1>6. SettlementsHold(t)
  <2>1. SUFFICES ASSUME NEW p \in Permit, Closed(t, p)
                 PROVE  \E r \in PointerId :
                           r.txn = p /\ Reserves(t, r) /\ RecordedExactly(t, SettlePermit(r))
    BY DEF SettlementsHold
  <2>2. CASE Closed(s, p)
    BY <1>2, <2>2 DEF BudgetHolds, SettlementsHold, Grows
  <2>3. CASE ~Closed(s, p)
    <3>1. q.kind = "settle" /\ p = q.permit
      BY <1>3, <1>4, <2>1, <2>3 DEF Moved, Closed
    <3>2. PICK r \in PointerId : q = SettlePermit(r) /\ Reserves(s, r) /\ r.txn = q.permit
      BY <3>1, IssuedShape DEF Taken
    <3> QED
      BY <1>1, <1>2, <3>1, <3>2, RecordsGrow DEF Grows
  <2> QED
    BY <2>2, <2>3
<1>7. OperationHolds(t, q)
  <2>1. q.kind = "reserve" => q.permit \in Attempted(t) /\ t.origin[q.permit] = q
    BY TakenAttempts
  <2>2. q.kind = "start" => Begun(t, q.permit)
    BY <1>3 DEF Moved, Begun
  <2> QED
    BY <2>1, <2>2 DEF OperationHolds
<1>8. \A i \in DOMAIN s.ops : OperationHolds(t, s.ops[i].req)
  <2>1. SUFFICES ASSUME NEW i \in DOMAIN s.ops
                 PROVE  OperationHolds(t, s.ops[i].req)
    OBVIOUS
  <2> DEFINE x == s.ops[i].req
  <2>2. OperationHolds(s, x)
    BY DEF BudgetHolds
  <2>3. x \in Request
    <3>1. s.ops \in Seq([req : Request, runtime : Nat])
      BY <1>1 DEF Snapshot, Operations
    <3>2. ASSUME NEW S, NEW f \in Seq(S), NEW j \in DOMAIN f
          PROVE  f[j] \in S
      OBVIOUS
    <3>3. s.ops[i] \in [req : Request, runtime : Nat]
      BY <3>1, <3>2
    <3> QED
      BY <3>3
  <2> HIDE DEF x
  <2>4. x.kind = "reserve" => x.permit \in Attempted(t) /\ t.origin[x.permit] = x
    BY <2>2, TakenAttempts DEF OperationHolds
  <2>5. x.kind = "start" => Begun(t, x.permit)
    BY <1>2, <2>2, <2>3, RequestAssumption DEF OperationHolds, Grows
  <2> QED
    BY <2>4, <2>5 DEF OperationHolds, x
<1>9. \A i \in DOMAIN t.ops : OperationHolds(t, t.ops[i].req)
  BY <1>1, <1>7, <1>8, RecordsGrow
<1>10. OriginsHold(t) /\ RecordedExactly(t, q)
  BY <1>1, TakenOrigins, RecordsGrow
<1> QED
  BY <1>2, <1>3, <1>5, <1>6, <1>9, <1>10 DEF BudgetHolds

-----------------------------------------------------------------------------
(* The walk from current.json.                                             *)

LEMMA RevisionFields ==
    ASSUME NEW r \in Revision
    PROVE  /\ r # Null /\ r.txn \in Permit /\ r.body \in Body /\ r.num \in 1..MaxRevision
           /\ r.num \in Nat /\ r.base \in PointerId \cup {Null}
           /\ IdOf(r) \in PointerId /\ IdOf(r) # Null
           /\ IdOf(r).txn = r.txn /\ IdOf(r).body = r.body /\ IdOf(r).num = r.num
<1>1. /\ r # Null /\ r.txn \in Permit /\ r.body \in Body /\ r.num \in 1..MaxRevision
      /\ r.base \in PointerId \cup {Null}
  BY RecordAssumption DEF Revision, Number
<1>2. MaxRevision \in Nat
  BY TerminalAssumption
<1>3. IdOf(r) = [txn |-> r.txn, body |-> r.body, num |-> r.num]
  BY <1>1 DEF IdOf
<1>4. IdOf(r) \in PointerId
  BY <1>1, <1>3 DEF PointerId, Number
<1> QED
  BY <1>1, <1>2, <1>3, <1>4, RecordAssumption

FileTypes == current \in Revision \cup {Null} /\ revs \subseteq Revision

\* The published revisions, by number.
Chain == [n \in 1..current.num |-> CHOOSE r \in revs : r.num = n]

LEMMA ChainIsWalked ==
    ASSUME FileTypes, FilesHold, current # Null
    PROVE  /\ Chain \in Walk
           /\ \A n \in 1..current.num : Chain[n] \in revs /\ Chain[n].num = n
<1>1. current \in Revision /\ current \in revs /\ current.num \in Nat
  BY RevisionFields DEF FileTypes, FilesHold
<1>2. \A n \in 1..current.num : Chain[n] \in revs /\ Chain[n].num = n
  BY DEF Chain, FilesHold
<1>3. current.num \in 1..current.num
  BY <1>1, RevisionFields
<1>4. Chain[current.num] = current
  BY <1>1, <1>2, <1>3 DEF FilesHold
<1>5. Chain \in [1..current.num -> revs]
  BY <1>2 DEF Chain
<1>6. ASSUME NEW n \in 1..(current.num - 1)
      PROVE  {r \in revs : r.num = n} = {Chain[n]} /\ Chain[n + 1].base = IdOf(Chain[n])
  <2>1. n \in 1..current.num /\ n + 1 \in 1..current.num /\ n \in Nat /\ n + 1 # 1
    BY <1>1
  <2>2. {r \in revs : r.num = n} = {Chain[n]}
    BY <1>2, <2>1 DEF FilesHold
  <2>3. Based(Chain[n + 1]) /\ Chain[n + 1].num = n + 1
    BY <1>2, <2>1 DEF FilesHold
  <2>4. PICK b \in revs : b.num = Chain[n + 1].num - 1 /\ Chain[n + 1].base = IdOf(b)
    BY <2>1, <2>3 DEF Based
  <2>5. b.num = n
    BY <2>1, <2>3, <2>4
  <2>6. b = Chain[n]
    BY <2>2, <2>5
  <2> QED
    BY <2>2, <2>4, <2>6
<1>7. Chain \in {c \in [1..current.num -> revs] :
                  /\ c[current.num] = current
                  /\ \A n \in 1..(current.num - 1) :
                       {r \in revs : r.num = n} = {c[n]} /\ c[n + 1].base = IdOf(c[n])}
  BY <1>4, <1>5, <1>6, Zenon
<1> QED
  BY <1>2, <1>7, Zenon DEF Walk

LEMMA WalkIsChain ==
    ASSUME FileTypes, FilesHold, current # Null
    PROVE  /\ Walk # {}
           /\ Reachable = {r \in revs : r.num <= current.num}
<1>1. /\ Chain \in Walk
      /\ \A n \in 1..current.num : Chain[n] \in revs /\ Chain[n].num = n
  BY ChainIsWalked
<1>2. current \in Revision /\ current \in revs /\ current.num \in Nat
  BY RevisionFields DEF FileTypes, FilesHold
<1>3. \A r \in revs : r.num \in Nat /\ r.num >= 1
  BY RevisionFields, TerminalAssumption DEF FileTypes
<1>4. ASSUME NEW d \in Walk, NEW n \in 1..current.num
      PROVE  d[n] \in revs /\ d[n].num <= current.num
  <2>1. /\ d \in [1..current.num -> revs] /\ d[current.num] = current
        /\ \A k \in 1..(current.num - 1) : {r \in revs : r.num = k} = {d[k]}
    BY DEF Walk
  <2>2. CASE n = current.num
    BY <1>2, <2>1, <2>2
  <2>3. CASE n # current.num
    <3>1. n \in 1..(current.num - 1)
      BY <1>2, <2>3
    <3>2. d[n] \in {r \in revs : r.num = n}
      BY <2>1, <3>1
    <3> QED
      BY <3>1, <3>2, <1>2
  <2> QED
    BY <2>2, <2>3
<1>5. ASSUME NEW r \in revs, r.num <= current.num
      PROVE  r.num \in 1..current.num /\ Chain[r.num] = r
  BY <1>1, <1>2, <1>3, <1>5 DEF FilesHold
<1>6. \A r : r \in Reachable <=> \E d \in Walk, n \in 1..current.num : r = d[n]
  BY DEF Reachable
<1> QED
  BY <1>1, <1>4, <1>5, <1>6

-----------------------------------------------------------------------------
(* One call of a budget operation.                                         *)

LEMMA RequestsOf ==
    ASSUME NEW r \in Revision
    PROVE  /\ \A n : ReservePermit(r, n) = ReservePermit(IdOf(r), n)
           /\ StartPermit(r) = StartPermit(IdOf(r))
           /\ SettlePermit(r) = SettlePermit(IdOf(r))
           /\ \A e : ReleasePermit(r, e) = ReleasePermit(IdOf(r), e)
           /\ \A s : Reserves(s, r) <=> Reserves(s, IdOf(r))
<1> DEFINE i == IdOf(r)
<1>1. /\ i.txn = r.txn /\ i.body = r.body /\ i.num = r.num /\ i # Null /\ r # Null
      /\ i = [txn |-> r.txn, body |-> r.body, num |-> r.num]
  BY RevisionFields DEF IdOf
<1>2. IdOf(i) = i
  BY <1>1 DEF IdOf
<1> HIDE DEF i
<1>3. IdOf(r) = i
  BY DEF i
<1>4. /\ \A n : ReservePermit(r, n) = ReservePermit(i, n)
      /\ StartPermit(r) = StartPermit(i)
      /\ \A e : ReleasePermit(r, e) = ReleasePermit(i, e)
  BY <1>1 DEF ReservePermit, StartPermit, ReleasePermit
<1>5. SettlePermit(r) = SettlePermit(i)
  BY <1>1, <1>2, <1>3 DEF SettlePermit
<1>6. \A s : Reserves(s, r) <=> Reserves(s, i)
  BY <1>1 DEF Reserves
<1> QED
  BY <1>3, <1>4, <1>5, <1>6

LEMMA IssuedBy ==
    ASSUME NEW s, NEW r \in Revision
    PROVE  /\ Issued(s, InitializeBudget(r.txn))
           /\ \A n \in 0..Asked : Issued(s, ReservePermit(r, n))
           /\ Issued(s, StartPermit(r))
           /\ Reserves(s, r) => Issued(s, SettlePermit(r))
           /\ \A e \in FsEffect : Issued(s, ReleasePermit(r, e))
<1>1. r.txn \in Permit /\ IdOf(r) \in PointerId
  BY RevisionFields
<1>2. Issued(s, InitializeBudget(r.txn))
  BY <1>1 DEF Issued
<1>3. \A n \in 0..Asked : Issued(s, ReservePermit(r, n))
  BY <1>1, RequestsOf DEF Issued
<1>4. Issued(s, StartPermit(r))
  BY <1>1, RequestsOf DEF Issued
<1>5. Reserves(s, r) => Issued(s, SettlePermit(r))
  BY <1>1, RequestsOf DEF Issued
<1>6. \A e \in FsEffect : Issued(s, ReleasePermit(r, e))
  BY <1>1, RequestsOf DEF Issued
<1> QED
  BY <1>2, <1>3, <1>4, <1>5, <1>6

LEMMA FaultKeeps ==
    ASSUME env \in Surroundings
    PROVE  /\ Fault => env' \in Surroundings
           /\ UNCHANGED env => env' \in Surroundings
  BY DEF Fault, Surroundings

LEMMA BudgetCall ==
    ASSUME BudgetHolds(budget), env \in Surroundings, NEW q, NEW el \in Nat, Issued(budget, q),
           q.kind = "initialize" \/ budget.ops # <<>>, Applies(q, el) \/ Refuses(q, el)
    PROVE  /\ BudgetHolds(budget') /\ Grows(budget, budget') /\ env' \in Surroundings
           /\ Applies(q, el) => RecordedExactly(budget', q)
<1>1. \/ budget' = budget /\ (Applies(q, el) => RecordedExactly(budget, q))
      \/ Taken(budget, budget', q)
  <2>1. Accepts(q, el) /\ budget' = Apply(budget, q, el) => Taken(budget, budget', q)
    BY DEF Accepts, Taken
  <2>2. CASE Applies(q, el)
    BY <2>1, <2>2 DEF Applies
  <2>3. CASE ~Applies(q, el)
    BY <2>1, <2>3 DEF Refuses
  <2> QED
    BY <2>2, <2>3
<1>2. env' \in Surroundings
  BY FaultKeeps DEF Applies, Refuses
<1>3. CASE budget' = budget /\ (Applies(q, el) => RecordedExactly(budget, q))
  BY <1>2, <1>3 DEF Grows
<1>4. CASE Taken(budget, budget', q)
  BY <1>2, <1>4, TakenHolds
<1> QED
  BY <1>1, <1>3, <1>4

-----------------------------------------------------------------------------
(* What a step leaves of the parts that it does not touch.                 *)

Steps(w) == proc' \in [Writer -> Proc] /\ \A v \in Writer \ {w} : proc'[v] = proc[v]

Reports == [code : Code, fs : FsEffect, domain : DomainEffect]

LEMMA FilesKept ==
    ASSUME TypeOK, FilesHold, UNCHANGED disk, Grows(budget, budget')
    PROVE  FilesHold'
<1>1. UNCHANGED <<current, revs>>
  BY DEF disk
<1>2. \A r \in revs : Started(budget, r) => Started(budget', r)
  <2>1. \A r \in revs : r.txn \in Permit
    BY RevisionFields DEF TypeOK
  <2> QED
    BY <2>1 DEF Started, Grows
<1>3. \A r \in revs : Based(r) => Based(r)'
  BY <1>1 DEF Based
<1> QED
  BY <1>1, <1>2, <1>3 DEF FilesHold

LEMMA SettledStays ==
    ASSUME Grows(budget, budget'), NEW r, r.txn \in Permit, SettledFor(r)
    PROVE  SettledFor(r)'
<1>1. /\ RecordedExactly(budget', SettlePermit(r))
      /\ budget'.settled[r.txn] = budget.settled[r.txn]
  BY DEF SettledFor, Grows
<1> QED
  BY <1>1 DEF SettledFor

LEMMA AcksKept ==
    ASSUME TypeOK, AcksHold, UNCHANGED disk, acked' = acked, Grows(budget, budget')
    PROVE  AcksHold'
<1>1. \A r \in acked : r.txn \in Permit
  BY RevisionFields DEF TypeOK
<1>2. \A r \in acked : SettledFor(r) => SettledFor(r)'
  BY <1>1, SettledStays
<1> QED
  BY <1>2 DEF AcksHold, disk

\* The files only grow, and a process that holds the authority sees no other
\* one move the pointer.
FilesGrow(w) ==
    /\ revs \subseteq revs'
    /\ \A r \in Revision : Based(r) => Based(r)'
    /\ \A v \in Writer \ {w} : lock = v => lock' = v /\ current' = current

LEMMA OtherKeeps ==
    ASSUME TypeOK, NEW w \in Writer, Steps(w), FilesGrow(w), Grows(budget, budget'),
           NEW v \in Writer \ {w}, ProcInv(v)
    PROVE  ProcInv(v)'
<1>1. proc'[v] = proc[v] /\ proc[v].rev \in Revision \cup {Null}
  BY DEF Steps, TypeOK, Proc
<1>2. proc[v].rev # Null => proc[v].rev.txn \in Permit /\ (Based(proc[v].rev) => Based(proc[v].rev)')
  BY <1>1, RevisionFields DEF FilesGrow
<1>3. PlaceInv(v)'
  <2>1. PlaceInv(v)
    BY DEF ProcInv
  <2>2. lock = v => lock' = v /\ current' = current
    BY DEF FilesGrow
  <2>3. proc[v].rev # Null => Based(proc[v].rev)'
    <3>1. ASSUME NEW r \in Revision, r = proc[v].rev, Based(r)
          PROVE  Based(proc[v].rev)'
      <4>1. Based(r)' /\ r = proc'[v].rev
        BY <1>1, <3>1 DEF FilesGrow
      <4> QED
        BY <4>1 DEF Based
    <3> QED
      BY <1>1, <2>1, <3>1 DEF PlaceInv
  <2>4. /\ proc[v].rev # Null /\ proc[v].pc # "create" => budget'.ops # <<>>
        /\ proc[v].pc \in PastReserve => Reserves(budget', proc[v].rev)
    BY <2>1 DEF PlaceInv, Grows
  <2>5. proc[v].pc \in PastReserve \ {"start"} => Begun(budget', proc[v].rev.txn)
    <3>1. proc[v].pc \in PastReserve => proc[v].rev # Null
      BY <2>1 DEF PlaceInv, PastReserve
    <3> QED
      BY <1>2, <2>1, <3>1 DEF PlaceInv, Grows
  <2>6. /\ proc[v].pc \in Critical => lock' = v
        /\ proc[v].pc = "release" /\ proc[v].report.code # "run_locked" => lock' = v
    BY <2>1, <2>2 DEF PlaceInv
  <2>7. /\ proc[v].pc = "replace" => proc[v].rev \in revs' /\ IdOf(current') = proc[v].rev.base
        /\ proc[v].pc \in {"settle", "confirm"} => current' = proc[v].rev
    BY <2>1, <2>2 DEF PlaceInv, FilesGrow, Critical
  <2>8. proc[v].pc # "idle" => proc[v].rev # Null
    BY <2>1 DEF PlaceInv
  <2> QED
    BY <1>1, <2>3, <2>4, <2>5, <2>6, <2>7, <2>8 DEF PlaceInv
<1> QED
  BY <1>1, <1>3 DEF ProcInv

\* A step that leaves the files and the authority alone.
LEMMA CallStep ==
    ASSUME StoreInv, NEW w \in Writer, Steps(w), UNCHANGED <<disk, lock>>,
           BudgetHolds(budget'), Grows(budget, budget'), env' \in Surroundings,
           acked' = acked \/ (AcksHold' /\ acked' \subseteq Revision), ProcInv(w)'
    PROVE  StoreInv'
<1>1. FilesGrow(w)
  BY DEF FilesGrow, disk, Based
<1>2. \A v \in Writer : ProcInv(v)'
  BY <1>1, OtherKeeps DEF StoreInv
<1>3. FilesHold' /\ AcksHold' /\ BudgetHolds(budget)'
  <2>1. BudgetHolds(budget)'
    BY DEF BudgetHolds
  <2> QED
    BY <2>1, FilesKept, AcksKept DEF StoreInv
<1>4. TypeOK'
  <2>1. budget' \in Snapshot
    BY DEF BudgetHolds
  <2> QED
    BY <2>1 DEF TypeOK, StoreInv, Steps, disk
<1> QED
  BY <1>2, <1>3, <1>4 DEF StoreInv

-----------------------------------------------------------------------------
(* The process of a step.                                                  *)

\* The part of a call that its answers do not change.
SameCall(p, q) ==
    q.rev = p.rev /\ q.runtime = p.runtime /\ q.renamed = p.renamed
    /\ q.replaced = p.replaced /\ q.did = p.did

LEMMA ProcFields ==
    ASSUME TypeOK, NEW w \in Writer
    PROVE  /\ proc[w] \in Proc /\ proc[w].rev \in Revision \cup {Null} /\ proc[w].pc \in Step
           /\ proc[w].report \in Reports /\ proc[w].runtime \in Nat
           /\ proc[w].renamed \in BOOLEAN /\ proc[w].replaced \in BOOLEAN
  BY DEF TypeOK, Proc, Reports

LEMMA RecordStep ==
    ASSUME TypeOK, NEW w \in Writer, NEW p \in Proc, proc' = [proc EXCEPT ![w] = p]
    PROVE  Steps(w) /\ proc'[w] = p
  BY DEF TypeOK, Steps

LEMMA GotoFields ==
    ASSUME TypeOK, NEW w \in Writer, NEW x \in Step, Goto(w, x)
    PROVE  /\ Steps(w) /\ proc'[w].pc = x /\ SameCall(proc[w], proc'[w])
           /\ proc'[w].report = proc[w].report
<1> DEFINE p == [proc[w] EXCEPT !.pc = x]
<1>1. p \in Proc /\ p.pc = x /\ SameCall(proc[w], p) /\ p.report = proc[w].report
  BY ProcFields DEF Proc, SameCall
<1>2. proc' = [proc EXCEPT ![w] = p]
  BY DEF Goto
<1> HIDE DEF p
<1> QED
  BY <1>1, <1>2, RecordStep

\* A step that moves the process and sets its report.
LEMMA AnswerFields ==
    ASSUME TypeOK, NEW w \in Writer, NEW x \in Step, NEW report \in Reports,
           proc' = [proc EXCEPT ![w].pc = x, ![w].report = report]
    PROVE  /\ Steps(w) /\ proc'[w].pc = x /\ SameCall(proc[w], proc'[w])
           /\ proc'[w].report = report
<1> DEFINE p == [proc[w] EXCEPT !.pc = x, !.report = report]
<1>1. p \in Proc /\ p.pc = x /\ SameCall(proc[w], p) /\ p.report = report
  BY ProcFields, ZenonT(60) DEF Proc, SameCall, Reports
<1>2. proc' = [proc EXCEPT ![w] = p]
  BY DEF TypeOK
<1> HIDE DEF p
<1> QED
  BY <1>1, <1>2, RecordStep

LEMMA FlagsOf ==
    ASSUME NEW p, NEW q, SameCall(p, q), FlagsHold(p),
           \/ q.pc \in {"idle", "release", "unlock"}
           \/ /\ p.pc \in {"create", "freeze", "reserve", "start", "lock", "admit", "guard"}
              /\ q.pc \in {"create", "freeze", "reserve", "start", "lock", "admit", "guard", "stage"}
           \/ p.pc = "verify" /\ q.pc = "replace"
           \/ p.pc = "settle" /\ q.pc = "confirm"
    PROVE  FlagsHold(q)
  BY DEF FlagsHold, SameCall

\* A process keeps its place while the budget grows around it.
LEMMA PlaceOf ==
    ASSUME TypeOK, NEW w \in Writer, PlaceInv(w), Steps(w), proc'[w].rev = proc[w].rev,
           UNCHANGED <<disk, lock>>, Grows(budget, budget'),
           proc'[w].pc \in PastReserve => proc[w].pc \in PastReserve \/ Reserves(budget', proc[w].rev),
           proc'[w].pc \in PastReserve \ {"start"} =>
              proc[w].pc \in PastReserve \ {"start"} \/ Begun(budget', proc[w].rev.txn),
           proc'[w].pc # "idle" => proc[w].rev # Null,
           proc[w].pc = "create" /\ proc'[w].pc # "create" => budget'.ops # <<>>,
           proc'[w].pc \in Critical => lock = w,
           proc'[w].pc = "release" /\ proc'[w].report.code # "run_locked" => lock = w,
           proc'[w].pc = "replace" => proc[w].rev \in revs /\ IdOf(current) = proc[w].rev.base,
           proc'[w].pc \in {"settle", "confirm"} => current = proc[w].rev
    PROVE  PlaceInv(w)'
<1>1. proc[w].rev # Null => proc[w].rev.txn \in Permit
  BY ProcFields, RevisionFields
<1>2. proc[w].rev # Null => Based(proc[w].rev)'
  BY DEF PlaceInv, Based, disk
<1>3. proc[w].pc \in PastReserve => proc[w].rev # Null
  BY DEF PlaceInv, PastReserve
<1>4. proc[w].rev # Null /\ proc'[w].pc # "create" => budget'.ops # <<>>
  BY DEF PlaceInv, Grows
<1>5. proc'[w].pc \in PastReserve => Reserves(budget', proc[w].rev)
  BY DEF PlaceInv, Grows
<1>6. proc'[w].pc \in PastReserve \ {"start"} => Begun(budget', proc[w].rev.txn)
  BY <1>1, <1>3 DEF PlaceInv, Grows
<1>7. proc'[w].pc = "replace" => proc[w].rev \in revs' /\ IdOf(current') = proc[w].rev.base
  BY DEF disk
<1>8. proc'[w].pc \in {"settle", "confirm"} => current' = proc[w].rev
  BY DEF disk
<1> QED
  BY <1>2, <1>4, <1>5, <1>6, <1>7, <1>8 DEF PlaceInv

LEMMA FailStep ==
    ASSUME StoreInv, NEW w \in Writer, NEW report \in Reports, Fails(w, report),
           UNCHANGED <<disk, lock, acked>>, BudgetHolds(budget'), Grows(budget, budget'),
           env' \in Surroundings, proc[w].pc \in PastReserve \ {"start"},
           Says(report, proc[w].did),
           lock = w \/ (report.code = "run_locked" /\ proc[w].did = "nothing")
    PROVE  StoreInv'
<1> DEFINE x == IF proc[w].replaced THEN "unlock" ELSE "release"
<1>1. TypeOK /\ PlaceInv(w) /\ FlagsHold(proc[w])
  BY DEF StoreInv, ProcInv
<1>2. x \in Step /\ x \in {"unlock", "release"} /\ (proc[w].did = "nothing" => x = "release")
  BY <1>1, ProcFields DEF Step, FlagsHold
<1>3. proc' = [proc EXCEPT ![w].pc = x, ![w].report = report]
  BY DEF Fails
<1> HIDE DEF x
<1>4. /\ Steps(w) /\ proc'[w].pc = x /\ SameCall(proc[w], proc'[w])
      /\ proc'[w].report = report
  BY <1>1, <1>2, <1>3, AnswerFields
<1>5. FlagsHold(proc'[w])
  BY <1>1, <1>2, <1>4, FlagsOf
<1>6. ReportHolds(proc'[w])
  BY <1>4 DEF ReportHolds, SameCall
<1>7. PlaceInv(w)'
  <2>1. proc[w].rev # Null
    BY <1>1 DEF PlaceInv, PastReserve
  <2> QED
    BY <1>1, <1>2, <1>4, <2>1, PlaceOf DEF PastReserve, Critical, SameCall
<1>8. ProcInv(w)'
  BY <1>5, <1>6, <1>7 DEF ProcInv
<1> QED
  BY <1>4, <1>8, CallStep

\* Reports of the handlers.
LEMMA ReportTypes ==
    ASSUME NEW code \in Code, NEW fs \in FsEffect, NEW domain \in DomainEffect
    PROVE  /\ Report(code, fs, domain) \in Reports
           /\ Report(code, fs, domain).code = code
           /\ Report(code, fs, domain).fs = fs
           /\ Report(code, fs, domain).domain = domain
  BY DEF Report, Reports

LEMMA BreaksTells ==
    ASSUME TypeOK, NEW w \in Writer, FlagsHold(proc[w]), Breaks(w),
           proc[w].pc \in {"guard", "stage", "rename", "verify", "replace", "settle"}
    PROVE  \E report \in Reports : Fails(w, report) /\ Says(report, proc[w].did)
<1> DEFINE a == Report("budget_settlement_failed", "current_advanced", "current_advanced")
           b == Report("durability_unconfirmed", "unreferenced_revision", "current_unchanged")
           c == Report("effect_unknown", "staging_orphan", "current_unchanged")
<1>1. /\ a \in Reports /\ b \in Reports /\ c \in Reports
      /\ a.code = "budget_settlement_failed" /\ a.fs = "current_advanced" /\ a.domain = "current_advanced"
      /\ b.code = "durability_unconfirmed" /\ b.fs = "unreferenced_revision" /\ b.domain = "current_unchanged"
      /\ c.code = "effect_unknown" /\ c.fs = "staging_orphan" /\ c.domain = "current_unchanged"
  BY ReportTypes DEF Code, FsEffect, DomainEffect
<1>2. /\ proc[w].replaced => Fails(w, a)
      /\ ~proc[w].replaced /\ proc[w].renamed => Fails(w, b)
      /\ ~proc[w].replaced /\ ~proc[w].renamed => Fails(w, c)
  BY ProcFields DEF Breaks
<1> HIDE DEF a, b, c
<1>3. Says(a, proc[w].did)
  BY <1>1 DEF Says
<1>4. ~proc[w].replaced /\ proc[w].renamed => Says(b, proc[w].did)
  BY <1>1 DEF Says, FlagsHold
<1>5. ~proc[w].replaced /\ ~proc[w].renamed => Says(c, proc[w].did)
  BY <1>1 DEF Says, FlagsHold
<1> QED
  BY <1>1, <1>2, <1>3, <1>4, <1>5

-----------------------------------------------------------------------------
(* The caller's steps.                                                     *)

LEMMA GrowsRefl == Grows(budget, budget)
  BY DEF Grows

\* A step that changes neither root.
LEMMA QuietStep ==
    ASSUME StoreInv, NEW w \in Writer, Steps(w), UNCHANGED <<disk, lock, budget>>,
           env' \in Surroundings, acked' = acked \/ (AcksHold' /\ acked' \subseteq Revision),
           ProcInv(w)'
    PROVE  StoreInv'
<1>1. BudgetHolds(budget') /\ Grows(budget, budget')
  BY GrowsRefl DEF StoreInv
<1> QED
  BY <1>1, CallStep

LEMMA IdleFields ==
    /\ Idle \in Proc /\ Idle.pc = "idle" /\ Idle.rev = Null /\ Idle.runtime = 0
    /\ Idle.renamed = FALSE /\ Idle.replaced = FALSE
    /\ Idle.did = "nothing" /\ Idle.report = NoReport
<1>1. NoReport \in [code : Code, fs : FsEffect, domain : DomainEffect]
  BY ReportTypes DEF NoReport, Reports, Code, FsEffect, DomainEffect
<1>2. "idle" \in Step /\ "nothing" \in {"nothing", "staged", "renamed", "advanced", "late"}
  BY DEF Step
<1> QED
  BY <1>1, <1>2 DEF Idle, Proc

\* The process of a call that has done nothing yet.
NewCall(p, r, x) ==
    /\ p \in Proc /\ p.pc = x /\ p.rev = r /\ p.renamed = FALSE
    /\ p.replaced = FALSE /\ p.did = "nothing" /\ p.report = NoReport

LEMMA FreshFields ==
    ASSUME NEW r \in Revision, NEW x \in Step, NEW n \in Nat
    PROVE  /\ NewCall([Idle EXCEPT !.pc = x, !.rev = r], r, x)
           /\ NewCall([Idle EXCEPT !.pc = x, !.rev = r, !.runtime = n], r, x)
<1>1. NewCall([Idle EXCEPT !.pc = x, !.rev = r], r, x)
  BY IdleFields DEF Proc, NewCall
<1>2. NewCall([Idle EXCEPT !.pc = x, !.rev = r, !.runtime = n], r, x)
  BY IdleFields DEF Proc, NewCall
<1> QED
  BY <1>1, <1>2

LEMMA IdleHolds ==
    ASSUME NEW p, p.did = "nothing", p.renamed = FALSE, p.replaced = FALSE,
           p.report = NoReport, p.pc \in {"idle", "create", "freeze", "reserve"}
    PROVE  FlagsHold(p) /\ ReportHolds(p)
<1>1. FlagsHold(p)
  BY DEF FlagsHold
<1>2. ReportHolds(p)
  BY ReportTypes DEF ReportHolds, Says, NoReport, Code, FsEffect, DomainEffect
<1> QED
  BY <1>1, <1>2

LEMMA IdleStep ==
    ASSUME TypeOK, NEW w \in Writer, proc' = [proc EXCEPT ![w] = Idle]
    PROVE  Steps(w) /\ ProcInv(w)'
<1>1. Steps(w) /\ proc'[w] = Idle
  BY IdleFields, RecordStep
<1>2. FlagsHold(Idle) /\ ReportHolds(Idle)
  BY IdleHolds DEF Idle
<1>3. PlaceInv(w)'
  BY <1>1 DEF PlaceInv, Idle, PastReserve, Critical
<1> QED
  BY <1>1, <1>2, <1>3 DEF ProcInv

LEMMA ObserveStep ==
    ASSUME StoreInv, NEW w \in Writer, ObserveRun(w)
    PROVE  StoreInv'
<1>1. /\ TypeOK /\ FilesHold /\ current \in Revision \cup {Null}
      /\ current # Null => current.num < MaxRevision
      /\ UNCHANGED <<disk, lock, budget, acked, env>> /\ UNCHANGED <<current, revs>>
  BY DEF StoreInv, TypeOK, ObserveRun, disk
<1>2. IdOf(current) \in PointerId \cup {Null} /\ NextRevision \in 1..MaxRevision
  BY <1>1, RevisionFields, TerminalAssumption DEF IdOf, NextRevision
<1>3. PICK r \in Revision : /\ r.num = NextRevision /\ r.base = IdOf(current)
                            /\ proc' = [proc EXCEPT ![w] = [Idle EXCEPT !.pc = "create", !.rev = r]]
  <2>1. PICK t \in Permit, b \in Body :
          proc' = [proc EXCEPT ![w] = [Idle EXCEPT !.pc = "create",
                     !.rev = [txn |-> t, body |-> b, base |-> IdOf(current),
                              num |-> NextRevision]]]
    BY DEF ObserveRun
  <2> DEFINE x == [txn |-> t, body |-> b, base |-> IdOf(current), num |-> NextRevision]
  <2>2. x \in Revision /\ x.num = NextRevision /\ x.base = IdOf(current)
    BY <1>2 DEF Revision, Number
  <2> QED
    BY <2>1, <2>2
<1>4. Based(r)'
  <2>1. CASE current = Null
    BY <1>1, <1>3, <2>1 DEF Based, IdOf, NextRevision
  <2>2. CASE current # Null
    <3>1. current \in revs /\ current.num \in Nat /\ r.num = current.num + 1
      BY <1>1, <1>3, <2>2, RevisionFields DEF FilesHold, NextRevision
    <3>2. r.base = IdOf(current) /\ current.num = r.num - 1
      BY <1>3, <3>1
    <3>3. \E b \in revs : b.num = r.num - 1 /\ r.base = IdOf(b)
      BY <3>1, <3>2
    <3>4. Based(r)
      BY <2>2, <3>1, <3>3 DEF Based
    <3>5. current' = current /\ revs' = revs
      BY <1>1
    <3> QED
      BY <3>4, <3>5 DEF Based
  <2> QED
    BY <2>1, <2>2
<1> DEFINE p == [Idle EXCEPT !.pc = "create", !.rev = r]
<1>5. NewCall(p, r, "create")
  <2>1. "create" \in Step /\ 0 \in Nat
    BY DEF Step
  <2> QED
    BY <2>1, FreshFields
<1>6. proc' = [proc EXCEPT ![w] = p]
  BY <1>3
<1> HIDE DEF p
<1>7. Steps(w) /\ proc'[w] = p
  BY <1>1, <1>5, <1>6, RecordStep DEF NewCall
<1>8. FlagsHold(p) /\ ReportHolds(p)
  BY <1>5, IdleHolds DEF NewCall
<1>9. PlaceInv(w)'
  <2>1. r # Null /\ proc'[w].rev = r /\ proc'[w].pc = "create"
    BY <1>5, <1>7, RevisionFields DEF NewCall
  <2>2. Based(proc[w].rev)'
    BY <1>4, <2>1 DEF Based
  <2> QED
    BY <2>1, <2>2 DEF PlaceInv, PastReserve, Critical
<1>10. ProcInv(w)'
  BY <1>7, <1>8, <1>9 DEF ProcInv
<1>11. env' \in Surroundings
  BY <1>1 DEF TypeOK
<1> QED
  BY <1>1, <1>7, <1>10, <1>11, QuietStep

-----------------------------------------------------------------------------
(* Moving on: the steps that answer nothing yet.                           *)

\* A process goes from one step of a call to the next.
Advances(from, to) ==
    \/ /\ from \in {"create", "freeze", "reserve", "start", "lock", "admit", "guard"}
       /\ to \in {"create", "freeze", "reserve", "start", "lock", "admit", "guard", "stage"}
    \/ from = "verify" /\ to = "replace"
    \/ from = "settle" /\ to = "confirm"
    \/ from = "release" /\ to \in {"unlock", "idle"}

LEMMA GotoStep ==
    ASSUME StoreInv, NEW w \in Writer, NEW x \in Step, Goto(w, x), Advances(proc[w].pc, x),
           UNCHANGED <<disk, lock, acked>>, BudgetHolds(budget'), Grows(budget, budget'),
           env' \in Surroundings,
           x \in PastReserve => proc[w].pc \in PastReserve \/ Reserves(budget', proc[w].rev),
           x \in PastReserve \ {"start"} =>
              proc[w].pc \in PastReserve \ {"start"} \/ Begun(budget', proc[w].rev.txn),
           proc[w].pc = "create" => budget'.ops # <<>>,
           x \in Critical => lock = w,
           x = "replace" => proc[w].rev \in revs /\ IdOf(current) = proc[w].rev.base
    PROVE  StoreInv'
<1>1. TypeOK /\ PlaceInv(w) /\ FlagsHold(proc[w]) /\ ReportHolds(proc[w])
  BY DEF StoreInv, ProcInv
<1>2. /\ Steps(w) /\ proc'[w].pc = x /\ SameCall(proc[w], proc'[w])
      /\ proc'[w].report = proc[w].report
  BY <1>1, GotoFields
<1>3. FlagsHold(proc'[w])
  BY <1>1, <1>2, FlagsOf DEF Advances
<1>4. ReportHolds(proc'[w])
  BY <1>1, <1>2 DEF ReportHolds, SameCall, Advances
<1>5. proc[w].rev # Null /\ proc'[w].rev = proc[w].rev /\ x # "release"
  BY <1>1, <1>2 DEF PlaceInv, SameCall, Advances
<1>6. x \in {"settle", "confirm"} => current = proc[w].rev
  BY <1>1 DEF PlaceInv, Advances
<1>7. PlaceInv(w)'
  BY <1>1, <1>2, <1>5, <1>6, PlaceOf
<1>8. ProcInv(w)'
  BY <1>3, <1>4, <1>7 DEF ProcInv
<1> QED
  BY <1>2, <1>8, CallStep

LEMMA RecordedOps ==
    ASSUME NEW s, NEW q, RecordedExactly(s, q)
    PROVE  s.ops # <<>>
  BY DEF RecordedExactly

LEMMA CreateStep ==
    ASSUME StoreInv, NEW w \in Writer, CreateBudget(w)
    PROVE  StoreInv'
<1> DEFINE r == proc[w].rev
           q == InitializeBudget(r.txn)
<1>1. /\ proc[w].pc = "create" /\ UNCHANGED <<disk, lock, acked>>
      /\ \/ Applies(q, 0) /\ Goto(w, "freeze")
         \/ budget.ops # <<>> /\ Goto(w, "freeze") /\ UNCHANGED <<budget, env>>
         \/ Refuses(q, 0) /\ proc' = [proc EXCEPT ![w] = Idle]
  BY DEF CreateBudget, At
<1>2. /\ TypeOK /\ BudgetHolds(budget) /\ env \in Surroundings /\ r \in Revision
      /\ q.kind = "initialize" /\ Issued(budget, q)
  <2>1. TypeOK /\ BudgetHolds(budget) /\ PlaceInv(w)
    BY DEF StoreInv, ProcInv
  <2>2. r \in Revision
    BY <1>1, <2>1, ProcFields DEF PlaceInv
  <2> QED
    BY <2>1, <2>2, IssuedBy DEF TypeOK, InitializeBudget
<1>3. "freeze" \in Step /\ 0 \in Nat
  BY DEF Step
<1> HIDE DEF q
<1>4. Advances(proc[w].pc, "freeze") /\ "freeze" \notin PastReserve \cup Critical
  BY <1>1 DEF Advances, PastReserve, Critical
<1>5. CASE Applies(q, 0) /\ Goto(w, "freeze")
  <2>1. /\ BudgetHolds(budget') /\ Grows(budget, budget') /\ env' \in Surroundings
        /\ RecordedExactly(budget', q)
    BY <1>2, <1>3, <1>5, BudgetCall
  <2>2. budget'.ops # <<>>
    BY <2>1, RecordedOps
  <2> QED
    BY <1>1, <1>3, <1>4, <1>5, <2>1, <2>2, GotoStep
<1>6. CASE budget.ops # <<>> /\ Goto(w, "freeze") /\ UNCHANGED <<budget, env>>
  <2>1. BudgetHolds(budget') /\ Grows(budget, budget') /\ env' \in Surroundings
    BY <1>2, <1>6, GrowsRefl
  <2> QED
    BY <1>1, <1>3, <1>4, <1>6, <2>1, GotoStep
<1>7. CASE Refuses(q, 0) /\ proc' = [proc EXCEPT ![w] = Idle]
  <2>1. BudgetHolds(budget') /\ Grows(budget, budget') /\ env' \in Surroundings
    BY <1>2, <1>3, <1>7, BudgetCall
  <2>2. Steps(w) /\ ProcInv(w)'
    BY <1>2, <1>7, IdleStep
  <2> QED
    BY <1>1, <2>1, <2>2, CallStep
<1> QED
  BY <1>1, <1>5, <1>6, <1>7

LEMMA RequestedInRange ==
    ASSUME budget \in Snapshot, budget.policy = RunPolicy
    PROVE  Requested \in 0..Asked
<1>1. RunPolicy.runtime \in Nat /\ budget.runtime \in Nat /\ Asked \in Nat
  BY TerminalAssumption DEF Policy, Snapshot
<1>2. ASSUME NEW x \in Int
      PROVE  FSE!Max({0, x}) \in Nat
  BY DEF FSE!Max
<1>3. ASSUME NEW a \in Nat, NEW b \in Nat
      PROVE  FSE!Min({a, b}) \in 0..a
  BY DEF FSE!Min
<1>4. budget.policy.runtime - budget.runtime \in Int
  BY <1>1
<1>5. FSE!Max({0, budget.policy.runtime - budget.runtime}) \in Nat
  BY <1>2, <1>4
<1> QED
  BY <1>1, <1>3, <1>5 DEF Requested

LEMMA FreezeStep ==
    ASSUME StoreInv, NEW w \in Writer, FreezeBinding(w)
    PROVE  StoreInv'
<1>1. /\ proc[w].pc = "freeze" /\ UNCHANGED <<disk, lock, acked>> /\ UNCHANGED <<budget, env>>
      /\ proc' = [proc EXCEPT ![w].pc = "reserve", ![w].runtime = Requested]
  BY DEF FreezeBinding, At
<1>2. TypeOK /\ PlaceInv(w) /\ FlagsHold(proc[w]) /\ BudgetHolds(budget)
  BY DEF StoreInv, ProcInv
<1>3. Requested \in Nat
  <2>1. budget \in Snapshot /\ budget.policy = RunPolicy
    BY <1>1, <1>2 DEF PlaceInv, BudgetHolds
  <2>2. Requested \in 0..Asked
    BY <2>1, RequestedInRange
  <2> QED
    BY <2>2, TerminalAssumption
<1> DEFINE p == [proc[w] EXCEPT !.pc = "reserve", !.runtime = Requested]
<1>4. /\ p \in Proc /\ p.pc = "reserve" /\ p.rev = proc[w].rev /\ p.renamed = proc[w].renamed
      /\ p.replaced = proc[w].replaced /\ p.did = proc[w].did
  <2>1. "reserve" \in Step
    BY DEF Step
  <2> HIDE DEF Requested
  <2> QED
    BY <1>2, <1>3, <2>1, ProcFields DEF Proc
<1>5. proc' = [proc EXCEPT ![w] = p]
  BY <1>1, <1>2 DEF TypeOK
<1> HIDE DEF p
<1>6. Steps(w) /\ proc'[w] = p
  BY <1>2, <1>4, <1>5, RecordStep
<1>7. FlagsHold(proc'[w]) /\ ReportHolds(proc'[w])
  BY <1>1, <1>2, <1>4, <1>6 DEF FlagsHold, ReportHolds
<1>8. PlaceInv(w)'
  <2>1. proc'[w].pc = "reserve" /\ proc'[w].rev = proc[w].rev
    BY <1>4, <1>6
  <2>2. "reserve" \notin PastReserve \cup Critical
    BY DEF PastReserve, Critical
  <2>3. Grows(budget, budget')
    BY <1>1, GrowsRefl
  <2> QED
    BY <1>1, <1>2, <1>6, <2>1, <2>2, <2>3, PlaceOf DEF PlaceInv
<1>9. ProcInv(w)'
  BY <1>7, <1>8 DEF ProcInv
<1>10. env' \in Surroundings
  BY <1>1, <1>2 DEF TypeOK
<1> QED
  BY <1>1, <1>6, <1>9, <1>10, QuietStep

LEMMA RepeatStep ==
    ASSUME StoreInv, NEW w \in Writer, RepeatPublish(w)
    PROVE  StoreInv'
<1> DEFINE p == [Idle EXCEPT !.pc = "reserve", !.rev = proc[w].rev, !.runtime = proc[w].runtime]
<1>1. /\ proc[w].pc = "idle" /\ proc[w].rev # Null
      /\ UNCHANGED <<disk, lock, acked>> /\ UNCHANGED <<budget, env>>
      /\ proc' = [proc EXCEPT ![w] = p]
  BY DEF RepeatPublish, At
<1>2. TypeOK /\ PlaceInv(w)
  BY DEF StoreInv, ProcInv
<1>3. NewCall(p, proc[w].rev, "reserve")
  <2>1. proc[w].rev \in Revision /\ proc[w].runtime \in Nat /\ "reserve" \in Step
    BY <1>1, <1>2, ProcFields DEF Step
  <2> QED
    BY <2>1, FreshFields
<1> HIDE DEF p
<1>4. Steps(w) /\ proc'[w] = p
  BY <1>1, <1>2, <1>3, RecordStep DEF NewCall
<1>5. FlagsHold(p) /\ ReportHolds(p)
  BY <1>3, IdleHolds DEF NewCall
<1>6. PlaceInv(w)'
  <2>1. proc'[w].pc = "reserve" /\ proc'[w].rev = proc[w].rev
    BY <1>3, <1>4 DEF NewCall
  <2>2. "reserve" \notin PastReserve \cup Critical
    BY DEF PastReserve, Critical
  <2>3. Grows(budget, budget')
    BY <1>1, GrowsRefl
  <2> QED
    BY <1>1, <1>2, <1>4, <2>1, <2>2, <2>3, PlaceOf
<1>7. ProcInv(w)'
  BY <1>4, <1>5, <1>6 DEF ProcInv
<1>8. env' \in Surroundings
  BY <1>1, <1>2 DEF TypeOK
<1> QED
  BY <1>1, <1>4, <1>7, <1>8, QuietStep

-----------------------------------------------------------------------------
(* The permit: reservation and start.                                      *)

LEMMA WhatIsRecorded ==
    ASSUME NEW s, BudgetHolds(s), NEW r \in Revision
    PROVE  /\ \A n : RecordedExactly(s, ReservePermit(r, n)) => Reserves(s, r)
           /\ RecordedExactly(s, StartPermit(r)) => Begun(s, r.txn)
<1>1. \A q : RecordedExactly(s, q) => OperationHolds(s, q)
  BY DEF BudgetHolds, RecordedExactly
<1>2. ASSUME NEW n, RecordedExactly(s, ReservePermit(r, n))
      PROVE  Reserves(s, r)
  <2> DEFINE q == ReservePermit(r, n)
  <2>1. /\ q.kind = "reserve" /\ q.permit = r.txn /\ q.body = r.body
        /\ q.lineage.ordinal = r.num - 1
    BY DEF ReservePermit
  <2>2. OperationHolds(s, q)
    BY <1>1, <1>2
  <2> HIDE DEF q
  <2> QED
    BY <2>1, <2>2 DEF OperationHolds, Reserves
<1>3. ASSUME RecordedExactly(s, StartPermit(r))
      PROVE  Begun(s, r.txn)
  <2>1. OperationHolds(s, StartPermit(r))
    BY <1>1, <1>3
  <2> QED
    BY <2>1 DEF OperationHolds, StartPermit
<1> QED
  BY <1>2, <1>3

\* A call that ends where the permit is refused: it has done nothing.
LEMMA RefusedStep ==
    ASSUME StoreInv, NEW w \in Writer, ReservationFails(w), proc[w].pc \in {"reserve", "start"},
           UNCHANGED <<disk, lock, acked>>, BudgetHolds(budget'), Grows(budget, budget'),
           env' \in Surroundings
    PROVE  StoreInv'
<1>1. TypeOK /\ PlaceInv(w) /\ FlagsHold(proc[w])
  BY DEF StoreInv, ProcInv
<1>2. PICK code \in {"run_locked", "budget_reservation_failed"} :
        proc' = [proc EXCEPT ![w].pc = "idle",
                             ![w].report = Report(code, "none", "current_unchanged")]
  BY DEF ReservationFails
<1> DEFINE report == Report(code, "none", "current_unchanged")
<1>3. report \in Reports /\ report.code = code /\ report.domain = "current_unchanged"
      /\ report.fs = "none" /\ "idle" \in Step
  BY ReportTypes DEF Code, FsEffect, DomainEffect, Step
<1> HIDE DEF report
<1>4. proc' = [proc EXCEPT ![w].pc = "idle", ![w].report = report]
  BY <1>2 DEF report
<1>5. /\ Steps(w) /\ proc'[w].pc = "idle" /\ SameCall(proc[w], proc'[w])
      /\ proc'[w].report = report
  BY <1>1, <1>3, <1>4, AnswerFields, ZenonT(60)
<1>6. FlagsHold(proc'[w])
  BY <1>1, <1>5, FlagsOf
<1>7. ReportHolds(proc'[w])
  BY <1>1, <1>3, <1>5 DEF ReportHolds, Says, SameCall, FlagsHold
<1>8. PlaceInv(w)'
  <2>1. "idle" \notin PastReserve \cup Critical
    BY DEF PastReserve, Critical
  <2>2. proc'[w].rev = proc[w].rev
    BY <1>5 DEF SameCall
  <2> QED
    BY <1>1, <1>5, <2>1, <2>2, PlaceOf
<1>9. ProcInv(w)'
  BY <1>6, <1>7, <1>8 DEF ProcInv
<1> QED
  BY <1>5, <1>9, CallStep

LEMMA ReserveStep ==
    ASSUME StoreInv, NEW w \in Writer, ReserveBudget(w)
    PROVE  StoreInv'
<1> DEFINE r == proc[w].rev
           q == ReservePermit(r, proc[w].runtime)
<1>1. /\ proc[w].pc = "reserve" /\ UNCHANGED <<disk, lock, acked>>
      /\ \/ proc[w].runtime = Requested /\ Applies(q, 0) /\ Goto(w, "start")
         \/ proc[w].runtime = Requested /\ Refuses(q, 0) /\ ReservationFails(w)
         \/ ReservationFails(w) /\ UNCHANGED <<budget, env>>
  BY DEF ReserveBudget, At
<1>2. /\ TypeOK /\ BudgetHolds(budget) /\ env \in Surroundings /\ r \in Revision
      /\ PlaceInv(w) /\ budget.ops # <<>> /\ budget \in Snapshot
      /\ budget.policy = RunPolicy
  <2>1. TypeOK /\ BudgetHolds(budget) /\ PlaceInv(w)
    BY DEF StoreInv, ProcInv
  <2>2. r \in Revision /\ budget.ops # <<>>
    BY <1>1, <2>1, ProcFields DEF PlaceInv
  <2> QED
    BY <2>1, <2>2 DEF TypeOK, BudgetHolds
<1>3. "start" \in Step /\ 0 \in Nat /\ "start" \notin Critical /\ Advances(proc[w].pc, "start")
  BY <1>1 DEF Step, Critical, Advances
<1>4. proc[w].runtime = Requested => Issued(budget, q)
  <2>1. Requested \in 0..Asked
    BY <1>2, RequestedInRange
  <2> HIDE DEF Requested
  <2> QED
    BY <1>2, <2>1, IssuedBy
<1>5. \A s : BudgetHolds(s) /\ RecordedExactly(s, q) => Reserves(s, r)
  BY <1>2, WhatIsRecorded
<1> HIDE DEF q
<1>6. CASE proc[w].runtime = Requested /\ Applies(q, 0) /\ Goto(w, "start")
  <2>1. /\ BudgetHolds(budget') /\ Grows(budget, budget') /\ env' \in Surroundings
        /\ RecordedExactly(budget', q)
    BY <1>2, <1>3, <1>4, <1>6, BudgetCall
  <2>2. Reserves(budget', proc[w].rev)
    BY <1>5, <2>1
  <2> QED
    BY <1>1, <1>3, <1>6, <2>1, <2>2, GotoStep
<1>7. CASE proc[w].runtime = Requested /\ Refuses(q, 0) /\ ReservationFails(w)
  <2>1. BudgetHolds(budget') /\ Grows(budget, budget') /\ env' \in Surroundings
    BY <1>2, <1>3, <1>4, <1>7, BudgetCall
  <2> QED
    BY <1>1, <1>7, <2>1, RefusedStep
<1>8. CASE ReservationFails(w) /\ UNCHANGED <<budget, env>>
  <2>1. BudgetHolds(budget') /\ Grows(budget, budget') /\ env' \in Surroundings
    BY <1>2, <1>8, GrowsRefl
  <2> QED
    BY <1>1, <1>8, <2>1, RefusedStep
<1> QED
  BY <1>1, <1>6, <1>7, <1>8

LEMMA StartStep ==
    ASSUME StoreInv, NEW w \in Writer, StartBudget(w)
    PROVE  StoreInv'
<1> DEFINE r == proc[w].rev
           q == StartPermit(r)
<1>1. /\ proc[w].pc = "start" /\ UNCHANGED <<disk, lock, acked>>
      /\ \/ Applies(q, 0) /\ Goto(w, "lock")
         \/ Refuses(q, 0) /\ ReservationFails(w)
  BY DEF StartBudget, At
<1>2. /\ TypeOK /\ BudgetHolds(budget) /\ env \in Surroundings /\ r \in Revision
      /\ budget.ops # <<>> /\ Issued(budget, q)
  <2>1. TypeOK /\ BudgetHolds(budget) /\ PlaceInv(w)
    BY DEF StoreInv, ProcInv
  <2>2. r \in Revision /\ budget.ops # <<>>
    BY <1>1, <2>1, ProcFields DEF PlaceInv
  <2> QED
    BY <2>1, <2>2, IssuedBy DEF TypeOK
<1>3. "lock" \in Step /\ 0 \in Nat /\ "lock" \notin Critical /\ Advances(proc[w].pc, "lock")
      /\ proc[w].pc \in PastReserve
  BY <1>1 DEF Step, Critical, Advances, PastReserve
<1>4. \A s : BudgetHolds(s) /\ RecordedExactly(s, q) => Begun(s, r.txn)
  BY <1>2, WhatIsRecorded
<1> HIDE DEF q
<1>5. CASE Applies(q, 0) /\ Goto(w, "lock")
  <2>1. /\ BudgetHolds(budget') /\ Grows(budget, budget') /\ env' \in Surroundings
        /\ RecordedExactly(budget', q)
    BY <1>2, <1>3, <1>5, BudgetCall
  <2>2. Begun(budget', proc[w].rev.txn)
    BY <1>4, <2>1
  <2> QED
    BY <1>1, <1>3, <1>5, <2>1, <2>2, GotoStep
<1>6. CASE Refuses(q, 0) /\ ReservationFails(w)
  <2>1. BudgetHolds(budget') /\ Grows(budget, budget') /\ env' \in Surroundings
    BY <1>2, <1>3, <1>6, BudgetCall
  <2> QED
    BY <1>1, <1>6, <2>1, RefusedStep
<1> QED
  BY <1>1, <1>5, <1>6

-----------------------------------------------------------------------------
(* The authority.                                                          *)

\* A step that may change the files or the authority, and not the budget.
LEMMA FrameStep ==
    ASSUME StoreInv, NEW w \in Writer, Steps(w), FilesGrow(w), UNCHANGED budget, TypeOK',
           FilesHold', AcksHold', ProcInv(w)'
    PROVE  StoreInv'
<1>1. Grows(budget, budget') /\ BudgetHolds(budget)'
  BY GrowsRefl DEF StoreInv, BudgetHolds
<1>2. \A v \in Writer : ProcInv(v)'
  BY <1>1, OtherKeeps DEF StoreInv
<1> QED
  BY <1>1, <1>2 DEF StoreInv

\* A step that changes only who holds the authority.
LEMMA LockStep ==
    ASSUME StoreInv, NEW w \in Writer, Steps(w), UNCHANGED <<disk, budget, acked>>,
           env' \in Surroundings, lock' \in Writer \cup {Null},
           lock \in {w, Null} \/ lock' = lock, ProcInv(w)'
    PROVE  StoreInv'
<1>1. UNCHANGED <<current, revs, staging>>
  BY DEF disk
<1>2. Grows(budget, budget')
  BY GrowsRefl
<1>3. FilesGrow(w)
  <2>1. \A r \in Revision : Based(r) => Based(r)'
    BY <1>1 DEF Based
  <2>2. \A v \in Writer \ {w} : lock = v => lock' = v
    BY TerminalAssumption
  <2> QED
    BY <1>1, <2>1, <2>2 DEF FilesGrow
<1>4. TypeOK'
  BY <1>1 DEF StoreInv, TypeOK, Steps
<1>5. FilesHold' /\ AcksHold'
  BY <1>2, FilesKept, AcksKept DEF StoreInv
<1> QED
  BY <1>3, <1>4, <1>5, FrameStep

LEMMA AcquireStep ==
    ASSUME StoreInv, NEW w \in Writer, AcquireAuthority(w)
    PROVE  StoreInv'
<1>1. /\ proc[w].pc = "lock" /\ UNCHANGED <<disk, budget, acked, env>>
      /\ \/ lock = Null /\ lock' = w /\ Goto(w, "admit")
         \/ /\ Fails(w, Report("run_locked", "none", "current_unchanged"))
            /\ UNCHANGED lock
  BY DEF AcquireAuthority, At
<1>2. TypeOK /\ PlaceInv(w) /\ FlagsHold(proc[w]) /\ env \in Surroundings /\ BudgetHolds(budget)
  BY DEF StoreInv, ProcInv, TypeOK
<1>3. CASE lock = Null /\ lock' = w /\ Goto(w, "admit")
  <2>1. "admit" \in Step
    BY DEF Step
  <2>2. /\ Steps(w) /\ proc'[w].pc = "admit" /\ SameCall(proc[w], proc'[w])
    BY <1>2, <1>3, <2>1, GotoFields
  <2>3. FlagsHold(proc'[w])
    BY <1>1, <1>2, <2>2, FlagsOf
  <2>4. ReportHolds(proc'[w])
    BY <2>2 DEF ReportHolds
  <2>5. PlaceInv(w)'
    <3>1. proc'[w].rev = proc[w].rev /\ proc[w].rev # Null
      BY <1>1, <1>2, <2>2 DEF SameCall, PlaceInv
    <3>2. Based(proc[w].rev)'
      BY <1>1, <1>2, <3>1 DEF PlaceInv, Based, disk
    <3>3. proc[w].pc \in PastReserve \ {"start"}
      BY <1>1 DEF PastReserve
    <3>4. /\ Reserves(budget, proc[w].rev) /\ Begun(budget, proc[w].rev.txn)
          /\ budget.ops # <<>>
      BY <1>1, <1>2, <3>1, <3>3 DEF PlaceInv
    <3> QED
      BY <1>1, <1>3, <2>2, <3>1, <3>2, <3>4 DEF PlaceInv
  <2>6. ProcInv(w)'
    BY <2>3, <2>4, <2>5 DEF ProcInv
  <2> QED
    BY <1>1, <1>2, <1>3, <2>2, <2>6, LockStep
<1>4. CASE Fails(w, Report("run_locked", "none", "current_unchanged")) /\ UNCHANGED lock
  <2> DEFINE report == Report("run_locked", "none", "current_unchanged")
  <2>1. report \in Reports /\ report.code = "run_locked" /\ report.fs = "none"
        /\ report.domain = "current_unchanged"
    BY ReportTypes DEF Code, FsEffect, DomainEffect
  <2>2. Fails(w, report)
    BY <1>4
  <2> HIDE DEF report
  <2>3. proc[w].did = "nothing" /\ proc[w].pc \in PastReserve \ {"start"}
    BY <1>1, <1>2 DEF FlagsHold, PastReserve
  <2>4. Says(report, proc[w].did)
    BY <2>1, <2>3 DEF Says
  <2>5. BudgetHolds(budget') /\ Grows(budget, budget') /\ env' \in Surroundings
    BY <1>1, <1>2, GrowsRefl
  <2>6. UNCHANGED <<disk, lock, acked>>
    BY <1>1, <1>4
  <2> QED
    BY <2>1, <2>2, <2>3, <2>4, <2>5, <2>6, FailStep
<1> QED
  BY <1>1, <1>3, <1>4

\* A failure inside the critical section, and one that goes by the flags.
LEMMA InsideFails ==
    ASSUME StoreInv, NEW w \in Writer, NEW report \in Reports, Fails(w, report),
           UNCHANGED <<disk, lock, acked>>, BudgetHolds(budget'), Grows(budget, budget'),
           env' \in Surroundings, proc[w].pc \in Critical \ {"unlock"},
           Says(report, proc[w].did)
    PROVE  StoreInv'
<1>1. lock = w
  BY DEF StoreInv, ProcInv, PlaceInv
<1>2. proc[w].pc \in PastReserve \ {"start"}
  BY DEF Critical, PastReserve
<1> QED
  BY <1>1, <1>2, FailStep

LEMMA InsideBreaks ==
    ASSUME StoreInv, NEW w \in Writer, Breaks(w), UNCHANGED <<disk, lock, acked>>,
           BudgetHolds(budget'), Grows(budget, budget'), env' \in Surroundings,
           proc[w].pc \in {"guard", "stage", "rename", "verify", "replace", "settle"}
    PROVE  StoreInv'
<1>1. TypeOK /\ FlagsHold(proc[w])
  BY DEF StoreInv, ProcInv
<1>2. PICK report \in Reports : Fails(w, report) /\ Says(report, proc[w].did)
  BY <1>1, BreaksTells
<1>3. proc[w].pc \in Critical \ {"unlock"}
  BY DEF Critical
<1> QED
  BY <1>2, <1>3, InsideFails

\* Reports that claim nothing which a call that has done this could not have done.
LEMMA HarmlessReports ==
    /\ Unreadable \in Reports /\ ReadFailure \in Reports
    /\ \A did : Says(Unreadable, did) /\ Says(ReadFailure, did)
    /\ \A code \in Code \ {"published"} :
         LET report == Report(code, "none", "current_unchanged")
         IN  report \in Reports /\ Says(report, "nothing")
<1> DEFINE a == Report("budget_settlement_failed", "current_advanced", "current_advanced")
<1>1. Unreadable \in Reports /\ Unreadable.code = "run_corrupt"
  BY ReportTypes DEF Unreadable, Code, FsEffect, DomainEffect
<1>2. a \in Reports /\ a.code = "budget_settlement_failed" /\ a.fs = "current_advanced"
      /\ a.domain = "current_advanced"
  BY ReportTypes DEF Code, FsEffect, DomainEffect
<1> HIDE DEF a
<1>3. \A did : Says(Unreadable, did) /\ Says(a, did)
  BY <1>1, <1>2 DEF Says
<1>4. ReadFailure \in {Unreadable, a}
  BY DEF ReadFailure, a
<1>5. ASSUME NEW code \in Code \ {"published"}
      PROVE  /\ Report(code, "none", "current_unchanged") \in Reports
             /\ Says(Report(code, "none", "current_unchanged"), "nothing")
  BY ReportTypes DEF Says, FsEffect, DomainEffect
<1> QED
  BY <1>1, <1>2, <1>3, <1>4, <1>5

-----------------------------------------------------------------------------
(* The answers that confirm a publication.                                 *)

LEMMA ReadIsSettled ==
    ASSUME TypeOK, FilesHold, current # Null, ReadCode = "none"
    PROVE  \A r \in revs : r.num <= current.num => SettledFor(r)
<1>1. FileTypes
  BY DEF TypeOK, FileTypes
<1>2. Walk # {} /\ Reachable = {r \in revs : r.num <= current.num}
  BY <1>1, WalkIsChain
<1>3. \A r \in Reachable : SettledFor(r)
  BY <1>2 DEF ReadCode
<1> QED
  BY <1>2, <1>3

LEMMA AcksMore ==
    ASSUME TypeOK, FilesHold, AcksHold, current # Null, ReadCode = "none",
           UNCHANGED <<disk, budget>>, acked' = acked \cup {current}
    PROVE  AcksHold' /\ acked' \subseteq Revision
<1>1. current \in Revision /\ current \in revs /\ current.num <= current.num
  BY RevisionFields DEF TypeOK, FilesHold
<1>2. SettledFor(current)
  BY <1>1, ReadIsSettled
<1>3. \A r \in acked' : r \in revs /\ r.num <= current.num /\ SettledFor(r)
  BY <1>1, <1>2 DEF AcksHold
<1>4. UNCHANGED <<current, revs>> /\ budget' = budget
  BY DEF disk
<1>5. \A r : SettledFor(r) => SettledFor(r)'
  BY <1>4 DEF SettledFor
<1> QED
  BY <1>1, <1>3, <1>4, <1>5 DEF AcksHold, TypeOK

\* A process ends a call whose publication is confirmed.
LEMMA ConfirmedStep ==
    ASSUME StoreInv, NEW w \in Writer, NEW report \in Reports,
           proc' = [proc EXCEPT ![w].pc = "unlock", ![w].report = report],
           UNCHANGED <<disk, lock, budget, env>>, proc[w].pc \in {"admit", "confirm"},
           proc[w].rev = current, ReadCode = "none", acked' = acked \cup {proc[w].rev},
           Says(report, proc[w].did)
    PROVE  StoreInv'
<1>1. /\ TypeOK /\ PlaceInv(w) /\ FlagsHold(proc[w]) /\ FilesHold /\ AcksHold
      /\ "unlock" \in Step
  BY DEF StoreInv, ProcInv, Step
<1>2. current # Null /\ lock = w
  BY <1>1 DEF PlaceInv, Critical
<1>3. /\ Steps(w) /\ proc'[w].pc = "unlock" /\ SameCall(proc[w], proc'[w])
      /\ proc'[w].report = report
  BY <1>1, AnswerFields, ZenonT(60)
<1>4. FlagsHold(proc'[w])
  BY <1>1, <1>3, FlagsOf
<1>5. ReportHolds(proc'[w])
  BY <1>3 DEF ReportHolds, SameCall
<1>6. PlaceInv(w)'
  <2>1. proc[w].pc \in PastReserve \ {"start"} /\ proc'[w].rev = proc[w].rev
    BY <1>3 DEF PastReserve, SameCall
  <2>2. Grows(budget, budget')
    BY GrowsRefl
  <2> QED
    BY <1>1, <1>2, <1>3, <2>1, <2>2, PlaceOf
<1>7. ProcInv(w)'
  BY <1>4, <1>5, <1>6 DEF ProcInv
<1>8. AcksHold' /\ acked' \subseteq Revision
  BY <1>1, <1>2, AcksMore
<1>9. env' \in Surroundings
  BY <1>1 DEF TypeOK
<1> QED
  BY <1>3, <1>7, <1>8, <1>9, QuietStep

LEMMA AdmitCurrentStep ==
    ASSUME StoreInv, NEW w \in Writer, AdmitCurrent(w)
    PROVE  StoreInv'
<1> DEFINE r == proc[w].rev
           Ends(code) == Fails(w, Report(code, "none", "current_unchanged"))
           Done == proc' = [proc EXCEPT ![w].pc = "unlock",
                       ![w].report = Report("current_committed", "none", "current_unchanged")]
<1>1. proc[w].pc = "admit" /\ UNCHANGED <<disk, lock, budget>>
  BY DEF AdmitCurrent, At
<1>2. \/ Goto(w, "guard") /\ UNCHANGED <<acked, env>>
      \/ Fails(w, ReadFailure) /\ UNCHANGED <<acked, env>>
      \/ Fault /\ Fails(w, Unreadable) /\ UNCHANGED acked
      \/ /\ current = r /\ ReadCode = "none" /\ Done
         /\ acked' = acked \cup {r} /\ UNCHANGED env
      \/ \E code \in {"idempotency_conflict", "run_conflict"} : Ends(code) /\ UNCHANGED <<acked, env>>
  BY Zenon DEF AdmitCurrent
<1>3. /\ TypeOK /\ PlaceInv(w) /\ FlagsHold(proc[w]) /\ env \in Surroundings
      /\ BudgetHolds(budget') /\ Grows(budget, budget')
  BY <1>1, GrowsRefl DEF StoreInv, ProcInv, TypeOK
<1>4. proc[w].did = "nothing" /\ lock = w
  BY <1>1, <1>3 DEF FlagsHold, PlaceInv, Critical
<1>5. ASSUME NEW report \in Reports, Fails(w, report), Says(report, "nothing"),
             UNCHANGED acked, env' \in Surroundings
      PROVE  StoreInv'
  <2>1. proc[w].pc \in Critical \ {"unlock"}
    BY <1>1 DEF Critical
  <2> QED
    BY <1>1, <1>3, <1>4, <1>5, <2>1, InsideFails
<1>6. CASE Goto(w, "guard") /\ UNCHANGED <<acked, env>>
  <2>1. "guard" \in Step /\ Advances(proc[w].pc, "guard") /\ proc[w].pc \in PastReserve \ {"start"}
    BY <1>1 DEF Step, Advances, PastReserve
  <2> QED
    BY <1>1, <1>3, <1>4, <1>6, <2>1, GotoStep
<1>7. CASE Fails(w, ReadFailure) /\ UNCHANGED <<acked, env>>
  BY <1>3, <1>5, <1>7, HarmlessReports
<1>8. CASE Fault /\ Fails(w, Unreadable) /\ UNCHANGED acked
  BY <1>3, <1>5, <1>8, HarmlessReports, FaultKeeps
<1>9. CASE /\ current = r /\ ReadCode = "none" /\ Done
           /\ acked' = acked \cup {r} /\ UNCHANGED env
  <2> DEFINE report == Report("current_committed", "none", "current_unchanged")
  <2>1. report \in Reports /\ Says(report, "nothing")
    BY HarmlessReports DEF Code
  <2>2. proc' = [proc EXCEPT ![w].pc = "unlock", ![w].report = report]
    BY <1>9
  <2> HIDE DEF report
  <2> QED
    BY <1>1, <1>4, <1>9, <2>1, <2>2, ConfirmedStep
<1>10. CASE \E code \in {"idempotency_conflict", "run_conflict"} : Ends(code) /\ UNCHANGED <<acked, env>>
  <2>1. PICK code \in {"idempotency_conflict", "run_conflict"} : Ends(code) /\ UNCHANGED <<acked, env>>
    BY <1>10
  <2> DEFINE report == Report(code, "none", "current_unchanged")
  <2>2. report \in Reports /\ Says(report, "nothing")
    BY HarmlessReports DEF Code
  <2>3. Fails(w, report)
    BY <2>1
  <2> HIDE DEF report
  <2> QED
    BY <1>3, <1>5, <2>1, <2>2, <2>3
<1> QED
  BY <1>2, <1>6, <1>7, <1>8, <1>9, <1>10

LEMMA VerifyAuthorityStep ==
    ASSUME StoreInv, NEW w \in Writer, VerifyAuthority(w)
    PROVE  StoreInv'
<1>1. /\ proc[w].pc = "guard" /\ UNCHANGED <<disk, lock, budget, acked, env>>
      /\ \/ Goto(w, "stage")
         \/ Fails(w, Report("refused", "none", "current_unchanged"))
         \/ Breaks(w)
  BY DEF VerifyAuthority, At
<1>2. /\ TypeOK /\ PlaceInv(w) /\ FlagsHold(proc[w]) /\ env' \in Surroundings
      /\ BudgetHolds(budget') /\ Grows(budget, budget')
  BY <1>1, GrowsRefl DEF StoreInv, ProcInv, TypeOK
<1>3. proc[w].did = "nothing" /\ lock = w
  BY <1>1, <1>2 DEF FlagsHold, PlaceInv, Critical
<1>4. proc[w].pc \in PastReserve \ {"start"} /\ proc[w].pc \in Critical \ {"unlock"}
  BY <1>1 DEF PastReserve, Critical
<1>5. CASE Goto(w, "stage")
  <2>1. "stage" \in Step /\ Advances(proc[w].pc, "stage")
    BY <1>1 DEF Step, Advances
  <2> QED
    BY <1>1, <1>2, <1>3, <1>4, <1>5, <2>1, GotoStep
<1>6. CASE Fails(w, Report("refused", "none", "current_unchanged"))
  <2> DEFINE report == Report("refused", "none", "current_unchanged")
  <2>1. report \in Reports /\ Says(report, "nothing")
    BY HarmlessReports DEF Code
  <2>2. Fails(w, report)
    BY <1>6
  <2> HIDE DEF report
  <2> QED
    BY <1>1, <1>2, <1>3, <1>4, <2>1, <2>2, InsideFails
<1>7. CASE Breaks(w)
  BY <1>1, <1>2, <1>7, InsideBreaks
<1> QED
  BY <1>1, <1>5, <1>6, <1>7

LEMMA ConfirmStep ==
    ASSUME StoreInv, NEW w \in Writer, ConfirmPublication(w)
    PROVE  StoreInv'
<1> DEFINE report == Report("published", "current_advanced", "current_advanced")
<1>1. proc[w].pc = "confirm" /\ UNCHANGED <<disk, lock, budget>>
  BY DEF ConfirmPublication, At
<1>2. \/ /\ ReadCode = "none" /\ UNCHANGED env /\ acked' = acked \cup {proc[w].rev}
         /\ proc' = [proc EXCEPT ![w].pc = "unlock", ![w].report = report]
      \/ Fails(w, ReadFailure) /\ UNCHANGED <<acked, env>>
      \/ Fault /\ Fails(w, Unreadable) /\ UNCHANGED acked
  BY Zenon DEF ConfirmPublication
<1>3. /\ TypeOK /\ PlaceInv(w) /\ FlagsHold(proc[w]) /\ env \in Surroundings
      /\ BudgetHolds(budget') /\ Grows(budget, budget')
  BY <1>1, GrowsRefl DEF StoreInv, ProcInv, TypeOK
<1>4. /\ proc[w].did = "advanced" /\ proc[w].rev = current
      /\ proc[w].pc \in Critical \ {"unlock"}
  BY <1>1, <1>3 DEF FlagsHold, PlaceInv, Critical
<1>5. report \in Reports /\ Says(report, "advanced")
  BY ReportTypes DEF Says, Code, FsEffect, DomainEffect
<1> HIDE DEF report
<1>6. CASE /\ ReadCode = "none" /\ UNCHANGED env /\ acked' = acked \cup {proc[w].rev}
           /\ proc' = [proc EXCEPT ![w].pc = "unlock", ![w].report = report]
  BY <1>1, <1>4, <1>5, <1>6, ConfirmedStep
<1>7. CASE Fails(w, ReadFailure) /\ UNCHANGED <<acked, env>>
  BY <1>1, <1>3, <1>4, <1>7, HarmlessReports, InsideFails
<1>8. CASE Fault /\ Fails(w, Unreadable) /\ UNCHANGED acked
  BY <1>1, <1>3, <1>4, <1>8, HarmlessReports, FaultKeeps, InsideFails
<1> QED
  BY <1>2, <1>6, <1>7, <1>8

-----------------------------------------------------------------------------
(* The end of the permit, and of the call.                                 *)

LEMMA SettleStep ==
    ASSUME StoreInv, NEW w \in Writer, SettleBudget(w)
    PROVE  StoreInv'
<1>1. proc[w].pc = "settle" /\ UNCHANGED <<disk, lock, acked>>
  BY DEF SettleBudget, At
<1>2. /\ TypeOK /\ PlaceInv(w) /\ FlagsHold(proc[w]) /\ env \in Surroundings
      /\ BudgetHolds(budget)
  BY DEF StoreInv, ProcInv, TypeOK
<1>3. /\ proc[w].rev \in Revision /\ budget.ops # <<>> /\ Reserves(budget, proc[w].rev)
      /\ lock = w
  BY <1>1, <1>2, ProcFields DEF PlaceInv, PastReserve, Critical
<1>4. PICK el \in env.elapsed :
         \/ Applies(SettlePermit(proc[w].rev), el) /\ Goto(w, "confirm")
         \/ Refuses(SettlePermit(proc[w].rev), el) /\ Breaks(w)
  BY DEF SettleBudget
<1> DEFINE q == SettlePermit(proc[w].rev)
<1>5. Issued(budget, q) /\ el \in Nat
  BY <1>2, <1>3, IssuedBy DEF Surroundings
<1> HIDE DEF q
<1>6. Applies(q, el) \/ Refuses(q, el)
  BY <1>4 DEF q
<1>7. BudgetHolds(budget') /\ Grows(budget, budget') /\ env' \in Surroundings
  BY <1>2, <1>3, <1>5, <1>6, BudgetCall
<1>8. CASE Goto(w, "confirm")
  <2>1. /\ "confirm" \in Step /\ Advances(proc[w].pc, "confirm")
        /\ proc[w].pc \in PastReserve \ {"start"}
    BY <1>1 DEF Step, Advances, PastReserve
  <2> QED
    BY <1>1, <1>3, <1>7, <1>8, <2>1, GotoStep
<1>9. CASE Breaks(w)
  BY <1>1, <1>7, <1>9, InsideBreaks
<1> QED
  BY <1>4, <1>8, <1>9

LEMMA ReleaseStep ==
    ASSUME StoreInv, NEW w \in Writer, ReleaseBudget(w)
    PROVE  StoreInv'
<1> DEFINE report == proc[w].report
           e == IF Unforeseen(report) THEN report.fs ELSE "none"
           q == ReleasePermit(proc[w].rev, e)
           next == IF report.code = "run_locked" THEN "idle" ELSE "unlock"
           c == IF Unforeseen(report) THEN "effect_unknown" ELSE report.code
<1>1. proc[w].pc = "release" /\ UNCHANGED <<disk, lock, acked>>
  BY DEF ReleaseBudget, At
<1>2. \/ Applies(q, 0) /\ Goto(w, next)
      \/ Refuses(q, 0) /\ proc' = [proc EXCEPT ![w].pc = next, ![w].report.code = c]
  BY Zenon DEF ReleaseBudget
<1>3. /\ TypeOK /\ PlaceInv(w) /\ FlagsHold(proc[w]) /\ ReportHolds(proc[w])
      /\ env \in Surroundings /\ BudgetHolds(budget) /\ report \in Reports
  BY ProcFields DEF StoreInv, ProcInv, TypeOK
<1>4. /\ proc[w].rev \in Revision /\ budget.ops # <<>>
      /\ proc[w].pc \in PastReserve \ {"start"}
  BY <1>1, <1>3, ProcFields DEF PlaceInv, PastReserve
<1>5. Issued(budget, q) /\ 0 \in Nat
  <2>1. e \in FsEffect
    BY <1>3 DEF Reports, FsEffect
  <2> HIDE DEF e
  <2> QED
    BY <1>4, <2>1, IssuedBy
<1> HIDE DEF q
<1>6. BudgetHolds(budget') /\ Grows(budget, budget') /\ env' \in Surroundings
  BY <1>2, <1>3, <1>4, <1>5, BudgetCall
<1>7. next \in Step /\ next \in {"idle", "unlock"} /\ (next = "unlock" => lock = w)
  BY <1>1, <1>3 DEF Step, PlaceInv
<1>8. CASE Goto(w, next)
  <2>1. Advances(proc[w].pc, next)
    BY <1>1, <1>7 DEF Advances
  <2>2. next \in Critical => lock = w
    BY <1>7 DEF Critical
  <2> HIDE DEF next
  <2> QED
    BY <1>1, <1>4, <1>6, <1>7, <1>8, <2>1, <2>2, GotoStep
<1>9. CASE proc' = [proc EXCEPT ![w].pc = next, ![w].report.code = c]
  <2> DEFINE told == [report EXCEPT !.code = c]
  <2>1. /\ told \in Reports /\ told.fs = report.fs /\ told.domain = report.domain
        /\ told.code = c
    BY <1>3 DEF Reports, Code, Unforeseen
  <2>2. Says(told, proc[w].did)
    BY <1>1, <1>3, <2>1 DEF ReportHolds, Says, Unforeseen
  <2>3. proc' = [proc EXCEPT ![w].pc = next, ![w].report = told]
    BY <1>3, <1>9 DEF TypeOK
  <2> HIDE DEF told, next
  <2>4. /\ Steps(w) /\ proc'[w].pc = next /\ SameCall(proc[w], proc'[w])
        /\ proc'[w].report = told
    <3>1. TypeOK /\ next \in Step /\ told \in Reports
      BY <1>3, <1>7, <2>1
    <3> QED
      BY <2>3, <3>1, AnswerFields
  <2>5. FlagsHold(proc'[w])
    <3>1. proc'[w].pc \in {"idle", "release", "unlock"}
      BY <1>7, <2>4
    <3> QED
      BY <1>3, <2>4, <3>1, FlagsOf
  <2>6. ReportHolds(proc'[w])
    BY <2>2, <2>4 DEF ReportHolds, SameCall
  <2>7. PlaceInv(w)'
    <3>1. proc'[w].rev = proc[w].rev /\ proc[w].rev # Null
      BY <1>1, <1>3, <2>4 DEF SameCall, PlaceInv
    <3> QED
      BY <1>1, <1>3, <1>4, <1>6, <1>7, <2>4, <3>1, PlaceOf DEF Critical
  <2>8. ProcInv(w)'
    BY <2>5, <2>6, <2>7 DEF ProcInv
  <2> QED
    BY <1>1, <1>6, <2>4, <2>8, CallStep
<1> QED
  BY <1>2, <1>8, <1>9

LEMMA VerifyRevisionStep ==
    ASSUME StoreInv, NEW w \in Writer, VerifyRevision(w)
    PROVE  StoreInv'
<1> DEFINE report == Report("run_conflict", "unreferenced_revision", "current_unchanged")
<1>1. /\ proc[w].pc = "verify" /\ UNCHANGED <<disk, lock, budget, acked>>
      /\ \/ /\ proc[w].rev \in revs /\ IdOf(current) = proc[w].rev.base
            /\ Goto(w, "replace") /\ UNCHANGED env
         \/ UNCHANGED env /\ Fails(w, report)
         \/ Fault /\ Breaks(w)
  BY DEF VerifyRevision, At
<1>2. /\ TypeOK /\ PlaceInv(w) /\ FlagsHold(proc[w]) /\ env' \in Surroundings
      /\ BudgetHolds(budget') /\ Grows(budget, budget')
  BY <1>1, GrowsRefl, FaultKeeps DEF StoreInv, ProcInv, TypeOK
<1>3. proc[w].did = "renamed" /\ lock = w
  BY <1>1, <1>2 DEF FlagsHold, PlaceInv, Critical
<1>4. proc[w].pc \in PastReserve \ {"start"} /\ proc[w].pc \in Critical \ {"unlock"}
  BY <1>1 DEF PastReserve, Critical
<1>5. report \in Reports /\ Says(report, "renamed")
  BY ReportTypes DEF Says, Code, FsEffect, DomainEffect
<1> HIDE DEF report
<1>6. CASE /\ proc[w].rev \in revs /\ IdOf(current) = proc[w].rev.base
           /\ Goto(w, "replace") /\ UNCHANGED env
  <2>1. "replace" \in Step /\ Advances(proc[w].pc, "replace")
    BY <1>1 DEF Step, Advances
  <2> QED
    BY <1>1, <1>2, <1>3, <1>4, <1>6, <2>1, GotoStep
<1>7. CASE Fails(w, report)
  BY <1>1, <1>2, <1>3, <1>4, <1>5, <1>7, InsideFails
<1>8. CASE Breaks(w)
  BY <1>1, <1>2, <1>8, InsideBreaks
<1> QED
  BY <1>1, <1>6, <1>7, <1>8

LEMMA UnlockStep ==
    ASSUME StoreInv, NEW w \in Writer, ReleaseAuthority(w)
    PROVE  StoreInv'
<1> DEFINE fs == IF proc[w].renamed THEN "unreferenced_revision" ELSE "control_only"
           told == IF proc[w].replaced THEN proc[w].report
                   ELSE Report("effect_unknown", fs, "current_unchanged")
<1>1. proc[w].pc = "unlock" /\ UNCHANGED <<disk, budget, acked>>
  BY DEF ReleaseAuthority, At
<1>2. /\ TypeOK /\ PlaceInv(w) /\ FlagsHold(proc[w]) /\ ReportHolds(proc[w])
      /\ env \in Surroundings /\ "idle" \in Step
  BY DEF StoreInv, ProcInv, TypeOK, Step
<1>3. lock = w /\ proc[w].rev # Null
  BY <1>1, <1>2 DEF PlaceInv, Critical
<1>4. told \in Reports /\ Says(told, proc[w].did)
  <2>1. CASE proc[w].replaced
    BY <1>1, <1>2, <2>1, ProcFields DEF ReportHolds
  <2>2. CASE ~proc[w].replaced
    <3> DEFINE report == Report("effect_unknown", fs, "current_unchanged")
    <3>1. /\ report \in Reports /\ report.code = "effect_unknown" /\ report.fs = fs
          /\ report.domain = "current_unchanged"
      BY ReportTypes DEF Code, FsEffect, DomainEffect
    <3>2. told = report
      BY <2>2
    <3>3. proc[w].did # "advanced"
      BY <1>2, <2>2 DEF FlagsHold
    <3>4. fs = "unreferenced_revision" => proc[w].did \in {"renamed", "late"}
      BY <1>2, <3>3 DEF FlagsHold
    <3> HIDE DEF report, told
    <3> QED
      BY <3>1, <3>2, <3>3, <3>4 DEF Says
  <2> QED
    BY <2>1, <2>2
<1>5. \/ Goto(w, "idle") /\ lock' = Null /\ UNCHANGED env
      \/ /\ Fault /\ lock' \in {Null, lock}
         /\ proc' = [proc EXCEPT ![w].pc = "idle", ![w].report = told]
  BY <1>2 DEF ReleaseAuthority, TypeOK
<1> HIDE DEF told
<1>6. env' \in Surroundings /\ lock' \in Writer \cup {Null}
  BY <1>2, <1>3, <1>5, FaultKeeps
<1>7. /\ Steps(w) /\ proc'[w].pc = "idle" /\ SameCall(proc[w], proc'[w])
      /\ proc'[w].report \in {proc[w].report, told}
  <2>1. CASE Goto(w, "idle")
    BY <1>2, <2>1, GotoFields
  <2>2. CASE proc' = [proc EXCEPT ![w].pc = "idle", ![w].report = told]
    BY <1>2, <1>4, <2>2, AnswerFields, ZenonT(60)
  <2> QED
    BY <1>5, <2>1, <2>2
<1>8. FlagsHold(proc'[w])
  BY <1>2, <1>7, FlagsOf
<1>9. ReportHolds(proc'[w])
  BY <1>1, <1>2, <1>4, <1>7 DEF ReportHolds, SameCall
<1>10. PlaceInv(w)'
  <2>1. proc'[w].rev = proc[w].rev
    BY <1>7 DEF SameCall
  <2>2. Based(proc[w].rev)'
    BY <1>1, <1>2, <1>3, <2>1 DEF PlaceInv, Based, disk
  <2>3. budget'.ops # <<>>
    BY <1>1, <1>2, <1>3 DEF PlaceInv
  <2> QED
    BY <1>7, <2>1, <2>2, <2>3 DEF PlaceInv, PastReserve, Critical
<1>11. ProcInv(w)'
  BY <1>8, <1>9, <1>10 DEF ProcInv
<1> QED
  BY <1>1, <1>3, <1>6, <1>7, <1>11, LockStep

LEMMA CrashStep ==
    ASSUME StoreInv, NEW w \in Writer, Crash(w)
    PROVE  StoreInv'
<1>1. /\ UNCHANGED <<disk, budget, acked>> /\ proc' = [proc EXCEPT ![w] = Idle]
      /\ lock' = IF lock = w THEN Null ELSE lock
      /\ env' = [env EXCEPT !.crashes = @ - 1] /\ env.crashes > 0
  BY DEF Crash
<1>2. TypeOK
  BY DEF StoreInv
<1>3. Steps(w) /\ ProcInv(w)'
  BY <1>1, <1>2, IdleStep
<1>4. env' \in Surroundings /\ lock' \in Writer \cup {Null}
  BY <1>1, <1>2 DEF TypeOK, Surroundings
<1> QED
  BY <1>1, <1>3, <1>4, LockStep

-----------------------------------------------------------------------------
(* Staging, and the directory of a revision.                               *)

\* p is the process q, moved to x, with its flags, what it did and its report.
Work(p, q, x, renamed, replaced, did, report) ==
    /\ p \in Proc /\ p.pc = x /\ p.rev = q.rev
    /\ p.renamed = renamed /\ p.replaced = replaced /\ p.did = did /\ p.report = report

LEMMA WorkFields ==
    ASSUME NEW q \in Proc, NEW x \in Step, NEW d \in {"staged", "renamed", "advanced", "late"},
           NEW report \in Reports
    PROVE  /\ Work([q EXCEPT !.pc = x, !.did = d], q, x, q.renamed, q.replaced, d, q.report)
           /\ Work([q EXCEPT !.pc = x, !.did = d, !.report = report], q, x, q.renamed, q.replaced,
                   d, report)
           /\ Work([q EXCEPT !.pc = x, !.renamed = TRUE, !.did = d], q, x, TRUE, q.replaced, d,
                   q.report)
           /\ Work([q EXCEPT !.pc = x, !.replaced = TRUE, !.did = d], q, x, q.renamed, TRUE, d,
                   q.report)
<1>1. Work([q EXCEPT !.pc = x, !.did = d], q, x, q.renamed, q.replaced, d, q.report)
  BY DEF Proc, Work
<1>2. Work([q EXCEPT !.pc = x, !.did = d, !.report = report], q, x, q.renamed, q.replaced,
           d, report)
  BY DEF Proc, Work, Reports
<1>3. Work([q EXCEPT !.pc = x, !.renamed = TRUE, !.did = d], q, x, TRUE, q.replaced, d, q.report)
  BY DEF Proc, Work
<1>4. Work([q EXCEPT !.pc = x, !.replaced = TRUE, !.did = d], q, x, q.renamed, TRUE, d, q.report)
  BY DEF Proc, Work
<1> QED
  BY <1>1, <1>2, <1>3, <1>4

\* A number is one revision: it is reserved by one transaction, for one body,
\* and its predecessor is the one revision of the number before.
LEMMA NumberIsRevision ==
    ASSUME TypeOK, BudgetHolds(budget), FilesHold, NEW r \in Revision, Based(r),
           Reserves(budget, r), NEW x \in revs, x.num = r.num
    PROVE  x = r
<1>1. x \in Revision /\ Based(x) /\ Reserves(budget, x)
  BY DEF TypeOK, FilesHold, Started
<1>2. x.txn = r.txn /\ x.body = r.body
  BY <1>1 DEF BudgetHolds, OriginsHold, Reserves
<1>3. \A b \in revs : b.num \in Nat /\ b.num >= 1
  BY RevisionFields DEF TypeOK
<1>4. x.base = r.base
  <2>1. CASE r.num = 1
    BY <1>1, <1>3, <2>1 DEF Based
  <2>2. CASE r.num # 1
    BY <1>1, <2>2 DEF Based, FilesHold
  <2> QED
    BY <2>1, <2>2
<1> QED
  BY <1>1, <1>2, <1>4 DEF Revision

\* A step of the process that holds the authority: directories are added, and
\* the pointer stays or moves to its revision.
LEMMA InsideStep ==
    ASSUME StoreInv, NEW w \in Writer, proc[w].pc \in Critical,
           Steps(w), proc'[w].pc \in {"rename", "verify", "settle", "release"},
           proc'[w].rev = proc[w].rev, FlagsHold(proc'[w]), ReportHolds(proc'[w]),
           UNCHANGED <<lock, budget, acked>>, env' \in Surroundings, staging' \subseteq Permit,
           revs \subseteq revs', revs' \subseteq Revision, current' \in Revision \cup {Null},
           current # Null => current' # Null /\ current.num <= current'.num,
           proc'[w].pc = "settle" => current' = proc[w].rev, FilesHold'
    PROVE  StoreInv'
<1>1. TypeOK /\ PlaceInv(w) /\ AcksHold /\ lock = w
  BY DEF StoreInv, ProcInv, PlaceInv
<1>2. \A r \in Revision : r.num \in Nat
  BY RevisionFields
<1>3. current \in Revision \cup {Null}
  BY <1>1 DEF TypeOK
<1>4. ASSUME NEW r \in Revision, Based(r)
      PROVE  Based(r)'
  <2>1. CASE r.num = 1 /\ r.base = Null
    BY <2>1 DEF Based
  <2>2. CASE /\ current # Null /\ r.num <= current.num + 1
             /\ \E b \in revs : b.num = r.num - 1 /\ r.base = IdOf(b)
    <3>1. r.num <= current'.num + 1 /\ current' # Null
      BY <1>2, <1>3, <2>2
    <3>2. \E b \in revs' : b.num = r.num - 1 /\ r.base = IdOf(b)
      BY <2>2
    <3> QED
      BY <3>1, <3>2 DEF Based
  <2> QED
    BY <1>4, <2>1, <2>2 DEF Based
<1>5. FilesGrow(w)
  BY <1>1, <1>4 DEF FilesGrow
<1>6. AcksHold'
  <2>1. \A r \in acked : r \in Revision /\ r \in revs /\ current # Null /\ r.num <= current.num
                         /\ SettledFor(r)
    BY <1>1 DEF AcksHold, TypeOK
  <2>2. \A r \in acked : r \in revs' /\ current' # Null /\ r.num <= current'.num
    BY <1>2, <1>3, <2>1
  <2>3. \A r \in acked : SettledFor(r)'
    BY <2>1 DEF SettledFor
  <2> QED
    BY <2>2, <2>3 DEF AcksHold
<1>7. TypeOK'
  BY <1>1 DEF TypeOK, Steps
<1>8. PlaceInv(w)'
  <2>1. /\ proc[w].pc \in PastReserve \ {"start"} /\ proc[w].pc # "create"
        /\ proc[w].rev # Null /\ proc[w].rev \in Revision
    BY <1>1, ProcFields DEF Critical, PastReserve, PlaceInv
  <2>2. Based(proc[w].rev)'
    <3>1. PICK r \in Revision : r = proc[w].rev /\ r = proc'[w].rev /\ Based(r)
      BY <1>1, <2>1 DEF PlaceInv
    <3>2. Based(r)'
      BY <1>4, <3>1
    <3> QED
      BY <3>1, <3>2 DEF Based
  <2>3. /\ Reserves(budget, proc[w].rev) /\ Begun(budget, proc[w].rev.txn)
        /\ budget.ops # <<>>
    BY <1>1, <2>1 DEF PlaceInv
  <2> QED
    BY <1>1, <2>1, <2>2, <2>3 DEF PlaceInv
<1>9. ProcInv(w)'
  BY <1>8 DEF ProcInv
<1> QED
  BY <1>5, <1>6, <1>7, <1>9, FrameStep

LEMMA SameFiles ==
    ASSUME FilesHold, UNCHANGED <<current, revs>>, UNCHANGED budget
    PROVE  FilesHold'
<1>1. \A r \in revs : Based(r) => Based(r)'
  BY DEF Based
<1> QED
  BY <1>1 DEF FilesHold

LEMMA StageStep ==
    ASSUME StoreInv, NEW w \in Writer, StageRevision(w)
    PROVE  StoreInv'
<1> DEFINE q == proc[w]
           report == Report("effect_unknown", "staging_orphan", "current_unchanged")
           a == [q EXCEPT !.pc = "rename", !.did = "staged"]
           b == [q EXCEPT !.pc = "release", !.did = "staged", !.report = report]
<1>1. q.pc = "stage" /\ UNCHANGED <<current, revs, lock, budget, acked>>
  BY DEF StageRevision, At
<1>2. /\ TypeOK /\ PlaceInv(w) /\ FlagsHold(q) /\ q \in Proc /\ FilesHold
      /\ env \in Surroundings /\ current \in Revision \cup {Null} /\ revs \subseteq Revision
  BY ProcFields DEF StoreInv, ProcInv, TypeOK
<1>3. \/ /\ staging' = staging \cup {q.rev.txn} /\ UNCHANGED env
         /\ proc' = [proc EXCEPT ![w].pc = "rename", ![w].did = "staged"]
      \/ Breaks(w) /\ UNCHANGED staging /\ (Fault \/ UNCHANGED env)
      \/ /\ Fault /\ staging' = staging \cup {q.rev.txn}
         /\ proc' = [[proc EXCEPT ![w].pc = "release", ![w].did = "staged"]
                        EXCEPT ![w].report = report]
  BY DEF StageRevision
<1>4. /\ q.did = "nothing" /\ q.renamed = FALSE /\ q.replaced = FALSE /\ q.pc \in Critical
      /\ q.rev.txn \in Permit
  <2>1. q.rev \in Revision
    BY <1>1, <1>2, ProcFields DEF PlaceInv
  <2>2. q.did = "nothing" /\ ~q.renamed /\ ~q.replaced
    BY <1>1, <1>2 DEF FlagsHold
  <2> QED
    BY <1>1, <1>2, <2>1, <2>2, RevisionFields DEF Critical, Proc
<1>5. /\ report \in Reports /\ report.code = "effect_unknown" /\ report.fs = "staging_orphan"
      /\ report.domain = "current_unchanged"
  BY ReportTypes DEF Code, FsEffect, DomainEffect
<1>6. "rename" \in Step /\ "release" \in Step
  BY DEF Step
<1>7. Work(a, q, "rename", FALSE, FALSE, "staged", q.report)
  BY <1>2, <1>4, <1>5, <1>6, WorkFields, ZenonT(60)
<1> HIDE DEF report
<1>8. Work(b, q, "release", FALSE, FALSE, "staged", report)
  BY <1>2, <1>4, <1>5, <1>6, WorkFields
<1>9. FilesHold'
  BY <1>1, <1>2, SameFiles
<1>10. ASSUME NEW p \in {a, b}, proc' = [proc EXCEPT ![w] = p],
              staging' = staging \cup {q.rev.txn}, env' \in Surroundings
       PROVE  StoreInv'
  <2>1. /\ p \in Proc /\ p.pc \in {"rename", "release"} /\ p.rev = q.rev
        /\ p.renamed = FALSE /\ p.replaced = FALSE /\ p.did = "staged"
        /\ p.pc = "release" => p.report = report
    <3> HIDE DEF a, b
    <3> QED
      BY <1>7, <1>8, <1>10 DEF Work
  <2> HIDE DEF a, b
  <2>2. Steps(w) /\ proc'[w] = p
    BY <1>2, <1>10, <2>1, RecordStep
  <2>3. FlagsHold(p)
    BY <2>1 DEF FlagsHold
  <2>4. ReportHolds(p)
    BY <1>5, <2>1 DEF ReportHolds, Says
  <2>5. staging' \subseteq Permit
    BY <1>2, <1>4, <1>10 DEF TypeOK
  <2>6. current # Null => current.num \in Nat
    BY <1>2, RevisionFields
  <2>7. /\ proc'[w].pc \in {"rename", "release"} /\ proc'[w].rev = proc[w].rev
        /\ FlagsHold(proc'[w]) /\ ReportHolds(proc'[w])
    BY <2>1, <2>2, <2>3, <2>4
  <2>8. current # Null => current' # Null /\ current.num <= current'.num
    BY <1>1, <2>6
  <2>9. /\ revs \subseteq revs' /\ revs' \subseteq Revision /\ current' \in Revision \cup {Null}
        /\ UNCHANGED <<lock, budget, acked>>
    BY <1>1, <1>2
  <2>10. proc'[w].pc # "settle" /\ proc'[w].pc \in {"rename", "verify", "settle", "release"}
    BY <2>7
  <2> QED
    BY <1>4, <1>9, <1>10, <2>2, <2>5, <2>7, <2>8, <2>9, <2>10, InsideStep
<1>11. env' \in Surroundings
  BY <1>2, <1>3, FaultKeeps
<1>12. CASE /\ staging' = staging \cup {q.rev.txn}
            /\ proc' = [proc EXCEPT ![w].pc = "rename", ![w].did = "staged"]
  <2>1. proc' = [proc EXCEPT ![w] = a]
    BY <1>2, <1>12 DEF TypeOK
  <2> HIDE DEF a, b
  <2> QED
    BY <1>10, <1>11, <1>12, <2>1
<1>13. CASE Breaks(w) /\ UNCHANGED staging
  <2>1. BudgetHolds(budget') /\ Grows(budget, budget')
    BY <1>1, GrowsRefl DEF StoreInv
  <2>2. UNCHANGED <<disk, lock, acked>>
    BY <1>1, <1>13 DEF disk
  <2> QED
    BY <1>1, <1>11, <1>13, <2>1, <2>2, InsideBreaks
<1>14. CASE /\ staging' = staging \cup {q.rev.txn}
            /\ proc' = [[proc EXCEPT ![w].pc = "release", ![w].did = "staged"]
                           EXCEPT ![w].report = report]
  <2>1. proc' = [proc EXCEPT ![w] = b]
    BY <1>2, <1>14 DEF TypeOK
  <2> HIDE DEF a, b
  <2> QED
    BY <1>10, <1>11, <1>14, <2>1
<1> QED
  BY <1>3, <1>12, <1>13, <1>14 DEF report

LEMMA RenamedFiles ==
    ASSUME TypeOK, BudgetHolds(budget), FilesHold, NEW r \in Revision, Based(r),
           Started(budget, r), revs' = revs \cup {r}, UNCHANGED current, UNCHANGED budget
    PROVE  FilesHold'
<1>1. \A x \in revs : x.num = r.num => x = r
  BY NumberIsRevision DEF Started
<1>2. \A x : Based(x) => Based(x)'
  BY DEF Based
<1>3. \A x, y \in revs' : x.num = y.num => x = y
  BY <1>1 DEF FilesHold
<1>4. \A x \in revs' : Based(x)' /\ Started(budget, x)
  BY <1>2 DEF FilesHold
<1>5. current' # Null =>
        current' \in revs' /\ \A n \in 1..current'.num : \E x \in revs' : x.num = n
  BY DEF FilesHold
<1> QED
  BY <1>3, <1>4, <1>5 DEF FilesHold

\* The pointer moves to the revision that follows it.
LEMMA PointedFiles ==
    ASSUME TypeOK, FilesHold, NEW r \in revs, IdOf(current) = r.base, current' = r,
           UNCHANGED revs, UNCHANGED budget
    PROVE  /\ FilesHold' /\ current' # Null
           /\ current # Null => current.num <= current'.num
<1>1. r \in Revision /\ Based(r) /\ r # Null /\ r.num \in Nat
  BY RevisionFields DEF TypeOK, FilesHold
<1>2. current \in Revision \cup {Null}
  BY DEF TypeOK
<1>3. IF current = Null THEN r.num = 1 ELSE r.num = current.num + 1 /\ current.num \in Nat
  <2>1. CASE current = Null
    BY <1>1, <2>1 DEF Based
  <2>2. CASE current # Null
    <3>1. IdOf(current) # Null /\ IdOf(current).num = current.num /\ current.num \in Nat
      BY <1>2, <2>2, RevisionFields
    <3>2. PICK b \in revs : b.num = r.num - 1 /\ r.base = IdOf(b)
      BY <1>1, <3>1 DEF Based
    <3>3. IdOf(b).num = b.num
      BY <3>2, RevisionFields DEF TypeOK
    <3> QED
      BY <1>1, <2>2, <3>1, <3>2, <3>3
  <2> QED
    BY <2>1, <2>2
<1>4. \A x : x.num \in Nat /\ Based(x) => Based(x)'
  BY <1>1, <1>3 DEF Based
<1>5. \A x \in revs : x.num \in Nat
  BY RevisionFields DEF TypeOK
<1>6. \A x \in revs' : Based(x)' /\ Started(budget, x)
  BY <1>4, <1>5 DEF FilesHold
<1>7. \A n \in 1..current'.num : \E x \in revs' : x.num = n
  <2>1. CASE current = Null
    BY <1>1, <1>3, <2>1
  <2>2. CASE current # Null
    BY <1>1, <1>3, <2>2 DEF FilesHold
  <2> QED
    BY <2>1, <2>2
<1>8. FilesHold'
  BY <1>1, <1>6, <1>7 DEF FilesHold
<1> QED
  BY <1>1, <1>3, <1>8

LEMMA WorkStep ==
    ASSUME StoreInv, NEW w \in Writer, NEW p, p \in Proc, proc' = [proc EXCEPT ![w] = p],
           p.rev = proc[w].rev, p.pc \in {"rename", "verify", "settle", "release"},
           FlagsHold(p), ReportHolds(p), proc[w].pc \in Critical,
           UNCHANGED <<lock, budget, acked>>, env' \in Surroundings, staging' \subseteq Permit,
           revs \subseteq revs', revs' \subseteq Revision, current' \in Revision \cup {Null},
           current # Null => current' # Null /\ current.num <= current'.num,
           p.pc = "settle" => current' = proc[w].rev, FilesHold'
    PROVE  StoreInv'
<1>1. TypeOK
  BY DEF StoreInv
<1>2. Steps(w) /\ proc'[w] = p
  BY <1>1, RecordStep
<1>3. /\ proc'[w].pc \in {"rename", "verify", "settle", "release"}
      /\ proc'[w].rev = proc[w].rev /\ FlagsHold(proc'[w]) /\ ReportHolds(proc'[w])
      /\ proc'[w].pc = "settle" => current' = proc[w].rev
  BY <1>2
<1> QED
  BY <1>2, <1>3, InsideStep

LEMMA RenameStep ==
    ASSUME StoreInv, NEW w \in Writer, RenameRevision(w)
    PROVE  StoreInv'
<1> DEFINE q == proc[w]
           r == q.rev
           report == Report("effect_unknown", "staging_orphan", "current_unchanged")
           a == [q EXCEPT !.pc = "verify", !.renamed = TRUE, !.did = "renamed"]
           b == [q EXCEPT !.pc = "release", !.did = "renamed", !.report = report]
<1>1. q.pc = "rename" /\ UNCHANGED <<current, lock, budget, acked>>
  BY DEF RenameRevision, At
<1>2. /\ TypeOK /\ PlaceInv(w) /\ FlagsHold(q) /\ q \in Proc /\ FilesHold /\ BudgetHolds(budget)
      /\ env \in Surroundings /\ current \in Revision \cup {Null} /\ revs \subseteq Revision
  BY ProcFields DEF StoreInv, ProcInv, TypeOK
<1>3. \/ /\ Renamed(r) /\ UNCHANGED env
         /\ proc' = [proc EXCEPT ![w].pc = "verify", ![w].renamed = TRUE, ![w].did = "renamed"]
      \/ Breaks(w) /\ UNCHANGED <<revs, staging>> /\ (Fault \/ UNCHANGED env)
      \/ /\ Fault /\ Renamed(r)
         /\ proc' = [proc EXCEPT ![w].pc = "release", ![w].did = "renamed", ![w].report = report]
  BY DEF RenameRevision
<1>4. /\ q.renamed = FALSE /\ q.replaced = FALSE /\ q.pc \in Critical
      /\ r \in Revision /\ Based(r) /\ Started(budget, r)
  <2>1. r \in Revision /\ Based(r) /\ Started(budget, r)
    BY <1>1, <1>2, ProcFields DEF PlaceInv, PastReserve, Started
  <2>2. ~q.renamed /\ ~q.replaced
    BY <1>1, <1>2 DEF FlagsHold
  <2> QED
    BY <1>1, <1>2, <2>1, <2>2 DEF Critical, Proc
<1>5. /\ report \in Reports /\ report.code = "effect_unknown" /\ report.fs = "staging_orphan"
      /\ report.domain = "current_unchanged"
  BY ReportTypes DEF Code, FsEffect, DomainEffect
<1>6. "verify" \in Step /\ "release" \in Step
  BY DEF Step
<1>7. Work(a, q, "verify", TRUE, FALSE, "renamed", q.report)
  BY <1>2, <1>4, <1>5, <1>6, WorkFields, ZenonT(60)
<1> HIDE DEF report
<1>8. Work(b, q, "release", FALSE, FALSE, "renamed", report)
  BY <1>2, <1>4, <1>5, <1>6, WorkFields
<1>9. env' \in Surroundings
  BY <1>2, <1>3, FaultKeeps
<1>10. ASSUME NEW p \in {a, b}, proc' = [proc EXCEPT ![w] = p], Renamed(r)
       PROVE  StoreInv'
  <2>1. /\ p \in Proc /\ p.pc \in {"verify", "release"} /\ p.rev = q.rev
        /\ p.replaced = FALSE /\ p.did = "renamed"
        /\ p.pc = "verify" => p.renamed = TRUE
        /\ p.pc = "release" => p.report = report
    <3> HIDE DEF a, b
    <3> QED
      BY <1>7, <1>8, <1>10 DEF Work
  <2> HIDE DEF a, b
  <2>2. FlagsHold(p)
    BY <2>1 DEF FlagsHold
  <2>3. ReportHolds(p)
    BY <1>5, <2>1 DEF ReportHolds, Says
  <2>4. /\ revs' = revs \cup {r} /\ staging' \subseteq Permit /\ revs' \subseteq Revision
        /\ revs \subseteq revs' /\ current' = current
    BY <1>1, <1>2, <1>4, <1>10 DEF Renamed, TypeOK
  <2>5. FilesHold'
    BY <1>1, <1>2, <1>4, <2>4, RenamedFiles
  <2>6. current # Null => current' # Null /\ current.num <= current'.num
    BY <1>2, <2>4, RevisionFields
  <2>7. p.pc \in {"rename", "verify", "settle", "release"} /\ p.pc # "settle"
    BY <2>1
  <2>8. UNCHANGED <<lock, budget, acked>> /\ current' \in Revision \cup {Null}
    BY <1>1, <1>2
  <2> QED
    BY <1>4, <1>9, <1>10, <2>1, <2>2, <2>3, <2>4, <2>5, <2>6, <2>7, <2>8, WorkStep
<1>11. CASE /\ Renamed(r)
            /\ proc' = [proc EXCEPT ![w].pc = "verify", ![w].renamed = TRUE, ![w].did = "renamed"]
  <2>1. proc' = [proc EXCEPT ![w] = a]
    BY <1>2, <1>11 DEF TypeOK
  <2> HIDE DEF a, b
  <2> QED
    BY <1>10, <1>11, <2>1
<1>12. CASE Breaks(w) /\ UNCHANGED <<revs, staging>>
  <2>1. BudgetHolds(budget') /\ Grows(budget, budget')
    BY <1>1, GrowsRefl DEF StoreInv
  <2>2. UNCHANGED <<disk, lock, acked>>
    BY <1>1, <1>12 DEF disk
  <2> QED
    BY <1>1, <1>9, <1>12, <2>1, <2>2, InsideBreaks
<1>13. CASE /\ Renamed(r)
            /\ proc' = [proc EXCEPT ![w].pc = "release", ![w].did = "renamed", ![w].report = report]
  <2>1. proc' = [proc EXCEPT ![w] = b]
    BY <1>2, <1>13 DEF TypeOK
  <2> HIDE DEF a, b
  <2> QED
    BY <1>10, <1>13, <2>1
<1> QED
  BY <1>3, <1>11, <1>12, <1>13 DEF report

LEMMA ReplaceStep ==
    ASSUME StoreInv, NEW w \in Writer, ReplaceCurrent(w)
    PROVE  StoreInv'
<1> DEFINE q == proc[w]
           r == q.rev
           report == Report("durability_unconfirmed", "unreferenced_revision", "current_unchanged")
           a == [q EXCEPT !.pc = "settle", !.replaced = TRUE, !.did = "advanced"]
           b == [q EXCEPT !.pc = "release", !.did = "late", !.report = report]
<1>1. q.pc = "replace" /\ UNCHANGED <<revs, staging, lock, budget, acked>>
  BY DEF ReplaceCurrent, At
<1>2. /\ TypeOK /\ PlaceInv(w) /\ FlagsHold(q) /\ q \in Proc /\ FilesHold
      /\ env \in Surroundings /\ revs \subseteq Revision /\ staging \subseteq Permit
  BY ProcFields DEF StoreInv, ProcInv, TypeOK
<1>3. \/ /\ current' = r /\ UNCHANGED env
         /\ proc' = [proc EXCEPT ![w].pc = "settle", ![w].replaced = TRUE, ![w].did = "advanced"]
      \/ Breaks(w) /\ UNCHANGED current /\ (Fault \/ UNCHANGED env)
      \/ /\ Fault /\ current' = r
         /\ proc' = [proc EXCEPT ![w].pc = "release", ![w].did = "late", ![w].report = report]
  BY DEF ReplaceCurrent
<1>4. /\ q.renamed = TRUE /\ q.replaced = FALSE /\ q.pc \in Critical
      /\ r \in revs /\ IdOf(current) = r.base
  <2>1. q.renamed /\ ~q.replaced
    BY <1>1, <1>2 DEF FlagsHold
  <2> QED
    BY <1>1, <1>2, <2>1 DEF Critical, Proc, PlaceInv
<1>5. /\ report \in Reports /\ report.code = "durability_unconfirmed"
      /\ report.fs = "unreferenced_revision" /\ report.domain = "current_unchanged"
  BY ReportTypes DEF Code, FsEffect, DomainEffect
<1>6. "settle" \in Step /\ "release" \in Step
  BY DEF Step
<1>7. Work(a, q, "settle", TRUE, TRUE, "advanced", q.report)
  BY <1>2, <1>4, <1>5, <1>6, WorkFields, ZenonT(60)
<1> HIDE DEF report
<1>8. Work(b, q, "release", TRUE, FALSE, "late", report)
  BY <1>2, <1>4, <1>5, <1>6, WorkFields
<1>9. env' \in Surroundings
  BY <1>2, <1>3, FaultKeeps
<1>10. ASSUME NEW p \in {a, b}, proc' = [proc EXCEPT ![w] = p], current' = r
       PROVE  StoreInv'
  <2>1. /\ p \in Proc /\ p.pc \in {"settle", "release"} /\ p.rev = q.rev /\ p.renamed = TRUE
        /\ p.pc = "settle" => p.replaced = TRUE /\ p.did = "advanced"
        /\ p.pc = "release" => p.report = report /\ p.replaced = FALSE /\ p.did = "late"
    <3> HIDE DEF a, b
    <3> QED
      BY <1>7, <1>8, <1>10 DEF Work
  <2> HIDE DEF a, b
  <2>2. FlagsHold(p)
    BY <2>1 DEF FlagsHold
  <2>3. ReportHolds(p)
    BY <1>5, <2>1 DEF ReportHolds, Says
  <2>4. /\ FilesHold' /\ current' # Null
        /\ current # Null => current' # Null /\ current.num <= current'.num
    BY <1>1, <1>2, <1>4, <1>10, PointedFiles
  <2>5. /\ revs \subseteq revs' /\ revs' \subseteq Revision /\ staging' \subseteq Permit
        /\ UNCHANGED <<lock, budget, acked>> /\ current' \in Revision \cup {Null}
    BY <1>1, <1>2, <1>4, <1>10
  <2>6. p.pc \in {"rename", "verify", "settle", "release"}
    BY <2>1
  <2> QED
    BY <1>4, <1>9, <1>10, <2>1, <2>2, <2>3, <2>4, <2>5, <2>6, WorkStep
<1>11. CASE /\ current' = r
            /\ proc' = [proc EXCEPT ![w].pc = "settle", ![w].replaced = TRUE, ![w].did = "advanced"]
  <2>1. proc' = [proc EXCEPT ![w] = a]
    BY <1>2, <1>11 DEF TypeOK
  <2> HIDE DEF a, b
  <2> QED
    BY <1>10, <1>11, <2>1
<1>12. CASE Breaks(w) /\ UNCHANGED current
  <2>1. BudgetHolds(budget') /\ Grows(budget, budget')
    BY <1>1, GrowsRefl DEF StoreInv
  <2>2. UNCHANGED <<disk, lock, acked>>
    BY <1>1, <1>12 DEF disk
  <2> QED
    BY <1>1, <1>9, <1>12, <2>1, <2>2, InsideBreaks
<1>13. CASE /\ current' = r
            /\ proc' = [proc EXCEPT ![w].pc = "release", ![w].did = "late", ![w].report = report]
  <2>1. proc' = [proc EXCEPT ![w] = b]
    BY <1>2, <1>13 DEF TypeOK
  <2> HIDE DEF a, b
  <2> QED
    BY <1>10, <1>13, <2>1
<1> QED
  BY <1>3, <1>11, <1>12, <1>13 DEF report

-----------------------------------------------------------------------------
(* The theorems.                                                           *)

LEMMA BlankHolds == BudgetHolds(Blank)
<1>1. /\ Blank.ops = <<>> /\ Blank.permit = [p \in Permit |-> "none"]
      /\ Blank.settled = [p \in Permit |-> "none"]
      /\ \A p \in Permit : Blank.attempt[p].status = "none"
  BY DEF Blank
<1>2. Active(Blank) = {} /\ Settled(Blank) = {} /\ Attempted(Blank) = {}
  BY <1>1 DEF Active, Settled, Attempted
<1>3. Balanced(Blank) /\ OriginsHold(Blank) /\ SettlementsHold(Blank)
  BY <1>1, <1>2 DEF Balanced, OriginsHold, SettlementsHold, Closed
<1>4. DOMAIN Blank.ops = {}
  BY <1>1
<1> QED
  BY <1>1, <1>3, <1>4, BlankIsSnapshot DEF BudgetHolds

LEMMA InitHolds ==
    ASSUME Init
    PROVE  StoreInv
<1>1. TypeOK
  BY IdleFields, BlankIsSnapshot, TerminalAssumption DEF Init, TypeOK
<1>2. BudgetHolds(budget) /\ FilesHold /\ AcksHold
  BY BlankHolds DEF Init, FilesHold, AcksHold
<1>3. ASSUME NEW w \in Writer
      PROVE  ProcInv(w)
  <2>1. proc[w] = Idle
    BY DEF Init
  <2>2. FlagsHold(Idle) /\ ReportHolds(Idle)
    BY IdleFields, IdleHolds
  <2>3. PlaceInv(w)
    BY <2>1, IdleFields DEF PlaceInv, PastReserve, Critical
  <2> QED
    BY <2>1, <2>2, <2>3 DEF ProcInv
<1> QED
  BY <1>1, <1>2, <1>3 DEF StoreInv

LEMMA StutterHolds ==
    ASSUME StoreInv, UNCHANGED vars
    PROVE  StoreInv'
<1>1. /\ UNCHANGED <<current, revs>> /\ UNCHANGED budget
      /\ UNCHANGED <<current, revs, staging, lock, budget, proc, acked, env>>
  BY DEF vars
<1>2. FilesHold'
  BY <1>1, SameFiles DEF StoreInv
<1>3. AcksHold'
  BY <1>1 DEF StoreInv, AcksHold, SettledFor
<1>4. \A w \in Writer : ProcInv(w)'
  BY <1>1 DEF StoreInv, ProcInv, PlaceInv, Based, FlagsHold, ReportHolds
<1> QED
  BY <1>1, <1>2, <1>3, <1>4 DEF StoreInv, TypeOK, BudgetHolds

LEMMA NextHolds ==
    ASSUME StoreInv, [Next]_vars
    PROVE  StoreInv'
<1>1. CASE UNCHANGED vars
  BY <1>1, StutterHolds
<1>2. ASSUME NEW w \in Writer,
             \/ ObserveRun(w) \/ CreateBudget(w) \/ FreezeBinding(w) \/ RepeatPublish(w)
             \/ ReserveBudget(w) \/ StartBudget(w) \/ AcquireAuthority(w) \/ AdmitCurrent(w)
             \/ VerifyAuthority(w) \/ StageRevision(w) \/ RenameRevision(w) \/ VerifyRevision(w)
             \/ ReplaceCurrent(w) \/ SettleBudget(w) \/ ConfirmPublication(w)
             \/ ReleaseBudget(w) \/ ReleaseAuthority(w) \/ Crash(w)
      PROVE  StoreInv'
  <2>1. CASE ObserveRun(w) \/ CreateBudget(w) \/ FreezeBinding(w) \/ RepeatPublish(w)
    BY <2>1, ObserveStep, CreateStep, FreezeStep, RepeatStep
  <2>2. CASE ReserveBudget(w) \/ StartBudget(w) \/ AcquireAuthority(w) \/ AdmitCurrent(w)
    BY <2>2, ReserveStep, StartStep, AcquireStep, AdmitCurrentStep
  <2>3. CASE VerifyAuthority(w) \/ StageRevision(w) \/ RenameRevision(w) \/ VerifyRevision(w)
    BY <2>3, VerifyAuthorityStep, StageStep, RenameStep, VerifyRevisionStep
  <2>4. CASE ReplaceCurrent(w) \/ SettleBudget(w) \/ ConfirmPublication(w)
    BY <2>4, ReplaceStep, SettleStep, ConfirmStep
  <2>5. CASE ReleaseBudget(w) \/ ReleaseAuthority(w) \/ Crash(w)
    BY <2>5, ReleaseStep, UnlockStep, CrashStep
  <2> QED
    BY <1>2, <2>1, <2>2, <2>3, <2>4, <2>5
<1> QED
  BY <1>1, <1>2 DEF Next

LEMMA Invariant == Spec => []StoreInv
<1>1. Init => StoreInv
  BY InitHolds
<1>2. StoreInv /\ [Next]_vars => StoreInv'
  BY NextHolds
<1> QED
  BY <1>1, <1>2, PTL DEF Spec

\* The files, the budget, the processes and their reports keep their shape.
THEOREM TypeCorrect == Spec => []TypeOK
<1>1. StoreInv => TypeOK
  BY DEF StoreInv
<1> QED
  BY <1>1, Invariant, PTL

\* Through every failure and crash, and however publications of several
\* processes interleave, read_current can walk from current.json to revision
\* one, nothing unreferenced shares a number with what was published, and a
\* confirmed publication stays in that chain with its permit settled for it.
THEOREM PublicationsHold == Spec => []PublicationsStay
<1>1. ASSUME StoreInv
      PROVE  PublicationsStay
  <2>1. TypeOK /\ FilesHold /\ AcksHold /\ FileTypes
    BY <1>1 DEF StoreInv, TypeOK, FileTypes
  <2>2. ChainIntact
    BY <2>1, WalkIsChain DEF ChainIntact
  <2>3. AckedStays
    BY <2>1, WalkIsChain DEF AckedStays, AcksHold
  <2> QED
    BY <2>2, <2>3 DEF PublicationsStay
<1> QED
  BY <1>1, Invariant, PTL

\* While the budget root has no settlement for the current pointer, its permit
\* stays started: the run's one slot is neither released as unused nor settled
\* for another publication (publish, DurableBudgetCoordinator).
THEOREM DoubtHolds == Spec => []DoubtKeepsItsPermit
<1>1. ASSUME StoreInv
      PROVE  DoubtKeepsItsPermit
  <2>1. SUFFICES ASSUME current # Null, ~RecordedExactly(budget, SettlePermit(current))
                 PROVE  budget.permit[current.txn] = "started"
    BY DEF DoubtKeepsItsPermit
  <2>2. current \in Revision /\ Started(budget, current) /\ BudgetHolds(budget)
    BY <1>1, <2>1 DEF StoreInv, TypeOK, FilesHold
  <2>3. /\ current.txn \in Permit /\ current.num \in Nat
        /\ IdOf(current) = [txn |-> current.txn, body |-> current.body, num |-> current.num]
        /\ SettlePermit(current) = SettlePermit(IdOf(current))
    BY <2>1, <2>2, RevisionFields, RequestsOf DEF IdOf
  <2>4. ASSUME Closed(budget, current.txn)
        PROVE  FALSE
    <3>1. PICK r \in PointerId : /\ r.txn = current.txn /\ Reserves(budget, r)
                                 /\ RecordedExactly(budget, SettlePermit(r))
      BY <2>2, <2>3, <2>4 DEF BudgetHolds, SettlementsHold
    <3>2. r.num \in Nat
      BY TerminalAssumption DEF PointerId, Number
    <3>3. r.body = current.body /\ r.num = current.num
      BY <2>2, <2>3, <3>1, <3>2 DEF Started, Reserves
    <3>4. r = IdOf(current)
      BY <2>3, <3>1, <3>3 DEF PointerId
    <3> QED
      BY <2>1, <2>3, <3>1, <3>4
  <2> QED
    BY <2>2, <2>4 DEF Started, Begun
<1> QED
  BY <1>1, Invariant, PTL

\* An answer of publish never denies an advance of the pointer that the call
\* made, nor claims one it did not make, but for the two cases that the
\* property names: a failed reread and an os.replace that failed after its effect.
THEOREM ReportsAreTrue == Spec => []ReportsTruthful
<1>1. ASSUME StoreInv
      PROVE  ReportsTruthful
  <2>1. ASSUME NEW w \in Writer, At(w, "idle"), proc[w].report.code # "run_corrupt"
        PROVE  Says(proc[w].report, proc[w].did)
    BY <1>1, <2>1 DEF StoreInv, ProcInv, ReportHolds, At
  <2> QED
    BY <2>1 DEF ReportsTruthful, Says
<1> QED
  BY <1>1, Invariant, PTL
==============================================================================

------------------------- MODULE DurableBudgetProofs -------------------------
(***************************************************************************)
(* Proofs about DurableBudget, for any number of processes, permits,       *)
(* requests, failures and restarts.                                        *)
(***************************************************************************)
EXTENDS DurableBudget, BudgetStateProofs, FiniteSetTheorems, WellFoundedInduction

-----------------------------------------------------------------------------
(* Type correctness.                                                       *)

ClockType ==
    /\ last \in [Client -> Reading \cup {Null}]
    /\ pending \in [Client -> Reading \cup {Null}]
    /\ unsure \in SUBSET Client

LEMMA ClockStepType ==
    ASSUME ClockType, NEW c \in Client, NEW v \in Reading,
           Observe(c, v) \/ Commit(c, v) \/ Rebase(c) \/ UNCHANGED local
    PROVE  ClockType'
  BY DEF ClockType, Observe, Commit, Rebase, local

LEMMA ElapsedType ==
    ASSUME ClockType, NEW c \in Client, NEW q \in Request, NEW v \in Reading, NotBefore(c, v)
    PROVE  Elapsed(c, q, v) \in Nat
<1>1. last[c] \in Reading \cup {Null}
  BY DEF ClockType
<1>2. last[c] # Null => last[c] \in 0..MaxClock /\ v \in 0..MaxClock /\ last[c] <= v
  BY <1>1 DEF NotBefore, Reading
<1> QED
  BY <1>2, BudgetAssumption DEF Elapsed

\* What a step does to the calls in progress.
WorkStep(c) ==
    \/ work' = work
    \/ Done(c)
    \/ ~Idle(c) /\ work' = [work EXCEPT ![c].stage = "store"] /\ st' = st
    \/ \E q \in Request, v \in Reading : Prepare(c, q, v)

\* Every step seen from outside: at most one append, at most one call moves,
\* one clock moves, and the counters count.
LEMMA StepShape ==
    ASSUME TypeOK, NEW c \in Client,
           Call(c) \/ Publish(c) \/ Restart(c) \/ ExplicitRebase(c) \/ ResumeRefused(c)
           \/ \E v \in Reading : Resume(c, v)
    PROVE  /\ UNCHANGED <<st, loadable>> \/ (~Idle(c) /\ AppendNext(c) /\ Done(c))
           /\ WorkStep(c)
           /\ \/ UNCHANGED local
              \/ Rebase(c)
              \/ unsure' = unsure \cup {c} /\ UNCHANGED <<last, pending>>
              \/ \E v \in Reading : Observe(c, v) \/ Commit(c, v)
           /\ env' \in Surroundings
<1>1. \A d \in Client : ~Idle(d) => work[d] \in Work /\ work[d].at \in Reading
  BY DEF TypeOK, Idle, Work
<1>2. /\ env \in Surroundings
      /\ Fault => env' \in Surroundings
      /\ env.restarts > 0 => [env EXCEPT !.restarts = @ - 1] \in Surroundings
  BY DEF TypeOK, Fault, Surroundings
<1>3. CASE Call(c)
  <2>1. PICK q \in Request, v \in Reading :
          \/ ClockRollback(c, q, v) \/ LoadFails(c, q, v) \/ Replay(c, q, v)
          \/ KeyReused(c, q, v) \/ Refuse(c, q, v) \/ Prepare(c, q, v)
    BY <1>3 DEF Call
  <2>2. CASE ClockRollback(c, q, v)
    BY <1>2, <2>2 DEF ClockRollback, WorkStep, local
  <2>3. CASE LoadFails(c, q, v)
    BY <1>2, <2>3 DEF LoadFails, WorkStep, local
  <2>4. CASE Replay(c, q, v)
    BY <1>2, <2>4 DEF Replay, WorkStep, local
  <2>5. CASE KeyReused(c, q, v)
    BY <1>2, <2>5 DEF KeyReused, WorkStep, local
  <2>6. CASE Refuse(c, q, v)
    BY <1>2, <2>6 DEF Refuse, WorkStep, local
  <2>7. CASE Prepare(c, q, v)
    <3>1. WorkStep(c)
      BY <2>7 DEF WorkStep
    <3> QED
      BY <1>2, <2>7, <3>1 DEF Prepare
  <2> QED
    BY <2>1, <2>2, <2>3, <2>4, <2>5, <2>6, <2>7
<1>4. CASE Publish(c)
  <2>1. CASE CheckCurrent(c)
    BY <1>2, <2>1 DEF CheckCurrent, WorkStep, local
  <2>2. CASE CheckMoved(c)
    BY <1>1, <1>2, <2>2 DEF CheckMoved, WorkStep, local
  <2>3. CASE PublishApplied(c)
    BY <1>1, <1>2, <2>3 DEF PublishApplied, WorkStep
  <2>4. CASE PublishUncertain(c)
    BY <1>2, <2>4 DEF PublishUncertain, WorkStep
  <2>5. CASE PublishFails(c)
    BY <1>2, <2>5 DEF PublishFails, WorkStep, local
  <2>6. CASE PublishCommitted(c)
    BY <1>1, <1>2, <2>6 DEF PublishCommitted, WorkStep, local
  <2>7. CASE PublishRefused(c)
    BY <1>2, <2>7 DEF PublishRefused, WorkStep, local
  <2> QED
    BY <1>4, <2>1, <2>2, <2>3, <2>4, <2>5, <2>6, <2>7 DEF Publish
<1>5. CASE Restart(c)
  BY <1>2, <1>5 DEF Restart, WorkStep
<1>6. CASE ExplicitRebase(c)
  BY <1>2, <1>6 DEF ExplicitRebase, WorkStep
<1>7. CASE ResumeRefused(c)
  BY <1>2, <1>7 DEF ResumeRefused, WorkStep
<1>8. CASE \E v \in Reading : Resume(c, v)
  BY <1>2, <1>8 DEF Resume, WorkStep
<1> QED
  BY <1>3, <1>4, <1>5, <1>6, <1>7, <1>8

Answers == [req : Request \cup {Null}, code : Code]

LEMMA AnswerShape ==
    ASSUME TypeOK, NEW c \in Client,
           Call(c) \/ Publish(c) \/ Restart(c) \/ ExplicitRebase(c) \/ ResumeRefused(c)
           \/ \E v \in Reading : Resume(c, v)
    PROVE  answer' \in Answers
<1>1. Silent => answer' \in Answers
  BY DEF Silent, NoAnswer, Answers, Code
<1>2. \A q \in Request : \A k \in Code : Answer(q, k) => answer' \in Answers
  BY DEF Answer, Answers
<1>3. ~Idle(c) => work[c].req \in Request
  BY DEF TypeOK, Idle, Work
<1>4. "replay" \in Code /\ "applied" \in Code /\ "conflict" \in Code
  BY DEF Code
<1>5. CASE Call(c)
  BY <1>1, <1>2, <1>4, <1>5 DEF Call, ClockRollback, LoadFails, Replay, KeyReused, Refuse, Prepare
<1>6. CASE Publish(c)
  <2>1. CASE CheckMoved(c)
    BY <1>1, <1>2, <1>3, <1>4, <2>1 DEF CheckMoved
  <2>2. CASE CheckCurrent(c) \/ PublishApplied(c) \/ PublishUncertain(c) \/ PublishFails(c)
    BY <1>1, <1>2, <1>3, <1>4, <2>2 DEF CheckCurrent, PublishApplied, PublishUncertain,
         PublishFails
  <2>3. CASE PublishCommitted(c) \/ PublishRefused(c)
    BY <1>1, <1>2, <1>3, <1>4, <2>3 DEF PublishCommitted, PublishRefused
  <2> QED
    BY <1>6, <2>1, <2>2, <2>3 DEF Publish
<1>7. CASE Restart(c) \/ ExplicitRebase(c) \/ ResumeRefused(c) \/ \E v \in Reading : Resume(c, v)
  BY <1>1, <1>7 DEF Restart, ExplicitRebase, ResumeRefused, Resume
<1> QED
  BY <1>5, <1>6, <1>7

\* A prepared call is typed, and built on the snapshot its client loaded.
LEMMA PreparedWork ==
    ASSUME TypeOK, NEW c \in Client, NEW q \in Request, NEW v \in Reading, Prepare(c, q, v)
    PROVE  /\ Elapsed(c, q, v) \in Nat
           /\ Successor(st, q, Elapsed(c, q, v))
           /\ \E w \in Work : /\ work' = [work EXCEPT ![c] = w]
                              /\ w.req = q
                              /\ w.next = Apply(st, q, Elapsed(c, q, v))
           /\ st' = st
<1> DEFINE el == Elapsed(c, q, v)
           n == Apply(st, q, el)
           g == IF q.kind = "initialize" THEN "store" ELSE "check"
           w == [req |-> q, at |-> v, next |-> n, stage |-> g]
<1>1. el \in Nat
  BY ElapsedType DEF Prepare, Fresh, TypeOK, ClockType
<1> HIDE DEF el
<1>2. n \in Snapshot
  BY <1>1, ApplyEffect DEF Effect, TypeOK
<1>3. g \in {"check", "store"}
  OBVIOUS
<1>4. work' = [work EXCEPT ![c] = w] /\ st' = st /\ Successor(st, q, el)
  BY DEF Prepare, el
<1> HIDE DEF n, g
<1>5. w \in Work /\ w.req = q /\ w.next = n
  BY <1>2, <1>3 DEF Work
<1> QED
  BY <1>1, <1>4, <1>5 DEF el, n

LEMMA WorkStepType ==
    ASSUME TypeOK, NEW c \in Client, WorkStep(c)
    PROVE  work' \in [Client -> Work \cup {Null}]
<1>1. work \in [Client -> Work \cup {Null}]
  BY DEF TypeOK
<1>2. CASE work' = work
  BY <1>1, <1>2
<1>3. CASE Done(c)
  BY <1>1, <1>3 DEF Done
<1>4. CASE ~Idle(c) /\ work' = [work EXCEPT ![c].stage = "store"] /\ st' = st
  <2>1. work[c] \in Work
    BY <1>1, <1>4 DEF Idle
  <2>2. [work[c] EXCEPT !.stage = "store"] \in Work
    BY <2>1 DEF Work
  <2>3. work' = [work EXCEPT ![c] = [work[c] EXCEPT !.stage = "store"]]
    BY <1>4
  <2> QED
    BY <1>1, <2>2, <2>3
<1>5. CASE \E q \in Request, v \in Reading : Prepare(c, q, v)
  BY <1>1, <1>5, PreparedWork
<1> QED
  BY <1>2, <1>3, <1>4, <1>5 DEF WorkStep

\* The store and the objects of its clients keep their shapes.
THEOREM TypeCorrect == Spec => []TypeOK
<1>1. Init => TypeOK
  BY BlankIsSnapshot, BudgetAssumption DEF Init, TypeOK, NoAnswer, Code
<1>2. TypeOK /\ [Next]_vars => TypeOK'
  <2>1. SUFFICES ASSUME TypeOK, [Next]_vars PROVE TypeOK'
    OBVIOUS
  <2>2. CASE UNCHANGED vars
    BY <2>1, <2>2 DEF TypeOK, vars
  <2>3. CASE Next
    <3>1. PICK c \in Client :
            Call(c) \/ Publish(c) \/ Restart(c) \/ ExplicitRebase(c) \/ ResumeRefused(c)
            \/ \E v \in Reading : Resume(c, v)
      BY <2>3 DEF Next
    <3>2. /\ UNCHANGED <<st, loadable>> \/ (~Idle(c) /\ AppendNext(c) /\ Done(c))
          /\ WorkStep(c)
          /\ \/ UNCHANGED local
             \/ Rebase(c)
             \/ unsure' = unsure \cup {c} /\ UNCHANGED <<last, pending>>
             \/ \E v \in Reading : Observe(c, v) \/ Commit(c, v)
          /\ env' \in Surroundings
      BY <2>1, <3>1, StepShape
    <3>3. answer' \in Answers
      BY <2>1, <3>1, AnswerShape
    <3>4. work' \in [Client -> Work \cup {Null}]
      BY <2>1, <3>2, WorkStepType
    <3>5. st' \in Snapshot
      BY <2>1, <3>2 DEF TypeOK, AppendNext, Idle, Work
    <3>6. loadable' \in BOOLEAN
      BY <2>1, <3>2 DEF TypeOK, AppendNext
    <3>7. /\ last' \in [Client -> Reading \cup {Null}]
          /\ pending' \in [Client -> Reading \cup {Null}]
          /\ unsure' \in SUBSET Client
      <4>1. 0 \in Reading
        BY BudgetAssumption DEF Reading
      <4>2. CASE UNCHANGED local \/ Rebase(c)
        BY <2>1, <4>1, <4>2, ClockStepType DEF ClockType, TypeOK
      <4>3. CASE unsure' = unsure \cup {c} /\ UNCHANGED <<last, pending>>
        BY <2>1, <4>3 DEF TypeOK
      <4>4. CASE \E v \in Reading : Observe(c, v) \/ Commit(c, v)
        BY <2>1, <4>4, ClockStepType DEF ClockType, TypeOK
      <4> QED
        BY <3>2, <4>2, <4>3, <4>4
    <3> QED
      BY <3>2, <3>3, <3>4, <3>5, <3>6, <3>7 DEF TypeOK, Answers
  <2> QED
    BY <2>1, <2>2, <2>3
<1> QED
  BY <1>1, <1>2, PTL DEF Spec

-----------------------------------------------------------------------------
(* The inductive invariant.  A prepared successor is either exactly what   *)
(* its request makes of the published snapshot, or already out of date, in *)
(* which case the comparison in the revision store turns it away.          *)

WorkInv(c) ==
    LET n == work[c].next
    IN  ~Idle(c) =>
          /\ Generation(n) # 0
          /\ n.ops[Generation(n)].req = work[c].req
          /\ Generation(n) <= Generation(st) + 1
          /\ Generation(n) = Generation(st) + 1 =>
               \E el \in Nat : /\ Successor(st, work[c].req, el)
                               /\ n = Apply(st, work[c].req, el)

BudgetInv == TypeOK /\ SnapInv(st) /\ \A c \in Client : WorkInv(c)

LEMMA LastOperation ==
    ASSUME NEW s \in Snapshot, NEW q \in Request, NEW el \in Nat
    PROVE  LET t == Apply(s, q, el)
           IN  /\ Generation(t) = Generation(s) + 1
               /\ t.ops[Generation(t)].req = q
               /\ \A i \in DOMAIN s.ops : i \in DOMAIN t.ops /\ t.ops[i] = s.ops[i]
<1> DEFINE o == s.ops
           e == [req |-> q, runtime |-> s.runtime + el]
<1>1. o \in Seq([req : Request, runtime : Nat]) /\ e \in [req : Request, runtime : Nat]
  BY DEF Snapshot, Operations
<1>2. Apply(s, q, el).ops = Append(o, e)
  BY ApplyEffect
<1>3. e.req = q
  OBVIOUS
<1> HIDE DEF o, e
<1>4. /\ Len(Append(o, e)) = Len(o) + 1
      /\ Append(o, e)[Len(o) + 1] = e
      /\ \A i \in DOMAIN o : i \in DOMAIN Append(o, e) /\ Append(o, e)[i] = o[i]
  BY <1>1
<1> QED
  BY <1>2, <1>3, <1>4 DEF Generation, o

\* The append of a prepared successor is an admitted operation.
LEMMA AppendIsStep ==
    ASSUME BudgetInv, NEW c \in Client, ~Idle(c), AppendNext(c)
    PROVE  /\ \E el \in Nat : /\ Successor(st, work[c].req, el)
                              /\ st' = Apply(st, work[c].req, el)
           /\ SnapInv(st')
           /\ \A p \in Permit : PermitStep(st, st', p)
           /\ st.latch # Null => st'.latch = st.latch /\ st'.policy = st.policy
           /\ Generation(st') = Generation(st) + 1
           /\ st'.ops[Generation(st')].req = work[c].req
<1>1. work[c].req \in Request /\ st \in Snapshot /\ SnapInv(st)
  BY DEF BudgetInv, TypeOK, Idle, Work
<1>2. PICK el \in Nat : /\ Successor(st, work[c].req, el)
                        /\ st' = Apply(st, work[c].req, el)
  BY DEF BudgetInv, WorkInv, AppendNext, Unchanged
<1>3. /\ Effect(st, st', work[c].req) /\ st'.ops # <<>>
  BY <1>1, <1>2, ApplyEffect
<1>4. Admits(st, work[c].req, el) /\ ValidSnapshot(st')
  BY <1>2 DEF Successor
<1>5. /\ \A p \in Permit : PermitStep(st, st', p)
      /\ st.latch # Null => st'.policy = st.policy
  BY <1>1, <1>3, <1>4, AdmittedStep
<1>6. SnapInv(st')
  BY <1>3, <1>5 DEF SnapInv, PermitStep
<1>7. /\ Generation(st') = Generation(st) + 1
      /\ st'.ops[Generation(st')].req = work[c].req
  BY <1>1, <1>2, LastOperation
<1> QED
  BY <1>2, <1>3, <1>5, <1>6, <1>7 DEF Effect

LEMMA InvInit == Init => BudgetInv
<1> SUFFICES ASSUME Init PROVE BudgetInv
  OBVIOUS
<1>1. TypeOK
  BY BlankIsSnapshot, BudgetAssumption DEF Init, TypeOK, NoAnswer, Code
<1>2. SnapInv(st)
  BY DEF Init, Blank, SnapInv, PermitInv
<1>3. \A c \in Client : WorkInv(c)
  BY DEF Init, WorkInv, Idle
<1> QED
  BY <1>1, <1>2, <1>3 DEF BudgetInv

LEMMA GenerationType ==
    ASSUME NEW s \in Snapshot
    PROVE  Generation(s) \in Nat /\ DOMAIN s.ops = 1..Generation(s)
<1>1. s.ops \in Seq([req : Request, runtime : Nat])
  BY DEF Snapshot, Operations
<1> QED
  BY <1>1 DEF Generation

LEMMA InvStep ==
    ASSUME BudgetInv, TypeOK', NEW c \in Client,
           Call(c) \/ Publish(c) \/ Restart(c) \/ ExplicitRebase(c) \/ ResumeRefused(c)
           \/ \E v \in Reading : Resume(c, v)
    PROVE  BudgetInv'
<1>1. TypeOK /\ SnapInv(st) /\ (\A d \in Client : WorkInv(d))
  BY DEF BudgetInv
<1>2. /\ UNCHANGED <<st, loadable>> \/ (~Idle(c) /\ AppendNext(c) /\ Done(c))
      /\ WorkStep(c)
  BY <1>1, StepShape
<1>3. work \in [Client -> Work \cup {Null}]
  BY <1>1 DEF TypeOK
<1>4. CASE st' = st
  <2> SUFFICES \A d \in Client : WorkInv(d)'
    BY <1>1, <1>4 DEF BudgetInv
  <2>1. ASSUME NEW d \in Client,
               work'[d] = Null \/ (~Idle(d) /\ work'[d].req = work[d].req
                                            /\ work'[d].next = work[d].next)
        PROVE  WorkInv(d)'
    BY <1>1, <1>4, <2>1 DEF WorkInv, Idle
  <2>2. ASSUME NEW d \in Client, work'[d] = work[d]
        PROVE  WorkInv(d)'
    BY <2>1, <2>2 DEF Idle
  <2>3. CASE work' = work
    BY <2>2, <2>3
  <2>4. CASE Done(c)
    BY <1>3, <2>1, <2>2, <2>4 DEF Done
  <2>5. CASE ~Idle(c) /\ work' = [work EXCEPT ![c].stage = "store"] /\ st' = st
    <3>1. work[c] \in Work
      BY <1>3, <2>5 DEF Idle
    <3>2. work'[c] = [work[c] EXCEPT !.stage = "store"]
      BY <1>3, <2>5
    <3>3. work'[c].req = work[c].req /\ work'[c].next = work[c].next
      BY <3>1, <3>2 DEF Work
    <3>4. \A d \in Client \ {c} : work'[d] = work[d]
      BY <1>3, <2>5
    <3> QED
      BY <2>1, <2>2, <2>5, <3>3, <3>4
  <2>6. ASSUME NEW q \in Request, NEW v \in Reading, Prepare(c, q, v)
        PROVE  \A d \in Client : WorkInv(d)'
    <3>1. PICK el \in Nat, w \in Work :
            /\ Successor(st, q, el)
            /\ work' = [work EXCEPT ![c] = w]
            /\ w.req = q /\ w.next = Apply(st, q, el)
      BY <1>1, <2>6, PreparedWork
    <3>2. /\ Generation(w.next) = Generation(st) + 1
          /\ w.next.ops[Generation(w.next)].req = q
      BY <1>1, <3>1, LastOperation DEF TypeOK
    <3>3. Generation(st) \in Nat
      BY <1>1, GenerationType DEF TypeOK
    <3>4. work'[c] = w /\ \A d \in Client \ {c} : work'[d] = work[d]
      BY <1>3, <3>1
    <3>5. WorkInv(c)'
      BY <1>4, <3>1, <3>2, <3>3, <3>4 DEF WorkInv
    <3> QED
      BY <2>2, <3>4, <3>5
  <2> QED
    BY <1>2, <2>3, <2>4, <2>5, <2>6 DEF WorkStep
<1>5. CASE ~Idle(c) /\ AppendNext(c) /\ Done(c)
  <2>1. SnapInv(st') /\ Generation(st') = Generation(st) + 1
    BY <1>5, AppendIsStep
  <2>2. ASSUME NEW d \in Client
        PROVE  WorkInv(d)'
    <3>1. work'[d] = Null \/ work'[d] = work[d]
      BY <1>3, <1>5 DEF Done
    <3>2. CASE work'[d] = Null
      BY <3>2 DEF WorkInv, Idle
    <3>3. CASE work'[d] = work[d] /\ work[d] # Null
      <4>1. work[d].next \in Snapshot
        BY <1>3, <3>3 DEF Work
      <4>2. Generation(work[d].next) \in Nat /\ Generation(st) \in Nat
        BY <1>1, <4>1, GenerationType DEF TypeOK
      <4>3. /\ Generation(work[d].next) # 0
            /\ work[d].next.ops[Generation(work[d].next)].req = work[d].req
            /\ Generation(work[d].next) <= Generation(st) + 1
        BY <1>1, <3>3 DEF WorkInv, Idle
      <4>4. /\ Generation(work[d].next) <= Generation(st') + 1
            /\ Generation(work[d].next) # Generation(st') + 1
        BY <2>1, <4>2, <4>3
      <4> QED
        BY <3>3, <4>3, <4>4 DEF WorkInv
    <3> QED
      BY <3>1, <3>2, <3>3
  <2> QED
    BY <2>1, <2>2 DEF BudgetInv
<1> QED
  BY <1>2, <1>4, <1>5

LEMMA InvNext == BudgetInv /\ TypeOK' /\ [Next]_vars => BudgetInv'
<1> SUFFICES ASSUME BudgetInv, TypeOK', [Next]_vars PROVE BudgetInv'
  OBVIOUS
<1>1. CASE UNCHANGED vars
  BY <1>1 DEF BudgetInv, TypeOK, WorkInv, Idle, vars
<1>2. CASE Next
  BY <1>2, InvStep DEF Next
<1> QED
  BY <1>1, <1>2

\* The invariant holds: every prepared successor is current or turned away,
\* and every published snapshot keeps the permits' invariants.
THEOREM BudgetInvariant == Spec => []BudgetInv
  BY TypeCorrect, InvInit, InvNext, PTL DEF Spec

\* What any step may do to the published snapshot.
LEMMA SnapshotStep ==
    ASSUME BudgetInv, [Next]_vars
    PROVE  \/ st' = st
           \/ /\ SnapInv(st')
              /\ \A p \in Permit : PermitStep(st, st', p)
              /\ st.latch # Null => st'.latch = st.latch /\ st'.policy = st.policy
<1>1. CASE UNCHANGED vars
  BY <1>1 DEF vars
<1>2. CASE Next
  <2>1. PICK c \in Client :
          Call(c) \/ Publish(c) \/ Restart(c) \/ ExplicitRebase(c) \/ ResumeRefused(c)
          \/ \E v \in Reading : Resume(c, v)
    BY <1>2 DEF Next
  <2>2. UNCHANGED <<st, loadable>> \/ (~Idle(c) /\ AppendNext(c) /\ Done(c))
    BY <2>1, StepShape DEF BudgetInv
  <2>3. CASE ~Idle(c) /\ AppendNext(c)
    BY <2>3, AppendIsStep
  <2> QED
    BY <2>2, <2>3
<1> QED
  BY <1>1, <1>2

FinalStep ==
    \A p \in Settled(st) :
      /\ st'.settled[p] = st.settled[p]
      /\ st'.permit[p] = "none"
      /\ st'.attempt[p] = st.attempt[p]

LEMMA FinalStepHolds ==
    ASSUME BudgetInv, [Next]_vars
    PROVE  FinalStep
<1>1. CASE st' = st
  BY <1>1 DEF FinalStep, BudgetInv, SnapInv, PermitInv, Settled
<1>2. CASE \A p \in Permit : PermitStep(st, st', p)
  BY <1>2 DEF FinalStep, PermitStep, Final, Settled
<1> QED
  BY <1>1, <1>2, SnapshotStep

\* A settled permit keeps its outcome and its attempt and is never active
\* again, whatever late settlement, release or cancellation follows.
THEOREM SettlementIsFinal == Spec => OutcomeIsFinal
<1>1. BudgetInv /\ [Next]_vars => [FinalStep]_vars
  BY FinalStepHolds
<1> QED
  BY <1>1, BudgetInvariant, PTL DEF Spec, OutcomeIsFinal, FinalStep

CancelStep ==
    \A p \in Permit : st.cancel[p].state # "not_requested" =>
      /\ st.permit[p] = "reserved" => st'.permit[p] # "started"
      /\ st'.settled[p] # st.settled[p] =>
           /\ st'.settled[p] \in {"cancelled", "effect_unknown", "overrun",
                                  "released_no_effect"}
           /\ st'.settled[p] = "cancelled" => st.cancel[p].state \in {"acknowledged", "cancelled"}
           /\ st'.settled[p] # "released_no_effect" => ~st.cancel[p].live

LEMMA CancelStepHolds ==
    ASSUME BudgetInv, [Next]_vars
    PROVE  CancelStep
<1>1. CASE st' = st
  BY <1>1 DEF CancelStep
<1>2. CASE \A p \in Permit : PermitStep(st, st', p)
  BY <1>2 DEF CancelStep, PermitStep, NoSuccess
<1> QED
  BY <1>1, <1>2, SnapshotStep

\* Work whose cancellation was requested is never started, and never settled
\* as a success or as a plain failure.
THEOREM CancellationWins == Spec => CancelledWorkDoesNotSucceed
<1>1. BudgetInv /\ [Next]_vars => [CancelStep]_vars
  BY CancelStepHolds
<1> QED
  BY <1>1, BudgetInvariant, PTL DEF Spec, CancelledWorkDoesNotSucceed, CancelStep

LatchStep ==
    /\ st.latch # Null => /\ st'.latch = st.latch
                          /\ st'.policy = st.policy
                          /\ Active(st') \subseteq Active(st)
    /\ \A p \in Permit :
         \/ st'.settled[p] \in {"overrun", "effect_unknown"}
         \/ st'.cancel[p].state \in {"unconfirmed", "effect_unknown"}
         => st'.latch # Null

LEMMA LatchStepHolds ==
    ASSUME BudgetInv, [Next]_vars
    PROVE  LatchStep
<1>1. CASE st' = st
  BY <1>1 DEF LatchStep, BudgetInv, SnapInv, PermitInv, Active
<1>2. CASE /\ SnapInv(st')
           /\ \A p \in Permit : PermitStep(st, st', p)
           /\ st.latch # Null => st'.latch = st.latch /\ st'.policy = st.policy
  BY <1>2 DEF LatchStep, SnapInv, PermitInv, PermitStep, NotReserved, Active
<1> QED
  BY <1>1, <1>2, SnapshotStep

\* The first failure stays latched and closes the run to new work, and every
\* overrun and every unknown effect is latched when it is recorded.
THEOREM LatchIsFinal == Spec => FailureIsLatched
<1>1. BudgetInv /\ [Next]_vars => [LatchStep]_vars
  BY LatchStepHolds
<1> QED
  BY <1>1, BudgetInvariant, PTL DEF Spec, FailureIsLatched, LatchStep

\* Outcomes, cancellations and failures, once recorded, hold for good, for any
\* number of processes that act on stale snapshots (settle, start,
\* record_cancellation, release_no_effect).
THEOREM RecordsHold == Spec => OutcomesHold
  BY SettlementIsFinal, CancellationWins, LatchIsFinal DEF OutcomesHold

-----------------------------------------------------------------------------
(* The answers, and the operations as a RevisionLog.                       *)

LEMMA AnswerStep ==
    ASSUME BudgetInv, NEW c \in Client,
           Call(c) \/ Publish(c) \/ Restart(c) \/ ExplicitRebase(c) \/ ResumeRefused(c)
           \/ \E v \in Reading : Resume(c, v)
    PROVE  AnswersAreTrue'
<1>1. Silent => AnswersAreTrue'
  BY DEF Silent, NoAnswer, AnswersAreTrue
<1>2. ASSUME NEW q, Answer(q, "conflict") PROVE AnswersAreTrue'
  BY <1>2 DEF Answer, AnswersAreTrue
<1>3. ASSUME NEW q, NEW k, Answer(q, k), \E i \in DOMAIN st'.ops : st'.ops[i].req = q
      PROVE  AnswersAreTrue'
  BY <1>3 DEF Answer, AnswersAreTrue
<1>4. ASSUME NEW q, Answer(q, "replay"), RecordedExactly(st, q), st' = st
      PROVE  AnswersAreTrue'
  BY <1>3, <1>4 DEF RecordedExactly
<1>5. CASE Call(c)
  BY <1>1, <1>2, <1>4, <1>5 DEF Call, ClockRollback, LoadFails, Replay, KeyReused, Refuse, Prepare
<1>6. CASE CheckMoved(c)
  BY <1>1, <1>2, <1>4, <1>6 DEF CheckMoved
<1>7. CASE CheckCurrent(c) \/ PublishUncertain(c) \/ PublishFails(c) \/ PublishRefused(c)
  BY <1>1, <1>2, <1>7 DEF CheckCurrent, PublishUncertain, PublishFails, PublishRefused
<1>8. CASE PublishApplied(c)
  <2>1. ~Idle(c) /\ AppendNext(c) /\ Answer(work[c].req, "applied")
    BY <1>8 DEF PublishApplied
  <2>2. /\ Generation(st') = Generation(st) + 1
        /\ st'.ops[Generation(st')].req = work[c].req
    BY <2>1, AppendIsStep
  <2>3. st' \in Snapshot /\ st \in Snapshot
    BY <2>1 DEF AppendNext, BudgetInv, TypeOK, Idle, Work
  <2>4. Generation(st') \in DOMAIN st'.ops
    BY <2>2, <2>3, GenerationType
  <2> QED
    BY <1>3, <2>1, <2>2, <2>4
<1>9. CASE PublishCommitted(c)
  <2> DEFINE n == work[c].next
             g == Generation(n)
  <2>1. ~Idle(c) /\ ~Unchanged(c) /\ st.ops[g] = n.ops[g] /\ st' = st
    BY <1>9 DEF PublishCommitted
  <2>2. n \in Snapshot /\ st \in Snapshot
    BY <2>1 DEF BudgetInv, TypeOK, Idle, Work
  <2>3. g \in Nat /\ Generation(st) \in Nat /\ DOMAIN st.ops = 1..Generation(st)
    BY <2>2, GenerationType
  <2>4. g # 0 /\ n.ops[g].req = work[c].req /\ g <= Generation(st) + 1
    BY <2>1 DEF BudgetInv, WorkInv
  <2>5. Generation(st) + 1 # g
    BY <2>1 DEF Unchanged
  <2>6. g \in DOMAIN st.ops
    BY <2>3, <2>4, <2>5
  <2>7. \E i \in DOMAIN st'.ops : st'.ops[i].req = work[c].req
    BY <2>1, <2>4, <2>6
  <2>8. Answer(work[c].req, "replay") \/ Silent
    BY <1>9 DEF PublishCommitted
  <2> QED
    BY <1>1, <1>3, <2>7, <2>8
<1>10. CASE Restart(c) \/ ExplicitRebase(c) \/ ResumeRefused(c) \/ \E v \in Reading : Resume(c, v)
  BY <1>1, <1>10 DEF Restart, ExplicitRebase, ResumeRefused, Resume
<1> QED
  BY <1>5, <1>6, <1>7, <1>8, <1>9, <1>10 DEF Publish

\* A caller that is told applied or exact replay has its own request in the
\* log, although the caller may have raced others, timed out and restarted.
THEOREM AnswersTrue == Spec => []AnswersAreTrue
<1>1. Init => AnswersAreTrue
  BY DEF Init, NoAnswer, AnswersAreTrue
<1>2. BudgetInv /\ AnswersAreTrue /\ [Next]_vars => AnswersAreTrue'
  <2>1. CASE UNCHANGED vars
    BY <2>1 DEF AnswersAreTrue, vars
  <2>2. ASSUME BudgetInv, Next PROVE AnswersAreTrue'
    BY <2>2, AnswerStep DEF Next
  <2> QED
    BY <2>1, <2>2
<1> QED
  BY <1>1, <1>2, BudgetInvariant, PTL DEF Spec

\* The log that the operations of a snapshot are.
Entries(s) == [i \in DOMAIN s.ops |-> [txn |-> s.ops[i].req.id, body |-> s.ops[i].req]]

LEMMA AppendEntry ==
    ASSUME NEW s \in Snapshot, NEW q \in Request, NEW el \in Nat
    PROVE  Entries(Apply(s, q, el)) = Append(Entries(s), [txn |-> q.id, body |-> q])
<1> DEFINE t == Apply(s, q, el)
           n == Generation(s)
           e == [txn |-> q.id, body |-> q]
<1>1. t \in Snapshot
  BY ApplyEffect DEF Effect
<1>2. /\ Generation(t) = n + 1
      /\ t.ops[n + 1].req = q
      /\ \A i \in DOMAIN s.ops : t.ops[i] = s.ops[i]
  BY LastOperation
<1>3. n \in Nat /\ DOMAIN s.ops = 1..n /\ DOMAIN t.ops = 1..(n + 1)
  BY <1>1, <1>2, GenerationType
<1> HIDE DEF t, n
<1>4. Entries(s) \in Seq({Entries(s)[i] : i \in 1..n}) /\ Len(Entries(s)) = n
  BY <1>3 DEF Entries
<1>5. Append(Entries(s), e) = [i \in 1..(n + 1) |-> IF i <= n THEN Entries(s)[i] ELSE e]
  BY <1>3, <1>4
<1>6. \A i \in 1..(n + 1) : Entries(t)[i] = IF i <= n THEN Entries(s)[i] ELSE e
  BY <1>2, <1>3, SMTT(60) DEF Entries
<1>7. Entries(t) = [i \in 1..(n + 1) |-> Entries(t)[i]]
  BY <1>3 DEF Entries
<1> QED
  BY <1>5, <1>6, <1>7 DEF t

LEMMA LogStep ==
    ASSUME BudgetInv, [Next]_vars
    PROVE  \/ Entries(st') = Entries(st)
           \/ \E e \in Log!Entry : /\ \A i \in DOMAIN Entries(st) : Entries(st)[i].txn # e.txn
                                   /\ Entries(st') = Append(Entries(st), e)
<1>1. CASE UNCHANGED vars
  BY <1>1 DEF vars
<1>2. CASE Next
  <2>1. PICK c \in Client :
          Call(c) \/ Publish(c) \/ Restart(c) \/ ExplicitRebase(c) \/ ResumeRefused(c)
          \/ \E v \in Reading : Resume(c, v)
    BY <1>2 DEF Next
  <2>2. UNCHANGED <<st, loadable>> \/ (~Idle(c) /\ AppendNext(c) /\ Done(c))
    BY <2>1, StepShape DEF BudgetInv
  <2>3. CASE ~Idle(c) /\ AppendNext(c)
    <3> DEFINE q == work[c].req
               e == [txn |-> q.id, body |-> q]
    <3>1. q \in Request /\ st \in Snapshot
      BY <2>3 DEF BudgetInv, TypeOK, Idle, Work
    <3>2. PICK el \in Nat : Successor(st, q, el) /\ st' = Apply(st, q, el)
      BY <2>3, AppendIsStep
    <3> HIDE DEF q
    <3>3. Entries(st') = Append(Entries(st), e)
      BY <3>1, <3>2, AppendEntry
    <3>4. e \in Log!Entry
      BY <3>1 DEF Log!Entry
    <3>5. /\ Generation(st') = Generation(st) + 1
          /\ st'.ops[Generation(st')].req = q
          /\ \A i \in DOMAIN st.ops : i \in DOMAIN st'.ops /\ st'.ops[i] = st.ops[i]
      BY <3>1, <3>2, LastOperation
    <3>6. st' \in Snapshot
      BY <3>1, <3>2, ApplyEffect DEF Effect
    <3>7. /\ Generation(st) \in Nat /\ DOMAIN st.ops = 1..Generation(st)
          /\ Generation(st') \in DOMAIN st'.ops
      BY <3>1, <3>5, <3>6, GenerationType
    <3>8. \A i, j \in DOMAIN st'.ops : st'.ops[i].req.id = st'.ops[j].req.id => i = j
      BY <3>2 DEF Successor, ValidSnapshot
    <3>9. ASSUME NEW i \in DOMAIN st.ops
          PROVE  st.ops[i].req.id # q.id
      <4>1. i # Generation(st')
        BY <3>5, <3>7
      <4> QED
        BY <3>5, <3>7, <3>8, <4>1
    <3>10. \A i \in DOMAIN Entries(st) : Entries(st)[i].txn # e.txn
      BY <3>9 DEF Entries
    <3> QED
      BY <3>3, <3>4, <3>10
  <2> QED
    BY <2>2, <2>3
<1> QED
  BY <1>1, <1>2

\* The published operations are a RevisionLog: each takes effect at most
\* once, in one order that all processes see, and none is undone.
THEOREM OperationsAreALog == Spec => ExactlyOnce
<1>1. Init => Log!Init
  BY DEF Init, Blank, Log!Init
<1>2. BudgetInv /\ [Next]_vars
      => [Log!Publish \/ Log!Acknowledge]_<<Entries(st), {}>>
  <2>1. SUFFICES ASSUME BudgetInv, [Next]_vars, Entries(st') # Entries(st)
                 PROVE  Log!Publish
    BY DEF Entries
  <2>2. PICK e \in Log!Entry : /\ \A i \in DOMAIN Entries(st) : Entries(st)[i].txn # e.txn
                              /\ Entries(st') = Append(Entries(st), e)
    BY <2>1, LogStep
  <2> DEFINE n == Generation(st)
             V == {Entries(st)[i] : i \in 1..n}
  <2>3. n \in Nat /\ DOMAIN st.ops = 1..n
    BY <2>1, GenerationType DEF BudgetInv, TypeOK
  <2>4. Entries(st) = [i \in 1..n |-> Entries(st)[i]]
    BY <2>3 DEF Entries
  <2>5. Entries(st) \in Seq(V)
    BY <2>3, <2>4
  <2>6. /\ Len(Entries(st')) = Len(Entries(st)) + 1
        /\ Entries(st')[Len(Entries(st'))] = e
    BY <2>2, <2>5
  <2> QED
    BY <2>2, <2>6 DEF Log!Publish, Entries
<1> QED
  BY <1>1, <1>2, BudgetInvariant, PTL DEF Spec, ExactlyOnce, Log!Spec, Entries

-----------------------------------------------------------------------------
(***************************************************************************)
(* The durable budget stays within its policy and every published history  *)
(* can be loaded: LedgerIsSound.  The amounts that active permits hold are *)
(* a fold over a set, so the proof begins with the sums over finite sets   *)
(* that it needs.                                                          *)
(***************************************************************************)
(* Sums over a finite set.                                                 *)

\* f sums a over the subsets of A, one chosen element after the other.
IsSum(f, a, A) ==
    f = [t \in SUBSET A |-> IF t = {} THEN 0
                            ELSE a[CHOOSE x \in t : TRUE] + f[t \ {CHOOSE x \in t : TRUE}]]

Total(a, A) == (CHOOSE f : IsSum(f, a, A))[A]

LEMMA SmallestSubset ==
  ASSUME NEW S, IsFiniteSet(S), NEW T \in SUBSET SUBSET S, T # {}
  PROVE  \E x \in T : \A y \in T : y \subseteq x => y = x
<1>1. IsWellFoundedOn(StrictSubsetOrdering(S), SUBSET S)
  BY FS_FiniteSubsetsOfFinite, FS_StrictSubsetOrderingWellFounded
<1>2. \E x \in T : \A y \in T : ~(<<y, x>> \in StrictSubsetOrdering(S))
  BY <1>1, WFMin
<1>3. QED
  BY <1>2 DEF StrictSubsetOrdering

LEMMA SumsAgree ==
  ASSUME NEW a, NEW A, NEW B, NEW f, NEW g, IsSum(f, a, A), IsSum(g, a, B),
         NEW S, IsFiniteSet(S), S \subseteq A, S \subseteq B,
         \A x \in S : a[x] \in Nat
  PROVE  f[S] = g[S] /\ f[S] \in Nat
<1> DEFINE T == {t \in SUBSET S : ~(f[t] = g[t] /\ f[t] \in Nat)}
<1>1. SUFFICES ASSUME T # {} PROVE FALSE
  OBVIOUS
<1>2. PICK t \in T : \A y \in T : y \subseteq t => y = t
  <2>1. T \in SUBSET SUBSET S
    OBVIOUS
  <2> HIDE DEF T
  <2>2. QED
    BY <1>1, <2>1, SmallestSubset
<1>3. f[t] = (IF t = {} THEN 0 ELSE a[CHOOSE x \in t : TRUE] + f[t \ {CHOOSE x \in t : TRUE}])
  BY <1>2, SMTT(60) DEF IsSum
<1>4. g[t] = (IF t = {} THEN 0 ELSE a[CHOOSE x \in t : TRUE] + g[t \ {CHOOSE x \in t : TRUE}])
  BY <1>2 DEF IsSum
<1>5. CASE t = {}
  BY <1>2, <1>3, <1>4, <1>5
<1>6. CASE t # {}
  <2> DEFINE x == CHOOSE x \in t : TRUE
  <2>1. x \in t
    BY <1>6
  <2>2. t \ {x} \notin T
    BY <1>2, <2>1
  <2>3. f[t \ {x}] = g[t \ {x}] /\ f[t \ {x}] \in Nat
    BY <1>2, <2>2
  <2>4. f[t] = a[x] + f[t \ {x}] /\ g[t] = a[x] + g[t \ {x}]
    BY <1>3, <1>4, <1>6
  <2>5. a[x] \in Nat
    BY <2>1, <1>2
  <2> HIDE DEF x
  <2>6. QED
    BY <1>2, <2>3, <2>4, <2>5
<1>7. QED
  BY <1>5, <1>6

LEMMA SumExists ==
  ASSUME NEW a, NEW A, IsFiniteSet(A), \A x \in A : a[x] \in Nat
  PROVE  \E f : IsSum(f, a, A)
<1> DEFINE G(t) == CHOOSE g : IsSum(g, a, t)
           T == {t \in SUBSET A : ~ \E g : IsSum(g, a, t)}
<1>1. SUFFICES ASSUME T # {} PROVE FALSE
  OBVIOUS
<1>2. PICK t \in T : \A y \in T : y \subseteq t => y = t
  <2>1. T \in SUBSET SUBSET A
    OBVIOUS
  <2> HIDE DEF T
  <2>2. QED
    BY <1>1, <2>1, SmallestSubset
<1>3. \A u \in SUBSET t : u # t => IsSum(G(u), a, u)
  BY <1>2
<1> DEFINE x == CHOOSE x \in t : TRUE
           f == [u \in SUBSET t |-> IF u = {} THEN 0
                                    ELSE IF u = t THEN a[x] + G(t \ {x})[t \ {x}]
                                    ELSE G(u)[u]]
<1>4. ASSUME NEW u \in SUBSET t, u # {}
      PROVE  f[u] = a[CHOOSE y \in u : TRUE] + f[u \ {CHOOSE y \in u : TRUE}]
  <2> DEFINE y == CHOOSE y \in u : TRUE
             v == u \ {y}
  <2>1. y \in u /\ v \in SUBSET t /\ v # t /\ v # u
    BY <1>4
  <2>2. IsSum(G(v), a, v) /\ IsFiniteSet(v)
    BY <1>3, <2>1, <1>2, FS_Subset
  <2>3. f[v] = G(v)[v]
    <3>1. CASE v = {}
      <4>1. G(v)[v] = 0
        BY <2>2, <3>1 DEF IsSum
      <4>2. QED
        BY <4>1, <3>1, <2>1
    <3>2. CASE v # {}
      BY <3>2, <2>1
    <3>3. QED
      BY <3>1, <3>2
  <2>4. CASE u = t
    BY <2>4, <2>3, <1>4
  <2>5. CASE u # t
    <3>1. IsSum(G(u), a, u)
      BY <2>5, <1>3
    <3>2. G(u)[u] = a[y] + G(u)[v]
      BY <3>1, <1>4 DEF IsSum
    <3>3. G(u)[v] = G(v)[v]
      <4> HIDE DEF G, v, y
      <4>1. v \subseteq u /\ \A z \in v : a[z] \in Nat
        BY <1>2, <2>1 DEF v
      <4>2. QED
        BY <3>1, <2>2, <4>1, SumsAgree
    <3>4. f[u] = G(u)[u]
      BY <2>5, <1>4
    <3>5. QED
      BY <3>2, <3>3, <3>4, <2>3
  <2>6. QED
    BY <2>4, <2>5
<1>5. f[{}] = 0 /\ f = [u \in SUBSET t |-> f[u]]
  OBVIOUS
<1>6. IsSum(f, a, t)
  <2> HIDE DEF f
  <2>1. \A u \in SUBSET t : f[u] = IF u = {} THEN 0
                  ELSE a[CHOOSE y \in u : TRUE] + f[u \ {CHOOSE y \in u : TRUE}]
    BY <1>4, <1>5
  <2>2. QED
    BY <2>1, <1>5, Zenon DEF IsSum
<1>7. QED
  BY <1>6, <1>2

LEMMA TotalOf ==
  ASSUME NEW a, NEW A, IsFiniteSet(A), \A x \in A : a[x] \in Nat, NEW f, IsSum(f, a, A)
  PROVE  Total(a, A) = f[A] /\ Total(a, A) \in Nat
<1> DEFINE g == CHOOSE h : IsSum(h, a, A)
<1>1. IsSum(g, a, A)
  OBVIOUS
<1>2. Total(a, A) = g[A]
  BY DEF Total
<1> HIDE DEF g
<1>3. QED
  BY <1>1, <1>2, SumsAgree

\* One element less, the one that the fold chooses.
LEMMA TotalStep ==
  ASSUME NEW a, NEW A, IsFiniteSet(A), \A x \in A : a[x] \in Nat
  PROVE  /\ Total(a, A) \in Nat
         /\ A = {} => Total(a, A) = 0
         /\ A # {} => \E x \in A : Total(a, A) = a[x] + Total(a, A \ {x})
<1>1. PICK f : IsSum(f, a, A)
  BY SumExists
<1>2. Total(a, A) = f[A] /\ Total(a, A) \in Nat
  BY <1>1, TotalOf
<1>3. CASE A = {}
  BY <1>1, <1>2, <1>3 DEF IsSum
<1>4. CASE A # {}
  <2> DEFINE x == CHOOSE y \in A : TRUE
             B == A \ {x}
  <2>1. x \in A
    BY <1>4
  <2>2. f[A] = a[x] + f[B]
    BY <1>1, <1>4 DEF IsSum
  <2> HIDE DEF x
  <2>3. B \subseteq A /\ IsFiniteSet(B) /\ \A y \in B : a[y] \in Nat
    BY FS_Subset
  <2> HIDE DEF B
  <2>4. PICK g : IsSum(g, a, B)
    BY <2>3, SumExists
  <2>5. Total(a, B) = g[B]
    BY <2>3, <2>4, TotalOf
  <2>6. f[B] = g[B]
    BY <1>1, <2>3, <2>4, SumsAgree
  <2>7. Total(a, A) = a[x] + Total(a, B)
    BY <1>2, <2>2, <2>5, <2>6
  <2>8. QED
    BY <1>2, <1>4, <2>1, <2>7 DEF B
<1>5. QED
  BY <1>3, <1>4

\* The order of the fold does not matter: any element may be taken first.
LEMMA TotalWithout ==
  ASSUME NEW a, NEW A, IsFiniteSet(A), \A x \in A : a[x] \in Nat, NEW z \in A
  PROVE  Total(a, A) = a[z] + Total(a, A \ {z})
<1> DEFINE T == {t \in SUBSET A : \E y \in t : Total(a, t) # a[y] + Total(a, t \ {y})}
<1>1. SUFFICES ASSUME T # {} PROVE FALSE
  OBVIOUS
<1>2. PICK t \in T : \A u \in T : u \subseteq t => u = t
  <2>1. T \in SUBSET SUBSET A
    OBVIOUS
  <2> HIDE DEF T
  <2>2. QED
    BY <1>1, <2>1, SmallestSubset
<1>3. PICK y \in t : Total(a, t) # a[y] + Total(a, t \ {y})
  BY <1>2
<1>4. t \subseteq A /\ \A u \in SUBSET t : IsFiniteSet(u) /\ \A x \in u : a[x] \in Nat
  BY <1>2, FS_Subset
<1>5. PICK x \in t : Total(a, t) = a[x] + Total(a, t \ {x})
  BY <1>3, <1>4, TotalStep
<1>6. x # y
  BY <1>3, <1>5
<1>7. Total(a, t \ {x}) = a[y] + Total(a, (t \ {x}) \ {y})
  <2>1. t \ {x} \notin T
    BY <1>2
  <2>2. QED
    BY <2>1, <1>4, <1>6
<1>8. Total(a, t \ {y}) = a[x] + Total(a, (t \ {y}) \ {x})
  <2>1. t \ {y} \notin T
    BY <1>2
  <2>2. QED
    BY <2>1, <1>4, <1>6
<1>9. (t \ {x}) \ {y} = (t \ {y}) \ {x}
  OBVIOUS
<1>10. a[x] \in Nat /\ a[y] \in Nat /\ Total(a, (t \ {y}) \ {x}) \in Nat
  <2>1. /\ IsFiniteSet((t \ {y}) \ {x})
        /\ \A w \in (t \ {y}) \ {x} : a[w] \in Nat
    BY <1>4
  <2>2. QED
    BY <1>4, <2>1, TotalStep
<1>11. QED
  <2> DEFINE w == Total(a, (t \ {y}) \ {x})
  <2>1. Total(a, t) = a[x] + (a[y] + w)
    BY <1>5, <1>7, <1>9
  <2>2. Total(a, t) # a[y] + (a[x] + w)
    BY <1>3, <1>8
  <2>3. a[x] \in Nat /\ a[y] \in Nat /\ w \in Nat
    BY <1>10
  <2> HIDE DEF w
  <2>4. QED
    BY <2>1, <2>2, <2>3

\* Only the elements of the set count.
LEMMA TotalSame ==
  ASSUME NEW a, NEW b, NEW A, IsFiniteSet(A), \A x \in A : a[x] \in Nat /\ b[x] = a[x]
  PROVE  Total(b, A) = Total(a, A)
<1>1. PICK f : IsSum(f, a, A)
  BY SumExists
<1>2. \A t \in SUBSET A : t # {} => b[CHOOSE x \in t : TRUE] = a[CHOOSE x \in t : TRUE]
  OBVIOUS
<1>3. IsSum(f, b, A)
  <2>1. \A t \in SUBSET A :
          (IF t = {} THEN 0 ELSE b[CHOOSE x \in t : TRUE] + f[t \ {CHOOSE x \in t : TRUE}])
          = (IF t = {} THEN 0 ELSE a[CHOOSE x \in t : TRUE] + f[t \ {CHOOSE x \in t : TRUE}])
    BY <1>2
  <2>2. QED
    BY <1>1, <2>1 DEF IsSum
<1>4. Total(a, A) = f[A]
  BY <1>1, TotalOf
<1>5. Total(b, A) = f[A]
  BY <1>3, TotalOf
<1>6. QED
  BY <1>4, <1>5

\* What the active permits hold of a resource, as such a sum.
Holds(s, r) == [p \in Permit |-> s.origin[p].amount[r]]

LEMMA ReservedIsTotal ==
  ASSUME NEW s, NEW r, IsFiniteSet(Active(s)), \A p \in Active(s) : s.origin[p].amount[r] \in Nat
  PROVE  Reserved(s, r) = Total(Holds(s, r), Active(s))
<1> DEFINE A == Active(s)
           a == Holds(s, r)
           Eq(f) == f = [t \in SUBSET A |-> IF t = {} THEN 0
                           ELSE s.origin[CHOOSE x \in t : TRUE].amount[r]
                                + f[t \ {CHOOSE x \in t : TRUE}]]
           h == CHOOSE f : Eq(f)
<1>1. \A x \in A : a[x] = s.origin[x].amount[r] /\ a[x] \in Nat
  BY DEF Active, Holds
<1>2. \A t \in SUBSET A : t # {} =>
        a[CHOOSE x \in t : TRUE] = s.origin[CHOOSE x \in t : TRUE].amount[r]
  BY <1>1
<1>3. ASSUME NEW f
      PROVE  Eq(f) <=> IsSum(f, a, A)
  <2>1. \A t \in SUBSET A :
          (IF t = {} THEN 0 ELSE s.origin[CHOOSE x \in t : TRUE].amount[r]
                                 + f[t \ {CHOOSE x \in t : TRUE}])
          = (IF t = {} THEN 0 ELSE a[CHOOSE x \in t : TRUE] + f[t \ {CHOOSE x \in t : TRUE}])
    BY <1>2
  <2> HIDE DEF a, A
  <2>2. QED
    BY <2>1 DEF IsSum
<1>4. \E f : Eq(f)
  <2> HIDE DEF Eq, a, A
  <2>1. \E f : IsSum(f, a, A)
    BY <1>1, SumExists DEF A
  <2>2. QED
    BY <2>1, <1>3
<1>5. Eq(h)
  BY <1>4
<1>6. Reserved(s, r) = h[A]
  BY Zenon DEF Reserved, FSE!MapThenSumSet, FSE!MapThenFoldSet
<1> HIDE DEF Eq, h, a, A
<1>7. IsSum(h, a, A)
  BY <1>3, <1>5
<1>8. IsFiniteSet(A)
  BY DEF A
<1>9. h[A] = Total(a, A)
  BY <1>1, <1>7, <1>8, TotalOf
<1>10. QED
  BY <1>6, <1>9 DEF a, A

-----------------------------------------------------------------------------
(* A history that is published can be loaded.                              *)

Closing(q) == q.kind \in {"settle", "release"}
Moving(q) == Closing(q) \/ q.kind \in {"reserve", "start"}
Cancelling(q) == q.kind \in {"request_cancel", "record_cancel"}

\* What an operation changes of the permit it names, and only that.
ChangesNamed(s, t, q) ==
    LET x == q.permit
    IN  /\ Closing(q) <=> t.settled[x] # s.settled[x]
        /\ Moving(q) <=> t.permit[x] # s.permit[x]
        /\ Moving(q) => t.attempt[x] # s.attempt[x]
        /\ q.kind = "request_cancel" => t.attempt[x] = s.attempt[x]
        /\ Cancelling(q) <=> t.cancel[x] # s.cancel[x]
        /\ q.kind = "reserve" => x \notin Active(s) /\ x \notin Attempted(s)

\* The attempt of an active permit has no failure category yet.
Uncategorised(s) == \A p \in Active(s) : s.attempt[p].category = Null

LEMMA NamedChanges ==
    ASSUME NEW s \in Snapshot, NEW t, NEW u, NEW q \in Request, NEW el, q.kind \in PermitKind,
           ValidSnapshot(s), Uncategorised(s), Admits(s, q, el), Effect(s, t, q), Rest(u, t, q)
    PROVE  ChangesNamed(s, t, q)
<1> DEFINE x == q.permit
<1>1. x \in Permit /\ NamedPermit(s, t, q)
  BY RequestAssumption DEF PermitKind, Kind, Effect
<1>2. /\ s.permit[x] \in {"none", "reserved", "started"}
      /\ s.permit[x] # "none" => s.settled[x] = "none" /\ s.attempt[x].status = ExpectedAttempt(s, x)
      /\ s.permit[x] = "none" /\ s.settled[x] = "none" => s.attempt[x].status = "none"
      /\ s.attempt[x] \in AttemptRecord
  BY <1>1 DEF ValidSnapshot, Active, Settled, Attempted, Snapshot
<1>3. CASE q.kind = "reserve"
  <2>1. s.settled[x] = "none" /\ s.permit[x] = "none"
    BY <1>1, <1>3 DEF Admits, AdmitReserve, Active, Settled
  <2>2. t.attempt[x].status = "reserved"
    BY <1>3 DEF Rest
  <2>3. QED
    BY <1>1, <1>2, <1>3, <2>1, <2>2 DEF ChangesNamed, NamedPermit, Closing, Moving, Cancelling,
         Active, Attempted
<1>4. CASE q.kind = "start"
  <2>1. s.permit[x] = "reserved" /\ s.cancel[x].state = "not_requested"
    BY <1>4 DEF Admits, AdmitStart
  <2>2. t.attempt[x].status = "started"
    BY <1>4 DEF Rest
  <2>3. s.attempt[x].status = "reserved"
    BY <1>2, <2>1 DEF ExpectedAttempt
  <2>4. QED
    BY <1>1, <1>4, <2>1, <2>2, <2>3 DEF ChangesNamed, NamedPermit, Closing, Moving, Cancelling
<1>5. CASE q.kind = "settle"
  <2>1. s.permit[x] = "started" /\ s.settled[x] = "none"
    BY <1>2, <1>5 DEF Admits, AdmitSettle
  <2>2. s.attempt[x].status \in {"started", "effect_unknown"}
    BY <1>2, <2>1 DEF ExpectedAttempt
  <2>3. /\ q.status \in {"succeeded", "failed", "cancelled", "effect_unknown"}
        /\ q.status = "effect_unknown" => q.category # Null
    BY <1>5, RequestAssumption, CategoryAssumption
  <2>4. \/ t.attempt[x].status = "failed"
        \/ t.attempt[x].status = q.status /\ t.attempt[x].category = q.category
    BY <1>5 DEF Rest, Spends
  <2>5. s.attempt[x].category = Null
    BY <1>1, <2>1 DEF Uncategorised, Active
  <2>6. QED
    BY <1>1, <1>5, <2>1, <2>2, <2>3, <2>4, <2>5 DEF ChangesNamed, NamedPermit, Closing, Moving,
         Cancelling
<1>6. CASE q.kind = "release"
  <2>1. s.permit[x] = "reserved" /\ s.settled[x] = "none"
    BY <1>2, <1>6 DEF Admits
  <2>2. s.attempt[x].status \in {"reserved", "effect_unknown"}
    BY <1>2, <2>1 DEF ExpectedAttempt
  <2>3. t.attempt[x].status = "cancelled"
    BY <1>6 DEF Rest
  <2>4. QED
    BY <1>1, <1>6, <2>1, <2>2, <2>3 DEF ChangesNamed, NamedPermit, Closing, Moving, Cancelling
<1>7. CASE q.kind = "request_cancel"
  <2>1. s.cancel[x].state = "not_requested"
    BY <1>7 DEF Admits, AdmitRequestCancel
  <2>2. QED
    BY <1>1, <1>7, <2>1 DEF ChangesNamed, NamedPermit, Closing, Moving, Cancelling
<1>8. CASE q.kind = "record_cancel"
  <2>1. AdmitRecordCancel(s, q)
    BY <1>8 DEF Admits
  <2>2. q.state # s.cancel[x].state \/ (s.cancel[x].live # q.live)
    BY <2>1 DEF AdmitRecordCancel
  <2>3. QED
    BY <1>1, <1>8, <2>2 DEF ChangesNamed, NamedPermit, Closing, Moving, Cancelling
<1>9. QED
  BY <1>3, <1>4, <1>5, <1>6, <1>7, <1>8 DEF PermitKind, Kind

\* The heart of the first half: an operation that was admitted on a valid
\* snapshot makes a successor that load accepts.
LEMMA SuccessorLoads ==
    ASSUME NEW s \in Snapshot, NEW q \in Request, NEW el \in Nat, s.ops # <<>>,
           ValidSnapshot(s), Uncategorised(s), Successor(s, q, el)
    PROVE  ValidSuccessor(s, Apply(s, q, el))
<1> DEFINE t == Apply(s, q, el)
           u == [s EXCEPT !.runtime = @ + el]
           e == t.ops[Len(t.ops)]
<1>1. Admits(s, q, el) /\ Effect(s, t, q) /\ Rest(u, t, q)
  BY ApplyEffect, ApplyRest DEF Successor
<1>2. /\ u.runtime = s.runtime + el /\ u.usage = s.usage /\ u.origin = s.origin
      /\ u.latch = s.latch /\ s.runtime \in Nat /\ s.usage \in [Resource -> Nat]
  BY DEF Snapshot, Amounts
<1>3. t.ops = Append(s.ops, e) /\ e.req = q
  <2> DEFINE r == [req |-> q, runtime |-> s.runtime + el]
             o == s.ops
  <2>1. o \in Seq([req : Request, runtime : Nat]) /\ r \in [req : Request, runtime : Nat]
    BY <1>2 DEF Snapshot, Operations
  <2>2. t.ops = Append(o, r)
    BY ApplyEffect
  <2>3. r.req = q
    OBVIOUS
  <2> HIDE DEF r, o, t
  <2>4. Append(o, r)[Len(Append(o, r))] = r
    BY <2>1
  <2>5. QED
    BY <2>2, <2>3, <2>4 DEF o
<1> HIDE DEF t, u, e
<1>4. q.kind \in Kind /\ q.kind # "initialize" /\ (q.kind \in PermitKind => q.permit \in Permit)
  BY <1>1, RequestAssumption DEF Kind, PermitKind, Admits
<1>5. q.kind \in PermitKind => ChangesNamed(s, t, q)
  BY <1>1, NamedChanges
<1>6. \A p \in Permit : q.kind = "tighten" \/ p # q.permit => SamePermit(s, t, p)
  BY <1>1 DEF Effect
<1>7. (q.kind = "tighten" \/ q.kind \in PermitKind)
      /\ (q.kind = "tighten" => ~Closing(q) /\ ~Moving(q) /\ ~Cancelling(q))
  BY <1>4 DEF PermitKind, Kind, Closing, Moving, Cancelling
<1>8. Changed(s.settled, t.settled) = IF Closing(q) THEN {q.permit} ELSE {}
  BY <1>4, <1>5, <1>6, <1>7 DEF Changed, SamePermit, ChangesNamed
<1>9. Changed(s.permit, t.permit) = IF Moving(q) THEN {q.permit} ELSE {}
  BY <1>4, <1>5, <1>6, <1>7 DEF Changed, SamePermit, ChangesNamed
<1>10. Changed(s.cancel, t.cancel) = IF Cancelling(q) THEN {q.permit} ELSE {}
  BY <1>4, <1>5, <1>6, <1>7 DEF Changed, SamePermit, ChangesNamed
<1>11. IF Moving(q) THEN Changed(s.attempt, t.attempt) = {q.permit}
       ELSE Changed(s.attempt, t.attempt) \subseteq
              (IF q.kind = "record_cancel" THEN {q.permit} ELSE {})
  <2>1. q.kind \in PermitKind /\ ~Moving(q) => Cancelling(q)
    BY DEF PermitKind, Kind, Moving, Closing, Cancelling
  <2>2. QED
    BY <1>4, <1>5, <1>6, <1>7, <2>1 DEF Changed, SamePermit, ChangesNamed, Cancelling
<1>12. /\ s.latch # Null => t.latch = s.latch
       /\ t.latch # s.latch => q.kind \in {"settle", "record_cancel"}
  BY <1>1, <1>2 DEF Effect, Rest
<1>13. /\ t.policy # s.policy <=> q.kind = "tighten"
       /\ t.policy # s.policy => Tightens(s.policy, t.policy)
  <2>1. q.kind # "tighten" => t.policy = s.policy
    BY <1>1, <1>4 DEF Effect
  <2>2. q.kind = "tighten" => t.policy = q.policy /\ Tightens(s.policy, q.policy)
    BY <1>1 DEF Rest, Admits, AdmitTighten
  <2>3. QED
    BY <2>1, <2>2 DEF Tightens
<1>14. q.kind = "reserve" => q.permit \notin Active(s)
  BY <1>5 DEF ChangesNamed, PermitKind, Kind
<1>15. \A p \in Attempted(s) : t.origin[p] = s.origin[p]
  <2>1. CASE q.kind = "reserve"
    <3>1. q.permit \notin Attempted(s)
      BY <1>5, <2>1 DEF ChangesNamed, PermitKind, Kind
    <3>2. t.origin = [s.origin EXCEPT ![q.permit] = q] /\ s.origin \in [Permit -> Request \cup {Null}]
      BY <1>1, <1>2, <2>1 DEF Rest, Snapshot
    <3>3. QED
      BY <3>1, <3>2 DEF Attempted
  <2>2. CASE q.kind # "reserve"
    BY <1>1, <1>2, <2>2 DEF Rest
  <2>3. QED
    BY <2>1, <2>2
<1>16. t.runtime >= s.runtime
  BY <1>1, <1>2 DEF Rest
<1>17. /\ \A r \in Resource : t.usage[r] >= s.usage[r]
       /\ q.kind # "settle" => t.usage = s.usage
  <2>1. CASE q.kind = "settle"
    BY <1>1, <1>2, <2>1 DEF Rest, Spends
  <2>2. CASE q.kind # "settle"
    BY <1>1, <1>2, <2>2 DEF Rest
  <2>3. QED
    BY <2>1, <2>2
<1>18. ValidSuccessor(s, t)
  BY <1>3, <1>4, <1>8, <1>9, <1>10, <1>11, <1>12, <1>13, <1>14, <1>15, <1>16, <1>17
     DEF ValidSuccessor, Closing, Moving, Cancelling, e
<1>19. QED
  BY <1>18 DEF t

-----------------------------------------------------------------------------
(* Nothing is overcommitted.                                               *)

\* The amounts of the active permits are amounts, and they can be summed.
Summable(s) ==
    /\ IsFiniteSet(Active(s))
    /\ \A p \in Active(s) : s.origin[p].amount \in Amounts

Within(s) ==
    s.latch = Null =>
      \A r \in Cumulative : s.usage[r] + Reserved(s, r) <= s.policy.limit[r]

LedgerInv(s) ==
    /\ Summable(s) /\ Uncategorised(s)
    /\ IF s.ops = <<>>
       THEN Active(s) = {} /\ \A r \in Resource : s.usage[r] = 0
       ELSE s.policy \in Policy /\ ValidSnapshot(s) /\ Within(s)

LEMMA ReservedType ==
    ASSUME NEW s, NEW r \in Resource, Summable(s)
    PROVE  /\ Reserved(s, r) = Total(Holds(s, r), Active(s))
           /\ Reserved(s, r) \in Nat
           /\ \A p \in Active(s) : /\ Holds(s, r)[p] = s.origin[p].amount[r]
                                   /\ Holds(s, r)[p] \in Nat
<1>1. \A p \in Active(s) : s.origin[p].amount[r] \in Nat
  BY DEF Summable, Amounts
<1>2. \A p \in Active(s) : Holds(s, r)[p] = s.origin[p].amount[r]
  BY DEF Holds, Active
<1>3. Reserved(s, r) = Total(Holds(s, r), Active(s))
  BY <1>1, ReservedIsTotal DEF Summable
<1>4. Total(Holds(s, r), Active(s)) \in Nat
  BY <1>1, <1>2, TotalStep DEF Summable
<1>5. QED
  BY <1>1, <1>2, <1>3, <1>4

\* The same permits with the same origins hold the same.
LEMMA ReservedSame ==
    ASSUME NEW s, NEW t, NEW r \in Resource, Summable(s), Active(t) = Active(s),
           \A p \in Active(s) : t.origin[p] = s.origin[p]
    PROVE  Summable(t) /\ Reserved(t, r) = Reserved(s, r)
<1>1. Summable(t)
  BY DEF Summable
<1>2. \A p \in Active(s) : Holds(t, r)[p] = Holds(s, r)[p]
  BY DEF Holds, Active
<1>3. \A p \in Active(s) : Holds(s, r)[p] \in Nat
  BY ReservedType
<1>4. Total(Holds(t, r), Active(s)) = Total(Holds(s, r), Active(s))
  BY <1>2, <1>3, TotalSame DEF Summable
<1>5. QED
  BY <1>1, <1>4, ReservedType

\* A permit more holds its amount more.
LEMMA ReservedMore ==
    ASSUME NEW s, NEW t, NEW r \in Resource, NEW x, Summable(s), x \notin Active(s),
           Active(t) = Active(s) \cup {x}, t.origin[x].amount \in Amounts,
           \A p \in Active(s) : t.origin[p] = s.origin[p]
    PROVE  Summable(t) /\ Reserved(t, r) = t.origin[x].amount[r] + Reserved(s, r)
<1>1. Summable(t)
  <2>1. IsFiniteSet(Active(t))
    BY FS_AddElement DEF Summable
  <2>2. QED
    BY <2>1 DEF Summable
<1>2. \A p \in Active(s) : Holds(t, r)[p] = Holds(s, r)[p]
  BY DEF Holds, Active
<1>3. \A p \in Active(s) : Holds(s, r)[p] \in Nat
  BY ReservedType
<1>4. Total(Holds(t, r), Active(s)) = Total(Holds(s, r), Active(s))
  BY <1>2, <1>3, TotalSame DEF Summable
<1>5. /\ Reserved(t, r) = Total(Holds(t, r), Active(t))
      /\ Holds(t, r)[x] = t.origin[x].amount[r]
      /\ \A p \in Active(t) : Holds(t, r)[p] \in Nat
  <2>1. /\ Reserved(t, r) = Total(Holds(t, r), Active(t))
        /\ \A p \in Active(t) : /\ Holds(t, r)[p] = t.origin[p].amount[r]
                                /\ Holds(t, r)[p] \in Nat
    BY <1>1, ReservedType
  <2>2. QED
    BY <2>1
<1>6. Total(Holds(t, r), Active(t)) = Holds(t, r)[x] + Total(Holds(t, r), Active(t) \ {x})
  <2>1. IsFiniteSet(Active(t)) /\ x \in Active(t)
    BY <1>1 DEF Summable
  <2>2. QED
    BY <1>5, <2>1, TotalWithout
<1>7. Active(t) \ {x} = Active(s)
  OBVIOUS
<1>8. Reserved(s, r) = Total(Holds(s, r), Active(s))
  BY ReservedType
<1>9. QED
  BY <1>1, <1>4, <1>5, <1>6, <1>7, <1>8

\* What is spent, or given back, was reserved.
LEMMA SpendsWithin ==
    ASSUME NEW usage \in Nat, NEW actual \in Nat, NEW amount \in Nat, NEW others \in Nat,
           NEW limit \in Nat, usage + (amount + others) <= limit, actual <= amount
    PROVE  (usage + actual) + others <= limit
  OBVIOUS

LEMMA FreesWithin ==
    ASSUME NEW usage \in Nat, NEW amount \in Nat, NEW others \in Nat, NEW limit \in Nat,
           usage + (amount + others) <= limit
    PROVE  usage + others <= limit
  OBVIOUS

LEMMA LedgerStep ==
    ASSUME NEW s \in Snapshot, NEW q \in Request, NEW el \in Nat, LedgerInv(s),
           Successor(s, q, el), s.ops = <<>> => q.kind = "initialize"
    PROVE  LedgerInv(Apply(s, q, el))
<1> DEFINE t == Apply(s, q, el)
           u == [s EXCEPT !.runtime = @ + el]
           x == q.permit
<1>1. /\ Admits(s, q, el) /\ ValidSnapshot(t) /\ Effect(s, t, q) /\ Rest(u, t, q)
      /\ t.ops # <<>>
  BY ApplyEffect, ApplyRest DEF Successor
<1>2. /\ u.usage = s.usage /\ u.origin = s.origin /\ u.latch = s.latch /\ u.attempt = s.attempt
      /\ s.usage \in [Resource -> Nat] /\ s.origin \in [Permit -> Request \cup {Null}]
      /\ s.permit \in [Permit -> {"none", "reserved", "started"}]
      /\ \A r \in Cumulative : r \in Resource
  BY DEF Snapshot, Amounts, Resource
<1> HIDE DEF t, u
<1>3. q.kind \in Kind /\ (q.kind \in PermitKind => x \in Permit)
  BY RequestAssumption DEF Kind, PermitKind
<1>4. q.kind = "initialize" <=> s.ops = <<>>
  BY <1>1 DEF Admits
<1>5. t.latch = Null => s.latch = Null
  BY <1>1 DEF Effect
<1>6. /\ Summable(s) /\ Uncategorised(s)
      /\ s.ops # <<>> => s.policy \in Policy /\ ValidSnapshot(s) /\ Within(s)
  BY DEF LedgerInv
<1>7. \A p \in Permit : q.kind \notin PermitKind \/ p # x =>
        t.permit[p] = s.permit[p] /\ t.attempt[p] = s.attempt[p]
  BY <1>1, <1>3 DEF Effect, SamePermit, PermitKind
<1>8. q.kind \in PermitKind => NamedPermit(s, t, q)
  BY <1>1 DEF Effect
<1>9. SUFFICES /\ Summable(t) /\ Uncategorised(t) /\ t.policy \in Policy
               /\ \A r \in Cumulative :
                    t.latch = Null => t.usage[r] + Reserved(t, r) <= t.policy.limit[r]
  BY <1>1 DEF LedgerInv, Within, t
<1>10. t.latch = Null /\ s.ops # <<>> => \A r \in Cumulative : s.usage[r] + Reserved(s, r) <= s.policy.limit[r]
  BY <1>5, <1>6 DEF Within
<1>11. CASE q.kind \in {"initialize", "tighten"}
  <2>1. Active(t) = Active(s) /\ t.origin = s.origin /\ t.usage = s.usage /\ t.policy = q.policy
    BY <1>1, <1>2, <1>7, <1>11 DEF Active, Rest, PermitKind
  <2>2. q.policy \in Policy
    BY <1>11, RequestAssumption
  <2>3. Summable(t) /\ Uncategorised(t)
    BY <1>6, <1>7, <1>11, <2>1 DEF Summable, Uncategorised, Active, PermitKind
  <2>4. ASSUME NEW r \in Cumulative, t.latch = Null
        PROVE  t.usage[r] + Reserved(t, r) <= t.policy.limit[r]
    <3>1. Reserved(t, r) = Reserved(s, r) /\ Reserved(s, r) \in Nat
      BY <1>2, <1>6, <2>1, ReservedSame, ReservedType
    <3>2. CASE q.kind = "initialize"
      <4>1. Active(s) = {} /\ s.usage[r] = 0
        BY <1>2, <1>4, <3>2 DEF LedgerInv
      <4>2. Reserved(s, r) = 0
        <5>1. Reserved(s, r) = Total(Holds(s, r), {})
          BY <1>2, <1>6, <4>1, ReservedType
        <5>2. Total(Holds(s, r), {}) = 0
          BY FS_EmptySet, TotalStep
        <5>3. QED
          BY <5>1, <5>2
      <4>3. q.policy.limit[r] \in Nat
        BY <1>2, <2>2 DEF Policy, Amounts
      <4>4. QED
        BY <2>1, <3>1, <4>1, <4>2, <4>3
    <3>3. CASE q.kind = "tighten"
      <4>1. s.usage[r] + Reserved(s, r) <= q.policy.limit[r]
        BY <1>1, <3>3 DEF Admits, AdmitTighten
      <4>2. QED
        BY <2>1, <3>1, <4>1
    <3>4. QED
      BY <1>11, <3>2, <3>3
  <2>5. QED
    BY <2>1, <2>2, <2>3, <2>4
<1>12. CASE q.kind \in PermitKind
  <2>1. t.policy = s.policy /\ s.policy \in Policy /\ s.ops # <<>>
    BY <1>1, <1>4, <1>6, <1>12 DEF Effect, PermitKind
  <2>2. x \in Permit /\ NamedPermit(s, t, q)
    BY <1>3, <1>8, <1>12
  <2>3. CASE q.kind = "reserve"
    <3>1. x \notin Active(s)
      BY <1>1, <2>3 DEF Admits, AdmitReserve
    <3>2. Active(t) = Active(s) \cup {x}
      BY <1>7, <2>2, <2>3 DEF NamedPermit, Active
    <3>3. t.origin = [s.origin EXCEPT ![x] = q] /\ t.usage = s.usage /\ q.amount \in Amounts
      BY <1>1, <1>2, <2>3, RequestAssumption DEF Rest
    <3>4. /\ t.origin[x].amount = q.amount
          /\ \A p \in Active(s) : t.origin[p] = s.origin[p]
      BY <1>2, <2>2, <3>1, <3>3 DEF Active
    <3>5. ASSUME NEW r \in Resource
          PROVE  Reserved(t, r) = q.amount[r] + Reserved(s, r)
      <4>1. t.origin[x].amount \in Amounts
        BY <3>3, <3>4
      <4>2. Reserved(t, r) = t.origin[x].amount[r] + Reserved(s, r)
        BY <1>6, <3>1, <3>2, <3>4, <4>1, ReservedMore
      <4>3. QED
        BY <3>4, <4>2
    <3>6. Summable(t)
      <4>1. IsFiniteSet(Active(t))
        BY <1>6, <3>2, FS_AddElement DEF Summable
      <4>2. QED
        BY <1>6, <3>2, <3>3, <3>4, <4>1 DEF Summable
    <3>7. Uncategorised(t)
      BY <1>1, <1>6, <1>7, <2>3, <3>2 DEF Uncategorised, Rest, Active
    <3>8. ASSUME NEW r \in Cumulative
          PROVE  t.usage[r] + Reserved(t, r) <= t.policy.limit[r]
      <4>1. s.usage[r] + Reserved(s, r) + q.amount[r] <= s.policy.limit[r]
        BY <1>1, <2>3 DEF Admits, AdmitReserve, AdmitReservation
      <4>2. Reserved(t, r) = q.amount[r] + Reserved(s, r)
        BY <1>2, <3>5
      <4>3. s.usage[r] \in Nat /\ Reserved(s, r) \in Nat /\ q.amount[r] \in Nat
        BY <1>2, <1>6, <3>3, ReservedType DEF Amounts
      <4>4. t.usage[r] = s.usage[r] /\ t.policy.limit[r] = s.policy.limit[r]
        BY <2>1, <3>3
      <4>5. QED
        BY <4>1, <4>2, <4>3, <4>4
    <3>9. QED
      BY <2>1, <3>6, <3>7, <3>8
  <2>4. CASE Closing(q)
    <3>1. s.permit[x] # "none" /\ x \in Active(s)
      BY <1>1, <2>2, <2>4 DEF Admits, AdmitSettle, Closing, Active
    <3>2. Active(t) = Active(s) \ {x}
      BY <1>7, <2>2, <2>4 DEF NamedPermit, Active, Closing
    <3>3. t.origin = s.origin
      BY <1>1, <1>2, <2>4 DEF Rest, Closing
    <3>4. Summable(t)
      <4>1. IsFiniteSet(Active(t))
        BY <1>6, <3>2, FS_Subset DEF Summable
      <4>2. QED
        BY <1>6, <3>2, <3>3, <4>1 DEF Summable
    <3>5. Uncategorised(t)
      BY <1>6, <1>7, <3>2 DEF Uncategorised, Active
    <3>6. ASSUME NEW r \in Resource
          PROVE  Reserved(s, r) = s.origin[x].amount[r] + Reserved(t, r)
      <4>1. Active(s) = Active(t) \cup {x} /\ x \notin Active(t) /\ s.origin[x].amount \in Amounts
        BY <1>6, <3>1, <3>2 DEF Summable
      <4>2. QED
        BY <3>3, <3>4, <4>1, ReservedMore
    <3>7. ASSUME NEW r \in Cumulative, t.latch = Null
          PROVE  t.usage[r] + Reserved(t, r) <= t.policy.limit[r]
      <4>1. s.usage[r] + Reserved(s, r) <= s.policy.limit[r]
        BY <1>10, <2>1, <3>7
      <4>2. Reserved(s, r) = s.origin[x].amount[r] + Reserved(t, r)
        BY <1>2, <3>6
      <4>3. /\ s.usage[r] \in Nat /\ Reserved(t, r) \in Nat /\ s.origin[x].amount[r] \in Nat
            /\ s.policy.limit[r] \in Nat
        BY <1>2, <1>6, <2>1, <3>1, <3>4, ReservedType DEF Amounts, Summable, Policy
      <4>4. t.policy.limit[r] = s.policy.limit[r]
        BY <2>1
      <4>5. CASE q.kind = "settle"
        <5>1. Spends(u, t, q)
          BY <1>1, <4>5 DEF Rest
        <5>2. q.actual[r] \in Nat
          BY <1>2, <4>5, RequestAssumption DEF Amounts
        <5>3. t.usage[r] = s.usage[r] + q.actual[r] /\ q.actual[r] <= s.origin[x].amount[r]
          BY <1>2, <3>7, <4>3, <5>1 DEF Spends
        <5>4. s.usage[r] + (s.origin[x].amount[r] + Reserved(t, r)) <= s.policy.limit[r]
          BY <4>1, <4>2
        <5>5. (s.usage[r] + q.actual[r]) + Reserved(t, r) <= s.policy.limit[r]
          BY <4>3, <5>2, <5>3, <5>4, SpendsWithin, SMTT(60)
        <5>6. QED
          BY <4>4, <5>3, <5>5
      <4>6. CASE q.kind # "settle"
        <5>1. t.usage[r] = s.usage[r]
          BY <1>1, <1>2, <4>6 DEF Rest
        <5>2. s.usage[r] + Reserved(t, r) <= s.policy.limit[r]
          BY <4>1, <4>2, <4>3, FreesWithin
        <5>3. QED
          BY <4>4, <5>1, <5>2
      <4>7. QED
        BY <4>5, <4>6
    <3>8. QED
      BY <2>1, <3>4, <3>5, <3>7
  <2>5. CASE q.kind \in {"start", "request_cancel", "record_cancel"}
    <3>1. t.permit[x] # "none" <=> s.permit[x] # "none"
      <4>1. q.kind = "start" => s.permit[x] = "reserved" /\ t.permit[x] = "started"
        BY <1>1, <2>2 DEF Admits, AdmitStart, NamedPermit
      <4>2. q.kind # "start" => t.permit[x] = s.permit[x]
        BY <2>2, <2>5 DEF NamedPermit
      <4>3. QED
        BY <4>1, <4>2
    <3>2. Active(t) = Active(s)
      BY <1>7, <3>1 DEF Active
    <3>3. t.origin = s.origin /\ t.usage = s.usage
      BY <1>1, <1>2, <2>5 DEF Rest
    <3>4. t.attempt[x].category = s.attempt[x].category
      BY <1>1, <1>2, <2>2, <2>5 DEF Rest, NamedPermit
    <3>5. Uncategorised(t)
      BY <1>6, <1>7, <3>2, <3>4 DEF Uncategorised, Active
    <3>6. Summable(t)
      BY <1>6, <3>2, <3>3 DEF Summable
    <3>7. ASSUME NEW r \in Cumulative, t.latch = Null
          PROVE  t.usage[r] + Reserved(t, r) <= t.policy.limit[r]
      <4>1. Reserved(t, r) = Reserved(s, r)
        BY <1>2, <1>6, <3>2, <3>3, ReservedSame
      <4>2. QED
        BY <1>10, <2>1, <3>3, <3>7, <4>1
    <3>8. QED
      BY <2>1, <3>5, <3>6, <3>7
  <2>6. QED
    BY <1>12, <2>3, <2>4, <2>5 DEF PermitKind, Kind, Closing
<1>13. QED
  BY <1>3, <1>11, <1>12 DEF PermitKind

-----------------------------------------------------------------------------
(* The invariant of the protocol: the published ledger is valid, and the   *)
(* first successor of nothing is the creation of the run.                  *)

CreationInv(c) ==
    ~Idle(c) /\ Generation(work[c].next) = 1 => work[c].req.kind = "initialize"

AccountsInv == loadable = TRUE /\ LedgerInv(st) /\ \A c \in Client : CreationInv(c)

LEMMA AccountsInit == Init => AccountsInv
<1> SUFFICES ASSUME Init PROVE AccountsInv
  OBVIOUS
<1>1. Active(st) = {} /\ st.ops = <<>> /\ \A r \in Resource : st.usage[r] = 0
  BY DEF Init, Blank, Active
<1>2. LedgerInv(st)
  BY <1>1, FS_EmptySet DEF LedgerInv, Summable, Uncategorised
<1>3. QED
  BY <1>2 DEF Init, AccountsInv, CreationInv, Idle

LEMMA CreationStep ==
    ASSUME BudgetInv, TypeOK', NEW c \in Client, \A d \in Client : CreationInv(d), WorkStep(c)
    PROVE  \A d \in Client : CreationInv(d)'
<1>1. work \in [Client -> Work \cup {Null}] /\ st \in Snapshot
  BY DEF BudgetInv, TypeOK
<1>2. ASSUME NEW d \in Client,
             work'[d] = Null \/ (~Idle(d) /\ work'[d].req = work[d].req
                                          /\ work'[d].next = work[d].next)
      PROVE  CreationInv(d)'
  BY <1>2 DEF CreationInv, Idle, Generation
<1>3. ASSUME NEW d \in Client, work'[d] = work[d]
      PROVE  CreationInv(d)'
  BY <1>2, <1>3 DEF Idle
<1>4. CASE work' = work
  BY <1>3, <1>4
<1>5. CASE Done(c)
  BY <1>1, <1>2, <1>3, <1>5 DEF Done
<1>6. CASE ~Idle(c) /\ work' = [work EXCEPT ![c].stage = "store"] /\ st' = st
  <2>1. work[c] \in Work
    BY <1>1, <1>6 DEF Idle
  <2>2. work'[c] = [work[c] EXCEPT !.stage = "store"]
    BY <1>1, <1>6
  <2>3. work'[c].req = work[c].req /\ work'[c].next = work[c].next
    BY <2>1, <2>2 DEF Work
  <2>4. \A d \in Client \ {c} : work'[d] = work[d]
    BY <1>1, <1>6
  <2>5. QED
    BY <1>2, <1>3, <1>6, <2>3, <2>4
<1>7. ASSUME NEW q \in Request, NEW v \in Reading, Prepare(c, q, v)
      PROVE  \A d \in Client : CreationInv(d)'
  <2>1. PICK el \in Nat, w \in Work :
          work' = [work EXCEPT ![c] = w] /\ w.req = q /\ w.next = Apply(st, q, el)
    BY <1>7, PreparedWork DEF BudgetInv
  <2>2. Generation(w.next) = Generation(st) + 1 /\ Generation(st) \in Nat
    BY <1>1, <2>1, LastOperation, GenerationType
  <2>3. st.ops = <<>> => q.kind = "initialize"
    BY <1>7 DEF Prepare, Fresh, MustLoad, Readable
  <2>4. Generation(st) = 0 => st.ops = <<>>
    BY <1>1 DEF Generation, Snapshot, Operations
  <2>5. work'[c] = w /\ \A d \in Client \ {c} : work'[d] = work[d]
    BY <1>1, <2>1
  <2>6. CreationInv(c)'
    <3>1. Generation(w.next) = 1 => w.req.kind = "initialize"
      BY <2>1, <2>2, <2>3, <2>4
    <3>2. work[c]' = w
      BY <2>5
    <3>3. QED
      BY <3>1, <3>2 DEF CreationInv, Generation
  <2>7. QED
    BY <1>3, <2>5, <2>6
<1>8. QED
  BY <1>4, <1>5, <1>6, <1>7 DEF WorkStep

\* The append of a prepared successor keeps the ledger sound and loadable.
LEMMA AppendAccounts ==
    ASSUME BudgetInv, AccountsInv, NEW c \in Client, ~Idle(c), AppendNext(c)
    PROVE  loadable' = TRUE /\ LedgerInv(st')
<1>1. work[c].req \in Request /\ st \in Snapshot /\ work[c].next \in Snapshot
  BY DEF BudgetInv, TypeOK, Idle, Work
<1>2. PICK el \in Nat : /\ Successor(st, work[c].req, el)
                        /\ st' = Apply(st, work[c].req, el)
  BY AppendIsStep
<1>3. st.ops = <<>> => work[c].req.kind = "initialize"
  <2>1. Generation(work[c].next) = Generation(st) + 1
    BY DEF AppendNext, Unchanged
  <2>2. st.ops = <<>> => Generation(st) = 0
    BY DEF Generation
  <2>3. QED
    BY <2>1, <2>2 DEF AccountsInv, CreationInv
<1>4. LedgerInv(st')
  BY <1>1, <1>2, <1>3, LedgerStep DEF AccountsInv
<1>5. st.ops # <<>> => ValidSuccessor(st, st')
  <2> SUFFICES ASSUME st.ops # <<>> PROVE ValidSuccessor(st, st')
    OBVIOUS
  <2>1. ValidSnapshot(st) /\ Uncategorised(st)
    BY DEF AccountsInv, LedgerInv
  <2>2. ValidSuccessor(st, Apply(st, work[c].req, el))
    BY <1>1, <1>2, <2>1, SuccessorLoads
  <2>3. QED
    BY <1>2, <2>2
<1>6. loadable' = TRUE
  BY <1>5 DEF AppendNext, AccountsInv
<1>7. QED
  BY <1>4, <1>6

LEMMA AccountsNext == BudgetInv /\ TypeOK' /\ AccountsInv /\ [Next]_vars => AccountsInv'
<1> SUFFICES ASSUME BudgetInv, TypeOK', AccountsInv, [Next]_vars PROVE AccountsInv'
  OBVIOUS
<1>1. CASE UNCHANGED vars
  BY <1>1 DEF AccountsInv, CreationInv, Idle, vars
<1>2. CASE Next
  <2>1. PICK c \in Client :
          \/ Call(c) \/ Publish(c) \/ Restart(c) \/ ExplicitRebase(c) \/ ResumeRefused(c)
          \/ \E v \in Reading : Resume(c, v)
    BY <1>2 DEF Next
  <2>2. /\ UNCHANGED <<st, loadable>> \/ (~Idle(c) /\ AppendNext(c) /\ Done(c))
        /\ WorkStep(c)
    BY <2>1, StepShape DEF BudgetInv
  <2>3. \A d \in Client : CreationInv(d)'
    BY <2>2, CreationStep DEF AccountsInv
  <2>4. loadable' = TRUE /\ LedgerInv(st')
    BY <2>2, AppendAccounts DEF AccountsInv
  <2>5. QED
    BY <2>3, <2>4 DEF AccountsInv
<1>3. QED
  BY <1>1, <1>2

LEMMA AccountsAreSound == BudgetInv /\ AccountsInv => LedgerIsSound
<1> SUFFICES ASSUME BudgetInv, AccountsInv PROVE LedgerIsSound
  OBVIOUS
<1>1. st.ops # <<>> => ValidSnapshot(st) /\ Within(st)
  BY DEF AccountsInv, LedgerInv
<1>2. QED
  BY <1>1 DEF LedgerIsSound, EveryPublishedStateLoads, NothingOvercommitted, ValidSnapshot,
     Within, AccountsInv

\* The published history can always be loaded, and while no failure is latched
\* the usage and all reservations together stay within the policy, although
\* every process admits on a snapshot that may be stale (_publish,
\* _append_operation, _admit_reservation, tighten_policy).
THEOREM LedgerSound == Spec => []LedgerIsSound
<1>1. Spec => []BudgetInv /\ []TypeOK
  BY BudgetInvariant, TypeCorrect, PTL
<1>2. Spec => []AccountsInv
  BY <1>1, AccountsInit, AccountsNext, PTL DEF Spec
<1>3. QED
  BY <1>1, <1>2, AccountsAreSound, PTL

=============================================================================

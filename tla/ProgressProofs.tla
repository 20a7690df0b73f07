-------------------------- MODULE ProgressProofs ----------------------------
(***************************************************************************)
(* Proofs about the waits of the program: RevisionLock, for any number of  *)
(* threads and processes and whatever fails or crashes; PreparationLease,  *)
(* for any number of interrupts; BridgeTransport, for any length of the    *)
(* streams and any number of executions and deaths of the parent; and the  *)
(* three together, as MCProgress composes them.  The last part is about    *)
(* what decides that a turn may be sent: the controller of the bridge,     *)
(* CodexBridge, for any number of callers, runs and roles.                 *)
(***************************************************************************)
EXTENDS MCProgress, SequenceTheorems, FiniteSetTheorems, WellFoundedInduction, TLAPS

\* A holder is a thread between a granted kernel lock and its release.  The
\* kernel lock never outlives the holder that took it: a crash, a failed
\* verification and a release all drop it.
HolderExists == kernel # Null => pc[kernel] \in {"locked", "held"}

\* The inductive invariant: shapes, one holder, and no key without an owner.
LockInv == TypeOK /\ LeaseIsExclusive /\ HolderExists /\ NoLeakedKey

-----------------------------------------------------------------------------
(* What one action does to the owners of the lock and of the keys.         *)

\* A step that leaves the kernel lock alone moves one thread, which becomes or
\* stops being a holder only together with the kernel lock.
LEMMA HolderMoves ==
    ASSUME LockInv, NEW t \in Thread, NEW l \in Stage, Goto(t, l),
           \/ kernel' = kernel /\ (pc[t] \in {"locked", "held"} <=> l \in {"locked", "held"})
           \/ kernel = Null /\ kernel' = t /\ l = "locked"
           \/ kernel = t /\ kernel' = Null /\ l \notin {"locked", "held"}
    PROVE  LeaseIsExclusive' /\ HolderExists'
<1>1. /\ pc \in [Thread -> Stage] /\ pc'[t] = l
      /\ \A u \in Thread : u # t => pc'[u] = pc[u]
      /\ Null \notin Thread /\ kernel \in Thread \cup {Null}
  BY LockAssumption DEF LockInv, TypeOK, Goto
<1>2. /\ \A u \in Thread : pc[u] \in {"locked", "held"} => kernel = u
      /\ kernel # Null => pc[kernel] \in {"locked", "held"}
  BY DEF LockInv, LeaseIsExclusive, HolderExists
<1>3. LeaseIsExclusive'
  BY <1>1, <1>2 DEF LeaseIsExclusive
<1>4. HolderExists'
  BY <1>1, <1>2 DEF HolderExists
<1> QED BY <1>3, <1>4

\* A step that drops a thread's key, or that leaves the thread inside acquire or
\* release, leaks no key.
LEMMA KeyMoves ==
    ASSUME LockInv, NEW t \in Thread, NEW l \in Stage, Goto(t, l),
           \/ DropKey(t) /\ unreleased' = unreleased
           \/ /\ l \notin {"idle", "contended"}
              /\ registry' \subseteq registry \cup {ProcessOf[t]}
              /\ unreleased' = unreleased
           \/ registry' = registry /\ unreleased' = unreleased \cup {ProcessOf[t]}
    PROVE  NoLeakedKey'
<1> SUFFICES ASSUME NEW p \in registry', p \notin unreleased'
             PROVE  \E u \in Thread : ProcessOf[u] = p /\ pc'[u] \notin {"idle", "contended"}
  BY DEF NoLeakedKey
<1>1. /\ pc \in [Thread -> Stage] /\ pc'[t] = l
      /\ \A u \in Thread : u # t => pc'[u] = pc[u]
  BY DEF LockInv, TypeOK, Goto
<1>2. CASE p = ProcessOf[t]
  BY <1>1, <1>2 DEF DropKey
<1>3. CASE p # ProcessOf[t]
  <2>1. p \in registry /\ p \notin unreleased
    BY <1>3 DEF DropKey
  <2>2. PICK u \in Thread : ProcessOf[u] = p /\ pc[u] \notin {"idle", "contended"}
    BY <2>1 DEF LockInv, NoLeakedKey
  <2> QED BY <1>1, <1>3, <2>2
<1> QED BY <1>2, <1>3

-----------------------------------------------------------------------------
LEMMA InitLock == Init => LockInv
  BY LockAssumption DEF Init, LockInv, TypeOK, LeaseIsExclusive, HolderExists, NoLeakedKey, Stage

LEMMA TypeStep ==
    ASSUME TypeOK, [Next]_vars
    PROVE  TypeOK'
<1> USE LockAssumption DEF TypeOK
<1>1. ASSUME NEW t \in Thread, Reserve(t) \/ Progress(t)
      PROVE  TypeOK'
  BY <1>1 DEF Reserve, Progress, CreateAuthority, WriteAuthority, OpenAuthority,
     AuthorityUnavailable, KernelAcquire, KernelContended, ReleaseAgain, GrantLease,
     KernelRelease, RegistryRelease, DropKey, Goto, Stage
<1>2. ASSUME NEW t \in Thread,
             OpenFails(t) \/ KernelCallFails(t) \/ VerifyFails(t) \/ ReleaseFails(t)
      PROVE  TypeOK'
  BY <1>2 DEF OpenFails, KernelCallFails, VerifyFails, ReleaseFails, DropKey, Goto, Stage
<1>3. ASSUME NEW p \in Process, Crash(p)
      PROVE  TypeOK'
  BY <1>3 DEF Crash, Stage
<1>4. CASE UNCHANGED vars
  BY <1>4 DEF vars
<1> QED BY <1>1, <1>2, <1>3, <1>4 DEF Next

\* Each step of a call of acquire_authority or release, failing ones included.
LEMMA CallStep ==
    ASSUME LockInv, NEW t \in Thread,
           \/ Reserve(t) \/ Progress(t) \/ OpenFails(t) \/ KernelCallFails(t)
           \/ VerifyFails(t) \/ ReleaseFails(t)
    PROVE  LeaseIsExclusive' /\ HolderExists' /\ NoLeakedKey'
<1> USE DEF Stage
<1>t. pc[t] \in {"locked", "held"} => kernel = t
  BY DEF LockInv, LeaseIsExclusive
<1>1. CASE Reserve(t)
  BY <1>1, HolderMoves, KeyMoves DEF Reserve
<1>2. CASE CreateAuthority(t)
  BY <1>2, HolderMoves, KeyMoves DEF CreateAuthority
<1>3. CASE WriteAuthority(t)
  BY <1>3, HolderMoves, KeyMoves DEF WriteAuthority
<1>4. CASE OpenAuthority(t)
  BY <1>4, HolderMoves, KeyMoves DEF OpenAuthority
<1>5. CASE AuthorityUnavailable(t)
  BY <1>5, HolderMoves, KeyMoves DEF AuthorityUnavailable
<1>6. CASE KernelAcquire(t)
  BY <1>6, HolderMoves, KeyMoves DEF KernelAcquire
<1>7. CASE KernelContended(t)
  BY <1>7, HolderMoves, KeyMoves DEF KernelContended
<1>8. CASE ReleaseAgain(t)
  BY <1>8, HolderMoves, KeyMoves DEF ReleaseAgain
<1>9. CASE GrantLease(t)
  BY <1>9, HolderMoves, KeyMoves DEF GrantLease
<1>10. CASE KernelRelease(t)
  BY <1>10, <1>t, HolderMoves, KeyMoves DEF KernelRelease
<1>11. CASE RegistryRelease(t)
  BY <1>11, HolderMoves, KeyMoves DEF RegistryRelease
<1>12. CASE OpenFails(t)
  BY <1>12, HolderMoves, KeyMoves DEF OpenFails
<1>13. CASE KernelCallFails(t)
  BY <1>13, HolderMoves, KeyMoves DEF KernelCallFails
<1>14. CASE VerifyFails(t)
  BY <1>14, <1>t, HolderMoves, KeyMoves DEF VerifyFails
<1>15. CASE ReleaseFails(t)
  BY <1>15, <1>t, HolderMoves, KeyMoves DEF ReleaseFails
<1> QED BY <1>1, <1>2, <1>3, <1>4, <1>5, <1>6, <1>7, <1>8, <1>9, <1>10, <1>11, <1>12,
           <1>13, <1>14, <1>15 DEF Progress

\* The crash of a process ends its threads, its registry and its kernel lock
\* together.
LEMMA CrashStep ==
    ASSUME LockInv, NEW p \in Process, Crash(p)
    PROVE  LeaseIsExclusive' /\ HolderExists' /\ NoLeakedKey'
<1> USE LockAssumption DEF LockInv, TypeOK
<1>1. LeaseIsExclusive'
  BY DEF Crash, LeaseIsExclusive
<1>2. HolderExists'
  BY DEF Crash, HolderExists
<1>3. NoLeakedKey'
  BY DEF Crash, NoLeakedKey
<1> QED BY <1>1, <1>2, <1>3

LEMMA LockStep ==
    ASSUME LockInv, [Next]_vars
    PROVE  LockInv'
<1>1. TypeOK'
  BY TypeStep DEF LockInv
<1>2. CASE UNCHANGED vars
  BY <1>1, <1>2 DEF vars, LockInv, LeaseIsExclusive, HolderExists, NoLeakedKey
<1>3. CASE Next
  BY <1>1, <1>3, CallStep, CrashStep DEF Next, LockInv
<1> QED BY <1>2, <1>3

-----------------------------------------------------------------------------
(* The theorems.                                                           *)

LEMMA Invariance == Spec => []LockInv
  BY InitLock, LockStep, PTL DEF Spec

\* At most one thread of all processes is between a granted kernel lock and its
\* release, and the kernel knows it (acquire_authority, AuthorityLease.release).
THEOREM LockIsExclusive == Spec => []LeaseIsExclusive
  BY Invariance, PTL DEF LockInv

\* No error path of acquire_authority leaks a reservation of the registry, in
\* spite of the handlers that release it twice.
THEOREM NoKeyLeaks == Spec => []NoLeakedKey
  BY Invariance, PTL DEF LockInv

\* Two threads that were granted the lease at the same time are one thread: the
\* sections that the stores run under the authority do not overlap.
MutualExclusion ==
    \A t, u \in Thread :
      pc[t] \in {"locked", "held"} /\ pc[u] \in {"locked", "held"} => t = u

THEOREM SectionsDoNotOverlap == Spec => []MutualExclusion
<1>1. LockInv => MutualExclusion
  BY DEF LockInv, LeaseIsExclusive, MutualExclusion
<1> QED BY <1>1, Invariance, PTL

\* The lock is never taken over: between two holders it was free, and the first
\* had released it, had failed its verification, or had died.
HandedBackFirst ==
    [][kernel # Null /\ kernel' # kernel =>
         kernel' = Null /\ pc[kernel] \in {"locked", "held"} /\ pc'[kernel] \notin {"locked", "held"}]_vars

THEOREM NeverTakenOver == Spec => HandedBackFirst
<1> DEFINE HandsBack ==
      kernel # Null /\ kernel' # kernel =>
        kernel' = Null /\ pc[kernel] \in {"locked", "held"} /\ pc'[kernel] \notin {"locked", "held"}
<1>1. LockInv /\ LockInv' /\ [Next]_vars => [HandsBack]_vars
  <2> SUFFICES ASSUME LockInv, LockInv', Next, kernel # Null, kernel' # kernel
               PROVE  HandsBack
    OBVIOUS
  <2>1. kernel' = Null
    BY DEF Next, Reserve, Progress, CreateAuthority, WriteAuthority, OpenAuthority,
       AuthorityUnavailable, KernelAcquire, KernelContended, ReleaseAgain, GrantLease,
       KernelRelease, RegistryRelease, OpenFails, KernelCallFails, VerifyFails, ReleaseFails, Crash
  <2>2. kernel \in Thread /\ pc[kernel] \in {"locked", "held"}
    BY DEF LockInv, HolderExists, TypeOK
  <2>3. \A t \in Thread : pc'[t] \notin {"locked", "held"}
    BY <2>1, LockAssumption DEF LockInv, LeaseIsExclusive
  <2> QED BY <2>1, <2>2, <2>3
<1> QED BY <1>1, Invariance, PTL DEF Spec, HandedBackFirst


-----------------------------------------------------------------------------
(***************************************************************************)
(* The lease under which a worker prepares a child.  Until the caller has  *)
(* asked for an abort a child that was published is in the lease; the      *)
(* caller that asked for it holds what was published before, and what is   *)
(* published later the worker ends itself.                                 *)
(***************************************************************************)
Lone == {"none", "recorded", "launched", "create", "publish_error"}
Own == {"publish", "terminate"}

LeaseTypes ==
    /\ worker \in Lone \cup Own \cup {"notify", "ended"}
    /\ child \in {"none", "alive", "gone"}
    /\ prepared \in BOOLEAN /\ error \in BOOLEAN /\ done \in BOOLEAN /\ abort \in BOOLEAN
    /\ taken \in BOOLEAN
    /\ caller \in [phase : {"prepare", "use", "first", "last", "returned"},
                   pc : Lease!Preparing \cup Lease!Cleaning \cup {"child", "end"}]
    /\ caller.phase = "prepare" => caller.pc \in Lease!Preparing
    /\ caller.phase = "use" => caller.pc = "child"
    /\ caller.phase \in {"first", "last"} => caller.pc \in Lease!Cleaning
    /\ caller.phase = "returned" => caller.pc = "end"

LeaseInv ==
    /\ LeaseTypes
    /\ worker \in Lone => child = "none"
    /\ prepared => worker \in {"notify", "ended"}
    /\ done => worker = "ended"
    /\ taken => worker \in {"notify", "ended"}
    /\ worker \in Own => child = "alive"
    /\ child = "alive" => worker \in Own \/ prepared
    /\ caller.phase = "prepare" =>
          /\ caller.pc = "start" => worker = "none"
          /\ caller.pc = "launch" => worker = "recorded"
          /\ caller.pc = "read" => done
    /\ caller.phase \in {"prepare", "use"} => (prepared => child = "alive")
    /\ caller.phase = "use" => prepared /\ worker = "ended"
    /\ caller.phase \in {"first", "last"} /\ caller.pc # "request" => abort
    /\ caller.pc \in {"join", "reread", "terminate"} => (prepared => taken)
    /\ caller.pc = "release" => (child = "alive" => worker \in Own)
    /\ caller.phase = "returned" => abort /\ (child = "alive" => worker \in Own)

LEMMA LeaseInit == Lease!Init => LeaseInv
<1> SUFFICES ASSUME Lease!Init PROVE LeaseInv
  OBVIOUS
<1>1. /\ ~prepared /\ ~error /\ ~done /\ ~abort /\ ~taken
      /\ {prepared, error, done, abort, taken} \subseteq BOOLEAN
  BY DEF Lease!Init
<1>2. worker = "none" /\ child = "none" /\ caller = [phase |-> "prepare", pc |-> "start"]
  BY DEF Lease!Init
<1> QED
  BY <1>1, <1>2 DEF LeaseInv, LeaseTypes, Lone, Own, Lease!Preparing, Lease!Cleaning

LEMMA CallerKeeps ==
    ASSUME LeaseInv, Lease!CallerStep
    PROVE  LeaseInv'
<1> USE DEF LeaseInv, LeaseTypes, Lone, Own, Lease!Preparing, Lease!Cleaning, Lease!At, Lease!Goto
<1>1. CASE Lease!RecordWorker BY <1>1 DEF Lease!RecordWorker
<1>2. CASE Lease!LaunchWorker BY <1>2 DEF Lease!LaunchWorker
<1>3. CASE Lease!WorkerStarted BY <1>3 DEF Lease!WorkerStarted
<1>4. CASE Lease!AwaitResult BY <1>4 DEF Lease!AwaitResult
<1>5. CASE Lease!ReadResult BY <1>5 DEF Lease!ReadResult
<1>6. CASE Lease!UseChild BY <1>6 DEF Lease!UseChild
<1>7. CASE Lease!RequestAbort BY <1>7 DEF Lease!RequestAbort
<1>8. CASE Lease!JoinWorker BY <1>8 DEF Lease!JoinWorker, Lease!NotAlive
<1>9. CASE Lease!RereadResult BY <1>9 DEF Lease!RereadResult
<1>10. CASE Lease!TerminateChild BY <1>10 DEF Lease!TerminateChild
<1>11. CASE Lease!Release
  <2>1. /\ abort' /\ ~prepared' /\ ~error' /\ ~taken'
        /\ {prepared', error', abort', taken'} \subseteq BOOLEAN
    BY <1>11 DEF Lease!Release
  <2>2. caller.pc = "release" /\ UNCHANGED <<worker, child, done>>
    BY <1>11 DEF Lease!Release
  <2>3. caller' = [phase |-> "last", pc |-> "request"] \/ caller' = [phase |-> "returned", pc |-> "end"]
    BY <1>11 DEF Lease!Release
  <2> QED
    BY <2>1, <2>2, <2>3
<1> QED
  BY <1>1, <1>2, <1>3, <1>4, <1>5, <1>6, <1>7, <1>8, <1>9, <1>10, <1>11 DEF Lease!CallerStep

LEMMA WorkerKeeps ==
    ASSUME LeaseInv, Lease!WorkerStep
    PROVE  LeaseInv'
<1> USE DEF LeaseInv, LeaseTypes, Lone, Own, Lease!Preparing, Lease!Cleaning
<1>1. CASE Lease!BeginWork BY <1>1 DEF Lease!BeginWork
<1>2. CASE Lease!CreateChild BY <1>2 DEF Lease!CreateChild
<1>3. CASE Lease!PublishPrepared BY <1>3 DEF Lease!PublishPrepared
<1>4. CASE Lease!TerminateOwn BY <1>4 DEF Lease!TerminateOwn
<1>5. CASE Lease!PublishError BY <1>5 DEF Lease!PublishError
<1>6. CASE Lease!Notify BY <1>6 DEF Lease!Notify
<1> QED
  BY <1>1, <1>2, <1>3, <1>4, <1>5, <1>6 DEF Lease!WorkerStep

LEMMA InterruptKeeps ==
    ASSUME LeaseInv, Lease!Interrupt, ~InterruptedCleanup
    PROVE  LeaseInv'
<1> USE DEF LeaseInv, LeaseTypes, Lone, Own, Lease!Preparing, Lease!Cleaning, Lease!Goto
<1>1. UNCHANGED <<worker, child, prepared, error, done, abort>>
  BY DEF Lease!Interrupt
<1>3. taken' = taken \/ ~taken'
  BY DEF Lease!Interrupt
<1>4. /\ caller.phase = "prepare" => caller' = [phase |-> "first", pc |-> "request"]
      /\ caller.phase # "prepare" => caller' = [phase |-> "last", pc |-> "request"]
      /\ caller.phase \in {"prepare", "use", "first"}
  BY DEF Lease!Interrupt
<1>5. taken' \in BOOLEAN
  BY DEF Lease!Interrupt
<1> QED
  BY <1>1, <1>3, <1>4, <1>5


\* What the lease promises: a child that is handed out is alive and nobody
\* else's, and none is left to nobody.
LEMMA LeasePromises == LeaseInv => Lease!NothingIsLeftBehind /\ Lease!ChildIsUsable
  BY DEF LeaseInv, Lone, Own, Lease!NothingIsLeftBehind, Lease!ChildIsUsable

LEMMA LeaseStutters ==
    ASSUME LeaseInv, UNCHANGED leaseVars
    PROVE  LeaseInv'
  BY DEF LeaseInv, LeaseTypes, leaseVars

LEMMA LeaseStep ==
    ASSUME LeaseInv, ~InterruptedCleanup, Lease!Next
    PROVE  LeaseInv'
  BY CallerKeeps, WorkerKeeps, InterruptKeeps DEF Lease!Next

-----------------------------------------------------------------------------
(***************************************************************************)
(* The event streams of a child.  A stream says an event; it is ordered    *)
(* when a turn is only said under a thread that was said before.           *)
(***************************************************************************)
Event == {"thread", "anonymous", "turn", "message", "unapproved", "completed", "junk",
          "ready", "intent", "launched", "result", "failure_before", "failure_after"}

Says(s, e) == \E i \in 1..Len(s) : s[i] = e
Opens(s) == Says(s, "thread") \/ Says(s, "anonymous")
Ordered(s) == \A i \in 1..Len(s) :
                 s[i] = "turn" => \E j \in 1..(i - 1) : s[j] \in {"thread", "anonymous"}

LEMMA EmptyStream == <<>> \in Seq(Event) /\ Ordered(<<>>) /\ \A e : ~Says(<<>>, e)
  BY DEF Ordered, Says

LEMMA LongerStream ==
    ASSUME NEW s \in Seq(Event), NEW e \in Event, Ordered(s), e = "turn" => Opens(s)
    PROVE  /\ Append(s, e) \in Seq(Event)
           /\ Ordered(Append(s, e))
           /\ \A f : Says(Append(s, e), f) <=> Says(s, f) \/ f = e
<1> DEFINE t == Append(s, e)
<1>1. /\ t \in Seq(Event) /\ Len(t) = Len(s) + 1 /\ Len(s) \in Nat
      /\ \A i \in 1..Len(s) : t[i] = s[i]
      /\ t[Len(s) + 1] = e
  BY AppendProperties
<1> HIDE DEF t
<1>2. \A f : Says(t, f) <=> Says(s, f) \/ f = e
  BY <1>1 DEF Says
<1>3. ASSUME NEW i \in 1..Len(t), t[i] = "turn"
      PROVE  \E j \in 1..(i - 1) : t[j] \in {"thread", "anonymous"}
  <2>1. CASE i \in 1..Len(s)
    BY <1>1, <1>3, <2>1 DEF Ordered
  <2>2. CASE i = Len(s) + 1
    <3>0. e = "turn"
      BY <1>1, <1>3, <2>2
    <3>1. PICK j \in 1..Len(s) : s[j] \in {"thread", "anonymous"}
      BY <3>0 DEF Opens, Says
    <3>2. t[j] = s[j] /\ j \in 1..(i - 1)
      BY <1>1, <2>2, <3>1
    <3> QED BY <3>1, <3>2
  <2>3. i \in 1..Len(s) \/ i = Len(s) + 1
    BY <1>1
  <2> QED BY <2>1, <2>2, <2>3
<1>4. Ordered(t)
  BY <1>3 DEF Ordered
<1> QED BY <1>1, <1>2, <1>4 DEF t

LEMMA ShorterStream ==
    ASSUME NEW s \in Seq(Event), Ordered(s), NEW n \in 0..Len(s)
    PROVE  /\ SubSeq(s, 1, n) \in Seq(Event)
           /\ Ordered(SubSeq(s, 1, n))
           /\ \A f : Says(SubSeq(s, 1, n), f) => Says(s, f)
<1> DEFINE t == SubSeq(s, 1, n)
<1>1. /\ t \in Seq(Event) /\ Len(t) = n /\ Len(s) \in Nat
      /\ \A i \in 1..n : t[i] = s[i]
  BY SubSeqProperties
<1> HIDE DEF t
<1>2. Ordered(t) /\ \A f : Says(t, f) => Says(s, f)
  BY <1>1 DEF Ordered, Says
<1> QED BY <1>1, <1>2 DEF t

LEMMA SameCardinality ==
    ASSUME NEW S
    PROVE  Transport!Cardinality(S) = Cardinality(S)
  BY DEF Transport!Cardinality, Cardinality

\* What is counted is what is said.
LEMMA CountedEvents ==
    ASSUME NEW s \in Seq(Event), NEW e
    PROVE  Transport!Count(s, e) \in Nat /\ (Transport!Count(s, e) = 0 <=> ~Says(s, e))
<1> DEFINE S == {i \in DOMAIN s : s[i] = e}
<1>1. Len(s) \in Nat /\ DOMAIN s = 1..Len(s)
  BY LenProperties
<1>2. IsFiniteSet(1..Len(s)) /\ S \subseteq 1..Len(s)
  BY <1>1, FS_Interval
<1>3. IsFiniteSet(S)
  BY <1>2, FS_Subset
<1>4. Cardinality(S) \in Nat /\ (Cardinality(S) = 0 <=> S = {})
  BY <1>3, FS_CardinalityType, FS_EmptySet
<1>5. S = {} <=> ~Says(s, e)
  BY <1>1 DEF Says
<1>6. Transport!Count(s, e) = Cardinality(S)
  BY SameCardinality DEF Transport!Count
<1> HIDE DEF S
<1> QED BY <1>4, <1>5, <1>6

LEMMA LeastNat ==
    ASSUME NEW S \in SUBSET Nat, S # {}
    PROVE  \E x \in S : \A y \in S : x <= y
<1> DEFINE R == OpToRel(<, Nat)
<1>1. IsWellFoundedOn(R, Nat)
  BY NatLessThanWellFounded
<1>2. \A x, y \in Nat : <<y, x>> \in R <=> y < x
  BY DEF OpToRel
<1> HIDE DEF R
<1>3. \E x \in S : \A y \in S : ~(<<y, x>> \in R)
  BY <1>1, WFMin
<1>4. PICK x \in S : \A y \in S : ~(<<y, x>> \in R)
  BY <1>3
<1>5. ASSUME NEW y \in S PROVE x <= y
  <2>1. ~(y < x) BY <1>2, <1>4
  <2>2. x \in Nat /\ y \in Nat OBVIOUS
  <2> QED BY <2>1, <2>2
<1> QED BY <1>5

LEMMA ReadablePrefix ==
    ASSUME NEW s \in Seq(Event), Ordered(s)
    PROVE  /\ Transport!Prefix(s) \in Seq(Event)
           /\ Ordered(Transport!Prefix(s))
           /\ \A f : Says(Transport!Prefix(s), f) => Says(s, f)
           /\ ~Says(s, "junk") => Transport!Prefix(s) = s
<1> DEFINE bad == {i \in DOMAIN s : s[i] = "junk"}
           least == CHOOSE i \in bad : \A j \in bad : i <= j
<1>1. Len(s) \in Nat /\ DOMAIN s = 1..Len(s)
  BY LenProperties
<1>2. Transport!Prefix(s) = IF bad = {} THEN s ELSE SubSeq(s, 1, least - 1)
  BY DEF Transport!Prefix
<1>3. ~Says(s, "junk") => bad = {}
  BY <1>1 DEF Says
<1>4. CASE bad = {}
  BY <1>2, <1>4
<1>5. CASE bad # {}
  <2>1. bad \subseteq Nat
    BY <1>1
  <2>2. \E i \in bad : \A j \in bad : i <= j
    BY <1>5, <2>1, LeastNat
  <2>5. least \in bad
    BY <2>2
  <2>6. least - 1 \in 0..Len(s)
    BY <1>1, <2>5
  <2>7. Transport!Prefix(s) = SubSeq(s, 1, least - 1) /\ Says(s, "junk")
    BY <1>2, <1>3, <1>5
  <2> HIDE DEF least
  <2> QED BY <2>6, <2>7, ShorterStream
<1> QED BY <1>4, <1>5


-----------------------------------------------------------------------------
(* What the parent makes of a stream.                                      *)

Auditable(o) == o \in Transport!TransportAnswers({Transport!ThreadIdentity})
                /\ Transport!AuditStateIsClosed(o)

TurnOf(e, t) == Transport!Outcome(e, t, t, TRUE)

LEMMA AuditableOutcomes ==
    /\ Auditable(Transport!NotLaunched)
    /\ \A l \in BOOLEAN : Auditable(Transport!Unknown(l))
    /\ Auditable(Transport!Outcome("effect_unknown", 1, 0, FALSE))
    /\ \A e \in {"succeeded", "failed", "cancel_unconfirmed", "effect_unknown"} :
          Auditable(Transport!Outcome(e, 1, 1, TRUE))
<1>1. /\ Transport!None = 0 /\ Transport!ThreadIdentity = 1
      /\ Transport!NotLaunched = Transport!Outcome("not_launched", 0, 0, FALSE)
      /\ \A l : Transport!Unknown(l) = Transport!Outcome("effect_unknown", 0, 0, l)
  BY DEF Transport!None, Transport!ThreadIdentity, Transport!NotLaunched, Transport!Unknown
<1> DEFINE none == Transport!None
           Doubts == {Transport!Outcome("effect_unknown", none, none, l) : l \in BOOLEAN}
           Threads == {Transport!Outcome("effect_unknown", t, none, FALSE) : t \in {1}}
           Effects == {"succeeded", "failed", "cancel_unconfirmed", "effect_unknown"}
           One == {1}
           Turns == {TurnOf(e, t) : e \in Effects, t \in One}
<1>0. Transport!TransportAnswers({1}) =
          {Transport!Outcome("not_launched", none, none, FALSE)} \cup Doubts \cup Threads \cup Turns
  BY DEF Transport!TransportAnswers, TurnOf
<1>d. ASSUME NEW l \in BOOLEAN PROVE Transport!Outcome("effect_unknown", none, none, l) \in Doubts
  OBVIOUS
<1>n. Transport!Outcome("effect_unknown", 1, none, FALSE) \in Threads
  OBVIOUS
<1>o. 1 \in One
  OBVIOUS
<1> HIDE DEF Doubts, Threads, Effects, One
<1>t. ASSUME NEW e \in Effects PROVE TurnOf(e, 1) \in Turns
  BY <1>o
<1> HIDE DEF Turns
<1>e. ASSUME NEW e \in Effects PROVE Transport!Outcome(e, 1, 1, TRUE) \in Turns
  BY <1>t DEF TurnOf
<1>2. Transport!NotLaunched \in Transport!TransportAnswers({1})
  BY <1>0 DEF Transport!NotLaunched
<1>3. ASSUME NEW l \in BOOLEAN PROVE Transport!Unknown(l) \in Transport!TransportAnswers({1})
  BY <1>0, <1>d DEF Transport!Unknown
<1>4. Transport!Outcome("effect_unknown", 1, 0, FALSE) \in Transport!TransportAnswers({1})
  BY <1>0, <1>1, <1>n
<1>5. \A e \in Effects : Transport!Outcome(e, 1, 1, TRUE) \in Transport!TransportAnswers({1})
  BY <1>0, <1>e
<1>6. Transport!AuditStateIsClosed(Transport!NotLaunched)
  BY <1>1 DEF Transport!AuditStateIsClosed, Transport!Outcome, Transport!DefinitelyLaunched
<1>7. \A l \in BOOLEAN : Transport!AuditStateIsClosed(Transport!Unknown(l))
  BY <1>1 DEF Transport!AuditStateIsClosed, Transport!Outcome, Transport!DefinitelyLaunched
<1>8. Transport!AuditStateIsClosed(Transport!Outcome("effect_unknown", 1, 0, FALSE))
  BY <1>1 DEF Transport!AuditStateIsClosed, Transport!Outcome, Transport!DefinitelyLaunched
<1>9. \A e \in Effects : Transport!AuditStateIsClosed(Transport!Outcome(e, 1, 1, TRUE))
  BY <1>1 DEF Effects, Transport!AuditStateIsClosed, Transport!Outcome, Transport!DefinitelyLaunched
<1> QED BY <1>1, <1>2, <1>3, <1>4, <1>5, <1>6, <1>7, <1>8, <1>9 DEF Auditable, Effects

\* The identities a prefix shows: a turn that started has a thread.
LEMMA SeenIdentities ==
    ASSUME NEW s \in Seq(Event), Ordered(s)
    PROVE  /\ Transport!SeenThread(s) \in {0, 1} /\ Transport!SeenTurn(s) \in BOOLEAN
           /\ Transport!SeenTurn(s) /\ ~Says(s, "anonymous") => Transport!SeenThread(s) = 1
<1> DEFINE p == Transport!Prefix(s)
<1>1. p \in Seq(Event) /\ Ordered(p) /\ \A f : Says(p, f) => Says(s, f)
  BY ReadablePrefix
<1>2. /\ Transport!SeenThread(s) = IF Transport!Count(p, "thread") > 0 THEN 1 ELSE 0
      /\ Transport!SeenTurn(s) \in BOOLEAN
      /\ Transport!SeenTurn(s) <=> Transport!Count(p, "turn") > 0
  BY DEF Transport!SeenThread, Transport!SeenTurn, Transport!ThreadIdentity, Transport!None
<1> HIDE DEF p
<1>3. /\ Transport!Count(p, "thread") \in Nat /\ (Transport!Count(p, "thread") = 0 <=> ~Says(p, "thread"))
      /\ Transport!Count(p, "turn") \in Nat /\ (Transport!Count(p, "turn") = 0 <=> ~Says(p, "turn"))
  BY <1>1, CountedEvents
<1>4. Says(p, "turn") => Says(p, "thread") \/ Says(p, "anonymous")
  <2>1. Len(p) \in Nat
    BY <1>1, LenProperties
  <2> QED BY <1>1, <2>1 DEF Says, Ordered
<1>5. Transport!SeenTurn(s) /\ ~Says(s, "anonymous") => Says(p, "thread")
  BY <1>1, <1>2, <1>3, <1>4
<1> QED BY <1>2, <1>3, <1>5


LEMMA OutcomeFields ==
    ASSUME NEW o, NEW e, NEW t, NEW u,
           o = Transport!Outcome(e, t, u, TRUE) \/ o = Transport!Outcome(e, t, u, FALSE)
    PROVE  o.effect = e /\ o.thread = t /\ o.turn = u
BY DEF Transport!Outcome

\* Answers that name no identity.
LEMMA BlindAnswers ==
    /\ Auditable(Transport!Outcome("effect_unknown", 0, 0, FALSE))
    /\ Auditable(Transport!Outcome("effect_unknown", 0, 0, TRUE))
<1>1. \A l \in BOOLEAN : Auditable(Transport!Unknown(l))
  BY AuditableOutcomes
<1>2. Auditable(Transport!Unknown(FALSE)) /\ Auditable(Transport!Unknown(TRUE))
  BY <1>1
<1>3. Transport!None = 0
  BY DEF Transport!None
<1>4. /\ Transport!Unknown(FALSE) = Transport!Outcome("effect_unknown", 0, 0, FALSE)
      /\ Transport!Unknown(TRUE) = Transport!Outcome("effect_unknown", 0, 0, TRUE)
  BY <1>3 DEF Transport!Unknown
<1> QED BY <1>2, <1>4

\* The answers of the command line: success is a whole stream of a child that
\* ended well, failure and success are told of no child that was stopped.
LEMMA SubscriptionAnswers ==
    ASSUME NEW s \in Seq(Event), Ordered(s), NEW o, o = Transport!SubscriptionOutcome(s)
    PROVE  /\ o.effect \in {"effect_unknown", "cancel_unconfirmed", "failed", "succeeded"}
           /\ o.effect \in {"failed", "succeeded"} => cut = "none"
           /\ o.effect = "succeeded" => turnChild.code = 0 /\ o.thread = 1 /\ o.turn = 1
           /\ ~Says(s, "anonymous") => Auditable(o)
<1> DEFINE turn == Transport!SeenTurn(s)
           thread == Transport!SeenThread(s)
           exact == Transport!LifecycleExact(s)
<1>1. /\ thread \in {0, 1} /\ turn \in BOOLEAN
      /\ turn /\ ~Says(s, "anonymous") => thread = 1
  BY SeenIdentities
<1>2. exact => thread = 1 /\ turn
  <2> SUFFICES ASSUME exact PROVE thread = 1 /\ turn
    OBVIOUS
  <2>1. /\ Transport!Count(s, "junk") = 0
        /\ Transport!Count(s, "thread") = 1 /\ Transport!Count(s, "turn") = 1
    BY DEF Transport!LifecycleExact, Transport!Parses
  <2>2. ~Says(s, "junk")
    BY <2>1, CountedEvents
  <2>3. Transport!Prefix(s) = s
    BY <2>2, ReadablePrefix
  <2>4. Transport!Count(Transport!Prefix(s), "thread") > 0 /\ Transport!Count(Transport!Prefix(s), "turn") > 0
    BY <2>1, <2>3
  <2>5. thread = 1
    BY <2>4 DEF Transport!SeenThread, Transport!ThreadIdentity
  <2>6. turn
    BY <2>4 DEF Transport!SeenTurn
  <2> QED BY <2>5, <2>6
<1>3. \A e : turn => Transport!Seen(e, s) = Transport!Outcome(e, thread, thread, TRUE)
  BY Zenon DEF Transport!Seen
<1>n. Transport!None = 0
  BY DEF Transport!None
<1>4. \A e : ~turn => Transport!Seen(e, s) = Transport!Outcome(e, thread, 0, FALSE)
  <2> SUFFICES ASSUME NEW e, ~turn PROVE Transport!Seen(e, s) = Transport!Outcome(e, thread, 0, FALSE)
    OBVIOUS
  <2>1. turn = FALSE
    BY <1>1
  <2> QED BY <1>n, <2>1, Zenon DEF Transport!Seen
<1>5. CASE ~turn
  <2>1. o = Transport!Seen("effect_unknown", s)
    BY <1>2, <1>5 DEF Transport!SubscriptionOutcome
  <2>2. o = Transport!Outcome("effect_unknown", thread, 0, FALSE)
    BY <1>4, <1>5, <2>1
  <2> HIDE DEF thread, turn
  <2>4. Auditable(o)
    BY <1>1, <2>2, BlindAnswers, AuditableOutcomes
  <2>5. o.effect = "effect_unknown"
    BY <2>2, OutcomeFields
  <2> QED BY <2>4, <2>5
<1>6. CASE turn
  <2>1. \E e \in {"cancel_unconfirmed", "failed", "succeeded"} :
           /\ o = Transport!Seen(e, s)
           /\ e # "cancel_unconfirmed" => cut = "none"
           /\ e = "succeeded" => turnChild.code = 0 /\ exact
    BY <1>6 DEF Transport!SubscriptionOutcome
  <2> HIDE DEF thread, turn, exact
  <2>2. PICK e \in {"cancel_unconfirmed", "failed", "succeeded"} :
           /\ o = Transport!Outcome(e, thread, thread, TRUE)
           /\ e # "cancel_unconfirmed" => cut = "none"
           /\ e = "succeeded" => turnChild.code = 0 /\ thread = 1
    BY <1>2, <1>3, <1>6, <2>1
  <2>3. ~Says(s, "anonymous") => Auditable(o)
    BY <1>1, <1>6, <2>2, AuditableOutcomes
  <2>4. o.effect = e /\ o.thread = thread /\ o.turn = thread
    BY <2>2, OutcomeFields, ZenonT(60)
  <2> QED BY <2>2, <2>3, <2>4
<1> QED BY <1>1, <1>5, <1>6

\* What the identities of the worker's protocol make of an effect.
LEMMA WorkerIdentities ==
    ASSUME NEW s, NEW e
    PROVE  /\ Transport!Launched(s)
                 => Transport!WorkerIdentity(e, s) = Transport!Outcome(e, 1, 1, TRUE)
           /\ ~Transport!Launched(s) =>
                 \/ Transport!WorkerIdentity(e, s) = Transport!Outcome(e, 0, 0, TRUE)
                 \/ Transport!WorkerIdentity(e, s) = Transport!Outcome(e, 0, 0, FALSE)
<1>1. Transport!None = 0 /\ Transport!ThreadIdentity = 1
  BY DEF Transport!None, Transport!ThreadIdentity
<1>2. Transport!Intent(s) \in BOOLEAN
  BY DEF Transport!Intent
<1>3. /\ Transport!Launched(s)
            => Transport!WorkerIdentity(e, s) = Transport!Outcome(e, 1, 1, TRUE)
      /\ ~Transport!Launched(s)
            => Transport!WorkerIdentity(e, s) = Transport!Outcome(e, 0, 0, Transport!Intent(s))
  BY <1>1, Zenon DEF Transport!WorkerIdentity
<1>4. CASE Transport!Intent(s) = TRUE
  BY <1>3, <1>4, Zenon
<1>5. CASE Transport!Intent(s) = FALSE
  BY <1>3, <1>5, Zenon
<1> QED BY <1>2, <1>4, <1>5

\* A worker's failure is doubt, unless it says that nothing was launched.
LEMMA WorkerFailures ==
    ASSUME NEW s \in Seq(Event), Ordered(s),
           Transport!Count(Transport!Prefix(s), "failure_before")
             + Transport!Count(Transport!Prefix(s), "failure_after") = 1
    PROVE  \/ Transport!WorkerFailure(s) = Transport!Outcome("effect_unknown", 1, 1, TRUE)
           \/ Transport!WorkerFailure(s) = Transport!Outcome("effect_unknown", 0, 0, TRUE)
           \/ Transport!WorkerFailure(s) = Transport!NotLaunched /\ Says(s, "failure_before")
<1> DEFINE p == Transport!Prefix(s)
           w == Transport!WorkerIdentity("effect_unknown", s)
           after == Transport!Count(p, "failure_after") = 1 \/ Transport!Intent(s) \/ Transport!Launched(s)
<1>1. Transport!WorkerFailure(s) = IF after THEN [w EXCEPT !.launched = TRUE] ELSE Transport!NotLaunched
  BY DEF Transport!WorkerFailure
<1>2. p \in Seq(Event) /\ \A f : Says(p, f) => Says(s, f)
  BY ReadablePrefix
<1>3. Transport!Count(p, "failure_before") + Transport!Count(p, "failure_after") = 1
  OBVIOUS
<1> HIDE DEF p
<1>4. /\ Transport!Count(p, "failure_before") \in Nat /\ Transport!Count(p, "failure_after") \in Nat
      /\ Transport!Count(p, "failure_before") = 0 <=> ~Says(p, "failure_before")
  BY <1>2, CountedEvents
<1>5. ~after => Says(s, "failure_before")
  BY <1>2, <1>3, <1>4
<1> DEFINE yes == TRUE
           no == FALSE
<1>6. \/ w = Transport!Outcome("effect_unknown", 1, 1, yes)
      \/ w = Transport!Outcome("effect_unknown", 0, 0, yes)
      \/ w = Transport!Outcome("effect_unknown", 0, 0, no)
  BY WorkerIdentities
<1>0. Transport!WorkerFailure(s) = IF after THEN [w EXCEPT !.launched = yes] ELSE Transport!NotLaunched
  BY <1>1
<1> HIDE DEF w, after, yes, no
<1>7. \/ [w EXCEPT !.launched = yes] = Transport!Outcome("effect_unknown", 1, 1, yes)
      \/ [w EXCEPT !.launched = yes] = Transport!Outcome("effect_unknown", 0, 0, yes)
  BY <1>6 DEF Transport!Outcome
<1>8. \/ Transport!WorkerFailure(s) = Transport!Outcome("effect_unknown", 1, 1, yes)
      \/ Transport!WorkerFailure(s) = Transport!Outcome("effect_unknown", 0, 0, yes)
      \/ Transport!WorkerFailure(s) = Transport!NotLaunched /\ Says(s, "failure_before")
  BY <1>0, <1>5, <1>7
<1> QED BY <1>8 DEF yes

\* The answers of the worker: one that says it was not launched has written so.
LEMMA ApiAnswers ==
    ASSUME NEW s \in Seq(Event), Ordered(s), NEW o, o = Transport!ApiOutcome(s)
    PROVE  /\ o.effect \in {"effect_unknown", "cancel_unconfirmed", "not_launched", "succeeded"}
           /\ o.effect = "not_launched" => cut = "none" /\ Says(s, "failure_before")
           /\ o.effect = "succeeded" =>
                 cut = "none" /\ turnChild.code = 0 /\ o.thread = 1 /\ o.turn = 1
           /\ Auditable(o)
<1> DEFINE launched == Transport!Launched(s)
           failures == Transport!Count(Transport!Prefix(s), "failure_before")
                       + Transport!Count(Transport!Prefix(s), "failure_after")
<1>1. ASSUME o = Transport!WorkerIdentity("effect_unknown", s)
      PROVE  o.effect = "effect_unknown" /\ Auditable(o)
  <2>1. \/ o = Transport!Outcome("effect_unknown", 1, 1, TRUE)
        \/ o = Transport!Outcome("effect_unknown", 0, 0, TRUE)
        \/ o = Transport!Outcome("effect_unknown", 0, 0, FALSE)
    BY <1>1, WorkerIdentities
  <2>2. o.effect = "effect_unknown"
    BY <2>1, OutcomeFields
  <2> QED BY <2>1, <2>2, BlindAnswers, AuditableOutcomes
<1>2. CASE cut # "none"
  <2>1. o = Transport!WorkerIdentity(IF launched THEN "cancel_unconfirmed" ELSE "effect_unknown", s)
    BY <1>2 DEF Transport!ApiOutcome
  <2>2. CASE launched
    <3>1. o = Transport!Outcome("cancel_unconfirmed", 1, 1, TRUE)
      BY <2>1, <2>2, WorkerIdentities
    <3>2. o.effect = "cancel_unconfirmed"
      BY <3>1, OutcomeFields
    <3> QED BY <3>1, <3>2, AuditableOutcomes
  <2>3. CASE ~launched
    <3>1. o = Transport!WorkerIdentity("effect_unknown", s)
      BY <2>1, <2>3
    <3> QED BY <1>1, <3>1
  <2> QED BY <2>2, <2>3
<1>3. CASE cut = "none" /\ o = Transport!WorkerFailure(s) /\ failures = 1
  <2>1. \/ o = Transport!Outcome("effect_unknown", 1, 1, TRUE)
        \/ o = Transport!Outcome("effect_unknown", 0, 0, TRUE)
        \/ o = Transport!NotLaunched /\ Says(s, "failure_before")
    BY <1>3, WorkerFailures
  <2>2. CASE o = Transport!NotLaunched
    <3>1. o = Transport!Outcome("not_launched", 0, 0, FALSE)
      BY <2>2 DEF Transport!NotLaunched, Transport!None
    <3>2. o.effect = "not_launched"
      BY <3>1, OutcomeFields
    <3>3. Says(s, "failure_before")
      <4>1. o # Transport!Outcome("effect_unknown", 1, 1, TRUE)
        BY <3>2, OutcomeFields
      <4>2. o # Transport!Outcome("effect_unknown", 0, 0, TRUE)
        BY <3>2, OutcomeFields
      <4> QED BY <2>1, <4>1, <4>2
    <3> QED BY <1>3, <2>2, <3>2, <3>3, AuditableOutcomes
  <2>3. CASE \/ o = Transport!Outcome("effect_unknown", 1, 1, TRUE)
             \/ o = Transport!Outcome("effect_unknown", 0, 0, TRUE)
    <3>1. o.effect = "effect_unknown"
      BY <2>3, OutcomeFields
    <3> QED BY <2>3, <3>1, BlindAnswers, AuditableOutcomes
  <2> QED BY <2>1, <2>2, <2>3
<1>4. CASE o = Transport!WorkerIdentity("effect_unknown", s)
  BY <1>1, <1>4
<1>5. CASE cut = "none" /\ o = Transport!WorkerIdentity("succeeded", s) /\ Transport!WorkerExact(s)
  <2>1. launched /\ turnChild.code = 0
    BY <1>5 DEF Transport!WorkerExact
  <2>2. o = Transport!Outcome("succeeded", 1, 1, TRUE)
    BY <1>5, <2>1, WorkerIdentities
  <2>3. o.effect = "succeeded" /\ o.thread = 1 /\ o.turn = 1
    BY <2>2, OutcomeFields
  <2> QED BY <1>5, <2>1, <2>2, <2>3, AuditableOutcomes
<1>6. cut = "none" => \/ o = Transport!WorkerFailure(s) /\ failures = 1
                      \/ o = Transport!WorkerIdentity("effect_unknown", s)
                      \/ o = Transport!WorkerIdentity("succeeded", s) /\ Transport!WorkerExact(s)
  BY DEF Transport!ApiOutcome
<1> QED BY <1>2, <1>3, <1>4, <1>5, <1>6

-----------------------------------------------------------------------------
(***************************************************************************)
(* The inductive invariant of one execution of a turn.                     *)
(***************************************************************************)
Live == turnChild.state = "running"
Preparing == {"preflight", "snapshot", "attempt", "context", "stage", "probe", "catalog", "spawn"}
\* The attempt directory is this execution's.
Bound == {"context", "stage", "probe", "catalog", "spawn"}
Supervision == {"measure", "feed", "wait"}
\* Nobody reads the pipe any more.
Mute == {"idle", "classify", "finish", "attest", "done"}
Steps == Preparing \cup Supervision \cup Mute \cup {"collect"}
ChildRecords == [state : {"none", "running", "exited", "killed"},
                 pc    : {"boot", "turn", "said", "transmitted", "stream", "over",
                          "connect", "thread", "launched"},
                 code  : {0, 1},
                 input : {"none", "partial", "whole"}]

TurnTypes ==
    /\ kind \in {"subscription", "api"} /\ parent \in Steps
    /\ turnChild \in ChildRecords /\ sent \in {0, 1}
    /\ pipe \in Seq(Event) /\ captured \in Seq(Event)

\* Where the child stands tells whether it has transmitted the turn; a child
\* that ended well has completed it; it does nothing before it has read.
ChildHolds ==
    /\ Live /\ turnChild.pc \in {"boot", "turn", "said", "connect", "thread"} => sent = 0
    /\ Live /\ turnChild.pc \in {"transmitted", "stream", "over", "launched"} => sent = 1
    /\ Live /\ turnChild.pc = "over" => completed
    /\ Live /\ turnChild.input = "none" => turnChild.pc = "boot"
    /\ turnChild.state = "exited" /\ turnChild.code = 0 => sent = 1 /\ completed

\* A child, and so a transmitted turn, needs the attempt directory, which is
\* created once; what the parent holds of the child at each of its steps.
SpawnHolds ==
    /\ turnChild.state # "none" \/ sent = 1 => attempt
    /\ parent \in Preparing => turnChild.state = "none" /\ pipe = <<>> /\ captured = <<>>
    /\ parent \in Bound => attempt /\ sent = 0
    /\ parent \in Preparing \cup Supervision => cut = "none"
    /\ parent \in Supervision => turnChild.state \in {"running", "exited"} /\ captured = <<>>
    /\ parent = "measure" =>
          kind = "api" /\ turnChild.pc = "boot" /\ turnChild.input = "none" /\ sent = 0
    /\ parent \in {"collect", "classify", "finish", "attest"} /\ cut = "none"
          => turnChild.state = "exited"

\* What an answer says of the child and of the turn.
AnswerHolds ==
    /\ parent \notin {"finish", "attest", "done"} => answer.effect = "none"
    /\ parent \in {"finish", "attest"} => answer.effect = "succeeded"
    /\ answer.effect = "not_launched" /\ turnChild.state # "none" =>
          /\ sent = 0
          /\ Live => /\ kind = "api" /\ parent = "done"
                     /\ turnChild.pc = "boot" /\ turnChild.input # "whole"
    /\ answer.effect = "succeeded" =>
          /\ sent = 1 /\ completed
          /\ turnChild.state = "exited" /\ turnChild.code = 0
          /\ answer.thread = 1 /\ answer.turn = 1
    /\ answer.effect = "failed" => turnChild.state = "exited"
    /\ cut # "none" => answer.effect \notin {"failed", "not_launched"}

AuditHolds ==
    parent \in {"finish", "attest", "done"} /\ answer # Transport!Raised /\ ~Says(captured, "anonymous")
        => Auditable(answer)

\* What the streams say of the child that wrote them.
PipeHolds ==
    /\ Ordered(pipe) /\ Ordered(captured)
    /\ Says(pipe, "failure_before") \/ Says(captured, "failure_before") => sent = 0 /\ ~Live
    /\ kind = "subscription" /\ turnChild.pc # "boot" /\ parent \in Supervision \cup {"collect"}
          => Opens(pipe)

TurnInv == TurnTypes /\ ChildHolds /\ SpawnHolds /\ AnswerHolds /\ AuditHolds /\ PipeHolds

LEMMA TurnInit ==
    ASSUME Transport!Init
    PROVE  TurnInv
<1>1. /\ kind \in {"subscription", "api"} /\ parent = "idle" /\ cut = "none"
      /\ captured = <<>> /\ answer = Transport!NoAnswer /\ turnChild = Transport!NoChild
      /\ pipe = <<>> /\ sent = 0
  BY DEF Transport!Init
<1>2. answer.effect = "none" /\ turnChild \in ChildRecords /\ turnChild.state = "none"
  BY <1>1 DEF Transport!NoAnswer, Transport!NoChild, ChildRecords
<1>3. TurnTypes
  BY <1>1, <1>2, EmptyStream DEF TurnTypes, Steps, Mute
<1>4. ChildHolds /\ SpawnHolds
  BY <1>1, <1>2 DEF ChildHolds, SpawnHolds, Live, Preparing, Bound, Supervision
<1>5. AnswerHolds /\ AuditHolds
  BY <1>1, <1>2 DEF AnswerHolds, AuditHolds, Live
<1>6. PipeHolds
  BY <1>1, <1>2, EmptyStream DEF PipeHolds, Live, Supervision
<1> QED BY <1>3, <1>4, <1>5, <1>6 DEF TurnInv

\* A child hears nothing of its parent and the parent nothing of it but what it
\* writes: a step of the child keeps the invariant when it keeps its own part,
\* says a turn only under a thread, says "nothing was launched" only when it
\* ends without having transmitted, and does not move a child that is unsent.
LEMMA ChildKeeps ==
    ASSUME TurnInv, Transport!ChildOnly, Live,
           turnChild' \in ChildRecords, turnChild'.state \in {"running", "exited"},
           sent' \in {0, 1}, ChildHolds',
           \/ pipe' = pipe
           \/ parent \in Mute /\ pipe' = <<>>
           \/ parent \notin Mute /\ \E e \in Event :
                 /\ pipe' = Append(pipe, e)
                 /\ e = "turn" => Opens(pipe)
                 /\ e = "failure_before" => sent' = 0 /\ turnChild'.state = "exited",
           kind = "subscription" /\ turnChild'.pc # "boot" /\ parent \notin Mute =>
              turnChild.pc # "boot" \/ Opens(pipe'),
           parent = "measure" \/ answer.effect = "not_launched" =>
              sent' = sent /\ (turnChild'.pc = "boot" \/ turnChild'.state = "exited"),
           parent = "measure" => turnChild'.pc = "boot" /\ turnChild'.input = turnChild.input,
           answer.effect = "not_launched" /\ turnChild'.state = "running" => turnChild'.input # "whole"
    PROVE  TurnInv'
<1>1. /\ UNCHANGED <<kind, guarded, parent, cut, captured, answer, attempt>>
  BY DEF Transport!ChildOnly, Transport!config, Transport!world, Transport!dirs
<1>2. /\ kind \in {"subscription", "api"} /\ parent \in Steps
      /\ pipe \in Seq(Event) /\ captured \in Seq(Event) /\ sent \in {0, 1}
      /\ turnChild.state = "running"
  BY DEF TurnInv, TurnTypes, Live
<1>3. /\ attempt /\ parent \notin Preparing
      /\ cut # "none" \/ parent \notin {"collect", "classify", "finish", "attest"}
  BY <1>2 DEF TurnInv, SpawnHolds
<1>4. /\ ~Says(pipe, "failure_before") /\ ~Says(captured, "failure_before")
      /\ Ordered(pipe) /\ Ordered(captured)
  BY DEF TurnInv, PipeHolds
<1>5. /\ pipe' \in Seq(Event) /\ Ordered(pipe')
      /\ Says(pipe', "failure_before") => sent' = 0 /\ turnChild'.state = "exited"
      /\ parent \notin Mute /\ Opens(pipe) => Opens(pipe')
  <2>1. CASE pipe' = pipe
    BY <1>2, <1>4, <2>1
  <2>2. CASE parent \in Mute /\ pipe' = <<>>
    BY <2>2, EmptyStream
  <2>3. CASE parent \notin Mute /\ \E e \in Event :
                 /\ pipe' = Append(pipe, e)
                 /\ e = "turn" => Opens(pipe)
                 /\ e = "failure_before" => sent' = 0 /\ turnChild'.state = "exited"
    <3>1. PICK e \in Event : /\ pipe' = Append(pipe, e)
                             /\ e = "turn" => Opens(pipe)
                             /\ e = "failure_before" => sent' = 0 /\ turnChild'.state = "exited"
      BY <2>3
    <3>2. /\ pipe' \in Seq(Event) /\ Ordered(pipe')
          /\ \A f : Says(pipe', f) <=> Says(pipe, f) \/ f = e
      BY <1>2, <1>4, <3>1, LongerStream
    <3> QED BY <1>4, <3>1, <3>2 DEF Opens
  <2> QED BY <2>1, <2>2, <2>3
<1>6. TurnTypes'
  BY <1>1, <1>2, <1>5 DEF TurnTypes
<1>7. SpawnHolds'
  <2>1. parent = "measure" => kind = "api" /\ turnChild.input = "none" /\ sent = 0
    BY DEF TurnInv, SpawnHolds
  <2>2. parent \in Supervision => captured = <<>>
    BY DEF TurnInv, SpawnHolds
  <2>3. parent \in Preparing \cup Supervision => cut = "none"
    BY DEF TurnInv, SpawnHolds
  <2>4. Bound \subseteq Preparing /\ Preparing \cap Supervision = {}
    BY DEF Bound, Preparing, Supervision
  <2> QED BY <1>1, <1>3, <2>1, <2>2, <2>3, <2>4 DEF SpawnHolds
<1>8. AnswerHolds'
  <2>1. /\ parent \notin {"finish", "attest", "done"} => answer.effect = "none"
        /\ parent \in {"finish", "attest"} => answer.effect = "succeeded"
        /\ answer.effect = "not_launched" => sent = 0 /\ kind = "api" /\ parent = "done"
        /\ answer.effect \notin {"succeeded", "failed"}
        /\ cut # "none" => answer.effect \notin {"failed", "not_launched"}
    BY <1>2 DEF TurnInv, AnswerHolds, Live
  <2> QED BY <1>1, <2>1 DEF AnswerHolds, Live
<1>9. AuditHolds'
  BY <1>1 DEF TurnInv, AuditHolds
<1>10. PipeHolds'
  <2>1. kind = "subscription" /\ turnChild.pc # "boot" /\ parent \in Supervision \cup {"collect"}
          => Opens(pipe)
    BY DEF TurnInv, PipeHolds
  <2>2. parent \in Supervision \cup {"collect"} => parent \notin Mute
    BY DEF Supervision, Mute
  <2> QED BY <1>1, <1>4, <1>5, <2>1, <2>2 DEF PipeHolds, Live
<1> QED BY <1>6, <1>7, <1>8, <1>9, <1>10 DEF TurnInv

\* What is known of a child that runs.
LiveContext ==
    /\ turnChild \in ChildRecords /\ turnChild.state = "running" /\ sent \in {0, 1}
    /\ kind \in {"subscription", "api"} /\ pipe \in Seq(Event)
    /\ parent = "measure" =>
          kind = "api" /\ turnChild.pc = "boot" /\ turnChild.input = "none"
    /\ answer.effect = "not_launched" =>
          kind = "api" /\ turnChild.pc = "boot" /\ turnChild.input # "whole" /\ parent = "done"
    /\ turnChild.input = "none" => turnChild.pc = "boot"
    /\ turnChild.pc \in {"boot", "turn", "said", "connect", "thread"} => sent = 0
    /\ turnChild.pc \in {"transmitted", "stream", "over", "launched"} => sent = 1
    /\ turnChild.pc = "over" => completed
    /\ kind = "subscription" /\ turnChild.pc # "boot" /\ parent \notin Mute => Opens(pipe)

LEMMA LiveChild ==
    ASSUME TurnInv, Live
    PROVE  LiveContext
<1>1. /\ turnChild \in ChildRecords /\ turnChild.state = "running" /\ sent \in {0, 1}
      /\ kind \in {"subscription", "api"} /\ pipe \in Seq(Event) /\ parent \in Steps
  BY DEF TurnInv, TurnTypes, Live
<1>2. /\ parent = "measure" =>
            kind = "api" /\ turnChild.pc = "boot" /\ turnChild.input = "none"
      /\ parent \notin Preparing
  BY <1>1 DEF TurnInv, SpawnHolds
<1>3. answer.effect = "not_launched" =>
            kind = "api" /\ turnChild.pc = "boot" /\ turnChild.input # "whole" /\ parent = "done"
  BY <1>1 DEF TurnInv, AnswerHolds, Live
<1>4. /\ turnChild.input = "none" => turnChild.pc = "boot"
      /\ turnChild.pc \in {"boot", "turn", "said", "connect", "thread"} => sent = 0
      /\ turnChild.pc \in {"transmitted", "stream", "over", "launched"} => sent = 1
      /\ turnChild.pc = "over" => completed
  BY DEF TurnInv, ChildHolds
<1>5. kind = "subscription" /\ turnChild.pc # "boot" /\ parent \notin Mute => Opens(pipe)
  BY <1>1, <1>2 DEF TurnInv, PipeHolds, Steps, Mute
<1> QED BY <1>1, <1>2, <1>3, <1>4, <1>5 DEF LiveContext

\* What a step makes of the child and of its output.
Goes(c) ==
    /\ turnChild' \in ChildRecords /\ turnChild'.pc = c
    /\ turnChild'.state = turnChild.state /\ turnChild'.code = turnChild.code
    /\ turnChild'.input = turnChild.input
Exits(c) ==
    /\ turnChild' \in ChildRecords /\ turnChild'.pc = turnChild.pc
    /\ turnChild'.state = "exited" /\ turnChild'.code = c
    /\ turnChild'.input = turnChild.input
Writes(e) ==
    \/ parent \in Mute /\ pipe' = <<>>
    \/ parent \notin Mute /\ pipe' = Append(pipe, e)

LEMMA ChildMoves ==
    ASSUME turnChild \in ChildRecords,
           NEW c \in {"boot", "turn", "said", "transmitted", "stream", "over",
                      "connect", "thread", "launched"},
           Transport!ChildGoto(c)
    PROVE  Goes(c)
BY DEF Transport!ChildGoto, ChildRecords, Goes

LEMMA ChildExits ==
    ASSUME turnChild \in ChildRecords, NEW c \in {0, 1}, Transport!Exit(c)
    PROVE  Exits(c)
BY DEF Transport!Exit, ChildRecords, Exits

LEMMA ChildWrites ==
    ASSUME NEW e \in Event, Transport!Emit(e)
    PROVE  Writes(e)
<1>1. CASE parent \in Mute
  BY <1>1 DEF Transport!Emit, Mute, Writes
<1>2. CASE parent \notin Mute
  BY <1>2 DEF Transport!Emit, Mute, Writes
<1> QED BY <1>1, <1>2

LEMMA StreamOpens ==
    ASSUME pipe \in Seq(Event), NEW e \in {"thread", "anonymous"}, pipe' = Append(pipe, e)
    PROVE  Opens(pipe')
<1>1. Len(pipe) \in Nat /\ e \in Event
  BY LenProperties DEF Event
<1>2. Len(pipe') = Len(pipe) + 1 /\ pipe'[Len(pipe) + 1] = e
  BY <1>1, AppendProperties
<1>3. Says(pipe', e)
  BY <1>1, <1>2 DEF Says
<1> QED BY <1>3 DEF Opens

\* Two forms of ChildKeeps: a child that has read its request and runs on or
\* ends, writing an event or nothing.
LEMMA ReaderKeeps ==
    ASSUME TurnInv, Transport!ChildOnly, Live, LiveContext,
           turnChild.pc # "boot" \/ turnChild.input = "whole" \/ kind = "subscription",
           turnChild.input # "none",
           turnChild' \in ChildRecords, turnChild'.state \in {"running", "exited"},
           sent' \in {0, 1}, ChildHolds',
           \/ pipe' = pipe
           \/ \E e \in Event :
                 /\ Writes(e)
                 /\ e = "turn" => Opens(pipe) \/ parent \in Mute
                 /\ e = "failure_before" => sent' = 0 /\ turnChild'.state = "exited",
           kind = "subscription" /\ parent \notin Mute => turnChild.pc # "boot" \/ Opens(pipe')
    PROVE  TurnInv'
<1>1. parent # "measure" /\ answer.effect # "not_launched"
  BY DEF LiveContext
<1>2. \/ pipe' = pipe
      \/ parent \in Mute /\ pipe' = <<>>
      \/ parent \notin Mute /\ \E e \in Event :
            /\ pipe' = Append(pipe, e)
            /\ e = "turn" => Opens(pipe)
            /\ e = "failure_before" => sent' = 0 /\ turnChild'.state = "exited"
  BY DEF Writes
<1> QED BY <1>1, <1>2, ChildKeeps

LEMMA ReadInputKeeps ==
    ASSUME TurnInv, Transport!ReadInput
    PROVE  TurnInv'
<1>1. /\ Live /\ Transport!ChildOnly /\ pipe' = pipe /\ sent' = sent /\ completed' = completed
      /\ turnChild.input = "none"
      /\ \/ parent = "feed" /\ turnChild' = [turnChild EXCEPT !.input = "whole"]
         \/ parent \in {"idle", "done"} /\ turnChild' = [turnChild EXCEPT !.input = "partial"]
  BY DEF Transport!ReadInput, Transport!Running, Transport!provider, Live
<1>2. LiveContext
  BY <1>1, LiveChild
<1>3. /\ turnChild' \in ChildRecords /\ turnChild'.pc = turnChild.pc
      /\ turnChild'.state = "running" /\ turnChild'.input # "none"
      /\ parent # "feed" => turnChild'.input # "whole"
  BY <1>1, <1>2 DEF ChildRecords, LiveContext
<1>4. ChildHolds'
  BY <1>1, <1>2, <1>3 DEF ChildHolds, Live, LiveContext
<1> QED BY <1>1, <1>2, <1>3, <1>4, ChildKeeps DEF LiveContext

LEMMA CliThreadKeeps ==
    ASSUME TurnInv, Transport!CliThread
    PROVE  TurnInv'
<1>1. /\ Live /\ Transport!ChildOnly /\ sent' = sent /\ completed' = completed
      /\ kind = "subscription" /\ turnChild.pc = "boot" /\ turnChild.input # "none"
      /\ Transport!ChildGoto("turn")
  BY DEF Transport!CliThread, Transport!ChildAt, Transport!Running, Transport!provider, Live
<1>2. PICK e \in {"thread", "anonymous"} : Transport!Emit(e)
  BY DEF Transport!CliThread
<1>3. LiveContext /\ e \in Event
  BY <1>1, LiveChild DEF Event
<1>4. Goes("turn") /\ Writes(e)
  BY <1>1, <1>2, <1>3, ChildMoves, ChildWrites DEF LiveContext
<1>5. ChildHolds'
  BY <1>1, <1>3, <1>4 DEF ChildHolds, Live, LiveContext, Goes
<1>6. parent \notin Mute => Opens(pipe')
  BY <1>3, <1>4, StreamOpens DEF Writes, LiveContext
<1> QED BY <1>1, <1>3, <1>4, <1>5, <1>6, ReaderKeeps DEF LiveContext, Goes

LEMMA CliSendKeeps ==
    ASSUME TurnInv, Transport!CliSend
    PROVE  TurnInv'
<1> DEFINE next == IF turnChild.pc = "said" THEN "stream" ELSE "transmitted"
<1>1. /\ Live /\ Transport!ChildOnly /\ sent' = sent + 1 /\ completed' = completed
      /\ kind = "subscription" /\ turnChild.pc \in {"turn", "said"} /\ pipe' = pipe
      /\ Transport!ChildGoto(next)
  BY DEF Transport!CliSend, Transport!ChildAt, Transport!Running, Live
<1>2. LiveContext
  BY <1>1, LiveChild
<1>3. Goes(next)
  BY <1>1, <1>2, ChildMoves DEF LiveContext
<1>4. sent = 0 /\ turnChild.input # "none"
  BY <1>1, <1>2 DEF LiveContext
<1>5. ChildHolds'
  BY <1>1, <1>2, <1>3, <1>4 DEF ChildHolds, Live, LiveContext, Goes
<1> QED BY <1>1, <1>2, <1>3, <1>4, <1>5, ReaderKeeps DEF LiveContext, Goes

LEMMA CliTurnStartedKeeps ==
    ASSUME TurnInv, Transport!CliTurnStarted
    PROVE  TurnInv'
<1> DEFINE next == IF turnChild.pc = "transmitted" THEN "stream" ELSE "said"
<1>1. /\ Live /\ Transport!ChildOnly /\ sent' = sent /\ completed' = completed
      /\ kind = "subscription" /\ turnChild.pc \in {"turn", "transmitted"}
      /\ Transport!Emit("turn") /\ Transport!ChildGoto(next)
  BY DEF Transport!CliTurnStarted, Transport!ChildAt, Transport!Running, Transport!provider, Live
<1>2. LiveContext /\ "turn" \in Event
  BY <1>1, LiveChild DEF Event
<1>3. Goes(next) /\ Writes("turn")
  BY <1>1, <1>2, ChildMoves, ChildWrites DEF LiveContext
<1>4. turnChild.input # "none" /\ (parent \notin Mute => Opens(pipe))
  BY <1>1, <1>2 DEF LiveContext
<1>5. ChildHolds'
  BY <1>1, <1>2, <1>3, <1>4 DEF ChildHolds, Live, LiveContext, Goes
<1> QED BY <1>1, <1>2, <1>3, <1>4, <1>5, ReaderKeeps DEF LiveContext, Goes

LEMMA CliItemKeeps ==
    ASSUME TurnInv, Transport!CliItem
    PROVE  TurnInv'
<1>1. /\ Live /\ Transport!ChildOnly /\ sent' = sent /\ completed' = completed
      /\ kind = "subscription" /\ turnChild.pc = "stream" /\ turnChild' = turnChild
  BY DEF Transport!CliItem, Transport!ChildAt, Transport!Running, Transport!provider, Live
<1>2. PICK e \in {"message", "unapproved"} : Transport!Emit(e)
  BY DEF Transport!CliItem
<1>3. LiveContext /\ e \in Event
  BY <1>1, LiveChild DEF Event
<1>4. Writes(e) /\ turnChild.input # "none"
  BY <1>1, <1>2, <1>3, ChildWrites DEF LiveContext
<1>5. ChildHolds'
  BY <1>1, <1>3 DEF ChildHolds, Live, LiveContext
<1> QED BY <1>1, <1>3, <1>4, <1>5, ReaderKeeps DEF LiveContext

LEMMA CliCompletedKeeps ==
    ASSUME TurnInv, Transport!CliCompleted
    PROVE  TurnInv'
<1>1. /\ Live /\ Transport!ChildOnly /\ sent' = sent
      /\ kind = "subscription" /\ turnChild.pc = "stream"
      /\ Transport!Emit("completed") /\ Transport!ChildGoto("over")
  BY DEF Transport!CliCompleted, Transport!ChildAt, Transport!Running, Live
<1>0. completed'
  BY DEF Transport!CliCompleted
<1>2. LiveContext /\ "completed" \in Event
  BY <1>1, LiveChild DEF Event
<1>3. Goes("over") /\ Writes("completed")
  BY <1>1, <1>2, ChildMoves, ChildWrites DEF LiveContext
<1>4. turnChild.input # "none"
  BY <1>1, <1>2 DEF LiveContext
<1>5. ChildHolds'
  BY <1>0, <1>1, <1>2, <1>3, <1>4 DEF ChildHolds, Live, LiveContext, Goes
<1> QED BY <1>1, <1>2, <1>3, <1>4, <1>5, ReaderKeeps DEF LiveContext, Goes

LEMMA CliExitKeeps ==
    ASSUME TurnInv, Transport!CliExit
    PROVE  TurnInv'
<1>1. /\ Live /\ Transport!ChildOnly /\ sent' = sent /\ completed' = completed
      /\ kind = "subscription" /\ pipe' = pipe
  BY DEF Transport!CliExit, Transport!Running, Transport!provider, Live
<1>2. PICK c \in {0, 1} : (c = 0 => turnChild.pc = "over") /\ Transport!Exit(c)
  BY DEF Transport!CliExit
<1>3. LiveContext
  BY <1>1, LiveChild
<1>4. Exits(c)
  BY <1>2, <1>3, ChildExits DEF LiveContext
<1>5. ChildHolds'
  BY <1>1, <1>2, <1>3, <1>4 DEF ChildHolds, Live, LiveContext, Exits
<1> QED BY <1>1, <1>3, <1>4, <1>5, ChildKeeps DEF LiveContext, Exits

LEMMA ChildJunkKeeps ==
    ASSUME TurnInv, Transport!ChildJunk
    PROVE  TurnInv'
<1>1. /\ Live /\ Transport!ChildOnly /\ sent' = sent /\ completed' = completed
      /\ turnChild' = turnChild /\ turnChild.input # "none" /\ Transport!Emit("junk")
  BY DEF Transport!ChildJunk, Transport!Running, Transport!provider, Live
<1>2. LiveContext /\ "junk" \in Event
  BY <1>1, LiveChild DEF Event
<1>3. Writes("junk")
  BY <1>1, <1>2, ChildWrites
<1>4. ChildHolds'
  BY <1>1, <1>2 DEF ChildHolds, Live, LiveContext
<1> QED BY <1>1, <1>2, <1>3, <1>4, ChildKeeps DEF LiveContext, Writes

\* A worker that refuses before it launches says so, or is cut off from saying.
LEMMA WorkerRefuses ==
    ASSUME TurnInv, Transport!ChildOnly, Live, sent' = sent, completed' = completed,
           kind = "api", turnChild.pc \in {"boot", "connect", "thread"},
           turnChild.input # "none", turnChild.pc = "boot" => turnChild.input = "whole",
           Transport!Emit("failure_before"), Transport!Exit(1)
    PROVE  TurnInv'
<1>1. LiveContext /\ "failure_before" \in Event
  BY LiveChild DEF Event
<1>2. Exits(1) /\ Writes("failure_before")
  BY <1>1, ChildExits, ChildWrites DEF LiveContext
<1>3. sent = 0
  BY <1>1 DEF LiveContext
<1>4. ChildHolds'
  BY <1>1, <1>2 DEF ChildHolds, Live, LiveContext, Exits
<1> QED BY <1>1, <1>2, <1>3, <1>4, ReaderKeeps DEF LiveContext, Exits

\* A worker goes on without transmitting.
LEMMA WorkerAdvances ==
    ASSUME TurnInv, Transport!ChildOnly, Live, sent' = sent, completed' = completed,
           kind = "api", turnChild.input # "none",
           NEW c \in {"connect", "thread", "turn", "stream"},
           turnChild.pc = "boot" => turnChild.input = "whole",
           c = "stream" => turnChild.pc = "launched",
           c # "stream" => turnChild.pc \in {"boot", "connect", "thread"},
           Transport!ChildGoto(c),
           \/ pipe' = pipe
           \/ \E e \in {"ready", "intent", "launched"} : Transport!Emit(e)
    PROVE  TurnInv'
<1>1. LiveContext
  BY LiveChild
<1>2. Goes(c)
  BY <1>1, ChildMoves DEF LiveContext
<1>3. \/ pipe' = pipe
      \/ \E e \in Event : Writes(e) /\ e # "turn" /\ e # "failure_before"
  <2>1. ASSUME NEW e \in {"ready", "intent", "launched"}, Transport!Emit(e)
        PROVE  e \in Event /\ Writes(e) /\ e # "turn" /\ e # "failure_before"
    <3>1. e \in Event
      BY DEF Event
    <3> QED BY <2>1, <3>1, ChildWrites
  <2> QED BY <2>1
<1>4. ChildHolds'
  BY <1>1, <1>2 DEF ChildHolds, Live, LiveContext, Goes
<1> QED BY <1>1, <1>2, <1>3, <1>4, ReaderKeeps DEF LiveContext, Goes

LEMMA WorkerMainKeeps ==
    ASSUME TurnInv, Transport!WorkerMain
    PROVE  TurnInv'
<1>1. /\ Live /\ Transport!ChildOnly /\ sent' = sent /\ completed' = completed
      /\ kind = "api" /\ turnChild.pc = "boot" /\ turnChild.input # "none"
  BY DEF Transport!WorkerMain, Transport!ChildAt, Transport!Running, Transport!provider, Live
<1>2. CASE turnChild.input = "partial" /\ Transport!Exit(1) /\ pipe' = pipe
  <2>1. LiveContext
    BY <1>1, LiveChild
  <2>2. Exits(1)
    BY <1>2, <2>1, ChildExits DEF LiveContext
  <2>3. ChildHolds'
    BY <1>1, <2>1, <2>2 DEF ChildHolds, Live, LiveContext, Exits
  <2> QED BY <1>1, <1>2, <2>1, <2>2, <2>3, ChildKeeps DEF LiveContext, Exits
<1>3. CASE turnChild.input = "whole" /\ Transport!Emit("failure_before") /\ Transport!Exit(1)
  BY <1>1, <1>3, WorkerRefuses
<1>4. CASE turnChild.input = "whole" /\ Transport!ChildGoto("connect") /\ pipe' = pipe
  BY <1>1, <1>4, WorkerAdvances
<1> QED BY <1>2, <1>3, <1>4 DEF Transport!WorkerMain

LEMMA WorkerReadyKeeps ==
    ASSUME TurnInv, Transport!WorkerReady
    PROVE  TurnInv'
<1>1. /\ Live /\ Transport!ChildOnly /\ sent' = sent /\ completed' = completed
      /\ kind = "api" /\ turnChild.pc = "connect"
  BY DEF Transport!WorkerReady, Transport!ChildAt, Transport!Running, Transport!provider, Live
<1>2. turnChild.input # "none"
  BY <1>1, LiveChild DEF LiveContext
<1>3. CASE Transport!Emit("failure_before") /\ Transport!Exit(1)
  BY <1>1, <1>2, <1>3, WorkerRefuses
<1>4. CASE Transport!Emit("ready") /\ Transport!ChildGoto("thread")
  BY <1>1, <1>2, <1>4, WorkerAdvances
<1> QED BY <1>3, <1>4 DEF Transport!WorkerReady

LEMMA WorkerIntentKeeps ==
    ASSUME TurnInv, Transport!WorkerIntent
    PROVE  TurnInv'
<1>1. /\ Live /\ Transport!ChildOnly /\ sent' = sent /\ completed' = completed
      /\ kind = "api" /\ turnChild.pc = "thread"
  BY DEF Transport!WorkerIntent, Transport!ChildAt, Transport!Running, Transport!provider, Live
<1>2. turnChild.input # "none"
  BY <1>1, LiveChild DEF LiveContext
<1>3. CASE Transport!Emit("failure_before") /\ Transport!Exit(1)
  BY <1>1, <1>2, <1>3, WorkerRefuses
<1>4. CASE Transport!Emit("intent") /\ Transport!ChildGoto("turn")
  BY <1>1, <1>2, <1>4, WorkerAdvances
<1> QED BY <1>3, <1>4 DEF Transport!WorkerIntent

LEMMA WorkerLaunchedKeeps ==
    ASSUME TurnInv, Transport!WorkerLaunched
    PROVE  TurnInv'
<1>1. /\ Live /\ Transport!ChildOnly /\ sent' = sent /\ completed' = completed
      /\ kind = "api" /\ turnChild.pc = "launched"
      /\ Transport!Emit("launched") /\ Transport!ChildGoto("stream")
  BY DEF Transport!WorkerLaunched, Transport!ChildAt, Transport!Running, Transport!provider, Live
<1>2. turnChild.input # "none"
  BY <1>1, LiveChild DEF LiveContext
<1> QED BY <1>1, <1>2, WorkerAdvances

\* The turn is transmitted once: the worker stood before it.
LEMMA WorkerTurnKeeps ==
    ASSUME TurnInv, Transport!WorkerTurn
    PROVE  TurnInv'
<1>1. /\ Live /\ Transport!ChildOnly /\ completed' = completed
      /\ kind = "api" /\ turnChild.pc = "turn" /\ sent' \in {sent, sent + 1}
  BY DEF Transport!WorkerTurn, Transport!ChildAt, Transport!Running, Live
<1>2. LiveContext /\ "failure_after" \in Event
  BY <1>1, LiveChild DEF Event
<1>3. sent = 0 /\ turnChild.input # "none" /\ sent' \in {0, 1}
  BY <1>1, <1>2 DEF LiveContext
<1>4. CASE sent' = sent + 1 /\ Transport!ChildGoto("launched") /\ pipe' = pipe
  <2>1. Goes("launched")
    BY <1>2, <1>4, ChildMoves DEF LiveContext
  <2>2. ChildHolds'
    BY <1>2, <1>3, <1>4, <2>1 DEF ChildHolds, Live, LiveContext, Goes
  <2> QED BY <1>1, <1>2, <1>3, <1>4, <2>1, <2>2, ReaderKeeps DEF LiveContext, Goes
<1>5. CASE Transport!Emit("failure_after") /\ Transport!Exit(1)
  <2>1. Exits(1) /\ Writes("failure_after")
    BY <1>2, <1>5, ChildExits, ChildWrites DEF LiveContext
  <2>2. ChildHolds'
    BY <1>2, <2>1 DEF ChildHolds, Live, LiveContext, Exits
  <2> QED BY <1>1, <1>2, <1>3, <2>1, <2>2, ReaderKeeps DEF LiveContext, Exits
<1> QED BY <1>4, <1>5 DEF Transport!WorkerTurn

LEMMA WorkerEndKeeps ==
    ASSUME TurnInv, Transport!WorkerEnd
    PROVE  TurnInv'
<1>1. /\ Live /\ Transport!ChildOnly /\ sent' = sent
      /\ kind = "api" /\ turnChild.pc = "stream"
  BY DEF Transport!WorkerEnd, Transport!ChildAt, Transport!Running, Live
<1>2. LiveContext /\ "failure_after" \in Event /\ "result" \in Event
  BY <1>1, LiveChild DEF Event
<1>3. turnChild.input # "none" /\ sent = 1
  BY <1>1, <1>2 DEF LiveContext
<1>4. CASE completed' = TRUE /\ Transport!Emit("result") /\ Transport!Exit(0)
  <2>1. Exits(0) /\ Writes("result")
    BY <1>2, <1>4, ChildExits, ChildWrites DEF LiveContext
  <2>2. completed'
    BY <1>4
  <2>3. ChildHolds'
    BY <1>1, <1>2, <1>3, <2>1, <2>2 DEF ChildHolds, Live, LiveContext, Exits
  <2> QED BY <1>1, <1>2, <1>3, <2>1, <2>3, ReaderKeeps DEF LiveContext, Exits
<1>5. CASE Transport!Emit("failure_after") /\ Transport!Exit(1)
  <2>1. Exits(1) /\ Writes("failure_after")
    BY <1>2, <1>5, ChildExits, ChildWrites DEF LiveContext
  <2>2. ChildHolds'
    BY <1>2, <2>1 DEF ChildHolds, Live, LiveContext, Exits
  <2> QED BY <1>1, <1>2, <1>3, <2>1, <2>2, ReaderKeeps DEF LiveContext, Exits
<1> QED BY <1>4, <1>5 DEF Transport!WorkerEnd

LEMMA WorkerDiesKeeps ==
    ASSUME TurnInv, Transport!WorkerDies
    PROVE  TurnInv'
<1>1. /\ Live /\ Transport!ChildOnly /\ sent' = sent /\ pipe' = pipe
      /\ kind = "api" /\ Transport!Exit(1)
  BY DEF Transport!WorkerDies, Transport!Running, Transport!provider, Live
<1>2. LiveContext
  BY <1>1, LiveChild
<1>3. Exits(1)
  BY <1>1, <1>2, ChildExits DEF LiveContext
<1>4. ChildHolds'
  BY <1>2, <1>3 DEF ChildHolds, Live, LiveContext, Exits
<1> QED BY <1>1, <1>2, <1>3, <1>4, ChildKeeps DEF LiveContext, Exits

\* The parent's preparations: there is no child yet, and an answer is a refusal
\* or an exception.
LEMMA PreparationKeeps ==
    ASSUME TurnInv, parent \in Preparing,
           UNCHANGED <<kind, cut, captured, turnChild, pipe, sent>>, attempt => attempt',
           \/ /\ parent' \in Preparing /\ answer' = answer
              /\ parent' \in Bound => attempt' /\ sent = 0
           \/ parent' = "done" /\ answer' \in {Transport!NotLaunched, Transport!Raised}
    PROVE  TurnInv'
<1>1. /\ turnChild.state = "none" /\ pipe = <<>> /\ captured = <<>> /\ cut = "none"
      /\ sent = 1 => attempt
  BY DEF TurnInv, SpawnHolds
<1>2. answer.effect = "none"
  BY DEF TurnInv, AnswerHolds, Preparing
<1>3. parent' \in Steps /\ parent' \notin Supervision \cup {"collect", "classify", "finish", "attest"}
  BY DEF Steps, Preparing, Mute, Supervision
<1>4. parent' = "done" => answer'.effect \in {"not_launched", "raised"}
  <2>1. Transport!NotLaunched.effect = "not_launched"
    BY OutcomeFields DEF Transport!NotLaunched
  <2>2. Transport!Raised.effect = "raised"
    BY DEF Transport!Raised
  <2> QED BY <2>1, <2>2 DEF Preparing
<1>5. parent' # "done" => answer'.effect = "none"
  BY <1>2
<1>6. TurnTypes'
  BY <1>3 DEF TurnInv, TurnTypes
<1>7. ChildHolds'
  BY <1>1 DEF ChildHolds, Live
<1>8. SpawnHolds'
  <2>1. parent' = "done" => parent' \notin Preparing \cup Bound
    BY DEF Preparing, Bound
  <2>2. parent' # "measure"
    BY <1>3 DEF Supervision
  <2>3. sent' = 1 => attempt'
    BY <1>1
  <2> QED BY <1>1, <1>3, <2>1, <2>2, <2>3 DEF SpawnHolds
<1>9. AnswerHolds'
  BY <1>1, <1>3, <1>4, <1>5 DEF AnswerHolds, Live
<1>10. AuditHolds'
  <2>1. parent' = "done" => answer' = Transport!Raised \/ Auditable(answer')
    BY AuditableOutcomes DEF Preparing
  <2>2. parent' \notin {"finish", "attest"}
    BY <1>3
  <2> QED BY <2>1, <2>2 DEF AuditHolds
<1>11. PipeHolds'
  BY <1>1, <1>3, EmptyStream DEF PipeHolds, Live
<1> QED BY <1>6, <1>7, <1>8, <1>9, <1>10, <1>11 DEF TurnInv

LEMMA PreparingKeeps ==
    ASSUME TurnInv,
           \/ Transport!Preflight \/ Transport!SkillSnapshot \/ Transport!ProcessContext
           \/ Transport!StageSkillSnapshot \/ Transport!ProbeAuth \/ Transport!ProbeSkillCatalog
    PROVE  TurnInv'
<1>1. parent \in Bound => attempt /\ sent = 0
  BY DEF TurnInv, SpawnHolds
<1>2. CASE Transport!Preflight
  <2>1. /\ parent = "preflight" /\ UNCHANGED <<kind, cut, captured, turnChild, pipe, sent>>
        /\ attempt' = attempt
        /\ \/ parent' \in {"attempt", "snapshot"} /\ answer' = answer
           \/ parent' = "done" /\ answer' = Transport!NotLaunched
    BY <1>2 DEF Transport!Preflight, Transport!At, Transport!Answers, Transport!config,
       Transport!world, Transport!dirs, Transport!provider
  <2> QED BY <2>1, PreparationKeeps DEF Preparing, Bound
<1>3. CASE Transport!SkillSnapshot
  <2>1. /\ parent = "snapshot" /\ UNCHANGED <<kind, cut, captured, turnChild, pipe, sent>>
        /\ attempt' = attempt
        /\ \/ parent' = "attempt" /\ answer' = answer
           \/ parent' = "done" /\ answer' = Transport!NotLaunched
    BY <1>3 DEF Transport!SkillSnapshot, Transport!At, Transport!Answers, Transport!config,
       Transport!dirs, Transport!provider
  <2> QED BY <2>1, PreparationKeeps DEF Preparing, Bound
<1>4. CASE Transport!ProcessContext
  <2>1. /\ parent = "context" /\ UNCHANGED <<kind, cut, captured, turnChild, pipe, sent>>
        /\ attempt' = attempt
        /\ \/ parent' = "stage" /\ answer' = answer
           \/ parent' = "done" /\ answer' = Transport!NotLaunched
    BY <1>4 DEF Transport!ProcessContext, Transport!At, Transport!Answers, Transport!config,
       Transport!world, Transport!provider
  <2> QED BY <1>1, <2>1, PreparationKeeps DEF Preparing, Bound
<1>5. CASE Transport!StageSkillSnapshot
  <2>1. /\ parent = "stage" /\ UNCHANGED <<kind, cut, captured, turnChild, pipe, sent>>
        /\ attempt' = attempt
        /\ \/ parent' = "probe" /\ answer' = answer
           \/ parent' = "done" /\ answer' \in {Transport!NotLaunched, Transport!Raised}
    BY <1>5 DEF Transport!StageSkillSnapshot, Transport!At, Transport!Answers, Transport!config,
       Transport!world, Transport!dirs, Transport!provider
  <2> QED BY <1>1, <2>1, PreparationKeeps DEF Preparing, Bound
<1>6. CASE Transport!ProbeAuth
  <2>1. /\ parent = "probe" /\ UNCHANGED <<kind, cut, captured, turnChild, pipe, sent>>
        /\ attempt' = attempt
        /\ \/ parent' = "catalog" /\ answer' = answer
           \/ parent' = "done" /\ answer' = Transport!NotLaunched
    BY <1>6 DEF Transport!ProbeAuth, Transport!At, Transport!Answers, Transport!config,
       Transport!world, Transport!dirs, Transport!provider
  <2> QED BY <1>1, <2>1, PreparationKeeps DEF Preparing, Bound
<1>7. CASE Transport!ProbeSkillCatalog
  <2>1. /\ parent = "catalog" /\ UNCHANGED <<kind, cut, captured, turnChild, pipe, sent>>
        /\ attempt' = attempt
        /\ \/ parent' = "spawn" /\ answer' = answer
           \/ parent' = "done" /\ answer' = Transport!NotLaunched
    BY <1>7 DEF Transport!ProbeSkillCatalog, Transport!At, Transport!Answers, Transport!config,
       Transport!world, Transport!dirs, Transport!provider
  <2> QED BY <1>1, <2>1, PreparationKeeps DEF Preparing, Bound
<1> QED BY <1>2, <1>3, <1>4, <1>5, <1>6, <1>7

\* The attempt directory is created by whom it was not there for.
LEMMA CreateAttemptKeeps ==
    ASSUME TurnInv, Transport!CreateAttempt
    PROVE  TurnInv'
<1>1. parent = "attempt" /\ UNCHANGED <<kind, cut, captured, turnChild, pipe, sent>>
  BY DEF Transport!CreateAttempt, Transport!At, Transport!config, Transport!provider
<1>2. sent \in {0, 1} /\ (sent = 1 => attempt)
  BY DEF TurnInv, TurnTypes, SpawnHolds
<1>3. CASE attempt' = attempt /\ parent' = "done" /\ answer' = Transport!NotLaunched
  BY <1>1, <1>3, PreparationKeeps DEF Preparing
<1>4. CASE ~attempt /\ attempt' = TRUE /\ parent' = Transport!Prepare /\ answer' = answer
  <2>1. parent' \in {"context", "spawn"} /\ attempt' /\ sent = 0
    BY <1>2, <1>4 DEF Transport!Prepare
  <2> QED BY <1>1, <1>4, <2>1, PreparationKeeps DEF Preparing, Bound
<1>5. \/ attempt' = attempt /\ parent' = "done" /\ answer' = Transport!NotLaunched
      \/ ~attempt /\ attempt' = TRUE /\ parent' = Transport!Prepare /\ answer' = answer
  BY DEF Transport!CreateAttempt, Transport!Answers
<1> QED BY <1>3, <1>4, <1>5

\* The child is started: the attempt is new, so nothing was transmitted.
LEMMA SpawnKeeps ==
    ASSUME TurnInv, Transport!Spawn
    PROVE  TurnInv'
<1>1. parent = "spawn" /\ UNCHANGED <<kind, cut, captured, pipe, sent, attempt>>
  BY DEF Transport!Spawn, Transport!At, Transport!config, Transport!provider, Transport!dirs
<1>2. CASE turnChild' = turnChild /\ parent' = "done" /\ answer' = Transport!NotLaunched
  BY <1>1, <1>2, PreparationKeeps DEF Preparing
<1>3. CASE /\ turnChild' = [Transport!NoChild EXCEPT !.state = "running"]
           /\ parent' = (IF kind = "api" THEN "measure" ELSE "feed") /\ answer' = answer
  <2>1. /\ pipe = <<>> /\ captured = <<>> /\ cut = "none" /\ attempt /\ sent = 0
        /\ answer.effect = "none" /\ kind \in {"api", "subscription"}
    BY <1>1 DEF TurnInv, TurnTypes, SpawnHolds, AnswerHolds, Preparing, Bound
  <2>2. /\ turnChild' \in ChildRecords /\ turnChild'.state = "running"
        /\ turnChild'.pc = "boot" /\ turnChild'.input = "none"
    BY <1>3 DEF Transport!NoChild, ChildRecords
  <2>3. parent' \in Supervision /\ parent' \notin Preparing \cup Bound \cup Mute \cup {"collect"}
    BY <1>3 DEF Supervision, Preparing, Bound, Mute
  <2>4. TurnTypes'
    BY <1>1, <2>2, <2>3 DEF TurnInv, TurnTypes, Steps
  <2>5. ChildHolds'
    BY <1>1, <2>1, <2>2 DEF ChildHolds, Live
  <2>6. SpawnHolds'
    <3>1. parent' \notin {"collect", "classify", "finish", "attest"} /\ (parent' = "measure" => kind = "api")
      BY <1>3
    <3> QED BY <1>1, <2>1, <2>2, <2>3, <3>1 DEF SpawnHolds
  <2>7. AnswerHolds' /\ AuditHolds'
    BY <1>1, <1>3, <2>1, <2>3 DEF AnswerHolds, AuditHolds, Mute
  <2>8. PipeHolds'
    BY <1>1, <2>1, <2>2, EmptyStream DEF PipeHolds, Live
  <2> QED BY <2>4, <2>5, <2>6, <2>7, <2>8 DEF TurnInv
<1> QED BY <1>1, <1>2, <1>3 DEF Transport!Spawn, Transport!Answers

\* A child that was stopped, or could not be.
LEMMA ChildStopped ==
    ASSUME turnChild \in ChildRecords, turnChild' \in Transport!Terminated(turnChild)
    PROVE  /\ turnChild' \in ChildRecords
           /\ turnChild'.pc = turnChild.pc /\ turnChild'.input = turnChild.input
           /\ turnChild'.state # "killed"
                 => turnChild'.state = turnChild.state /\ turnChild'.code = turnChild.code
<1>1. turnChild' = turnChild \/ turnChild' = [turnChild EXCEPT !.state = "killed", !.code = 1]
  BY DEF Transport!Terminated
<1>2. CASE turnChild' = turnChild
  BY <1>2
<1>3. CASE turnChild' = [turnChild EXCEPT !.state = "killed", !.code = 1]
  <2>1. turnChild'.pc = turnChild.pc /\ turnChild'.input = turnChild.input /\ turnChild'.state = "killed"
    BY <1>3 DEF ChildRecords
  <2>2. turnChild' \in ChildRecords
    BY <1>3 DEF ChildRecords
  <2> QED BY <2>1, <2>2
<1> QED BY <1>1, <1>2, <1>3

\* A request that is refused was not written: its child can only end.
LEMMA MeasureInputKeeps ==
    ASSUME TurnInv, Transport!MeasureInput
    PROVE  TurnInv'
<1>1. parent = "measure" /\ UNCHANGED <<kind, cut, captured, pipe, sent, completed, attempt>>
  BY DEF Transport!MeasureInput, Transport!At, Transport!config, Transport!provider, Transport!dirs
<1>2. /\ captured = <<>> /\ cut = "none" /\ sent = 0 /\ kind = "api"
      /\ turnChild.state \in {"running", "exited"} /\ turnChild.pc = "boot" /\ turnChild.input = "none"
      /\ turnChild \in ChildRecords /\ answer.effect = "none" /\ attempt
  BY <1>1 DEF TurnInv, TurnTypes, SpawnHolds, AnswerHolds, Supervision
<1>3. Ordered(pipe) /\ (Says(pipe, "failure_before") => ~Live)
  BY DEF TurnInv, PipeHolds
<1>4. CASE parent' = "feed" /\ turnChild' = turnChild /\ answer' = answer
  <2>1. parent' \in Supervision /\ parent' \notin Preparing \cup Bound
    BY <1>4 DEF Supervision, Preparing, Bound
  <2>2. TurnTypes' /\ ChildHolds'
    BY <1>1, <1>4, <2>1 DEF TurnInv, TurnTypes, Steps, ChildHolds, Live
  <2>3. SpawnHolds'
    BY <1>1, <1>2, <1>4, <2>1 DEF SpawnHolds
  <2>4. AnswerHolds' /\ AuditHolds'
    BY <1>1, <1>2, <1>4 DEF AnswerHolds, AuditHolds
  <2>5. PipeHolds'
    BY <1>1, <1>2, <1>3, <1>4, EmptyStream DEF PipeHolds, Live
  <2> QED BY <2>2, <2>3, <2>4, <2>5 DEF TurnInv
<1>5. CASE /\ turnChild' \in Transport!Terminated(turnChild)
           /\ parent' = "done" /\ answer' = Transport!NotLaunched
  <2>1. /\ turnChild' \in ChildRecords
        /\ turnChild'.pc = "boot" /\ turnChild'.input = "none" /\ turnChild'.state # "none"
        /\ turnChild'.state # "killed"
              => turnChild'.state = turnChild.state /\ turnChild'.code = turnChild.code
    BY <1>2, <1>5, ChildStopped
  <2>2. parent' \in Steps /\ parent' \notin Preparing \cup Bound \cup Supervision
    BY <1>5 DEF Supervision, Preparing, Bound, Mute, Steps
  <2>3. answer'.effect = "not_launched"
    BY <1>5, OutcomeFields DEF Transport!NotLaunched
  <2>4. TurnTypes'
    BY <1>1, <2>1, <2>2 DEF TurnInv, TurnTypes
  <2>5. ChildHolds'
    BY <1>1, <1>2, <2>1 DEF TurnInv, ChildHolds, Live
  <2>6. SpawnHolds'
    BY <1>1, <1>2, <1>5, <2>2 DEF SpawnHolds
  <2>7. AnswerHolds'
    BY <1>1, <1>2, <1>5, <2>1, <2>3 DEF AnswerHolds
  <2>8. AuditHolds'
    BY <1>5, AuditableOutcomes DEF AuditHolds
  <2>9. PipeHolds'
    BY <1>1, <1>2, <1>3, <1>5, <2>1, EmptyStream DEF PipeHolds, Live
  <2> QED BY <2>4, <2>5, <2>6, <2>7, <2>8, <2>9 DEF TurnInv
<1> QED BY <1>4, <1>5 DEF Transport!MeasureInput, Transport!Answers

\* While the parent feeds its child and waits for it, it holds the running
\* child's pipe: a step that only moves the parent on.
LEMMA WaitingKeeps ==
    ASSUME TurnInv, parent \in {"feed", "wait"},
           UNCHANGED <<kind, captured, pipe, sent, completed, attempt>>,
           \/ cut' = cut /\ turnChild' = turnChild
           \/ cut' \in {"timeout", "overflow"} /\ turnChild' \in Transport!Terminated(turnChild),
           \/ parent = "feed" /\ parent' = "wait" /\ cut' = cut /\ answer' = answer
           \/ /\ parent = "wait" /\ parent' = "collect" /\ answer' = answer
              /\ cut' # "none" \/ ~Live
    PROVE  TurnInv'
<1>1. /\ captured = <<>> /\ cut = "none" /\ turnChild.state \in {"running", "exited"}
      /\ turnChild \in ChildRecords /\ answer.effect = "none" /\ attempt
  BY DEF TurnInv, TurnTypes, SpawnHolds, AnswerHolds, Supervision, Preparing
<1>2. /\ Ordered(pipe) /\ (Says(pipe, "failure_before") => sent = 0 /\ ~Live)
      /\ kind = "subscription" /\ turnChild.pc # "boot" => Opens(pipe)
  BY DEF TurnInv, PipeHolds, Supervision
<1>3. /\ turnChild' \in ChildRecords
      /\ turnChild'.pc = turnChild.pc /\ turnChild'.input = turnChild.input
      /\ turnChild'.state # "killed"
            => turnChild'.state = turnChild.state /\ turnChild'.code = turnChild.code
      /\ turnChild'.state # "none"
  BY <1>1, ChildStopped
<1>4. parent' \in {"wait", "collect"} /\ parent' \in Steps /\ parent' \notin Preparing \cup Bound
  BY DEF Steps, Supervision, Preparing, Bound
<1>5. TurnTypes'
  BY <1>3, <1>4 DEF TurnInv, TurnTypes
<1>6. ChildHolds'
  BY <1>1, <1>3 DEF TurnInv, ChildHolds, Live
<1>7. SpawnHolds'
  BY <1>1, <1>3, <1>4 DEF SpawnHolds, Supervision, Live
<1>8. AnswerHolds' /\ AuditHolds'
  BY <1>1, <1>4 DEF AnswerHolds, AuditHolds
<1>9. PipeHolds'
  BY <1>1, <1>2, <1>3, EmptyStream DEF PipeHolds, Live
<1> QED BY <1>5, <1>6, <1>7, <1>8, <1>9 DEF TurnInv

LEMMA SupervisionKeeps ==
    ASSUME TurnInv, Transport!FeedRequest \/ Transport!ChildEnded \/ Transport!CutOff
    PROVE  TurnInv'
<1>1. CASE Transport!FeedRequest
  <2>1. /\ parent = "feed" /\ parent' = "wait" /\ cut' = cut /\ answer' = answer
        /\ turnChild' = turnChild /\ UNCHANGED <<kind, captured, pipe, sent, completed, attempt>>
    BY <1>1 DEF Transport!FeedRequest, Transport!At, Transport!config, Transport!world,
       Transport!dirs, Transport!provider
  <2> QED BY <2>1, WaitingKeeps
<1>2. CASE Transport!ChildEnded
  <2>1. /\ parent = "wait" /\ parent' = "collect" /\ cut' = cut /\ answer' = answer /\ ~Live
        /\ turnChild' = turnChild /\ UNCHANGED <<kind, captured, pipe, sent, completed, attempt>>
    BY <1>2 DEF Transport!ChildEnded, Transport!At, Transport!config, Transport!world,
       Transport!dirs, Transport!provider, Transport!Running, Live
  <2> QED BY <2>1, WaitingKeeps
<1>3. CASE Transport!CutOff
  <2>1. /\ parent = "wait" /\ parent' = "collect" /\ answer' = answer
        /\ cut' \in {"timeout", "overflow"} /\ turnChild' \in Transport!Terminated(turnChild)
        /\ UNCHANGED <<kind, captured, pipe, sent, completed, attempt>>
    BY <1>3 DEF Transport!CutOff, Transport!At, Transport!config, Transport!world,
       Transport!dirs, Transport!provider
  <2> QED BY <2>1, WaitingKeeps
<1> QED BY <1>1, <1>2, <1>3

\* An answer in doubt, or an exception, says nothing of the child.
LEMMA DoubtKeeps ==
    ASSUME TurnInv, parent \in {"feed", "collect", "finish", "attest"}, parent' = "done",
           UNCHANGED <<kind, cut, sent, completed, attempt>>,
           turnChild' # turnChild => parent = "feed" /\ turnChild' \in Transport!Terminated(turnChild),
           \/ captured' = captured /\ pipe' = pipe
           \/ /\ parent = "collect" /\ pipe' = <<>>
              /\ \E n \in 0..Len(pipe) : captured' = SubSeq(pipe, 1, n),
           answer' \in {Transport!Unknown(TRUE), Transport!Unknown(FALSE), Transport!Raised}
    PROVE  TurnInv'
<1>1. /\ turnChild \in ChildRecords
      /\ pipe \in Seq(Event) /\ captured \in Seq(Event)
  BY DEF TurnInv, TurnTypes
<1>2. /\ Ordered(pipe) /\ Ordered(captured)
      /\ Says(pipe, "failure_before") \/ Says(captured, "failure_before") => sent = 0 /\ ~Live
  BY DEF TurnInv, PipeHolds
<1>3. /\ turnChild' \in ChildRecords
      /\ turnChild'.pc = turnChild.pc /\ turnChild'.input = turnChild.input
      /\ turnChild'.state # "killed"
            => turnChild'.state = turnChild.state /\ turnChild'.code = turnChild.code
  BY <1>1, ChildStopped
<1>4. answer'.effect \in {"effect_unknown", "raised"} /\ (answer' = Transport!Raised \/ Auditable(answer'))
  <2>1. Auditable(Transport!Unknown(TRUE)) /\ Auditable(Transport!Unknown(FALSE))
    BY AuditableOutcomes
  <2>2. /\ Transport!Unknown(TRUE).effect = "effect_unknown"
        /\ Transport!Unknown(FALSE).effect = "effect_unknown"
    <3>1. ASSUME NEW o, o = Transport!Unknown(TRUE) \/ o = Transport!Unknown(FALSE)
          PROVE  o.effect = "effect_unknown"
      <4>1. \/ o = Transport!Outcome("effect_unknown", Transport!None, Transport!None, TRUE)
            \/ o = Transport!Outcome("effect_unknown", Transport!None, Transport!None, FALSE)
        BY <3>1, Zenon DEF Transport!Unknown
      <4> QED BY <4>1, OutcomeFields
    <3> QED BY <3>1
  <2>3. Transport!Raised.effect = "raised"
    BY DEF Transport!Raised
  <2> QED BY <2>1, <2>2, <2>3
<1>5. /\ pipe' \in Seq(Event) /\ captured' \in Seq(Event) /\ Ordered(pipe') /\ Ordered(captured')
      /\ Says(pipe', "failure_before") \/ Says(captured', "failure_before")
            => Says(pipe, "failure_before") \/ Says(captured, "failure_before")
  <2>1. CASE captured' = captured /\ pipe' = pipe
    BY <1>1, <1>2, <2>1
  <2>2. CASE pipe' = <<>> /\ \E n \in 0..Len(pipe) : captured' = SubSeq(pipe, 1, n)
    BY <1>1, <1>2, <2>2, EmptyStream, ShorterStream
  <2> QED BY <2>1, <2>2
<1>6. TurnTypes'
  BY <1>3, <1>5 DEF TurnInv, TurnTypes, Steps, Mute
<1>7. ChildHolds'
  BY <1>3 DEF TurnInv, ChildHolds, Live
<1>8. SpawnHolds'
  <2>1. turnChild'.state # "none" \/ sent = 1 => attempt
    <3>1. turnChild.state # "none" \/ sent = 1 => attempt
      BY DEF TurnInv, SpawnHolds
    <3>2. parent = "feed" => turnChild.state # "none"
      BY DEF TurnInv, SpawnHolds, Supervision
    <3> QED BY <3>1, <3>2
  <2>2. "done" \notin Preparing \cup Bound \cup Supervision
    BY DEF Preparing, Bound, Supervision
  <2> QED BY <2>1, <2>2 DEF SpawnHolds
<1>9. AnswerHolds' /\ AuditHolds'
  BY <1>4 DEF AnswerHolds, AuditHolds
<1>10. PipeHolds'
  BY <1>2, <1>3, <1>5 DEF PipeHolds, Live, Supervision
<1> QED BY <1>6, <1>7, <1>8, <1>9, <1>10 DEF TurnInv

LEMMA FeedFailsKeeps ==
    ASSUME TurnInv, Transport!FeedFails
    PROVE  TurnInv'
<1>1. /\ parent = "feed" /\ parent' = "done"
      /\ turnChild' \in Transport!Terminated(turnChild) /\ answer' = Transport!Unknown(FALSE)
      /\ UNCHANGED <<kind, cut, sent, completed, attempt, captured, pipe>>
  BY DEF Transport!FeedFails, Transport!At, Transport!Answers, Transport!config, Transport!dirs,
     Transport!provider
<1> QED BY <1>1, DoubtKeeps

\* What is captured is a prefix of what was written.
LEMMA CollectKeeps ==
    ASSUME TurnInv, Transport!Collect
    PROVE  TurnInv'
<1>1. /\ parent = "collect" /\ turnChild' = turnChild /\ pipe' = <<>>
      /\ UNCHANGED <<kind, cut, sent, completed, attempt>>
      /\ \E n \in 0..Len(pipe) : captured' = SubSeq(pipe, 1, n)
  BY DEF Transport!Collect, Transport!At, Transport!config, Transport!dirs, Transport!provider
<1>2. CASE parent' = "classify" /\ answer' = answer
  <2>1. /\ answer.effect = "none" /\ (cut = "none" => turnChild.state = "exited")
        /\ turnChild.state # "none" \/ sent = 1 => attempt
    BY <1>1 DEF TurnInv, SpawnHolds, AnswerHolds
  <2>2. /\ pipe \in Seq(Event) /\ Ordered(pipe)
        /\ Says(pipe, "failure_before") => sent = 0 /\ ~Live
    BY DEF TurnInv, TurnTypes, PipeHolds
  <2>3. /\ captured' \in Seq(Event) /\ Ordered(captured')
        /\ Says(captured', "failure_before") => sent = 0 /\ ~Live
    BY <1>1, <2>2, ShorterStream
  <2>4. TurnTypes' /\ ChildHolds'
    BY <1>1, <1>2, <2>3, EmptyStream DEF TurnInv, TurnTypes, Steps, Mute, ChildHolds, Live
  <2>5. SpawnHolds'
    <3>1. "classify" \notin Preparing \cup Bound \cup Supervision
      BY DEF Preparing, Bound, Supervision
    <3> QED BY <1>1, <1>2, <2>1, <3>1 DEF SpawnHolds
  <2>6. AnswerHolds' /\ AuditHolds'
    BY <1>1, <1>2, <2>1 DEF AnswerHolds, AuditHolds
  <2>7. PipeHolds'
    BY <1>1, <1>2, <2>3, EmptyStream DEF PipeHolds, Live, Supervision
  <2> QED BY <2>4, <2>5, <2>6, <2>7 DEF TurnInv
<1>3. CASE parent' = "done" /\ answer' \in {Transport!Unknown(TRUE), Transport!Raised}
  BY <1>1, <1>3, DoubtKeeps
<1>4. \/ parent' = "classify" /\ answer' = answer
      \/ parent' = "done" /\ answer' \in {Transport!Unknown(TRUE), Transport!Raised}
  BY DEF Transport!Collect, Transport!Answers
<1> QED BY <1>2, <1>3, <1>4

\* What the parent makes of what it captured.
LEMMA ClassifyKeeps ==
    ASSUME TurnInv, Transport!ClassifySubscription \/ Transport!ClassifyApi
    PROVE  TurnInv'
<1>1. /\ parent = "classify" /\ UNCHANGED <<kind, cut, captured, turnChild, pipe, sent, completed, attempt>>
  BY DEF Transport!ClassifySubscription, Transport!ClassifyApi, Transport!At, Transport!config,
     Transport!dirs, Transport!provider
<1>2. /\ captured \in Seq(Event) /\ Ordered(captured)
      /\ Says(captured, "failure_before") => sent = 0 /\ ~Live
      /\ cut = "none" => turnChild.state = "exited"
      /\ turnChild.state = "exited" /\ turnChild.code = 0 => sent = 1 /\ completed
      /\ turnChild.state # "none" \/ sent = 1 => attempt
  BY <1>1 DEF TurnInv, TurnTypes, PipeHolds, SpawnHolds, ChildHolds
<1>3. /\ answer'.effect \in {"effect_unknown", "cancel_unconfirmed", "not_launched", "failed", "succeeded"}
      /\ answer'.effect \in {"not_launched", "failed", "succeeded"} => cut = "none"
      /\ answer'.effect = "not_launched" => Says(captured, "failure_before")
      /\ answer'.effect = "succeeded" => turnChild.code = 0 /\ answer'.thread = 1 /\ answer'.turn = 1
      /\ ~Says(captured, "anonymous") => Auditable(answer')
  <2>1. CASE answer' = Transport!SubscriptionOutcome(captured)
    BY <1>2, <2>1, SubscriptionAnswers
  <2>2. CASE answer' = Transport!ApiOutcome(captured)
    BY <1>2, <2>2, ApiAnswers
  <2>3. \/ answer' = Transport!SubscriptionOutcome(captured)
        \/ answer' = Transport!ApiOutcome(captured)
    BY DEF Transport!ClassifySubscription, Transport!ClassifyApi, Transport!Answers
  <2> QED BY <2>1, <2>2, <2>3
<1>4. parent' \in {"finish", "done"} /\ (parent' = "finish" => answer'.effect = "succeeded")
  BY DEF Transport!ClassifySubscription, Transport!ClassifyApi, Transport!Answers
<1>5. TurnTypes' /\ ChildHolds'
  BY <1>1, <1>4 DEF TurnInv, TurnTypes, Steps, Mute, ChildHolds, Live
<1>6. SpawnHolds'
  <2>1. parent' \notin Preparing \cup Bound \cup Supervision
    BY <1>4 DEF Preparing, Bound, Supervision
  <2> QED BY <1>1, <1>2, <1>4, <2>1 DEF SpawnHolds, Supervision
<1>7. AnswerHolds'
  BY <1>1, <1>2, <1>3, <1>4 DEF AnswerHolds, Live
<1>8. AuditHolds'
  BY <1>1, <1>3 DEF AuditHolds
<1>9. PipeHolds'
  BY <1>1, <1>4 DEF TurnInv, PipeHolds, Live, Supervision
<1> QED BY <1>5, <1>6, <1>7, <1>8, <1>9 DEF TurnInv

\* A success is kept through the checks that follow it, or told as doubt.
LEMMA SuccessKeeps ==
    ASSUME TurnInv, Transport!FinishCapability \/ Transport!ValidatedSealedLiveExecution
    PROVE  TurnInv'
<1>1. /\ parent \in {"finish", "attest"}
      /\ UNCHANGED <<kind, cut, captured, turnChild, pipe, sent, completed, attempt>>
      /\ \/ parent' \in {"attest", "done"} /\ answer' = answer
         \/ parent' = "done" /\ answer' = Transport!Unknown(FALSE)
  BY DEF Transport!FinishCapability, Transport!ValidatedSealedLiveExecution, Transport!At,
     Transport!Answers, Transport!config, Transport!world, Transport!dirs, Transport!provider
<1>2. CASE parent' = "done" /\ answer' = Transport!Unknown(FALSE)
  BY <1>1, <1>2, DoubtKeeps
<1>3. CASE parent' \in {"attest", "done"} /\ answer' = answer
  <2>1. parent' \notin Preparing \cup Bound \cup Supervision
    BY <1>3 DEF Preparing, Bound, Supervision
  <2>2. answer.effect = "succeeded"
    BY <1>1 DEF TurnInv, AnswerHolds
  <2>3. TurnTypes' /\ ChildHolds'
    BY <1>1, <1>3 DEF TurnInv, TurnTypes, Steps, Mute, ChildHolds, Live
  <2>4. SpawnHolds'
    BY <1>1, <1>3, <2>1 DEF TurnInv, SpawnHolds, Supervision
  <2>5. AnswerHolds'
    BY <1>1, <1>3, <2>2 DEF TurnInv, AnswerHolds, Live
  <2>6. AuditHolds'
    BY <1>1, <1>3 DEF TurnInv, AuditHolds
  <2>7. PipeHolds'
    BY <1>1, <2>1, <1>3 DEF TurnInv, PipeHolds, Live
  <2> QED BY <2>3, <2>4, <2>5, <2>6, <2>7 DEF TurnInv
<1> QED BY <1>1, <1>2, <1>3

\* An execution is asked for when no child is left; what was transmitted stays.
LEMMA ExecuteKeeps ==
    ASSUME TurnInv, Transport!Execute
    PROVE  TurnInv'
<1>1. /\ parent' = "preflight" /\ cut' = "none" /\ captured' = <<>> /\ pipe' = <<>>
      /\ answer' = Transport!NoAnswer /\ turnChild' = Transport!NoChild
      /\ UNCHANGED <<kind, sent, completed, attempt>>
  BY DEF Transport!Execute, Transport!config, Transport!dirs, Transport!provider
<1>2. /\ answer'.effect = "none"
      /\ turnChild' \in ChildRecords /\ turnChild'.state = "none"
  BY <1>1 DEF Transport!NoAnswer, Transport!NoChild, ChildRecords
<1>3. sent = 1 => attempt
  BY DEF TurnInv, SpawnHolds
<1>4. TurnTypes'
  BY <1>1, <1>2, EmptyStream DEF TurnInv, TurnTypes, Steps, Preparing
<1>5. ChildHolds' /\ AnswerHolds' /\ AuditHolds'
  BY <1>1, <1>2 DEF ChildHolds, AnswerHolds, AuditHolds, Live
<1>6. SpawnHolds'
  <2>1. "preflight" \notin Bound \cup Supervision
    BY DEF Bound, Supervision
  <2> QED BY <1>1, <1>2, <1>3, <2>1 DEF SpawnHolds
<1>7. PipeHolds'
  BY <1>1, <1>2, EmptyStream DEF PipeHolds, Live, Supervision
<1> QED BY <1>4, <1>5, <1>6, <1>7 DEF TurnInv

\* The parent dies; its child may live on, with nobody to read it.
LEMMA CrashKeeps ==
    ASSUME TurnInv, Transport!Crash
    PROVE  TurnInv'
<1>1. /\ parent' = "idle" /\ answer' = Transport!NoAnswer /\ pipe' = <<>>
      /\ UNCHANGED <<kind, cut, captured, turnChild, sent, completed, attempt>>
  BY DEF Transport!Crash, Transport!config, Transport!world, Transport!dirs, Transport!provider
<1>2. answer'.effect = "none"
  BY <1>1 DEF Transport!NoAnswer
<1>3. "idle" \notin Preparing \cup Bound \cup Supervision
  BY DEF Preparing, Bound, Supervision
<1>4. TurnTypes' /\ ChildHolds'
  BY <1>1, EmptyStream DEF TurnInv, TurnTypes, Steps, Mute, ChildHolds, Live
<1>5. SpawnHolds'
  BY <1>1, <1>3 DEF TurnInv, SpawnHolds, Supervision
<1>6. AnswerHolds' /\ AuditHolds'
  BY <1>1, <1>2 DEF AnswerHolds, AuditHolds
<1>7. PipeHolds'
  BY <1>1, <1>3, EmptyStream DEF TurnInv, PipeHolds, Live
<1> QED BY <1>4, <1>5, <1>6, <1>7 DEF TurnInv

\* The directories and files around the execution are not the turn's.
LEMMA TurnStutters ==
    ASSUME TurnInv,
           UNCHANGED <<kind, attempt, parent, cut, captured, answer, turnChild, pipe, sent, completed>>
    PROVE  TurnInv'
BY DEF TurnInv, TurnTypes, ChildHolds, SpawnHolds, AnswerHolds, AuditHolds, PipeHolds, Live

LEMMA EnvironmentKeeps ==
    ASSUME TurnInv, Transport!Environment
    PROVE  TurnInv'
<1>1. CASE Transport!ReplaceRoot \/ Transport!EditFile
  <2>1. UNCHANGED <<kind, attempt, parent, cut, captured, answer, turnChild, pipe, sent, completed>>
    BY <1>1 DEF Transport!ReplaceRoot, Transport!EditFile, Transport!config, Transport!dirs,
       Transport!provider
  <2> QED BY <2>1, TurnStutters
<1> QED BY <1>1, ExecuteKeeps, CrashKeeps DEF Transport!Environment

LEMMA TurnStep ==
    ASSUME TurnInv, Transport!Next
    PROVE  TurnInv'
<1>1. CASE Transport!Parent
  BY <1>1, PreparingKeeps, CreateAttemptKeeps, SpawnKeeps, MeasureInputKeeps, SupervisionKeeps,
     FeedFailsKeeps, CollectKeeps, ClassifyKeeps, SuccessKeeps DEF Transport!Parent
<1>2. CASE Transport!Cli
  BY <1>2, CliThreadKeeps, CliSendKeeps, CliTurnStartedKeeps, CliItemKeeps, CliCompletedKeeps,
     CliExitKeeps DEF Transport!Cli
<1>3. CASE Transport!Worker
  BY <1>3, WorkerMainKeeps, WorkerReadyKeeps, WorkerIntentKeeps, WorkerTurnKeeps,
     WorkerLaunchedKeeps, WorkerEndKeeps, WorkerDiesKeeps DEF Transport!Worker
<1> QED BY <1>1, <1>2, <1>3, ReadInputKeeps, ChildJunkKeeps, EnvironmentKeeps DEF Transport!Next

\* What the invariant says of the turn.
LEMMA TurnPromises ==
    ASSUME TurnInv
    PROVE  TurnsAreAccounted
<1>1. Transport!SentAtMostOnce
  BY DEF TurnInv, TurnTypes, AnswerHolds, Transport!SentAtMostOnce
<1>2. Transport!SuccessIsTheTurn
  BY DEF TurnInv, AnswerHolds, Transport!SuccessIsTheTurn, Transport!ThreadIdentity
<1>3. Transport!DoubtIsNotHidden
  BY DEF TurnInv, AnswerHolds, Transport!DoubtIsNotHidden
<1>4. Transport!AnswersAreAuditable
  <2>1. Transport!Count(captured, "anonymous") = 0 <=> ~Says(captured, "anonymous")
    BY CountedEvents DEF TurnInv, TurnTypes
  <2> QED BY <2>1 DEF TurnInv, AuditHolds, Auditable, Transport!AnswersAreAuditable
<1> QED BY <1>1, <1>2, <1>3, <1>4 DEF TurnsAreAccounted

-----------------------------------------------------------------------------
(***************************************************************************)
(* The three together: a behaviour of MCSpec moves one of them at a time,  *)
(* and each keeps its own invariant.                                       *)
(***************************************************************************)
LEMMA ThreeInit ==
    ASSUME MCInit
    PROVE  LockInv /\ LeaseInv /\ TurnInv
<1>1. Init /\ Lease!Init /\ Transport!Init
  BY DEF MCInit
<1> QED BY <1>1, InitLock, LeaseInit, TurnInit

LEMMA LockStutters ==
    ASSUME LockInv, UNCHANGED vars
    PROVE  LockInv'
<1>1. LockInv /\ [Next]_vars => LockInv'
  BY LockStep
<1> QED BY <1>1

LEMMA ThreeSteps ==
    ASSUME LockInv, TurnInv, [MCNext]_mcvars
    PROVE  /\ LockInv' /\ TurnInv'
           /\ ~InterruptedCleanup /\ LeaseInv => LeaseInv'
<1>1. CASE Authority(Next)
  BY <1>1, LockStep, LeaseStutters, TurnStutters DEF Authority, transportVars
<1>2. CASE Preparation(Lease!Next)
  BY <1>2, LockStutters, LeaseStep, TurnStutters DEF Preparation, transportVars
<1>3. CASE Execution(Transport!Next)
  BY <1>3, LockStutters, LeaseStutters, TurnStep DEF Execution
<1>4. CASE UNCHANGED mcvars
  BY <1>4, LockStutters, LeaseStutters, TurnStutters DEF mcvars, transportVars
<1> QED BY <1>1, <1>2, <1>3, <1>4 DEF MCNext

\* The same exclusion while the other two move, for every number of threads.
THEOREM LockIsExclusiveInAll == MCSpec => []LeaseIsExclusive
<1>1. LockInv /\ TurnInv /\ [MCNext]_mcvars => (LockInv /\ TurnInv)'
  BY ThreeSteps
<1>2. MCInit => LockInv /\ TurnInv
  BY ThreeInit
<1>3. LockInv => LeaseIsExclusive
  BY DEF LockInv
<1> QED BY <1>1, <1>2, <1>3, PTL DEF MCSpec

\* No error path and no interruption leaks what it had taken, however many
\* threads contend and however often the caller of _prepare_leased is
\* interrupted, as long as no interruption falls into the cleanup itself.
THEOREM NothingLeaks == ~InterruptedCleanup => (MCSpec => []NothingIsLeaked)
<1> SUFFICES ASSUME ~InterruptedCleanup
             PROVE  MCSpec => []NothingIsLeaked
  OBVIOUS
<1> DEFINE Inv == LockInv /\ LeaseInv /\ TurnInv
<1>1. MCInit => Inv
  BY ThreeInit
<1>2. Inv /\ [MCNext]_mcvars => Inv'
  BY ThreeSteps
<1>3. Inv => NothingIsLeaked
  BY LeasePromises DEF LockInv, NothingIsLeaked
<1> QED BY <1>1, <1>2, <1>3, PTL DEF MCSpec

\* A turn is transmitted at most once over all executions and deaths of the
\* parent and never behind "not launched"; a success is the completed turn's; a
\* child that was stopped is told as doubt; the audit model accepts every
\* answer -- however long the streams and however often execute is repeated.
THEOREM TurnsAreAccountedAlways == MCSpec => []TurnsAreAccounted
<1>1. LockInv /\ TurnInv /\ [MCNext]_mcvars => (LockInv /\ TurnInv)'
  BY ThreeSteps
<1>2. MCInit => LockInv /\ TurnInv
  BY ThreeInit
<1>3. TurnInv => TurnsAreAccounted
  BY TurnPromises
<1> QED BY <1>1, <1>2, <1>3, PTL DEF MCSpec

-----------------------------------------------------------------------------
(* The controller of the bridge, for any number of callers, runs and        *)
(* independent roles (CodexBridge).                                         *)

CONSTANTS Runs, Callers, Identities, Identifiers, Instants, Scenarios, NoOne

VARIABLES revs, pointer, identity, identifier, lock, client, launches, bridgeCalls,
          bridgeFaults

Bridge == INSTANCE CodexBridge WITH
    caller <- client, calls <- bridgeCalls, faults <- bridgeFaults

-----------------------------------------------------------------------------
(* What a caller has read and what it is entitled to, step by step.         *)

\* Artifacts: five of each role.
IsArt(art) ==
    /\ art = [r \in Bridge!Roles |-> art[r]]
    /\ \A r \in Bridge!Roles : art[r] = [k \in Bridge!Kinds |-> art[r][k]]

IsCall(me) ==
    /\ me = [pc |-> me.pc, run |-> me.run, role |-> me.role, read |-> me.read, art |-> me.art,
             request |-> me.request, next |-> me.next, at |-> me.at, pair |-> me.pair,
             audit |-> me.audit, token |-> me.token]
    /\ me.run \in Runs /\ me.token \in Nat /\ me.next \in {"idle", "answer", "admitted"}

Confirms == {"claim", "claiming", "claim_write"}
Examines == {"history", "verify_history"}
Publishes == {"publish", "adopt", "stage", "point"}
Commits == {"adopt", "stage", "point"}
Executes == {"transport", "reserve", "reserving", "reserve_write", "conclude"}
Pcs == Confirms \cup Examines \cup Publishes \cup Executes
         \cup {"idle", "replay", "admitted", "launch", "answer"}

\* What a caller has read stays so: a published revision of its run.
HasRead(me) ==
    /\ me.read \in 1..pointer[me.run]
    /\ me.art = revs[me.run][me.read].art

\* Neither the published revision nor one beyond it has the audit of the role.
NoAuditYet(run, role) ==
    \A i \in 1..Len(revs[run]) : i >= pointer[run] => ~Bridge!Has(revs[run][i].art, role, "audit")

Launched(run, role) == \E i \in DOMAIN launches : launches[i] = [run |-> run, role |-> role]
OnRecord(run, role) == pointer[run] > 0 /\ Bridge!Has(Bridge!Revision(run).art, role, "admission")

\* The proposal adds at most the audit of the caller's own execution, and an
\* admission only where there was neither admission nor audit.
Proposes(me) ==
    LET req == me.request IN
    /\ req.run = me.run
    /\ req.expected = me.read
    /\ me.next \in {"answer", "admitted"}
    /\ IsArt(req.rev.art)
    /\ me.read # Bridge!None => HasRead(me)
    /\ \A r \in Bridge!Roles : Bridge!Has(req.rev.art, r, "audit") =>
         \/ me.read # Bridge!None /\ Bridge!Has(me.art, r, "audit")
         \/ me.token # Bridge!None /\ r = me.role
    /\ me.next = "admitted" =>
         /\ me.read # Bridge!None /\ me.token = Bridge!None /\ me.role \in Bridge!Roles
         /\ ~Bridge!Has(me.art, me.role, "admission") /\ ~Bridge!Has(me.art, me.role, "audit")
         /\ Bridge!Has(req.rev.art, me.role, "admission") /\ ~Bridge!Has(req.rev.art, me.role, "audit")

\* The caller whose admission is the published one, before it launches.
Entitled(me) == (me.pc = "replay" /\ me.next = "admitted") \/ me.pc \in {"admitted", "launch"}

\* What a call may count on at its step, whoever makes it ...
CallFits(me) ==
    /\ me.pc \in Pcs
    /\ me.pc # "idle" => IsCall(me)
    /\ me.pc \in Confirms \cup Examines => HasRead(me) /\ me.role \in Bridge!Roles
           /\ me.token = Bridge!None
    /\ me.pc \in Examines => ~Bridge!Has(me.art, me.role, "admission") /\ ~Bridge!Has(me.art,
           me.role, "audit")
    /\ me.pc \in Publishes => Proposes(me)
    /\ me.pc \in Commits =>
         /\ me.read = pointer[me.run]
         /\ pointer[me.run] > 0 => Bridge!SuccessorSemantics(Bridge!Revision(me.run), me.request.rev)
         /\ Bridge!ExecutionProgression(me.request.rev)
    /\ me.pc = "adopt" => Len(revs[me.run]) > pointer[me.run]
    /\ me.pc = "stage" => Len(revs[me.run]) = pointer[me.run]
    /\ me.pc = "point" => /\ Len(revs[me.run]) = pointer[me.run] + 1
                          /\ revs[me.run][pointer[me.run] + 1] = me.request.rev
    /\ me.pc = "replay" => me.request.run = me.run /\ me.next \in {"answer", "admitted"}
    /\ Entitled(me) =>
         /\ me.role \in Bridge!Roles /\ me.token = Bridge!None
         /\ OnRecord(me.run, me.role) /\ NoAuditYet(me.run, me.role)
         /\ ~Launched(me.run, me.role)
    /\ me.pc = "launch" => HasRead(me)
    /\ me.pc \in Executes =>
         HasRead(me) /\ me.role \in Bridge!Roles /\ me.token # Bridge!None /\ NoAuditYet(me.run,
             me.role)
    /\ me.pc # "idle" /\ me.token # Bridge!None =>
         /\ me.token <= Len(launches)
         /\ launches[me.token] = [run |-> me.run, role |-> me.role]

\* ... and the lock of its run, from the checks of a publication to its replay.
Holds(c, me) == me.pc \in Commits \cup {"replay"} => lock[me.run] = c

-----------------------------------------------------------------------------
(* The invariant.                                                           *)

Shapes ==
    /\ \E S : revs \in [Runs -> Seq(S)]
    /\ pointer \in [Runs -> Nat]
    /\ \A run \in Runs : pointer[run] <= Len(revs[run]) /\ Len(revs[run]) <= pointer[run] + 1
    /\ lock \in [Runs \cup {"identities", "identifiers"} -> Callers \cup {NoOne}]
    /\ client = [c \in Callers |-> client[c]]
    /\ launches \in Seq([run : Runs, role : Bridge!Roles])

RevisionsServe ==
    \A run \in Runs : \A i \in 1..Len(revs[run]) :
      IsArt(revs[run][i].art) /\ Bridge!ExecutionProgression(revs[run][i])

CallsFit == \A c \in Callers : \A me \in {client[c]} : CallFits(me) /\ Holds(c, me)

\* Two callers never stand for one execution.
ClaimsDiffer ==
    \A c, d \in Callers :
      c # d /\ client[c].pc # "idle" /\ client[d].pc # "idle" =>
        /\ client[c].token # Bridge!None => client[c].token # client[d].token
        /\ Entitled(client[c]) /\ Entitled(client[d]) /\ client[c].run = client[d].run
             => client[c].role # client[d].role

LaunchesAreOk ==
    /\ \A i, j \in DOMAIN launches : launches[i] = launches[j] => i = j
    /\ \A i \in DOMAIN launches : \A l \in {launches[i]} : OnRecord(l.run, l.role)

BridgeInv == Shapes /\ RevisionsServe /\ CallsFit /\ ClaimsDiffer /\ LaunchesAreOk

-----------------------------------------------------------------------------
(* Steps that touch neither the store nor the launches.                     *)

\* A step of one caller's own keeps the invariant when its new call fits, and
\* stands for no execution that the caller did not already stand for.
LEMMA PrivateStep ==
    ASSUME BridgeInv, NEW c \in Callers, NEW m,
           revs' = revs, pointer' = pointer, launches' = launches,
           client' = [client EXCEPT ![c] = m],
           lock' \in [Runs \cup {"identities", "identifiers"} -> Callers \cup {NoOne}],
           \A d \in Callers \ {c} : \A run \in Runs : lock[run] = d => lock'[run] = d,
           CallFits(m), Holds(c, m)',
           m.pc # "idle" /\ m.token # Bridge!None => client[c].pc # "idle" /\ client[c].token = m.token,
           Entitled(m) =>
             Entitled(client[c]) /\ client[c].run = m.run /\ client[c].role = m.role
    PROVE  BridgeInv'
<1>1. Shapes' /\ RevisionsServe' /\ LaunchesAreOk'
  <2>1. client' = [d \in Callers |-> client'[d]]
    BY DEF BridgeInv, Shapes
  <2>2. Shapes'
    BY <2>1 DEF BridgeInv, Shapes
  <2>3. RevisionsServe' /\ LaunchesAreOk'
    BY DEF BridgeInv, RevisionsServe, LaunchesAreOk, OnRecord, Bridge!Revision
  <2> QED
    BY <2>2, <2>3
<1>2. client'[c] = m /\ \A d \in Callers : d # c => client'[d] = client[d]
  BY DEF BridgeInv, Shapes
<1>3. \A d \in Callers : CallFits(client'[d])
  BY <1>2 DEF BridgeInv, CallsFit
<1>4. ASSUME NEW d \in Callers, NEW me, me = client'[d]
      PROVE  CallFits(me)' /\ Holds(d, me)'
  <2>1. CallFits(me)' <=> CallFits(me)
    BY DEF CallFits, HasRead, Proposes, NoAuditYet, Launched, OnRecord, Bridge!Revision
  <2>2. CallFits(me)
    BY <1>3, <1>4
  <2>3. CASE d = c
    BY <2>1, <2>2, <2>3, <1>2, <1>4
  <2>4. CASE d # c
    <3>1. Holds(d, me)
      BY <2>4, <1>2, <1>4 DEF BridgeInv, CallsFit
    <3>2. me.pc \in Commits \cup {"replay"} => me.run \in Runs
      BY <2>2 DEF CallFits, IsCall, Commits
    <3> QED
      BY <2>1, <2>2, <2>4, <3>1, <3>2 DEF Holds
  <2> QED
    BY <2>3, <2>4
<1>5. CallsFit'
  BY <1>4 DEF CallsFit
<1>6. ClaimsDiffer'
  <2> SUFFICES ASSUME NEW d \in Callers, NEW e \in Callers, d # e,
                      client'[d].pc # "idle", client'[e].pc # "idle"
               PROVE  /\ client'[d].token # Bridge!None => client'[d].token # client'[e].token
                      /\ Entitled(client'[d]) /\ Entitled(client'[e])
                           /\ client'[d].run = client'[e].run
                           => client'[d].role # client'[e].role
    BY DEF ClaimsDiffer, Entitled
  <2>1. ClaimsDiffer
    BY DEF BridgeInv
  <2>2. \A x \in Callers : Entitled(client[x]) => client[x].pc # "idle"
    BY DEF Entitled
  <2>3. CASE d = c
    BY <2>1, <2>2, <2>3, <1>2 DEF ClaimsDiffer
  <2>4. CASE e = c
    BY <2>1, <2>2, <2>4, <1>2 DEF ClaimsDiffer
  <2>5. CASE d # c /\ e # c
    BY <2>1, <2>5, <1>2 DEF ClaimsDiffer
  <2> QED
    BY <2>3, <2>4, <2>5
<1> QED
  BY <1>1, <1>5, <1>6 DEF BridgeInv

\* A call that ends is in nobody's way.
LEMMA CallEnds ==
    ASSUME BridgeInv, NEW c \in Callers,
           revs' = revs, pointer' = pointer, launches' = launches, Bridge!Fails(c),
           lock' \in [Runs \cup {"identities", "identifiers"} -> Callers \cup {NoOne}],
           \A d \in Callers \ {c} : \A run \in Runs : lock[run] = d => lock'[run] = d
    PROVE  BridgeInv'
<1>1. Bridge!Idle.pc = "idle" /\ ~Entitled(Bridge!Idle) /\ CallFits(Bridge!Idle) /\ Holds(c,
          Bridge!Idle)'
  BY DEF Bridge!Idle, Entitled, CallFits, Holds, Pcs, Confirms, Examines, Publishes, Commits,
     Executes
<1> QED
  BY <1>1, PrivateStep DEF Bridge!Fails

\* A call that only goes on keeps what it has read.
LEMMA CallMoves ==
    ASSUME NEW me, IsCall(me), NEW p
    PROVE  LET m == [me EXCEPT !.pc = p] IN
           /\ IsCall(m) /\ m.pc = p
           /\ m.run = me.run /\ m.role = me.role /\ m.read = me.read /\ m.art = me.art
           /\ m.request = me.request /\ m.next = me.next /\ m.at = me.at /\ m.pair = me.pair
           /\ m.audit = me.audit /\ m.token = me.token
  BY DEF IsCall

\* The locks of the registries are not those of the runs.
LEMMA RegistryLock ==
    ASSUME BridgeInv, Bridge!BridgeConstants, NEW c \in Callers,
           NEW l \in {"identities", "identifiers"}, NEW h \in {c, NoOne},
           lock' = [lock EXCEPT ![l] = h]
    PROVE  /\ lock' \in [Runs \cup {"identities", "identifiers"} -> Callers \cup {NoOne}]
           /\ \A d : \A run \in Runs : lock[run] = d => lock'[run] = d
  BY DEF BridgeInv, Shapes, Bridge!BridgeConstants

LEMMA AppendFits ==
    ASSUME NEW art, IsArt(art), NEW r \in Bridge!Roles, NEW k \in Bridge!Kinds, NEW a
    PROVE  /\ IsArt(Bridge!Append1(art, r, k, a))
           /\ \A q \in Bridge!Roles, j \in Bridge!Kinds :
                Bridge!Append1(art, r, k, a)[q][j] = IF q = r /\ j = k THEN a ELSE art[q][j]
<1> DEFINE b == Bridge!Append1(art, r, k, a)
<1>1. b = [q \in Bridge!Roles |-> b[q]]
      /\ \A q \in Bridge!Roles : b[q] = IF q = r THEN [art[r] EXCEPT ![k] = a] ELSE art[q]
  BY DEF IsArt, Bridge!Append1
<1>2. \A q \in Bridge!Roles : b[q] = [j \in Bridge!Kinds |-> b[q][j]]
  BY <1>1 DEF IsArt
<1>3. \A q \in Bridge!Roles, j \in Bridge!Kinds : b[q][j] = IF q = r /\ j = k THEN a ELSE art[q][j]
  BY <1>1 DEF IsArt
<1> QED
  BY <1>1, <1>2, <1>3 DEF IsArt

LEMMA KindsDiffer ==
    ASSUME NEW art, IsArt(art), NEW r \in Bridge!Roles
    PROVE  /\ art[r].audit = art[r]["audit"] /\ art[r].admission = art[r]["admission"]
           /\ art[r].result = art[r]["result"]
  OBVIOUS

LEMMA FirstFits ==
    ASSUME Independent \in Nat \ {0}
    PROVE  IsArt(Bridge!FirstArtifacts)
               /\ \A r \in Bridge!Roles : ~Bridge!Has(Bridge!FirstArtifacts, r, "audit")
<1> DEFINE none(p) == Bridge!NoArtifact
<1>1. \A r \in Bridge!Roles : Bridge!FirstArtifacts[r] = IF r <= Independent
                         THEN [Bridge!NoArtifacts EXCEPT !.request = Bridge!RoleRequest(r, none)]
                         ELSE Bridge!NoArtifacts
  BY DEF Bridge!FirstArtifacts
<1>2. Bridge!FirstArtifacts = [r \in Bridge!Roles |-> Bridge!FirstArtifacts[r]]
  BY DEF Bridge!FirstArtifacts
<1>3. /\ Bridge!NoArtifacts = [k \in Bridge!Kinds |-> Bridge!NoArtifacts[k]]
      /\ Bridge!NoArtifacts["audit"] = Bridge!NoArtifact
      /\ \A x : /\ [Bridge!NoArtifacts EXCEPT !.request = x]
                     = [k \in Bridge!Kinds |-> [Bridge!NoArtifacts EXCEPT !.request = x][k]]
                /\ [Bridge!NoArtifacts EXCEPT !.request = x]["audit"] = Bridge!NoArtifact
  BY DEF Bridge!NoArtifacts, Bridge!Kinds
<1> QED
  BY <1>1, <1>2, <1>3 DEF IsArt, Bridge!Has

LEMMA DependentIsRole ==
    ASSUME Independent \in Nat \ {0}, NEW role \in Bridge!Roles, Bridge!Dependent(role) # Bridge!None
    PROVE  Bridge!Dependent(role) \in Bridge!Roles
  BY DEF Bridge!Dependent, Bridge!Roles, Bridge!Adjudicator, Bridge!ReportWriter, Bridge!None

LEMMA SuccessFits ==
    ASSUME Independent \in Nat \ {0}, NEW art, IsArt(art), NEW role \in Bridge!Roles, NEW result,
               NEW audit
    PROVE  LET after == Bridge!AfterSuccess(art, role, result, audit) IN
           IsArt(after) /\ \A r \in Bridge!Roles : Bridge!Has(after, r, "audit")
               => Bridge!Has(art, r, "audit") \/ r = role
<1> DEFINE one == Bridge!Append1(art, role, "result", result)
           two == Bridge!Append1(one, role, "audit", audit)
           resultOf(p) == two[p].result
           asked == Bridge!RoleRequest(Bridge!Dependent(role), resultOf)
<1>1. IsArt(one) /\ \A q \in Bridge!Roles, j \in Bridge!Kinds :
        one[q][j] = IF q = role /\ j = "result" THEN result ELSE art[q][j]
  BY AppendFits DEF Bridge!Kinds
<1>2. IsArt(two) /\ \A q \in Bridge!Roles, j \in Bridge!Kinds :
        two[q][j] = IF q = role /\ j = "audit" THEN audit ELSE one[q][j]
  <2> HIDE DEF one
  <2> QED
    BY <1>1, AppendFits DEF Bridge!Kinds
<1>3. \A q \in Bridge!Roles : q # role => two[q]["audit"] = art[q]["audit"]
  <2> HIDE DEF one, two
  <2> QED
    BY <1>1, <1>2 DEF Bridge!Kinds
<1>4. CASE Bridge!Dependent(role) = Bridge!None
  <2>1. Bridge!AfterSuccess(art, role, result, audit) = two
    BY <1>4 DEF Bridge!AfterSuccess
  <2> HIDE DEF one, two
  <2> QED
    BY <2>1, <1>2, <1>3 DEF Bridge!Has
<1>5. CASE Bridge!Dependent(role) # Bridge!None
  <2>1. Bridge!Dependent(role) \in Bridge!Roles
    BY <1>5, DependentIsRole
  <2>2. Bridge!AfterSuccess(art, role, result, audit) = Bridge!Append1(two,
            Bridge!Dependent(role), "request", asked)
    BY <1>5 DEF Bridge!AfterSuccess
  <2> HIDE DEF one, two, asked
  <2>3. LET d == Bridge!Append1(two, Bridge!Dependent(role), "request", asked) IN
        IsArt(d) /\ \A q \in Bridge!Roles : d[q]["audit"] = two[q]["audit"]
    BY <2>1, <1>2, AppendFits DEF Bridge!Kinds
  <2> QED
    BY <2>2, <2>3, <1>3 DEF Bridge!Has
<1> QED
  BY <1>4, <1>5

LEMMA CallRequests ==
    ASSUME NEW me, IsCall(me), NEW req
    PROVE  LET m == [me EXCEPT !.request = req] IN
           /\ IsCall(m) /\ m.pc = me.pc /\ m.request = req
           /\ m.run = me.run /\ m.role = me.role /\ m.read = me.read /\ m.art = me.art
           /\ m.token = me.token
  BY DEF IsCall

LEMMA CallContinues ==
    ASSUME NEW me, IsCall(me), NEW next \in {"answer", "admitted"}
    PROVE  LET m == [me EXCEPT !.next = next] IN
           /\ IsCall(m) /\ m.pc = me.pc /\ m.request = me.request /\ m.next = next
           /\ m.run = me.run /\ m.role = me.role /\ m.read = me.read /\ m.art = me.art
           /\ m.token = me.token
  BY DEF IsCall

Proposed(me, req, next) == [me EXCEPT !.pc = "publish", !.request = req, !.next = next]

LEMMA CallPublishes ==
    ASSUME NEW me, IsCall(me), NEW req, NEW next \in {"answer", "admitted"}
    PROVE  LET m == Proposed(me, req, next) IN
           /\ IsCall(m) /\ m.pc = "publish" /\ m.next = next
           /\ m.run = me.run /\ m.role = me.role /\ m.read = me.read /\ m.art = me.art
           /\ m.token = me.token /\ m.request = req
<1> DEFINE one == [me EXCEPT !.pc = "publish"]
           two == [one EXCEPT !.request = req]
           three == [two EXCEPT !.next = next]
<1>1. Proposed(me, req, next) = three
  BY DEF Proposed
<1>2. /\ IsCall(one) /\ one.pc = "publish"
      /\ one.run = me.run /\ one.role = me.role /\ one.read = me.read /\ one.art = me.art
      /\ one.token = me.token
  BY CallMoves
<1> HIDE DEF one
<1>3. /\ IsCall(two) /\ two.pc = one.pc /\ two.request = req
      /\ two.run = one.run /\ two.role = one.role /\ two.read = one.read /\ two.art = one.art
      /\ two.token = one.token
  BY <1>2, CallRequests
<1> HIDE DEF two
<1>4. /\ IsCall(three) /\ three.pc = two.pc /\ three.request = two.request /\ three.next = next
      /\ three.run = two.run /\ three.role = two.role /\ three.read = two.read
      /\ three.art = two.art /\ three.token = two.token
  BY <1>3, CallContinues, ZenonT(60)
<1> HIDE DEF three
<1> QED
  BY <1>1, <1>2, <1>3, <1>4

LEMMA PublicationFits ==
    ASSUME NEW c \in Callers, IsCall(client[c]), NEW run, NEW expected, NEW status, NEW art,
           NEW next \in {"answer", "admitted"}
    PROVE  LET me == client[c]
               m == Bridge!Publication(c, run, expected, status, art, next)
           IN /\ IsCall(m) /\ m.pc = "publish" /\ m.next = next
              /\ m.run = me.run /\ m.role = me.role /\ m.read = me.read /\ m.art = me.art
              /\ m.token = me.token
              /\ m.request.run = run /\ m.request.expected = expected
              /\ m.request.rev.art = art /\ m.request.rev.status = status
<1> DEFINE req == [run |-> run, expected |-> expected, rev |-> [status |-> status, art |-> art]]
<1>1. req.run = run /\ req.expected = expected /\ req.rev.art = art /\ req.rev.status = status
  OBVIOUS
<1>2. Bridge!Publication(c, run, expected, status, art, next) = Proposed(client[c], req, next)
  BY DEF Bridge!Publication, Proposed
<1> HIDE DEF req
<1> QED
  BY <1>1, <1>2, CallPublishes

\* What a call keeps when it goes on to another step of the same kind.
LEMMA SameFits ==
    ASSUME BridgeInv, NEW c \in Callers, client[c].pc # "idle", NEW p,
           \/ client[c].pc \in Confirms /\ p \in Confirms
           \/ client[c].pc \in Examines /\ p \in Examines
           \/ p = "answer",
           NEW m, m = [client[c] EXCEPT !.pc = p]
    PROVE  /\ CallFits(m) /\ ~Entitled(m) /\ m.token = client[c].token
           /\ Holds(c, m)'
<1> DEFINE me == client[c]
<1>1. CallFits(me) /\ IsCall(me)
  BY DEF BridgeInv, CallsFit, CallFits
<1>2. /\ IsCall(m) /\ m.pc = p
      /\ m.run = me.run /\ m.role = me.role /\ m.read = me.read /\ m.art = me.art
      /\ m.token = me.token
  BY <1>1, CallMoves
<1> HIDE DEF me
<1>3. HasRead(m) <=> HasRead(me)
  BY <1>2 DEF HasRead
<1>4. ~Entitled(m) /\ Holds(c, m)'
  BY <1>2 DEF Entitled, Holds, Commits, Confirms, Examines
<1>5. m.pc # "idle" /\ m.token # Bridge!None =>
        m.token <= Len(launches) /\ launches[m.token] = [run |-> m.run, role |-> m.role]
  BY <1>1, <1>2 DEF CallFits, me
<1>6. me.pc \in Confirms \cup Examines =>
        /\ HasRead(me) /\ me.role \in Bridge!Roles /\ me.token = Bridge!None
        /\ me.pc \in Examines => ~Bridge!Has(me.art, me.role, "admission") /\ ~Bridge!Has(me.art,
               me.role, "audit")
  BY <1>1 DEF CallFits
<1>7. \/ me.pc \in Confirms /\ p \in Confirms
      \/ me.pc \in Examines /\ p \in Examines
      \/ p = "answer"
  BY DEF me
<1>8. CallFits(m)
  <2>1. /\ m.pc \in Confirms \cup Examines =>
             /\ HasRead(m) /\ m.role \in Bridge!Roles /\ m.token = Bridge!None
        /\ m.pc \in Examines => ~Bridge!Has(m.art, m.role, "admission") /\ ~Bridge!Has(m.art,
               m.role, "audit")
    BY <1>2, <1>3, <1>6, <1>7 DEF Confirms, Examines
  <2>2. /\ m.pc \in Pcs /\ m.pc \notin Publishes \cup Executes \cup Commits
        /\ m.pc \notin {"adopt", "stage", "point", "replay", "launch"}
    BY <1>2, <1>7 DEF Pcs, Confirms, Examines, Publishes, Executes, Commits
  <2> QED
    BY <1>2, <1>4, <1>5, <2>1, <2>2 DEF CallFits
<1> QED
  BY <1>2, <1>4, <1>8 DEF me

-----------------------------------------------------------------------------
(* The actions that only move their caller.                                 *)

\* A new call of an API knows a published revision, or none.
LEMMA NewCallFits ==
    ASSUME NEW op, NEW run \in Runs, NEW role, NEW read, NEW art, NEW at, NEW pair,
           NEW m, m = [pc |-> op, run |-> run, role |-> role, read |-> read, art |-> art,
                       request |-> Bridge!NoArtifact, next |-> "idle", at |-> at, pair |-> pair,
                       audit |-> Bridge!NoArtifact, token |-> Bridge!None]
    PROVE  /\ IsCall(m) /\ m.pc = op /\ m.run = run /\ m.role = role /\ m.read = read
           /\ m.art = art /\ m.token = Bridge!None
<1>1. /\ m.pc = op /\ m.run = run /\ m.role = role /\ m.read = read /\ m.art = art
      /\ m.request = Bridge!NoArtifact /\ m.next = "idle" /\ m.at = at /\ m.pair = pair
      /\ m.audit = Bridge!NoArtifact /\ m.token = Bridge!None
  OBVIOUS
<1> QED
  BY <1>1 DEF IsCall, Bridge!None

ToConfirm(run, role, read, art, at, pair) ==
    [Bridge!NewCall("claim", run, role) EXCEPT !.read = read, !.art = art, !.at = at,
    !.pair = pair]
ToExecute(run, role, read, art, at) ==
    [Bridge!NewCall("history", run, role) EXCEPT !.read = read, !.art = art, !.at = at]

LEMMA NewCallReads ==
    ASSUME NEW run, NEW role, NEW read, NEW art, NEW at, NEW pair
    PROVE  ToConfirm(run, role, read, art, at, pair)
             = [pc |-> "claim", run |-> run, role |-> role, read |-> read, art |-> art,
                request |-> Bridge!NoArtifact, next |-> "idle", at |-> at, pair |-> pair,
                audit |-> Bridge!NoArtifact, token |-> Bridge!None]
<1> DEFINE new == Bridge!NewCall("claim", run, role)
           one == [new EXCEPT !.read = read]
           two == [one EXCEPT !.art = art]
           three == [two EXCEPT !.at = at]
           four == [three EXCEPT !.pair = pair]
<1>1. ToConfirm(run, role, read, art, at, pair) = four
  BY DEF ToConfirm
<1>2. one = [pc |-> "claim", run |-> run, role |-> role, read |-> read, art |-> Bridge!FirstArtifacts,
             request |-> Bridge!NoArtifact, next |-> "idle", at |-> Bridge!None,
                 pair |-> <<Bridge!None, Bridge!None>>,
             audit |-> Bridge!NoArtifact, token |-> Bridge!None]
  BY DEF Bridge!NewCall
<1> HIDE DEF new, one
<1>3. two = [pc |-> "claim", run |-> run, role |-> role, read |-> read, art |-> art,
             request |-> Bridge!NoArtifact, next |-> "idle", at |-> Bridge!None,
                 pair |-> <<Bridge!None, Bridge!None>>,
             audit |-> Bridge!NoArtifact, token |-> Bridge!None]
  BY <1>2
<1> HIDE DEF two
<1>4. three = [pc |-> "claim", run |-> run, role |-> role, read |-> read, art |-> art,
               request |-> Bridge!NoArtifact, next |-> "idle", at |-> at, pair |-> <<Bridge!None,
                   Bridge!None>>,
               audit |-> Bridge!NoArtifact, token |-> Bridge!None]
  BY <1>3
<1> HIDE DEF three
<1> QED
  BY <1>1, <1>4

LEMMA NewExecutionReads ==
    ASSUME NEW run, NEW role, NEW read, NEW art, NEW at
    PROVE  ToExecute(run, role, read, art, at)
             = [pc |-> "history", run |-> run, role |-> role, read |-> read, art |-> art,
                request |-> Bridge!NoArtifact, next |-> "idle", at |-> at,
                    pair |-> <<Bridge!None, Bridge!None>>,
                audit |-> Bridge!NoArtifact, token |-> Bridge!None]
<1> DEFINE new == Bridge!NewCall("history", run, role)
           one == [new EXCEPT !.read = read]
           two == [one EXCEPT !.art = art]
           three == [two EXCEPT !.at = at]
<1>1. ToExecute(run, role, read, art, at) = three
  BY DEF ToExecute
<1>2. one = [pc |-> "history", run |-> run, role |-> role, read |-> read, art |-> Bridge!FirstArtifacts,
             request |-> Bridge!NoArtifact, next |-> "idle", at |-> Bridge!None,
                 pair |-> <<Bridge!None, Bridge!None>>,
             audit |-> Bridge!NoArtifact, token |-> Bridge!None]
  BY DEF Bridge!NewCall
<1> HIDE DEF new, one
<1>3. two = [pc |-> "history", run |-> run, role |-> role, read |-> read, art |-> art,
             request |-> Bridge!NoArtifact, next |-> "idle", at |-> Bridge!None,
                 pair |-> <<Bridge!None, Bridge!None>>,
             audit |-> Bridge!NoArtifact, token |-> Bridge!None]
  BY <1>2
<1> HIDE DEF two
<1> QED
  BY <1>1, <1>3

LEMMA PrepareRunKeeps ==
    ASSUME Independent \in Nat \ {0}, BridgeInv, NEW c \in Callers, Bridge!PrepareRun(c)
    PROVE  BridgeInv'
<1>1. PICK run \in Runs :
        client' = [client EXCEPT ![c] =
         [Bridge!NewCall("publish", run, Bridge!None) EXCEPT
            !.request = [run |-> run, expected |-> Bridge!None,
                         rev |-> [status |-> "approval_required", art |-> Bridge!FirstArtifacts]],
            !.next = "answer"]]
  BY DEF Bridge!PrepareRun
<1> DEFINE req == [run |-> run, expected |-> Bridge!None,
                   rev |-> [status |-> "approval_required", art |-> Bridge!FirstArtifacts]]
<1>2. PICK m : m = [pc |-> "publish", run |-> run, role |-> Bridge!None, read |-> Bridge!None,
                    art |-> Bridge!FirstArtifacts, request |-> req, next |-> "answer",
                        at |-> Bridge!None,
                    pair |-> <<Bridge!None, Bridge!None>>, audit |-> Bridge!NoArtifact,
                        token |-> Bridge!None]
  OBVIOUS
<1>3. client' = [client EXCEPT ![c] = m]
  <2> DEFINE new == Bridge!NewCall("publish", run, Bridge!None)
             one == [new EXCEPT !.request = req]
             two == [one EXCEPT !.next = "answer"]
  <2>1. client' = [client EXCEPT ![c] = two]
    BY <1>1
  <2> HIDE DEF req
  <2>2. one = [new EXCEPT !.request = req] /\ two = [one EXCEPT !.next = "answer"]
    OBVIOUS
  <2>3. one = [pc |-> "publish", run |-> run, role |-> Bridge!None, read |-> Bridge!None,
               art |-> Bridge!FirstArtifacts, request |-> req, next |-> "idle", at |-> Bridge!None,
               pair |-> <<Bridge!None, Bridge!None>>, audit |-> Bridge!NoArtifact,
                   token |-> Bridge!None]
    BY DEF Bridge!NewCall
  <2> HIDE DEF one, new
  <2>4. two = m
    BY <2>3, <1>2
  <2> QED
    BY <2>1, <2>4
<1>4. req.run = run /\ req.expected = Bridge!None /\ req.rev.art = Bridge!FirstArtifacts
  OBVIOUS
<1> HIDE DEF req
<1>5. /\ m.pc = "publish" /\ m.run = run /\ m.role = Bridge!None /\ m.read = Bridge!None
      /\ m.art = Bridge!FirstArtifacts /\ m.request = req /\ m.next = "answer" /\ m.at = Bridge!None
      /\ m.pair = <<Bridge!None, Bridge!None>> /\ m.audit = Bridge!NoArtifact /\ m.token = Bridge!None
  BY <1>2
<1>6. IsCall(m)
  BY <1>2, <1>5 DEF IsCall, Bridge!None
<1>7. Proposes(m)
  BY <1>4, <1>5, FirstFits DEF Proposes
<1>8. CallFits(m) /\ ~Entitled(m) /\ Holds(c, m)'
  BY <1>5, <1>6, <1>7
  DEF CallFits, Entitled, Holds, Pcs, Confirms, Examines, Publishes, Commits, Executes
<1>9. /\ revs' = revs /\ pointer' = pointer /\ launches' = launches /\ lock' = lock
  BY DEF Bridge!PrepareRun, Bridge!store
<1>10. lock' \in [Runs \cup {"identities", "identifiers"} -> Callers \cup {NoOne}]
  BY <1>9 DEF BridgeInv, Shapes
<1> QED
  BY <1>3, <1>5, <1>8, <1>9, <1>10, PrivateStep

LEMMA ConfirmRoleKeeps ==
    ASSUME BridgeInv, NEW c \in Callers, Bridge!ConfirmRole(c)
    PROVE  BridgeInv'
<1>1. PICK run \in Bridge!Readable, role \in Bridge!Roles, cid \in Identifiers, key \in Identifiers,
           at \in Instants :
        client' = [client EXCEPT ![c] =
          ToConfirm(run, role, pointer[run], Bridge!Revision(run).art, at, <<cid, key>>)]
  <2>1. PICK run \in Bridge!Readable, role \in Bridge!Roles, cid \in Identifiers, key \in Identifiers,
             at \in Instants :
          LET cur == Bridge!Revision(run) IN
          /\ cur.status \in Bridge!OpenStatuses
          /\ Bridge!Has(cur.art, role, "request")
          /\ \A r \in Bridge!Roles : Bridge!Has(cur.art, r, "confirmation") =>
               cur.art[r].confirmation.cid # cid /\ cur.art[r].confirmation.key # key
          /\ client' = [client EXCEPT ![c] =
               [Bridge!NewCall("claim", run, role) EXCEPT !.read = pointer[run], !.art = cur.art,
                                                   !.at = at, !.pair = <<cid, key>>]]
    BY DEF Bridge!ConfirmRole
  <2>2. client' = [client EXCEPT ![c] =
          ToConfirm(run, role, pointer[run], Bridge!Revision(run).art, at, <<cid, key>>)]
    BY <2>1 DEF ToConfirm
  <2> QED
    BY <2>2
<1>2. PICK m : m = [pc |-> "claim", run |-> run, role |-> role, read |-> pointer[run],
                    art |-> Bridge!Revision(run).art, request |-> Bridge!NoArtifact, next |-> "idle",
                    at |-> at, pair |-> <<cid, key>>, audit |-> Bridge!NoArtifact,
                        token |-> Bridge!None]
  OBVIOUS
<1>3. client' = [client EXCEPT ![c] = m]
  <2>1. ToConfirm(run, role, pointer[run], Bridge!Revision(run).art, at, <<cid, key>>) = m
    BY <1>2, NewCallReads
  <2> QED
    BY <1>1, <2>1
<1>4. run \in Runs /\ pointer[run] > 0
  BY DEF Bridge!Readable, Bridge!Reads
<1>5. /\ IsCall(m) /\ m.pc = "claim" /\ m.run = run /\ m.role = role /\ m.read = pointer[run]
      /\ m.art = Bridge!Revision(run).art /\ m.token = Bridge!None
  BY <1>2, <1>4, NewCallFits
<1>6. HasRead(m)
  BY <1>4, <1>5 DEF HasRead, Bridge!Revision, BridgeInv, Shapes
<1>7. CallFits(m) /\ ~Entitled(m) /\ Holds(c, m)'
  BY <1>5, <1>6
  DEF CallFits, Entitled, Holds, Pcs, Confirms, Examines, Publishes, Commits, Executes
<1>8. /\ revs' = revs /\ pointer' = pointer /\ launches' = launches /\ lock' = lock
  BY DEF Bridge!ConfirmRole, Bridge!store
<1>9. lock' \in [Runs \cup {"identities", "identifiers"} -> Callers \cup {NoOne}]
  BY <1>8 DEF BridgeInv, Shapes
<1> QED
  BY <1>3, <1>5, <1>7, <1>8, <1>9, PrivateStep

LEMMA ExecuteConfirmedRoleKeeps ==
    ASSUME BridgeInv, NEW c \in Callers, Bridge!ExecuteConfirmedRole(c)
    PROVE  BridgeInv'
<1>1. PICK run \in Bridge!Readable, role \in Bridge!Roles, at \in Instants :
        /\ Bridge!TurnOrder(Bridge!Revision(run).art, role)
               /\ Bridge!NoReplay(Bridge!Revision(run).art, role)
        /\ client' = [client EXCEPT ![c] =
             ToExecute(run, role, pointer[run], Bridge!Revision(run).art, at)]
  BY DEF Bridge!ExecuteConfirmedRole, ToExecute
<1>2. PICK m : m = [pc |-> "history", run |-> run, role |-> role, read |-> pointer[run],
                    art |-> Bridge!Revision(run).art, request |-> Bridge!NoArtifact, next |-> "idle",
                    at |-> at, pair |-> <<Bridge!None, Bridge!None>>,
                        audit |-> Bridge!NoArtifact, token |-> Bridge!None]
  OBVIOUS
<1>3. client' = [client EXCEPT ![c] = m]
  <2>1. ToExecute(run, role, pointer[run], Bridge!Revision(run).art, at) = m
    BY <1>2, NewExecutionReads
  <2> QED
    BY <1>1, <2>1
<1>4. run \in Runs /\ pointer[run] > 0
  BY DEF Bridge!Readable, Bridge!Reads
<1>5. /\ IsCall(m) /\ m.pc = "history" /\ m.run = run /\ m.role = role /\ m.read = pointer[run]
      /\ m.art = Bridge!Revision(run).art /\ m.token = Bridge!None
  BY <1>2, <1>4, NewCallFits
<1>6. HasRead(m) /\ ~Bridge!Has(m.art, m.role, "admission") /\ ~Bridge!Has(m.art, m.role, "audit")
  BY <1>1, <1>4, <1>5 DEF HasRead, Bridge!Revision, BridgeInv, Shapes, Bridge!NoReplay
<1>7. CallFits(m) /\ ~Entitled(m) /\ Holds(c, m)'
  BY <1>5, <1>6
  DEF CallFits, Entitled, Holds, Pcs, Confirms, Examines, Publishes, Commits, Executes
<1>8. /\ revs' = revs /\ pointer' = pointer /\ launches' = launches /\ lock' = lock
  BY DEF Bridge!ExecuteConfirmedRole, Bridge!store
<1>9. lock' \in [Runs \cup {"identities", "identifiers"} -> Callers \cup {NoOne}]
  BY <1>8 DEF BridgeInv, Shapes
<1> QED
  BY <1>3, <1>5, <1>7, <1>8, <1>9, PrivateStep

\* A caller goes on within the same part of its call.
LEMMA GoesOn ==
    ASSUME BridgeInv, NEW c \in Callers, client[c].pc # "idle", NEW p,
           \/ client[c].pc \in Confirms /\ p \in Confirms
           \/ client[c].pc \in Examines /\ p \in Examines
           \/ p = "answer",
           revs' = revs, pointer' = pointer, launches' = launches, Bridge!Goto(c, p),
           lock' \in [Runs \cup {"identities", "identifiers"} -> Callers \cup {NoOne}],
           \A d \in Callers \ {c} : \A run \in Runs : lock[run] = d => lock'[run] = d
    PROVE  BridgeInv'
<1>1. PICK m : m = [client[c] EXCEPT !.pc = p]
  OBVIOUS
<1>2. client' = [client EXCEPT ![c] = m]
  BY <1>1 DEF Bridge!Goto
<1>3. CallFits(m) /\ ~Entitled(m) /\ m.token = client[c].token /\ Holds(c, m)'
  BY <1>1, SameFits
<1> QED
  BY <1>2, <1>3, PrivateStep

\* An execution under way goes on, whatever it learns.
LEMMA ExecutionGoesOn ==
    ASSUME BridgeInv, NEW c \in Callers, client[c].pc \in Executes, NEW m,
           IsCall(m), m.pc \in Executes, m.run = client[c].run, m.role = client[c].role,
           m.read = client[c].read, m.art = client[c].art, m.token = client[c].token,
           revs' = revs, pointer' = pointer, launches' = launches,
           client' = [client EXCEPT ![c] = m],
           lock' \in [Runs \cup {"identities", "identifiers"} -> Callers \cup {NoOne}],
           \A d \in Callers \ {c} : \A run \in Runs : lock[run] = d => lock'[run] = d
    PROVE  BridgeInv'
<1> DEFINE me == client[c]
<1>1. CallFits(me) /\ me.pc \in Executes /\ me.pc # "idle"
  BY DEF BridgeInv, CallsFit, Executes
<1>2. /\ m.run = me.run /\ m.role = me.role /\ m.read = me.read /\ m.art = me.art
      /\ m.token = me.token
  OBVIOUS
<1>3. HasRead(m) <=> HasRead(me)
  BY <1>2 DEF HasRead
<1>4. /\ m.token <= Len(launches)
      /\ launches[m.token] = [run |-> m.run, role |-> m.role]
      /\ HasRead(m) /\ m.role \in Bridge!Roles /\ m.token # Bridge!None /\ NoAuditYet(m.run, m.role)
  <2> HIDE DEF me
  <2> QED
    BY <1>1, <1>2, <1>3 DEF CallFits
<1>5. /\ m.pc \in Pcs /\ m.pc # "idle"
      /\ m.pc \notin Confirms \cup Examines \cup Publishes \cup Commits
      /\ m.pc \notin {"adopt", "stage", "point", "replay", "launch", "admitted"}
  BY DEF Pcs, Confirms, Examines, Publishes, Executes, Commits
<1>6. ~Entitled(m) /\ Holds(c, m)'
  BY <1>5 DEF Entitled, Holds
<1>7. CallFits(m)
  BY <1>4, <1>5, <1>6 DEF CallFits
<1> QED
  BY <1>1, <1>2, <1>6, <1>7, PrivateStep

\* What the caller of a publication has proposed so far, it proposes.
LEMMA PublicationBegins ==
    ASSUME BridgeInv, NEW c \in Callers, client[c].pc # "idle", NEW m,
           IsCall(m), m.pc = "publish", m.run = client[c].run, m.role = client[c].role,
           m.token = client[c].token, Proposes(m),
           revs' = revs, pointer' = pointer, launches' = launches,
           client' = [client EXCEPT ![c] = m],
           lock' \in [Runs \cup {"identities", "identifiers"} -> Callers \cup {NoOne}],
           \A d \in Callers \ {c} : \A run \in Runs : lock[run] = d => lock'[run] = d
    PROVE  BridgeInv'
<1> DEFINE me == client[c]
<1>1. CallFits(me) /\ me.pc # "idle"
  BY DEF BridgeInv, CallsFit
<1>2. m.run = me.run /\ m.role = me.role /\ m.token = me.token
  OBVIOUS
<1>3. m.token # Bridge!None => /\ m.token <= Len(launches)
                        /\ launches[m.token] = [run |-> m.run, role |-> m.role]
  <2> HIDE DEF me
  <2> QED
    BY <1>1, <1>2 DEF CallFits
<1>4. ~Entitled(m) /\ Holds(c, m)'
  BY DEF Entitled, Holds, Commits
<1>5. CallFits(m)
  BY <1>3, <1>4 DEF CallFits, Pcs, Confirms, Examines, Publishes, Commits, Executes
<1> QED
  BY <1>1, <1>2, <1>4, <1>5, PrivateStep

\* A lock is taken or given back by the caller: the others keep theirs.
LEMMA FreedLock ==
    ASSUME BridgeInv, NEW c \in Callers, NEW run \in Runs, lock[run] = c, Bridge!Free(run)
    PROVE  /\ lock' \in [Runs \cup {"identities", "identifiers"} -> Callers \cup {NoOne}]
           /\ \A d \in Callers \ {c} : \A r \in Runs : lock[r] = d => lock'[r] = d
  BY DEF BridgeInv, Shapes, Bridge!Free

LEMMA SameLock ==
    ASSUME BridgeInv, lock' = lock
    PROVE  /\ lock' \in [Runs \cup {"identities", "identifiers"} -> Callers \cup {NoOne}]
           /\ \A d \in Callers : \A r \in Runs : lock[r] = d => lock'[r] = d
  BY DEF BridgeInv, Shapes

LEMMA FreedRegistry ==
    ASSUME BridgeInv, Bridge!BridgeConstants, NEW l \in {"identities", "identifiers"}, Bridge!Free(l)
    PROVE  /\ lock' \in [Runs \cup {"identities", "identifiers"} -> Callers \cup {NoOne}]
           /\ \A d \in Callers : \A r \in Runs : lock[r] = d => lock'[r] = d
  BY DEF BridgeInv, Shapes, Bridge!Free, Bridge!BridgeConstants

LEMMA ConfirmingKeeps ==
    ASSUME BridgeInv, Bridge!BridgeConstants, NEW c \in Callers,
           \/ Bridge!ClaimConfirmationIdentifiers(c) \/ Bridge!CreateIdentifierClaim(c)
                  \/ Bridge!WriteIdentifierClaim(c)
    PROVE  BridgeInv'
<1>1. CASE Bridge!ClaimConfirmationIdentifiers(c)
  <2>1. client[c].pc = "claim" /\ revs' = revs /\ pointer' = pointer /\ launches' = launches
    BY <1>1 DEF Bridge!ClaimConfirmationIdentifiers, Bridge!At, Bridge!store
  <2>2. \/ lock' = [lock EXCEPT !["identifiers"] = c] /\ Bridge!Goto(c, "claiming")
        \/ lock' = lock /\ Bridge!Fails(c)
    BY <1>1 DEF Bridge!ClaimConfirmationIdentifiers
  <2>3. CASE lock' = [lock EXCEPT !["identifiers"] = c] /\ Bridge!Goto(c, "claiming")
    BY <2>1, <2>3, RegistryLock, GoesOn DEF Confirms
  <2>4. CASE lock' = lock /\ Bridge!Fails(c)
    BY <2>1, <2>4, SameLock, CallEnds
  <2> QED
    BY <2>2, <2>3, <2>4
<1>2. CASE Bridge!CreateIdentifierClaim(c)
  <2>1. /\ client[c].pc = "claiming" /\ Bridge!Goto(c, "claim_write")
        /\ revs' = revs /\ pointer' = pointer /\ launches' = launches /\ lock' = lock
    BY <1>2 DEF Bridge!CreateIdentifierClaim, Bridge!At, Bridge!store
  <2> QED
    BY <2>1, SameLock, GoesOn DEF Confirms
<1>3. CASE Bridge!WriteIdentifierClaim(c)
  <2>1. /\ client[c].pc = "claim_write" /\ Bridge!Goto(c, "claiming")
        /\ revs' = revs /\ pointer' = pointer /\ launches' = launches /\ lock' = lock
    BY <1>3 DEF Bridge!WriteIdentifierClaim, Bridge!At, Bridge!store
  <2> QED
    BY <2>1, SameLock, GoesOn DEF Confirms
<1> QED
  BY <1>1, <1>2, <1>3

\* What a caller has read is well formed.
LEMMA ReadIsArt ==
    ASSUME BridgeInv, NEW me, IsCall(me), HasRead(me)
    PROVE  IsArt(me.art) /\ me.read # Bridge!None /\ me.read \in 1..Len(revs[me.run])
<1>1. me.run \in Runs /\ me.read \in 1..pointer[me.run] /\ me.art = revs[me.run][me.read].art
  BY DEF IsCall, HasRead
<1>2. \A run \in Runs : pointer[run] \in Nat /\ pointer[run] <= Len(revs[run]) /\ Len(revs[run]) \in Nat
  BY DEF BridgeInv, Shapes
<1>3. me.read \in 1..Len(revs[me.run]) /\ me.read # Bridge!None
  BY <1>1, <1>2 DEF Bridge!None
<1> QED
  BY <1>1, <1>3 DEF BridgeInv, RevisionsServe

LEMMA PublishConfirmationKeeps ==
    ASSUME BridgeInv, Bridge!BridgeConstants, NEW c \in Callers, Bridge!PublishConfirmation(c)
    PROVE  BridgeInv'
<1> DEFINE me == client[c]
           conf == Bridge!RoleConfirmation(me.role, me.pair[1], me.pair[2], me.at)
           art == Bridge!Append1(me.art, me.role, "confirmation", conf)
<1>1. /\ me.pc = "claiming" /\ Bridge!Free("identifiers")
      /\ revs' = revs /\ pointer' = pointer /\ launches' = launches
  BY DEF Bridge!PublishConfirmation, Bridge!At, Bridge!store
<1>2. \/ Bridge!Fails(c)
      \/ client' = [client EXCEPT ![c] =
           Bridge!Publication(c, me.run, me.read, "approval_required", art, "answer")]
  BY DEF Bridge!PublishConfirmation
<1>3. CASE Bridge!Fails(c)
  BY <1>1, <1>3, FreedRegistry, CallEnds
<1>4. CASE client' = [client EXCEPT ![c] =
             Bridge!Publication(c, me.run, me.read, "approval_required", art, "answer")]
  <2>1. CallFits(me)
    BY DEF BridgeInv, CallsFit
  <2>2. IsCall(me) /\ HasRead(me) /\ me.role \in Bridge!Roles /\ me.token = Bridge!None
    BY <1>1, <2>1 DEF CallFits, Confirms
  <2>3. IsArt(me.art) /\ me.read # Bridge!None
    BY <2>2, ReadIsArt
  <2>4. IsArt(art) /\ \A q \in Bridge!Roles : art[q]["audit"] = me.art[q]["audit"]
    <3> HIDE DEF me, conf
    <3> QED
      BY <2>2, <2>3, AppendFits DEF Bridge!Kinds
  <2> HIDE DEF art
  <2>5. PICK m : m = Bridge!Publication(c, me.run, me.read, "approval_required", art, "answer")
    OBVIOUS
  <2>6. /\ IsCall(m) /\ m.pc = "publish" /\ m.next = "answer"
        /\ m.run = me.run /\ m.role = me.role /\ m.read = me.read /\ m.art = me.art
        /\ m.token = me.token
        /\ m.request.run = me.run /\ m.request.expected = me.read
        /\ m.request.rev.art = art
    BY <2>2, <2>5, PublicationFits
  <2>7. HasRead(m)
    BY <2>2, <2>6 DEF HasRead
  <2>8. Proposes(m)
    <3> HIDE DEF me
    <3> QED
      BY <2>3, <2>4, <2>6, <2>7 DEF Proposes, Bridge!Has
  <2> QED
    BY <1>1, <1>4, <2>5, <2>6, <2>8, FreedRegistry, PublicationBegins
<1> QED
  BY <1>2, <1>3, <1>4

LEMMA AcquireHistoryKeeps ==
    ASSUME BridgeInv, Bridge!BridgeConstants, NEW c \in Callers, Bridge!AcquireHistory(c)
    PROVE  BridgeInv'
<1>1. client[c].pc = "history" /\ revs' = revs /\ pointer' = pointer /\ launches' = launches
  BY DEF Bridge!AcquireHistory, Bridge!At, Bridge!store
<1>2. \/ lock' = [lock EXCEPT !["identities"] = c] /\ Bridge!Goto(c, "verify_history")
      \/ lock' = lock /\ Bridge!Fails(c)
  BY DEF Bridge!AcquireHistory
<1>3. CASE lock' = [lock EXCEPT !["identities"] = c] /\ Bridge!Goto(c, "verify_history")
  BY <1>1, <1>3, RegistryLock, GoesOn DEF Examines
<1>4. CASE lock' = lock /\ Bridge!Fails(c)
  BY <1>1, <1>4, SameLock, CallEnds
<1> QED
  BY <1>2, <1>3, <1>4

LEMMA AdmitRoleRequestKeeps ==
    ASSUME BridgeInv, Bridge!BridgeConstants, NEW c \in Callers, Bridge!AdmitRoleRequest(c)
    PROVE  BridgeInv'
<1> DEFINE me == client[c]
           art == Bridge!Append1(me.art, me.role, "admission", Bridge!Admission(me.role, me.at))
<1>1. /\ me.pc = "verify_history" /\ Bridge!Free("identities")
      /\ revs' = revs /\ pointer' = pointer /\ launches' = launches
  BY DEF Bridge!AdmitRoleRequest, Bridge!At, Bridge!store
<1>2. \/ Bridge!Fails(c)
      \/ client' = [client EXCEPT ![c] =
           Bridge!Publication(c, me.run, me.read, "in_progress", art, "admitted")]
  BY DEF Bridge!AdmitRoleRequest
<1>3. CASE Bridge!Fails(c)
  BY <1>1, <1>3, FreedRegistry, CallEnds
<1>4. CASE client' = [client EXCEPT ![c] =
             Bridge!Publication(c, me.run, me.read, "in_progress", art, "admitted")]
  <2>1. CallFits(me)
    BY DEF BridgeInv, CallsFit
  <2>2. /\ IsCall(me) /\ HasRead(me) /\ me.role \in Bridge!Roles /\ me.token = Bridge!None
        /\ ~Bridge!Has(me.art, me.role, "admission") /\ ~Bridge!Has(me.art, me.role, "audit")
    BY <1>1, <2>1 DEF CallFits, Examines
  <2>3. IsArt(me.art) /\ me.read # Bridge!None
    BY <2>2, ReadIsArt
  <2>4. /\ IsArt(art) /\ \A q \in Bridge!Roles : art[q]["audit"] = me.art[q]["audit"]
        /\ art[me.role]["admission"] = Bridge!Admission(me.role, me.at)
    <3> HIDE DEF me
    <3> QED
      BY <2>2, <2>3, AppendFits DEF Bridge!Kinds
  <2>5. Bridge!Admission(me.role, me.at) # Bridge!NoArtifact
    <3>1. Bridge!Admission(me.role, me.at).kind = "admission" /\ Bridge!NoArtifact.kind = "none"
      BY DEF Bridge!Admission, Bridge!NoArtifact
    <3> QED
      BY <3>1
  <2> HIDE DEF art
  <2>6. PICK m : m = Bridge!Publication(c, me.run, me.read, "in_progress", art, "admitted")
    OBVIOUS
  <2>7. /\ IsCall(m) /\ m.pc = "publish" /\ m.next = "admitted"
        /\ m.run = me.run /\ m.role = me.role /\ m.read = me.read /\ m.art = me.art
        /\ m.token = me.token
        /\ m.request.run = me.run /\ m.request.expected = me.read
        /\ m.request.rev.art = art
    BY <2>2, <2>6, PublicationFits
  <2>8. HasRead(m)
    BY <2>2, <2>7 DEF HasRead
  <2>9. Proposes(m)
    <3> HIDE DEF me
    <3> QED
      BY <2>2, <2>3, <2>4, <2>5, <2>7, <2>8 DEF Proposes, Bridge!Has
  <2> QED
    BY <1>1, <1>4, <2>6, <2>7, <2>9, FreedRegistry, PublicationBegins
<1> QED
  BY <1>2, <1>3, <1>4

LEMMA PublishExecutionKeeps ==
    ASSUME Independent \in Nat \ {0}, BridgeInv, NEW c \in Callers, Bridge!PublishExecution(c)
    PROVE  BridgeInv'
<1> DEFINE me == client[c]
           result == Bridge!RoleResult(me.role, me.token)
<1>1. /\ me.pc = "conclude" /\ lock' = lock
      /\ revs' = revs /\ pointer' = pointer /\ launches' = launches
  BY DEF Bridge!PublishExecution, Bridge!At, Bridge!store
<1>2. PICK status, art : /\ \/ art = Bridge!AfterSuccess(me.art, me.role, result, me.audit)
                            \/ art = Bridge!Append1(me.art, me.role, "audit", me.audit)
                         /\ client' = [client EXCEPT ![c] =
                              Bridge!Publication(c, me.run, me.read, status, art, "answer")]
  <2>1. \/ client' = [client EXCEPT ![c] =
             Bridge!Publication(c, me.run, me.read, Bridge!StatusAfterSuccess(me.role),
                         Bridge!AfterSuccess(me.art, me.role, result, me.audit), "answer")]
        \/ client' = [client EXCEPT ![c] =
             Bridge!Publication(c, me.run, me.read, Bridge!FailureStatus(me.audit.outcome.effect),
                         Bridge!Append1(me.art, me.role, "audit", me.audit), "answer")]
    BY DEF Bridge!PublishExecution
  <2> QED
    BY <2>1
<1>3. CallFits(me)
  BY DEF BridgeInv, CallsFit
<1>4. IsCall(me) /\ HasRead(me) /\ me.role \in Bridge!Roles /\ me.token # Bridge!None
  BY <1>1, <1>3 DEF CallFits, Executes
<1>5. IsArt(me.art) /\ me.read # Bridge!None
  BY <1>4, ReadIsArt
<1>6. /\ IsArt(art)
      /\ \A r \in Bridge!Roles : Bridge!Has(art, r, "audit") => Bridge!Has(me.art, r, "audit")
             \/ r = me.role
  <2> HIDE DEF me, result
  <2>1. CASE art = Bridge!AfterSuccess(me.art, me.role, result, me.audit)
    BY <2>1, <1>4, <1>5, SuccessFits
  <2>2. CASE art = Bridge!Append1(me.art, me.role, "audit", me.audit)
    <3>1. IsArt(art) /\ \A q \in Bridge!Roles : q # me.role => art[q]["audit"] = me.art[q]["audit"]
      BY <2>2, <1>4, <1>5, AppendFits DEF Bridge!Kinds
    <3> QED
      BY <3>1 DEF Bridge!Has
  <2> QED
    BY <1>2, <2>1, <2>2
<1>7. PICK m : m = Bridge!Publication(c, me.run, me.read, status, art, "answer")
  OBVIOUS
<1>8. /\ IsCall(m) /\ m.pc = "publish" /\ m.next = "answer"
      /\ m.run = me.run /\ m.role = me.role /\ m.read = me.read /\ m.art = me.art
      /\ m.token = me.token
      /\ m.request.run = me.run /\ m.request.expected = me.read
      /\ m.request.rev.art = art
  BY <1>4, <1>7, PublicationFits
<1>9. HasRead(m)
  BY <1>4, <1>8 DEF HasRead
<1>10. Proposes(m)
  <2> HIDE DEF me
  <2> QED
    BY <1>4, <1>5, <1>6, <1>8, <1>9 DEF Proposes
<1> QED
  BY <1>1, <1>2, <1>7, <1>8, <1>10, SameLock, PublicationBegins

Learned(c, p, a) == [client EXCEPT ![c].pc = p, ![c].audit = a]

LEMMA LearnedFits ==
    ASSUME BridgeInv, NEW c \in Callers, client[c].pc # "idle", NEW p, NEW a
    PROVE  \E m : /\ Learned(c, p, a) = [client EXCEPT ![c] = m]
                  /\ IsCall(m) /\ m.pc = p
                  /\ m.run = client[c].run /\ m.role = client[c].role /\ m.read = client[c].read
                  /\ m.art = client[c].art /\ m.token = client[c].token
<1> DEFINE me == client[c]
           one == [me EXCEPT !.pc = p]
           two == [one EXCEPT !.audit = a]
           first == [client EXCEPT ![c].pc = p]
           second == [first EXCEPT ![c].audit = a]
<1>1. IsCall(me) /\ client = [d \in Callers |-> client[d]]
  BY DEF BridgeInv, CallsFit, CallFits, Shapes
<1>2. Learned(c, p, a) = second
  BY DEF Learned
<1>3. first = [client EXCEPT ![c] = one]
  OBVIOUS
<1>4. first[c] = one /\ DOMAIN first = Callers
      /\ \A d \in Callers : d # c => first[d] = client[d]
  BY <1>1, <1>3
<1>5. second = [first EXCEPT ![c] = [first[c] EXCEPT !.audit = a]]
  OBVIOUS
<1>6. second = [first EXCEPT ![c] = two]
  BY <1>4, <1>5
<1>7. /\ IsCall(one) /\ one.pc = p
      /\ one.run = me.run /\ one.role = me.role /\ one.read = me.read /\ one.art = me.art
      /\ one.token = me.token
  BY <1>1, CallMoves
<1> HIDE DEF one
<1>8. /\ IsCall(two) /\ two.pc = one.pc
      /\ two.run = one.run /\ two.role = one.role /\ two.read = one.read /\ two.art = one.art
      /\ two.token = one.token
  BY <1>7 DEF IsCall
<1> HIDE DEF two, first, second
<1>9. second = [client EXCEPT ![c] = two]
  <2>1. [first EXCEPT ![c] = two] = [d \in Callers |-> IF d = c THEN two ELSE first[d]]
    BY <1>4
  <2>2. [client EXCEPT ![c] = two] = [d \in Callers |-> IF d = c THEN two ELSE client[d]]
    BY <1>1
  <2>3. [d \in Callers |-> IF d = c THEN two ELSE first[d]]
          = [d \in Callers |-> IF d = c THEN two ELSE client[d]]
    BY <1>4
  <2> QED
    BY <1>6, <2>1, <2>2, <2>3
<1> QED
  BY <1>2, <1>7, <1>8, <1>9, ZenonT(60) DEF me

\* The caller of an execution learns something and goes on.
LEMMA ExecutionLearns ==
    ASSUME BridgeInv, NEW c \in Callers, client[c].pc \in Executes, NEW p \in Executes, NEW a,
           client' = Learned(c, p, a),
           revs' = revs, pointer' = pointer, launches' = launches,
           lock' \in [Runs \cup {"identities", "identifiers"} -> Callers \cup {NoOne}],
           \A d \in Callers \ {c} : \A run \in Runs : lock[run] = d => lock'[run] = d
    PROVE  BridgeInv'
<1>1. client[c].pc # "idle"
  BY DEF Executes
<1>2. PICK m : /\ Learned(c, p, a) = [client EXCEPT ![c] = m]
               /\ IsCall(m) /\ m.pc = p
               /\ m.run = client[c].run /\ m.role = client[c].role /\ m.read = client[c].read
               /\ m.art = client[c].art /\ m.token = client[c].token
  BY <1>1, LearnedFits
<1> QED
  BY <1>2, ExecutionGoesOn

LEMMA ExecutionMoves ==
    ASSUME BridgeInv, NEW c \in Callers, client[c].pc \in Executes, NEW p \in Executes,
           Bridge!Goto(c, p), revs' = revs, pointer' = pointer, launches' = launches,
           lock' \in [Runs \cup {"identities", "identifiers"} -> Callers \cup {NoOne}],
           \A d \in Callers \ {c} : \A run \in Runs : lock[run] = d => lock'[run] = d
    PROVE  BridgeInv'
<1>1. PICK me : me = client[c]
  OBVIOUS
<1>2. PICK m : m = [me EXCEPT !.pc = p]
  OBVIOUS
<1>3. client' = [client EXCEPT ![c] = m]
  BY <1>1, <1>2 DEF Bridge!Goto
<1>4. IsCall(me)
  BY <1>1 DEF BridgeInv, CallsFit, CallFits, Executes
<1>5. /\ IsCall(m) /\ m.pc = p
      /\ m.run = me.run /\ m.role = me.role /\ m.read = me.read /\ m.art = me.art
      /\ m.token = me.token
  BY <1>2, <1>4, CallMoves
<1> QED
  BY <1>1, <1>3, <1>5, ExecutionGoesOn

LEMMA ReservingKeeps ==
    ASSUME BridgeInv, Bridge!BridgeConstants, NEW c \in Callers,
           \/ Bridge!TransportAnswered(c) \/ Bridge!ClaimExecutionIdentity(c)
                  \/ Bridge!CreateIdentityClaim(c)
           \/ Bridge!WriteIdentityClaim(c) \/ Bridge!IdentityReserved(c) \/ Bridge!ClaimWriteError(c)
    PROVE  BridgeInv'
<1>1. CASE Bridge!TransportAnswered(c)
  <2>1. PICK a : client' = Learned(c, "reserve", a)
    BY <1>1 DEF Bridge!TransportAnswered, Learned
  <2>2. /\ client[c].pc = "transport" /\ lock' = lock
        /\ revs' = revs /\ pointer' = pointer /\ launches' = launches
    BY <1>1 DEF Bridge!TransportAnswered, Bridge!At, Bridge!store
  <2> QED
    BY <2>1, <2>2, SameLock, ExecutionLearns DEF Executes
<1>2. CASE Bridge!ClaimExecutionIdentity(c)
  <2>1. /\ client[c].pc = "reserve"
        /\ revs' = revs /\ pointer' = pointer /\ launches' = launches
    BY <1>2 DEF Bridge!ClaimExecutionIdentity, Bridge!At, Bridge!store
  <2>2. \/ lock' = lock /\ Bridge!Goto(c, "conclude")
        \/ lock' = lock /\ \E a : client' = Learned(c, "conclude", a)
        \/ lock' = [lock EXCEPT !["identities"] = c] /\ Bridge!Goto(c, "reserving")
    BY <1>2 DEF Bridge!ClaimExecutionIdentity, Learned
  <2>3. CASE lock' = lock /\ Bridge!Goto(c, "conclude")
    BY <2>1, <2>3, SameLock, ExecutionMoves DEF Executes
  <2>4. CASE lock' = lock /\ \E a : client' = Learned(c, "conclude", a)
    BY <2>1, <2>4, SameLock, ExecutionLearns DEF Executes
  <2>5. CASE lock' = [lock EXCEPT !["identities"] = c] /\ Bridge!Goto(c, "reserving")
    BY <2>1, <2>5, RegistryLock, ExecutionMoves DEF Executes
  <2> QED
    BY <2>2, <2>3, <2>4, <2>5
<1>3. CASE Bridge!CreateIdentityClaim(c)
  <2>1. /\ client[c].pc = "reserving" /\ Bridge!Goto(c, "reserve_write") /\ lock' = lock
        /\ revs' = revs /\ pointer' = pointer /\ launches' = launches
    BY <1>3 DEF Bridge!CreateIdentityClaim, Bridge!At, Bridge!store
  <2> QED
    BY <2>1, SameLock, ExecutionMoves DEF Executes
<1>4. CASE Bridge!WriteIdentityClaim(c)
  <2>1. /\ client[c].pc = "reserve_write" /\ Bridge!Goto(c, "reserving") /\ lock' = lock
        /\ revs' = revs /\ pointer' = pointer /\ launches' = launches
    BY <1>4 DEF Bridge!WriteIdentityClaim, Bridge!At, Bridge!store
  <2> QED
    BY <2>1, SameLock, ExecutionMoves DEF Executes
<1>5. CASE Bridge!IdentityReserved(c)
  <2>1. /\ client[c].pc = "reserving" /\ Bridge!Goto(c, "conclude") /\ Bridge!Free("identities")
        /\ revs' = revs /\ pointer' = pointer /\ launches' = launches
    BY <1>5 DEF Bridge!IdentityReserved, Bridge!At, Bridge!store
  <2> QED
    BY <2>1, FreedRegistry, ExecutionMoves DEF Executes
<1>6. CASE Bridge!ClaimWriteError(c)
  <2>1. PICK a : client' = Learned(c, "conclude", a)
    BY <1>6 DEF Bridge!ClaimWriteError, Learned
  <2>2. /\ client[c].pc = "reserve_write" /\ Bridge!Free("identities")
        /\ revs' = revs /\ pointer' = pointer /\ launches' = launches
    BY <1>6 DEF Bridge!ClaimWriteError, Bridge!At, Bridge!store
  <2> QED
    BY <2>1, <2>2, FreedRegistry, ExecutionLearns DEF Executes
<1> QED
  BY <1>1, <1>2, <1>3, <1>4, <1>5, <1>6

Reread(c, read, art) ==
    [client EXCEPT ![c].pc = "launch", ![c].read = read, ![c].art = art]

RereadCall(me, read, art) ==
    [[[me EXCEPT !.pc = "launch"] EXCEPT !.read = read] EXCEPT !.art = art]

LEMMA RereadFits ==
    ASSUME BridgeInv, NEW c \in Callers, client[c].pc # "idle", NEW read, NEW art
    PROVE  LET m == RereadCall(client[c], read, art) IN
                  /\ Reread(c, read, art) = [client EXCEPT ![c] = m]
                  /\ IsCall(m) /\ m.pc = "launch" /\ m.read = read /\ m.art = art
                  /\ m.run = client[c].run /\ m.role = client[c].role /\ m.token = client[c].token
<1> DEFINE me == client[c]
           one == [me EXCEPT !.pc = "launch"]
           two == [one EXCEPT !.read = read]
           three == [two EXCEPT !.art = art]
           f == [d \in Callers |-> IF d = c THEN one ELSE client[d]]
           g == [d \in Callers |-> IF d = c THEN two ELSE client[d]]
           h == [d \in Callers |-> IF d = c THEN three ELSE client[d]]
<1>1. IsCall(me) /\ client = [d \in Callers |-> client[d]]
  BY DEF BridgeInv, CallsFit, CallFits, Shapes
<1>2. Reread(c, read, art)
        = [[[client EXCEPT ![c].pc = "launch"] EXCEPT ![c].read = read] EXCEPT ![c].art = art]
  BY DEF Reread
<1>3. [client EXCEPT ![c].pc = "launch"] = f
  BY <1>1
<1>4. f[c] = one /\ [f EXCEPT ![c].read = read] = [f EXCEPT ![c] = [f[c] EXCEPT !.read = read]]
  OBVIOUS
<1>5. [f EXCEPT ![c].read = read] = g
  <2>1. [f EXCEPT ![c] = [f[c] EXCEPT !.read = read]] = [f EXCEPT ![c] = two]
    BY <1>4
  <2> HIDE DEF two, one
  <2>2. [f EXCEPT ![c] = two] = g
    OBVIOUS
  <2> QED
    BY <1>4, <2>1, <2>2
<1>6. g[c] = two /\ [g EXCEPT ![c].art = art] = [g EXCEPT ![c] = [g[c] EXCEPT !.art = art]]
  OBVIOUS
<1>7. [g EXCEPT ![c].art = art] = h
  <2>1. [g EXCEPT ![c] = [g[c] EXCEPT !.art = art]] = [g EXCEPT ![c] = three]
    BY <1>6
  <2> HIDE DEF three, two
  <2>2. [g EXCEPT ![c] = three] = h
    OBVIOUS
  <2> QED
    BY <1>6, <2>1, <2>2
<1>8. h = [client EXCEPT ![c] = three]
  <2> HIDE DEF three
  <2> QED
    BY <1>1
<1>9. /\ IsCall(one) /\ one.pc = "launch"
      /\ one.run = me.run /\ one.role = me.role /\ one.token = me.token
  BY <1>1, CallMoves
<1> HIDE DEF f, g, h
<1>13. RereadCall(client[c], read, art) = three
  BY DEF RereadCall
<1>10. Reread(c, read, art) = [client EXCEPT ![c] = three]
  BY <1>2, <1>3, <1>5, <1>7, <1>8
<1> HIDE DEF one
<1>11. /\ IsCall(two) /\ two.pc = one.pc /\ two.read = read
       /\ two.run = one.run /\ two.role = one.role /\ two.token = one.token
  BY <1>9 DEF IsCall
<1> HIDE DEF two
<1>12. /\ IsCall(three) /\ three.pc = two.pc /\ three.read = two.read /\ three.art = art
       /\ three.run = two.run /\ three.role = two.role /\ three.token = two.token
  BY <1>11 DEF IsCall
<1> HIDE DEF three
<1> QED
  BY <1>9, <1>10, <1>11, <1>12, <1>13 DEF me

LEMMA ReadAdmissionKeeps ==
    ASSUME BridgeInv, NEW c \in Callers, Bridge!ReadAdmission(c)
    PROVE  BridgeInv'
<1> DEFINE me == client[c]
<1>1. /\ me.pc = "admitted" /\ lock' = lock
      /\ revs' = revs /\ pointer' = pointer /\ launches' = launches
  BY DEF Bridge!ReadAdmission, Bridge!At, Bridge!store
<1>2. \/ Bridge!Fails(c)
      \/ /\ Bridge!Reads(me.run)
         /\ client' = Reread(c, pointer[me.run], Bridge!Revision(me.run).art)
  BY DEF Bridge!ReadAdmission, Reread
<1>3. CASE Bridge!Fails(c)
  BY <1>1, <1>3, SameLock, CallEnds
<1>4. CASE Bridge!Reads(me.run) /\ client' = Reread(c, pointer[me.run], Bridge!Revision(me.run).art)
  <2>1. CallFits(me) /\ Entitled(me) /\ me.pc # "idle"
    BY <1>1 DEF BridgeInv, CallsFit, Entitled
  <2>2. /\ me.run \in Runs /\ me.role \in Bridge!Roles /\ me.token = Bridge!None
        /\ OnRecord(me.run, me.role) /\ NoAuditYet(me.run, me.role) /\ ~Launched(me.run, me.role)
    BY <2>1 DEF CallFits, IsCall
  <2>3. PICK m : /\ Reread(c, pointer[me.run], Bridge!Revision(me.run).art) = [client EXCEPT ![c] = m]
                 /\ IsCall(m) /\ m.pc = "launch"
                 /\ m.read = pointer[me.run] /\ m.art = Bridge!Revision(me.run).art
                 /\ m.run = me.run /\ m.role = me.role /\ m.token = me.token
    <3> DEFINE m == RereadCall(client[c], pointer[me.run], Bridge!Revision(me.run).art)
    <3>2. client[c].pc # "idle"
      BY <2>1
    <3>3. Reread(c, pointer[me.run], Bridge!Revision(me.run).art) = [client EXCEPT ![c] = m]
      BY ONLY BridgeInv, c \in Callers, <3>2, RereadFits
    <3>4. IsCall(m) /\ m.pc = "launch" /\ m.run = client[c].run
      BY ONLY BridgeInv, c \in Callers, <3>2, <3>3, RereadFits
    <3>5. m.read = pointer[me.run] /\ m.art = Bridge!Revision(me.run).art
      BY ONLY BridgeInv, c \in Callers, <3>2, <3>3, RereadFits
    <3>6. m.role = me.role /\ m.token = me.token
      BY ONLY BridgeInv, c \in Callers, <3>2, <3>3, RereadFits
    <3> HIDE DEF m
    <3>1. /\ Reread(c, pointer[me.run], Bridge!Revision(me.run).art) = [client EXCEPT ![c] = m]
          /\ IsCall(m) /\ m.pc = "launch"
          /\ m.read = pointer[me.run] /\ m.art = Bridge!Revision(me.run).art
          /\ m.run = me.run /\ m.role = me.role /\ m.token = me.token
      BY <3>3, <3>4, <3>5, <3>6
    <3> QED
      BY <3>1
  <2>4. pointer[me.run] > 0 /\ pointer[me.run] \in Nat
    BY <1>4, <2>2 DEF Bridge!Reads, BridgeInv, Shapes
  <2>5. HasRead(m)
    BY <2>3, <2>4 DEF HasRead, Bridge!Revision
  <2>6. Holds(c, m)'
    BY <2>3 DEF Holds, Commits
  <2> HIDE DEF me
  <2>7. CallFits(m)
    BY <2>2, <2>3, <2>5
    DEF CallFits, Entitled, Pcs, Confirms, Examines, Publishes, Commits, Executes
  <2> QED
    BY <1>1, <1>4, <2>1, <2>2, <2>3, <2>6, <2>7, SameLock, PrivateStep DEF me
<1> QED
  BY <1>2, <1>3, <1>4

LEMMA ReplayKeeps ==
    ASSUME BridgeInv, NEW c \in Callers, Bridge!Replay(c)
    PROVE  BridgeInv'
<1> DEFINE me == client[c]
<1>1. /\ me.pc = "replay" /\ Bridge!Free(me.request.run) /\ (Bridge!Goto(c, me.next) \/ Bridge!Fails(c))
      /\ revs' = revs /\ pointer' = pointer /\ launches' = launches
  BY DEF Bridge!Replay, Bridge!At, Bridge!store
<1>2. CallFits(me) /\ Holds(c, me)
  BY DEF BridgeInv, CallsFit
<1>3. /\ IsCall(me) /\ me.run \in Runs /\ lock[me.run] = c /\ me.request.run = me.run
      /\ me.next \in {"answer", "admitted"}
  BY <1>1, <1>2 DEF CallFits, Holds, IsCall
<1>4. /\ lock' \in [Runs \cup {"identities", "identifiers"} -> Callers \cup {NoOne}]
      /\ \A d \in Callers \ {c} : \A r \in Runs : lock[r] = d => lock'[r] = d
  BY <1>1, <1>3, FreedLock
<1>5. CASE Bridge!Fails(c)
  BY <1>1, <1>4, <1>5, CallEnds
<1>6. CASE Bridge!Goto(c, me.next) /\ me.next = "answer"
  BY <1>1, <1>4, <1>6, GoesOn
<1>7. CASE Bridge!Goto(c, me.next) /\ me.next = "admitted"
  <2>1. PICK m : m = [me EXCEPT !.pc = "admitted"]
    OBVIOUS
  <2>2. client' = [client EXCEPT ![c] = m]
    BY <1>7, <2>1 DEF Bridge!Goto
  <2>3. /\ IsCall(m) /\ m.pc = "admitted" /\ m.run = me.run /\ m.role = me.role
        /\ m.token = me.token
    BY <1>3, <2>1, CallMoves
  <2>4. Entitled(me) /\ Entitled(m)
    BY <1>1, <1>7, <2>3 DEF Entitled
  <2>5. /\ me.role \in Bridge!Roles /\ me.token = Bridge!None
        /\ OnRecord(me.run, me.role) /\ NoAuditYet(me.run, me.role) /\ ~Launched(me.run, me.role)
    BY <1>2, <2>4 DEF CallFits
  <2>6. Holds(c, m)'
    BY <2>3 DEF Holds, Commits
  <2>7. CallFits(m)
    <3> HIDE DEF me
    <3> QED
      BY <2>3, <2>5 DEF CallFits, Entitled, Pcs, Confirms, Examines, Publishes, Commits, Executes
  <2> QED
    BY <1>1, <1>4, <2>2, <2>3, <2>4, <2>5, <2>6, <2>7, PrivateStep
<1> QED
  BY <1>1, <1>3, <1>5, <1>6, <1>7

LEMMA AnswerKeeps ==
    ASSUME BridgeInv, NEW c \in Callers, Bridge!Answer(c) \/ Bridge!Crash(c)
    PROVE  BridgeInv'
<1>1. Bridge!Fails(c) /\ revs' = revs /\ pointer' = pointer /\ launches' = launches
  BY DEF Bridge!Answer, Bridge!Crash, Bridge!store
<1>2. CASE Bridge!Answer(c)
  BY <1>1, <1>2, SameLock, CallEnds DEF Bridge!Answer
<1>3. CASE Bridge!Crash(c)
  <2>1. lock' = [l \in DOMAIN lock |-> IF lock[l] = c THEN NoOne ELSE lock[l]]
    BY <1>3 DEF Bridge!Crash, Bridge!FreeAll
  <2>2. /\ lock' \in [Runs \cup {"identities", "identifiers"} -> Callers \cup {NoOne}]
        /\ \A d \in Callers \ {c} : \A r \in Runs : lock[r] = d => lock'[r] = d
    BY <2>1 DEF BridgeInv, Shapes
  <2> QED
    BY <1>1, <2>2, CallEnds
<1> QED
  BY <1>2, <1>3

LEMMA PublishChecksKeeps ==
    ASSUME BridgeInv, Bridge!BridgeConstants, NEW c \in Callers, Bridge!PublishChecks(c)
    PROVE  BridgeInv'
<1> DEFINE me == client[c]
<1>1. /\ me.pc = "publish" /\ revs' = revs /\ pointer' = pointer /\ launches' = launches
  BY DEF Bridge!PublishChecks, Bridge!At, Bridge!store
<1>2. \/ Bridge!Fails(c) /\ lock' = lock
      \/ /\ lock[me.request.run] = NoOne /\ Bridge!Publishable(me.request)
         /\ lock' = [lock EXCEPT ![me.request.run] = c]
         /\ Bridge!Goto(c, IF Bridge!Orphan(me.request.run) THEN "adopt" ELSE "stage")
  BY DEF Bridge!PublishChecks
<1>3. CASE Bridge!Fails(c) /\ lock' = lock
  BY <1>1, <1>3, SameLock, CallEnds
<1>4. CASE /\ lock[me.request.run] = NoOne /\ Bridge!Publishable(me.request)
           /\ lock' = [lock EXCEPT ![me.request.run] = c]
           /\ Bridge!Goto(c, IF Bridge!Orphan(me.request.run) THEN "adopt" ELSE "stage")
  <2>1. CallFits(me)
    BY DEF BridgeInv, CallsFit
  <2>2. /\ IsCall(me) /\ me.run \in Runs /\ Proposes(me) /\ me.request.run = me.run
        /\ me.request.expected = me.read
    BY <1>1, <2>1 DEF CallFits, IsCall, Publishes, Proposes
  <2>3. /\ me.read = pointer[me.run]
        /\ pointer[me.run] > 0 => Bridge!SuccessorSemantics(Bridge!Revision(me.run), me.request.rev)
        /\ Bridge!ExecutionProgression(me.request.rev)
    BY <1>4, <2>2 DEF Bridge!Publishable
  <2>4. /\ pointer[me.run] \in Nat /\ Len(revs[me.run]) \in Nat
        /\ pointer[me.run] <= Len(revs[me.run])
    BY <2>2 DEF BridgeInv, Shapes
  <2>5. PICK p : /\ p = IF Bridge!Orphan(me.run) THEN "adopt" ELSE "stage"
                 /\ Bridge!Goto(c, p)
    BY <1>4, <2>2
  <2>6. PICK m : m = [me EXCEPT !.pc = p]
    OBVIOUS
  <2>7. client' = [client EXCEPT ![c] = m]
    BY <2>5, <2>6 DEF Bridge!Goto
  <2>8. /\ IsCall(m) /\ m.pc = p /\ m.run = me.run /\ m.role = me.role /\ m.read = me.read
        /\ m.art = me.art /\ m.request = me.request /\ m.next = me.next /\ m.token = me.token
    BY <2>2, <2>6, CallMoves
  <2>9. p \in {"adopt", "stage"} /\ (p = "adopt" => Len(revs[me.run]) > pointer[me.run])
        /\ (p = "stage" => Len(revs[me.run]) = pointer[me.run])
    BY <2>4, <2>5 DEF Bridge!Orphan
  <2>10. lock' \in [Runs \cup {"identities", "identifiers"} -> Callers \cup {NoOne}]
         /\ lock'[me.run] = c
         /\ \A d \in Callers \ {c} : \A r \in Runs : lock[r] = d => lock'[r] = d
    BY <1>4, <2>2 DEF BridgeInv, Shapes, Bridge!BridgeConstants
  <2>11. Holds(c, m)'
    BY <2>8, <2>10 DEF Holds
  <2>12. m.token # Bridge!None => /\ m.token <= Len(launches)
                           /\ launches[m.token] = [run |-> m.run, role |-> m.role]
    <3> HIDE DEF me
    <3> QED
      BY <1>1, <2>1, <2>8 DEF CallFits
  <2>13. Proposes(m)
    <3>1. HasRead(m) <=> HasRead(me)
      BY <2>8 DEF HasRead
    <3> HIDE DEF me
    <3> QED
      BY <2>2, <2>8, <3>1 DEF Proposes
  <2> HIDE DEF me
  <2>14. m.pc \in Commits =>
           /\ m.read = pointer[m.run]
           /\ pointer[m.run] > 0 => Bridge!SuccessorSemantics(Bridge!Revision(m.run), m.request.rev)
           /\ Bridge!ExecutionProgression(m.request.rev)
    BY <2>3, <2>8
  <2>15. CallFits(m) /\ ~Entitled(m)
    BY <2>8, <2>9, <2>12, <2>13, <2>14
    DEF CallFits, Entitled, Pcs, Confirms, Examines, Publishes, Commits, Executes
  <2> QED
    BY <1>1, <2>7, <2>8, <2>10, <2>11, <2>15, PrivateStep DEF me
<1> QED
  BY <1>2, <1>3, <1>4

-----------------------------------------------------------------------------
(* The steps of a publication that change what the store holds, and the     *)
(* launch of a transport.                                                   *)

\* The revisions of a run and its pointer are what they seem.
LEMMA StoreTypes ==
    ASSUME BridgeInv, NEW run \in Runs
    PROVE  /\ pointer[run] \in Nat /\ Len(revs[run]) \in Nat
           /\ pointer[run] <= Len(revs[run]) /\ Len(revs[run]) <= pointer[run] + 1
           /\ \E S : revs[run] \in Seq(S)
  BY DEF BridgeInv, Shapes

\* Between the checks of a publication and its replay nobody else is there.
LEMMA RunIsHeld ==
    ASSUME BridgeInv, NEW c \in Callers, NEW d \in Callers, c # d,
           client[c].pc \in Commits \cup {"replay"}, client[d].pc \in Commits \cup {"replay"}
    PROVE  client[c].run # client[d].run
  BY DEF BridgeInv, CallsFit, Holds

\* What is on record stays when the pointer moves to a legal successor.
LEMMA RecordGrows ==
    ASSUME BridgeInv, NEW run \in Runs, revs' = revs,
           pointer' = [pointer EXCEPT ![run] = @ + 1], pointer[run] < Len(revs[run]),
           pointer[run] > 0 => Bridge!SuccessorSemantics(Bridge!Revision(run),
               revs[run][pointer[run] + 1]),
           NEW r \in Runs, NEW role \in Bridge!Roles, OnRecord(r, role)
    PROVE  OnRecord(r, role)'
<1>1. pointer \in [Runs -> Nat]
  BY DEF BridgeInv, Shapes
<1>2. CASE r # run
  BY <1>1, <1>2 DEF OnRecord, Bridge!Revision
<1>3. CASE r = run
  <2>1. pointer'[run] = pointer[run] + 1 /\ pointer[run] > 0 /\ pointer[run] \in Nat
    BY <1>1, <1>3 DEF OnRecord
  <2>2. Bridge!Has(revs[run][pointer[run]].art, role, "admission")
    BY <1>3 DEF OnRecord, Bridge!Revision
  <2>3. Bridge!SuccessorSemantics(revs[run][pointer[run]], revs[run][pointer[run] + 1])
    BY <2>1 DEF Bridge!Revision
  <2>4. revs[run][pointer[run] + 1].art[role]["admission"]
          = revs[run][pointer[run]].art[role]["admission"]
    BY <2>2, <2>3 DEF Bridge!SuccessorSemantics, Bridge!Kinds
  <2>5. Bridge!Has(revs[run][pointer[run] + 1].art, role, "admission")
    BY <2>2, <2>4 DEF Bridge!Has
  <2>6. Bridge!Revision(run)' = revs[run][pointer[run] + 1]
    BY <2>1 DEF Bridge!Revision
  <2>7. pointer'[run] > 0
    BY <2>1
  <2>8. OnRecord(run, role)'
    BY <2>5, <2>6, <2>7 DEF OnRecord
  <2> QED
    BY <2>8, <1>3 DEF OnRecord, Bridge!Revision
<1> QED
  BY <1>2, <1>3

\* What a caller may count on survives a step of the pointer of another's run.
LEMMA PointerOthers ==
    ASSUME BridgeInv, NEW run \in Runs, revs' = revs, launches' = launches,
           pointer' = [pointer EXCEPT ![run] = @ + 1], pointer[run] < Len(revs[run]),
           pointer[run] > 0 => Bridge!SuccessorSemantics(Bridge!Revision(run),
               revs[run][pointer[run] + 1]),
           NEW me, CallFits(me), me.pc \in Commits \cup {"replay"} => me.run # run
    PROVE  CallFits(me)'
<1>1. CASE me.pc = "idle"
  BY <1>1 DEF CallFits, Entitled, Pcs, Confirms, Examines, Publishes, Commits, Executes
<1>2. CASE me.pc # "idle"
  <2>1. IsCall(me) /\ me.run \in Runs
    BY <1>2 DEF CallFits, IsCall
  <2>2. pointer \in [Runs -> Nat]
    BY DEF BridgeInv, Shapes
  <2>3. /\ pointer'[me.run] \in Nat /\ pointer[me.run] \in Nat /\ pointer'[me.run] >= pointer[me.run]
        /\ me.run # run => pointer'[me.run] = pointer[me.run]
    BY <2>1, <2>2
  <2>4. HasRead(me) => HasRead(me)'
    <3>1. me.read \in 1..pointer[me.run] => me.read \in 1..pointer'[me.run]
      BY <2>3
    <3> QED
      BY <3>1 DEF HasRead
  <2>5. Proposes(me) => Proposes(me)'
    BY <2>4 DEF Proposes
  <2>6. NoAuditYet(me.run, me.role) => NoAuditYet(me.run, me.role)'
    <3>1. Len(revs[me.run]) \in Nat
      BY <2>1, StoreTypes
    <3>2. \A i \in 1..Len(revs[me.run]) : i >= pointer'[me.run] => i >= pointer[me.run]
      BY <2>3, <3>1
    <3> QED
      BY <3>2 DEF NoAuditYet
  <2>7. me.role \in Bridge!Roles /\ OnRecord(me.run, me.role) => OnRecord(me.run, me.role)'
    BY <2>1, RecordGrows
  <2>8. Launched(me.run, me.role)' <=> Launched(me.run, me.role)
    BY DEF Launched
  <2>9. me.pc \in Commits =>
          /\ me.read = pointer'[me.run]
          /\ pointer'[me.run] > 0 => Bridge!SuccessorSemantics(Bridge!Revision(me.run), me.request.rev)'
          /\ Bridge!ExecutionProgression(me.request.rev)
    <3>1. me.pc \in Commits =>
          /\ me.read = pointer[me.run]
          /\ pointer[me.run] > 0 => Bridge!SuccessorSemantics(Bridge!Revision(me.run), me.request.rev)
          /\ Bridge!ExecutionProgression(me.request.rev)
      BY DEF CallFits
    <3> QED
      BY <2>3, <3>1 DEF Bridge!Revision
  <2>10. /\ me.pc = "adopt" => Len(revs[me.run]) > pointer'[me.run]
         /\ me.pc = "stage" => Len(revs[me.run]) = pointer'[me.run]
         /\ me.pc = "point" => /\ Len(revs[me.run]) = pointer'[me.run] + 1
                               /\ revs[me.run][pointer'[me.run] + 1] = me.request.rev
    BY <2>3 DEF CallFits, Commits
  <2>11. /\ me.pc \in Pcs
         /\ me.pc \in Confirms \cup Examines => HasRead(me)' /\ me.role \in Bridge!Roles
                /\ me.token = Bridge!None
         /\ me.pc \in Examines =>
              ~Bridge!Has(me.art, me.role, "admission") /\ ~Bridge!Has(me.art, me.role, "audit")
         /\ me.pc \in Publishes => Proposes(me)'
         /\ me.pc = "replay" => me.request.run = me.run /\ me.next \in {"answer", "admitted"}
         /\ me.pc = "launch" => HasRead(me)'
    BY <2>4, <2>5 DEF CallFits
  <2>12. Entitled(me) =>
         /\ me.role \in Bridge!Roles /\ me.token = Bridge!None
         /\ OnRecord(me.run, me.role)' /\ NoAuditYet(me.run, me.role)'
         /\ ~Launched(me.run, me.role)'
    BY <2>6, <2>7, <2>8 DEF CallFits
  <2>13. me.pc \in Executes =>
         HasRead(me)' /\ me.role \in Bridge!Roles /\ me.token # Bridge!None /\ NoAuditYet(me.run,
             me.role)'
    BY <2>4, <2>6 DEF CallFits
  <2>14. me.token # Bridge!None =>
         /\ me.token <= Len(launches)
         /\ launches[me.token] = [run |-> me.run, role |-> me.role]
    BY <1>2 DEF CallFits
  <2>15. Entitled(me)' <=> Entitled(me)
    BY DEF Entitled
  <2> QED
    BY <2>1, <2>9, <2>10, <2>11, <2>12, <2>13, <2>14, <2>15 DEF CallFits
<1> QED
  BY <1>1, <1>2

\* A legal successor becomes the published revision: its caller goes on to the
\* replay with the revision it meant, or ends.
LEMMA PointerStep ==
    ASSUME BridgeInv, NEW c \in Callers, client[c].pc \in {"adopt", "point"},
           NEW run \in Runs, run = client[c].run,
           revs' = revs, launches' = launches,
           pointer' = [pointer EXCEPT ![run] = @ + 1],
           pointer[run] > 0 => Bridge!SuccessorSemantics(Bridge!Revision(run),
               revs[run][pointer[run] + 1]),
           NEW m, client' = [client EXCEPT ![c] = m],
           lock' \in [Runs \cup {"identities", "identifiers"} -> Callers \cup {NoOne}],
           \A d \in Callers \ {c} : \A r \in Runs : lock[r] = d => lock'[r] = d,
           \/ m = Bridge!Idle
           \/ /\ m.pc = "replay" /\ IsCall(m) /\ lock' = lock
              /\ m.run = run /\ m.role = client[c].role /\ m.token = client[c].token
              /\ m.next = client[c].next /\ m.request = client[c].request
              /\ revs[run][pointer[run] + 1] = client[c].request.rev
    PROVE  BridgeInv'
<1> DEFINE me == client[c]
<1>1. CallFits(me) /\ Holds(c, me) /\ me.pc \in Commits /\ me.pc # "idle"
  BY DEF BridgeInv, CallsFit, Commits
<1>2. /\ IsCall(me) /\ me.run = run /\ lock[run] = c /\ me.read = pointer[run] /\ Proposes(me)
      /\ pointer[run] < Len(revs[run])
  <2>1. IsCall(me) /\ me.read = pointer[me.run] /\ Proposes(me) /\ lock[me.run] = c
    BY <1>1 DEF CallFits, Holds, Commits, Publishes
  <2>2. me.pc = "adopt" => Len(revs[me.run]) > pointer[me.run]
    BY <1>1 DEF CallFits
  <2>3. me.pc = "point" => Len(revs[me.run]) = pointer[me.run] + 1
    BY <1>1 DEF CallFits
  <2>4. pointer[run] \in Nat /\ Len(revs[run]) \in Nat
    BY StoreTypes
  <2> QED
    BY <2>1, <2>2, <2>3, <2>4
<1>3. /\ pointer \in [Runs -> Nat] /\ pointer' \in [Runs -> Nat]
      /\ pointer'[run] = pointer[run] + 1
      /\ \A r \in Runs : r # run => pointer'[r] = pointer[r]
  BY DEF BridgeInv, Shapes
<1>4. Len(revs[run]) \in Nat /\ Len(revs[run]) = pointer[run] + 1
  BY <1>2, <1>3, StoreTypes
<1>5. client'[c] = m /\ \A d \in Callers : d # c => client'[d] = client[d]
  BY DEF BridgeInv, Shapes
<1>6. Shapes'
  <2>1. client' = [d \in Callers |-> client'[d]]
    BY DEF BridgeInv, Shapes
  <2>2. \A r \in Runs : pointer'[r] <= Len(revs[r]) /\ Len(revs[r]) <= pointer'[r] + 1
    BY <1>3, <1>4, StoreTypes
  <2> QED
    BY <1>3, <2>1, <2>2 DEF BridgeInv, Shapes
<1>7. RevisionsServe'
  BY DEF BridgeInv, RevisionsServe
<1>8. LaunchesAreOk'
  <2>1. ASSUME NEW i \in DOMAIN launches, NEW l, l = launches[i]
        PROVE  OnRecord(l.run, l.role)'
    <3>1. launches \in Seq([run : Runs, role : Bridge!Roles])
      BY DEF BridgeInv, Shapes
    <3>2. l \in [run : Runs, role : Bridge!Roles]
      <4>1. i \in 1..Len(launches)
        BY <2>1, <3>1
      <4> QED
        BY <2>1, <3>1, <4>1, ElementOfSeq
    <3>3. OnRecord(l.run, l.role)
      BY <2>1 DEF BridgeInv, LaunchesAreOk
    <3> QED
      BY <1>2, <3>2, <3>3, RecordGrows
  <2> QED
    BY <2>1 DEF BridgeInv, LaunchesAreOk
\* An admission that is published now was not on record before.
<1>9. m # Bridge!Idle /\ m.next = "admitted" =>
        /\ m.pc = "replay" /\ m.role \in Bridge!Roles /\ m.token = Bridge!None /\ m.run = run
        /\ ~OnRecord(run, m.role)
        /\ Bridge!Has(revs[run][pointer[run] + 1].art, m.role, "admission")
        /\ ~Bridge!Has(revs[run][pointer[run] + 1].art, m.role, "audit")
  <2> SUFFICES ASSUME m # Bridge!Idle, m.next = "admitted"
               PROVE  /\ m.pc = "replay" /\ m.role \in Bridge!Roles /\ m.token = Bridge!None
                             /\ m.run = run
                      /\ ~OnRecord(run, m.role)
                      /\ Bridge!Has(revs[run][pointer[run] + 1].art, m.role, "admission")
                      /\ ~Bridge!Has(revs[run][pointer[run] + 1].art, m.role, "audit")
    OBVIOUS
  <2>1. /\ m.pc = "replay" /\ m.role = me.role /\ m.token = me.token /\ m.run = run
        /\ me.next = "admitted" /\ revs[run][pointer[run] + 1] = me.request.rev
    OBVIOUS
  <2>2. /\ me.read # Bridge!None /\ me.token = Bridge!None /\ me.role \in Bridge!Roles /\ HasRead(me)
        /\ ~Bridge!Has(me.art, me.role, "admission")
        /\ Bridge!Has(me.request.rev.art, me.role, "admission")
        /\ ~Bridge!Has(me.request.rev.art, me.role, "audit")
    BY <1>2, <2>1 DEF Proposes
  <2>3. me.art = Bridge!Revision(run).art
    BY <1>2, <2>2 DEF HasRead, Bridge!Revision
  <2> HIDE DEF me
  <2> QED
    BY <2>1, <2>2, <2>3 DEF OnRecord
<1>10. CallFits(m)'
  <2>1. CASE m = Bridge!Idle
    BY <2>1 DEF CallFits, Entitled, Bridge!Idle, Pcs, Confirms, Examines, Publishes, Commits,
       Executes
  <2>2. CASE m # Bridge!Idle
    <3>1. /\ m.pc = "replay" /\ IsCall(m) /\ m.run = run /\ m.token = me.token /\ m.role = me.role
          /\ m.next = me.next /\ m.request.run = m.run
      BY <1>2, <2>2 DEF Proposes
    <3>2. m.next \in {"answer", "admitted"}
      BY <1>2, <3>1 DEF Proposes
    <3>3. m.token # Bridge!None =>
            m.token <= Len(launches) /\ launches[m.token] = [run |-> m.run, role |-> m.role]
      <4>1. me.token # Bridge!None =>
              me.token <= Len(launches) /\ launches[me.token] = [run |-> me.run, role |-> me.role]
        BY <1>1 DEF CallFits
      <4> QED
        BY <1>2, <3>1, <4>1
    <3>4. Entitled(m) =>
            /\ m.role \in Bridge!Roles /\ m.token = Bridge!None
            /\ OnRecord(m.run, m.role)' /\ NoAuditYet(m.run, m.role)'
            /\ ~Launched(m.run, m.role)'
      <4> SUFFICES ASSUME Entitled(m)
                   PROVE  /\ m.role \in Bridge!Roles /\ m.token = Bridge!None
                          /\ OnRecord(m.run, m.role)' /\ NoAuditYet(m.run, m.role)'
                          /\ ~Launched(m.run, m.role)'
        OBVIOUS
      <4>1. m.next = "admitted"
        BY <3>1 DEF Entitled
      <4>2. OnRecord(m.run, m.role)'
        <5> HIDE DEF me
        <5>1. /\ m.run = run
              /\ Bridge!Has(revs[run][pointer[run] + 1].art, m.role, "admission")
          BY <1>9, <2>2, <4>1
        <5>2. pointer'[run] > 0 /\ Bridge!Revision(run)' = revs[run][pointer[run] + 1]
          BY <1>3 DEF Bridge!Revision
        <5> QED
          BY <5>1, <5>2 DEF OnRecord
      <4>3. NoAuditYet(m.run, m.role)'
        <5>1. \A i \in 1..Len(revs[run]) : i >= pointer'[run] => i = pointer[run] + 1
          BY <1>3, <1>4
        <5> QED
          BY <1>9, <2>2, <4>1, <5>1 DEF NoAuditYet
      <4>4. ~Launched(m.run, m.role)
        <5> SUFFICES ASSUME Launched(m.run, m.role) PROVE FALSE
          OBVIOUS
        <5>1. PICK i \in DOMAIN launches : launches[i] = [run |-> m.run, role |-> m.role]
          BY DEF Launched
        <5>2. OnRecord(m.run, m.role)
          BY <5>1 DEF BridgeInv, LaunchesAreOk
        <5> QED
          BY <5>2, <1>9, <2>2, <4>1
      <4> QED
        BY <1>9, <2>2, <4>1, <4>2, <4>3, <4>4 DEF Launched
    <3> HIDE DEF me
    <3> QED
      BY <3>1, <3>2, <3>3, <3>4
      DEF CallFits, Entitled, Pcs, Confirms, Examines, Publishes, Commits, Executes
  <2> QED
    BY <2>1, <2>2
<1>11. CallsFit'
  <2>1. ASSUME NEW d \in Callers, NEW you, you = client'[d]
        PROVE  CallFits(you)' /\ Holds(d, you)'
    <3>1. CASE d = c
      <4>1. you = m
        BY <1>5, <2>1, <3>1
      <4>2. m.pc \in Commits \cup {"replay"} => m # Bridge!Idle
        BY DEF Bridge!Idle, Commits
      <4> QED
        BY <1>2, <1>10, <3>1, <4>1, <4>2 DEF Holds
    <3>2. CASE d # c
      <4>1. you = client[d] /\ CallFits(you) /\ Holds(d, you)
        BY <1>5, <2>1, <3>2 DEF BridgeInv, CallsFit
      <4>2. you.pc \in Commits \cup {"replay"} => you.run # run
        BY <1>1, <1>2, <3>2, <4>1, RunIsHeld
      <4>3. CallFits(you)'
        BY <1>2, <4>1, <4>2, PointerOthers
      <4>4. you.pc \in Commits \cup {"replay"} => you.run \in Runs
        BY <4>1 DEF CallFits, IsCall, Commits
      <4> QED
        BY <3>2, <4>1, <4>3, <4>4 DEF Holds
    <3> QED
      BY <3>1, <3>2
  <2> QED
    BY <2>1 DEF CallsFit
<1>12. ClaimsDiffer'
  <2> SUFFICES ASSUME NEW d \in Callers, NEW e \in Callers, d # e,
                      client'[d].pc # "idle", client'[e].pc # "idle"
               PROVE  /\ client'[d].token # Bridge!None => client'[d].token # client'[e].token
                      /\ Entitled(client'[d]) /\ Entitled(client'[e])
                           /\ client'[d].run = client'[e].run
                           => client'[d].role # client'[e].role
    BY DEF ClaimsDiffer, Entitled
  <2>1. ClaimsDiffer
    BY DEF BridgeInv
  <2>2. m.pc # "idle" => m # Bridge!Idle /\ m.pc = "replay" /\ m.token = me.token
    BY DEF Bridge!Idle
  <2>3. \A x \in Callers : x # c /\ Entitled(client[x]) =>
          OnRecord(client[x].run, client[x].role)
    BY DEF BridgeInv, CallsFit, CallFits
  <2>4. \A x \in Callers : x # c /\ client[x].pc # "idle" =>
          /\ client[x].token # Bridge!None => client[x].token # me.token
          /\ me.token # Bridge!None => client[x].token # me.token
    BY <1>1, <2>1 DEF ClaimsDiffer
  <2>5. Entitled(m) /\ m # Bridge!Idle /\ m.pc = "replay" => m.next = "admitted"
    BY DEF Entitled
  <2> HIDE DEF me
  <2>6. CASE d = c
    BY <1>5, <1>9, <2>2, <2>3, <2>4, <2>5, <2>6
  <2>7. CASE e = c
    BY <1>5, <1>9, <2>2, <2>3, <2>4, <2>5, <2>7
  <2>8. CASE d # c /\ e # c
    BY <1>5, <2>1, <2>8 DEF ClaimsDiffer
  <2> QED
    BY <2>6, <2>7, <2>8
<1> QED
  BY <1>6, <1>7, <1>8, <1>11, <1>12 DEF BridgeInv

LEMMA PublishPointerKeeps ==
    ASSUME BridgeInv, NEW c \in Callers, Bridge!PublishPointer(c)
    PROVE  BridgeInv'
<1> DEFINE run == client[c].request.run
<1>1. PICK me : me = client[c]
  OBVIOUS
<1>2. /\ me.pc = "point" /\ Bridge!Goto(c, "replay") /\ lock' = lock
      /\ revs' = revs /\ launches' = launches /\ pointer' = [pointer EXCEPT ![run] = @ + 1]
  BY <1>1 DEF Bridge!PublishPointer, Bridge!At
<1>3. CallFits(me)
  BY <1>1 DEF BridgeInv, CallsFit
<1>4. /\ IsCall(me) /\ me.run \in Runs /\ Proposes(me) /\ run = me.run
      /\ me.read = pointer[me.run]
      /\ pointer[me.run] > 0 => Bridge!SuccessorSemantics(Bridge!Revision(me.run), me.request.rev)
  BY <1>1, <1>2, <1>3 DEF CallFits, IsCall, Publishes, Commits, Proposes
<1>5. revs[run][pointer[run] + 1] = me.request.rev
  BY <1>2, <1>3, <1>4 DEF CallFits
<1>6. PICK m : m = [me EXCEPT !.pc = "replay"]
  OBVIOUS
<1>7. client' = [client EXCEPT ![c] = m]
  BY <1>1, <1>2, <1>6 DEF Bridge!Goto
<1>8. /\ IsCall(m) /\ m.pc = "replay" /\ m.run = me.run /\ m.role = me.role
      /\ m.request = me.request /\ m.next = me.next /\ m.token = me.token
  BY <1>4, <1>6, CallMoves
<1>9. /\ lock' \in [Runs \cup {"identities", "identifiers"} -> Callers \cup {NoOne}]
      /\ \A d \in Callers \ {c} : \A r \in Runs : lock[r] = d => lock'[r] = d
  BY <1>2, SameLock
<1> HIDE DEF run
<1> QED
  BY <1>1, <1>2, <1>4, <1>5, <1>7, <1>8, <1>9, PointerStep

LEMMA AdoptOrphanKeeps ==
    ASSUME BridgeInv, NEW c \in Callers, Bridge!AdoptOrphan(c)
    PROVE  BridgeInv'
<1> DEFINE run == client[c].request.run
           orphan == revs[run][pointer[run] + 1]
<1>1. PICK me : me = client[c]
  OBVIOUS
<1>2. /\ me.pc = "adopt" /\ revs' = revs /\ launches' = launches
      /\ \/ Bridge!Fails(c) /\ Bridge!Free(run) /\ pointer' = pointer
         \/ /\ pointer' = [pointer EXCEPT ![run] = @ + 1]
            /\ pointer[run] > 0 => Bridge!SuccessorSemantics(Bridge!Revision(run), orphan)
            /\ \/ orphan = me.request.rev /\ Bridge!Goto(c, "replay") /\ lock' = lock
               \/ Bridge!Fails(c) /\ Bridge!Free(run)
  BY <1>1 DEF Bridge!AdoptOrphan, Bridge!At
<1>3. CallFits(me) /\ Holds(c, me)
  BY <1>1 DEF BridgeInv, CallsFit
<1>4. IsCall(me) /\ me.run \in Runs /\ Proposes(me) /\ run = me.run /\ lock[me.run] = c
  BY <1>1, <1>2, <1>3 DEF CallFits, IsCall, Publishes, Commits, Proposes, Holds
<1>5. Bridge!Free(run) => /\ lock' \in [Runs \cup {"identities", "identifiers"} -> Callers \cup {NoOne}]
                   /\ \A d \in Callers \ {c} : \A r \in Runs : lock[r] = d => lock'[r] = d
  BY <1>4, FreedLock
<1>6. CASE Bridge!Fails(c) /\ Bridge!Free(run) /\ pointer' = pointer
  BY <1>2, <1>5, <1>6, CallEnds
<1>7. CASE /\ pointer' = [pointer EXCEPT ![run] = @ + 1]
           /\ pointer[run] > 0 => Bridge!SuccessorSemantics(Bridge!Revision(run), orphan)
           /\ Bridge!Fails(c) /\ Bridge!Free(run)
  <2>1. PICK m : m = Bridge!Idle
    OBVIOUS
  <2>2. client' = [client EXCEPT ![c] = m]
    BY <1>7, <2>1 DEF Bridge!Fails
  <2> HIDE DEF run
  <2> QED
    BY <1>1, <1>2, <1>4, <1>5, <1>7, <2>1, <2>2, PointerStep
<1>8. CASE /\ pointer' = [pointer EXCEPT ![run] = @ + 1]
           /\ pointer[run] > 0 => Bridge!SuccessorSemantics(Bridge!Revision(run), orphan)
           /\ orphan = me.request.rev /\ Bridge!Goto(c, "replay") /\ lock' = lock
  <2>1. PICK m : m = [me EXCEPT !.pc = "replay"]
    OBVIOUS
  <2>2. client' = [client EXCEPT ![c] = m]
    BY <1>1, <1>8, <2>1 DEF Bridge!Goto
  <2>3. /\ IsCall(m) /\ m.pc = "replay" /\ m.run = me.run /\ m.role = me.role
        /\ m.request = me.request /\ m.next = me.next /\ m.token = me.token
    BY <1>4, <2>1, CallMoves
  <2>4. /\ lock' \in [Runs \cup {"identities", "identifiers"} -> Callers \cup {NoOne}]
        /\ \A d \in Callers \ {c} : \A r \in Runs : lock[r] = d => lock'[r] = d
    BY <1>8, SameLock
  <2> HIDE DEF run
  <2> QED
    BY <1>1, <1>2, <1>4, <1>8, <2>2, <2>3, <2>4, PointerStep
<1> QED
  BY <1>2, <1>6, <1>7, <1>8

\* Appending a revision to the list of a run keeps the ones before it.
LEMMA StagedRevisions ==
    ASSUME BridgeInv, NEW run \in Runs, NEW rev,
           revs' = [revs EXCEPT ![run] = Append(@, rev)]
    PROVE  /\ \E S : revs' \in [Runs -> Seq(S)]
           /\ Len(revs'[run]) = Len(revs[run]) + 1
           /\ revs'[run][Len(revs[run]) + 1] = rev
           /\ \A r \in Runs : \A i \in 1..Len(revs[r]) : revs'[r][i] = revs[r][i]
           /\ \A r \in Runs : r # run => revs'[r] = revs[r]
<1>1. PICK S : revs \in [Runs -> Seq(S)]
  BY DEF BridgeInv, Shapes
<1>2. revs \in [Runs -> Seq(S \cup {rev})] /\ revs[run] \in Seq(S \cup {rev})
  <2>1. Seq(S) \subseteq Seq(S \cup {rev})
    OBVIOUS
  <2> QED
    BY <1>1, <2>1
<1>3. PICK s : s = Append(revs[run], rev)
  OBVIOUS
<1>4. /\ s \in Seq(S \cup {rev}) /\ Len(s) = Len(revs[run]) + 1
      /\ s[Len(revs[run]) + 1] = rev
      /\ \A i \in 1..Len(revs[run]) : s[i] = revs[run][i]
  BY <1>2, <1>3, AppendProperties
<1>5. /\ revs' \in [Runs -> Seq(S \cup {rev})] /\ revs'[run] = s
      /\ \A r \in Runs : r # run => revs'[r] = revs[r]
  <2>1. revs' = [revs EXCEPT ![run] = s]
    BY <1>3
  <2> QED
    BY <1>2, <1>4, <2>1
<1> QED
  BY <1>4, <1>5

\* What a caller may count on survives a revision that another stages.
LEMMA StageOthers ==
    ASSUME BridgeInv, NEW run \in Runs, NEW rev,
           revs' = [revs EXCEPT ![run] = Append(@, rev)],
           pointer' = pointer, launches' = launches,
           NEW me, CallFits(me), me.pc \in Commits \cup {"replay"} => me.run # run,
           (Entitled(me) \/ me.pc \in Executes) /\ me.run = run => ~Bridge!Has(rev.art, me.role,
               "audit")
    PROVE  CallFits(me)'
<1>1. CASE me.pc = "idle"
  BY <1>1 DEF CallFits, Entitled, Pcs, Confirms, Examines, Publishes, Commits, Executes
<1>2. CASE me.pc # "idle"
  <2>1. IsCall(me) /\ me.run \in Runs
    BY <1>2 DEF CallFits, IsCall
  <2>2. /\ \A r \in Runs : \A i \in 1..Len(revs[r]) : revs'[r][i] = revs[r][i]
        /\ \A r \in Runs : r # run => revs'[r] = revs[r]
        /\ Len(revs'[run]) = Len(revs[run]) + 1
        /\ revs'[run][Len(revs[run]) + 1] = rev
    BY StagedRevisions
  <2>3. \A r \in Runs : pointer[r] \in Nat /\ Len(revs[r]) \in Nat /\ pointer[r] <= Len(revs[r])
    BY StoreTypes
  <2>4. \A r \in Runs : pointer[r] > 0 => Bridge!Revision(r)' = Bridge!Revision(r)
    BY <2>2, <2>3 DEF Bridge!Revision
  <2>5. HasRead(me) => HasRead(me)'
    <3>1. me.read \in 1..pointer[me.run] => me.read \in 1..Len(revs[me.run])
      BY <2>1, <2>3
    <3> QED
      BY <2>1, <2>2, <3>1 DEF HasRead
  <2>6. Proposes(me) => Proposes(me)'
    BY <2>5 DEF Proposes
  <2>7. (Entitled(me) \/ me.pc \in Executes) /\ NoAuditYet(me.run, me.role)
          => NoAuditYet(me.run, me.role)'
    <3>1. CASE me.run # run
      BY <2>1, <2>2, <3>1 DEF NoAuditYet
    <3>2. CASE me.run = run
      <4>1. \A i \in 1..Len(revs'[run]) : i \in 1..Len(revs[run]) \/ i = Len(revs[run]) + 1
        BY <2>2, <2>3
      <4> QED
        BY <2>2, <3>2, <4>1 DEF NoAuditYet
    <3> QED
      BY <3>1, <3>2
  <2>8. OnRecord(me.run, me.role) => OnRecord(me.run, me.role)'
    BY <2>1, <2>4 DEF OnRecord
  <2>9. Launched(me.run, me.role)' <=> Launched(me.run, me.role)
    BY DEF Launched
  <2>10. me.pc \in Commits =>
          /\ me.read = pointer[me.run]
          /\ pointer[me.run] > 0 => Bridge!SuccessorSemantics(Bridge!Revision(me.run), me.request.rev)'
          /\ Bridge!ExecutionProgression(me.request.rev)
    <3>1. me.pc \in Commits =>
          /\ me.read = pointer[me.run]
          /\ pointer[me.run] > 0 => Bridge!SuccessorSemantics(Bridge!Revision(me.run), me.request.rev)
          /\ Bridge!ExecutionProgression(me.request.rev)
      BY DEF CallFits
    <3>2. pointer[me.run] > 0 => Bridge!Revision(me.run)' = Bridge!Revision(me.run)
      BY <2>1, <2>4
    <3> QED
      BY <3>1, <3>2
  <2>11. /\ me.pc = "adopt" => Len(revs'[me.run]) > pointer[me.run]
         /\ me.pc = "stage" => Len(revs'[me.run]) = pointer[me.run]
         /\ me.pc = "point" => /\ Len(revs'[me.run]) = pointer[me.run] + 1
                               /\ revs'[me.run][pointer[me.run] + 1] = me.request.rev
    <3>1. me.pc \in Commits => revs'[me.run] = revs[me.run]
      BY <2>1, <2>2
    <3> QED
      BY <3>1 DEF CallFits, Commits
  <2>12. /\ me.pc \in Pcs
         /\ me.pc \in Confirms \cup Examines => HasRead(me)' /\ me.role \in Bridge!Roles
                /\ me.token = Bridge!None
         /\ me.pc \in Examines =>
              ~Bridge!Has(me.art, me.role, "admission") /\ ~Bridge!Has(me.art, me.role, "audit")
         /\ me.pc \in Publishes => Proposes(me)'
         /\ me.pc = "replay" => me.request.run = me.run /\ me.next \in {"answer", "admitted"}
         /\ me.pc = "launch" => HasRead(me)'
    BY <2>5, <2>6 DEF CallFits
  <2>13. Entitled(me) =>
         /\ me.role \in Bridge!Roles /\ me.token = Bridge!None
         /\ OnRecord(me.run, me.role)' /\ NoAuditYet(me.run, me.role)'
         /\ ~Launched(me.run, me.role)'
    BY <2>7, <2>8, <2>9 DEF CallFits
  <2>14. me.pc \in Executes =>
         HasRead(me)' /\ me.role \in Bridge!Roles /\ me.token # Bridge!None /\ NoAuditYet(me.run,
             me.role)'
    BY <2>5, <2>7 DEF CallFits
  <2>15. me.token # Bridge!None =>
         /\ me.token <= Len(launches)
         /\ launches[me.token] = [run |-> me.run, role |-> me.role]
    BY <1>2 DEF CallFits
  <2>16. Entitled(me)' <=> Entitled(me)
    BY DEF Entitled
  <2> QED
    BY <2>1, <2>10, <2>11, <2>12, <2>13, <2>14, <2>15, <2>16 DEF CallFits
<1> QED
  BY <1>1, <1>2

\* Two executions of one role of one run are one execution.
LEMMA OneExecution ==
    ASSUME BridgeInv, NEW c \in Callers, NEW d \in Callers, c # d,
           client[c].pc # "idle", client[c].token # Bridge!None,
           client[d].pc # "idle", client[d].token # Bridge!None
    PROVE  client[c].run # client[d].run \/ client[c].role # client[d].role
<1>1. PICK me, you : me = client[c] /\ you = client[d]
  OBVIOUS
<1>2. CallFits(me) /\ CallFits(you) /\ me.token # you.token
  BY <1>1 DEF BridgeInv, CallsFit, ClaimsDiffer
<1>3. /\ me.token \in Nat /\ me.token # 0 /\ me.token <= Len(launches)
      /\ you.token \in Nat /\ you.token # 0 /\ you.token <= Len(launches)
      /\ launches[me.token] = [run |-> me.run, role |-> me.role]
      /\ launches[you.token] = [run |-> you.run, role |-> you.role]
  BY <1>1, <1>2 DEF CallFits, IsCall, Bridge!None
<1>4. me.token \in DOMAIN launches /\ you.token \in DOMAIN launches
  <2>1. DOMAIN launches = 1..Len(launches) /\ Len(launches) \in Nat
    BY DEF BridgeInv, Shapes
  <2> QED
    BY <1>3, <2>1
<1>5. launches[me.token] # launches[you.token]
  BY <1>2, <1>4 DEF BridgeInv, LaunchesAreOk
<1> QED
  BY <1>1, <1>3, <1>5

\* The claims of a caller that only changes its step are as before.
LEMMA ClaimsStay ==
    ASSUME BridgeInv, NEW c \in Callers, client[c].pc # "idle", NEW m,
           client' = [client EXCEPT ![c] = m], m.token = client[c].token, ~Entitled(m)
    PROVE  ClaimsDiffer'
<1>1. client'[c] = m /\ \A d \in Callers : d # c => client'[d] = client[d]
  BY DEF BridgeInv, Shapes
<1> SUFFICES ASSUME NEW d \in Callers, NEW e \in Callers, d # e,
                    client'[d].pc # "idle", client'[e].pc # "idle"
             PROVE  /\ client'[d].token # Bridge!None => client'[d].token # client'[e].token
                    /\ Entitled(client'[d]) /\ Entitled(client'[e])
                         /\ client'[d].run = client'[e].run
                         => client'[d].role # client'[e].role
  BY DEF ClaimsDiffer, Entitled
<1>2. ClaimsDiffer
  BY DEF BridgeInv
<1>3. CASE d = c
  BY <1>1, <1>2, <1>3 DEF ClaimsDiffer
<1>4. CASE e = c
  BY <1>1, <1>2, <1>4 DEF ClaimsDiffer
<1>5. CASE d # c /\ e # c
  BY <1>1, <1>2, <1>5 DEF ClaimsDiffer
<1> QED
  BY <1>3, <1>4, <1>5

LEMMA StageRevisionKeeps ==
    ASSUME BridgeInv, NEW c \in Callers, Bridge!StageRevision(c)
    PROVE  BridgeInv'
<1>1. PICK me : me = client[c]
  OBVIOUS
<1>2. PICK run, rev : run = me.request.run /\ rev = me.request.rev
  OBVIOUS
<1>3. /\ me.pc = "stage" /\ Bridge!Goto(c, "point") /\ lock' = lock
      /\ revs' = [revs EXCEPT ![run] = Append(@, rev)]
      /\ pointer' = pointer /\ launches' = launches
  BY <1>1, <1>2 DEF Bridge!StageRevision, Bridge!At
<1>4. CallFits(me) /\ Holds(c, me)
  BY <1>1 DEF BridgeInv, CallsFit
<1>5. /\ IsCall(me) /\ me.run \in Runs /\ Proposes(me) /\ run = me.run /\ lock[run] = c
      /\ me.read = pointer[run]
      /\ pointer[run] > 0 => Bridge!SuccessorSemantics(Bridge!Revision(run), rev)
      /\ Bridge!ExecutionProgression(rev) /\ IsArt(rev.art)
  BY <1>2, <1>3, <1>4 DEF CallFits, IsCall, Publishes, Commits, Proposes, Holds
<1>6. Len(revs[run]) = pointer[run]
  BY <1>3, <1>4, <1>5 DEF CallFits
<1>7. /\ \E S : revs' \in [Runs -> Seq(S)]
      /\ Len(revs'[run]) = Len(revs[run]) + 1
      /\ revs'[run][Len(revs[run]) + 1] = rev
      /\ \A r \in Runs : \A i \in 1..Len(revs[r]) : revs'[r][i] = revs[r][i]
      /\ \A r \in Runs : r # run => revs'[r] = revs[r]
  BY <1>3, <1>5, StagedRevisions, ZenonT(60)
<1>8. PICK m : m = [me EXCEPT !.pc = "point"]
  OBVIOUS
<1>9. client' = [client EXCEPT ![c] = m]
  BY <1>1, <1>3, <1>8 DEF Bridge!Goto
<1>10. /\ IsCall(m) /\ m.pc = "point" /\ m.run = me.run /\ m.role = me.role /\ m.read = me.read
       /\ m.art = me.art /\ m.request = me.request /\ m.next = me.next /\ m.token = me.token
  BY <1>5, <1>8, CallMoves
<1>11. client'[c] = m /\ \A d \in Callers : d # c => client'[d] = client[d]
  BY <1>9 DEF BridgeInv, Shapes
<1>12. \A r \in Runs : pointer[r] \in Nat /\ Len(revs[r]) \in Nat /\ pointer[r] <= Len(revs[r])
                       /\ Len(revs[r]) <= pointer[r] + 1
  BY StoreTypes
<1>13. Shapes'
  <2>1. client' = [d \in Callers |-> client'[d]]
    BY <1>9 DEF BridgeInv, Shapes
  <2>2. \A r \in Runs : pointer[r] <= Len(revs'[r]) /\ Len(revs'[r]) <= pointer[r] + 1
    BY <1>6, <1>7, <1>12, SMTT(60)
  <2> QED
    BY <1>3, <1>7, <2>1, <2>2 DEF BridgeInv, Shapes
<1>14. RevisionsServe'
  <2> SUFFICES ASSUME NEW r \in Runs, NEW i \in 1..Len(revs'[r])
               PROVE  IsArt(revs'[r][i].art) /\ Bridge!ExecutionProgression(revs'[r][i])
    BY DEF RevisionsServe
  <2>1. i \in 1..Len(revs[r]) \/ (r = run /\ i = Len(revs[run]) + 1)
    BY <1>7, <1>12
  <2>2. CASE i \in 1..Len(revs[r])
    <3>1. revs'[r][i] = revs[r][i]
      BY <1>7, <2>2
    <3> QED
      BY <2>2, <3>1 DEF BridgeInv, RevisionsServe
  <2>3. CASE r = run /\ i = Len(revs[run]) + 1
    BY <1>5, <1>7, <2>3
  <2> QED
    BY <2>1, <2>2, <2>3
<1>15. LaunchesAreOk'
  <2>1. ASSUME NEW i \in DOMAIN launches, NEW l, l = launches[i]
        PROVE  OnRecord(l.run, l.role)'
    <3>1. launches \in Seq([run : Runs, role : Bridge!Roles])
      BY DEF BridgeInv, Shapes
    <3>2. i \in 1..Len(launches)
      BY <2>1, <3>1
    <3>3. l \in [run : Runs, role : Bridge!Roles]
      BY <2>1, <3>1, <3>2, ElementOfSeq
    <3>4. OnRecord(l.run, l.role)
      BY <2>1 DEF BridgeInv, LaunchesAreOk
    <3>5. revs'[l.run][pointer[l.run]] = revs[l.run][pointer[l.run]]
      <4>1. pointer[l.run] > 0 /\ l.run \in Runs
        BY <3>3, <3>4 DEF OnRecord
      <4>2. pointer[l.run] \in 1..Len(revs[l.run])
        BY <4>1, <1>12
      <4> QED
        BY <4>1, <4>2, <1>7
    <3> QED
      BY <1>3, <3>4, <3>5 DEF OnRecord, Bridge!Revision
  <2> QED
    BY <1>3, <2>1 DEF BridgeInv, LaunchesAreOk
\* The audit that is staged is the caller's own: nobody else's turn has it.
<1>16. ASSUME NEW d \in Callers, d # c, NEW you, you = client[d], you.run = run,
              Entitled(you) \/ you.pc \in Executes
       PROVE  ~Bridge!Has(rev.art, you.role, "audit")
  <2>1. CallFits(you) /\ you.pc # "idle"
    BY <1>16 DEF BridgeInv, CallsFit, Entitled, Executes
  <2>2. you.role \in Bridge!Roles /\ NoAuditYet(run, you.role)
    BY <1>16, <2>1 DEF CallFits
  <2>3. me.read # Bridge!None => ~Bridge!Has(me.art, you.role, "audit")
    <3>1. me.read # Bridge!None => HasRead(me)
      BY <1>5 DEF Proposes
    <3>2. me.read # Bridge!None => me.art = revs[run][pointer[run]].art
              /\ pointer[run] \in 1..Len(revs[run])
      BY <1>5, <1>12, <3>1 DEF HasRead
    <3>3. pointer[run] \in 1..Len(revs[run]) => ~Bridge!Has(revs[run][pointer[run]].art,
              you.role, "audit")
      BY <1>5, <1>12, <2>2 DEF NoAuditYet
    <3> QED
      BY <3>2, <3>3
  <2>4. Bridge!Has(rev.art, you.role, "audit") => me.token # Bridge!None /\ you.role = me.role
    BY <1>2, <1>5, <2>2, <2>3 DEF Proposes
  <2>5. ASSUME me.token # Bridge!None, you.role = me.role PROVE FALSE
    <3>1. CASE Entitled(you)
      <4>1. ~Launched(run, you.role)
        BY <1>16, <2>1, <3>1 DEF CallFits
      <4>2. /\ me.token <= Len(launches) /\ me.token \in Nat /\ me.token # 0
            /\ launches[me.token] = [run |-> me.run, role |-> me.role]
        BY <1>3, <1>4, <1>5, <2>5 DEF CallFits, IsCall, Bridge!None
      <4>3. DOMAIN launches = 1..Len(launches) /\ Len(launches) \in Nat
        BY DEF BridgeInv, Shapes
      <4>4. me.token \in DOMAIN launches
        BY <4>2, <4>3
      <4> QED
        BY <1>5, <2>5, <4>1, <4>2, <4>4 DEF Launched
    <3>2. CASE you.pc \in Executes
      <4>1. you.token # Bridge!None
        BY <2>1, <3>2 DEF CallFits
      <4> QED
        BY <1>1, <1>3, <1>5, <1>16, <2>1, <2>5, <4>1, OneExecution
    <3> QED
      BY <1>16, <3>1, <3>2
  <2> QED
    BY <2>4, <2>5
<1>17. CallFits(m)'
  <2>1. HasRead(me) => HasRead(m)'
    <3>1. me.read \in 1..pointer[run] => me.read \in 1..Len(revs[run])
      BY <1>5, <1>12
    <3> QED
      BY <1>3, <1>5, <1>7, <1>10, <3>1 DEF HasRead
  <2>2. Proposes(m)'
    BY <1>5, <1>10, <2>1 DEF Proposes
  <2>3. m.token # Bridge!None =>
          m.token <= Len(launches) /\ launches[m.token] = [run |-> m.run, role |-> m.role]
    BY <1>3, <1>4, <1>10 DEF CallFits
  <2>4. pointer[run] > 0 => Bridge!Revision(run)' = Bridge!Revision(run)
    <3>1. pointer[run] > 0 => pointer[run] \in 1..Len(revs[run])
      BY <1>5, <1>12
    <3> QED
      BY <1>3, <1>5, <1>7, <3>1 DEF Bridge!Revision
  <2>5. /\ m.read = pointer'[m.run]
        /\ pointer'[m.run] > 0 => Bridge!SuccessorSemantics(Bridge!Revision(m.run), m.request.rev)'
        /\ Bridge!ExecutionProgression(m.request.rev)
    BY <1>2, <1>3, <1>5, <1>10, <2>4
  <2>6. /\ Len(revs'[m.run]) = pointer'[m.run] + 1
        /\ revs'[m.run][pointer'[m.run] + 1] = m.request.rev
    BY <1>2, <1>3, <1>5, <1>6, <1>7, <1>10
  <2>7. ~Entitled(m)' /\ ~Entitled(m)
    BY <1>10 DEF Entitled
  <2> QED
    BY <1>3, <1>10, <2>2, <2>3, <2>5, <2>6, <2>7
    DEF CallFits, Pcs, Confirms, Examines, Publishes, Commits, Executes
<1>18. CallsFit'
  <2>1. ASSUME NEW d \in Callers, NEW you, you = client'[d]
        PROVE  CallFits(you)' /\ Holds(d, you)'
    <3>1. CASE d = c
      BY <1>3, <1>5, <1>10, <1>11, <1>17, <2>1, <3>1 DEF Holds
    <3>2. CASE d # c
      <4>1. you = client[d] /\ CallFits(you) /\ Holds(d, you)
        BY <1>11, <2>1, <3>2 DEF BridgeInv, CallsFit
      <4>2. you.pc \in Commits \cup {"replay"} => you.run # run
        BY <1>1, <1>3, <1>5, <3>2, <4>1, RunIsHeld DEF Commits
      <4>3. (Entitled(you) \/ you.pc \in Executes) /\ you.run = run
              => ~Bridge!Has(rev.art, you.role, "audit")
        BY <1>16, <3>2, <4>1
      <4>4. CallFits(you)'
        BY <1>3, <1>5, <4>1, <4>2, <4>3, StageOthers
      <4> QED
        BY <1>3, <4>1, <4>4 DEF Holds
    <3> QED
      BY <3>1, <3>2
  <2> QED
    BY <2>1 DEF CallsFit
<1>19. ClaimsDiffer'
  <2>1. ~Entitled(m)
    BY <1>10 DEF Entitled
  <2> QED
    BY <1>1, <1>3, <1>9, <1>10, <2>1, ClaimsStay
<1> QED
  BY <1>13, <1>14, <1>15, <1>18, <1>19 DEF BridgeInv

StartTransport(c, n) == [client EXCEPT ![c].pc = "transport", ![c].token = n]
Started(me, n) == [[me EXCEPT !.pc = "transport"] EXCEPT !.token = n]

LEMMA StartFits ==
    ASSUME BridgeInv, NEW c \in Callers, client[c].pc # "idle", NEW n \in Nat
    PROVE  LET m == Started(client[c], n) IN
           /\ StartTransport(c, n) = [client EXCEPT ![c] = m]
           /\ IsCall(m) /\ m.pc = "transport" /\ m.token = n
           /\ m.run = client[c].run /\ m.role = client[c].role /\ m.read = client[c].read
           /\ m.art = client[c].art
<1> DEFINE me == client[c]
           one == [me EXCEPT !.pc = "transport"]
           two == [one EXCEPT !.token = n]
           f == [d \in Callers |-> IF d = c THEN one ELSE client[d]]
           g == [d \in Callers |-> IF d = c THEN two ELSE client[d]]
<1>1. IsCall(me) /\ client = [d \in Callers |-> client[d]]
  BY DEF BridgeInv, CallsFit, CallFits, Shapes
<1>2. StartTransport(c, n) = [[client EXCEPT ![c].pc = "transport"] EXCEPT ![c].token = n]
  BY DEF StartTransport
<1>3. [client EXCEPT ![c].pc = "transport"] = f
  BY <1>1
<1>4. f[c] = one /\ [f EXCEPT ![c].token = n] = [f EXCEPT ![c] = [f[c] EXCEPT !.token = n]]
  OBVIOUS
<1>5. [f EXCEPT ![c].token = n] = g
  <2>1. [f EXCEPT ![c] = [f[c] EXCEPT !.token = n]] = [f EXCEPT ![c] = two]
    BY <1>4
  <2> HIDE DEF two, one
  <2>2. [f EXCEPT ![c] = two] = g
    OBVIOUS
  <2> QED
    BY <1>4, <2>1, <2>2
<1>6. g = [client EXCEPT ![c] = two]
  <2> HIDE DEF two
  <2> QED
    BY <1>1
<1>7. /\ IsCall(one) /\ one.pc = "transport"
      /\ one.run = me.run /\ one.role = me.role /\ one.read = me.read /\ one.art = me.art
  BY <1>1, CallMoves
<1>8. Started(client[c], n) = two
  BY DEF Started
<1> HIDE DEF f, g
<1>9. StartTransport(c, n) = [client EXCEPT ![c] = two]
  BY <1>2, <1>3, <1>5, <1>6
<1> HIDE DEF one
<1>10. /\ IsCall(two) /\ two.pc = one.pc /\ two.token = n
       /\ two.run = one.run /\ two.role = one.role /\ two.read = one.read /\ two.art = one.art
  BY <1>7 DEF IsCall
<1> HIDE DEF two
<1> QED
  BY <1>7, <1>8, <1>9, <1>10 DEF me

\* What a caller may count on survives the launch of another role or run.
LEMMA LaunchOthers ==
    ASSUME BridgeInv, NEW l \in [run : Runs, role : Bridge!Roles],
           revs' = revs, pointer' = pointer, launches' = Append(launches, l),
           NEW me, CallFits(me),
           Entitled(me) => me.run # l.run \/ me.role # l.role
    PROVE  CallFits(me)'
<1>1. /\ launches \in Seq([run : Runs, role : Bridge!Roles]) /\ Len(launches) \in Nat
      /\ DOMAIN launches = 1..Len(launches)
  BY DEF BridgeInv, Shapes
<1>2. /\ launches' \in Seq([run : Runs, role : Bridge!Roles])
      /\ Len(launches') = Len(launches) + 1 /\ DOMAIN launches' = 1..(Len(launches) + 1)
      /\ launches'[Len(launches) + 1] = l
      /\ \A i \in 1..Len(launches) : launches'[i] = launches[i]
  <2>1. /\ Append(launches, l) \in Seq([run : Runs, role : Bridge!Roles])
        /\ Len(Append(launches, l)) = Len(launches) + 1
        /\ Append(launches, l)[Len(launches) + 1] = l
        /\ \A i \in 1..Len(launches) : Append(launches, l)[i] = launches[i]
    BY <1>1, AppendProperties
  <2> QED
    BY <1>1, <2>1
<1>3. HasRead(me)' <=> HasRead(me)
  BY DEF HasRead
<1>4. Proposes(me)' <=> Proposes(me)
  BY <1>3 DEF Proposes
<1>5. /\ NoAuditYet(me.run, me.role)' <=> NoAuditYet(me.run, me.role)
      /\ OnRecord(me.run, me.role)' <=> OnRecord(me.run, me.role)
      /\ Entitled(me)' <=> Entitled(me)
  BY DEF NoAuditYet, OnRecord, Bridge!Revision, Entitled
<1>6. Entitled(me) => ~Launched(me.run, me.role)'
  <2> SUFFICES ASSUME Entitled(me), Launched(me.run, me.role)' PROVE FALSE
    OBVIOUS
  <2>1. PICK i \in DOMAIN launches' : launches'[i] = [run |-> me.run, role |-> me.role]
    BY DEF Launched
  <2>2. CASE i \in 1..Len(launches)
    <3>1. launches[i] = [run |-> me.run, role |-> me.role]
      BY <1>2, <2>1, <2>2
    <3>2. Launched(me.run, me.role)
      BY <1>1, <2>2, <3>1 DEF Launched
    <3> QED
      BY <3>2 DEF CallFits
  <2>3. CASE i = Len(launches) + 1
    BY <1>2, <2>1, <2>3
  <2> QED
    BY <1>1, <1>2, <2>2, <2>3
<1>7. me.pc # "idle" /\ me.token # Bridge!None =>
        /\ me.token <= Len(launches')
        /\ launches'[me.token] = [run |-> me.run, role |-> me.role]
  <2>1. me.pc # "idle" /\ me.token # Bridge!None =>
          /\ me.token \in Nat /\ me.token # 0 /\ me.token <= Len(launches)
          /\ launches[me.token] = [run |-> me.run, role |-> me.role]
    BY DEF CallFits, IsCall, Bridge!None
  <2>2. me.pc # "idle" /\ me.token # Bridge!None =>
          me.token \in 1..Len(launches) /\ me.token <= Len(launches')
    BY <1>1, <1>2, <2>1
  <2> QED
    BY <1>2, <2>1, <2>2
<1>8. IsCall(me)' <=> IsCall(me)
  BY DEF IsCall
<1>9. Bridge!Revision(me.run)' = Bridge!Revision(me.run)
  BY DEF Bridge!Revision
<1>10. me.pc \in Commits =>
         /\ me.read = pointer[me.run]
         /\ pointer[me.run] > 0 => Bridge!SuccessorSemantics(Bridge!Revision(me.run), me.request.rev)'
         /\ Bridge!ExecutionProgression(me.request.rev)
  BY <1>9 DEF CallFits
<1> QED
  BY <1>3, <1>4, <1>5, <1>6, <1>7, <1>8, <1>10, ZenonT(60) DEF CallFits

LEMMA LaunchKeeps ==
    ASSUME BridgeInv, NEW c \in Callers, Bridge!Launch(c)
    PROVE  BridgeInv'
<1>1. PICK me : me = client[c]
  OBVIOUS
<1>2. PICK n : n = Len(launches) + 1
  OBVIOUS
<1>3. PICK l : l = [run |-> me.run, role |-> me.role]
  OBVIOUS
<1>4. /\ me.pc = "launch" /\ lock' = lock /\ revs' = revs /\ pointer' = pointer
      /\ launches' = Append(launches, l) /\ client' = StartTransport(c, n)
  BY <1>1, <1>2, <1>3 DEF Bridge!Launch, Bridge!At, Bridge!store, StartTransport
<1>5. /\ launches \in Seq([run : Runs, role : Bridge!Roles]) /\ Len(launches) \in Nat
      /\ DOMAIN launches = 1..Len(launches) /\ n \in Nat
  BY <1>2 DEF BridgeInv, Shapes
<1>6. CallFits(me) /\ Entitled(me)
  BY <1>1, <1>4 DEF BridgeInv, CallsFit, Entitled
<1>7. /\ IsCall(me) /\ me.run \in Runs /\ me.role \in Bridge!Roles /\ HasRead(me)
      /\ OnRecord(me.run, me.role) /\ NoAuditYet(me.run, me.role)
      /\ ~Launched(me.run, me.role)
  BY <1>4, <1>6 DEF CallFits, IsCall
<1>8. l \in [run : Runs, role : Bridge!Roles] /\ l.run = me.run /\ l.role = me.role
  BY <1>3, <1>7
<1>9. /\ launches' \in Seq([run : Runs, role : Bridge!Roles])
      /\ Len(launches') = Len(launches) + 1 /\ DOMAIN launches' = 1..(Len(launches) + 1)
      /\ launches'[n] = l
      /\ \A i \in 1..Len(launches) : launches'[i] = launches[i]
  <2>1. /\ Append(launches, l) \in Seq([run : Runs, role : Bridge!Roles])
        /\ Len(Append(launches, l)) = Len(launches) + 1
        /\ Append(launches, l)[Len(launches) + 1] = l
        /\ \A i \in 1..Len(launches) : Append(launches, l)[i] = launches[i]
    BY <1>5, <1>8, AppendProperties
  <2>2. DOMAIN Append(launches, l) = 1..Len(Append(launches, l))
    BY <2>1
  <2> QED
    BY <1>2, <1>4, <2>1, <2>2
<1>10. PICK m : /\ client' = [client EXCEPT ![c] = m]
                /\ IsCall(m) /\ m.pc = "transport" /\ m.token = n
                /\ m.run = me.run /\ m.role = me.role /\ m.read = me.read /\ m.art = me.art
  <2>1. client[c].pc # "idle"
    BY <1>1, <1>4
  <2>2. StartTransport(c, n) = [client EXCEPT ![c] = Started(client[c], n)]
    BY ONLY BridgeInv, c \in Callers, <1>5, <2>1, StartFits
  <2> DEFINE m == Started(client[c], n)
  <2>3. IsCall(m) /\ m.pc = "transport" /\ m.token = n
    BY ONLY BridgeInv, c \in Callers, <1>5, <2>1, <2>2, StartFits
  <2>4. m.run = client[c].run /\ m.role = client[c].role
    BY ONLY BridgeInv, c \in Callers, <1>5, <2>1, <2>2, StartFits
  <2>5. m.read = client[c].read /\ m.art = client[c].art
    BY ONLY BridgeInv, c \in Callers, <1>5, <2>1, <2>2, StartFits
  <2> HIDE DEF m
  <2>6. client' = [client EXCEPT ![c] = m]
    BY <1>4, <2>2 DEF m
  <2> QED
    BY <1>1, <2>3, <2>4, <2>5, <2>6
<1>11. client'[c] = m /\ \A d \in Callers : d # c => client'[d] = client[d]
  BY <1>10 DEF BridgeInv, Shapes
<1>12. Shapes'
  <2>1. client' = [d \in Callers |-> client'[d]]
    BY <1>10 DEF BridgeInv, Shapes
  <2> QED
    BY <1>4, <1>9, <2>1 DEF BridgeInv, Shapes
<1>13. RevisionsServe'
  BY <1>4 DEF BridgeInv, RevisionsServe
<1>14. \A i \in 1..Len(launches) : launches[i] # l
  BY <1>3, <1>5, <1>7 DEF Launched
<1>15. LaunchesAreOk'
  <2>1. ASSUME NEW i \in DOMAIN launches', NEW j \in DOMAIN launches', launches'[i] = launches'[j]
        PROVE  i = j
    <3>1. /\ i \in 1..Len(launches) \/ i = n
          /\ j \in 1..Len(launches) \/ j = n
      BY <1>2, <1>5, <1>9
    <3>2. CASE i \in 1..Len(launches) /\ j \in 1..Len(launches)
      <4>1. launches[i] = launches[j]
        BY <1>9, <2>1, <3>2
      <4> QED
        BY <1>5, <3>2, <4>1 DEF BridgeInv, LaunchesAreOk
    <3>3. CASE i = n /\ j \in 1..Len(launches)
      BY <1>9, <1>14, <2>1, <3>3
    <3>4. CASE j = n /\ i \in 1..Len(launches)
      BY <1>9, <1>14, <2>1, <3>4
    <3> QED
      BY <3>1, <3>2, <3>3, <3>4
  <2>2. ASSUME NEW i \in DOMAIN launches', NEW k, k = launches'[i]
        PROVE  OnRecord(k.run, k.role)'
    <3>1. i \in 1..Len(launches) \/ i = n
      BY <1>2, <1>5, <1>9
    <3>2. OnRecord(k.run, k.role)
      <4>1. CASE i \in 1..Len(launches)
        <5>1. k = launches[i]
          BY <1>9, <2>2, <4>1
        <5> QED
          BY <1>5, <4>1, <5>1 DEF BridgeInv, LaunchesAreOk
      <4>2. CASE i = n
        BY <1>7, <1>8, <1>9, <2>2, <4>2
      <4> QED
        BY <3>1, <4>1, <4>2
    <3> QED
      BY <1>4, <3>2 DEF OnRecord, Bridge!Revision
  <2> QED
    BY <2>1, <2>2 DEF LaunchesAreOk
<1>16. CallFits(m)'
  <2>1. HasRead(m)' /\ NoAuditYet(m.run, m.role)'
    BY <1>4, <1>7, <1>10 DEF HasRead, NoAuditYet
  <2>2. m.token # Bridge!None /\ m.token <= Len(launches')
    BY <1>2, <1>5, <1>9, <1>10 DEF Bridge!None
  <2>3. launches'[m.token] = [run |-> m.run, role |-> m.role]
    BY <1>3, <1>9, <1>10
  <2>4. ~Entitled(m)'
    BY <1>10 DEF Entitled
  <2>5. IsCall(m)' /\ m.role \in Bridge!Roles
    BY <1>7, <1>10 DEF IsCall
  <2> QED
    BY <1>10, <2>1, <2>2, <2>3, <2>4, <2>5
    DEF CallFits, Pcs, Confirms, Examines, Publishes, Commits, Executes
<1>17. \A d \in Callers : d # c /\ Entitled(client[d]) =>
         client[d].run # l.run \/ client[d].role # l.role
  <2>1. \A d \in Callers : Entitled(client[d]) => client[d].pc # "idle"
    BY DEF Entitled
  <2>2. me.pc # "idle"
    BY <1>4
  <2> QED
    BY <1>1, <1>6, <1>8, <2>1, <2>2 DEF BridgeInv, ClaimsDiffer
<1>18. CallsFit'
  <2>1. ASSUME NEW d \in Callers, NEW you, you = client'[d]
        PROVE  CallFits(you)' /\ Holds(d, you)'
    <3>1. CASE d = c
      BY <1>10, <1>11, <1>16, <2>1, <3>1 DEF Holds, Commits
    <3>2. CASE d # c
      <4>1. you = client[d] /\ CallFits(you) /\ Holds(d, you)
        BY <1>11, <2>1, <3>2 DEF BridgeInv, CallsFit
      <4>2. CallFits(you)'
        BY <1>4, <1>8, <1>17, <3>2, <4>1, LaunchOthers
      <4> QED
        BY <1>4, <4>1, <4>2 DEF Holds
    <3> QED
      BY <3>1, <3>2
  <2> QED
    BY <2>1 DEF CallsFit
<1>19. ClaimsDiffer'
  <2> SUFFICES ASSUME NEW d \in Callers, NEW e \in Callers, d # e,
                      client'[d].pc # "idle", client'[e].pc # "idle"
               PROVE  /\ client'[d].token # Bridge!None => client'[d].token # client'[e].token
                      /\ Entitled(client'[d]) /\ Entitled(client'[e])
                           /\ client'[d].run = client'[e].run
                           => client'[d].role # client'[e].role
    BY DEF ClaimsDiffer, Entitled
  <2>1. ClaimsDiffer
    BY DEF BridgeInv
  <2>2. ~Entitled(m)
    BY <1>10 DEF Entitled
  <2>3. \A x \in Callers : client[x].pc # "idle" => client[x].token # n
    <3>1. ASSUME NEW x \in Callers, client[x].pc # "idle", NEW you, you = client[x]
          PROVE  you.token # n
      <4>1. CallFits(you) /\ you.pc # "idle"
        BY <3>1 DEF BridgeInv, CallsFit
      <4>2. you.token \in Nat /\ (you.token # Bridge!None => you.token <= Len(launches))
        BY <4>1 DEF CallFits, IsCall
      <4> QED
        BY <1>2, <1>5, <4>2 DEF Bridge!None
    <3> QED
      BY <3>1
  <2>4. CASE d = c
    BY <1>10, <1>11, <2>2, <2>3, <2>4
  <2>5. CASE e = c
    BY <1>10, <1>11, <2>2, <2>3, <2>5
  <2>6. CASE d # c /\ e # c
    BY <1>11, <2>1, <2>6 DEF ClaimsDiffer
  <2> QED
    BY <2>4, <2>5, <2>6
<1> QED
  BY <1>12, <1>13, <1>15, <1>18, <1>19 DEF BridgeInv

-----------------------------------------------------------------------------
(* The store at the start.                                                  *)

\* What a role left behind when it was requested, confirmed, admitted, executed.
LEMMA PastRoleFits ==
    ASSUME NEW r \in Bridge!Roles, NEW stage \in 0..3, NEW base \in Nat, Independent \in Nat \ {0}
    PROVE  LET p == Bridge!PastRole(r, stage, base) IN
           /\ p = [k \in Bridge!Kinds |-> p[k]]
           /\ p["request"] # Bridge!NoArtifact /\ p["request"].role = r
           /\ Bridge!EnvelopeCorrelates(p["request"])
           /\ IF stage >= 1 THEN p["confirmation"] # Bridge!NoArtifact /\ p["confirmation"].role = r
              ELSE p["confirmation"] = Bridge!NoArtifact
           /\ IF stage >= 2 THEN p["admission"] # Bridge!NoArtifact /\ p["admission"].role = r
              ELSE p["admission"] = Bridge!NoArtifact
           /\ IF stage = 3 THEN p["result"] # Bridge!NoArtifact /\ p["result"].role = r
              ELSE p["result"] = Bridge!NoArtifact
           /\ IF stage = 3
              THEN /\ p["audit"] # Bridge!NoArtifact /\ p["audit"].role = r
                   /\ p["audit"].outcome.effect = "succeeded"
                   /\ Bridge!AuditStateIsClosed(p["audit"].outcome)
              ELSE p["audit"] = Bridge!NoArtifact
<1> DEFINE resultOf(q) == Bridge!RoleResult(q, base + q)
           request == Bridge!RoleRequest(r, resultOf)
           confirmation == Bridge!RoleConfirmation(r, base + r, base + r, 0)
           p == Bridge!PastRole(r, stage, base)
<1>1. /\ request # Bridge!NoArtifact /\ request.role = r
      /\ request.parents = [q \in Bridge!ParentsOf(r) |-> resultOf(q)]
  BY DEF Bridge!RoleRequest, Bridge!NoArtifact
<1>2. Bridge!EnvelopeCorrelates(request)
  <2>1. \A q \in Bridge!ParentsOf(r) : resultOf(q).role = q
    BY DEF Bridge!RoleResult
  <2> HIDE DEF resultOf, request
  <2> QED
    BY <1>1, <2>1 DEF Bridge!EnvelopeCorrelates
<1>3. /\ confirmation # Bridge!NoArtifact /\ confirmation.role = r
      /\ Bridge!Admission(r, 0) # Bridge!NoArtifact /\ Bridge!Admission(r, 0).role = r
      /\ Bridge!RoleResult(r, base + r) # Bridge!NoArtifact /\ Bridge!RoleResult(r, base + r).role = r
      /\ Bridge!Executed(r, base) # Bridge!NoArtifact /\ Bridge!Executed(r, base).role = r
  BY DEF Bridge!RoleConfirmation, Bridge!Admission, Bridge!RoleResult, Bridge!Executed,
     Bridge!ExecutionAudit, Bridge!NoArtifact
<1>4. /\ Bridge!Executed(r, base).outcome.effect = "succeeded"
      /\ Bridge!AuditStateIsClosed(Bridge!Executed(r, base).outcome)
  <2>1. Bridge!Executed(r, base).outcome = Bridge!Outcome("succeeded", base + r, base + r, TRUE)
    BY DEF Bridge!Executed, Bridge!ExecutionAudit
  <2>2. base + r # Bridge!None
    BY DEF Bridge!Roles, Bridge!None
  <2> QED
    BY <2>1, <2>2 DEF Bridge!Outcome, Bridge!AuditStateIsClosed, Bridge!DefinitelyLaunched
<1>5. /\ p["request"] = request
      /\ p["confirmation"] = IF stage >= 1 THEN confirmation ELSE Bridge!NoArtifact
      /\ p["admission"] = IF stage >= 2 THEN Bridge!Admission(r, 0) ELSE Bridge!NoArtifact
      /\ p["result"] = IF stage = 3 THEN Bridge!RoleResult(r, base + r) ELSE Bridge!NoArtifact
      /\ p["audit"] = IF stage = 3 THEN Bridge!Executed(r, base) ELSE Bridge!NoArtifact
  BY DEF Bridge!PastRole
<1>6. p = [k \in Bridge!Kinds |-> p[k]]
  BY DEF Bridge!PastRole, Bridge!Kinds
<1> HIDE DEF p, request, confirmation
<1> QED
  BY <1>1, <1>2, <1>3, <1>4, <1>5, <1>6 DEF p

\* The revision at which a role has reached a stage.
LEMMA PastPosition ==
    ASSUME NEW ended \in Nat, NEW extra \in 0..1, NEW i \in 1..(1 + 3 * ended + extra),
           NEW role, role = (i + 1) \div 3, NEW stage, stage = i + 2 - 3 * role
    PROVE  /\ role \in 0..(ended + extra) /\ stage \in 1..3
           /\ role = 0 => stage = 3
<1>1. /\ i + 1 \in Nat /\ role \in Int
      /\ 3 * role <= i + 1 /\ i + 1 < 3 * role + 3
  OBVIOUS
<1> QED
  BY <1>1

LEMMA BridgeCardinality ==
    ASSUME NEW S
    PROVE  Bridge!Cardinality(S) = Cardinality(S)
  BY DEF Bridge!Cardinality, Cardinality

LEMMA PastIsLegal ==
    ASSUME Independent \in Nat \ {0}, NEW base \in Nat, NEW i,
           NEW role \in 0..Bridge!ReportWriter, role = (i + 1) \div 3,
           NEW stage \in 1..3, stage = i + 2 - 3 * role, role = 0 => stage = 3
    PROVE  IsArt(Bridge!PastRevision(i, base).art)
               /\ Bridge!ExecutionProgression(Bridge!PastRevision(i, base))
<1> DEFINE rev == Bridge!PastRevision(i, base)
           art == rev.art
           ended == IF stage = 3 THEN role ELSE role - 1
           asked(r) == \/ r <= Independent
                       \/ r = Bridge!Adjudicator /\ ended >= Independent
                       \/ r = Bridge!ReportWriter /\ ended >= Bridge!Adjudicator
<1>1. /\ ended \in 0..Bridge!ReportWriter /\ ended <= role /\ role <= ended + 1
      /\ Bridge!ReportWriter = Independent + 2 /\ Bridge!Adjudicator = Independent + 1
      /\ Bridge!Roles = 1..Bridge!ReportWriter /\ Independent \in Nat \ {0}
  BY DEF Bridge!ReportWriter, Bridge!Adjudicator, Bridge!Roles
<1>2. /\ art = [r \in Bridge!Roles |-> art[r]]
      /\ \A r \in Bridge!Roles :
           art[r] = IF r <= ended THEN Bridge!PastRole(r, 3, base)
                    ELSE IF r = role THEN Bridge!PastRole(r, stage, base)
                    ELSE IF asked(r) THEN Bridge!PastRole(r, 0, base) ELSE Bridge!NoArtifacts
      /\ rev.status = IF stage = 2 THEN "in_progress"
                      ELSE IF stage = 1 \/ role = 0 THEN "approval_required"
                      ELSE Bridge!StatusAfterSuccess(role)
  BY DEF Bridge!PastRevision
<1> HIDE DEF rev, art
<1>3. Bridge!NoArtifacts = [k \in Bridge!Kinds |-> Bridge!NoArtifacts[k]]
          /\ \A k \in Bridge!Kinds : Bridge!NoArtifacts[k] = Bridge!NoArtifact
  BY DEF Bridge!NoArtifacts, Bridge!Kinds
<1> HIDE DEF ended
<1>4. ASSUME NEW r \in Bridge!Roles
      PROVE  /\ art[r] = [k \in Bridge!Kinds |-> art[r][k]]
             /\ Bridge!Has(art, r, "request") <=> asked(r)
             /\ Bridge!Has(art, r, "request") => art[r]["request"].role = r
                                          /\ Bridge!EnvelopeCorrelates(art[r]["request"])
             /\ Bridge!Has(art, r, "confirmation") <=> r <= role
             /\ Bridge!Has(art, r, "confirmation") => art[r]["confirmation"].role = r
             /\ Bridge!Has(art, r, "admission") <=> r <= ended \/ (r = role /\ stage = 2)
             /\ Bridge!Has(art, r, "admission") => art[r]["admission"].role = r
             /\ Bridge!Has(art, r, "result") <=> r <= ended
             /\ Bridge!Has(art, r, "result") => art[r]["result"].role = r
             /\ Bridge!Has(art, r, "audit") <=> r <= ended
             /\ Bridge!Has(art, r, "audit") => /\ art[r]["audit"].role = r
                                        /\ art[r]["audit"].outcome.effect = "succeeded"
                                        /\ Bridge!AuditStateIsClosed(art[r]["audit"].outcome)
  <2>1. r \in Nat \ {0} /\ r <= Bridge!ReportWriter
    BY <1>1
  <2>2. CASE r <= ended
    <3>1. art[r] = Bridge!PastRole(r, 3, base)
      BY <1>2, <2>2
    <3>2. asked(r) /\ r <= role
      BY <1>1, <2>1, <2>2
    <3> HIDE DEF asked
    <3> QED
      BY <2>2, <3>1, <3>2, PastRoleFits DEF Bridge!Has
  <2>3. CASE ~(r <= ended) /\ r = role
    <3>1. art[r] = Bridge!PastRole(r, stage, base) /\ stage \in 1..2 /\ r = ended + 1
      BY <1>1, <1>2, <2>3 DEF ended
    <3>2. asked(r) /\ r <= role
      BY <1>1, <2>1, <2>3, <3>1, SMTT(60)
    <3> HIDE DEF asked
    <3>3. stage \in 0..3 /\ stage >= 1 /\ stage # 3 /\ (stage >= 2 <=> stage = 2)
      BY <3>1
    <3> QED
      BY <2>3, <3>1, <3>2, <3>3, PastRoleFits DEF Bridge!Has
  <2>4. CASE ~(r <= ended) /\ r # role
    <3>1. ~(r <= role)
      BY <1>1, <2>1, <2>4
    <3>2. CASE asked(r)
      <4>1. art[r] = Bridge!PastRole(r, 0, base)
        BY <1>2, <2>4, <3>2
      <4> HIDE DEF asked
      <4> QED
        BY <2>4, <3>1, <3>2, <4>1, PastRoleFits DEF Bridge!Has
    <3>3. CASE ~asked(r)
      <4>1. art[r] = Bridge!NoArtifacts
        BY <1>2, <2>4, <3>3
      <4> HIDE DEF asked
      <4> QED
        BY <1>3, <2>4, <3>1, <3>3, <4>1 DEF Bridge!Has, Bridge!Kinds
    <3> QED
      BY <3>2, <3>3
  <2> QED
    BY <2>2, <2>3, <2>4
<1>5. IsArt(art)
  BY <1>2, <1>4 DEF IsArt
<1>6. \A r \in Bridge!Roles : Bridge!Succeeded(art, r) <=> r <= ended
  BY <1>4 DEF Bridge!Succeeded
<1>7. ASSUME NEW r \in Bridge!Roles PROVE Bridge!RoleIsComplete(art, r)
  <2>1. r <= ended => asked(r) /\ r <= role
    BY <1>1
  <2>2. (r <= role => asked(r)) /\ (r = role => r <= role)
    BY <1>1
  <2>3. Bridge!Has(art, r, "result") <=> Bridge!Has(art, r, "audit")
    BY <1>4
  <2>4. \A k \in Bridge!Kinds : Bridge!Has(art, r, k) => Bridge!Has(art, r, "request")
            /\ art[r][k].role = r
    <3> SUFFICES ASSUME NEW k \in Bridge!Kinds, Bridge!Has(art, r, k)
                 PROVE  asked(r) /\ art[r][k].role = r
      BY <1>4
    <3> HIDE DEF asked
    <3>1. CASE k = "request"
      BY <1>4, <3>1
    <3>2. CASE k = "confirmation"
      BY <1>4, <2>2, <3>2
    <3>3. CASE k = "admission"
      BY <1>4, <2>1, <2>2, <3>3
    <3>4. CASE k = "result"
      BY <1>4, <2>1, <3>4
    <3>5. CASE k = "audit"
      BY <1>4, <2>1, <3>5
    <3> QED
      BY <3>1, <3>2, <3>3, <3>4, <3>5 DEF Bridge!Kinds
  <2>5. Bridge!Has(art, r, "request") => Bridge!EnvelopeCorrelates(art[r].request)
    <3> HIDE DEF asked
    <3> QED
      BY <1>4, <1>5 DEF IsArt
  <2>6. Bridge!Has(art, r, "audit") => Bridge!AuditStateIsClosed(art[r].audit.outcome)
    <3>1. art[r].audit = art[r]["audit"]
      BY <1>5, KindsDiffer
    <3> QED
      BY <1>4, <3>1
  <2>7. Bridge!Has(art, r, "admission") => Bridge!Has(art, r, "confirmation")
    BY <1>4, <2>1, <2>2
  <2>8. Bridge!Has(art, r, "audit") => Bridge!Has(art, r, "admission")
    BY <1>4
  <2>9. Bridge!Succeeded(art, r) <=> Bridge!Has(art, r, "result")
    BY <1>4, <1>6
  <2> QED
    BY <2>3, <2>4, <2>5, <2>6, <2>7, <2>8, <2>9 DEF Bridge!RoleIsComplete
<1>8. Bridge!OpenAdmissions(art) \subseteq {role} /\ (stage # 2 => Bridge!OpenAdmissions(art) = {})
  BY <1>4 DEF Bridge!OpenAdmissions
<1>9. Bridge!SerialOrder(art)
  <2>1. ASSUME NEW r \in Bridge!Roles, Bridge!Succeeded(art, r) \/ Bridge!Has(art, r,
                   "admission"), NEW p \in Bridge!Prior(r)
        PROVE  Bridge!Succeeded(art, p)
    <3>1. p \in Bridge!Roles /\ p < r
      BY <1>1 DEF Bridge!Prior
    <3>2. r <= role
      <4>1. r <= ended \/ r = role
        BY <1>4, <1>6, <2>1
      <4> QED
        BY <1>1, <4>1
    <3>3. p <= ended
      BY <1>1, <3>1, <3>2
    <3> QED
      BY <1>6, <3>1, <3>3
  <2>2. Cardinality(Bridge!OpenAdmissions(art)) <= 1
    <3>1. Bridge!OpenAdmissions(art) = {} \/ Bridge!OpenAdmissions(art) = {role}
      BY <1>8
    <3> QED
      <4>1. CASE Bridge!OpenAdmissions(art) = {}
        BY <4>1, FS_EmptySet
      <4>2. CASE Bridge!OpenAdmissions(art) = {role}
        <5>1. Cardinality({role}) = 1
          BY FS_Singleton
        <5> QED
          BY <4>2, <5>1
      <4> QED
        BY <3>1, <4>1, <4>2
  <2> QED
    BY <2>1, <2>2, BridgeCardinality DEF Bridge!SerialOrder
<1>10. Bridge!StatusAgrees(art, rev.status)
  <2>1. Bridge!OpenAdmissions(art) # {} => rev.status \in Bridge!OpenStatuses
    BY <1>2, <1>8 DEF Bridge!OpenStatuses
  <2>2. Bridge!Has(art, Bridge!Adjudicator, "request")
            <=> \A r \in 1..Independent : Bridge!Succeeded(art, r)
    <3>1. Bridge!Has(art, Bridge!Adjudicator, "request") <=> ended >= Independent
      <4>1. Bridge!Has(art, Bridge!Adjudicator, "request") <=> asked(Bridge!Adjudicator)
        <5>1. Bridge!Adjudicator \in Bridge!Roles
          BY <1>1
        <5> HIDE DEF asked
        <5> QED
          BY <1>4, <5>1
      <4> QED
        BY <1>1, <4>1
    <3>2. (\A r \in 1..Independent : Bridge!Succeeded(art, r)) <=> ended >= Independent
      BY <1>1, <1>6
    <3> QED
      BY <3>1, <3>2
  <2>3. Bridge!Has(art, Bridge!ReportWriter, "request") <=> Bridge!Succeeded(art, Bridge!Adjudicator)
    <3>1. Bridge!Has(art, Bridge!ReportWriter, "request") <=> asked(Bridge!ReportWriter)
      <4>1. Bridge!ReportWriter \in Bridge!Roles
        BY <1>1
      <4> HIDE DEF asked
      <4> QED
        BY <1>4, <4>1
    <3>2. Bridge!Succeeded(art, Bridge!Adjudicator) <=> ended >= Bridge!Adjudicator
      BY <1>1, <1>6
    <3> QED
      BY <1>1, <3>1, <3>2
  <2>4. rev.status = "succeeded" <=> \A r \in Bridge!Roles : Bridge!Succeeded(art, r)
    <3>1. (\A r \in Bridge!Roles : Bridge!Succeeded(art, r)) <=> ended = Bridge!ReportWriter
      BY <1>1, <1>6
    <3>2. rev.status = "succeeded" <=> stage = 3 /\ role = Bridge!ReportWriter
      BY <1>1, <1>2 DEF Bridge!StatusAfterSuccess, Bridge!Dependent, Bridge!None
    <3>3. (stage = 3 /\ role = Bridge!ReportWriter) <=> ended = Bridge!ReportWriter
      BY <1>1 DEF ended
    <3> QED
      BY <3>1, <3>2, <3>3
  <2> QED
    BY <2>1, <2>2, <2>3, <2>4 DEF Bridge!StatusAgrees
<1>11. IsArt(rev.art) /\ Bridge!ExecutionProgression(rev)
  BY <1>5, <1>7, <1>9, <1>10 DEF Bridge!ExecutionProgression, art
<1> QED
  BY <1>11 DEF rev

LEMMA BridgeInit ==
    ASSUME Independent \in Nat \ {0}, Bridge!BridgeConstants, Bridge!Init
    PROVE  BridgeInv
<1>1. PICK s \in Scenarios : Bridge!StartsWith(s.runs)
  BY DEF Bridge!Init
<1> DEFINE runs == s.runs
           revisions(run) == 1 + 3 * runs[run].done + IF runs[run].confirmed THEN 1 ELSE 0
           S == {Bridge!PastRevision(i, b) : i \in Nat, b \in Nat}
<1>2. /\ DOMAIN runs \subseteq Runs
      /\ \A run \in DOMAIN runs :
           /\ runs[run].done \in 0..Bridge!ReportWriter /\ runs[run].base \in Nat
           /\ runs[run].confirmed \in BOOLEAN
           /\ runs[run].confirmed => runs[run].done < Bridge!ReportWriter
  BY DEF Bridge!BridgeConstants
<1>3. /\ revs = [run \in Runs |-> IF run \in DOMAIN runs THEN Bridge!Past(runs[run]) ELSE <<>>]
      /\ pointer = [run \in Runs |-> IF run \in DOMAIN runs THEN Len(Bridge!Past(runs[run])) ELSE 0]
  BY <1>1 DEF Bridge!StartsWith
<1>4. ASSUME NEW run \in DOMAIN runs
      PROVE  /\ Bridge!Past(runs[run]) \in Seq(S) /\ revisions(run) \in Nat
             /\ Len(Bridge!Past(runs[run])) = revisions(run)
             /\ \A i \in 1..revisions(run) :
                  Bridge!Past(runs[run])[i] = Bridge!PastRevision(i, runs[run].base)
  <2>1. revisions(run) \in Nat
    BY <1>2 DEF Bridge!ReportWriter
  <2>2. Bridge!Past(runs[run]) = [i \in 1..revisions(run) |-> Bridge!PastRevision(i, runs[run].base)]
    BY DEF Bridge!Past
  <2> HIDE DEF revisions
  <2>3. Bridge!Past(runs[run]) \in [1..revisions(run) -> S]
    BY <1>2, <2>1, <2>2
  <2> HIDE DEF S
  <2>4. Bridge!Past(runs[run]) \in Seq(S) /\ Len(Bridge!Past(runs[run])) = revisions(run)
    BY <2>1, <2>3
  <2> QED
    BY <2>1, <2>2, <2>4
<1>5. ASSUME NEW run \in Runs, NEW i \in 1..Len(revs[run])
      PROVE  IsArt(revs[run][i].art) /\ Bridge!ExecutionProgression(revs[run][i])
  <2>1. CASE run \in DOMAIN runs
    <3> DEFINE extra == IF runs[run].confirmed THEN 1 ELSE 0
               role == (i + 1) \div 3
               stage == i + 2 - 3 * role
    <3>1. /\ i \in 1..(1 + 3 * runs[run].done + extra)
          /\ revs[run][i] = Bridge!PastRevision(i, runs[run].base)
      <4>1. revs[run] = Bridge!Past(runs[run])
        BY <1>3, <2>1
      <4>2. i \in 1..revisions(run) /\ revs[run][i] = Bridge!PastRevision(i, runs[run].base)
        <5> HIDE DEF revisions, S, runs
        <5>1. i \in 1..revisions(run)
          BY <1>4, <2>1, <4>1
        <5> QED
          BY <1>4, <2>1, <4>1, <5>1
      <4> QED
        BY <4>2
    <3>2. runs[run].done \in Nat /\ extra \in 0..1 /\ runs[run].done + extra <= Bridge!ReportWriter
      BY <1>2, <2>1 DEF Bridge!ReportWriter
    <3> HIDE DEF extra
    <3>3. role = (i + 1) \div 3 /\ stage = i + 2 - 3 * role
      OBVIOUS
    <3> HIDE DEF role, stage
    <3>4. role \in 0..(runs[run].done + extra) /\ stage \in 1..3 /\ (role = 0 => stage = 3)
      BY ONLY <3>1, <3>2, <3>3, PastPosition
    <3>5. role \in 0..Bridge!ReportWriter
      BY <3>2, <3>4 DEF Bridge!ReportWriter
    <3> QED
      BY <1>2, <2>1, <3>1, <3>3, <3>4, <3>5, PastIsLegal
  <2>2. CASE run \notin DOMAIN runs
    BY <1>3, <2>2
  <2> QED
    BY <2>1, <2>2
<1>6. Shapes
  <2>1. revs \in [Runs -> Seq(S)]
    <3> HIDE DEF S, revisions
    <3>1. <<>> \in Seq(S)
      OBVIOUS
    <3> QED
      BY <1>3, <1>4, <3>1
  <2>2. pointer \in [Runs -> Nat] /\ \A run \in Runs : pointer[run] = Len(revs[run])
    <3> HIDE DEF S, revisions
    <3> QED
      BY <1>3, <1>4
  <2>3. /\ lock \in [Runs \cup {"identities", "identifiers"} -> Callers \cup {NoOne}]
        /\ client = [c \in Callers |-> client[c]]
        /\ launches \in Seq([run : Runs, role : Bridge!Roles])
    BY DEF Bridge!Init
  <2>4. \E T : revs \in [Runs -> Seq(T)]
    <3> HIDE DEF S
    <3> QED
      BY <2>1
  <2>5. \A run \in Runs : pointer[run] <= Len(revs[run]) /\ Len(revs[run]) <= pointer[run] + 1
    BY <2>2
  <2> QED
    BY <2>2, <2>3, <2>4, <2>5 DEF Shapes
<1>7. \A c \in Callers : client[c] = Bridge!Idle
  BY DEF Bridge!Init
<1>8. CallsFit
  <2>1. Bridge!Idle.pc = "idle" /\ ~Entitled(Bridge!Idle) /\ CallFits(Bridge!Idle)
    BY DEF Bridge!Idle, Entitled, CallFits, Pcs, Confirms, Examines, Publishes, Commits, Executes
  <2> QED
    BY <1>7, <2>1 DEF CallsFit, Holds, Commits
<1>9. ClaimsDiffer
  BY <1>7 DEF ClaimsDiffer, Bridge!Idle
<1>10. LaunchesAreOk
  BY DEF Bridge!Init, LaunchesAreOk
<1> QED
  BY <1>5, <1>6, <1>8, <1>9, <1>10 DEF BridgeInv, RevisionsServe

-----------------------------------------------------------------------------
(* Every step keeps the invariant.                                          *)

LEMMA BridgeStep ==
    ASSUME Independent \in Nat \ {0}, Bridge!BridgeConstants, BridgeInv, [Bridge!Next]_(Bridge!vars)
    PROVE  BridgeInv'
<1>1. CASE UNCHANGED Bridge!vars
  <2>1. /\ revs' = revs /\ pointer' = pointer /\ lock' = lock /\ client' = client
        /\ launches' = launches
    BY <1>1 DEF Bridge!vars
  <2>2. Shapes' /\ RevisionsServe' /\ ClaimsDiffer' /\ LaunchesAreOk'
    BY <2>1 DEF BridgeInv, Shapes, RevisionsServe, ClaimsDiffer, Entitled, LaunchesAreOk,
                OnRecord, Bridge!Revision
  <2>3. CallsFit'
    <3>1. ASSUME NEW c \in Callers, NEW me, me = client[c]
          PROVE  CallFits(me)' /\ Holds(c, me)'
      <4>1. CallFits(me)' <=> CallFits(me)
        BY <2>1 DEF CallFits, HasRead, Proposes, NoAuditYet, Launched, OnRecord, Bridge!Revision
      <4>2. Holds(c, me)' <=> Holds(c, me)
        BY <2>1 DEF Holds
      <4> QED
        BY <3>1, <4>1, <4>2 DEF BridgeInv, CallsFit
    <3> QED
      BY <2>1, <3>1 DEF CallsFit
  <2> QED
    BY <2>2, <2>3 DEF BridgeInv
<1>2. ASSUME NEW c \in Callers, Bridge!Api(c) PROVE BridgeInv'
  BY <1>2, PrepareRunKeeps, ConfirmRoleKeeps, ExecuteConfirmedRoleKeeps DEF Bridge!Api
<1>3. ASSUME NEW c \in Callers, Bridge!Confirming(c) PROVE BridgeInv'
  BY <1>3, ConfirmingKeeps, PublishConfirmationKeeps DEF Bridge!Confirming
<1>4. ASSUME NEW c \in Callers, Bridge!Executing(c) PROVE BridgeInv'
  BY <1>4, AcquireHistoryKeeps, AdmitRoleRequestKeeps, ReadAdmissionKeeps, LaunchKeeps,
     ReservingKeeps, PublishExecutionKeeps DEF Bridge!Executing
<1>5. ASSUME NEW c \in Callers, Bridge!Publishing(c) PROVE BridgeInv'
  BY <1>5, PublishChecksKeeps, AdoptOrphanKeeps, StageRevisionKeeps, PublishPointerKeeps,
     ReplayKeeps, AnswerKeeps DEF Bridge!Publishing
<1>6. ASSUME NEW c \in Callers, Bridge!Faulty(c) PROVE BridgeInv'
  BY <1>6, AnswerKeeps, ReservingKeeps DEF Bridge!Faulty
<1> QED
  BY <1>1, <1>2, <1>3, <1>4, <1>5, <1>6 DEF Bridge!Next

\* One admission is open at most: that of the role under way.
LEMMA OneIsOpen ==
    ASSUME Independent \in Nat \ {0}, NEW art, Cardinality(Bridge!OpenAdmissions(art)) <= 1,
           NEW role \in Bridge!OpenAdmissions(art)
    PROVE  Bridge!OpenAdmissions(art) = {role}
<1>1. IsFiniteSet(Bridge!OpenAdmissions(art))
  <2>1. IsFiniteSet(Bridge!Roles)
    BY FS_Interval DEF Bridge!Roles
  <2> QED
    BY <2>1, FS_Subset DEF Bridge!OpenAdmissions
<1>2. Cardinality({role}) = 1 /\ {role} \in SUBSET Bridge!OpenAdmissions(art)
  BY FS_Singleton
<1>3. Cardinality({role}) <= Cardinality(Bridge!OpenAdmissions(art))
  BY <1>1, <1>2, FS_Subset
<1>4. Cardinality(Bridge!OpenAdmissions(art)) \in Nat
  BY <1>1, FS_CardinalityType
<1>5. Cardinality(Bridge!OpenAdmissions(art)) = Cardinality({role})
  BY <1>2, <1>3, <1>4
<1> QED
  BY <1>1, <1>2, <1>5, FS_Subset

\* What the invariant says of an execution under way.
LEMMA TurnIsSerial ==
    ASSUME Independent \in Nat \ {0}, BridgeInv, NEW c \in Callers, client[c].pc \in Executes
    PROVE  LET cur == Bridge!Revision(client[c].run) IN
           /\ cur.status \in Bridge!OpenStatuses
           /\ \A p \in Bridge!Prior(client[c].role) : Bridge!Has(cur.art, p, "result")
           /\ Bridge!OpenAdmissions(cur.art) = {client[c].role}
<1>1. PICK me : me = client[c]
  OBVIOUS
<1> DEFINE cur == Bridge!Revision(me.run)
<1>2. /\ me.pc # "idle" /\ IsCall(me) /\ me.run \in Runs /\ me.token \in Nat
      /\ me.role \in Bridge!Roles /\ me.token # Bridge!None /\ me.token <= Len(launches)
      /\ launches[me.token] = [run |-> me.run, role |-> me.role]
      /\ NoAuditYet(me.run, me.role)
  <2>1. CallFits(me) /\ me.pc \in Executes
    BY <1>1 DEF BridgeInv, CallsFit
  <2>2. me.pc # "idle"
    BY <2>1 DEF Executes
  <2> QED
    BY <2>1, <2>2 DEF CallFits, IsCall
<1>3. OnRecord(me.run, me.role)
  <2>1. me.token \in DOMAIN launches
    <3>1. launches \in Seq([run : Runs, role : Bridge!Roles])
      BY DEF BridgeInv, Shapes
    <3> QED
      BY <1>2, <3>1 DEF Bridge!None
  <2>2. \A l \in {launches[me.token]} : OnRecord(l.run, l.role)
    BY <2>1 DEF BridgeInv, LaunchesAreOk
  <2> QED
    BY <1>2, <2>2
<1>4. pointer[me.run] \in 1..Len(revs[me.run]) /\ Bridge!Has(cur.art, me.role, "admission")
      /\ cur = revs[me.run][pointer[me.run]]
  <2>1. pointer[me.run] \in Nat /\ pointer[me.run] <= Len(revs[me.run])
    BY <1>2 DEF BridgeInv, Shapes
  <2> QED
    BY <1>2, <1>3, <2>1, StoreTypes DEF OnRecord, Bridge!Revision
<1>5. ~Bridge!Has(cur.art, me.role, "audit")
  BY <1>2, <1>4 DEF NoAuditYet
<1>6. Bridge!ExecutionProgression(cur)
  BY <1>2, <1>4 DEF BridgeInv, RevisionsServe
<1> HIDE DEF cur
<1>7. Bridge!OpenAdmissions(cur.art) = {me.role}
  <2>1. me.role \in Bridge!OpenAdmissions(cur.art)
    BY <1>2, <1>4, <1>5 DEF Bridge!OpenAdmissions
  <2>2. Cardinality(Bridge!OpenAdmissions(cur.art)) <= 1
    BY <1>6, BridgeCardinality DEF Bridge!ExecutionProgression, Bridge!SerialOrder
  <2> QED
    BY <2>1, <2>2, OneIsOpen
<1>8. cur.status \in Bridge!OpenStatuses
  BY <1>6, <1>7 DEF Bridge!ExecutionProgression, Bridge!StatusAgrees
<1>9. ASSUME NEW p \in Bridge!Prior(me.role) PROVE Bridge!Has(cur.art, p, "result")
  <2>1. p \in Bridge!Roles
    BY <1>2 DEF Bridge!Prior, Bridge!Roles
  <2>2. Bridge!Succeeded(cur.art, p)
    BY <1>2, <1>4, <1>6 DEF Bridge!ExecutionProgression, Bridge!SerialOrder
  <2>3. Bridge!RoleIsComplete(cur.art, p)
    BY <1>6, <2>1 DEF Bridge!ExecutionProgression
  <2>4. Bridge!Has(cur.art, p, "audit")
    BY <2>2 DEF Bridge!Succeeded
  <2> QED
    BY <2>2, <2>3, <2>4 DEF Bridge!RoleIsComplete
<1> QED
  BY <1>1, <1>7, <1>8, <1>9 DEF cur

LEMMA SerialFollows ==
    ASSUME Independent \in Nat \ {0}, BridgeInv
    PROVE  Bridge!ExecutionIsSerial
<1>1. Bridge!LaunchedOnceOnRecord
  BY DEF BridgeInv, LaunchesAreOk, OnRecord, Bridge!LaunchedOnceOnRecord
<1>2. ASSUME NEW c \in Callers, client[c].pc \in Executes,
             NEW d \in Callers \ {c}, Bridge!At(d, "transport")
      PROVE  client[d].run # client[c].run
  <2>1. client[d].pc \in Executes /\ d \in Callers /\ c # d
    BY <1>2 DEF Bridge!At, Executes
  <2>2. client[c].run # client[d].run \/ client[c].role # client[d].role
    <3>1. ASSUME NEW x \in Callers, client[x].pc \in Executes
          PROVE  client[x].pc # "idle" /\ client[x].token # Bridge!None
      <4>1. CallFits(client[x])
        BY <3>1 DEF BridgeInv, CallsFit
      <4> QED
        BY <3>1, <4>1 DEF CallFits, Executes
    <3> QED
      BY <1>2, <2>1, <3>1, OneExecution
  <2>3. /\ Bridge!OpenAdmissions(Bridge!Revision(client[c].run).art) = {client[c].role}
        /\ Bridge!OpenAdmissions(Bridge!Revision(client[d].run).art) = {client[d].role}
    BY <1>2, <2>1, TurnIsSerial
  <2> QED
    BY <2>2, <2>3
<1>3. Bridge!TurnsAreSerial
  BY <1>2, TurnIsSerial DEF Bridge!TurnsAreSerial, Executes
<1> QED
  BY <1>1, <1>3 DEF Bridge!ExecutionIsSerial

-----------------------------------------------------------------------------
(* What a run has published stays.                                          *)

RunGrows(run) ==
    /\ pointer'[run] >= pointer[run]
    /\ \A i \in 1..pointer[run] : revs'[run][i] = revs[run][i]
    /\ (pointer[run] > 0 /\ Bridge!Revision(run).status \in Bridge!TerminalStatuses)
         => pointer'[run] = pointer[run]

LEMMA StoreStays ==
    ASSUME BridgeInv, UNCHANGED Bridge!store, NEW run \in Runs
    PROVE  RunGrows(run)
  BY DEF BridgeInv, Shapes, Bridge!store, RunGrows

\* Only a revision that a legal child succeeds becomes a former one.
LEMMA PointerGrows ==
    ASSUME BridgeInv, NEW c \in Callers, Bridge!PublishPointer(c) \/ Bridge!AdoptOrphan(c),
               NEW run \in Runs
    PROVE  RunGrows(run)
<1>1. PICK me : me = client[c]
  OBVIOUS
<1>2. me.pc \in Commits /\ revs' = revs
  BY <1>1 DEF Bridge!PublishPointer, Bridge!AdoptOrphan, Bridge!At, Commits
<1>3. CallFits(me) /\ me.pc # "idle"
  BY <1>1, <1>2 DEF BridgeInv, CallsFit, Commits
<1>4. /\ me.request.run = me.run /\ me.run \in Runs
      /\ pointer[me.run] > 0 => Bridge!SuccessorSemantics(Bridge!Revision(me.run), me.request.rev)
  BY <1>2, <1>3 DEF CallFits, Proposes, IsCall, Commits, Publishes
<1>5. pointer' = pointer \/ pointer' = [pointer EXCEPT ![me.run] = @ + 1]
  BY <1>1, <1>4 DEF Bridge!PublishPointer, Bridge!AdoptOrphan
<1>6. pointer \in [Runs -> Nat]
  BY DEF BridgeInv, Shapes
<1>7. pointer[me.run] > 0 => Bridge!Revision(me.run).status \notin Bridge!TerminalStatuses
  BY <1>4 DEF Bridge!SuccessorSemantics, Bridge!OpenStatuses, Bridge!TerminalStatuses
<1> QED
  BY <1>2, <1>4, <1>5, <1>6, <1>7 DEF RunGrows

LEMMA StagingGrows ==
    ASSUME BridgeInv, NEW c \in Callers, Bridge!StageRevision(c), NEW run \in Runs
    PROVE  RunGrows(run)
<1>1. PICK me : me = client[c]
  OBVIOUS
<1>2. CallFits(me) /\ me.pc = "stage"
  BY <1>1 DEF BridgeInv, CallsFit, Bridge!StageRevision, Bridge!At
<1>3. me.request.run = me.run /\ me.run \in Runs
  BY <1>2 DEF CallFits, Proposes, IsCall, Publishes
<1>4. /\ revs' = [revs EXCEPT ![me.run] = Append(@, me.request.rev)] /\ pointer' = pointer
  BY <1>1, <1>3 DEF Bridge!StageRevision
<1>5. pointer[run] \in Nat /\ pointer[run] <= Len(revs[run]) /\ Len(revs[run]) \in Nat
  BY StoreTypes DEF BridgeInv, Shapes
<1>6. ASSUME NEW i \in 1..Len(revs[run]) PROVE revs'[run][i] = revs[run][i]
  BY <1>3, <1>4, StagedRevisions
<1> QED
  BY <1>4, <1>5, <1>6 DEF RunGrows

LEMMA RunsGrow ==
    ASSUME BridgeInv, Bridge!Next, NEW run \in Runs
    PROVE  RunGrows(run)
<1>1. PICK c \in Callers : Bridge!Api(c) \/ Bridge!Confirming(c) \/ Bridge!Executing(c)
               \/ Bridge!Publishing(c) \/ Bridge!Faulty(c)
  BY DEF Bridge!Next
<1>2. CASE Bridge!PublishPointer(c) \/ Bridge!AdoptOrphan(c)
  BY <1>2, PointerGrows
<1>3. CASE Bridge!StageRevision(c)
  BY <1>3, StagingGrows
<1>4. CASE ~(Bridge!PublishPointer(c) \/ Bridge!AdoptOrphan(c) \/ Bridge!StageRevision(c))
  <2>1. CASE Bridge!Api(c)
    BY <2>1, StoreStays DEF Bridge!Api, Bridge!PrepareRun, Bridge!ConfirmRole,
       Bridge!ExecuteConfirmedRole
  <2>2. CASE Bridge!Confirming(c)
    BY <2>2, StoreStays DEF Bridge!Confirming, Bridge!ClaimConfirmationIdentifiers,
       Bridge!CreateIdentifierClaim,
                            Bridge!WriteIdentifierClaim, Bridge!PublishConfirmation
  <2>3. CASE Bridge!Executing(c)
    BY <2>3, StoreStays DEF Bridge!Executing, Bridge!AcquireHistory, Bridge!AdmitRoleRequest,
       Bridge!ReadAdmission, Bridge!Launch,
                            Bridge!TransportAnswered, Bridge!ClaimExecutionIdentity,
                            Bridge!CreateIdentityClaim,
                            Bridge!WriteIdentityClaim, Bridge!IdentityReserved,
                            Bridge!PublishExecution
  <2>4. CASE Bridge!Publishing(c)
    BY <1>4, <2>4, StoreStays DEF Bridge!Publishing, Bridge!PublishChecks, Bridge!Replay,
       Bridge!Answer
  <2>5. CASE Bridge!Faulty(c)
    BY <2>5, StoreStays DEF Bridge!Faulty, Bridge!Crash, Bridge!ClaimWriteError
  <2> QED
    BY <1>1, <2>1, <2>2, <2>3, <2>4, <2>5
<1> QED
  BY <1>2, <1>3, <1>4

-----------------------------------------------------------------------------

\* For any number of callers, runs and independent roles, whatever crashes and
\* however the calls interleave: every role runs once, on record and in its turn
\* (execute_confirmed_role, publish, assert_no_replay).
THEOREM BridgeIsSerial ==
    ASSUME Independent \in Nat \ {0}, Bridge!BridgeConstants
    PROVE  Bridge!Spec => []Bridge!ExecutionIsSerial
<1>1. Bridge!Init => BridgeInv
  BY BridgeInit
<1>2. BridgeInv /\ [Bridge!Next]_(Bridge!vars) => BridgeInv'
  BY BridgeStep
<1>3. BridgeInv => Bridge!ExecutionIsSerial
  BY SerialFollows
<1> QED
  BY <1>1, <1>2, <1>3, PTL DEF Bridge!Spec

\* Published revisions are never rewritten, a run's pointer never moves back, and
\* a run with a terminal status never changes (publish, _adopt_orphan).
THEOREM BridgeRunsGrow ==
    ASSUME Independent \in Nat \ {0}, Bridge!BridgeConstants
    PROVE  Bridge!Spec => Bridge!RunsOnlyGrow
<1>1. Bridge!Init => BridgeInv
  BY BridgeInit
<1>2. BridgeInv /\ [Bridge!Next]_(Bridge!vars) => BridgeInv'
  BY BridgeStep
<1>3. BridgeInv /\ [Bridge!Next]_(Bridge!vars) =>
        [\A run \in Runs :
           /\ pointer'[run] >= pointer[run]
           /\ \A i \in 1..pointer[run] : revs'[run][i] = revs[run][i]
           /\ (pointer[run] > 0 /\ Bridge!Revision(run).status \in Bridge!TerminalStatuses)
                => pointer'[run] = pointer[run]]_(Bridge!vars)
  BY RunsGrow DEF RunGrows
<1> QED
  BY <1>1, <1>2, <1>3, PTL DEF Bridge!Spec, Bridge!RunsOnlyGrow
=============================================================================

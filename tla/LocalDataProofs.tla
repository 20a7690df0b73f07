-------------------------- MODULE LocalDataProofs ---------------------------
(***************************************************************************)
(* Proofs about the local data: the initialization of a revision root, for *)
(* any number of processes, failures and crashes; the copy migration of a  *)
(* flat run, for any number of processes and of writes beside them; and    *)
(* the cleanup of a finished run, for any number of executors, plans and   *)
(* entries, whatever fails, crashes or changes between their steps.        *)
(***************************************************************************)
EXTENDS MCLocalData, FiniteSetTheorems, WellFoundedInduction, TLAPS

-----------------------------------------------------------------------------
(* The revision root: types.                                               *)

RootIds == {r.id : r \in RootRequests}

RootState ==
    [exists : BOOLEAN, authority : BOOLEAN,
     owner : {<<>>} \cup {<<r>> : r \in RootRequests},
     control : BOOLEAN, runs : BOOLEAN,
     owners : SUBSET [request : RootRequests, whole : BOOLEAN],
     controls : SUBSET [id : RootIds, locks : BOOLEAN], runses : SUBSET RootIds]

RootRequest == RootRequests \cup {Root!NoRequest}

RootCall ==
    [kind : {"none", "initialize", "reconcile"}, request : RootRequest,
     look : RootState, created : BOOLEAN]

\* The places under the authority lock.
RootLocked == Root!Building \cup {"locked"}
RootPlace == RootLocked \cup {"idle", "preflight", "acquire"}

RootCode ==
    {"none", "initialized", "already_initialized", "run_namespace_conflict",
     "root_initialization_incomplete", "run_locked", "lock_unavailable",
     "reconciliation_required", "transaction_write_failed",
     "transaction_verification_failed", "transaction_publish_failed", "reconcile_me"}

RootAnswer ==
    [code : RootCode, effect : {"none", "control_only"}, request : RootRequest]

RootType ==
    /\ rroot \in RootState
    /\ rlock \in Callers \cup {"none"}
    /\ rpc \in [Callers -> RootPlace]
    /\ rloc \in [Callers -> RootCall]
    /\ ranswer \in [Callers -> RootAnswer]
    /\ changed \in [Callers -> BOOLEAN]

-----------------------------------------------------------------------------
(* The inductive invariant of the root.                                    *)

\* No temporary entry.
Clean == rroot.owners = {} /\ rroot.controls = {} /\ rroot.runses = {}

\* Every temporary entry carries this identity.
OnlyOf(id) ==
    /\ \A o \in rroot.owners : o.request.id = id
    /\ \A c \in rroot.controls : c.id = id
    /\ rroot.runses \subseteq {id}

\* What is on the disk, whoever works on it.
RootShape ==
    /\ rroot.owner # <<>> =>
          rroot.exists /\ rroot.authority /\ rroot.control /\ rroot.runs /\ Clean
    /\ rroot.owner = <<>> /\ Clean => ~rroot.control /\ ~rroot.runs
    /\ ~Clean => \E id \in RootIds : OnlyOf(id)

\* What the root looks like at each place under the lock.
UnderWay(p) ==
    LET req == rloc[p].request
    IN  /\ rpc[p] \in RootLocked => rlock = p /\ rroot.exists /\ rroot.authority
        /\ rpc[p] \in Root!Building \ {"final"} => rroot.owner = <<>>
        /\ rpc[p] = "ownership" => Clean
        /\ rpc[p] = "write" =>
              /\ rroot.owners = {[request |-> req, whole |-> FALSE]}
              /\ rroot.controls = {} /\ rroot.runses = {}
        /\ rpc[p] \in {"control_temp", "locks_temp", "runs_temp", "control_rename", "runs_rename"} =>
              rroot.owners = {[request |-> req, whole |-> TRUE]}
        /\ rpc[p] = "control_temp" => rroot.controls = {} /\ rroot.runses = {}
        /\ rpc[p] = "locks_temp" =>
              rroot.controls = {[id |-> req.id, locks |-> FALSE]} /\ rroot.runses = {}
        /\ rpc[p] = "runs_temp" =>
              rroot.controls = {[id |-> req.id, locks |-> TRUE]} /\ rroot.runses = {}
        /\ rpc[p] = "control_rename" =>
              rroot.controls = {[id |-> req.id, locks |-> TRUE]} /\ rroot.runses = {req.id}
        /\ rpc[p] = "runs_rename" =>
              rroot.control /\ rroot.controls = {} /\ rroot.runses = {req.id}
        /\ rpc[p] \in {"reconcile_control", "reconcile_runs", "marker_replace"} =>
              rroot.owners # {} /\ OnlyOf(req.id)
        /\ rpc[p] \in {"reconcile_control", "reconcile_runs"} /\ rroot.runs => rroot.runses = {}
        /\ rpc[p] = "reconcile_runs" => rroot.control /\ rroot.controls = {}
        /\ rpc[p] = "marker_replace" =>
              /\ rroot.control /\ rroot.controls = {}
              /\ rroot.runs /\ rroot.runses = {}
        /\ rpc[p] = "final" => rroot.owner = <<req>>

\* A call has a request and no answer yet; an owned root is not changed before the lock is
\* taken, nor by a call that finds it owned.
CallHolds(p) ==
    /\ rpc[p] # "idle" => rloc[p].request \in RootRequests /\ ranswer[p].code = "none"
    /\ rpc[p] \in {"preflight", "acquire"} => ~changed[p]
    /\ rpc[p] = "locked" /\ changed[p] => rroot.owner = <<>>

\* Root!RootAnswersAreTrue, of one process.
AnswerTrue(p) ==
    /\ ranswer[p].code \in {"initialized", "already_initialized"}
          => rroot.owner = <<ranswer[p].request>>
    /\ ranswer[p].code # "none" /\ ranswer[p].effect = "none" => ~changed[p]

RootInv ==
    /\ RootType
    /\ RootShape
    /\ \A p \in Callers : UnderWay(p) /\ CallHolds(p) /\ AnswerTrue(p)

-----------------------------------------------------------------------------
(* What a step leaves of the others, and how a call ends.                  *)

\* A process keeps what it knows when the root is not changed, or when it is
\* changed outside the process's own turn and its owner stays.
LEMMA OthersHold ==
    ASSUME NEW q \in Callers, UnderWay(q), CallHolds(q), AnswerTrue(q),
           rpc'[q] = rpc[q], rloc'[q] = rloc[q], changed'[q] = changed[q],
           ranswer'[q] = ranswer[q],
           \/ rroot' = rroot
           \/ /\ rpc[q] \notin RootLocked
              /\ rroot.owner # <<>> => rroot'.owner = rroot.owner,
           rpc[q] \in RootLocked => rlock' = q
    PROVE  UnderWay(q)' /\ CallHolds(q)' /\ AnswerTrue(q)'
<1>1. CASE rroot' = rroot
  <2>1. Clean' <=> Clean
    BY <1>1 DEF Clean
  <2>2. \A id : OnlyOf(id)' <=> OnlyOf(id)
    BY <1>1 DEF OnlyOf
  <2>3. UnderWay(q)'
    BY <1>1, <2>1, <2>2 DEF UnderWay
  <2>4. CallHolds(q)' /\ AnswerTrue(q)'
    BY <1>1 DEF CallHolds, AnswerTrue
  <2> QED BY <2>3, <2>4
<1>2. CASE rpc[q] \notin RootLocked /\ (rroot.owner # <<>> => rroot'.owner = rroot.owner)
  <2>1. UnderWay(q)'
    BY <1>2 DEF UnderWay, RootLocked, Root!Building
  <2>2. CallHolds(q)'
    BY <1>2 DEF CallHolds, RootLocked
  <2>3. AnswerTrue(q)'
    <3>1. \A x : <<x>> # <<>>
      OBVIOUS
    <3> DEFINE r == ranswer[q].request
    <3>2. ranswer[q].code \in {"initialized", "already_initialized"} => rroot'.owner = <<r>>
      BY <1>2, <3>1 DEF AnswerTrue
    <3> QED BY <3>2 DEF AnswerTrue
  <2> QED BY <2>1, <2>2, <2>3
<1> QED BY <1>1, <1>2

\* Who is under the lock has it.
LEMMA LockedHasIt ==
    ASSUME RootInv, NEW p \in Callers, rpc[p] \in RootLocked
    PROVE  /\ rlock = p
           /\ \A q \in Callers : q # p => rpc[q] \notin RootLocked
  BY DEF RootInv, UnderWay

\* A step of p that leaves the root as it is.
LEMMA RootUntouched ==
    ASSUME RootInv, NEW p \in Callers, rroot' = rroot, RootType',
           \A q \in Callers : q # p =>
              /\ rpc'[q] = rpc[q] /\ rloc'[q] = rloc[q] /\ changed'[q] = changed[q]
              /\ ranswer'[q] = ranswer[q] /\ (rlock = q => rlock' = q),
           UnderWay(p)', CallHolds(p)', AnswerTrue(p)'
    PROVE  RootInv'
<1>1. RootShape'
  BY DEF RootInv, RootShape, Clean, OnlyOf
<1>2. ASSUME NEW q \in Callers, q # p
      PROVE  UnderWay(q)' /\ CallHolds(q)' /\ AnswerTrue(q)'
  <2>1. UnderWay(q) /\ CallHolds(q) /\ AnswerTrue(q)
    BY DEF RootInv
  <2>2. rpc[q] \in RootLocked => rlock' = q
    BY <1>2, LockedHasIt
  <2> QED BY <1>2, <2>1, <2>2, OthersHold
<1> QED BY <1>1, <1>2 DEF RootInv

\* A call ends with an answer that is true.
LEMMA RootAnswered ==
    ASSUME RootInv, NEW p \in Callers, NEW c \in RootCode, NEW e \in {"none", "control_only"},
           rpc[p] # "idle", Root!Answer(p, c, e), UNCHANGED <<rroot, changed>>,
           c \in {"initialized", "already_initialized"} => rroot.owner = <<rloc[p].request>>,
           c # "none" /\ e = "none" => ~changed[p]
    PROVE  RootInv'
<1>1. RootType
  BY DEF RootInv
<1>2. /\ rpc' = [rpc EXCEPT ![p] = "idle"]
      /\ rloc' = [rloc EXCEPT ![p] = Root!NoCall]
      /\ ranswer' = [ranswer EXCEPT ![p] = [code |-> c, effect |-> e,
                                            request |-> rloc[p].request]]
      /\ rlock' = IF rlock = p THEN "none" ELSE rlock
  BY DEF Root!Answer, Root!Goto, Root!Request, Root!None
<1>3. Root!NoCall \in RootCall
  BY DEF Root!NoCall, RootCall, RootRequest, RootState, Root!NoRoot, Root!NoRequest, Root!None
<1>4. [code |-> c, effect |-> e, request |-> rloc[p].request] \in RootAnswer
  BY <1>1 DEF RootType, RootCall, RootAnswer
<1>5. RootType'
  BY <1>1, <1>2, <1>3, <1>4 DEF RootType, RootPlace
<1>6. /\ rpc'[p] = "idle" /\ ranswer'[p] = [code |-> c, effect |-> e, request |-> rloc[p].request]
      /\ \A q \in Callers : q # p =>
            /\ rpc'[q] = rpc[q] /\ rloc'[q] = rloc[q] /\ changed'[q] = changed[q]
            /\ ranswer'[q] = ranswer[q] /\ (rlock = q => rlock' = q)
  BY <1>1, <1>2 DEF RootType
<1>7. UnderWay(p)' /\ CallHolds(p)'
  BY <1>6 DEF UnderWay, CallHolds, RootLocked, Root!Building
<1>8. AnswerTrue(p)'
  BY <1>6 DEF AnswerTrue
<1> QED BY <1>5, <1>6, <1>7, <1>8, RootUntouched

LEMMA RootRefused ==
    ASSUME RootInv, NEW p \in Callers, NEW c \in RootCode, NEW e \in {"none", "control_only"},
           rpc[p] # "idle", Root!Refuse(p, c, e),
           c \in {"initialized", "already_initialized"} => rroot.owner = <<rloc[p].request>>,
           c # "none" /\ e = "none" => ~changed[p]
    PROVE  RootInv'
<1>1. Root!Answer(p, c, e) /\ UNCHANGED <<rroot, changed>>
  BY DEF Root!Refuse
<1> QED BY <1>1, RootAnswered

\* A step of p under the lock goes on without touching anything.
LEMMA RootGoesOn ==
    ASSUME RootInv, NEW p \in Callers, NEW l \in RootPlace, rpc' = [rpc EXCEPT ![p] = l],
           UNCHANGED <<rroot, rlock, rloc, ranswer, changed>>,
           UnderWay(p)', CallHolds(p)'
    PROVE  RootInv'
<1>1. RootType
  BY DEF RootInv
<1>2. RootType'
  BY <1>1 DEF RootType
<1>3. \A q \in Callers : q # p =>
            /\ rpc'[q] = rpc[q] /\ rloc'[q] = rloc[q] /\ changed'[q] = changed[q]
            /\ ranswer'[q] = ranswer[q] /\ (rlock = q => rlock' = q)
  BY <1>1 DEF RootType
<1>4. AnswerTrue(p)'
  BY DEF RootInv, AnswerTrue
<1> QED BY <1>2, <1>3, <1>4, RootUntouched


\* A step of p that changes the root: nobody else is under the lock, and the
\* call is not one whose answer says that nothing was changed.
LEMMA RootDone ==
    ASSUME RootInv, NEW p \in Callers, NEW l \in Root!Building, NEW r \in RootState,
           rpc[p] \in Root!Building, rroot.owner = <<>>, Root!Do(p, r, l), UNCHANGED rlock,
           r.exists, r.authority,
           RootShape', rlock = p => UnderWay(p)'
    PROVE  RootInv'
<1>1. RootType
  BY DEF RootInv
<1>2. /\ rroot' = r /\ rpc' = [rpc EXCEPT ![p] = l]
      /\ UNCHANGED <<rlock, rloc, ranswer>>
      /\ changed' = [changed EXCEPT ![p] = @ \/ r # rroot]
  BY DEF Root!Do, Root!Goto
<1>3. changed' \in [Callers -> BOOLEAN]
  <2>1. (changed[p] \/ r # rroot) \in BOOLEAN
    OBVIOUS
  <2> DEFINE v == changed[p] \/ r # rroot
  <2>2. changed' = [changed EXCEPT ![p] = v]
    BY <1>2
  <2> HIDE DEF v
  <2> QED BY <2>1, <2>2, <1>1 DEF RootType, v
<1>4. RootType'
  BY <1>1, <1>2, <1>3 DEF RootType, RootPlace, RootLocked
<1>5. rlock = p /\ \A q \in Callers : q # p => rpc[q] \notin RootLocked
  BY LockedHasIt DEF RootLocked
<1>6. /\ rpc'[p] = l /\ rloc'[p] = rloc[p] /\ ranswer'[p] = ranswer[p]
      /\ \A q \in Callers : q # p =>
            /\ rpc'[q] = rpc[q] /\ rloc'[q] = rloc[q] /\ changed'[q] = changed[q]
            /\ ranswer'[q] = ranswer[q]
  BY <1>1, <1>2 DEF RootType
<1>7. CallHolds(p)' /\ AnswerTrue(p)'
  <2>1. CallHolds(p)
    BY DEF RootInv
  <2>2. rpc[p] # "idle" /\ rpc'[p] \notin {"idle", "preflight", "acquire", "locked"}
    BY <1>6 DEF Root!Building
  <2> QED BY <1>6, <2>1, <2>2 DEF CallHolds, AnswerTrue
<1>8. ASSUME NEW q \in Callers, q # p
      PROVE  UnderWay(q)' /\ CallHolds(q)' /\ AnswerTrue(q)'
  <2>1. UnderWay(q) /\ CallHolds(q) /\ AnswerTrue(q)
    BY DEF RootInv
  <2> QED BY <1>5, <1>6, <1>8, <2>1, OthersHold
<1> QED BY <1>4, <1>5, <1>7, <1>8 DEF RootInv

-----------------------------------------------------------------------------
(* The steps of a call before it is under the lock.                        *)

LEMMA NoRequestIsNone ==
    Root!NoRequest \in RootRequest /\ Root!NoRoot \in RootState
  BY DEF RootRequest, RootState, Root!NoRoot

LEMMA RootBegins ==
    ASSUME RootInv, NEW p \in Callers, NEW k \in {"initialize", "reconcile"},
           NEW q \in RootRequests, Root!Begin(p, k, q)
    PROVE  RootInv'
<1>1. RootType
  BY DEF RootInv
<1> DEFINE c == [Root!NoCall EXCEPT !.kind = k, !.request = q, !.look = rroot]
<1>2. /\ c \in RootCall /\ c.request = q
  BY <1>1, NoRequestIsNone DEF RootCall, RootType, RootRequest, Root!NoCall
<1>3. /\ rpc[p] = "idle" /\ rpc' = [rpc EXCEPT ![p] = "preflight"]
      /\ rloc' = [rloc EXCEPT ![p] = c]
      /\ changed' = [changed EXCEPT ![p] = FALSE]
      /\ ranswer' = [ranswer EXCEPT ![p] = Root!NoAnswer]
      /\ UNCHANGED <<rroot, rlock>>
  BY DEF Root!Begin, Root!At, Root!Goto
<1> HIDE DEF c
<1>4. Root!NoAnswer \in RootAnswer /\ Root!NoAnswer.code = "none"
  BY NoRequestIsNone DEF Root!NoAnswer, RootAnswer, RootCode, Root!None
<1>5. RootType'
  BY <1>1, <1>2, <1>3, <1>4 DEF RootType, RootPlace
<1>6. /\ rpc'[p] = "preflight" /\ rloc'[p].request = q /\ ~changed'[p]
      /\ ranswer'[p].code = "none"
      /\ \A o \in Callers : o # p =>
            /\ rpc'[o] = rpc[o] /\ rloc'[o] = rloc[o] /\ changed'[o] = changed[o]
            /\ ranswer'[o] = ranswer[o] /\ (rlock = o => rlock' = o)
  BY <1>1, <1>2, <1>3, <1>4 DEF RootType
<1>7. UnderWay(p)'
  BY <1>6 DEF UnderWay, RootLocked, Root!Building
<1>8. CallHolds(p)' /\ AnswerTrue(p)'
  BY <1>6 DEF CallHolds, AnswerTrue
<1> QED BY <1>3, <1>5, <1>6, <1>7, <1>8, RootUntouched

\* The call goes to the lock: it forgets what it saw.
LEMMA RootToLock ==
    ASSUME RootInv, NEW p \in Callers, rpc[p] = "preflight", Root!Goto(p, "acquire"),
           rloc' = [rloc EXCEPT ![p].look = Root!NoRoot],
           UNCHANGED <<rroot, rlock, ranswer, changed>>
    PROVE  RootInv'
<1>1. RootType
  BY DEF RootInv
<1> DEFINE c == [rloc[p] EXCEPT !.look = Root!NoRoot]
<1>2. c \in RootCall /\ c.request = rloc[p].request
  BY <1>1, NoRequestIsNone DEF RootCall, RootType
<1>3. rloc' = [rloc EXCEPT ![p] = c] /\ rpc' = [rpc EXCEPT ![p] = "acquire"]
  BY DEF Root!Goto
<1> HIDE DEF c
<1>4. RootType'
  BY <1>1, <1>2, <1>3 DEF RootType, RootPlace
<1>5. /\ rpc'[p] = "acquire" /\ rloc'[p].request = rloc[p].request
      /\ \A o \in Callers : o # p =>
            /\ rpc'[o] = rpc[o] /\ rloc'[o] = rloc[o] /\ changed'[o] = changed[o]
            /\ ranswer'[o] = ranswer[o] /\ (rlock = o => rlock' = o)
  BY <1>1, <1>2, <1>3 DEF RootType
<1>6. UnderWay(p)'
  BY <1>5 DEF UnderWay, RootLocked, Root!Building
<1>7. CallHolds(p)' /\ AnswerTrue(p)'
  BY <1>5 DEF CallHolds, AnswerTrue, RootInv
<1> QED BY <1>4, <1>5, <1>6, <1>7, RootUntouched

LEMMA RootPreflights ==
    ASSUME RootInv, NEW p \in Callers, Root!Preflight(p)
    PROVE  RootInv'
<1>1. rpc[p] = "preflight" /\ ~changed[p]
  BY DEF Root!Preflight, Root!At, RootInv, CallHolds
<1>2. \/ Root!Refuse(p, "run_namespace_conflict", "none")
      \/ Root!Refuse(p, "root_initialization_incomplete", "none")
      \/ /\ Root!Goto(p, "acquire")
         /\ rloc' = [rloc EXCEPT ![p].look = Root!NoRoot]
         /\ UNCHANGED <<rroot, rlock, ranswer, changed, rleft>>
  BY DEF Root!Preflight
<1> QED BY <1>1, <1>2, RootRefused, RootToLock DEF RootCode

LEMMA RootPrepares ==
    ASSUME RootInv, NEW p \in Callers, Root!PrepareRoot(p)
    PROVE  RootInv'
<1>1. RootType /\ RootShape
  BY DEF RootInv
<1> DEFINE c == [rloc[p] EXCEPT !.created = TRUE]
           r == [rroot EXCEPT !.exists = TRUE]
<1>2. c \in RootCall /\ c.request = rloc[p].request
  BY <1>1 DEF RootCall, RootType
<1>3. /\ r \in RootState /\ r.exists
      /\ r.authority = rroot.authority /\ r.owner = rroot.owner
      /\ r.control = rroot.control /\ r.runs = rroot.runs /\ r.owners = rroot.owners
      /\ r.controls = rroot.controls /\ r.runses = rroot.runses
  BY <1>1 DEF RootState, RootType
<1>4. /\ rpc[p] = "acquire" /\ ~rroot.exists /\ rroot' = r
      /\ rloc' = [rloc EXCEPT ![p] = c]
      /\ UNCHANGED <<rlock, rpc, ranswer, changed>>
  BY DEF Root!PrepareRoot, Root!At
<1> HIDE DEF c, r
<1>5. RootType'
  BY <1>1, <1>2, <1>3, <1>4 DEF RootType
<1>6. RootShape'
  BY <1>1, <1>3, <1>4 DEF RootShape, Clean, OnlyOf
<1>7. \A o \in Callers : rpc[o] \notin RootLocked
  BY <1>4 DEF RootInv, UnderWay
<1>8. rloc'[p].request = rloc[p].request /\ \A o \in Callers : o # p => rloc'[o] = rloc[o]
  BY <1>1, <1>2, <1>4 DEF RootType
<1>9. ASSUME NEW o \in Callers, o # p
      PROVE  UnderWay(o)' /\ CallHolds(o)' /\ AnswerTrue(o)'
  <2>1. UnderWay(o) /\ CallHolds(o) /\ AnswerTrue(o)
    BY DEF RootInv
  <2> QED BY <1>3, <1>4, <1>7, <1>8, <1>9, <2>1, OthersHold
<1>10. UnderWay(p)'
  BY <1>4 DEF UnderWay, RootLocked, Root!Building
<1>11. CallHolds(p)' /\ AnswerTrue(p)'
  BY <1>3, <1>4, <1>8 DEF CallHolds, AnswerTrue, RootInv
<1> QED BY <1>5, <1>6, <1>9, <1>10, <1>11 DEF RootInv

LEMMA RootAcquires ==
    ASSUME RootInv, NEW p \in Callers, Root!Acquire(p)
    PROVE  RootInv'
<1>1. RootType /\ RootShape
  BY DEF RootInv
<1>2. rpc[p] = "acquire" /\ rroot.exists /\ ~changed[p]
  BY DEF Root!Acquire, Root!At, RootInv, CallHolds
<1>3. CASE rlock # "none"
  <2>1. Root!Refuse(p, "run_locked", Root!Prepared(p))
    BY <1>3 DEF Root!Acquire, Root!None
  <2>2. Root!Prepared(p) \in {"none", "control_only"}
    BY DEF Root!Prepared
  <2> QED BY <1>2, <2>1, <2>2, RootRefused DEF RootCode
<1>4. CASE rlock = "none"
  <2> DEFINE r == [rroot EXCEPT !.authority = TRUE]
  <2>1. /\ r \in RootState /\ r.authority /\ r.exists = rroot.exists
        /\ r.owner = rroot.owner
        /\ r.control = rroot.control /\ r.runs = rroot.runs /\ r.owners = rroot.owners
        /\ r.controls = rroot.controls /\ r.runses = rroot.runses
    BY <1>1 DEF RootState, RootType
  <2>2. /\ Root!Do(p, r, "locked") /\ rlock' = p
    BY <1>4 DEF Root!Acquire, Root!None
  <2>3. rroot.authority => r = rroot
    BY <1>1 DEF RootState, RootType
  <2> HIDE DEF r
  <2> DEFINE v == changed[p] \/ r # rroot
  <2>4. /\ rroot' = r /\ rpc' = [rpc EXCEPT ![p] = "locked"]
        /\ UNCHANGED <<rloc, ranswer>>
        /\ changed' = [changed EXCEPT ![p] = v]
    BY <2>2 DEF Root!Do, Root!Goto
  <2>5. v \in BOOLEAN /\ (v => ~rroot.authority)
    BY <1>2, <2>3
  <2> HIDE DEF v
  <2>6. RootType'
    BY <1>1, <2>1, <2>2, <2>4, <2>5 DEF RootType, RootPlace, RootLocked
  <2>7. RootShape'
    BY <1>1, <2>1, <2>4 DEF RootShape, Clean, OnlyOf
  <2>8. /\ rpc'[p] = "locked" /\ changed'[p] = v
        /\ \A o \in Callers : o # p => rpc'[o] = rpc[o] /\ changed'[o] = changed[o]
    BY <1>1, <2>4 DEF RootType
  <2>9. \A o \in Callers : rpc[o] \notin RootLocked
    BY <1>4, LocalDataAssumption DEF RootInv, UnderWay
  <2>10. ASSUME NEW o \in Callers, o # p
         PROVE  UnderWay(o)' /\ CallHolds(o)' /\ AnswerTrue(o)'
    <3>1. UnderWay(o) /\ CallHolds(o) /\ AnswerTrue(o)
      BY DEF RootInv
    <3> QED BY <2>1, <2>4, <2>8, <2>9, <2>10, <3>1, OthersHold
  <2>11. UnderWay(p)'
    BY <1>2, <2>1, <2>2, <2>4, <2>8 DEF UnderWay, Root!Building
  <2>12. CallHolds(p)' /\ AnswerTrue(p)'
    <3>1. CallHolds(p)
      BY DEF RootInv
    <3>2. changed'[p] => rroot'.owner = <<>>
      BY <1>1, <2>1, <2>4, <2>5, <2>8 DEF RootShape
    <3> QED BY <1>2, <2>4, <2>8, <3>1, <3>2 DEF CallHolds, AnswerTrue
  <2> QED BY <2>6, <2>7, <2>10, <2>11, <2>12 DEF RootInv
<1> QED BY <1>3, <1>4

LEMMA RootLockUnavailable ==
    ASSUME RootInv, NEW p \in Callers, Root!LockUnavailable(p)
    PROVE  RootInv'
<1>1. rpc[p] = "acquire" /\ ~changed[p]
  BY DEF Root!LockUnavailable, Root!At, RootInv, CallHolds
<1>2. /\ Root!Answer(p, "lock_unavailable", Root!Prepared(p))
      /\ UNCHANGED <<rroot, changed>>
  BY DEF Root!LockUnavailable
<1>3. Root!Prepared(p) \in {"none", "control_only"}
  BY DEF Root!Prepared
<1> QED BY <1>1, <1>2, <1>3, RootAnswered DEF RootCode

-----------------------------------------------------------------------------
(* What inspect_root_initialization sees.                                  *)

LEMMA TemporaryEntries ==
    /\ Root!TemporaryIds(rroot) = {} <=> Clean
    /\ \A id : Root!TemporaryIds(rroot) = {id} <=> OnlyOf(id) /\ ~Clean
<1> DEFINE a == {o.request.id : o \in rroot.owners}
           b == {c.id : c \in rroot.controls}
<1>1. Root!TemporaryIds(rroot) = a \cup b \cup rroot.runses
  BY DEF Root!TemporaryIds
<1>2. (a = {} <=> rroot.owners = {}) /\ (b = {} <=> rroot.controls = {})
  OBVIOUS
<1>3. \A id : /\ a \subseteq {id} <=> \A o \in rroot.owners : o.request.id = id
              /\ b \subseteq {id} <=> \A c \in rroot.controls : c.id = id
  OBVIOUS
<1> HIDE DEF a, b
<1>4. Root!TemporaryIds(rroot) = {} <=> Clean
  BY <1>1, <1>2 DEF Clean
<1>5. ASSUME NEW id
      PROVE  Root!TemporaryIds(rroot) = {id} <=> OnlyOf(id) /\ ~Clean
  <2>1. OnlyOf(id) <=> Root!TemporaryIds(rroot) \subseteq {id}
    BY <1>1, <1>3 DEF OnlyOf
  <2>2. Root!TemporaryIds(rroot) = {id} <=>
            /\ Root!TemporaryIds(rroot) \subseteq {id}
            /\ Root!TemporaryIds(rroot) # {}
    OBVIOUS
  <2> QED BY <1>4, <2>1, <2>2
<1> QED BY <1>4, <1>5

LEMMA StatusOfRoot ==
    ASSUME RootShape, rroot.exists
    PROVE  /\ Root!Status \in {"uninitialized", "initialized", "incomplete"}
           /\ Root!Status = "initialized" <=> rroot.owner # <<>>
           /\ Root!Status = "uninitialized" => rroot.owner = <<>> /\ Clean
           /\ Root!Status = "incomplete" => rroot.owner = <<>> /\ ~Clean
<1> DEFINE ids == Root!TemporaryIds(rroot)
<1>1. /\ ids = {} <=> Clean
      /\ \A id : OnlyOf(id) /\ ~Clean => ids = {id}
  BY TemporaryEntries
<1>2. \A id : Cardinality({id}) = 1
  BY FS_Singleton
<1>3. /\ /\ rroot.owner # <<>> /\ ids = {}
         /\ rroot.authority /\ rroot.control /\ rroot.runs
         => Root!Status = "initialized"
      /\ rroot.owner = <<>> /\ ids = {} /\ ~rroot.control /\ ~rroot.runs
         => Root!Status = "uninitialized"
      /\ rroot.owner = <<>> /\ ids # {} /\ Cardinality(ids) = 1
         => Root!Status = "incomplete"
  <2> HIDE DEF ids
  <2>1. Root!TemporaryIds(rroot) = ids
    BY DEF ids
  <2>2. Root!Status = Root!inspect(rroot, rroot)
    BY DEF Root!Status
  <2>3. /\ rroot.owner # <<>> /\ ids = {}
        /\ rroot.authority /\ rroot.control /\ rroot.runs
        => Root!inspect(rroot, rroot) = "initialized"
    BY <2>1 DEF Root!inspect
  <2>4. /\ rroot.owner = <<>> /\ ids = {} /\ ~rroot.control /\ ~rroot.runs
        => Root!inspect(rroot, rroot) = "uninitialized"
    BY <2>1 DEF Root!inspect
  <2>5. rroot.owner = <<>> /\ ids # {} /\ Cardinality(ids) = 1
        => Root!inspect(rroot, rroot) = "incomplete"
    <3>1. Root!Cardinality(ids) = Cardinality(ids)
      BY DEF Root!Cardinality, Cardinality
    <3> QED BY <2>1, <3>1 DEF Root!inspect
  <2> QED BY <2>2, <2>3, <2>4, <2>5
<1> HIDE DEF ids
<1>4. CASE rroot.owner # <<>>
  <2>1. Root!Status = "initialized"
    BY <1>1, <1>3, <1>4 DEF RootShape
  <2> QED BY <1>4, <2>1
<1>5. CASE rroot.owner = <<>> /\ Clean
  <2>1. Root!Status = "uninitialized"
    BY <1>1, <1>3, <1>5 DEF RootShape
  <2> QED BY <1>5, <2>1
<1>6. CASE rroot.owner = <<>> /\ ~Clean
  <2>1. PICK id : ids = {id}
    BY <1>1, <1>6 DEF RootShape
  <2>2. Cardinality(ids) = 1
    BY <1>2, <2>1
  <2>3. Root!Status = "incomplete"
    BY <1>1, <1>3, <1>6, <2>2
  <2> QED BY <1>6, <2>3
<1> QED BY <1>4, <1>5, <1>6

\* The invariant contains what is stated of the root.
LEMMA RootNeverCorrupt ==
    RootInv => Root!RootIsNeverCorrupt
<1> SUFFICES ASSUME RootInv PROVE Root!RootIsNeverCorrupt
  OBVIOUS
<1>1. RootShape
  BY DEF RootInv
<1>2. Root!Status # "corrupt"
  <2>1. CASE rroot.exists
    BY <1>1, <2>1, StatusOfRoot
  <2>2. CASE ~rroot.exists
    BY <2>2 DEF Root!Status, Root!inspect
  <2> QED BY <2>1, <2>2
<1>3. rroot.owner # <<>> => rroot.control /\ rroot.runs /\ Root!TemporaryIds(rroot) = {}
  BY <1>1, TemporaryEntries DEF RootShape
<1> QED BY <1>2, <1>3 DEF Root!RootIsNeverCorrupt

-----------------------------------------------------------------------------
(* The steps under the lock.                                               *)

LEMMA OwnerIsOne ==
    ASSUME RootType, rroot.owner # <<>>, NEW q, rroot.owner[1] = q
    PROVE  rroot.owner = <<q>>
  BY DEF RootType, RootState

LEMMA RootLockedInitializes ==
    ASSUME RootInv, NEW p \in Callers, Root!LockedInitialize(p)
    PROVE  RootInv'
<1>1. RootType /\ RootShape /\ UnderWay(p) /\ CallHolds(p)
  BY DEF RootInv
<1>2. rpc[p] = "locked" /\ rlock = p /\ rroot.exists /\ rroot.authority
  BY <1>1 DEF Root!LockedInitialize, Root!At, UnderWay, RootLocked
<1>3. CASE Root!Status = "initialized"
  <2>1. rroot.owner # <<>> /\ ~changed[p]
    BY <1>1, <1>2, <1>3, StatusOfRoot DEF CallHolds
  <2>2. CASE rroot.owner[1] = rloc[p].request
    <3>1. rroot.owner = <<rloc[p].request>>
      BY <1>1, <2>1, <2>2, OwnerIsOne
    <3>2. Root!Refuse(p, "already_initialized", "none")
      BY <1>3, <2>2 DEF Root!LockedInitialize, Root!Request
    <3> QED BY <1>2, <2>1, <3>1, <3>2, RootRefused DEF RootCode
  <2>3. CASE rroot.owner[1] # rloc[p].request
    <3>1. Root!Refuse(p, "run_namespace_conflict", Root!Effect(p))
      BY <1>3, <2>3 DEF Root!LockedInitialize, Root!Request
    <3>2. Root!Effect(p) = "none"
      BY <2>1 DEF Root!Effect
    <3> QED BY <1>2, <2>1, <3>1, <3>2, RootRefused DEF RootCode
  <2> QED BY <2>2, <2>3
<1>4. CASE Root!Status = "incomplete"
  <2>1. Root!Refuse(p, "reconciliation_required", "control_only")
    BY <1>4 DEF Root!LockedInitialize
  <2> QED BY <1>2, <2>1, RootRefused DEF RootCode
<1>5. CASE Root!Status = "uninitialized"
  <2>1. rroot.owner = <<>> /\ Clean
    BY <1>1, <1>2, <1>5, StatusOfRoot
  <2>2. rpc' = [rpc EXCEPT ![p] = "ownership"] /\ UNCHANGED <<rroot, rlock, rloc, ranswer, changed>>
    BY <1>5 DEF Root!LockedInitialize, Root!Goto
  <2>3. rpc'[p] = "ownership"
    BY <1>1, <2>2 DEF RootType
  <2>4. UnderWay(p)'
    <3>1. Clean'
      BY <2>1, <2>2 DEF Clean
    <3> QED BY <1>2, <2>1, <2>2, <2>3, <3>1 DEF UnderWay, RootLocked, Root!Building
  <2>5. CallHolds(p)'
    BY <1>1, <1>2, <2>2, <2>3 DEF CallHolds
  <2> QED BY <2>2, <2>4, <2>5, RootGoesOn DEF RootPlace, RootLocked, Root!Building
<1> QED BY <1>1, <1>2, <1>3, <1>4, <1>5, StatusOfRoot


\* The facts of a step that changes the root.
LEMMA RootDoes ==
    ASSUME RootInv, NEW p \in Callers, NEW l \in RootPlace, NEW r, Root!Do(p, r, l)
    PROVE  rroot' = r /\ rpc'[p] = l /\ rloc'[p] = rloc[p]
  BY DEF Root!Do, Root!Goto, RootInv, RootType

\* A boundary of an unowned root whose entries all carry the call's identity.
LEMMA RootPiece ==
    ASSUME RootInv, NEW p \in Callers, NEW l \in Root!Building, NEW r \in RootState,
           rpc[p] \in Root!Building, rpc[p] # "final", Root!Do(p, r, l), UNCHANGED rlock,
           r.exists = rroot.exists, r.authority = rroot.authority, r.owner = rroot.owner,
           r.owners # {},
           \A o \in r.owners : o.request.id = rloc[p].request.id,
           \A c \in r.controls : c.id = rloc[p].request.id,
           r.runses \subseteq {rloc[p].request.id},
           rroot.owner = <<>> => UnderWay(p)'
    PROVE  RootInv'
<1>1. UnderWay(p) /\ CallHolds(p)
  BY DEF RootInv
<1>2. rroot.owner = <<>> /\ rroot.exists /\ rroot.authority
  BY <1>1 DEF UnderWay, RootLocked
<1>3. rroot' = r
  BY RootDoes DEF RootPlace, RootLocked
<1>4. ~Clean' /\ OnlyOf(rloc[p].request.id)'
  <2>1. ~Clean'
    BY <1>3 DEF Clean
  <2> DEFINE id == rloc[p].request.id
  <2>2. rloc'[p] = rloc[p]
    BY RootDoes DEF RootPlace, RootLocked
  <2>3. OnlyOf(id)'
    BY <1>3, <2>2 DEF OnlyOf
  <2> QED BY <2>1, <2>3
<1>5. rloc'[p].request.id \in RootIds /\ rloc'[p] = rloc[p]
  <2>1. rloc'[p] = rloc[p]
    BY RootDoes DEF RootPlace, RootLocked
  <2>2. rloc[p].request \in RootRequests
    BY <1>1 DEF CallHolds, Root!Building
  <2> QED BY <2>1, <2>2 DEF RootIds
<1>6. RootShape'
  BY <1>2, <1>3, <1>4, <1>5 DEF RootShape
<1> QED BY <1>2, <1>6, RootDone


LEMMA RootCreatesOwnership ==
    ASSUME RootInv, NEW p \in Callers, Root!CreateOwnership(p)
    PROVE  RootInv'
<1> DEFINE q == rloc[p].request
           r == [rroot EXCEPT !.owners = @ \cup {[request |-> q, whole |-> FALSE]}]
<1>1. RootType /\ UnderWay(p) /\ CallHolds(p)
  BY DEF RootInv
<1>2. /\ rpc[p] = "ownership" /\ Root!Do(p, r, "write") /\ UNCHANGED rlock
      /\ rpc[p] \in Root!Building
  BY DEF Root!CreateOwnership, Root!At, Root!Request, Root!Building
<1>3. q \in RootRequests /\ q.id \in RootIds
  BY <1>1, <1>2 DEF CallHolds, RootIds
<1>4. rroot.owners = {} /\ rroot.controls = {} /\ rroot.runses = {}
  BY <1>1, <1>2 DEF UnderWay, OnlyOf, Clean
<1>5. /\ r.exists = rroot.exists /\ r.authority = rroot.authority /\ r.owner = rroot.owner
      /\ r.owners = {[request |-> q, whole |-> FALSE]} /\ r.controls = {} /\ r.runses = {}
  BY <1>1, <1>4 DEF RootType, RootState
<1>6. r \in RootState
  <2>1. /\ [request |-> q, whole |-> TRUE] \in [request : RootRequests, whole : BOOLEAN]
        /\ [request |-> q, whole |-> FALSE] \in [request : RootRequests, whole : BOOLEAN]
        /\ \A b \in BOOLEAN : [id |-> q.id, locks |-> b] \in [id : RootIds, locks : BOOLEAN]
    BY <1>3
  <2> QED BY <1>1, <1>3, <1>5, <2>1 DEF RootType, RootState
<1> HIDE DEF r
<1>7. /\ r.owners # {} /\ \A o \in r.owners : o.request.id = q.id
      /\ \A c \in r.controls : c.id = q.id
      /\ r.runses \subseteq {q.id}
  BY <1>4, <1>5 DEF OnlyOf
<1>8. rroot' = r /\ rpc'[p] = "write" /\ rloc'[p] = rloc[p] /\ rlock' = rlock
  BY <1>2, RootDoes DEF RootPlace, RootLocked, Root!Building
<1>9. rroot.owner = <<>> => UnderWay(p)'
  BY <1>1, <1>2, <1>4, <1>5, <1>8 DEF UnderWay, RootLocked, Root!Building, OnlyOf, Clean
<1> QED BY <1>2, <1>5, <1>6, <1>7, <1>9, RootPiece DEF Root!Building

LEMMA RootWritesOwnership ==
    ASSUME RootInv, NEW p \in Callers, Root!WriteOwnership(p)
    PROVE  RootInv'
<1> DEFINE q == rloc[p].request
           r == [rroot EXCEPT !.owners = (@ \ {[request |-> q, whole |-> FALSE]})
                                     \cup {[request |-> q, whole |-> TRUE]}]
<1>1. RootType /\ UnderWay(p) /\ CallHolds(p)
  BY DEF RootInv
<1>2. /\ rpc[p] = "write" /\ Root!Do(p, r, "control_temp") /\ UNCHANGED rlock
      /\ rpc[p] \in Root!Building
  BY DEF Root!WriteOwnership, Root!At, Root!Request, Root!Building
<1>3. q \in RootRequests /\ q.id \in RootIds
  BY <1>1, <1>2 DEF CallHolds, RootIds
<1>4. rroot.owners = {[request |-> q, whole |-> FALSE]} /\ rroot.controls = {} /\ rroot.runses = {}
  BY <1>1, <1>2 DEF UnderWay, OnlyOf, Clean
<1>5. /\ r.exists = rroot.exists /\ r.authority = rroot.authority /\ r.owner = rroot.owner
      /\ r.owners = {[request |-> q, whole |-> TRUE]} /\ r.controls = {} /\ r.runses = {}
  BY <1>1, <1>4 DEF RootType, RootState
<1>6. r \in RootState
  <2>1. /\ [request |-> q, whole |-> TRUE] \in [request : RootRequests, whole : BOOLEAN]
        /\ [request |-> q, whole |-> FALSE] \in [request : RootRequests, whole : BOOLEAN]
        /\ \A b \in BOOLEAN : [id |-> q.id, locks |-> b] \in [id : RootIds, locks : BOOLEAN]
    BY <1>3
  <2> QED BY <1>1, <1>3, <1>5, <2>1 DEF RootType, RootState
<1> HIDE DEF r
<1>7. /\ r.owners # {} /\ \A o \in r.owners : o.request.id = q.id
      /\ \A c \in r.controls : c.id = q.id
      /\ r.runses \subseteq {q.id}
  BY <1>4, <1>5 DEF OnlyOf
<1>8. rroot' = r /\ rpc'[p] = "control_temp" /\ rloc'[p] = rloc[p] /\ rlock' = rlock
  BY <1>2, RootDoes DEF RootPlace, RootLocked, Root!Building
<1>9. rroot.owner = <<>> => UnderWay(p)'
  BY <1>1, <1>2, <1>4, <1>5, <1>8 DEF UnderWay, RootLocked, Root!Building, OnlyOf, Clean
<1> QED BY <1>2, <1>5, <1>6, <1>7, <1>9, RootPiece DEF Root!Building

LEMMA RootMakesControl ==
    ASSUME RootInv, NEW p \in Callers, Root!MakeControl(p)
    PROVE  RootInv'
<1> DEFINE q == rloc[p].request
           r == [rroot EXCEPT !.controls = @ \cup {[id |-> q.id, locks |-> FALSE]}]
<1>1. RootType /\ UnderWay(p) /\ CallHolds(p)
  BY DEF RootInv
<1>2. /\ rpc[p] = "control_temp" /\ Root!Do(p, r, "locks_temp") /\ UNCHANGED rlock
      /\ rpc[p] \in Root!Building
  BY DEF Root!MakeControl, Root!At, Root!Request, Root!Building
<1>3. q \in RootRequests /\ q.id \in RootIds
  BY <1>1, <1>2 DEF CallHolds, RootIds
<1>4. rroot.owners = {[request |-> q, whole |-> TRUE]} /\ rroot.controls = {} /\ rroot.runses = {}
  BY <1>1, <1>2 DEF UnderWay, OnlyOf, Clean
<1>5. /\ r.exists = rroot.exists /\ r.authority = rroot.authority /\ r.owner = rroot.owner
      /\ r.owners = {[request |-> q, whole |-> TRUE]} /\ r.runses = {}
      /\ r.controls = {[id |-> q.id, locks |-> FALSE]}
  BY <1>1, <1>4 DEF RootType, RootState
<1>6. r \in RootState
  <2>1. /\ [request |-> q, whole |-> TRUE] \in [request : RootRequests, whole : BOOLEAN]
        /\ [request |-> q, whole |-> FALSE] \in [request : RootRequests, whole : BOOLEAN]
        /\ \A b \in BOOLEAN : [id |-> q.id, locks |-> b] \in [id : RootIds, locks : BOOLEAN]
    BY <1>3
  <2> QED BY <1>1, <1>3, <1>5, <2>1 DEF RootType, RootState
<1> HIDE DEF r
<1>7. /\ r.owners # {} /\ \A o \in r.owners : o.request.id = q.id
      /\ \A c \in r.controls : c.id = q.id
      /\ r.runses \subseteq {q.id}
  BY <1>4, <1>5 DEF OnlyOf
<1>8. rroot' = r /\ rpc'[p] = "locks_temp" /\ rloc'[p] = rloc[p] /\ rlock' = rlock
  BY <1>2, RootDoes DEF RootPlace, RootLocked, Root!Building
<1>9. rroot.owner = <<>> => UnderWay(p)'
  BY <1>1, <1>2, <1>4, <1>5, <1>8 DEF UnderWay, RootLocked, Root!Building, OnlyOf, Clean
<1> QED BY <1>2, <1>5, <1>6, <1>7, <1>9, RootPiece DEF Root!Building

LEMMA RootMakesLocks ==
    ASSUME RootInv, NEW p \in Callers, Root!MakeLocks(p)
    PROVE  RootInv'
<1> DEFINE q == rloc[p].request
           r == [rroot EXCEPT !.controls = (@ \ {[id |-> q.id, locks |-> FALSE]})
                                       \cup {[id |-> q.id, locks |-> TRUE]}]
<1>1. RootType /\ UnderWay(p) /\ CallHolds(p)
  BY DEF RootInv
<1>2. /\ rpc[p] = "locks_temp" /\ Root!Do(p, r, "runs_temp") /\ UNCHANGED rlock
      /\ rpc[p] \in Root!Building
  BY DEF Root!MakeLocks, Root!At, Root!Request, Root!Building
<1>3. q \in RootRequests /\ q.id \in RootIds
  BY <1>1, <1>2 DEF CallHolds, RootIds
<1>4. /\ rroot.owners = {[request |-> q, whole |-> TRUE]} /\ rroot.runses = {}
      /\ rroot.controls = {[id |-> q.id, locks |-> FALSE]}
  BY <1>1, <1>2 DEF UnderWay, OnlyOf, Clean
<1>5. /\ r.exists = rroot.exists /\ r.authority = rroot.authority /\ r.owner = rroot.owner
      /\ r.owners = {[request |-> q, whole |-> TRUE]} /\ r.runses = {}
      /\ r.controls = {[id |-> q.id, locks |-> TRUE]}
  BY <1>1, <1>4 DEF RootType, RootState
<1>6. r \in RootState
  <2>1. /\ [request |-> q, whole |-> TRUE] \in [request : RootRequests, whole : BOOLEAN]
        /\ [request |-> q, whole |-> FALSE] \in [request : RootRequests, whole : BOOLEAN]
        /\ \A b \in BOOLEAN : [id |-> q.id, locks |-> b] \in [id : RootIds, locks : BOOLEAN]
    BY <1>3
  <2> QED BY <1>1, <1>3, <1>5, <2>1 DEF RootType, RootState
<1> HIDE DEF r
<1>7. /\ r.owners # {} /\ \A o \in r.owners : o.request.id = q.id
      /\ \A c \in r.controls : c.id = q.id
      /\ r.runses \subseteq {q.id}
  BY <1>4, <1>5 DEF OnlyOf
<1>8. rroot' = r /\ rpc'[p] = "runs_temp" /\ rloc'[p] = rloc[p] /\ rlock' = rlock
  BY <1>2, RootDoes DEF RootPlace, RootLocked, Root!Building
<1>9. rroot.owner = <<>> => UnderWay(p)'
  BY <1>1, <1>2, <1>4, <1>5, <1>8 DEF UnderWay, RootLocked, Root!Building, OnlyOf, Clean
<1> QED BY <1>2, <1>5, <1>6, <1>7, <1>9, RootPiece DEF Root!Building

LEMMA RootMakesRuns ==
    ASSUME RootInv, NEW p \in Callers, Root!MakeRuns(p)
    PROVE  RootInv'
<1> DEFINE q == rloc[p].request
           r == [rroot EXCEPT !.runses = @ \cup {q.id}]
<1>1. RootType /\ UnderWay(p) /\ CallHolds(p)
  BY DEF RootInv
<1>2. /\ rpc[p] = "runs_temp" /\ Root!Do(p, r, "control_rename") /\ UNCHANGED rlock
      /\ rpc[p] \in Root!Building
  BY DEF Root!MakeRuns, Root!At, Root!Request, Root!Building
<1>3. q \in RootRequests /\ q.id \in RootIds
  BY <1>1, <1>2 DEF CallHolds, RootIds
<1>4. /\ rroot.owners = {[request |-> q, whole |-> TRUE]} /\ rroot.runses = {}
      /\ rroot.controls = {[id |-> q.id, locks |-> TRUE]}
  BY <1>1, <1>2 DEF UnderWay, OnlyOf, Clean
<1>5. /\ r.exists = rroot.exists /\ r.authority = rroot.authority /\ r.owner = rroot.owner
      /\ r.owners = {[request |-> q, whole |-> TRUE]} /\ r.runses = {q.id}
      /\ r.controls = {[id |-> q.id, locks |-> TRUE]}
  BY <1>1, <1>4 DEF RootType, RootState
<1>6. r \in RootState
  <2>1. /\ [request |-> q, whole |-> TRUE] \in [request : RootRequests, whole : BOOLEAN]
        /\ [request |-> q, whole |-> FALSE] \in [request : RootRequests, whole : BOOLEAN]
        /\ \A b \in BOOLEAN : [id |-> q.id, locks |-> b] \in [id : RootIds, locks : BOOLEAN]
    BY <1>3
  <2> QED BY <1>1, <1>3, <1>5, <2>1 DEF RootType, RootState
<1> HIDE DEF r
<1>7. /\ r.owners # {} /\ \A o \in r.owners : o.request.id = q.id
      /\ \A c \in r.controls : c.id = q.id
      /\ r.runses \subseteq {q.id}
  BY <1>4, <1>5 DEF OnlyOf
<1>8. rroot' = r /\ rpc'[p] = "control_rename" /\ rloc'[p] = rloc[p] /\ rlock' = rlock
  BY <1>2, RootDoes DEF RootPlace, RootLocked, Root!Building
<1>9. rroot.owner = <<>> => UnderWay(p)'
  BY <1>1, <1>2, <1>4, <1>5, <1>8 DEF UnderWay, RootLocked, Root!Building, OnlyOf, Clean
<1> QED BY <1>2, <1>5, <1>6, <1>7, <1>9, RootPiece DEF Root!Building

LEMMA RootRenamesControl ==
    ASSUME RootInv, NEW p \in Callers, Root!RenameControl(p)
    PROVE  RootInv'
<1> DEFINE q == rloc[p].request
           r == [rroot EXCEPT !.control = TRUE, !.controls = {c \in @ : c.id # q.id}]
<1>1. RootType /\ UnderWay(p) /\ CallHolds(p)
  BY DEF RootInv
<1>2. /\ rpc[p] = "control_rename" /\ Root!Do(p, r, "runs_rename") /\ UNCHANGED rlock
      /\ rpc[p] \in Root!Building
  BY DEF Root!RenameControl, Root!At, Root!Request, Root!Building
<1>3. q \in RootRequests /\ q.id \in RootIds
  BY <1>1, <1>2 DEF CallHolds, RootIds
<1>4. /\ rroot.owners = {[request |-> q, whole |-> TRUE]} /\ rroot.runses = {q.id}
      /\ rroot.controls = {[id |-> q.id, locks |-> TRUE]}
  BY <1>1, <1>2 DEF UnderWay, OnlyOf, Clean
<1>5. /\ r.exists = rroot.exists /\ r.authority = rroot.authority /\ r.owner = rroot.owner
      /\ r.owners = {[request |-> q, whole |-> TRUE]} /\ r.runses = {q.id}
      /\ r.controls = {} /\ r.control
  BY <1>1, <1>4 DEF RootType, RootState
<1>6. r \in RootState
  <2>1. /\ [request |-> q, whole |-> TRUE] \in [request : RootRequests, whole : BOOLEAN]
        /\ [request |-> q, whole |-> FALSE] \in [request : RootRequests, whole : BOOLEAN]
        /\ \A b \in BOOLEAN : [id |-> q.id, locks |-> b] \in [id : RootIds, locks : BOOLEAN]
    BY <1>3
  <2> QED BY <1>1, <1>3, <1>5, <2>1 DEF RootType, RootState
<1> HIDE DEF r
<1>7. /\ r.owners # {} /\ \A o \in r.owners : o.request.id = q.id
      /\ \A c \in r.controls : c.id = q.id
      /\ r.runses \subseteq {q.id}
  BY <1>4, <1>5 DEF OnlyOf
<1>8. rroot' = r /\ rpc'[p] = "runs_rename" /\ rloc'[p] = rloc[p] /\ rlock' = rlock
  BY <1>2, RootDoes DEF RootPlace, RootLocked, Root!Building
<1>9. rroot.owner = <<>> => UnderWay(p)'
  BY <1>1, <1>2, <1>4, <1>5, <1>8 DEF UnderWay, RootLocked, Root!Building, OnlyOf, Clean
<1> QED BY <1>2, <1>5, <1>6, <1>7, <1>9, RootPiece DEF Root!Building

LEMMA RootRenamesRuns ==
    ASSUME RootInv, NEW p \in Callers, Root!RenameRuns(p)
    PROVE  RootInv'
<1> DEFINE q == rloc[p].request
           r == [rroot EXCEPT !.runs = TRUE, !.runses = @ \ {q.id}]
<1>1. RootType /\ UnderWay(p) /\ CallHolds(p)
  BY DEF RootInv
<1>2. /\ rpc[p] = "runs_rename" /\ Root!Do(p, r, "marker_replace") /\ UNCHANGED rlock
      /\ rpc[p] \in Root!Building
  BY DEF Root!RenameRuns, Root!At, Root!Request, Root!Building
<1>3. q \in RootRequests /\ q.id \in RootIds
  BY <1>1, <1>2 DEF CallHolds, RootIds
<1>4. /\ rroot.owners = {[request |-> q, whole |-> TRUE]} /\ rroot.runses = {q.id}
      /\ rroot.controls = {} /\ rroot.control
  BY <1>1, <1>2 DEF UnderWay, OnlyOf, Clean
<1>5. /\ r.exists = rroot.exists /\ r.authority = rroot.authority /\ r.owner = rroot.owner
      /\ r.owners = {[request |-> q, whole |-> TRUE]} /\ r.runses = {}
      /\ r.controls = {} /\ r.control /\ r.runs
  BY <1>1, <1>4 DEF RootType, RootState
<1>6. r \in RootState
  <2>1. /\ [request |-> q, whole |-> TRUE] \in [request : RootRequests, whole : BOOLEAN]
        /\ [request |-> q, whole |-> FALSE] \in [request : RootRequests, whole : BOOLEAN]
        /\ \A b \in BOOLEAN : [id |-> q.id, locks |-> b] \in [id : RootIds, locks : BOOLEAN]
    BY <1>3
  <2> QED BY <1>1, <1>3, <1>5, <2>1 DEF RootType, RootState
<1> HIDE DEF r
<1>7. /\ r.owners # {} /\ \A o \in r.owners : o.request.id = q.id
      /\ \A c \in r.controls : c.id = q.id
      /\ r.runses \subseteq {q.id}
  BY <1>4, <1>5 DEF OnlyOf
<1>8. rroot' = r /\ rpc'[p] = "marker_replace" /\ rloc'[p] = rloc[p] /\ rlock' = rlock
  BY <1>2, RootDoes DEF RootPlace, RootLocked, Root!Building
<1>9. rroot.owner = <<>> => UnderWay(p)'
  <2>1. /\ \A o \in rroot'.owners : o.request.id = rloc'[p].request.id
        /\ \A c \in rroot'.controls : c.id = rloc'[p].request.id
        /\ rroot'.runses \subseteq {rloc'[p].request.id} /\ rroot'.owners # {}
    BY <1>7, <1>8
  <2>2. OnlyOf(rloc[p].request.id)'
    BY <2>1 DEF OnlyOf
  <2>3. /\ rpc'[p] \in RootLocked => rlock' = p /\ rroot'.exists /\ rroot'.authority
        /\ rroot.owner = <<>> => rroot'.owner = <<>>
    BY <1>1, <1>2, <1>5, <1>8 DEF UnderWay, RootLocked
  <2> QED BY <1>1, <1>2, <1>4, <1>5, <1>8, <2>1, <2>2, <2>3 DEF UnderWay
<1> QED BY <1>2, <1>5, <1>6, <1>7, <1>9, RootPiece DEF Root!Building

LEMMA RootReconcilesControl ==
    ASSUME RootInv, NEW p \in Callers, Root!ReconcileControl(p)
    PROVE  RootInv'
<1> DEFINE q == rloc[p].request
           r == [rroot EXCEPT !.control = TRUE, !.controls = {c \in @ : c.id # q.id}]
<1>1. RootType /\ UnderWay(p) /\ CallHolds(p)
  BY DEF RootInv
<1>2. /\ rpc[p] = "reconcile_control" /\ Root!Do(p, r, "reconcile_runs") /\ UNCHANGED rlock
      /\ rpc[p] \in Root!Building
  BY DEF Root!ReconcileControl, Root!At, Root!Request, Root!Building
<1>3. q \in RootRequests /\ q.id \in RootIds
  BY <1>1, <1>2 DEF CallHolds, RootIds
<1>4. rroot.owners # {} /\ OnlyOf(q.id) /\ (rroot.runs => rroot.runses = {})
  BY <1>1, <1>2 DEF UnderWay, OnlyOf, Clean
<1>5. /\ r.exists = rroot.exists /\ r.authority = rroot.authority /\ r.owner = rroot.owner
      /\ r.owners = rroot.owners /\ r.runses = rroot.runses /\ r.runs = rroot.runs
      /\ r.controls = {} /\ r.control
  <2>1. {c \in rroot.controls : c.id # q.id} = {}
    BY <1>4 DEF OnlyOf
  <2> DEFINE cs == {c \in rroot.controls : c.id # q.id}
  <2>2. r = [rroot EXCEPT !.control = TRUE, !.controls = cs]
    OBVIOUS
  <2> HIDE DEF r, cs
  <2>3. r = [rroot EXCEPT !.control = TRUE, !.controls = {}]
    BY <2>1, <2>2 DEF cs
  <2> QED BY <1>1, <2>3 DEF RootType, RootState
<1>6. r \in RootState
  <2>1. /\ [request |-> q, whole |-> TRUE] \in [request : RootRequests, whole : BOOLEAN]
        /\ [request |-> q, whole |-> FALSE] \in [request : RootRequests, whole : BOOLEAN]
        /\ \A b \in BOOLEAN : [id |-> q.id, locks |-> b] \in [id : RootIds, locks : BOOLEAN]
    BY <1>3
  <2> QED BY <1>1, <1>3, <1>5, <2>1 DEF RootType, RootState
<1> HIDE DEF r
<1>7. /\ r.owners # {} /\ \A o \in r.owners : o.request.id = q.id
      /\ \A c \in r.controls : c.id = q.id
      /\ r.runses \subseteq {q.id}
  BY <1>4, <1>5 DEF OnlyOf
<1>8. rroot' = r /\ rpc'[p] = "reconcile_runs" /\ rloc'[p] = rloc[p] /\ rlock' = rlock
  BY <1>2, RootDoes DEF RootPlace, RootLocked, Root!Building
<1>9. rroot.owner = <<>> => UnderWay(p)'
  <2>1. /\ \A o \in rroot'.owners : o.request.id = rloc'[p].request.id
        /\ \A c \in rroot'.controls : c.id = rloc'[p].request.id
        /\ rroot'.runses \subseteq {rloc'[p].request.id} /\ rroot'.owners # {}
    BY <1>7, <1>8
  <2>2. OnlyOf(rloc[p].request.id)'
    BY <2>1 DEF OnlyOf
  <2>3. /\ rpc'[p] \in RootLocked => rlock' = p /\ rroot'.exists /\ rroot'.authority
        /\ rroot.owner = <<>> => rroot'.owner = <<>>
    BY <1>1, <1>2, <1>5, <1>8 DEF UnderWay, RootLocked
  <2> QED BY <1>1, <1>2, <1>4, <1>5, <1>8, <2>1, <2>2, <2>3 DEF UnderWay
<1> QED BY <1>2, <1>5, <1>6, <1>7, <1>9, RootPiece DEF Root!Building


LEMMA RootReconcilesRuns ==
    ASSUME RootInv, NEW p \in Callers, Root!ReconcileRuns(p)
    PROVE  RootInv'
<1> DEFINE q == rloc[p].request
           r == [rroot EXCEPT !.runs = TRUE, !.runses = @ \ {q.id}]
<1>1. RootType /\ UnderWay(p) /\ CallHolds(p)
  BY DEF RootInv
<1>2. rpc[p] = "reconcile_runs" /\ rpc[p] \in Root!Building
  BY DEF Root!ReconcileRuns, Root!At, Root!Building
<1>3. CASE Root!Refuse(p, "transaction_publish_failed", "control_only")
  BY <1>2, <1>3, RootRefused DEF RootCode
<1>4. CASE Root!Do(p, r, "marker_replace") /\ UNCHANGED rlock
  <2>1. q \in RootRequests /\ q.id \in RootIds
    BY <1>1, <1>2 DEF CallHolds, RootIds
  <2>2. /\ rroot.owners # {} /\ OnlyOf(q.id) /\ rroot.control /\ rroot.controls = {}
    BY <1>1, <1>2 DEF UnderWay
  <2>3. rroot.runses \ {q.id} = {}
    BY <2>2 DEF OnlyOf
  <2>4. /\ r \in RootState
        /\ r.exists = rroot.exists /\ r.authority = rroot.authority /\ r.owner = rroot.owner
        /\ r.owners = rroot.owners /\ r.controls = rroot.controls /\ r.control = rroot.control
        /\ r.runs /\ r.runses = {}
    <3> DEFINE rs == rroot.runses \ {q.id}
    <3>1. r = [rroot EXCEPT !.runs = TRUE, !.runses = rs]
      OBVIOUS
    <3> HIDE DEF r, rs
    <3>2. r = [rroot EXCEPT !.runs = TRUE, !.runses = {}]
      BY <2>3, <3>1 DEF rs
    <3> QED BY <1>1, <3>2 DEF RootType, RootState
  <2> HIDE DEF r
  <2>5. /\ \A o \in r.owners : o.request.id = q.id
        /\ \A c \in r.controls : c.id = q.id
        /\ r.runses \subseteq {q.id} /\ r.owners # {}
    BY <2>2, <2>4 DEF OnlyOf
  <2>6. rroot' = r /\ rpc'[p] = "marker_replace" /\ rloc'[p] = rloc[p] /\ rlock' = rlock
    BY <1>4, RootDoes DEF RootPlace, RootLocked, Root!Building
  <2>7. OnlyOf(rloc[p].request.id)'
    BY <2>5, <2>6 DEF OnlyOf
  <2>8. /\ rpc'[p] \in RootLocked => rlock' = p /\ rroot'.exists /\ rroot'.authority
        /\ rroot.owner = <<>> => rroot'.owner = <<>>
    BY <1>1, <1>2, <2>4, <2>6 DEF UnderWay, RootLocked
  <2>9. rroot.owner = <<>> => UnderWay(p)'
    BY <2>2, <2>4, <2>5, <2>6, <2>7, <2>8 DEF UnderWay
  <2> QED BY <1>2, <1>4, <2>4, <2>5, <2>9, RootPiece DEF Root!Building
<1> QED BY <1>3, <1>4 DEF Root!ReconcileRuns, Root!Request

\* The marker is replaced last: from here on the root has an owner, and it is
\* whole.
LEMMA RootReplacesMarker ==
    ASSUME RootInv, NEW p \in Callers, Root!ReplaceMarker(p)
    PROVE  RootInv'
<1> DEFINE q == rloc[p].request
           os == {o \in rroot.owners : o.request.id # q.id}
           r == [rroot EXCEPT !.owner = <<q>>, !.owners = os]
<1>1. RootType /\ UnderWay(p) /\ CallHolds(p)
  BY DEF RootInv
<1>2. /\ rpc[p] = "marker_replace" /\ Root!Do(p, r, "final") /\ UNCHANGED rlock
      /\ rpc[p] \in Root!Building
  BY DEF Root!ReplaceMarker, Root!At, Root!Request, Root!Building
<1>3. q \in RootRequests
  BY <1>1, <1>2 DEF CallHolds
<1>4. /\ rroot.owner = <<>> /\ rroot.exists /\ rroot.authority
      /\ rroot.control /\ rroot.controls = {} /\ rroot.runs /\ rroot.runses = {}
      /\ OnlyOf(q.id)
  BY <1>1, <1>2 DEF UnderWay, RootLocked, Root!Building
<1>5. os = {}
  BY <1>4 DEF OnlyOf
<1> HIDE DEF os
<1>6. /\ r \in RootState
      /\ r.exists = rroot.exists /\ r.authority = rroot.authority /\ r.owner = <<q>>
      /\ r.owners = {} /\ r.controls = rroot.controls /\ r.control = rroot.control
      /\ r.runs = rroot.runs /\ r.runses = rroot.runses
  BY <1>1, <1>3, <1>5 DEF RootType, RootState
<1> HIDE DEF r
<1>7. rroot' = r /\ rpc'[p] = "final" /\ rloc'[p] = rloc[p] /\ rlock' = rlock
  BY <1>2, RootDoes DEF RootPlace, RootLocked, Root!Building
<1>8. Clean'
  BY <1>4, <1>6, <1>7 DEF Clean
<1>9. <<q>> # <<>>
  OBVIOUS
<1>10. RootShape'
  BY <1>4, <1>6, <1>7, <1>8, <1>9 DEF RootShape
<1>11. rlock = p => UnderWay(p)'
  BY <1>4, <1>6, <1>7 DEF UnderWay
<1> QED BY <1>2, <1>4, <1>6, <1>10, <1>11, RootDone DEF Root!Building

LEMMA RootFinishes ==
    ASSUME RootInv, NEW p \in Callers, Root!Finish(p)
    PROVE  RootInv'
<1>1. rpc[p] = "final" /\ rroot.owner = <<rloc[p].request>>
  BY DEF Root!Finish, Root!At, RootInv, UnderWay
<1>2. Root!Refuse(p, "initialized", "control_only")
  BY <1>1 DEF Root!Finish, Root!Request
<1> QED BY <1>1, <1>2, RootRefused DEF RootCode

LEMMA RootLockedReconciles ==
    ASSUME RootInv, NEW p \in Callers, Root!LockedReconcile(p)
    PROVE  RootInv'
<1> DEFINE q == rloc[p].request
           control_ == {c \in rroot.controls : c.id = q.id}
<1>1. RootType /\ RootShape /\ UnderWay(p) /\ CallHolds(p)
  BY DEF RootInv
<1>2. rpc[p] = "locked" /\ rlock = p /\ rroot.exists /\ rroot.authority
  BY <1>1 DEF Root!LockedReconcile, Root!At, UnderWay, RootLocked
<1>3. CASE Root!Status = "initialized"
  <2>1. rroot.owner # <<>> /\ ~changed[p]
    BY <1>1, <1>2, <1>3, StatusOfRoot DEF CallHolds
  <2>2. CASE rroot.owner[1] = q
    <3>1. rroot.owner = <<q>>
      BY <1>1, <2>1, <2>2, OwnerIsOne
    <3>2. Root!Refuse(p, "already_initialized", "none")
      BY <1>3, <2>2 DEF Root!LockedReconcile, Root!Request
    <3> QED BY <1>2, <2>1, <3>1, <3>2, RootRefused DEF RootCode
  <2>3. CASE rroot.owner[1] # q
    <3>1. Root!Refuse(p, "run_namespace_conflict", "none")
      BY <1>3, <2>3 DEF Root!LockedReconcile, Root!Request
    <3> QED BY <1>2, <2>1, <3>1, RootRefused DEF RootCode
  <2> QED BY <2>2, <2>3
<1>4. CASE \E c \in {"root_initialization_incomplete", "transaction_verification_failed",
                     "run_namespace_conflict", "transaction_publish_failed"} :
              Root!Refuse(p, c, "control_only")
  BY <1>2, <1>4, RootRefused DEF RootCode
<1>5. CASE /\ Root!Status = "incomplete" /\ Root!TemporaryIds(rroot) = {q.id}
           /\ [request |-> q, whole |-> TRUE] \in rroot.owners
           /\ ~(rroot.control /\ control_ # {})
           /\ ~(rroot.runs /\ q.id \in rroot.runses)
           /\ Root!Goto(p, IF rroot.control THEN "reconcile_runs" ELSE "reconcile_control")
           /\ UNCHANGED <<rroot, rlock, rloc, ranswer, changed>>
  <2> DEFINE l == IF rroot.control THEN "reconcile_runs" ELSE "reconcile_control"
  <2>1. rroot.owner = <<>> /\ OnlyOf(q.id)
    BY <1>1, <1>2, <1>5, StatusOfRoot, TemporaryEntries
  <2>2. rroot.control => rroot.controls = {}
    <3>1. \A c \in rroot.controls : c \in control_
      BY <2>1 DEF OnlyOf
    <3> QED BY <1>5, <3>1
  <2>3. rroot.runs => rroot.runses = {}
    BY <1>5, <2>1 DEF OnlyOf
  <2>4. /\ l \in {"reconcile_runs", "reconcile_control"} /\ rpc' = [rpc EXCEPT ![p] = l]
        /\ l = "reconcile_runs" => rroot.control
    BY <1>5 DEF Root!Goto
  <2> HIDE DEF l
  <2>5. rpc'[p] = l
    BY <1>1, <2>4 DEF RootType
  <2>6. OnlyOf(q.id)'
    BY <1>5, <2>1 DEF OnlyOf
  <2>7. UnderWay(p)'
    <3>1. rpc'[p] \in {"reconcile_runs", "reconcile_control"}
      BY <2>4, <2>5
    <3>2. /\ rlock' = p /\ rroot'.exists /\ rroot'.authority /\ rroot'.owner = <<>>
          /\ rroot'.owners # {} /\ rloc'[p] = rloc[p]
          /\ rroot'.runs => rroot'.runses = {}
          /\ rpc'[p] = "reconcile_runs" => rroot'.control /\ rroot'.controls = {}
      BY <1>2, <1>5, <2>1, <2>2, <2>3, <2>4, <2>5
    <3> QED BY <2>6, <3>1, <3>2 DEF UnderWay
  <2>8. CallHolds(p)'
    BY <1>1, <1>2, <1>5, <2>4, <2>5 DEF CallHolds
  <2>9. l \in RootPlace
    BY <2>4 DEF RootPlace, RootLocked, Root!Building
  <2> QED BY <1>5, <2>4, <2>7, <2>8, <2>9, RootGoesOn
<1> QED BY <1>3, <1>4, <1>5 DEF Root!LockedReconcile, Root!IncompleteOf, Root!Request

LEMMA RootBoundaryFails ==
    ASSUME RootInv, NEW p \in Callers, Root!BoundaryFails(p)
    PROVE  RootInv'
<1>1. rpc[p] # "idle"
  BY DEF Root!BoundaryFails, Root!Building
<1>2. /\ Root!Answer(p, "reconcile_me", "control_only")
      /\ UNCHANGED <<rroot, changed>>
  BY DEF Root!BoundaryFails
<1> QED BY <1>1, <1>2, RootAnswered DEF RootCode

LEMMA RootCrashes ==
    ASSUME RootInv, NEW p \in Callers, Root!Crash(p)
    PROVE  RootInv'
<1>1. RootType
  BY DEF RootInv
<1>2. /\ rpc' = [rpc EXCEPT ![p] = "idle"]
      /\ rloc' = [rloc EXCEPT ![p] = Root!NoCall]
      /\ ranswer' = [ranswer EXCEPT ![p] = Root!NoAnswer]
      /\ rlock' = IF rlock = p THEN "none" ELSE rlock
      /\ UNCHANGED <<rroot, changed>>
  BY DEF Root!Crash, Root!Goto, Root!None
<1>3. /\ Root!NoCall \in RootCall /\ Root!NoAnswer \in RootAnswer
      /\ Root!NoAnswer.code = "none"
  BY NoRequestIsNone DEF Root!NoCall, RootCall, Root!NoAnswer, RootAnswer, RootCode, Root!None
<1>4. RootType'
  BY <1>1, <1>2, <1>3 DEF RootType, RootPlace
<1>5. /\ rpc'[p] = "idle" /\ ranswer'[p].code = "none"
      /\ \A o \in Callers : o # p =>
            /\ rpc'[o] = rpc[o] /\ rloc'[o] = rloc[o] /\ changed'[o] = changed[o]
            /\ ranswer'[o] = ranswer[o] /\ (rlock = o => rlock' = o)
  BY <1>1, <1>2, <1>3 DEF RootType
<1>6. UnderWay(p)' /\ CallHolds(p)' /\ AnswerTrue(p)'
  BY <1>5 DEF UnderWay, CallHolds, AnswerTrue, RootLocked, Root!Building
<1> QED BY <1>2, <1>4, <1>5, <1>6, RootUntouched

-----------------------------------------------------------------------------
(* The invariant of the root.                                              *)

LEMMA RootInit ==
    Root!Init => RootInv
<1> SUFFICES ASSUME Root!Init PROVE RootInv
  OBVIOUS
<1>1. /\ rroot = Root!NoRoot /\ rlock = "none"
      /\ rpc = [p \in Callers |-> "idle"]
      /\ rloc = [p \in Callers |-> Root!NoCall]
      /\ ranswer = [p \in Callers |-> Root!NoAnswer]
      /\ changed = [p \in Callers |-> FALSE]
  BY DEF Root!Init, Root!None
<1>2. /\ Root!NoCall \in RootCall /\ Root!NoAnswer \in RootAnswer
      /\ Root!NoAnswer.code = "none"
  BY NoRequestIsNone DEF Root!NoCall, RootCall, Root!NoAnswer, RootAnswer, RootCode, Root!None
<1>3. RootType
  BY <1>1, <1>2, NoRequestIsNone DEF RootType, RootPlace
<1>4. RootShape
  BY <1>1 DEF RootShape, Clean, Root!NoRoot
<1>5. ASSUME NEW p \in Callers
      PROVE  UnderWay(p) /\ CallHolds(p) /\ AnswerTrue(p)
  <2>1. rpc[p] = "idle" /\ ranswer[p].code = "none"
    BY <1>1, <1>2
  <2> QED BY <2>1 DEF UnderWay, CallHolds, AnswerTrue, RootLocked, Root!Building
<1> QED BY <1>3, <1>4, <1>5 DEF RootInv

LEMMA RootNext ==
    RootInv /\ [Root!Next]_rootVars => RootInv'
<1> SUFFICES ASSUME RootInv, [Root!Next]_rootVars PROVE RootInv'
  OBVIOUS
<1>1. CASE Root!Next
  <2>1. PICK p \in Callers : Root!Step(p)
    BY <1>1 DEF Root!Next
  <2>2. CASE \E q \in RootRequests : Root!Begin(p, "initialize", q) \/ Root!Begin(p, "reconcile", q)
    BY <2>2, RootBegins
  <2>3. CASE Root!Preflight(p) \/ Root!PrepareRoot(p) \/ Root!Acquire(p) \/ Root!LockUnavailable(p)
    BY <2>3, RootPreflights, RootPrepares, RootAcquires, RootLockUnavailable
  <2>4. CASE Root!LockedInitialize(p) \/ Root!CreateOwnership(p) \/ Root!WriteOwnership(p)
    BY <2>4, RootLockedInitializes, RootCreatesOwnership, RootWritesOwnership
  <2>5. CASE Root!MakeControl(p) \/ Root!MakeLocks(p) \/ Root!MakeRuns(p)
    BY <2>5, RootMakesControl, RootMakesLocks, RootMakesRuns
  <2>6. CASE \/ Root!RenameControl(p) \/ Root!RenameRuns(p)
             \/ Root!ReplaceMarker(p) \/ Root!Finish(p)
    BY <2>6, RootRenamesControl, RootRenamesRuns, RootReplacesMarker, RootFinishes
  <2>7. CASE Root!LockedReconcile(p) \/ Root!ReconcileControl(p) \/ Root!ReconcileRuns(p)
    BY <2>7, RootLockedReconciles, RootReconcilesControl, RootReconcilesRuns
  <2>8. CASE Root!BoundaryFails(p) \/ Root!Crash(p)
    BY <2>8, RootBoundaryFails, RootCrashes
  <2> QED BY <2>1, <2>2, <2>3, <2>4, <2>5, <2>6, <2>7, <2>8 DEF Root!Step
<1>2. CASE UNCHANGED rootVars
  <2>1. UNCHANGED <<rroot, rlock, rpc, rloc, ranswer, changed>>
    BY <1>2 DEF rootVars
  <2>2. RootType' /\ RootShape'
    BY <2>1 DEF RootInv, RootType, RootShape, Clean, OnlyOf
  <2>3. ASSUME NEW q \in Callers
        PROVE  UnderWay(q)' /\ CallHolds(q)' /\ AnswerTrue(q)'
    <3>1. UnderWay(q) /\ CallHolds(q) /\ AnswerTrue(q)
      BY DEF RootInv
    <3>2. rpc[q] \in RootLocked => rlock' = q
      BY <2>1, LockedHasIt
    <3> QED BY <2>1, <3>1, <3>2, OthersHold
  <2> QED BY <2>2, <2>3 DEF RootInv
<1> QED BY <1>1, <1>2

LEMMA RootAnswersTrue ==
    RootInv => Root!RootAnswersAreTrue
  BY DEF RootInv, AnswerTrue, Root!RootAnswersAreTrue, Root!None


-----------------------------------------------------------------------------
(* The copy migration: types.                                              *)

Version == Nat \cup {Migration!Torn}
Content == [Migration!Files -> Version]
Complete == [Migration!Files -> Nat]
Copy == [source : Sources, files : Complete]

Stored ==
    [sentinel : BOOLEAN, tmps : SUBSET Migration!Files, files : Content]

Namespace ==
    [dir : {"absent", "partial", "ready"}, staging : SUBSET Copy, revisions : SUBSET Copy,
     current : {<<>>} \cup {<<c>> : c \in Copy}, settled : BOOLEAN]

MigrationCall ==
    [source : Sources \cup {"none"}, todo : SUBSET Migration!Files,
     tmps : SUBSET Migration!Files, seen : Complete, snap : Complete]

\* Before the snapshot; with a snapshot that is not yet compared; compared.
BeforeSnapshot == {"list1", "read1"}
Uncompared == {"destination", "reserve", "bootstrap", "admit", "verify", "list2", "read2"}
Compared == {"stage", "revision", "pointer", "settle", "migrated"}
MigrationPlace == BeforeSnapshot \cup Uncompared \cup Compared \cup {"idle"}

MigrationCode ==
    {"none", "ok", "legacy_run_unverified", "migration_source_changed", "lifecycle_policy_failed",
     "artifact_missing", "migration_source_busy", "migration_conflict", "cross_run_mismatch",
     "run_corrupt", "run_incomplete", "run_not_found", "budget_unsettled", "run_locked",
     "run_conflict", "budget_reservation_failed", "effect_unknown", "durability_unconfirmed",
     "budget_settlement_failed"}

MigrationEffect == {"none", "staging_orphan", "unreferenced_revision", "current_advanced"}

MigrationAnswer ==
    {Migration!NoAnswer} \cup
    [code : MigrationCode, effect : MigrationEffect, source : Sources \cup {Dest, "none"},
     snap : Complete]

MigrationType ==
    /\ src \in [Sources -> Stored]
    /\ writer \in [file : Migration!Files \cup {"none"}, version : Nat]
    /\ past \in [Sources -> SUBSET Content]
    /\ taken \in BOOLEAN
    /\ dest \in Namespace
    /\ mlock \in Callers \cup {"none"}
    /\ mpc \in [Callers -> MigrationPlace]
    /\ mloc \in [Callers -> MigrationCall]
    /\ manswer \in [Callers -> MigrationAnswer]
    /\ did \in [Callers -> BOOLEAN]

-----------------------------------------------------------------------------
(* The inductive invariant of the migration.  Versions only grow, so that   *)
(* what was seen twice was there at every instant between.                  *)

\* The artifact has reached this version, or left it behind for good.
Reached(s, f, v) ==
    IF src[s].files[f] = Migration!Torn THEN writer.version >= v ELSE src[s].files[f] >= v

LeftBehind(s, f, v) ==
    IF src[s].files[f] = Migration!Torn THEN writer.version >= v ELSE src[s].files[f] > v

\* A line is incomplete only while the writer of the live run is at it.
WriterHolds ==
    /\ writer.file = "none" => writer = Migration!Resting
    /\ \A s \in Sources, f \in Migration!Files :
          src[s].files[f] = Migration!Torn <=>
              s = Live /\ f \in Appended /\ writer.file = f

\* A content without an incomplete line is one the run has had.
PastHolds ==
    \A s \in Sources : src[s].files \in Complete => src[s].files \in past[s]

Clear(files) == \A f \in Migration!Files : files[f] \notin Sensitive

\* A copy of what the source was at one instant, with nothing to redact.
Genuine(c) == c.files \in past[c.source] /\ Clear(c.files)

CurrentIsGenuine == \A c \in Copy : dest.current = <<c>> => Genuine(c)

\* What a call knows of the source.
SourceHolds(p) ==
    LET l == mloc[p]
    IN  /\ mpc[p] # "idle" => l.source \in Sources
        /\ mpc[p] = "read1" => \A f \in Migration!Files : Reached(l.source, f, l.seen[f])
        /\ mpc[p] \in Uncompared \cup Compared => Clear(l.snap)
        /\ mpc[p] \in Uncompared \ {"read2"} =>
              \/ l.snap \in past[l.source]
              \/ \E f \in Migration!Files : LeftBehind(l.source, f, l.snap[f])
        /\ mpc[p] = "read2" =>
              \/ l.snap \in past[l.source]
              \/ \E f \in Migration!Files :
                    /\ LeftBehind(l.source, f, l.snap[f])
                    /\ f \in l.todo \/ l.seen[f] > l.snap[f]
        /\ mpc[p] \in Compared => l.snap \in past[l.source]

\* How far a call has come at the destination.
DestinationHolds(p) ==
    /\ mpc[p] \in Compared \cup {"bootstrap", "verify", "list2", "read2"} => mlock = p
    /\ mpc[p] \in Compared \cup {"admit", "verify", "list2", "read2"} => dest.dir = "ready"
    /\ mpc[p] \in {"settle", "migrated"} =>
          did[p] /\ dest.current = <<[source |-> mloc[p].source, files |-> mloc[p].snap]>>
    /\ mpc[p] = "migrated" => dest.settled
    /\ mpc[p] \notin {"settle", "migrated", "idle"} => ~did[p]
    /\ mpc[p] # "idle" => manswer[p] = Migration!NoAnswer

\* Migration!MigrationAnswersAreTrue, of one process.
MigrationAnswerTrue(p) ==
    /\ manswer[p].code = "ok" =>
          dest.current = <<[source |-> manswer[p].source, files |-> manswer[p].snap]>>
    /\ manswer[p].effect \in {"staging_orphan", "unreferenced_revision"} => ~did[p]
    /\ manswer[p].code \notin {"none", "ok"} /\ did[p] =>
          manswer[p].effect = "current_advanced" \/ manswer[p].code = "cross_run_mismatch"

MigrationInv ==
    /\ MigrationType /\ WriterHolds /\ PastHolds /\ CurrentIsGenuine
    /\ \A p \in Callers : SourceHolds(p) /\ DestinationHolds(p) /\ MigrationAnswerTrue(p)


-----------------------------------------------------------------------------
(* The world moves forward: what a process knows stays true.               *)

LEMMA TornIsNoVersion ==
    Migration!Torn \notin Nat /\ Migration!Torn # 0
  BY DEF Migration!Torn

LEMMA LeftMeansReached ==
    ASSUME MigrationType, NEW s \in Sources, NEW f \in Migration!Files, NEW v \in Nat
    PROVE  /\ LeftBehind(s, f, v) => Reached(s, f, v)
           /\ Reached(s, f, v) => src[s].files[f] = v \/ LeftBehind(s, f, v)
           /\ Reached(s, f, 0)
<1>1. src[s].files[f] \in Version /\ writer.version \in Nat
  BY DEF MigrationType, Stored, Content
<1> QED BY <1>1, TornIsNoVersion DEF Version, LeftBehind, Reached

Forward ==
    /\ \A s \in Sources : past[s] \subseteq past'[s]
    /\ \A s \in Sources, f \in Migration!Files, v \in Nat :
          /\ Reached(s, f, v) => Reached(s, f, v)'
          /\ LeftBehind(s, f, v) => LeftBehind(s, f, v)'
    /\ dest.current # <<>> => dest'.current = dest.current
    /\ dest.dir = "ready" => dest'.dir = "ready"
    /\ dest.settled => dest'.settled

LEMMA UnmovedIsForward ==
    ASSUME src' = src, writer' = writer, past' = past, dest' = dest
    PROVE  Forward
  BY DEF Forward, Reached, LeftBehind

\* What a process that does not move knows.
LEMMA OthersKnow ==
    ASSUME MigrationType, Forward, NEW q \in Callers,
           SourceHolds(q), DestinationHolds(q), MigrationAnswerTrue(q),
           mpc'[q] = mpc[q], mloc'[q] = mloc[q], manswer'[q] = manswer[q], did'[q] = did[q],
           mlock = q => mlock' = q
    PROVE  SourceHolds(q)' /\ DestinationHolds(q)' /\ MigrationAnswerTrue(q)'
<1>0. /\ mloc[q].seen \in Complete /\ mloc[q].snap \in Complete
      /\ mloc[q].source \in Sources \cup {"none"}
  BY DEF MigrationType, MigrationCall
<1>1. SourceHolds(q)'
  <2>1. mpc[q] # "idle" => mloc[q].source \in Sources
    BY DEF SourceHolds
  <2> DEFINE s == mloc[q].source
             a == mloc[q].seen
             b == mloc[q].snap
  <2>2. \A f \in Migration!Files : a[f] \in Nat /\ b[f] \in Nat
    BY <1>0 DEF Complete
  <2>3. s \in Sources =>
          /\ \A f \in Migration!Files :
                /\ Reached(s, f, a[f]) => Reached(s, f, a[f])'
                /\ LeftBehind(s, f, b[f]) => LeftBehind(s, f, b[f])'
          /\ b \in past[s] => b \in past'[s]
    <3> SUFFICES ASSUME s \in Sources
                 PROVE  /\ \A f \in Migration!Files :
                              /\ Reached(s, f, a[f]) => Reached(s, f, a[f])'
                              /\ LeftBehind(s, f, b[f]) => LeftBehind(s, f, b[f])'
                        /\ b \in past[s] => b \in past'[s]
      OBVIOUS
    <3>1. b \in past[s] => b \in past'[s]
      BY DEF Forward
    <3>2. ASSUME NEW f \in Migration!Files
          PROVE  /\ Reached(s, f, a[f]) => Reached(s, f, a[f])'
                 /\ LeftBehind(s, f, b[f]) => LeftBehind(s, f, b[f])'
      <4>1. mloc'[q] = mloc[q]
        OBVIOUS
      <4>2. \A v \in Nat : /\ Reached(s, f, v) => Reached(s, f, v)'
                           /\ LeftBehind(s, f, v) => LeftBehind(s, f, v)'
        BY <4>1 DEF Forward
      <4>3. Reached(s, f, a[f]) => Reached(s, f, a[f])'
        BY <2>2, <4>1, <4>2 DEF Reached
      <4>4. LeftBehind(s, f, b[f]) => LeftBehind(s, f, b[f])'
        BY <2>2, <4>1, <4>2 DEF LeftBehind
      <4> QED BY <4>3, <4>4
    <3> QED BY <3>1, <3>2
  <2>4. Clear(b) <=> Clear(b)'
    BY DEF Clear
  <2> QED BY <2>1, <2>3, <2>4 DEF SourceHolds, BeforeSnapshot, Uncompared, Compared
<1>2. DestinationHolds(q)'
  <2>1. \A x : <<x>> # <<>>
    OBVIOUS
  <2> DEFINE t == <<[source |-> mloc[q].source, files |-> mloc[q].snap]>>
  <2>2. t # <<>>
    BY <2>1
  <2>3. dest.current = t => dest'.current = t
    BY <2>2 DEF Forward
  <2>4. (dest.dir = "ready" => dest'.dir = "ready") /\ (dest.settled => dest'.settled)
    BY DEF Forward
  <2> QED BY <2>3, <2>4 DEF DestinationHolds
<1>3. MigrationAnswerTrue(q)'
  <2>1. \A x : <<x>> # <<>>
    OBVIOUS
  <2> DEFINE t == <<[source |-> manswer[q].source, files |-> manswer[q].snap]>>
  <2>2. t # <<>>
    BY <2>1
  <2>3. dest.current = t => dest'.current = t
    BY <2>2 DEF Forward
  <2> QED BY <2>3 DEF MigrationAnswerTrue
<1> QED BY <1>1, <1>2, <1>3

\* What was published stays genuine.
LEMMA GenuineStays ==
    ASSUME Forward, MigrationType, NEW c \in Copy, Genuine(c)
    PROVE  Genuine(c)'
  BY DEF Genuine, Clear, Forward, Copy

\* A step of the writer: no call moves.
LEMMA WriteKeeps ==
    ASSUME MigrationInv, Forward, MigrationType', WriterHolds', PastHolds',
           UNCHANGED <<dest, mlock, mpc, mloc, manswer, did>>
    PROVE  MigrationInv'
<1>1. ASSUME NEW q \in Callers
      PROVE  SourceHolds(q)' /\ DestinationHolds(q)' /\ MigrationAnswerTrue(q)'
  BY OthersKnow DEF MigrationInv
<1>2. CurrentIsGenuine'
  BY GenuineStays DEF MigrationInv, CurrentIsGenuine
<1> QED BY <1>1, <1>2 DEF MigrationInv

\* A step of a call, beside which nothing is written.
LEMMA CallKeeps ==
    ASSUME MigrationInv, Forward, MigrationType', UNCHANGED <<src, writer, past>>,
           CurrentIsGenuine', NEW p \in Callers,
           \A q \in Callers : q # p =>
              /\ mpc'[q] = mpc[q] /\ mloc'[q] = mloc[q] /\ manswer'[q] = manswer[q]
              /\ did'[q] = did[q] /\ (mlock = q => mlock' = q),
           SourceHolds(p)', DestinationHolds(p)', MigrationAnswerTrue(p)'
    PROVE  MigrationInv'
<1>1. ASSUME NEW q \in Callers, q # p
      PROVE  SourceHolds(q)' /\ DestinationHolds(q)' /\ MigrationAnswerTrue(q)'
  BY <1>1, OthersKnow DEF MigrationInv
<1>2. WriterHolds'
  BY DEF MigrationInv, WriterHolds
<1>3. PastHolds'
  BY DEF MigrationInv, PastHolds
<1> QED BY <1>1, <1>2, <1>3 DEF MigrationInv


-----------------------------------------------------------------------------
(* The steps of the flat writer.                                           *)

LEMMA FilesForward ==
    ASSUME MigrationType, MigrationType', WriterHolds, UNCHANGED dest,
           \A s \in Sources : s # Live => src'[s] = src[s],
           \A s \in Sources : past[s] \subseteq past'[s],
           \A f \in Migration!Files :
              \/ /\ src'[Live].files[f] = src[Live].files[f]
                 /\ src[Live].files[f] \in Nat \/ writer'.version = writer.version
              \/ /\ src[Live].files[f] \in Nat /\ src'[Live].files[f] \in Nat
                 /\ src'[Live].files[f] >= src[Live].files[f]
              \/ /\ src[Live].files[f] \in Nat /\ src'[Live].files[f] = Migration!Torn
                 /\ writer'.version = src[Live].files[f]
              \/ /\ src[Live].files[f] = Migration!Torn
                 /\ src'[Live].files[f] = writer.version + 1
    PROVE  Forward
<1>1. ASSUME NEW s \in Sources, NEW f \in Migration!Files, NEW v \in Nat
      PROVE  /\ Reached(s, f, v) => Reached(s, f, v)'
             /\ LeftBehind(s, f, v) => LeftBehind(s, f, v)'
  <2>1. /\ src[s].files[f] \in Version /\ src'[s].files[f] \in Version
        /\ writer.version \in Nat /\ writer'.version \in Nat
    BY DEF MigrationType, Stored, Content
  <2>2. CASE s # Live
    <3>1. src[s].files[f] # Migration!Torn /\ src'[s].files[f] = src[s].files[f]
      BY <2>2 DEF WriterHolds
    <3> QED BY <3>1 DEF Reached, LeftBehind
  <2>3. CASE s = Live
    <3> DEFINE x == src[s].files[f]
               y == src'[s].files[f]
               a == writer.version
               b == writer'.version
    <3>1. \/ y = x /\ (x \in Nat \/ b = a)
          \/ x \in Nat /\ y \in Nat /\ y >= x
          \/ x \in Nat /\ y = Migration!Torn /\ b = x
          \/ x = Migration!Torn /\ y = a + 1
      BY <2>3
    <3>2. /\ Reached(s, f, v) <=> IF x = Migration!Torn THEN a >= v ELSE x >= v
          /\ LeftBehind(s, f, v) <=> IF x = Migration!Torn THEN a >= v ELSE x > v
          /\ Reached(s, f, v)' <=> IF y = Migration!Torn THEN b >= v ELSE y >= v
          /\ LeftBehind(s, f, v)' <=> IF y = Migration!Torn THEN b >= v ELSE y > v
      BY DEF Reached, LeftBehind
    <3>3. x \in Version /\ y \in Version /\ a \in Nat /\ b \in Nat
      BY <2>1
    <3> HIDE DEF x, y, a, b
    <3> QED BY <3>1, <3>2, <3>3, TornIsNoVersion DEF Version
  <2> QED BY <2>2, <2>3
<1> QED BY <1>1 DEF Forward

LEMMA FilesOfLive ==
    ASSUME MigrationType
    PROVE  /\ Live \in Sources /\ src[Live] \in Stored
           /\ DOMAIN src = Sources /\ DOMAIN past = Sources
           /\ \A f \in Migration!Files : src[Live].files[f] \in Version
           /\ "none" \notin Migration!Files /\ Replaced \cap Appended = {}
           /\ \A f : f \in Replaced \/ f \in Appended <=> f \in Migration!Files
<1>1. Live \in Sources /\ "none" \notin Replaced \cup Appended /\ Replaced \cap Appended = {}
  BY LocalDataAssumption
<1>2. Migration!Files = Replaced \cup Appended
  BY DEF Migration!Files
<1>3. src[Live] \in Stored /\ DOMAIN src = Sources /\ DOMAIN past = Sources
  BY <1>1 DEF MigrationType
<1>4. \A f \in Migration!Files : src[Live].files[f] \in Version
  BY <1>3 DEF Stored, Content
<1> QED BY <1>1, <1>2, <1>3, <1>4

LEMMA MigrationCreatesRun ==
    ASSUME MigrationInv, Migration!CreateRun
    PROVE  MigrationInv'
<1>1. MigrationType /\ WriterHolds /\ PastHolds
  BY DEF MigrationInv
<1> DEFINE x == [src[Live] EXCEPT !.sentinel = TRUE]
<1>2. x \in Stored /\ x.files = src[Live].files
  BY <1>1, FilesOfLive DEF Stored
<1>3. /\ src' = [src EXCEPT ![Live] = x]
      /\ UNCHANGED <<writer, past, taken, dest, mlock, mpc, mloc, manswer, did>>
  BY DEF Migration!CreateRun
<1> HIDE DEF x
<1>4. MigrationType'
  BY <1>1, <1>2, <1>3 DEF MigrationType
<1>5. /\ \A s \in Sources : src'[s].files = src[s].files
      /\ \A s \in Sources : s # Live => src'[s] = src[s]
  BY <1>1, <1>2, <1>3 DEF MigrationType
<1>6. Forward
  BY <1>1, <1>3, <1>4, <1>5, FilesForward, FilesOfLive
<1>7. WriterHolds' /\ PastHolds'
  BY <1>1, <1>3, <1>5 DEF WriterHolds, PastHolds
<1> QED BY <1>3, <1>4, <1>6, <1>7, WriteKeeps

LEMMA MigrationWritesTemporary ==
    ASSUME MigrationInv, NEW f \in Replaced, Migration!WriteTemporary(f)
    PROVE  MigrationInv'
<1>1. MigrationType /\ WriterHolds /\ PastHolds
  BY DEF MigrationInv
<1> DEFINE x == [src[Live] EXCEPT !.tmps = @ \cup {f}]
<1>2. x \in Stored /\ x.files = src[Live].files
  BY <1>1, FilesOfLive DEF Stored
<1>3. /\ src' = [src EXCEPT ![Live] = x] /\ writer = Migration!Resting
      /\ writer' = [file |-> f, version |-> 0]
      /\ UNCHANGED <<past, taken, dest, mlock, mpc, mloc, manswer, did>>
  BY DEF Migration!WriteTemporary
<1> HIDE DEF x
<1>4. MigrationType'
  <2>1. writer' \in [file : Migration!Files \cup {"none"}, version : Nat]
    BY <1>1, <1>3, FilesOfLive
  <2> QED BY <1>1, <1>2, <1>3, <2>1 DEF MigrationType
<1>5. /\ \A s \in Sources : src'[s].files = src[s].files
      /\ \A s \in Sources : s # Live => src'[s] = src[s]
  BY <1>1, <1>2, <1>3 DEF MigrationType
<1>6. \A s \in Sources, g \in Migration!Files : src[s].files[g] # Migration!Torn
  <2>1. writer.file = "none"
    BY <1>3 DEF Migration!Resting, Migration!None
  <2> QED BY <1>1, <2>1, FilesOfLive DEF WriterHolds
<1>7. Forward
  <2>1. \A g \in Migration!Files : src[Live].files[g] \in Nat
    BY <1>1, <1>6, FilesOfLive DEF Version
  <2> QED BY <1>1, <1>3, <1>4, <1>5, <2>1, FilesForward, FilesOfLive
<1>8. WriterHolds'
  <2>1. writer'.file = f /\ f # "none" /\ f \notin Appended
    BY <1>1, <1>3, FilesOfLive
  <2> QED BY <1>5, <1>6, <2>1 DEF WriterHolds
<1>9. PastHolds'
  BY <1>1, <1>3, <1>5 DEF PastHolds
<1> QED BY <1>3, <1>4, <1>7, <1>8, <1>9, WriteKeeps

LEMMA MigrationReplacesArtifact ==
    ASSUME MigrationInv, NEW f \in Replaced, Migration!ReplaceArtifact(f)
    PROVE  MigrationInv'
<1>1. MigrationType /\ WriterHolds /\ PastHolds
  BY DEF MigrationInv
<1>2. f \in Migration!Files /\ f \notin Appended /\ Live \in Sources
  BY <1>1, FilesOfLive
<1>3. \A s \in Sources, g \in Migration!Files : src[s].files[g] \in Nat
  <2>1. writer.file = f
    BY DEF Migration!ReplaceArtifact
  <2>2. \A s \in Sources, g \in Migration!Files : src[s].files[g] # Migration!Torn
    BY <1>1, <1>2, <2>1 DEF WriterHolds
  <2> QED BY <1>1, <2>2 DEF MigrationType, Stored, Content, Version
<1> DEFINE n == src[Live].files[f] + 1
           fv == [src[Live].files EXCEPT ![f] = n]
           x == [src[Live] EXCEPT !.tmps = @ \ {f}, !.files = fv]
<1>4. /\ n \in Nat /\ n >= src[Live].files[f]
  BY <1>2, <1>3
<1>5. src' = [src EXCEPT ![Live] = x]
  BY <1>1, FilesOfLive, ZenonT(60) DEF Migration!ReplaceArtifact
<1> HIDE DEF n
<1>6. /\ fv \in Complete /\ fv[f] = n
      /\ \A g \in Migration!Files : g # f => fv[g] = src[Live].files[g]
  BY <1>1, <1>2, <1>3, <1>4, FilesOfLive DEF Stored, Content, Complete
<1>7. fv \in Content
  BY <1>6 DEF Complete, Content, Version
<1> HIDE DEF fv
<1>8. x \in Stored /\ x.files = fv
  BY <1>1, <1>7, FilesOfLive DEF Stored
<1> HIDE DEF x
<1>9. src'[Live].files = fv /\ \A s \in Sources : s # Live => src'[s] = src[s]
  BY <1>1, <1>2, <1>5, <1>8 DEF MigrationType
<1>10. /\ writer' = Migration!Resting /\ past' = [past EXCEPT ![Live] = @ \cup {fv}]
       /\ UNCHANGED <<taken, dest, mlock, mpc, mloc, manswer, did>>
  BY <1>9 DEF Migration!ReplaceArtifact, Migration!Contents
<1>11. /\ past'[Live] = past[Live] \cup {fv} /\ past' \in [Sources -> SUBSET Content]
       /\ \A s \in Sources : s # Live => past'[s] = past[s]
  BY <1>1, <1>2, <1>7, <1>10 DEF MigrationType
<1>12. MigrationType'
  <2>1. writer' \in [file : Migration!Files \cup {"none"}, version : Nat]
    BY <1>10 DEF Migration!Resting, Migration!None
  <2>2. src' \in [Sources -> Stored]
    BY <1>1, <1>5, <1>8 DEF MigrationType
  <2> QED BY <1>1, <1>10, <1>11, <2>1, <2>2 DEF MigrationType
<1>13. Forward
  <2>1. \A s \in Sources : past[s] \subseteq past'[s]
    BY <1>11
  <2>2. \A g \in Migration!Files :
            src[Live].files[g] \in Nat /\ src'[Live].files[g] \in Nat
            /\ src'[Live].files[g] >= src[Live].files[g]
    BY <1>2, <1>3, <1>4, <1>6, <1>9
  <2> QED BY <1>1, <1>9, <1>10, <1>12, <2>1, <2>2, FilesForward
<1>14. WriterHolds'
  <2>1. \A s \in Sources, g \in Migration!Files : src'[s].files[g] \in Nat
    BY <1>3, <1>6, <1>9 DEF Complete
  <2>2. writer'.file = "none"
    BY <1>10 DEF Migration!Resting, Migration!None
  <2> QED BY <1>1, <1>10, <2>1, <2>2, TornIsNoVersion, FilesOfLive DEF WriterHolds
<1>15. PastHolds'
  BY <1>1, <1>9, <1>11 DEF PastHolds
<1> QED BY <1>10, <1>12, <1>13, <1>14, <1>15, WriteKeeps


LEMMA MigrationAppendsLine ==
    ASSUME MigrationInv, NEW f \in Appended, NEW version, Migration!AppendLine(f, version)
    PROVE  MigrationInv'
<1>1. MigrationType /\ WriterHolds /\ PastHolds
  BY DEF MigrationInv
<1>2. f \in Migration!Files /\ Live \in Sources /\ f # "none"
  BY <1>1, FilesOfLive
<1>3. UNCHANGED <<taken, dest, mlock, mpc, mloc, manswer, did>>
  BY DEF Migration!AppendLine
\* The line is begun.
<1>4. CASE /\ writer = Migration!Resting /\ version = src[Live].files[f]
           /\ src' = [src EXCEPT ![Live].files[f] = Migration!Torn]
           /\ writer' = [file |-> f, version |-> version]
           /\ UNCHANGED past
  <2>1. \A s \in Sources, g \in Migration!Files : src[s].files[g] \in Nat
    <3>1. writer.file = "none"
      BY <1>4 DEF Migration!Resting, Migration!None
    <3>2. \A s \in Sources, g \in Migration!Files : src[s].files[g] # Migration!Torn
      BY <1>1, <3>1, FilesOfLive DEF WriterHolds
    <3> QED BY <1>1, <3>2 DEF MigrationType, Stored, Content, Version
  <2> DEFINE fv == [src[Live].files EXCEPT ![f] = Migration!Torn]
             x == [src[Live] EXCEPT !.files = fv]
  <2>2. src' = [src EXCEPT ![Live] = x]
    BY <1>1, <1>4, FilesOfLive
  <2>3. /\ fv \in Content /\ fv[f] = Migration!Torn
        /\ \A g \in Migration!Files : g # f => fv[g] = src[Live].files[g]
    BY <1>1, <1>2, <2>1, FilesOfLive DEF Stored, Content, Version
  <2> HIDE DEF fv
  <2>4. x \in Stored /\ x.files = fv
    BY <1>1, <2>3, FilesOfLive DEF Stored
  <2> HIDE DEF x
  <2>5. src'[Live].files = fv /\ \A s \in Sources : s # Live => src'[s] = src[s]
    BY <1>1, <1>2, <2>2, <2>4 DEF MigrationType
  <2>6. MigrationType'
    <3>1. writer' \in [file : Migration!Files \cup {"none"}, version : Nat]
      BY <1>2, <1>4, <2>1
    <3>2. src' \in [Sources -> Stored]
      BY <1>1, <2>2, <2>4 DEF MigrationType
    <3> QED BY <1>1, <1>3, <1>4, <3>1, <3>2 DEF MigrationType
  <2>7. Forward
    <3>1. \A s \in Sources : past[s] \subseteq past'[s]
      BY <1>4
    <3>2. ASSUME NEW g \in Migration!Files
          PROVE  \/ /\ src'[Live].files[g] = src[Live].files[g]
                    /\ src[Live].files[g] \in Nat
                 \/ /\ src[Live].files[g] \in Nat /\ src'[Live].files[g] = Migration!Torn
                    /\ writer'.version = src[Live].files[g]
      BY <1>2, <1>4, <2>1, <2>3, <2>5
    <3> QED BY <1>1, <1>3, <2>5, <2>6, <3>1, <3>2, FilesForward
  <2>8. WriterHolds'
    <3>1. writer'.file = f
      BY <1>4
    <3>2. \A s \in Sources, g \in Migration!Files :
              src'[s].files[g] = Migration!Torn <=> s = Live /\ g = f
      BY <1>2, <2>1, <2>3, <2>5, TornIsNoVersion
    <3> QED BY <1>2, <3>1, <3>2 DEF WriterHolds
  <2>9. PastHolds'
    <3>1. src'[Live].files \notin Complete
      BY <1>2, <2>3, <2>5, TornIsNoVersion DEF Complete
    <3> QED BY <1>1, <1>4, <2>5, <3>1 DEF PastHolds
  <2> QED BY <1>3, <2>6, <2>7, <2>8, <2>9, WriteKeeps
\* The line is complete.
<1>5. CASE /\ writer = [file |-> f, version |-> version]
           /\ src' = [src EXCEPT ![Live].files[f] = version + 1]
           /\ writer' = Migration!Resting
           /\ past' = [past EXCEPT ![Live] = @ \cup {Migration!Contents(Live)}]
  <2> DEFINE n == version + 1
             fv == [src[Live].files EXCEPT ![f] = n]
             x == [src[Live] EXCEPT !.files = fv]
  <2>1. writer.file = f /\ writer.version = version /\ version \in Nat /\ n \in Nat
    BY <1>1, <1>5 DEF MigrationType
  <2>2. src[Live].files[f] = Migration!Torn
    BY <1>1, <1>2, <2>1 DEF WriterHolds
  <2>3. \A s \in Sources, g \in Migration!Files :
            src[s].files[g] \in Nat \/ (s = Live /\ g = f)
    BY <1>1, <2>1 DEF WriterHolds, MigrationType, Stored, Content, Version
  <2>4. src' = [src EXCEPT ![Live] = x]
    BY <1>1, <1>5, FilesOfLive
  <2> HIDE DEF n
  <2>5. /\ fv \in Complete /\ fv[f] = n
        /\ \A g \in Migration!Files : g # f => fv[g] = src[Live].files[g]
    BY <1>1, <1>2, <2>1, <2>3, FilesOfLive DEF Stored, Content, Complete
  <2>6. fv \in Content
    BY <2>5 DEF Complete, Content, Version
  <2> HIDE DEF fv
  <2>7. x \in Stored /\ x.files = fv
    BY <1>1, <2>6, FilesOfLive DEF Stored
  <2> HIDE DEF x
  <2>8. src'[Live].files = fv /\ \A s \in Sources : s # Live => src'[s] = src[s]
    BY <1>1, <1>2, <2>4, <2>7 DEF MigrationType
  <2>9. past' = [past EXCEPT ![Live] = @ \cup {fv}]
    BY <1>5, <2>8 DEF Migration!Contents
  <2>10. /\ past'[Live] = past[Live] \cup {fv} /\ past' \in [Sources -> SUBSET Content]
         /\ \A s \in Sources : s # Live => past'[s] = past[s]
    BY <1>1, <1>2, <2>6, <2>9 DEF MigrationType
  <2>11. MigrationType'
    <3>1. writer' \in [file : Migration!Files \cup {"none"}, version : Nat]
      BY <1>5 DEF Migration!Resting, Migration!None
    <3>2. src' \in [Sources -> Stored]
      BY <1>1, <2>4, <2>7 DEF MigrationType
    <3> QED BY <1>1, <1>3, <2>10, <3>1, <3>2 DEF MigrationType
  <2>12. Forward
    <3>1. \A s \in Sources : past[s] \subseteq past'[s]
      BY <2>10
    <3>2. ASSUME NEW g \in Migration!Files
          PROVE  \/ /\ src'[Live].files[g] = src[Live].files[g]
                    /\ src[Live].files[g] \in Nat
                 \/ /\ src[Live].files[g] = Migration!Torn
                    /\ src'[Live].files[g] = writer.version + 1
      BY <1>2, <2>1, <2>2, <2>3, <2>5, <2>8 DEF n
    <3> QED BY <1>1, <1>3, <2>8, <2>11, <3>1, <3>2, FilesForward
  <2>13. WriterHolds'
    <3>1. \A s \in Sources, g \in Migration!Files : src'[s].files[g] \in Nat
      BY <2>3, <2>5, <2>8 DEF Complete
    <3>2. writer'.file = "none"
      BY <1>5 DEF Migration!Resting, Migration!None
    <3> QED BY <1>1, <1>5, <3>1, <3>2, TornIsNoVersion, FilesOfLive DEF WriterHolds
  <2>14. PastHolds'
    BY <1>1, <2>8, <2>10 DEF PastHolds
  <2> QED BY <1>3, <2>11, <2>12, <2>13, <2>14, WriteKeeps
<1> QED BY <1>4, <1>5 DEF Migration!AppendLine

LEMMA MigrationTakesName ==
    ASSUME MigrationInv, Migration!TakeName
    PROVE  MigrationInv'
<1>1. taken' = TRUE /\ UNCHANGED <<src, writer, past, dest, mlock, mpc, mloc, manswer, did>>
  BY DEF Migration!TakeName
<1>2. MigrationType'
  BY <1>1 DEF MigrationInv, MigrationType
<1>3. WriterHolds' /\ PastHolds' /\ Forward
  BY <1>1, UnmovedIsForward DEF MigrationInv, WriterHolds, PastHolds
<1> QED BY <1>1, <1>2, <1>3, WriteKeeps


-----------------------------------------------------------------------------
(* How a migration ends, and how it goes on.                               *)

LEMMA MigrationNoCall ==
    /\ Migration!NoCall \in MigrationCall
    /\ Migration!NoAnswer \in MigrationAnswer
    /\ Migration!NoAnswer.code = "none" /\ Migration!NoAnswer.effect = "none"
<1>1. [f \in Migration!Files |-> Migration!Absent] \in Complete
  BY DEF Complete, Migration!Absent
<1> QED BY <1>1 DEF Migration!NoCall, MigrationCall, Migration!None, MigrationAnswer,
                    Migration!NoAnswer

LEMMA MigrationIdle ==
    ASSUME NEW p, mpc'[p] = "idle"
    PROVE  SourceHolds(p)' /\ DestinationHolds(p)'
  BY DEF SourceHolds, DestinationHolds, BeforeSnapshot, Uncompared, Compared

LEMMA MigrationAnswered ==
    ASSUME MigrationInv, NEW p \in Callers, NEW c \in MigrationCode, NEW e \in MigrationEffect,
           Migration!Answer(p, c, e), UNCHANGED <<src, writer, past, taken, dest, did>>,
           c = "ok" =>
              dest.current = <<[source |-> mloc[p].source, files |-> mloc[p].snap]>>,
           e \in {"staging_orphan", "unreferenced_revision"} => ~did[p],
           c \notin {"none", "ok"} /\ did[p] =>
              e = "current_advanced" \/ c = "cross_run_mismatch"
    PROVE  MigrationInv'
<1>1. MigrationType
  BY DEF MigrationInv
<1> DEFINE a == [code |-> c, effect |-> e, source |-> mloc[p].source, snap |-> mloc[p].snap]
<1>2. /\ manswer' = [manswer EXCEPT ![p] = a]
      /\ mpc' = [mpc EXCEPT ![p] = "idle"]
      /\ mloc' = [mloc EXCEPT ![p] = Migration!NoCall]
      /\ mlock' = IF mlock = p THEN "none" ELSE mlock
  BY DEF Migration!Answer, Migration!Goto, Migration!Set, Migration!None
<1>3. /\ a \in MigrationAnswer /\ a.code = c /\ a.effect = e
      /\ a.source = mloc[p].source /\ a.snap = mloc[p].snap
  <2>1. mloc[p].source \in Sources \cup {"none"} /\ mloc[p].snap \in Complete
    BY <1>1 DEF MigrationType, MigrationCall
  <2> QED BY <2>1 DEF MigrationAnswer
<1> HIDE DEF a
<1>4. MigrationType'
  BY <1>1, <1>2, <1>3, MigrationNoCall DEF MigrationType, MigrationPlace
<1>5. /\ mpc'[p] = "idle" /\ manswer'[p] = a
      /\ \A q \in Callers : q # p =>
            /\ mpc'[q] = mpc[q] /\ mloc'[q] = mloc[q] /\ manswer'[q] = manswer[q]
            /\ did'[q] = did[q] /\ (mlock = q => mlock' = q)
  BY <1>1, <1>2 DEF MigrationType
<1>6. MigrationAnswerTrue(p)'
  BY <1>3, <1>5 DEF MigrationAnswerTrue
<1>7. CurrentIsGenuine'
  BY DEF MigrationInv, CurrentIsGenuine, Genuine, Clear
<1>8. Forward
  BY UnmovedIsForward
<1> QED BY <1>4, <1>5, <1>6, <1>7, <1>8, MigrationIdle, CallKeeps

\* A refusal that says that nothing was changed.
LEMMA MigrationRefused ==
    ASSUME MigrationInv, NEW p \in Callers, NEW c \in MigrationCode, c # "ok",
           Migration!legacy_failure(p, c),
           c = "cross_run_mismatch" \/ ~did[p]
    PROVE  MigrationInv'
<1>1. Migration!Answer(p, c, "none") /\ UNCHANGED <<src, writer, past, taken, dest, did>>
  BY DEF Migration!legacy_failure
<1> QED BY <1>1, MigrationAnswered DEF MigrationEffect

\* A step of a call that does not end it.
LEMMA MigrationMoves ==
    ASSUME MigrationInv, NEW p \in Callers, mpc[p] # "idle",
           NEW l \in MigrationPlace, NEW x \in MigrationCall,
           mpc' = [mpc EXCEPT ![p] = l], mloc' = [mloc EXCEPT ![p] = x],
           UNCHANGED <<src, writer, past, taken, manswer>>,
           dest' \in Namespace, Forward, CurrentIsGenuine',
           mlock' \in Callers \cup {"none"}, \A q \in Callers : q # p => (mlock = q => mlock' = q),
           NEW b \in BOOLEAN, did' = [did EXCEPT ![p] = b],
           /\ mpc'[p] = l /\ mloc'[p] = x /\ (did'[p] <=> b)
           => SourceHolds(p)' /\ ((manswer'[p] = Migration!NoAnswer) => DestinationHolds(p)')
    PROVE  MigrationInv'
<1>1. MigrationType /\ DestinationHolds(p)
  BY DEF MigrationInv
<1>2. MigrationType'
  BY <1>1 DEF MigrationType
<1>3. /\ mpc'[p] = l /\ mloc'[p] = x /\ (did'[p] <=> b)
      /\ \A q \in Callers : q # p =>
            /\ mpc'[q] = mpc[q] /\ mloc'[q] = mloc[q] /\ manswer'[q] = manswer[q]
            /\ did'[q] = did[q] /\ (mlock = q => mlock' = q)
  BY <1>1 DEF MigrationType
<1>4. manswer'[p] = Migration!NoAnswer
  BY <1>1 DEF DestinationHolds
<1>5. MigrationAnswerTrue(p)'
  BY <1>4, MigrationNoCall DEF MigrationAnswerTrue
<1> QED BY <1>2, <1>3, <1>4, <1>5, CallKeeps

\* A step of a call that leaves the destination alone.
LEMMA MigrationGoesOn ==
    ASSUME MigrationInv, NEW p \in Callers, mpc[p] # "idle",
           NEW l \in MigrationPlace, NEW x \in MigrationCall,
           mpc' = [mpc EXCEPT ![p] = l], mloc' = [mloc EXCEPT ![p] = x],
           UNCHANGED <<src, writer, past, taken, manswer, dest, did>>,
           mlock' \in {mlock, p}, mlock' = mlock \/ mlock = "none",
           /\ mpc'[p] = l /\ mloc'[p] = x
           => SourceHolds(p)' /\ ((manswer'[p] = Migration!NoAnswer) => DestinationHolds(p)')
    PROVE  MigrationInv'
<1>1. MigrationType
  BY DEF MigrationInv
<1>2. did' = [did EXCEPT ![p] = did[p]] /\ did[p] \in BOOLEAN
  BY <1>1 DEF MigrationType
<1>3. CurrentIsGenuine'
  BY DEF MigrationInv, CurrentIsGenuine, Genuine, Clear
<1>4. dest' \in Namespace /\ Forward /\ mlock' \in Callers \cup {"none"}
  BY <1>1, UnmovedIsForward DEF MigrationType
<1>5. \A q \in Callers : q # p => (mlock = q => mlock' = q)
  BY LocalDataAssumption
<1> QED BY <1>2, <1>3, <1>4, <1>5, MigrationMoves

LEMMA CallUnchanged ==
    ASSUME MigrationType, NEW p \in Callers
    PROVE  mloc = [mloc EXCEPT ![p] = mloc[p]] /\ mpc = [mpc EXCEPT ![p] = mpc[p]]
           /\ mloc[p] \in MigrationCall
  BY DEF MigrationType

\* read_current of the destination.
LEMMA ReadCurrentAnswers ==
    ASSUME MigrationType
    PROVE  /\ Migration!read_current \in
                 {"ok", "cross_run_mismatch", "run_corrupt", "run_incomplete", "run_not_found",
                  "budget_unsettled"}
           /\ Migration!read_current = "ok" => dest.current # <<>>
           /\ /\ dest.dir = "ready" /\ dest.current # <<>> /\ dest.settled
              => Migration!read_current \in {"ok", "cross_run_mismatch"}
<1>1. CASE taken
  <2>1. Migration!read_current = "cross_run_mismatch"
    BY <1>1 DEF Migration!read_current
  <2> QED BY <2>1
<1>2. CASE ~taken /\ dest.dir = "partial"
  <2>1. Migration!read_current = "run_corrupt"
    BY <1>2 DEF Migration!read_current
  <2> QED BY <1>2, <2>1
<1>3. CASE ~taken /\ dest.dir # "partial" /\ dest.current = <<>>
  <2>1. Migration!read_current \in {"run_incomplete", "run_not_found"}
    BY <1>3 DEF Migration!read_current, Migration!NoCurrent
  <2> QED BY <1>3, <2>1
<1>4. CASE ~taken /\ dest.dir # "partial" /\ dest.current # <<>>
  <2>1. Migration!read_current = IF dest.settled THEN "ok" ELSE "budget_unsettled"
    BY <1>4 DEF Migration!read_current, Migration!NoCurrent
  <2> QED BY <1>4, <2>1
<1> QED BY <1>1, <1>2, <1>3, <1>4


-----------------------------------------------------------------------------
(* The steps of migrate_legacy_run.                                        *)

LEMMA MigrationBegins ==
    ASSUME MigrationInv, NEW p \in Callers, NEW s \in Sources \cup {Dest},
           NEW acknowledged \in BOOLEAN, Migration!Begin(p, s, acknowledged)
    PROVE  MigrationInv'
<1>1. MigrationType
  BY DEF MigrationInv
<1>2. /\ mpc[p] = "idle" /\ did' = [did EXCEPT ![p] = FALSE]
      /\ UNCHANGED <<src, writer, past, taken, dest, mlock>>
  BY DEF Migration!Begin, Migration!At
<1>3. Forward /\ CurrentIsGenuine'
  BY <1>2, UnmovedIsForward DEF MigrationInv, CurrentIsGenuine, Genuine, Clear
<1>4. did' \in [Callers -> BOOLEAN] /\ ~did'[p] /\ \A q \in Callers : q # p => did'[q] = did[q]
  BY <1>1, <1>2 DEF MigrationType
<1> DEFINE refusal(c) == [code |-> c, effect |-> "none", source |-> s,
                          snap |-> Migration!NoCall.snap]
<1>5. CASE \E c \in {"migration_source_busy", "migration_conflict"} :
              manswer' = [manswer EXCEPT ![p] = refusal(c)] /\ UNCHANGED <<mpc, mloc>>
  <2>1. PICK c \in {"migration_source_busy", "migration_conflict"} :
            manswer' = [manswer EXCEPT ![p] = refusal(c)] /\ UNCHANGED <<mpc, mloc>>
    BY <1>5
  <2>2. refusal(c) \in MigrationAnswer /\ refusal(c).code = c /\ refusal(c).effect = "none"
    BY MigrationNoCall DEF MigrationAnswer, MigrationCode, MigrationEffect, MigrationCall
  <2> HIDE DEF refusal
  <2>3. MigrationType'
    BY <1>1, <1>2, <1>4, <2>1, <2>2 DEF MigrationType
  <2>4. /\ mpc'[p] = "idle" /\ manswer'[p] = refusal(c)
        /\ \A q \in Callers : q # p => manswer'[q] = manswer[q]
    BY <1>1, <1>2, <2>1, <2>2 DEF MigrationType
  <2>5. MigrationAnswerTrue(p)'
    BY <1>4, <2>2, <2>4 DEF MigrationAnswerTrue
  <2> QED BY <1>2, <1>3, <1>4, <2>1, <2>3, <2>4, <2>5, MigrationIdle, CallKeeps
<1>6. CASE /\ s # Dest
           /\ mloc' = [mloc EXCEPT ![p] = [Migration!NoCall EXCEPT !.source = s]]
           /\ mpc' = [mpc EXCEPT ![p] = "list1"]
           /\ manswer' = [manswer EXCEPT ![p] = Migration!NoAnswer]
  <2> DEFINE x == [Migration!NoCall EXCEPT !.source = s]
  <2>1. x \in MigrationCall /\ x.source = s /\ s \in Sources
    BY <1>6, MigrationNoCall DEF MigrationCall
  <2> HIDE DEF x
  <2>2. mloc' = [mloc EXCEPT ![p] = x]
    BY <1>6 DEF x
  <2>3. MigrationType'
    BY <1>1, <1>2, <1>4, <1>6, <2>1, <2>2, MigrationNoCall
       DEF MigrationType, MigrationPlace, BeforeSnapshot
  <2>4. /\ mpc'[p] = "list1" /\ mloc'[p] = x /\ manswer'[p] = Migration!NoAnswer
        /\ \A q \in Callers : q # p =>
              mpc'[q] = mpc[q] /\ mloc'[q] = mloc[q] /\ manswer'[q] = manswer[q]
    BY <1>1, <1>6, <2>2 DEF MigrationType
  <2>5. SourceHolds(p)'
    BY <2>1, <2>4 DEF SourceHolds, Uncompared, Compared
  <2>6. DestinationHolds(p)'
    BY <1>4, <2>4 DEF DestinationHolds, Compared
  <2>7. MigrationAnswerTrue(p)'
    BY <1>4, <2>4, MigrationNoCall DEF MigrationAnswerTrue
  <2> QED BY <1>2, <1>3, <1>4, <2>3, <2>4, <2>5, <2>6, <2>7, CallKeeps
<1> QED BY <1>5, <1>6 DEF Migration!Begin, Migration!Set, Migration!Goto

\* The facts of a call that is under way.
LEMMA CallUnderWay ==
    ASSUME MigrationInv, NEW p \in Callers, mpc[p] # "idle"
    PROVE  /\ MigrationType /\ SourceHolds(p) /\ DestinationHolds(p)
           /\ mloc[p] \in MigrationCall /\ mloc[p].source \in Sources
           /\ mloc[p].seen \in Complete /\ mloc[p].snap \in Complete
  BY DEF MigrationInv, MigrationType, MigrationCall, SourceHolds

LEMMA MigrationLists ==
    ASSUME MigrationInv, NEW p \in Callers, NEW k \in 1..2, Migration!List(p, k)
    PROVE  MigrationInv'
<1> DEFINE s == mloc[p].source
           todo == {f \in Migration!Files : src[s].files[f] # Migration!Absent}
           tmps == src[s].tmps
           seen == [f \in Migration!Files |-> Migration!Absent]
           x == [mloc[p] EXCEPT !.todo = todo, !.tmps = tmps, !.seen = seen]
           from == Migration!Listing(k)
           l == Migration!Reading(k)
<1>1. mpc[p] = from /\ (k = 1 => from = "list1" /\ l = "read1")
      /\ (k = 2 => from = "list2" /\ l = "read2") /\ k \in {1, 2}
  BY DEF Migration!List, Migration!At, Migration!Listing, Migration!Reading
<1> HIDE DEF from
<1>2. MigrationType /\ SourceHolds(p) /\ DestinationHolds(p) /\ s \in Sources
      /\ mloc[p] \in MigrationCall /\ mloc[p].snap \in Complete
  BY <1>1, CallUnderWay
<1>3. /\ mloc' = [mloc EXCEPT ![p] = x] /\ mpc' = [mpc EXCEPT ![p] = l]
      /\ UNCHANGED <<src, writer, past, taken, manswer, dest, did, mlock>>
  BY DEF Migration!List, Migration!Set, Migration!Goto, Migration!Locally
<1>4. todo \in SUBSET Migration!Files /\ tmps \in SUBSET Migration!Files /\ seen \in Complete
  BY <1>2 DEF MigrationType, Stored, Complete, Migration!Absent
<1>5. \A f \in Migration!Files : f \notin todo => src[s].files[f] = 0
  BY DEF Migration!Absent
<1>6. \A f \in Migration!Files : seen[f] = 0
  BY DEF Migration!Absent
<1> HIDE DEF todo, tmps, seen
<1>7. /\ x \in MigrationCall /\ x.source = s /\ x.snap = mloc[p].snap
      /\ x.seen = seen /\ x.todo = todo
  BY <1>2, <1>4 DEF MigrationCall
<1> HIDE DEF x
<1>8. ASSUME mpc'[p] = l, mloc'[p] = x
      PROVE  SourceHolds(p)'
  <2>1. CASE k = 1
    <3>1. \A f \in Migration!Files : Reached(s, f, seen[f])
      BY <1>2, <1>6, LeftMeansReached
    <3>2. \A f \in Migration!Files : Reached(s, f, seen[f])'
      BY <1>3, <1>7, <1>8, <3>1 DEF Reached, s, seen
    <3>3. mpc'[p] = "read1"
      BY <1>1, <1>8, <2>1
    <3> QED BY <1>2, <1>7, <1>8, <3>2, <3>3 DEF SourceHolds, Uncompared, Compared, Reached
  <2>2. CASE k = 2
    <3>1. mpc'[p] = "read2" /\ mpc[p] = "list2"
      BY <1>1, <1>8, <2>2
    <3>2. /\ Clear(x.snap)
          /\ \/ x.snap \in past[s]
             \/ \E f \in Migration!Files : LeftBehind(s, f, x.snap[f])
      BY <1>2, <1>7, <3>1 DEF SourceHolds, Uncompared
    <3>3. ASSUME NEW f \in Migration!Files, LeftBehind(s, f, x.snap[f])
          PROVE  f \in todo
      <4>1. x.snap[f] \in Nat
        BY <1>2, <1>7 DEF Complete
      <4>2. src[s].files[f] # 0
        BY <3>3, <4>1, TornIsNoVersion DEF LeftBehind
      <4> QED BY <1>5, <4>2
    <3>4. \/ x.snap \in past[s]
          \/ \E f \in Migration!Files : LeftBehind(s, f, x.snap[f]) /\ f \in x.todo
      BY <1>7, <3>2, <3>3
    <3>5. /\ Clear(mloc'[p].snap) /\ mloc'[p].source = s
          /\ \/ mloc'[p].snap \in past'[s]
             \/ \E f \in Migration!Files :
                   LeftBehind(s, f, x.snap[f]) /\ f \in mloc'[p].todo
      BY <1>3, <1>7, <1>8, <3>2, <3>4
    <3>6. \A f \in Migration!Files :
              LeftBehind(s, f, x.snap[f])
              <=> LeftBehind(mloc[p].source, f, mloc[p].snap[f])'
      BY <1>3, <1>7, <1>8 DEF LeftBehind
    <3> QED BY <1>2, <1>7, <1>8, <3>1, <3>5, <3>6 DEF SourceHolds, Uncompared, Compared, Clear
  <2> QED BY <1>1, <2>1, <2>2
<1>9. ASSUME mpc'[p] = l, mloc'[p] = x, manswer'[p] = Migration!NoAnswer
      PROVE  DestinationHolds(p)'
  BY <1>1, <1>2, <1>3, <1>9 DEF DestinationHolds, Compared
<1>10. l \in MigrationPlace /\ mpc[p] # "idle"
  BY <1>1 DEF MigrationPlace, BeforeSnapshot, Uncompared
<1> QED BY <1>3, <1>7, <1>8, <1>9, <1>10, MigrationGoesOn


LEMMA MigrationReads ==
    ASSUME MigrationInv, NEW p \in Callers, NEW k \in 1..2, Migration!ReadArtifact(p, k)
    PROVE  MigrationInv'
<1> DEFINE s == mloc[p].source
           from == Migration!Reading(k)
<1>1. mpc[p] = from /\ (k = 1 => from = "read1") /\ (k = 2 => from = "read2") /\ k \in {1, 2}
  <2>1. mpc[p] = from
    BY DEF Migration!ReadArtifact, Migration!At
  <2> HIDE DEF from
  <2>2. (k = 1 => from = "read1") /\ (k = 2 => from = "read2") /\ k \in {1, 2}
    BY DEF from, Migration!Reading
  <2> QED BY <2>1, <2>2
<1>2. from \in {"read1", "read2"}
  BY <1>1
<1> HIDE DEF from
<1>3. /\ MigrationType /\ SourceHolds(p) /\ DestinationHolds(p) /\ s \in Sources
      /\ mloc[p] \in MigrationCall /\ mloc[p].snap \in Complete /\ mloc[p].seen \in Complete
  BY <1>1, <1>2, CallUnderWay
<1>4. ~did[p]
  BY <1>1, <1>2, <1>3 DEF DestinationHolds
<1>5. UNCHANGED <<src, writer, past, taken, dest, did>>
  BY DEF Migration!ReadArtifact
<1>6. CASE Migration!Uninspectable(p, k)
  <2>1. \/ Migration!Answer(p, "legacy_run_unverified", "none")
        \/ Migration!Answer(p, "migration_source_changed", "staging_orphan")
    BY <1>6 DEF Migration!Uninspectable
  <2> QED BY <1>4, <1>5, <2>1, MigrationAnswered DEF MigrationCode, MigrationEffect
<1>7. ASSUME NEW f \in mloc[p].todo, src[s].files[f] # Migration!Torn,
             mloc' = [mloc EXCEPT ![p] = [mloc[p] EXCEPT !.todo = @ \ {f},
                                                         !.seen[f] = src[s].files[f]]],
             UNCHANGED <<mpc, mlock, manswer>>
      PROVE  MigrationInv'
  <2> DEFINE v == src[s].files[f]
             todo == mloc[p].todo \ {f}
             seen == [mloc[p].seen EXCEPT ![f] = v]
             x == [mloc[p] EXCEPT !.todo = todo, !.seen = seen]
  <2>1. f \in Migration!Files /\ v \in Nat
    BY <1>3, <1>7 DEF MigrationCall, MigrationType, Stored, Content, Version
  <2>2. mloc' = [mloc EXCEPT ![p] = x]
    BY <1>7
  <2>3. todo \in SUBSET Migration!Files /\ seen \in Complete /\ seen[f] = v
        /\ \A g \in Migration!Files : g # f => seen[g] = mloc[p].seen[g]
    BY <1>3, <2>1 DEF MigrationCall, Complete
  <2>4. \A g \in Migration!Files : g \in mloc[p].todo => g = f \/ g \in todo
    OBVIOUS
  <2> HIDE DEF todo, seen
  <2>5. /\ x \in MigrationCall /\ x.source = s /\ x.snap = mloc[p].snap
        /\ x.seen = seen /\ x.todo = todo
    BY <1>3, <2>3 DEF MigrationCall
  <2> HIDE DEF x
  <2>6. ASSUME mpc'[p] = from, mloc'[p] = x
        PROVE  SourceHolds(p)'
    <3>1. CASE k = 1
      <4>1. ASSUME NEW g \in Migration!Files
            PROVE  Reached(s, g, seen[g])
        <5>1. CASE g = f
          <6>1. v >= v
            BY <2>1
          <6> QED BY <1>7, <2>1, <2>3, <5>1, <6>1 DEF Reached
        <5>2. CASE g # f
          BY <1>1, <1>3, <2>3, <3>1, <5>2 DEF SourceHolds
        <5> QED BY <5>1, <5>2
      <4>2. \A g \in Migration!Files :
                Reached(s, g, x.seen[g]) <=> Reached(mloc[p].source, g, mloc[p].seen[g])'
        BY <1>5, <2>5, <2>6 DEF Reached
      <4>3. mpc'[p] = "read1"
        BY <1>1, <2>6, <3>1
      <4>4. /\ mloc'[p].source \in Sources
            /\ \A g \in Migration!Files : Reached(mloc[p].source, g, mloc[p].seen[g])'
        BY <1>3, <2>5, <2>6, <4>1, <4>2
      <4> QED BY <4>3, <4>4 DEF SourceHolds, Uncompared, Compared
    <3>2. CASE k = 2
      <4>1. mpc'[p] = "read2" /\ mpc[p] = "read2"
        BY <1>1, <2>6, <3>2
      <4>2. /\ Clear(x.snap)
            /\ \/ x.snap \in past[s]
               \/ \E g \in Migration!Files :
                     /\ LeftBehind(s, g, x.snap[g])
                     /\ g \in mloc[p].todo \/ mloc[p].seen[g] > x.snap[g]
        BY <1>3, <2>5, <4>1 DEF SourceHolds, Uncompared
      <4>3. ASSUME NEW g \in Migration!Files, LeftBehind(s, g, x.snap[g]),
                   g \in mloc[p].todo \/ mloc[p].seen[g] > x.snap[g]
            PROVE  g \in x.todo \/ x.seen[g] > x.snap[g]
        <5>1. CASE g = f
          <6>1. v > x.snap[g]
            BY <1>7, <4>3, <5>1 DEF LeftBehind
          <6> QED BY <2>3, <2>5, <5>1, <6>1
        <5>2. CASE g # f
          BY <2>3, <2>4, <2>5, <4>3, <5>2
        <5> QED BY <5>1, <5>2
      <4>4. \/ x.snap \in past[s]
            \/ \E g \in Migration!Files : /\ LeftBehind(s, g, x.snap[g])
                                          /\ g \in x.todo \/ x.seen[g] > x.snap[g]
        BY <4>2, <4>3
      <4>5. \A g \in Migration!Files :
                LeftBehind(s, g, x.snap[g])
                <=> LeftBehind(mloc[p].source, g, mloc[p].snap[g])'
        BY <1>5, <2>5, <2>6 DEF LeftBehind
      <4>6. /\ mloc'[p].source \in Sources /\ Clear(mloc'[p].snap)
            /\ \/ mloc'[p].snap \in past'[mloc'[p].source]
               \/ \E g \in Migration!Files :
                     /\ LeftBehind(mloc[p].source, g, mloc[p].snap[g])'
                     /\ g \in mloc'[p].todo \/ mloc'[p].seen[g] > mloc'[p].snap[g]
        BY <1>3, <1>5, <2>5, <2>6, <4>2, <4>4, <4>5
      <4> QED BY <4>1, <4>6 DEF SourceHolds, Uncompared, Compared, Clear
    <3> QED BY <1>1, <3>1, <3>2
  <2>7. ASSUME mpc'[p] = from, mloc'[p] = x, manswer'[p] = Migration!NoAnswer
        PROVE  DestinationHolds(p)'
    BY <1>1, <1>2, <1>3, <1>5, <1>7, <2>7 DEF DestinationHolds, Compared
  <2>8. from \in MigrationPlace /\ mpc[p] # "idle" /\ mpc' = [mpc EXCEPT ![p] = from]
    BY <1>1, <1>2, <1>3, <1>7, CallUnchanged DEF MigrationPlace, BeforeSnapshot, Uncompared
  <2> QED BY <1>5, <1>7, <2>2, <2>5, <2>6, <2>7, <2>8, MigrationGoesOn, ZenonT(60)
<1> QED BY <1>6, <1>7 DEF Migration!ReadArtifact, Migration!Set

LEMMA CopyCodeAnswers ==
    ASSUME NEW files
    PROVE  /\ Migration!CopyCode(files) \in {"ok", "lifecycle_policy_failed", "artifact_missing"}
           /\ Migration!CopyCode(files) = "ok" => Clear(files)
<1>1. CASE \E f \in Migration!Files : files[f] \in Sensitive
  <2>1. Migration!CopyCode(files) \in {"lifecycle_policy_failed", "artifact_missing"}
    BY <1>1 DEF Migration!CopyCode
  <2> QED BY <2>1
<1>2. CASE ~\E f \in Migration!Files : files[f] \in Sensitive
  <2>1. Migration!CopyCode(files) \in {"ok", "artifact_missing", "lifecycle_policy_failed"}
    BY <1>2 DEF Migration!CopyCode
  <2> QED BY <1>2, <2>1 DEF Clear
<1> QED BY <1>1, <1>2

LEMMA MigrationTakesSnapshot ==
    ASSUME MigrationInv, NEW p \in Callers, Migration!Snapshot(p)
    PROVE  MigrationInv'
<1> DEFINE s == mloc[p].source
           code == Migration!CopyCode(mloc[p].seen)
<1>1. mpc[p] = "read1"
  BY DEF Migration!Snapshot, Migration!Inspected, Migration!At, Migration!Reading
<1>2. /\ MigrationType /\ SourceHolds(p) /\ DestinationHolds(p) /\ s \in Sources
      /\ mloc[p] \in MigrationCall /\ mloc[p].seen \in Complete
  BY <1>1, CallUnderWay
<1>3. ~did[p]
  BY <1>1, <1>2 DEF DestinationHolds
<1>4. /\ code \in {"ok", "lifecycle_policy_failed", "artifact_missing"}
      /\ code = "ok" => Clear(mloc[p].seen)
  BY CopyCodeAnswers
<1> HIDE DEF code
<1>5. CASE Migration!legacy_failure(p, "legacy_run_unverified")
  BY <1>3, <1>5, MigrationRefused DEF MigrationCode
<1>6. CASE code # "ok" /\ Migration!legacy_failure(p, code)
  BY <1>3, <1>4, <1>6, MigrationRefused DEF MigrationCode
<1>7. CASE /\ code = "ok"
           /\ mloc' = [mloc EXCEPT ![p] = [Migration!NoCall EXCEPT !.source = mloc[p].source,
                                                                   !.snap = mloc[p].seen]]
           /\ mpc' = [mpc EXCEPT ![p] = "destination"]
           /\ UNCHANGED <<mlock, src, writer, past, taken, dest, manswer, did>>
  <2> DEFINE x == [Migration!NoCall EXCEPT !.source = mloc[p].source, !.snap = mloc[p].seen]
  <2>1. x \in MigrationCall /\ x.source = s /\ x.snap = mloc[p].seen
    BY <1>2, MigrationNoCall DEF MigrationCall
  <2> HIDE DEF x
  <2>2. mloc' = [mloc EXCEPT ![p] = x]
    BY <1>7 DEF x
  <2>3. \/ x.snap \in past[s]
        \/ \E f \in Migration!Files : LeftBehind(s, f, x.snap[f])
    <3>1. \A f \in Migration!Files :
              mloc[p].seen[f] \in Nat /\ Reached(s, f, mloc[p].seen[f])
      BY <1>1, <1>2 DEF SourceHolds, Complete
    <3>2. \A f \in Migration!Files :
              \/ src[s].files[f] = mloc[p].seen[f]
              \/ LeftBehind(s, f, mloc[p].seen[f])
      BY <1>2, <3>1, LeftMeansReached
    <3>3. CASE \A f \in Migration!Files : src[s].files[f] = mloc[p].seen[f]
      <4>1. src[s].files = mloc[p].seen
        BY <1>2, <3>3 DEF MigrationType, Stored, Content, Complete
      <4> QED BY <1>2, <2>1, <4>1 DEF MigrationInv, PastHolds
    <3> QED BY <2>1, <3>2, <3>3
  <2>4. ASSUME mpc'[p] = "destination", mloc'[p] = x
        PROVE  SourceHolds(p)'
    <3>1. \A g \in Migration!Files :
              LeftBehind(s, g, x.snap[g])
              <=> LeftBehind(mloc[p].source, g, mloc[p].snap[g])'
      BY <1>7, <2>1, <2>4 DEF LeftBehind
    <3>2. /\ mloc'[p].source \in Sources /\ Clear(mloc'[p].snap)
          /\ \/ mloc'[p].snap \in past'[mloc'[p].source]
             \/ \E g \in Migration!Files : LeftBehind(mloc[p].source, g, mloc[p].snap[g])'
      BY <1>2, <1>4, <1>7, <2>1, <2>3, <2>4, <3>1
    <3> QED BY <2>4, <3>2 DEF SourceHolds, Uncompared, Compared, Clear
  <2>5. ASSUME mpc'[p] = "destination", mloc'[p] = x, manswer'[p] = Migration!NoAnswer
        PROVE  DestinationHolds(p)'
    BY <1>3, <1>7, <2>5 DEF DestinationHolds, Compared
  <2> QED BY <1>1, <1>7, <2>1, <2>2, <2>4, <2>5, MigrationGoesOn
          DEF MigrationPlace, Uncompared
<1> QED BY <1>5, <1>6, <1>7 DEF Migration!Snapshot, Migration!Set, Migration!Goto,
                                Migration!Locally, code


-----------------------------------------------------------------------------
(* The steps at the destination.                                           *)

LEMMA NamespaceKinds ==
    ASSUME MigrationType
    PROVE  /\ Migration!namespace_kind \in {"mixed", "legacy", "product", "none"}
           /\ Migration!namespace_kind = "none" => dest.dir = "absent"
           /\ Migration!namespace_kind = "product" => dest.dir # "absent"
<1>1. CASE taken /\ dest.dir # "absent"
  <2>1. Migration!namespace_kind = "mixed"
    BY <1>1 DEF Migration!namespace_kind
  <2> QED BY <2>1
<1>2. CASE taken /\ dest.dir = "absent"
  <2>1. Migration!namespace_kind = "legacy"
    BY <1>2 DEF Migration!namespace_kind
  <2> QED BY <2>1
<1>3. CASE ~taken /\ dest.dir # "absent"
  <2>1. Migration!namespace_kind = "product"
    BY <1>3 DEF Migration!namespace_kind
  <2> QED BY <1>3, <2>1
<1>4. CASE ~taken /\ dest.dir = "absent"
  <2>1. Migration!namespace_kind = "none"
    BY <1>4 DEF Migration!namespace_kind, Migration!None
  <2> QED BY <1>4, <2>1
<1> QED BY <1>1, <1>2, <1>3, <1>4

\* A call that keeps its snapshot knows of the source what it knew.
LEMMA SourceKept ==
    ASSUME NEW p, SourceHolds(p), UNCHANGED <<src, writer, past>>, mloc'[p] = mloc[p],
           \/ mpc[p] \in Uncompared \ {"read2"} /\ mpc'[p] \in Uncompared \ {"read2"}
           \/ mpc[p] \in Compared /\ mpc'[p] \in Compared
           \/ /\ mpc[p] = "read2" /\ mpc'[p] \in Compared
              /\ mloc[p].snap \in past[mloc[p].source]
    PROVE  SourceHolds(p)'
<1>1. mloc[p].source \in Sources /\ Clear(mloc[p].snap)
  BY DEF SourceHolds, Uncompared, Compared
<1>2. Clear(mloc[p].snap)' /\ mloc'[p].source \in Sources
  BY <1>1 DEF Clear
<1>3. CASE mpc[p] \in Uncompared \ {"read2"} /\ mpc'[p] \in Uncompared \ {"read2"}
  <2>1. \/ mloc[p].snap \in past[mloc[p].source]
        \/ \E f \in Migration!Files : LeftBehind(mloc[p].source, f, mloc[p].snap[f])
    BY <1>3 DEF SourceHolds
  <2>2. \A f \in Migration!Files :
            LeftBehind(mloc[p].source, f, mloc[p].snap[f])
            <=> LeftBehind(mloc[p].source, f, mloc[p].snap[f])'
    BY DEF LeftBehind
  <2>3. \/ mloc'[p].snap \in past'[mloc'[p].source]
        \/ \E f \in Migration!Files : LeftBehind(mloc[p].source, f, mloc[p].snap[f])'
    BY <2>1, <2>2
  <2> QED BY <1>2, <1>3, <2>3 DEF SourceHolds, Uncompared, Compared
<1>4. CASE mpc'[p] \in Compared /\ mloc[p].snap \in past[mloc[p].source]
  BY <1>2, <1>4 DEF SourceHolds, Uncompared, Compared
<1>5. mpc[p] \in Compared => mloc[p].snap \in past[mloc[p].source]
  BY DEF SourceHolds
<1> QED BY <1>3, <1>4, <1>5

\* A call that only changes its place, and may take the lock.
LEMMA MigrationAdvances ==
    ASSUME MigrationInv, NEW p \in Callers, mpc[p] # "idle", NEW l \in MigrationPlace,
           mpc' = [mpc EXCEPT ![p] = l],
           UNCHANGED <<mloc, src, writer, past, taken, manswer, dest, did>>,
           mlock' \in {mlock, p}, mlock' = mlock \/ mlock = "none",
           \/ mpc[p] \in Uncompared \ {"read2"} /\ l \in Uncompared \ {"read2"}
           \/ mpc[p] = "read2" /\ l \in Compared /\ mloc[p].snap \in past[mloc[p].source],
           mpc'[p] = l /\ manswer'[p] = Migration!NoAnswer => DestinationHolds(p)'
    PROVE  MigrationInv'
<1>1. MigrationType /\ SourceHolds(p) /\ mloc[p] \in MigrationCall
  BY CallUnderWay
<1>2. mloc' = [mloc EXCEPT ![p] = mloc[p]]
  BY <1>1, CallUnchanged
<1>3. mpc'[p] = l => SourceHolds(p)'
  BY <1>1, SourceKept
<1> QED BY <1>1, <1>2, <1>3, MigrationGoesOn

LEMMA MigrationFindsDestination ==
    ASSUME MigrationInv, NEW p \in Callers, Migration!Destination(p)
    PROVE  MigrationInv'
<1>1. mpc[p] = "destination"
  BY DEF Migration!Destination, Migration!At
<1>2. MigrationType /\ DestinationHolds(p) /\ ~did[p]
  BY <1>1, CallUnderWay DEF DestinationHolds
<1>3. CASE \E c \in {"cross_run_mismatch", "migration_conflict"} : Migration!legacy_failure(p, c)
  BY <1>2, <1>3, MigrationRefused DEF MigrationCode
<1>4. CASE Migration!read_current # "ok" /\ Migration!legacy_failure(p, Migration!read_current)
  <2>1. Migration!read_current \in MigrationCode
    BY <1>2, ReadCurrentAnswers DEF MigrationCode
  <2> HIDE DEF Migration!read_current
  <2> QED BY <1>2, <1>4, <2>1, MigrationRefused
<1>5. CASE /\ Migration!read_current = "ok" /\ Migration!ReplayAdmitted(p)
           /\ Migration!Answer(p, "ok", "none")
           /\ UNCHANGED <<src, writer, past, taken, dest, did>>
  <2>1. dest.current # <<>>
    BY <1>2, <1>5, ReadCurrentAnswers
  <2>2. dest.current = <<[source |-> mloc[p].source, files |-> mloc[p].snap]>>
    BY <1>2, <1>5, <2>1 DEF Migration!ReplayAdmitted, Migration!Transaction, MigrationType, Namespace
  <2> QED BY <1>2, <1>5, <2>2, MigrationAnswered DEF MigrationCode, MigrationEffect
<1>6. CASE /\ mpc' = [mpc EXCEPT ![p] = "reserve"]
           /\ UNCHANGED <<mloc, mlock, src, writer, past, taken, dest, manswer, did>>
  <2>1. mpc'[p] = "reserve" /\ manswer'[p] = Migration!NoAnswer => DestinationHolds(p)'
    BY <1>2, <1>6 DEF DestinationHolds, Compared
  <2> QED BY <1>1, <1>6, <2>1, MigrationAdvances DEF MigrationPlace, Uncompared
<1> DEFINE kind == Migration!namespace_kind
<1>7. kind \in {"mixed", "legacy", "product", "none"}
  BY <1>2, NamespaceKinds
<1>8. CASE kind = "mixed"
  <2>1. Migration!legacy_failure(p, "cross_run_mismatch")
    BY <1>8 DEF Migration!Destination, Migration!None
  <2> QED BY <1>3, <2>1
<1>9. CASE kind = "legacy"
  <2>1. Migration!legacy_failure(p, "migration_conflict")
    BY <1>9 DEF Migration!Destination, Migration!None
  <2> QED BY <1>3, <2>1
<1>10. CASE kind = "product"
  <2>1. IF Migration!read_current # "ok" THEN Migration!legacy_failure(p, Migration!read_current)
        ELSE IF Migration!ReplayAdmitted(p)
             THEN /\ Migration!Answer(p, "ok", "none")
                  /\ UNCHANGED <<src, writer, past, taken, dest, did, mleft>>
        ELSE Migration!legacy_failure(p, "migration_conflict")
    BY <1>10 DEF Migration!Destination, Migration!None
  <2> QED BY <1>3, <1>4, <1>5, <2>1
<1>11. CASE kind = "none"
  <2>1. Migration!Goto(p, "reserve") /\ UNCHANGED <<mloc, mlock>> /\ Migration!Locally(p)
    BY <1>11 DEF Migration!Destination, Migration!None
  <2> QED BY <1>6, <2>1 DEF Migration!Goto, Migration!Locally
<1> QED BY <1>7, <1>8, <1>9, <1>10, <1>11

\* A step that changes the destination and goes on.
LEMMA MigrationWrites ==
    ASSUME MigrationInv, NEW p \in Callers, NEW l \in MigrationPlace,
           \/ mpc[p] \in Uncompared \ {"read2"} /\ l \in Uncompared \ {"read2"}
           \/ mpc[p] \in Compared /\ l \in Compared,
           mpc' = [mpc EXCEPT ![p] = l],
           UNCHANGED <<mloc, src, writer, past, taken, manswer>>,
           NEW b \in BOOLEAN, did' = [did EXCEPT ![p] = b],
           dest' \in Namespace,
           dest.current # <<>> => dest'.current = dest.current,
           dest.dir = "ready" => dest'.dir = "ready",
           dest.settled => dest'.settled,
           \/ dest'.current = dest.current
           \/ /\ mpc[p] \in Compared
              /\ dest'.current = <<[source |-> mloc[p].source, files |-> mloc[p].snap]>>,
           \/ mlock' = mlock
           \/ mlock = "none" /\ mlock' = p
           \/ mlock = p /\ mlock' = "none",
           mpc'[p] = l /\ (did'[p] <=> b) /\ manswer'[p] = Migration!NoAnswer
           => DestinationHolds(p)'
    PROVE  MigrationInv'
<1>0. mpc[p] # "idle"
  BY DEF Uncompared, Compared
<1>1. MigrationType /\ SourceHolds(p) /\ mloc[p] \in MigrationCall
  BY <1>0, CallUnderWay
<1>2. mloc' = [mloc EXCEPT ![p] = mloc[p]]
  BY <1>1, CallUnchanged
<1>3. mpc'[p] = l => SourceHolds(p)'
  BY <1>1, SourceKept
<1>4. Forward
  BY DEF Forward, Reached, LeftBehind
<1>5. CurrentIsGenuine'
  <2>1. SUFFICES ASSUME NEW c \in Copy, dest'.current = <<c>>
                 PROVE  Genuine(c)'
    BY DEF CurrentIsGenuine
  <2>2. CASE dest'.current = dest.current
    BY <1>1, <1>4, <2>1, <2>2, GenuineStays DEF MigrationInv, CurrentIsGenuine
  <2>3. CASE /\ mpc[p] \in Compared
             /\ dest'.current = <<[source |-> mloc[p].source, files |-> mloc[p].snap]>>
    <3>1. c = [source |-> mloc[p].source, files |-> mloc[p].snap]
      <4> DEFINE t == [source |-> mloc[p].source, files |-> mloc[p].snap]
      <4>1. <<c>> = <<t>>
        BY <2>1, <2>3
      <4> HIDE DEF t
      <4>2. c = t
        BY <4>1
      <4> QED BY <4>2 DEF t
    <3>2. mloc[p].snap \in past[mloc[p].source] /\ Clear(mloc[p].snap)
      BY <1>1, <2>3 DEF SourceHolds
    <3>3. Genuine(c)
      BY <3>1, <3>2 DEF Genuine
    <3> QED BY <1>1, <1>4, <3>3, GenuineStays
  <2> QED BY <2>2, <2>3
<1>6. /\ mlock' \in Callers \cup {"none"}
      /\ \A q \in Callers : q # p => (mlock = q => mlock' = q)
  BY <1>1, LocalDataAssumption DEF MigrationType
<1> QED BY <1>0, <1>1, <1>2, <1>3, <1>4, <1>5, <1>6, MigrationMoves, ZenonT(60)


LEMMA DidKept ==
    ASSUME MigrationType, NEW p \in Callers
    PROVE  did = [did EXCEPT ![p] = did[p]] /\ did[p] \in BOOLEAN
  BY DEF MigrationType

LEMMA MigrationReserves ==
    ASSUME MigrationInv, NEW p \in Callers, Migration!Reserve(p)
    PROVE  MigrationInv'
<1>1. mpc[p] = "reserve"
  BY DEF Migration!Reserve, Migration!At
<1>2. MigrationType /\ DestinationHolds(p) /\ ~did[p]
  BY <1>1, CallUnderWay DEF DestinationHolds
<1>3. CASE Migration!legacy_failure(p, "migration_conflict")
  BY <1>2, <1>3, MigrationRefused DEF MigrationCode
<1>4. CASE /\ mlock = "none" /\ Migration!namespace_kind = "none" /\ mlock' = p
           /\ dest' = [dest EXCEPT !.dir = "partial"]
           /\ mpc' = [mpc EXCEPT ![p] = "bootstrap"]
           /\ UNCHANGED <<src, writer, past, taken, mloc, manswer, did>>
  <2>1. dest.dir = "absent"
    BY <1>2, <1>4, NamespaceKinds
  <2>2. /\ dest' \in Namespace /\ dest'.current = dest.current /\ dest'.settled = dest.settled
    BY <1>2, <1>4 DEF MigrationType, Namespace
  <2>3. did' = [did EXCEPT ![p] = did[p]] /\ did[p] \in BOOLEAN
    BY <1>2, <1>4, DidKept
  <2>4. /\ mpc'[p] = "bootstrap" /\ (did'[p] <=> did[p]) /\ manswer'[p] = Migration!NoAnswer
        => DestinationHolds(p)'
    BY <1>2, <1>4 DEF DestinationHolds, Compared
  <2> QED BY <1>1, <1>4, <2>1, <2>2, <2>3, <2>4, MigrationWrites DEF MigrationPlace, Uncompared
<1> QED BY <1>3, <1>4 DEF Migration!Reserve, Migration!Goto, Migration!None

LEMMA MigrationBootstraps ==
    ASSUME MigrationInv, NEW p \in Callers, Migration!Bootstrap(p)
    PROVE  MigrationInv'
<1>1. /\ mpc[p] = "bootstrap" /\ dest' = [dest EXCEPT !.dir = "ready"] /\ mlock' = "none"
      /\ mpc' = [mpc EXCEPT ![p] = "admit"]
      /\ UNCHANGED <<src, writer, past, taken, mloc, manswer, did>>
  BY DEF Migration!Bootstrap, Migration!At, Migration!Goto, Migration!None
<1>2. MigrationType /\ DestinationHolds(p) /\ ~did[p] /\ mlock = p
  BY <1>1, CallUnderWay DEF DestinationHolds
<1>3. /\ dest' \in Namespace /\ dest'.current = dest.current /\ dest'.settled = dest.settled
      /\ dest'.dir = "ready"
  BY <1>1, <1>2 DEF MigrationType, Namespace
<1>4. did' = [did EXCEPT ![p] = did[p]] /\ did[p] \in BOOLEAN
  BY <1>1, <1>2, DidKept
<1>5. /\ mpc'[p] = "admit" /\ (did'[p] <=> did[p]) /\ manswer'[p] = Migration!NoAnswer
      => DestinationHolds(p)'
  BY <1>2, <1>3 DEF DestinationHolds, Compared
<1> QED BY <1>1, <1>2, <1>3, <1>4, <1>5, MigrationWrites DEF MigrationPlace, Uncompared

LEMMA MigrationBootstrapFails ==
    ASSUME MigrationInv, NEW p \in Callers,
           Migration!BootstrapFails(p) \/ Migration!ReserveBudgetFails(p)
    PROVE  MigrationInv'
<1>1. /\ mpc[p] \in {"bootstrap", "admit"} /\ UNCHANGED <<src, writer, past, taken, dest, did>>
      /\ \E c \in {"migration_conflict", "budget_reservation_failed"} :
            Migration!Answer(p, c, "none")
  BY DEF Migration!BootstrapFails, Migration!ReserveBudgetFails, Migration!At
<1>2. ~did[p]
  BY <1>1, CallUnderWay DEF DestinationHolds
<1> QED BY <1>1, <1>2, MigrationAnswered DEF MigrationCode, MigrationEffect

LEMMA MigrationAdmits ==
    ASSUME MigrationInv, NEW p \in Callers, Migration!Admit(p)
    PROVE  MigrationInv'
<1>1. mpc[p] = "admit"
  BY DEF Migration!Admit, Migration!At
<1>2. MigrationType /\ DestinationHolds(p) /\ ~did[p] /\ dest.dir = "ready"
  BY <1>1, CallUnderWay DEF DestinationHolds
<1>3. CASE \E c \in {"run_locked", "cross_run_mismatch", "run_conflict"} :
              Migration!legacy_failure(p, c)
  BY <1>2, <1>3, MigrationRefused DEF MigrationCode
<1>4. CASE /\ mlock = "none" /\ mlock' = p /\ mpc' = [mpc EXCEPT ![p] = "verify"]
           /\ UNCHANGED <<mloc, src, writer, past, taken, dest, manswer, did>>
  <2>1. mpc'[p] = "verify" /\ manswer'[p] = Migration!NoAnswer => DestinationHolds(p)'
    BY <1>2, <1>4 DEF DestinationHolds, Compared
  <2> QED BY <1>1, <1>4, <2>1, MigrationAdvances DEF MigrationPlace, Uncompared
<1> QED BY <1>3, <1>4 DEF Migration!Admit, Migration!Goto, Migration!Locally, Migration!None

LEMMA MigrationVerifiesDestination ==
    ASSUME MigrationInv, NEW p \in Callers, Migration!VerifyDestination(p)
    PROVE  MigrationInv'
<1>1. mpc[p] = "verify"
  BY DEF Migration!VerifyDestination, Migration!At
<1>2. MigrationType /\ DestinationHolds(p) /\ ~did[p] /\ dest.dir = "ready" /\ mlock = p
  BY <1>1, CallUnderWay DEF DestinationHolds
<1>3. CASE Migration!legacy_failure(p, "cross_run_mismatch")
  BY <1>2, <1>3, MigrationRefused DEF MigrationCode
<1>4. CASE /\ Migration!read_current \notin {"ok", "run_not_found"}
           /\ Migration!legacy_failure(p, Migration!read_current)
  <2>1. Migration!read_current \in MigrationCode
    BY <1>2, ReadCurrentAnswers DEF MigrationCode
  <2> HIDE DEF Migration!read_current
  <2> QED BY <1>2, <1>4, <2>1, MigrationRefused
<1>5. CASE /\ Migration!Answer(p, "migration_conflict", "staging_orphan")
           /\ UNCHANGED <<src, writer, past, taken, dest, did>>
  BY <1>2, <1>5, MigrationAnswered DEF MigrationCode, MigrationEffect
<1>6. CASE /\ mpc' = [mpc EXCEPT ![p] = "list2"]
           /\ UNCHANGED <<mloc, mlock, src, writer, past, taken, dest, manswer, did>>
  <2>1. mpc'[p] = "list2" /\ manswer'[p] = Migration!NoAnswer => DestinationHolds(p)'
    BY <1>2, <1>6 DEF DestinationHolds, Compared
  <2> QED BY <1>1, <1>6, <2>1, MigrationAdvances DEF MigrationPlace, Uncompared
<1> QED BY <1>3, <1>4, <1>5, <1>6
        DEF Migration!VerifyDestination, Migration!Goto, Migration!Locally

\* The two inspections saw the same: it was there between them.
LEMMA MigrationVerifiesSource ==
    ASSUME MigrationInv, NEW p \in Callers, Migration!VerifySource(p)
    PROVE  MigrationInv'
<1>1. mpc[p] = "read2" /\ mloc[p].todo = {}
  BY DEF Migration!VerifySource, Migration!Inspected, Migration!At, Migration!Reading
<1>2. /\ MigrationType /\ SourceHolds(p) /\ DestinationHolds(p) /\ ~did[p]
      /\ dest.dir = "ready" /\ mlock = p
      /\ mloc[p].snap \in Complete
  BY <1>1, CallUnderWay DEF DestinationHolds
<1>3. CASE /\ Migration!Answer(p, "migration_source_changed", "staging_orphan")
           /\ UNCHANGED <<src, writer, past, taken, dest, did>>
  BY <1>2, <1>3, MigrationAnswered DEF MigrationCode, MigrationEffect
<1>4. CASE /\ mloc[p].snap = mloc[p].seen
           /\ mpc' = [mpc EXCEPT ![p] = "stage"]
           /\ UNCHANGED <<mloc, mlock, src, writer, past, taken, dest, manswer, did>>
  <2>1. mloc[p].snap \in past[mloc[p].source]
    <3>1. \A f \in Migration!Files : ~(mloc[p].seen[f] > mloc[p].snap[f])
      BY <1>2, <1>4 DEF Complete
    <3> QED BY <1>1, <1>2, <3>1 DEF SourceHolds
  <2>2. mpc'[p] = "stage" /\ manswer'[p] = Migration!NoAnswer => DestinationHolds(p)'
    BY <1>2, <1>4 DEF DestinationHolds, Compared
  <2> QED BY <1>1, <1>4, <2>1, <2>2, MigrationAdvances DEF MigrationPlace, Compared
<1> QED BY <1>3, <1>4 DEF Migration!VerifySource, Migration!same_legacy_snapshot,
                          Migration!Goto, Migration!Locally

LEMMA MigrationStages ==
    ASSUME MigrationInv, NEW p \in Callers, Migration!Stage(p) \/ Migration!Revision(p)
    PROVE  MigrationInv'
<1> DEFINE t == Migration!Transaction(p)
<1>1. mpc[p] \in {"stage", "revision"}
  BY DEF Migration!Stage, Migration!Revision, Migration!At
<1>2. /\ MigrationType /\ DestinationHolds(p) /\ ~did[p] /\ dest.dir = "ready" /\ mlock = p
      /\ mloc[p].source \in Sources /\ mloc[p].snap \in Complete
  BY <1>1, CallUnderWay DEF DestinationHolds, Compared
<1>3. t \in Copy
  BY <1>2 DEF Migration!Transaction, Copy
<1>4. did = [did EXCEPT ![p] = did[p]] /\ did[p] \in BOOLEAN
  BY <1>2, DidKept
<1>5. CASE /\ Migration!Answer(p, "effect_unknown", "staging_orphan")
           /\ UNCHANGED <<src, writer, past, taken, dest, did>>
  BY <1>2, <1>5, MigrationAnswered DEF MigrationCode, MigrationEffect
<1>6. CASE /\ \/ dest' = [dest EXCEPT !.staging = @ \cup {t}]
              \/ dest' = [dest EXCEPT !.staging = @ \ {t}, !.revisions = @ \cup {t}]
           /\ \/ mpc' = [mpc EXCEPT ![p] = "revision"]
              \/ mpc' = [mpc EXCEPT ![p] = "pointer"]
           /\ UNCHANGED <<src, writer, past, taken, mlock, mloc, manswer, did>>
  <2>1. /\ dest' \in Namespace /\ dest'.current = dest.current /\ dest'.settled = dest.settled
        /\ dest'.dir = dest.dir
    <3> HIDE DEF t
    <3>1. dest \in Namespace
      BY <1>2 DEF MigrationType
    <3>2. CASE dest' = [dest EXCEPT !.staging = @ \cup {t}]
      BY <1>3, <3>1, <3>2 DEF Namespace
    <3>3. CASE dest' = [dest EXCEPT !.staging = @ \ {t}, !.revisions = @ \cup {t}]
      BY <1>3, <3>1, <3>3 DEF Namespace
    <3> QED BY <1>6, <3>2, <3>3
  <2>2. PICK l \in {"revision", "pointer"} : mpc' = [mpc EXCEPT ![p] = l]
    BY <1>6
  <2>3. /\ mpc'[p] = l /\ (did'[p] <=> did[p]) /\ manswer'[p] = Migration!NoAnswer
        => DestinationHolds(p)'
    BY <1>2, <1>6, <2>1 DEF DestinationHolds
  <2> QED BY <1>1, <1>4, <1>6, <2>1, <2>2, <2>3, MigrationWrites, ZenonT(60)
         DEF MigrationPlace, Compared
<1> QED BY <1>5, <1>6 DEF Migration!Stage, Migration!Revision, Migration!Goto

LEMMA MigrationPublishes ==
    ASSUME MigrationInv, NEW p \in Callers, Migration!Pointer(p)
    PROVE  MigrationInv'
<1> DEFINE t == Migration!Transaction(p)
<1>1. mpc[p] = "pointer"
  BY DEF Migration!Pointer, Migration!At
<1>2. /\ MigrationType /\ DestinationHolds(p) /\ ~did[p] /\ dest.dir = "ready" /\ mlock = p
      /\ mloc[p].source \in Sources /\ mloc[p].snap \in Complete
  BY <1>1, CallUnderWay DEF DestinationHolds, Compared
<1>3. t \in Copy /\ t = [source |-> mloc[p].source, files |-> mloc[p].snap]
  BY <1>2 DEF Migration!Transaction, Copy
<1>4. CASE /\ Migration!Answer(p, "run_conflict", "unreferenced_revision")
           /\ UNCHANGED <<src, writer, past, taken, dest, did>>
  BY <1>2, <1>4, MigrationAnswered DEF MigrationCode, MigrationEffect
<1>5. CASE /\ dest.current = <<>>
           /\ dest' = [dest EXCEPT !.current = <<t>>] /\ did' = [did EXCEPT ![p] = TRUE]
           /\ mpc' = [mpc EXCEPT ![p] = "settle"]
           /\ UNCHANGED <<src, writer, past, taken, mlock, mloc, manswer>>
  <2> HIDE DEF t
  <2>1. /\ dest' \in Namespace /\ dest'.current = <<t>> /\ dest'.settled = dest.settled
        /\ dest'.dir = dest.dir
    BY <1>2, <1>3, <1>5 DEF MigrationType, Namespace
  <2> DEFINE b == TRUE
  <2>2. b \in BOOLEAN /\ did' = [did EXCEPT ![p] = b] /\ b
    BY <1>5
  <2> HIDE DEF b
  <2>3. /\ mpc'[p] = "settle" /\ (did'[p] <=> b) /\ manswer'[p] = Migration!NoAnswer
        => DestinationHolds(p)'
    BY <1>2, <1>3, <1>5, <2>1, <2>2 DEF DestinationHolds, Compared
  <2> QED BY <1>1, <1>3, <1>5, <2>1, <2>2, <2>3, MigrationWrites DEF MigrationPlace, Compared
<1> QED BY <1>4, <1>5 DEF Migration!Pointer, Migration!NoCurrent, Migration!Goto

LEMMA MigrationSettles ==
    ASSUME MigrationInv, NEW p \in Callers, Migration!Settle(p)
    PROVE  MigrationInv'
<1>1. /\ mpc[p] = "settle" /\ dest' = [dest EXCEPT !.settled = TRUE]
      /\ mpc' = [mpc EXCEPT ![p] = "migrated"]
      /\ UNCHANGED <<src, writer, past, taken, mlock, mloc, manswer, did>>
  BY DEF Migration!Settle, Migration!At, Migration!Goto
<1>2. MigrationType /\ DestinationHolds(p)
  BY <1>1, CallUnderWay
<1>3. dest' \in Namespace /\ dest'.current = dest.current /\ dest'.dir = dest.dir /\ dest'.settled
  BY <1>1, <1>2 DEF MigrationType, Namespace
<1>4. did' = [did EXCEPT ![p] = did[p]] /\ did[p] \in BOOLEAN
  BY <1>1, <1>2, DidKept
<1>5. /\ mpc'[p] = "migrated" /\ (did'[p] <=> did[p]) /\ manswer'[p] = Migration!NoAnswer
      => DestinationHolds(p)'
  BY <1>1, <1>2, <1>3 DEF DestinationHolds, Compared
<1> QED BY <1>1, <1>3, <1>4, <1>5, MigrationWrites DEF MigrationPlace, Compared

LEMMA MigrationPublishFails ==
    ASSUME MigrationInv, NEW p \in Callers, Migration!PublishFails(p)
    PROVE  MigrationInv'
<1>1. /\ mpc[p] \in {"stage", "revision", "pointer", "settle"}
      /\ UNCHANGED <<src, writer, past, taken, dest, did>>
  BY DEF Migration!PublishFails
<1>2. mpc[p] # "settle" => ~did[p]
  BY <1>1, CallUnderWay DEF DestinationHolds
<1>3. CASE mpc[p] \in {"stage", "revision"}
  <2>1. Migration!Answer(p, "effect_unknown", "staging_orphan")
    BY <1>3 DEF Migration!PublishFails
  <2> QED BY <1>1, <1>2, <1>3, <2>1, MigrationAnswered DEF MigrationCode, MigrationEffect
<1>4. CASE mpc[p] = "pointer"
  <2>1. Migration!Answer(p, "durability_unconfirmed", "unreferenced_revision")
    BY <1>4 DEF Migration!PublishFails
  <2> QED BY <1>1, <1>2, <1>4, <2>1, MigrationAnswered DEF MigrationCode, MigrationEffect
<1>5. CASE mpc[p] = "settle"
  <2>1. Migration!Answer(p, "budget_settlement_failed", "current_advanced")
    BY <1>5 DEF Migration!PublishFails
  <2> QED BY <1>1, <2>1, MigrationAnswered DEF MigrationCode, MigrationEffect
<1> QED BY <1>1, <1>3, <1>4, <1>5

LEMMA MigrationEnds ==
    ASSUME MigrationInv, NEW p \in Callers, Migration!Migrated(p)
    PROVE  MigrationInv'
<1>1. mpc[p] = "migrated" /\ UNCHANGED <<src, writer, past, taken, dest, did>>
  BY DEF Migration!Migrated, Migration!At
<1>2. /\ MigrationType /\ dest.settled /\ dest.dir = "ready"
      /\ dest.current = <<[source |-> mloc[p].source, files |-> mloc[p].snap]>>
  BY <1>1, CallUnderWay DEF DestinationHolds, Compared
<1>3. Migration!read_current \in {"ok", "cross_run_mismatch"}
  <2>1. dest.current # <<>>
    <3> DEFINE t == [source |-> mloc[p].source, files |-> mloc[p].snap]
    <3>1. <<t>> # <<>>
      OBVIOUS
    <3> QED BY <1>2, <3>1
  <2> QED BY <1>2, <2>1, ReadCurrentAnswers
<1>4. CASE Migration!read_current = "ok"
  <2>1. Migration!Answer(p, "ok", "current_advanced")
    BY <1>4 DEF Migration!Migrated
  <2> QED BY <1>1, <1>2, <2>1, MigrationAnswered DEF MigrationCode, MigrationEffect
<1>5. CASE Migration!read_current = "cross_run_mismatch"
  <2>1. Migration!Answer(p, "cross_run_mismatch", "none")
    BY <1>5 DEF Migration!Migrated
  <2> QED BY <1>1, <2>1, MigrationAnswered DEF MigrationCode, MigrationEffect
<1> QED BY <1>3, <1>4, <1>5

LEMMA MigrationCrashes ==
    ASSUME MigrationInv, NEW p \in Callers, Migration!Crash(p)
    PROVE  MigrationInv'
<1>1. MigrationType
  BY DEF MigrationInv
<1>2. /\ manswer' = [manswer EXCEPT ![p] = Migration!NoAnswer]
      /\ mpc' = [mpc EXCEPT ![p] = "idle"]
      /\ mloc' = [mloc EXCEPT ![p] = Migration!NoCall]
      /\ mlock' = IF mlock = p THEN "none" ELSE mlock
      /\ UNCHANGED <<src, writer, past, taken, dest, did>>
  BY DEF Migration!Crash, Migration!Goto, Migration!Set, Migration!None
<1>3. MigrationType'
  BY <1>1, <1>2, MigrationNoCall DEF MigrationType, MigrationPlace
<1>4. /\ mpc'[p] = "idle" /\ manswer'[p] = Migration!NoAnswer
      /\ \A q \in Callers : q # p =>
            /\ mpc'[q] = mpc[q] /\ mloc'[q] = mloc[q] /\ manswer'[q] = manswer[q]
            /\ did'[q] = did[q] /\ (mlock = q => mlock' = q)
  BY <1>1, <1>2 DEF MigrationType
<1>5. MigrationAnswerTrue(p)'
  BY <1>4, MigrationNoCall DEF MigrationAnswerTrue
<1>6. CurrentIsGenuine'
  BY <1>2 DEF MigrationInv, CurrentIsGenuine, Genuine, Clear
<1>7. Forward
  BY <1>2, UnmovedIsForward
<1> QED BY <1>2, <1>3, <1>4, <1>5, <1>6, <1>7, MigrationIdle, CallKeeps


-----------------------------------------------------------------------------
(* The invariant of the migration.                                         *)

LEMMA MigrationInit ==
    Migration!Init => MigrationInv
<1> SUFFICES ASSUME Migration!Init PROVE MigrationInv
  OBVIOUS
<1>1. PICK started \in BOOLEAN :
          src = [s \in Sources |->
              [sentinel |-> (s # Live) \/ started, tmps |-> {},
               files |-> [f \in Migration!Files |->
                            IF s # Live \/ started THEN 1 ELSE Migration!Absent]]]
  BY DEF Migration!Init
<1>2. /\ past = [s \in Sources |-> {src[s].files}]
      /\ writer = Migration!Resting /\ taken = FALSE
      /\ dest = [dir |-> "absent", staging |-> {}, revisions |-> {}, current |-> <<>>,
                 settled |-> FALSE]
      /\ mlock = "none"
      /\ mpc = [p \in Callers |-> "idle"]
      /\ mloc = [p \in Callers |-> Migration!NoCall]
      /\ manswer = [p \in Callers |-> Migration!NoAnswer]
      /\ did = [p \in Callers |-> FALSE]
  BY DEF Migration!Init, Migration!None
<1>3. ASSUME NEW s \in Sources
      PROVE  /\ src[s].files \in Complete /\ src[s] \in Stored
             /\ past[s] = {src[s].files}
  <2> DEFINE fv == [f \in Migration!Files |-> IF s # Live \/ started THEN 1 ELSE Migration!Absent]
             b == (s # Live) \/ started
  <2>1. src[s] = [sentinel |-> b, tmps |-> {}, files |-> fv] /\ b \in BOOLEAN
    BY <1>1
  <2>2. fv \in Complete
    BY DEF Complete, Migration!Absent
  <2> HIDE DEF fv, b
  <2>3. fv \in Content
    BY <2>2 DEF Complete, Content, Version
  <2> QED BY <1>2, <2>1, <2>2, <2>3 DEF Stored
<1>4. src \in [Sources -> Stored] /\ past \in [Sources -> SUBSET Content]
  <2>1. src \in [Sources -> Stored]
    <3>1. src = [s \in Sources |-> src[s]]
      BY <1>1
    <3> QED BY <1>3, <3>1
  <2>2. \A s \in Sources : {src[s].files} \in SUBSET Content
    BY <1>3 DEF Stored
  <2> QED BY <1>2, <2>1, <2>2
<1>5. writer \in [file : Migration!Files \cup {"none"}, version : Nat] /\ writer.file = "none"
  BY <1>2 DEF Migration!Resting, Migration!None
<1>6. MigrationType
  BY <1>2, <1>4, <1>5, MigrationNoCall DEF MigrationType, Namespace, MigrationPlace
<1>7. WriterHolds
  <2>1. \A s \in Sources, f \in Migration!Files : src[s].files[f] # Migration!Torn
    BY <1>3, TornIsNoVersion DEF Complete
  <2>2. "none" \notin Appended
    BY LocalDataAssumption
  <2> QED BY <1>2, <1>5, <2>1, <2>2 DEF WriterHolds
<1>8. PastHolds
  BY <1>3 DEF PastHolds
<1>9. CurrentIsGenuine
  BY <1>2 DEF CurrentIsGenuine
<1>10. ASSUME NEW p \in Callers
       PROVE  SourceHolds(p) /\ DestinationHolds(p) /\ MigrationAnswerTrue(p)
  <2>1. mpc[p] = "idle" /\ manswer[p] = Migration!NoAnswer
    BY <1>2
  <2> QED BY <2>1, MigrationNoCall
          DEF SourceHolds, DestinationHolds, MigrationAnswerTrue, BeforeSnapshot, Uncompared,
              Compared
<1> QED BY <1>6, <1>7, <1>8, <1>9, <1>10 DEF MigrationInv

LEMMA MigrationStep ==
    ASSUME MigrationInv, NEW p \in Callers, Migration!Migrate(p)
    PROVE  MigrationInv'
<1>1. CASE \E s \in Sources \cup {Dest}, acknowledged \in BOOLEAN :
              Migration!Begin(p, s, acknowledged)
  BY <1>1, MigrationBegins
<1>2. CASE \E k \in 1..2 : Migration!List(p, k) \/ Migration!ReadArtifact(p, k)
  BY <1>2, MigrationLists, MigrationReads
<1>3. CASE Migration!Snapshot(p) \/ Migration!Destination(p) \/ Migration!Reserve(p)
  BY <1>3, MigrationTakesSnapshot, MigrationFindsDestination, MigrationReserves
<1>4. CASE \/ Migration!Bootstrap(p) \/ Migration!BootstrapFails(p)
           \/ Migration!Admit(p) \/ Migration!ReserveBudgetFails(p)
  BY <1>4, MigrationBootstraps, MigrationBootstrapFails, MigrationAdmits
<1>5. CASE Migration!VerifyDestination(p) \/ Migration!VerifySource(p)
  BY <1>5, MigrationVerifiesDestination, MigrationVerifiesSource
<1>6. CASE \/ Migration!Stage(p) \/ Migration!Revision(p)
           \/ Migration!Pointer(p) \/ Migration!Settle(p)
  BY <1>6, MigrationStages, MigrationPublishes, MigrationSettles
<1>7. CASE Migration!PublishFails(p) \/ Migration!Migrated(p) \/ Migration!Crash(p)
  BY <1>7, MigrationPublishFails, MigrationEnds, MigrationCrashes
<1> QED BY <1>1, <1>2, <1>3, <1>4, <1>5, <1>6, <1>7 DEF Migration!Migrate

LEMMA MigrationNext ==
    MigrationInv /\ [Migration!Next]_migrationVars => MigrationInv'
<1> SUFFICES ASSUME MigrationInv, [Migration!Next]_migrationVars PROVE MigrationInv'
  OBVIOUS
<1>1. CASE Migration!Write
  BY <1>1, MigrationCreatesRun, MigrationWritesTemporary, MigrationReplacesArtifact,
     MigrationAppendsLine, MigrationTakesName DEF Migration!Write
<1>2. CASE \E p \in Callers : Migration!Migrate(p)
  BY <1>2, MigrationStep
<1>3. CASE UNCHANGED migrationVars
  <2>1. UNCHANGED <<src, writer, past, taken, dest, mlock, mpc, mloc, manswer, did>>
    BY <1>3 DEF migrationVars
  <2>2. MigrationType' /\ WriterHolds' /\ PastHolds' /\ Forward
    BY <2>1, UnmovedIsForward DEF MigrationInv, MigrationType, WriterHolds, PastHolds
  <2> QED BY <2>1, <2>2, WriteKeeps
<1> QED BY <1>1, <1>2, <1>3 DEF Migration!Next

LEMMA MigrationCopied ==
    MigrationInv => Migration!CopyWasTheSource
<1> SUFFICES ASSUME MigrationInv, NEW i \in DOMAIN dest.current
             PROVE  /\ dest.current[i].files \in past[dest.current[i].source]
                    /\ \A f \in Migration!Files : dest.current[i].files[f] \notin Sensitive
  BY DEF Migration!CopyWasTheSource
<1>1. PICK c \in Copy : dest.current = <<c>>
  BY DEF MigrationInv, MigrationType, Namespace
<1>2. dest.current[i] = c
  BY <1>1
<1>3. Genuine(c)
  BY <1>1 DEF MigrationInv, CurrentIsGenuine
<1> QED BY <1>2, <1>3 DEF Genuine, Clear

LEMMA MigrationAnswersTrue ==
    MigrationInv => Migration!MigrationAnswersAreTrue
<1> SUFFICES ASSUME MigrationInv, NEW p \in Callers
             PROVE  /\ manswer[p].code = "ok" =>
                          /\ dest.current # <<>>
                          /\ dest.current[1] = [source |-> manswer[p].source,
                                                files |-> manswer[p].snap]
                    /\ manswer[p].effect \in {"staging_orphan", "unreferenced_revision"} => ~did[p]
                    /\ (manswer[p].code \notin {"none", "ok"} /\ did[p]) =>
                          \/ manswer[p].effect = "current_advanced"
                          \/ manswer[p].code = "cross_run_mismatch"
  BY DEF Migration!MigrationAnswersAreTrue, Migration!None
<1>1. MigrationAnswerTrue(p)
  BY DEF MigrationInv
<1> DEFINE t == [source |-> manswer[p].source, files |-> manswer[p].snap]
<1>2. <<t>> # <<>> /\ <<t>>[1] = t
  OBVIOUS
<1>3. manswer[p].code = "ok" => dest.current = <<t>>
  BY <1>1 DEF MigrationAnswerTrue
<1> HIDE DEF t
<1>4. manswer[p].code = "ok" => dest.current # <<>> /\ dest.current[1] = t
  BY <1>2, <1>3
<1> QED BY <1>1, <1>4 DEF MigrationAnswerTrue, t

-----------------------------------------------------------------------------
(* The cleanup: types.                                                     *)

Mark == {"control", "journal", "moved", "revision", "pointer", "unlinked"}

\* The steps of a publication before its effect, and those that follow it.
QReady == {"q_scaffold", "q_journal", "q_authorize", "q_move"}
DReady == {"d_root", "d_journal", "d_authorize", "d_stage"}
QDone == {"q_revision", "q_pointer"}
DDone == {"d_prepare", "d_prepared", "d_reread", "d_unlink", "d_revision", "d_pointer"}

\* The steps under the run's lock.
Inside == QReady \cup DReady \cup QDone \cup DDone \cup {"confirm"}
CleanupPlace ==
    Inside \cup {"idle", "marker", "replay", "admit", "lock", "released", "failed", "done"}

SnapshotType ==
    {<<>>} \cup (Nat \X Nat \X [DPlans -> 0..(Entries + 1)] \X ControlRecord)

CleanupCall ==
    [pc : CleanupPlace, plan : Plans \cup {NoPlan}, binding : 0..2,
     at : Days \cup {NoTime}, answer : AnswerRecord, did : SUBSET Mark,
     before : BOOLEAN, snapshot : SnapshotType, cancelled : BOOLEAN, wasAcked : BOOLEAN]

CleanupType ==
    /\ product \in Nat /\ quarantine \in Nat
    /\ staging \in [DPlans -> 0..(Entries + 1)]
    /\ control \in ControlRecord
    /\ lock \in Callers \cup {NoCaller}
    /\ plan \in [Plans -> PlanRecord]
    /\ approval \in [Plans -> 0..2]
    /\ hold \in Nat /\ auditAt \in Days \cup {NoTime} /\ now \in Days
    /\ call \in [Callers -> CleanupCall]
    /\ acked \subseteq Plans
    /\ moves \in [Plans -> Nat]

-----------------------------------------------------------------------------
(* The shapes the disk passes through.                                     *)

Lists(roots, journals, revisions, pending, current) ==
    /\ control.exists
    /\ control.roots = roots /\ control.journals = journals
    /\ control.revisions = revisions /\ control.pending = pending
    /\ control.current = current

\* Where the tree is, and who has moved it.
AtHome ==
    /\ product # 0 /\ quarantine = 0
    /\ staging = [d \in DPlans |-> 0]
    /\ moves = [x \in Plans |-> 0]
    /\ control.entered = NoTime

InQuarantine(q) ==
    /\ product = 0 /\ quarantine # 0
    /\ plan[q].made /\ quarantine = plan[q].tree
    /\ staging = [d \in DPlans |-> 0]
    /\ moves = [x \in Plans |-> IF x = q THEN 1 ELSE 0]

InStaging(q, d, left) ==
    /\ product = 0 /\ quarantine = 0
    /\ staging = [e \in DPlans |-> IF e = d THEN left ELSE 0]
    /\ moves = [x \in Plans |-> IF x \in {q, d} THEN 1 ELSE 0]

\* The day in the tombstone is one on which the retention had expired.
Lawful == control.entered \in Days /\ LifecycleExpired[control.entered]

\* The plan is for the entry that the tombstone records, and its review is over.
Reviewed(q, d) ==
    /\ plan[d].made /\ plan[d].source = q /\ plan[d].entered = control.entered
    /\ now >= control.entered + QuarantineReviewDays

Untouched == control = NoControl /\ AtHome

Begun(q, journals) == Lists({q}, journals, {}, {}, NoRevision) /\ AtHome

OutOfRoot(q) ==
    Lists({q}, {q}, {}, {}, NoRevision) /\ InQuarantine(q) /\ control.entered = NoTime

Entered(q) ==
    /\ Lists({q}, {q}, {<<1, q>>}, {<<1, q>>}, NoRevision)
    /\ InQuarantine(q) /\ control.entered = NoTime

Quarantined(q, roots, journals) ==
    /\ Lists({q} \cup roots, {q} \cup journals, {<<1, q>>}, {}, <<1, q>>)
    /\ InQuarantine(q) /\ Lawful

Deleting(q, d, revisions, pending, current, left) ==
    /\ Lists({q, d}, {q, d}, {<<1, q>>} \cup revisions, pending, current)
    /\ InStaging(q, d, left) /\ Lawful /\ Reviewed(q, d)

Staged(q, d) == Deleting(q, d, {}, {}, <<1, q>>, Entries + 1)
Announced(q, d) == Deleting(q, d, {<<2, d>>}, {<<2, d>>}, <<1, q>>, Entries + 1)
Unlinking(q, d, left) == Deleting(q, d, {<<2, d>>}, {}, <<2, d>>, left)
Closing(q, d) == Deleting(q, d, {<<2, d>>, <<3, d>>}, {<<3, d>>}, <<2, d>>, 0)
Deleted(q, d) == Deleting(q, d, {<<2, d>>, <<3, d>>}, {}, <<3, d>>, 0)

QuarantineShape(q) ==
    \/ Begun(q, {}) \/ Begun(q, {q})
    \/ OutOfRoot(q) \/ Entered(q) \/ Quarantined(q, {}, {})

DeletionShape(q, d) ==
    \/ Quarantined(q, {d}, {}) \/ Quarantined(q, {d}, {d})
    \/ Staged(q, d) \/ Announced(q, d)
    \/ \E left \in 0..(Entries + 1) : Unlinking(q, d, left)
    \/ Closing(q, d) \/ Deleted(q, d)

DiskShape ==
    \/ Untouched
    \/ \E q \in QPlans : QuarantineShape(q)
    \/ \E q \in QPlans, d \in DPlans : DeletionShape(q, d)

-----------------------------------------------------------------------------
(* The inductive invariant of the cleanup.                                 *)

LockHeld ==
    \A p \in Callers :
        /\ call[p].pc \in Inside \cup {"marker"} => lock = p
        /\ lock = p => call[p].pc \in Inside \cup {"marker", "failed"}

\* What the disk looks like at each step under the lock.
QPlace(p, q) ==
    /\ At(p, "q_scaffold") => Untouched
    /\ At(p, "q_journal") => Begun(q, {})
    /\ At(p, "q_authorize") => Begun(q, {q})
    /\ At(p, "q_move") => Begun(q, {q}) /\ product = plan[q].tree
    /\ At(p, "q_revision") => OutOfRoot(q)
    /\ At(p, "q_pointer") => Entered(q)
    /\ call[p].pc \in {"q_move"} \cup QDone =>
         call[p].at \in Days /\ LifecycleExpired[call[p].at]

DPlace(p, q, d) ==
    /\ At(p, "d_root") => Quarantined(q, {}, {})
    /\ At(p, "d_journal") => Quarantined(q, {d}, {})
    /\ At(p, "d_authorize") => Quarantined(q, {d}, {d})
    /\ At(p, "d_stage") => Quarantined(q, {d}, {d}) /\ Reviewed(q, d)
    /\ At(p, "d_prepare") => Staged(q, d)
    /\ At(p, "d_prepared") => Announced(q, d)
    /\ At(p, "d_reread") => Unlinking(q, d, Entries + 1)
    /\ At(p, "d_unlink") => \E left \in 1..(Entries + 1) : Unlinking(q, d, left)
    /\ At(p, "d_revision") => Unlinking(q, d, 0)
    /\ At(p, "d_pointer") => Closing(q, d)

Place(p) ==
    /\ call[p].pc \in QReady \cup QDone => call[p].plan \in QPlans
    /\ call[p].pc \in DReady \cup DDone =>
         call[p].plan \in DPlans /\ plan[call[p].plan].source \in QPlans
    /\ \A q \in QPlans : call[p].plan = q => QPlace(p, q)
    /\ \A q \in QPlans, d \in DPlans :
         call[p].plan = d /\ plan[d].source = q => DPlace(p, q, d)

\* What a call knows of itself: the plan it carries out, the marks it has left.
Knows(p) ==
    LET pc == call[p].pc
        marks == call[p].did
    IN  /\ pc \notin {"idle", "marker"} => call[p].plan \in Plans /\ plan[call[p].plan].made
        /\ pc \in {"idle", "marker", "replay", "admit", "lock", "q_scaffold", "d_root"} => marks = {}
        /\ pc \in (QReady \cup DReady) \ {"q_scaffold", "d_root"} =>
             marks # {} /\ marks \subseteq {"control", "journal"}
        /\ pc \in QDone \cup DDone \cup {"confirm", "released"} => "moved" \in marks
        /\ pc \in QDone \cup {"d_prepare", "d_prepared"} => "pointer" \notin marks
        /\ pc \notin {"idle", "marker", "replay", "done"} => ~call[p].before
        /\ pc = "idle" => ~call[p].before
        /\ pc = "failed" => call[p].answer.code # "committed"
        /\ call[p].wasAcked =>
             pc = "done" /\ call[p].answer.code \in {"committed", "effect_unknown"}

AnswerHonest(p) ==
    LET a == call[p].answer
        x == call[p].plan
    IN  /\ (~Uncertain(a) /\ a.code # "committed") => call[p].did = {} /\ ~call[p].before
        /\ a.code = "committed" => FinalRevision(x) \in control.revisions
        /\ a.domain = "current_unchanged" => "pointer" \notin call[p].did
        /\ a.domain = "current_advanced" => <<2, x>> \in control.revisions
        /\ (a.code # "committed" /\ a.fs \in {"none", "journal_only", "control_published"})
             => "moved" \notin call[p].did

CallerHolds(p) ==
    /\ Knows(p)
    /\ Place(p)
    /\ call[p].pc \in {"failed", "done"} => AnswerHonest(p)

AckedRecorded == \A x \in acked : FinalRevision(x) \in control.revisions

CleanupInv ==
    /\ CleanupType
    /\ DiskShape
    /\ LockHeld
    /\ \A p \in Callers : CallerHolds(p)
    /\ AckedRecorded

-----------------------------------------------------------------------------
(* What the steps of others leave as it is.                                *)

PlansKept == \A x \in Plans : plan[x].made => plan'[x] = plan[x]

\* The disk stays, and the world may go on.
DiskKept ==
    /\ UNCHANGED <<product, quarantine, staging, control, moves>>
    /\ PlansKept
    /\ now' >= now

LEMMA PlansDiffer ==
    ASSUME NEW q \in QPlans, NEW d \in DPlans
    PROVE  q # d /\ q \in Plans /\ d \in Plans
  BY CleanupAssumption DEF Plans

LEMMA DaysAreNaturals == ASSUME NEW t \in Days PROVE t \in Nat
  BY CleanupAssumption

LEMMA InQuarantineStays ==
    ASSUME DiskKept, NEW q \in QPlans, InQuarantine(q)
    PROVE  InQuarantine(q)'
  BY DEF DiskKept, PlansKept, InQuarantine, Plans

LEMMA QuarantinedStays ==
    ASSUME DiskKept, NEW q \in QPlans, NEW R, NEW J, Quarantined(q, R, J)
    PROVE  Quarantined(q, R, J)'
  BY InQuarantineStays DEF DiskKept, Quarantined, Lists, Lawful

LEMMA QuarantineShapeStays ==
    ASSUME DiskKept, NEW q \in QPlans, NEW J
    PROVE  /\ Untouched => Untouched'
           /\ Begun(q, J) => Begun(q, J)'
           /\ OutOfRoot(q) => OutOfRoot(q)'
           /\ Entered(q) => Entered(q)'
<1>1. Untouched => Untouched'
  BY DEF DiskKept, Untouched, AtHome
<1>2. Begun(q, J) => Begun(q, J)'
  BY DEF DiskKept, Begun, AtHome, Lists
<1>3. OutOfRoot(q) => OutOfRoot(q)'
  BY InQuarantineStays DEF DiskKept, OutOfRoot, Lists
<1>4. Entered(q) => Entered(q)'
  BY InQuarantineStays DEF DiskKept, Entered, Lists
<1> QED BY <1>1, <1>2, <1>3, <1>4

LEMMA ReviewedStays ==
    ASSUME CleanupType, CleanupType', DiskKept,
           NEW q \in QPlans, NEW d \in DPlans, Lawful, Reviewed(q, d)
    PROVE  Reviewed(q, d)'
<1>1. d \in Plans /\ now \in Nat /\ now' \in Nat /\ control.entered \in Nat
  BY PlansDiffer, DaysAreNaturals DEF CleanupType, Lawful
<1>2. plan'[d] = plan[d] /\ control' = control /\ now' >= now
  BY <1>1 DEF DiskKept, PlansKept, Reviewed
<1> QED BY <1>1, <1>2 DEF Reviewed, QuarantineReviewDays

LEMMA DeletingStays ==
    ASSUME CleanupType, CleanupType', DiskKept, NEW q \in QPlans, NEW d \in DPlans,
           NEW R, NEW P, NEW c, NEW n, Deleting(q, d, R, P, c, n)
    PROVE  Deleting(q, d, R, P, c, n)'
<1>1. Reviewed(q, d)'
  BY ReviewedStays DEF Deleting
<1> QED BY <1>1 DEF DiskKept, Deleting, Lists, InStaging, Lawful

LEMMA DeletionShapeStays ==
    ASSUME CleanupType, CleanupType', DiskKept,
           NEW q \in QPlans, NEW d \in DPlans, NEW n
    PROVE  /\ Staged(q, d) => Staged(q, d)'
           /\ Announced(q, d) => Announced(q, d)'
           /\ Unlinking(q, d, n) => Unlinking(q, d, n)'
           /\ Closing(q, d) => Closing(q, d)'
           /\ Deleted(q, d) => Deleted(q, d)'
  BY DeletingStays DEF Staged, Announced, Unlinking, Closing, Deleted

LEMMA DiskShapeStays ==
    ASSUME CleanupType, CleanupType', DiskKept, DiskShape
    PROVE  DiskShape'
<1>1. CASE Untouched
  <2>1. Untouched'
    BY <1>1 DEF DiskKept, Untouched, AtHome
  <2> QED BY <2>1 DEF DiskShape
<1>2. CASE \E q \in QPlans : QuarantineShape(q)
  <2>1. PICK q \in QPlans : QuarantineShape(q)
    BY <1>2
  <2>2. QuarantineShape(q)'
    BY <2>1, QuarantineShapeStays, QuarantinedStays DEF QuarantineShape
  <2> QED BY <2>2 DEF DiskShape
<1>3. CASE \E q \in QPlans, d \in DPlans : DeletionShape(q, d)
  <2>1. PICK q \in QPlans, d \in DPlans : DeletionShape(q, d)
    BY <1>3
  <2>2. DeletionShape(q, d)'
    BY <2>1, DeletionShapeStays, QuarantinedStays DEF DeletionShape
  <2> QED BY <2>2 DEF DiskShape
<1> QED BY <1>1, <1>2, <1>3 DEF DiskShape

LEMMA QPlaceStays ==
    ASSUME DiskKept, NEW p \in Callers, NEW q \in QPlans, QPlace(p, q), plan'[q] = plan[q],
           call'[p].pc = call[p].pc, call'[p].at = call[p].at
    PROVE  QPlace(p, q)'
<1>1. product' = product
  BY DEF DiskKept
<1> QED BY <1>1, QuarantineShapeStays DEF QPlace, At

LEMMA DPlaceStays ==
    ASSUME CleanupType, CleanupType', DiskKept, NEW p \in Callers,
           NEW q \in QPlans, NEW d \in DPlans, DPlace(p, q, d),
           call'[p].pc = call[p].pc, call'[p].at = call[p].at
    PROVE  DPlace(p, q, d)'
<1>1. At(p, "d_stage") => Quarantined(q, {d}, {d})' /\ Reviewed(q, d)'
  BY QuarantinedStays, ReviewedStays DEF DPlace, Quarantined
<1>2. At(p, "d_unlink") => \E left \in 1..(Entries + 1) : Unlinking(q, d, left)'
  BY DeletionShapeStays DEF DPlace
<1> QED BY <1>1, <1>2, QuarantinedStays, DeletionShapeStays DEF DPlace, At

LEMMA PlaceStays ==
    ASSUME CleanupType, CleanupType', DiskKept, NEW p \in Callers, Knows(p), Place(p),
           call'[p].pc = call[p].pc, call'[p].plan = call[p].plan, call'[p].at = call[p].at
    PROVE  Place(p)'
<1>1. CASE call[p].pc \in QReady \cup QDone \cup DReady \cup DDone
  <2>1. call[p].plan \in Plans /\ plan'[call[p].plan] = plan[call[p].plan]
    BY <1>1 DEF Knows, QReady, QDone, DReady, DDone, DiskKept, PlansKept
  <2>2. ASSUME NEW q \in QPlans, call'[p].plan = q
        PROVE  QPlace(p, q)'
    BY <2>1, <2>2, QPlaceStays DEF Place
  <2>3. ASSUME NEW q \in QPlans, NEW d \in DPlans, call'[p].plan = d, plan'[d].source = q
        PROVE  DPlace(p, q, d)'
    BY <2>1, <2>3, DPlaceStays DEF Place
  <2> QED BY <2>1, <2>2, <2>3 DEF Place
<1>2. CASE call[p].pc \notin QReady \cup QDone \cup DReady \cup DDone
  BY <1>2 DEF Place, QPlace, DPlace, At, QReady, QDone, DReady, DDone
<1> QED BY <1>1, <1>2

LEMMA OthersKeep ==
    ASSUME CleanupType, CleanupType', NEW r \in Callers, CallerHolds(r), call'[r] = call[r],
           PlansKept, control.revisions \subseteq control'.revisions,
           DiskKept \/ call[r].pc \notin Inside
    PROVE  CallerHolds(r)'
<1>1. Knows(r)'
  BY DEF CallerHolds, Knows, PlansKept
<1>2. Place(r)'
  <2>1. CASE DiskKept
    BY <2>1, PlaceStays DEF CallerHolds
  <2>2. CASE call[r].pc \notin Inside
    BY <2>2 DEF Place, QPlace, DPlace, At, Inside, QReady, QDone, DReady, DDone
  <2> QED BY <2>1, <2>2
<1>3. call[r].pc \in {"failed", "done"} => AnswerHonest(r)'
  BY DEF CallerHolds, AnswerHonest, Uncertain, FinalRevision
<1> QED BY <1>1, <1>2, <1>3 DEF CallerHolds

\* p has the lock, or takes it, or gives it up.
LockMoves(p) ==
    /\ lock' = lock \/ (lock \in {NoCaller, p} /\ lock' \in {NoCaller, p})
    /\ call'[p].pc \in Inside \cup {"marker"} => lock' = p
    /\ lock' = p => call'[p].pc \in Inside \cup {"marker", "failed"}

LEMMA LockStays ==
    ASSUME LockHeld, NEW p \in Callers, LockMoves(p),
           \A r \in Callers \ {p} : call'[r] = call[r]
    PROVE  LockHeld'
<1>1. SUFFICES ASSUME NEW r \in Callers
               PROVE  /\ call'[r].pc \in Inside \cup {"marker"} => lock' = r
                      /\ lock' = r => call'[r].pc \in Inside \cup {"marker", "failed"}
  BY DEF LockHeld
<1>2. CASE r = p
  BY <1>2 DEF LockMoves
<1>3. CASE r # p
  <2>1. call'[r] = call[r] /\ (lock' = r <=> lock = r)
    BY <1>3, CleanupAssumption DEF LockMoves
  <2> QED BY <2>1 DEF LockHeld
<1> QED BY <1>2, <1>3

AckedGrows == \A x \in acked' : x \in acked \/ FinalRevision(x) \in control'.revisions

LEMMA CleanupStep ==
    ASSUME CleanupInv, CleanupType', DiskShape', NEW p \in Callers,
           \A r \in Callers \ {p} : call'[r] = call[r],
           PlansKept, control.revisions \subseteq control'.revisions,
           DiskKept \/ lock = p, LockMoves(p), AckedGrows, CallerHolds(p)'
    PROVE  CleanupInv'
<1>1. LockHeld'
  BY LockStays DEF CleanupInv
<1>2. ASSUME NEW r \in Callers
      PROVE  CallerHolds(r)'
  <2>1. CASE r # p
    <3>1. DiskKept \/ call[r].pc \notin Inside
      BY <2>1 DEF CleanupInv, LockHeld
    <3>2. CallerHolds(r) /\ call'[r] = call[r] /\ CleanupType
      BY <2>1 DEF CleanupInv
    <3> QED BY <3>1, <3>2, OthersKeep
  <2> QED BY <2>1
<1>3. AckedRecorded'
  BY DEF AckedGrows, CleanupInv, AckedRecorded, FinalRevision
<1> QED BY <1>1, <1>2, <1>3 DEF CleanupInv

\* A step that leaves the disk and the world alone.
Quiet == UNCHANGED <<product, quarantine, staging, control, plan, approval, hold, auditAt, now, moves>>

LEMMA QuietIsKept ==
    ASSUME CleanupType, Quiet
    PROVE  DiskKept /\ PlansKept
<1>1. now \in Nat
  BY DaysAreNaturals DEF CleanupType
<1> QED BY <1>1 DEF Quiet, DiskKept, PlansKept

LEMMA QuietStep ==
    ASSUME CleanupInv, Quiet, NEW p \in Callers, NEW c \in CleanupCall,
           call' = [call EXCEPT ![p] = c], acked' \subseteq Plans,
           LockMoves(p), AckedGrows, CallerHolds(p)'
    PROVE  CleanupInv'
<1>1. lock' \in Callers \cup {NoCaller}
  BY DEF LockMoves, CleanupInv, CleanupType
<1>2. CleanupType'
  BY <1>1 DEF CleanupInv, CleanupType, Quiet
<1>3. DiskKept /\ PlansKept /\ CleanupType
  BY QuietIsKept DEF CleanupInv
<1>4. DiskShape'
  BY <1>2, <1>3, DiskShapeStays DEF CleanupInv
<1>5. /\ \A r \in Callers \ {p} : call'[r] = call[r]
      /\ control.revisions \subseteq control'.revisions
  BY DEF Quiet, CleanupInv, CleanupType
<1> QED BY <1>2, <1>3, <1>4, <1>5, CleanupStep

\* A caller that is not under the lock has no place to hold.
LEMMA OutsideHolds ==
    ASSUME NEW p \in Callers, call'[p].pc \notin Inside
    PROVE  Place(p)'
  BY DEF Place, QPlace, DPlace, At, Inside, QReady, QDone, DReady, DDone

\* The call after a step, and what it takes to be one.
LEMMA CallAfter ==
    ASSUME CleanupType, NEW p \in Callers, NEW c, call' = [call EXCEPT ![p] = c]
    PROVE  call'[p] = c /\ \A r \in Callers \ {p} : call'[r] = call[r]
  BY DEF CleanupType

LEMMA IdleFields ==
    /\ Idle.pc = "idle" /\ Idle.did = {}
    /\ Idle.before = FALSE /\ Idle.wasAcked = FALSE
  BY DEF Idle

LEMMA IdleIsCall == Idle \in CleanupCall
  BY DEF Idle, CleanupCall, CleanupPlace, NoAnswer, Failure, AnswerRecord, SnapshotType

\* A caller that is idle again.
LEMMA BecomesIdle ==
    ASSUME CleanupInv, Quiet, NEW p \in Callers, call' = [call EXCEPT ![p] = Idle],
           acked' = acked, lock' = lock \/ (lock = p /\ lock' = NoCaller), lock' # p
    PROVE  CleanupInv'
<1>1. call'[p] = Idle
  BY CallAfter DEF CleanupInv
<1>2. Knows(p)' /\ call'[p].pc = "idle"
  BY <1>1, IdleFields DEF Knows, QReady, DReady, QDone, DDone
<1>3. CallerHolds(p)'
  BY <1>2, OutsideHolds DEF CallerHolds, Inside, QReady, QDone, DReady, DDone
<1>4. LockMoves(p)
  BY <1>2 DEF LockMoves, Inside, QReady, QDone, DReady, DDone
<1>5. acked' \subseteq Plans /\ AckedGrows
  BY DEF CleanupInv, CleanupType, AckedGrows
<1> QED BY <1>1, <1>3, <1>4, <1>5, IdleIsCall, QuietStep

-----------------------------------------------------------------------------
(* What the readers make of the shapes.                                    *)

LEMMA DiskShapes ==
    ASSUME DiskShape
    PROVE  \/ control = NoControl
           \/ /\ control.exists
              /\ \/ control.current = NoRevision
                 \/ \E q \in QPlans, d \in DPlans :
                      \/ Quarantined(q, {}, {}) \/ Quarantined(q, {d}, {})
                      \/ Quarantined(q, {d}, {d}) \/ Staged(q, d) \/ Announced(q, d)
                      \/ \E left \in 0..(Entries + 1) : Unlinking(q, d, left)
                      \/ Closing(q, d) \/ Deleted(q, d)
                 \/ \E q \in QPlans : Quarantined(q, {}, {})
<1>1. CASE Untouched
  BY <1>1 DEF Untouched
<1>2. CASE \E q \in QPlans : QuarantineShape(q)
  <2>1. PICK q \in QPlans : QuarantineShape(q)
    BY <1>2
  <2>2. CASE Quarantined(q, {}, {})
    BY <2>2 DEF Quarantined, Lists
  <2>3. CASE ~Quarantined(q, {}, {})
    BY <2>1, <2>3 DEF QuarantineShape, Begun, OutOfRoot, Entered, Lists
  <2> QED BY <2>2, <2>3
<1>3. CASE \E q \in QPlans, d \in DPlans : DeletionShape(q, d)
  <2>1. PICK q \in QPlans, d \in DPlans : DeletionShape(q, d)
    BY <1>3
  <2>2. control.exists
    BY <2>1 DEF DeletionShape, Quarantined, Staged, Announced, Unlinking, Closing, Deleted,
                Deleting, Lists
  <2> QED BY <2>1, <2>2 DEF DeletionShape
<1> QED BY <1>1, <1>2, <1>3 DEF DiskShape

LEMMA RevisionPairs ==
    ASSUME NEW x \in Plans
    PROVE  /\ <<1, x>>[1] = 1 /\ <<1, x>>[2] = x
           /\ <<2, x>>[1] = 2 /\ <<2, x>>[2] = x
           /\ <<3, x>>[1] = 3 /\ <<3, x>>[2] = x
           /\ NoRevision[1] = 0
           /\ \A n, m : \A y \in Plans : (<<n, x>> = <<m, y>>) <=> (n = m /\ x = y)
  BY DEF NoRevision

LEMMA TransactionsOfOne ==
    ASSUME NEW q \in Plans
    PROVE  Transactions({<<1, q>>}) = {q}
  BY RevisionPairs DEF Transactions

LEMMA ReadableShape ==
    ASSUME CleanupType, DiskShape, ReadableNow(control)
    PROVE  \/ \E q \in QPlans : Quarantined(q, {}, {})
           \/ \E q \in QPlans, d \in DPlans :
                \/ \E left \in 0..(Entries + 1) : Unlinking(q, d, left)
                \/ Deleted(q, d)
<1>1. /\ control.exists /\ control.current # NoRevision /\ control.pending = {}
      /\ control.journals = Transactions(Reachable(control)) /\ control.roots = control.journals
  BY DEF ReadableNow, Readable, PointerIntact, JournalsExact
<1>2. control # NoControl
  BY <1>1 DEF NoControl
<1>3. CASE \E q \in QPlans : Quarantined(q, {}, {})
  BY <1>3
<1>4. CASE \E q \in QPlans, d \in DPlans :
                      \/ Quarantined(q, {d}, {})
                      \/ Quarantined(q, {d}, {d}) \/ Staged(q, d) \/ Announced(q, d)
                      \/ Closing(q, d)
  <2>1. PICK q \in QPlans, d \in DPlans :
                      \/ Quarantined(q, {d}, {})
                      \/ Quarantined(q, {d}, {d}) \/ Staged(q, d) \/ Announced(q, d)
                      \/ Closing(q, d)
    BY <1>4
  <2>2. q # d /\ q \in Plans /\ d \in Plans
    BY PlansDiffer
  <2>3. ~Quarantined(q, {d}, {})
    BY <1>1, <2>2 DEF Quarantined, Lists
  <2>4. ~Announced(q, d) /\ ~Closing(q, d)
    BY <1>1 DEF Announced, Closing, Deleting, Lists
  <2>5. control.current = <<1, q>> /\ control.journals = {q, d}
    <3>1. CASE Quarantined(q, {d}, {d})
      BY <3>1 DEF Quarantined, Lists
    <3>2. CASE Staged(q, d)
      BY <3>2 DEF Staged, Deleting, Lists
    <3> QED BY <2>1, <2>3, <2>4, <3>1, <3>2
  <2>6. Reachable(control) = {<<1, q>>}
    BY <2>2, <2>5, RevisionPairs DEF Reachable
  <2>7. control.journals = {q}
    BY <1>1, <2>2, <2>6, TransactionsOfOne
  <2>8. d = q
    BY <2>5, <2>7
  <2> QED BY <2>2, <2>8
<1>5. CASE \E q \in QPlans, d \in DPlans :
                \/ \E left \in 0..(Entries + 1) : Unlinking(q, d, left)
                \/ Deleted(q, d)
  BY <1>5
<1> QED BY <1>1, <1>2, <1>3, <1>4, <1>5, DiskShapes

LEMMA RevisionsOfQuarantined ==
    ASSUME NEW q \in QPlans, NEW R, NEW J, Quarantined(q, R, J)
    PROVE  /\ control.current = <<1, q>> /\ control.revisions = {<<1, q>>}
           /\ control.current[1] = 1 /\ control.current[2] = q
  BY RevisionPairs DEF Quarantined, Lists, Plans

LEMMA RevisionsOfDeleting ==
    ASSUME NEW q \in QPlans, NEW d \in DPlans
    PROVE  /\ \A n : Unlinking(q, d, n) =>
                /\ control.current = <<2, d>> /\ control.current[1] = 2
                /\ control.revisions = {<<1, q>>, <<2, d>>}
           /\ Deleted(q, d) =>
                /\ control.current = <<3, d>> /\ control.current[1] = 3
                /\ control.revisions = {<<1, q>>, <<2, d>>, <<3, d>>}
<1>1. q \in Plans /\ d \in Plans
  BY PlansDiffer
<1>2. ASSUME NEW n, Unlinking(q, d, n)
      PROVE  control.current = <<2, d>> /\ control.revisions = {<<1, q>>, <<2, d>>}
  BY <1>2 DEF Unlinking, Deleting, Lists
<1>3. ASSUME Deleted(q, d)
      PROVE  /\ control.current = <<3, d>>
             /\ control.revisions = {<<1, q>>, <<2, d>>, <<3, d>>}
  BY <1>3 DEF Deleted, Deleting, Lists
<1> QED BY <1>1, <1>2, <1>3, RevisionPairs

\* read_operation, on what can be read.
LEMMA OperationRead ==
    ASSUME CleanupType, DiskShape, ReadableNow(control), NEW x \in Plans
    PROVE  /\ Operation(x) = 0 => \A n \in 1..3 : <<n, x>> \notin control.revisions
           /\ Operation(x) # 0 =>
                Operation(x) \in 1..3 /\ <<Operation(x), x>> \in control.revisions
           /\ FinalRevision(x) \in control.revisions => <<Operation(x), x>> = FinalRevision(x)
           /\ (x \in QPlans /\ Operation(x) # 0) => Operation(x) = 1
           /\ (x \in DPlans /\ Operation(x) # 0) => Operation(x) \in {2, 3}
<1> DEFINE own == {n \in 1..3 : <<n, x>> \in control.revisions}
<1>1. control.revisions = Reachable(control)
  BY DEF ReadableNow, Readable, RevisionsExact
<1>2. Operation(x) = IF own = {} THEN 0 ELSE CHOOSE n \in own : \A k \in own : k <= n
  BY <1>1 DEF Operation
<1>3. own # {} => \E n \in own : \A k \in own : k <= n
  <2>1. CASE 3 \in own
    BY <2>1
  <2>2. CASE 3 \notin own /\ 2 \in own
    <3>1. \A k \in own : k \in {1, 2}
      BY <2>2
    <3> QED BY <2>2, <3>1
  <2>3. CASE 3 \notin own /\ 2 \notin own
    <3>1. \A k \in own : k = 1
      BY <2>3
    <3> HIDE DEF own
    <3>2. own # {} => 1 \in own
      BY <3>1
    <3> QED BY <3>1, <3>2
  <2> QED BY <2>1, <2>2, <2>3
<1>4. own # {} => Operation(x) \in own /\ \A k \in own : k <= Operation(x)
  BY <1>2, <1>3
<1>5. x \in QPlans => own \subseteq {1}
  <2>1. SUFFICES ASSUME x \in QPlans
                 PROVE  \A n \in 2..3 : <<n, x>> \notin control.revisions
    OBVIOUS
  <2>2. CASE \E q \in QPlans : Quarantined(q, {}, {})
    <3>1. PICK q \in QPlans : Quarantined(q, {}, {})
      BY <2>2
    <3> QED BY <3>1, RevisionsOfQuarantined, RevisionPairs DEF Plans
  <2>3. CASE \E q \in QPlans, d \in DPlans :
                \/ \E left \in 0..(Entries + 1) : Unlinking(q, d, left)
                \/ Deleted(q, d)
    <3>1. PICK q \in QPlans, d \in DPlans :
                \/ \E left \in 0..(Entries + 1) : Unlinking(q, d, left)
                \/ Deleted(q, d)
      BY <2>3
    <3>2. control.revisions \subseteq {<<1, q>>, <<2, d>>, <<3, d>>}
      BY <3>1, RevisionsOfDeleting
    <3>3. x # d
      BY <2>1, PlansDiffer
    <3> QED BY <3>2, <3>3, RevisionPairs, PlansDiffer
  <2> QED BY <2>2, <2>3, ReadableShape
<1>6. x \in DPlans => own \subseteq {2, 3}
  <2>1. SUFFICES ASSUME x \in DPlans
                 PROVE  <<1, x>> \notin control.revisions
    OBVIOUS
  <2>2. CASE \E q \in QPlans : Quarantined(q, {}, {})
    <3>1. PICK q \in QPlans : Quarantined(q, {}, {})
      BY <2>2
    <3> QED BY <3>1, <2>1, RevisionsOfQuarantined, RevisionPairs, PlansDiffer
  <2>3. CASE \E q \in QPlans, d \in DPlans :
                \/ \E left \in 0..(Entries + 1) : Unlinking(q, d, left)
                \/ Deleted(q, d)
    <3>1. PICK q \in QPlans, d \in DPlans :
                \/ \E left \in 0..(Entries + 1) : Unlinking(q, d, left)
                \/ Deleted(q, d)
      BY <2>3
    <3>2. control.revisions \subseteq {<<1, q>>, <<2, d>>, <<3, d>>}
      BY <3>1, RevisionsOfDeleting
    <3>3. x # q
      BY <2>1, PlansDiffer
    <3> QED BY <3>2, <3>3, RevisionPairs, PlansDiffer
  <2> QED BY <2>2, <2>3, ReadableShape
<1>7. FinalRevision(x) \in control.revisions => <<Operation(x), x>> = FinalRevision(x)
  <2>1. CASE x \in QPlans
    <3>1. FinalRevision(x) = <<1, x>>
      BY <2>1 DEF FinalRevision
    <3> HIDE DEF own
    <3>2. 1 \in own => Operation(x) = 1
      BY <1>4, <1>5, <2>1
    <3> QED BY <3>1, <3>2 DEF own
  <2>2. CASE x \notin QPlans
    <3>1. FinalRevision(x) = <<3, x>>
      BY <2>2 DEF FinalRevision
    <3>2. 3 \in own => Operation(x) = 3
      BY <1>4
    <3> QED BY <3>1, <3>2
  <2> QED BY <2>1, <2>2
<1>8. Operation(x) = 0 => own = {}
  BY <1>4
<1> QED BY <1>4, <1>5, <1>6, <1>7, <1>8, <1>2

\* inspect_reconciliation never says "no effect" of a directory that is there
\* and cannot be read.
LEMMA UnreadableIsNoRefusal ==
    ASSUME control.exists, ~ReadableNow(control), NEW x
    PROVE  Reconciliation(x) # "no_effect"
<1>1. ObservedCurrent(x) = "unreadable"
  BY DEF ObservedCurrent
<1> QED BY <1>1 DEF Reconciliation

-----------------------------------------------------------------------------
(* Calls outside the lock.                                                 *)

LEMMA AnswersOf ==
    /\ NoAnswer \in AnswerRecord /\ Committed \in AnswerRecord
    /\ Refused \in AnswerRecord /\ Locked \in AnswerRecord
    /\ NoAnswer.code = "none" /\ Committed.code = "committed"
    /\ Refused.code = "refused" /\ Locked.code = "run_locked"
    /\ Refused.fs = "none" /\ Refused.domain = "none"
    /\ Locked.fs = "none" /\ Locked.domain = "none"
    /\ Committed.fs = "none" /\ Committed.domain = "none"
    /\ ~Uncertain(Refused) /\ ~Uncertain(Locked) /\ ~Uncertain(Committed)
    /\ Committed # NoAnswer /\ Refused # NoAnswer /\ Refused # Committed /\ Locked # Committed
  BY DEF NoAnswer, Committed, Refused, Locked, Failure, AnswerRecord, Uncertain

LEMMA FailureFields ==
    ASSUME NEW c, NEW e, NEW d
    PROVE  /\ Failure(c, e, d).code = c /\ Failure(c, e, d).fs = e
           /\ Failure(c, e, d).domain = d
           /\ Failure(c, e, d) = Committed => c = "committed"
           /\ Failure(c, e, d) = NoAnswer => c = "none"
  BY DEF Failure, Committed, NoAnswer

\* An answer of a call that has left no mark is honest when it owns up to
\* uncertainty, or the call found no mark of the plan either.
LEMMA HonestWithoutMarks ==
    ASSUME NEW p \in Callers, call'[p].did = {},
           \/ Uncertain(call'[p].answer) \/ call'[p].answer.code = "committed"
           \/ ~call'[p].before,
           call'[p].answer.code = "committed" =>
             FinalRevision(call'[p].plan) \in control'.revisions,
           call'[p].answer.domain = "current_advanced" =>
             <<2, call'[p].plan>> \in control'.revisions
    PROVE  AnswerHonest(p)'
  BY DEF AnswerHonest, Uncertain, FinalRevision

AnswerEffects ==
    {"none", "journal_only", "control_published", "source_moved", "delete_staging_moved",
     "partial_delete"}

LEMMA UncertainReplayAnswer ==
    ASSUME NEW x
    PROVE  /\ UncertainReplay(x) \in AnswerRecord
           /\ UncertainReplay(x).code = "effect_unknown"
           /\ UncertainReplay(x).domain = "current_may_have_advanced"
<1>1. PICK e \in AnswerEffects :
           UncertainReplay(x) = Failure("effect_unknown", e, "current_may_have_advanced")
  BY DEF UncertainReplay, AnswerEffects
<1> QED BY <1>1, FailureFields DEF AnswerEffects, AnswerRecord, Failure

LEMMA PreparedReplayAnswer ==
    ASSUME NEW x
    PROVE  /\ PreparedReplay(x) \in AnswerRecord
           /\ PreparedReplay(x).code \in {"effect_unknown", "reconciliation_required"}
           /\ PreparedReplay(x).domain \in {"current_may_have_advanced", "current_advanced"}
<1>1. PICK c \in {"effect_unknown", "reconciliation_required"},
           e \in {"delete_staging_moved", "partial_delete"},
           d \in {"current_may_have_advanced", "current_advanced"} :
           PreparedReplay(x) = Failure(c, e, d)
  BY DEF PreparedReplay
<1> QED BY <1>1, FailureFields DEF AnswerRecord, Failure

\* What execute makes of what it reads first.
ReplayAnswer(x) ==
    IF ~control.exists THEN NoAnswer
    ELSE IF ~ReadableNow(control) THEN UnreadableReplay(x)
    ELSE IF Operation(x) = 0 THEN NoAnswer
    ELSE IF <<Operation(x), x>> = FinalRevision(x) THEN Committed
    ELSE PreparedReplay(x)

LEMMA Unmarked ==
    ASSUME CleanupType, DiskShape, NEW x \in Plans,
           ~control.exists \/ (ReadableNow(control) /\ Operation(x) = 0)
    PROVE  ~Marked(x)
<1>1. CASE ~control.exists
  <2>1. control = NoControl
    BY <1>1, DiskShapes
  <2> QED BY <1>1, <2>1 DEF Marked, NoControl
<1>2. CASE ReadableNow(control) /\ Operation(x) = 0
  <2>1. \A n \in 1..3 : <<n, x>> \notin control.revisions
    BY <1>2, OperationRead
  <2>2. /\ control.current # NoRevision
        /\ control.roots = Transactions(control.revisions)
    BY <1>2 DEF ReadableNow, Readable, PointerIntact, JournalsExact, RevisionsExact
  <2>3. x \notin control.roots
    <3>1. SUFFICES ASSUME x \in control.roots PROVE FALSE
      OBVIOUS
    <3>2. PICK r \in control.revisions : r[2] = x
      BY <2>2, <3>1 DEF Transactions
    <3>3. r \in (1..3) \X Plans
      BY DEF CleanupType, ControlRecord, RevisionId
    <3>4. r = <<r[1], x>> /\ r[1] \in 1..3
      BY <3>2, <3>3
    <3> QED BY <2>1, <3>4
  <2> QED BY <2>1, <2>2, <2>3 DEF Marked
<1> QED BY <1>1, <1>2

LEMMA ReplayAnswers ==
    ASSUME CleanupType, DiskShape, AckedRecorded, NEW x \in Plans
    PROVE  LET a == ReplayAnswer(x) IN
           /\ a \in AnswerRecord
           /\ a = NoAnswer => ~Marked(x)
           /\ a # NoAnswer => Uncertain(a) \/ a = Committed
           /\ a.code = "committed" => FinalRevision(x) \in control.revisions
           /\ a.domain = "current_advanced" => <<2, x>> \in control.revisions
           /\ x \in acked => a # NoAnswer /\ a.code \in {"committed", "effect_unknown"}
<1>1. CASE ~control.exists
  <2>1. ReplayAnswer(x) = NoAnswer
    BY <1>1 DEF ReplayAnswer
  <2>2. control.revisions = {}
    BY <1>1, DiskShapes DEF NoControl
  <2>3. ~Marked(x) /\ x \notin acked
    BY <1>1, <2>2, Unmarked DEF AckedRecorded
  <2> QED BY <2>1, <2>3, AnswersOf DEF NoAnswer, Failure
<1>2. CASE control.exists /\ ~ReadableNow(control)
  <2>1. ReplayAnswer(x) = UncertainReplay(x)
    BY <1>2, UnreadableIsNoRefusal DEF ReplayAnswer, UnreadableReplay
  <2> QED BY <2>1, UncertainReplayAnswer, AnswersOf DEF Uncertain
<1>3. CASE control.exists /\ ReadableNow(control) /\ Operation(x) = 0
  <2>1. ReplayAnswer(x) = NoAnswer
    BY <1>3 DEF ReplayAnswer
  <2>2. \A n \in 1..3 : <<n, x>> \notin control.revisions
    BY <1>3, OperationRead
  <2>3. FinalRevision(x) \notin control.revisions
    BY <2>2 DEF FinalRevision
  <2>4. ~Marked(x) /\ x \notin acked
    BY <1>3, <2>3, Unmarked DEF AckedRecorded
  <2> QED BY <2>1, <2>4, AnswersOf DEF NoAnswer, Failure
<1>4. CASE /\ control.exists /\ ReadableNow(control) /\ Operation(x) # 0
           /\ <<Operation(x), x>> = FinalRevision(x)
  <2>1. ReplayAnswer(x) = Committed
    BY <1>4 DEF ReplayAnswer
  <2>2. FinalRevision(x) \in control.revisions
    BY <1>4, OperationRead
  <2> QED BY <2>1, <2>2, AnswersOf
<1>5. CASE /\ control.exists /\ ReadableNow(control) /\ Operation(x) # 0
           /\ <<Operation(x), x>> # FinalRevision(x)
  <2>1. ReplayAnswer(x) = PreparedReplay(x)
    BY <1>5 DEF ReplayAnswer
  <2>2. FinalRevision(x) \notin control.revisions
    BY <1>5, OperationRead
  <2>3. x \notin acked
    BY <2>2 DEF AckedRecorded
  <2>4. <<2, x>> \in control.revisions
    <3>1. x \notin QPlans
      BY <1>5, OperationRead DEF FinalRevision
    <3>2. Operation(x) \in {2, 3} /\ <<Operation(x), x>> \in control.revisions
      BY <1>5, <3>1, OperationRead DEF Plans
    <3>3. Operation(x) # 3
      BY <1>5, <3>1 DEF FinalRevision
    <3> QED BY <3>2, <3>3
  <2> QED BY <2>1, <2>3, <2>4, PreparedReplayAnswer, AnswersOf DEF Uncertain
<1> QED BY <1>1, <1>2, <1>3, <1>4, <1>5

\* A call that is only looked at: what must hold of it when it goes on.
LEMMA LooksOn ==
    ASSUME CleanupInv, NEW p \in Callers, call[p].pc \in {"replay", "admit", "lock"},
           NEW c \in CleanupCall, Quiet, call' = [call EXCEPT ![p] = c],
           lock' = lock, c.plan = call[p].plan, c.did = {},
           c.pc \in {"admit", "lock", "done"},
           c.pc # "done" => ~c.before /\ ~c.wasAcked,
           c.pc = "done" =>
             /\ Uncertain(c.answer) \/ c.answer.code = "committed" \/ ~c.before
             /\ c.wasAcked => c.answer.code \in {"committed", "effect_unknown"}
             /\ c.answer.code = "committed" => FinalRevision(c.plan) \in control.revisions
             /\ c.answer.domain = "current_advanced" => <<2, c.plan>> \in control.revisions,
           acked' = acked \/ (acked' = acked \cup {c.plan} /\ c.pc = "done"
                              /\ c.answer.code = "committed")
    PROVE  CleanupInv'
<1>1. call'[p] = c
  BY CallAfter DEF CleanupInv
<1>2. call[p].plan \in Plans /\ plan[call[p].plan].made
  BY DEF CleanupInv, CallerHolds, Knows
<1>3. plan' = plan /\ control' = control
  BY DEF Quiet
<1>4. Knows(p)'
  BY <1>1, <1>2, <1>3 DEF Knows, QReady, DReady, QDone, DDone
<1>5. c.pc \notin Inside
  BY DEF Inside, QReady, DReady, QDone, DDone
<1>6. c.pc = "done" => AnswerHonest(p)'
  BY <1>1, <1>3, HonestWithoutMarks
<1>7. CallerHolds(p)'
  BY <1>1, <1>4, <1>5, <1>6, OutsideHolds DEF CallerHolds
<1>8. lock # p
  BY DEF CleanupInv, LockHeld, Inside, QReady, DReady, QDone, DDone
<1>9. LockMoves(p)
  BY <1>1, <1>5, <1>8 DEF LockMoves
<1>10. acked' \subseteq Plans /\ AckedGrows
  BY <1>2, <1>3 DEF CleanupInv, CleanupType, AckedGrows
<1> QED BY <1>1, <1>7, <1>9, <1>10, QuietStep

LEMMA WhereLooking ==
    ASSUME CleanupInv, NEW p \in Callers, call[p].pc \in {"replay", "admit", "lock"}
    PROVE  /\ call[p] \in CleanupCall
           /\ call[p].plan \in Plans /\ plan[call[p].plan].made /\ call[p].did = {}
           /\ call[p].pc # "replay" => call[p].before = FALSE
           /\ call[p].wasAcked = FALSE
           /\ CleanupType /\ DiskShape /\ AckedRecorded
<1>1. /\ call[p] \in CleanupCall
      /\ call[p].before \in BOOLEAN /\ call[p].wasAcked \in BOOLEAN
  BY DEF CleanupInv, CleanupType, CleanupCall
<1>2. Knows(p)
  BY DEF CleanupInv, CallerHolds
<1> QED BY <1>1, <1>2 DEF CleanupInv, Knows

LEMMA CleanupReplays ==
    ASSUME CleanupInv, NEW p \in Callers, Replay(p)
    PROVE  CleanupInv'
<1> DEFINE x == call[p].plan
           a == ReplayAnswer(x)
           m == Marked(x)
           w == x \in acked
           s == IF a = NoAnswer THEN "admit" ELSE "done"
           c == [call[p] EXCEPT !.pc = s, !.answer = a, !.before = m, !.wasAcked = w]
<1>1. /\ call[p].pc \in {"replay", "admit", "lock"}
      /\ call' = [call EXCEPT ![p] = c]
      /\ acked' = IF a = Committed THEN acked \cup {x} ELSE acked
      /\ lock' = lock
  BY ZenonT(60) DEF Replay, At, ReplayAnswer
<1>2. Quiet
  BY DEF Replay, Quiet, fs, world
<1>3. /\ a \in AnswerRecord
      /\ a = NoAnswer => m = FALSE /\ w = FALSE
      /\ a # NoAnswer => Uncertain(a) \/ a.code = "committed"
      /\ a.code = "committed" => FinalRevision(x) \in control.revisions
      /\ a.domain = "current_advanced" => <<2, x>> \in control.revisions
      /\ w => a.code \in {"committed", "effect_unknown"}
  <2>1. CleanupType /\ DiskShape /\ AckedRecorded /\ x \in Plans
    BY <1>1, WhereLooking
  <2> HIDE DEF x
  <2>2. /\ a \in AnswerRecord
        /\ a = NoAnswer => ~m
        /\ a # NoAnswer => Uncertain(a) \/ a = Committed
        /\ a.code = "committed" => FinalRevision(x) \in control.revisions
        /\ a.domain = "current_advanced" => <<2, x>> \in control.revisions
        /\ w => a # NoAnswer /\ a.code \in {"committed", "effect_unknown"}
    BY <2>1, ReplayAnswers
  <2>3. m \in BOOLEAN /\ w \in BOOLEAN
    BY DEF Marked
  <2> HIDE DEF a, m, w
  <2> QED BY <2>2, <2>3, AnswersOf
<1>4. m \in BOOLEAN /\ w \in BOOLEAN /\ s \in {"admit", "done"}
  BY DEF Marked
<1>5. s = "done" <=> a # NoAnswer
  OBVIOUS
<1>6. a = Committed => s = "done" /\ a.code = "committed"
  BY AnswersOf
<1>7. call[p] \in CleanupCall /\ call[p].did = {}
  BY <1>1, WhereLooking
<1> HIDE DEF a, m, w, s, x
<1>8. /\ c \in CleanupCall
      /\ c.pc = s /\ c.answer = a /\ c.before = m /\ c.wasAcked = w
      /\ c.plan = call[p].plan /\ c.did = {}
  BY <1>3, <1>4, <1>7, ZenonT(60) DEF CleanupCall, CleanupPlace
<1>9. c.plan = x
  BY <1>8 DEF x
<1> HIDE DEF c
<1> QED BY <1>1, <1>2, <1>3, <1>4, <1>5, <1>6, <1>8, <1>9, LooksOn

\* What the second read says is on record when it says "committed".
LEMMA AdmissionAnswers ==
    ASSUME CleanupType, DiskShape, NEW x \in Plans
    PROVE  /\ AdmissionAnswer(x) \in AnswerRecord
           /\ AdmissionAnswer(x).code = "committed" => FinalRevision(x) \in control.revisions
           /\ AdmissionAnswer(x).domain # "current_advanced"
<1>1. (ReadableNow(control) /\ control.current = FinalRevision(x))
        => FinalRevision(x) \in control.revisions
  <2>1. SUFFICES ASSUME ReadableNow(control), control.current = FinalRevision(x)
                 PROVE  FinalRevision(x) \in control.revisions
    OBVIOUS
  <2>2. CASE \E q \in QPlans : Quarantined(q, {}, {})
    <3>1. PICK q \in QPlans : Quarantined(q, {}, {})
      BY <2>2
    <3> QED BY <2>1, <3>1, RevisionsOfQuarantined
  <2>3. CASE \E q \in QPlans, d \in DPlans :
                \/ \E left \in 0..(Entries + 1) : Unlinking(q, d, left)
                \/ Deleted(q, d)
    <3>1. PICK q \in QPlans, d \in DPlans :
                \/ \E left \in 0..(Entries + 1) : Unlinking(q, d, left)
                \/ Deleted(q, d)
      BY <2>3
    <3>2. control.current \in control.revisions
      BY <3>1, RevisionsOfDeleting
    <3> QED BY <2>1, <3>2
  <2> QED BY <2>1, <2>2, <2>3, ReadableShape
<1> DEFINE r == Failure("reconciliation_required", "none", "none")
<1>2. r \in AnswerRecord /\ r.code = "reconciliation_required" /\ r.domain = "none"
  BY DEF Failure, AnswerRecord
<1>3. AdmissionAnswer(x) \in {NoAnswer, Committed, Refused, r}
  BY DEF AdmissionAnswer
<1>4. AdmissionAnswer(x) = Committed
        => ReadableNow(control) /\ control.current = FinalRevision(x)
  <2>1. r # Committed
    BY <1>2, AnswersOf
  <2> HIDE DEF r
  <2> QED BY <2>1, AnswersOf DEF AdmissionAnswer, FinalRevision, r
<1>5. NoAnswer.domain = "none" /\ Committed.domain = "none" /\ Refused.domain = "none"
  BY DEF NoAnswer, Committed, Refused, Failure
<1>6. AdmissionAnswer(x).code = "committed" => AdmissionAnswer(x) = Committed
  BY <1>2, <1>3, AnswersOf
<1> HIDE DEF r
<1> QED BY <1>1, <1>2, <1>3, <1>4, <1>5, <1>6, AnswersOf

LEMMA CleanupAdmits ==
    ASSUME CleanupInv, NEW p \in Callers, Admit(p)
    PROVE  CleanupInv'
<1> DEFINE x == call[p].plan
           b == approval[x]
           a == IF call[p].cancelled \/ ~Approved(x, b) THEN Refused
                ELSE IF AdmissionAnswer(x) # NoAnswer THEN AdmissionAnswer(x)
                ELSE IF ~(IF x \in QPlans THEN QuarantineEligible(x) ELSE DeleteEligible(x, {}))
                THEN Refused
                ELSE NoAnswer
           s == IF a = NoAnswer THEN "lock" ELSE "done"
           c == [call[p] EXCEPT !.pc = s, !.answer = a, !.binding = b]
<1>1. /\ call[p].pc \in {"replay", "admit", "lock"} /\ call[p].pc # "replay"
      /\ call' = [call EXCEPT ![p] = c]
      /\ acked' = IF a = Committed THEN acked \cup {x} ELSE acked
      /\ lock' = lock
  BY DEF Admit, At
<1>2. Quiet
  BY DEF Admit, Quiet, fs, world
<1>3. /\ call[p] \in CleanupCall /\ x \in Plans /\ call[p].did = {}
      /\ call[p].before = FALSE /\ call[p].wasAcked = FALSE /\ b \in 0..2
  BY <1>1, WhereLooking DEF CleanupType
<1>4. a \in {NoAnswer, Refused, AdmissionAnswer(x)}
  OBVIOUS
<1>5. s \in {"lock", "done"} /\ (a = Committed => s = "done")
  BY AnswersOf
<1> HIDE DEF a, s, b, x
<1>6. /\ a \in AnswerRecord /\ a.domain # "current_advanced"
      /\ a.code = "committed" => FinalRevision(x) \in control.revisions
  <2>1. /\ NoAnswer.domain = "none" /\ Refused.domain = "none"
    BY DEF NoAnswer, Refused, Failure
  <2>2. /\ AdmissionAnswer(x) \in AnswerRecord
        /\ AdmissionAnswer(x).code = "committed" => FinalRevision(x) \in control.revisions
        /\ AdmissionAnswer(x).domain # "current_advanced"
    BY <1>1, <1>3, WhereLooking, AdmissionAnswers
  <2> QED BY <1>4, <2>1, <2>2, AnswersOf
<1>7. /\ c \in CleanupCall
      /\ c.pc = s /\ c.answer = a /\ c.before = FALSE /\ c.wasAcked = FALSE
      /\ c.plan = call[p].plan /\ c.did = {}
  BY <1>3, <1>5, <1>6 DEF CleanupCall, CleanupPlace
<1>8. c.plan = x
  BY <1>7 DEF x
<1> HIDE DEF c
<1> QED BY <1>1, <1>2, <1>5, <1>6, <1>7, <1>8, AnswersOf, LooksOn

\* A call that cannot have the lock, or finds under it what no longer holds.
LEMMA CleanupTurnedAway ==
    ASSUME CleanupInv, NEW p \in Callers, At(p, "lock"), NEW a \in {Locked, Refused},
           Answer(p, a), lock' = lock, UNCHANGED <<fs, world, acked, moves, spare>>
    PROVE  CleanupInv'
<1> DEFINE c == [call[p] EXCEPT !.pc = "done", !.answer = a, !.snapshot = <<>>]
<1>1. call[p].pc \in {"replay", "admit", "lock"} /\ call[p].pc # "replay"
  BY DEF At
<1>2. call' = [call EXCEPT ![p] = c] /\ Quiet /\ acked' = acked
  BY DEF Answer, Quiet, fs, world
<1>3. /\ call[p] \in CleanupCall /\ call[p].did = {}
      /\ call[p].before = FALSE /\ call[p].wasAcked = FALSE
  BY <1>1, WhereLooking
<1>4. a \in AnswerRecord /\ a.code # "committed" /\ a.domain = "none"
  BY AnswersOf
<1>5. /\ c \in CleanupCall
      /\ c.pc = "done" /\ c.answer = a /\ c.before = FALSE /\ c.wasAcked = FALSE
      /\ c.plan = call[p].plan /\ c.did = {}
  BY <1>3, <1>4 DEF CleanupCall, CleanupPlace, SnapshotType
<1> HIDE DEF c
<1> QED BY <1>1, <1>2, <1>4, <1>5, LooksOn

LEMMA CleanupInitializesRoot ==
    ASSUME CleanupInv, NEW p \in Callers, InitializeRoot(p)
    PROVE  CleanupInv'
<1> DEFINE c == [call[p] EXCEPT !.pc = "marker"]
<1>1. call[p] \in CleanupCall /\ Knows(p) /\ call[p].pc = "idle"
  BY DEF CleanupInv, CleanupType, CallerHolds, InitializeRoot, At
<1>2. /\ call' = [call EXCEPT ![p] = c] /\ Quiet /\ acked' = acked
      /\ lock = NoCaller /\ lock' = p
  BY DEF InitializeRoot, Goto, Quiet, world
<1>3. call[p].before \in BOOLEAN /\ call[p].wasAcked \in BOOLEAN
  BY <1>1 DEF CleanupCall
<1>4. call[p].before = FALSE /\ call[p].wasAcked = FALSE /\ call[p].did = {}
  BY <1>1, <1>3 DEF Knows
<1>5. /\ c \in CleanupCall /\ c.pc = "marker"
      /\ c.before = FALSE /\ c.wasAcked = FALSE /\ c.did = {}
  BY <1>1, <1>4 DEF CleanupCall, CleanupPlace
<1> HIDE DEF c
<1>6. call'[p] = c
  BY <1>2, CallAfter DEF CleanupInv
<1>7. Knows(p)'
  BY <1>5, <1>6 DEF Knows, QReady, DReady, QDone, DDone
<1>8. call'[p].pc \notin Inside
  BY <1>5, <1>6 DEF Inside, QReady, DReady, QDone, DDone
<1>9. CallerHolds(p)'
  BY <1>5, <1>6, <1>7, <1>8, OutsideHolds DEF CallerHolds
<1>10. LockMoves(p)
  BY <1>2, <1>5, <1>6 DEF LockMoves
<1>11. acked' \subseteq Plans /\ AckedGrows
  BY <1>2 DEF CleanupInv, CleanupType, AckedGrows
<1> QED BY <1>2, <1>5, <1>9, <1>10, <1>11, QuietStep

LEMMA CleanupEndsInitialization ==
    ASSUME CleanupInv, NEW p \in Callers, WriteMarker(p) \/ InitializationFails(p)
    PROVE  CleanupInv'
<1>1. /\ call' = [call EXCEPT ![p] = Idle] /\ Quiet /\ acked' = acked
      /\ call[p].pc = "marker" /\ lock' = NoCaller
  BY DEF WriteMarker, InitializationFails, At, Quiet, world, fs
<1>2. lock = p
  BY <1>1 DEF CleanupInv, LockHeld
<1> QED BY <1>1, <1>2, CleanupAssumption, BecomesIdle

LEMMA CleanupReturns ==
    ASSUME CleanupInv, NEW p \in Callers, Return(p)
    PROVE  CleanupInv'
<1>1. /\ call' = [call EXCEPT ![p] = Idle] /\ Quiet /\ acked' = acked
      /\ call[p].pc = "done" /\ lock' = lock
  BY DEF Return, At, Quiet, world, fs
<1>2. lock # p
  BY <1>1 DEF CleanupInv, LockHeld, Inside, QReady, DReady, QDone, DDone
<1> QED BY <1>1, <1>2, BecomesIdle

LEMMA CleanupCrashes ==
    ASSUME CleanupInv, NEW p \in Callers, Crash(p)
    PROVE  CleanupInv'
<1>1. /\ call' = [call EXCEPT ![p] = Idle] /\ Quiet /\ acked' = acked
      /\ lock' = IF lock = p THEN NoCaller ELSE lock
  BY DEF Crash, Quiet, world, fs
<1> QED BY <1>1, CleanupAssumption, BecomesIdle

LEMMA CleanupBegins ==
    ASSUME CleanupInv, NEW p \in Callers, NEW x \in Plans, Begin(p, x)
    PROVE  CleanupInv'
<1> DEFINE c == [Idle EXCEPT !.pc = "replay", !.plan = x]
<1>1. /\ call' = [call EXCEPT ![p] = c] /\ Quiet /\ acked' = acked
      /\ lock' = lock /\ call[p].pc = "idle" /\ plan[x].made
  BY DEF Begin, At, Quiet, world, fs
<1>2. c \in CleanupCall /\ c.pc = "replay" /\ c.plan = x
  BY IdleIsCall DEF CleanupCall, CleanupPlace
<1>3. c.did = {} /\ c.before = FALSE /\ c.wasAcked = FALSE
  BY DEF Idle
<1> HIDE DEF c
<1>4. call'[p] = c /\ plan' = plan
  BY <1>1, CallAfter DEF CleanupInv, Quiet
<1>5. Knows(p)'
  BY <1>1, <1>2, <1>3, <1>4 DEF Knows, QReady, DReady, QDone, DDone
<1>6. call'[p].pc \notin Inside
  BY <1>2, <1>4 DEF Inside, QReady, DReady, QDone, DDone
<1>7. CallerHolds(p)'
  BY <1>2, <1>4, <1>5, <1>6, OutsideHolds DEF CallerHolds
<1>8. lock # p
  BY <1>1 DEF CleanupInv, LockHeld, Inside, QReady, DReady, QDone, DDone
<1>9. LockMoves(p)
  BY <1>1, <1>2, <1>4, <1>6, <1>8 DEF LockMoves
<1>10. acked' \subseteq Plans /\ AckedGrows
  BY <1>1 DEF CleanupInv, CleanupType, AckedGrows
<1> QED BY <1>1, <1>2, <1>7, <1>9, <1>10, QuietStep

LEMMA CleanupIsBusy ==
    ASSUME CleanupInv, NEW p \in Callers, LockBusy(p)
    PROVE  CleanupInv'
  BY CleanupTurnedAway DEF LockBusy

-----------------------------------------------------------------------------
(* The end of a call.                                                      *)

\* A call that ends with an honest answer, or that the answer is made less sure of.
LEMMA CleanupAnswers ==
    ASSUME CleanupInv, Quiet, NEW p \in Callers, call[p].pc \in {"released", "failed"},
           NEW c \in CleanupCall, call' = [call EXCEPT ![p] = c],
           c.plan = call[p].plan, c.did = call[p].did, c.before = call[p].before,
           c.wasAcked = call[p].wasAcked, c.pc \in {"failed", "done"}, AnswerHonest(p)',
           c.pc = "failed" => c.answer.code # "committed",
           lock' # p, lock' = lock \/ (lock = p /\ lock' = NoCaller),
           AckedGrows, acked' \subseteq Plans
    PROVE  CleanupInv'
<1>1. call'[p] = c /\ plan' = plan
  BY CallAfter DEF CleanupInv, Quiet
<1>2. Knows(p)
  BY DEF CleanupInv, CallerHolds
<1>3. Knows(p)'
  BY <1>1, <1>2 DEF Knows, QReady, DReady, QDone, DDone
<1>4. call'[p].pc \notin Inside
  BY <1>1 DEF Inside, QReady, DReady, QDone, DDone
<1>5. CallerHolds(p)'
  BY <1>3, <1>4, OutsideHolds DEF CallerHolds
<1>6. LockMoves(p)
  BY <1>1, <1>4 DEF LockMoves
<1> QED BY <1>5, <1>6, QuietStep

LEMMA CurrentOnRecord ==
    ASSUME CleanupType, DiskShape, ReadableNow(control)
    PROVE  control.current \in control.revisions
<1>1. CASE \E q \in QPlans : Quarantined(q, {}, {})
  BY <1>1, RevisionsOfQuarantined
<1>2. CASE \E q \in QPlans, d \in DPlans :
              \/ \E left \in 0..(Entries + 1) : Unlinking(q, d, left)
              \/ Deleted(q, d)
  BY <1>2, RevisionsOfDeleting
<1> QED BY <1>1, <1>2, ReadableShape

LEMMA CleanupConcludes ==
    ASSUME CleanupInv, NEW p \in Callers, NEW x \in Plans, NEW same \in BOOLEAN,
           NEW e \in {"source_moved", "partial_delete"}, Released(p, x, same, e)
    PROVE  CleanupInv'
<1> DEFINE a == IF same /\ ReadableNow(control) /\ control.current = FinalRevision(x)
                THEN Committed
                ELSE Failure("effect_unknown", e, "current_may_have_advanced")
           c == [call[p] EXCEPT !.pc = "done", !.answer = a, !.snapshot = <<>>]
<1>1. /\ call' = [call EXCEPT ![p] = c] /\ Quiet /\ lock' = lock
      /\ call[p].pc = "released" /\ call[p].plan = x
      /\ acked' = IF call'[p].answer = Committed THEN acked \cup {x} ELSE acked
  BY DEF Released, Answer, At, Quiet, world, fs
<1>2. call[p] \in CleanupCall /\ Knows(p) /\ CleanupType /\ DiskShape
  BY DEF CleanupInv, CleanupType, CallerHolds
<1>3. a = Committed \/ a = Failure("effect_unknown", e, "current_may_have_advanced")
  OBVIOUS
<1>4. a = Committed => FinalRevision(x) \in control.revisions
  BY <1>2, CurrentOnRecord, FailureFields
<1> HIDE DEF a
<1>5. /\ a \in AnswerRecord
      /\ a.code \in {"committed", "effect_unknown"}
      /\ a = Committed \/ a.fs = e
      /\ a.domain \in {"none", "current_may_have_advanced"}
      /\ a.code = "committed" => a = Committed
  BY <1>3, AnswersOf, FailureFields DEF AnswerRecord, Failure
<1>6. /\ c \in CleanupCall /\ c.pc = "done" /\ c.answer = a
      /\ c.plan = x /\ c.did = call[p].did
      /\ c.before = call[p].before /\ c.wasAcked = call[p].wasAcked
  BY <1>1, <1>2, <1>5 DEF CleanupCall, CleanupPlace, SnapshotType
<1> HIDE DEF c
<1>7. call'[p] = c /\ control' = control
  BY <1>1, CallAfter DEF CleanupInv, Quiet
<1>8. AnswerHonest(p)'
  BY <1>4, <1>5, <1>6, <1>7, AnswersOf DEF AnswerHonest, Uncertain, FinalRevision
<1>9. lock # p
  BY <1>1 DEF CleanupInv, LockHeld, Inside, QReady, DReady, QDone, DDone
<1>10. acked' \subseteq Plans /\ AckedGrows
  BY <1>1, <1>4, <1>6, <1>7 DEF CleanupInv, CleanupType, AckedGrows
<1> QED BY <1>1, <1>6, <1>8, <1>9, <1>10, CleanupAnswers

LEMMA CleanupReleased ==
    ASSUME CleanupInv, NEW p \in Callers, QReleased(p) \/ DReleased(p)
    PROVE  CleanupInv'
<1>1. CASE QReleased(p)
  <2>1. PICK q \in QPlans :
          Released(p, q, product = 0 /\ quarantine = plan[q].tree, "source_moved")
    BY <1>1 DEF QReleased
  <2> DEFINE same == product = 0 /\ quarantine = plan[q].tree
  <2>2. same \in BOOLEAN
    OBVIOUS
  <2>3. Released(p, q, same, "source_moved")
    BY <2>1
  <2> HIDE DEF same
  <2> QED BY <2>2, <2>3, CleanupConcludes DEF Plans
<1>2. CASE DReleased(p)
  <2>1. PICK d \in DPlans :
          Released(p, d, quarantine = 0 /\ staging[d] = 0, "partial_delete")
    BY <1>2 DEF DReleased
  <2> DEFINE same == quarantine = 0 /\ staging[d] = 0
  <2>2. same \in BOOLEAN
    OBVIOUS
  <2>3. Released(p, d, same, "partial_delete")
    BY <2>1
  <2> HIDE DEF same
  <2> QED BY <2>2, <2>3, CleanupConcludes DEF Plans
<1> QED BY <1>1, <1>2

LEMMA DoubtIsHonest ==
    ASSUME NEW p \in Callers, AnswerHonest(p),
           call'[p].plan = call[p].plan, call'[p].did = call[p].did,
           call'[p].answer =
             Failure("effect_unknown", call[p].answer.fs, "current_may_have_advanced"),
           call[p].answer.code # "committed"
    PROVE  AnswerHonest(p)'
<1>1. /\ call'[p].answer.code = "effect_unknown"
      /\ call'[p].answer.fs = call[p].answer.fs
      /\ call'[p].answer.domain = "current_may_have_advanced"
  BY FailureFields
<1> QED BY <1>1 DEF AnswerHonest, Uncertain

LEMMA CleanupFailedReturns ==
    ASSUME CleanupInv, NEW p \in Callers, FailedRelease(p) \/ FailedReturn(p)
    PROVE  CleanupInv'
<1> DEFINE u == Failure("effect_unknown", call[p].answer.fs, "current_may_have_advanced")
<1>1. /\ call[p].pc = "failed" /\ Quiet /\ acked' = acked
  BY DEF FailedRelease, FailedReturn, At, Quiet, world, fs, Answer
<1>2. /\ call[p] \in CleanupCall /\ Knows(p) /\ AnswerHonest(p)
      /\ acked' \subseteq Plans /\ AckedGrows
  BY <1>1 DEF CleanupInv, CleanupType, CallerHolds, AckedGrows
<1>3. u \in AnswerRecord
  BY <1>2 DEF CleanupCall, AnswerRecord, Failure
<1>4. call[p].answer.code # "committed"
  BY <1>1, <1>2 DEF Knows
<1>5. CASE FailedRelease(p) /\ call' = call
  <2>1. call' = [call EXCEPT ![p] = call[p]] /\ lock = p /\ lock' = NoCaller
    BY <1>5 DEF FailedRelease, CleanupInv, CleanupType
  <2>2. AnswerHonest(p)'
    BY <1>1, <1>2, <1>5 DEF AnswerHonest, Quiet
  <2> QED BY <1>1, <1>2, <1>4, <2>1, <2>2, CleanupAssumption, CleanupAnswers
<1>6. CASE FailedRelease(p) /\ call' # call
  <2> DEFINE c == [call[p] EXCEPT !.answer = u]
  <2>1. call' = [call EXCEPT ![p] = c] /\ lock = p /\ lock' = NoCaller
    BY <1>6 DEF FailedRelease
  <2> HIDE DEF u
  <2>2. /\ c \in CleanupCall /\ c.pc = "failed" /\ c.answer = u
        /\ c.plan = call[p].plan /\ c.did = call[p].did
        /\ c.before = call[p].before /\ c.wasAcked = call[p].wasAcked
    BY <1>1, <1>2, <1>3 DEF CleanupCall, CleanupPlace
  <2> HIDE DEF c
  <2>3. call'[p] = c
    BY <2>1, CallAfter DEF CleanupInv
  <2>4. AnswerHonest(p)'
    BY <1>2, <1>4, <2>2, <2>3, DoubtIsHonest DEF u
  <2>5. u.code # "committed"
    BY FailureFields DEF u
  <2> QED BY <1>1, <1>2, <2>1, <2>2, <2>4, <2>5, CleanupAssumption, CleanupAnswers
<1>7. CASE FailedReturn(p)
  <2> DEFINE a == IF SnapshotHolds(p) THEN call[p].answer ELSE u
             c == [call[p] EXCEPT !.pc = "done", !.answer = a, !.snapshot = <<>>]
  <2>1. call' = [call EXCEPT ![p] = c] /\ lock # p /\ lock' = lock
    BY <1>7 DEF FailedReturn, Answer
  <2>2. a \in {call[p].answer, u}
    OBVIOUS
  <2> HIDE DEF u, a
  <2>3. a \in AnswerRecord
    BY <1>2, <1>3, <2>2 DEF CleanupCall
  <2>4. /\ c \in CleanupCall /\ c.pc = "done" /\ c.answer = a
        /\ c.plan = call[p].plan /\ c.did = call[p].did
        /\ c.before = call[p].before /\ c.wasAcked = call[p].wasAcked
    BY <1>2, <2>3 DEF CleanupCall, CleanupPlace, SnapshotType
  <2> HIDE DEF c
  <2>5. call'[p] = c /\ control' = control
    BY <1>1, <2>1, CallAfter DEF CleanupInv, Quiet
  <2>6. AnswerHonest(p)'
    <3>1. CASE a = call[p].answer
      BY <1>2, <2>4, <2>5, <3>1 DEF AnswerHonest
    <3>2. CASE a = u
      BY <1>2, <1>4, <2>4, <2>5, <3>2, DoubtIsHonest DEF u
    <3> QED BY <2>2, <3>1, <3>2
  <2> QED BY <1>1, <1>2, <2>1, <2>4, <2>6, CleanupAnswers
<1> QED BY <1>5, <1>6, <1>7

-----------------------------------------------------------------------------
(* The world, and the dry runs.                                            *)

LEMMA WorldStep ==
    ASSUME CleanupInv, CleanupType', DiskShape', UNCHANGED <<control, lock, call, acked>>,
           PlansKept, DiskKept \/ lock = NoCaller
    PROVE  CleanupInv'
<1>1. LockHeld' /\ AckedRecorded'
  BY DEF CleanupInv, LockHeld, AckedRecorded, FinalRevision
<1>2. ASSUME NEW r \in Callers
      PROVE  CallerHolds(r)'
  <2>1. DiskKept \/ call[r].pc \notin Inside
    BY CleanupAssumption DEF CleanupInv, LockHeld
  <2> QED BY <2>1, OthersKeep DEF CleanupInv
<1> QED BY <1>1, <1>2 DEF CleanupInv

LEMMA WorldGoesOn ==
    ASSUME CleanupInv, CleanupType', UNCHANGED <<control, lock, call, acked>>, DiskKept
    PROVE  CleanupInv'
<1>1. DiskShape'
  BY DiskShapeStays DEF CleanupInv
<1> QED BY <1>1, WorldStep DEF DiskKept

LEMMA CleanupApproves ==
    ASSUME CleanupInv, NEW x \in Plans, Approve(x) \/ ReplaceApproval(x)
    PROVE  CleanupInv'
<1>1. /\ UNCHANGED <<control, lock, call, acked>>
      /\ UNCHANGED <<product, quarantine, staging, plan, moves, now, hold, auditAt>>
  BY DEF Approve, ReplaceApproval, fs
<1>2. approval' \in [Plans -> 0..2]
  BY DEF CleanupInv, CleanupType, Approve, ReplaceApproval
<1>3. CleanupType'
  BY <1>1, <1>2 DEF CleanupInv, CleanupType
<1>4. DiskKept
  BY <1>1, DaysAreNaturals DEF DiskKept, PlansKept, CleanupInv, CleanupType
<1> QED BY <1>1, <1>3, <1>4, WorldGoesOn

LEMMA CleanupHolds ==
    ASSUME CleanupInv, ChangeHold
    PROVE  CleanupInv'
<1>1. /\ UNCHANGED <<control, lock, call, acked>>
      /\ UNCHANGED <<product, quarantine, staging, plan, approval, moves, now, auditAt>>
      /\ hold' = hold + 1
  BY DEF ChangeHold, fs
<1>2. CleanupType'
  BY <1>1 DEF CleanupInv, CleanupType
<1>3. DiskKept
  BY <1>1, DaysAreNaturals DEF DiskKept, PlansKept, CleanupInv, CleanupType
<1> QED BY <1>1, <1>2, <1>3, WorldGoesOn

\* Of the days to come there is a first one.
LEMMA NextDay ==
    ASSUME NEW S \in SUBSET Nat, S # {}
    PROVE  \E t \in S : \A u \in S : t <= u
<1> DEFINE R == OpToRel(<, Nat)
<1>1. IsWellFoundedOn(R, Nat)
  BY NatLessThanWellFounded
<1>2. \A u, v \in Nat : <<u, v>> \in R <=> u < v
  BY DEF OpToRel
<1> HIDE DEF R
<1>3. PICK t \in S : \A u \in S : ~(<<u, t>> \in R)
  BY <1>1, WFMin
<1>4. ASSUME NEW u \in S PROVE t <= u
  <2>1. u \in Nat /\ t \in Nat
    OBVIOUS
  <2>2. ~(u < t)
    BY <1>2, <1>3, <2>1
  <2> QED BY <2>1, <2>2
<1> QED BY <1>4

LEMMA CleanupTicks ==
    ASSUME CleanupInv, Tick
    PROVE  CleanupInv'
<1> DEFINE later == {t \in Days : t > now}
<1>1. later \in SUBSET Nat /\ later # {}
  BY DaysAreNaturals DEF Tick
<1>2. now \in Nat
  BY DaysAreNaturals DEF CleanupInv, CleanupType
<1>3. \E t \in Days : t > now /\ \A u \in Days : u > now => t <= u
  <2>1. PICK t \in later : \A u \in later : t <= u
    BY <1>1, NextDay
  <2> QED BY <2>1
<1>4. now' \in Days /\ now' > now
  BY <1>3 DEF Tick
<1>5. /\ UNCHANGED <<control, lock, call, acked>>
      /\ UNCHANGED <<product, quarantine, staging, plan, approval, moves, hold, auditAt>>
  BY DEF Tick, fs
<1>6. CleanupType'
  BY <1>4, <1>5 DEF CleanupInv, CleanupType
<1>7. DiskKept
  BY <1>2, <1>4, <1>5, DaysAreNaturals DEF DiskKept, PlansKept
<1> QED BY <1>5, <1>6, <1>7, WorldGoesOn

\* The failure audit grows while the tree is at home, or is refused.
LEMMA CleanupAudits ==
    ASSUME CleanupInv, RecordAuditEvent
    PROVE  CleanupInv'
<1>1. /\ UNCHANGED <<control, lock, call, acked>>
      /\ UNCHANGED <<quarantine, staging, plan, approval, moves, hold, now>>
      /\ lock = NoCaller /\ product # 0 /\ product' = product + 1 /\ auditAt' = now
  BY DEF RecordAuditEvent
<1>2. CleanupType'
  BY <1>1 DEF CleanupInv, CleanupType
<1>3. product \in Nat /\ product' # 0 /\ PlansKept
  BY <1>1 DEF CleanupInv, CleanupType, PlansKept
<1>4. DiskShape'
  <2>1. \A q \in QPlans, d \in DPlans : ~DeletionShape(q, d)
    BY <1>1 DEF DeletionShape, Quarantined, InQuarantine, Staged, Announced, Unlinking,
                Closing, Deleted, Deleting, InStaging
  <2>2. CASE Untouched
    BY <1>1, <1>3, <2>2 DEF DiskShape, Untouched, AtHome
  <2>3. CASE \E q \in QPlans : QuarantineShape(q)
    <3>1. PICK q \in QPlans : QuarantineShape(q)
      BY <2>3
    <3>2. Begun(q, {}) \/ Begun(q, {q})
      BY <1>1, <3>1 DEF QuarantineShape, OutOfRoot, Entered, Quarantined, InQuarantine
    <3>3. QuarantineShape(q)'
      BY <1>1, <1>3, <3>2 DEF QuarantineShape, Begun, Lists, AtHome
    <3> QED BY <3>3 DEF DiskShape
  <2> QED BY <2>1, <2>2, <2>3 DEF CleanupInv, DiskShape
<1> QED BY <1>1, <1>2, <1>3, <1>4, WorldStep

LEMMA CleanupCancels ==
    ASSUME CleanupInv, NEW p \in Callers, Cancel(p)
    PROVE  CleanupInv'
<1> DEFINE c == [call[p] EXCEPT !.cancelled = TRUE]
<1>1. call' = [call EXCEPT ![p] = c] /\ Quiet /\ acked' = acked /\ lock' = lock
  BY DEF Cancel, Quiet, world, fs
<1>2. call[p] \in CleanupCall /\ CallerHolds(p) /\ CleanupType
  BY DEF CleanupInv, CleanupType
<1>3. /\ c \in CleanupCall /\ c.pc = call[p].pc /\ c.plan = call[p].plan /\ c.at = call[p].at
      /\ c.did = call[p].did /\ c.answer = call[p].answer
      /\ c.before = call[p].before /\ c.wasAcked = call[p].wasAcked
  BY <1>2 DEF CleanupCall
<1> HIDE DEF c
<1>4. call'[p] = c /\ control' = control /\ plan' = plan
  BY <1>1, CallAfter DEF CleanupInv, Quiet
<1>5. DiskKept
  BY <1>1, <1>2, QuietIsKept
<1>6. CleanupType'
  BY <1>1, <1>3 DEF CleanupInv, CleanupType, Quiet
<1>7. Place(p)'
  BY <1>2, <1>3, <1>4, <1>5, <1>6, PlaceStays DEF CallerHolds
<1>8. Knows(p)'
  BY <1>2, <1>3, <1>4 DEF CallerHolds, Knows
<1>9. call'[p].pc \in {"failed", "done"} => AnswerHonest(p)'
  BY <1>2, <1>3, <1>4 DEF CallerHolds, AnswerHonest
<1>10. LockMoves(p)
  BY <1>1, <1>3, <1>4 DEF CleanupInv, LockHeld, LockMoves
<1>11. acked' \subseteq Plans /\ AckedGrows
  BY <1>1 DEF CleanupInv, CleanupType, AckedGrows
<1> QED BY <1>1, <1>3, <1>7, <1>8, <1>9, <1>10, <1>11, QuietStep DEF CallerHolds

LEMMA CleanupPlans ==
    ASSUME CleanupInv, NEW x \in Plans, ~plan[x].made,
           NEW tree \in Nat, NEW source \in QPlans \cup {NoPlan},
           NEW entered \in Days \cup {NoTime}, NEW at \in Days \cup {NoTime},
           NewPlan(x, tree, source, entered, at),
           UNCHANGED <<fs, lock, approval, hold, auditAt, now, call, acked, moves, spare>>
    PROVE  CleanupInv'
<1> DEFINE r == [made |-> TRUE, tree |-> tree, source |-> source,
                 entered |-> entered, generated |-> now,
                 expires |-> now + 1, hold |-> hold, auditAt |-> at]
<1>1. now \in Nat /\ hold \in Nat /\ plan \in [Plans -> PlanRecord]
  BY DaysAreNaturals DEF CleanupInv, CleanupType
<1>2. r \in PlanRecord
  BY <1>1 DEF PlanRecord
<1>3. plan' = [plan EXCEPT ![x] = r]
  BY DEF NewPlan
<1> HIDE DEF r
<1>4. plan' \in [Plans -> PlanRecord] /\ PlansKept
  BY <1>1, <1>2, <1>3 DEF PlansKept
<1>5. /\ UNCHANGED <<control, lock, call, acked>>
      /\ UNCHANGED <<product, quarantine, staging, approval, moves, hold, auditAt, now>>
  BY DEF fs
<1>6. CleanupType'
  BY <1>4, <1>5 DEF CleanupInv, CleanupType
<1>7. DiskKept
  BY <1>1, <1>4, <1>5 DEF DiskKept
<1> QED BY <1>5, <1>6, <1>7, WorldGoesOn

LEMMA CleanupDryRuns ==
    ASSUME CleanupInv,
           (\E q \in QPlans : DryRunQuarantine(q)) \/ (\E d \in DPlans : DryRunDelete(d))
    PROVE  CleanupInv'
<1>1. CASE \E q \in QPlans : DryRunQuarantine(q)
  <2>1. PICK q \in QPlans : DryRunQuarantine(q)
    BY <1>1
  <2>2. /\ NewPlan(q, product, NoPlan, NoTime, auditAt) /\ ~plan[q].made
        /\ UNCHANGED <<fs, lock, approval, hold, auditAt, now, call, acked, moves, spare>>
    BY <2>1 DEF DryRunQuarantine
  <2>3. product \in Nat /\ auditAt \in Days \cup {NoTime} /\ q \in Plans
    BY DEF CleanupInv, CleanupType, Plans
  <2> QED BY <2>2, <2>3, CleanupPlans
<1>2. CASE \E d \in DPlans : DryRunDelete(d)
  <2>1. PICK d \in DPlans : DryRunDelete(d)
    BY <1>2
  <2> DEFINE q == control.current[2]
  <2>2. /\ NewPlan(d, quarantine, q, control.entered, plan[q].auditAt) /\ ~plan[d].made
        /\ UNCHANGED <<fs, lock, approval, hold, auditAt, now, call, acked, moves, spare>>
        /\ ReadableNow(control) /\ control.current[1] = 1
    BY <2>1 DEF DryRunDelete
  <2>3. q \in QPlans
    <3>1. CASE \E y \in QPlans : Quarantined(y, {}, {})
      BY <3>1, RevisionsOfQuarantined
    <3>2. CASE \E y \in QPlans, e \in DPlans :
                  \/ \E left \in 0..(Entries + 1) : Unlinking(y, e, left)
                  \/ Deleted(y, e)
      BY <2>2, <3>2, RevisionsOfDeleting
    <3> QED BY <2>2, <3>1, <3>2, ReadableShape DEF CleanupInv
  <2>4. q \in Plans /\ d \in Plans
    BY <2>3 DEF Plans
  <2> HIDE DEF q
  <2>5. /\ quarantine \in Nat /\ control.entered \in Days \cup {NoTime}
        /\ plan[q].auditAt \in Days \cup {NoTime}
    BY <2>4 DEF CleanupInv, CleanupType, ControlRecord, PlanRecord
  <2> QED BY <2>2, <2>3, <2>4, <2>5, CleanupPlans
<1> QED BY <1>1, <1>2

-----------------------------------------------------------------------------
(* The steps under the lock.                                               *)

\* The parts of a call that a step leaves alone.
SameCall(p) ==
    /\ call' \in [Callers -> CleanupCall]
    /\ \A r \in Callers \ {p} : call'[r] = call[r]
    /\ call'[p].plan = call[p].plan /\ call'[p].before = call[p].before
    /\ call'[p].wasAcked = call[p].wasAcked

LEMMA GotoIs ==
    ASSUME CleanupType, NEW p \in Callers, NEW s \in CleanupPlace, Goto(p, s)
    PROVE  /\ SameCall(p) /\ call'[p].pc = s
           /\ call'[p].did = call[p].did /\ call'[p].at = call[p].at
<1> DEFINE c == [call[p] EXCEPT !.pc = s]
<1>1. call[p] \in CleanupCall
  BY DEF CleanupType
<1>2. /\ c \in CleanupCall /\ c.pc = s /\ c.did = call[p].did /\ c.at = call[p].at
      /\ c.plan = call[p].plan /\ c.before = call[p].before /\ c.wasAcked = call[p].wasAcked
  BY <1>1 DEF CleanupCall
<1>3. call' = [call EXCEPT ![p] = c]
  BY DEF Goto
<1> HIDE DEF c
<1> QED BY <1>2, <1>3 DEF CleanupType, SameCall

LEMMA DidIs ==
    ASSUME CleanupType, NEW p \in Callers, NEW m \in Mark, NEW s \in CleanupPlace, Did(p, m, s)
    PROVE  /\ SameCall(p) /\ call'[p].pc = s
           /\ call'[p].did = call[p].did \cup {m} /\ call'[p].at = call[p].at
<1> DEFINE c == [call[p] EXCEPT !.pc = s, !.did = @ \cup {m}]
<1>1. call[p] \in CleanupCall
  BY DEF CleanupType
<1>2. /\ c \in CleanupCall /\ c.pc = s /\ c.did = call[p].did \cup {m} /\ c.at = call[p].at
      /\ c.plan = call[p].plan /\ c.before = call[p].before /\ c.wasAcked = call[p].wasAcked
  BY <1>1 DEF CleanupCall
<1>3. call' = [call EXCEPT ![p] = c]
  BY DEF Did
<1> HIDE DEF c
<1> QED BY <1>2, <1>3 DEF CleanupType, SameCall

LEMMA NowIs ==
    ASSUME CleanupType, NEW p \in Callers, NEW s \in CleanupPlace,
           call' = [call EXCEPT ![p].pc = s, ![p].at = now]
    PROVE  /\ SameCall(p) /\ call'[p].pc = s
           /\ call'[p].did = call[p].did /\ call'[p].at = now
<1> DEFINE c == [call[p] EXCEPT !.pc = s, !.at = now]
<1>1. call[p] \in CleanupCall /\ now \in Days
  BY DEF CleanupType
<1>2. /\ c \in CleanupCall /\ c.pc = s /\ c.did = call[p].did /\ c.at = now
      /\ c.plan = call[p].plan /\ c.before = call[p].before /\ c.wasAcked = call[p].wasAcked
  BY <1>1 DEF CleanupCall
<1>3. call' = [call EXCEPT ![p] = c]
  OBVIOUS
<1> HIDE DEF c
<1> QED BY <1>2, <1>3, ZenonT(60) DEF CleanupType, SameCall

\* The world and the lock stay while a step works on the disk.
Working(p) ==
    /\ lock = p /\ lock' = p
    /\ UNCHANGED <<world, acked>>

LEMMA InsideStep ==
    ASSUME CleanupInv, NEW p \in Callers, Working(p), SameCall(p), call'[p].pc \in Inside,
           CleanupType', DiskShape', control.revisions \subseteq control'.revisions,
           Knows(p)', Place(p)'
    PROVE  CleanupInv'
<1>1. PlansKept
  BY DEF Working, world, PlansKept
<1>2. LockMoves(p)
  BY DEF Working, LockMoves
<1>3. AckedGrows
  BY DEF Working, AckedGrows, CleanupInv
<1>4. call'[p].pc \notin {"failed", "done"}
  BY DEF Inside, QReady, DReady, QDone, DDone
<1> QED BY <1>1, <1>2, <1>3, <1>4, CleanupStep DEF Working, SameCall, CallerHolds

\* The types after a step that works on the disk.
LEMMA WorkType ==
    ASSUME CleanupInv, NEW p \in Callers, Working(p), SameCall(p),
           product' \in Nat, quarantine' \in Nat,
           staging' \in [DPlans -> 0..(Entries + 1)],
           control' \in ControlRecord, moves' \in [Plans -> Nat]
    PROVE  CleanupType'
  BY DEF CleanupInv, CleanupType, Working, SameCall, world

LEMMA QPlaced ==
    ASSUME NEW p \in Callers, NEW q \in QPlans, call'[p].plan = q, QPlace(p, q)',
           call'[p].pc \notin DReady \cup DDone
    PROVE  Place(p)'
<1>1. \A d \in DPlans : call'[p].plan # d
  BY PlansDiffer
<1> QED BY <1>1 DEF Place

LEMMA DPlaced ==
    ASSUME NEW p \in Callers, NEW q \in QPlans, NEW d \in DPlans,
           call'[p].plan = d, plan'[d].source = q, DPlace(p, q, d)',
           call'[p].pc \notin QReady \cup QDone
    PROVE  Place(p)'
<1>1. \A y \in QPlans : call'[p].plan # y
  BY PlansDiffer
<1> QED BY <1>1 DEF Place

LEMMA TakesTheLock ==
    ASSUME CleanupInv, NEW p \in Callers, At(p, "lock"), lock = NoCaller, lock' = p,
           NEW s \in {"q_scaffold", "d_root"}, Goto(p, s),
           UNCHANGED <<fs, world, acked, moves, spare>>, Place(p)'
    PROVE  CleanupInv'
<1> DEFINE c == [call[p] EXCEPT !.pc = s]
<1>1. call' = [call EXCEPT ![p] = c] /\ Quiet /\ acked' = acked /\ plan' = plan
  BY DEF Goto, Quiet, world, fs
<1>2. /\ call[p] \in CleanupCall /\ CleanupType
      /\ call[p].plan \in Plans /\ plan[call[p].plan].made
      /\ call[p].did = {} /\ call[p].before = FALSE /\ call[p].wasAcked = FALSE
  BY WhereLooking DEF At
<1>3. s \in Inside /\ s \in CleanupPlace
  BY DEF Inside, CleanupPlace, QReady, DReady
<1>4. /\ c \in CleanupCall /\ c.pc = s /\ c.plan = call[p].plan
      /\ c.did = {} /\ c.before = FALSE /\ c.wasAcked = FALSE
  BY <1>2, <1>3 DEF CleanupCall
<1> HIDE DEF c
<1>5. call'[p] = c
  BY <1>1, CallAfter DEF CleanupInv
<1>6. Knows(p)'
  BY <1>1, <1>2, <1>4, <1>5 DEF Knows, QReady, DReady, QDone, DDone
<1>7. CallerHolds(p)'
  BY <1>4, <1>5, <1>6 DEF CallerHolds
<1>8. LockMoves(p)
  BY <1>3, <1>4, <1>5 DEF LockMoves
<1>9. acked' \subseteq Plans /\ AckedGrows
  BY <1>1 DEF CleanupInv, CleanupType, AckedGrows
<1> QED BY <1>1, <1>4, <1>7, <1>8, <1>9, QuietStep

LEMMA CleanupLocksQuarantine ==
    ASSUME CleanupInv, NEW p \in Callers, LockQuarantine(p)
    PROVE  CleanupInv'
<1>0. PICK q \in QPlans : call[p].plan = q
  BY DEF LockQuarantine
<1>1. /\ At(p, "lock") /\ lock = NoCaller
      /\ UNCHANGED <<fs, world, acked, moves, spare>>
  BY DEF LockQuarantine
<1>2. CASE lock' = p /\ ~control.exists /\ Goto(p, "q_scaffold")
  <2>1. Untouched
    <3>1. control = NoControl
      BY <1>2, DiskShapes DEF CleanupInv
    <3>2. control.roots = {} /\ ~control.exists
      BY <3>1 DEF NoControl
    <3>3. \A y \in QPlans : ~QuarantineShape(y)
      BY <3>2 DEF QuarantineShape, Begun, OutOfRoot, Entered, Quarantined, Lists
    <3>4. \A y \in QPlans, d \in DPlans : ~DeletionShape(y, d)
      BY <3>2 DEF DeletionShape, Quarantined, Staged, Announced, Unlinking, Closing, Deleted,
                  Deleting, Lists
    <3> QED BY <3>3, <3>4 DEF CleanupInv, DiskShape
  <2>2. Untouched'
    BY <1>1, <2>1 DEF fs, Untouched, AtHome
  <2>3. /\ call'[p].pc = "q_scaffold" /\ call'[p].plan = q
    BY <1>0, <1>2, GotoIs DEF CleanupInv, CleanupPlace, Inside, QReady, SameCall
  <2>4. QPlace(p, q)'
    BY <2>2, <2>3 DEF QPlace, At, QDone
  <2>5. Place(p)'
    BY <2>3, <2>4, QPlaced DEF DReady, DDone
  <2> QED BY <1>1, <1>2, <2>5, TakesTheLock
<1>3. CASE lock' = lock /\ Answer(p, Refused)
  BY <1>1, <1>3, CleanupTurnedAway
<1> QED BY <1>0, <1>2, <1>3 DEF LockQuarantine

LEMMA CleanupLocksDelete ==
    ASSUME CleanupInv, NEW p \in Callers, LockDelete(p)
    PROVE  CleanupInv'
<1>0. PICK d \in DPlans : call[p].plan = d
  BY DEF LockDelete
<1>1. /\ At(p, "lock") /\ lock = NoCaller
      /\ UNCHANGED <<fs, world, acked, moves, spare>>
  BY DEF LockDelete
<1>2. CASE /\ lock' = p /\ ReadableNow(control) /\ DeleteSourceExact(d)
           /\ Goto(p, "d_root")
  <2>1. control.current = <<1, plan[d].source>>
    BY <1>2 DEF DeleteSourceExact
  <2>2. PICK q \in QPlans : q = plan[d].source /\ Quarantined(q, {}, {})
    <3>1. CASE \E y \in QPlans : Quarantined(y, {}, {})
      <4>1. PICK y \in QPlans : Quarantined(y, {}, {})
        BY <3>1
      <4>2. <<1, plan[d].source>> = <<1, y>>
        BY <2>1, <4>1, RevisionsOfQuarantined
      <4> QED BY <4>1, <4>2
    <3>2. CASE \E y \in QPlans, e \in DPlans :
                  \/ \E left \in 0..(Entries + 1) : Unlinking(y, e, left)
                  \/ Deleted(y, e)
      <4>1. PICK e \in DPlans : control.current = <<2, e>> \/ control.current = <<3, e>>
        BY <3>2, RevisionsOfDeleting
      <4> QED BY <2>1, <4>1
    <3> QED BY <1>2, <3>1, <3>2, ReadableShape DEF CleanupInv
  <2>3. /\ UNCHANGED <<product, quarantine, staging, control, plan, moves, now>>
    BY <1>1 DEF fs, world
  <2>4. DiskKept
    BY <2>3, DaysAreNaturals DEF DiskKept, PlansKept, CleanupInv, CleanupType
  <2>5. Quarantined(q, {}, {})'
    BY <2>2, <2>4, QuarantinedStays
  <2>6. /\ call'[p].pc = "d_root" /\ call'[p].plan = d
    BY <1>0, <1>2, GotoIs DEF CleanupInv, CleanupPlace, Inside, DReady, SameCall
  <2>7. DPlace(p, q, d)'
    BY <2>5, <2>6 DEF DPlace, At
  <2>8. plan'[d].source = q
    BY <2>2, <2>3
  <2>9. Place(p)'
    BY <2>6, <2>7, <2>8, DPlaced DEF QReady, QDone
  <2> QED BY <1>1, <1>2, <2>9, TakesTheLock
<1>3. CASE lock' = lock /\ Answer(p, Refused)
  BY <1>1, <1>3, CleanupTurnedAway
<1> QED BY <1>0, <1>2, <1>3 DEF LockDelete

\* A step of a quarantine begins where its place says, and alone.
LEMMA AtQ ==
    ASSUME CleanupInv, NEW p \in Callers, call[p].pc \in QReady \cup QDone
    PROVE  \E q \in QPlans :
             /\ call[p].plan = q /\ plan[q].made /\ QPlace(p, q)
             /\ q \in Plans /\ lock = p
             /\ call[p] \in CleanupCall /\ Knows(p) /\ CleanupType
<1>1. call[p].plan \in QPlans /\ Knows(p) /\ CleanupType /\ lock = p
  BY DEF CleanupInv, CallerHolds, Place, LockHeld, Inside
<1>2. plan[call[p].plan].made /\ call[p].plan \in Plans
  BY <1>1 DEF Knows, QReady, QDone
<1> QED BY <1>1, <1>2 DEF CleanupInv, CleanupType, CallerHolds, Place

LEMMA AtD ==
    ASSUME CleanupInv, NEW p \in Callers, call[p].pc \in DReady \cup DDone
    PROVE  \E q \in QPlans, d \in DPlans :
             /\ call[p].plan = d /\ plan[d].made /\ plan[d].source = q /\ DPlace(p, q, d)
             /\ q \in Plans /\ d \in Plans /\ q # d /\ lock = p
             /\ call[p] \in CleanupCall /\ Knows(p) /\ CleanupType
<1>1. /\ call[p].plan \in DPlans /\ plan[call[p].plan].source \in QPlans
      /\ Knows(p) /\ CleanupType /\ lock = p
  BY DEF CleanupInv, CallerHolds, Place, LockHeld, Inside
<1>2. plan[call[p].plan].made /\ call[p].plan \in Plans
  BY <1>1 DEF Knows, DReady, DDone
<1> QED BY <1>1, <1>2, PlansDiffer DEF CleanupInv, CleanupType, CallerHolds, Place

\* The records a step writes are control directories.
LEMMA ControlOfScaffold ==
    ASSUME NEW q \in Plans
    PROVE  LET c == [NoControl EXCEPT !.exists = TRUE, !.roots = {q}] IN
           /\ c \in ControlRecord /\ c.exists /\ c.roots = {q} /\ c.journals = {}
           /\ c.revisions = {} /\ c.pending = {} /\ c.current = NoRevision
           /\ c.entered = NoTime
  BY DEF NoControl, ControlRecord

LEMMA RevisionIds ==
    ASSUME NEW x \in Plans
    PROVE  <<1, x>> \in RevisionId /\ <<2, x>> \in RevisionId /\ <<3, x>> \in RevisionId
  BY DEF RevisionId

LEMMA CleanupScaffolds ==
    ASSUME CleanupInv, NEW p \in Callers, QScaffold(p)
    PROVE  CleanupInv'
<1>1. call[p].pc = "q_scaffold"
  BY DEF QScaffold, At
<1>2. PICK q \in QPlans :
        /\ call[p].plan = q /\ plan[q].made /\ QPlace(p, q)
        /\ q \in Plans /\ lock = p /\ call[p] \in CleanupCall /\ Knows(p) /\ CleanupType
  BY <1>1, AtQ DEF QReady
<1>3. /\ control' = [NoControl EXCEPT !.exists = TRUE, !.roots = {q}]
      /\ Did(p, "control", "q_journal")
      /\ UNCHANGED <<product, quarantine, staging, plan, moves>> /\ Working(p)
  BY <1>2 DEF QScaffold, Working, world
<1>4. /\ SameCall(p) /\ call'[p].pc = "q_journal"
      /\ call'[p].did = call[p].did \cup {"control"}
  BY <1>2, <1>3, DidIs DEF Mark, CleanupPlace, Inside, QReady
<1>5. Untouched /\ control.revisions = {}
  BY <1>1, <1>2 DEF QPlace, At, Untouched, NoControl
<1>6. /\ control' \in ControlRecord /\ control'.exists /\ control'.roots = {q}
      /\ control'.journals = {} /\ control'.revisions = {} /\ control'.pending = {}
      /\ control'.current = NoRevision /\ control'.entered = NoTime
  BY <1>2, <1>3, ControlOfScaffold
<1>7. Begun(q, {})'
  BY <1>3, <1>5, <1>6 DEF Begun, Lists, AtHome, Untouched
<1>8. DiskShape'
  BY <1>7 DEF DiskShape, QuarantineShape
<1>9. QPlace(p, q)'
  BY <1>4, <1>7 DEF QPlace, At, QDone
<1>10. Place(p)'
  BY <1>2, <1>4, <1>9, QPlaced DEF SameCall, DReady, DDone
<1>11. Knows(p)'
  BY <1>1, <1>2, <1>3, <1>4 DEF Knows, SameCall, QReady, DReady, QDone, DDone
<1>12. CleanupType'
  BY <1>2, <1>3, <1>4, <1>6, WorkType DEF CleanupType
<1> QED BY <1>3, <1>4, <1>5, <1>8, <1>10, <1>11, <1>12, InsideStep DEF Inside, QReady

LEMMA CleanupJournals ==
    ASSUME CleanupInv, NEW p \in Callers, QJournal(p)
    PROVE  CleanupInv'
<1>1. call[p].pc = "q_journal"
  BY DEF QJournal, At
<1>2. PICK q \in QPlans :
        /\ call[p].plan = q /\ plan[q].made /\ QPlace(p, q)
        /\ q \in Plans /\ lock = p /\ call[p] \in CleanupCall /\ Knows(p) /\ CleanupType
  BY <1>1, AtQ DEF QReady
<1>3. /\ control' = [control EXCEPT !.journals = {q}]
      /\ Did(p, "journal", "q_authorize")
      /\ UNCHANGED <<product, quarantine, staging, plan, moves>> /\ Working(p)
  BY <1>2 DEF QJournal, Working, world
<1>4. /\ SameCall(p) /\ call'[p].pc = "q_authorize"
      /\ call'[p].did = call[p].did \cup {"journal"}
  BY <1>2, <1>3, DidIs DEF Mark, CleanupPlace, Inside, QReady
<1>5. Begun(q, {})
  BY <1>1, <1>2 DEF QPlace, At
<1>6. /\ control' \in ControlRecord /\ control'.exists = control.exists
      /\ control'.roots = control.roots /\ control'.journals = {q}
      /\ control'.revisions = control.revisions /\ control'.pending = control.pending
      /\ control'.current = control.current /\ control'.entered = control.entered
  BY <1>2, <1>3 DEF CleanupType, ControlRecord
<1>7. Begun(q, {q})'
  BY <1>3, <1>5, <1>6 DEF Begun, Lists, AtHome
<1>8. DiskShape'
  BY <1>7 DEF DiskShape, QuarantineShape
<1>9. QPlace(p, q)'
  BY <1>4, <1>7 DEF QPlace, At, QDone
<1>10. Place(p)'
  BY <1>2, <1>4, <1>9, QPlaced DEF SameCall, DReady, DDone
<1>11. Knows(p)'
  BY <1>1, <1>2, <1>3, <1>4 DEF Knows, SameCall, QReady, DReady, QDone, DDone
<1>12. CleanupType'
  BY <1>2, <1>3, <1>4, <1>6, WorkType DEF CleanupType
<1> QED BY <1>3, <1>4, <1>6, <1>8, <1>10, <1>11, <1>12, InsideStep DEF Inside, QReady

LEMMA CleanupAuthorizesQuarantine ==
    ASSUME CleanupInv, NEW p \in Callers, QAuthorize(p)
    PROVE  CleanupInv'
<1>1. call[p].pc = "q_authorize"
  BY DEF QAuthorize, At
<1>2. PICK q \in QPlans :
        /\ call[p].plan = q /\ plan[q].made /\ QPlace(p, q)
        /\ q \in Plans /\ lock = p /\ call[p] \in CleanupCall /\ Knows(p) /\ CleanupType
  BY <1>1, AtQ DEF QReady
<1>3. /\ call' = [call EXCEPT ![p].pc = "q_move", ![p].at = now]
      /\ UNCHANGED <<product, quarantine, staging, control, plan, moves, now>> /\ Working(p)
      /\ product = plan[q].tree /\ LifecycleExpired[now] /\ now \in Days
  BY <1>2 DEF QAuthorize, Working, world, fs, QuarantineSourceExact, Authorized,
              QuarantineEligible, CleanupType
<1>4. /\ SameCall(p) /\ call'[p].pc = "q_move"
      /\ call'[p].did = call[p].did /\ call'[p].at = now
  BY <1>2, <1>3, NowIs DEF CleanupPlace, Inside, QReady
<1>5. Begun(q, {q})
  BY <1>1, <1>2 DEF QPlace, At
<1>6. DiskKept
  BY <1>2, <1>3, DaysAreNaturals DEF DiskKept, PlansKept
<1>7. Begun(q, {q})'
  BY <1>5, <1>6, QuarantineShapeStays
<1>8. DiskShape'
  BY <1>7 DEF DiskShape, QuarantineShape
<1>9. QPlace(p, q)'
  BY <1>3, <1>4, <1>7 DEF QPlace, At, QDone
<1>10. Place(p)'
  BY <1>2, <1>4, <1>9, QPlaced DEF SameCall, DReady, DDone
<1>11. Knows(p)'
  BY <1>1, <1>2, <1>3, <1>4 DEF Knows, SameCall, QReady, DReady, QDone, DDone
<1>12. CleanupType'
  BY <1>2, <1>3, <1>4, WorkType DEF CleanupType
<1> QED BY <1>3, <1>4, <1>8, <1>10, <1>11, <1>12, InsideStep DEF Inside, QReady

LEMMA CleanupMovesToQuarantine ==
    ASSUME CleanupInv, NEW p \in Callers, QMove(p)
    PROVE  CleanupInv'
<1>1. call[p].pc = "q_move"
  BY DEF QMove, At
<1>2. PICK q \in QPlans :
        /\ call[p].plan = q /\ plan[q].made /\ QPlace(p, q)
        /\ q \in Plans /\ lock = p /\ call[p] \in CleanupCall /\ Knows(p) /\ CleanupType
  BY <1>1, AtQ DEF QReady
<1>3. /\ quarantine' = product /\ product' = 0
      /\ moves' = [moves EXCEPT ![q] = @ + 1]
      /\ Did(p, "moved", "q_revision")
      /\ UNCHANGED <<staging, control, plan>> /\ Working(p)
  BY <1>2 DEF QMove, Working, world
<1>4. /\ SameCall(p) /\ call'[p].pc = "q_revision"
      /\ call'[p].did = call[p].did \cup {"moved"} /\ call'[p].at = call[p].at
  BY <1>2, <1>3, DidIs DEF Mark, CleanupPlace, Inside, QDone
<1>5. /\ Begun(q, {q}) /\ product = plan[q].tree
      /\ call[p].at \in Days /\ LifecycleExpired[call[p].at]
  BY <1>1, <1>2 DEF QPlace, At
<1>6. moves' = [x \in Plans |-> IF x = q THEN 1 ELSE 0]
  BY <1>2, <1>3, <1>5 DEF Begun, AtHome
<1>7. OutOfRoot(q)'
  BY <1>2, <1>3, <1>5, <1>6 DEF Begun, Lists, AtHome, OutOfRoot, InQuarantine
<1>8. DiskShape'
  BY <1>7 DEF DiskShape, QuarantineShape
<1>9. QPlace(p, q)'
  BY <1>4, <1>5, <1>7 DEF QPlace, At, QDone
<1>10. Place(p)'
  BY <1>2, <1>4, <1>9, QPlaced DEF SameCall, DReady, DDone
<1>11. Knows(p)'
  BY <1>1, <1>2, <1>3, <1>4 DEF Knows, SameCall, QReady, DReady, QDone, DDone
<1>12. CleanupType'
  BY <1>2, <1>3, <1>4, <1>6, WorkType DEF CleanupType
<1> QED BY <1>3, <1>4, <1>8, <1>10, <1>11, <1>12, InsideStep DEF Inside, QDone

LEMMA CleanupWritesQuarantineRevision ==
    ASSUME CleanupInv, NEW p \in Callers, QRevision(p)
    PROVE  CleanupInv'
<1>1. call[p].pc = "q_revision"
  BY DEF QRevision, At
<1>2. PICK q \in QPlans :
        /\ call[p].plan = q /\ plan[q].made /\ QPlace(p, q)
        /\ q \in Plans /\ lock = p /\ call[p] \in CleanupCall /\ Knows(p) /\ CleanupType
  BY <1>1, AtQ DEF QDone
<1>3. /\ control' = [control EXCEPT !.revisions = {<<1, q>>}, !.pending = {<<1, q>>}]
      /\ Did(p, "revision", "q_pointer")
      /\ UNCHANGED <<product, quarantine, staging, plan, moves>> /\ Working(p)
  BY <1>2 DEF QRevision, Working, world
<1>4. /\ SameCall(p) /\ call'[p].pc = "q_pointer"
      /\ call'[p].did = call[p].did \cup {"revision"} /\ call'[p].at = call[p].at
  BY <1>2, <1>3, DidIs DEF Mark, CleanupPlace, Inside, QDone
<1>5. /\ OutOfRoot(q)
      /\ call[p].at \in Days /\ LifecycleExpired[call[p].at]
  BY <1>1, <1>2 DEF QPlace, At, QDone
<1>6. /\ control' \in ControlRecord /\ control'.exists = control.exists
      /\ control'.roots = control.roots /\ control'.journals = control.journals
      /\ control'.revisions = {<<1, q>>} /\ control'.pending = {<<1, q>>}
      /\ control'.current = control.current /\ control'.entered = control.entered
  BY <1>2, <1>3, RevisionIds DEF CleanupType, ControlRecord
<1>7. Entered(q)'
  BY <1>3, <1>5, <1>6 DEF Entered, OutOfRoot, Lists, InQuarantine
<1>8. DiskShape'
  BY <1>7 DEF DiskShape, QuarantineShape
<1>9. QPlace(p, q)'
  BY <1>4, <1>5, <1>7 DEF QPlace, At, QDone
<1>10. Place(p)'
  BY <1>2, <1>4, <1>9, QPlaced DEF SameCall, DReady, DDone
<1>11. Knows(p)'
  BY <1>1, <1>2, <1>3, <1>4 DEF Knows, SameCall, QReady, DReady, QDone, DDone
<1>12. CleanupType'
  BY <1>2, <1>3, <1>4, <1>6, WorkType DEF CleanupType
<1>13. control.revisions \subseteq control'.revisions
  BY <1>5, <1>6 DEF OutOfRoot, Lists
<1> QED BY <1>3, <1>4, <1>8, <1>10, <1>11, <1>12, <1>13, InsideStep DEF Inside, QDone

LEMMA CleanupPublishesQuarantine ==
    ASSUME CleanupInv, NEW p \in Callers, QPointer(p)
    PROVE  CleanupInv'
<1>1. call[p].pc = "q_pointer"
  BY DEF QPointer, At
<1>2. PICK q \in QPlans :
        /\ call[p].plan = q /\ plan[q].made /\ QPlace(p, q)
        /\ q \in Plans /\ lock = p /\ call[p] \in CleanupCall /\ Knows(p) /\ CleanupType
  BY <1>1, AtQ DEF QDone
<1>3. /\ control' = [control EXCEPT !.pending = {}, !.current = <<1, q>>,
                                    !.entered = call[p].at]
      /\ Did(p, "pointer", "confirm")
      /\ UNCHANGED <<product, quarantine, staging, plan, moves>> /\ Working(p)
  BY <1>2 DEF QPointer, Working, world
<1>4. /\ SameCall(p) /\ call'[p].pc = "confirm"
      /\ call'[p].did = call[p].did \cup {"pointer"} /\ call'[p].at = call[p].at
  BY <1>2, <1>3, DidIs DEF Mark, CleanupPlace, Inside
<1>5. /\ Entered(q)
      /\ call[p].at \in Days /\ LifecycleExpired[call[p].at]
  BY <1>1, <1>2 DEF QPlace, At, QDone
<1>6. /\ control' \in ControlRecord /\ control'.exists = control.exists
      /\ control'.roots = control.roots /\ control'.journals = control.journals
      /\ control'.revisions = control.revisions /\ control'.pending = {}
      /\ control'.current = <<1, q>> /\ control'.entered = call[p].at
  BY <1>2, <1>3, <1>5, RevisionIds DEF CleanupType, ControlRecord
<1>7. Quarantined(q, {}, {})'
  <2>1. Lists({q} \cup {}, {q} \cup {}, {<<1, q>>}, {}, <<1, q>>)'
    BY <1>5, <1>6 DEF Entered, Lists
  <2>2. InQuarantine(q)' /\ Lawful'
    BY <1>3, <1>5, <1>6 DEF Entered, InQuarantine, Lawful
  <2> QED BY <2>1, <2>2 DEF Quarantined
<1>8. DiskShape'
  BY <1>7 DEF DiskShape, QuarantineShape
<1>9. QPlace(p, q)'
  BY <1>4 DEF QPlace, At, QDone
<1>10. Place(p)'
  BY <1>2, <1>4, <1>9, QPlaced DEF SameCall, DReady, DDone
<1>11. Knows(p)'
  BY <1>1, <1>2, <1>3, <1>4 DEF Knows, SameCall, QReady, DReady, QDone, DDone
<1>12. CleanupType'
  BY <1>2, <1>3, <1>4, <1>6, WorkType DEF CleanupType
<1> QED BY <1>3, <1>4, <1>6, <1>8, <1>10, <1>11, <1>12, InsideStep DEF Inside

LEMMA CleanupConfirms ==
    ASSUME CleanupInv, NEW p \in Callers, QConfirm(p) \/ DConfirm(p)
    PROVE  CleanupInv'
<1>1. PICK x : Confirm(p, x)
  BY DEF QConfirm, DConfirm
<1> DEFINE c == [call[p] EXCEPT !.pc = "released"]
<1>2. /\ call[p].pc = "confirm" /\ lock' = NoCaller
      /\ call' = [call EXCEPT ![p] = c] /\ Quiet /\ acked' = acked /\ plan' = plan
  BY <1>1 DEF Confirm, At, Goto, Quiet, world, fs
<1>3. call[p] \in CleanupCall /\ Knows(p) /\ lock = p
  BY <1>2 DEF CleanupInv, CleanupType, CallerHolds, LockHeld, Inside
<1>4. /\ c \in CleanupCall /\ c.pc = "released" /\ c.plan = call[p].plan
      /\ c.did = call[p].did /\ c.before = call[p].before /\ c.wasAcked = call[p].wasAcked
  BY <1>3 DEF CleanupCall, CleanupPlace
<1> HIDE DEF c
<1>5. call'[p] = c
  BY <1>2, CallAfter DEF CleanupInv
<1>6. Knows(p)'
  BY <1>2, <1>3, <1>4, <1>5 DEF Knows, QReady, DReady, QDone, DDone
<1>7. call'[p].pc \notin Inside
  BY <1>4, <1>5 DEF Inside, QReady, DReady, QDone, DDone
<1>8. CallerHolds(p)'
  BY <1>4, <1>5, <1>6, <1>7, OutsideHolds DEF CallerHolds
<1>9. LockMoves(p)
  BY <1>2, <1>3, <1>4, <1>5, <1>7, CleanupAssumption DEF LockMoves
<1>10. acked' \subseteq Plans /\ AckedGrows
  BY <1>2 DEF CleanupInv, CleanupType, AckedGrows
<1> QED BY <1>2, <1>4, <1>8, <1>9, <1>10, QuietStep

LEMMA CleanupRootsDeletion ==
    ASSUME CleanupInv, NEW p \in Callers, DRoot(p)
    PROVE  CleanupInv'
<1>1. call[p].pc = "d_root"
  BY DEF DRoot, At
<1>2. PICK q \in QPlans, d \in DPlans :
        /\ call[p].plan = d /\ plan[d].made /\ plan[d].source = q /\ DPlace(p, q, d)
        /\ q \in Plans /\ d \in Plans /\ q # d /\ lock = p
        /\ call[p] \in CleanupCall /\ Knows(p) /\ CleanupType
  BY <1>1, AtD DEF DReady
<1>3. /\ control' = [control EXCEPT !.roots = @ \cup {d}]
      /\ Did(p, "control", "d_journal")
      /\ UNCHANGED <<product, quarantine, staging, plan, moves>> /\ Working(p)
  BY <1>2 DEF DRoot, Working, world
<1>4. /\ SameCall(p) /\ call'[p].pc = "d_journal"
      /\ call'[p].did = call[p].did \cup {"control"}
  BY <1>2, <1>3, DidIs DEF Mark, CleanupPlace, Inside, DReady
<1>5. Quarantined(q, {}, {})
  BY <1>1, <1>2 DEF DPlace, At
<1>6. /\ control' \in ControlRecord /\ control'.exists = control.exists
      /\ control'.roots = control.roots \cup {d} /\ control'.journals = control.journals
      /\ control'.revisions = control.revisions /\ control'.pending = control.pending
      /\ control'.current = control.current /\ control'.entered = control.entered
  BY <1>2, <1>3 DEF CleanupType, ControlRecord
<1>7. Quarantined(q, {d}, {})'
  <2>1. Lists({q} \cup {d}, {q} \cup {}, {<<1, q>>}, {}, <<1, q>>)'
    BY <1>5, <1>6 DEF Quarantined, Lists
  <2>2. InQuarantine(q)' /\ Lawful'
    BY <1>3, <1>5, <1>6 DEF Quarantined, InQuarantine, Lawful
  <2> QED BY <2>1, <2>2 DEF Quarantined
<1>8. DiskShape'
  BY <1>7 DEF DiskShape, DeletionShape
<1>9. DPlace(p, q, d)'
  BY <1>4, <1>7 DEF DPlace, At
<1>10. Place(p)'
  BY <1>2, <1>3, <1>4, <1>9, DPlaced DEF SameCall, QReady, QDone
<1>11. Knows(p)'
  BY <1>1, <1>2, <1>3, <1>4 DEF Knows, SameCall, QReady, DReady, QDone, DDone
<1>12. CleanupType'
  BY <1>2, <1>3, <1>4, <1>6, WorkType DEF CleanupType
<1> QED BY <1>3, <1>4, <1>6, <1>8, <1>10, <1>11, <1>12, InsideStep DEF Inside, DReady

LEMMA CleanupJournalsDeletion ==
    ASSUME CleanupInv, NEW p \in Callers, DJournal(p)
    PROVE  CleanupInv'
<1>1. call[p].pc = "d_journal"
  BY DEF DJournal, At
<1>2. PICK q \in QPlans, d \in DPlans :
        /\ call[p].plan = d /\ plan[d].made /\ plan[d].source = q /\ DPlace(p, q, d)
        /\ q \in Plans /\ d \in Plans /\ q # d /\ lock = p
        /\ call[p] \in CleanupCall /\ Knows(p) /\ CleanupType
  BY <1>1, AtD DEF DReady
<1>3. /\ control' = [control EXCEPT !.journals = @ \cup {d}]
      /\ Did(p, "journal", "d_authorize")
      /\ UNCHANGED <<product, quarantine, staging, plan, moves>> /\ Working(p)
  BY <1>2 DEF DJournal, Working, world
<1>4. /\ SameCall(p) /\ call'[p].pc = "d_authorize"
      /\ call'[p].did = call[p].did \cup {"journal"}
  BY <1>2, <1>3, DidIs DEF Mark, CleanupPlace, Inside, DReady
<1>5. Quarantined(q, {d}, {})
  BY <1>1, <1>2 DEF DPlace, At
<1>6. /\ control' \in ControlRecord /\ control'.exists = control.exists
      /\ control'.roots = control.roots /\ control'.journals = control.journals \cup {d}
      /\ control'.revisions = control.revisions /\ control'.pending = control.pending
      /\ control'.current = control.current /\ control'.entered = control.entered
  BY <1>2, <1>3 DEF CleanupType, ControlRecord
<1>7. Quarantined(q, {d}, {d})'
  <2>1. Lists({q} \cup {d}, {q} \cup {d}, {<<1, q>>}, {}, <<1, q>>)'
    BY <1>5, <1>6 DEF Quarantined, Lists
  <2>2. InQuarantine(q)' /\ Lawful'
    BY <1>3, <1>5, <1>6 DEF Quarantined, InQuarantine, Lawful
  <2> QED BY <2>1, <2>2 DEF Quarantined
<1>8. DiskShape'
  BY <1>7 DEF DiskShape, DeletionShape
<1>9. DPlace(p, q, d)'
  BY <1>4, <1>7 DEF DPlace, At
<1>10. Place(p)'
  BY <1>2, <1>3, <1>4, <1>9, DPlaced DEF SameCall, QReady, QDone
<1>11. Knows(p)'
  BY <1>1, <1>2, <1>3, <1>4 DEF Knows, SameCall, QReady, DReady, QDone, DDone
<1>12. CleanupType'
  BY <1>2, <1>3, <1>4, <1>6, WorkType DEF CleanupType
<1> QED BY <1>3, <1>4, <1>6, <1>8, <1>10, <1>11, <1>12, InsideStep DEF Inside, DReady

LEMMA CleanupAuthorizesDeletion ==
    ASSUME CleanupInv, NEW p \in Callers, DAuthorize(p)
    PROVE  CleanupInv'
<1>1. call[p].pc = "d_authorize"
  BY DEF DAuthorize, At
<1>2. PICK q \in QPlans, d \in DPlans :
        /\ call[p].plan = d /\ plan[d].made /\ plan[d].source = q /\ DPlace(p, q, d)
        /\ q \in Plans /\ d \in Plans /\ q # d /\ lock = p
        /\ call[p] \in CleanupCall /\ Knows(p) /\ CleanupType
  BY <1>1, AtD DEF DReady
<1>3. /\ call' = [call EXCEPT ![p].pc = "d_stage", ![p].at = now]
      /\ UNCHANGED <<product, quarantine, staging, control, plan, moves, now>> /\ Working(p)
      /\ Authorized(p)
  BY <1>2 DEF DAuthorize, Working, world, fs
<1>4. /\ SameCall(p) /\ call'[p].pc = "d_stage" /\ call'[p].did = call[p].did
  BY <1>2, <1>3, NowIs DEF CleanupPlace, Inside, DReady
<1>5. Quarantined(q, {d}, {d})
  BY <1>1, <1>2 DEF DPlace, At
<1>6. Reviewed(q, d)
  <2>1. d \notin QPlans
    BY PlansDiffer
  <2>2. DeleteEligible(d, control.journals \cap {d})
    BY <1>2, <1>3, <2>1 DEF Authorized
  <2>3. control.entered = plan[d].entered /\ now >= plan[d].entered + QuarantineReviewDays
    BY <2>2 DEF DeleteEligible
  <2> QED BY <1>2, <2>3 DEF Reviewed
<1>7. DiskKept
  BY <1>2, <1>3, DaysAreNaturals DEF DiskKept, PlansKept, CleanupType
<1>8. CleanupType'
  BY <1>2, <1>3, <1>4, WorkType DEF CleanupType
<1>9. Quarantined(q, {d}, {d})' /\ Reviewed(q, d)'
  BY <1>2, <1>5, <1>6, <1>7, <1>8, QuarantinedStays, ReviewedStays DEF Quarantined
<1>10. DiskShape'
  BY <1>9 DEF DiskShape, DeletionShape
<1>11. DPlace(p, q, d)'
  BY <1>4, <1>9 DEF DPlace, At
<1>12. Place(p)'
  BY <1>2, <1>3, <1>4, <1>11, DPlaced DEF SameCall, QReady, QDone
<1>13. Knows(p)'
  BY <1>1, <1>2, <1>3, <1>4 DEF Knows, SameCall, QReady, DReady, QDone, DDone
<1> QED BY <1>3, <1>4, <1>8, <1>10, <1>12, <1>13, InsideStep DEF Inside, DReady

LEMMA CleanupStagesDeletion ==
    ASSUME CleanupInv, NEW p \in Callers, DStage(p)
    PROVE  CleanupInv'
<1>1. call[p].pc = "d_stage"
  BY DEF DStage, At
<1>2. PICK q \in QPlans, d \in DPlans :
        /\ call[p].plan = d /\ plan[d].made /\ plan[d].source = q /\ DPlace(p, q, d)
        /\ q \in Plans /\ d \in Plans /\ q # d /\ lock = p
        /\ call[p] \in CleanupCall /\ Knows(p) /\ CleanupType
  BY <1>1, AtD DEF DReady
<1>3. /\ staging' = [staging EXCEPT ![d] = Entries + 1] /\ quarantine' = 0
      /\ moves' = [moves EXCEPT ![d] = @ + 1]
      /\ Did(p, "moved", "d_prepare")
      /\ UNCHANGED <<product, control, plan, now>> /\ Working(p)
  BY <1>2 DEF DStage, Working, world
<1>4. /\ SameCall(p) /\ call'[p].pc = "d_prepare"
      /\ call'[p].did = call[p].did \cup {"moved"}
  BY <1>2, <1>3, DidIs DEF Mark, CleanupPlace, Inside, DDone
<1>5. Quarantined(q, {d}, {d}) /\ Reviewed(q, d)
  BY <1>1, <1>2 DEF DPlace, At
<1>6. /\ staging' = [e \in DPlans |-> IF e = d THEN Entries + 1 ELSE 0]
      /\ moves' = [x \in Plans |-> IF x \in {q, d} THEN 1 ELSE 0]
  BY <1>2, <1>3, <1>5 DEF Quarantined, InQuarantine
<1>7. Staged(q, d)'
  <2>1. {q} \cup {d} = {q, d} /\ {<<1, q>>} \cup {} = {<<1, q>>}
    OBVIOUS
  <2>2. Lists({q, d}, {q, d}, {<<1, q>>} \cup {}, {}, <<1, q>>)'
    BY <1>3, <1>5, <2>1 DEF Quarantined, Lists
  <2>3. InStaging(q, d, Entries + 1)'
    BY <1>3, <1>5, <1>6 DEF Quarantined, InQuarantine, InStaging
  <2>4. Lawful' /\ Reviewed(q, d)'
    BY <1>3, <1>5 DEF Quarantined, Lawful, Reviewed
  <2> QED BY <2>2, <2>3, <2>4 DEF Staged, Deleting
<1>8. DiskShape'
  BY <1>7 DEF DiskShape, DeletionShape
<1>9. DPlace(p, q, d)'
  BY <1>4, <1>7 DEF DPlace, At
<1>10. Place(p)'
  BY <1>2, <1>3, <1>4, <1>9, DPlaced DEF SameCall, QReady, QDone
<1>11. Knows(p)'
  BY <1>1, <1>2, <1>3, <1>4 DEF Knows, SameCall, QReady, DReady, QDone, DDone
<1>12. CleanupType'
  <2>1. staging' \in [DPlans -> 0..(Entries + 1)] /\ moves' \in [Plans -> Nat]
    BY <1>6, CleanupAssumption
  <2> QED BY <1>2, <1>3, <1>4, <2>1, WorkType DEF CleanupType
<1> QED BY <1>3, <1>4, <1>8, <1>10, <1>11, <1>12, InsideStep DEF Inside, DDone

LEMMA CleanupPreparesDeletion ==
    ASSUME CleanupInv, NEW p \in Callers, DPrepare(p)
    PROVE  CleanupInv'
<1>1. call[p].pc = "d_prepare"
  BY DEF DPrepare, At
<1>2. PICK q \in QPlans, d \in DPlans :
        /\ call[p].plan = d /\ plan[d].made /\ plan[d].source = q /\ DPlace(p, q, d)
        /\ q \in Plans /\ d \in Plans /\ q # d /\ lock = p
        /\ call[p] \in CleanupCall /\ Knows(p) /\ CleanupType
  BY <1>1, AtD DEF DDone
<1>3. /\ control' = [control EXCEPT !.revisions = @ \cup {<<2, d>>}, !.pending = {<<2, d>>}]
      /\ Did(p, "revision", "d_prepared")
      /\ UNCHANGED <<product, quarantine, staging, plan, moves, now>> /\ Working(p)
  BY <1>2 DEF DPrepare, Working, world
<1>4. /\ SameCall(p) /\ call'[p].pc = "d_prepared"
      /\ call'[p].did = call[p].did \cup {"revision"}
  BY <1>2, <1>3, DidIs DEF Mark, CleanupPlace, Inside, DDone
<1>5. Staged(q, d)
  BY <1>1, <1>2 DEF DPlace, At
<1>6. /\ control' \in ControlRecord /\ control'.exists = control.exists
      /\ control'.roots = control.roots /\ control'.journals = control.journals
      /\ control'.revisions = control.revisions \cup {<<2, d>>}
      /\ control'.pending = {<<2, d>>}
      /\ control'.current = control.current /\ control'.entered = control.entered
  BY <1>2, <1>3, RevisionIds DEF CleanupType, ControlRecord
<1>7. Announced(q, d)'
  <2>1. Lists({q, d}, {q, d}, {<<1, q>>} \cup {<<2, d>>}, {<<2, d>>}, <<1, q>>)'
    BY <1>5, <1>6 DEF Staged, Deleting, Lists
  <2>2. InStaging(q, d, Entries + 1)' /\ Lawful' /\ Reviewed(q, d)'
    BY <1>3, <1>5, <1>6 DEF Staged, Deleting, InStaging, Lawful, Reviewed
  <2> QED BY <2>1, <2>2 DEF Announced, Deleting
<1>8. DiskShape'
  BY <1>7 DEF DiskShape, DeletionShape
<1>9. DPlace(p, q, d)'
  BY <1>4, <1>7 DEF DPlace, At
<1>10. Place(p)'
  BY <1>2, <1>3, <1>4, <1>9, DPlaced DEF SameCall, QReady, QDone
<1>11. Knows(p)'
  BY <1>1, <1>2, <1>3, <1>4 DEF Knows, SameCall, QReady, DReady, QDone, DDone
<1>12. CleanupType'
  BY <1>2, <1>3, <1>4, <1>6, WorkType DEF CleanupType
<1> QED BY <1>3, <1>4, <1>6, <1>8, <1>10, <1>11, <1>12, InsideStep DEF Inside, DDone

LEMMA CleanupAnnouncesDeletion ==
    ASSUME CleanupInv, NEW p \in Callers, DPrepared(p)
    PROVE  CleanupInv'
<1>1. call[p].pc = "d_prepared"
  BY DEF DPrepared, At
<1>2. PICK q \in QPlans, d \in DPlans :
        /\ call[p].plan = d /\ plan[d].made /\ plan[d].source = q /\ DPlace(p, q, d)
        /\ q \in Plans /\ d \in Plans /\ q # d /\ lock = p
        /\ call[p] \in CleanupCall /\ Knows(p) /\ CleanupType
  BY <1>1, AtD DEF DDone
<1>3. /\ control' = [control EXCEPT !.pending = {}, !.current = <<2, d>>]
      /\ Did(p, "pointer", "d_reread")
      /\ UNCHANGED <<product, quarantine, staging, plan, moves, now>> /\ Working(p)
  BY <1>2 DEF DPrepared, Working, world
<1>4. /\ SameCall(p) /\ call'[p].pc = "d_reread"
      /\ call'[p].did = call[p].did \cup {"pointer"}
  BY <1>2, <1>3, DidIs DEF Mark, CleanupPlace, Inside, DDone
<1>5. Announced(q, d)
  BY <1>1, <1>2 DEF DPlace, At
<1>6. /\ control' \in ControlRecord /\ control'.exists = control.exists
      /\ control'.roots = control.roots /\ control'.journals = control.journals
      /\ control'.revisions = control.revisions /\ control'.pending = {}
      /\ control'.current = <<2, d>> /\ control'.entered = control.entered
  BY <1>2, <1>3, RevisionIds DEF CleanupType, ControlRecord
<1>7. Unlinking(q, d, Entries + 1)'
  <2>1. Lists({q, d}, {q, d}, {<<1, q>>} \cup {<<2, d>>}, {}, <<2, d>>)'
    BY <1>5, <1>6 DEF Announced, Deleting, Lists
  <2>2. InStaging(q, d, Entries + 1)' /\ Lawful' /\ Reviewed(q, d)'
    BY <1>3, <1>5, <1>6 DEF Announced, Deleting, InStaging, Lawful, Reviewed
  <2> QED BY <2>1, <2>2 DEF Unlinking, Deleting
<1>8. DiskShape'
  BY <1>7, CleanupAssumption DEF DiskShape, DeletionShape
<1>9. DPlace(p, q, d)'
  BY <1>4, <1>7 DEF DPlace, At
<1>10. Place(p)'
  BY <1>2, <1>3, <1>4, <1>9, DPlaced DEF SameCall, QReady, QDone
<1>11. Knows(p)'
  BY <1>1, <1>2, <1>3, <1>4 DEF Knows, SameCall, QReady, DReady, QDone, DDone
<1>12. CleanupType'
  BY <1>2, <1>3, <1>4, <1>6, WorkType DEF CleanupType
<1> QED BY <1>3, <1>4, <1>6, <1>8, <1>10, <1>11, <1>12, InsideStep DEF Inside, DDone

LEMMA CleanupRereads ==
    ASSUME CleanupInv, NEW p \in Callers, DReread(p)
    PROVE  CleanupInv'
<1>1. call[p].pc = "d_reread"
  BY DEF DReread, At
<1>2. PICK q \in QPlans, d \in DPlans :
        /\ call[p].plan = d /\ plan[d].made /\ plan[d].source = q /\ DPlace(p, q, d)
        /\ q \in Plans /\ d \in Plans /\ q # d /\ lock = p
        /\ call[p] \in CleanupCall /\ Knows(p) /\ CleanupType
  BY <1>1, AtD DEF DDone
<1>3. /\ Goto(p, "d_unlink")
      /\ UNCHANGED <<product, quarantine, staging, control, plan, moves, now>> /\ Working(p)
  BY <1>2 DEF DReread, Working, world, fs
<1>4. SameCall(p) /\ call'[p].pc = "d_unlink" /\ call'[p].did = call[p].did
  BY <1>2, <1>3, GotoIs DEF CleanupPlace, Inside, DDone
<1>5. Unlinking(q, d, Entries + 1)
  BY <1>1, <1>2 DEF DPlace, At
<1>6. DiskKept
  BY <1>2, <1>3, DaysAreNaturals DEF DiskKept, PlansKept, CleanupType
<1>7. CleanupType'
  BY <1>2, <1>3, <1>4, WorkType DEF CleanupType
<1>8. Unlinking(q, d, Entries + 1)'
  BY <1>2, <1>5, <1>6, <1>7, DeletionShapeStays
<1>9. DiskShape'
  BY <1>8, CleanupAssumption DEF DiskShape, DeletionShape
<1>10. DPlace(p, q, d)'
  <2>1. Entries + 1 \in 1..(Entries + 1)
    BY CleanupAssumption
  <2> QED BY <1>4, <1>8, <2>1 DEF DPlace, At
<1>11. Place(p)'
  BY <1>2, <1>3, <1>4, <1>10, DPlaced DEF SameCall, QReady, QDone
<1>12. Knows(p)'
  BY <1>1, <1>2, <1>3, <1>4 DEF Knows, SameCall, QReady, DReady, QDone, DDone
<1> QED BY <1>3, <1>4, <1>7, <1>9, <1>11, <1>12, InsideStep DEF Inside, DDone

LEMMA CleanupUnlinks ==
    ASSUME CleanupInv, NEW p \in Callers, DUnlink(p)
    PROVE  CleanupInv'
<1>1. call[p].pc = "d_unlink"
  BY DEF DUnlink, At
<1>2. PICK q \in QPlans, d \in DPlans :
        /\ call[p].plan = d /\ plan[d].made /\ plan[d].source = q /\ DPlace(p, q, d)
        /\ q \in Plans /\ d \in Plans /\ q # d /\ lock = p
        /\ call[p] \in CleanupCall /\ Knows(p) /\ CleanupType
  BY <1>1, AtD DEF DDone
<1>3. PICK left \in 1..(Entries + 1) : Unlinking(q, d, left)
  BY <1>1, <1>2 DEF DPlace, At
<1>4. staging[d] = left
  BY <1>3 DEF Unlinking, Deleting, InStaging
<1> DEFINE s == IF left = 1 THEN "d_revision" ELSE "d_unlink"
<1>5. /\ staging' = [staging EXCEPT ![d] = left - 1]
      /\ Did(p, "unlinked", s)
      /\ UNCHANGED <<product, quarantine, control, plan, moves, now>> /\ Working(p)
  BY <1>2, <1>4 DEF DUnlink, Working, world
<1>6. s \in {"d_revision", "d_unlink"} /\ (s = "d_revision" <=> left = 1)
  OBVIOUS
<1> HIDE DEF s
<1>7. /\ SameCall(p) /\ call'[p].pc = s
      /\ call'[p].did = call[p].did \cup {"unlinked"}
  BY <1>2, <1>5, <1>6, DidIs DEF Mark, CleanupPlace, Inside, DDone
<1>8. left - 1 \in 0..(Entries + 1)
  BY CleanupAssumption
<1>9. staging' = [e \in DPlans |-> IF e = d THEN left - 1 ELSE 0]
  BY <1>3, <1>5 DEF Unlinking, Deleting, InStaging
<1>10. Unlinking(q, d, left - 1)'
  <2>1. Lists({q, d}, {q, d}, {<<1, q>>} \cup {<<2, d>>}, {}, <<2, d>>)'
    BY <1>3, <1>5 DEF Unlinking, Deleting, Lists
  <2>2. InStaging(q, d, left - 1)'
    BY <1>3, <1>5, <1>9 DEF Unlinking, Deleting, InStaging
  <2>3. Lawful' /\ Reviewed(q, d)'
    BY <1>3, <1>5 DEF Unlinking, Deleting, Lawful, Reviewed
  <2> QED BY <2>1, <2>2, <2>3 DEF Unlinking, Deleting
<1>11. DiskShape'
  BY <1>8, <1>10 DEF DiskShape, DeletionShape
<1>12. DPlace(p, q, d)'
  <2>1. CASE left = 1
    <3>1. Unlinking(q, d, 0)'
      BY <1>10, <2>1
    <3> QED BY <1>6, <1>7, <2>1, <3>1 DEF DPlace, At
  <2>2. CASE left # 1
    <3>1. left - 1 \in 1..(Entries + 1)
      BY <2>2, CleanupAssumption
    <3> QED BY <1>6, <1>7, <1>10, <2>2, <3>1 DEF DPlace, At
  <2> QED BY <2>1, <2>2
<1>13. Place(p)'
  BY <1>2, <1>5, <1>6, <1>7, <1>12, DPlaced DEF SameCall, QReady, QDone
<1>14. Knows(p)'
  BY <1>1, <1>2, <1>5, <1>6, <1>7 DEF Knows, SameCall, QReady, DReady, QDone, DDone
<1>15. CleanupType'
  <2>1. staging' \in [DPlans -> 0..(Entries + 1)]
    BY <1>8, <1>9, CleanupAssumption
  <2> QED BY <1>2, <1>5, <1>7, <2>1, WorkType DEF CleanupType
<1> QED BY <1>5, <1>6, <1>7, <1>11, <1>13, <1>14, <1>15, InsideStep DEF Inside, DDone

LEMMA CleanupWritesDeletion ==
    ASSUME CleanupInv, NEW p \in Callers, DRevision(p)
    PROVE  CleanupInv'
<1>1. call[p].pc = "d_revision"
  BY DEF DRevision, At
<1>2. PICK q \in QPlans, d \in DPlans :
        /\ call[p].plan = d /\ plan[d].made /\ plan[d].source = q /\ DPlace(p, q, d)
        /\ q \in Plans /\ d \in Plans /\ q # d /\ lock = p
        /\ call[p] \in CleanupCall /\ Knows(p) /\ CleanupType
  BY <1>1, AtD DEF DDone
<1>3. /\ control' = [control EXCEPT !.revisions = @ \cup {<<3, d>>}, !.pending = {<<3, d>>}]
      /\ Goto(p, "d_pointer")
      /\ UNCHANGED <<product, quarantine, staging, plan, moves, now>> /\ Working(p)
  BY <1>2 DEF DRevision, Working, world
<1>4. SameCall(p) /\ call'[p].pc = "d_pointer" /\ call'[p].did = call[p].did
  BY <1>2, <1>3, GotoIs DEF CleanupPlace, Inside, DDone
<1>5. Unlinking(q, d, 0)
  BY <1>1, <1>2 DEF DPlace, At
<1>6. /\ control' \in ControlRecord /\ control'.exists = control.exists
      /\ control'.roots = control.roots /\ control'.journals = control.journals
      /\ control'.revisions = control.revisions \cup {<<3, d>>}
      /\ control'.pending = {<<3, d>>}
      /\ control'.current = control.current /\ control'.entered = control.entered
  BY <1>2, <1>3, RevisionIds DEF CleanupType, ControlRecord
<1>7. Closing(q, d)'
  <2>1. {<<1, q>>} \cup {<<2, d>>} \cup {<<3, d>>} = {<<1, q>>} \cup {<<2, d>>, <<3, d>>}
    OBVIOUS
  <2>2. Lists({q, d}, {q, d}, {<<1, q>>} \cup {<<2, d>>, <<3, d>>}, {<<3, d>>}, <<2, d>>)'
    BY <1>5, <1>6, <2>1 DEF Unlinking, Deleting, Lists
  <2>3. InStaging(q, d, 0)' /\ Lawful' /\ Reviewed(q, d)'
    BY <1>3, <1>5, <1>6 DEF Unlinking, Deleting, InStaging, Lawful, Reviewed
  <2> QED BY <2>2, <2>3 DEF Closing, Deleting
<1>8. DiskShape'
  BY <1>7 DEF DiskShape, DeletionShape
<1>9. DPlace(p, q, d)'
  BY <1>4, <1>7 DEF DPlace, At
<1>10. Place(p)'
  BY <1>2, <1>3, <1>4, <1>9, DPlaced DEF SameCall, QReady, QDone
<1>11. Knows(p)'
  BY <1>1, <1>2, <1>3, <1>4 DEF Knows, SameCall, QReady, DReady, QDone, DDone
<1>12. CleanupType'
  BY <1>2, <1>3, <1>4, <1>6, WorkType DEF CleanupType
<1> QED BY <1>3, <1>4, <1>6, <1>8, <1>10, <1>11, <1>12, InsideStep DEF Inside, DDone

LEMMA CleanupPublishesDeletion ==
    ASSUME CleanupInv, NEW p \in Callers, DPointer(p)
    PROVE  CleanupInv'
<1>1. call[p].pc = "d_pointer"
  BY DEF DPointer, At
<1>2. PICK q \in QPlans, d \in DPlans :
        /\ call[p].plan = d /\ plan[d].made /\ plan[d].source = q /\ DPlace(p, q, d)
        /\ q \in Plans /\ d \in Plans /\ q # d /\ lock = p
        /\ call[p] \in CleanupCall /\ Knows(p) /\ CleanupType
  BY <1>1, AtD DEF DDone
<1>3. /\ control' = [control EXCEPT !.pending = {}, !.current = <<3, d>>]
      /\ Goto(p, "confirm")
      /\ UNCHANGED <<product, quarantine, staging, plan, moves, now>> /\ Working(p)
  BY <1>2 DEF DPointer, Working, world
<1>4. SameCall(p) /\ call'[p].pc = "confirm" /\ call'[p].did = call[p].did
  BY <1>2, <1>3, GotoIs DEF CleanupPlace, Inside
<1>5. Closing(q, d)
  BY <1>1, <1>2 DEF DPlace, At
<1>6. /\ control' \in ControlRecord /\ control'.exists = control.exists
      /\ control'.roots = control.roots /\ control'.journals = control.journals
      /\ control'.revisions = control.revisions /\ control'.pending = {}
      /\ control'.current = <<3, d>> /\ control'.entered = control.entered
  BY <1>2, <1>3, RevisionIds DEF CleanupType, ControlRecord
<1>7. Deleted(q, d)'
  <2>1. Lists({q, d}, {q, d}, {<<1, q>>} \cup {<<2, d>>, <<3, d>>}, {}, <<3, d>>)'
    BY <1>5, <1>6 DEF Closing, Deleting, Lists
  <2>2. InStaging(q, d, 0)' /\ Lawful' /\ Reviewed(q, d)'
    BY <1>3, <1>5, <1>6 DEF Closing, Deleting, InStaging, Lawful, Reviewed
  <2> QED BY <2>1, <2>2 DEF Deleted, Deleting
<1>8. DiskShape'
  BY <1>7 DEF DiskShape, DeletionShape
<1>9. DPlace(p, q, d)'
  BY <1>4 DEF DPlace, At
<1>10. Place(p)'
  BY <1>2, <1>3, <1>4, <1>9, DPlaced DEF SameCall, QReady, QDone
<1>11. Knows(p)'
  BY <1>1, <1>2, <1>3, <1>4 DEF Knows, SameCall, QReady, DReady, QDone, DDone
<1>12. CleanupType'
  BY <1>2, <1>3, <1>4, <1>6, WorkType DEF CleanupType
<1> QED BY <1>3, <1>4, <1>6, <1>8, <1>10, <1>11, <1>12, InsideStep DEF Inside

-----------------------------------------------------------------------------
(* A publication that fails.                                               *)

LEMMA RolledControl ==
    ASSUME CleanupType, NEW x \in Plans
    PROVE  /\ Rolled(x) \in ControlRecord
           /\ x \in DPlans =>
                /\ Rolled(x).exists = control.exists
                /\ Rolled(x).roots = control.roots \ {x}
                /\ Rolled(x).journals = control.journals \ {x}
                /\ Rolled(x).revisions = control.revisions
                /\ Rolled(x).pending = control.pending
                /\ Rolled(x).current = control.current
                /\ Rolled(x).entered = control.entered
<1>1. CASE x \in QPlans
  <2>1. Rolled(x) = NoControl /\ x \notin DPlans
    BY <1>1, PlansDiffer DEF Rolled
  <2>2. NoControl \in ControlRecord
    BY DEF NoControl, ControlRecord
  <2>3. Rolled(x) \in ControlRecord
    BY <2>1, <2>2
  <2> QED BY <2>1, <2>3
<1>2. CASE x \notin QPlans
  BY <1>2 DEF Rolled, CleanupType, ControlRecord
<1> QED BY <1>1, <1>2

\* Taking a journal back leads to an earlier shape.
LEMMA RollbackShape ==
    ASSUME CleanupInv, NEW p \in Callers, call[p].pc \in Inside, RollsBack(p),
           control' = Rolled(call[p].plan),
           UNCHANGED <<product, quarantine, staging, plan, moves, now>>
    PROVE  DiskShape' /\ control' \in ControlRecord /\ control.revisions \subseteq control'.revisions
<1>1. CleanupType /\ Knows(p)
  BY DEF CleanupInv, CallerHolds
<1>2. call[p].pc \in (QReady \cup DReady) \ {"q_scaffold", "d_root"}
  BY <1>1 DEF Knows, RollsBack, Inside
<1>3. CASE call[p].pc \in QReady
  <2>1. PICK q \in QPlans : call[p].plan = q /\ QPlace(p, q) /\ q \in Plans
    BY <1>3, AtQ
  <2>2. Begun(q, {}) \/ Begun(q, {q})
    BY <1>2, <1>3, <2>1 DEF QPlace, At, QReady, DReady
  <2>3. control' = NoControl
    BY <2>1 DEF Rolled
  <2>4. Untouched'
    BY <2>2, <2>3 DEF Untouched, Begun, AtHome, NoControl
  <2>5. control.revisions = {}
    BY <2>2 DEF Begun, Lists
  <2> QED BY <1>1, <2>1, <2>4, <2>5, RolledControl DEF DiskShape
<1>4. CASE call[p].pc \in DReady
  <2>1. PICK q \in QPlans, d \in DPlans :
          /\ call[p].plan = d /\ DPlace(p, q, d) /\ q # d /\ d \in Plans
    BY <1>4, AtD
  <2>2. Quarantined(q, {d}, {}) \/ Quarantined(q, {d}, {d})
    BY <1>2, <1>4, <2>1 DEF DPlace, At, QReady, DReady
  <2>3. /\ control' \in ControlRecord /\ control'.exists = control.exists
        /\ control'.roots = control.roots \ {d} /\ control'.journals = control.journals \ {d}
        /\ control'.revisions = control.revisions /\ control'.pending = control.pending
        /\ control'.current = control.current /\ control'.entered = control.entered
    BY <1>1, <2>1, RolledControl
  <2>4. Lists({q} \cup {}, {q} \cup {}, {<<1, q>>}, {}, <<1, q>>)'
    BY <2>1, <2>2, <2>3 DEF Quarantined, Lists
  <2>5. InQuarantine(q)' /\ Lawful'
    BY <2>2, <2>3 DEF Quarantined, InQuarantine, Lawful
  <2>6. Quarantined(q, {}, {})'
    BY <2>4, <2>5 DEF Quarantined
  <2> QED BY <2>3, <2>6 DEF DiskShape, QuarantineShape
<1> QED BY <1>2, <1>3, <1>4

\* What a failing publication answers.
FailureAnswer(p, back) ==
    IF call[p].did = {} \/ back THEN Refused
    ELSE IF RollsBack(p) THEN JournalFailure(p)
    ELSE IF call[p].plan \in QPlans THEN QMovedFailure(p) ELSE DMovedFailure(p)

LEMMA FailureAnswers ==
    ASSUME CleanupInv, NEW p \in Callers, call[p].pc \in Inside, NEW back \in BOOLEAN
    PROVE  LET a == FailureAnswer(p, back) IN
           /\ a \in AnswerRecord /\ a.code # "committed"
           /\ ~Uncertain(a) => call[p].did = {} \/ back
           /\ a.domain = "current_unchanged" => "pointer" \notin call[p].did
           /\ a.domain = "current_advanced" => <<2, call[p].plan>> \in control.revisions
           /\ a.fs \in {"none", "journal_only", "control_published"} =>
                back \/ "moved" \notin call[p].did
<1>1. Knows(p) /\ call[p].plan \in Plans
  <2>1. Knows(p) /\ call[p].pc \notin {"idle", "marker"}
    BY DEF CleanupInv, CallerHolds, Inside, QReady, DReady, QDone, DDone
  <2> QED BY <2>1 DEF Knows
<1>2. CASE call[p].did = {} \/ back
  <2>1. FailureAnswer(p, back) = Refused
    BY <1>2 DEF FailureAnswer
  <2> QED BY <1>2, <2>1, AnswersOf
<1>3. CASE call[p].did # {} /\ ~back /\ RollsBack(p)
  <2>1. PICK e \in {"control_published", "journal_only"} :
          FailureAnswer(p, back) = Failure("reconciliation_required", e, "current_unchanged")
    BY <1>3 DEF FailureAnswer, JournalFailure
  <2>2. "moved" \notin call[p].did /\ "pointer" \notin call[p].did
    BY <1>1, <1>3 DEF RollsBack, Knows, Inside
  <2> QED BY <2>1, <2>2, FailureFields DEF AnswerRecord, Failure, Uncertain
<1>4. CASE call[p].did # {} /\ ~back /\ ~RollsBack(p) /\ call[p].plan \in QPlans
  <2>1. FailureAnswer(p, back) = QMovedFailure(p)
    BY <1>4 DEF FailureAnswer
  <2>2. CASE QMovedFailure(p) =
               Failure("effect_unknown", "source_moved", "current_may_have_advanced")
    BY <2>1, <2>2, FailureFields DEF AnswerRecord, Failure, Uncertain
  <2>3. CASE /\ QMovedFailure(p) =
                  Failure("reconciliation_required", "source_moved", "current_unchanged")
             /\ ~PointerAttempted(p)
    <3>1. call[p].pc \in QDone
      <4>1. "moved" \in call[p].did
        BY <1>4 DEF RollsBack
      <4>2. call[p].pc \notin QReady \cup DReady
        BY <1>1, <4>1 DEF Knows
      <4>3. call[p].pc \notin DDone
        BY <1>4, PlansDiffer DEF CleanupInv, CallerHolds, Place
      <4> QED BY <2>3, <4>2, <4>3 DEF Inside, PointerAttempted
    <3>2. "pointer" \notin call[p].did
      BY <1>1, <3>1 DEF Knows
    <3> QED BY <2>1, <2>3, <3>2, FailureFields DEF AnswerRecord, Failure, Uncertain
  <2> QED BY <2>2, <2>3 DEF QMovedFailure
<1>5. CASE call[p].did # {} /\ ~back /\ ~RollsBack(p) /\ call[p].plan \notin QPlans
  <2> DEFINE d == call[p].plan
             e == StagingEffect(d)
             s == IF At(p, "d_unlink") \/ At(p, "d_revision")
                  THEN "current_advanced" ELSE "current_unchanged"
  <2>1. FailureAnswer(p, back) = DMovedFailure(p)
    BY <1>5 DEF FailureAnswer
  <2>2. e \in {"delete_staging_moved", "partial_delete"}
    BY DEF StagingEffect
  <2>3. CASE DMovedFailure(p) = Failure("effect_unknown", e, "current_may_have_advanced")
    <3> HIDE DEF e
    <3> QED BY <2>1, <2>2, <2>3, FailureFields DEF AnswerRecord, Failure, Uncertain
  <2>4. CASE /\ DMovedFailure(p) = Failure("reconciliation_required", e, s)
             /\ ~PointerAttempted(p)
    <3>1. call[p].pc \in {"d_prepare", "d_unlink", "d_revision"}
      <4>1. "moved" \in call[p].did
        BY <1>5 DEF RollsBack
      <4>2. call[p].pc \notin QReady \cup DReady
        BY <1>1, <4>1 DEF Knows
      <4>3. call[p].pc \notin QDone
        BY <1>5 DEF CleanupInv, CallerHolds, Place
      <4> QED BY <2>4, <4>2, <4>3 DEF Inside, PointerAttempted, DDone
    <3>2. s = "current_unchanged" => "pointer" \notin call[p].did
      BY <1>1, <3>1 DEF Knows, At
    <3>3. s = "current_advanced" => <<2, d>> \in control.revisions
      <4>1. SUFFICES ASSUME s = "current_advanced"
                     PROVE  <<2, d>> \in control.revisions
        OBVIOUS
      <4>2. call[p].pc \in {"d_unlink", "d_revision"}
        BY <4>1 DEF At
      <4>3. PICK q \in QPlans, x \in DPlans : call[p].plan = x /\ DPlace(p, q, x)
        BY <4>2, AtD DEF DDone
      <4>4. \E left \in 0..(Entries + 1) : Unlinking(q, x, left)
        BY <4>2, <4>3, CleanupAssumption DEF DPlace, At
      <4> QED BY <4>3, <4>4, RevisionsOfDeleting
    <3>4. s \in {"current_advanced", "current_unchanged"}
      OBVIOUS
    <3> HIDE DEF e, s, d
    <3> QED BY <2>1, <2>2, <2>4, <3>2, <3>3, <3>4, FailureFields
            DEF AnswerRecord, Failure, Uncertain, d
  <2> QED BY <2>3, <2>4 DEF DMovedFailure
<1> QED BY <1>2, <1>3, <1>4, <1>5

LEMMA CleanupUnwinds ==
    ASSUME CleanupInv, NEW p \in Callers, Publishing(p), NEW rolledBack \in BOOLEAN,
           Unwind(p, rolledBack)
    PROVE  CleanupInv'
<1>0. call[p].pc \in Inside /\ lock = p
  BY DEF Publishing, CleanupInv, LockHeld
<1> DEFINE back == RollsBack(p) /\ rolledBack
           a == FailureAnswer(p, back)
           m == IF back THEN {} ELSE call[p].did
<1>1. PICK z : z = <<product', quarantine', staging', control'>>
  OBVIOUS
<1> DEFINE c == [call[p] EXCEPT !.pc = "failed", !.answer = a, !.did = m, !.snapshot = z]
<1>2. /\ call' = [call EXCEPT ![p] = c]
      /\ control' = IF back THEN Rolled(call[p].plan) ELSE control
      /\ UNCHANGED <<product, quarantine, staging, lock, world, acked, moves>>
  BY <1>1 DEF Unwind, FailureAnswer, Snapshot, ControlSnapshot
<1>3. back \in BOOLEAN
  OBVIOUS
<1>4. /\ a \in AnswerRecord /\ a.code # "committed"
      /\ ~Uncertain(a) => call[p].did = {} \/ back
      /\ a.domain = "current_unchanged" => "pointer" \notin call[p].did
      /\ a.domain = "current_advanced" => <<2, call[p].plan>> \in control.revisions
      /\ a.fs \in {"none", "journal_only", "control_published"} =>
           back \/ "moved" \notin call[p].did
  <2> HIDE DEF back
  <2> QED BY <1>0, <1>3, FailureAnswers
<1>5. m \subseteq call[p].did /\ (call[p].did = {} \/ back => m = {})
  OBVIOUS
<1>6. /\ control' \in ControlRecord /\ control.revisions \subseteq control'.revisions
      /\ back => DiskShape'
      /\ ~back => control' = control
  <2>1. CASE back
    BY <1>0, <1>2, <2>1, RollbackShape DEF world
  <2>2. CASE ~back
    BY <1>2, <2>2 DEF CleanupInv, CleanupType
  <2> QED BY <2>1, <2>2
<1> HIDE DEF a, m, back
<1>7. call[p] \in CleanupCall /\ Knows(p) /\ CleanupType
  BY DEF CleanupInv, CleanupType, CallerHolds
<1>8. z \in SnapshotType
  BY <1>1, <1>2, <1>6, <1>7 DEF CleanupType, SnapshotType
<1>9. /\ c \in CleanupCall /\ c.pc = "failed" /\ c.answer = a /\ c.did = m
      /\ c.plan = call[p].plan /\ c.before = call[p].before
      /\ c.wasAcked = call[p].wasAcked
  BY <1>4, <1>5, <1>7, <1>8 DEF CleanupCall, CleanupPlace
<1> HIDE DEF c
<1>10. call'[p] = c /\ \A r \in Callers \ {p} : call'[r] = call[r]
  BY <1>2, <1>7, CallAfter
<1>11. /\ call[p].plan \in Plans /\ plan[call[p].plan].made
       /\ ~call[p].before /\ ~call[p].wasAcked
  BY <1>0, <1>7 DEF Knows, Inside, QReady, DReady, QDone, DDone
<1>12. plan' = plan /\ lock' = p /\ acked' = acked
  BY <1>0, <1>2 DEF world
<1>13. Knows(p)'
  BY <1>4, <1>9, <1>10, <1>11, <1>12 DEF Knows, QReady, DReady, QDone, DDone
<1>14. AnswerHonest(p)'
  BY <1>4, <1>5, <1>6, <1>9, <1>10, <1>11 DEF AnswerHonest, Uncertain
<1>15. CallerHolds(p)'
  BY <1>9, <1>10, <1>13, <1>14, OutsideHolds
     DEF CallerHolds, Inside, QReady, DReady, QDone, DDone
<1>16. CleanupType'
  BY <1>2, <1>6, <1>7, <1>9, <1>12 DEF CleanupType, world
<1>17. LockMoves(p)
  BY <1>0, <1>9, <1>10, <1>12 DEF LockMoves
<1>18. AckedGrows /\ PlansKept
  BY <1>12 DEF AckedGrows, PlansKept
<1>19. DiskShape'
  <2>1. CASE ~back
    <3>1. now \in Nat
      BY <1>7, DaysAreNaturals DEF CleanupType
    <3>2. DiskKept
      BY <1>2, <1>6, <2>1, <3>1 DEF DiskKept, PlansKept, world
    <3> QED BY <1>7, <1>16, <3>2, DiskShapeStays DEF CleanupInv
  <2> QED BY <1>6, <2>1
<1> QED
  BY <1>0, <1>6, <1>10, <1>15, <1>16, <1>17, <1>18, <1>19, CleanupStep

LEMMA CleanupFails ==
    ASSUME CleanupInv, NEW p \in Callers, FailCheck(p) \/ FailIO(p)
    PROVE  CleanupInv'
<1>1. CASE FailCheck(p)
  <2>1. Publishing(p) /\ Unwind(p, TRUE)
    BY <1>1 DEF FailCheck
  <2> QED BY <2>1, CleanupUnwinds
<1>2. CASE FailIO(p)
  <2>1. PICK rolledBack \in BOOLEAN : Unwind(p, rolledBack)
    BY <1>2 DEF FailIO
  <2>2. Publishing(p)
    BY <1>2 DEF FailIO
  <2> QED BY <2>1, <2>2, CleanupUnwinds
<1> QED BY <1>1, <1>2

LEMMA CleanupExecutes ==
    ASSUME CleanupInv, NEW p \in Callers, Execute(p)
    PROVE  CleanupInv'
<1>1. CASE Replay(p) \/ Admit(p) \/ LockBusy(p)
  BY <1>1, CleanupReplays, CleanupAdmits, CleanupIsBusy
<1>2. CASE Quarantine(p)
  BY <1>2, CleanupLocksQuarantine, CleanupScaffolds, CleanupJournals,
     CleanupAuthorizesQuarantine, CleanupMovesToQuarantine,
     CleanupWritesQuarantineRevision, CleanupPublishesQuarantine, CleanupConfirms,
     CleanupReleased DEF Quarantine
<1>3. CASE Delete(p)
  BY <1>3, CleanupLocksDelete, CleanupRootsDeletion, CleanupJournalsDeletion,
     CleanupAuthorizesDeletion, CleanupStagesDeletion, CleanupPreparesDeletion,
     CleanupAnnouncesDeletion, CleanupRereads, CleanupUnlinks, CleanupWritesDeletion,
     CleanupPublishesDeletion, CleanupConfirms, CleanupReleased DEF Delete
<1>4. CASE Fail(p)
  BY <1>4, CleanupFails, CleanupFailedReturns DEF Fail
<1> QED BY <1>1, <1>2, <1>3, <1>4 DEF Execute

LEMMA CleanupWorld ==
    ASSUME CleanupInv, World
    PROVE  CleanupInv'
  BY CleanupHolds, CleanupAudits, CleanupTicks, CleanupApproves, CleanupCancels,
     CleanupCrashes DEF World

LEMMA CleanupRests ==
    ASSUME CleanupInv, UNCHANGED vars
    PROVE  CleanupInv'
<1>1. UNCHANGED <<product, quarantine, staging, control, moves, plan, approval, hold,
                  auditAt, now, lock, call, acked>>
  BY DEF vars, fs, world
<1>2. CleanupType'
  BY <1>1 DEF CleanupInv, CleanupType
<1>3. DiskKept
  BY <1>1, DaysAreNaturals DEF DiskKept, PlansKept, CleanupInv, CleanupType
<1> QED BY <1>1, <1>2, <1>3, WorldGoesOn

LEMMA CleanupNext == CleanupInv /\ [Next]_vars => CleanupInv'
<1> SUFFICES ASSUME CleanupInv, [Next]_vars
             PROVE  CleanupInv'
  OBVIOUS
<1>1. CASE \E p \in Callers : InitializeRoot(p) \/ WriteMarker(p) \/ InitializationFails(p)
                              \/ Return(p) \/ Execute(p)
  BY <1>1, CleanupInitializesRoot, CleanupEndsInitialization, CleanupReturns,
     CleanupExecutes
<1>2. CASE \E p \in Callers, x \in Plans : Begin(p, x)
  BY <1>2, CleanupBegins
<1>3. CASE \/ \E q \in QPlans : DryRunQuarantine(q)
           \/ \E d \in DPlans : DryRunDelete(d)
  BY <1>3, CleanupDryRuns
<1>4. CASE World
  BY <1>4, CleanupWorld
<1>5. CASE UNCHANGED vars
  BY <1>5, CleanupRests
<1> QED BY <1>1, <1>2, <1>3, <1>4, <1>5 DEF Next

LEMMA CleanupInit == Init => CleanupInv
<1> SUFFICES ASSUME Init
             PROVE  CleanupInv
  OBVIOUS
<1>1. /\ \A p \in Callers : call[p] = Idle
      /\ call \in [Callers -> CleanupCall]
  BY IdleIsCall DEF Init
<1>2. NoControl \in ControlRecord
  BY DEF NoControl, ControlRecord
<1>3. plan \in [Plans -> PlanRecord]
  BY DEF Init, PlanRecord
<1>4. CleanupType
  <2>1. /\ staging \in [DPlans -> 0..(Entries + 1)]
        /\ approval \in [Plans -> 0..2] /\ moves \in [Plans -> Nat]
    BY CleanupAssumption DEF Init
  <2>2. now \in Days /\ auditAt \in Days \cup {NoTime}
    BY DEF Init
  <2>3. /\ product \in Nat /\ quarantine \in Nat /\ hold \in Nat
        /\ lock \in Callers \cup {NoCaller} /\ acked \subseteq Plans
    BY DEF Init
  <2> QED BY <1>1, <1>2, <1>3, <2>1, <2>2, <2>3 DEF Init, CleanupType
<1>5. DiskShape
  BY DEF Init, DiskShape, Untouched, AtHome, NoControl
<1>6. LockHeld
  BY <1>1, IdleFields, CleanupAssumption
     DEF Init, LockHeld, Inside, QReady, DReady, QDone, DDone
<1>7. ASSUME NEW p \in Callers
      PROVE  CallerHolds(p)
  <2>1. /\ call[p].pc = "idle" /\ call[p].did = {}
        /\ call[p].before = FALSE /\ call[p].wasAcked = FALSE
    BY <1>1, IdleFields
  <2>2. Knows(p)
    BY <2>1 DEF Knows, QReady, DReady, QDone, DDone
  <2>3. Place(p)
    BY <2>1 DEF Place, QPlace, DPlace, At, QReady, DReady, QDone, DDone
  <2> QED BY <2>1, <2>2, <2>3 DEF CallerHolds
<1>8. AckedRecorded
  BY DEF Init, AckedRecorded
<1> QED BY <1>4, <1>5, <1>6, <1>7, <1>8 DEF CleanupInv

-----------------------------------------------------------------------------
(* What the invariant says of the payload and of the answers.              *)

LEMMA Whereabouts ==
    ASSUME DiskShape
    PROVE  \/ AtHome
           \/ \E q \in QPlans :
                /\ InQuarantine(q) /\ q \in control.journals
                /\ control.entered = NoTime \/ Lawful
           \/ \E q \in QPlans, d \in DPlans, left \in 0..(Entries + 1) :
                /\ InStaging(q, d, left) /\ Lawful /\ Reviewed(q, d)
                /\ d \in control.journals /\ <<1, q>> \in control.revisions
                /\ left \notin {0, Entries + 1} => control.current = <<2, d>>
                /\ left = 0 => control.current \in {<<2, d>>, <<3, d>>}
<1>1. CASE Untouched
  BY <1>1 DEF Untouched
<1>2. CASE \E q \in QPlans : QuarantineShape(q)
  BY <1>2 DEF QuarantineShape, Begun, OutOfRoot, Entered, Quarantined, Lists
<1>3. CASE \E q \in QPlans, d \in DPlans : DeletionShape(q, d)
  <2>1. PICK q \in QPlans, d \in DPlans : DeletionShape(q, d)
    BY <1>3
  <2>2. CASE Quarantined(q, {d}, {}) \/ Quarantined(q, {d}, {d})
    BY <2>2 DEF Quarantined, Lists
  <2>3. ASSUME NEW R, NEW P, NEW c, NEW left \in 0..(Entries + 1), Deleting(q, d, R, P, c, left)
        PROVE  /\ InStaging(q, d, left) /\ Lawful /\ Reviewed(q, d)
               /\ d \in control.journals /\ <<1, q>> \in control.revisions
               /\ control.current = c
    BY <2>3 DEF Deleting, Lists
  <2>4. 0 \in 0..(Entries + 1) /\ Entries + 1 \in 0..(Entries + 1) /\ Entries + 1 # 0
    BY CleanupAssumption
  <2>5. CASE Staged(q, d) \/ Announced(q, d)
    BY <2>3, <2>4, <2>5 DEF Staged, Announced
  <2>6. CASE \E left \in 0..(Entries + 1) : Unlinking(q, d, left)
    BY <2>3, <2>6 DEF Unlinking
  <2>7. CASE Closing(q, d) \/ Deleted(q, d)
    BY <2>3, <2>4, <2>7 DEF Closing, Deleted
  <2> QED BY <2>1, <2>2, <2>5, <2>6, <2>7 DEF DeletionShape
<1> QED BY <1>1, <1>2, <1>3 DEF DiskShape

LEMMA PayloadIsAccounted ==
    ASSUME CleanupType, DiskShape
    PROVE  PayloadAccounted
<1> DEFINE staged == {d \in DPlans : staging[d] # 0}
           there == IF product # 0 THEN 1 ELSE 0
           held == IF quarantine # 0 THEN 1 ELSE 0
<1>1. CASE AtHome
  <2>1. staged = {} /\ quarantine = 0 /\ product # 0
    BY <1>1 DEF AtHome
  <2>2. Cardinality(staged) = 0
    BY <2>1, FS_EmptySet
  <2> QED BY <2>1, <2>2 DEF PayloadAccounted
<1>2. CASE \E q \in QPlans : InQuarantine(q) /\ q \in control.journals
  <2>1. PICK q \in QPlans : InQuarantine(q) /\ q \in control.journals
    BY <1>2
  <2>2. staged = {} /\ product = 0 /\ quarantine # 0 /\ quarantine = plan[q].tree
    BY <2>1 DEF InQuarantine
  <2>3. Cardinality(staged) = 0
    BY <2>2, FS_EmptySet
  <2> QED BY <2>1, <2>2, <2>3 DEF PayloadAccounted
<1>3. CASE \E q \in QPlans, d \in DPlans, left \in 0..(Entries + 1) :
                /\ InStaging(q, d, left) /\ d \in control.journals
                /\ left \notin {0, Entries + 1} => control.current = <<2, d>>
                /\ left = 0 => control.current \in {<<2, d>>, <<3, d>>}
  <2>1. PICK q \in QPlans, d \in DPlans, left \in 0..(Entries + 1) :
                /\ InStaging(q, d, left) /\ d \in control.journals
                /\ left \notin {0, Entries + 1} => control.current = <<2, d>>
                /\ left = 0 => control.current \in {<<2, d>>, <<3, d>>}
    BY <1>3
  <2>2. /\ product = 0 /\ quarantine = 0
        /\ staging = [e \in DPlans |-> IF e = d THEN left ELSE 0]
    BY <2>1 DEF InStaging
  <2>3. CASE left = 0
    <3>1. staged = {}
      BY <2>2, <2>3
    <3>2. Cardinality(staged) = 0
      BY <3>1, FS_EmptySet
    <3>3. control.current[1] \in {2, 3}
      BY <2>1, <2>3
    <3> QED BY <2>2, <3>1, <3>2, <3>3 DEF PayloadAccounted
  <2>4. CASE left # 0
    <3>1. staged = {d} /\ staging[d] = left
      BY <2>2, <2>4
    <3>2. Cardinality(staged) = 1
      BY <3>1, FS_Singleton
    <3>3. staging[d] # Entries + 1 => control.current = <<2, d>>
      BY <2>1, <2>4, <3>1
    <3> QED BY <2>1, <2>2, <3>1, <3>2, <3>3 DEF PayloadAccounted
  <2> QED BY <2>3, <2>4
<1> QED BY <1>1, <1>2, <1>3, Whereabouts

\* The day a lawful entry records is one on which every payload's term had run out.
LEMMA EntryAfterTerm ==
    ASSUME Lawful, NEW e \in PayloadEvidence
    PROVE  /\ control.entered >= PublishedAt + LifecycleAuditDays
           /\ control.entered >=
                PublishedAt + RetentionProfile[ClassificationOutcome(e).class].days
<1> DEFINE day == control.entered
           s == TerminalSubject("run_payload", e, PublishedAt)
           r == EvaluateLocalData(s, "unavailable", {}, day)
<1>1. /\ r.status = "evaluated" /\ day >= r.audit.expires
      /\ day >= PublishedAt + LifecycleAuditDays
  BY DEF Lawful, LifecycleExpired
<1>2. r = [status |-> "evaluated", audit |-> AuditOf(s, "unavailable", {}, day)]
  BY <1>1 DEF EvaluateLocalData
<1>3. r.audit.expires = Expires(s)
  BY <1>2 DEF AuditOf
<1>4. /\ s.started = PublishedAt /\ s.kind = "run_payload"
      /\ s.class = ClassificationOutcome(e).class
  BY DEF TerminalSubject
<1> HIDE DEF s
<1>5. Expires(s) = PublishedAt + RetentionProfile[ClassificationOutcome(e).class].days
  BY <1>4 DEF Expires, RetentionDays, PublishedAt, NoTime
<1> QED BY <1>1, <1>3, <1>5

LEMMA EntryIsLate ==
    ASSUME control.entered = NoTime \/ Lawful
    PROVE  control.entered # NoTime =>
             /\ control.entered >= PublishedAt + LifecycleAuditDays
             /\ \A e \in PayloadEvidence :
                  control.entered >=
                    PublishedAt + RetentionProfile[ClassificationOutcome(e).class].days
<1>1. Lawful => control.entered >= PublishedAt + LifecycleAuditDays
  BY DEF Lawful, LifecycleExpired
<1> QED BY <1>1, EntryAfterTerm

LEMMA NothingWentEarly ==
    ASSUME CleanupType, DiskShape
    PROVE  NothingGoesEarly
<1>1. CASE AtHome
  <2>1. \A d \in DPlans : moves[d] = 0
    BY <1>1 DEF AtHome, Plans
  <2>2. control.entered = NoTime
    BY <1>1 DEF AtHome
  <2> QED BY <2>1, <2>2 DEF NothingGoesEarly
<1>2. CASE \E q \in QPlans : InQuarantine(q) /\ (control.entered = NoTime \/ Lawful)
  <2>1. PICK q \in QPlans : InQuarantine(q) /\ (control.entered = NoTime \/ Lawful)
    BY <1>2
  <2>2. \A d \in DPlans : moves[d] = 0
    BY <2>1, PlansDiffer DEF InQuarantine
  <2> QED BY <2>1, <2>2, EntryIsLate DEF NothingGoesEarly
<1>3. CASE \E q \in QPlans, d \in DPlans, left \in 0..(Entries + 1) :
             /\ InStaging(q, d, left) /\ Lawful /\ Reviewed(q, d)
             /\ <<1, q>> \in control.revisions
  <2>1. PICK q \in QPlans, d \in DPlans, left \in 0..(Entries + 1) :
             /\ InStaging(q, d, left) /\ Lawful /\ Reviewed(q, d)
             /\ <<1, q>> \in control.revisions
    BY <1>3
  <2>2. \A x \in DPlans : moves[x] > 0 => x = d
    BY <2>1, PlansDiffer DEF InStaging
  <2>3. \A x \in DPlans : moves[x] > 0 =>
          /\ now >= control.entered + QuarantineReviewDays
          /\ plan[x].entered = control.entered
          /\ <<1, plan[x].source>> \in control.revisions
    BY <2>1, <2>2 DEF Reviewed
  <2> QED BY <2>1, <2>3, EntryIsLate DEF NothingGoesEarly
<1> QED BY <1>1, <1>2, <1>3, Whereabouts

LEMMA CleanupRemembers ==
    ASSUME CleanupInv
    PROVE  CommittedIsRemembered
<1>1. \A x \in acked : FinalRevision(x) \in control.revisions
  BY DEF CleanupInv, AckedRecorded
<1>2. \A p \in Callers : (At(p, "done") /\ call[p].wasAcked) =>
                           call[p].answer.code \in {"committed", "effect_unknown"}
  BY DEF CleanupInv, CallerHolds, Knows
<1>3. \A x \in Plans : moves[x] <= 1
  <2>1. DiskShape
    BY DEF CleanupInv
  <2>2. CASE AtHome
    BY <2>2 DEF AtHome
  <2>3. CASE \E q \in QPlans : InQuarantine(q)
    BY <2>3 DEF InQuarantine
  <2>4. CASE \E q \in QPlans, d \in DPlans, left \in 0..(Entries + 1) : InStaging(q, d, left)
    BY <2>4 DEF InStaging
  <2> QED BY <2>1, <2>2, <2>3, <2>4, Whereabouts
<1> QED BY <1>1, <1>2, <1>3 DEF CommittedIsRemembered

LEMMA CleanupAnswersHonest ==
    ASSUME CleanupInv
    PROVE  AnswersHonest
  BY DEF CleanupInv, CallerHolds, AnswerHonest, AnswersHonest, At

LEMMA CleanupIsSafe ==
    ASSUME CleanupInv
    PROVE  PayloadIsSafe
<1>1. CleanupType /\ DiskShape
  BY DEF CleanupInv
<1> QED BY <1>1, PayloadIsAccounted, NothingWentEarly, CleanupRemembers DEF PayloadIsSafe

-----------------------------------------------------------------------------
(* The theorems.                                                           *)

\* Whatever fails, crashes or runs beside it, inspect_root_initialization never
\* finds a corrupt root, and an owned root is whole.
THEOREM RootNeverIsCorrupt ==
    MCSpec => []RootIsNeverCorrupt
<1>1. MCInit => RootInv
  BY RootInit DEF MCInit
<1>2. RootInv /\ [MCNext]_<<flow, vars, migrationVars, rootVars>> => RootInv'
  BY RootNext DEF MCNext
<1>3. RootInv => RootIsNeverCorrupt
  BY RootNeverCorrupt DEF RootIsNeverCorrupt
<1> QED BY <1>1, <1>2, <1>3, PTL DEF MCSpec

\* A copy that migrate_legacy_run has published is what the flat run was at one
\* instant, and holds nothing that the redaction would have changed, however
\* often its writer wrote between any two reads.
THEOREM CopyIsGenuine ==
    MCSpec => []CopyWasTheSource
<1>1. MCInit => MigrationInv
  BY MigrationInit DEF MCInit
<1>2. MigrationInv /\ [MCNext]_<<flow, vars, migrationVars, rootVars>> => MigrationInv'
  BY MigrationNext DEF MCNext
<1>3. MigrationInv => CopyWasTheSource
  BY MigrationCopied DEF CopyWasTheSource
<1> QED BY <1>1, <1>2, <1>3, PTL DEF MCSpec

\* The run's payload is at any instant whole in one place, or on its way out under
\* a published plan; nothing leaves before its term and its review are over; and
\* what was committed stays on record: for any number of executors and of plans,
\* whatever fails, crashes, is cancelled or changes between their steps.
THEOREM PayloadStaysSafe ==
    MCSpec => []PayloadIsSafe
<1>1. MCInit => CleanupInv
  BY CleanupInit DEF MCInit
<1>2. CleanupInv /\ [MCNext]_<<flow, vars, migrationVars, rootVars>> => CleanupInv'
  BY CleanupNext DEF MCNext
<1>3. CleanupInv => PayloadIsSafe
  BY CleanupIsSafe
<1> QED BY <1>1, <1>2, <1>3, PTL DEF MCSpec

\* What the three kinds of call answer is true of the disk: of the cleanup that a
\* refusal left no mark, that a committed plan has its final revision on record,
\* and that what is said of the pointer and of the effect is so.
THEOREM LocalAnswersStayTrue ==
    MCSpec => []LocalAnswersAreTrue
<1> DEFINE Inv == CleanupInv /\ MigrationInv /\ RootInv
<1>1. MCInit => Inv
  BY CleanupInit, MigrationInit, RootInit DEF MCInit
<1>2. Inv /\ [MCNext]_<<flow, vars, migrationVars, rootVars>> => Inv'
  <2>1. CleanupInv /\ [MCNext]_<<flow, vars, migrationVars, rootVars>> => CleanupInv'
    BY CleanupNext DEF MCNext
  <2>2. MigrationInv /\ [MCNext]_<<flow, vars, migrationVars, rootVars>> => MigrationInv'
    BY MigrationNext DEF MCNext
  <2>3. RootInv /\ [MCNext]_<<flow, vars, migrationVars, rootVars>> => RootInv'
    BY RootNext DEF MCNext
  <2> QED BY <2>1, <2>2, <2>3
<1>3. Inv => LocalAnswersAreTrue
  BY CleanupAnswersHonest, MigrationAnswersTrue, RootAnswersTrue DEF LocalAnswersAreTrue
<1> QED BY <1>1, <1>2, <1>3, PTL DEF MCSpec
=============================================================================

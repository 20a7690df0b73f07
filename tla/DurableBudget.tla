---------------------------- MODULE DurableBudget ----------------------------
(***************************************************************************)
(* budgets/durable_store.py: the protocol by which several processes       *)
(* mutate the durable budget of one run.  A call reads its clock, loads    *)
(* the snapshot, replays or refuses or prepares a successor, looks at the  *)
(* current revision without a lock, and publishes through the revision     *)
(* store, which is used as the log that RevisionLog specifies.  Between    *)
(* these steps other processes move, and a publish may end without the     *)
(* caller learning whether it took effect.                                 *)
(***************************************************************************)
EXTENDS BudgetState

CONSTANTS
    Client,       \* one DurableBudgetStore object each
    MaxClock,     \* bound: readings of the monotonic clocks
    Workload,     \* named sets of requests that the callers of one run make
    Environment   \* what the callers and the machine may do in one behaviour

Reading == 0..MaxClock

\* The requests that are made, a bound on the clocks, and how many storage
\* failures and process restarts may still happen.
Surroundings == [calls : DOMAIN Workload, clock : Reading, faults : Nat, restarts : Nat]

ASSUME BudgetAssumption ==
    /\ MaxClock \in Nat
    /\ Null \notin Reading
    /\ \A w \in DOMAIN Workload : Workload[w] \subseteq Request
    /\ Environment \subseteq Surroundings

\* Every caller in the repository names a category for an effect it settles as
\* unknown (execution.py, coordinator.py).
ASSUME CategoryAssumption ==
    \A q \in Request : q.kind = "settle" /\ q.status = "effect_unknown" => q.category # Null

VARIABLES
    st,        \* the newest published snapshot; Blank before the run exists
    loadable,  \* every adjacent pair of published snapshots passes the load checks
    last,      \* _last_monotonic_ns
    pending,   \* _pending_monotonic_ns
    unsure,    \* clients in _clock_reconciliation_required
    work,      \* the prepared successor of a call in progress
    answer,    \* ghost: what the last step told a caller about its request, if anything
    env        \* a member of Environment, with the failures and restarts left

local == <<last, pending, unsure>>
vars == <<st, loadable, last, pending, unsure, work, answer, env>>

\* The answers that say whether the request is in the log; the other failures
\* (refused, compare-and-swap, uncertain, locked, ...) leave no answer.
Code == {"none", "applied", "replay", "conflict"}

\* A call that has prepared its successor and publishes it.
Work == [req : Request, at : Reading, next : Snapshot, stage : {"check", "store"}]

NoAnswer == [req |-> Null, code |-> "none"]

Init ==
    /\ st = Blank
    /\ loadable = TRUE
    /\ last = [c \in Client |-> Null]
    /\ pending = [c \in Client |-> Null]
    /\ unsure = {}
    /\ work = [c \in Client |-> Null]
    /\ answer = NoAnswer
    /\ env \in Environment

Idle(c) == work[c] = Null

\* Client c, between two calls, makes request q when its clock reads v.
Calls(c, q, v) == Idle(c) /\ q \in Workload[env.calls] /\ v <= env.clock

Answer(q, code) == answer' = [req |-> q, code |-> code]
Silent == answer' = NoAnswer

Fault == env.faults > 0 /\ env' = [env EXCEPT !.faults = @ - 1]

-----------------------------------------------------------------------------
\* A reading below the last committed or the pending one is a rollback.
NotBefore(c, v) == \A x \in {last[c], pending[c]} \ {Null} : x <= v

\* The active runtime that a call has to charge; create charges none.
Elapsed(c, q, v) == IF last[c] = Null \/ q.kind = "initialize" THEN 0 ELSE v - last[c]

\* _observe_monotonic
Observe(c, v) ==
    /\ pending' = [pending EXCEPT ![c] = v]
    /\ UNCHANGED <<last, unsure>>

\* _commit_monotonic_observation
Commit(c, v) ==
    /\ last' = [last EXCEPT ![c] = v]
    /\ pending' = [pending EXCEPT ![c] = Null]
    /\ unsure' = unsure \ {c}

\* rebase_monotonic_clock
Rebase(c) ==
    /\ last' = [last EXCEPT ![c] = Null]
    /\ pending' = [pending EXCEPT ![c] = Null]
    /\ unsure' = unsure \ {c}

\* create looks for the run's directory before it loads.
MustLoad(q) == q.kind # "initialize" \/ st.ops # <<>>

Readable == st.ops # <<>> /\ loadable

-----------------------------------------------------------------------------
(* A call up to the point where it publishes.                               *)

ClockRollback(c, q, v) ==
    /\ Calls(c, q, v) /\ ~NotBefore(c, v)
    /\ Silent
    /\ UNCHANGED <<st, loadable, last, pending, unsure, work, env>>

\* load fails: no such run, a history that does not validate, or the storage.
LoadFails(c, q, v) ==
    /\ Calls(c, q, v) /\ NotBefore(c, v) /\ MustLoad(q)
    /\ \/ ~Readable /\ UNCHANGED env
       \/ Fault
    /\ Observe(c, v)
    /\ Silent
    /\ UNCHANGED <<st, loadable, work>>

\* _existing_operation finds the request: the reading is committed when the
\* process has none, or does not know whether its last publish counted.
Replay(c, q, v) ==
    /\ Calls(c, q, v) /\ NotBefore(c, v) /\ Readable
    /\ RecordedExactly(st, q)
    /\ IF last[c] = Null \/ c \in unsure THEN Commit(c, v) ELSE Observe(c, v)
    /\ Answer(q, "replay")
    /\ UNCHANGED <<st, loadable, work, env>>

\* The id is taken by another request, or the run was created by one.
KeyReused(c, q, v) ==
    /\ Calls(c, q, v) /\ NotBefore(c, v) /\ Readable
    /\ ~RecordedExactly(st, q)
    /\ Recorded(st, q.id) \/ q.kind = "initialize"
    /\ Observe(c, v)
    /\ Answer(q, "conflict")
    /\ UNCHANGED <<st, loadable, work, env>>

\* The checks pass, and so does the validation of the snapshot that is built.
Successor(s, q, el) == Admits(s, q, el) /\ ValidSnapshot(Apply(s, q, el))

Fresh(c, q, v) ==
    /\ Calls(c, q, v) /\ NotBefore(c, v)
    /\ IF MustLoad(q)
       THEN Readable /\ ~Recorded(st, q.id) /\ q.kind # "initialize"
       ELSE TRUE

Refuse(c, q, v) ==
    /\ Fresh(c, q, v)
    /\ ~Successor(st, q, Elapsed(c, q, v))
    /\ Observe(c, v)
    /\ Silent
    /\ UNCHANGED <<st, loadable, work, env>>

Prepare(c, q, v) ==
    /\ Fresh(c, q, v)
    /\ Successor(st, q, Elapsed(c, q, v))
    /\ Observe(c, v)
    /\ work' = [work EXCEPT ![c] =
                  [req |-> q, at |-> v,
                   next |-> Apply(st, q, Elapsed(c, q, v)),
                   stage |-> IF q.kind = "initialize" THEN "store" ELSE "check"]]
    /\ Silent
    /\ UNCHANGED <<st, loadable, env>>

-----------------------------------------------------------------------------
(* _publish.                                                                *)

Generation(s) == Len(s.ops)

Done(c) == work' = [work EXCEPT ![c] = Null]

Unchanged(c) == Generation(st) + 1 = Generation(work[c].next)

\* read_current sees the generation the successor was built on.
CheckCurrent(c) ==
    /\ ~Idle(c) /\ work[c].stage = "check"
    /\ Unchanged(c)
    /\ work' = [work EXCEPT ![c].stage = "store"]
    /\ Silent
    /\ UNCHANGED <<st, loadable, last, pending, unsure, env>>

\* It does not: reload, and answer with the recorded operation or a conflict.
CheckMoved(c) ==
    /\ ~Idle(c) /\ work[c].stage = "check"
    /\ ~Unchanged(c)
    /\ LET q == work[c].req
       IN  CASE ~loadable              -> Silent /\ UNCHANGED local
             [] RecordedExactly(st, q) -> Answer(q, "replay") /\ Commit(c, work[c].at)
             [] Recorded(st, q.id)     -> Answer(q, "conflict") /\ UNCHANGED local
             [] OTHER                  -> Silent /\ UNCHANGED local
    /\ Done(c)
    /\ UNCHANGED <<st, loadable, env>>

\* mutant: the revision store does not compare.
Mut_AppendNext(c) ==
    /\ st' = work[c].next
    /\ loadable' = loadable

\* The revision store replaces its pointer only on the expected revision.
AppendNext(c) ==
    /\ Unchanged(c)
    /\ st' = work[c].next
    /\ loadable' = (loadable /\ (st.ops # <<>> => ValidSuccessor(st, work[c].next)))

PublishApplied(c) ==
    /\ ~Idle(c) /\ work[c].stage = "store"
    /\ AppendNext(c)
    /\ Answer(work[c].req, "applied")
    /\ Commit(c, work[c].at)
    /\ Done(c)
    /\ UNCHANGED env

\* EFFECT_UNKNOWN or DURABILITY_UNCONFIRMED, with the effect or without it.
PublishUncertain(c) ==
    /\ ~Idle(c) /\ work[c].stage = "store"
    /\ Fault
    /\ AppendNext(c) \/ UNCHANGED <<st, loadable>>
    /\ Silent
    /\ unsure' = unsure \cup {c}
    /\ Done(c)
    /\ UNCHANGED <<last, pending>>

\* The lock is busy or the storage fails before the pointer is replaced.
PublishFails(c) ==
    /\ ~Idle(c) /\ work[c].stage = "store"
    /\ Fault
    /\ Silent
    /\ Done(c)
    /\ UNCHANGED <<st, loadable, last, pending, unsure>>

\* Same transaction id, same bytes: the publish had already been committed.
\* The bytes also hold created_at, so equal successors may still differ.
PublishCommitted(c) ==
    /\ ~Idle(c) /\ work[c].stage = "store"
    /\ ~Unchanged(c)
    /\ LET g == Generation(work[c].next)
       IN  st.ops[g] = work[c].next.ops[g]
    /\ IF loadable
       THEN Answer(work[c].req, "replay") /\ Commit(c, work[c].at)
       ELSE Silent /\ UNCHANGED local
    /\ Done(c)
    /\ UNCHANGED <<st, loadable, env>>

\* The revision store refuses: the id was used by another transaction, or
\* the expected revision is no longer the current one.
PublishRefused(c) ==
    /\ ~Idle(c) /\ work[c].stage = "store"
    /\ ~Unchanged(c)
    /\ IF Recorded(st, work[c].req.id) THEN Answer(work[c].req, "conflict") ELSE Silent
    /\ Done(c)
    /\ UNCHANGED <<st, loadable, last, pending, unsure, env>>

-----------------------------------------------------------------------------
(* The rest of the store's life.                                            *)

\* A new process has a new store object, and forgets the call in progress.
Restart(c) ==
    /\ env.restarts > 0
    /\ env' = [env EXCEPT !.restarts = @ - 1]
    /\ Rebase(c)
    /\ Done(c)
    /\ Silent
    /\ UNCHANGED <<st, loadable>>

\* rebase_monotonic_clock, called around a wait for a human.
ExplicitRebase(c) ==
    /\ Idle(c)
    /\ last[c] # Null \/ pending[c] # Null
    /\ Rebase(c)
    /\ Silent
    /\ UNCHANGED <<st, loadable, work, env>>

SomeStarted(s) == \E p \in Permit : s.permit[p] = "started"

\* resume: the clock is rebased first, whatever the outcome.
Resume(c, v) ==
    /\ Idle(c) /\ v <= env.clock
    /\ Readable /\ ~SomeStarted(st)
    /\ Commit(c, v)
    /\ Silent
    /\ UNCHANGED <<st, loadable, work, env>>

ResumeRefused(c) ==
    /\ Idle(c)
    /\ ~Readable \/ SomeStarted(st)
    /\ Rebase(c)
    /\ Silent
    /\ UNCHANGED <<st, loadable, work, env>>

Call(c) ==
    \E q \in Request, v \in Reading :
      \/ ClockRollback(c, q, v) \/ LoadFails(c, q, v) \/ Replay(c, q, v)
      \/ KeyReused(c, q, v) \/ Refuse(c, q, v) \/ Prepare(c, q, v)

Publish(c) ==
    \/ CheckCurrent(c) \/ CheckMoved(c) \/ PublishApplied(c) \/ PublishUncertain(c)
    \/ PublishFails(c) \/ PublishCommitted(c) \/ PublishRefused(c)

Next ==
    \E c \in Client :
      \/ Call(c) \/ Publish(c) \/ Restart(c) \/ ExplicitRebase(c) \/ ResumeRefused(c)
      \/ \E v \in Reading : Resume(c, v)

Spec == Init /\ [][Next]_vars

-----------------------------------------------------------------------------
(* Properties.                                                              *)

\* The store's files and the objects of its clients keep their shapes: a
\* published snapshot, its prepared successor, the clocks and the answers.
TypeOK ==
    /\ st \in Snapshot
    /\ loadable \in BOOLEAN
    /\ last \in [Client -> Reading \cup {Null}]
    /\ pending \in [Client -> Reading \cup {Null}]
    /\ unsure \in SUBSET Client
    /\ work \in [Client -> Work \cup {Null}]
    /\ answer \in [req : Request \cup {Null}, code : Code]
    /\ env \in Surroundings

\* _append_operation and _publish never write a snapshot that
\* _validate_state_successor rejects when the history is next loaded: such a
\* run could not be read, settled or resumed by anyone again.
EveryPublishedStateLoads == loadable

\* While no failure is latched, the settled usage and all active reservations
\* together stay within the policy, tightened or not, in every resource that
\* adds up, and the active permits within the slots, although each process
\* admits on a snapshot that may be stale (_admit_reservation, tighten_policy).
NothingOvercommitted ==
    st.ops # <<>> =>
      /\ Cardinality(Active(st)) <= st.policy.slots
      /\ st.latch = Null =>
           \A r \in Cumulative : st.usage[r] + Reserved(st, r) <= st.policy.limit[r]

\* The published ledger can be loaded and is within its policy, after any race
\* of stale processes (_publish, _append_operation, _admit_reservation).
LedgerIsSound == EveryPublishedStateLoads /\ NothingOvercommitted

\* A permit that is settled stays settled with the outcome it has, is never
\* active again, and a late cancellation does not change its attempt, whatever
\* calls follow (settle, release_no_effect, record_cancellation).
OutcomeIsFinal ==
    [][\A p \in Settled(st) :
         /\ st'.settled[p] = st.settled[p]
         /\ st'.permit[p] = "none"
         /\ st'.attempt[p] = st.attempt[p]]_vars

\* Once a cancellation is requested the work is never started, and never
\* settled as a success or a plain failure: cancelled with the acknowledged
\* evidence, unknown, overrun, or released before it started (start, settle).
CancelledWorkDoesNotSucceed ==
    [][\A p \in Permit : st.cancel[p].state # "not_requested" =>
         /\ st.permit[p] = "reserved" => st'.permit[p] # "started"
         /\ st'.settled[p] # st.settled[p] =>
              /\ st'.settled[p] \in {"cancelled", "effect_unknown", "overrun",
                                     "released_no_effect"}
              /\ st'.settled[p] = "cancelled" => st.cancel[p].state \in {"acknowledged", "cancelled"}
              /\ st'.settled[p] # "released_no_effect" => ~st.cancel[p].live]_vars

\* The first failure stays latched, and behind it nothing is reserved and no
\* policy changes; an overrun, an unconfirmed stop and an unknown effect are
\* latched as soon as they are recorded (failure_latch).
FailureIsLatched ==
    [][/\ st.latch # Null => /\ st'.latch = st.latch
                             /\ st'.policy = st.policy
                             /\ Active(st') \subseteq Active(st)
       /\ \A p \in Permit :
            \/ st'.settled[p] \in {"overrun", "effect_unknown"}
            \/ st'.cancel[p].state \in {"unconfirmed", "effect_unknown"}
            => st'.latch # Null]_vars

\* What has been recorded of a permit holds for good: its outcome is final, its
\* cancellation excludes a success, and a failure closes the run to new work,
\* whatever stale process calls next (settle, start, record_cancellation).
OutcomesHold == OutcomeIsFinal /\ CancelledWorkDoesNotSucceed /\ FailureIsLatched

\* Every mutation takes effect at most once and none is ever undone: the
\* published operations are a RevisionLog whose transaction ids are the
\* operation ids, under retries, stale loads, lost answers and restarts
\* (_existing_operation, _transaction_id, _publish).
Log == INSTANCE RevisionLog WITH
           Txn   <- {q.id : q \in Request},
           Body  <- Request,
           log   <- [i \in DOMAIN st.ops |-> [txn |-> st.ops[i].req.id, body |-> st.ops[i].req]],
           acked <- {}
ExactlyOnce == Log!Spec

\* A caller that is told applied or exact replay finds its own request in the
\* log, and not another one under the same id (_existing_operation, _publish).
AnswersAreTrue ==
    answer.code \in {"applied", "replay"} => \E i \in DOMAIN st.ops : st.ops[i].req = answer.req
=============================================================================

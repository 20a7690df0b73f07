-------------------------- MODULE BoundedExecution --------------------------
(***************************************************************************)
(* budgets/execution.py: DurableBoundedExecutor.execute, by which several  *)
(* processes run the same tasks of one run on a bounded pool of threads,   *)
(* with cooperative cancellation and automatic retries.  What an attempt   *)
(* may do is recorded in the durable budget: BudgetState gives the         *)
(* operations of its store, each of which is one step here, because        *)
(* DurableBudget shows that the published operations are a log to which    *)
(* every request is added at most once; a storage failure may still hide   *)
(* whether it was.  The effects are the callables that the caller passes;  *)
(* they may return anything, or never return.                              *)
(***************************************************************************)
EXTENDS BudgetState

Ctx == INSTANCE ContextLifecycle

CONSTANTS
    Caller,     \* processes that call execute once each
    Task,       \* execution ordinals, 0 .. n-1
    MaxRetries, \* bound: automatic retries of a task
    Setup,      \* the policies, tasks and faults of one behaviour
    Outcome,    \* what an effect returns
    Offer       \* what a retry factory returns, given the envelope of the last attempt

ASSUME ExecutionAssumption ==
    /\ MaxRetries \in Nat
    /\ Task \subseteq Nat
    /\ Permit = Task \X (0..MaxRetries)

VARIABLES
    st,     \* the newest snapshot of the durable budget
    call,   \* each caller's call of execute: its locals, its pool and its tokens
    env,    \* a member of Setup, with the faults that are left
    ran,    \* ghost: how often the effect of an attempt has been entered
    said,   \* ghost: what the effect of an attempt really returned
    used,   \* ghost: the envelope of an attempt that was entered
    told    \* ghost: the records that calls have returned

vars == <<st, call, env, ran, said, used, told>>

-----------------------------------------------------------------------------
(* The data of execution.py.                                                *)

EffectStatus == {"succeeded", "failed", "cancelled", "effect_unknown"}
Transient == {"provider_transient", "tool_transient"}

\* EffectResultV1.evidence_matches_status
ValidResult(r) ==
    /\ r.status = "succeeded" => r.evidence # Null
    /\ r.status = "failed" => r.category # Null
    /\ r.status = "cancelled" => r.cancelEvidence # Null
    /\ r.reconciled => r.idempotency = "reconcilable"

\* What _run_effect makes of a callable that raises, or that returns something
\* else than an EffectResultV1.
RaisedResult ==
    [status |-> "effect_unknown", category |-> "external_effect_unknown", evidence |-> "raised",
     cancelEvidence |-> Null, idempotency |-> "unknown", reconciled |-> FALSE]

\* mutant: an effect that was not reconciled is retried.
Mut_admit_automatic_retry(r, done, max, factory) ==
    /\ max > 0
    /\ done < max
    /\ r.category \in Transient
    /\ r.idempotency \in {"idempotent", "reconcilable"}
    /\ factory

\* admit_automatic_retry: admitted, of a failed result.
admit_automatic_retry(r, done, max, factory) ==
    /\ max > 0
    /\ done < max
    /\ r.category \in Transient
    /\ \/ r.idempotency = "idempotent"
       \/ r.idempotency = "reconcilable" /\ r.reconciled
    /\ factory

\* ExecutionAttemptResultV1
AttemptResult(k, status, settled) == [index |-> k, status |-> status, settled |-> settled]

\* The effect status of a recorded settlement, in _replayed_attempts.
EffectOf(settlement) ==
    CASE settlement = "overrun"            -> "failed"
      [] settlement = "released_no_effect" -> "cancelled"
      [] OTHER                             -> settlement

-----------------------------------------------------------------------------
(* The requests that execute makes of the store (_attempt_ids).             *)

Charge1(k) == [r \in Resource |-> IF r = "retry_attempts" THEN (IF k = 0 THEN 0 ELSE 1) ELSE 1]

ReserveOf(t, k) ==
    [id |-> <<t, k, "reserve">>, kind |-> "reserve", permit |-> <<t, k>>, amount |-> Charge1(k),
     runtime |-> 1, class |-> "local_free", binding |-> Null,
     lineage |-> [attempt |-> <<t, k>>, parent |-> IF k = 0 THEN Null ELSE <<t, k - 1>>,
                  root |-> t, ordinal |-> t]]
StartOf(t, k) == [id |-> <<t, k, "start">>, kind |-> "start", permit |-> <<t, k>>]
\* _settle_result
SettleOf(t, k, r, peak) ==
    [id |-> <<t, k, "settle">>, kind |-> "settle", permit |-> <<t, k>>, actual |-> Charge1(k),
     status |-> r.status, evidence |-> r.evidence, cancelEvidence |-> r.cancelEvidence,
     category |-> r.category, authenticated |-> FALSE, peak |-> peak]
ReleaseOf(t) ==
    [id |-> <<t, 0, "admission-release">>, kind |-> "release", permit |-> <<t, 0>>,
     evidence |-> "never-started"]
CancelOf(t) == [id |-> <<t, 0, "cancel-request">>, kind |-> "request_cancel", permit |-> <<t, 0>>]
RecordOf(t, step, state, evidence, live) ==
    [id |-> <<t, 0, step>>, kind |-> "record_cancel", permit |-> <<t, 0>>, state |-> state,
     evidence |-> evidence, live |-> live]

-----------------------------------------------------------------------------
(* One operation of the store.                                              *)

Elapsed == 0..(env.time - st.runtime)

Admitted(q, el) == ~Recorded(st, q.id) /\ Admits(st, q, el) /\ ValidSnapshot(Apply(st, q, el))

\* The call returns, with an exact replay or with the mutation applied.
Answers(q) ==
    \/ RecordedExactly(st, q) /\ UNCHANGED st
    \/ \E el \in Elapsed : Admitted(q, el) /\ st' = Apply(st, q, el)

\* It raises: the request is refused, or the storage fails without or with
\* the mutation having been published.
Raises(q) ==
    \/ /\ ~RecordedExactly(st, q)
       /\ \E el \in Elapsed : ~Admitted(q, el)
       /\ UNCHANGED <<st, env>>
    \/ /\ env.faults > 0
       /\ env' = [env EXCEPT !.faults = @ - 1]
       /\ \/ UNCHANGED st
          \/ \E el \in Elapsed : Admitted(q, el) /\ st' = Apply(st, q, el)

Ghosts == <<ran, said, used, told>>

First == 0

Fresh ==
    [pc |-> "idle", at |-> First, reserved |-> {}, candidates |-> {}, replayed |-> {},
     worker |-> [t \in Task |-> "none"], result |-> [t \in Task |-> Null],
     requested |-> {}, acked |-> {}, cancel |-> FALSE, pending |-> {}, completed |-> {},
     lists |-> [t \in Task |-> <<>>], state |-> "not_requested", retries |-> 0,
     current |-> Null, envelope |-> Null, peak |-> 0]

\* execute is left: its locals are gone, the threads of its pool are not.
Left(record, pc) ==
    [Fresh EXCEPT !.pc = pc, !.worker = record.worker, !.requested = record.requested]

At(c, pc) == call[c].pc = pc

\* Caller c asks the store for q and goes on with its locals as given; an
\* exception of the store leaves execute with the pool as it is.
Ask(c, q, after) ==
    \/ Answers(q) /\ call' = [call EXCEPT ![c] = after] /\ UNCHANGED env
    \/ Raises(q) /\ call' = [call EXCEPT ![c] = Left(@, "raised")]

Locally(c, after) == call' = [call EXCEPT ![c] = after] /\ UNCHANGED <<st, env>>
Raise(c) == Locally(c, Left(call[c], "raised"))

\* The tasks of this behaviour, in the order in which execute takes them.
Beyond(t) == t >= env.tasks
Mine == {t \in Task : ~Beyond(t)}

Running(c) == {t \in Mine : call[c].worker[t] = "running"}

\* The envelope of a first attempt, which the caller builds.
Assignment(t) == [id |-> t, keys |-> {"objective"}]
Payload(secret) == [fields |-> {"objective"}, secret |-> secret]
FirstEnvelope(t) ==
    Ctx!build_context_envelope(Payload(FALSE), Assignment(t), "run", 0, 2, <<t, 0>>, <<t, 0>>)

Init ==
    /\ env \in Setup
    /\ st = Apply(Blank, [id |-> <<First, 0, "init">>, kind |-> "initialize",
                          policy |-> env.policy], 0)
    /\ call = [c \in Caller |-> Fresh]
    /\ ran = [p \in Permit |-> 0]
    /\ said = [p \in Permit |-> Null]
    /\ used = [p \in Permit |-> Null]
    /\ told = {}

-----------------------------------------------------------------------------
(* Admission: isolation, reservations, starts.                              *)

\* execute loads the policy, and refuses tasks that need an isolation nobody
\* provides before anything is reserved (_isolation_evidence).
Begin(c) ==
    /\ At(c, "idle") /\ env.calls > 0
    /\ call' = [call EXCEPT ![c].pc = IF env.isolated THEN "raised" ELSE "reserve"]
    /\ env' = [env EXCEPT !.calls = @ - 1]
    /\ UNCHANGED <<st, ran, said, used, told>>

\* One reservation after the other.  An exact replay of an active permit is
\* somebody else's work, or work of which nothing is known any more.
ReserveStep(c) ==
    /\ At(c, "reserve")
    /\ LET t     == call[c].at
           q     == ReserveOf(t, 0)
           next  == IF Beyond(t + 1) THEN "start" ELSE "reserve"
           goto  == [call[c] EXCEPT !.pc = next, !.at = IF Beyond(t + 1) THEN First ELSE t + 1]
           undo  == [call[c] EXCEPT !.pc = "release", !.at = First]
       IN  \/ /\ RecordedExactly(st, q)
              /\ Locally(c, IF <<t, 0>> \in Active(st) THEN undo
                            ELSE [goto EXCEPT !.candidates = @ \cup {t}])
           \/ /\ \E el \in Elapsed : Admitted(q, el) /\ st' = Apply(st, q, el)
              /\ call' = [call EXCEPT ![c] = [goto EXCEPT !.reserved = @ \cup {t}]]
              /\ UNCHANGED env
           \/ Raises(q) /\ call' = [call EXCEPT ![c] = undo]
    /\ UNCHANGED Ghosts

\* The permits of a failed admission are released; a release that fails
\* replaces the exception and leaves the rest.
ReleaseStep(c) ==
    /\ At(c, "release")
    /\ LET t     == call[c].at
           after == [call[c] EXCEPT !.at = t + 1]
       IN  CASE Beyond(t)                 -> Raise(c)
             [] ~Beyond(t) /\ t \notin call[c].reserved -> Locally(c, after)
             [] ~Beyond(t) /\ t \in call[c].reserved    -> Ask(c, ReleaseOf(t), after)
    /\ UNCHANGED Ghosts

\* _replayed_attempts: the recorded attempts of a task, when all of them have
\* been settled; <<>> stands for the failure.
replayed_attempts(t) ==
    LET ks == {k \in 0..MaxRetries : <<t, k>> \in Attempted(st)}
    IN  IF \A k \in ks : <<t, k>> \in Settled(st)
        THEN [k \in 1..Cardinality(ks) |->
                AttemptResult(k - 1, EffectOf(st.settled[<<t, k - 1>>]), TRUE)]
        ELSE <<>>

\* mutant: the tasks that were replayed are submitted as well.
Mut_StartStep(c) ==
    /\ At(c, "start")
    /\ LET t      == call[c].at
           replay == replayed_attempts(t)
           after  == [call[c] EXCEPT !.at = t + 1]
       IN  IF Beyond(t)
           THEN Locally(c, [call[c] EXCEPT
                  !.pc = "wait", !.at = First, !.pending = Mine,
                  !.worker = [x \in Task |-> IF x \in Mine THEN "queued" ELSE "none"]])
           ELSE IF t \in call[c].candidates
                THEN IF replay = <<>> THEN Raise(c)
                     ELSE Locally(c, [after EXCEPT !.replayed = @ \cup {t}, !.lists[t] = replay])
                ELSE Ask(c, StartOf(t, 0), after)
    /\ UNCHANGED Ghosts

\* Replays are read, the other tasks are started, one after the other; then
\* all started tasks are submitted to the pool.
StartStep(c) ==
    /\ At(c, "start")
    /\ LET t      == call[c].at
           replay == replayed_attempts(t)
           after  == [call[c] EXCEPT !.at = t + 1]
       IN  IF Beyond(t)
           THEN LET fresh == Mine \ call[c].replayed
                IN  Locally(c, [call[c] EXCEPT
                      !.pc = IF fresh = {} THEN "reduce" ELSE "wait",
                      !.at = First,
                      !.worker = [x \in Task |-> IF x \in fresh THEN "queued" ELSE "none"],
                      !.pending = fresh])
           ELSE IF t \in call[c].candidates
                THEN IF replay = <<>> THEN Raise(c)
                     ELSE Locally(c, [after EXCEPT !.replayed = @ \cup {t}, !.lists[t] = replay])
                ELSE Ask(c, StartOf(t, 0), after)
    /\ UNCHANGED Ghosts

-----------------------------------------------------------------------------
(* The pool.  Its threads outlive the call that submitted the work.         *)

\* The peak of the calls in progress, as _ConcurrentPeak counts it.
Entered(record, n) == [record EXCEPT !.peak = IF n > @ THEN n ELSE @]

\* A thread is free and takes the oldest task.
HasThread(c, t) ==
    /\ call[c].worker[t] = "queued"
    /\ Cardinality(Running(c)) < env.workers
    /\ \A x \in Mine : call[c].worker[x] = "queued" => t <= x

BeginEffect(c, t) ==
    /\ call[c].pc \notin {"idle", "dead"}
    /\ HasThread(c, t)
    /\ call' = [call EXCEPT ![c] =
                  Entered([@ EXCEPT !.worker[t] = "running"], Cardinality(Running(c)) + 1)]
    /\ ran' = [ran EXCEPT ![<<t, 0>>] = @ + 1]
    /\ used' = [used EXCEPT ![<<t, 0>>] = FirstEnvelope(t)]
    /\ UNCHANGED <<st, env, said, told>>

\* The callable returns or raises.  It may have acknowledged a cancellation
\* that was requested, whatever it returns.
EndEffect(c, t, r) ==
    /\ t \in Running(c)
    /\ \E ack \in BOOLEAN :
         /\ ack => t \in call[c].requested
         /\ call' = [call EXCEPT ![c].worker[t] = "done", ![c].result[t] = r,
                                 ![c].acked = IF ack THEN @ \cup {t} ELSE @]
    /\ said' = [said EXCEPT ![<<t, 0>>] = r]
    /\ UNCHANGED <<st, env, ran, used, told>>

-----------------------------------------------------------------------------
(* The wait for the pool, and cancellation.                                 *)

\* wait(timeout) sorts the futures into done and pending.
WaitStep(c) ==
    /\ At(c, "wait")
    /\ LET done == {t \in call[c].pending : call[c].worker[t] = "done"}
       IN  /\ done # {} \/ call[c].cancel
           /\ Locally(c, [call[c] EXCEPT !.pc = "look", !.completed = @ \cup done,
                                         !.pending = @ \ done])
    /\ UNCHANGED Ghosts

\* The caller sets its event, at any time.
SetCancel(c) ==
    /\ call[c].pc \notin {"idle", "returned", "raised", "dead"}
    /\ env.cancels > 0 /\ ~call[c].cancel
    /\ call' = [call EXCEPT ![c].cancel = TRUE]
    /\ env' = [env EXCEPT !.cancels = @ - 1]
    /\ UNCHANGED <<st, ran, said, used, told>>

LookStep(c) ==
    /\ At(c, "look")
    /\ Locally(c, [call[c] EXCEPT
         !.pc = CASE call[c].pending = {} -> "reduce"
                  [] call[c].pending # {} /\ call[c].cancel -> "request"
                  [] OTHER -> "wait",
         !.state = IF call[c].pending # {} /\ call[c].cancel THEN "requested" ELSE @])
    /\ UNCHANGED Ghosts

\* The token of a pending task is set, then the request is recorded.
RequestStep(c) ==
    /\ At(c, "request")
    /\ \E t \in call[c].pending \ call[c].requested :
         LET all   == call[c].requested \cup {t}
             after == [call[c] EXCEPT !.requested = all,
                                      !.pc = IF call[c].pending \subseteq all THEN "grace" ELSE @]
         IN  \/ Answers(CancelOf(t)) /\ call' = [call EXCEPT ![c] = after] /\ UNCHANGED env
             \/ /\ Raises(CancelOf(t))
                /\ call' = [call EXCEPT ![c] = Left(after, "raised")]
    /\ UNCHANGED Ghosts

\* mutant: what is still pending after the grace is taken for finished.
Mut_GraceStep(c) ==
    /\ At(c, "grace")
    /\ LET done == {t \in call[c].pending : call[c].worker[t] = "done"}
       IN  Locally(c, [call[c] EXCEPT !.pc = "reduce", !.completed = @ \cup done,
                                      !.pending = {}, !.state = "acknowledged"])
    /\ UNCHANGED Ghosts

\* The grace period ends: whoever has not finished by now is unconfirmed.
GraceStep(c) ==
    /\ At(c, "grace")
    /\ LET done == {t \in call[c].pending : call[c].worker[t] = "done"}
           left == call[c].pending \ done
       IN  Locally(c, [call[c] EXCEPT
             !.pc = IF left = {} THEN "reduce" ELSE "unconfirmed",
             !.completed = @ \cup done, !.pending = left,
             !.state = IF left = {} THEN "acknowledged" ELSE @])
    /\ UNCHANGED Ghosts

\* After the last record the pool is shut down without waiting: what is
\* queued is dropped, what runs goes on.
UnconfirmedStep(c) ==
    /\ At(c, "unconfirmed")
    /\ \E t \in call[c].pending :
         LET left   == call[c].pending \ {t}
             queued == {x \in Mine : call[c].worker[x] = "queued"}
             shut   == [x \in Task |-> IF x \in queued THEN "dropped" ELSE call[c].worker[x]]
             after  == IF left = {}
                       THEN [call[c] EXCEPT !.pc = "reduce", !.pending = {}, !.worker = shut,
                                            !.state = "unconfirmed"]
                       ELSE [call[c] EXCEPT !.pending = left]
         IN  /\ t = CHOOSE x \in call[c].pending : \A y \in call[c].pending : x <= y
             /\ Ask(c, RecordOf(t, "cancel-unconfirmed", "unconfirmed", "unconfirmed", TRUE), after)
    /\ UNCHANGED Ghosts

-----------------------------------------------------------------------------
(* The reduction: task by task, in the order of the ordinals.               *)

AddAttempt(record, t, a) == [record EXCEPT !.lists[t] = Append(@, a)]

Confirmed(c, t) ==
    LET r == call[c].result[t]
    IN  r.status = "cancelled" /\ t \in call[c].acked /\ r.cancelEvidence = "ack"

\* What becomes of a result whose cancellation was not confirmed.
DoubtEvidence(r) == IF r.evidence = Null THEN "not-confirmed" ELSE r.evidence
Doubtful(r) ==
    [status |-> "effect_unknown", category |-> "external_effect_unknown",
     evidence |-> DoubtEvidence(r), cancelEvidence |-> Null, idempotency |-> "unknown",
     reconciled |-> FALSE]

ReduceStep(c) ==
    /\ At(c, "reduce")
    /\ LET t    == call[c].at
           skip == [call[c] EXCEPT !.at = t + 1]
       IN  Locally(c,
             IF Beyond(t) THEN [call[c] EXCEPT !.pc = "return"]
             ELSE IF t \in call[c].replayed THEN skip
             ELSE IF t \notin call[c].completed
                  THEN AddAttempt(skip, t, AttemptResult(0, "effect_unknown", FALSE))
             ELSE [call[c] EXCEPT !.current = call[c].result[t], !.retries = 0,
                                  !.envelope = FirstEnvelope(t),
                                  !.pc = IF t \notin call[c].requested THEN "settle"
                                         ELSE IF Confirmed(c, t) THEN "acknowledge"
                                         ELSE "doubt"])
    /\ UNCHANGED Ghosts

\* A confirmed cancellation is recorded twice: acknowledged, then cancelled.
AcknowledgeStep(c) ==
    /\ At(c, "acknowledge")
    /\ Ask(c, RecordOf(call[c].at, "cancel-acknowledged", "acknowledged", "ack", FALSE),
           [call[c] EXCEPT !.pc = "cancelled"])
    /\ UNCHANGED Ghosts

CancelledStep(c) ==
    /\ At(c, "cancelled")
    /\ Ask(c, RecordOf(call[c].at, "cancel-completed", "cancelled", "ack", FALSE),
           [call[c] EXCEPT !.pc = "settle", !.state = "cancelled"])
    /\ UNCHANGED Ghosts

\* Whatever else came back after the request leaves the effect unknown.
DoubtStep(c) ==
    /\ At(c, "doubt")
    /\ LET r == call[c].current
       IN  Ask(c, RecordOf(call[c].at, "cancel-effect-unknown", "effect_unknown",
                           DoubtEvidence(r), FALSE),
               [call[c] EXCEPT !.pc = "settle", !.current = Doubtful(r),
                               !.state = "effect_unknown"])
    /\ UNCHANGED Ghosts

SettleStep(c) ==
    /\ At(c, "settle")
    /\ LET t == call[c].at
           k == call[c].retries
           r == call[c].current
       IN  Ask(c, SettleOf(t, k, r, IF call[c].peak = 0 THEN 1 ELSE call[c].peak),
               AddAttempt([call[c] EXCEPT !.pc = "retry"], t, AttemptResult(k, r.status, TRUE)))
    /\ UNCHANGED Ghosts

\* build_durable_retry_lineage: the successor of an envelope, for attempt k.
build_durable_retry_lineage(old, t, k, payload, now, expires) ==
    Ctx!build_retry_context_envelope(old, payload, Assignment(t), "run", now, expires,
                                     <<t, k>>, <<t, k>>)

\* DurableRetryContextV1: the envelope is that of the attempt to be reserved.
MatchesLineage(new, t, k) ==
    /\ new.lineage.assignment = Assignment(t)
    /\ new.lineage.attempt = ReserveOf(t, k).lineage.attempt

\* A failure is retried when the policy admits it and the context that the
\* caller's factory returns is the fresh successor of the last one.
RetryStep(c) ==
    /\ At(c, "retry")
    /\ LET t   == call[c].at
           k   == call[c].retries + 1
           old == call[c].envelope
       IN  IF \/ call[c].current.status # "failed"
              \/ ~admit_automatic_retry(call[c].current, k - 1, env.retries, env.factory)
           THEN Locally(c, [call[c] EXCEPT !.pc = "reduce", !.at = t + 1, !.current = Null,
                                           !.envelope = Null, !.retries = 0])
           ELSE \E new \in Offer[<<t, k>>], now \in 0..2 :
                  IF /\ MatchesLineage(new, t, k)
                     /\ Ctx!validate_context_envelope(
                          new, Assignment(t), "run", new.lineage.context, new.lineage.attempt,
                          now, old.lineage.context, old.lineage.source)
                     /\ new.lineage.attempt # old.lineage.attempt
                     /\ new.lineage.context # old.lineage.context
                  THEN Locally(c, [call[c] EXCEPT !.pc = "retry_reserve", !.retries = k,
                                                  !.envelope = new])
                  ELSE Raise(c)
    /\ UNCHANGED Ghosts

RetryReserveStep(c) ==
    /\ At(c, "retry_reserve")
    /\ Ask(c, ReserveOf(call[c].at, call[c].retries), [call[c] EXCEPT !.pc = "retry_start"])
    /\ UNCHANGED Ghosts

RetryStartStep(c) ==
    /\ At(c, "retry_start")
    /\ Ask(c, StartOf(call[c].at, call[c].retries), [call[c] EXCEPT !.pc = "retry_enter"])
    /\ UNCHANGED Ghosts

\* The retry runs on the thread of execute itself, with a token that nobody
\* will ever set.
RetryEnterStep(c) ==
    /\ At(c, "retry_enter")
    /\ LET p == <<call[c].at, call[c].retries>>
       IN  /\ call' = [call EXCEPT ![c] =
                         Entered([@ EXCEPT !.pc = "retry_run"], Cardinality(Running(c)) + 1)]
           /\ ran' = [ran EXCEPT ![p] = @ + 1]
           /\ used' = [used EXCEPT ![p] = call[c].envelope]
    /\ UNCHANGED <<st, env, said, told>>

RetryEndStep(c, r) ==
    /\ At(c, "retry_run")
    /\ call' = [call EXCEPT ![c].pc = "settle", ![c].current = r]
    /\ said' = [said EXCEPT ![<<call[c].at, call[c].retries>>] = r]
    /\ UNCHANGED <<st, env, ran, used, told>>

\* The result reads the ledger once more, which may still fail.
ReturnStep(c) ==
    /\ At(c, "return")
    /\ \/ /\ Locally(c, Left(call[c], "returned"))
          /\ told' = told \cup {[task |-> t, attempts |-> call[c].lists[t]] : t \in Mine}
       \/ /\ env.faults > 0
          /\ env' = [env EXCEPT !.faults = @ - 1]
          /\ call' = [call EXCEPT ![c] = Left(@, "raised")]
          /\ UNCHANGED <<st, told>>
    /\ UNCHANGED <<ran, said, used>>

\* The process dies with its threads.
Crash(c) ==
    /\ env.crashes > 0
    /\ call[c].pc \notin {"idle", "dead"}
    /\ env' = [env EXCEPT !.crashes = @ - 1]
    /\ call' = [call EXCEPT ![c] = [Fresh EXCEPT !.pc = "dead"]]
    /\ UNCHANGED <<st, ran, said, used, told>>

-----------------------------------------------------------------------------
Execute(c) ==
    \/ ReserveStep(c) \/ ReleaseStep(c) \/ StartStep(c)
    \/ WaitStep(c) \/ LookStep(c) \/ RequestStep(c) \/ GraceStep(c) \/ UnconfirmedStep(c)
    \/ ReduceStep(c) \/ AcknowledgeStep(c) \/ CancelledStep(c) \/ DoubtStep(c) \/ SettleStep(c)
    \/ RetryStep(c) \/ RetryReserveStep(c) \/ RetryStartStep(c) \/ RetryEnterStep(c)
    \/ ReturnStep(c)

RetryEnds(c) == \E r \in Outcome : RetryEndStep(c, r)

Next ==
    \E c \in Caller :
      \/ Begin(c) \/ Execute(c) \/ RetryEnds(c) \/ SetCancel(c) \/ Crash(c)
      \/ \E t \in Mine : BeginEffect(c, t)
      \/ \E t \in Mine, r \in Outcome : EndEffect(c, t, r)

Spec == Init /\ [][Next]_vars

-----------------------------------------------------------------------------
(* Properties.                                                              *)

\* The attempts whose callable is running now, on a pool or inline.
InProgress(c) ==
    {<<t, 0>> : t \in Running(c)} \cup
    (IF At(c, "retry_run") THEN {<<call[c].at, call[c].retries>>} ELSE {})

\* Every callable that runs is covered by its own started permit, which nobody
\* has settled or released, and all processes together never run more of them
\* than the policy has slots: across calls that raised or returned with
\* their threads still running, calls of other processes, and retries.
WorkIsCovered ==
    /\ \A c \in Caller : \A p \in InProgress(c) : st.permit[p] = "started"
    /\ Cardinality(UNION {{<<c, p>> : p \in InProgress(c)} : c \in Caller}) <= st.policy.slots

\* The callable of an attempt is entered at most once, whoever executes,
\* replays or repeats the tasks after a crash, a lost answer or a failure
\* (reserve before start, _replayed_attempts).
AttemptsRunOnce == \A p \in Permit : ran[p] <= 1

\* A retry is entered only when the attempt before it really returned a
\* transient failure of an effect that may be repeated, and was settled as
\* that; it runs on a context of its own which descends from that attempt's
\* and carries no credential (admit_automatic_retry, validate_context_envelope).
RetriesAreSafe ==
    \A t \in Task, k \in 1..MaxRetries :
      LET p == <<t, k>>
          q == <<t, k - 1>>
      IN  ran[p] > 0 =>
            /\ said[q] # Null
            /\ said[q].status = "failed" /\ said[q].category \in Transient
            /\ said[q].idempotency = "idempotent" \/ said[q].reconciled
            /\ st.settled[q] = "failed"
            /\ used[p].lineage.parent = used[q].lineage.context
            /\ used[p].lineage.source = used[q].lineage.source
            /\ \A j \in 0..(k - 1) : used[<<t, j>>].lineage.context # used[p].lineage.context
            /\ ~used[p].payload.secret

\* What execute returns of an attempt is what happened to it: a success was
\* returned by its callable and no cancellation was ever requested; a
\* cancellation was confirmed, or the attempt never began; an attempt without
\* a settlement still holds its permit behind a latched failure
\* (_settle_result, the reduction of execute).
RecordsAreTrue ==
    \A record \in told : \A i \in DOMAIN record.attempts :
      LET a == record.attempts[i]
          p == <<record.task, a.index>>
      IN  /\ a.status = "succeeded" =>
               said[p].status = "succeeded" /\ st.cancel[p].state = "not_requested"
          /\ a.status = "cancelled" =>
               \/ ran[p] = 0 /\ st.settled[p] = "released_no_effect"
               \/ said[p].status = "cancelled"
          /\ a.settled => p \in Settled(st)
          /\ ~a.settled => p \in Active(st) /\ st.latch # Null
=============================================================================

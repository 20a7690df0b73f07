----------------------------- MODULE IsolatedJob -----------------------------
(***************************************************************************)
(* isolated_jobs/: one execution of an approved helper process.            *)
(* Controllers call IsolatedJobCoordinator.execute on the same request and *)
(* operators call recover_after_restart and reconcile.  They share two     *)
(* stores that no transaction spans, the job's state (isolated_jobs/       *)
(* store.py) and the budget run that holds its permit (BudgetState), and   *)
(* an approval that may lapse at any time.  Every call to a store or to    *)
(* Windows is a step of its own.  A call of a store may fail with or       *)
(* without having taken effect; a process may die between any two steps,   *)
(* and Windows then ends its child (KILL_ON_JOB_CLOSE).                    *)
(*                                                                         *)
(* A process identity is named by the controller that started it.          *)
(***************************************************************************)
EXTENDS BudgetState

CONSTANTS
    Controller,          \* processes that call execute
    Operator,            \* processes that call recover_after_restart or reconcile
    JobPermit,           \* the budget permit that the request names
    JobPolicy,           \* the policy of the budget run
    Runtime,             \* the active runtime that the job reserves
    Environment          \* what may happen around the calls, in one behaviour

\* faults: how many more calls may fail; elapsed: active runtime that may pass
\* before a budget call; stops: where the end of the process tree may stay
\* unconfirmed; concurrent: an operator may act while a controller is alive.
Surroundings ==
    [faults : Nat, elapsed : SUBSET Nat, stops : SUBSET {"wait", "resume", "exit"},
     concurrent : BOOLEAN]

ASSUME JobAssumption ==
    /\ JobPermit \in Permit
    /\ JobPolicy \in Policy
    /\ Runtime \in Nat
    /\ Environment \subseteq Surroundings
    /\ Controller \cap Operator = {}
    /\ Null \notin Controller

VARIABLES
    job,       \* the current DurableIsolatedJobStateV1, or Null
    budget,    \* the current DurableBudgetStateV1
    approval,  \* of the action: granted, expired or revoked
    proc,      \* what each process remembers, and where it is
    alive,     \* the controllers whose child process exists
    ran,       \* the controllers whose child was ever resumed
    env        \* a member of Environment, with the faults that are left

vars == <<job, budget, approval, proc, alive, ran, env>>

-----------------------------------------------------------------------------
(* The durable job state.                                                   *)

TerminalStatus == {"cancelled", "reconciled", "completed", "failed"}

\* _ALLOWED_TRANSITIONS
AllowedTransitions ==
    [prepared         |-> {"launch_committed", "failed", "effect_unknown"},
     launch_committed |-> {"running", "cancel_requested", "failed", "effect_unknown"},
     running          |-> {"cancel_requested", "cancelled", "completed", "failed",
                           "effect_unknown"},
     cancel_requested |-> {"cancelled", "effect_unknown"},
     effect_unknown   |-> {"reconciled"},
     cancelled        |-> {},
     reconciled       |-> {},
     completed        |-> {},
     failed           |-> {}]

Status == DOMAIN AllowedTransitions

\* JobEvidenceV1: whose process, whether its tree may still be active, whether
\* the executable was rechecked, the output complete and fit to be stored, and
\* why the process was stopped.
JobEvidence ==
    [of : Controller, active : BOOLEAN, identity : BOOLEAN, complete : BOOLEAN,
     clean : BOOLEAN, reason : {Null, "cancelled", "failed", "effect_unknown"}]

\* refused: the last event's reason is effect_admission_refused_no_effect.
JobState ==
    [status : Status, process : Controller \cup {Null}, recheck : BOOLEAN,
     evidence : JobEvidence \cup {Null}, refused : BOOLEAN]

\* A state of the job is a state.
ASSUME StateAssumption ==
    Null \notin JobState /\ Null \notin {"cancelled", "failed", "effect_unknown"}

TreeClosed(e) == e # Null /\ ~e.active /\ e.identity

\* exact_state_matrix
ValidState(j) ==
    /\ j.status \in {"prepared", "launch_committed"} => ~j.recheck
    /\ j.status \in {"running", "cancel_requested", "cancelled", "completed"} => j.recheck
    /\ j.status \in {"launch_committed", "running", "cancel_requested", "cancelled",
                     "completed"} => j.process # Null
    /\ j.status = "prepared" => j.process = Null
    /\ j.evidence # Null => j.process # Null /\ j.evidence.of = j.process
    /\ j.status = "completed" =>
         TreeClosed(j.evidence) /\ j.evidence.complete /\ j.evidence.reason = Null
    /\ j.status = "cancelled" => TreeClosed(j.evidence) /\ j.evidence.reason = "cancelled"
    /\ j.status = "failed" /\ j.process # Null => TreeClosed(j.evidence)
    /\ j.status = "failed" /\ j.refused => j.evidence # Null /\ j.evidence.complete

\* _validate_successor
ValidTransition(old, new) ==
    /\ new.status \in AllowedTransitions[old.status]
    /\ \/ new.process = old.process
       \/ old.process = Null /\ old.status = "prepared" /\ new.status = "launch_committed"
    /\ old.recheck => new.recheck
    /\ new.recheck /\ ~old.recheck =>
         /\ old.status = "launch_committed" /\ old.process # Null
         /\ new.status \in {"running", "effect_unknown"}
    /\ old.evidence # Null => new.evidence = old.evidence
    /\ new.evidence # Null /\ old.evidence = Null =>
         new.status \in {"cancelled", "completed", "failed", "effect_unknown"}

\* The successor that transition builds: what is not given is carried over.
Successor(status) == [job EXCEPT !.status = status, !.refused = FALSE]
WithEvidence(j, e) == [j EXCEPT !.evidence = e]

\* _publish also refuses an output that is not text or has the shape of a secret.
Publishable(new) ==
    /\ ValidTransition(job, new) /\ ValidState(new)
    /\ new.evidence # job.evidence => new.evidence.clean

-----------------------------------------------------------------------------
(* The steps of a process.                                                  *)

Process == Controller \cup Operator

\* identity: verify_identity_before_admission passed; possible:
\* resume_effect_possible; evidence and cancelled: what stopping the child or
\* waiting for it gave; then: where an ambiguous settlement returns to; digest:
\* the evidence it cites; tries: calls of _settle_outcome; seen and mark: the
\* status that a recovery loaded, and the faults left at that time.
Fresh ==
    [pc |-> "idle", identity |-> FALSE, possible |-> FALSE, evidence |-> Null,
     cancelled |-> FALSE, then |-> "done", digest |-> "outcome", tries |-> 0,
     seen |-> "prepared", mark |-> 0]

At(p, pc) == proc[p].pc = pc
Goto(p, pc) == proc' = [proc EXCEPT ![p].pc = pc]

Fault == env.faults > 0 /\ env' = [env EXCEPT !.faults = @ - 1]

\* One call of IsolatedJobStore.transition: a refusal changes nothing; a fault
\* may leave the new state behind.
Transit(p, new, ok, err) ==
    /\ \/ /\ Publishable(new)
          /\ job' = new /\ Goto(p, ok) /\ UNCHANGED env
       \/ /\ ~Publishable(new)
          /\ Goto(p, err) /\ UNCHANGED <<job, env>>
       \/ /\ Fault
          /\ job' \in {job} \cup {j \in {new} : Publishable(j)}
          /\ Goto(p, err)
    /\ UNCHANGED <<budget, approval, alive, ran>>

\* One call of a DurableBudgetStore operation: an exact repetition answers with
\* the recorded result, and a fault may leave the operation behind.
Accepts(q, el) ==
    /\ ~Recorded(budget, q.id)
    /\ Admits(budget, q, el)
    /\ ValidSnapshot(Apply(budget, q, el))

BudgetCall(p, q, ok, err) ==
    /\ \E el \in env.elapsed :
         \/ /\ RecordedExactly(budget, q)
            /\ Goto(p, ok) /\ UNCHANGED <<budget, env>>
         \/ /\ Accepts(q, el)
            /\ budget' = Apply(budget, q, el) /\ Goto(p, ok) /\ UNCHANGED env
         \/ /\ ~RecordedExactly(budget, q) /\ ~Accepts(q, el)
            /\ Goto(p, err) /\ UNCHANGED <<budget, env>>
         \/ /\ Fault
            /\ budget' \in {budget} \cup {Apply(budget, x, el) : x \in {y \in {q} : Accepts(y, el)}}
            /\ Goto(p, err)
    /\ UNCHANGED <<job, approval, alive, ran>>

\* A step that only moves the process.
Moves(p, pc) == Goto(p, pc) /\ UNCHANGED <<job, budget, approval, alive, ran, env>>

PermitStatus == budget.permit[JobPermit]
Cancellation == budget.cancel[JobPermit]

-----------------------------------------------------------------------------
(* The budget operations of the coordinator, with their operation ids.      *)

Used == [r \in Resource |-> 1]

InitializeBudget == [id |-> "initialize", kind |-> "initialize", policy |-> JobPolicy]
ReservePermit ==
    [id |-> "reserve", kind |-> "reserve", permit |-> JobPermit, amount |-> Used,
     runtime |-> Runtime, class |-> "local_free", binding |-> JobPolicy,
     lineage |-> [attempt |-> 1, parent |-> Null, root |-> 1, ordinal |-> 0]]
StartPermit == [id |-> "start", kind |-> "start", permit |-> JobPermit]
ReleasePermit(digest) ==
    [id |-> "release", kind |-> "release", permit |-> JobPermit, evidence |-> digest]
SettlePermit(id, status, digest, cancelDigest, category) ==
    [id |-> id, kind |-> "settle", permit |-> JobPermit, actual |-> Used, status |-> status,
     evidence |-> digest, cancelEvidence |-> cancelDigest, category |-> category,
     authenticated |-> FALSE, peak |-> 1]
RequestCancellation == [id |-> "cancel-request", kind |-> "request_cancel", permit |-> JobPermit]
RecordCancellation(id, state, digest, live) ==
    [id |-> id, kind |-> "record_cancel", permit |-> JobPermit, state |-> state,
     evidence |-> digest, live |-> live]

Stage == {"create", "prepare", "commit", "no_effect", "resume", "exit", "outcome"} \cup Status

ReleaseRequest == {ReleasePermit(d) : d \in Stage}
SettleRequest ==
    {SettlePermit("settle", "succeeded", "outcome", Null, Null),
     SettlePermit("settle", "failed", "outcome", Null, "tool"),
     SettlePermit("settle", "cancelled", "outcome", "outcome", "cancel"),
     SettlePermit("settle", "effect_unknown", "outcome", Null, "external"),
     SettlePermit("settle-known-no-effect", "failed", "no_effect", Null, "policy")}
DoubtRequest ==
    {SettlePermit(id, "effect_unknown", d, Null, "external") :
       id \in {"settle-resume-unknown", "settle-unknown"}, d \in Stage}
CancelledRequest == {SettlePermit("settle-cancel-recovery", "cancelled", d, d, "cancel") : d \in Stage}
ConfirmRequest == {RecordCancellation("cancel-confirm", "cancelled", d, FALSE) : d \in Stage}
UnknownRequest ==
    {RecordCancellation("cancel-unknown", "effect_unknown", d, l) : d \in Stage, l \in BOOLEAN}
ClosedRequest ==
    {RecordCancellation("cancel-unknown-closed", "effect_unknown", d, FALSE) : d \in Stage}

BudgetRequest ==
    {InitializeBudget, ReservePermit, StartPermit, RequestCancellation,
     RecordCancellation("cancel-ack", "acknowledged", "outcome", FALSE)}
    \cup ReleaseRequest \cup SettleRequest \cup DoubtRequest \cup CancelledRequest
    \cup ConfirmRequest \cup UnknownRequest \cup ClosedRequest

\* What the requests carry has its type.
ASSUME BudgetRequestAssumption == BudgetRequest \subseteq Request

\* _close_cancellation_as_effect_unknown
CloseCancellation(p, digest, live, ok, err) ==
    \/ /\ Cancellation.state \in {"requested", "unconfirmed"}
       /\ BudgetCall(p, RecordCancellation("cancel-unknown", "effect_unknown", digest, live),
                     ok, err)
    \/ /\ Cancellation.state = "effect_unknown" /\ Cancellation.live /\ ~live
       /\ BudgetCall(p, RecordCancellation("cancel-unknown-closed", "effect_unknown",
                                           Cancellation.evidence, FALSE), ok, err)
    \/ /\ \/ Cancellation.state \in {"not_requested", "acknowledged", "cancelled"}
          \/ Cancellation.state = "effect_unknown" /\ (live \/ ~Cancellation.live)
       /\ Moves(p, ok)

-----------------------------------------------------------------------------
(* execute, up to the child that is created suspended.                      *)

\* A run that exists is answered with its result or with run_locked.
Check(c) ==
    /\ At(c, "idle")
    /\ Moves(c, IF job = Null THEN "approve" ELSE "done")

VerifyApproval(c) ==
    /\ At(c, "approve")
    /\ Moves(c, IF approval = "granted" THEN "reserve" ELSE "done")

ReserveBudget(c) ==
    /\ At(c, "reserve")
    /\ BudgetCall(c, ReservePermit, "create", "done")

\* IsolatedJobStore.create
Create(c) ==
    LET new == [status |-> "prepared", process |-> Null, recheck |-> FALSE,
                evidence |-> Null, refused |-> FALSE]
    IN  /\ At(c, "create")
        /\ \/ job = Null /\ job' = new /\ Goto(c, "prepare") /\ UNCHANGED env
           \/ job # Null /\ Goto(c, "done") /\ UNCHANGED <<job, env>>
           \/ /\ Fault
              /\ job' \in IF job = Null THEN {Null, new} ELSE {job}
              /\ Goto(c, "create_failed")
        /\ UNCHANGED <<budget, approval, alive, ran>>

\* A failed create is reloaded; only if nothing can be loaded is the permit given back.
ReloadAfterCreate(c) ==
    /\ At(c, "create_failed")
    /\ \/ job # Null /\ Moves(c, "done")
       \/ job = Null /\ Moves(c, "abandon")
       \/ Fault /\ Goto(c, "abandon") /\ UNCHANGED <<job, budget, approval, alive, ran>>

Abandon(c) ==
    /\ At(c, "abandon")
    /\ BudgetCall(c, ReleasePermit("create"), "done", "done")

PrepareChild(c) ==
    /\ At(c, "prepare")
    /\ alive' = alive \cup {c}
    /\ Goto(c, "commit")
    /\ UNCHANGED <<job, budget, approval, ran, env>>

PrepareFails(c) ==
    /\ At(c, "prepare")
    /\ Fault /\ Goto(c, "refuse")
    /\ UNCHANGED <<job, budget, approval, alive, ran>>

ReleaseRefused(c) ==
    /\ At(c, "refuse")
    /\ BudgetCall(c, ReleasePermit("prepare"), "refuse_job", "fallback")

FailRefused(c) ==
    /\ At(c, "refuse_job")
    /\ Transit(c, Successor("failed"), "done", "fallback")

\* The second attempt to publish, whose failure is suppressed.
Fallback(c) ==
    /\ At(c, "fallback")
    /\ Transit(c, Successor("effect_unknown"), "done", "done")

-----------------------------------------------------------------------------
(* The launch: committed, admitted, resumed.                                *)

\* Evidence of a child that terminate_before_resume stopped.
StopEvidence(c, active, complete) ==
    [of |-> c, active |-> active, identity |-> proc[c].identity,
     complete |-> complete /\ ~active, clean |-> TRUE, reason |-> "failed"]

\* mutant: a failure to publish the process identity is ignored.
Mut_CommitLaunch(c) ==
    /\ At(c, "commit")
    /\ Transit(c, [Successor("launch_committed") EXCEPT !.process = c], "admit", "admit")

CommitLaunch(c) ==
    /\ At(c, "commit")
    /\ Transit(c, [Successor("launch_committed") EXCEPT !.process = c], "admit", "unlaunch")

\* The stop of a child that was not resumed; closing the job's last handle ends
\* what TerminateJobObject did not.
Unlaunch(c) ==
    /\ At(c, "unlaunch")
    /\ alive' = alive \ {c}
    /\ Goto(c, "unlaunch_release")
    /\ UNCHANGED <<job, budget, approval, ran, env>>

ReleaseUnlaunched(c) ==
    /\ At(c, "unlaunch_release")
    /\ BudgetCall(c, ReleasePermit("commit"), "unlaunch_fail", "unlaunch_unknown")

FailUnlaunched(c) ==
    /\ At(c, "unlaunch_fail")
    /\ Transit(c, Successor("failed"), "done", "fallback")

UnknownUnlaunched(c) ==
    /\ At(c, "unlaunch_unknown")
    /\ Transit(c, Successor("effect_unknown"), "done", "fallback")

\* The identity of the executable, then the approval once more.
AdmitEffect(c) ==
    /\ At(c, "admit")
    /\ \/ /\ Fault
          /\ Goto(c, "stop")
       \/ /\ UNCHANGED env
          /\ proc' = [proc EXCEPT ![c].identity = TRUE,
                                  ![c].pc = IF approval = "granted" THEN "start" ELSE "stop"]
    /\ UNCHANGED <<job, budget, approval, alive, ran>>

\* mutant: a refused start does not stop the launch.
Mut_StartBudget(c) ==
    /\ At(c, "start")
    /\ BudgetCall(c, StartPermit, "resume", "resume")

StartBudget(c) ==
    /\ At(c, "start")
    /\ BudgetCall(c, StartPermit, "resume", "stop")

\* resume: readers, identity and expiry, then ResumeThread, whose failure says
\* nothing about the child.
Resume(c) ==
    /\ At(c, "resume")
    /\ \/ /\ approval # "expired"
          /\ ran' = ran \cup {c}
          /\ proc' = [proc EXCEPT ![c].possible = TRUE, ![c].pc = "publish"]
          /\ UNCHANGED env
       \/ /\ approval # "expired"
          /\ Fault
          /\ ran' \in {ran, ran \cup {c}}
          /\ proc' = [proc EXCEPT ![c].possible = TRUE, ![c].pc = "stop"]
       \/ /\ (approval = "expired" /\ UNCHANGED env) \/ Fault
          /\ proc' = [proc EXCEPT ![c].pc = "stop"]
          /\ UNCHANGED ran
    /\ UNCHANGED <<job, budget, approval, alive>>

PublishRunning(c) ==
    /\ At(c, "publish")
    /\ Transit(c, [Successor("running") EXCEPT !.recheck = TRUE], "wait",  "stop")

\* The stop after a refused admission or an uncertain resume.
Stop(c) ==
    /\ At(c, "stop")
    /\ \E active, complete \in BOOLEAN :
         LET e == StopEvidence(c, active, complete)
         IN  /\ active => "resume" \in env.stops /\ c \in alive
             /\ alive' = IF active THEN alive ELSE alive \ {c}
             /\ IF proc[c].possible
                THEN proc' = [proc EXCEPT ![c].pc = "ambiguous", ![c].then = "resume_unknown",
                                          ![c].digest = "resume"]
                ELSE proc' = [proc EXCEPT ![c].evidence = e,
                                          ![c].pc = IF TreeClosed(e) /\ e.complete
                                                    THEN "no_effect" ELSE "admission_unknown"]
    /\ UNCHANGED <<job, budget, approval, ran, env>>

\* _close_known_no_effect
CloseNoEffect(c) ==
    /\ At(c, "no_effect")
    /\ \/ /\ PermitStatus = "none"
          /\ Moves(c, IF budget.settled[JobPermit] \in {"failed", "released_no_effect"}
                      THEN "no_effect_job" ELSE "admission_unknown")
       \/ /\ PermitStatus = "reserved"
          /\ BudgetCall(c, ReleasePermit("no_effect"), "no_effect_job", "admission_unknown")
       \/ /\ PermitStatus = "started"
          /\ BudgetCall(c, SettlePermit("settle-known-no-effect", "failed", "no_effect", Null,
                                        "policy"), "no_effect_job", "admission_unknown")

FailNoEffect(c) ==
    /\ At(c, "no_effect_job")
    /\ Transit(c, [WithEvidence(Successor("failed"), proc[c].evidence) EXCEPT !.refused = TRUE],
               "done", "fallback")

AdmissionUnknown(c) ==
    /\ At(c, "admission_unknown")
    /\ Transit(c, Successor("effect_unknown"), "done", "fallback")

-----------------------------------------------------------------------------
(* _settle_ambiguous_resume, whose budget errors are suppressed.            *)

StillLive(c) == proc[c].then = "unsettled" /\ proc[c].evidence.active

CloseAmbiguous(c) ==
    /\ At(c, "ambiguous")
    /\ \/ PermitStatus = "none" /\ Moves(c, proc[c].then)
       \/ /\ PermitStatus = "reserved"
          /\ BudgetCall(c, ReleasePermit(proc[c].digest), proc[c].then, proc[c].then)
       \/ /\ PermitStatus = "started"
          /\ CloseCancellation(c, proc[c].digest, StillLive(c),
                               IF StillLive(c) THEN proc[c].then ELSE "ambiguous_settle",
                               proc[c].then)

SettleAmbiguous(c) ==
    /\ At(c, "ambiguous_settle")
    /\ BudgetCall(c, SettlePermit("settle-resume-unknown", "effect_unknown", proc[c].digest, Null,
                                  "external"), proc[c].then, proc[c].then)

ResumeUnknown(c) ==
    /\ At(c, "resume_unknown")
    /\ Transit(c, [Successor("effect_unknown") EXCEPT !.recheck = TRUE], "done", "done")

-----------------------------------------------------------------------------
(* wait: the child ends, is stopped, is cancelled, or the controller leaves.*)

Outcome(c, e, cancelled) ==
    proc' = [proc EXCEPT ![c].evidence = e, ![c].cancelled = cancelled, ![c].pc = "settle",
                         ![c].tries = 1]

\* The evidence of a tree that is gone, with whatever the output turned out to be.
Closed(c, reasons) ==
    {e \in JobEvidence : e.of = c /\ ~e.active /\ e.identity /\ e.reason \in reasons}
Unclosed(c) ==
    {e \in JobEvidence : e.of = c /\ e.active /\ e.identity /\ ~e.complete
                         /\ e.reason = "effect_unknown"}

\* A child that ended by itself, or was stopped at a limit or on an error.
WaitEnds(c) ==
    /\ At(c, "wait")
    /\ \/ /\ c \notin alive
          /\ \E e \in Closed(c, {Null, "failed", "effect_unknown"}) : Outcome(c, e, FALSE)
          /\ UNCHANGED alive
       \/ /\ c \in alive
          /\ \E e \in Closed(c, {"failed", "effect_unknown"}) : Outcome(c, e, FALSE)
          /\ alive' = alive \ {c}
       \/ /\ c \in alive /\ "wait" \in env.stops
          /\ \E e \in Unclosed(c) : Outcome(c, e, FALSE)
          /\ UNCHANGED alive
    /\ UNCHANGED <<job, budget, approval, ran, env>>

CancelWanted(c) ==
    /\ At(c, "wait") /\ c \in alive
    /\ Moves(c, "cancel_job")

\* on_cancel_requested
CancelJob(c) ==
    /\ At(c, "cancel_job")
    /\ Transit(c, Successor("cancel_requested"), "cancel_budget", "cancel_failed")

CancelBudget(c) ==
    /\ At(c, "cancel_budget")
    /\ BudgetCall(c, RequestCancellation, "cancel_stop", "cancel_failed")

\* The stop after the callback; the state of the output may override its reason.
CancelStop(c) ==
    /\ proc[c].pc \in {"cancel_stop", "cancel_failed"}
    /\ \/ /\ \E e \in Closed(c, IF At(c, "cancel_stop") THEN {"cancelled", "failed", "effect_unknown"}
                                ELSE {"failed", "effect_unknown"}) :
               Outcome(c, e, At(c, "cancel_stop"))
          /\ alive' = alive \ {c}
       \/ /\ c \in alive /\ "wait" \in env.stops
          /\ \E e \in Unclosed(c) : Outcome(c, e, FALSE)
          /\ UNCHANGED alive
    /\ UNCHANGED <<job, budget, approval, ran, env>>

\* A BaseException in the wait or in the callback.
WaitInterrupted(c) ==
    /\ proc[c].pc \in {"wait", "cancel_job", "cancel_budget"}
    /\ Fault
    /\ proc' = [proc EXCEPT ![c].pc = "ambiguous", ![c].then = "exit_unknown",
                            ![c].digest = "exit"]
    /\ \/ alive' = alive \ {c}
       \/ "exit" \in env.stops /\ UNCHANGED alive
    /\ UNCHANGED <<job, budget, approval, ran>>

ExitUnknown(c) ==
    /\ At(c, "exit_unknown")
    /\ Transit(c, Successor("effect_unknown"), "done", "done")

-----------------------------------------------------------------------------
(* _settle_outcome, tried twice, and the last state of the job.             *)

\* What a failed budget call leads to.
RetryPc(c) == IF proc[c].tries = 1 THEN "settle_again" ELSE "settle_lost"

SettleAgain(c) ==
    /\ At(c, "settle_again")
    /\ proc' = [proc EXCEPT ![c].pc = "settle", ![c].tries = @ + 1]
    /\ UNCHANGED <<job, budget, approval, alive, ran, env>>

SettleLost(c) ==
    /\ At(c, "settle_lost")
    /\ proc' = [proc EXCEPT ![c].pc = "ambiguous", ![c].then = "unsettled",
                            ![c].digest = "outcome"]
    /\ UNCHANGED <<job, budget, approval, alive, ran, env>>

TreeGone(c) == ~proc[c].evidence.active

\* The tree may be alive: the permit stays open.
SettleUnclosed(c) ==
    /\ At(c, "settle") /\ ~TreeGone(c)
    /\ CloseCancellation(c, "outcome", TRUE, "final", RetryPc(c))

\* _record_budget_cancellation: acknowledged, then cancelled, then settled.
SettleCancelled(c) ==
    /\ At(c, "settle") /\ TreeGone(c) /\ proc[c].cancelled
    /\ \/ /\ Cancellation.state = "requested"
          /\ BudgetCall(c, RecordCancellation("cancel-ack", "acknowledged", "outcome", FALSE),
                        "settle", RetryPc(c))
       \/ /\ Cancellation.state = "acknowledged"
          /\ BudgetCall(c, RecordCancellation("cancel-confirm", "cancelled", Cancellation.evidence,
                                              FALSE), "settle", RetryPc(c))
       \/ /\ Cancellation.state = "cancelled"
          /\ BudgetCall(c, SettlePermit("settle", "cancelled", "outcome", "outcome", "cancel"),
                        "final", RetryPc(c))
       \/ /\ Cancellation.state \in {"not_requested", "unconfirmed", "effect_unknown"}
          /\ CloseCancellation(c, "outcome", FALSE, "settle_unknown", RetryPc(c))

SettleKnown(c) ==
    /\ At(c, "settle") /\ TreeGone(c) /\ ~proc[c].cancelled
    /\ \/ /\ proc[c].evidence.reason = "effect_unknown"
          /\ CloseCancellation(c, "outcome", FALSE, "settle_unknown", RetryPc(c))
       \/ /\ proc[c].evidence.reason = Null
          /\ BudgetCall(c, SettlePermit("settle", "succeeded", "outcome", Null, Null),
                        "final", RetryPc(c))
       \/ /\ proc[c].evidence.reason \in {"failed", "cancelled"}
          /\ BudgetCall(c, SettlePermit("settle", "failed", "outcome", Null, "tool"),
                        "final", RetryPc(c))

SettleUnknown(c) ==
    /\ At(c, "settle_unknown")
    /\ BudgetCall(c, SettlePermit("settle", "effect_unknown", "outcome", Null, "external"),
                  "final", RetryPc(c))

\* The status that _settle_outcome returns; a settlement is never revised.
FinalStatus(c) ==
    LET e == proc[c].evidence
        settled == budget.settled[JobPermit]
    IN  IF ~TreeGone(c) THEN "effect_unknown"
        ELSE IF proc[c].cancelled
        THEN IF settled = "cancelled" THEN "cancelled" ELSE "effect_unknown"
        ELSE IF e.reason = "effect_unknown" THEN "effect_unknown"
        ELSE IF e.reason = Null /\ settled = "succeeded" THEN "completed" ELSE "failed"

Finish(c) ==
    /\ At(c, "final")
    /\ Transit(c, WithEvidence(Successor(FinalStatus(c)), proc[c].evidence), "done", "final_unknown")

\* The terminal state could not be published, or the outcome not be settled.
FinishUnknown(c) ==
    /\ proc[c].pc \in {"final_unknown", "unsettled"}
    /\ Transit(c, WithEvidence(Successor("effect_unknown"), proc[c].evidence), "done", "done")

-----------------------------------------------------------------------------
(* recover_after_restart and reconcile.                                     *)

\* The controllers between their first step and their last.
Busy == {c \in Controller : proc[c].pc \notin {"idle", "done", "crashed"}}

\* The recorded process is absent, or its id belongs to another one.
ProcessGone == job.process = Null \/ job.process \notin alive

\* mutant: a live process does not stop a recovery.
Mut_LoadForRecovery(o) ==
    /\ At(o, "idle") /\ (env.concurrent \/ Busy = {})
    /\ job # Null /\ job.status \notin TerminalStatus
    /\ proc' = [proc EXCEPT ![o].pc = "recover", ![o].seen = job.status, ![o].mark = env.faults]
    /\ UNCHANGED <<job, budget, approval, alive, ran, env>>

LoadForRecovery(o) ==
    /\ At(o, "idle") /\ (env.concurrent \/ Busy = {})
    /\ job # Null /\ job.status \notin TerminalStatus
    /\ ProcessGone
    /\ proc' = [proc EXCEPT ![o].pc = "recover", ![o].seen = job.status, ![o].mark = env.faults]
    /\ UNCHANGED <<job, budget, approval, alive, ran, env>>

\* mutant: a recorded acknowledgement is settled as an unknown effect.
Mut_RecoverBudget(o) ==
    /\ At(o, "recover")
    /\ \/ PermitStatus = "none" /\ Moves(o, "recover_job")
       \/ /\ PermitStatus = "reserved"
          /\ BudgetCall(o, ReleasePermit(proc[o].seen), "recover_job", "recover_job")
       \/ /\ PermitStatus = "started"
          /\ CloseCancellation(o, proc[o].seen, FALSE, "recover_settle", "recover_job")

\* _recover_nonterminal: its budget errors are suppressed.
RecoverBudget(o) ==
    /\ At(o, "recover")
    /\ \/ PermitStatus = "none" /\ Moves(o, "recover_job")
       \/ /\ PermitStatus = "reserved"
          /\ BudgetCall(o, ReleasePermit(proc[o].seen), "recover_job", "recover_job")
       \/ /\ PermitStatus = "started" /\ Cancellation.state = "acknowledged"
          /\ BudgetCall(o, RecordCancellation("cancel-confirm", "cancelled", Cancellation.evidence,
                                              FALSE), "recover_cancel", "recover_job")
       \/ /\ PermitStatus = "started" /\ Cancellation.state = "cancelled"
          /\ Moves(o, "recover_cancel")
       \/ /\ PermitStatus = "started" /\ Cancellation.state \notin {"acknowledged", "cancelled"}
          /\ CloseCancellation(o, proc[o].seen, FALSE, "recover_settle", "recover_job")

RecoverSettle(o) ==
    \/ /\ At(o, "recover_cancel")
       /\ BudgetCall(o, SettlePermit("settle-cancel-recovery", "cancelled", Cancellation.evidence,
                                     Cancellation.evidence, "cancel"), "recover_job", "recover_job")
    \/ /\ At(o, "recover_settle")
       /\ BudgetCall(o, SettlePermit("settle-unknown", "effect_unknown", proc[o].seen, Null,
                                     "external"), "recover_job", "recover_job")

RecoverJob(o) ==
    /\ At(o, "recover_job")
    /\ \/ proc[o].seen = "effect_unknown" /\ Moves(o, "recovered")
       \/ /\ proc[o].seen # "effect_unknown"
          /\ Transit(o, Successor("effect_unknown"), "recovered", "recovery_failed")

\* mutant: the permit may still be active.
Mut_CheckForReconcile(o) ==
    /\ At(o, "idle") /\ (env.concurrent \/ Busy = {})
    /\ job # Null /\ job.status = "effect_unknown" /\ ProcessGone
    /\ Moves(o, "reconcile")

\* reconcile: the process is gone and the permit is settled.
CheckForReconcile(o) ==
    /\ At(o, "idle") /\ (env.concurrent \/ Busy = {})
    /\ job # Null /\ job.status = "effect_unknown" /\ ProcessGone
    /\ PermitStatus = "none" /\ budget.settled[JobPermit] # "none"
    /\ Moves(o, "reconcile")

Reconcile(o) ==
    /\ At(o, "reconcile")
    /\ Transit(o, Successor("reconciled"), "answered", "answered")

\* An operator's call ends, normally or because its process dies.
OperatorEnds(o) ==
    /\ ~At(o, "idle")
    /\ proc' = [proc EXCEPT ![o] = Fresh]
    /\ UNCHANGED <<job, budget, approval, alive, ran, env>>

-----------------------------------------------------------------------------
(* The environment.                                                         *)

\* The controller process dies.
Crash(c) == c \in Busy /\ Moves(c, "crashed")

\* The places where a controller holds the handle of the job object.
Holding == {"commit", "unlaunch", "admit", "start", "resume", "publish", "stop", "wait",
            "cancel_job", "cancel_budget", "cancel_stop", "cancel_failed"}

\* A resumed child ends by itself, or Windows ends a child whose job is closed.
ChildEnds(c) ==
    /\ c \in alive
    /\ c \in ran \/ proc[c].pc \notin Holding
    /\ alive' = alive \ {c}
    /\ UNCHANGED <<job, budget, approval, proc, ran, env>>

ApprovalLapses ==
    /\ approval = "granted"
    /\ approval' \in {"expired", "revoked"}
    /\ UNCHANGED <<job, budget, proc, alive, ran, env>>

Init ==
    /\ job = Null
    /\ budget = Apply(Blank, InitializeBudget, 0)
    /\ approval = "granted"
    /\ proc = [p \in Process |-> Fresh]
    /\ alive = {} /\ ran = {}
    /\ env \in Environment

Admission(c) ==
    \/ Check(c) \/ VerifyApproval(c) \/ ReserveBudget(c) \/ Create(c) \/ ReloadAfterCreate(c)
    \/ Abandon(c) \/ PrepareChild(c) \/ PrepareFails(c) \/ ReleaseRefused(c) \/ FailRefused(c)
    \/ Fallback(c)

Launch(c) ==
    \/ CommitLaunch(c) \/ Unlaunch(c) \/ ReleaseUnlaunched(c) \/ FailUnlaunched(c)
    \/ UnknownUnlaunched(c) \/ AdmitEffect(c) \/ StartBudget(c) \/ Resume(c) \/ PublishRunning(c)
    \/ Stop(c) \/ CloseNoEffect(c) \/ FailNoEffect(c) \/ AdmissionUnknown(c) \/ CloseAmbiguous(c)
    \/ SettleAmbiguous(c) \/ ResumeUnknown(c)

Completion(c) ==
    \/ WaitEnds(c) \/ CancelWanted(c) \/ CancelJob(c) \/ CancelBudget(c) \/ CancelStop(c)
    \/ WaitInterrupted(c) \/ ExitUnknown(c) \/ SettleAgain(c) \/ SettleLost(c) \/ SettleUnclosed(c)
    \/ SettleCancelled(c) \/ SettleKnown(c) \/ SettleUnknown(c) \/ Finish(c) \/ FinishUnknown(c)

Recovery(o) ==
    \/ LoadForRecovery(o) \/ RecoverBudget(o) \/ RecoverSettle(o) \/ RecoverJob(o)
    \/ CheckForReconcile(o) \/ Reconcile(o) \/ OperatorEnds(o)

Next ==
    \/ \E c \in Controller : Admission(c) \/ Launch(c) \/ Completion(c) \/ Crash(c) \/ ChildEnds(c)
    \/ \E o \in Operator : Recovery(o)
    \/ ApprovalLapses

Spec == Init /\ [][Next]_vars
-----------------------------------------------------------------------------
(* Properties.                                                              *)

\* Where a process can be.
Place ==
    {"idle", "approve", "reserve", "create", "create_failed", "abandon", "prepare", "refuse",
     "refuse_job", "fallback", "commit", "unlaunch", "unlaunch_release", "unlaunch_fail",
     "unlaunch_unknown", "admit", "start", "resume", "publish", "stop", "no_effect",
     "no_effect_job", "admission_unknown", "ambiguous", "ambiguous_settle", "resume_unknown",
     "wait", "cancel_job", "cancel_budget", "cancel_stop", "cancel_failed", "exit_unknown",
     "settle", "settle_again", "settle_lost", "settle_unknown", "final", "final_unknown",
     "unsettled", "done", "crashed", "recover", "recover_cancel", "recover_settle",
     "recover_job", "recovered", "recovery_failed", "reconcile", "answered"}

\* The variables keep their types.
TypeOK ==
    /\ job \in JobState \cup {Null}
    /\ budget \in Snapshot
    /\ approval \in {"granted", "expired", "revoked"}
    /\ proc \in [Process -> [pc : Place, identity : BOOLEAN, possible : BOOLEAN,
                             evidence : JobEvidence \cup {Null}, cancelled : BOOLEAN,
                             then : Place, digest : Stage, tries : 0..2, seen : Status,
                             mark : Nat]]
    /\ alive \subseteq Controller /\ ran \subseteq Controller
    /\ env \in Surroundings
    /\ \E e \in Environment : env = [e EXCEPT !.faults = env.faults] /\ env.faults <= e.faults

Settlement == budget.settled[JobPermit]

\* A child that was ever resumed is the process that the durable state names:
\* the identity is published before the effect and never replaced, so at most
\* one of the concurrent calls of execute has an effect (coordinator.py, the
\* order of LAUNCH_COMMITTED and resume).
EffectLeavesATrace == \A c \in ran : job # Null /\ job.process = c

\* When a child is resumed its launch is committed, its permit is started and
\* its approval has not expired: nothing that happens between the checks of
\* _execute_impl and ResumeThread invalidates them, short of an operator who
\* recovers the job meanwhile.
EffectIsAdmitted ==
    [][\A c \in ran' \ ran : ~env.concurrent =>
         /\ job # Null /\ job.status = "launch_committed" /\ job.process = c
         /\ PermitStatus = "started"
         /\ approval # "expired"]_vars

\* What is closed as having had no effect had none, then or later: a permit
\* that was released, and a job that failed before its launch or was refused
\* at the admission of its effect.
NoEffectIsTrue ==
    (\/ Settlement = "released_no_effect"
     \/ job # Null /\ job.status = "failed" /\ (job.process = Null \/ job.refused))
    => ran = {}

\* The stores never deny an effect: whatever ran is the recorded process, and
\* what is recorded as without effect never ran, in every race of two calls of
\* execute with an operator's recovery.
EffectsAreRecorded == EffectLeavesATrace /\ NoEffectIsTrue

\* The budget is settled before the job is terminal, and agrees with it: the
\* two stores share no transaction, so only the order of the calls and their
\* error paths make this so.
TerminalIsBacked ==
    job # Null =>
      /\ job.status = "completed" => Settlement = "succeeded" /\ job.process \in ran \ alive
      /\ job.status = "cancelled" => Settlement = "cancelled" /\ job.process \in ran \ alive
      /\ job.status = "failed" => Settlement \in {"failed", "overrun", "released_no_effect"}
      /\ job.status = "reconciled" => Settlement # "none" /\ ProcessGone

\* While a resumed child exists its permit is not settled: the concurrency slot
\* is held until the process tree is known to be gone.
PermitOutlivesWork == ran \cap alive # {} => Settlement = "none"

\* That is so as long as Windows confirms the stop that follows a failed resume
\* or a failed wait, and no operator recovers a job whose controller is alive.
PermitOutlivesConfirmedWork ==
    env.stops \subseteq {"wait"} /\ ~env.concurrent => PermitOutlivesWork

\* A recovery of a job that nobody runs any more and that meets no fault closes
\* the permit and latches the job as effect_unknown, from whatever state the
\* crash left behind, so that it can be reconciled (recover_after_restart).
RecoveryIsComplete ==
    \A o \in Operator :
      proc[o].pc \in {"recovered", "recovery_failed"} /\ proc[o].mark = env.faults /\ ~env.concurrent =>
        /\ At(o, "recovered")
        /\ PermitStatus = "none" /\ Settlement # "none"
        /\ job.status \in {"effect_unknown", "reconciled"}
=============================================================================

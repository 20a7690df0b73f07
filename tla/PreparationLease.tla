-------------------------- MODULE PreparationLease --------------------------
(***************************************************************************)
(* isolated_jobs/windows_backend.py, PreparationLease and its use by       *)
(* _prepare_with_lease and IsolatedJobCoordinator.execute: a worker thread *)
(* creates the suspended child while the calling thread may be interrupted *)
(* (KeyboardInterrupt) between any two of its steps.  Each region under    *)
(* the lease's lock is one step.                                           *)
(***************************************************************************)
EXTENDS Naturals

CONSTANTS
    MaxInterrupts,      \* bound on the interruptions of the calling thread
    InterruptedCleanup  \* the cleanup in execute's finally may be interrupted too

VARIABLES
    worker,     \* the worker thread, from its creation to its end
    child,      \* the child process
    prepared,   \* _prepared holds the child
    error,      \* _error is set
    done,       \* the event _done
    abort,      \* _abort_requested
    caller,     \* where the calling thread is
    taken,      \* the child that abort_and_join has in its local variable
    interrupts

vars == <<worker, child, prepared, error, done, abort, caller, taken, interrupts>>

Preparing == {"start", "launch", "started", "await", "read"}
Cleaning == {"request", "join", "reread", "terminate", "release"}

-----------------------------------------------------------------------------
(* The calling thread; its cleanup runs twice when the preparation fails,   *)
(* in _prepare_with_lease ("first") and in the finally of execute ("last"). *)

Goto(phase, pc) == caller' = [phase |-> phase, pc |-> pc]
At(phase, pc) == caller = [phase |-> phase, pc |-> pc]

\* start: the thread object is recorded under the lock, then started.
RecordWorker ==
    /\ At("prepare", "start")
    /\ worker' = "recorded"
    /\ Goto("prepare", "launch")
    /\ UNCHANGED <<child, prepared, error, done, abort, taken, interrupts>>

\* Thread.start hands the thread to the system and waits until it runs; until
\* then is_alive answers False.
LaunchWorker ==
    /\ At("prepare", "launch")
    /\ worker' = "launched"
    /\ Goto("prepare", "started")
    /\ UNCHANGED <<child, prepared, error, done, abort, taken, interrupts>>

WorkerStarted ==
    /\ At("prepare", "started") /\ worker # "launched"
    /\ Goto("prepare", "await")
    /\ UNCHANGED <<worker, child, prepared, error, done, abort, taken, interrupts>>

\* result
AwaitResult ==
    /\ At("prepare", "await") /\ done
    /\ Goto("prepare", "read")
    /\ UNCHANGED <<worker, child, prepared, error, done, abort, taken, interrupts>>

\* An error or a missing result ends the preparation; otherwise the child is taken over.
ReadResult ==
    /\ At("prepare", "read")
    /\ IF error \/ abort \/ ~prepared THEN Goto("first", "request") ELSE Goto("use", "child")
    /\ UNCHANGED <<worker, child, prepared, error, done, abort, taken, interrupts>>

\* The coordinator ends with the child: every path of it that is not itself
\* interrupted waits for the child or terminates it, and close releases the lease.
UseChild ==
    /\ At("use", "child")
    /\ child' = "gone" /\ prepared' = FALSE /\ abort' = TRUE
    /\ Goto("last", "request")
    /\ UNCHANGED <<worker, error, done, taken, interrupts>>

\* abort_and_join
RequestAbort ==
    /\ caller.phase \in {"first", "last"} /\ caller.pc = "request"
    /\ abort' = TRUE
    /\ taken' = prepared
    /\ Goto(caller.phase, "join")
    /\ UNCHANGED <<worker, child, prepared, error, done, interrupts>>

\* A thread that does not run yet is not alive and is not joined.
NotAlive == {"none", "recorded", "launched", "ended"}

JoinWorker ==
    /\ caller.pc = "join"
    /\ worker \in NotAlive
    /\ Goto(caller.phase, "reread")
    /\ UNCHANGED <<worker, child, prepared, error, done, abort, taken, interrupts>>

RereadResult ==
    /\ caller.pc = "reread"
    /\ taken' = (taken \/ prepared)
    /\ Goto(caller.phase, "terminate")
    /\ UNCHANGED <<worker, child, prepared, error, done, abort, interrupts>>

TerminateChild ==
    /\ caller.pc = "terminate"
    /\ child' = IF taken /\ child = "alive" THEN "gone" ELSE child
    /\ Goto(caller.phase, "release")
    /\ UNCHANGED <<worker, prepared, error, done, abort, taken, interrupts>>

\* The lease forgets the result. The first failure is handled once more by the outer handler.
Release ==
    /\ caller.pc = "release"
    /\ abort' = TRUE /\ prepared' = FALSE /\ error' = FALSE /\ taken' = FALSE
    /\ IF caller.phase = "first" THEN Goto("last", "request") ELSE Goto("returned", "end")
    /\ UNCHANGED <<worker, child, done, interrupts>>

\* An interruption: swallowed while joining and while terminating, otherwise
\* it unwinds to the next handler.
Interrupt ==
    /\ interrupts < MaxInterrupts
    /\ interrupts' = interrupts + 1
    /\ \/ /\ caller.phase = "prepare" /\ Goto("first", "request")
          /\ UNCHANGED taken
       \/ /\ caller.phase = "use" /\ Goto("last", "request")
          /\ UNCHANGED taken
       \/ /\ caller.phase = "first" /\ caller.pc \notin {"join", "terminate"}
          /\ Goto("last", "request") /\ taken' = FALSE
       \/ /\ InterruptedCleanup
          /\ caller.phase = "last" /\ caller.pc \notin {"join", "terminate"}
          /\ Goto("returned", "end") /\ taken' = FALSE
    /\ UNCHANGED <<worker, child, prepared, error, done, abort>>

-----------------------------------------------------------------------------
(* The worker thread.                                                       *)

BeginWork ==
    /\ worker = "launched"
    /\ worker' = "create"
    /\ UNCHANGED <<child, prepared, error, done, abort, caller, taken, interrupts>>

\* _prepare_locked cleans up after itself when it fails.
CreateChild ==
    /\ worker = "create"
    /\ \/ child' = "alive" /\ worker' = "publish"
       \/ UNCHANGED child /\ worker' = "publish_error"
    /\ UNCHANGED <<prepared, error, done, abort, caller, taken, interrupts>>

\* mutant: the worker ignores an abort that was requested meanwhile.
Mut_PublishPrepared ==
    /\ worker = "publish"
    /\ prepared' = TRUE
    /\ worker' = "notify"
    /\ UNCHANGED <<child, error, done, abort, caller, taken, interrupts>>

\* publish_prepared: an abort that was requested leaves the child to the worker.
PublishPrepared ==
    /\ worker = "publish"
    /\ prepared' = ~abort
    /\ worker' = IF abort THEN "terminate" ELSE "notify"
    /\ UNCHANGED <<child, error, done, abort, caller, taken, interrupts>>

TerminateOwn ==
    /\ worker = "terminate"
    /\ child' = "gone"
    /\ worker' = "notify"
    /\ UNCHANGED <<prepared, error, done, abort, caller, taken, interrupts>>

PublishError ==
    /\ worker = "publish_error"
    /\ error' = TRUE
    /\ worker' = "notify"
    /\ UNCHANGED <<child, prepared, done, abort, caller, taken, interrupts>>

\* The worker ends whatever it did by setting the event its caller waits for.
Notify ==
    /\ worker = "notify"
    /\ done' = TRUE
    /\ worker' = "ended"
    /\ UNCHANGED <<child, prepared, error, abort, caller, taken, interrupts>>

Init ==
    /\ worker = "none" /\ child = "none"
    /\ prepared = FALSE /\ error = FALSE /\ done = FALSE /\ abort = FALSE
    /\ caller = [phase |-> "prepare", pc |-> "start"]
    /\ taken = FALSE /\ interrupts = 0

CallerStep ==
    \/ RecordWorker \/ LaunchWorker \/ WorkerStarted \/ AwaitResult \/ ReadResult \/ UseChild
    \/ RequestAbort \/ JoinWorker \/ RereadResult \/ TerminateChild \/ Release

WorkerStep ==
    \/ BeginWork \/ CreateChild \/ PublishPrepared \/ TerminateOwn \/ PublishError \/ Notify

Next == CallerStep \/ WorkerStep \/ Interrupt

Spec == Init /\ [][Next]_vars

\* Both threads keep running: neither step waits for anything but the other.
FairSpec == Spec /\ WF_vars(CallerStep) /\ WF_vars(WorkerStep)

-----------------------------------------------------------------------------
(* Properties.                                                              *)

\* The variables keep their types.
TypeOK ==
    /\ worker \in {"none", "recorded", "launched", "create", "publish", "publish_error", "terminate",
                   "notify", "ended"}
    /\ child \in {"none", "alive", "gone"}
    /\ {prepared, error, done, abort, taken} \subseteq BOOLEAN
    /\ \/ caller.phase = "prepare" /\ caller.pc \in Preparing
       \/ caller = [phase |-> "use", pc |-> "child"]
       \/ caller.phase \in {"first", "last"} /\ caller.pc \in Cleaning
       \/ caller = [phase |-> "returned", pc |-> "end"]
    /\ interrupts \in 0..MaxInterrupts

\* When execute has returned, a child that is still alive belongs to a worker
\* thread that will terminate it, whenever the calling thread was interrupted
\* before that cleanup.
NothingIsLeftBehind ==
    caller.phase = "returned" /\ child = "alive" =>
        worker = "terminate" \/ (worker = "publish" /\ abort)

\* The caller is handed a child that is alive and that nobody else will end.
ChildIsUsable ==
    caller.phase = "use" => child = "alive" /\ prepared /\ worker = "ended"

\* execute returns: the caller does not wait for a result that never comes, and
\* the join ends.
ExecuteReturns == <>(caller.phase = "returned")
=============================================================================

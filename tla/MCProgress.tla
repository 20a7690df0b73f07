------------------------------ MODULE MCProgress ------------------------------
(***************************************************************************)
(* The waits of the program: the authority lock, taken by two threads of   *)
(* one process and one of another; the lease under which a worker thread   *)
(* prepares a child while its caller is interrupted; the execution of a    *)
(* bridge turn in a child process.  A behaviour is about one of them.      *)
(***************************************************************************)
EXTENDS RevisionLock, TLC

CONSTANTS
    t1, t2, t3, p1, p2,
    MaxInterrupts, InterruptedCleanup,      \* of PreparationLease
    Independent, MaxEvents                  \* of BridgeTransport

VARIABLES
    flow,       \* which of the three; it never changes
    worker, child, prepared, error, done, abort, caller, taken, interrupts,
    kind, guarded, root, attempt, isolated, drift, parent, cut, captured, answer, turnChild,
    pipe, sent, completed, calls, deaths

Lease == INSTANCE PreparationLease
Transport == INSTANCE BridgeTransport WITH child <- turnChild, crashes <- deaths

leaseVars == <<worker, child, prepared, error, done, abort, caller, taken, interrupts>>
transportVars == <<kind, guarded, root, attempt, isolated, drift, parent, cut, captured, answer,
                   turnChild, pipe, sent, completed, calls, deaths>>
mcvars == <<flow, vars, leaseVars, transportVars>>

MCProcessOf == (t1 :> p1) @@ (t2 :> p1) @@ (t3 :> p2)

MCInit ==
    /\ flow \in {"authority", "lease", "transport"}
    /\ Init /\ Lease!Init /\ Transport!Init
    /\ flow # "transport" => kind = "api" /\ ~guarded

Authority(A) == flow = "authority" /\ A /\ UNCHANGED <<flow, leaseVars, transportVars>>
Preparation(A) == flow = "lease" /\ A /\ UNCHANGED <<flow, vars, transportVars>>
Execution(A) == flow = "transport" /\ A /\ UNCHANGED <<flow, vars, leaseVars>>

MCNext == Authority(Next) \/ Preparation(Lease!Next) \/ Execution(Transport!Next)

\* The fairness of the three modules: the threads of RevisionLock, the two of
\* PreparationLease, the parent of a turn and its writer of the request.  The
\* flow is fixed, so one condition serves an actor of each.
Actor(t) ==
    \/ Authority(Progress(t))
    \/ t = t1 /\ (Preparation(Lease!CallerStep) \/ Execution(Transport!Parent))
    \/ t = t2 /\ (Preparation(Lease!WorkerStep) \/ Execution(Transport!ReadInput))

MCSpec == MCInit /\ [][MCNext]_mcvars /\ \A t \in Thread : WF_mcvars(Actor(t))

-----------------------------------------------------------------------------
\* No error path and no interruption leaks what it had taken: neither a key of
\* the registry of held keys (NoLeakedKey), nor the child a worker prepared
\* (PreparationLease's NothingIsLeftBehind), and a child that is handed out
\* is alive and nobody else's (ChildIsUsable).
NothingIsLeaked == NoLeakedKey /\ Lease!NothingIsLeftBehind /\ Lease!ChildIsUsable

\* A turn of a role is accounted for truly: it is transmitted at most once over
\* all executions and crashes and never behind an answer "not launched", a
\* success is the completed turn's own, a child that the parent stopped is told
\* as doubt, and the audit model accepts every answer (BridgeTransport's
\* SentAtMostOnce, SuccessIsTheTurn, DoubtIsNotHidden, AnswersAreAuditable).
TurnsAreAccounted ==
    /\ Transport!SentAtMostOnce /\ Transport!SuccessIsTheTurn
    /\ Transport!DoubtIsNotHidden /\ Transport!AnswersAreAuditable

Waiting(t) ==
    CASE flow = "authority" -> pc[t] # "idle"
      [] flow = "lease"     -> caller.phase # "returned"
      [] flow = "transport" -> parent \notin {"idle", "done"}

\* Nobody waits for ever: who calls acquire_authority gets an answer and gives
\* back the lease, an execute that prepares a child returns however often it is
\* interrupted, and the execution of a turn is answered (CallsReturn, and the
\* two ExecuteReturns).
EveryCallReturns == \A t \in Thread : Waiting(t) ~> ~Waiting(t)
=============================================================================

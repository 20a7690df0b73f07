------------------------- MODULE RootInitialization -------------------------
(***************************************************************************)
(* The initialization of a revision root (storage/revision_store.py:       *)
(* inspect_root_initialization, initialize_revision_root and               *)
(* reconcile_revision_root).  Directories are built under temporary names  *)
(* that carry the root's identity, renamed, and owned last: ownership.json *)
(* is the commit.  Every step may fail or be the last one of its process;  *)
(* an inspection takes no lock, and looks twice.  A release that fails is   *)
(* RevisionLock's.                                                         *)
(***************************************************************************)
EXTENDS Naturals, FiniteSets, Sequences

CONSTANTS
    Procs,
    Requests,       \* root initialization requests: [id, at]
    MaxCalls, MaxFaults, MaxCrashes

VARIABLES
    root,           \* the entries of the revision root
    lock,           \* the holder of .revision-init.authority.lock
    pc, loc,        \* the call of each process: place, request and first look
    answer,         \* what its last call returned
    changed,        \* whether that call changed an entry of the root (history)
    left            \* what the bounds still allow

vars == <<root, lock, pc, loc, answer, changed, left>>

None == "none"
NoRequest == [id |-> None, at |-> None]

\* Nothing but the directory that is to hold it.
NoRoot == [exists |-> FALSE, authority |-> FALSE, owner |-> <<>>,
           control |-> FALSE, runs |-> FALSE,       \* .revision-control, runs
           owners |-> {},                           \* ownership.<id>.tmp: [request, whole]
           controls |-> {}, runses |-> {}]          \* the temporary directories

NoCall == [kind |-> None, request |-> NoRequest, look |-> NoRoot, created |-> FALSE]
NoAnswer == [code |-> None, effect |-> None, request |-> NoRequest]

At(p, place) == pc[p] = place
Goto(p, place) == pc' = [pc EXCEPT ![p] = place]
Request(p) == loc[p].request

-----------------------------------------------------------------------------
(* inspect_root_initialization *)

TemporaryIds(r) ==
    {o.request.id: o \in r.owners} \cup {c.id: c \in r.controls} \cup r.runses

\* The names come from one look, the marker and the directories from a later
\* one; without interference the two are the same.
inspect(names, r) ==
    LET ids == TemporaryIds(names)
    IN  IF ~names.exists THEN "uninitialized"
        ELSE IF r.owner # <<>>
             THEN IF /\ ids = {}
                     /\ names.owner # <<>> /\ names.authority /\ names.control /\ names.runs
                     /\ r.control /\ r.runs
                  THEN "initialized" ELSE "corrupt"
        ELSE IF ids = {} /\ ~names.control /\ ~names.runs THEN "uninitialized"
        ELSE IF Cardinality(ids) = 1 THEN "incomplete" ELSE "corrupt"

Status == inspect(root, root)

IncompleteOf(names, id) == TemporaryIds(names) = {id}

-----------------------------------------------------------------------------

Answer(p, code, effect) ==
    /\ answer' = [answer EXCEPT ![p] = [code |-> code, effect |-> effect, request |-> Request(p)]]
    /\ loc' = [loc EXCEPT ![p] = NoCall]
    /\ lock' = IF lock = p THEN None ELSE lock
    /\ Goto(p, "idle")

Refuse(p, code, effect) == Answer(p, code, effect) /\ UNCHANGED <<root, changed, left>>

\* A step changes the root and goes on.
Do(p, r, place) ==
    /\ root' = r
    /\ changed' = [changed EXCEPT ![p] = @ \/ r # root]
    /\ Goto(p, place)
    /\ UNCHANGED <<loc, answer, left>>

Begin(p, kind, request) ==
    /\ At(p, "idle") /\ left.calls > 0
    /\ left' = [left EXCEPT !.calls = @ - 1]
    /\ loc' = [loc EXCEPT ![p] = [NoCall EXCEPT !.kind = kind, !.request = request,
                                                 !.look = root]]
    /\ changed' = [changed EXCEPT ![p] = FALSE]
    /\ answer' = [answer EXCEPT ![p] = NoAnswer]
    /\ Goto(p, "preflight")
    /\ UNCHANGED <<root, lock>>

\* The inspection before the lock: initialize refuses only what looks corrupt,
\* reconcile everything but its own partial root or the root it expects.
Preflight(p) ==
    /\ At(p, "preflight")
    /\ LET seen == inspect(loc[p].look, root)
       IN  IF loc[p].kind = "initialize"
           THEN IF seen = "corrupt" THEN Refuse(p, "run_namespace_conflict", "none")
                ELSE /\ Goto(p, "acquire")
                     /\ loc' = [loc EXCEPT ![p].look = NoRoot]
                     /\ UNCHANGED <<root, lock, answer, changed, left>>
           ELSE IF seen = "initialized"
                THEN IF root.owner[1] # Request(p)
                     THEN Refuse(p, "run_namespace_conflict", "none")
                     ELSE /\ Goto(p, "acquire")
                          /\ loc' = [loc EXCEPT ![p].look = NoRoot]
                          /\ UNCHANGED <<root, lock, answer, changed, left>>
           ELSE IF seen # "incomplete" \/ ~IncompleteOf(loc[p].look, Request(p).id)
                THEN Refuse(p, "root_initialization_incomplete", "none")
                ELSE /\ Goto(p, "acquire")
                     /\ loc' = [loc EXCEPT ![p].look = NoRoot]
                     /\ UNCHANGED <<root, lock, answer, changed, left>>

\* acquire_authority with prepare_root: the root directory, then the authority
\* file, exist before the lock is tried.
PrepareRoot(p) ==
    /\ At(p, "acquire") /\ ~root.exists /\ loc[p].kind = "initialize"
    /\ root' = [root EXCEPT !.exists = TRUE]
    /\ loc' = [loc EXCEPT ![p].created = TRUE]
    /\ UNCHANGED <<lock, pc, answer, changed, left>>

Prepared(p) == IF loc[p].created \/ changed[p] THEN "control_only" ELSE "none"

Acquire(p) ==
    /\ At(p, "acquire") /\ root.exists
    /\ IF lock # None THEN Refuse(p, "run_locked", Prepared(p))
       ELSE Do(p, [root EXCEPT !.authority = TRUE], "locked") /\ lock' = p

LockUnavailable(p) ==
    /\ At(p, "acquire") /\ left.faults > 0
    /\ left' = [left EXCEPT !.faults = @ - 1]
    /\ Answer(p, "lock_unavailable", Prepared(p))
    /\ UNCHANGED <<root, changed>>

\* What the lease says: only the authority file counts.
Effect(p) == IF changed[p] THEN "control_only" ELSE "none"

\* mutant: a partial root is initialized once more.
Mut_LockedInitialize(p) ==
    /\ At(p, "locked") /\ loc[p].kind = "initialize"
    /\ IF Status = "initialized"
       THEN IF root.owner[1] = Request(p) THEN Refuse(p, "already_initialized", "none")
            ELSE Refuse(p, "run_namespace_conflict", Effect(p))
       ELSE Goto(p, "ownership") /\ UNCHANGED <<root, lock, loc, answer, changed, left>>

\* Under the lock: the root is there already, is in an unknown state, or is
\* built from nothing.
LockedInitialize(p) ==
    /\ At(p, "locked") /\ loc[p].kind = "initialize"
    /\ IF Status = "initialized"
       THEN IF root.owner[1] = Request(p)
            THEN Refuse(p, "already_initialized", "none")
            ELSE Refuse(p, "run_namespace_conflict", Effect(p))
       ELSE IF Status # "uninitialized"
            THEN Refuse(p, "reconciliation_required", "control_only")
       ELSE Goto(p, "ownership") /\ UNCHANGED <<root, lock, loc, answer, changed, left>>

\* The exclusive write of ownership.<id>.tmp: created, then whole.
CreateOwnership(p) ==
    /\ At(p, "ownership")
    /\ \A o \in root.owners: o.request.id # Request(p).id
    /\ Do(p, [root EXCEPT !.owners = @ \cup {[request |-> Request(p), whole |-> FALSE]}], "write")
    /\ UNCHANGED lock

WriteOwnership(p) ==
    /\ At(p, "write")
    /\ Do(p, [root EXCEPT !.owners = (@ \ {[request |-> Request(p), whole |-> FALSE]})
                                     \cup {[request |-> Request(p), whole |-> TRUE]}], "control_temp")
    /\ UNCHANGED lock

MakeControl(p) ==
    /\ At(p, "control_temp")
    /\ Do(p, [root EXCEPT !.controls = @ \cup {[id |-> Request(p).id, locks |-> FALSE]}],
          "locks_temp")
    /\ UNCHANGED lock

MakeLocks(p) ==
    /\ At(p, "locks_temp")
    /\ Do(p, [root EXCEPT !.controls = (@ \ {[id |-> Request(p).id, locks |-> FALSE]})
                                       \cup {[id |-> Request(p).id, locks |-> TRUE]}], "runs_temp")
    /\ UNCHANGED lock

MakeRuns(p) ==
    /\ At(p, "runs_temp")
    /\ Do(p, [root EXCEPT !.runses = @ \cup {Request(p).id}], "control_rename")
    /\ UNCHANGED lock

RenameControl(p) ==
    /\ At(p, "control_rename")
    /\ Do(p, [root EXCEPT !.control = TRUE, !.controls = {c \in @: c.id # Request(p).id}],
          "runs_rename")
    /\ UNCHANGED lock

RenameRuns(p) ==
    /\ At(p, "runs_rename")
    /\ Do(p, [root EXCEPT !.runs = TRUE, !.runses = @ \ {Request(p).id}], "marker_replace")
    /\ UNCHANGED lock

ReplaceMarker(p) ==
    /\ At(p, "marker_replace")
    /\ Do(p, [root EXCEPT !.owner = <<Request(p)>>,
                          !.owners = {o \in @: o.request.id # Request(p).id}], "final")
    /\ UNCHANGED lock

Finish(p) ==
    /\ At(p, "final")
    /\ IF root.owner = <<Request(p)>> THEN Refuse(p, "initialized", "control_only")
       ELSE Refuse(p, "transaction_write_failed", "control_only")

\* reconcile_revision_root under the lock: only what an interrupted
\* initialization of this very request can have left is finished, and nothing
\* that is missing is made.
LockedReconcile(p) ==
    /\ At(p, "locked") /\ loc[p].kind = "reconcile"
    /\ LET id == Request(p).id
           control == {c \in root.controls: c.id = id}
       IN  IF Status = "initialized"
           THEN IF root.owner[1] = Request(p) THEN Refuse(p, "already_initialized", "none")
                ELSE Refuse(p, "run_namespace_conflict", "none")
           ELSE IF Status # "incomplete" \/ ~IncompleteOf(root, id)
                THEN Refuse(p, "root_initialization_incomplete", "control_only")
           ELSE IF \A o \in root.owners: ~o.whole
                THEN Refuse(p, "transaction_verification_failed", "control_only")
           ELSE IF [request |-> Request(p), whole |-> TRUE] \notin root.owners
                   \/ (root.control /\ control # {}) \/ (root.runs /\ id \in root.runses)
                THEN Refuse(p, "run_namespace_conflict", "control_only")
           ELSE IF ~root.control /\ [id |-> id, locks |-> TRUE] \notin control
                THEN Refuse(p, "transaction_publish_failed", "control_only")
           ELSE /\ Goto(p, IF root.control THEN "reconcile_runs" ELSE "reconcile_control")
                /\ UNCHANGED <<root, lock, loc, answer, changed, left>>

ReconcileControl(p) ==
    /\ At(p, "reconcile_control")
    /\ Do(p, [root EXCEPT !.control = TRUE, !.controls = {c \in @: c.id # Request(p).id}],
          "reconcile_runs")
    /\ UNCHANGED lock

ReconcileRuns(p) ==
    /\ At(p, "reconcile_runs")
    /\ IF ~root.runs /\ Request(p).id \notin root.runses
       THEN Refuse(p, "transaction_publish_failed", "control_only")
       ELSE /\ Do(p, [root EXCEPT !.runs = TRUE, !.runses = @ \ {Request(p).id}], "marker_replace")
            /\ UNCHANGED lock

Building ==
    {"ownership", "write", "control_temp", "locks_temp", "runs_temp", "control_rename",
     "runs_rename", "marker_replace", "final", "reconcile_control", "reconcile_runs"}

\* A boundary fails: the name of the failure depends on the boundary, the
\* answer always asks for reconciliation.
BoundaryFails(p) ==
    /\ pc[p] \in Building /\ left.faults > 0
    /\ left' = [left EXCEPT !.faults = @ - 1]
    /\ Answer(p, "reconcile_me", "control_only")
    /\ UNCHANGED <<root, changed>>

Crash(p) ==
    /\ ~At(p, "idle") /\ left.crashes > 0
    /\ left' = [left EXCEPT !.crashes = @ - 1]
    /\ lock' = IF lock = p THEN None ELSE lock
    /\ loc' = [loc EXCEPT ![p] = NoCall]
    /\ answer' = [answer EXCEPT ![p] = NoAnswer]
    /\ Goto(p, "idle")
    /\ UNCHANGED <<root, changed>>

-----------------------------------------------------------------------------

Init ==
    /\ root = NoRoot
    /\ lock = None
    /\ pc = [p \in Procs |-> "idle"]
    /\ loc = [p \in Procs |-> NoCall]
    /\ answer = [p \in Procs |-> NoAnswer]
    /\ changed = [p \in Procs |-> FALSE]
    /\ left = [calls |-> MaxCalls, faults |-> MaxFaults, crashes |-> MaxCrashes]

Step(p) ==
    \/ \E request \in Requests: Begin(p, "initialize", request) \/ Begin(p, "reconcile", request)
    \/ Preflight(p) \/ PrepareRoot(p) \/ Acquire(p) \/ LockUnavailable(p)
    \/ LockedInitialize(p) \/ CreateOwnership(p) \/ WriteOwnership(p)
    \/ MakeControl(p) \/ MakeLocks(p) \/ MakeRuns(p)
    \/ RenameControl(p) \/ RenameRuns(p) \/ ReplaceMarker(p) \/ Finish(p)
    \/ LockedReconcile(p) \/ ReconcileControl(p) \/ ReconcileRuns(p)
    \/ BoundaryFails(p) \/ Crash(p)

Next == \E p \in Procs: Step(p)

Spec == Init /\ [][Next]_vars

-----------------------------------------------------------------------------
(* Properties *)

\* Whatever fails, crashes or runs beside it, a root is uninitialized, a
\* recognizable part of one initialization, or whole: no interruption leaves
\* a root that inspect_root_initialization must call corrupt, and a marker is
\* never there before what it owns.  (The order of the writes and renames,
\* the inspection under the lock, the exactness reconcile asks for.)
RootIsNeverCorrupt ==
    /\ Status # "corrupt"
    /\ root.owner # <<>> => root.control /\ root.runs /\ TemporaryIds(root) = {}

\* A call that answers that the root is initialized answers its own identity
\* and stays right for ever; an answer that says nothing was changed is true of
\* every entry of the root.
\* (already_initialized, the comparison with the existing marker, the effects
\* of the failures.)
RootAnswersAreTrue ==
    \A p \in Procs:
        /\ answer[p].code \in {"initialized", "already_initialized"}
            => root.owner = <<answer[p].request>>
        /\ (answer[p].code # None /\ answer[p].effect = "none") => ~changed[p]
=============================================================================

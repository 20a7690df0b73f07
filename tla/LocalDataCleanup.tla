--------------------------- MODULE LocalDataCleanup ---------------------------
(***************************************************************************)
(* The cleanup of one finished run (local_data_cleanup.py and               *)
(* storage/local_data_cleanup_store.py).  A verified terminal run is first   *)
(* moved out of the product root into quarantine, and, when it has been      *)
(* there for the review period, moved into a staging directory and unlinked  *)
(* entry by entry.  Each of the two effects needs a plan made by a dry run,  *)
(* an approval of exactly that plan, and the run's authority lock; each      *)
(* writes a journal before it and publishes a cleanup revision after it:     *)
(* r1 (quarantined), r2 (delete prepared) and r3 (deleted).                  *)
(*                                                                          *)
(* Several executors run the plans concurrently.  An I/O error may end any   *)
(* step, a process may die between any two, and the world outside changes:   *)
(* time passes, approvals are decided, withdrawn or replaced, a legal hold   *)
(* is placed or lifted, the run's failure audit grows, callers cancel.       *)
(*                                                                          *)
(* A tree is abstracted to its version (its inventory digest), an identity   *)
(* or a digest to the thing it identifies, and a plan to its name: the       *)
(* transaction id is derived from the plan.  The failure codes that claim    *)
(* that nothing happened are one code, "refused".                            *)
(***************************************************************************)
EXTENDS LocalDataPolicy, Sequences

CONSTANTS
    Callers,          \* executors, each in a process of its own
    QPlans,           \* plans that quarantine the run
    DPlans,           \* plans that delete it from quarantine
    Days,             \* the days on which something happens
    Entries,          \* files and directories of the run's tree
    PayloadEvidence,  \* the classification evidence of the run's payloads
    Scenarios         \* bounds: which plans are tried, and how many I/O errors,
                      \* crashes and disturbances (changes of approvals, holds
                      \* and audits, and cancellations) there may be

Plans == QPlans \cup DPlans

NoCaller == "no caller"
NoPlan == "no plan"

ASSUME CleanupAssumption ==
    /\ NoCaller \notin Callers
    /\ QPlans \cap DPlans = {}
    /\ Days \subseteq Nat /\ Days # {} /\ IsFiniteSet(Days)
    /\ Entries \in Nat \ {0}
    /\ Scenarios \subseteq [plans : SUBSET Plans, faults : Nat, crashes : Nat,
                            disturbances : Nat]

VARIABLES
    root,        \* the cleanup root: "uninitialized", "incomplete" or "initialized"
    product,     \* version of the run's tree in the product root, 0 when it is not there
    quarantine,  \* version of the tree in quarantine, 0 when there is none
    staging,     \* per delete plan: entries left in its staging directory plus one, or 0
    control,     \* the run's control directory below the cleanup root
    lock,        \* the caller that holds the run's authority lock, or NoCaller
    plan,        \* the plans dry runs have made, by name
    approval,    \* per plan: the binding its approved request has now, 0 when it has none
    hold,        \* the legal hold's snapshot; the run is held while it is odd
    auditAt,     \* day of the last approval failure event, or NoTime
    now,
    call,        \* what each caller is doing
    acked,       \* plans some caller has been told are committed
    moves,       \* per plan: how often it has moved the tree
    spare        \* the scenario, with what is left of its bounds

fs == <<root, product, quarantine, staging, control>>
world == <<plan, approval, hold, auditAt, now>>
vars == <<fs, lock, world, call, acked, moves, spare>>

(***************************************************************************)
(* The control directory.  A revision is the pair of its number and the     *)
(* plan it belongs to.                                                      *)
(***************************************************************************)
NoRevision == <<0, NoPlan>>

NoControl == [exists |-> FALSE, roots |-> {}, journals |-> {}, revisions |-> {},
              pending |-> {}, current |-> NoRevision, entered |-> NoTime]

RevisionId == (1..3) \X Plans

ControlRecord ==
    [exists : BOOLEAN, roots : SUBSET Plans, journals : SUBSET Plans,
     revisions : SUBSET RevisionId, pending : SUBSET RevisionId,
     current : RevisionId \cup {NoRevision}, entered : Days \cup {NoTime}]

PlanRecord ==
    [made : BOOLEAN, tree : Nat, source : QPlans \cup {NoPlan},
     entered : Days \cup {NoTime}, generated : Nat, expires : Nat, hold : Nat,
     auditAt : Days \cup {NoTime}]

\* inspect_cleanup_root: nothing is planned or executed below an incomplete root.
RootUsable == root = "initialized"

\* The revisions a current pointer reaches: r2 and r3 build on the r1 they expect.
Reachable(c) ==
    LET n == c.current[1]
        d == c.current[2]
    IN  IF n = 0 THEN {}
        ELSE IF n = 1 THEN {c.current}
        ELSE {<<i, d>> : i \in 2..n} \cup {<<1, plan[d].source>>}

Transactions(revisions) == {r[2] : r \in revisions}

(***************************************************************************)
(* _read_current: the directory holds the pointer, the revisions it reaches  *)
(* and their journals, and nothing else than what the reader itself has      *)
(* pending there.  Anything else is STALE_CLEANUP_REVISION.                  *)
(***************************************************************************)
PointerIntact(c, pendingPointers) ==
    c.exists /\ c.current # NoRevision /\ c.pending = pendingPointers

RevisionsExact(c, pendingRevisions) == c.revisions = Reachable(c) \cup pendingRevisions

JournalsExact(c, pendingTransactions) ==
    /\ c.journals = Transactions(Reachable(c)) \cup pendingTransactions
    /\ c.roots = c.journals

Readable(c, pendingTransactions, pendingRevisions, pendingPointers) ==
    /\ PointerIntact(c, pendingPointers)
    /\ RevisionsExact(c, pendingRevisions)
    /\ JournalsExact(c, pendingTransactions)

ReadableNow(c) == Readable(c, {}, {}, {})

\* _verify_pending_quarantine_control: before r1 is current there is no pointer
\* to read, so the quarantine checks its own unfinished directory.
PendingQuarantine(c, q, revisions, pointers) ==
    c = [NoControl EXCEPT !.exists = TRUE, !.roots = {q}, !.journals = {q},
                          !.revisions = revisions, !.pending = pointers]

(***************************************************************************)
(* inspect_reconciliation: what can be seen of a plan, without repairing,    *)
(* and what that amounts to.                                                *)
(***************************************************************************)
ObservedTree(version, planned) ==
    IF version = 0 THEN "absent" ELSE IF version = planned THEN "exact" ELSE "mismatch"

ObservedSource(x) ==
    ObservedTree(IF x \in QPlans THEN product ELSE quarantine, plan[x].tree)

ObservedDestination(x) ==
    IF x \in QPlans THEN ObservedTree(quarantine, plan[x].tree) ELSE "absent"

ObservedStaging(x) ==
    IF x \in QPlans \/ staging[x] = 0 THEN "absent"
    ELSE IF staging[x] = Entries + 1 THEN "exact" ELSE "partial"

FinalRevision(x) == IF x \in QPlans THEN <<1, x>> ELSE <<3, x>>

ObservedCurrent(x) ==
    IF ~control.exists THEN "absent"
    ELSE IF ~ReadableNow(control) THEN "unreadable"
    ELSE IF \/ x \in DPlans /\ control.current = <<1, plan[x].source>>
            \/ control.current = <<2, x>>
    THEN "prior"
    ELSE IF control.current = FinalRevision(x) THEN "committed"
    ELSE "mismatch"

Reconciliation(x) ==
    LET source == ObservedSource(x)
        destination == ObservedDestination(x)
        stage == ObservedStaging(x)
        current == ObservedCurrent(x)
    IN  IF /\ current = "committed" /\ source = "absent"
           /\ destination = (IF x \in QPlans THEN "exact" ELSE "absent")
           /\ stage = "absent"
        THEN "committed"
        ELSE IF /\ current \in {"absent", "prior"} /\ source = "exact"
                /\ destination = "absent" /\ stage = "absent"
        THEN "no_effect"
        ELSE IF \/ current \in {"unreadable", "mismatch"}
                \/ source = "mismatch" \/ destination = "mismatch"
        THEN "effect_unknown"
        ELSE "reconciliation_required"

(***************************************************************************)
(* Eligibility, from the lifecycle evidence of every payload.               *)
(***************************************************************************)
PublishedAt == 0

\* _lifecycle_evidence: the payloads by the policy, and the control artifacts that are kept longer.
LifecycleExpired ==
    [day \in Days |->
       /\ \A e \in PayloadEvidence :
            LET r == EvaluateLocalData(TerminalSubject("run_payload", e, PublishedAt),
                                       "unavailable", {}, day)
            IN  /\ r.status = "evaluated"
                /\ r.audit.answer.disposition = "delete_candidate"
                /\ day >= r.audit.expires
       /\ day >= PublishedAt + LifecycleAuditDays]

\* _approval_retention_expired: failure audit events are kept for a year.
ApprovalRetentionExpired(at) == at = NoTime \/ now >= at + LifecycleAuditDays

Held == hold % 2 = 1

\* _legal_hold_matches: not held, then or now, and the same snapshot.
LegalHoldMatches(x) == ~Held /\ hold = plan[x].hold

PlanInForce(x) == plan[x].generated <= now /\ now < plan[x].expires

\* _revalidate_quarantine_eligibility
QuarantineEligible(q) ==
    /\ PlanInForce(q)
    /\ product # 0
    /\ LifecycleExpired[now]
    /\ ApprovalRetentionExpired(auditAt)
    /\ LegalHoldMatches(q)

\* _revalidate_delete_eligibility, with the journal it may find of its own.
DeleteEligible(d, pendingTransactions) ==
    /\ PlanInForce(d)
    /\ now >= plan[d].entered + QuarantineReviewDays
    /\ LifecycleExpired[now]
    /\ ApprovalRetentionExpired(plan[d].auditAt)
    /\ Readable(control, pendingTransactions, {}, {})
    /\ control.current = <<1, plan[d].source>>
    /\ control.entered = plan[d].entered
    /\ quarantine = plan[d].tree
    /\ LegalHoldMatches(d)

\* _verify_cleanup_approval: the request is approved, for this plan, and the
\* binding is the one the call started with.
Approved(x, binding) == approval[x] # 0 /\ approval[x] = binding /\ now < plan[x].expires

(***************************************************************************)
(* Answers.                                                                *)
(***************************************************************************)
Failure(code, effect, domain) == [code |-> code, fs |-> effect, domain |-> domain]

AnswerRecord ==
    [code : {"none", "committed", "refused", "run_locked", "effect_unknown",
             "reconciliation_required"},
     fs : {"none", "journal_only", "control_published", "source_moved",
           "delete_staging_moved", "partial_delete"},
     domain : {"none", "current_unchanged", "current_advanced",
               "current_may_have_advanced"}]

NoAnswer == Failure("none", "none", "none")
Committed == Failure("committed", "none", "none")
Refused == Failure("refused", "none", "none")
Locked == Failure("run_locked", "none", "none")

\* closed_failure_matrix: the codes that ask for a manual reconciliation.
Uncertain(a) == a.code \in {"effect_unknown", "reconciliation_required"}

\* _uncertain_replay_result
UncertainReplay(x) ==
    Failure("effect_unknown",
            IF x \in QPlans
            THEN IF ObservedSource(x) = "absent" \/ ObservedDestination(x) # "absent"
                 THEN "source_moved" ELSE "journal_only"
            ELSE IF ObservedStaging(x) = "exact" THEN "delete_staging_moved"
            ELSE IF ObservedStaging(x) = "partial" \/ ObservedSource(x) = "absent"
                 THEN "partial_delete" ELSE "journal_only",
            "current_may_have_advanced")

\* _persisted_execution_result for a plan whose r2 is current.
PreparedReplay(x) ==
    LET unknown == Reconciliation(x) = "effect_unknown"
    IN  Failure(IF unknown THEN "effect_unknown" ELSE "reconciliation_required",
                IF ObservedStaging(x) = "exact" THEN "delete_staging_moved"
                ELSE "partial_delete",
                IF unknown THEN "current_may_have_advanced" ELSE "current_advanced")

(***************************************************************************)
(* Calls.  "did" and "before" are history: the marks this attempt has left   *)
(* on the disk, and whether the plan had left any when the call read it.    *)
(***************************************************************************)
Idle == [pc |-> "idle", plan |-> NoPlan, binding |-> 0, at |-> NoTime,
         answer |-> NoAnswer, did |-> {}, before |-> FALSE, snapshot |-> <<>>,
         cancelled |-> FALSE, wasAcked |-> FALSE]

At(p, pc) == call[p].pc = pc

\* What a failing publication captures of the disk, to be compared once the lock
\* is given up: the control tree, and the places the run's tree may be in.
ControlSnapshot == control

Snapshot == <<product, quarantine, staging, ControlSnapshot>>

SnapshotHolds(p) == call[p].snapshot = Snapshot

\* Marks of a plan on the disk.
Marked(x) ==
    \/ x \in control.roots
    \/ \E n \in 1..3 : <<n, x>> \in control.revisions
    \/ x \in QPlans /\ control.exists /\ control.current = NoRevision

Goto(p, pc) == call' = [call EXCEPT ![p].pc = pc]

Answer(p, a) == call' = [call EXCEPT ![p].pc = "done", ![p].answer = a,
                                     ![p].snapshot = <<>>]

Did(p, mark, pc) ==
    call' = [call EXCEPT ![p].pc = pc, ![p].did = @ \cup {mark}]

Init ==
    /\ root = "uninitialized"
    /\ product = 1 /\ quarantine = 0
    /\ staging = [d \in DPlans |-> 0]
    /\ control = NoControl
    /\ lock = NoCaller
    /\ plan = [x \in Plans |-> [made |-> FALSE, tree |-> 0, source |-> NoPlan,
                                entered |-> NoTime, generated |-> 0, expires |-> 0,
                                hold |-> 0, auditAt |-> NoTime]]
    /\ approval = [x \in Plans |-> 0]
    /\ hold = 0
    /\ auditAt = NoTime
    /\ now \in {t \in Days : \A u \in Days : t <= u}
    /\ call = [p \in Callers |-> Idle]
    /\ acked = {}
    /\ moves = [x \in Plans |-> 0]
    /\ spare \in Scenarios

(***************************************************************************)
(* initialize_cleanup_root, under the lock of an existing run.  A root that  *)
(* is left incomplete is refused ever after.                                *)
(***************************************************************************)
InitializeRoot(p) ==
    /\ At(p, "idle")
    /\ root = "uninitialized"
    /\ lock = NoCaller
    /\ product # 0
    /\ lock' = p
    /\ root' = "incomplete"
    /\ Goto(p, "marker")
    /\ UNCHANGED <<product, quarantine, staging, control, world, acked, moves, spare>>

WriteMarker(p) ==
    /\ At(p, "marker")
    /\ root' = "initialized"
    /\ lock' = NoCaller
    /\ call' = [call EXCEPT ![p] = Idle]
    /\ UNCHANGED <<product, quarantine, staging, control, world, acked, moves, spare>>

\* An error after the first directory leaves the root incomplete.
InitializationFails(p) ==
    /\ At(p, "marker")
    /\ spare.faults > 0
    /\ spare' = [spare EXCEPT !.faults = @ - 1]
    /\ lock' = NoCaller
    /\ call' = [call EXCEPT ![p] = Idle]
    /\ UNCHANGED <<fs, world, acked, moves>>

(***************************************************************************)
(* Dry runs.  One that finds the run ineligible leaves nothing behind.      *)
(***************************************************************************)
NewPlan(x, tree, source, entered, at) ==
    plan' = [plan EXCEPT ![x] = [made |-> TRUE, tree |-> tree, source |-> source,
                                 entered |-> entered, generated |-> now,
                                 expires |-> now + 1, hold |-> hold, auditAt |-> at]]

\* evaluate_cleanup_candidate: the guards both kinds of plan share.
Candidate(at) ==
    /\ LifecycleExpired[now]
    /\ ApprovalRetentionExpired(at)
    /\ ~Held

\* dry_run_quarantine takes the run's lock for the time of its reads.
DryRunQuarantine(q) ==
    /\ RootUsable
    /\ q \in spare.plans /\ ~plan[q].made
    /\ lock = NoCaller
    /\ product # 0
    /\ ~control.exists
    /\ Candidate(auditAt)
    /\ NewPlan(q, product, NoPlan, NoTime, auditAt)
    /\ UNCHANGED <<fs, lock, approval, hold, auditAt, now, call, acked, moves, spare>>

\* dry_run_delete reads without the lock; it carries the quarantine plan's evidence on.
DryRunDelete(d) ==
    /\ RootUsable
    /\ d \in spare.plans /\ ~plan[d].made
    /\ ReadableNow(control)
    /\ control.current[1] = 1
    /\ LET q == control.current[2]
       IN  /\ quarantine = plan[q].tree
           /\ Candidate(plan[q].auditAt)
           /\ now >= control.entered + QuarantineReviewDays
           /\ NewPlan(d, quarantine, q, control.entered, plan[q].auditAt)
    /\ UNCHANGED <<fs, lock, approval, hold, auditAt, now, call, acked, moves, spare>>

(***************************************************************************)
(* execute, up to the lock: replay, then admission.                         *)
(***************************************************************************)
Begin(p, x) ==
    /\ At(p, "idle")
    /\ plan[x].made
    /\ call' = [call EXCEPT ![p] = [Idle EXCEPT !.pc = "replay", !.plan = x]]
    /\ UNCHANGED <<fs, lock, world, acked, moves, spare>>

\* read_operation: the highest revision of the plan in a readable lineage, 0
\* when there is none.
Operation(x) ==
    LET own == {n \in 1..3 : <<n, x>> \in Reachable(control)}
    IN  IF own = {} THEN 0 ELSE CHOOSE n \in own : \A k \in own : k <= n

\* The answer to a lineage that cannot be read.
UnreadableReplay(x) ==
    IF Reconciliation(x) = "no_effect" THEN Refused ELSE UncertainReplay(x)

\* What execute makes of what it reads first.
Replay(p) ==
    LET x == call[p].plan
        answered == IF ~control.exists THEN NoAnswer
                    ELSE IF ~ReadableNow(control) THEN UnreadableReplay(x)
                    ELSE IF Operation(x) = 0 THEN NoAnswer
                    ELSE IF <<Operation(x), x>> = FinalRevision(x) THEN Committed
                    ELSE PreparedReplay(x)
    IN  /\ At(p, "replay")
        /\ call' = [call EXCEPT ![p].pc = IF answered = NoAnswer THEN "admit" ELSE "done",
                                ![p].answer = answered,
                                ![p].before = Marked(x),
                                ![p].wasAcked = x \in acked]
        /\ acked' = IF answered = Committed THEN acked \cup {x} ELSE acked
        /\ UNCHANGED <<fs, lock, world, moves, spare>>

\* What the second read of the current cleanup revision finds, before the lock.
AdmissionAnswer(x) ==
    IF x \in QPlans
    THEN IF ~control.exists THEN NoAnswer
         ELSE IF ReadableNow(control) /\ control.current = <<1, x>> THEN Committed
         ELSE Refused
    ELSE IF ~control.exists \/ ~ReadableNow(control) THEN Refused
    ELSE IF control.current[1] = 1 THEN NoAnswer
    ELSE IF control.current = <<3, x>> THEN Committed
    ELSE IF control.current = <<2, x>>
    THEN Failure("reconciliation_required", "none", "none")
    ELSE Refused

Admit(p) ==
    LET x == call[p].plan
        binding == approval[x]
        answered ==
          IF call[p].cancelled \/ ~Approved(x, binding) THEN Refused
          ELSE IF AdmissionAnswer(x) # NoAnswer THEN AdmissionAnswer(x)
          ELSE IF ~(IF x \in QPlans THEN QuarantineEligible(x) ELSE DeleteEligible(x, {}))
          THEN Refused
          ELSE NoAnswer
    IN  /\ At(p, "admit")
        /\ call' = [call EXCEPT ![p].pc = IF answered = NoAnswer THEN "lock" ELSE "done",
                                ![p].answer = answered,
                                ![p].binding = binding]
        /\ acked' = IF answered = Committed THEN acked \cup {x} ELSE acked
        /\ UNCHANGED <<fs, lock, world, moves, spare>>

\* authorize_in_lock
Authorized(p) ==
    LET x == call[p].plan
    IN  /\ ~call[p].cancelled
        /\ Approved(x, call[p].binding)
        /\ IF x \in QPlans THEN QuarantineEligible(x)
           ELSE DeleteEligible(x, control.journals \cap {x})

\* The checks on the source and the destination, repeated before each effect.
QuarantineSourceExact(q) == product = plan[q].tree /\ quarantine = 0

DeleteSourceExact(d) ==
    /\ quarantine = plan[d].tree
    /\ control.current = <<1, plan[d].source>>
    /\ staging[d] = 0

(***************************************************************************)
(* The lock is tried once.  With it the executor checks everything again,    *)
(* and gives it back at once when something does not hold.                  *)
(***************************************************************************)
LockBusy(p) ==
    /\ At(p, "lock")
    /\ lock # NoCaller
    /\ Answer(p, Locked)
    /\ UNCHANGED <<fs, lock, world, acked, moves, spare>>

LockQuarantine(p) ==
    LET q == call[p].plan
    IN  /\ At(p, "lock") /\ q \in QPlans
        /\ lock = NoCaller
        /\ IF QuarantineSourceExact(q) /\ ~control.exists /\ Authorized(p)
           THEN lock' = p /\ Goto(p, "q_scaffold")
           ELSE lock' = lock /\ Answer(p, Refused)
        /\ UNCHANGED <<fs, world, acked, moves, spare>>

LockDelete(p) ==
    LET d == call[p].plan
    IN  /\ At(p, "lock") /\ d \in DPlans
        /\ lock = NoCaller
        /\ IF /\ ReadableNow(control) /\ DeleteSourceExact(d) /\ Authorized(p)
              /\ d \notin control.roots
           THEN lock' = p /\ Goto(p, "d_root")
           ELSE lock' = lock /\ Answer(p, Refused)
        /\ UNCHANGED <<fs, world, acked, moves, spare>>

(***************************************************************************)
(* Quarantine: scaffold, journal, effect, revision and pointer.             *)
(***************************************************************************)
\* A call that is cancelled before its journal is written gives up at once.
QScaffold(p) ==
    /\ At(p, "q_scaffold")
    /\ ~call[p].cancelled
    /\ control' = [NoControl EXCEPT !.exists = TRUE, !.roots = {call[p].plan}]
    /\ Did(p, "control", "q_journal")
    /\ UNCHANGED <<root, product, quarantine, staging, lock, world, acked, moves, spare>>

QJournal(p) ==
    /\ At(p, "q_journal")
    /\ control' = [control EXCEPT !.journals = {call[p].plan}]
    /\ Did(p, "journal", "q_authorize")
    /\ UNCHANGED <<root, product, quarantine, staging, lock, world, acked, moves, spare>>

\* The time of the effect, and the authority to have it at that time.
QAuthorize(p) ==
    /\ At(p, "q_authorize")
    /\ Authorized(p)
    /\ PendingQuarantine(control, call[p].plan, {}, {})
    /\ QuarantineSourceExact(call[p].plan)
    /\ call' = [call EXCEPT ![p].pc = "q_move", ![p].at = now]
    /\ UNCHANGED <<fs, lock, world, acked, moves, spare>>

QMove(p) ==
    /\ At(p, "q_move")
    /\ quarantine' = product
    /\ product' = 0
    /\ moves' = [moves EXCEPT ![call[p].plan] = @ + 1]
    /\ Did(p, "moved", "q_revision")
    /\ UNCHANGED <<root, staging, control, lock, world, acked, spare>>

\* The four artifacts of r1 and the temporary of the pointer.
QRevision(p) ==
    LET q == call[p].plan
    IN  /\ At(p, "q_revision")
        /\ product = 0 /\ quarantine = plan[q].tree
        /\ PendingQuarantine(control, q, {}, {})
        /\ control' = [control EXCEPT !.revisions = {<<1, q>>}, !.pending = {<<1, q>>}]
        /\ Did(p, "revision", "q_pointer")
        /\ UNCHANGED <<root, product, quarantine, staging, lock, world, acked, moves, spare>>

QPointer(p) ==
    LET q == call[p].plan
    IN  /\ At(p, "q_pointer")
        /\ product = 0 /\ quarantine = plan[q].tree
        /\ PendingQuarantine(control, q, {<<1, q>>}, {<<1, q>>})
        /\ control' = [control EXCEPT !.pending = {}, !.current = <<1, q>>,
                                      !.entered = call[p].at]
        /\ Did(p, "pointer", "confirm")
        /\ UNCHANGED <<root, product, quarantine, staging, lock, world, acked, moves, spare>>

(***************************************************************************)
(* Deletion: journal, staging, r2, the unlinks, r3.                         *)
(***************************************************************************)
DRoot(p) ==
    /\ At(p, "d_root")
    /\ ~call[p].cancelled
    /\ control' = [control EXCEPT !.roots = @ \cup {call[p].plan}]
    /\ Did(p, "control", "d_journal")
    /\ UNCHANGED <<root, product, quarantine, staging, lock, world, acked, moves, spare>>

DJournal(p) ==
    /\ At(p, "d_journal")
    /\ control' = [control EXCEPT !.journals = @ \cup {call[p].plan}]
    /\ Did(p, "journal", "d_authorize")
    /\ UNCHANGED <<root, product, quarantine, staging, lock, world, acked, moves, spare>>

DAuthorize(p) ==
    LET d == call[p].plan
    IN  /\ At(p, "d_authorize")
        /\ Authorized(p)
        /\ Readable(control, {d}, {}, {})
        /\ DeleteSourceExact(d)
        /\ call' = [call EXCEPT ![p].pc = "d_stage", ![p].at = now]
        /\ UNCHANGED <<fs, lock, world, acked, moves, spare>>

DStage(p) ==
    LET d == call[p].plan
    IN  /\ At(p, "d_stage")
        /\ staging' = [staging EXCEPT ![d] = Entries + 1]
        /\ quarantine' = 0
        /\ moves' = [moves EXCEPT ![d] = @ + 1]
        /\ Did(p, "moved", "d_prepare")
        /\ UNCHANGED <<root, product, control, lock, world, acked, spare>>

\* mutant: the pointer of r2 is never prepared.
Mut_DPrepare(p) ==
    LET d == call[p].plan
    IN  /\ At(p, "d_prepare")
        /\ control' = [control EXCEPT !.revisions = @ \cup {<<2, d>>}]
        /\ Did(p, "revision", "d_unlink")
        /\ UNCHANGED <<root, product, quarantine, staging, lock, world, acked, moves, spare>>

\* r2 and the temporary of its pointer.
DPrepare(p) ==
    LET d == call[p].plan
    IN  /\ At(p, "d_prepare")
        /\ quarantine = 0 /\ staging[d] = Entries + 1
        /\ control' = [control EXCEPT !.revisions = @ \cup {<<2, d>>}, !.pending = {<<2, d>>}]
        /\ Did(p, "revision", "d_prepared")
        /\ UNCHANGED <<root, product, quarantine, staging, lock, world, acked, moves, spare>>

DPrepared(p) ==
    LET d == call[p].plan
    IN  /\ At(p, "d_prepared")
        /\ quarantine = 0 /\ staging[d] = Entries + 1
        /\ Readable(control, {d}, {<<2, d>>}, {<<2, d>>})
        /\ control.current = <<1, plan[d].source>>
        /\ control' = [control EXCEPT !.pending = {}, !.current = <<2, d>>]
        /\ Did(p, "pointer", "d_reread")
        /\ UNCHANGED <<root, product, quarantine, staging, lock, world, acked, moves, spare>>

\* Only when r2 has been read back is it known to be published.
DReread(p) ==
    LET d == call[p].plan
    IN  /\ At(p, "d_reread")
        /\ ReadableNow(control) /\ control.current = <<2, d>>
        /\ Goto(p, "d_unlink")
        /\ UNCHANGED <<fs, lock, world, acked, moves, spare>>

\* One entry, or at last the emptied directory itself; a cancellation is
\* looked for before each.
DUnlink(p) ==
    LET d == call[p].plan
    IN  /\ At(p, "d_unlink")
        /\ ~call[p].cancelled
        /\ staging' = [staging EXCEPT ![d] = @ - 1]
        /\ Did(p, "unlinked", IF staging[d] = 1 THEN "d_revision" ELSE "d_unlink")
        /\ UNCHANGED <<root, product, quarantine, control, lock, world, acked, moves, spare>>

\* r3, and after another look at r2 the temporary of its pointer.
DRevision(p) ==
    LET d == call[p].plan
    IN  /\ At(p, "d_revision")
        /\ ReadableNow(control) /\ control.current = <<2, d>>
        /\ quarantine = 0 /\ staging[d] = 0
        /\ control' = [control EXCEPT !.revisions = @ \cup {<<3, d>>}, !.pending = {<<3, d>>}]
        /\ Goto(p, "d_pointer")
        /\ UNCHANGED <<root, product, quarantine, staging, lock, world, acked, moves, spare>>

DPointer(p) ==
    LET d == call[p].plan
    IN  /\ At(p, "d_pointer")
        /\ quarantine = 0 /\ staging[d] = 0
        /\ control.current = <<2, d>>
        /\ control' = [control EXCEPT !.pending = {}, !.current = <<3, d>>]
        /\ Goto(p, "confirm")
        /\ UNCHANGED <<root, product, quarantine, staging, lock, world, acked, moves, spare>>

(***************************************************************************)
(* The end of a publication: the pointer is read back, the lock given up,    *)
(* and everything is read once more without it.                             *)
(***************************************************************************)
Confirm(p, x) ==
    /\ At(p, "confirm") /\ call[p].plan = x
    /\ ReadableNow(control) /\ control.current = FinalRevision(x)
    /\ lock' = NoCaller
    /\ Goto(p, "released")
    /\ UNCHANGED <<fs, world, acked, moves, spare>>

QConfirm(p) == \E q \in QPlans : product = 0 /\ quarantine = plan[q].tree /\ Confirm(p, q)

DConfirm(p) == \E d \in DPlans : quarantine = 0 /\ staging[d] = 0 /\ Confirm(p, d)

\* Another executor may have had the lock in the meantime.
Released(p, x, same, effect) ==
    /\ At(p, "released") /\ call[p].plan = x
    /\ Answer(p, IF same /\ ReadableNow(control) /\ control.current = FinalRevision(x)
                 THEN Committed
                 ELSE Failure("effect_unknown", effect, "current_may_have_advanced"))
    /\ acked' = IF call'[p].answer = Committed THEN acked \cup {x} ELSE acked
    /\ UNCHANGED <<fs, lock, world, moves, spare>>

QReleased(p) ==
    \E q \in QPlans : Released(p, q, product = 0 /\ quarantine = plan[q].tree, "source_moved")

DReleased(p) ==
    \E d \in DPlans : Released(p, d, quarantine = 0 /\ staging[d] = 0, "partial_delete")

(***************************************************************************)
(* The end of a publication that fails, with the lock held.  What may be     *)
(* said, and whether the journal can be taken back, depends on how far it    *)
(* got, which is what the code's flags record.                              *)
(***************************************************************************)
Publishing(p) == lock = p /\ call[p].pc \notin {"marker", "failed"}

PointerAttempted(p) == call[p].pc \in {"q_pointer", "confirm", "d_prepared", "d_reread", "d_pointer"}

\* A journal is taken back only when it was written, and nothing moved yet.
RollsBack(p) == call[p].did # {} /\ "moved" \notin call[p].did

Rolled(x) ==
    IF x \in QPlans THEN NoControl
    ELSE [control EXCEPT !.roots = @ \ {x}, !.journals = @ \ {x}]

StagingEffect(d) ==
    IF staging[d] = Entries + 1 THEN "delete_staging_moved" ELSE "partial_delete"

\* current_failure_uncertain
CurrentUncertain(x) ==
    IF x \in QPlans THEN ObservedCurrent(x) # "absent"
    ELSE ObservedCurrent(x) # "prior"

\* The answers when nothing can be taken back any more.
QMovedFailure(p) ==
    IF PointerAttempted(p) \/ CurrentUncertain(call[p].plan)
    THEN Failure("effect_unknown", "source_moved", "current_may_have_advanced")
    ELSE Failure("reconciliation_required", "source_moved", "current_unchanged")

DMovedFailure(p) ==
    LET d == call[p].plan
    IN  IF PointerAttempted(p) \/ CurrentUncertain(d)
        THEN Failure("effect_unknown", StagingEffect(d), "current_may_have_advanced")
        ELSE Failure("reconciliation_required", StagingEffect(d),
                     IF At(p, "d_unlink") \/ At(p, "d_revision")
                     THEN "current_advanced" ELSE "current_unchanged")

\* mutant: a failure after the journal is answered like a refusal.
Mut_JournalFailure(p) == Refused

\* What a failure between the journal and the move is answered.
JournalFailure(p) ==
    Failure("reconciliation_required",
            IF call[p].plan \in QPlans /\ "journal" \notin call[p].did
            THEN "control_published" ELSE "journal_only",
            "current_unchanged")

\* Why a publication fails without an I/O error: a check before an effect does
\* not hold any more, or the caller has cancelled.
CheckFails(p) ==
    \/ At(p, "q_scaffold") /\ call[p].cancelled
    \/ At(p, "d_root") /\ call[p].cancelled
    \/ At(p, "d_unlink") /\ call[p].cancelled
    \/ At(p, "q_authorize") /\ ~Authorized(p)
    \/ At(p, "d_authorize") /\ ~Authorized(p)

\* rolledBack says whether taking the journal back works.
Unwind(p, rolledBack) ==
    LET answered == IF call[p].did = {} \/ (RollsBack(p) /\ rolledBack) THEN Refused
                    ELSE IF RollsBack(p) THEN JournalFailure(p)
                    ELSE IF call[p].plan \in QPlans THEN QMovedFailure(p) ELSE DMovedFailure(p)
    IN  /\ control' = IF RollsBack(p) /\ rolledBack THEN Rolled(call[p].plan) ELSE control
        /\ UNCHANGED <<root, product, quarantine, staging, lock, world, acked, moves>>
        /\ call' = [call EXCEPT ![p].pc = "failed", ![p].answer = answered,
                                ![p].did = IF RollsBack(p) /\ rolledBack THEN {} ELSE @,
                                ![p].snapshot = Snapshot']

FailCheck(p) ==
    /\ Publishing(p)
    /\ CheckFails(p)
    /\ spare' = spare
    /\ Unwind(p, TRUE)

\* An I/O error in the step that is due, and perhaps in the rollback too; a
\* directory whose journal was never written cannot be taken back.
FailIO(p) ==
    /\ Publishing(p)
    /\ spare.faults > 0
    /\ spare' = [spare EXCEPT !.faults = @ - 1]
    /\ \E rolledBack \in BOOLEAN : Unwind(p, rolledBack)

\* The lock is given up; the release may fail, which leaves everything open.
FailedRelease(p) ==
    /\ At(p, "failed") /\ lock = p
    /\ lock' = NoCaller
    /\ \/ spare' = spare /\ UNCHANGED call
       \/ /\ spare.faults > 0
          /\ spare' = [spare EXCEPT !.faults = @ - 1]
          /\ call' = [call EXCEPT ![p].answer =
                        Failure("effect_unknown", @.fs, "current_may_have_advanced")]
    /\ UNCHANGED <<fs, world, acked, moves>>

\* What the disk shows after the release must be what it showed before it.
FailedReturn(p) ==
    /\ At(p, "failed") /\ lock # p
    /\ Answer(p, IF SnapshotHolds(p)
                 THEN call[p].answer
                 ELSE Failure("effect_unknown", call[p].answer.fs,
                              "current_may_have_advanced"))
    /\ UNCHANGED <<fs, lock, world, acked, moves, spare>>

\* The caller reads its answer and may call again.
Return(p) ==
    /\ At(p, "done")
    /\ call' = [call EXCEPT ![p] = Idle]
    /\ UNCHANGED <<fs, lock, world, acked, moves, spare>>

\* A process dies: the operating system frees its lock, the disk stays.
Crash(p) ==
    /\ ~At(p, "idle") /\ ~At(p, "done")
    /\ spare.crashes > 0
    /\ spare' = [spare EXCEPT !.crashes = @ - 1]
    /\ lock' = IF lock = p THEN NoCaller ELSE lock
    /\ call' = [call EXCEPT ![p] = Idle]
    /\ UNCHANGED <<fs, world, acked, moves>>

(***************************************************************************)
(* The world outside.                                                      *)
(***************************************************************************)
Disturb ==
    /\ spare.disturbances > 0
    /\ spare' = [spare EXCEPT !.disturbances = @ - 1]

Approve(x) ==
    /\ plan[x].made /\ approval[x] = 0
    /\ approval' = [approval EXCEPT ![x] = 1]
    /\ UNCHANGED <<fs, lock, plan, hold, auditAt, now, call, acked, moves, spare>>

\* Another revision of the approval run, or another decision.
ReplaceApproval(x) ==
    /\ Disturb
    /\ approval[x] = 1
    /\ approval' = [approval EXCEPT ![x] = 2]
    /\ UNCHANGED <<fs, lock, plan, hold, auditAt, now, call, acked, moves>>

\* A hold is placed, or lifted again.
ChangeHold ==
    /\ Disturb
    /\ hold' = hold + 1
    /\ UNCHANGED <<fs, lock, plan, approval, auditAt, now, call, acked, moves>>

\* The product store records an approval failure in the run, under its lock.
RecordAuditEvent ==
    /\ Disturb
    /\ lock = NoCaller /\ product # 0
    /\ product' = product + 1
    /\ auditAt' = now
    /\ UNCHANGED <<root, quarantine, staging, control, lock, plan, approval, hold, now,
                   call, acked, moves>>

Cancel(p) ==
    /\ Disturb
    /\ ~At(p, "idle") /\ ~At(p, "marker") /\ ~call[p].cancelled
    /\ call' = [call EXCEPT ![p].cancelled = TRUE]
    /\ UNCHANGED <<fs, lock, world, acked, moves>>

Tick ==
    /\ \E t \in Days : t > now
    /\ now' = CHOOSE t \in Days : t > now /\ \A u \in Days : u > now => t <= u
    /\ UNCHANGED <<fs, lock, plan, approval, hold, auditAt, call, acked, moves, spare>>

Quarantine(p) ==
    \/ LockQuarantine(p) \/ QScaffold(p) \/ QJournal(p) \/ QAuthorize(p) \/ QMove(p)
    \/ QRevision(p) \/ QPointer(p) \/ QConfirm(p) \/ QReleased(p)

Delete(p) ==
    \/ LockDelete(p) \/ DRoot(p) \/ DJournal(p) \/ DAuthorize(p) \/ DStage(p)
    \/ DPrepare(p) \/ DPrepared(p) \/ DReread(p) \/ DUnlink(p) \/ DRevision(p)
    \/ DPointer(p) \/ DConfirm(p) \/ DReleased(p)

Fail(p) == FailCheck(p) \/ FailIO(p) \/ FailedRelease(p) \/ FailedReturn(p)

Execute(p) ==
    \/ Replay(p) \/ Admit(p) \/ LockBusy(p)
    \/ Quarantine(p) \/ Delete(p) \/ Fail(p)

World ==
    \/ ChangeHold \/ RecordAuditEvent \/ Tick
    \/ \E x \in Plans : Approve(x) \/ ReplaceApproval(x)
    \/ \E p \in Callers : Cancel(p) \/ Crash(p)

Next ==
    \/ \E p \in Callers : InitializeRoot(p) \/ WriteMarker(p) \/ InitializationFails(p)
                        \/ Return(p) \/ Execute(p)
    \/ \E p \in Callers, x \in Plans : Begin(p, x)
    \/ \E q \in QPlans : DryRunQuarantine(q)
    \/ \E d \in DPlans : DryRunDelete(d)
    \/ World

Spec == Init /\ [][Next]_vars

(***************************************************************************)
(* Properties.                                                             *)
(***************************************************************************)
\* The shape of the state: codes, counters and the day are in their ranges.
TypeOK ==
    /\ root \in {"uninitialized", "incomplete", "initialized"}
    /\ product \in Nat /\ quarantine \in Nat
    /\ staging \in [DPlans -> 0..(Entries + 1)]
    /\ control \in ControlRecord
    /\ plan \in [Plans -> PlanRecord]
    /\ \A p \in Callers : call[p].answer \in AnswerRecord
    /\ lock \in Callers \cup {NoCaller}
    /\ now \in Days
    /\ acked \subseteq Plans

(***************************************************************************)
(* The run's payload is always in exactly one place, whole, and is the tree  *)
(* the plan that moved it was made for; entries are missing from it only      *)
(* when the revision that announces its deletion (r2) has been published, and *)
(* it is gone altogether only then.  Two executors, a crash between the       *)
(* rename, the journal and the pointer (_publish_quarantine, _publish_delete) *)
(* and any failure in between must keep it so.                               *)
(***************************************************************************)
PayloadAccounted ==
    LET staged == {d \in DPlans : staging[d] # 0}
    IN  /\ Cardinality(staged)
             + (IF product # 0 THEN 1 ELSE 0) + (IF quarantine # 0 THEN 1 ELSE 0) <= 1
        /\ \A d \in staged : /\ d \in control.journals
                              /\ staging[d] # Entries + 1 => control.current = <<2, d>>
        /\ quarantine # 0 => \E q \in QPlans \cap control.journals : quarantine = plan[q].tree
        /\ (product = 0 /\ quarantine = 0 /\ staged = {}) => control.current[1] \in {2, 3}

(***************************************************************************)
(* An answer is true.  A failure that asks for no reconciliation means that  *)
(* this attempt left nothing on the disk and that the plan had left nothing   *)
(* when the call looked; "committed" means the final revision of the plan is  *)
(* on record; "current_unchanged" that no pointer was replaced, and           *)
(* "current_advanced" that r2 is on record (the closed failure matrix and the *)
(* handlers at the end of the two publications).                             *)
(***************************************************************************)
AnswersHonest ==
    \A p \in Callers : At(p, "done") =>
      LET a == call[p].answer
          x == call[p].plan
      IN  /\ (~Uncertain(a) /\ a.code # "committed") => call[p].did = {} /\ ~call[p].before
          /\ a.code = "committed" => FinalRevision(x) \in control.revisions
          /\ a.domain = "current_unchanged" => "pointer" \notin call[p].did
          /\ a.domain = "current_advanced" => <<2, x>> \in control.revisions
          /\ (a.code # "committed" /\ a.fs \in {"none", "journal_only", "control_published"})
               => "moved" \notin call[p].did

(***************************************************************************)
(* What was once answered "committed" stays so: its final revision stays on   *)
(* record through everything that follows, a repetition of the call is        *)
(* answered "committed", or "effect_unknown" while a later transaction is      *)
(* unfinished, and no plan ever moves the tree twice (read_operation comes     *)
(* before everything else in execute).                                        *)
(***************************************************************************)
CommittedIsRemembered ==
    /\ \A x \in acked : FinalRevision(x) \in control.revisions
    /\ \A p \in Callers : (At(p, "done") /\ call[p].wasAcked) =>
                            call[p].answer.code \in {"committed", "effect_unknown"}
    /\ \A x \in Plans : moves[x] <= 1

(***************************************************************************)
(* Nothing goes early: the run leaves the product root on a day its           *)
(* retention has expired, and leaves quarantine no sooner than the review      *)
(* period after the entry its tombstone records, under a plan made for that    *)
(* very entry.  The clock moves, approvals and holds change and other plans    *)
(* are executed between the dry run and the effect.                            *)
(***************************************************************************)
NothingGoesEarly ==
    /\ control.entered # NoTime =>
         /\ control.entered >= PublishedAt + LifecycleAuditDays
         /\ \A e \in PayloadEvidence :
              control.entered >=
                PublishedAt + RetentionProfile[ClassificationOutcome(e).class].days
    /\ \A d \in DPlans : moves[d] > 0 =>
         /\ now >= control.entered + QuarantineReviewDays
         /\ plan[d].entered = control.entered
         /\ <<1, plan[d].source>> \in control.revisions
===============================================================================

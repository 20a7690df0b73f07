---------------------------- MODULE TerminalStore ----------------------------
(***************************************************************************)
(* storage/terminal_store.py: processes that publish product revisions of  *)
(* one run.  TerminalRunStore.publish moves current.json to a new revision *)
(* under the run's authority lock; DurableBudgetCoordinator reserves and   *)
(* starts a permit in the budget run before that and settles it with the   *)
(* digest of the pointer after it.  No transaction spans the two roots:    *)
(* every call of either is a step, a call may fail with or without having  *)
(* taken effect, and a process may die between any two steps.              *)
(*                                                                         *)
(* A digest of a pointer or manifest is modelled by the revision it names. *)
(* The permit, the reservation and the settlement of a transaction are     *)
(* derived from its id, so Permit is also the set of transactions.         *)
(***************************************************************************)
EXTENDS BudgetState

CONSTANTS
    Writer,        \* processes with a TerminalRunStore on the run
    Body,          \* contents of a publication, each with its terminal status
    RunPolicy,     \* the BudgetPolicyV2 of the run, with one slot
    Asked,         \* remaining_active_runtime_ns of a request
    MaxRevision,
    Environment    \* what may happen around the calls, in one behaviour

Surroundings ==
    [faults : Nat,           \* how many more calls may fail
     crashes : Nat,          \* how many more processes may die
     elapsed : SUBSET Nat,   \* active runtime of the file operations
     refusals : BOOLEAN,     \* the caller's guards may refuse
     others : BOOLEAN]       \* the lock may be held by another component

ASSUME TerminalAssumption ==
    /\ RunPolicy \in Policy /\ RunPolicy.slots = 1
    /\ Asked \in Nat /\ MaxRevision \in Nat \ {0}
    /\ Body \subseteq {"approval_required", "succeeded", "failed"}
    /\ Null \notin Writer \cup Permit
    /\ Environment \subseteq Surroundings

VARIABLES
    current,   \* the revision that current.json names, or Null
    revs,      \* complete directories under revisions/
    staging,   \* transactions with a directory under transactions/
    lock,      \* the writer that holds the run's authority, or Null
    budget,    \* the current DurableBudgetStateV1
    proc,      \* what each process remembers, and where it is
    acked,     \* revisions whose publication was reported
    env        \* a member of Environment, with the faults and crashes left

vars == <<current, revs, staging, lock, budget, proc, acked, env>>
disk == <<current, revs, staging>>

-----------------------------------------------------------------------------
(* Requests, revisions and reports.                                         *)

Number == 1..MaxRevision
PointerId == [txn : Permit, body : Body, num : Number]
Revision == [txn : Permit, body : Body, num : Number, base : PointerId \cup {Null}]

\* A record is not Null.
ASSUME RecordAssumption == Null \notin PointerId /\ Null \notin Revision

IdOf(r) == IF r = Null THEN Null ELSE [txn |-> r.txn, body |-> r.body, num |-> r.num]

Code == {"none", "published", "current_committed", "run_locked", "budget_reservation_failed",
         "run_conflict", "idempotency_conflict", "run_corrupt", "budget_settlement_failed",
         "effect_unknown", "durability_unconfirmed", "refused"}
FsEffect == {"none", "control_only", "staging_orphan", "unreferenced_revision",
             "current_advanced"}
DomainEffect == {"current_unchanged", "current_advanced"}

Report(code, fs, domain) == [code |-> code, fs |-> fs, domain |-> domain]
NoReport == Report("none", "none", "current_unchanged")

Step == {"idle", "create", "freeze", "reserve", "start", "lock", "admit", "guard", "stage",
         "rename", "verify", "replace", "settle", "confirm", "release", "unlock"}

\* rev: the prepared revision; runtime: the reservation frozen in its binding;
\* renamed, replaced: revision_published and pointer_published; did: what the
\* call has really done to the files (late: os.replace of current.json failed
\* after its effect).
Proc ==
    [pc : Step, rev : Revision \cup {Null}, runtime : Nat, renamed : BOOLEAN,
     replaced : BOOLEAN, did : {"nothing", "staged", "renamed", "advanced", "late"},
     report : [code : Code, fs : FsEffect, domain : DomainEffect]]

Idle ==
    [pc |-> "idle", rev |-> Null, runtime |-> 0, renamed |-> FALSE, replaced |-> FALSE,
     did |-> "nothing", report |-> NoReport]

At(w, pc) == proc[w].pc = pc
Goto(w, pc) == proc' = [proc EXCEPT ![w].pc = pc]
Fault == env.faults > 0 /\ env' = [env EXCEPT !.faults = @ - 1]

-----------------------------------------------------------------------------
(* The budget operations of the coordinator, with their operation ids.      *)

Written == [r \in Resource |-> 1]

InitializeBudget(t) == [id |-> <<"initialize", t>>, kind |-> "initialize", policy |-> RunPolicy]
ReservePermit(r, runtime) ==
    [id |-> <<"reserve", r.txn>>, kind |-> "reserve", permit |-> r.txn, amount |-> Written,
     runtime |-> runtime, class |-> "local_free", binding |-> Null, body |-> r.body,
     lineage |-> [attempt |-> <<r.txn, r.num>>, parent |-> Null, root |-> <<r.txn, r.num>>,
                  ordinal |-> r.num - 1]]
StartPermit(r) == [id |-> <<"start", r.txn, r.num>>, kind |-> "start", permit |-> r.txn]
SettlePermit(r) ==
    [id |-> <<"settle", r.txn>>, kind |-> "settle", permit |-> r.txn, actual |-> Written,
     status |-> IF r.body = "failed" THEN "failed" ELSE "succeeded",
     evidence |-> IdOf(r), cancelEvidence |-> Null,
     category |-> IF r.body = "failed" THEN "internal" ELSE Null,
     authenticated |-> FALSE, peak |-> 1]
\* mutant: a publication that failed is settled as failed.
Mut_ReleasePermit(r, effect) == [SettlePermit(r) EXCEPT !.status = "failed",
                                                        !.category = "internal"]
ReleasePermit(r, effect) ==
    [id |-> <<"settle", r.txn>>, kind |-> "release", permit |-> r.txn,
     evidence |-> [txn |-> r.txn, effect |-> effect]]

\* Every request of the coordinator, for the constant Request.
BudgetRequest ==
    LET revisions == [txn : Permit, body : Body, num : Number]
    IN  {InitializeBudget(t) : t \in Permit}
        \cup {ReservePermit(r, n) : r \in revisions, n \in 0..Asked}
        \cup {StartPermit(r) : r \in revisions} \cup {SettlePermit(r) : r \in revisions}
        \cup {ReleasePermit(r, effect) : r \in revisions, effect \in FsEffect}

\* What the requests carry has its type.
ASSUME BudgetRequestAssumption == BudgetRequest \subseteq Request

Accepts(q, el) ==
    /\ ~Recorded(budget, q.id)
    /\ Admits(budget, q, el)
    /\ ValidSnapshot(Apply(budget, q, el))

\* One call of a DurableBudgetStore operation: an exact repetition answers with
\* the recorded result, and a fault may leave the operation behind.
Applies(q, el) ==
    /\ UNCHANGED env
    /\ \/ RecordedExactly(budget, q) /\ UNCHANGED budget
       \/ Accepts(q, el) /\ budget' = Apply(budget, q, el)
Refuses(q, el) ==
    \/ /\ ~RecordedExactly(budget, q) /\ ~Accepts(q, el)
       /\ UNCHANGED <<budget, env>>
    \/ /\ Fault
       /\ budget' \in {budget} \cup {Apply(budget, x, el) : x \in {y \in {q} : Accepts(y, el)}}

\* _requested_active_runtime
Requested == FSE!Min({Asked, FSE!Max({0, budget.policy.runtime - budget.runtime})})

-----------------------------------------------------------------------------
(* read_current.                                                            *)

\* The revisions that the walk from current.json to revision one meets: each
\* number has one directory, whose digests its successor names.
Walk ==
    IF current = Null THEN {}
    ELSE {c \in [1..current.num -> revs] :
            /\ c[current.num] = current
            /\ \A n \in 1..(current.num - 1) :
                 {r \in revs : r.num = n} = {c[n]} /\ c[n + 1].base = IdOf(c[n])}
Reachable == UNION {{c[n] : n \in 1..current.num} : c \in Walk}

\* The permit was settled with the digest of this revision's pointer.
SettledFor(r) ==
    /\ RecordedExactly(budget, SettlePermit(r))
    /\ budget.settled[r.txn] \in {"succeeded", "failed", "cancelled"}

\* How read_current ends, of a run with a pointer.
ReadCode ==
    CASE Walk = {} -> "run_corrupt"
      [] Walk # {} /\ ~(budget.latch = Null /\ \A r \in Reachable : SettledFor(r))
           -> "budget_settlement_failed"
      [] OTHER -> "none"

Unreadable == Report("run_corrupt", "none", "current_unchanged")
ReadFailure ==
    IF ReadCode = "run_corrupt" THEN Unreadable
    ELSE Report("budget_settlement_failed", "current_advanced", "current_advanced")

-----------------------------------------------------------------------------
(* The caller: it reads the run, prepares a request on what it has read and *)
(* freezes its budget binding.                                              *)

\* Revisions are numbered from 1 without a gap.
NextRevision == IF current = Null THEN 1 ELSE current.num + 1

\* _current_product_or_none, resume_eligible, and _prepare.
ObserveRun(w) ==
    /\ At(w, "idle")
    /\ current # Null => /\ ReadCode = "none" /\ current.body = "approval_required"
                         /\ current.num < MaxRevision
    /\ current = Null => revs = {} /\ staging = {}
    /\ \E t \in Permit, b \in Body :
         proc' = [proc EXCEPT ![w] =
                    [Idle EXCEPT !.pc = "create",
                       !.rev = [txn |-> t, body |-> b, base |-> IdOf(current),
                                num |-> NextRevision]]]
    /\ UNCHANGED <<disk, lock, budget, acked, env>>

\* _state: the conflict with a run that another operation has created is ignored.
CreateBudget(w) ==
    /\ At(w, "create")
    /\ LET q == InitializeBudget(proc[w].rev.txn)
       IN  \/ Applies(q, 0) /\ Goto(w, "freeze")
           \/ /\ budget.ops # <<>> /\ ~RecordedExactly(budget, q)
              /\ Goto(w, "freeze") /\ UNCHANGED <<budget, env>>
           \/ budget.ops = <<>> /\ Refuses(q, 0) /\ proc' = [proc EXCEPT ![w] = Idle]
    /\ UNCHANGED <<disk, lock, acked>>

\* freeze_budget_binding
FreezeBinding(w) ==
    /\ At(w, "freeze")
    /\ proc' = [proc EXCEPT ![w].pc = "reserve", ![w].runtime = Requested]
    /\ UNCHANGED <<disk, lock, budget, acked, env>>

\* A caller that is not sure of the answer publishes the same request again.
RepeatPublish(w) ==
    /\ At(w, "idle") /\ proc[w].rev # Null
    /\ proc' = [proc EXCEPT ![w] = [Idle EXCEPT !.pc = "reserve", !.rev = proc[w].rev,
                                                !.runtime = proc[w].runtime]]
    /\ UNCHANGED <<disk, lock, budget, acked, env>>

-----------------------------------------------------------------------------
(* publish.                                                                 *)

\* A failure of DurableBudgetCoordinator.reserve ends the call.
ReservationFails(w) ==
    LET code == IF Active(budget) \ {proc[w].rev.txn} # {} THEN "run_locked"
                ELSE "budget_reservation_failed"
    IN  proc' = [proc EXCEPT ![w].pc = "idle",
                             ![w].report = Report(code, "none", "current_unchanged")]

\* mutant: the failure of a reservation does not end the call.
Mut_ReserveBudget(w) ==
    /\ At(w, "reserve")
    /\ LET q == ReservePermit(proc[w].rev, proc[w].runtime)
       IN  \/ Applies(q, 0) /\ Goto(w, "start")
           \/ Refuses(q, 0) /\ Goto(w, "lock")
    /\ UNCHANGED <<disk, lock, acked>>

\* The first half of DurableBudgetCoordinator.reserve, on a rebased clock.
ReserveBudget(w) ==
    /\ At(w, "reserve")
    /\ LET q == ReservePermit(proc[w].rev, proc[w].runtime)
       IN  \/ proc[w].runtime = Requested /\ Applies(q, 0) /\ Goto(w, "start")
           \/ proc[w].runtime = Requested /\ Refuses(q, 0) /\ ReservationFails(w)
           \/ /\ proc[w].runtime # Requested
              /\ ReservationFails(w) /\ UNCHANGED <<budget, env>>
    /\ UNCHANGED <<disk, lock, acked>>

\* Its second half, on a clock that is rebased again.
StartBudget(w) ==
    /\ At(w, "start")
    /\ LET q == StartPermit(proc[w].rev)
       IN  \/ Applies(q, 0) /\ Goto(w, "lock")
           \/ Refuses(q, 0) /\ ReservationFails(w)
    /\ UNCHANGED <<disk, lock, acked>>

\* The handlers of publish: what is reported, and whether the permit is released.
Fails(w, report) ==
    proc' = [proc EXCEPT ![w].pc = IF proc[w].replaced THEN "unlock" ELSE "release",
                         ![w].report = report]

\* mutant: pointer_published is not looked at.
Mut_Breaks(w) ==
    Fails(w, IF proc[w].renamed
             THEN Report("durability_unconfirmed", "unreferenced_revision", "current_unchanged")
             ELSE Report("effect_unknown", "staging_orphan", "current_unchanged"))

\* The handler of any other exception, which goes by the flags.
Breaks(w) ==
    Fails(w, CASE proc[w].replaced -> Report("budget_settlement_failed", "current_advanced",
                                             "current_advanced")
               [] ~proc[w].replaced /\ proc[w].renamed
                    -> Report("durability_unconfirmed", "unreferenced_revision",
                              "current_unchanged")
               [] OTHER -> Report("effect_unknown", "staging_orphan", "current_unchanged"))

\* The authority of the run: held by a writer, or by another component.
AcquireAuthority(w) ==
    /\ At(w, "lock")
    /\ \/ lock = Null /\ lock' = w /\ Goto(w, "admit")
       \/ /\ lock # Null \/ env.others
          /\ Fails(w, Report("run_locked", "none", "current_unchanged"))
          /\ UNCHANGED lock
    /\ UNCHANGED <<disk, budget, acked, env>>

\* _admit_current
AdmitCurrent(w) ==
    LET r == proc[w].rev
        conflict(code) == Fails(w, Report(code, "none", "current_unchanged"))
    IN  /\ At(w, "admit")
        /\ \/ /\ IdOf(current) = r.base /\ (current = Null \/ ReadCode = "none")
              /\ Goto(w, "guard") /\ UNCHANGED <<acked, env>>
           \/ /\ current # Null /\ ReadCode # "none"
              /\ Fails(w, ReadFailure) /\ UNCHANGED <<acked, env>>
           \/ current # Null /\ Fault /\ Fails(w, Unreadable) /\ UNCHANGED acked
           \/ /\ current = r /\ ReadCode = "none"
              /\ proc' = [proc EXCEPT ![w].pc = "unlock",
                            ![w].report = Report("current_committed", "none", "current_unchanged")]
              /\ acked' = acked \cup {r} /\ UNCHANGED env
           \/ /\ current # Null /\ ReadCode = "none"
              /\ current.txn = r.txn /\ current.num = r.num /\ current # r
              /\ conflict("idempotency_conflict") /\ UNCHANGED <<acked, env>>
           \/ /\ current # Null =>
                   ReadCode = "none" /\ ~(current.txn = r.txn /\ current.num = r.num)
              /\ IdOf(current) # r.base
              /\ conflict("run_conflict") /\ UNCHANGED <<acked, env>>
        /\ UNCHANGED <<disk, lock, budget>>

\* pre_manifest_verifier, whose refusal is the caller's own error, and the
\* runtime guard before staging.
VerifyAuthority(w) ==
    /\ At(w, "guard")
    /\ \/ Goto(w, "stage")
       \/ /\ env.refusals
          /\ Fails(w, Report("refused", "none", "current_unchanged"))
       \/ env.refusals /\ Breaks(w)
    /\ UNCHANGED <<disk, lock, budget, acked, env>>

\* The staging directory with its transaction, payloads, manifest and marker.
StageRevision(w) ==
    LET r == proc[w].rev
        collision == r.txn \in staging \/ \E x \in revs : x.txn = r.txn /\ x.num = r.num
        staged(pc) == [proc EXCEPT ![w].pc = pc, ![w].did = "staged"]
    IN  /\ At(w, "stage")
        /\ \/ /\ ~collision
              /\ staging' = staging \cup {r.txn} /\ proc' = staged("rename") /\ UNCHANGED env
           \/ collision /\ Breaks(w) /\ UNCHANGED <<staging, env>>
           \/ Fault /\ Breaks(w) /\ UNCHANGED staging
           \/ /\ Fault /\ ~collision
              /\ staging' = staging \cup {r.txn}
              /\ proc' = [staged("release") EXCEPT
                            ![w].report = Report("effect_unknown", "staging_orphan",
                                                 "current_unchanged")]
        /\ UNCHANGED <<current, revs, lock, budget, acked>>

\* What renaming the staging directory leaves behind.
Renamed(r) == revs' = revs \cup {r} /\ staging' = staging \ {r.txn}

\* The runtime guard, and the rename of the staging directory.
RenameRevision(w) ==
    LET r == proc[w].rev
    IN  /\ At(w, "rename")
        /\ \/ /\ Renamed(r) /\ UNCHANGED env
              /\ proc' = [proc EXCEPT ![w].pc = "verify", ![w].renamed = TRUE,
                                      ![w].did = "renamed"]
           \/ env.refusals /\ Breaks(w) /\ UNCHANGED <<revs, staging, env>>
           \/ Fault /\ Breaks(w) /\ UNCHANGED <<revs, staging>>
           \/ /\ Fault /\ Renamed(r)
              /\ proc' = [proc EXCEPT ![w].pc = "release", ![w].did = "renamed",
                            ![w].report = Report("effect_unknown", "staging_orphan",
                                                 "current_unchanged")]
        /\ UNCHANGED <<current, lock, budget, acked>>

\* The reread of the staged revision, the comparison of the pointer with the
\* expected one, and the temporary pointer.
VerifyRevision(w) ==
    /\ At(w, "verify")
    /\ \/ /\ proc[w].rev \in revs /\ IdOf(current) = proc[w].rev.base
          /\ Goto(w, "replace") /\ UNCHANGED env
       \/ /\ IdOf(current) # proc[w].rev.base /\ UNCHANGED env
          /\ Fails(w, Report("run_conflict", "unreferenced_revision", "current_unchanged"))
       \/ Fault /\ Breaks(w)
    /\ UNCHANGED <<disk, lock, budget, acked>>

\* The runtime guard, and os.replace.
ReplaceCurrent(w) ==
    LET r == proc[w].rev
    IN  /\ At(w, "replace")
        /\ \/ /\ current' = r /\ UNCHANGED env
              /\ proc' = [proc EXCEPT ![w].pc = "settle", ![w].replaced = TRUE,
                                      ![w].did = "advanced"]
           \/ env.refusals /\ Breaks(w) /\ UNCHANGED <<current, env>>
           \/ Fault /\ Breaks(w) /\ UNCHANGED current
           \/ /\ Fault /\ current' = r
              /\ proc' = [proc EXCEPT ![w].pc = "release", ![w].did = "late",
                            ![w].report = Report("durability_unconfirmed",
                                                 "unreferenced_revision", "current_unchanged")]
        /\ UNCHANGED <<revs, staging, lock, budget, acked>>

\* The reread of the pointer, the directory sync, and the settlement.
SettleBudget(w) ==
    /\ At(w, "settle")
    /\ \E el \in env.elapsed :
         LET q == SettlePermit(proc[w].rev)
         IN  \/ Applies(q, el) /\ Goto(w, "confirm")
             \/ Refuses(q, el) /\ Breaks(w)
    /\ UNCHANGED <<disk, lock, acked>>

\* The verified read that ends a publication.
ConfirmPublication(w) ==
    /\ At(w, "confirm")
    /\ \/ /\ ReadCode = "none"
          /\ proc' = [proc EXCEPT ![w].pc = "unlock",
                        ![w].report = Report("published", "current_advanced", "current_advanced")]
          /\ acked' = acked \cup {proc[w].rev} /\ UNCHANGED env
       \/ ReadCode # "none" /\ Fails(w, ReadFailure) /\ UNCHANGED <<acked, env>>
       \/ Fault /\ Fails(w, Unreadable) /\ UNCHANGED acked
    /\ UNCHANGED <<disk, lock, budget>>

\* The handler of any other exception names the effect, and reports it as
\* unknown when the permit is not released; the others swallow that.
Unforeseen(report) == report.code \in {"durability_unconfirmed", "effect_unknown"}

\* release_no_effect; a call that was refused the authority has none to release.
ReleaseBudget(w) ==
    LET report == proc[w].report
        q == ReleasePermit(proc[w].rev, IF Unforeseen(report) THEN report.fs ELSE "none")
        next == IF report.code = "run_locked" THEN "idle" ELSE "unlock"
    IN  /\ At(w, "release")
        /\ \/ Applies(q, 0) /\ Goto(w, next)
           \/ /\ Refuses(q, 0)
              /\ proc' = [proc EXCEPT ![w].pc = next,
                            ![w].report.code = IF Unforeseen(report) THEN "effect_unknown" ELSE @]
        /\ UNCHANGED <<disk, lock, acked>>

\* AuthorityLease.release in the finally: an unconfirmed release replaces the
\* answer of a call that has not moved the pointer.
ReleaseAuthority(w) ==
    /\ At(w, "unlock")
    /\ \/ lock' = Null /\ Goto(w, "idle") /\ UNCHANGED env
       \/ /\ Fault /\ lock' \in {Null, lock}
          /\ proc' = [proc EXCEPT ![w].pc = "idle",
               ![w].report = IF proc[w].replaced THEN @
                             ELSE Report("effect_unknown",
                                         IF proc[w].renamed THEN "unreferenced_revision"
                                         ELSE "control_only", "current_unchanged")]
    /\ UNCHANGED <<disk, budget, acked>>

\* The process dies; the kernel frees its lock.
Crash(w) ==
    /\ ~At(w, "idle") \/ lock = w
    /\ env.crashes > 0 /\ env' = [env EXCEPT !.crashes = @ - 1]
    /\ proc' = [proc EXCEPT ![w] = Idle]
    /\ lock' = IF lock = w THEN Null ELSE lock
    /\ UNCHANGED <<disk, budget, acked>>

-----------------------------------------------------------------------------
Init ==
    /\ current = Null /\ revs = {} /\ staging = {} /\ lock = Null
    /\ budget = Blank
    /\ proc = [w \in Writer |-> Idle]
    /\ acked = {}
    /\ env \in Environment

Next ==
    \E w \in Writer :
       \/ ObserveRun(w) \/ CreateBudget(w) \/ FreezeBinding(w) \/ RepeatPublish(w)
       \/ ReserveBudget(w) \/ StartBudget(w) \/ AcquireAuthority(w) \/ AdmitCurrent(w)
       \/ VerifyAuthority(w) \/ StageRevision(w) \/ RenameRevision(w) \/ VerifyRevision(w)
       \/ ReplaceCurrent(w) \/ SettleBudget(w) \/ ConfirmPublication(w)
       \/ ReleaseBudget(w) \/ ReleaseAuthority(w) \/ Crash(w)

Spec == Init /\ [][Next]_vars

-----------------------------------------------------------------------------
(* Properties.                                                              *)

\* The shape of the files, the budget, the processes and their reports.
TypeOK ==
    /\ current \in Revision \cup {Null} /\ revs \subseteq Revision
    /\ staging \subseteq Permit /\ acked \subseteq Revision
    /\ lock \in Writer \cup {Null}
    /\ proc \in [Writer -> Proc]
    /\ budget \in Snapshot /\ env \in Surroundings

\* Whatever failed or died, read_current can walk from current.json to revision
\* one (terminal_store.py:1366 to 1437): the directory that a failed publication
\* leaves unreferenced never shares its number with a published one, which the
\* walk would report as corruption for the rest of the run's life.
ChainIntact ==
    current # Null => Walk # {} /\ {r \in revs : r.num <= current.num} = Reachable

\* A publication that publish has confirmed stays in the chain, and its permit
\* was settled with the digest of its pointer: no answer runs ahead of the
\* other root, although no transaction spans the two.
AckedStays == \A r \in acked : r \in Reachable /\ SettledFor(r)

\* What was published can be read and stays published, in both roots (publish,
\* read_current).
PublicationsStay == ChainIntact /\ AckedStays

\* While the current revision is unsettled its permit is held: the slot of a
\* publication in doubt is never given to another one, nor released as one that
\* had no effect.
DoubtKeepsItsPermit ==
    current # Null /\ ~RecordedExactly(budget, SettlePermit(current)) =>
        budget.permit[current.txn] = "started"

\* What a call reports of the files is what it did, except that a failed reread
\* (run_corrupt) and an os.replace that failed after its effect hide an advance.
ReportsTruthful ==
    \A w \in Writer : At(w, "idle") /\ proc[w].report.code # "run_corrupt" =>
        LET r == proc[w].report
            did == proc[w].did
        IN  /\ r.domain = "current_unchanged" => did # "advanced"
            /\ r.fs = "none" => did = "nothing"
            /\ r.fs = "unreferenced_revision" => did \in {"renamed", "late"}
            /\ r.code = "published" => did = "advanced"
=============================================================================

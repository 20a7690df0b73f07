-------------------------- MODULE LegacyMigration --------------------------
(***************************************************************************)
(* The copy migration of flat-v1 runs (Orchestrator.migrate_legacy_run,    *)
(* storage/legacy_migration.py) beside the flat writer that may still be   *)
(* working in the source directory (storage/run_store.py RunStore).        *)
(*                                                                         *)
(* The source is never locked.  It is inspected file by file, once before  *)
(* the destination is reserved and once under the destination's authority  *)
(* lock, before the copy is staged; the writer runs between any two files. *)
(* The authority lock and the product store are those of RevisionLock and  *)
(* TerminalStore, taken here at the grain of their visible steps.          *)
(***************************************************************************)
EXTENDS Integers, FiniteSets, Sequences

CONSTANTS
    Procs,          \* processes that migrate
    Sources,        \* legacy runs
    Live,           \* the source whose writer has not stopped
    Dest,           \* the destination run
    Replaced,       \* artifacts written with write_json: temporary, replace
    Appended,       \* artifacts written with append_jsonl: in place
    Sensitive,      \* versions whose text redact_sensitive would change
    MaxWrites, MaxCalls, MaxFaults, MaxCrashes

VARIABLES
    src,            \* [Sources -> the files of the run directory]
    writer,         \* the flat writer of the live source
    past,           \* [Sources -> every content the run has had] (history)
    taken,          \* a flat run with the destination's name was created
    dest,           \* the product namespace of the destination
    lock,           \* the holder of the destination's authority lock
    pc,
    loc,        \* the call of each process: place and locals
    answer,         \* what the last call of each process returned
    did,            \* whether that call itself moved the pointer (history)
    left            \* what the bounds still allow

vars == <<src, writer, past, taken, dest, lock, pc, loc, answer, did, left>>

Files == Replaced \cup Appended
Absent == 0
Torn == -1          \* the last line of the file is not complete
None == "none"

Resting == [file |-> None, version |-> 0]
NoAnswer == [code |-> None, effect |-> None]
NoCall == [source |-> None, todo |-> {}, tmps |-> {}, seen |-> [f \in Files |-> Absent],
           snap |-> [f \in Files |-> Absent]]

At(p, place) == pc[p] = place
Goto(p, place) == pc' = [pc EXCEPT ![p] = place]
Set(p, l) == loc' = [loc EXCEPT ![p] = l]

\* A call ends: its locals are gone and its lease is released.
Answer(p, code, effect) ==
    /\ answer' = [answer EXCEPT ![p] = [code |-> code, effect |-> effect,
                                        source |-> loc[p].source, snap |-> loc[p].snap]]
    /\ Goto(p, "idle")
    /\ Set(p, NoCall)
    /\ lock' = IF lock = p THEN None ELSE lock

\* A refusal that legacy_failure builds: nothing of the destination changed.
legacy_failure(p, code) ==
    Answer(p, code, "none") /\ UNCHANGED <<src, writer, past, taken, dest, did, left>>

Locally(p) == UNCHANGED <<src, writer, past, taken, dest, answer, did, left>>

-----------------------------------------------------------------------------
(* RunStore: the flat writer *)

Contents(s) == src'[s].files

\* create_run and the first artifact: the directory exists before its sentinel.
CreateRun ==
    /\ ~src[Live].sentinel
    /\ src' = [src EXCEPT ![Live].sentinel = TRUE]
    /\ UNCHANGED <<writer, past, taken, dest, lock, pc, loc, answer, did, left>>

\* write_json, write_text: the bytes go to a temporary beside the artifact...
WriteTemporary(f) ==
    /\ writer = Resting /\ f \in Replaced /\ left.writes > 0
    /\ src' = [src EXCEPT ![Live].tmps = @ \cup {f}]
    /\ writer' = [file |-> f, version |-> 0]
    /\ left' = [left EXCEPT !.writes = @ - 1]
    /\ UNCHANGED <<past, taken, dest, lock, pc, loc, answer, did>>

\* ... which then replaces it.
ReplaceArtifact(f) ==
    /\ writer.file = f /\ f \in Replaced
    /\ src' = [src EXCEPT ![Live].tmps = @ \ {f}, ![Live].files[f] = @ + 1]
    /\ past' = [past EXCEPT ![Live] = @ \cup {Contents(Live)}]
    /\ writer' = Resting
    /\ UNCHANGED <<taken, dest, lock, pc, loc, answer, did, left>>

\* append_jsonl writes in place: a reader may see the line half written.
AppendLine(f, version) ==
    /\ f \in Appended
    /\ \/ /\ writer = Resting /\ left.writes > 0 /\ version = src[Live].files[f]
          /\ src' = [src EXCEPT ![Live].files[f] = Torn]
          /\ writer' = [file |-> f, version |-> version]
          /\ left' = [left EXCEPT !.writes = @ - 1]
          /\ UNCHANGED past
       \/ /\ writer = [file |-> f, version |-> version]
          /\ src' = [src EXCEPT ![Live].files[f] = version + 1]
          /\ writer' = Resting
          /\ past' = [past EXCEPT ![Live] = @ \cup {Contents(Live)}]
          /\ UNCHANGED left
    /\ UNCHANGED <<taken, dest, lock, pc, loc, answer, did>>

\* Another flat run is created under the destination's name.
TakeName ==
    /\ ~taken /\ left.faults > 0
    /\ taken' = TRUE
    /\ left' = [left EXCEPT !.faults = @ - 1]
    /\ UNCHANGED <<src, writer, past, dest, lock, pc, loc, answer, did>>

-----------------------------------------------------------------------------
(* The namespaces *)

namespace_kind ==
    CASE taken /\ dest.dir # "absent" -> "mixed"
      [] taken /\ dest.dir = "absent" -> "legacy"
      [] ~taken /\ dest.dir # "absent" -> "product"
      [] OTHER -> None

NoCurrent == dest.current = <<>>

\* read_current of the destination: Ok or the code of its failure.
read_current ==
    CASE taken -> "cross_run_mismatch"
      [] ~taken /\ dest.dir = "partial" -> "run_corrupt"
      [] ~taken /\ dest.dir # "partial" /\ NoCurrent ->
            IF dest.staging # {} \/ dest.revisions # {} THEN "run_incomplete" ELSE "run_not_found"
      [] OTHER -> IF dest.settled THEN "ok" ELSE "budget_unsettled"

-----------------------------------------------------------------------------
(* LegacyRunAdapter.inspect: the first time and in the verifier *)

Listing(k) == IF k = 1 THEN "list1" ELSE "list2"
Reading(k) == IF k = 1 THEN "read1" ELSE "read2"

\* A refused inspection: of the run at first, of the migration in the verifier.
Uninspectable(p, k) ==
    IF k = 1 THEN Answer(p, "legacy_run_unverified", "none")
             ELSE Answer(p, "migration_source_changed", "staging_orphan")

\* The entries of the directory, taken before any of them is read.
List(p, k) ==
    /\ At(p, Listing(k))
    /\ LET s == src[loc[p].source]
       IN  Set(p, [loc[p] EXCEPT !.todo = {f \in Files: s.files[f] # Absent}, !.tmps = s.tmps,
                                 !.seen = [f \in Files |-> Absent]])
    /\ Goto(p, Reading(k))
    /\ UNCHANGED lock /\ Locally(p)

\* One artifact is read whole.  A temporary is not an admitted name, an
\* incomplete line not an admitted content, whatever becomes of them later.
ReadArtifact(p, k) ==
    /\ At(p, Reading(k))
    /\ \/ /\ loc[p].tmps # {}
          /\ Uninspectable(p, k)
       \/ \E f \in loc[p].todo:
            LET v == src[loc[p].source].files[f]
            IN  IF v = Torn THEN Uninspectable(p, k)
                ELSE /\ Set(p, [loc[p] EXCEPT !.todo = @ \ {f}, !.seen[f] = v])
                     /\ UNCHANGED <<pc, lock, answer>>
    /\ UNCHANGED <<src, writer, past, taken, dest, did, left>>

\* mutant: the two inspections are not compared.
Mut_same_legacy_snapshot(left_, right) == TRUE

same_legacy_snapshot(left_, right) == left_ = right

Inspected(p, k) == At(p, Reading(k)) /\ loc[p].todo = {} /\ loc[p].tmps = {}

\* legacy_copy_payloads: the bytes that may be copied.
CopyCode(files) ==
    CASE \E f \in Files: files[f] \in Sensitive -> "lifecycle_policy_failed"
      [] \A f \in Files: files[f] = Absent -> "artifact_missing"
      [] OTHER -> "ok"

\* The snapshot is complete: sentinel, then the payloads.
Snapshot(p) ==
    /\ Inspected(p, 1)
    /\ LET code == CopyCode(loc[p].seen)
       IN  IF ~src[loc[p].source].sentinel THEN legacy_failure(p, "legacy_run_unverified")
           ELSE IF code # "ok" THEN legacy_failure(p, code)
           ELSE /\ Set(p, [NoCall EXCEPT !.source = loc[p].source, !.snap = loc[p].seen])
                /\ Goto(p, "destination")
                /\ UNCHANGED lock /\ Locally(p)

-----------------------------------------------------------------------------
(* migrate_legacy_run *)

\* The acknowledgement and the names.  A source with the destination's name,
\* or that is no legacy run, is refused.
Begin(p, s, acknowledged) ==
    /\ At(p, "idle") /\ left.calls > 0
    /\ left' = [left EXCEPT !.calls = @ - 1]
    /\ did' = [did EXCEPT ![p] = FALSE]
    /\ LET Refused(code) == /\ answer' = [answer EXCEPT ![p] = [code |-> code, effect |-> "none",
                                            source |-> s, snap |-> NoCall.snap]]
                            /\ UNCHANGED <<pc, loc>>
       IN  IF ~acknowledged THEN Refused("migration_source_busy")
           ELSE IF s = Dest THEN Refused("migration_conflict")
           ELSE /\ Set(p, [NoCall EXCEPT !.source = s])
                /\ Goto(p, "list1")
                /\ answer' = [answer EXCEPT ![p] = NoAnswer]
    /\ UNCHANGED <<src, writer, past, taken, dest, lock>>

Transaction(p) == [source |-> loc[p].source, files |-> loc[p].snap]

\* A repetition is answered with what is there when it is this very copy: the
\* same source binding and the same bytes.
ReplayAdmitted(p) == dest.current[1] = Transaction(p)

Destination(p) ==
    /\ At(p, "destination")
    /\ CASE namespace_kind = "mixed" -> legacy_failure(p, "cross_run_mismatch")
         [] namespace_kind = "legacy" -> legacy_failure(p, "migration_conflict")
         [] namespace_kind = "product" ->
                IF read_current # "ok" THEN legacy_failure(p, read_current)
                ELSE IF ReplayAdmitted(p)
                     THEN /\ Answer(p, "ok", "none")
                          /\ UNCHANGED <<src, writer, past, taken, dest, did, left>>
                ELSE legacy_failure(p, "migration_conflict")
         [] namespace_kind = None -> Goto(p, "reserve") /\ UNCHANGED <<loc, lock>> /\ Locally(p)

\* _reserve_legacy_migration_destination: under the lock, an empty namespace.
Reserve(p) ==
    /\ At(p, "reserve")
    /\ IF lock # None \/ namespace_kind # None THEN legacy_failure(p, "migration_conflict")
       ELSE /\ lock' = p
            /\ dest' = [dest EXCEPT !.dir = "partial"]
            /\ Goto(p, "bootstrap")
            /\ UNCHANGED <<src, writer, past, taken, loc, answer, did, left>>

\* _bootstrap_namespace ends, the lock is released.
Bootstrap(p) ==
    /\ At(p, "bootstrap")
    /\ dest' = [dest EXCEPT !.dir = "ready"]
    /\ lock' = None
    /\ Goto(p, "admit")
    /\ UNCHANGED <<src, writer, past, taken, loc, answer, did, left>>

\* An I/O error while the namespace is created is answered as a conflict.
BootstrapFails(p) ==
    /\ At(p, "bootstrap") /\ left.faults > 0
    /\ left' = [left EXCEPT !.faults = @ - 1]
    /\ Answer(p, "migration_conflict", "none")
    /\ UNCHANGED <<src, writer, past, taken, dest, did>>

\* TerminalRunStore.publish up to its verifier: the permit, the lock, the
\* namespace and the current pointer.
Admit(p) ==
    /\ At(p, "admit")
    /\ IF lock # None THEN legacy_failure(p, "run_locked")
       ELSE IF taken THEN legacy_failure(p, "cross_run_mismatch")
       ELSE IF ~NoCurrent THEN legacy_failure(p, "run_conflict")
       ELSE lock' = p /\ Goto(p, "verify") /\ UNCHANGED loc /\ Locally(p)

ReserveBudgetFails(p) ==
    /\ At(p, "admit") /\ left.faults > 0
    /\ left' = [left EXCEPT !.faults = @ - 1]
    /\ Answer(p, "budget_reservation_failed", "none")
    /\ UNCHANGED <<src, writer, past, taken, dest, did>>

\* verify_migration_authority: the destination is still the empty product
\* namespace...
VerifyDestination(p) ==
    /\ At(p, "verify")
    /\ IF namespace_kind = "mixed" THEN legacy_failure(p, "cross_run_mismatch")
       ELSE IF read_current \notin {"ok", "run_not_found"} THEN legacy_failure(p, read_current)
       ELSE IF namespace_kind # "product" \/ read_current = "ok"
            THEN /\ Answer(p, "migration_conflict", "staging_orphan")
                 /\ UNCHANGED <<src, writer, past, taken, dest, did, left>>
       ELSE Goto(p, "list2") /\ UNCHANGED <<loc, lock>> /\ Locally(p)

\* ... and the source still what was copied.
VerifySource(p) ==
    /\ Inspected(p, 2)
    /\ IF src[loc[p].source].sentinel /\ same_legacy_snapshot(loc[p].snap, loc[p].seen)
       THEN Goto(p, "stage") /\ UNCHANGED <<loc, lock>> /\ Locally(p)
       ELSE /\ Answer(p, "migration_source_changed", "staging_orphan")
            /\ UNCHANGED <<src, writer, past, taken, dest, did, left>>

\* The copy is staged, becomes a revision, then the current one, and its
\* budget is settled.
Stage(p) ==
    /\ At(p, "stage")
    /\ IF Transaction(p) \in dest.staging \cup dest.revisions
       THEN /\ Answer(p, "effect_unknown", "staging_orphan")
            /\ UNCHANGED <<src, writer, past, taken, dest, did, left>>
       ELSE /\ dest' = [dest EXCEPT !.staging = @ \cup {Transaction(p)}]
            /\ Goto(p, "revision")
            /\ UNCHANGED <<src, writer, past, taken, lock, loc, answer, did, left>>

Revision(p) ==
    /\ At(p, "revision")
    /\ dest' = [dest EXCEPT !.staging = @ \ {Transaction(p)},
                            !.revisions = @ \cup {Transaction(p)}]
    /\ Goto(p, "pointer")
    /\ UNCHANGED <<src, writer, past, taken, lock, loc, answer, did, left>>

Pointer(p) ==
    /\ At(p, "pointer")
    /\ IF ~NoCurrent
       THEN /\ Answer(p, "run_conflict", "unreferenced_revision")
            /\ UNCHANGED <<src, writer, past, taken, dest, did, left>>
       ELSE /\ dest' = [dest EXCEPT !.current = <<Transaction(p)>>]
            /\ did' = [did EXCEPT ![p] = TRUE]
            /\ Goto(p, "settle")
            /\ UNCHANGED <<src, writer, past, taken, lock, loc, answer, left>>

Settle(p) ==
    /\ At(p, "settle")
    /\ dest' = [dest EXCEPT !.settled = TRUE]
    /\ Goto(p, "migrated")
    /\ UNCHANGED <<src, writer, past, taken, lock, loc, answer, did, left>>

\* Any of these steps fails: the answer says how far the publication came.
PublishFails(p) ==
    /\ pc[p] \in {"stage", "revision", "pointer", "settle"} /\ left.faults > 0
    /\ left' = [left EXCEPT !.faults = @ - 1]
    /\ CASE pc[p] \in {"stage", "revision"} -> Answer(p, "effect_unknown", "staging_orphan")
         [] pc[p] = "pointer" -> Answer(p, "durability_unconfirmed", "unreferenced_revision")
         [] pc[p] = "settle" -> Answer(p, "budget_settlement_failed", "current_advanced")
    /\ UNCHANGED <<src, writer, past, taken, dest, did>>

\* The reads that end publish and the migration.
Migrated(p) ==
    /\ At(p, "migrated")
    /\ IF read_current = "ok"
       THEN Answer(p, "ok", "current_advanced")
       ELSE Answer(p, read_current, "none")
    /\ UNCHANGED <<src, writer, past, taken, dest, did, left>>

Crash(p) ==
    /\ ~At(p, "idle") /\ left.crashes > 0
    /\ left' = [left EXCEPT !.crashes = @ - 1]
    /\ lock' = IF lock = p THEN None ELSE lock
    /\ Goto(p, "idle") /\ Set(p, NoCall)
    /\ answer' = [answer EXCEPT ![p] = NoAnswer]
    /\ UNCHANGED <<src, writer, past, taken, dest, did>>

-----------------------------------------------------------------------------

Init ==
    /\ \E started \in BOOLEAN:
        src = [s \in Sources |->
            [sentinel |-> (s # Live) \/ started, tmps |-> {},
             files |-> [f \in Files |-> IF s # Live \/ started THEN 1 ELSE Absent]]]
    /\ past = [s \in Sources |-> {src[s].files}]
    /\ writer = Resting
    /\ taken = FALSE
    /\ dest = [dir |-> "absent", staging |-> {}, revisions |-> {}, current |-> <<>>,
               settled |-> FALSE]
    /\ lock = None
    /\ pc = [p \in Procs |-> "idle"]
    /\ loc = [p \in Procs |-> NoCall]
    /\ answer = [p \in Procs |-> NoAnswer]
    /\ did = [p \in Procs |-> FALSE]
    /\ left = [writes |-> MaxWrites, calls |-> MaxCalls, faults |-> MaxFaults,
               crashes |-> MaxCrashes]

Write ==
    \/ CreateRun
    \/ \E f \in Replaced: WriteTemporary(f) \/ ReplaceArtifact(f)
    \/ \E f \in Appended, version \in 0..MaxWrites: AppendLine(f, version)
    \/ TakeName

Migrate(p) ==
    \/ \E s \in Sources \cup {Dest}, acknowledged \in BOOLEAN: Begin(p, s, acknowledged)
    \/ \E k \in 1..2: List(p, k) \/ ReadArtifact(p, k)
    \/ Snapshot(p) \/ Destination(p) \/ Reserve(p) \/ Bootstrap(p) \/ BootstrapFails(p)
    \/ Admit(p) \/ ReserveBudgetFails(p) \/ VerifyDestination(p) \/ VerifySource(p)
    \/ Stage(p) \/ Revision(p) \/ Pointer(p) \/ Settle(p) \/ PublishFails(p) \/ Migrated(p)
    \/ Crash(p)

Next == Write \/ \E p \in Procs: Migrate(p)

Spec == Init /\ [][Next]_vars

-----------------------------------------------------------------------------
(* Properties *)

\* A published copy is a content the source really had at one instant, with
\* nothing in it that the redaction would have changed: the files of two
\* different moments of a run that is still written are never mixed, although
\* the source is read without a lock.  (inspect, the reread of
\* verify_migration_authority, legacy_copy_payloads.)
CopyWasTheSource ==
    \A c \in {dest.current[i]: i \in DOMAIN dest.current}:
        /\ c.files \in past[c.source]
        /\ \A f \in Files: c.files[f] \notin Sensitive

\* A migration that answers a run answers its own copy, even when another
\* process published it; a refusal that says the destination was not touched
\* or that its pointer was not moved is true; and the reserved name serves
\* one copy for good.  The one exception is a flat run that takes the name
\* after the pointer moved: the read that ends publish then refuses and says
\* nothing of the pointer.  (The replay of migrate_legacy_run, the effects of
\* its failures, the reservation, final_cas.)
MigrationAnswersAreTrue ==
    \A p \in Procs:
        /\ answer[p].code = "ok" =>
            /\ dest.current # <<>>
            /\ dest.current[1] = [source |-> answer[p].source, files |-> answer[p].snap]
        /\ answer[p].effect \in {"staging_orphan", "unreferenced_revision"} => ~did[p]
        /\ (answer[p].code \notin {None, "ok"} /\ did[p]) =>
            answer[p].effect = "current_advanced" \/ answer[p].code = "cross_run_mismatch"

\* docs/phase2-readiness-contracts.md:439 says that a migration can be run
\* again and is idempotent for the same source.  Here: when no flat run took
\* the name, a repetition never finds the destination neither migrated nor
\* free.  (The namespace that _reserve_legacy_migration_destination created
\* is the only thing an interrupted attempt left.)
InterruptedMigrationsCanBeRepeated ==
    \A p \in Procs: ~(answer[p].code = "run_not_found" /\ lock = None)
=============================================================================

---------------------------- MODULE RevisionStore ----------------------------
(***************************************************************************)
(* The revision store of one run: storage/revision_store.py.  Writers in   *)
(* several operating-system processes publish immutable revisions under    *)
(* one authority lock and a compare-and-swap on current.json; readers take *)
(* no lock; an operator may claim a transaction a crash or a fault left    *)
(* behind.  A process may crash and a file operation may fail between any  *)
(* two steps.                                                              *)
(*                                                                         *)
(* A digest is modelled by the value it is the digest of.  A request is    *)
(* the transaction it names, its content, the revision it expects to       *)
(* replace and the number it proposes; a published revision directory, the *)
(* manifest in it and the pointer to it are determined by the request.     *)
(***************************************************************************)
EXTENDS Integers, Sequences, FiniteSets

CONSTANTS
    Writer,         \* threads that publish or claim
    Reader,         \* threads that call read_current
    Process,        \* operating-system processes
    ProcessOf,      \* the process of every thread
    Txn,            \* transaction ids
    Body,           \* contents a request may carry
    MaxRevision,    \* bound: requests propose at most this number
    MaxFaults,      \* bound: failing file operations
    MaxCrashes,     \* bound: process crashes
    MaxClaims,      \* bound: calls of claim_orphan
    MetaBytes, RevBytes, PtrBytes, ClaimBytes,  \* sizes of the control files
    MaxRunBytes,    \* max_run_bytes of the store
    Null            \* no revision, no request, no thread, no report

Thread == Writer \cup Reader

ASSUME ConstantsAssumption ==
    /\ Writer \cap Reader = {}
    /\ ProcessOf \in [Thread -> Process]
    /\ MaxRevision \in Nat /\ MaxFaults \in Nat /\ MaxCrashes \in Nat /\ MaxClaims \in Nat
    /\ MetaBytes \in Nat /\ RevBytes \in Nat /\ PtrBytes \in Nat /\ ClaimBytes \in Nat
    /\ MaxRunBytes \in Nat
    /\ Null \notin Thread

\* What a manifest digest stands for in a lineage link.
ManifestId == [txn : Txn, body : Body]

\* RevisionPublishRequestV1, and the revision directory it prepares.
Revision == [txn : Txn, body : Body, base : ManifestId \cup {Null}, num : 1..MaxRevision]

\* _preflight: the digest is over the transaction and what it writes.
IdOf(r) == [txn |-> r.txn, body |-> r.body]

VARIABLES
    staging,    \* transactions/<txn>: set of [rev, form]
    revisions,  \* revisions/r<num>-<txn>: set of complete directories
    current,    \* current.json: the revision it points to, or Null
    ptrTemps,   \* current.<txn>.tmp files
    metadata,   \* the lock metadata file exists
    metaTemps,  \* leftover <owner>.metadata.tmp files
    claims,     \* recovery-claims/<txn>.json
    claimTemps, \* recovery-claims/.tmp: set of [claim, whole]
    kernel,     \* the thread that holds the kernel lock, or Null
    registry,   \* processes whose registry of held keys contains the run
    pc,         \* where each thread is
    req,        \* the request a writer is serving
    chainSeen,  \* the pointer the writer's initial read returned
    report,     \* the outcome or failure the writer will return
    rd,         \* a reader's local state
    history,    \* ghost: the revisions current.json has pointed to, in order
    acked,      \* ghost: transactions some caller was told are committed
    faults, crashes, claimCalls

disk == <<staging, revisions, current, ptrTemps, metadata, metaTemps, claims, claimTemps>>
locks == <<kernel, registry>>
local == <<pc, req, chainSeen, report, rd>>
ghosts == <<history, acked>>
bounds == <<faults, crashes, claimCalls>>
vars == <<disk, locks, local, ghosts, bounds>>

-----------------------------------------------------------------------------
\* The shapes of what the operations return.  transaction_failed stands for the
\* write, publish, verification and durability codes of a pipeline step before
\* the pointer is replaced, which differ in wording only.

Code == {"none", "run_locked", "run_conflict", "idempotency_conflict",
         "run_budget_exceeded", "transaction_failed", "durability_unconfirmed",
         "effect_unknown", "run_corrupt", "recovery_claim_conflict", "recovery_claim_incomplete",
         "run_incomplete", "run_namespace_conflict"}
Kind == {"published", "current_committed", "historical_committed",
         "reconciliation_required", "claimed", "failure"}
FsEffect == {"none", "control_only", "staging_orphan", "unreferenced_revision",
             "current_replace_attempted", "current_advanced"}
DomainEffect == {"current_unchanged", "current_may_have_advanced", "current_advanced"}
Report == [kind : Kind, code : Code, fs : FsEffect, domain : DomainEffect, recon : BOOLEAN]

Failure(c, f, d, r) == [kind |-> "failure", code |-> c, fs |-> f, domain |-> d, recon |-> r]
Outcome(k, f, d) ==
    [kind |-> k, code |-> "none", fs |-> f, domain |-> d,
     recon |-> k = "reconciliation_required"]

ASSUME NullAssumption == Null \notin Revision /\ Null \notin Report

StagingForm == {"created", "described", "complete"}
StagingEntry == [rev : Revision, form : StagingForm]

\* RecoveryClaimRequestV1: one id per claimant, the target and the pointer
\* the claimant saw when it inspected the run.
Claim == [by : Writer, target : Revision, form : {"staging", "revision"},
          observed : Revision \cup {Null}]

PublishStep == {"admit", "meta", "metaReplace", "mkdir", "describe", "fill", "rename",
                "pointer", "finalCas", "replace", "reconcile", "lineage", "sync"}
ClaimStep == {"claimAdmit", "claimTemp", "claimRecheck", "claimFinalize", "claimVerify"}
Locked == PublishStep \cup ClaimStep \cup {"release"}
ReadStep == {"readList", "readStat", "readPointer", "readWalk", "readAgain", "readDone"}

ReaderState == [attempt : 0..3, names : SUBSET Txn, temps : SUBSET Txn, metas : Int,
                ptr : Revision \cup {Null}, start : Nat,
                result : {"none", "ok", "run_incomplete", "run_corrupt"}]

NoRead == [attempt |-> 0, names |-> {}, temps |-> {}, metas |-> 0, ptr |-> Null,
           start |-> 0, result |-> "none"]

-----------------------------------------------------------------------------
\* Reading the disk.

\* The directories one step of _read_chain accepts for revision k, when the
\* manifest of revision k + 1 names the manifest id.
Candidates(k, id) == {r \in revisions : r.num = k /\ IdOf(r) = id}

\* _read_chain: the walk from the pointer p down to revision 1.  Each step must
\* find exactly one candidate; the set is empty when the walk fails.
Walk(p) ==
    {c \in [1..p.num -> revisions] :
        /\ c[p.num] = p
        /\ c[1].base = Null
        /\ \A k \in 1..(p.num - 1) : Candidates(k, c[k + 1].base) = {c[k]}}

LineageIntact(p) == Walk(p) # {}

\* The entries of the verified chain.
Chain(p) == IF p = Null THEN {} ELSE {e \in revisions : \E c \in Walk(p) : \E k \in 1..p.num : c[k] = e}

Reachable == Chain(current)
ReachableTxns == {r.txn : r \in Reachable}

\* mutant: an id is taken for used only when the whole request matches.
Mut_SameTxn(q) == {r \in Reachable : r = q}
\* _idempotency_outcome: the reachable revision of the request's transaction.
SameTxn(q) == {r \in Reachable : r.txn = q.txn}

StagingOf(t) == {s \in staging : s.rev.txn = t}
UnreferencedOf(t) == {r \in revisions : r.txn = t /\ r \notin Reachable}

\* admission_effect: what of the transaction is already on disk (the lock file
\* itself is taken to exist, so that acquiring it changes no control file).
OrphanEffect(t) ==
    IF StagingOf(t) # {} THEN "staging_orphan"
    ELSE IF UnreferencedOf(t) # {} THEN "unreferenced_revision"
    ELSE "none"

\* mutant: only staging directories are looked for.
Mut_OrphanLeft(t) == StagingOf(t) # {}
OrphanLeft(t) == StagingOf(t) # {} \/ UnreferencedOf(t) # {}

\* _run_physical_bytes: every file attributable to the run; a staged revision
\* counts in full once its first file is written.
PhysicalBytes ==
    (IF metadata THEN MetaBytes ELSE 0)
      + metaTemps * MetaBytes
      + RevBytes * (Cardinality(revisions) + Cardinality({s \in staging : s.form # "created"}))
      + PtrBytes * (Cardinality(ptrTemps) + (IF current = Null THEN 0 ELSE 1))
      + ClaimBytes * (Cardinality(claims) + Cardinality({t \in claimTemps : t.whole}))

\* mutant: the expected revision is not compared.
Mut_CasMatches(q, p) == TRUE
\* _cas_matches, for the pointer p read under the lock.
CasMatches(q, p) ==
    IF p = Null
    THEN q.base = Null /\ q.num = 1
    ELSE q.base = IdOf(p) /\ q.num = p.num + 1

\* mutant: the pointer temp is forgotten.
Mut_PeakBytes ==
    LET a == PhysicalBytes + MetaBytes
        b == PhysicalBytes - (IF metadata THEN MetaBytes ELSE 0) + MetaBytes + RevBytes
    IN  IF a > b THEN a ELSE b
\* The peak the admission allows for: metadata temp, then staged revision and
\* pointer temp next to everything that is already there.
PeakBytes ==
    LET afterMeta == PhysicalBytes - (IF metadata THEN MetaBytes ELSE 0) + MetaBytes
        a == PhysicalBytes + MetaBytes
        b == afterMeta + RevBytes + PtrBytes
    IN  IF a > b THEN a ELSE b

-----------------------------------------------------------------------------
\* Every revision that current.json has pointed to.
Published == {history[i] : i \in DOMAIN history}

Init ==
    /\ staging = {} /\ revisions = {} /\ current = Null /\ ptrTemps = {}
    /\ metadata = FALSE /\ metaTemps = 0 /\ claims = {} /\ claimTemps = {}
    /\ kernel = Null /\ registry = {}
    /\ pc = [t \in Thread |-> "idle"]
    /\ req = [w \in Writer |-> Null]
    /\ chainSeen = [w \in Writer |-> Null]
    /\ report = [w \in Writer |-> Null]
    /\ rd = [r \in Reader |-> NoRead]
    /\ history = <<>> /\ acked = {}
    /\ faults = 0 /\ crashes = 0 /\ claimCalls = 0

Goto(w, l) == pc' = [pc EXCEPT ![w] = l]

\* Leave the locked region with report r; the finally clause releases the lease.
Finish(w, r) ==
    /\ Goto(w, "release")
    /\ report' = [report EXCEPT ![w] = r]

-----------------------------------------------------------------------------
(* Taking the authority.  acquire_authority reserves the key in the        *)
(* process registry, then takes the kernel lock without blocking;          *)
(* RevisionLock models its inner steps.                                    *)

\* RUN_LOCKED is returned at once, before anything was written.
LockFree(w) == ProcessOf[w] \notin registry /\ kernel = Null

Acquire(w, q, next) ==
    /\ pc[w] = "idle"
    /\ LockFree(w)
    /\ kernel' = w
    /\ registry' = registry \cup {ProcessOf[w]}
    /\ req' = [req EXCEPT ![w] = q]
    /\ Goto(w, next)
    /\ UNCHANGED <<disk, chainSeen, report, rd, ghosts, faults, crashes>>

\* publish, up to the acquired lease: the caller expects a revision that was
\* current at some time, or none.
BeginPublish(w) ==
    \E t \in Txn, b \in Body :
      \E p \in {Null} \cup Published :
        LET n == IF p = Null THEN 1 ELSE p.num + 1
            e == IF p = Null THEN Null ELSE IdOf(p)
        IN  /\ n <= MaxRevision
            /\ Acquire(w, [txn |-> t, body |-> b, base |-> e, num |-> n], "admit")
            /\ UNCHANGED claimCalls

\* The locked admission of publish: chain, bytes, idempotency, orphans, CAS, peak.
AdmitVerdict(q) ==
    LET same == SameTxn(q)
        left == OrphanEffect(q.txn)
        described == IF StagingOf(q.txn) # {}
                     THEN {s.rev : s \in {x \in StagingOf(q.txn) : x.form # "created"}}
                     ELSE UnreferencedOf(q.txn)
    IN  IF current # Null /\ ~LineageIntact(current)
        THEN Failure("run_corrupt", "none", "current_unchanged", TRUE)
        ELSE IF PhysicalBytes > MaxRunBytes
        THEN Failure("run_budget_exceeded", left, "current_unchanged", left # "none")
        ELSE IF same # {}
        THEN IF q \notin same
             THEN Failure("idempotency_conflict", "none", "current_unchanged", FALSE)
             ELSE Outcome(IF current = q THEN "current_committed" ELSE "historical_committed",
                          "none", "current_unchanged")
        ELSE IF OrphanLeft(q.txn)
        THEN IF \E r \in described : r # q
             THEN Failure("idempotency_conflict", left, "current_unchanged", TRUE)
             ELSE Outcome("reconciliation_required", left, "current_unchanged")
        ELSE IF ~CasMatches(q, current)
        THEN Failure("run_conflict", "none", "current_unchanged", FALSE)
        ELSE IF PeakBytes > MaxRunBytes
        THEN Failure("run_budget_exceeded", "none", "current_unchanged", FALSE)
        ELSE Null

Admit(w) ==
    /\ pc[w] = "admit"
    /\ chainSeen' = [chainSeen EXCEPT ![w] = current]
    /\ LET v == AdmitVerdict(req[w])
       IN  IF v = Null
           THEN Goto(w, "meta") /\ UNCHANGED report
           ELSE Finish(w, v)
    /\ UNCHANGED <<disk, locks, req, rd, ghosts, bounds>>

\* A read of the admission fails: the check of the names of the run, made
\* before anything of the transaction is looked at and reported as if nothing
\* of it were there; the initial chain read; or the byte count.
AdmitFailures(q) ==
    {Failure("run_namespace_conflict", "none", "current_unchanged", FALSE),
     Failure("run_corrupt", "none", "current_unchanged", TRUE)}
      \cup {Failure(c, OrphanEffect(q.txn), "current_unchanged", OrphanLeft(q.txn)) :
              c \in {"run_namespace_conflict", "transaction_failed"}}

AdmitFails(w) ==
    /\ pc[w] = "admit"
    /\ faults < MaxFaults
    /\ faults' = faults + 1
    /\ chainSeen' = [chainSeen EXCEPT ![w] = current]
    /\ \E v \in AdmitFailures(req[w]) : Finish(w, v)
    /\ UNCHANGED <<disk, locks, req, rd, ghosts, crashes, claimCalls>>

-----------------------------------------------------------------------------
(* The write pipeline of publish, one action per file-system effect.       *)

WriteMetadataTemp(w) ==
    /\ pc[w] = "meta"
    /\ metaTemps' = metaTemps + 1
    /\ Goto(w, "metaReplace")
    /\ UNCHANGED <<staging, revisions, current, ptrTemps, metadata, claims, claimTemps,
                   locks, req, chainSeen, report, rd, ghosts, bounds>>

\* os.replace of the metadata, then the namespace directories.
ReplaceMetadata(w) ==
    /\ pc[w] = "metaReplace"
    /\ metaTemps' = metaTemps - 1
    /\ metadata' = TRUE
    /\ Goto(w, "mkdir")
    /\ UNCHANGED <<staging, revisions, current, ptrTemps, claims, claimTemps,
                   locks, req, chainSeen, report, rd, ghosts, bounds>>

\* The staging directory, then transaction.json, then payload and manifest.
Stage(w, from, to, form) ==
    /\ pc[w] = from
    /\ staging' = (staging \ StagingOf(req[w].txn)) \cup {[rev |-> req[w], form |-> form]}
    /\ Goto(w, to)
    /\ UNCHANGED <<revisions, current, ptrTemps, metadata, metaTemps, claims, claimTemps,
                   locks, req, chainSeen, report, rd, ghosts, bounds>>

MakeStaging(w) == Stage(w, "mkdir", "describe", "created")
WriteTransaction(w) == Stage(w, "describe", "fill", "described")
WritePayloadAndManifest(w) == Stage(w, "fill", "rename", "complete")

RenameEffect(w) ==
    /\ staging' = staging \ StagingOf(req[w].txn)
    /\ revisions' = revisions \cup {req[w]}

RenameToRevision(w) ==
    /\ pc[w] = "rename"
    /\ RenameEffect(w)
    /\ Goto(w, "pointer")
    /\ UNCHANGED <<current, ptrTemps, metadata, metaTemps, claims, claimTemps,
                   locks, req, chainSeen, report, rd, ghosts, bounds>>

WritePointerTemp(w) ==
    /\ pc[w] = "pointer"
    /\ ptrTemps' = ptrTemps \cup {req[w].txn}
    /\ Goto(w, "finalCas")
    /\ UNCHANGED <<staging, revisions, current, metadata, metaTemps, claims, claimTemps,
                   locks, req, chainSeen, report, rd, ghosts, bounds>>

\* The chain is read again and the CAS repeated right before the replace.
FinalCas(w) ==
    /\ pc[w] = "finalCas"
    /\ IF CasMatches(req[w], current)
       THEN Goto(w, "replace") /\ UNCHANGED report
       ELSE Finish(w, Failure("run_conflict", "unreferenced_revision",
                              "current_unchanged", TRUE))
    /\ UNCHANGED <<disk, locks, req, chainSeen, rd, ghosts, bounds>>

ReplaceEffect(w) ==
    /\ current' = req[w]
    /\ ptrTemps' = ptrTemps \ {req[w].txn}
    /\ history' = Append(history, req[w])

ReplaceCurrent(w) ==
    /\ pc[w] = "replace"
    /\ ReplaceEffect(w)
    /\ Goto(w, "reconcile")
    /\ UNCHANGED <<staging, revisions, metadata, metaTemps, claims, claimTemps,
                   locks, req, chainSeen, report, rd, acked, bounds>>

\* The reconciliation read: first the pointer, then the lineage from it.
Reconcile(w) ==
    /\ pc[w] = "reconcile"
    /\ IF current = req[w]
       THEN Goto(w, "lineage") /\ UNCHANGED report
       ELSE Finish(w, Failure("effect_unknown", "current_replace_attempted",
                              "current_may_have_advanced", TRUE))
    /\ UNCHANGED <<disk, locks, req, chainSeen, rd, ghosts, bounds>>

ReconcileLineage(w) ==
    /\ pc[w] = "lineage"
    /\ IF current = req[w] /\ LineageIntact(current)
       THEN Goto(w, "sync") /\ UNCHANGED report
       ELSE Finish(w, Failure("run_corrupt", "current_advanced", "current_advanced", TRUE))
    /\ UNCHANGED <<disk, locks, req, chainSeen, rd, ghosts, bounds>>

SyncDirectory(w) ==
    /\ pc[w] = "sync"
    /\ Finish(w, Outcome("published", "current_advanced", "current_advanced"))
    /\ UNCHANGED <<disk, locks, req, chainSeen, rd, ghosts, bounds>>

-----------------------------------------------------------------------------
(* A file operation of the pipeline fails.  What the failure says of the   *)
(* disk depends on how far the pipeline came, and a rename or replace that *)
(* raises may or may not have happened.                                    *)

FaultReport(w) ==
    CASE pc[w] \in {"meta", "metaReplace"} ->
           Failure("transaction_failed", "control_only", "current_unchanged", FALSE)
      [] pc[w] \in {"describe", "fill", "rename"} ->
           Failure("transaction_failed", "staging_orphan", "current_unchanged", TRUE)
      [] pc[w] \in {"pointer", "finalCas", "replace"} ->
           Failure("transaction_failed", "unreferenced_revision", "current_unchanged", TRUE)
      [] pc[w] = "reconcile" ->
           Failure("effect_unknown", "current_replace_attempted",
                   "current_may_have_advanced", TRUE)
      [] pc[w] = "lineage" ->
           Failure("run_corrupt", "current_advanced", "current_advanced", TRUE)
      [] pc[w] = "sync" ->
           Failure("durability_unconfirmed", "current_advanced", "current_advanced", TRUE)

\* The failing call left the file it was writing: a metadata temp or a pointer temp.
PartialWrite(w) ==
    \/ UNCHANGED <<metaTemps, ptrTemps>>
    \/ pc[w] = "meta" /\ metaTemps' = metaTemps + 1 /\ UNCHANGED ptrTemps
    \/ pc[w] = "pointer" /\ ptrTemps' = ptrTemps \cup {req[w].txn} /\ UNCHANGED metaTemps

StepFails(w) ==
    /\ pc[w] \in PublishStep \ {"admit", "mkdir"}
    /\ faults < MaxFaults
    /\ faults' = faults + 1
    /\ PartialWrite(w)
    /\ Finish(w, FaultReport(w))
    /\ UNCHANGED <<staging, revisions, current, metadata, claims, claimTemps,
                   locks, req, chainSeen, rd, ghosts, crashes, claimCalls>>

\* The namespace or the staging directory cannot be made: the flag depends on
\* which call failed, and no staging directory is left.
MkdirFails(w) ==
    /\ pc[w] = "mkdir"
    /\ faults < MaxFaults
    /\ faults' = faults + 1
    /\ \E flag \in BOOLEAN :
         Finish(w, Failure("transaction_failed", "control_only", "current_unchanged", flag))
    /\ UNCHANGED <<disk, locks, req, chainSeen, rd, ghosts, crashes, claimCalls>>

\* os.replace of the metadata raised.
MetadataReplaceFails(w) ==
    /\ pc[w] = "metaReplace"
    /\ faults < MaxFaults
    /\ faults' = faults + 1
    /\ \/ metaTemps' = metaTemps - 1 /\ metadata' = TRUE
       \/ UNCHANGED <<metaTemps, metadata>>
    /\ Finish(w, Failure("effect_unknown", "control_only", "current_unchanged", TRUE))
    /\ UNCHANGED <<staging, revisions, current, ptrTemps, claims, claimTemps,
                   locks, req, chainSeen, rd, ghosts, crashes, claimCalls>>

\* mutant: nobody looks whether the rename happened.
Mut_RenameFailureEffect(q, dirs) == "staging_orphan"
\* staging.rename raised: the code looks whether the revision directory exists.
RenameFailureEffect(q, dirs) ==
    IF q \in dirs THEN "unreferenced_revision" ELSE "staging_orphan"

RenameFails(w) ==
    /\ pc[w] = "rename"
    /\ faults < MaxFaults
    /\ faults' = faults + 1
    /\ \/ RenameEffect(w)
       \/ UNCHANGED <<staging, revisions>>
    /\ Finish(w, Failure("effect_unknown", RenameFailureEffect(req[w], revisions'),
                         "current_unchanged", TRUE))
    /\ UNCHANGED <<current, ptrTemps, metadata, metaTemps, claims, claimTemps,
                   locks, req, chainSeen, rd, ghosts, crashes, claimCalls>>

\* os.replace of the pointer raised.
ReplaceFails(w) ==
    /\ pc[w] = "replace"
    /\ faults < MaxFaults
    /\ faults' = faults + 1
    /\ \/ ReplaceEffect(w)
       \/ UNCHANGED <<current, ptrTemps, history>>
    /\ Finish(w, Failure("effect_unknown", "current_replace_attempted",
                         "current_may_have_advanced", TRUE))
    /\ UNCHANGED <<staging, revisions, metadata, metaTemps, claims, claimTemps,
                   locks, req, chainSeen, rd, acked, crashes, claimCalls>>

-----------------------------------------------------------------------------
(* claim_orphan: metadata-only evidence that a transaction is abandoned.   *)

\* _inspect_orphans_locked: what may be claimed, and with which form.
Claimable(q) ==
    \/ /\ q.form = "staging"
       /\ \E s \in staging : s.rev = q.target /\ s.form # "created"
    \/ /\ q.form = "revision"
       /\ q.target \in revisions \ Reachable

ClaimTargetListed(q) ==
    IF q.form = "staging" THEN StagingOf(q.target.txn) # {}
                          ELSE UnreferencedOf(q.target.txn) # {}

\* The claimant names a transaction it found on disk and the pointer it saw.
BeginClaim(w) ==
    /\ claimCalls < MaxClaims
    /\ claimCalls' = claimCalls + 1
    /\ \E r \in revisions \cup {s.rev : s \in staging}, f \in {"staging", "revision"} :
         \E p \in {Null} \cup Published :
           Acquire(w, [by |-> w, target |-> r, form |-> f, observed |-> p], "claimAdmit")

TempOf(q) == {t \in claimTemps : t.claim.by = q.by /\ t.claim.target.txn = q.target.txn}
FinalOf(q) == {c \in claims : c.target.txn = q.target.txn}

ClaimFailure(q, c) ==
    LET temp == TempOf(q) # {}
    IN  Failure(c, IF temp THEN "control_only" ELSE "none", "current_unchanged", temp)

ClaimVerdict(q) ==
    IF PhysicalBytes > MaxRunBytes
    THEN Failure("run_budget_exceeded", "none", "current_unchanged", FALSE)
    ELSE IF FinalOf(q) # {}
    THEN IF q \in claims
         THEN Outcome("claimed", "none", "current_unchanged")
         ELSE Failure("recovery_claim_conflict", "none", "current_unchanged", FALSE)
    ELSE IF current # q.observed \/ ~ClaimTargetListed(q)
    THEN ClaimFailure(q, "recovery_claim_conflict")
    ELSE IF ~Claimable(q)
    THEN ClaimFailure(q, "run_incomplete")
    ELSE IF \E t \in TempOf(q) : ~t.whole
    THEN Failure("recovery_claim_incomplete", "control_only", "current_unchanged", TRUE)
    ELSE IF \E t \in TempOf(q) : t.claim # q
    THEN Failure("recovery_claim_conflict", "control_only", "current_unchanged", TRUE)
    ELSE IF TempOf(q) = {} /\ PhysicalBytes + ClaimBytes > MaxRunBytes
    THEN Failure("run_budget_exceeded", "none", "current_unchanged", FALSE)
    ELSE Null

ClaimAdmit(w) ==
    /\ pc[w] = "claimAdmit"
    /\ chainSeen' = [chainSeen EXCEPT ![w] = current]
    /\ LET v == ClaimVerdict(req[w])
       IN  IF v = Null
           THEN /\ Goto(w, IF TempOf(req[w]) = {} THEN "claimTemp" ELSE "claimRecheck")
                /\ UNCHANGED report
           ELSE Finish(w, v)
    /\ UNCHANGED <<disk, locks, req, rd, ghosts, bounds>>

WriteClaimTemp(w) ==
    /\ pc[w] = "claimTemp"
    /\ claimTemps' = claimTemps \cup {[claim |-> req[w], whole |-> TRUE]}
    /\ Goto(w, "claimRecheck")
    /\ UNCHANGED <<staging, revisions, current, ptrTemps, metadata, metaTemps, claims,
                   locks, req, chainSeen, report, rd, ghosts, bounds>>

\* Reachability and the final file are checked again under the same lease.
ClaimRecheck(w) ==
    /\ pc[w] = "claimRecheck"
    /\ IF req[w].target.txn \in ReachableTxns
       THEN Finish(w, Failure("recovery_claim_conflict", "none", "current_unchanged", FALSE))
       ELSE IF FinalOf(req[w]) # {}
       THEN Finish(w, IF req[w] \in claims
                      THEN Outcome("claimed", "none", "current_unchanged")
                      ELSE Failure("recovery_claim_conflict", "control_only",
                                   "current_unchanged", FALSE))
       ELSE Goto(w, "claimFinalize") /\ UNCHANGED report
    /\ UNCHANGED <<disk, locks, req, chainSeen, rd, ghosts, bounds>>

\* The claim replaces its temporary.
FinalizeEffect(w) ==
    /\ claims' = claims \cup {req[w]}
    /\ claimTemps' = claimTemps \ TempOf(req[w])

FinalizeClaim(w) ==
    /\ pc[w] = "claimFinalize"
    /\ FinalizeEffect(w)
    /\ Goto(w, "claimVerify")
    /\ UNCHANGED <<staging, revisions, current, ptrTemps, metadata, metaTemps,
                   locks, req, chainSeen, report, rd, ghosts, bounds>>

VerifyClaim(w) ==
    /\ pc[w] = "claimVerify"
    /\ Finish(w, IF req[w] \in claims /\ req[w].target.txn \notin ReachableTxns
                 THEN Outcome("claimed", "control_only", "current_unchanged")
                 ELSE Failure("recovery_claim_incomplete", "control_only",
                              "current_unchanged", TRUE))
    /\ UNCHANGED <<disk, locks, req, chainSeen, rd, ghosts, bounds>>

\* A read or a write of the claim fails.  Its admission fails at a hook, in
\* the byte count, or where it checks the names or reads what is there.
ClaimFailures(c) ==
    {Failure("transaction_failed", "control_only", "current_unchanged",
             TempOf(c) # {} \/ FinalOf(c) # {}),
     Failure("run_namespace_conflict", "control_only", "current_unchanged", FALSE),
     Failure("recovery_claim_incomplete", "control_only", "current_unchanged", TRUE)}

ClaimFails(w) ==
    /\ faults < MaxFaults
    /\ faults' = faults + 1
    /\ \/ /\ pc[w] = "claimAdmit"
          /\ \E v \in ClaimFailures(req[w]) : Finish(w, v)
          /\ UNCHANGED <<claims, claimTemps>>
       \/ /\ pc[w] = "claimTemp"
          /\ \E half \in SUBSET {[claim |-> req[w], whole |-> FALSE]} :
               /\ claimTemps' = claimTemps \cup half
               /\ Finish(w, Failure("transaction_failed", "control_only",
                                    "current_unchanged", half # {}))
          /\ UNCHANGED claims
       \/ /\ pc[w] = "claimFinalize"
          /\ FinalizeEffect(w) \/ UNCHANGED <<claims, claimTemps>>
          /\ Finish(w, Failure("effect_unknown", "control_only", "current_unchanged", TRUE))
       \/ /\ pc[w] \in {"claimRecheck", "claimVerify"}
          /\ Finish(w, Failure("recovery_claim_incomplete", "control_only",
                               "current_unchanged", TRUE))
          /\ UNCHANGED <<claims, claimTemps>>
    /\ UNCHANGED <<staging, revisions, current, ptrTemps, metadata, metaTemps,
                   locks, req, chainSeen, rd, ghosts, crashes, claimCalls>>

-----------------------------------------------------------------------------
(* Releasing the lease, in the finally clause.                             *)

\* mutant: a replayed orphan counts as committed.
Mut_Committed ==
    {"published", "current_committed", "historical_committed", "reconciliation_required"}
\* The outcomes that tell the caller its transaction is in the chain.
Committed == {"published", "current_committed", "historical_committed"}

Return(w) ==
    /\ Goto(w, "idle")
    /\ req' = [req EXCEPT ![w] = Null]
    /\ chainSeen' = [chainSeen EXCEPT ![w] = Null]
    /\ report' = [report EXCEPT ![w] = Null]

Release(w) ==
    /\ pc[w] = "release"
    /\ kernel' = Null
    /\ registry' = registry \ {ProcessOf[w]}
    /\ acked' = IF report[w].kind \in Committed THEN acked \cup {req[w]} ELSE acked
    /\ Return(w)
    /\ UNCHANGED <<disk, rd, history, bounds>>

\* LockReleaseError: closing the stream drops the kernel lock, the registry
\* keeps the key, and the caller is told effect_unknown whatever was reached.
ReleaseFails(w) ==
    /\ pc[w] = "release"
    /\ faults < MaxFaults
    /\ faults' = faults + 1
    /\ kernel' = Null
    /\ Return(w)
    /\ UNCHANGED <<disk, registry, rd, ghosts, crashes, claimCalls>>

-----------------------------------------------------------------------------
(* read_current: no lock, three attempts.                                  *)

BeginRead(r) ==
    /\ pc[r] = "idle"
    /\ rd' = [rd EXCEPT ![r] = [NoRead EXCEPT !.attempt = 1, !.start = Len(history)]]
    /\ Goto(r, "readList")
    /\ UNCHANGED <<disk, locks, req, chainSeen, report, ghosts, bounds>>

\* _validate_existing_namespace lists the directories ...
ReadList(r) ==
    /\ pc[r] = "readList"
    /\ rd' = [rd EXCEPT ![r] = [rd[r] EXCEPT !.names = {s.rev.txn : s \in staging},
                                          !.temps = ptrTemps, !.metas = metaTemps]]
    /\ Goto(r, "readStat")
    /\ UNCHANGED <<disk, locks, req, chainSeen, report, ghosts, bounds>>

ReadEnds(r, result) ==
    /\ rd' = [rd EXCEPT ![r] = [rd[r] EXCEPT !.result = result]]
    /\ Goto(r, "readDone")

\* ... and then looks at each entry, which a publisher may have renamed away
\* (metadata temps are counted, not named: one that went while another came
\* goes unnoticed).
ReadStat(r) ==
    /\ pc[r] = "readStat"
    /\ IF /\ rd[r].names \subseteq {s.rev.txn : s \in staging}
          /\ rd[r].temps \subseteq ptrTemps
          /\ rd[r].metas <= metaTemps
       THEN Goto(r, "readPointer") /\ UNCHANGED rd
       ELSE \E result \in {"run_corrupt", "run_incomplete"} : ReadEnds(r, result)
    /\ UNCHANGED <<disk, locks, req, chainSeen, report, ghosts, bounds>>

ReadPointer(r) ==
    /\ pc[r] = "readPointer"
    /\ IF current = Null
       THEN ReadEnds(r, "run_incomplete")
       ELSE /\ rd' = [rd EXCEPT ![r] = [rd[r] EXCEPT !.ptr = current]]
            /\ Goto(r, "readWalk")
    /\ UNCHANGED <<disk, locks, req, chainSeen, report, ghosts, bounds>>

ReadWalk(r) ==
    /\ pc[r] = "readWalk"
    /\ IF LineageIntact(rd[r].ptr)
       THEN Goto(r, "readAgain") /\ UNCHANGED rd
       ELSE ReadEnds(r, "run_corrupt")
    /\ UNCHANGED <<disk, locks, req, chainSeen, report, ghosts, bounds>>

ReadAgain(r) ==
    /\ pc[r] = "readAgain"
    /\ IF current = rd[r].ptr
       THEN ReadEnds(r, "ok")
       ELSE IF rd[r].attempt < 3
       THEN /\ rd' = [rd EXCEPT ![r] = [rd[r] EXCEPT !.attempt = @ + 1]]
            /\ Goto(r, "readList")
       ELSE ReadEnds(r, "run_corrupt")
    /\ UNCHANGED <<disk, locks, req, chainSeen, report, ghosts, bounds>>

ReadReturn(r) ==
    /\ pc[r] = "readDone"
    /\ rd' = [rd EXCEPT ![r] = NoRead]
    /\ Goto(r, "idle")
    /\ UNCHANGED <<disk, locks, req, chainSeen, report, ghosts, bounds>>

-----------------------------------------------------------------------------
(* A process dies: its threads are gone, the kernel drops its lock, its    *)
(* registry vanishes and whatever it wrote stays.                          *)
Crash(p) ==
    /\ crashes < MaxCrashes
    /\ \E t \in Thread : ProcessOf[t] = p /\ pc[t] # "idle"
    /\ crashes' = crashes + 1
    /\ pc' = [t \in Thread |-> IF ProcessOf[t] = p THEN "idle" ELSE pc[t]]
    /\ req' = [w \in Writer |-> IF ProcessOf[w] = p THEN Null ELSE req[w]]
    /\ chainSeen' = [w \in Writer |-> IF ProcessOf[w] = p THEN Null ELSE chainSeen[w]]
    /\ report' = [w \in Writer |-> IF ProcessOf[w] = p THEN Null ELSE report[w]]
    /\ rd' = [r \in Reader |-> IF ProcessOf[r] = p THEN NoRead ELSE rd[r]]
    /\ kernel' = IF kernel \in Thread /\ ProcessOf[kernel] = p THEN Null ELSE kernel
    /\ registry' = registry \ {p}
    /\ UNCHANGED <<disk, ghosts, faults, claimCalls>>

-----------------------------------------------------------------------------
PublishNext(w) ==
    \/ BeginPublish(w) \/ Admit(w) \/ AdmitFails(w)
    \/ WriteMetadataTemp(w) \/ ReplaceMetadata(w)
    \/ MakeStaging(w) \/ WriteTransaction(w) \/ WritePayloadAndManifest(w)
    \/ RenameToRevision(w) \/ WritePointerTemp(w) \/ FinalCas(w)
    \/ ReplaceCurrent(w) \/ Reconcile(w) \/ ReconcileLineage(w) \/ SyncDirectory(w)
    \/ StepFails(w) \/ MkdirFails(w) \/ MetadataReplaceFails(w) \/ RenameFails(w) \/ ReplaceFails(w)

ClaimNext(w) ==
    \/ BeginClaim(w) \/ ClaimAdmit(w) \/ WriteClaimTemp(w) \/ ClaimRecheck(w)
    \/ FinalizeClaim(w) \/ VerifyClaim(w) \/ ClaimFails(w)

ReadNext(r) ==
    \/ BeginRead(r) \/ ReadList(r) \/ ReadStat(r) \/ ReadPointer(r)
    \/ ReadWalk(r) \/ ReadAgain(r) \/ ReadReturn(r)

Next ==
    \/ \E w \in Writer : PublishNext(w) \/ ClaimNext(w) \/ Release(w) \/ ReleaseFails(w)
    \/ \E r \in Reader : ReadNext(r)
    \/ \E p \in Process : Crash(p)

Spec == Init /\ [][Next]_vars

-----------------------------------------------------------------------------
(* Properties.                                                             *)

\* Every variable has its shape.
TypeOK ==
    /\ staging \in SUBSET StagingEntry
    /\ revisions \in SUBSET Revision
    /\ current \in Revision \cup {Null}
    /\ ptrTemps \in SUBSET Txn
    /\ metadata \in BOOLEAN
    /\ metaTemps \in Int
    /\ claims \in SUBSET Claim
    /\ claimTemps \in SUBSET [claim : Claim, whole : BOOLEAN]
    /\ kernel \in Thread \cup {Null}
    /\ registry \in SUBSET Process
    /\ pc \in [Thread -> Locked \cup ReadStep \cup {"idle"}]
    /\ req \in [Writer -> Revision \cup Claim \cup {Null}]
    /\ chainSeen \in [Writer -> Revision \cup {Null}]
    /\ report \in [Writer -> Report \cup {Null}]
    /\ rd \in [Reader -> ReaderState]
    /\ history \in Seq(Revision)
    /\ acked \in SUBSET Revision
    /\ faults \in 0..MaxFaults /\ crashes \in 0..MaxCrashes /\ claimCalls \in 0..MaxClaims

\* Whatever crashed or failed, the walk of _read_chain from current.json meets
\* exactly one directory per revision number and ends in revision 1, and what
\* it collects is everything that was ever current, in order.
ChainIsHistory ==
    /\ current = IF history = <<>> THEN Null ELSE history[Len(history)]
    /\ current # Null => LineageIntact(current)
    /\ Reachable = Published
    /\ \A i \in DOMAIN history : history[i].num = i

\* A transaction id is published at most once, over all retries of all
\* writers: no two published revisions share it.
TxnPublishedOnce ==
    \A i, j \in DOMAIN history : history[i].txn = history[j].txn => i = j

\* A caller that was told its transaction is committed finds it in the chain
\* for ever, with the content it sent.
AckedStaysReachable == acked \subseteq Reachable

NamesRefused(r) == r.code = "run_namespace_conflict" /\ r.fs = "none"

\* What a publish reports about the disk and about current.json is true when
\* it reports it (the lease is still held), and a failure that does not ask
\* for reconciliation leaves no trace of its transaction - unless the call was
\* refused over the names of the run, before it looked for its transaction.
ReportsTruthful ==
    \A w \in Writer :
      (pc[w] = "release" /\ req[w] \in Revision) =>
        LET q == req[w]
            r == report[w]
        IN  /\ r.domain = "current_unchanged" => current = chainSeen[w]
            /\ r.domain = "current_advanced" => current = q
            /\ r.domain = "current_may_have_advanced" => current \in {q, chainSeen[w]}
            /\ r.fs = "staging_orphan" => StagingOf(q.txn) # {}
            /\ r.fs = "unreferenced_revision" => UnreferencedOf(q.txn) # {}
            /\ r.kind \in Committed => q \in Reachable
            /\ (r.kind = "failure" /\ ~r.recon /\ ~NamesRefused(r)) => ~OrphanLeft(q.txn)

\* A claimed transaction never becomes reachable: no publisher adopts the
\* directory the claim is about.
ClaimedNeverReachable == \A c \in claims : c.target.txn \notin ReachableTxns

\* The run's files stay within max_run_bytes at every step of every
\* operation, orphans and leftover temporaries included.
QuotaRespected == PhysicalBytes <= MaxRunBytes

\* A read that succeeds returns a pointer that was current at some time
\* between its call and its return, with that pointer's complete history.
ReadIsCurrent ==
    \A r \in Reader :
      rd[r].result = "ok" =>
        \E i \in DOMAIN history :
          /\ i >= rd[r].start
          /\ history[i] = rd[r].ptr
          /\ Chain(rd[r].ptr) = {history[j] : j \in 1..i}

\* current.json moves only from a revision to a successor that was built on
\* it: the number grows by one, the manifest link names the old current, and
\* the directory is complete.  No update is lost.
AdvanceByOne ==
    [][current' # current =>
         /\ current' \in revisions
         /\ current'.base = (IF current = Null THEN Null ELSE IdOf(current))
         /\ current'.num = (IF current = Null THEN 1 ELSE current.num + 1)]_vars

\* The log that a verified read of the disk yields.
PublishedLog ==
    IF current = Null
    THEN <<>>
    ELSE LET c == CHOOSE c \in Walk(current) : TRUE
         IN  [i \in 1..current.num |-> IdOf(c[i])]

Log == INSTANCE RevisionLog WITH log <- PublishedLog, acked <- {IdOf(r) : r \in acked}

\* Crashes, faults, orphans and claims are invisible through a verified read:
\* the store implements the append-only log of RevisionLog.
ImplementsLog == Log!Spec

\* What the storage document says of read_current: with cooperating writers
\* it returns the complete old or the complete new pointer and nothing else.
\* A run that had a current revision when the read began, and no fault and no
\* crash, is still reported as corrupt when an entry the read listed is
\* renamed before the read looks at it.
ReadNeverFailsSpuriously ==
    \A r \in Reader :
      rd[r].start > 0 => rd[r].result \notin {"run_corrupt", "run_incomplete"}

-----------------------------------------------------------------------------
(* The inductive invariant behind the safety properties.                   *)

\* Only the holder of the kernel lock is inside the store.
LockInv == \A w \in Writer : pc[w] \in Locked => kernel = w

\* A transaction has at most one revision directory, and none while it has a
\* staging directory.
DirInv ==
    /\ \A r, s \in revisions : r.txn = s.txn => r = s
    /\ \A s \in staging : \A r \in revisions : s.rev.txn # r.txn

\* The published revisions are on disk, numbered from 1 and linked.
HistInv ==
    /\ current = IF history = <<>> THEN Null ELSE history[Len(history)]
    /\ \A i \in DOMAIN history :
         /\ history[i] \in revisions
         /\ history[i].num = i
         /\ history[i].base = IF i = 1 THEN Null ELSE IdOf(history[i - 1])

Fresh(t) == StagingOf(t) = {} /\ \A r \in revisions : r.txn # t
Unpublished(t) == \A i \in DOMAIN history : history[i].txn # t

\* What the holder has established so far.
PipeInv(w) ==
    /\ pc[w] \in {"meta", "metaReplace", "mkdir"} => Fresh(req[w].txn)
    /\ pc[w] \in {"describe", "fill", "rename"} => \E s \in staging : s.rev = req[w]
    /\ pc[w] \in {"pointer", "finalCas", "replace"} => req[w] \in revisions
    /\ pc[w] \in {"meta", "metaReplace", "mkdir", "describe", "fill", "rename",
                  "pointer", "finalCas", "replace"} =>
         /\ CasMatches(req[w], current)
         /\ \A c \in claims : c.target.txn # req[w].txn
    /\ pc[w] \in {"reconcile", "lineage", "sync"} => current = req[w]
    /\ pc[w] = "release" /\ report[w].kind \in Committed => req[w] \in Published
    /\ pc[w] \in {"claimTemp", "claimRecheck", "claimFinalize"} =>
         ~Fresh(req[w].target.txn) /\ Unpublished(req[w].target.txn)

\* A claimed transaction has left something on disk, so that no publish of it
\* is admitted again, and is not published.
ClaimInv == \A c \in claims : ~Fresh(c.target.txn) /\ Unpublished(c.target.txn)

AckInv == acked \subseteq Published

SafeInv ==
    /\ LockInv /\ DirInv /\ HistInv
    /\ \A w \in Writer : PipeInv(w)
    /\ ClaimInv /\ AckInv
=============================================================================

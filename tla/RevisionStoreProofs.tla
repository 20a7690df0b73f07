------------------------- MODULE RevisionStoreProofs -------------------------
(*****************************************************************************)
(* Proofs about RevisionStore, for any number of writers, readers,           *)
(* processes, transactions, faults and crashes: its type invariant, the      *)
(* inductive invariant SafeInv, and the safety theorems that follow from it. *)
(* The last part is what the callers of the store may rely on: it implements *)
(* the append-only log of RevisionLog, read_current, which takes no lock,    *)
(* returns a revision that was current during its call, what a publish       *)
(* reports about the disk and the pointer is true, and the files of a run    *)
(* never exceed max_run_bytes: each admission computes the peak of its own   *)
(* operation, and every later step stays within what was admitted, orphans   *)
(* and leftovers of any number of earlier crashes included.                  *)
(*****************************************************************************)
EXTENDS RevisionStore, WellFoundedInduction, SequenceTheorems, FiniteSetTheorems, TLAPS

-----------------------------------------------------------------------------
(* Type correctness.                                                       *)

LEMMA FailureType ==
    ASSUME NEW c \in Code, NEW f \in FsEffect, NEW d \in DomainEffect, NEW b \in BOOLEAN
    PROVE  Failure(c, f, d, b) \in Report
  BY DEF Failure, Report, Kind

LEMMA AdmitFailuresType ==
    ASSUME NEW q
    PROVE  AdmitFailures(q) \subseteq Report
<1>1. OrphanEffect(q.txn) \in FsEffect BY DEF OrphanEffect, FsEffect
<1>2. OrphanLeft(q.txn) \in BOOLEAN BY DEF OrphanLeft
<1>3. /\ {"run_namespace_conflict", "run_corrupt", "transaction_failed"} \subseteq Code
      /\ "none" \in FsEffect /\ "current_unchanged" \in DomainEffect
  BY DEF Code, FsEffect, DomainEffect
<1>4. /\ Failure("run_namespace_conflict", "none", "current_unchanged", FALSE) \in Report
      /\ Failure("run_corrupt", "none", "current_unchanged", TRUE) \in Report
  BY <1>3, FailureType
<1>5. \A c \in {"run_namespace_conflict", "transaction_failed"} :
         Failure(c, OrphanEffect(q.txn), "current_unchanged", OrphanLeft(q.txn)) \in Report
  BY <1>1, <1>2, <1>3, FailureType
<1> QED BY <1>4, <1>5 DEF AdmitFailures

LEMMA OutcomeType ==
    ASSUME NEW k \in Kind, NEW f \in FsEffect, NEW d \in DomainEffect
    PROVE  Outcome(k, f, d) \in Report
  BY DEF Outcome, Report, Code

LEMMA AdmitVerdictType ==
    ASSUME NEW q \in Revision
    PROVE  AdmitVerdict(q) \in Report \cup {Null}
<1>1. OrphanEffect(q.txn) \in FsEffect
  BY DEF OrphanEffect, FsEffect
<1> QED
  BY <1>1, FailureType, OutcomeType, ZenonT(60)
  DEF AdmitVerdict, Code, FsEffect, DomainEffect, Kind

LEMMA ClaimVerdictType ==
    ASSUME NEW q \in Claim
    PROVE  ClaimVerdict(q) \in Report \cup {Null}
<1>1. \A c \in Code : ClaimFailure(q, c) \in Report
  BY FailureType DEF ClaimFailure, FsEffect, DomainEffect
<1> QED
  BY <1>1, FailureType, OutcomeType
  DEF ClaimVerdict, Code, FsEffect, DomainEffect, Kind

\* Which request a thread inside the store is serving, and what it is about
\* to return.
ServingInv ==
    \A w \in Writer :
      /\ pc[w] \in PublishStep => req[w] \in Revision
      /\ pc[w] \in ClaimStep => req[w] \in Claim
      /\ pc[w] = "release" => /\ report[w] \in Report
                              /\ report[w].kind \in Committed => req[w] \in Revision

TypeInv == TypeOK /\ ServingInv

\* A step that only moves one writer from a publish step to another, or to its
\* release with a well-formed report, keeps the shape of the local state.
LEMMA MoveInsidePublish ==
    ASSUME TypeInv, NEW w \in Writer, pc[w] \in PublishStep,
           req' = req,
           \/ \E l \in PublishStep : Goto(w, l) /\ UNCHANGED report
           \/ \E r \in Report : Finish(w, r)
    PROVE  /\ pc' \in [Thread -> Locked \cup ReadStep \cup {"idle"}]
           /\ report' \in [Writer -> Report \cup {Null}]
           /\ ServingInv'
<1> USE DEF TypeInv, TypeOK, Thread, Locked
<1>1. w \in Thread /\ req[w] \in Revision
  BY DEF ServingInv
<1>2. CASE \E l \in PublishStep : Goto(w, l) /\ UNCHANGED report
  BY <1>1, <1>2 DEF Goto, ServingInv, PublishStep, ClaimStep
<1>3. CASE \E r \in Report : Finish(w, r)
  BY <1>1, <1>3 DEF Finish, Goto, ServingInv, PublishStep, ClaimStep
<1> QED BY <1>2, <1>3

LEMMA MoveInsideClaim ==
    ASSUME TypeInv, NEW w \in Writer, pc[w] \in ClaimStep,
           req' = req,
           \/ \E l \in ClaimStep : Goto(w, l) /\ UNCHANGED report
           \/ \E r \in Report : Finish(w, r) /\ r.kind \notin Committed
    PROVE  /\ pc' \in [Thread -> Locked \cup ReadStep \cup {"idle"}]
           /\ report' \in [Writer -> Report \cup {Null}]
           /\ ServingInv'
<1> USE DEF TypeInv, TypeOK, Thread, Locked
<1>1. w \in Thread /\ req[w] \in Claim
  BY DEF ServingInv
<1>2. CASE \E l \in ClaimStep : Goto(w, l) /\ UNCHANGED report
  BY <1>1, <1>2 DEF Goto, ServingInv, PublishStep, ClaimStep
<1>3. CASE \E r \in Report : Finish(w, r) /\ r.kind \notin Committed
  BY <1>1, <1>3 DEF Finish, Goto, ServingInv, PublishStep, ClaimStep
<1> QED BY <1>2, <1>3

LEMMA AcquireType ==
    ASSUME TypeInv, NEW w \in Writer, NEW q, NEW l,
           Acquire(w, q, l),
           \/ q \in Revision /\ l \in PublishStep
           \/ q \in Claim /\ l \in ClaimStep,
           claimCalls' \in 0..MaxClaims
    PROVE  TypeInv'
<1> USE ConstantsAssumption DEF TypeInv, Acquire, disk, ghosts
<1>1. ServingInv'
  BY DEF TypeOK, ServingInv, Goto, Thread, PublishStep, ClaimStep
<1>2. w \in Thread /\ ProcessOf[w] \in Process
  BY DEF Thread
<1>3. l \in Locked
  BY DEF Locked
<1>4. TypeOK'
  BY <1>2, <1>3 DEF TypeOK, Goto
<1> QED BY <1>1, <1>4

LEMMA PublishedIsRevision ==
    ASSUME TypeOK
    PROVE  \A p \in Published : p \in Revision
  BY DEF TypeOK, Published

LEMMA PublishType ==
    ASSUME TypeInv, NEW w \in Writer, PublishNext(w)
    PROVE  TypeInv'
<1> USE ConstantsAssumption DEF TypeInv
<1> DEFINE Reported == \E r \in Report : Finish(w, r)
           Moved == \E l \in PublishStep : Goto(w, l) /\ UNCHANGED report
<1>a. w \in Thread BY DEF Thread
<1>b. pc[w] \in PublishStep => req[w] \in Revision
  BY DEF ServingInv
<1>1. CASE BeginPublish(w)
  <2>1. PICK t \in Txn, b \in Body, p \in {Null} \cup Published :
          LET n == IF p = Null THEN 1 ELSE p.num + 1
              e == IF p = Null THEN Null ELSE IdOf(p)
          IN  /\ n <= MaxRevision
              /\ Acquire(w, [txn |-> t, body |-> b, base |-> e, num |-> n], "admit")
              /\ UNCHANGED claimCalls
    BY <1>1 DEF BeginPublish
  <2>2. p # Null => p \in Revision
    BY PublishedIsRevision
  <2> DEFINE q == [txn |-> t, body |-> b,
                   base |-> IF p = Null THEN Null ELSE IdOf(p),
                   num |-> IF p = Null THEN 1 ELSE p.num + 1]
  <2>3. q \in Revision
    BY <2>1, <2>2 DEF Revision, ManifestId, IdOf
  <2> QED
    BY <2>1, <2>3, AcquireType DEF PublishStep, TypeOK
<1>2. CASE Admit(w)
  <2>1. pc[w] = "admit" /\ req' = req BY <1>2 DEF Admit
  <2>2. Reported \/ Moved
    BY <1>2, <1>b, <2>1, AdmitVerdictType DEF Admit, PublishStep
  <2> QED BY <1>2, <2>1, <2>2, MoveInsidePublish
          DEF Admit, TypeOK, PublishStep, disk, locks, ghosts, bounds
<1>3. CASE AdmitFails(w)
  <2>1. pc[w] = "admit" /\ req' = req BY <1>3 DEF AdmitFails
  <2>2. AdmitFailures(req[w]) \subseteq Report
    BY AdmitFailuresType
  <2>4. Reported
    BY <1>3, <2>2 DEF AdmitFails
  <2> QED BY <1>3, <2>1, <2>4, MoveInsidePublish
          DEF AdmitFails, TypeOK, PublishStep, disk, locks, ghosts
<1>4. CASE WriteMetadataTemp(w)
  BY <1>4, MoveInsidePublish DEF WriteMetadataTemp, TypeOK, PublishStep, locks, ghosts, bounds
<1>5. CASE ReplaceMetadata(w)
  BY <1>5, MoveInsidePublish DEF ReplaceMetadata, TypeOK, PublishStep, locks, ghosts, bounds
<1>6. CASE MakeStaging(w) \/ WriteTransaction(w) \/ WritePayloadAndManifest(w)
  <2>1. PICK l \in PublishStep, m \in PublishStep, f \in StagingForm : Stage(w, l, m, f)
    BY <1>6 DEF MakeStaging, WriteTransaction, WritePayloadAndManifest, PublishStep, StagingForm
  <2>2. [rev |-> req[w], form |-> f] \in StagingEntry
    BY <1>b, <2>1 DEF Stage, StagingEntry
  <2> QED
    BY <2>1, <2>2, MoveInsidePublish
    DEF Stage, StagingOf, TypeOK, locks, ghosts, bounds
<1>7. CASE RenameToRevision(w)
  BY <1>7, <1>b, MoveInsidePublish
  DEF RenameToRevision, RenameEffect, StagingOf, TypeOK, PublishStep, locks, ghosts, bounds
<1>8. CASE WritePointerTemp(w)
  <2>1. req[w].txn \in Txn BY <1>8, <1>b DEF WritePointerTemp, Revision, PublishStep
  <2> QED BY <1>8, <2>1, MoveInsidePublish
          DEF WritePointerTemp, TypeOK, PublishStep, locks, ghosts, bounds
<1>9. CASE FinalCas(w) \/ Reconcile(w) \/ ReconcileLineage(w) \/ SyncDirectory(w)
  <2>1. pc[w] \in PublishStep /\ req' = req
    BY <1>9 DEF FinalCas, Reconcile, ReconcileLineage, SyncDirectory, PublishStep
  <2>2. Reported \/ Moved
    BY <1>9, FailureType, OutcomeType
    DEF FinalCas, Reconcile, ReconcileLineage, SyncDirectory, PublishStep,
        Code, FsEffect, DomainEffect, Kind
  <2> QED BY <1>9, <2>1, <2>2, MoveInsidePublish
          DEF FinalCas, Reconcile, ReconcileLineage, SyncDirectory, TypeOK,
              disk, locks, ghosts, bounds
<1>10. CASE ReplaceCurrent(w)
  BY <1>10, <1>b, MoveInsidePublish
  DEF ReplaceCurrent, ReplaceEffect, TypeOK, PublishStep, locks, bounds
<1>11. CASE StepFails(w)
  <2>1. pc[w] \in PublishStep /\ req' = req BY <1>11 DEF StepFails
  <2>2. FaultReport(w) \in Report
    BY <1>11, FailureType
    DEF StepFails, FaultReport, PublishStep, Code, FsEffect, DomainEffect
  <2>3. Reported BY <1>11, <2>2 DEF StepFails
  <2>4. req[w].txn \in Txn BY <2>1, <1>b DEF Revision
  <2> QED BY <1>11, <2>1, <2>3, <2>4, MoveInsidePublish
          DEF StepFails, PartialWrite, TypeOK, locks, ghosts
<1>12. CASE MkdirFails(w)
  <2>1. pc[w] \in PublishStep /\ req' = req BY <1>12 DEF MkdirFails, PublishStep
  <2>2. Reported
    BY <1>12, FailureType DEF MkdirFails, Code, FsEffect, DomainEffect
  <2> QED BY <1>12, <2>1, <2>2, MoveInsidePublish
          DEF MkdirFails, TypeOK, disk, locks, ghosts
<1>13. CASE MetadataReplaceFails(w)
  <2>1. pc[w] \in PublishStep /\ req' = req BY <1>13 DEF MetadataReplaceFails, PublishStep
  <2>2. Reported
    BY <1>13, FailureType DEF MetadataReplaceFails, Code, FsEffect, DomainEffect
  <2>3. metaTemps' \in Int
    BY <1>13 DEF MetadataReplaceFails, TypeOK
  <2>5. metadata' \in BOOLEAN
    BY <1>13, Zenon DEF MetadataReplaceFails, TypeOK
  <2>4. /\ UNCHANGED <<staging, revisions, current, ptrTemps, claims, claimTemps>>
        /\ UNCHANGED <<locks, req, chainSeen, rd, ghosts, crashes, claimCalls>>
    BY <1>13 DEF MetadataReplaceFails
  <2>6. faults' \in 0..MaxFaults
    BY <1>13 DEF MetadataReplaceFails, TypeOK
  <2> QED BY <2>1, <2>2, <2>3, <2>4, <2>5, <2>6, MoveInsidePublish DEF TypeOK, locks, ghosts
<1>14. CASE RenameFails(w)
  <2>1. pc[w] \in PublishStep /\ req' = req BY <1>14 DEF RenameFails, PublishStep
  <2>2. Reported
    BY <1>14, FailureType DEF RenameFails, RenameFailureEffect, Code, FsEffect, DomainEffect
  <2> QED BY <1>14, <1>b, <2>1, <2>2, MoveInsidePublish
          DEF RenameFails, RenameEffect, StagingOf, TypeOK, locks, ghosts
<1>15. CASE ReplaceFails(w)
  <2>1. pc[w] \in PublishStep /\ req' = req BY <1>15 DEF ReplaceFails, PublishStep
  <2>2. Reported
    BY <1>15, FailureType DEF ReplaceFails, Code, FsEffect, DomainEffect
  <2>3. /\ current' \in Revision \cup {Null} /\ ptrTemps' \in SUBSET Txn
        /\ history' \in Seq(Revision)
    <3>1. ReplaceEffect(w) \/ UNCHANGED <<current, ptrTemps, history>>
      BY <1>15 DEF ReplaceFails
    <3>2. CASE ReplaceEffect(w)
      BY <1>b, <2>1, <3>2 DEF ReplaceEffect, TypeOK
    <3>3. CASE UNCHANGED <<current, ptrTemps, history>>
      BY <3>3 DEF TypeOK
    <3> QED BY <3>1, <3>2, <3>3
  <2>4. /\ UNCHANGED <<staging, revisions, metadata, metaTemps, claims, claimTemps>>
        /\ UNCHANGED <<locks, req, chainSeen, rd, acked, crashes, claimCalls>>
    BY <1>15 DEF ReplaceFails
  <2>5. faults' \in 0..MaxFaults
    BY <1>15 DEF ReplaceFails, TypeOK
  <2> QED BY <2>1, <2>2, <2>3, <2>4, <2>5, MoveInsidePublish DEF TypeOK, locks
<1> QED
  BY <1>1, <1>2, <1>3, <1>4, <1>5, <1>6, <1>7, <1>8, <1>9, <1>10, <1>11, <1>12, <1>13,
     <1>14, <1>15 DEF PublishNext

LEMMA ClaimType ==
    ASSUME TypeInv, NEW w \in Writer, ClaimNext(w)
    PROVE  TypeInv'
<1> USE ConstantsAssumption DEF TypeInv
<1> DEFINE Refused == \E r \in Report : Finish(w, r) /\ r.kind \notin Committed
           Moved == \E l \in ClaimStep : Goto(w, l) /\ UNCHANGED report
<1>a. w \in Thread BY DEF Thread
<1>b. pc[w] \in ClaimStep => req[w] \in Claim
  BY DEF ServingInv
<1>c. \A c, f, d, b : Failure(c, f, d, b).kind \notin Committed
  BY DEF Failure, Committed
<1>d. \A f, d : Outcome("claimed", f, d).kind \notin Committed
  BY DEF Outcome, Committed
<1>1. CASE BeginClaim(w)
  <2>1. PICK r \in revisions \cup {s.rev : s \in staging}, f \in {"staging", "revision"},
             p \in {Null} \cup Published :
          Acquire(w, [by |-> w, target |-> r, form |-> f, observed |-> p], "claimAdmit")
    BY <1>1 DEF BeginClaim
  <2>2. r \in Revision
    BY SMTT(60) DEF TypeOK, StagingEntry
  <2>3. [by |-> w, target |-> r, form |-> f, observed |-> p] \in Claim
    BY <2>2, PublishedIsRevision DEF Claim
  <2>4. claimCalls' \in 0..MaxClaims
    BY <1>1 DEF BeginClaim, TypeOK
  <2> QED BY <2>1, <2>3, <2>4, AcquireType DEF ClaimStep
<1>2. CASE ClaimAdmit(w)
  <2>1. pc[w] = "claimAdmit" /\ req' = req BY <1>2 DEF ClaimAdmit
  <2>2. ClaimVerdict(req[w]) # Null => ClaimVerdict(req[w]) \in Report
    BY <1>b, <2>1, ClaimVerdictType DEF ClaimStep
  <2>3. ClaimVerdict(req[w]) # Null => ClaimVerdict(req[w]).kind \notin Committed
    BY <1>c, <1>d DEF ClaimVerdict, ClaimFailure
  <2>4. Refused \/ Moved
    BY <1>2, <2>2, <2>3 DEF ClaimAdmit, ClaimStep
  <2> QED BY <1>2, <2>1, <2>4, MoveInsideClaim
          DEF ClaimAdmit, TypeOK, ClaimStep, disk, locks, ghosts, bounds
<1>3. CASE WriteClaimTemp(w)
  <2>1. [claim |-> req[w], whole |-> TRUE] \in [claim : Claim, whole : BOOLEAN]
    BY <1>3, <1>b DEF WriteClaimTemp, ClaimStep
  <2> QED BY <1>3, <2>1, MoveInsideClaim
          DEF WriteClaimTemp, TypeOK, ClaimStep, locks, ghosts, bounds
<1>4. CASE ClaimRecheck(w) \/ VerifyClaim(w)
  <2>1. pc[w] \in ClaimStep /\ req' = req
    BY <1>4 DEF ClaimRecheck, VerifyClaim, ClaimStep
  <2>2. Refused \/ Moved
    BY <1>4, <1>c, <1>d, FailureType, OutcomeType
    DEF ClaimRecheck, VerifyClaim, ClaimStep, Code, FsEffect, DomainEffect, Kind
  <2> QED BY <1>4, <2>1, <2>2, MoveInsideClaim
          DEF ClaimRecheck, VerifyClaim, TypeOK, disk, locks, ghosts, bounds
<1>5. CASE FinalizeClaim(w)
  <2>1. claims' \in SUBSET Claim /\ claimTemps' \in SUBSET [claim : Claim, whole : BOOLEAN]
    BY <1>5, <1>b DEF FinalizeClaim, FinalizeEffect, TempOf, TypeOK, ClaimStep
  <2> QED BY <1>5, <2>1, MoveInsideClaim
          DEF FinalizeClaim, TypeOK, ClaimStep, locks, ghosts, bounds
<1>6. CASE ClaimFails(w)
  <2>1. pc[w] \in ClaimStep /\ req' = req
    BY <1>6, Zenon DEF ClaimFails, ClaimStep
  <2>7. faults' \in 0..MaxFaults
    BY <1>6 DEF ClaimFails, TypeOK
  <2>2. req[w] \in Claim BY <1>b, <2>1
  <2>3. \A c \in Code, f \in FsEffect, b \in BOOLEAN :
          Finish(w, Failure(c, f, "current_unchanged", b)) => Refused
    BY <1>c, FailureType DEF DomainEffect
  <2>4. Refused
    <3>1. CASE pc[w] = "claimAdmit"
      <4>1. (TempOf(req[w]) # {} \/ FinalOf(req[w]) # {}) \in BOOLEAN
        OBVIOUS
      <4>2. PICK v \in ClaimFailures(req[w]) : Finish(w, v)
        BY <1>6, <3>1 DEF ClaimFails
      <4> QED BY <2>3, <4>1, <4>2 DEF ClaimFailures, Code, FsEffect
    <3>2. CASE pc[w] = "claimTemp"
      <4>1. PICK half : Finish(w, Failure("transaction_failed", "control_only",
                                          "current_unchanged", half # {}))
        BY <1>6, <3>2 DEF ClaimFails
      <4>2. (half # {}) \in BOOLEAN
        OBVIOUS
      <4> QED BY <2>3, <4>1, <4>2 DEF Code, FsEffect
    <3>3. CASE pc[w] \in {"claimFinalize", "claimRecheck", "claimVerify"}
      BY <1>6, <2>3, <3>3 DEF ClaimFails, Code, FsEffect
    <3> QED BY <2>1, <3>1, <3>2, <3>3 DEF ClaimStep
  <2>5. /\ claims' \in SUBSET Claim
        /\ claimTemps' \in SUBSET [claim : Claim, whole : BOOLEAN]
    <3>1. [claim |-> req[w], whole |-> FALSE] \in [claim : Claim, whole : BOOLEAN]
      BY <2>2
    <3>2. FinalizeEffect(w) => /\ claims' \in SUBSET Claim
                               /\ claimTemps' \in SUBSET [claim : Claim, whole : BOOLEAN]
      BY <2>2 DEF FinalizeEffect, TempOf, TypeOK
    <3>3. claims \in SUBSET Claim /\ claimTemps \in SUBSET [claim : Claim, whole : BOOLEAN]
      BY DEF TypeOK
    <3> QED BY <1>6, <3>1, <3>2, <3>3 DEF ClaimFails
  <2>6. UNCHANGED <<staging, revisions, current, ptrTemps, metadata, metaTemps,
                    locks, req, chainSeen, rd, ghosts, crashes, claimCalls>>
    BY <1>6 DEF ClaimFails
  <2> QED BY <2>1, <2>4, <2>5, <2>6, <2>7, MoveInsideClaim DEF TypeOK, locks, ghosts
<1> QED
  BY <1>1, <1>2, <1>3, <1>4, <1>5, <1>6 DEF ClaimNext

LEMMA ReleaseType ==
    ASSUME TypeInv, NEW w \in Writer, Release(w) \/ ReleaseFails(w)
    PROVE  TypeInv'
<1> USE ConstantsAssumption DEF TypeInv
<1>a. w \in Thread BY DEF Thread
<1>1. pc' = [pc EXCEPT ![w] = "idle"] /\ req' = [req EXCEPT ![w] = Null]
  BY DEF Release, ReleaseFails, Return, Goto
<1>2. report' = [report EXCEPT ![w] = Null] /\ chainSeen' = [chainSeen EXCEPT ![w] = Null]
  BY DEF Release, ReleaseFails, Return
<1>3. ServingInv'
  BY <1>1, <1>2 DEF ServingInv, TypeOK, PublishStep, ClaimStep, Thread
<1>4. /\ kernel' \in Thread \cup {Null} /\ registry' \in SUBSET Process
      /\ history' = history /\ rd' = rd
      /\ faults' \in 0..MaxFaults /\ crashes' = crashes /\ claimCalls' = claimCalls
  BY DEF Release, ReleaseFails, TypeOK, ghosts, bounds
<1>5. acked' \in SUBSET Revision
  BY DEF Release, ReleaseFails, TypeOK, ServingInv, ghosts
<1>6. UNCHANGED disk
  BY DEF Release, ReleaseFails
<1> QED
  BY <1>a, <1>1, <1>2, <1>3, <1>4, <1>5, <1>6 DEF TypeOK, disk

LEMMA ReadType ==
    ASSUME TypeInv, NEW r \in Reader, ReadNext(r)
    PROVE  TypeInv'
<1> USE ConstantsAssumption DEF TypeInv
<1>a. r \in Thread /\ r \notin Writer BY DEF Thread
<1>1. /\ UNCHANGED <<disk, locks, req, chainSeen, report, ghosts, bounds>>
      /\ \E l \in ReadStep \cup {"idle"} : pc' = [pc EXCEPT ![r] = l]
  BY DEF ReadNext, BeginRead, ReadList, ReadStat, ReadPointer, ReadWalk, ReadAgain,
         ReadReturn, ReadEnds, Goto, ReadStep
<1>2. NoRead \in ReaderState
  BY DEF NoRead, ReaderState
<1>3. \A s \in ReaderState : [rd EXCEPT ![r] = s] \in [Reader -> ReaderState]
  BY DEF TypeOK
<1>4. rd[r] \in ReaderState
  BY DEF TypeOK
<1>5. \A x \in {"ok", "run_incomplete", "run_corrupt"} :
        [rd[r] EXCEPT !.result = x] \in ReaderState
  BY <1>4 DEF ReaderState
<1>6. rd' \in [Reader -> ReaderState]
  <2>1. CASE BeginRead(r)
    <3>1. Len(history) \in Nat
      BY DEF TypeOK
    <3>2. \A n \in Nat : [NoRead EXCEPT !.attempt = 1, !.start = n] \in ReaderState
      <4> TAKE n \in Nat
      <4>1. [NoRead EXCEPT !.attempt = 1] \in ReaderState
        BY <1>2 DEF ReaderState
      <4>2. [[NoRead EXCEPT !.attempt = 1] EXCEPT !.start = n] \in ReaderState
        BY <4>1 DEF ReaderState
      <4> QED BY <4>2
    <3> QED BY <1>3, <2>1, <3>1, <3>2 DEF BeginRead
  <2>2. CASE ReadList(r)
    <3>1. {s.rev.txn : s \in staging} \in SUBSET Txn /\ ptrTemps \in SUBSET Txn
      BY SMTT(60) DEF TypeOK, StagingEntry, Revision
    <3>2. \A x, y \in SUBSET Txn, n \in Int :
            [rd[r] EXCEPT !.names = x, !.temps = y, !.metas = n] \in ReaderState
      BY <1>4 DEF ReaderState
    <3>3. metaTemps \in Int
      BY DEF TypeOK
    <3> QED BY <1>3, <2>2, <3>1, <3>2, <3>3 DEF ReadList
  <2>3. CASE ReadStat(r) \/ ReadWalk(r)
    BY <1>3, <1>5, <2>3, ZenonT(60) DEF ReadStat, ReadWalk, ReadEnds, TypeOK
  <2>4. CASE ReadPointer(r)
    <3>1. current \in Revision \cup {Null}
      BY DEF TypeOK
    <3>2. [rd[r] EXCEPT !.ptr = current] \in ReaderState
      BY <1>4, <3>1 DEF ReaderState
    <3> QED BY <1>3, <1>5, <2>4, <3>2 DEF ReadPointer, ReadEnds
  <2>5. CASE ReadAgain(r)
    <3>1. rd[r].attempt < 3 => [rd[r] EXCEPT !.attempt = @ + 1] \in ReaderState
      BY <1>4 DEF ReaderState
    <3> QED BY <1>3, <1>5, <2>5, <3>1 DEF ReadAgain, ReadEnds
  <2>6. CASE ReadReturn(r)
    BY <1>2, <1>3, <2>6 DEF ReadReturn
  <2> QED BY <2>1, <2>2, <2>3, <2>4, <2>5, <2>6 DEF ReadNext
<1>7. ServingInv'
  BY <1>a, <1>1 DEF ServingInv, TypeOK
<1> QED
  BY <1>a, <1>1, <1>6, <1>7 DEF TypeOK, disk, locks, ghosts, bounds

LEMMA CrashType ==
    ASSUME TypeInv, NEW p \in Process, Crash(p)
    PROVE  TypeInv'
<1> USE ConstantsAssumption DEF TypeInv
<1>1. NoRead \in ReaderState
  BY DEF NoRead, ReaderState
<1>2. ServingInv'
  BY DEF ServingInv, TypeOK, Crash, PublishStep, ClaimStep, Thread
<1>3. /\ pc' \in [Thread -> Locked \cup ReadStep \cup {"idle"}]
      /\ kernel' \in Thread \cup {Null} /\ registry' \in SUBSET Process
      /\ rd' \in [Reader -> ReaderState]
  BY <1>1 DEF Crash, TypeOK
<1>4. /\ req' \in [Writer -> Revision \cup Claim \cup {Null}]
      /\ chainSeen' \in [Writer -> Revision \cup {Null}]
      /\ report' \in [Writer -> Report \cup {Null}]
      /\ crashes' \in 0..MaxCrashes
  BY DEF Crash, TypeOK
<1> QED
  BY <1>2, <1>3, <1>4 DEF Crash, TypeOK, disk, ghosts

LEMMA TypeStep ==
    ASSUME TypeInv, [Next]_vars
    PROVE  TypeInv'
<1>1. CASE UNCHANGED vars
  BY <1>1 DEF TypeInv, TypeOK, ServingInv, vars, disk, locks, local, ghosts, bounds
<1>2. CASE Next
  BY <1>2, PublishType, ClaimType, ReleaseType, ReadType, CrashType DEF Next
<1> QED BY <1>1, <1>2

LEMMA InitType == Init => TypeInv
<1> SUFFICES ASSUME Init PROVE TypeInv
  OBVIOUS
<1>1. NoRead \in ReaderState
  BY DEF NoRead, ReaderState
<1>2. ServingInv
  BY DEF Init, ServingInv, Thread, PublishStep, ClaimStep
<1>3. metadata \in BOOLEAN
  BY Zenon DEF Init
<1> QED BY <1>1, <1>2, <1>3, ConstantsAssumption DEF Init, TypeInv, TypeOK

\* Every reachable state of every instance of the store has the shape TypeOK
\* gives it, and a thread inside the store serves a well-formed request.
THEOREM TypeCorrect == Spec => []TypeOK
<1>1. TypeInv => TypeOK
  BY DEF TypeInv
<1> QED BY <1>1, InitType, TypeStep, PTL DEF Spec

-----------------------------------------------------------------------------
(* What the walk of _read_chain collects.                                  *)

LEMMA LeastNat ==
    ASSUME NEW S \in SUBSET Nat, S # {}
    PROVE  \E x \in S : \A y \in S : x <= y
<1> DEFINE R == OpToRel(<, Nat)
<1>1. IsWellFoundedOn(R, Nat)
  BY NatLessThanWellFounded
<1>2. \A x, y \in Nat : <<y, x>> \in R <=> y < x
  BY DEF OpToRel
<1> HIDE DEF R
<1>3. \E x \in S : \A y \in S : ~(<<y, x>> \in R)
  BY <1>1, WFMin
<1>4. PICK x \in S : \A y \in S : ~(<<y, x>> \in R)
  BY <1>3
<1>5. ASSUME NEW y \in S PROVE x <= y
  <2>1. ~(y < x) BY <1>2, <1>4
  <2>2. x \in Nat /\ y \in Nat OBVIOUS
  <2> QED BY <2>1, <2>2
<1> QED BY <1>5

\* Every successful walk from a published revision meets exactly the revisions
\* that were published up to it.
LEMMA WalkIsHistory ==
    ASSUME TypeOK, HistInv, NEW n \in DOMAIN history, NEW c \in Walk(history[n])
    PROVE  \A k \in 1..n : c[k] = history[k]
<1>1. n \in Nat /\ n >= 1 /\ 1..n \subseteq DOMAIN history
  BY DEF TypeOK
<1>2. history[n].num = n
  BY DEF HistInv
<1>3. c[n] = history[n] /\ \A k \in 1..(n - 1) : Candidates(k, c[k + 1].base) = {c[k]}
  BY <1>2 DEF Walk
<1> DEFINE D == {d \in 0..(n - 1) : c[n - d] # history[n - d]}
<1>4. D = {}
  <2> SUFFICES ASSUME D # {} PROVE FALSE
    OBVIOUS
  <2>1. D \in SUBSET Nat
    BY <1>1
  <2> HIDE DEF D
  <2>2. PICK d \in D : \A y \in D : d <= y
    BY <2>1, LeastNat
  <2> USE DEF D
  <2>3. d \in 0..(n - 1) /\ c[n - d] # history[n - d]
    OBVIOUS
  <2>4. d # 0
    BY <1>1, <1>2, <1>3, <2>3
  <2> DEFINE k == n - d
  <2>5. k \in 1..(n - 1) /\ k + 1 \in 1..n
    BY <1>1, <2>3, <2>4
  <2>6. c[k + 1] = history[k + 1]
    <3>1. d - 1 \notin D
      <4> HIDE DEF D
      <4>1. d \in Int /\ ~(d <= d - 1)
        BY <1>1, <2>3
      <4> QED BY <2>2, <4>1
    <3>2. d - 1 \in 0..(n - 1) /\ n - (d - 1) = k + 1
      BY <1>1, <2>3, <2>4
    <3> QED BY <3>1, <3>2
  <2>7. history[k] \in Candidates(k, history[k + 1].base)
    <3>1. k \in DOMAIN history /\ k + 1 \in DOMAIN history /\ k + 1 # 1 /\ (k + 1) - 1 = k
      BY <1>1, <2>5
    <3> HIDE DEF k
    <3>2. history[k] \in revisions /\ history[k].num = k
      BY <3>1 DEF HistInv
    <3>3. history[k + 1].base = IdOf(history[k])
      BY <3>1 DEF HistInv
    <3> QED BY <3>2, <3>3 DEF Candidates
  <2>8. Candidates(k, history[k + 1].base) = {c[k]}
    BY <1>3, <2>5, <2>6
  <2> QED BY <2>3, <2>7, <2>8
<1>5. ASSUME NEW k \in 1..n PROVE c[k] = history[k]
  <2>1. n - k \in 0..(n - 1) /\ n - (n - k) = k
    BY <1>1
  <2> QED BY <1>4, <2>1
<1> QED BY <1>5

\* What was published up to a revision is a walk from it.
LEMMA HistoryIsWalk ==
    ASSUME TypeOK, HistInv, DirInv, NEW n \in DOMAIN history
    PROVE  [k \in 1..n |-> history[k]] \in Walk(history[n])
<1> DEFINE h == [k \in 1..n |-> history[k]]
<1>1. n \in Nat /\ n >= 1 /\ 1..n \subseteq DOMAIN history
  BY DEF TypeOK
<1>2. history[n].num = n
  BY DEF HistInv
<1>3. h \in [1..n -> revisions]
  BY <1>1 DEF HistInv
<1>4. h[n] = history[n] /\ h[1].base = Null
  BY <1>1 DEF HistInv
<1>5. ASSUME NEW k \in 1..(n - 1)
      PROVE  Candidates(k, h[k + 1].base) = {h[k]}
  <2>1. /\ k \in DOMAIN history /\ k + 1 \in DOMAIN history /\ k + 1 # 1 /\ (k + 1) - 1 = k
        /\ h[k] = history[k] /\ h[k + 1] = history[k + 1]
    BY <1>1
  <2>2. history[k] \in revisions /\ history[k].num = k
    BY <2>1 DEF HistInv
  <2>3. history[k + 1].base = IdOf(history[k])
    BY <2>1 DEF HistInv
  <2>4. \A r \in revisions : IdOf(r) = IdOf(history[k]) => r = history[k]
    BY <2>2 DEF DirInv, IdOf
  <2> QED BY <2>1, <2>2, <2>3, <2>4 DEF Candidates
<1> HIDE DEF h
<1>6. h \in Walk(history[n])
  BY <1>2, <1>3, <1>4, <1>5 DEF Walk
<1> QED BY <1>6 DEF h

\* A verified read from a published revision collects what was published up to it.
LEMMA ChainOfPublished ==
    ASSUME TypeOK, HistInv, DirInv, NEW n \in DOMAIN history
    PROVE  Chain(history[n]) = {history[k] : k \in 1..n}
<1>1. /\ n \in Nat /\ 1..n \subseteq DOMAIN history /\ history[n].num = n
      /\ history[n] # Null /\ \A k \in 1..n : history[k] \in revisions
  BY NullAssumption DEF HistInv, TypeOK
<1>2. \A e \in Chain(history[n]) : e \in {history[k] : k \in 1..n}
  BY <1>1, WalkIsHistory DEF Chain
<1>3. ASSUME NEW k \in 1..n PROVE history[k] \in Chain(history[n])
  <2> DEFINE h == [j \in 1..n |-> history[j]]
  <2>1. h \in Walk(history[n]) /\ h[k] = history[k]
    BY HistoryIsWalk
  <2> HIDE DEF h
  <2> QED BY <1>1, <2>1 DEF Chain
<1> QED BY <1>2, <1>3

\* A verified read yields what was published, in spite of every orphan.
LEMMA ReachableIsPublished ==
    ASSUME TypeOK, HistInv, DirInv
    PROVE  Reachable = Published
<1>1. CASE history = <<>>
  BY <1>1 DEF Reachable, Chain, HistInv, Published
<1>2. CASE history # <<>>
  <2>1. Len(history) \in DOMAIN history /\ DOMAIN history = 1..Len(history)
    BY <1>2 DEF TypeOK
  <2>2. current = history[Len(history)]
    BY <1>2 DEF HistInv
  <2> QED BY <2>1, <2>2, ChainOfPublished DEF Reachable, Published
<1> QED BY <1>1, <1>2

-----------------------------------------------------------------------------
(* Mutual exclusion.                                                       *)

LEMMA LockStep ==
    ASSUME TypeInv, LockInv, [Next]_vars
    PROVE  LockInv'
<1> USE ConstantsAssumption DEF LockInv
<1>t. /\ pc \in [Thread -> Locked \cup ReadStep \cup {"idle"}]
      /\ \A w \in Writer : w \in Thread /\ w # Null
      /\ \A r \in Reader : r \in Thread /\ r \notin Writer
      /\ "idle" \notin Locked
  BY DEF TypeInv, TypeOK, Thread, Locked, PublishStep, ClaimStep
<1>1. ASSUME NEW w \in Writer, PublishNext(w) \/ ClaimNext(w)
      PROVE  LockInv'
  <2>1. CASE \E q, l : Acquire(w, q, l)
    BY <1>t, <2>1 DEF Acquire, LockFree, Goto
  <2>2. CASE pc[w] \in Locked /\ kernel' = kernel /\ \E l : Goto(w, l)
    BY <1>t, <2>2 DEF Goto
  <2>3. PublishNext(w) => \/ \E q, l : Acquire(w, q, l)
                          \/ pc[w] \in Locked /\ kernel' = kernel /\ \E l : Goto(w, l)
    <3>1. BeginPublish(w) => \E q, l : Acquire(w, q, l)
      BY DEF BeginPublish
    <3>2. \/ Admit(w) \/ AdmitFails(w) \/ WriteMetadataTemp(w) \/ ReplaceMetadata(w)
          \/ RenameToRevision(w) \/ WritePointerTemp(w) \/ FinalCas(w) \/ ReplaceCurrent(w)
          \/ Reconcile(w) \/ ReconcileLineage(w) \/ SyncDirectory(w)
          => pc[w] \in Locked /\ kernel' = kernel /\ \E l : Goto(w, l)
      BY DEF Admit, AdmitFails, WriteMetadataTemp, ReplaceMetadata, RenameToRevision,
             WritePointerTemp, FinalCas, ReplaceCurrent, Reconcile, ReconcileLineage,
             SyncDirectory, Finish, locks, Locked, PublishStep
    <3>3. MakeStaging(w) \/ WriteTransaction(w) \/ WritePayloadAndManifest(w)
          => pc[w] \in Locked /\ kernel' = kernel /\ \E l : Goto(w, l)
      BY DEF MakeStaging, WriteTransaction, WritePayloadAndManifest, Stage, locks,
             Locked, PublishStep
    <3>4. StepFails(w) \/ MkdirFails(w) \/ MetadataReplaceFails(w) \/ RenameFails(w) \/ ReplaceFails(w)
          => pc[w] \in Locked /\ kernel' = kernel /\ \E l : Goto(w, l)
      BY DEF StepFails, MkdirFails, MetadataReplaceFails, RenameFails, ReplaceFails, Finish,
             locks, Locked, PublishStep
    <3> QED BY <3>1, <3>2, <3>3, <3>4 DEF PublishNext
  <2>4. ClaimNext(w) => \/ \E q, l : Acquire(w, q, l)
                        \/ pc[w] \in Locked /\ kernel' = kernel /\ \E l : Goto(w, l)
    BY DEF ClaimNext, BeginClaim, ClaimAdmit, WriteClaimTemp, ClaimRecheck, FinalizeClaim,
           VerifyClaim, ClaimFails, Finish, locks, Locked, ClaimStep
  <2> QED BY <1>1, <2>1, <2>2, <2>3, <2>4
<1>2. ASSUME NEW w \in Writer, Release(w) \/ ReleaseFails(w)
      PROVE  LockInv'
  <2>1. pc[w] = "release" /\ pc' = [pc EXCEPT ![w] = "idle"]
    BY <1>2 DEF Release, ReleaseFails, Return, Goto
  <2>2. "release" \in Locked
    BY DEF Locked
  <2>3. \A v \in Writer : pc'[v] \in Locked => v # w /\ pc[v] \in Locked
    BY <1>t, <2>1
  <2> QED BY <2>1, <2>2, <2>3
<1>3. ASSUME NEW r \in Reader, ReadNext(r)
      PROVE  LockInv'
  <2>1. kernel' = kernel /\ \E l : pc' = [pc EXCEPT ![r] = l]
    BY <1>3 DEF ReadNext, BeginRead, ReadList, ReadStat, ReadPointer, ReadWalk, ReadAgain,
                ReadReturn, ReadEnds, Goto, locks
  <2> QED BY <1>t, <2>1
<1>4. ASSUME NEW p \in Process, Crash(p)
      PROVE  LockInv'
  <2>1. ASSUME NEW v \in Writer, pc'[v] \in Locked
        PROVE  kernel' = v
    <3>1. ProcessOf[v] # p /\ pc[v] \in Locked
      BY <1>4, <1>t, <2>1 DEF Crash
    <3>2. kernel = v
      BY <3>1
    <3> QED BY <1>4, <3>1, <3>2 DEF Crash
  <2> QED BY <2>1
<1>5. CASE UNCHANGED vars
  BY <1>5 DEF vars, local, locks
<1> QED BY <1>1, <1>2, <1>3, <1>4, <1>5 DEF Next

-----------------------------------------------------------------------------
(* What the effects of the pipeline do to the shared state.                *)

DiskInv == DirInv /\ HistInv /\ ClaimInv /\ AckInv

LEMMA DiskUnchanged ==
    ASSUME DiskInv, UNCHANGED <<staging, revisions, current, history, claims, acked>>
    PROVE  DiskInv'
  BY DEF DiskInv, DirInv, HistInv, ClaimInv, AckInv, Fresh, Unpublished, StagingOf, Published

\* Making or replacing the staging directory of a transaction that has no
\* revision directory.
LEMMA StageSafe ==
    ASSUME TypeInv, DiskInv, NEW q \in Revision, NEW f \in StagingForm,
           \A r \in revisions : r.txn # q.txn,
           staging' = (staging \ StagingOf(q.txn)) \cup {[rev |-> q, form |-> f]},
           UNCHANGED <<revisions, current, history, claims, acked>>
    PROVE  DiskInv'
<1>1. DirInv'
  BY DEF DiskInv, DirInv
<1>2. HistInv' /\ AckInv'
  BY DEF DiskInv, HistInv, AckInv, Published
<1>3. ASSUME NEW t, ~Fresh(t) PROVE ~Fresh(t)'
  <2>1. CASE t = q.txn
    <3>1. [rev |-> q, form |-> f] \in staging' /\ [rev |-> q, form |-> f].rev.txn = t
      BY <2>1
    <3>2. [rev |-> q, form |-> f] \in {s \in staging' : s.rev.txn = t}
      BY <3>1
    <3> QED BY <3>2 DEF Fresh, StagingOf
  <2>2. CASE t # q.txn
    BY <1>3, <2>2 DEF Fresh, StagingOf
  <2> QED BY <2>1, <2>2
<1>4. ClaimInv'
  BY <1>3 DEF DiskInv, ClaimInv, Unpublished
<1> QED BY <1>1, <1>2, <1>4 DEF DiskInv

\* Renaming a staging directory to its revision directory.
LEMMA RenameSafe ==
    ASSUME TypeInv, DiskInv, NEW w \in Writer, req[w] \in Revision,
           \E s \in staging : s.rev = req[w],
           RenameEffect(w),
           UNCHANGED <<current, history, claims, acked>>
    PROVE  DiskInv'
<1>1. \A r \in revisions : r.txn # req[w].txn
  BY DEF DiskInv, DirInv
<1>2. DirInv'
  BY <1>1 DEF DiskInv, DirInv, RenameEffect, StagingOf
<1>3. HistInv' /\ AckInv'
  BY DEF DiskInv, HistInv, AckInv, Published, RenameEffect
<1>4. ASSUME NEW t, ~Fresh(t) PROVE ~Fresh(t)'
  <2>1. CASE t = req[w].txn
    BY <2>1 DEF Fresh, RenameEffect
  <2>2. CASE t # req[w].txn
    BY <1>4, <2>2 DEF Fresh, StagingOf, RenameEffect
  <2> QED BY <2>1, <2>2
<1>5. ClaimInv'
  BY <1>4 DEF DiskInv, ClaimInv, Unpublished
<1> QED BY <1>2, <1>3, <1>5 DEF DiskInv

\* Replacing current.json by a complete successor of what it points to.
LEMMA ReplaceSafe ==
    ASSUME TypeInv, DiskInv, NEW w \in Writer, req[w] \in revisions,
           CasMatches(req[w], current),
           \A c \in claims : c.target.txn # req[w].txn,
           ReplaceEffect(w),
           UNCHANGED <<staging, revisions, claims, acked>>
    PROVE  DiskInv'
<1> DEFINE n == Len(history)
<1>1. /\ n \in Nat /\ DOMAIN history = 1..n /\ history \in Seq(Revision)
      /\ req[w] \in Revision
  BY DEF TypeInv, TypeOK
<1>2. /\ history' \in Seq(Revision) /\ DOMAIN history' = 1..(n + 1) /\ Len(history') = n + 1
      /\ history'[n + 1] = req[w] /\ \A i \in 1..n : history'[i] = history[i]
  BY <1>1 DEF ReplaceEffect
<1>3. DirInv'
  BY DEF DiskInv, DirInv
<1>4. req[w].num = n + 1 /\ req[w].base = IF n + 1 = 1 THEN Null ELSE IdOf(history[n])
  <2>1. CASE history = <<>>
    BY <1>1, <2>1 DEF DiskInv, HistInv, CasMatches
  <2>2. CASE history # <<>>
    <3>1. n # 0 /\ current = history[n] /\ current.num = n
      BY <1>1, <2>2 DEF DiskInv, HistInv
    <3>2. current # Null
      BY <1>1, <3>1, NullAssumption
    <3> QED BY <1>1, <3>1, <3>2 DEF CasMatches
  <2> QED BY <2>1, <2>2
<1>5. HistInv'
  <2>1. current' = req[w] /\ history' # <<>>
    BY <1>1, <1>2 DEF ReplaceEffect
  <2>2. ASSUME NEW i \in 1..n
        PROVE  /\ history'[i] \in revisions
               /\ history'[i].num = i
               /\ history'[i].base = IF i = 1 THEN Null ELSE IdOf(history'[i - 1])
    <3>1. history'[i] = history[i] /\ (i # 1 => history'[i - 1] = history[i - 1])
      BY <1>1, <1>2
    <3> QED BY <1>1, <3>1 DEF DiskInv, HistInv
  <2>3. n + 1 # 1 => history'[n] = history[n] /\ (n + 1) - 1 = n
    BY <1>1, <1>2
  <2>4. ASSUME NEW i \in DOMAIN history'
        PROVE  /\ history'[i] \in revisions'
               /\ history'[i].num = i
               /\ history'[i].base = IF i = 1 THEN Null ELSE IdOf(history'[i - 1])
    <3>1. CASE i \in 1..n
      BY <2>2, <3>1
    <3>2. CASE i = n + 1
      BY <1>2, <1>4, <2>3, <3>2
    <3> QED BY <1>1, <1>2, <3>1, <3>2
  <2> QED BY <1>2, <2>1, <2>4 DEF HistInv
<1>6. AckInv'
  BY <1>1, <1>2 DEF DiskInv, AckInv, Published
<1>7. ClaimInv'
  <2>1. \A t : t # req[w].txn /\ Unpublished(t) => Unpublished(t)'
    BY <1>1, <1>2 DEF Unpublished
  <2>2. \A t : Fresh(t)' <=> Fresh(t)
    BY DEF Fresh, StagingOf
  <2> QED BY <2>1, <2>2 DEF DiskInv, ClaimInv
<1> QED BY <1>3, <1>5, <1>6, <1>7 DEF DiskInv

LEMMA FinalizeSafe ==
    ASSUME DiskInv, NEW w \in Writer, FinalizeEffect(w),
           ~Fresh(req[w].target.txn), Unpublished(req[w].target.txn),
           UNCHANGED <<staging, revisions, current, history, acked>>
    PROVE  DiskInv'
<1>1. \A t : (Fresh(t)' <=> Fresh(t)) /\ (Unpublished(t)' <=> Unpublished(t))
  BY DEF Fresh, StagingOf, Unpublished
<1>2. ClaimInv'
  BY <1>1 DEF DiskInv, ClaimInv, FinalizeEffect
<1> QED BY <1>2 DEF DiskInv, DirInv, HistInv, AckInv, Published

-----------------------------------------------------------------------------
(* What the holder of the lock knows.                                      *)

\* The writers that do not hold the lock have nothing to lose.
LEMMA PipeOthers ==
    ASSUME TypeInv, LockInv, NEW w \in Writer, kernel \in {Null, w},
           NEW l, Goto(w, l)
    PROVE  \A v \in Writer \ {w} : PipeInv(v)'
<1> SUFFICES ASSUME NEW v \in Writer, v # w PROVE PipeInv(v)'
  OBVIOUS
<1>1. pc'[v] = pc[v] /\ pc[v] \notin Locked
  BY ConstantsAssumption DEF TypeInv, TypeOK, Thread, Goto, LockInv
<1> QED BY <1>1 DEF PipeInv, Locked, PublishStep, ClaimStep

LEMMA PipeRefused ==
    ASSUME TypeInv, NEW w \in Writer, NEW r, Finish(w, r), r.kind \notin Committed
    PROVE  PipeInv(w)'
<1>1. pc'[w] = "release" /\ report'[w] = r
  BY DEF Finish, Goto, TypeInv, TypeOK, Thread
<1> QED BY <1>1 DEF PipeInv

Unmoved == UNCHANGED <<staging, revisions, current, history, claims>>

\* A move inside the pipeline that leaves the shared state alone and asks for
\* nothing the holder did not know.
LEMMA PipeMoves ==
    ASSUME TypeInv, NEW w \in Writer, PipeInv(w), Unmoved, req' = req, NEW l, Goto(w, l),
           \/ pc[w] \in {"meta", "metaReplace"} /\ l \in {"metaReplace", "mkdir"}
           \/ pc[w] \in {"pointer", "finalCas"} /\ l \in {"finalCas", "replace"}
           \/ pc[w] \in {"reconcile", "lineage"} /\ l \in {"lineage", "sync"}
           \/ pc[w] \in {"claimTemp", "claimRecheck"} /\ l \in {"claimRecheck", "claimFinalize"}
           \/ l \in {"admit", "claimAdmit", "claimVerify", "idle"}
    PROVE  PipeInv(w)'
<1>1. pc'[w] = l
  BY DEF Goto, TypeInv, TypeOK, Thread
<1>2. \A t : (Fresh(t)' <=> Fresh(t)) /\ (Unpublished(t)' <=> Unpublished(t))
  BY DEF Fresh, StagingOf, Unpublished, Unmoved
<1>3. CasMatches(req[w], current)' <=> CasMatches(req[w], current)
  BY DEF CasMatches, Unmoved
<1> QED BY <1>1, <1>2, <1>3 DEF PipeInv, Unmoved

\* The admission of publish.
LEMMA AdmitKnows ==
    ASSUME TypeInv, DiskInv, NEW q \in Revision, AdmitVerdict(q) = Null
    PROVE  /\ Fresh(q.txn) /\ CasMatches(q, current)
           /\ \A c \in claims : c.target.txn # q.txn
<1>1. Reachable = Published
  BY ReachableIsPublished DEF TypeInv, DiskInv
<1>2. /\ SameTxn(q) = {} /\ ~OrphanLeft(q.txn) /\ CasMatches(q, current)
  <2>1. \A c \in Code, f \in FsEffect, b \in BOOLEAN : Failure(c, f, "current_unchanged", b) # Null
    BY FailureType, NullAssumption DEF DomainEffect
  <2>2. \A k \in Kind, f \in FsEffect : Outcome(k, f, "current_unchanged") # Null
    BY OutcomeType, NullAssumption DEF DomainEffect
  <2>3. OrphanEffect(q.txn) \in FsEffect
    BY DEF OrphanEffect, FsEffect
  <2> QED BY <2>1, <2>2, <2>3, ZenonT(60) DEF AdmitVerdict, Code, FsEffect, Kind
<1>3. Fresh(q.txn)
  BY <1>2 DEF Fresh, OrphanLeft, UnreferencedOf, SameTxn
<1> QED BY <1>2, <1>3 DEF DiskInv, ClaimInv

LEMMA AdmitCommits ==
    ASSUME TypeInv, DiskInv, NEW q \in Revision, AdmitVerdict(q).kind \in Committed,
           AdmitVerdict(q) # Null
    PROVE  q \in Published
<1>1. Reachable = Published
  BY ReachableIsPublished DEF TypeInv, DiskInv
<1>2. \A c, f, d, b : Failure(c, f, d, b).kind \notin Committed
  BY DEF Failure, Committed
<1>3. \A f, d : Outcome("reconciliation_required", f, d).kind \notin Committed
  BY DEF Outcome, Committed
<1>4. q \in SameTxn(q)
  BY <1>2, <1>3 DEF AdmitVerdict
<1> QED BY <1>1, <1>4 DEF SameTxn

\* The admission of claim_orphan.
LEMMA ClaimKnows ==
    ASSUME TypeInv, DiskInv, NEW q \in Claim, ClaimVerdict(q) = Null
    PROVE  ~Fresh(q.target.txn) /\ Unpublished(q.target.txn)
<1>1. Reachable = Published
  BY ReachableIsPublished DEF TypeInv, DiskInv
<1>2. ClaimTargetListed(q)
  <2>1. \A c \in Code, f \in FsEffect, b \in BOOLEAN : Failure(c, f, "current_unchanged", b) # Null
    BY FailureType, NullAssumption DEF DomainEffect
  <2>2. Outcome("claimed", "none", "current_unchanged") # Null
    BY OutcomeType, NullAssumption DEF DomainEffect, FsEffect, Kind
  <2>3. \A c \in Code : ClaimFailure(q, c) # Null
    BY <2>1 DEF ClaimFailure, FsEffect
  <2> QED BY <2>1, <2>2, <2>3 DEF ClaimVerdict, Code, FsEffect
<1>3. CASE StagingOf(q.target.txn) # {}
  <2>1. \A r \in revisions : r.txn # q.target.txn
    BY <1>3 DEF StagingOf, DiskInv, DirInv
  <2> QED BY <1>3, <2>1 DEF Fresh, Unpublished, DiskInv, HistInv
<1>4. CASE UnreferencedOf(q.target.txn) # {}
  <2>1. PICK r \in revisions : r.txn = q.target.txn /\ r \notin Published
    BY <1>1, <1>4 DEF UnreferencedOf
  <2>2. \A i \in DOMAIN history : history[i].txn = r.txn => history[i] = r
    BY DEF DiskInv, HistInv, DirInv
  <2> QED BY <2>1, <2>2 DEF Fresh, Unpublished, Published
<1> QED BY <1>2, <1>3, <1>4 DEF ClaimTargetListed

-----------------------------------------------------------------------------
(* Every step keeps SafeInv.                                               *)

AllPipes == \A w \in Writer : PipeInv(w)

\* One writer moves: enough to look at the shared state and at its own knowledge.
LEMMA OneMoves ==
    ASSUME TypeInv, LockInv, NEW w \in Writer, kernel \in {Null, w}, NEW l, Goto(w, l),
           PipeInv(w)'
    PROVE  AllPipes'
<1>1. \A v \in Writer \ {w} : PipeInv(v)'
  BY PipeOthers
<1> QED BY <1>1 DEF AllPipes

LEMMA PublishSafe ==
    ASSUME TypeInv, LockInv, DiskInv, AllPipes, NEW w \in Writer, PublishNext(w)
    PROVE  DiskInv' /\ AllPipes'
<1>w. PipeInv(w) /\ w \in Thread
  BY DEF AllPipes, Thread
<1>l. pc[w] \in PublishStep => kernel = w
  BY DEF LockInv, Locked
<1>q. pc[w] \in PublishStep => req[w] \in Revision
  BY DEF TypeInv, ServingInv
<1>f. \A c, f, d, b : Failure(c, f, d, b).kind \notin Committed
  BY DEF Failure, Committed
<1>r. \A r : kernel = w /\ Finish(w, r) /\ r.kind \notin Committed => AllPipes'
  BY PipeRefused, OneMoves DEF Finish
<1>1. CASE BeginPublish(w)
  <2>1. PICK q : Acquire(w, q, "admit")
    BY <1>1 DEF BeginPublish
  <2>2. kernel = Null /\ Goto(w, "admit") /\ UNCHANGED <<disk, ghosts>>
    BY <2>1 DEF Acquire, LockFree
  <2>3. PipeInv(w)'
    <3>1. pc'[w] = "admit"
      BY <1>w, <2>2 DEF Goto, TypeInv, TypeOK
    <3> QED BY <3>1 DEF PipeInv
  <2> QED BY <2>2, <2>3, OneMoves, DiskUnchanged DEF disk, ghosts
<1>2. CASE Admit(w)
  <2>1. pc[w] \in PublishStep /\ UNCHANGED <<disk, ghosts>> /\ req' = req
    BY <1>2 DEF Admit, PublishStep
  <2> DEFINE v == AdmitVerdict(req[w])
  <2>2. CASE v = Null
    <3>1. Goto(w, "meta")
      BY <1>2, <2>2 DEF Admit
    <3>2. pc'[w] = "meta"
      BY <1>w, <3>1 DEF Goto, TypeInv, TypeOK
    <3>3. /\ Fresh(req[w].txn) /\ CasMatches(req[w], current)
          /\ \A c \in claims : c.target.txn # req[w].txn
      BY <1>q, <2>1, <2>2, AdmitKnows
    <3>4. PipeInv(w)'
      BY <2>1, <3>2, <3>3 DEF PipeInv, Fresh, StagingOf, CasMatches, disk
    <3> QED BY <1>l, <2>1, <3>1, <3>4, OneMoves, DiskUnchanged DEF disk, ghosts
  <2>3. CASE v # Null
    <3>1. Finish(w, v)
      BY <1>2, <2>3 DEF Admit
    <3>2. pc'[w] = "release" /\ report'[w] = v
      BY <1>w, <3>1 DEF Finish, Goto, TypeInv, TypeOK
    <3>3. v.kind \in Committed => req[w] \in Published
      BY <1>q, <2>1, <2>3, AdmitCommits
    <3>4. PipeInv(w)'
      BY <2>1, <3>2, <3>3 DEF PipeInv, Published, ghosts
    <3> QED BY <1>l, <2>1, <3>1, <3>4, OneMoves, DiskUnchanged DEF Finish, disk, ghosts
  <2> QED BY <2>2, <2>3
<1>3. CASE AdmitFails(w)
  <2>0. \A v \in AdmitFailures(req[w]) : v.kind \notin Committed
    BY <1>f DEF AdmitFailures
  <2>1. pc[w] \in PublishStep /\ UNCHANGED <<disk, ghosts>>
        /\ \E r : Finish(w, r) /\ r.kind \notin Committed
    BY <1>3, <2>0 DEF AdmitFails, PublishStep
  <2> QED BY <1>l, <1>r, <2>1, DiskUnchanged DEF disk, ghosts
<1>4. CASE WriteMetadataTemp(w) \/ ReplaceMetadata(w)
  <2>1. /\ pc[w] \in {"meta", "metaReplace"} /\ req' = req /\ Unmoved /\ UNCHANGED ghosts
        /\ \E l \in {"metaReplace", "mkdir"} : Goto(w, l)
    BY <1>4 DEF WriteMetadataTemp, ReplaceMetadata, Unmoved, ghosts
  <2> QED BY <1>w, <1>l, <2>1, PipeMoves, OneMoves, DiskUnchanged DEF Unmoved, ghosts, PublishStep
<1>5. CASE MakeStaging(w) \/ WriteTransaction(w) \/ WritePayloadAndManifest(w)
  <2>1. PICK l \in {"describe", "fill", "rename"}, f \in StagingForm :
          /\ pc[w] \in {"mkdir", "describe", "fill"} /\ Goto(w, l) /\ req' = req
          /\ staging' = (staging \ StagingOf(req[w].txn)) \cup {[rev |-> req[w], form |-> f]}
          /\ UNCHANGED <<revisions, current, history, claims, acked>>
    BY <1>5 DEF MakeStaging, WriteTransaction, WritePayloadAndManifest, Stage, StagingForm, ghosts
  <2>2. req[w] \in Revision
    BY <1>q, <2>1 DEF PublishStep
  <2>3. \A r \in revisions : r.txn # req[w].txn
    BY <1>w, <2>1 DEF PipeInv, Fresh, DiskInv, DirInv
  <2>4. DiskInv'
    BY <2>1, <2>2, <2>3, StageSafe
  <2>5. pc'[w] = l
    BY <1>w, <2>1 DEF Goto, TypeInv, TypeOK
  <2>6. \E s \in staging' : s.rev = req[w]
    <3>1. [rev |-> req[w], form |-> f] \in staging'
      BY <2>1
    <3> QED BY <3>1
  <2>7. CasMatches(req[w], current)' /\ \A c \in claims' : c.target.txn # req'[w].txn
    BY <1>w, <2>1 DEF PipeInv, CasMatches
  <2>8. PipeInv(w)'
    BY <2>1, <2>5, <2>6, <2>7 DEF PipeInv
  <2> QED BY <1>l, <2>1, <2>4, <2>8, OneMoves DEF PublishStep
<1>6. CASE RenameToRevision(w)
  <2>1. /\ pc[w] = "rename" /\ Goto(w, "pointer") /\ req' = req /\ RenameEffect(w)
        /\ UNCHANGED <<current, history, claims, acked>>
    BY <1>6 DEF RenameToRevision, ghosts
  <2>2. DiskInv'
    BY <1>w, <1>q, <2>1, RenameSafe DEF PipeInv, PublishStep
  <2>3. pc'[w] = "pointer"
    BY <1>w, <2>1 DEF Goto, TypeInv, TypeOK
  <2>4. PipeInv(w)'
    BY <1>w, <2>1, <2>3 DEF PipeInv, RenameEffect, CasMatches
  <2> QED BY <1>l, <2>1, <2>2, <2>4, OneMoves DEF PublishStep
<1>7. CASE WritePointerTemp(w)
  <2>1. /\ pc[w] = "pointer" /\ req' = req /\ Unmoved /\ UNCHANGED ghosts /\ Goto(w, "finalCas")
    BY <1>7 DEF WritePointerTemp, Unmoved, ghosts
  <2> QED BY <1>w, <1>l, <2>1, PipeMoves, OneMoves, DiskUnchanged DEF Unmoved, ghosts, PublishStep
<1>8. CASE FinalCas(w) \/ Reconcile(w) \/ ReconcileLineage(w)
  <2>1. /\ pc[w] \in {"finalCas", "reconcile", "lineage"} /\ req' = req /\ Unmoved
        /\ UNCHANGED ghosts
    BY <1>8 DEF FinalCas, Reconcile, ReconcileLineage, Unmoved, disk, ghosts
  <2>2. \/ \E r : Finish(w, r) /\ r.kind \notin Committed
        \/ pc[w] = "finalCas" /\ Goto(w, "replace")
        \/ pc[w] = "reconcile" /\ Goto(w, "lineage")
        \/ pc[w] = "lineage" /\ Goto(w, "sync")
    BY <1>8, <1>f DEF FinalCas, Reconcile, ReconcileLineage
  <2>3. AllPipes'
    BY <1>w, <1>l, <1>r, <2>1, <2>2, PipeMoves, OneMoves DEF PublishStep
  <2> QED BY <2>1, <2>3, DiskUnchanged DEF Unmoved, ghosts
<1>9. CASE ReplaceCurrent(w)
  <2>1. /\ pc[w] = "replace" /\ Goto(w, "reconcile") /\ req' = req /\ ReplaceEffect(w)
        /\ UNCHANGED <<staging, revisions, claims, acked>>
    BY <1>9 DEF ReplaceCurrent
  <2>2. DiskInv'
    BY <1>w, <2>1, ReplaceSafe DEF PipeInv
  <2>3. pc'[w] = "reconcile"
    BY <1>w, <2>1 DEF Goto, TypeInv, TypeOK
  <2>4. PipeInv(w)'
    BY <2>1, <2>3 DEF PipeInv, ReplaceEffect
  <2> QED BY <1>l, <2>1, <2>2, <2>4, OneMoves DEF PublishStep
<1>10. CASE SyncDirectory(w)
  <2>1. /\ pc[w] = "sync" /\ req' = req /\ Unmoved /\ UNCHANGED ghosts
        /\ \E r : Finish(w, r)
    BY <1>10 DEF SyncDirectory, Unmoved, disk, ghosts
  <2>2. req[w] \in Published
    <3>1. req[w] \in Revision /\ current = req[w]
      BY <1>w, <1>q, <2>1 DEF PipeInv, PublishStep
    <3>2. history # <<>> /\ current = history[Len(history)]
      BY <3>1, NullAssumption DEF DiskInv, HistInv
    <3>3. Len(history) \in DOMAIN history
      BY <3>2 DEF TypeInv, TypeOK
    <3> QED BY <3>1, <3>2, <3>3 DEF Published
  <2>3. pc'[w] = "release"
    BY <1>w, <2>1 DEF Finish, Goto, TypeInv, TypeOK
  <2>4. PipeInv(w)'
    BY <2>1, <2>2, <2>3 DEF PipeInv, Published, ghosts
  <2> QED BY <1>l, <2>1, <2>4, OneMoves, DiskUnchanged DEF Unmoved, ghosts, Finish, PublishStep
<1>11. CASE StepFails(w) \/ MkdirFails(w) \/ MetadataReplaceFails(w)
  <2>1. pc[w] \in PublishStep /\ Unmoved /\ UNCHANGED ghosts
    BY <1>11 DEF StepFails, MkdirFails, MetadataReplaceFails, Unmoved, disk, ghosts, PublishStep
  <2>2. \E r : Finish(w, r) /\ r.kind \notin Committed
    <3>1. pc[w] \in PublishStep \ {"admit", "mkdir"} => FaultReport(w).kind \notin Committed
      BY <1>f DEF FaultReport, PublishStep
    <3> QED BY <1>11, <1>f, <3>1 DEF StepFails, MkdirFails, MetadataReplaceFails
  <2> QED BY <1>l, <1>r, <2>1, <2>2, DiskUnchanged DEF Unmoved, ghosts
<1>12. CASE RenameFails(w)
  <2>1. /\ pc[w] = "rename" /\ \E r : Finish(w, r) /\ r.kind \notin Committed
        /\ UNCHANGED <<current, history, claims, acked>>
    BY <1>12, <1>f DEF RenameFails, ghosts
  <2>2. RenameEffect(w) \/ UNCHANGED <<staging, revisions>>
    BY <1>12 DEF RenameFails
  <2>3. DiskInv'
    BY <1>w, <1>q, <2>1, <2>2, RenameSafe, DiskUnchanged DEF PipeInv, PublishStep
  <2> QED BY <1>l, <1>r, <2>1, <2>3 DEF PublishStep
<1>13. CASE ReplaceFails(w)
  <2>1. /\ pc[w] = "replace" /\ \E r : Finish(w, r) /\ r.kind \notin Committed
        /\ UNCHANGED <<staging, revisions, claims, acked>>
    BY <1>13, <1>f DEF ReplaceFails
  <2>2. ReplaceEffect(w) \/ UNCHANGED <<current, ptrTemps, history>>
    BY <1>13 DEF ReplaceFails
  <2>3. DiskInv'
    BY <1>w, <2>1, <2>2, ReplaceSafe, DiskUnchanged DEF PipeInv
  <2> QED BY <1>l, <1>r, <2>1, <2>3 DEF PublishStep
<1> QED
  BY <1>1, <1>2, <1>3, <1>4, <1>5, <1>6, <1>7, <1>8, <1>9, <1>10, <1>11, <1>12, <1>13
  DEF PublishNext

LEMMA ClaimSafe ==
    ASSUME TypeInv, LockInv, DiskInv, AllPipes, NEW w \in Writer, ClaimNext(w)
    PROVE  DiskInv' /\ AllPipes'
<1>w. PipeInv(w) /\ w \in Thread
  BY DEF AllPipes, Thread
<1>l. pc[w] \in ClaimStep => kernel = w
  BY DEF LockInv, Locked
<1>q. pc[w] \in ClaimStep => req[w] \in Claim
  BY DEF TypeInv, ServingInv
<1>f. \A c, f, d, b : Failure(c, f, d, b).kind \notin Committed
  BY DEF Failure, Committed
<1>o. \A f, d : Outcome("claimed", f, d).kind \notin Committed
  BY DEF Outcome, Committed
<1>r. \A r : kernel = w /\ Finish(w, r) /\ r.kind \notin Committed => AllPipes'
  BY PipeRefused, OneMoves DEF Finish
<1>1. CASE BeginClaim(w)
  <2>1. PICK q : Acquire(w, q, "claimAdmit")
    BY <1>1 DEF BeginClaim
  <2>2. kernel = Null /\ Goto(w, "claimAdmit") /\ UNCHANGED <<disk, ghosts>>
    BY <2>1 DEF Acquire, LockFree
  <2>3. PipeInv(w)'
    <3>1. pc'[w] = "claimAdmit"
      BY <1>w, <2>2 DEF Goto, TypeInv, TypeOK
    <3> QED BY <3>1 DEF PipeInv
  <2> QED BY <2>2, <2>3, OneMoves, DiskUnchanged DEF disk, ghosts
<1>2. CASE ClaimAdmit(w)
  <2>1. pc[w] \in ClaimStep /\ UNCHANGED <<disk, ghosts>> /\ req' = req
    BY <1>2 DEF ClaimAdmit, ClaimStep
  <2> DEFINE v == ClaimVerdict(req[w])
  <2>2. CASE v = Null
    <3>1. PICK l \in {"claimTemp", "claimRecheck"} : Goto(w, l)
      BY <1>2, <2>2 DEF ClaimAdmit
    <3>2. pc'[w] = l
      BY <1>w, <3>1 DEF Goto, TypeInv, TypeOK
    <3>3. ~Fresh(req[w].target.txn) /\ Unpublished(req[w].target.txn)
      BY <1>q, <2>1, <2>2, ClaimKnows
    <3>4. PipeInv(w)'
      BY <2>1, <3>1, <3>2, <3>3 DEF PipeInv, Fresh, StagingOf, Unpublished, disk, ghosts
    <3> QED BY <1>l, <2>1, <3>1, <3>4, OneMoves, DiskUnchanged DEF disk, ghosts
  <2>3. CASE v # Null
    <3>1. Finish(w, v)
      BY <1>2, <2>3 DEF ClaimAdmit
    <3>2. v.kind \notin Committed
      BY <1>f, <1>o, <2>3 DEF ClaimVerdict, ClaimFailure
    <3> QED BY <1>l, <1>r, <2>1, <3>1, <3>2, DiskUnchanged DEF disk, ghosts
  <2> QED BY <2>2, <2>3
<1>3. CASE WriteClaimTemp(w)
  <2>1. /\ pc[w] = "claimTemp" /\ req' = req /\ Unmoved /\ UNCHANGED ghosts
        /\ Goto(w, "claimRecheck")
    BY <1>3 DEF WriteClaimTemp, Unmoved, ghosts
  <2> QED BY <1>w, <1>l, <2>1, PipeMoves, OneMoves, DiskUnchanged DEF Unmoved, ghosts, ClaimStep
<1>4. CASE ClaimRecheck(w) \/ VerifyClaim(w)
  <2>1. /\ pc[w] \in {"claimRecheck", "claimVerify"} /\ req' = req /\ Unmoved
        /\ UNCHANGED ghosts
    BY <1>4 DEF ClaimRecheck, VerifyClaim, Unmoved, disk, ghosts
  <2>2. \/ \E r : Finish(w, r) /\ r.kind \notin Committed
        \/ pc[w] = "claimRecheck" /\ Goto(w, "claimFinalize")
    BY <1>4, <1>f, <1>o DEF ClaimRecheck, VerifyClaim
  <2>3. AllPipes'
    BY <1>w, <1>l, <1>r, <2>1, <2>2, PipeMoves, OneMoves DEF ClaimStep
  <2> QED BY <2>1, <2>3, DiskUnchanged DEF Unmoved, ghosts
<1>5. CASE FinalizeClaim(w)
  <2>1. /\ pc[w] = "claimFinalize" /\ Goto(w, "claimVerify") /\ FinalizeEffect(w)
        /\ UNCHANGED <<staging, revisions, current, history, acked>>
    BY <1>5 DEF FinalizeClaim, ghosts
  <2>2. DiskInv'
    BY <1>w, <2>1, FinalizeSafe DEF PipeInv
  <2>3. PipeInv(w)'
    <3>1. pc'[w] = "claimVerify"
      BY <1>w, <2>1 DEF Goto, TypeInv, TypeOK
    <3> QED BY <3>1 DEF PipeInv
  <2> QED BY <1>l, <2>1, <2>2, <2>3, OneMoves DEF ClaimStep
<1>6. CASE ClaimFails(w)
  <2>0. \A v \in ClaimFailures(req[w]) : v.kind \notin Committed
    BY <1>f DEF ClaimFailures
  <2>1. /\ pc[w] \in ClaimStep /\ UNCHANGED <<staging, revisions, current, history, acked>>
        /\ \E r : Finish(w, r) /\ r.kind \notin Committed
    BY <1>6, <1>f, <2>0 DEF ClaimFails, ClaimStep, ghosts
  <2>2. UNCHANGED claims \/ (pc[w] = "claimFinalize" /\ FinalizeEffect(w))
    BY <1>6 DEF ClaimFails
  <2>3. DiskInv'
    BY <1>w, <2>1, <2>2, FinalizeSafe, DiskUnchanged DEF PipeInv
  <2> QED BY <1>l, <1>r, <2>1, <2>3
<1> QED BY <1>1, <1>2, <1>3, <1>4, <1>5, <1>6 DEF ClaimNext

LEMMA ReleaseSafe ==
    ASSUME TypeInv, LockInv, DiskInv, AllPipes, NEW w \in Writer, Release(w) \/ ReleaseFails(w)
    PROVE  DiskInv' /\ AllPipes'
<1>1. /\ pc[w] = "release" /\ Goto(w, "idle") /\ UNCHANGED disk /\ UNCHANGED history
      /\ acked' = acked \/ (report[w].kind \in Committed /\ acked' = acked \cup {req[w]})
  BY DEF Release, ReleaseFails, Return, ghosts
<1>2. kernel = w
  BY <1>1 DEF LockInv, Locked
<1>3. PipeInv(w)'
  <2>1. pc'[w] = "idle"
    BY <1>1 DEF Goto, TypeInv, TypeOK, Thread
  <2> QED BY <2>1 DEF PipeInv
<1>4. AckInv'
  BY <1>1 DEF AllPipes, PipeInv, DiskInv, AckInv, Published
<1>5. DirInv' /\ HistInv' /\ ClaimInv'
  BY <1>1 DEF DiskInv, DirInv, HistInv, ClaimInv, Fresh, Unpublished, StagingOf, disk
<1> QED BY <1>1, <1>2, <1>3, <1>4, <1>5, OneMoves DEF DiskInv

LEMMA ReadSafe ==
    ASSUME TypeInv, DiskInv, AllPipes, NEW r \in Reader, ReadNext(r)
    PROVE  DiskInv' /\ AllPipes'
<1>1. /\ UNCHANGED <<disk, req, report, ghosts>>
      /\ \E l : pc' = [pc EXCEPT ![r] = l]
  BY DEF ReadNext, BeginRead, ReadList, ReadStat, ReadPointer, ReadWalk, ReadAgain,
         ReadReturn, ReadEnds, Goto
<1>2. ASSUME NEW w \in Writer PROVE PipeInv(w)'
  <2>1. pc'[w] = pc[w]
    BY <1>1, ConstantsAssumption DEF TypeInv, TypeOK, Thread
  <2> QED BY <1>1, <2>1 DEF AllPipes, PipeInv, Fresh, StagingOf, Unpublished, Published,
                            CasMatches, disk, ghosts
<1> QED BY <1>1, <1>2, DiskUnchanged DEF AllPipes, disk, ghosts

LEMMA CrashSafe ==
    ASSUME TypeInv, DiskInv, AllPipes, NEW p \in Process, Crash(p)
    PROVE  DiskInv' /\ AllPipes'
<1>1. UNCHANGED <<disk, ghosts>>
  BY DEF Crash
<1>2. ASSUME NEW w \in Writer PROVE PipeInv(w)'
  <2>1. CASE ProcessOf[w] = p
    <3>1. pc'[w] = "idle"
      BY <2>1 DEF Crash, Thread
    <3> QED BY <3>1 DEF PipeInv
  <2>2. CASE ProcessOf[w] # p
    <3>1. pc'[w] = pc[w] /\ req'[w] = req[w] /\ report'[w] = report[w]
      BY <2>2 DEF Crash, Thread
    <3> QED BY <1>1, <3>1 DEF AllPipes, PipeInv, Fresh, StagingOf, Unpublished, Published,
                              CasMatches, disk, ghosts
  <2> QED BY <2>1, <2>2
<1> QED BY <1>1, <1>2, DiskUnchanged DEF AllPipes, disk, ghosts

LEMMA SafeStep ==
    ASSUME TypeInv, SafeInv, [Next]_vars
    PROVE  SafeInv'
<1>0. LockInv /\ DiskInv /\ AllPipes
  BY DEF SafeInv, DiskInv, AllPipes
<1>1. CASE UNCHANGED vars
  <2>1. UNCHANGED <<staging, revisions, current, history, claims, acked, pc, req, report>>
    BY <1>1 DEF vars, disk, local, ghosts
  <2>2. ASSUME NEW w \in Writer PROVE PipeInv(w)'
    BY <1>0, <2>1 DEF AllPipes, PipeInv, Fresh, StagingOf, Unpublished, Published, CasMatches
  <2> QED BY <1>0, <1>1, <2>1, <2>2, DiskUnchanged, LockStep DEF AllPipes, SafeInv, DiskInv
<1>2. CASE Next
  <2>1. DiskInv' /\ AllPipes'
    BY <1>0, <1>2, PublishSafe, ClaimSafe, ReleaseSafe, ReadSafe, CrashSafe DEF Next
  <2> QED BY <1>0, <2>1, LockStep DEF SafeInv, DiskInv, AllPipes
<1> QED BY <1>1, <1>2

-----------------------------------------------------------------------------
(* The theorems.                                                           *)

LEMMA InitSafe == Init => TypeInv /\ SafeInv
<1> SUFFICES ASSUME Init PROVE TypeInv /\ SafeInv
  OBVIOUS
<1>1. SafeInv
  BY DEF Init, SafeInv, LockInv, DirInv, HistInv, PipeInv, ClaimInv, AckInv, Published,
         Locked, PublishStep, ClaimStep, Thread
<1> QED BY <1>1, InitType

THEOREM Invariance == Spec => [](TypeInv /\ SafeInv)
  BY InitSafe, TypeStep, SafeStep, PTL DEF Spec

\* Whatever crashes and whatever fails, a verified read of current.json yields
\* exactly the revisions that were ever current, in order.
THEOREM ChainCorrect == Spec => []ChainIsHistory
<1>1. TypeInv /\ SafeInv => ChainIsHistory
  <2> SUFFICES ASSUME TypeInv, SafeInv PROVE ChainIsHistory
    OBVIOUS
  <2>1. Reachable = Published
    BY ReachableIsPublished DEF TypeInv, SafeInv
  <2>2. current # Null => Len(history) \in DOMAIN history /\ current = history[Len(history)]
    BY DEF SafeInv, HistInv, TypeInv, TypeOK
  <2>3. current # Null => LineageIntact(current)
    BY <2>2, HistoryIsWalk DEF TypeInv, SafeInv, LineageIntact
  <2> QED BY <2>1, <2>3 DEF ChainIsHistory, SafeInv, HistInv
<1> QED BY <1>1, Invariance, PTL

\* No retry of any writer, after any crash or fault, publishes a transaction
\* id twice.
THEOREM PublishedOnce == Spec => []TxnPublishedOnce
<1>1. TypeInv /\ SafeInv => TxnPublishedOnce
  BY DEF TxnPublishedOnce, SafeInv, HistInv, DirInv
<1> QED BY <1>1, Invariance, PTL

\* A transaction a caller was told is committed stays in the chain.
THEOREM AckDurable == Spec => []AckedStaysReachable
<1>1. TypeInv /\ SafeInv => AckedStaysReachable
  BY ReachableIsPublished DEF AckedStaysReachable, SafeInv, AckInv, TypeInv
<1> QED BY <1>1, Invariance, PTL

\* A transaction that was claimed as abandoned is never published.
THEOREM ClaimFinal == Spec => []ClaimedNeverReachable
<1>1. TypeInv /\ SafeInv => ClaimedNeverReachable
  <2> SUFFICES ASSUME TypeInv, SafeInv PROVE ClaimedNeverReachable
    OBVIOUS
  <2>1. Reachable = Published
    BY ReachableIsPublished DEF TypeInv, SafeInv
  <2> QED BY <2>1 DEF ClaimedNeverReachable, ReachableTxns, Published, SafeInv, ClaimInv, Unpublished
<1> QED BY <1>1, Invariance, PTL

\* No update is lost: current.json only ever moves to a complete revision that
\* was built on the revision it pointed to.
THEOREM NoLostUpdate == Spec => AdvanceByOne
<1> DEFINE Advance ==
      current' # current =>
        /\ current' \in revisions
        /\ current'.base = (IF current = Null THEN Null ELSE IdOf(current))
        /\ current'.num = (IF current = Null THEN 1 ELSE current.num + 1)
<1>1. TypeInv /\ SafeInv /\ [Next]_vars => [Advance]_vars
  <2> SUFFICES ASSUME TypeInv, SafeInv, Next, current' # current PROVE Advance
    BY DEF vars, disk
  <2>1. PICK w \in Writer : pc[w] = "replace" /\ ReplaceEffect(w)
    <3>1. ASSUME NEW w \in Writer, PublishNext(w)
          PROVE  pc[w] = "replace" /\ ReplaceEffect(w)
      BY <3>1 DEF PublishNext, BeginPublish, Acquire, Admit, AdmitFails, WriteMetadataTemp,
         ReplaceMetadata, MakeStaging, WriteTransaction, WritePayloadAndManifest, Stage,
         RenameToRevision, WritePointerTemp, FinalCas, ReplaceCurrent, Reconcile,
         ReconcileLineage, SyncDirectory, StepFails, MkdirFails, MetadataReplaceFails,
         RenameFails, ReplaceFails, disk
    <3>2. ASSUME NEW w \in Writer, ClaimNext(w) \/ Release(w) \/ ReleaseFails(w)
          PROVE  FALSE
      BY <3>2 DEF ClaimNext, BeginClaim, Acquire, ClaimAdmit, WriteClaimTemp, ClaimRecheck,
         FinalizeClaim, VerifyClaim, ClaimFails, Release, ReleaseFails, disk
    <3>3. ASSUME NEW r \in Reader, ReadNext(r) PROVE FALSE
      BY <3>3 DEF ReadNext, BeginRead, ReadList, ReadStat, ReadPointer, ReadWalk, ReadAgain,
         ReadReturn, disk
    <3>4. ASSUME NEW p \in Process, Crash(p) PROVE FALSE
      BY <3>4 DEF Crash, disk
    <3> QED BY <3>1, <3>2, <3>3, <3>4 DEF Next
  <2>2. current' = req[w] /\ req[w] \in revisions /\ CasMatches(req[w], current)
    BY <2>1 DEF SafeInv, PipeInv, ReplaceEffect
  <2> QED BY <2>2 DEF CasMatches
<1> QED BY <1>1, Invariance, PTL DEF Spec, AdvanceByOne

-----------------------------------------------------------------------------
(* The refinement of RevisionLog.                                          *)

\* The entries of the published revisions, in order.
HistoryLog == [i \in DOMAIN history |-> IdOf(history[i])]

LEMMA HistoryLogType ==
    ASSUME TypeOK
    PROVE  /\ HistoryLog \in Seq(Log!Entry) /\ Len(HistoryLog) = Len(history)
           /\ DOMAIN HistoryLog = DOMAIN history
           /\ \A i \in DOMAIN history : HistoryLog[i] = IdOf(history[i])
<1>1. Len(history) \in Nat /\ DOMAIN history = 1..Len(history)
  BY DEF TypeOK
<1>2. \A i \in DOMAIN history : history[i] \in Revision
  BY DEF TypeOK
<1>3. \A i \in DOMAIN history : IdOf(history[i]) \in Log!Entry
  BY <1>2 DEF Revision, IdOf, Log!Entry
<1> QED BY <1>1, <1>3 DEF HistoryLog

\* The log that a verified read yields is the one of the published revisions.
LEMMA LogIsHistory ==
    ASSUME TypeOK, HistInv, DirInv
    PROVE  PublishedLog = HistoryLog
<1>1. CASE history = <<>>
  <2>1. current = Null
    BY <1>1 DEF HistInv
  <2> QED BY <1>1, <2>1 DEF PublishedLog, HistoryLog
<1>2. CASE history # <<>>
  <2> DEFINE n == Len(history)
             c == CHOOSE c \in Walk(current) : TRUE
  <2>1. n \in DOMAIN history /\ DOMAIN history = 1..n
    BY <1>2 DEF TypeOK
  <2>2. current = history[n] /\ current.num = n /\ current # Null
    BY <2>1, NullAssumption, SMTT(60) DEF HistInv, TypeOK
  <2>3. c \in Walk(history[n])
    BY <2>1, <2>2, HistoryIsWalk
  <2> HIDE DEF c
  <2>4. \A i \in 1..n : c[i] = history[i]
    BY <2>1, <2>3, WalkIsHistory
  <2>5. PublishedLog = [i \in 1..n |-> IdOf(c[i])]
    BY <2>2 DEF PublishedLog, c
  <2> QED BY <2>1, <2>4, <2>5 DEF HistoryLog
<1> QED BY <1>1, <1>2

\* What a step does to the ghosts: it publishes, acknowledges or leaves them.
Publishes(w) == pc[w] = "replace" /\ ReplaceEffect(w) /\ acked' = acked
Acknowledges(w) ==
    /\ pc[w] = "release" /\ report[w].kind \in Committed
    /\ acked' = acked \cup {req[w]} /\ history' = history

LEMMA GhostsMove ==
    ASSUME [Next]_vars
    PROVE  \/ \E w \in Writer : Publishes(w) \/ Acknowledges(w)
           \/ UNCHANGED ghosts
<1>1. ASSUME NEW w \in Writer, PublishNext(w)
      PROVE  Publishes(w) \/ UNCHANGED ghosts
  BY <1>1 DEF PublishNext, BeginPublish, Acquire, Admit, AdmitFails, WriteMetadataTemp,
     ReplaceMetadata, MakeStaging, WriteTransaction, WritePayloadAndManifest, Stage,
     RenameToRevision, WritePointerTemp, FinalCas, ReplaceCurrent, Reconcile,
     ReconcileLineage, SyncDirectory, StepFails, MkdirFails, MetadataReplaceFails,
     RenameFails, ReplaceFails, ghosts, Publishes
<1>2. ASSUME NEW w \in Writer, ClaimNext(w) \/ ReleaseFails(w)
      PROVE  UNCHANGED ghosts
  BY <1>2 DEF ClaimNext, BeginClaim, Acquire, ClaimAdmit, WriteClaimTemp, ClaimRecheck,
     FinalizeClaim, VerifyClaim, ClaimFails, ReleaseFails
<1>3. ASSUME NEW w \in Writer, Release(w)
      PROVE  Acknowledges(w) \/ UNCHANGED ghosts
  BY <1>3 DEF Release, ghosts, Acknowledges
<1>4. ASSUME NEW r \in Reader, ReadNext(r) PROVE UNCHANGED ghosts
  BY <1>4 DEF ReadNext, BeginRead, ReadList, ReadStat, ReadPointer, ReadWalk, ReadAgain,
     ReadReturn
<1>5. ASSUME NEW p \in Process, Crash(p) PROVE UNCHANGED ghosts
  BY <1>5 DEF Crash
<1>6. CASE UNCHANGED vars
  BY <1>6 DEF vars
<1> QED BY <1>1, <1>2, <1>3, <1>4, <1>5, <1>6 DEF Next

\* A publication appends one entry with a transaction that is new to the log.
LEMMA PublishAppends ==
    ASSUME TypeInv, SafeInv, TypeInv', SafeInv', NEW w \in Writer, Publishes(w)
    PROVE  /\ req[w] \in Revision
           /\ HistoryLog' = Append(HistoryLog, IdOf(req[w]))
           /\ \A i \in DOMAIN HistoryLog : HistoryLog[i].txn # req[w].txn
<1> DEFINE q == req[w]  n == Len(history)
<1>1. q \in Revision /\ history' = Append(history, q)
  BY DEF Publishes, ReplaceEffect, TypeInv, ServingInv, PublishStep
<1>2. /\ history \in Seq(Revision) /\ history' \in Seq(Revision)
      /\ n \in Nat /\ DOMAIN history = 1..n /\ DOMAIN history' = 1..(n + 1)
      /\ Len(history') = n + 1 /\ history'[n + 1] = q
      /\ \A i \in 1..n : history'[i] = history[i]
  BY <1>1, SMTT(60) DEF TypeInv, TypeOK
<1>3. ASSUME NEW i \in 1..n PROVE history[i].txn # q.txn
  <2>1. /\ i \in DOMAIN history' /\ n + 1 \in DOMAIN history' /\ i # n + 1
        /\ history'[i] = history[i] /\ history'[n + 1] = q
    BY <1>2
  <2>2. history[i] \in revisions' /\ q \in revisions' /\ history[i].num # q.num
    BY <2>1 DEF SafeInv, HistInv
  <2> QED BY <2>2 DEF SafeInv, DirInv
<1>4. \A i \in DOMAIN HistoryLog : HistoryLog[i].txn # q.txn
  <2>1. \A i \in 1..n : HistoryLog[i] = IdOf(history[i]) /\ DOMAIN HistoryLog = 1..n
    BY <1>2, HistoryLogType DEF TypeInv
  <2> QED BY <1>3, <2>1, <1>2, HistoryLogType DEF IdOf, TypeInv
<1>5. HistoryLog' = Append(HistoryLog, IdOf(q))
  <2> DEFINE s == HistoryLog'  t == Append(HistoryLog, IdOf(q))
  <2>1. /\ HistoryLog \in Seq(Log!Entry) /\ Len(HistoryLog) = n
        /\ \A i \in 1..n : HistoryLog[i] = IdOf(history[i])
    BY <1>2, HistoryLogType DEF TypeInv
  <2>2. /\ s \in Seq(Log!Entry) /\ Len(s) = n + 1
        /\ \A i \in 1..(n + 1) : s[i] = IdOf(history'[i])
    <3>1. TypeOK' BY DEF TypeInv
    <3>2. /\ HistoryLog' \in Seq(Log!Entry) /\ Len(HistoryLog') = Len(history')
          /\ \A i \in DOMAIN history' : HistoryLog'[i] = IdOf(history'[i])
      <4>1. /\ Len(history') \in Nat /\ DOMAIN history' = 1..Len(history')
            /\ \A i \in DOMAIN history' : history'[i] \in Revision
        BY <1>2
      <4>2. \A i \in DOMAIN history' : IdOf(history'[i]) \in Log!Entry
        BY <4>1 DEF Revision, IdOf, Log!Entry
      <4> QED BY <4>1, <4>2 DEF HistoryLog
    <3> QED BY <1>2, <3>2
  <2>3. IdOf(q) \in Log!Entry
    BY <1>1 DEF Revision, IdOf, Log!Entry
  <2>4. /\ t \in Seq(Log!Entry) /\ Len(t) = n + 1
        /\ \A i \in 1..n : t[i] = HistoryLog[i] /\ t[n + 1] = IdOf(q)
    BY <2>1, <2>3, AppendProperties
  <2>5. \A i \in 1..(n + 1) : s[i] = t[i]
    <3>1. t[n + 1] = IdOf(q) /\ s[n + 1] = IdOf(q)
      <4>1. n + 1 \in 1..(n + 1) /\ t[n + 1] = IdOf(q)
        BY <1>2, <2>1, <2>3, AppendProperties
      <4> HIDE DEF s, t
      <4> QED BY <1>2, <2>2, <4>1
    <3>2. \A i \in 1..n : s[i] = t[i]
      <4> HIDE DEF s, t
      <4> QED BY <1>2, <2>1, <2>2, <2>4
    <3> HIDE DEF s, t
    <3> QED BY <1>2, <3>1, <3>2
  <2> HIDE DEF s, t
  <2>6. s = t
    BY <2>2, <2>4, <2>5, SeqEqual
  <2> QED BY <2>6 DEF s, t
<1> QED BY <1>1, <1>4, <1>5

\* In every state the verified read yields the log of the published revisions.
LogShown == PublishedLog = HistoryLog

LEMMA AlwaysShown == Spec => []LogShown
<1>1. TypeInv /\ SafeInv => LogShown
  BY LogIsHistory DEF TypeInv, SafeInv, LogShown
<1> QED BY <1>1, Invariance, PTL

\* Every step of the store is a step of the log, or invisible.
LEMMA LogStep ==
    ASSUME TypeInv, SafeInv, LogShown, TypeInv', SafeInv', LogShown', [Next]_vars
    PROVE  [Log!Publish \/ Log!Acknowledge]_<<PublishedLog, {IdOf(r) : r \in acked}>>
<1>1. PublishedLog = HistoryLog /\ PublishedLog' = HistoryLog'
  BY DEF LogShown
<1>2. CASE UNCHANGED ghosts
  BY <1>1, <1>2 DEF ghosts, HistoryLog
<1>3. ASSUME NEW w \in Writer, Publishes(w) PROVE Log!Publish
  <2> DEFINE e == IdOf(req[w])
  <2>1. /\ req[w] \in Revision /\ HistoryLog' = Append(HistoryLog, e)
        /\ \A i \in DOMAIN HistoryLog : HistoryLog[i].txn # req[w].txn
    BY <1>3, PublishAppends
  <2>2. e \in Log!Entry /\ e.txn = req[w].txn
    BY <2>1 DEF Revision, IdOf, Log!Entry
  <2> HIDE DEF e
  <2>3. HistoryLog \in Seq(Log!Entry)
    BY HistoryLogType DEF TypeInv
  <2>4. /\ Len(HistoryLog') = Len(HistoryLog) + 1
        /\ HistoryLog'[Len(HistoryLog')] = e
    BY <2>1, <2>2, <2>3, AppendProperties
  <2>5. {IdOf(r) : r \in acked}' = {IdOf(r) : r \in acked}
    BY <1>3 DEF Publishes
  <2> QED BY <1>1, <2>1, <2>2, <2>4, <2>5 DEF Log!Publish
<1>4. ASSUME NEW w \in Writer, Acknowledges(w) PROVE Log!Acknowledge
  <2>1. req[w] \in Published
    BY <1>4 DEF Acknowledges, SafeInv, PipeInv
  <2>2. PICK i \in DOMAIN history : req[w] = history[i]
    BY <2>1 DEF Published
  <2>3. i \in DOMAIN HistoryLog /\ HistoryLog[i] = IdOf(req[w])
    BY <2>2, HistoryLogType DEF TypeInv
  <2>4. {IdOf(r) : r \in acked}' = {IdOf(r) : r \in acked} \cup {HistoryLog[i]}
    BY <1>4, <2>3 DEF Acknowledges
  <2>5. HistoryLog' = HistoryLog
    BY <1>4 DEF Acknowledges, HistoryLog
  <2> QED BY <1>1, <2>3, <2>4, <2>5 DEF Log!Acknowledge
<1> QED BY <1>2, <1>3, <1>4, GhostsMove

\* Crashes, faults, orphans and claims are invisible through a verified read:
\* the store implements an append-only log in which a transaction occurs once
\* and only what is in the log is acknowledged.
THEOREM StoreIsALog == Spec => ImplementsLog
<1>1. Init => Log!Init
  BY DEF Init, Log!Init, PublishedLog
<1> QED BY <1>1, LogStep, AlwaysShown, Invariance, PTL DEF Spec, ImplementsLog, Log!Spec

-----------------------------------------------------------------------------
(* read_current.                                                           *)

\* Once a reader holds a pointer, or has returned one, the pointer was current
\* when its call had already begun.
ReadInv ==
    \A r \in Reader :
      /\ rd[r].start <= Len(history)
      /\ pc[r] \in {"readWalk", "readAgain"} \/ rd[r].result = "ok" =>
           \E i \in DOMAIN history : i >= rd[r].start /\ history[i] = rd[r].ptr

\* The history only grows.
LEMMA HistoryGrows ==
    ASSUME TypeInv, TypeInv', [Next]_vars
    PROVE  /\ Len(history) \in Nat /\ Len(history') \in Nat /\ Len(history) <= Len(history')
           /\ \A i \in DOMAIN history : i \in DOMAIN history' /\ history'[i] = history[i]
<1>1. \/ history' = history
      \/ \E w \in Writer : req[w] \in Revision /\ history' = Append(history, req[w])
  BY GhostsMove DEF Publishes, Acknowledges, ReplaceEffect, ghosts, TypeInv, ServingInv, PublishStep
<1>2. CASE history' = history
  BY <1>2 DEF TypeInv, TypeOK
<1>3. ASSUME NEW w \in Writer, req[w] \in Revision, history' = Append(history, req[w])
      PROVE  /\ Len(history) \in Nat /\ Len(history') \in Nat
             /\ Len(history) <= Len(history')
             /\ \A i \in DOMAIN history : i \in DOMAIN history' /\ history'[i] = history[i]
  <2>1. history \in Seq(Revision)
    BY DEF TypeInv, TypeOK
  <2> QED BY <1>3, <2>1, AppendProperties
<1> QED BY <1>1, <1>2, <1>3

LEMMA ReadStepSafe ==
    ASSUME TypeInv, SafeInv, TypeInv', ReadInv, [Next]_vars
    PROVE  ReadInv'
<1> SUFFICES ASSUME NEW r \in Reader
             PROVE  /\ rd'[r].start <= Len(history')
                    /\ pc'[r] \in {"readWalk", "readAgain"} \/ rd'[r].result = "ok" =>
                         \E i \in DOMAIN history' : i >= rd'[r].start /\ history'[i] = rd'[r].ptr
  BY DEF ReadInv
<1>g. /\ Len(history) \in Nat /\ Len(history') \in Nat /\ Len(history) <= Len(history')
      /\ \A i \in DOMAIN history : i \in DOMAIN history' /\ history'[i] = history[i]
  BY HistoryGrows
<1>t. /\ rd \in [Reader -> ReaderState] /\ r \in Thread /\ rd[r].start \in Nat
      /\ rd'[r].start \in Nat /\ pc \in [Thread -> Locked \cup ReadStep \cup {"idle"}]
  BY DEF TypeInv, TypeOK, Thread, ReaderState
<1>i. /\ rd[r].start <= Len(history)
      /\ pc[r] \in {"readWalk", "readAgain"} \/ rd[r].result = "ok" =>
           \E i \in DOMAIN history : i >= rd[r].start /\ history[i] = rd[r].ptr
  BY DEF ReadInv
\* The reader keeps its pointer, or takes none.
<1>1. CASE /\ rd'[r].start = rd[r].start /\ rd'[r].ptr = rd[r].ptr
           /\ pc'[r] \in {"readWalk", "readAgain"} \/ rd'[r].result = "ok" =>
                pc[r] \in {"readWalk", "readAgain"} \/ rd[r].result = "ok"
  <2>1. rd'[r].start <= Len(history')
    BY <1>g, <1>t, <1>i, <1>1
  <2>2. ASSUME pc'[r] \in {"readWalk", "readAgain"} \/ rd'[r].result = "ok"
        PROVE  \E i \in DOMAIN history' : i >= rd'[r].start /\ history'[i] = rd'[r].ptr
    <3>1. PICK i \in DOMAIN history : i >= rd[r].start /\ history[i] = rd[r].ptr
      BY <1>i, <1>1, <2>2
    <3> QED BY <1>g, <1>1, <3>1
  <2> QED BY <2>1, <2>2
<1>2. CASE rd'[r] = NoRead /\ pc'[r] = "idle"
  BY <1>g, <1>2 DEF NoRead
<1>3. ASSUME NEW s \in Reader, ReadNext(s), s # r
      PROVE  rd'[r] = rd[r] /\ pc'[r] = pc[r]
  BY <1>3, <1>t DEF ReadNext, BeginRead, ReadList, ReadStat, ReadPointer, ReadWalk, ReadAgain,
     ReadReturn, ReadEnds, Goto
<1>4. CASE ReadNext(r)
  <2>1. CASE BeginRead(r)
    <3>1. rd'[r] = [NoRead EXCEPT !.attempt = 1, !.start = Len(history)] /\ pc'[r] = "readList"
      BY <1>t, <2>1 DEF BeginRead, Goto
    <3>2. rd'[r].start = Len(history) /\ rd'[r].result = "none"
      BY <3>1 DEF NoRead
    <3> QED BY <1>g, <3>1, <3>2
  <2>2. CASE ReadList(r)
    BY <1>1, <1>t, <2>2 DEF ReadList, Goto, ReaderState
  <2>3. CASE ReadStat(r)
    BY <1>1, <1>t, <2>3 DEF ReadStat, ReadEnds, Goto, ReaderState
  <2>4. CASE ReadPointer(r)
    <3>1. CASE current = Null
      BY <1>1, <1>t, <2>4, <3>1 DEF ReadPointer, ReadEnds, Goto, ReaderState
    <3>2. CASE current # Null
      <4>1. Len(history) \in DOMAIN history /\ current = history[Len(history)]
        BY <3>2 DEF SafeInv, HistInv, TypeInv, TypeOK
      <4>2. rd'[r].start = rd[r].start /\ rd'[r].ptr = current
        BY <1>t, <2>4, <3>2 DEF ReadPointer, ReaderState
      <4>3. Len(history) \in DOMAIN history' /\ history'[Len(history)] = current
        BY <1>g, <4>1
      <4> QED BY <1>g, <1>t, <1>i, <4>2, <4>3
    <3> QED BY <3>1, <3>2
  <2>5. CASE ReadWalk(r)
    BY <1>1, <1>t, <2>5 DEF ReadWalk, ReadEnds, Goto, ReaderState
  <2>6. CASE ReadAgain(r)
    BY <1>1, <1>t, <2>6 DEF ReadAgain, ReadEnds, Goto, ReaderState
  <2>7. CASE ReadReturn(r)
    BY <1>2, <1>t, <2>7 DEF ReadReturn, Goto
  <2> QED BY <1>4, <2>1, <2>2, <2>3, <2>4, <2>5, <2>6, <2>7 DEF ReadNext
<1>5. ASSUME NEW w \in Writer, PublishNext(w) \/ ClaimNext(w) \/ Release(w) \/ ReleaseFails(w)
      PROVE  rd' = rd /\ pc'[r] = pc[r]
  <2>1. w # r
    BY ConstantsAssumption
  <2>2. rd' = rd /\ \E l : Goto(w, l)
    BY <1>5 DEF PublishNext, BeginPublish, Acquire, Admit, AdmitFails, WriteMetadataTemp,
     ReplaceMetadata, MakeStaging, WriteTransaction, WritePayloadAndManifest, Stage,
     RenameToRevision, WritePointerTemp, FinalCas, ReplaceCurrent, Reconcile,
     ReconcileLineage, SyncDirectory, StepFails, MkdirFails, MetadataReplaceFails,
     RenameFails, ReplaceFails, ClaimNext, BeginClaim, ClaimAdmit, WriteClaimTemp, ClaimRecheck,
     FinalizeClaim, VerifyClaim, ClaimFails, Release, ReleaseFails, Return, Finish
  <2> QED BY <1>t, <2>1, <2>2 DEF Goto
<1>6. ASSUME NEW p \in Process, Crash(p)
      PROVE  \/ rd'[r] = NoRead /\ pc'[r] = "idle"
             \/ rd'[r] = rd[r] /\ pc'[r] = pc[r]
  BY <1>6, <1>t DEF Crash
<1>7. CASE UNCHANGED vars
  BY <1>1, <1>7 DEF vars, local
<1> QED BY <1>1, <1>2, <1>3, <1>4, <1>5, <1>6, <1>7 DEF Next

LEMMA ReadInvariance == Spec => []ReadInv
<1>1. Init => ReadInv
  BY DEF Init, ReadInv, NoRead, Thread
<1> QED BY <1>1, ReadStepSafe, Invariance, PTL DEF Spec

\* A read that succeeds returns a pointer that was current between its call and
\* its return, with everything that had been published up to it, although it
\* takes no lock.
THEOREM ReadsAreCurrent == Spec => []ReadIsCurrent
<1>1. TypeInv /\ SafeInv /\ ReadInv => ReadIsCurrent
  <2> SUFFICES ASSUME TypeInv, SafeInv, ReadInv, NEW r \in Reader, rd[r].result = "ok"
               PROVE  \E i \in DOMAIN history :
                        /\ i >= rd[r].start
                        /\ history[i] = rd[r].ptr
                        /\ Chain(rd[r].ptr) = {history[j] : j \in 1..i}
    BY DEF ReadIsCurrent
  <2>1. PICK i \in DOMAIN history : i >= rd[r].start /\ history[i] = rd[r].ptr
    BY DEF ReadInv
  <2>2. Chain(history[i]) = {history[j] : j \in 1..i}
    BY ChainOfPublished DEF TypeInv, SafeInv
  <2> QED BY <2>1, <2>2
<1> QED BY <1>1, Invariance, ReadInvariance, PTL

-----------------------------------------------------------------------------
(* publish.                                                                *)

Writing == {"meta", "metaReplace", "mkdir", "describe", "fill", "rename",
            "pointer", "finalCas", "replace"}

\* A revision directory of the transaction that was never current.
StrayOf(t) == {x \in revisions : x.txn = t /\ x \notin Published}

\* What a report says, in terms of what was published.
Told(w, q, r) ==
    /\ r.domain = "current_unchanged" => current = chainSeen[w]
    /\ r.domain = "current_advanced" => current = q
    /\ r.domain = "current_may_have_advanced" => current \in {q, chainSeen[w]}
    /\ r.fs = "staging_orphan" => StagingOf(q.txn) # {}
    /\ r.fs = "unreferenced_revision" => StrayOf(q.txn) # {}
    /\ r.kind \in Committed => q \in Published
    /\ (r.kind = "failure" /\ ~r.recon /\ ~NamesRefused(r)) =>
         StagingOf(q.txn) = {} /\ StrayOf(q.txn) = {}

\* Until it replaces the pointer the writer sees the pointer it started from,
\* and its own revision is not published.
ToldInv(w) ==
    /\ pc[w] \in Writing => chainSeen[w] = current
    /\ pc[w] \in {"pointer", "finalCas", "replace"} => req[w] \notin Published
    /\ pc[w] = "release" /\ req[w] \in Revision => Told(w, req[w], report[w])

AllTold == \A w \in Writer : ToldInv(w)

\* Nobody else's step changes what a writer relies on.
LEMMA ToldKept ==
    ASSUME NEW w \in Writer, ToldInv(w),
           UNCHANGED <<staging, revisions, current, history>>,
           pc'[w] = pc[w], req'[w] = req[w], chainSeen'[w] = chainSeen[w],
           report'[w] = report[w]
    PROVE  ToldInv(w)'
  BY DEF ToldInv, Told, StrayOf, StagingOf, Published

\* A writer outside the store relies on nothing.
LEMMA ToldIdle ==
    ASSUME NEW w \in Writer, pc'[w] \notin Writing \cup {"release"}
    PROVE  ToldInv(w)'
  BY DEF ToldInv, Writing

\* A move inside the pipeline before the pointer is replaced.
LEMMA ToldMoves ==
    ASSUME NEW w \in Writer, ToldInv(w), pc[w] \in Writing, pc'[w] \in Writing,
           UNCHANGED <<current, history, req, chainSeen>>,
           pc'[w] \in {"pointer", "finalCas", "replace"} =>
             pc[w] \in {"pointer", "finalCas", "replace"} \/ req[w] \notin Published
    PROVE  ToldInv(w)'
  BY DEF ToldInv, Writing, Published

\* The writer ends with a report that is true.
LEMMA ToldEnds ==
    ASSUME TypeInv, NEW w \in Writer, NEW r, Finish(w, r), req[w] \in Revision, req' = req,
           Told(w, req[w], r)'
    PROVE  ToldInv(w)'
<1>1. pc'[w] = "release" /\ report'[w] = r
  BY DEF Finish, Goto, TypeInv, TypeOK, Thread
<1> QED BY <1>1 DEF ToldInv, Writing, Told

\* What is left of a transaction, in terms of what was published.
LEMMA OrphanTells ==
    ASSUME TypeInv, DiskInv, NEW q \in Revision
    PROVE  /\ OrphanEffect(q.txn) \in {"none", "staging_orphan", "unreferenced_revision"}
           /\ OrphanEffect(q.txn) = "staging_orphan" => StagingOf(q.txn) # {}
           /\ OrphanEffect(q.txn) = "unreferenced_revision" => StrayOf(q.txn) # {}
           /\ OrphanEffect(q.txn) = "none" => StagingOf(q.txn) = {} /\ StrayOf(q.txn) = {}
           /\ ~OrphanLeft(q.txn) => StagingOf(q.txn) = {} /\ StrayOf(q.txn) = {}
<1>1. UnreferencedOf(q.txn) = StrayOf(q.txn)
  BY ReachableIsPublished DEF TypeInv, DiskInv, UnreferencedOf, StrayOf
<1> QED BY <1>1 DEF OrphanEffect, OrphanLeft

\* What the admission says of what it finds on disk.
LEMMA AdmitTells ==
    ASSUME TypeInv, DiskInv, NEW q \in Revision, NEW v, v = AdmitVerdict(q), v # Null
    PROVE  /\ v.domain = "current_unchanged"
           /\ v.fs = "staging_orphan" => StagingOf(q.txn) # {}
           /\ v.fs = "unreferenced_revision" => StrayOf(q.txn) # {}
           /\ v.kind \in Committed => q \in Published
           /\ (v.kind = "failure" /\ ~v.recon) => StagingOf(q.txn) = {} /\ StrayOf(q.txn) = {}
<1>1. v.kind \in Committed => q \in Published
  BY AdmitCommits
<1>2. ASSUME SameTxn(q) # {}
      PROVE  StagingOf(q.txn) = {} /\ StrayOf(q.txn) = {}
  <2>1. PICK r \in Published : r.txn = q.txn
    BY <1>2, ReachableIsPublished DEF TypeInv, DiskInv, SameTxn
  <2>2. r \in revisions
    BY <2>1 DEF Published, DiskInv, HistInv
  <2> QED BY <2>1, <2>2 DEF DiskInv, DirInv, StagingOf, StrayOf
<1>3. /\ v.domain = "current_unchanged"
      /\ \/ v.fs = "none" /\ (v.kind = "failure" /\ ~v.recon => SameTxn(q) # {} \/ ~OrphanLeft(q.txn))
         \/ v.fs = OrphanEffect(q.txn)
            /\ (v.kind = "failure" /\ ~v.recon => OrphanEffect(q.txn) = "none")
  BY DEF AdmitVerdict, Failure, Outcome
<1> QED BY <1>1, <1>2, <1>3, OrphanTells

LEMMA AdmitFailTells ==
    ASSUME TypeInv, DiskInv, NEW q \in Revision, NEW v,
           v \in AdmitFailures(q)
    PROVE  /\ v.domain = "current_unchanged" /\ v.kind = "failure"
           /\ v.fs = "staging_orphan" => StagingOf(q.txn) # {}
           /\ v.fs = "unreferenced_revision" => StrayOf(q.txn) # {}
           /\ ~v.recon /\ ~NamesRefused(v) => StagingOf(q.txn) = {} /\ StrayOf(q.txn) = {}
<1>1. CASE v = Failure("run_namespace_conflict", "none", "current_unchanged", FALSE)
  BY <1>1 DEF Failure, NamesRefused
<1>2. CASE v = Failure("run_corrupt", "none", "current_unchanged", TRUE)
  BY <1>2 DEF Failure
<1>3. ASSUME NEW c, v = Failure(c, OrphanEffect(q.txn), "current_unchanged",
                                OrphanLeft(q.txn))
      PROVE  /\ v.domain = "current_unchanged" /\ v.kind = "failure"
             /\ v.fs = "staging_orphan" => StagingOf(q.txn) # {}
             /\ v.fs = "unreferenced_revision" => StrayOf(q.txn) # {}
             /\ ~v.recon => StagingOf(q.txn) = {} /\ StrayOf(q.txn) = {}
  <2>1. /\ v.domain = "current_unchanged" /\ v.kind = "failure"
        /\ v.fs = OrphanEffect(q.txn) /\ v.recon = OrphanLeft(q.txn)
    BY <1>3 DEF Failure
  <2> QED BY <2>1, OrphanTells
<1> QED BY <1>1, <1>2, <1>3 DEF AdmitFailures

\* What a failing step of the pipeline says.
LEMMA FaultTells ==
    ASSUME TypeInv, SafeInv, NEW w \in Writer, ToldInv(w), NEW r, r = FaultReport(w),
           pc[w] \in PublishStep \ {"admit", "mkdir"}
    PROVE  Told(w, req[w], r)
<1> USE DEF Failure, FaultReport, Told, Committed
<1>p. PipeInv(w)
  BY DEF SafeInv
<1>1. CASE pc[w] \in {"meta", "metaReplace"}
  <2>1. Fresh(req[w].txn) /\ current = chainSeen[w]
    BY <1>p, <1>1 DEF PipeInv, ToldInv, Writing
  <2> QED BY <1>1, <2>1 DEF Fresh, StrayOf
<1>2. CASE pc[w] \in {"describe", "fill", "rename"}
  <2>1. /\ current = chainSeen[w] /\ \E s \in staging : s.rev = req[w]
    BY <1>p, <1>2 DEF PipeInv, ToldInv, Writing
  <2> QED BY <1>2, <2>1 DEF StagingOf
<1>3. CASE pc[w] \in {"pointer", "finalCas", "replace"}
  <2>1. /\ current = chainSeen[w] /\ req[w] \in revisions /\ req[w] \notin Published
    BY <1>p, <1>3 DEF PipeInv, ToldInv, Writing
  <2> QED BY <1>3, <2>1 DEF StrayOf
<1>4. CASE pc[w] \in {"reconcile", "lineage", "sync"}
  <2>1. current = req[w]
    BY <1>p, <1>4 DEF PipeInv
  <2> QED BY <1>4, <2>1
<1> QED BY <1>1, <1>2, <1>3, <1>4 DEF PublishStep

\* One writer moves: the others are outside the store.
LEMMA OneTold ==
    ASSUME TypeInv, LockInv, NEW w \in Writer, kernel \in {Null, w}, NEW l, Goto(w, l),
           ToldInv(w)'
    PROVE  AllTold'
<1>1. ASSUME NEW v \in Writer \ {w} PROVE ToldInv(v)'
  <2>1. pc'[v] = pc[v] /\ pc[v] \notin Locked
    BY NullAssumption, ConstantsAssumption DEF LockInv, Goto, TypeInv, TypeOK, Thread
  <2>2. pc'[v] \notin Writing \cup {"release"}
    BY <2>1 DEF Locked, PublishStep, Writing
  <2> QED BY <2>2, ToldIdle
<1> QED BY <1>1 DEF AllTold

LEMMA PublishTold ==
    ASSUME TypeInv, SafeInv, AllTold, SafeInv', NEW w \in Writer, PublishNext(w)
    PROVE  AllTold'
<1>w. ToldInv(w) /\ PipeInv(w) /\ w \in Thread /\ LockInv /\ DiskInv
  BY DEF AllTold, SafeInv, DiskInv, Thread
<1>l. pc[w] \in PublishStep => kernel = w
  BY DEF SafeInv, LockInv, Locked
<1>q. pc[w] \in PublishStep => req[w] \in Revision
  BY DEF TypeInv, ServingInv
<1>g. \A l : Goto(w, l) => pc'[w] = l
  BY <1>w DEF Goto, TypeInv, TypeOK
<1>c. chainSeen \in [Writer -> Revision \cup {Null}]
  BY DEF TypeInv, TypeOK
\* Ending with a true report is enough.
<1>e. ASSUME NEW r, Finish(w, r), pc[w] \in PublishStep, req' = req, Told(w, req[w], r)'
      PROVE  AllTold'
  <2>1. ToldInv(w)'
    BY <1>e, <1>q, ToldEnds
  <2> QED BY <1>e, <1>l, <1>w, <2>1, OneTold DEF Finish
\* Going on is enough when the pointer stays and nothing is newly claimed.
<1>m. ASSUME NEW l \in Writing, Goto(w, l), pc[w] \in Writing,
             UNCHANGED <<current, history, req, chainSeen>>,
             l \in {"pointer", "finalCas", "replace"} =>
               pc[w] \in {"pointer", "finalCas", "replace"} \/ req[w] \notin Published
      PROVE  AllTold'
  <2>1. ToldInv(w)'
    BY <1>m, <1>g, <1>w, ToldMoves
  <2>2. pc[w] \in PublishStep
    BY <1>m DEF Writing, PublishStep
  <2> QED BY <1>m, <1>l, <1>w, <2>1, <2>2, OneTold
<1>1. CASE BeginPublish(w)
  <2>1. PICK q : Acquire(w, q, "admit")
    BY <1>1 DEF BeginPublish
  <2>2. kernel = Null /\ Goto(w, "admit")
    BY <2>1 DEF Acquire, LockFree
  <2>3. ToldInv(w)'
    BY <1>g, <2>2, ToldIdle DEF Writing
  <2> QED BY <1>w, <2>2, <2>3, OneTold
<1>2. CASE Admit(w)
  <2>1. /\ pc[w] \in PublishStep /\ UNCHANGED <<disk, req, ghosts>>
        /\ chainSeen'[w] = current
    BY <1>2, <1>c DEF Admit, PublishStep
  <2>2. PICK v : v = AdmitVerdict(req[w])
    OBVIOUS
  <2>3. CASE v = Null
    <3>1. Goto(w, "meta")
      BY <1>2, <2>2, <2>3 DEF Admit
    <3>2. ToldInv(w)'
      BY <1>g, <2>1, <3>1 DEF ToldInv, disk
    <3> QED BY <1>l, <1>w, <2>1, <3>1, <3>2, OneTold
  <2>4. CASE v # Null
    <3>1. Finish(w, v)
      BY <1>2, <2>2, <2>4 DEF Admit
    <3>2. v.domain = "current_unchanged"
      BY <1>q, <1>w, <2>1, <2>2, <2>4, AdmitTells
    <3>3. /\ v.fs = "staging_orphan" => StagingOf(req[w].txn) # {}
          /\ v.fs = "unreferenced_revision" => StrayOf(req[w].txn) # {}
          /\ v.kind \in Committed => req[w] \in Published
          /\ (v.kind = "failure" /\ ~v.recon) =>
               StagingOf(req[w].txn) = {} /\ StrayOf(req[w].txn) = {}
      BY <1>q, <1>w, <2>1, <2>2, <2>4, AdmitTells
    <3>4. Told(w, req[w], v)'
      BY <2>1, <3>2, <3>3 DEF Told, StagingOf, StrayOf, Published, disk, ghosts
    <3> QED BY <1>e, <2>1, <3>1, <3>4
  <2> QED BY <2>3, <2>4
<1>3. CASE AdmitFails(w)
  <2>1. /\ pc[w] \in PublishStep /\ UNCHANGED <<disk, req, ghosts>>
        /\ chainSeen'[w] = current
    BY <1>3, <1>c DEF AdmitFails, PublishStep
  <2>2. PICK v \in AdmitFailures(req[w]) : Finish(w, v)
    BY <1>3 DEF AdmitFails
  <2>3. /\ v.domain = "current_unchanged" /\ v.kind = "failure"
        /\ v.fs = "staging_orphan" => StagingOf(req[w].txn) # {}
        /\ v.fs = "unreferenced_revision" => StrayOf(req[w].txn) # {}
        /\ ~v.recon /\ ~NamesRefused(v) =>
             StagingOf(req[w].txn) = {} /\ StrayOf(req[w].txn) = {}
    BY <1>q, <1>w, <2>1, <2>2, AdmitFailTells
  <2>4. Told(w, req[w], v)'
    BY <2>1, <2>3 DEF Told, StagingOf, StrayOf, Published, Committed, disk, ghosts
  <2> QED BY <1>e, <2>1, <2>2, <2>4
<1>4. CASE WriteMetadataTemp(w) \/ ReplaceMetadata(w)
  <2>1. /\ pc[w] \in Writing /\ UNCHANGED <<current, history, req, chainSeen>>
        /\ \E l \in {"metaReplace", "mkdir"} : Goto(w, l)
    BY <1>4 DEF WriteMetadataTemp, ReplaceMetadata, ghosts, Writing
  <2> QED BY <1>m, <2>1 DEF Writing
<1>5. CASE MakeStaging(w) \/ WriteTransaction(w) \/ WritePayloadAndManifest(w)
  <2>1. /\ pc[w] \in Writing /\ UNCHANGED <<current, history, req, chainSeen>>
        /\ \E l \in {"describe", "fill", "rename"} : Goto(w, l)
    BY <1>5 DEF MakeStaging, WriteTransaction, WritePayloadAndManifest, Stage, ghosts, Writing
  <2> QED BY <1>m, <2>1 DEF Writing
<1>6. CASE RenameToRevision(w)
  <2>1. /\ pc[w] = "rename" /\ UNCHANGED <<current, history, req, chainSeen>>
        /\ Goto(w, "pointer")
    BY <1>6 DEF RenameToRevision, ghosts
  <2>2. req[w] \notin Published
    <3>1. \E s \in staging : s.rev = req[w]
      BY <1>w, <2>1 DEF PipeInv
    <3> QED BY <1>w, <3>1 DEF DiskInv, DirInv, HistInv, Published
  <2> QED BY <1>m, <2>1, <2>2 DEF Writing
<1>7. CASE WritePointerTemp(w)
  <2>1. /\ pc[w] = "pointer" /\ UNCHANGED <<current, history, req, chainSeen>>
        /\ Goto(w, "finalCas")
    BY <1>7 DEF WritePointerTemp, ghosts
  <2> QED BY <1>m, <2>1 DEF Writing
<1>8. CASE FinalCas(w)
  <2>1. pc[w] = "finalCas" /\ UNCHANGED <<disk, ghosts, req, chainSeen>>
    BY <1>8 DEF FinalCas
  <2>2. Goto(w, "replace")
    BY <1>8, <1>w, <2>1 DEF FinalCas, PipeInv
  <2> QED BY <1>m, <2>1, <2>2 DEF Writing, disk, ghosts
<1>9. CASE ReplaceCurrent(w)
  <2>1. pc[w] = "replace" /\ Goto(w, "reconcile")
    BY <1>9 DEF ReplaceCurrent
  <2>2. ToldInv(w)'
    BY <1>g, <2>1, ToldIdle DEF Writing
  <2> QED BY <1>l, <1>w, <2>1, <2>2, OneTold DEF PublishStep
<1>10. CASE Reconcile(w)
  <2>1. pc[w] = "reconcile" /\ current = req[w]
    BY <1>10, <1>w DEF Reconcile, PipeInv
  <2>2. Goto(w, "lineage")
    BY <1>10, <2>1 DEF Reconcile
  <2>3. ToldInv(w)'
    BY <1>g, <2>2, ToldIdle DEF Writing
  <2> QED BY <1>l, <1>w, <2>1, <2>2, <2>3, OneTold DEF PublishStep
<1>11. CASE ReconcileLineage(w)
  <2>1. pc[w] = "lineage" /\ current = req[w] /\ UNCHANGED <<disk, ghosts, req, chainSeen>>
    BY <1>11, <1>w DEF ReconcileLineage, PipeInv
  <2>2. CASE Goto(w, "sync")
    <3>1. ToldInv(w)'
      BY <1>g, <2>2, ToldIdle DEF Writing
    <3> QED BY <1>l, <1>w, <2>1, <2>2, <3>1, OneTold DEF PublishStep
  <2>3. CASE Finish(w, Failure("run_corrupt", "current_advanced", "current_advanced", TRUE))
    <3>1. PICK r : r = Failure("run_corrupt", "current_advanced", "current_advanced", TRUE)
      OBVIOUS
    <3>2. Told(w, req[w], r)'
      BY <2>1, <3>1 DEF Told, Failure, Committed, disk
    <3> QED BY <1>e, <2>1, <2>3, <3>1, <3>2 DEF PublishStep
  <2> QED BY <1>11, <2>2, <2>3 DEF ReconcileLineage
<1>12. CASE SyncDirectory(w)
  <2>1. PICK r : r = Outcome("published", "current_advanced", "current_advanced")
    OBVIOUS
  <2>2. /\ pc[w] = "sync" /\ current = req[w] /\ UNCHANGED <<disk, ghosts, req, chainSeen>>
        /\ Finish(w, r)
    BY <1>12, <1>w, <2>1 DEF SyncDirectory, PipeInv
  <2>3. req[w] \in Published'
    <3>1. pc'[w] = "release" /\ report'[w] = r
      BY <1>w, <1>g, <2>2 DEF Finish, TypeInv, TypeOK
    <3>2. PipeInv(w)'
      BY DEF SafeInv
    <3> QED BY <2>1, <2>2, <3>1, <3>2 DEF PipeInv, Outcome, Committed
  <2>4. Told(w, req[w], r)'
    BY <2>1, <2>2, <2>3 DEF Told, Outcome, disk
  <2> QED BY <1>e, <2>2, <2>4 DEF PublishStep
<1>13. CASE StepFails(w)
  <2>1. PICK r : r = FaultReport(w)
    OBVIOUS
  <2>2. /\ pc[w] \in PublishStep \ {"admit", "mkdir"} /\ Finish(w, r)
        /\ UNCHANGED <<staging, revisions, current, history, req, chainSeen>>
    BY <1>13, <2>1 DEF StepFails, ghosts
  <2>3. Told(w, req[w], r)
    BY <1>w, <2>1, <2>2, FaultTells
  <2>4. Told(w, req[w], r)'
    BY <2>2, <2>3 DEF Told, StagingOf, StrayOf, Published
  <2> QED BY <1>e, <2>2, <2>4
<1>14. CASE MkdirFails(w)
  <2>1. PICK flag \in BOOLEAN :
          Finish(w, Failure("transaction_failed", "control_only", "current_unchanged", flag))
    BY <1>14 DEF MkdirFails
  <2>2. PICK r : r = Failure("transaction_failed", "control_only", "current_unchanged", flag)
    OBVIOUS
  <2>3. pc[w] = "mkdir" /\ UNCHANGED <<disk, ghosts, req, chainSeen>>
    BY <1>14 DEF MkdirFails
  <2>4. Fresh(req[w].txn) /\ current = chainSeen[w]
    BY <1>w, <2>3 DEF PipeInv, ToldInv, Writing
  <2>5. Told(w, req[w], r)'
    BY <2>2, <2>3, <2>4 DEF Told, Failure, Fresh, StagingOf, StrayOf, Published, Committed, disk, ghosts
  <2> QED BY <1>e, <2>1, <2>2, <2>3, <2>5 DEF PublishStep
<1>15. CASE MetadataReplaceFails(w)
  <2>1. PICK r : r = Failure("effect_unknown", "control_only", "current_unchanged", TRUE)
    OBVIOUS
  <2>2. /\ pc[w] = "metaReplace" /\ Finish(w, r)
        /\ UNCHANGED <<staging, revisions, current, history, req, chainSeen>>
    BY <1>15, <2>1 DEF MetadataReplaceFails, ghosts
  <2>3. Told(w, req[w], r)'
    BY <1>w, <2>1, <2>2 DEF Told, Failure, Committed, ToldInv, Writing
  <2> QED BY <1>e, <2>2, <2>3 DEF PublishStep
<1>16. CASE RenameFails(w)
  <2>1. PICK r : r = Failure("effect_unknown", RenameFailureEffect(req[w], revisions'),
                             "current_unchanged", TRUE)
    OBVIOUS
  <2>2. /\ pc[w] = "rename" /\ Finish(w, r) /\ UNCHANGED <<current, history, req, chainSeen>>
        /\ RenameEffect(w) \/ UNCHANGED <<staging, revisions>>
    BY <1>16, <2>1 DEF RenameFails, ghosts
  <2>3. PICK s \in staging : s.rev = req[w]
    BY <1>w, <2>2 DEF PipeInv
  <2>4. req[w] \notin revisions /\ req[w] \notin Published /\ Published' = Published
    BY <1>w, <2>2, <2>3 DEF DiskInv, DirInv, HistInv, Published
  <2>5. /\ r.domain = "current_unchanged" /\ r.kind = "failure" /\ r.recon
        /\ r.fs = IF req[w] \in revisions' THEN "unreferenced_revision" ELSE "staging_orphan"
    BY <2>1 DEF Failure, RenameFailureEffect
  <2>6. CASE RenameEffect(w)
    <3>1. req[w] \in StrayOf(req[w].txn)' /\ r.fs = "unreferenced_revision"
      BY <2>2, <2>4, <2>5, <2>6 DEF RenameEffect, StrayOf
    <3>2. Told(w, req[w], r)'
      BY <1>w, <2>2, <2>5, <3>1 DEF Told, ToldInv, Writing, Committed
    <3> QED BY <1>e, <2>2, <3>2 DEF PublishStep
  <2>7. CASE UNCHANGED <<staging, revisions>>
    <3>1. s \in StagingOf(req[w].txn)' /\ r.fs = "staging_orphan"
      BY <2>2, <2>3, <2>4, <2>5, <2>7 DEF StagingOf
    <3>2. Told(w, req[w], r)'
      BY <1>w, <2>2, <2>5, <3>1 DEF Told, ToldInv, Writing, Committed
    <3> QED BY <1>e, <2>2, <3>2 DEF PublishStep
  <2> QED BY <2>2, <2>6, <2>7
<1>17. CASE ReplaceFails(w)
  <2>1. PICK r : r = Failure("effect_unknown", "current_replace_attempted",
                             "current_may_have_advanced", TRUE)
    OBVIOUS
  <2>2. /\ pc[w] = "replace" /\ Finish(w, r) /\ UNCHANGED <<req, chainSeen>>
        /\ ReplaceEffect(w) \/ UNCHANGED current
    BY <1>17, <2>1 DEF ReplaceFails
  <2>3. current' \in {req[w], chainSeen[w]}
    BY <1>w, <2>2 DEF ReplaceEffect, ToldInv, Writing
  <2>4. Told(w, req[w], r)'
    BY <2>1, <2>2, <2>3 DEF Told, Failure, Committed
  <2> QED BY <1>e, <2>2, <2>4 DEF PublishStep
<1> QED
  BY <1>1, <1>2, <1>3, <1>4, <1>5, <1>6, <1>7, <1>8, <1>9, <1>10, <1>11, <1>12, <1>13,
     <1>14, <1>15, <1>16, <1>17
  DEF PublishNext

\* A claim is not a publish request.
LEMMA ClaimIsNoRevision == \A q \in Claim : q \notin Revision
  BY DEF Claim, Revision

LEMMA ClaimTold ==
    ASSUME TypeInv, SafeInv, AllTold, NEW w \in Writer, ClaimNext(w)
    PROVE  AllTold'
<1>1. CASE BeginClaim(w)
  <2>1. PICK q : Acquire(w, q, "claimAdmit")
    BY <1>1 DEF BeginClaim
  <2>2. kernel = Null /\ Goto(w, "claimAdmit")
    BY <2>1 DEF Acquire, LockFree
  <2>3. pc'[w] = "claimAdmit"
    BY <2>2 DEF Goto, TypeInv, TypeOK, Thread
  <2>4. ToldInv(w)'
    BY <2>3, ToldIdle DEF Writing
  <2> QED BY <2>2, <2>4, OneTold DEF SafeInv
<1>2. CASE ~BeginClaim(w)
  <2>1. /\ pc[w] \in ClaimStep /\ req' = req
        /\ \E l \in ClaimStep \cup {"release"} : Goto(w, l)
    BY <1>2 DEF ClaimNext, ClaimAdmit, WriteClaimTemp, ClaimRecheck, FinalizeClaim,
       VerifyClaim, ClaimFails, Finish, ClaimStep
  <2>2. kernel = w
    BY <2>1 DEF SafeInv, LockInv, Locked
  <2>3. req'[w] \notin Revision
    BY <2>1, ClaimIsNoRevision DEF TypeInv, ServingInv
  <2>4. pc'[w] \in ClaimStep \cup {"release"}
    BY <2>1 DEF Goto, TypeInv, TypeOK, Thread
  <2>5. ToldInv(w)'
    BY <2>3, <2>4 DEF ToldInv, Writing, ClaimStep
  <2> QED BY <2>1, <2>2, <2>5, OneTold DEF SafeInv
<1> QED BY <1>1, <1>2

LEMMA ToldStep ==
    ASSUME TypeInv, SafeInv, AllTold, SafeInv', [Next]_vars
    PROVE  AllTold'
<1>1. ASSUME NEW w \in Writer, Release(w) \/ ReleaseFails(w) PROVE AllTold'
  <2>1. pc[w] = "release" /\ Goto(w, "idle")
    BY <1>1 DEF Release, ReleaseFails, Return
  <2>2. pc'[w] = "idle" /\ kernel = w
    BY <2>1 DEF Goto, TypeInv, TypeOK, Thread, SafeInv, LockInv, Locked
  <2>3. ToldInv(w)'
    BY <2>2, ToldIdle DEF Writing
  <2> QED BY <2>1, <2>2, <2>3, OneTold DEF SafeInv
<1>2. ASSUME NEW r \in Reader, ReadNext(r) PROVE AllTold'
  <2>1. /\ UNCHANGED <<disk, req, chainSeen, report, ghosts>>
        /\ \E l : pc' = [pc EXCEPT ![r] = l]
    BY <1>2 DEF ReadNext, BeginRead, ReadList, ReadStat, ReadPointer, ReadWalk, ReadAgain,
       ReadReturn, ReadEnds, Goto
  <2>2. ASSUME NEW w \in Writer PROVE ToldInv(w)'
    <3>1. pc'[w] = pc[w]
      BY <2>1, ConstantsAssumption DEF TypeInv, TypeOK, Thread
    <3> QED BY <2>1, <3>1, ToldKept DEF AllTold, disk, ghosts
  <2> QED BY <2>2 DEF AllTold
<1>3. ASSUME NEW p \in Process, Crash(p) PROVE AllTold'
  <2>1. UNCHANGED <<disk, ghosts>>
    BY <1>3 DEF Crash
  <2>2. ASSUME NEW w \in Writer, ProcessOf[w] = p PROVE ToldInv(w)'
    <3>1. pc'[w] = "idle"
      BY <1>3, <2>2 DEF Crash, Thread
    <3> QED BY <3>1, ToldIdle DEF Writing
  <2>3. ASSUME NEW w \in Writer, ProcessOf[w] # p PROVE ToldInv(w)'
    <3>1. /\ pc'[w] = pc[w] /\ req'[w] = req[w] /\ report'[w] = report[w]
          /\ chainSeen'[w] = chainSeen[w]
      BY <1>3, <2>3 DEF Crash, Thread
    <3> QED BY <2>1, <3>1, ToldKept DEF AllTold, disk, ghosts
  <2> QED BY <2>2, <2>3 DEF AllTold
<1>4. CASE UNCHANGED vars
  <2>1. UNCHANGED <<staging, revisions, current, history, pc, req, chainSeen, report>>
    BY <1>4 DEF vars, disk, local, ghosts
  <2> QED BY <2>1, ToldKept DEF AllTold
<1> QED BY <1>1, <1>2, <1>3, <1>4, PublishTold, ClaimTold DEF Next

\* What a publish reports about the disk and the pointer is true while it
\* still holds the lease, and a failure that asks for no reconciliation leaves
\* no trace of its transaction, unless the names of the run were refused
\* before it was looked for.
THEOREM ReportsAreTruthful == Spec => []ReportsTruthful
<1>1. Init => AllTold
  BY DEF Init, AllTold, ToldInv, Writing, Thread
<1>2. TypeInv /\ SafeInv /\ AllTold => ReportsTruthful
  <2> SUFFICES ASSUME TypeInv, SafeInv, AllTold, NEW w \in Writer, pc[w] = "release",
                      req[w] \in Revision
               PROVE  LET q == req[w]
                          r == report[w]
                      IN  /\ r.domain = "current_unchanged" => current = chainSeen[w]
                          /\ r.domain = "current_advanced" => current = q
                          /\ r.domain = "current_may_have_advanced" =>
                               current \in {q, chainSeen[w]}
                          /\ r.fs = "staging_orphan" => StagingOf(q.txn) # {}
                          /\ r.fs = "unreferenced_revision" => UnreferencedOf(q.txn) # {}
                          /\ r.kind \in Committed => q \in Reachable
                          /\ (r.kind = "failure" /\ ~r.recon /\ ~NamesRefused(r)) =>
                               ~OrphanLeft(q.txn)
    BY DEF ReportsTruthful
  <2>1. Reachable = Published
    BY ReachableIsPublished DEF TypeInv, SafeInv
  <2>2. UnreferencedOf(req[w].txn) = StrayOf(req[w].txn)
    BY <2>1 DEF UnreferencedOf, StrayOf
  <2>3. Told(w, req[w], report[w])
    BY DEF AllTold, ToldInv
  <2> QED BY <2>1, <2>2, <2>3 DEF Told, OrphanLeft
<1> QED BY <1>1, <1>2, ToldStep, Invariance, PTL DEF Spec

-----------------------------------------------------------------------------
(* Counting files.                                                         *)

LEMMA AddBound ==
    ASSUME NEW S, IsFiniteSet(S), NEW x, NEW T, T \subseteq S \cup {x}
    PROVE  IsFiniteSet(T) /\ Cardinality(T) \in Nat /\ Cardinality(T) <= Cardinality(S) + 1
<1>1. Cardinality(S) \in Nat
  BY FS_CardinalityType
<1>2. IsFiniteSet(S \cup {x}) /\ Cardinality(S \cup {x}) \in Nat
      /\ Cardinality(S \cup {x}) <= Cardinality(S) + 1
  BY <1>1, FS_AddElement, FS_CardinalityType
<1>3. IsFiniteSet(T) /\ Cardinality(T) <= Cardinality(S \cup {x})
  BY <1>2, FS_Subset
<1>4. Cardinality(T) \in Nat
  BY <1>3, FS_CardinalityType
<1> QED BY <1>1, <1>2, <1>3, <1>4

LEMMA RemoveBound ==
    ASSUME NEW S, IsFiniteSet(S), NEW y \in S, NEW T, T \subseteq S \ {y}
    PROVE  IsFiniteSet(T) /\ Cardinality(T) \in Nat /\ Cardinality(T) + 1 <= Cardinality(S)
<1>1. Cardinality(S) \in Nat
  BY FS_CardinalityType
<1>2. IsFiniteSet(S \ {y}) /\ Cardinality(S \ {y}) = Cardinality(S) - 1
  BY FS_RemoveElement
<1>3. IsFiniteSet(T) /\ Cardinality(T) <= Cardinality(S \ {y})
  BY <1>2, FS_Subset
<1>4. Cardinality(T) \in Nat
  BY <1>3, FS_CardinalityType
<1> QED BY <1>1, <1>2, <1>3, <1>4

\* What a change of a directory does to the number of its files.
LEMMA CardBounds ==
    ASSUME NEW S, IsFiniteSet(S), NEW T
    PROVE  /\ T \subseteq S => IsFiniteSet(T) /\ Cardinality(T) <= Cardinality(S)
           /\ \A x : T \subseteq S \cup {x} =>
                IsFiniteSet(T) /\ Cardinality(T) <= Cardinality(S) + 1
           /\ \A y \in S : T \subseteq S \ {y} =>
                IsFiniteSet(T) /\ Cardinality(T) + 1 <= Cardinality(S)
           /\ \A x : \A y \in S : T \subseteq (S \ {y}) \cup {x} =>
                IsFiniteSet(T) /\ Cardinality(T) <= Cardinality(S)
<1>1. ASSUME T \subseteq S PROVE IsFiniteSet(T) /\ Cardinality(T) <= Cardinality(S)
  BY <1>1, FS_Subset
<1>2. ASSUME NEW x, NEW y \in S, T \subseteq (S \ {y}) \cup {x}
      PROVE  IsFiniteSet(T) /\ Cardinality(T) <= Cardinality(S)
  <2> DEFINE U == S \ {y}
  <2>1. /\ IsFiniteSet(U) /\ Cardinality(U) \in Nat
        /\ Cardinality(U) + 1 <= Cardinality(S) /\ Cardinality(S) \in Nat
    BY RemoveBound, FS_CardinalityType
  <2>2. T \subseteq U \cup {x}
    BY <1>2
  <2> HIDE DEF U
  <2>3. /\ IsFiniteSet(T) /\ Cardinality(T) \in Nat
        /\ Cardinality(T) <= Cardinality(U) + 1
    BY <2>1, <2>2, AddBound
  <2> QED BY <2>1, <2>3
<1> QED BY <1>1, <1>2, AddBound, RemoveBound

LEMMA CostGrows ==
    ASSUME NEW b \in Nat, NEW m \in Nat, NEW n \in Nat, n <= m
    PROVE  b * n \in Nat /\ b * m \in Nat /\ b * n <= b * m /\ b * (m + 1) = b * m + b
<1>1. b * (m - n) >= 0 /\ m - n \in Nat
  OBVIOUS
<1>2. b * m = b * n + b * (m - n)
  OBVIOUS
<1> QED BY <1>1, <1>2

LEMMA CostSteps ==
    ASSUME NEW b \in Nat, NEW m \in Nat, NEW n \in Nat
    PROVE  /\ n <= m => b * n <= b * m
           /\ n <= m + 1 => b * n <= b * m + b
<1>1. n <= m => b * n <= b * m
  BY CostGrows
<1>2. ASSUME n <= m + 1 PROVE b * n <= b * m + b
  <2>1. b * n <= b * (m + 1)
    BY <1>2, CostGrows
  <2>2. b * (m + 1) = b * m + b
    BY CostGrows
  <2> QED BY <2>1, <2>2
<1> QED BY <1>1, <1>2

-----------------------------------------------------------------------------
(* The bytes of a run, by kind of file.                                    *)

Whole == {s \in staging : s.form # "created"}
WholeTemps == {t \in claimTemps : t.whole}

LockBytes == IF metadata THEN MetaBytes ELSE 0
MetaCost == LockBytes + metaTemps * MetaBytes
RevFiles == Cardinality(revisions) + Cardinality(Whole)
PtrFiles == Cardinality(ptrTemps) + (IF current = Null THEN 0 ELSE 1)
ClaimFiles == Cardinality(claims) + Cardinality(WholeTemps)

\* The directories hold finitely many files.
CountInv ==
    /\ IsFiniteSet(revisions) /\ IsFiniteSet(Whole) /\ IsFiniteSet(ptrTemps)
    /\ IsFiniteSet(claims) /\ IsFiniteSet(WholeTemps)
    /\ metaTemps \in Nat

BytesByKind ==
    /\ PhysicalBytes = MetaCost + RevBytes * RevFiles + PtrBytes * PtrFiles
                         + ClaimBytes * ClaimFiles
    /\ RevFiles \in Nat /\ PtrFiles \in Nat /\ ClaimFiles \in Nat
    /\ RevBytes * RevFiles \in Nat /\ PtrBytes * PtrFiles \in Nat
    /\ ClaimBytes * ClaimFiles \in Nat
    /\ MetaCost \in Nat /\ LockBytes \in Nat /\ PhysicalBytes \in Nat

LEMMA BytesAdd == CountInv => BytesByKind
<1> SUFFICES ASSUME CountInv PROVE BytesByKind
  OBVIOUS
<1>1. RevFiles \in Nat /\ PtrFiles \in Nat /\ ClaimFiles \in Nat
  BY FS_CardinalityType DEF CountInv, RevFiles, PtrFiles, ClaimFiles
<1>2. /\ RevBytes * RevFiles \in Nat /\ PtrBytes * PtrFiles \in Nat
      /\ ClaimBytes * ClaimFiles \in Nat
  BY <1>1, CostGrows, ConstantsAssumption
<1>3. MetaCost \in Nat /\ LockBytes \in Nat
  <2>1. MetaBytes * metaTemps \in Nat /\ metaTemps * MetaBytes = MetaBytes * metaTemps
    BY CostGrows, ConstantsAssumption DEF CountInv
  <2> QED BY <2>1, ConstantsAssumption DEF MetaCost, LockBytes
<1>4. PhysicalBytes = MetaCost + RevBytes * RevFiles + PtrBytes * PtrFiles
                        + ClaimBytes * ClaimFiles
  BY <1>2, <1>3 DEF PhysicalBytes, MetaCost, LockBytes, RevFiles, PtrFiles, ClaimFiles, Whole,
                    WholeTemps
<1> QED BY <1>1, <1>2, <1>3, <1>4 DEF BytesByKind

LEMMA BytesAddNext == CountInv' => BytesByKind'
  BY BytesAdd, PTL

-----------------------------------------------------------------------------
(* What each step may still add.                                           *)

\* n more bytes fit.
Room(n) == PhysicalBytes + n <= MaxRunBytes

QuotaInv(w) ==
    /\ pc[w] = "meta" => Room(MetaBytes) /\ Room(MetaBytes - LockBytes + RevBytes + PtrBytes)
    /\ pc[w] = "metaReplace" => metaTemps >= 1 /\ Room(RevBytes + PtrBytes - LockBytes)
    /\ pc[w] \in {"mkdir", "describe"} => Room(RevBytes + PtrBytes)
    /\ pc[w] \in {"fill", "rename"} =>
         Room(PtrBytes) /\ \E s \in Whole : s.rev.txn = req[w].txn
    /\ pc[w] = "pointer" => Room(PtrBytes)
    /\ pc[w] \in {"finalCas", "replace"} => req[w].txn \in ptrTemps
    /\ pc[w] = "claimTemp" => Room(ClaimBytes)
    /\ pc[w] \in {"claimRecheck", "claimFinalize"} => \E t \in WholeTemps : t \in TempOf(req[w])

BytesInv == CountInv /\ Room(0) /\ \A w \in Writer : QuotaInv(w)

FileVars == <<staging, revisions, current, ptrTemps, metadata, metaTemps, claims, claimTemps>>

\* Nobody else's step changes what a writer relies on.
LEMMA QuotaKept ==
    ASSUME NEW w \in Writer, QuotaInv(w), UNCHANGED disk, pc'[w] = pc[w], req'[w] = req[w]
    PROVE  QuotaInv(w)'
<1>1. /\ PhysicalBytes' = PhysicalBytes /\ LockBytes' = LockBytes /\ Whole' = Whole
      /\ WholeTemps' = WholeTemps /\ TempOf(req[w])' = TempOf(req[w])
      /\ ptrTemps' = ptrTemps /\ metaTemps' = metaTemps
  BY DEF disk, PhysicalBytes, LockBytes, Whole, WholeTemps, TempOf
<1>2. \A n : Room(n)' <=> Room(n)
  BY <1>1 DEF Room
<1> QED BY <1>1, <1>2 DEF QuotaInv

\* One writer moves: the others are outside the store.
LEMMA OneMovesBytes ==
    ASSUME TypeInv, LockInv, NEW w \in Writer, kernel \in {Null, w}, NEW l, Goto(w, l),
           CountInv', Room(0)', QuotaInv(w)'
    PROVE  BytesInv'
<1>1. ASSUME NEW v \in Writer \ {w} PROVE QuotaInv(v)'
  <2>1. pc'[v] = pc[v] /\ pc[v] \notin Locked
    BY NullAssumption, ConstantsAssumption DEF LockInv, Goto, TypeInv, TypeOK, Thread
  <2> QED BY <2>1 DEF QuotaInv, Locked, PublishStep, ClaimStep
<1> QED BY <1>1 DEF BytesInv

\* The files stay; the writer goes where it has room.
LEMMA BytesStay ==
    ASSUME CountInv, UNCHANGED disk
    PROVE  /\ CountInv' /\ PhysicalBytes' = PhysicalBytes /\ LockBytes' = LockBytes
           /\ Whole' = Whole /\ WholeTemps' = WholeTemps
           /\ \A n : Room(n)' <=> Room(n)
<1>1. /\ CountInv' /\ PhysicalBytes' = PhysicalBytes /\ LockBytes' = LockBytes
      /\ Whole' = Whole /\ WholeTemps' = WholeTemps
  BY DEF disk, CountInv, PhysicalBytes, LockBytes, Whole, WholeTemps
<1> QED BY <1>1 DEF Room

\* Only the lock metadata changes.
LEMMA MetaBytesMove ==
    ASSUME CountInv, UNCHANGED <<staging, revisions, current, ptrTemps, claims, claimTemps>>,
           metaTemps' \in Nat
    PROVE  /\ CountInv'
           /\ PhysicalBytes' = PhysicalBytes + MetaCost' - MetaCost
<1>1. CountInv'
  BY DEF CountInv, Whole, WholeTemps
<1>2. /\ RevFiles' = RevFiles /\ PtrFiles' = PtrFiles /\ ClaimFiles' = ClaimFiles
  BY DEF RevFiles, PtrFiles, ClaimFiles, Whole, WholeTemps
<1> QED BY <1>1, <1>2, BytesAdd, BytesAddNext DEF BytesByKind

\* Directories, pointer files or claims change, by at most one file in sum.
LEMMA FilesMove ==
    ASSUME CountInv, CountInv', UNCHANGED <<metadata, metaTemps>>
    PROVE  /\ RevFiles' <= RevFiles /\ PtrFiles' <= PtrFiles /\ ClaimFiles' <= ClaimFiles =>
                PhysicalBytes' <= PhysicalBytes
           /\ RevFiles' <= RevFiles + 1 /\ PtrFiles' <= PtrFiles /\ ClaimFiles' <= ClaimFiles =>
                PhysicalBytes' <= PhysicalBytes + RevBytes
           /\ RevFiles' <= RevFiles /\ PtrFiles' <= PtrFiles + 1 /\ ClaimFiles' <= ClaimFiles =>
                PhysicalBytes' <= PhysicalBytes + PtrBytes
           /\ RevFiles' <= RevFiles /\ PtrFiles' <= PtrFiles /\ ClaimFiles' <= ClaimFiles + 1 =>
                PhysicalBytes' <= PhysicalBytes + ClaimBytes
<1>b. BytesByKind /\ BytesByKind'
  BY BytesAdd, BytesAddNext
<1>m. MetaCost' = MetaCost
  BY DEF MetaCost, LockBytes
<1>r. /\ RevFiles' <= RevFiles => RevBytes * RevFiles' <= RevBytes * RevFiles
      /\ RevFiles' <= RevFiles + 1 => RevBytes * RevFiles' <= RevBytes * RevFiles + RevBytes
  <2>1. RevFiles \in Nat /\ RevFiles' \in Nat /\ RevBytes \in Nat
    BY <1>b, ConstantsAssumption DEF BytesByKind
  <2> QED BY <2>1, CostSteps
<1>p. /\ PtrFiles' <= PtrFiles => PtrBytes * PtrFiles' <= PtrBytes * PtrFiles
      /\ PtrFiles' <= PtrFiles + 1 => PtrBytes * PtrFiles' <= PtrBytes * PtrFiles + PtrBytes
  <2>1. PtrFiles \in Nat /\ PtrFiles' \in Nat /\ PtrBytes \in Nat
    BY <1>b, ConstantsAssumption DEF BytesByKind
  <2> QED BY <2>1, CostSteps
<1>c. /\ ClaimFiles' <= ClaimFiles => ClaimBytes * ClaimFiles' <= ClaimBytes * ClaimFiles
      /\ ClaimFiles' <= ClaimFiles + 1 =>
           ClaimBytes * ClaimFiles' <= ClaimBytes * ClaimFiles + ClaimBytes
  <2>1. ClaimFiles \in Nat /\ ClaimFiles' \in Nat /\ ClaimBytes \in Nat
    BY <1>b, ConstantsAssumption DEF BytesByKind
  <2> QED BY <2>1, CostSteps
<1> DEFINE A == RevBytes * RevFiles   B == PtrBytes * PtrFiles   C == ClaimBytes * ClaimFiles
           A1 == RevBytes * RevFiles' B1 == PtrBytes * PtrFiles' C1 == ClaimBytes * ClaimFiles'
<1>1. /\ A \in Nat /\ B \in Nat /\ C \in Nat /\ A1 \in Nat /\ B1 \in Nat /\ C1 \in Nat
      /\ MetaCost \in Nat /\ RevBytes \in Nat /\ PtrBytes \in Nat /\ ClaimBytes \in Nat
      /\ PhysicalBytes = MetaCost + A + B + C /\ PhysicalBytes' = MetaCost + A1 + B1 + C1
  BY <1>b, <1>m, ConstantsAssumption DEF BytesByKind
<1>2. /\ RevFiles' <= RevFiles => A1 <= A
      /\ RevFiles' <= RevFiles + 1 => A1 <= A + RevBytes
      /\ PtrFiles' <= PtrFiles => B1 <= B
      /\ PtrFiles' <= PtrFiles + 1 => B1 <= B + PtrBytes
      /\ ClaimFiles' <= ClaimFiles => C1 <= C
      /\ ClaimFiles' <= ClaimFiles + 1 => C1 <= C + ClaimBytes
  BY <1>r, <1>p, <1>c
<1> HIDE DEF A, B, C, A1, B1, C1
<1> QED BY <1>1, <1>2

\* A directory of staged revisions or of revisions changes.
LEMMA RevisionsMove ==
    ASSUME CountInv, UNCHANGED <<current, ptrTemps, metadata, metaTemps, claims, claimTemps>>,
           IsFiniteSet(revisions'), IsFiniteSet(Whole')
    PROVE  /\ CountInv'
           /\ RevFiles' <= RevFiles => PhysicalBytes' <= PhysicalBytes
           /\ RevFiles' <= RevFiles + 1 => PhysicalBytes' <= PhysicalBytes + RevBytes
<1>1. CountInv'
  BY DEF CountInv, WholeTemps
<1>2. /\ PtrFiles' = PtrFiles /\ ClaimFiles' = ClaimFiles /\ PtrFiles \in Nat /\ ClaimFiles \in Nat
  BY BytesAdd DEF BytesByKind, PtrFiles, ClaimFiles, WholeTemps
<1> QED BY <1>1, <1>2, FilesMove

\* The pointer, or its temporaries, change.
LEMMA PointersMove ==
    ASSUME CountInv, UNCHANGED <<staging, revisions, metadata, metaTemps, claims, claimTemps>>,
           IsFiniteSet(ptrTemps')
    PROVE  /\ CountInv'
           /\ PtrFiles' <= PtrFiles => PhysicalBytes' <= PhysicalBytes
           /\ PtrFiles' <= PtrFiles + 1 => PhysicalBytes' <= PhysicalBytes + PtrBytes
<1>1. CountInv'
  BY DEF CountInv, WholeTemps, Whole
<1>2. /\ RevFiles' = RevFiles /\ ClaimFiles' = ClaimFiles /\ RevFiles \in Nat /\ ClaimFiles \in Nat
  BY BytesAdd DEF BytesByKind, RevFiles, ClaimFiles, WholeTemps, Whole
<1> QED BY <1>1, <1>2, FilesMove

\* A claim, or its temporaries, change.
LEMMA ClaimsMove ==
    ASSUME CountInv, UNCHANGED <<staging, revisions, current, ptrTemps, metadata, metaTemps>>,
           IsFiniteSet(claims'), IsFiniteSet(WholeTemps')
    PROVE  /\ CountInv'
           /\ ClaimFiles' <= ClaimFiles => PhysicalBytes' <= PhysicalBytes
           /\ ClaimFiles' <= ClaimFiles + 1 => PhysicalBytes' <= PhysicalBytes + ClaimBytes
<1>1. CountInv'
  BY DEF CountInv, Whole
<1>2. /\ RevFiles' = RevFiles /\ PtrFiles' = PtrFiles /\ RevFiles \in Nat /\ PtrFiles \in Nat
  BY BytesAdd DEF BytesByKind, RevFiles, PtrFiles, Whole
<1> QED BY <1>1, <1>2, FilesMove

\* A metadata temporary is written, or replaces the lock metadata.
LEMMA MetadataMoves ==
    ASSUME CountInv, UNCHANGED <<staging, revisions, current, ptrTemps, claims, claimTemps>>
    PROVE  /\ metaTemps' = metaTemps + 1 /\ UNCHANGED metadata =>
                CountInv' /\ PhysicalBytes' = PhysicalBytes + MetaBytes /\ LockBytes' = LockBytes
           /\ metaTemps >= 1 /\ metaTemps' = metaTemps - 1 /\ metadata' = TRUE =>
                CountInv' /\ PhysicalBytes' = PhysicalBytes - LockBytes /\ LockBytes' = MetaBytes
<1>n. metaTemps \in Nat /\ MetaBytes \in Nat
  BY ConstantsAssumption DEF CountInv
<1>b. BytesByKind
  BY BytesAdd
<1>l. LockBytes \in Nat /\ PhysicalBytes \in Nat /\ MetaCost \in Nat
  BY <1>b DEF BytesByKind
<1> DEFINE M == metaTemps * MetaBytes   M1 == metaTemps' * MetaBytes
<1>m. M \in Int /\ MetaCost = LockBytes + M /\ MetaCost' = LockBytes' + M1
  BY <1>n DEF MetaCost
<1>1. ASSUME metaTemps' = metaTemps + 1, UNCHANGED metadata
      PROVE  CountInv' /\ PhysicalBytes' = PhysicalBytes + MetaBytes /\ LockBytes' = LockBytes
  <2>1. LockBytes' = LockBytes /\ metaTemps' \in Nat
    BY <1>1, <1>n DEF LockBytes
  <2>2. M1 = M + MetaBytes
    BY <1>1, <1>n
  <2> HIDE DEF M, M1
  <2>3. MetaCost' = MetaCost + MetaBytes
    BY <1>l, <1>m, <1>n, <2>1, <2>2
  <2>4. CountInv' /\ PhysicalBytes' = PhysicalBytes + MetaCost' - MetaCost
    BY <2>1, MetaBytesMove
  <2> QED BY <1>l, <1>n, <2>1, <2>3, <2>4
<1>2. ASSUME metaTemps >= 1, metaTemps' = metaTemps - 1, metadata' = TRUE
      PROVE  CountInv' /\ PhysicalBytes' = PhysicalBytes - LockBytes /\ LockBytes' = MetaBytes
  <2>1. LockBytes' = MetaBytes /\ metaTemps' \in Nat
    BY <1>2, <1>n DEF LockBytes
  <2>2. M1 = M - MetaBytes
    BY <1>2, <1>n
  <2> HIDE DEF M, M1
  <2>3. MetaCost' = MetaCost - LockBytes
    BY <1>l, <1>m, <1>n, <2>1, <2>2
  <2>4. CountInv' /\ PhysicalBytes' = PhysicalBytes + MetaCost' - MetaCost
    BY <2>1, MetaBytesMove
  <2> QED BY <1>l, <1>n, <2>1, <2>3, <2>4
<1> QED BY <1>1, <1>2

\* The admission of publish leaves room for the whole pipeline.
LEMMA AdmitHasRoom ==
    ASSUME CountInv, NEW q \in Revision, AdmitVerdict(q) = Null
    PROVE  Room(MetaBytes) /\ Room(MetaBytes - LockBytes + RevBytes + PtrBytes)
<1>1. ~(PeakBytes > MaxRunBytes)
  <2>1. \A c \in Code, f \in FsEffect, b \in BOOLEAN : Failure(c, f, "current_unchanged", b) # Null
    BY FailureType, NullAssumption DEF DomainEffect
  <2>2. \A k \in Kind, f \in FsEffect : Outcome(k, f, "current_unchanged") # Null
    BY OutcomeType, NullAssumption DEF DomainEffect
  <2>3. OrphanEffect(q.txn) \in FsEffect
    BY DEF OrphanEffect, FsEffect
  <2> QED BY <2>1, <2>2, <2>3 DEF AdmitVerdict, Code, FsEffect, Kind
<1>2. BytesByKind
  BY BytesAdd
<1>3. LockBytes = IF metadata THEN MetaBytes ELSE 0
  BY DEF LockBytes
<1> QED BY <1>1, <1>2, <1>3, ConstantsAssumption DEF PeakBytes, Room, BytesByKind

\* The admission of claim_orphan leaves room for the claim, or finds its
\* temporary already there.
LEMMA ClaimHasRoom ==
    ASSUME TypeOK, CountInv, NEW q \in Claim, ClaimVerdict(q) = Null
    PROVE  /\ TempOf(q) = {} => Room(ClaimBytes)
           /\ TempOf(q) # {} => \E t \in WholeTemps : t \in TempOf(q)
<1>1. /\ ~(TempOf(q) = {} /\ PhysicalBytes + ClaimBytes > MaxRunBytes)
      /\ ~(\E t \in TempOf(q) : ~t.whole)
  <2>1. \A c \in Code, f \in FsEffect, b \in BOOLEAN : Failure(c, f, "current_unchanged", b) # Null
    BY FailureType, NullAssumption DEF DomainEffect
  <2>2. Outcome("claimed", "none", "current_unchanged") # Null
    BY OutcomeType, NullAssumption DEF DomainEffect, FsEffect, Kind
  <2>3. \A c \in Code : ClaimFailure(q, c) # Null
    BY <2>1 DEF ClaimFailure, FsEffect
  <2> QED BY <2>1, <2>2, <2>3 DEF ClaimVerdict, Code, FsEffect
<1>2. BytesByKind
  BY BytesAdd
<1>3. TempOf(q) = {} => Room(ClaimBytes)
  BY <1>1, <1>2, ConstantsAssumption DEF Room, BytesByKind
<1>4. ASSUME TempOf(q) # {} PROVE \E t \in WholeTemps : t \in TempOf(q)
  BY <1>1, <1>4 DEF TempOf, WholeTemps
<1> QED BY <1>3, <1>4

\* The staging directory of a transaction is made or filled.
LEMMA StageMoves ==
    ASSUME CountInv, NEW q \in Revision, NEW f \in StagingForm,
           staging' = (staging \ StagingOf(q.txn)) \cup {[rev |-> q, form |-> f]},
           UNCHANGED <<revisions, current, ptrTemps, metadata, metaTemps, claims, claimTemps>>
    PROVE  /\ CountInv'
           /\ f = "created" => PhysicalBytes' <= PhysicalBytes
           /\ PhysicalBytes' <= PhysicalBytes + RevBytes
           /\ (\E s \in Whole : s.rev.txn = q.txn) => PhysicalBytes' <= PhysicalBytes
           /\ f # "created" => \E s \in Whole' : s.rev.txn = q.txn
<1> DEFINE x == [rev |-> q, form |-> f]
<1>1. /\ Whole' \subseteq Whole \cup {x}
      /\ f = "created" => Whole' \subseteq Whole
      /\ f # "created" => x \in Whole'
      /\ \A y \in Whole : y.rev.txn = q.txn => Whole' \subseteq (Whole \ {y}) \cup {x}
  BY DEF Whole, StagingOf
<1>2. x.rev.txn = q.txn
  OBVIOUS
<1> HIDE DEF x
<1>f. IsFiniteSet(Whole) /\ IsFiniteSet(revisions) /\ Cardinality(revisions) \in Nat
      /\ Cardinality(Whole) \in Nat
  BY FS_CardinalityType DEF CountInv
<1>3. IsFiniteSet(Whole') /\ Cardinality(Whole') <= Cardinality(Whole) + 1
      /\ Cardinality(Whole') \in Nat
  BY <1>1, <1>f, AddBound
<1>4. f = "created" => Cardinality(Whole') <= Cardinality(Whole)
  BY <1>1, <1>f, CardBounds
<1>5. (\E s \in Whole : s.rev.txn = q.txn) => Cardinality(Whole') <= Cardinality(Whole)
  BY <1>1, <1>f, CardBounds
<1>6. /\ CountInv'
      /\ RevFiles' <= RevFiles => PhysicalBytes' <= PhysicalBytes
      /\ RevFiles' <= RevFiles + 1 => PhysicalBytes' <= PhysicalBytes + RevBytes
  BY <1>f, <1>3, RevisionsMove
<1>7. RevFiles' = Cardinality(revisions) + Cardinality(Whole')
      /\ RevFiles = Cardinality(revisions) + Cardinality(Whole)
  BY DEF RevFiles
<1>8. /\ Cardinality(Whole') <= Cardinality(Whole) => RevFiles' <= RevFiles
      /\ Cardinality(Whole') <= Cardinality(Whole) + 1 => RevFiles' <= RevFiles + 1
  BY <1>3, <1>7, <1>f
<1> QED BY <1>1, <1>2, <1>3, <1>4, <1>5, <1>6, <1>8

\* A staged revision becomes a revision directory.
LEMMA RenameMoves ==
    ASSUME CountInv, NEW w \in Writer, RenameEffect(w), req[w] \in Revision,
           \E s \in Whole : s.rev.txn = req[w].txn,
           UNCHANGED <<current, ptrTemps, metadata, metaTemps, claims, claimTemps>>
    PROVE  CountInv' /\ PhysicalBytes' <= PhysicalBytes
<1>f. IsFiniteSet(Whole) /\ IsFiniteSet(revisions) /\ Cardinality(revisions) \in Nat
      /\ Cardinality(Whole) \in Nat
  BY FS_CardinalityType DEF CountInv
<1>1. PICK y \in Whole : y.rev.txn = req[w].txn
  OBVIOUS
<1>2. Whole' \subseteq Whole \ {y}
  BY <1>1 DEF RenameEffect, Whole, StagingOf
<1>3. IsFiniteSet(Whole') /\ Cardinality(Whole') \in Nat
      /\ Cardinality(Whole') + 1 <= Cardinality(Whole)
  BY <1>2, <1>f, RemoveBound
<1>4. revisions' \subseteq revisions \cup {req[w]}
  BY DEF RenameEffect
<1>5. IsFiniteSet(revisions') /\ Cardinality(revisions') \in Nat
      /\ Cardinality(revisions') <= Cardinality(revisions) + 1
  BY <1>4, <1>f, AddBound
<1>6. RevFiles' <= RevFiles
  BY <1>3, <1>5, <1>f DEF RevFiles
<1> QED BY <1>3, <1>5, <1>6, RevisionsMove

\* The pointer temporary is written.
LEMMA TempMoves ==
    ASSUME CountInv, NEW t, ptrTemps' = ptrTemps \cup {t},
           UNCHANGED <<staging, revisions, current, metadata, metaTemps, claims, claimTemps>>
    PROVE  CountInv' /\ PhysicalBytes' <= PhysicalBytes + PtrBytes
<1>f. IsFiniteSet(ptrTemps) /\ Cardinality(ptrTemps) \in Nat
  BY FS_CardinalityType DEF CountInv
<1>1. IsFiniteSet(ptrTemps') /\ Cardinality(ptrTemps') \in Nat
      /\ Cardinality(ptrTemps') <= Cardinality(ptrTemps) + 1
  BY <1>f, AddBound
<1>2. PtrFiles' <= PtrFiles + 1
  BY <1>1, <1>f DEF PtrFiles
<1> QED BY <1>1, <1>2, PointersMove

\* The pointer temporary replaces the pointer.
LEMMA ReplaceMoves ==
    ASSUME TypeOK, CountInv, NEW w \in Writer, ReplaceEffect(w), req[w] \in Revision,
           req[w].txn \in ptrTemps,
           UNCHANGED <<staging, revisions, metadata, metaTemps, claims, claimTemps>>
    PROVE  CountInv' /\ PhysicalBytes' <= PhysicalBytes
<1>f. IsFiniteSet(ptrTemps) /\ Cardinality(ptrTemps) \in Nat
  BY FS_CardinalityType DEF CountInv
<1>1. ptrTemps' \subseteq ptrTemps \ {req[w].txn} /\ current' # Null
  BY NullAssumption DEF ReplaceEffect
<1>2. IsFiniteSet(ptrTemps') /\ Cardinality(ptrTemps') \in Nat
      /\ Cardinality(ptrTemps') + 1 <= Cardinality(ptrTemps)
  BY <1>f, <1>1, RemoveBound
<1>3. PtrFiles' <= PtrFiles
  BY <1>1, <1>2, <1>f DEF PtrFiles
<1> QED BY <1>2, <1>3, PointersMove

-----------------------------------------------------------------------------
(* Every step stays within the room it has.                                *)

LEMMA PublishBytes ==
    ASSUME TypeInv, SafeInv, BytesInv, NEW w \in Writer, PublishNext(w)
    PROVE  BytesInv'
<1>w. QuotaInv(w) /\ w \in Thread /\ LockInv /\ CountInv /\ Room(0) /\ TypeOK
  BY DEF BytesInv, SafeInv, Thread, TypeInv
<1>l. pc[w] \in PublishStep => kernel = w
  BY DEF SafeInv, LockInv, Locked
<1>q. pc[w] \in PublishStep => req[w] \in Revision
  BY DEF TypeInv, ServingInv
<1>g. \A l : Goto(w, l) => pc'[w] = l
  BY <1>w DEF Goto, TypeInv, TypeOK
<1>b. /\ PhysicalBytes \in Nat /\ LockBytes \in Nat /\ MetaBytes \in Nat /\ RevBytes \in Nat
      /\ PtrBytes \in Nat /\ MaxRunBytes \in Nat
  BY <1>w, BytesAdd, ConstantsAssumption DEF BytesByKind
<1>n. CountInv' => PhysicalBytes' \in Nat /\ LockBytes' \in Nat
  BY BytesAddNext DEF BytesByKind
\* The end of an operation needs no room.
<1>e. ASSUME pc[w] \in PublishStep, \E r : Finish(w, r), CountInv',
             PhysicalBytes' <= PhysicalBytes \/ Room(0)'
      PROVE  BytesInv'
  <2>1. Goto(w, "release")
    BY <1>e DEF Finish
  <2>2. QuotaInv(w)'
    BY <1>g, <2>1 DEF QuotaInv
  <2>3. Room(0)'
    BY <1>b, <1>e, <1>n, <1>w DEF Room
  <2> QED BY <1>e, <1>l, <1>w, <2>1, <2>2, <2>3, OneMovesBytes
\* Steps that touch no file.
<1>d. ASSUME pc[w] \in PublishStep, \E r : Finish(w, r), UNCHANGED disk
      PROVE  BytesInv'
  <2>1. CountInv' /\ PhysicalBytes' = PhysicalBytes
    BY <1>d, <1>w, BytesStay
  <2> QED BY <1>d, <1>e, <1>b, <2>1
<1>1. CASE BeginPublish(w)
  <2>1. PICK q : Acquire(w, q, "admit")
    BY <1>1 DEF BeginPublish
  <2>2. kernel = Null /\ Goto(w, "admit") /\ UNCHANGED disk
    BY <2>1 DEF Acquire, LockFree
  <2>3. QuotaInv(w)'
    BY <1>g, <2>2 DEF QuotaInv
  <2>4. CountInv' /\ Room(0)'
    BY <1>w, <2>2, BytesStay
  <2> QED BY <1>w, <2>2, <2>3, <2>4, OneMovesBytes
<1>2. CASE Admit(w)
  <2>1. pc[w] \in PublishStep /\ UNCHANGED disk
    BY <1>2 DEF Admit, PublishStep
  <2>2. CASE AdmitVerdict(req[w]) = Null
    <3>1. Goto(w, "meta")
      BY <1>2, <2>2 DEF Admit
    <3>2. Room(MetaBytes) /\ Room(MetaBytes - LockBytes + RevBytes + PtrBytes)
      BY <1>q, <1>w, <2>1, <2>2, AdmitHasRoom
    <3>3. /\ CountInv' /\ Room(0)' /\ Room(MetaBytes)'
          /\ Room(MetaBytes - LockBytes + RevBytes + PtrBytes)'
      BY <1>w, <2>1, <3>2, BytesStay DEF Room
    <3>4. QuotaInv(w)'
      BY <1>g, <3>1, <3>3 DEF QuotaInv
    <3> QED BY <1>l, <1>w, <2>1, <3>1, <3>3, <3>4, OneMovesBytes
  <2>3. CASE AdmitVerdict(req[w]) # Null
    <3>1. \E r : Finish(w, r)
      BY <1>2, <2>3 DEF Admit
    <3> QED BY <1>d, <2>1, <3>1
  <2> QED BY <2>2, <2>3
<1>3. CASE AdmitFails(w) \/ MkdirFails(w)
  <2>1. pc[w] \in PublishStep /\ UNCHANGED disk /\ \E r : Finish(w, r)
    BY <1>3 DEF AdmitFails, MkdirFails, PublishStep
  <2> QED BY <1>d, <2>1
<1>4. CASE WriteMetadataTemp(w)
  <2>1. /\ pc[w] = "meta" /\ metaTemps' = metaTemps + 1 /\ Goto(w, "metaReplace")
        /\ UNCHANGED <<staging, revisions, current, ptrTemps, metadata, claims, claimTemps>>
    BY <1>4 DEF WriteMetadataTemp
  <2>2. CountInv' /\ PhysicalBytes' = PhysicalBytes + MetaBytes /\ LockBytes' = LockBytes
    BY <1>w, <2>1, MetadataMoves
  <2>3. /\ PhysicalBytes + MetaBytes <= MaxRunBytes
        /\ PhysicalBytes + (MetaBytes - LockBytes + RevBytes + PtrBytes) <= MaxRunBytes
    BY <1>w, <2>1 DEF QuotaInv, Room
  <2>4. Room(0)' /\ Room(RevBytes + PtrBytes - LockBytes)'
    BY <1>b, <2>2, <2>3 DEF Room
  <2>5. metaTemps' >= 1
    BY <1>w, <2>1 DEF CountInv
  <2>6. QuotaInv(w)'
    BY <1>g, <2>1, <2>4, <2>5 DEF QuotaInv
  <2> QED BY <1>l, <1>w, <2>1, <2>2, <2>4, <2>6, OneMovesBytes DEF PublishStep
<1>5. CASE ReplaceMetadata(w)
  <2>1. /\ pc[w] = "metaReplace" /\ metaTemps' = metaTemps - 1 /\ metadata' = TRUE
        /\ Goto(w, "mkdir")
        /\ UNCHANGED <<staging, revisions, current, ptrTemps, claims, claimTemps>>
    BY <1>5 DEF ReplaceMetadata
  <2>2. metaTemps >= 1 /\ PhysicalBytes + (RevBytes + PtrBytes - LockBytes) <= MaxRunBytes
    BY <1>w, <2>1 DEF QuotaInv, Room
  <2>3. CountInv' /\ PhysicalBytes' = PhysicalBytes - LockBytes
    BY <1>w, <2>1, <2>2, MetadataMoves
  <2>4. Room(0)' /\ Room(RevBytes + PtrBytes)'
    BY <1>b, <2>2, <2>3 DEF Room
  <2>5. QuotaInv(w)'
    BY <1>g, <2>1, <2>4 DEF QuotaInv
  <2> QED BY <1>l, <1>w, <2>1, <2>3, <2>4, <2>5, OneMovesBytes DEF PublishStep
<1>6. CASE MakeStaging(w)
  <2>1. /\ pc[w] = "mkdir" /\ Goto(w, "describe") /\ req' = req
        /\ staging' = (staging \ StagingOf(req[w].txn)) \cup {[rev |-> req[w], form |-> "created"]}
        /\ UNCHANGED <<revisions, current, ptrTemps, metadata, metaTemps, claims, claimTemps>>
    BY <1>6 DEF MakeStaging, Stage
  <2>2. CountInv' /\ PhysicalBytes' <= PhysicalBytes
    BY <1>q, <1>w, <2>1, StageMoves DEF PublishStep, StagingForm
  <2>3. PhysicalBytes + (RevBytes + PtrBytes) <= MaxRunBytes
    BY <1>w, <2>1 DEF QuotaInv, Room
  <2>4. Room(0)' /\ Room(RevBytes + PtrBytes)'
    BY <1>b, <1>n, <2>2, <2>3 DEF Room
  <2>5. QuotaInv(w)'
    BY <1>g, <2>1, <2>4 DEF QuotaInv
  <2> QED BY <1>l, <1>w, <2>1, <2>2, <2>4, <2>5, OneMovesBytes DEF PublishStep
<1>7. CASE WriteTransaction(w)
  <2>1. /\ pc[w] = "describe" /\ Goto(w, "fill") /\ req' = req
        /\ staging' = (staging \ StagingOf(req[w].txn)) \cup {[rev |-> req[w], form |-> "described"]}
        /\ UNCHANGED <<revisions, current, ptrTemps, metadata, metaTemps, claims, claimTemps>>
    BY <1>7 DEF WriteTransaction, Stage
  <2>2. /\ CountInv' /\ PhysicalBytes' <= PhysicalBytes + RevBytes
        /\ \E s \in Whole' : s.rev.txn = req[w].txn
    BY <1>q, <1>w, <2>1, StageMoves DEF PublishStep, StagingForm
  <2>3. PhysicalBytes + (RevBytes + PtrBytes) <= MaxRunBytes
    BY <1>w, <2>1 DEF QuotaInv, Room
  <2>4. Room(0)' /\ Room(PtrBytes)'
    BY <1>b, <1>n, <2>2, <2>3 DEF Room
  <2>5. QuotaInv(w)'
    BY <1>g, <2>1, <2>2, <2>4 DEF QuotaInv
  <2> QED BY <1>l, <1>w, <2>1, <2>2, <2>4, <2>5, OneMovesBytes DEF PublishStep
<1>8. CASE WritePayloadAndManifest(w)
  <2>1. /\ pc[w] = "fill" /\ Goto(w, "rename") /\ req' = req
        /\ staging' = (staging \ StagingOf(req[w].txn)) \cup {[rev |-> req[w], form |-> "complete"]}
        /\ UNCHANGED <<revisions, current, ptrTemps, metadata, metaTemps, claims, claimTemps>>
    BY <1>8 DEF WritePayloadAndManifest, Stage
  <2>2. PhysicalBytes + PtrBytes <= MaxRunBytes /\ \E s \in Whole : s.rev.txn = req[w].txn
    BY <1>w, <2>1 DEF QuotaInv, Room
  <2>3. /\ CountInv' /\ PhysicalBytes' <= PhysicalBytes
        /\ \E s \in Whole' : s.rev.txn = req[w].txn
    BY <1>q, <1>w, <2>1, <2>2, StageMoves DEF PublishStep, StagingForm
  <2>4. Room(0)' /\ Room(PtrBytes)'
    BY <1>b, <1>n, <2>2, <2>3 DEF Room
  <2>5. QuotaInv(w)'
    BY <1>g, <2>1, <2>3, <2>4 DEF QuotaInv
  <2> QED BY <1>l, <1>w, <2>1, <2>3, <2>4, <2>5, OneMovesBytes DEF PublishStep
<1>9. CASE RenameToRevision(w)
  <2>1. /\ pc[w] = "rename" /\ Goto(w, "pointer") /\ RenameEffect(w)
        /\ UNCHANGED <<current, ptrTemps, metadata, metaTemps, claims, claimTemps>>
    BY <1>9 DEF RenameToRevision
  <2>2. PhysicalBytes + PtrBytes <= MaxRunBytes /\ \E s \in Whole : s.rev.txn = req[w].txn
    BY <1>w, <2>1 DEF QuotaInv, Room
  <2>3. CountInv' /\ PhysicalBytes' <= PhysicalBytes
    BY <1>q, <1>w, <2>1, <2>2, RenameMoves DEF PublishStep
  <2>4. Room(0)' /\ Room(PtrBytes)'
    BY <1>b, <1>n, <2>2, <2>3 DEF Room
  <2>5. QuotaInv(w)'
    BY <1>g, <2>1, <2>4 DEF QuotaInv
  <2> QED BY <1>l, <1>w, <2>1, <2>3, <2>4, <2>5, OneMovesBytes DEF PublishStep
<1>10. CASE WritePointerTemp(w)
  <2>1. /\ pc[w] = "pointer" /\ Goto(w, "finalCas") /\ req' = req
        /\ ptrTemps' = ptrTemps \cup {req[w].txn}
        /\ UNCHANGED <<staging, revisions, current, metadata, metaTemps, claims, claimTemps>>
    BY <1>10 DEF WritePointerTemp
  <2>2. CountInv' /\ PhysicalBytes' <= PhysicalBytes + PtrBytes
    BY <1>w, <2>1, TempMoves
  <2>3. Room(0)'
    BY <1>b, <1>n, <1>w, <2>1, <2>2 DEF QuotaInv, Room
  <2>4. QuotaInv(w)'
    BY <1>g, <2>1 DEF QuotaInv
  <2> QED BY <1>l, <1>w, <2>1, <2>2, <2>3, <2>4, OneMovesBytes DEF PublishStep
<1>11. CASE FinalCas(w)
  <2>1. pc[w] = "finalCas" /\ UNCHANGED disk /\ req' = req
        /\ (Goto(w, "replace") \/ \E r : Finish(w, r))
    BY <1>11 DEF FinalCas
  <2>2. CASE Goto(w, "replace")
    <3>1. CountInv' /\ Room(0)'
      BY <1>w, <2>1, BytesStay
    <3>2. QuotaInv(w)'
      BY <1>g, <1>w, <2>1, <2>2 DEF QuotaInv, disk
    <3> QED BY <1>l, <1>w, <2>1, <2>2, <3>1, <3>2, OneMovesBytes DEF PublishStep
  <2> QED BY <1>d, <2>1, <2>2 DEF PublishStep
<1>12. CASE ReplaceCurrent(w)
  <2>1. /\ pc[w] = "replace" /\ Goto(w, "reconcile") /\ ReplaceEffect(w)
        /\ UNCHANGED <<staging, revisions, metadata, metaTemps, claims, claimTemps>>
    BY <1>12 DEF ReplaceCurrent
  <2>2. CountInv' /\ PhysicalBytes' <= PhysicalBytes
    BY <1>q, <1>w, <2>1, ReplaceMoves DEF QuotaInv, PublishStep
  <2>3. Room(0)'
    BY <1>b, <1>n, <1>w, <2>2 DEF Room
  <2>4. QuotaInv(w)'
    BY <1>g, <2>1 DEF QuotaInv
  <2> QED BY <1>l, <1>w, <2>1, <2>2, <2>3, <2>4, OneMovesBytes DEF PublishStep
<1>13. CASE Reconcile(w) \/ ReconcileLineage(w) \/ SyncDirectory(w)
  <2>1. /\ pc[w] \in PublishStep /\ UNCHANGED disk
        /\ (\E l \in {"lineage", "sync"} : Goto(w, l)) \/ \E r : Finish(w, r)
    BY <1>13 DEF Reconcile, ReconcileLineage, SyncDirectory, PublishStep
  <2>2. ASSUME NEW l \in {"lineage", "sync"}, Goto(w, l) PROVE BytesInv'
    <3>1. CountInv' /\ Room(0)'
      BY <1>w, <2>1, BytesStay
    <3>2. QuotaInv(w)'
      BY <1>g, <2>2 DEF QuotaInv
    <3> QED BY <1>l, <1>w, <2>1, <2>2, <3>1, <3>2, OneMovesBytes
  <2> QED BY <1>d, <2>1, <2>2
<1>14. CASE StepFails(w)
  <2>1. /\ pc[w] \in PublishStep /\ PartialWrite(w) /\ \E r : Finish(w, r)
        /\ UNCHANGED <<staging, revisions, current, metadata, claims, claimTemps>>
    BY <1>14 DEF StepFails
  <2>2. CASE UNCHANGED <<metaTemps, ptrTemps>>
    BY <1>d, <2>1, <2>2 DEF disk
  <2>3. CASE pc[w] = "meta" /\ metaTemps' = metaTemps + 1 /\ UNCHANGED ptrTemps
    <3>1. CountInv' /\ PhysicalBytes' = PhysicalBytes + MetaBytes
      BY <1>w, <2>1, <2>3, MetadataMoves
    <3>2. Room(0)'
      BY <1>b, <1>w, <2>3, <3>1 DEF QuotaInv, Room
    <3> QED BY <1>e, <2>1, <3>1, <3>2
  <2>4. CASE /\ pc[w] = "pointer" /\ ptrTemps' = ptrTemps \cup {req[w].txn}
             /\ UNCHANGED metaTemps
    <3>1. CountInv' /\ PhysicalBytes' <= PhysicalBytes + PtrBytes
      BY <1>w, <2>1, <2>4, TempMoves
    <3>2. Room(0)'
      BY <1>b, <1>n, <1>w, <2>4, <3>1 DEF QuotaInv, Room
    <3> QED BY <1>e, <2>1, <3>1, <3>2
  <2> QED BY <2>1, <2>2, <2>3, <2>4 DEF PartialWrite
<1>15. CASE MetadataReplaceFails(w)
  <2>1. /\ pc[w] = "metaReplace" /\ \E r : Finish(w, r)
        /\ UNCHANGED <<staging, revisions, current, ptrTemps, claims, claimTemps>>
        /\ \/ metaTemps' = metaTemps - 1 /\ metadata' = TRUE
           \/ UNCHANGED <<metaTemps, metadata>>
    BY <1>15 DEF MetadataReplaceFails
  <2>2. CASE metaTemps' = metaTemps - 1 /\ metadata' = TRUE
    <3>1. metaTemps >= 1
      BY <1>w, <2>1 DEF QuotaInv
    <3>2. CountInv' /\ PhysicalBytes' = PhysicalBytes - LockBytes
      BY <1>w, <2>1, <2>2, <3>1, MetadataMoves
    <3>3. PhysicalBytes' <= PhysicalBytes
      BY <1>b, <3>2
    <3> QED BY <1>e, <2>1, <3>2, <3>3 DEF PublishStep
  <2>3. CASE UNCHANGED <<metaTemps, metadata>>
    BY <1>d, <2>1, <2>3 DEF disk, PublishStep
  <2> QED BY <2>1, <2>2, <2>3
<1>16. CASE RenameFails(w)
  <2>1. /\ pc[w] = "rename" /\ \E r : Finish(w, r)
        /\ UNCHANGED <<current, ptrTemps, metadata, metaTemps, claims, claimTemps>>
        /\ RenameEffect(w) \/ UNCHANGED <<staging, revisions>>
    BY <1>16 DEF RenameFails
  <2>2. CASE RenameEffect(w)
    <3>1. \E s \in Whole : s.rev.txn = req[w].txn
      BY <1>w, <2>1 DEF QuotaInv
    <3>2. CountInv' /\ PhysicalBytes' <= PhysicalBytes
      BY <1>q, <1>w, <2>1, <2>2, <3>1, RenameMoves DEF PublishStep
    <3> QED BY <1>e, <2>1, <3>2 DEF PublishStep
  <2>3. CASE UNCHANGED <<staging, revisions>>
    BY <1>d, <2>1, <2>3 DEF disk, PublishStep
  <2> QED BY <2>1, <2>2, <2>3
<1>17. CASE ReplaceFails(w)
  <2>1. /\ pc[w] = "replace" /\ \E r : Finish(w, r)
        /\ UNCHANGED <<staging, revisions, metadata, metaTemps, claims, claimTemps>>
        /\ ReplaceEffect(w) \/ UNCHANGED <<current, ptrTemps, history>>
    BY <1>17 DEF ReplaceFails
  <2>2. CASE ReplaceEffect(w)
    <3>1. CountInv' /\ PhysicalBytes' <= PhysicalBytes
      BY <1>q, <1>w, <2>1, <2>2, ReplaceMoves DEF QuotaInv, PublishStep
    <3> QED BY <1>e, <2>1, <3>1 DEF PublishStep
  <2>3. CASE UNCHANGED <<current, ptrTemps, history>>
    BY <1>d, <2>1, <2>3 DEF disk, PublishStep
  <2> QED BY <2>1, <2>2, <2>3
<1> QED
  BY <1>1, <1>2, <1>3, <1>4, <1>5, <1>6, <1>7, <1>8, <1>9, <1>10, <1>11, <1>12, <1>13,
     <1>14, <1>15, <1>16, <1>17
  DEF PublishNext

\* A whole claim is written, or replaces its temporary.
LEMMA ClaimTempMoves ==
    ASSUME CountInv, NEW x, claimTemps' \subseteq claimTemps \cup {x},
           UNCHANGED <<staging, revisions, current, ptrTemps, metadata, metaTemps, claims>>
    PROVE  CountInv' /\ PhysicalBytes' <= PhysicalBytes + ClaimBytes
<1>f. IsFiniteSet(WholeTemps) /\ Cardinality(WholeTemps) \in Nat
      /\ IsFiniteSet(claims) /\ Cardinality(claims) \in Nat
  BY FS_CardinalityType DEF CountInv
<1>1. WholeTemps' \subseteq WholeTemps \cup {x}
  BY DEF WholeTemps
<1>2. IsFiniteSet(WholeTemps') /\ Cardinality(WholeTemps') \in Nat
      /\ Cardinality(WholeTemps') <= Cardinality(WholeTemps) + 1
  BY <1>f, <1>1, AddBound
<1>3. ClaimFiles' <= ClaimFiles + 1
  BY <1>2, <1>f DEF ClaimFiles
<1> QED BY <1>f, <1>2, <1>3, ClaimsMove

LEMMA FinalizeMoves ==
    ASSUME CountInv, NEW w \in Writer, FinalizeEffect(w),
           \E t \in WholeTemps : t \in TempOf(req[w]),
           UNCHANGED <<staging, revisions, current, ptrTemps, metadata, metaTemps>>
    PROVE  CountInv' /\ PhysicalBytes' <= PhysicalBytes
<1>f. IsFiniteSet(WholeTemps) /\ Cardinality(WholeTemps) \in Nat
      /\ IsFiniteSet(claims) /\ Cardinality(claims) \in Nat
  BY FS_CardinalityType DEF CountInv
<1>1. PICK y \in WholeTemps : y \in TempOf(req[w])
  OBVIOUS
<1>2. WholeTemps' \subseteq WholeTemps \ {y}
  BY <1>1 DEF FinalizeEffect, WholeTemps
<1>3. IsFiniteSet(WholeTemps') /\ Cardinality(WholeTemps') \in Nat
      /\ Cardinality(WholeTemps') + 1 <= Cardinality(WholeTemps)
  BY <1>f, <1>2, RemoveBound
<1>4. claims' \subseteq claims \cup {req[w]}
  BY DEF FinalizeEffect
<1>5. IsFiniteSet(claims') /\ Cardinality(claims') \in Nat
      /\ Cardinality(claims') <= Cardinality(claims) + 1
  BY <1>4, <1>f, AddBound
<1>6. ClaimFiles' <= ClaimFiles
  BY <1>3, <1>5, <1>f DEF ClaimFiles
<1> QED BY <1>3, <1>5, <1>6, ClaimsMove

LEMMA ClaimBytesSafe ==
    ASSUME TypeInv, SafeInv, BytesInv, NEW w \in Writer, ClaimNext(w)
    PROVE  BytesInv'
<1>w. QuotaInv(w) /\ w \in Thread /\ LockInv /\ CountInv /\ Room(0) /\ TypeOK
  BY DEF BytesInv, SafeInv, Thread, TypeInv
<1>l. pc[w] \in ClaimStep => kernel = w
  BY DEF SafeInv, LockInv, Locked
<1>q. pc[w] \in ClaimStep => req[w] \in Claim
  BY DEF TypeInv, ServingInv
<1>g. \A l : Goto(w, l) => pc'[w] = l
  BY <1>w DEF Goto, TypeInv, TypeOK
<1>b. PhysicalBytes \in Nat /\ ClaimBytes \in Nat /\ MaxRunBytes \in Nat
  BY <1>w, BytesAdd, ConstantsAssumption DEF BytesByKind
<1>n. CountInv' => PhysicalBytes' \in Nat
  BY BytesAddNext DEF BytesByKind
\* The end of an operation, and the last read, need no room.
<1>e. ASSUME pc[w] \in ClaimStep, NEW l \in {"claimVerify", "release"}, Goto(w, l), CountInv',
             PhysicalBytes' <= PhysicalBytes
      PROVE  BytesInv'
  <2>1. QuotaInv(w)'
    BY <1>g, <1>e DEF QuotaInv
  <2>2. Room(0)'
    BY <1>b, <1>e, <1>n, <1>w DEF Room
  <2> QED BY <1>e, <1>l, <1>w, <2>1, <2>2, OneMovesBytes
\* Steps that touch no file.
<1>d. ASSUME pc[w] \in ClaimStep, \E r : Finish(w, r), UNCHANGED disk
      PROVE  BytesInv'
  <2>1. CountInv' /\ PhysicalBytes' = PhysicalBytes
    BY <1>d, <1>w, BytesStay
  <2>2. Goto(w, "release")
    BY <1>d DEF Finish
  <2> QED BY <1>d, <1>e, <1>b, <2>1, <2>2
<1>1. CASE BeginClaim(w)
  <2>1. PICK q : Acquire(w, q, "claimAdmit")
    BY <1>1 DEF BeginClaim
  <2>2. kernel = Null /\ Goto(w, "claimAdmit") /\ UNCHANGED disk
    BY <2>1 DEF Acquire, LockFree
  <2>3. QuotaInv(w)'
    BY <1>g, <2>2 DEF QuotaInv
  <2>4. CountInv' /\ Room(0)'
    BY <1>w, <2>2, BytesStay
  <2> QED BY <1>w, <2>2, <2>3, <2>4, OneMovesBytes
<1>2. CASE ClaimAdmit(w)
  <2>1. pc[w] \in ClaimStep /\ UNCHANGED disk /\ req' = req
    BY <1>2 DEF ClaimAdmit, ClaimStep
  <2>2. CASE ClaimVerdict(req[w]) = Null
    <3>1. Goto(w, IF TempOf(req[w]) = {} THEN "claimTemp" ELSE "claimRecheck")
      BY <1>2, <2>2 DEF ClaimAdmit
    <3>2. /\ TempOf(req[w]) = {} => Room(ClaimBytes)
          /\ TempOf(req[w]) # {} => \E t \in WholeTemps : t \in TempOf(req[w])
      BY <1>q, <1>w, <2>1, <2>2, ClaimHasRoom
    <3>3. /\ CountInv' /\ Room(0)' /\ (Room(ClaimBytes)' <=> Room(ClaimBytes))
          /\ WholeTemps' = WholeTemps
      BY <1>w, <2>1, BytesStay DEF Room
    <3>4. TempOf(req[w])' = TempOf(req[w])
      BY <2>1 DEF TempOf, disk
    <3>5. QuotaInv(w)'
      BY <1>g, <3>1, <3>2, <3>3, <3>4 DEF QuotaInv
    <3> QED BY <1>l, <1>w, <2>1, <3>1, <3>3, <3>5, OneMovesBytes
  <2>3. CASE ClaimVerdict(req[w]) # Null
    <3>1. \E r : Finish(w, r)
      BY <1>2, <2>3 DEF ClaimAdmit
    <3> QED BY <1>d, <2>1, <3>1
  <2> QED BY <2>2, <2>3
<1>3. CASE WriteClaimTemp(w)
  <2> DEFINE x == [claim |-> req[w], whole |-> TRUE]
  <2>1. /\ pc[w] = "claimTemp" /\ Goto(w, "claimRecheck") /\ req' = req
        /\ claimTemps' = claimTemps \cup {x}
        /\ UNCHANGED <<staging, revisions, current, ptrTemps, metadata, metaTemps, claims>>
    BY <1>3 DEF WriteClaimTemp
  <2>2. x \in WholeTemps' /\ x \in TempOf(req[w])'
    BY <2>1 DEF WholeTemps, TempOf
  <2> HIDE DEF x
  <2>3. CountInv' /\ PhysicalBytes' <= PhysicalBytes + ClaimBytes
    BY <1>w, <2>1, ClaimTempMoves
  <2>4. Room(0)'
    BY <1>b, <1>n, <1>w, <2>1, <2>3 DEF QuotaInv, Room
  <2>5. QuotaInv(w)'
    BY <1>g, <2>1, <2>2 DEF QuotaInv
  <2> QED BY <1>l, <1>w, <2>1, <2>3, <2>4, <2>5, OneMovesBytes DEF ClaimStep
<1>4. CASE ClaimRecheck(w)
  <2>1. /\ pc[w] = "claimRecheck" /\ UNCHANGED disk /\ req' = req
        /\ Goto(w, "claimFinalize") \/ \E r : Finish(w, r)
    BY <1>4 DEF ClaimRecheck
  <2>2. CASE Goto(w, "claimFinalize")
    <3>1. CountInv' /\ Room(0)' /\ WholeTemps' = WholeTemps
      BY <1>w, <2>1, BytesStay
    <3>2. TempOf(req[w])' = TempOf(req[w])
      BY <2>1 DEF TempOf, disk
    <3>3. QuotaInv(w)'
      BY <1>g, <1>w, <2>1, <2>2, <3>1, <3>2 DEF QuotaInv
    <3> QED BY <1>l, <1>w, <2>1, <2>2, <3>1, <3>3, OneMovesBytes DEF ClaimStep
  <2> QED BY <1>d, <2>1, <2>2 DEF ClaimStep
<1>5. CASE FinalizeClaim(w)
  <2>1. /\ pc[w] = "claimFinalize" /\ Goto(w, "claimVerify") /\ FinalizeEffect(w)
        /\ UNCHANGED <<staging, revisions, current, ptrTemps, metadata, metaTemps>>
    BY <1>5 DEF FinalizeClaim
  <2>2. CountInv' /\ PhysicalBytes' <= PhysicalBytes
    BY <1>w, <2>1, FinalizeMoves DEF QuotaInv
  <2> QED BY <1>e, <2>1, <2>2 DEF ClaimStep
<1>6. CASE VerifyClaim(w)
  <2>1. pc[w] \in ClaimStep /\ UNCHANGED disk /\ \E r : Finish(w, r)
    BY <1>6 DEF VerifyClaim, ClaimStep
  <2> QED BY <1>d, <2>1
<1>7. CASE ClaimFails(w)
  <2>1. /\ pc[w] \in ClaimStep /\ (\E r : Finish(w, r)) /\ Goto(w, "release")
        /\ UNCHANGED <<staging, revisions, current, ptrTemps, metadata, metaTemps>>
    BY <1>7 DEF ClaimFails, ClaimStep, Finish
  <2>2. \/ UNCHANGED <<claims, claimTemps>>
        \/ pc[w] = "claimFinalize" /\ FinalizeEffect(w)
        \/ UNCHANGED claims /\ \E half \in SUBSET {[claim |-> req[w], whole |-> FALSE]} :
                                  claimTemps' = claimTemps \cup half
    BY <1>7 DEF ClaimFails
  <2>3. CASE UNCHANGED <<claims, claimTemps>>
    BY <1>d, <2>1, <2>3 DEF disk
  <2>4. CASE pc[w] = "claimFinalize" /\ FinalizeEffect(w)
    <3>1. CountInv' /\ PhysicalBytes' <= PhysicalBytes
      BY <1>w, <2>1, <2>4, FinalizeMoves DEF QuotaInv
    <3> QED BY <1>e, <2>1, <3>1
  <2>5. CASE UNCHANGED claims /\ \E half \in SUBSET {[claim |-> req[w], whole |-> FALSE]} :
                                    claimTemps' = claimTemps \cup half
    <3>1. WholeTemps' = WholeTemps
      BY <2>5 DEF WholeTemps
    <3>2. CountInv' /\ ClaimFiles' = ClaimFiles
      BY <1>w, <2>1, <2>5, <3>1 DEF CountInv, ClaimFiles, Whole
    <3>3. PhysicalBytes' <= PhysicalBytes
      BY <1>w, <2>1, <2>5, <3>1, <3>2, ClaimsMove, BytesAdd DEF CountInv, BytesByKind
    <3> QED BY <1>e, <2>1, <3>2, <3>3
  <2> QED BY <2>2, <2>3, <2>4, <2>5
<1> QED BY <1>1, <1>2, <1>3, <1>4, <1>5, <1>6, <1>7 DEF ClaimNext

LEMMA BytesStep ==
    ASSUME TypeInv, SafeInv, BytesInv, [Next]_vars
    PROVE  BytesInv'
<1>k. CountInv /\ Room(0)
  BY DEF BytesInv
<1>1. ASSUME NEW w \in Writer, Release(w) \/ ReleaseFails(w) PROVE BytesInv'
  <2>1. pc[w] = "release" /\ Goto(w, "idle") /\ UNCHANGED disk
    BY <1>1 DEF Release, ReleaseFails, Return
  <2>2. pc'[w] = "idle" /\ kernel = w
    BY <2>1 DEF Goto, TypeInv, TypeOK, Thread, SafeInv, LockInv, Locked
  <2>3. QuotaInv(w)'
    BY <2>2 DEF QuotaInv
  <2>4. CountInv' /\ Room(0)'
    BY <1>k, <2>1, BytesStay
  <2> QED BY <2>1, <2>2, <2>3, <2>4, OneMovesBytes DEF SafeInv
<1>2. ASSUME NEW r \in Reader, ReadNext(r) PROVE BytesInv'
  <2>1. /\ UNCHANGED disk /\ req' = req /\ \E l : pc' = [pc EXCEPT ![r] = l]
    BY <1>2 DEF ReadNext, BeginRead, ReadList, ReadStat, ReadPointer, ReadWalk, ReadAgain,
       ReadReturn, ReadEnds, Goto
  <2>2. ASSUME NEW w \in Writer PROVE QuotaInv(w)'
    <3>1. pc'[w] = pc[w]
      BY <2>1, ConstantsAssumption DEF TypeInv, TypeOK, Thread
    <3> QED BY <2>1, <3>1, QuotaKept DEF BytesInv
  <2> QED BY <1>k, <2>1, <2>2, BytesStay DEF BytesInv
<1>3. ASSUME NEW p \in Process, Crash(p) PROVE BytesInv'
  <2>1. UNCHANGED disk
    BY <1>3 DEF Crash
  <2>2. ASSUME NEW w \in Writer, ProcessOf[w] = p PROVE QuotaInv(w)'
    <3>1. pc'[w] = "idle"
      BY <1>3, <2>2 DEF Crash, Thread
    <3> QED BY <3>1 DEF QuotaInv
  <2>3. ASSUME NEW w \in Writer, ProcessOf[w] # p PROVE QuotaInv(w)'
    <3>1. pc'[w] = pc[w] /\ req'[w] = req[w]
      BY <1>3, <2>3 DEF Crash, Thread
    <3> QED BY <2>1, <3>1, QuotaKept DEF BytesInv
  <2> QED BY <1>k, <2>1, <2>2, <2>3, BytesStay DEF BytesInv
<1>4. CASE UNCHANGED vars
  <2>1. UNCHANGED disk /\ pc' = pc /\ req' = req
    BY <1>4 DEF vars, local
  <2> QED BY <1>k, <2>1, QuotaKept, BytesStay DEF BytesInv
<1> QED BY <1>1, <1>2, <1>3, <1>4, PublishBytes, ClaimBytesSafe DEF Next

\* The files of a run never exceed max_run_bytes, at any step of any operation,
\* whatever crashes and faults left behind.
THEOREM QuotaHolds == Spec => []QuotaRespected
<1>1. Init => BytesInv
  <2> SUFFICES ASSUME Init PROVE BytesInv
    OBVIOUS
  <2>1. CountInv
    BY FS_EmptySet DEF Init, CountInv, Whole, WholeTemps
  <2>2. PhysicalBytes = 0
    BY FS_EmptySet, ConstantsAssumption DEF Init, PhysicalBytes
  <2>3. \A w \in Writer : QuotaInv(w)
    BY DEF Init, QuotaInv, Thread
  <2> QED BY <2>1, <2>2, <2>3, ConstantsAssumption DEF BytesInv, Room
<1>2. BytesInv => QuotaRespected
  <2> SUFFICES ASSUME BytesInv PROVE QuotaRespected
    OBVIOUS
  <2>1. PhysicalBytes \in Nat
    BY BytesAdd DEF BytesInv, BytesByKind
  <2> QED BY <2>1 DEF BytesInv, Room, QuotaRespected
<1> QED BY <1>1, <1>2, BytesStep, Invariance, PTL DEF Spec
=============================================================================

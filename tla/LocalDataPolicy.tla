--------------------------- MODULE LocalDataPolicy ---------------------------
(***************************************************************************)
(* The local data policy (local_data_policy.py): how an artifact is        *)
(* classified, how long it is kept, and which disposition a lifecycle       *)
(* subject gets.  Everything here is a pure function of the subject, the    *)
(* clock and the evidence; storage/lifecycle_hooks.py and                   *)
(* local_data_cleanup.py call it before anything is persisted, moved or     *)
(* deleted.                                                                 *)
(*                                                                          *)
(* Identifiers, digests and logical names are abstracted to whether they    *)
(* are present; their spelling is checked by the code with patterns that no *)
(* decision depends on.                                                     *)
(***************************************************************************)
EXTENDS Integers, FiniteSets

None == "none"

\* An absent time: times are days, counted from zero.
NoTime == -1

(***************************************************************************)
(* Classification, least restrictive first, and its rank.                  *)
(***************************************************************************)
Classification == {"public", "internal", "sensitive", "restricted"}

Rank == [c \in Classification |->
           IF c = "public" THEN 0
           ELSE IF c = "internal" THEN 1
           ELSE IF c = "sensitive" THEN 2 ELSE 3]

\* The classification of the highest rank in a non-empty set.
Highest(classes) == CHOOSE c \in classes : \A d \in classes : Rank[d] <= Rank[c]

ClassificationEvidence ==
    [sources : SUBSET Classification,
     explicit : Classification \cup {None},
     trusted : BOOLEAN,
     checked : BOOLEAN,
     secret : BOOLEAN]

\* The evidence of an artifact nobody said anything about.
NoEvidence == [sources |-> {}, explicit |-> None, trusted |-> FALSE,
               checked |-> FALSE, secret |-> FALSE]

(***************************************************************************)
(* _classification_outcome: a detected secret wins over everything, an      *)
(* explicit request needs a trusted source, a clean secret check when it    *)
(* is "public", and may not go below the sources; without a request the     *)
(* sources are inherited, and never below "internal".  "denied" stands for  *)
(* the three ValueErrors, which classify_artifact reports as                *)
(* CLASSIFICATION_DOWNGRADE_DENIED.                                         *)
(***************************************************************************)
ClassificationOutcome(e) ==
    IF e.secret THEN [class |-> "restricted", from |-> "credential_detection"]
    ELSE IF e.explicit = None
    THEN [class |-> Highest({"internal"} \cup e.sources),
          from |-> IF e.sources = {} THEN "default_internal" ELSE "source_inheritance"]
    ELSE IF \/ ~e.trusted
            \/ e.explicit = "public" /\ ~e.checked
            \/ Rank[e.explicit] < Rank[Highest({"public"} \cup e.sources)]
    THEN [class |-> "denied", from |-> "denied"]
    ELSE [class |-> e.explicit, from |-> "explicit_trusted"]

\* classify_artifact: an unknown logical name (kind None) is refused first.
ClassifyArtifact(kind, e) ==
    IF kind = None THEN [class |-> "denied", from |-> "unknown_artifact_kind"]
    ELSE ClassificationOutcome(e)

(***************************************************************************)
(* The approved retention matrix.  A policy with any other profile is       *)
(* refused when it is loaded, so the policy in force is this one.           *)
(***************************************************************************)
RetentionProfile ==
    [c \in Classification |->
       IF c = "public" THEN [days |-> 365, encryption |-> "deferred_no_claim"]
       ELSE IF c = "internal" THEN [days |-> 90, encryption |-> "deferred_no_claim"]
       ELSE IF c = "sensitive"
            THEN [days |-> 30, encryption |-> "required_before_persistence"]
            ELSE [days |-> 0, encryption |-> "persistence_forbidden"]]

CacheMaxDays == 7
TempMaxDays == 1
LifecycleAuditDays == 365
DispositionReceiptDays == 365
QuarantineReviewDays == 30

(***************************************************************************)
(* Subjects.                                                               *)
(***************************************************************************)
RunKinds == {"run_payload", "run_audit", "run_report"}

SubjectKind ==
    RunKinds \cup {"attempt_context", "application_cache", "application_temp",
                   "lifecycle_audit", "quarantine_payload", "disposition_receipt"}

SubjectState ==
    {"active", "approval_pending", "verified_terminal", "incomplete", "corrupt",
     "orphan_transaction", "quarantined", "unsupported_future_version",
     "legacy_unverified"}

AnchorKind ==
    {"not_applicable", "verified_terminal_published_at", "application_created_at",
     "decision_committed_at", "quarantine_entered_at"}

EncryptionState == {"unknown_or_unencrypted", "encrypted_verified", "requirement_mismatch"}

VerificationBasis == {"not_applicable", "future_verified_revision_v1", "legacy_v1_unverified"}

\* The five EXCLUDED_* provenances are told apart by nothing: one stands for all.
Ownership == {"run_contract_v1", "typed_application_metadata_v1",
              "future_verified_manifest_v1", "unverified", "excluded"}

EvidenceState == {"verified", "unverified", "mismatch"}

\* LifecycleSubject; a time of NoTime stands for an absent retention start.
LifecycleSubject(times) ==
    [kind : SubjectKind, class : Classification, from : STRING,
     evidence : ClassificationEvidence, encryption : EncryptionState,
     state : SubjectState, anchor : AnchorKind, started : times,
     identified : BOOLEAN, hashed : BOOLEAN, basis : VerificationBasis,
     owner : Ownership, integrity : EvidenceState, lineage : EvidenceState,
     hold : BOOLEAN]

\* The anchor a kind requires; a run subject's anchor depends on its state.
RequiredAnchor(kind) ==
    IF kind = "attempt_context" THEN "not_applicable"
    ELSE IF kind \in {"application_cache", "application_temp"} THEN "application_created_at"
    ELSE IF kind \in {"lifecycle_audit", "disposition_receipt"} THEN "decision_committed_at"
    ELSE "quarantine_entered_at"

\* validate_anchor_contract, the part about subjects that are not run data.
OtherSubjectWellFormed(s) ==
    /\ s.anchor = RequiredAnchor(s.kind)
    /\ (s.started = NoTime) <=> (s.kind = "attempt_context")
    /\ s.basis = "not_applicable"
    /\ s.kind = "quarantine_payload" => s.hashed

\* validate_anchor_contract, the part about run data.
RunSubjectWellFormed(s) ==
    /\ s.state = "verified_terminal" =>
         /\ s.anchor = "verified_terminal_published_at"
         /\ s.started # NoTime
         /\ s.basis = "future_verified_revision_v1"
         /\ s.identified /\ s.hashed
    /\ s.state = "legacy_unverified" =>
         /\ s.basis = "legacy_v1_unverified"
         /\ s.encryption = "unknown_or_unencrypted"
         /\ s.owner = "run_contract_v1"
    /\ s.state \notin {"verified_terminal", "legacy_unverified"} =>
         /\ s.basis = "not_applicable"
         /\ s.owner # "future_verified_manifest_v1"
    /\ s.anchor \in {"not_applicable", "verified_terminal_published_at"}

SubjectWellFormed(s) ==
    /\ ClassificationOutcome(s.evidence) = [class |-> s.class, from |-> s.from]
    /\ s.kind \in {"lifecycle_audit", "disposition_receipt"} => s.class = "internal"
    /\ (s.state = "quarantined") <=> (s.kind = "quarantine_payload")
    /\ IF s.kind \in RunKinds THEN RunSubjectWellFormed(s) ELSE OtherSubjectWellFormed(s)

(***************************************************************************)
(* Retention, protection, quarantine and the disposition.                  *)
(***************************************************************************)
Least(a, b) == IF a < b THEN a ELSE b

RetentionDays(s) ==
    LET days == RetentionProfile[s.class].days
    IN  IF s.kind = "attempt_context" THEN 0
        ELSE IF s.kind = "application_cache" THEN Least(days, CacheMaxDays)
        ELSE IF s.kind = "application_temp" THEN Least(days, TempMaxDays)
        ELSE IF s.kind = "lifecycle_audit" THEN LifecycleAuditDays
        ELSE IF s.kind = "disposition_receipt" THEN DispositionReceiptDays
        ELSE IF s.kind = "quarantine_payload" THEN QuarantineReviewDays
        ELSE days

\* Whose word the ownership of a subject may rest on.
AcceptedOwners(s) ==
    IF s.kind \notin RunKinds THEN {"typed_application_metadata_v1"}
    ELSE IF s.state = "verified_terminal" THEN {"future_verified_manifest_v1"}
    ELSE {"run_contract_v1", "future_verified_manifest_v1"}

ProtectionReasons(s) ==
    {r \in {"active_run", "approval_pending", "legal_hold", "ownership_unverified",
            "integrity_unverified", "lineage_unverified", "unsupported_future_version",
            "legacy_unverified"} :
       \/ r = "active_run" /\ s.state = "active"
       \/ r = "approval_pending" /\ s.state = "approval_pending"
       \/ r = "legal_hold" /\ s.hold
       \/ r = "ownership_unverified" /\ s.owner \notin AcceptedOwners(s)
       \/ r = "integrity_unverified" /\ s.integrity = "unverified"
       \/ r = "lineage_unverified" /\ s.lineage = "unverified"
       \/ r = "unsupported_future_version" /\ s.state = "unsupported_future_version"
       \/ r = "legacy_unverified" /\ s.state = "legacy_unverified"}

QuarantineReason ==
    {"incomplete", "corrupt", "orphan_transaction", "integrity_mismatch",
     "lineage_mismatch", "path_confinement_failure", "encryption_requirement_mismatch"}

StateQuarantineReasons(s) ==
    {r \in QuarantineReason :
       \/ r \in {"incomplete", "corrupt", "orphan_transaction"} /\ s.state = r
       \/ r = "integrity_mismatch" /\ s.integrity = "mismatch"
       \/ r = "lineage_mismatch" /\ s.lineage = "mismatch"
       \/ r = "encryption_requirement_mismatch" /\ s.encryption = "requirement_mismatch"}

\* What may be deleted at all: finished run data, or what sits in quarantine.
Finished(s) ==
    \/ s.state = "verified_terminal"
    \/ s.kind = "quarantine_payload" /\ s.state = "quarantined"

DeleteEvidenceComplete(s) ==
    /\ s.hashed
    /\ s.integrity = "verified" /\ s.lineage = "verified"
    /\ IF s.kind \in RunKinds
       THEN /\ s.state = "verified_terminal"
            /\ s.owner = "future_verified_manifest_v1"
            /\ s.basis = "future_verified_revision_v1"
            /\ s.identified
       ELSE s.owner = "typed_application_metadata_v1" /\ Finished(s)

ManualReview(s, protections) ==
    \/ s.state \in {"unsupported_future_version", "legacy_unverified"}
    \/ "ownership_unverified" \in protections

\* The failure code of a protected subject, the strongest reason first.
ProtectedCode(protections) ==
    IF "ownership_unverified" \in protections THEN "ownership_unverified"
    ELSE IF "integrity_unverified" \in protections THEN "integrity_unverified"
    ELSE IF "lineage_unverified" \in protections THEN "lineage_unverified"
    ELSE "subject_protected"

Disposition == {"deny_persistence", "retain", "protected", "quarantine_candidate",
                "delete_candidate"}

(***************************************************************************)
(* _derive_disposition, in the order of its early returns.                 *)
(***************************************************************************)
DeriveDisposition(s, capability, protections, quarantine, expires, now) ==
    LET Answer(d, code) == [disposition |-> d, code |-> code,
                            review |-> ManualReview(s, protections)]
    IN  IF s.kind = "attempt_context" \/ s.class = "restricted"
        THEN Answer("deny_persistence", "persistence_forbidden")
        ELSE IF /\ RetentionProfile[s.class].encryption = "required_before_persistence"
                /\ s.encryption # "requirement_mismatch"
                /\ capability # "available" \/ s.encryption # "encrypted_verified"
        THEN Answer("deny_persistence", "encryption_required")
        ELSE IF protections # {}
        THEN Answer("protected", ProtectedCode(protections))
        ELSE IF s.encryption = "requirement_mismatch" \/ quarantine # {}
        THEN Answer("quarantine_candidate", None)
        ELSE IF /\ Finished(s)
                /\ expires # NoTime
                /\ now >= expires
                /\ DeleteEvidenceComplete(s)
        THEN Answer("delete_candidate", None)
        ELSE Answer("retain", None)

(***************************************************************************)
(* evaluate_local_data: a malformed subject or a clock behind the start of  *)
(* the retention is refused; otherwise the audit record states the subject, *)
(* the reasons and the disposition derived from them.                       *)
(***************************************************************************)
Expires(s) == IF s.started = NoTime THEN NoTime ELSE s.started + RetentionDays(s)

AuditOf(s, capability, extra, now) ==
    LET protections == ProtectionReasons(s)
        quarantine == StateQuarantineReasons(s) \cup extra
    IN  [subject |-> s, capability |-> capability, protections |-> protections,
         quarantine |-> quarantine, expires |-> Expires(s), at |-> now,
         answer |-> DeriveDisposition(s, capability, protections, quarantine,
                                      Expires(s), now)]

(***************************************************************************)
(* validate_audit_consistency, which the audit model runs on every record,  *)
(* whoever built it.  AuditTimes checks the clock, AuditReasons rebuilds    *)
(* the subject with the hold read back from the reasons and recomputes the  *)
(* reasons and the disposition, and AuditClaims re-checks each disposition  *)
(* against the evidence it claims, without the derivation.                  *)
(***************************************************************************)
AuditTimes(a) ==
    /\ (a.subject.started = NoTime) <=> (a.expires = NoTime)
    /\ a.subject.started # NoTime =>
         a.expires >= a.subject.started /\ a.at >= a.subject.started

AuditReasons(a) ==
    LET s == [a.subject EXCEPT !.hold = "legal_hold" \in a.protections]
    IN  /\ SubjectWellFormed(s)
        /\ a.protections = ProtectionReasons(s)
        /\ StateQuarantineReasons(s) \subseteq a.quarantine
        /\ a.expires = Expires(s)
        /\ a.answer = DeriveDisposition(s, a.capability, a.protections, a.quarantine,
                                        a.expires, a.at)

DeleteClaims(a) ==
    LET s == a.subject
    IN  /\ a.protections = {} /\ a.quarantine = {} /\ a.answer.code = None
        /\ a.expires # NoTime
        /\ a.expires # NoTime => a.at >= a.expires
        /\ s.hashed
        /\ IF s.state = "verified_terminal"
           THEN s.kind \in RunKinds =>
                  s.basis = "future_verified_revision_v1" /\ s.identified
           ELSE s.kind = "quarantine_payload" /\ s.state = "quarantined"
        /\ s.owner = IF s.kind \in RunKinds THEN "future_verified_manifest_v1"
                     ELSE "typed_application_metadata_v1"
        /\ s.integrity = "verified" /\ s.lineage = "verified"

DenyClaims(a) ==
    LET s == a.subject
    IN  /\ a.answer.code \in {"encryption_required", "persistence_forbidden"}
        /\ a.answer.code = "persistence_forbidden" =>
             s.class = "restricted" \/ s.kind = "attempt_context"
        /\ a.answer.code = "encryption_required" =>
             /\ s.class = "sensitive"
             /\ ~(a.capability = "available" /\ s.encryption = "encrypted_verified")

AuditClaims(a) ==
    LET d == a.answer.disposition
        s == a.subject
    IN  /\ d = "delete_candidate" => DeleteClaims(a)
        /\ d = "protected" =>
             /\ a.protections # {} /\ a.answer.code # None
             /\ ManualReview(s, a.protections) => a.answer.review
        /\ d = "quarantine_candidate" =>
             a.quarantine # {} /\ a.protections = {} /\ a.answer.code = None
        /\ d = "deny_persistence" => DenyClaims(a)
        /\ d = "retain" =>
             a.protections = {} /\ a.quarantine = {} /\ a.answer.code = None
        /\ a.answer.review => d \in {"deny_persistence", "protected"}
        /\ (/\ s.class = "sensitive"
            /\ d \notin {"deny_persistence", "protected", "quarantine_candidate"})
             => a.capability = "available" /\ s.encryption = "encrypted_verified"

AuditConsistent(a) == AuditTimes(a) /\ AuditReasons(a) /\ AuditClaims(a)

EvaluateLocalData(s, capability, extra, now) ==
    LET failed(code) == [status |-> "failed", code |-> code]
        audit == AuditOf(s, capability, extra, now)
    IN  IF ~SubjectWellFormed(s) THEN failed("invalid_policy")
        ELSE IF s.started # NoTime /\ now < s.started THEN failed("clock_rollback")
        ELSE IF ~AuditConsistent(audit) THEN failed("invalid_policy")
        ELSE [status |-> "evaluated", audit |-> audit]

(***************************************************************************)
(* storage/lifecycle_hooks.py: the subject a terminal publication evaluates *)
(* for each payload of its inventory, and the one a reader evaluates for a  *)
(* payload it cannot trust.                                                 *)
(***************************************************************************)
TerminalSubject(kind, evidence, published) ==
    LET outcome == ClassificationOutcome(evidence)
    IN  [kind |-> kind, class |-> outcome.class, from |-> outcome.from,
         evidence |-> evidence, encryption |-> "unknown_or_unencrypted",
         state |-> "verified_terminal", anchor |-> "verified_terminal_published_at",
         started |-> published, identified |-> TRUE, hashed |-> TRUE,
         basis |-> "future_verified_revision_v1",
         owner |-> "future_verified_manifest_v1",
         integrity |-> "verified", lineage |-> "verified", hold |-> FALSE]

ReaderSubject(kind, state) ==
    LET future == state = "unsupported_future_version"
        outcome == ClassificationOutcome([NoEvidence EXCEPT !.checked = TRUE])
    IN  [kind |-> kind, class |-> outcome.class, from |-> outcome.from,
         evidence |-> [NoEvidence EXCEPT !.checked = TRUE],
         encryption |-> "unknown_or_unencrypted", state |-> state,
         anchor |-> "not_applicable", started |-> NoTime,
         identified |-> FALSE, hashed |-> TRUE, basis |-> "not_applicable",
         owner |-> IF future THEN "unverified" ELSE "run_contract_v1",
         integrity |-> IF future THEN "unverified" ELSE "mismatch",
         lineage |-> IF future THEN "unverified" ELSE "verified", hold |-> FALSE]

\* evaluate_reader_candidate adds the reason the state stands for.
ReaderReason(state) ==
    IF state = "unsupported_future_version" THEN "lineage_mismatch" ELSE state
==============================================================================

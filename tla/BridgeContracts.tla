-------------------------- MODULE BridgeContracts --------------------------
(***************************************************************************)
(* The data contracts of the bounded Codex bridge: the five roles and      *)
(* their serial order, the artifacts a run accumulates, the execution      *)
(* audit and the states in which it is well formed, and what makes one     *)
(* published revision a legal successor of another.  Hashes are replaced   *)
(* by the values they bind; two artifacts are equal when their bytes are.  *)
(***************************************************************************)
EXTENDS Integers, FiniteSets, Sequences

CONSTANT Independent        \* number of independent roles (three in the code)

ASSUME IndependentAssumption == Independent \in Nat \ {0}

\* BRIDGE_ROLE_ORDER: the independent roles, the adjudicator, the report writer.
Roles == 1..(Independent + 2)
Adjudicator == Independent + 1
ReportWriter == Independent + 2
\* Every earlier role of the serial order.
Prior(role) == 1..(role - 1)

\* The results a role's request is built from.
ParentsOf(role) ==
  IF role = Adjudicator THEN 1..Independent
  ELSE IF role = ReportWriter THEN {Adjudicator} ELSE {}

NoArtifact == [kind |-> "none"]
None == 0                   \* no identity, no identifier, no revision

EffectStates ==
  {"not_launched", "succeeded", "failed", "timed_out", "cancelled",
   "cancel_unconfirmed", "effect_unknown"}

\* The states that say that the turn was launched.
DefinitelyLaunched ==
  {"succeeded", "failed", "timed_out", "cancelled", "cancel_unconfirmed"}

OpenStatuses == {"approval_required", "in_progress"}
TerminalStatuses ==
  {"succeeded", "failed", "timed_out", "cancelled", "cancel_unconfirmed", "effect_unknown"}

(***************************************************************************)
(* What a transport answers: the effect, the identities it observed (zero  *)
(* when it observed none) and whether it saw the turn launched.            *)
(***************************************************************************)
Outcome(effect, thread, turn, launched) ==
  [effect |-> effect, thread |-> thread, turn |-> turn, launched |-> launched]

\* audit_state_is_closed: the identities and times each effect must carry.
AuditStateIsClosed(o) ==
  /\ o.turn # None => o.thread # None
  /\ (o.thread # None /\ o.turn = None) => (o.effect = "effect_unknown" /\ ~o.launched)
  /\ o.effect \in DefinitelyLaunched => (o.launched /\ o.thread # None /\ o.turn # None)
  /\ o.effect = "not_launched" => (~o.launched /\ o.thread = None)

\* _validate_transport: a success that breaks the policy or whose output is not
\* the role's is a failure with the same identities.
ValidateTransport(o, refused) ==
  IF o.effect = "succeeded" /\ refused THEN [o EXCEPT !.effect = "failed"] ELSE o

\* What the transports of the repository may answer over a set of identities.
TransportAnswers(Identities) ==
  {Outcome("not_launched", None, None, FALSE)}
  \cup {Outcome("effect_unknown", None, None, l) : l \in BOOLEAN}
  \cup {Outcome("effect_unknown", t, None, FALSE) : t \in Identities}
  \cup {Outcome(e, t, t, TRUE) :
          e \in {"succeeded", "failed", "cancel_unconfirmed", "effect_unknown"}, t \in Identities}

(***************************************************************************)
(* The artifacts.  An admission is told apart by its instant, a            *)
(* confirmation by its two identifiers and its instant, an audit by the    *)
(* execution it records.                                                   *)
(***************************************************************************)
\* build_role_request: the request binds the results of the role's parents.
RoleRequest(role, resultOf(_)) ==
  [kind |-> "request", role |-> role, parents |-> [p \in ParentsOf(role) |-> resultOf(p)]]
RoleConfirmation(role, cid, key, at) ==
  [kind |-> "confirmation", role |-> role, cid |-> cid, key |-> key, at |-> at]
Admission(role, at) == [kind |-> "admission", role |-> role, at |-> at]
RoleResult(role, by) == [kind |-> "result", role |-> role, by |-> by]
ExecutionAudit(role, o, reason, by) ==
  [kind |-> "audit", role |-> role, outcome |-> o, reason |-> reason, by |-> by]

NoArtifacts == [request |-> NoArtifact, confirmation |-> NoArtifact, admission |-> NoArtifact,
                result |-> NoArtifact, audit |-> NoArtifact]
Has(art, role, kind) == art[role][kind] # NoArtifact
Kinds == {"request", "confirmation", "admission", "result", "audit"}

\* _append_artifacts: an artifact is added, never replaced.
Appends(art, role, kind) == ~Has(art, role, kind)
Append1(art, role, kind, a) == [art EXCEPT ![role][kind] = a]

Succeeded(art, role) == Has(art, role, "audit") /\ art[role].audit.outcome.effect = "succeeded"

(***************************************************************************)
(* _verify_execution_progression: the artifacts of one revision describe a *)
(* serial execution.                                                       *)
(***************************************************************************)
\* envelope_correlates: a request binds one result of each parent, no other.
EnvelopeCorrelates(request) ==
  /\ DOMAIN request.parents = ParentsOf(request.role)
  /\ \A p \in ParentsOf(request.role) : request.parents[p].role = p

\* No artifact of a role without those it rests on, each bound to its role.
RoleIsComplete(art, role) ==
  /\ \A k \in Kinds : Has(art, role, k) => Has(art, role, "request") /\ art[role][k].role = role
  /\ Has(art, role, "request") => EnvelopeCorrelates(art[role].request)
  /\ Has(art, role, "audit") => AuditStateIsClosed(art[role].audit.outcome)
  /\ Has(art, role, "admission") => Has(art, role, "confirmation")
  /\ Has(art, role, "result") => Has(art, role, "admission") /\ Has(art, role, "audit")
  /\ Has(art, role, "audit") => Has(art, role, "admission")
  /\ Has(art, role, "audit") => (Succeeded(art, role) <=> Has(art, role, "result"))

OpenAdmissions(art) == {r \in Roles : Has(art, r, "admission") /\ ~Has(art, r, "audit")}

\* Completed and admitted roles form a prefix of the order; one admission is open.
SerialOrder(art) ==
  /\ \A r \in Roles : Succeeded(art, r) \/ Has(art, r, "admission")
                        => \A p \in Prior(r) : Succeeded(art, p)
  /\ Cardinality(OpenAdmissions(art)) <= 1

\* Dependent requests and the status agree with the completed roles.
StatusAgrees(art, status) ==
  /\ OpenAdmissions(art) # {} => status \in OpenStatuses
  /\ Has(art, Adjudicator, "request") <=> \A r \in 1..Independent : Succeeded(art, r)
  /\ Has(art, ReportWriter, "request") <=> Succeeded(art, Adjudicator)
  /\ status = "succeeded" <=> \A r \in Roles : Succeeded(art, r)

ExecutionProgression(rev) ==
  /\ \A r \in Roles : RoleIsComplete(rev.art, r)
  /\ SerialOrder(rev.art)
  /\ StatusAgrees(rev.art, rev.status)

\* _verify_successor_semantics: an open parent, and an inventory that only grows.
SuccessorSemantics(parent, child) ==
  /\ parent.status \in OpenStatuses
  /\ \A r \in Roles, k \in Kinds : Has(parent.art, r, k) => child.art[r][k] = parent.art[r][k]

\* The status a failed execution gives its run (_publish_failure).
FailureStatus(effect) ==
  IF effect \in {"timed_out", "cancelled", "cancel_unconfirmed", "effect_unknown"}
  THEN effect ELSE "failed"

\* The revision prepare_run publishes: the requests of the independent roles.
FirstArtifacts ==
  LET none(p) == NoArtifact
  IN [r \in Roles |-> IF r <= Independent
                      THEN [NoArtifacts EXCEPT !.request = RoleRequest(r, none)]
                      ELSE NoArtifacts]

\* _dependent_request: the role whose request a completed role makes possible.
Dependent(role) ==
  IF role = Independent THEN Adjudicator
  ELSE IF role = Adjudicator THEN ReportWriter ELSE None

\* The artifacts and the status after a role has succeeded.
AfterSuccess(art, role, result, audit) ==
  LET done == Append1(Append1(art, role, "result", result), role, "audit", audit)
      resultOf(p) == done[p].result
  IN IF Dependent(role) = None THEN done
     ELSE Append1(done, Dependent(role), "request", RoleRequest(Dependent(role), resultOf))
StatusAfterSuccess(role) ==
  IF Dependent(role) # None THEN "approval_required"
  ELSE IF role = ReportWriter THEN "succeeded" ELSE "in_progress"
=============================================================================

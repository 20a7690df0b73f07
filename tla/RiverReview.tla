---------------------------- MODULE RiverReview ----------------------------
(***************************************************************************)
(* The bounded river review workflow: one directory whose files are        *)
(* written once (plan, confirmation, linkage, one receipt per role) ties a *)
(* terminal source run to a bridge run, and a role of the bridge is        *)
(* executed through the workflow only after its request was shown, every   *)
(* field of it confirmed, and the receipt of that confirmation stored.     *)
(* Clients are processes that interleave at every file, may crash at any   *)
(* of them, and share the bridge with its own commands, which know nothing *)
(* of the workflow.  A file is created empty and written after.  The       *)
(* publications of the bridge and of the source run are single steps here: *)
(* CodexBridge and TerminalStore have their detail.  Hashes are replaced   *)
(* by the values they bind.                                                *)
(***************************************************************************)
EXTENDS BridgeContracts

CONSTANTS Clients,
          ConfirmationIds,  \* identifiers a client may confirm with
          RequestLife,      \* MAX_ASSIGNMENT_LIFETIME_SECONDS
          ConfirmLife,      \* MAX_CONFIRMATION_LIFETIME_SECONDS
          Reviews           \* where the workflow stands at the start, and bounds

VARIABLES plan,             \* plan.json and preparation.json, which appear together
          agreed,           \* confirmation.json
          source,           \* the source run: absent, reserved, or its terminal product
          linkage,          \* linkage.json
          receipt,          \* role-confirmation-binding-*.json, one per role
          bridge,           \* the bridge run: its directory, its revisions, the expiry of its requests
          now,              \* the clock
          reviewer,         \* each client: its step, its call and what it has read
          launched,         \* the roles that were launched through the workflow
          local,            \* auth_mode is local_only
          left              \* calls, faults, ticks and direct bridge commands left

vars == <<plan, agreed, source, linkage, receipt, bridge, now, reviewer, launched, local, left>>
directory == <<plan, agreed, linkage, receipt>>

NoFile == [kind |-> "none"]
TornFile == [kind |-> "torn"]
File(body) == [kind |-> "file", body |-> body]
Exists(f) == f # NoFile
Written(f) == f.kind = "file"

Least(S) == CHOOSE x \in S : \A y \in S : x <= y

----------------------------------------------------------------------------
(* The bridge run.                                                         *)

NoBridge == [made |-> FALSE, revs |-> <<>>, expires |-> [r \in Roles |-> 0]]
Current == bridge.revs[Len(bridge.revs)]

\* A revision is published; the requests it adds expire a lifetime from now.
Publish(status, art) ==
  [bridge EXCEPT
     !.revs = Append(@, [status |-> status, art |-> art]),
     !.expires = [r \in Roles |->
        IF Has(art, r, "request") /\ (bridge.revs = <<>> \/ ~Has(Current.art, r, "request"))
        THEN now + RequestLife ELSE @[r]]]

\* A confirmation expires with its own lifetime or with its request.
ConfirmationExpires(conf) ==
  LET own == conf.at + ConfirmLife
  IN IF own < bridge.expires[conf.role] THEN own ELSE bridge.expires[conf.role]

\* replay_bridge, the requests: a role's artifacts rest on its request, which
\* binds the results of its parents.
ReplaysRequests(art) ==
  \A r \in Roles : (\E k \in Kinds : Has(art, r, k)) =>
    /\ Has(art, r, "request")
    /\ \A p \in ParentsOf(r) : Has(art, p, "result") /\ art[r].request.parents[p] = art[p].result

\* Its confirmations and admissions: no execution without confirmation, no result
\* without admission, one open admission, in the serial order.
ReplaysAdmissions(art) ==
  /\ \A r \in Roles :
       /\ Has(art, r, "confirmation") => art[r].confirmation.role = r
       /\ ~Has(art, r, "confirmation") => ~Has(art, r, "admission")
       /\ ~Has(art, r, "admission") => ~Has(art, r, "result") /\ ~Has(art, r, "audit")
       /\ Has(art, r, "admission") => \A p \in Prior(r) : Succeeded(art, p)
  /\ Cardinality(OpenAdmissions(art)) <= 1

\* Its audits: a success has its result, made by the same execution, a failure
\* has none, and there is one failure at most.
Failures(art) == {r \in Roles : Has(art, r, "audit") /\ ~Succeeded(art, r)}
ReplaysAudits(art) ==
  /\ \A r \in Roles :
       /\ Has(art, r, "audit") => AuditStateIsClosed(art[r].audit.outcome)
       /\ Has(art, r, "result") <=> Succeeded(art, r)
       /\ Succeeded(art, r) => art[r].result.by = art[r].audit.by
  /\ Cardinality(Failures(art)) <= 1

\* Its end: the dependent requests and the status agree with the executions.
ReplaysStatus(rev) ==
  LET done == {r \in Roles : Succeeded(rev.art, r)} IN
  /\ Has(rev.art, Adjudicator, "request") <=> 1..Independent \subseteq done
  /\ Has(rev.art, ReportWriter, "request") <=> Adjudicator \in done
  /\ rev.status = "succeeded" <=> done = Roles
  /\ \A r \in Failures(rev.art) : rev.status = FailureStatus(rev.art[r].audit.outcome.effect)
  /\ Failures(rev.art) = {} => rev.status \in OpenStatuses \cup {"succeeded"}

Replays(rev) ==
  ReplaysRequests(rev.art) /\ ReplaysAdmissions(rev.art) /\ ReplaysAudits(rev.art) /\ ReplaysStatus(rev)

\* BridgeReplayResult.
Completed(rev) == {r \in Roles : Succeeded(rev.art, r)}
Pending(rev) == Roles \ Completed(rev)
ReconciliationRequired(rev) ==
  \/ OpenAdmissions(rev.art) # {}
  \/ \E r \in Failures(rev.art) :
       rev.art[r].audit.outcome.effect \in {"cancel_unconfirmed", "effect_unknown"}

----------------------------------------------------------------------------
(* What is read and what it means.                                         *)

\* _verify_confirmation_binding and, in _verified_source_read,
\* read_verified_p3_terminal_source: the source run has completed with its own
\* artifacts, under the confirmation of this workflow.
SourceVerifies == source.kind = "product" /\ source.status = "completed" /\ source.by = agreed.body.id

\* _read_linkage, _verify_linkage_plan_binding and _verify_linkage_storage_binding:
\* the linkage binds this confirmation, this source and one revision of the
\* lineage that ends at n.
LinkageVerifies(n) == linkage.body.confirmation = agreed.body.id /\ linkage.body.rev \in 1..n

\* _verify_role_confirmation_binding: the receipt binds the linkage, the request
\* and confirmation of its role in revision n, and two revisions of that
\* lineage, the second the first or its successor (_bridge_lineage_snapshot).
ReceiptVerifies(r, n) ==
  LET b == receipt[r].body
      art == bridge.revs[n].art
  IN /\ Has(art, r, "request") /\ Has(art, r, "confirmation")
     /\ b.linkage = linkage.body /\ b.confirmation = art[r].confirmation
     /\ b.confirmed <= n /\ b.confirmed \in {b.preview, b.preview + 1}
     /\ Has(bridge.revs[b.confirmed].art, r, "confirmation")

\* _verified_role_confirmation_bindings: every receipt verifies, and every role
\* that was admitted or completed has one; otherwise the error.
Unverified(n) == {r \in Roles : Exists(receipt[r]) /\ ~(Written(receipt[r]) /\ ReceiptVerifies(r, n))}
Bound == {r \in Roles : Exists(receipt[r])}
RequiringReceipt(rev) == {r \in Roles : Has(rev.art, r, "admission")} \cup Completed(rev)
ReceiptError(n) ==
  IF Unverified(n) # {}
  THEN IF Written(receipt[Least(Unverified(n))]) THEN "BRW_E_ROLE_BINDING" ELSE "BRW_E_STORAGE"
  ELSE IF RequiringReceipt(bridge.revs[n]) \subseteq Bound THEN "" ELSE "BRW_E_ROLE_BINDING"

Progress(role, state, action) == [role |-> role, state |-> state, action |-> action]

\* mutant: a confirmation of the bridge is enough to execute its role.
Mut_RoleProgress(rev, bound, at) ==
  LET role == Least(Pending(rev))
      has(k) == Has(rev.art, role, k)
  IN CASE rev.status \in TerminalStatuses \/ local -> Progress(None, "terminal", "none")
       [] has("admission") /\ ~has("audit") -> Progress(role, "in_progress", "none")
       [] has("confirmation") /\ ~has("admission") ->
            IF at >= ConfirmationExpires(rev.art[role].confirmation) THEN Progress(role, "expired", "none")
            ELSE Progress(role, "executable", "execute_role")
       [] OTHER -> Progress(role, "awaiting_confirmation", "show_role_request")

\* _role_progress: the next role, what it waits for and what may be done about it.
RoleProgress(rev, bound, at) ==
  LET role == Least(Pending(rev))
      has(k) == Has(rev.art, role, k)
  IN CASE rev.status \in TerminalStatuses \/ local \/ Pending(rev) = {} ->
            Progress(None, "terminal", "none")
       [] has("admission") /\ ~has("audit") -> Progress(role, "in_progress", "none")
       [] has("confirmation") /\ ~has("admission") ->
            IF at >= ConfirmationExpires(rev.art[role].confirmation) THEN Progress(role, "expired", "none")
            ELSE IF role \notin bound THEN Progress(role, "awaiting_confirmation", "show_role_request")
            ELSE Progress(role, "executable", "execute_role")
       [] OTHER -> IF at >= bridge.expires[role] THEN Progress(role, "expired", "none")
                   ELSE Progress(role, "awaiting_confirmation", "show_role_request")

\* _status_from_replayed_bridge: the state of the workflow.
WorkflowState(rev, progress) ==
  CASE rev.status = "succeeded" -> "completed"
    [] rev.status \in TerminalStatuses \ {"succeeded"} -> "failed"
    [] local -> "completed_local_only"
    [] Completed(rev) # {} \/ progress.state # "awaiting_confirmation" -> "role_review_in_progress"
    [] OTHER -> "awaiting_role_review"

----------------------------------------------------------------------------
(* The clients.                                                            *)

\* An answer: the state of the workflow or the error, the progress it reports,
\* and the role that the call itself launched.
Answer(what, progress, mine) == [what |-> what, progress |-> progress, mine |-> mine]
NoProgress == Progress(None, "none", "none")
NoAnswer == Answer("none", NoProgress, None)
NotShown == [rev |-> None, role |-> None]

\* A client between calls remembers what it was shown last and what it was told.
Idle(shown, answer) ==
  [pc |-> "idle", op |-> "none", pass |-> 1, at |-> 0, n |-> 0, first |-> NoProgress,
   role |-> None, id |-> None, confirmed |-> 0, mine |-> None, shown |-> shown, answer |-> answer]

At(c, pc) == reviewer[c].pc = pc
Goto(c, pc) == reviewer' = [reviewer EXCEPT ![c].pc = pc]
Return(c, answer) == reviewer' = [reviewer EXCEPT ![c] = Idle(reviewer[c].shown, answer)]
Refuse(c, code) == Return(c, Answer(code, NoProgress, reviewer[c].mine))

Call(c, op, pc) ==
  /\ At(c, "idle")
  /\ left.calls > 0
  /\ left' = [left EXCEPT !.calls = @ - 1]
  /\ reviewer' = [reviewer EXCEPT ![c].pc = pc, ![c].op = op, ![c].at = now,
                                  ![c].answer = NoAnswer]
  /\ UNCHANGED <<directory, source, bridge, now, launched, local>>

\* prepare_bounded_river_review_workflow: the directory must not exist ...
PrepareWorkflow(c) == plan = "none" /\ Call(c, "prepare", "replace")

\* ... and appears, with plan and preparation, in one rename: of two clients the
\* second fails.
ReplaceDirectory(c) ==
  /\ At(c, "replace")
  /\ IF plan = "none" THEN plan' = "made" /\ Return(c, Answer("prepared", NoProgress, None))
     ELSE Refuse(c, "BRW_E_STORAGE") /\ UNCHANGED plan
  /\ UNCHANGED <<agreed, source, linkage, receipt, bridge, now, launched, local, left>>

\* confirm_bounded_river_review_workflow: confirmation.json must not exist and is created.
ConfirmWorkflow(c) ==
  \E id \in ConfirmationIds :
    /\ plan = "made" /\ ~Exists(agreed)
    /\ At(c, "idle") /\ left.calls > 0 /\ left' = [left EXCEPT !.calls = @ - 1]
    /\ agreed' = TornFile
    /\ reviewer' = [reviewer EXCEPT ![c].pc = "agree", ![c].id = id, ![c].answer = NoAnswer]
    /\ UNCHANGED <<plan, source, linkage, receipt, bridge, now, launched, local>>

WriteConfirmation(c) ==
  /\ At(c, "agree")
  /\ agreed' = File([id |-> reviewer[c].id, expires |-> now + RequestLife])
  /\ Return(c, Answer("confirmed", NoProgress, None))
  /\ UNCHANGED <<plan, source, linkage, receipt, bridge, now, launched, local, left>>

\* run_bounded_river_review_workflow, up to the admission: the confirmation reads
\* and has not expired.
RunWorkflow(c) == plan = "made" /\ Call(c, "run", "admit")
AdmitReview(c) ==
  /\ At(c, "admit")
  /\ IF ~Written(agreed) THEN Refuse(c, "BRW_E_STORAGE")
     ELSE IF now > agreed.body.expires THEN Refuse(c, "CONFIRMATION_EXPIRED")
     ELSE Goto(c, "review")
  /\ UNCHANGED <<directory, source, bridge, now, launched, local, left>>

\* resume_bounded_river_review_workflow without the source bytes: a linked
\* workflow is replayed, another is completed from the stored source.
ResumeWorkflow(c) ==
  /\ plan = "made"
  /\ Call(c, "resume", IF Exists(linkage) THEN "status" ELSE "source")

\* review_bounded_river_call_ev_intake: the source run is reserved and published;
\* under the same confirmation it is only replayed, and another's is refused.
ReserveSource(c) ==
  /\ At(c, "review")
  /\ IF source = NoFile THEN source' = TornFile /\ Goto(c, "reviewing")
     ELSE /\ UNCHANGED source
          /\ IF source.kind = "product" /\ source.by = agreed.body.id THEN Goto(c, "source")
             ELSE Refuse(c, "ADMISSION_CONFLICT")
  /\ UNCHANGED <<directory, bridge, now, launched, local, left>>
PublishSource(c) ==
  /\ At(c, "reviewing")
  /\ \E s \in {"completed", "failed"} :
       source' = [kind |-> "product", by |-> agreed.body.id, status |-> s]
  /\ Goto(c, "source")
  /\ UNCHANGED <<directory, bridge, now, launched, local, left>>

\* The source run as it is stored must be completed and this workflow's own.
VerifySource(c) ==
  /\ At(c, "source")
  /\ IF ~Written(agreed) THEN Refuse(c, "BRW_E_STORAGE")
     ELSE IF source.kind # "product"
          THEN Refuse(c, "BRW_E_SOURCE_REQUIRED")
     ELSE IF source.status # "completed" THEN Refuse(c, "BRW_E_SOURCE_RUN")
     ELSE IF source.by # agreed.body.id THEN Refuse(c, "BRW_E_SOURCE_BINDING")
     ELSE Goto(c, "bridge")
  /\ UNCHANGED <<directory, source, bridge, now, launched, local, left>>

\* _complete_from_verified_source: a bridge that is there must read, one that is
\* not is prepared.
FindBridge(c) ==
  /\ At(c, "bridge")
  /\ IF ~bridge.made THEN Goto(c, "make_bridge")
     ELSE IF bridge.revs = <<>> THEN Refuse(c, "BRIDGE_STORAGE") ELSE Goto(c, "link")
  /\ UNCHANGED <<directory, source, bridge, now, launched, local, left>>

\* prepare_product_bridge: the store's directory ...
MakeBridge(c) ==
  /\ At(c, "make_bridge")
  /\ bridge' = [bridge EXCEPT !.made = TRUE]
  /\ Goto(c, "publish_bridge")
  /\ UNCHANGED <<directory, source, now, launched, local, left>>
\* ... and the first revision, which only one client can publish.
PrepareProductBridge(c) ==
  /\ At(c, "publish_bridge")
  /\ IF bridge.revs = <<>>
     THEN bridge' = Publish("approval_required", FirstArtifacts) /\ Goto(c, "link")
     ELSE Refuse(c, "BRIDGE_STORAGE") /\ UNCHANGED bridge
  /\ UNCHANGED <<directory, source, now, launched, local, left>>

\* _verify_bridge_source: the revision that is to be linked is read.
VerifyBridgeSource(c) ==
  /\ At(c, "link")
  /\ reviewer' = [reviewer EXCEPT ![c].pc = "link_file", ![c].n = Len(bridge.revs)]
  /\ UNCHANGED <<directory, source, bridge, now, launched, local, left>>

\* _link: linkage.json is created, or the one that is there must verify.
Link(c) ==
  /\ At(c, "link_file")
  /\ IF ~Exists(linkage) THEN linkage' = TornFile /\ Goto(c, "link_write")
     ELSE /\ UNCHANGED linkage
          /\ IF ~Written(linkage) THEN Refuse(c, "BRW_E_STORAGE")
             ELSE IF ~LinkageVerifies(reviewer[c].n) THEN Refuse(c, "BRW_E_LINKAGE")
             ELSE Goto(c, "status")
  /\ UNCHANGED <<plan, agreed, receipt, source, bridge, now, launched, local, left>>
WriteLinkage(c) ==
  /\ At(c, "link_write")
  /\ linkage' = File([confirmation |-> agreed.body.id, rev |-> reviewer[c].n])
  /\ Goto(c, "status")
  /\ UNCHANGED <<plan, agreed, receipt, source, bridge, now, launched, local, left>>

----------------------------------------------------------------------------
(* status and replay.                                                      *)

ShowStatus(c) == plan = "made" /\ Call(c, "status", "status")

Tell(c, state) == Return(c, Answer(state, NoProgress, reviewer[c].mine))

\* Up to the bridge: what has not happened yet decides the answer.
StatusReadsBridge(c) ==
  /\ At(c, "status")
  /\ IF ~Exists(agreed) THEN Tell(c, "awaiting_confirmation")
     ELSE IF ~Written(agreed) THEN Refuse(c, "BRW_E_STORAGE")
     ELSE IF ~bridge.made
     THEN IF source.kind # "product" THEN Tell(c, "ready_to_run")
          ELSE IF source.status # "completed" THEN Refuse(c, "BRW_E_SOURCE_RUN")
          ELSE IF source.by # agreed.body.id THEN Refuse(c, "BRW_E_SOURCE_BINDING")
          ELSE Tell(c, "ready_to_resume")
     ELSE IF bridge.revs = <<>> THEN Refuse(c, "BRIDGE_STORAGE")
     ELSE IF ~SourceVerifies THEN Refuse(c, "BRW_E_SOURCE_BINDING")
     ELSE reviewer' = [reviewer EXCEPT ![c].pc = "status_linkage", ![c].n = Len(bridge.revs)]
  /\ UNCHANGED <<directory, source, bridge, now, launched, local, left>>

\* Then the linkage, the replay of the bridge, the receipts and the clock.
StatusAnswers(c) ==
  /\ At(c, "status_linkage")
  /\ LET n == reviewer[c].n
         rev == bridge.revs[n]
         progress == RoleProgress(rev, Bound, now)
     IN IF ~Exists(linkage) THEN Tell(c, "ready_to_resume")
        ELSE IF ~Written(linkage) THEN Refuse(c, "BRW_E_STORAGE")
        ELSE IF ~LinkageVerifies(n) THEN Refuse(c, "BRW_E_LINKAGE")
        ELSE IF ~Replays(rev) THEN Refuse(c, "BRW_E_BRIDGE")
        ELSE IF ReceiptError(n) # "" THEN Refuse(c, ReceiptError(n))
        ELSE Return(c, Answer(WorkflowState(rev, progress), progress, reviewer[c].mine))
  /\ UNCHANGED <<directory, source, bridge, now, launched, local, left>>

----------------------------------------------------------------------------
(* The roles: shown, confirmed and executed one by one.                    *)

ShowRoleRequest(c) == Call(c, "show", "observe")
ShowReport(c) == Call(c, "report", "observe")
ExecuteRole(c) == Call(c, "execute", "observe")

\* The client confirms what it was shown last, under an identifier of its choice.
ConfirmRoleRequest(c) ==
  \E id \in ConfirmationIds :
    /\ reviewer[c].shown # NotShown
    /\ At(c, "idle") /\ left.calls > 0 /\ left' = [left EXCEPT !.calls = @ - 1]
    /\ reviewer' = [reviewer EXCEPT ![c].pc = "observe", ![c].op = "confirm", ![c].at = now,
                                    ![c].id = id, ![c].answer = NoAnswer]
    /\ UNCHANGED <<directory, source, bridge, now, launched, local>>

\* The end of a call whose verification fails; the one that follows a failed
\* execution turns every such failure into its own.
Fails(c, code) ==
  IF reviewer[c].op = "reread"
  THEN Return(c, Answer("BRW_E_ROLE_EXECUTION", Progress(None, "unread", "none"), reviewer[c].mine))
  ELSE Refuse(c, code)

\* _verified_role_workflow, up to the bridge: the files, the source, the replay.
Observe(c) ==
  /\ At(c, "observe")
  /\ IF plan # "made" \/ ~Written(agreed) THEN Fails(c, "BRW_E_STORAGE")
     ELSE IF ~Exists(linkage) THEN Fails(c, "BRW_E_LINKAGE")
     ELSE IF ~Written(linkage) THEN Fails(c, "BRW_E_STORAGE")
     ELSE IF ~SourceVerifies THEN Fails(c, "BRW_E_SOURCE_BINDING")
     ELSE IF bridge.revs = <<>> \/ ~Replays(Current) THEN Fails(c, "BRW_E_BRIDGE")
     ELSE IF ~LinkageVerifies(Len(bridge.revs)) THEN Fails(c, "BRW_E_LINKAGE")
     ELSE reviewer' = [reviewer EXCEPT ![c].pc = "receipts", ![c].n = Len(bridge.revs)]
  /\ UNCHANGED <<directory, source, bridge, now, launched, local, left>>

\* The checks that precede the showing, the confirmation and the execution of a role.
Gate(op, rev, progress) ==
  CASE local -> "BRW_E_LOCAL_ONLY"
    [] ReconciliationRequired(rev) -> "BRW_E_ROLE_RECONCILIATION"
    [] progress.state = "expired" -> "BRW_E_ROLE_EXPIRED"
    [] progress.role = None \/ progress.state \notin
         (CASE op = "show" -> {"awaiting_confirmation", "executable"}
            [] op = "confirm" -> {"awaiting_confirmation"}
            [] OTHER -> {"executable"}) -> "BRW_E_ROLE_STATE"
    [] OTHER -> ""

\* confirm_bounded_river_review_role_request, its checks on the second look: the
\* role, the seventeen fields (the revision stands for them) and the clock.
ConfirmChecks(me, progress) ==
  CASE me.shown.role # progress.role -> "BRW_E_ROLE_ORDER"
    [] me.shown.rev # me.n -> "BRW_E_ROLE_BINDING"
    [] now >= bridge.expires[progress.role] -> "BRW_E_ROLE_EXPIRED"
    [] OTHER -> ""
ExecuteChecks(rev, progress) ==
  IF now >= ConfirmationExpires(rev.art[progress.role].confirmation) THEN "BRW_E_ROLE_EXPIRED" ELSE ""

\* The first look passed: the second one must see the same (_verified_role_mutation_context).
LookAgain(c, progress) ==
  reviewer' = [reviewer EXCEPT ![c].pc = "observe", ![c].pass = 2, ![c].first = progress,
                               ![c].confirmed = reviewer[c].n]
SecondLook(c, rev, progress) ==
  LET me == reviewer[c]
      checks == IF me.op = "confirm" THEN ConfirmChecks(me, progress) ELSE ExecuteChecks(rev, progress)
  IN IF me.confirmed # me.n \/ me.first # progress THEN Refuse(c, "BRW_E_ROLE_BINDING")
     ELSE IF checks # "" THEN Refuse(c, checks)
     ELSE reviewer' = [reviewer EXCEPT ![c].pc = me.op, ![c].role = progress.role]

\* The receipts and the clock (read when the call began, for a confirmation or an
\* execution), and what the call makes of what it has seen.
ReadReceipts(c) ==
  /\ At(c, "receipts")
  /\ LET me == reviewer[c]
         rev == bridge.revs[me.n]
         at == IF me.op \in {"confirm", "execute"} THEN me.at ELSE now
         progress == RoleProgress(rev, Bound, at)
         gate == Gate(me.op, rev, progress)
     IN IF ReceiptError(me.n) # "" THEN Fails(c, ReceiptError(me.n))
        ELSE CASE me.op = "report" ->
                    IF Has(rev.art, ReportWriter, "result") # (ReportWriter \in Completed(rev))
                    THEN Refuse(c, "BRW_E_REPORT_WRITER")
                    ELSE Return(c, Answer(WorkflowState(rev, progress), progress, None))
               [] me.op = "reread" ->
                    Refuse(c, CASE ReconciliationRequired(rev) -> "BRW_E_ROLE_RECONCILIATION"
                                [] progress.state = "expired" -> "BRW_E_ROLE_EXPIRED"
                                [] OTHER -> "BRW_E_ROLE_EXECUTION")
               [] gate # "" -> Refuse(c, gate)
               [] me.op = "show" ->
                    reviewer' = [reviewer EXCEPT ![c] =
                      Idle([rev |-> me.n, role |-> progress.role], Answer("shown", progress, None))]
               [] me.pass = 1 -> LookAgain(c, progress)
               [] OTHER -> SecondLook(c, rev, progress)
  /\ UNCHANGED <<directory, source, bridge, now, launched, local, left>>

\* A confirmation under an identifier the run has not seen, of an open run and a
\* request that has not expired (controller.confirm_role).
Confirmable(rev, role, id) ==
  /\ rev.status \in OpenStatuses
  /\ Has(rev.art, role, "request") /\ ~Has(rev.art, role, "confirmation")
  /\ \A r \in Roles : Has(rev.art, r, "confirmation") => rev.art[r].confirmation.cid # id
  /\ now < bridge.expires[role]
Confirmed(role, id) ==
  Publish("approval_required",
          Append1(Current.art, role, "confirmation", RoleConfirmation(role, id, id, now)))

\* confirm_product_role: published on the very revision that was shown, or refused;
\* a publication whose caller fails nevertheless stays.
ConfirmProductRole(c) ==
  /\ At(c, "confirm")
  /\ LET me == reviewer[c] IN
     /\ ~Has(bridge.revs[me.n].art, me.role, "confirmation")
     /\ IF me.n # Len(bridge.revs) \/ ~Confirmable(Current, me.role, me.id)
        THEN Refuse(c, "BRW_E_ROLE_BINDING") /\ UNCHANGED <<bridge, left>>
        ELSE /\ bridge' = Confirmed(me.role, me.id)
             /\ \/ /\ reviewer' = [reviewer EXCEPT ![c].pc = "receipt", ![c].confirmed = me.n + 1]
                   /\ UNCHANGED left
                \/ /\ left.faults > 0 /\ left' = [left EXCEPT !.faults = @ - 1]
                   /\ Refuse(c, "BRW_E_ROLE_BINDING")
  /\ UNCHANGED <<directory, source, now, launched, local>>

\* A confirmation that the bridge has already (its receipt was lost in a crash,
\* or it was made by the bridge's own command) is adopted under its identifiers.
AdoptConfirmation(c) ==
  /\ At(c, "confirm")
  /\ LET me == reviewer[c]
         conf == bridge.revs[me.n].art[me.role].confirmation
     IN /\ conf # NoArtifact
        /\ IF conf.cid # me.id THEN Refuse(c, "BRW_E_ROLE_BINDING")
           ELSE reviewer' = [reviewer EXCEPT ![c].pc = "receipt", ![c].confirmed = me.n]
  /\ UNCHANGED <<directory, source, bridge, now, launched, local, left>>

\* _create_role_confirmation_binding: the receipt is created, once per role ...
CreateReceipt(c) ==
  /\ At(c, "receipt")
  /\ LET me == reviewer[c]
         conf == bridge.revs[me.confirmed].art[me.role].confirmation
     IN IF now >= ConfirmationExpires(conf)
        THEN Refuse(c, "BRW_E_ROLE_EXPIRED") /\ UNCHANGED receipt
        ELSE IF Exists(receipt[me.role])
        THEN Refuse(c, "BRW_E_STORAGE") /\ UNCHANGED receipt
        ELSE receipt' = [receipt EXCEPT ![me.role] = TornFile] /\ Goto(c, "receipt_write")
  /\ UNCHANGED <<plan, agreed, linkage, source, bridge, now, launched, local, left>>
\* ... and written; the call answers the status.
WriteReceipt(c) ==
  /\ At(c, "receipt_write")
  /\ LET me == reviewer[c] IN
     receipt' = [receipt EXCEPT ![me.role] =
       File([linkage |-> linkage.body, preview |-> me.n, confirmed |-> me.confirmed,
             confirmation |-> bridge.revs[me.confirmed].art[me.role].confirmation])]
  /\ Goto(c, "status")
  /\ UNCHANGED <<plan, agreed, linkage, source, bridge, now, launched, local, left>>

\* execute_confirmed_role's checks on the run as it is now.
Executable(rev, role) ==
  /\ rev.status \in OpenStatuses
  /\ Has(rev.art, role, "request") /\ Has(rev.art, role, "confirmation")
  /\ \A p \in Prior(role) : Has(rev.art, p, "result")
  /\ ~Has(rev.art, role, "admission") /\ ~Has(rev.art, role, "audit")
  /\ now < ConfirmationExpires(rev.art[role].confirmation)
Admitted(role) == Publish("in_progress", Append1(Current.art, role, "admission", Admission(role, now)))

Reread(c) == reviewer' = [reviewer EXCEPT ![c].pc = "observe", ![c].op = "reread"]

\* execute_product_role: the admission is published and the transport launched; a
\* refusal is followed by another look at the workflow.
ExecuteProductRole(c) ==
  /\ At(c, "execute")
  /\ LET role == reviewer[c].role IN
     IF ~Executable(Current, role) THEN Reread(c) /\ UNCHANGED <<bridge, launched>>
     ELSE /\ bridge' = Admitted(role)
          /\ launched' = launched \cup {role}
          /\ reviewer' = [reviewer EXCEPT ![c].pc = "launched", ![c].n = Len(bridge.revs) + 1,
                                          ![c].mine = role]
  /\ UNCHANGED <<directory, source, now, local, left>>

\* What the execution of a role makes of the run.
Executed(role, effect) ==
  LET by == Len(bridge.revs)
      audit == ExecutionAudit(role, Outcome(effect, by, by, TRUE), "transport", by)
  IN IF effect = "succeeded"
     THEN Publish(StatusAfterSuccess(role),
                  AfterSuccess(Current.art, role, RoleResult(role, by), audit))
     ELSE Publish(FailureStatus(effect), Append1(Current.art, role, "audit", audit))

\* The transport ends and its outcome is published on the revision of the
\* admission; when the run has moved on, or the publication fails, the call fails.
FinishRole(c) ==
  /\ At(c, "launched")
  /\ LET me == reviewer[c] IN
     \/ /\ me.n # Len(bridge.revs)
        /\ Reread(c) /\ UNCHANGED <<bridge, left>>
     \/ /\ me.n = Len(bridge.revs)
        /\ \E effect \in {"succeeded", "failed", "effect_unknown"} : bridge' = Executed(me.role, effect)
        /\ \/ Goto(c, "status") /\ UNCHANGED left
           \/ left.faults > 0 /\ left' = [left EXCEPT !.faults = @ - 1] /\ Reread(c)
     \/ /\ left.faults > 0 /\ left' = [left EXCEPT !.faults = @ - 1]
        /\ Reread(c) /\ UNCHANGED bridge
  /\ UNCHANGED <<directory, source, now, launched, local>>

----------------------------------------------------------------------------
(* The rest of the world.                                                  *)

Spend(what) == left[what] > 0 /\ left' = [left EXCEPT ![what] = @ - 1]

\* The bridge's own commands, and a review of the same source run under another
\* confirmation.
DirectConfirm ==
  \E role \in Roles, id \in ConfirmationIds :
    /\ Spend("direct")
    /\ bridge.revs # <<>> /\ Confirmable(Current, role, id)
    /\ bridge' = Confirmed(role, id)
    /\ UNCHANGED <<directory, source, now, reviewer, launched, local>>
DirectExecute ==
  \E role \in Roles :
    /\ Spend("direct")
    /\ bridge.revs # <<>> /\ Executable(Current, role)
    /\ bridge' = LET open == Append1(Current.art, role, "admission", Admission(role, now))
                     by == Len(bridge.revs) + 1
                     audit == ExecutionAudit(role, Outcome("succeeded", by, by, TRUE), "none", by)
                     admitted == Publish("in_progress", open)
                     done == AfterSuccess(open, role, RoleResult(role, by), audit)
                 IN [admitted EXCEPT
                       !.revs = Append(@, [status |-> StatusAfterSuccess(role), art |-> done]),
                       !.expires = [r \in Roles |-> IF r = Dependent(role) THEN now + RequestLife ELSE @[r]]]
    /\ UNCHANGED <<directory, source, now, reviewer, launched, local>>
ForeignReview ==
  /\ Spend("direct")
  /\ source = NoFile
  /\ source' = [kind |-> "product", by |-> None, status |-> "completed"]
  /\ UNCHANGED <<directory, bridge, now, reviewer, launched, local>>

Tick ==
  /\ Spend("ticks")
  /\ now' = now + 1
  /\ UNCHANGED <<directory, source, bridge, reviewer, launched, local>>

\* The process of a client dies, whatever it was at.
Crash(c) ==
  /\ ~At(c, "idle")
  /\ Spend("faults")
  /\ Return(c, NoAnswer)
  /\ UNCHANGED <<directory, source, bridge, now, launched, local>>

\* A read of the workflow's files fails.
ReadFails(c) ==
  /\ reviewer[c].pc \in {"observe", "receipts"}
  /\ Spend("faults")
  /\ Fails(c, "BRW_E_STORAGE")
  /\ UNCHANGED <<directory, source, bridge, now, launched, local>>

----------------------------------------------------------------------------
(* The start: a workflow at some stage; a linked one has executed and bound *)
(* some roles, one by one, three revisions a role, and its clients were     *)
(* shown the next one.                                                      *)

PastConfirmation(r) == RoleConfirmation(r, 100 + r, 100 + r, 0)
PastRevisions[k \in 0..(Independent + 2)] ==
  IF k = 0 THEN <<[status |-> "approval_required", art |-> FirstArtifacts]>>
  ELSE LET before == PastRevisions[k - 1]
           agreedTo == Append1(before[Len(before)].art, k, "confirmation", PastConfirmation(k))
           open == Append1(agreedTo, k, "admission", Admission(k, 0))
           by == 3 * k
           audit == ExecutionAudit(k, Outcome("succeeded", by, by, TRUE), "none", by)
       IN before \o <<[status |-> "approval_required", art |-> agreedTo],
                      [status |-> "in_progress", art |-> open],
                      [status |-> StatusAfterSuccess(k),
                       art |-> AfterSuccess(open, k, RoleResult(k, by), audit)]>>

Linked(s) == s.done >= 0
PastLinkage == [confirmation |-> 1, rev |-> 1]
PastReceipt(r) ==
  File([linkage |-> PastLinkage, preview |-> 3 * r - 2, confirmed |-> 3 * r - 1,
        confirmation |-> PastConfirmation(r)])

\* The run a linked workflow starts with; its next role may be confirmed already.
PastRun(s) ==
  LET ended == PastRevisions[s.done]
  IN IF s.ready
     THEN Append(ended, [status |-> "approval_required",
                         art |-> Append1(ended[Len(ended)].art, s.done + 1, "confirmation",
                                         PastConfirmation(s.done + 1))])
     ELSE ended

StartsAt(s) ==
  LET bound == s.done + (IF s.ready THEN 1 ELSE 0) IN
  /\ plan = IF s.agreed \/ Linked(s) THEN "made" ELSE "none"
  /\ agreed = IF s.agreed \/ Linked(s) THEN File([id |-> 1, expires |-> RequestLife]) ELSE NoFile
  /\ source = IF Linked(s) THEN [kind |-> "product", by |-> 1, status |-> "completed"] ELSE NoFile
  /\ linkage = IF Linked(s) THEN File(PastLinkage) ELSE NoFile
  /\ receipt = [r \in Roles |-> IF r <= bound THEN PastReceipt(r) ELSE NoFile]
  /\ bridge = IF Linked(s)
              THEN [made |-> TRUE, revs |-> PastRun(s), expires |-> [r \in Roles |-> RequestLife]]
              ELSE NoBridge
  /\ reviewer = [c \in Clients |->
       Idle(IF Linked(s) /\ ~s.ready THEN [rev |-> 3 * s.done + 1, role |-> s.done + 1] ELSE NotShown,
            NoAnswer)]
  /\ launched = 1..s.done
  /\ local = s.local
  /\ left = s.left

Init ==
  /\ \E s \in Reviews : StartsAt(s)
  /\ now = 0

Starting(c) == \/ PrepareWorkflow(c) \/ ReplaceDirectory(c) \/ ConfirmWorkflow(c) \/ WriteConfirmation(c)
               \/ RunWorkflow(c) \/ AdmitReview(c) \/ ResumeWorkflow(c) \/ ReserveSource(c)
               \/ PublishSource(c) \/ VerifySource(c)
Linking(c) == \/ FindBridge(c) \/ MakeBridge(c) \/ PrepareProductBridge(c) \/ VerifyBridgeSource(c)
              \/ Link(c) \/ WriteLinkage(c)
Reading(c) == \/ ShowStatus(c) \/ StatusReadsBridge(c) \/ StatusAnswers(c)
              \/ ShowRoleRequest(c) \/ ShowReport(c) \/ Observe(c) \/ ReadReceipts(c)
Reviewing(c) == \/ ConfirmRoleRequest(c) \/ ConfirmProductRole(c) \/ AdoptConfirmation(c)
                \/ CreateReceipt(c) \/ WriteReceipt(c)
                \/ ExecuteRole(c) \/ ExecuteProductRole(c) \/ FinishRole(c)
Environment == DirectConfirm \/ DirectExecute \/ ForeignReview \/ Tick

Next ==
  \/ \E c \in Clients : Starting(c) \/ Linking(c) \/ Reading(c) \/ Reviewing(c) \/ Crash(c) \/ ReadFails(c)
  \/ Environment

Spec == Init /\ [][Next]_vars

----------------------------------------------------------------------------
\* Files and clients have their shapes; a client waits where its call may wait.
TypeOK ==
  /\ plan \in {"none", "made"}
  /\ {agreed.kind, linkage.kind} \cup {receipt[r].kind : r \in Roles} \subseteq {"none", "torn", "file"}
  /\ source.kind \in {"none", "torn", "product"}
  /\ bridge.revs # <<>> => bridge.made
  /\ launched \subseteq Roles
  /\ \A c \in Clients : reviewer[c].role \in Roles \cup {None}

\* The chain of a workflow holds at every link: a linkage names this workflow's
\* confirmation, its completed source and a published revision; a receipt names
\* that linkage, the very confirmation the bridge holds for its role and the
\* revision it was published in; and every revision of the bridge replays
\* (_link, _create_role_confirmation_binding, replay_bridge), whatever clients
\* race, crash half way or use the bridge's own commands.
ChainHolds ==
  /\ Written(linkage) => Written(agreed) /\ SourceVerifies /\ LinkageVerifies(Len(bridge.revs))
  /\ \A r \in Roles : Written(receipt[r]) => Written(linkage) /\ ReceiptVerifies(r, Len(bridge.revs))
  /\ \A i \in DOMAIN bridge.revs : Replays(bridge.revs[i]) /\ ExecutionProgression(bridge.revs[i])

\* A role that was launched through the workflow has its receipt, whose
\* confirmation is the one it was admitted under and was shown before
\* (docs/bounded-river-review-workflow.md:170: the receipt is the permission to
\* execute, a confirmation of the bridge alone does not replace it).
RolesAreBound ==
  \A r \in launched : Written(receipt[r]) /\ ReceiptVerifies(r, Len(bridge.revs))

\* What a client was told is so: a completed review has every role executed and
\* bound, an executable role has its receipt, a review that may be resumed has
\* its source, and an execution is reported as a plain failure only when
\* what the call itself launched is on record (the second look of
\* execute_bounded_river_review_role).
ReviewAnswersAreTrue ==
  \A c \in Clients :
    LET a == reviewer[c].answer IN
    /\ a.what = "completed" => Completed(Current) = Roles /\ \A r \in Roles : Written(receipt[r])
    /\ a.what = "failed" => Failures(Current.art) # {}
    /\ a.progress.state = "executable" => Written(receipt[a.progress.role])
    /\ a.what = "ready_to_resume" => SourceVerifies
    /\ a.what = "BRW_E_ROLE_EXECUTION" /\ a.progress.state # "unread" /\ a.mine # None
         => Has(Current.art, a.mine, "audit")
=============================================================================

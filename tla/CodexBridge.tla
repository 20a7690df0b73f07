---------------------------- MODULE CodexBridge ----------------------------
(***************************************************************************)
(* The bounded Codex bridge: callers of one controller API (prepare_run,   *)
(* confirm_role, execute_confirmed_role) over one store of runs, with the  *)
(* two store-wide registries (execution identities, confirmation           *)
(* identifiers) and the file locks that guard them.  Callers are processes *)
(* that interleave at every file they publish, may crash at any of them,   *)
(* and may meet an I/O error.  A lock is tried once: a busy lock is an     *)
(* error of the caller.  The transport is one step that answers anything   *)
(* the transports may answer (BridgeTransport).                            *)
(***************************************************************************)
EXTENDS BridgeContracts

CONSTANTS Runs,             \* bridge_run_id values
          Callers,
          Identities,       \* thread identities a provider may hand out
          Identifiers,      \* confirmation ids and idempotency keys
          Instants,         \* readings of the clock that may coincide
          Scenarios         \* what the store holds at the start, and bounds on API calls and faults

CONSTANT NoOne             \* no holder of a lock

\* A scenario's runs have executed a prefix of the roles, the next may be confirmed.
BridgeConstants ==
  /\ Identities \subseteq Nat \ {0} /\ Identifiers \subseteq Nat \ {0} /\ Instants \subseteq Nat
  /\ NoOne \notin Callers /\ Runs \cap {"identities", "identifiers"} = {}
  /\ \A s \in Scenarios :
       /\ s.calls \in Nat /\ s.faults \in Nat /\ DOMAIN s.runs \subseteq Runs
       /\ \A run \in DOMAIN s.runs :
            /\ s.runs[run].done \in 0..ReportWriter /\ s.runs[run].base \in Nat
            /\ s.runs[run].confirmed \in BOOLEAN
            /\ s.runs[run].confirmed => s.runs[run].done < ReportWriter

ASSUME BridgeAssumption == BridgeConstants

VARIABLES revs,             \* revision directories of each run, in order
          pointer,          \* c.json: the revision each run has published
          identity,         \* registry ".i": <<kind, identity>> -> claim
          identifier,       \* registry ".c": <<kind, identifier>> -> claim
          lock,             \* holders of the run locks and of the registry locks
          caller,           \* each caller: its step, its call and what it has read
          launches,         \* every launch of a transport, in order
          calls,            \* API calls left
          faults            \* crashes and I/O errors left

vars == <<revs, pointer, identity, identifier, lock, caller, launches, calls, faults>>
store == <<revs, pointer>>
registries == <<identity, identifier>>

Idle == [pc |-> "idle"]
Torn == [kind |-> "torn"]

----------------------------------------------------------------------------
(* Reading a run.                                                          *)

Revision(run) == revs[run][pointer[run]]
Orphan(run) == Len(revs[run]) > pointer[run]

\* A claim file is created empty and written after: until then it does not parse.
IdentityNamespaceReads == \A k \in DOMAIN identity : identity[k] # Torn
IdentifierNamespaceReads == \A k \in DOMAIN identifier : identifier[k] # Torn
NamespaceReads == IdentityNamespaceReads /\ IdentifierNamespaceReads

\* The claims an execution leaves: its thread, and its turn when it has one.
ObservedIdentities(o) ==
  (IF o.thread = None THEN {} ELSE {<<"thread", o.thread>>})
  \cup (IF o.turn = None THEN {} ELSE {<<"turn", o.turn>>})

\* _verify_current_identity_claims, for one audit.
IdentityClaimed(run, audit) ==
  LET seen == ObservedIdentities(audit.outcome)
      bound(k) == identity[k] = [kind |-> "claim", run |-> run, audit |-> audit]
  IN CASE audit.reason = "registry_corrupt" -> \A k \in seen \cap DOMAIN identity : identity[k] # Torn
       [] audit.reason = "registry_rejected" ->
            /\ \A k \in seen \cap DOMAIN identity : identity[k] # Torn
            /\ \E k \in seen \cap DOMAIN identity : ~bound(k)
       [] OTHER -> \A k \in seen : k \in DOMAIN identity /\ bound(k)

\* _verify_current_confirmation_identifier_claims, for one confirmation.
IdentifiersClaimed(run, confirmation) ==
  \A k \in {<<"confirmation", confirmation.cid>>, <<"idempotency", confirmation.key>>} :
    /\ k \in DOMAIN identifier
    /\ identifier[k] = [kind |-> "claim", run |-> run, role |-> confirmation.role]

\* read_current: the namespace, the revision and its lineage, and the claims.
LineageHolds(run) ==
  /\ \A i \in 1..pointer[run] : ExecutionProgression(revs[run][i])
  /\ \A i \in 2..pointer[run] : SuccessorSemantics(revs[run][i - 1], revs[run][i])
Reads(run) ==
  /\ NamespaceReads
  /\ pointer[run] > 0
  /\ LineageHolds(run)
  /\ \A r \in Roles :
       LET art == Revision(run).art
       IN /\ Has(art, r, "audit") => IdentityClaimed(run, art[r].audit)
          /\ Has(art, r, "confirmation") => IdentifiersClaimed(run, art[r].confirmation)

\* The runs a caller can read now.
Readable == {run \in Runs : Reads(run)}

\* _verify_published_current_runs: every published run reads, and none of them
\* records an execution whose identity could not be reserved.
NeedsReconciliation(run) ==
  \E r \in Roles : LET art == Revision(run).art
                   IN Has(art, r, "audit") /\ art[r].audit.reason = "registry_corrupt"
PublishedRunsVerify ==
  \A run \in Runs : pointer[run] > 0 => Reads(run) /\ ~NeedsReconciliation(run)

----------------------------------------------------------------------------
(* Steps of a caller.                                                      *)

At(c, pc) == caller[c].pc = pc
Goto(c, pc) == caller' = [caller EXCEPT ![c].pc = pc]
Fails(c) == caller' = [caller EXCEPT ![c] = Idle]
Free(l) == lock' = [lock EXCEPT ![l] = NoOne]
FreeAll(c) == lock' = [l \in DOMAIN lock |-> IF lock[l] = c THEN NoOne ELSE lock[l]]

\* prepare_request then publish: what is to be published, on what, and what comes next.
Publication(c, run, expected, status, art, next) ==
  [caller[c] EXCEPT !.pc = "publish",
                    !.request = [run |-> run, expected |-> expected,
                                 rev |-> [status |-> status, art |-> art]],
                    !.next = next]

NewCall(op, run, role) ==
  [pc |-> op, run |-> run, role |-> role, read |-> None, art |-> FirstArtifacts,
   request |-> NoArtifact, next |-> "idle", at |-> None, pair |-> <<None, None>>,
   audit |-> NoArtifact, token |-> None]

Calling(c) == At(c, "idle") /\ calls > 0 /\ calls' = calls - 1

\* prepare_run: the plan, the source and the independent requests are built
\* and published as revision one.
PrepareRun(c) ==
  \E run \in Runs :
    /\ Calling(c)
    /\ caller' = [caller EXCEPT ![c] =
         [NewCall("publish", run, None) EXCEPT
            !.request = [run |-> run, expected |-> None,
                         rev |-> [status |-> "approval_required", art |-> FirstArtifacts]],
            !.next = "answer"]]
    /\ UNCHANGED <<store, registries, lock, launches, faults>>

\* confirm_role, up to the claim of its identifiers: the run is read, open, has
\* the request and neither identifier, and the confirmation is built.
ConfirmRole(c) ==
  /\ Calling(c)
  /\ \E run \in Readable, role \in Roles, cid \in Identifiers, key \in Identifiers, at \in Instants :
       LET cur == Revision(run) IN
          /\ cur.status \in OpenStatuses
          /\ Has(cur.art, role, "request")
          /\ \A r \in Roles : Has(cur.art, r, "confirmation") =>
               cur.art[r].confirmation.cid # cid /\ cur.art[r].confirmation.key # key
          /\ caller' = [caller EXCEPT ![c] =
               [NewCall("claim", run, role) EXCEPT !.read = pointer[run], !.art = cur.art,
                                                   !.at = at, !.pair = <<cid, key>>]]
  /\ UNCHANGED <<store, registries, lock, launches, faults>>

IdentifierClaim(c) == [kind |-> "claim", run |-> caller[c].run, role |-> caller[c].role]
IdentifierKeys(c) ==
  {<<"confirmation", caller[c].pair[1]>>, <<"idempotency", caller[c].pair[2]>>}

\* claim_confirmation_identifiers, its checks: the registry lock, the namespace,
\* every published run, and no claim of another binding.
ClaimConfirmationIdentifiers(c) ==
  /\ At(c, "claim")
  /\ IF /\ lock["identifiers"] = NoOne
        /\ IdentifierNamespaceReads
        /\ PublishedRunsVerify
        /\ \A k \in IdentifierKeys(c) \cap DOMAIN identifier : identifier[k] = IdentifierClaim(c)
     THEN /\ lock' = [lock EXCEPT !["identifiers"] = c]
          /\ Goto(c, "claiming")
     ELSE Fails(c) /\ UNCHANGED lock
  /\ UNCHANGED <<store, registries, launches, calls, faults>>

\* One missing claim file is created, empty.
CreateIdentifierClaim(c) ==
  /\ At(c, "claiming")
  /\ \E k \in IdentifierKeys(c) \ DOMAIN identifier :
       /\ k[1] = "confirmation" \/ <<"confirmation", caller[c].pair[1]>> \in DOMAIN identifier
       /\ identifier' = [j \in DOMAIN identifier \cup {k} |-> IF j = k THEN Torn ELSE identifier[j]]
  /\ Goto(c, "claim_write")
  /\ UNCHANGED <<store, identity, lock, launches, calls, faults>>

\* Its bytes are written and flushed.
WriteIdentifierClaim(c) ==
  /\ At(c, "claim_write")
  /\ identifier' = [k \in DOMAIN identifier |->
                      IF identifier[k] = Torn THEN IdentifierClaim(c) ELSE identifier[k]]
  /\ Goto(c, "claiming")
  /\ UNCHANGED <<store, identity, lock, launches, calls, faults>>

\* Both claims exist: the lock is released, the confirmation is appended (it
\* must be the first of its role) and its publication is prepared.
PublishConfirmation(c) ==
  /\ At(c, "claiming")
  /\ IdentifierKeys(c) \subseteq DOMAIN identifier
  /\ LET me == caller[c]
         conf == RoleConfirmation(me.role, me.pair[1], me.pair[2], me.at)
     IN IF Appends(me.art, me.role, "confirmation")
        THEN caller' = [caller EXCEPT ![c] =
               Publication(c, me.run, me.read, "approval_required",
                           Append1(me.art, me.role, "confirmation", conf), "answer")]
        ELSE Fails(c)
  /\ Free("identifiers")
  /\ UNCHANGED <<store, registries, launches, calls, faults>>

\* mutant: an admission without an audit does not count as an attempt.
Mut_NoReplay(art, role) == ~Has(art, role, "audit")

\* _assert_turn_order and assert_no_replay.
TurnOrder(art, role) ==
  /\ \A p \in Prior(role) : Has(art, p, "result")
  /\ ~Has(art, role, "result") /\ ~Has(art, role, "audit")
NoReplay(art, role) == ~Has(art, role, "admission") /\ ~Has(art, role, "audit")

\* execute_confirmed_role, up to the check of the registry: the run is read, is
\* open, the role's turn has come, it is confirmed and was never attempted.
ExecuteConfirmedRole(c) ==
  /\ Calling(c)
  /\ \E run \in Readable, role \in Roles, at \in Instants :
       LET cur == Revision(run) IN
          /\ cur.status \in OpenStatuses
          /\ Has(cur.art, role, "request")
          /\ TurnOrder(cur.art, role)
          /\ Has(cur.art, role, "confirmation")
          /\ NoReplay(cur.art, role)
          /\ caller' = [caller EXCEPT ![c] =
               [NewCall("history", run, role) EXCEPT !.read = pointer[run], !.art = cur.art, !.at = at]]
  /\ UNCHANGED <<store, registries, lock, launches, faults>>

\* Before a launch the identity lock is taken ...
AcquireHistory(c) ==
  /\ At(c, "history")
  /\ IF lock["identities"] = NoOne
     THEN lock' = [lock EXCEPT !["identities"] = c] /\ Goto(c, "verify_history")
     ELSE Fails(c) /\ UNCHANGED lock
  /\ UNCHANGED <<store, registries, launches, calls, faults>>

\* verify_execution_identity_history: the registry and every published run, verified.
HistoryVerifies == (NamespaceReads /\ PublishedRunsVerify) = TRUE

\* ... every published run is verified under it; the request is admitted (its
\* confirmation may have expired, the source may have moved) and the admission
\* is to be published.
AdmitRoleRequest(c) ==
  /\ At(c, "verify_history")
  /\ LET me == caller[c] IN
     \/ /\ HistoryVerifies
        /\ caller' = [caller EXCEPT ![c] =
             Publication(c, me.run, me.read, "in_progress",
                         Append1(me.art, me.role, "admission", Admission(me.role, me.at)),
                         "admitted")]
     \/ Fails(c)
  /\ Free("identities")
  /\ UNCHANGED <<store, registries, launches, calls, faults>>

\* The current revision is read back and must hold the same admission.
ReadAdmission(c) ==
  /\ At(c, "admitted")
  /\ LET me == caller[c] IN
     IF Reads(me.run) /\ Revision(me.run).art[me.role].admission = Admission(me.role, me.at)
     THEN caller' = [caller EXCEPT ![c].pc = "launch", ![c].read = pointer[me.run],
                                   ![c].art = Revision(me.run).art]
     ELSE Fails(c)
  /\ UNCHANGED <<store, registries, lock, launches, calls, faults>>

\* The transport is started: from here on the remote effect is possible.
Launch(c) ==
  /\ At(c, "launch")
  /\ launches' = Append(launches, [run |-> caller[c].run, role |-> caller[c].role])
  /\ caller' = [caller EXCEPT ![c].pc = "transport", ![c].token = Len(launches) + 1]
  /\ UNCHANGED <<store, registries, lock, calls, faults>>

\* mutant: the outcome is published without reserving its identities.
Mut_TransportAnswered(c) ==
  /\ At(c, "transport")
  /\ \E o \in TransportAnswers(Identities) :
       caller' = [caller EXCEPT ![c].pc = "conclude",
         ![c].audit = ExecutionAudit(caller[c].role, o,
                        IF o.effect = "succeeded" THEN "none" ELSE "transport", caller[c].token)]
  /\ UNCHANGED <<store, registries, lock, launches, calls, faults>>

\* It answers, or raises something unclassified; the answer is validated
\* (_validate_transport may refuse a success) and the audit is built.
TransportAnswered(c) ==
  /\ At(c, "transport")
  /\ \E o \in TransportAnswers(Identities), refused \in BOOLEAN :
       LET audited == ValidateTransport(o, refused)
           reason == IF audited.effect = "succeeded" THEN "none" ELSE "transport"
       IN /\ AuditStateIsClosed(audited)
          /\ caller' = [caller EXCEPT ![c].pc = "reserve",
               ![c].audit = ExecutionAudit(caller[c].role, audited, reason, caller[c].token)]
  /\ UNCHANGED <<store, registries, lock, launches, calls, faults>>

\* The audit of an execution whose identity could not be reserved.
Unreserved(c, reason) ==
  LET a == caller[c].audit
  IN [a EXCEPT !.outcome.effect = "effect_unknown", !.reason = reason]

\* claim_execution_identity, its checks.  A collision and any other refusal
\* (a busy lock, a registry or a run that does not read) are told apart.
ClaimExecutionIdentity(c) ==
  /\ At(c, "reserve")
  /\ LET seen == ObservedIdentities(caller[c].audit.outcome) IN
     IF seen = {} THEN Goto(c, "conclude") /\ UNCHANGED lock
     ELSE IF \/ lock["identities"] # NoOne
             \/ ~IdentityNamespaceReads
             \/ ~PublishedRunsVerify
          THEN /\ caller' = [caller EXCEPT ![c].pc = "conclude",
                                           ![c].audit = Unreserved(c, "registry_corrupt")]
               /\ UNCHANGED lock
          ELSE IF seen \cap DOMAIN identity # {}
          THEN /\ caller' = [caller EXCEPT ![c].pc = "conclude",
                                           ![c].audit = Unreserved(c, "registry_rejected")]
               /\ UNCHANGED lock
          ELSE lock' = [lock EXCEPT !["identities"] = c] /\ Goto(c, "reserving")
  /\ UNCHANGED <<store, registries, launches, calls, faults>>

\* The next claim file, thread before turn, is created empty.
CreateIdentityClaim(c) ==
  /\ At(c, "reserving")
  /\ \E k \in ObservedIdentities(caller[c].audit.outcome) \ DOMAIN identity :
       /\ k[1] = "thread" \/ <<"thread", caller[c].audit.outcome.thread>> \in DOMAIN identity
       /\ identity' = [j \in DOMAIN identity \cup {k} |-> IF j = k THEN Torn ELSE identity[j]]
  /\ Goto(c, "reserve_write")
  /\ UNCHANGED <<store, identifier, lock, launches, calls, faults>>

WriteIdentityClaim(c) ==
  /\ At(c, "reserve_write")
  /\ identity' = [k \in DOMAIN identity |->
                    IF identity[k] = Torn
                    THEN [kind |-> "claim", run |-> caller[c].run, audit |-> caller[c].audit]
                    ELSE identity[k]]
  /\ Goto(c, "reserving")
  /\ UNCHANGED <<store, identifier, lock, launches, calls, faults>>

IdentityReserved(c) ==
  /\ At(c, "reserving")
  /\ ObservedIdentities(caller[c].audit.outcome) \subseteq DOMAIN identity
  /\ Goto(c, "conclude")
  /\ Free("identities")
  /\ UNCHANGED <<store, registries, launches, calls, faults>>

\* The end of an execution: its failure (_publish_failure), or its result, its
\* audit and the request of the role that depends on it.
PublishExecution(c) ==
  /\ At(c, "conclude")
  /\ LET me == caller[c] IN
     caller' = [caller EXCEPT ![c] =
       IF me.audit.outcome.effect = "succeeded"
       THEN Publication(c, me.run, me.read, StatusAfterSuccess(me.role),
                        AfterSuccess(me.art, me.role, RoleResult(me.role, me.token), me.audit),
                        "answer")
       ELSE Publication(c, me.run, me.read, FailureStatus(me.audit.outcome.effect),
                        Append1(me.art, me.role, "audit", me.audit), "answer")]
  /\ UNCHANGED <<store, registries, lock, launches, calls, faults>>

----------------------------------------------------------------------------
(* publish.                                                                *)

\* The compare-and-swap on the pointer the caller read, and the two verdicts
\* on the proposed revision.
Publishable(req) ==
  /\ req.expected = pointer[req.run]
  /\ pointer[req.run] > 0 => SuccessorSemantics(Revision(req.run), req.rev)
  /\ ExecutionProgression(req.rev)

\* The publication, with the lock of the run held: the namespace, then the request.
PublishChecks(c) ==
  /\ At(c, "publish")
  /\ LET req == caller[c].request IN
     IF /\ lock[req.run] = NoOne
        /\ NamespaceReads
        /\ pointer[req.run] > 0 => Reads(req.run)
        /\ Publishable(req)
     THEN /\ lock' = [lock EXCEPT ![req.run] = c]
          /\ Goto(c, IF Orphan(req.run) THEN "adopt" ELSE "stage")
     ELSE Fails(c) /\ UNCHANGED lock
  /\ UNCHANGED <<store, registries, launches, calls, faults>>

\* _adopt_orphan: the orphan becomes current when it is a legal child; the
\* caller goes on only when it is the update it meant.
AdoptOrphan(c) ==
  /\ At(c, "adopt")
  /\ LET req == caller[c].request
         orphan == revs[req.run][pointer[req.run] + 1]
     IN IF pointer[req.run] > 0 /\ ~SuccessorSemantics(Revision(req.run), orphan)
        THEN Fails(c) /\ Free(req.run) /\ UNCHANGED pointer
        ELSE /\ pointer' = [pointer EXCEPT ![req.run] = @ + 1]
             /\ IF orphan = req.rev THEN Goto(c, "replay") /\ UNCHANGED lock
                ELSE Fails(c) /\ Free(req.run)
  /\ UNCHANGED <<revs, registries, launches, calls, faults>>

\* The staged revision is renamed into place: an orphan until the pointer moves.
StageRevision(c) ==
  /\ At(c, "stage")
  /\ revs' = [revs EXCEPT ![caller[c].request.run] = Append(@, caller[c].request.rev)]
  /\ Goto(c, "point")
  /\ UNCHANGED <<pointer, registries, lock, launches, calls, faults>>

\* _publish_pointer: the commit.
PublishPointer(c) ==
  /\ At(c, "point")
  /\ pointer' = [pointer EXCEPT ![caller[c].request.run] = @ + 1]
  /\ Goto(c, "replay")
  /\ UNCHANGED <<revs, registries, lock, launches, calls, faults>>

\* The published pointer is read back under the lock, which is then released.
Replay(c) ==
  /\ At(c, "replay")
  /\ IF Reads(caller[c].request.run) THEN Goto(c, caller[c].next) ELSE Fails(c)
  /\ Free(caller[c].request.run)
  /\ UNCHANGED <<store, registries, launches, calls, faults>>

\* The call returns the run it reads, or the error of that read.
Answer(c) ==
  /\ At(c, "answer")
  /\ Fails(c)
  /\ UNCHANGED <<store, registries, lock, launches, calls, faults>>

\* The process dies: its locks are the operating system's to release.
Crash(c) ==
  /\ ~At(c, "idle")
  /\ faults > 0
  /\ faults' = faults - 1
  /\ Fails(c)
  /\ FreeAll(c)
  /\ UNCHANGED <<store, registries, launches, calls>>

\* The write or the flush of an identity claim fails: the file stays as it is and
\* the execution is recorded as one whose identity is not reserved.
ClaimWriteError(c) ==
  /\ At(c, "reserve_write")
  /\ faults > 0
  /\ faults' = faults - 1
  /\ caller' = [caller EXCEPT ![c].pc = "conclude", ![c].audit = Unreserved(c, "registry_corrupt")]
  /\ Free("identities")
  /\ UNCHANGED <<store, registries, launches, calls>>

----------------------------------------------------------------------------
(* The store at the start: each run of a scenario has executed some roles   *)
(* one by one and may have the next one confirmed.  Identities and          *)
(* identifiers of that past start at a base of the run's own.               *)

Executed(r, base) ==
  ExecutionAudit(r, Outcome("succeeded", base + r, base + r, TRUE), "none", base + r)

\* The artifacts of a role that is requested (0), confirmed (1), admitted (2), executed (3).
PastRole(r, stage, base) ==
  LET resultOf(p) == RoleResult(p, base + p) IN
  [request |-> RoleRequest(r, resultOf),
   confirmation |-> IF stage >= 1 THEN RoleConfirmation(r, base + r, base + r, 0) ELSE NoArtifact,
   admission |-> IF stage >= 2 THEN Admission(r, 0) ELSE NoArtifact,
   result |-> IF stage = 3 THEN RoleResult(r, base + r) ELSE NoArtifact,
   audit |-> IF stage = 3 THEN Executed(r, base) ELSE NoArtifact]

\* The i-th revision of a run whose roles were executed one by one: three
\* revisions a role after the first.
PastRevision(i, base) ==
  LET role == (i + 1) \div 3
      stage == i + 2 - 3 * role
      done == IF stage = 3 THEN role ELSE role - 1
  IN [status |-> IF stage = 2 THEN "in_progress"
                 ELSE IF stage = 1 \/ role = 0 THEN "approval_required"
                 ELSE StatusAfterSuccess(role),
      art |-> [r \in Roles |->
                 IF r <= done THEN PastRole(r, 3, base)
                 ELSE IF r = role THEN PastRole(r, stage, base)
                 ELSE IF \/ r <= Independent
                         \/ r = Adjudicator /\ done >= Independent
                         \/ r = ReportWriter /\ done >= Adjudicator
                 THEN PastRole(r, 0, base) ELSE NoArtifacts]]
Past(s) ==
  [i \in 1..(1 + 3 * s.done + IF s.confirmed THEN 1 ELSE 0) |-> PastRevision(i, s.base)]

StartsWith(s) ==
  LET ran == {p \in (DOMAIN s) \X Roles : p[2] <= s[p[1]].done}
      confirmed == ran \cup {p \in (DOMAIN s) \X Roles :
                               s[p[1]].confirmed /\ p[2] = s[p[1]].done + 1}
      keys(kind, pairs) == {<<kind, s[p[1]].base + p[2]>> : p \in pairs}
      owner(k, pairs) == CHOOSE p \in pairs : k[2] = s[p[1]].base + p[2]
  IN /\ revs = [run \in Runs |-> IF run \in DOMAIN s THEN Past(s[run]) ELSE <<>>]
     /\ pointer = [run \in Runs |-> IF run \in DOMAIN s THEN Len(Past(s[run])) ELSE 0]
     /\ identity = [k \in keys("thread", ran) \cup keys("turn", ran) |->
          LET p == owner(k, ran)
          IN [kind |-> "claim", run |-> p[1], audit |-> Executed(p[2], s[p[1]].base)]]
     /\ identifier = [k \in keys("confirmation", confirmed) \cup keys("idempotency", confirmed) |->
          LET p == owner(k, confirmed) IN [kind |-> "claim", run |-> p[1], role |-> p[2]]]

Init ==
  /\ \E s \in Scenarios : StartsWith(s.runs) /\ calls = s.calls /\ faults = s.faults
  /\ lock = [l \in Runs \cup {"identities", "identifiers"} |-> NoOne]
  /\ caller = [c \in Callers |-> Idle]
  /\ launches = <<>>

Api(c) == PrepareRun(c) \/ ConfirmRole(c) \/ ExecuteConfirmedRole(c)
Confirming(c) == \/ ClaimConfirmationIdentifiers(c) \/ CreateIdentifierClaim(c)
                 \/ WriteIdentifierClaim(c) \/ PublishConfirmation(c)
Executing(c) == \/ AcquireHistory(c) \/ AdmitRoleRequest(c) \/ ReadAdmission(c) \/ Launch(c)
                \/ TransportAnswered(c) \/ ClaimExecutionIdentity(c) \/ CreateIdentityClaim(c)
                \/ WriteIdentityClaim(c) \/ IdentityReserved(c) \/ PublishExecution(c)
Publishing(c) == \/ PublishChecks(c) \/ AdoptOrphan(c) \/ StageRevision(c) \/ PublishPointer(c)
                 \/ Replay(c) \/ Answer(c)
Faulty(c) == Crash(c) \/ ClaimWriteError(c)

Next == \E c \in Callers : Api(c) \/ Confirming(c) \/ Executing(c) \/ Publishing(c) \/ Faulty(c)

Spec == Init /\ [][Next]_vars

----------------------------------------------------------------------------
Claims == [kind : {"torn"}] \cup [kind : {"claim"}, run : Runs, role : Roles]
            \cup {c \in {identity[k] : k \in DOMAIN identity} : c # Torn => c.run \in Runs}

\* A lock is held by a caller that is inside its critical section; one orphan at
\* most lies beyond the pointer of a run; every claim file has its place.
TypeOK ==
  /\ \A run \in Runs : pointer[run] \in 0..Len(revs[run]) /\ Len(revs[run]) <= pointer[run] + 1
  /\ \A run \in Runs : \A i \in DOMAIN revs[run] :
       revs[run][i].status \in OpenStatuses \cup TerminalStatuses
  /\ \A l \in DOMAIN lock : lock[l] # NoOne =>
       caller[lock[l]].pc \in (CASE l = "identities" -> {"verify_history", "reserving", "reserve_write"}
                                [] l = "identifiers" -> {"claiming", "claim_write"}
                                [] OTHER -> {"adopt", "stage", "point", "replay"})
  /\ {identity[k] : k \in DOMAIN identity} \cup {identifier[k] : k \in DOMAIN identifier} \subseteq Claims
  /\ calls \in Nat /\ faults \in Nat

\* No role of a run is ever launched twice, and each launch has its admission in
\* the published run: whatever crashes, orphan revisions that are adopted later,
\* executors that race on one role or admissions with identical bytes do
\* (assert_no_replay, the admission published before transport.execute).
LaunchedOnceOnRecord ==
  /\ \A i, j \in DOMAIN launches : launches[i] = launches[j] => i = j
  /\ \A i \in DOMAIN launches :
       LET l == launches[i] IN pointer[l.run] > 0 /\ Has(Revision(l.run).art, l.role, "admission")

\* While an execution is under way its run is open, every earlier role has its
\* result in the published revision, and no other execution of the run is under
\* way (BRIDGE_ROLE_ORDER is serial across processes).
TurnsAreSerial ==
  \A c \in Callers : caller[c].pc \in {"transport", "reserve", "reserving", "reserve_write", "conclude"} =>
    LET cur == Revision(caller[c].run) IN
    /\ cur.status \in OpenStatuses
    /\ \A p \in Prior(caller[c].role) : Has(cur.art, p, "result")
    /\ OpenAdmissions(cur.art) = {caller[c].role}
    /\ \A d \in Callers \ {c} : At(d, "transport") => caller[d].run # caller[c].run

\* Every role runs once, on record and in its turn, across processes that race,
\* crash and repeat each other's calls (execute_confirmed_role).
ExecutionIsSerial == LaunchedOnceOnRecord /\ TurnsAreSerial

Published == {p \in Runs \X Roles : pointer[p[1]] > 0 /\ Has(Revision(p[1]).art, p[2], "audit")}
AuditOf(p) == Revision(p[1]).art[p[2]].audit
Approved == {p \in Runs \X Roles : pointer[p[1]] > 0 /\ Has(Revision(p[1]).art, p[2], "confirmation")}
ConfirmationOf(p) == Revision(p[1]).art[p[2]].confirmation

\* No two published executions own the same thread or turn, unless one of them
\* says that its identity was not reserved; no two published confirmations, of
\* whatever runs, share a confirmation id or an idempotency key.
IdentifiersAreExclusive ==
  /\ \A p, q \in Published :
       /\ p # q
       /\ AuditOf(p).reason \in {"none", "transport"} /\ AuditOf(q).reason \in {"none", "transport"}
       => ObservedIdentities(AuditOf(p).outcome) \cap ObservedIdentities(AuditOf(q).outcome) = {}
  /\ \A p, q \in Approved : p # q =>
       /\ ConfirmationOf(p).cid # ConfirmationOf(q).cid
       /\ ConfirmationOf(p).key # ConfirmationOf(q).key

\* While no claim file is half written, every published run can be read: no
\* interleaving of publications and claims leaves a run whose audits or
\* confirmations do not match the registries (read_current fails closed).
PublishedRunsRead == NamespaceReads => \A run \in Runs : pointer[run] > 0 => Reads(run)

\* What a run has published stays: revisions are never rewritten, the pointer
\* never moves back, and a run with a terminal status never changes.
RunsOnlyGrow ==
  [][\A run \in Runs :
       /\ pointer'[run] >= pointer[run]
       /\ \A i \in 1..pointer[run] : revs'[run][i] = revs[run][i]
       /\ (pointer[run] > 0 /\ Revision(run).status \in TerminalStatuses)
            => pointer'[run] = pointer[run]]_vars
=============================================================================

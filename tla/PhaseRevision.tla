--------------------------- MODULE PhaseRevision ---------------------------
(***************************************************************************)
(* The coordinated end of a run (phases/revision_coordinator.py and its    *)
(* callers in orchestrator.py): a bundle of trace, publication request and *)
(* transition plan is prepared from the machine, published as the first    *)
(* revision of the run, and only the authorization that this publication   *)
(* issued lets the machine complete.  Several threads of one process share *)
(* the machine, the coordinator and the bundles; a budget failure may be   *)
(* projected into the machine between any two of their steps.              *)
(*                                                                         *)
(* The revision store is taken by what RevisionStore shows of it: a        *)
(* publication takes effect at one point, the same transaction again is    *)
(* "current_committed", and an error says whether the effect is unknown.   *)
(***************************************************************************)
EXTENDS WorkflowMachine

CONSTANTS Drivers,   \* the threads
          Bundles    \* the bundles they may prepare, all of the same run

ASSUME BundleAssumption == None \notin Bundles

VARIABLES
    machine,          \* the state machine, under its transition lock
    bundles,          \* bundle -> what was prepared
    drivers,          \* thread -> where it stands, with which bundle, and its last answer
    head,             \* the revision that is current in the store: a bundle, or none
    debris,           \* a revision directory that no pointer names
    published,        \* _published_bundles
    authorizations,   \* _authorizations
    applied           \* the bundles whose transition was applied, in order

revisionVars == <<machine, bundles, drivers, head, debris, published, authorizations, applied>>

NoBundle == [plan |-> 0, trace |-> None]
Resting == [at |-> "rest", bundle |-> None, outcome |-> None, answer |-> None]

\* What _validate_trace finds in a bundle: nothing to object, or the failure that it names.
Traces == {"valid", "SECRET_DETECTED", "UNSUPPORTED_PAYLOAD", "PERSISTENCE_DENIED", "INVALID_TRACE"}

ReadyToSynthesize ==
    LET through(m, s, t) == transition(transition(m, s), t)
    IN  through(through(through(WorkflowStateMachine, "NORMALIZE", "DATA_VALIDATION"),
                        "TASK_ROUTING", "TOOL_AND_RESEARCH"),
                "CRITIQUE", "ADJUDICATION")

RevisionInit ==
    /\ machine = ReadyToSynthesize
    /\ bundles = [b \in Bundles |-> NoBundle]
    /\ drivers = [d \in Drivers |-> Resting]
    /\ head = None
    /\ debris = FALSE
    /\ published = {}
    /\ authorizations = {}
    /\ applied = <<>>

Says(d, answer) == drivers' = [drivers EXCEPT ![d] = [Resting EXCEPT !.answer = answer]]
Rests(d) == drivers[d].at = "rest"
Durable == <<head, debris>>
Coordinator == <<published, authorizations>>

-----------------------------------------------------------------------------
\* The plan commits to the events of the machine so far; it is issued in FINAL_SYNTHESIS only.
_issue_transition_plan == Len(machine.events)
_is_issued_plan(b) == bundles[b] # NoBundle

\* _prepare_revision_bundle.
PrepareBundle(d) ==
    /\ Rests(d)
    /\ \E b \in Bundles, t \in Traces, typed \in BOOLEAN :
          /\ bundles[b] = NoBundle
          /\ IF machine.state = "FINAL_SYNTHESIS" /\ typed
             THEN /\ bundles' = [bundles EXCEPT ![b] = [plan |-> _issue_transition_plan, trace |-> t]]
                  /\ UNCHANGED drivers
             ELSE /\ Says(d, IF machine.state # "FINAL_SYNTHESIS" THEN "INVALID_PLAN"
                             ELSE "INVALID_TRACE")
                  /\ UNCHANGED bundles
    /\ UNCHANGED <<machine, head, debris, published, authorizations, applied>>

_initial_history_is_empty == head = None /\ ~debris

\* publish, before the store: the trace, then the history of the run.
ValidateBundle(d) ==
    /\ Rests(d)
    /\ \E b \in Bundles :
          /\ _is_issued_plan(b)
          /\ IF bundles[b].trace # "valid" THEN Says(d, bundles[b].trace)
             ELSE IF b \notin published /\ ~_initial_history_is_empty THEN Says(d, "PUBLISH_CONFLICT")
             ELSE drivers' = [drivers EXCEPT ![d] = [Resting EXCEPT !.at = "store", !.bundle = b]]
    /\ UNCHANGED <<machine, bundles, head, debris, published, authorizations, applied>>

\* store.publish: published, already committed, refused without effect, or in doubt.
StorePublishes(d) ==
    /\ drivers[d].at = "store"
    /\ LET b == drivers[d].bundle
           Ends(kind) == drivers' = [drivers EXCEPT ![d].at = "confirm", ![d].outcome = kind]
       IN  \/ head = None /\ head' = b /\ Ends("published") /\ UNCHANGED debris
           \/ head = b /\ Ends("current_committed") /\ UNCHANGED Durable
           \/ /\ Says(d, "PERSISTENCE_DENIED")
              /\ UNCHANGED Durable
           \/ /\ Says(d, "PUBLISH_CONFLICT")
              /\ debris' \in {debris, TRUE}
              /\ UNCHANGED head
           \/ /\ Says(d, "PUBLISH_UNCERTAIN")
              /\ head' \in {head, IF head = None THEN b ELSE head}
              /\ debris' \in {debris, TRUE}
    /\ UNCHANGED <<machine, bundles, published, authorizations, applied>>

\* The outcome and a second read of the store must name this very transaction.
ConfirmedBy(b, kind) == kind \in {"published", "current_committed"} /\ head = b

_issue_authorization(b, kind) == [bundle |-> b, kind |-> kind]

\* publish, after the store.
ConfirmPublication(d) ==
    /\ drivers[d].at = "confirm"
    /\ LET b == drivers[d].bundle
           kind == drivers[d].outcome
       IN  \E readable \in BOOLEAN :
              CASE ~readable \/ ~ConfirmedBy(b, kind) ->
                      Says(d, "PUBLISH_UNCERTAIN") /\ UNCHANGED Coordinator
                [] readable /\ ConfirmedBy(b, kind) /\ kind = "current_committed" /\ b \notin published ->
                      Says(d, "PUBLISH_CONFLICT") /\ UNCHANGED Coordinator
                [] OTHER ->
                      /\ Says(d, "authorized")
                      /\ published' = published \cup {b}
                      /\ authorizations' = authorizations \cup {_issue_authorization(b, kind)}
    /\ UNCHANGED <<machine, bundles, head, debris, applied>>

\* An authorization that no publication issued is refused like one of another bundle.
Forged == [bundle |-> None, kind |-> "published"]

\* mutant: the authorization of another bundle is accepted.
Mut_authorization_matches(b, a) == a \in authorizations /\ _is_issued_plan(b)

\* An authorization is good for the bundle it was issued for, as long as its trace is valid.
authorization_matches(b, a) ==
    /\ a \in authorizations
    /\ a.bundle = b
    /\ _is_issued_plan(b)
    /\ bundles[b].trace = "valid"

_revision_plan_matches_machine(b) ==
    /\ _is_issued_plan(b)
    /\ Len(machine.events) = bundles[b].plan
    /\ machine.state = "FINAL_SYNTHESIS"

_revision_transition_already_applied(b) ==
    /\ machine.state = "COMPLETED"
    /\ Len(machine.events) = bundles[b].plan + 1
    /\ _is_issued_plan(b)

\* _apply_revision_transition, under the lock of the machine; the fault hooks around the
\* transition may raise.
ApplyTransition(d) ==
    /\ Rests(d)
    /\ \E b \in Bundles, a \in authorizations \cup {Forged}, fault \in {None, "before", "after"} :
          /\ bundles[b] # NoBundle
          /\ IF _revision_transition_already_applied(b)
             THEN /\ Says(d, IF authorization_matches(b, a) THEN "already_applied"
                             ELSE "AUTHORIZATION_MISMATCH")
                  /\ UNCHANGED <<machine, applied>>
             ELSE IF ~_revision_plan_matches_machine(b) \/ ~authorization_matches(b, a)
             THEN Says(d, "AUTHORIZATION_MISMATCH") /\ UNCHANGED <<machine, applied>>
             ELSE IF fault = "before"
             THEN Says(d, "APPLY_FAILED") /\ UNCHANGED <<machine, applied>>
             ELSE /\ machine' = transition(machine, "COMPLETED")
                  /\ applied' = Append(applied, b)
                  /\ Says(d, IF fault = "after" THEN "already_applied" ELSE "applied")
    /\ UNCHANGED <<bundles, head, debris, published, authorizations>>

\* The run reaches its synthesis; the budget fails, before or after the transition.
MachineMoves ==
    /\ machine' \in {project_budget_failure(machine)}
                    \cup (IF machine.state = "ADJUDICATION"
                          THEN {transition(machine, "FINAL_SYNTHESIS")} ELSE {})
    /\ UNCHANGED <<bundles, drivers, head, debris, published, authorizations, applied>>

RevisionStep(d) ==
    PrepareBundle(d) \/ ValidateBundle(d) \/ StorePublishes(d) \/ ConfirmPublication(d)
    \/ ApplyTransition(d)

RevisionNext == MachineMoves \/ \E d \in Drivers : RevisionStep(d)

-----------------------------------------------------------------------------
\* A machine that completes does so once, for the bundle whose revision is current in the
\* store; every authorization is of that revision; lost answers, repeated publications, two
\* threads with one bundle and a late budget failure never complete a run twice or without its
\* revision (revision_coordinator.py:1141, orchestrator.py:1863).
CompletionIsDurable ==
    /\ ~machine.illegal
    /\ Len(applied) <= 1
    /\ machine.state = "COMPLETED" => Len(applied) = 1
    /\ \A i \in DOMAIN applied : applied[i] = head
    /\ \A a \in authorizations : a.bundle = head
=============================================================================

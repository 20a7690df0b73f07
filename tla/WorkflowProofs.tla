--------------------------- MODULE WorkflowProofs ---------------------------
(***************************************************************************)
(* Proofs about the two flows of MCWorkflow, for any number of processes,  *)
(* cases, threads and bundles, and any limits: a run of the orchestrator   *)
(* (Workflow) and the coordinated publication of its end (PhaseRevision).  *)
(***************************************************************************)
EXTENDS MCWorkflow, FiniteSetTheorems, TLAPS

-----------------------------------------------------------------------------
(* The state machine.                                                      *)

Event == [source : RunState, target : RunState]
Machine == [state : RunState, events : Seq(Event), rounds : Nat, illegal : BOOLEAN]

LEMMA TransitionTable ==
    /\ \A s \in RunState : ALLOWED_TRANSITIONS[s] \subseteq RunState
    /\ \A s \in RunState \ TerminalStates : Failed \in ALLOWED_TRANSITIONS[s]
    /\ \A s \in RunState : "COMPLETED" \in ALLOWED_TRANSITIONS[s] => s = "FINAL_SYNTHESIS"
    /\ \A s \in TerminalStates : ALLOWED_TRANSITIONS[s] = {}
    /\ "NORMALIZE" \in ALLOWED_TRANSITIONS["INTAKE"]
    /\ "DATA_VALIDATION" \in ALLOWED_TRANSITIONS["NORMALIZE"]
    /\ "TASK_ROUTING" \in ALLOWED_TRANSITIONS["DATA_VALIDATION"]
    /\ "INDEPENDENT_ANALYSIS" \in ALLOWED_TRANSITIONS["TASK_ROUTING"]
    /\ "TOOL_AND_RESEARCH" \in ALLOWED_TRANSITIONS["TASK_ROUTING"]
    /\ "TOOL_AND_RESEARCH" \in ALLOWED_TRANSITIONS["INDEPENDENT_ANALYSIS"]
    /\ "CRITIQUE" \in ALLOWED_TRANSITIONS["TOOL_AND_RESEARCH"]
    /\ "ADJUDICATION" \in ALLOWED_TRANSITIONS["CRITIQUE"]
    /\ "HUMAN_REVIEW_REQUIRED" \in ALLOWED_TRANSITIONS["ADJUDICATION"]
    /\ "FINAL_SYNTHESIS" \in ALLOWED_TRANSITIONS["ADJUDICATION"]
    /\ Failed \in ALLOWED_TRANSITIONS["HUMAN_REVIEW_REQUIRED"]
    /\ "COMPLETED" \in ALLOWED_TRANSITIONS["FINAL_SYNTHESIS"]
  BY DEF ALLOWED_TRANSITIONS, RunState, TerminalStates, Failed

LEMMA AppendStep ==
    ASSUME NEW m \in Machine, NEW t \in RunState
    PROVE  /\ Append_(m, t) \in Machine
           /\ Append_(m, t).state = t
           /\ Append_(m, t).illegal = m.illegal
           /\ Len(Append_(m, t).events) = Len(m.events) + 1
           /\ Append_(m, t).events = Append(m.events, StateEvent(m.state, t))
<1>1. /\ m.state \in RunState /\ m.events \in Seq(Event)
  BY DEF Machine
<1>2. StateEvent(m.state, t) \in Event
  BY <1>1 DEF StateEvent, Event
<1> DEFINE v == Append(m.events, StateEvent(m.state, t))
<1>3. v \in Seq(Event) /\ Len(v) = Len(m.events) + 1
  BY <1>1, <1>2
<1> HIDE DEF v
<1>4. Append_(m, t) = [m EXCEPT !.events = v, !.state = t]
  BY DEF Append_, v
<1>5. Append_(m, t) \in Machine /\ Append_(m, t).state = t /\ Append_(m, t).events = v
  BY <1>3, <1>4 DEF Machine
<1>7. Append_(m, t).illegal = m.illegal
  BY <1>4
<1> QED
  BY <1>3, <1>5, <1>7 DEF v

\* A transition that the table allows is taken; another one only marks the machine.
LEMMA TransitionStep ==
    ASSUME NEW m \in Machine, NEW t \in RunState
    PROVE  /\ transition(m, t) \in Machine
           /\ t \in ALLOWED_TRANSITIONS[m.state] => transition(m, t) = Append_(m, t)
  BY AppendStep DEF transition, Machine

LEMMA TakenStep ==
    ASSUME NEW m \in Machine, NEW t \in RunState, t \in ALLOWED_TRANSITIONS[m.state], ~m.illegal
    PROVE  /\ transition(m, t) \in Machine /\ transition(m, t).state = t /\ ~transition(m, t).illegal
           /\ transition(m, t).events = Append(m.events, StateEvent(m.state, t))
           /\ Len(transition(m, t).events) = Len(m.events) + 1
<1>1. transition(m, t) = Append_(m, t)
  BY TransitionStep
<1> QED
  BY <1>1, AppendStep

\* A projected failure ends in the failed state and marks nothing.
LEMMA ProjectionStep ==
    ASSUME NEW m \in Machine, m.state = "COMPLETED" => Len(m.events) > 0
    PROVE  /\ project_budget_failure(m) \in Machine
           /\ project_budget_failure(m).state = Failed
           /\ project_budget_failure(m).illegal = m.illegal
<1>1. CASE m.state = "COMPLETED"
  <2>1. Len(m.events) \in 1 .. Len(m.events) /\ m.events \in Seq(Event)
    BY <1>1 DEF Machine
  <2>2. StateEvent("FINAL_SYNTHESIS", Failed) \in Event /\ Failed \in RunState
    BY DEF StateEvent, Event, RunState, Failed
  <2> DEFINE v == [m.events EXCEPT ![Len(m.events)] = StateEvent("FINAL_SYNTHESIS", Failed)]
  <2>3. v \in Seq(Event)
    BY <2>1, <2>2
  <2>4. project_budget_failure(m) = [m EXCEPT !.events = v, !.state = Failed]
    BY <1>1 DEF project_budget_failure, Failed, v
  <2> HIDE DEF v
  <2> QED
    BY <2>2, <2>3, <2>4 DEF Machine
<1>2. CASE m.state = Failed
  BY <1>2 DEF project_budget_failure, Failed
<1>3. CASE m.state \notin {"COMPLETED", Failed}
  <2>1. project_budget_failure(m) = Append_(m, Failed)
    BY <1>3 DEF project_budget_failure
  <2>2. Failed \in RunState
    BY DEF RunState, Failed
  <2> QED
    BY <2>1, <2>2, AppendStep
<1> QED
  BY <1>1, <1>2, <1>3

-----------------------------------------------------------------------------
(***************************************************************************)
(* The coordinated publication.  Each bundle that some thread works on is  *)
(* a real one, the authorizations and the applied transition name the      *)
(* revision in the store, and a machine is completed only by the one       *)
(* transition that was applied.                                            *)
(***************************************************************************)
DriverAnswer ==
    {None, "INVALID_PLAN", "INVALID_TRACE", "SECRET_DETECTED", "UNSUPPORTED_PAYLOAD",
     "PERSISTENCE_DENIED", "PUBLISH_CONFLICT", "PUBLISH_UNCERTAIN", "authorized", "already_applied",
     "AUTHORIZATION_MISMATCH", "APPLY_FAILED", "applied"}

DriverState ==
    [at : {"rest", "store", "confirm"}, bundle : Bundles \cup {None},
     outcome : {None, "published", "current_committed"}, answer : DriverAnswer]

RevisionInv ==
    /\ machine \in Machine
    /\ machine.state = "COMPLETED" => Len(machine.events) > 0
    /\ ~machine.illegal
    /\ bundles \in [Bundles -> [plan : Nat, trace : Traces \cup {None}]]
    /\ drivers \in [Drivers -> DriverState]
    /\ \A d \in Drivers : drivers[d].at # "rest" => drivers[d].bundle \in Bundles
    /\ head \in Bundles \cup {None}
    /\ authorizations \subseteq [bundle : Bundles, kind : {"published", "current_committed"}]
    /\ \A a \in authorizations : a.bundle = head
    /\ applied \in Seq(Bundles)
    /\ machine.state = "COMPLETED" => Len(applied) = 1
    /\ Len(applied) <= 1
    /\ Len(applied) = 1 => applied[1] = head /\ machine.state \in TerminalStates

LEMMA RevisionInitially == RevisionInit => RevisionInv
<1> SUFFICES ASSUME RevisionInit PROVE RevisionInv
  OBVIOUS
<1> DEFINE m0 == WorkflowStateMachine
           m1 == transition(m0, "NORMALIZE")
           m2 == transition(m1, "DATA_VALIDATION")
           m3 == transition(m2, "TASK_ROUTING")
           m4 == transition(m3, "TOOL_AND_RESEARCH")
           m5 == transition(m4, "CRITIQUE")
           m6 == transition(m5, "ADJUDICATION")
<1>0. {"INTAKE", "NORMALIZE", "DATA_VALIDATION", "TASK_ROUTING", "TOOL_AND_RESEARCH", "CRITIQUE",
       "ADJUDICATION"} \subseteq RunState
  BY DEF RunState
<1>1. m0 \in Machine /\ m0.state = "INTAKE" /\ ~m0.illegal
  BY <1>0 DEF WorkflowStateMachine, Machine
<1>8. ReadyToSynthesize = m6
  BY DEF ReadyToSynthesize
<1> HIDE DEF m0, m1, m2, m3, m4, m5, m6
<1>2. m1 \in Machine /\ m1.state = "NORMALIZE" /\ ~m1.illegal
  <2>1. "NORMALIZE" \in RunState /\ "NORMALIZE" \in ALLOWED_TRANSITIONS[m0.state]
    BY <1>0, <1>1, TransitionTable
  <2> QED
    BY <1>1, <2>1, TakenStep DEF m1
<1>3. m2 \in Machine /\ m2.state = "DATA_VALIDATION" /\ ~m2.illegal
  <2>1. "DATA_VALIDATION" \in RunState /\ "DATA_VALIDATION" \in ALLOWED_TRANSITIONS[m1.state]
    BY <1>0, <1>2, TransitionTable
  <2> QED
    BY <1>2, <2>1, TakenStep DEF m2
<1>4. m3 \in Machine /\ m3.state = "TASK_ROUTING" /\ ~m3.illegal
  <2>1. "TASK_ROUTING" \in RunState /\ "TASK_ROUTING" \in ALLOWED_TRANSITIONS[m2.state]
    BY <1>0, <1>3, TransitionTable
  <2> QED
    BY <1>3, <2>1, TakenStep DEF m3
<1>5. m4 \in Machine /\ m4.state = "TOOL_AND_RESEARCH" /\ ~m4.illegal
  <2>1. "TOOL_AND_RESEARCH" \in RunState /\ "TOOL_AND_RESEARCH" \in ALLOWED_TRANSITIONS[m3.state]
    BY <1>0, <1>4, TransitionTable
  <2> QED
    BY <1>4, <2>1, TakenStep DEF m4
<1>6. m5 \in Machine /\ m5.state = "CRITIQUE" /\ ~m5.illegal
  <2>1. "CRITIQUE" \in RunState /\ "CRITIQUE" \in ALLOWED_TRANSITIONS[m4.state]
    BY <1>0, <1>5, TransitionTable
  <2> QED
    BY <1>5, <2>1, TakenStep DEF m5
<1>7. m6 \in Machine /\ m6.state = "ADJUDICATION" /\ ~m6.illegal
  <2>1. "ADJUDICATION" \in RunState /\ "ADJUDICATION" \in ALLOWED_TRANSITIONS[m5.state]
    BY <1>0, <1>6, TransitionTable
  <2> QED
    BY <1>6, <2>1, TakenStep DEF m6
<1>9. machine \in Machine /\ machine.state = "ADJUDICATION" /\ ~machine.illegal
  BY <1>7, <1>8 DEF RevisionInit
<1>10. drivers \in [Drivers -> DriverState] /\ \A d \in Drivers : drivers[d].at = "rest"
  <2>1. Resting \in DriverState /\ Resting.at = "rest"
    BY DEF DriverState, DriverAnswer, Resting, None
  <2> QED
    BY <2>1 DEF RevisionInit
<1>12. bundles \in [Bundles -> [plan : Nat, trace : Traces \cup {None}]]
  BY DEF RevisionInit, NoBundle
<1>11. applied = <<>> /\ authorizations = {} /\ head = None
  BY DEF RevisionInit
<1> QED
  BY <1>9, <1>10, <1>11, <1>12 DEF RevisionInv

LEMMA SaysType ==
    ASSUME RevisionInv, NEW d \in Drivers, NEW a \in DriverAnswer, Says(d, a)
    PROVE  /\ drivers' \in [Drivers -> DriverState]
           /\ \A e \in Drivers : drivers'[e].at # "rest" => drivers'[e].bundle \in Bundles
<1>1. drivers' = [drivers EXCEPT ![d] = [at |-> "rest", bundle |-> None, outcome |-> None,
                                         answer |-> a]]
  <2>1. [Resting EXCEPT !.answer = a] = [at |-> "rest", bundle |-> None, outcome |-> None, answer |-> a]
    BY DEF Resting
  <2> QED
    BY <2>1 DEF Says
<1> QED
  BY <1>1 DEF RevisionInv, DriverState, None

\* The driver of a step says something, or goes on with a bundle of its own.
LEMMA OnwardType ==
    ASSUME RevisionInv, NEW d \in Drivers, NEW x \in DriverState,
           x.at # "rest" => x.bundle \in Bundles, drivers' = [drivers EXCEPT ![d] = x]
    PROVE  /\ drivers' \in [Drivers -> DriverState]
           /\ \A e \in Drivers : drivers'[e].at # "rest" => drivers'[e].bundle \in Bundles
  BY DEF RevisionInv

LEMMA PrepareKeeps ==
    ASSUME RevisionInv, NEW d \in Drivers, PrepareBundle(d) PROVE RevisionInv'
<1>1. UNCHANGED <<machine, head, authorizations, applied>>
  BY DEF PrepareBundle
<1>2. PICK b \in Bundles, t \in Traces :
        \/ bundles' = [bundles EXCEPT ![b] = [plan |-> Len(machine.events), trace |-> t]] /\ UNCHANGED drivers
        \/ UNCHANGED bundles /\ (Says(d, "INVALID_PLAN") \/ Says(d, "INVALID_TRACE"))
  BY DEF PrepareBundle, _issue_transition_plan
<1>3. /\ drivers' \in [Drivers -> DriverState]
      /\ \A e \in Drivers : drivers'[e].at # "rest" => drivers'[e].bundle \in Bundles
  <2>1. CASE UNCHANGED drivers
    BY <2>1 DEF RevisionInv
  <2>2. "INVALID_PLAN" \in DriverAnswer /\ "INVALID_TRACE" \in DriverAnswer
    BY DEF DriverAnswer
  <2> QED
    BY <1>2, <2>1, <2>2, SaysType
<1>4. bundles' \in [Bundles -> [plan : Nat, trace : Traces \cup {None}]]
  <2>1. Len(machine.events) \in Nat
    BY DEF RevisionInv, Machine
  <2>2. bundles \in [Bundles -> [plan : Nat, trace : Traces \cup {None}]]
    BY DEF RevisionInv
  <2> QED
    BY <1>2, <2>1, <2>2
<1> QED
  BY <1>1, <1>3, <1>4 DEF RevisionInv

LEMMA ValidateKeeps ==
    ASSUME RevisionInv, NEW d \in Drivers, ValidateBundle(d) PROVE RevisionInv'
<1>1. UNCHANGED <<machine, head, authorizations, applied, bundles>>
  BY DEF ValidateBundle
<1>2. PICK b \in Bundles :
        \/ bundles[b].trace # "valid" /\ Says(d, bundles[b].trace)
        \/ Says(d, "PUBLISH_CONFLICT")
        \/ drivers' = [drivers EXCEPT ![d] = [Resting EXCEPT !.at = "store", !.bundle = b]]
  BY DEF ValidateBundle
<1>3. /\ drivers' \in [Drivers -> DriverState]
      /\ \A e \in Drivers : drivers'[e].at # "rest" => drivers'[e].bundle \in Bundles
  <2>1. bundles[b].trace \in Traces \cup {None}
    BY DEF RevisionInv
  <2>2. /\ "PUBLISH_CONFLICT" \in DriverAnswer
        /\ bundles[b].trace # "valid" => bundles[b].trace \in DriverAnswer
    BY <2>1 DEF DriverAnswer, Traces
  <2>3. /\ [Resting EXCEPT !.at = "store", !.bundle = b] \in DriverState
        /\ [Resting EXCEPT !.at = "store", !.bundle = b].bundle = b
    BY DEF Resting, DriverState, DriverAnswer, None
  <2> QED
    BY <1>2, <2>2, <2>3, SaysType, OnwardType
<1> QED
  BY <1>1, <1>3 DEF RevisionInv

LEMMA StoreKeeps ==
    ASSUME RevisionInv, NEW d \in Drivers, StorePublishes(d) PROVE RevisionInv'
<1> DEFINE b == drivers[d].bundle
<1>1. UNCHANGED <<machine, bundles, authorizations, applied>> /\ b \in Bundles
  BY DEF StorePublishes, RevisionInv
<1>2. \/ \E kind \in {"published", "current_committed"} :
            drivers' = [drivers EXCEPT ![d].at = "confirm", ![d].outcome = kind]
      \/ \E a \in {"PERSISTENCE_DENIED", "PUBLISH_CONFLICT", "PUBLISH_UNCERTAIN"} : Says(d, a)
  BY DEF StorePublishes
<1>3. head' = head \/ (head = None /\ head' = b)
  BY DEF StorePublishes, Durable
<1>4. /\ drivers' \in [Drivers -> DriverState]
      /\ \A e \in Drivers : drivers'[e].at # "rest" => drivers'[e].bundle \in Bundles
  <2>1. CASE \E a \in {"PERSISTENCE_DENIED", "PUBLISH_CONFLICT", "PUBLISH_UNCERTAIN"} : Says(d, a)
    <3>1. {"PERSISTENCE_DENIED", "PUBLISH_CONFLICT", "PUBLISH_UNCERTAIN"} \subseteq DriverAnswer
      BY DEF DriverAnswer
    <3> QED
      BY <2>1, <3>1, SaysType
  <2>2. ASSUME NEW kind \in {"published", "current_committed"},
               drivers' = [drivers EXCEPT ![d].at = "confirm", ![d].outcome = kind]
        PROVE  /\ drivers' \in [Drivers -> DriverState]
               /\ \A e \in Drivers : drivers'[e].at # "rest" => drivers'[e].bundle \in Bundles
    <3> DEFINE x == [drivers[d] EXCEPT !.at = "confirm", !.outcome = kind]
    <3>1. drivers \in [Drivers -> DriverState] /\ drivers[d] \in DriverState
      BY DEF RevisionInv
    <3>2. drivers' = [drivers EXCEPT ![d] = x]
      BY <2>2, <3>1
    <3>3. x \in DriverState /\ x.bundle \in Bundles
      BY <1>1, <3>1 DEF DriverState
    <3> HIDE DEF x
    <3> QED
      BY <3>2, <3>3, OnwardType
  <2> QED
    BY <1>2, <2>1, <2>2
<1>5. CASE head' = head
  BY <1>1, <1>4, <1>5 DEF RevisionInv
<1>6. CASE head = None /\ head' = b
  <2>1. authorizations = {} /\ Len(applied) # 1
    <3>1. ASSUME NEW a \in authorizations PROVE FALSE
      BY <1>6, BundleAssumption DEF RevisionInv
    <3>2. ASSUME Len(applied) = 1 PROVE FALSE
      <4>2. applied \in Seq(Bundles)
        BY DEF RevisionInv
      <4>3. applied[1] \in Bundles
        BY <3>2, <4>2
      <4>4. applied[1] = head
        BY <3>2 DEF RevisionInv
      <4>1. applied[1] \in Bundles /\ applied[1] = head
        BY <4>3, <4>4
      <4> QED
        BY <1>6, <4>1, BundleAssumption
    <3> QED
      BY <3>1, <3>2
  <2> QED
    BY <1>1, <1>4, <1>6, <2>1 DEF RevisionInv
<1> QED
  BY <1>3, <1>5, <1>6

LEMMA ConfirmKeeps ==
    ASSUME RevisionInv, NEW d \in Drivers, ConfirmPublication(d) PROVE RevisionInv'
<1> DEFINE b == drivers[d].bundle
           kind == drivers[d].outcome
<1>1. UNCHANGED <<machine, bundles, head, applied>> /\ b \in Bundles
  BY DEF ConfirmPublication, RevisionInv
<1>2. \/ UNCHANGED authorizations /\ (Says(d, "PUBLISH_UNCERTAIN") \/ Says(d, "PUBLISH_CONFLICT"))
      \/ /\ ConfirmedBy(b, kind)
         /\ Says(d, "authorized")
         /\ authorizations' = authorizations \cup {_issue_authorization(b, kind)}
  BY DEF ConfirmPublication, Coordinator
<1>3. /\ drivers' \in [Drivers -> DriverState]
      /\ \A e \in Drivers : drivers'[e].at # "rest" => drivers'[e].bundle \in Bundles
  <2>1. {"PUBLISH_UNCERTAIN", "PUBLISH_CONFLICT", "authorized"} \subseteq DriverAnswer
    BY DEF DriverAnswer
  <2> QED
    BY <1>2, <2>1, SaysType
<1>4. /\ authorizations' \subseteq [bundle : Bundles, kind : {"published", "current_committed"}]
      /\ \A a \in authorizations' : a.bundle = head
  BY <1>1, <1>2 DEF RevisionInv, _issue_authorization, ConfirmedBy
<1> QED
  BY <1>1, <1>3, <1>4 DEF RevisionInv

LEMMA ApplyKeeps ==
    ASSUME RevisionInv, NEW d \in Drivers, ApplyTransition(d) PROVE RevisionInv'
<1>1. UNCHANGED <<bundles, head, authorizations>>
  BY DEF ApplyTransition
<1>2. PICK b \in Bundles, a \in authorizations \cup {Forged} :
        /\ \E s \in {"already_applied", "AUTHORIZATION_MISMATCH", "APPLY_FAILED", "applied"} : Says(d, s)
        /\ \/ UNCHANGED <<machine, applied>>
           \/ /\ _revision_plan_matches_machine(b) /\ authorization_matches(b, a)
              /\ machine' = transition(machine, "COMPLETED")
              /\ applied' = Append(applied, b)
  BY DEF ApplyTransition
<1>3. /\ drivers' \in [Drivers -> DriverState]
      /\ \A e \in Drivers : drivers'[e].at # "rest" => drivers'[e].bundle \in Bundles
  <2>1. {"already_applied", "AUTHORIZATION_MISMATCH", "APPLY_FAILED", "applied"} \subseteq DriverAnswer
    BY DEF DriverAnswer
  <2> QED
    BY <1>2, <2>1, SaysType
<1>4. CASE UNCHANGED <<machine, applied>>
  BY <1>1, <1>3, <1>4 DEF RevisionInv
<1>5. CASE /\ _revision_plan_matches_machine(b) /\ authorization_matches(b, a)
           /\ machine' = transition(machine, "COMPLETED")
           /\ applied' = Append(applied, b)
  <2>1. machine.state = "FINAL_SYNTHESIS" /\ b = head
    BY <1>5 DEF _revision_plan_matches_machine, authorization_matches, RevisionInv
  <2>2. Len(applied) = 0
    <3>1. Len(applied) <= 1 /\ applied \in Seq(Bundles)
      BY DEF RevisionInv
    <3>2. machine.state \notin TerminalStates
      BY <2>1 DEF TerminalStates, Failed
    <3>3. Len(applied) # 1
      BY <3>2, Zenon DEF RevisionInv
    <3>4. Len(applied) \in Nat
      BY <3>1
    <3> DEFINE n == Len(applied)
    <3>5. n \in Nat /\ n <= 1 /\ n # 1
      BY <3>1, <3>3, <3>4
    <3> HIDE DEF n
    <3>6. n = 0
      BY <3>5
    <3> QED
      BY <3>6 DEF n
  <2>3. applied' \in Seq(Bundles) /\ Len(applied') = 1 /\ applied'[1] = head
    BY <1>5, <2>1, <2>2 DEF RevisionInv
  <2>4. /\ machine' \in Machine /\ machine'.state = "COMPLETED" /\ ~machine'.illegal
        /\ Len(machine'.events) > 0
    <3>1. "COMPLETED" \in RunState /\ "COMPLETED" \in ALLOWED_TRANSITIONS[machine.state]
      BY <2>1, TransitionTable DEF RunState
    <3>2. machine \in Machine /\ ~machine.illegal /\ Len(machine.events) \in Nat
      BY DEF RevisionInv, Machine
    <3> QED
      BY <1>5, <3>1, <3>2, TakenStep
  <2>5. "COMPLETED" \in TerminalStates
    BY DEF TerminalStates
  <2> QED
    BY <1>1, <1>3, <2>3, <2>4, <2>5 DEF RevisionInv
<1> QED
  BY <1>2, <1>4, <1>5

LEMMA MachineMovesKeeps ==
    ASSUME RevisionInv, MachineMoves PROVE RevisionInv'
<1>1. UNCHANGED <<bundles, drivers, head, authorizations, applied>>
  BY DEF MachineMoves
<1>2. machine \in Machine /\ ~machine.illegal
  BY DEF RevisionInv
<1>3. CASE machine' = project_budget_failure(machine)
  <2>1. machine' \in Machine /\ machine'.state = Failed /\ ~machine'.illegal
    BY <1>3, <1>2, ProjectionStep DEF RevisionInv
  <2> QED
    BY <1>1, <2>1 DEF RevisionInv, TerminalStates, Failed
<1>4. CASE machine.state = "ADJUDICATION" /\ machine' = transition(machine, "FINAL_SYNTHESIS")
  <2>1. "FINAL_SYNTHESIS" \in RunState /\ "FINAL_SYNTHESIS" \in ALLOWED_TRANSITIONS[machine.state]
    BY <1>4, TransitionTable DEF RunState
  <2>2. machine' \in Machine /\ machine'.state = "FINAL_SYNTHESIS" /\ ~machine'.illegal
    BY <1>2, <1>4, <2>1, TakenStep
  <2>3. Len(applied) # 1
    BY <1>4 DEF RevisionInv, TerminalStates, Failed
  <2> QED
    BY <1>1, <2>2, <2>3 DEF RevisionInv
<1> QED
  BY <1>3, <1>4 DEF MachineMoves

LEMMA RevisionNextKeeps == RevisionInv /\ [RevisionNext]_revisionVars => RevisionInv'
<1> SUFFICES ASSUME RevisionInv, [RevisionNext]_revisionVars PROVE RevisionInv'
  OBVIOUS
<1>1. CASE UNCHANGED revisionVars
  BY <1>1 DEF revisionVars, RevisionInv
<1>2. CASE MachineMoves
  BY <1>2, MachineMovesKeeps
<1>3. ASSUME NEW d \in Drivers, RevisionStep(d) PROVE RevisionInv'
  BY <1>3, PrepareKeeps, ValidateKeeps, StoreKeeps, ConfirmKeeps, ApplyKeeps DEF RevisionStep
<1> QED
  BY <1>1, <1>2, <1>3 DEF RevisionNext

LEMMA MCRevision == MCSpec => []RevisionInv
<1>1. MCInit => RevisionInv
  BY RevisionInitially DEF MCInit
<1>2. RevisionInv /\ [MCNext]_<<flow, vars, revisionVars>> => RevisionInv'
  BY RevisionNextKeeps DEF MCNext
<1> QED
  BY <1>1, <1>2, PTL DEF MCSpec

\* A run completes at most once, for the bundle whose revision is current, and
\* whatever authorizes a completion is of that revision, for any number of threads
\* and bundles.
THEOREM CompletionDurable == MCSpec => []CompletionIsDurable
<1>1. RevisionInv => CompletionIsDurable
  <2> SUFFICES ASSUME RevisionInv PROVE CompletionIsDurable
    OBVIOUS
  <2>0. applied \in Seq(Bundles) /\ Len(applied) <= 1
    BY DEF RevisionInv
  <2>1. Len(applied) \in 0 .. 1 /\ DOMAIN applied = 1 .. Len(applied)
    BY <2>0
  <2>2. \A i \in DOMAIN applied : i = 1 /\ Len(applied) = 1
    BY <2>1
  <2>3. \A i \in DOMAIN applied : applied[i] = head
    BY <2>2 DEF RevisionInv
  <2> QED
    BY <2>1, <2>3 DEF RevisionInv, CompletionIsDurable
<1> QED
  BY <1>1, MCRevision, PTL

-----------------------------------------------------------------------------
(***************************************************************************)
(* A run.  Its events are a path of the table of transitions: each starts  *)
(* where the one before it ended, and the last one ends in the state.      *)
(***************************************************************************)
SourceOf(e, i) == IF i = 1 THEN "INTAKE" ELSE e[i - 1].target
EndOf(e) == IF e = <<>> THEN "INTAKE" ELSE e[Len(e)].target

Legal(m) ==
    /\ ~m.illegal
    /\ m.state = EndOf(m.events)
    /\ \A i \in 1 .. Len(m.events) : /\ m.events[i].source = SourceOf(m.events, i)
                                     /\ m.events[i].target \in ALLOWED_TRANSITIONS[m.events[i].source]

\* The same, but for the last event, which the handler of run appended.
Handled(m) ==
    /\ ~m.illegal
    /\ m.state = EndOf(m.events)
    /\ \A i \in 1 .. Len(m.events) :
          /\ m.events[i].source = SourceOf(m.events, i)
          /\ m.events[i].target \in ALLOWED_TRANSITIONS[m.events[i].source] \/ i = Len(m.events)

LEMMA AppendedPath ==
    ASSUME NEW e \in Seq(Event), NEW x \in Event
    PROVE  LET f == Append(e, x)
           IN  /\ Len(f) = Len(e) + 1 /\ f # <<>>
               /\ EndOf(f) = x.target
               /\ f[Len(f)] = x /\ SourceOf(f, Len(f)) = EndOf(e)
               /\ \A i \in 1 .. Len(e) : f[i] = e[i] /\ SourceOf(f, i) = SourceOf(e, i)
<1> DEFINE f == Append(e, x)
<1>1. /\ Len(e) \in Nat /\ Len(f) = Len(e) + 1 /\ f[Len(e) + 1] = x
      /\ \A i \in 1 .. Len(e) : f[i] = e[i]
  OBVIOUS
<1> HIDE DEF f
<1>2. f # <<>>
  BY <1>1
<1>3. SourceOf(f, Len(f)) = EndOf(e)
  <2>1. CASE e = <<>>
    BY <1>1, <2>1 DEF SourceOf, EndOf
  <2>2. CASE e # <<>>
    <3>1. Len(e) \in 1 .. Len(e)
      BY <1>1, <2>2
    <3> QED
      BY <1>1, <2>2, <3>1 DEF SourceOf, EndOf
  <2> QED
    BY <2>1, <2>2
<1>4. ASSUME NEW i \in 1 .. Len(e) PROVE SourceOf(f, i) = SourceOf(e, i)
  <2>1. i = 1 \/ i - 1 \in 1 .. Len(e)
    BY <1>1
  <2> QED
    BY <1>1, <2>1 DEF SourceOf
<1> QED
  BY <1>1, <1>2, <1>3, <1>4 DEF EndOf, f

LEMMA LegalStep ==
    ASSUME NEW m \in Machine, Legal(m), NEW t \in RunState, t \in ALLOWED_TRANSITIONS[m.state]
    PROVE  transition(m, t) \in Machine /\ transition(m, t).state = t /\ Legal(transition(m, t))
<1> DEFINE n == transition(m, t)
           x == StateEvent(m.state, t)
<1>1. /\ n \in Machine /\ n.state = t /\ ~n.illegal /\ n.events = Append(m.events, x)
  BY TakenStep DEF Legal
<1>2. x \in Event /\ x.source = m.state /\ x.target = t /\ m.events \in Seq(Event)
  BY DEF StateEvent, Event, Machine
<1> HIDE DEF n, x
<1>3. /\ Len(n.events) = Len(m.events) + 1 /\ Len(m.events) \in Nat
      /\ EndOf(n.events) = t
      /\ n.events[Len(n.events)] = x /\ SourceOf(n.events, Len(n.events)) = EndOf(m.events)
      /\ \A i \in 1 .. Len(m.events) : n.events[i] = m.events[i] /\ SourceOf(n.events, i) = SourceOf(m.events, i)
  BY <1>1, <1>2, AppendedPath
<1>4. ASSUME NEW i \in 1 .. Len(n.events)
      PROVE  /\ n.events[i].source = SourceOf(n.events, i)
             /\ n.events[i].target \in ALLOWED_TRANSITIONS[n.events[i].source]
  <2>1. CASE i \in 1 .. Len(m.events)
    BY <1>3, <2>1 DEF Legal
  <2>2. CASE i = Len(n.events)
    BY <1>2, <1>3, <2>2 DEF Legal
  <2> QED
    BY <1>3, <2>1, <2>2
<1> QED
  BY <1>1, <1>3, <1>4 DEF Legal, n

LEMMA HandlerStep ==
    ASSUME NEW m \in Machine, Legal(m)
    PROVE  /\ Append_(m, Failed) \in Machine /\ Append_(m, Failed).state = Failed
           /\ Handled(Append_(m, Failed))
<1> DEFINE n == Append_(m, Failed)
           x == StateEvent(m.state, Failed)
<1>0. Failed \in RunState
  BY DEF Failed, RunState
<1>1. /\ n \in Machine /\ n.state = Failed /\ ~n.illegal /\ n.events = Append(m.events, x)
  BY <1>0, AppendStep DEF Legal
<1>2. x \in Event /\ x.source = m.state /\ x.target = Failed /\ m.events \in Seq(Event)
  BY <1>0 DEF StateEvent, Event, Machine
<1> HIDE DEF n, x
<1>3. /\ Len(n.events) = Len(m.events) + 1 /\ Len(m.events) \in Nat
      /\ EndOf(n.events) = Failed
      /\ n.events[Len(n.events)] = x /\ SourceOf(n.events, Len(n.events)) = EndOf(m.events)
      /\ \A i \in 1 .. Len(m.events) : n.events[i] = m.events[i] /\ SourceOf(n.events, i) = SourceOf(m.events, i)
  BY <1>1, <1>2, AppendedPath, SMTT(60)
<1>4. ASSUME NEW i \in 1 .. Len(n.events)
      PROVE  /\ n.events[i].source = SourceOf(n.events, i)
             /\ n.events[i].target \in ALLOWED_TRANSITIONS[n.events[i].source] \/ i = Len(n.events)
  <2>1. CASE i \in 1 .. Len(m.events)
    BY <1>3, <2>1 DEF Legal
  <2>2. CASE i = Len(n.events)
    BY <1>2, <1>3, <2>2 DEF Legal
  <2> QED
    BY <1>3, <2>1, <2>2
<1> QED
  BY <1>1, <1>3, <1>4 DEF Handled, n

\* The projection keeps a path a path: after the end it replaces the last event, whose
\* source is FINAL_SYNTHESIS, by the failure of the synthesis.
LEMMA LegalProjection ==
    ASSUME NEW m \in Machine, Legal(m)
    PROVE  /\ project_budget_failure(m) \in Machine
           /\ project_budget_failure(m).state = Failed
           /\ Legal(project_budget_failure(m))
<1> DEFINE n == project_budget_failure(m)
           l == Len(m.events)
<1>1. m.events \in Seq(Event) /\ l \in Nat /\ m.state \in RunState
  BY DEF Machine
<1>2. m.state = "COMPLETED" => l > 0 /\ m.events # <<>>
  BY <1>1 DEF Legal, EndOf
<1>3. n \in Machine /\ n.state = Failed /\ ~n.illegal
  BY <1>2, ProjectionStep DEF Legal
<1>4. CASE m.state = Failed
  BY <1>3, <1>4 DEF project_budget_failure, Failed
<1>5. CASE m.state \notin {"COMPLETED", Failed}
  <2>1. Failed \in RunState /\ Failed \in ALLOWED_TRANSITIONS[m.state]
    BY <1>1, <1>5, TransitionTable DEF RunState, TerminalStates, Failed
  <2>2. n = Append_(m, Failed)
    BY <1>5 DEF project_budget_failure
  <2>3. transition(m, Failed) = Append_(m, Failed)
    BY <2>1, TransitionStep
  <2> QED
    BY <1>3, <2>1, <2>2, <2>3, LegalStep
<1>6. CASE m.state = "COMPLETED"
  <2> DEFINE x == StateEvent("FINAL_SYNTHESIS", Failed)
             f == [m.events EXCEPT ![l] = x]
  <2>1. l \in 1 .. l /\ m.events[l].target = "COMPLETED" /\ m.events[l] \in Event
    BY <1>1, <1>2, <1>6 DEF Legal, EndOf
  <2>2. m.events[l].source = "FINAL_SYNTHESIS"
    BY <2>1, TransitionTable DEF Legal, Event
  <2>3. n.events = f
    <3>1. n = [m EXCEPT !.events = f, !.state = Failed]
      BY <1>6 DEF project_budget_failure, Failed
    <3> QED
      BY <3>1 DEF Machine
  <2>4. x \in Event /\ x.source = "FINAL_SYNTHESIS" /\ x.target = Failed
    BY DEF StateEvent, Event, RunState, Failed
  <2>5. /\ f \in Seq(Event) /\ Len(f) = l /\ f[l] = x
        /\ \A i \in 1 .. l : i # l => f[i] = m.events[i]
    BY <1>1, <2>1, <2>4
  <2>6. f # <<>>
    BY <1>1, <2>1, <2>5
  <2> HIDE DEF f, x
  <2>7. EndOf(f) = Failed
    BY <2>4, <2>5, <2>6 DEF EndOf
  <2>8. ASSUME NEW i \in 1 .. l
        PROVE  f[i].source = SourceOf(f, i) /\ f[i].target \in ALLOWED_TRANSITIONS[f[i].source]
    <3>1. SourceOf(f, i) = SourceOf(m.events, i)
      <4>1. i = 1 \/ (i - 1 \in 1 .. l /\ i - 1 # l)
        BY <1>1
      <4> QED
        BY <2>5, <4>1 DEF SourceOf
    <3>2. CASE i = l
      <4>1. Failed \in ALLOWED_TRANSITIONS["FINAL_SYNTHESIS"]
        BY TransitionTable DEF RunState, TerminalStates, Failed
      <4> QED
        BY <2>2, <2>4, <2>5, <3>1, <3>2, <4>1 DEF Legal
    <3>3. CASE i # l
      BY <2>5, <3>1, <3>3 DEF Legal
    <3> QED
      BY <3>2, <3>3
  <2> QED
    BY <1>3, <2>3, <2>5, <2>7, <2>8 DEF Legal
<1> QED
  BY <1>3, <1>4, <1>5, <1>6

-----------------------------------------------------------------------------
(* What a process holds of its run.                                        *)

Analysing == {"window", "context", "preflight", "dispatch", "join", "grace", "settle",
              "after_analysis"}
Tooling == {"prefix", "pot_odds", "range", "requested", "equity", "call_ev", "after_tools",
            "critique"}
Judging == {"hand", "route", "adjudicate", "decide"} \cup Analysing \cup Tooling
Reporting == {"reserve_time", "synthesize"}
Reporteds == {"complete", "artifacts"}
Vouched == {"guard", "freeze", "store", "confirm"}
Sealed == {"provenance", "replay"} \cup Vouched
Early == {"idle", "admit", "intake", "normalize", "validate", "dead"}
Pc == Early \cup Judging \cup Reporting \cup Reporteds \cup Sealed \cup {"answered"}

\* Before the dispatch no worker is left from the role before.
Alone == {"admit", "intake", "normalize", "validate", "hand", "route", "window", "context",
          "preflight", "dispatch"}

Cancels == {NotRequested, "requested", "cancelled", "cancel_unconfirmed"}
Analyses ==
    [status : {None, "completed", "failed", "refused", "fallback"}, budget : BOOLEAN,
     timed : BOOLEAN, cancel : Cancels, objects : BOOLEAN, warned : BOOLEAN]
Ledger == [used : Nat, active : BOOLEAN,
           failure : {None, "usage_malformed", "clock_rollback", "runtime_exceeded"}]
ResultMap == UNION {[T -> ToolStatus] : T \in SUBSET Tool}
RunReport == [status : {None, "completed", "approval_required", "failed"}, results : ResultMap,
              grade : {None, "A", "B", "C", "D"}]
Errors == {"LEGACY_RUN_UNVERIFIED", "RUN_CONFLICT", "CONFIRMATION_REPLAY", "RUN_NOT_FOUND",
           "TOOL_PLAN", "TOOL", "STORAGE", "ValueError", "PhaseContractError", "NormalizationError",
           "CANDIDATE_SCHEMA", "REPLAY", "CanonicalStorageError", "BUDGET_SETTLEMENT_FAILED",
           "ProductRunError", "INTERNAL_INVARIANT_ERROR", "BudgetLimitError"}
RunAnswer == [kind : {None, "report", "replay"} \cup Errors, report : RunReport]

RunRecord ==
    [pc : Pc, machine : Machine, ledger : Ledger, role : Nat,
     worker : {None, "running", "report", "raised"}, alive : {0, 1}, cancel : Cancels,
     analysis : Analyses, results : ResultMap, authority : SUBSET Tool, warned : BOOLEAN,
     disputed : BOOLEAN, pending : BOOLEAN, completed : BOOLEAN, report : RunReport,
     buffered : [state : RunState \cup {None}, report : RunReport, evidence : BOOLEAN],
     answer : RunAnswer]

\* The states of the machine at each place of the run.
StatesAt(pc, completed) ==
    CASE pc \in {"idle", "admit", "intake", "normalize", "dead"} -> {"INTAKE"}
      [] pc = "validate" -> {"NORMALIZE"}
      [] pc \in {"hand", "route"} -> {"DATA_VALIDATION"}
      [] pc \in Analysing -> {"INDEPENDENT_ANALYSIS"}
      [] pc \in Tooling -> {"TOOL_AND_RESEARCH"}
      [] pc = "adjudicate" -> {"CRITIQUE"}
      [] pc = "decide" -> {"ADJUDICATION"}
      [] pc \in Reporting \cup {"complete"} ->
            IF completed THEN {"FINAL_SYNTHESIS"} ELSE {Failed, "HUMAN_REVIEW_REQUIRED"}
      [] pc \in Sealed \cup {"artifacts"} ->
            IF completed THEN {"COMPLETED"} ELSE {Failed, "HUMAN_REVIEW_REQUIRED"}
      [] OTHER -> RunState

\* What every run that has not been answered keeps, whatever it is doing: the path, one worker
\* at most, and the durable evidence (ev) of every budget refusal of a bounded river run.
Live(r, ev) ==
    /\ r \in RunRecord
    /\ Legal(r.machine)
    /\ r.answer = NoAnswer
    /\ r.alive = 1 <=> r.worker = "running"
    /\ River => \A t \in DOMAIN r.results : r.results[t] = "budget" => t \in ev

\* Something was found wanting: a line in the data quality, or a tool that did not succeed.
Doubted(r) == r.warned \/ \E t \in DOMAIN r.results : r.results[t] # "success"

EarnedBy(report) ==
    report.grade = "A" => /\ report.status = "completed"
                          /\ scenario.verified
                          /\ \A t \in DOMAIN report.results : report.results[t] = "success"
                          /\ scenario.claim # "unchecked"

VouchedFor(r, ev) ==
    \A t \in DOMAIN r.results :
       \/ t \in r.authority
       \/ r.results[t] \in {"success", "bound"} /\ scenario.admission # "confirmed"
       \/ River /\ t \in ev

\* What holds at the place where the run is.
Placed(r, ev) ==
    /\ r.machine.state \in StatesAt(r.pc, r.completed)
    /\ r.pc \in Alone => r.worker # "running"
    /\ r.pc = "settle" => /\ r.worker = "running" => r.analysis.timed
                          /\ r.analysis.status # "completed" => r.analysis.warned
    /\ r.pc \in Judging => ~scenario.blocked
    /\ r.pc \in Reporting \cup Reporteds \cup Sealed =>
          /\ r.completed => ~r.pending /\ ~scenario.blocked
          /\ r.machine.state = Failed => Doubted(r)
    /\ r.pc \in Reporteds \cup Sealed =>
          /\ r.report.status = run_status(r.machine.state)
          /\ r.report.results = r.results
          /\ EarnedBy(r.report)
    /\ r.pc \in Sealed \cup {"artifacts"} => r.buffered.state = r.machine.state
    /\ r.pc \in Sealed => r.buffered.report = r.report
    /\ r.pc \in Vouched => VouchedFor(r, ev)

\* What is left of a run that was answered.
Left(r) ==
    /\ r \in RunRecord /\ r.pc = "answered"
    /\ r.alive = 1 <=> r.worker = "running"
    /\ Legal(r.machine) \/ (Handled(r.machine) /\ r.answer.report = FailedReport /\ ~Strict)

RunInv(r, ev) == Left(r) \/ (r.pc # "answered" /\ Live(r, ev) /\ Placed(r, ev))

\* One process at most works on the run; until it has published there is no product, and
\* after that nobody changes it.
RunsInv ==
    /\ scenario \in Scenarios
    /\ run \in [Procs -> RunRecord]
    /\ \A p \in Procs : RunInv(run[p], evidence)
    /\ started = {} \/ \E p \in Procs : started = {p}
    /\ namespace = None => started = {} /\ current = NoProduct
    /\ \A p \in Procs :
          /\ run[p].pc = "idle" => run[p] = Idle
          /\ run[p].pc \notin {"idle", "answered", "dead"} => p \in started
          /\ run[p].answer.kind = "report" => p \in started
          /\ run[p].pc \notin {"idle", "confirm", "answered", "dead"} => current = NoProduct
          /\ run[p].pc = "confirm" => current = Product(run[p])
          /\ run[p].answer.kind = "replay" => current # NoProduct
    /\ current.report \in RunReport
    /\ ProductIsCoherent
    /\ GradeIsEarned
    /\ AnswersAreTrue

-----------------------------------------------------------------------------
(* What the operators of a run change of its record.                       *)

Kept(r, s) ==
    /\ s.worker = r.worker /\ s.alive = r.alive /\ s.analysis = r.analysis
    /\ s.authority = r.authority /\ s.pending = r.pending /\ s.report = r.report
    /\ s.buffered = r.buffered /\ s.answer = r.answer

LEMMA GotoStep ==
    ASSUME NEW r \in RunRecord, NEW pc \in Pc
    PROVE  LET s == Goto(r, pc)
           IN  /\ s \in RunRecord /\ Kept(r, s)
               /\ s.pc = pc /\ s.machine = r.machine /\ s.ledger = r.ledger /\ s.warned = r.warned
               /\ s.results = r.results /\ s.completed = r.completed
  BY DEF Goto, RunRecord, Kept

LEMMA WarnedStep ==
    ASSUME NEW r \in RunRecord
    PROVE  LET s == Warned(r)
           IN  /\ s \in RunRecord /\ Kept(r, s)
               /\ s.pc = r.pc /\ s.machine = r.machine /\ s.ledger = r.ledger /\ s.warned = TRUE
               /\ s.results = r.results /\ s.completed = r.completed
  BY DEF Warned, RunRecord, Kept

LEMMA MovedStep ==
    ASSUME NEW r \in RunRecord, NEW t \in RunState
    PROVE  LET s == Moved(r, t)
           IN  /\ s \in RunRecord /\ Kept(r, s)
               /\ s.pc = r.pc /\ s.machine = transition(r.machine, t) /\ s.ledger = r.ledger
               /\ s.warned = r.warned /\ s.results = r.results /\ s.completed = r.completed
<1>1. r.machine \in Machine
  BY DEF RunRecord
<1>2. transition(r.machine, t) \in Machine
  BY <1>1, TransitionStep
<1> QED
  BY <1>2 DEF Moved, RunRecord, Kept

LEMMA ProjectedStep ==
    ASSUME NEW r \in RunRecord, Legal(r.machine)
    PROVE  LET s == Projected(r)
           IN  /\ s \in RunRecord /\ Kept(r, s)
               /\ s.pc = r.pc /\ s.machine = project_budget_failure(r.machine) /\ s.ledger = r.ledger
               /\ s.warned = TRUE /\ s.results = r.results /\ s.completed = r.completed
               /\ s.machine.state = Failed /\ Legal(s.machine)
<1> DEFINE n == project_budget_failure(r.machine)
           q == [r EXCEPT !.machine = n]
<1>1. r.machine \in Machine
  BY DEF RunRecord
<1>2. n \in Machine /\ n.state = Failed /\ Legal(n)
  BY <1>1, LegalProjection
<1> HIDE DEF n
<1>3. /\ q \in RunRecord /\ Kept(r, q) /\ q.pc = r.pc /\ q.machine = n /\ q.ledger = r.ledger
      /\ q.results = r.results /\ q.completed = r.completed
  BY <1>2 DEF RunRecord, Kept
<1>4. Projected(r) = Warned(q)
  BY DEF Projected, n
<1> HIDE DEF q
<1>5. /\ Warned(q) \in RunRecord /\ Kept(q, Warned(q)) /\ Warned(q).pc = q.pc
      /\ Warned(q).machine = q.machine /\ Warned(q).ledger = q.ledger /\ Warned(q).warned = TRUE
      /\ Warned(q).results = q.results /\ Warned(q).completed = q.completed
  BY <1>3, WarnedStep
<1>6. Kept(r, Warned(q))
  BY <1>3, <1>5 DEF Kept
<1> QED
  BY <1>2, <1>3, <1>4, <1>5, <1>6 DEF n

LEMMA ObservedLedger ==
    ASSUME NEW l \in Ledger, NEW c \in Reading
    PROVE  /\ observe_runtime(l, c) \in Ledger
           /\ apply_at(l, c) \in Ledger
           /\ pause(l, c) \in Ledger
           /\ observation_failed(l) => /\ observe_runtime(l, c) = l
                                       /\ apply_at(l, c) = l
                                       /\ pause(l, c) = l
<1>1. ASSUME NEW n \in {0, 1} PROVE settle_runtime_observation(l, n) \in Ledger
  <2> DEFINE used == l.used + (IF l.active THEN n ELSE 0)
  <2>1. used \in Nat
    BY DEF Ledger
  <2> HIDE DEF used
  <2>2. validate_snapshot(used) \in {None, "runtime_exceeded"}
    BY DEF validate_snapshot
  <2>3. settle_runtime_observation(l, n) = [l EXCEPT !.used = used, !.failure = validate_snapshot(used)]
    BY DEF settle_runtime_observation, used
  <2> HIDE DEF validate_snapshot
  <2> QED
    BY <2>1, <2>2, <2>3 DEF Ledger
<1>2. observe_runtime(l, c) \in Ledger
  <2>1. [l EXCEPT !.failure = "usage_malformed"] \in Ledger /\ [l EXCEPT !.failure = "clock_rollback"] \in Ledger
    BY DEF Ledger
  <2> QED
    BY <1>1, <2>1 DEF observe_runtime, observed
<1>3. apply_at(l, c) \in Ledger
  BY <1>1 DEF apply_at
<1>4. pause(l, c) \in Ledger
  <2> DEFINE o == observe_runtime(l, c)
  <2>1. [o EXCEPT !.active = FALSE] \in Ledger
    BY <1>2 DEF Ledger
  <2> QED
    BY <1>2, <2>1 DEF pause
<1>5. observation_failed(l) => observe_runtime(l, c) = l /\ apply_at(l, c) = l
  BY DEF observe_runtime, apply_at
<1>6. observation_failed(l) => pause(l, c) = l
  BY <1>5 DEF pause
<1> QED
  BY <1>2, <1>3, <1>4, <1>5, <1>6

\* Of a record only its ledger is another one.
LedgerOnly(r, s) ==
    /\ s \in RunRecord /\ Kept(r, s)
    /\ s.pc = r.pc /\ s.machine = r.machine /\ s.warned = r.warned
    /\ s.results = r.results /\ s.completed = r.completed

LEMMA NewLedger ==
    ASSUME NEW r \in RunRecord, NEW l \in Ledger
    PROVE  LedgerOnly(r, [r EXCEPT !.ledger = l]) /\ [r EXCEPT !.ledger = l].ledger = l
  BY DEF LedgerOnly, RunRecord, Kept

LEMMA SeenStep ==
    ASSUME NEW r \in RunRecord, NEW c \in Reading
    PROVE  LedgerOnly(r, Seen(r, c)) /\ Seen(r, c).ledger = observe_runtime(r.ledger, c)
<1>1. r.ledger \in Ledger
  BY DEF RunRecord
<1>2. observe_runtime(r.ledger, c) \in Ledger
  BY <1>1, ObservedLedger
<1> QED
  BY <1>2, NewLedger DEF Seen

LEMMA SettledStep ==
    ASSUME NEW r \in RunRecord, NEW c \in EffectReading
    PROVE  /\ LedgerOnly(r, [r EXCEPT !.ledger = apply_at(@, c)])
           /\ [r EXCEPT !.ledger = apply_at(@, c)].ledger = apply_at(r.ledger, c)
<1>1. r.ledger \in Ledger /\ c \in Reading
  BY DEF RunRecord, EffectReading, Reading
<1>2. apply_at(r.ledger, c) \in Ledger
  BY <1>1, ObservedLedger
<1> QED
  BY <1>2, NewLedger

LEMMA SynthesizeStep ==
    ASSUME NEW r \in RunRecord, NEW completed \in BOOLEAN
    PROVE  LET s == Synthesize(r, completed)
           IN  /\ s \in RunRecord /\ Kept(r, s)
               /\ s.pc = "reserve_time" /\ s.machine = r.machine /\ s.ledger = r.ledger
               /\ s.warned = r.warned /\ s.results = r.results /\ s.completed = completed
<1> DEFINE q == Goto(r, "reserve_time")
<1>1. "reserve_time" \in Pc
  BY DEF Pc, Reporting
<1>2. q \in RunRecord /\ Kept(r, q) /\ q.pc = "reserve_time" /\ q.machine = r.machine
      /\ q.ledger = r.ledger /\ q.warned = r.warned /\ q.results = r.results
  BY <1>1, GotoStep
<1> HIDE DEF q
<1>3. Synthesize(r, completed) = [q EXCEPT !.completed = completed]
  BY DEF Synthesize, q
<1> QED
  BY <1>2, <1>3 DEF RunRecord, Kept

LEMMA IdleType ==
    /\ NoReport \in RunReport /\ FailedReport \in RunReport /\ NoReport.status = None
    /\ FailedReport.status = "failed"
    /\ NoAnswer \in RunAnswer /\ NoAnswer.kind = None /\ NoAnswer.report = NoReport
    /\ Idle \in RunRecord
    /\ Idle.pc = "idle" /\ Idle.machine = WorkflowStateMachine /\ Legal(Idle.machine)
    /\ Idle.machine.state = "INTAKE" /\ Idle.answer = NoAnswer /\ Idle.alive = 0
    /\ Idle.worker = None /\ Idle.results = <<>> /\ Idle.completed = FALSE
    /\ Idle.ledger = SerialUsageLedger /\ ~observation_failed(SerialUsageLedger)
    /\ DOMAIN Idle.results = {}
<1>1. <<>> \in ResultMap /\ DOMAIN <<>> = {}
  <2>1. DOMAIN <<>> = {} /\ <<>> \in [{} -> ToolStatus]
    OBVIOUS
  <2> QED
    BY <2>1 DEF ResultMap
<1>2. /\ NoReport \in RunReport /\ FailedReport \in RunReport /\ NoReport.status = None
      /\ FailedReport.status = "failed"
  BY <1>1 DEF NoReport, FailedReport, RunReport
<1>3. NoAnswer \in RunAnswer /\ NoAnswer.kind = None /\ NoAnswer.report = NoReport
  BY <1>2 DEF NoAnswer, RunAnswer
<1>4. /\ WorkflowStateMachine \in Machine /\ WorkflowStateMachine.state = "INTAKE"
      /\ Legal(WorkflowStateMachine)
  <2>1. <<>> \in Seq(Event) /\ Len(<<>>) = 0
    OBVIOUS
  <2>2. WorkflowStateMachine \in Machine /\ WorkflowStateMachine.state = "INTAKE"
    BY <2>1 DEF WorkflowStateMachine, Machine, RunState
  <2>3. WorkflowStateMachine.events = <<>> /\ ~WorkflowStateMachine.illegal
    BY DEF WorkflowStateMachine
  <2>4. EndOf(<<>>) = "INTAKE"
    BY DEF EndOf
  <2> QED
    BY <2>1, <2>2, <2>3, <2>4 DEF Legal
<1>5. SerialUsageLedger \in Ledger /\ ~observation_failed(SerialUsageLedger)
  BY DEF SerialUsageLedger, Ledger, observation_failed
<1>6. NoAnalysis \in Analyses
  BY DEF NoAnalysis, Analysis, Analyses, NotRequested, None, Cancels
<1>7. "idle" \in Pc /\ NotRequested \in Cancels
  BY DEF Pc, Early, Cancels
<1>8. [state |-> None, report |-> NoReport, evidence |-> FALSE]
        \in [state : RunState \cup {None}, report : RunReport, evidence : BOOLEAN]
  BY <1>2
<1>10. Idle =
         [pc |-> "idle", machine |-> WorkflowStateMachine, ledger |-> SerialUsageLedger,
          role |-> 1, worker |-> None, alive |-> 0, cancel |-> NotRequested,
          analysis |-> NoAnalysis, results |-> <<>>, authority |-> {}, warned |-> FALSE,
          disputed |-> FALSE, pending |-> FALSE, completed |-> FALSE, report |-> NoReport,
          buffered |-> [state |-> None, report |-> NoReport, evidence |-> FALSE],
          answer |-> NoAnswer]
  BY DEF Idle
<1>9. Idle \in RunRecord
  <2> HIDE DEF Idle
  <2>1. <<>> \in ResultMap /\ {} \in SUBSET Tool /\ 1 \in Nat
    BY <1>1
  <2> QED
    BY <1>2, <1>3, <1>4, <1>5, <1>6, <1>7, <1>8, <1>10, <2>1 DEF RunRecord
<1> QED
  BY <1>1, <1>2, <1>3, <1>4, <1>5, <1>9 DEF Idle

\* What is left of a run that is answered.
AnsweredFrom(r, s, kind, report) ==
    /\ s \in RunRecord /\ s.pc = "answered" /\ s.machine = r.machine
    /\ s.ledger = r.ledger /\ s.worker = r.worker /\ s.alive = r.alive
    /\ s.answer.kind = kind /\ s.answer.report = report

Kinds == {"report", "replay"} \cup Errors

LEMMA AnsweredStep ==
    ASSUME NEW r \in RunRecord, NEW kind \in Kinds, NEW report \in RunReport
    PROVE  AnsweredFrom(r, Answered(r, kind, report), kind, report)
<1>1. "answered" \in Pc /\ [kind |-> kind, report |-> report] \in RunAnswer
  BY DEF Pc, RunAnswer, Kinds
<1>2. Idle \in RunRecord
  BY IdleType
<1> QED
  BY <1>1, <1>2 DEF Answered, RunRecord, AnsweredFrom

-----------------------------------------------------------------------------
(* Where the paths of a run lead.                                          *)

\* A failure of the machine and of the clock is for good.
Latched(r, s) ==
    /\ r.machine.state = Failed => s.machine.state = Failed
    /\ observation_failed(r.ledger) => s.ledger.failure = r.ledger.failure

\* A run r goes on as s, stops, or is answered with an error or a failed report.
Inside(r, s, ev) ==
    /\ Latched(r, s)
    /\ s \in RunRecord /\ RunInv(s, ev)
    /\ s.pc \notin {"idle", "confirm"}
    /\ s.answer.kind # "replay"
    /\ s.answer.kind = "report" => s.answer.report.status = "failed"

LEMMA LiveCopy ==
    ASSUME NEW ev, NEW r, Live(r, ev), NEW s \in RunRecord, Kept(r, s), s.results = r.results,
           Legal(s.machine)
    PROVE  Live(s, ev)
  BY DEF Live, Kept

LEMMA LiveFacts ==
    ASSUME NEW ev, NEW r, Live(r, ev)
    PROVE  /\ r \in RunRecord /\ r.machine \in Machine /\ r.machine.state \in RunState
           /\ r.ledger \in Ledger /\ r.pc \in Pc /\ Legal(r.machine) /\ r.answer = NoAnswer
           /\ r.answer.kind = None /\ (r.alive = 1 <=> r.worker = "running")
<1>1. r \in RunRecord /\ Legal(r.machine) /\ r.answer = NoAnswer /\ (r.alive = 1 <=> r.worker = "running")
  BY DEF Live
<1>2. r.machine \in Machine /\ r.ledger \in Ledger /\ r.pc \in Pc
  BY <1>1 DEF RunRecord
<1>3. r.machine.state \in RunState
  BY <1>2 DEF Machine
<1> QED
  BY <1>1, <1>2, <1>3, IdleType

LEMMA InsideFrom ==
    ASSUME NEW ev, NEW r, NEW q, NEW s, Latched(r, q), Inside(q, s, ev)
    PROVE  Inside(r, s, ev)
  BY DEF Latched, Inside, observation_failed

LEMMA RecordFacts ==
    ASSUME NEW r \in RunRecord
    PROVE  /\ r.completed \in BOOLEAN /\ r.pending \in BOOLEAN /\ r.warned \in BOOLEAN
           /\ r.results \in ResultMap /\ r.report \in RunReport /\ r.analysis \in Analyses
           /\ r.authority \in SUBSET Tool /\ r.role \in Nat /\ r.answer \in RunAnswer
  BY DEF RunRecord

LEMMA CaseFacts ==
    ASSUME RunsInv
    PROVE  /\ scenario.warned \in BOOLEAN /\ scenario.blocked \in BOOLEAN
           /\ scenario.verified \in BOOLEAN
<1>1. scenario \in Scenarios
  BY DEF RunsInv
<1>2. scenario \in Scenario
  BY <1>1, ScenarioAssumption DEF ScenarioAssumption
<1> QED
  BY <1>2 DEF Scenario

LEMMA EndingInside ==
    ASSUME NEW ev, NEW r, Live(r, ev), r.machine.state = Failed, Doubted(r)
    PROVE  Inside(r, Synthesize(r, FALSE), ev)
<1> DEFINE s == Synthesize(r, FALSE)
<1>1. /\ s \in RunRecord /\ Kept(r, s) /\ s.pc = "reserve_time" /\ s.machine = r.machine
      /\ s.warned = r.warned /\ s.results = r.results /\ s.completed = FALSE /\ s.ledger = r.ledger
  BY LiveFacts, SynthesizeStep
<1> HIDE DEF s
<1>2. Live(s, ev)
  BY <1>1, LiveFacts, LiveCopy
<1>3. Doubted(s)
  BY <1>1 DEF Doubted
<1>4. s.answer.kind = None
  BY <1>2, LiveFacts
<1>5. Placed(s, ev)
  BY <1>1, <1>3 DEF Placed, StatesAt, Judging, Reporting, Reporteds, Sealed, Vouched, Analysing, Tooling, Alone
<1> QED
  BY <1>1, <1>2, <1>4, <1>5 DEF Inside, Latched, RunInv, None, s

LEMMA StopInside ==
    ASSUME NEW ev, NEW r, Live(r, ev), r.machine.state \notin TerminalStates, Doubted(r)
    PROVE  Inside(r, Stop(r), ev)
<1> DEFINE q == Moved(r, Failed)
<1>1. r \in RunRecord /\ r.machine \in Machine /\ r.machine.state \in RunState /\ Legal(r.machine)
  BY LiveFacts
<1>2. Failed \in RunState /\ Failed \in ALLOWED_TRANSITIONS[r.machine.state]
  BY <1>1, TransitionTable DEF RunState, Failed
<1>3. /\ q \in RunRecord /\ Kept(r, q) /\ q.machine = transition(r.machine, Failed)
      /\ q.warned = r.warned /\ q.results = r.results /\ q.ledger = r.ledger
  BY <1>1, <1>2, MovedStep
<1>4. q.machine.state = Failed /\ Legal(q.machine)
  BY <1>1, <1>2, <1>3, LegalStep
<1> HIDE DEF q
<1>5. Live(q, ev) /\ Doubted(q)
  BY <1>3, <1>4, LiveCopy DEF Doubted
<1>6. Latched(r, q)
  BY <1>3, <1>4 DEF Latched
<1>7. Inside(q, Synthesize(q, FALSE), ev)
  BY <1>4, <1>5, EndingInside
<1> QED
  BY <1>6, <1>7, InsideFrom DEF Stop, q

LEMMA ProjectedInside ==
    ASSUME NEW ev, NEW r, Live(r, ev)
    PROVE  /\ Live(Projected(r), ev) /\ Projected(r).machine.state = Failed /\ Doubted(Projected(r))
           /\ Latched(r, Projected(r))
           /\ Inside(r, Synthesize(Projected(r), FALSE), ev)
<1> DEFINE q == Projected(r)
<1>1. /\ q \in RunRecord /\ Kept(r, q) /\ q.results = r.results /\ q.warned = TRUE
      /\ q.machine.state = Failed /\ Legal(q.machine) /\ q.ledger = r.ledger
  BY LiveFacts, ProjectedStep
<1> HIDE DEF q
<1>2. Live(q, ev) /\ Doubted(q)
  BY <1>1, LiveCopy DEF Doubted
<1>3. Inside(q, Synthesize(q, FALSE), ev)
  BY <1>1, <1>2, EndingInside
<1>4. Latched(r, q)
  BY <1>1 DEF Latched
<1>5. Inside(r, Synthesize(q, FALSE), ev)
  BY <1>3, <1>4, InsideFrom
<1> QED
  BY <1>1, <1>2, <1>4, <1>5 DEF q

LEMMA RaisedInside ==
    ASSUME NEW ev, NEW r \in RunRecord, Legal(r.machine), r.alive = 1 <=> r.worker = "running",
           NEW error \in Errors
    PROVE  Inside(r, Raised(r, error), ev)
<1> DEFINE s == Raised(r, error)
<1>1. NoReport \in RunReport /\ error \in Kinds
  BY IdleType DEF Kinds
<1>2. AnsweredFrom(r, s, error, NoReport)
  BY <1>1, AnsweredStep DEF Raised
<1>3. error \notin {"report", "replay"}
  BY DEF Errors
<1> HIDE DEF s
<1>4. Left(s)
  BY <1>2 DEF Left, AnsweredFrom
<1> QED
  BY <1>2, <1>3, <1>4 DEF Inside, Latched, RunInv, AnsweredFrom, s

LEMMA FailedAnswerInside ==
    ASSUME NEW ev, NEW r \in RunRecord, r.alive = 1 <=> r.worker = "running",
           NEW report \in RunReport, report.status = "failed",
           Legal(r.machine) \/ (Handled(r.machine) /\ report = FailedReport /\ ~Strict)
    PROVE  Inside(r, Answered(r, "report", report), ev)
<1> DEFINE s == Answered(r, "report", report)
<1>1. "report" \in Kinds
  BY DEF Kinds
<1>2. AnsweredFrom(r, s, "report", report)
  BY <1>1, AnsweredStep
<1> HIDE DEF s
<1>4. Left(s)
  BY <1>2 DEF Left, AnsweredFrom
<1> QED
  BY <1>2, <1>4 DEF Inside, Latched, RunInv, AnsweredFrom, s

LEMMA BudgetRaisedInside ==
    ASSUME NEW ev, NEW r, Live(r, ev)
    PROVE  Inside(r, BudgetRaised(r), ev)
<1>1. r \in RunRecord /\ r.machine \in Machine /\ Legal(r.machine) /\ (r.alive = 1 <=> r.worker = "running")
  BY LiveFacts
<1>2. CASE Strict
  <2>1. "BudgetLimitError" \in Errors
    BY DEF Errors
  <2> QED
    BY <1>1, <1>2, <2>1, RaisedInside DEF BudgetRaised
<1>3. CASE ~Strict
  <2> DEFINE n == IF r.machine.state = Failed THEN r.machine ELSE Append_(r.machine, Failed)
             q == [r EXCEPT !.machine = n]
  <2>1. n \in Machine /\ n.state = Failed /\ (Legal(n) \/ Handled(n))
    BY <1>1, HandlerStep
  <2>2. BudgetRaised(r) = Answered(q, "report", FailedReport)
    BY <1>3 DEF BudgetRaised
  <2> HIDE DEF n
  <2>3. /\ q \in RunRecord /\ q.machine = n /\ q.alive = r.alive /\ q.worker = r.worker
        /\ q.ledger = r.ledger
    BY <1>1, <2>1 DEF RunRecord
  <2> HIDE DEF q
  <2>4. Inside(q, Answered(q, "report", FailedReport), ev)
    BY <1>1, <1>3, <2>1, <2>3, IdleType, FailedAnswerInside
  <2>5. Latched(r, q)
    BY <2>1, <2>3 DEF Latched
  <2> QED
    BY <2>2, <2>4, <2>5, InsideFrom
<1> QED
  BY <1>2, <1>3

\* The next place of the analysis, the tools and the judgement.
Onward(r, pc) ==
    /\ pc \in Judging /\ pc # "settle"
    /\ r.machine.state \in StatesAt(pc, FALSE)
    /\ ~scenario.blocked
    /\ pc \in Alone => r.worker # "running"

LEMMA JudgingPlaces ==
    ASSUME NEW pc \in Judging
    PROVE  /\ pc \in Pc /\ pc \notin {"idle", "confirm", "answered"}
           /\ pc \notin Reporting \cup Reporteds \cup Sealed
           /\ pc \notin Reporteds \cup Sealed /\ pc \notin Sealed \cup {"artifacts"}
           /\ pc \notin Sealed /\ pc \notin Vouched
           /\ StatesAt(pc, TRUE) = StatesAt(pc, FALSE)
           /\ StatesAt(pc, FALSE) \subseteq RunState \ TerminalStates
<1>1. /\ pc \in Pc /\ pc \notin {"idle", "confirm", "answered"}
      /\ pc \notin Reporting \cup Reporteds \cup Sealed
      /\ pc \notin Reporteds \cup Sealed /\ pc \notin Sealed \cup {"artifacts"}
      /\ pc \notin Sealed /\ pc \notin Vouched
  BY DEF Judging, Pc, Reporting, Reporteds, Sealed, Vouched, Analysing, Tooling
<1>2. /\ StatesAt(pc, TRUE) = StatesAt(pc, FALSE)
      /\ StatesAt(pc, FALSE) \subseteq RunState \ TerminalStates
  BY DEF Judging, StatesAt, Reporting, Sealed, Vouched, Analysing, Tooling, RunState, TerminalStates, Failed
<1> QED
  BY <1>1, <1>2

LEMMA OnwardInside ==
    ASSUME NEW ev, NEW r, Live(r, ev), NEW pc, Onward(r, pc)
    PROVE  Inside(r, Goto(r, pc), ev)
<1> DEFINE s == Goto(r, pc)
<1>1. pc \in Judging
  BY DEF Onward
<1>2. /\ s \in RunRecord /\ Kept(r, s) /\ s.pc = pc /\ s.machine = r.machine
      /\ s.results = r.results /\ s.completed = r.completed /\ s.ledger = r.ledger
  BY <1>1, JudgingPlaces, LiveFacts, GotoStep, ZenonT(60)
<1> HIDE DEF s
<1>3. Live(s, ev)
  BY <1>2, LiveFacts, LiveCopy
<1>4. s.completed \in BOOLEAN
  BY <1>2 DEF RunRecord
<1>5. s.machine.state \in StatesAt(s.pc, s.completed)
  BY <1>1, <1>2, <1>4, JudgingPlaces DEF Onward
<1>6. Placed(s, ev)
  BY <1>1, <1>2, <1>5, JudgingPlaces DEF Placed, Onward, Kept
<1>7. s.answer.kind = None
  BY <1>3, LiveFacts
<1> QED
  BY <1>1, <1>2, <1>3, <1>6, <1>7, JudgingPlaces DEF Inside, Latched, RunInv, None, s

-----------------------------------------------------------------------------
(* The steps of a run.                                                     *)

\* What a run vouches for stays vouched for when more evidence becomes durable.
LEMMA MoreEvidence ==
    ASSUME NEW e, NEW f, e \subseteq f, NEW r, RunInv(r, e)
    PROVE  RunInv(r, f)
<1>1. ASSUME Live(r, e) PROVE Live(r, f)
  BY <1>1 DEF Live
<1>2. ASSUME Placed(r, e) PROVE Placed(r, f)
  <2>1. VouchedFor(r, e) => VouchedFor(r, f)
    BY DEF VouchedFor
  <2> QED
    BY <1>2, <2>1 DEF Placed
<1> QED
  BY <1>1, <1>2 DEF RunInv

\* The case never changes: what holds of the new runs holds after the step.
LEMMA Primed ==
    ASSUME scenario' = scenario, NEW p \in Procs, RunInv(run'[p], evidence')
    PROVE  RunInv(run[p], evidence)'
  BY ZenonT(60)
  DEF RunInv, Live, Placed, Left, VouchedFor, EarnedBy, Doubted, River, Strict, Legal, Handled,
         StatesAt, RunRecord

LEMMA Working ==
    ASSUME RunsInv, NEW p \in Procs, run[p].pc \notin {"idle", "answered", "dead"}
    PROVE  /\ run[p] \in RunRecord /\ Live(run[p], evidence) /\ Placed(run[p], evidence)
           /\ p \in started
           /\ run[p].pc # "confirm" => current = NoProduct
  BY DEF RunsInv, RunInv, Left

OnlyRuns == UNCHANGED <<scenario, namespace, current, started>>

LEMMA InsideKeeps ==
    ASSUME RunsInv, NEW p \in Procs, run[p].pc \notin {"idle", "confirm", "answered", "dead"},
           NEW s, Become(p, s), Inside(run[p], s, evidence'), evidence \subseteq evidence', OnlyRuns
    PROVE  RunsInv' /\ \A q \in Procs : Latched(run[q], run'[q])
<1>1. /\ run' \in [Procs -> RunRecord] /\ run'[p] = s
      /\ \A q \in Procs : q # p => run'[q] = run[q]
  BY DEF RunsInv, Become, Inside
<1>2. /\ scenario' = scenario /\ namespace' = namespace /\ current' = current /\ started' = started
      /\ current = NoProduct /\ p \in started
  BY Working DEF OnlyRuns
<1>3. ASSUME NEW q \in Procs PROVE RunInv(run'[q], evidence') /\ Latched(run[q], run'[q])
  <2>1. CASE q = p
    BY <1>1, <2>1 DEF Inside
  <2>2. CASE q # p
    BY <1>1, <2>2, MoreEvidence DEF RunsInv, Latched
  <2> QED
    BY <2>1, <2>2
<1>4. \A q \in Procs : RunInv(run[q], evidence)'
  BY <1>2, <1>3, Primed
<1>5. ASSUME NEW q \in Procs
      PROVE  /\ run'[q].pc = "idle" => run'[q] = Idle
             /\ run'[q].pc \notin {"idle", "answered", "dead"} => q \in started
             /\ run'[q].answer.kind = "report" => q \in started
             /\ run'[q].pc = "confirm" => current = Product(run[q])'
             /\ run'[q].answer.kind = "replay" => current # NoProduct
             /\ run'[q].answer.kind = "report" /\ run'[q].answer.report.status # "failed"
                   => current.report = run'[q].answer.report
             /\ run'[q].answer.kind = "replay" => current.report = run'[q].answer.report
  <2>1. CASE q = p
    BY <1>1, <1>2, <2>1 DEF Inside
  <2>2. CASE q # p
    <3>1. run'[q] = run[q]
      BY <1>1, <2>2
    <3>2. Product(run[q])' = Product(run[q])
      BY <3>1 DEF Product
    <3> QED
      BY <1>2, <3>1, <3>2 DEF RunsInv, AnswersAreTrue
  <2> QED
    BY <2>1, <2>2
<1>6. current.status # "succeeded"
  BY <1>2 DEF NoProduct, None
<1>7. ProductIsCoherent'
  <2>1. current'.report.results = <<>> /\ current'.status = None
    BY <1>2 DEF NoProduct, NoReport
  <2>2. DOMAIN current'.report.results = {}
    BY <2>1
  <2> QED
    BY <2>1, <2>2 DEF ProductIsCoherent, None
<1>8. GradeIsEarned'
  BY <1>2 DEF GradeIsEarned, NoProduct, NoReport, None
<1>9. AnswersAreTrue'
  BY <1>2, <1>5, <1>6 DEF AnswersAreTrue
<1> QED
  BY <1>1, <1>2, <1>3, <1>4, <1>5, <1>7, <1>8, <1>9 DEF RunsInv

LEMMA PlaceInside ==
    ASSUME NEW ev, NEW r, NEW s, Latched(r, s), Live(s, ev), Placed(s, ev),
           s.pc \notin {"idle", "confirm", "answered"}
    PROVE  Inside(r, s, ev)
<1>1. s \in RunRecord /\ s.answer.kind = None
  BY LiveFacts
<1> QED
  BY <1>1 DEF Inside, RunInv, None

LEMMA EarlyStates ==
    /\ \A b \in BOOLEAN : /\ StatesAt("admit", b) = {"INTAKE"} /\ StatesAt("intake", b) = {"INTAKE"}
                          /\ StatesAt("normalize", b) = {"INTAKE"}
                          /\ StatesAt("validate", b) = {"NORMALIZE"}
  BY DEF StatesAt, Analysing, Tooling, Reporting, Sealed, Vouched

LEMMA EarlyInside ==
    ASSUME NEW ev, NEW r, NEW s, Latched(r, s), Live(s, ev),
           s.pc \in {"intake", "normalize", "validate"}, s.worker # "running",
           s.machine.state \in StatesAt(s.pc, FALSE)
    PROVE  Inside(r, s, ev)
<1>1. s.machine.state \in StatesAt(s.pc, s.completed)
  BY DEF StatesAt, Analysing, Tooling, Reporting, Sealed, Vouched
<1>2. Placed(s, ev)
  BY <1>1 DEF Placed, Judging, Analysing, Tooling, Reporting, Reporteds, Sealed, Vouched
<1> QED
  BY <1>2, PlaceInside

LEMMA SeenLive ==
    ASSUME NEW ev, NEW r, Live(r, ev), NEW c \in Reading
    PROVE  LedgerOnly(r, Seen(r, c)) /\ Live(Seen(r, c), ev) /\ Latched(r, Seen(r, c))
<1> DEFINE o == Seen(r, c)
<1>1. r \in RunRecord /\ r.ledger \in Ledger /\ Legal(r.machine)
  BY LiveFacts
<1>2. LedgerOnly(r, o) /\ o.ledger = observe_runtime(r.ledger, c)
  BY <1>1, SeenStep
<1> HIDE DEF o
<1>3. Live(o, ev)
  BY <1>1, <1>2, LiveCopy DEF LedgerOnly
<1>4. observation_failed(r.ledger) => o.ledger = r.ledger
  BY <1>1, <1>2, ObservedLedger
<1> QED
  BY <1>2, <1>3, <1>4 DEF Latched, LedgerOnly, o

LEMMA SettledLive ==
    ASSUME NEW ev, NEW r, Live(r, ev), NEW c \in EffectReading
    PROVE  LET s == [r EXCEPT !.ledger = apply_at(@, c)]
           IN  LedgerOnly(r, s) /\ Live(s, ev) /\ Latched(r, s)
<1> DEFINE s == [r EXCEPT !.ledger = apply_at(@, c)]
<1>1. r \in RunRecord /\ r.ledger \in Ledger /\ Legal(r.machine) /\ c \in Reading
  BY LiveFacts DEF EffectReading, Reading
<1>2. LedgerOnly(r, s) /\ s.ledger = apply_at(r.ledger, c)
  BY <1>1, SettledStep
<1> HIDE DEF s
<1>3. Live(s, ev)
  BY <1>1, <1>2, LiveCopy DEF LedgerOnly
<1>4. observation_failed(r.ledger) => s.ledger = r.ledger
  BY <1>1, <1>2, ObservedLedger
<1> QED
  BY <1>2, <1>3, <1>4 DEF Latched, LedgerOnly, s

LEMMA OnwardSeen ==
    ASSUME NEW r, NEW o, LedgerOnly(r, o), NEW pc, Onward(r, pc)
    PROVE  Onward(o, pc)
  BY DEF Onward, LedgerOnly, Kept

LEMMA EnforcedInside ==
    ASSUME NEW ev, NEW r, Live(r, ev), NEW c \in Reading, NEW pc, Onward(r, pc)
    PROVE  Inside(r, Enforced(r, c, pc), ev)
<1> DEFINE o == Seen(r, c)
<1>1. LedgerOnly(r, o) /\ Live(o, ev) /\ Latched(r, o)
  BY SeenLive
<1>2. Enforced(r, c, pc) = IF Over(o) THEN Synthesize(Projected(o), FALSE) ELSE Goto(o, pc)
  BY DEF Enforced
<1> HIDE DEF o
<1>3. Inside(o, Synthesize(Projected(o), FALSE), ev)
  BY <1>1, ProjectedInside
<1>4. Onward(o, pc)
  BY <1>1, OnwardSeen
<1>5. Inside(o, Goto(o, pc), ev)
  BY <1>1, <1>4, OnwardInside
<1> QED
  BY <1>1, <1>2, <1>3, <1>5, InsideFrom

\* A warning changes nothing that matters but that the run is doubted.
LEMMA WarnedLive ==
    ASSUME NEW ev, NEW r, Live(r, ev)
    PROVE  /\ Live(Warned(r), ev) /\ Latched(r, Warned(r)) /\ Doubted(Warned(r))
           /\ Warned(r) \in RunRecord /\ Kept(r, Warned(r)) /\ Warned(r).pc = r.pc
           /\ Warned(r).machine = r.machine /\ Warned(r).ledger = r.ledger
           /\ Warned(r).results = r.results /\ Warned(r).completed = r.completed
<1> DEFINE q == Warned(r)
<1>1. /\ q \in RunRecord /\ Kept(r, q) /\ q.pc = r.pc /\ q.machine = r.machine
      /\ q.ledger = r.ledger /\ q.results = r.results /\ q.completed = r.completed
      /\ q.warned = TRUE
  BY LiveFacts, WarnedStep
<1> HIDE DEF q
<1>2. Live(q, ev)
  BY <1>1, LiveFacts, LiveCopy
<1> QED
  BY <1>1, <1>2 DEF Latched, Doubted, q

LEMMA WarnedStopInside ==
    ASSUME NEW ev, NEW r, Live(r, ev), r.machine.state \notin TerminalStates
    PROVE  Inside(r, Stop(Warned(r)), ev)
<1> DEFINE q == Warned(r)
<1>1. Live(q, ev) /\ Latched(r, q) /\ Doubted(q) /\ q.machine = r.machine
  BY WarnedLive
<1> HIDE DEF q
<1>2. Inside(q, Stop(q), ev)
  BY <1>1, StopInside
<1> QED
  BY <1>1, <1>2, InsideFrom DEF q

LEMMA WindowedInside ==
    ASSUME NEW ev, NEW r, Live(r, ev), NEW c \in Reading, NEW pc, Onward(r, pc)
    PROVE  Inside(r, Windowed(r, c, pc), ev)
<1> DEFINE o == Seen(r, c)
<1>1. LedgerOnly(r, o) /\ Live(o, ev) /\ Latched(r, o)
  BY SeenLive
<1>2. Windowed(r, c, pc) =
        IF Over(o) THEN Synthesize(Projected(o), FALSE)
        ELSE IF remaining(o.ledger) <= 0 THEN Stop(Warned(o)) ELSE Goto(o, pc)
  BY DEF Windowed
<1> HIDE DEF o
<1>3. Inside(o, Synthesize(Projected(o), FALSE), ev)
  BY <1>1, ProjectedInside
<1>4. Onward(o, pc)
  BY <1>1, OnwardSeen
<1>5. Inside(o, Goto(o, pc), ev)
  BY <1>1, <1>4, OnwardInside
<1>6. o.machine.state \notin TerminalStates
  BY <1>4, JudgingPlaces DEF Onward
<1>7. Inside(o, Stop(Warned(o)), ev)
  BY <1>1, <1>6, WarnedStopInside
<1> QED
  BY <1>1, <1>2, <1>3, <1>5, <1>7, InsideFrom

\* A step keeps the invariant, and no failure is forgotten but by a process that dies.
Carried == RunsInv' /\ \A q \in Procs : run'[q].pc # "dead" => Latched(run[q], run'[q])

LEMMA LocalKeeps ==
    ASSUME RunsInv, NEW p \in Procs, run[p].pc \notin {"idle", "confirm", "answered", "dead"},
           NEW s, Become(p, s), Inside(run[p], s, evidence), Locally
    PROVE  Carried
<1>1. evidence' = evidence /\ OnlyRuns
  BY DEF Locally, OnlyRuns
<1> QED
  BY <1>1, InsideKeeps DEF Carried

LEMMA LiveRaised ==
    ASSUME NEW ev, NEW r, Live(r, ev), NEW error \in Errors
    PROVE  Inside(r, Raised(r, error), ev)
  BY LiveFacts, RaisedInside

LEMMA AdmitKeeps ==
    ASSUME RunsInv, NEW p \in Procs, Admit(p)
    PROVE  Carried
<1> DEFINE r == run[p]
           s == Goto(r, "intake")
<1>1. run[p].pc = "admit" /\ Locally
  BY DEF Admit, At
<1>2. Live(r, evidence) /\ Placed(r, evidence)
  BY <1>1, Working
<1>3. Inside(r, Raised(r, "STORAGE"), evidence)
  BY <1>2, LiveRaised DEF Errors
<1>4. Inside(r, s, evidence)
  <2>1. /\ s \in RunRecord /\ Kept(r, s) /\ s.pc = "intake" /\ s.machine = r.machine
        /\ s.ledger = r.ledger /\ s.results = r.results
    BY <1>2, LiveFacts, GotoStep DEF Pc, Early
  <2>5. s.worker # "running"
    BY <1>1, <1>2, <2>1 DEF Placed, Alone, Kept
  <2>2. Live(s, evidence)
    BY <1>2, <2>1, LiveFacts, LiveCopy
  <2>3. s.machine.state \in StatesAt(s.pc, FALSE)
    BY <1>1, <1>2, <2>1, EarlyStates, LiveFacts, RecordFacts, ZenonT(60) DEF Placed
  <2>4. Latched(r, s)
    BY <2>1 DEF Latched
  <2> HIDE DEF s, r
  <2> QED
    BY <2>1, <2>2, <2>3, <2>4, <2>5, EarlyInside
<1>5. Become(p, s) \/ Become(p, Raised(r, "STORAGE"))
  BY DEF Admit
<1> HIDE DEF s
<1> QED
  BY <1>1, <1>3, <1>4, <1>5, LocalKeeps

LEMMA IntakeKeeps ==
    ASSUME RunsInv, NEW p \in Procs, Intake(p)
    PROVE  Carried
<1> DEFINE r == run[p]
           g == Goto(r, "normalize")
           s == [g EXCEPT !.pending = scenario.approvals = "pending", !.warned = scenario.warned]
<1>1. run[p].pc = "intake" /\ Locally
  BY DEF Intake, At
<1>2. Live(r, evidence) /\ Placed(r, evidence)
  BY <1>1, Working
<1>3. \A e \in IntakeValidation(scenario.approvals) \ {None} : e \in Errors
  BY DEF IntakeValidation, Errors, None
<1>4. \A e \in IntakeValidation(scenario.approvals) \ {None} : Inside(r, Raised(r, e), evidence)
  BY <1>2, <1>3, LiveRaised
<1>5. Inside(r, s, evidence)
  <2>1. /\ g \in RunRecord /\ Kept(r, g) /\ g.pc = "normalize" /\ g.machine = r.machine
        /\ g.ledger = r.ledger /\ g.results = r.results
    BY <1>2, LiveFacts, GotoStep DEF Pc, Early
  <2> HIDE DEF g
  <2>2. scenario.warned \in BOOLEAN
    BY CaseFacts
  <2>3. /\ s \in RunRecord /\ s.pc = "normalize" /\ s.machine = r.machine /\ s.worker = r.worker
        /\ s.ledger = r.ledger /\ s.results = r.results /\ s.answer = r.answer /\ s.alive = r.alive
    BY <2>1, <2>2, ZenonT(60) DEF RunRecord, Kept
  <2> HIDE DEF s
  <2>4. Live(s, evidence)
    BY <1>2, <2>3 DEF Live
  <2>5. s.machine.state \in StatesAt(s.pc, FALSE)
    BY <1>1, <1>2, <2>3, EarlyStates, LiveFacts, RecordFacts, ZenonT(60) DEF Placed
  <2>6. Latched(r, s)
    BY <2>3 DEF Latched
  <2>7. s.worker # "running"
    BY <1>1, <1>2, <2>3 DEF Placed, Alone
  <2> HIDE DEF r
  <2> QED
    BY <2>3, <2>4, <2>5, <2>6, <2>7, EarlyInside
<1>6. \/ Become(p, s)
      \/ \E e \in IntakeValidation(scenario.approvals) \ {None} : Become(p, Raised(r, e))
  BY DEF Intake
<1> HIDE DEF s
<1> QED
  BY <1>1, <1>4, <1>5, <1>6, LocalKeeps

\* A transition to the next state of the path, from a live run.
LEMMA MovedLive ==
    ASSUME NEW ev, NEW r, Live(r, ev), NEW t \in RunState, t \in ALLOWED_TRANSITIONS[r.machine.state]
    PROVE  LET s == Moved(r, t)
           IN  /\ Live(s, ev) /\ s.machine.state = t /\ Latched(r, s)
               /\ s \in RunRecord /\ Kept(r, s) /\ s.pc = r.pc /\ s.ledger = r.ledger
               /\ s.warned = r.warned /\ s.results = r.results /\ s.completed = r.completed
<1> DEFINE s == Moved(r, t)
<1>1. r \in RunRecord /\ r.machine \in Machine /\ Legal(r.machine) /\ r.machine.state \in RunState
  BY LiveFacts
<1>2. /\ s \in RunRecord /\ Kept(r, s) /\ s.machine = transition(r.machine, t)
      /\ s.pc = r.pc /\ s.ledger = r.ledger
      /\ s.warned = r.warned /\ s.results = r.results /\ s.completed = r.completed
  BY <1>1, MovedStep
<1>3. s.machine.state = t /\ Legal(s.machine)
  BY <1>1, <1>2, LegalStep
<1>4. r.machine.state # Failed
  BY <1>1, TransitionTable DEF TerminalStates
<1> HIDE DEF s
<1>5. Live(s, ev)
  BY <1>2, <1>3, LiveCopy
<1> QED
  BY <1>2, <1>3, <1>4, <1>5 DEF Latched, s

LEMMA NormalizeKeeps ==
    ASSUME RunsInv, NEW p \in Procs, Normalize(p)
    PROVE  Carried
<1> DEFINE r == run[p]
           q == Moved(r, "NORMALIZE")
           s == Goto(q, "validate")
<1>1. r.pc = "normalize" /\ Locally
  BY DEF Normalize, At
<1>2. Live(r, evidence) /\ Placed(r, evidence)
  BY <1>1, Working
<1>3. r.machine.state = "INTAKE" /\ r.worker # "running"
  BY <1>1, <1>2, EarlyStates, LiveFacts, RecordFacts DEF Placed, Alone
<1>4. /\ Live(q, evidence) /\ q.machine.state = "NORMALIZE" /\ Latched(r, q)
      /\ q.worker # "running"
  BY <1>2, <1>3, TransitionTable, MovedLive DEF RunState, Kept
<1>5. Become(p, s) \/ Become(p, Raised(q, "NormalizationError"))
  BY DEF Normalize, NormalizationBinding
<1> HIDE DEF q
<1>6. Inside(r, Raised(q, "NormalizationError"), evidence)
  <2>1. Inside(q, Raised(q, "NormalizationError"), evidence)
    BY <1>4, LiveRaised DEF Errors
  <2> QED
    BY <1>4, <2>1, InsideFrom
<1>7. Inside(q, s, evidence)
  <2>1. /\ s \in RunRecord /\ Kept(q, s) /\ s.pc = "validate" /\ s.machine = q.machine
        /\ s.ledger = q.ledger /\ s.results = q.results
    BY <1>4, LiveFacts, GotoStep DEF Pc, Early
  <2> HIDE DEF s
  <2>2. Live(s, evidence)
    BY <1>4, <2>1, LiveFacts, LiveCopy
  <2>3. s.machine.state \in StatesAt(s.pc, FALSE)
    BY <1>4, <2>1, EarlyStates
  <2>4. Latched(q, s) /\ s.worker # "running"
    BY <1>4, <2>1 DEF Latched, Kept
  <2> QED
    BY <2>1, <2>2, <2>3, <2>4, EarlyInside
<1>8. Inside(r, s, evidence)
  BY <1>4, <1>7, InsideFrom
<1> HIDE DEF s
<1> QED
  BY <1>1, <1>5, <1>6, <1>8, LocalKeeps

\* A record that differs only in what no property is about, or is doubted besides.
Alike(r, s) ==
    /\ s \in RunRecord
    /\ s.pc = r.pc /\ s.machine = r.machine /\ s.ledger = r.ledger /\ s.worker = r.worker
    /\ s.alive = r.alive /\ s.results = r.results /\ s.authority = r.authority
    /\ s.pending = r.pending /\ s.completed = r.completed /\ s.report = r.report
    /\ s.buffered = r.buffered /\ s.answer = r.answer /\ (r.warned => s.warned)

LEMMA AlikeInside ==
    ASSUME NEW ev, NEW r, NEW s, NEW t, Inside(r, s, ev), Alike(s, t), s.pc \in Judging,
           s.pc # "settle"
    PROVE  Inside(r, t, ev)
<1>1. s.pc \notin {"idle", "confirm", "answered"}
  BY JudgingPlaces
<1>2. Live(s, ev) /\ Placed(s, ev)
  BY <1>1 DEF Inside, RunInv, Left
<1>3. Live(t, ev)
  BY <1>2 DEF Live, Alike
<1>4. /\ s.pc \notin Reporting \cup Reporteds \cup Sealed
      /\ s.pc \notin Reporteds \cup Sealed /\ s.pc \notin Sealed \cup {"artifacts"}
      /\ s.pc \notin Sealed /\ s.pc \notin Vouched
  BY JudgingPlaces
<1>5. Placed(t, ev)
  BY <1>2, <1>4 DEF Placed, Alike
<1>6. Latched(r, t)
  BY DEF Inside, Latched, Alike
<1> QED
  BY <1>1, <1>3, <1>5, <1>6, PlaceInside DEF Alike

LEMMA WarnedOnward ==
    ASSUME NEW ev, NEW r, Live(r, ev), NEW pc, Onward(r, pc)
    PROVE  Inside(r, Warned(Goto(r, pc)), ev) /\ Inside(r, Goto(Warned(r), pc), ev)
<1> DEFINE g == Goto(r, pc)
           w == Warned(r)
<1>1. Inside(r, g, ev)
  BY OnwardInside
<1>2. pc \in Judging /\ pc # "settle" /\ g \in RunRecord /\ g.pc = pc
  BY LiveFacts, JudgingPlaces, GotoStep, ZenonT(60) DEF Onward
<1> HIDE DEF g
<1>3. Alike(g, Warned(g))
  BY <1>2, WarnedStep DEF Alike, Kept
<1>4. Inside(r, Warned(g), ev)
  BY <1>1, <1>2, <1>3, AlikeInside
<1>5. /\ Live(w, ev) /\ Latched(r, w) /\ w.machine = r.machine /\ w.worker = r.worker
  BY WarnedLive DEF Kept
<1> HIDE DEF w
<1>6. Onward(w, pc)
  BY <1>5 DEF Onward
<1>7. Inside(w, Goto(w, pc), ev)
  BY <1>5, <1>6, OnwardInside
<1> QED
  BY <1>4, <1>5, <1>7, InsideFrom DEF g, w

LEMMA JudgingCompleted ==
    ASSUME NEW r \in RunRecord, r.pc \in Judging
    PROVE  StatesAt(r.pc, r.completed) = StatesAt(r.pc, FALSE)
<1>1. r.completed = TRUE \/ r.completed = FALSE
  BY RecordFacts
<1> QED
  BY <1>1, JudgingPlaces

LEMMA JudgingStates ==
    /\ StatesAt("hand", FALSE) = {"DATA_VALIDATION"} /\ StatesAt("route", FALSE) = {"DATA_VALIDATION"}
    /\ \A pc \in Analysing : StatesAt(pc, FALSE) = {"INDEPENDENT_ANALYSIS"}
    /\ \A pc \in Tooling : StatesAt(pc, FALSE) = {"TOOL_AND_RESEARCH"}
    /\ StatesAt("adjudicate", FALSE) = {"CRITIQUE"} /\ StatesAt("decide", FALSE) = {"ADJUDICATION"}
  BY DEF StatesAt, Analysing, Tooling, Reporting, Sealed, Vouched

LEMMA AnalysingState ==
    ASSUME NEW s \in RunRecord, s.pc \in Analysing
    PROVE  StatesAt(s.pc, s.completed) = {"INDEPENDENT_ANALYSIS"}
<1>1. s.pc \in Judging
  BY DEF Judging
<1>2. StatesAt(s.pc, s.completed) = StatesAt(s.pc, FALSE)
  BY <1>1, JudgingCompleted
<1> QED
  BY <1>2, JudgingStates

LEMMA ScreenKeeps ==
    ASSUME RunsInv, NEW p \in Procs, Validate(p)
    PROVE  Carried
<1> DEFINE r == run[p]
           q == Moved(r, "DATA_VALIDATION")
<1>1. r.pc = "validate" /\ Locally
  BY DEF Validate, At
<1>2. Live(r, evidence) /\ Placed(r, evidence)
  BY <1>1, Working
<1>3. r.machine.state = "NORMALIZE" /\ r.worker # "running"
  BY <1>1, <1>2, EarlyStates, LiveFacts, RecordFacts DEF Placed, Alone
<1>4. /\ Live(q, evidence) /\ q.machine.state = "DATA_VALIDATION" /\ Latched(r, q)
      /\ q.worker # "running"
  BY <1>2, <1>3, TransitionTable, MovedLive DEF RunState, Kept
<1>5. \/ scenario.blocked /\ Become(p, Stop(Warned(q)))
      \/ ~scenario.blocked /\ Become(p, Goto(q, "hand"))
      \/ ~scenario.blocked /\ Become(p, Warned(Goto(q, "route")))
      \/ ~scenario.blocked /\ Become(p, Goto(q, "route"))
  BY DEF Validate
<1> HIDE DEF q
<1>6. Inside(q, Stop(Warned(q)), evidence)
  BY <1>4, WarnedStopInside DEF TerminalStates, Failed
<1>7. ASSUME ~scenario.blocked
      PROVE  /\ Inside(q, Goto(q, "hand"), evidence)
             /\ Inside(q, Goto(q, "route"), evidence) /\ Inside(q, Warned(Goto(q, "route")), evidence)
  <2>1. \A pc \in {"hand", "route"} : Onward(q, pc)
    BY <1>4, <1>7, JudgingStates DEF Onward, Judging
  <2> QED
    BY <1>4, <2>1, OnwardInside, WarnedOnward
<1> HIDE DEF r
<1>8. ASSUME NEW s, Inside(q, s, evidence), Become(p, s) PROVE Carried
  <2>1. Inside(r, s, evidence)
    BY <1>4, <1>8, InsideFrom
  <2> QED
    BY <1>1, <1>8, <2>1, LocalKeeps DEF r
<1> QED
  BY <1>5, <1>6, <1>7, <1>8

\* A step inside the run, by way of another record.
LEMMA ThroughKeeps ==
    ASSUME RunsInv, NEW p \in Procs, run[p].pc \notin {"idle", "confirm", "answered", "dead"},
           NEW q, Latched(run[p], q), NEW s, Inside(q, s, evidence), Become(p, s), Locally
    PROVE  Carried
  BY InsideFrom, LocalKeeps

LEMMA JudgingFacts ==
    ASSUME RunsInv, NEW p \in Procs, run[p].pc \in Judging
    PROVE  /\ run[p].pc \notin {"idle", "confirm", "answered", "dead"}
           /\ Live(run[p], evidence) /\ Placed(run[p], evidence) /\ ~scenario.blocked
           /\ run[p].machine.state \in StatesAt(run[p].pc, FALSE)
<1>1. run[p].pc \notin {"idle", "confirm", "answered", "dead"}
  BY DEF Judging, Analysing, Tooling
<1>2. Live(run[p], evidence) /\ Placed(run[p], evidence)
  BY <1>1, Working
<1>3. run[p].completed \in BOOLEAN
  BY <1>2, LiveFacts, RecordFacts
<1> QED
  BY <1>1, <1>2, <1>3, JudgingPlaces DEF Placed

LEMMA RouteKeeps ==
    ASSUME RunsInv, NEW p \in Procs, Route(p)
    PROVE  Carried
<1> DEFINE r == run[p]
           q == Moved(r, "TASK_ROUTING")
           a == Moved(q, "INDEPENDENT_ANALYSIS")
           s == [a EXCEPT !.machine = start_deliberation_round(@)]
           c == Moved(q, "TOOL_AND_RESEARCH")
<1>1. r.pc = "route" /\ Locally /\ r.pc \in Judging
  BY DEF Route, At, Judging
<1>2. /\ Live(r, evidence) /\ Placed(r, evidence) /\ ~scenario.blocked
      /\ r.machine.state = "DATA_VALIDATION" /\ r.worker # "running"
  BY <1>1, JudgingFacts, JudgingStates DEF Placed, Alone
<1>3. /\ Live(q, evidence) /\ q.machine.state = "TASK_ROUTING" /\ Latched(r, q) /\ Kept(r, q)
  BY <1>2, TransitionTable, MovedLive DEF RunState
<1>4. \/ Become(p, Goto(c, "prefix"))
      \/ Become(p, Stop(Warned(a)))
      \/ Become(p, Goto(s, "window"))
  BY DEF Route
<1> HIDE DEF q
<1>5. /\ Live(a, evidence) /\ a.machine.state = "INDEPENDENT_ANALYSIS" /\ Latched(q, a) /\ Kept(q, a)
  BY <1>3, TransitionTable, MovedLive DEF RunState
<1>6. /\ Live(c, evidence) /\ c.machine.state = "TOOL_AND_RESEARCH" /\ Latched(q, c)
  BY <1>3, TransitionTable, MovedLive DEF RunState
<1> HIDE DEF a, c
<1>7. Inside(c, Goto(c, "prefix"), evidence)
  <2>1. Onward(c, "prefix")
    BY <1>2, <1>6, JudgingStates DEF Onward, Judging, Tooling, Alone
  <2> QED
    BY <1>6, <2>1, OnwardInside
<1>8. Inside(a, Stop(Warned(a)), evidence)
  BY <1>5, WarnedStopInside DEF TerminalStates, Failed
<1>9. Inside(s, Goto(s, "window"), evidence) /\ Latched(a, s)
  <2>1. a \in RunRecord /\ a.machine \in Machine /\ Legal(a.machine)
    BY <1>5, LiveFacts
  <2> DEFINE m == start_deliberation_round(a.machine)
  <2>2. /\ m \in Machine /\ m.state = a.machine.state /\ m.events = a.machine.events
        /\ m.illegal = a.machine.illegal
    BY <2>1, LimitAssumption DEF start_deliberation_round, Machine
  <2>3. s = [a EXCEPT !.machine = m]
    OBVIOUS
  <2> HIDE DEF m, s
  <2>4. Legal(m)
    BY <2>1, <2>2 DEF Legal
  <2>5. /\ s \in RunRecord /\ s.machine = m /\ Kept(a, s) /\ s.results = a.results
        /\ s.ledger = a.ledger
    BY <2>1, <2>2, <2>3 DEF RunRecord, Kept
  <2>6. Live(s, evidence)
    BY <1>5, <2>4, <2>5, LiveCopy
  <2>7. Latched(a, s)
    BY <2>2, <2>5 DEF Latched
  <2>8. s.worker # "running"
    BY <1>1, <1>2, <1>3, <1>5, <2>5 DEF Kept
  <2>9. Onward(s, "window")
    BY <1>2, <1>5, <2>2, <2>5, <2>8, JudgingStates, ZenonT(60) DEF Onward, Judging, Analysing
  <2> QED
    BY <2>6, <2>7, <2>9, OnwardInside
<1> HIDE DEF s
<1>10. Latched(r, c) /\ Latched(r, a) /\ Latched(r, s)
  BY <1>3, <1>5, <1>6, <1>9 DEF Latched, observation_failed
<1>11. r.pc \notin {"idle", "confirm", "answered", "dead"}
  BY <1>1
<1> QED
  BY <1>1, <1>4, <1>7, <1>8, <1>9, <1>10, <1>11, ThroughKeeps

LEMMA AnalysisWindowKeeps ==
    ASSUME RunsInv, NEW p \in Procs, AnalysisWindow(p) \/ Preflight(p)
    PROVE  Carried
<1> DEFINE r == run[p]
<1>1. r.pc \in {"window", "preflight"} /\ Locally /\ r.pc \in Judging /\ r.pc \in Analysing
  BY DEF AnalysisWindow, Preflight, At, Judging, Analysing
<1>2. /\ Live(r, evidence) /\ Placed(r, evidence) /\ ~scenario.blocked
      /\ r.machine.state = "INDEPENDENT_ANALYSIS" /\ r.worker # "running"
  BY <1>1, JudgingFacts, JudgingStates, ZenonT(60) DEF Placed, Alone
<1>3. PICK c \in Reading : Become(p, Windowed(r, c, "context")) \/ Become(p, Windowed(r, c, "dispatch"))
  BY DEF AnalysisWindow, Preflight
<1>4. \A pc \in {"context", "dispatch"} : Onward(r, pc)
  BY <1>2, JudgingStates DEF Onward, Judging, Analysing
<1>5. \A pc \in {"context", "dispatch"} : Inside(r, Windowed(r, c, pc), evidence)
  BY <1>2, <1>4, WindowedInside
<1> QED
  BY <1>1, <1>3, <1>5, LocalKeeps

LEMMA ContextBuildKeeps ==
    ASSUME RunsInv, NEW p \in Procs, ContextBuild(p)
    PROVE  Carried
<1> DEFINE r == run[p]
<1>1. r.pc = "context" /\ Locally /\ r.pc \in Judging /\ r.pc \in Analysing
  BY DEF ContextBuild, At, Judging, Analysing
<1>2. /\ Live(r, evidence) /\ Placed(r, evidence) /\ ~scenario.blocked
      /\ r.machine.state = "INDEPENDENT_ANALYSIS" /\ r.worker # "running"
  BY <1>1, JudgingFacts, JudgingStates, ZenonT(60) DEF Placed, Alone
<1>3. PICK c \in Reading : Become(p, Windowed(r, c, "preflight")) \/ Become(p, Stop(Warned(r)))
  BY DEF ContextBuild
<1>4. Onward(r, "preflight")
  BY <1>2, JudgingStates DEF Onward, Judging, Analysing
<1>5. Inside(r, Windowed(r, c, "preflight"), evidence)
  BY <1>2, <1>4, WindowedInside
<1>6. Inside(r, Stop(Warned(r)), evidence)
  BY <1>2, WarnedStopInside DEF TerminalStates, Failed
<1> QED
  BY <1>1, <1>3, <1>5, <1>6, LocalKeeps

\* What an execution leaves: one that did not complete left a line, a deadline that passed is
\* a failure.
LEMMA AnalysisRecords ==
    \A a \in AcceptedReport \cup RefusedHandoff \cup ProviderRaised
             \cup {TimedOut(c) : c \in Cancels} \cup {Analysis("refused", TRUE, FALSE, NotRequested, FALSE)} :
        /\ a \in Analyses
        /\ a.status # "completed" => a.warned
        /\ a \in {TimedOut(c) : c \in Cancels} => a.timed
<1>1. ASSUME NEW status \in {None, "completed", "failed", "refused", "fallback"},
             NEW budget \in BOOLEAN, NEW timed \in BOOLEAN, NEW cancel \in Cancels, NEW objects \in BOOLEAN
      PROVE  LET a == Analysis(status, budget, timed, cancel, objects)
             IN  a \in Analyses /\ (a.status # "completed" => a.warned) /\ a.timed = timed
  <2> DEFINE w == status # "completed"
  <2>1. w \in BOOLEAN
    OBVIOUS
  <2>2. Analysis(status, budget, timed, cancel, objects) =
          [status |-> status, budget |-> budget, timed |-> timed, cancel |-> cancel,
           objects |-> objects, warned |-> w]
    BY DEF Analysis
  <2>3. status # "completed" => w
    OBVIOUS
  <2> HIDE DEF w
  <2> QED
    BY <2>1, <2>2, <2>3 DEF Analyses
<1>2. NotRequested \in Cancels /\ "cancel_unconfirmed" \in Cancels /\ "requested" \in Cancels
  BY DEF Cancels
<1>3. \A a \in AcceptedReport : a \in Analyses /\ (a.status # "completed" => a.warned)
  <2>1. \A o \in BOOLEAN : LET a == Analysis("completed", FALSE, FALSE, NotRequested, o)
                           IN  a \in Analyses /\ (a.status # "completed" => a.warned)
    BY <1>1, <1>2, ZenonT(60)
  <2>2. \A b \in BOOLEAN : LET a == Analysis("failed", b, FALSE, NotRequested, FALSE)
                           IN  a \in Analyses /\ (a.status # "completed" => a.warned)
    BY <1>1, <1>2, ZenonT(60)
  <2> QED
    BY <2>1, <2>2 DEF AcceptedReport
<1>4. \A a \in RefusedHandoff : a \in Analyses /\ (a.status # "completed" => a.warned)
  <2>1. \A b \in BOOLEAN : LET a == Analysis("refused", b, FALSE, NotRequested, FALSE)
                           IN  a \in Analyses /\ (a.status # "completed" => a.warned)
    BY <1>1, <1>2
  <2>2. LET a == Analysis("failed", FALSE, FALSE, NotRequested, FALSE)
        IN  a \in Analyses /\ (a.status # "completed" => a.warned)
    BY <1>1, <1>2
  <2> QED
    BY <2>1, <2>2 DEF RefusedHandoff
<1>5. \A a \in ProviderRaised : a \in Analyses /\ (a.status # "completed" => a.warned)
  <2>1. LET a == Analysis("fallback", FALSE, FALSE, NotRequested, FALSE)
        IN  a \in Analyses /\ (a.status # "completed" => a.warned)
    BY <1>1, <1>2
  <2>2. LET a == Analysis("failed", FALSE, TRUE, "cancel_unconfirmed", FALSE)
        IN  a \in Analyses /\ (a.status # "completed" => a.warned)
    BY <1>1, <1>2
  <2> QED
    BY <2>1, <2>2 DEF ProviderRaised
<1>6. \A c \in Cancels : /\ TimedOut(c) \in Analyses /\ TimedOut(c).timed
                         /\ TimedOut(c).status # "completed" => TimedOut(c).warned
  BY <1>1 DEF TimedOut
<1>7. LET a == Analysis("refused", TRUE, FALSE, NotRequested, FALSE)
      IN  a \in Analyses /\ (a.status # "completed" => a.warned)
  BY <1>1, <1>2
<1> QED
  BY <1>3, <1>4, <1>5, <1>6, <1>7

\* The run goes to the settlement with what its execution left.
LEMMA SettlementInside ==
    ASSUME NEW ev, NEW r, Live(r, ev), r.machine.state = "INDEPENDENT_ANALYSIS", ~scenario.blocked,
           NEW a \in Analyses, a.status # "completed" => a.warned,
           r.worker = "running" => a.timed
    PROVE  Inside(r, [Goto(r, "settle") EXCEPT !.analysis = a], ev)
<1> DEFINE g == Goto(r, "settle")
           s == [g EXCEPT !.analysis = a]
<1>1. /\ g \in RunRecord /\ Kept(r, g) /\ g.pc = "settle" /\ g.machine = r.machine
      /\ g.ledger = r.ledger /\ g.results = r.results /\ g.completed = r.completed
  BY LiveFacts, GotoStep DEF Pc, Judging, Analysing
<1> HIDE DEF g
<1>2. /\ s \in RunRecord /\ s.pc = "settle" /\ s.machine = r.machine /\ s.ledger = r.ledger
      /\ s.results = r.results /\ s.completed = r.completed /\ s.worker = r.worker
      /\ s.alive = r.alive /\ s.answer = r.answer /\ s.analysis = a
  BY <1>1 DEF RunRecord, Kept
<1> HIDE DEF s
<1>3. Live(s, ev)
  BY <1>2 DEF Live
<1>4. "settle" \in Judging /\ "settle" \in Analysing /\ "settle" \notin Alone
  BY DEF Judging, Analysing, Alone
<1>6. s.machine.state \in StatesAt(s.pc, s.completed)
  BY <1>2, <1>4, AnalysingState
<1>7. Placed(s, ev)
  BY <1>2, <1>4, <1>6, JudgingPlaces DEF Placed
<1>8. Latched(r, s)
  BY <1>2 DEF Latched
<1> QED
  BY <1>2, <1>3, <1>7, <1>8, PlaceInside DEF s, g

LEMMA DispatchKeeps ==
    ASSUME RunsInv, NEW p \in Procs, Dispatch(p)
    PROVE  Carried
<1> DEFINE r == run[p]
           g == Goto(r, "join")
           s == [g EXCEPT !.worker = "running", !.alive = @ + 1, !.cancel = NotRequested]
<1>1. r.pc = "dispatch" /\ Locally /\ r.pc \in Judging /\ r.pc \in Analysing
  BY DEF Dispatch, At, Judging, Analysing
<1>2. /\ Live(r, evidence) /\ Placed(r, evidence) /\ ~scenario.blocked
      /\ r.machine.state = "INDEPENDENT_ANALYSIS" /\ r.worker # "running"
  BY <1>1, JudgingFacts, JudgingStates, ZenonT(60) DEF Placed, Alone
<1>3. \/ \E a \in RefusedHandoff : Become(p, [Goto(r, "settle") EXCEPT !.analysis = a])
      \/ Become(p, s)
  BY DEF Dispatch
<1>4. \A a \in RefusedHandoff : Inside(r, [Goto(r, "settle") EXCEPT !.analysis = a], evidence)
  BY <1>2, AnalysisRecords, SettlementInside
<1>5. Inside(r, s, evidence)
  <2>1. r.alive = 0 /\ NotRequested \in Cancels
    BY <1>2, LiveFacts DEF Cancels, RunRecord
  <2>2. /\ g \in RunRecord /\ Kept(r, g) /\ g.pc = "join" /\ g.machine = r.machine
        /\ g.ledger = r.ledger /\ g.results = r.results /\ g.completed = r.completed
    BY <1>2, LiveFacts, GotoStep DEF Pc, Judging, Analysing
  <2> HIDE DEF g
  <2>3. s = [g EXCEPT !.worker = "running", !.alive = 1, !.cancel = NotRequested]
    BY <2>1, <2>2 DEF Kept
  <2> HIDE DEF s
  <2>4. /\ s \in RunRecord /\ s.pc = "join" /\ s.machine = r.machine /\ s.ledger = r.ledger
        /\ s.results = r.results /\ s.completed = r.completed /\ s.worker = "running"
        /\ s.alive = 1 /\ s.answer = r.answer
    BY <2>1, <2>2, <2>3, ZenonT(60) DEF RunRecord, Kept
  <2>5. Live(s, evidence)
    BY <1>2, <2>4 DEF Live
  <2>6. "join" \in Judging /\ "join" \in Analysing /\ "join" \notin Alone
    BY DEF Judging, Analysing, Alone
  <2>7. s.machine.state \in StatesAt(s.pc, s.completed)
    BY <1>2, <2>4, <2>6, AnalysingState
  <2>8. Placed(s, evidence)
    BY <1>2, <2>4, <2>6, <2>7, JudgingPlaces DEF Placed
  <2>9. Latched(r, s)
    BY <2>4 DEF Latched
  <2> HIDE DEF r
  <2> QED
    BY <2>4, <2>5, <2>8, <2>9, PlaceInside
<1> HIDE DEF s
<1> QED
  BY <1>1, <1>3, <1>4, <1>5, LocalKeeps

LEMMA JoinKeeps ==
    ASSUME RunsInv, NEW p \in Procs, Join(p)
    PROVE  Carried
<1> DEFINE r == run[p]
           g == Goto(r, "grace")
           s == [g EXCEPT !.cancel = "requested"]
<1>1. r.pc = "join" /\ Locally /\ r.pc \in Judging /\ r.pc \in Analysing
  BY DEF Join, At, Judging, Analysing
<1>2. /\ Live(r, evidence) /\ Placed(r, evidence) /\ ~scenario.blocked
      /\ r.machine.state = "INDEPENDENT_ANALYSIS"
  BY <1>1, JudgingFacts, JudgingStates
<1>3. \/ \E a \in Joined(r.worker) : Become(p, [Goto(r, "settle") EXCEPT !.analysis = a])
      \/ Become(p, s)
  BY DEF Join
<1>4. ASSUME NEW a \in Joined(r.worker)
      PROVE  Inside(r, [Goto(r, "settle") EXCEPT !.analysis = a], evidence)
  <2>1. r.worker # "running"
    BY <1>4 DEF Joined
  <2>2. "requested" \in Cancels
    BY DEF Cancels
  <2>3. a \in AcceptedReport \cup RefusedHandoff \cup ProviderRaised
             \cup {TimedOut(c) : c \in Cancels} \cup {Analysis("refused", TRUE, FALSE, NotRequested, FALSE)}
    BY <1>4, <2>2 DEF Joined
  <2>4. a \in Analyses /\ (a.status # "completed" => a.warned)
    BY <2>3, AnalysisRecords
  <2> HIDE DEF r
  <2> QED
    BY <1>2, <2>1, <2>4, SettlementInside
<1>5. Inside(r, s, evidence)
  <2>1. /\ g \in RunRecord /\ Kept(r, g) /\ g.pc = "grace" /\ g.machine = r.machine
        /\ g.ledger = r.ledger /\ g.results = r.results /\ g.completed = r.completed
    BY <1>2, LiveFacts, GotoStep DEF Pc, Judging, Analysing
  <2> HIDE DEF g
  <2>2. /\ s \in RunRecord /\ s.pc = "grace" /\ s.machine = r.machine /\ s.ledger = r.ledger
        /\ s.results = r.results /\ s.completed = r.completed /\ s.worker = r.worker
        /\ s.alive = r.alive /\ s.answer = r.answer
    BY <2>1 DEF RunRecord, Kept, Cancels
  <2> HIDE DEF s
  <2>3. Live(s, evidence)
    BY <1>2, <2>2 DEF Live
  <2>4. "grace" \in Judging /\ "grace" \in Analysing /\ "grace" \notin Alone
    BY DEF Judging, Analysing, Alone
  <2>5. s.machine.state \in StatesAt(s.pc, s.completed)
    BY <1>2, <2>2, <2>4, AnalysingState
  <2>6. Placed(s, evidence)
    BY <1>2, <2>2, <2>4, <2>5, JudgingPlaces DEF Placed
  <2>7. Latched(r, s)
    BY <2>2 DEF Latched
  <2> HIDE DEF r
  <2> QED
    BY <2>2, <2>3, <2>6, <2>7, PlaceInside
<1> HIDE DEF s
<1> QED
  BY <1>1, <1>3, <1>4, <1>5, LocalKeeps

LEMMA GraceKeeps ==
    ASSUME RunsInv, NEW p \in Procs, Grace(p)
    PROVE  Carried
<1> DEFINE r == run[p]
<1>1. r.pc = "grace" /\ Locally /\ r.pc \in Judging /\ r.pc \in Analysing
  BY DEF Grace, At, Judging, Analysing
<1>2. /\ Live(r, evidence) /\ ~scenario.blocked /\ r.machine.state = "INDEPENDENT_ANALYSIS"
  BY <1>1, JudgingFacts, JudgingStates
<1>3. PICK c \in {"cancelled", "cancel_unconfirmed"} :
         Become(p, [Goto(r, "settle") EXCEPT !.analysis = TimedOut(c)])
  BY DEF Grace
<1> DEFINE a == TimedOut(c)
<1>4. c \in Cancels
  BY <1>3 DEF Cancels
<1>5. a \in {TimedOut(d) : d \in Cancels}
  BY <1>4
<1>6. a \in Analyses /\ (a.status # "completed" => a.warned) /\ a.timed
  BY <1>5, AnalysisRecords
<1> HIDE DEF a
<1>7. Inside(r, [Goto(r, "settle") EXCEPT !.analysis = a], evidence)
  <2> HIDE DEF r
  <2> QED
    BY <1>2, <1>6, SettlementInside
<1> QED
  BY <1>1, <1>3, <1>7, LocalKeeps DEF a

\* The judgement of an analysis: it goes on only when no worker is left behind.
LEMMA JudgedInside ==
    ASSUME NEW ev, NEW r, Live(r, ev), r.machine.state = "INDEPENDENT_ANALYSIS", ~scenario.blocked,
           validate_analysis_output(r.analysis), r.analysis.status # "completed" => r.warned,
           r.worker = "running" => r.analysis.timed
    PROVE  Inside(r, AnalysisJudged(r), ev)
<1> DEFINE a == r.analysis
           d == IF ObjectionDisputes(scenario.claim, a) THEN [r EXCEPT !.disputed = TRUE] ELSE r
           g == Goto(d, "window")
           s == [g EXCEPT !.role = @ + 1]
<1>1. r.machine.state \notin TerminalStates
  BY DEF TerminalStates, Failed
<1>2. Inside(r, Stop(Warned(r)), ev)
  BY <1>1, WarnedStopInside
<1>3. r.warned => Inside(r, Stop(r), ev)
  BY <1>1, StopInside DEF Doubted
<1>4. a.timed => a.status # "completed"
  BY DEF validate_analysis_output
<1>5. /\ d \in RunRecord /\ Kept(r, d) /\ d.machine = r.machine /\ d.ledger = r.ledger
      /\ d.results = r.results
  <2> DEFINE q == [r EXCEPT !.disputed = TRUE]
  <2>1. r \in RunRecord
    BY LiveFacts
  <2>2. /\ q \in RunRecord /\ Kept(r, q) /\ q.machine = r.machine /\ q.ledger = r.ledger
        /\ q.results = r.results
    BY <2>1 DEF RunRecord, Kept
  <2>3. Kept(r, r)
    BY DEF Kept
  <2>4. d = q \/ d = r
    OBVIOUS
  <2> HIDE DEF d, q
  <2> QED
    BY <2>1, <2>2, <2>3, <2>4
<1>6. \/ AnalysisJudged(r) = Stop(Warned(r))
      \/ a.status # "completed" /\ AnalysisJudged(r) = Stop(r)
      \/ r.worker # "running" /\ AnalysisJudged(r) = s
      \/ AnalysisJudged(r) = Goto(d, "after_analysis")
  BY <1>4 DEF AnalysisJudged
<1> HIDE DEF d
<1>7. Live(d, ev) /\ Latched(r, d)
  BY <1>5, LiveFacts, LiveCopy DEF Latched
<1>8. Inside(d, Goto(d, "after_analysis"), ev)
  <2>0. "after_analysis" \in Analysing /\ "after_analysis" \in Judging /\ "after_analysis" \notin Alone
    BY DEF Judging, Analysing, Alone
  <2>1. Onward(d, "after_analysis")
    BY <1>5, <2>0, JudgingStates, ZenonT(60) DEF Onward
  <2> QED
    BY <1>7, <2>1, OnwardInside
<1>9. ASSUME r.worker # "running" PROVE Inside(d, s, ev)
  <2>0. "window" \in Analysing /\ "window" \in Judging
    BY DEF Judging, Analysing
  <2>1. Onward(d, "window")
    <3>1. StatesAt("window", FALSE) = {"INDEPENDENT_ANALYSIS"}
      BY <2>0, JudgingStates
    <3>2. d.worker # "running" /\ d.machine.state = "INDEPENDENT_ANALYSIS"
      BY <1>5, <1>9 DEF Kept
    <3> QED
      BY <2>0, <3>1, <3>2 DEF Onward
  <2>2. Inside(d, g, ev)
    BY <1>7, <2>1, OnwardInside
  <2>3. g \in RunRecord /\ g.pc = "window"
    BY <1>5, GotoStep DEF Pc, Judging, Analysing
  <2> HIDE DEF g
  <2>4. Alike(g, s)
    BY <2>3 DEF RunRecord, Alike
  <2>5. g.pc \in Judging /\ g.pc # "settle"
    BY <2>3 DEF Judging, Analysing
  <2> HIDE DEF s
  <2> QED
    BY <2>2, <2>4, <2>5, AlikeInside
<1> HIDE DEF s
<1> QED
  BY <1>2, <1>3, <1>6, <1>7, <1>8, <1>9, InsideFrom

LEMMA SettleAnalysisKeeps ==
    ASSUME RunsInv, NEW p \in Procs, SettleAnalysis(p)
    PROVE  Carried
<1> DEFINE r0 == run[p]
           r == IF r0.analysis.warned THEN Warned(r0) ELSE r0
<1>1. r0.pc = "settle" /\ Locally /\ r0.pc \in Judging /\ r0.pc \in Analysing
      /\ validate_analysis_output(r0.analysis)
  BY DEF SettleAnalysis, At, Judging, Analysing
<1>2. /\ Live(r0, evidence) /\ Placed(r0, evidence) /\ ~scenario.blocked
      /\ r0.machine.state = "INDEPENDENT_ANALYSIS"
      /\ r0.worker = "running" => r0.analysis.timed
      /\ r0.analysis.status # "completed" => r0.analysis.warned
  BY <1>1, JudgingFacts, JudgingStates, ZenonT(60) DEF Placed
<1>3. /\ Live(r, evidence) /\ Latched(r0, r) /\ r.machine = r0.machine /\ Kept(r0, r)
      /\ r0.analysis.warned => r.warned
  BY <1>2, LiveFacts, WarnedLive, WarnedStep, ZenonT(60) DEF Kept, Latched
<1>4. PICK c \in EffectReading :
         LET s == [r EXCEPT !.ledger = apply_at(@, c)]
         IN  Become(p, Stop(Warned(s))) \/ Become(p, AnalysisJudged(s))
  BY DEF SettleAnalysis
<1> HIDE DEF r
<1> DEFINE s == [r EXCEPT !.ledger = apply_at(@, c)]
<1>5. LedgerOnly(r, s) /\ Live(s, evidence) /\ Latched(r, s)
  BY <1>3, SettledLive
<1> HIDE DEF s
<1>6. /\ s.machine.state = "INDEPENDENT_ANALYSIS" /\ validate_analysis_output(s.analysis)
      /\ s.analysis.status # "completed" => s.warned
      /\ s.worker = "running" => s.analysis.timed
  BY <1>1, <1>2, <1>3, <1>5 DEF LedgerOnly, Kept
<1>7. Inside(s, Stop(Warned(s)), evidence)
  BY <1>5, <1>6, WarnedStopInside DEF TerminalStates, Failed
<1>8. Inside(s, AnalysisJudged(s), evidence)
  BY <1>2, <1>5, <1>6, JudgedInside
<1>9. Latched(r0, s)
  BY <1>3, <1>5 DEF Latched, observation_failed
<1>10. Become(p, Stop(Warned(s))) \/ Become(p, AnalysisJudged(s))
  BY <1>4 DEF s
<1>11. r0.pc \notin {"idle", "confirm", "answered", "dead"}
  BY <1>1
<1> QED
  BY <1>1, <1>7, <1>8, <1>9, <1>10, <1>11, ThroughKeeps

LEMMA AfterAnalysisKeeps ==
    ASSUME RunsInv, NEW p \in Procs, AfterAnalysis(p)
    PROVE  Carried
<1> DEFINE r == run[p]
<1>1. r.pc = "after_analysis" /\ Locally /\ r.pc \in Judging /\ r.pc \in Analysing
  BY DEF AfterAnalysis, At, Judging, Analysing
<1>2. /\ Live(r, evidence) /\ ~scenario.blocked /\ r.machine.state = "INDEPENDENT_ANALYSIS"
  BY <1>1, JudgingFacts, JudgingStates
<1>3. PICK c \in Reading :
         LET o == Seen(r, c)
         IN  \/ Become(p, Synthesize(Projected(o), FALSE))
             \/ Become(p, Goto(Moved(o, "TOOL_AND_RESEARCH"), "prefix"))
  BY DEF AfterAnalysis
<1> DEFINE o == Seen(r, c)
           m == Moved(o, "TOOL_AND_RESEARCH")
<1>4. LedgerOnly(r, o) /\ Live(o, evidence) /\ Latched(r, o)
  BY <1>2, SeenLive
<1>5. Become(p, Synthesize(Projected(o), FALSE)) \/ Become(p, Goto(m, "prefix"))
  BY <1>3
<1> HIDE DEF o
<1>6. Inside(o, Synthesize(Projected(o), FALSE), evidence)
  BY <1>4, ProjectedInside
<1>7. Live(m, evidence) /\ m.machine.state = "TOOL_AND_RESEARCH" /\ Latched(o, m)
  BY <1>2, <1>4, TransitionTable, MovedLive DEF RunState, LedgerOnly
<1> HIDE DEF m
<1>8. Onward(m, "prefix")
  BY <1>2, <1>7, JudgingStates DEF Onward, Judging, Tooling, Alone
<1>9. Inside(m, Goto(m, "prefix"), evidence)
  BY <1>7, <1>8, OnwardInside
<1>10. Latched(r, m) /\ r.pc \notin {"idle", "confirm", "answered", "dead"}
  BY <1>1, <1>4, <1>7 DEF Latched, observation_failed
<1> QED
  BY <1>1, <1>4, <1>5, <1>6, <1>9, <1>10, ThroughKeeps

LEMMA AfterToolsKeeps ==
    ASSUME RunsInv, NEW p \in Procs, AfterTools(p)
    PROVE  Carried
<1> DEFINE r == run[p]
<1>1. r.pc = "after_tools" /\ Locally /\ r.pc \in Judging /\ r.pc \in Tooling
  BY DEF AfterTools, At, Judging, Tooling
<1>2. /\ Live(r, evidence) /\ ~scenario.blocked /\ r.machine.state = "TOOL_AND_RESEARCH"
  BY <1>1, JudgingFacts, JudgingStates
<1>3. PICK c \in Reading : Become(p, Enforced(r, c, "critique"))
  BY DEF AfterTools
<1>4. Onward(r, "critique")
  BY <1>2, JudgingStates DEF Onward, Judging, Tooling, Alone
<1>5. Inside(r, Enforced(r, c, "critique"), evidence)
  BY <1>2, <1>4, EnforcedInside
<1> QED
  BY <1>1, <1>3, <1>5, LocalKeeps

\* A run that moved on along the path, doubted or not, to the next place.
LEMMA NextPlace ==
    ASSUME NEW ev, NEW r, Live(r, ev), NEW t \in RunState, t \in ALLOWED_TRANSITIONS[r.machine.state],
           NEW pc \in Judging \ (Alone \cup {"settle"}), StatesAt(pc, FALSE) = {t}, ~scenario.blocked
    PROVE  LET m == Moved(r, t)
           IN  Inside(r, Goto(m, pc), ev) /\ Inside(r, Goto(Warned(m), pc), ev)
<1> DEFINE m == Moved(r, t)
<1>1. Live(m, ev) /\ m.machine.state = t /\ Latched(r, m)
  BY MovedLive
<1> HIDE DEF m
<1>2. Onward(m, pc)
  BY <1>1 DEF Onward
<1>3. Inside(m, Goto(m, pc), ev) /\ Inside(m, Goto(Warned(m), pc), ev)
  BY <1>1, <1>2, OnwardInside, WarnedOnward
<1> QED
  BY <1>1, <1>3, InsideFrom DEF m

LEMMA CritiqueKeeps ==
    ASSUME RunsInv, NEW p \in Procs, Critique(p) \/ Adjudicate(p)
    PROVE  Carried
<1> DEFINE r == run[p]
<1>1. r.pc \in {"critique", "adjudicate"} /\ Locally /\ r.pc \in Judging
  BY DEF Critique, Adjudicate, At, Judging, Tooling
<1>2. Live(r, evidence) /\ ~scenario.blocked /\ r.machine.state \in StatesAt(r.pc, FALSE)
  BY <1>1, JudgingFacts
<1>3. CASE r.pc = "critique"
  <2> DEFINE m == Moved(r, "CRITIQUE")
  <2>1. Become(p, Goto(m, "adjudicate")) \/ Become(p, Goto(Warned(m), "adjudicate"))
    BY <1>3 DEF Critique, Adjudicate, At
  <2>2. r.machine.state = "TOOL_AND_RESEARCH"
    BY <1>2, <1>3, JudgingStates DEF Tooling
  <2>3. "adjudicate" \in Judging \ (Alone \cup {"settle"})
    BY DEF Judging, Alone
  <2>4. Inside(r, Goto(m, "adjudicate"), evidence) /\ Inside(r, Goto(Warned(m), "adjudicate"), evidence)
    BY <1>2, <2>2, <2>3, JudgingStates, TransitionTable, NextPlace DEF RunState
  <2> HIDE DEF m
  <2> QED
    BY <1>1, <2>1, <2>4, LocalKeeps
<1>4. CASE r.pc = "adjudicate"
  <2> DEFINE m == Moved(r, "ADJUDICATION")
  <2>1. Become(p, Goto(m, "decide")) \/ Become(p, Goto(Warned(m), "decide"))
    BY <1>4 DEF Critique, Adjudicate, At
  <2>2. r.machine.state = "CRITIQUE"
    BY <1>2, <1>4, JudgingStates
  <2>3. "decide" \in Judging \ (Alone \cup {"settle"})
    BY DEF Judging, Alone
  <2>4. Inside(r, Goto(m, "decide"), evidence) /\ Inside(r, Goto(Warned(m), "decide"), evidence)
    BY <1>2, <2>2, <2>3, JudgingStates, TransitionTable, NextPlace DEF RunState
  <2> HIDE DEF m
  <2> QED
    BY <1>1, <2>1, <2>4, LocalKeeps
<1> QED
  BY <1>1, <1>3, <1>4

\* Where the run decides, its end is not a failure.
LEMMA DecidedInside ==
    ASSUME NEW ev, NEW r, Live(r, ev), ~scenario.blocked, NEW completed \in BOOLEAN,
           completed => ~r.pending /\ r.machine.state = "FINAL_SYNTHESIS",
           ~completed => r.machine.state = "HUMAN_REVIEW_REQUIRED"
    PROVE  Inside(r, Synthesize(r, completed), ev)
<1> DEFINE s == Synthesize(r, completed)
<1>1. /\ s \in RunRecord /\ Kept(r, s) /\ s.pc = "reserve_time" /\ s.machine = r.machine
      /\ s.warned = r.warned /\ s.results = r.results /\ s.completed = completed /\ s.ledger = r.ledger
  BY LiveFacts, SynthesizeStep
<1> HIDE DEF s
<1>2. Live(s, ev)
  BY <1>1, LiveFacts, LiveCopy
<1>3. /\ "reserve_time" \notin Judging /\ "reserve_time" \notin Alone
      /\ "reserve_time" \notin Reporteds \cup Sealed /\ "reserve_time" \notin Sealed \cup {"artifacts"}
      /\ "reserve_time" \notin Sealed /\ "reserve_time" \notin Vouched
  BY DEF Judging, Alone, Reporting, Reporteds, Sealed, Vouched, Analysing, Tooling
<1>4. StatesAt("reserve_time", completed) =
        IF completed THEN {"FINAL_SYNTHESIS"} ELSE {Failed, "HUMAN_REVIEW_REQUIRED"}
  BY DEF StatesAt, Reporting, Reporteds, Sealed, Vouched, Analysing, Tooling
<1>5. r.machine.state # Failed
  BY DEF Failed
<1>6. Placed(s, ev)
  BY <1>1, <1>3, <1>4, <1>5 DEF Placed, Kept
<1>7. Latched(r, s)
  BY <1>1 DEF Latched
<1> QED
  BY <1>1, <1>2, <1>6, <1>7, PlaceInside DEF s

LEMMA DecideKeeps ==
    ASSUME RunsInv, NEW p \in Procs, Decide(p)
    PROVE  Carried
<1> DEFINE r == run[p]
           h == Moved(r, "HUMAN_REVIEW_REQUIRED")
           f == Moved(r, "FINAL_SYNTHESIS")
<1>1. r.pc = "decide" /\ Locally /\ r.pc \in Judging
  BY DEF Decide, At, Judging
<1>2. /\ Live(r, evidence) /\ ~scenario.blocked /\ r.machine.state = "ADJUDICATION"
  BY <1>1, JudgingFacts, JudgingStates
<1>3. Become(p, Synthesize(h, FALSE)) \/ (~r.pending /\ Become(p, Synthesize(f, TRUE)))
  BY DEF Decide
<1>4. Live(h, evidence) /\ h.machine.state = "HUMAN_REVIEW_REQUIRED" /\ Latched(r, h)
  BY <1>2, TransitionTable, MovedLive DEF RunState
<1>5. Live(f, evidence) /\ f.machine.state = "FINAL_SYNTHESIS" /\ Latched(r, f) /\ f.pending = r.pending
  BY <1>2, TransitionTable, MovedLive DEF RunState, Kept
<1> HIDE DEF h, f
<1>6. Inside(h, Synthesize(h, FALSE), evidence)
  BY <1>2, <1>4, DecidedInside
<1>7. ~r.pending => Inside(f, Synthesize(f, TRUE), evidence)
  BY <1>2, <1>5, DecidedInside
<1> QED
  BY <1>1, <1>3, <1>4, <1>5, <1>6, <1>7, ThroughKeeps

-----------------------------------------------------------------------------
(* Tools.                                                                  *)

\* Of the record only the results and their authority are others.
ResultsOnly(r, s) ==
    /\ s \in RunRecord
    /\ s.pc = r.pc /\ s.machine = r.machine /\ s.ledger = r.ledger /\ s.worker = r.worker
    /\ s.alive = r.alive /\ s.warned = r.warned /\ s.pending = r.pending
    /\ s.completed = r.completed /\ s.answer = r.answer

\* A batch gives each of its tools the outcome of one of its requests, and keeps the rest.
LEMMA BatchStep ==
    ASSUME NEW r \in RunRecord, NEW batch \in Seq(Tool), NEW o \in ToolOutcomes(batch)
    PROVE  LET s == Batch(r, batch, o)
           IN  /\ ResultsOnly(r, s)
               /\ \A t \in DOMAIN s.results :
                     \/ \E i \in DOMAIN batch : batch[i] = t /\ s.results[t] = o[i]
                     \/ t \in DOMAIN r.results /\ s.results[t] = r.results[t]
               /\ Len(batch) = 1 => batch[1] \in DOMAIN s.results /\ s.results[batch[1]] = o[1]
<1> DEFINE tools == {batch[i] : i \in DOMAIN batch}
           at(t) == CHOOSE i \in DOMAIN batch : batch[i] = t
           D == tools \cup DOMAIN r.results
           g == [t \in D |-> IF t \in tools THEN o[at(t)] ELSE r.results[t]]
           a == r.authority \cup (IF RuntimeIsExact
                                  THEN {batch[i] : i \in {j \in DOMAIN o : o[j] = "success"}} ELSE {})
<1>1. DOMAIN batch = 1 .. Len(batch) /\ o \in [1 .. Len(batch) -> ToolStatus] /\ Len(batch) \in Nat
  BY DEF ToolOutcomes
<1>2. \A t \in tools : at(t) \in DOMAIN batch /\ batch[at(t)] = t
  OBVIOUS
<1>3. tools \subseteq Tool
  BY <1>1
<1> HIDE DEF at
<1>4. \A t \in tools : o[at(t)] \in ToolStatus
  BY <1>1, <1>2
<1>5. PICK T \in SUBSET Tool : r.results \in [T -> ToolStatus]
  BY RecordFacts DEF ResultMap
<1>6. /\ DOMAIN g = tools \cup T
      /\ \A t \in tools : g[t] = o[at(t)]
      /\ \A t \in T \ tools : g[t] = r.results[t]
      /\ g \in [tools \cup T -> ToolStatus]
  <2>1. D = tools \cup T /\ \A t \in T : r.results[t] \in ToolStatus
    BY <1>5
  <2> HIDE DEF D, tools
  <2> QED
    BY <1>4, <2>1
<1>7. g \in ResultMap
  BY <1>3, <1>5, <1>6 DEF ResultMap
<1>8. a \in SUBSET Tool
  <2>1. {batch[i] : i \in {j \in DOMAIN o : o[j] = "success"}} \subseteq Tool
    BY <1>1
  <2> QED
    BY <2>1, RecordFacts
<1>9. Batch(r, batch, o) = [r EXCEPT !.results = g, !.authority = a]
  BY DEF Batch, at
<1> DEFINE s == Batch(r, batch, o)
<1>10. ResultsOnly(r, s) /\ s.results = g
  <2> HIDE DEF g, a, s
  <2> QED
    BY <1>7, <1>8, <1>9, ZenonT(60) DEF ResultsOnly, RunRecord, s
<1>11. ASSUME NEW t \in DOMAIN g
       PROVE  \/ \E i \in DOMAIN batch : batch[i] = t /\ g[t] = o[i]
              \/ t \in DOMAIN r.results /\ g[t] = r.results[t]
  <2> HIDE DEF g, tools
  <2>1. t \in tools \/ t \in T \ tools
    BY <1>6, <1>11
  <2>2. CASE t \in tools
    BY <1>2, <1>6, <2>2
  <2>3. CASE t \in T \ tools
    BY <1>5, <1>6, <2>3
  <2> QED
    BY <2>1, <2>2, <2>3
<1>12. Len(batch) = 1 => batch[1] \in DOMAIN g /\ g[batch[1]] = o[1]
  <2> SUFFICES ASSUME Len(batch) = 1 PROVE batch[1] \in DOMAIN g /\ g[batch[1]] = o[1]
    OBVIOUS
  <2>1. DOMAIN batch = {1}
    BY <1>1
  <2>2. batch[1] \in tools
    BY <2>1
  <2>3. at(batch[1]) = 1
    BY <1>2, <2>1, <2>2
  <2> HIDE DEF g, tools
  <2> QED
    BY <1>6, <2>2, <2>3
<1> HIDE DEF g, s
<1> QED
  BY <1>10, <1>11, <1>12 DEF s

\* The record of a run whose batch was executed, for the place to judge.
Spent(e, batch, c, o, d) == Evidenced(Noted(Executed(e, batch, c, o, d).r, o), o)

\* A batch ends before it is judged: the phase failed, or the budget of the run did.
Unjudged(p, e, batch, c, o, d) ==
    \/ Become(p, Raised(e, "PhaseContractError"))
    \/ Executed(e, batch, c, o, d).limit /\ Become(p, Stop(Warned(Executed(e, batch, c, o, d).r)))

ToolPlaces == Tooling \cup {"hand"}
ButTheRun == UNCHANGED <<scenario, namespace, records, current, started>>

\* The tool plan of a bounded river run gives each batch one tool.
Batched(batch, o) ==
    /\ batch \in Seq(Tool) /\ o \in ToolOutcomes(batch)
    /\ River => Len(batch) = 1

LEMMA ExecutedLive ==
    ASSUME NEW ev, NEW e, Live(e, ev), NEW batch, NEW o, Batched(batch, o),
           NEW c \in Reading, NEW d \in EffectReading,
           NEW ev2, ev \subseteq ev2, River /\ budget_failure(o) => batch[1] \in ev2
    PROVE  LET x == Executed(e, batch, c, o, d)
           IN  /\ Live(x.r, ev2) /\ Latched(e, x.r)
               /\ x.r.pc = e.pc /\ x.r.machine = e.machine /\ x.r.worker = e.worker
               /\ x.limit => Live(x.r, ev)
               /\ ~x.limit /\ Len(batch) = 1 /\ ~AllSuccess(o) => Doubted(x.r)
<1> DEFINE w == Seen(e, c)
           s == [w EXCEPT !.ledger = apply_at(@, d)]
           b == Batch(s, batch, o)
           x == Executed(e, batch, c, o, d)
<1>1. LedgerOnly(e, w) /\ Live(w, ev) /\ Latched(e, w)
  BY SeenLive
<1>2. x = IF Over(w) THEN [limit |-> TRUE, r |-> w]
          ELSE IF Over(s) THEN [limit |-> TRUE, r |-> s] ELSE [limit |-> FALSE, r |-> b]
  BY DEF Executed
<1> HIDE DEF w, x
<1>3. LedgerOnly(w, s) /\ Live(s, ev) /\ Latched(w, s)
  BY <1>1, SettledLive
<1> HIDE DEF s
<1>4. s \in RunRecord
  BY <1>3, LiveFacts
<1>5. /\ ResultsOnly(s, b)
      /\ \A t \in DOMAIN b.results :
            \/ \E i \in DOMAIN batch : batch[i] = t /\ b.results[t] = o[i]
            \/ t \in DOMAIN s.results /\ b.results[t] = s.results[t]
      /\ Len(batch) = 1 => batch[1] \in DOMAIN b.results /\ b.results[batch[1]] = o[1]
  BY <1>4, BatchStep DEF Batched
<1> HIDE DEF b
<1>6. ASSUME NEW q, Live(q, ev) PROVE Live(q, ev2)
  BY <1>6 DEF Live
<1>7. DOMAIN o = 1 .. Len(batch) /\ Len(batch) \in Nat /\ DOMAIN batch = 1 .. Len(batch)
  BY DEF Batched, ToolOutcomes
<1>8. Live(b, ev2)
  <2>1. River => \A t \in DOMAIN b.results : b.results[t] = "budget" => t \in ev2
    <3> SUFFICES ASSUME River, NEW t \in DOMAIN b.results, b.results[t] = "budget" PROVE t \in ev2
      OBVIOUS
    <3>1. CASE \E i \in DOMAIN batch : batch[i] = t /\ b.results[t] = o[i]
      <4>1. Len(batch) = 1
        BY DEF Batched
      <4>2. t = batch[1] /\ o[1] = "budget" /\ 1 \in DOMAIN o
        BY <1>7, <3>1, <4>1
      <4> QED
        BY <4>2 DEF budget_failure
    <3>2. CASE t \in DOMAIN s.results /\ b.results[t] = s.results[t]
      BY <1>3, <3>2 DEF Live
    <3> QED
      BY <1>5, <3>1, <3>2
  <2>2. b.alive = 1 <=> b.worker = "running"
    BY <1>3, <1>5 DEF Live, ResultsOnly
  <2> QED
    BY <1>3, <1>5, <2>1, <2>2 DEF Live, ResultsOnly
<1>9. Latched(e, w) /\ Latched(e, s) /\ Latched(e, b)
  BY <1>1, <1>3, <1>5 DEF Latched, observation_failed, ResultsOnly
<1>10. Len(batch) = 1 /\ ~AllSuccess(o) => Doubted(b)
  <2>1. Len(batch) = 1 /\ ~AllSuccess(o) => o[1] # "success"
    BY <1>7 DEF AllSuccess
  <2> QED
    BY <1>5, <2>1 DEF Doubted
<1>11. /\ w.pc = e.pc /\ w.machine = e.machine /\ w.worker = e.worker
       /\ s.pc = e.pc /\ s.machine = e.machine /\ s.worker = e.worker
       /\ b.pc = e.pc /\ b.machine = e.machine /\ b.worker = e.worker
  BY <1>1, <1>3, <1>5 DEF LedgerOnly, ResultsOnly, Kept
<1>12. CASE x = [limit |-> TRUE, r |-> w]
  BY <1>1, <1>6, <1>9, <1>11, <1>12 DEF x
<1>13. CASE x = [limit |-> TRUE, r |-> s]
  BY <1>3, <1>6, <1>9, <1>11, <1>13 DEF x
<1>14. CASE x = [limit |-> FALSE, r |-> b]
  BY <1>8, <1>9, <1>10, <1>11, <1>14 DEF x
<1> QED
  BY <1>2, <1>12, <1>13, <1>14

LEMMA SpentLive ==
    ASSUME NEW ev, NEW e, Live(e, ev), NEW batch, NEW o, Batched(batch, o),
           NEW c \in Reading, NEW d \in EffectReading,
           NEW ev2, ev \subseteq ev2, River /\ budget_failure(o) => batch[1] \in ev2,
           ~Executed(e, batch, c, o, d).limit
    PROVE  LET y == Spent(e, batch, c, o, d)
           IN  /\ Live(y, ev2) /\ Latched(e, y)
               /\ y.pc = e.pc /\ y.machine = e.machine /\ y.worker = e.worker
               /\ ~AllSuccess(o) => Doubted(y)
<1> DEFINE x == Executed(e, batch, c, o, d).r
           n == Noted(x, o)
           y == Spent(e, batch, c, o, d)
<1>1. /\ Live(x, ev2) /\ Latched(e, x)
      /\ x.pc = e.pc /\ x.machine = e.machine /\ x.worker = e.worker
      /\ Len(batch) = 1 /\ ~AllSuccess(o) => Doubted(x)
  BY ExecutedLive
<1>2. y = Evidenced(n, o)
  BY DEF Spent
<1> HIDE DEF x, y
<1>3. /\ Live(n, ev2) /\ Latched(x, n) /\ n.pc = x.pc /\ n.machine = x.machine /\ n.worker = x.worker
      /\ ~AllSuccess(o) => Doubted(n)
  <2>1. CASE AllSuccess(o) \/ River
    BY <1>1, <2>1 DEF Noted, Latched, Batched
  <2>2. CASE ~(AllSuccess(o) \/ River)
    BY <1>1, <2>2, WarnedLive DEF Noted, Kept
  <2> QED
    BY <2>1, <2>2
<1> HIDE DEF n
<1>4. /\ Live(y, ev2) /\ Latched(n, y) /\ y.pc = n.pc /\ y.machine = n.machine /\ y.worker = n.worker
      /\ Doubted(n) => Doubted(y)
  <2> DEFINE q == [n EXCEPT !.buffered.evidence = TRUE]
  <2>1. /\ q \in RunRecord /\ q.pc = n.pc /\ q.machine = n.machine /\ q.worker = n.worker
        /\ q.alive = n.alive /\ q.results = n.results /\ q.answer = n.answer
        /\ q.ledger = n.ledger /\ q.warned = n.warned
    <3> DEFINE v == [n.buffered EXCEPT !.evidence = TRUE]
               B == [state : RunState \cup {None}, report : RunReport, evidence : BOOLEAN]
    <3>1. n \in RunRecord /\ n.buffered \in B
      BY <1>3, LiveFacts DEF RunRecord
    <3>2. v \in B
      BY <3>1
    <3>3. q = [n EXCEPT !.buffered = v]
      BY <3>1 DEF RunRecord
    <3> HIDE DEF v, q
    <3> QED
      BY <3>1, <3>2, <3>3 DEF RunRecord
  <2>2. y = q \/ y = n
    BY <1>2 DEF Evidenced
  <2> HIDE DEF q
  <2> QED
    BY <1>3, <2>1, <2>2 DEF Live, Latched, Doubted
<1>5. Latched(e, y)
  BY <1>1, <1>3, <1>4 DEF Latched, observation_failed
<1> QED
  BY <1>1, <1>3, <1>4, <1>5 DEF y

LEMMA ToolFacts ==
    ASSUME RunsInv, NEW p \in Procs, run[p].pc \in ToolPlaces, NEW b \in Reading
    PROVE  LET r == run[p]
               e == Seen(r, b)
           IN  /\ r.pc \notin {"idle", "confirm", "answered", "dead"}
               /\ Live(e, evidence) /\ Latched(r, e) /\ ~scenario.blocked
               /\ e.machine.state = IF r.pc = "hand" THEN "DATA_VALIDATION" ELSE "TOOL_AND_RESEARCH"
               /\ r.pc = "hand" => e.worker # "running"
<1> DEFINE r == run[p]
           e == Seen(r, b)
<1>1. r.pc \in Judging /\ (r.pc \in Tooling \/ r.pc = "hand")
  BY DEF ToolPlaces, Judging
<1>2. /\ Live(r, evidence) /\ Placed(r, evidence) /\ ~scenario.blocked
      /\ r.machine.state \in StatesAt(r.pc, FALSE)
      /\ r.pc \notin {"idle", "confirm", "answered", "dead"}
  BY <1>1, JudgingFacts
<1>3. LedgerOnly(r, e) /\ Live(e, evidence) /\ Latched(r, e)
  BY <1>2, SeenLive
<1>4. r.pc = "hand" => r.worker # "running"
  BY <1>2 DEF Placed, Alone
<1>5. r.machine.state = IF r.pc = "hand" THEN "DATA_VALIDATION" ELSE "TOOL_AND_RESEARCH"
  BY <1>1, <1>2, JudgingStates, ZenonT(60) DEF Tooling
<1> HIDE DEF e
<1> QED
  BY <1>2, <1>3, <1>4, <1>5 DEF LedgerOnly, Kept, e

\* What a tool place does before it judges: the window refused, or the batch went wrong.
LEMMA BeforeJudgement ==
    ASSUME RunsInv, NEW p \in Procs, run[p].pc \in ToolPlaces, NEW b \in Reading,
           NEW batch, NEW o, Batched(batch, o), NEW c \in Reading, NEW d \in EffectReading,
           ButTheRun, evidence' = evidence,
           \/ Become(p, Synthesize(Projected(Seen(run[p], b)), FALSE))
           \/ Unjudged(p, Seen(run[p], b), batch, c, o, d)
    PROVE  Carried
<1> DEFINE e == Seen(run[p], b)
           x == Executed(e, batch, c, o, d)
<1>1. /\ run[p].pc \notin {"idle", "confirm", "answered", "dead"}
      /\ Live(e, evidence) /\ Latched(run[p], e)
      /\ e.machine.state \in {"DATA_VALIDATION", "TOOL_AND_RESEARCH"}
  BY ToolFacts
<1>2. Locally
  BY DEF Locally, ButTheRun
<1>3. \/ Become(p, Synthesize(Projected(e), FALSE))
      \/ Become(p, Raised(e, "PhaseContractError"))
      \/ x.limit /\ Become(p, Stop(Warned(x.r)))
  BY DEF Unjudged
<1> HIDE DEF e
<1>4. Inside(e, Synthesize(Projected(e), FALSE), evidence)
  BY <1>1, ProjectedInside
<1>5. Inside(e, Raised(e, "PhaseContractError"), evidence)
  BY <1>1, LiveRaised DEF Errors
<1>6. x.limit => Live(x.r, evidence) /\ Latched(e, x.r) /\ x.r.machine = e.machine
  <2> DEFINE more == evidence \cup {batch[1]}
  <2>1. evidence \subseteq more /\ batch[1] \in more
    OBVIOUS
  <2> HIDE DEF more
  <2> QED
    BY <1>1, <2>1, ExecutedLive
<1> HIDE DEF x
<1>7. x.limit => Inside(x.r, Stop(Warned(x.r)), evidence)
  BY <1>1, <1>6, WarnedStopInside DEF TerminalStates, Failed
<1>8. x.limit => Latched(run[p], x.r)
  BY <1>1, <1>6 DEF Latched, observation_failed
<1> QED
  BY <1>1, <1>2, <1>3, <1>4, <1>5, <1>7, <1>8, ThroughKeeps

\* What it does afterwards: the run goes on, or ends, from the record of the batch.
LEMMA AtJudgement ==
    ASSUME RunsInv, NEW p \in Procs, run[p].pc \in ToolPlaces, NEW b \in Reading,
           NEW batch, NEW o, Batched(batch, o), NEW c \in Reading, NEW d \in EffectReading,
           ButTheRun, CommitEvidence(batch, o),
           ~Executed(Seen(run[p], b), batch, c, o, d).limit
    PROVE  LET y == Spent(Seen(run[p], b), batch, c, o, d)
           IN  /\ Live(y, evidence') /\ ~scenario.blocked /\ (~AllSuccess(o) => Doubted(y))
               /\ y.machine.state = IF run[p].pc = "hand" THEN "DATA_VALIDATION" ELSE "TOOL_AND_RESEARCH"
               /\ run[p].pc = "hand" => y.worker # "running"
               /\ \A s : Become(p, s) /\ Inside(y, s, evidence') => Carried
<1> DEFINE e == Seen(run[p], b)
           y == Spent(e, batch, c, o, d)
<1>1. /\ run[p].pc \notin {"idle", "confirm", "answered", "dead"}
      /\ Live(e, evidence) /\ Latched(run[p], e) /\ ~scenario.blocked
      /\ e.machine.state = IF run[p].pc = "hand" THEN "DATA_VALIDATION" ELSE "TOOL_AND_RESEARCH"
      /\ run[p].pc = "hand" => e.worker # "running"
  BY ToolFacts
<1>2. OnlyRuns
  BY DEF OnlyRuns, ButTheRun
<1>3. evidence \subseteq evidence' /\ (River /\ budget_failure(o) => batch[1] \in evidence')
  BY DEF CommitEvidence
<1> HIDE DEF e
<1>4. ~Executed(e, batch, c, o, d).limit
  BY DEF e
<1>5. /\ Live(y, evidence') /\ Latched(e, y) /\ y.machine = e.machine /\ y.worker = e.worker
      /\ ~AllSuccess(o) => Doubted(y)
  BY <1>1, <1>3, <1>4, SpentLive
<1> HIDE DEF y
<1>6. ASSUME NEW s, Become(p, s), Inside(y, s, evidence') PROVE Carried
  <2>1. Latched(run[p], y)
    BY <1>1, <1>5 DEF Latched, observation_failed
  <2>2. Inside(run[p], s, evidence')
    BY <1>6, <2>1, InsideFrom
  <2> QED
    BY <1>1, <1>2, <1>3, <1>6, <2>2, InsideKeeps DEF Carried
<1> QED
  BY <1>1, <1>5, <1>6 DEF y, e

\* What the places make of an executed batch.
LEMMA PrefixInside ==
    ASSUME NEW ev, NEW y, Live(y, ev), y.machine.state = "TOOL_AND_RESEARCH", ~scenario.blocked,
           NEW o, ~AllSuccess(o) => Doubted(y)
    PROVE  /\ \A pc \in Tooling : Inside(y, PrefixJudged(y, o, pc), ev)
           /\ \A pc \in Tooling : Inside(y, MustSucceed(y, o, pc), ev)
           /\ \A batch : Inside(y, RequestedJudged(y, batch, o), ev)
           /\ Inside(y, CallEvJudged(y, o), ev)
           /\ Inside(y, RangeJudged(y, o), ev)
<1>1. y.machine.state \notin TerminalStates
  BY DEF TerminalStates, Failed
<1>2. Inside(y, Stop(Warned(y)), ev)
  BY <1>1, WarnedStopInside
<1>3. ~AllSuccess(o) => Inside(y, Stop(y), ev)
  BY <1>1, StopInside
<1>4. Inside(y, Raised(y, "PhaseContractError"), ev)
  BY LiveRaised DEF Errors
<1>5. ASSUME NEW pc \in Tooling PROVE Inside(y, Goto(y, pc), ev) /\ Inside(y, Goto(Warned(y), pc), ev)
  <2>1. pc \in Judging /\ pc # "settle" /\ pc \notin Alone
    BY DEF Judging, Tooling, Alone
  <2>2. StatesAt(pc, FALSE) = {"TOOL_AND_RESEARCH"}
    BY JudgingStates
  <2>3. Onward(y, pc)
    BY <2>1, <2>2 DEF Onward
  <2> QED
    BY <2>3, OnwardInside, WarnedOnward
<1>6. \A pc \in Tooling : Inside(y, PrefixJudged(y, o, pc), ev)
  BY <1>2, <1>3, <1>5 DEF PrefixJudged
<1>7. \A pc \in Tooling : Inside(y, MustSucceed(y, o, pc), ev)
  BY <1>2, <1>5 DEF MustSucceed
<1>8. "equity" \in Tooling /\ "after_tools" \in Tooling /\ "requested" \in Tooling
  BY DEF Tooling
<1>9. \A batch : Inside(y, RequestedJudged(y, batch, o), ev)
  BY <1>2, <1>4, <1>5, <1>8 DEF RequestedJudged
<1>10. Inside(y, CallEvJudged(y, o), ev)
  BY <1>2, <1>3, <1>5, <1>8 DEF CallEvJudged
<1>11. Inside(y, RangeJudged(y, o), ev)
  BY <1>2, <1>5, <1>8 DEF RangeJudged, RangeNoted
<1> QED
  BY <1>6, <1>7, <1>9, <1>10, <1>11

LEMMA HandInside ==
    ASSUME NEW ev, NEW y, Live(y, ev), y.machine.state = "DATA_VALIDATION", ~scenario.blocked,
           y.worker # "running", NEW o, NEW valid
    PROVE  Inside(y, HandJudged(y, o, valid), ev)
<1>1. Inside(y, Stop(Warned(y)), ev)
  BY WarnedStopInside DEF TerminalStates, Failed
<1>2. Inside(y, Raised(y, "PhaseContractError"), ev) /\ Inside(y, Raised(y, "CANDIDATE_SCHEMA"), ev)
  BY LiveRaised DEF Errors
<1>3. Onward(y, "route")
  BY JudgingStates DEF Onward, Judging
<1>4. Inside(y, Goto(y, "route"), ev) /\ Inside(y, Goto(Warned(y), "route"), ev)
  BY <1>3, OnwardInside, WarnedOnward
<1> QED
  BY <1>1, <1>2, <1>4 DEF HandJudged

LEMMA SingleBatch ==
    ASSUME NEW t \in Tool, NEW o \in ToolOutcomes(<<t>>)
    PROVE  Batched(<<t>>, o)
<1>1. <<t>> \in Seq(Tool) /\ Len(<<t>>) = 1
  OBVIOUS
<1> QED
  BY <1>1 DEF Batched

LEMMA RequestedBatched ==
    ASSUME RunsInv, NEW o \in ToolOutcomes(RequestedBatch)
    PROVE  Batched(RequestedBatch, o)
<1>1. scenario \in Scenarios
  BY DEF RunsInv
<1>2. /\ RequestedBatch \in Seq({"plain", "combos"})
      /\ River => RequestedBatch = <<"combos">>
  BY <1>1, ScenarioAssumption DEF ScenarioAssumption, RequestedBatch, River
<1>3. RequestedBatch \in Seq(Tool)
  <2>1. {"plain", "combos"} \subseteq Tool
    BY DEF Tool
  <2> QED
    BY <1>2, <2>1
<1>4. Len(<<"combos">>) = 1
  OBVIOUS
<1> QED
  BY <1>2, <1>3, <1>4 DEF Batched

LEMMA SkipKeeps ==
    ASSUME RunsInv, NEW p \in Procs, NEW pc \in Tooling, NEW onward \in Tooling,
           At(p, pc), Locally,
           Become(p, Goto(run[p], onward)) \/ Become(p, Goto(Warned(run[p]), onward))
    PROVE  Carried
<1> DEFINE r == run[p]
<1>1. r.pc \in Judging /\ r.pc \in Tooling
  BY DEF At, Judging
<1>2. /\ Live(r, evidence) /\ ~scenario.blocked /\ r.machine.state = "TOOL_AND_RESEARCH"
  BY <1>1, JudgingFacts, JudgingStates
<1>3. onward \in Judging /\ onward # "settle" /\ onward \notin Alone
  BY DEF Judging, Tooling, Alone
<1>4. StatesAt(onward, FALSE) = {"TOOL_AND_RESEARCH"}
  BY JudgingStates
<1>5. Onward(r, onward)
  BY <1>2, <1>3, <1>4 DEF Onward
<1>6. Inside(r, Goto(r, onward), evidence) /\ Inside(r, Goto(Warned(r), onward), evidence)
  BY <1>2, <1>5, OnwardInside, WarnedOnward
<1>7. r.pc \notin {"idle", "confirm", "answered", "dead"}
  BY <1>1 DEF Tooling
<1> QED
  BY <1>6, <1>7, LocalKeeps

\* One batch of a place, from its clock to its judgement, for the record s that it makes.
Executes(p, b, batch, c, o, d, s) ==
    /\ ButTheRun
    /\ \/ /\ evidence' = evidence
          /\ \/ Become(p, Synthesize(Projected(Seen(run[p], b)), FALSE))
             \/ Unjudged(p, Seen(run[p], b), batch, c, o, d)
       \/ /\ ~Executed(Seen(run[p], b), batch, c, o, d).limit
          /\ CommitEvidence(batch, o)
          /\ Become(p, s)

\* A place among the tools keeps the invariant, when its judgement does.
LEMMA ExecutesKeeps ==
    ASSUME RunsInv, NEW p \in Procs, run[p].pc \in ToolPlaces, NEW b \in Reading, NEW c \in Reading,
           NEW batch, NEW o, Batched(batch, o), NEW d \in EffectReading, NEW s,
           Executes(p, b, batch, c, o, d, s),
           LET y == Spent(Seen(run[p], b), batch, c, o, d)
           IN  /\ Live(y, evidence') /\ ~scenario.blocked /\ (~AllSuccess(o) => Doubted(y))
               /\ y.machine.state = (IF run[p].pc = "hand" THEN "DATA_VALIDATION" ELSE "TOOL_AND_RESEARCH")
               /\ run[p].pc = "hand" => y.worker # "running"
               => Inside(y, s, evidence')
    PROVE  Carried
<1>1. CASE /\ evidence' = evidence
           /\ \/ Become(p, Synthesize(Projected(Seen(run[p], b)), FALSE))
              \/ Unjudged(p, Seen(run[p], b), batch, c, o, d)
  BY <1>1, BeforeJudgement DEF Executes
<1>2. CASE /\ ~Executed(Seen(run[p], b), batch, c, o, d).limit
           /\ CommitEvidence(batch, o)
           /\ Become(p, s)
  <2> DEFINE y == Spent(Seen(run[p], b), batch, c, o, d)
  <2>1. /\ Live(y, evidence') /\ ~scenario.blocked /\ (~AllSuccess(o) => Doubted(y))
        /\ y.machine.state = (IF run[p].pc = "hand" THEN "DATA_VALIDATION" ELSE "TOOL_AND_RESEARCH")
        /\ run[p].pc = "hand" => y.worker # "running"
        /\ \A q : Become(p, q) /\ Inside(y, q, evidence') => Carried
    BY <1>2, AtJudgement DEF Executes
  <2> HIDE DEF y
  <2>2. Inside(y, s, evidence')
    BY <2>1 DEF y
  <2> QED
    BY <1>2, <2>1, <2>2
<1> QED
  BY <1>1, <1>2 DEF Executes

\* At a tool place the clock may refuse before any batch is chosen.
LEMMA WindowRefusedKeeps ==
    ASSUME RunsInv, NEW p \in Procs, run[p].pc \in ToolPlaces, NEW b \in Reading, ButTheRun,
           evidence' = evidence, Become(p, Synthesize(Projected(Seen(run[p], b)), FALSE))
    PROVE  Carried
<1> DEFINE e == Seen(run[p], b)
<1>1. /\ run[p].pc \notin {"idle", "confirm", "answered", "dead"}
      /\ Live(e, evidence) /\ Latched(run[p], e)
  BY ToolFacts
<1>2. Locally
  BY DEF Locally, ButTheRun
<1> HIDE DEF e
<1>3. Inside(e, Synthesize(Projected(e), FALSE), evidence)
  BY <1>1, ProjectedInside
<1> QED
  BY <1>1, <1>2, <1>3, ThroughKeeps DEF e

LEMMA HandValidationKeeps ==
    ASSUME RunsInv, NEW p \in Procs, HandValidation(p)
    PROVE  Carried
<1> DEFINE batch == <<"hand_validator">>
           S(b, o, d, v) == HandJudged(Spent(Seen(run[p], b), batch, "same", o, d), o, v)
<1>1. run[p].pc = "hand" /\ ButTheRun
  BY DEF HandValidation, At, ButTheRun
<1>2. \/ \E b \in Reading : /\ Become(p, Synthesize(Projected(Seen(run[p], b)), FALSE))
                            /\ evidence' = evidence
      \/ \E b \in Reading, o \in ToolOutcomes(batch), d \in EffectReading, v \in BOOLEAN :
            Executes(p, b, batch, "same", o, d, S(b, o, d, v))
  BY <1>1, ZenonT(60) DEF HandValidation, Dispatched, Executes, Unjudged, Spent
<1>3. run[p].pc \in ToolPlaces /\ "same" \in Reading /\ "hand_validator" \in Tool
  BY <1>1 DEF ToolPlaces, Reading, Tool
<1> HIDE DEF batch
<1>4. \A o \in ToolOutcomes(batch) : Batched(batch, o)
  BY <1>3, SingleBatch DEF batch
<1>5. CASE \E b \in Reading : /\ Become(p, Synthesize(Projected(Seen(run[p], b)), FALSE))
                              /\ evidence' = evidence
  BY <1>1, <1>3, <1>5, WindowRefusedKeeps
<1>6. ASSUME NEW b \in Reading, NEW o \in ToolOutcomes(batch), NEW d \in EffectReading, NEW v \in BOOLEAN,
             Executes(p, b, batch, "same", o, d, S(b, o, d, v))
      PROVE  Carried
  <2> DEFINE y == Spent(Seen(run[p], b), batch, "same", o, d)
             s == HandJudged(y, o, v)
  <2>1. Live(y, evidence') /\ ~scenario.blocked /\ y.machine.state = "DATA_VALIDATION"
        /\ y.worker # "running" => Inside(y, s, evidence')
    BY HandInside
  <2>2. Executes(p, b, batch, "same", o, d, s) /\ Batched(batch, o)
    BY <1>4, <1>6
  <2> HIDE DEF s
  <2> QED
    BY <1>1, <1>3, <2>1, <2>2, ExecutesKeeps
<1> QED
  BY <1>2, <1>5, <1>6

Judgements(y, batch, o) ==
    {PrefixJudged(y, o, pc) : pc \in Tooling} \cup {MustSucceed(y, o, pc) : pc \in Tooling}
    \cup {RequestedJudged(y, batch, o), CallEvJudged(y, o), RangeJudged(y, o)}

\* A tool place, from its window to its judgement.
AtTools(p, batch) ==
    /\ ButTheRun
    /\ run[p].pc \in Tooling
    /\ \/ \E b \in Reading : /\ Become(p, Synthesize(Projected(Seen(run[p], b)), FALSE))
                             /\ evidence' = evidence
       \/ \E b \in Reading, c \in Reading, o \in ToolOutcomes(batch), d \in EffectReading :
             \E s \in Judgements(Spent(Seen(run[p], b), batch, c, o, d), batch, o) :
                Executes(p, b, batch, c, o, d, s)

LEMMA AtToolsKeeps ==
    ASSUME RunsInv, NEW p \in Procs, NEW batch, \A o \in ToolOutcomes(batch) : Batched(batch, o),
           AtTools(p, batch)
    PROVE  Carried
<1>1. run[p].pc \in ToolPlaces /\ run[p].pc # "hand" /\ ButTheRun
  BY DEF AtTools, ToolPlaces, Tooling
<1>2. CASE \E b \in Reading : /\ Become(p, Synthesize(Projected(Seen(run[p], b)), FALSE))
                              /\ evidence' = evidence
  BY <1>1, <1>2, WindowRefusedKeeps
<1>3. ASSUME NEW b \in Reading, NEW c \in Reading, NEW o \in ToolOutcomes(batch), NEW d \in EffectReading,
             NEW s \in Judgements(Spent(Seen(run[p], b), batch, c, o, d), batch, o),
             Executes(p, b, batch, c, o, d, s)
      PROVE  Carried
  <2> DEFINE y == Spent(Seen(run[p], b), batch, c, o, d)
  <2>1. ASSUME Live(y, evidence'), ~scenario.blocked, ~AllSuccess(o) => Doubted(y),
               y.machine.state = "TOOL_AND_RESEARCH"
        PROVE  Inside(y, s, evidence')
    <3> HIDE DEF y
    <3>1. /\ \A pc \in Tooling : Inside(y, PrefixJudged(y, o, pc), evidence')
          /\ \A pc \in Tooling : Inside(y, MustSucceed(y, o, pc), evidence')
          /\ Inside(y, RequestedJudged(y, batch, o), evidence')
          /\ Inside(y, CallEvJudged(y, o), evidence')
          /\ Inside(y, RangeJudged(y, o), evidence')
      BY <2>1, PrefixInside
    <3>2. s \in Judgements(y, batch, o)
      BY <1>3 DEF y
    <3> QED
      BY <3>1, <3>2 DEF Judgements
  <2>2. Batched(batch, o)
    OBVIOUS
  <2> QED
    BY <1>1, <1>3, <2>1, <2>2, ExecutesKeeps
<1> QED
  BY <1>2, <1>3 DEF AtTools

\* Each tool place is one of these, or skipped.
LEMMA HandPotLedgerActs ==
    ASSUME NEW p \in Procs, HandPotLedger(p)
    PROVE  AtTools(p, <<"hand_pot_ledger">>) \/ Skip(p, "prefix", "range")
<1> DEFINE batch == <<"hand_pot_ledger">>
           S(b, c, o, d) == PrefixJudged(Spent(Seen(run[p], b), batch, c, o, d), o, "pot_odds")
<1> SUFFICES ASSUME ~Skip(p, "prefix", "range") PROVE AtTools(p, batch)
  OBVIOUS
<1>1. run[p].pc = "prefix" /\ ButTheRun
  BY DEF HandPotLedger, ToolsAt, At, ButTheRun
<1>2. \/ \E b \in Reading : /\ Become(p, Synthesize(Projected(Seen(run[p], b)), FALSE))
                            /\ evidence' = evidence
      \/ \E b \in Reading, c \in Reading, o \in ToolOutcomes(batch), d \in EffectReading :
            Executes(p, b, batch, c, o, d, S(b, c, o, d))
  BY <1>1, ZenonT(60) DEF HandPotLedger, ToolsAt, Dispatched, Executes, Unjudged, Spent
<1> HIDE DEF batch
<1>3. run[p].pc \in Tooling
  BY <1>1 DEF Tooling
<1>4. \A y, o : PrefixJudged(y, o, "pot_odds") \in Judgements(y, batch, o)
  BY DEF Judgements, Tooling
<1> QED
  BY <1>1, <1>2, <1>3, <1>4 DEF AtTools, batch

LEMMA PotOddsActs ==
    ASSUME NEW p \in Procs, PotOdds(p)
    PROVE  AtTools(p, <<"pot_odds">>)
<1> DEFINE batch == <<"pot_odds">>
           S(b, c, o, d) == PrefixJudged(Spent(Seen(run[p], b), batch, c, o, d), o, "range")
<1>1. run[p].pc = "pot_odds" /\ ButTheRun
  BY DEF PotOdds, ToolsAt, At, ButTheRun
<1>2. \/ \E b \in Reading : /\ Become(p, Synthesize(Projected(Seen(run[p], b)), FALSE))
                            /\ evidence' = evidence
      \/ \E b \in Reading, c \in Reading, o \in ToolOutcomes(batch), d \in EffectReading :
            Executes(p, b, batch, c, o, d, S(b, c, o, d))
  BY <1>1, ZenonT(60) DEF PotOdds, ToolsAt, Dispatched, Executes, Unjudged, Spent
<1> HIDE DEF batch
<1>3. run[p].pc \in Tooling
  BY <1>1 DEF Tooling
<1>4. \A y, o : PrefixJudged(y, o, "range") \in Judgements(y, batch, o)
  BY DEF Judgements, Tooling
<1> QED
  BY <1>1, <1>2, <1>3, <1>4 DEF AtTools, batch

LEMMA RangeValidationActs ==
    ASSUME NEW p \in Procs, RangeValidation(p)
    PROVE  \/ AtTools(p, <<"range_validate">>)
           \/ At(p, "range") /\ Become(p, Goto(RangeNoted(run[p]), "requested")) /\ Locally
<1> DEFINE batch == <<"range_validate">>
           S(b, c, o, d) == RangeJudged(Spent(Seen(run[p], b), batch, c, o, d), o)
<1> SUFFICES ASSUME scenario.range \in {"valid", "refused"} PROVE AtTools(p, batch)
  BY DEF RangeValidation
<1>1. run[p].pc = "range" /\ ButTheRun
  BY DEF RangeValidation, ToolsAt, At, ButTheRun
<1>2. \/ \E b \in Reading : /\ Become(p, Synthesize(Projected(Seen(run[p], b)), FALSE))
                            /\ evidence' = evidence
      \/ \E b \in Reading, c \in Reading, o \in ToolOutcomes(batch), d \in EffectReading :
            Executes(p, b, batch, c, o, d, S(b, c, o, d))
  BY <1>1, ZenonT(60) DEF RangeValidation, ToolsAt, Dispatched, Executes, Unjudged, Spent
<1> HIDE DEF batch
<1>3. run[p].pc \in Tooling
  BY <1>1 DEF Tooling
<1>4. \A y, o : RangeJudged(y, o) \in Judgements(y, batch, o)
  BY DEF Judgements
<1> QED
  BY <1>1, <1>2, <1>3, <1>4 DEF AtTools, batch

LEMMA RequestedToolsActs ==
    ASSUME NEW p \in Procs, RequestedTools(p)
    PROVE  AtTools(p, RequestedBatch)
<1> DEFINE batch == RequestedBatch
           S(b, c, o, d) == RequestedJudged(Spent(Seen(run[p], b), batch, c, o, d), batch, o)
<1>1. run[p].pc = "requested" /\ ButTheRun
  BY DEF RequestedTools, ToolsAt, At, ButTheRun
<1>2. \/ \E b \in Reading : /\ Become(p, Synthesize(Projected(Seen(run[p], b)), FALSE))
                            /\ evidence' = evidence
      \/ \E b \in Reading, c \in Reading, o \in ToolOutcomes(batch), d \in EffectReading :
            Executes(p, b, batch, c, o, d, S(b, c, o, d))
  BY <1>1, ZenonT(60) DEF RequestedTools, ToolsAt, Dispatched, Executes, Unjudged, Spent
<1> HIDE DEF batch
<1>3. run[p].pc \in Tooling
  BY <1>1 DEF Tooling
<1>4. \A y, o : RequestedJudged(y, batch, o) \in Judgements(y, batch, o)
  BY DEF Judgements, Tooling
<1> QED
  BY <1>1, <1>2, <1>3, <1>4 DEF AtTools, batch

LEMMA RangeEquityActs ==
    ASSUME NEW p \in Procs, RangeEquity(p)
    PROVE  AtTools(p, <<"holdem_equity">>) \/ Skip(p, "equity", "call_ev")
<1> DEFINE batch == <<"holdem_equity">>
           S(b, c, o, d) == MustSucceed(Spent(Seen(run[p], b), batch, c, o, d), o, "call_ev")
<1> SUFFICES ASSUME ~Skip(p, "equity", "call_ev") PROVE AtTools(p, batch)
  OBVIOUS
<1>1. run[p].pc = "equity" /\ ButTheRun
  BY DEF RangeEquity, ToolsAt, At, ButTheRun
<1>2. \/ \E b \in Reading : /\ Become(p, Synthesize(Projected(Seen(run[p], b)), FALSE))
                            /\ evidence' = evidence
      \/ \E b \in Reading, c \in Reading, o \in ToolOutcomes(batch), d \in EffectReading :
            Executes(p, b, batch, c, o, d, S(b, c, o, d))
  BY <1>1, ZenonT(60) DEF RangeEquity, ToolsAt, Dispatched, Executes, Unjudged, Spent
<1> HIDE DEF batch
<1>3. run[p].pc \in Tooling
  BY <1>1 DEF Tooling
<1>4. \A y, o : MustSucceed(y, o, "call_ev") \in Judgements(y, batch, o)
  BY DEF Judgements, Tooling
<1> QED
  BY <1>1, <1>2, <1>3, <1>4 DEF AtTools, batch

LEMMA CallEvActs ==
    ASSUME NEW p \in Procs, CallEv(p)
    PROVE  AtTools(p, <<"raked_call_ev">>) \/ Skip(p, "call_ev", "after_tools")
<1> DEFINE batch == <<"raked_call_ev">>
           S(b, c, o, d) == CallEvJudged(Spent(Seen(run[p], b), batch, c, o, d), o)
<1> SUFFICES ASSUME ~Skip(p, "call_ev", "after_tools") PROVE AtTools(p, batch)
  OBVIOUS
<1>1. run[p].pc = "call_ev" /\ ButTheRun
  BY DEF CallEv, ToolsAt, At, ButTheRun
<1>2. \/ \E b \in Reading : /\ Become(p, Synthesize(Projected(Seen(run[p], b)), FALSE))
                            /\ evidence' = evidence
      \/ \E b \in Reading, c \in Reading, o \in ToolOutcomes(batch), d \in EffectReading :
            Executes(p, b, batch, c, o, d, S(b, c, o, d))
  BY <1>1, ZenonT(60) DEF CallEv, ToolsAt, Dispatched, Executes, Unjudged, Spent
<1> HIDE DEF batch
<1>3. run[p].pc \in Tooling
  BY <1>1 DEF Tooling
<1>4. \A y, o : CallEvJudged(y, o) \in Judgements(y, batch, o)
  BY DEF Judgements, Tooling
<1> QED
  BY <1>1, <1>2, <1>3, <1>4 DEF AtTools, batch

-----------------------------------------------------------------------------
(* Synthesis.                                                              *)

\* The run ends in the state final when it completes, and otherwise for a human or failed,
\* and then something was found wanting.
Ends(r, final) ==
    /\ r.machine.state \in IF r.completed THEN {final} ELSE {Failed, "HUMAN_REVIEW_REQUIRED"}
    /\ r.completed => ~r.pending /\ ~scenario.blocked
    /\ r.machine.state = Failed => Doubted(r)

\* The report says what the machine and the results say.
Agrees(r) ==
    /\ r.report.status = run_status(r.machine.state)
    /\ r.report.results = r.results
    /\ EarnedBy(r.report)

LEMMA EndPlaces ==
    ASSUME NEW ev, NEW r
    PROVE  /\ r.pc \in Reporting => (Placed(r, ev) <=> Ends(r, "FINAL_SYNTHESIS"))
           /\ r.pc = "complete" => (Placed(r, ev) <=> Ends(r, "FINAL_SYNTHESIS") /\ Agrees(r))
           /\ r.pc = "artifacts" => (Placed(r, ev) <=> /\ Ends(r, "COMPLETED") /\ Agrees(r)
                                                       /\ r.buffered.state = r.machine.state)
           /\ r.pc \in {"provenance", "replay"} =>
                 (Placed(r, ev) <=> /\ Ends(r, "COMPLETED") /\ Agrees(r)
                                    /\ r.buffered.state = r.machine.state
                                    /\ r.buffered.report = r.report)
           /\ r.pc \in Vouched =>
                 (Placed(r, ev) <=> /\ Ends(r, "COMPLETED") /\ Agrees(r)
                                    /\ r.buffered.state = r.machine.state
                                    /\ r.buffered.report = r.report
                                    /\ VouchedFor(r, ev))
<1>1. ASSUME r.pc \in Reporting \cup Reporteds \cup Sealed
      PROVE  /\ r.pc \notin Judging /\ r.pc \notin Alone /\ r.pc # "settle"
             /\ StatesAt(r.pc, r.completed) =
                  IF r.completed
                  THEN IF r.pc \in Reporting \cup {"complete"} THEN {"FINAL_SYNTHESIS"} ELSE {"COMPLETED"}
                  ELSE {Failed, "HUMAN_REVIEW_REQUIRED"}
  <2>1. r.pc \notin Judging /\ r.pc \notin Alone /\ r.pc # "settle"
    BY <1>1 DEF Judging, Alone, Reporting, Reporteds, Sealed, Vouched, Analysing, Tooling
  <2>2. r.pc \in Reporting \cup {"complete"} \/ r.pc \in Sealed \cup {"artifacts"}
    BY <1>1 DEF Reporteds
  <2>3. r.pc \in Sealed \cup {"artifacts"} => r.pc \notin Reporting \cup {"complete"}
    BY DEF Reporting, Sealed, Vouched
  <2> QED
    BY <1>1, <2>1, <2>2, <2>3 DEF StatesAt, Reporting, Reporteds, Sealed, Vouched, Analysing, Tooling
<1>2. CASE r.pc \in Reporting
  <2>1. r.pc \notin Reporteds \cup Sealed /\ r.pc \notin Sealed \cup {"artifacts"} /\ r.pc \notin Sealed
        /\ r.pc \notin Vouched /\ r.pc \notin {"complete", "artifacts", "provenance", "replay"}
    BY <1>2 DEF Reporting, Reporteds, Sealed, Vouched
  <2> QED
    BY <1>1, <1>2, <2>1 DEF Placed, Ends
<1>3. CASE r.pc = "complete"
  <2>1. /\ r.pc \in Reporteds \cup Sealed /\ r.pc \notin Sealed \cup {"artifacts"} /\ r.pc \notin Sealed
        /\ r.pc \notin Vouched /\ r.pc \notin Reporting
    BY <1>3 DEF Reporting, Reporteds, Sealed, Vouched
  <2> QED
    BY <1>1, <1>3, <2>1 DEF Placed, Ends, Agrees
<1>4. CASE r.pc = "artifacts"
  <2>1. /\ r.pc \in Reporteds \cup Sealed /\ r.pc \notin Sealed
        /\ r.pc \notin Vouched /\ r.pc \notin Reporting
    BY <1>4 DEF Reporting, Reporteds, Sealed, Vouched
  <2> QED
    BY <1>1, <1>4, <2>1 DEF Placed, Ends, Agrees
<1>5. CASE r.pc \in {"provenance", "replay"}
  <2>1. /\ r.pc \in Sealed /\ r.pc \notin Vouched /\ r.pc \notin Reporting \cup {"complete"}
        /\ r.pc # "artifacts"
    BY <1>5 DEF Reporting, Reporteds, Sealed, Vouched
  <2> QED
    BY <1>1, <1>5, <2>1 DEF Placed, Ends, Agrees
<1>6. CASE r.pc \in Vouched
  <2>1. /\ r.pc \in Sealed /\ r.pc \notin Reporting \cup {"complete"}
        /\ r.pc \notin {"complete", "artifacts", "provenance", "replay"}
    BY <1>6 DEF Reporting, Reporteds, Sealed, Vouched
  <2> QED
    BY <1>1, <1>6, <2>1 DEF Placed, Ends, Agrees
<1> QED
  BY <1>2, <1>3, <1>4, <1>5, <1>6

\* The report of a run.
LEMMA ReportedStep ==
    ASSUME NEW ev, NEW r, Live(r, ev), scenario.verified \in BOOLEAN,
           r.machine.state = Failed => Doubted(r)
    PROVE  LET s == Reported(r)
           IN  /\ Live(s, ev) /\ Latched(r, s) /\ Agrees(s)
               /\ s.pc = r.pc /\ s.machine = r.machine /\ s.ledger = r.ledger /\ s.worker = r.worker
               /\ s.completed = r.completed /\ s.pending = r.pending
               /\ s.buffered = r.buffered /\ s.authority = r.authority
               /\ Doubted(s) <=> Doubted(r)
<1> DEFINE m == r.machine
           doubt == Unverified(r)
           grade == Confidence(m.state, r.results, scenario.verified, r.warned, doubt, r.disputed)
           report == [status |-> run_status(m.state), results |-> r.results, grade |-> grade]
           s == Reported(r)
<1>1. r \in RunRecord /\ r.results \in ResultMap /\ r.warned \in BOOLEAN
  BY LiveFacts, RecordFacts
<1>2. s = [r EXCEPT !.report = report]
  BY DEF Reported, Report
<1>3. /\ grade \in {"A", "B", "C", "D"}
      /\ grade = "A" => /\ m.state # "HUMAN_REVIEW_REQUIRED"
                        /\ \A t \in DOMAIN r.results : r.results[t] = "success"
                        /\ ~r.warned /\ ~doubt /\ scenario.verified
  <2> HIDE DEF doubt
  <2> QED
    BY DEF Confidence
<1>4. run_status(m.state) \in {"completed", "approval_required", "failed"}
  BY DEF run_status
<1>5. report \in RunReport /\ report.status = run_status(m.state) /\ report.results = r.results
      /\ report.grade = grade
  <2> HIDE DEF grade
  <2> QED
    BY <1>1, <1>3, <1>4 DEF RunReport
<1>6. EarnedBy(report)
  <2> SUFFICES ASSUME grade = "A"
               PROVE  /\ run_status(m.state) = "completed" /\ scenario.verified
                      /\ \A t \in DOMAIN r.results : r.results[t] = "success"
                      /\ scenario.claim # "unchecked"
    BY <1>5 DEF EarnedBy
  <2>1. m.state # Failed
    BY <1>3 DEF Doubted
  <2>2. run_status(m.state) = "completed"
    BY <1>3, <2>1 DEF run_status
  <2>3. scenario.claim # "unchecked"
    BY <1>3 DEF Unverified, Adjudicated, None
  <2> QED
    BY <1>3, <2>2, <2>3
<1> HIDE DEF report
<1>7. /\ s \in RunRecord /\ s.report = report
      /\ s.pc = r.pc /\ s.machine = r.machine /\ s.ledger = r.ledger /\ s.worker = r.worker
      /\ s.completed = r.completed /\ s.pending = r.pending /\ s.alive = r.alive
      /\ s.buffered = r.buffered /\ s.authority = r.authority /\ s.answer = r.answer
      /\ s.results = r.results /\ s.warned = r.warned
  BY <1>1, <1>2, <1>5 DEF RunRecord
<1> HIDE DEF s
<1>8. Live(s, ev)
  BY <1>7 DEF Live
<1> QED
  BY <1>5, <1>6, <1>7, <1>8 DEF Latched, Agrees, Doubted, s

\* A run between the judgement and the store.
Closing == Reporting \cup Reporteds \cup {"provenance", "replay", "guard", "freeze", "store"}

LEMMA ClosingFacts ==
    ASSUME RunsInv, NEW p \in Procs, run[p].pc \in Closing
    PROVE  /\ run[p].pc \notin {"idle", "confirm", "answered", "dead"}
           /\ Live(run[p], evidence) /\ Placed(run[p], evidence)
           /\ run[p].machine.state = Failed => Doubted(run[p])
           /\ scenario.verified \in BOOLEAN
<1>1. run[p].pc \notin {"idle", "confirm", "answered", "dead"}
  BY DEF Closing, Reporting, Reporteds
<1>2. run[p].pc \in Reporting \cup Reporteds \cup Sealed
  BY DEF Closing, Sealed, Vouched
<1>3. Live(run[p], evidence) /\ Placed(run[p], evidence)
  BY <1>1, Working
<1> QED
  BY <1>1, <1>2, <1>3, CaseFacts DEF Placed

\* Another ledger changes nothing of what holds at a place.
LEMMA LedgerPlaced ==
    ASSUME NEW ev, NEW r, NEW s, LedgerOnly(r, s), Placed(r, ev)
    PROVE  Placed(s, ev)
<1>1. Doubted(r) => Doubted(s)
  BY DEF Doubted, LedgerOnly
<1>2. VouchedFor(r, ev) => VouchedFor(s, ev)
  BY DEF VouchedFor, LedgerOnly, Kept
<1> QED
  BY <1>1, <1>2 DEF Placed, LedgerOnly, Kept

\* From one closing place to another.
LEMMA GotoLive ==
    ASSUME NEW ev, NEW r, Live(r, ev), NEW pc \in Closing \cup {"confirm"}
    PROVE  LET s == Goto(r, pc)
           IN  /\ Live(s, ev) /\ Latched(r, s) /\ s.pc = pc /\ s.machine = r.machine
               /\ s.completed = r.completed /\ s.pending = r.pending /\ s.results = r.results
               /\ s.warned = r.warned /\ s.report = r.report /\ s.buffered = r.buffered
               /\ s.authority = r.authority /\ s.ledger = r.ledger
               /\ s.worker = r.worker /\ s.alive = r.alive /\ s.answer = r.answer /\ s \in RunRecord
<1> DEFINE s == Goto(r, pc)
<1>1. pc \in Pc
  BY DEF Closing, Pc, Sealed, Vouched
<1>2. /\ s \in RunRecord /\ Kept(r, s)
      /\ s.pc = pc /\ s.machine = r.machine /\ s.ledger = r.ledger /\ s.warned = r.warned
      /\ s.results = r.results /\ s.completed = r.completed
  BY <1>1, LiveFacts, GotoStep
<1> HIDE DEF s
<1>3. Live(s, ev)
  BY <1>2, LiveFacts, LiveCopy
<1> QED
  BY <1>2, <1>3 DEF Latched, Kept, s

LEMMA ReserveTimeKeeps ==
    ASSUME RunsInv, NEW p \in Procs, ReserveTime(p)
    PROVE  Carried
<1> DEFINE r == run[p]
           M(o) == IF Over(o) THEN Projected(o) ELSE Warned(Moved(o, Failed))
           F(o) == [Goto(M(o), "synthesize") EXCEPT !.completed = FALSE]
<1>1. r.pc = "reserve_time" /\ Locally /\ r.pc \in Reporting /\ r.pc \in Closing
  BY DEF ReserveTime, At, Reporting, Closing
<1>2. /\ Live(r, evidence) /\ Ends(r, "FINAL_SYNTHESIS") /\ r \in RunRecord
      /\ r.pc \notin {"idle", "confirm", "answered", "dead"}
  BY <1>1, ClosingFacts, EndPlaces, LiveFacts
<1>3. \/ Become(p, Goto(r, "synthesize"))
      \/ r.completed /\ \E c \in Reading : \/ Become(p, F(Seen(r, c)))
                                           \/ Become(p, Goto(Seen(r, c), "synthesize"))
  BY DEF ReserveTime
<1>4. ASSUME NEW q, Live(q, evidence), Ends(q, "FINAL_SYNTHESIS")
      PROVE  Inside(q, Goto(q, "synthesize"), evidence)
  <2> DEFINE s == Goto(q, "synthesize")
  <2>1. "synthesize" \in Closing /\ "synthesize" \in Reporting
    BY DEF Closing, Reporting
  <2>2. /\ Live(s, evidence) /\ Latched(q, s) /\ s.pc = "synthesize" /\ s.machine = q.machine
        /\ s.completed = q.completed /\ s.pending = q.pending /\ s.results = q.results
        /\ s.warned = q.warned
    BY <1>4, <2>1, GotoLive
  <2> HIDE DEF s
  <2>3. Ends(s, "FINAL_SYNTHESIS")
    BY <1>4, <2>2 DEF Ends, Doubted
  <2>4. Placed(s, evidence)
    BY <2>1, <2>2, <2>3, EndPlaces
  <2> QED
    BY <2>2, <2>4, PlaceInside DEF s
<1>5. ASSUME NEW c \in Reading, r.completed
      PROVE  LET o == Seen(r, c)
             IN  Inside(r, F(o), evidence) /\ Inside(r, Goto(o, "synthesize"), evidence)
  <2> DEFINE o == Seen(r, c)
             m == M(o)
             g == Goto(m, "synthesize")
             s == F(o)
  <2>1. LedgerOnly(r, o) /\ Live(o, evidence) /\ Latched(r, o)
    BY <1>2, SeenLive
  <2> HIDE DEF o
  <2>2. Ends(o, "FINAL_SYNTHESIS")
    BY <1>2, <2>1 DEF Ends, LedgerOnly, Kept, Doubted
  <2>3. Inside(o, Goto(o, "synthesize"), evidence)
    BY <1>4, <2>1, <2>2
  <2>4. o.machine.state = "FINAL_SYNTHESIS"
    BY <1>5, <2>1, <2>2 DEF Ends, LedgerOnly
  <2>5. Live(m, evidence) /\ Latched(o, m) /\ m.machine.state = Failed /\ Doubted(m)
    <3>1. CASE Over(o)
      BY <2>1, <3>1, ProjectedInside
    <3>2. CASE ~Over(o)
      <4> DEFINE v == Moved(o, Failed)
      <4>1. Failed \in RunState /\ Failed \in ALLOWED_TRANSITIONS[o.machine.state]
        BY <2>4, TransitionTable DEF RunState, Failed, TerminalStates
      <4>2. Live(v, evidence) /\ v.machine.state = Failed /\ Latched(o, v)
        BY <2>1, <4>1, MovedLive
      <4> HIDE DEF v
      <4>3. Live(Warned(v), evidence) /\ Latched(v, Warned(v)) /\ Doubted(Warned(v))
            /\ Warned(v).machine = v.machine
        BY <4>2, WarnedLive
      <4>4. m = Warned(v)
        BY <3>2 DEF v
      <4> HIDE DEF m
      <4> QED
        BY <4>2, <4>3, <4>4 DEF Latched, observation_failed
    <3> QED
      BY <3>1, <3>2
  <2> HIDE DEF m
  <2>6. /\ Live(g, evidence) /\ Latched(m, g) /\ g.pc = "synthesize" /\ g.machine = m.machine
        /\ g.results = m.results /\ g.warned = m.warned
    BY <2>5, GotoLive DEF Closing, Reporting
  <2> HIDE DEF g
  <2>7. g \in RunRecord
    BY <2>6, LiveFacts
  <2>8. s = [g EXCEPT !.completed = FALSE]
    BY DEF g, m
  <2> HIDE DEF s
  <2>9. /\ s \in RunRecord /\ s.pc = g.pc /\ s.machine = g.machine /\ s.ledger = g.ledger
        /\ s.results = g.results /\ s.warned = g.warned /\ s.completed = FALSE
        /\ s.worker = g.worker /\ s.alive = g.alive /\ s.answer = g.answer
    BY <2>7, <2>8 DEF RunRecord
  <2>10. Live(s, evidence) /\ Ends(s, "FINAL_SYNTHESIS")
    BY <2>5, <2>6, <2>9 DEF Live, Ends, Doubted
  <2>11. Placed(s, evidence)
    BY <2>6, <2>9, <2>10, EndPlaces DEF Reporting
  <2>12. Latched(r, s)
    BY <2>1, <2>5, <2>6, <2>9 DEF Latched, observation_failed
  <2>13. Inside(r, s, evidence)
    BY <2>6, <2>9, <2>10, <2>11, <2>12, PlaceInside
  <2>14. Inside(r, Goto(o, "synthesize"), evidence)
    BY <2>1, <2>3, InsideFrom
  <2> QED
    BY <2>13, <2>14 DEF s, o
<1>6. Inside(r, Goto(r, "synthesize"), evidence)
  BY <1>2, <1>4
<1> HIDE DEF r, F
<1> QED
  BY <1>1, <1>2, <1>3, <1>5, <1>6, LocalKeeps DEF r

\* A failed run, its report made, at one of the two places that make it again.
LEMMA RemadeInside ==
    ASSUME NEW ev, NEW r, Live(r, ev), scenario.verified \in BOOLEAN
    PROVE  LET f == Reported(Projected(r))
               s == [Goto(f, "complete") EXCEPT !.completed = FALSE]
               a == [Goto(f, "provenance") EXCEPT !.completed = FALSE,
                        !.buffered.state = f.machine.state, !.buffered.report = f.report]
           IN  Inside(r, s, ev) /\ Inside(r, a, ev)
<1> DEFINE q == Projected(r)
           f == Reported(q)
           g == Goto(f, "complete")
           h == Goto(f, "provenance")
           s == [g EXCEPT !.completed = FALSE]
           a == [h EXCEPT !.completed = FALSE,
                    !.buffered.state = f.machine.state, !.buffered.report = f.report]
<1>1. Live(q, ev) /\ q.machine.state = Failed /\ Doubted(q) /\ Latched(r, q)
  BY ProjectedInside
<1> HIDE DEF q
<1>2. /\ Live(f, ev) /\ Latched(q, f) /\ Agrees(f) /\ f.machine = q.machine /\ Doubted(f)
  BY <1>1, ReportedStep
<1> HIDE DEF f
<1>3. /\ Live(g, ev) /\ Latched(f, g) /\ g.pc = "complete" /\ g.machine = f.machine
      /\ g.results = f.results /\ g.warned = f.warned /\ g.report = f.report /\ g \in RunRecord
  BY <1>2, GotoLive DEF Closing, Reporteds
<1>4. /\ Live(h, ev) /\ Latched(f, h) /\ h.pc = "provenance" /\ h.machine = f.machine
      /\ h.results = f.results /\ h.warned = f.warned /\ h.report = f.report /\ h \in RunRecord
  BY <1>2, GotoLive DEF Closing
<1> HIDE DEF g, h
<1>5. Inside(r, s, ev)
  <2>1. /\ s \in RunRecord /\ s.pc = "complete" /\ s.machine = f.machine /\ s.ledger = g.ledger
        /\ s.results = f.results /\ s.warned = f.warned /\ s.completed = FALSE
        /\ s.worker = g.worker /\ s.alive = g.alive /\ s.answer = g.answer /\ s.report = f.report
    BY <1>3 DEF RunRecord
  <2> HIDE DEF s
  <2>2. Live(s, ev) /\ Ends(s, "FINAL_SYNTHESIS") /\ Agrees(s)
    BY <1>1, <1>2, <1>3, <2>1 DEF Live, Ends, Doubted, Agrees
  <2>3. Placed(s, ev)
    BY <2>1, <2>2, EndPlaces
  <2>4. Latched(r, s)
    BY <1>1, <1>2, <1>3, <2>1 DEF Latched, observation_failed
  <2> QED
    BY <2>1, <2>2, <2>3, <2>4, PlaceInside
<1>6. Inside(r, a, ev)
  <2> DEFINE B == [state : RunState \cup {None}, report : RunReport, evidence : BOOLEAN]
             v == [h.buffered EXCEPT !.state = f.machine.state, !.report = f.report]
  <2>1. h.buffered \in B
    BY <1>4 DEF RunRecord
  <2>2. f.machine.state \in RunState /\ f.report \in RunReport
    BY <1>2, LiveFacts, RecordFacts
  <2>3. v \in B /\ v.state = f.machine.state /\ v.report = f.report
    BY <2>1, <2>2
  <2>4. a = [h EXCEPT !.completed = FALSE, !.buffered = v]
    BY <1>4 DEF RunRecord
  <2> HIDE DEF a, v
  <2>5. /\ a \in RunRecord /\ a.pc = "provenance" /\ a.machine = f.machine /\ a.ledger = h.ledger
        /\ a.results = f.results /\ a.warned = f.warned /\ a.completed = FALSE
        /\ a.worker = h.worker /\ a.alive = h.alive /\ a.answer = h.answer /\ a.report = f.report
        /\ a.buffered.state = f.machine.state /\ a.buffered.report = f.report
    BY <1>4, <2>3, <2>4 DEF RunRecord
  <2>6. Live(a, ev) /\ Ends(a, "COMPLETED") /\ Agrees(a)
    BY <1>1, <1>2, <1>4, <2>5 DEF Live, Ends, Doubted, Agrees
  <2>7. Placed(a, ev)
    BY <2>5, <2>6, EndPlaces
  <2>8. Latched(r, a)
    BY <1>1, <1>2, <1>4, <2>5 DEF Latched, observation_failed
  <2> QED
    BY <2>5, <2>6, <2>7, <2>8, PlaceInside
<1> QED
  BY <1>5, <1>6 DEF f, g, h, q

LEMMA SynthesisStepKeeps ==
    ASSUME RunsInv, NEW p \in Procs, SynthesisStep(p)
    PROVE  Carried
<1> DEFINE r == run[p]
           q == Reported(r)
<1>1. r.pc = "synthesize" /\ Locally /\ r.pc \in Reporting /\ r.pc \in Closing
  BY DEF SynthesisStep, At, Reporting, Closing
<1>2. /\ Live(r, evidence) /\ Ends(r, "FINAL_SYNTHESIS") /\ scenario.verified \in BOOLEAN
      /\ r.machine.state = Failed => Doubted(r)
      /\ r.pc \notin {"idle", "confirm", "answered", "dead"}
  BY <1>1, ClosingFacts, EndPlaces
<1>3. PICK c \in Reading :
         LET o == Seen(q, c)
         IN  \/ Become(p, [Goto(Reported(Projected(o)), "complete") EXCEPT !.completed = FALSE])
             \/ Become(p, Goto(o, "complete"))
  BY DEF SynthesisStep
<1> DEFINE o == Seen(q, c)
           s == Goto(o, "complete")
<1>4. /\ Live(q, evidence) /\ Latched(r, q) /\ Agrees(q)
      /\ q.machine = r.machine /\ q.completed = r.completed /\ q.pending = r.pending
      /\ Doubted(q) <=> Doubted(r)
  BY <1>2, ReportedStep
<1>5. \/ Become(p, [Goto(Reported(Projected(o)), "complete") EXCEPT !.completed = FALSE])
      \/ Become(p, s)
  BY <1>3
<1> HIDE DEF q
<1>6. LedgerOnly(q, o) /\ Live(o, evidence) /\ Latched(q, o)
  BY <1>4, SeenLive
<1> HIDE DEF o
<1>7. Inside(o, [Goto(Reported(Projected(o)), "complete") EXCEPT !.completed = FALSE], evidence)
  BY <1>2, <1>6, RemadeInside
<1>8. Inside(o, s, evidence)
  <2>1. /\ Live(s, evidence) /\ Latched(o, s) /\ s.pc = "complete" /\ s.machine = o.machine
        /\ s.completed = o.completed /\ s.pending = o.pending /\ s.results = o.results
        /\ s.warned = o.warned /\ s.report = o.report
    BY <1>6, GotoLive DEF Closing, Reporteds
  <2> HIDE DEF s
  <2>2. Ends(s, "FINAL_SYNTHESIS") /\ Agrees(s)
    BY <1>2, <1>4, <1>6, <2>1 DEF Ends, Agrees, Doubted, LedgerOnly, Kept
  <2>3. Placed(s, evidence)
    BY <2>1, <2>2, EndPlaces
  <2> QED
    BY <2>1, <2>3, PlaceInside
<1>9. Latched(r, o)
  BY <1>4, <1>6 DEF Latched, observation_failed
<1> QED
  BY <1>1, <1>2, <1>5, <1>7, <1>8, <1>9, ThroughKeeps

LEMMA CompleteKeeps ==
    ASSUME RunsInv, NEW p \in Procs, Complete(p)
    PROVE  Carried
<1> DEFINE r == run[p]
           q == IF r.completed /\ ~terminal(r.machine) THEN Moved(r, "COMPLETED") ELSE r
<1>1. r.pc = "complete" /\ Locally /\ r.pc \in Closing
  BY DEF Complete, At, Reporteds, Closing
<1>2. /\ Live(r, evidence) /\ Ends(r, "FINAL_SYNTHESIS") /\ Agrees(r) /\ scenario.verified \in BOOLEAN
      /\ r.pc \notin {"idle", "confirm", "answered", "dead"}
  BY <1>1, ClosingFacts, EndPlaces
<1>3. PICK c \in Reading :
         Become(p, [Goto(Seen(q, c), "artifacts") EXCEPT !.buffered.state = q.machine.state])
  BY DEF Complete
<1> DEFINE o == Seen(q, c)
           g == Goto(o, "artifacts")
           s == [g EXCEPT !.buffered.state = q.machine.state]
<1>4. Live(q, evidence) /\ Latched(r, q) /\ Ends(q, "COMPLETED") /\ Agrees(q)
  <2>1. CASE r.completed
    <3>1. r.machine.state = "FINAL_SYNTHESIS"
      BY <1>2, <2>1 DEF Ends
    <3> DEFINE m == Moved(r, "COMPLETED")
    <3>2. q = m
      BY <2>1, <3>1 DEF terminal, TerminalStates, Failed
    <3>3. /\ Live(m, evidence) /\ m.machine.state = "COMPLETED" /\ Latched(r, m)
          /\ Kept(r, m) /\ m.results = r.results /\ m.completed = r.completed /\ m.warned = r.warned
      BY <1>2, <3>1, TransitionTable, MovedLive DEF RunState
    <3> HIDE DEF m, q
    <3>4. run_status("COMPLETED") = run_status("FINAL_SYNTHESIS")
      BY DEF run_status, Failed
    <3>5. m.machine.state # Failed
      BY <3>3 DEF Failed
    <3> QED
      BY <1>2, <2>1, <3>1, <3>2, <3>3, <3>4, <3>5 DEF Ends, Agrees, Kept
  <2>2. CASE ~r.completed
    BY <1>2, <2>2 DEF Latched, Ends
  <2> QED
    BY <2>1, <2>2
<1>5. Become(p, s)
  BY <1>3
<1> HIDE DEF q
<1>6. LedgerOnly(q, o) /\ Live(o, evidence) /\ Latched(q, o)
  BY <1>4, SeenLive
<1> HIDE DEF o
<1>7. Inside(o, s, evidence)
  <2>1. /\ Live(g, evidence) /\ Latched(o, g) /\ g.pc = "artifacts" /\ g.machine = o.machine
        /\ g.completed = o.completed /\ g.pending = o.pending /\ g.results = o.results
        /\ g.warned = o.warned /\ g.report = o.report /\ g \in RunRecord
    BY <1>6, GotoLive DEF Closing, Reporteds
  <2> HIDE DEF g
  <2> DEFINE B == [state : RunState \cup {None}, report : RunReport, evidence : BOOLEAN]
             v == [g.buffered EXCEPT !.state = q.machine.state]
  <2>2. g.buffered \in B /\ q.machine.state \in RunState
    BY <1>4, <2>1, LiveFacts DEF RunRecord
  <2>3. v \in B /\ v.state = q.machine.state
    BY <2>2
  <2>4. s = [g EXCEPT !.buffered = v]
    BY <2>1 DEF RunRecord
  <2> HIDE DEF s, v
  <2>5. /\ s \in RunRecord /\ s.pc = "artifacts" /\ s.machine = g.machine /\ s.ledger = g.ledger
        /\ s.results = g.results /\ s.warned = g.warned /\ s.completed = g.completed
        /\ s.worker = g.worker /\ s.alive = g.alive /\ s.answer = g.answer /\ s.report = g.report
        /\ s.pending = g.pending /\ s.buffered.state = q.machine.state
    BY <2>1, <2>3, <2>4 DEF RunRecord
  <2>6. Live(s, evidence)
    BY <2>1, <2>5 DEF Live
  <2>7. Ends(s, "COMPLETED") /\ Agrees(s) /\ s.buffered.state = s.machine.state
    BY <1>4, <1>6, <2>1, <2>5 DEF Ends, Agrees, Doubted, LedgerOnly, Kept
  <2>8. Placed(s, evidence)
    BY <2>5, <2>7, EndPlaces
  <2>9. Latched(o, s)
    BY <2>1, <2>5 DEF Latched
  <2> QED
    BY <2>5, <2>6, <2>8, <2>9, PlaceInside
<1>8. Latched(r, o)
  BY <1>4, <1>6 DEF Latched, observation_failed
<1> QED
  BY <1>1, <1>2, <1>5, <1>7, <1>8, ThroughKeeps

LEMMA WriteArtifactsKeeps ==
    ASSUME RunsInv, NEW p \in Procs, WriteArtifacts(p)
    PROVE  Carried
<1> DEFINE r == run[p]
           A(o) == LET f == Reported(Projected(o))
                   IN  [Goto(f, "provenance") EXCEPT !.completed = FALSE,
                           !.buffered.state = f.machine.state, !.buffered.report = f.report]
           S(o) == [Goto(o, "provenance") EXCEPT !.buffered.report = o.report]
<1>1. r.pc = "artifacts" /\ Locally /\ r.pc \in Closing
  BY DEF WriteArtifacts, At, Reporteds, Closing
<1>2. /\ Live(r, evidence) /\ Ends(r, "COMPLETED") /\ Agrees(r) /\ scenario.verified \in BOOLEAN
      /\ r.buffered.state = r.machine.state
      /\ r.pc \notin {"idle", "confirm", "answered", "dead"}
  BY <1>1, ClosingFacts, EndPlaces
<1>3. PICK c \in Reading : Become(p, A(Seen(r, c))) \/ Become(p, S(Seen(r, c)))
  BY DEF WriteArtifacts
<1> DEFINE o == Seen(r, c)
           g == Goto(o, "provenance")
           s == S(o)
<1>4. Become(p, A(o)) \/ Become(p, s)
  BY <1>3
<1>5. LedgerOnly(r, o) /\ Live(o, evidence) /\ Latched(r, o)
  BY <1>2, SeenLive
<1> HIDE DEF o
<1>6. Inside(o, A(o), evidence)
  BY <1>2, <1>5, RemadeInside
<1>7. Inside(o, s, evidence)
  <2>1. /\ Live(g, evidence) /\ Latched(o, g) /\ g.pc = "provenance" /\ g.machine = o.machine
        /\ g.completed = o.completed /\ g.pending = o.pending /\ g.results = o.results
        /\ g.warned = o.warned /\ g.report = o.report /\ g.buffered = o.buffered /\ g \in RunRecord
    BY <1>5, GotoLive DEF Closing
  <2>2. s = [g EXCEPT !.buffered.report = o.report]
    OBVIOUS
  <2> HIDE DEF g, A, S
  <2> DEFINE B == [state : RunState \cup {None}, report : RunReport, evidence : BOOLEAN]
             v == [g.buffered EXCEPT !.report = o.report]
  <2>3. g.buffered \in B /\ o.report \in RunReport
    BY <2>1, RecordFacts DEF RunRecord
  <2>4. v \in B /\ v.report = o.report /\ v.state = g.buffered.state
    BY <2>3
  <2>5. s = [g EXCEPT !.buffered = v]
    BY <2>1, <2>2 DEF RunRecord
  <2> HIDE DEF s, v
  <2>6. /\ s \in RunRecord /\ s.pc = "provenance" /\ s.machine = g.machine /\ s.ledger = g.ledger
        /\ s.results = g.results /\ s.warned = g.warned /\ s.completed = g.completed
        /\ s.worker = g.worker /\ s.alive = g.alive /\ s.answer = g.answer /\ s.report = g.report
        /\ s.pending = g.pending /\ s.buffered.state = g.buffered.state
        /\ s.buffered.report = g.report
    BY <2>1, <2>4, <2>5 DEF RunRecord
  <2>7. Live(s, evidence)
    BY <2>1, <2>6 DEF Live
  <2>8. Ends(s, "COMPLETED") /\ Agrees(s) /\ s.buffered.state = s.machine.state
        /\ s.buffered.report = s.report
    BY <1>2, <1>5, <2>1, <2>6 DEF Ends, Agrees, Doubted, LedgerOnly, Kept
  <2>9. Placed(s, evidence)
    BY <2>6, <2>8, EndPlaces
  <2>10. Latched(o, s)
    BY <2>1, <2>6 DEF Latched
  <2> QED
    BY <2>6, <2>7, <2>9, <2>10, PlaceInside
<1> HIDE DEF A, S
<1> QED
  BY <1>1, <1>2, <1>4, <1>5, <1>6, <1>7, ThroughKeeps

\* Past the artifacts the run only goes from place to place.
LEMMA SealedInside ==
    ASSUME NEW ev, NEW r, Live(r, ev), Ends(r, "COMPLETED"), Agrees(r),
           r.buffered.state = r.machine.state, r.buffered.report = r.report,
           NEW pc \in {"replay", "guard", "freeze", "store"},
           pc # "replay" => VouchedFor(r, ev)
    PROVE  Inside(r, Goto(r, pc), ev)
<1> DEFINE s == Goto(r, pc)
<1>1. pc \in Closing /\ (pc # "replay" => pc \in Vouched) /\ pc \notin {"idle", "confirm", "answered"}
  BY DEF Closing, Vouched
<1>2. /\ Live(s, ev) /\ Latched(r, s) /\ s.pc = pc /\ s.machine = r.machine
      /\ s.completed = r.completed /\ s.pending = r.pending /\ s.results = r.results
      /\ s.warned = r.warned /\ s.report = r.report /\ s.buffered = r.buffered
      /\ s.authority = r.authority
  BY <1>1, GotoLive
<1> HIDE DEF s
<1>3. /\ Ends(s, "COMPLETED") /\ Agrees(s) /\ s.buffered.state = s.machine.state
      /\ s.buffered.report = s.report
      /\ VouchedFor(r, ev) => VouchedFor(s, ev)
  BY <1>2 DEF Ends, Agrees, Doubted, VouchedFor
<1>4. Placed(s, ev)
  BY <1>1, <1>2, <1>3, EndPlaces
<1> QED
  BY <1>1, <1>2, <1>4, PlaceInside DEF s

LEMMA ProvenanceKeeps ==
    ASSUME RunsInv, NEW p \in Procs, Provenance(p)
    PROVE  Carried
<1> DEFINE r == run[p]
           s == Goto(r, "replay")
<1>1. r.pc = "provenance" /\ Locally /\ r.pc \in Closing
  BY DEF Provenance, At, Closing
<1>2. /\ Live(r, evidence) /\ Ends(r, "COMPLETED") /\ Agrees(r)
      /\ r.buffered.state = r.machine.state /\ r.buffered.report = r.report
      /\ r.pc \notin {"idle", "confirm", "answered", "dead"}
  BY <1>1, ClosingFacts, EndPlaces
<1>3. \/ Become(p, Raised(r, "PhaseContractError")) \/ Become(p, Raised(r, "REPLAY"))
      \/ Become(p, s)
  BY DEF Provenance
<1>4. Inside(r, Raised(r, "PhaseContractError"), evidence) /\ Inside(r, Raised(r, "REPLAY"), evidence)
  BY <1>2, LiveRaised DEF Errors
<1>5. Inside(r, s, evidence)
  BY <1>2, SealedInside
<1> HIDE DEF r, s
<1> QED
  BY <1>1, <1>2, <1>3, <1>4, <1>5, LocalKeeps DEF r

\* A report that is turned into a failure, whatever its grade.
LEMMA RefusedReport ==
    ASSUME NEW report \in RunReport
    PROVE  /\ Refused(report) \in RunReport /\ Refused(report).status = "failed"
           /\ NotPersisted(report) \in RunReport /\ NotPersisted(report).status = "failed"
  BY DEF Refused, NotPersisted, RunReport

LEMMA RefusedInside ==
    ASSUME NEW ev, NEW r, Live(r, ev)
    PROVE  /\ Inside(r, Answered(r, "report", Refused(r.report)), ev)
           /\ Inside(r, Answered(r, "report", NotPersisted(r.report)), ev)
<1>1. /\ r \in RunRecord /\ (r.alive = 1 <=> r.worker = "running") /\ Legal(r.machine)
      /\ r.report \in RunReport
  BY LiveFacts, RecordFacts
<1>2. /\ Refused(r.report) \in RunReport /\ Refused(r.report).status = "failed"
      /\ NotPersisted(r.report) \in RunReport /\ NotPersisted(r.report).status = "failed"
  BY <1>1, RefusedReport
<1> QED
  BY <1>1, <1>2, FailedAnswerInside

\* What can be replayed is vouched for: a budget refusal of a bounded river run has its durable
\* evidence.
LEMMA ReplayedIsVouched ==
    ASSUME NEW ev, NEW r, Live(r, ev), Replayable(r)
    PROVE  VouchedFor(r, ev)
<1> SUFFICES ASSUME NEW t \in DOMAIN r.results, t \notin r.authority
             PROVE  \/ r.results[t] \in {"success", "bound"} /\ scenario.admission # "confirmed"
                    \/ River /\ t \in ev
  BY DEF VouchedFor
<1>1. scenario.admission # "confirmed"
  BY DEF Replayable, Authoritative
<1>2. reverify_materialized_result(r.results[t], River /\ r.buffered.evidence)
  BY <1>1 DEF Replayable
<1>3. r.results[t] \in {"success", "bound"} \/ (r.results[t] = "budget" /\ River)
  BY <1>2 DEF reverify_materialized_result
<1> QED
  BY <1>1, <1>3 DEF Live

LEMMA ToolReplayKeeps ==
    ASSUME RunsInv, NEW p \in Procs, ToolReplay(p)
    PROVE  Carried
<1> DEFINE r == run[p]
           s == Goto(r, "guard")
<1>1. r.pc = "replay" /\ Locally /\ r.pc \in Closing
  BY DEF ToolReplay, At, Closing
<1>2. /\ Live(r, evidence) /\ Ends(r, "COMPLETED") /\ Agrees(r)
      /\ r.buffered.state = r.machine.state /\ r.buffered.report = r.report
      /\ r.pc \notin {"idle", "confirm", "answered", "dead"}
  BY <1>1, ClosingFacts, EndPlaces
<1>3. \/ Become(p, Raised(r, "CanonicalStorageError"))
      \/ Become(p, Answered(r, "report", Refused(r.report)))
      \/ Replayable(r) /\ Become(p, s)
  BY DEF ToolReplay
<1>4. /\ Inside(r, Raised(r, "CanonicalStorageError"), evidence)
      /\ Inside(r, Answered(r, "report", Refused(r.report)), evidence)
  BY <1>2, LiveRaised, RefusedInside DEF Errors
<1>5. Replayable(r) => Inside(r, s, evidence)
  BY <1>2, ReplayedIsVouched, SealedInside
<1> HIDE DEF r, s
<1> QED
  BY <1>1, <1>2, <1>3, <1>4, <1>5, LocalKeeps DEF r

LEMMA GuardedInside ==
    ASSUME NEW ev, NEW r, Live(r, ev), Ends(r, "COMPLETED"), Agrees(r),
           r.buffered.state = r.machine.state, r.buffered.report = r.report, VouchedFor(r, ev),
           NEW c \in Reading, NEW pc \in {"freeze", "store"}
    PROVE  Inside(r, Guarded(r, c, pc), ev)
<1> DEFINE o == Seen(r, c)
           f == Projected(o)
<1>1. LedgerOnly(r, o) /\ Live(o, ev) /\ Latched(r, o)
  BY SeenLive
<1>2. Guarded(r, c, pc) = IF Over(o) THEN Answered(f, "report", Refused(f.report)) ELSE Goto(o, pc)
  BY DEF Guarded
<1> HIDE DEF o
<1>3. Live(f, ev) /\ Latched(o, f)
  BY <1>1, ProjectedInside
<1> HIDE DEF f
<1>4. Inside(f, Answered(f, "report", Refused(f.report)), ev)
  BY <1>3, RefusedInside
<1>5. /\ Ends(o, "COMPLETED") /\ Agrees(o) /\ o.buffered.state = o.machine.state
      /\ o.buffered.report = o.report /\ VouchedFor(o, ev)
  BY <1>1 DEF Ends, Agrees, Doubted, LedgerOnly, Kept, VouchedFor
<1>6. Inside(o, Goto(o, pc), ev)
  BY <1>1, <1>5, SealedInside
<1> QED
  BY <1>1, <1>2, <1>3, <1>4, <1>6, InsideFrom

LEMMA VouchedFacts ==
    ASSUME RunsInv, NEW p \in Procs, run[p].pc \in Vouched
    PROVE  /\ run[p].pc \notin {"idle", "answered", "dead"}
           /\ Live(run[p], evidence) /\ Ends(run[p], "COMPLETED") /\ Agrees(run[p])
           /\ run[p].buffered.state = run[p].machine.state
           /\ run[p].buffered.report = run[p].report /\ VouchedFor(run[p], evidence)
<1>1. run[p].pc \notin {"idle", "answered", "dead"}
  BY DEF Vouched
<1>2. Live(run[p], evidence) /\ Placed(run[p], evidence)
  BY <1>1, Working
<1> QED
  BY <1>1, <1>2, EndPlaces

LEMMA PublicationGuardKeeps ==
    ASSUME RunsInv, NEW p \in Procs, PublicationGuard(p)
    PROVE  Carried
<1>1. run[p].pc = "guard" /\ Locally
  BY DEF PublicationGuard, At
<1>2. PICK c \in Reading : Become(p, Guarded(run[p], c, "freeze"))
  BY DEF PublicationGuard
<1>3. Inside(run[p], Guarded(run[p], c, "freeze"), evidence)
  BY <1>1, VouchedFacts, GuardedInside DEF Vouched
<1> QED
  BY <1>1, <1>2, <1>3, LocalKeeps

LEMMA FreezeKeeps ==
    ASSUME RunsInv, NEW p \in Procs, Freeze(p)
    PROVE  Carried
<1> DEFINE r == run[p]
<1>1. r.pc = "freeze" /\ Locally
  BY DEF Freeze, At
<1>2. \/ \E c \in Reading : Become(p, Guarded(r, c, "store"))
      \/ Become(p, Answered(r, "report", NotPersisted(r.report)))
      \/ Become(p, Raised(r, "BUDGET_SETTLEMENT_FAILED"))
      \/ Become(p, Raised(r, "ProductRunError"))
  BY DEF Freeze
<1>3. Live(r, evidence) /\ \A c \in Reading : Inside(r, Guarded(r, c, "store"), evidence)
  BY <1>1, VouchedFacts, GuardedInside DEF Vouched
<1>4. /\ Inside(r, Answered(r, "report", NotPersisted(r.report)), evidence)
      /\ Inside(r, Raised(r, "BUDGET_SETTLEMENT_FAILED"), evidence)
      /\ Inside(r, Raised(r, "ProductRunError"), evidence)
  BY <1>3, LiveRaised, RefusedInside DEF Errors
<1> HIDE DEF r
<1> QED
  BY <1>1, <1>2, <1>3, <1>4, LocalKeeps DEF r

LEMMA WriteRefusedKeeps ==
    ASSUME RunsInv, NEW p \in Procs, WriteRefused(p)
    PROVE  Carried
<1>1. run[p].pc \notin {"idle", "confirm", "answered", "dead"} /\ Locally
      /\ Become(p, BudgetRaised(run[p]))
  BY DEF WriteRefused, WritingSteps
<1>2. Live(run[p], evidence)
  BY <1>1, Working
<1> QED
  BY <1>1, <1>2, BudgetRaisedInside, LocalKeeps

\* The six places of the tools.
LEMMA ToolPlacesKeep ==
    ASSUME RunsInv, NEW p \in Procs,
           \/ HandPotLedger(p) \/ PotOdds(p) \/ RangeValidation(p) \/ RequestedTools(p)
           \/ RangeEquity(p) \/ CallEv(p)
    PROVE  Carried
<1>1. /\ "hand_pot_ledger" \in Tool /\ "pot_odds" \in Tool /\ "range_validate" \in Tool
      /\ "holdem_equity" \in Tool /\ "raked_call_ev" \in Tool
  BY DEF Tool
<1>2. ASSUME NEW t \in Tool, AtTools(p, <<t>>) PROVE Carried
  BY <1>2, SingleBatch, AtToolsKeeps
<1>3. ASSUME AtTools(p, RequestedBatch) PROVE Carried
  BY <1>3, RequestedBatched, AtToolsKeeps
<1>4. /\ "prefix" \in Tooling /\ "range" \in Tooling /\ "requested" \in Tooling
      /\ "equity" \in Tooling /\ "call_ev" \in Tooling /\ "after_tools" \in Tooling
  BY DEF Tooling
<1>5. CASE HandPotLedger(p)
  BY <1>1, <1>2, <1>4, <1>5, HandPotLedgerActs, SkipKeeps DEF Skip
<1>6. CASE PotOdds(p)
  BY <1>1, <1>2, <1>6, PotOddsActs
<1>7. CASE RangeValidation(p)
  BY <1>1, <1>2, <1>4, <1>7, RangeValidationActs, SkipKeeps DEF RangeNoted
<1>8. CASE RequestedTools(p)
  BY <1>3, <1>8, RequestedToolsActs
<1>9. CASE RangeEquity(p)
  BY <1>1, <1>2, <1>4, <1>9, RangeEquityActs, SkipKeeps DEF Skip
<1>10. CASE CallEv(p)
  BY <1>1, <1>2, <1>4, <1>10, CallEvActs, SkipKeeps DEF Skip
<1> QED
  BY <1>5, <1>6, <1>7, <1>8, <1>9, <1>10

-----------------------------------------------------------------------------
(* Publication.                                                            *)

\* A step of one process whose case and evidence stay.
LEMMA OneRun ==
    ASSUME RunsInv, NEW p \in Procs, NEW s \in RunRecord, Become(p, s), RunInv(s, evidence),
           s.pc # "dead" => Latched(run[p], s), scenario' = scenario, evidence' = evidence
    PROVE  /\ run' \in [Procs -> RunRecord] /\ run'[p] = s
           /\ \A q \in Procs : q # p => run'[q] = run[q]
           /\ \A q \in Procs : run'[q].pc # "dead" => Latched(run[q], run'[q])
           /\ \A q \in Procs : RunInv(run[q], evidence)'
<1>1. /\ run' \in [Procs -> RunRecord] /\ run'[p] = s
      /\ \A q \in Procs : q # p => run'[q] = run[q]
  BY DEF RunsInv, Become
<1>2. ASSUME NEW q \in Procs PROVE RunInv(run'[q], evidence') /\ (run'[q].pc # "dead" => Latched(run[q], run'[q]))
  <2>1. CASE q = p
    BY <1>1, <2>1
  <2>2. CASE q # p
    BY <1>1, <2>2 DEF RunsInv, Latched
  <2> QED
    BY <2>1, <2>2
<1>3. \A q \in Procs : RunInv(run[q], evidence)'
  BY <1>2, Primed
<1> QED
  BY <1>1, <1>2, <1>3

\* While one process works, every other one rests, is gone or was refused.
LEMMA OthersRest ==
    ASSUME RunsInv, NEW p \in Procs, run[p].pc \notin {"idle", "confirm", "answered", "dead"},
           NEW q \in Procs, q # p
    PROVE  /\ run[q].pc \in {"idle", "answered", "dead"}
           /\ run[q].answer.kind \notin {"report", "replay"}
           /\ run[q].pc = "idle" => run[q] = Idle
<1>1. p \in started /\ current = NoProduct
  BY Working
<1>2. started = {p}
  BY <1>1 DEF RunsInv
<1>3. q \notin started
  BY <1>2
<1> QED
  BY <1>1, <1>3 DEF RunsInv

LEMMA ProductFacts ==
    ASSUME NEW ev, NEW r, Live(r, ev), Ends(r, "COMPLETED"), Agrees(r),
           r.buffered.state = r.machine.state, r.buffered.report = r.report
    PROVE  LET c == Product(r)
           IN  /\ c.report = r.report /\ c.report \in RunReport /\ c.report.results = r.results
               /\ c.authority = r.authority /\ c.failure = r.ledger.failure /\ c.pending = r.pending
               /\ c.state = r.machine.state
               /\ c.status \in {"succeeded", "approval_required", "failed"}
               /\ c.status = "succeeded" => /\ c.state = "COMPLETED" /\ c.report.status = "completed"
                                            /\ ~c.pending /\ ~scenario.blocked
               /\ c.status = "approval_required" => c.state = "HUMAN_REVIEW_REQUIRED"
               /\ c.status = "failed" => c.state = Failed /\ c.report.status = "failed"
               /\ c.report.status = "completed" => c.status = "succeeded"
               /\ c.report.status = "failed" => c.status # "succeeded"
               /\ EarnedBy(c.report)
<1> DEFINE c == Product(r)
<1>1. /\ c.report = r.report /\ c.authority = r.authority /\ c.failure = r.ledger.failure
      /\ c.pending = r.pending /\ c.state = r.machine.state
      /\ c.status = IF r.report.status = "completed" THEN "succeeded"
                    ELSE IF r.report.status = "approval_required" THEN "approval_required"
                    ELSE "failed"
  BY DEF Product
<1>2. r.report \in RunReport /\ r.report.results = r.results /\ EarnedBy(r.report)
  BY LiveFacts, RecordFacts DEF Agrees
<1> HIDE DEF c
<1>3. /\ r.report.status = run_status(r.machine.state)
      /\ r.machine.state \in IF r.completed THEN {"COMPLETED"} ELSE {Failed, "HUMAN_REVIEW_REQUIRED"}
      /\ r.completed => ~r.pending /\ ~scenario.blocked
  BY DEF Agrees, Ends
<1>4. CASE r.completed
  <2>1. r.machine.state = "COMPLETED" /\ r.report.status = "completed"
    BY <1>3, <1>4 DEF run_status, Failed
  <2> QED
    BY <1>1, <1>2, <1>3, <1>4, <2>1 DEF c
<1>5. CASE ~r.completed
  <2>1. \/ r.machine.state = Failed /\ r.report.status = "failed"
        \/ r.machine.state = "HUMAN_REVIEW_REQUIRED" /\ r.report.status = "approval_required"
    BY <1>3, <1>5 DEF run_status, Failed
  <2> QED
    BY <1>1, <1>2, <2>1 DEF c
<1> QED
  BY <1>4, <1>5

\* The product takes effect, and its process goes on to confirm it or is told an error.
LEMMA ProductKeeps ==
    ASSUME RunsInv, NEW p \in Procs, run[p].pc = "store", NEW r, LedgerOnly(run[p], r), ~Over(r),
           current' = Product(r), NEW s \in RunRecord, Become(p, s), RunInv(s, evidence),
           Latched(run[p], s), s.answer.kind \notin {"report", "replay"},
           s.pc = "answered" \/ (s.pc = "confirm" /\ Product(s) = Product(r)),
           UNCHANGED <<scenario, namespace, evidence, started>>
    PROVE  Carried
<1>1. /\ Live(run[p], evidence) /\ Ends(run[p], "COMPLETED") /\ Agrees(run[p])
      /\ run[p].buffered.state = run[p].machine.state
      /\ run[p].buffered.report = run[p].report /\ VouchedFor(run[p], evidence)
  BY VouchedFacts DEF Vouched
<1>2. /\ Live(r, evidence) /\ Ends(r, "COMPLETED") /\ Agrees(r)
      /\ r.buffered.state = r.machine.state /\ r.buffered.report = r.report /\ VouchedFor(r, evidence)
  <2>1. Live(r, evidence)
    BY <1>1, LiveFacts, LiveCopy DEF LedgerOnly
  <2> QED
    BY <1>1, <2>1 DEF Ends, Agrees, Doubted, LedgerOnly, Kept, VouchedFor
<1>3. p \in started
  BY Working
<1>4. /\ run' \in [Procs -> RunRecord] /\ run'[p] = s
      /\ \A q \in Procs : q # p => run'[q] = run[q]
      /\ \A q \in Procs : run'[q].pc # "dead" => Latched(run[q], run'[q])
      /\ \A q \in Procs : RunInv(run[q], evidence)'
  BY OneRun
<1> DEFINE c == Product(r)
<1>5. /\ c.report = r.report /\ c.report \in RunReport /\ c.report.results = r.results
      /\ c.authority = r.authority /\ c.failure = r.ledger.failure
      /\ c.status \in {"succeeded", "approval_required", "failed"}
      /\ c.status = "succeeded" => /\ c.state = "COMPLETED" /\ c.report.status = "completed"
                                   /\ ~c.pending /\ ~scenario.blocked
      /\ c.status = "approval_required" => c.state = "HUMAN_REVIEW_REQUIRED"
      /\ c.status = "failed" => c.state = Failed /\ c.report.status = "failed"
      /\ c.report.status = "completed" => c.status = "succeeded"
      /\ EarnedBy(c.report)
  BY <1>2, ProductFacts
<1>6. current' = c
  OBVIOUS
<1> HIDE DEF c
<1>7. ASSUME NEW q \in Procs
      PROVE  /\ run'[q].pc = "idle" => run'[q] = Idle
             /\ run'[q].pc \notin {"idle", "answered", "dead"} => q \in started
             /\ run'[q].answer.kind \notin {"report", "replay"}
             /\ run'[q].pc \in {"idle", "confirm", "answered", "dead"}
             /\ run'[q].pc = "confirm" => q = p
  <2>1. CASE q = p
    BY <1>3, <1>4, <2>1
  <2>2. CASE q # p
    BY <1>4, <2>2, OthersRest
  <2> QED
    BY <2>1, <2>2
<1>8. run'[p].pc = "confirm" => current' = Product(run[p])'
  <2>1. Product(run[p])' = Product(s)
    BY <1>4 DEF Product
  <2> QED
    BY <1>4, <2>1
<1>9. ProductIsCoherent'
  <2>1. c.failure = None
    BY <1>5 DEF Over, observation_failed
  <2>2. \A t \in DOMAIN c.report.results :
           \/ t \in c.authority
           \/ c.report.results[t] \in {"success", "bound"} /\ scenario.admission # "confirmed"
           \/ River /\ t \in evidence
    BY <1>2, <1>5 DEF VouchedFor
  <2>3. scenario' = scenario /\ evidence' = evidence /\ (River' <=> River)
    BY DEF River
  <2> QED
    BY <1>5, <1>6, <2>1, <2>2, <2>3 DEF ProductIsCoherent
<1>10. GradeIsEarned'
  BY <1>5, <1>6 DEF GradeIsEarned, EarnedBy
<1>11. AnswersAreTrue'
  BY <1>7 DEF AnswersAreTrue
<1>12. scenario \in Scenarios /\ namespace # None /\ (started = {} \/ \E q \in Procs : started = {q})
  BY <1>3 DEF RunsInv
<1> QED
  BY <1>4, <1>5, <1>6, <1>7, <1>8, <1>9, <1>10, <1>11, <1>12 DEF RunsInv, Carried

LEMMA PublishKeeps ==
    ASSUME RunsInv, NEW p \in Procs, Publish(p)
    PROVE  Carried
<1> DEFINE R(c) == [run[p] EXCEPT !.ledger = pause(@, c)]
<1>1. run[p].pc = "store" /\ UNCHANGED <<scenario, namespace, records, evidence, started>>
  BY DEF Publish, At
<1>2. PICK c \in Reading :
         \/ /\ Over(R(c))
            /\ Become(p, Answered(Projected(R(c)), "report", Refused(Projected(R(c)).report)))
            /\ UNCHANGED current
         \/ /\ ~Over(R(c))
            /\ current' = Product(R(c))
            /\ Become(p, Goto(R(c), "confirm"))
         \/ /\ ~Over(R(c))
            /\ current' \in {current, Product(R(c))}
            /\ Become(p, Raised(R(c), "ProductRunError"))
  BY DEF Publish
<1> DEFINE r == R(c)
           f == Projected(r)
<1>3. /\ Live(run[p], evidence) /\ Ends(run[p], "COMPLETED") /\ Agrees(run[p])
      /\ run[p].buffered.state = run[p].machine.state
      /\ run[p].buffered.report = run[p].report /\ VouchedFor(run[p], evidence)
  BY <1>1, VouchedFacts DEF Vouched
<1>4. LedgerOnly(run[p], r) /\ Latched(run[p], r)
  <2>1. run[p] \in RunRecord /\ run[p].ledger \in Ledger
    BY <1>3, LiveFacts
  <2> DEFINE l == pause(run[p].ledger, c)
  <2>2. l \in Ledger /\ (observation_failed(run[p].ledger) => l = run[p].ledger)
    BY <2>1, ObservedLedger
  <2> HIDE DEF l
  <2>3. r = [run[p] EXCEPT !.ledger = l]
    BY DEF l
  <2> HIDE DEF r
  <2>4. LedgerOnly(run[p], r) /\ r.ledger = l
    BY <2>1, <2>2, <2>3, NewLedger
  <2> QED
    BY <2>2, <2>4 DEF Latched, LedgerOnly
<1>5. \/ /\ Over(r)
         /\ Become(p, Answered(f, "report", Refused(f.report)))
         /\ UNCHANGED current
      \/ /\ ~Over(r)
         /\ current' = Product(r)
         /\ Become(p, Goto(r, "confirm"))
      \/ /\ ~Over(r)
         /\ current' \in {current, Product(r)}
         /\ Become(p, Raised(r, "ProductRunError"))
  BY <1>2
<1> HIDE DEF R, r
<1>6. Live(r, evidence)
  BY <1>3, <1>4, LiveFacts, LiveCopy DEF LedgerOnly
<1>7. run[p].pc \notin {"idle", "confirm", "answered", "dead"}
  BY <1>1
<1>8. CASE /\ Over(r)
           /\ Become(p, Answered(f, "report", Refused(f.report)))
           /\ UNCHANGED current
  <2>1. Live(f, evidence) /\ Latched(r, f)
    BY <1>6, ProjectedInside
  <2> HIDE DEF f
  <2>2. Inside(f, Answered(f, "report", Refused(f.report)), evidence)
    BY <2>1, RefusedInside
  <2>3. Latched(run[p], f) /\ Locally
    BY <1>1, <1>4, <1>8, <2>1 DEF Latched, observation_failed, Locally
  <2> QED
    BY <1>7, <1>8, <2>2, <2>3, ThroughKeeps
<1>9. CASE /\ ~Over(r)
           /\ current' = Product(r)
           /\ Become(p, Goto(r, "confirm"))
  <2> DEFINE s == Goto(r, "confirm")
  <2>1. /\ Live(s, evidence) /\ Latched(r, s) /\ s.pc = "confirm" /\ s.machine = r.machine
        /\ s.completed = r.completed /\ s.pending = r.pending /\ s.results = r.results
        /\ s.warned = r.warned /\ s.report = r.report /\ s.buffered = r.buffered
        /\ s.authority = r.authority /\ s.ledger = r.ledger /\ s.answer = r.answer /\ s \in RunRecord
    BY <1>6, GotoLive
  <2> HIDE DEF s
  <2>2. /\ Ends(s, "COMPLETED") /\ Agrees(s)
        /\ s.buffered.state = s.machine.state /\ s.buffered.report = s.report /\ VouchedFor(s, evidence)
    BY <1>3, <1>4, <2>1 DEF Ends, Agrees, Doubted, LedgerOnly, Kept, VouchedFor
  <2>3. Placed(s, evidence)
    BY <2>1, <2>2, EndPlaces DEF Vouched
  <2>4. RunInv(s, evidence) /\ s.answer.kind = None
    BY <2>1, <2>3, LiveFacts DEF RunInv
  <2>5. Latched(run[p], s)
    BY <1>4, <2>1 DEF Latched, observation_failed
  <2>6. Product(s) = Product(r)
    BY <2>1 DEF Product
  <2>7. s.answer.kind \notin {"report", "replay"}
    BY <2>4 DEF None
  <2> QED
    BY <1>1, <1>4, <1>9, <2>1, <2>4, <2>5, <2>6, <2>7, ProductKeeps DEF s
<1>10. CASE /\ ~Over(r)
            /\ current' \in {current, Product(r)}
            /\ Become(p, Raised(r, "ProductRunError"))
  <2> DEFINE s == Raised(r, "ProductRunError")
  <2>1. Inside(r, s, evidence)
    BY <1>6, LiveRaised DEF Errors
  <2>2. AnsweredFrom(r, s, "ProductRunError", NoReport)
    BY <1>6, LiveFacts, IdleType, AnsweredStep DEF Raised, Kinds, Errors
  <2> HIDE DEF s
  <2>3. Inside(run[p], s, evidence)
    BY <1>4, <2>1, InsideFrom
  <2>4. CASE current' = current
    BY <1>1, <1>7, <1>10, <2>3, <2>4, LocalKeeps DEF Locally, s
  <2>5. CASE current' = Product(r)
    BY <1>1, <1>4, <1>10, <2>2, <2>3, <2>5, ProductKeeps DEF AnsweredFrom, Inside, s
  <2> QED
    BY <1>10, <2>4, <2>5
<1> QED
  BY <1>5, <1>8, <1>9, <1>10

\* A step of one process that leaves the product alone, and whose process rests, is gone, or
\* is answered by it.
LEMMA SettledKeeps ==
    ASSUME RunsInv, NEW p \in Procs, NEW s \in RunRecord, Become(p, s), RunInv(s, evidence),
           s.pc # "dead" => Latched(run[p], s), UNCHANGED <<scenario, namespace, evidence, current, started>>,
           s.pc \in {"answered", "dead"},
           s.answer.kind = "report" => /\ p \in started
                                       /\ s.answer.report.status # "failed" => current.report = s.answer.report
                                       /\ s.answer.report.status = "failed" => current.status # "succeeded",
           s.answer.kind = "replay" => current # NoProduct /\ current.report = s.answer.report
    PROVE  Carried
<1>1. /\ run' \in [Procs -> RunRecord] /\ run'[p] = s
      /\ \A q \in Procs : q # p => run'[q] = run[q]
      /\ \A q \in Procs : run'[q].pc # "dead" => Latched(run[q], run'[q])
      /\ \A q \in Procs : RunInv(run[q], evidence)'
  BY OneRun
<1>2. ASSUME NEW q \in Procs
      PROVE  /\ run'[q].pc = "idle" => run'[q] = Idle
             /\ run'[q].pc \notin {"idle", "answered", "dead"} => q \in started
             /\ run'[q].pc \notin {"idle", "confirm", "answered", "dead"} => current = NoProduct
             /\ run'[q].pc = "confirm" => current = Product(run[q])'
             /\ run'[q].answer.kind = "report" =>
                   /\ q \in started
                   /\ run'[q].answer.report.status # "failed" => current.report = run'[q].answer.report
                   /\ run'[q].answer.report.status = "failed" => current.status # "succeeded"
             /\ run'[q].answer.kind = "replay" =>
                   current # NoProduct /\ current.report = run'[q].answer.report
  <2>1. CASE q = p
    BY <1>1, <2>1
  <2>2. CASE q # p
    <3>1. run'[q] = run[q]
      BY <1>1, <2>2
    <3>2. Product(run[q])' = Product(run[q])
      BY <3>1 DEF Product
    <3> QED
      BY <3>1, <3>2 DEF RunsInv, AnswersAreTrue
  <2> QED
    BY <2>1, <2>2
<1>3. ProductIsCoherent' /\ GradeIsEarned'
  BY DEF RunsInv, ProductIsCoherent, GradeIsEarned, River
<1>4. AnswersAreTrue'
  BY <1>2 DEF AnswersAreTrue
<1> QED
  BY <1>1, <1>2, <1>3, <1>4 DEF RunsInv, Carried

LEMMA RaisedKeeps ==
    ASSUME RunsInv, NEW p \in Procs, NEW r, Live(r, evidence), Latched(run[p], r),
           NEW error \in Errors, Become(p, Raised(r, error)), Locally
    PROVE  Carried
<1> DEFINE s == Raised(r, error)
<1>1. Inside(r, s, evidence)
  BY LiveRaised
<1>2. AnsweredFrom(r, s, error, NoReport)
  BY LiveFacts, IdleType, AnsweredStep DEF Raised, Kinds
<1>3. error \notin {"report", "replay"}
  BY DEF Errors
<1> HIDE DEF s
<1>4. Inside(run[p], s, evidence)
  BY <1>1, InsideFrom
<1>5. s \in RunRecord /\ RunInv(s, evidence) /\ Latched(run[p], s)
  BY <1>4 DEF Inside
<1>6. s.pc = "answered" /\ s.answer.kind \notin {"report", "replay"}
  BY <1>2, <1>3 DEF AnsweredFrom
<1> QED
  BY <1>5, <1>6, SettledKeeps DEF Locally, s

LEMMA RunConfirmKeeps ==
    ASSUME RunsInv, NEW p \in Procs, Confirm(p)
    PROVE  Carried
<1>1. run[p].pc = "confirm" /\ Locally
  BY DEF Confirm, At
<1>2. PICK c \in Reading :
         LET o == Seen(run[p], c)
         IN  \/ Become(p, Raised(Projected(o), "INTERNAL_INVARIANT_ERROR"))
             \/ Become(p, Raised(o, "INTERNAL_INVARIANT_ERROR"))
             \/ Become(p, Answered(o, "report", o.report))
  BY DEF Confirm
<1> DEFINE o == Seen(run[p], c)
           s == Answered(o, "report", o.report)
<1>3. /\ Live(run[p], evidence) /\ Ends(run[p], "COMPLETED") /\ Agrees(run[p])
      /\ run[p].buffered.state = run[p].machine.state
      /\ run[p].buffered.report = run[p].report
  BY <1>1, VouchedFacts DEF Vouched
<1>4. p \in started /\ current = Product(run[p])
  BY <1>1 DEF RunsInv
<1>5. /\ current.report = run[p].report
      /\ current.report.status = "failed" => current.status # "succeeded"
  BY <1>3, <1>4, ProductFacts
<1>6. \/ Become(p, Raised(Projected(o), "INTERNAL_INVARIANT_ERROR"))
      \/ Become(p, Raised(o, "INTERNAL_INVARIANT_ERROR"))
      \/ Become(p, s)
  BY <1>2
<1>7. LedgerOnly(run[p], o) /\ Live(o, evidence) /\ Latched(run[p], o)
  BY <1>3, SeenLive
<1> HIDE DEF o
<1>8. "INTERNAL_INVARIANT_ERROR" \in Errors
  BY DEF Errors
<1>9. CASE Become(p, Raised(Projected(o), "INTERNAL_INVARIANT_ERROR"))
  <2>1. Live(Projected(o), evidence) /\ Latched(o, Projected(o))
    BY <1>7, ProjectedInside
  <2>2. Latched(run[p], Projected(o))
    BY <1>7, <2>1 DEF Latched, observation_failed
  <2> QED
    BY <1>1, <1>8, <1>9, <2>1, <2>2, RaisedKeeps
<1>10. CASE Become(p, Raised(o, "INTERNAL_INVARIANT_ERROR"))
  BY <1>1, <1>7, <1>8, <1>10, RaisedKeeps
<1>11. CASE Become(p, s)
  <2>1. o \in RunRecord /\ Legal(o.machine) /\ (o.alive = 1 <=> o.worker = "running") /\ o.report \in RunReport
    BY <1>7, LiveFacts, RecordFacts
  <2>2. AnsweredFrom(o, s, "report", o.report)
    BY <2>1, AnsweredStep DEF Kinds
  <2> HIDE DEF s
  <2>3. s \in RunRecord /\ RunInv(s, evidence)
    BY <2>1, <2>2 DEF AnsweredFrom, RunInv, Left
  <2>4. Latched(run[p], s)
    BY <1>7, <2>2 DEF Latched, AnsweredFrom
  <2>5. o.report = run[p].report
    BY <1>7 DEF LedgerOnly, Kept
  <2> QED
    BY <1>1, <1>4, <1>5, <1>11, <2>2, <2>3, <2>4, <2>5, SettledKeeps DEF AnsweredFrom, Locally
<1> QED
  BY <1>6, <1>9, <1>10, <1>11

-----------------------------------------------------------------------------
(* The reservation, and what needs none.                                   *)

LEMMA IdleLive ==
    ASSUME NEW ev
    PROVE  Live(Idle, ev) /\ Placed(Idle, ev) /\ RunInv(Idle, ev)
<1>1. Live(Idle, ev)
  BY IdleType DEF Live, None
<1>2. Placed(Idle, ev)
  <2>1. Idle.machine.state \in StatesAt("idle", Idle.completed)
    <3>1. \A b : StatesAt("idle", b) = {"INTAKE"}
      BY DEF StatesAt, Analysing, Tooling, Reporting, Sealed, Vouched
    <3> QED
      BY <3>1, IdleType
  <2>2. /\ "idle" \notin Alone /\ "idle" \notin Judging
        /\ "idle" \notin Reporting \cup Reporteds \cup Sealed /\ "idle" \notin Reporteds \cup Sealed
        /\ "idle" \notin Sealed \cup {"artifacts"} /\ "idle" \notin Sealed /\ "idle" \notin Vouched
    BY DEF Alone, Judging, Analysing, Tooling, Reporting, Reporteds, Sealed, Vouched
  <2>3. Idle.pc = "idle"
    BY IdleType
  <2> QED
    BY <2>1, <2>2, <2>3 DEF Placed
<1>3. Idle.pc # "answered"
  BY IdleType
<1> QED
  BY <1>1, <1>2, <1>3 DEF RunInv

LEMMA RestingFacts ==
    ASSUME RunsInv, NEW p \in Procs, run[p].pc = "idle"
    PROVE  run[p] = Idle /\ Live(Idle, evidence) /\ Latched(run[p], Idle)
  BY IdleLive DEF RunsInv, Latched

LEMMA ReserveKeeps ==
    ASSUME RunsInv, NEW p \in Procs, Reserve(p)
    PROVE  Carried
<1> DEFINE s == Goto(Idle, "admit")
<1>1. /\ run[p].pc = "idle" /\ namespace = None /\ namespace' = "product"
      /\ started' = started \cup {p} /\ Become(p, s)
      /\ UNCHANGED <<scenario, evidence, current>>
  BY DEF Reserve, At
<1>2. /\ run[p] = Idle /\ started = {} /\ current = NoProduct
  BY <1>1, RestingFacts DEF RunsInv
<1>3. /\ s \in RunRecord /\ Kept(Idle, s) /\ s.pc = "admit" /\ s.machine = Idle.machine
      /\ s.ledger = Idle.ledger /\ s.results = Idle.results
  BY IdleType, GotoStep DEF Pc, Early
<1> HIDE DEF s
<1>4. Live(s, evidence)
  BY <1>3, IdleType, IdleLive, LiveCopy
<1>5. s.machine.state \in StatesAt(s.pc, s.completed) /\ s.worker # "running"
  BY <1>3, IdleType, EarlyStates, RecordFacts DEF Kept, None
<1>6. Placed(s, evidence)
  BY <1>3, <1>5 DEF Placed, Judging, Analysing, Tooling, Reporting, Reporteds, Sealed, Vouched
<1>7. RunInv(s, evidence) /\ s.answer.kind = None
  BY <1>3, <1>4, <1>6, LiveFacts DEF RunInv
<1>8. Latched(run[p], s)
  BY <1>2, <1>3 DEF Latched
<1>9. /\ run' \in [Procs -> RunRecord] /\ run'[p] = s
      /\ \A q \in Procs : q # p => run'[q] = run[q]
      /\ \A q \in Procs : run'[q].pc # "dead" => Latched(run[q], run'[q])
      /\ \A q \in Procs : RunInv(run[q], evidence)'
  BY <1>1, <1>3, <1>7, <1>8, OneRun
<1>10. started' = {p} /\ p \in started' /\ namespace' # None /\ current' = NoProduct
  BY <1>1, <1>2 DEF None
<1>11. ASSUME NEW q \in Procs
      PROVE  /\ run'[q].pc = "idle" => run'[q] = Idle
             /\ run'[q].pc \notin {"idle", "answered", "dead"} => q \in started'
             /\ run'[q].answer.kind \notin {"report", "replay"}
             /\ run'[q].pc # "confirm"
  <2>1. CASE q = p
    BY <1>3, <1>7, <1>9, <1>10, <2>1 DEF None
  <2>2. CASE q # p
    BY <1>2, <1>9, <2>2 DEF RunsInv
  <2> QED
    BY <2>1, <2>2
<1>12. ProductIsCoherent' /\ GradeIsEarned'
  BY <1>1 DEF RunsInv, ProductIsCoherent, GradeIsEarned, River
<1>13. AnswersAreTrue'
  BY <1>11 DEF AnswersAreTrue
<1> QED
  BY <1>1, <1>2, <1>9, <1>10, <1>11, <1>12, <1>13 DEF RunsInv, Carried

LEMMA ReserveRefusedKeeps ==
    ASSUME RunsInv, NEW p \in Procs, ReserveRefused(p)
    PROVE  Carried
<1>1. run[p].pc = "idle" /\ Locally
      /\ \/ Become(p, Raised(Idle, "LEGACY_RUN_UNVERIFIED"))
         \/ Become(p, Raised(Idle, "RUN_CONFLICT"))
  BY DEF ReserveRefused, At
<1>2. "LEGACY_RUN_UNVERIFIED" \in Errors /\ "RUN_CONFLICT" \in Errors
  BY DEF Errors
<1> QED
  BY <1>1, <1>2, RestingFacts, RaisedKeeps

LEMMA PreparationRefusedKeeps ==
    ASSUME RunsInv, NEW p \in Procs, PreparationRefused(p)
    PROVE  Carried
<1>1. run[p].pc = "idle" /\ Locally
      /\ \/ Become(p, Raised(Idle, "TOOL_PLAN"))
         \/ Become(p, Raised(Idle, "TOOL"))
  BY DEF PreparationRefused, At
<1>2. "TOOL_PLAN" \in Errors /\ "TOOL" \in Errors
  BY DEF Errors
<1> QED
  BY <1>1, <1>2, RestingFacts, RaisedKeeps

\* The report of the product is what an idle process is given.
LEMMA ReplayedKeeps ==
    ASSUME RunsInv, NEW p \in Procs, run[p].pc = "idle", current # NoProduct,
           Become(p, Answered(Idle, "replay", current.report)), Locally
    PROVE  Carried
<1> DEFINE s == Answered(Idle, "replay", current.report)
<1>1. run[p] = Idle /\ current.report \in RunReport
  BY RestingFacts DEF RunsInv
<1>2. AnsweredFrom(Idle, s, "replay", current.report)
  BY <1>1, IdleType, AnsweredStep DEF Kinds
<1> HIDE DEF s
<1>3. /\ s \in RunRecord /\ s.pc = "answered" /\ s.machine = Idle.machine /\ s.ledger = Idle.ledger
      /\ s.worker = Idle.worker /\ s.alive = Idle.alive
      /\ s.answer.kind = "replay" /\ s.answer.report = current.report
  BY <1>2 DEF AnsweredFrom
<1>4. RunInv(s, evidence)
  BY <1>3, IdleType DEF RunInv, Left, None
<1>5. Latched(run[p], s)
  BY <1>1, <1>3 DEF Latched
<1> QED
  BY <1>3, <1>4, <1>5, SettledKeeps DEF Locally, s

LEMMA PrepareReplayKeeps ==
    ASSUME RunsInv, NEW p \in Procs, PrepareReplay(p)
    PROVE  Carried
<1>1. run[p].pc = "idle" /\ Locally
      /\ \/ Become(p, Raised(Idle, "CONFIRMATION_REPLAY"))
         \/ Become(p, Raised(Idle, "RUN_NOT_FOUND"))
         \/ current # NoProduct /\ Become(p, Answered(Idle, "replay", current.report))
  BY DEF PrepareReplay, At
<1>2. "CONFIRMATION_REPLAY" \in Errors /\ "RUN_NOT_FOUND" \in Errors
  BY DEF Errors
<1> QED
  BY <1>1, <1>2, RestingFacts, RaisedKeeps, ReplayedKeeps

LEMMA LoadReportKeeps ==
    ASSUME RunsInv, NEW p \in Procs, LoadReport(p)
    PROVE  Carried
  BY ReplayedKeeps DEF LoadReport, At

LEMMA CrashKeeps ==
    ASSUME RunsInv, NEW p \in Procs, Crash(p)
    PROVE  Carried
<1> DEFINE s == [Idle EXCEPT !.pc = "dead"]
<1>1. Become(p, s) /\ Locally
  BY DEF Crash
<1>2. "dead" \in Pc
  BY DEF Pc, Early
<1>3. /\ s \in RunRecord /\ s.pc = "dead" /\ Kept(Idle, s) /\ s.machine = Idle.machine
      /\ s.results = Idle.results /\ s.completed = Idle.completed
  BY <1>2, IdleType DEF RunRecord, Kept
<1> HIDE DEF s
<1>4. Live(s, evidence)
  BY <1>3, IdleType, IdleLive, LiveCopy
<1>5. Placed(s, evidence)
  <2>1. \A b : StatesAt("dead", b) = {"INTAKE"}
    BY DEF StatesAt, Analysing, Tooling, Reporting, Sealed, Vouched
  <2>2. /\ "dead" \notin Alone /\ "dead" \notin Judging
        /\ "dead" \notin Reporting \cup Reporteds \cup Sealed /\ "dead" \notin Reporteds \cup Sealed
        /\ "dead" \notin Sealed \cup {"artifacts"} /\ "dead" \notin Sealed /\ "dead" \notin Vouched
    BY DEF Alone, Judging, Analysing, Tooling, Reporting, Reporteds, Sealed, Vouched
  <2> QED
    BY <1>3, <2>1, <2>2, IdleType DEF Placed
<1>6. RunInv(s, evidence) /\ s.answer.kind \notin {"report", "replay"}
  BY <1>3, <1>4, <1>5, LiveFacts DEF RunInv, None
<1> QED
  BY <1>1, <1>3, <1>6, SettledKeeps DEF Locally

LEMMA WorkerEndsKeeps ==
    ASSUME RunsInv, NEW p \in Procs, WorkerEnds(p)
    PROVE  Carried
<1> DEFINE r == run[p]
<1>1. r.worker = "running" /\ Locally
  BY DEF WorkerEnds
<1>2. PICK end \in {"report", "raised"}, cancel \in {"cancelled", r.cancel} :
         Become(p, [r EXCEPT !.worker = end, !.alive = @ - 1, !.cancel = cancel])
  <2>1. PICK end \in {"report", "raised"}, noticed \in BOOLEAN :
           Become(p, [r EXCEPT !.worker = end, !.alive = @ - 1,
                               !.cancel = IF noticed THEN "cancelled" ELSE @])
    BY DEF WorkerEnds
  <2> DEFINE cancel == IF noticed THEN "cancelled" ELSE r.cancel
  <2>2. cancel \in {"cancelled", r.cancel}
    OBVIOUS
  <2>3. Become(p, [r EXCEPT !.worker = end, !.alive = @ - 1, !.cancel = cancel])
    BY <2>1
  <2> QED
    BY <2>2, <2>3
<1> DEFINE s == [r EXCEPT !.worker = end, !.alive = @ - 1, !.cancel = cancel]
<1>3. r \in RunRecord /\ RunInv(r, evidence)
  BY DEF RunsInv
<1>4. r.alive = 1 /\ r.cancel \in Cancels /\ r.pc # "idle"
  <2>1. r.alive = 1
    BY <1>1, <1>3 DEF RunInv, Left, Live
  <2>2. Idle.worker # "running"
    BY IdleType DEF None
  <2> QED
    BY <1>1, <1>3, <2>1, <2>2, RestingFacts DEF RunRecord
<1>5. /\ s \in RunRecord /\ s.pc = r.pc /\ s.machine = r.machine /\ s.ledger = r.ledger
      /\ s.worker # "running" /\ s.alive = 0 /\ s.results = r.results /\ s.authority = r.authority
      /\ s.warned = r.warned /\ s.analysis = r.analysis
      /\ s.pending = r.pending /\ s.completed = r.completed /\ s.report = r.report
      /\ s.buffered = r.buffered /\ s.answer = r.answer
  <2> DEFINE n == r.alive - 1
  <2>1. s = [r EXCEPT !.worker = end, !.alive = n, !.cancel = cancel]
    OBVIOUS
  <2>2. n = 0 /\ n \in {0, 1} /\ cancel \in Cancels
    BY <1>4 DEF Cancels
  <2>3. end \in {None, "running", "report", "raised"} /\ end # "running"
    OBVIOUS
  <2> HIDE DEF s, n
  <2> QED
    BY <1>3, <2>1, <2>2, <2>3 DEF RunRecord
<1>6. Become(p, s)
  BY <1>2
<1> HIDE DEF s
<1>7. RunInv(s, evidence)
  <2>1. Left(r) => Left(s)
    BY <1>5 DEF Left
  <2>2. Live(r, evidence) => Live(s, evidence)
    BY <1>5 DEF Live
  <2>3. Placed(r, evidence) => Placed(s, evidence)
    BY <1>5 DEF Placed, Doubted, VouchedFor
  <2> QED
    BY <1>3, <1>5, <2>1, <2>2, <2>3 DEF RunInv
<1>8. Latched(r, s)
  BY <1>5 DEF Latched
<1>9. /\ run' \in [Procs -> RunRecord] /\ run'[p] = s
      /\ \A q \in Procs : q # p => run'[q] = run[q]
      /\ \A q \in Procs : run'[q].pc # "dead" => Latched(run[q], run'[q])
      /\ \A q \in Procs : RunInv(run[q], evidence)'
  BY <1>1, <1>5, <1>6, <1>7, <1>8, OneRun DEF Locally
<1>10. ASSUME NEW q \in Procs
       PROVE  /\ run'[q].pc = "idle" => run'[q] = Idle
              /\ run'[q].pc = run[q].pc /\ run'[q].answer = run[q].answer
              /\ Product(run[q])' = Product(run[q])
  <2>1. CASE q = p
    BY <1>4, <1>5, <1>9, <2>1 DEF Product
  <2>2. CASE q # p
    BY <1>9, <2>2 DEF RunsInv, Product
  <2> QED
    BY <2>1, <2>2
<1>11. ProductIsCoherent' /\ GradeIsEarned'
  BY <1>1 DEF RunsInv, ProductIsCoherent, GradeIsEarned, River, Locally
<1>12. AnswersAreTrue'
  BY <1>1, <1>10 DEF RunsInv, AnswersAreTrue, Locally
<1> QED
  BY <1>1, <1>9, <1>10, <1>11, <1>12 DEF RunsInv, Carried, Locally

-----------------------------------------------------------------------------
(* The whole of a run.                                                     *)

LEMMA StepKeeps ==
    ASSUME RunsInv, NEW p \in Procs, Step(p)
    PROVE  Carried
<1>1. ASSUME \/ Reserve(p) \/ ReserveRefused(p) \/ PrepareReplay(p) \/ PreparationRefused(p) \/ Admit(p)
             \/ Intake(p) \/ Normalize(p) \/ Validate(p) \/ HandValidation(p) \/ Route(p)
      PROVE  Carried
  BY <1>1, ReserveKeeps, ReserveRefusedKeeps, PrepareReplayKeeps, PreparationRefusedKeeps, AdmitKeeps,
     IntakeKeeps, NormalizeKeeps, ScreenKeeps, HandValidationKeeps, RouteKeeps
<1>2. ASSUME \/ AnalysisWindow(p) \/ ContextBuild(p) \/ Preflight(p) \/ Dispatch(p) \/ Join(p) \/ Grace(p)
             \/ SettleAnalysis(p) \/ AfterAnalysis(p)
      PROVE  Carried
  BY <1>2, AnalysisWindowKeeps, ContextBuildKeeps, DispatchKeeps, JoinKeeps, GraceKeeps,
     SettleAnalysisKeeps, AfterAnalysisKeeps
<1>3. ASSUME \/ HandPotLedger(p) \/ PotOdds(p) \/ RangeValidation(p) \/ RequestedTools(p)
             \/ RangeEquity(p) \/ CallEv(p)
      PROVE  Carried
  BY <1>3, ToolPlacesKeep
<1>4. ASSUME \/ AfterTools(p) \/ Critique(p) \/ Adjudicate(p) \/ Decide(p) \/ ReserveTime(p)
             \/ SynthesisStep(p) \/ Complete(p) \/ WriteArtifacts(p)
      PROVE  Carried
  BY <1>4, AfterToolsKeeps, CritiqueKeeps, DecideKeeps, ReserveTimeKeeps, SynthesisStepKeeps,
     CompleteKeeps, WriteArtifactsKeeps
<1>5. ASSUME \/ Provenance(p) \/ ToolReplay(p) \/ PublicationGuard(p) \/ Freeze(p) \/ Publish(p)
             \/ Confirm(p)
      PROVE  Carried
  BY <1>5, ProvenanceKeeps, ToolReplayKeeps, PublicationGuardKeeps, FreezeKeeps, PublishKeeps,
     RunConfirmKeeps
<1> QED
  BY <1>1, <1>2, <1>3, <1>4, <1>5 DEF Step

LEMMA StayKeeps == RunsInv /\ UNCHANGED vars => Carried
<1> SUFFICES ASSUME RunsInv, UNCHANGED vars PROVE Carried
  OBVIOUS
<1>1. /\ scenario' = scenario /\ run' = run /\ namespace' = namespace /\ evidence' = evidence
      /\ current' = current /\ started' = started
  BY DEF vars
<1>2. \A q \in Procs : RunInv(run[q], evidence)'
  BY <1>1, Primed DEF RunsInv
<1>3. ProductIsCoherent' /\ GradeIsEarned' /\ AnswersAreTrue'
  BY <1>1 DEF RunsInv, ProductIsCoherent, GradeIsEarned, AnswersAreTrue, River
<1>4. \A q \in Procs : Product(run[q])' = Product(run[q])
  BY <1>1 DEF Product
<1> QED
  BY <1>1, <1>2, <1>3, <1>4 DEF RunsInv, Carried, Latched

LEMMA NextKeeps == RunsInv /\ [Next]_vars => Carried
<1> SUFFICES ASSUME RunsInv, [Next]_vars PROVE Carried
  OBVIOUS
<1>1. ASSUME NEW p \in Procs, Step(p) \/ LoadReport(p) \/ WorkerEnds(p) \/ WriteRefused(p) \/ Crash(p)
      PROVE  Carried
  BY <1>1, StepKeeps, LoadReportKeeps, WorkerEndsKeeps, WriteRefusedKeeps, CrashKeeps
<1> QED
  BY <1>1, StayKeeps DEF Next

LEMMA MCNextKeeps == RunsInv /\ [MCNext]_<<flow, vars, revisionVars>> => Carried
  BY NextKeeps DEF MCNext

LEMMA RunsInitially == Init => RunsInv
<1> SUFFICES ASSUME Init PROVE RunsInv
  OBVIOUS
<1>1. /\ scenario \in Scenarios /\ run = [p \in Procs |-> Idle] /\ current = NoProduct /\ started = {}
  BY DEF Init
<1>2. run \in [Procs -> RunRecord] /\ \A p \in Procs : run[p] = Idle
  BY <1>1, IdleType
<1>3. \A p \in Procs : RunInv(run[p], evidence)
  BY <1>2, IdleLive
<1>4. /\ Idle.pc = "idle" /\ Idle.answer.kind \notin {"report", "replay"}
  BY IdleType DEF None
<1>5. /\ current.status = None /\ current.report = NoReport /\ current.report.results = <<>>
      /\ current.report.grade = None /\ NoReport \in RunReport
  BY <1>1, IdleType DEF NoProduct, NoReport
<1>6. ProductIsCoherent
  <2>1. DOMAIN current.report.results = {}
    BY <1>5
  <2> QED
    BY <1>5, <2>1 DEF ProductIsCoherent, None
<1>7. GradeIsEarned
  BY <1>5 DEF GradeIsEarned, None
<1>8. AnswersAreTrue
  BY <1>2, <1>4 DEF AnswersAreTrue
<1> QED
  BY <1>1, <1>2, <1>3, <1>4, <1>5, <1>6, <1>7, <1>8 DEF RunsInv

LEMMA MCRuns == MCSpec => []RunsInv
<1>1. MCInit => RunsInv
  BY RunsInitially DEF MCInit
<1>2. RunsInv /\ [MCNext]_<<flow, vars, revisionVars>> => RunsInv'
  BY MCNextKeeps DEF Carried
<1> QED
  BY <1>1, <1>2, PTL DEF MCSpec

\* A run takes its course once and in order, for any number of processes, any cases and any
\* limits: every event of its machine starts where the last one ended and is one that the table
\* allows (but for the last one of a run that its handler failed), no second process passes the
\* reservation (orchestrator.py:1054), and no provider is called while another one of the run is
\* alive (phases/executors.py:102).
THEOREM RunOrderly == MCSpec => []RunIsOrderly
<1>1. RunsInv => RunIsOrderly
  <2> SUFFICES ASSUME RunsInv PROVE RunIsOrderly
    OBVIOUS
  <2>1. EventsFollowTheTable
    <3> SUFFICES ASSUME NEW p \in Procs
                 PROVE  LET r == run[p]
                            e == r.machine.events
                        IN  /\ ~r.machine.illegal
                            /\ r.machine.state = IF e = <<>> THEN "INTAKE" ELSE e[Len(e)].target
                            /\ \A i \in 1 .. Len(e) :
                                  /\ e[i].source = IF i = 1 THEN "INTAKE" ELSE e[i - 1].target
                                  /\ \/ e[i].target \in ALLOWED_TRANSITIONS[e[i].source]
                                     \/ HandlerEvent(r, i)
      BY DEF EventsFollowTheTable
    <3> DEFINE r == run[p]
    <3>1. \/ Legal(r.machine)
          \/ Handled(r.machine) /\ r.answer.report = FailedReport /\ ~Strict
      BY DEF RunsInv, RunInv, Left, Live
    <3>2. CASE Legal(r.machine)
      BY <3>2 DEF Legal, EndOf, SourceOf
    <3>3. CASE Handled(r.machine) /\ r.answer.report = FailedReport /\ ~Strict
      BY <3>3 DEF Handled, EndOf, SourceOf, HandlerEvent
    <3> QED
      BY <3>1, <3>2, <3>3
  <2>2. RunsOnce
    <3>1. CASE started = {}
      BY <3>1, FS_EmptySet DEF RunsOnce
    <3>2. ASSUME NEW p \in Procs, started = {p} PROVE RunsOnce
      <4>1. Cardinality({p}) = 1
        BY FS_Singleton
      <4> QED
        BY <3>2, <4>1 DEF RunsOnce
    <3> QED
      BY <3>1, <3>2 DEF RunsInv
  <2>3. ProvidersAreSerial
    <3>1. \A p \in Procs : run[p].alive \in {0, 1}
      BY DEF RunsInv, RunRecord
    <3> QED
      BY <3>1 DEF ProvidersAreSerial
  <2> QED
    BY <2>1, <2>2, <2>3 DEF RunIsOrderly
<1> QED
  BY <1>1, MCRuns, PTL

\* What is published and answered of a run is true, for any number of processes, any cases and
\* any limits: the status, the state and the report of the product agree, every tool of it is
\* vouched for, a report that is answered is the product's, and grade A was earned
\* (orchestrator.py:4426, 4722-4794; phases/services.py:734).
THEOREM ProductTrue == MCSpec => []ProductIsTrue
<1>1. RunsInv => ProductIsTrue
  BY DEF RunsInv, ProductIsTrue
<1> QED
  BY <1>1, MCRuns, PTL

\* A failure is final, for any number of processes, any cases and any limits: while its process
\* lives, a machine that failed stays failed, and the ledger of the clock keeps the failure that
\* latched it (budgets/ledger.py:67).
THEOREM FailureFinal == MCSpec => FailureIsFinal
<1>1. RunsInv /\ [MCNext]_<<flow, vars, revisionVars>> =>
        [\A p \in Procs : run'[p].pc # "dead" =>
            /\ run[p].machine.state = Failed => run'[p].machine.state = Failed
            /\ observation_failed(run[p].ledger) => run'[p].ledger.failure = run[p].ledger.failure]_vars
  BY MCNextKeeps DEF Carried, Latched
<1> QED
  BY <1>1, MCRuns, PTL DEF MCSpec, FailureIsFinal
=============================================================================

-------------------------- MODULE WorkflowMachine --------------------------
(***************************************************************************)
(* The vocabulary of one run of the workflow orchestrator, as pure         *)
(* operators: the run states and their table of transitions                *)
(* (state_machine.py), the serial usage ledger that the state machine      *)
(* observes the clock through (budgets/ledger.py), and what the phase      *)
(* services and executors (phases/) make of their inputs.                  *)
(*                                                                         *)
(* Time is counted in units of the publication reserve of 0.25 s.  A       *)
(* reading of the monotonic clock is "same" or "tick" (the clock moved on  *)
(* by nothing or one unit since the last one), "back" (it went backwards)  *)
(* or "broken" (the read raised, or gave no natural number).               *)
(***************************************************************************)
EXTENDS Naturals, Sequences, FiniteSets, SequencesExt

CONSTANT RuntimeLimit    \* policy.runtime_limit_ns, in units of the reserve
CONSTANT RoundLimit      \* policy.max_deliberation_rounds

None == "none"

(***************************************************************************)
(* The state machine.                                                      *)
(***************************************************************************)
Failed == "FAILED_WITH_LIMITATIONS"

RunState ==
    {"INTAKE", "NORMALIZE", "DATA_VALIDATION", "TASK_ROUTING", "INDEPENDENT_ANALYSIS",
     "TOOL_AND_RESEARCH", "CRITIQUE", "ADJUDICATION", "HUMAN_REVIEW_REQUIRED",
     "FINAL_SYNTHESIS", "COMPLETED", Failed}

TerminalStates == {"COMPLETED", Failed}

ALLOWED_TRANSITIONS ==
    [s \in RunState |->
        IF s \in TerminalStates THEN {}
        ELSE {Failed} \cup
             CASE s = "INTAKE"                -> {"NORMALIZE"}
               [] s = "NORMALIZE"             -> {"DATA_VALIDATION"}
               [] s = "DATA_VALIDATION"       -> {"TASK_ROUTING", "HUMAN_REVIEW_REQUIRED"}
               [] s = "TASK_ROUTING"          -> {"INDEPENDENT_ANALYSIS", "TOOL_AND_RESEARCH"}
               [] s = "INDEPENDENT_ANALYSIS"  -> {"TOOL_AND_RESEARCH", "CRITIQUE"}
               [] s = "TOOL_AND_RESEARCH"     -> {"CRITIQUE", "HUMAN_REVIEW_REQUIRED"}
               [] s = "CRITIQUE"              -> {"TOOL_AND_RESEARCH", "ADJUDICATION"}
               [] s = "ADJUDICATION"          -> {"HUMAN_REVIEW_REQUIRED", "FINAL_SYNTHESIS"}
               [] s = "HUMAN_REVIEW_REQUIRED" -> {"TOOL_AND_RESEARCH", "FINAL_SYNTHESIS"}
               [] s = "FINAL_SYNTHESIS"       -> {"COMPLETED"}]

StateEvent(s, t) == [source |-> s, target |-> t]

\* illegal records a transition that the table refuses: the code raises there.
WorkflowStateMachine ==
    [state |-> "INTAKE", events |-> <<>>, rounds |-> 0, illegal |-> FALSE]

terminal(m) == m.state \in TerminalStates

Append_(m, t) ==
    [m EXCEPT !.events = Append(@, StateEvent(m.state, t)), !.state = t]

transition(m, t) ==
    IF t \in ALLOWED_TRANSITIONS[m.state] THEN Append_(m, t) ELSE [m EXCEPT !.illegal = TRUE]

\* mutant: the failure is added after the end.
Mut_project_budget_failure(m) ==
    IF m.state = Failed THEN m ELSE Append_(m, Failed)

\* A budget failure seen after the end rewrites the last event instead of adding one.
project_budget_failure(m) ==
    CASE m.state = "COMPLETED" ->
            [m EXCEPT !.events = [@ EXCEPT ![Len(@)] = StateEvent("FINAL_SYNTHESIS", Failed)],
                      !.state = Failed]
      [] m.state = Failed -> m
      [] OTHER -> Append_(m, Failed)

start_deliberation_round(m) ==
    IF m.rounds < RoundLimit THEN [m EXCEPT !.rounds = @ + 1] ELSE m

(***************************************************************************)
(* The serial usage ledger: what was used, whether the clock counts, and   *)
(* the failure that latched it.                                            *)
(***************************************************************************)
Reading == {"same", "tick", "back", "broken"}

\* An effect is settled at the highest of its own clock readings, which is never before the
\* reading that opened its window.
EffectReading == {"same", "tick"}

SerialUsageLedger == [used |-> 0, active |-> TRUE, failure |-> None]

observation_failed(l) == l.failure # None

validate_snapshot(used) == IF used > RuntimeLimit THEN "runtime_exceeded" ELSE None

settle_runtime_observation(l, elapsed) ==
    LET used == l.used + (IF l.active THEN elapsed ELSE 0)
    IN  [l EXCEPT !.used = used, !.failure = validate_snapshot(used)]

observed(l, c) ==
    CASE c = "broken" -> [l EXCEPT !.failure = "usage_malformed"]
      [] c = "back"   -> [l EXCEPT !.failure = "clock_rollback"]
      [] OTHER        -> settle_runtime_observation(l, IF c = "tick" THEN 1 ELSE 0)

\* mutant: a latched clock failure is observed once more.
Mut_observe_runtime(l, c) ==
    IF l.failure \notin {None, "clock_rollback"} THEN l ELSE observed(l, c)

\* A failure once observed stays; otherwise the clock is read and the time since charged.
observe_runtime(l, c) == IF observation_failed(l) THEN l ELSE observed(l, c)

\* runtime_window: the observation, and how much is left of the run.
remaining(l) == RuntimeLimit - l.used

apply_at(l, c) == IF observation_failed(l) THEN l
                  ELSE settle_runtime_observation(l, IF c = "tick" THEN 1 ELSE 0)

pause(l, c) ==
    LET o == observe_runtime(l, c) IN IF observation_failed(o) THEN o ELSE [o EXCEPT !.active = FALSE]

(***************************************************************************)
(* Phases.  A request and its outcome carry the same correlation (run,     *)
(* phase, attempt, input hash, policy, contexts); an outcome carries an    *)
(* output or a failure, never both.                                        *)
(***************************************************************************)
PhaseStatus == {"succeeded", "completed_with_failures", "failed"}

outcome_shape_matches_status(o) ==
    IF o.status = "failed" THEN o.failure /\ ~o.output ELSE o.output /\ ~o.failure

PhaseOutcome ==
    {o \in [status : PhaseStatus, output : BOOLEAN, failure : BOOLEAN] :
        outcome_shape_matches_status(o)}

\* The outcome of a phase whose items succeeded, all or not all, or that failed itself.
successful_outcome(all) ==
    CHOOSE o \in PhaseOutcome : o.status = IF all THEN "succeeded" ELSE "completed_with_failures"
failed_outcome == CHOOSE o \in PhaseOutcome : o.status = "failed"

(***************************************************************************)
(* Tools.  A result is a success, a failure of the tool that its           *)
(* calculator reproduces ("bound"), one that it does not ("failed"), or a  *)
(* refusal by the strict budget ("budget").  Once a batch is refused, the  *)
(* rest of it is.                                                          *)
(***************************************************************************)
ToolStatus == {"success", "bound", "failed", "budget"}

ToolOutcomes(batch) ==
    {o \in [1 .. Len(batch) -> ToolStatus] :
        \A i \in 1 .. Len(batch) : o[i] = "budget" => \A j \in i .. Len(batch) : o[j] = "budget"}

budget_failure(o) == \E i \in DOMAIN o : o[i] = "budget"

\* Every result is bound to its request, in order, one for each.
validate_tool_research_output(batch, o) == DOMAIN o = 1 .. Len(batch)

\* What re-verification says of a result with no phase authority: a budget refusal needs the
\* durable evidence of its own, everything else is replayed by the canonical calculator.
reverify_materialized_result(status, evidenced) ==
    \/ status \in {"success", "bound"}
    \/ status = "budget" /\ evidenced

(***************************************************************************)
(* The provider's analysis of one role.  The record says how the execution *)
(* ended; "warned" that it left a line in the data quality of the run.     *)
(***************************************************************************)
Analysis(status, budget, timed, cancel, objects) ==
    [status |-> status, budget |-> budget, timed |-> timed, cancel |-> cancel,
     objects |-> objects, warned |-> status # "completed"]

NotRequested == "not_requested"

\* The report came in time; a report that is malformed, or of another task, whose context has
\* expired, or that is too large once redacted, is replaced by the fallback report.
AcceptedReport ==
    {Analysis("completed", FALSE, FALSE, NotRequested, o) : o \in BOOLEAN}
    \cup {Analysis("failed", FALSE, FALSE, NotRequested, FALSE),
          Analysis("failed", TRUE, FALSE, NotRequested, FALSE)}

\* Before anything is sent: the handoff is refused, the context invalid, or the budget does
\* not admit the attempt (unknown class, cost disabled or unknown, deadline, clock).
RefusedHandoff ==
    {Analysis("refused", FALSE, FALSE, NotRequested, FALSE),
     Analysis("failed", FALSE, FALSE, NotRequested, FALSE),
     Analysis("refused", TRUE, FALSE, NotRequested, FALSE)}

\* The provider raised: a fallback report, or for a legacy provider's timeout a deadline whose
\* cancellation nobody confirmed.
ProviderRaised ==
    {Analysis("fallback", FALSE, FALSE, NotRequested, FALSE),
     Analysis("failed", FALSE, TRUE, "cancel_unconfirmed", FALSE)}

TimedOut(cancel) == Analysis("failed", FALSE, TRUE, cancel, FALSE)

validate_analysis_output(a) == a.timed => a.status = "failed"

(***************************************************************************)
(* The pure services before the analysis.  A proposal of an action that    *)
(* is not a sensitive one is an error; proposals of both versions are      *)
(* never one checkpoint; the roles of a case follow from its kind.         *)
(***************************************************************************)
IntakeValidation(approvals) ==
    {"ValueError"} \cup (IF approvals = "mixed" THEN {"PhaseContractError"} ELSE {None})

NormalizationBinding == {None, "NormalizationError"}

expected_roles(kind) ==
    CASE kind = "calculation" -> <<"math-auditor", "report-writer">>
      [] kind = "hand"        -> <<"intake", "strategy-analyst", "math-auditor", "skeptic",
                                   "adjudicator">>
      [] kind = "claim"       -> <<"math-auditor", "evidence-researcher", "skeptic", "adjudicator">>
      [] OTHER                -> <<"strategy-analyst", "math-auditor", "skeptic", "adjudicator">>

\* The context of the role is built, or a blind decision cannot be isolated.
ContextBuildOutcome == {"built", "blind_isolation_failed"}

(***************************************************************************)
(* The services that judge.  A provider's objections open disputes when    *)
(* the case has claims; a claim is adjudicated when its check names a tool *)
(* whose last result succeeded.                                            *)
(***************************************************************************)
ObjectionDisputes(claim, a) == claim # None /\ a.objects

CritiqueWarns(results) == \E t \in DOMAIN results : results[t] # "success"

Adjudicated(claim, results) ==
    claim = "checked" /\ "plain" \in DOMAIN results /\ results["plain"] = "success"

AdjudicationWarns(claim, results) == claim # None /\ ~Adjudicated(claim, results)

\* What the synthesis makes of the state of the machine.
run_status(state) ==
    CASE state = "HUMAN_REVIEW_REQUIRED" -> "approval_required"
      [] state = Failed                  -> "failed"
      [] OTHER                           -> "completed"

\* The grade: A only when every tool succeeded, with a verified result and nothing in doubt.
Confidence(state, results, verified, warned, unverified, disputed) ==
    CASE state = "HUMAN_REVIEW_REQUIRED" -> "D"
      [] /\ state # "HUMAN_REVIEW_REQUIRED"
         /\ DOMAIN results # {}
         /\ \A t \in DOMAIN results : results[t] = "success"
         /\ ~warned /\ ~unverified /\ ~disputed -> IF verified THEN "A" ELSE "B"
      [] OTHER -> "C"

Report(m, results, verified, warned, unverified, disputed) ==
    [status |-> run_status(m.state), results |-> results,
     grade |-> Confidence(m.state, results, verified, warned, unverified, disputed)]

\* A report that was not published is turned into a failure; the grade falls to D except
\* where persistence failed.
Refused(report) == [report EXCEPT !.status = "failed", !.grade = "D"]
NotPersisted(report) == [report EXCEPT !.status = "failed"]
=============================================================================

------------------------------ MODULE Workflow ------------------------------
(***************************************************************************)
(* One run of the orchestrator, from the reservation of its identifier to  *)
(* the answer of the call: the admission of the case, the phases, the      *)
(* provider's worker thread, the batches of tools, the synthesis of the    *)
(* report, and its publication as the product of the run.  Two processes   *)
(* ask for the same run; a process may die anywhere, the clock may go      *)
(* backwards or break, and any write into the run's buffer may go over the *)
(* storage budget.                                                         *)
(*                                                                         *)
(* The product store is taken by what TerminalStore shows of it: a         *)
(* publication takes effect at its current pointer, and a failure before   *)
(* or after that point is reported as an error.                            *)
(***************************************************************************)
EXTENDS WorkflowMachine

CONSTANTS Procs,       \* the processes that ask for the run
          Scenarios    \* the cases: what is asked, admitted and requested

Tool == {"hand_validator", "hand_pot_ledger", "pot_odds", "range_validate", "plain", "combos",
         "holdem_equity", "raked_call_ev"}

Scenario ==
    [kind : {"hand", "calculation", "strategy", "claim"}, hand : BOOLEAN,
     admission : {None, "range_equity", "confirmed", "bounded_nl", "bounded_river"},
     approvals : {None, "pending", "mixed"}, blocked : BOOLEAN,
     claim : {None, "checked", "unchecked"}, warned : BOOLEAN, tools : Seq(Tool),
     range : {None, "valid", "several", "refused"},
     exact : BOOLEAN, namespace : {None, "legacy", "product"}, verified : BOOLEAN]

\* What is requested of a case in its own batch: neither the equity and call-EV tools, which
\* have requests of their own, nor what the run has done already, nor the combinations of
\* versioned ranges that are several, in conflict with the inputs, or fail the preflight.
RangeIsRefused(s) == s.range \in {"several", "refused"}
RequestedIn(s) ==
    SelectSeq(s.tools, LAMBDA t : t = "plain" \/ (t = "combos" /\ ~RangeIsRefused(s)))

\* The tool plan of a bounded river run is fixed: it requests one tool besides its own.  The
\* range of an admitted equity has been validated; a range counts where combinations are asked.
ScenarioAssumption ==
    \A s \in Scenarios :
        /\ s \in Scenario
        /\ RequestedIn(s) \in Seq({"plain", "combos"})
        /\ s.admission = "bounded_river" => RequestedIn(s) = <<"combos">>
        /\ s.admission \in {"range_equity", "bounded_river"} => s.range = "valid"
        /\ s.range # None => s.hand /\ \E i \in DOMAIN s.tools : s.tools[i] = "combos"

ASSUME ScenarioAssumption

VARIABLES
    scenario,    \* the case of this behaviour; it never changes
    run,         \* what each process holds of the run it drives
    namespace,   \* whether the run's directory exists
    records,     \* the admission records committed before any tool ran
    evidence,    \* the durable evidence of a budget refusal
    current,     \* the product: what its current revision says
    started      \* the processes that ever passed the reservation

vars == <<scenario, run, namespace, records, evidence, current, started>>
shared == <<namespace, records, evidence, current, started>>

NoReport == [status |-> None, results |-> <<>>, grade |-> None]
NoAnswer == [kind |-> None, report |-> NoReport]
NoProduct == [status |-> None, state |-> None, report |-> NoReport, pending |-> FALSE,
              failure |-> None, authority |-> {}]
NoAnalysis == Analysis(None, FALSE, FALSE, NotRequested, FALSE)

Idle ==
    [pc |-> "idle", machine |-> WorkflowStateMachine, ledger |-> SerialUsageLedger,
     role |-> 1, worker |-> None, alive |-> 0, cancel |-> NotRequested,
     analysis |-> NoAnalysis, results |-> <<>>, authority |-> {}, warned |-> FALSE,
     disputed |-> FALSE, pending |-> FALSE, completed |-> FALSE, report |-> NoReport,
     buffered |-> [state |-> None, report |-> NoReport, evidence |-> FALSE],
     answer |-> NoAnswer]

Strict == scenario.admission \in {"confirmed", "bounded_nl", "bounded_river"}
River == scenario.admission = "bounded_river"
Ranged == scenario.admission \in {"range_equity", "bounded_river"}
RuntimeIsExact == scenario.exact

At(p, pc) == run[p].pc = pc
Become(p, r) == run' = [run EXCEPT ![p] = r]
Locally == UNCHANGED <<scenario, namespace, records, evidence, current, started>>
Goto(r, pc) == [r EXCEPT !.pc = pc]
Moved(r, t) == [r EXCEPT !.machine = transition(@, t)]
Warned(r) == [r EXCEPT !.warned = TRUE]

\* The call returns: of its locals only the worker that it may leave behind lives on.
Answered(r, kind, report) ==
    [Idle EXCEPT !.pc = "answered", !.answer = [kind |-> kind, report |-> report],
                 !.machine = r.machine, !.ledger = r.ledger, !.worker = r.worker,
                 !.alive = r.alive, !.cancel = r.cancel]
Raised(r, error) == Answered(r, error, NoReport)

\* The clock is observed through the machine: a failure is projected into it at once.
Seen(r, c) == [r EXCEPT !.ledger = observe_runtime(@, c)]
Over(r) == observation_failed(r.ledger)
Projected(r) == Warned([r EXCEPT !.machine = project_budget_failure(@)])

\* _synthesize(..., completed): where every path of the run ends.
Synthesize(r, completed) == [Goto(r, "reserve_time") EXCEPT !.completed = completed]
Stop(r) == Synthesize(Moved(r, Failed), FALSE)

\* machine.enforce_runtime: stop, or go on.
Enforced(r, c, onward) ==
    LET o == Seen(r, c) IN IF Over(o) THEN Synthesize(Projected(o), FALSE) ELSE Goto(o, onward)

\* machine.checked_runtime_window, and nothing left of it.
Windowed(r, c, onward) ==
    LET o == Seen(r, c)
    IN  CASE Over(o)                -> Synthesize(Projected(o), FALSE)
          [] ~Over(o) /\ remaining(o.ledger) <= 0 -> Stop(Warned(o))
          [] OTHER                  -> Goto(o, onward)

FailedReport == [status |-> "failed", results |-> <<>>, grade |-> "D"]

\* A strict budget error that no phase handles: run and run_versioned_range_river_equity turn
\* it into a failed report of their own; the confirmed entry points let it through.
BudgetRaised(r) ==
    IF Strict THEN Raised(r, "BudgetLimitError")
    ELSE Answered([r EXCEPT !.machine = IF @.state = Failed THEN @ ELSE Append_(@, Failed)],
                  "report", FailedReport)

-----------------------------------------------------------------------------
(***************************************************************************)
(* Reservation, admission, intake.                                         *)
(***************************************************************************)
Init ==
    /\ scenario \in Scenarios
    /\ run = [p \in Procs |-> Idle]
    /\ namespace = scenario.namespace
    /\ records = {}
    /\ evidence = {}
    /\ current = NoProduct
    /\ started = {}

AdmissionRecords == (IF Ranged THEN {"range_equity"} ELSE {})
                    \cup (IF River THEN {"bounded_river"} ELSE {})

\* Under the authority lock of the run: the namespace, the admission records, the buffer.
Reserve(p) ==
    /\ At(p, "idle")
    /\ namespace = None
    /\ namespace' = "product"
    /\ records' = AdmissionRecords
    /\ started' = started \cup {p}
    /\ Become(p, Goto(Idle, "admit"))
    /\ UNCHANGED <<scenario, evidence, current>>

\* The identifier is taken: a run that was not confirmed beforehand is refused.
ReserveRefused(p) ==
    /\ At(p, "idle")
    /\ namespace # None
    /\ ~Strict
    /\ Become(p, Raised(Idle, IF namespace = "legacy" THEN "LEGACY_RUN_UNVERIFIED"
                              ELSE "RUN_CONFLICT"))
    /\ Locally

\* mutant: the report of a run that is asked for again is made up, not read.
Mut_PrepareReplay(p) ==
    /\ At(p, "idle")
    /\ namespace # None
    /\ Strict
    /\ Become(p, IF namespace # "product" THEN Raised(Idle, "CONFIRMATION_REPLAY")
                 ELSE Answered(Idle, "replay", [FailedReport EXCEPT !.status = "completed"]))
    /\ Locally

\* A confirmed run that is asked for again: its own admission gives the report of the
\* published product, another one is a conflict; before the product there is nothing to read.
PrepareReplay(p) ==
    /\ At(p, "idle")
    /\ namespace # None
    /\ Strict
    /\ \E same \in BOOLEAN :
          Become(p, CASE namespace # "product" -> Raised(Idle, "CONFIRMATION_REPLAY")
                      [] namespace = "product" /\ current = NoProduct ->
                            Raised(Idle, "RUN_NOT_FOUND")
                      [] OTHER -> IF same THEN Answered(Idle, "replay", current.report)
                                  ELSE Raised(Idle, "CONFIRMATION_REPLAY"))
    /\ Locally

\* Before its reservation a bounded run is tried out: the three tools of the natural-language
\* one must succeed, the tool plan of the river one be the registry's.
PreparationRefused(p) ==
    /\ At(p, "idle")
    /\ namespace = None
    /\ scenario.admission \in {"bounded_nl", "bounded_river"}
    /\ Become(p, Raised(Idle, IF River THEN "TOOL_PLAN" ELSE "TOOL"))
    /\ Locally

\* load_report: the report of the current product, as it was published.
LoadReport(p) ==
    /\ At(p, "idle")
    /\ current # NoProduct
    /\ Become(p, Answered(Idle, "replay", current.report))
    /\ Locally

\* The artifacts of the admission enter the buffer; the bounded river run insists on both of
\* its durable records before the first tool.
Admit(p) ==
    /\ At(p, "admit")
    /\ Become(p, IF River /\ ~({"range_equity", "bounded_river"} \subseteq records)
                 THEN Raised(run[p], "STORAGE") ELSE Goto(run[p], "intake"))
    /\ Locally

\* The intake service, its evidence and its approval proposals: V1 and V2 never share a
\* checkpoint.
Intake(p) ==
    /\ At(p, "intake")
    /\ \E error \in IntakeValidation(scenario.approvals) :
          Become(p, IF error # None THEN Raised(run[p], error)
                    ELSE [Goto(run[p], "normalize") EXCEPT !.pending = scenario.approvals = "pending",
                                                           !.warned = scenario.warned])
    /\ Locally

\* The normalized case is bound to the one that came in, or the run ends here.
Normalize(p) ==
    /\ At(p, "normalize")
    /\ LET r == Moved(run[p], "NORMALIZE")
       IN  \E error \in NormalizationBinding :
              Become(p, IF error = None THEN Goto(r, "validate") ELSE Raised(r, error))
    /\ Locally

\* The security screen; a prohibited use ends the run before any tool.
Validate(p) ==
    /\ At(p, "validate")
    /\ LET r == Moved(run[p], "DATA_VALIDATION")
       IN  Become(p, CASE scenario.blocked -> Stop(Warned(r))
                       [] ~scenario.blocked /\ scenario.kind = "hand" ->
                             IF scenario.hand THEN Goto(r, "hand") ELSE Warned(Goto(r, "route"))
                       [] OTHER -> Goto(r, "route"))
    /\ Locally

-----------------------------------------------------------------------------
(***************************************************************************)
(* Tools.  One batch: the window, the executor, the settlement of what it  *)
(* used, and the authority of the successes when the runtime is the exact  *)
(* one before and after.                                                   *)
(***************************************************************************)
Batch(r, batch, o) ==
    LET tools == {batch[i] : i \in DOMAIN batch}
    IN  [r EXCEPT !.results = [t \in tools \cup DOMAIN r.results |->
                                  IF t \in tools THEN o[CHOOSE i \in DOMAIN batch : batch[i] = t]
                                  ELSE r.results[t]],
                  !.authority = @ \cup (IF RuntimeIsExact
                                        THEN {batch[i] : i \in {j \in DOMAIN o : o[j] = "success"}}
                                        ELSE {})]

\* _execute_tool_requests raises a budget error at its window or at the settlement; the
\* results are then not part of the run.
Executed(r, batch, c, o, d) ==
    LET w == Seen(r, c)
        s == [w EXCEPT !.ledger = apply_at(@, d)]
    IN  CASE Over(w) -> [limit |-> TRUE, r |-> w]
          [] ~Over(w) /\ Over(s) -> [limit |-> TRUE, r |-> s]
          [] OTHER -> [limit |-> FALSE, r |-> Batch(s, batch, o)]

AllSuccess(o) == \A i \in DOMAIN o : o[i] = "success"

\* The line each failure leaves in the data quality; the bounded river run keeps the tools'.
Noted(r, o) == IF AllSuccess(o) \/ River THEN r ELSE Warned(r)

\* What each place makes of a batch that was executed.
HandJudged(r, o, valid) ==
    CASE budget_failure(o) -> Stop(Warned(r))
      [] ~budget_failure(o) /\ scenario.admission = "confirmed" /\ ~AllSuccess(o) ->
            Raised(r, "PhaseContractError")
      [] ~budget_failure(o) /\ scenario.admission = "confirmed" /\ AllSuccess(o) /\ ~valid ->
            Raised(r, "CANDIDATE_SCHEMA")
      [] OTHER -> Goto(IF AllSuccess(o) /\ valid THEN r ELSE Warned(r), "route")

PrefixJudged(r, o, onward) ==
    CASE budget_failure(o) -> Stop(Warned(r))
      [] ~budget_failure(o) /\ ~AllSuccess(o) -> Stop(r)
      [] OTHER -> Goto(r, onward)

MustSucceed(r, o, onward) == IF AllSuccess(o) THEN Goto(r, onward) ELSE Stop(Warned(r))

RangeNoted(r) == IF RangeIsRefused(scenario) THEN Warned(r) ELSE r
RangeJudged(r, o) ==
    IF AllSuccess(o) THEN Goto(RangeNoted(r), "requested") ELSE Stop(Warned(r))

RequestedJudged(r, batch, o) ==
    LET combos == /\ scenario.range = "valid"
                  /\ \E i \in DOMAIN batch : batch[i] = "combos" /\ o[i] # "success"
    IN  CASE budget_failure(o) -> Stop(Warned(r))
          [] ~budget_failure(o) /\ scenario.admission = "confirmed" /\ ~AllSuccess(o) ->
                Raised(r, "PhaseContractError")
          [] ~budget_failure(o) /\ scenario.admission # "confirmed" /\ combos -> Stop(Warned(r))
          [] OTHER -> Goto(r, "equity")

CallEvJudged(r, o) ==
    CASE budget_failure(o) -> Stop(Warned(r))
      [] ~budget_failure(o) /\ ~AllSuccess(o) -> Stop(r)
      [] OTHER -> Goto(r, "after_tools")

\* _commit_bounded_river_budget_failure: the refusal is made durable before its result is
\* buffered.
Evidenced(r, o) == IF River /\ budget_failure(o) THEN [r EXCEPT !.buffered.evidence = TRUE] ELSE r
CommitEvidence(batch, o) ==
    evidence' = IF River /\ budget_failure(o) THEN evidence \cup {batch[1]} ELSE evidence

\* The outcome of the phase: a failed one has no output and raises; otherwise the results are
\* bound to the batch, their evidence is committed, and the place judges them.
Dispatched(p, r, batch, c, o, d, judged(_)) ==
    LET x == Executed(r, batch, c, o, d)
    IN  \E out \in {successful_outcome(AllSuccess(o)), failed_outcome} :
           IF ~out.output THEN Become(p, Raised(r, "PhaseContractError")) /\ evidence' = evidence
           ELSE IF x.limit THEN Become(p, Stop(Warned(x.r))) /\ evidence' = evidence
           ELSE /\ validate_tool_research_output(batch, o)
                /\ CommitEvidence(batch, o)
                /\ Become(p, judged(Evidenced(Noted(x.r, o), o)))

ToolsAt(p, pc, batch, judged(_, _)) ==
    /\ At(p, pc)
    /\ \E b \in Reading :
          LET e == Seen(run[p], b)
          IN  IF Over(e) THEN Become(p, Synthesize(Projected(e), FALSE)) /\ evidence' = evidence
              ELSE \E c \in Reading, o \in ToolOutcomes(batch), d \in EffectReading :
                      LET J(r) == judged(r, o) IN Dispatched(p, e, batch, c, o, d, J)
    /\ UNCHANGED <<scenario, namespace, records, current, started>>

Skip(p, pc, onward) == At(p, pc) /\ Become(p, Goto(run[p], onward)) /\ Locally

\* The hand validator is dispatched with the window it checked.
HandValidation(p) ==
    /\ At(p, "hand")
    /\ \E c \in Reading :
          LET e == Seen(run[p], c)
          IN  IF Over(e) THEN Become(p, Synthesize(Projected(e), FALSE)) /\ evidence' = evidence
              ELSE \E o \in ToolOutcomes(<<"hand_validator">>), d \in EffectReading, v \in BOOLEAN :
                      LET J(r) == HandJudged(r, o, v)
                      IN  Dispatched(p, e, <<"hand_validator">>, "same", o, d, J)
    /\ UNCHANGED <<scenario, namespace, records, current, started>>

\* The two tools that the bounded river run needs before anything else.
HandPotLedger(p) ==
    LET J(r, o) == PrefixJudged(r, o, "pot_odds")
    IN  IF River THEN ToolsAt(p, "prefix", <<"hand_pot_ledger">>, J) ELSE Skip(p, "prefix", "range")
PotOdds(p) ==
    LET J(r, o) == PrefixJudged(r, o, "range") IN ToolsAt(p, "pot_odds", <<"pot_odds">>, J)

\* A versioned range is validated before any combination of it is counted, and also when it
\* is refused for its inputs or by the preflight.
RangeValidation(p) ==
    IF scenario.range \in {"valid", "refused"}
    THEN ToolsAt(p, "range", <<"range_validate">>, RangeJudged)
    ELSE At(p, "range") /\ Become(p, Goto(RangeNoted(run[p]), "requested")) /\ Locally

\* The batch of the requested tools.
RequestedBatch == RequestedIn(scenario)

RequestedTools(p) ==
    LET J(r, o) == RequestedJudged(r, RequestedBatch, o)
    IN  ToolsAt(p, "requested", RequestedBatch, J)

RangeEquity(p) ==
    LET J(r, o) == MustSucceed(r, o, "call_ev")
    IN  IF Ranged THEN ToolsAt(p, "equity", <<"holdem_equity">>, J) ELSE Skip(p, "equity", "call_ev")

CallEv(p) ==
    LET J(r, o) == CallEvJudged(r, o)
    IN  IF River THEN ToolsAt(p, "call_ev", <<"raked_call_ev">>, J)
        ELSE Skip(p, "call_ev", "after_tools")

-----------------------------------------------------------------------------
(***************************************************************************)
(* The analysis by roles, one after the other.                             *)
(***************************************************************************)
Route(p) ==
    /\ At(p, "route")
    /\ LET r == Moved(run[p], "TASK_ROUTING")
           a == Moved(r, "INDEPENDENT_ANALYSIS")
           s == [a EXCEPT !.machine = start_deliberation_round(@)]
       IN  Become(p, CASE scenario.kind = "calculation" -> Goto(Moved(r, "TOOL_AND_RESEARCH"), "prefix")
                       [] scenario.kind # "calculation" /\ s.machine = a.machine -> Stop(Warned(a))
                       [] OTHER -> Goto(s, "window"))
    /\ Locally

AnalysisWindow(p) ==
    /\ At(p, "window")
    /\ \E c \in Reading : Become(p, Windowed(run[p], c, "context"))
    /\ Locally

\* The context of the role; a blind decision that cannot be isolated ends the run.
ContextBuild(p) ==
    /\ At(p, "context")
    /\ \E built \in ContextBuildOutcome, c \in Reading :
          Become(p, IF built = "built" THEN Windowed(run[p], c, "preflight")
                    ELSE Stop(Warned(run[p])))
    /\ Locally

Preflight(p) ==
    /\ At(p, "preflight")
    /\ \E c \in Reading : Become(p, Windowed(run[p], c, "dispatch"))
    /\ Locally

\* The executor refuses the handoff, or starts the provider's worker thread.
Dispatch(p) ==
    /\ At(p, "dispatch")
    /\ \/ \E a \in RefusedHandoff : Become(p, [Goto(run[p], "settle") EXCEPT !.analysis = a])
       \/ Become(p, [Goto(run[p], "join") EXCEPT !.worker = "running", !.alive = @ + 1,
                                                 !.cancel = NotRequested])
    /\ Locally

\* The worker ends by itself whenever it likes, with a report or an exception; once it is
\* asked to, it may notice and confirm the cancellation.
WorkerEnds(p) ==
    /\ run[p].worker = "running"
    /\ \E end \in {"report", "raised"}, noticed \in BOOLEAN :
          /\ noticed => run[p].cancel = "requested" /\ end = "raised"
          /\ Become(p, [run[p] EXCEPT !.worker = end, !.alive = @ - 1,
                                      !.cancel = IF noticed THEN "cancelled" ELSE @])
    /\ Locally

\* The join at the deadline of the effect: what came in time is judged, and read once more
\* against the deadline; a worker that is still alive is asked to cancel.
Joined(w) ==
    CASE w = "report" -> AcceptedReport \cup {TimedOut("requested"),
                                              Analysis("refused", TRUE, FALSE, NotRequested, FALSE)}
      [] w = "raised" -> ProviderRaised \cup {Analysis("refused", TRUE, FALSE, NotRequested, FALSE)}
      [] OTHER -> {}

Join(p) ==
    /\ At(p, "join")
    /\ \/ \E a \in Joined(run[p].worker) : Become(p, [Goto(run[p], "settle") EXCEPT !.analysis = a])
       \/ /\ run[p].worker = "running"
          /\ Become(p, [Goto(run[p], "grace") EXCEPT !.cancel = "requested"])
    /\ Locally

\* After the grace period nothing that the worker returns is taken any more.
Grace(p) ==
    /\ At(p, "grace")
    /\ LET confirmed == run[p].worker # "running" /\ run[p].cancel = "cancelled"
       IN  Become(p, [Goto(run[p], "settle") EXCEPT
                        !.analysis = TimedOut(IF confirmed THEN "cancelled" ELSE "cancel_unconfirmed")])
    /\ Locally

\* What the run makes of the analysis once its use is settled.
AnalysisJudged(r) ==
    LET a == r.analysis
        d == IF ObjectionDisputes(scenario.claim, a) THEN [r EXCEPT !.disputed = TRUE] ELSE r
    IN  CASE a.budget -> Stop(Warned(r))
          [] ~a.budget /\ scenario.admission \in {"confirmed", "bounded_nl"}
                       /\ a.status # "completed" -> Stop(r)
          [] ~a.budget /\ scenario.admission \notin {"confirmed", "bounded_nl"}
                       /\ a.cancel = "cancel_unconfirmed" -> Stop(Warned(r))
          [] ~a.budget /\ scenario.admission \notin {"confirmed", "bounded_nl"}
                       /\ a.cancel # "cancel_unconfirmed" /\ a.timed -> Stop(r)
          [] OTHER -> IF r.role < Len(expected_roles(scenario.kind))
                      THEN [Goto(d, "window") EXCEPT !.role = @ + 1] ELSE Goto(d, "after_analysis")

SettleAnalysis(p) ==
    /\ At(p, "settle")
    /\ (validate_analysis_output(run[p].analysis)) = TRUE
    /\ \E c \in EffectReading :
          LET r == IF run[p].analysis.warned THEN Warned(run[p]) ELSE run[p]
              s == [r EXCEPT !.ledger = apply_at(@, c)]
          IN  Become(p, IF Over(s) THEN Stop(Warned(s)) ELSE AnalysisJudged(s))
    /\ Locally

AfterAnalysis(p) ==
    /\ At(p, "after_analysis")
    /\ \E c \in Reading :
          LET o == Seen(run[p], c)
          IN  Become(p, IF Over(o) THEN Synthesize(Projected(o), FALSE)
                        ELSE Goto(Moved(o, "TOOL_AND_RESEARCH"), "prefix"))
    /\ Locally

-----------------------------------------------------------------------------
(***************************************************************************)
(* Critique, adjudication, and who decides next.                           *)
(***************************************************************************)
AfterTools(p) ==
    /\ At(p, "after_tools")
    /\ \E c \in Reading : Become(p, Enforced(run[p], c, "critique"))
    /\ Locally

Critique(p) ==
    /\ At(p, "critique")
    /\ LET r == Moved(run[p], "CRITIQUE")
       IN  Become(p, Goto(IF CritiqueWarns(r.results) THEN Warned(r) ELSE r, "adjudicate"))
    /\ Locally

Adjudicate(p) ==
    /\ At(p, "adjudicate")
    /\ LET r == Moved(run[p], "ADJUDICATION")
       IN  Become(p, Goto(IF AdjudicationWarns(scenario.claim, r.results) THEN Warned(r) ELSE r, "decide"))
    /\ Locally

\* A pending approval is a checkpoint for a human, never a completed run.
Decide(p) ==
    /\ At(p, "decide")
    /\ Become(p, IF run[p].pending THEN Synthesize(Moved(run[p], "HUMAN_REVIEW_REQUIRED"), FALSE)
                 ELSE Synthesize(Moved(run[p], "FINAL_SYNTHESIS"), TRUE))
    /\ Locally

-----------------------------------------------------------------------------
(***************************************************************************)
(* Synthesis.                                                              *)
(***************************************************************************)
\* A claim counts as verified only by a result that is exact or verified.
Unverified(r) ==
    scenario.claim # None /\ ~(scenario.verified /\ Adjudicated(scenario.claim, r.results))
Reported(r) == [r EXCEPT !.report = Report(r.machine, r.results, scenario.verified, r.warned,
                                            Unverified(r), r.disputed)]

\* A confirmed run must have the publication reserve left before it may complete.
ReserveTime(p) ==
    /\ At(p, "reserve_time")
    /\ LET r == run[p]
       IN  IF r.completed /\ Strict
           THEN \E c \in Reading :
                   LET o == Seen(r, c)
                       m == IF Over(o) THEN Projected(o) ELSE Warned(Moved(o, Failed))
                   IN  Become(p, IF Over(o) \/ remaining(o.ledger) < 1
                                 THEN [Goto(m, "synthesize") EXCEPT !.completed = FALSE]
                                 ELSE Goto(o, "synthesize"))
           ELSE Become(p, Goto(r, "synthesize"))
    /\ Locally

\* The report, then the clock; when the clock refuses, the report is made again.
SynthesisStep(p) ==
    /\ At(p, "synthesize")
    /\ \E c \in Reading :
          LET o == Seen(Reported(run[p]), c)
          IN  Become(p, IF Over(o)
                        THEN [Goto(Reported(Projected(o)), "complete") EXCEPT !.completed = FALSE]
                        ELSE Goto(o, "complete"))
    /\ Locally

\* The machine completes; the snapshot that is written observes the clock by itself.
Complete(p) ==
    /\ At(p, "complete")
    /\ \E c \in Reading :
          LET r == IF run[p].completed /\ ~terminal(run[p].machine)
                   THEN Moved(run[p], "COMPLETED") ELSE run[p]
              o == Seen(r, c)
          IN  Become(p, [Goto(o, "artifacts") EXCEPT !.buffered.state = r.machine.state])
    /\ Locally

\* The report is written and the clock read again: a late failure rewrites state and report.
WriteArtifacts(p) ==
    /\ At(p, "artifacts")
    /\ \E c \in Reading :
          LET o == Seen(run[p], c)
              f == Reported(Projected(o))
          IN  Become(p, IF Over(o)
                        THEN [Goto(f, "provenance") EXCEPT !.completed = FALSE,
                                !.buffered.state = f.machine.state, !.buffered.report = f.report]
                        ELSE [Goto(o, "provenance") EXCEPT !.buffered.report = o.report])
    /\ Locally

\* Every result has the authority of this very run, and succeeded.
Authoritative(r) == DOMAIN r.results = r.authority

\* The provenance of a confirmed run: nothing completes without the authority of its tools.
Provenance(p) ==
    /\ At(p, "provenance")
    /\ LET r == run[p]
       IN  Become(p, CASE scenario.admission = "confirmed" /\ r.report.status = "completed"
                             /\ ~Authoritative(r) -> Raised(r, "PhaseContractError")
                       [] River /\ r.report.status = "completed"
                             /\ "raked_call_ev" \notin DOMAIN r.results -> Raised(r, "REPLAY")
                       [] OTHER -> Goto(r, "replay"))
    /\ Locally

\* _prepublication_tool_results_replayable: every result has authority or is verified again.
Replayable(r) ==
    IF scenario.admission = "confirmed" THEN Authoritative(r)
    ELSE \A t \in DOMAIN r.results :
            \/ t \in r.authority
            \/ reverify_materialized_result(r.results[t], River /\ r.buffered.evidence)

EvidenceAgrees(r) == ~River \/ (r.buffered.evidence = (evidence # {}))

ToolReplay(p) ==
    /\ At(p, "replay")
    /\ LET r == run[p]
       IN  Become(p, CASE ~EvidenceAgrees(r) -> Raised(r, "CanonicalStorageError")
                       [] EvidenceAgrees(r) /\ ~Replayable(r) ->
                             Answered(r, "report", Refused(r.report))
                       [] OTHER -> Goto(r, "guard"))
    /\ Locally

-----------------------------------------------------------------------------
(***************************************************************************)
(* Publication.                                                            *)
(***************************************************************************)
\* publication_runtime_guard at the stages before the pointer: tool_replay, payload_commitments,
\* budget_freeze and the store's own.  A refusal makes a failed report that is not published.
Guarded(r, c, onward) ==
    LET o == Seen(r, c)
        f == Projected(o)
    IN  IF Over(o) THEN Answered(f, "report", Refused(f.report)) ELSE Goto(o, onward)

PublicationGuard(p) ==
    /\ At(p, "guard")
    /\ \E c \in Reading : Become(p, Guarded(run[p], c, "freeze"))
    /\ Locally

\* _publish_buffer up to the store: the commitments are refused (an error of the artifacts
\* that leaves nothing behind), the budget binding cannot be frozen, the current revision is
\* no longer the planned one, or the request is ready.
Freeze(p) ==
    /\ At(p, "freeze")
    /\ LET r == run[p]
       IN  \/ \E c \in Reading : Become(p, Guarded(r, c, "store"))
           \/ Become(p, Answered(r, "report", NotPersisted(r.report)))
           \/ Become(p, IF Strict THEN Raised(r, "BUDGET_SETTLEMENT_FAILED")
                        ELSE Answered(r, "report", NotPersisted(r.report)))
           \/ Become(p, Raised(r, "ProductRunError"))
    /\ Locally

Product(r) ==
    [status |-> IF r.buffered.report.status = "completed" THEN "succeeded"
                ELSE IF r.buffered.report.status = "approval_required" THEN "approval_required"
                ELSE "failed",
     state |-> r.buffered.state, report |-> r.buffered.report, pending |-> r.pending,
     failure |-> r.ledger.failure, authority |-> r.authority]

\* The last guard pauses the clock; then the pointer is replaced, and the store may still
\* report an error, whether or not the pointer took effect.
Publish(p) ==
    /\ At(p, "store")
    /\ \E c \in Reading :
          LET r == [run[p] EXCEPT !.ledger = pause(@, c)]
              f == Projected(r)
          IN  \/ /\ Over(r)
                 /\ Become(p, Answered(f, "report", Refused(f.report)))
                 /\ UNCHANGED current
              \/ /\ ~Over(r)
                 /\ current' = Product(r)
                 /\ Become(p, Goto(r, "confirm"))
              \/ /\ ~Over(r)
                 /\ current' \in {current, Product(r)}
                 /\ Become(p, Raised(r, "ProductRunError"))
    /\ UNCHANGED <<scenario, namespace, records, evidence, started>>

\* The clock is read once more although it is paused: only a fault can refuse, and it is an
\* error although the product is there.
Confirm(p) ==
    /\ At(p, "confirm")
    /\ \E c \in Reading :
          LET o == Seen(run[p], c)
          IN  Become(p, IF Over(o) THEN Raised(Projected(o), "INTERNAL_INVARIANT_ERROR")
                        ELSE IF current.status # Product(o).status
                             THEN Raised(o, "INTERNAL_INVARIANT_ERROR")
                             ELSE Answered(o, "report", o.report))
    /\ Locally

\* Any write into the buffer may go over the storage budget of the run.
WritingSteps == {"admit", "intake", "normalize", "validate", "hand", "window", "context", "settle",
                 "prefix", "pot_odds", "range", "requested", "equity", "call_ev", "complete",
                 "artifacts", "provenance"}

WriteRefused(p) ==
    /\ run[p].pc \in WritingSteps
    /\ Become(p, BudgetRaised(run[p]))
    /\ Locally

\* The process dies; what is durable stays.
Crash(p) ==
    /\ run[p].pc \notin {"idle", "answered", "dead"}
    /\ Become(p, [Idle EXCEPT !.pc = "dead"])
    /\ Locally

Step(p) ==
    \/ Reserve(p) \/ ReserveRefused(p) \/ PrepareReplay(p) \/ PreparationRefused(p) \/ Admit(p) \/ Intake(p)
    \/ Normalize(p) \/ Validate(p) \/ HandValidation(p) \/ Route(p) \/ AnalysisWindow(p)
    \/ ContextBuild(p) \/ Preflight(p) \/ Dispatch(p) \/ Join(p) \/ Grace(p)
    \/ SettleAnalysis(p) \/ AfterAnalysis(p) \/ HandPotLedger(p) \/ PotOdds(p)
    \/ RangeValidation(p) \/ RequestedTools(p) \/ RangeEquity(p) \/ CallEv(p)
    \/ AfterTools(p) \/ Critique(p) \/ Adjudicate(p) \/ Decide(p) \/ ReserveTime(p)
    \/ SynthesisStep(p) \/ Complete(p) \/ WriteArtifacts(p) \/ Provenance(p) \/ ToolReplay(p)
    \/ PublicationGuard(p) \/ Freeze(p) \/ Publish(p) \/ Confirm(p)

Done == \A p \in Procs : run[p].pc \in {"answered", "dead"} /\ run[p].worker # "running"

Next ==
    \/ \E p \in Procs : Step(p) \/ LoadReport(p) \/ WorkerEnds(p) \/ WriteRefused(p) \/ Crash(p)
    \/ Done /\ UNCHANGED vars

Spec == Init /\ [][Next]_vars

-----------------------------------------------------------------------------
(***************************************************************************)
(* Properties.                                                             *)
(***************************************************************************)
TypeOK ==
    /\ scenario \in Scenarios
    /\ \A p \in Procs : run[p].machine.state \in RunState /\ run[p].ledger.used \in 0 .. RuntimeLimit + 1
    /\ current.status \in {None, "succeeded", "failed", "approval_required"}

\* The handler of run appends its event whatever the table says, once, as the last one.
HandlerEvent(r, i) ==
    i = Len(r.machine.events) /\ r.answer.report = FailedReport /\ ~Strict

\* The events of a run are a path from INTAKE to its state, along the table of transitions,
\* and no transition is ever refused: a budget failure that is seen late, or twice, or after
\* the run completed, leaves no event that the table does not allow (state_machine.py:188).
EventsFollowTheTable ==
    \A p \in Procs :
        LET r == run[p]
            e == r.machine.events
        IN  /\ ~r.machine.illegal
            /\ r.machine.state = IF e = <<>> THEN "INTAKE" ELSE e[Len(e)].target
            /\ \A i \in 1 .. Len(e) :
                  /\ e[i].source = IF i = 1 THEN "INTAKE" ELSE e[i - 1].target
                  /\ e[i].target \in ALLOWED_TRANSITIONS[e[i].source] \/ HandlerEvent(r, i)

\* A published product is one thing: its status, the state.json and the report in it agree; it
\* succeeded only if the clock had not failed, no approval was pending, the use was not
\* prohibited, and every tool of it can be vouched for (orchestrator.py:4426, 1201).
ProductIsCoherent ==
    /\ current.status = "succeeded" => /\ current.state = "COMPLETED"
                                       /\ current.report.status = "completed"
                                       /\ current.failure = None
                                       /\ ~current.pending
                                       /\ ~scenario.blocked
    /\ current.status = "approval_required" => current.state = "HUMAN_REVIEW_REQUIRED"
    /\ current.status = "failed" => current.state = Failed /\ current.report.status = "failed"
    /\ \A t \in DOMAIN current.report.results :
          \/ t \in current.authority
          \/ current.report.results[t] \in {"success", "bound"} /\ scenario.admission # "confirmed"
          \/ River /\ t \in evidence

\* A report that is answered is the product's: a completed one is published as succeeded, a
\* failed one never stands beside a success, and a replay or a load gives what was published
\* (orchestrator.py:4722-4794, 2216, 4897).
AnswersAreTrue ==
    \A p \in Procs :
        LET a == run[p].answer
        IN  /\ a.kind = "report" /\ a.report.status # "failed" => current.report = a.report
            /\ a.kind = "report" /\ a.report.status = "failed" => current.status # "succeeded"
            /\ a.kind = "replay" => current.report = a.report

\* Grade A is earned: the run completed, every tool of the report succeeded and its result
\* was verified, nothing was found wanting on the way (phases/services.py:734); a report whose
\* persistence failed keeps its grade and is the one exception.
GradeIsEarned ==
    current.report.grade = "A" =>
        /\ current.status = "succeeded"
        /\ scenario.verified
        /\ \A t \in DOMAIN current.report.results : current.report.results[t] = "success"
        /\ scenario.claim # "unchecked"

\* One run identifier is worked on once: no second process passes the reservation, whatever
\* became of the first (orchestrator.py:1054).
RunsOnce == Cardinality(started) <= 1

\* Providers are called one at a time: a worker that outlived its deadline is never joined by
\* another one of the same run (phases/executors.py:102, orchestrator.py:3390).
ProvidersAreSerial == \A p \in Procs : run[p].alive <= 1

\* A failure is final: a machine that failed never leaves the failure, and a ledger that
\* latched a failure never forgets it (budgets/ledger.py:67).
FailureIsFinal ==
    [][\A p \in Procs : run'[p].pc # "dead" =>
          /\ run[p].machine.state = Failed => run'[p].machine.state = Failed
          /\ observation_failed(run[p].ledger) => run'[p].ledger.failure = run[p].ledger.failure]_vars
=============================================================================

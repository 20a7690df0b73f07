----------------------------- MODULE MCWorkflow -----------------------------
(***************************************************************************)
(* The cases that take every path of a run: plain hands, calculations and  *)
(* strategies; every kind of range; the four admissions; a prohibited use; pending and mixed    *)
(* approvals; a runtime that is not the exact one; a taken identifier.     *)
(* The coordinated publication of PhaseRevision is a flow of its own.      *)
(***************************************************************************)
EXTENDS Workflow, PhaseRevision

ASSUME LimitAssumption == RuntimeLimit \in Nat /\ RoundLimit \in Nat

VARIABLE flow    \* which of the two this behaviour is about; it never changes

Plain == [kind |-> "hand", hand |-> TRUE, admission |-> None, approvals |-> None,
          blocked |-> FALSE, claim |-> None, warned |-> FALSE, tools |-> <<"plain">>,
          exact |-> TRUE, namespace |-> None,
          range |-> None, verified |-> TRUE]

Counted(range) == [Plain EXCEPT !.kind = "calculation", !.tools = <<"combos">>, !.range = range]

MCScenarios ==
    {Plain,
     [Plain EXCEPT !.approvals = "pending", !.exact = FALSE, !.tools = <<>>],
     [Plain EXCEPT !.approvals = "mixed", !.hand = FALSE],
     [Plain EXCEPT !.blocked = TRUE, !.warned = TRUE],
     [Plain EXCEPT !.kind = "strategy", !.hand = FALSE, !.claim = "checked"],
     [Plain EXCEPT !.kind = "strategy", !.hand = FALSE, !.claim = "unchecked", !.exact = FALSE],
     [Plain EXCEPT !.hand = FALSE, !.tools = <<>>],
     [Plain EXCEPT !.kind = "calculation", !.tools = <<"plain", "combos">>, !.claim = "checked",
                   !.range = "valid", !.verified = FALSE],
     Counted(None), Counted("several"), Counted("refused"),
     [Plain EXCEPT !.namespace = "legacy"],
     [Plain EXCEPT !.admission = "range_equity", !.kind = "calculation",
                   !.range = "valid", !.tools = <<"combos", "holdem_equity">>],
     [Plain EXCEPT !.admission = "confirmed"],
     [Plain EXCEPT !.admission = "confirmed", !.exact = FALSE, !.namespace = "legacy"],
     [Plain EXCEPT !.admission = "bounded_nl"],
     [Plain EXCEPT !.admission = "bounded_river", !.range = "valid",
                   !.tools = <<"combos", "holdem_equity", "raked_call_ev">>]}

MCInit == /\ flow \in {"run", "revision"}
          /\ Init
          /\ flow = "revision" => scenario = Plain
          /\ RevisionInit

MCNext == \/ flow = "run" /\ Next /\ UNCHANGED <<flow, revisionVars>>
          \/ flow = "revision" /\ RevisionNext /\ UNCHANGED <<flow, vars>>

MCSpec == MCInit /\ [][MCNext]_<<flow, vars, revisionVars>>

-----------------------------------------------------------------------------
\* A run takes its course once and in order: its events are a path of the table
\* of transitions, however late or often a budget failure is seen, no second
\* process works on it, and no two of its providers overlap (Workflow's
\* EventsFollowTheTable, RunsOnce and ProvidersAreSerial).
RunIsOrderly == EventsFollowTheTable /\ RunsOnce /\ ProvidersAreSerial

\* What is published and answered of a run is true: the product agrees with
\* itself and with every answer, and grade A was earned (Workflow's
\* ProductIsCoherent, AnswersAreTrue and GradeIsEarned).
ProductIsTrue == ProductIsCoherent /\ AnswersAreTrue /\ GradeIsEarned
=============================================================================

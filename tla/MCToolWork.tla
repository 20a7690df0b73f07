---------------------------- MODULE MCToolWork ----------------------------
(***************************************************************************)
(* The tools of a run: the bounded executor that runs them as tasks        *)
(* (BoundedExecution), and what one of them computes, the hand and pot     *)
(* ledger (HandPotLedger).  A behaviour is about one of the two.           *)
(***************************************************************************)
EXTENDS BoundedExecution, TLC

CONSTANTS SmallBlind, BigBlind, Grain, MaxUnits, MAX_ACTIONS, Sizes    \* of HandPotLedger

ASSUME LedgerAssumption ==
    /\ 0 < SmallBlind /\ SmallBlind < BigBlind
    /\ Grain \in Nat \ {0} /\ MaxUnits \in Nat /\ MAX_ACTIONS \in Nat

VARIABLES
    flow,       \* which of the two; it never changes
    hand, posts, builder, oracle, answer

ledgerVars == <<hand, posts, builder, oracle, answer>>

-----------------------------------------------------------------------------
(* Small instances of the bounded executor: two callers, two tasks.         *)

Result(status, category, evidence, cancelEvidence, idempotency, reconciled) ==
    [status |-> status, category |-> category, evidence |-> evidence,
     cancelEvidence |-> cancelEvidence, idempotency |-> idempotency, reconciled |-> reconciled]

\* Everything the checks of execute tell apart.
MCOutcome ==
    {r \in {Result("succeeded", Null, "effect", Null, "idempotent", FALSE),
            Result("failed", "tool_transient", "effect", Null, "idempotent", FALSE),
            Result("failed", "tool_transient", Null, Null, "reconcilable", FALSE),
            Result("failed", "tool_transient", Null, Null, "reconcilable", TRUE),
            Result("failed", "policy", Null, Null, "idempotent", FALSE),
            Result("cancelled", Null, Null, "ack", "idempotent", FALSE)} : ValidResult(r)}
    \cup {RaisedResult}

\* What the caller's factory can return: the successor that
\* build_durable_retry_lineage builds, or one built by hand with the old
\* context or with a credential in it, or the old one itself.
EnvelopeOf(t, k) ==
    Ctx!Build(Payload(FALSE), Assignment(t), "run", 0, 2, "internal", <<t, k>>, <<t, k>>,
              IF k = 0 THEN Null ELSE <<t, k - 1>>, IF k = 0 THEN Null ELSE Payload(FALSE))
MCOffer ==
    [p \in Permit |->
       LET t == p[1]
           k == p[2]
           old == EnvelopeOf(t, k - 1)
       IN  IF k = 0 THEN {}
           ELSE {build_durable_retry_lineage(old, t, k, Payload(s), 1, x) :
                   s \in BOOLEAN, x \in {2, 3}}
                \cup {Ctx!Build(Payload(FALSE), Assignment(t), "run", 0, 2, "internal", id,
                                <<t, k>>, <<t, k - 1>>, Payload(FALSE)) :
                        id \in {<<t, k - 1>>, <<t, k>>}}
                \cup {old}]

MCPermit == Task \X (0..MaxRetries)

\* The requests that execute can make.
MCRequest ==
    UNION {{ReserveOf(t, k), StartOf(t, k)} \cup
           {SettleOf(t, k, r, n) : r \in MCOutcome \cup {Doubtful(x) : x \in MCOutcome}, n \in 1..2}
             : t \in Task, k \in 0..MaxRetries}
    \cup UNION {{ReleaseOf(t), CancelOf(t),
                RecordOf(t, "cancel-unconfirmed", "unconfirmed", "unconfirmed", TRUE),
                RecordOf(t, "cancel-acknowledged", "acknowledged", "ack", FALSE),
                RecordOf(t, "cancel-completed", "cancelled", "ack", FALSE)} \cup
               {RecordOf(t, "cancel-effect-unknown", "effect_unknown", DoubtEvidence(r), FALSE) :
                  r \in MCOutcome} : t \in Task}

Limits(bytes, retries) == [r \in Resource |-> IF r = "retry_attempts" THEN retries ELSE bytes]
Case(tasks, calls, workers, slots, bytes, runtime, time, retries, cancels, faults, crashes) ==
    [tasks |-> tasks, calls |-> calls, workers |-> workers, retries |-> retries,
     policy |-> [limit |-> Limits(bytes, retries), runtime |-> runtime, slots |-> slots],
     time |-> time, cancels |-> cancels, faults |-> faults, crashes |-> crashes,
     factory |-> TRUE, isolated |-> FALSE]
MCSetup ==
    {Case(2, 2, 2, 2, 2, 9, 0, 0, 0, 1, 1),   \* two processes, a crash, a storage failure
     Case(1, 2, 1, 1, 3, 9, 0, 2, 0, 1, 1),   \* retries, raced by a second process
     Case(2, 1, 2, 2, 3, 9, 0, 1, 1, 0, 0),   \* cancellation of two that run
     Case(2, 1, 1, 2, 3, 9, 0, 1, 1, 1, 0),   \* cancellation of one that runs and one queued
     Case(2, 2, 2, 2, 1, 9, 0, 0, 0, 1, 0),   \* no budget for the second task
     Case(1, 2, 1, 1, 2, 1, 2, 1, 0, 0, 0),   \* the runtime is exceeded
     [Case(1, 1, 1, 1, 1, 9, 0, 1, 0, 0, 0) EXCEPT !.factory = FALSE],
     [Case(1, 1, 1, 1, 1, 9, 0, 0, 0, 0, 0) EXCEPT !.isolated = TRUE]}

Callers == Permutations(Caller)

-----------------------------------------------------------------------------
(* Three players: a short stack that is all-in early, a middle one and a    *)
(* deep one whose bets are not always called; a player without chips; an    *)
(* ante that takes a whole stack; stacks at the limit of the units.         *)

Stacks(a, b, c) == ("a" :> a) @@ ("b" :> b) @@ ("c" :> c)

MCPlayers == {"a", "b", "c"}

\* Player b posts the small blind, b or c the big one.
H(stacks, ante, board, slip, orderly) ==
    [starting |-> stacks, ante |-> ante, board |-> board, slip |-> slip, orderly |-> orderly,
     posters |-> (SmallBlind :> {"b"}) @@ (BigBlind :> {"c", "b"})]

Slips == {"to", "before", "after", "undeclared", "fraction"}

MCHands ==
    {H(Stacks(3, 4, 6), 0, 3, "none", TRUE), H(Stacks(0, 3, 5), 0, 0, "none", TRUE),
     H(Stacks(1, 4, 5), 1, 3, "none", TRUE), H(Stacks(0, 2, 4), 0, 0, "none", FALSE),
     H(Stacks(0, 0, 0), 0, 0, "none", TRUE), H(Stacks(9, 9, 9), 0, 0, "none", TRUE)}
    \cup {H(Stacks(0, 2, 4), 0, 0, slip, TRUE): slip \in Slips}

Ledger == INSTANCE HandPotLedger WITH Players <- MCPlayers, Hands <- MCHands

-----------------------------------------------------------------------------

MCInit ==
    /\ flow \in {"execution", "ledger"}
    /\ Init /\ Ledger!Init
    /\ IF flow = "execution" THEN hand = CHOOSE h \in MCHands : TRUE ELSE env.isolated

MCNext ==
    \/ flow = "execution" /\ Next /\ UNCHANGED <<flow, ledgerVars>>
    \/ flow = "ledger" /\ Ledger!Next /\ UNCHANGED <<flow, vars>>

MCSpec == MCInit /\ [][MCNext]_<<flow, vars, ledgerVars>>

-----------------------------------------------------------------------------
\* Effects are never doubled: an attempt is entered once, and a retry only
\* after a failure that may be repeated, on a context of its own
\* (BoundedExecution's AttemptsRunOnce and RetriesAreSafe).
EffectsAreNotDoubled == AttemptsRunOnce /\ RetriesAreSafe

\* The ledger of an accepted hand gives every player the pots the rules give,
\* never contradicts itself or its oracle, and leaves nobody short of a bet
\* with chips behind (HandPotLedger's PotsAreRight, EveryoneMatchedOrAllIn).
PotsAreRight == Ledger!PotsAreRight /\ Ledger!EveryoneMatchedOrAllIn
=============================================================================

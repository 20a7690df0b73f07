--------------------------- MODULE HandPotLedger ---------------------------
(***************************************************************************)
(* The hand and pot ledger (tools/hand_pot_ledger.py): the betting actions *)
(* of one no-limit hand are replayed into integer contributions, uncalled  *)
(* returns and pot layers, and the result is compared with an oracle that  *)
(* replays the same actions on its own.                                    *)
(*                                                                         *)
(* The list of actions is given to the code at once.  Here it is revealed  *)
(* one action at a time: every prefix of a hand is a state, every list of  *)
(* actions a behaviour.  The checks of the whole list (the forced posts,   *)
(* the number of actions) are made on the action that no continuation can  *)
(* repair, and for what is missing when the list ends.  No order of the    *)
(* players is assumed, because the code assumes none.                      *)
(***************************************************************************)
EXTENDS Integers, Sequences, FiniteSets, FiniteSetsExt, SequencesExt

CONSTANTS
    Players,        \* the listed players
    Hands,          \* the hands: starting stacks, ante, number of board cards
    SmallBlind, BigBlind,
    Grain,          \* parts of a chip unit an amount may be given in
    MaxUnits,       \* MAX_LEDGER_UNITS
    MAX_ACTIONS,
    Sizes           \* the sizes of bets and raises that are tried, in units

VARIABLES
    hand,           \* the hand given to calculate_hand_pot_ledger
    posts,          \* its forced posts so far: blinds, antes
    builder,        \* _LedgerBuilder
    oracle,         \* the accumulators of _oracle_expected
    answer          \* what the calculation returns or refuses with

vars == <<hand, posts, builder, oracle, answer>>

Absent == -1
Ok == "ok"
NoAnswer == [code |-> "running"]

-----------------------------------------------------------------------------
(* Amounts *)

\* A decimal amount is given in parts of the chip unit.  The code of its
\* conversion, and the units it is worth.
AmountCode(value) ==
    CASE value > Grain * MaxUnits -> "ledger-unit-limit-exceeded"
      [] value <= Grain * MaxUnits /\ value % Grain # 0 -> "amount-not-integral-in-chip-unit"
      [] OTHER -> Ok

Units(value) == value \div Grain

\* _checked_add: a sum past the limit is a refusal.
Overflows(left, right) == left > MaxUnits - right

Total(f) == MapThenSumSet(LAMBDA p: f[p], DOMAIN f)

\* The first refusal among an ordered list of <<condition, code>>.
FirstRefusal(checks) ==
    LET failed == {i \in DOMAIN checks: ~checks[i][1]}
    IN  IF failed = {} THEN Ok ELSE checks[Min(failed)][2]

-----------------------------------------------------------------------------
(* The forced posts of the profile *)

\* A post after which no continuation of the hand has the supported blinds
\* and antes: _validate_profile_hand reads the whole list before any replay.
PostCode(a) ==
    LET u == Units(a.amount)
    IN  IF a.action = "post_blind" THEN
            FirstRefusal(<<
                <<AmountCode(a.amount) = Ok, AmountCode(a.amount)>>,
                <<Cardinality(posts.blinds) < 2 /\ u \in {SmallBlind, BigBlind}
                  /\ (\A x \in posts.blinds: x.actor # a.actor /\ x.amount # u)
                  /\ a.street = 0, "unsupported-blind-or-straddle-structure">>>>)
        ELSE IF a.action = "post_ante" THEN
            FirstRefusal(<<
                <<hand.ante > 0, "unexpected-ante-post">>,
                <<AmountCode(a.amount) = Ok, AmountCode(a.amount)>>,
                <<a.actor \notin posts.antes /\ a.street = 0 /\ u = hand.ante,
                  "unsupported-ante-structure">>>>)
        ELSE Ok

\* What is still missing when the list of actions ends.
MissingPostCode ==
    FirstRefusal(<<
        <<Cardinality(posts.blinds) = 2, "unsupported-blind-or-straddle-structure">>,
        <<hand.ante = 0 \/ posts.antes = Players, "unsupported-ante-structure">>>>)

Posted(a) ==
    CASE a.action = "post_blind" ->
            [posts EXCEPT !.blinds = @ \cup {[actor |-> a.actor, amount |-> Units(a.amount)]}]
      [] a.action = "post_ante" -> [posts EXCEPT !.antes = @ \cup {a.actor}]
      [] OTHER -> posts

-----------------------------------------------------------------------------
(* _LedgerBuilder *)

Zero == [p \in Players |-> 0]
NoIntervals == [p \in Players |-> <<>>]

NewBuilder(h) ==
    [street |-> Absent, remaining |-> h.starting, gross |-> Zero, net |-> Zero,
     active |-> Players, all_in |-> {}, folded_at |-> [p \in Players |-> Absent],
     contribution |-> Zero, current_bet |-> 0, minimum_full_raise |-> BigBlind,
     \* acted_level: Absent before the first voluntary action of the street,
     \* which is also what acted_this_street says.
     acted_level |-> [p \in Players |-> Absent],
     voluntary |-> FALSE, intervals |-> NoIntervals, street_intervals |-> NoIntervals,
     count |-> 0, returns |-> <<>>,
     gross_total |-> 0, net_total |-> 0, returned_total |-> 0]

Acted(b) == {p \in Players: b.acted_level[p] # Absent}

\* Streets are 0 (preflop) to 3 (river).
street_supported_by_board(street, cards) ==
    street = 0 \/ (street \in 1..3 /\ cards >= street + 2)

\* The player whose last chips of the street nobody matched, if there is one.
Highest(contribution) == Max({contribution[p]: p \in Players})
Leaders(contribution) ==
    {p \in Players: contribution[p] = Highest(contribution) /\ contribution[p] > 0}
SecondTo(p, contribution) == Max({contribution[q]: q \in Players \ {p}})

\* Why a street cannot be closed.
CloseCode(b) ==
    LET waiting == b.active \ b.all_in
        leaders == Leaders(b.contribution)
        leader == CHOOSE p \in leaders: TRUE
    IN  FirstRefusal(<<
            <<Cardinality(b.active) > 1 => waiting \subseteq Acted(b),
              "incomplete-betting-round-missing-action">>,
            <<Cardinality(b.active) > 1
              => \A p \in waiting: b.contribution[p] = b.current_bet,
              "incomplete-betting-round-outstanding-call">>,
            <<Cardinality(leaders) = 1 => leader \in b.active, "ambiguous-uncalled-return">>,
            <<Cardinality(leaders) = 1
              => \E k \in DOMAIN b.street_intervals[leader]:
                    /\ b.street_intervals[leader][k][2] < Highest(b.contribution)
                    /\ b.street_intervals[leader][k][3] > SecondTo(leader, b.contribution),
              "ambiguous-uncalled-return">>>>)

\* mutant: the uncalled chips are given back and stay in the pot.
Mut_close_street(b) ==
    LET leaders == Leaders(b.contribution)
        leader == CHOOSE p \in leaders: TRUE
        amount == Highest(b.contribution) - SecondTo(leader, b.contribution)
    IN  IF Cardinality(leaders) # 1 THEN b
        ELSE [b EXCEPT !.contribution[leader] = @ - amount,
                       !.remaining[leader] = @ + amount,
                       !.returned_total = @ + amount]

\* The uncalled part of the last bet goes back to its player.
close_street(b) ==
    LET leaders == Leaders(b.contribution)
        leader == CHOOSE p \in leaders: TRUE
        second == SecondTo(leader, b.contribution)
        amount == Highest(b.contribution) - second
        source == {k \in DOMAIN b.street_intervals[leader]:
                        b.street_intervals[leader][k][3] > second}
    IN  IF Cardinality(leaders) # 1 THEN b
        ELSE [b EXCEPT
                !.contribution[leader] = @ - amount,
                !.net[leader] = @ - amount,
                !.net_total = @ - amount,
                !.remaining[leader] = @ + amount,
                !.returned_total = @ + amount,
                !.all_in = @ \ {leader},
                !.returns = Append(@, [street |-> b.street, player |-> leader, amount |-> amount,
                                       source |-> {b.street_intervals[leader][k][1]: k \in source}])]

StartCode(b, street) ==
    IF ~(street > b.street) THEN "street-order-invalid"
    ELSE IF ~street_supported_by_board(street, hand.board) THEN "street-board-mismatch"
    ELSE IF b.street = Absent THEN Ok
    ELSE LET close == CloseCode(b)
         IN  IF close # Ok THEN close
             ELSE IF ~(Cardinality(b.active) > 1) THEN "action-after-hand-ended" ELSE Ok

start_street(b, street) ==
    LET closed == IF b.street = Absent THEN b ELSE close_street(b)
    IN  [closed EXCEPT
            !.street = street, !.contribution = Zero, !.current_bet = 0,
            !.minimum_full_raise = BigBlind, !.acted_level = [p \in Players |-> Absent],
            !.street_intervals = NoIntervals]

raise_rights(b, p) ==
    \/ b.acted_level[p] = Absent
    \/ b.current_bet - b.acted_level[p] >= b.minimum_full_raise

CommitCode(b, p, amount) ==
    FirstRefusal(<<
        <<amount <= b.remaining[p], "stack-underflow">>,
        <<~Overflows(b.gross[p], amount) /\ ~Overflows(b.gross_total, amount), "ledger-overflow">>>>)

commit(b, p, amount, counts_for_bet) ==
    LET noted == [b EXCEPT !.intervals[p] =
                    IF amount = 0 THEN @
                    ELSE Append(@, <<b.count, b.gross[p], b.gross[p] + amount>>)]
        betted == IF ~counts_for_bet THEN noted
                  ELSE [noted EXCEPT
                            !.contribution[p] = @ + amount,
                            !.street_intervals[p] =
                                IF amount = 0 THEN @
                                ELSE Append(@, <<b.count, b.contribution[p],
                                                 b.contribution[p] + amount>>)]
    IN  [betted EXCEPT
            !.gross[p] = @ + amount, !.net[p] = @ + amount, !.remaining[p] = @ - amount,
            !.gross_total = @ + amount, !.net_total = @ + amount,
            !.all_in = IF b.remaining[p] = amount THEN @ \cup {p} ELSE @]

\* A total that the hand declares: absent, or the amount it must be.
DeclaredIs(declared, units) ==
    declared = Absent \/ (AmountCode(declared) = Ok /\ Units(declared) = units)

\* The voluntary actions move the bet and record the level the player faced.
Faced(b, p) == [b EXCEPT !.acted_level[p] = b.current_bet]
OpenTo(b, to, increment) == [b EXCEPT !.current_bet = to, !.minimum_full_raise = increment]

KindCode(b, a) ==
    LET p == a.actor
        u == Units(a.amount)
        outstanding == b.current_bet - b.contribution[p]
        to == b.contribution[p] + u
        ToIs(required) == <<(required => a.to_amount # Absent) /\ DeclaredIs(a.to_amount, to),
                            "to-amount-mismatch">>
    IN  CASE a.action \in {"post_blind", "post_ante"} -> FirstRefusal(<<
                <<b.street = 0 /\ ~b.voluntary, "forced-post-order-invalid">>,
                <<a.to_amount = Absent, "forced-post-to-amount-unsupported">>,
                <<u > 0, "forced-post-must-be-positive">>>>)
          [] a.action = "check" -> FirstRefusal(<<
                <<u = 0 /\ a.to_amount = Absent, "check-shape-invalid">>,
                <<outstanding = 0, "check-facing-bet">>>>)
          [] a.action = "fold" -> FirstRefusal(<<
                <<u = 0 /\ a.to_amount = Absent, "fold-shape-invalid">>,
                <<outstanding > 0, "fold-without-outstanding-bet">>>>)
          [] a.action = "call" -> FirstRefusal(<<
                <<outstanding > 0 /\ u = Min({outstanding, b.remaining[p]}), "call-amount-invalid">>,
                ToIs(FALSE)>>)
          [] a.action = "bet" -> FirstRefusal(<<
                <<b.current_bet = 0, "bet-when-bet-open">>,
                <<u >= BigBlind, "opening-bet-below-minimum">>,
                <<u < b.remaining[p], "bet-must-use-all-in-action">>,
                ToIs(TRUE)>>)
          [] a.action = "raise" -> FirstRefusal(<<
                <<b.current_bet > 0, "raise-without-open-bet">>,
                <<raise_rights(b, p), "betting-not-reopened">>,
                <<u < b.remaining[p], "raise-must-use-all-in-action">>,
                ToIs(TRUE),
                <<to - b.current_bet >= b.minimum_full_raise, "raise-below-full-minimum">>>>)
          [] a.action = "all_in" -> FirstRefusal(<<
                <<u > 0 /\ u = b.remaining[p], "all-in-amount-invalid">>,
                ToIs(FALSE),
                <<to > b.current_bet => raise_rights(b, p), "betting-not-reopened">>>>)

Played(b, a) ==
    LET p == a.actor
        u == Units(a.amount)
        to == b.contribution[p] + u
        increment == to - b.current_bet
    IN  CASE a.action = "post_ante" -> commit(b, p, u, FALSE)
          [] a.action = "post_blind" ->
                LET c == commit(b, p, u, TRUE)
                IN  [c EXCEPT !.current_bet = Max({@, c.contribution[p]})]
          [] a.action = "check" -> Faced(b, p)
          [] a.action = "fold" ->
                Faced([b EXCEPT !.active = @ \ {p}, !.folded_at[p] = b.count], p)
          [] a.action = "call" -> Faced(commit(b, p, u, TRUE), p)
          [] a.action = "bet" -> Faced(OpenTo(commit(b, p, u, TRUE), to, to), p)
          [] a.action = "raise" -> Faced(OpenTo(commit(b, p, u, TRUE), to, increment), p)
          [] a.action = "all_in" ->
                LET c == commit(b, p, u, TRUE)
                IN  Faced(CASE increment <= 0 -> c
                            [] increment > 0 /\ increment < b.minimum_full_raise ->
                                    [c EXCEPT !.current_bet = to]
                            [] OTHER -> OpenTo(c, to, increment), p)

Forced(a) == a.action \in {"post_blind", "post_ante"}

\* _LedgerBuilder.apply: the code it refuses the action with, and the ledger
\* after it.
ApplyCode(b0, a) ==
    IF a.actor \notin Players THEN "unknown-actor"
    ELSE LET start == IF a.street = b0.street THEN Ok ELSE StartCode(b0, a.street)
             b == IF a.street = b0.street THEN b0 ELSE start_street(b0, a.street)
             p == a.actor
             kind == KindCode(b, a)
             paid == CommitCode(b, p, Units(a.amount))
             early == FirstRefusal(<<
                 <<p \in b.active, "folded-player-acts">>,
                 <<p \notin b.all_in, "all-in-player-acts">>,
                 <<b.voluntary => Cardinality(b.active) > 1, "action-after-hand-ended">>,
                 <<AmountCode(a.amount) = Ok, AmountCode(a.amount)>>,
                 <<DeclaredIs(a.pot_before, b.net_total), "pot-before-mismatch">>,
                 <<b.current_bet >= b.contribution[p], "negative-outstanding-bet">>>>)
         IN  IF start # Ok THEN start
             ELSE IF early # Ok THEN early
             ELSE IF kind # Ok THEN kind
             ELSE IF paid # Ok THEN paid
             ELSE IF ~DeclaredIs(a.pot_after, Played(b, a).net_total) THEN "pot-after-mismatch"
             ELSE Ok

apply(b0, a) ==
    LET b == IF a.street = b0.street THEN b0 ELSE start_street(b0, a.street)
        played == Played([b EXCEPT !.voluntary = @ \/ ~Forced(a)], a)
    IN  [played EXCEPT !.count = @ + 1]

-----------------------------------------------------------------------------
(* finish *)

Levels(net) == {net[p]: p \in Players} \ {0}
LowerTo(net, upper) == Max({0} \cup {v \in Levels(net): v < upper})

\* One layer for each level of net contribution, from the lowest.
PotLayer(b, upper) ==
    LET lower == LowerTo(b.net, upper)
        contributors == {p \in Players: b.net[p] >= upper}
    IN  [lower |-> lower, upper |-> upper,
         amount |-> (upper - lower) * Cardinality(contributors),
         contributors |-> contributors,
         eligible |-> {p \in contributors: b.folded_at[p] = Absent},
         evidence |-> UNION {{b.intervals[p][k][1]: k \in
                                {j \in DOMAIN b.intervals[p]:
                                    b.intervals[p][j][2] < upper /\ b.intervals[p][j][3] > lower}}:
                             p \in contributors}]

PotLayers(b) == {PotLayer(b, upper): upper \in Levels(b.net)}

FinishCode(b, layers) ==
    FirstRefusal(<<
        <<b.net_total > 0, "positive-final-pot-required">>,
        <<b.gross_total = b.net_total + b.returned_total, "gross-net-return-conservation-failed">>,
        <<Total(b.remaining) + b.net_total = Total(hand.starting), "stack-pot-conservation-failed">>,
        <<\A l \in layers: l.eligible # {}, "pot-layer-has-no-eligible-player">>,
        <<\A l \in layers: 0 < l.amount /\ l.amount <= MaxUnits, "pot-layer-limit-exceeded">>,
        <<\A l \in layers: l.evidence # {}, "pot-layer-evidence-missing">>>>)

\* The validators of HandPotLedgerOutputV1 and of its layers.
OutputCode(b, layers) ==
    FirstRefusal(<<
        <<Total(b.gross) = b.gross_total, "gross-contribution-sum-invalid">>,
        <<Total(b.net) = b.net_total, "net-contribution-sum-invalid">>,
        <<FoldSeq(LAMBDA r, s: r.amount + s, 0, b.returns) = b.returned_total, "return-sum-invalid">>,
        <<MapThenSumSet(LAMBDA l: l.amount, layers) = b.net_total, "pot-layer-sum-invalid">>,
        <<\A l \in layers: l.lower < l.upper /\ l.eligible \subseteq l.contributors,
          "pot-layer-bounds-invalid">>>>)

-----------------------------------------------------------------------------
(* The oracle *)

NewOracle ==
    [current |-> Absent, gross |-> Zero, street |-> Zero, total_intervals |-> NoIntervals,
     street_intervals |-> NoIntervals, folded |-> [p \in Players |-> Absent], returns |-> <<>>,
     index |-> 0]

\* close_street of the oracle: only the return is recorded.
oracle_close_street(o) ==
    LET highest == Max({o.street[p]: p \in Players})
        leaders == {p \in Players: o.street[p] = highest}
        leader == CHOOSE p \in leaders: TRUE
        second == Max({o.street[q]: q \in Players \ {leader}})
        intervals == o.street_intervals[leader]
    IN  IF o.current = Absent \/ highest <= 0 \/ Cardinality(leaders) # 1 THEN o
        ELSE [o EXCEPT
                !.street[leader] = second,
                !.returns = Append(@, [street |-> o.current, player |-> leader,
                                       amount |-> highest - second,
                                       source |-> {intervals[k][1]: k \in
                                            {j \in DOMAIN intervals: intervals[j][2] < highest
                                                                 /\ intervals[j][3] > second}}])]

\* One turn of the loop over hand.actions.
OracleStep(o0, a) ==
    LET o == IF a.street = o0.current THEN o0
             ELSE [oracle_close_street(o0) EXCEPT
                     !.current = a.street, !.street = Zero, !.street_intervals = NoIntervals]
        p == a.actor
        u == Units(a.amount)
        interval(before) == IF u = 0 THEN <<>> ELSE <<<<o.index, before, before + u>>>>
        total == [o EXCEPT
                    !.gross[p] = @ + u,
                    !.total_intervals[p] = @ \o interval(o.gross[p])]
        paid == IF a.action = "post_ante" THEN total
                ELSE [total EXCEPT
                        !.street[p] = @ + u,
                        !.street_intervals[p] = @ \o interval(o.street[p])]
    IN  CASE a.action = "fold" -> [o EXCEPT !.folded[p] = o.index, !.index = @ + 1]
          [] a.action = "check" -> [o EXCEPT !.index = @ + 1]
          [] OTHER -> [paid EXCEPT !.index = @ + 1]

OracleReturned(o, p) ==
    FoldSeq(LAMBDA r, s: (IF r.player = p THEN r.amount ELSE 0) + s, 0, o.returns)

OracleLayers(o, net) ==
    {LET lower == Max({0} \cup {v \in Levels(net): v < upper})
         in == {p \in Players: net[p] >= upper}
     IN  [lower |-> lower, upper |-> upper, amount |-> (upper - lower) * Cardinality(in),
          contributors |-> in, eligible |-> {p \in in: o.folded[p] = Absent},
          evidence |-> UNION {{o.total_intervals[p][k][1]: k \in
                        {j \in DOMAIN o.total_intervals[p]:
                            /\ o.total_intervals[p][j][2] < upper
                            /\ o.total_intervals[p][j][3] > lower}}: p \in in}]:
     upper \in Levels(net)}

OracleCode(o, b, layers) ==
    LET net == [p \in Players |-> o.gross[p] - OracleReturned(o, p)]
        remaining == [p \in Players |-> hand.starting[p] - o.gross[p] + OracleReturned(o, p)]
    IN  FirstRefusal(<<
            <<b.gross = o.gross, "oracle-gross-mismatch">>,
            <<b.net = net, "oracle-net-mismatch">>,
            <<b.remaining = remaining, "oracle-stack-mismatch">>,
            <<b.net_total = Total(net), "oracle-pot-mismatch">>,
            <<b.gross_total = Total(o.gross), "oracle-gross-total-mismatch">>,
            <<b.returns = o.returns, "oracle-return-mismatch">>,
            <<layers = OracleLayers(o, net), "oracle-layer-mismatch">>,
            <<Total(hand.starting) = Total(remaining) + b.net_total, "oracle-conservation-failed">>>>)

-----------------------------------------------------------------------------
(* calculate_hand_pot_ledger *)

\* A refusal returns nothing of the ledger.
Refuse(code) ==
    /\ answer' = [code |-> code]
    /\ builder' = NewBuilder(hand)
    /\ oracle' = NewOracle
    /\ posts' = [blinds |-> {}, antes |-> {}]
    /\ UNCHANGED hand

\* The next action of the hand is replayed by the builder and by the oracle.
Apply(a) ==
    /\ answer = NoAnswer
    /\ builder.count <= MAX_ACTIONS
    /\ LET post == PostCode(a)
           code == IF builder.count = MAX_ACTIONS THEN "action-count-limit-exceeded"
                   ELSE IF post # Ok THEN post
                   ELSE ApplyCode(builder, a)
       IN  IF code # Ok THEN Refuse(code)
           ELSE /\ builder' = apply(builder, a)
                /\ oracle' = OracleStep(oracle, a)
                /\ posts' = Posted(a)
                /\ UNCHANGED <<hand, answer>>

\* The list of actions ends: finish, the output's validators, _verify_oracle.
Finish ==
    /\ answer = NoAnswer
    /\ LET closed == close_street(builder)
           layers == PotLayers(closed)
           close == CloseCode(builder)
           finish == FinishCode(closed, layers)
           output == OutputCode(closed, layers)
           code == IF MissingPostCode # Ok THEN MissingPostCode
                   ELSE IF close # Ok THEN close
                   ELSE IF finish # Ok THEN finish
                   ELSE IF output # Ok THEN output
                   ELSE OracleCode(oracle_close_street(oracle), closed, layers)
       IN  IF code # Ok THEN Refuse(code)
           ELSE /\ answer' = [code |-> Ok, layers |-> layers, net |-> closed.net,
                              remaining |-> closed.remaining, folded_at |-> closed.folded_at,
                              gross |-> closed.gross, returned |-> closed.returned_total]
                /\ UNCHANGED <<hand, posts, builder, oracle>>

\* The actions a hand may hold next: every player and kind, with the amounts
\* that decide between the rules (what is owed, the whole stack, one unit
\* beside it, the sizes of bets).
Amounts(p, kind) ==
    LET owed == builder.current_bet - builder.contribution[p]
    IN  {Grain * u: u \in
            CASE kind = "post_blind" ->
                    {u \in {SmallBlind, BigBlind}: p \in hand.posters[u]}
              [] kind = "post_ante" -> {hand.ante}
              [] kind \in {"check", "fold"} -> {0}
              [] kind = "call" -> {owed, Min({owed, builder.remaining[p]})}
              [] kind \in {"bet", "raise"} -> Sizes
              [] kind = "all_in" -> {builder.remaining[p], builder.remaining[p] + 1}}

\* An action declares the total it brings the player to and the pot before and
\* after it.  hand.slip is what the hand gets wrong, or leaves out.
HandAction(street, p, kind, paid) ==
    LET base == IF street > builder.street THEN start_street(builder, street) ELSE builder
        amount == IF hand.slip = "fraction" THEN paid + 1 ELSE paid
        Is(slip) == IF hand.slip = slip THEN Grain ELSE 0
        Declare(v) == IF hand.slip = "undeclared" THEN Absent ELSE v
    IN  [street |-> street, actor |-> p, action |-> kind, amount |-> amount,
         to_amount |-> IF kind \notin {"call", "bet", "raise", "all_in"} THEN Absent
                       ELSE Declare(Grain * base.contribution[p] + amount + Is("to")),
         pot_before |-> Declare(Grain * base.net_total + Is("before")),
         pot_after |-> Declare(Grain * base.net_total + amount + Is("after"))]

Kinds == {"post_blind", "post_ante", "fold", "check", "call", "bet", "raise", "all_in"}

Init ==
    /\ hand \in Hands
    /\ posts = [blinds |-> {}, antes |-> {}]
    /\ oracle = NewOracle
    /\ builder = NewBuilder(hand)
    /\ answer = IF Total(hand.starting) > MaxUnits THEN [code |-> "ledger-overflow"]
                ELSE IF Total(hand.starting) = 0 THEN [code |-> "starting-chips-required"]
                ELSE NoAnswer

\* A bound: in an orderly hand the antes come first, one order of them, and
\* then only a player who has still to answer the bet acts before the street
\* is over.  Nothing in the code asks for it.
Owes(p) ==
    /\ p \in builder.active \ builder.all_in
    /\ p \notin Acted(builder) \/ builder.contribution[p] < builder.current_bet

MissingAntes == IF hand.ante = 0 THEN {} ELSE Players \ posts.antes

Movers(kind) ==
    IF ~hand.orderly THEN Players
    ELSE IF MissingAntes # {}
         THEN IF kind = "post_ante" THEN {CHOOSE p \in MissingAntes: TRUE} ELSE {}
    ELSE IF kind \notin {"post_blind", "post_ante"} /\ \E p \in Players: Owes(p)
         THEN {p \in Players: Owes(p)} ELSE Players

\* An action is on the street that is played or on the next one; one that goes
\* back is tried as a check, because it is refused for its street.
Streets(kind) ==
    0..3 \cap ({builder.street, builder.street + 1} \cup IF kind = "check" THEN {0} ELSE {})

Next ==
    \/ \E kind \in Kinds: \E p \in Movers(kind), street \in Streets(kind):
          \E paid \in Amounts(p, kind): Apply(HandAction(street, p, kind, paid))
    \/ Finish

Spec == Init /\ [][Next]_vars

-----------------------------------------------------------------------------
(* Properties *)

\* The refusals that blame the ledger itself, not the hand it was given.
InternalCodes ==
    {"negative-outstanding-bet", "ambiguous-uncalled-return", "positive-final-pot-required",
     "gross-net-return-conservation-failed", "stack-pot-conservation-failed",
     "pot-layer-has-no-eligible-player", "pot-layer-limit-exceeded", "pot-layer-evidence-missing",
     "gross-contribution-sum-invalid", "net-contribution-sum-invalid", "return-sum-invalid",
     "pot-layer-sum-invalid", "pot-layer-bounds-invalid", "oracle-gross-mismatch",
     "oracle-net-mismatch", "oracle-stack-mismatch", "oracle-pot-mismatch",
     "oracle-gross-total-mismatch", "oracle-return-mismatch", "oracle-layer-mismatch",
     "oracle-conservation-failed"}

\* The chips a player can win: from every player, at most what he put in.
Winnable(net, p) == MapThenSumSet(LAMBDA q: Min({net[p], net[q]}), Players)

\* A list of actions whose every bet was accepted is never refused because
\* the ledger contradicts itself or its oracle, and what is returned is what
\* the rules give: a player who has not folded is eligible, over all layers,
\* for exactly the smaller of his and each player's contribution.  (The
\* layers of finish, the uncalled return of _close_street, the fold that
\* leaves dead money behind, _verify_oracle.)
PotsAreRight ==
    /\ answer.code \notin InternalCodes
    /\ answer.code = Ok =>
        /\ \A p \in Players: answer.folded_at[p] = Absent =>
              MapThenSumSet(LAMBDA l: IF p \in l.eligible THEN l.amount ELSE 0, answer.layers)
                = Winnable(answer.net, p)
        /\ Total(answer.net) + Total(answer.remaining) = Total(hand.starting)

\* When a hand is accepted, two players who have not folded put in the same
\* amount over all streets, or the one who put in less has no chips left:
\* short all-ins, returned bets and players who never had chips included.
\* (The two checks of _close_street, street after street, all_in and its
\* discard after a return.)
EveryoneMatchedOrAllIn ==
    answer.code = Ok =>
        \A p, q \in Players:
            (answer.folded_at[p] = Absent /\ answer.folded_at[q] = Absent
             /\ answer.net[p] < answer.net[q]) => answer.remaining[p] = 0
=============================================================================

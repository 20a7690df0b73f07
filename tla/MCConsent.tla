------------------------------ MODULE MCConsent ------------------------------
(***************************************************************************)
(* The three places where a person must agree: the roles of a bridge run,  *)
(* confirmed and executed one by one, the review workflow that wraps them, *)
(* and the approvals of a run, decided, reissued and executed.  A          *)
(* behaviour is about one of them.                                         *)
(***************************************************************************)
EXTENDS CodexBridge, TLC

CONSTANTS
    c1, c2,
    Expiry, AuthorityExpiry, MaxEvents, MaxFailed, Window, Cases,                \* of Approvals
    ConfirmationIds, RequestLife, ConfirmLife, Reviews                           \* of RiverReview

ASSUME ApprovalAssumption ==
    {AuthorityExpiry, MaxEvents, MaxFailed, Window} \subseteq Nat \ {0}

ASSUME ReviewAssumption == {RequestLife, ConfirmLife} \subseteq Nat \ {0}

VARIABLES
    flow,       \* which of the three; it never changes
    product, residue, alock, clock, authority, audit, client, executor, scenario, afaults,
    granted, rebased, acalls,
    plan, agreed, source, linkage, receipt, bridge, now, reviewer, launched, local, left

approvalVars == <<product, residue, alock, clock, authority, audit, client, executor, granted, rebased,
                  acalls, afaults, scenario>>

Approval == INSTANCE Approvals WITH
    Clients <- Callers, Scenarios <- Cases, lock <- alock, faults <- afaults, calls <- acalls

reviewVars == <<plan, agreed, source, linkage, receipt, bridge, now, reviewer, launched, local, left>>

Review == INSTANCE RiverReview WITH Clients <- Callers

-----------------------------------------------------------------------------
(* The bridge: two runs that do not exist yet, a run that is prepared, two  *)
(* runs whose first role is confirmed, and a run that has only the report   *)
(* writer left.                                                             *)

Ran(ended, confirmed, base) == [done |-> ended, confirmed |-> confirmed, base |-> base]

Store(runs, calls_, faults_) == [runs |-> runs, calls |-> calls_, faults |-> faults_]

MCScenarios ==
    {Store(<<>>, 2, 1),
     Store("r1" :> Ran(0, FALSE, 100), 2, 1),
     Store("r1" :> Ran(0, TRUE, 100) @@ "r2" :> Ran(0, TRUE, 200), 2, 1),
     Store("r1" :> Ran(0, TRUE, 100), 3, 0),
     Store("r1" :> Ran(Independent + 1, TRUE, 100), 1, 1)}

-----------------------------------------------------------------------------
(* The approvals: two decisions with one key, a reissue after the expiry    *)
(* and a decision on the successor, the command line's actor, a run with    *)
(* historical requests only, and batches with a flaw.                       *)

Make(sort, key, items) ==
    [kind |-> sort, key |-> key, id |-> key, items |-> items, ahead |-> 0, back |-> 0,
     flaw |-> "none"]

One(r, decision) == [x \in {r} |-> decision]
Both(decision) == [x \in {"r1", "r2"} |-> decision]

Flawed(flaw) == [Make("decide", "k1", One("r1", "rejected")) EXCEPT !.flaw = flaw]

Sc(v2, trusted, end, n, f, batches) ==
    [v2 |-> v2, trusted |-> trusted, end |-> end, calls |-> n, faults |-> f,
     batches |-> batches]

MCCases ==
    {Sc(TRUE, TRUE, 1, 2, 1, {Make("decide", "k1", One("r1", "approved")),
                              Make("decide", "k1", One("r1", "rejected"))}),
     Sc(TRUE, TRUE, 2, 3, 0, {Make("reissue", "k1", One("r1", "rejected")),
                              Make("decide", "k1", One("s1", "approved"))}),
     Sc(TRUE, FALSE, 1, 2, 1, {Make("reissue", "k1", One("r1", "rejected")),
                               Make("decide", "k2", One("r2", "rejected"))}),
     Sc(TRUE, FALSE, 1, 3, 0, {Make("decide", "k1", Both("rejected")),
                               [Make("decide", "k2", One("r2", "rejected")) EXCEPT !.back = 1],
                               [Make("decide", "k2", One("r2", "rejected")) EXCEPT !.ahead = 1]}),
     Sc(FALSE, TRUE, 1, 3, 0, {Make("v1", "v1", One("r1", "rejected")),
                               Make("reissue", "k1", Both("rejected")),
                               Make("decide", "k1", One("s1", "approved"))}),
     Sc(FALSE, FALSE, 1, 2, 1, {Make("v1", "v1", One("r2", "rejected")),
                                Make("v1", "v1", One("r1", "rejected")),
                                Make("v1", "v1", One("r1", "approved")),
                                Make("reissue", "k1", One("r2", "rejected")),
                                [Make("reissue", "k1", Both("rejected")) EXCEPT !.ahead = 1]}),
     Sc(TRUE, FALSE, 1, 2, 0, {Flawed(f) : f \in {"run", "conflict", "duplicate", "digest"}}),
     Sc(TRUE, TRUE, 1, 2, 0, {Flawed("unredacted"), Flawed("spoof"),
                              [Flawed("none") EXCEPT !.id = "k2"],
                              Make("decide", "k2", One("s1", "rejected"))})}

MCExpiry == [r \in {"r1", "r2", "s1", "s2"} |-> IF r = "r1" THEN 1 ELSE 2]

-----------------------------------------------------------------------------
(* The review workflow: one that does not exist yet, one that is confirmed, *)
(* linked ones with a role to confirm or to execute, early and last, on     *)
(* their own or beside the bridge's commands, and a local one.              *)

Left(n, f, t, d) == [calls |-> n, faults |-> f, ticks |-> t, direct |-> d]

Stage(begun, ended, ready, alone, bounds) ==
    [agreed |-> begun, done |-> ended, ready |-> ready, local |-> alone, left |-> bounds]

MCReviews ==
    {Stage(FALSE, -1, FALSE, FALSE, Left(2, 1, 0, 0)),
     Stage(TRUE, -1, FALSE, FALSE, Left(2, 1, 0, 1)),
     Stage(TRUE, 0, FALSE, FALSE, Left(2, 1, 0, 1)),
     Stage(TRUE, 0, FALSE, FALSE, Left(3, 0, 0, 0)),
     Stage(TRUE, 0, TRUE, FALSE, Left(2, 1, 0, 1)),
     Stage(TRUE, 1, TRUE, FALSE, Left(2, 0, 2, 0)),
     Stage(TRUE, 0, FALSE, TRUE, Left(1, 0, 0, 0)),
     Stage(TRUE, Independent + 1, FALSE, FALSE, Left(2, 1, 1, 0)),
     Stage(TRUE, Independent + 1, TRUE, FALSE, Left(2, 1, 0, 0))}

Symmetry == Permutations({c1, c2})

-----------------------------------------------------------------------------

MCInit ==
    /\ flow \in {"bridge", "approvals", "review"}
    /\ Init /\ Approval!Init
    /\ flow # "bridge" => revs = [r \in Runs |-> <<>>] /\ faults = 1
    /\ flow # "approvals" => scenario = CHOOSE c \in Cases : TRUE
    /\ IF flow = "review" THEN Review!Init
       ELSE Review!StartsAt(CHOOSE s \in Reviews : TRUE) /\ now = 0

MCNext ==
    \/ flow = "bridge" /\ Next /\ UNCHANGED <<flow, approvalVars, reviewVars>>
    \/ flow = "approvals" /\ Approval!Next /\ UNCHANGED <<flow, vars, reviewVars>>
    \/ flow = "review" /\ Review!Next /\ UNCHANGED <<flow, vars, approvalVars>>

MCSpec == MCInit /\ [][MCNext]_<<flow, vars, approvalVars, reviewVars>>

-----------------------------------------------------------------------------
\* The published approvals always explain themselves, and what a call returned
\* is in them: an outcome is the record of that very batch, an audited failure
\* is among the events that count (Approvals' LedgerIsCoherent, OutcomesAreTrue
\* and AuditIsTrue); a V1 resume over a base it had not read may drop a record.
ApprovalRecordsAreTrue ==
    Approval!LedgerIsCoherent /\ Approval!OutcomesAreTrue /\ Approval!AuditIsTrue

\* Authority is held when it is used, however old the reads are that a batch or
\* an execution was prepared from: at the commit of a decision, under the lock
\* (AuthorityHeldAtCommit), and when an execution is bound
\* (ExecutionIsAuthorized).
AuthorityIsHeld == Approval!AuthorityHeldAtCommit /\ Approval!ExecutionIsAuthorized

\* The registries of the bridge are true of its runs: no identity or identifier
\* has two owners (CodexBridge's IdentifiersAreExclusive), and every published
\* run reads while no claim file is half written (PublishedRunsRead).
RegistriesAreTrue == IdentifiersAreExclusive /\ PublishedRunsRead

\* A role is executed through the review workflow only under a receipt that
\* binds it to the plan, the confirmation, the source and the bridge, and what
\* a client was told of the review is so (RiverReview's ChainHolds,
\* RolesAreBound and ReviewAnswersAreTrue).
ReviewIsBound == Review!ChainHolds /\ Review!RolesAreBound /\ Review!ReviewAnswersAreTrue

\* What was decided or published stays: a settled approval keeps its decision,
\* but for a V1 resume over a base it had not read (Approvals' SettledForGood), a
\* revision of a bridge run is never rewritten, and a run that has ended never
\* changes (RunsOnlyGrow).
NothingIsTakenBack == Approval!SettledForGood /\ RunsOnlyGrow

\* docs/phase2-readiness-contracts.md:621 has it that concurrent resumes lose no
\* update: a rejection that a resume recorded is still recorded (RejectionsStay).
RejectionsStay == Approval!RejectionsStay
=============================================================================

----------------------------- MODULE MCLocalData -----------------------------
(***************************************************************************)
(* The life of the local data, from its beginning to its end: two          *)
(* processes initialize and reconcile a revision root; two processes       *)
(* migrate flat runs while the writer of one is still at work; two         *)
(* executors quarantine and delete a run.  A behaviour is about one of the *)
(* three.                                                                  *)
(***************************************************************************)
EXTENDS LocalDataCleanup, TLC

CONSTANTS
    p1, p2, q1, q2, d1, d2,
    Sources, Live, Dest, Replaced, Appended, Sensitive,     \* of LegacyMigration
    MaxWrites, MaxMigrations, MaxInitializations, MaxFaults, MaxCrashes

VARIABLES
    flow,       \* which of the three; it never changes
    src, writer, past, taken, dest, mlock, mpc, mloc, manswer, did, mleft,
    rroot, rlock, rpc, rloc, ranswer, changed, rleft

migrationVars == <<src, writer, past, taken, dest, mlock, mpc, mloc, manswer, did, mleft>>
rootVars == <<rroot, rlock, rpc, rloc, ranswer, changed, rleft>>

\* "none" stands for nobody and nothing; one run is written while it is
\* copied; an artifact is either replaced or appended to.
ASSUME LocalDataAssumption ==
    /\ "none" \notin Callers \cup Replaced \cup Appended
    /\ Live \in Sources
    /\ Replaced \cap Appended = {}

Migration == INSTANCE LegacyMigration WITH
    Procs <- Callers, MaxCalls <- MaxMigrations,
    lock <- mlock, pc <- mpc, loc <- mloc, answer <- manswer, left <- mleft

RootRequests ==
    {[id |-> "r1", at |-> "t1"], [id |-> "r1", at |-> "t2"], [id |-> "r2", at |-> "t1"]}

Root == INSTANCE RootInitialization WITH
    Procs <- Callers, Requests <- RootRequests, MaxCalls <- MaxInitializations,
    root <- rroot, lock <- rlock, pc <- rpc, loc <- rloc, answer <- ranswer, left <- rleft

-----------------------------------------------------------------------------
(* Two plans to quarantine the run and two to delete it.                    *)

MCDays == {364, 365, 395, 396}
Scenario(plans, faults, crashes, disturbances) ==
    [plans |-> plans, faults |-> faults, crashes |-> crashes, disturbances |-> disturbances]

MCScenarios == {Scenario({q1, q2}, 1, 0, 1), Scenario({q1, d1, d2}, 0, 0, 0),
                Scenario({q1, d1}, 1, 1, 0), Scenario({q1, d1}, 0, 0, 1)}

MCEvidence == {NoEvidence}

Symmetry == Permutations(Callers)

-----------------------------------------------------------------------------

MCInit ==
    /\ flow \in {"root", "migration", "cleanup"}
    /\ Init /\ Migration!Init /\ Root!Init
    /\ flow # "cleanup" => spare = Scenario({q1, q2}, 1, 0, 1)
    /\ flow # "migration" => src[Live].sentinel

MCNext ==
    \/ flow = "cleanup" /\ Next /\ UNCHANGED <<flow, migrationVars, rootVars>>
    \/ flow = "migration" /\ Migration!Next /\ UNCHANGED <<flow, vars, rootVars>>
    \/ flow = "root" /\ Root!Next /\ UNCHANGED <<flow, vars, migrationVars>>

MCSpec == MCInit /\ [][MCNext]_<<flow, vars, migrationVars, rootVars>>

-----------------------------------------------------------------------------
\* A run's data is never lost, deleted twice or deleted early: at any instant
\* the tree is whole in the product root or in quarantine, or is being deleted by
\* a plan that has published that it does, nothing leaves before the retention
\* and the review period are over, and what was committed stays on record for a
\* repetition (LocalDataCleanup's PayloadAccounted, NothingGoesEarly and
\* CommittedIsRemembered).
PayloadIsSafe == PayloadAccounted /\ NothingGoesEarly /\ CommittedIsRemembered

\* A published copy is a content that the flat run had at one instant, although
\* it was read without a lock beside its writer (LegacyMigration's CopyWasTheSource).
CopyWasTheSource == Migration!CopyWasTheSource

\* No failure, crash or race leaves a revision root that must be called corrupt
\* (RootInitialization's RootIsNeverCorrupt).
RootIsNeverCorrupt == Root!RootIsNeverCorrupt

\* What the three kinds of call answer is true of the disk: an effect that is
\* denied did not happen, and a success is the caller's own (AnswersHonest,
\* MigrationAnswersAreTrue, RootAnswersAreTrue).
LocalAnswersAreTrue ==
    AnswersHonest /\ Migration!MigrationAnswersAreTrue /\ Root!RootAnswersAreTrue
=============================================================================

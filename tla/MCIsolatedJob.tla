---------------------------- MODULE MCIsolatedJob ----------------------------
(* Constants for small instances of the isolated job.                       *)
EXTENDS IsolatedJob, TLC

CONSTANTS p1

Requests == BudgetRequest
Digests == Stage
Env(faults, elapsed, stops, concurrent) ==
    [faults |-> faults, elapsed |-> elapsed, stops |-> stops, concurrent |-> concurrent]

\* An operator who waits for the controllers, and every stop after a failed
\* resume or wait confirmed; the same with runtime passing; and recovery that
\* races the controllers, with stops that stay unconfirmed anywhere.
Environments ==
    {Env(2, {0}, {"wait"}, FALSE), Env(1, {0, 1}, {"wait"}, FALSE),
     Env(0, {0}, {"wait", "resume", "exit"}, TRUE)}
AnyPolicy == [limit |-> [r \in Resource |-> 1], runtime |-> 1, slots |-> 1]
Callers == Permutations(Controller)
=============================================================================

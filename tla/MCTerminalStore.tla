--------------------------- MODULE MCTerminalStore ---------------------------
(* Constants for small instances of the terminal run store.                 *)
EXTENDS TerminalStore, TLC

CONSTANTS t1, t2, t3, w1, w2

Requests == BudgetRequest
Digests == PointerId \cup [txn : Permit, effect : FsEffect]
Env(faults, crashes, elapsed, refusals, others) ==
    [faults |-> faults, crashes |-> crashes, elapsed |-> elapsed, refusals |-> refusals,
     others |-> others]
Environments == {Env(1, 1, {0}, FALSE, FALSE), Env(0, 1, {0, 2}, TRUE, TRUE)}
SmallPolicy == [limit |-> [r \in Resource |-> 3], runtime |-> 2, slots |-> 1]
Symmetry == Permutations(Writer) \cup Permutations(Permit)
=============================================================================

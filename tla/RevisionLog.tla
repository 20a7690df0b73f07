----------------------------- MODULE RevisionLog -----------------------------
(***************************************************************************)
(* What the revision store promises its clients: the published revisions   *)
(* of a run are an append-only log in which a transaction id occurs at     *)
(* most once, and only what is in the log is ever acknowledged.            *)
(***************************************************************************)
EXTENDS Integers, Sequences

CONSTANTS Txn, Body

Entry == [txn : Txn, body : Body]

VARIABLES log, acked

Init == log = <<>> /\ acked = {}

Publish ==
    /\ Len(log') = Len(log) + 1
    /\ LET e == log'[Len(log')]
       IN  /\ e \in Entry
           /\ \A i \in DOMAIN log : log[i].txn # e.txn
           /\ log' = Append(log, e)
    /\ UNCHANGED acked

Acknowledge ==
    \E i \in DOMAIN log :
      /\ acked' = acked \cup {log[i]}
      /\ UNCHANGED log

Spec == Init /\ [][Publish \/ Acknowledge]_<<log, acked>>
=============================================================================

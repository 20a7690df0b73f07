--------------------------- MODULE MCRevisionStore ---------------------------
(***************************************************************************)
(* Two writers in different processes and a reader.  A behaviour is about  *)
(* publishing and claiming, with the bounds of the cfg, or about reading   *)
(* beside two publishers, with one body, one fault and no claim.           *)
(***************************************************************************)
EXTENDS RevisionStore, TLC

CONSTANTS w1, w2, r1, p1, p2, t1, t2, b1, b2

VARIABLE flow    \* which of the two; it never changes

MCProcessOf == [t \in Writer \cup Reader |-> IF t = w1 THEN p1 ELSE p2]

MCSymmetry == Permutations(Txn)

MCInit == Init /\ flow \in {"publish_and_claim", "read"}

InFlow ==
    IF flow = "read"
    THEN /\ faults' <= 1 /\ claimCalls' = 0
         /\ \A w \in Writer : req'[w] # Null => req'[w].body = b1
    ELSE rd' = rd

MCNext == Next /\ InFlow /\ UNCHANGED flow

MCSpec == MCInit /\ [][MCNext]_<<vars, flow>>
=============================================================================

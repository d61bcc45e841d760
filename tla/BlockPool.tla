----------------------------- MODULE BlockPool -----------------------------
(***************************************************************************)
(* What a memory pool promises: a block is free or handed out, it is       *)
(* handed out only while it is free, and only a block that was handed out  *)
(* becomes free again.                                                     *)
(***************************************************************************)
CONSTANT Blocks

VARIABLES free, handedOut

Init ==
    /\ free = Blocks
    /\ handedOut = {}

Take ==
    \E b \in free :
        /\ free' = free \ {b}
        /\ handedOut' = handedOut \cup {b}

Give ==
    \E b \in handedOut :
        /\ handedOut' = handedOut \ {b}
        /\ free' = free \cup {b}

Next == Take \/ Give

Spec == Init /\ [][Next]_<<free, handedOut>>
=============================================================================

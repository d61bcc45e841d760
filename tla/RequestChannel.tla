--------------------------- MODULE RequestChannel ---------------------------
(***************************************************************************)
(* What a service may expect of a ring pair, whatever its slots, counters, *)
(* CSRs and threads: a request is accepted while fewer than Capacity are   *)
(* outstanding, and each accepted request is answered once, in any order.  *)
(***************************************************************************)
EXTENDS Naturals, FiniteSets

CONSTANTS
    Tags,      \* what identifies a request while it is outstanding
    Capacity   \* requests that may be outstanding

VARIABLES
    outstanding,  \* requests accepted and not answered
    accepted,     \* requests ever accepted
    answered      \* answers ever given

channelVars == <<outstanding, accepted, answered>>

Init ==
    /\ outstanding = {}
    /\ accepted = 0
    /\ answered = 0

Accept(t) ==
    /\ t \notin outstanding
    /\ Cardinality(outstanding) < Capacity
    /\ outstanding' = outstanding \cup {t}
    /\ accepted' = accepted + 1
    /\ UNCHANGED answered

Answer(t) ==
    /\ t \in outstanding
    /\ outstanding' = outstanding \ {t}
    /\ answered' = answered + 1
    /\ UNCHANGED accepted

Next == \E t \in Tags : Accept(t) \/ Answer(t)

Spec == Init /\ [][Next]_channelVars

=============================================================================

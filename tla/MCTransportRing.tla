-------------------------- MODULE MCTransportRing --------------------------
(* Small instances of the ring pair for TLC.                               *)
EXTENDS TransportRing

CONSTANTS p1, p2, b1, i1, t1, t2, t3, t4, t5

\* Threads of one kind and cookies are interchangeable.
Symmetry == Permutations(Tags) \cup Permutations(Producers)

=============================================================================

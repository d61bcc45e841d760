----------------------------- MODULE MCDcSample -----------------------------
(* DcSample for TLC: the sets of faulty workers and of submissions the      *)
(* service may refuse.                                                      *)
EXTENDS DcSample

Nobody == {}
One == {1}
Last == {3}
Any == {1, 2, 3}
=============================================================================

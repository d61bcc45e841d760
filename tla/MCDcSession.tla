---------------------------- MODULE MCDcSession ----------------------------
(* Small instances of a compression session for TLC.                       *)
EXTENDS DcSession, TLC

CONSTANTS a1, a2, c1, c2, s1, s2, s3
=============================================================================

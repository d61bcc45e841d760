---------------------------- MODULE MCDcRecovery ----------------------------
(* A small compression instance that fails and restarts, for TLC.          *)
EXTENDS DcRecovery, TLC

CONSTANTS a1, a2

\* One thread does everything; or a second one polls, and devices fail dead.
OneThread == [callers |-> {a1}, pollers |-> {a1}, watchers |-> {a1},
              failed |-> {"up", "down"}]
TwoThreads == [OneThread EXCEPT !.pollers = {a2}, !.failed = {"down"}]

SafeSetups == {OneThread, TwoThreads}
=============================================================================

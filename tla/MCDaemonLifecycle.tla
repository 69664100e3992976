------------------------- MODULE MCDaemonLifecycle --------------------------
(* DaemonLifecycle for TLC: two processes, so that every pair of start-up,  *)
(* service and shutdown meets, and a request that can be in flight while    *)
(* either shuts down.                                                       *)
EXTENDS DaemonLifecycle, TLC

CONSTANTS d1, d2, c1

TwoDaemons == {d1, d2}
OneClient == {c1}
=============================================================================

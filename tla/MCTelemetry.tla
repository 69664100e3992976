---------------------------- MODULE MCTelemetry -----------------------------
(* Telemetry for TLC: two daemons, as after an overlapping start, and fewer *)
(* rows per chunk than events, one of which has no timestamp.               *)
EXTENDS Telemetry

CONSTANTS e1, e2, e3, d1, d2

ThreeEvents == {e1, e2, e3}
OneBlank == {e3}
TwoDaemons == {d1, d2}
=============================================================================

---------------------------- MODULE MCEventQueue ----------------------------
(* EventQueue for TLC. *)
EXTENDS EventQueue, TLC

CONSTANTS h1, h2, h3, d1, d2

AllHooks == {h1, h2, h3}
OneOversized == {h3}  \* no longer exchangeable with the others
OneDaemon == {d1}
TwoDaemons == {d1, d2}

Symmetry == Permutations(AllHooks \ OneOversized) \cup Permutations(TwoDaemons)
=============================================================================

---------------------------- MODULE MCSpawnLock -----------------------------
(* SpawnLock for TLC. *)
EXTENDS SpawnLock, TLC

CONSTANTS p1, p2, p3, p4

FourProcs == {p1, p2, p3, p4}
Symmetry == Permutations(FourProcs)
=============================================================================

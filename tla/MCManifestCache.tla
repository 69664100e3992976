--------------------------- MODULE MCManifestCache ---------------------------
(* ManifestCache for TLC: one or two runs of `browzer sync` beside a daemon. *)
EXTENDS ManifestCache, TLC

CONSTANTS s1, s2, r1

OneSync == {s1}
TwoSyncs == {s1, s2}
OneRequest == {r1}
=============================================================================

---------------------------- MODULE MCDeviceFlow ----------------------------
(* DeviceFlow for TLC: the code's constants scaled down; offers below, in    *)
(* and above the clamps, a late timer and requests that take their time.     *)
EXTENDS DeviceFlow

OfferedIntervals == {-1, 2, 3, 5}
OfferedLifetimes == {0, 4, 6, 20}
=============================================================================

--------------------------- MODULE RealtimeCallsMC ---------------------------
(* Instances of RealtimeCalls for TLC.                                       *)
EXTENDS RealtimeCalls, TLC

CONSTANTS o1, o2, s1, s2
=============================================================================

--------------------------- MODULE PresenterSyncMC ---------------------------
(* Instances of PresenterSync for TLC.                                       *)
EXTENDS PresenterSync, TLC

CONSTANT c1
=============================================================================

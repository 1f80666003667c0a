--------------------------- MODULE LiveSnapshotMC ---------------------------
(* A small instance of the browser's live snapshot for TLC.                   *)
EXTENDS LiveSnapshot

\* Two changes in every lecture, its closing included.
Two == [l \in Lectures |-> 2]
=============================================================================

--------------------------- MODULE SummaryWindowsMC ---------------------------
(* The summaries of a lecture for TLC: two invocations at a time, a page that   *)
(* is loaded twice.                                                            *)
EXTENDS SummaryWindows, TLC

SlotSymmetry == Permutations(Slots)
=============================================================================

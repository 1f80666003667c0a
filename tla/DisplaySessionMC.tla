-------------------------- MODULE DisplaySessionMC --------------------------
(* Small instances of the projector for TLC.                                  *)
EXTENDS DisplaySession

\* Every window is of another profile, or all are of one.
Strangers == [w \in Windows |-> w]
SameProfile == [w \in Windows |-> "profile"]

\* Links and strangers are interchangeable.
Symmetric == Permutations(Links) \cup Permutations(Windows)
=============================================================================

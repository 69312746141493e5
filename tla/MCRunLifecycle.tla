--------------------------- MODULE MCRunLifecycle ---------------------------
(* Small instances of the life of a run. *)
EXTENDS RunLifecycle, TLC

\* Runs are interchangeable (safety only, and none of them fails).
GateSymmetry == Permutations(Runs)
=============================================================================

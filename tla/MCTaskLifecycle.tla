-------------------------- MODULE MCTaskLifecycle --------------------------
(* Instances of TaskLifecycle for TLC.                                      *)
EXTENDS TaskLifecycle, TLC

\* Tasks differ in nothing but their name; used by the safety runs only.
Symmetry == Permutations(Tasks)

=============================================================================

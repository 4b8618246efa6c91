--------------------------- MODULE MCSandboxCall ---------------------------
(* Instances of SandboxCall for TLC.                                        *)
EXTENDS SandboxCall, TLC

\* File names and calls differ in nothing but their name.
Symmetry == Permutations(Files) \cup Permutations(Calls)

=============================================================================

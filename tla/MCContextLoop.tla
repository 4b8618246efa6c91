--------------------------- MODULE MCContextLoop ---------------------------
(* Instances of ContextLoop for TLC.                                        *)
EXTENDS ContextLoop, TLC

\* Refs differ in nothing but their name.
Symmetry == Permutations(Refs)

=============================================================================

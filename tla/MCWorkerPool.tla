---------------------------- MODULE MCWorkerPool ----------------------------
(* Instances of WorkerPool for TLC.                                          *)
EXTENDS WorkerPool, TLC

\* Tasks and threads are interchangeable; used by the safety run only.
Symmetry == Permutations(Tasks) \cup Permutations(Threads)

=============================================================================

-------------------------- MODULE MCFileTransaction --------------------------
(* FileTransaction on small instances.                                     *)
EXTENDS FileTransaction, TLC

\* Processes, files and contents are interchangeable; sound for the invariants
\* and action properties, not used in the runs with liveness.
Symmetry == Permutations(Proc) \cup Permutations(Path) \cup Permutations(Content)
==============================================================================

---------------------------- MODULE MCEditHistory ----------------------------
(* Instances of EditHistory for TLC. *)
EXTENDS EditHistory, TLC

Symmetry == Permutations(Path) \cup Permutations(Content)
==============================================================================

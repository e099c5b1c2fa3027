-------------------------- MODULE MCEditorDocuments --------------------------
(* Instances of EditorDocuments for TLC. *)
EXTENDS EditorDocuments, TLC

Symmetry == Permutations(Path)
=============================================================================

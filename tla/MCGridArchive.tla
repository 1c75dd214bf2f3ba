--------------------------- MODULE MCGridArchive ---------------------------
(* Small instances of GridArchive. *)
EXTENDS GridArchive, TLC

Symmetry == Permutations(Writers)
=============================================================================

-------------------------- MODULE MCConfigBizCache --------------------------
(* Small instances of ConfigBizCache. *)
EXTENDS ConfigBizCache, TLC

Symmetry == Permutations(Calls)
=============================================================================

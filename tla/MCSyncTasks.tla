---------------------------- MODULE MCSyncTasks ----------------------------
(* Small instances of SyncTasks. *)
EXTENDS SyncTasks, TLC

Symmetry == Permutations(Users) \cup Permutations(Runs)
=============================================================================

----------------------------- MODULE MCVmHistory -----------------------------
(* Small instances of VmHistory for TLC. *)
EXTENDS VmHistory, TLC

Symm == Permutations(Threads) \cup Permutations(Uuids)
=============================================================================

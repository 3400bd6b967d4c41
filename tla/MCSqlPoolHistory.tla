------------------------------ MODULE MCSqlPoolHistory ------------------------------
(* Small instances of SqlPoolHistory for TLC. *)
EXTENDS SqlPoolHistory, TLC

CONSTANTS inv, invRo, w1, w2, db1, db2

MCAliases == {inv, invRo}
MCToolAliases == {inv}
MCSuffixed == {invRo}
MCRO == inv :> invRo

Symm == Permutations(PoolIds) \cup Permutations(Threads)
=============================================================================

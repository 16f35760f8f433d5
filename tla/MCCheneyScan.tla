---------------------------- MODULE MCCheneyScan ----------------------------
(* Heaps of a root and two blocks for TLC. *)
EXTENDS CheneyScan, TLC

Symmetric == Permutations(Block)
=============================================================================

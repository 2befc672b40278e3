------------------------------ MODULE MCBcache ------------------------------
(* Instances of Bcache for TLC.                                            *)
EXTENDS Bcache, TLC

Symmetry == Permutations(Proc) \cup Permutations(Block) \cup Permutations(Buf)
=============================================================================

------------------------------- MODULE MCProc -------------------------------
(* Model checking Proc on small process tables.                            *)
EXTENDS Proc, TLC

Symmetry == Permutations(CPU)

=============================================================================

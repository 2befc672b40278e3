------------------------------ MODULE MCMemory ------------------------------
(* Instances of Memory for TLC.                                            *)
EXTENDS Memory
=============================================================================

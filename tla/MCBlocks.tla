------------------------------ MODULE MCBlocks ------------------------------
(* Instances of Blocks for TLC.                                            *)
EXTENDS Blocks

\* One file of one cell: the root directory has three entries.
OneFile == <<<<9>>>>
\* Within a block, across blocks, into the indirect block, past the end.
Writes == {<<0, 1>>, <<1, 4>>, <<2, 3>>, <<4, 3>>}
Reads == {<<0, 6>>, <<1, UINT - 1>>}
=============================================================================

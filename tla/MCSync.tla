------------------------------- MODULE MCSync -------------------------------
(***************************************************************************)
(* Sync on the blocks of MCBlocks; batches of one block, so that chains of *)
(* two and three take several requests.                                    *)
(***************************************************************************)
EXTENDS Sync, MCBlocks

MCLocalBlock == {a1}

d1 == Block(<<>>, 2, <<>>, "bob")
d2 == Block(<<d1>>, 2, <<>>, "bob")

MCChains == {<<a1, a2>>, <<d1, d2>>}
=============================================================================

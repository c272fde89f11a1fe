------------------------------- MODULE MCNode -------------------------------
(***************************************************************************)
(* Node on the blocks of MCBlocks.                                         *)
(***************************************************************************)
EXTENDS Node, MCBlocks
=============================================================================

------------------------------ MODULE MCGossip ------------------------------
(***************************************************************************)
(* Gossip in the two connected networks of three nodes.                    *)
(***************************************************************************)
EXTENDS Gossip

CONSTANTS a, b, c

MCTopology == {{{a, b}, {b, c}}, {{a, b}, {b, c}, {a, c}}}
MCScoreMin == -2
MCThreshold == -2
=============================================================================

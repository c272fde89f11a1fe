------------------------------ MODULE MCBlocks ------------------------------
(***************************************************************************)
(* The accounts, transactions and blocks of the small instances.  Block a1 *)
(* pays alice, and the blocks on top of it spend alice's coins in two       *)
(* conflicting ways:                                                       *)
(*                                                                         *)
(*    genesis -- a1 -- a2 (pay) -- a3 (payMore)                            *)
(*                 |-- b2 (payOther)                                       *)
(*                 \-- c2 (empty)                                          *)
(*                                                                         *)
(* b2 and c2 have more work than a2, and less than a2 and a3 together.     *)
(*                                                                         *)
(* pay and payOther carry nonce 1, payMore nonce 2.                        *)
(***************************************************************************)
EXTENDS PendingPool

MCAddress == {"alice", "bob", "treasury"}

MCMaxSupplyFor(policy) == 12

MCBlockSubsidyFor(policy, height) == 4

MCSize(tx) == 1

Tx(to, amount, nonce) ==
  [id |-> [from |-> "alice", to |-> to, amount |-> amount,
           fee |-> CalculateFee(amount), nonce |-> nonce],
   signature |-> "testnet", wellFormed |-> TRUE]

pay      == Tx("bob", 1, 1)
payOther == Tx("treasury", 2, 1)
payMore  == Tx("bob", 1, 2)

MCTransactions == {pay, payOther, payMore}

Block(parents, work, transactions, miner) ==
  [height |-> Len(parents) + 1, previous |-> TipHash(parents), work |-> work,
   transactions |-> transactions, minerAddress |-> miner]

a1 == Block(<<>>, 1, <<>>, "alice")
a2 == Block(<<a1>>, 1, <<pay>>, "bob")
a3 == Block(<<a1, a2>>, 2, <<payMore>>, "bob")
b2 == Block(<<a1>>, 2, <<payOther>>, "bob")
c2 == Block(<<a1>>, 2, <<>>, "bob")

MCPeerBlock == {a1, a2, a3, b2, c2}

MCPeerChain == {<<a1, a2>>, <<a1, b2>>, <<a1, c2>>, <<a1, a2, a3>>}
=============================================================================

-------------------------- MODULE MCBlockProcessor --------------------------
(***************************************************************************)
(* BlockProcessor on a small instance.  Machine integers end at 15.  The   *)
(* testnet cap (9) cuts the third subsidy of 4; on mainnet blocks of       *)
(* height 1 have a subsidy and blocks of height 3 pay fees only.  Fees are *)
(* 3/4 (total) and 1/4 (development) of the amount, so that rounding       *)
(* differs between the two and small amounts carry fees.                   *)
(***************************************************************************)
EXTENDS BlockProcessor, TLC

MCAddress == {"alice", "bob", "treasury"}

MCMaxSupplyFor(policy) == IF policy = "testnet" THEN 9 ELSE 12

MCBlockSubsidyFor(policy, height) ==
  IF policy = "testnet" THEN 4 ELSE IF height = 1 THEN 6 ELSE 0

Tx(from, to, amount, nonce, signature) ==
  [id |-> [from |-> from, to |-> to, amount |-> amount,
           fee |-> CalculateFee(amount), nonce |-> nonce],
   signature |-> signature, wellFormed |-> TRUE]

(***************************************************************************)
(* Transfers between users, to oneself and from and to the treasury; two   *)
(* signatures of one body; a wrong fee; a malformed one; a signature bound *)
(* to the other network.                                                   *)
(***************************************************************************)
MCTx ==
  {Tx("alice", "bob", 2, 1, "testnet"), Tx("alice", "bob", 2, 1, "legacy"),
   Tx("alice", "bob", 2, 1, "mainnet"), Tx("alice", "alice", 3, 2, "testnet"),
   Tx("alice", "bob", 1, 2, "mainnet"), Tx("bob", "treasury", 1, 1, "testnet"),
   Tx("bob", "alice", 4, 1, "mainnet"),
   [Tx("bob", "alice", 2, 1, "testnet") EXCEPT !.id.fee = 0],
   [Tx("bob", "alice", 2, 1, "testnet") EXCEPT !.wellFormed = FALSE]}

MCCandidateBlock ==
  [height : {1, 3},
   transactions : {<<>>} \cup {<<t>> : t \in MCTx}
                    \cup {<<t, u>> : t, u \in MCTx},
   minerAddress : {"alice", "bob", ""}]

Abstract == INSTANCE AtomicLedger

(***************************************************************************)
(* ProcessBlockFor, run step by step, changes the caller's state exactly   *)
(* as the one-step ProcessBlockFor of AtomicLedger: no partially applied   *)
(* block is ever visible, and no block is committed that has an invalid    *)
(* transaction in it.                                                      *)
(***************************************************************************)
BlocksAreAtomic == Abstract!Spec
=============================================================================

---------------------------- MODULE AtomicLedger ----------------------------
(***************************************************************************)
(* What ProcessBlockFor promises its callers: the state changes by whole   *)
(* blocks only, and only by blocks every part of which is valid.           *)
(***************************************************************************)
EXTENDS Replay

CONSTANT CandidateBlock

VARIABLE state

Init == \E policy \in Policy : state = NewStateFor(policy)

CommitBlock(block) ==
  LET outcome == ProcessBlockFor(state, state.monetaryPolicy, block)
  IN  /\ outcome.ok
      /\ state' = outcome.state

Next == \E block \in CandidateBlock : CommitBlock(block)

Spec == Init /\ [][Next]_state
=============================================================================

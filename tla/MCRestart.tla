----------------------------- MODULE MCRestart ------------------------------
(***************************************************************************)
(* What survives on disk: four machines that do not touch each other's     *)
(* files, checked in one run that goes through one of them at a time.      *)
(*                                                                         *)
(*   restart   Persistence, on the blocks of MCBlocks                      *)
(*   replace   FileReplace, one file                                       *)
(*   wallet    WalletFiles, one wallet                                     *)
(*   peers     Discovery, three nodes that know each other                 *)
(***************************************************************************)
EXTENDS Persistence, MCBlocks, FileReplace, WalletFiles, Discovery

VARIABLE part

\* An address is its network group and the host in it.
MCPeerAddress == {<<1, 1>>, <<1, 2>>, <<2, 1>>}

MCLocalAddress == <<2, 2>>

MCHome == << <<1, 1>>, <<1, 2>>, <<2, 1>> >>

\* Old news, news about two nodes, and news about this node itself.
MCRumour ==
  {{KnownPeer(2, <<2, 1>>)},
   {KnownPeer(3, <<2, 1>>), KnownPeer(2, <<1, 2>>)},
   {KnownPeer(Local, <<1, 1>>), KnownPeer(3, MCLocalAddress)}}

MCEarlier ==
  <<KnownPeer(1, <<1, 1>>), KnownPeer(2, <<1, 2>>), KnownPeer(3, <<2, 1>>)>>

MCFlag == {NoAddress, <<1, 2>>}

MCInit ==
  /\ part \in {"restart", "replace", "wallet", "peers"}
  /\ Init /\ ReplaceInit /\ WalletInit /\ PeerInit
  /\ part # "restart" => orderly
  /\ part # "replace" => afterWrite = "rename"
  /\ part # "wallet" => path = CHOOSE p \in Password : TRUE

MCNext ==
  /\ UNCHANGED part
  /\ \/ /\ part = "restart" /\ Next
        /\ UNCHANGED <<replaceVars, walletVars, peerVars>>
     \/ /\ part = "replace" /\ ReplaceNext
        /\ UNCHANGED <<vars, walletVars, peerVars>>
     \/ /\ part = "wallet" /\ WalletNext
        /\ UNCHANGED <<vars, replaceVars, peerVars>>
     \/ /\ part = "peers" /\ PeerNext
        /\ UNCHANGED <<vars, replaceVars, walletVars>>

MCSpec == MCInit /\ [][MCNext]_<<part, vars, replaceVars, walletVars, peerVars>>
=============================================================================

----------------------------- MODULE HostProofs -----------------------------
(***************************************************************************)
(* What holds on one host, whenever a process is stopped: a file that is   *)
(* replaced is whole, a wallet is not lost while its password changes, and *)
(* the mining supervisors have one child between them.                     *)
(***************************************************************************)
EXTENDS FileReplace, WalletFiles, DemandMiner, TLAPS

-----------------------------------------------------------------------------
(***************************************************************************)
(* What replacing a file guarantees for any data, at any crash point.      *)
(***************************************************************************)

OneSaver == \A s, t \in Saver : s = t

(***************************************************************************)
(* The two names never share an inode; a saver that is writing has the     *)
(* temporary file open and nobody wrote to it, and one that has written    *)
(* finds its data there.                                                   *)
(***************************************************************************)
ReplaceInv ==
  /\ ReplaceTypeOK
  /\ target # NoInode => target # tempFile
  /\ \A s \in Saver :
       /\ CallAt(s, "write") => call[s].inode = tempFile /\ content[tempFile] = Partial
       /\ call[s].at \in {"remove", "rename"} =>
            tempFile # NoInode /\ content[tempFile] = call[s].data
  /\ FileHoldsLastSave

LEMMA ReplaceInitInv == ReplaceInit => ReplaceInv
BY FileAssumption DEF ReplaceInit, ReplaceInv, ReplaceTypeOK, NoCall, CallAt, Call, FileHoldsLastSave

\* Every step of a single saver keeps the invariant.
LEMMA ReplaceStep ==
  ASSUME OneSaver, ReplaceInv, [ReplaceNext]_replaceVars
  PROVE  ReplaceInv'
<1> USE FileAssumption DEF CallAt, Become, NoCall
<1>0. UNCHANGED afterWrite
  BY DEF ReplaceNext, replaceVars
<1>1. ASSUME NEW s \in Saver, NEW data \in Snapshot, OpenTemp(s, data)
      PROVE  ReplaceInv'
  <2>1. PICK i \in (IF tempFile # NoInode THEN {tempFile} ELSE Unused) :
          /\ tempFile' = i
          /\ content' = [content EXCEPT ![i] = Partial]
          /\ call' = [call EXCEPT ![s] = [at |-> "write", inode |-> i, data |-> data]]
    BY Zenon, <1>1 DEF OpenTemp
  <2>2. i \in Inode /\ i # target
    BY <2>1 DEF ReplaceInv, ReplaceTypeOK, Unused
  <2>3. ReplaceTypeOK'
    BY <1>0, <1>1, <2>1, <2>2 DEF OpenTemp, ReplaceInv, ReplaceTypeOK, Call
  <2>4. \A t \in Saver : t = s
    BY DEF OneSaver
  <2>5. call'[s] = [at |-> "write", inode |-> i, data |-> data]
    BY <2>1 DEF ReplaceInv, ReplaceTypeOK
  <2>6. FileHoldsLastSave'
    BY <1>1, <2>1, <2>2 DEF OpenTemp, ReplaceInv, ReplaceTypeOK, FileHoldsLastSave
  <2>7. content'[i] = Partial
    BY <2>1, <2>2 DEF ReplaceInv, ReplaceTypeOK
  <2> QED
    BY <1>1, <2>1, <2>2, <2>3, <2>4, <2>5, <2>6, <2>7 DEF OpenTemp, ReplaceInv
<1>2. ASSUME NEW s \in Saver, WriteTemp(s) PROVE ReplaceInv'
  <2> DEFINE i == call[s].inode
  <2>0. call[s] \in [at : {"write"}, inode : Inode, data : Snapshot]
    BY <1>2 DEF WriteTemp, ReplaceInv, ReplaceTypeOK, Call
  <2>1. i = tempFile /\ i # target /\ i \in Inode /\ content[i] = Partial
    BY <1>2, <2>0 DEF WriteTemp, ReplaceInv, ReplaceTypeOK
  <2>2. PICK result \in {call[s].data, Partial} :
          /\ content' = [content EXCEPT ![i] = result]
          /\ content[i] = Partial => result = call[s].data
    BY Zenon, <1>2 DEF WriteTemp
  <2>3. ReplaceTypeOK'
    BY <1>0, <1>2, <2>0, <2>1, <2>2 DEF WriteTemp, ReplaceInv, ReplaceTypeOK, Call
  <2> QED
    BY <1>2, <2>0, <2>1, <2>2, <2>3 DEF WriteTemp, ReplaceInv, ReplaceTypeOK, OneSaver, FileHoldsLastSave
<1>3. ASSUME NEW s \in Saver, RemoveTarget(s) PROVE ReplaceInv'
  BY <1>0, <1>3 DEF RemoveTarget, ReplaceInv, ReplaceTypeOK, Call, OneSaver, FileHoldsLastSave
<1>4. ASSUME NEW s \in Saver, RenameTemp(s) PROVE ReplaceInv'
  BY <1>0, <1>4 DEF RenameTemp, ReplaceInv, ReplaceTypeOK, Call, OneSaver, FileHoldsLastSave
<1>5. ASSUME NEW s \in Saver, Fail(s) PROVE ReplaceInv'
  BY <1>0, <1>5 DEF Fail, ReplaceInv, ReplaceTypeOK, Call, OneSaver, FileHoldsLastSave
<1>6. CASE ProcessEnds
  BY <1>0, <1>6 DEF ProcessEnds, ReplaceInv, ReplaceTypeOK, Call, FileHoldsLastSave
<1>7. CASE UNCHANGED replaceVars
  BY <1>7 DEF replaceVars, ReplaceInv, ReplaceTypeOK, Unused, Held, FileHoldsLastSave
<1> QED
  BY <1>1, <1>2, <1>3, <1>4, <1>5, <1>6, <1>7 DEF ReplaceNext

(***************************************************************************)
(* With one saver the file holds the data of the last save that succeeded, *)
(* whole, whatever fails and whenever the process stops, whether or not    *)
(* the old file is removed first (SaveToFile, SaveMempoolToFile,           *)
(* SaveKnownPeersToFile).                                                  *)
(***************************************************************************)
THEOREM SavesAreWhole == OneSaver => (ReplaceSpec => []FileHoldsLastSave)
<1> SUFFICES ASSUME OneSaver PROVE ReplaceSpec => []FileHoldsLastSave
  OBVIOUS
<1>1. ReplaceInit => ReplaceInv
  BY ReplaceInitInv
<1>2. ReplaceInv /\ [ReplaceNext]_replaceVars => ReplaceInv'
  BY ReplaceStep
<1>3. ReplaceInv => FileHoldsLastSave
  BY DEF ReplaceInv
<1> QED
  BY <1>1, <1>2, <1>3, PTL DEF ReplaceSpec

(***************************************************************************)
(* Where the save only renames, no saver reaches the step that removes.    *)
(***************************************************************************)
NoneRemoves == ReplaceTypeOK /\ (afterWrite = "rename" => \A s \in Saver : ~CallAt(s, "remove"))

LEMMA NoneRemovesStep ==
  ASSUME NoneRemoves, [ReplaceNext]_replaceVars
  PROVE  NoneRemoves'
<1> USE FileAssumption DEF CallAt, Become, NoCall, NoneRemoves
<1>0. UNCHANGED afterWrite
  BY DEF ReplaceNext, replaceVars
<1>1. ASSUME NEW s \in Saver, NEW data \in Snapshot, OpenTemp(s, data)
      PROVE  NoneRemoves'
  <2>1. PICK i \in (IF tempFile # NoInode THEN {tempFile} ELSE Unused) :
          /\ tempFile' = i
          /\ content' = [content EXCEPT ![i] = Partial]
          /\ call' = [call EXCEPT ![s] = [at |-> "write", inode |-> i, data |-> data]]
    BY Zenon, <1>1 DEF OpenTemp
  <2>2. i \in Inode
    BY <2>1 DEF ReplaceTypeOK, Unused
  <2> QED
    BY <1>0, <1>1, <2>1, <2>2 DEF OpenTemp, ReplaceTypeOK, Call
<1>2. ASSUME NEW s \in Saver, WriteTemp(s) PROVE NoneRemoves'
  <2>1. call[s] \in [at : {"write"}, inode : Inode, data : Snapshot]
    BY <1>2 DEF WriteTemp, ReplaceTypeOK, Call
  <2>2. PICK result \in {call[s].data, Partial} :
          content' = [content EXCEPT ![call[s].inode] = result]
    BY Zenon, <1>2 DEF WriteTemp
  <2> QED
    BY <1>0, <1>2, <2>1, <2>2 DEF WriteTemp, ReplaceTypeOK, Call
<1>3. ASSUME NEW s \in Saver, RenameTemp(s) PROVE NoneRemoves'
  BY <1>0, <1>3 DEF RenameTemp, ReplaceTypeOK, Call
<1>4. ASSUME NEW s \in Saver, Fail(s) PROVE NoneRemoves'
  BY <1>0, <1>4 DEF Fail, ReplaceTypeOK, Call
<1>5. CASE ProcessEnds
  BY <1>0, <1>5 DEF ProcessEnds, ReplaceTypeOK, Call
<1>6. CASE UNCHANGED replaceVars
  BY <1>0, <1>6 DEF replaceVars, ReplaceTypeOK
<1>7. ASSUME NEW s \in Saver, RemoveTarget(s) PROVE NoneRemoves'
  BY <1>0, <1>7 DEF RemoveTarget, ReplaceTypeOK, Call
<1> QED
  BY <1>1, <1>2, <1>3, <1>4, <1>5, <1>6, <1>7 DEF ReplaceNext

(***************************************************************************)
(* Where the new file is renamed over the old one (SaveToFile of the       *)
(* chain, SaveKnownPeersToFile), the file never disappears, with any       *)
(* number of overlapping saves.                                            *)
(***************************************************************************)
THEOREM RenamedFileSurvives == ReplaceSpec => FileSurvives
<1>1. ReplaceInit => NoneRemoves
  BY FileAssumption DEF ReplaceInit, NoneRemoves, ReplaceTypeOK, NoCall, CallAt, Call
<1>2. NoneRemoves /\ [ReplaceNext]_replaceVars => NoneRemoves'
  BY NoneRemovesStep
<1>3. NoneRemoves /\ [ReplaceNext]_replaceVars =>
        [afterWrite = "rename" /\ target # NoInode => target' # NoInode]_replaceVars
  BY Zenon DEF NoneRemoves, ReplaceNext, replaceVars, OpenTemp, WriteTemp, RemoveTarget, RenameTemp, Fail, ProcessEnds
<1> QED
  BY <1>1, <1>2, <1>3, PTL DEF ReplaceSpec, FileSurvives

-----------------------------------------------------------------------------
(***************************************************************************)
(* Changing the password of a wallet, and its backup.                      *)
(***************************************************************************)

(***************************************************************************)
(* Where the two copies are at each step of a rotation.  The original is   *)
(* given up only once the new wallet is in its place, and the temporary    *)
(* file that is moved there holds the new wallet.                          *)
(***************************************************************************)
OriginalInPlace ==
  {"createTemp", "saveTemp", "checkTemp", "reserve", "moveAside"}

Rotation ==
  [at : OriginalInPlace \cup
          {"install", "verify", "discard", "restore", "restoreAgain",
           "removeOriginal", "removeTemp", "changed", "failed", "killed"},
   current : Password, new : Password]

WalletInv ==
  /\ rot \in [at : {"idle"}] \cup Rotation
  /\ bak \in [at : {"idle"}] \cup [at : {"open"}, password : Password]
              \cup [at : {"copy", "verify", "remove", "kept"},
                    password : Password, source : Content]
  /\ path \in Content
  /\ rot.at \in OriginalInPlace => path = rot.current
  /\ rot.at \in {"reserve", "moveAside", "install"} => temp = rot.new
  /\ rot.at = "install" => original = rot.current
  /\ rot.at \in {"verify", "discard", "restore", "restoreAgain"} =>
       original = rot.current
  /\ rot.at = "removeOriginal" => path = rot.new /\ original = rot.current
  /\ rot.at \in {"removeTemp", "failed"} => rot.current \in {path, original}
  /\ rot.at = "changed" => path = rot.new /\ original = Absent
  /\ KeyNeverLost
  /\ KeptBackupOpens

LEMMA WalletInitInv == WalletInit => WalletInv
BY DEF WalletInit, WalletInv, Rotation, OriginalInPlace, Content, KeyNeverLost, KeptBackupOpens

LEMMA RotationStep ==
  ASSUME WalletInv,
         \/ \E current, new \in Password : ChangeEncryptedPassword(current, new)
         \/ CreateTemp \/ SaveTemp \/ CheckTemp \/ ReserveOriginal \/ MoveAside
         \/ Install \/ Verify \/ Discard \/ Restore \/ RemoveOriginal
         \/ RemoveTemp \/ KillRotation
  PROVE  WalletInv'
<1>0. rot.at # "idle" =>
        /\ rot = [at |-> rot.at, current |-> rot.current, new |-> rot.new]
        /\ rot.current \in Password /\ rot.new \in Password
  BY DEF WalletInv, Rotation
<1> USE WalletAssumption DEF WalletInv, Rotation, OriginalInPlace, KeyNeverLost,
      KeptBackupOpens, RotationAt, Go, backup, Content
<1>1. CASE \E current, new \in Password : ChangeEncryptedPassword(current, new)
  BY <1>1 DEF ChangeEncryptedPassword
<1>2. CASE CreateTemp
  <2>1. \/ rot' = [at |-> "saveTemp", current |-> rot.current, new |-> rot.new]
        \/ rot' = [at |-> "failed", current |-> rot.current, new |-> rot.new]
    BY <1>0, <1>2 DEF CreateTemp
  <2> QED
    BY <1>0, <1>2, <2>1 DEF CreateTemp
<1>3. CASE SaveTemp
  <2>1. \/ rot' = [at |-> "checkTemp", current |-> rot.current, new |-> rot.new]
        \/ rot' = [at |-> "removeTemp", current |-> rot.current, new |-> rot.new]
    BY <1>0, <1>3 DEF SaveTemp
  <2> QED
    BY <1>0, <1>3, <2>1 DEF SaveTemp
<1>4. CASE CheckTemp
  <2>1. \/ rot' = [at |-> "reserve", current |-> rot.current, new |-> rot.new]
        \/ rot' = [at |-> "removeTemp", current |-> rot.current, new |-> rot.new]
    BY <1>0, <1>4 DEF CheckTemp
  <2> QED
    BY <1>0, <1>4, <2>1 DEF CheckTemp
<1>5. CASE ReserveOriginal
  <2>1. \/ rot' = [at |-> "moveAside", current |-> rot.current, new |-> rot.new]
        \/ rot' = [at |-> "removeTemp", current |-> rot.current, new |-> rot.new]
    BY <1>0, <1>5 DEF ReserveOriginal
  <2> QED
    BY <1>0, <1>5, <2>1 DEF ReserveOriginal
<1>6. CASE MoveAside
  <2>1. \/ rot' = [at |-> "install", current |-> rot.current, new |-> rot.new]
        \/ rot' = [at |-> "removeTemp", current |-> rot.current, new |-> rot.new]
    BY <1>0, <1>6 DEF MoveAside
  <2> QED
    BY <1>0, <1>6, <2>1 DEF MoveAside
<1>7. CASE Install
  <2>1. \/ rot' = [at |-> "verify", current |-> rot.current, new |-> rot.new]
        \/ rot' = [at |-> "restore", current |-> rot.current, new |-> rot.new]
    BY <1>0, <1>7 DEF Install
  <2> QED
    BY <1>0, <1>7, <2>1 DEF Install
<1>8. CASE Verify
  <2>1. \/ rot' = [at |-> "removeOriginal", current |-> rot.current, new |-> rot.new]
        \/ rot' = [at |-> "discard", current |-> rot.current, new |-> rot.new]
    BY <1>0, <1>8 DEF Verify
  <2> QED
    BY <1>0, <1>8, <2>1 DEF Verify
<1>9. CASE Discard
  BY <1>0, <1>9 DEF Discard
<1>10. CASE Restore
  <2>1. \/ rot' = [at |-> "removeTemp", current |-> rot.current, new |-> rot.new]
           /\ path' = rot.current
        \/ rot' = [at |-> "removeTemp", current |-> rot.current, new |-> rot.new]
           /\ UNCHANGED <<path, original>>
        \/ rot' = [at |-> "restoreAgain", current |-> rot.current, new |-> rot.new]
           /\ UNCHANGED <<path, original>>
    BY <1>0, <1>10 DEF Restore
  <2> QED
    BY <1>0, <1>10, <2>1 DEF Restore
<1>11. CASE RemoveOriginal
  <2>1. \/ rot' = [at |-> "changed", current |-> rot.current, new |-> rot.new]
        \/ rot' = [at |-> "removeTemp", current |-> rot.current, new |-> rot.new]
    BY <1>0, <1>11 DEF RemoveOriginal
  <2> QED
    BY <1>0, <1>11, <2>1 DEF RemoveOriginal
<1>12. CASE RemoveTemp
  <2>1. rot' = [at |-> "failed", current |-> rot.current, new |-> rot.new]
    BY <1>0, <1>12 DEF RemoveTemp
  <2> QED
    BY <1>0, <1>12, <2>1 DEF RemoveTemp
<1>13. CASE KillRotation
  <2>1. rot' = [at |-> "killed", current |-> rot.current, new |-> rot.new]
    BY <1>0, <1>13 DEF KillRotation
  <2> QED
    BY Zenon, <1>0, <1>13, <2>1 DEF KillRotation
<1> QED
  BY <1>1, <1>2, <1>3, <1>4, <1>5, <1>6, <1>7, <1>8, <1>9, <1>10, <1>11,
     <1>12, <1>13

LEMMA BackupStep ==
  ASSUME WalletInv,
         \/ \E password \in Password : BackupEncrypted(password)
         \/ OpenBoth \/ Copy \/ VerifyBackup \/ RemoveBackup \/ KillBackup
  PROVE  WalletInv'
<1> USE DEF BackupAt
<1>1. UNCHANGED rotation
  BY DEF BackupEncrypted, OpenBoth, Copy, VerifyBackup, RemoveBackup, KillBackup
<1>2. KeptBackupOpens'
  BY DEF WalletInv, KeptBackupOpens, BackupEncrypted, OpenBoth, Copy,
         VerifyBackup, RemoveBackup, KillBackup
<1>3. (bak \in [at : {"idle"}] \cup [at : {"open"}, password : Password]
              \cup [at : {"copy", "verify", "remove", "kept"},
                    password : Password, source : Content])'
  BY DEF WalletInv, BackupEncrypted, OpenBoth, Copy, VerifyBackup, RemoveBackup,
         KillBackup
<1> QED
  BY <1>1, <1>2, <1>3 DEF WalletInv, rotation, KeyNeverLost, OriginalInPlace

(***************************************************************************)
(* Whatever fails and whichever process is killed, the wallet or the       *)
(* original that was set aside holds the key; an error keeps the original; *)
(* a backup that is kept opens (ChangeEncryptedPassword, BackupEncrypted). *)
(***************************************************************************)
THEOREM WalletSafety ==
  WalletSpec => [](KeyIsKept /\ KeptBackupOpens)
<1>1. WalletInit => WalletInv
  BY WalletInitInv
<1>2. WalletInv /\ [WalletNext]_walletVars => WalletInv'
  <2> SUFFICES ASSUME WalletInv, [WalletNext]_walletVars PROVE WalletInv'
    OBVIOUS
  <2>1. CASE UNCHANGED walletVars
    BY <2>1 DEF walletVars, rotation, backup, WalletInv, KeyNeverLost, KeptBackupOpens,
                OriginalInPlace
  <2> QED
    BY <2>1, RotationStep, BackupStep DEF WalletNext
<1>3. WalletInv => KeyIsKept /\ KeptBackupOpens
  BY DEF WalletInv, KeyIsKept, ErrorKeepsOriginal
<1> QED
  BY <1>1, <1>2, <1>3, PTL DEF WalletSpec

(***************************************************************************)
(* A backup that BackupEncrypted reports as made opens with its password,  *)
(* whatever rotation ran while it was copied.                              *)
(***************************************************************************)
THEOREM BackupOpens == WalletSpec => []KeptBackupOpens
BY WalletSafety, PTL

-----------------------------------------------------------------------------
(***************************************************************************)
(* The supervisors of the miner.                                           *)
(***************************************************************************)

\* Where Run is while MineOne waits for a child.
Mining == {"sweeping", "funding", "reward"}

Label == Mining \cup {"off", "sleep", "status", "balance", "sweep", "verify",
                       "fund", "fundVerify", "scheduled"}

(***************************************************************************)
(* OneChild is not inductive: an exit gives the lock up whoever holds it.  *)
(* A supervisor that runs holds the lock, so only the holder can exit, and *)
(* a child exists only while its supervisor waits in MineOne, so that the  *)
(* supervisor cannot have ended before it.                                 *)
(***************************************************************************)
IInv ==
  /\ sup \in [Process -> [at : Label, mined : Nat]]
  /\ child = [p \in Process |-> child[p]]
  /\ \A p \in Process : sup[p].at # "off" => lock = p
  /\ \A p \in Process : child[p] # NoChild => sup[p].at \in Mining

LEMMA InitInv == Init => IInv
BY DEF Init, IInv, Off, NoChild, Label, Mining

\* A step of one supervisor that keeps its lock, and starts a child only to
\* wait for it.
LEMMA StepOfOne ==
  ASSUME IInv, NEW p \in Process, NEW s \in [at : Label, mined : Nat], NEW c,
         sup' = [sup EXCEPT ![p] = s],
         child' = [child EXCEPT ![p] = c],
         lock' = lock,
         s.at # "off" => lock = p,
         c # NoChild => s.at \in Mining
  PROVE  IInv'
<1>1. /\ sup' \in [Process -> [at : Label, mined : Nat]]
      /\ sup'[p] = s
      /\ \A q \in Process \ {p} : sup'[q] = sup[q]
  BY DEF IInv
<1>2. /\ child' = [q \in Process |-> child'[q]]
      /\ child'[p] = c
      /\ \A q \in Process \ {p} : child'[q] = child[q]
  BY Zenon DEF IInv
<1> QED
  BY <1>1, <1>2 DEF IInv

\* A step that moves no supervisor and makes no child.
LEMMA StepOfNone ==
  ASSUME IInv, sup' = sup, lock' = lock,
         child' = [p \in Process |-> child'[p]],
         \A p \in Process : child'[p] # NoChild => child[p] # NoChild
  PROVE  IInv'
BY DEF IInv

LEMMA ExitStep ==
  ASSUME IInv, NEW p \in Process, sup[p].at # "off", Exit(p)
  PROVE  IInv'
<1>1. \A q \in Process \ {p} : sup[q].at = "off" /\ child[q] = NoChild
  BY DEF IInv, Mining
<1>2. /\ sup' \in [Process -> [at : Label, mined : Nat]]
      /\ \A q \in Process : sup'[q].at = "off"
  BY <1>1 DEF IInv, Exit, Off, Label
<1>3. /\ child' = [q \in Process |-> child'[q]]
      /\ \A q \in Process : child'[q] = NoChild
  BY <1>1 DEF IInv, Exit
<1> QED
  BY <1>2, <1>3 DEF IInv

\* The record of a supervisor after its label, or its counter, is set.
LEMMA Relabelled ==
  ASSUME IInv, NEW p \in Process, NEW label \in Label,
         sup' = [sup EXCEPT ![p].at = label]
  PROVE  /\ sup' = [sup EXCEPT ![p] = [at |-> label, mined |-> sup[p].mined]]
         /\ [at |-> label, mined |-> sup[p].mined] \in [at : Label, mined : Nat]
<1>1. sup[p] \in [at : Label, mined : Nat]
  BY DEF IInv
<1>2. [sup[p] EXCEPT !.at = label] = [at |-> label, mined |-> sup[p].mined]
  BY <1>1
<1>3. sup' = [sup EXCEPT ![p] = [sup[p] EXCEPT !.at = label]]
  BY DEF IInv
<1> QED
  BY Zenon, <1>1, <1>2, <1>3

\* A supervisor that runs moves on while no child is there.
LEMMA MoveStep ==
  ASSUME IInv, NEW p \in Process, NEW label \in Label,
         sup[p].at \notin Mining \cup {"off"},
         sup' = [sup EXCEPT ![p].at = label], child' = child, lock' = lock
  PROVE  IInv'
<1>1. child[p] = NoChild /\ lock = p /\ child' = [child EXCEPT ![p] = NoChild]
  BY DEF IInv
<1> DEFINE s == [at |-> label, mined |-> sup[p].mined]
<1>2. sup' = [sup EXCEPT ![p] = s] /\ s \in [at : Label, mined : Nat]
  BY Zenon, Relabelled
<1> HIDE DEF s
<1> QED
  BY Zenon, <1>1, <1>2, StepOfOne

LEMMA StartChildStep ==
  ASSUME IInv, NEW p \in Process, NEW label \in Mining,
         sup[p].at # "off", StartChild(p, label)
  PROVE  IInv'
<1>1. label \in Label /\ lock = p
  BY DEF IInv, Mining, Label
<1> QED
  BY Zenon, <1>1, Relabelled, StepOfOne DEF StartChild, Goto

LEMMA SuperviseStep ==
  ASSUME IInv, NEW p \in Process, Supervise(p)
  PROVE  IInv'
<1> USE DEF At, Goto, Label
<1>1. CASE Start(p)
  <2>1. /\ sup' = [sup EXCEPT ![p] = [at |-> "status", mined |-> sup[p].mined]]
        /\ [at |-> "status", mined |-> sup[p].mined] \in [at : Label, mined : Nat]
    BY Zenon, <1>1, Relabelled DEF Start
  <2>2. \A q \in Process : sup[q].at = "off" /\ child[q] = NoChild
    BY <1>1, DemandAssumption DEF Start, IInv, Mining
  <2>3. /\ sup' \in [Process -> [at : Label, mined : Nat]]
        /\ \A q \in Process \ {p} : sup'[q].at = "off"
    BY <2>1, <2>2 DEF IInv
  <2> QED
    BY <1>1, <2>2, <2>3 DEF Start, IInv, world
<1>2. CASE Stop(p)
  BY <1>2, ExitStep DEF Stop
<1>3. CASE Sleep(p)
  BY <1>3, MoveStep DEF Sleep, Mining
<1>4. CASE RequestFails(p)
  BY <1>4, MoveStep DEF RequestFails, Move, Mining
<1>5. CASE Status(p)
  <2>1. CASE ~rightNode
    BY <1>5, <2>1, ExitStep DEF Status
  <2>2. CASE rightNode
    <3> DEFINE label == IF pending # {} THEN "sweep" ELSE "balance"
    <3>1. sup' = [sup EXCEPT ![p] = [at |-> label, mined |-> 0]]
      BY <1>5, <2>2 DEF Status, IInv
    <3>2. [at |-> label, mined |-> 0] \in [at : Label, mined : Nat]
      OBVIOUS
    <3>3. /\ lock = p /\ lock' = lock
          /\ child[p] = NoChild /\ child' = [child EXCEPT ![p] = NoChild]
      BY Zenon, <1>5, <2>2 DEF Status, IInv, Mining
    <3> QED
      BY Zenon, <3>1, <3>2, <3>3, StepOfOne
  <2> QED
    BY <2>1, <2>2
<1>6. CASE Balance(p)
  <2>1. \/ Move(p, "fund") \/ Move(p, "scheduled")
    BY <1>6 DEF Balance
  <2> QED
    BY <1>6, <2>1, MoveStep DEF Balance, Move, Mining
<1>7. CASE Sweep(p)
  <2>1. CASE Move(p, "sleep")
    BY <1>7, <2>1, MoveStep DEF Sweep, Move, Mining
  <2>2. CASE SweepDone(p)
    BY <1>7, <2>2, MoveStep DEF Sweep, SweepDone, Mining
  <2>3. CASE StartChild(p, "sweeping")
    BY <1>7, <2>3, StartChildStep DEF Sweep, Mining
  <2> QED
    BY <1>7, <2>1, <2>2, <2>3 DEF Sweep
<1>8. CASE SweepVerify(p)
  <2>1. /\ sup[p].at \notin Mining \cup {"off"}
        /\ Goto(p, "sleep") /\ child' = child /\ lock' = lock
    BY <1>8 DEF SweepVerify, SweepDone, Move, Mining
  <2> QED
    BY Zenon, <2>1, MoveStep
<1>9. CASE Fund(p)
  <2>1. CASE StartChild(p, "funding")
    BY <1>9, <2>1, StartChildStep DEF Fund, Mining
  <2>2. CASE SweepDone(p)
    BY <1>9, <2>2, MoveStep DEF Fund, SweepDone, Mining
  <2> QED
    BY <1>9, <2>1, <2>2 DEF Fund
<1>10. CASE FundVerify(p)
  <2>1. /\ sup[p].at \notin Mining \cup {"off"}
        /\ Goto(p, "sleep") /\ child' = child /\ lock' = lock
    BY <1>10 DEF FundVerify, SweepDone, Move, Mining
  <2> QED
    BY <2>1, MoveStep
<1>11. CASE Scheduled(p)
  <2>1. CASE StartChild(p, "reward")
    BY <1>11, <2>1, StartChildStep DEF Scheduled, Mining
  <2>2. CASE Move(p, "sleep")
    <3>1. /\ sup[p].at \notin Mining \cup {"off"}
          /\ Goto(p, "sleep") /\ child' = child /\ lock' = lock
      BY <1>11, <2>2 DEF Scheduled, Move, Mining
    <3> QED
      BY <3>1, MoveStep
  <2> QED
    BY <1>11, <2>1, <2>2 DEF Scheduled
<1>12. ASSUME MineOneFails(p), child[p] # NoChild PROVE IInv'
  <2> DEFINE s == [at |-> "sleep", mined |-> sup[p].mined]
  <2>1. lock = p
    BY <1>12 DEF IInv, Mining
  <2>2. /\ sup' = [sup EXCEPT ![p] = s]
        /\ s \in [at : Label, mined : Nat]
    BY Zenon, <1>12, Relabelled DEF MineOneFails
  <2>3. child' = [child EXCEPT ![p] = NoChild] /\ lock' = lock
    BY <1>12 DEF MineOneFails
  <2> HIDE DEF s
  <2> QED
    BY Zenon, <2>1, <2>2, <2>3, StepOfOne
<1>13. ASSUME MineOneReturns(p), child[p] # NoChild PROVE IInv'
  <2>1. lock = p /\ sup[p].at \in Mining
    BY <1>13 DEF IInv, Mining
  <2> DEFINE mined == sup[p].mined + 1
             Then(limit, again, verify) == IF mined < limit THEN again ELSE verify
             label == CASE sup[p].at = "sweeping" ->
                             Then(BlocksPerSweepLimit, "sweep", "verify")
                        [] sup[p].at = "funding" ->
                             Then(FaucetFundingBlocksLimit, "fund", "fundVerify")
                        [] sup[p].at = "reward" -> "sleep"
  <2>2. AfterBlock(p) \in [at : Label, mined : Nat]
    <3>1. mined \in Nat
      BY DEF IInv
    <3>2. label \in Label
      BY <2>1 DEF Mining
    <3>3. AfterBlock(p) = [sup[p] EXCEPT !.mined = mined, !.at = label]
      BY DEF AfterBlock
    <3>4. sup[p] \in [at : Label, mined : Nat]
      BY DEF IInv
    <3> HIDE DEF mined, label, Label
    <3>5. AfterBlock(p) = [at |-> label, mined |-> mined]
      BY Zenon, <3>3, <3>4
    <3> QED
      BY <3>1, <3>2, <3>5
  <2> QED
    BY Zenon, <1>13, <2>1, <2>2, StepOfOne DEF MineOneReturns
<1>14. CASE Reaped(p)
  <2>1. child[p] # NoChild
    BY <1>14 DEF Reaped, NoChild
  <2> QED
    BY <1>12, <1>13, <1>14, <2>1 DEF Reaped
<1>15. CASE Timeout(p)
  BY <1>12, <1>15 DEF Timeout
<1> QED
  BY <1>1, <1>2, <1>3, <1>4, <1>5, <1>6, <1>7, <1>8, <1>9, <1>10, <1>11, <1>14,
     <1>15 DEF Supervise

LEMMA ChildStep ==
  ASSUME IInv, NEW p \in Process, Child(p)
  PROVE  IInv'
<1>1. child[p].at \in {"started", "copied"}
  BY Zenon DEF Child, ChildSync, ChildAlone, ChildFollows, ChildFails, ChildMines
<1>2. child[p] # NoChild
  BY <1>1 DEF NoChild
<1>3. \E r : ChildBecomes(p, r)
  BY Zenon DEF Child, ChildSync, ChildAlone, ChildFollows, ChildFails, ChildMines
<1> QED
  BY <1>2, <1>3, StepOfNone DEF ChildBecomes, IInv

LEMMA SeedStep ==
  ASSUME IInv, Seed
  PROVE  IInv'
<1>1. CASE child' = child
  BY <1>1, StepOfNone
     DEF Seed, Submit, Adopt, Rival, NewTip, Drop, OtherNetwork, IInv
<1>2. CASE child' = [p \in Process |-> IF child[p].at = "copied"
                                       THEN [child[p] EXCEPT !.fresh = FALSE] ELSE child[p]]
  <2>1. \A p \in Process : child'[p] # NoChild => child[p] # NoChild
    BY <1>2 DEF NoChild
  <2>2. child' = [p \in Process |-> child'[p]]
    BY <1>2
  <2> QED
    BY <2>1, <2>2, StepOfNone DEF Seed, Submit, Adopt, Rival, NewTip, Drop, OtherNetwork
<1> QED
  BY <1>1, <1>2 DEF Seed, Submit, Adopt, Rival, NewTip, Drop, OtherNetwork

LEMMA StepInv == IInv /\ [Next]_vars => IInv'
<1> SUFFICES ASSUME IInv, [Next]_vars PROVE IInv'
  OBVIOUS
<1>1. CASE HalfHourPasses
  BY <1>1, StepOfNone DEF HalfHourPasses, IInv
<1>2. CASE UNCHANGED vars
  BY <1>2, StepOfNone DEF vars, IInv
<1> QED
  BY <1>1, <1>2, SuperviseStep, ChildStep, SeedStep DEF Next

(***************************************************************************)
(* However many supervisors are started, stopped, killed and timed out in  *)
(* whatever order, a mining child belongs to the holder of the lock file,  *)
(* so no two run at once (acquireLock, Supervisor.Run, MineOne).           *)
(***************************************************************************)
THEOREM OneChildAtATime == Spec => []OneChild
<1>1. IInv => OneChild
  BY DEF IInv, OneChild, Running, Mining
<1> QED
  BY <1>1, InitInv, StepInv, PTL DEF Spec
=============================================================================

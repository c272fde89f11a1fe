---------------------------- MODULE WalletFiles -----------------------------
(***************************************************************************)
(* The encrypted wallet file under ChangeEncryptedPassword, which replaces *)
(* it by one encrypted with a new password, and BackupEncrypted, which     *)
(* copies it (wallet/management.go).  The two may be run by two processes. *)
(* Every operation on a file may fail, and either process may be killed.   *)
(*                                                                         *)
(* A file holds the key encrypted with a password, or is torn: it          *)
(* decrypts with that password only.                                       *)
(***************************************************************************)
EXTENDS Naturals

CONSTANTS Password, Absent, Torn

ASSUME WalletAssumption ==
  /\ Absent \notin Password
  /\ Torn \notin Password

VARIABLES
  path,      \* the wallet
  temp,      \* .sudharma-wallet-rotate-*
  original,  \* .sudharma-wallet-original-*
  dest,      \* the destination of a backup
  rot,       \* ChangeEncryptedPassword: step and local variables
  bak        \* BackupEncrypted: step and local variables

rotation == <<path, temp, original, rot>>
backup == <<dest, bak>>
walletVars == <<rotation, backup>>

Content == Password \cup {Absent, Torn}

WalletInit ==
  /\ path \in Password
  /\ temp = Absent
  /\ original = Absent
  /\ dest = Absent
  /\ rot = [at |-> "idle"]
  /\ bak = [at |-> "idle"]

-----------------------------------------------------------------------------
(***************************************************************************)
(* ChangeEncryptedPassword.                                                *)
(***************************************************************************)
RotationAt(label) == rot.at = label

Go(label) == rot' = [rot EXCEPT !.at = label]

\* LoadEncrypted of the wallet and the checks of the arguments; the file
\* names of an earlier call are never used again.
ChangeEncryptedPassword(current, new) ==
  /\ rot.at \in {"idle", "changed", "failed", "killed"}
  /\ path = current
  /\ current # new
  /\ rot' = [at |-> "createTemp", current |-> current, new |-> new]
  /\ temp' = Absent
  /\ original' = Absent
  /\ UNCHANGED <<path, backup>>

CreateTemp ==
  /\ RotationAt("createTemp")
  /\ \/ temp' = Torn /\ Go("saveTemp")
     \/ temp' = temp /\ Go("failed")
  /\ UNCHANGED <<path, original, backup>>

SaveTemp ==
  /\ RotationAt("saveTemp")
  /\ \/ temp' = rot.new /\ Go("checkTemp")
     \/ temp' = Torn /\ Go("removeTemp")
  /\ UNCHANGED <<path, original, backup>>

\* Reading may fail; what it reads is what is there.
CheckTemp ==
  /\ RotationAt("checkTemp")
  /\ \/ temp = rot.new /\ Go("reserve")
     \/ Go("removeTemp")
  /\ UNCHANGED <<path, temp, original, backup>>

\* Reserve a name: create the file and remove it.
ReserveOriginal ==
  /\ RotationAt("reserve")
  /\ \/ original' = Absent /\ Go("moveAside")
     \/ original' \in {Absent, Torn} /\ Go("removeTemp")
  /\ UNCHANGED <<path, temp, backup>>

\* The wallet is removed, not moved.
MoveAside_removes ==
  /\ RotationAt("moveAside")
  /\ path' = Absent
  /\ Go("install")
  /\ UNCHANGED <<temp, original, backup>>

MoveAside ==
  /\ RotationAt("moveAside")
  /\ \/ /\ path # Absent
        /\ original' = path
        /\ path' = Absent
        /\ Go("install")
     \/ UNCHANGED <<path, original>> /\ Go("removeTemp")
  /\ UNCHANGED <<temp, backup>>

Install ==
  /\ RotationAt("install")
  /\ \/ /\ temp # Absent
        /\ path' = temp
        /\ temp' = Absent
        /\ Go("verify")
     \/ UNCHANGED <<path, temp>> /\ Go("restore")
  /\ UNCHANGED <<original, backup>>

Verify ==
  /\ RotationAt("verify")
  /\ \/ path = rot.new /\ Go("removeOriginal")
     \/ Go("discard")
  /\ UNCHANGED <<path, temp, original, backup>>

\* A wallet that does not verify is removed, if that is possible.
Discard ==
  /\ RotationAt("discard")
  /\ path' \in {Absent, path}
  /\ Go("restore")
  /\ UNCHANGED <<temp, original, backup>>

\* The first attempt, and the deferred one when it fails.
Restore ==
  /\ rot.at \in {"restore", "restoreAgain"}
  /\ \/ /\ original # Absent
        /\ path' = original
        /\ original' = Absent
        /\ Go("removeTemp")
     \/ /\ UNCHANGED <<path, original>>
        /\ Go(IF RotationAt("restore") THEN "restoreAgain" ELSE "removeTemp")
  /\ UNCHANGED <<temp, backup>>

\* The rotation is done; an original that stays is reported as an error.
RemoveOriginal ==
  /\ RotationAt("removeOriginal")
  /\ \/ original' = Absent /\ Go("changed")
     \/ original' = original /\ Go("removeTemp")
  /\ UNCHANGED <<path, temp, backup>>

\* The deferred os.Remove(tempPath) of a call that returns an error.
RemoveTemp ==
  /\ RotationAt("removeTemp")
  /\ temp' \in {Absent, temp}
  /\ Go("failed")
  /\ UNCHANGED <<path, original, backup>>

KillRotation ==
  /\ rot.at \notin {"idle", "changed", "failed", "killed"}
  /\ Go("killed")
  /\ UNCHANGED <<path, temp, original, backup>>

-----------------------------------------------------------------------------
(***************************************************************************)
(* BackupEncrypted.                                                        *)
(***************************************************************************)
BackupAt(label) == bak.at = label

\* LoadEncrypted of the source.
BackupEncrypted(password) ==
  /\ BackupAt("idle")
  /\ path = password
  /\ bak' = [at |-> "open", password |-> password]
  /\ UNCHANGED <<dest, rotation>>

\* Open the source, then create the destination, which must not exist.
OpenBoth ==
  /\ BackupAt("open")
  /\ \/ /\ path # Absent /\ dest = Absent
        /\ dest' = Torn
        /\ bak' = [at |-> "copy", password |-> bak.password, source |-> path]
     \/ /\ dest' = dest
        /\ bak' = [at |-> "idle"]
  /\ UNCHANGED rotation

Copy ==
  /\ BackupAt("copy")
  /\ \/ dest' = bak.source /\ bak' = [bak EXCEPT !.at = "verify"]
     \/ dest' = Torn /\ bak' = [bak EXCEPT !.at = "remove"]
  /\ UNCHANGED rotation

VerifyBackup_skipped ==
  /\ BackupAt("verify")
  /\ bak' = [bak EXCEPT !.at = "kept"]
  /\ UNCHANGED <<dest, rotation>>

VerifyBackup ==
  /\ BackupAt("verify")
  /\ \/ dest = bak.password /\ bak' = [bak EXCEPT !.at = "kept"]
     \/ bak' = [bak EXCEPT !.at = "remove"]
  /\ UNCHANGED <<dest, rotation>>

RemoveBackup ==
  /\ BackupAt("remove")
  /\ dest' \in {Absent, dest}
  /\ bak' = [at |-> "idle"]
  /\ UNCHANGED rotation

KillBackup ==
  /\ bak.at \notin {"idle", "kept"}
  /\ bak' = [at |-> "idle"]
  /\ UNCHANGED <<dest, rotation>>

WalletNext ==
  \/ \E current, new \in Password : ChangeEncryptedPassword(current, new)
  \/ CreateTemp \/ SaveTemp \/ CheckTemp \/ ReserveOriginal \/ MoveAside
  \/ Install \/ Verify \/ Discard \/ Restore \/ RemoveOriginal \/ RemoveTemp
  \/ KillRotation
  \/ \E password \in Password : BackupEncrypted(password)
  \/ OpenBoth \/ Copy \/ VerifyBackup \/ RemoveBackup \/ KillBackup

WalletSpec == WalletInit /\ [][WalletNext]_walletVars

-----------------------------------------------------------------------------
KeyNeverLost ==
  rot.at # "idle" => rot.current \in {path, original} \/ path = rot.new

ErrorKeepsOriginal ==
  /\ rot.at = "failed" => rot.current \in {path, original}
  /\ rot.at = "changed" => path = rot.new /\ original = Absent

(***************************************************************************)
(* Wherever either process fails or is killed, a file decrypts with the    *)
(* password the user has or asked for, and it is the wallet or the         *)
(* original set aside: a temporary file is never the only copy.  A         *)
(* rotation that returns an error leaves the original, in its place or     *)
(* where it was set aside; one that returns without leaves the new wallet  *)
(* alone (ChangeEncryptedPassword and its deferred restore).               *)
(***************************************************************************)
KeyIsKept == KeyNeverLost /\ ErrorKeepsOriginal

(***************************************************************************)
(* A backup that is reported as made opens with the password that it was   *)
(* made with, whatever rotation ran meanwhile (BackupEncrypted).           *)
(***************************************************************************)
KeptBackupOpens == bak.at = "kept" => dest = bak.password
=============================================================================

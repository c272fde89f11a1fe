---------------------------- MODULE FileReplace -----------------------------
(***************************************************************************)
(* How the node replaces one of its files: the data goes to a temporary    *)
(* file beside it, which is renamed over it.  SaveToFile of the state and  *)
(* SaveMempoolToFile remove the old file before they rename, SaveToFile    *)
(* of the chain and SaveKnownPeersToFile do not (afterWrite).              *)
(*                                                                         *)
(* A name refers to an inode.  A saver that has a file open goes on        *)
(* writing to its inode wherever the name moves.  A crash ends the         *)
(* process, not the operating system: what was written stays.              *)
(***************************************************************************)
EXTENDS Naturals, FiniteSets

CONSTANTS
  Saver,        \* calls that may overlap
  Snapshot,     \* what there is to save
  Inode,
  NoInode, Partial

ASSUME FileAssumption ==
  /\ NoInode \notin Inode
  /\ Partial \notin Snapshot

VARIABLES
  afterWrite,  \* the next step of a save of this file; it never changes
  target,      \* the inode of the file, or NoInode
  tempFile,    \* the inode of the temporary file, or NoInode
  content,     \* of each inode
  call,        \* where each saver is
  last         \* the snapshot of the last save that succeeded, Partial if none

replaceVars == <<afterWrite, target, tempFile, content, call, last>>

NoCall == [at |-> "idle"]

CallAt(s, label) == call[s].at = label

Become(s, new) == call' = [call EXCEPT ![s] = new]

Held == {call[s].inode : s \in {t \in Saver : CallAt(t, "write")}}

Unused == Inode \ (Held \cup {target, tempFile})

ReplaceInit ==
  /\ afterWrite \in {"remove", "rename"}
  /\ target = NoInode
  /\ tempFile = NoInode
  /\ content = [i \in Inode |-> Partial]
  /\ call = [s \in Saver |-> NoCall]
  /\ last = Partial

\* The data goes straight to the file.
OpenTemp_inPlace(s, data) ==
  /\ CallAt(s, "idle")
  /\ \E i \in IF target # NoInode THEN {target} ELSE Unused :
       /\ target' = i
       /\ content' = [content EXCEPT ![i] = Partial]
       /\ Become(s, [at |-> "write", inode |-> i, data |-> data])
  /\ UNCHANGED <<tempFile, last>>

\* Open the temporary file, truncated if it is there.
OpenTemp(s, data) ==
  /\ CallAt(s, "idle")
  /\ \E i \in IF tempFile # NoInode THEN {tempFile} ELSE Unused :
       /\ tempFile' = i
       /\ content' = [content EXCEPT ![i] = Partial]
       /\ Become(s, [at |-> "write", inode |-> i, data |-> data])
  /\ UNCHANGED <<target, last>>

\* The old file is removed where the code only renames.
WriteTemp_thenRemove(s) ==
  /\ CallAt(s, "write")
  /\ content' = [content EXCEPT ![call[s].inode] = call[s].data]
  /\ Become(s, [at |-> "remove", data |-> call[s].data])
  /\ UNCHANGED <<target, tempFile, last>>

\* Over the data of another saver a tail of it may stay.
WriteTemp(s) ==
  /\ CallAt(s, "write")
  /\ LET i == call[s].inode
     IN  \E result \in IF content[i] = Partial THEN {call[s].data}
                                            ELSE {call[s].data, Partial} :
           content' = [content EXCEPT ![i] = result]
  /\ Become(s, [at |-> afterWrite, data |-> call[s].data])
  /\ UNCHANGED <<target, tempFile, last>>

RemoveTarget(s) ==
  /\ CallAt(s, "remove")
  /\ target' = NoInode
  /\ Become(s, [call[s] EXCEPT !.at = "rename"])
  /\ UNCHANGED <<tempFile, content, last>>

RenameTemp(s) ==
  /\ CallAt(s, "rename")
  /\ tempFile # NoInode
  /\ target' = tempFile
  /\ tempFile' = NoInode
  /\ last' = call[s].data
  /\ Become(s, NoCall)
  /\ UNCHANGED content

\* An operation fails; some calls clean up the temporary file.
Fail(s) ==
  /\ ~CallAt(s, "idle")
  /\ tempFile' \in {tempFile, NoInode}
  /\ Become(s, NoCall)
  /\ UNCHANGED <<target, content, last>>

ProcessEnds ==
  /\ call' = [s \in Saver |-> NoCall]
  /\ UNCHANGED <<target, tempFile, content, last>>

ReplaceNext ==
  /\ \/ \E s \in Saver :
          \/ \E data \in Snapshot : OpenTemp(s, data)
          \/ WriteTemp(s) \/ RemoveTarget(s) \/ RenameTemp(s) \/ Fail(s)
     \/ ProcessEnds
  /\ UNCHANGED afterWrite

ReplaceSpec == ReplaceInit /\ [][ReplaceNext]_replaceVars

-----------------------------------------------------------------------------
Call ==
  {NoCall} \cup [at : {"write"}, inode : Inode, data : Snapshot]
         \cup [at : {"remove", "rename"}, data : Snapshot]

ReplaceTypeOK ==
  /\ afterWrite \in {"remove", "rename"}
  /\ target \in Inode \cup {NoInode}
  /\ tempFile \in Inode \cup {NoInode}
  /\ content \in [Inode -> Snapshot \cup {Partial}]
  /\ call \in [Saver -> Call]
  /\ last \in Snapshot \cup {Partial}

(***************************************************************************)
(* Whenever the process stops, the file holds the data of the last save    *)
(* that succeeded, whole, or is missing (SaveToFile, SaveMempoolToFile,    *)
(* SaveKnownPeersToFile).                                                  *)
(***************************************************************************)
FileHoldsLastSave == target # NoInode => content[target] = last

(***************************************************************************)
(* A file that is replaced by os.Rename alone never disappears once it     *)
(* exists, whatever fails and wherever the process stops (SaveToFile of    *)
(* the chain, SaveKnownPeersToFile).                                       *)
(***************************************************************************)
FileSurvives == [][afterWrite = "rename" /\ target # NoInode => target' # NoInode]_replaceVars
=============================================================================

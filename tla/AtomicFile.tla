----------------------------- MODULE AtomicFile -----------------------------
(***************************************************************************)
(* Durable writes (pkg/atomicio): a temp file beside the destination, its  *)
(* fsync, a rename over the destination and an fsync of the directory, by  *)
(* writers that may be at work on one path together.                       *)
(*                                                                         *)
(* One action is one system call.  A process or the machine may die after  *)
(* any of them, and each may fail.  A file that was not synced may be torn *)
(* after a power loss, and a directory that was not may name any of the    *)
(* files the path named since it was.  WriteReader differs from WriteFile  *)
(* in where the bytes come from; the mode of a file is left out, and so is *)
(* a call that fails before it created anything.                           *)
(***************************************************************************)
EXTENDS Naturals

CONSTANTS
    Writer,    \* callers
    Value,     \* contents, or the targets of a symlink
    Initial,   \* what the path holds before the first write
    Torn,      \* a content nobody wrote
    IsLink,    \* the path is a symlink, written by ReplaceSymlink
    MaxRenames \* how many writes a behaviour may contain, give or take a writer

VARIABLES
    pc,       \* where each writer is
    handle,   \* the file it has created
    name,     \* the file the path names
    onDisk,   \* the files the path may name after a power loss
    orphans,  \* ages of the temp files no writer is at work on
    renames,  \* history: how many files the path has named
    settled   \* history: the last of them that a caller knows to be durable

vars == <<pc, handle, name, onDisk, orphans, renames, settled>>

PC == {"idle", "write", "sync", "close", "rename", "syncDir", "discard"}

\* The number of a file is its place among those the path has named.
File == [data : Value \cup {Initial, Torn}, synced : BOOLEAN, number : Nat]
Fresh == [data |-> Torn, synced |-> FALSE, number |-> 0]

Goto(w, there) == pc' = [pc EXCEPT ![w] = there]

-----------------------------------------------------------------------------
(* WriteFile and WriteReader.                                              *)

CreateTemp(w) ==
    /\ ~IsLink /\ pc[w] = "idle" /\ renames < MaxRenames
    /\ handle' = [handle EXCEPT ![w] = Fresh]
    /\ Goto(w, "write")
    /\ UNCHANGED <<name, onDisk, orphans, renames, settled>>

Write(w, v) ==
    /\ pc[w] = "write"
    /\ handle' = [handle EXCEPT ![w].data = v]
    /\ Goto(w, "sync")
    /\ UNCHANGED <<name, onDisk, orphans, renames, settled>>

SyncFile(w) ==
    /\ pc[w] = "sync"
    /\ handle' = [handle EXCEPT ![w].synced = TRUE]
    /\ Goto(w, "close")
    /\ UNCHANGED <<name, onDisk, orphans, renames, settled>>

CloseFile(w) ==
    /\ pc[w] = "close"
    /\ Goto(w, "rename")
    /\ UNCHANGED <<handle, name, onDisk, orphans, renames, settled>>

\* Any of these calls, or the rename, returns an error.
Fails(w) ==
    /\ pc[w] \in {"write", "sync", "close", "rename"}
    /\ Goto(w, "discard")
    /\ UNCHANGED <<handle, name, onDisk, orphans, renames, settled>>

\* The caller gets the error; one of the removal is ignored.
Discard(w) ==
    /\ pc[w] = "discard"
    /\ \/ UNCHANGED orphans
       \/ orphans' = orphans \cup {"young"}
    /\ Goto(w, "idle")
    /\ UNCHANGED <<handle, name, onDisk, renames, settled>>

-----------------------------------------------------------------------------
(* ReplaceSymlink.  Its temp has one name, so callers take turns.          *)

\* A temp an earlier process left is removed first; with it in the way there is
\* no link.
Symlink(w, v) ==
    /\ IsLink /\ renames < MaxRenames
    /\ \A u \in Writer : pc[u] = "idle"
    /\ orphans' = {}
    /\ handle' = [handle EXCEPT ![w] = [Fresh EXCEPT !.data = v, !.synced = TRUE]]
    /\ Goto(w, "rename")
    /\ UNCHANGED <<name, onDisk, renames, settled>>

-----------------------------------------------------------------------------
(* Both.                                                                   *)

Rename(w) ==
    /\ pc[w] = "rename"
    /\ renames' = renames + 1
    /\ handle' = [handle EXCEPT ![w].number = renames']
    /\ name' = handle'[w]
    /\ onDisk' = onDisk \cup {name'}
    /\ Goto(w, "syncDir")
    /\ UNCHANGED <<orphans, settled>>

\* The call returns; the path names this writer's file, or a later one's.
fsyncDir(w) ==
    /\ pc[w] = "syncDir"
    /\ onDisk' = {name}
    /\ settled' = IF handle[w].number > settled THEN handle[w].number ELSE settled
    /\ Goto(w, "idle")
    /\ UNCHANGED <<handle, name, orphans, renames>>

\* A directory that cannot be synced is logged, and the call returns as well.
fsyncDirFails(w) ==
    /\ pc[w] = "syncDir"
    /\ Goto(w, "idle")
    /\ UNCHANGED <<handle, name, onDisk, orphans, renames, settled>>

-----------------------------------------------------------------------------
(* Crashes, and the sweep of the next process.                             *)

\* The temps of the writers stay behind.
Abandoned ==
    IF \E w \in Writer : pc[w] \notin {"idle", "syncDir"} THEN {"young"} ELSE {}

Crash ==
    /\ pc' = [w \in Writer |-> "idle"]
    /\ orphans' = orphans \cup Abandoned
    /\ UNCHANGED <<handle, name, onDisk, renames, settled>>

\* What is left of a file.
Survivors(f) ==
    IF f.synced THEN {f} ELSE {f, [f EXCEPT !.data = Torn]}

\* Whether a temp survives is the file system's choice.
PowerLoss ==
    /\ pc' = [w \in Writer |-> "idle"]
    /\ \E f \in onDisk : name' \in Survivors(f)
    /\ onDisk' = {name'}
    /\ orphans' \in SUBSET (orphans \cup Abandoned)
    /\ UNCHANGED <<handle, renames, settled>>

\* Temps of files, not of links, and only old ones; one that cannot be removed
\* is logged.
SweepStaleTemp ==
    /\ ~IsLink /\ \A w \in Writer : pc[w] = "idle"
    /\ orphans' = orphans \ {"old"}
    /\ UNCHANGED <<pc, handle, name, onDisk, renames, settled>>

GrowOld ==
    /\ "young" \in orphans
    /\ orphans' = {"old"}
    /\ UNCHANGED <<pc, handle, name, onDisk, renames, settled>>

-----------------------------------------------------------------------------
Init ==
    /\ pc = [w \in Writer |-> "idle"]
    /\ handle = [w \in Writer |-> Fresh]
    /\ name = [data |-> Initial, synced |-> TRUE, number |-> 0]
    /\ onDisk = {name}
    /\ orphans = {}
    /\ renames = 0 /\ settled = 0

Next ==
    \/ \E w \in Writer :
          \/ CreateTemp(w) \/ SyncFile(w) \/ CloseFile(w) \/ Fails(w) \/ Discard(w)
          \/ \E v \in Value : Write(w, v) \/ Symlink(w, v)
          \/ Rename(w) \/ fsyncDir(w) \/ fsyncDirFails(w)
    \/ Crash \/ PowerLoss
    \/ SweepStaleTemp \/ GrowOld

Spec == Init /\ [][Next]_vars

-----------------------------------------------------------------------------
(* Properties.                                                             *)

\* Every variable has its type.
TypeOK ==
    /\ pc \in [Writer -> PC]
    /\ handle \in [Writer -> File]
    /\ name \in File
    /\ onDisk \subseteq File
    /\ orphans \subseteq {"young", "old"}
    /\ renames \in Nat /\ settled \in Nat

\* No power loss brings back a content older than one whose write has returned
\* after its directory was synced, whoever else writes to the path.
NeverOlder == \A f \in onDisk : f.number >= settled

Durable == INSTANCE DurableFile WITH
              content <- name.data,
              stable <- {f.data : f \in onDisk}

\* Readers find whole contents, before and after a power loss, and only a rename
\* changes what they find (WriteFile, WriteReader, ReplaceSymlink).
Refines == Durable!Spec
=============================================================================

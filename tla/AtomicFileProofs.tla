-------------------------- MODULE AtomicFileProofs --------------------------
(***************************************************************************)
(* Proofs about AtomicFile, for every number of writers, with every crash  *)
(* and power loss, and whatever the constants are.  What makes it work is  *)
(* that a file is synced before its name is, and that a writer which has   *)
(* renamed its file finds that file or a later one when it syncs the       *)
(* directory.                                                              *)
(***************************************************************************)
EXTENDS AtomicFile, TLAPS

\* A file about to be renamed has a whole content, and it is synced.
Ready ==
    \A w \in Writer :
       /\ pc[w] \in {"sync", "close", "rename"} => handle[w].data \in Value
       /\ pc[w] \in {"close", "rename"} => handle[w].synced

\* Every file the path may name is synced.
Whole == name \in onDisk /\ \A f \in onDisk : f.synced

\* A writer that has renamed its file and goes on finds it, or a later one.
Overtaken ==
    /\ \A f \in onDisk : f.number <= renames
    /\ \A w \in Writer : pc[w] = "syncDir" => handle[w].number <= name.number

IInv == TypeOK /\ Ready /\ Whole /\ Overtaken /\ NeverOlder

LEMMA InitIInv == Init => IInv
BY DEF Init, IInv, TypeOK, Ready, Whole, Overtaken, NeverOlder, PC, File, Fresh

-----------------------------------------------------------------------------
(* The steps.                                                              *)

LEMMA BeginStep ==
    ASSUME IInv, NEW w \in Writer,
           CreateTemp(w) \/ SyncFile(w) \/ CloseFile(w) \/ Fails(w) \/ Discard(w)
    PROVE  IInv'
<1> USE DEF IInv, Goto
<1>1. CASE CreateTemp(w)
  BY <1>1 DEF CreateTemp, TypeOK, Ready, Whole, Overtaken, NeverOlder, PC, File, Fresh
<1>2. CASE SyncFile(w)
  BY <1>2 DEF SyncFile, TypeOK, Ready, Whole, Overtaken, NeverOlder, PC, File
<1>3. CASE CloseFile(w)
  BY <1>3 DEF CloseFile, TypeOK, Ready, Whole, Overtaken, NeverOlder, PC
<1>4. CASE Fails(w)
  BY <1>4 DEF Fails, TypeOK, Ready, Whole, Overtaken, NeverOlder, PC
<1>5. CASE Discard(w)
  BY <1>5 DEF Discard, TypeOK, Ready, Whole, Overtaken, NeverOlder, PC
<1> QED  BY <1>1, <1>2, <1>3, <1>4, <1>5

LEMMA ContentStep ==
    ASSUME IInv, NEW w \in Writer, NEW v \in Value, Write(w, v) \/ Symlink(w, v)
    PROVE  IInv'
<1> USE DEF IInv, Goto
<1>1. CASE Write(w, v)
  BY <1>1 DEF Write, TypeOK, Ready, Whole, Overtaken, NeverOlder, PC, File
<1>2. CASE Symlink(w, v)
  BY <1>2 DEF Symlink, TypeOK, Ready, Whole, Overtaken, NeverOlder, PC, File, Fresh
<1> QED  BY <1>1, <1>2

LEMMA RenameStep ==
    ASSUME IInv, NEW w \in Writer, Rename(w)
    PROVE  IInv'
<1> USE DEF IInv, Goto, Rename
<1>1. /\ handle'[w] = [handle[w] EXCEPT !.number = renames + 1]
      /\ handle'[w] \in File /\ handle'[w].number = renames + 1
      /\ handle'[w].synced /\ name' = handle'[w]
  BY DEF TypeOK, Ready, File
<1>2. TypeOK'
  BY <1>1 DEF TypeOK, PC, File
<1>3. Ready'
  BY DEF TypeOK, Ready
<1>4. Whole'
  BY <1>1 DEF Whole
<1>5. Overtaken'
  BY <1>1 DEF TypeOK, Whole, Overtaken, File
<1>6. NeverOlder'
  BY <1>1 DEF TypeOK, Whole, Overtaken, NeverOlder, File
<1> QED  BY <1>2, <1>3, <1>4, <1>5, <1>6

LEMMA SyncDirStep ==
    ASSUME IInv, NEW w \in Writer, fsyncDir(w) \/ fsyncDirFails(w)
    PROVE  IInv'
<1> USE DEF IInv, Goto
<1>1. CASE fsyncDir(w)
  <2>1. TypeOK' /\ Ready' /\ Whole' /\ Overtaken'
    BY <1>1 DEF fsyncDir, TypeOK, Ready, Whole, Overtaken, PC, File
  <2>2. name.number >= settled /\ name.number >= handle[w].number
    BY <1>1 DEF fsyncDir, TypeOK, Whole, Overtaken, NeverOlder, File
  <2>3. NeverOlder'
    BY <1>1, <2>2 DEF fsyncDir, NeverOlder
  <2> QED  BY <2>1, <2>3
<1>2. CASE fsyncDirFails(w)
  BY <1>2 DEF fsyncDirFails, TypeOK, Ready, Whole, Overtaken, NeverOlder, PC
<1> QED  BY <1>1, <1>2

\* What the machine forgets is only which of the files the path names.
LEMMA PowerLossStep ==
    ASSUME IInv, PowerLoss
    PROVE  IInv' /\ name' \in onDisk
<1> USE DEF IInv, PowerLoss
<1>1. name' \in onDisk
  BY DEF Whole, Survivors
<1>2. TypeOK'
  BY <1>1 DEF TypeOK, PC, Abandoned
<1>3. Ready' /\ Whole' /\ NeverOlder'
  BY <1>1 DEF Ready, Whole, NeverOlder
<1>4. Overtaken'
  BY <1>1 DEF TypeOK, Overtaken
<1> QED  BY <1>1, <1>2, <1>3, <1>4

LEMMA OtherStep ==
    ASSUME IInv, Crash \/ SweepStaleTemp \/ GrowOld
    PROVE  IInv'
<1> USE DEF IInv
<1>1. CASE Crash
  BY <1>1 DEF Crash, Abandoned, TypeOK, Ready, Whole, Overtaken, NeverOlder, PC
<1>2. CASE SweepStaleTemp
  BY <1>2 DEF SweepStaleTemp, TypeOK, Ready, Whole, Overtaken, NeverOlder
<1>3. CASE GrowOld
  BY <1>3 DEF GrowOld, TypeOK, Ready, Whole, Overtaken, NeverOlder
<1> QED  BY <1>1, <1>2, <1>3

LEMMA StepIInv == IInv /\ [Next]_vars => IInv'
<1> SUFFICES ASSUME IInv, [Next]_vars PROVE IInv'
  OBVIOUS
<1>1. CASE UNCHANGED vars
  BY <1>1 DEF vars, IInv, TypeOK, Ready, Whole, Overtaken, NeverOlder
<1>2. CASE Next
  BY <1>2, BeginStep, ContentStep, RenameStep, SyncDirStep, PowerLossStep, OtherStep
     DEF Next
<1> QED  BY <1>1, <1>2

LEMMA Invariance == Spec => []IInv
BY InitIInv, StepIInv, PTL DEF Spec

-----------------------------------------------------------------------------
(* The theorems.                                                           *)

\* Every variable keeps its type.
THEOREM TypeCorrect == Spec => []TypeOK
BY Invariance, PTL DEF IInv

\* A write that has returned with its directory synced is never undone: a power
\* loss brings back its content or a later one, even when several callers write
\* to the path together (atomicio.go:58-67, 98-107).
THEOREM NothingGrowsOlder == Spec => []NeverOlder
BY Invariance, PTL DEF IInv

LEMMA InitDurable == Init => Durable!Init
BY DEF Init, Durable!Init

\* Only a rename, the sync of the directory and a power loss show.
LEMMA StepDurable ==
    ASSUME IInv, [Next]_vars
    PROVE  [Durable!Next]_Durable!vars
<1> USE DEF IInv
<1>1. ASSUME NEW w \in Writer, Rename(w)
      PROVE  Durable!Next
  <2>1. PICK v \in Value : name'.data = v
    BY <1>1 DEF Rename, Ready, TypeOK, File
  <2>2. {f.data : f \in onDisk}' = {f.data : f \in onDisk} \cup {v}
    BY <1>1, <2>1 DEF Rename
  <2>3. Durable!Replace(v)
    BY <2>1, <2>2 DEF Durable!Replace
  <2> QED  BY <2>3 DEF Durable!Next
<1>2. ASSUME NEW w \in Writer, fsyncDir(w)
      PROVE  Durable!Next
  BY <1>2 DEF fsyncDir, Durable!Settle, Durable!Next
<1>3. ASSUME PowerLoss
      PROVE  Durable!Next
  <2>1. name' \in onDisk
    BY <1>3, PowerLossStep
  <2>2. {f.data : f \in onDisk}' = {name'.data}
    BY <1>3 DEF PowerLoss
  <2>3. Durable!PowerLoss
    BY <2>1, <2>2 DEF Durable!PowerLoss
  <2> QED  BY <2>3 DEF Durable!Next
<1>4. ASSUME UNCHANGED <<name, onDisk>>
      PROVE  UNCHANGED Durable!vars
  BY <1>4 DEF Durable!vars
<1>5. CASE UNCHANGED vars
  BY <1>4, <1>5 DEF vars
<1>6. CASE Next
  <2>1. ASSUME NEW w \in Writer,
               CreateTemp(w) \/ SyncFile(w) \/ CloseFile(w) \/ Fails(w) \/ Discard(w)
                  \/ fsyncDirFails(w)
        PROVE  UNCHANGED <<name, onDisk>>
    BY <2>1 DEF CreateTemp, SyncFile, CloseFile, Fails, Discard, fsyncDirFails
  <2>2. ASSUME NEW w \in Writer, NEW v \in Value, Write(w, v) \/ Symlink(w, v)
        PROVE  UNCHANGED <<name, onDisk>>
    BY <2>2 DEF Write, Symlink
  <2>3. ASSUME Crash \/ SweepStaleTemp \/ GrowOld
        PROVE  UNCHANGED <<name, onDisk>>
    BY <2>3 DEF Crash, SweepStaleTemp, GrowOld
  <2> QED  BY <1>1, <1>2, <1>3, <1>4, <1>6, <2>1, <2>2, <2>3 DEF Next
<1> QED  BY <1>5, <1>6

\* The protocol implements the durable register: readers find whole contents of
\* real writes, before and after a power loss, and nothing but a rename changes
\* what they find (atomicio.go:1-19).
THEOREM Refinement == Spec => Refines
<1>1. IInv /\ [Next]_vars => [Durable!Next]_Durable!vars
  BY StepDurable
<1> QED  BY InitDurable, Invariance, <1>1, PTL DEF Spec, Refines, Durable!Spec
=============================================================================

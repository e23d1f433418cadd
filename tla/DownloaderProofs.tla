-------------------------- MODULE DownloaderProofs --------------------------
(***************************************************************************)
(* Until the first fault on the device, a resume always continues behind   *)
(* the right bytes, for any payloads, sizes, transports and retries.       *)
(***************************************************************************)
EXTENDS Downloader, TLAPS

-----------------------------------------------------------------------------
(* The partial file.                                                       *)

\* A file stays one when a block is written anywhere.
LEMMA WriteIsAFile ==
    ASSUME NEW t \in Payload, NEW n \in Nat, partial \in Seq(Block),
           partial' = WriteAt(partial, n + 1, t)
    PROVE  partial' \in Seq(Block)
<1> DEFINE m == IF Len(partial) > n + 1 THEN Len(partial) ELSE n + 1
<1>1. m \in Nat
  OBVIOUS
<1>2. partial' = [i \in 1..m |->
                     IF i = n + 1 THEN t
                     ELSE IF i <= Len(partial) THEN partial[i] ELSE Hole]
  BY DEF WriteAt
<1>3. \A i \in 1..m : partial'[i] \in Block
  BY <1>2 DEF Block
<1> QED
  BY <1>1, <1>2, <1>3

\* A block written behind the first n blocks of a payload makes it n + 1.
LEMMA WriteExtends ==
    ASSUME NEW t \in Payload, NEW n \in Nat, partial \in Seq(Block),
           Holds(t, n), partial' = WriteAt(partial, n + 1, t)
    PROVE  /\ n + 1 <= Len(partial')
           /\ \A i \in 1..(n + 1) : partial'[i] = t
<1> DEFINE m == IF Len(partial) > n + 1 THEN Len(partial) ELSE n + 1
<1>1. m \in Nat /\ m >= n + 1 /\ m >= Len(partial)
  OBVIOUS
<1>2. partial' = [i \in 1..m |->
                     IF i = n + 1 THEN t
                     ELSE IF i <= Len(partial) THEN partial[i] ELSE Hole]
  BY DEF WriteAt
<1>3. partial' \in Seq(Block)
  BY WriteIsAFile
<1>4. Len(partial') = m
  BY <1>1, <1>2, <1>3
<1>5. ASSUME NEW i \in 1..(n + 1) PROVE partial'[i] = t
  BY <1>1, <1>2 DEF Holds
<1> QED
  BY <1>1, <1>4, <1>5

\* A file with holes in it and its end cut off is a file.
LEMMA DamagedIsAFile ==
    ASSUME partial \in Seq(Block), NEW n \in 0..Len(partial),
           NEW lost \in SUBSET (1..Len(partial))
    PROVE  [i \in 1..n |-> IF i \in lost THEN Hole ELSE partial[i]] \in Seq(Block)
<1> DEFINE f == [i \in 1..n |-> IF i \in lost THEN Hole ELSE partial[i]]
<1>1. \A i \in 1..n : f[i] \in Block
  BY DEF Block
<1> HIDE DEF f
<1>2. f \in [1..n -> Block]
  BY <1>1 DEF f
<1> QED
  BY <1>2 DEF f
-----------------------------------------------------------------------------
(* Types.                                                                  *)

LEMMA TypeInit == Init => TypeOK
BY ConstantsAssumption DEF Init, TypeOK, PC, Block

LEMMA TypeStep == TypeOK /\ [Next]_vars => TypeOK'
<1> SUFFICES ASSUME TypeOK, [Next]_vars PROVE TypeOK'
  OBVIOUS
<1> USE ConstantsAssumption DEF TypeOK, PC, State, Fault
<1>1. ASSUME NEW via \in Transport, Start(via) PROVE TypeOK'
  <2>1. StateMatches(tgt', via) => state \in State
    BY <1>1 DEF Start, StateMatches
  <2>2. offset' \in Nat
    BY <1>1, <2>1 DEF Start
  <2> QED
    BY <1>1, <2>2 DEF Start, disk, environment
<1>2. CASE FetchFails
  BY <1>2 DEF FetchFails, disk, call, environment
<1>3. CASE ResumeUnsupported
  BY <1>3 DEF ResumeUnsupported, call, environment
<1>4. CASE FetchRange
  BY <1>4 DEF FetchRange, disk, call, environment
<1>5. CASE RangeIgnored
  BY <1>5 DEF RangeIgnored, call
<1>6. CASE CopyBlock
  <2>1. partial' \in Seq(Block)
    BY <1>6, WriteIsAFile DEF CopyBlock
  <2> QED
    BY <1>6, <2>1 DEF CopyBlock, call, environment
<1>7. CASE CopyFails
  BY <1>7 DEF CopyFails, disk, call, environment
<1>8. CASE CopyDone
  BY <1>8 DEF CopyDone, disk, call, environment
<1>9. CASE saveState
  <2>1. Progress \in State
    BY DEF Progress
  <2>2. state' \in State \cup {None} /\ diskState' \in State \cup {None}
    BY <1>9, <2>1 DEF saveState
  <2>3. pc' \in PC /\ attempt' \in Nat /\ faults' \in Nat
    BY <1>9 DEF saveState
  <2> QED
    BY <1>9, <2>2, <2>3 DEF saveState, call
<1>10. CASE Finalize
  BY <1>10 DEF Finalize, call, environment
<1>11. CASE Mismatch
  BY <1>11 DEF Mismatch, call, environment
<1>12. CASE VerifyFails
  BY <1>12 DEF VerifyFails, disk, call
<1>13. CASE clearState
  BY <1>13 DEF clearState, clearedState, call, environment
<1>14. CASE Launch
  <2>1. CASE UNCHANGED <<partial, faults>>
    BY <1>14, <2>1 DEF Launch, call
  <2>2. CASE Fault("sweep") /\ partial' = << >>
    BY <1>14, <2>2 DEF Launch, call
  <2> QED
    BY <1>14, <2>1, <2>2 DEF Launch
<1>15. CASE Crash
  BY <1>15 DEF Crash, disk, call
<1>16. CASE PowerLoss
  <2>1. partial' \in Seq(Block)
    BY <1>16, DamagedIsAFile DEF PowerLoss
  <2> QED
    BY <1>16, <2>1 DEF PowerLoss, call
<1>17. ASSUME NEW t \in Payload, Retarget(t) PROVE TypeOK'
  BY <1>17 DEF Retarget, disk, call
<1>18. CASE UNCHANGED vars
  BY <1>18 DEF vars
<1> QED
  BY <1>1, <1>2, <1>3, <1>4, <1>5, <1>6, <1>7, <1>8, <1>9, <1>10, <1>11,
     <1>12, <1>13, <1>14, <1>15, <1>16, <1>17, <1>18 DEF Next, Step

\* Every variable of the downloader keeps its type; in particular the partial
\* file stays a file, whatever seeks, losses and sweeps do to it.
THEOREM DownloadTypes == Spec => []TypeOK
<1> QED
  BY TypeInit, TypeStep, PTL DEF Spec

-----------------------------------------------------------------------------
(* Resuming.                                                               *)

\* What a running attempt counts as received is in the file, and so is what the
\* saved state promises to the next call.
Resumable ==
    /\ pc \in {"fetch", "copy", "save", "verify"} => Holds(tgt, offset)
    /\ pc = "idle" /\ state # None => Holds(state.hash, state.received)
    /\ pc # "down"

\* All of it until the first fault.
ResumeInv == faults = 0 => Resumable

\* A fault is never the zeroth.
LEMMA FaultCounts ==
    ASSUME TypeOK, NEW kind, Fault(kind)
    PROVE  faults' # 0
BY DEF Fault, TypeOK

\* Faults are counted, never forgotten.
LEMMA NoFaultBefore ==
    ASSUME TypeOK, [Next]_vars, faults' = 0
    PROVE  faults = 0
BY FaultCounts DEF Next, Step, vars, environment, Start, FetchFails,
   ResumeUnsupported, FetchRange, RangeIgnored, CopyBlock, CopyFails, CopyDone,
   saveState, Finalize, Mismatch, VerifyFails, clearState, Launch, Crash,
   PowerLoss, Retarget

\* Nothing received is nothing to check.
LEMMA HoldsNothing ==
    ASSUME TypeOK, NEW t PROVE Holds(t, 0)
BY DEF Holds, TypeOK

LEMMA ResumeStep ==
    ASSUME TypeOK, ResumeInv, [Next]_vars
    PROVE  ResumeInv'
<1> SUFFICES ASSUME faults' = 0 PROVE Resumable'
  BY DEF ResumeInv
<1>a. Resumable
  BY NoFaultBefore DEF ResumeInv
<1>0. TypeOK'
  BY TypeStep
<1> USE <1>a DEF Resumable
<1>1. ASSUME NEW via \in Transport, Start(via) PROVE Resumable'
  <2>1. CASE StateMatches(tgt', via)
    <3>1. Holds(tgt', offset')
      BY <1>1, <2>1 DEF Start, StateMatches
    <3>2. Holds(tgt, offset)'
      BY <1>1, <3>1 DEF Start, disk, Holds
    <3> QED
      BY <1>1, <3>2 DEF Start
  <2>2. CASE ~StateMatches(tgt', via)
    <3>1. Holds(tgt, 0)'
      BY <1>0 DEF Holds, TypeOK
    <3> QED
      BY <1>1, <2>2, <3>1 DEF Start
  <2> QED
    BY <2>1, <2>2
<1>2. CASE FetchFails
  BY <1>2 DEF FetchFails, disk, call, Holds
<1>3. CASE ResumeUnsupported
  BY <1>3 DEF ResumeUnsupported, Holds
<1>4. CASE FetchRange
  BY <1>4 DEF FetchRange, disk, call, Holds
<1>5. CASE RangeIgnored
  BY <1>5, FaultCounts DEF RangeIgnored
<1>6. CASE CopyBlock
  <2>1. /\ offset + 1 <= Len(partial')
        /\ \A i \in 1..(offset + 1) : partial'[i] = tgt
    BY <1>6, WriteExtends DEF CopyBlock, TypeOK
  <2> QED
    BY <1>6, <2>1 DEF CopyBlock, call, Holds
<1>7. CASE CopyFails
  BY <1>7 DEF CopyFails, disk, call, Holds
<1>8. CASE CopyDone
  BY <1>8 DEF CopyDone, disk, call, Holds
<1>9. CASE saveState
  <2>1. CASE Fault("io")
    BY <1>9, <2>1, FaultCounts
  <2>2. CASE state' = Progress /\ UNCHANGED faults
    <3>1. state'.hash = tgt /\ state'.received = offset
      BY <2>2 DEF Progress
    <3>2. Holds(tgt, offset)' /\ Holds(state.hash, state.received)'
      BY <1>9, <3>1 DEF saveState, call, Holds
    <3> QED
      BY <1>9, <2>2, <3>2 DEF saveState
  <2> QED
    BY <1>9, <2>1, <2>2 DEF saveState
<1>10. CASE Finalize
  BY <1>10 DEF Finalize
<1>11. CASE Mismatch
  BY <1>11 DEF Mismatch
<1>12. CASE VerifyFails
  BY <1>12, FaultCounts DEF VerifyFails
<1>13. CASE clearState
  BY <1>13 DEF clearState, clearedState
<1>14. CASE Launch
  BY <1>14, FaultCounts DEF Launch
<1>15. CASE Crash
  BY <1>15, FaultCounts DEF Crash
<1>16. CASE PowerLoss
  BY <1>16, FaultCounts DEF PowerLoss
<1>17. ASSUME NEW t \in Payload, Retarget(t) PROVE Resumable'
  BY <1>17 DEF Retarget, disk, call, Holds
<1>18. CASE UNCHANGED vars
  BY <1>18 DEF vars, Holds
<1> QED
  BY <1>1, <1>2, <1>3, <1>4, <1>5, <1>6, <1>7, <1>8, <1>9, <1>10, <1>11,
     <1>12, <1>13, <1>14, <1>15, <1>16, <1>17, <1>18 DEF Next, Step

\* Until the first fault, no attempt ever continues behind bytes of another
\* payload: payloads of any size may replace each other, and transports and
\* broken attempts alternate, in any order.
THEOREM ResumeSafety == Spec => []ResumeSound
<1>1. Init => ResumeInv
  BY DEF Init, ResumeInv, Resumable
<1>2. TypeOK /\ ResumeInv /\ [Next]_vars => ResumeInv'
  BY ResumeStep
<1>3. ResumeInv => ResumeSound
  BY DEF ResumeInv, Resumable, ResumeSound
<1> QED
  BY <1>1, <1>2, <1>3, DownloadTypes, PTL DEF Spec

-----------------------------------------------------------------------------
(* Waste.                                                                  *)

\* What may be thrown away so far.
Allowance == faults + offered.moves

\* Nothing on the device can cost a transfer: what is received now, or will be
\* by the next call, continues the offered payload, and the file is no longer.
Clean ==
    /\ pc # "down"
    /\ pc \in {"fetch", "copy", "save", "verify"} =>
          /\ tgt = offered.payload
          /\ Holds(tgt, offset)
          /\ Len(partial) <= Size[tgt]
    /\ pc = "verify" => offset = Size[tgt]
    /\ pc \in {"clear", "discard"} => partial = << >>
    /\ pc = "idle" =>
          /\ Len(partial) <= Size[offered.payload]
          /\ state # None /\ state.hash = offered.payload
                => Holds(state.hash, state.received)

\* Something that could, has a fault or a new payload that caused it.
WasteInv ==
    /\ wasted <= Allowance
    /\ wasted = Allowance => Clean

\* A fault or a new payload covers whatever it breaks.
LEMMA CauseCovers ==
    ASSUME TypeOK, WasteInv, UNCHANGED wasted, Allowance' = Allowance + 1
    PROVE  WasteInv'
BY DEF TypeOK, WasteInv, Allowance

\* A step that breaks nothing needs no cause.
LEMMA CleanStays ==
    ASSUME WasteInv, UNCHANGED <<wasted, faults, offered>>, Clean => Clean'
    PROVE  WasteInv'
BY DEF WasteInv, Allowance

\* A whole payload in a file no longer than it is what was asked for.
LEMMA WholeMatches ==
    ASSUME TypeOK, Clean, pc = "verify"
    PROVE  HashMatches(partial)
<1>1. Len(partial) = Size[tgt] /\ \A i \in 1..Size[tgt] : partial[i] = tgt
  BY ConstantsAssumption DEF TypeOK, Clean, Holds
<1>2. partial = [i \in 1..Len(partial) |-> partial[i]]
  BY DEF TypeOK
<1> QED
  BY <1>1, <1>2 DEF HashMatches, Whole

\* A block behind the received ones makes the file no longer than the payload.
LEMMA WriteFits ==
    ASSUME TypeOK, CopyBlock, Len(partial) <= Size[tgt]
    PROVE  Len(partial') <= Size[tgt]
<1> DEFINE m == IF Len(partial) > offset + 1 THEN Len(partial) ELSE offset + 1
<1>1. m \in Nat /\ m <= Size[tgt]
  BY ConstantsAssumption DEF TypeOK, CopyBlock
<1>2. partial' = [i \in 1..m |->
                     IF i = offset + 1 THEN tgt
                     ELSE IF i <= Len(partial) THEN partial[i] ELSE Hole]
  BY DEF CopyBlock, WriteAt
<1>3. partial' \in Seq(Block)
  BY WriteIsAFile DEF TypeOK, CopyBlock
<1>4. Len(partial') = m
  BY <1>1, <1>2, <1>3
<1> QED
  BY <1>1, <1>4

LEMMA WasteStep ==
    ASSUME TypeOK, WasteInv, [Next]_vars
    PROVE  WasteInv'
<1>0. TypeOK'
  BY TypeStep
<1>a. ASSUME NEW kind, Fault(kind), UNCHANGED <<offered, wasted>>
      PROVE  WasteInv'
  <2>1. Allowance' = Allowance + 1
    BY <1>a DEF Fault, Allowance, TypeOK
  <2> QED
    BY <1>a, <2>1, CauseCovers
<1> USE ConstantsAssumption
<1>1. ASSUME NEW via \in Transport, Start(via) PROVE WasteInv'
  <2>1. ASSUME Clean PROVE Clean'
    <3>1. Holds(tgt', offset')
      BY <1>1, <2>1 DEF Start, Clean, StateMatches, Holds, TypeOK
    <3>2. Holds(tgt, offset)'
      BY <1>1, <3>1 DEF Start, disk, Holds
    <3> QED
      BY <1>1, <2>1, <3>2 DEF Start, Clean, disk, environment
  <2> QED
    BY <1>1, <2>1, CleanStays DEF Start, environment
<1>2. CASE FetchFails \/ FetchRange \/ CopyFails \/ CopyDone
  <2>1. ASSUME Clean PROVE Clean'
    BY <1>2, <2>1 DEF FetchFails, FetchRange, CopyFails, CopyDone, Clean, Holds,
          disk, call, environment
  <2> QED
    BY <1>2, <2>1, CleanStays DEF FetchFails, FetchRange, CopyFails, CopyDone,
          environment
<1>3. CASE ResumeUnsupported
  <2>1. ASSUME Clean PROVE Clean'
    BY <1>3, <2>1 DEF ResumeUnsupported, Clean, Holds, call, environment, TypeOK
  <2> QED
    BY <1>3, <2>1, CleanStays DEF ResumeUnsupported, environment
<1>4. CASE CopyBlock
  <2>1. ASSUME Clean PROVE Clean'
    <3>1. /\ offset + 1 <= Len(partial')
          /\ \A i \in 1..(offset + 1) : partial'[i] = tgt
      BY <1>4, <2>1, WriteExtends DEF CopyBlock, TypeOK, Clean
    <3>2. Len(partial') <= Size[tgt]
      BY <1>4, <2>1, WriteFits DEF CopyBlock, Clean
    <3> QED
      BY <1>4, <2>1, <3>1, <3>2 DEF CopyBlock, Clean, Holds, call, environment
  <2> QED
    BY <1>4, <2>1, CleanStays DEF CopyBlock, environment
<1>5. CASE saveState
  <2>1. CASE Fault("io")
    BY <1>5, <2>1, <1>a DEF saveState
  <2>2. CASE state' = Progress /\ UNCHANGED faults
    <3>1. ASSUME Clean PROVE Clean'
      <4>1. state'.hash = tgt /\ state'.received = offset
        BY <2>2 DEF Progress
      <4> QED
        BY <1>5, <3>1, <4>1 DEF saveState, Clean, Holds, call
    <3> QED
      BY <1>5, <2>2, <3>1, CleanStays DEF saveState
  <2> QED
    BY <1>5, <2>1, <2>2 DEF saveState
<1>6. CASE Finalize
  <2>1. ASSUME Clean PROVE Clean'
    BY <1>6, <2>1 DEF Finalize, Clean
  <2> QED
    BY <1>6, <2>1, CleanStays DEF Finalize, environment
<1>7. CASE Mismatch
  <2>1. ~Clean
    BY <1>7, WholeMatches DEF Mismatch
  <2>2. wasted < Allowance
    BY <2>1 DEF WasteInv, TypeOK, Allowance
  <2>3. Clean'
    BY <1>7 DEF Mismatch, Clean
  <2>4. wasted' = wasted + 1 /\ Allowance' = Allowance
    BY <1>7 DEF Mismatch, Allowance, environment
  <2> QED
    BY <2>2, <2>3, <2>4 DEF WasteInv, TypeOK, Allowance
<1>8. CASE clearState
  <2>1. ASSUME Clean PROVE Clean'
    BY <1>8, <2>1 DEF clearState, clearedState, Clean, call, environment, TypeOK
  <2> QED
    BY <1>8, <2>1, CleanStays DEF clearState, environment
<1>9. CASE Launch
  <2>1. CASE UNCHANGED <<partial, faults>>
    <3>1. ~Clean
      BY <1>9 DEF Launch, Clean
    <3> QED
      BY <1>9, <2>1, <3>1, CleanStays DEF Launch
  <2>2. CASE Fault("sweep")
    BY <1>9, <2>2, <1>a DEF Launch
  <2> QED
    BY <1>9, <2>1, <2>2 DEF Launch
<1>10. CASE RangeIgnored \/ VerifyFails \/ Crash \/ PowerLoss
  BY <1>10, <1>a DEF RangeIgnored, VerifyFails, Crash, PowerLoss
<1>11. ASSUME NEW t \in Payload, Retarget(t) PROVE WasteInv'
  <2>1. Allowance' = Allowance + 1
    BY <1>11 DEF Retarget, Allowance, TypeOK
  <2> QED
    BY <1>11, <2>1, CauseCovers DEF Retarget
<1>12. CASE UNCHANGED vars
  BY <1>12 DEF vars, WasteInv, Allowance, Clean, Holds
<1> QED
  BY <1>1, <1>2, <1>3, <1>4, <1>5, <1>6, <1>7, <1>8, <1>9, <1>10, <1>11, <1>12
     DEF Next, Step

\* Each transfer the device throws away has a fault or a new payload of its own
\* to blame, however many of them there are (Downloader.Download).
THEOREM WasteIsBounded == Spec => []WasteIsExplained
<1>1. Init => WasteInv
  BY ConstantsAssumption DEF Init, WasteInv, Allowance, Clean
<1>2. TypeOK /\ WasteInv /\ [Next]_vars => WasteInv'
  BY WasteStep
<1>3. WasteInv => WasteIsExplained
  BY DEF WasteInv, Allowance, WasteIsExplained
<1> QED
  BY <1>1, <1>2, <1>3, DownloadTypes, PTL DEF Spec

=============================================================================

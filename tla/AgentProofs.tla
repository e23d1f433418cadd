---------------------------- MODULE AgentProofs ----------------------------
(***************************************************************************)
(* What TLAPS proves of Agent, for every set of versions, every MaxBoots   *)
(* and every number of faults: types; the watchdog windows of a trial;     *)
(* safety and the implementation of SafeUpdate; the boot counter.          *)
(*                                                                         *)
(* Types and windows need no assumption.  Safety needs a marker that can   *)
(* be removed and read (MarkerKept), and nothing that interrupts the undo  *)
(* of a failed restart (Undisturbed), or no such restart (MarkerReliable), *)
(* or no second fault (OneFault).  The boot counter needs removals that    *)
(* last (CounterReliable).                                                 *)
(***************************************************************************)
EXTENDS Agent, TLAPS

-----------------------------------------------------------------------------
(* Type correctness.                                                       *)

\* What RunOnce's local variables hold once the code has assigned them.
CycleTyped ==
    /\ pc \in {"heartbeat", "transfer", "stage", "mark", "swap"} => base \in Binary
    /\ pc \in {"transfer", "stage", "mark", "swap"} => target \in Binary
    /\ pc = "stage" => newBin \in Binary

TypeInv == TypeOK /\ CycleTyped

LEMMA OtherSlot ==
    ASSUME NEW s \in Slots
    PROVE  Other(s) \in Slots /\ Other(s) # s /\ Other(Other(s)) = s
BY DEF Slots, Other

LEMMA NoCountTyped == NoCount \in Counter
BY DEF NoCount, Counter

LEMMA TypeInit == Init => TypeInv
<1> SUFFICES ASSUME Init PROVE TypeInv
  OBVIOUS
<1>1. slot \in [Slots -> Binary] /\ active \in Slots
  BY ConstantsAssumption DEF Init, Slots
<1>2. published \in [target : Binary, moves : Nat] /\ boots \in [Binary -> Nat]
  BY ConstantsAssumption DEF Init
<1>3. pc = "down" /\ pc \in PC
  BY DEF Init, PC
<1> QED
  BY <1>1, <1>2, <1>3, NoCountTyped, ConstantsAssumption
     DEF Init, TypeInv, TypeOK, CycleTyped

LEMMA TypeBoot == TypeInv /\ BootStep => TypeInv'
<1> SUFFICES ASSUME TypeInv, BootStep PROVE TypeInv'
  OBVIOUS
<1> USE ConstantsAssumption, OtherSlot, NoCountTyped
    DEF TypeInv, TypeOK, CycleTyped, PC,
        BootPC, CyclePC, disk, files, marker, counter, process, cycle,
        environment, history, tally
<1>1. CASE SteadyBoot
  BY <1>1 DEF SteadyBoot
<1>2. CASE UnreadableMarker
  BY <1>2 DEF UnreadableMarker, Fault
<1>3. CASE MismatchedMarker
  BY <1>3 DEF MismatchedMarker, clearPending, Fault
<1>4. CASE CheckBoot
  <2>1. bootCount' \in Counter
    BY <1>4 DEF CheckBoot, Increment, Counter
  <2>2. trialBoots' \in Nat /\ boots' \in [Binary -> Nat]
    BY <1>4 DEF CheckBoot, Saturate
  <2>3. pc' \in {"window", "rollback"} /\ condemned' \subseteq Binary
    BY <1>4 DEF CheckBoot
  <2> QED
    BY <1>4, <2>1, <2>2, <2>3 DEF CheckBoot, Sync
<1>5. CASE BootFails
  <2>1. faults' \in Nat
    BY <1>5 DEF BootFails, Fault
  <2> QED
    BY <1>5, <2>1 DEF BootFails, Exit
<1>6. CASE CrashyDies
  BY <1>6 DEF CrashyDies, Exit
<1>7. CASE HealthPass
  BY <1>7 DEF HealthPass
<1>8. CASE HealthFail
  BY <1>8 DEF HealthFail
<1>9. CASE Confirm
  BY <1>9 DEF Confirm, Reset, Fault
<1>10. CASE FinishTrial
  BY <1>10 DEF FinishTrial, clearPending, Fault
<1>11. CASE Rollback
  BY <1>11 DEF Rollback
<1>12. CASE RollbackFails
  <2>1. faults' \in Nat
    BY <1>12 DEF RollbackFails, Fault
  <2> QED
    BY <1>12, <2>1 DEF RollbackFails, Exit
<1>13. CASE RollbackReset
  BY <1>13 DEF RollbackReset, Reset, Fault
<1>14. CASE RollbackClear
  BY <1>14 DEF RollbackClear, clearPending, Fault
<1>15. CASE RollbackExec
  BY <1>15 DEF RollbackExec, StartImage
<1>16. CASE RollbackExecFails
  <2>1. faults' \in Nat
    BY <1>16 DEF RollbackExecFails, Fault
  <2> QED
    BY <1>16, <2>1 DEF RollbackExecFails, Exit
<1> QED
  BY <1>1, <1>2, <1>3, <1>4, <1>5, <1>6, <1>7, <1>8, <1>9, <1>10, <1>11, <1>12,
     <1>13, <1>14, <1>15, <1>16 DEF BootStep

LEMMA TypeCycle == TypeInv /\ CycleStep => TypeInv'
<1> SUFFICES ASSUME TypeInv, CycleStep PROVE TypeInv'
  OBVIOUS
<1> USE ConstantsAssumption, OtherSlot
    DEF TypeInv, TypeOK, CycleTyped, PC,
        BootPC, CyclePC, disk, files, marker, counter, process, cycle,
        environment, history, tally
<1>1. CASE BeginCycle
  <2>1. faults' \in Nat /\ cooldown' \in {"none", "active", "expired"}
    BY <1>1 DEF BeginCycle, clearRestartCooldown, Fault
  <2> QED
    BY <1>1, <2>1 DEF BeginCycle, Armed
<1>2. CASE NothingToApply
  BY <1>2 DEF NothingToApply, EndCycle
<1>3. CASE RejectManifest
  <2>1. faults' \in Nat
    BY <1>3 DEF RejectManifest, consumeForceOnce, Fault
  <2>2. updateNow' \in BOOLEAN /\ forceOnce' = FALSE
    BY <1>3 DEF RejectManifest, consumeForceOnce
  <2> QED
    BY <1>3, <2>1, <2>2 DEF RejectManifest, EndCycle
<1>4. CASE AcceptManifest
  <2>1. faults' \in Nat
    BY <1>4 DEF AcceptManifest, consumeForceOnce, Fault
  <2>2. updateNow' \in BOOLEAN /\ forceOnce' = FALSE
    BY <1>4 DEF AcceptManifest, consumeForceOnce
  <2> QED
    BY <1>4, <2>1, <2>2 DEF AcceptManifest, Offered
<1>5. ASSUME NEW c \in Binary \cup {Garbage}, Reconstruct(c)
      PROVE  TypeInv'
  BY <1>5 DEF Reconstruct, HashMatches
<1>6. CASE TransferFails
  BY <1>6 DEF TransferFails, EndCycle
<1>7. CASE WriteToInactive
  BY <1>7 DEF WriteToInactive, Sync
<1>8. CASE writePending
  BY <1>8 DEF writePending, NewMarker, Marker, Sync
<1>9. CASE StagingFails
  BY <1>9 DEF StagingFails, EndCycle, Fault
<1>10. CASE Swap
  BY <1>10 DEF Swap
<1>11. CASE SwapFails
  BY <1>11 DEF SwapFails, EndCycle, Fault
<1>12. CASE Exec
  BY <1>12 DEF Exec, StartImage
<1>13. CASE ExecFails
  BY <1>13 DEF ExecFails, Fault
<1>14. CASE UndoClear
  BY <1>14 DEF UndoClear, clearPending, Fault
<1>15. CASE UndoRollback
  BY <1>15 DEF UndoRollback, RollbackOrLog, Fault
<1>16. CASE armRestartCooldown
  BY <1>16 DEF armRestartCooldown, EndCycle, Sync, Fault
<1>17. CASE ReadBackFails
  BY <1>17 DEF ReadBackFails, EndCycle, Fault
<1> QED
  BY <1>1, <1>2, <1>3, <1>4, <1>5, <1>6, <1>7, <1>8, <1>9, <1>10, <1>11, <1>12,
     <1>13, <1>14, <1>15, <1>16, <1>17 DEF CycleStep

LEMMA TypeEnvironment == TypeInv /\ EnvironmentStep => TypeInv'
<1> SUFFICES ASSUME TypeInv, EnvironmentStep PROVE TypeInv'
  OBVIOUS
<1> USE ConstantsAssumption
    DEF TypeInv, TypeOK, CycleTyped, PC,
        BootPC, CyclePC, disk, files, marker, counter, process, cycle,
        environment, history, tally
<1>1. CASE Crash
  <2>1. faults' \in Nat
    BY <1>1 DEF Crash, Fault
  <2> QED
    BY <1>1, <2>1 DEF Crash, Exit
<1>2. CASE PowerLoss
  <2>1. faults' \in Nat
    BY <1>2 DEF PowerLoss, Fault
  <2> QED
    BY <1>2, <2>1 DEF PowerLoss, Exit, Sync
<1>3. CASE CooldownExpires
  BY <1>3 DEF CooldownExpires
<1>4. CASE TouchUpdateNow
  BY <1>4 DEF TouchUpdateNow
<1>5. CASE TriggerUpdate
  BY <1>5 DEF TriggerUpdate
<1>6. ASSUME NEW t \in Binary, Publish(t)
      PROVE  TypeInv'
  BY <1>6 DEF Publish
<1> QED
  BY <1>1, <1>2, <1>3, <1>4, <1>5, <1>6 DEF EnvironmentStep

LEMMA TypeStep == TypeInv /\ [Next]_vars => TypeInv'
<1> SUFFICES ASSUME TypeInv, [Next]_vars PROVE TypeInv'
  OBVIOUS
<1>1. CASE Launch \/ EnterBootPhase \/ DudDies
  BY <1>1, ConstantsAssumption
     DEF Launch, EnterBootPhase, DudDies, StartImage, Exit, TypeInv, TypeOK,
         CycleTyped, PC, BootPC, CyclePC, disk, files, marker, counter,
         process, cycle, environment, history, tally
<1>2. CASE UNCHANGED vars
  BY <1>2 DEF vars, disk, files, marker, counter, process, cycle, environment,
              history, tally, TypeInv, TypeOK, CycleTyped
<1> QED
  BY <1>1, <1>2, TypeBoot, TypeCycle, TypeEnvironment DEF Next

\* The slots hold only published versions, and every other variable has its
\* type, in every reachable state.
THEOREM TypeCorrect == Spec => []TypeOK
<1>1. Spec => []TypeInv
  BY TypeInit, TypeStep, PTL DEF Spec
<1> QED
  BY <1>1, PTL DEF TypeInv

-----------------------------------------------------------------------------
(* Safety.                                                                 *)

\* A marker can be removed, and it can be read.
MarkerKept == Faults \cap {"clear", "read"} = {}

\* After a failed restart nothing else fails between the removal of the marker
\* and the toggle; Agent_undo_crash.cfg shows why the theorems assume it.
UndoUninterrupted ==
    pc = "undoRollback" =>
        ~Crash /\ ~PowerLoss /\ (UndoRollback => active' # active)

Undisturbed == Spec /\ [][UndoUninterrupted]_vars

\* Where no restart fails, or nothing but one restart, that is so.
MarkerReliable == MarkerKept /\ "exec" \notin Faults
OneFault == MarkerKept /\ MaxFaults <= 1

-----------------------------------------------------------------------------
(* The inductive invariant.                                                *)

\* What a marker says is so, if it is about the active slot.
Truthful(m) ==
    /\ m.prev # m.new
    /\ slot[active] = m.new =>
           slot[Other(active)] = m.prev /\ m.prev \in vouched

\* The marker in the directory, and the one a power loss would bring back.
MarkersTruthful ==
    /\ pending # None => Truthful(pending) /\ diskPending = pending
    /\ diskPending # None => Truthful(diskPending)

\* Where BootPhase is, it is about the version it runs.
BootInv ==
    /\ pc \in {"starting", "boot", "window"} => running = slot[active]
    /\ pc \in {"window", "confirm", "clear", "rollback"} => Trial
    /\ pc \in {"confirm", "clear", "rbReset", "rbClear", "rbExec"} =>
           slot[active] \in vouched

\* What RunOnce has established at each point.
CycleInv ==
    /\ pc \in {"idle", "heartbeat", "transfer", "stage", "mark", "undoRollback",
               "undoArm"} => pending = None
    /\ pc \in {"heartbeat", "transfer", "stage", "mark", "swap"} =>
           base = slot[active]
    /\ pc \in {"transfer", "stage", "mark", "swap"} => target # base
    /\ pc = "stage" => newBin = target
    /\ pc \in {"mark", "swap"} => slot[Other(active)] = target
    /\ pc = "swap" => pending = NewMarker
    /\ pc \in {"exec", "undoClear"} => Trial

\* The one point without a marker for an untried version: the toggle that is
\* due there leads to a version known to work.
GapInv ==
    IF pc = "undoRollback"
       THEN /\ slot[Other(active)] \in vouched
            /\ diskPending # None => diskPending.new # slot[Other(active)]
       ELSE CrashSafe

SafeInv == GapInv /\ MarkersTruthful /\ BootInv /\ CycleInv

-----------------------------------------------------------------------------
LEMMA SafeInit == Init => SafeInv
BY DEF Init, SafeInv, GapInv, CrashSafe, MarkersTruthful, BootInv, CycleInv, Slots

\* A step that touches neither the slots nor the markers leaves both sound.
LEMMA FilesKept ==
    ASSUME MarkersTruthful, UNCHANGED <<files, marker>>,
           vouched \subseteq vouched'
    PROVE  (CrashSafe => CrashSafe') /\ MarkersTruthful'
BY DEF CrashSafe, MarkersTruthful, Truthful, Trial, files, marker

\* So does removing the marker, from a device that does not need it.
LEMMA MarkerCleared ==
    ASSUME CrashSafe, MarkersTruthful, slot[active] \in vouched,
           pending' = None, UNCHANGED <<files, diskPending, vouched>>
    PROVE  CrashSafe' /\ MarkersTruthful'
BY DEF CrashSafe, MarkersTruthful, Truthful, files

\* The toggle exchanges the two versions.
LEMMA Toggle ==
    ASSUME active \in Slots, active' = Other(active), UNCHANGED slot
    PROVE  slot'[active'] = slot[Other(active)] /\ slot'[Other(active')] = slot[active]
BY OtherSlot

\* Without the faults of MarkerKept, a removal and a read succeed.
LEMMA NoMarkerFault ==
    ASSUME MarkerKept
    PROVE  /\ clearPending => pending' = None
           /\ ~UnreadableMarker /\ ~ReadBackFails
BY DEF MarkerKept, clearPending, Fault, UnreadableMarker, ReadBackFails

LEMMA SafeBoot ==
    ASSUME MarkerKept, TypeInv, SafeInv, BootStep
    PROVE  SafeInv'
<1> USE DEF SafeInv, GapInv, BootInv, CycleInv
<1>1. CASE SteadyBoot
  <2>1. CrashSafe' /\ MarkersTruthful'
    BY <1>1, FilesKept DEF SteadyBoot, disk, history
  <2> QED
    BY <1>1, <2>1 DEF SteadyBoot, disk, files, marker
<1>2. CASE UnreadableMarker
  BY <1>2, NoMarkerFault
<1>3. CASE MismatchedMarker
  <2>1. slot[active] \in vouched /\ pending' = None
    BY <1>3, NoMarkerFault DEF MismatchedMarker, CrashSafe
  <2>2. CrashSafe' /\ MarkersTruthful'
    BY <1>3, <2>1, MarkerCleared DEF MismatchedMarker, history
  <2> QED
    BY <1>3, <2>1, <2>2 DEF MismatchedMarker
<1>4. CASE CheckBoot
  <2>1. UNCHANGED <<files, pending, vouched, running>> /\ diskPending' = pending
    BY <1>4 DEF CheckBoot, Sync, process
  <2>2. CrashSafe' /\ MarkersTruthful'
    BY <2>1, <1>4 DEF CrashSafe, MarkersTruthful, Truthful, Trial, files, CheckBoot
  <2>3. pc' \in {"window", "rollback"} /\ Trial'
    BY <1>4, <2>1 DEF CheckBoot, Trial, files
  <2> QED
    BY <1>4, <2>1, <2>2, <2>3 DEF CheckBoot, files
<1>5. CASE BootFails \/ CrashyDies \/ RollbackFails \/ RollbackExecFails
  <2>1. /\ pc # "undoRollback" /\ pc' = "down"
        /\ UNCHANGED <<files, marker, vouched>>
    BY <1>5 DEF BootFails, CrashyDies, RollbackFails, RollbackExecFails, Exit,
                disk, history
  <2> QED
    BY <2>1, FilesKept
<1>6. CASE HealthPass
  <2>1. /\ pc = "window" /\ UNCHANGED <<files, marker>>
        /\ vouched' = vouched \cup {running}
    BY <1>6 DEF HealthPass, disk
  <2>2. CrashSafe' /\ MarkersTruthful'
    BY <2>1, FilesKept
  <2>3. pc' = "confirm" /\ Trial' /\ slot'[active'] \in vouched'
    BY <1>6, <2>1 DEF HealthPass, Trial, files, marker
  <2> QED
    BY <2>2, <2>3
<1>7. CASE HealthFail
  <2>1. /\ pc = "window" /\ pc' = "rollback" /\ Trial'
        /\ UNCHANGED <<files, marker, vouched>>
    BY <1>7 DEF HealthFail, disk, history, Trial, files, marker
  <2> QED
    BY <2>1, FilesKept
<1>8. CASE Confirm
  <2>1. UNCHANGED <<files, marker, vouched>> /\ pc = "confirm" /\ pc' = "clear"
    BY <1>8 DEF Confirm
  <2>2. Trial' /\ slot'[active'] \in vouched'
    BY <1>8, <2>1 DEF Confirm, Trial, files, marker
  <2> QED
    BY <2>1, <2>2, FilesKept
<1>9. CASE FinishTrial
  <2>1. UNCHANGED <<files, diskPending, vouched>> /\ pc' = "idle" /\ pending' = None
    BY <1>9, NoMarkerFault DEF FinishTrial, history
  <2>2. CrashSafe' /\ MarkersTruthful'
    BY <1>9, <2>1, MarkerCleared DEF FinishTrial
  <2> QED
    BY <2>1, <2>2
<1>10. CASE Rollback
  <2>1. slot[Other(active)] \in vouched /\ pending.prev # pending.new
    BY <1>10 DEF Rollback, MarkersTruthful, Truthful, Trial
  <2>2. UNCHANGED <<slot, marker, vouched>> /\ pc' = "rbReset"
    BY <1>10 DEF Rollback, history
  <2>3. slot'[active'] = slot[Other(active)]
    BY <1>10, Toggle DEF Rollback, TypeInv, TypeOK
  <2>4. slot[Other(active)] # pending.new
    BY <1>10 DEF Rollback, MarkersTruthful, Truthful, Trial
  <2>5. CrashSafe'
    BY <2>1, <2>2, <2>3 DEF CrashSafe
  <2>6. MarkersTruthful'
    BY <1>10, <2>2, <2>3, <2>4 DEF Rollback, MarkersTruthful, Truthful, Trial, marker
  <2> QED
    BY <2>1, <2>2, <2>3, <2>5, <2>6
<1>11. CASE RollbackReset
  <2>1. UNCHANGED <<files, marker, vouched>> /\ pc = "rbReset" /\ pc' = "rbClear"
    BY <1>11 DEF RollbackReset, history
  <2>2. slot'[active'] \in vouched'
    BY <1>11, <2>1 DEF RollbackReset, files
  <2> QED
    BY <2>1, <2>2, FilesKept
<1>12. CASE RollbackClear
  <2>1. UNCHANGED <<files, diskPending, vouched>> /\ pc' = "rbExec" /\ pending' = None
    BY <1>12, NoMarkerFault DEF RollbackClear, history
  <2>2. CrashSafe' /\ MarkersTruthful' /\ slot'[active'] \in vouched'
    BY <1>12, <2>1, MarkerCleared DEF RollbackClear, files
  <2> QED
    BY <2>1, <2>2
<1>13. CASE RollbackExec
  <2>1. /\ UNCHANGED <<files, marker, vouched>> /\ pc = "rbExec"
        /\ pc' = "starting" /\ running' = slot'[active']
    BY <1>13 DEF RollbackExec, StartImage, disk, files, history
  <2> QED
    BY <2>1, FilesKept
<1> QED
  BY <1>1, <1>2, <1>3, <1>4, <1>5, <1>6, <1>7, <1>8, <1>9, <1>10, <1>11, <1>12,
     <1>13 DEF BootStep

LEMMA SafeCycle ==
    ASSUME MarkerKept, UndoUninterrupted, TypeInv, SafeInv, CycleStep
    PROVE  SafeInv'
<1> USE DEF SafeInv, GapInv, BootInv, CycleInv
<1>1. CASE BeginCycle \/ NothingToApply \/ RejectManifest \/ TransferFails
           \/ StagingFails
  <2>1. /\ UNCHANGED <<files, marker, vouched>> /\ pc' \in {"idle", "heartbeat"}
        /\ pc # "undoRollback"
    BY <1>1 DEF BeginCycle, NothingToApply, RejectManifest, TransferFails,
                StagingFails, Offered, EndCycle, disk, history
  <2>2. CrashSafe' /\ MarkersTruthful'
    BY <2>1, FilesKept
  <2>3. pending' = None
    BY <1>1, <2>1 DEF BeginCycle, NothingToApply, RejectManifest, TransferFails,
                      StagingFails, Offered, marker
  <2>4. pc' = "heartbeat" => base' = slot'[active']
    BY <1>1, <2>1 DEF BeginCycle, NothingToApply, RejectManifest, TransferFails,
                      StagingFails, EndCycle, files
  <2> QED
    BY <2>1, <2>2, <2>3, <2>4
<1>2. CASE AcceptManifest
  <2>1. UNCHANGED <<files, marker, vouched, base>> /\ pc' = "transfer"
        /\ target' # base' /\ pc = "heartbeat"
    BY <1>2 DEF AcceptManifest, Offered, history
  <2> QED
    BY <2>1, FilesKept DEF files, marker
<1>3. ASSUME NEW c \in Binary \cup {Garbage}, Reconstruct(c)
      PROVE  SafeInv'
  <2>1. UNCHANGED <<files, marker, vouched, base, target>> /\ pc' = "stage"
        /\ newBin' = target' /\ pc = "transfer"
    BY <1>3 DEF Reconstruct, HashMatches, disk, history
  <2> QED
    BY <2>1, FilesKept DEF files, marker
<1>4. CASE WriteToInactive
  <2>1. /\ pc = "stage" /\ pc' = "mark" /\ pending = None
        /\ UNCHANGED <<active, pending, vouched, base, target>>
        /\ diskPending' = None
    BY <1>4 DEF WriteToInactive, Sync, process, cycle, history
  <2>2. slot'[active] = slot[active] /\ slot'[Other(active)] = target
    BY <1>4, OtherSlot DEF WriteToInactive, TypeInv, TypeOK
  <2>3. CrashSafe' /\ MarkersTruthful'
    BY <2>1, <2>2 DEF CrashSafe, MarkersTruthful, Trial
  <2> QED
    BY <2>1, <2>2, <2>3
<1>5. CASE writePending
  <2>1. /\ pc = "mark" /\ pc' = "swap" /\ pending = None
        /\ UNCHANGED <<files, vouched, base, target>>
        /\ pending' = NewMarker /\ diskPending' = pending'
    BY <1>5 DEF writePending, Sync, process, cycle
  <2>2. slot[active] \in vouched
    BY <2>1 DEF CrashSafe, Trial
  <2>3. pending'.prev # pending'.new /\ slot'[active'] # pending'.new
    BY <2>1 DEF NewMarker, files
  <2>4. CrashSafe' /\ MarkersTruthful'
    BY <2>1, <2>2, <2>3 DEF CrashSafe, MarkersTruthful, Truthful, files
  <2> QED
    BY <2>1, <2>4 DEF files, NewMarker
<1>6. CASE Swap
  <2>1. /\ pc = "swap" /\ pc' = "exec" /\ pending = NewMarker
        /\ UNCHANGED <<slot, marker, vouched>>
    BY <1>6 DEF Swap, history
  <2>2. slot'[active'] = target /\ slot'[Other(active')] = base
    BY <1>6, <2>1, Toggle DEF Swap, TypeInv, TypeOK
  <2>3. NewMarker \in Marker /\ base \in vouched /\ NewMarker # None
    BY <2>1, ConstantsAssumption
       DEF CrashSafe, Trial, NewMarker, MarkersTruthful, Truthful, TypeInv,
           CycleTyped, Marker
  <2> QED
    BY <2>1, <2>2, <2>3
       DEF CrashSafe, Trial, MarkersTruthful, Truthful, marker, NewMarker
<1>7. CASE SwapFails
  <2>1. /\ pc = "swap" /\ pc' = "idle" /\ pending' = None
        /\ UNCHANGED <<files, diskPending, vouched>>
    BY <1>7 DEF SwapFails, EndCycle, history
  <2>2. slot[active] \in vouched
    BY <2>1 DEF CrashSafe, Trial, NewMarker
  <2>3. CrashSafe' /\ MarkersTruthful'
    BY <2>1, <2>2, MarkerCleared
  <2> QED
    BY <2>1, <2>3
<1>8. CASE Exec
  <2>1. /\ UNCHANGED <<files, marker, vouched>> /\ pc = "exec"
        /\ pc' = "starting" /\ running' = slot'[active']
    BY <1>8 DEF Exec, StartImage, disk, files, history
  <2> QED
    BY <2>1, FilesKept
<1>9. CASE ReadBackFails
  BY <1>9, NoMarkerFault
<1>10. CASE ExecFails
  <2>1. /\ pc = "exec" /\ pc' = "undoClear"
        /\ UNCHANGED <<files, marker, vouched>>
    BY <1>10 DEF ExecFails, disk, history
  <2> QED
    BY <2>1, FilesKept DEF Trial, files, marker
<1>11. CASE UndoClear
  <2>1. /\ pc = "undoClear" /\ pc' = "undoRollback" /\ pending' = None
        /\ UNCHANGED <<files, diskPending, vouched>>
    BY <1>11, NoMarkerFault DEF UndoClear, history
  <2>2. /\ diskPending = pending /\ pending.new # slot[Other(active)]
        /\ slot[Other(active)] \in vouched
    BY <2>1 DEF Trial, MarkersTruthful, Truthful
  <2>3. MarkersTruthful'
    BY <2>1 DEF MarkersTruthful, Truthful, files
  <2> QED
    BY <2>1, <2>2, <2>3 DEF files
<1>12. CASE UndoRollback
  <2>1. /\ pc = "undoRollback" /\ pc' = "undoArm" /\ active' = Other(active)
        /\ UNCHANGED <<slot, marker, vouched>>
    BY <1>12 DEF UndoRollback, RollbackOrLog, UndoUninterrupted, history
  <2>2. slot'[active'] = slot[Other(active)]
    BY <2>1, Toggle DEF TypeInv, TypeOK
  <2> QED
    BY <2>1, <2>2 DEF CrashSafe, MarkersTruthful, Truthful, marker
<1>13. CASE armRestartCooldown
  <2>1. /\ pc = "undoArm" /\ pc' = "idle" /\ UNCHANGED <<files, pending, vouched>>
        /\ diskPending' \in {diskPending, pending}
    BY <1>13 DEF armRestartCooldown, EndCycle, Sync, history
  <2> QED
    BY <2>1 DEF CrashSafe, MarkersTruthful, Truthful, Trial, files
<1> QED
  BY <1>1, <1>2, <1>3, <1>4, <1>5, <1>6, <1>7, <1>8, <1>9, <1>10, <1>11, <1>12,
     <1>13 DEF CycleStep

LEMMA SafeEnvironment ==
    ASSUME UndoUninterrupted, TypeInv, SafeInv, EnvironmentStep
    PROVE  SafeInv'
<1> USE DEF SafeInv, GapInv, BootInv, CycleInv
<1>1. CASE Crash
  <2>1. /\ pc # "undoRollback" /\ pc' = "down"
        /\ UNCHANGED <<files, marker, vouched>>
    BY <1>1 DEF UndoUninterrupted, Crash, Exit, disk, history
  <2> QED
    BY <2>1, FilesKept
<1>2. CASE PowerLoss
  <2>1. /\ pc # "undoRollback" /\ pc' = "down" /\ UNCHANGED <<files, vouched>>
        /\ pending' \in {pending, diskPending} /\ diskPending' = pending'
    BY <1>2 DEF UndoUninterrupted, PowerLoss, Exit, Sync, history
  <2>2. pending # None => pending' = pending
    BY <2>1 DEF MarkersTruthful
  <2>3. CrashSafe' /\ MarkersTruthful'
    BY <2>1, <2>2 DEF CrashSafe, MarkersTruthful, Truthful, Trial, files
  <2> QED
    BY <2>1, <2>3
<1>3. CASE CooldownExpires \/ TouchUpdateNow \/ TriggerUpdate
           \/ \E t \in Binary : Publish(t)
  <2>1. UNCHANGED <<files, marker, vouched, pc, running, cycle>>
    BY <1>3 DEF CooldownExpires, TouchUpdateNow, TriggerUpdate, Publish, disk,
                process, history
  <2>2. (CrashSafe => CrashSafe') /\ MarkersTruthful'
    BY <2>1, FilesKept
  <2> QED
    BY <2>1, <2>2 DEF files, marker, cycle, Trial, NewMarker
<1> QED
  BY <1>1, <1>2, <1>3 DEF EnvironmentStep

LEMMA SafeStep ==
    ASSUME MarkerKept, [UndoUninterrupted]_vars, TypeInv, SafeInv, [Next]_vars
    PROVE  SafeInv'
<1>1. CASE Launch \/ EnterBootPhase \/ DudDies
  <2>1. UNCHANGED <<files, marker, vouched>> /\ pc # "undoRollback"
    BY <1>1 DEF Launch, EnterBootPhase, DudDies, disk, history
  <2>2. \/ pc' = "starting" /\ running' = slot'[active']
        \/ pc' = "boot" /\ pc = "starting" /\ running' = running
        \/ pc' = "down"
    BY <1>1, <2>1 DEF Launch, EnterBootPhase, DudDies, StartImage, Exit, process,
                      files
  <2>3. CrashSafe' /\ MarkersTruthful'
    BY <2>1, FilesKept DEF SafeInv, GapInv
  <2> QED
    BY <2>1, <2>2, <2>3 DEF SafeInv, GapInv, BootInv, CycleInv, files
<1>2. CASE UNCHANGED vars
  <2>1. UNCHANGED <<files, marker, vouched, pc, running, cycle>>
    BY <1>2 DEF vars, disk, process, history
  <2>2. (CrashSafe => CrashSafe') /\ MarkersTruthful'
    BY <2>1, FilesKept DEF SafeInv
  <2> QED
    BY <2>1, <2>2 DEF SafeInv, GapInv, BootInv, CycleInv, files, marker, cycle,
                      Trial, NewMarker
<1>3. CASE ~UNCHANGED vars /\ (BootStep \/ CycleStep \/ EnvironmentStep)
  <2>1. UndoUninterrupted
    BY <1>3
  <2> QED
    BY <1>3, <2>1, SafeBoot, SafeCycle, SafeEnvironment
<1> QED
  BY <1>1, <1>2, <1>3 DEF Next

LEMMA SafeInvariant ==
    ASSUME MarkerKept
    PROVE  Undisturbed => [](TypeInv /\ SafeInv)
<1>1. Init => TypeInv /\ SafeInv
  BY TypeInit, SafeInit
<1>2. (TypeInv /\ SafeInv) /\ [Next]_vars /\ [UndoUninterrupted]_vars
      => (TypeInv /\ SafeInv)'
  BY TypeStep, SafeStep
<1> QED
  BY <1>1, <1>2, PTL DEF Undisturbed, Spec

-----------------------------------------------------------------------------
(* When an undo is not interrupted.                                        *)

\* An undo follows a restart that failed, and that fault is counted.
UndoCost ==
    pc \in {"undoClear", "undoRollback", "undoArm"} =>
        "exec" \in Faults /\ faults > 0

LEMMA UndoCosts == TypeInv /\ UndoCost /\ [Next]_vars => UndoCost'
<1> SUFFICES ASSUME TypeInv, UndoCost, [Next]_vars  PROVE UndoCost'
  OBVIOUS
<1> USE DEF UndoCost
<1>1. CASE ExecFails
  BY <1>1 DEF ExecFails, Fault, TypeInv, TypeOK
<1>2. CASE UndoClear
  BY <1>2 DEF UndoClear, clearPending, Fault, TypeInv, TypeOK
<1>3. CASE UndoRollback
  BY <1>3 DEF UndoRollback, RollbackOrLog, Fault, TypeInv, TypeOK
<1>4. CASE Next /\ ~ExecFails /\ ~UndoClear /\ ~UndoRollback
  <2>1. CASE BootStep
    BY <2>1
       DEF BootStep, SteadyBoot, UnreadableMarker, MismatchedMarker, CheckBoot,
           BootFails, CrashyDies, HealthPass, HealthFail, Confirm, FinishTrial,
           Rollback, RollbackFails, RollbackReset, RollbackClear, RollbackExec,
           RollbackExecFails, Exit, StartImage
  <2>2. CASE CycleStep
    BY <1>4, <2>2
       DEF CycleStep, BeginCycle, NothingToApply, RejectManifest,
           AcceptManifest, Reconstruct, TransferFails, WriteToInactive,
           writePending, StagingFails, Swap, SwapFails, ReadBackFails, Exec,
           armRestartCooldown, EndCycle, StartImage
  <2>3. CASE Crash \/ PowerLoss \/ Launch \/ EnterBootPhase \/ DudDies
    BY <2>3 DEF Crash, PowerLoss, Launch, EnterBootPhase, DudDies, Exit, StartImage
  <2>4. CASE CooldownExpires \/ TouchUpdateNow \/ TriggerUpdate
             \/ \E t \in Binary : Publish(t)
    BY <2>4 DEF CooldownExpires, TouchUpdateNow, TriggerUpdate, Publish, environment
  <2> QED
    BY <1>4, <2>1, <2>2, <2>3, <2>4 DEF Next, EnvironmentStep
<1>5. CASE UNCHANGED vars
  BY <1>5 DEF vars, environment
<1> QED
  BY <1>1, <1>2, <1>3, <1>4, <1>5

LEMMA UndoIsPaidFor == Spec => [](TypeInv /\ UndoCost)
<1>1. Init => UndoCost
  BY DEF Init, UndoCost
<1> QED
  BY <1>1, TypeInit, TypeStep, UndoCosts, PTL DEF Spec

\* No restart fails, or it is the one thing that does: nothing can come in
\* between.
LEMMA NothingInterrupts ==
    ASSUME MarkerReliable \/ OneFault
    PROVE  Spec => Undisturbed
<1>1. TypeInv /\ UndoCost => UndoUninterrupted
  <2> SUFFICES ASSUME TypeInv, UndoCost, pc = "undoRollback"
               PROVE  ~Crash /\ ~PowerLoss /\ (UndoRollback => active' # active)
    BY DEF UndoUninterrupted
  <2>1. "exec" \in Faults /\ faults > 0
    BY DEF UndoCost
  <2>2. MaxFaults <= 1
    BY <2>1 DEF MarkerReliable, OneFault
  <2>3. ~(faults < MaxFaults)
    BY <2>1, <2>2, ConstantsAssumption DEF TypeInv, TypeOK
  <2> QED
    BY <2>3, OtherSlot
       DEF Crash, PowerLoss, UndoRollback, RollbackOrLog, Fault, TypeInv, TypeOK
<1> QED
  BY <1>1, UndoIsPaidFor, PTL DEF Undisturbed

-----------------------------------------------------------------------------
(* The theorems.                                                           *)

\* Whatever happens between two durable steps, the version the supervisor would
\* launch is known to work, or is covered by the marker BootPhase will find.
THEOREM CrashSafety ==
    ASSUME MarkerReliable
    PROVE  Spec => []CrashSafe
<1>1. MarkerKept /\ "exec" \notin Faults
  BY DEF MarkerReliable
<1>2. SafeInv /\ UndoCost => CrashSafe
  BY <1>1 DEF SafeInv, GapInv, UndoCost
<1> QED
  BY <1>1, <1>2, SafeInvariant, UndoIsPaidFor, NothingInterrupts, PTL

\* A restart that fails opens one gap, between the removal of the marker and
\* the toggle (updater.go:627), and no other: wherever else the process dies,
\* CrashSafe holds, and inside the gap the other slot is known to work.
THEOREM OneGapOnly ==
    ASSUME MarkerKept
    PROVE  Undisturbed => [](IF pc = "undoRollback"
                                THEN slot[Other(active)] \in vouched
                                ELSE CrashSafe)
<1>1. SafeInv => IF pc = "undoRollback" THEN slot[Other(active)] \in vouched
                                        ELSE CrashSafe
  BY DEF SafeInv, GapInv
<1> QED
  BY <1>1, SafeInvariant, PTL

\* A version on trial has the version it replaced in the other slot, the one its
\* marker names, so the blind toggle of rollbackAndExec restores it.
THEOREM FallbackStays ==
    ASSUME MarkerKept
    PROVE  Undisturbed => []FallbackIntact
<1>1. SafeInv => FallbackIntact
  BY DEF SafeInv, MarkersTruthful, Truthful, Trial, FallbackIntact
<1> QED
  BY <1>1, SafeInvariant, PTL

\* The same of every behaviour, if no restart fails, or nothing besides one.
THEOREM FallbackSafety ==
    ASSUME MarkerReliable \/ OneFault
    PROVE  Spec => []FallbackIntact
<1>1. MarkerKept
  BY DEF MarkerReliable, OneFault
<1> QED
  BY <1>1, FallbackStays, NothingInterrupts, PTL

\* An agent that outlived failed restarts, any number of them, is back on a
\* version known to work whenever it waits for its next cycle.
THEOREM UndoneAlways ==
    ASSUME MarkerKept
    PROVE  Undisturbed => []UndoneByCycleEnd
<1>1. SafeInv => UndoneByCycleEnd
  BY DEF SafeInv, GapInv, CycleInv, CrashSafe, Trial, UndoneByCycleEnd
<1> QED
  BY <1>1, SafeInvariant, PTL

\* In particular if the restart is the only thing that fails.
THEOREM UndoneSafety ==
    ASSUME MarkerReliable \/ OneFault
    PROVE  Spec => []UndoneByCycleEnd
<1>1. MarkerKept
  BY DEF MarkerReliable, OneFault
<1> QED
  BY <1>1, UndoneAlways, NothingInterrupts, PTL

-----------------------------------------------------------------------------
(* Agent implements SafeUpdate: every step of BootPhase, of RunOnce and of *)
(* the environment is one step of the abstract update, or changes nothing  *)
(* the abstract update can see.                                            *)

\* What the abstract update sees of the agent.
Current == slot[active]
Fallback == IF Trial THEN pending.prev
            ELSE IF pc = "undoRollback" THEN slot[Other(active)] ELSE None

Visible == <<Current, Fallback, vouched>>

AbstractStep == Abstract!Next \/ UNCHANGED Visible

LEMMA InitRefines == Init => Abstract!Init
<1> SUFFICES ASSUME Init PROVE Abstract!Init
  OBVIOUS
<1>1. slot[active] = Initial /\ ~Trial
  BY DEF Init, Slots, Trial
<1> QED
  BY <1>1 DEF Init, Abstract!Init

LEMMA OnTrial ==
    ASSUME TypeInv, Trial
    PROVE  Fallback = pending.prev /\ Fallback # None
BY ConstantsAssumption DEF TypeInv, TypeOK, Marker, Trial, Fallback

\* A step that leaves the slots, the marker and the vouched versions alone,
\* outside the gap.
LEMMA Stutter ==
    ASSUME UNCHANGED <<files, pending, vouched>>,
           pc' = "undoRollback" <=> pc = "undoRollback"
    PROVE  AbstractStep
BY DEF AbstractStep, Visible, Current, Fallback, Trial, files

LEMMA BootRefines ==
    ASSUME MarkerKept, TypeInv, SafeInv, BootStep
    PROVE  AbstractStep
<1>1. CASE SteadyBoot \/ CheckBoot \/ BootFails \/ CrashyDies \/ HealthFail
           \/ Confirm \/ RollbackFails \/ RollbackReset \/ RollbackExec
           \/ RollbackExecFails
  <2>1. /\ UNCHANGED <<files, pending, vouched>>
        /\ pc # "undoRollback" /\ pc' # "undoRollback"
    BY <1>1 DEF SteadyBoot, CheckBoot, BootFails, CrashyDies, HealthFail,
                Confirm, RollbackFails, RollbackReset, RollbackExec,
                RollbackExecFails, Exit, StartImage, disk, marker, history
  <2> QED
    BY <2>1, Stutter
<1>2. CASE UnreadableMarker
  BY <1>2, NoMarkerFault
<1>3. CASE MismatchedMarker
  BY <1>3, NoMarkerFault
     DEF MismatchedMarker, history, AbstractStep, Visible, Current, Fallback,
         Trial, files
<1>4. CASE HealthPass
  <2>1. Trial /\ running = Current
    BY <1>4 DEF HealthPass, SafeInv, BootInv, Current
  <2>2. /\ UNCHANGED <<files, pending>> /\ vouched' = vouched \cup {running}
        /\ pc = "window" /\ pc' = "confirm"
    BY <1>4 DEF HealthPass, disk, marker
  <2>3. UNCHANGED <<Current, Fallback>>
    BY <2>2 DEF Current, Fallback, Trial, files
  <2>4. Abstract!Vouch
    BY <2>1, <2>2, <2>3, OnTrial DEF Abstract!Vouch, Current, Fallback
  <2> QED
    BY <2>4 DEF AbstractStep, Abstract!Next
<1>5. CASE FinishTrial \/ RollbackClear
  <2>1. /\ UNCHANGED <<files, vouched>> /\ pending' = None
        /\ pc \in {"clear", "rbClear"} /\ pc' \in {"idle", "rbExec"}
    BY <1>5, NoMarkerFault DEF FinishTrial, RollbackClear, history
  <2>2. Current \in vouched /\ Current' = Current /\ Fallback' = None
    BY <1>5, <2>1 DEF FinishTrial, RollbackClear, SafeInv, BootInv, Current,
                      Fallback, Trial, files
  <2>3. CASE Trial
    <3>1. Abstract!Accept
      BY <2>1, <2>2, <2>3, OnTrial DEF Abstract!Accept, Current, Fallback
    <3> QED
      BY <3>1 DEF AbstractStep, Abstract!Next
  <2>4. CASE ~Trial
    BY <2>1, <2>2, <2>4 DEF AbstractStep, Visible, Fallback
  <2> QED
    BY <2>3, <2>4
<1>6. CASE Rollback
  <2>1. Trial /\ pending.prev # pending.new /\ slot[Other(active)] = pending.prev
    BY <1>6 DEF Rollback, SafeInv, BootInv, MarkersTruthful, Truthful, Trial
  <2>2. UNCHANGED <<slot, pending, vouched>> /\ pc' = "rbReset"
    BY <1>6 DEF Rollback, marker, history
  <2>3. Current' = pending.prev
    BY <1>6, <2>1, <2>2, Toggle DEF Rollback, TypeInv, TypeOK, Current
  <2>4. Fallback' = None
    BY <2>1, <2>2, <2>3 DEF Fallback, Trial, Current
  <2>5. Abstract!Reject
    BY <2>1, <2>2, <2>3, <2>4, OnTrial DEF Abstract!Reject, Current, Fallback
  <2> QED
    BY <2>5 DEF AbstractStep, Abstract!Next
<1> QED
  BY <1>1, <1>2, <1>3, <1>4, <1>5, <1>6 DEF BootStep

LEMMA CycleRefines ==
    ASSUME MarkerKept, UndoUninterrupted, TypeInv, SafeInv, CycleStep
    PROVE  AbstractStep
<1>1. CASE BeginCycle \/ NothingToApply \/ RejectManifest \/ AcceptManifest
           \/ (\E c \in Binary \cup {Garbage} : Reconstruct(c))
           \/ TransferFails \/ StagingFails \/ Exec \/ ExecFails
           \/ armRestartCooldown
  <2>1. /\ UNCHANGED <<files, pending, vouched>>
        /\ pc # "undoRollback" /\ pc' # "undoRollback"
    BY <1>1 DEF BeginCycle, NothingToApply, RejectManifest, AcceptManifest,
                Reconstruct, TransferFails, StagingFails, Exec, ExecFails,
                armRestartCooldown, Offered, EndCycle, StartImage, disk, marker,
                history
  <2> QED
    BY <2>1, Stutter
<1>2. CASE WriteToInactive
  <2>1. /\ pending = None /\ UNCHANGED <<active, pending, vouched>>
        /\ pc = "stage" /\ pc' = "mark"
    BY <1>2 DEF WriteToInactive, SafeInv, CycleInv, history
  <2>2. slot'[active] = slot[active]
    BY <1>2, OtherSlot DEF WriteToInactive, TypeInv, TypeOK
  <2> QED
    BY <2>1, <2>2 DEF AbstractStep, Visible, Current, Fallback, Trial
<1>3. CASE writePending
  <2>1. /\ pending = None /\ UNCHANGED <<files, vouched>>
        /\ pc = "mark" /\ pc' = "swap"
    BY <1>3 DEF writePending, SafeInv, CycleInv
  <2>2. pending'.new # slot[active]
    BY <1>3 DEF writePending, NewMarker, SafeInv, CycleInv
  <2> QED
    BY <2>1, <2>2 DEF AbstractStep, Visible, Current, Fallback, Trial, files
<1>4. CASE Swap
  <2>1. /\ pending = NewMarker /\ base = Current /\ target # base
        /\ slot[Other(active)] = target /\ target \in Binary
        /\ pc = "swap" /\ pc' = "exec"
    BY <1>4 DEF Swap, SafeInv, CycleInv, TypeInv, CycleTyped, Current
  <2>2. UNCHANGED <<slot, pending, vouched>>
    BY <1>4 DEF Swap, marker, history
  <2>3. Current' = target
    BY <1>4, <2>1, <2>2, Toggle DEF Swap, TypeInv, TypeOK, Current
  <2>4. Fallback = None
    BY <2>1 DEF Fallback, Trial, NewMarker, Current
  <2>5. pending # None
    BY <2>1, ConstantsAssumption DEF NewMarker, TypeInv, CycleTyped, Current,
                                     TypeOK, Swap, SafeInv, CycleInv
  <2>6. Fallback' = Current
    BY <2>1, <2>2, <2>3, <2>5 DEF Fallback, Trial, NewMarker, Current
  <2>7. Abstract!Begin(target)
    BY <2>1, <2>2, <2>3, <2>4, <2>6 DEF Abstract!Begin, Current, Fallback
  <2> QED
    BY <2>1, <2>7 DEF AbstractStep, Abstract!Next
<1>5. CASE SwapFails
  <2>1. /\ ~Trial /\ pending' = None /\ UNCHANGED <<files, vouched>>
        /\ pc = "swap" /\ pc' = "idle"
    BY <1>5 DEF SwapFails, EndCycle, SafeInv, CycleInv, Trial, NewMarker, history
  <2> QED
    BY <2>1 DEF AbstractStep, Visible, Current, Fallback, Trial, files
<1>6. CASE ReadBackFails
  BY <1>6, NoMarkerFault
<1>7. CASE UndoClear
  <2>1. /\ Trial /\ pending' = None /\ UNCHANGED <<files, vouched>>
        /\ pc' = "undoRollback"
    BY <1>7, NoMarkerFault DEF UndoClear, SafeInv, CycleInv, history
  <2>2. slot[Other(active)] = pending.prev
    BY <2>1 DEF Trial, SafeInv, MarkersTruthful, Truthful
  <2> QED
    BY <2>1, <2>2 DEF AbstractStep, Visible, Current, Fallback, Trial, files
<1>8. CASE UndoRollback
  <2>1. /\ pc = "undoRollback" /\ pc' = "undoArm" /\ active' = Other(active)
        /\ pending = None /\ UNCHANGED <<slot, pending, vouched>>
    BY <1>8 DEF UndoRollback, RollbackOrLog, UndoUninterrupted, SafeInv, CycleInv,
                marker, history
  <2>2. Current' = slot[Other(active)]
    BY <2>1, Toggle DEF TypeInv, TypeOK, Current
  <2>3. Fallback = slot[Other(active)] /\ Fallback' = None
    BY <2>1 DEF Fallback, Trial
  <2>4. Fallback # None
    BY <2>3, OtherSlot, ConstantsAssumption DEF TypeInv, TypeOK
  <2>5. Abstract!Reject
    BY <2>1, <2>2, <2>3, <2>4 DEF Abstract!Reject, Fallback, Current
  <2> QED
    BY <2>5 DEF AbstractStep, Abstract!Next
<1> QED
  BY <1>1, <1>2, <1>3, <1>4, <1>5, <1>6, <1>7, <1>8 DEF CycleStep

LEMMA PowerLossRefines ==
    ASSUME UndoUninterrupted, TypeInv, SafeInv, PowerLoss
    PROVE  AbstractStep
<1>1. /\ UNCHANGED <<files, vouched>>
      /\ pending' \in {pending, diskPending}
      /\ pc # "undoRollback" /\ pc' # "undoRollback"
  BY DEF UndoUninterrupted, PowerLoss, Exit, history
<1>2. CASE pending' = pending
  BY <1>1, <1>2, Stutter
<1>3. CASE pending' # pending
  <2>1. pending = None /\ pending' = diskPending /\ diskPending # None
    BY <1>1, <1>3 DEF SafeInv, MarkersTruthful
  <2>2. Current' = Current /\ Fallback = None
    BY <1>1, <2>1 DEF Current, Fallback, Trial, files
  <2>3. CASE ~Trial'
    BY <1>1, <2>2, <2>3 DEF AbstractStep, Visible, Fallback
  <2>4. CASE Trial'
    <3>1. slot[active] = diskPending.new
      BY <1>1, <2>1, <2>4 DEF Trial, files
    <3>2. diskPending.prev \in vouched /\ diskPending.prev # Current
      BY <2>1, <3>1 DEF SafeInv, MarkersTruthful, Truthful, Current
    <3>3. Fallback' = diskPending.prev
      BY <2>1, <2>4 DEF Fallback
    <3>4. Abstract!Reopen(diskPending.prev)
      BY <1>1, <2>2, <3>2, <3>3 DEF Abstract!Reopen, Current, Fallback
    <3> QED
      BY <3>2, <3>4 DEF AbstractStep, Abstract!Next
  <2> QED
    BY <2>3, <2>4
<1> QED
  BY <1>2, <1>3

LEMMA StepRefines ==
    ASSUME MarkerKept, [UndoUninterrupted]_vars, TypeInv, SafeInv, [Next]_vars
    PROVE  [Abstract!Next]_(Abstract!vars)
<1>1. AbstractStep
  <2>1. CASE Launch \/ EnterBootPhase \/ DudDies \/ UNCHANGED vars
    <3>1. /\ UNCHANGED <<files, pending, vouched>>
          /\ pc' = "undoRollback" <=> pc = "undoRollback"
      BY <2>1 DEF Launch, EnterBootPhase, DudDies, StartImage, Exit, vars, disk,
                  marker, history
    <3> QED
      BY <3>1, Stutter
  <2>2. CASE UndoUninterrupted /\ EnvironmentStep
    <3>1. CASE PowerLoss
      BY <2>2, <3>1, PowerLossRefines
    <3>2. CASE ~PowerLoss
      <4>1. /\ UNCHANGED <<files, pending, vouched>>
            /\ pc' = "undoRollback" <=> pc = "undoRollback"
        BY <2>2, <3>2
           DEF EnvironmentStep, UndoUninterrupted, Crash, Exit, CooldownExpires,
               TouchUpdateNow, TriggerUpdate, Publish, disk, marker, history
      <4> QED
        BY <4>1, Stutter
    <3> QED
      BY <3>1, <3>2
  <2> QED
    BY <2>1, <2>2, BootRefines, CycleRefines DEF Next
<1> QED
  BY <1>1 DEF AbstractStep, Visible, Current, Fallback, Abstract!vars

\* Every undisturbed behaviour of the agent, failed restarts included, is a
\* behaviour of the abstract update: it leaves a version only for a trial, and a
\* trial only for a version known to work.
THEOREM UndisturbedRefines ==
    ASSUME MarkerKept
    PROVE  Undisturbed => Refines
<1>1. Init => Abstract!Init
  BY InitRefines
<1>2. (TypeInv /\ SafeInv) /\ [Next]_vars /\ [UndoUninterrupted]_vars
      => [Abstract!Next]_(Abstract!vars)
  BY StepRefines
<1> QED
  BY <1>1, <1>2, SafeInvariant, PTL DEF Undisturbed, Spec, Refines, Abstract!Spec

\* Every behaviour, if no restart fails, or nothing besides one.
THEOREM Refinement ==
    ASSUME MarkerReliable \/ OneFault
    PROVE  Spec => Refines
<1>1. MarkerKept
  BY DEF MarkerReliable, OneFault
<1> QED
  BY <1>1, UndisturbedRefines, NothingInterrupts, PTL

\* What the abstract update guarantees, and with it all that implements it.
LEMMA AbstractNeverStrands ==
    Abstract!Spec => [](Abstract!TypeOK /\ Abstract!NeverStranded)
<1> USE ConstantsAssumption
    DEF Abstract!TypeOK, Abstract!NeverStranded
<1>1. Abstract!Init => Abstract!TypeOK /\ Abstract!NeverStranded
  BY DEF Abstract!Init
<1>2. Abstract!TypeOK /\ Abstract!NeverStranded /\ [Abstract!Next]_(Abstract!vars)
         => (Abstract!TypeOK /\ Abstract!NeverStranded)'
  <2> SUFFICES ASSUME Abstract!TypeOK, Abstract!NeverStranded,
                      [Abstract!Next]_(Abstract!vars)
               PROVE  (Abstract!TypeOK /\ Abstract!NeverStranded)'
    OBVIOUS
  <2>1. ASSUME NEW v \in Binary, Abstract!Begin(v)
        PROVE  (Abstract!TypeOK /\ Abstract!NeverStranded)'
    BY <2>1 DEF Abstract!Begin
  <2>2. CASE Abstract!Vouch
    BY <2>2 DEF Abstract!Vouch
  <2>3. CASE Abstract!Accept
    BY <2>3 DEF Abstract!Accept
  <2>4. CASE Abstract!Reject
    BY <2>4 DEF Abstract!Reject
  <2>5. ASSUME NEW f \in vouched, Abstract!Reopen(f)
        PROVE  (Abstract!TypeOK /\ Abstract!NeverStranded)'
    BY <2>5 DEF Abstract!Reopen
  <2>6. CASE UNCHANGED Abstract!vars
    BY <2>6 DEF Abstract!vars
  <2> QED
    BY <2>1, <2>2, <2>3, <2>4, <2>5, <2>6 DEF Abstract!Next
<1> QED
  BY <1>1, <1>2, PTL DEF Abstract!Spec

\* At every moment the device would boot a version known to work, or has one to
\* go back to.
THEOREM AlwaysAWayBack ==
    ASSUME MarkerKept
    PROVE  Undisturbed => []Abstract!NeverStranded
BY UndisturbedRefines, AbstractNeverStrands, PTL DEF Refines

-----------------------------------------------------------------------------
(* The boot counter bounds the windows of a trial from above, and it never *)
(* condemns a version it did not count.  Neither takes any of the faults   *)
(* to be excluded that concern the marker.                                 *)

(* A trial gets at most MaxBoots windows.                                  *)

\* What holds of the slots and the markers, whatever fails: the slots differ
\* from the first staging on, and a trial in BootPhase is marked durably.
StagedInv ==
    /\ pc \in {"heartbeat", "transfer", "stage"} => base = slot[active]
    /\ pc \in {"transfer", "stage"} => target # base
    /\ pc = "stage" => newBin = target
    /\ pc = "mark" \/ pending # None \/ diskPending # None
           => slot[active] # slot[Other(active)]
    /\ pc \in {"window", "rollback"} => Trial /\ diskPending = pending

\* A marker about the active slot is new, or its trial's boots were all counted
\* against that slot's version, durably.
Counted(m) ==
    m # None /\ slot[active] = m.new =>
        \/ trialBoots = 0
        \/ /\ bootCount.hash = slot[active]
           /\ trialBoots <= bootCount.count
           /\ diskCount = bootCount

WindowInv ==
    /\ StagedInv
    /\ Counted(pending) /\ Counted(diskPending)
    /\ pc \in {"confirm", "clear", "swap", "exec", "undoClear", "undoRollback"}
           => trialBoots = 0
    /\ pc = "rbReset" => \A m \in {pending, diskPending} \ {None} :
                              m.new # slot[active]
    /\ WindowBudget

LEMMA WindowInit == Init => WindowInv
<1> SUFFICES ASSUME Init  PROVE WindowInv
  OBVIOUS
<1>1. pending = None /\ diskPending = None /\ pc = "down"
  BY DEF Init
<1> QED
  BY <1>1 DEF WindowInv, StagedInv, Counted, WindowBudget

\* A step that touches none of what Counted speaks of.
LEMMA CountedKept ==
    ASSUME Counted(pending), Counted(diskPending),
           UNCHANGED <<files, marker, counter, trialBoots>>
    PROVE  Counted(pending)' /\ Counted(diskPending)'
BY DEF Counted, files, marker, counter

\* A removal that fails leaves the marker, one that succeeds forgets it.
LEMMA CountedCleared ==
    ASSUME Counted(pending), Counted(diskPending), clearPending,
           UNCHANGED <<files, diskPending, counter, trialBoots>>
    PROVE  Counted(pending)' /\ Counted(diskPending)'
BY DEF Counted, files, counter, clearPending

LEMMA WindowBoot == TypeInv /\ WindowInv /\ BootStep => WindowInv'
<1> SUFFICES ASSUME TypeInv, WindowInv, BootStep  PROVE WindowInv'
  OBVIOUS
<1> USE DEF WindowInv, StagedInv, WindowBudget
<1>1. CASE SteadyBoot \/ UnreadableMarker \/ BootFails \/ CrashyDies
           \/ RollbackFails \/ RollbackExec \/ RollbackExecFails
  <2>1. UNCHANGED <<files, marker, counter, trialBoots>>
    BY <1>1 DEF SteadyBoot, UnreadableMarker, BootFails, CrashyDies,
                RollbackFails, RollbackExec, RollbackExecFails, disk, history, tally
  <2>2. pc' \in {"idle", "down", "starting"}
    BY <1>1 DEF SteadyBoot, UnreadableMarker, BootFails, CrashyDies,
                RollbackFails, RollbackExec, RollbackExecFails, Exit, StartImage
  <2> QED
    BY <2>1, <2>2, CountedKept DEF files, marker
<1>2. CASE MismatchedMarker \/ FinishTrial \/ RollbackClear
  <2>1. clearPending /\ UNCHANGED <<files, diskPending, counter, trialBoots>>
    BY <1>2 DEF MismatchedMarker, FinishTrial, RollbackClear, history, tally
  <2>2. pc' \in {"idle", "rbExec"}
    BY <1>2 DEF MismatchedMarker, FinishTrial, RollbackClear
  <2>3. pending' \in {pending, None}
    BY <2>1 DEF clearPending
  <2> QED
    BY <2>1, <2>2, <2>3, CountedCleared DEF files
<1>3. CASE CheckBoot
  <2>0. pending # None /\ slot[active] = pending.new
    BY <1>3 DEF CheckBoot, Trial
  <2>1. /\ UNCHANGED <<files, pending>> /\ diskPending' = pending
        /\ bootCount' = Increment(bootCount, slot[active])
        /\ diskCount' = bootCount'
        /\ trialBoots' = Saturate(trialBoots + 1)
    BY <1>3 DEF CheckBoot, Sync
  <2>2. trialBoots \in Nat /\ bootCount.count \in Nat
        /\ bootCount \in [hash : Binary \cup {None}, count : Nat]
        /\ MaxBoots \in Nat \ {0}
    BY ConstantsAssumption DEF TypeInv, TypeOK, Counter
  <2>3. trialBoots' <= trialBoots + 1 /\ (trialBoots = 0 => trialBoots' = 1)
    BY <2>1, <2>2 DEF Saturate
  <2>4. bootCount'.hash = slot[active]
    BY <2>1, <2>2 DEF Increment
  <2>5. bootCount'.count >= 1
        /\ (bootCount.hash = slot[active] => bootCount'.count = bootCount.count + 1)
    BY <2>1, <2>2 DEF Increment
  <2>6. trialBoots' <= bootCount'.count
    <3>1. \/ trialBoots = 0
          \/ bootCount.hash = slot[active] /\ trialBoots <= bootCount.count
      BY <2>0 DEF Counted
    <3>2. bootCount'.count \in Nat /\ trialBoots' \in Nat
      BY <2>1, <2>2 DEF Increment, Saturate
    <3> QED
      BY <2>2, <2>3, <2>5, <3>1, <3>2
  <2>7. Counted(pending)' /\ Counted(diskPending)'
    BY <2>1, <2>4, <2>6 DEF Counted, files
  <2>8. \/ pc' = "rollback"
        \/ pc' = "window" /\ ~(bootCount'.count > MaxBoots)
    BY <1>3 DEF CheckBoot, BootCountExceeded
  <2>9. bootCount'.count \in Nat /\ trialBoots' \in Nat
    BY <2>1, <2>2 DEF Increment, Saturate
  <2>10. pc' = "window" => trialBoots' <= MaxBoots
    BY <2>2, <2>6, <2>8, <2>9
  <2>11. Trial' /\ diskPending' = pending'
    BY <2>0, <2>1 DEF Trial, files
  <2> QED
    BY <2>0, <2>1, <2>7, <2>8, <2>10, <2>11 DEF files
<1>4. CASE HealthPass
  <2>1. trialBoots' = 0 /\ pc' = "confirm" /\ UNCHANGED <<files, marker>>
    BY <1>4 DEF HealthPass, disk
  <2> QED
    BY <2>1 DEF Counted, files, marker
<1>5. CASE HealthFail
  <2>1. /\ UNCHANGED <<files, marker, counter, trialBoots>>
        /\ pc = "window" /\ pc' = "rollback"
    BY <1>5 DEF HealthFail, disk, history, tally
  <2> QED
    BY <2>1, CountedKept DEF files, marker, Trial
<1>6. CASE Confirm
  <2>1. /\ trialBoots = 0 /\ trialBoots' = 0 /\ pc' = "clear"
        /\ UNCHANGED <<files, marker>>
    BY <1>6 DEF Confirm
  <2> QED
    BY <2>1 DEF Counted, files, marker
<1>7. CASE Rollback
  <2>1. /\ pending # None /\ slot[active] = pending.new /\ diskPending = pending
        /\ slot[active] # slot[Other(active)]
    BY <1>7 DEF Rollback, Trial
  <2>2. UNCHANGED <<slot, marker>> /\ pc' = "rbReset"
    BY <1>7 DEF Rollback
  <2>3. slot'[active'] = slot[Other(active)] /\ slot'[Other(active')] = slot[active]
    BY <1>7, Toggle DEF Rollback, TypeInv, TypeOK
  <2>4. /\ pending' = pending /\ diskPending' = pending
        /\ slot'[active'] # pending.new
    BY <2>1, <2>2, <2>3 DEF marker
  <2> QED
    BY <2>1, <2>2, <2>3, <2>4 DEF Counted
<1>8. CASE RollbackReset
  <2>1. UNCHANGED <<files, marker>> /\ pc = "rbReset" /\ pc' = "rbClear"
    BY <1>8 DEF RollbackReset
  <2>2. Counted(pending)' /\ Counted(diskPending)'
    BY <2>1 DEF Counted, files, marker
  <2> QED
    BY <2>1, <2>2 DEF files, marker
<1> QED
  BY <1>1, <1>2, <1>3, <1>4, <1>5, <1>6, <1>7, <1>8 DEF BootStep

LEMMA WindowCycle == TypeInv /\ WindowInv /\ CycleStep => WindowInv'
<1> SUFFICES ASSUME TypeInv, WindowInv, CycleStep  PROVE WindowInv'
  OBVIOUS
<1> USE DEF WindowInv, StagedInv, WindowBudget
<1>1. CASE NothingToApply \/ RejectManifest \/ TransferFails \/ StagingFails
           \/ ReadBackFails \/ Exec
  <2>1. UNCHANGED <<files, marker, counter, trialBoots>>
    BY <1>1 DEF NothingToApply, RejectManifest, TransferFails, StagingFails,
                ReadBackFails, Exec, disk, history, tally
  <2>2. pc' \in {"idle", "starting"}
    BY <1>1 DEF NothingToApply, RejectManifest, TransferFails, StagingFails,
                ReadBackFails, Exec, EndCycle, StartImage
  <2> QED
    BY <2>1, <2>2, CountedKept DEF files, marker
<1>2. CASE BeginCycle \/ AcceptManifest \/ \E c \in Binary \cup {Garbage} : Reconstruct(c)
  <2>1. UNCHANGED <<files, marker, counter, trialBoots>>
    BY <1>2 DEF BeginCycle, AcceptManifest, Reconstruct, disk, history, tally
  <2>2. Counted(pending)' /\ Counted(diskPending)'
    BY <2>1, CountedKept
  <2>3. CASE BeginCycle
    <3>1. pc' = "heartbeat" /\ base' = slot[active]
      BY <2>3 DEF BeginCycle
    <3> QED
      BY <2>1, <2>2, <3>1 DEF files, marker
  <2>4. CASE AcceptManifest
    <3>1. pc = "heartbeat" /\ pc' = "transfer" /\ base' = base /\ target' # base
      BY <2>4 DEF AcceptManifest, Offered
    <3> QED
      BY <2>1, <2>2, <3>1 DEF files, marker
  <2>5. CASE \E c \in Binary \cup {Garbage} : Reconstruct(c)
    <3>1. /\ pc = "transfer" /\ pc' = "stage" /\ newBin' = target
          /\ UNCHANGED <<base, target>>
      BY <2>5 DEF Reconstruct, HashMatches
    <3> QED
      BY <2>1, <2>2, <3>1 DEF files, marker
  <2> QED
    BY <1>2, <2>3, <2>4, <2>5
<1>3. CASE WriteToInactive
  <2>1. /\ pc' = "mark" /\ UNCHANGED <<active, pending, bootCount, trialBoots>>
        /\ diskPending' = pending /\ diskCount' = bootCount
    BY <1>3 DEF WriteToInactive, Sync, history, tally
  <2>2. slot'[active] = slot[active] /\ slot'[Other(active)] = target
    BY <1>3, OtherSlot DEF WriteToInactive, TypeInv, TypeOK
  <2>3. slot'[active'] # slot'[Other(active')]
    BY <1>3, <2>1, <2>2 DEF WriteToInactive
  <2>4. Counted(pending)' /\ Counted(diskPending)'
    BY <2>1, <2>2 DEF Counted
  <2> QED
    BY <2>1, <2>3, <2>4
<1>4. CASE writePending
  <2>1. /\ pc = "mark" /\ pc' = "swap" /\ trialBoots' = 0 /\ UNCHANGED files
    BY <1>4 DEF writePending
  <2> QED
    BY <2>1 DEF Counted, files
<1>5. CASE Swap \/ UndoRollback
  <2>1. /\ trialBoots = 0 /\ trialBoots' = 0 /\ pc' \in {"exec", "undoArm"}
        /\ UNCHANGED <<slot, marker>> /\ active' \in {active, Other(active)}
    BY <1>5 DEF Swap, UndoRollback, RollbackOrLog, history, tally
  <2>2. pending # None \/ diskPending # None => slot'[active'] # slot'[Other(active')]
    BY <2>1, OtherSlot DEF TypeInv, TypeOK
  <2> QED
    BY <2>1, <2>2 DEF Counted, marker
<1>6. CASE SwapFails
  <2>1. pending' = None /\ UNCHANGED <<files, diskPending, counter, trialBoots>>
    BY <1>6 DEF SwapFails, history, tally
  <2>2. pc' = "idle"
    BY <1>6 DEF SwapFails, EndCycle
  <2> QED
    BY <2>1, <2>2 DEF Counted, files, counter
<1>7. CASE ExecFails
  <2>1. /\ UNCHANGED <<files, marker, counter, trialBoots>>
        /\ pc = "exec" /\ pc' = "undoClear"
    BY <1>7 DEF ExecFails, disk, history, tally
  <2> QED
    BY <2>1, CountedKept DEF files, marker
<1>8. CASE UndoClear
  <2>1. /\ clearPending /\ UNCHANGED <<files, diskPending, counter, trialBoots>>
        /\ pc = "undoClear" /\ pc' = "undoRollback"
    BY <1>8 DEF UndoClear, history, tally
  <2>2. pending' \in {pending, None}
    BY <2>1 DEF clearPending
  <2> QED
    BY <2>1, <2>2, CountedCleared DEF files
<1>9. CASE armRestartCooldown
  <2>1. /\ UNCHANGED <<files, pending, bootCount, trialBoots>> /\ pc' = "idle"
        /\ \/ diskPending' = pending /\ diskCount' = bootCount
           \/ UNCHANGED <<diskPending, diskCount>>
    BY <1>9 DEF armRestartCooldown, EndCycle, Sync, history, tally
  <2>2. Counted(pending)' /\ Counted(diskPending)'
    BY <2>1 DEF Counted, files
  <2> QED
    BY <2>1, <2>2 DEF files
<1> QED
  BY <1>1, <1>2, <1>3, <1>4, <1>5, <1>6, <1>7, <1>8, <1>9 DEF CycleStep

LEMMA WindowStep == TypeInv /\ WindowInv /\ [Next]_vars => WindowInv'
<1> SUFFICES ASSUME TypeInv, WindowInv, [Next]_vars  PROVE WindowInv'
  OBVIOUS
<1> USE DEF WindowInv, StagedInv, WindowBudget
<1>1. CASE Launch \/ EnterBootPhase \/ DudDies \/ Crash
  <2>1. UNCHANGED <<files, marker, counter, trialBoots>>
    BY <1>1 DEF Launch, EnterBootPhase, DudDies, Crash, disk, history, tally
  <2>2. pc' \in {"starting", "boot", "down"}
    BY <1>1 DEF Launch, EnterBootPhase, DudDies, Crash, StartImage, Exit
  <2> QED
    BY <2>1, <2>2, CountedKept DEF files, marker
<1>2. CASE PowerLoss
  <2>1. /\ UNCHANGED <<files, trialBoots>> /\ pc' = "down"
        /\ pending' \in {pending, diskPending} /\ diskPending' = pending'
        /\ bootCount' \in {bootCount, diskCount} /\ diskCount' = bootCount'
    BY <1>2 DEF PowerLoss, Exit, Sync, history, tally
  <2>2. Counted(pending') /\ (Counted(pending') => Counted(pending)')
    BY <2>1 DEF Counted, files
  <2>3. Counted(diskPending)'
    BY <2>1, <2>2 DEF Counted
  <2> QED
    BY <2>1, <2>2, <2>3 DEF files
<1>3. CASE CooldownExpires \/ TouchUpdateNow \/ TriggerUpdate
           \/ (\E t \in Binary : Publish(t)) \/ UNCHANGED vars
  <2>1. UNCHANGED <<files, marker, counter, pc, cycle, trialBoots>>
    BY <1>3 DEF CooldownExpires, TouchUpdateNow, TriggerUpdate, Publish, vars,
                disk, process, history, tally
  <2> QED
    BY <2>1, CountedKept DEF files, marker, cycle, Trial
<1> QED
  BY <1>1, <1>2, <1>3, WindowBoot, WindowCycle DEF Next, EnvironmentStep

\* Crashes, power losses, relaunches, failing writes, removals, reads and
\* restarts in any number never give a version more than MaxBoots watchdog
\* windows in one trial.
THEOREM WindowsAreBounded == Spec => []WindowBudget
<1>1. (TypeInv /\ WindowInv) /\ [Next]_vars => (TypeInv /\ WindowInv)'
  BY TypeStep, WindowStep
<1>2. WindowInv => WindowBudget
  BY DEF WindowInv
<1> QED
  BY <1>1, <1>2, TypeInit, WindowInit, PTL DEF Spec

-----------------------------------------------------------------------------
(* No version is condemned without its boots.                              *)

CounterReliable == Faults \cap {"power", "reset"} = {}

\* The file counts no boot that did not happen since the last Confirm.
CountHonest ==
    bootCount.hash \in Binary =>
        \/ bootCount.count <= boots[bootCount.hash]
        \/ boots[bootCount.hash] > MaxBoots

LEMMA HonestInit == Init => CountHonest
BY ConstantsAssumption DEF Init, CountHonest, NoCount

LEMMA NoCounterFault ==
    ASSUME CounterReliable
    PROVE  (Reset => bootCount' = NoCount) /\ ~PowerLoss
BY DEF CounterReliable, Reset, Fault, PowerLoss

LEMMA HonestReset ==
    ASSUME bootCount' = NoCount
    PROVE  CountHonest'
BY ConstantsAssumption DEF CountHonest, NoCount

\* CheckBoot counts the same boot in the file and in boots.
LEMMA HonestCheckBoot ==
    ASSUME TypeInv, CountHonest, CheckBoot
    PROVE  CountHonest' /\ (\A b \in condemned' \ condemned : boots'[b] > MaxBoots)
<1> DEFINE v == slot[active]
<1>1. /\ v \in Binary /\ boots \in [Binary -> Nat] /\ MaxBoots \in Nat \ {0}
      /\ bootCount \in [hash : Binary \cup {None}, count : Nat]
  BY ConstantsAssumption DEF TypeInv, TypeOK, Counter
<1>2. bootCount' = Increment(bootCount, v) /\ boots'[v] = Saturate(boots[v] + 1)
  BY <1>1 DEF CheckBoot
<1> HIDE DEF v
<1>3. /\ bootCount'.hash = v /\ bootCount'.count \in Nat
      /\ \/ bootCount'.count = 1
         \/ bootCount.hash = v /\ bootCount'.count = bootCount.count + 1
  BY <1>1, <1>2 DEF Increment
<1>4. boots[v] \in Nat /\ (boots'[v] = boots[v] + 1 \/ boots'[v] > MaxBoots)
  BY <1>1, <1>2 DEF Saturate
<1>5. boots[v] > MaxBoots => boots'[v] > MaxBoots
  BY <1>1, <1>4
<1>6. boots'[v] \in Nat
  BY <1>1, <1>2 DEF Saturate
<1>7. bootCount'.count <= boots'[v] \/ boots'[v] > MaxBoots
  <2>1. bootCount.hash = v => (bootCount.count <= boots[v] \/ boots[v] > MaxBoots)
    BY <1>1 DEF CountHonest
  <2> QED
    BY <1>1, <1>3, <1>4, <1>5, <1>6, <2>1
<1>8. CountHonest'
  BY <1>3, <1>7 DEF CountHonest
<1>9. \/ bootCount'.count > MaxBoots /\ condemned' = condemned \cup {v}
      \/ condemned' = condemned
  BY DEF CheckBoot, BootCountExceeded, v
<1> QED
  BY <1>1, <1>3, <1>6, <1>7, <1>8, <1>9

LEMMA HonestStep ==
    ASSUME CounterReliable, TypeInv, CountHonest, [Next]_vars
    PROVE  CountHonest' /\ (\A b \in condemned' \ condemned : boots'[b] > MaxBoots)
<1>1. CASE CheckBoot
  BY <1>1, HonestCheckBoot
<1>2. CASE Confirm \/ RollbackReset
  BY <1>2, NoCounterFault, HonestReset DEF Confirm, RollbackReset, history, tally
<1>3. CASE PowerLoss
  BY <1>3, NoCounterFault
<1>4. CASE ~CheckBoot /\ ~Confirm /\ ~RollbackReset /\ ~PowerLoss
  <2>1. UNCHANGED <<bootCount, boots, condemned>>
    <3>1. CASE BootStep
      BY <1>4, <3>1
         DEF BootStep, SteadyBoot, UnreadableMarker, MismatchedMarker,
             BootFails, CrashyDies, HealthPass, HealthFail, FinishTrial,
             Rollback, RollbackFails, RollbackClear, RollbackExec,
             RollbackExecFails, disk, counter, history, tally
    <3>2. CASE CycleStep
      BY <3>2
         DEF CycleStep, BeginCycle, NothingToApply, RejectManifest,
             AcceptManifest, Reconstruct, TransferFails, WriteToInactive,
             writePending, StagingFails, Swap, SwapFails, ReadBackFails, Exec,
             ExecFails, UndoClear, UndoRollback, armRestartCooldown, disk, counter,
             history, tally
    <3>3. CASE EnvironmentStep \/ Launch \/ EnterBootPhase \/ DudDies
               \/ UNCHANGED vars
      BY <1>4, <3>3
         DEF EnvironmentStep, Crash, CooldownExpires, TouchUpdateNow,
             TriggerUpdate, Publish, Launch, EnterBootPhase, DudDies, vars,
             disk, counter, history, tally
    <3> QED
      BY <3>1, <3>2, <3>3 DEF Next
  <2> QED
    BY <2>1 DEF CountHonest
<1> QED
  BY <1>1, <1>2, <1>3, <1>4

\* As long as no power loss and no failing removal brings an old count back, a
\* version is rolled back by CheckBoot only after more than MaxBoots boots that
\* were not confirmed.
THEOREM CondemnedFairly ==
    ASSUME CounterReliable
    PROVE  Spec => CondemnedJustly
<1>1. TypeInv /\ CountHonest /\ [Next]_vars
      => CountHonest' /\ (\A b \in condemned' \ condemned : boots'[b] > MaxBoots)
  BY HonestStep
<1>2. TypeInv /\ CountHonest /\ [Next]_vars
      => [\A b \in condemned' \ condemned : boots'[b] > MaxBoots]_vars
  BY <1>1
<1> QED
  BY <1>1, <1>2, HonestInit, TypeInit, TypeStep, PTL DEF Spec, CondemnedJustly
=============================================================================

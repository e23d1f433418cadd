------------------------------- MODULE Agent -------------------------------
(***************************************************************************)
(* The edge agent's A/B update engine (pkg/agent): Updater.BootPhase and   *)
(* Updater.RunOnce together with the state they drive, the two slots and   *)
(* the active symlink (SlotManager), the .pending_update marker, the       *)
(* persistent boot counter (BootCounter, Watchdog), the restart cooldown   *)
(* and the manual trigger.                                                 *)
(*                                                                         *)
(* One action stands for one durable side effect of the code, so that a    *)
(* crash may fall between any two of them.  What is abstracted:            *)
(*   - a binary is the hash of its content; a file is its content;         *)
(*   - the transfer (Downloader) and the patching are one step that yields *)
(*     some content, which the code then hashes;                           *)
(*   - a signature verifies or not; the policy is a relation, which         *)
(*     UpdatePolicy defines;                                               *)
(*   - reportUpdate changes nothing on the device and its failure is       *)
(*     logged only, so it is part of the step that follows it;             *)
(*   - StateDir is SlotsDir, as cmd/edge-agent wires it, so one fsync of   *)
(*     that directory makes every earlier removal in it durable.           *)
(***************************************************************************)
EXTENDS Naturals

CONSTANTS
    Binary,     \* the versions the server publishes, by content hash
    Initial,    \* the version provisioning seeds in both slots
    Garbage,    \* content that is no published version
    None,       \* absence: no marker, no counter file
    Dud,        \* versions whose process dies before it reaches BootPhase
    Crashy,     \* versions that die inside the watchdog window
    Sick,       \* versions whose health check never passes
    Policy,     \* <<running, offered>> pairs policyAllows accepts
    MaxBoots,   \* WatchdogConfig.MaxBoots
    Faults,     \* kinds of fault that may happen, see FaultKind
    MaxFaults,  \* how many faults a behaviour may contain
    MaxPublish  \* how many times the server's target may move

\* "crash": the process dies; "power": so does the machine; "io": a write, a
\* symlink replacement or a read fails and the code returns the error; "clear"
\* and "reset": a removal fails and the code only logs it; "read": the marker, or
\* the slot just activated, cannot be read, and the process goes on without it;
\* "exec": the restart strategy returns.
FaultKind == {"crash", "power", "io", "clear", "reset", "read", "exec"}

ASSUME ConstantsAssumption ==
    /\ Initial \in Binary
    /\ Garbage \notin Binary
    /\ None \notin Binary \cup {Garbage} \cup [prev : Binary, new : Binary]
    /\ Dud \cup Crashy \cup Sick \subseteq Binary
    /\ Initial \notin Dud \cup Crashy \cup Sick
    /\ Policy \subseteq Binary \X Binary
    /\ MaxBoots \in Nat \ {0}
    /\ Faults \subseteq FaultKind
    /\ MaxFaults \in Nat
    /\ MaxPublish \in Nat

VARIABLES
    \* On disk.
    slot,         \* content of the files A and B
    active,       \* the slot the active symlink names
    pending,      \* .pending_update, or None
    bootCount,    \* .boot_count
    cooldown,     \* .restart_cooldown: "none", "active" or "expired"
    updateNow,    \* does .update_now exist
    diskPending,  \* what a power loss leaves of .pending_update
    diskCount,    \* what a power loss leaves of .boot_count
    \* In the process.
    pc,           \* where the process is
    running,      \* the version the process executes
    forceOnce,    \* Updater.forceOnce
    base,         \* RunOnce's activeHash
    target,       \* the manifest's TargetHash
    newBin,       \* the content RunOnce reconstructed
    \* The environment.
    published,    \* the server's current target, and how often it moved
    faults,       \* faults so far
    \* History, never read by an action's guard.
    vouched,      \* versions provisioned or seen healthy in their window
    condemned,    \* versions rolled back because their boot count ran out
    trialBoots,   \* boots counted since the marker was written or a check passed
    boots         \* boots counted of each version since its last Confirm

files == <<slot, active>>
marker == <<pending, diskPending>>
counter == <<bootCount, diskCount>>
disk == <<files, marker, counter, cooldown, updateNow>>
cycle == <<base, target, newBin>>
process == <<running, forceOnce, cycle>>
environment == <<published, faults>>
tally == <<condemned, trialBoots, boots>>
history == <<vouched, tally>>
vars == <<disk, pc, process, environment, history>>

Slots == {"A", "B"}
Other(s) == IF s = "B" THEN "A" ELSE "B"

Marker == [prev : Binary, new : Binary]
NoCount == [hash |-> None, count |-> 0]
Counter == [hash : Binary \cup {None}, count : Nat]

BootPC == {"boot", "window", "confirm", "clear",
           "rollback", "rbReset", "rbClear", "rbExec"}
CyclePC == {"idle", "heartbeat", "transfer", "stage", "mark", "swap", "exec",
            "undoClear", "undoRollback", "undoArm"}
PC == {"down", "starting"} \cup BootPC \cup CyclePC

\* The active slot holds the version the marker is about.
Trial == pending # None /\ slot[active] = pending.new

Armed == forceOnce \/ updateNow

\* A count nobody tells apart above MaxBoots.
Saturate(n) == IF n > MaxBoots THEN MaxBoots + 1 ELSE n

Fault(kind) == kind \in Faults /\ faults < MaxFaults /\ faults' = faults + 1

\* A write inside StateDir ends in an fsync of the directory.
Sync(p, c) == diskPending' = p /\ diskCount' = c

-----------------------------------------------------------------------------
Init ==
    /\ slot = [s \in Slots |-> Initial]
    /\ active = "A"
    /\ pending = None /\ diskPending = None
    /\ bootCount = NoCount /\ diskCount = NoCount
    /\ cooldown = "none"
    /\ updateNow = FALSE
    /\ pc = "down"
    /\ running = Initial
    /\ forceOnce = FALSE
    /\ base = None /\ target = None /\ newBin = None
    /\ published = [target |-> Initial, moves |-> 0]
    /\ faults = 0
    /\ vouched = {Initial}
    /\ condemned = {}
    /\ trialBoots = 0
    /\ boots = [b \in Binary |-> 0]

-----------------------------------------------------------------------------
(* Removals.  clearPending and the two callers of BootCounter.Reset log a  *)
(* failure and go on.                                                      *)

\* (mutant: the marker is forgotten)
clearPendingForgotten == UNCHANGED <<pending, faults>>

clearPending ==
    \/ pending' = None /\ UNCHANGED faults
    \/ Fault("clear") /\ UNCHANGED pending

Reset ==
    \/ bootCount' = NoCount /\ UNCHANGED faults
    \/ Fault("reset") /\ UNCHANGED bootCount

-----------------------------------------------------------------------------
(* The process.                                                            *)

\* The image at the active symlink takes over, by exec or by the supervisor.
StartImage ==
    /\ pc' = "starting"
    /\ running' = slot[active]
    /\ forceOnce' = FALSE
    /\ base' = None /\ target' = None /\ newBin' = None

\* The process is gone, and its memory with it.
Exit ==
    /\ pc' = "down"
    /\ forceOnce' = FALSE
    /\ base' = None /\ target' = None /\ newBin' = None
    /\ UNCHANGED running

\* The supervisor launches whatever the symlink names.
Launch ==
    /\ pc = "down"
    /\ StartImage
    /\ UNCHANGED <<disk, environment, history>>

\* Everything main does before Updater.Run: configuration, key, constructors.
EnterBootPhase ==
    /\ pc = "starting"
    /\ running \notin Dud
    /\ pc' = "boot"
    /\ UNCHANGED <<disk, process, environment, history>>

\* A dud panics in an init function, or refuses its configuration.
DudDies ==
    /\ pc = "starting"
    /\ running \in Dud
    /\ Exit
    /\ UNCHANGED <<disk, environment, history>>

\* A crashy version dies soon after it was launched: inside the window, when
\* there is one.
CrashyDies ==
    /\ pc \in {"window", "idle", "heartbeat"}
    /\ running \in Crashy
    /\ Exit
    /\ UNCHANGED <<disk, environment, history>>

\* SIGKILL, a panic, or SIGTERM: a cancelled context leaves BootPhase with
\* everything it already wrote in place.
Crash ==
    /\ pc # "down"
    /\ Fault("crash")
    /\ Exit
    /\ UNCHANGED <<disk, published, history>>

\* Removals are not followed by an fsync, so a power loss may undo them.
PowerLoss ==
    /\ Fault("power")
    /\ Exit
    /\ pending' \in {pending, diskPending}
    /\ bootCount' \in {bootCount, diskCount}
    /\ Sync(pending', bootCount')
    /\ UNCHANGED <<files, cooldown, updateNow, published, history>>

-----------------------------------------------------------------------------
(* BootPhase.                                                              *)

SteadyBoot ==
    /\ pc = "boot"
    /\ pending = None
    /\ pc' = "idle"
    /\ UNCHANGED <<disk, process, environment, history>>

\* readPending returned an error: ignored, the marker stays where it is.
UnreadableMarker ==
    /\ pc = "boot"
    /\ Fault("read")
    /\ pc' = "idle"
    /\ UNCHANGED <<disk, process, published, history>>

MismatchedMarker ==
    /\ pc = "boot"
    /\ pending # None /\ ~Trial
    /\ clearPending
    /\ pc' = "idle"
    /\ UNCHANGED <<files, counter, cooldown, updateNow, diskPending, process,
                   published, history>>

\* (mutants: every boot starts the count anew; the count outlives its version)
IncrementRestarts(st, hash) == [hash |-> hash, count |-> 1]
IncrementAnyHash(st, hash) == [hash |-> hash, count |-> st.count + 1]

Increment(st, hash) ==
    IF st.hash = hash THEN [st EXCEPT !.count = @ + 1]
                      ELSE [hash |-> hash, count |-> 1]

BootCountExceeded(count) == count > MaxBoots

CheckBoot ==
    /\ pc = "boot"
    /\ Trial
    /\ bootCount' = Increment(bootCount, slot[active])
    /\ Sync(pending, bootCount')
    /\ trialBoots' = Saturate(trialBoots + 1)
    /\ boots' = [boots EXCEPT ![slot[active]] = Saturate(@ + 1)]
    /\ IF BootCountExceeded(bootCount'.count)
          THEN pc' = "rollback" /\ condemned' = condemned \cup {slot[active]}
          ELSE pc' = "window" /\ UNCHANGED condemned
    /\ UNCHANGED <<files, pending, cooldown, updateNow, process, environment,
                   vouched>>

\* The active slot could not be read, before CheckBoot or after Rollback, or the
\* counter not written: BootPhase fails and the process exits.
BootFails ==
    /\ (pc = "boot" /\ pending # None) \/ pc = "rbClear"
    /\ Fault("io")
    /\ Exit
    /\ UNCHANGED <<disk, published, history>>

HealthPass ==
    /\ pc = "window"
    /\ running \notin Sick \cup Crashy
    /\ vouched' = vouched \cup {running}
    /\ trialBoots' = 0
    /\ pc' = "confirm"
    /\ UNCHANGED <<disk, process, environment, condemned, boots>>

\* (mutant: a failed check is taken for a pass)
HealthFailConfirms ==
    /\ pc = "window"
    /\ running \notin Crashy
    /\ pc' = "confirm"
    /\ UNCHANGED <<disk, process, environment, history>>

\* Three attempts failed: a broken version, or a network that is down.
HealthFail ==
    /\ pc = "window"
    /\ running \notin Crashy
    /\ pc' = "rollback"
    /\ UNCHANGED <<disk, process, environment, history>>

Confirm ==
    /\ pc = "confirm"
    /\ Reset
    /\ boots' = [boots EXCEPT ![running] = 0]
    /\ pc' = "clear"
    /\ UNCHANGED <<files, marker, cooldown, updateNow, diskCount, process,
                   published, vouched, condemned, trialBoots>>

\* reportUpdate(success) and clearPending; steady state follows.
FinishTrial ==
    /\ pc = "clear"
    /\ clearPending
    /\ pc' = "idle"
    /\ UNCHANGED <<files, counter, cooldown, updateNow, diskPending, process,
                   published, history>>

\* rollbackAndExec.  Rollback toggles the symlink and asserts nothing.
Rollback ==
    /\ pc = "rollback"
    /\ active' = Other(active)
    /\ pc' = "rbReset"
    /\ UNCHANGED <<slot, marker, counter, cooldown, updateNow, process,
                   environment, history>>

\* The symlink stayed: the error ends Run, and the supervisor starts over.
RollbackFails ==
    /\ pc = "rollback"
    /\ Fault("io")
    /\ Exit
    /\ UNCHANGED <<disk, published, history>>

RollbackReset ==
    /\ pc = "rbReset"
    /\ Reset
    /\ pc' = "rbClear"
    /\ UNCHANGED <<files, marker, cooldown, updateNow, diskCount, process,
                   published, history>>

\* reportUpdate(failure) and clearPending.
RollbackClear ==
    /\ pc = "rbClear"
    /\ clearPending
    /\ pc' = "rbExec"
    /\ UNCHANGED <<files, counter, cooldown, updateNow, diskPending, process,
                   published, history>>

RollbackExec ==
    /\ pc = "rbExec"
    /\ StartImage
    /\ UNCHANGED <<disk, environment, history>>

RollbackExecFails ==
    /\ pc = "rbExec"
    /\ Fault("exec")
    /\ Exit
    /\ UNCHANGED <<disk, published, history>>

-----------------------------------------------------------------------------
(* RunOnce, up to the point where it has the new binary in memory.         *)

EndCycle ==
    /\ pc' = "idle"
    /\ base' = None /\ target' = None /\ newBin' = None

\* (mutant: an expired cooldown still blocks)
NoCooldown == cooldown # "none" => Armed

CooldownOver == cooldown = "active" => Armed

clearRestartCooldown ==
    \/ cooldown' = "none" /\ UNCHANGED faults
    \/ cooldown # "none" /\ Fault("clear") /\ UNCHANGED cooldown

\* The cooldown check and ActiveSlot.  An active cooldown skips the cycle
\* unless a trigger is armed; one that expired, or was overridden, is removed.
BeginCycle ==
    /\ pc = "idle"
    /\ CooldownOver
    /\ clearRestartCooldown
    /\ base' = slot[active]
    /\ pc' = "heartbeat"
    /\ UNCHANGED <<files, marker, counter, updateNow, running, forceOnce,
                   target, newBin, published, history>>

\* Both transports failed, the version is current, RetryAfter is set, or the
\* manifest is incomplete: RunOnce returns before it looks at the trigger.
NothingToApply ==
    /\ pc = "heartbeat"
    /\ EndCycle
    /\ UNCHANGED <<disk, running, forceOnce, environment, history>>

\* Build offers only a target that differs from the reported version.
Offered == pc = "heartbeat" /\ published.target # base

consumeForceOnce ==
    /\ forceOnce' = FALSE
    /\ \/ updateNow' = FALSE /\ UNCHANGED faults
       \/ updateNow /\ Fault("clear") /\ UNCHANGED updateNow

policyAllows == <<running, published.target>> \in Policy

\* The policy blocks the update, or the manifest's signature is not valid.
RejectManifest ==
    /\ Offered
    /\ consumeForceOnce
    /\ EndCycle
    /\ UNCHANGED <<files, marker, counter, cooldown, running, published,
                   history>>

AcceptManifest ==
    /\ Offered
    /\ Armed \/ policyAllows
    /\ consumeForceOnce
    /\ target' = published.target
    /\ pc' = "transfer"
    /\ UNCHANGED <<files, marker, counter, cooldown, running, base, newBin,
                   published, history>>

\* (mutant: whatever came out is installed)
AnyContent(c) == TRUE

HashMatches(c) == c = target

\* Download, then decompress or patch: c is what came out, whatever the
\* transfer and the active slot contained.  Only the target's hash passes.
Reconstruct(c) ==
    /\ pc = "transfer"
    /\ HashMatches(c)
    /\ newBin' = c
    /\ pc' = "stage"
    /\ UNCHANGED <<disk, running, forceOnce, base, target, environment,
                   history>>

TransferFails ==
    /\ pc = "transfer"
    /\ EndCycle
    /\ UNCHANGED <<disk, running, forceOnce, environment, history>>

-----------------------------------------------------------------------------
(* RunOnce, the part that changes the device.                              *)

WriteToInactive ==
    /\ pc = "stage"
    /\ slot' = [slot EXCEPT ![Other(active)] = newBin]
    /\ Sync(pending, bootCount)
    /\ pc' = "mark"
    /\ UNCHANGED <<active, pending, bootCount, cooldown, updateNow, process,
                   environment, history>>

\* (mutant: the marker names the version that is being replaced)
MarkerOfOld == [prev |-> base, new |-> base]

NewMarker == [prev |-> base, new |-> target]

writePending ==
    /\ pc = "mark"
    /\ pending' = NewMarker
    /\ Sync(pending', bootCount)
    /\ trialBoots' = 0
    /\ pc' = "swap"
    /\ UNCHANGED <<files, bootCount, cooldown, updateNow, process,
                   environment, vouched, condemned, boots>>

\* Either write returned an error: so does RunOnce.
StagingFails ==
    /\ pc \in {"stage", "mark"}
    /\ Fault("io")
    /\ EndCycle
    /\ UNCHANGED <<disk, running, forceOnce, published, history>>

Swap ==
    /\ pc = "swap"
    /\ active' = Other(active)
    /\ pc' = "exec"
    /\ UNCHANGED <<slot, marker, counter, cooldown, updateNow, process,
                   environment, history>>

\* The symlink stayed: the marker is withdrawn.
SwapFails ==
    /\ pc = "swap"
    /\ Fault("io")
    /\ pending' = None
    /\ EndCycle
    /\ UNCHANGED <<files, counter, cooldown, updateNow, diskPending, running,
                   forceOnce, published, history>>

\* The slot just activated cannot be read: RunOnce returns, and the old process
\* goes on beside a marker it will not look at before its next boot.
ReadBackFails ==
    /\ pc = "exec"
    /\ Fault("read")
    /\ EndCycle
    /\ UNCHANGED <<disk, running, forceOnce, published, history>>

Exec ==
    /\ pc = "exec"
    /\ StartImage
    /\ UNCHANGED <<disk, environment, history>>

ExecFails ==
    /\ pc = "exec"
    /\ Fault("exec")
    /\ pc' = "undoClear"
    /\ UNCHANGED <<disk, process, published, history>>

\* Restart returned: clearPending, then Rollback, then armRestartCooldown.
UndoClear ==
    /\ pc = "undoClear"
    /\ clearPending
    /\ pc' = "undoRollback"
    /\ UNCHANGED <<files, counter, cooldown, updateNow, diskPending, process,
                   published, history>>

\* (mutant: the cycle ends on the binary that could not be launched)
NoRollback == UNCHANGED <<active, faults>>

\* A rollback that fails as well is only logged.
RollbackOrLog ==
    \/ active' = Other(active) /\ UNCHANGED faults
    \/ Fault("io") /\ UNCHANGED active

UndoRollback ==
    /\ pc = "undoRollback"
    /\ RollbackOrLog
    /\ pc' = "undoArm"
    /\ UNCHANGED <<slot, marker, counter, cooldown, updateNow, process,
                   published, history>>

armRestartCooldown ==
    /\ pc = "undoArm"
    /\ \/ cooldown' = "active" /\ Sync(pending, bootCount) /\ UNCHANGED faults
       \/ Fault("io") /\ UNCHANGED <<cooldown, diskPending, diskCount>>
    /\ EndCycle
    /\ UNCHANGED <<files, pending, bootCount, updateNow, running, forceOnce,
                   published, history>>

-----------------------------------------------------------------------------
(* The environment.                                                        *)

CooldownExpires ==
    /\ cooldown = "active"
    /\ cooldown' = "expired"
    /\ UNCHANGED <<files, marker, counter, updateNow, pc, process,
                   environment, history>>

\* The operator creates .update_now, at any moment.
TouchUpdateNow ==
    /\ ~updateNow
    /\ updateNow' = TRUE
    /\ UNCHANGED <<files, marker, counter, cooldown, pc, process, environment,
                   history>>

\* The embedder calls TriggerUpdate, from any goroutine.
TriggerUpdate ==
    /\ pc \in CyclePC \cup BootPC
    /\ ~forceOnce
    /\ forceOnce' = TRUE
    /\ UNCHANGED <<disk, pc, running, cycle, environment, history>>

Publish(t) ==
    /\ published.moves < MaxPublish
    /\ t # published.target
    /\ published' = [target |-> t, moves |-> published.moves + 1]
    /\ UNCHANGED <<disk, pc, process, faults, history>>

-----------------------------------------------------------------------------
BootStep ==
    \/ SteadyBoot \/ UnreadableMarker \/ MismatchedMarker
    \/ CheckBoot \/ BootFails \/ CrashyDies \/ HealthPass \/ HealthFail
    \/ Confirm \/ FinishTrial
    \/ Rollback \/ RollbackFails \/ RollbackReset \/ RollbackClear
    \/ RollbackExec \/ RollbackExecFails

CycleStep ==
    \/ BeginCycle \/ NothingToApply \/ RejectManifest \/ AcceptManifest
    \/ \E c \in Binary \cup {Garbage} : Reconstruct(c)
    \/ TransferFails
    \/ WriteToInactive \/ writePending \/ StagingFails \/ Swap \/ SwapFails
    \/ ReadBackFails \/ Exec \/ ExecFails
    \/ UndoClear \/ UndoRollback \/ armRestartCooldown

EnvironmentStep ==
    \/ Crash \/ PowerLoss \/ CooldownExpires \/ TouchUpdateNow \/ TriggerUpdate
    \/ \E t \in Binary : Publish(t)

Next ==
    \/ Launch \/ EnterBootPhase \/ DudDies
    \/ BootStep \/ CycleStep \/ EnvironmentStep

\* The supervisor relaunches a dead process, a running one keeps taking steps,
\* and time passes.
Progress == Launch \/ EnterBootPhase \/ DudDies \/ BootStep \/ CycleStep

\* The link comes up often enough for each exchange to succeed at last.
LinkComesUp ==
    /\ SF_vars(AcceptManifest)
    /\ SF_vars(\E c \in Binary \cup {Garbage} : Reconstruct(c))
    /\ SF_vars(HealthPass)

Spec == Init /\ [][Next]_vars

FairSpec ==
    /\ Spec
    /\ WF_vars(Progress)
    /\ WF_vars(CooldownExpires)
    /\ LinkComesUp

-----------------------------------------------------------------------------
(* Properties.                                                             *)

\* Every variable has its type; in particular the slot files hold only
\* published versions, never what a bad transfer or patch produced.
TypeOK ==
    /\ slot \in [Slots -> Binary]
    /\ active \in Slots
    /\ pending \in Marker \cup {None} /\ diskPending \in Marker \cup {None}
    /\ bootCount \in Counter /\ diskCount \in Counter
    /\ cooldown \in {"none", "active", "expired"}
    /\ updateNow \in BOOLEAN /\ forceOnce \in BOOLEAN
    /\ pc \in PC
    /\ running \in Binary
    /\ base \in Binary \cup {None}
    /\ target \in Binary \cup {None}
    /\ newBin \in Binary \cup {None}
    /\ published \in [target : Binary, moves : Nat]
    /\ faults \in Nat
    /\ vouched \subseteq Binary /\ condemned \subseteq Binary
    /\ trialBoots \in Nat
    /\ boots \in [Binary -> Nat]

\* Every crash point is recoverable: whatever the supervisor would launch now
\* was provisioned, or was seen healthy, or is covered by the marker that sends
\* its next boot through the watchdog window.
CrashSafe == slot[active] \in vouched \/ Trial

\* As long as a version is on trial, the other slot holds the version the
\* marker names as previous, and that one is known to work: the toggle of
\* rollbackAndExec cannot land anywhere else.
FallbackIntact ==
    Trial => slot[Other(active)] = pending.prev /\ pending.prev \in vouched

\* The engine implements the abstract update: the marker, where it is about the
\* active slot, is the trial; a failed restart, whose marker is removed before
\* the toggle, is on trial until the toggle.
Abstract == INSTANCE SafeUpdate WITH
    Version <- Binary,
    current <- slot[active],
    fallback <- IF Trial THEN pending.prev
                ELSE IF pc = "undoRollback" THEN slot[Other(active)] ELSE None,
    known <- vouched

\* Every step of the agent is a step of the abstract update, or changes nothing
\* it can see.
Refines == Abstract!Spec

\* Crashes, relaunches and counter writes never give a version more than
\* MaxBoots windows in one trial.
WindowBudget == pc = "window" => trialBoots <= MaxBoots

\* A version is rolled back for its boot count only if it really was booted
\* more than MaxBoots times since it was last confirmed.
CondemnedJustly ==
    [][\A b \in condemned' \ condemned : boots'[b] > MaxBoots]_vars

\* An agent that outlived a failed restart is back on a version known to work
\* by the time the cycle ends.
UndoneByCycleEnd == pc = "idle" => slot[active] \in vouched

\* Under a supervisor that relaunches, every trial ends.
TrialResolves == Trial ~> ~Trial

\* The agent keeps coming back to its update loop: it is never lost to a boot
\* loop.
AgentStaysAlive == []<>(pc = "idle")

\* The server's last target is eventually the version in use, if it works at
\* all and the policy lets every version move to it.
Converges ==
    \A v \in Binary \ (Dud \cup Crashy \cup Sick) :
        Binary \X {v} \subseteq Policy
            => (<>[](published.target = v) => <>[](slot[active] = v /\ ~Trial))

=============================================================================

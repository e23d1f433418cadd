------------------------- MODULE UpdatePolicyProofs -------------------------
(***************************************************************************)
(* What TLAPS proves of the update policy in the agent: max_bump limits    *)
(* not only each automatic update but all of them together, for any        *)
(* versions, offered in any order, with any rollback, retry, crash or      *)
(* failure in between.                                                     *)
(*                                                                         *)
(* Agent knows its policy as a set of steps from one version to the next.  *)
(* A set of versions that no such step leaves is an invariant of what the  *)
(* device holds, and the versions max_bump permits are such a set.         *)
(***************************************************************************)
EXTENDS AgentProofs, UpdatePolicy

CONSTANTS
    cfg,     \* the agent's configuration
    Label    \* the version each binary carries, which it is offered under

\* Nobody creates .update_now or calls TriggerUpdate.
NoTrigger == ~TouchUpdateNow /\ ~TriggerUpdate

Automatic == Spec /\ [][NoTrigger]_vars

-----------------------------------------------------------------------------
(* A set of versions the policy does not lead out of.                      *)

ClosedUnderPolicy(S) ==
    /\ S \subseteq Binary /\ Initial \in S
    /\ \A v \in S, w \in Binary : <<v, w>> \in Policy => w \in S

\* What the device runs, or would run after any toggle.
RunsOnly(S) == running \in S /\ \A s \in Slots : slot[s] \in S

AutomaticInv(S) ==
    /\ RunsOnly(S)
    /\ ~Armed
    /\ target \in S \cup {None} /\ newBin \in S \cup {None}

LEMMA AutomaticInit ==
    ASSUME NEW S, ClosedUnderPolicy(S), Init
    PROVE  AutomaticInv(S)
BY DEF ClosedUnderPolicy, Init, AutomaticInv, RunsOnly, Armed

\* A step that downloads, decides and stages nothing; it may toggle, exec or exit.
LEMMA NothingNew ==
    ASSUME NEW S, TypeInv, AutomaticInv(S), UNCHANGED <<slot, updateNow>>,
           forceOnce' \in {forceOnce, FALSE},
           target' \in {target, None}, newBin' \in {newBin, None},
           running' \in {running, slot[active]}
    PROVE  AutomaticInv(S)'
<1>1. RunsOnly(S)'
  BY DEF AutomaticInv, RunsOnly, TypeInv, TypeOK
<1>2. ~Armed'
  BY Zenon DEF AutomaticInv, Armed
<1> QED
  BY <1>1, <1>2 DEF AutomaticInv

LEMMA AutomaticBoot ==
    ASSUME NEW S, TypeInv, AutomaticInv(S), BootStep
    PROVE  AutomaticInv(S)'
<1>1. /\ UNCHANGED <<slot, updateNow>>
      /\ forceOnce' \in {forceOnce, FALSE}
      /\ target' \in {target, None} /\ newBin' \in {newBin, None}
      /\ running' \in {running, slot[active]}
  BY DEF BootStep, SteadyBoot, UnreadableMarker, MismatchedMarker, CheckBoot,
         BootFails, CrashyDies, HealthPass, HealthFail, Confirm, FinishTrial,
         Rollback, RollbackFails, RollbackReset, RollbackClear, RollbackExec,
         RollbackExecFails, Exit, StartImage, disk, files, process, cycle
<1> QED
  BY <1>1, NothingNew

LEMMA AutomaticCycle ==
    ASSUME NEW S, ClosedUnderPolicy(S), TypeInv, AutomaticInv(S), CycleStep
    PROVE  AutomaticInv(S)'
<1>1. CASE AcceptManifest
  <2>1. /\ target' = published.target /\ <<running, published.target>> \in Policy
        /\ forceOnce' = FALSE /\ updateNow' \in {FALSE, updateNow}
        /\ UNCHANGED <<files, running, newBin>>
    BY <1>1 DEF AcceptManifest, consumeForceOnce, policyAllows, AutomaticInv
  <2>2. target' \in S
    BY <2>1 DEF ClosedUnderPolicy, AutomaticInv, RunsOnly, TypeInv, TypeOK
  <2>3. ~Armed'
    BY <2>1, Zenon DEF AutomaticInv, Armed
  <2> QED
    BY <2>1, <2>2, <2>3 DEF AutomaticInv, RunsOnly, files
<1>2. ASSUME NEW c \in Binary \cup {Garbage}, Reconstruct(c)
      PROVE  AutomaticInv(S)'
  <2>1. /\ newBin' = target
        /\ UNCHANGED <<files, updateNow, running, forceOnce, target>>
    BY <1>2 DEF Reconstruct, HashMatches, disk
  <2> QED
    BY <2>1 DEF AutomaticInv, RunsOnly, Armed, files
<1>3. CASE WriteToInactive
  <2>1. /\ slot' = [slot EXCEPT ![Other(active)] = newBin]
        /\ UNCHANGED <<updateNow, running, forceOnce, target, newBin>>
    BY <1>3 DEF WriteToInactive, process, cycle
  <2>2. newBin \in S
    BY <1>3, ConstantsAssumption
       DEF WriteToInactive, AutomaticInv, TypeInv, CycleTyped
  <2> QED
    BY <2>1, <2>2 DEF AutomaticInv, RunsOnly, Armed, TypeInv, TypeOK
<1>4. CASE RejectManifest
  <2>1. /\ forceOnce' = FALSE /\ updateNow' \in {FALSE, updateNow}
        /\ target' = None /\ newBin' = None /\ UNCHANGED <<files, running>>
    BY <1>4 DEF RejectManifest, consumeForceOnce, EndCycle
  <2>2. ~Armed'
    BY <2>1, Zenon DEF AutomaticInv, Armed
  <2> QED
    BY <2>1, <2>2 DEF AutomaticInv, RunsOnly, files
<1>5. CASE BeginCycle \/ NothingToApply \/ TransferFails \/ writePending
           \/ StagingFails \/ Swap \/ SwapFails \/ ReadBackFails \/ Exec
           \/ ExecFails \/ UndoClear \/ UndoRollback \/ armRestartCooldown
  <2>1. /\ UNCHANGED <<slot, updateNow>>
        /\ forceOnce' \in {forceOnce, FALSE}
        /\ target' \in {target, None} /\ newBin' \in {newBin, None}
        /\ running' \in {running, slot[active]}
    BY <1>5
       DEF BeginCycle, NothingToApply, TransferFails, writePending, StagingFails,
           Swap, SwapFails, ReadBackFails, Exec, ExecFails, UndoClear,
           UndoRollback, armRestartCooldown, EndCycle, StartImage, disk, files,
           process, cycle
  <2> QED
    BY <2>1, NothingNew
<1> QED
  BY <1>1, <1>2, <1>3, <1>4, <1>5 DEF CycleStep

LEMMA AutomaticStep ==
    ASSUME NEW S, ClosedUnderPolicy(S), TypeInv, AutomaticInv(S),
           [Next]_vars, [NoTrigger]_vars
    PROVE  AutomaticInv(S)'
<1>1. CASE Launch \/ EnterBootPhase \/ DudDies \/ Crash \/ PowerLoss
           \/ CooldownExpires \/ (\E t \in Binary : Publish(t)) \/ UNCHANGED vars
  <2>1. /\ UNCHANGED <<slot, updateNow>>
        /\ forceOnce' \in {forceOnce, FALSE}
        /\ target' \in {target, None} /\ newBin' \in {newBin, None}
        /\ running' \in {running, slot[active]}
    BY <1>1
       DEF Launch, EnterBootPhase, DudDies, Crash, PowerLoss, CooldownExpires,
           Publish, Exit, StartImage, vars, disk, files, process, cycle
  <2> QED
    BY <2>1, NothingNew
<1>2. CASE (TouchUpdateNow \/ TriggerUpdate) /\ ~UNCHANGED vars
  BY <1>2 DEF NoTrigger
<1> QED
  BY <1>1, <1>2, AutomaticBoot, AutomaticCycle DEF Next, EnvironmentStep

\* An agent that nobody triggers never runs, and never holds in a slot, a
\* version outside a set that contains the one it was provisioned with and that
\* policyAllows does not lead out of: updates, rollbacks, relaunches and every
\* fault included.
THEOREM AutomaticUpdatesStayInside ==
    ASSUME NEW S, ClosedUnderPolicy(S)
    PROVE  Automatic => []RunsOnly(S)
<1>1. Init => TypeInv /\ AutomaticInv(S)
  BY TypeInit, AutomaticInit
<1>2. (TypeInv /\ AutomaticInv(S)) /\ [Next]_vars /\ [NoTrigger]_vars
      => (TypeInv /\ AutomaticInv(S))'
  BY TypeStep, AutomaticStep
<1>3. AutomaticInv(S) => RunsOnly(S)
  BY DEF AutomaticInv
<1> QED
  BY <1>1, <1>2, <1>3, PTL DEF Automatic, Spec

-----------------------------------------------------------------------------
(* The versions on one line.                                               *)

\* The agent takes its policy from its configuration and the labels.
PolicyIsConfigured ==
    Policy = {p \in Binary \X Binary : PolicyAllows(cfg, Label[p[1]], Label[p[2]])}

\* Every binary has a label, and one the parser refuses is not installed.
LabelsAreChecked ==
    /\ cfg \in Config /\ ~cfg.UnknownAllow
    /\ Label \in [Binary -> Semver \cup {Freeform}]
    /\ Label[Initial] \in Semver

\* The line max_bump keeps an agent on.
SameLine(v, w) ==
    /\ cfg.MaxBump \in {"none", "patch", "minor"} => v.major = w.major
    /\ cfg.MaxBump \in {"none", "patch"} => v.minor = w.minor
    /\ cfg.MaxBump = "none" => v = w

\* The versions on the line of the first one, itself and newer ones.
OnLine ==
    {b \in Binary :
        /\ Label[b] \in Semver
        /\ Label[b] = Label[Initial] \/ Precedes(Label[Initial], Label[b])
        /\ SameLine(Label[Initial], Label[b])}

LEMMA PrecedesTransitive ==
    ASSUME NEW u \in Semver, NEW v \in Semver, NEW w \in Semver,
           Precedes(u, v), Precedes(v, w)
    PROVE  Precedes(u, w)
BY DEF Semver, Precedes

\* Of two versions one precedes the other, unless they are the same.
LEMMA PrecedesTotal ==
    ASSUME NEW v \in Semver, NEW w \in Semver
    PROVE  /\ v = w \/ Precedes(v, w) \/ Precedes(w, v)
           /\ Precedes(v, w) => v # w /\ ~Precedes(w, v)
<1>1. v = w \/ Precedes(v, w) \/ Precedes(w, v)
  BY DEF Semver, Precedes
<1>2. Precedes(v, w) => v # w /\ ~Precedes(w, v)
  BY DEF Semver, Precedes
<1> QED
  BY <1>1, <1>2

\* Of two different versions exactly one is an update from the other, so no
\* policy lets an agent go to and fro between versions that parse (ComputeBump).
THEOREM OneWayOnly ==
    ASSUME NEW v \in Semver, NEW w \in Semver, v # w
    PROVE  ComputeBump(v, w) = "none" <=> ComputeBump(w, v) # "none"
<1>1. ComputeBump(v, w) = "none" <=> ~Precedes(v, w)
  BY DEF ComputeBump, Valid
<1>2. ComputeBump(w, v) = "none" <=> ~Precedes(w, v)
  BY DEF ComputeBump, Valid
<1> QED
  BY <1>1, <1>2, PrecedesTotal

\* What one automatic update may do, when labels that do not parse are refused.
LEMMA AllowedStep ==
    ASSUME cfg \in Config, ~cfg.UnknownAllow,
           NEW v \in Semver, NEW r \in Semver \cup {Freeform},
           PolicyAllows(cfg, v, r)
    PROVE  r \in Semver /\ Precedes(v, r) /\ SameLine(v, r) /\ cfg.MaxBump # "none"
<1>1. AllowedByPolicy(ComputeBump(v, r), cfg.MaxBump)
  BY LabelsAssumption DEF PolicyAllows
<1>2. Valid(v) /\ Valid(r) /\ Precedes(v, r)
  BY <1>1 DEF AllowedByPolicy, ComputeBump
<1>3. BumpLevel[ComputeBump(v, r)] <= BumpLevel[cfg.MaxBump]
  BY <1>1 DEF AllowedByPolicy
<1>4. cfg.MaxBump \in MaxBump
  BY DEF Config
<1>5. SameLine(v, r) /\ cfg.MaxBump # "none"
  <2>1. CASE v.major # r.major
    <3>1. ComputeBump(v, r) = "major"
      BY <1>2, <2>1 DEF ComputeBump
    <3> QED
      BY <1>3, <1>4, <3>1 DEF BumpLevel, MaxBump, SameLine
  <2>2. CASE v.major = r.major /\ v.minor # r.minor
    <3>1. ComputeBump(v, r) = "minor"
      BY <1>2, <2>2 DEF ComputeBump
    <3> QED
      BY <1>3, <1>4, <2>2, <3>1 DEF BumpLevel, MaxBump, SameLine
  <2>3. CASE v.major = r.major /\ v.minor = r.minor
    <3>1. ComputeBump(v, r) = "patch"
      BY <1>2, <2>3 DEF ComputeBump
    <3> QED
      BY <1>3, <1>4, <2>3, <3>1 DEF BumpLevel, MaxBump, SameLine
  <2> QED
    BY <2>1, <2>2, <2>3
<1> QED
  BY <1>2, <1>5 DEF Valid

\* No allowed update leaves the line, whichever of its versions it starts from.
LEMMA LineIsClosed ==
    ASSUME PolicyIsConfigured, LabelsAreChecked
    PROVE  ClosedUnderPolicy(OnLine)
<1> DEFINE L == Label[Initial]
<1>1. OnLine \subseteq Binary /\ Initial \in OnLine
  BY ConstantsAssumption DEF OnLine, LabelsAreChecked, SameLine
<1>2. ASSUME NEW v \in OnLine, NEW w \in Binary, <<v, w>> \in Policy
      PROVE  w \in OnLine
  <2>1. PolicyAllows(cfg, Label[v], Label[w])
    BY <1>2 DEF PolicyIsConfigured
  <2>2. /\ v \in Binary /\ Label[v] \in Semver
        /\ Label[v] = L \/ Precedes(L, Label[v])
        /\ SameLine(L, Label[v])
    BY DEF OnLine
  <2>3. L \in Semver /\ Label[w] \in Semver \cup {Freeform}
        /\ cfg \in Config /\ ~cfg.UnknownAllow
    BY DEF LabelsAreChecked
  <2> HIDE DEF L
  <2>4. /\ Label[w] \in Semver /\ Precedes(Label[v], Label[w])
        /\ SameLine(Label[v], Label[w]) /\ cfg.MaxBump # "none"
    BY <2>1, <2>2, <2>3, AllowedStep
  <2>5. Precedes(L, Label[w])
    BY <2>2, <2>3, <2>4, PrecedesTransitive
  <2>6. SameLine(L, Label[w])
    BY <2>2, <2>4 DEF SameLine
  <2> QED
    BY <2>4, <2>5, <2>6 DEF OnLine, L
<1> QED
  BY <1>1, <1>2 DEF ClosedUnderPolicy

\* However many updates an agent applies on its own, with whatever rollbacks and
\* failures in between, they never take it to a version older than the one it
\* was installed with, and never off the line max_bump names: many small bumps
\* do not add up to a large one (policyAllows).
THEOREM AutomaticUpdatesStayOnLine ==
    ASSUME PolicyIsConfigured, LabelsAreChecked
    PROVE  Automatic => []RunsOnly(OnLine)
<1> DEFINE S == OnLine
<1>1. ClosedUnderPolicy(S)
  BY LineIsClosed
<1> HIDE DEF S
<1>2. Init => TypeInv /\ AutomaticInv(S)
  BY <1>1, TypeInit, AutomaticInit
<1>3. (TypeInv /\ AutomaticInv(S)) /\ [Next]_vars /\ [NoTrigger]_vars
      => (TypeInv /\ AutomaticInv(S))'
  BY <1>1, TypeStep, AutomaticStep
<1>4. AutomaticInv(S) => RunsOnly(OnLine)
  BY DEF AutomaticInv, S
<1> QED
  BY <1>2, <1>3, <1>4, PTL DEF Automatic, Spec
=============================================================================

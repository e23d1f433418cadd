------------------------------ MODULE Registry ------------------------------
(***************************************************************************)
(* The server's artifact registry (pkg/server/registry.go): which bytes    *)
(* are current on each track, under calls from admin requests and watchers *)
(* that run concurrently, and the state file that outlives the process.    *)
(*                                                                         *)
(* Everything between Lock and Unlock is one step of a call; persist takes *)
(* its snapshot in a second one, writes the file in a third, and OnChange  *)
(* runs in a fourth.  A binary is its hash; Store.RegisterBinary, which    *)
(* precedes each publication, is part of the step that reads the content.  *)
(* UpdatedAt, sizes and metrics are left out.                              *)
(***************************************************************************)
EXTENDS History, FiniteSets

CONSTANTS
    Key,            \* artifact keys
    Version,        \* version labels
    Hash,           \* contents a binary may have
    None,           \* no key, no label, no hash
    Thread,         \* goroutines that may be inside the registry
    Declared,       \* the artifacts of the YAML file, in order: [key, version]
    ConfigDefault,  \* RegistryOptions.DefaultArtifact, or None
    MaxCalls,       \* how many calls a behaviour may contain
    MaxFaults       \* how many crashes and failing writes it may contain

ASSUME ConstantsAssumption ==
    /\ None \notin Key \cup Version \cup Hash
    /\ Declared \in Seq([key : Key, version : Version])
    /\ ConfigDefault \in Key \cup {None}
    /\ MaxCalls \in Nat /\ MaxFaults \in Nat

VARIABLES
    artifacts,   \* the map of published artifacts
    defaultKey,  \* the artifact of heartbeats that name none
    stateFile,   \* what persist wrote last
    file,        \* content of each key's source file
    call,        \* what each thread is doing
    booted,      \* how many declared artifacts ReconcileConfig has published
    calls,       \* calls so far
    faults       \* faults so far

memory == <<artifacts, defaultKey>>
bounds == <<calls, faults>>
regVars == <<memory, stateFile, file, call, booted, bounds>>

\* past is history: every hash the artifact had before, newest first.
Artifact == [version : Version, hash : Hash, source : BOOLEAN,
             history : Seq(Hash), past : Seq(Hash)]

\* What the state file holds; the map is a function on the registered keys.
State(st) ==
    /\ DOMAIN st = {"artifacts", "default"}
    /\ DOMAIN st.artifacts \subseteq Key
    /\ \A k \in DOMAIN st.artifacts : st.artifacts[k] \in Artifact
    /\ st.default \in Key \cup {None}

EmptyState == [artifacts |-> << >>, default |-> None]
Memory == [artifacts |-> artifacts, default |-> defaultKey]

CallPC == {"idle", "read", "set", "snapshot", "write", "notify"}
Call == [pc : CallPC, key : Key \cup {None}, version : Version \cup {None},
         hash : Hash \cup {None}, source : BOOLEAN, changed : BOOLEAN,
         snap : {EmptyState}, alone : BOOLEAN]
NoCall == [pc |-> "idle", key |-> None, version |-> None, hash |-> None,
           source |-> FALSE, changed |-> FALSE, snap |-> EmptyState,
           alone |-> FALSE]

Registered == DOMAIN artifacts
Ready == booted = Len(Declared)
Quiet == \A t \in Thread : call[t].pc = "idle"

-----------------------------------------------------------------------------
(* What a publication does to the registry.                                *)

\* (mutant: the empty hash of a new artifact is superseded like any other)
UpdatedFromNothing(k, version, hash, source) ==
    IF k \notin Registered
       THEN [version |-> version, hash |-> hash, source |-> source,
             history |-> <<None>>, past |-> << >>]
       ELSE LET a == artifacts[k] IN
            [version |-> version, hash |-> hash, source |-> source \/ a.source,
             history |-> IF a.hash = hash THEN a.history
                         ELSE Pushed(a.history, a.hash),
             past |-> IF a.hash = hash THEN a.past ELSE <<a.hash>> \o a.past]

\* Artifact k after version and hash were published on it.
Updated(k, version, hash, source) ==
    IF k \notin Registered
       THEN [version |-> version, hash |-> hash, source |-> source,
             history |-> << >>, past |-> << >>]
       ELSE LET a == artifacts[k] IN
            [version |-> version, hash |-> hash, source |-> source \/ a.source,
             history |-> IF a.hash = hash THEN a.history
                         ELSE Pushed(a.history, a.hash),
             past |-> IF a.hash = hash THEN a.past ELSE <<a.hash>> \o a.past]

\* (mutant: a new label on the same bytes is no change)
HashChanged(k, version, hash) ==
    k \notin Registered \/ artifacts[k].hash # hash

\* A new label on the same bytes is a change as well.
Changes(k, version, hash) ==
    \/ k \notin Registered
    \/ artifacts[k].hash # hash \/ artifacts[k].version # version

\* The first artifact ever published becomes the default.
DefaultAfter(k) ==
    IF defaultKey = None /\ Registered \subseteq {k} THEN k ELSE defaultKey

\* setTarget's critical section.
Publish(k, version, hash, source) ==
    /\ artifacts' = [j \in Registered \cup {k} |->
                       IF j = k THEN Updated(k, version, hash, source)
                       ELSE artifacts[j]]
    /\ defaultKey' = DefaultAfter(k)

-----------------------------------------------------------------------------
(* Calls.                                                                  *)

\* Thread t starts a call; it and the calls it meets are not alone.
Started(t, c) ==
    /\ call[t].pc = "idle"
    /\ call' = [u \in Thread |->
                   IF u = t THEN [c EXCEPT !.alone = Quiet]
                   ELSE [call[u] EXCEPT !.alone = FALSE]]

Begin(t, c) ==
    /\ Ready
    /\ calls < MaxCalls /\ calls' = calls + 1
    /\ Started(t, c)

PublishFile(t, k, v) ==
    /\ Begin(t, [NoCall EXCEPT !.pc = "set", !.key = k, !.version = v,
                               !.hash = file[k], !.source = TRUE])
    /\ UNCHANGED <<memory, stateFile, file, booted, faults>>

PublishBytes(t, k, v, h) ==
    /\ Begin(t, [NoCall EXCEPT !.pc = "set", !.key = k, !.version = v,
                               !.hash = h])
    /\ UNCHANGED <<memory, stateFile, file, booted, faults>>

\* (mutant: the label comes from the configuration)
DeclaredReload(k) ==
    [NoCall EXCEPT !.pc = "read", !.key = k, !.version = Declared[1].version,
                   !.source = TRUE]

Reload(k) ==
    [NoCall EXCEPT !.pc = "read", !.key = k, !.version = artifacts[k].version,
                   !.source = TRUE]

\* Republish looks the label and the source up under the lock ...
Republish(t, k) ==
    /\ k \in Registered /\ artifacts[k].source
    /\ Begin(t, Reload(k))
    /\ UNCHANGED <<memory, stateFile, file, booted, faults>>

\* ... and reads the file without it.
ReadSource(t) ==
    /\ call[t].pc = "read"
    /\ call' = [call EXCEPT ![t].pc = "set", ![t].hash = file[call[t].key]]
    /\ UNCHANGED <<memory, stateFile, file, booted, bounds>>

setTarget(t) ==
    /\ call[t].pc = "set"
    /\ LET c == call[t] IN
       /\ Publish(c.key, c.version, c.hash, c.source)
       /\ call' = [call EXCEPT ![t] =
             [NoCall EXCEPT !.pc = "snapshot", !.alone = c.alone,
                !.changed = Changes(c.key, c.version, c.hash)]]
    /\ UNCHANGED <<stateFile, file, booted, bounds>>

\* The admin handler invalidates the manifests after SetDefault.
SetDefault(t, k) ==
    /\ k \in Registered
    /\ Begin(t, [NoCall EXCEPT !.pc = "snapshot", !.changed = TRUE])
    /\ defaultKey' = k
    /\ UNCHANGED <<artifacts, stateFile, file, booted, faults>>

\* (mutant: a removed default stays the default)
KeepsDefault(k, left) == defaultKey

\* Without its default the registry falls back to the sole survivor.
DefaultWithout(k, left) ==
    IF defaultKey # k THEN defaultKey
    ELSE IF \E j \in left : left = {j} THEN CHOOSE j \in left : TRUE
    ELSE None

Remove(t, k) ==
    /\ k \in Registered
    /\ Begin(t, [NoCall EXCEPT !.pc = "snapshot", !.changed = TRUE])
    /\ artifacts' = [j \in Registered \ {k} |-> artifacts[j]]
    /\ defaultKey' = DefaultWithout(k, Registered \ {k})
    /\ UNCHANGED <<stateFile, file, booted, faults>>

\* (mutant: the default is not persisted)
StateWithoutDefault == [Memory EXCEPT !.default = None]

registryState == Memory

\* A failing write is logged, and the call goes on.
Saved(snap) ==
    \/ stateFile' = snap /\ UNCHANGED faults
    \/ faults < MaxFaults /\ faults' = faults + 1 /\ UNCHANGED stateFile

persist(t) ==
    /\ call[t].pc = "snapshot"
    /\ call' = [call EXCEPT ![t].pc = "write", ![t].snap = registryState]
    /\ UNCHANGED <<memory, stateFile, file, booted, bounds>>

WriteState(t) ==
    /\ call[t].pc = "write"
    /\ Saved(call[t].snap)
    /\ call' = [call EXCEPT ![t] =
                  IF @.changed THEN [NoCall EXCEPT !.pc = "notify"] ELSE NoCall]
    /\ UNCHANGED <<memory, file, booted, calls>>

OnChange(t) ==
    /\ call[t].pc = "notify"
    /\ call' = [call EXCEPT ![t] = NoCall]
    /\ UNCHANGED <<memory, stateFile, file, booted, bounds>>

-----------------------------------------------------------------------------
(* Start and stop.                                                         *)

\* NewRegistry's load in the process that follows.
Loaded ==
    /\ artifacts' = stateFile.artifacts
    /\ defaultKey' = IF ConfigDefault # None THEN ConfigDefault
                     ELSE stateFile.default
    /\ call' = [t \in Thread |-> NoCall]
    /\ booted' = 0
    /\ UNCHANGED <<stateFile, file>>

\* A crash.
Restart ==
    /\ faults < MaxFaults /\ faults' = faults + 1
    /\ Loaded
    /\ UNCHANGED calls

\* ReconcileConfig publishes the declared artifacts before anything else runs;
\* no manifest is cached yet, so OnChange has nothing to do.
ReconcileConfig ==
    /\ ~Ready
    /\ LET d == Declared[booted + 1] IN
          Publish(d.key, d.version, file[d.key], TRUE)
    /\ Saved(Memory')
    /\ booted' = booted + 1
    /\ UNCHANGED <<file, call, calls>>

\* A build or an operator replaces a source file.
EditSource(k, h) ==
    /\ h # file[k]
    /\ calls < MaxCalls /\ calls' = calls + 1
    /\ file' = [file EXCEPT ![k] = h]
    /\ UNCHANGED <<memory, stateFile, call, booted, faults>>

RegInit ==
    /\ artifacts = EmptyState.artifacts
    /\ defaultKey = ConfigDefault
    /\ stateFile = EmptyState
    /\ file \in [Key -> Hash]
    /\ call = [t \in Thread |-> NoCall]
    /\ booted = 0
    /\ calls = 0 /\ faults = 0

\* Steps that neither run the OnChange hook nor end the process.
RegStep ==
    \/ \E t \in Thread :
          \/ \E k \in Key, v \in Version : PublishFile(t, k, v)
          \/ \E k \in Key, v \in Version, h \in Hash : PublishBytes(t, k, v, h)
          \/ \E k \in Key : Republish(t, k)
          \/ ReadSource(t)
          \/ setTarget(t)
          \/ \E k \in Key : SetDefault(t, k)
          \/ \E k \in Key : Remove(t, k)
          \/ persist(t)
          \/ WriteState(t)
    \/ ReconcileConfig
    \/ \E k \in Key, h \in Hash : EditSource(k, h)

RegNext == RegStep \/ Restart \/ \E t \in Thread : OnChange(t)

RegSpec == RegInit /\ [][RegNext]_regVars

-----------------------------------------------------------------------------
(* Properties.                                                             *)

\* Every variable has its type.
RegTypeOK ==
    /\ State(Memory) /\ State(stateFile)
    /\ file \in [Key -> Hash]
    /\ DOMAIN call = Thread
    /\ \A t \in Thread :
          /\ State(call[t].snap)
          /\ [call[t] EXCEPT !.snap = EmptyState] \in Call
    /\ booted \in 0..Len(Declared)
    /\ calls \in Nat /\ faults \in Nat

\* Where h was last superseded: the smaller, the more recently.
LastSuperseded(past, h) ==
    CHOOSE i \in DOMAIN past : past[i] = h /\ \A j \in 1..(i - 1) : past[j] # h

\* Retention relies on it: an artifact's history holds exactly the most
\* recently superseded hashes, each once, newest first, and as many of them as
\* HistoryDepth allows, however often a hash came back.
HistoryIsRecent ==
    \A k \in Registered :
        LET a == artifacts[k]
            hashes == {a.past[i] : i \in DOMAIN a.past}
            newer(h) == {g \in hashes :
                            LastSuperseded(a.past, g) < LastSuperseded(a.past, h)}
        IN  /\ {a.history[i] : i \in DOMAIN a.history} =
                  {h \in hashes : Cardinality(newer(h)) < HistoryDepth}
            /\ \A i \in DOMAIN a.history : Cardinality(newer(a.history[i])) = i - 1

\* Heartbeats that name no artifact are never sent to one that is gone: the
\* default is registered, unless the configuration itself names a missing one.
\* Removals, restarts and reversed state files do not break it.
DefaultRegistered ==
    \A state \in {Memory, stateFile} :
        state.default \in DOMAIN state.artifacts \cup {None, ConfigDefault}

\* A call that met no other leaves a state file that says what the registry
\* says, by the time it notifies or returns.
AloneIsDurable ==
    [][\A t \in Thread :
          call[t].pc = "write" /\ call[t].alone /\ call'[t].pc # "write"
                /\ UNCHANGED faults
              => stateFile' = Memory']_regVars

\* Whatever was published through the admin API survives a restart: once every
\* call returned and no write failed, the state file is up to date.
PublishedSurvives == Ready /\ Quiet /\ faults = 0 => stateFile = Memory

=============================================================================

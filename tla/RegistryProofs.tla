--------------------------- MODULE RegistryProofs ---------------------------
(***************************************************************************)
(* Facts about the registry, for any keys, contents, threads, depth and     *)
(* configuration.                                                          *)
(*                                                                         *)
(* The default artifact never dangles.  A default travels from memory into *)
(* a snapshot, from there into the state file and, after a crash, back     *)
(* into memory, so the invariant says of each of them what the property    *)
(* says of two.                                                            *)
(*                                                                         *)
(* A call that met no other leaves a current state file.  While it is      *)
(* alone every other thread is idle, so that nothing but itself changes    *)
(* the memory its snapshot was taken from.                                 *)
(*                                                                         *)
(* A history holds the most recently superseded hashes.  A hash's age is   *)
(* how many hashes were superseded since it was last, so that the hash at  *)
(* place i of the history has the age i - 1.  A push makes the pushed hash *)
(* the youngest and ages exactly the hashes that were younger than it.     *)
(***************************************************************************)
EXTENDS Registry, FiniteSetTheorems, SequenceTheorems, TLAPS

Sound(st) == st.default \in DOMAIN st.artifacts \cup {None, ConfigDefault}

Field == {"pc", "key", "version", "hash", "source", "changed", "snap", "alone"}

CallsSound ==
    /\ DOMAIN call = Thread
    /\ \A t \in Thread : DOMAIN call[t] = Field /\ Sound(call[t].snap)

DefaultInv == Sound(Memory) /\ Sound(stateFile) /\ CallsSound

-----------------------------------------------------------------------------
(* Calls.                                                                  *)

\* The snapshot of a call that holds none.
LEMMA EmptyIsSound == Sound(EmptyState)
BY DEF Sound, EmptyState

LEMMA NoCallIsSound == DOMAIN NoCall = Field /\ Sound(NoCall.snap)
BY EmptyIsSound DEF NoCall, Field

\* A call that begins brings a sound snapshot and leaves the others theirs.
LEMMA StartedIsSound ==
    ASSUME CallsSound, NEW t \in Thread, NEW c,
           DOMAIN c = Field, Sound(c.snap), Started(t, c)
    PROVE  CallsSound'
<1>1. DOMAIN call' = Thread
  BY DEF Started
<1>2. ASSUME NEW u \in Thread
      PROVE  DOMAIN call'[u] = Field /\ call'[u].snap \in {c.snap, call[u].snap}
  BY <1>2 DEF Started, CallsSound, Field
<1>3. ASSUME NEW u \in Thread  PROVE Sound(call'[u].snap)
  BY <1>2 DEF CallsSound
<1>4. QED  BY <1>1, <1>2, <1>3 DEF CallsSound, Sound

LEMMA BeginIsSound ==
    ASSUME CallsSound, NEW t \in Thread, NEW c,
           DOMAIN c = Field, Sound(c.snap), Begin(t, c)
    PROVE  CallsSound'
BY StartedIsSound DEF Begin

\* So does a call that goes on with a sound snapshot.
LEMMA MoveIsSound ==
    ASSUME CallsSound, NEW t \in Thread, NEW c,
           DOMAIN c = Field, Sound(c.snap), call' = [call EXCEPT ![t] = c]
    PROVE  CallsSound'
BY DEF CallsSound, Sound

\* A call that changes its pc and its hash keeps its snapshot.
LEMMA ReadIsSound ==
    ASSUME CallsSound, NEW t \in Thread, ReadSource(t)
    PROVE  CallsSound'
<1>1. call' = [call EXCEPT ![t] =
                  [call[t] EXCEPT !.pc = "set", !.hash = file[call[t].key]]]
  BY DEF ReadSource
<1>2. QED  BY <1>1, MoveIsSound DEF CallsSound, Field

-----------------------------------------------------------------------------
(* The registry and the state file.                                        *)

\* A publication may make its own key the default, and removes none.
LEMMA PublishIsSound ==
    ASSUME Sound(Memory), NEW k \in Key, NEW v, NEW h, NEW s, Publish(k, v, h, s)
    PROVE  Sound(Memory')
BY DEF Publish, DefaultAfter, Sound, Memory, Registered

LEMMA RemoveIsSound ==
    ASSUME Sound(Memory), NEW t \in Thread, NEW k \in Key, Remove(t, k)
    PROVE  Sound(Memory')
BY DEF Remove, DefaultWithout, Sound, Memory, Registered

LEMMA SavedIsSound ==
    ASSUME Sound(stateFile), NEW st, Sound(st), Saved(st)
    PROVE  Sound(stateFile')
BY DEF Saved

-----------------------------------------------------------------------------
LEMMA DefaultInit == RegInit => DefaultInv
<1>1. ASSUME RegInit  PROVE Sound(Memory)
  BY <1>1 DEF RegInit, Sound, Memory
<1>2. ASSUME RegInit  PROVE CallsSound
  BY <1>2, NoCallIsSound DEF RegInit, CallsSound
<1>3. QED  BY <1>1, <1>2, EmptyIsSound DEF RegInit, DefaultInv

LEMMA DefaultStep == DefaultInv /\ [RegNext]_regVars => DefaultInv'
<1> SUFFICES ASSUME DefaultInv, [RegNext]_regVars  PROVE DefaultInv'
  OBVIOUS
<1> USE DEF DefaultInv
<1>0. DOMAIN NoCall = Field /\ Sound(NoCall.snap)
  BY NoCallIsSound
<1>1. ASSUME NEW t \in Thread, NEW k \in Key, NEW v \in Version,
             PublishFile(t, k, v)
      PROVE  DefaultInv'
  <2>1. CallsSound'
    BY <1>0, <1>1, BeginIsSound DEF PublishFile, NoCall, Field
  <2>2. QED  BY <1>1, <2>1 DEF PublishFile, memory, Memory
<1>2. ASSUME NEW t \in Thread, NEW k \in Key, NEW v \in Version, NEW h \in Hash,
             PublishBytes(t, k, v, h)
      PROVE  DefaultInv'
  <2>1. CallsSound'
    BY <1>0, <1>2, BeginIsSound DEF PublishBytes, NoCall, Field
  <2>2. QED  BY <1>2, <2>1 DEF PublishBytes, memory, Memory
<1>3. ASSUME NEW t \in Thread, NEW k \in Key, Republish(t, k)
      PROVE  DefaultInv'
  <2>1. CallsSound'
    BY <1>0, <1>3, BeginIsSound DEF Republish, Reload, NoCall, Field
  <2>2. QED  BY <1>3, <2>1 DEF Republish, Reload, memory, Memory
<1>4. ASSUME NEW t \in Thread, ReadSource(t)
      PROVE  DefaultInv'
  BY <1>4, ReadIsSound DEF ReadSource, memory, Memory
<1>5. ASSUME NEW t \in Thread, setTarget(t)
      PROVE  DefaultInv'
  <2> DEFINE c == [NoCall EXCEPT
                !.pc = "snapshot", !.alone = call[t].alone,
                !.changed = Changes(call[t].key, call[t].version, call[t].hash)]
  <2>a. DOMAIN c = Field /\ Sound(c.snap)
    BY <1>0 DEF NoCall, Field
  <2>b. call' = [call EXCEPT ![t] = c]
    BY <1>5 DEF setTarget
  <2>1. CallsSound'
    <3> HIDE DEF c
    <3> QED  BY <2>a, <2>b, MoveIsSound
  <2>2. QED  BY <1>5, <2>1 DEF setTarget, Publish, DefaultAfter, Sound, Memory, Registered
<1>6. ASSUME NEW t \in Thread, NEW k \in Key, SetDefault(t, k)
      PROVE  DefaultInv'
  <2>1. CallsSound'
    BY <1>0, <1>6, BeginIsSound DEF SetDefault, NoCall, Field
  <2>2. QED  BY <1>6, <2>1 DEF SetDefault, Sound, Memory, Registered
<1>7. ASSUME NEW t \in Thread, NEW k \in Key, Remove(t, k)
      PROVE  DefaultInv'
  <2>1. CallsSound'
    BY <1>0, <1>7, BeginIsSound DEF Remove, NoCall, Field
  <2>2. Sound(Memory')
    BY <1>7, RemoveIsSound
  <2>3. QED  BY <1>7, <2>1, <2>2 DEF Remove, Memory
<1>8. ASSUME NEW t \in Thread, persist(t)
      PROVE  DefaultInv'
  <2>1. call' = [call EXCEPT ![t] =
                    [call[t] EXCEPT !.pc = "write", !.snap = Memory]]
    BY <1>8 DEF persist, registryState
  <2>2. CallsSound'
    BY <2>1, MoveIsSound DEF CallsSound, Field
  <2>3. QED  BY <1>8, <2>2 DEF persist, memory, Memory
<1>9. ASSUME NEW t \in Thread, WriteState(t)
      PROVE  DefaultInv'
  <2> DEFINE c == IF call[t].changed THEN [NoCall EXCEPT !.pc = "notify"]
                  ELSE NoCall
  <2>a. DOMAIN c = Field /\ Sound(c.snap)
    BY <1>0 DEF NoCall, Field
  <2>b. call' = [call EXCEPT ![t] = c]
    BY <1>9 DEF WriteState
  <2>1. CallsSound'
    <3> HIDE DEF c
    <3> QED  BY <2>a, <2>b, MoveIsSound
  <2>2. Sound(stateFile')
    BY <1>9, SavedIsSound DEF WriteState, CallsSound
  <2>3. QED  BY <1>9, <2>1, <2>2 DEF WriteState, memory, Memory
<1>10. ASSUME ReconcileConfig  PROVE DefaultInv'
  <2>1. PICK d \in {Declared[booted + 1]} : Publish(d.key, d.version, file[d.key], TRUE)
    BY <1>10 DEF ReconcileConfig
  <2>2. Sound(Memory')
    BY <2>1 DEF Publish, DefaultAfter, Sound, Memory, Registered
  <2>3. Sound(stateFile')
    BY <1>10, <2>2, SavedIsSound DEF ReconcileConfig
  <2>4. QED  BY <1>10, <2>2, <2>3 DEF ReconcileConfig, CallsSound, Memory
<1>11. ASSUME NEW k \in Key, NEW h \in Hash, EditSource(k, h)
       PROVE  DefaultInv'
  BY <1>11 DEF EditSource, memory, Memory, CallsSound
<1>12. ASSUME Restart  PROVE DefaultInv'
  <2>1. CallsSound'
    BY <1>0, <1>12 DEF Restart, Loaded, CallsSound
  <2>2. Sound(Memory')
    BY <1>12 DEF Restart, Loaded, Sound, Memory
  <2>3. QED  BY <1>12, <2>1, <2>2 DEF Restart, Loaded, Memory
<1>13. ASSUME NEW t \in Thread, OnChange(t)
       PROVE  DefaultInv'
  BY <1>0, <1>13, MoveIsSound DEF OnChange, memory, Memory
<1>14. ASSUME UNCHANGED regVars  PROVE DefaultInv'
  BY <1>14 DEF regVars, memory, Memory, CallsSound
<1>15. QED
  BY <1>1, <1>2, <1>3, <1>4, <1>5, <1>6, <1>7, <1>8, <1>9, <1>10, <1>11,
     <1>12, <1>13, <1>14 DEF RegNext, RegStep

\* Removals, overlapping calls, reversed state files and restarts never leave a
\* default that names an artifact nobody published, unless the configuration
\* named it (Registry.Remove, Registry.persist, Registry.load).
THEOREM DefaultNeverDangles == RegSpec => []DefaultRegistered
<1>1. DefaultInv => DefaultRegistered
  BY DEF DefaultInv, Sound, DefaultRegistered
<1>2. QED  BY <1>1, DefaultInit, DefaultStep, PTL DEF RegSpec

-----------------------------------------------------------------------------
(* Calls that meet no other.                                               *)

Alone(t) == call[t].alone /\ call[t].pc # "idle"

AloneInv ==
    /\ faults \in Nat
    /\ DOMAIN call = Thread
    /\ \A t \in Thread : DOMAIN call[t] = Field
    /\ \A t, u \in Thread : Alone(t) /\ u # t => call[u].pc = "idle"
    /\ \A t \in Thread : Alone(t) /\ call[t].pc = "write" => call[t].snap = Memory
    /\ ~Ready => Quiet

\* A call that begins is alone only among idle threads, and takes the others
\* out of their solitude.
LEMMA StartedIsAlone ==
    ASSUME AloneInv, NEW t \in Thread, NEW c, Ready, Started(t, c),
           DOMAIN c = Field, c.pc # "write", UNCHANGED booted, faults' \in Nat
    PROVE  AloneInv'
<1>1. DOMAIN call' = Thread
  BY DEF Started
<1>2. ASSUME NEW u \in Thread
      PROVE  /\ DOMAIN call'[u] = Field
             /\ u # t => call'[u].pc = call[u].pc /\ call'[u].alone = FALSE
             /\ u = t => call'[u].pc = c.pc /\ call'[u].alone = Quiet
  BY <1>2 DEF Started, AloneInv, Field
<1>3. ASSUME NEW u \in Thread, Alone(u)'
      PROVE  u = t /\ Quiet /\ call'[u].pc = c.pc
  BY <1>2, <1>3 DEF Alone
<1>4. ASSUME NEW u \in Thread, NEW w \in Thread, Alone(u)', w # u
      PROVE  call'[w].pc = "idle"
  BY <1>2, <1>3, <1>4 DEF Quiet
<1>5. Ready'
  BY DEF Ready
<1>6. ASSUME NEW u \in Thread, Alone(u)', call'[u].pc = "write"
      PROVE  FALSE
  BY <1>3, <1>6
<1>7. QED  BY <1>1, <1>2, <1>4, <1>5, <1>6 DEF AloneInv

LEMMA BeginIsAlone ==
    ASSUME AloneInv, NEW t \in Thread, NEW c, Begin(t, c),
           DOMAIN c = Field, c.pc # "write", UNCHANGED <<booted, faults>>
    PROVE  AloneInv'
BY StartedIsAlone DEF Begin, AloneInv

\* A call that goes on was either alone, or is not; where it changes memory,
\* no other call is alone.
LEMMA MoveIsAlone ==
    ASSUME AloneInv, NEW t \in Thread, NEW c, DOMAIN c = Field,
           call[t].pc # "idle", call' = [call EXCEPT ![t] = c],
           c.alone => call[t].alone,
           c.alone /\ c.pc = "write" => c.snap = Memory',
           UNCHANGED booted, faults' \in Nat
    PROVE  AloneInv'
<1>1. DOMAIN call' = Thread /\ call'[t] = c
  BY DEF AloneInv
<1>2. ASSUME NEW u \in Thread, u # t
      PROVE  call'[u] = call[u] /\ ~Alone(u) /\ ~Alone(u)'
  <2>1. call'[u] = call[u]
    BY <1>2 DEF AloneInv
  <2>2. ~Alone(u)
    BY <1>2 DEF AloneInv
  <2>3. QED  BY <2>1, <2>2 DEF Alone
<1>3. ASSUME Alone(t)', NEW u \in Thread, u # t
      PROVE  call'[u].pc = "idle"
  <2>1. Alone(t)
    BY <1>1, <1>3 DEF Alone
  <2>2. call[u].pc = "idle"
    BY <2>1, <1>3 DEF AloneInv
  <2>3. QED  BY <2>2, <1>2, <1>3
<1>4. Ready'
  BY DEF AloneInv, Ready, Quiet
<1>5. ASSUME NEW u \in Thread  PROVE DOMAIN call'[u] = Field
  BY <1>1, <1>2 DEF AloneInv
<1>6. ASSUME NEW u \in Thread, Alone(u)', call'[u].pc = "write"
      PROVE  call'[u].snap = Memory'
  BY <1>1, <1>2, <1>6 DEF Alone
<1>7. ASSUME NEW u \in Thread, NEW w \in Thread, Alone(u)', w # u
      PROVE  call'[w].pc = "idle"
  BY <1>2, <1>3, <1>7
<1>8. QED  BY <1>1, <1>4, <1>5, <1>6, <1>7 DEF AloneInv

LEMMA AloneInit == RegInit => AloneInv
BY NoCallIsSound DEF RegInit, AloneInv, Alone, NoCall, Quiet

LEMMA AloneStep == AloneInv /\ [RegNext]_regVars => AloneInv'
<1> SUFFICES ASSUME AloneInv, [RegNext]_regVars  PROVE AloneInv'
  OBVIOUS
<1>0. DOMAIN NoCall = Field /\ NoCall.pc = "idle" /\ NoCall.alone = FALSE
  BY NoCallIsSound DEF NoCall
<1>a. faults \in Nat /\ \A t \in Thread : DOMAIN call[t] = Field
  BY DEF AloneInv
<1>1. ASSUME NEW t \in Thread, NEW k \in Key, NEW v \in Version,
             PublishFile(t, k, v)
      PROVE  AloneInv'
  BY <1>0, <1>1, BeginIsAlone DEF PublishFile, NoCall, Field
<1>2. ASSUME NEW t \in Thread, NEW k \in Key, NEW v \in Version, NEW h \in Hash,
             PublishBytes(t, k, v, h)
      PROVE  AloneInv'
  BY <1>0, <1>2, BeginIsAlone DEF PublishBytes, NoCall, Field
<1>3. ASSUME NEW t \in Thread, NEW k \in Key, Republish(t, k)
      PROVE  AloneInv'
  BY <1>0, <1>3, BeginIsAlone DEF Republish, Reload, NoCall, Field
<1>4. ASSUME NEW t \in Thread, ReadSource(t)
      PROVE  AloneInv'
  <2> DEFINE c == [call[t] EXCEPT !.pc = "set", !.hash = file[call[t].key]]
  <2>1. DOMAIN c = Field /\ c.pc = "set" /\ c.alone = call[t].alone
    BY <1>a DEF Field
  <2>2. call' = [call EXCEPT ![t] = c] /\ call[t].pc = "read"
    BY <1>4 DEF ReadSource
  <2>3. UNCHANGED booted /\ faults' \in Nat
    BY <1>4, <1>a DEF ReadSource, bounds
  <2> HIDE DEF c
  <2>4. QED  BY <2>1, <2>2, <2>3, MoveIsAlone
<1>5. ASSUME NEW t \in Thread, setTarget(t)
      PROVE  AloneInv'
  <2> DEFINE c == [NoCall EXCEPT
                !.pc = "snapshot", !.alone = call[t].alone,
                !.changed = Changes(call[t].key, call[t].version, call[t].hash)]
  <2>1. DOMAIN c = Field /\ c.pc = "snapshot" /\ c.alone = call[t].alone
    BY <1>0 DEF NoCall, Field
  <2>2. call' = [call EXCEPT ![t] = c] /\ call[t].pc = "set"
    BY <1>5 DEF setTarget
  <2>3. UNCHANGED booted /\ faults' \in Nat
    BY <1>5, <1>a DEF setTarget, bounds
  <2> HIDE DEF c
  <2>4. QED  BY <2>1, <2>2, <2>3, MoveIsAlone
<1>6. ASSUME NEW t \in Thread, NEW k \in Key, SetDefault(t, k)
      PROVE  AloneInv'
  BY <1>0, <1>6, BeginIsAlone DEF SetDefault, NoCall, Field
<1>7. ASSUME NEW t \in Thread, NEW k \in Key, Remove(t, k)
      PROVE  AloneInv'
  BY <1>0, <1>7, BeginIsAlone DEF Remove, NoCall, Field
<1>8. ASSUME NEW t \in Thread, persist(t)
      PROVE  AloneInv'
  <2> DEFINE c == [call[t] EXCEPT !.pc = "write", !.snap = Memory]
  <2>1. DOMAIN c = Field /\ c.snap = Memory /\ c.alone = call[t].alone
    BY <1>a DEF Field
  <2>2. call' = [call EXCEPT ![t] = c] /\ call[t].pc = "snapshot"
    BY <1>8 DEF persist, registryState
  <2>3. UNCHANGED booted /\ faults' \in Nat /\ Memory' = Memory
    BY <1>8, <1>a DEF persist, bounds, memory, Memory
  <2> HIDE DEF c
  <2>4. QED  BY <2>1, <2>2, <2>3, MoveIsAlone
<1>9. ASSUME NEW t \in Thread, WriteState(t)
      PROVE  AloneInv'
  <2> DEFINE c == IF call[t].changed THEN [NoCall EXCEPT !.pc = "notify"]
                  ELSE NoCall
  <2>1. DOMAIN c = Field /\ c.alone = FALSE
    BY <1>0 DEF NoCall, Field
  <2>2. call' = [call EXCEPT ![t] = c] /\ call[t].pc = "write"
    BY <1>9 DEF WriteState
  <2>3. UNCHANGED booted /\ faults' \in Nat
    BY <1>9, <1>a DEF WriteState, Saved
  <2> HIDE DEF c
  <2>4. QED  BY <2>1, <2>2, <2>3, MoveIsAlone
<1>10. ASSUME ReconcileConfig  PROVE AloneInv'
  <2>1. Quiet /\ UNCHANGED call
    BY <1>10 DEF ReconcileConfig, AloneInv
  <2>2. \A t \in Thread : ~Alone(t) /\ ~Alone(t)'
    BY <2>1 DEF Quiet, Alone
  <2>3. faults' \in Nat
    BY <1>10, <1>a DEF ReconcileConfig, Saved
  <2>4. QED  BY <2>1, <2>2, <2>3 DEF AloneInv, Quiet
<1>11. ASSUME NEW k \in Key, NEW h \in Hash, EditSource(k, h)
       PROVE  AloneInv'
  BY <1>11 DEF EditSource, AloneInv, Alone, Ready, Quiet, memory, Memory
<1>12. ASSUME Restart  PROVE AloneInv'
  <2>1. call' = [t \in Thread |-> NoCall] /\ faults' \in Nat
    BY <1>12, <1>a DEF Restart, Loaded
  <2>2. QED  BY <1>0, <2>1 DEF AloneInv, Alone, Quiet
<1>13. ASSUME NEW t \in Thread, OnChange(t)
       PROVE  AloneInv'
  <2>1. call' = [call EXCEPT ![t] = NoCall] /\ call[t].pc = "notify"
    BY <1>13 DEF OnChange
  <2>2. UNCHANGED booted /\ faults' \in Nat
    BY <1>13, <1>a DEF OnChange, bounds
  <2>3. QED  BY <1>0, <2>1, <2>2, MoveIsAlone
<1>14. ASSUME UNCHANGED regVars  PROVE AloneInv'
  BY <1>14 DEF regVars, bounds, memory, Memory, AloneInv, Alone, Ready, Quiet
<1>15. QED
  BY <1>1, <1>2, <1>3, <1>4, <1>5, <1>6, <1>7, <1>8, <1>9, <1>10, <1>11,
     <1>12, <1>13, <1>14 DEF RegNext, RegStep

\* A thread leaves "write" by writing, or the process dies.
LEMMA OnlyWriteLeaves ==
    ASSUME AloneInv, RegNext, NEW t \in Thread,
           call[t].pc = "write", call'[t].pc # "write"
    PROVE  WriteState(t) \/ Restart
<1>0. DOMAIN call = Thread
  BY DEF AloneInv
<1>1. ASSUME NEW u \in Thread, NEW c, Begin(u, c)
      PROVE  FALSE
  <2>1. u # t
    BY <1>1 DEF Begin, Started
  <2>2. call'[t] = [call[t] EXCEPT !.alone = FALSE]
    BY <1>1, <2>1 DEF Begin, Started
  <2>3. QED  BY <2>2 DEF AloneInv, Field
<1>2. ASSUME NEW u \in Thread, NEW c, call' = [call EXCEPT ![u] = c],
             call[u].pc # "write"
      PROVE  FALSE
  BY <1>0, <1>2
<1>3. ASSUME NEW u \in Thread, NEW k \in Key
      PROVE  /\ ~Republish(u, k) /\ ~SetDefault(u, k) /\ ~Remove(u, k)
             /\ \A v \in Version : ~PublishFile(u, k, v)
             /\ \A v \in Version, h \in Hash : ~PublishBytes(u, k, v, h)
  BY <1>1 DEF Republish, Reload, SetDefault, Remove, PublishFile, PublishBytes
<1>4. ASSUME NEW u \in Thread  PROVE ~ReadSource(u)
  <2>1. ReadSource(u) => call' = [call EXCEPT ![u] =
            [call[u] EXCEPT !.pc = "set", !.hash = file[call[u].key]]]
    BY DEF ReadSource
  <2>2. QED  BY <1>2, <2>1 DEF ReadSource
<1>5. ASSUME NEW u \in Thread  PROVE ~setTarget(u)
  BY <1>2 DEF setTarget
<1>6. ASSUME NEW u \in Thread  PROVE ~persist(u)
  <2>1. persist(u) => call' = [call EXCEPT ![u] =
            [call[u] EXCEPT !.pc = "write", !.snap = registryState]]
    BY DEF persist
  <2>2. QED  BY <1>2, <2>1 DEF persist
<1>7. ASSUME NEW u \in Thread  PROVE ~OnChange(u)
  BY <1>2 DEF OnChange
<1>8. ASSUME NEW u \in Thread, WriteState(u)  PROVE u = t
  BY <1>0, <1>8 DEF WriteState
<1>9. ~ReconcileConfig /\ \A k \in Key, h \in Hash : ~EditSource(k, h)
  BY DEF ReconcileConfig, EditSource
<1>10. QED
  BY <1>3, <1>4, <1>5, <1>6, <1>7, <1>8, <1>9 DEF RegNext, RegStep

\* A call that overlapped no other has made the state file current when it goes
\* on to notify or returns, unless its write failed (Registry.persist).
THEOREM AloneDurable == RegSpec => AloneIsDurable
<1> DEFINE Durable ==
      \A t \in Thread :
          call[t].pc = "write" /\ call[t].alone /\ call'[t].pc # "write"
                /\ UNCHANGED faults
              => stateFile' = Memory'
<1>1. ASSUME AloneInv, RegNext, NEW t \in Thread, call[t].pc = "write",
             call[t].alone, call'[t].pc # "write", UNCHANGED faults
      PROVE  stateFile' = Memory'
  <2>1. ~Restart
    BY <1>1 DEF Restart, Loaded, AloneInv
  <2>2. WriteState(t)
    BY <1>1, <2>1, OnlyWriteLeaves
  <2>3. call[t].snap = Memory
    BY <1>1 DEF AloneInv, Alone
  <2>4. stateFile' = call[t].snap
    BY <1>1, <2>2 DEF WriteState, Saved, AloneInv
  <2>5. Memory' = Memory
    BY <2>2 DEF WriteState, memory, Memory
  <2>6. QED  BY <2>3, <2>4, <2>5
<1>2. AloneInv /\ [RegNext]_regVars => [Durable]_regVars
  BY <1>1
<1>3. QED
  BY <1>2, AloneInit, AloneStep, PTL DEF RegSpec, AloneIsDurable

-----------------------------------------------------------------------------
(* Calls that never meet.                                                  *)

\* A call begins only while no other is under way.
OneAtATime ==
    \A t \in Thread : call[t].pc = "idle" /\ call'[t].pc # "idle" => Quiet

Serial == RegSpec /\ [][OneAtATime]_regVars

\* Nothing is published yet but the default of the configuration.
OnlyDefault == booted = 0 /\ ConfigDefault # None

\* The file says what the registry says, or a call is about to write it.
FileFollows ==
    /\ \A t \in Thread : call[t].pc = "write" => call[t].snap = Memory
    /\ \/ stateFile = Memory
       \/ \E t \in Thread : call[t].pc \in {"snapshot", "write"}
       \/ OnlyDefault

SerialInv ==
    /\ \A t, u \in Thread : call[t].pc # "idle" /\ u # t => call[u].pc = "idle"
    /\ faults = 0 => FileFollows

LEMMA SerialInit == RegInit => SerialInv
<1> SUFFICES ASSUME RegInit  PROVE SerialInv
  OBVIOUS
<1>1. Quiet
  BY DEF RegInit, Quiet, NoCall
<1>2. ConfigDefault = None => stateFile = Memory
  BY DEF RegInit, EmptyState, Memory
<1>3. QED
  BY <1>1, <1>2 DEF SerialInv, FileFollows, OnlyDefault, Quiet, RegInit

\* A call that begins, alone.
LEMMA SerialBegin ==
    ASSUME AloneInv, SerialInv, OneAtATime, NEW t \in Thread, NEW c,
           Begin(t, c), DOMAIN c = Field, c.pc \in {"read", "set", "snapshot"},
           c.pc # "snapshot" => UNCHANGED memory,
           UNCHANGED <<stateFile, booted, faults>>
    PROVE  SerialInv'
<1>1. \A u \in Thread : call'[u].pc = IF u = t THEN c.pc ELSE call[u].pc
  BY DEF Begin, Started, AloneInv, Field
<1>2. Quiet
  BY <1>1 DEF OneAtATime, Begin, Started
<1>3. \A u \in Thread : call'[u].pc = IF u = t THEN c.pc ELSE "idle"
  BY <1>1, <1>2 DEF Quiet
<1>4. c.pc # "snapshot" => Memory' = Memory
  BY DEF memory, Memory
<1>5. QED
  BY <1>2, <1>3, <1>4 DEF SerialInv, FileFollows, OnlyDefault, Quiet

\* The call that is under way goes on.
LEMMA SerialMove ==
    ASSUME AloneInv, SerialInv, NEW t \in Thread, NEW c,
           call[t].pc # "idle", call' = [call EXCEPT ![t] = c],
           faults' = 0 =>
               /\ c.pc = "write" => c.snap = Memory'
               /\ stateFile' = Memory' \/ c.pc \in {"snapshot", "write"}
                  \/ OnlyDefault'
    PROVE  SerialInv'
<1>1. \A u \in Thread : call'[u] = IF u = t THEN c ELSE call[u]
  BY DEF AloneInv
<1>2. \A u \in Thread : u # t => call[u].pc = "idle"
  BY DEF SerialInv
<1>3. QED  BY <1>1, <1>2 DEF SerialInv, FileFollows

\* While a call is under way that writes nothing, the file is up to date.
LEMMA OneCallOnly ==
    ASSUME SerialInv, NEW t \in Thread,
           call[t].pc \notin {"idle", "snapshot", "write"}, faults = 0
    PROVE  stateFile = Memory \/ OnlyDefault
<1>1. \A u \in Thread : call[u].pc \notin {"snapshot", "write"}
  BY DEF SerialInv
<1>2. QED  BY <1>1 DEF SerialInv, FileFollows

LEMMA SerialStep ==
    ASSUME AloneInv, SerialInv, [RegNext]_regVars, [OneAtATime]_regVars
    PROVE  SerialInv'
<1>0. DOMAIN NoCall = Field /\ NoCall.pc = "idle"
  BY NoCallIsSound DEF NoCall
<1>a. faults \in Nat /\ \A t \in Thread : DOMAIN call[t] = Field
  BY DEF AloneInv
<1>b. ASSUME NEW t \in Thread, NEW c, Begin(t, c), c.pc # "idle",
             DOMAIN c = Field
      PROVE  OneAtATime
  <2>1. call'[t].pc # call[t].pc
    BY <1>b DEF Begin, Started, Field
  <2>2. QED  BY <2>1 DEF regVars
<1>1. ASSUME NEW t \in Thread, NEW k \in Key, NEW v \in Version,
             \/ PublishFile(t, k, v) \/ \E h \in Hash : PublishBytes(t, k, v, h)
      PROVE  SerialInv'
  <2>1. PICK c : /\ Begin(t, c) /\ DOMAIN c = Field /\ c.pc = "set"
                 /\ UNCHANGED <<memory, stateFile, booted, faults>>
    BY <1>0, <1>1 DEF PublishFile, PublishBytes, NoCall, Field
  <2>2. QED  BY <1>b, <2>1, SerialBegin
<1>2. ASSUME NEW t \in Thread, NEW k \in Key, Republish(t, k)
      PROVE  SerialInv'
  <2>1. PICK c : /\ Begin(t, c) /\ DOMAIN c = Field /\ c.pc = "read"
                 /\ UNCHANGED <<memory, stateFile, booted, faults>>
    BY <1>0, <1>2 DEF Republish, Reload, NoCall, Field
  <2>2. QED  BY <1>b, <2>1, SerialBegin
<1>3. ASSUME NEW t \in Thread, NEW k \in Key, SetDefault(t, k) \/ Remove(t, k)
      PROVE  SerialInv'
  <2>1. PICK c : /\ Begin(t, c) /\ DOMAIN c = Field /\ c.pc = "snapshot"
                 /\ UNCHANGED <<stateFile, booted, faults>>
    BY <1>0, <1>3 DEF SetDefault, Remove, NoCall, Field
  <2>2. QED  BY <1>b, <2>1, SerialBegin
<1>4. ASSUME NEW t \in Thread, ReadSource(t)  PROVE SerialInv'
  <2> DEFINE c == [call[t] EXCEPT !.pc = "set", !.hash = file[call[t].key]]
  <2>1. c.pc = "set" /\ call' = [call EXCEPT ![t] = c] /\ call[t].pc = "read"
    BY <1>4, <1>a DEF ReadSource, Field
  <2>2. UNCHANGED <<stateFile, booted, faults>> /\ Memory' = Memory
    BY <1>4 DEF ReadSource, memory, Memory, bounds
  <2>3. faults = 0 => stateFile = Memory \/ OnlyDefault
    BY <2>1, OneCallOnly
  <2> HIDE DEF c
  <2>4. QED  BY <2>1, <2>2, <2>3, SerialMove DEF OnlyDefault
<1>5. ASSUME NEW t \in Thread, setTarget(t)  PROVE SerialInv'
  <2> DEFINE c == [NoCall EXCEPT
                !.pc = "snapshot", !.alone = call[t].alone,
                !.changed = Changes(call[t].key, call[t].version, call[t].hash)]
  <2>1. c.pc = "snapshot"
    BY <1>0 DEF NoCall
  <2>2. call' = [call EXCEPT ![t] = c] /\ call[t].pc = "set"
    BY <1>5 DEF setTarget
  <2> HIDE DEF c
  <2>3. QED  BY <2>1, <2>2, SerialMove
<1>6. ASSUME NEW t \in Thread, persist(t)  PROVE SerialInv'
  <2> DEFINE c == [call[t] EXCEPT !.pc = "write", !.snap = Memory]
  <2>1. c.pc = "write" /\ c.snap = Memory
    BY <1>a DEF Field
  <2>2. call' = [call EXCEPT ![t] = c] /\ call[t].pc = "snapshot"
    BY <1>6 DEF persist, registryState
  <2>3. Memory' = Memory
    BY <1>6 DEF persist, memory, Memory
  <2> HIDE DEF c
  <2>4. QED  BY <2>1, <2>2, <2>3, SerialMove
<1>7. ASSUME NEW t \in Thread, WriteState(t)  PROVE SerialInv'
  <2> DEFINE c == IF call[t].changed THEN [NoCall EXCEPT !.pc = "notify"]
                  ELSE NoCall
  <2>1. call' = [call EXCEPT ![t] = c] /\ call[t].pc = "write"
    BY <1>7 DEF WriteState
  <2>2. c.pc \in {"notify", "idle"}
    BY <1>0 DEF NoCall
  <2>3. Memory' = Memory
    BY <1>7 DEF WriteState, memory, Memory
  <2>4. faults' = 0 => faults = 0 /\ stateFile' = call[t].snap
    BY <1>7, <1>a DEF WriteState, Saved
  <2>5. faults' = 0 => stateFile' = Memory'
    BY <2>1, <2>3, <2>4 DEF SerialInv, FileFollows
  <2> HIDE DEF c
  <2>6. QED  BY <2>1, <2>2, <2>5, SerialMove
<1>8. ASSUME NEW t \in Thread, OnChange(t)  PROVE SerialInv'
  <2>1. call' = [call EXCEPT ![t] = NoCall] /\ call[t].pc = "notify"
    BY <1>8 DEF OnChange
  <2>2. UNCHANGED <<stateFile, booted, faults>> /\ Memory' = Memory
    BY <1>8 DEF OnChange, memory, Memory, bounds
  <2>3. faults = 0 => stateFile = Memory \/ OnlyDefault
    BY <2>1, OneCallOnly
  <2>4. QED  BY <1>0, <2>1, <2>2, <2>3, SerialMove DEF OnlyDefault
<1>9. ASSUME ReconcileConfig  PROVE SerialInv'
  <2>1. Quiet /\ UNCHANGED call
    BY <1>9 DEF ReconcileConfig, AloneInv
  <2>2. faults' = 0 => stateFile' = Memory'
    BY <1>9, <1>a DEF ReconcileConfig, Saved
  <2>3. QED  BY <2>1, <2>2 DEF SerialInv, FileFollows, Quiet
<1>10. CASE (\E k \in Key, h \in Hash : EditSource(k, h)) \/ UNCHANGED regVars
  BY <1>10 DEF EditSource, regVars, bounds, memory, Memory, SerialInv,
              FileFollows, OnlyDefault
<1>11. ASSUME Restart  PROVE SerialInv'
  BY <1>0, <1>11, <1>a DEF Restart, Loaded, SerialInv
<1>12. QED
  BY <1>1, <1>2, <1>3, <1>4, <1>5, <1>6, <1>7, <1>8, <1>9, <1>10, <1>11
     DEF RegNext, RegStep

\* It takes calls that overlap to lose a publication: as long as each begins
\* after the one before it returned, the state file is up to date whenever
\* nothing is under way (Registry.persist).  A configuration that names a default
\* and declares no artifact has nothing published to save.
THEOREM SerialSurvives ==
    ASSUME ConfigDefault = None \/ Declared # << >>
    PROVE  Serial => []PublishedSurvives
<1>1. RegInit => AloneInv /\ SerialInv
  BY AloneInit, SerialInit
<1>2. (AloneInv /\ SerialInv) /\ [RegNext]_regVars /\ [OneAtATime]_regVars
      => (AloneInv /\ SerialInv)'
  BY AloneStep, SerialStep
<1>3. SerialInv => PublishedSurvives
  BY ConstantsAssumption
     DEF SerialInv, FileFollows, OnlyDefault, PublishedSurvives, Quiet, Ready
<1>4. QED  BY <1>1, <1>2, <1>3, PTL DEF Serial, RegSpec

-----------------------------------------------------------------------------
(* Histories.                                                              *)

Hashes(past) == {past[i] : i \in DOMAIN past}

\* The place the property looks a hash up at.
IsFirst(past, h, i) ==
    i \in DOMAIN past /\ past[i] = h /\ \A j \in 1..(i - 1) : past[j] # h

Newer(past, h) ==
    {g \in Hashes(past) : LastSuperseded(past, g) < LastSuperseded(past, h)}

Age(past, h) == Cardinality(Newer(past, h))

\* What is known of a list of superseded hashes.
PastOK(past) ==
    /\ past \in Seq(Hash)
    /\ IsFiniteSet(Hashes(past))
    /\ \A h \in Hashes(past) : \E i \in Nat : IsFirst(past, h, i)

\* The history h of an artifact with that past.
Recent(history, past) ==
    /\ history \in Seq(Hash)
    /\ Hashes(history) = {h \in Hashes(past) : Age(past, h) < HistoryDepth}
    /\ \A i \in DOMAIN history : Age(past, history[i]) = i - 1

LEMMA FirstIsLast ==
    ASSUME NEW past \in Seq(Hash), NEW h, NEW i \in Nat, IsFirst(past, h, i)
    PROVE  LastSuperseded(past, h) = i
<1>1. \A j \in DOMAIN past : IsFirst(past, h, j) => j = i
  BY DEF IsFirst
<1>2. LastSuperseded(past, h) = CHOOSE j \in DOMAIN past : IsFirst(past, h, j)
  BY DEF LastSuperseded, IsFirst
<1>3. i \in DOMAIN past
  BY DEF IsFirst
<1> QED
  BY <1>1, <1>2, <1>3

LEMMA LastIsNat ==
    ASSUME NEW past, PastOK(past), NEW h \in Hashes(past)
    PROVE  /\ LastSuperseded(past, h) \in Nat \ {0}
           /\ IsFirst(past, h, LastSuperseded(past, h))
<1>1. PICK i \in Nat : IsFirst(past, h, i)
  BY DEF PastOK
<1>2. i # 0
  BY <1>1 DEF IsFirst, PastOK
<1> QED
  BY <1>1, <1>2, FirstIsLast DEF PastOK

\* Different hashes have different places.
LEMMA LastIsInjective ==
    ASSUME NEW past, PastOK(past), NEW g \in Hashes(past), NEW h \in Hashes(past),
           LastSuperseded(past, g) = LastSuperseded(past, h)
    PROVE  g = h
BY LastIsNat DEF IsFirst

LEMMA AgeIsNat ==
    ASSUME NEW past, PastOK(past), NEW h
    PROVE  IsFiniteSet(Newer(past, h)) /\ Age(past, h) \in Nat
<1>1. Newer(past, h) \in SUBSET Hashes(past)
  BY DEF Newer
<1>2. IsFiniteSet(Newer(past, h))
  BY <1>1, FS_Subset DEF PastOK
<1> QED
  BY <1>2, FS_CardinalityType DEF Age

\* A hash is newer than another if and only if fewer are newer than it.
LEMMA AgeOrders ==
    ASSUME NEW past, PastOK(past), NEW g \in Hashes(past), NEW h \in Hashes(past)
    PROVE  g \in Newer(past, h) <=> Age(past, g) < Age(past, h)
<1> DEFINE LS(x) == LastSuperseded(past, x)
<1>0. \A x \in Hashes(past) : LS(x) \in Nat
  BY LastIsNat
<1>a. Age(past, g) \in Nat /\ Age(past, h) \in Nat
  BY AgeIsNat
<1>1. ASSUME g \in Newer(past, h)
      PROVE  Age(past, g) < Age(past, h)
  <2>1. Newer(past, g) \in SUBSET Newer(past, h)
    BY <1>0, <1>1 DEF Newer
  <2>2. Newer(past, g) # Newer(past, h)
    BY <1>0, <1>1 DEF Newer
  <2>3. /\ Cardinality(Newer(past, g)) <= Cardinality(Newer(past, h))
        /\ Cardinality(Newer(past, h)) # Cardinality(Newer(past, g))
    BY <2>1, <2>2, AgeIsNat, FS_Subset
  <2> QED
    BY <2>3, <1>a DEF Age
<1>2. ASSUME g \notin Newer(past, h)
      PROVE  Age(past, h) <= Age(past, g)
  <2>1. Newer(past, h) \in SUBSET Newer(past, g)
    BY <1>0, <1>2 DEF Newer
  <2> QED
    BY <2>1, AgeIsNat, FS_Subset DEF Age
<1> QED
  BY <1>1, <1>2, <1>a

-----------------------------------------------------------------------------
\* One more superseded hash, and what it does to the places of the others.
LEMMA PushedPlaces ==
    ASSUME NEW past, PastOK(past), NEW a \in Hash
    PROVE  LET new == <<a>> \o past IN
           /\ new \in Seq(Hash)
           /\ Hashes(new) = Hashes(past) \cup {a}
           /\ IsFirst(new, a, 1)
           /\ \A h \in Hashes(past) \ {a} :
                 IsFirst(new, h, LastSuperseded(past, h) + 1)
<1> DEFINE new == <<a>> \o past
<1>1. /\ new \in Seq(Hash) /\ Len(new) = Len(past) + 1
      /\ DOMAIN new = 1..(Len(past) + 1)
      /\ \A i \in 1..(Len(past) + 1) : new[i] = IF i = 1 THEN a ELSE past[i - 1]
  BY DEF PastOK
<1>2. DOMAIN past = 1..Len(past) /\ Len(past) \in Nat
  BY DEF PastOK
<1> HIDE DEF new
<1>3. Hashes(new) = Hashes(past) \cup {a}
  <2>1. ASSUME NEW i \in DOMAIN new PROVE new[i] \in Hashes(past) \cup {a}
    <3>1. CASE i = 1
      BY <1>1, <3>1
    <3>2. CASE i # 1
      <4>1. i - 1 \in DOMAIN past /\ new[i] = past[i - 1]
        BY <1>1, <1>2, <2>1, <3>2
      <4> QED
        BY <4>1 DEF Hashes
    <3> QED
      BY <3>1, <3>2
  <2>2. ASSUME NEW i \in DOMAIN past PROVE past[i] \in Hashes(new)
    <3>1. i + 1 \in DOMAIN new /\ new[i + 1] = past[i]
      BY <1>1, <1>2, <2>2
    <3> QED
      BY <3>1 DEF Hashes
  <2>3. a \in Hashes(new)
    <3>1. 1 \in DOMAIN new /\ new[1] = a
      BY <1>1, <1>2
    <3> QED
      BY <3>1 DEF Hashes
  <2> QED
    BY <2>1, <2>2, <2>3 DEF Hashes
<1>4. IsFirst(new, a, 1)
  BY <1>1, <1>2 DEF IsFirst
<1>5. ASSUME NEW h \in Hashes(past) \ {a}
      PROVE  IsFirst(new, h, LastSuperseded(past, h) + 1)
  <2>1. PICK i \in Nat \ {0} : i = LastSuperseded(past, h) /\ IsFirst(past, h, i)
    BY LastIsNat
  <2>2. i + 1 \in DOMAIN new /\ new[i + 1] = h
    BY <1>1, <1>2, <2>1 DEF IsFirst
  <2>3. ASSUME NEW j \in 1..(i + 1 - 1) PROVE new[j] # h
    <3>1. CASE j = 1
      BY <1>1, <1>2, <1>5, <3>1
    <3>2. CASE j # 1
      <4>1. j - 1 \in 1..(i - 1) /\ j \in 1..(Len(past) + 1)
        BY <1>2, <2>1, <2>3, <3>2 DEF IsFirst
      <4> QED
        BY <1>1, <2>1, <3>2, <4>1 DEF IsFirst
    <3> QED
      BY <3>1, <3>2
  <2> QED
    BY <2>1, <2>2, <2>3 DEF IsFirst
<1> QED
  BY <1>1, <1>3, <1>4, <1>5 DEF new

LEMMA PushedPastOK ==
    ASSUME NEW past, PastOK(past), NEW a \in Hash
    PROVE  PastOK(<<a>> \o past)
<1> DEFINE new == <<a>> \o past
<1>1. /\ new \in Seq(Hash) /\ Hashes(new) = Hashes(past) \cup {a}
      /\ IsFirst(new, a, 1)
      /\ \A h \in Hashes(past) \ {a} : IsFirst(new, h, LastSuperseded(past, h) + 1)
  BY PushedPlaces
<1> HIDE DEF new
<1>2. IsFiniteSet(Hashes(new))
  BY <1>1, FS_AddElement DEF PastOK
<1>3. ASSUME NEW h \in Hashes(new) PROVE \E i \in Nat : IsFirst(new, h, i)
  BY <1>1, <1>3, LastIsNat
<1> QED
  BY <1>1, <1>2, <1>3 DEF PastOK, new

\* The pushed hash is the newest; it is newer than all others, and the order
\* among these stays.
LEMMA PushedAges ==
    ASSUME NEW past, PastOK(past), NEW a \in Hash
    PROVE  LET new == <<a>> \o past IN
           /\ Age(new, a) = 0
           /\ \A h \in Hashes(past) \ {a} :
                 Age(new, h) = IF a \in Newer(past, h) THEN Age(past, h)
                               ELSE Age(past, h) + 1
<1> DEFINE new == <<a>> \o past
<1>1. /\ Hashes(new) = Hashes(past) \cup {a}
      /\ LastSuperseded(new, a) = 1
      /\ \A h \in Hashes(past) \ {a} :
            LastSuperseded(new, h) = LastSuperseded(past, h) + 1
  <2>1. /\ new \in Seq(Hash)
        /\ Hashes(new) = Hashes(past) \cup {a}
        /\ IsFirst(new, a, 1)
        /\ \A h \in Hashes(past) \ {a} :
              IsFirst(new, h, LastSuperseded(past, h) + 1)
    BY PushedPlaces
  <2> HIDE DEF new
  <2>2. \A h \in Hashes(past) : LastSuperseded(past, h) + 1 \in Nat
    <3>1. ASSUME NEW h \in Hashes(past)
          PROVE  LastSuperseded(past, h) \in Nat \ {0}
      BY LastIsNat
    <3> QED  BY <3>1
  <2>3. LastSuperseded(new, a) = 1
    BY <2>1, FirstIsLast
  <2>4. ASSUME NEW h \in Hashes(past) \ {a}
        PROVE  LastSuperseded(new, h) = LastSuperseded(past, h) + 1
    BY <2>1, <2>2, FirstIsLast
  <2> QED  BY <2>1, <2>3, <2>4
<1>2. \A h \in Hashes(past) : LastSuperseded(past, h) \in Nat \ {0}
  BY LastIsNat
<1> HIDE DEF new
<1>3. Newer(new, a) = {}
  BY <1>1, <1>2 DEF Newer
<1>4. ASSUME NEW h \in Hashes(past) \ {a}
      PROVE  Newer(new, h) = Newer(past, h) \cup {a}
  <2>1. ASSUME NEW g \in Newer(new, h) PROVE g \in Newer(past, h) \cup {a}
    BY <1>1, <1>2, <2>1 DEF Newer
  <2>2. ASSUME NEW g \in Newer(past, h) PROVE g \in Newer(new, h)
    BY <1>1, <1>2, <2>2 DEF Newer
  <2>3. a \in Newer(new, h)
    BY <1>1, <1>2 DEF Newer
  <2> QED
    BY <2>1, <2>2, <2>3
<1>5. Age(new, a) = 0
  BY <1>3, FS_EmptySet DEF Age
<1>6. ASSUME NEW h \in Hashes(past) \ {a}
      PROVE  Age(new, h) = IF a \in Newer(past, h) THEN Age(past, h)
                           ELSE Age(past, h) + 1
  BY <1>4, AgeIsNat, FS_AddElement DEF Age
<1> QED
  BY <1>5, <1>6 DEF new

\* How a list is shown to be the history of a past.
LEMMA PlacesMakeRecent ==
    ASSUME NEW past, PastOK(past), NEW list \in Seq(Hash),
           \A i \in DOMAIN list : /\ list[i] \in Hashes(past)
                                  /\ Age(past, list[i]) = i - 1
                                  /\ i <= HistoryDepth,
           \A h \in Hashes(past) : Age(past, h) < HistoryDepth => h \in Hashes(list)
    PROVE  Recent(list, past)
<1>1. DOMAIN list = 1..Len(list) /\ Len(list) \in Nat
  OBVIOUS
<1>2. ASSUME NEW i \in DOMAIN list
      PROVE  list[i] \in Hashes(past) /\ Age(past, list[i]) < HistoryDepth
  BY <1>1, <1>2, HistoryAssumption
<1>3. Hashes(list) \subseteq {h \in Hashes(past) : Age(past, h) < HistoryDepth}
  BY <1>2 DEF Hashes
<1>4. QED  BY <1>3 DEF Recent

LEMMA RecentPlaces ==
    ASSUME NEW past, PastOK(past), NEW history, Recent(history, past)
    PROVE  /\ history \in Seq(Hash) /\ Len(history) <= HistoryDepth
           /\ \A i \in 1..Len(history) : /\ history[i] \in Hashes(past)
                                         /\ Age(past, history[i]) = i - 1
           /\ \A i, j \in 1..Len(history) : history[i] = history[j] => i = j
           /\ \A h \in Hashes(past) :
                 Age(past, h) < HistoryDepth <=> h \in Hashes(history)
<1>1. history \in Seq(Hash) /\ DOMAIN history = 1..Len(history) /\ Len(history) \in Nat
  BY DEF Recent
<1>2. \A i \in 1..Len(history) : history[i] \in Hashes(history)
  BY <1>1 DEF Hashes
<1>3. \A i \in 1..Len(history) : /\ history[i] \in Hashes(past)
                                 /\ Age(past, history[i]) < HistoryDepth
                                 /\ Age(past, history[i]) = i - 1
  BY <1>1, <1>2 DEF Recent
<1>4. Len(history) <= HistoryDepth
  <2>1. CASE Len(history) = 0
    BY <2>1, HistoryAssumption
  <2>2. CASE Len(history) # 0
    <3>1. Len(history) \in 1..Len(history)
      BY <1>1, <2>2
    <3> QED  BY <1>1, <1>3, <3>1, HistoryAssumption
  <2> QED  BY <2>1, <2>2
<1>5. \A h \in Hashes(past) : Age(past, h) < HistoryDepth <=> h \in Hashes(history)
  BY DEF Recent
<1>6. \A i, j \in 1..Len(history) : history[i] = history[j] => i = j
  BY <1>1, <1>3
<1> QED  BY <1>1, <1>3, <1>4, <1>5, <1>6

LEMMA LengthBehind ==
    ASSUME NEW l \in Nat, NEW p \in 1..l
    PROVE  (IF p + 1 <= l THEN l - (p + 1) + 1 ELSE 0) = l - p
OBVIOUS

LEMMA CutNothing ==
    ASSUME NEW n \in Nat, NEW d \in Nat, n <= d
    PROVE  n = IF n < d THEN n ELSE d
OBVIOUS

\* Leaving a hash out of a list that has it once.
LEMMA WithoutPlaces ==
    ASSUME NEW list \in Seq(Hash), NEW p \in 1..Len(list),
           \A i, j \in 1..Len(list) : list[i] = list[j] => i = j
    PROVE  LET rest == Without(list, list[p]) IN
           /\ rest \in Seq(Hash) /\ Len(rest) = Len(list) - 1
           /\ \A i \in 1..(Len(list) - 1) :
                 rest[i] = IF i < p THEN list[i] ELSE list[i + 1]
<1> DEFINE a == SubSeq(list, 1, p - 1)
           b == SubSeq(list, p + 1, Len(list))
<1>0. Len(list) \in Nat /\ DOMAIN list = 1..Len(list)
  OBVIOUS
<1>1. Without(list, list[p]) = a \o b
  <2>1. (CHOOSE i \in DOMAIN list : list[i] = list[p]) = p
    BY <1>0
  <2> QED  BY <1>0, <2>1 DEF Without
<1>2. a \in Seq(Hash) /\ Len(a) = p - 1 /\ \A i \in 1..(p - 1) : a[i] = list[i]
  BY <1>0
<1>3. /\ b \in Seq(Hash) /\ Len(b) = Len(list) - p
      /\ \A i \in 1..(Len(list) - p) : b[i] = list[p + i]
  <2>1. \A i \in (p + 1)..Len(list) : list[i] \in Hash
    BY <1>0
  <2>2. /\ b \in Seq(Hash)
        /\ Len(b) = IF p + 1 <= Len(list) THEN Len(list) - (p + 1) + 1 ELSE 0
        /\ \A i \in 1..(Len(list) - (p + 1) + 1) : b[i] = list[(p + 1) + i - 1]
    BY <1>0, <2>1, SubSeqProperties
  <2> HIDE DEF b
  <2>3. Len(b) = Len(list) - p
    BY <1>0, <2>2, LengthBehind, Zenon
  <2>4. ASSUME NEW i \in 1..(Len(list) - p)
        PROVE  b[i] = list[p + i]
    <3>1. i \in 1..(Len(list) - (p + 1) + 1)
      BY <1>0
    <3>2. (p + 1) + i - 1 = p + i
      BY <1>0
    <3>3. b[i] = list[(p + 1) + i - 1]
      BY <2>2, <3>1
    <3> QED  BY <3>2, <3>3
  <2> QED  BY <2>2, <2>3, <2>4
<1> HIDE DEF a, b
<1>4. /\ a \o b \in Seq(Hash) /\ Len(a \o b) = Len(list) - 1
      /\ \A i \in 1..(Len(list) - 1) :
            (a \o b)[i] = IF i <= Len(a) THEN a[i] ELSE b[i - Len(a)]
  <2>1. Len(a) + Len(b) = Len(list) - 1
    BY <1>0, <1>2, <1>3
  <2>2. /\ a \o b \in Seq(Hash) /\ Len(a \o b) = Len(a) + Len(b)
        /\ \A i \in 1..(Len(a) + Len(b)) :
              (a \o b)[i] = IF i <= Len(a) THEN a[i] ELSE b[i - Len(a)]
    <3>1. a \in Seq(Hash) /\ b \in Seq(Hash)
      BY <1>2, <1>3
    <3> QED  BY <3>1, ConcatProperties
  <2> QED  BY <2>1, <2>2
<1>5. ASSUME NEW i \in 1..(Len(list) - 1)
      PROVE  (a \o b)[i] = IF i < p THEN list[i] ELSE list[i + 1]
  <2>1. CASE i < p
    <3>1. i \in 1..(p - 1)
      BY <1>0, <2>1
    <3>2. (a \o b)[i] = a[i]
      BY <1>2, <1>4, <2>1, <3>1
    <3> QED  BY <1>2, <2>1, <3>1, <3>2
  <2>2. CASE ~(i < p)
    <3>1. i - (p - 1) \in 1..(Len(list) - p) /\ p + (i - (p - 1)) = i + 1
      BY <1>0, <2>2
    <3>2. (a \o b)[i] = b[i - (p - 1)]
      BY <1>0, <1>2, <1>4, <2>2
    <3> QED  BY <1>3, <2>2, <3>1, <3>2
  <2> QED  BY <2>1, <2>2
<1> QED  BY <1>1, <1>4, <1>5

\* Pushing in front of a list, and cutting it.
LEMMA CappedPlaces ==
    ASSUME NEW list \in Seq(Hash), NEW a \in Hash
    PROVE  LET n == IF Len(list) + 1 < HistoryDepth THEN Len(list) + 1
                    ELSE HistoryDepth
               new == Cap(<<a>> \o list)
           IN  /\ new \in Seq(Hash) /\ Len(new) = n /\ DOMAIN new = 1..n
               /\ \A i \in 1..n : new[i] = IF i = 1 THEN a ELSE list[i - 1]
<1> DEFINE s == <<a>> \o list
           n == IF Len(list) + 1 < HistoryDepth THEN Len(list) + 1
                ELSE HistoryDepth
<1>1. /\ s \in Seq(Hash) /\ Len(s) = Len(list) + 1
      /\ \A i \in 1..(Len(list) + 1) : s[i] = IF i = 1 THEN a ELSE list[i - 1]
  OBVIOUS
<1>2. n \in 1..Len(s) /\ HistoryDepth \in Nat
  BY <1>1, HistoryAssumption
<1>3. Cap(s) = SubSeq(s, 1, n)
  BY <1>1 DEF Cap
<1> HIDE DEF s, n
<1>4. /\ SubSeq(s, 1, n) \in Seq(Hash) /\ Len(SubSeq(s, 1, n)) = n
      /\ DOMAIN SubSeq(s, 1, n) = 1..n
      /\ \A i \in 1..n : SubSeq(s, 1, n)[i] = s[i]
  BY <1>1, <1>2
<1>5. \A i \in 1..n : i \in 1..(Len(list) + 1)
  BY <1>1, <1>2
<1>6. /\ Cap(s) \in Seq(Hash) /\ Len(Cap(s)) = n /\ DOMAIN Cap(s) = 1..n
      /\ \A i \in 1..n : Cap(s)[i] = IF i = 1 THEN a ELSE list[i - 1]
  BY <1>1, <1>3, <1>4, <1>5
<1> QED  BY <1>6 DEF s, n

-----------------------------------------------------------------------------
\* The pushed hash was listed: it moves to the front, and nothing is cut.
LEMMA PushedAgain ==
    ASSUME NEW past, PastOK(past), NEW history, Recent(history, past),
           NEW a \in Hash, a \in Hashes(history)
    PROVE  Recent(Pushed(history, a), <<a>> \o past)
<1> DEFINE new == <<a>> \o past
           n == Len(history)
           list == Pushed(history, a)
<1>0. /\ history \in Seq(Hash) /\ n \in Nat /\ n <= HistoryDepth
      /\ DOMAIN history = 1..n /\ HistoryDepth \in Nat
  BY RecentPlaces, HistoryAssumption
<1>1. /\ \A i \in 1..n : history[i] \in Hashes(past) /\ Age(past, history[i]) = i - 1
      /\ \A i, j \in 1..n : history[i] = history[j] => i = j
      /\ \A h \in Hashes(past) : Age(past, h) < HistoryDepth <=> h \in Hashes(history)
  BY RecentPlaces
<1>2. PICK p \in 1..n : history[p] = a
  BY <1>0 DEF Hashes
<1>3. /\ PastOK(new) /\ Hashes(new) = Hashes(past) \cup {a}
      /\ Age(new, a) = 0
      /\ \A h \in Hashes(past) \ {a} :
            Age(new, h) = IF a \in Newer(past, h) THEN Age(past, h)
                          ELSE Age(past, h) + 1
  BY PushedPastOK, PushedPlaces, PushedAges
<1>4. a \in Hashes(past) /\ Age(past, a) = p - 1
  BY <1>1, <1>2
<1>5. /\ list \in Seq(Hash) /\ DOMAIN list = 1..n
      /\ \A i \in 1..n : list[i] = IF i = 1 THEN a
                                   ELSE IF i <= p THEN history[i - 1] ELSE history[i]
  <2> DEFINE rest == Without(history, a)
  <2>1. /\ rest \in Seq(Hash) /\ Len(rest) = n - 1
        /\ \A i \in 1..(n - 1) :
              rest[i] = IF i < p THEN history[i] ELSE history[i + 1]
    BY <1>0, <1>1, <1>2, WithoutPlaces
  <2> HIDE DEF rest
  <2>2. Len(rest) + 1 = n
    <3>1. Len(rest) = n - 1 /\ (n - 1) + 1 = n
      BY <1>0, <2>1
    <3> QED  BY <3>1, Zenon
  <2>3. /\ Cap(<<a>> \o rest) \in Seq(Hash) /\ DOMAIN Cap(<<a>> \o rest) = 1..n
        /\ \A i \in 1..n : Cap(<<a>> \o rest)[i] = IF i = 1 THEN a ELSE rest[i - 1]
    <3>1. n = IF n < HistoryDepth THEN n ELSE HistoryDepth
      BY <1>0, CutNothing, Zenon
    <3>2. LET m == IF Len(rest) + 1 < HistoryDepth THEN Len(rest) + 1
                   ELSE HistoryDepth
          IN  /\ Cap(<<a>> \o rest) \in Seq(Hash)
              /\ DOMAIN Cap(<<a>> \o rest) = 1..m
              /\ \A i \in 1..m :
                    Cap(<<a>> \o rest)[i] = IF i = 1 THEN a ELSE rest[i - 1]
      BY <2>1, CappedPlaces
    <3> QED  BY <2>2, <3>1, <3>2, Zenon
  <2>4. ASSUME NEW i \in 1..n, i # 1
        PROVE  rest[i - 1] = IF i <= p THEN history[i - 1] ELSE history[i]
    <3>1. i - 1 \in 1..(n - 1) /\ (i - 1) + 1 = i /\ (i - 1 < p <=> i <= p)
      BY <1>0, <2>4
    <3> QED  BY <2>1, <3>1
  <2> QED  BY <2>3, <2>4 DEF Pushed, rest
<1> HIDE DEF new, list
\* What is older than a grows older, what is newer was there already.
<1>6. ASSUME NEW i \in 1..n, i # p
      PROVE  /\ history[i] \in Hashes(past) \ {a}
             /\ Age(new, history[i]) = IF p < i THEN i - 1 ELSE i
  <2>1. history[i] \in Hashes(past) \ {a} /\ Age(past, history[i]) = i - 1
    BY <1>1, <1>2, <1>6
  <2>2. a \in Newer(past, history[i]) <=> p - 1 < i - 1
    BY <1>4, <2>1, AgeOrders
  <2>3. p - 1 < i - 1 <=> p < i
    BY <1>0
  <2>4. (i - 1) + 1 = i
    BY <1>0
  <2>5. Age(new, history[i]) = IF p < i THEN i - 1 ELSE (i - 1) + 1
    BY <1>3, <2>1, <2>2, <2>3
  <2> QED  BY <2>1, <2>4, <2>5
<1>7. ASSUME NEW i \in DOMAIN list
      PROVE  /\ list[i] \in Hashes(new) /\ Age(new, list[i]) = i - 1
             /\ i <= HistoryDepth
  <2>0. i \in 1..n /\ i <= HistoryDepth
    BY <1>0, <1>5, <1>7
  <2>1. CASE i = 1
    BY <1>3, <1>5, <2>0, <2>1
  <2>2. CASE i # 1 /\ i <= p
    <3>1. i - 1 \in 1..n /\ i - 1 # p /\ ~(p < i - 1)
      BY <1>0, <2>0, <2>2
    <3>2. list[i] = history[i - 1]
      BY <1>5, <2>0, <2>2
    <3> QED  BY <1>3, <1>6, <2>0, <3>1, <3>2
  <2>3. CASE i # 1 /\ ~(i <= p)
    <3>1. i # p /\ p < i
      BY <1>0, <2>0, <2>3
    <3>2. list[i] = history[i]
      BY <1>5, <2>0, <2>3
    <3> QED  BY <1>3, <1>6, <2>0, <3>1, <3>2
  <2> QED  BY <2>1, <2>2, <2>3
<1>8. ASSUME NEW h \in Hashes(new), Age(new, h) < HistoryDepth
      PROVE  h \in Hashes(list)
  <2>1. CASE h = a
    <3>1. 1 \in DOMAIN list /\ list[1] = a
      BY <1>0, <1>2, <1>5
    <3> QED  BY <2>1, <3>1 DEF Hashes
  <2>2. CASE h # a
    <3>1. h \in Hashes(past) /\ Age(past, h) \in Nat
      BY <1>3, <1>8, <2>2, AgeIsNat
    <3>2. Age(past, h) < HistoryDepth
      BY <1>0, <1>3, <1>8, <2>2, <3>1
    <3>3. PICK j \in 1..n : history[j] = h
      BY <1>0, <1>1, <3>1, <3>2 DEF Hashes
    <3>4. CASE j < p
      <4>1. j + 1 \in 1..n /\ j + 1 # 1 /\ j + 1 <= p /\ (j + 1) - 1 = j
        BY <1>0, <3>4
      <4>2. j + 1 \in DOMAIN list /\ list[j + 1] = history[j]
        BY <1>5, <4>1
      <4> QED  BY <3>3, <4>2 DEF Hashes
    <3>5. CASE ~(j < p)
      <4>1. j # p
        BY <1>2, <2>2, <3>3
      <4>2. j # 1 /\ ~(j <= p)
        BY <1>0, <3>5, <4>1
      <4>3. j \in DOMAIN list /\ list[j] = history[j]
        BY <1>5, <4>2
      <4> QED  BY <3>3, <4>3 DEF Hashes
    <3> QED  BY <3>4, <3>5
  <2> QED  BY <2>1, <2>2
<1>9. Recent(list, new)
  BY <1>3, <1>5, <1>7, <1>8, PlacesMakeRecent
<1> QED  BY <1>9 DEF new, list

\* The pushed hash was not listed: it comes in front of the others, the last of
\* which is cut if there are too many.
LEMMA PushedAnew ==
    ASSUME NEW past, PastOK(past), NEW history, Recent(history, past),
           NEW a \in Hash, a \notin Hashes(history)
    PROVE  Recent(Pushed(history, a), <<a>> \o past)
<1> DEFINE new == <<a>> \o past
           n == Len(history)
           list == Pushed(history, a)
<1>0. /\ history \in Seq(Hash) /\ n \in Nat /\ n <= HistoryDepth
      /\ DOMAIN history = 1..n /\ HistoryDepth \in Nat \ {0}
  BY RecentPlaces, HistoryAssumption
<1>1. /\ \A i \in 1..n : history[i] \in Hashes(past) /\ Age(past, history[i]) = i - 1
      /\ \A h \in Hashes(past) : Age(past, h) < HistoryDepth <=> h \in Hashes(history)
  BY RecentPlaces
<1>2. \A i \in 1..n : history[i] \in Hashes(history)
  BY <1>0 DEF Hashes
<1>3. /\ PastOK(new) /\ Hashes(new) = Hashes(past) \cup {a}
      /\ Age(new, a) = 0
      /\ \A h \in Hashes(past) \ {a} :
            Age(new, h) = IF a \in Newer(past, h) THEN Age(past, h)
                          ELSE Age(past, h) + 1
  BY PushedPastOK, PushedPlaces, PushedAges
<1>4. PICK m \in 1..HistoryDepth :
          /\ m = IF n + 1 < HistoryDepth THEN n + 1 ELSE HistoryDepth
          /\ m <= n + 1 /\ (n + 1 <= HistoryDepth => m = n + 1)
          /\ (~(n + 1 <= HistoryDepth) => m = HistoryDepth)
  BY <1>0
<1>5. /\ list \in Seq(Hash) /\ DOMAIN list = 1..m
      /\ \A i \in 1..m : list[i] = IF i = 1 THEN a ELSE history[i - 1]
  <2>1. Without(history, a) = history
    BY <1>0, <1>2 DEF Without
  <2>2. LET k == IF n + 1 < HistoryDepth THEN n + 1 ELSE HistoryDepth
        IN  /\ Cap(<<a>> \o history) \in Seq(Hash)
            /\ DOMAIN Cap(<<a>> \o history) = 1..k
            /\ \A i \in 1..k :
                  Cap(<<a>> \o history)[i] = IF i = 1 THEN a ELSE history[i - 1]
    BY <1>0, CappedPlaces
  <2>3. m = IF n + 1 < HistoryDepth THEN n + 1 ELSE HistoryDepth
    BY <1>4
  <2> QED  BY <2>1, <2>2, <2>3, Zenon DEF Pushed
<1> HIDE DEF new, list
\* What is listed is newer than a, which is not.
<1>6. ASSUME NEW i \in 1..n
      PROVE  history[i] \in Hashes(past) \ {a} /\ Age(new, history[i]) = i
  <2>1. history[i] \in Hashes(past) \ {a} /\ Age(past, history[i]) = i - 1
    BY <1>1, <1>2
  <2>2. a \notin Newer(past, history[i])
    <3>1. SUFFICES ASSUME a \in Newer(past, history[i])  PROVE FALSE
      OBVIOUS
    <3>2. a \in Hashes(past)
      BY <3>1 DEF Newer
    <3>3. Age(past, a) < i - 1
      BY <2>1, <3>1, <3>2, AgeOrders
    <3>4. Age(past, a) < HistoryDepth
      BY <1>0, <3>3, AgeIsNat
    <3> QED  BY <1>1, <3>2, <3>4
  <2>3. Age(new, history[i]) = (i - 1) + 1
    BY <1>3, <2>1, <2>2
  <2>4. (i - 1) + 1 = i
    BY <1>0
  <2> QED  BY <2>1, <2>3, <2>4
<1>7. ASSUME NEW i \in DOMAIN list
      PROVE  /\ list[i] \in Hashes(new) /\ Age(new, list[i]) = i - 1
             /\ i <= HistoryDepth
  <2>0. i \in 1..m /\ i <= HistoryDepth
    BY <1>0, <1>5, <1>7
  <2>1. CASE i = 1
    BY <1>3, <1>5, <2>0, <2>1
  <2>2. CASE i # 1
    <3>1. i - 1 \in 1..n
      BY <1>0, <1>4, <2>0, <2>2
    <3>2. list[i] = history[i - 1]
      BY <1>5, <2>0, <2>2
    <3> QED  BY <1>3, <1>6, <2>0, <3>1, <3>2
  <2> QED  BY <2>1, <2>2
<1>8. ASSUME NEW h \in Hashes(new), Age(new, h) < HistoryDepth
      PROVE  h \in Hashes(list)
  <2>1. CASE h = a
    <3>1. 1 \in DOMAIN list /\ list[1] = a
      BY <1>0, <1>4, <1>5
    <3> QED  BY <2>1, <3>1 DEF Hashes
  <2>2. CASE h # a
    <3>1. h \in Hashes(past) /\ Age(past, h) \in Nat
      BY <1>3, <1>8, <2>2, AgeIsNat
    <3>2. Age(past, h) < HistoryDepth
      BY <1>0, <1>3, <1>8, <2>2, <3>1
    <3>3. PICK j \in 1..n : history[j] = h
      BY <1>0, <1>1, <3>1, <3>2 DEF Hashes
    <3>4. j < HistoryDepth
      BY <1>6, <1>8, <3>3
    <3>5. j + 1 \in 1..m /\ j + 1 # 1 /\ (j + 1) - 1 = j
      BY <1>0, <1>4, <3>4
    <3>6. j + 1 \in DOMAIN list /\ list[j + 1] = history[j]
      BY <1>5, <3>5
    <3> QED  BY <3>3, <3>6 DEF Hashes
  <2> QED  BY <2>1, <2>2
<1>9. Recent(list, new)
  BY <1>3, <1>5, <1>7, <1>8, PlacesMakeRecent
<1> QED  BY <1>9 DEF new, list

-----------------------------------------------------------------------------
(* Every state of an artifact, in memory, in a snapshot or in the file.    *)

Dated(st) ==
    /\ State(st)
    /\ \A k \in DOMAIN st.artifacts :
          /\ PastOK(st.artifacts[k].past)
          /\ Recent(st.artifacts[k].history, st.artifacts[k].past)

WellFormed(c) ==
    /\ DOMAIN c = Field
    /\ c.pc \in CallPC
    /\ c.key \in Key \cup {None} /\ c.version \in Version \cup {None}
    /\ c.hash \in Hash \cup {None}
    /\ {c.source, c.changed, c.alone} \subseteq BOOLEAN
    /\ Dated(c.snap)
    /\ c.pc \in {"read", "set"} => c.key \in Key /\ c.version \in Version
    /\ c.pc = "set" => c.hash \in Hash

CallsWellFormed ==
    DOMAIN call = Thread /\ \A t \in Thread : WellFormed(call[t])

HistoryInv ==
    /\ Dated(Memory) /\ Dated(stateFile)
    /\ CallsWellFormed
    /\ file \in [Key -> Hash]
    /\ booted \in 0..Len(Declared)
    /\ calls \in Nat /\ faults \in Nat

LEMMA NothingIsRecent == PastOK(<< >>) /\ Recent(<< >>, << >>)
<1>1. Hashes(<< >>) = {}
  BY DEF Hashes
<1>2. PastOK(<< >>)
  BY <1>1, FS_EmptySet DEF PastOK
<1>3. QED  BY <1>1, <1>2 DEF Recent

LEMMA EmptyIsDated == Dated(EmptyState)
BY DEF Dated, State, EmptyState

LEMMA NoCallIsWellFormed == WellFormed(NoCall)
BY EmptyIsDated DEF WellFormed, NoCall, Field, CallPC

\* A publication pushes at most one hash.
LEMMA PublishedIsDated ==
    ASSUME Dated(Memory), NEW k \in Key, NEW v \in Version, NEW h \in Hash,
           NEW s \in BOOLEAN, Publish(k, v, h, s)
    PROVE  Dated(Memory')
<1> DEFINE a == artifacts[k]
           b == Updated(k, v, h, s)
<1>1. ASSUME k \in Registered
      PROVE  /\ a \in Artifact /\ PastOK(a.past) /\ Recent(a.history, a.past)
  BY <1>1 DEF Dated, State, Memory, Registered
<1>2. /\ b \in Artifact /\ PastOK(b.past) /\ Recent(b.history, b.past)
  <2>1. CASE k \notin Registered
    BY <2>1, NothingIsRecent DEF Updated, Artifact
  <2>2. CASE k \in Registered /\ a.hash = h
    BY <1>1, <2>2 DEF Updated, Artifact
  <2>3. CASE k \in Registered /\ a.hash # h
    <3>1. /\ a \in Artifact /\ a.hash \in Hash
          /\ PastOK(a.past) /\ Recent(a.history, a.past)
      BY <1>1, <2>3 DEF Artifact
    <3>2. Recent(Pushed(a.history, a.hash), <<a.hash>> \o a.past)
      <4> HIDE DEF a
      <4> QED  BY <3>1, PushedAgain, PushedAnew
    <3>3. PastOK(<<a.hash>> \o a.past)
      <4> HIDE DEF a
      <4> QED  BY <3>1, PushedPastOK
    <3>4. b = [version |-> v, hash |-> h, source |-> s \/ a.source,
               history |-> Pushed(a.history, a.hash),
               past |-> <<a.hash>> \o a.past]
      BY <2>3 DEF Updated
    <3>5. Pushed(a.history, a.hash) \in Seq(Hash) /\ <<a.hash>> \o a.past \in Seq(Hash)
      BY <3>2, <3>3 DEF Recent, PastOK
    <3> HIDE DEF a, b
    <3> QED  BY <3>1, <3>2, <3>3, <3>4, <3>5 DEF Artifact
  <2> QED  BY <2>1, <2>2, <2>3
<1> HIDE DEF b
<1>3. /\ DOMAIN artifacts' = Registered \cup {k}
      /\ \A j \in Registered \cup {k} :
            artifacts'[j] = IF j = k THEN b ELSE artifacts[j]
  BY DEF Publish, b
<1>4. defaultKey' \in Key \cup {None}
  BY DEF Publish, DefaultAfter, Dated, State, Memory
<1>5. \A j \in Registered : /\ j \in Key /\ artifacts[j] \in Artifact
                            /\ PastOK(artifacts[j].past)
                            /\ Recent(artifacts[j].history, artifacts[j].past)
  BY DEF Dated, State, Memory, Registered
<1>6. \A j \in DOMAIN artifacts' : /\ j \in Key /\ artifacts'[j] \in Artifact
                                   /\ PastOK(artifacts'[j].past)
                                   /\ Recent(artifacts'[j].history, artifacts'[j].past)
  BY <1>2, <1>3, <1>5
<1>7. QED  BY <1>4, <1>6 DEF Dated, State, Memory

LEMMA StartedIsWellFormed ==
    ASSUME CallsWellFormed, NEW t \in Thread, NEW c, WellFormed(c), Started(t, c)
    PROVE  CallsWellFormed'
<1>1. DOMAIN call' = Thread
  BY DEF Started
<1>2. ASSUME NEW d, WellFormed(d), NEW x \in BOOLEAN
      PROVE  WellFormed([d EXCEPT !.alone = x])
  BY <1>2 DEF WellFormed, Field
<1>3. ASSUME NEW u \in Thread  PROVE WellFormed(call'[u])
  <2>1. CASE u = t
    <3>1. call'[u] = [c EXCEPT !.alone = Quiet] /\ Quiet \in BOOLEAN
      BY <2>1 DEF Started, Quiet
    <3> QED  BY <1>2, <3>1
  <2>2. CASE u # t
    <3>1. call'[u] = [call[u] EXCEPT !.alone = FALSE]
      BY <2>2 DEF Started
    <3> QED  BY <1>2, <3>1 DEF CallsWellFormed
  <2> QED  BY <2>1, <2>2
<1>4. \A u \in Thread : WellFormed(call'[u])
  BY <1>3
<1>5. QED  BY <1>1, <1>4 DEF CallsWellFormed, WellFormed, Dated, State

LEMMA MoveIsWellFormed ==
    ASSUME CallsWellFormed, NEW t \in Thread, NEW c, WellFormed(c),
           call' = [call EXCEPT ![t] = c]
    PROVE  CallsWellFormed'
BY DEF CallsWellFormed, WellFormed, Dated, State

\* The state file afterwards is the one before, or what was to be written.
LEMMA SavedIsDated ==
    ASSUME Dated(stateFile), NEW st, Dated(st), Saved(st), faults \in Nat
    PROVE  Dated(stateFile') /\ faults' \in Nat
BY DEF Saved, Dated, State

LEMMA HistoryInit == RegInit => HistoryInv
<1> SUFFICES ASSUME RegInit  PROVE HistoryInv
  OBVIOUS
<1>1. Dated(Memory) /\ Dated(stateFile)
  BY EmptyIsDated, ConstantsAssumption
     DEF RegInit, Memory, EmptyState, Dated, State
<1>2. CallsWellFormed
  BY NoCallIsWellFormed DEF RegInit, CallsWellFormed
<1>3. 0 \in 0..Len(Declared)
  BY ConstantsAssumption
<1>4. QED  BY <1>1, <1>2, <1>3 DEF RegInit, HistoryInv

LEMMA HistoryStep == HistoryInv /\ [RegNext]_regVars => HistoryInv'
<1> SUFFICES ASSUME HistoryInv, [RegNext]_regVars  PROVE HistoryInv'
  OBVIOUS
<1> USE DEF HistoryInv
<1>0. WellFormed(NoCall)
  BY NoCallIsWellFormed
<1>a. DOMAIN artifacts = Registered /\ Registered \subseteq Key
  BY DEF Dated, State, Memory, Registered
<1>b. \A k \in Registered : artifacts[k] \in Artifact
  BY DEF Dated, State, Memory, Registered
<1>c. UNCHANGED memory => Dated(Memory')
  BY DEF memory, Memory
<1>1. ASSUME NEW t \in Thread, NEW k \in Key, NEW v \in Version,
             PublishFile(t, k, v)
      PROVE  HistoryInv'
  <2> DEFINE c == [NoCall EXCEPT !.pc = "set", !.key = k, !.version = v,
                                 !.hash = file[k], !.source = TRUE]
  <2>1. WellFormed(c)
    BY <1>0 DEF WellFormed, NoCall, Field, CallPC
  <2> HIDE DEF c
  <2>2. CallsWellFormed'
    BY <1>1, <2>1, StartedIsWellFormed DEF PublishFile, Begin, c
  <2>3. QED  BY <1>1, <1>c, <2>2 DEF PublishFile, Begin
<1>2. ASSUME NEW t \in Thread, NEW k \in Key, NEW v \in Version, NEW h \in Hash,
             PublishBytes(t, k, v, h)
      PROVE  HistoryInv'
  <2> DEFINE c == [NoCall EXCEPT !.pc = "set", !.key = k, !.version = v,
                                 !.hash = h]
  <2>1. WellFormed(c)
    BY <1>0 DEF WellFormed, NoCall, Field, CallPC
  <2> HIDE DEF c
  <2>2. CallsWellFormed'
    BY <1>2, <2>1, StartedIsWellFormed DEF PublishBytes, Begin, c
  <2>3. QED  BY <1>2, <1>c, <2>2 DEF PublishBytes, Begin
<1>3. ASSUME NEW t \in Thread, NEW k \in Key, Republish(t, k)
      PROVE  HistoryInv'
  <2>1. artifacts[k].version \in Version
    BY <1>b, <1>3 DEF Republish, Artifact
  <2>2. WellFormed(Reload(k))
    BY <1>0, <2>1 DEF Reload, WellFormed, NoCall, Field, CallPC
  <2>3. CallsWellFormed'
    BY <1>3, <2>2, StartedIsWellFormed DEF Republish, Begin
  <2>4. QED  BY <1>3, <1>c, <2>3 DEF Republish, Begin
<1>4. ASSUME NEW t \in Thread, ReadSource(t)
      PROVE  HistoryInv'
  <2> DEFINE c == [call[t] EXCEPT !.pc = "set", !.hash = file[call[t].key]]
  <2>1. WellFormed(call[t]) /\ call[t].pc = "read" /\ call' = [call EXCEPT ![t] = c]
    BY <1>4 DEF ReadSource, CallsWellFormed
  <2>2. file[call[t].key] \in Hash
    BY <2>1 DEF WellFormed
  <2>3. WellFormed(c)
    BY <2>1, <2>2 DEF WellFormed, Field, CallPC
  <2> HIDE DEF c
  <2>4. CallsWellFormed'
    BY <2>1, <2>3, MoveIsWellFormed
  <2>5. QED  BY <1>4, <1>c, <2>4 DEF ReadSource, bounds
<1>5. ASSUME NEW t \in Thread, setTarget(t)
      PROVE  HistoryInv'
  <2> DEFINE old == call[t]
             c == [NoCall EXCEPT
                !.pc = "snapshot", !.alone = old.alone,
                !.changed = Changes(old.key, old.version, old.hash)]
  <2>1. /\ WellFormed(old) /\ old.pc = "set"
        /\ call' = [call EXCEPT ![t] = c]
        /\ Publish(old.key, old.version, old.hash, old.source)
    BY <1>5 DEF setTarget, CallsWellFormed
  <2>2. /\ old.key \in Key /\ old.version \in Version /\ old.hash \in Hash
        /\ old.source \in BOOLEAN /\ old.alone \in BOOLEAN
    BY <2>1 DEF WellFormed
  <2> HIDE DEF old
  <2>3. Changes(old.key, old.version, old.hash) \in BOOLEAN
    BY DEF Changes
  <2>4. WellFormed(c)
    BY <1>0, <2>2, <2>3 DEF WellFormed, NoCall, Field, CallPC
  <2> HIDE DEF c
  <2>5. CallsWellFormed'
    BY <2>1, <2>4, MoveIsWellFormed
  <2>6. Dated(Memory')
    BY <2>1, <2>2, PublishedIsDated
  <2>7. QED  BY <1>5, <2>5, <2>6 DEF setTarget, bounds
<1>6. ASSUME NEW t \in Thread, NEW k \in Key, SetDefault(t, k)
      PROVE  HistoryInv'
  <2> DEFINE c == [NoCall EXCEPT !.pc = "snapshot", !.changed = TRUE]
  <2>1. WellFormed(c)
    BY <1>0 DEF WellFormed, NoCall, Field, CallPC
  <2> HIDE DEF c
  <2>2. CallsWellFormed'
    BY <1>6, <2>1, StartedIsWellFormed DEF SetDefault, Begin, c
  <2>3. Dated(Memory')
    BY <1>6 DEF SetDefault, Dated, State, Memory
  <2>4. QED  BY <1>6, <2>2, <2>3 DEF SetDefault, Begin
<1>7. ASSUME NEW t \in Thread, NEW k \in Key, Remove(t, k)
      PROVE  HistoryInv'
  <2> DEFINE c == [NoCall EXCEPT !.pc = "snapshot", !.changed = TRUE]
  <2>1. WellFormed(c)
    BY <1>0 DEF WellFormed, NoCall, Field, CallPC
  <2> HIDE DEF c
  <2>2. CallsWellFormed'
    BY <1>7, <2>1, StartedIsWellFormed DEF Remove, Begin, c
  <2>3. defaultKey' \in Key \cup {None}
    <3>1. defaultKey' = DefaultWithout(k, Registered \ {k})
      BY <1>7 DEF Remove
    <3>2. defaultKey \in Key \cup {None}
      BY DEF Dated, State, Memory
    <3>3. (\E j \in Registered \ {k} : Registered \ {k} = {j}) =>
            (CHOOSE j \in Registered \ {k} : TRUE) \in Registered \ {k}
      OBVIOUS
    <3>4. QED  BY <1>a, <3>1, <3>2, <3>3 DEF DefaultWithout
  <2>4. Dated(Memory')
    <3>1. artifacts' = [j \in Registered \ {k} |-> artifacts[j]]
      BY <1>7 DEF Remove
    <3>2. QED  BY <2>3, <3>1 DEF Dated, State, Memory, Registered
  <2>5. QED  BY <1>7, <2>2, <2>4 DEF Remove, Begin
<1>8. ASSUME NEW t \in Thread, persist(t)
      PROVE  HistoryInv'
  <2> DEFINE c == [call[t] EXCEPT !.pc = "write", !.snap = Memory]
  <2>1. call' = [call EXCEPT ![t] = c] /\ WellFormed(call[t])
    BY <1>8 DEF persist, registryState, CallsWellFormed
  <2>2. WellFormed(c)
    BY <2>1 DEF WellFormed, Field, CallPC
  <2> HIDE DEF c
  <2>3. CallsWellFormed'
    BY <2>1, <2>2, MoveIsWellFormed
  <2>4. QED  BY <1>8, <1>c, <2>3 DEF persist, bounds
<1>9. ASSUME NEW t \in Thread, WriteState(t)
      PROVE  HistoryInv'
  <2> DEFINE c == IF call[t].changed THEN [NoCall EXCEPT !.pc = "notify"]
                  ELSE NoCall
  <2>1. call' = [call EXCEPT ![t] = c] /\ Dated(call[t].snap)
    BY <1>9 DEF WriteState, CallsWellFormed, WellFormed
  <2>2. WellFormed(c)
    BY <1>0 DEF WellFormed, NoCall, Field, CallPC
  <2> HIDE DEF c
  <2>3. CallsWellFormed'
    BY <2>1, <2>2, MoveIsWellFormed
  <2>4. Dated(stateFile') /\ faults' \in Nat
    BY <1>9, <2>1, SavedIsDated DEF WriteState
  <2>5. QED  BY <1>9, <1>c, <2>3, <2>4 DEF WriteState
<1>10. ASSUME ReconcileConfig  PROVE HistoryInv'
  <2>1. booted \in 0..(Len(Declared) - 1) /\ Len(Declared) \in Nat
    BY <1>10, ConstantsAssumption DEF ReconcileConfig, Ready
  <2> DEFINE d == Declared[booted + 1]
  <2>2. d \in [key : Key, version : Version]
    <3>1. booted + 1 \in 1..Len(Declared)
      BY <2>1
    <3>2. \A i \in 1..Len(Declared) : Declared[i] \in [key : Key, version : Version]
      BY ConstantsAssumption, ElementOfSeq, Zenon
    <3>3. QED  BY <3>1, <3>2
  <2>3. Publish(d.key, d.version, file[d.key], TRUE) /\ Saved(Memory')
    BY <1>10 DEF ReconcileConfig
  <2> HIDE DEF d
  <2>4. Dated(Memory')
    BY <2>2, <2>3, PublishedIsDated
  <2>5. Dated(stateFile') /\ faults' \in Nat
    BY <2>3, <2>4, SavedIsDated
  <2>6. booted' \in 0..Len(Declared)
    BY <1>10, <2>1 DEF ReconcileConfig
  <2>7. QED  BY <1>10, <2>4, <2>5, <2>6 DEF ReconcileConfig, CallsWellFormed
<1>11. ASSUME NEW k \in Key, NEW h \in Hash, EditSource(k, h)
       PROVE  HistoryInv'
  BY <1>11, <1>c DEF EditSource, CallsWellFormed
<1>12. ASSUME Restart  PROVE HistoryInv'
  <2>1. CallsWellFormed'
    BY <1>0, <1>12 DEF Restart, Loaded, CallsWellFormed, WellFormed, Dated, State
  <2>2. Dated(Memory')
    BY <1>12, ConstantsAssumption DEF Restart, Loaded, Dated, State, Memory
  <2>3. booted' \in 0..Len(Declared)
    BY <1>12, ConstantsAssumption DEF Restart, Loaded
  <2>4. QED  BY <1>12, <2>1, <2>2, <2>3 DEF Restart, Loaded
<1>13. ASSUME NEW t \in Thread, OnChange(t)
       PROVE  HistoryInv'
  <2>1. CallsWellFormed'
    BY <1>0, <1>13, MoveIsWellFormed DEF OnChange
  <2>2. QED  BY <1>13, <1>c, <2>1 DEF OnChange, bounds
<1>14. ASSUME UNCHANGED regVars  PROVE HistoryInv'
  BY <1>14, <1>c DEF regVars, bounds, CallsWellFormed
<1>15. QED
  BY <1>1, <1>2, <1>3, <1>4, <1>5, <1>6, <1>7, <1>8, <1>9, <1>10, <1>11,
     <1>12, <1>13, <1>14 DEF RegNext, RegStep

LEMMA HistoryInvTypes == HistoryInv => RegTypeOK
<1> SUFFICES ASSUME HistoryInv  PROVE RegTypeOK
  OBVIOUS
<1>1. ASSUME NEW t \in Thread
      PROVE  /\ State(call[t].snap)
             /\ [call[t] EXCEPT !.snap = EmptyState] \in Call
  <2>1. WellFormed(call[t])
    BY DEF HistoryInv, CallsWellFormed
  <2>2. QED  BY <2>1 DEF WellFormed, Dated, Call, Field
<1>2. QED  BY <1>1 DEF HistoryInv, RegTypeOK, Dated, CallsWellFormed

LEMMA HistoryInvRecent == HistoryInv => HistoryIsRecent
<1>1. ASSUME HistoryInv, NEW k \in Registered
      PROVE  Recent(artifacts[k].history, artifacts[k].past)
  BY <1>1 DEF HistoryInv, Dated, Memory, Registered
<1>2. QED  BY <1>1 DEF HistoryIsRecent, Recent, Age, Newer, Hashes

\* Every variable of the registry keeps its type (pkg/server/registry.go).
THEOREM RegistryTypes == RegSpec => []RegTypeOK
<1> QED  BY HistoryInit, HistoryStep, HistoryInvTypes, PTL DEF RegSpec

\* However long hashes come and go, and for any depth, an artifact's history is
\* exactly the HistoryDepth most recently superseded ones, newest first
\* (Registry.setTarget); restarts from old state files included.
THEOREM HistoryKeepsTheRecent == RegSpec => []HistoryIsRecent
<1> QED  BY HistoryInit, HistoryStep, HistoryInvRecent, PTL DEF RegSpec
=============================================================================

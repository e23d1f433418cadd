---------------------------- MODULE ServerProofs ----------------------------
(***************************************************************************)
(* Facts about watchers and shutdown, for any tracks, threads and contents.*)
(*                                                                         *)
(* No edit is lost: what a publication may leave behind is bounded by what *)
(* is known of it when it read its file.  A call that met no other and     *)
(* read what the file no longer says still has the event before it.        *)
(*                                                                         *)
(* These rest on AloneInv: while a call is alone nothing else moves.       *)
(* Types, histories, the default and the state file are the registry's,    *)
(* whose invariants the server's steps keep as well.                       *)
(***************************************************************************)
EXTENDS Server, RegistryProofs

\* No watcher runs before the declared artifacts are published.
WatchersWait ==
    /\ DOMAIN watch = Key
    /\ ~Ready \/ life = "boot" => \A k \in Key : watch[k] = "none"

LEMMA WaitStep ==
    ASSUME WatchersWait, [Next]_vars  PROVE WatchersWait'
<1>1. CASE Boot
  BY <1>1 DEF Boot, ReconcileConfig, process, WatchersWait, Ready
<1>2. CASE StartServing
  BY <1>2 DEF StartServing, WatchersWait, Ready, regVars
<1>3. ASSUME NEW k \in Key, Listen(k) \/ WatcherStops(k)  PROVE WatchersWait'
  BY <1>3 DEF Listen, WatcherStops, WatchersWait, Ready, regVars, process
<1>4. ASSUME NEW k \in Key, Fire(k)  PROVE WatchersWait'
  BY <1>4 DEF Fire, WatchersWait, Ready, process
<1>5. ASSUME NEW k \in Key, NEW h \in Hash, Edit(k, h)  PROVE WatchersWait'
  BY <1>5 DEF Edit, EditSource, WatchersWait, Ready, process
<1>6. ASSUME NEW t \in Thread, CallStep(t)  PROVE WatchersWait'
  BY <1>6 DEF CallStep, Publication, setTarget, ReadSource, persist, WriteState,
        OnChange, watchers, process, WatchersWait, Ready
<1>7. ASSUME NEW t \in Handler, AdminRequest(t)  PROVE WatchersWait'
  BY <1>7 DEF AdminRequest, PublishFile, Republish, SetDefault, Remove,
        watchers, process, WatchersWait, Ready
<1>8. CASE Stop \/ CoapEnds \/ GenerationEnds \/ Drain \/ Close
           \/ ShutdownTimeout \/ UNCHANGED vars
  BY <1>8 DEF Stop, CoapEnds, GenerationEnds, Drain, Close, ShutdownTimeout,
        vars, regVars, watchers, process, WatchersWait, Ready
<1>9. CASE Exit \/ Crash
  BY <1>9 DEF Exit, Crash, Relaunched, WatchersWait
<1>10. QED
  BY <1>1, <1>2, <1>3, <1>4, <1>5, <1>6, <1>7, <1>8, <1>9 DEF Next, Shutdown

\* A watcher's reload, which is not counted among the calls.
Reloads(k) ==
    /\ FileBacked(k) /\ Started(k, Reload(k)) /\ Ready
    /\ UNCHANGED <<memory, stateFile, file, booted, bounds>>

\* What the server does to the registry is one of its own steps, a reload, a
\* restart that is no fault, or none at all, though a signal counts as a call.
LEMMA ServerStepIs ==
    ASSUME WatchersWait, [Next]_vars
    PROVE  \/ [RegNext]_regVars
           \/ \E k \in Key : Reloads(k)
           \/ Loaded /\ UNCHANGED bounds
           \/ calls' = calls + 1
              /\ UNCHANGED <<memory, stateFile, file, call, booted, faults>>
<1>1. CASE Boot \/ StartServing
  BY <1>1 DEF Boot, StartServing, RegNext, RegStep
<1>2. ASSUME NEW k \in Key, Listen(k) \/ WatcherStops(k)
      PROVE  [RegNext]_regVars
  BY <1>2 DEF Listen, WatcherStops
<1>3. ASSUME NEW k \in Key, NEW h \in Hash, Edit(k, h)  PROVE [RegNext]_regVars
  BY <1>3 DEF Edit, RegNext, RegStep
<1>4. ASSUME NEW t \in Thread, CallStep(t)  PROVE [RegNext]_regVars
  BY <1>4 DEF CallStep, Publication, RegNext, RegStep
<1>5. ASSUME NEW t \in Handler, AdminRequest(t)  PROVE [RegNext]_regVars
  BY <1>5 DEF AdminRequest, Handler, RegNext, RegStep
<1>6. CASE CoapEnds \/ GenerationEnds \/ Drain \/ Close \/ ShutdownTimeout
           \/ UNCHANGED vars
  BY <1>6 DEF CoapEnds, GenerationEnds, Drain, Close, ShutdownTimeout, vars
<1>7. CASE Crash
  BY <1>7 DEF Crash, Relaunched, Restart, RegNext
<1>8. ASSUME NEW k \in Key, Fire(k)  PROVE [RegNext]_regVars \/ Reloads(k)
  <2>1. Ready
    BY <1>8 DEF Fire, WatchersWait
  <2>2. QED  BY <1>8, <2>1 DEF Fire, Reloads, regVars
<1>9. CASE Stop \/ Exit
  BY <1>9 DEF Stop, Exit, Relaunched
<1>10. QED
  BY <1>1, <1>2, <1>3, <1>4, <1>5, <1>6, <1>7, <1>8, <1>9 DEF Next, Shutdown

\* Steps that are not the registry's own leave lone calls alone, too.
LEMMA ServerAlone ==
    ASSUME AloneInv, WatchersWait, [Next]_vars  PROVE AloneInv'
<1>1. CASE [RegNext]_regVars
  BY <1>1, AloneStep
<1>2. ASSUME NEW k \in Key, Reloads(k)  PROVE AloneInv'
  <2>1. DOMAIN Reload(k) = Field /\ Reload(k).pc = "read"
    BY DEF Reload, NoCall, Field
  <2>2. faults' \in Nat
    BY <1>2 DEF Reloads, bounds, AloneInv
  <2>3. QED
    BY <1>2, <2>1, <2>2, StartedIsAlone, WatcherAssumption DEF Reloads
<1>3. CASE Loaded /\ UNCHANGED bounds
  <2>1. DOMAIN NoCall = Field /\ NoCall.pc = "idle" /\ NoCall.alone = FALSE
    BY NoCallIsSound DEF NoCall
  <2>2. call' = [t \in Thread |-> NoCall] /\ faults' \in Nat
    BY <1>3 DEF Loaded, bounds, AloneInv
  <2>3. QED  BY <2>1, <2>2 DEF AloneInv, Alone, Quiet
<1>4. CASE UNCHANGED <<memory, stateFile, file, call, booted, faults>>
  BY <1>4 DEF AloneInv, Alone, Ready, Quiet, memory, Memory
<1>5. QED  BY <1>1, <1>2, <1>3, <1>4, ServerStepIs

-----------------------------------------------------------------------------
(* No edit is lost.                                                        *)

Publishing(t) == call[t].pc \in {"read", "set"}
Stale(t) == call[t].pc = "set" /\ call[t].hash # file[call[t].key]

\* The watcher of k publishes k, and every publication names a file.
Targets ==
    /\ DOMAIN file = Key
    /\ \A t \in Thread : Publishing(t) => call[t].key \in Key
    /\ \A k \in Key : Publishing(k) => call[k].key = k

\* A lone call that is about to publish what the file no longer says.
LoneStale ==
    \A t \in Thread :
        Stale(t) /\ call[t].alone => call[t].key \in event \cup unheard

\* What is known of a track while nobody watches it, and what when somebody does.
InStep(k) ==
    /\ k \in event => watch[k] \in {"on", "gone"}
    /\ k \in Registered \ unheard /\ artifacts[k].hash # file[k] =>
          \/ watch[k] = "gone" \/ k \in event
          \/ watch[k] = "on" /\ Publishing(k) /\ ~Stale(k)

EditInv == Targets /\ LoneStale /\ \A k \in Key : InStep(k)

\* A call that begins publishes nothing yet, or what its file says.
LEMMA StartedInStep ==
    ASSUME AloneInv, EditInv, NEW t \in Thread, NEW c, DOMAIN c = Field,
           Started(t, c),
           c.pc \in {"read", "set"} => c.key \in Key /\ (t \in Key => c.key = t),
           c.pc = "set" => c.hash = file[c.key],
           UNCHANGED <<file, event, unheard, watch>>,
           \A k \in DOMAIN artifacts' : k \in DOMAIN artifacts
                                        /\ artifacts'[k] = artifacts[k]
    PROVE  EditInv'
<1>1. ASSUME NEW u \in Thread
      PROVE  /\ u # t => /\ call'[u].pc = call[u].pc
                         /\ call'[u].key = call[u].key
                         /\ call'[u].hash = call[u].hash
                         /\ call'[u].alone = FALSE
             /\ u = t => /\ call'[u].pc = c.pc /\ call'[u].key = c.key
                         /\ call'[u].hash = c.hash
  BY <1>1 DEF Started, AloneInv, Field
<1>2. call[t].pc = "idle"
  BY DEF Started
<1>3. Targets'
  BY <1>1, WatcherAssumption DEF EditInv, Targets, Publishing
<1>4. LoneStale'
  BY <1>1 DEF LoneStale, Stale
<1>5. ASSUME NEW k \in Key  PROVE InStep(k)'
  <2>1. Publishing(k) /\ ~Stale(k) => (Publishing(k) /\ ~Stale(k))'
    BY <1>1, <1>2, WatcherAssumption DEF Publishing, Stale
  <2>2. InStep(k)
    BY DEF EditInv
  <2>3. QED  BY <2>1, <2>2 DEF InStep, Registered
<1>6. QED  BY <1>3, <1>4, <1>5 DEF EditInv

\* A call that has published goes on.
LEMMA PublishedInStep ==
    ASSUME AloneInv, EditInv, NEW t \in Thread, NEW c,
           call' = [call EXCEPT ![t] = c],
           call[t].pc \notin {"read", "set"}, c.pc \notin {"read", "set"},
           UNCHANGED <<artifacts, file, event, unheard, watch>>
    PROVE  EditInv'
<1>1. ASSUME NEW u \in Thread
      PROVE  /\ Publishing(u)' = Publishing(u) /\ Stale(u)' = Stale(u)
             /\ Publishing(u) \/ Stale(u) => call'[u] = call[u]
  BY DEF AloneInv, Publishing, Stale
<1>2. Targets'
  BY <1>1, WatcherAssumption DEF EditInv, Targets
<1>3. LoneStale'
  BY <1>1 DEF EditInv, LoneStale
<1>4. ASSUME NEW k \in Key  PROVE InStep(k)'
  <2>1. InStep(k)
    BY DEF EditInv
  <2>2. QED  BY <2>1, <1>1, WatcherAssumption DEF InStep, Registered
<1>5. QED  BY <1>2, <1>3, <1>4 DEF EditInv

LEMMA EditCalls ==
    ASSUME AloneInv, EditInv, NEW t \in Thread, CallStep(t)
    PROVE  EditInv'
<1>1. CASE persist(t) /\ UNCHANGED <<process, watchers>>
  <2>1. call' = [call EXCEPT ![t] =
                    [call[t] EXCEPT !.pc = "write", !.snap = registryState]]
    BY <1>1 DEF persist
  <2>2. [call[t] EXCEPT !.pc = "write", !.snap = registryState].pc = "write"
    BY DEF AloneInv, Field
  <2>3. QED
    BY <1>1, <2>1, <2>2, PublishedInStep DEF persist, memory, watchers
<1>2. CASE WriteState(t) /\ UNCHANGED <<process, watchers>>
  <2> DEFINE c == IF call[t].changed THEN [NoCall EXCEPT !.pc = "notify"]
                  ELSE NoCall
  <2>1. call' = [call EXCEPT ![t] = c] /\ c.pc \in {"idle", "notify"}
    BY <1>2 DEF WriteState, NoCall
  <2> HIDE DEF c
  <2>2. QED
    BY <1>2, <2>1, PublishedInStep DEF WriteState, memory, watchers
<1>3. CASE OnChange(t) /\ UNCHANGED <<process, watchers>>
  <2>1. NoCall.pc = "idle"
    BY DEF NoCall
  <2>2. QED
    BY <1>3, <2>1, PublishedInStep DEF OnChange, memory, watchers
<1>4. CASE ReadSource(t) /\ UNCHANGED <<process, watchers>>
  <2>1. /\ call' = [call EXCEPT ![t] =
                      [call[t] EXCEPT !.pc = "set", !.hash = file[call[t].key]]]
        /\ UNCHANGED <<artifacts, file, event, unheard, watch>>
        /\ call[t].pc = "read"
    BY <1>4 DEF ReadSource, memory, watchers
  <2>2. ASSUME NEW u \in Thread
        PROVE  /\ u # t => call'[u] = call[u]
               /\ u = t => /\ call'[u].pc = "set" /\ call'[u].key = call[u].key
                           /\ call'[u].hash = file[call[u].key]
    BY <2>1 DEF AloneInv, Field
  <2>3. Targets'
    BY <2>1, <2>2, WatcherAssumption DEF EditInv, Targets, Publishing
  <2>4. LoneStale'
    BY <2>1, <2>2 DEF EditInv, LoneStale, Stale
  <2>5. ASSUME NEW k \in Key  PROVE InStep(k)'
    <3>1. Publishing(k) /\ ~Stale(k) => (Publishing(k) /\ ~Stale(k))'
      BY <2>1, <2>2, WatcherAssumption DEF Publishing, Stale
    <3>2. InStep(k)
      BY DEF EditInv
    <3>3. QED  BY <3>1, <3>2, <2>1 DEF InStep, Registered
  <2>6. QED  BY <2>3, <2>4, <2>5 DEF EditInv
<1>5. CASE Publication(t)
  <2> DEFINE k == call[t].key
  <2>1. /\ call[t].pc = "set" /\ k \in Key
        /\ UNCHANGED <<file, event, watch>>
        /\ unheard' = IF call[t].hash = file[k] THEN unheard \ {k}
                      ELSE IF call[t].alone THEN unheard ELSE unheard \cup {k}
    BY <1>5 DEF Publication, setTarget, EditInv, Targets, Publishing
  <2>2. /\ DOMAIN artifacts' = Registered \cup {k}
        /\ artifacts'[k].hash = call[t].hash
        /\ \A j \in Registered \ {k} : artifacts'[j] = artifacts[j]
    BY <1>5 DEF Publication, setTarget, Publish, Updated
  <2>3. ASSUME NEW u \in Thread
        PROVE  /\ u # t => call'[u] = call[u]
               /\ u = t => call'[u].pc = "snapshot"
    BY <1>5 DEF Publication, setTarget, AloneInv, NoCall
  <2> HIDE DEF k
  <2>4. Targets'
    BY <2>1, <2>3, WatcherAssumption DEF EditInv, Targets, Publishing
  <2>5. LoneStale'
    <3> SUFFICES ASSUME NEW u \in Thread, (Stale(u) /\ call[u].alone)'
                 PROVE  (call[u].key \in event \cup unheard)'
      BY DEF LoneStale
    <3>1. u # t /\ call'[u] = call[u] /\ Stale(u)
      BY <2>1, <2>3 DEF Stale
    <3>2. FALSE
      BY <3>1, <2>1 DEF AloneInv, Alone, Stale
    <3>3. QED  BY <3>2
  <2>6. ASSUME NEW j \in Key  PROVE InStep(j)'
    <3>1. InStep(j)
      BY DEF EditInv
    <3>2. CASE j = k
      <4>1. call[t].hash # file[k] /\ call[t].alone => k \in event \cup unheard
        BY <2>1 DEF EditInv, LoneStale, Stale, k
      <4>2. QED  BY <3>1, <3>2, <4>1, <2>1, <2>2 DEF InStep, Registered
    <3>3. CASE j # k
      <4>1. j # t
        BY <3>3, <2>1 DEF EditInv, Targets, Publishing, k
      <4>2. call'[j] = call[j]
        BY <4>1, <2>3, WatcherAssumption
      <4>3. Publishing(j) /\ ~Stale(j) => (Publishing(j) /\ ~Stale(j))'
        BY <4>2, <2>1 DEF Publishing, Stale
      <4>4. QED  BY <3>1, <3>3, <4>3, <2>1, <2>2 DEF InStep, Registered
    <3>4. QED  BY <3>2, <3>3
  <2>7. QED  BY <2>4, <2>5, <2>6 DEF EditInv
<1>6. QED  BY <1>1, <1>2, <1>3, <1>4, <1>5 DEF CallStep

LEMMA EditRequests ==
    ASSUME AloneInv, EditInv, NEW t \in Handler, AdminRequest(t)
    PROVE  EditInv'
<1>0. /\ DOMAIN NoCall = Field
      /\ t \in Thread /\ t \notin Key
      /\ UNCHANGED <<event, unheard, watch>>
  BY NoCallIsSound DEF Handler, AdminRequest, watchers
<1>1. ASSUME NEW k \in Key, NEW v \in Version, PublishFile(t, k, v)
      PROVE  EditInv'
  <2> DEFINE c == [NoCall EXCEPT !.pc = "set", !.key = k, !.version = v,
                                 !.hash = file[k], !.source = TRUE]
  <2>1. DOMAIN c = Field /\ c.pc = "set" /\ c.key = k /\ c.hash = file[k]
    BY <1>0 DEF NoCall, Field
  <2>2. Started(t, c) /\ UNCHANGED <<artifacts, file>>
    BY <1>1 DEF PublishFile, Begin, memory
  <2> HIDE DEF c
  <2>3. QED  BY <1>0, <2>1, <2>2, StartedInStep
<1>2. ASSUME NEW k \in Key, Republish(t, k)
      PROVE  EditInv'
  <2>1. /\ DOMAIN Reload(k) = Field
        /\ Reload(k).pc = "read" /\ Reload(k).key = k
    BY DEF Reload, NoCall, Field
  <2>2. Started(t, Reload(k)) /\ UNCHANGED <<artifacts, file>>
    BY <1>2 DEF Republish, Begin, memory
  <2>3. QED  BY <1>0, <2>1, <2>2, StartedInStep
<1>3. ASSUME NEW k \in Key, SetDefault(t, k) \/ Remove(t, k)
      PROVE  EditInv'
  <2> DEFINE c == [NoCall EXCEPT !.pc = "snapshot", !.changed = TRUE]
  <2>1. DOMAIN c = Field /\ c.pc = "snapshot"
    BY <1>0 DEF NoCall, Field
  <2>2. Started(t, c) /\ UNCHANGED file
    BY <1>3 DEF SetDefault, Remove, Begin
  <2>3. \A j \in DOMAIN artifacts' : j \in DOMAIN artifacts
                                     /\ artifacts'[j] = artifacts[j]
    BY <1>3 DEF SetDefault, Remove, Registered
  <2> HIDE DEF c
  <2>4. QED  BY <1>0, <2>1, <2>2, <2>3, StartedInStep
<1>4. QED  BY <1>1, <1>2, <1>3 DEF AdminRequest

LEMMA EditWatchers ==
    ASSUME AloneInv, WatchersWait, EditInv, NEW k \in Key,
           Listen(k) \/ Fire(k) \/ WatcherStops(k)
              \/ \E h \in Hash : Edit(k, h)
    PROVE  EditInv'
<1>0. \A j \in Key : InStep(j)
  BY DEF EditInv
<1>1. CASE Listen(k) \/ WatcherStops(k)
  <2>1. /\ UNCHANGED <<artifacts, file, call, event, unheard>>
        /\ DOMAIN watch = Key
        /\ \A j \in Key : j # k => watch'[j] = watch[j]
        /\ \/ watch[k] = "planned" /\ watch'[k] \in {"on", "gone"}
           \/ watch[k] = "on" /\ watch'[k] = "gone"
    BY <1>1 DEF Listen, WatcherStops, regVars, memory, WatchersWait
  <2>2. Targets' /\ LoneStale'
    BY <2>1 DEF EditInv, Targets, LoneStale, Publishing, Stale
  <2>3. ASSUME NEW j \in Key  PROVE InStep(j)'
    BY <1>0, <2>1 DEF InStep, Registered, Publishing, Stale
  <2>4. QED  BY <2>2, <2>3 DEF EditInv
<1>2. CASE Fire(k) /\ ~FileBacked(k)
  <2>1. /\ UNCHANGED <<artifacts, file, call, watch>>
        /\ event' = event \ {k}
        /\ unheard' = unheard \cup {k}
    BY <1>2 DEF Fire, memory
  <2>2. Targets' /\ LoneStale'
    BY <2>1 DEF EditInv, Targets, LoneStale, Publishing, Stale
  <2>3. ASSUME NEW j \in Key  PROVE InStep(j)'
    BY <1>0, <2>1 DEF InStep, Registered, Publishing, Stale
  <2>4. QED  BY <2>2, <2>3 DEF EditInv
<1>3. CASE Fire(k) /\ FileBacked(k)
  <2>1. /\ Started(k, Reload(k))
        /\ UNCHANGED <<artifacts, file, watch, unheard>>
        /\ event' = event \ {k}
        /\ watch[k] = "on"
    BY <1>3 DEF Fire, memory
  <2>2. ASSUME NEW u \in Thread
        PROVE  /\ u # k => /\ call'[u].pc = call[u].pc
                           /\ call'[u].key = call[u].key
                           /\ call'[u].hash = call[u].hash
                           /\ call'[u].alone = FALSE
               /\ u = k => call'[u].pc = "read" /\ call'[u].key = k
    BY <2>1, <2>2 DEF Started, AloneInv, Field, Reload, NoCall
  <2>3. Targets'
    BY <2>1, <2>2, WatcherAssumption DEF EditInv, Targets, Publishing
  <2>4. LoneStale'
    BY <2>2 DEF LoneStale, Stale
  <2>5. ASSUME NEW j \in Key  PROVE InStep(j)'
    BY <1>0, <2>1, <2>2, WatcherAssumption
       DEF InStep, Registered, Publishing, Stale
  <2>6. QED  BY <2>3, <2>4, <2>5 DEF EditInv
<1>4. ASSUME NEW h \in Hash, Edit(k, h)  PROVE EditInv'
  <2>1. /\ UNCHANGED <<artifacts, call, watch>>
        /\ file' = [file EXCEPT ![k] = h]
        /\ watch[k] = "on" => event' = event \cup {k} /\ unheard' = unheard
        /\ watch[k] # "on" => event' = event /\ unheard' = unheard \cup {k}
    BY <1>4 DEF Edit, EditSource, Noted, memory
  <2>2. Targets'
    BY <2>1 DEF EditInv, Targets, Publishing
  <2>3. LoneStale'
    BY <2>1 DEF EditInv, Targets, LoneStale, Stale
  <2>4. ASSUME NEW j \in Key  PROVE InStep(j)'
    <3>1. CASE j = k
      BY <1>0, <2>1, <3>1 DEF InStep, Registered, Publishing, Stale
    <3>2. CASE j # k
      <4>1. file'[j] = file[j]
        BY <2>1, <3>2
      <4>2. Publishing(j) => call[j].key = j
        BY DEF EditInv, Targets
      <4>3. QED
        BY <1>0, <2>1, <3>2, <4>1, <4>2 DEF InStep, Registered, Publishing, Stale
    <3>3. QED  BY <3>1, <3>2
  <2>5. QED  BY <2>2, <2>3, <2>4 DEF EditInv
<1>5. QED  BY <1>1, <1>2, <1>3, <1>4

\* The processes that follow start from what the state file says.
LEMMA EditProcess ==
    ASSUME AloneInv, WatchersWait, EditInv,
           \/ Boot \/ StartServing \/ Stop \/ CoapEnds \/ GenerationEnds
           \/ Shutdown \/ Crash
    PROVE  EditInv'
<1>0. \A j \in Key : InStep(j)
  BY DEF EditInv
<1>1. CASE Boot
  <2> DEFINE d == Declared[booted + 1].key
  <2>1. /\ Quiet
        /\ UNCHANGED <<file, call, event, watch>>
        /\ unheard' = unheard \ {d}
    BY <1>1 DEF Boot, ReconcileConfig, AloneInv
  <2>2. /\ DOMAIN artifacts' = Registered \cup {d}
        /\ artifacts'[d].hash = file[d]
        /\ \A j \in Registered \ {d} : artifacts'[j] = artifacts[j]
    BY <1>1 DEF Boot, ReconcileConfig, Publish, Updated
  <2>3. Targets' /\ LoneStale'
    BY <2>1, WatcherAssumption
       DEF EditInv, Targets, LoneStale, Publishing, Stale, Quiet
  <2> HIDE DEF d
  <2>4. ASSUME NEW j \in Key  PROVE InStep(j)'
    BY <1>0, <2>1, <2>2 DEF InStep, Registered, Publishing, Stale
  <2>5. QED  BY <2>3, <2>4 DEF EditInv
<1>2. CASE StartServing
  <2>1. /\ UNCHANGED <<artifacts, file, call, event, unheard>>
        /\ \A j \in Key : watch[j] = "none" /\ watch'[j] \in {"none", "planned"}
    BY <1>2 DEF StartServing, regVars, memory, WatchersWait
  <2>2. Targets' /\ LoneStale'
    BY <2>1 DEF EditInv, Targets, LoneStale, Publishing, Stale
  <2>3. ASSUME NEW j \in Key  PROVE InStep(j)'
    BY <1>0, <2>1 DEF InStep, Registered, Publishing, Stale
  <2>4. QED  BY <2>2, <2>3 DEF EditInv
<1>3. CASE Stop \/ CoapEnds \/ GenerationEnds \/ Drain \/ Close \/ ShutdownTimeout
  <2>1. UNCHANGED <<artifacts, file, call, event, unheard, watch>>
    BY <1>3 DEF Stop, CoapEnds, GenerationEnds, Drain, Close, ShutdownTimeout,
          regVars, memory, watchers
  <2>2. QED
    BY <2>1 DEF EditInv, Targets, LoneStale, InStep, Registered, Publishing, Stale
<1>4. CASE Exit \/ Crash
  <2>1. /\ call' = [t \in Thread |-> NoCall] /\ NoCall.pc = "idle"
        /\ UNCHANGED file /\ event' = {}
        /\ unheard' = {k \in DOMAIN artifacts' : artifacts'[k].hash # file[k]}
    BY <1>4 DEF Exit, Crash, Relaunched, Loaded, NoCall
  <2>2. Targets' /\ LoneStale'
    BY <2>1, WatcherAssumption
       DEF EditInv, Targets, LoneStale, Publishing, Stale
  <2>3. ASSUME NEW j \in Key  PROVE InStep(j)'
    BY <2>1 DEF InStep, Registered
  <2>4. QED  BY <2>2, <2>3 DEF EditInv
<1>5. QED  BY <1>1, <1>2, <1>3, <1>4 DEF Shutdown

LEMMA EditStep ==
    ASSUME AloneInv, WatchersWait, EditInv, [Next]_vars  PROVE EditInv'
<1>1. CASE UNCHANGED vars
  BY <1>1 DEF vars, regVars, memory, watchers, EditInv, Targets, LoneStale,
        InStep, Registered, Publishing, Stale
<1>2. CASE Next
  BY <1>2, EditProcess, EditWatchers, EditCalls, EditRequests DEF Next
<1>3. QED  BY <1>1, <1>2

AllInv == AloneInv /\ WatchersWait /\ EditInv

LEMMA AllInit == Init => AllInv
<1>1. Init => AloneInv
  BY AloneInit DEF Init
<1>2. Init => WatchersWait
  BY DEF Init, WatchersWait
<1>3. Init => EditInv
  BY WatcherAssumption DEF Init, RegInit, EditInv, Targets, LoneStale, InStep,
     Registered, EmptyState, NoCall, Publishing, Stale
<1>4. QED  BY <1>1, <1>2, <1>3 DEF AllInv

LEMMA AllStep == AllInv /\ [Next]_vars => AllInv'
BY ServerAlone, WaitStep, EditStep DEF AllInv

\* A watched track that differs from its file has an event before it, or its
\* watcher is about to publish what the file says (Watcher.Run, Republish).
THEOREM EditsReachTheTrack == Spec => []NoEditLost
<1>1. AllInv => NoEditLost
  BY DEF AllInv, EditInv, InStep, NoEditLost, FileBacked, Registered,
     Publishing, Stale, Targets
<1>2. QED  BY <1>1, AllInit, AllStep, PTL DEF Spec

-----------------------------------------------------------------------------
(* A lone reload keeps the label.                                          *)

LabelInv ==
    \A k \in Key :
        Publishing(k) /\ call[k].alone
            => k \in Registered /\ call[k].version = artifacts[k].version

\* A thread goes through its call, or begins one and ends everybody's solitude,
\* or changes nothing that LabelInv speaks of.
LEMMA OneCallMoves ==
    ASSUME AloneInv, [Next]_vars, NEW k \in Key, call[k].alone, Publishing(k),
           call'[k].alone \/ call'[k].pc # call[k].pc,
           ~CallStep(k), Publishing(k)' \/ call'[k].pc = "snapshot"
    PROVE  call'[k] = call[k] /\ artifacts' = artifacts
<1>0. /\ k \in Thread /\ call[k].pc # "idle" /\ ~Quiet
      /\ NoCall.pc = "idle" /\ DOMAIN call[k] = Field
  BY WatcherAssumption DEF Publishing, NoCall, AloneInv, Quiet
<1>1. ASSUME NEW t \in Thread, NEW c, Started(t, c), DOMAIN c = Field
      PROVE  FALSE
  <2>1. t # k
    BY <1>0, <1>1 DEF Started
  <2>2. call'[k] = [call[k] EXCEPT !.alone = FALSE]
    BY <1>0, <1>1, <2>1 DEF Started
  <2>3. QED  BY <1>0, <2>2 DEF Field
<1>2. ASSUME NEW t \in Handler, AdminRequest(t)  PROVE FALSE
  <2>1. \A c : DOMAIN c = Field => ~Begin(t, c)
    BY <1>1, <1>2 DEF Begin, Handler
  <2>2. DOMAIN NoCall = Field
    BY NoCallIsSound
  <2>3. QED
    BY <1>2, <2>1, <2>2
       DEF AdminRequest, PublishFile, Republish, Reload, SetDefault, Remove, NoCall
<1>3. ASSUME NEW t \in Thread, CallStep(t)  PROVE FALSE
  <2>1. call[t].pc = "idle"
    BY <1>0, <1>3 DEF AloneInv, Alone
  <2>2. QED
    BY <1>3, <2>1 DEF CallStep, Publication, setTarget, ReadSource, persist,
          WriteState, OnChange
<1>4. ASSUME NEW j \in Key, Fire(j)  PROVE call' = call /\ artifacts' = artifacts
  <2>1. DOMAIN Reload(j) = Field
    BY DEF Reload, NoCall, Field
  <2>2. QED
    BY <1>1, <1>4, <2>1, WatcherAssumption DEF Fire, memory
<1>5. CASE Exit \/ Crash
  BY <1>0, <1>5 DEF Exit, Crash, Relaunched, Loaded, Publishing
<1>6. CASE Boot
  BY <1>0, <1>6 DEF Boot, ReconcileConfig, AloneInv
<1>7. ASSUME NEW j \in Key, Listen(j) \/ WatcherStops(j)
      PROVE  call' = call /\ artifacts' = artifacts
  BY <1>7 DEF Listen, WatcherStops, regVars, memory
<1>8. ASSUME NEW j \in Key, NEW h \in Hash, Edit(j, h)
      PROVE  call' = call /\ artifacts' = artifacts
  BY <1>8 DEF Edit, EditSource, memory
<1>9. CASE StartServing \/ Stop \/ CoapEnds \/ GenerationEnds \/ Drain \/ Close
           \/ ShutdownTimeout \/ UNCHANGED vars
  BY <1>9 DEF StartServing, Stop, CoapEnds, GenerationEnds, Drain, Close,
        ShutdownTimeout, vars, regVars, memory
<1>10. QED
  BY <1>2, <1>3, <1>4, <1>5, <1>6, <1>7, <1>8, <1>9 DEF Next, Shutdown

\* Only its watcher begins a reload of k.
LEMMA WatcherBegins ==
    ASSUME AloneInv, [Next]_vars, NEW k \in Key,
           ~(Publishing(k) /\ call[k].alone), (Publishing(k) /\ call[k].alone)'
    PROVE  Fire(k) /\ FileBacked(k)
<1>0. k \in Thread /\ NoCall.pc = "idle" /\ NoCall.alone = FALSE
  BY WatcherAssumption DEF NoCall
<1>1. ASSUME NEW t \in Thread, NEW c, Started(t, c), t # k  PROVE FALSE
  BY <1>0, <1>1 DEF Started, AloneInv, Field
<1>2. ASSUME NEW t \in Handler, AdminRequest(t)  PROVE FALSE
  <2>1. \A c : ~Begin(t, c)
    BY <1>1, <1>2 DEF Begin, Handler
  <2>2. QED
    BY <1>2, <2>1 DEF AdminRequest, PublishFile, Republish, SetDefault, Remove
<1>3. ASSUME NEW t \in Thread, CallStep(t)  PROVE FALSE
  <2>1. t # k => call'[k] = call[k]
    BY <1>0, <1>3 DEF CallStep, Publication, setTarget, ReadSource, persist,
          WriteState, OnChange, AloneInv
  <2>2. CASE t = k /\ ReadSource(k)
    BY <1>0, <2>2 DEF ReadSource, Publishing, AloneInv, Field
  <2>3. CASE t = k /\ persist(k)
    BY <1>0, <2>3 DEF persist, Publishing, AloneInv, Field
  <2>4. CASE t = k /\ (setTarget(k) \/ WriteState(k) \/ OnChange(k))
    <3>1. call'[k].pc \in {"snapshot", "idle", "notify"}
      BY <1>0, <2>4 DEF setTarget, WriteState, OnChange, AloneInv, NoCall
    <3>2. QED  BY <3>1 DEF Publishing
  <2>5. QED
    BY <1>3, <2>1, <2>2, <2>3, <2>4 DEF CallStep, Publication, Publishing
<1>4. ASSUME NEW j \in Key, Fire(j), ~(j = k /\ FileBacked(k))  PROVE FALSE
  <2>1. CASE UNCHANGED call
    BY <2>1 DEF Publishing
  <2>2. CASE Started(j, Reload(j)) /\ FileBacked(j)
    BY <2>2, <1>1, <1>4, WatcherAssumption
  <2>3. QED  BY <1>4, <2>1, <2>2 DEF Fire
<1>5. CASE Exit \/ Crash
  BY <1>0, <1>5 DEF Exit, Crash, Relaunched, Loaded, Publishing
<1>6. ASSUME UNCHANGED call  PROVE FALSE
  BY <1>6 DEF Publishing
<1>7. ~Boot /\ ~StartServing /\ ~Stop /\ ~CoapEnds /\ ~GenerationEnds
      /\ ~Drain /\ ~Close /\ ~ShutdownTimeout /\ ~UNCHANGED vars
      /\ \A j \in Key : /\ ~Listen(j) /\ ~WatcherStops(j)
                        /\ \A h \in Hash : ~Edit(j, h)
  BY <1>6 DEF Boot, ReconcileConfig, StartServing, Stop, CoapEnds, Drain, Close,
     GenerationEnds, ShutdownTimeout, Listen, WatcherStops, Edit, EditSource,
     vars, regVars
<1>8. QED
  BY <1>2, <1>3, <1>4, <1>5, <1>7 DEF Next, Shutdown

LEMMA LabelStep ==
    ASSUME AloneInv, LabelInv, [Next]_vars  PROVE LabelInv'
<1> SUFFICES ASSUME NEW k \in Key, (Publishing(k) /\ call[k].alone)'
             PROVE  (k \in Registered /\ call[k].version = artifacts[k].version)'
  BY DEF LabelInv
<1>0. k \in Thread
  BY WatcherAssumption
<1>1. CASE ~(Publishing(k) /\ call[k].alone)
  <2>1. Fire(k) /\ FileBacked(k)
    BY <1>1, WatcherBegins
  <2>2. call'[k].version = artifacts[k].version /\ artifacts' = artifacts
    BY <1>0, <2>1 DEF Fire, Started, Reload, NoCall, memory
  <2>3. QED  BY <2>1, <2>2 DEF FileBacked, Registered
<1>2. CASE Publishing(k) /\ call[k].alone /\ ~CallStep(k)
  <2>1. call'[k] = call[k] /\ artifacts' = artifacts
    BY <1>2, OneCallMoves
  <2>2. QED  BY <1>2, <2>1 DEF LabelInv, Registered
<1>3. CASE Publishing(k) /\ call[k].alone /\ CallStep(k)
  <2>1. CASE ReadSource(k)
    <3>1. call'[k].version = call[k].version /\ artifacts' = artifacts
      BY <1>0, <2>1 DEF ReadSource, AloneInv, Field, memory
    <3>2. QED  BY <1>3, <3>1 DEF LabelInv, Registered
  <2>2. CASE setTarget(k)
    <3>1. call'[k].pc = "snapshot"
      BY <1>0, <2>2 DEF setTarget, AloneInv, NoCall
    <3>2. QED  BY <3>1 DEF Publishing
  <2>3. QED
    BY <1>3, <2>1, <2>2 DEF CallStep, Publication, persist, WriteState, OnChange,
          Publishing
<1>4. QED  BY <1>1, <1>2, <1>3

LEMMA LabelInit == Init => LabelInv
BY WatcherAssumption DEF Init, RegInit, LabelInv, Publishing, NoCall

\* A reload that met no other call keeps the label it found, and finds its track
\* registered (Registry.Republish).
THEOREM LabelKept == Spec => ReloadKeepsLabel
<1> DEFINE Kept ==
      \A k \in Key :
          call[k].pc = "set" /\ call[k].alone /\ call'[k].pc = "snapshot"
              => /\ k \in Registered
                 /\ artifacts'[k].version = artifacts[k].version
<1>1. ASSUME AllInv, LabelInv, Next, NEW k \in Key, call[k].pc = "set",
             call[k].alone, call'[k].pc = "snapshot"
      PROVE  k \in Registered /\ artifacts'[k].version = artifacts[k].version
  <2>1. k \in Thread /\ call[k].key = k
    BY <1>1, WatcherAssumption DEF AllInv, EditInv, Targets, Publishing
  <2>2. k \in Registered /\ call[k].version = artifacts[k].version
    BY <1>1 DEF LabelInv, Publishing
  <2>3. CallStep(k)
    <3> SUFFICES ASSUME ~CallStep(k)  PROVE FALSE
      OBVIOUS
    <3>1. call'[k] = call[k]
      BY <1>1, OneCallMoves DEF AllInv, Publishing
    <3>2. QED  BY <1>1, <3>1
  <2>4. setTarget(k)
    BY <1>1, <2>3 DEF CallStep, Publication, ReadSource, persist, WriteState, OnChange
  <2>5. artifacts'[k].version = call[k].version
    BY <2>1, <2>4 DEF setTarget, Publish, Updated
  <2>6. QED  BY <2>2, <2>5
<1>2. AllInv /\ LabelInv /\ [Next]_vars => [Kept]_vars
  BY <1>1
<1>3. AllInv /\ LabelInv /\ [Next]_vars => (AllInv /\ LabelInv)'
  BY AllStep, LabelStep DEF AllInv
<1>4. QED
  BY <1>2, <1>3, AllInit, LabelInit, PTL DEF Spec, ReloadKeepsLabel

-----------------------------------------------------------------------------
(* A clean exit.                                                           *)

\* What each stage of the shutdown has waited for, unless its time was up.
Waited ==
    /\ \A k \in Key : watch[k] # "on" => call[k].pc = "idle"
    /\ life \in {"closing", "waiting"} /\ ~expired
          => \A t \in Handler : call[t].pc = "idle"
    /\ life = "waiting" /\ ~expired /\ generating => late

LEMMA WaitedInit == Init => Waited
BY WatcherAssumption DEF Init, RegInit, Waited, NoCall, Handler

\* While t moves the other calls stay where they are.
LEMMA OthersStay ==
    ASSUME AloneInv, NEW t \in Thread, NEW u \in Thread, u # t,
           CallStep(t) \/ \E c : Started(t, c)
    PROVE  call'[u].pc = call[u].pc
<1>1. CASE CallStep(t)
  BY <1>1 DEF CallStep, Publication, setTarget, ReadSource, persist, WriteState,
        OnChange, AloneInv
<1>2. ASSUME NEW c, Started(t, c)  PROVE call'[u].pc = call[u].pc
  BY <1>2 DEF Started, AloneInv, Field
<1>3. QED  BY <1>1, <1>2

LEMMA WaitedStep ==
    ASSUME AloneInv, WatchersWait, Waited, [Next]_vars  PROVE Waited'
<1>0. NoCall.pc = "idle" /\ Handler \subseteq Thread /\ Key \subseteq Thread
  BY WatcherAssumption DEF NoCall, Handler
<1>1. CASE Boot \/ Stop \/ Drain \/ Close
  <2>1. CASE Boot
    BY <2>1 DEF Boot, ReconcileConfig, process, Waited
  <2>2. CASE Stop
    BY <2>2 DEF Stop, watchers, Waited
  <2>3. CASE Drain
    BY <2>3 DEF Drain, regVars, watchers, Waited
  <2>4. CASE Close
    BY <2>4 DEF Close, Drained, regVars, watchers, Waited
  <2>5. QED  BY <1>1, <2>1, <2>2, <2>3, <2>4
<1>10. CASE CoapEnds \/ GenerationEnds \/ ShutdownTimeout \/ UNCHANGED vars
  <2>1. CASE CoapEnds
    BY <2>1 DEF CoapEnds, regVars, watchers, Waited
  <2>2. CASE GenerationEnds
    BY <2>2 DEF GenerationEnds, regVars, watchers, Waited
  <2>3. CASE ShutdownTimeout
    BY <2>3 DEF ShutdownTimeout, regVars, watchers, Waited
  <2>4. CASE UNCHANGED vars
    BY <2>4 DEF vars, regVars, process, watchers, Waited
  <2>5. QED  BY <1>10, <2>1, <2>2, <2>3, <2>4
<1>2. CASE StartServing
  BY <1>2 DEF StartServing, regVars, WatchersWait, Waited
<1>3. ASSUME NEW k \in Key, Listen(k) \/ WatcherStops(k)  PROVE Waited'
  BY <1>3 DEF Listen, WatcherStops, regVars, process, WatchersWait, Waited
<1>4. ASSUME NEW k \in Key, NEW h \in Hash, Edit(k, h)  PROVE Waited'
  BY <1>4 DEF Edit, EditSource, process, Waited
<1>5. ASSUME NEW k \in Key, Fire(k)  PROVE Waited'
  <2>1. UNCHANGED <<process, watch>> /\ watch[k] = "on"
    BY <1>5 DEF Fire
  <2>2. \A u \in Thread : u # k => call'[u].pc = call[u].pc
    BY <1>0, <1>5, OthersStay DEF Fire
  <2>3. QED  BY <1>0, <2>1, <2>2 DEF Waited, process, Handler
<1>6. ASSUME NEW t \in Thread, CallStep(t)  PROVE Waited'
  <2>1. UNCHANGED <<process, watch>> /\ call[t].pc # "idle"
    BY <1>6 DEF CallStep, Publication, setTarget, ReadSource, persist, WriteState,
          OnChange, watchers
  <2>2. \A u \in Thread : u # t => call'[u].pc = call[u].pc
    BY <1>6, OthersStay
  <2>3. QED  BY <1>0, <2>1, <2>2 DEF Waited, process
<1>7. ASSUME NEW t \in Handler, AdminRequest(t)  PROVE Waited'
  <2>1. UNCHANGED <<process, watch>> /\ life = "serving"
    BY <1>7 DEF AdminRequest, watchers
  <2>2. \E c : Started(t, c)
    BY <1>7 DEF AdminRequest, PublishFile, Republish, SetDefault, Remove, Begin
  <2>3. \A u \in Thread : u # t => call'[u].pc = call[u].pc
    BY <1>0, <2>2, OthersStay
  <2>4. QED  BY <1>0, <2>1, <2>3 DEF Waited, process, Handler
<1>8. CASE Exit \/ Crash
  BY <1>0, <1>8 DEF Exit, Crash, Relaunched, Loaded, Waited
<1>9. QED
  BY <1>1, <1>2, <1>3, <1>4, <1>5, <1>6, <1>7, <1>8, <1>10 DEF Next, Shutdown

\* A shutdown within its time leaves no call and, CoAP requests that outlived
\* Stop aside, no generation behind (run, Store.Close).
THEOREM ExitIsClean == Spec => CleanExit
<1> DEFINE Clean ==
      life = "waiting" /\ life' = "boot" /\ ~expired /\ UNCHANGED faults
          => Quiet /\ (generating => late)
<1>1. ASSUME AllInv, Waited, Next, life = "waiting", life' = "boot", ~expired,
             UNCHANGED faults
      PROVE  Quiet /\ (generating => late)
  <2>1. Exit
    <3>1. ~Crash
      BY <1>1 DEF Crash, AllInv, AloneInv
    <3>2. ~Stop /\ ~Boot /\ ~StartServing /\ ~CoapEnds /\ ~GenerationEnds
          /\ ~Drain /\ ~Close /\ ~ShutdownTimeout
      BY <1>1 DEF Stop, Boot, StartServing, CoapEnds, GenerationEnds, Drain, Close,
            ShutdownTimeout, process
    <3>3. \A k \in Key : /\ ~Listen(k) /\ ~Fire(k) /\ ~WatcherStops(k)
                        /\ \A h \in Hash : ~Edit(k, h)
      BY <1>1 DEF Listen, Fire, WatcherStops, Edit, process
    <3>4. \A t \in Thread : ~CallStep(t) /\ ~AdminRequest(t)
      BY <1>1 DEF CallStep, Publication, AdminRequest, process
    <3>5. QED
      BY <1>1, <3>1, <3>2, <3>3, <3>4, WatcherAssumption DEF Next, Shutdown, Handler
  <2>2. \A k \in Key : watch[k] # "on"
    BY <1>1, <2>1 DEF Exit
  <2>3. QED  BY <1>1, <2>2 DEF Waited, Quiet, Handler
<1>2. AllInv /\ Waited /\ [Next]_vars => [Clean]_vars
  BY <1>1
<1>3. AllInv /\ Waited /\ [Next]_vars => (AllInv /\ Waited)'
  BY AllStep, WaitedStep DEF AllInv
<1>4. QED
  BY <1>2, <1>3, AllInit, WaitedInit, PTL DEF Spec, CleanExit

-----------------------------------------------------------------------------
(* Types and histories.                                                    *)

LEMMA ServerHistory ==
    ASSUME HistoryInv, WatchersWait, [Next]_vars  PROVE HistoryInv'
<1>1. CASE [RegNext]_regVars
  BY <1>1, HistoryStep
<1>2. ASSUME NEW k \in Key, Reloads(k)  PROVE HistoryInv'
  <2>1. artifacts[k].version \in Version
    BY <1>2
       DEF Reloads, FileBacked, HistoryInv, Dated, State, Memory, Registered, Artifact
  <2>2. WellFormed(Reload(k))
    BY <2>1, NoCallIsWellFormed DEF Reload, WellFormed, NoCall, Field, CallPC
  <2>3. CallsWellFormed'
    BY <1>2, <2>2, StartedIsWellFormed, WatcherAssumption DEF Reloads, HistoryInv
  <2>4. QED
    BY <1>2, <2>3 DEF Reloads, HistoryInv, memory, Memory, bounds
<1>3. CASE Loaded /\ UNCHANGED bounds
  <2>1. CallsWellFormed'
    BY <1>3, NoCallIsWellFormed DEF Loaded, CallsWellFormed, WellFormed, Dated, State
  <2>2. Dated(Memory')
    BY <1>3, ConstantsAssumption DEF HistoryInv, Loaded, Dated, State, Memory
  <2>3. booted' \in 0..Len(Declared)
    BY <1>3, ConstantsAssumption DEF Loaded
  <2>4. QED
    BY <1>3, <2>1, <2>2, <2>3 DEF HistoryInv, Loaded, bounds
<1>4. CASE calls' = calls + 1
           /\ UNCHANGED <<memory, stateFile, file, call, booted, faults>>
  BY <1>4 DEF HistoryInv, memory, Memory, CallsWellFormed
<1>5. QED  BY <1>1, <1>2, <1>3, <1>4, ServerStepIs

ProcessTypes ==
    /\ watch \in [Key -> WatchState]
    /\ event \subseteq Key /\ unheard \subseteq Key
    /\ life \in Life
    /\ {cancelled, expired, generating, coap, late} \subseteq BOOLEAN

LEMMA ProcessStep ==
    ASSUME HistoryInv, ProcessTypes, [Next]_vars  PROVE ProcessTypes'
<1> USE DEF ProcessTypes, WatchState, Life, process, watchers
<1>1. CASE Boot
  BY <1>1 DEF Boot
<1>2. CASE StartServing
  BY <1>2 DEF StartServing
<1>3. ASSUME NEW k \in Key, Listen(k) \/ WatcherStops(k) \/ Fire(k)
      PROVE  ProcessTypes'
  BY <1>3 DEF Listen, WatcherStops, Fire
<1>4. ASSUME NEW k \in Key, NEW h \in Hash, Edit(k, h)  PROVE ProcessTypes'
  BY <1>4 DEF Edit, Noted
<1>5. ASSUME NEW t \in Thread, CallStep(t)  PROVE ProcessTypes'
  <2>1. CASE Publication(t)
    <3>1. call[t].key \in Key
      BY <2>1 DEF Publication, setTarget, HistoryInv, CallsWellFormed, WellFormed
    <3>2. QED  BY <2>1, <3>1 DEF Publication
  <2>2. QED  BY <1>5, <2>1 DEF CallStep
<1>6. ASSUME NEW t \in Handler, AdminRequest(t)  PROVE ProcessTypes'
  BY <1>6 DEF AdminRequest
<1>7. CASE Stop \/ CoapEnds \/ GenerationEnds \/ Drain \/ Close
           \/ ShutdownTimeout \/ UNCHANGED vars
  BY <1>7 DEF Stop, CoapEnds, GenerationEnds, Drain, Close, ShutdownTimeout, vars
<1>8. CASE Exit \/ Crash
  <2>1. DOMAIN artifacts' \subseteq Key
    BY <1>8 DEF Exit, Crash, Relaunched, Loaded, HistoryInv, Dated, State
  <2>2. QED  BY <1>8, <2>1 DEF Exit, Crash, Relaunched
<1>9. QED
  BY <1>1, <1>2, <1>3, <1>4, <1>5, <1>6, <1>7, <1>8 DEF Next, Shutdown

ServerInv == HistoryInv /\ WatchersWait /\ ProcessTypes

LEMMA ServerInit == Init => ServerInv
<1>1. Init => HistoryInv
  BY HistoryInit DEF Init
<1>2. Init => WatchersWait /\ ProcessTypes
  BY DEF Init, WatchersWait, ProcessTypes, WatchState, Life
<1>3. QED  BY <1>1, <1>2 DEF ServerInv

LEMMA ServerStep == ServerInv /\ [Next]_vars => ServerInv'
BY ServerHistory, WaitStep, ProcessStep DEF ServerInv

\* Every variable of the server keeps its type.
THEOREM ServerTypes == Spec => []TypeOK
<1>1. ServerInv => TypeOK
  BY HistoryInvTypes DEF ServerInv, ProcessTypes, TypeOK
<1>2. QED  BY <1>1, ServerInit, ServerStep, PTL DEF Spec

\* Under watchers, requests, shutdowns and crashes, too, a history holds exactly
\* the HistoryDepth most recently superseded hashes (Registry.setTarget).
THEOREM ServerKeepsTheRecent == Spec => []HistoryIsRecent
<1>1. ServerInv => HistoryIsRecent
  BY HistoryInvRecent DEF ServerInv
<1>2. QED  BY <1>1, ServerInit, ServerStep, PTL DEF Spec

-----------------------------------------------------------------------------
(* What holds of the default and of the state file, watchers or not.       *)

LEMMA ServerDefault ==
    ASSUME DefaultInv, WatchersWait, [Next]_vars  PROVE DefaultInv'
<1>1. CASE [RegNext]_regVars
  BY <1>1, DefaultStep
<1>2. ASSUME NEW k \in Key, Reloads(k)  PROVE DefaultInv'
  <2>1. DOMAIN Reload(k) = Field /\ Sound(Reload(k).snap)
    BY NoCallIsSound DEF Reload, NoCall, Field
  <2>2. CallsSound'
    BY <1>2, <2>1, StartedIsSound, WatcherAssumption DEF Reloads, DefaultInv
  <2>3. QED  BY <1>2, <2>2 DEF Reloads, DefaultInv, memory, Memory
<1>3. CASE Loaded /\ UNCHANGED bounds
  BY <1>3, NoCallIsSound DEF Loaded, DefaultInv, CallsSound, Sound, Memory
<1>4. CASE UNCHANGED <<memory, stateFile, file, call, booted, faults>>
  BY <1>4 DEF DefaultInv, CallsSound, memory, Memory
<1>5. QED  BY <1>1, <1>2, <1>3, <1>4, ServerStepIs

\* Watchers and shutdowns, clean or not, leave no default that names an artifact
\* nobody published, either (Registry.load, Registry.Remove).
THEOREM ServerDefaultRegistered == Spec => []DefaultRegistered
<1>1. Init => DefaultInv /\ WatchersWait
  BY DefaultInit, AllInit DEF Init, AllInv
<1>2. (DefaultInv /\ WatchersWait) /\ [Next]_vars => (DefaultInv /\ WatchersWait)'
  BY ServerDefault, WaitStep
<1>3. DefaultInv => DefaultRegistered
  BY DEF DefaultInv, Sound, DefaultRegistered
<1>4. QED  BY <1>1, <1>2, <1>3, PTL DEF Spec

\* A call that met no other leaves a current state file behind, unless its write
\* fails or the shutdown's timeout cuts it off.
DurableUnlessCutOff ==
    [][\A t \in Thread :
          call[t].pc = "write" /\ call[t].alone /\ call'[t].pc # "write"
                /\ UNCHANGED faults
                /\ ~(expired /\ life = "waiting" /\ life' = "boot")
              => stateFile' = Memory']_vars

\* A shutdown waits for the registry's writes: a publication, reload, removal or
\* change of default that met no other survives the restart, however far the
\* shutdown has come when it runs (Registry.persist, run).
THEOREM ShutdownKeepsWrites == Spec => DurableUnlessCutOff
<1> DEFINE Durable ==
      \A t \in Thread :
          call[t].pc = "write" /\ call[t].alone /\ call'[t].pc # "write"
                /\ UNCHANGED faults
                /\ ~(expired /\ life = "waiting" /\ life' = "boot")
              => stateFile' = Memory'
<1>1. ASSUME AllInv, Waited, Next, NEW t \in Thread, call[t].pc = "write",
             call[t].alone, call'[t].pc # "write", UNCHANGED faults,
             ~(expired /\ life = "waiting" /\ life' = "boot")
      PROVE  stateFile' = Memory'
  <2> USE DEF AllInv
  <2>1. ~Exit
    <3> SUFFICES ASSUME Exit  PROVE FALSE
      OBVIOUS
    <3>1. life = "waiting" /\ ~expired
      BY <1>1 DEF Exit, Relaunched
    <3>2. \A k \in Key : watch[k] # "on"
      BY <3>1 DEF Exit
    <3>3. QED  BY <1>1, <3>1, <3>2 DEF Waited, Handler
  <2>2. ~Crash
    BY <1>1 DEF Crash, AloneInv
  <2>3. CallStep(t)
    <3> SUFFICES ASSUME ~CallStep(t)  PROVE FALSE
      OBVIOUS
    <3>1. call'[t].pc = call[t].pc
      <4>1. ASSUME NEW u \in Thread, u # t, CallStep(u) \/ \E c : Started(u, c)
            PROVE  call'[t].pc = call[t].pc
        BY <1>1, <4>1, OthersStay
      <4>2. ASSUME NEW u \in Thread, \E c : Started(u, c)  PROVE u # t
        BY <1>1, <4>2 DEF Started
      <4>3. ASSUME NEW k \in Key, Fire(k)  PROVE call'[t].pc = call[t].pc
        BY <4>1, <4>2, <4>3, WatcherAssumption DEF Fire
      <4>4. ASSUME NEW u \in Handler, AdminRequest(u)
            PROVE  call'[t].pc = call[t].pc
        BY <4>1, <4>2, <4>4
           DEF AdminRequest, PublishFile, Republish, SetDefault, Remove, Begin, Handler
      <4>5. CASE UNCHANGED call
        BY <4>5
      <4>6. QED
        BY <1>1, <2>1, <2>2, <4>1, <4>3, <4>4, <4>5
           DEF Next, Shutdown, Boot, ReconcileConfig, StartServing, Listen,
               WatcherStops, Edit, EditSource, Stop, CoapEnds, GenerationEnds,
               Drain, Close, ShutdownTimeout, regVars
    <3>2. QED  BY <1>1, <3>1
  <2>4. WriteState(t)
    BY <1>1, <2>3 DEF CallStep, Publication, setTarget, ReadSource, persist,
                      WriteState, OnChange
  <2>5. call[t].snap = Memory
    BY <1>1 DEF AloneInv, Alone
  <2>6. QED
    BY <1>1, <2>4, <2>5 DEF WriteState, Saved, AloneInv, memory, Memory
<1>2. AllInv /\ Waited /\ [Next]_vars => [Durable]_vars
  BY <1>1
<1>3. AllInv /\ Waited /\ [Next]_vars => (AllInv /\ Waited)'
  BY AllStep, WaitedStep DEF AllInv
<1>4. QED
  BY <1>2, <1>3, AllInit, WaitedInit, PTL DEF Spec, DurableUnlessCutOff
=============================================================================

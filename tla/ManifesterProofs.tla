-------------------------- MODULE ManifesterProofs --------------------------
(***************************************************************************)
(* Facts about manifests and their memo, for any artifacts, contents,      *)
(* goroutines and sizes.                                                   *)
(*                                                                         *)
(* With the memo beside it, the registry is still the registry, so what    *)
(* RegistryProofs says of it holds here.                                   *)
(*                                                                         *)
(* A stale entry is a debt: whoever made it stale carries `changed` through *)
(* persist to OnChange, which clears the memo.  As long as nobody owes that *)
(* (Pending), every entry of a current target has its current label.       *)
(***************************************************************************)
EXTENDS Manifester, RegistryProofs

\* Every step of the manifester is one of the registry, or changes nothing of it.
LEMMA ManifesterStep == [Next]_vars => [RegNext]_regVars
<1>1. Next => [RegNext]_regVars
  BY DEF Next, InvalidateArtifact, RestartServer, RegNext, NothingToOffer, Resolve,
     CacheHit, CacheMiss, NotServed, memoize
<1>2. QED  BY <1>1 DEF vars

\* The manifester runs beside the registry and does not change what it does:
\* all that is proved of the registry holds with heartbeats beside it.
THEOREM RegistryIsRegistry == Spec => RegSpec
<1>1. Init => RegInit
  BY DEF Init
<1>2. QED  BY <1>1, ManifesterStep, PTL DEF Spec, RegSpec

-----------------------------------------------------------------------------
(* What a request knows, by how far it has come.                           *)

RequestOK(r) ==
    /\ r \in Request
    /\ r.pc # "idle" => r.key \in Key /\ r.art \in Target /\ r.from \in Hash \cup {Full}
    /\ r.pc \in {"building", "answered"} =>
          /\ r.answer \in Manifest
          /\ r.answer.key = r.key /\ r.answer.hash = r.art.hash
    /\ r.pc = "building" => r.answer.from = r.from /\ r.answer.version = r.art.version

MemoOK ==
    /\ cache \subseteq Manifest
    /\ IsFiniteSet(cache) /\ Cardinality(cache) <= CacheSize

RequestInv ==
    /\ HistoryInv
    /\ MemoOK
    /\ DOMAIN request = Handler /\ \A h \in Handler : RequestOK(request[h])
    /\ request = [h \in Handler |-> request[h]]

LEMMA NoRequestIsOK == RequestOK(NoRequest)
BY DEF RequestOK, NoRequest, Request

LEMMA AddedOne ==
    ASSUME NEW S, NEW e, IsFiniteSet(S)
    PROVE  /\ IsFiniteSet(S \cup {e})
           /\ Cardinality(S \cup {e}) <= Cardinality(S) + 1
<1>1. IsFiniteSet(S \cup {e})
  BY FS_AddElement
<1>2. Cardinality(S \cup {e}) = Cardinality(S) \/ Cardinality(S \cup {e}) = Cardinality(S) + 1
  BY FS_AddElement
<1>3. Cardinality(S) \in Nat
  BY FS_CardinalityType
<1>4. QED  BY <1>1, <1>2, <1>3

\* A new entry replaces the one of its key, or one that has to go.
LEMMA MemoizedIsOK ==
    ASSUME MemoOK, NEW m \in Manifest, NEW c \in Memoized(m)
    PROVE  /\ c \subseteq cache \cup {m}
           /\ IsFiniteSet(c) /\ Cardinality(c) <= CacheSize
<1> DEFINE rest == cache \ Cached(m.key, m.from, m.hash)
<1>1. rest \subseteq cache /\ IsFiniteSet(rest) /\ Cardinality(rest) <= Cardinality(cache)
  <2>1. rest \in SUBSET cache
    OBVIOUS
  <2> HIDE DEF rest
  <2>2. QED  BY <2>1, FS_Subset DEF MemoOK
<1>2. Cardinality(rest) \in Nat /\ Cardinality(cache) \in Nat /\ CacheSize \in Nat
  BY <1>1, FS_CardinalityType, ManifesterAssumption DEF MemoOK
<1>3. \/ Cardinality(rest) < CacheSize /\ c = rest \cup {m}
      \/ \E e \in rest : c = (rest \ {e}) \cup {m}
  BY DEF Memoized
<1> HIDE DEF rest
<1>4. CASE Cardinality(rest) < CacheSize /\ c = rest \cup {m}
  <2>1. IsFiniteSet(c) /\ Cardinality(c) <= Cardinality(rest) + 1
    BY <1>1, <1>4, AddedOne
  <2>2. Cardinality(c) \in Nat
    BY <2>1, FS_CardinalityType
  <2>3. QED  BY <1>1, <1>2, <1>4, <2>1, <2>2
<1>5. CASE \E e \in rest : c = (rest \ {e}) \cup {m}
  <2>1. PICK e \in rest : c = (rest \ {e}) \cup {m}
    BY <1>5
  <2>2. IsFiniteSet(rest \ {e}) /\ Cardinality(rest \ {e}) = Cardinality(rest) - 1
    BY <1>1, <2>1, FS_RemoveElement
  <2>3. IsFiniteSet(c) /\ Cardinality(c) <= Cardinality(rest \ {e}) + 1
    BY <2>1, <2>2, AddedOne
  <2>4. Cardinality(c) \in Nat
    BY <2>3, FS_CardinalityType
  <2>5. Cardinality(c) <= CacheSize
    BY <1>1, <1>2, <2>2, <2>3, <2>4 DEF MemoOK
  <2>6. QED  BY <1>1, <2>1, <2>3, <2>5
<1>6. QED  BY <1>3, <1>4, <1>5

LEMMA RequestInit == Init => RequestInv
<1> SUFFICES ASSUME Init  PROVE RequestInv
  OBVIOUS
<1>1. HistoryInv
  BY HistoryInit DEF Init
<1>2. MemoOK
  BY FS_EmptySet, ManifesterAssumption DEF Init, MemoOK
<1>3. QED  BY <1>1, <1>2, NoRequestIsOK DEF Init, RequestInv

\* A handler's step leaves the others' requests alone.
LEMMA OneRequestMoves ==
    ASSUME RequestInv, HistoryInv', NEW h \in Handler, NEW r, RequestOK(r),
           request' = [request EXCEPT ![h] = r], MemoOK'
    PROVE  RequestInv'
BY DEF RequestInv, RequestOK

LEMMA RequestStep == RequestInv /\ [Next]_vars => RequestInv'
<1> SUFFICES ASSUME RequestInv, [Next]_vars  PROVE RequestInv'
  OBVIOUS
<1>0. HistoryInv'
  BY ManifesterStep, HistoryStep DEF RequestInv
<1>a. UNCHANGED cache => MemoOK'
  BY DEF RequestInv, MemoOK
<1>b. \A k \in Registered : k \in Key /\ TargetOf(artifacts[k]) \in Target
  BY DEF RequestInv, HistoryInv, Dated, State, Memory, Registered, Artifact, TargetOf,
     Target
<1>c. \A h \in Handler : RequestOK(request[h])
  BY DEF RequestInv
<1>1. CASE UNCHANGED manVars
  BY <1>0, <1>1, <1>a DEF RequestInv, manVars, RequestOK
<1>2. ASSUME NEW t \in Thread, InvalidateArtifact(t)  PROVE RequestInv'
  <2>1. MemoOK'
    BY <1>2, FS_EmptySet, ManifesterAssumption DEF InvalidateArtifact, MemoOK
  <2>2. QED  BY <1>0, <1>2, <2>1 DEF InvalidateArtifact, RequestInv, RequestOK
<1>3. CASE RestartServer
  <2>1. MemoOK'
    BY <1>3, FS_EmptySet, ManifesterAssumption DEF RestartServer, MemoOK
  <2>2. QED  BY <1>0, <1>3, <2>1, NoRequestIsOK DEF RestartServer, RequestInv, RequestOK
<1>4. ASSUME NEW h \in Handler, NEW name \in Key \cup {None}, NEW running \in Hash,
             NothingToOffer(h, name, running)
      PROVE  RequestInv'
  BY <1>0, <1>4, <1>a, NoRequestIsOK, OneRequestMoves DEF NothingToOffer
<1>5. ASSUME NEW h \in Handler, NEW name \in Key \cup {None}, NEW running \in Hash,
             NEW d \in BOOLEAN, Resolve(h, name, running, d)
      PROVE  RequestInv'
  <2> DEFINE r == [NoRequest EXCEPT !.pc = "resolved", !.key = Asked(name),
                      !.art = TargetOf(artifacts[Asked(name)]),
                      !.from = IF d THEN running ELSE Full]
  <2>1. Asked(name) \in Key /\ TargetOf(artifacts[Asked(name)]) \in Target
    BY <1>5, <1>b DEF Resolve, Known
  <2>2. RequestOK(r)
    BY <2>1 DEF RequestOK, NoRequest, Request
  <2>3. request' = [request EXCEPT ![h] = r] /\ UNCHANGED cache
    BY <1>5 DEF Resolve
  <2> HIDE DEF r
  <2>4. QED  BY <1>0, <1>a, <2>2, <2>3, OneRequestMoves
<1>6. ASSUME NEW h \in Handler, CacheHit(h)  PROVE RequestInv'
  <2>1. PICK m \in Cached(request[h].key, request[h].from, request[h].art.hash) :
            request' = [request EXCEPT ![h] =
                           [request[h] EXCEPT !.pc = "answered", !.answer = m]]
    BY <1>6 DEF CacheHit
  <2>2. m \in Manifest /\ m.key = request[h].key /\ m.hash = request[h].art.hash
    BY <2>1 DEF Cached, cacheKeyMatches, RequestInv, MemoOK
  <2> DEFINE r == [request[h] EXCEPT !.pc = "answered", !.answer = m]
  <2>3. RequestOK(request[h]) /\ request[h].pc = "resolved"
    BY <1>6, <1>c DEF CacheHit
  <2>4. RequestOK(r)
    BY <2>2, <2>3 DEF RequestOK, Request
  <2> HIDE DEF r
  <2>5. QED  BY <1>0, <1>6, <1>a, <2>1, <2>4, OneRequestMoves DEF CacheHit, r
<1>7. ASSUME NEW h \in Handler, CacheMiss(h)  PROVE RequestInv'
  <2> DEFINE old == request[h]
             m == [key |-> old.key, from |-> old.from, hash |-> old.art.hash,
                   version |-> old.art.version, late |-> FALSE]
             r == [old EXCEPT !.pc = "building", !.answer = m]
  <2>1. RequestOK(old) /\ old.pc = "resolved"
    BY <1>7, <1>c DEF CacheMiss
  <2>2. m \in Manifest
    BY <2>1 DEF RequestOK, Manifest, Target
  <2>3. RequestOK(r)
    BY <2>1, <2>2 DEF RequestOK, Request
  <2>4. request' = [request EXCEPT ![h] = r] /\ UNCHANGED cache
    BY <1>7 DEF CacheMiss
  <2> HIDE DEF r
  <2>5. QED  BY <1>0, <1>a, <2>3, <2>4, OneRequestMoves
<1>8. ASSUME NEW h \in Handler, NotServed(h)  PROVE RequestInv'
  BY <1>0, <1>8, <1>a, NoRequestIsOK, OneRequestMoves DEF NotServed
<1>9. ASSUME NEW h \in Handler, memoize(h)  PROVE RequestInv'
  <2>1. PICK late \in BOOLEAN :
           LET m == [request[h].answer EXCEPT !.late = late] IN
           /\ cache' \in Memoized(m)
           /\ request' = [request EXCEPT ![h] =
                             [request[h] EXCEPT !.pc = "answered", !.answer = m]]
    BY <1>9 DEF memoize, Known
  <2> DEFINE m == [request[h].answer EXCEPT !.late = late]
             r == [request[h] EXCEPT !.pc = "answered", !.answer = m]
  <2>2. RequestOK(request[h]) /\ request[h].pc = "building"
    BY <1>9, <1>c DEF memoize
  <2>3. m \in Manifest /\ m.key = request[h].key /\ m.hash = request[h].art.hash
    BY <2>2 DEF RequestOK, Manifest
  <2> HIDE DEF m
  <2>4. RequestOK(r)
    BY <2>2, <2>3 DEF RequestOK, Request
  <2>5. MemoOK'
    BY <2>1, <2>3, MemoizedIsOK DEF m, MemoOK, RequestInv
  <2>6. request' = [request EXCEPT ![h] = r]
    BY <2>1 DEF m
  <2> HIDE DEF r
  <2>7. QED  BY <1>0, <2>4, <2>5, <2>6, OneRequestMoves
<1>10. QED
  BY <1>1, <1>2, <1>3, <1>4, <1>5, <1>6, <1>7, <1>8, <1>9
     DEF Next, vars

\* Every variable keeps its type and the memo its size (entryLRU.Put).
THEOREM ManifesterTypes == Spec => []TypeOK
<1>1. RequestInv => TypeOK
  BY HistoryInvTypes DEF RequestInv, RequestOK, MemoOK, TypeOK
<1>2. QED  BY <1>1, RequestInit, RequestStep, PTL DEF Spec

\* Whoever filled the memo, a device is told of the artifact and the target its
\* heartbeat was resolved to (Manifester.Build, cacheKey).
THEOREM AnswersFit == Spec => []AnswerFits
<1>1. RequestInv => AnswerFits
  BY DEF RequestInv, RequestOK, AnswerFits
<1>2. QED  BY <1>1, RequestInit, RequestStep, PTL DEF Spec

-----------------------------------------------------------------------------
(* Labels.                                                                 *)

\* Somebody is going to clear the memo.
Pending == \E t \in Thread : call[t].changed \/ call[t].pc = "notify"

Current(m) ==
    m.key \in Registered /\ artifacts[m.key].hash = m.hash
        => m.version = artifacts[m.key].version \/ m.late

MemoIsCurrent == \A m \in cache : Current(m)

LabelInv ==
    /\ RequestInv
    /\ \A t \in Thread : call[t].changed => call[t].pc \in {"snapshot", "write"}
    /\ ~Ready => cache = {} /\ \A h \in Handler : request[h].pc = "idle"
    /\ ~Ready => Quiet
    /\ Pending \/ MemoIsCurrent

\* What a step has to do for LabelInv, when it moves one call of the registry.
LEMMA CallKeepsLabels ==
    ASSUME LabelInv, RequestInv', NEW t \in Thread, NEW c,
           DOMAIN call' = Thread, call'[t].changed = c.changed, call'[t].pc = c.pc,
           \A u \in Thread \ {t} :
               call'[u].pc = call[u].pc /\ call'[u].changed = call[u].changed,
           c.changed => c.pc \in {"snapshot", "write"},
           (call[t].changed \/ call[t].pc = "notify") => c.changed \/ c.pc = "notify",
           c.changed \/ UNCHANGED memory \/ (MemoIsCurrent => MemoIsCurrent'),
           Ready, UNCHANGED <<booted, cache, request>>
    PROVE  LabelInv'
<1>1. Ready'
  BY DEF Ready
<1>2. \A u \in Thread : call'[u].changed => call'[u].pc \in {"snapshot", "write"}
  BY DEF LabelInv
<1>3. Pending => Pending'
  BY DEF Pending
<1>4. c.changed => Pending'
  BY DEF Pending
<1>5. UNCHANGED memory => (MemoIsCurrent => MemoIsCurrent')
  BY DEF memory, MemoIsCurrent, Current, Registered
<1>6. QED  BY <1>1, <1>2, <1>3, <1>4, <1>5 DEF LabelInv

LEMMA BeginKeepsLabels ==
    ASSUME LabelInv, RequestInv', NEW t \in Thread, NEW c, WellFormed(c), Begin(t, c),
           c.changed => c.pc = "snapshot", c.changed \/ UNCHANGED memory,
           UNCHANGED <<booted, cache, request>>
    PROVE  LabelInv'
<1>1. \A u \in Thread : WellFormed(call[u])
  BY DEF LabelInv, RequestInv, HistoryInv, CallsWellFormed
<1>2. DOMAIN call' = Thread /\ call'[t] = [c EXCEPT !.alone = Quiet]
  BY DEF Begin, Started
<1>3. call'[t].changed = c.changed /\ call'[t].pc = c.pc
  BY <1>2 DEF WellFormed, Field
<1>4. ASSUME NEW u \in Thread \ {t}
      PROVE  call'[u].pc = call[u].pc /\ call'[u].changed = call[u].changed
  <2>1. call'[u] = [call[u] EXCEPT !.alone = FALSE] /\ DOMAIN call[u] = Field
    BY <1>1, <1>4 DEF Begin, Started, WellFormed
  <2>2. QED  BY <2>1 DEF Field
<1>5. call[t].pc = "idle" /\ ~call[t].changed /\ Ready
  BY DEF Begin, Started, LabelInv
<1>6. QED  BY <1>2, <1>3, <1>4, <1>5, CallKeepsLabels

LEMMA MoveKeepsLabels ==
    ASSUME LabelInv, RequestInv', NEW t \in Thread, NEW c,
           call' = [call EXCEPT ![t] = c], call[t].pc # "idle",
           c.changed => c.pc \in {"snapshot", "write"},
           call[t].changed \/ call[t].pc = "notify" => c.changed \/ c.pc = "notify",
           c.changed \/ UNCHANGED memory \/ (MemoIsCurrent => MemoIsCurrent'),
           UNCHANGED <<booted, cache, request>>
    PROVE  LabelInv'
<1>1. DOMAIN call = Thread
  BY DEF LabelInv, RequestInv, HistoryInv, CallsWellFormed
<1>2. Ready
  BY DEF LabelInv, Quiet
<1>3. QED  BY <1>1, <1>2, CallKeepsLabels

\* Steps of the registry that do not clear the memo.
LEMMA RegistryKeepsLabels ==
    ASSUME LabelInv, RequestInv', RegStep, UNCHANGED manVars
    PROVE  LabelInv'
<1> USE DEF manVars
<1>0. WellFormed(NoCall)
  BY NoCallIsWellFormed
<1>a. \A t \in Thread : WellFormed(call[t])
  BY DEF LabelInv, RequestInv, HistoryInv, CallsWellFormed
<1>b. file \in [Key -> Hash]
  BY DEF LabelInv, RequestInv, HistoryInv
<1>1. ASSUME NEW t \in Thread, NEW k \in Key, NEW v \in Version,
             PublishFile(t, k, v)
      PROVE  LabelInv'
  <2> DEFINE c == [NoCall EXCEPT !.pc = "set", !.key = k, !.version = v,
                                 !.hash = file[k], !.source = TRUE]
  <2>1. WellFormed(c) /\ c.changed = FALSE
    BY <1>0, <1>b DEF WellFormed, NoCall, Field, CallPC
  <2> HIDE DEF c
  <2>2. QED  BY <1>1, <2>1, BeginKeepsLabels DEF PublishFile, c
<1>2. ASSUME NEW t \in Thread, NEW k \in Key, NEW v \in Version, NEW h \in Hash,
             PublishBytes(t, k, v, h)
      PROVE  LabelInv'
  <2> DEFINE c == [NoCall EXCEPT !.pc = "set", !.key = k, !.version = v,
                                 !.hash = h]
  <2>1. WellFormed(c) /\ c.changed = FALSE
    BY <1>0 DEF WellFormed, NoCall, Field, CallPC
  <2> HIDE DEF c
  <2>2. QED  BY <1>2, <2>1, BeginKeepsLabels DEF PublishBytes, c
<1>3. ASSUME NEW t \in Thread, NEW k \in Key, Republish(t, k)
      PROVE  LabelInv'
  <2>1. artifacts[k].version \in Version
    BY <1>3 DEF Republish, Registered, LabelInv, RequestInv, HistoryInv, Dated, State,
       Memory, Artifact
  <2>2. WellFormed(Reload(k)) /\ Reload(k).changed = FALSE
    BY <1>0, <2>1 DEF Reload, WellFormed, NoCall, Field, CallPC
  <2>3. QED  BY <1>3, <2>2, BeginKeepsLabels DEF Republish
<1>4. ASSUME NEW t \in Thread, ReadSource(t)
      PROVE  LabelInv'
  <2> DEFINE c == [call[t] EXCEPT !.pc = "set", !.hash = file[call[t].key]]
  <2>1. call[t].pc = "read" /\ ~call[t].changed /\ call' = [call EXCEPT ![t] = c]
    BY <1>4 DEF ReadSource, LabelInv
  <2>2. c.changed = FALSE
    BY <1>a, <2>1 DEF WellFormed, Field
  <2> HIDE DEF c
  <2>3. QED  BY <1>4, <2>1, <2>2, MoveKeepsLabels DEF ReadSource, bounds
<1>5. ASSUME NEW t \in Thread, setTarget(t)
      PROVE  LabelInv'
  <2> DEFINE old == call[t]
             c == [NoCall EXCEPT
                !.pc = "snapshot", !.alone = old.alone,
                !.changed = Changes(old.key, old.version, old.hash)]
  <2>1. /\ old.pc = "set" /\ ~old.changed
        /\ call' = [call EXCEPT ![t] = c]
        /\ Publish(old.key, old.version, old.hash, old.source)
    BY <1>5 DEF setTarget, LabelInv
  <2>2. c.pc = "snapshot" /\ c.changed = Changes(old.key, old.version, old.hash)
    BY DEF NoCall
  <2> HIDE DEF c, old
  <2>3. ASSUME ~Changes(old.key, old.version, old.hash), MemoIsCurrent
        PROVE  MemoIsCurrent'
    <3>1. /\ old.key \in Registered
          /\ artifacts[old.key].hash = old.hash
          /\ artifacts[old.key].version = old.version
      BY <2>3 DEF Changes
    <3>2. /\ DOMAIN artifacts' = Registered
          /\ \A j \in Registered : j # old.key => artifacts'[j] = artifacts[j]
          /\ artifacts'[old.key] = Updated(old.key, old.version, old.hash, old.source)
      BY <2>1, <3>1 DEF Publish
    <3>3. /\ artifacts'[old.key].hash = old.hash
          /\ artifacts'[old.key].version = old.version
      BY <3>1, <3>2 DEF Updated
    <3>4. \A j \in Registered : /\ artifacts'[j].hash = artifacts[j].hash
                               /\ artifacts'[j].version = artifacts[j].version
      BY <3>1, <3>2, <3>3
    <3>5. QED  BY <2>3, <3>2, <3>4 DEF MemoIsCurrent, Current, Registered
  <2>4. QED  BY <1>5, <2>1, <2>2, <2>3, MoveKeepsLabels DEF setTarget, bounds, old
<1>6. ASSUME NEW t \in Thread, NEW k \in Key, SetDefault(t, k) \/ Remove(t, k)
      PROVE  LabelInv'
  <2> DEFINE c == [NoCall EXCEPT !.pc = "snapshot", !.changed = TRUE]
  <2>1. WellFormed(c) /\ c.changed /\ c.pc = "snapshot"
    BY <1>0 DEF WellFormed, NoCall, Field, CallPC
  <2> HIDE DEF c
  <2>2. QED  BY <1>6, <2>1, BeginKeepsLabels DEF SetDefault, Remove, c
<1>7. ASSUME NEW t \in Thread, persist(t)
      PROVE  LabelInv'
  <2> DEFINE c == [call[t] EXCEPT !.pc = "write", !.snap = Memory]
  <2>1. call[t].pc = "snapshot" /\ call' = [call EXCEPT ![t] = c]
    BY <1>7 DEF persist, registryState
  <2>2. c.changed = call[t].changed /\ c.pc = "write"
    BY <1>a DEF WellFormed, Field
  <2> HIDE DEF c
  <2>3. QED  BY <1>7, <2>1, <2>2, MoveKeepsLabels DEF persist, bounds
<1>8. ASSUME NEW t \in Thread, WriteState(t)
      PROVE  LabelInv'
  <2> DEFINE c == IF call[t].changed THEN [NoCall EXCEPT !.pc = "notify"]
                  ELSE NoCall
  <2>1. call[t].pc = "write" /\ call' = [call EXCEPT ![t] = c]
    BY <1>8 DEF WriteState
  <2>2. c.changed = FALSE /\ (call[t].changed => c.pc = "notify")
    BY DEF NoCall
  <2> HIDE DEF c
  <2>3. QED  BY <1>8, <2>1, <2>2, MoveKeepsLabels DEF WriteState
<1>9. CASE ReconcileConfig
  <2>1. UNCHANGED call /\ cache = {} /\ Quiet /\ UNCHANGED <<cache, request>>
    BY <1>9 DEF ReconcileConfig, LabelInv
  <2>2. (\A h \in Handler : request'[h].pc = "idle") /\ Quiet' /\ MemoIsCurrent'
    BY <1>9, <2>1 DEF ReconcileConfig, LabelInv, Quiet, MemoIsCurrent
  <2>3. QED  BY <2>1, <2>2 DEF LabelInv
<1>10. ASSUME NEW k \in Key, NEW h \in Hash, EditSource(k, h)
       PROVE  LabelInv'
  <2>1. UNCHANGED <<artifacts, call, booted, cache, request>>
    BY <1>10 DEF EditSource, memory
  <2>2. QED
    BY <2>1 DEF LabelInv, Ready, Quiet, Pending, MemoIsCurrent, Current, Registered
<1>11. QED
  BY <1>1, <1>2, <1>3, <1>4, <1>5, <1>6, <1>7, <1>8, <1>9, <1>10 DEF RegStep

LEMMA LabelInit == Init => LabelInv
<1> SUFFICES ASSUME Init  PROVE LabelInv
  OBVIOUS
<1>1. cache = {} /\ \A h \in Handler : request[h].pc = "idle"
  BY DEF Init, NoRequest
<1>2. \A t \in Thread : call[t].pc = "idle" /\ call[t].changed = FALSE
  BY DEF Init, RegInit, NoCall
<1>3. QED  BY <1>1, <1>2, RequestInit DEF LabelInv, Quiet, MemoIsCurrent

LEMMA LabelStep == LabelInv /\ [Next]_vars => LabelInv'
<1> SUFFICES ASSUME LabelInv, [Next]_vars  PROVE LabelInv'
  OBVIOUS
<1>0. RequestInv'
  BY RequestStep DEF LabelInv
<1>1. CASE RegStep /\ UNCHANGED manVars
  BY <1>0, <1>1, RegistryKeepsLabels
<1>2. ASSUME NEW t \in Thread, InvalidateArtifact(t)  PROVE LabelInv'
  <2>1. /\ call[t].pc = "notify" /\ call' = [call EXCEPT ![t] = NoCall]
        /\ cache' = {} /\ UNCHANGED <<booted, request>>
    BY <1>2 DEF InvalidateArtifact, OnChange, bounds
  <2>2. \A u \in Thread : call'[u].changed => call'[u].pc \in {"snapshot", "write"}
    BY <2>1 DEF NoCall, LabelInv, RequestInv, HistoryInv, CallsWellFormed
  <2>3. Ready' /\ MemoIsCurrent'
    BY <2>1 DEF LabelInv, Quiet, Ready, MemoIsCurrent
  <2>4. QED  BY <1>0, <2>2, <2>3 DEF LabelInv
<1>3. CASE RestartServer
  <2>1. cache' = {} /\ \A h \in Handler : request'[h].pc = "idle"
    BY <1>3 DEF RestartServer, NoRequest
  <2>2. \A t \in Thread : call'[t].pc = "idle" /\ call'[t].changed = FALSE
    BY <1>3 DEF RestartServer, Restart, Loaded, NoCall
  <2>3. QED  BY <1>0, <2>1, <2>2 DEF LabelInv, Quiet, MemoIsCurrent
\* A handler changes the registry in nothing, and works only when it is ready.
<1>4. ASSUME UNCHANGED regVars, Ready,
             cache' \subseteq cache \/ (MemoIsCurrent => MemoIsCurrent')
      PROVE  LabelInv'
  <2>1. UNCHANGED <<artifacts, call, booted>>
    BY <1>4 DEF regVars, memory
  <2>2. Ready' /\ (Pending => Pending')
    BY <1>4, <2>1 DEF Ready, Pending
  <2>3. MemoIsCurrent => MemoIsCurrent'
    BY <1>4, <2>1 DEF MemoIsCurrent, Current, Registered
  <2>4. QED  BY <1>0, <2>1, <2>2, <2>3 DEF LabelInv
<1>5. ASSUME NEW h \in Handler, NEW name \in Key \cup {None}, NEW running \in Hash,
             NothingToOffer(h, name, running)
      PROVE  LabelInv'
  BY <1>4, <1>5 DEF NothingToOffer
<1>6. ASSUME NEW h \in Handler, NEW name \in Key \cup {None}, NEW running \in Hash,
             NEW d \in BOOLEAN, Resolve(h, name, running, d)
      PROVE  LabelInv'
  BY <1>4, <1>6 DEF Resolve
<1>7. ASSUME NEW h \in Handler, CacheHit(h) \/ CacheMiss(h) \/ NotServed(h)
      PROVE  LabelInv'
  <2>1. request[h].pc # "idle"
    BY <1>7 DEF CacheHit, CacheMiss, NotServed
  <2>2. QED  BY <1>4, <1>7, <2>1 DEF LabelInv, CacheHit, CacheMiss, NotServed
<1>8. ASSUME NEW h \in Handler, memoize(h)  PROVE LabelInv'
  <2> DEFINE r == request[h]
             moved == ~Known(r.key) \/ TargetOf(artifacts[r.key]) # r.art
             m == [r.answer EXCEPT !.late = moved]
  <2>1. r.pc = "building" /\ cache' \in Memoized(m) /\ UNCHANGED regVars
    BY <1>8 DEF memoize
  <2>2. /\ RequestOK(r) /\ MemoOK /\ Ready
    BY <2>1 DEF LabelInv, RequestInv
  <2>3. /\ m \in Manifest /\ m.late = moved
        /\ m.key = r.key /\ m.hash = r.art.hash /\ m.version = r.art.version
    BY <2>1, <2>2 DEF RequestOK, Manifest, Known
  <2>4. Current(m)
    <3>1. CASE moved
      BY <2>3, <3>1 DEF Current
    <3>2. CASE ~moved
      <4>1. r.art.version = artifacts[r.key].version
        BY <3>2 DEF TargetOf
      <4>2. QED  BY <2>3, <4>1 DEF Current
    <3>3. QED  BY <3>1, <3>2
  <2> HIDE DEF m, r
  <2>5. cache' \subseteq cache \cup {m}
    BY <2>1, <2>2, <2>3, MemoizedIsOK
  <2>6. UNCHANGED artifacts
    BY <2>1 DEF regVars, memory
  <2>7. MemoIsCurrent => MemoIsCurrent'
    BY <2>4, <2>5, <2>6 DEF MemoIsCurrent, Current, Registered
  <2>8. QED  BY <1>4, <2>1, <2>2, <2>7
<1>9. CASE UNCHANGED vars
  BY <1>0, <1>9 DEF vars, manVars, regVars, memory, LabelInv, Ready, Quiet, Pending,
     MemoIsCurrent, Current, Registered
<1>10. QED
  BY <1>1, <1>2, <1>3, <1>5, <1>6, <1>7, <1>8, <1>9 DEF Next

\* Once the publications in flight have notified, the memo holds no superseded
\* label of a current target, except entries whose heartbeat resolved before the
\* change and memoized after it (Manifester.InvalidateArtifact, memoize).
THEOREM LabelsStayCurrent == Spec => []LabelsAreCurrent
<1>1. LabelInv => LabelsAreCurrent
  <2>1. LabelInv /\ Quiet => ~Pending
    BY DEF LabelInv, Quiet, Pending
  <2>2. QED  BY <2>1 DEF LabelInv, LabelsAreCurrent, MemoIsCurrent, Current
<1>2. QED  BY <1>1, LabelInit, LabelStep, PTL DEF Spec
=============================================================================

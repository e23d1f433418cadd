----------------------------- MODULE StoreProofs ----------------------------
(***************************************************************************)
(* Three things hold whatever devices, hashes, budgets and histories there *)
(* are: the sweeper takes no bytes that the registry names or is about to  *)
(* name, the caches and generations keep to their budgets, and no device   *)
(* is told to wait for a delta that nobody generates.                      *)
(*                                                                         *)
(* The sweeper decides by a snapshot, so the invariant has to say of every *)
(* hash that is named now why the snapshot of the running sweep does not   *)
(* condemn it: it was named then, or its file is younger than the sweep.   *)
(***************************************************************************)
EXTENDS Store, FiniteSetTheorems, TLAPS

LEMMA CapRange ==
    ASSUME NEW s \in Seq(Hash)
    PROVE  Cap(s) \in Seq(Hash) /\ Range(Cap(s)) \subseteq Range(s)
BY HistoryAssumption DEF Cap, Range

LEMMA ConcatRange ==
    ASSUME NEW a \in Seq(Hash), NEW b \in Seq(Hash), NEW S,
           Range(a) \subseteq S, Range(b) \subseteq S
    PROVE  a \o b \in Seq(Hash) /\ Range(a \o b) \subseteq S
<1>1. a \o b \in Seq(Hash) /\ DOMAIN (a \o b) = 1..(Len(a) + Len(b))
  OBVIOUS
<1>2. ASSUME NEW i \in 1..(Len(a) + Len(b))  PROVE (a \o b)[i] \in S
  <2>1. CASE i <= Len(a)
    <3>1. i \in DOMAIN a /\ (a \o b)[i] = a[i]
      BY <1>2, <2>1
    <3>2. QED  BY <3>1 DEF Range
  <2>2. CASE i > Len(a)
    <3>1. i - Len(a) \in DOMAIN b /\ (a \o b)[i] = b[i - Len(a)]
      BY <1>2, <2>2
    <3>2. QED  BY <3>1 DEF Range
  <2>3. QED  BY <1>2, <2>1, <2>2
<1>3. QED  BY <1>1, <1>2 DEF Range

LEMMA SubSeqRange ==
    ASSUME NEW s \in Seq(Hash), NEW m \in 1..(Len(s) + 1), NEW n \in 0..Len(s)
    PROVE  SubSeq(s, m, n) \in Seq(Hash) /\ Range(SubSeq(s, m, n)) \subseteq Range(s)
<1> DEFINE part == SubSeq(s, m, n)
<1>1. part \in Seq(Hash) /\ \A i \in DOMAIN part : part[i] = s[m + i - 1] /\ m + i - 1 \in DOMAIN s
  OBVIOUS
<1> HIDE DEF part
<1>2. Range(part) \subseteq Range(s)
  BY <1>1 DEF Range
<1>3. QED  BY <1>1, <1>2 DEF part

LEMMA WithoutRange ==
    ASSUME NEW s \in Seq(Hash), NEW h
    PROVE  Without(s, h) \in Seq(Hash) /\ Range(Without(s, h)) \subseteq Range(s)
<1>1. CASE ~ \E i \in DOMAIN s : s[i] = h
  BY <1>1 DEF Without
<1>2. CASE \E i \in DOMAIN s : s[i] = h
  <2>1. PICK i \in DOMAIN s : Without(s, h) =
               SubSeq(s, 1, i - 1) \o SubSeq(s, i + 1, Len(s))
    BY <1>2 DEF Without
  <2>2. /\ SubSeq(s, 1, i - 1) \in Seq(Hash)
        /\ Range(SubSeq(s, 1, i - 1)) \subseteq Range(s)
    <3>1. 1 \in 1..(Len(s) + 1) /\ i - 1 \in 0..Len(s)
      OBVIOUS
    <3>2. QED  BY <3>1, SubSeqRange
  <2>3. /\ SubSeq(s, i + 1, Len(s)) \in Seq(Hash)
        /\ Range(SubSeq(s, i + 1, Len(s))) \subseteq Range(s)
    <3>1. i + 1 \in 1..(Len(s) + 1) /\ Len(s) \in 0..Len(s)
      OBVIOUS
    <3>2. QED  BY <3>1, SubSeqRange
  <2>4. QED  BY <2>1, <2>2, <2>3, ConcatRange
<1>3. QED  BY <1>1, <1>2

\* A history names nothing but what it named, and the hash pushed on it.
LEMMA PushedRange ==
    ASSUME NEW s \in Seq(Hash), NEW h \in Hash
    PROVE  Pushed(s, h) \in Seq(Hash) /\ Range(Pushed(s, h)) \subseteq Range(s) \cup {h}
<1>1. Without(s, h) \in Seq(Hash) /\ Range(Without(s, h)) \subseteq Range(s)
  BY WithoutRange
<1>2. ASSUME NEW w \in Seq(Hash), Range(w) \subseteq Range(s)
      PROVE  /\ <<h>> \o w \in Seq(Hash)
             /\ Range(<<h>> \o w) \subseteq Range(s) \cup {h}
  <2>1. <<h>> \o w \in Seq(Hash) /\ Len(<<h>> \o w) = 1 + Len(w)
    OBVIOUS
  <2>2. \A i \in 1..(1 + Len(w)) :
            (<<h>> \o w)[i] = IF i = 1 THEN h ELSE w[i - 1]
    OBVIOUS
  <2>3. \A i \in 2..(1 + Len(w)) : i - 1 \in DOMAIN w
    OBVIOUS
  <2>4. ASSUME NEW i \in DOMAIN (<<h>> \o w)
        PROVE  (<<h>> \o w)[i] \in Range(s) \cup {h}
    <3>1. i \in 1..(1 + Len(w))
      BY <2>1, <2>4
    <3>2. CASE i = 1
      BY <2>2, <3>1, <3>2
    <3>3. CASE i # 1
      <4>1. i - 1 \in DOMAIN w /\ (<<h>> \o w)[i] = w[i - 1]
        BY <2>2, <2>3, <3>1, <3>3
      <4>2. QED  BY <1>2, <4>1 DEF Range
    <3>4. QED  BY <3>2, <3>3
  <2>5. QED  BY <2>1, <2>4 DEF Range
<1>3. QED  BY <1>1, <1>2, CapRange DEF Pushed

-----------------------------------------------------------------------------
(* The invariant.                                                          *)

Shape ==
    /\ binary \in [Hash -> {"absent", "young", "old"}]
    /\ publishing \in Hash \cup {None}
    /\ target \in Hash \cup {None}
    /\ history \in Seq(Hash)
    /\ DOMAIN sweep = {"pc", "live", "current", "listed", "found", "deleted"}

\* What the registry names, or a publication is about to make it name.
Named == Live \cup ({publishing} \ {None})

\* A binary about to be named was stored a moment ago, or is named already.
JustStored ==
    \A h \in Hash \ revived : h = publishing /\ h \notin Live => binary[h] = "young"

\* The running sweep knows what is named, or what it does not know is too young
\* for it.
SweepSpares ==
    sweep.pc # "idle" =>
        \A h \in Named \ revived : h \in sweep.live \/ binary[h] = "young"

NamedIsStored == \A h \in Named \ revived : Stored(h)

GraceInv == Shape /\ JustStored /\ SweepSpares /\ NamedIsStored

\* Steps of devices and generations, and the expiry of misses, are none of the
\* invariant's business.
Kept == UNCHANGED <<binary, target, history, publishing, sweep, revived>>

LEMMA KeptIsInvariant == GraceInv /\ Kept => GraceInv'
BY DEF GraceInv, Kept, Shape, JustStored, SweepSpares, NamedIsStored, Named,
       Live, Stored

LEMMA LiveIsHash == Shape => Live \subseteq Hash /\ Named \subseteq Hash
BY DEF Shape, Live, Named

-----------------------------------------------------------------------------
LEMMA GraceInit == Init => GraceInv
BY StoreAssumption
   DEF Init, GraceInv, Shape, JustStored, SweepSpares, NamedIsStored, Named,
       Live, Stored, NoSweep

LEMMA RegisterKeeps ==
    ASSUME GraceInv, NEW h \in Hash, RegisterBinary(h)
    PROVE  GraceInv'
<1> USE DEF GraceInv, Shape
<1>1. /\ binary' = [binary EXCEPT ![h] = IF Stored(h) THEN @ ELSE "young"]
      /\ publishing = None /\ publishing' = h
      /\ UNCHANGED <<target, history, sweep>>
      /\ revived' = IF ~Stored(h) THEN revived \ {h}
                    ELSE IF binary[h] = "old" /\ h \notin Live
                    THEN revived \cup {h} ELSE revived
  BY DEF RegisterBinary, registry
<1>2. Shape'
  BY <1>1 DEF Stored
<1>3. Live' = Live /\ Named' = Named \cup {h} /\ Named = Live
  BY <1>1, StoreAssumption DEF Live, Named
<1>4. ASSUME NEW g \in Hash, g # h
      PROVE  binary'[g] = binary[g] /\ (g \in revived' <=> g \in revived)
  BY <1>1, <1>4
<1>5. Stored(h)'
  BY <1>1 DEF Stored
<1>6. h \notin revived' => binary'[h] = "young"
                          \/ (h \in Live \ revived /\ binary'[h] = binary[h])
  BY <1>1 DEF Stored
<1>7. Live \subseteq Hash
  BY LiveIsHash
<1>8. JustStored'
  BY <1>1, <1>3, <1>6 DEF JustStored
<1>9. SweepSpares'
  BY <1>1, <1>3, <1>4, <1>6, <1>7 DEF SweepSpares
<1>10. NamedIsStored'
  <2>1. ASSUME NEW g \in Named' \ revived', g # h  PROVE Stored(g)'
    BY <1>3, <1>4, <1>7, <2>1 DEF NamedIsStored, Stored
  <2>2. QED  BY <1>5, <2>1 DEF NamedIsStored
<1>11. QED  BY <1>2, <1>8, <1>9, <1>10

LEMMA setTargetKeeps ==
    ASSUME GraceInv, setTarget
    PROVE  GraceInv'
<1> USE DEF GraceInv
<1>1. /\ publishing \in Hash /\ target' = publishing /\ publishing' = None
      /\ UNCHANGED <<binary, sweep, revived>>
  BY DEF setTarget, disk, Shape
<1>2. history' \in Seq(Hash) /\ Range(history') \subseteq Range(history) \cup ({target} \ {None})
  <2>1. CASE target \in {None, publishing}
    BY <2>1 DEF setTarget, Shape
  <2>2. CASE target \notin {None, publishing}
    BY <2>2, PushedRange DEF setTarget, Shape
  <2>3. QED  BY <2>1, <2>2
<1>3. Shape'
  BY <1>1, <1>2 DEF Shape
<1>4. Named' \subseteq Named
  BY <1>1, <1>2, StoreAssumption DEF Named, Live, Range
<1>5. JustStored'
  BY <1>1, StoreAssumption DEF JustStored
<1>6. SweepSpares' /\ NamedIsStored'
  BY <1>1, <1>4 DEF SweepSpares, NamedIsStored, Stored
<1>7. QED  BY <1>3, <1>5, <1>6

LEMMA GrowOldKeeps ==
    ASSUME GraceInv, NEW h \in Hash, GrowOld(h)
    PROVE  GraceInv'
<1>1. /\ binary[h] = "young" /\ binary' = [binary EXCEPT ![h] = "old"]
      /\ publishing = None /\ sweep.pc = "idle"
      /\ UNCHANGED <<target, history, publishing, sweep, revived>>
  BY DEF GrowOld, registry
<1>2. \A g \in Hash : Stored(g)' <=> Stored(g)
  BY <1>1 DEF GraceInv, Shape, Stored
<1>3. Named' = Named /\ Named \subseteq Hash
  BY <1>1, LiveIsHash DEF Named, Live, GraceInv
<1>4. QED
  BY <1>1, <1>2, <1>3, StoreAssumption
     DEF GraceInv, Shape, JustStored, SweepSpares, NamedIsStored

LEMMA BeginSweepKeeps ==
    ASSUME GraceInv, BeginSweep
    PROVE  GraceInv'
<1>1. /\ sweep' = [NoSweep EXCEPT !.pc = "deltas", !.live = Live,
                      !.current = {target} \ {None}, !.listed = transfers]
      /\ UNCHANGED <<binary, target, history, publishing, revived>>
  BY DEF BeginSweep, disk, registry
<1>2. sweep'.live = Live /\ DOMAIN sweep' = {"pc", "live", "current", "listed", "found", "deleted"}
  BY <1>1 DEF NoSweep
<1>3. Live' = Live /\ Named' = Named /\ Named \subseteq Hash
  BY <1>1, LiveIsHash DEF Named, Live, GraceInv
<1>4. SweepSpares'
  BY <1>1, <1>2, <1>3 DEF SweepSpares, GraceInv, JustStored, Named
<1>5. QED
  BY <1>1, <1>2, <1>3, <1>4
     DEF GraceInv, Shape, JustStored, NamedIsStored, Stored

LEMMA SweepStepKeeps ==
    ASSUME GraceInv, SweepStep
    PROVE  GraceInv'
<1> USE DEF GraceInv, Shape
<1>1. ASSUME UNCHANGED <<binary, target, history, publishing, revived>>,
             DOMAIN sweep' = DOMAIN sweep,
             sweep'.pc = "idle" \/ (sweep.pc # "idle" /\ sweep'.live = sweep.live)
      PROVE  GraceInv'
  <2>1. Live' = Live /\ Named' = Named
    BY <1>1 DEF Live, Named
  <2>2. QED
    BY <1>1, <2>1 DEF JustStored, SweepSpares, NamedIsStored, Stored
<1>2. ASSUME NEW d \in Transfer, SweepTransfer(d)  PROVE GraceInv'
  <2>1. /\ \/ sweep' = [sweep EXCEPT !.listed = @ \ {d}, !.deleted = TRUE]
           \/ sweep' = [sweep EXCEPT !.listed = @ \ {d}]
        /\ sweep.pc = "deltas"
        /\ UNCHANGED <<binary, target, history, publishing, revived>>
    BY <1>2 DEF SweepTransfer, registry
  <2>2. QED  BY <1>1, <2>1
<1>3. ASSUME SweepBinaries  PROVE GraceInv'
  <2>1. /\ sweep' = [sweep EXCEPT !.pc = "binaries", !.listed = {},
                                   !.found = {h \in Hash : Stored(h)}]
        /\ sweep.pc = "deltas"
        /\ UNCHANGED <<binary, target, history, publishing, revived>>
    BY <1>3 DEF SweepBinaries, disk, registry
  <2>2. QED  BY <1>1, <2>1
<1>4. ASSUME NEW h \in Hash, SweepBinary(h)  PROVE GraceInv'
  <2> DEFINE left == sweep.found \ {h}
  <2>1. CASE /\ sweep' = [sweep EXCEPT !.found = left] /\ UNCHANGED binary
    BY <1>1, <1>4, <2>1 DEF SweepBinary, registry
  <2>2. CASE /\ sweep' = [sweep EXCEPT !.found = left, !.deleted = TRUE]
             /\ binary' = [binary EXCEPT ![h] = "absent"]
    <3>1. /\ sweep.pc = "binaries" /\ binary[h] = "old" /\ h \notin sweep.live
          /\ UNCHANGED <<target, history, publishing, revived>>
      BY <1>4 DEF SweepBinary, Collectable, registry
    <3>2. h \notin Named \ revived
      BY <3>1 DEF SweepSpares
    <3>3. Live' = Live /\ Named' = Named /\ Named \subseteq Hash
      BY <3>1, LiveIsHash DEF Live, Named
    <3>4. \A g \in Named \ revived : binary'[g] = binary[g]
      BY <2>2, <3>2, <3>3
    <3>5. Shape' /\ sweep'.live = sweep.live
      BY <2>2, <3>1
    <3>6. JustStored'
      BY <2>2, <3>1, <3>3, <3>4, StoreAssumption DEF JustStored, Named
    <3>7. SweepSpares' /\ NamedIsStored'
      BY <3>1, <3>3, <3>4, <3>5 DEF SweepSpares, NamedIsStored, Stored
    <3>8. QED  BY <3>5, <3>6, <3>7
  <2>3. QED  BY <1>4, <2>1, <2>2 DEF SweepBinary
<1>5. ASSUME EndSweep \/ AbortSweep  PROVE GraceInv'
  <2>1. sweep' = NoSweep /\ UNCHANGED <<binary, target, history, publishing, revived>>
    BY <1>5 DEF EndSweep, AbortSweep, disk, registry
  <2>2. QED  BY <1>1, <2>1 DEF NoSweep
<1>6. QED  BY <1>2, <1>3, <1>4, <1>5 DEF SweepStep

LEMMA RestartKeeps ==
    ASSUME GraceInv, Restart
    PROVE  GraceInv'
<1>1. /\ publishing' = None /\ sweep' = NoSweep
      /\ UNCHANGED <<binary, target, history, revived>>
  BY DEF Restart, disk, registry
<1>2. Live' = Live /\ Named' \subseteq Named
  BY <1>1 DEF Live, Named
<1>3. QED
  BY <1>1, <1>2, StoreAssumption
     DEF GraceInv, Shape, JustStored, SweepSpares, NamedIsStored, Stored, NoSweep

LEMMA DeviceKeeps ==
    ASSUME NEW dev \in Device, DeviceStep(dev)
    PROVE  Kept
BY DEF DeviceStep, Heartbeat, LookUpSource, RecordMiss, Memoized, NotFound,
       FromHot, FromDisk, putHot, NotYet, Pack, WriteFull, PackFails, Kept, disk,
       registry

LEMMA GenerateKeeps ==
    ASSUME NEW d \in Pair, Generate(d)
    PROVE  Kept
BY DEF Generate, TakeSlot, WriteDelta, GenerationFails, CacheDelta, Kept, disk,
       registry

LEMMA GraceStep == GraceInv /\ [Next]_vars => GraceInv'
<1> SUFFICES ASSUME GraceInv, [Next]_vars  PROVE GraceInv'
  OBVIOUS
<1>1. ASSUME NEW h \in Hash, ExpireMiss(h)  PROVE GraceInv'
  BY <1>1, KeptIsInvariant DEF ExpireMiss, Kept, disk, registry
<1>2. ASSUME NEW dev \in Device, DeviceStep(dev)  PROVE GraceInv'
  BY <1>2, DeviceKeeps, KeptIsInvariant
<1>3. ASSUME NEW d \in Pair, Generate(d)  PROVE GraceInv'
  BY <1>3, GenerateKeeps, KeptIsInvariant
<1>4. ASSUME UNCHANGED vars  PROVE GraceInv'
  BY <1>4, KeptIsInvariant DEF vars, Kept, disk, registry
<1>5. QED
  BY <1>1, <1>2, <1>3, <1>4, RegisterKeeps, setTargetKeeps, GrowOldKeeps,
     BeginSweepKeeps, SweepStepKeeps, RestartKeeps DEF Next

\* A sweep, wherever it lands between the steps of publications, takes no bytes
\* of a target or of the history, unless they are an old orphan's that was
\* published again (Retention.sweepBinaries, Store.RegisterBinary).
THEOREM GraceProtects == Spec => []LiveIsStored
<1>1. GraceInv => LiveIsStored
  BY DEF GraceInv, NamedIsStored, Named, LiveIsStored
<1>2. QED  BY <1>1, GraceInit, GraceStep, PTL DEF Spec

\* No publication finds an orphan on disk that is older than the grace period.
FindsNoOldOrphan ==
    \A h \in Hash : RegisterBinary(h) => binary[h] # "old" \/ h \in Live

\* That is the only way to a target without bytes: as long as nobody publishes
\* an old orphan again, every target is in the store (Store.RegisterBinary).
THEOREM OnlyOldOrphansVanish ==
    Spec /\ [][FindsNoOldOrphan]_vars => []TargetIsStored
<1>1. Init => GraceInv /\ revived = {}
  BY GraceInit DEF Init
<1>2. (GraceInv /\ revived = {}) /\ [Next]_vars /\ [FindsNoOldOrphan]_vars
      => (GraceInv /\ revived = {})'
  <2> SUFFICES ASSUME GraceInv, revived = {}, [Next]_vars,
                      [FindsNoOldOrphan]_vars
               PROVE  revived' = {}
    BY GraceStep
  <2>1. CASE UNCHANGED revived
    BY <2>1
  <2>2. ASSUME NEW h \in Hash, RegisterBinary(h), ~UNCHANGED revived
        PROVE  FALSE
    <3>1. binary[h] # "old" \/ h \in Live
      BY <2>2 DEF FindsNoOldOrphan, vars
    <3>2. QED  BY <2>2, <3>1 DEF RegisterBinary
  <2>3. CASE \E h \in Hash : GrowOld(h) \/ ExpireMiss(h)
    BY <2>3 DEF GrowOld, ExpireMiss
  <2>4. ASSUME NEW dev \in Device, DeviceStep(dev)  PROVE UNCHANGED revived
    BY <2>4, DeviceKeeps DEF Kept
  <2>5. ASSUME NEW d \in Pair, Generate(d)  PROVE UNCHANGED revived
    BY <2>5, GenerateKeeps DEF Kept
  <2>6. CASE setTarget \/ BeginSweep \/ Restart \/ UNCHANGED vars
    BY <2>6 DEF setTarget, BeginSweep, Restart, vars
  <2>7. CASE SweepStep
    BY <2>7 DEF SweepStep, SweepTransfer, SweepBinaries, SweepBinary, EndSweep,
                AbortSweep
  <2>8. QED
    BY <2>1, <2>2, <2>3, <2>4, <2>5, <2>6, <2>7 DEF Next
<1>3. GraceInv /\ revived = {} => TargetIsStored
  BY DEF GraceInv, NamedIsStored, Named, Live, TargetIsStored
<1>4. QED  BY <1>1, <1>2, <1>3, PTL DEF Spec

-----------------------------------------------------------------------------
(* Types and budgets.                                                      *)

\* What a device's request knows, by how far it has come.
RequestTyped(r, version) ==
    /\ r \in Request
    /\ r.pc # "idle" => r.to \in Hash
    /\ r.pc = "resolved" => r.to # version
    /\ r.pc \notin {"idle", "resolved"} => <<r.from, r.to>> \in Transfer

DiskTyped ==
    /\ binary \in [Hash -> {"absent", "young", "old"}]
    /\ transfers \subseteq Transfer
    /\ resident \subseteq Hash /\ Cardinality(resident) <= 1
    /\ missed \subseteq Hash
    /\ memo \subseteq Transfer
    /\ publishing \in Hash \cup {None}
    /\ revived \subseteq Hash
    /\ events \in Nat

HotTyped ==
    /\ hot \subseteq Transfer
    /\ IsFiniteSet(hot) /\ Cardinality(hot) <= HotSize

TasksTyped ==
    /\ task \in [Pair -> {"none", "dispatched", "working", "written"}]
    /\ IsFiniteSet(Working) /\ Cardinality(Working) <= Slots

RegistryTyped ==
    /\ target \in Hash \cup {None}
    /\ history \in Seq(Hash) /\ Len(history) <= HistoryDepth

SweepTyped ==
    sweep \in [pc : {"idle", "deltas", "binaries"}, live : SUBSET Hash,
               current : SUBSET Hash, listed : SUBSET Transfer,
               found : SUBSET Hash, deleted : BOOLEAN]

DevicesTyped ==
    /\ running \in [Device -> Hash]
    /\ request \in [Device -> Request]
    /\ \A dev \in Device : RequestTyped(request[dev], running[dev])

TypeInv == DiskTyped /\ HotTyped /\ TasksTyped /\ RegistryTyped /\ SweepTyped
           /\ DevicesTyped

LEMMA CapLength ==
    ASSUME NEW s \in Seq(Hash)  PROVE Len(Cap(s)) <= HistoryDepth
BY HistoryAssumption DEF Cap

LEMMA PushedLength ==
    ASSUME NEW s \in Seq(Hash), NEW h \in Hash
    PROVE  Len(Pushed(s, h)) <= HistoryDepth
<1>1. Without(s, h) \in Seq(Hash)
  BY WithoutRange
<1>2. ASSUME NEW w \in Seq(Hash)  PROVE <<h>> \o w \in Seq(Hash)
  OBVIOUS
<1>3. QED  BY <1>1, <1>2, CapLength DEF Pushed

\* A transfer that enters the hot cache leaves it within its size.
LEMMA HeatedIsTyped ==
    ASSUME HotTyped, NEW d \in Transfer, hot' \in Heated(d)  PROVE HotTyped'
<1>1. IsFiniteSet(hot \cup {d})
  BY FS_AddElement DEF HotTyped
<1>2. hot' \in SUBSET (hot \cup {d}) /\ Cardinality(hot') <= HotSize
  BY DEF Heated
<1>3. IsFiniteSet(hot')
  BY <1>1, <1>2, FS_Subset
<1>4. QED  BY <1>2, <1>3 DEF HotTyped

\* One generation changes its state; it works after it took a free slot.
LEMMA TaskIsTyped ==
    ASSUME TasksTyped, NEW d \in Pair, NEW st,
           st \in {"none", "dispatched", "working", "written"},
           task' = [task EXCEPT ![d] = st],
           \/ st \in {"none", "dispatched"}
           \/ d \in Working
           \/ Cardinality(Working) < Slots
    PROVE  TasksTyped'
<1>1. task' \in [Pair -> {"none", "dispatched", "working", "written"}]
  BY DEF TasksTyped
<1>2. /\ IsFiniteSet(Working) /\ Cardinality(Working) \in Nat
      /\ Cardinality(Working) <= Slots /\ Slots \in Nat
  BY FS_CardinalityType, StoreAssumption DEF TasksTyped
<1>3. \A p \in Pair : task'[p] = IF p = d THEN st ELSE task[p]
  BY DEF TasksTyped
<1>4. Working' \in SUBSET (Working \cup {d})
  BY <1>3 DEF Working
<1>5. CASE st \in {"none", "dispatched"} \/ d \in Working
  <2>1. Working' \in SUBSET Working
    BY <1>3, <1>5 DEF Working
  <2>2. IsFiniteSet(Working') /\ Cardinality(Working') <= Cardinality(Working)
    BY <1>2, <2>1, FS_Subset
  <2>3. Cardinality(Working') \in Nat
    BY <2>2, FS_CardinalityType
  <2>4. QED  BY <1>1, <1>2, <2>2, <2>3 DEF TasksTyped
<1>6. CASE Cardinality(Working) < Slots
  <2> DEFINE more == Working \cup {d}
  <2>1. IsFiniteSet(more) /\ Cardinality(more) <= Cardinality(Working) + 1
    BY <1>2, FS_AddElement
  <2>2. Cardinality(more) \in Nat /\ Working' \in SUBSET more
    BY <1>4, <2>1, FS_CardinalityType
  <2> HIDE DEF more
  <2>3. IsFiniteSet(Working') /\ Cardinality(Working') <= Cardinality(more)
    BY <2>1, <2>2, FS_Subset
  <2>4. Cardinality(Working') \in Nat
    BY <2>3, FS_CardinalityType
  <2>5. Cardinality(Working') <= Slots
    BY <1>2, <1>6, <2>1, <2>2, <2>3, <2>4
  <2>6. QED  BY <1>1, <2>3, <2>5 DEF TasksTyped
<1>7. QED  BY <1>5, <1>6

LEMMA TasksKept == TasksTyped /\ UNCHANGED task => TasksTyped'
BY DEF TasksTyped, Working

LEMMA IdleIsTyped == \A version : RequestTyped(Idle, version)
BY DEF RequestTyped, Idle, Request

\* A device's answer leaves the others' requests alone.
LEMMA AnswerIsTyped ==
    ASSUME DevicesTyped, NEW dev \in Device, NEW r, NEW v \in Hash,
           Answer(dev, r), running' = [running EXCEPT ![dev] = v],
           RequestTyped(r, v)
    PROVE  DevicesTyped'
<1>1. request' = [request EXCEPT ![dev] = r] /\ r \in Request
  BY DEF Answer, RequestTyped
<1>2. request' \in [Device -> Request] /\ running' \in [Device -> Hash]
  BY <1>1 DEF DevicesTyped
<1>3. ASSUME NEW e \in Device  PROVE RequestTyped(request'[e], running'[e])
  <2>1. CASE e = dev
    BY <1>1, <2>1 DEF DevicesTyped
  <2>2. CASE e # dev
    BY <1>1, <2>2 DEF DevicesTyped
  <2>3. QED  BY <2>1, <2>2
<1>4. QED  BY <1>2, <1>3 DEF DevicesTyped, RequestTyped

LEMMA AnswerKeepsVersion ==
    ASSUME DevicesTyped, NEW dev \in Device, NEW r, Answer(dev, r),
           UNCHANGED running, RequestTyped(r, running[dev])
    PROVE  DevicesTyped'
<1>1. running' = [running EXCEPT ![dev] = running[dev]] /\ running[dev] \in Hash
  BY DEF DevicesTyped
<1>2. QED  BY <1>1, AnswerIsTyped

\* The end of a stage.
LEMMA ServedIsTyped ==
    ASSUME DevicesTyped, NEW dev \in Device, Served(dev),
           request[dev].pc \in {"looked", "read"}, memo \subseteq Transfer
    PROVE  DevicesTyped' /\ memo' \subseteq Transfer
<1> DEFINE r == request[dev]
           next == [r EXCEPT !.pc = "looked", !.stage = "download"]
<1>1. /\ RequestTyped(r, running[dev]) /\ running[dev] \in Hash
      /\ r.to \in Hash /\ <<r.from, r.to>> \in Transfer /\ r \in Request
  BY DEF DevicesTyped, RequestTyped
<1>2. CASE r.stage = "heartbeat"
  <2>1. RequestTyped(next, running[dev])
    BY <1>1 DEF RequestTyped, Request
  <2>2. Answer(dev, next) /\ memo' = memo \cup {<<r.from, r.to>>} /\ UNCHANGED running
    BY <1>2 DEF Served
  <2> HIDE DEF next
  <2>3. QED  BY <1>1, <2>1, <2>2, AnswerKeepsVersion
<1>3. CASE r.stage # "heartbeat"
  <2>1. Answer(dev, Idle) /\ running' = [running EXCEPT ![dev] = r.to] /\ UNCHANGED memo
    BY <1>3 DEF Served
  <2>2. QED  BY <1>1, <2>1, IdleIsTyped, AnswerIsTyped
<1>4. QED  BY <1>2, <1>3

LEMMA TypeInit == Init => TypeInv
<1> SUFFICES ASSUME Init  PROVE TypeInv
  OBVIOUS
<1>1. DiskTyped
  BY FS_EmptySet DEF Init, DiskTyped
<1>2. HotTyped
  BY FS_EmptySet, StoreAssumption DEF Init, HotTyped
<1>3. TasksTyped
  <2>1. task \in [Pair -> {"none", "dispatched", "working", "written"}] /\ Working = {}
    BY DEF Init, Working
  <2>2. QED  BY <2>1, FS_EmptySet, StoreAssumption DEF TasksTyped
<1>4. RegistryTyped
  BY HistoryAssumption DEF Init, RegistryTyped
<1>5. SweepTyped
  BY DEF Init, SweepTyped, NoSweep
<1>6. DevicesTyped
  BY IdleIsTyped DEF Init, DevicesTyped, RequestTyped
<1>7. QED  BY <1>1, <1>2, <1>3, <1>4, <1>5, <1>6 DEF TypeInv

\* Parts that a step leaves alone stay typed.
LEMMA Untouched ==
    /\ DiskTyped /\ UNCHANGED <<disk, resident, missed, memo, publishing, revived,
                                events>> => DiskTyped'
    /\ HotTyped /\ UNCHANGED hot => HotTyped'
    /\ TasksTyped /\ UNCHANGED task => TasksTyped'
    /\ RegistryTyped /\ UNCHANGED registry => RegistryTyped'
    /\ SweepTyped /\ UNCHANGED sweep => SweepTyped'
    /\ DevicesTyped /\ UNCHANGED devices => DevicesTyped'
BY TasksKept DEF DiskTyped, HotTyped, RegistryTyped, SweepTyped, DevicesTyped,
   RequestTyped, disk, registry, devices

LEMMA TypePublication ==
    ASSUME TypeInv, NEW h \in Hash,
           RegisterBinary(h) \/ GrowOld(h) \/ ExpireMiss(h) \/ setTarget
    PROVE  TypeInv'
<1> USE DEF TypeInv
<1>1. CASE RegisterBinary(h)
  <2>1. DiskTyped'
    BY <1>1 DEF RegisterBinary, DiskTyped
  <2>2. QED  BY <1>1, <2>1, Untouched DEF RegisterBinary
<1>2. CASE GrowOld(h)
  <2>1. DiskTyped'
    BY <1>2 DEF GrowOld, DiskTyped, caches
  <2>2. QED  BY <1>2, <2>1, Untouched DEF GrowOld, caches
<1>3. CASE ExpireMiss(h)
  <2>1. DiskTyped'
    BY <1>3 DEF ExpireMiss, DiskTyped, disk
  <2>2. QED  BY <1>3, <2>1, Untouched DEF ExpireMiss
<1>4. CASE setTarget
  <2>1. DiskTyped'
    BY <1>4 DEF setTarget, DiskTyped, disk, caches
  <2>2. RegistryTyped'
    <3>1. target' \in Hash
      BY <1>4 DEF setTarget, DiskTyped
    <3>2. CASE target \in {None, publishing}
      BY <1>4, <3>1, <3>2 DEF setTarget, RegistryTyped
    <3>3. CASE target \notin {None, publishing}
      <4>1. target \in Hash /\ history \in Seq(Hash) /\ history' = Pushed(history, target)
        BY <1>4, <3>3 DEF setTarget, RegistryTyped
      <4>2. QED  BY <3>1, <4>1, PushedRange, PushedLength DEF RegistryTyped
    <3>4. QED  BY <3>2, <3>3
  <2>3. QED  BY <1>4, <2>1, <2>2, Untouched DEF setTarget, caches
<1>5. QED  BY <1>1, <1>2, <1>3, <1>4

LEMMA TypeGeneration ==
    ASSUME TypeInv, NEW d \in Pair, Generate(d)  PROVE TypeInv'
<1> USE DEF TypeInv
<1>0. d \in Transfer /\ d[2] \in Hash
  BY DEF Transfer, Pair
<1>1. CASE TakeSlot(d)
  <2>1. \/ task' = [task EXCEPT ![d] = "none"] /\ UNCHANGED resident
        \/ task' = [task EXCEPT ![d] = "working"] /\ resident' = {d[2]}
    BY <1>1 DEF TakeSlot
  <2>2. TasksTyped'
    BY <1>1, <2>1, TaskIsTyped DEF TakeSlot
  <2>3. DiskTyped'
    <3>1. resident' \subseteq Hash
      BY <1>0, <2>1 DEF DiskTyped
    <3>2. Cardinality(resident') <= 1
      <4>1. CASE resident' = resident
        BY <4>1 DEF DiskTyped
      <4>2. CASE resident' = {d[2]}
        <5>1. Cardinality({d[2]}) = 1
          BY FS_Singleton
        <5>2. QED  BY <4>2, <5>1
      <4>3. QED  BY <2>1, <4>1, <4>2
    <3>3. UNCHANGED <<binary, transfers, missed, memo, publishing, revived, events>>
      BY <1>1 DEF TakeSlot, disk
    <3>4. QED  BY <3>1, <3>2, <3>3 DEF DiskTyped
  <2>4. QED  BY <1>1, <2>2, <2>3, Untouched DEF TakeSlot
<1>2. CASE WriteDelta(d)
  <2>1. d \in Working
    BY <1>2 DEF WriteDelta, Working
  <2>2. TasksTyped'
    BY <1>2, <2>1, TaskIsTyped DEF WriteDelta
  <2>3. DiskTyped'
    BY <1>0, <1>2 DEF WriteDelta, DiskTyped, caches
  <2>4. QED  BY <1>2, <2>2, <2>3, Untouched DEF WriteDelta, caches
<1>3. CASE CacheDelta(d)
  <2>1. TasksTyped'
    BY <1>3, TaskIsTyped DEF CacheDelta
  <2>2. HotTyped'
    BY <1>0, <1>3, HeatedIsTyped DEF CacheDelta
  <2>3. DiskTyped'
    BY <1>3 DEF CacheDelta, DiskTyped, disk
  <2>4. QED  BY <1>3, <2>1, <2>2, <2>3, Untouched DEF CacheDelta
<1>4. CASE GenerationFails(d)
  <2>1. TasksTyped'
    BY <1>4, TaskIsTyped DEF GenerationFails
  <2>2. DiskTyped'
    BY <1>4 DEF GenerationFails, DiskTyped, disk, caches
  <2>3. QED  BY <1>4, <2>1, <2>2, Untouched DEF GenerationFails, caches
<1>5. QED  BY <1>1, <1>2, <1>3, <1>4 DEF Generate

LEMMA TypeSweep ==
    ASSUME TypeInv, BeginSweep \/ SweepStep  PROVE TypeInv'
<1> USE DEF TypeInv
<1>1. CASE BeginSweep
  <2>1. Live \subseteq Hash /\ {target} \ {None} \subseteq Hash
    BY DEF Live, RegistryTyped
  <2>2. SweepTyped'
    BY <1>1, <2>1 DEF BeginSweep, SweepTyped, NoSweep, DiskTyped
  <2>3. DiskTyped'
    BY <1>1 DEF BeginSweep, DiskTyped, disk, caches
  <2>4. QED  BY <1>1, <2>2, <2>3, Untouched DEF BeginSweep, caches
<1>2. ASSUME NEW d \in Transfer, SweepTransfer(d)  PROVE TypeInv'
  <2>1. SweepTyped' /\ DiskTyped'
    BY <1>2 DEF SweepTransfer, SweepTyped, DiskTyped, caches
  <2>2. QED  BY <1>2, <2>1, Untouched DEF SweepTransfer, caches
<1>3. CASE SweepBinaries
  <2>1. SweepTyped' /\ DiskTyped'
    BY <1>3 DEF SweepBinaries, SweepTyped, DiskTyped, caches, disk
  <2>2. QED  BY <1>3, <2>1, Untouched DEF SweepBinaries, caches
<1>4. ASSUME NEW h \in Hash, SweepBinary(h)  PROVE TypeInv'
  <2>1. SweepTyped' /\ DiskTyped'
    BY <1>4 DEF SweepBinary, SweepTyped, DiskTyped, caches
  <2>2. QED  BY <1>4, <2>1, Untouched DEF SweepBinary, caches
<1>5. CASE EndSweep
  <2>1. SweepTyped' /\ DiskTyped'
    BY <1>5 DEF EndSweep, SweepTyped, NoSweep, DiskTyped, disk
  <2>2. HotTyped'
    BY <1>5, FS_EmptySet, StoreAssumption DEF EndSweep, HotTyped
  <2>3. QED  BY <1>5, <2>1, <2>2, Untouched DEF EndSweep
<1>6. CASE AbortSweep
  <2>1. SweepTyped' /\ DiskTyped'
    BY <1>6 DEF AbortSweep, SweepTyped, NoSweep, DiskTyped, disk, caches
  <2>2. QED  BY <1>6, <2>1, Untouched DEF AbortSweep, caches
<1>7. QED  BY <1>1, <1>2, <1>3, <1>4, <1>5, <1>6 DEF SweepStep

LEMMA TypeRestart ==
    ASSUME TypeInv, Restart  PROVE TypeInv'
<1> USE DEF TypeInv
<1>1. DiskTyped'
  <2>1. binary' \in [Hash -> {"absent", "young", "old"}]
    BY DEF Restart, DiskTyped, disk
  <2>2. transfers' \subseteq Transfer /\ revived' \subseteq Hash
    BY DEF Restart, DiskTyped, disk
  <2>3. missed' \subseteq Hash
    BY DEF Restart, RegistryTyped
  <2>4. events' \in Nat
    BY DEF Restart, DiskTyped
  <2>5. QED
    BY <2>1, <2>2, <2>3, <2>4, FS_EmptySet DEF Restart, DiskTyped
<1>2. HotTyped'
  BY FS_EmptySet, StoreAssumption DEF Restart, HotTyped
<1>3. TasksTyped'
  <2>1. task' \in [Pair -> {"none", "dispatched", "working", "written"}] /\ Working' = {}
    BY DEF Restart, Working
  <2>2. QED  BY <2>1, FS_EmptySet, StoreAssumption DEF TasksTyped
<1>4. SweepTyped'
  BY DEF Restart, SweepTyped, NoSweep
<1>5. DevicesTyped'
  BY IdleIsTyped DEF Restart, DevicesTyped, RequestTyped
<1>6. QED  BY <1>1, <1>2, <1>3, <1>4, <1>5, Untouched DEF Restart

\* Where it is the answer alone that changes.
LEMMA AnswerOnly ==
    ASSUME TypeInv, NEW dev \in Device, NEW r, Answer(dev, r),
           RequestTyped(r, running[dev]),
           UNCHANGED <<disk, caches, task, registry, memo, publishing, sweep,
                       running, revived, events>>
    PROVE  TypeInv'
<1>1. DevicesTyped'
  BY AnswerKeepsVersion DEF TypeInv
<1>2. QED  BY <1>1, Untouched DEF TypeInv, caches

LEMMA TypeDevice ==
    ASSUME TypeInv, NEW dev \in Device, DeviceStep(dev)  PROVE TypeInv'
<1> DEFINE r == request[dev]
<1>a. /\ RequestTyped(r, running[dev]) /\ running[dev] \in Hash /\ r \in Request
  BY DEF TypeInv, DevicesTyped
<1>b. r.pc \notin {"idle", "resolved"} => r.to \in Hash /\ <<r.from, r.to>> \in Transfer
  BY <1>a DEF RequestTyped
<1>c. RequestTyped(Idle, running[dev])
  BY IdleIsTyped
<1>1. CASE Heartbeat(dev)
  <2> DEFINE q == [Idle EXCEPT !.pc = "resolved", !.to = target]
  <2>1. target \in Hash
    BY <1>1 DEF Heartbeat, TypeInv, RegistryTyped
  <2>2. RequestTyped(q, running[dev])
    BY <1>1, <2>1 DEF Heartbeat, RequestTyped, Idle, Request
  <2> HIDE DEF q
  <2>3. QED  BY <1>1, <2>2, AnswerOnly DEF Heartbeat, q
<1>2. CASE LookUpSource(dev)
  <2>1. PICK pc \in {"missed", "looked"} :
            Answer(dev, [r EXCEPT !.pc = pc, !.from = Source(dev, r.to),
                                  !.gone = ~Stored(r.to)])
    BY <1>2 DEF LookUpSource
  <2>2. r.pc = "resolved" /\ r.to \in Hash /\ r.to # running[dev]
    BY <1>2, <1>a DEF LookUpSource, RequestTyped
  <2>3. Source(dev, r.to) \in {running[dev], Full}
    BY DEF Source
  <2>4. <<Source(dev, r.to), r.to>> \in Transfer
    BY <1>a, <2>2, <2>3 DEF Transfer, Pair
  <2> DEFINE q == [r EXCEPT !.pc = pc, !.from = Source(dev, r.to),
                            !.gone = ~Stored(r.to)]
  <2>5. RequestTyped(q, running[dev])
    BY <1>a, <2>2, <2>3, <2>4 DEF RequestTyped, Request
  <2> HIDE DEF q
  <2>6. QED  BY <1>2, <2>1, <2>5, AnswerOnly DEF LookUpSource, q
<1>3. CASE RecordMiss(dev)
  <2> DEFINE q == [r EXCEPT !.pc = "looked"]
  <2>1. RequestTyped(q, running[dev])
    BY <1>3, <1>a DEF RecordMiss, RequestTyped, Request
  <2>2. Answer(dev, q)
    BY <1>3 DEF RecordMiss
  <2> HIDE DEF q
  <2>3. DevicesTyped'
    BY <1>3, <2>1, <2>2, AnswerKeepsVersion DEF RecordMiss, TypeInv
  <2>4. DiskTyped'
    BY <1>3, <1>a DEF RecordMiss, TypeInv, DiskTyped, disk
  <2>5. QED  BY <1>3, <2>3, <2>4, Untouched DEF RecordMiss, TypeInv
<1>4. CASE Memoized(dev) \/ FromHot(dev)
  <2>1. /\ Served(dev) /\ r.pc = "looked"
        /\ UNCHANGED <<disk, caches, task, registry, publishing, sweep, revived, events>>
    BY <1>4 DEF Memoized, FromHot, Asks
  <2>2. DevicesTyped' /\ memo' \subseteq Transfer
    BY <2>1, ServedIsTyped DEF TypeInv, DiskTyped
  <2>3. DiskTyped'
    BY <2>1, <2>2 DEF TypeInv, DiskTyped, disk, caches
  <2>4. QED  BY <2>1, <2>2, <2>3, Untouched DEF TypeInv, caches
<1>5. CASE NotFound(dev)
  BY <1>5, <1>c, AnswerOnly DEF NotFound
<1>6. CASE FromDisk(dev)
  <2> DEFINE q == [r EXCEPT !.pc = "read"]
  <2>1. r.pc = "looked" /\ Answer(dev, q)
    BY <1>6 DEF FromDisk, Asks
  <2>2. RequestTyped(q, running[dev])
    BY <2>1, <1>a DEF RequestTyped, Request
  <2> HIDE DEF q
  <2>3. QED  BY <1>6, <2>1, <2>2, AnswerOnly DEF FromDisk
<1>7. CASE putHot(dev)
  <2>1. /\ Served(dev) /\ r.pc = "read" /\ hot' \in Heated(<<r.from, r.to>>)
        /\ UNCHANGED <<disk, resident, missed, task, registry, publishing, sweep,
                       revived, events>>
    BY <1>7 DEF putHot
  <2>2. DevicesTyped' /\ memo' \subseteq Transfer
    BY <2>1, ServedIsTyped DEF TypeInv, DiskTyped
  <2>3. DiskTyped'
    BY <2>1, <2>2 DEF TypeInv, DiskTyped, disk
  <2>4. HotTyped'
    BY <1>b, <2>1, HeatedIsTyped DEF TypeInv
  <2>5. QED  BY <2>1, <2>2, <2>3, <2>4, Untouched DEF TypeInv
<1>8. CASE NotYet(dev)
  <2>1. PICK d \in Pair :
            /\ StartDeltaGeneration(d)
            /\ missed' \in {Remembered({d[1]}), Remembered({d[2]})}
            /\ Answer(dev, Idle)
            /\ UNCHANGED <<disk, hot, resident, registry, memo, publishing, sweep,
                           running, revived, events>>
    BY <1>8 DEF NotYet
  <2>2. d[1] \in Hash /\ d[2] \in Hash
    BY DEF Pair
  <2>3. DiskTyped'
    BY <2>1, <2>2 DEF Remembered, TypeInv, DiskTyped, disk
  <2>4. TasksTyped'
    <3>1. CASE UNCHANGED task
      BY <3>1, TasksKept DEF TypeInv
    <3>2. CASE task' = [task EXCEPT ![d] = "dispatched"]
      BY <3>2, TaskIsTyped DEF TypeInv
    <3>3. QED  BY <2>1, <3>1, <3>2 DEF StartDeltaGeneration
  <2>5. DevicesTyped'
    BY <1>c, <2>1, AnswerKeepsVersion DEF TypeInv
  <2>6. QED  BY <2>1, <2>3, <2>4, <2>5, Untouched DEF TypeInv
<1>9. CASE Pack(dev)
  <2>1. PICK d \in {Full} \X Hash :
            /\ r.pc = "looked"
            /\ \/ Answer(dev, [r EXCEPT !.pc = "packing"])
               \/ Answer(dev, Idle)
            /\ missed' = Remembered({d[2]})
            /\ UNCHANGED <<disk, hot, resident, task, registry, memo, publishing,
                           sweep, running, revived, events>>
    BY <1>9 DEF Pack, Asks
  <2> DEFINE q == [r EXCEPT !.pc = "packing"]
  <2>2. RequestTyped(q, running[dev])
    BY <2>1, <1>a DEF RequestTyped, Request
  <2>3. DevicesTyped'
    <3> HIDE DEF q
    <3>1. CASE Answer(dev, q)
      BY <2>1, <2>2, <3>1, AnswerKeepsVersion DEF TypeInv
    <3>2. CASE Answer(dev, Idle)
      BY <1>c, <2>1, <3>2, AnswerKeepsVersion DEF TypeInv
    <3>3. QED  BY <2>1, <3>1, <3>2 DEF q
  <2>4. DiskTyped'
    BY <2>1 DEF Remembered, TypeInv, DiskTyped, disk
  <2>5. QED  BY <2>1, <2>3, <2>4, Untouched DEF TypeInv
<1>10. CASE WriteFull(dev)
  <2> DEFINE q == [r EXCEPT !.pc = "read"]
  <2>1. r.pc = "packing" /\ Answer(dev, q)
    BY <1>10 DEF WriteFull
  <2>2. RequestTyped(q, running[dev])
    BY <2>1, <1>a DEF RequestTyped, Request
  <2> HIDE DEF q
  <2>3. DevicesTyped'
    BY <1>10, <2>1, <2>2, AnswerKeepsVersion DEF WriteFull, TypeInv
  <2>4. <<Full, r.to>> \in Transfer
    BY <1>b, <2>1 DEF Transfer
  <2>5. DiskTyped'
    BY <1>10, <2>4 DEF WriteFull, TypeInv, DiskTyped, caches
  <2>6. QED  BY <1>10, <2>3, <2>5, Untouched DEF WriteFull, TypeInv, caches
<1>11. CASE PackFails(dev)
  <2>1. DevicesTyped'
    <3>1. Answer(dev, Idle) /\ UNCHANGED running
      BY <1>11 DEF PackFails
    <3>2. QED  BY <3>1, <1>c, AnswerKeepsVersion DEF TypeInv
  <2>2. DiskTyped'
    BY <1>11 DEF PackFails, TypeInv, DiskTyped, disk, caches
  <2>3. QED  BY <1>11, <2>1, <2>2, Untouched DEF PackFails, TypeInv, caches
<1>12. QED
  BY <1>1, <1>2, <1>3, <1>4, <1>5, <1>6, <1>7, <1>8, <1>9, <1>10, <1>11 DEF DeviceStep

LEMMA TypeStep == TypeInv /\ [Next]_vars => TypeInv'
<1> SUFFICES ASSUME TypeInv, [Next]_vars  PROVE TypeInv'
  OBVIOUS
<1>1. CASE UNCHANGED vars
  BY <1>1, Untouched DEF vars, caches, TypeInv
<1>2. CASE setTarget
  BY <1>2, TypePublication DEF TypeInv, setTarget, DiskTyped
<1>3. QED
  BY <1>1, <1>2, TypePublication, TypeGeneration, TypeSweep, TypeRestart, TypeDevice
     DEF Next

\* Every variable keeps its type, and whatever binaries and devices there are,
\* the hot cache, the target cache and the generations keep to their budgets
\* (Store.putHot, Store.loadTarget, Store.generateAndCacheDelta).
THEOREM StoreTypes == Spec => []TypeOK
<1>1. TypeInv => TypeOK
  BY DEF TypeInv, DiskTyped, HotTyped, TasksTyped, RegistryTyped, SweepTyped,
     DevicesTyped, TypeOK
<1>2. QED  BY <1>1, TypeInit, TypeStep, PTL DEF Spec

-----------------------------------------------------------------------------
(* Retries.  The size budget is asked twice, once when a device's source is *)
(* chosen and again when its delta is to be generated, and binaries come    *)
(* and go in between.                                                       *)

Small(h) == h \notin Large

\* No delta of an oversized binary is on disk or under way.
DeltasAreSmall ==
    \A d \in Pair :
        d \in transfers \/ task[d] # "none" => Small(d[1]) /\ Small(d[2])

\* A device that was given a source can have its delta, unless the size of the
\* target was not to be had.
WithinBudget(r) ==
    r.pc \notin {"idle", "resolved"} /\ r.from # Full /\ ~r.gone =>
        Small(r.from) /\ Small(r.to)

BudgetInv ==
    /\ TypeInv
    /\ DeltasAreSmall
    /\ \A dev \in Device : WithinBudget(request[dev])

LEMMA BudgetInit == Init => BudgetInv
<1> SUFFICES ASSUME Init  PROVE BudgetInv
  OBVIOUS
<1>1. DeltasAreSmall
  BY DEF Init, DeltasAreSmall
<1>2. ASSUME NEW dev \in Device  PROVE WithinBudget(request[dev])
  BY DEF Init, Idle, WithinBudget
<1> QED
  BY <1>1, <1>2, TypeInit DEF BudgetInv

\* What CanDiff allows of two binaries the store holds.
LEMMA CanDiffIsSmall ==
    ASSUME DeltasAreSmall, NEW d \in Pair, CanDiff(d[1], d[2]), Stored(d[1])
    PROVE  Small(d[1]) /\ (Stored(d[2]) => Small(d[2]))
BY DEF DeltasAreSmall, CanDiff, Small, Pair

LEMMA BudgetAnswer ==
    ASSUME BudgetInv, NEW dev \in Device, NEW r, Answer(dev, r), WithinBudget(r)
    PROVE  \A e \in Device : WithinBudget(request'[e])
BY DEF BudgetInv, TypeInv, DevicesTyped, Answer

LEMMA IdleIsWithin == WithinBudget(Idle)
BY DEF WithinBudget, Idle

\* Transfers come from generations and from full downloads, generations from
\* what was small already or is found so now.
LEMMA DeltasStaySmall ==
    ASSUME BudgetInv,
           \A d \in Pair : d \in transfers' => d \in transfers \/ task[d] # "none",
           \A d \in Pair : task'[d] # "none" =>
               task[d] # "none" \/ (Small(d[1]) /\ Small(d[2]))
    PROVE  DeltasAreSmall'
BY DEF BudgetInv, DeltasAreSmall, Small

LEMMA BudgetDevice ==
    ASSUME BudgetInv, NEW dev \in Device, DeviceStep(dev)
    PROVE  DeltasAreSmall' /\ \A e \in Device : WithinBudget(request'[e])
<1> DEFINE r == request[dev]
<1>0. r \in Request /\ RequestTyped(r, running[dev]) /\ running[dev] \in Hash
      /\ WithinBudget(r)
  BY DEF BudgetInv, TypeInv, DevicesTyped
<1> HIDE DEF r
<1>1. CASE LookUpSource(dev)
  <2> DEFINE from == Source(dev, r.to)
  <2>1. PICK pc \in {"missed", "looked"} :
            Answer(dev, [r EXCEPT !.pc = pc, !.from = from, !.gone = ~Stored(r.to)])
    BY <1>1 DEF LookUpSource, r
  <2> DEFINE q == [r EXCEPT !.pc = pc, !.from = from, !.gone = ~Stored(r.to)]
  <2>2. q.from = from /\ q.to = r.to /\ q.gone = ~Stored(r.to)
    BY <1>0 DEF Request
  <2>3. from # Full /\ Stored(r.to) => Small(from) /\ Small(r.to)
    <3>1. SUFFICES ASSUME from # Full, Stored(r.to)
                   PROVE  Small(from) /\ Small(r.to)
      OBVIOUS
    <3>2. from = running[dev] /\ Stored(from) /\ CanDiff(from, r.to)
      BY <3>1 DEF Source, HasBinary
    <3>3. r.to \in Hash /\ r.to # running[dev]
      BY <1>0, <1>1 DEF RequestTyped, LookUpSource, r
    <3>4. <<from, r.to>> \in Pair
      BY <1>0, <3>2, <3>3 DEF Pair
    <3> HIDE DEF from
    <3> QED
      BY <3>1, <3>2, <3>4, CanDiffIsSmall DEF BudgetInv
  <2> HIDE DEF from
  <2>4. WithinBudget(q)
    BY <2>2, <2>3 DEF WithinBudget
  <2> HIDE DEF q
  <2>5. Answer(dev, q)
    BY <2>1 DEF q
  <2>6. UNCHANGED <<transfers, task>>
    BY <1>1 DEF LookUpSource, disk
  <2> QED
    BY <2>4, <2>5, <2>6, BudgetAnswer, DeltasStaySmall
<1>2. CASE NotYet(dev)
  <2>1. PICK d \in Pair : /\ StartDeltaGeneration(d) /\ Answer(dev, Idle)
                          /\ UNCHANGED transfers
    BY <1>2 DEF NotYet, disk
  <2>2. ASSUME NEW p \in Pair, task'[p] # "none"
        PROVE  task[p] # "none" \/ (Small(p[1]) /\ Small(p[2]))
    <3>1. CASE /\ HasBinary(d[1]) /\ HasBinary(d[2]) /\ CanDiff(d[1], d[2])
               /\ task' = [task EXCEPT ![d] = "dispatched"]
      <4>1. Small(d[1]) /\ Small(d[2])
        BY <3>1, CanDiffIsSmall DEF HasBinary, BudgetInv
      <4>2. p # d => task'[p] = task[p]
        BY <3>1 DEF BudgetInv, TypeInv, TasksTyped
      <4> QED
        BY <2>2, <4>1, <4>2
    <3>2. CASE UNCHANGED task
      BY <2>2, <3>2
    <3> QED
      BY <2>1, <3>1, <3>2 DEF StartDeltaGeneration
  <2> QED
    BY <2>1, <2>2, IdleIsWithin, BudgetAnswer, DeltasStaySmall
<1>3. CASE WriteFull(dev)
  <2> DEFINE q == [r EXCEPT !.pc = "read"]
  <2>1. r.pc = "packing" /\ Answer(dev, q)
    BY <1>3 DEF WriteFull, r
  <2>2. WithinBudget(q)
    BY <1>0, <2>1 DEF WithinBudget, Request
  <2>3. transfers' = transfers \cup {<<Full, r.to>>} /\ UNCHANGED task
    BY <1>3 DEF WriteFull, r
  <2>4. <<Full, r.to>> \notin Pair
    BY StoreAssumption DEF Pair
  <2> HIDE DEF q
  <2> QED
    BY <2>1, <2>2, <2>3, <2>4, BudgetAnswer, DeltasStaySmall
<1>4. CASE Heartbeat(dev) \/ RecordMiss(dev) \/ Memoized(dev) \/ NotFound(dev)
           \/ FromHot(dev) \/ FromDisk(dev) \/ putHot(dev) \/ Pack(dev)
           \/ PackFails(dev)
  <2>1. UNCHANGED <<transfers, task>>
    BY <1>4 DEF Heartbeat, RecordMiss, Memoized, NotFound, FromHot, FromDisk,
                putHot, Pack, PackFails, disk
  <2>2. PICK q : Answer(dev, q) /\ WithinBudget(q)
    <3>1. CASE Heartbeat(dev)
      <4>1. WithinBudget([Idle EXCEPT !.pc = "resolved", !.to = target])
        BY DEF WithinBudget, Idle
      <4> QED
        BY <3>1, <4>1 DEF Heartbeat
    <3>2. CASE RecordMiss(dev) \/ Memoized(dev) \/ FromHot(dev) \/ FromDisk(dev)
               \/ putHot(dev) \/ Pack(dev)
      <4>1. r.pc \notin {"idle", "resolved"}
        BY <3>2 DEF RecordMiss, Memoized, FromHot, FromDisk, putHot, Pack, Asks, r
      <4>2. \A pc, stage :
                WithinBudget([r EXCEPT !.pc = pc]) /\
                WithinBudget([r EXCEPT !.pc = pc, !.stage = stage])
        BY <1>0, <4>1 DEF WithinBudget, Request
      <4>3. \E pc, stage : \/ Answer(dev, Idle)
                           \/ Answer(dev, [r EXCEPT !.pc = pc])
                           \/ Answer(dev, [r EXCEPT !.pc = pc, !.stage = stage])
        BY <3>2
           DEF RecordMiss, Memoized, FromHot, FromDisk, putHot, Pack, Served, r
      <4> QED
        BY <4>2, <4>3, IdleIsWithin
    <3>3. CASE NotFound(dev) \/ PackFails(dev)
      BY <3>3, IdleIsWithin DEF NotFound, PackFails
    <3> QED
      BY <1>4, <3>1, <3>2, <3>3
  <2> QED
    BY <2>1, <2>2, BudgetAnswer, DeltasStaySmall
<1> QED
  BY <1>1, <1>2, <1>3, <1>4 DEF DeviceStep

LEMMA BudgetStep == BudgetInv /\ [Next]_vars => BudgetInv'
<1> SUFFICES ASSUME BudgetInv, [Next]_vars  PROVE BudgetInv'
  OBVIOUS
<1>1. TypeInv'
  BY TypeStep DEF BudgetInv
<1>2. ASSUME NEW dev \in Device, DeviceStep(dev)
      PROVE  DeltasAreSmall' /\ \A e \in Device : WithinBudget(request'[e])
  BY <1>2, BudgetDevice
<1>3. ASSUME NEW d \in Pair, Generate(d)
      PROVE  DeltasAreSmall' /\ \A e \in Device : WithinBudget(request'[e])
  <2>1. UNCHANGED request /\ task[d] # "none"
    BY <1>3 DEF Generate, TakeSlot, WriteDelta, GenerationFails, CacheDelta, devices
  <2>2. transfers' \subseteq transfers \cup {d}
    BY <1>3 DEF Generate, TakeSlot, WriteDelta, GenerationFails, CacheDelta, disk
  <2>3. \A p \in Pair : p # d => task'[p] = task[p]
    BY <1>3 DEF Generate, TakeSlot, WriteDelta, GenerationFails, CacheDelta,
                BudgetInv, TypeInv, TasksTyped
  <2> QED
    BY <2>1, <2>2, <2>3, DeltasStaySmall DEF BudgetInv
<1>4. CASE \/ \E h \in Hash : RegisterBinary(h) \/ GrowOld(h) \/ ExpireMiss(h)
           \/ setTarget \/ BeginSweep \/ SweepStep \/ UNCHANGED vars
  <2>1. UNCHANGED <<request, task>>
    BY <1>4 DEF RegisterBinary, GrowOld, ExpireMiss, setTarget, BeginSweep,
                SweepStep, SweepTransfer, SweepBinaries, SweepBinary, EndSweep,
                AbortSweep, vars, devices
  <2>2. transfers' \subseteq transfers
    BY <1>4 DEF RegisterBinary, GrowOld, ExpireMiss, setTarget, BeginSweep,
                SweepStep, SweepTransfer, SweepBinaries, SweepBinary, EndSweep,
                AbortSweep, vars, disk
  <2> QED
    BY <1>1, <2>1, <2>2, DeltasStaySmall DEF BudgetInv
<1>5. CASE Restart
  <2>1. UNCHANGED transfers /\ \A d \in Pair : task'[d] = "none"
    BY <1>5 DEF Restart, disk
  <2>2. \A e \in Device : request'[e] = Idle
    BY <1>5 DEF Restart
  <2> QED
    BY <1>1, <2>1, <2>2, DeltasStaySmall, IdleIsWithin DEF BudgetInv
<1> QED
  BY <1>1, <1>2, <1>3, <1>4, <1>5 DEF Next, BudgetInv

\* A device that is told to retry has a generation under way for it, unless a
\* binary is gone or hidden by a recent miss, or the target was gone when its
\* size was asked for: the manifester and the store never disagree on what may
\* be diffed, however publications, sweeps, generations and restarts interleave
\* between the two times they ask (Manifester.Build, Store.CanDiff,
\* Store.StartDeltaGeneration).
THEOREM RetriesAreBacked == Spec => RetryIsBacked
<1>1. ASSUME BudgetInv, NEW dev \in Device, NotYet(dev)
      PROVE  LET r == request[dev] IN
             \/ task'[<<r.from, r.to>>] # "none"
             \/ ~HasBinary(r.from) \/ ~HasBinary(r.to)
             \/ r.gone
  <2> DEFINE r == request[dev]
  <2>1. PICK d \in Pair : Asks(dev, d) /\ StartDeltaGeneration(d)
    BY <1>1 DEF NotYet
  <2>2. r.pc = "looked" /\ d = <<r.from, r.to>>
    BY <2>1 DEF Asks
  <2>3. d[1] = r.from /\ d[2] = r.to /\ r.from \in Hash
    BY <2>2 DEF Pair
  <2>4. SUFFICES ASSUME HasBinary(d[1]), HasBinary(d[2]), ~r.gone
                 PROVE  task'[d] # "none"
    BY <2>2, <2>3
  <2>5. CanDiff(d[1], d[2])
    BY <1>1, <2>2, <2>3, <2>4, StoreAssumption
       DEF BudgetInv, WithinBudget, Small, CanDiff
  <2> QED
    BY <1>1, <2>1, <2>4, <2>5
       DEF StartDeltaGeneration, BudgetInv, TypeInv, TasksTyped
<1>2. BudgetInv /\ [Next]_vars =>
          [\A dev \in Device :
              LET r == request[dev] IN
              NotYet(dev) => \/ task'[<<r.from, r.to>>] # "none"
                             \/ ~HasBinary(r.from) \/ ~HasBinary(r.to)
                             \/ r.gone]_vars
  BY <1>1
<1> QED
  BY <1>2, BudgetInit, BudgetStep, PTL DEF Spec, RetryIsBacked
=============================================================================

-------------------------------- MODULE Store -------------------------------
(***************************************************************************)
(* Bytes on the server's disk and in its caches (pkg/server/store.go), the *)
(* retention sweeper that collects them (retention.go) and the devices     *)
(* that wait for them: heartbeats answered from the memo or the store      *)
(* (manifest.go) and downloads (http_handler.go).                          *)
(*                                                                         *)
(* One artifact.  A binary is its hash, a transfer the pair of hashes a    *)
(* delta leads from and to, or Full and the target.  Sizes are abstracted  *)
(* to Large, times to young and old: a publication and a sweep both take   *)
(* less than OrphanBinaryMinAge, so nothing grows old during them.         *)
(***************************************************************************)
EXTENDS History, FiniteSets

CONSTANTS
    Hash,           \* contents of binaries
    Full,           \* the source of a full download
    None,           \* no target, no source
    Device,         \* devices that poll
    Large,          \* binaries over StoreOptions.DeltaMaxSourceBytes
    Slots,          \* StoreOptions.DeltaConcurrency
    HotSize,        \* how many transfers fit the hot cache
    MaxEvents       \* how many publications, sweeps, restarts and failing
                    \* writes a behaviour may contain

ASSUME StoreAssumption ==
    /\ Full \notin Hash /\ None \notin Hash \cup {Full}
    /\ Large \subseteq Hash
    /\ Slots \in Nat \ {0} /\ HotSize \in Nat \ {0}
    /\ MaxEvents \in Nat

VARIABLES
    binary,     \* BinariesDir: absent, younger or older than the grace period
    transfers,  \* DeltasDir
    hot,        \* the hot cache of transfers
    resident,   \* the target cache
    missed,     \* the negative cache of HasBinary
    task,       \* asynchronous delta generations
    target,     \* the registry: what the artifact is now ...
    history,    \* ... and was before
    memo,       \* the manifester's cache
    publishing, \* the hash RegisterBinary stored and setTarget will publish
    sweep,      \* what the sweeper is doing
    running,    \* the version each device runs
    request,    \* the request each device has open
    revived,    \* history of old orphans a publication found on disk
    events      \* publications, sweeps, restarts and failing writes so far

disk == <<binary, transfers>>
caches == <<hot, resident, missed>>
registry == <<target, history>>
devices == <<running, request>>
vars == <<disk, caches, task, registry, memo, publishing, sweep, devices,
          revived, events>>

Pair == {p \in Hash \X Hash : p[1] # p[2]}
Transfer == Pair \cup ({Full} \X Hash)

Live == {history[i] : i \in DOMAIN history} \cup ({target} \ {None})

Stored(h) == binary[h] # "absent"

\* What HasBinary says of h, and what it remembers.
HasBinary(h) == h \notin missed /\ Stored(h)
Remembered(hs) == missed \cup {h \in hs : ~Stored(h)}

\* Whether the pair is within the size budget; an absent binary is not a
\* matter of size, and a delta that exists is free.
CanDiff(from, to) ==
    <<from, to>> \in transfers
        \/ \A h \in {from, to} : Stored(h) => h \notin Large

\* (mutant: nothing is evicted)
Hoarded(d) == {hot \cup {d}}

\* The hot cache with d in it; others are evicted if it is full.
Heated(d) ==
    {new \in SUBSET (hot \cup {d}) :
        /\ d \in new /\ Cardinality(new) <= HotSize
        /\ \/ new = hot \cup {d} \/ Cardinality(new) = HotSize}

\* gone: the target was not in the store when the source was looked up.
Idle == [pc |-> "idle", stage |-> "heartbeat", from |-> None, to |-> None,
         gone |-> FALSE]
Request == [pc : {"idle", "resolved", "missed", "looked", "read", "packing"},
            stage : {"heartbeat", "download"},
            from : Hash \cup {Full, None}, to : Hash \cup {None},
            gone : BOOLEAN]

NoSweep == [pc |-> "idle", live |-> {}, current |-> {}, listed |-> {},
            found |-> {}, deleted |-> FALSE]

-----------------------------------------------------------------------------
(* Publication.                                                            *)

\* RegisterBinary: a binary that is there already is not written again, and
\* keeps its age; one that cannot be written is not published.
RegisterBinary(h) ==
    /\ publishing = None
    /\ events < MaxEvents /\ events' = events + 1
    /\ binary' = [binary EXCEPT ![h] = IF Stored(h) THEN @ ELSE "young"]
    /\ revived' = IF ~Stored(h) THEN revived \ {h}
                  ELSE IF binary[h] = "old" /\ h \notin Live
                  THEN revived \cup {h} ELSE revived
    /\ missed' = {}
    /\ publishing' = h
    /\ UNCHANGED <<transfers, hot, resident, task, registry, memo, sweep,
                   devices>>

\* setTarget; OnChange clears the memo.
setTarget ==
    /\ publishing # None
    /\ target' = publishing
    /\ history' = IF target \in {None, publishing} THEN history
                  ELSE Pushed(history, target)
    /\ memo' = IF target = publishing THEN memo ELSE {}
    /\ publishing' = None
    /\ UNCHANGED <<disk, caches, task, sweep, devices, revived, events>>

GrowOld(h) ==
    /\ binary[h] = "young"
    /\ publishing = None /\ sweep.pc = "idle"
    /\ binary' = [binary EXCEPT ![h] = "old"]
    /\ UNCHANGED <<transfers, caches, task, registry, memo, publishing, sweep,
                   devices, revived, events>>

-----------------------------------------------------------------------------
(* Generation of deltas.                                                   *)

\* generateAndCacheDelta is dispatched unless one of the same pair runs.
StartDeltaGeneration(d) ==
    task' = IF /\ HasBinary(d[1]) /\ HasBinary(d[2])
               /\ CanDiff(d[1], d[2])
               /\ task[d] = "none"
            THEN [task EXCEPT ![d] = "dispatched"] ELSE task

Working == {d \in Pair : task[d] \in {"working", "written"}}

\* A slot, the second look for the file, and both binaries; the target may
\* come from RAM.
TakeSlot(d) ==
    /\ task[d] = "dispatched"
    /\ Cardinality(Working) < Slots
    /\ LET loaded == Stored(d[1]) /\ (d[2] \in resident \/ Stored(d[2])) IN
       IF d \in transfers \/ ~loaded
          THEN task' = [task EXCEPT ![d] = "none"] /\ UNCHANGED resident
          ELSE task' = [task EXCEPT ![d] = "working"] /\ resident' = {d[2]}
    /\ UNCHANGED <<disk, hot, missed, registry, memo, publishing, sweep,
                   devices, revived, events>>

WriteDelta(d) ==
    /\ task[d] = "working"
    /\ transfers' = transfers \cup {d}
    /\ task' = [task EXCEPT ![d] = "written"]
    /\ UNCHANGED <<binary, caches, registry, memo, publishing, sweep, devices,
                   revived, events>>

\* bsdiff, a read or the write of the delta fails: the next request starts over.
GenerationFails(d) ==
    /\ task[d] = "working"
    /\ events < MaxEvents /\ events' = events + 1
    /\ task' = [task EXCEPT ![d] = "none"]
    /\ UNCHANGED <<disk, caches, registry, memo, publishing, sweep, devices,
                   revived>>

CacheDelta(d) ==
    /\ task[d] = "written"
    /\ hot' \in Heated(d)
    /\ task' = [task EXCEPT ![d] = "none"]
    /\ UNCHANGED <<disk, resident, missed, registry, memo, publishing, sweep,
                   devices, revived, events>>

-----------------------------------------------------------------------------
(* Heartbeats and downloads.                                               *)

Answer(dev, req) == request' = [request EXCEPT ![dev] = req]

\* Build resolves the artifact; a device that runs the target is done.
Heartbeat(dev) ==
    /\ request[dev] = Idle
    /\ target # None /\ running[dev] # target
    /\ Answer(dev, [Idle EXCEPT !.pc = "resolved", !.to = target])
    /\ UNCHANGED <<disk, caches, task, registry, memo, publishing, sweep,
                   running, revived, events>>

\* (mutant: the source is what the device says it runs)
ClaimedSource(dev, to) == running[dev]

\* (mutant: the size budget is the store's business)
HeldSource(dev, to) == IF HasBinary(running[dev]) THEN running[dev] ELSE Full

\* The device's version, if the server holds it and may diff from it.
Source(dev, to) ==
    IF HasBinary(running[dev]) /\ CanDiff(running[dev], to)
       THEN running[dev] ELSE Full

LookUpSource(dev) ==
    LET r == request[dev]
        missing == running[dev] \notin missed /\ ~Stored(running[dev])
    IN
    /\ r.pc = "resolved"
    /\ Answer(dev, [r EXCEPT !.pc = IF missing THEN "missed" ELSE "looked",
                             !.from = Source(dev, r.to),
                             !.gone = ~Stored(r.to)])
    /\ UNCHANGED <<disk, caches, task, registry, memo, publishing, sweep,
                   running, revived, events>>

\* HasBinary records a miss some time after its stat.
RecordMiss(dev) ==
    /\ request[dev].pc = "missed"
    /\ missed' = missed \cup {running[dev]}
    /\ Answer(dev, [request[dev] EXCEPT !.pc = "looked"])
    /\ UNCHANGED <<disk, hot, resident, task, registry, memo, publishing,
                   sweep, running, revived, events>>

\* The end of a stage: a manifest, which starts the download, or the bytes,
\* which the device installs.
Served(dev) ==
    LET r == request[dev] IN
    IF r.stage = "heartbeat"
       THEN /\ Answer(dev, [r EXCEPT !.pc = "looked", !.stage = "download"])
            /\ memo' = memo \cup {<<r.from, r.to>>}
            /\ UNCHANGED running
       ELSE /\ Answer(dev, Idle)
            /\ running' = [running EXCEPT ![dev] = r.to]
            /\ UNCHANGED memo

\* What the manifest cache and the handlers' guards let through to the store.
Asks(dev, d) ==
    LET r == request[dev] IN
    /\ r.pc = "looked" /\ d = <<r.from, r.to>>
    /\ IF r.stage = "heartbeat" THEN d \notin memo
       ELSE IF r.from = Full THEN r.to \in Live ELSE r.to = target

Memoized(dev) ==
    LET r == request[dev] IN
    /\ r.pc = "looked" /\ r.stage = "heartbeat" /\ <<r.from, r.to>> \in memo
    /\ Served(dev)
    /\ UNCHANGED <<disk, caches, task, registry, publishing, sweep, revived,
                   events>>

\* The artifact moved on between the manifest and the download.
NotFound(dev) ==
    LET r == request[dev] IN
    /\ r.pc = "looked" /\ r.stage = "download"
    /\ IF r.from = Full THEN r.to \notin Live ELSE r.to # target
    /\ Answer(dev, Idle)
    /\ UNCHANGED <<disk, caches, task, registry, memo, publishing, sweep,
                   running, revived, events>>

FromHot(dev) ==
    /\ \E d \in hot : Asks(dev, d)
    /\ Served(dev)
    /\ UNCHANGED <<disk, caches, task, registry, publishing, sweep, revived,
                   events>>

FromDisk(dev) ==
    /\ \E d \in transfers \ hot : Asks(dev, d)
    /\ Answer(dev, [request[dev] EXCEPT !.pc = "read"])
    /\ UNCHANGED <<disk, caches, task, registry, memo, publishing, sweep,
                   running, revived, events>>

\* The bytes go into the hot cache after the read, whatever happened to the
\* file meanwhile.
putHot(dev) ==
    LET r == request[dev] IN
    /\ r.pc = "read"
    /\ hot' \in Heated(<<r.from, r.to>>)
    /\ Served(dev)
    /\ UNCHANGED <<disk, resident, missed, task, registry, publishing, sweep,
                   revived, events>>

\* RetryAfter, or 404 on a download.
NotYet(dev) ==
    \E d \in Pair \ (hot \cup transfers) :
        /\ Asks(dev, d)
        /\ StartDeltaGeneration(d)
        /\ missed' = IF HasBinary(d[1]) THEN Remembered({d[2]})
                     ELSE Remembered({d[1]})
        /\ Answer(dev, Idle)
        /\ UNCHANGED <<disk, hot, resident, registry, memo, publishing, sweep,
                       running, revived, events>>

\* GetBinaryBytes compresses a binary it holds.
Pack(dev) ==
    \E d \in ({Full} \X Hash) \ (hot \cup transfers) :
        /\ Asks(dev, d)
        /\ IF HasBinary(d[2])
              THEN Answer(dev, [request[dev] EXCEPT !.pc = "packing"])
              ELSE Answer(dev, Idle)
        /\ missed' = Remembered({d[2]})
        /\ UNCHANGED <<disk, hot, resident, task, registry, memo, publishing,
                       sweep, running, revived, events>>

WriteFull(dev) ==
    LET r == request[dev] IN
    /\ r.pc = "packing"
    /\ transfers' = transfers \cup {<<Full, r.to>>}
    /\ Answer(dev, [r EXCEPT !.pc = "read"])
    /\ UNCHANGED <<binary, caches, task, registry, memo, publishing, sweep,
                   running, revived, events>>

\* The bytes cannot be written, and are not served from RAM either.
PackFails(dev) ==
    /\ request[dev].pc = "packing"
    /\ events < MaxEvents /\ events' = events + 1
    /\ Answer(dev, Idle)
    /\ UNCHANGED <<disk, caches, task, registry, memo, publishing, sweep,
                   running, revived>>

ExpireMiss(h) ==
    /\ h \in missed
    /\ missed' = missed \ {h}
    /\ UNCHANGED <<disk, hot, resident, task, registry, memo, publishing,
                   sweep, devices, revived, events>>

-----------------------------------------------------------------------------
(* Retention, with orphan collection enabled.                              *)

BeginSweep ==
    /\ sweep.pc = "idle"
    /\ events < MaxEvents /\ events' = events + 1
    /\ sweep' = [NoSweep EXCEPT !.pc = "deltas", !.live = Live,
                                !.current = {target} \ {None},
                                !.listed = transfers]
    /\ UNCHANGED <<disk, caches, task, registry, memo, publishing, devices,
                   revived>>

Unreachable(d) ==
    IF d[1] = Full THEN d[2] \notin sweep.live
    ELSE d[2] \notin sweep.current \/ d[1] \notin sweep.live

\* A listed transfer is deleted because it is unreachable, too old, or over
\* the byte cap; the last two may befall any.  One that cannot be deleted is
\* logged and passed over.
SweepTransfer(d) ==
    /\ sweep.pc = "deltas" /\ d \in sweep.listed
    /\ \/ /\ transfers' = transfers \ {d}
          /\ sweep' = [sweep EXCEPT !.listed = @ \ {d}, !.deleted = TRUE]
       \/ /\ UNCHANGED transfers
          /\ sweep' = [sweep EXCEPT !.listed = @ \ {d}]
    /\ UNCHANGED <<binary, caches, task, registry, memo, publishing, devices,
                   revived, events>>

SweepBinaries ==
    /\ sweep.pc = "deltas"
    /\ \A d \in sweep.listed : ~Unreachable(d)
    /\ sweep' = [sweep EXCEPT !.pc = "binaries", !.listed = {},
                              !.found = {h \in Hash : Stored(h)}]
    /\ UNCHANGED <<disk, caches, task, registry, memo, publishing, devices,
                   revived, events>>

\* (mutant: no grace period)
AnyOrphan(h) == Stored(h) /\ h \notin sweep.live

Collectable(h) == binary[h] = "old" /\ h \notin sweep.live

SweepBinary(h) ==
    /\ sweep.pc = "binaries" /\ h \in sweep.found
    /\ Collectable(h)
    /\ \/ /\ binary' = [binary EXCEPT ![h] = "absent"]
          /\ sweep' = [sweep EXCEPT !.found = @ \ {h}, !.deleted = TRUE]
       \/ /\ UNCHANGED binary
          /\ sweep' = [sweep EXCEPT !.found = @ \ {h}]
    /\ UNCHANGED <<transfers, caches, task, registry, memo, publishing,
                   devices, revived, events>>

\* InvalidateHot, if anything was deleted.
EndSweep ==
    /\ sweep.pc = "binaries"
    /\ \A h \in sweep.found : ~Collectable(h)
    /\ hot' = IF sweep.deleted THEN {} ELSE hot
    /\ sweep' = NoSweep
    /\ UNCHANGED <<disk, resident, missed, task, registry, memo, publishing,
                   devices, revived, events>>

\* A directory cannot be read, or whoever asked for the sweep has gone; the hot
\* cache keeps what it has.
AbortSweep ==
    /\ sweep.pc # "idle"
    /\ sweep' = NoSweep
    /\ UNCHANGED <<disk, caches, task, registry, memo, publishing, devices,
                   revived, events>>

-----------------------------------------------------------------------------
\* The process dies and starts again: what is in memory is gone, the files and
\* the registry's state file stay.  Loading the registry looks its target up.
Restart ==
    /\ events < MaxEvents /\ events' = events + 1
    /\ hot' = {} /\ resident' = {} /\ memo' = {}
    /\ missed' = {h \in {target} \ {None} : ~Stored(h)}
    /\ task' = [d \in Pair |-> "none"]
    /\ publishing' = None
    /\ sweep' = NoSweep
    /\ request' = [dev \in Device |-> Idle]
    /\ UNCHANGED <<disk, registry, running, revived>>

Init ==
    /\ binary = [h \in Hash |-> "absent"]
    /\ transfers = {} /\ hot = {} /\ resident = {} /\ missed = {}
    /\ task = [d \in Pair |-> "none"]
    /\ target = None /\ history = << >>
    /\ memo = {}
    /\ publishing = None
    /\ sweep = NoSweep
    /\ running \in [Device -> Hash]
    /\ request = [dev \in Device |-> Idle]
    /\ revived = {}
    /\ events = 0

DeviceStep(dev) ==
    \/ Heartbeat(dev) \/ LookUpSource(dev) \/ RecordMiss(dev)
    \/ Memoized(dev) \/ NotFound(dev)
    \/ FromHot(dev) \/ FromDisk(dev) \/ putHot(dev)
    \/ NotYet(dev) \/ Pack(dev) \/ WriteFull(dev) \/ PackFails(dev)

Generate(d) ==
    TakeSlot(d) \/ WriteDelta(d) \/ GenerationFails(d) \/ CacheDelta(d)

SweepStep ==
    \/ \E d \in Transfer : SweepTransfer(d)
    \/ SweepBinaries
    \/ \E h \in Hash : SweepBinary(h)
    \/ EndSweep \/ AbortSweep

Next ==
    \/ \E h \in Hash : RegisterBinary(h) \/ GrowOld(h) \/ ExpireMiss(h)
    \/ setTarget
    \/ \E dev \in Device : DeviceStep(dev)
    \/ \E d \in Pair : Generate(d)
    \/ BeginSweep \/ SweepStep
    \/ Restart

Spec == Init /\ [][Next]_vars

\* Goroutines run, devices keep polling, and a recorded miss expires.
FairSpec ==
    /\ Spec
    /\ WF_vars(setTarget)
    /\ \A dev \in Device : WF_vars(DeviceStep(dev))
    /\ \A d \in Pair : WF_vars(Generate(d))
    /\ \A h \in Hash : WF_vars(ExpireMiss(h))
    /\ WF_vars(SweepStep)

-----------------------------------------------------------------------------
(* Properties.                                                             *)

\* Every variable has its type; the hot cache, the target cache and the
\* generations that hold memory stay within their budgets.
TypeOK ==
    /\ binary \in [Hash -> {"absent", "young", "old"}]
    /\ transfers \subseteq Transfer
    /\ hot \subseteq Transfer /\ Cardinality(hot) <= HotSize
    /\ resident \subseteq Hash /\ Cardinality(resident) <= 1
    /\ missed \subseteq Hash
    /\ task \in [Pair -> {"none", "dispatched", "working", "written"}]
    /\ Cardinality(Working) <= Slots
    /\ target \in Hash \cup {None}
    /\ history \in Seq(Hash) /\ Len(history) <= HistoryDepth
    /\ memo \subseteq Transfer
    /\ publishing \in Hash \cup {None}
    /\ sweep \in [pc : {"idle", "deltas", "binaries"}, live : SUBSET Hash,
                  current : SUBSET Hash, listed : SUBSET Transfer,
                  found : SUBSET Hash, deleted : BOOLEAN]
    /\ running \in [Device -> Hash]
    /\ request \in [Device -> Request]
    /\ revived \subseteq Hash
    /\ events \in Nat

\* The sweeper never takes the bytes of a binary that a publication has just
\* written, nor of one that is a target or in the history, whenever its
\* snapshot was taken; the exception is an old orphan that is published again.
LiveIsStored == \A h \in Live \ revived : Stored(h)

\* Nor of an orphan: whatever the registry calls the target is in the store.
TargetIsStored == target # None => Stored(target)

\* A device is told to retry only if a generation is under way for it, unless
\* a binary is gone, or a recent miss still hides it, or the target was gone
\* when its size was asked for and has come back since.
RetryIsBacked ==
    [][\A dev \in Device :
          LET r == request[dev] IN
          NotYet(dev) => \/ task'[<<r.from, r.to>>] # "none"
                         \/ ~HasBinary(r.from) \/ ~HasBinary(r.to)
                         \/ r.gone]_vars

\* Collecting never strands a device: once publications, sweeps, restarts and
\* failing writes end, every device runs the target, by a delta or by a full download,
\* whatever was deleted while it was on its way.
Delivers ==
    \A dev \in Device :
        <>[](running[dev] = target \/ target = None \/ ~Stored(target))

=============================================================================

----------------------------- MODULE Manifester -----------------------------
(***************************************************************************)
(* Signed manifests and their memo (pkg/server/manifest.go) beside the     *)
(* registry: heartbeats resolve an artifact, look the memo up, and put     *)
(* what they signed into it, while publications change the registry and    *)
(* clear the memo.                                                         *)
(*                                                                         *)
(* A manifest is what it tells apart: the artifact, the transfer mode, the *)
(* target hash and its label.  Whether the store can diff from a device's  *)
(* version, and has the delta ready, is a choice here.                     *)
(***************************************************************************)
EXTENDS Registry

CONSTANTS
    Handler,    \* goroutines that serve heartbeats
    Full,       \* the source key of a full download
    CacheSize   \* ManifesterConfig.CacheSize

ASSUME ManifesterAssumption ==
    /\ Full \notin Hash
    /\ CacheSize \in Nat \ {0}

VARIABLES
    cache,     \* the memo: a set of manifests
    request    \* what each handler is doing

manVars == <<cache, request>>
vars == <<regVars, manVars>>

\* What Build needs of the artifact it resolved.
Target == [version : Version, hash : Hash]
TargetOf(art) == [version |-> art.version, hash |-> art.hash]

\* late is history: the artifact had changed since Build resolved it.
Manifest == [key : Key, from : Hash \cup {Full}, hash : Hash,
             version : Version, late : BOOLEAN]

Request == [pc : {"idle", "resolved", "building", "answered"},
            key : Key \cup {None}, art : Target \cup {None},
            from : Hash \cup {Full, None},
            answer : Manifest \cup {None}]
NoRequest == [pc |-> "idle", key |-> None, art |-> None, from |-> None,
              answer |-> None]

\* (mutant: the target is not part of the key)
SameSource(m, key, from, hash) == m.key = key /\ m.from = from

cacheKeyMatches(m, key, from, hash) ==
    m.key = key /\ m.from = from /\ m.hash = hash

Cached(key, from, hash) == {m \in cache : cacheKeyMatches(m, key, from, hash)}

-----------------------------------------------------------------------------
\* The artifact a heartbeat is about; the default one if it names none.
Asked(name) == IF name = None THEN defaultKey ELSE name

Known(key) == key \in Registered

\* Build's early returns: an unknown artifact, a device that is up to date.
NothingToOffer(h, name, running) ==
    /\ Ready
    /\ request[h].pc \in {"idle", "answered"}
    /\ Known(Asked(name)) => artifacts[Asked(name)].hash = running
    /\ request' = [request EXCEPT ![h] = NoRequest]
    /\ UNCHANGED <<regVars, cache>>

\* Build resolves the artifact and settles how the device gets its target.
Resolve(h, name, running, diffable) ==
    LET key == Asked(name) IN
    /\ Ready
    /\ request[h].pc \in {"idle", "answered"}
    /\ Known(key) /\ artifacts[key].hash # running
    /\ request' = [request EXCEPT ![h] =
          [NoRequest EXCEPT !.pc = "resolved", !.key = key,
                            !.art = TargetOf(artifacts[key]),
                            !.from = IF diffable THEN running ELSE Full]]
    /\ UNCHANGED <<regVars, cache>>

CacheHit(h) ==
    LET r == request[h] IN
    /\ r.pc = "resolved"
    /\ \E m \in Cached(r.key, r.from, r.art.hash) :
          request' = [request EXCEPT ![h].pc = "answered", ![h].answer = m]
    /\ UNCHANGED <<regVars, cache>>

\* sign: the label is the one Build resolved.
CacheMiss(h) ==
    LET r == request[h] IN
    /\ r.pc = "resolved"
    /\ Cached(r.key, r.from, r.art.hash) = {}
    /\ request' = [request EXCEPT ![h].pc = "building",
                     ![h].answer = [key |-> r.key, from |-> r.from,
                                    hash |-> r.art.hash,
                                    version |-> r.art.version, late |-> FALSE]]
    /\ UNCHANGED <<regVars, cache>>

\* The delta is not there yet, full downloads are off, or an error: nothing is
\* memoized.
NotServed(h) ==
    /\ request[h].pc = "building"
    /\ request' = [request EXCEPT ![h] = NoRequest]
    /\ UNCHANGED <<regVars, cache>>

\* (mutant: the memo grows)
Hoarded(m) == {cache \cup {m}}

\* The memo with m in it: m replaces the entry of its key, or another one if
\* the memo is full.
Memoized(m) ==
    LET rest == cache \ Cached(m.key, m.from, m.hash) IN
    IF Cardinality(rest) < CacheSize THEN {rest \cup {m}}
    ELSE {(rest \ {e}) \cup {m} : e \in rest}

memoize(h) ==
    LET r == request[h]
        moved == ~Known(r.key) \/ TargetOf(artifacts[r.key]) # r.art
        m == [r.answer EXCEPT !.late = moved]
    IN  /\ r.pc = "building"
        /\ cache' \in Memoized(m)
        /\ request' = [request EXCEPT ![h].pc = "answered", ![h].answer = m]
        /\ UNCHANGED regVars

\* The OnChange hook clears the whole memo.
InvalidateArtifact(t) ==
    /\ OnChange(t)
    /\ cache' = {}
    /\ UNCHANGED request

RestartServer ==
    /\ Restart
    /\ cache' = {}
    /\ request' = [h \in Handler |-> NoRequest]

Init ==
    /\ RegInit
    /\ cache = {}
    /\ request = [h \in Handler |-> NoRequest]

Next ==
    \/ RegStep /\ UNCHANGED manVars
    \/ \E t \in Thread : InvalidateArtifact(t)
    \/ RestartServer
    \/ \E h \in Handler :
          \/ \E name \in Key \cup {None}, running \in Hash :
                \/ NothingToOffer(h, name, running)
                \/ \E d \in BOOLEAN : Resolve(h, name, running, d)
          \/ CacheHit(h) \/ CacheMiss(h) \/ NotServed(h) \/ memoize(h)

Spec == Init /\ [][Next]_vars

-----------------------------------------------------------------------------
(* Properties.                                                             *)

\* Every variable has its type; the memo keeps to its size.
TypeOK ==
    /\ RegTypeOK
    /\ cache \subseteq Manifest /\ Cardinality(cache) <= CacheSize
    /\ request \in [Handler -> Request]

\* A device is told of the artifact and the target that were current when its
\* heartbeat was resolved, whichever request filled the memo: tracks that share
\* bytes, and targets that come and go, do not get each other's manifests.
AnswerFits ==
    \A h \in Handler :
        LET r == request[h] IN
        r.pc = "answered" => r.answer.key = r.key /\ r.answer.hash = r.art.hash

\* What the memo says of a current target carries its current label, once the
\* publications in flight have run OnChange: a new label on the same bytes, a
\* removal or a restart leaves nothing behind.  The exception is a heartbeat
\* that resolved the artifact before the change and memoized after it.
LabelsAreCurrent ==
    Ready /\ Quiet =>
        \A m \in cache :
            m.key \in Registered /\ artifacts[m.key].hash = m.hash
                => m.version = artifacts[m.key].version \/ m.late

=============================================================================

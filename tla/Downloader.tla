----------------------------- MODULE Downloader -----------------------------
(***************************************************************************)
(* The resumable download of one update cycle (Downloader in pkg/agent)    *)
(* over either transport, cycle after cycle: the .partial file, the resume *)
(* state beside it and the staged result.                                  *)
(*                                                                         *)
(* A payload is named by its hash and cut into blocks.  A block read from  *)
(* payload t is t itself: the code writes every byte at the position it    *)
(* has in the payload, so the position in the file identifies the rest.    *)
(* Abstracted: backoff times, and the reason an attempt failed (network,   *)
(* disk full, or a cancelled context; each of them saves the state).       *)
(***************************************************************************)
EXTENDS Integers, Sequences

CONSTANTS
    Payload,      \* transfer payloads, by DeltaHash
    Size,         \* how many blocks each has
    Hole,         \* a block that belongs to no payload
    None,         \* no resume state
    Transport,    \* names of the transports in use, from {"http", "coap"}
    MaxRetries,   \* DownloaderConfig.MaxRetries
    Faults,       \* kinds of fault that may happen, see FaultKind
    MaxFaults,    \* how many faults a behaviour may contain
    MaxRetargets  \* how often the offered payload may change

\* "crash": the process dies; "power": so does the machine; "sweep": it comes
\* back when the partial file is older than orphanSweepMaxAge; "io": the state
\* cannot be written, or the finished file not hashed or renamed; "range": the
\* answer to a range request is the whole payload.
FaultKind == {"crash", "power", "sweep", "io", "range"}

ASSUME ConstantsAssumption ==
    /\ Size \in [Payload -> Nat \ {0}]
    /\ Hole \notin Payload
    /\ Transport \subseteq {"http", "coap"} /\ Transport # {}
    /\ None \notin [hash : Payload, received : Nat, transport : Transport]
    /\ MaxRetries \in Nat
    /\ Faults \subseteq FaultKind
    /\ MaxFaults \in Nat /\ MaxRetargets \in Nat

VARIABLES
    \* On disk.
    partial,    \* blocks of <OutPath>.partial; << >> when there is none
    out,        \* blocks of OutPath
    state,      \* the resume state, or None
    diskState,  \* what a power loss leaves of it
    \* In the process.
    pc,         \* where it is
    transport,  \* the pair this cycle uses
    tgt,        \* FetchTarget.DeltaHash
    offset,     \* blocks received, as Download counts them
    attempt,    \* attempts made in this Download
    \* The environment.
    offered,    \* the payload of the current manifest, and how often it changed
    faults,     \* faults so far
    \* History.
    wasted      \* completed transfers that were thrown away

vars == <<partial, out, state, diskState, pc, transport, tgt, offset, attempt,
          offered, faults, wasted>>
disk == <<partial, out, state, diskState>>
call == <<transport, tgt>>
environment == <<offered, faults>>

PC == {"down", "idle", "fetch", "copy", "save", "verify", "clear", "discard"}
Block == Payload \cup {Hole}
State == [hash : Payload, received : Nat, transport : Transport]

Whole(t) == [i \in 1..Size[t] |-> t]

\* The file holds the first n blocks of t.
Holds(t, n) == n <= Len(partial) /\ \A i \in 1..n : partial[i] = t

\* The file after one block is written at position n; a seek beyond the end
\* leaves a hole.
WriteAt(file, n, block) ==
    [i \in 1..(IF Len(file) > n THEN Len(file) ELSE n) |->
        IF i = n THEN block ELSE IF i <= Len(file) THEN file[i] ELSE Hole]

Fault(kind) == kind \in Faults /\ faults < MaxFaults /\ faults' = faults + 1

-----------------------------------------------------------------------------
Init ==
    /\ partial = << >> /\ out = << >>
    /\ state = None /\ diskState = None
    /\ pc = "idle"
    /\ transport \in Transport
    /\ tgt \in Payload
    /\ offset = 0 /\ attempt = 0
    /\ offered = [payload |-> tgt, moves |-> 0]
    /\ faults = 0
    /\ wasted = 0

\* (mutant: whatever was being downloaded is continued)
AnyState(t, via) == state # None

\* A state of another payload or transport is ignored; its file is not.
StateMatches(t, via) ==
    state # None /\ state.hash = t /\ state.transport = via

\* Download is called: the cycle's manifest names the payload, the transport
\* whose heartbeat succeeded carries it.
Start(via) ==
    /\ pc = "idle"
    /\ transport' = via
    /\ tgt' = offered.payload
    /\ offset' = IF StateMatches(tgt', via) THEN state.received ELSE 0
    /\ attempt' = 0
    /\ pc' = "fetch"
    /\ UNCHANGED <<disk, environment, wasted>>

\* The request failed, or the answer is an error; offset stays.
FetchFails ==
    /\ pc = "fetch"
    /\ pc' = "save"
    /\ UNCHANGED <<disk, call, offset, attempt, environment, wasted>>

\* ErrResumeUnsupported: CoAP starts at zero or not at all.
ResumeUnsupported ==
    /\ pc = "fetch"
    /\ transport = "coap" /\ offset > 0
    /\ partial' = << >>
    /\ offset' = 0
    /\ pc' = "save"
    /\ UNCHANGED <<out, state, diskState, call, attempt, environment, wasted>>

\* A body that begins where it was asked to; the file is opened, never cut.  A
\* range that begins at the end is refused with 416: FetchFails.
FetchRange ==
    /\ pc = "fetch"
    /\ offset < Size[tgt]
    /\ transport = "http" \/ offset = 0
    /\ pc' = "copy"
    /\ UNCHANGED <<disk, call, offset, attempt, environment, wasted>>

\* 200 instead of 206: the file is truncated and the transfer starts over.
RangeIgnored ==
    /\ pc = "fetch"
    /\ transport = "http" /\ offset > 0
    /\ Fault("range")
    /\ partial' = << >>
    /\ offset' = 0
    /\ pc' = "copy"
    /\ UNCHANGED <<out, state, diskState, call, attempt, offered, wasted>>

CopyBlock ==
    /\ pc = "copy"
    /\ offset < Size[tgt]
    /\ partial' = WriteAt(partial, offset + 1, tgt)
    /\ offset' = offset + 1
    /\ UNCHANGED <<out, state, diskState, pc, call, attempt, environment, wasted>>

\* The link or the disk gave up inside the body.
CopyFails ==
    /\ pc = "copy"
    /\ offset < Size[tgt]
    /\ pc' = "save"
    /\ UNCHANGED <<disk, call, offset, attempt, environment, wasted>>

CopyDone ==
    /\ pc = "copy"
    /\ offset = Size[tgt]
    /\ pc' = "verify"
    /\ UNCHANGED <<disk, call, offset, attempt, environment, wasted>>

\* (mutants: the offset is not part of the saved state, or one too small)
OneBlockLess == [hash |-> tgt, received |-> offset - 1, transport |-> transport]
ForgottenProgress == [hash |-> tgt, received |-> 0, transport |-> transport]

Progress == [hash |-> tgt, received |-> offset, transport |-> transport]

\* saveState after a failed attempt; the last one gives up.
saveState ==
    /\ pc = "save"
    /\ \/ state' = Progress /\ diskState' = Progress /\ UNCHANGED faults
       \/ Fault("io") /\ UNCHANGED <<state, diskState>>
    /\ attempt' = attempt + 1
    /\ pc' = IF attempt = MaxRetries THEN "idle" ELSE "fetch"
    /\ UNCHANGED <<partial, out, call, offset, offered, wasted>>

HashMatches(file) == file = Whole(tgt)

\* The hash is the manifest's: the file becomes the staged payload.
Finalize ==
    /\ pc = "verify"
    /\ HashMatches(partial)
    /\ out' = partial
    /\ partial' = << >>
    /\ pc' = "clear"
    /\ UNCHANGED <<state, diskState, call, offset, attempt, environment, wasted>>

\* ErrHashMismatch.
Mismatch ==
    /\ pc = "verify"
    /\ ~HashMatches(partial)
    /\ partial' = << >>
    /\ wasted' = wasted + 1
    /\ pc' = "discard"
    /\ UNCHANGED <<out, state, diskState, call, offset, attempt, environment>>

\* The file could not be read or renamed.
VerifyFails ==
    /\ pc = "verify"
    /\ Fault("io")
    /\ pc' = "idle"
    /\ UNCHANGED <<disk, call, offset, attempt, offered, wasted>>

\* (mutant: the state outlives its file)
KeptState == state

\* clearState, which ends Download with or without an error.
clearedState == None

clearState ==
    /\ pc \in {"clear", "discard"}
    /\ state' = clearedState
    /\ pc' = "idle"
    /\ UNCHANGED <<partial, out, diskState, call, offset, attempt, environment,
                   wasted>>

-----------------------------------------------------------------------------
(* The environment.                                                        *)

Crash ==
    /\ pc # "down"
    /\ Fault("crash")
    /\ pc' = "down"
    /\ offset' = 0 /\ attempt' = 0
    /\ UNCHANGED <<disk, call, offered, wasted>>

\* Neither the partial file nor the removal of the state is synced: the file
\* may lose its end and any block in it, and the state may come back.
PowerLoss ==
    /\ Fault("power")
    /\ \E n \in 0..Len(partial), lost \in SUBSET (1..Len(partial)) :
          partial' = [i \in 1..n |-> IF i \in lost THEN Hole ELSE partial[i]]
    /\ out' = << >>
    /\ state' \in {state, diskState}
    /\ diskState' = state'
    /\ pc' = "down"
    /\ offset' = 0 /\ attempt' = 0
    /\ UNCHANGED <<call, offered, wasted>>

\* NewUpdater sweeps the partial file when it is old; the state is not swept.
Launch ==
    /\ pc = "down"
    /\ \/ UNCHANGED <<partial, faults>>
       \/ Fault("sweep") /\ partial' = << >>
    /\ pc' = "idle"
    /\ UNCHANGED <<out, state, diskState, call, offset, attempt, offered, wasted>>

\* The server's target, or the device's own version, changed.
Retarget(t) ==
    /\ t # offered.payload
    /\ offered.moves < MaxRetargets
    /\ offered' = [payload |-> t, moves |-> offered.moves + 1]
    /\ UNCHANGED <<disk, pc, call, offset, attempt, faults, wasted>>

-----------------------------------------------------------------------------
Step ==
    \/ \E via \in Transport : Start(via)
    \/ FetchFails \/ ResumeUnsupported \/ FetchRange \/ RangeIgnored
    \/ CopyBlock \/ CopyFails \/ CopyDone \/ saveState
    \/ Finalize \/ Mismatch \/ VerifyFails \/ clearState
    \/ Launch

Next ==
    \/ Step \/ Crash \/ PowerLoss
    \/ \E t \in Payload : Retarget(t)

Spec == Init /\ [][Next]_vars

\* The agent keeps trying, and although any attempt may break off, requests
\* keep being answered and blocks keep coming.
FairSpec ==
    /\ Spec
    /\ WF_vars(Step)
    /\ SF_vars(FetchRange)
    /\ SF_vars(CopyBlock)

-----------------------------------------------------------------------------
(* Properties.                                                             *)

\* Every variable has its type.
TypeOK ==
    /\ partial \in Seq(Block) /\ out \in Seq(Block)
    /\ state \in State \cup {None} /\ diskState \in State \cup {None}
    /\ pc \in PC
    /\ transport \in Transport
    /\ tgt \in Payload
    /\ offset \in Nat /\ attempt \in Nat
    /\ offered \in [payload : Payload, moves : Nat]
    /\ faults \in Nat
    /\ wasted \in Nat

\* Until something goes wrong on the device, an attempt never continues behind
\* bytes of another payload: what Download takes as received is in the file.
\* Payloads, transports and broken attempts may alternate as they like.
ResumeSound ==
    faults = 0 /\ pc \in {"fetch", "copy", "save", "verify"} => Holds(tgt, offset)

\* Each transfer that is completed and thrown away has a cause of its own: a
\* fault, or a new payload that met the longer file of the one before.  A
\* leftover never costs the device a second transfer.
WasteIsExplained == wasted <= faults + offered.moves

\* As long as blocks keep coming, an offered payload is delivered, however
\* often a range transfer breaks off and is resumed.
Delivers ==
    \A t \in Payload :
        <>[](offered.payload = t /\ transport = "http")
            => []<>(pc = "clear" /\ tgt = t)

\* The agent that crashed during a download resumes it, over HTTP, behind the
\* blocks its partial file already has.
CrashKeepsProgress ==
    [][pc = "idle" /\ pc' = "fetch" /\ transport' = "http"
           => partial = [i \in 1..offset' |-> tgt']]_vars

=============================================================================

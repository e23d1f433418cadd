------------------------------- MODULE Server -------------------------------
(***************************************************************************)
(* The server process around the registry (cmd/update-server/main.go and   *)
(* pkg/server/watcher.go): one goroutine per file-backed track re-publishes *)
(* it when its file changes, admin requests publish beside it, and the     *)
(* process shuts down in order, bounded by one timeout.                    *)
(*                                                                         *)
(* The watcher of track k is thread k; the other threads serve requests.   *)
(* A debounce window coalesces events, so a track's pending events are one *)
(* flag.  A track keeps the source file it was first published from.       *)
(***************************************************************************)
EXTENDS Registry

ASSUME WatcherAssumption == Key \subseteq Thread

Handler == Thread \ Key

VARIABLES
    watch,      \* each track's watcher goroutine
    event,      \* tracks whose watcher has a change to act on
    life,       \* how far the process has come
    cancelled,  \* the root context is cancelled
    expired,    \* the shutdown context is done
    generating, \* some delta generation is in flight
    coap,       \* a CoAP request is in flight that Stop did not wait for
    late,       \* history: a generation was dispatched after Stop
    unheard     \* history: tracks that may differ from their file for good

process == <<life, cancelled, expired, generating, coap, late>>
watchers == <<watch, event, unheard>>
vars == <<regVars, process, watchers>>

WatchState == {"none", "planned", "on", "gone"}
Life == {"boot", "serving", "draining", "closing", "waiting"}
Stopping == life \in {"draining", "closing", "waiting"}

FileBacked(k) == k \in Registered /\ artifacts[k].source

-----------------------------------------------------------------------------
(* Watchers.                                                               *)

\* run starts one goroutine per file-backed track, once, before it serves.
StartServing ==
    /\ life = "boot" /\ Ready
    /\ life' = "serving"
    /\ watch' = [k \in Key |-> IF FileBacked(k) THEN "planned" ELSE "none"]
    /\ UNCHANGED <<regVars, cancelled, expired, generating, coap, late,
                   event, unheard>>

\* fw.Add, which may fail, and the watcher with it.
Listen(k) ==
    /\ watch[k] = "planned"
    /\ \E w \in {"on", "gone"} : watch' = [watch EXCEPT ![k] = w]
    /\ UNCHANGED <<regVars, process, event, unheard>>

\* (mutant: an event that arrives during a reload is dropped)
NotedIfIdle(k) ==
    IF watch[k] = "on" /\ call[k].pc = "idle" THEN event \cup {k} ELSE event

\* The events after a change of k's file; one that arrives while the watcher
\* reloads waits in the channel.
Noted(k) == IF watch[k] = "on" THEN event \cup {k} ELSE event

Edit(k, h) ==
    /\ EditSource(k, h)
    /\ event' = Noted(k)
    /\ unheard' = IF watch[k] = "on" THEN unheard ELSE unheard \cup {k}
    /\ UNCHANGED <<process, watch>>

\* The debounce window is over: onChange republishes the track in the watcher's
\* own goroutine, or logs that it cannot.
Fire(k) ==
    /\ watch[k] = "on" /\ k \in event
    /\ event' = event \ {k}
    /\ \/ FileBacked(k) /\ Started(k, Reload(k)) /\ UNCHANGED unheard
       \/ ~FileBacked(k) /\ UNCHANGED call /\ unheard' = unheard \cup {k}
    /\ UNCHANGED <<memory, stateFile, file, booted, bounds, process, watch>>

WatcherStops(k) ==
    /\ watch[k] = "on" /\ cancelled /\ call[k].pc = "idle"
    /\ watch' = [watch EXCEPT ![k] = "gone"]
    /\ UNCHANGED <<regVars, process, event, unheard>>

-----------------------------------------------------------------------------
(* Calls.                                                                  *)

AdminRequest(t) ==
    /\ life = "serving"
    /\ \/ \E k \in Key, v \in Version : PublishFile(t, k, v)
       \/ \E k \in Key :
             Republish(t, k) \/ SetDefault(t, k) \/ Remove(t, k)
    /\ UNCHANGED <<process, watchers>>

\* A publication of what the file no longer says is put right by an event that
\* is still to come, unless it crossed another call.
Publication(t) ==
    /\ setTarget(t)
    /\ LET k == call[t].key IN
       unheard' = IF call[t].hash = file[k] THEN unheard \ {k}
                  ELSE IF call[t].alone THEN unheard ELSE unheard \cup {k}
    /\ UNCHANGED <<process, watch, event>>

CallStep(t) ==
    \/ Publication(t)
    \/ /\ ReadSource(t) \/ persist(t) \/ WriteState(t) \/ OnChange(t)
       /\ UNCHANGED <<process, watchers>>

-----------------------------------------------------------------------------
(* Shutdown.                                                               *)

\* A signal cancels the root context; the failure of a listener does not.
Stop ==
    /\ life = "serving"
    /\ calls < MaxCalls /\ calls' = calls + 1
    /\ life' = "draining"
    /\ cancelled' \in BOOLEAN
    /\ UNCHANGED <<memory, stateFile, file, call, booted, faults,
                   expired, generating, coap, late, watchers>>

\* httpServer.Shutdown waits for requests, coapServer.Stop does not; both may
\* leave generations behind.
Drain ==
    /\ life = "draining"
    /\ expired \/ \A t \in Handler : call[t].pc = "idle"
    /\ life' = "closing"
    /\ generating' \in BOOLEAN /\ coap' \in BOOLEAN
    /\ UNCHANGED <<regVars, cancelled, expired, late, watchers>>

\* The CoAP request ends, and may have called StartDeltaGeneration.
CoapEnds ==
    /\ coap /\ coap' = FALSE
    /\ \/ generating' = TRUE /\ late' = TRUE
       \/ UNCHANGED <<generating, late>>
    /\ UNCHANGED <<regVars, life, cancelled, expired, watchers>>

GenerationEnds ==
    /\ generating /\ generating' = FALSE
    /\ UNCHANGED <<regVars, life, cancelled, expired, coap, late, watchers>>

\* (mutant: Close waits without the context)
PatientlyDrained == ~generating

\* (mutant: Close does not wait)
NeedNotDrain == TRUE

Drained == ~generating \/ expired

Close ==
    /\ life = "closing" /\ Drained
    /\ life' = "waiting"
    /\ UNCHANGED <<regVars, cancelled, expired, generating, coap, late,
                   watchers>>

ShutdownTimeout ==
    /\ Stopping /\ ~expired
    /\ expired' = TRUE
    /\ UNCHANGED <<regVars, life, cancelled, generating, coap, late, watchers>>

\* The next process; a track it loads may differ from its file already.
Relaunched ==
    /\ Loaded
    /\ life' = "boot"
    /\ cancelled' = FALSE /\ expired' = FALSE
    /\ generating' = FALSE /\ coap' = FALSE /\ late' = FALSE
    /\ watch' = [k \in Key |-> "none"]
    /\ event' = {}
    /\ unheard' = {k \in DOMAIN artifacts' : artifacts'[k].hash # file[k]}

\* run returns once the helper goroutines are gone, or at the timeout.
Exit ==
    /\ life = "waiting"
    /\ expired \/ \A k \in Key : watch[k] \in {"none", "gone"}
    /\ Relaunched
    /\ UNCHANGED bounds

Crash ==
    /\ faults < MaxFaults /\ faults' = faults + 1
    /\ Relaunched
    /\ UNCHANGED calls

Boot ==
    /\ ReconcileConfig
    /\ unheard' = unheard \ {Declared[booted + 1].key}
    /\ UNCHANGED <<process, watch, event>>

-----------------------------------------------------------------------------
Init ==
    /\ RegInit
    /\ watch = [k \in Key |-> "none"]
    /\ event = {} /\ unheard = {}
    /\ life = "boot"
    /\ cancelled = FALSE /\ expired = FALSE
    /\ generating = FALSE /\ coap = FALSE /\ late = FALSE

Shutdown == Drain \/ Close \/ ShutdownTimeout \/ Exit

Next ==
    \/ Boot \/ StartServing
    \/ \E k \in Key :
          \/ Listen(k) \/ Fire(k) \/ WatcherStops(k)
          \/ \E h \in Hash : Edit(k, h)
    \/ \E t \in Thread : CallStep(t)
    \/ \E t \in Handler : AdminRequest(t)
    \/ Stop \/ CoapEnds \/ GenerationEnds
    \/ Shutdown
    \/ Crash

\* The scheduler runs every goroutine that can go on, and time passes.  Nothing
\* makes a generation end: bsdiff takes as long as it takes.
Fairness ==
    /\ WF_vars(Boot \/ StartServing)
    /\ \A k \in Key : WF_vars(Listen(k)) /\ WF_vars(Fire(k) \/ WatcherStops(k))
    /\ \A t \in Thread : WF_vars(CallStep(t))
    /\ WF_vars(Shutdown)

Spec == Init /\ [][Next]_vars /\ Fairness

-----------------------------------------------------------------------------
(* Properties.                                                             *)

\* Every variable has its type.
TypeOK ==
    /\ RegTypeOK
    /\ watch \in [Key -> WatchState]
    /\ event \subseteq Key /\ unheard \subseteq Key
    /\ life \in Life
    /\ {cancelled, expired, generating, coap, late} \subseteq BOOLEAN

\* No edit is lost: a watched track that differs from its file has an event that
\* is still to be acted on, or its watcher is about to publish what the file
\* says.  The exceptions are edits before the watcher listens or before a
\* restart, edits of a track that is not registered, and a publication that
\* read its file before another call published it.
NoEditLost ==
    \A k \in Key \ unheard :
        FileBacked(k) /\ watch[k] = "on" /\ artifacts[k].hash # file[k]
            => \/ k \in event
               \/ call[k].pc = "read"
               \/ call[k].pc = "set" /\ call[k].hash = file[k]

\* In the end a watched track publishes what its file says, however edits,
\* reloads and admin requests interleave, with the same exceptions.
Settles ==
    <>[](\A k \in Key \ unheard :
            life = "serving" /\ FileBacked(k) /\ watch[k] = "on"
                => artifacts[k].hash = file[k])

\* A reload changes the bytes of a track and not its label, and brings no track
\* back that was removed, unless it overlapped another call.
ReloadKeepsLabel ==
    [][\A k \in Key :
          call[k].pc = "set" /\ call[k].alone /\ call'[k].pc = "snapshot"
              => /\ k \in Registered
                 /\ artifacts'[k].version = artifacts[k].version]_vars

\* A shutdown that does not run into its timeout leaves no call and no
\* generation behind, except generations of CoAP requests that outlived Stop.
CleanExit ==
    [][life = "waiting" /\ life' = "boot" /\ ~expired /\ UNCHANGED faults
          => Quiet /\ (generating => late)]_vars

\* A shutdown ends, though a generation may never do.
ShutdownEnds == Stopping ~> life = "boot"

=============================================================================

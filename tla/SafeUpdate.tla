----------------------------- MODULE SafeUpdate -----------------------------
(***************************************************************************)
(* What the A/B update engine promises, without slots, files or processes: *)
(* a device runs a version it knows to work, or it tries a new one and     *)
(* remembers the one it came from; it stops trying only by finding that    *)
(* the new one works, or by going back.                                    *)
(***************************************************************************)

CONSTANTS
    Version,  \* every version there may be
    Initial,  \* the version a device is provisioned with, one of them
    None      \* no fallback, and no version: the device is not on trial

VARIABLES
    current,   \* the version the device would boot now
    fallback,  \* on trial, the version to return to; None otherwise
    known      \* versions that are known to work

vars == <<current, fallback, known>>

Init ==
    /\ current = Initial
    /\ fallback = None
    /\ known = {Initial}

\* A new version becomes current, on trial.
Begin(v) ==
    /\ fallback = None
    /\ v # current
    /\ current' = v
    /\ fallback' = current
    /\ UNCHANGED known

\* The version on trial is seen to work.
Vouch ==
    /\ fallback # None
    /\ known' = known \cup {current}
    /\ UNCHANGED <<current, fallback>>

\* The trial ends well: only for a version that is known to work.
Accept ==
    /\ fallback # None
    /\ current \in known
    /\ fallback' = None
    /\ UNCHANGED <<current, known>>

\* The trial ends badly: back to where it came from, and nowhere else.
Reject ==
    /\ fallback # None
    /\ current' = fallback
    /\ fallback' = None
    /\ UNCHANGED known

\* A power loss may undo the end of a trial, never put an unknown version in
\* the fallback's place.
Reopen(f) ==
    /\ fallback = None
    /\ f # current
    /\ fallback' = f
    /\ UNCHANGED <<current, known>>

Next ==
    \/ \E v \in Version : Begin(v)
    \/ Vouch \/ Accept \/ Reject
    \/ \E f \in known : Reopen(f)

Spec == Init /\ [][Next]_vars

-----------------------------------------------------------------------------
\* Types of the abstract state.
TypeOK ==
    /\ current \in Version
    /\ fallback \in Version \cup {None}
    /\ known \subseteq Version

\* A device off trial runs a version known to work, and one on trial has such
\* a version to return to.
NeverStranded ==
    IF fallback = None THEN current \in known ELSE fallback \in known

=============================================================================

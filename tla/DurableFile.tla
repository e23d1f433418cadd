---------------------------- MODULE DurableFile ----------------------------
(***************************************************************************)
(* What pkg/atomicio promises of a path: it always has the whole content   *)
(* of some write, a power loss brings back one of the contents it had      *)
(* since it was last settled, and in between nothing but a write changes   *)
(* it.                                                                     *)
(***************************************************************************)

CONSTANTS
    Value,   \* contents
    Initial  \* the content before the first write

VARIABLES
    content,  \* what a reader finds
    stable    \* what a reader may find after a power loss

vars == <<content, stable>>

Init == content = Initial /\ stable = {Initial}

Replace(v) ==
    /\ content' = v
    /\ stable' = stable \cup {v}

Settle ==
    /\ stable' = {content}
    /\ UNCHANGED content

PowerLoss ==
    /\ content' \in stable
    /\ stable' = {content'}

Next == (\E v \in Value : Replace(v)) \/ Settle \/ PowerLoss

Spec == Init /\ [][Next]_vars
=============================================================================

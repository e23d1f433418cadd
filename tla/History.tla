------------------------------ MODULE History -------------------------------
(* An artifact's superseded targets, as setTarget in pkg/server/registry.go *)
(* keeps them.                                                              *)
EXTENDS Naturals, Sequences

CONSTANT HistoryDepth   \* RegistryOptions.HistoryDepth

ASSUME HistoryAssumption == HistoryDepth \in Nat \ {0}

Cap(s) == SubSeq(s, 1, IF Len(s) < HistoryDepth THEN Len(s) ELSE HistoryDepth)

\* (mutant: a hash that is listed already keeps its old place)
PushedInPlace(history, previous) ==
    IF \E i \in DOMAIN history : history[i] = previous THEN history
    ELSE Cap(<<previous>> \o history)

\* A history lists no hash twice, so that there is at most one to leave out.
Without(history, h) ==
    IF \E i \in DOMAIN history : history[i] = h
       THEN LET i == CHOOSE i \in DOMAIN history : history[i] = h IN
            SubSeq(history, 1, i - 1) \o SubSeq(history, i + 1, Len(history))
       ELSE history

\* Newest first, deduplicated, capped.
Pushed(history, previous) == Cap(<<previous>> \o Without(history, previous))
=============================================================================

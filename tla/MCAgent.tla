------------------------------ MODULE MCAgent ------------------------------
(* Constants for model-checking Agent.                                     *)
EXTENDS Agent, UpdatePolicy, TLC

CONSTANTS v0, v1, v2

Release(x, y) == [major |-> x, minor |-> y, patch |-> 0, pre |-> 0]

\* A minor and a major step.
Label == (v0 :> Release(1, 0)) @@ (v1 :> Release(1, 1)) @@ (v2 :> Release(2, 0))

Allowed(cfg, own) ==
    {<<l, r>> \in Binary \X Binary : PolicyAllows(cfg, own[l], Label[r])}

\* Automatic updates on, in binaries that do not know their version.
AnyBump ==
    Allowed([AutoUpdate |-> TRUE, MaxBump |-> "major", UnknownAllow |-> FALSE],
            [b \in Binary |-> Unlabelled])

\* Anything but v0 to v1 takes a manual trigger.
MinorBump ==
    Allowed([AutoUpdate |-> TRUE, MaxBump |-> "minor", UnknownAllow |-> FALSE],
            Label)

\* auto_update off: only a manual trigger applies an update.
NoAutoUpdate ==
    Allowed([AutoUpdate |-> FALSE, MaxBump |-> "major", UnknownAllow |-> TRUE],
            Label)

-----------------------------------------------------------------------------
(* The bump against a reference: versions in their order, as one number.   *)

Small == [major : 0..2, minor : 0..2, patch : 0..2, pre : 0..2]

Rank(v) ==
    27 * v.major + 9 * v.minor + 3 * v.patch + (IF v.pre = 0 THEN 2 ELSE v.pre - 1)

ReferenceBump(l, r) ==
    IF Rank(r) <= Rank(l) THEN "none"
    ELSE IF Rank(r) \div 27 # Rank(l) \div 27 THEN "major"
    ELSE IF Rank(r) \div 9 # Rank(l) \div 9 THEN "minor"
    ELSE "patch"

\* ComputeBump names the first number that grew, and never one of a downgrade.
ASSUME BumpIsReference ==
    \A l, r \in Small : ComputeBump(l, r) = ReferenceBump(l, r)
=============================================================================

---------------------------- MODULE UpdatePolicy ----------------------------
(***************************************************************************)
(* Which updates the agent applies without being told to (pkg/agent:       *)
(* policy.go and Updater.policyAllows).                                    *)
(*                                                                         *)
(* A label is a semantic version, or something the parser refuses.  A      *)
(* semantic version is its numbers: whitespace, the v prefix, missing      *)
(* trailing numbers and build metadata do not take part in a comparison.   *)
(* pre numbers the pre-releases of a release, which is 0 itself.           *)
(***************************************************************************)
EXTENDS Naturals

CONSTANTS
    Freeform,   \* a label that is no semantic version
    Unlabelled  \* the empty version of a binary built without one

Semver == [major : Nat, minor : Nat, patch : Nat, pre : Nat]

ASSUME LabelsAssumption == Freeform \notin Semver /\ Unlabelled \notin Semver

MaxBump == {"none", "patch", "minor", "major"}

\* auto_update, max_bump, and unknown_version_policy = allow.
Config == [AutoUpdate : BOOLEAN, MaxBump : MaxBump, UnknownAllow : BOOLEAN]

\* semver.Compare(l, r) < 0: by the first number that differs; a pre-release
\* comes before its release.
Precedes(l, r) ==
    \/ l.major < r.major
    \/ /\ l.major = r.major
       /\ \/ l.minor < r.minor
          \/ /\ l.minor = r.minor
             /\ \/ l.patch < r.patch
                \/ /\ l.patch = r.patch
                   /\ l.pre # 0 /\ (r.pre = 0 \/ l.pre < r.pre)

\* semver.IsValid of what ensureSemverPrefix returns.
Valid(label) == label \in Semver

ComputeBump(local, remote) ==
    IF ~Valid(local) \/ ~Valid(remote) THEN "unknown"
    ELSE IF ~Precedes(local, remote) THEN "none"
    ELSE IF local.major # remote.major THEN "major"
    ELSE IF local.minor # remote.minor THEN "minor"
    ELSE "patch"

BumpLevel == [none |-> 0, patch |-> 1, minor |-> 2, major |-> 3]

AllowedByPolicy(bump, max) ==
    bump \notin {"unknown", "none"} /\ BumpLevel[bump] <= BumpLevel[max]

\* An agent that does not know its own version takes every update.
PolicyAllows(cfg, version, remote) ==
    /\ cfg.AutoUpdate
    /\ \/ version = Unlabelled
       \/ ComputeBump(version, remote) = "unknown" /\ cfg.UnknownAllow
       \/ AllowedByPolicy(ComputeBump(version, remote), cfg.MaxBump)

=============================================================================

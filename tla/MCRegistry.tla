----------------------------- MODULE MCRegistry -----------------------------
(* Constants for model-checking Registry.                                  *)
EXTENDS Registry, TLC

CONSTANTS k1, v1

\* One artifact comes from the configuration.
DeclaredOne == <<[key |-> k1, version |-> v1]>>

\* Threads and contents are interchangeable.
Interchangeable == Permutations(Thread) \cup Permutations(Hash)
=============================================================================

---------------------------- MODULE MCManifester ----------------------------
(* Constants for model-checking Manifester.                                *)
EXTENDS Manifester, TLC

CONSTANTS k1, v1

\* The server starts with one artifact from its configuration.
DeclaredOne == <<[key |-> k1, version |-> v1]>>
Interchangeable == Permutations(Thread) \cup Permutations(Hash)
=============================================================================

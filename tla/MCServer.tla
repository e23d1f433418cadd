------------------------------ MODULE MCServer ------------------------------
(* Constants for model-checking Server.                                    *)
EXTENDS Server

CONSTANTS k1, v1

\* The track comes from the configuration.
DeclaredOne == <<[key |-> k1, version |-> v1]>>
=============================================================================

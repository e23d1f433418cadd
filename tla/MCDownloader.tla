---------------------------- MODULE MCDownloader ----------------------------
(* Constants for model-checking Downloader: a long and a short payload.    *)
EXTENDS Downloader

CONSTANTS long, short

Blocks == [p \in Payload |-> IF p = long THEN 3 ELSE 2]
=============================================================================

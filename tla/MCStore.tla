------------------------------- MODULE MCStore ------------------------------
(* Constants for model-checking Store.                                     *)
EXTENDS Store, TLC

CONSTANT big

NoneLarge == {}
OneLarge == {big}
=============================================================================

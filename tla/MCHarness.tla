------------------------------ MODULE MCHarness ------------------------------
(***************************************************************************)
(* Instances of Harness for TLC: a few trials, so that a fast thread can   *)
(* be in the next one while a slow one is still leaving the last.          *)
(***************************************************************************)
EXTENDS Harness, TLC
=============================================================================

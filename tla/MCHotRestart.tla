---------------------------- MODULE MCHotRestart ----------------------------
(* Small instances of HotRestart for TLC. *)
EXTENDS HotRestart
=============================================================================

---------------------------- MODULE MCScreenSync ----------------------------
(* Instances of ScreenSync for TLC. *)
EXTENDS MCStorefront, ScreenSync
=============================================================================

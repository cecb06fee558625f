---------------------------- MODULE MCBroadcast -----------------------------
(* Instances of Broadcast for TLC. *)
EXTENDS MCFlashSale, Broadcast
=============================================================================

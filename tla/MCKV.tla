-------------------------------- MODULE MCKV --------------------------------
(* Small instance of KV for TLC. *)
EXTENDS KV
=============================================================================

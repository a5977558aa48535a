----------------------------- MODULE MCRaftApply -----------------------------
(* Instance of RaftApply for TLC. *)
EXTENDS RaftApply

CONSTANTS h1, h2
=============================================================================

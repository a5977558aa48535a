------------------------------ MODULE MCGroups ------------------------------
(* Instance of Groups for TLC. *)
EXTENDS Groups

CONSTANTS c1, s1, s2

MCConns == {<<s1, 1>>, <<s1, 2>>, <<s2, 1>>}
MCIds == Clnts \X (1..MaxCalls)
=============================================================================

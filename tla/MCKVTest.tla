------------------------------ MODULE MCKVTest ------------------------------
(* Instance of KVTest for TLC: two clients, values built from their entries. *)
EXTENDS KVTest

CONSTANTS c1, c2, k

Entries == Clerk \X (0..MaxVersion)
MCValue == Entries \cup [1..0 -> Entries] \cup [1..1 -> Entries] \cup [1..2 -> Entries]
             \cup [1..3 -> Entries] \cup [1..4 -> Entries]
=============================================================================

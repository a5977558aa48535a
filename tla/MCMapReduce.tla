---------------------------- MODULE MCMapReduce -----------------------------
(* Small instances of MapReduce for TLC: files of up to two words. *)
EXTENDS MapReduceData

MCHash == [w \in Word |-> w]
MCInputs == [0..NMap - 1 -> UNION {[1..n -> Word] : n \in 0..2}]
=============================================================================

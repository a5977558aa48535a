------------------------------- MODULE MCRaft -------------------------------
(* Small instances of Raft for TLC. *)
EXTENDS Raft, TLC

Symmetry == Permutations(Server)

\* What a server that is not a candidate (leader) keeps of its last election
\* (leadership) is overwritten before it is read again.
View ==
    <<state, currentTerm, votedFor, logVars, serviceVars, netVars, persister, restarts,
      [i \in Server |-> IF state[i] = Candidate THEN votes[i] ELSE {}],
      [i \in Server |-> IF state[i] = Leader THEN <<nextIndex[i], matchIndex[i]>> ELSE <<>>]>>
=============================================================================

-------------------------------- MODULE Raft --------------------------------
(***************************************************************************)
(* The Raft library of lab 3 (src/raft1/raft.go) together with the service *)
(* that consumes its apply channel (src/raft1/server.go).                  *)
(*                                                                         *)
(* Every critical section of rf.mu is one action.  An RPC is three of      *)
(* them: the caller builds the request and releases the lock, the handler  *)
(* runs at the peer, and the caller takes the lock again for the reply.    *)
(* The network may lose a request or a reply, delay it for ever, and       *)
(* deliver it in any order.                                                *)
(*                                                                         *)
(* Two abstractions: time is left out (the ticker may fire at any moment), *)
(* and messages sent on applyCh reach the service in the critical section  *)
(* that produced them.                                                     *)
(***************************************************************************)
EXTENDS Integers, Sequences, FiniteSets, FiniteSetsExt

CONSTANTS
    Server,       \* the peers
    Command,      \* what clients hand to Start
    None,         \* votedFor = -1 and the nil command
    SnapshotAt,   \* the indices after which the service takes a snapshot
    MaxTerm,      \* bound: no election beyond this term
    MaxIndex,     \* bound: no command is started beyond this index
    MaxRestarts,  \* bound: crashes followed by a restart
    MaxInFlight   \* bound: goroutines, requests and replies under way at once

ASSUME ServerAssumption == IsFiniteSet(Server) /\ None \notin Server
ASSUME CommandAssumption == None \notin Command
ASSUME BoundAssumption ==
    /\ SnapshotAt \subseteq Nat \ {0}
    /\ {MaxTerm, MaxIndex, MaxRestarts, MaxInFlight} \subseteq Nat

Follower == "Follower"
Candidate == "Candidate"
Leader == "Leader"

VARIABLES
    state, currentTerm, votedFor, \* as in type Raft
    log,            \* log[i][k + 1] is rf.log[k]: log[i][1] is the dummy entry
    snapshotIndex, snapshotTerm,
    commitIndex, lastApplied,
    nextIndex, matchIndex,
    votes,          \* the peers counted by the election's vote counter
    persister,      \* what tester.Persister holds
    heartbeats,     \* goroutines of sendHeartbeats that wait for rf.mu
    requests,       \* RPC requests on their way to the handler
    replies,        \* RPC replies on their way to the caller
    applied,        \* the service's log: a partial function on indices
    restarts        \* how many restarts there have been

electionVars == <<state, currentTerm, votedFor, votes>>
logVars == <<log, snapshotIndex, snapshotTerm>>
leaderVars == <<nextIndex, matchIndex>>
serviceVars == <<commitIndex, lastApplied, applied>>
netVars == <<heartbeats, requests, replies>>
vars == <<electionVars, logVars, leaderVars, serviceVars, netVars, persister, restarts>>

-----------------------------------------------------------------------------
(* Types *)

LogEntry == [term : Nat, command : Command \cup {None}]

Dummy(t) == [term |-> t, command |-> None]

\* A service snapshot: the entries applied up to some index; none is <<>>.
Image == Seq(LogEntry)

PersistentState ==
    [currentTerm : Nat, votedFor : Server \cup {None}, log : Seq(LogEntry) \ {<<>>},
     snapshotIndex : Nat, snapshotTerm : Nat, snapshot : Image]

Heartbeat ==
    [src : Server, dst : Server, term : Nat, commitIndex : Nat,
     snapshotIndex : Nat, snapshot : Image]

RequestVoteArgs ==
    [type : {"RequestVote"}, src : Server, dst : Server, term : Nat,
     lastLogIndex : Int, lastLogTerm : Nat]

AppendEntriesArgs ==
    [type : {"AppendEntries"}, src : Server, dst : Server, term : Nat,
     prevLogIndex : Int, prevLogTerm : Nat, entries : Seq(LogEntry),
     leaderCommit : Nat]

InstallSnapshotArgs ==
    [type : {"InstallSnapshot"}, src : Server, dst : Server, term : Nat,
     lastIncludedIndex : Nat, lastIncludedTerm : Nat, data : Image]

RequestVoteReply ==
    [type : {"RequestVote"}, args : RequestVoteArgs, term : Nat,
     voteGranted : BOOLEAN]

AppendEntriesReply ==
    [type : {"AppendEntries"}, args : AppendEntriesArgs, term : Nat,
     success : BOOLEAN, xTerm : Int, xIndex : Int, xLen : Int]

InstallSnapshotReply ==
    [type : {"InstallSnapshot"}, args : InstallSnapshotArgs, term : Nat]

-----------------------------------------------------------------------------
(* Logs and quorums *)

LastLogIndex(i) == snapshotIndex[i] + Len(log[i]) - 1

LastLogTerm(i) == log[i][Len(log[i])].term

IsMajority(n) == n > Cardinality(Server) \div 2

-----------------------------------------------------------------------------
(* The persister *)

\* persist() runs after the assignments of its caller: it saves the new values.
SaveState(i, image) ==
    persister' = [persister EXCEPT ![i] =
        [currentTerm |-> currentTerm'[i], votedFor |-> votedFor'[i], log |-> log'[i],
         snapshotIndex |-> snapshotIndex'[i], snapshotTerm |-> snapshotTerm'[i],
         snapshot |-> image]]

\* Faulty: the vote is left out.
persistTermAndLog(i) ==
    persister' = [persister EXCEPT ![i] =
        [@ EXCEPT !.currentTerm = currentTerm'[i], !.log = log'[i]]]

persist(i) == SaveState(i, persister[i].snapshot)

persistWithSnapshot(i, image) == SaveState(i, image)

-----------------------------------------------------------------------------
(* The network *)

InFlight == Cardinality(heartbeats) + Cardinality(requests) + Cardinality(replies)

\* The requests of ms that the network does not lose are put in flight.
Send(ms) ==
    \E sent \in SUBSET ms :
        /\ requests' = requests \cup sent
        /\ InFlight + Cardinality(sent) <= MaxInFlight

\* The handler of request m answers r; the network may lose the reply.
\* Heartbeat rounds repeat, so an identical request may still be under way.
Reply(m, r) ==
    /\ requests' \in {requests \ {m}} \cup (IF m.type = "RequestVote" THEN {} ELSE {requests})
    /\ replies' \in {replies, replies \cup {r}}
    /\ Cardinality(heartbeats) + Cardinality(requests') + Cardinality(replies') <= MaxInFlight

-----------------------------------------------------------------------------
(* Elections *)

\* Every handler first adopts a newer term; these are its values afterwards.
TermAfter(i, t) == Max({currentTerm[i], t})

\* Faulty: another value stands for no vote.
VoteAfterUnset(i, t) == IF t > currentTerm[i] THEN -1 ELSE votedFor[i]

VoteAfter(i, t) == IF t > currentTerm[i] THEN None ELSE votedFor[i]

\* The caller of an RPC learns of a newer term from the reply.
StepDown(i, t) ==
    /\ currentTerm' = [currentTerm EXCEPT ![i] = t]
    /\ votedFor' = [votedFor EXCEPT ![i] = None]
    /\ state' = [state EXCEPT ![i] = Follower]
    /\ UNCHANGED <<votes, logVars>>
    /\ persist(i)

\* The ticker found the election timeout expired.  Its test and this critical
\* section are separate, so the server may have won its election in between.
startElection(i) ==
    /\ currentTerm[i] < MaxTerm
    /\ state' = [state EXCEPT ![i] = Candidate]
    /\ currentTerm' = [currentTerm EXCEPT ![i] = @ + 1]
    /\ votedFor' = [votedFor EXCEPT ![i] = i]
    /\ votes' = [votes EXCEPT ![i] = {i}]
    /\ UNCHANGED logVars
    /\ persist(i)
    /\ Send({[type |-> "RequestVote", src |-> i, dst |-> j, term |-> currentTerm[i] + 1,
              lastLogIndex |-> LastLogIndex(i), lastLogTerm |-> LastLogTerm(i)]
             : j \in Server \ {i}})
    /\ UNCHANGED <<leaderVars, serviceVars, heartbeats, replies, restarts>>

\* Faulty: the longer log wins, whatever its last term.
UpToDateByLength(i, m) == m.lastLogIndex >= LastLogIndex(i)

UpToDate(i, m) ==
    \/ m.lastLogTerm > LastLogTerm(i)
    \/ m.lastLogTerm = LastLogTerm(i) /\ m.lastLogIndex >= LastLogIndex(i)

\* Faulty: an earlier vote in the same term is not looked at.
CanVoteAgain(i, m) == m.term >= currentTerm[i] /\ UpToDate(i, m)

CanVote(i, m) ==
    /\ m.term >= currentTerm[i]
    /\ VoteAfter(i, m.term) \in {None, m.src}
    /\ UpToDate(i, m)

RequestVote(m) ==
    LET i == m.dst
        granted == CanVote(i, m)
        newTerm == m.term > currentTerm[i]
    IN  /\ m.type = "RequestVote"
        /\ currentTerm' = [currentTerm EXCEPT ![i] = TermAfter(i, m.term)]
        /\ votedFor' = [votedFor EXCEPT ![i] = IF granted THEN m.src ELSE VoteAfter(i, m.term)]
        /\ state' = [state EXCEPT ![i] = IF newTerm \/ granted THEN Follower ELSE @]
        /\ UNCHANGED <<votes, logVars>>
        /\ IF newTerm \/ granted THEN persist(i) ELSE UNCHANGED persister
        /\ Reply(m, [type |-> "RequestVote", args |-> m, term |-> currentTerm[i],
                     voteGranted |-> granted])
        /\ UNCHANGED <<leaderVars, serviceVars, heartbeats, restarts>>

BecomeLeader(i) ==
    /\ state' = [state EXCEPT ![i] = Leader]
    /\ nextIndex' = [nextIndex EXCEPT ![i] = [j \in Server |-> LastLogIndex(i) + 1]]
    /\ matchIndex' = [matchIndex EXCEPT ![i] =
            [j \in Server |-> IF j = i THEN LastLogIndex(i) ELSE snapshotIndex[i]]]

\* The caller is still in the role and the term in which it made the call.
Awaited(r, role) ==
    state[r.args.src] = role /\ currentTerm[r.args.src] = r.args.term

\* startElection's goroutine takes the lock again with the reply to its RPC.
requestVoteReply(r) ==
    LET i == r.args.src
    IN  /\ r.type = "RequestVote"
        /\ replies' = replies \ {r}
        /\ \/ /\ ~Awaited(r, Candidate)
              /\ UNCHANGED <<electionVars, logVars, leaderVars, persister>>
           \/ /\ Awaited(r, Candidate) /\ r.term > currentTerm[i]
              /\ StepDown(i, r.term)
              /\ UNCHANGED leaderVars
           \/ /\ Awaited(r, Candidate) /\ r.term <= currentTerm[i]
              /\ votes' = [votes EXCEPT ![i] = IF r.voteGranted THEN @ \cup {r.args.dst} ELSE @]
              /\ IF r.voteGranted /\ IsMajority(Cardinality(votes'[i]))
                 THEN BecomeLeader(i)
                 ELSE UNCHANGED <<state, leaderVars>>
              /\ UNCHANGED <<currentTerm, votedFor, logVars, persister>>
        /\ UNCHANGED <<serviceVars, heartbeats, requests, restarts>>

-----------------------------------------------------------------------------
(* Replication: the leader's side *)

Start(i, command) ==
    /\ state[i] = Leader
    /\ LastLogIndex(i) < MaxIndex
    /\ log' = [log EXCEPT ![i] = Append(@, [term |-> currentTerm[i], command |-> command])]
    /\ UNCHANGED <<electionVars, snapshotIndex, snapshotTerm>>
    /\ persist(i)
    /\ UNCHANGED <<leaderVars, serviceVars, netVars, restarts>>

\* The first critical section of sendHeartbeats: a goroutine per peer, each with
\* the values read here.  A goroutine whose RPC is lost is left out.
sendHeartbeats(i) ==
    /\ state[i] = Leader
    /\ \E peers \in SUBSET (Server \ {i}) :
        /\ InFlight + Cardinality(peers) <= MaxInFlight
        /\ heartbeats' = heartbeats \cup
            {[src |-> i, dst |-> j, term |-> currentTerm[i], commitIndex |-> commitIndex[i],
              snapshotIndex |-> snapshotIndex[i], snapshot |-> persister[i].snapshot]
             : j \in peers}
    /\ UNCHANGED <<electionVars, logVars, leaderVars, serviceVars, requests, replies,
                   persister, restarts>>

\* A goroutine ends its wait for rf.mu (an identical one may still wait).
GoroutineRuns(h) == heartbeats' \in {heartbeats, heartbeats \ {h}}

StillLeading(h) == state[h.src] = Leader /\ currentTerm[h.src] = h.term

heartbeatStale(h) ==
    /\ ~StillLeading(h)
    /\ heartbeats' = heartbeats \ {h}
    /\ UNCHANGED <<electionVars, logVars, leaderVars, serviceVars, requests, replies,
                   persister, restarts>>

NeedsSnapshot(h) ==
    nextIndex[h.src][h.dst] <= h.snapshotIndex /\ Len(h.snapshot) > 0

\* The second critical section takes snapshotTerm from the server, the rest from h.
SnapshotArgs(h) ==
    [type |-> "InstallSnapshot", src |-> h.src, dst |-> h.dst, term |-> h.term,
     lastIncludedIndex |-> h.snapshotIndex, lastIncludedTerm |-> snapshotTerm[h.src],
     data |-> h.snapshot]

AppendArgs(h) ==
    LET i == h.src
        prev == nextIndex[i][h.dst] - 1
        logIdx == prev - snapshotIndex[i]
        startIdx == logIdx + 1
    IN  [type |-> "AppendEntries", src |-> i, dst |-> h.dst, term |-> h.term,
         prevLogIndex |-> prev,
         prevLogTerm |-> IF 0 <= logIdx /\ logIdx < Len(log[i]) THEN log[i][logIdx + 1].term ELSE 0,
         entries |-> IF 0 <= startIdx /\ startIdx < Len(log[i])
                     THEN SubSeq(log[i], startIdx + 1, Len(log[i])) ELSE <<>>,
         leaderCommit |-> h.commitIndex]

\* The goroutine's second critical section: it chooses the RPC and sends it.
heartbeatSend(h) ==
    /\ StillLeading(h)
    /\ GoroutineRuns(h)
    /\ requests' = requests \cup {IF NeedsSnapshot(h) THEN SnapshotArgs(h) ELSE AppendArgs(h)}
    /\ Cardinality(heartbeats') + Cardinality(requests') + Cardinality(replies) <= MaxInFlight
    /\ UNCHANGED <<electionVars, logVars, leaderVars, serviceVars, replies, persister, restarts>>

\* Faulty: everything the leader has by now counts as acknowledged.
NewMatchOfLog(r) == LastLogIndex(r.args.src)

\* The request acknowledged by r covered the log up to here.
NewMatch(r) == r.args.prevLogIndex + Len(r.args.entries)

\* The goroutine's last critical section, after its AppendEntries RPC.
appendEntriesReply(r) ==
    LET i == r.args.src
        j == r.args.dst
        backUp == IF r.xTerm = -1 THEN r.xLen ELSE r.xIndex
    IN  /\ r.type = "AppendEntries"
        /\ replies' = replies \ {r}
        /\ \/ /\ ~Awaited(r, Leader)
              /\ UNCHANGED <<electionVars, logVars, leaderVars, persister>>
           \/ /\ Awaited(r, Leader) /\ r.success
              /\ IF NewMatch(r) > matchIndex[i][j]
                 THEN /\ matchIndex' = [matchIndex EXCEPT ![i][j] = NewMatch(r)]
                      /\ nextIndex' = [nextIndex EXCEPT ![i][j] = NewMatch(r) + 1]
                 ELSE UNCHANGED leaderVars
              /\ UNCHANGED <<electionVars, logVars, persister>>
           \/ /\ Awaited(r, Leader) /\ ~r.success /\ r.term > currentTerm[i]
              /\ StepDown(i, r.term)
              /\ UNCHANGED leaderVars
           \/ /\ Awaited(r, Leader) /\ ~r.success /\ r.term <= currentTerm[i]
              /\ nextIndex' = [nextIndex EXCEPT ![i][j] = Max({backUp, 1})]
              /\ UNCHANGED <<electionVars, logVars, matchIndex, persister>>
        /\ UNCHANGED <<serviceVars, heartbeats, requests, restarts>>

installSnapshotReply(r) ==
    LET i == r.args.src
        j == r.args.dst
    IN  /\ r.type = "InstallSnapshot"
        /\ replies' = replies \ {r}
        /\ \/ /\ ~Awaited(r, Leader)
              /\ UNCHANGED <<electionVars, logVars, leaderVars, persister>>
           \/ /\ Awaited(r, Leader) /\ r.term > currentTerm[i]
              /\ StepDown(i, r.term)
              /\ UNCHANGED leaderVars
           \/ /\ Awaited(r, Leader) /\ r.term <= currentTerm[i]
              /\ matchIndex' = [matchIndex EXCEPT ![i][j] = r.args.lastIncludedIndex]
              /\ nextIndex' = [nextIndex EXCEPT ![i][j] = r.args.lastIncludedIndex + 1]
              /\ UNCHANGED <<electionVars, logVars, persister>>
        /\ UNCHANGED <<serviceVars, heartbeats, requests, restarts>>

\* Faulty: an entry of any term is committed by counting replicas.
CommittableOfAnyTerm(i) ==
    {n \in commitIndex[i] + 1 .. LastLogIndex(i) :
        IsMajority(1 + Cardinality({j \in Server \ {i} : matchIndex[i][j] >= n}))}

\* Faulty: the leader counts itself twice.
CommittableTooEarly(i) ==
    {n \in commitIndex[i] + 1 .. LastLogIndex(i) :
        /\ log[i][n - snapshotIndex[i] + 1].term = currentTerm[i]
        /\ IsMajority(1 + Cardinality({j \in Server : matchIndex[i][j] >= n \/ j = i}))}

\* The indices of the current term that a majority has acknowledged.
Committable(i) ==
    {n \in commitIndex[i] + 1 .. LastLogIndex(i) :
        /\ log[i][n - snapshotIndex[i] + 1].term = currentTerm[i]
        /\ IsMajority(1 + Cardinality({j \in Server \ {i} : matchIndex[i][j] >= n}))}

updateCommitIndex(i) ==
    /\ state[i] = Leader
    /\ Committable(i) # {}
    /\ commitIndex' = [commitIndex EXCEPT ![i] = Max(Committable(i))]
    /\ UNCHANGED <<electionVars, logVars, leaderVars, lastApplied, applied, netVars,
                   persister, restarts>>

-----------------------------------------------------------------------------
(* Replication: the follower's side *)

\* What both handlers do with a request of the current or a newer term.
FollowLeader(i, t) ==
    /\ currentTerm' = [currentTerm EXCEPT ![i] = TermAfter(i, t)]
    /\ votedFor' = [votedFor EXCEPT ![i] = VoteAfter(i, t)]
    /\ state' = [state EXCEPT ![i] = Follower]
    /\ UNCHANGED votes

\* Faulty: the log is cut behind prevLogIndex whatever the entries are.
MergeCuts(lg, at, es) == SubSeq(lg, 1, at) \o es

\* Faulty: an entry that is there is never replaced.
MergeKeepsOld(lg, at, es) == lg \o SubSeq(es, Len(lg) - at + 1, Len(es))

\* The loop over args.Entries: skip what is there, cut at the first entry of
\* another term, append the rest.  lg[at] is the entry at prevLogIndex.
Merge(lg, at, es) ==
    LET differ == {k \in 1..Len(es) : at + k <= Len(lg) /\ lg[at + k].term # es[k].term}
        keep == IF differ = {} THEN Len(lg) ELSE at + Min(differ) - 1
    IN  SubSeq(lg, 1, keep) \o SubSeq(es, keep - at + 1, Len(es))

\* Whether the follower's log holds the entry the new ones are to follow.
PrevInLog(i, m) ==
    LET logIndex == m.prevLogIndex - snapshotIndex[i]
    IN  /\ 0 <= logIndex /\ logIndex < Len(log[i])
        /\ log[i][logIndex + 1].term = m.prevLogTerm

\* Where a follower that rejects m tells the leader to resume.
BackUp(i, m) ==
    LET logIndex == m.prevLogIndex - snapshotIndex[i]
        xTerm == log[i][logIndex + 1].term
        others == {k \in 0..logIndex - 1 : log[i][k + 1].term # xTerm}
    IN  IF logIndex < 0 \/ logIndex >= Len(log[i])
        THEN [xTerm |-> -1, xIndex |-> -1]
        ELSE [xTerm |-> xTerm,
              xIndex |-> IF others = {} THEN m.prevLogIndex
                         ELSE snapshotIndex[i] + Max(others) + 1]

CommitAfter(i, m) ==
    IF m.leaderCommit > commitIndex[i]
    THEN Min({m.prevLogIndex + Len(m.entries), m.leaderCommit})
    ELSE commitIndex[i]

AppendEntries(m) ==
    LET i == m.dst
        answer(ok, back, xLen) ==
            [type |-> "AppendEntries", args |-> m, term |-> currentTerm[i], success |-> ok,
             xTerm |-> back.xTerm, xIndex |-> back.xIndex, xLen |-> xLen]
        unset == [xTerm |-> 0, xIndex |-> 0]
    IN  /\ m.type = "AppendEntries"
        /\ \/ /\ m.term < currentTerm[i]
              /\ Reply(m, answer(FALSE, unset, 0))
              /\ UNCHANGED <<electionVars, logVars, commitIndex, persister>>
           \/ /\ m.term >= currentTerm[i] /\ ~PrevInLog(i, m)
              /\ FollowLeader(i, m.term)
              /\ UNCHANGED <<logVars, commitIndex>>
              /\ IF m.term > currentTerm[i] THEN persist(i) ELSE UNCHANGED persister
              /\ Reply(m, answer(FALSE, BackUp(i, m), snapshotIndex[i] + Len(log[i])))
           \/ /\ m.term >= currentTerm[i] /\ PrevInLog(i, m)
              /\ FollowLeader(i, m.term)
              /\ log' = [log EXCEPT ![i] =
                            Merge(@, m.prevLogIndex - snapshotIndex[i] + 1, m.entries)]
              /\ commitIndex' = [commitIndex EXCEPT ![i] = CommitAfter(i, m)]
              /\ UNCHANGED <<snapshotIndex, snapshotTerm>>
              /\ IF m.term > currentTerm[i] \/ m.entries # <<>>
                 THEN persist(i) ELSE UNCHANGED persister
              /\ Reply(m, answer(TRUE, unset, 0))
        /\ UNCHANGED <<leaderVars, lastApplied, applied, heartbeats, restarts>>

\* Faulty: the entry at index is kept as well.
CompactKeepsIndex(i, index, t) ==
    <<Dummy(t)>> \o SubSeq(log[i], index - snapshotIndex[i] + 1, Len(log[i]))

\* Faulty: nothing is kept.
CompactKeepsNothing(i, index, t) == <<Dummy(t)>>

\* The log above index, behind a new dummy entry.
Compact(i, index, t) ==
    <<Dummy(t)>> \o SubSeq(log[i], index - snapshotIndex[i] + 2, Len(log[i]))

InstallSnapshot(m) ==
    LET i == m.dst
    IN  /\ m.type = "InstallSnapshot"
        /\ Reply(m, [type |-> "InstallSnapshot", args |-> m, term |-> currentTerm[i]])
        /\ \/ /\ m.term < currentTerm[i]
              /\ UNCHANGED <<electionVars, logVars, serviceVars, persister>>
           \/ /\ m.term >= currentTerm[i] /\ m.lastIncludedIndex <= snapshotIndex[i]
              /\ FollowLeader(i, m.term)
              /\ UNCHANGED <<logVars, serviceVars>>
              /\ IF m.term > currentTerm[i] THEN persist(i) ELSE UNCHANGED persister
           \/ /\ m.term >= currentTerm[i] /\ m.lastIncludedIndex > snapshotIndex[i]
              /\ FollowLeader(i, m.term)
              /\ log' = [log EXCEPT ![i] = Compact(i, m.lastIncludedIndex, m.lastIncludedTerm)]
              /\ snapshotIndex' = [snapshotIndex EXCEPT ![i] = m.lastIncludedIndex]
              /\ snapshotTerm' = [snapshotTerm EXCEPT ![i] = m.lastIncludedTerm]
              /\ commitIndex' = [commitIndex EXCEPT ![i] = Max({@, m.lastIncludedIndex})]
              /\ lastApplied' = [lastApplied EXCEPT ![i] = Max({@, m.lastIncludedIndex})]
              /\ applied' = [applied EXCEPT ![i] = m.data]
              /\ persistWithSnapshot(i, m.data)
        /\ UNCHANGED <<leaderVars, heartbeats, restarts>>

-----------------------------------------------------------------------------
(* The service *)

\* The entries that applyCommitted hands to the service.
Deliverable(i) ==
    {n \in lastApplied[i] + 1 .. commitIndex[i] :
        0 <= n - snapshotIndex[i] /\ n - snapshotIndex[i] < Len(log[i])}

applyCommitted(i) ==
    /\ lastApplied[i] < commitIndex[i]
    /\ lastApplied' = [lastApplied EXCEPT ![i] = commitIndex[i]]
    /\ applied' = [applied EXCEPT ![i] =
            [n \in DOMAIN @ \cup Deliverable(i) |->
                IF n \in Deliverable(i) THEN log[i][n - snapshotIndex[i] + 1] ELSE @[n]]]
    /\ UNCHANGED <<electionVars, logVars, leaderVars, commitIndex, netVars, persister, restarts>>

\* The service's state after index; an index it has skipped is encoded as nil.
ImageAt(i, index) ==
    [n \in 1..index |-> IF n \in DOMAIN applied[i] THEN applied[i][n] ELSE Dummy(0)]

\* The service has applied index and calls Snapshot.
Snapshot(i, index) ==
    LET t == log[i][index - snapshotIndex[i] + 1].term
    IN  /\ index \in DOMAIN applied[i]
        /\ snapshotIndex[i] < index /\ index - snapshotIndex[i] < Len(log[i])
        /\ snapshotTerm' = [snapshotTerm EXCEPT ![i] = t]
        /\ snapshotIndex' = [snapshotIndex EXCEPT ![i] = index]
        /\ log' = [log EXCEPT ![i] = Compact(i, index, t)]
        /\ commitIndex' = [commitIndex EXCEPT ![i] = Max({@, index})]
        /\ lastApplied' = [lastApplied EXCEPT ![i] = Max({@, index})]
        /\ IF state[i] = Leader
           THEN /\ nextIndex' = [nextIndex EXCEPT ![i] =
                       [j \in Server |-> IF j = i THEN @[j] ELSE Max({@[j], index + 1})]]
                /\ matchIndex' = [matchIndex EXCEPT ![i] =
                       [j \in Server |-> Max({@[j], index})]]
           ELSE UNCHANGED leaderVars
        /\ UNCHANGED electionVars
        /\ persistWithSnapshot(i, ImageAt(i, index))
        /\ UNCHANGED <<applied, netVars, restarts>>

\* Kill, then Make and readPersist on what the persister holds; the service
\* starts again from its snapshot.
Restart(i) ==
    /\ restarts < MaxRestarts
    /\ restarts' = restarts + 1
    /\ currentTerm' = [currentTerm EXCEPT ![i] = persister[i].currentTerm]
    /\ votedFor' = [votedFor EXCEPT ![i] = persister[i].votedFor]
    /\ log' = [log EXCEPT ![i] = persister[i].log]
    /\ snapshotIndex' = [snapshotIndex EXCEPT ![i] = persister[i].snapshotIndex]
    /\ snapshotTerm' = [snapshotTerm EXCEPT ![i] = persister[i].snapshotTerm]
    /\ commitIndex' = [commitIndex EXCEPT ![i] = persister[i].snapshotIndex]
    /\ lastApplied' = [lastApplied EXCEPT ![i] = persister[i].snapshotIndex]
    /\ applied' = [applied EXCEPT ![i] = persister[i].snapshot]
    /\ state' = [state EXCEPT ![i] = Follower]
    /\ votes' = [votes EXCEPT ![i] = {}]
    /\ nextIndex' = [nextIndex EXCEPT ![i] = [j \in Server |-> 0]]
    /\ matchIndex' = [matchIndex EXCEPT ![i] = [j \in Server |-> 0]]
    /\ heartbeats' = {h \in heartbeats : h.src # i}
    /\ replies' = {r \in replies : r.args.src # i}
    /\ UNCHANGED <<requests, persister>>

-----------------------------------------------------------------------------
(* Specification *)

Init ==
    /\ state = [i \in Server |-> Follower]
    /\ currentTerm = [i \in Server |-> 0]
    /\ votedFor = [i \in Server |-> None]
    /\ log = [i \in Server |-> <<Dummy(0)>>]
    /\ snapshotIndex = [i \in Server |-> 0]
    /\ snapshotTerm = [i \in Server |-> 0]
    /\ commitIndex = [i \in Server |-> 0]
    /\ lastApplied = [i \in Server |-> 0]
    /\ nextIndex = [i \in Server |-> [j \in Server |-> 0]]
    /\ matchIndex = [i \in Server |-> [j \in Server |-> 0]]
    /\ votes = [i \in Server |-> {}]
    /\ persister = [i \in Server |->
            [currentTerm |-> 0, votedFor |-> None, log |-> <<Dummy(0)>>,
             snapshotIndex |-> 0, snapshotTerm |-> 0, snapshot |-> <<>>]]
    /\ heartbeats = {} /\ requests = {} /\ replies = {}
    /\ applied = [i \in Server |-> <<>>]
    /\ restarts = 0

Next ==
    \/ \E i \in Server :
        \/ startElection(i)
        \/ sendHeartbeats(i)
        \/ updateCommitIndex(i)
        \/ applyCommitted(i)
        \/ Restart(i)
        \/ \E command \in Command : Start(i, command)
        \/ \E index \in SnapshotAt : Snapshot(i, index)
    \/ \E h \in heartbeats : heartbeatStale(h) \/ heartbeatSend(h)
    \/ \E m \in requests : RequestVote(m) \/ AppendEntries(m) \/ InstallSnapshot(m)
    \/ \E r \in replies :
        requestVoteReply(r) \/ appendEntriesReply(r) \/ installSnapshotReply(r)

Spec == Init /\ [][Next]_vars
-----------------------------------------------------------------------------
(* Properties *)

\* Every variable keeps its type.
TypeOK ==
    /\ state \in [Server -> {Follower, Candidate, Leader}]
    /\ currentTerm \in [Server -> Nat]
    /\ votedFor \in [Server -> Server \cup {None}]
    /\ votes \in [Server -> SUBSET Server]
    /\ log \in [Server -> Seq(LogEntry) \ {<<>>}]
    /\ snapshotIndex \in [Server -> Nat] /\ snapshotTerm \in [Server -> Nat]
    /\ commitIndex \in [Server -> Nat] /\ lastApplied \in [Server -> Nat]
    /\ nextIndex \in [Server -> [Server -> Int]]
    /\ matchIndex \in [Server -> [Server -> Int]]
    /\ persister \in [Server -> PersistentState]
    /\ heartbeats \subseteq Heartbeat
    /\ requests \subseteq RequestVoteArgs \cup AppendEntriesArgs \cup InstallSnapshotArgs
    /\ replies \subseteq RequestVoteReply \cup AppendEntriesReply \cup InstallSnapshotReply
    /\ DOMAIN applied = Server
    /\ \A i \in Server : \A n \in DOMAIN applied[i] : n \in Nat \ {0} /\ applied[i][n] \in LogEntry
    /\ restarts \in Nat

\* At most one server wins the election of a term, whatever votes are lost,
\* delayed or granted before a restart.
ElectionSafety ==
    \A i, j \in Server :
        state[i] = Leader /\ state[j] = Leader /\ currentTerm[i] = currentTerm[j] => i = j

\* Services never apply different commands at the same index.
StateMachineSafety ==
    \A i, j \in Server : \A n \in DOMAIN applied[i] \cap DOMAIN applied[j] :
        applied[i][n].command = applied[j][n].command /\ applied[i][n].term = applied[j][n].term

\* The log a restart would come back with: the snapshot and what follows it.
SavedLast(i) == persister[i].snapshotIndex + Len(persister[i].log) - 1

SavedEntry(i, n) ==
    LET p == persister[i]
    IN  IF n <= p.snapshotIndex THEN p.snapshot[n] ELSE p.log[n - p.snapshotIndex + 1]

Holds(i, n, e) == n <= SavedLast(i) /\ SavedEntry(i, n) = e

\* An index that some server takes for committed is on the disks of a majority.
CommittedIsDurable ==
    \A i \in Server : \A n \in 1..commitIndex[i] :
        /\ n <= SavedLast(i)
        /\ IsMajority(Cardinality({j \in Server : Holds(j, n, SavedEntry(i, n))}))

\* A leader has every entry that a server of its term, or of an older one, takes
\* for committed.
LeaderCompleteness ==
    \A i, j \in Server :
        state[i] = Leader /\ currentTerm[j] <= currentTerm[i] =>
            \A n \in 1..commitIndex[j] : Holds(i, n, SavedEntry(j, n))

\* Logs that agree on the term of an entry agree on everything before it.
LogMatching ==
    \A i, j \in Server :
        \A n \in 1..SavedLast(i) \cap 1..SavedLast(j) :
            SavedEntry(i, n).term = SavedEntry(j, n).term =>
                \A k \in 1..n : SavedEntry(i, k) = SavedEntry(j, k)

\* What a leader counts as acknowledged, and has not committed yet, is on the
\* follower's disk as long as the follower has not moved to another term.
MatchIndexIsStored ==
    \A i \in Server, j \in Server :
        state[i] = Leader /\ currentTerm[j] = currentTerm[i] /\ i # j =>
            \A n \in commitIndex[i] + 1 .. matchIndex[i][j] :
                n <= SavedLast(i) /\ Holds(j, n, SavedEntry(i, n))

\* applyCommitted finds every entry that it is to deliver: it never has to pass
\* over an index that a snapshot or a truncation removed.
NothingSkipped ==
    \A i \in Server : \A n \in lastApplied[i] + 1 .. commitIndex[i] :
        snapshotIndex[i] < n /\ n <= LastLogIndex(i)

\* Terms only grow, and a vote is kept for the rest of its term, across restarts.
VoteIsKept ==
    [][\A i \in Server :
        /\ currentTerm'[i] >= currentTerm[i]
        /\ currentTerm'[i] = currentTerm[i] /\ votedFor[i] # None => votedFor'[i] = votedFor[i]
      ]_vars

\* No step, a restart included, removes or changes an entry its server took for
\* committed.
CommittedIsKept ==
    [][\A i \in Server : \A n \in 1..commitIndex[i] :
        n <= SavedLast(i)' /\ SavedEntry(i, n)' = SavedEntry(i, n)]_vars
=============================================================================

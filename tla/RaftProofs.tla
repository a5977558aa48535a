----------------------------- MODULE RaftProofs -----------------------------
(***************************************************************************)
(* Theorems about Raft, for every set of servers and every bound.          *)
(***************************************************************************)
EXTENDS Raft, FiniteSetTheorems, SequenceTheorems, TLAPS

-----------------------------------------------------------------------------
(* Maxima and minima *)

\* The maximum of two numbers, as the handlers compute it.
LEMMA MaxPair ==
    ASSUME NEW a \in Int, NEW b \in Int
    PROVE  Max({a, b}) = IF a >= b THEN a ELSE b
  BY DEF Max

\* The minimum of two numbers, as AppendEntries computes it for commitIndex.
LEMMA MinPair ==
    ASSUME NEW a \in Int, NEW b \in Int
    PROVE  Min({a, b}) = IF a =< b THEN a ELSE b
  BY DEF Min

\* A set of natural numbers has a least element.
LEMMA NatMin ==
    ASSUME NEW S \in SUBSET Nat, S # {}
    PROVE  \E x \in S : \A y \in S : x =< y
<1> DEFINE R == OpToRel(<, Nat)
<1>1. IsWellFoundedOn(R, Nat)
  BY NatLessThanWellFounded
<1>2. \A x, y \in Nat : y < x => <<y, x>> \in R
  BY Zenon DEF OpToRel
<1> HIDE DEF R
<1>3. \E x \in S : \A y \in S : ~ (<<y, x>> \in R)
  BY <1>1, WFMin
<1>4. \E x \in S : \A y \in S : ~ (y < x)
  BY <1>2, <1>3, Zenon
<1> QED
  BY <1>4

\* Min picks a member: where Merge cuts is an index of the request.
LEMMA NonemptyMin ==
    ASSUME NEW S \in SUBSET Nat, S # {}
    PROVE  Min(S) \in S /\ \A y \in S : Min(S) =< y
  BY NatMin DEF Min

\* Max of a bounded set picks a member: updateCommitIndex chooses a committable index.
LEMMA BoundedMax ==
    ASSUME NEW S \in SUBSET Int, S # {}, NEW b \in Int, \A x \in S : x =< b
    PROVE  Max(S) \in S
<1> DEFINE T == {n \in Nat : b - n \in S}
<1>1. T \in SUBSET Nat /\ T # {}
  <2>1. PICK x \in S : TRUE
    OBVIOUS
  <2>2. b - x \in Nat /\ b - (b - x) = x
    OBVIOUS
  <2> QED
    BY <2>1, <2>2
<1>2. PICK n \in T : \A m \in T : n =< m
  BY <1>1, NatMin
<1>3. \A y \in S : b - y \in T
  OBVIOUS
<1>4. b - n \in S /\ \A y \in S : b - n >= y
  BY <1>2, <1>3
<1> QED
  BY <1>4 DEF Max
-----------------------------------------------------------------------------
(* Types *)

\* The dummy entry at log[0] is an entry.
LEMMA DummyType == ASSUME NEW t \in Nat PROVE Dummy(t) \in LogEntry
  BY DEF Dummy, LogEntry

\* A suffix of a log, and a log behind a new dummy entry.
LEMMA SuffixType ==
    ASSUME NEW lg \in Seq(LogEntry), NEW k \in Nat \ {0}
    PROVE  SubSeq(lg, k, Len(lg)) \in Seq(LogEntry)
<1>1. Len(lg) \in Nat /\ \A n \in k..Len(lg) : lg[n] \in LogEntry
  BY LenProperties
<1> QED
  BY <1>1, SubSeqProperties

\* Compaction leaves a log that starts with a dummy entry.
LEMMA CompactType ==
    ASSUME TypeOK, NEW i \in Server, NEW index \in Nat, NEW t \in Nat,
           index > snapshotIndex[i]
    PROVE  Compact(i, index, t) \in Seq(LogEntry) \ {<<>>}
<1> DEFINE rest == SubSeq(log[i], index - snapshotIndex[i] + 2, Len(log[i]))
<1>1. log[i] \in Seq(LogEntry) /\ index - snapshotIndex[i] + 2 \in Nat \ {0}
  BY DEF TypeOK
<1>2. rest \in Seq(LogEntry)
  BY <1>1, SuffixType
<1>3. <<Dummy(t)>> \in Seq(LogEntry) /\ Len(<<Dummy(t)>>) = 1
  BY DummyType
<1> HIDE DEF rest
<1>4. <<Dummy(t)>> \o rest \in Seq(LogEntry) /\ Len(<<Dummy(t)>> \o rest) = 1 + Len(rest)
  BY <1>2, <1>3, ConcatProperties
<1>5. <<Dummy(t)>> \o rest # <<>>
  BY <1>2, <1>4, LenProperties, EmptySeq
<1> QED
  BY <1>4, <1>5 DEF Compact, rest

\* The entry loop of AppendEntries never empties the log.
LEMMA MergeType ==
    ASSUME NEW lg \in Seq(LogEntry) \ {<<>>}, NEW at \in 1..Len(lg), NEW es \in Seq(LogEntry)
    PROVE  Merge(lg, at, es) \in Seq(LogEntry) \ {<<>>}
<1> DEFINE differ == {k \in 1..Len(es) : at + k <= Len(lg) /\ lg[at + k].term # es[k].term}
           keep == IF differ = {} THEN Len(lg) ELSE at + Min(differ) - 1
<1>1. Len(lg) \in Nat /\ Len(es) \in Nat /\ Len(lg) > 0
  BY LenProperties, EmptySeq
<1>2. differ \in SUBSET Nat
  BY <1>1
<1>3. differ # {} => Min(differ) \in differ
  BY <1>2, NonemptyMin
<1>4. keep \in at..Len(lg)
  BY <1>1, <1>3
<1> HIDE DEF keep
<1>5. /\ SubSeq(lg, 1, keep) \in Seq(LogEntry)
      /\ Len(SubSeq(lg, 1, keep)) = keep
  <2>1. \A n \in 1..keep : lg[n] \in LogEntry
    BY <1>1, <1>4, LenProperties
  <2> QED
    BY <1>1, <1>4, <2>1, SubSeqProperties
<1>6. SubSeq(es, keep - at + 1, Len(es)) \in Seq(LogEntry)
  BY <1>1, <1>4, SuffixType
<1>7. /\ SubSeq(lg, 1, keep) \o SubSeq(es, keep - at + 1, Len(es)) \in Seq(LogEntry)
      /\ Len(SubSeq(lg, 1, keep) \o SubSeq(es, keep - at + 1, Len(es))) >= keep
  BY <1>1, <1>4, <1>5, <1>6, ConcatProperties, LenProperties
<1>8. SubSeq(lg, 1, keep) \o SubSeq(es, keep - at + 1, Len(es)) # <<>>
  BY <1>1, <1>4, <1>7, EmptySeq
<1> QED
  BY <1>7, <1>8 DEF Merge, keep

\* The facts about one server that the steps below use.
LEMMA ServerTypes ==
    ASSUME TypeOK, NEW i \in Server
    PROVE  /\ log[i] \in Seq(LogEntry) /\ Len(log[i]) \in Nat /\ Len(log[i]) > 0
           /\ \A k \in 1..Len(log[i]) : log[i][k] \in LogEntry /\ log[i][k].term \in Nat
           /\ LastLogTerm(i) \in Nat
           /\ LastLogIndex(i) \in Nat
<1>1. log[i] \in Seq(LogEntry) /\ log[i] # <<>> /\ snapshotIndex[i] \in Nat
  BY DEF TypeOK
<1>2. Len(log[i]) \in Nat /\ Len(log[i]) > 0
  BY <1>1, LenProperties, EmptySeq
<1>3. \A k \in 1..Len(log[i]) : log[i][k] \in LogEntry
  BY <1>1, <1>2, LenProperties
<1>4. \A k \in 1..Len(log[i]) : log[i][k].term \in Nat
  BY <1>3 DEF LogEntry
<1> QED
  BY <1>1, <1>2, <1>3, <1>4 DEF LastLogTerm, LastLogIndex

\* What the service encodes for Snapshot is a snapshot.
LEMMA ImageType ==
    ASSUME TypeOK, NEW i \in Server, NEW index \in Nat
    PROVE  ImageAt(i, index) \in Seq(LogEntry)
<1>1. \A n \in 1..index :
        (IF n \in DOMAIN applied[i] THEN applied[i][n] ELSE Dummy(0)) \in LogEntry
  BY DummyType DEF TypeOK
<1>2. ImageAt(i, index) \in [1..index -> LogEntry]
  BY <1>1 DEF ImageAt
<1> QED
  BY <1>2

\* SaveState writes well-typed values when the caller has assigned such values.
LEMMA SaveStateType ==
    ASSUME TypeOK, NEW i \in Server, NEW image \in Image, SaveState(i, image),
           currentTerm' \in [Server -> Nat], votedFor' \in [Server -> Server \cup {None}],
           log' \in [Server -> Seq(LogEntry) \ {<<>>}],
           snapshotIndex' \in [Server -> Nat], snapshotTerm' \in [Server -> Nat]
    PROVE  persister' \in [Server -> PersistentState]
  BY DEF SaveState, TypeOK, PersistentState

\* persist() and persistWithSnapshot() write a well-formed state.
LEMMA PersistType ==
    ASSUME TypeOK, NEW i \in Server, persist(i),
           currentTerm' \in [Server -> Nat], votedFor' \in [Server -> Server \cup {None}],
           log' \in [Server -> Seq(LogEntry) \ {<<>>}],
           snapshotIndex' \in [Server -> Nat], snapshotTerm' \in [Server -> Nat]
    PROVE  persister' \in [Server -> PersistentState]
<1>1. persister[i].snapshot \in Image
  BY DEF TypeOK, PersistentState
<1> QED
  BY <1>1, SaveStateType DEF persist

\* The types of the variables that an election step, a handler or a reply assigns.
LEMMA TermAfterType ==
    ASSUME TypeOK, NEW i \in Server, NEW t \in Nat
    PROVE  /\ TermAfter(i, t) \in Nat
           /\ TermAfter(i, t) = IF t > currentTerm[i] THEN t ELSE currentTerm[i]
           /\ VoteAfter(i, t) \in Server \cup {None}
<1>1. currentTerm[i] \in Nat /\ votedFor[i] \in Server \cup {None}
  BY DEF TypeOK
<1>2. TermAfter(i, t) = IF currentTerm[i] >= t THEN currentTerm[i] ELSE t
  BY <1>1, MaxPair DEF TermAfter
<1> QED
  BY <1>1, <1>2 DEF VoteAfter

\* Stepping down on a reply keeps the types.
LEMMA StepDownType ==
    ASSUME TypeOK, NEW i \in Server, NEW t \in Nat, StepDown(i, t)
    PROVE  /\ state' \in [Server -> {Follower, Candidate, Leader}]
           /\ currentTerm' \in [Server -> Nat]
           /\ votedFor' \in [Server -> Server \cup {None}]
           /\ votes' = votes /\ logVars' = logVars
           /\ persister' \in [Server -> PersistentState]
<1>1. /\ state' \in [Server -> {Follower, Candidate, Leader}]
      /\ currentTerm' \in [Server -> Nat]
      /\ votedFor' \in [Server -> Server \cup {None}]
      /\ votes' = votes /\ logVars' = logVars
  BY DEF StepDown, TypeOK, logVars
<1>2. persister' \in [Server -> PersistentState]
  BY <1>1, PersistType DEF StepDown, TypeOK, logVars
<1> QED
  BY <1>1, <1>2

\* Adopting the term of a request keeps the types.
LEMMA FollowLeaderType ==
    ASSUME TypeOK, NEW i \in Server, NEW t \in Nat, FollowLeader(i, t)
    PROVE  /\ state' \in [Server -> {Follower, Candidate, Leader}]
           /\ currentTerm' \in [Server -> Nat]
           /\ votedFor' \in [Server -> Server \cup {None}]
           /\ votes' = votes
  BY TermAfterType DEF FollowLeader, TypeOK

\* What the request sets contain, by kind.
LEMMA MessageTypes ==
    ASSUME TypeOK
    PROVE  /\ \A m \in requests : m.type = "RequestVote" => m \in RequestVoteArgs
           /\ \A m \in requests : m.type = "AppendEntries" => m \in AppendEntriesArgs
           /\ \A m \in requests : m.type = "InstallSnapshot" => m \in InstallSnapshotArgs
           /\ \A r \in replies : r.type = "RequestVote" => r \in RequestVoteReply
           /\ \A r \in replies : r.type = "AppendEntries" => r \in AppendEntriesReply
           /\ \A r \in replies : r.type = "InstallSnapshot" => r \in InstallSnapshotReply
  BY DEF TypeOK, RequestVoteArgs, AppendEntriesArgs, InstallSnapshotArgs,
         RequestVoteReply, AppendEntriesReply, InstallSnapshotReply
Requests == RequestVoteArgs \cup AppendEntriesArgs \cup InstallSnapshotArgs
Replies == RequestVoteReply \cup AppendEntriesReply \cup InstallSnapshotReply

\* A handler's answer keeps the types of the messages in flight.
LEMMA ReplyType ==
    ASSUME TypeOK, NEW m, NEW r \in Replies, Reply(m, r)
    PROVE  requests' \subseteq Requests /\ replies' \subseteq Replies
  BY DEF TypeOK, Reply, Requests, Replies

-----------------------------------------------------------------------------
(* TypeOK is inductive: one lemma per action *)

\* Make() on an empty persister gives every variable its type.
LEMMA TypeInit == Init => TypeOK
<1> SUFFICES ASSUME Init PROVE TypeOK
  OBVIOUS
<1>1. <<Dummy(0)>> \in Seq(LogEntry) \ {<<>>} /\ <<>> \in Image
  BY DummyType DEF Image
<1>2. persister \in [Server -> PersistentState]
  BY <1>1 DEF Init, PersistentState
<1>3. DOMAIN applied = Server /\ \A i \in Server : DOMAIN applied[i] = {}
  BY DEF Init
<1>4. /\ state \in [Server -> {Follower, Candidate, Leader}]
      /\ currentTerm \in [Server -> Nat]
      /\ votedFor \in [Server -> Server \cup {None}]
      /\ votes \in [Server -> SUBSET Server]
      /\ log \in [Server -> Seq(LogEntry) \ {<<>>}]
  BY <1>1 DEF Init
<1>5. /\ snapshotIndex \in [Server -> Nat] /\ snapshotTerm \in [Server -> Nat]
      /\ commitIndex \in [Server -> Nat] /\ lastApplied \in [Server -> Nat]
      /\ nextIndex \in [Server -> [Server -> Int]]
      /\ matchIndex \in [Server -> [Server -> Int]]
  BY DEF Init
<1>6. heartbeats = {} /\ requests = {} /\ replies = {} /\ restarts = 0
  BY DEF Init
<1> QED
  BY <1>2, <1>3, <1>4, <1>5, <1>6 DEF TypeOK

\* startElection keeps the types.
LEMMA TypeStartElection ==
    ASSUME TypeOK, NEW i \in Server, startElection(i)
    PROVE  TypeOK'
<1>1. /\ state' \in [Server -> {Follower, Candidate, Leader}]
      /\ currentTerm' \in [Server -> Nat]
      /\ votedFor' \in [Server -> Server \cup {None}]
      /\ votes' \in [Server -> SUBSET Server]
      /\ log' \in [Server -> Seq(LogEntry) \ {<<>>}]
      /\ snapshotIndex' \in [Server -> Nat] /\ snapshotTerm' \in [Server -> Nat]
  BY DEF startElection, TypeOK, logVars
<1>2. persister' \in [Server -> PersistentState]
  BY <1>1, PersistType DEF startElection
<1>3. requests' \subseteq Requests
  <2>1. LastLogIndex(i) \in Int /\ LastLogTerm(i) \in Nat
    BY ServerTypes
  <2>3. currentTerm[i] + 1 \in Nat
    BY DEF TypeOK
  <2>2. \A j \in Server :
          [type |-> "RequestVote", src |-> i, dst |-> j, term |-> currentTerm[i] + 1,
           lastLogIndex |-> LastLogIndex(i), lastLogTerm |-> LastLogTerm(i)] \in RequestVoteArgs
    BY <2>1, <2>3, Zenon DEF RequestVoteArgs
  <2> QED
    BY <2>2 DEF startElection, Send, Requests, TypeOK
<1> QED
  BY <1>1, <1>2, <1>3 DEF startElection, TypeOK, logVars, leaderVars, serviceVars, Requests

\* RequestVote keeps the types.
LEMMA TypeRequestVote ==
    ASSUME TypeOK, NEW m \in requests, RequestVote(m)
    PROVE  TypeOK'
<1> DEFINE i == m.dst
<1>1. m \in RequestVoteArgs
  BY MessageTypes DEF RequestVote
<1>2. i \in Server /\ m.src \in Server /\ m.term \in Nat
  BY <1>1 DEF RequestVoteArgs
<1>3. /\ state' \in [Server -> {Follower, Candidate, Leader}]
      /\ currentTerm' \in [Server -> Nat]
      /\ votedFor' \in [Server -> Server \cup {None}]
      /\ log' \in [Server -> Seq(LogEntry) \ {<<>>}]
      /\ snapshotIndex' \in [Server -> Nat] /\ snapshotTerm' \in [Server -> Nat]
  BY <1>2, TermAfterType DEF RequestVote, TypeOK, logVars
<1>4. persister' \in [Server -> PersistentState]
  <2>1. persist(i) \/ UNCHANGED persister
    BY DEF RequestVote
  <2>2. CASE persist(i)
    BY <1>2, <1>3, <2>2, PersistType
  <2> QED
    BY <2>1, <2>2 DEF TypeOK
<1>5. requests' \subseteq Requests /\ replies' \subseteq Replies
  <2>1. CanVote(i, m) \in BOOLEAN
    BY DEF CanVote
  <2>2. currentTerm[i] \in Nat
    BY <1>2 DEF TypeOK
  <2>3. [type |-> "RequestVote", args |-> m, term |-> currentTerm[i],
         voteGranted |-> CanVote(i, m)] \in Replies
    BY <1>1, <2>1, <2>2 DEF RequestVoteReply, Replies
  <2> QED
    BY <2>3, ReplyType DEF RequestVote
<1> QED
  BY <1>3, <1>4, <1>5
  DEF RequestVote, TypeOK, logVars, leaderVars, serviceVars, Requests, Replies

\* The reply to RequestVote keeps the types.
LEMMA TypeRequestVoteReply ==
    ASSUME TypeOK, NEW r \in replies, requestVoteReply(r)
    PROVE  TypeOK'
<1> DEFINE i == r.args.src
<1>1. r \in RequestVoteReply
  BY MessageTypes DEF requestVoteReply
<1>2. i \in Server /\ r.args.dst \in Server /\ r.term \in Nat
  BY <1>1 DEF RequestVoteReply, RequestVoteArgs
<1>3. replies' \subseteq replies
      /\ UNCHANGED <<serviceVars, heartbeats, requests, restarts>>
  BY DEF requestVoteReply
<1>4. CASE UNCHANGED <<electionVars, logVars, leaderVars, persister>>
  BY <1>3, <1>4 DEF TypeOK, electionVars, logVars, leaderVars, serviceVars
<1>5. CASE StepDown(i, r.term) /\ UNCHANGED leaderVars
  BY <1>2, <1>3, <1>5, StepDownType DEF TypeOK, logVars, leaderVars, serviceVars
<1>6. CASE /\ votes' = [votes EXCEPT ![i] = IF r.voteGranted THEN @ \cup {r.args.dst} ELSE @]
           /\ BecomeLeader(i) \/ UNCHANGED <<state, leaderVars>>
           /\ UNCHANGED <<currentTerm, votedFor, logVars, persister>>
  <2>1. votes' \in [Server -> SUBSET Server]
    BY <1>2, <1>6 DEF TypeOK
  <2>2. /\ state' \in [Server -> {Follower, Candidate, Leader}]
        /\ nextIndex' \in [Server -> [Server -> Int]]
        /\ matchIndex' \in [Server -> [Server -> Int]]
    <3>1. LastLogIndex(i) \in Nat
      BY <1>2, ServerTypes
    <3>2. snapshotIndex[i] \in Nat
      BY <1>2 DEF TypeOK
    <3>3. CASE BecomeLeader(i)
      <4>1. [j \in Server |-> LastLogIndex(i) + 1] \in [Server -> Int]
        BY <3>1
      <4>2. [j \in Server |-> IF j = i THEN LastLogIndex(i) ELSE snapshotIndex[i]]
                \in [Server -> Int]
        BY <3>1, <3>2
      <4>3. state' \in [Server -> {Follower, Candidate, Leader}]
        BY <1>2, <3>3 DEF TypeOK, BecomeLeader
      <4>4. nextIndex' \in [Server -> [Server -> Int]]
        BY <1>2, <3>3, <4>1 DEF TypeOK, BecomeLeader
      <4>5. matchIndex' \in [Server -> [Server -> Int]]
        BY <1>2, <3>3, <4>2 DEF TypeOK, BecomeLeader
      <4> QED
        BY <4>3, <4>4, <4>5
    <3> QED
      BY <1>6, <3>3 DEF TypeOK, leaderVars
  <2> QED
    BY <1>3, <1>6, <2>1, <2>2 DEF TypeOK, logVars, serviceVars
<1> QED
  BY <1>4, <1>5, <1>6 DEF requestVoteReply

\* nextIndex and matchIndex: reading and writing one peer's entry.
LEMMA PeerIndexType ==
    ASSUME NEW f \in [Server -> [Server -> Int]], NEW i \in Server, NEW j \in Server, NEW x \in Int
    PROVE  f[i][j] \in Int /\ [f EXCEPT ![i][j] = x] \in [Server -> [Server -> Int]]
<1>1. f[i] \in [Server -> Int]
  OBVIOUS
<1>2. f[i][j] \in Int /\ [f[i] EXCEPT ![j] = x] \in [Server -> Int]
  BY <1>1
<1> QED
  BY <1>2

\* Start keeps the types.
LEMMA TypeStart ==
    ASSUME TypeOK, NEW i \in Server, NEW command \in Command, Start(i, command)
    PROVE  TypeOK'
<1> DEFINE e == [term |-> currentTerm[i], command |-> command]
<1>1. e \in LogEntry
  BY DEF LogEntry, TypeOK
<1>2. Append(log[i], e) \in Seq(LogEntry) \ {<<>>}
  <2>1. log[i] \in Seq(LogEntry)
    BY DEF TypeOK
  <2> HIDE DEF e
  <2> QED
    BY <1>1, <2>1, AppendProperties
<1>3. log' \in [Server -> Seq(LogEntry) \ {<<>>}]
  BY <1>2 DEF Start, TypeOK
<1>4. /\ UNCHANGED <<electionVars, snapshotIndex, snapshotTerm, leaderVars, serviceVars,
                     netVars, restarts>>
      /\ persist(i)
  BY DEF Start
<1>5. /\ currentTerm' \in [Server -> Nat] /\ votedFor' \in [Server -> Server \cup {None}]
      /\ snapshotIndex' \in [Server -> Nat] /\ snapshotTerm' \in [Server -> Nat]
  BY <1>4 DEF TypeOK, electionVars
<1>6. persister' \in [Server -> PersistentState]
  BY <1>3, <1>4, <1>5, PersistType
<1> QED
  BY <1>3, <1>4, <1>6 DEF TypeOK, electionVars, leaderVars, serviceVars, netVars

\* The first section of sendHeartbeats keeps the types.
LEMMA TypeSendHeartbeats ==
    ASSUME TypeOK, NEW i \in Server, sendHeartbeats(i)
    PROVE  TypeOK'
<1>1. /\ currentTerm[i] \in Nat /\ commitIndex[i] \in Nat /\ snapshotIndex[i] \in Nat
      /\ persister[i].snapshot \in Image
  BY DEF TypeOK, PersistentState
<1>2. \A j \in Server :
        [src |-> i, dst |-> j, term |-> currentTerm[i], commitIndex |-> commitIndex[i],
         snapshotIndex |-> snapshotIndex[i], snapshot |-> persister[i].snapshot] \in Heartbeat
  BY <1>1, Zenon DEF Heartbeat
<1>3. heartbeats' \subseteq Heartbeat
  BY <1>2 DEF sendHeartbeats, TypeOK
<1> QED
  BY <1>3 DEF sendHeartbeats, TypeOK, electionVars, logVars, leaderVars, serviceVars

\* A heartbeat goroutine that gives up keeps the types.
LEMMA TypeHeartbeatStale ==
    ASSUME TypeOK, NEW h \in heartbeats, heartbeatStale(h)
    PROVE  TypeOK'
  BY DEF heartbeatStale, TypeOK, electionVars, logVars, leaderVars, serviceVars

\* A heartbeat goroutine that sends keeps the types.
LEMMA TypeHeartbeatSend ==
    ASSUME TypeOK, NEW h \in heartbeats, heartbeatSend(h)
    PROVE  TypeOK'
<1> DEFINE i == h.src
           j == h.dst
<1>1. /\ i \in Server /\ j \in Server /\ h.term \in Nat /\ h.commitIndex \in Nat
      /\ h.snapshotIndex \in Nat /\ h.snapshot \in Image
  BY DEF TypeOK, Heartbeat
<1>2. SnapshotArgs(h) \in InstallSnapshotArgs
  <2>1. snapshotTerm[i] \in Nat
    BY <1>1 DEF TypeOK
  <2> QED
    BY <1>1, <2>1, Zenon DEF SnapshotArgs, InstallSnapshotArgs
<1>3. AppendArgs(h) \in AppendEntriesArgs
  <2> DEFINE lg == log[i]
             prev == nextIndex[i][j] - 1
             logIdx == prev - snapshotIndex[i]
             pt == IF 0 <= logIdx /\ logIdx < Len(lg) THEN lg[logIdx + 1].term ELSE 0
             es == IF 0 <= logIdx + 1 /\ logIdx + 1 < Len(lg)
                   THEN SubSeq(lg, logIdx + 2, Len(lg)) ELSE <<>>
  <2>1. /\ lg \in Seq(LogEntry) /\ Len(lg) \in Nat
        /\ \A k \in 1..Len(lg) : lg[k].term \in Nat
    BY <1>1, ServerTypes
  <2>2. prev \in Int /\ logIdx \in Int
    <3>1. nextIndex[i][j] \in Int
      BY <1>1, PeerIndexType DEF TypeOK
    <3>2. snapshotIndex[i] \in Int
      BY <1>1 DEF TypeOK
    <3> QED
      BY <3>1, <3>2
  <2> HIDE DEF lg, logIdx
  <2>3. pt \in Nat
    BY <2>1, <2>2
  <2>4. es \in Seq(LogEntry)
    <3>1. CASE 0 <= logIdx + 1
      BY <2>1, <2>2, <3>1, SuffixType
    <3> QED
      BY <3>1, <2>2
  <2> HIDE DEF prev, pt, es
  <2>5. [type |-> "AppendEntries", src |-> i, dst |-> j, term |-> h.term,
         prevLogIndex |-> prev, prevLogTerm |-> pt, entries |-> es,
         leaderCommit |-> h.commitIndex] \in AppendEntriesArgs
    BY <1>1, <2>2, <2>3, <2>4, Zenon DEF AppendEntriesArgs
  <2>6. logIdx + 1 + 1 = logIdx + 2
    BY <2>2
  <2> QED
    BY <2>5, <2>6 DEF AppendArgs, lg, prev, logIdx, pt, es
<1>4. requests' \subseteq Requests /\ heartbeats' \subseteq heartbeats
  BY <1>2, <1>3 DEF heartbeatSend, GoroutineRuns, TypeOK, Requests
<1> QED
  BY <1>4 DEF heartbeatSend, TypeOK, Requests, electionVars, logVars, leaderVars, serviceVars

\* The reply to AppendEntries keeps the types.
LEMMA TypeAppendEntriesReply ==
    ASSUME TypeOK, NEW r \in replies, appendEntriesReply(r)
    PROVE  TypeOK'
<1> DEFINE i == r.args.src
           j == r.args.dst
           backUp == IF r.xTerm = -1 THEN r.xLen ELSE r.xIndex
<1>1. r \in AppendEntriesReply
  BY MessageTypes DEF appendEntriesReply
<1>2. /\ i \in Server /\ j \in Server /\ r.term \in Nat /\ r.args.prevLogIndex \in Int
      /\ r.args.entries \in Seq(LogEntry) /\ r.xLen \in Int /\ r.xIndex \in Int
  BY <1>1 DEF AppendEntriesReply, AppendEntriesArgs
<1>3. replies' \subseteq replies /\ UNCHANGED <<serviceVars, heartbeats, requests, restarts>>
  BY DEF appendEntriesReply
<1>4. NewMatch(r) \in Int
  BY <1>2, LenProperties DEF NewMatch
<1>5. Max({backUp, 1}) \in Int
  <2>1. backUp \in Int
    BY <1>2
  <2> HIDE DEF backUp
  <2> QED
    BY <2>1, MaxPair
<1>6. CASE UNCHANGED <<electionVars, logVars, leaderVars, persister>>
  BY <1>3, <1>6 DEF TypeOK, electionVars, logVars, leaderVars, serviceVars
<1>7. CASE /\ matchIndex' = [matchIndex EXCEPT ![i][j] = NewMatch(r)]
           /\ nextIndex' = [nextIndex EXCEPT ![i][j] = NewMatch(r) + 1]
           /\ UNCHANGED <<electionVars, logVars, persister>>
  <2>1. matchIndex' \in [Server -> [Server -> Int]]
    BY <1>2, <1>4, <1>7, PeerIndexType DEF TypeOK
  <2>2. NewMatch(r) + 1 \in Int
    BY <1>4
  <2>3. nextIndex' \in [Server -> [Server -> Int]]
    BY <1>2, <1>7, <2>2, PeerIndexType DEF TypeOK
  <2> QED
    BY <1>3, <1>7, <2>1, <2>3 DEF TypeOK, electionVars, logVars, serviceVars
<1>8. CASE StepDown(i, r.term) /\ UNCHANGED leaderVars
  BY <1>2, <1>3, <1>8, StepDownType DEF TypeOK, logVars, leaderVars, serviceVars
<1>9. CASE /\ nextIndex' = [nextIndex EXCEPT ![i][j] = Max({backUp, 1})]
           /\ UNCHANGED <<electionVars, logVars, matchIndex, persister>>
  <2>1. nextIndex' \in [Server -> [Server -> Int]]
    BY <1>2, <1>5, <1>9, PeerIndexType DEF TypeOK
  <2> QED
    BY <1>3, <1>9, <2>1 DEF TypeOK, electionVars, logVars, serviceVars
<1> QED
  BY <1>6, <1>7, <1>8, <1>9 DEF appendEntriesReply

\* The reply to InstallSnapshot keeps the types.
LEMMA TypeInstallSnapshotReply ==
    ASSUME TypeOK, NEW r \in replies, installSnapshotReply(r)
    PROVE  TypeOK'
<1> DEFINE i == r.args.src
           j == r.args.dst
<1>1. r \in InstallSnapshotReply
  BY MessageTypes DEF installSnapshotReply
<1>2. i \in Server /\ j \in Server /\ r.term \in Nat /\ r.args.lastIncludedIndex \in Nat
  BY <1>1 DEF InstallSnapshotReply, InstallSnapshotArgs
<1>3. replies' \subseteq replies /\ UNCHANGED <<serviceVars, heartbeats, requests, restarts>>
  BY DEF installSnapshotReply
<1>4. CASE UNCHANGED <<electionVars, logVars, leaderVars, persister>>
  BY <1>3, <1>4 DEF TypeOK, electionVars, logVars, leaderVars, serviceVars
<1>5. CASE StepDown(i, r.term) /\ UNCHANGED leaderVars
  BY <1>2, <1>3, <1>5, StepDownType DEF TypeOK, logVars, leaderVars, serviceVars
<1>6. CASE /\ matchIndex' = [matchIndex EXCEPT ![i][j] = r.args.lastIncludedIndex]
           /\ nextIndex' = [nextIndex EXCEPT ![i][j] = r.args.lastIncludedIndex + 1]
           /\ UNCHANGED <<electionVars, logVars, persister>>
  <2>2. r.args.lastIncludedIndex \in Int /\ r.args.lastIncludedIndex + 1 \in Int
    BY <1>2
  <2>1. matchIndex' \in [Server -> [Server -> Int]]
    BY <1>2, <1>6, <2>2, PeerIndexType DEF TypeOK
  <2>3. nextIndex' \in [Server -> [Server -> Int]]
    BY <1>2, <1>6, <2>2, PeerIndexType DEF TypeOK
  <2> QED
    BY <1>3, <1>6, <2>1, <2>3 DEF TypeOK, electionVars, logVars, serviceVars
<1> QED
  BY <1>4, <1>5, <1>6 DEF installSnapshotReply

\* updateCommitIndex keeps the types.
LEMMA TypeUpdateCommitIndex ==
    ASSUME TypeOK, NEW i \in Server, updateCommitIndex(i)
    PROVE  TypeOK'
<1>1. commitIndex[i] \in Nat /\ LastLogIndex(i) \in Nat
  BY ServerTypes DEF TypeOK
<1> DEFINE S == Committable(i)
<1>2. S \subseteq commitIndex[i] + 1 .. LastLogIndex(i)
  BY Zenon DEF Committable
<1>4. S # {} /\ commitIndex' = [commitIndex EXCEPT ![i] = Max(S)]
  BY DEF updateCommitIndex
<1> HIDE DEF S
<1>5. S \in SUBSET Int /\ S \in SUBSET Nat /\ LastLogIndex(i) \in Int
  BY <1>1, <1>2
<1>7. \A n \in S : n =< LastLogIndex(i)
  BY <1>1, <1>2
<1>6. Max(S) \in S
  BY <1>4, <1>5, <1>7, BoundedMax
<1>3. commitIndex' \in [Server -> Nat]
  BY <1>4, <1>5, <1>6 DEF TypeOK
<1> QED
  BY <1>3 DEF updateCommitIndex, TypeOK, electionVars, logVars, leaderVars, netVars

\* AppendEntries keeps the types.
LEMMA TypeAppendEntries ==
    ASSUME TypeOK, NEW m \in requests, AppendEntries(m)
    PROVE  TypeOK'
<1> DEFINE i == m.dst
           back == BackUp(i, m)
           answer(ok, b, xLen) ==
             [type |-> "AppendEntries", args |-> m, term |-> currentTerm[i], success |-> ok,
              xTerm |-> b.xTerm, xIndex |-> b.xIndex, xLen |-> xLen]
           unset == [xTerm |-> 0, xIndex |-> 0]
<1>1. m \in AppendEntriesArgs
  BY MessageTypes DEF AppendEntries
<1>2. /\ i \in Server /\ m.term \in Nat /\ m.prevLogIndex \in Int
      /\ m.entries \in Seq(LogEntry) /\ m.leaderCommit \in Nat
  BY <1>1 DEF AppendEntriesArgs
<1>3. /\ currentTerm[i] \in Nat /\ snapshotIndex[i] \in Nat /\ commitIndex[i] \in Nat
      /\ Len(log[i]) \in Nat /\ log[i] \in Seq(LogEntry) \ {<<>>}
  BY <1>2, ServerTypes DEF TypeOK
<1>4. \A ok \in BOOLEAN, xTerm, xIndex, xLen \in Int :
        answer(ok, [xTerm |-> xTerm, xIndex |-> xIndex], xLen) \in Replies
  BY <1>1, <1>3 DEF Replies, AppendEntriesReply
<1>5. \E xTerm, xIndex \in Int : back = [xTerm |-> xTerm, xIndex |-> xIndex]
  <2> DEFINE logIndex == m.prevLogIndex - snapshotIndex[i]
             xTerm == log[i][logIndex + 1].term
             others == {k \in 0..logIndex - 1 : log[i][k + 1].term # xTerm}
  <2>1. logIndex \in Int
    BY <1>2, <1>3
  <2>2. CASE logIndex < 0 \/ logIndex >= Len(log[i])
    BY <2>2 DEF BackUp
  <2>3. CASE ~(logIndex < 0 \/ logIndex >= Len(log[i]))
    <3>1. logIndex + 1 \in 1..Len(log[i])
      BY <1>3, <2>1, <2>3
    <3>2. xTerm \in Int
      BY <1>2, <3>1, ServerTypes
    <3>3. others \in SUBSET Int /\ \A k \in others : k =< logIndex
      BY <2>1
    <3>4. others # {} => Max(others) \in Int
      BY <2>1, <3>3, BoundedMax
    <3> DEFINE xIndex == IF others = {} THEN m.prevLogIndex ELSE snapshotIndex[i] + Max(others) + 1
    <3>5. xIndex \in Int
      <4> HIDE DEF others
      <4>1. CASE others = {}
        BY <1>2, <4>1
      <4>2. CASE others # {}
        BY <1>3, <3>4, <4>2
      <4> QED
        BY <4>1, <4>2
    <3>6. back = [xTerm |-> xTerm, xIndex |-> xIndex]
      BY <2>3 DEF BackUp
    <3> QED
      BY <3>2, <3>5, <3>6
  <2> QED
    BY <2>2, <2>3
<1>6. /\ answer(FALSE, unset, 0) \in Replies
      /\ answer(TRUE, unset, 0) \in Replies
      /\ answer(FALSE, back, snapshotIndex[i] + Len(log[i])) \in Replies
  <2>1. snapshotIndex[i] + Len(log[i]) \in Int
    BY <1>3
  <2>2. PICK xTerm \in Int, xIndex \in Int : back = [xTerm |-> xTerm, xIndex |-> xIndex]
    BY <1>5
  <2> HIDE DEF answer, back
  <2>3. \A ok \in BOOLEAN : answer(ok, unset, 0) \in Replies
    BY <1>4
  <2>4. answer(FALSE, back, snapshotIndex[i] + Len(log[i])) \in Replies
    BY <1>4, <2>1, <2>2
  <2> QED
    BY <2>3, <2>4
<1> HIDE DEF answer, back, unset
<1>7. UNCHANGED <<leaderVars, lastApplied, applied, heartbeats, restarts>>
  BY DEF AppendEntries
<1>8. CASE /\ Reply(m, answer(FALSE, unset, 0))
           /\ UNCHANGED <<electionVars, logVars, commitIndex, persister>>
  <2>1. requests' \subseteq Requests /\ replies' \subseteq Replies
    BY <1>6, <1>8, ReplyType
  <2> QED
    BY <1>7, <1>8, <2>1 DEF TypeOK, Requests, Replies, electionVars, logVars, leaderVars
<1>9. CASE /\ FollowLeader(i, m.term)
           /\ UNCHANGED <<logVars, commitIndex>>
           /\ persist(i) \/ UNCHANGED persister
           /\ Reply(m, answer(FALSE, back, snapshotIndex[i] + Len(log[i])))
  <2>1. requests' \subseteq Requests /\ replies' \subseteq Replies
    BY <1>6, <1>9, ReplyType
  <2>2. /\ state' \in [Server -> {Follower, Candidate, Leader}]
        /\ currentTerm' \in [Server -> Nat]
        /\ votedFor' \in [Server -> Server \cup {None}]
        /\ votes' = votes
    BY <1>2, <1>9, FollowLeaderType
  <2>3. /\ log' \in [Server -> Seq(LogEntry) \ {<<>>}]
        /\ snapshotIndex' \in [Server -> Nat] /\ snapshotTerm' \in [Server -> Nat]
    BY <1>9 DEF TypeOK, logVars
  <2>4. persister' \in [Server -> PersistentState]
    <3>1. CASE persist(i)
      BY <1>2, <2>2, <2>3, <3>1, PersistType
    <3> QED
      BY <1>9, <3>1 DEF TypeOK
  <2> QED
    BY <1>7, <1>9, <2>1, <2>2, <2>3, <2>4 DEF TypeOK, Requests, Replies, leaderVars
<1>10. CASE /\ PrevInLog(i, m)
            /\ FollowLeader(i, m.term)
            /\ log' = [log EXCEPT ![i] = Merge(@, m.prevLogIndex - snapshotIndex[i] + 1, m.entries)]
            /\ commitIndex' = [commitIndex EXCEPT ![i] = CommitAfter(i, m)]
            /\ UNCHANGED <<snapshotIndex, snapshotTerm>>
            /\ persist(i) \/ UNCHANGED persister
            /\ Reply(m, answer(TRUE, unset, 0))
  <2>1. requests' \subseteq Requests /\ replies' \subseteq Replies
    BY <1>6, <1>10, ReplyType
  <2>2. /\ state' \in [Server -> {Follower, Candidate, Leader}]
        /\ currentTerm' \in [Server -> Nat]
        /\ votedFor' \in [Server -> Server \cup {None}]
        /\ votes' = votes
    BY <1>2, <1>10, FollowLeaderType
  <2>3. m.prevLogIndex - snapshotIndex[i] + 1 \in 1..Len(log[i]) /\ m.prevLogIndex \in Nat
    BY <1>2, <1>3, <1>10 DEF PrevInLog
  <2>4. log' \in [Server -> Seq(LogEntry) \ {<<>>}]
    <3>1. Merge(log[i], m.prevLogIndex - snapshotIndex[i] + 1, m.entries)
            \in Seq(LogEntry) \ {<<>>}
      BY <1>2, <1>3, <2>3, MergeType
    <3> QED
      BY <1>2, <1>10, <3>1 DEF TypeOK
  <2>5. CommitAfter(i, m) \in Nat
    <3>1. m.prevLogIndex + Len(m.entries) \in Nat
      BY <1>2, <2>3, LenProperties
    <3> QED
      BY <1>2, <1>3, <3>1, MinPair DEF CommitAfter
  <2>6. commitIndex' \in [Server -> Nat]
    BY <1>2, <1>10, <2>5 DEF TypeOK
  <2>7. snapshotIndex' \in [Server -> Nat] /\ snapshotTerm' \in [Server -> Nat]
    BY <1>10 DEF TypeOK
  <2>8. persister' \in [Server -> PersistentState]
    <3>1. CASE persist(i)
      BY <1>2, <2>2, <2>4, <2>7, <3>1, PersistType
    <3> QED
      BY <1>10, <3>1 DEF TypeOK
  <2> QED
    BY <1>7, <2>1, <2>2, <2>4, <2>6, <2>7, <2>8 DEF TypeOK, Requests, Replies, leaderVars
<1> QED
  BY <1>8, <1>9, <1>10 DEF AppendEntries, answer, back, unset

\* InstallSnapshot keeps the types.
LEMMA TypeInstallSnapshot ==
    ASSUME TypeOK, NEW m \in requests, InstallSnapshot(m)
    PROVE  TypeOK'
<1> DEFINE i == m.dst
<1>1. m \in InstallSnapshotArgs
  BY MessageTypes DEF InstallSnapshot
<1>2. /\ i \in Server /\ m.term \in Nat /\ m.lastIncludedIndex \in Nat
      /\ m.lastIncludedTerm \in Nat /\ m.data \in Seq(LogEntry)
  BY <1>1 DEF InstallSnapshotArgs, Image
<1>3. requests' \subseteq Requests /\ replies' \subseteq Replies
  <2>1. currentTerm[i] \in Nat
    BY <1>2 DEF TypeOK
  <2>2. [type |-> "InstallSnapshot", args |-> m, term |-> currentTerm[i]] \in Replies
    BY <1>1, <2>1 DEF Replies, InstallSnapshotReply
  <2> QED
    BY <2>2, ReplyType DEF InstallSnapshot
<1>4. UNCHANGED <<leaderVars, heartbeats, restarts>>
  BY DEF InstallSnapshot
<1>5. CASE UNCHANGED <<electionVars, logVars, serviceVars, persister>>
  BY <1>3, <1>4, <1>5 DEF TypeOK, Requests, Replies, electionVars, logVars, serviceVars, leaderVars
<1>6. CASE /\ FollowLeader(i, m.term)
           /\ UNCHANGED <<logVars, serviceVars>>
           /\ persist(i) \/ UNCHANGED persister
  <2>1. /\ state' \in [Server -> {Follower, Candidate, Leader}]
        /\ currentTerm' \in [Server -> Nat]
        /\ votedFor' \in [Server -> Server \cup {None}]
        /\ votes' = votes
    BY <1>2, <1>6, FollowLeaderType
  <2>2. /\ log' \in [Server -> Seq(LogEntry) \ {<<>>}]
        /\ snapshotIndex' \in [Server -> Nat] /\ snapshotTerm' \in [Server -> Nat]
    BY <1>6 DEF TypeOK, logVars
  <2>3. persister' \in [Server -> PersistentState]
    <3>1. CASE persist(i)
      BY <1>2, <2>1, <2>2, <3>1, PersistType
    <3> QED
      BY <1>6, <3>1 DEF TypeOK
  <2> QED
    BY <1>3, <1>4, <1>6, <2>1, <2>2, <2>3 DEF TypeOK, Requests, Replies, serviceVars, leaderVars
<1>7. CASE /\ m.lastIncludedIndex > snapshotIndex[i]
           /\ FollowLeader(i, m.term)
           /\ log' = [log EXCEPT ![i] = Compact(i, m.lastIncludedIndex, m.lastIncludedTerm)]
           /\ snapshotIndex' = [snapshotIndex EXCEPT ![i] = m.lastIncludedIndex]
           /\ snapshotTerm' = [snapshotTerm EXCEPT ![i] = m.lastIncludedTerm]
           /\ commitIndex' = [commitIndex EXCEPT ![i] = Max({@, m.lastIncludedIndex})]
           /\ lastApplied' = [lastApplied EXCEPT ![i] = Max({@, m.lastIncludedIndex})]
           /\ applied' = [applied EXCEPT ![i] = m.data]
           /\ persistWithSnapshot(i, m.data)
  <2>1. /\ state' \in [Server -> {Follower, Candidate, Leader}]
        /\ currentTerm' \in [Server -> Nat]
        /\ votedFor' \in [Server -> Server \cup {None}]
        /\ votes' = votes
    BY <1>2, <1>7, FollowLeaderType
  <2>2. log' \in [Server -> Seq(LogEntry) \ {<<>>}]
    <3>1. Compact(i, m.lastIncludedIndex, m.lastIncludedTerm) \in Seq(LogEntry) \ {<<>>}
      BY <1>2, <1>7, CompactType
    <3> QED
      BY <1>2, <1>7, <3>1 DEF TypeOK
  <2>3. snapshotIndex' \in [Server -> Nat] /\ snapshotTerm' \in [Server -> Nat]
    BY <1>2, <1>7 DEF TypeOK
  <2>4. commitIndex' \in [Server -> Nat] /\ lastApplied' \in [Server -> Nat]
    <3>1. commitIndex[i] \in Nat /\ lastApplied[i] \in Nat
      BY <1>2 DEF TypeOK
    <3>2. /\ Max({commitIndex[i], m.lastIncludedIndex}) \in Nat
          /\ Max({lastApplied[i], m.lastIncludedIndex}) \in Nat
      BY <1>2, <3>1, MaxPair
    <3> QED
      BY <1>2, <1>7, <3>2 DEF TypeOK
  <2>5. /\ DOMAIN applied' = Server
        /\ \A k \in Server : \A n \in DOMAIN applied'[k] :
             n \in Nat \ {0} /\ applied'[k][n] \in LogEntry
    <3>1. \A n \in DOMAIN m.data : n \in Nat \ {0} /\ m.data[n] \in LogEntry
      BY <1>2, LenProperties
    <3> QED
      BY <1>2, <1>7, <3>1 DEF TypeOK
  <2>6. persister' \in [Server -> PersistentState]
    BY <1>2, <1>7, <2>1, <2>2, <2>3, SaveStateType DEF persistWithSnapshot, Image
  <2> QED
    BY <1>3, <1>4, <2>1, <2>2, <2>3, <2>4, <2>5, <2>6 DEF TypeOK, Requests, Replies, leaderVars
<1> QED
  BY <1>5, <1>6, <1>7 DEF InstallSnapshot

\* applyCommitted keeps the types.
LEMMA TypeApplyCommitted ==
    ASSUME TypeOK, NEW i \in Server, applyCommitted(i)
    PROVE  TypeOK'
<1>1. lastApplied' \in [Server -> Nat]
  BY DEF applyCommitted, TypeOK
<1>2. \A n \in Deliverable(i) :
        n \in Nat \ {0} /\ log[i][n - snapshotIndex[i] + 1] \in LogEntry
  <2>1. /\ lastApplied[i] \in Nat /\ commitIndex[i] \in Nat /\ snapshotIndex[i] \in Nat
        /\ Len(log[i]) \in Nat /\ \A k \in 1..Len(log[i]) : log[i][k] \in LogEntry
    BY ServerTypes DEF TypeOK
  <2>2. \A n \in Deliverable(i) : n \in Nat \ {0} /\ n - snapshotIndex[i] + 1 \in 1..Len(log[i])
    BY <2>1 DEF Deliverable
  <2> QED
    BY <2>1, <2>2
<1> DEFINE new == [n \in DOMAIN applied[i] \cup Deliverable(i) |->
                     IF n \in Deliverable(i) THEN log[i][n - snapshotIndex[i] + 1]
                     ELSE applied[i][n]]
<1>3. \A n \in DOMAIN new : n \in Nat \ {0} /\ new[n] \in LogEntry
  BY <1>2 DEF TypeOK
<1>4. applied' = [applied EXCEPT ![i] = new]
  BY DEF applyCommitted
<1> HIDE DEF new
<1>5. /\ DOMAIN applied' = Server
      /\ \A k \in Server : \A n \in DOMAIN applied'[k] :
           n \in Nat \ {0} /\ applied'[k][n] \in LogEntry
  BY <1>3, <1>4 DEF TypeOK
<1> QED
  BY <1>1, <1>5 DEF applyCommitted, TypeOK, electionVars, logVars, leaderVars, netVars

\* Snapshot keeps the types.
LEMMA TypeSnapshot ==
    ASSUME TypeOK, NEW i \in Server, NEW index \in SnapshotAt, Snapshot(i, index)
    PROVE  TypeOK'
<1> DEFINE t == log[i][index - snapshotIndex[i] + 1].term
<1>1. index \in Nat /\ index > snapshotIndex[i] /\ index - snapshotIndex[i] < Len(log[i])
      /\ snapshotIndex[i] \in Nat
  BY BoundAssumption DEF Snapshot, TypeOK
<1>2. t \in Nat
  <2>1. index - snapshotIndex[i] + 1 \in 1..Len(log[i])
    BY <1>1, ServerTypes
  <2> QED
    BY <2>1, ServerTypes
<1> HIDE DEF t
<1>3. /\ log' = [log EXCEPT ![i] = Compact(i, index, t)]
      /\ snapshotTerm' = [snapshotTerm EXCEPT ![i] = t]
      /\ snapshotIndex' = [snapshotIndex EXCEPT ![i] = index]
      /\ commitIndex' = [commitIndex EXCEPT ![i] = Max({@, index})]
      /\ lastApplied' = [lastApplied EXCEPT ![i] = Max({@, index})]
      /\ UNCHANGED <<electionVars, applied, netVars, restarts>>
      /\ persistWithSnapshot(i, ImageAt(i, index))
  BY DEF Snapshot, t
<1>4. log' \in [Server -> Seq(LogEntry) \ {<<>>}]
  <2>1. Compact(i, index, t) \in Seq(LogEntry) \ {<<>>}
    BY <1>1, <1>2, CompactType
  <2> QED
    BY <1>3, <2>1 DEF TypeOK
<1>5. snapshotIndex' \in [Server -> Nat] /\ snapshotTerm' \in [Server -> Nat]
  BY <1>1, <1>2, <1>3 DEF TypeOK
<1>6. commitIndex' \in [Server -> Nat] /\ lastApplied' \in [Server -> Nat]
  <2>1. commitIndex[i] \in Nat /\ lastApplied[i] \in Nat
    BY DEF TypeOK
  <2>2. Max({commitIndex[i], index}) \in Nat /\ Max({lastApplied[i], index}) \in Nat
    BY <1>1, <2>1, MaxPair
  <2> QED
    BY <1>3, <2>2 DEF TypeOK
<1>7. /\ nextIndex' \in [Server -> [Server -> Int]]
      /\ matchIndex' \in [Server -> [Server -> Int]]
  <2>1. CASE UNCHANGED leaderVars
    BY <2>1 DEF TypeOK, leaderVars
  <2> DEFINE next == [j \in Server |-> IF j = i THEN nextIndex[i][j]
                                       ELSE Max({nextIndex[i][j], index + 1})]
             match == [j \in Server |-> Max({matchIndex[i][j], index})]
  <2>2. \A j \in Server : nextIndex[i][j] \in Int /\ matchIndex[i][j] \in Int
    BY PeerIndexType DEF TypeOK
  <2>3. \A j \in Server : Max({nextIndex[i][j], index + 1}) \in Int
                          /\ Max({matchIndex[i][j], index}) \in Int
    <3> SUFFICES ASSUME NEW j \in Server
                 PROVE  Max({nextIndex[i][j], index + 1}) \in Int /\ Max({matchIndex[i][j], index}) \in Int
      OBVIOUS
    <3>1. index \in Int /\ index + 1 \in Int
      BY <1>1
    <3> QED
      BY <2>2, <3>1, MaxPair
  <2>4. next \in [Server -> Int] /\ match \in [Server -> Int]
    BY <2>2, <2>3
  <2>5. CASE /\ nextIndex' = [nextIndex EXCEPT ![i] = next]
             /\ matchIndex' = [matchIndex EXCEPT ![i] = match]
    <3> HIDE DEF next, match
    <3> QED
      BY <2>4, <2>5 DEF TypeOK
  <2> QED
    BY <2>1, <2>5 DEF Snapshot
<1>8. /\ currentTerm' \in [Server -> Nat] /\ votedFor' \in [Server -> Server \cup {None}]
  BY <1>3 DEF TypeOK, electionVars
<1>9. persister' \in [Server -> PersistentState]
  <2>1. ImageAt(i, index) \in Image
    BY <1>1, ImageType DEF Image
  <2> QED
    BY <1>3, <1>4, <1>5, <1>8, <2>1, SaveStateType DEF persistWithSnapshot
<1> QED
  BY <1>3, <1>4, <1>5, <1>6, <1>7, <1>9 DEF TypeOK, electionVars, netVars

\* A restart from the persister keeps the types.
LEMMA TypeRestart ==
    ASSUME TypeOK, NEW i \in Server, Restart(i)
    PROVE  TypeOK'
<1>1. /\ persister[i].currentTerm \in Nat /\ persister[i].votedFor \in Server \cup {None}
      /\ persister[i].log \in Seq(LogEntry) \ {<<>>}
      /\ persister[i].snapshotIndex \in Nat /\ persister[i].snapshotTerm \in Nat
      /\ persister[i].snapshot \in Seq(LogEntry)
  BY DEF TypeOK, PersistentState, Image
<1>2. /\ state' \in [Server -> {Follower, Candidate, Leader}]
      /\ currentTerm' \in [Server -> Nat]
      /\ votedFor' \in [Server -> Server \cup {None}]
      /\ votes' \in [Server -> SUBSET Server]
      /\ log' \in [Server -> Seq(LogEntry) \ {<<>>}]
  BY <1>1 DEF Restart, TypeOK
<1>3. /\ snapshotIndex' \in [Server -> Nat] /\ snapshotTerm' \in [Server -> Nat]
      /\ commitIndex' \in [Server -> Nat] /\ lastApplied' \in [Server -> Nat]
  BY <1>1 DEF Restart, TypeOK
<1>4. /\ nextIndex' \in [Server -> [Server -> Int]]
      /\ matchIndex' \in [Server -> [Server -> Int]]
  <2>1. [j \in Server |-> 0] \in [Server -> Int]
    OBVIOUS
  <2> QED
    BY <2>1 DEF Restart, TypeOK
<1>5. /\ DOMAIN applied' = Server
      /\ \A k \in Server : \A n \in DOMAIN applied'[k] :
           n \in Nat \ {0} /\ applied'[k][n] \in LogEntry
  <2>1. \A n \in DOMAIN persister[i].snapshot :
          n \in Nat \ {0} /\ persister[i].snapshot[n] \in LogEntry
    BY <1>1, LenProperties
  <2> QED
    BY <2>1 DEF TypeOK, Restart
<1>6. /\ heartbeats' \subseteq heartbeats /\ replies' \subseteq replies
      /\ UNCHANGED <<requests, persister>> /\ restarts' \in Nat
  BY DEF Restart, TypeOK
<1> QED
  BY <1>2, <1>3, <1>4, <1>5, <1>6 DEF TypeOK

\* Every step keeps the types.
LEMMA TypeNext == TypeOK /\ [Next]_vars => TypeOK'
<1> SUFFICES ASSUME TypeOK, [Next]_vars PROVE TypeOK'
  OBVIOUS
<1>1. CASE UNCHANGED vars
  BY <1>1 DEF TypeOK, vars, electionVars, logVars, leaderVars, serviceVars, netVars
<1>2. CASE Next
  BY <1>2, TypeStartElection, TypeSendHeartbeats, TypeUpdateCommitIndex, TypeApplyCommitted,
     TypeRestart, TypeStart, TypeSnapshot, TypeHeartbeatStale, TypeHeartbeatSend,
     TypeRequestVote, TypeAppendEntries, TypeInstallSnapshot, TypeRequestVoteReply,
     TypeAppendEntriesReply, TypeInstallSnapshotReply
  DEF Next
<1> QED
  BY <1>1, <1>2

\* Every variable keeps its type: raft.go never stores a value of another shape,
\* and never empties the log whose first entry is the dummy (raft.go:655).
THEOREM TypeCorrect == Spec => []TypeOK
  BY TypeInit, TypeNext, PTL DEF Spec
-----------------------------------------------------------------------------
(***************************************************************************)
(* Votes.  ElectionSafety is not inductive: two candidates of one term     *)
(* must not have a voter in common, a vote on its way counts already, and  *)
(* what makes a vote final is that the voter's term and vote are on disk.  *)
(***************************************************************************)

Granted == {r \in replies : r.type = "RequestVote" /\ r.voteGranted}

Campaigning(i) == state[i] \in {Candidate, Leader}

\* Voter v has voted for c in term t and will not vote again in that term.
Bound(v, c, t) == currentTerm[v] > t \/ (currentTerm[v] = t /\ votedFor[v] = c)

DiskInSync ==
    \A i \in Server :
        persister[i].currentTerm = currentTerm[i] /\ persister[i].votedFor = votedFor[i]

RepliesAreFinal ==
    \A r \in Granted : Bound(r.args.dst, r.args.src, r.args.term)

VotesAreFinal ==
    \A i \in Server : Campaigning(i) => \A v \in votes[i] : Bound(v, i, currentTerm[i])

RepliesAgree ==
    \A r1, r2 \in Granted :
        r1.args.dst = r2.args.dst /\ r1.args.term = r2.args.term => r1.args.src = r2.args.src

RepliesAreNew ==
    \A r \in Granted : \A i \in Server :
        Campaigning(i) /\ currentTerm[i] = r.args.term /\ r.args.src # i =>
            r.args.dst \notin votes[i]

VotesAreDisjoint ==
    \A i, j \in Server :
        Campaigning(i) /\ Campaigning(j) /\ currentTerm[i] = currentTerm[j] /\ i # j =>
            votes[i] \cap votes[j] = {}

LeadersHaveMajorities ==
    \A i \in Server : state[i] = Leader => IsMajority(Cardinality(votes[i]))

VoteInv ==
    /\ DiskInSync /\ RepliesAreFinal /\ VotesAreFinal
    /\ RepliesAgree /\ RepliesAreNew /\ VotesAreDisjoint /\ LeadersHaveMajorities

\* What a step may do to terms and votes: the body of VoteIsKept.
VoteStep ==
    \A i \in Server :
        /\ currentTerm'[i] >= currentTerm[i]
        /\ currentTerm'[i] = currentTerm[i] /\ votedFor[i] # None => votedFor'[i] = votedFor[i]

\* No vote has been given at the start.
LEMMA VoteInit == Init => VoteInv
<1> SUFFICES ASSUME Init PROVE VoteInv
  OBVIOUS
<1>1. Granted = {} /\ \A i \in Server : ~Campaigning(i)
  BY DEF Init, Granted, Campaigning, Follower, Candidate, Leader
<1>2. DiskInSync
  BY DEF Init, DiskInSync
<1> QED
  BY <1>1, <1>2 DEF VoteInv, RepliesAreFinal, VotesAreFinal, RepliesAgree, RepliesAreNew,
     VotesAreDisjoint, LeadersHaveMajorities, Campaigning

\* Two leaders of one term would have a voter in common.
LEMMA VoteInvImplies == TypeOK /\ VoteInv => ElectionSafety
<1> SUFFICES ASSUME TypeOK, VoteInv, NEW i \in Server, NEW j \in Server,
                    state[i] = Leader, state[j] = Leader, currentTerm[i] = currentTerm[j],
                    i # j
             PROVE  FALSE
  BY DEF ElectionSafety
<1>1. votes[i] \cap votes[j] = {}
  BY DEF VoteInv, VotesAreDisjoint, Campaigning
<1>2. votes[i] \subseteq Server /\ votes[j] \subseteq Server
  BY DEF TypeOK
<1>3. IsFiniteSet(Server)
  BY ServerAssumption
<1>4. /\ Cardinality(votes[i]) \in Nat /\ Cardinality(votes[j]) \in Nat
      /\ Cardinality(Server) \in Nat
  BY <1>2, <1>3, FS_Subset, FS_CardinalityType
<1>5. /\ Cardinality(votes[i]) > Cardinality(Server) \div 2
      /\ Cardinality(votes[j]) > Cardinality(Server) \div 2
  BY DEF VoteInv, LeadersHaveMajorities, IsMajority
<1>6. Cardinality(votes[i]) + Cardinality(votes[j]) > Cardinality(Server)
  BY <1>4, <1>5
<1> QED
  BY <1>1, <1>2, <1>3, <1>6, FS_MajoritiesIntersect

\* A step that assigns only server i's term and vote, and saves them.
LEMMA SavedInSync ==
    ASSUME TypeOK, DiskInSync, NEW i \in Server, NEW image, SaveState(i, image),
           \A k \in Server \ {i} : currentTerm'[k] = currentTerm[k] /\ votedFor'[k] = votedFor[k]
    PROVE  DiskInSync'
<1> SUFFICES ASSUME NEW k \in Server
             PROVE  /\ persister'[k].currentTerm = currentTerm'[k]
                    /\ persister'[k].votedFor = votedFor'[k]
  BY DEF DiskInSync
<1>1. CASE k = i
  BY <1>1 DEF SaveState, TypeOK
<1>2. CASE k # i
  BY <1>2 DEF SaveState, TypeOK, DiskInSync
<1> QED
  BY <1>1, <1>2

\* A step that leaves term, vote and disk alone.
LEMMA UntouchedInSync ==
    ASSUME TypeOK, DiskInSync, UNCHANGED <<currentTerm, votedFor, persister>>
    PROVE  DiskInSync' /\ VoteStep
  BY DEF DiskInSync, VoteStep, TypeOK

\* A step that moves one server's term forward, or keeps it with its vote.
LEMMA OneVoterStep ==
    ASSUME TypeOK, NEW i \in Server, NEW t \in Nat, NEW v,
           currentTerm' = [currentTerm EXCEPT ![i] = t], votedFor' = [votedFor EXCEPT ![i] = v],
           t >= currentTerm[i], t = currentTerm[i] /\ votedFor[i] # None => v = votedFor[i]
    PROVE  VoteStep
<1> SUFFICES ASSUME NEW k \in Server
             PROVE  /\ currentTerm'[k] >= currentTerm[k]
                    /\ currentTerm'[k] = currentTerm[k] /\ votedFor[k] # None
                         => votedFor'[k] = votedFor[k]
  BY DEF VoteStep
<1>1. currentTerm[k] \in Nat
  BY DEF TypeOK
<1>2. CASE k = i
  BY <1>2 DEF TypeOK
<1>3. CASE k # i
  <2>1. currentTerm'[k] = currentTerm[k] /\ votedFor'[k] = votedFor[k]
    BY <1>3 DEF TypeOK
  <2> QED
    BY <1>1, <2>1
<1> QED
  BY <1>2, <1>3

\* Stepping down on a reply moves to a newer term and saves it.
LEMMA StepDownInSync ==
    ASSUME TypeOK, DiskInSync, NEW i \in Server, NEW t \in Nat, t > currentTerm[i], StepDown(i, t)
    PROVE  DiskInSync' /\ VoteStep
<1>1. VoteStep
  <2>1. currentTerm[i] \in Nat
    BY DEF TypeOK
  <2>2. t >= currentTerm[i] /\ t # currentTerm[i]
    BY <2>1
  <2>3. /\ currentTerm' = [currentTerm EXCEPT ![i] = t]
        /\ votedFor' = [votedFor EXCEPT ![i] = None]
    BY DEF StepDown
  <2> QED
    BY <2>2, <2>3, OneVoterStep
<1>2. \A k \in Server \ {i} : currentTerm'[k] = currentTerm[k] /\ votedFor'[k] = votedFor[k]
  BY DEF StepDown, TypeOK
<1>3. DiskInSync'
  BY <1>2, SavedInSync DEF StepDown, persist
<1> QED
  BY <1>1, <1>3

\* AppendEntries and InstallSnapshot save a newer term before they answer.
LEMMA FollowLeaderInSync ==
    ASSUME TypeOK, DiskInSync, NEW i \in Server, NEW t \in Nat, FollowLeader(i, t), NEW image,
           SaveState(i, image) \/ (t <= currentTerm[i] /\ UNCHANGED persister)
    PROVE  DiskInSync' /\ VoteStep
<1>1. /\ currentTerm' = [currentTerm EXCEPT ![i] = IF t > currentTerm[i] THEN t ELSE currentTerm[i]]
      /\ votedFor' = [votedFor EXCEPT ![i] = IF t > currentTerm[i] THEN None ELSE votedFor[i]]
  BY TermAfterType DEF FollowLeader, VoteAfter
<1>2. VoteStep
  <2>1. currentTerm[i] \in Nat
    BY DEF TypeOK
  <2> DEFINE u == IF t > currentTerm[i] THEN t ELSE currentTerm[i]
             v == IF t > currentTerm[i] THEN None ELSE votedFor[i]
  <2>2. /\ u \in Nat /\ u >= currentTerm[i]
        /\ u = currentTerm[i] /\ votedFor[i] # None => v = votedFor[i]
    BY <2>1
  <2> HIDE DEF u, v
  <2>3. /\ currentTerm' = [currentTerm EXCEPT ![i] = u]
        /\ votedFor' = [votedFor EXCEPT ![i] = v]
    BY <1>1 DEF u, v
  <2> QED
    BY <2>2, <2>3, OneVoterStep
<1>3. \A k \in Server \ {i} : currentTerm'[k] = currentTerm[k] /\ votedFor'[k] = votedFor[k]
  BY <1>1 DEF TypeOK
<1>4. CASE SaveState(i, image)
  BY <1>2, <1>3, <1>4, SavedInSync
<1>5. CASE t <= currentTerm[i] /\ UNCHANGED persister
  <2>1. UNCHANGED <<currentTerm, votedFor, persister>>
    BY <1>1, <1>5 DEF TypeOK
  <2> QED
    BY <2>1, UntouchedInSync
<1> QED
  BY <1>4, <1>5

\* No step changes a vote within its term or takes a term back, and at the end of
\* every critical section the disk holds the term and the vote.
LEMMA VotesStepInSync ==
    ASSUME TypeOK, DiskInSync, [Next]_vars
    PROVE  DiskInSync' /\ VoteStep
<1>1. ASSUME NEW i \in Server, startElection(i) PROVE DiskInSync' /\ VoteStep
  <2>1. VoteStep
    <3>1. currentTerm[i] \in Nat /\ currentTerm[i] + 1 \in Nat
      BY DEF TypeOK
    <3>2. currentTerm[i] + 1 >= currentTerm[i] /\ currentTerm[i] + 1 # currentTerm[i]
      BY <3>1
    <3> QED
      BY <1>1, <3>1, <3>2, OneVoterStep DEF startElection
  <2>2. \A k \in Server \ {i} : currentTerm'[k] = currentTerm[k] /\ votedFor'[k] = votedFor[k]
    BY <1>1 DEF startElection, TypeOK
  <2> QED
    BY <1>1, <2>1, <2>2, SavedInSync DEF startElection, persist
<1>2. ASSUME NEW m \in requests, RequestVote(m) PROVE DiskInSync' /\ VoteStep
  <2> DEFINE i == m.dst
  <2>1. i \in Server /\ m.src \in Server /\ m.term \in Nat
    BY <1>2, MessageTypes DEF RequestVote, RequestVoteArgs
  <2>2. /\ currentTerm' = [currentTerm EXCEPT ![i] =
              IF m.term > currentTerm[i] THEN m.term ELSE currentTerm[i]]
        /\ votedFor' = [votedFor EXCEPT ![i] =
              IF CanVote(i, m) THEN m.src ELSE VoteAfter(i, m.term)]
        /\ IF m.term > currentTerm[i] \/ CanVote(i, m) THEN persist(i) ELSE UNCHANGED persister
    BY <1>2, <2>1, TermAfterType DEF RequestVote
  <2>3. /\ CanVote(i, m) => VoteAfter(i, m.term) \in {None, m.src}
        /\ VoteAfter(i, m.term) = IF m.term > currentTerm[i] THEN None ELSE votedFor[i]
    BY DEF CanVote, VoteAfter
  <2>4. VoteStep
    <3>1. currentTerm[i] \in Nat
      BY <2>1 DEF TypeOK
    <3> DEFINE t == IF m.term > currentTerm[i] THEN m.term ELSE currentTerm[i]
               v == IF CanVote(i, m) THEN m.src ELSE VoteAfter(i, m.term)
    <3>2. t \in Nat /\ t >= currentTerm[i]
      BY <2>1, <3>1
    <3>3. t = currentTerm[i] /\ votedFor[i] # None => v = votedFor[i]
      BY <2>1, <2>3, <3>1
    <3> HIDE DEF t, v
    <3>4. /\ currentTerm' = [currentTerm EXCEPT ![i] = t]
          /\ votedFor' = [votedFor EXCEPT ![i] = v]
      BY <2>2 DEF t, v
    <3> QED
      BY <2>1, <3>2, <3>3, <3>4, OneVoterStep
  <2>5. \A k \in Server \ {i} : currentTerm'[k] = currentTerm[k] /\ votedFor'[k] = votedFor[k]
    BY <2>2 DEF TypeOK
  <2>6. CASE persist(i)
    BY <2>1, <2>4, <2>5, <2>6, SavedInSync DEF persist
  <2>7. CASE ~(m.term > currentTerm[i] \/ CanVote(i, m)) /\ UNCHANGED persister
    <3>1. UNCHANGED <<currentTerm, votedFor, persister>>
      BY <2>1, <2>2, <2>3, <2>7 DEF TypeOK
    <3> QED
      BY <3>1, UntouchedInSync
  <2> QED
    BY <2>2, <2>6, <2>7
<1>3. ASSUME NEW m \in requests, AppendEntries(m) PROVE DiskInSync' /\ VoteStep
  <2>1. m.dst \in Server /\ m.term \in Nat /\ currentTerm[m.dst] \in Nat
    BY <1>3, MessageTypes DEF AppendEntries, AppendEntriesArgs, TypeOK
  <2>2. \/ UNCHANGED <<currentTerm, votedFor, persister>>
        \/ /\ FollowLeader(m.dst, m.term)
           /\ persist(m.dst) \/ (m.term <= currentTerm[m.dst] /\ UNCHANGED persister)
    BY <1>3, <2>1 DEF AppendEntries, electionVars
  <2> QED
    BY <2>1, <2>2, UntouchedInSync, FollowLeaderInSync DEF persist
<1>4. ASSUME NEW m \in requests, InstallSnapshot(m) PROVE DiskInSync' /\ VoteStep
  <2>1. m.dst \in Server /\ m.term \in Nat /\ currentTerm[m.dst] \in Nat
    BY <1>4, MessageTypes DEF InstallSnapshot, InstallSnapshotArgs, TypeOK
  <2>2. \/ UNCHANGED <<currentTerm, votedFor, persister>>
        \/ /\ FollowLeader(m.dst, m.term)
           /\ \E image : SaveState(m.dst, image)
                         \/ (m.term <= currentTerm[m.dst] /\ UNCHANGED persister)
    BY <1>4, <2>1 DEF InstallSnapshot, electionVars, persist, persistWithSnapshot
  <2> QED
    BY <2>1, <2>2, UntouchedInSync, FollowLeaderInSync
<1>5. ASSUME NEW r \in replies, requestVoteReply(r) \/ appendEntriesReply(r) \/ installSnapshotReply(r)
      PROVE  DiskInSync' /\ VoteStep
  <2>1. r.args.src \in Server /\ r.term \in Nat
    BY DEF TypeOK, RequestVoteReply, AppendEntriesReply, InstallSnapshotReply,
           RequestVoteArgs, AppendEntriesArgs, InstallSnapshotArgs
  <2>2. \/ UNCHANGED <<currentTerm, votedFor, persister>>
        \/ r.term > currentTerm[r.args.src] /\ StepDown(r.args.src, r.term)
    BY <1>5 DEF requestVoteReply, appendEntriesReply, installSnapshotReply, electionVars
  <2> QED
    BY <2>1, <2>2, UntouchedInSync, StepDownInSync
<1>6. ASSUME NEW i \in Server, Restart(i) PROVE DiskInSync' /\ VoteStep
  <2>1. UNCHANGED <<currentTerm, votedFor, persister>>
    BY <1>6 DEF Restart, DiskInSync, TypeOK
  <2> QED
    BY <2>1, UntouchedInSync
<1>7. ASSUME NEW i \in Server, NEW command \in Command, Start(i, command)
      PROVE  DiskInSync' /\ VoteStep
  <2>1. UNCHANGED <<currentTerm, votedFor>> /\ persist(i)
    BY <1>7 DEF Start, electionVars
  <2>2. VoteStep
    <3>1. \A k \in Server : currentTerm[k] \in Nat
      BY DEF TypeOK
    <3> QED
      BY <2>1, <3>1 DEF VoteStep
  <2>3. DiskInSync'
    BY <2>1, SavedInSync DEF persist
  <2> QED
    BY <2>2, <2>3
<1>8. ASSUME NEW i \in Server, NEW index \in SnapshotAt, Snapshot(i, index)
      PROVE  DiskInSync' /\ VoteStep
  <2>1. UNCHANGED <<currentTerm, votedFor>> /\ persistWithSnapshot(i, ImageAt(i, index))
    BY <1>8 DEF Snapshot, electionVars
  <2>2. VoteStep
    <3>1. \A k \in Server : currentTerm[k] \in Nat
      BY DEF TypeOK
    <3> QED
      BY <2>1, <3>1 DEF VoteStep
  <2>3. DiskInSync'
    BY <2>1, SavedInSync DEF persistWithSnapshot
  <2> QED
    BY <2>2, <2>3
<1>9. CASE \/ UNCHANGED vars
           \/ \E i \in Server : sendHeartbeats(i) \/ updateCommitIndex(i) \/ applyCommitted(i)
           \/ \E h \in heartbeats : heartbeatStale(h) \/ heartbeatSend(h)
  <2>1. UNCHANGED <<currentTerm, votedFor, persister>>
    BY <1>9 DEF vars, electionVars, sendHeartbeats, updateCommitIndex, applyCommitted,
       heartbeatStale, heartbeatSend
  <2> QED
    BY <2>1, UntouchedInSync
<1> QED
  BY <1>1, <1>2, <1>3, <1>4, <1>5, <1>6, <1>7, <1>8, <1>9 DEF Next

\* A step without news for the elections: whoever campaigns afterwards campaigned
\* before, in the same term and with the same votes, and no vote was granted.
Quiet ==
    /\ \A i \in Server : Campaigning(i)' =>
        state'[i] = state[i] /\ currentTerm'[i] = currentTerm[i] /\ votes'[i] = votes[i]
    /\ Granted' \subseteq Granted

\* A vote stays final.
LEMMA BoundStays ==
    ASSUME TypeOK, TypeOK', VoteStep, NEW v \in Server, NEW c \in Server, NEW t \in Nat, Bound(v, c, t)
    PROVE  Bound(v, c, t)'
<1>1. currentTerm[v] \in Nat /\ currentTerm'[v] \in Nat /\ c # None
  BY ServerAssumption DEF TypeOK
<1>2. currentTerm'[v] >= currentTerm[v]
      /\ (currentTerm'[v] = currentTerm[v] /\ votedFor[v] # None => votedFor'[v] = votedFor[v])
  BY DEF VoteStep
<1> QED
  BY <1>1, <1>2 DEF Bound

\* What a granted vote on its way looks like.
LEMMA GrantedTypes ==
    ASSUME TypeOK, NEW r \in Granted
    PROVE  /\ r.args.src \in Server /\ r.args.dst \in Server /\ r.args.term \in Nat
           /\ r.type = "RequestVote" /\ r.voteGranted
  BY MessageTypes DEF Granted, RequestVoteReply, RequestVoteArgs

\* A server that steps down does not campaign any more.
LEMMA StepDownIsQuiet ==
    ASSUME TypeOK, NEW i \in Server, NEW t, StepDown(i, t)
    PROVE  \A k \in Server : Campaigning(k)' =>
             state'[k] = state[k] /\ currentTerm'[k] = currentTerm[k] /\ votes'[k] = votes[k]
<1>1. /\ currentTerm' = [currentTerm EXCEPT ![i] = t]
      /\ state' = [state EXCEPT ![i] = Follower]
      /\ votes' = votes
  BY DEF StepDown
<1>2. \A k \in Server \ {i} : state'[k] = state[k] /\ currentTerm'[k] = currentTerm[k]
  BY <1>1 DEF TypeOK
<1>3. ~Campaigning(i)'
  BY <1>1 DEF TypeOK, Campaigning, Follower, Candidate, Leader
<1> QED
  BY <1>1, <1>2, <1>3

\* A quiet step keeps the vote invariant.
LEMMA QuietKeepsVotes ==
    ASSUME TypeOK, TypeOK', VoteInv, DiskInSync', VoteStep, Quiet
    PROVE  VoteInv'
<1>1. RepliesAreFinal'
  <2> SUFFICES ASSUME NEW r \in Granted' PROVE Bound(r.args.dst, r.args.src, r.args.term)'
    BY DEF RepliesAreFinal
  <2>1. r \in Granted
    BY DEF Quiet
  <2>2. Bound(r.args.dst, r.args.src, r.args.term)
    BY <2>1 DEF VoteInv, RepliesAreFinal
  <2> QED
    BY <2>1, <2>2, GrantedTypes, BoundStays
<1>2. VotesAreFinal'
  <2> SUFFICES ASSUME NEW i \in Server, Campaigning(i)', NEW v \in votes'[i]
               PROVE  Bound(v, i, currentTerm[i])'
    BY DEF VotesAreFinal
  <2>1. Campaigning(i) /\ v \in votes[i] /\ currentTerm'[i] = currentTerm[i]
    BY DEF Quiet, Campaigning
  <2>2. v \in Server /\ currentTerm[i] \in Nat
    BY <2>1 DEF TypeOK
  <2>3. Bound(v, i, currentTerm[i])
    BY <2>1 DEF VoteInv, VotesAreFinal
  <2> DEFINE t == currentTerm[i]
  <2>4. \A u \in Nat : Bound(v, i, u) => Bound(v, i, u)'
    BY <2>2, BoundStays
  <2> QED
    BY <2>1, <2>2, <2>3, <2>4 DEF Bound
<1>3. RepliesAgree'
  BY DEF VoteInv, RepliesAgree, Quiet
<1>4. RepliesAreNew' /\ VotesAreDisjoint' /\ LeadersHaveMajorities'
  BY DEF VoteInv, RepliesAreNew, VotesAreDisjoint, LeadersHaveMajorities, Quiet, Campaigning, IsMajority
<1> QED
  BY <1>1, <1>2, <1>3, <1>4 DEF VoteInv

\* An election begins: nobody has voted in the new term on behalf of server i.
LEMMA VoteStartElection ==
    ASSUME TypeOK, TypeOK', VoteInv, DiskInSync', VoteStep, NEW i \in Server, startElection(i)
    PROVE  VoteInv'
<1>1. /\ Granted' = Granted
      /\ \A k \in Server \ {i} :
           state'[k] = state[k] /\ currentTerm'[k] = currentTerm[k] /\ votes'[k] = votes[k]
      /\ state'[i] = Candidate /\ currentTerm'[i] = currentTerm[i] + 1
      /\ votes'[i] = {i} /\ votedFor'[i] = i
      /\ currentTerm[i] \in Nat
  BY DEF startElection, TypeOK, Granted
<1>2. \A c \in Server : \A t \in Nat : t > currentTerm[i] => ~Bound(i, c, t)
  BY <1>1 DEF Bound
<1>3. RepliesAreFinal'
  <2> SUFFICES ASSUME NEW r \in Granted' PROVE Bound(r.args.dst, r.args.src, r.args.term)'
    BY DEF RepliesAreFinal
  <2>1. r \in Granted
    BY <1>1
  <2>2. Bound(r.args.dst, r.args.src, r.args.term)
    BY <2>1 DEF VoteInv, RepliesAreFinal
  <2> QED
    BY <2>1, <2>2, GrantedTypes, BoundStays
<1>4. VotesAreFinal'
  <2> SUFFICES ASSUME NEW k \in Server, Campaigning(k)', NEW v \in votes'[k]
               PROVE  Bound(v, k, currentTerm[k])'
    BY DEF VotesAreFinal
  <2>1. CASE k = i
    BY <1>1, <2>1 DEF Bound
  <2>2. CASE k # i
    <3>1. Campaigning(k) /\ v \in votes[k] /\ currentTerm'[k] = currentTerm[k]
      BY <1>1, <2>2 DEF Campaigning
    <3>2. v \in Server /\ currentTerm[k] \in Nat
      BY <3>1 DEF TypeOK
    <3>3. Bound(v, k, currentTerm[k])
      BY <3>1 DEF VoteInv, VotesAreFinal
    <3>4. \A u \in Nat : Bound(v, k, u) => Bound(v, k, u)'
      BY <3>2, BoundStays
    <3> QED
      BY <3>1, <3>2, <3>3, <3>4 DEF Bound
  <2> QED
    BY <2>1, <2>2
<1>5. RepliesAgree'
  BY <1>1 DEF VoteInv, RepliesAgree
<1>6. RepliesAreNew'
  <2> SUFFICES ASSUME NEW r \in Granted', NEW k \in Server, Campaigning(k)',
                      currentTerm'[k] = r.args.term, r.args.src # k
               PROVE  r.args.dst \notin votes'[k]
    BY DEF RepliesAreNew
  <2>1. r \in Granted /\ Bound(r.args.dst, r.args.src, r.args.term)
    BY <1>1 DEF VoteInv, RepliesAreFinal
  <2>2. CASE k = i
    <3>1. r.args.term > currentTerm[i] /\ r.args.term \in Nat /\ r.args.src \in Server
      BY <1>1, <2>1, <2>2, GrantedTypes
    <3>2. r.args.dst # i
      BY <1>2, <2>1, <3>1
    <3> QED
      BY <1>1, <2>2, <3>2
  <2>3. CASE k # i
    BY <1>1, <2>1, <2>3 DEF VoteInv, RepliesAreNew, Campaigning
  <2> QED
    BY <2>2, <2>3
<1>7. VotesAreDisjoint'
  <2>1. ASSUME NEW k \in Server, k # i, Campaigning(k)', currentTerm'[k] = currentTerm'[i]
        PROVE  i \notin votes'[k]
    <3>1. Campaigning(k) /\ votes'[k] = votes[k] /\ currentTerm[k] = currentTerm[i] + 1
      BY <1>1, <2>1 DEF Campaigning
    <3>2. currentTerm[k] \in Nat /\ currentTerm[k] > currentTerm[i]
      BY <1>1, <3>1
    <3>3. ~Bound(i, k, currentTerm[k])
      BY <1>2, <3>2
    <3> QED
      BY <3>1, <3>3 DEF VoteInv, VotesAreFinal
  <2>2. ASSUME NEW k \in Server, NEW l \in Server, k # i, l # i, k # l,
               Campaigning(k)', Campaigning(l)', currentTerm'[k] = currentTerm'[l]
        PROVE  votes'[k] \cap votes'[l] = {}
    BY <1>1, <2>2 DEF VoteInv, VotesAreDisjoint, Campaigning
  <2> QED
    BY <1>1, <2>1, <2>2 DEF VotesAreDisjoint
<1>8. LeadersHaveMajorities'
  BY <1>1 DEF VoteInv, LeadersHaveMajorities, IsMajority, Candidate, Leader
<1> QED
  BY <1>3, <1>4, <1>5, <1>6, <1>7, <1>8 DEF VoteInv

\* A vote is granted: the voter had given none in that term to anybody else.
LEMMA VoteRequestVote ==
    ASSUME TypeOK, TypeOK', VoteInv, DiskInSync', VoteStep, NEW m \in requests, RequestVote(m)
    PROVE  VoteInv'
<1> DEFINE v == m.dst
           answer == [type |-> "RequestVote", args |-> m, term |-> currentTerm[v],
                      voteGranted |-> CanVote(v, m)]
<1>1. v \in Server /\ m.src \in Server /\ m.term \in Nat /\ currentTerm[v] \in Nat
  BY MessageTypes DEF RequestVote, RequestVoteArgs, TypeOK
<1>2. /\ \A k \in Server : Campaigning(k)' =>
           state'[k] = state[k] /\ currentTerm'[k] = currentTerm[k] /\ votes'[k] = votes[k]
      /\ Granted' \subseteq Granted \cup {answer}
  <2>1. \A k \in Server : Campaigning(k)' =>
          state'[k] = state[k] /\ currentTerm'[k] = currentTerm[k] /\ votes'[k] = votes[k]
    <3>1. /\ currentTerm' = [currentTerm EXCEPT ![v] = TermAfter(v, m.term)]
          /\ state' = [state EXCEPT ![v] =
                IF m.term > currentTerm[v] \/ CanVote(v, m) THEN Follower ELSE state[v]]
          /\ votes' = votes
      BY DEF RequestVote
    <3>2. TermAfter(v, m.term) = IF m.term > currentTerm[v] THEN m.term ELSE currentTerm[v]
      BY <1>1, TermAfterType
    <3>3. \A k \in Server \ {v} : state'[k] = state[k] /\ currentTerm'[k] = currentTerm[k]
      BY <3>1 DEF TypeOK
    <3>4. /\ state'[v] = IF m.term > currentTerm[v] \/ CanVote(v, m) THEN Follower ELSE state[v]
          /\ currentTerm'[v] = TermAfter(v, m.term)
      BY <1>1, <3>1 DEF TypeOK
    <3>5. Campaigning(v)' => state'[v] = state[v] /\ currentTerm'[v] = currentTerm[v]
      BY <3>2, <3>4 DEF Campaigning, Follower, Candidate, Leader
    <3> QED
      BY <3>1, <3>3, <3>5
  <2>2. replies' \subseteq replies \cup {answer}
    BY DEF RequestVote, Reply
  <2> QED
    BY <2>1, <2>2 DEF Granted
<1>3. CASE ~CanVote(v, m)
  <2>1. answer \notin Granted'
    BY <1>3 DEF Granted
  <2> QED
    BY <1>2, <2>1, QuietKeepsVotes DEF Quiet
<1>4. CASE CanVote(v, m)
  <2>1. m.term >= currentTerm[v] /\ (m.term = currentTerm[v] => votedFor[v] \in {None, m.src})
    BY <1>1, <1>4 DEF CanVote, VoteAfter
  <2>2. currentTerm'[v] = m.term /\ votedFor'[v] = m.src
    <3>1. /\ currentTerm' = [currentTerm EXCEPT ![v] = TermAfter(v, m.term)]
          /\ votedFor' = [votedFor EXCEPT ![v] = m.src]
      BY <1>4 DEF RequestVote
    <3>2. TermAfter(v, m.term) = m.term
      BY <1>1, <2>1, TermAfterType
    <3> QED
      BY <1>1, <3>1, <3>2 DEF TypeOK
  <2>3. \A c \in Server : Bound(v, c, m.term) => c = m.src
    BY <1>1, <2>1, ServerAssumption DEF Bound
  <2>4. Bound(v, m.src, m.term)'
    BY <2>2 DEF Bound
  <2>5. answer.args.dst = v /\ answer.args.src = m.src /\ answer.args.term = m.term
    OBVIOUS
  <2>6. \A r \in Granted :
          /\ r.args.src \in Server /\ r.args.dst \in Server /\ r.args.term \in Nat
          /\ Bound(r.args.dst, r.args.src, r.args.term)
    BY GrantedTypes DEF VoteInv, RepliesAreFinal
  <2>7. RepliesAreFinal'
    <3> SUFFICES ASSUME NEW r \in Granted' PROVE Bound(r.args.dst, r.args.src, r.args.term)'
      BY DEF RepliesAreFinal
    <3>1. CASE r \in Granted
      BY <2>6, <3>1, BoundStays
    <3>2. CASE r = answer
      BY <2>4, <3>2 DEF Bound
    <3> QED
      BY <1>2, <3>1, <3>2
  <2>8. VotesAreFinal'
    <3> SUFFICES ASSUME NEW k \in Server, Campaigning(k)', NEW w \in votes'[k]
                 PROVE  Bound(w, k, currentTerm[k])'
      BY DEF VotesAreFinal
    <3>1. Campaigning(k) /\ w \in votes[k] /\ currentTerm'[k] = currentTerm[k]
      BY <1>2 DEF Campaigning
    <3>2. w \in Server /\ currentTerm[k] \in Nat
      BY <3>1 DEF TypeOK
    <3>3. Bound(w, k, currentTerm[k])
      BY <3>1 DEF VoteInv, VotesAreFinal
    <3>4. \A u \in Nat : Bound(w, k, u) => Bound(w, k, u)'
      BY <3>2, BoundStays
    <3> QED
      BY <3>1, <3>2, <3>3, <3>4 DEF Bound
  <2>9. \A r \in Granted : r.args.dst = v /\ r.args.term = m.term => r.args.src = m.src
    BY <2>3, <2>6
  <2> HIDE DEF answer
  <2>10. RepliesAgree'
    BY <1>2, <2>5, <2>9 DEF VoteInv, RepliesAgree
  <2>11. RepliesAreNew'
    <3> SUFFICES ASSUME NEW r \in Granted', NEW k \in Server, Campaigning(k)',
                        currentTerm'[k] = r.args.term, r.args.src # k
                 PROVE  r.args.dst \notin votes'[k]
      BY DEF RepliesAreNew
    <3>1. Campaigning(k) /\ votes'[k] = votes[k] /\ currentTerm'[k] = currentTerm[k]
      BY <1>2 DEF Campaigning
    <3>2. CASE r \in Granted
      BY <3>1, <3>2 DEF VoteInv, RepliesAreNew
    <3>3. CASE r = answer
      <4>1. ~Bound(v, k, m.term)
        BY <2>3, <2>5, <3>3
      <4> QED
        BY <2>5, <3>1, <3>3, <4>1 DEF VoteInv, VotesAreFinal
    <3> QED
      BY <1>2, <3>2, <3>3
  <2>12. VotesAreDisjoint' /\ LeadersHaveMajorities'
    BY <1>2 DEF VoteInv, VotesAreDisjoint, LeadersHaveMajorities, Campaigning, IsMajority
  <2> QED
    BY <2>7, <2>8, <2>10, <2>11, <2>12 DEF VoteInv
<1> QED
  BY <1>3, <1>4

\* A vote is counted: it was on its way to this candidate and to no other.
LEMMA VoteRequestVoteReply ==
    ASSUME TypeOK, TypeOK', VoteInv, DiskInSync', VoteStep, NEW r \in replies, requestVoteReply(r)
    PROVE  VoteInv'
<1> DEFINE i == r.args.src
           v == r.args.dst
<1>1. /\ i \in Server /\ v \in Server /\ r.term \in Nat /\ r.args.term \in Nat
      /\ r.voteGranted \in BOOLEAN /\ r.type = "RequestVote"
  BY MessageTypes DEF requestVoteReply, RequestVoteReply, RequestVoteArgs
<1>2. Granted' \subseteq Granted
  BY DEF requestVoteReply, Granted
<1>5. /\ currentTerm[i] \in Nat
      /\ state \in [Server -> {Follower, Candidate, Leader}] /\ votes \in [Server -> SUBSET Server]
  BY <1>1 DEF TypeOK
<1>6. /\ r.term > currentTerm[i] <=> ~(r.term <= currentTerm[i])
  BY <1>1, <1>5
<1>3. CASE UNCHANGED <<state, currentTerm, votes>> \/ StepDown(i, r.term)
  <2>1. Quiet
    <3>1. CASE UNCHANGED <<state, currentTerm, votes>>
      BY <1>2, <3>1 DEF Quiet
    <3>2. CASE StepDown(i, r.term)
      BY <1>1, <1>2, <3>2, StepDownIsQuiet DEF Quiet
    <3> QED
      BY <1>3, <3>1, <3>2
  <2> QED
    BY <2>1, QuietKeepsVotes
<1>4. CASE /\ Awaited(r, Candidate) /\ r.voteGranted
           /\ votes' = [votes EXCEPT ![i] = @ \cup {v}]
           /\ \/ IsMajority(Cardinality(votes'[i])) /\ state' = [state EXCEPT ![i] = Leader]
              \/ UNCHANGED state
           /\ UNCHANGED <<currentTerm, votedFor>>
  <2>1. r \in Granted
    BY <1>1, <1>4 DEF Granted
  <2>2. /\ currentTerm[i] = r.args.term /\ state[i] = Candidate /\ Campaigning(i)
        /\ \A k \in Server : Campaigning(k)' <=> Campaigning(k)
        /\ \A k \in Server \ {i} : state'[k] = state[k] /\ votes'[k] = votes[k]
        /\ votes'[i] = votes[i] \cup {v}
        /\ state'[i] = Leader => IsMajority(Cardinality(votes'[i]))
    <3>1. currentTerm[i] = r.args.term /\ state[i] = Candidate /\ Campaigning(i)
      BY <1>4 DEF Awaited, Campaigning
    <3>2. \A k \in Server \ {i} : state'[k] = state[k] /\ votes'[k] = votes[k]
      <4>1. \A k \in Server \ {i} : votes'[k] = votes[k]
        BY <1>4, <1>5
      <4>2. \A k \in Server \ {i} : state'[k] = state[k]
        BY <1>4, <1>5
      <4> QED
        BY <4>1, <4>2
    <3>3. votes'[i] = votes[i] \cup {v}
      BY <1>1, <1>4 DEF TypeOK
    <3>4. state'[i] \in {Candidate, Leader}
          /\ (state'[i] = Leader => IsMajority(Cardinality(votes'[i])))
      <4>1. CASE IsMajority(Cardinality(votes'[i])) /\ state' = [state EXCEPT ![i] = Leader]
        BY <1>1, <4>1 DEF TypeOK
      <4>2. CASE UNCHANGED state
        BY <3>1, <4>2 DEF Candidate, Leader
      <4> QED
        BY <1>4, <4>1, <4>2
    <3>5. \A k \in Server : Campaigning(k)' <=> Campaigning(k)
      BY <3>1, <3>2, <3>4 DEF Campaigning
    <3> QED
      BY <3>1, <3>2, <3>3, <3>4, <3>5
  <2>3. Bound(v, i, currentTerm[i])
    BY <2>1, <2>2 DEF VoteInv, RepliesAreFinal
  <2>4. RepliesAreFinal'
    BY <1>2, <1>4 DEF VoteInv, RepliesAreFinal, Bound
  <2>5. VotesAreFinal'
    BY <1>4, <2>2, <2>3 DEF VoteInv, VotesAreFinal, Bound
  <2>6. RepliesAgree'
    BY <1>2 DEF VoteInv, RepliesAgree
  <2>7. RepliesAreNew'
    <3> SUFFICES ASSUME NEW q \in Granted', NEW k \in Server, Campaigning(k)',
                        currentTerm'[k] = q.args.term, q.args.src # k
                 PROVE  q.args.dst \notin votes'[k]
      BY DEF RepliesAreNew
    <3>1. q \in Granted /\ Campaigning(k) /\ currentTerm[k] = q.args.term
      BY <1>2, <1>4, <2>2
    <3>2. q.args.dst \notin votes[k]
      BY <3>1 DEF VoteInv, RepliesAreNew
    <3>3. k = i => q.args.dst # v
      BY <2>1, <2>2, <3>1 DEF VoteInv, RepliesAgree
    <3> QED
      BY <2>2, <3>2, <3>3
  <2>8. VotesAreDisjoint'
    <3>1. \A k \in Server : Campaigning(k) /\ currentTerm[k] = currentTerm[i] /\ k # i =>
            v \notin votes[k]
      BY <2>1, <2>2 DEF VoteInv, RepliesAreNew
    <3> QED
      BY <1>4, <2>2, <3>1 DEF VoteInv, VotesAreDisjoint
  <2>9. LeadersHaveMajorities'
    BY <1>1, <2>2 DEF VoteInv, LeadersHaveMajorities, IsMajority
  <2> QED
    BY <2>4, <2>5, <2>6, <2>7, <2>8, <2>9 DEF VoteInv
<1> QED
  <2>1. CASE ~Awaited(r, Candidate)
    BY <1>3, <2>1 DEF requestVoteReply, electionVars
  <2>2. CASE Awaited(r, Candidate) /\ r.term > currentTerm[i]
    <3>1. StepDown(i, r.term)
      BY <1>6, <2>2 DEF requestVoteReply
    <3> QED
      BY <1>3, <3>1
  <2>3. CASE Awaited(r, Candidate) /\ r.term <= currentTerm[i] /\ r.voteGranted
    <3>1. /\ votes' = [votes EXCEPT ![i] = @ \cup {v}]
          /\ IF IsMajority(Cardinality(votes'[i])) THEN BecomeLeader(i)
             ELSE UNCHANGED <<state, leaderVars>>
          /\ UNCHANGED <<currentTerm, votedFor>>
      BY <1>6, <2>3 DEF requestVoteReply
    <3> QED
      BY <1>4, <2>3, <3>1 DEF BecomeLeader
  <2>4. CASE Awaited(r, Candidate) /\ r.term <= currentTerm[i] /\ ~r.voteGranted
    <3>1. /\ votes' = [votes EXCEPT ![i] = votes[i]]
          /\ UNCHANGED <<state, leaderVars>> /\ UNCHANGED <<currentTerm, votedFor>>
      BY <1>6, <2>4 DEF requestVoteReply
    <3>2. votes' = votes
      BY <3>1 DEF TypeOK
    <3> QED
      BY <1>3, <3>1, <3>2
  <2> QED
    BY <1>6, <2>1, <2>2, <2>3, <2>4

\* A server that follows a leader does not campaign any more.
LEMMA FollowLeaderIsQuiet ==
    ASSUME TypeOK, NEW i \in Server, NEW t, FollowLeader(i, t)
    PROVE  \A k \in Server : Campaigning(k)' =>
             state'[k] = state[k] /\ currentTerm'[k] = currentTerm[k] /\ votes'[k] = votes[k]
<1>1. /\ currentTerm' = [currentTerm EXCEPT ![i] = TermAfter(i, t)]
      /\ state' = [state EXCEPT ![i] = Follower]
      /\ votes' = votes
  BY DEF FollowLeader
<1>2. \A k \in Server \ {i} : state'[k] = state[k] /\ currentTerm'[k] = currentTerm[k]
  BY <1>1 DEF TypeOK
<1>3. ~Campaigning(i)'
  BY <1>1 DEF TypeOK, Campaigning, Follower, Candidate, Leader
<1> QED
  BY <1>1, <1>2, <1>3

\* Every action but the three of an election is quiet.
LEMMA OthersAreQuiet ==
    ASSUME TypeOK, [Next]_vars,
           ~\E i \in Server : startElection(i),
           ~\E m \in requests : RequestVote(m),
           ~\E r \in replies : requestVoteReply(r)
    PROVE  Quiet
<1>1. ASSUME UNCHANGED <<state, currentTerm, votes>>, replies' \subseteq replies PROVE Quiet
  BY <1>1 DEF Quiet, Granted
<1>2. ASSUME NEW m \in requests, AppendEntries(m) PROVE Quiet
  <2>1. m.dst \in Server
    BY <1>2, MessageTypes DEF AppendEntries, AppendEntriesArgs
  <2>2. \A q \in replies' : q \in replies \/ q.type = "AppendEntries"
    BY <1>2 DEF AppendEntries, Reply
  <2>3. Granted' \subseteq Granted
    BY <2>2 DEF Granted
  <2>4. UNCHANGED <<state, currentTerm, votes>> \/ FollowLeader(m.dst, m.term)
    BY <1>2 DEF AppendEntries, electionVars
  <2> QED
    BY <2>1, <2>3, <2>4, FollowLeaderIsQuiet DEF Quiet
<1>3. ASSUME NEW m \in requests, InstallSnapshot(m) PROVE Quiet
  <2>1. m.dst \in Server
    BY <1>3, MessageTypes DEF InstallSnapshot, InstallSnapshotArgs
  <2>2. \A q \in replies' : q \in replies \/ q.type = "InstallSnapshot"
    BY <1>3 DEF InstallSnapshot, Reply
  <2>3. Granted' \subseteq Granted
    BY <2>2 DEF Granted
  <2>4. UNCHANGED <<state, currentTerm, votes>> \/ FollowLeader(m.dst, m.term)
    BY <1>3 DEF InstallSnapshot, electionVars
  <2> QED
    BY <2>1, <2>3, <2>4, FollowLeaderIsQuiet DEF Quiet
<1>4. ASSUME NEW r \in replies, appendEntriesReply(r) \/ installSnapshotReply(r) PROVE Quiet
  <2>1. r.args.src \in Server
    BY DEF TypeOK, RequestVoteReply, AppendEntriesReply, InstallSnapshotReply,
           RequestVoteArgs, AppendEntriesArgs, InstallSnapshotArgs
  <2>2. replies' \subseteq replies
    BY <1>4 DEF appendEntriesReply, installSnapshotReply
  <2>3. UNCHANGED <<state, currentTerm, votes>> \/ StepDown(r.args.src, r.term)
    BY <1>4 DEF appendEntriesReply, installSnapshotReply, electionVars
  <2>4. CASE StepDown(r.args.src, r.term)
    BY <2>1, <2>2, <2>4, StepDownIsQuiet DEF Quiet, Granted
  <2> QED
    BY <1>1, <2>2, <2>3, <2>4
<1>5. ASSUME NEW i \in Server, Restart(i) PROVE Quiet
  <2>1. Granted' \subseteq Granted
    BY <1>5 DEF Restart, Granted
  <2>2. ~Campaigning(i)'
    BY <1>5 DEF Restart, TypeOK, Campaigning, Follower, Candidate, Leader
  <2>3. /\ \A k \in Server \ {i} : state'[k] = state[k]
        /\ \A k \in Server \ {i} : currentTerm'[k] = currentTerm[k]
        /\ \A k \in Server \ {i} : votes'[k] = votes[k]
    BY <1>5 DEF Restart, TypeOK
  <2> QED
    BY <2>1, <2>2, <2>3 DEF Quiet
<1>6. ASSUME NEW i \in Server,
             \/ sendHeartbeats(i) \/ updateCommitIndex(i) \/ applyCommitted(i)
             \/ \E command \in Command : Start(i, command)
             \/ \E index \in SnapshotAt : Snapshot(i, index)
      PROVE  Quiet
  <2>1. UNCHANGED <<state, currentTerm, votes, replies>>
    BY <1>6 DEF sendHeartbeats, updateCommitIndex, applyCommitted, Start, Snapshot,
       electionVars, netVars
  <2> QED
    BY <1>1, <2>1
<1>7. ASSUME NEW h \in heartbeats, heartbeatStale(h) \/ heartbeatSend(h) PROVE Quiet
  <2>1. UNCHANGED <<state, currentTerm, votes, replies>>
    BY <1>7 DEF heartbeatStale, heartbeatSend, electionVars
  <2> QED
    BY <1>1, <2>1
<1>8. CASE UNCHANGED vars
  BY <1>1, <1>8 DEF vars, electionVars, netVars
<1> QED
  BY <1>2, <1>3, <1>4, <1>5, <1>6, <1>7, <1>8 DEF Next

\* The vote invariant is inductive.
LEMMA VoteNext == TypeOK /\ VoteInv /\ [Next]_vars => VoteInv'
<1> SUFFICES ASSUME TypeOK, VoteInv, [Next]_vars PROVE VoteInv'
  OBVIOUS
<1>1. TypeOK' /\ DiskInSync' /\ VoteStep
  BY TypeNext, VotesStepInSync DEF VoteInv
<1>2. CASE \E i \in Server : startElection(i)
  BY <1>1, <1>2, VoteStartElection
<1>3. CASE \E m \in requests : RequestVote(m)
  BY <1>1, <1>3, VoteRequestVote
<1>4. CASE \E r \in replies : requestVoteReply(r)
  BY <1>1, <1>4, VoteRequestVoteReply
<1> QED
  BY <1>1, <1>2, <1>3, <1>4, OthersAreQuiet, QuietKeepsVotes

\* At most one server leads in a term.  The reason is raft.go:255-279 and 460-483:
\* a vote is on disk before it is sent, is never changed within its term, and a
\* candidate counts only votes of its own term, each peer's once.
THEOREM ElectionSafe == Spec => []ElectionSafety
  BY TypeInit, TypeNext, VoteInit, VoteNext, VoteInvImplies, PTL DEF Spec

\* No handler, no reply and no restart takes a term back or changes a vote within
\* its term: every path through raft.go that assigns either ends in persist().
THEOREM VotesKept == Spec => VoteIsKept
<1>1. TypeOK /\ VoteInv /\ [Next]_vars => [VoteStep]_vars
  BY VotesStepInSync DEF VoteInv
<1> QED
  BY <1>1, TypeInit, TypeNext, VoteInit, VoteNext, PTL DEF Spec, VoteIsKept, VoteStep
=============================================================================

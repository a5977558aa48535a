---------------------------- MODULE RaftLogProofs ----------------------------
(***************************************************************************)
(* Logs and commits of Raft, for every set of servers and every bound, as  *)
(* long as the service takes no snapshots.                                 *)
(*                                                                         *)
(* What makes an entry safe lies in the past: who was elected by whom, and *)
(* who had accepted what by then.  The state does not keep that, so the    *)
(* inductive invariant says that there is a history h that explains it.    *)
(***************************************************************************)
EXTENDS RaftProofs

-----------------------------------------------------------------------------
(* The history and the invariant *)

\* What a run has done so far, as the invariants need it: llog[t] is the log of the
\* leader of term t as far as it has grown, lead[t] that leader (None without one),
\* voters[t] the majority that elected it, cast[v][t] the vote of v in term t, and
\* acked[v][t] how much of llog[t] server v has accepted while in term t.  Positions
\* count from 1, the dummy entry: index n is at position n + 1.
History ==
    [llog : [Nat -> Seq(LogEntry)], lead : [Nat -> Server \cup {None}],
     voters : [Nat -> SUBSET Server], cast : [Server -> [Nat -> Server \cup {None}]],
     acked : [Server -> [Nat -> Nat]]]

Led(h, t) == h.lead[t] # None

\* Whatever an entry of L has as its term, L is the log of that term's leader up to it.
Sound(L, h) ==
    \A q \in 1..Len(L) :
        /\ q <= Len(h.llog[L[q].term])
        /\ \A k \in 1..q : L[k] = h.llog[L[q].term][k]

\* Without snapshots the disk holds the whole log.
NoSnapshots ==
    /\ \A i \in Server :
        /\ snapshotIndex[i] = 0 /\ persister[i].snapshotIndex = 0
        /\ persister[i].snapshot = <<>> /\ persister[i].log = log[i]
    /\ \A hb \in heartbeats : hb.snapshot = <<>>
    /\ \A m \in requests : m.type # "InstallSnapshot"
    /\ \A r \in replies : r.type # "InstallSnapshot"

CastNow(h) ==
    \A v \in Server :
        /\ h.cast[v][currentTerm[v]] = votedFor[v]
        /\ \A t \in Nat : t > currentTerm[v] => h.cast[v][t] = None

CastInTerm(h) ==
    \A v \in Server, t \in Nat : h.cast[v][t] # None => t <= currentTerm[h.cast[v][t]]

VotesCast(h) ==
    \A i \in Server : Campaigning(i) => \A v \in votes[i] : h.cast[v][currentTerm[i]] = i

GrantedCast(h) ==
    \A r \in Granted : h.cast[r.args.dst][r.args.term] = r.args.src

LeadersElected(h) ==
    \A t \in Nat : Led(h, t) =>
        /\ IsMajority(Cardinality(h.voters[t]))
        /\ \A v \in h.voters[t] : h.cast[v][t] = h.lead[t]
        /\ t <= currentTerm[h.lead[t]]
        /\ t = currentTerm[h.lead[t]] => state[h.lead[t]] # Candidate

LeadersLead(h) ==
    \A i \in Server :
        /\ state[i] = Leader => h.lead[currentTerm[i]] = i
        /\ state[i] = Candidate => currentTerm[i] # 0

ElectionInv(h) ==
    /\ CastNow(h) /\ CastInTerm(h) /\ VotesCast(h) /\ GrantedCast(h)
    /\ LeadersElected(h) /\ LeadersLead(h)

TermLogs(h) ==
    /\ h.llog[0] = <<Dummy(0)>> /\ h.lead[0] = None
    /\ \A t \in Nat \ {0} : ~Led(h, t) => h.llog[t] = <<>>
    /\ \A t \in Nat : Sound(h.llog[t], h) /\ \A q \in 1..Len(h.llog[t]) : h.llog[t][q].term <= t

ServerLogs(h) ==
    \A i \in Server :
        /\ Sound(log[i], h)
        /\ \A q \in 1..Len(log[i]) : log[i][q].term <= currentTerm[i]
        /\ state[i] = Leader => log[i] = h.llog[currentTerm[i]]

LogInv(h) == TermLogs(h) /\ ServerLogs(h)

AckedBound(h) ==
    \A v \in Server, t \in Nat :
        h.acked[v][t] <= Len(h.llog[t]) /\ (h.acked[v][t] > 0 => t <= currentTerm[v])

AckedInTerm(h) ==
    \A v \in Server : \A q \in 1..h.acked[v][currentTerm[v]] :
        q <= Len(log[v]) /\ log[v][q] = h.llog[currentTerm[v]][q]

\* L has the entry that the leader of term t made at position q.
Has(L, q, t) == q <= Len(L) /\ L[q].term = t

\* Server v has accepted, in term t, an entry of term t at position q.
Accepted(h, v, q, t) == q \in 1..h.acked[v][t] /\ h.llog[t][q].term = t

\* A leader of a term in t + 1 .. u was elected without the entry of term t at q.
Overruled(h, q, t, u) == \E s \in t + 1 .. u : Led(h, s) /\ ~Has(h.llog[s], q, t)

Held(h) ==
    \A v \in Server, t \in Nat : \A q \in 1..h.acked[v][t] :
        Accepted(h, v, q, t) => Has(log[v], q, t) \/ Overruled(h, q, t, currentTerm[v])

CandidatesHold(h) ==
    \A k \in Server, v \in Server :
        state[k] = Candidate /\ h.cast[v][currentTerm[k]] = k =>
            \A t \in 0..currentTerm[k] - 1 : \A q \in 1..h.acked[v][t] :
                Accepted(h, v, q, t) =>
                    Has(log[k], q, t) \/ Overruled(h, q, t, currentTerm[k])

LeadersHold(h) ==
    \A u \in Nat : Led(h, u) =>
        \A v \in h.voters[u] : \A t \in 0..u - 1 : \A q \in 1..h.acked[v][t] :
            Accepted(h, v, q, t) => Has(h.llog[u], q, t) \/ Overruled(h, q, t, u - 1)

AckInv(h) == AckedBound(h) /\ AckedInTerm(h) /\ Held(h) /\ CandidatesHold(h) /\ LeadersHold(h)

\* A majority has accepted the entry of term t at position q in that term.
Committed(h, q, t) ==
    /\ q \in 1..Len(h.llog[t]) /\ h.llog[t][q].term = t
    /\ IsMajority(Cardinality({v \in Server : h.acked[v][t] >= q}))

\* Position n of the log of a term up to u is committed, and L agrees with that log.
CommittedIn(h, L, n, u) ==
    \E t \in 0..u : \E q \in n..Len(h.llog[t]) :
        /\ Committed(h, q, t)
        /\ n <= Len(L) /\ \A k \in 1..n : L[k] = h.llog[t][k]

\* What a leader of term t says is committed.
CommitSaid(h, index, t) == index > 0 => CommittedIn(h, h.llog[t], index + 1, t)

HeartbeatKnown(h, hb) ==
    h.lead[hb.term] = hb.src /\ hb.src # hb.dst /\ CommitSaid(h, hb.commitIndex, hb.term)

\* An AppendEntries request is a piece of the log of its term's leader.
PieceOf(m, L) ==
    /\ m.prevLogIndex >= 0
    /\ m.prevLogIndex + 1 + Len(m.entries) <= Len(L)
    /\ m.prevLogTerm = L[m.prevLogIndex + 1].term
    /\ \A k \in 1..Len(m.entries) : m.entries[k] = L[m.prevLogIndex + 1 + k]

AppendKnown(h, m) ==
    /\ h.lead[m.term] = m.src /\ m.src # m.dst
    /\ PieceOf(m, h.llog[m.term]) /\ CommitSaid(h, m.leaderCommit, m.term)

\* An answer to AppendEntries counts what the follower has accepted, or sends the
\* leader back to a place in its log.
ReplyKnown(h, r) ==
    /\ r.args.src # r.args.dst
    /\ r.success => NewMatch(r) >= 0 /\ NewMatch(r) < h.acked[r.args.dst][r.args.term]
    /\ ~r.success => (IF r.xTerm = -1 THEN r.xLen ELSE r.xIndex) < Len(h.llog[r.args.term])

\* A candidate's requests say how far its log goes.
CandidateKnown(m) ==
    /\ m.term <= currentTerm[m.src]
    /\ state[m.src] = Candidate /\ currentTerm[m.src] = m.term =>
         m.lastLogIndex = LastLogIndex(m.src) /\ m.lastLogTerm = LastLogTerm(m.src)

MessageInv(h) ==
    /\ \A hb \in heartbeats : HeartbeatKnown(h, hb)
    /\ \A m \in requests : m.type = "AppendEntries" => AppendKnown(h, m)
    /\ \A m \in requests : m.type = "RequestVote" => CandidateKnown(m)
    /\ \A r \in replies : r.type = "AppendEntries" => ReplyKnown(h, r)

NextInLog ==
    \A i, j \in Server : state[i] = Leader => nextIndex[i][j] \in 1..Len(log[i])

MatchAcked(h) ==
    \A i, j \in Server : state[i] = Leader =>
        IF j = i THEN h.acked[i][currentTerm[i]] = Len(log[i])
        ELSE matchIndex[i][j] > 0 => matchIndex[i][j] < h.acked[j][currentTerm[i]]

CommitsKnown(h) ==
    \A i \in Server : commitIndex[i] > 0 =>
        CommittedIn(h, log[i], commitIndex[i] + 1, currentTerm[i])

AppliedKnown(h) ==
    \A i \in Server : \A n \in DOMAIN applied[i] :
        \E t \in Nat : \E q \in n + 1 .. Len(h.llog[t]) :
            Committed(h, q, t) /\ applied[i][n] = h.llog[t][n + 1]

ServerInv(h) == NextInLog /\ MatchAcked(h) /\ CommitsKnown(h) /\ AppliedKnown(h)

HistoryInv(h) ==
    h \in History /\ ElectionInv(h) /\ LogInv(h) /\ AckInv(h) /\ MessageInv(h) /\ ServerInv(h)

LogSafety == TypeOK /\ VoteInv /\ NoSnapshots /\ \E h : HistoryInv(h)

-----------------------------------------------------------------------------
(* Logs and histories *)

\* L and M agree on the positions up to n.
Agree(L, M, n) == n <= Len(L) /\ n <= Len(M) /\ \A k \in 1..n : L[k] = M[k]

\* The types of what a log holds.
LEMMA LogTypes ==
    ASSUME NEW L \in Seq(LogEntry)
    PROVE  /\ Len(L) \in Nat
           /\ \A q \in 1..Len(L) : L[q] \in LogEntry /\ L[q].term \in Nat
<1>1. Len(L) \in Nat /\ \A q \in 1..Len(L) : L[q] \in LogEntry
  BY LenProperties
<1> QED
  BY <1>1 DEF LogEntry

\* The types of what a history holds.
LEMMA TermTypes ==
    ASSUME NEW h \in History, NEW t \in Nat
    PROVE  /\ h.llog[t] \in Seq(LogEntry) /\ Len(h.llog[t]) \in Nat
           /\ \A q \in 1..Len(h.llog[t]) : h.llog[t][q] \in LogEntry /\ h.llog[t][q].term \in Nat
           /\ h.lead[t] \in Server \cup {None} /\ h.voters[t] \in SUBSET Server
<1>1. h.llog[t] \in Seq(LogEntry)
  BY DEF History
<1>2. h.lead[t] \in Server \cup {None} /\ h.voters[t] \in SUBSET Server
  BY DEF History
<1> QED
  BY <1>1, <1>2, LogTypes

\* The types of what a history holds of one server.
LEMMA VoterTypes ==
    ASSUME NEW h \in History, NEW t \in Nat, NEW v \in Server
    PROVE  h.cast[v][t] \in Server \cup {None} /\ h.acked[v][t] \in Nat
  BY DEF History

\* Sound logs with the same term at a position agree up to it.
LEMMA SoundAgree ==
    ASSUME NEW h, NEW L, NEW M, Sound(L, h), Sound(M, h),
           NEW q \in 1..Len(L), q \in 1..Len(M), L[q].term = M[q].term,
           Len(L) \in Nat, Len(M) \in Nat
    PROVE  Agree(L, M, q)
  BY DEF Sound, Agree

\* A sound log with an entry of term t is the log of that term's leader up to it.
LEMMA HasAgree ==
    ASSUME NEW h \in History, NEW L \in Seq(LogEntry), Sound(L, h), NEW q \in Nat \ {0}, NEW t \in Nat,
           Has(L, q, t)
    PROVE  Agree(L, h.llog[t], q)
<1>1. Len(L) \in Nat
  BY LogTypes
<1>2. q \in 1..Len(L) /\ L[q].term = t
  BY <1>1 DEF Has
<1> QED
  BY <1>2 DEF Sound, Agree

\* Along a leader's log the terms do not fall.
LEMMA TermsRise ==
    ASSUME NEW h \in History, TermLogs(h), NEW s \in Nat, NEW q \in 1..Len(h.llog[s]), NEW k \in 1..q
    PROVE  h.llog[s][k].term <= h.llog[s][q].term
<1>1. PICK u : u = h.llog[s][q].term
  OBVIOUS
<1>2. Len(h.llog[s]) \in Nat /\ u \in Nat
  BY <1>1, TermTypes
<1>3. q <= Len(h.llog[u]) /\ h.llog[s][k] = h.llog[u][k]
  BY <1>1 DEF TermLogs, Sound
<1>4. Len(h.llog[u]) \in Nat
  BY <1>2, TermTypes
<1>5. h.llog[u][k].term <= u
  BY <1>2, <1>3, <1>4 DEF TermLogs
<1> QED
  BY <1>1, <1>3, <1>5

\* What the entry loop of AppendEntries leaves, when the entries are a piece of L and
\* the log agrees with L up to where they go: the log, if it has them all, and
\* otherwise L as far as they reach.
LEMMA MergeResult ==
    ASSUME NEW lg \in Seq(LogEntry) \ {<<>>}, NEW at \in 1..Len(lg), NEW es \in Seq(LogEntry),
           NEW L \in Seq(LogEntry), Agree(lg, L, at), at + Len(es) <= Len(L),
           \A k \in 1..Len(es) : es[k] = L[at + k],
           \A q \in 1..Len(lg) : q <= Len(L) /\ lg[q].term = L[q].term => lg[q] = L[q],
           NEW M, M = Merge(lg, at, es)
    PROVE  \/ M = lg /\ Agree(lg, L, at + Len(es))
           \/ /\ Len(M) = at + Len(es) /\ Agree(M, L, at + Len(es))
              /\ \A n \in 1..Len(L) : Agree(lg, L, n) => n <= Len(M)
<1> DEFINE differ == {k \in 1..Len(es) : at + k <= Len(lg) /\ lg[at + k].term # es[k].term}
           keep == IF differ = {} THEN Len(lg) ELSE at + Min(differ) - 1
           head == SubSeq(lg, 1, keep)
           rest == SubSeq(es, keep - at + 1, Len(es))
<1>1. Len(lg) \in Nat /\ Len(es) \in Nat /\ Len(L) \in Nat /\ Len(lg) > 0
  BY LenProperties, EmptySeq
<1>2. differ \in SUBSET Nat
  BY <1>1
<1>3. differ # {} => Min(differ) \in differ /\ \A k \in differ : Min(differ) <= k
  BY <1>2, NonemptyMin
<1>4. PICK d : d = Min(differ)
  OBVIOUS
<1>5. /\ differ = {} => keep = Len(lg)
      /\ differ # {} => /\ d \in 1..Len(es) /\ at + d <= Len(lg) /\ lg[at + d].term # es[d].term
                        /\ keep = at + d - 1 /\ \A k \in differ : d <= k
  BY <1>3, <1>4
<1>6. \A k \in 1..Len(es) : k \notin differ => at + k > Len(lg) \/ lg[at + k].term = es[k].term
  BY <1>1
<1>7. M = head \o rest
  BY DEF Merge
<1> HIDE DEF differ, keep
<1>8. keep \in at..Len(lg)
  BY <1>1, <1>5
<1>9. \A k \in at + 1 .. keep : k - at <= Len(es) => lg[k] = L[k]
  <2> SUFFICES ASSUME NEW k \in at + 1 .. keep, k - at <= Len(es) PROVE lg[k] = L[k]
    OBVIOUS
  <2>1. PICK j : j = k - at
    OBVIOUS
  <2>2. j \in 1..Len(es) /\ k = at + j /\ k <= Len(lg) /\ k <= Len(L) /\ k \in 1..Len(lg)
    BY <1>1, <1>8, <2>1
  <2>3. j \notin differ
    BY <1>1, <1>5, <2>2
  <2>4. es[j] = L[at + j] /\ L[at + j] = L[k] /\ lg[at + j] = lg[k]
    BY <2>2
  <2>5. lg[at + j].term = es[j].term
    BY <1>1, <1>6, <2>2, <2>3
  <2> QED
    BY <2>2, <2>4, <2>5
<1>10. differ # {} => /\ keep < at + Len(es) /\ keep + 1 <= Len(lg)
                     /\ lg[keep + 1].term # L[keep + 1].term
  <2> SUFFICES ASSUME differ # {}
               PROVE  /\ keep < at + Len(es) /\ keep + 1 <= Len(lg)
                      /\ lg[keep + 1].term # L[keep + 1].term
    OBVIOUS
  <2>1. es[d] = L[at + d] /\ keep + 1 = at + d
    BY <1>1, <1>5
  <2> QED
    BY <1>1, <1>5, <2>1
<1>11. head \in Seq(LogEntry) /\ Len(head) = keep /\ \A k \in 1..keep : head[k] = lg[k]
  <2>1. \A n \in 1..keep : lg[n] \in LogEntry
    BY <1>1, <1>8, LenProperties
  <2>2. /\ head \in Seq(LogEntry) /\ Len(head) = IF 1 <= keep THEN keep - 1 + 1 ELSE 0
        /\ \A k \in 1..(keep - 1 + 1) : head[k] = lg[1 + k - 1]
    BY <1>1, <1>8, <2>1, SubSeqProperties
  <2> HIDE DEF head
  <2> QED
    BY <1>1, <1>8, <2>2
<1>12. CASE keep >= at + Len(es)
  <2>1. keep = Len(lg)
    BY <1>1, <1>8, <1>5, <1>10, <1>12
  <2>2. rest = <<>>
    BY <1>1, <1>8, <1>12, SubSeqEmpty
  <2> HIDE DEF head, rest
  <2>3. head = lg
    BY <1>11, <2>1, SeqEqual
  <2>4. M = lg
    BY <1>7, <2>2, <2>3, <1>11, ConcatEmptySeq
  <2>5. \A k \in 1..(at + Len(es)) : lg[k] = L[k]
    <3> SUFFICES ASSUME NEW k \in 1..(at + Len(es)) PROVE lg[k] = L[k]
      OBVIOUS
    <3>1. CASE k <= at
      BY <1>1, <3>1 DEF Agree
    <3>2. CASE k > at
      BY <1>1, <1>8, <1>9, <1>12, <3>2
    <3> QED
      BY <1>1, <3>1, <3>2
  <2>6. Agree(lg, L, at + Len(es))
    BY <1>1, <1>12, <2>1, <2>5 DEF Agree
  <2> QED
    BY <2>4, <2>6
<1>13. CASE keep < at + Len(es)
  <2>1. /\ rest \in Seq(LogEntry) /\ Len(rest) = at + Len(es) - keep
        /\ \A k \in 1..Len(rest) : rest[k] = es[keep - at + k]
    <3>1. \A n \in (keep - at + 1)..Len(es) : es[n] \in LogEntry
      BY <1>1, <1>8, LenProperties
    <3>2. /\ rest \in Seq(LogEntry)
          /\ Len(rest) = IF keep - at + 1 <= Len(es) THEN Len(es) - (keep - at + 1) + 1 ELSE 0
          /\ \A k \in 1..(Len(es) - (keep - at + 1) + 1) : rest[k] = es[(keep - at + 1) + k - 1]
      BY <1>1, <1>8, <1>13, <3>1, SubSeqProperties
    <3> HIDE DEF rest
    <3> QED
      BY <1>1, <1>8, <1>13, <3>2
  <2> HIDE DEF rest, head
  <2>2. /\ Len(M) = at + Len(es)
        /\ \A k \in 1..Len(M) : M[k] = IF k <= keep THEN head[k] ELSE rest[k - keep]
    <3>1. /\ Len(M) = Len(head) + Len(rest)
          /\ \A k \in 1..Len(head) + Len(rest) :
                M[k] = IF k <= Len(head) THEN head[k] ELSE rest[k - Len(head)]
      <4>1. head \in Seq(LogEntry) /\ rest \in Seq(LogEntry)
        BY <1>11, <2>1
      <4>2. /\ Len(head \o rest) = Len(head) + Len(rest)
            /\ \A k \in 1..Len(head) + Len(rest) :
                  (head \o rest)[k] = IF k <= Len(head) THEN head[k] ELSE rest[k - Len(head)]
        BY <4>1, ConcatProperties, ZenonT(30)
      <4> QED
        BY <1>7, <4>2, Zenon
    <3> QED
      BY <1>1, <1>8, <1>11, <2>1, <3>1
  <2>3. \A k \in 1..Len(M) : M[k] = L[k]
    <3> SUFFICES ASSUME NEW k \in 1..Len(M) PROVE M[k] = L[k]
      OBVIOUS
    <3>1. CASE k <= at
      BY <1>1, <1>8, <1>11, <2>2, <3>1 DEF Agree
    <3>2. CASE at < k /\ k <= keep
      BY <1>1, <1>8, <1>9, <1>11, <1>13, <2>2, <3>2
    <3>3. CASE keep < k
      <4>1. k - keep \in 1..Len(rest) /\ keep - at + (k - keep) = k - at /\ k - at \in 1..Len(es)
        BY <1>1, <1>8, <2>1, <2>2, <3>3
      <4>2. M[k] = rest[k - keep]
        BY <1>1, <1>8, <2>2, <3>3
      <4>3. rest[k - keep] = es[keep - at + (k - keep)]
        BY <2>1, <4>1, Zenon
      <4>4. es[k - at] = L[at + (k - at)] /\ at + (k - at) = k
        BY <4>1
      <4> QED
        BY <4>1, <4>2, <4>3, <4>4
    <3> QED
      BY <1>1, <1>8, <2>2, <3>1, <3>2, <3>3
  <2>4. ASSUME NEW n \in 1..Len(L), Agree(lg, L, n) PROVE n <= Len(M)
    <3>1. CASE differ = {}
      BY <1>1, <1>5, <1>13, <2>2, <2>4, <3>1 DEF Agree
    <3>2. CASE differ # {}
      BY <1>1, <1>8, <1>10, <2>2, <2>4, <3>2 DEF Agree
    <3> QED
      BY <3>1, <3>2
  <2> QED
    BY <1>1, <2>2, <2>3, <2>4 DEF Agree
<1> QED
  BY <1>1, <1>8, <1>12, <1>13

-----------------------------------------------------------------------------
(* What is committed stays with the leaders *)

\* Two majorities have a server in common.
LEMMA MajoritiesMeet ==
    ASSUME NEW A \in SUBSET Server, NEW B \in SUBSET Server,
           IsMajority(Cardinality(A)), IsMajority(Cardinality(B))
    PROVE  A \cap B # {}
<1>1. IsFiniteSet(Server)
  BY ServerAssumption
<1>2. Cardinality(A) \in Nat /\ Cardinality(B) \in Nat /\ Cardinality(Server) \in Nat
  BY <1>1, FS_Subset, FS_CardinalityType
<1>3. Cardinality(A) + Cardinality(B) > Cardinality(Server)
  BY <1>2 DEF IsMajority
<1> QED
  BY <1>1, <1>3, FS_MajoritiesIntersect

\* A majority stays one when servers join it.
LEMMA MajorityGrows ==
    ASSUME NEW A \in SUBSET Server, NEW B \in SUBSET Server, A \subseteq B,
           IsMajority(Cardinality(A))
    PROVE  IsMajority(Cardinality(B))
<1>1. IsFiniteSet(Server) /\ IsFiniteSet(B)
  BY ServerAssumption, FS_Subset
<1>2. /\ Cardinality(A) \in Nat /\ Cardinality(B) \in Nat /\ Cardinality(Server) \in Nat
      /\ Cardinality(A) <= Cardinality(B)
  BY <1>1, FS_Subset, FS_CardinalityType
<1> QED
  BY <1>2 DEF IsMajority

\* The history only grows: g is h after some more steps.
Extends(h, g) ==
    /\ \A t \in Nat :
        /\ Led(h, t) => /\ g.lead[t] = h.lead[t] /\ g.voters[t] = h.voters[t]
                        /\ \A k \in Len(h.llog[t]) + 1 .. Len(g.llog[t]) : g.llog[t][k].term = t
        /\ Len(h.llog[t]) <= Len(g.llog[t])
        /\ \A k \in 1..Len(h.llog[t]) : g.llog[t][k] = h.llog[t][k]
    /\ \A v \in Server, t \in Nat : h.acked[v][t] <= g.acked[v][t]

\* A history extends itself.
LEMMA ExtendsSelf ==
    ASSUME NEW h \in History
    PROVE  Extends(h, h)
<1>1. \A t \in Nat : Len(h.llog[t]) \in Nat
  BY TermTypes
<1>2. \A v \in Server, t \in Nat : h.acked[v][t] \in Nat
  BY VoterTypes
<1> QED
  BY <1>1, <1>2 DEF Extends

\* A sound log stays sound.
LEMMA ExtendsSound ==
    ASSUME NEW h \in History, NEW g \in History, Extends(h, g), NEW L \in Seq(LogEntry), Sound(L, h)
    PROVE  Sound(L, g)
<1> SUFFICES ASSUME NEW q \in 1..Len(L)
             PROVE  q <= Len(g.llog[L[q].term]) /\ \A k \in 1..q : L[k] = g.llog[L[q].term][k]
  BY DEF Sound
<1>1. PICK s : s = L[q].term
  OBVIOUS
<1>2. s \in Nat /\ Len(L) \in Nat
  BY <1>1, LogTypes
<1>3. q <= Len(h.llog[s]) /\ \A k \in 1..q : L[k] = h.llog[s][k]
  BY <1>1 DEF Sound
<1>4. Len(h.llog[s]) \in Nat /\ Len(g.llog[s]) \in Nat
  BY <1>2, TermTypes
<1>5. Len(h.llog[s]) <= Len(g.llog[s]) /\ \A k \in 1..Len(h.llog[s]) : g.llog[s][k] = h.llog[s][k]
  BY <1>2 DEF Extends
<1> QED
  BY <1>1, <1>2, <1>3, <1>4, <1>5

\* What the log of a leader has, and what it lacks, of an older term is final.
LEMMA ExtendsHas ==
    ASSUME NEW h \in History, NEW g \in History, Extends(h, g), NEW s \in Nat, Led(h, s),
           NEW t \in Nat, t < s, NEW q \in Nat \ {0}
    PROVE  Has(g.llog[s], q, t) <=> Has(h.llog[s], q, t)
<1>1. Len(h.llog[s]) \in Nat /\ Len(g.llog[s]) \in Nat
  BY TermTypes
<1>2. /\ \A k \in Len(h.llog[s]) + 1 .. Len(g.llog[s]) : g.llog[s][k].term = s
      /\ Len(h.llog[s]) <= Len(g.llog[s])
      /\ \A k \in 1..Len(h.llog[s]) : g.llog[s][k] = h.llog[s][k]
  BY DEF Extends
<1>3. CASE q <= Len(h.llog[s])
  BY <1>1, <1>2, <1>3, SMTT(30) DEF Has
<1>4. CASE q > Len(h.llog[s])
  <2>1. q <= Len(g.llog[s]) => g.llog[s][q].term = s
    BY <1>1, <1>2, <1>4
  <2> QED
    BY <1>1, <1>4, <2>1 DEF Has
<1> QED
  BY <1>1, <1>3, <1>4

\* An entry that was overruled stays overruled.
LEMMA ExtendsOverruled ==
    ASSUME NEW h \in History, NEW g \in History, Extends(h, g), NEW t \in Nat, NEW u \in Nat, NEW w \in Nat,
           u <= w, NEW q \in Nat \ {0}, Overruled(h, q, t, u)
    PROVE  Overruled(g, q, t, w)
<1>1. PICK s \in t + 1 .. u : Led(h, s) /\ ~Has(h.llog[s], q, t)
  BY DEF Overruled
<1>2. s \in Nat /\ t < s /\ s \in t + 1 .. w
  OBVIOUS
<1>3. ~Has(g.llog[s], q, t)
  BY <1>1, <1>2, ExtendsHas
<1>4. Led(g, s)
  BY <1>1, <1>2 DEF Extends, Led
<1> QED
  BY <1>2, <1>3, <1>4 DEF Overruled

\* What is committed stays committed.
LEMMA ExtendsCommitted ==
    ASSUME NEW h \in History, NEW g \in History, Extends(h, g), NEW t \in Nat, NEW q, Committed(h, q, t)
    PROVE  Committed(g, q, t)
<1>1. Len(h.llog[t]) \in Nat /\ Len(g.llog[t]) \in Nat
  BY TermTypes
<1>2. q \in 1..Len(h.llog[t]) /\ h.llog[t][q].term = t
  BY DEF Committed
<1>3. q \in 1..Len(g.llog[t]) /\ g.llog[t][q].term = t
  <2>1. /\ Len(h.llog[t]) <= Len(g.llog[t])
        /\ \A k \in 1..Len(h.llog[t]) : g.llog[t][k] = h.llog[t][k]
    BY DEF Extends
  <2>2. g.llog[t][q] = h.llog[t][q]
    BY <1>2, <2>1
  <2> QED
    BY <1>1, <1>2, <2>1, <2>2
<1>4. {v \in Server : h.acked[v][t] >= q} \subseteq {v \in Server : g.acked[v][t] >= q}
  BY <1>1, <1>2, VoterTypes DEF Extends
<1> QED
  BY <1>3, <1>4, MajorityGrows DEF Committed

\* The same for a log that agrees with what is committed.
LEMMA ExtendsCommittedIn ==
    ASSUME NEW h \in History, NEW g \in History, Extends(h, g), NEW L, NEW n \in Nat \ {0}, NEW u \in Nat,
           NEW w \in Nat, u <= w, CommittedIn(h, L, n, u), NEW M, Agree(L, M, n)
    PROVE  CommittedIn(g, M, n, w)
<1>1. PICK t \in 0..u : \E q \in n..Len(h.llog[t]) :
         Committed(h, q, t) /\ n <= Len(L) /\ \A k \in 1..n : L[k] = h.llog[t][k]
  BY DEF CommittedIn
<1>2. PICK q \in n..Len(h.llog[t]) :
         Committed(h, q, t) /\ n <= Len(L) /\ \A k \in 1..n : L[k] = h.llog[t][k]
  BY <1>1
<1>3. t \in Nat /\ t \in 0..w
  OBVIOUS
<1>4. Len(h.llog[t]) \in Nat /\ Len(g.llog[t]) \in Nat
  BY <1>3, TermTypes
<1>5. Committed(g, q, t)
  BY <1>2, <1>3, ExtendsCommitted
<1>6. Len(h.llog[t]) <= Len(g.llog[t]) /\ \A k \in 1..Len(h.llog[t]) : g.llog[t][k] = h.llog[t][k]
  BY <1>3 DEF Extends
<1>7. q \in n..Len(g.llog[t]) /\ n <= Len(M) /\ \A k \in 1..n : M[k] = g.llog[t][k]
  BY <1>2, <1>4, <1>6, SMTT(30) DEF Agree
<1> QED
  BY <1>3, <1>5, <1>7 DEF CommittedIn

\* Every leader of a later term has what is committed: the first one without it would
\* have been elected by a server that had accepted it, for an earlier one without it.
LEMMA LeadersComplete ==
    ASSUME NEW h \in History, LeadersElected(h), LeadersHold(h), NEW t \in Nat, NEW q,
           Committed(h, q, t), NEW s \in Nat, s > t, Led(h, s)
    PROVE  Has(h.llog[s], q, t)
<1> DEFINE S == {u \in Nat : u > t /\ Led(h, u) /\ ~Has(h.llog[u], q, t)}
<1>1. S \in SUBSET Nat
  OBVIOUS
<1>2. ASSUME S # {} PROVE FALSE
  <2>1. PICK u \in S : \A w \in S : u <= w
    BY <1>1, <1>2, NatMin
  <2>2. u \in Nat /\ u > t /\ Led(h, u) /\ ~Has(h.llog[u], q, t)
    OBVIOUS
  <2>3. h.voters[u] \in SUBSET Server /\ IsMajority(Cardinality(h.voters[u]))
    BY <2>2, TermTypes DEF LeadersElected
  <2>4. PICK v \in h.voters[u] \cap {v \in Server : h.acked[v][t] >= q} : TRUE
    BY <2>3, MajoritiesMeet DEF Committed
  <2>5. Len(h.llog[t]) \in Nat /\ h.acked[v][t] \in Nat
    BY <2>4, TermTypes, VoterTypes
  <2>6. q \in 1..h.acked[v][t] /\ Accepted(h, v, q, t)
    BY <2>4, <2>5 DEF Committed, Accepted
  <2>7. t \in 0..u - 1
    BY <2>2
  <2>8. Overruled(h, q, t, u - 1)
    BY <2>2, <2>4, <2>6, <2>7 DEF LeadersHold
  <2>9. PICK w \in t + 1 .. u - 1 : Led(h, w) /\ ~Has(h.llog[w], q, t)
    BY <2>8 DEF Overruled
  <2>10. w \in S /\ ~(u <= w)
    BY <2>2, <2>9
  <2> QED
    BY <2>1, <2>10
<1> QED
  BY <1>2

\* Commits of any two terms agree.
LEMMA CommitsAgree ==
    ASSUME NEW h \in History, LeadersElected(h), LeadersHold(h), TermLogs(h),
           NEW t \in Nat, NEW q, Committed(h, q, t), NEW s \in Nat, t <= s, s = t \/ Led(h, s)
    PROVE  Agree(h.llog[s], h.llog[t], q)
<1>1. Len(h.llog[t]) \in Nat /\ q \in Nat \ {0} /\ q <= Len(h.llog[t])
  BY TermTypes DEF Committed
<1>2. CASE s = t
  BY <1>1, <1>2 DEF Agree
<1>3. CASE s > t
  <2>1. Has(h.llog[s], q, t)
    BY <1>1, <1>3, LeadersComplete
  <2>2. h.llog[s] \in Seq(LogEntry) /\ Sound(h.llog[s], h)
    BY TermTypes DEF TermLogs
  <2> QED
    BY <1>1, <2>1, <2>2, HasAgree
<1> QED
  BY <1>2, <1>3

-----------------------------------------------------------------------------
(* What the invariant says about the disks, the leaders and the services *)

\* Without snapshots, what a restart would come back with is the log.
LEMMA SavedLog ==
    ASSUME TypeOK, NoSnapshots, NEW i \in Server
    PROVE  /\ log[i] \in Seq(LogEntry) /\ Len(log[i]) \in Nat /\ Len(log[i]) > 0
           /\ SavedLast(i) = Len(log[i]) - 1 /\ LastLogIndex(i) = Len(log[i]) - 1
           /\ \A n \in Nat \ {0} : SavedEntry(i, n) = log[i][n + 1]
<1>1. log[i] \in Seq(LogEntry) /\ Len(log[i]) \in Nat /\ Len(log[i]) > 0
  BY ServerTypes
<1>2. persister[i].snapshotIndex = 0 /\ persister[i].log = log[i] /\ snapshotIndex[i] = 0
  BY DEF NoSnapshots
<1>3. SavedLast(i) = Len(log[i]) - 1 /\ LastLogIndex(i) = Len(log[i]) - 1
  BY <1>1, <1>2 DEF SavedLast, LastLogIndex
<1>4. ASSUME NEW n \in Nat \ {0} PROVE SavedEntry(i, n) = log[i][n + 1]
  <2>1. ~(n <= 0) /\ n - 0 + 1 = n + 1
    OBVIOUS
  <2> QED
    BY <1>2, <2>1 DEF SavedEntry
<1> QED
  BY <1>1, <1>3, <1>4

\* The disk of a server holds an entry if its log does.
LEMMA SavedAt ==
    ASSUME TypeOK, NoSnapshots, NEW i \in Server, NEW n \in Nat \ {0}, NEW e
    PROVE  /\ SavedEntry(i, n) = log[i][n + 1]
           /\ n <= SavedLast(i) <=> n + 1 <= Len(log[i])
           /\ Holds(i, n, e) <=> n + 1 <= Len(log[i]) /\ log[i][n + 1] = e
<1>1. Len(log[i]) \in Nat /\ SavedLast(i) = Len(log[i]) - 1
  BY SavedLog
<1>2. SavedEntry(i, n) = log[i][n + 1]
  BY SavedLog
<1>3. n <= SavedLast(i) <=> n + 1 <= Len(log[i])
  BY <1>1
<1> QED
  BY <1>2, <1>3 DEF Holds

\* Sound logs match.
LEMMA LogsMatch ==
    ASSUME TypeOK, NoSnapshots, NEW h, HistoryInv(h)
    PROVE  LogMatching
<1> SUFFICES ASSUME NEW i \in Server, NEW j \in Server,
                    NEW n \in 1..SavedLast(i) \cap 1..SavedLast(j),
                    SavedEntry(i, n).term = SavedEntry(j, n).term,
                    NEW k \in 1..n
             PROVE  SavedEntry(i, k) = SavedEntry(j, k)
  BY DEF LogMatching
<1>1. /\ Len(log[i]) \in Nat /\ n + 1 \in 1..Len(log[i])
      /\ Len(log[j]) \in Nat /\ n + 1 \in 1..Len(log[j])
  BY SavedLog
<1>2. n \in Nat \ {0} /\ k \in Nat \ {0}
  BY SavedLog
<1>3. log[i][n + 1].term = log[j][n + 1].term
  BY <1>2, SavedLog
<1>4. Sound(log[i], h) /\ Sound(log[j], h)
  BY DEF HistoryInv, LogInv, ServerLogs
<1>5. Agree(log[i], log[j], n + 1)
  BY <1>1, <1>3, <1>4, SoundAgree
<1>6. log[i][k + 1] = log[j][k + 1]
  BY <1>2, <1>5 DEF Agree
<1> QED
  BY <1>2, <1>6, SavedLog

\* What is committed is in the log of everyone who accepted it.
LEMMA CommittedIsHeld ==
    ASSUME NEW h, HistoryInv(h), NEW t \in Nat, NEW q, Committed(h, q, t), NEW v \in Server,
           h.acked[v][t] >= q
    PROVE  q \in Nat \ {0} /\ Has(log[v], q, t)
<1>1. h \in History /\ Len(h.llog[t]) \in Nat /\ h.acked[v][t] \in Nat
  BY TermTypes, VoterTypes DEF HistoryInv
<1>2. q \in 1..h.acked[v][t] /\ Accepted(h, v, q, t) /\ q \in Nat \ {0}
  BY <1>1 DEF Committed, Accepted
<1>3. Has(log[v], q, t) \/ Overruled(h, q, t, currentTerm[v])
  BY <1>2 DEF HistoryInv, AckInv, Held
<1>4. ASSUME Overruled(h, q, t, currentTerm[v]) PROVE FALSE
  <2>1. PICK s \in t + 1 .. currentTerm[v] : Led(h, s) /\ ~Has(h.llog[s], q, t)
    BY <1>4 DEF Overruled
  <2>2. s \in Nat /\ s > t
    OBVIOUS
  <2>3. LeadersElected(h) /\ LeadersHold(h)
    BY DEF HistoryInv, ElectionInv, AckInv
  <2> QED
    BY <1>1, <2>1, <2>2, <2>3, LeadersComplete
<1> QED
  BY <1>2, <1>3, <1>4

\* A committed position, with its term and the log it is in.
LEMMA CommitWitness ==
    ASSUME NEW h, HistoryInv(h), NEW L, NEW n \in Nat \ {0}, NEW u \in Nat, CommittedIn(h, L, n, u)
    PROVE  \E t \in Nat : \E q \in Nat \ {0} :
             /\ t <= u /\ n <= q /\ Committed(h, q, t) /\ q <= Len(h.llog[t])
             /\ Agree(L, h.llog[t], n)
<1>1. PICK t \in 0..u : \E q \in n..Len(h.llog[t]) :
         Committed(h, q, t) /\ n <= Len(L) /\ \A k \in 1..n : L[k] = h.llog[t][k]
  BY DEF CommittedIn
<1>2. PICK q \in n..Len(h.llog[t]) :
         Committed(h, q, t) /\ n <= Len(L) /\ \A k \in 1..n : L[k] = h.llog[t][k]
  BY <1>1
<1>3. t \in Nat /\ t <= u
  OBVIOUS
<1>4. Len(h.llog[t]) \in Nat
  BY <1>3, TermTypes DEF HistoryInv
<1>5. q \in Nat \ {0} /\ n <= q /\ q <= Len(h.llog[t])
  BY <1>4
<1>6. Agree(L, h.llog[t], n)
  BY <1>2, <1>4, <1>5 DEF Agree
<1> QED
  BY <1>2, <1>3, <1>5, <1>6

\* A log that has the committed entries agrees with every leader that could have
\* committed more since, and with everyone who accepted them.
LEMMA LaterLeaderAgrees ==
    ASSUME NEW h, HistoryInv(h), NEW L, NEW n \in Nat \ {0}, NEW u \in Nat, CommittedIn(h, L, n, u),
           NEW s \in Nat, u <= s, Led(h, s)
    PROVE  Agree(L, h.llog[s], n)
<1>1. PICK t \in Nat, q \in Nat \ {0} :
             /\ t <= u /\ n <= q /\ Committed(h, q, t) /\ q <= Len(h.llog[t])
             /\ Agree(L, h.llog[t], n)
  BY CommitWitness
<1>2. h \in History /\ LeadersElected(h) /\ LeadersHold(h) /\ TermLogs(h)
  BY DEF HistoryInv, ElectionInv, AckInv, LogInv
<1>3. t <= s
  BY <1>1
<1>4. Agree(h.llog[s], h.llog[t], q)
  BY <1>1, <1>2, <1>3, CommitsAgree
<1> QED
  BY <1>1, <1>4 DEF Agree

\* Whatever a server takes for committed is in its log.
LEMMA CommitInLog ==
    ASSUME TypeOK, NoSnapshots, NEW h, HistoryInv(h), NEW i \in Server, NEW n \in 1..commitIndex[i]
    PROVE  /\ n \in Nat \ {0} /\ commitIndex[i] \in Nat \ {0} /\ n + 1 <= Len(log[i])
           /\ currentTerm[i] \in Nat
           /\ CommittedIn(h, log[i], commitIndex[i] + 1, currentTerm[i])
<1>1. commitIndex[i] \in Nat /\ currentTerm[i] \in Nat
  BY DEF TypeOK
<1>2. CommittedIn(h, log[i], commitIndex[i] + 1, currentTerm[i])
  BY <1>1 DEF HistoryInv, ServerInv, CommitsKnown
<1>3. commitIndex[i] + 1 <= Len(log[i])
  BY <1>2 DEF CommittedIn
<1>4. Len(log[i]) \in Nat
  BY SavedLog
<1> QED
  BY <1>1, <1>2, <1>3, <1>4

\* applyCommitted finds all it is to deliver.
LEMMA NoneSkipped ==
    ASSUME TypeOK, NoSnapshots, NEW h, HistoryInv(h)
    PROVE  NothingSkipped
<1> SUFFICES ASSUME NEW i \in Server, NEW n \in lastApplied[i] + 1 .. commitIndex[i]
             PROVE  snapshotIndex[i] < n /\ n <= LastLogIndex(i)
  BY DEF NothingSkipped
<1>1. lastApplied[i] \in Nat /\ commitIndex[i] \in Nat /\ snapshotIndex[i] = 0
  BY DEF TypeOK, NoSnapshots
<1>2. n \in 1..commitIndex[i]
  BY <1>1
<1>3. n + 1 <= Len(log[i]) /\ n \in Nat \ {0}
  BY <1>2, CommitInLog
<1>4. LastLogIndex(i) = Len(log[i]) - 1 /\ Len(log[i]) \in Nat
  BY SavedLog
<1> QED
  BY <1>1, <1>3, <1>4

\* A majority of disks holds what a server takes for committed.
LEMMA CommitsDurable ==
    ASSUME TypeOK, NoSnapshots, NEW h, HistoryInv(h)
    PROVE  CommittedIsDurable
<1> SUFFICES ASSUME NEW i \in Server, NEW n \in 1..commitIndex[i]
             PROVE  /\ n <= SavedLast(i)
                    /\ IsMajority(Cardinality({j \in Server : Holds(j, n, SavedEntry(i, n))}))
  BY DEF CommittedIsDurable
<1>1. /\ n \in Nat \ {0} /\ commitIndex[i] \in Nat \ {0} /\ n + 1 <= Len(log[i])
      /\ currentTerm[i] \in Nat
      /\ CommittedIn(h, log[i], commitIndex[i] + 1, currentTerm[i])
  BY CommitInLog
<1>2. PICK t \in Nat, q \in Nat \ {0} :
             /\ commitIndex[i] + 1 <= q /\ Committed(h, q, t) /\ q <= Len(h.llog[t])
             /\ Agree(log[i], h.llog[t], commitIndex[i] + 1)
  BY <1>1, CommitWitness
<1>3. n <= SavedLast(i) /\ SavedEntry(i, n) = log[i][n + 1] /\ log[i][n + 1] = h.llog[t][n + 1]
  <2>1. n + 1 \in 1..commitIndex[i] + 1
    BY <1>1
  <2>2. log[i][n + 1] = h.llog[t][n + 1]
    BY <1>2, <2>1 DEF Agree
  <2> QED
    BY <1>1, <2>2, SavedAt
<1>4. ASSUME NEW j \in Server, h.acked[j][t] >= q PROVE Holds(j, n, SavedEntry(i, n))
  <2>1. Has(log[j], q, t)
    BY <1>2, <1>4, CommittedIsHeld
  <2>2. log[j] \in Seq(LogEntry) /\ Sound(log[j], h) /\ h \in History
    BY SavedLog DEF HistoryInv, LogInv, ServerLogs
  <2>3. Agree(log[j], h.llog[t], q)
    BY <2>1, <2>2, HasAgree
  <2>4. n + 1 <= Len(log[j]) /\ log[j][n + 1] = h.llog[t][n + 1]
    <3>1. n + 1 \in 1..q
      BY <1>1, <1>2
    <3>2. Len(log[j]) \in Nat
      BY SavedLog
    <3> QED
      BY <1>1, <1>2, <2>3, <3>1, <3>2 DEF Agree
  <2> QED
    BY <1>1, <1>3, <2>4, SavedAt
<1>5. {j \in Server : h.acked[j][t] >= q} \subseteq {j \in Server : Holds(j, n, SavedEntry(i, n))}
  BY <1>4
<1>6. IsMajority(Cardinality({j \in Server : h.acked[j][t] >= q}))
  BY <1>2 DEF Committed
<1> QED
  BY <1>3, <1>5, <1>6, MajorityGrows

\* A leader has what the servers of its term and of older ones take for committed.
LEMMA LeadersHaveCommits ==
    ASSUME TypeOK, NoSnapshots, NEW h, HistoryInv(h)
    PROVE  LeaderCompleteness
<1> SUFFICES ASSUME NEW i \in Server, NEW j \in Server, state[i] = Leader,
                    currentTerm[j] <= currentTerm[i], NEW n \in 1..commitIndex[j]
             PROVE  Holds(i, n, SavedEntry(j, n))
  BY DEF LeaderCompleteness
<1>1. /\ n \in Nat \ {0} /\ commitIndex[j] \in Nat \ {0} /\ n + 1 <= Len(log[j])
      /\ currentTerm[j] \in Nat
      /\ CommittedIn(h, log[j], commitIndex[j] + 1, currentTerm[j])
  BY CommitInLog
<1>2. currentTerm[i] \in Nat /\ Led(h, currentTerm[i]) /\ log[i] = h.llog[currentTerm[i]]
  <2>1. h.lead[currentTerm[i]] = i /\ log[i] = h.llog[currentTerm[i]]
    BY DEF HistoryInv, ElectionInv, LeadersLead, LogInv, ServerLogs
  <2> QED
    BY <2>1, ServerAssumption DEF TypeOK, Led
<1>3. Agree(log[j], log[i], commitIndex[j] + 1)
  BY <1>1, <1>2, LaterLeaderAgrees
<1>4. n + 1 <= Len(log[i]) /\ log[i][n + 1] = log[j][n + 1]
  <2>1. n + 1 \in 1..commitIndex[j] + 1
    BY <1>1
  <2>2. Len(log[i]) \in Nat
    BY SavedLog
  <2> QED
    BY <1>1, <1>3, <2>1, <2>2 DEF Agree
<1> QED
  BY <1>1, <1>4, SavedAt

\* What a follower has acknowledged in the leader's term is on its disk.
LEMMA MatchesStored ==
    ASSUME TypeOK, NoSnapshots, NEW h, HistoryInv(h)
    PROVE  MatchIndexIsStored
<1> SUFFICES ASSUME NEW i \in Server, NEW j \in Server, state[i] = Leader,
                    currentTerm[j] = currentTerm[i], i # j,
                    NEW n \in commitIndex[i] + 1 .. matchIndex[i][j]
             PROVE  n <= SavedLast(i) /\ Holds(j, n, SavedEntry(i, n))
  BY DEF MatchIndexIsStored
<1>1. commitIndex[i] \in Nat /\ matchIndex[i][j] \in Int /\ currentTerm[i] \in Nat
  BY PeerIndexType DEF TypeOK
<1>2. n \in Nat \ {0} /\ matchIndex[i][j] > 0 /\ n <= matchIndex[i][j]
  BY <1>1
<1>3. matchIndex[i][j] < h.acked[j][currentTerm[i]]
  BY <1>2 DEF HistoryInv, ServerInv, MatchAcked
<1>4. h \in History /\ h.acked[j][currentTerm[i]] \in Nat
  BY <1>1, VoterTypes DEF HistoryInv
<1>5. n + 1 \in 1..h.acked[j][currentTerm[j]]
  BY <1>1, <1>2, <1>3, <1>4
<1>6. n + 1 <= Len(log[j]) /\ log[j][n + 1] = h.llog[currentTerm[i]][n + 1]
  BY <1>5 DEF HistoryInv, AckInv, AckedInTerm
<1>7. log[i] = h.llog[currentTerm[i]] /\ h.acked[j][currentTerm[i]] <= Len(log[i])
  BY <1>1 DEF HistoryInv, LogInv, ServerLogs, AckInv, AckedBound
<1>8. Len(log[i]) \in Nat
  BY SavedLog
<1>9. n + 1 <= Len(log[i]) /\ log[i][n + 1] = log[j][n + 1]
  BY <1>1, <1>4, <1>5, <1>6, <1>7, <1>8
<1> QED
  BY <1>2, <1>6, <1>9, SavedAt

\* Services agree on every index they have applied.
LEMMA ServicesAgree ==
    ASSUME TypeOK, NoSnapshots, NEW h, HistoryInv(h)
    PROVE  StateMachineSafety
<1>1. ASSUME NEW n \in Nat, NEW t \in Nat, NEW q \in n + 1 .. Len(h.llog[t]), Committed(h, q, t),
             NEW u \in Nat, NEW p \in n + 1 .. Len(h.llog[u]), Committed(h, p, u), t <= u
      PROVE  h.llog[t][n + 1] = h.llog[u][n + 1]
  <2>1. h \in History /\ LeadersElected(h) /\ LeadersHold(h) /\ TermLogs(h)
    BY DEF HistoryInv, ElectionInv, AckInv, LogInv
  <2>2. Len(h.llog[t]) \in Nat /\ Len(h.llog[u]) \in Nat
    BY <2>1, TermTypes
  <2>3. u = t \/ Led(h, u)
    <3>1. CASE u = 0
      BY <1>1, <3>1
    <3>2. CASE u # 0 /\ ~Led(h, u)
      <4>1. h.llog[u] = <<>>
        BY <2>1, <3>2 DEF TermLogs
      <4>2. Len(h.llog[u]) = 0
        BY <4>1
      <4> QED
        BY <2>2, <4>2
    <3> QED
      BY <3>1, <3>2
  <2>4. Agree(h.llog[u], h.llog[t], q)
    BY <1>1, <2>1, <2>3, CommitsAgree
  <2> QED
    BY <2>2, <2>4 DEF Agree
<1> SUFFICES ASSUME NEW i \in Server, NEW j \in Server, NEW n \in DOMAIN applied[i] \cap DOMAIN applied[j]
             PROVE  applied[i][n] = applied[j][n]
  BY DEF StateMachineSafety
<1>2. n \in Nat
  BY DEF TypeOK
<1>3. PICK t \in Nat : \E q \in n + 1 .. Len(h.llog[t]) :
        Committed(h, q, t) /\ applied[i][n] = h.llog[t][n + 1]
  BY DEF HistoryInv, ServerInv, AppliedKnown
<1>4. PICK u \in Nat : \E p \in n + 1 .. Len(h.llog[u]) :
        Committed(h, p, u) /\ applied[j][n] = h.llog[u][n + 1]
  BY DEF HistoryInv, ServerInv, AppliedKnown
<1> QED
  BY <1>1, <1>2, <1>3, <1>4
=============================================================================

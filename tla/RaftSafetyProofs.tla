-------------------------- MODULE RaftSafetyProofs --------------------------
(***************************************************************************)
(* The invariant of RaftLogProofs is inductive: every step of Raft comes   *)
(* with a history that explains the new state.  Elections, Start and an    *)
(* accepted AppendEntries add to the history; the other steps are calm.    *)
(***************************************************************************)
EXTENDS RaftLogProofs

-----------------------------------------------------------------------------
(* What was said stays true when the history grows *)

\* A commit index that was sent stays justified.
LEMMA SaidStays ==
    ASSUME NEW h \in History, NEW g \in History, Extends(h, g), NEW t \in Nat, NEW index \in Nat,
           CommitSaid(h, index, t)
    PROVE  CommitSaid(g, index, t)
<1> SUFFICES ASSUME index > 0 PROVE CommittedIn(g, g.llog[t], index + 1, t)
  BY DEF CommitSaid
<1>1. CommittedIn(h, h.llog[t], index + 1, t)
  BY DEF CommitSaid
<1>2. index + 1 <= Len(h.llog[t])
  BY <1>1 DEF CommittedIn
<1>3. Len(h.llog[t]) \in Nat /\ Len(g.llog[t]) \in Nat
  BY TermTypes
<1>4. Agree(h.llog[t], g.llog[t], index + 1)
  BY <1>2, <1>3 DEF Agree, Extends
<1> QED
  BY <1>1, <1>4, ExtendsCommittedIn

\* A goroutine of sendHeartbeats stays explained.
LEMMA HeartbeatStays ==
    ASSUME NEW h \in History, NEW g \in History, Extends(h, g), NEW hb \in Heartbeat,
           HeartbeatKnown(h, hb)
    PROVE  HeartbeatKnown(g, hb)
<1>1. hb.term \in Nat /\ hb.commitIndex \in Nat /\ hb.src \in Server
  BY DEF Heartbeat
<1>2. g.lead[hb.term] = hb.src
  BY <1>1, ServerAssumption DEF HeartbeatKnown, Extends, Led
<1> QED
  BY <1>1, <1>2, SaidStays DEF HeartbeatKnown

\* An AppendEntries request stays explained.
LEMMA AppendStays ==
    ASSUME NEW h \in History, NEW g \in History, Extends(h, g), NEW m \in AppendEntriesArgs,
           AppendKnown(h, m)
    PROVE  AppendKnown(g, m)
<1>1. /\ m.term \in Nat /\ m.leaderCommit \in Nat /\ m.src \in Server /\ m.prevLogIndex \in Int
      /\ m.entries \in Seq(LogEntry)
  BY DEF AppendEntriesArgs
<1>2. g.lead[m.term] = m.src
  BY <1>1, ServerAssumption DEF AppendKnown, Extends, Led
<1>3. CommitSaid(g, m.leaderCommit, m.term)
  BY <1>1, SaidStays DEF AppendKnown
<1>4. PieceOf(m, g.llog[m.term])
  <2>1. /\ Len(h.llog[m.term]) \in Nat /\ Len(g.llog[m.term]) \in Nat /\ Len(m.entries) \in Nat
    BY <1>1, TermTypes, LogTypes
  <2>2. /\ Len(h.llog[m.term]) <= Len(g.llog[m.term])
        /\ \A k \in 1..Len(h.llog[m.term]) : g.llog[m.term][k] = h.llog[m.term][k]
    BY <1>1 DEF Extends
  <2>3. PieceOf(m, h.llog[m.term])
    BY DEF AppendKnown
  <2>4. m.prevLogIndex >= 0 /\ m.prevLogIndex + 1 + Len(m.entries) <= Len(h.llog[m.term])
    BY <2>3 DEF PieceOf
  <2>5. /\ m.prevLogIndex + 1 \in 1..Len(h.llog[m.term])
        /\ m.prevLogIndex + 1 + Len(m.entries) <= Len(g.llog[m.term])
    <3>1. PICK p, n, a, b : /\ p = m.prevLogIndex /\ n = Len(m.entries)
                            /\ a = Len(h.llog[m.term]) /\ b = Len(g.llog[m.term])
      OBVIOUS
    <3>2. p \in Int /\ n \in Nat /\ a \in Nat /\ b \in Nat /\ a <= b /\ p >= 0 /\ p + 1 + n <= a
      BY <1>1, <2>1, <2>2, <2>4, <3>1
    <3>3. p + 1 \in 1..a /\ p + 1 + n <= b
      BY <3>2
    <3> QED
      BY <3>1, <3>3
  <2>6. m.prevLogTerm = g.llog[m.term][m.prevLogIndex + 1].term
    <3>1. m.prevLogIndex + 1 \in 1..Len(h.llog[m.term])
      BY <2>5
    <3>2. m.prevLogTerm = h.llog[m.term][m.prevLogIndex + 1].term
      BY <2>3 DEF PieceOf
    <3> QED
      BY <2>2, <3>1, <3>2
  <2>7. ASSUME NEW k \in 1..Len(m.entries) PROVE m.entries[k] = g.llog[m.term][m.prevLogIndex + 1 + k]
    <3>1. m.prevLogIndex + 1 + k \in 1..Len(h.llog[m.term])
      BY <1>1, <2>1, <2>4, SMTT(30)
    <3>2. m.entries[k] = h.llog[m.term][m.prevLogIndex + 1 + k]
      BY <2>3 DEF PieceOf
    <3> QED
      BY <2>2, <3>1, <3>2
  <2>8. m.prevLogIndex + 1 + Len(m.entries) <= Len(g.llog[m.term])
    BY <2>5
  <2> QED
    BY <2>4, <2>6, <2>7, <2>8 DEF PieceOf
<1> QED
  BY <1>2, <1>3, <1>4 DEF AppendKnown

\* An answer to AppendEntries stays explained.
LEMMA ReplyStays ==
    ASSUME NEW h \in History, NEW g \in History, Extends(h, g), NEW r \in AppendEntriesReply,
           ReplyKnown(h, r)
    PROVE  ReplyKnown(g, r)
<1>1. /\ r.args \in AppendEntriesArgs /\ r.xTerm \in Int /\ r.xLen \in Int /\ r.xIndex \in Int
      /\ r.success \in BOOLEAN
  BY DEF AppendEntriesReply
<1>2. /\ r.args.term \in Nat /\ r.args.dst \in Server /\ r.args.prevLogIndex \in Int
      /\ r.args.entries \in Seq(LogEntry)
  BY <1>1 DEF AppendEntriesArgs
<1>3. NewMatch(r) \in Int
  BY <1>2, LogTypes DEF NewMatch
<1>4. /\ h.acked[r.args.dst][r.args.term] \in Nat /\ g.acked[r.args.dst][r.args.term] \in Nat
      /\ h.acked[r.args.dst][r.args.term] <= g.acked[r.args.dst][r.args.term]
  BY <1>2, VoterTypes DEF Extends
<1>5. /\ Len(h.llog[r.args.term]) \in Nat /\ Len(g.llog[r.args.term]) \in Nat
      /\ Len(h.llog[r.args.term]) <= Len(g.llog[r.args.term])
  BY <1>2, TermTypes DEF Extends
<1>6. r.success => NewMatch(r) >= 0 /\ NewMatch(r) < g.acked[r.args.dst][r.args.term]
  BY <1>3, <1>4 DEF ReplyKnown
<1>7. ~r.success => (IF r.xTerm = -1 THEN r.xLen ELSE r.xIndex) < Len(g.llog[r.args.term])
  <2>1. PICK b : b = IF r.xTerm = -1 THEN r.xLen ELSE r.xIndex
    OBVIOUS
  <2>2. b \in Int
    BY <1>1, <2>1
  <2>3. ~r.success => b < Len(h.llog[r.args.term])
    BY <2>1 DEF ReplyKnown
  <2>4. ~r.success => b < Len(g.llog[r.args.term])
    BY <1>5, <2>2, <2>3
  <2> QED
    BY <2>1, <2>4
<1> QED
  BY <1>6, <1>7 DEF ReplyKnown

\* A step whose new messages are explained keeps the message invariant.
LEMMA MessagesKept ==
    ASSUME TypeOK, TypeOK', NEW h \in History, NEW g \in History, Extends(h, g), MessageInv(h),
           \A hb \in heartbeats' : hb \in heartbeats \/ HeartbeatKnown(g, hb),
           \A m \in requests' : m.type = "AppendEntries" => m \in requests \/ AppendKnown(g, m),
           \A m \in requests' : m.type = "RequestVote" => CandidateKnown(m)',
           \A r \in replies' : r.type = "AppendEntries" => r \in replies \/ ReplyKnown(g, r)
    PROVE  MessageInv(g)'
<1>1. \A hb \in heartbeats : HeartbeatKnown(g, hb)
  BY HeartbeatStays DEF MessageInv, TypeOK
<1>2. \A m \in requests : m.type = "AppendEntries" => AppendKnown(g, m)
  BY AppendStays, MessageTypes DEF MessageInv
<1>3. \A r \in replies : r.type = "AppendEntries" => ReplyKnown(g, r)
  BY ReplyStays, MessageTypes DEF MessageInv
<1>4. \A hb \in heartbeats' : HeartbeatKnown(g, hb)
  BY <1>1
<1>5. \A m \in requests' : m.type = "AppendEntries" => AppendKnown(g, m)
  BY <1>2
<1>6. \A r \in replies' : r.type = "AppendEntries" => ReplyKnown(g, r)
  BY <1>3
<1> QED
  BY <1>4, <1>5, <1>6 DEF MessageInv, HeartbeatKnown, AppendKnown, ReplyKnown, NewMatch

-----------------------------------------------------------------------------
(* Elections *)

\* Terms do not fall, and a candidate is new or as it was.
Onward ==
    \A i \in Server :
        /\ currentTerm'[i] >= currentTerm[i]
        /\ state'[i] = Candidate =>
             \/ currentTerm'[i] > currentTerm[i]
             \/ state[i] = Candidate /\ currentTerm'[i] = currentTerm[i]

\* Besides, no server becomes leader.
Forward ==
    /\ Onward
    /\ \A i \in Server : state'[i] = Leader => state[i] = Leader /\ currentTerm'[i] = currentTerm[i]

\* No vote is given: a vote that is there was there before.
NoNewVote ==
    \A v \in Server : votedFor'[v] # None =>
        currentTerm'[v] = currentTerm[v] /\ votedFor'[v] = votedFor[v]

\* Votes of the past are in the new history as well.
CastKept(h, g) ==
    \A v \in Server, t \in Nat : h.cast[v][t] # None => g.cast[v][t] = h.cast[v][t]

\* A step that lets no one campaign anew makes no leader.
LEMMA QuietIsForward ==
    ASSUME TypeOK, TypeOK', VoteStep, Quiet
    PROVE  Forward
<1> SUFFICES ASSUME NEW i \in Server
             PROVE  /\ currentTerm'[i] >= currentTerm[i]
                    /\ state'[i] = Leader => state[i] = Leader /\ currentTerm'[i] = currentTerm[i]
                    /\ state'[i] = Candidate => state[i] = Candidate /\ currentTerm'[i] = currentTerm[i]
  BY DEF Forward, Onward
<1>1. state'[i] \in {Candidate, Leader} => state'[i] = state[i] /\ currentTerm'[i] = currentTerm[i]
  BY DEF Quiet, Campaigning
<1> QED
  BY <1>1 DEF VoteStep

\* Without a new vote the history has all votes.
LEMMA NoVoteIsCast ==
    ASSUME TypeOK, TypeOK', VoteStep, NoNewVote, NEW h \in History, CastNow(h)
    PROVE  CastNow(h)'
<1> SUFFICES ASSUME NEW v \in Server
             PROVE  /\ h.cast[v][currentTerm'[v]] = votedFor'[v]
                    /\ \A t \in Nat : t > currentTerm'[v] => h.cast[v][t] = None
  BY DEF CastNow
<1>1. currentTerm[v] \in Nat /\ currentTerm'[v] \in Nat /\ currentTerm'[v] >= currentTerm[v]
  BY DEF TypeOK, VoteStep
<1>2. /\ h.cast[v][currentTerm[v]] = votedFor[v]
      /\ \A t \in Nat : t > currentTerm[v] => h.cast[v][t] = None
  BY DEF CastNow
<1>3. \A t \in Nat : t > currentTerm'[v] => h.cast[v][t] = None
  BY <1>1, <1>2
<1>4. CASE currentTerm'[v] = currentTerm[v]
  BY <1>2, <1>3, <1>4 DEF NoNewVote, VoteStep
<1>5. CASE currentTerm'[v] > currentTerm[v]
  <2>1. votedFor'[v] = None
    BY <1>1, <1>5 DEF NoNewVote
  <2> QED
    BY <1>1, <1>2, <1>3, <1>5, <2>1
<1> QED
  BY <1>1, <1>4, <1>5

\* A vote is recorded for the term in which it is given: none is overwritten.
LEMMA VoteIsCast ==
    ASSUME TypeOK, TypeOK', VoteStep, NEW h \in History, CastNow(h), NEW g \in History,
           g.cast = [v \in Server |-> [h.cast[v] EXCEPT ![currentTerm'[v]] = votedFor'[v]]]
    PROVE  CastNow(g)' /\ CastKept(h, g)
<1>1. ASSUME NEW v \in Server
      PROVE  /\ currentTerm[v] \in Nat /\ currentTerm'[v] \in Nat /\ currentTerm'[v] >= currentTerm[v]
             /\ g.cast[v][currentTerm'[v]] = votedFor'[v]
             /\ \A t \in Nat : t # currentTerm'[v] => g.cast[v][t] = h.cast[v][t]
  <2>1. currentTerm[v] \in Nat /\ currentTerm'[v] \in Nat /\ currentTerm'[v] >= currentTerm[v]
    BY DEF TypeOK, VoteStep
  <2>2. h.cast[v] \in [Nat -> Server \cup {None}]
    BY DEF History
  <2>3. g.cast[v] = [h.cast[v] EXCEPT ![currentTerm'[v]] = votedFor'[v]]
    OBVIOUS
  <2> QED
    BY <2>1, <2>2, <2>3
<1>2. ASSUME NEW v \in Server
      PROVE  /\ h.cast[v][currentTerm[v]] = votedFor[v]
             /\ \A t \in Nat : t > currentTerm[v] => h.cast[v][t] = None
  BY DEF CastNow
<1>3. ASSUME NEW v \in Server, NEW t \in Nat, t > currentTerm'[v] PROVE g.cast[v][t] = None
  BY <1>1, <1>2, <1>3
<1>4. CastNow(g)'
  BY <1>1, <1>3 DEF CastNow
<1>5. ASSUME NEW v \in Server, NEW t \in Nat, h.cast[v][t] # None PROVE g.cast[v][t] = h.cast[v][t]
  <2>1. CASE t # currentTerm'[v]
    BY <1>1, <2>1
  <2>2. CASE t = currentTerm'[v]
    <3>1. t = currentTerm[v]
      BY <1>1, <1>2, <1>5, <2>2
    <3>2. h.cast[v][t] = votedFor[v] /\ votedFor[v] # None
      BY <1>2, <1>5, <3>1
    <3>3. votedFor'[v] = votedFor[v]
      BY <2>2, <3>1, <3>2 DEF VoteStep
    <3> QED
      BY <1>1, <2>2, <3>2, <3>3
  <2> QED
    BY <2>1, <2>2
<1> QED
  BY <1>4, <1>5 DEF CastKept

\* Leaders of the past stay elected, and no one else leads.
LEMMA LeadersKept ==
    ASSUME TypeOK, TypeOK', Forward, NEW h \in History, NEW g \in History, ElectionInv(h),
           CastKept(h, g), g.lead = h.lead, g.voters = h.voters
    PROVE  LeadersElected(g)' /\ LeadersLead(g)'
<1>1. ASSUME NEW t \in Nat, Led(g, t)
      PROVE  /\ IsMajority(Cardinality(g.voters[t]))
             /\ \A v \in g.voters[t] : g.cast[v][t] = g.lead[t]
             /\ t <= currentTerm'[g.lead[t]]
             /\ t = currentTerm'[g.lead[t]] => state'[g.lead[t]] # Candidate
  <2>1. PICK l \in Server : l = h.lead[t]
    BY <1>1, TermTypes DEF Led
  <2>2. /\ IsMajority(Cardinality(h.voters[t])) /\ h.voters[t] \in SUBSET Server
        /\ \A v \in h.voters[t] : h.cast[v][t] = l
        /\ t <= currentTerm[l] /\ (t = currentTerm[l] => state[l] # Candidate)
    <3>1. Led(h, t)
      BY <1>1 DEF Led
    <3> QED
      BY <2>1, <3>1, TermTypes DEF ElectionInv, LeadersElected
  <2>3. \A v \in h.voters[t] : g.cast[v][t] = l
    BY <2>2, ServerAssumption DEF CastKept
  <2>4. currentTerm[l] \in Nat /\ currentTerm'[l] \in Nat
    BY DEF TypeOK
  <2>5. /\ currentTerm'[l] >= currentTerm[l]
        /\ state'[l] = Candidate =>
             \/ currentTerm'[l] > currentTerm[l]
             \/ state[l] = Candidate /\ currentTerm'[l] = currentTerm[l]
    BY DEF Forward, Onward
  <2>6. t <= currentTerm'[l] /\ (t = currentTerm'[l] => state'[l] # Candidate)
    BY <2>2, <2>4, <2>5
  <2> QED
    BY <2>1, <2>2, <2>3, <2>6
<1>2. LeadersElected(g)'
  BY <1>1 DEF LeadersElected, Led, IsMajority
<1>3. LeadersLead(g)'
  <2> SUFFICES ASSUME NEW i \in Server
               PROVE  /\ state'[i] = Leader => g.lead[currentTerm'[i]] = i
                      /\ state'[i] = Candidate => currentTerm'[i] # 0
    BY DEF LeadersLead
  <2>1. /\ state[i] = Leader => h.lead[currentTerm[i]] = i
        /\ state[i] = Candidate => currentTerm[i] # 0
    BY DEF ElectionInv, LeadersLead
  <2>2. /\ state'[i] = Leader => state[i] = Leader /\ currentTerm'[i] = currentTerm[i]
        /\ state'[i] = Candidate =>
             \/ currentTerm'[i] > currentTerm[i]
             \/ state[i] = Candidate /\ currentTerm'[i] = currentTerm[i]
    BY DEF Forward, Onward
  <2>3. currentTerm[i] \in Nat /\ currentTerm'[i] \in Nat
    BY DEF TypeOK
  <2> QED
    BY <2>1, <2>2, <2>3
<1> QED
  BY <1>2, <1>3

\* A vote stays one for a term that its candidate has reached.
LEMMA CastStays ==
    ASSUME TypeOK, TypeOK', VoteStep, NEW h \in History, CastInTerm(h), NEW v \in Server, NEW t \in Nat,
           h.cast[v][t] # None
    PROVE  h.cast[v][t] \in Server /\ t <= currentTerm'[h.cast[v][t]]
<1>1. PICK c \in Server : c = h.cast[v][t]
  BY VoterTypes
<1>2. currentTerm[c] \in Nat /\ currentTerm'[c] \in Nat /\ currentTerm'[c] >= currentTerm[c]
  BY DEF TypeOK, VoteStep
<1>3. t <= currentTerm[c]
  BY <1>1 DEF CastInTerm
<1> QED
  BY <1>1, <1>2, <1>3

\* A quiet step without a new vote keeps the election part of the invariant.
LEMMA QuietElections ==
    ASSUME TypeOK, TypeOK', VoteStep, Quiet, NoNewVote, NEW h \in History, NEW g \in History,
           ElectionInv(h), g.cast = h.cast, g.lead = h.lead, g.voters = h.voters
    PROVE  ElectionInv(g)'
<1>1. CastNow(h)'
  BY NoVoteIsCast DEF ElectionInv
<1>2. CastNow(g)' /\ CastKept(h, g)
  BY <1>1 DEF CastNow, CastKept
<1>3. LeadersElected(g)' /\ LeadersLead(g)'
  BY <1>2, QuietIsForward, LeadersKept
<1>4. VotesCast(g)' /\ GrantedCast(g)'
  BY DEF ElectionInv, VotesCast, GrantedCast, Quiet, Campaigning
<1>5. CastInTerm(g)'
  BY CastStays DEF ElectionInv, CastInTerm
<1> QED
  BY <1>2, <1>3, <1>4, <1>5 DEF ElectionInv

-----------------------------------------------------------------------------
(* Steps that leave the logs alone *)

\* The histories differ in the votes only.
SameLogs(h, g) ==
    g.llog = h.llog /\ g.lead = h.lead /\ g.voters = h.voters /\ g.acked = h.acked

\* A history with more votes extends the old one.
LEMMA SameExtends ==
    ASSUME NEW h \in History, NEW g \in History, SameLogs(h, g)
    PROVE  Extends(h, g)
  BY ExtendsSelf DEF SameLogs, Extends, Led

\* The logs keep explaining each other.
LEMMA SameLogInv ==
    ASSUME TypeOK, TypeOK', Forward, log' = log, NEW h \in History, NEW g \in History,
           SameLogs(h, g), LogInv(h)
    PROVE  LogInv(g)'
<1>1. \A L : Sound(L, h) <=> Sound(L, g)
  BY DEF Sound, SameLogs
<1>2. TermLogs(g)'
  BY <1>1 DEF LogInv, TermLogs, SameLogs, Led, Dummy, Sound
<1>3. ASSUME NEW i \in Server
      PROVE  /\ Sound(log'[i], g)
             /\ \A q \in 1..Len(log'[i]) : log'[i][q].term <= currentTerm'[i]
             /\ state'[i] = Leader => log'[i] = g.llog[currentTerm'[i]]
  <2>1. /\ Sound(log[i], h)
        /\ \A q \in 1..Len(log[i]) : log[i][q].term <= currentTerm[i]
        /\ state[i] = Leader => log[i] = h.llog[currentTerm[i]]
    BY DEF LogInv, ServerLogs
  <2>2. currentTerm[i] \in Nat /\ currentTerm'[i] \in Nat /\ currentTerm'[i] >= currentTerm[i]
    BY DEF TypeOK, Forward, Onward
  <2>3. \A q \in 1..Len(log[i]) : log[i][q].term \in Nat
    BY ServerTypes
  <2>4. state'[i] = Leader => state[i] = Leader /\ currentTerm'[i] = currentTerm[i]
    BY DEF Forward, Onward
  <2>5. \A q \in 1..Len(log[i]) : log[i][q].term <= currentTerm'[i]
    BY <2>1, <2>2, <2>3
  <2> QED
    BY <1>1, <2>1, <2>4, <2>5 DEF SameLogs
<1> QED
  BY <1>2, <1>3 DEF LogInv, ServerLogs, Sound

\* Nothing that was accepted is lost, if the candidates know of it.
LEMMA SameAckInv ==
    ASSUME TypeOK, TypeOK', Forward, log' = log, NEW h \in History, NEW g \in History,
           SameLogs(h, g), AckInv(h), CandidatesHold(g)'
    PROVE  AckInv(g)'
<1>1. ASSUME NEW v \in Server
      PROVE  currentTerm[v] \in Nat /\ currentTerm'[v] \in Nat /\ currentTerm[v] <= currentTerm'[v]
  BY DEF TypeOK, Forward, Onward
<1>2. \A v \in Server, t \in Nat : h.acked[v][t] \in Nat
  BY VoterTypes
<1>3. AckedBound(g)'
  <2> SUFFICES ASSUME NEW v \in Server, NEW t \in Nat
               PROVE  h.acked[v][t] <= Len(h.llog[t]) /\ (h.acked[v][t] > 0 => t <= currentTerm'[v])
    BY DEF AckedBound, SameLogs
  <2>1. h.acked[v][t] <= Len(h.llog[t]) /\ (h.acked[v][t] > 0 => t <= currentTerm[v])
    BY DEF AckInv, AckedBound
  <2> QED
    BY <1>1, <2>1
<1>4. AckedInTerm(g)'
  <2> SUFFICES ASSUME NEW v \in Server, NEW q \in 1..h.acked[v][currentTerm'[v]]
               PROVE  q <= Len(log[v]) /\ log[v][q] = h.llog[currentTerm'[v]][q]
    BY DEF AckedInTerm, SameLogs
  <2>1. h.acked[v][currentTerm'[v]] > 0
    BY <1>1, <1>2
  <2>2. currentTerm'[v] <= currentTerm[v]
    BY <1>1, <2>1 DEF AckInv, AckedBound
  <2>3. currentTerm'[v] = currentTerm[v]
    BY <1>1, <2>2
  <2> QED
    BY <2>3 DEF AckInv, AckedInTerm
<1>5. Held(g)'
  <2> SUFFICES ASSUME NEW v \in Server, NEW t \in Nat, NEW q \in 1..h.acked[v][t], Accepted(h, v, q, t)
               PROVE  Has(log[v], q, t) \/ Overruled(g, q, t, currentTerm'[v])
    BY DEF Held, SameLogs, Accepted, Has, Overruled, Led
  <2>1. Has(log[v], q, t) \/ Overruled(h, q, t, currentTerm[v])
    BY DEF AckInv, Held
  <2>2. q \in Nat \ {0}
    BY <1>2
  <2> QED
    BY <1>1, <2>1, <2>2, SameExtends, ExtendsOverruled
<1>6. LeadersHold(g)'
  BY SMTT(30) DEF AckInv, LeadersHold, SameLogs, Accepted, Has, Overruled, Led
<1> QED
  BY <1>3, <1>4, <1>5, <1>6 DEF AckInv

\* Without a new vote the voters of the candidates are the same.
LEMMA SameCandidates ==
    ASSUME TypeOK, TypeOK', Quiet, log' = log, NEW h \in History, NEW g \in History,
           SameLogs(h, g), g.cast = h.cast, AckInv(h)
    PROVE  CandidatesHold(g)'
<1> SUFFICES ASSUME NEW k \in Server, NEW v \in Server, state'[k] = Candidate,
                    h.cast[v][currentTerm'[k]] = k,
                    NEW t \in 0..currentTerm'[k] - 1, NEW q \in 1..h.acked[v][t], Accepted(h, v, q, t)
             PROVE  Has(log[k], q, t) \/ Overruled(h, q, t, currentTerm'[k])
  BY DEF CandidatesHold, SameLogs, Accepted, Has, Overruled, Led
<1>1. state[k] = Candidate /\ currentTerm'[k] = currentTerm[k]
  BY DEF Quiet, Campaigning
<1> QED
  BY <1>1 DEF AckInv, CandidatesHold

\* A calm step: nobody campaigns anew, votes or changes a log.
Calm == Quiet /\ NoNewVote /\ log' = log

\* A calm step keeps what the invariant says about elections, logs and acceptance.
LEMMA CalmKeeps ==
    ASSUME TypeOK, TypeOK', VoteStep, Calm, NEW h, HistoryInv(h)
    PROVE  ElectionInv(h)' /\ LogInv(h)' /\ AckInv(h)'
<1>1. h \in History /\ SameLogs(h, h) /\ ElectionInv(h) /\ LogInv(h) /\ AckInv(h)
  BY DEF HistoryInv, SameLogs
<1>2. Quiet /\ NoNewVote /\ log' = log /\ Forward
  BY QuietIsForward DEF Calm
<1>3. ElectionInv(h)'
  BY <1>1, <1>2, QuietElections
<1>4. LogInv(h)'
  BY <1>1, <1>2, SameLogInv
<1>5. CandidatesHold(h)'
  BY <1>1, <1>2, SameCandidates
<1> QED
  BY <1>1, <1>2, <1>3, <1>4, <1>5, SameAckInv

-----------------------------------------------------------------------------
(* Commits, services and the leaders' books *)

\* Servers whose commit index is theirs of before, or newly explained.
LEMMA CommitsKept ==
    ASSUME TypeOK, TypeOK', VoteStep, NEW h \in History, NEW g \in History, Extends(h, g),
           CommitsKnown(h),
           \A i \in Server :
             \/ commitIndex'[i] = 0
             \/ CommittedIn(g, log'[i], commitIndex'[i] + 1, currentTerm'[i])
             \/ commitIndex'[i] = commitIndex[i] /\ log'[i] = log[i]
             \/ commitIndex'[i] = commitIndex[i] /\ Agree(log[i], log'[i], commitIndex[i] + 1)
    PROVE  CommitsKnown(g)'
<1> SUFFICES ASSUME NEW i \in Server, commitIndex'[i] > 0
             PROVE  CommittedIn(g, log'[i], commitIndex'[i] + 1, currentTerm'[i])
  BY DEF CommitsKnown, CommittedIn, Committed, IsMajority
<1>1. /\ commitIndex[i] \in Nat /\ commitIndex'[i] \in Nat
      /\ currentTerm[i] \in Nat /\ currentTerm'[i] \in Nat /\ currentTerm[i] <= currentTerm'[i]
  BY DEF TypeOK, VoteStep
<1>2. CASE /\ commitIndex'[i] = commitIndex[i]
           /\ log'[i] = log[i] \/ Agree(log[i], log'[i], commitIndex[i] + 1)
  <2>1. CommittedIn(h, log[i], commitIndex[i] + 1, currentTerm[i])
    BY <1>1, <1>2 DEF CommitsKnown
  <2>2. commitIndex[i] + 1 <= Len(log[i])
    BY <2>1 DEF CommittedIn
  <2>3. Agree(log[i], log'[i], commitIndex[i] + 1)
    BY <1>2, <2>2 DEF Agree
  <2> QED
    BY <1>1, <1>2, <2>1, <2>3, ExtendsCommittedIn
<1> QED
  BY <1>1, <1>2

\* Services that have applied what they had, or something committed.
LEMMA AppliedKept ==
    ASSUME TypeOK, TypeOK', NEW h \in History, NEW g \in History, Extends(h, g), AppliedKnown(h),
           \A i \in Server : \A n \in DOMAIN applied'[i] :
             \/ n \in DOMAIN applied[i] /\ applied'[i][n] = applied[i][n]
             \/ \E t \in Nat : \E q \in n + 1 .. Len(g.llog[t]) :
                  Committed(g, q, t) /\ applied'[i][n] = g.llog[t][n + 1]
    PROVE  AppliedKnown(g)'
<1> SUFFICES ASSUME NEW i \in Server, NEW n \in DOMAIN applied'[i]
             PROVE  \E t \in Nat : \E q \in n + 1 .. Len(g.llog[t]) :
                      Committed(g, q, t) /\ applied'[i][n] = g.llog[t][n + 1]
  BY DEF AppliedKnown, Committed, IsMajority
<1>1. CASE n \in DOMAIN applied[i] /\ applied'[i][n] = applied[i][n]
  <2>1. PICK t \in Nat : \E q \in n + 1 .. Len(h.llog[t]) :
          Committed(h, q, t) /\ applied[i][n] = h.llog[t][n + 1]
    BY <1>1 DEF AppliedKnown
  <2>2. PICK q \in n + 1 .. Len(h.llog[t]) : Committed(h, q, t) /\ applied[i][n] = h.llog[t][n + 1]
    BY <2>1
  <2>3. n \in Nat /\ Len(h.llog[t]) \in Nat /\ Len(g.llog[t]) \in Nat
    BY TermTypes DEF TypeOK
  <2>4. q \in n + 1 .. Len(g.llog[t]) /\ g.llog[t][n + 1] = h.llog[t][n + 1]
    BY <2>3 DEF Extends
  <2>5. Committed(g, q, t)
    BY <2>2, ExtendsCommitted
  <2> QED
    BY <1>1, <2>2, <2>4, <2>5
<1> QED
  BY <1>1

\* The books of leaders whose log and indices stay as they are.
LEMMA BooksKept ==
    ASSUME NEW h, NEW g, g.acked = h.acked, NextInLog, MatchAcked(h),
           \A i \in Server : state'[i] = Leader =>
             /\ state[i] = Leader /\ currentTerm'[i] = currentTerm[i] /\ log'[i] = log[i]
             /\ nextIndex'[i] = nextIndex[i] /\ matchIndex'[i] = matchIndex[i]
    PROVE  NextInLog' /\ MatchAcked(g)'
  BY DEF NextInLog, MatchAcked

\* Requests for votes that were sent before, when no candidate's log changes.
LEMMA CandidatesKept ==
    ASSUME TypeOK, TypeOK', Onward, NoSnapshots, NoSnapshots', NEW h, MessageInv(h),
           \A i \in Server : state'[i] = Candidate => log'[i] = log[i],
           NEW m \in requests, m.type = "RequestVote"
    PROVE  CandidateKnown(m)'
<1>1. m.src \in Server /\ m.term \in Nat
  BY MessageTypes DEF RequestVoteArgs
<1>2. CandidateKnown(m)
  BY DEF MessageInv
<1>3. /\ currentTerm[m.src] \in Nat /\ currentTerm'[m.src] \in Nat
      /\ currentTerm'[m.src] >= currentTerm[m.src]
      /\ state'[m.src] = Candidate =>
             \/ currentTerm'[m.src] > currentTerm[m.src]
             \/ state[m.src] = Candidate /\ currentTerm'[m.src] = currentTerm[m.src]
  BY <1>1 DEF TypeOK, Onward
<1>4. m.term <= currentTerm'[m.src]
  BY <1>1, <1>2, <1>3 DEF CandidateKnown
<1>5. ASSUME state'[m.src] = Candidate, currentTerm'[m.src] = m.term
      PROVE  m.lastLogIndex = LastLogIndex(m.src)' /\ m.lastLogTerm = LastLogTerm(m.src)'
  <2>1. state[m.src] = Candidate /\ currentTerm[m.src] = m.term
    BY <1>1, <1>2, <1>3, <1>5 DEF CandidateKnown
  <2>2. m.lastLogIndex = LastLogIndex(m.src) /\ m.lastLogTerm = LastLogTerm(m.src)
    BY <1>2, <2>1 DEF CandidateKnown
  <2>3. log'[m.src] = log[m.src] /\ snapshotIndex'[m.src] = snapshotIndex[m.src]
    BY <1>1, <1>5 DEF NoSnapshots
  <2> QED
    BY <2>2, <2>3 DEF LastLogIndex, LastLogTerm
<1> QED
  BY <1>4, <1>5 DEF CandidateKnown

-----------------------------------------------------------------------------
(* Calm steps, one lemma per action *)

\* What is known in every step from a state that history h explains.
StepFrom(h) ==
    TypeOK /\ TypeOK' /\ NoSnapshots /\ NoSnapshots' /\ VoteStep /\ HistoryInv(h)

\* The parts of a state's explanation, by name.
LEMMA HistoryParts ==
    ASSUME NEW h, HistoryInv(h)
    PROVE  /\ h \in History /\ ElectionInv(h) /\ LogInv(h) /\ AckInv(h) /\ MessageInv(h)
           /\ NextInLog /\ MatchAcked(h) /\ CommitsKnown(h) /\ AppliedKnown(h)
  BY DEF HistoryInv, ServerInv

\* A calm step has the same history; messages and servers remain to be shown.
LEMMA CalmHistory ==
    ASSUME NEW h, StepFrom(h), Calm, MessageInv(h)', NextInLog', MatchAcked(h)',
           CommitsKnown(h)', AppliedKnown(h)'
    PROVE  HistoryInv(h)'
<1>1. ElectionInv(h)' /\ LogInv(h)' /\ AckInv(h)' /\ h \in History
  BY CalmKeeps, HistoryParts DEF StepFrom
<1> QED
  BY <1>1 DEF HistoryInv, ServerInv

\* The messages of a calm step, when the new ones are explained.
LEMMA CalmMessages ==
    ASSUME NEW h, StepFrom(h), Calm,
           \A hb \in heartbeats' : hb \in heartbeats \/ HeartbeatKnown(h, hb),
           \A m \in requests' : m \in requests \/ (m.type = "AppendEntries" /\ AppendKnown(h, m)),
           \A r \in replies' : r \in replies \/ (r.type = "AppendEntries" => ReplyKnown(h, r))
    PROVE  MessageInv(h)'
<1>1. TypeOK /\ TypeOK' /\ h \in History /\ Extends(h, h) /\ MessageInv(h)
  BY HistoryParts, ExtendsSelf DEF StepFrom
<1>2. ASSUME NEW m \in requests', m.type = "RequestVote" PROVE CandidateKnown(m)'
  <2>1. m \in requests
    BY <1>2
  <2> QED
    BY <1>1, <1>2, <2>1, QuietIsForward, CandidatesKept DEF StepFrom, Calm, Forward
<1> QED
  BY <1>1, <1>2, MessagesKept

\* The books of a calm step that leaves nextIndex and matchIndex of the leaders alone.
LEMMA CalmBooks ==
    ASSUME NEW h, StepFrom(h), Calm,
           \A i \in Server : state'[i] = Leader =>
             nextIndex'[i] = nextIndex[i] /\ matchIndex'[i] = matchIndex[i]
    PROVE  NextInLog' /\ MatchAcked(h)'
<1>1. \A i \in Server : state'[i] = Leader => state[i] = Leader /\ currentTerm'[i] = currentTerm[i]
  BY DEF Calm, Quiet, Campaigning
<1>2. NextInLog /\ MatchAcked(h) /\ log' = log
  BY HistoryParts DEF StepFrom, Calm
<1> QED
  BY <1>1, <1>2, BooksKept

\* The commits of a calm step that moves no commit index but back to 0.
LEMMA CalmCommits ==
    ASSUME NEW h, StepFrom(h), Calm,
           \A i \in Server : commitIndex'[i] \in {0, commitIndex[i]}
    PROVE  CommitsKnown(h)'
<1>1. h \in History /\ Extends(h, h) /\ CommitsKnown(h)
  BY HistoryParts, ExtendsSelf DEF StepFrom
<1> QED
  BY <1>1, CommitsKept DEF StepFrom, Calm

\* The services of a calm step that delivers nothing.
LEMMA CalmServices ==
    ASSUME NEW h, StepFrom(h),
           \A i \in Server : applied'[i] = applied[i] \/ applied'[i] = <<>>
    PROVE  AppliedKnown(h)'
<1>1. h \in History /\ Extends(h, h) /\ AppliedKnown(h)
  BY HistoryParts, ExtendsSelf DEF StepFrom
<1>2. DOMAIN <<>> = {}
  OBVIOUS
<1> QED
  BY <1>1, <1>2, AppliedKept DEF StepFrom

\* A step that at most takes messages away and touches neither logs nor books.
LEMMA HistoryFewerMessages ==
    ASSUME NEW h, StepFrom(h), Calm, UNCHANGED <<leaderVars, serviceVars>>,
           heartbeats' \subseteq heartbeats, requests' \subseteq requests, replies' \subseteq replies
    PROVE  HistoryInv(h)'
<1>1. MessageInv(h)'
  BY CalmMessages
<1>2. NextInLog' /\ MatchAcked(h)'
  BY CalmBooks DEF leaderVars
<1>3. CommitsKnown(h)' /\ AppliedKnown(h)'
  BY CalmCommits, CalmServices DEF serviceVars
<1> QED
  BY <1>1, <1>2, <1>3, CalmHistory

\* A leader knows what it has told its goroutines to send.
LEMMA HistorySendHeartbeats ==
    ASSUME NEW h, StepFrom(h), Quiet, NEW i \in Server, sendHeartbeats(i)
    PROVE  HistoryInv(h)'
<1>1. Calm
  BY DEF sendHeartbeats, electionVars, logVars, Calm, NoNewVote
<1>2. ASSUME NEW hb \in heartbeats', hb \notin heartbeats PROVE HeartbeatKnown(h, hb)
  <2>1. PICK j \in Server \ {i} :
          hb = [src |-> i, dst |-> j, term |-> currentTerm[i], commitIndex |-> commitIndex[i],
                snapshotIndex |-> snapshotIndex[i], snapshot |-> persister[i].snapshot]
    BY <1>2 DEF sendHeartbeats
  <2>2. hb.src = i /\ hb.dst = j /\ hb.term = currentTerm[i] /\ hb.commitIndex = commitIndex[i]
    BY <2>1
  <2>3. state[i] = Leader
    BY DEF sendHeartbeats
  <2>4. h.lead[currentTerm[i]] = i /\ log[i] = h.llog[currentTerm[i]] /\ CommitsKnown(h)
    BY <2>3, HistoryParts DEF StepFrom, ElectionInv, LeadersLead, LogInv, ServerLogs
  <2>5. CommitSaid(h, commitIndex[i], currentTerm[i])
    BY <2>4 DEF CommitsKnown, CommitSaid
  <2> QED
    BY <2>2, <2>4, <2>5 DEF HeartbeatKnown
<1>3. MessageInv(h)'
  BY <1>1, <1>2, CalmMessages DEF sendHeartbeats
<1>4. NextInLog' /\ MatchAcked(h)'
  BY <1>1, CalmBooks DEF sendHeartbeats, leaderVars
<1>5. CommitsKnown(h)' /\ AppliedKnown(h)'
  BY <1>1, CalmCommits, CalmServices DEF sendHeartbeats, serviceVars
<1> QED
  BY <1>1, <1>3, <1>4, <1>5, CalmHistory

\* Restart brings back the log and the vote, and forgets commits and the service.
LEMMA HistoryRestart ==
    ASSUME NEW h, StepFrom(h), Quiet, DiskInSync, NEW i \in Server, Restart(i)
    PROVE  HistoryInv(h)'
<1>1. TypeOK /\ NoSnapshots
  BY DEF StepFrom
<1>2. log' = log
  <2>1. log' = [log EXCEPT ![i] = persister[i].log] /\ persister[i].log = log[i]
    BY <1>1 DEF Restart, NoSnapshots
  <2> QED
    BY <1>1, <2>1 DEF TypeOK
<1>3. NoNewVote
  <2>1. votedFor' = votedFor /\ currentTerm' = currentTerm
    BY <1>1 DEF Restart, DiskInSync, TypeOK
  <2> QED
    BY <2>1 DEF NoNewVote
<1>4. Calm
  BY <1>2, <1>3 DEF Calm
<1>5. MessageInv(h)'
  BY <1>4, CalmMessages DEF Restart
<1>6. NextInLog' /\ MatchAcked(h)'
  <2>1. state'[i] = Follower
    BY <1>1 DEF Restart, TypeOK
  <2>2. \A k \in Server \ {i} : nextIndex'[k] = nextIndex[k] /\ matchIndex'[k] = matchIndex[k]
    BY <1>1 DEF Restart, TypeOK
  <2> QED
    BY <1>4, <2>1, <2>2, CalmBooks DEF Follower, Leader
<1>7. CommitsKnown(h)'
  <2>1. commitIndex' = [commitIndex EXCEPT ![i] = 0]
    BY <1>1 DEF Restart, NoSnapshots
  <2> QED
    BY <1>1, <1>4, <2>1, CalmCommits DEF TypeOK
<1>8. AppliedKnown(h)'
  <2>1. applied' = [applied EXCEPT ![i] = <<>>]
    BY <1>1 DEF Restart, NoSnapshots
  <2> QED
    BY <1>1, <2>1, CalmServices DEF TypeOK
<1> QED
  BY <1>4, <1>5, <1>6, <1>7, <1>8, CalmHistory

\* What a service applies is committed.
LEMMA HistoryApplyCommitted ==
    ASSUME NEW h, StepFrom(h), Quiet, NEW i \in Server, applyCommitted(i)
    PROVE  HistoryInv(h)'
<1>1. TypeOK /\ NoSnapshots /\ HistoryInv(h)
  BY DEF StepFrom
<1>2. Calm
  BY DEF applyCommitted, electionVars, logVars, Calm, NoNewVote
<1>3. MessageInv(h)'
  BY <1>2, CalmMessages DEF applyCommitted, netVars
<1>4. NextInLog' /\ MatchAcked(h)'
  BY <1>2, CalmBooks DEF applyCommitted, leaderVars
<1>5. CommitsKnown(h)'
  BY <1>2, CalmCommits DEF applyCommitted
<1>6. /\ lastApplied[i] \in Nat /\ commitIndex[i] \in Nat /\ snapshotIndex[i] = 0
      /\ currentTerm[i] \in Nat
  BY <1>1 DEF TypeOK, NoSnapshots
<1>7. ASSUME NEW n \in Deliverable(i)
      PROVE  \E t \in Nat : \E q \in n + 1 .. Len(h.llog[t]) :
               Committed(h, q, t) /\ log[i][n + 1] = h.llog[t][n + 1]
  <2>1. n \in 1..commitIndex[i] /\ n \in Nat
    BY <1>6 DEF Deliverable
  <2>2. commitIndex[i] \in Nat \ {0} /\ CommittedIn(h, log[i], commitIndex[i] + 1, currentTerm[i])
    BY <1>1, <2>1, CommitInLog
  <2>3. PICK t \in Nat, q \in Nat \ {0} :
             /\ commitIndex[i] + 1 <= q /\ Committed(h, q, t) /\ q <= Len(h.llog[t])
             /\ Agree(log[i], h.llog[t], commitIndex[i] + 1)
    BY <1>1, <1>6, <2>2, CommitWitness
  <2>4. h \in History /\ Len(h.llog[t]) \in Nat
    BY <1>1, HistoryParts, TermTypes
  <2>5. q \in n + 1 .. Len(h.llog[t]) /\ n + 1 \in 1..commitIndex[i] + 1
    BY <1>6, <2>1, <2>3, <2>4
  <2>6. log[i][n + 1] = h.llog[t][n + 1]
    BY <2>3, <2>5 DEF Agree
  <2> QED
    BY <2>3, <2>5, <2>6
<1>8. ASSUME NEW k \in Server, NEW n \in DOMAIN applied'[k]
      PROVE  \/ n \in DOMAIN applied[k] /\ applied'[k][n] = applied[k][n]
             \/ \E t \in Nat : \E q \in n + 1 .. Len(h.llog[t]) :
                  Committed(h, q, t) /\ applied'[k][n] = h.llog[t][n + 1]
  <2>1. applied' = [applied EXCEPT ![i] =
            [p \in DOMAIN applied[i] \cup Deliverable(i) |->
                IF p \in Deliverable(i) THEN log[i][p - snapshotIndex[i] + 1] ELSE applied[i][p]]]
    BY DEF applyCommitted
  <2>2. CASE k # i
    <3>1. applied'[k] = applied[k]
      BY <1>1, <2>1, <2>2 DEF TypeOK
    <3> QED
      BY <3>1
  <2>3. CASE k = i
    <3>1. applied'[i] = [p \in DOMAIN applied[i] \cup Deliverable(i) |->
                IF p \in Deliverable(i) THEN log[i][p - snapshotIndex[i] + 1] ELSE applied[i][p]]
      BY <1>1, <2>1 DEF TypeOK
    <3>2. n \in DOMAIN applied[i] \cup Deliverable(i)
      BY <2>3, <3>1
    <3>3. applied'[i][n] = IF n \in Deliverable(i) THEN log[i][n - snapshotIndex[i] + 1]
                           ELSE applied[i][n]
      BY <3>1, <3>2
    <3>4. n \in Deliverable(i) => n - snapshotIndex[i] + 1 = n + 1
      BY <1>6 DEF Deliverable
    <3> QED
      BY <1>7, <2>3, <3>2, <3>3, <3>4
  <2> QED
    BY <2>2, <2>3
<1>9. AppliedKnown(h)'
  BY <1>1, <1>8, HistoryParts, ExtendsSelf, AppliedKept DEF StepFrom
<1> QED
  BY <1>2, <1>3, <1>4, <1>5, <1>9, CalmHistory

\* updateCommitIndex: the leader and the followers that it counts have accepted the
\* entry, which is one of its term.
LEMMA HistoryUpdateCommitIndex ==
    ASSUME NEW h, StepFrom(h), Quiet, NEW i \in Server, updateCommitIndex(i)
    PROVE  HistoryInv(h)'
<1>1. TypeOK /\ NoSnapshots /\ HistoryInv(h) /\ state[i] = Leader
  BY DEF StepFrom, updateCommitIndex
<1>2. Calm
  BY DEF updateCommitIndex, electionVars, logVars, Calm, NoNewVote
<1>3. MessageInv(h)'
  BY <1>2, CalmMessages DEF updateCommitIndex, netVars
<1>4. NextInLog' /\ MatchAcked(h)'
  BY <1>2, CalmBooks DEF updateCommitIndex, leaderVars
<1>5. AppliedKnown(h)'
  BY CalmServices DEF updateCommitIndex
<1>6. PICK t, n : t = currentTerm[i] /\ n = Max(Committable(i))
  OBVIOUS
<1>7. /\ Len(log[i]) \in Nat /\ LastLogIndex(i) = Len(log[i]) - 1 /\ snapshotIndex[i] = 0
      /\ commitIndex[i] \in Nat /\ t \in Nat
  BY <1>1, <1>6, SavedLog DEF TypeOK, NoSnapshots
<1>8. /\ n \in Nat \ {0} /\ n + 1 <= Len(log[i]) /\ log[i][n + 1].term = t
      /\ IsMajority(1 + Cardinality({j \in Server \ {i} : matchIndex[i][j] >= n}))
  <2>1. Committable(i) \in SUBSET Int /\ \A x \in Committable(i) : x <= LastLogIndex(i)
    BY <1>7 DEF Committable
  <2>2. n \in Committable(i)
    <3>1. Committable(i) # {} /\ LastLogIndex(i) \in Int
      BY <1>7 DEF updateCommitIndex
    <3>2. Max(Committable(i)) \in Committable(i)
      BY <2>1, <3>1, BoundedMax
    <3> QED
      BY <1>6, <3>2
  <2>3. n \in commitIndex[i] + 1 .. LastLogIndex(i) /\ log[i][n - snapshotIndex[i] + 1].term = t
        /\ IsMajority(1 + Cardinality({j \in Server \ {i} : matchIndex[i][j] >= n}))
    BY <1>6, <2>2 DEF Committable
  <2>4. n \in Nat \ {0} /\ n + 1 <= Len(log[i]) /\ n - snapshotIndex[i] + 1 = n + 1
    BY <1>7, <2>3
  <2> QED
    BY <2>3, <2>4
<1>9. h \in History /\ log[i] = h.llog[t] /\ h.acked[i][t] = Len(log[i])
  BY <1>1, <1>6, HistoryParts DEF LogInv, ServerLogs, MatchAcked
<1>10. {j \in Server \ {i} : matchIndex[i][j] >= n} \cup {i} \subseteq {v \in Server : h.acked[v][t] >= n + 1}
  <2>1. ASSUME NEW j \in Server \ {i}, matchIndex[i][j] >= n PROVE h.acked[j][t] >= n + 1
    <3>1. matchIndex[i][j] \in Int /\ h.acked[j][t] \in Nat
      <4>1. matchIndex \in [Server -> [Server -> Int]]
        BY <1>1 DEF TypeOK
      <4>2. matchIndex[i][j] \in Int
        BY <4>1, PeerIndexType
      <4> QED
        BY <1>7, <1>9, <4>2, VoterTypes
    <3>2. matchIndex[i][j] > 0
      BY <1>8, <2>1, <3>1
    <3>3. matchIndex[i][j] < h.acked[j][t]
      BY <1>1, <1>6, <3>2, HistoryParts DEF MatchAcked
    <3> QED
      BY <1>8, <2>1, <3>1, <3>3
  <2>2. h.acked[i][t] >= n + 1
    BY <1>7, <1>8, <1>9
  <2> QED
    BY <2>1, <2>2
<1>11. IsMajority(Cardinality({v \in Server : h.acked[v][t] >= n + 1}))
  <2> DEFINE S == {j \in Server \ {i} : matchIndex[i][j] >= n}
  <2>1. IsFiniteSet(S) /\ i \notin S /\ S \in SUBSET Server
    BY ServerAssumption, FS_Subset
  <2>2. Cardinality(S \cup {i}) = Cardinality(S) + 1 /\ Cardinality(S) \in Nat
    BY <2>1, FS_AddElement, FS_CardinalityType
  <2>3. Cardinality(S \cup {i}) = 1 + Cardinality(S)
    BY <2>2
  <2>4. IsMajority(Cardinality(S \cup {i}))
    BY <1>8, <2>3
  <2> HIDE DEF S
  <2>5. S \cup {i} \in SUBSET Server
    BY <2>1
  <2> QED
    BY <1>10, <2>4, <2>5, MajorityGrows DEF S
<1>12. CommittedIn(h, log[i], n + 1, t)
  <2>1. Committed(h, n + 1, t)
    BY <1>7, <1>8, <1>9, <1>11 DEF Committed
  <2>2. n + 1 \in n + 1 .. Len(h.llog[t]) /\ t \in 0..t
    BY <1>7, <1>8, <1>9
  <2> QED
    BY <1>8, <1>9, <2>1, <2>2 DEF CommittedIn
<1>13. CommitsKnown(h)'
  <2>1. commitIndex' = [commitIndex EXCEPT ![i] = n] /\ currentTerm' = currentTerm /\ log' = log
    BY <1>2, <1>6 DEF updateCommitIndex, electionVars, Calm
  <2>2. commitIndex'[i] = n /\ \A k \in Server \ {i} : commitIndex'[k] = commitIndex[k]
    BY <1>1, <2>1 DEF TypeOK
  <2>3. CommittedIn(h, log'[i], commitIndex'[i] + 1, currentTerm'[i])
    BY <1>6, <1>12, <2>1, <2>2
  <2>4. Extends(h, h) /\ CommitsKnown(h)
    BY <1>1, <1>9, ExtendsSelf, HistoryParts
  <2> QED
    BY <1>9, <2>1, <2>2, <2>3, <2>4, CommitsKept DEF StepFrom
<1> QED
  BY <1>2, <1>3, <1>4, <1>5, <1>13, CalmHistory

\* heartbeatSend: the request is a piece of the leader's log.
LEMMA AppendArgsPiece ==
    ASSUME TypeOK, NoSnapshots, NextInLog, NEW hb \in heartbeats, StillLeading(hb)
    PROVE  /\ AppendArgs(hb).type = "AppendEntries" /\ AppendArgs(hb).src = hb.src
           /\ AppendArgs(hb).dst = hb.dst /\ AppendArgs(hb).term = hb.term
           /\ AppendArgs(hb).leaderCommit = hb.commitIndex
           /\ PieceOf(AppendArgs(hb), log[hb.src])
<1>1. PICK i, prev, L, m : /\ i = hb.src /\ prev = nextIndex[i][hb.dst] - 1 /\ L = log[i]
                           /\ m = AppendArgs(hb)
  OBVIOUS
<1>2. i \in Server /\ hb.dst \in Server
  BY <1>1 DEF TypeOK, Heartbeat
<1>3. L \in Seq(LogEntry) /\ Len(L) \in Nat /\ snapshotIndex[i] = 0
  BY <1>1, <1>2, SavedLog DEF NoSnapshots
<1>4. prev \in 0..Len(L) - 1
  <2>1. nextIndex[i][hb.dst] \in 1..Len(L)
    BY <1>1, <1>2 DEF StillLeading, NextInLog
  <2> QED
    BY <1>1, <1>3, <2>1, SMTT(30)
<1>5. /\ m.type = "AppendEntries" /\ m.src = hb.src /\ m.dst = hb.dst /\ m.term = hb.term
      /\ m.leaderCommit = hb.commitIndex /\ m.prevLogIndex = prev
      /\ m.prevLogTerm = IF 0 <= prev - snapshotIndex[i] /\ prev - snapshotIndex[i] < Len(L)
                         THEN L[prev - snapshotIndex[i] + 1].term ELSE 0
      /\ m.entries = IF 0 <= prev - snapshotIndex[i] + 1 /\ prev - snapshotIndex[i] + 1 < Len(L)
                     THEN SubSeq(L, prev - snapshotIndex[i] + 1 + 1, Len(L)) ELSE <<>>
  BY <1>1 DEF AppendArgs
<1>6. prev - snapshotIndex[i] = prev /\ prev + 1 + 1 = prev + 2 /\ prev \in Int
  BY <1>3, <1>4
<1>7. m.prevLogTerm = L[prev + 1].term
  BY <1>3, <1>4, <1>5, <1>6
<1>8. m.entries = IF prev + 1 < Len(L) THEN SubSeq(L, prev + 2, Len(L)) ELSE <<>>
  BY <1>3, <1>4, <1>5, <1>6
<1>9. /\ Len(m.entries) = Len(L) - (prev + 1)
      /\ \A k \in 1..Len(m.entries) : m.entries[k] = L[prev + 1 + k]
  <2>1. CASE prev + 1 < Len(L)
    <3>1. \A n \in prev + 2 .. Len(L) : L[n] \in LogEntry
      BY <1>3, <1>4, LenProperties
    <3>2. PICK s : s = SubSeq(L, prev + 2, Len(L))
      OBVIOUS
    <3>3. /\ Len(s) = IF prev + 2 <= Len(L) THEN Len(L) - (prev + 2) + 1 ELSE 0
          /\ \A k \in 1..(Len(L) - (prev + 2) + 1) : s[k] = L[(prev + 2) + k - 1]
      BY <1>3, <1>4, <3>1, <3>2, SubSeqProperties
    <3>4. Len(s) = Len(L) - (prev + 1) /\ Len(L) - (prev + 2) + 1 = Len(s)
      BY <1>3, <1>4, <2>1, <3>3
    <3>5. \A k \in 1..Len(s) : (prev + 2) + k - 1 = prev + 1 + k
      BY <1>3, <1>4, <3>4
    <3>6. m.entries = s
      BY <1>8, <2>1, <3>2
    <3> QED
      BY <3>3, <3>4, <3>5, <3>6
  <2>2. CASE ~(prev + 1 < Len(L))
    <3>1. m.entries = <<>>
      BY <1>8, <2>2
    <3>2. Len(L) = prev + 1 /\ Len(m.entries) = 0
      BY <1>3, <1>4, <2>2, <3>1
    <3> QED
      BY <1>4, <3>2
  <2> QED
    BY <2>1, <2>2
<1>10. PieceOf(m, L)
  <2>1. m.prevLogIndex >= 0 /\ m.prevLogIndex + 1 + Len(m.entries) <= Len(L)
    <3>1. PICK e : e = Len(m.entries)
      OBVIOUS
    <3>2. e = Len(L) - (prev + 1) /\ prev >= 0 /\ prev + 1 + e <= Len(L)
      BY <1>3, <1>4, <1>9, <3>1
    <3> QED
      BY <1>5, <3>1, <3>2
  <2> QED
    BY <1>5, <1>7, <1>9, <2>1 DEF PieceOf
<1> QED
  BY <1>1, <1>5, <1>10

\* heartbeatSend: what is sent is known.
LEMMA HistoryHeartbeatSend ==
    ASSUME NEW h, StepFrom(h), Quiet, NEW hb \in heartbeats, heartbeatSend(hb)
    PROVE  HistoryInv(h)'
<1>1. TypeOK /\ NoSnapshots /\ HistoryInv(h) /\ StillLeading(hb)
  BY DEF StepFrom, heartbeatSend
<1>2. Calm
  BY DEF heartbeatSend, electionVars, logVars, Calm, NoNewVote
<1>3. requests' = requests \cup {AppendArgs(hb)}
  <2>1. ~NeedsSnapshot(hb)
    <3>1. hb.snapshot = <<>>
      BY <1>1 DEF NoSnapshots
    <3>2. Len(hb.snapshot) = 0
      BY <3>1
    <3> QED
      BY <3>2 DEF NeedsSnapshot
  <2> QED
    BY <2>1 DEF heartbeatSend
<1>4. PICK m : m = AppendArgs(hb)
  OBVIOUS
<1>5. /\ m.type = "AppendEntries" /\ m.src = hb.src /\ m.dst = hb.dst /\ m.term = hb.term
      /\ m.leaderCommit = hb.commitIndex /\ PieceOf(m, log[hb.src])
  BY <1>1, <1>4, AppendArgsPiece, HistoryParts
<1>6. HeartbeatKnown(h, hb) /\ log[hb.src] = h.llog[hb.term]
  <2>1. hb.src \in Server
    BY <1>1 DEF TypeOK, Heartbeat
  <2> QED
    BY <1>1, <2>1, HistoryParts DEF MessageInv, LogInv, ServerLogs, StillLeading
<1>7. AppendKnown(h, m)
  BY <1>5, <1>6 DEF AppendKnown, HeartbeatKnown
<1>8. MessageInv(h)'
  <2>1. heartbeats' \subseteq heartbeats /\ replies' = replies
    BY DEF heartbeatSend, GoroutineRuns
  <2>2. \A x \in requests' : x \in requests \/ (x.type = "AppendEntries" /\ AppendKnown(h, x))
    BY <1>3, <1>4, <1>5, <1>7
  <2> QED
    BY <1>2, <2>1, <2>2, CalmMessages
<1>9. NextInLog' /\ MatchAcked(h)'
  BY <1>2, CalmBooks DEF heartbeatSend, leaderVars
<1>10. CommitsKnown(h)' /\ AppliedKnown(h)'
  BY <1>2, CalmCommits, CalmServices DEF heartbeatSend, serviceVars
<1> QED
  BY <1>2, <1>8, <1>9, <1>10, CalmHistory

\* Stepping down gives no vote.
LEMMA StepDownNoVote ==
    ASSUME TypeOK, NEW i \in Server, NEW t, StepDown(i, t)
    PROVE  NoNewVote /\ log' = log
<1>1. /\ votedFor' = [votedFor EXCEPT ![i] = None]
      /\ currentTerm' = [currentTerm EXCEPT ![i] = t] /\ log' = log
  BY DEF StepDown, logVars
<1>2. votedFor'[i] = None
  BY <1>1 DEF TypeOK
<1>3. \A k \in Server \ {i} : votedFor'[k] = votedFor[k] /\ currentTerm'[k] = currentTerm[k]
  BY <1>1 DEF TypeOK
<1> QED
  BY <1>1, <1>2, <1>3 DEF NoNewVote

\* One entry of nextIndex or matchIndex is set.
LEMMA PeerUpdate ==
    ASSUME NEW f \in [Server -> [Server -> Int]], NEW i \in Server, NEW j \in Server, NEW x,
           NEW f2, f2 = [f EXCEPT ![i][j] = x]
    PROVE  f2[i][j] = x /\ \A k \in Server, l \in Server : k # i \/ l # j => f2[k][l] = f[k][l]
  OBVIOUS

\* The answer to AppendEntries: the leader's books follow what was accepted.
LEMMA HistoryAppendEntriesReply ==
    ASSUME NEW h, StepFrom(h), Quiet, NEW r \in replies, appendEntriesReply(r)
    PROVE  HistoryInv(h)'
<1> DEFINE i == r.args.src
           j == r.args.dst
           backUp == IF r.xTerm = -1 THEN r.xLen ELSE r.xIndex
<1>1. TypeOK /\ NoSnapshots /\ HistoryInv(h)
  BY DEF StepFrom
<1>2. r \in AppendEntriesReply /\ r.type = "AppendEntries"
  BY <1>1, MessageTypes DEF appendEntriesReply
<1>3. /\ i \in Server /\ j \in Server /\ r.args.term \in Nat /\ r.term \in Nat
      /\ r.xTerm \in Int /\ r.xLen \in Int /\ r.xIndex \in Int /\ r.success \in BOOLEAN
      /\ r.args.prevLogIndex \in Int /\ r.args.entries \in Seq(LogEntry)
  BY <1>2 DEF AppendEntriesReply, AppendEntriesArgs
<1>4. backUp \in Int /\ NewMatch(r) \in Int
  BY <1>3, LogTypes DEF NewMatch
<1>5. /\ i # j /\ (r.success => NewMatch(r) >= 0 /\ NewMatch(r) < h.acked[j][r.args.term])
      /\ ~r.success => backUp < Len(h.llog[r.args.term])
  BY <1>1, <1>2, HistoryParts DEF MessageInv, ReplyKnown
<1> HIDE DEF backUp
<1>6. /\ heartbeats' = heartbeats /\ requests' = requests /\ replies' \subseteq replies
      /\ UNCHANGED serviceVars
  BY DEF appendEntriesReply
<1>7. CASE UNCHANGED <<electionVars, logVars, leaderVars>> \/ (StepDown(i, r.term) /\ UNCHANGED leaderVars)
  <2>1. Calm /\ UNCHANGED leaderVars
    <3>1. CASE UNCHANGED <<electionVars, logVars, leaderVars>>
      BY <3>1 DEF electionVars, logVars, Calm, NoNewVote
    <3>2. CASE StepDown(i, r.term) /\ UNCHANGED leaderVars
      BY <1>1, <1>3, <3>2, StepDownNoVote DEF Calm
    <3> QED
      BY <1>7, <3>1, <3>2
  <2> QED
    BY <1>6, <2>1, HistoryFewerMessages
<1>8. CASE /\ Awaited(r, Leader) /\ UNCHANGED <<electionVars, logVars>>
           /\ \/ /\ r.success
                 /\ matchIndex' = [matchIndex EXCEPT ![i][j] = NewMatch(r)]
                 /\ nextIndex' = [nextIndex EXCEPT ![i][j] = NewMatch(r) + 1]
              \/ /\ ~r.success /\ matchIndex' = matchIndex
                 /\ nextIndex' = [nextIndex EXCEPT ![i][j] = Max({backUp, 1})]
  <2>1. /\ state' = state /\ currentTerm' = currentTerm /\ log' = log
        /\ state[i] = Leader /\ currentTerm[i] = r.args.term
    BY <1>8 DEF electionVars, logVars, Awaited
  <2>2. Calm
    BY <1>8 DEF electionVars, logVars, Calm, NoNewVote
  <2>3. /\ h \in History /\ log[i] = h.llog[currentTerm[i]] /\ Len(log[i]) \in Nat /\ Len(log[i]) > 0
        /\ h.acked[j][currentTerm[i]] <= Len(log[i]) /\ h.acked[j][currentTerm[i]] \in Nat
    <3>1. h \in History /\ log[i] = h.llog[currentTerm[i]]
      BY <1>1, <1>3, <2>1, HistoryParts DEF LogInv, ServerLogs
    <3>2. Len(log[i]) \in Nat /\ Len(log[i]) > 0
      BY <1>1, <1>3, SavedLog
    <3>3. h.acked[j][currentTerm[i]] <= Len(log[i]) /\ h.acked[j][currentTerm[i]] \in Nat
      <4>1. currentTerm[i] \in Nat
        BY <1>1, <1>3 DEF TypeOK
      <4>2. AckedBound(h)
        BY <1>1, HistoryParts DEF AckInv
      <4>3. h.acked[j][currentTerm[i]] <= Len(h.llog[currentTerm[i]])
        BY <1>3, <4>1, <4>2 DEF AckedBound
      <4>4. h.acked[j][currentTerm[i]] \in Nat
        BY <1>3, <3>1, <4>1, VoterTypes
      <4> QED
        BY <3>1, <4>3, <4>4
    <3> QED
      BY <3>1, <3>2, <3>3
  <2>4. /\ nextIndex'[i][j] \in 1..Len(log[i])
        /\ matchIndex'[i][j] = matchIndex[i][j] \/ matchIndex'[i][j] < h.acked[j][currentTerm[i]]
        /\ \A k \in Server, l \in Server : k # i \/ l # j =>
              nextIndex'[k][l] = nextIndex[k][l] /\ matchIndex'[k][l] = matchIndex[k][l]
    <3>1. nextIndex \in [Server -> [Server -> Int]] /\ matchIndex \in [Server -> [Server -> Int]]
      BY <1>1 DEF TypeOK
    <3>3. CASE r.success
      <4>1. /\ matchIndex' = [matchIndex EXCEPT ![i][j] = NewMatch(r)]
            /\ nextIndex' = [nextIndex EXCEPT ![i][j] = NewMatch(r) + 1]
        BY <1>8, <3>3
      <4>2. NewMatch(r) >= 0 /\ NewMatch(r) < h.acked[j][currentTerm[i]]
        BY <1>5, <2>1, <3>3
      <4>3. NewMatch(r) + 1 \in 1..Len(log[i])
        BY <1>4, <2>3, <4>2
      <4>4. /\ nextIndex'[i][j] = NewMatch(r) + 1
            /\ \A k \in Server, l \in Server : k # i \/ l # j => nextIndex'[k][l] = nextIndex[k][l]
        <5>1. PICK a, b, x : a = i /\ b = j /\ x = NewMatch(r) + 1
          OBVIOUS
        <5>2. a \in Server /\ b \in Server /\ nextIndex' = [nextIndex EXCEPT ![a][b] = x]
          BY <1>3, <4>1, <5>1
        <5>3. /\ nextIndex'[a][b] = x
              /\ \A k \in Server, l \in Server : k # a \/ l # b => nextIndex'[k][l] = nextIndex[k][l]
          BY <3>1, <5>2, PeerUpdate
        <5> QED
          BY <5>1, <5>3
      <4>5. /\ matchIndex'[i][j] = NewMatch(r)
            /\ \A k \in Server, l \in Server : k # i \/ l # j => matchIndex'[k][l] = matchIndex[k][l]
        <5>1. PICK a, b, x : a = i /\ b = j /\ x = NewMatch(r)
          OBVIOUS
        <5>2. a \in Server /\ b \in Server /\ matchIndex' = [matchIndex EXCEPT ![a][b] = x]
          BY <1>3, <4>1, <5>1
        <5>3. /\ matchIndex'[a][b] = x
              /\ \A k \in Server, l \in Server : k # a \/ l # b => matchIndex'[k][l] = matchIndex[k][l]
          BY <3>1, <5>2, PeerUpdate
        <5> QED
          BY <5>1, <5>3
      <4> QED
        BY <4>2, <4>3, <4>4, <4>5
    <3>4. CASE ~r.success
      <4>1. /\ matchIndex' = matchIndex
            /\ nextIndex' = [nextIndex EXCEPT ![i][j] = Max({backUp, 1})]
        BY <1>8, <3>4
      <4>2. backUp < Len(log[i])
        BY <1>5, <2>1, <2>3, <3>4
      <4>3. Max({backUp, 1}) = IF backUp >= 1 THEN backUp ELSE 1
        BY <1>4, MaxPair
      <4>4. Max({backUp, 1}) \in 1..Len(log[i])
        BY <1>4, <2>3, <4>2, <4>3
      <4>5. /\ nextIndex'[i][j] = Max({backUp, 1})
            /\ \A k \in Server, l \in Server : k # i \/ l # j => nextIndex'[k][l] = nextIndex[k][l]
        <5>1. PICK a, b, x : a = i /\ b = j /\ x = Max({backUp, 1})
          OBVIOUS
        <5>2. a \in Server /\ b \in Server /\ nextIndex' = [nextIndex EXCEPT ![a][b] = x]
          BY <1>3, <4>1, <5>1
        <5>3. /\ nextIndex'[a][b] = x
              /\ \A k \in Server, l \in Server : k # a \/ l # b => nextIndex'[k][l] = nextIndex[k][l]
          BY <3>1, <5>2, PeerUpdate
        <5> QED
          BY <5>1, <5>3
      <4> QED
        BY <4>1, <4>4, <4>5
    <3> QED
      BY <3>3, <3>4
  <2>5. NextInLog'
    BY <1>1, <2>1, <2>4, HistoryParts DEF NextInLog
  <2>6. MatchAcked(h)'
    BY <1>1, <1>5, <2>1, <2>4, HistoryParts DEF MatchAcked
  <2>7. MessageInv(h)'
    BY <1>6, <2>2, CalmMessages
  <2>8. CommitsKnown(h)' /\ AppliedKnown(h)'
    BY <1>6, <2>2, CalmCommits, CalmServices DEF serviceVars
  <2> QED
    BY <2>2, <2>5, <2>6, <2>7, <2>8, CalmHistory
<1>9. currentTerm[i] \in Nat
  BY <1>1, <1>3 DEF TypeOK
<1> QED
  <2>1. CASE ~Awaited(r, Leader)
    BY <1>7, <2>1 DEF appendEntriesReply
  <2>2. CASE Awaited(r, Leader) /\ r.success
    <3>1. /\ IF NewMatch(r) > matchIndex[i][j]
             THEN /\ matchIndex' = [matchIndex EXCEPT ![i][j] = NewMatch(r)]
                  /\ nextIndex' = [nextIndex EXCEPT ![i][j] = NewMatch(r) + 1]
             ELSE UNCHANGED leaderVars
          /\ UNCHANGED <<electionVars, logVars, persister>>
      BY <2>2 DEF appendEntriesReply
    <3> QED
      BY <1>7, <1>8, <2>2, <3>1
  <2>3. CASE Awaited(r, Leader) /\ ~r.success /\ r.term > currentTerm[i]
    <3>1. StepDown(i, r.term) /\ UNCHANGED leaderVars
      BY <1>3, <1>9, <2>3 DEF appendEntriesReply
    <3> QED
      BY <1>7, <3>1
  <2>4. CASE Awaited(r, Leader) /\ ~r.success /\ r.term <= currentTerm[i]
    <3>1. /\ nextIndex' = [nextIndex EXCEPT ![i][j] = Max({backUp, 1})]
          /\ UNCHANGED <<electionVars, logVars, matchIndex, persister>>
      BY <1>3, <1>9, <2>4 DEF appendEntriesReply, backUp
    <3> QED
      BY <1>8, <2>4, <3>1
  <2> QED
    BY <1>3, <1>9, <2>1, <2>2, <2>3, <2>4

\* Following a leader gives no vote.
LEMMA FollowLeaderNoVote ==
    ASSUME TypeOK, NEW i \in Server, NEW t \in Nat, FollowLeader(i, t)
    PROVE  NoNewVote
<1>1. /\ currentTerm' = [currentTerm EXCEPT ![i] = TermAfter(i, t)]
      /\ votedFor' = [votedFor EXCEPT ![i] = VoteAfter(i, t)]
  BY DEF FollowLeader
<1>2. currentTerm'[i] = TermAfter(i, t) /\ votedFor'[i] = VoteAfter(i, t)
  BY <1>1 DEF TypeOK
<1>3. \A k \in Server \ {i} : votedFor'[k] = votedFor[k] /\ currentTerm'[k] = currentTerm[k]
  BY <1>1 DEF TypeOK
<1>4. VoteAfter(i, t) # None => TermAfter(i, t) = currentTerm[i] /\ VoteAfter(i, t) = votedFor[i]
  BY TermAfterType DEF VoteAfter
<1> QED
  BY <1>2, <1>3, <1>4 DEF NoNewVote

\* A follower sends its leader back to prevLogIndex or before it.
LEMMA BackUpBound ==
    ASSUME TypeOK, NoSnapshots, NEW i \in Server, NEW m, m.prevLogIndex \in Nat, NEW b, b = BackUp(i, m),
           NEW back, back = IF b.xTerm = -1 THEN snapshotIndex[i] + Len(log[i]) ELSE b.xIndex
    PROVE  back \in Int /\ back <= m.prevLogIndex
<1>1. PICK p : p = m.prevLogIndex
  OBVIOUS
<1>2. Len(log[i]) \in Nat /\ snapshotIndex[i] = 0 /\ p \in Nat /\ p - snapshotIndex[i] = p
  BY <1>1, SavedLog, SMTT(30) DEF NoSnapshots
<1>3. CASE p >= Len(log[i])
  <2>1. b = [xTerm |-> -1, xIndex |-> -1]
    BY <1>1, <1>2, <1>3 DEF BackUp
  <2> QED
    BY <1>1, <1>2, <1>3, <2>1
<1>4. CASE p < Len(log[i])
  <2>1. PICK others : others = {k \in 0..p - 1 : log[i][k + 1].term # log[i][p + 1].term}
    OBVIOUS
  <2>2. b = [xTerm |-> log[i][p + 1].term,
             xIndex |-> IF others = {} THEN p ELSE snapshotIndex[i] + Max(others) + 1]
    <3>1. ~(p < 0 \/ p >= Len(log[i]))
      BY <1>2, <1>4
    <3> QED
      BY <1>1, <1>2, <2>1, <3>1, ZenonT(30) DEF BackUp
  <2>3. others # {} => Max(others) \in others
    <3>1. others \in SUBSET Int /\ p - 1 \in Int /\ \A x \in others : x <= p - 1
      BY <1>2, <2>1
    <3> QED
      BY <3>1, BoundedMax
  <2>4. others # {} => Max(others) \in 0..p - 1
    BY <2>1, <2>3
  <2>5. PICK x : x = Max(others)
    OBVIOUS
  <2>6. b.xTerm = log[i][p + 1].term /\ b.xIndex = IF others = {} THEN p ELSE snapshotIndex[i] + x + 1
    BY <2>2, <2>5
  <2>7. log[i][p + 1].term \in Nat
    BY <1>2, <1>4, ServerTypes
  <2>8. b.xIndex \in Int /\ b.xIndex <= p
    BY <1>2, <2>4, <2>5, <2>6
  <2>9. b.xTerm # -1
    BY <2>6, <2>7
  <2> QED
    BY <1>1, <2>8, <2>9
<1> QED
  BY <1>2, <1>3, <1>4

\* A request that is refused, for its term or for prevLogIndex.
LEMMA HistoryRefuse ==
    ASSUME NEW h, StepFrom(h), Quiet, NEW m \in requests, AppendEntries(m),
           ~(m.term >= currentTerm[m.dst] /\ PrevInLog(m.dst, m))
    PROVE  HistoryInv(h)'
<1> DEFINE i == m.dst
           answer(back, xLen) ==
             [type |-> "AppendEntries", args |-> m, term |-> currentTerm[i], success |-> FALSE,
              xTerm |-> back.xTerm, xIndex |-> back.xIndex, xLen |-> xLen]
<1>1. TypeOK /\ NoSnapshots /\ HistoryInv(h) /\ m.type = "AppendEntries"
  BY DEF StepFrom, AppendEntries
<1>2. m \in AppendEntriesArgs
  BY <1>1, MessageTypes
<1>3. i \in Server /\ m.term \in Nat /\ m.prevLogIndex \in Int /\ m.entries \in Seq(LogEntry)
  BY <1>2 DEF AppendEntriesArgs
<1>4. m.src # m.dst /\ PieceOf(m, h.llog[m.term]) /\ h \in History
  BY <1>1, HistoryParts DEF MessageInv, AppendKnown
<1>5. m.prevLogIndex \in Nat /\ m.prevLogIndex < Len(h.llog[m.term])
  <2>1. PICK p, e, n : p = m.prevLogIndex /\ e = Len(m.entries) /\ n = Len(h.llog[m.term])
    OBVIOUS
  <2>2. p >= 0 /\ p + 1 + e <= n
    BY <1>4, <2>1 DEF PieceOf
  <2>3. p \in Int /\ e \in Nat /\ n \in Nat
    BY <1>3, <1>4, <2>1, LogTypes, TermTypes
  <2>4. p \in Nat /\ p < n
    BY <2>2, <2>3
  <2> QED
    BY <2>1, <2>4
<1>6. ASSUME NEW back, NEW xLen, (IF back.xTerm = -1 THEN xLen ELSE back.xIndex) < Len(h.llog[m.term])
      PROVE  ReplyKnown(h, answer(back, xLen))
  BY <1>4, <1>6 DEF ReplyKnown
<1>7. PICK r : Reply(m, r) /\ ReplyKnown(h, r)
  <2>1. CASE m.term < currentTerm[i]
    <3>1. Reply(m, answer([xTerm |-> 0, xIndex |-> 0], 0))
      BY <1>1, <1>3, <2>1 DEF AppendEntries, TypeOK
    <3>2. 0 < Len(h.llog[m.term])
      BY <1>3, <1>4, <1>5, TermTypes
    <3>3. ReplyKnown(h, answer([xTerm |-> 0, xIndex |-> 0], 0))
      BY <1>6, <3>2
    <3> QED
      BY <3>1, <3>3
  <2>2. CASE ~(m.term < currentTerm[i])
    <3>1. Reply(m, answer(BackUp(i, m), snapshotIndex[i] + Len(log[i])))
      <4>1. currentTerm[i] \in Nat /\ m.term >= currentTerm[i] /\ ~PrevInLog(i, m)
        BY <1>1, <1>3, <2>2 DEF TypeOK
      <4> QED
        BY <2>2, <4>1 DEF AppendEntries
    <3>2. PICK b, x, n : /\ b = BackUp(i, m) /\ n = Len(h.llog[m.term])
                         /\ x = IF b.xTerm = -1 THEN snapshotIndex[i] + Len(log[i]) ELSE b.xIndex
      OBVIOUS
    <3>3. x \in Int /\ x <= m.prevLogIndex
      BY <1>1, <1>3, <1>5, <3>2, BackUpBound
    <3>4. x < n
      <4>1. n \in Nat
        BY <1>3, <1>4, <3>2, TermTypes
      <4> QED
        BY <1>5, <3>2, <3>3, <4>1
    <3>5. ReplyKnown(h, answer(BackUp(i, m), snapshotIndex[i] + Len(log[i])))
      BY <1>6, <3>2, <3>4
    <3> QED
      BY <3>1, <3>5
  <2> QED
    BY <2>1, <2>2
<1>8. /\ requests' \subseteq requests /\ replies' \subseteq replies \cup {r}
      /\ heartbeats' = heartbeats /\ UNCHANGED leaderVars
  BY <1>7 DEF Reply, AppendEntries
<1>9. UNCHANGED <<electionVars, logVars, commitIndex>> \/ (FollowLeader(i, m.term) /\ UNCHANGED <<logVars, commitIndex>>)
  BY DEF AppendEntries
<1>10. Calm /\ commitIndex' = commitIndex /\ applied' = applied
  <2>1. commitIndex' = commitIndex /\ applied' = applied /\ log' = log
    BY <1>9 DEF AppendEntries, logVars
  <2>2. NoNewVote
    <3>1. CASE UNCHANGED electionVars
      BY <3>1 DEF electionVars, NoNewVote
    <3>2. CASE FollowLeader(i, m.term)
      BY <1>1, <1>3, <3>2, FollowLeaderNoVote
    <3> QED
      BY <1>9, <3>1, <3>2
  <2> QED
    BY <2>1, <2>2 DEF Calm
<1>11. MessageInv(h)'
  BY <1>7, <1>8, <1>10, CalmMessages
<1>12. NextInLog' /\ MatchAcked(h)'
  BY <1>8, <1>10, CalmBooks DEF leaderVars
<1>13. CommitsKnown(h)' /\ AppliedKnown(h)'
  BY <1>10, CalmCommits, CalmServices
<1> QED
  BY <1>10, <1>11, <1>12, <1>13, CalmHistory

-----------------------------------------------------------------------------
(* The steps of an election *)

\* The history after a step in which votes may be given.
LEMMA VoteHistory ==
    ASSUME NEW h, StepFrom(h)
    PROVE  \E g \in History :
             /\ SameLogs(h, g) /\ CastNow(g)' /\ CastKept(h, g)
             /\ \A v \in Server, t \in Nat :
                  g.cast[v][t] = IF t = currentTerm'[v] THEN votedFor'[v] ELSE h.cast[v][t]
             /\ \A v \in Server : currentTerm'[v] = currentTerm[v] /\ votedFor'[v] = votedFor[v] =>
                  \A t \in Nat : g.cast[v][t] = h.cast[v][t]
<1>1. h \in History /\ TypeOK /\ TypeOK' /\ VoteStep /\ CastNow(h)
  BY HistoryParts DEF StepFrom, ElectionInv
<1>2. PICK c : c = [v \in Server |-> [h.cast[v] EXCEPT ![currentTerm'[v]] = votedFor'[v]]]
  OBVIOUS
<1> DEFINE g == [llog |-> h.llog, lead |-> h.lead, voters |-> h.voters, cast |-> c, acked |-> h.acked]
<1>3. \A v \in Server : h.cast[v] \in [Nat -> Server \cup {None}] /\ votedFor'[v] \in Server \cup {None}
  BY <1>1 DEF History, TypeOK
<1>4. c \in [Server -> [Nat -> Server \cup {None}]]
  BY <1>2, <1>3
<1>5. g \in History /\ SameLogs(h, g) /\ g.cast = c
  BY <1>1, <1>4 DEF History, SameLogs
<1> HIDE DEF g
<1>6. CastNow(g)' /\ CastKept(h, g)
  BY <1>1, <1>2, <1>5, VoteIsCast
<1>7. \A v \in Server, t \in Nat :
        g.cast[v][t] = IF t = currentTerm'[v] THEN votedFor'[v] ELSE h.cast[v][t]
  BY <1>2, <1>3, <1>5
<1>8. \A v \in Server : currentTerm'[v] = currentTerm[v] /\ votedFor'[v] = votedFor[v] =>
        \A t \in Nat : g.cast[v][t] = h.cast[v][t]
  BY <1>1, <1>7 DEF CastNow
<1> QED
  BY <1>5, <1>6, <1>7, <1>8

\* The servers of a step that changes no log, no book and no service.
LEMMA SameServers ==
    ASSUME NEW h, StepFrom(h), NEW g \in History, SameLogs(h, g), Forward, log' = log,
           UNCHANGED <<leaderVars, serviceVars>>
    PROVE  ServerInv(g)'
<1>1. h \in History /\ NextInLog /\ MatchAcked(h) /\ CommitsKnown(h) /\ AppliedKnown(h)
  BY HistoryParts DEF StepFrom
<1>2. Extends(h, g)
  BY <1>1, SameExtends
<1>3. NextInLog' /\ MatchAcked(g)'
  <2>1. \A i \in Server : state'[i] = Leader =>
             /\ state[i] = Leader /\ currentTerm'[i] = currentTerm[i] /\ log'[i] = log[i]
             /\ nextIndex'[i] = nextIndex[i] /\ matchIndex'[i] = matchIndex[i]
    BY DEF Forward, Onward, leaderVars
  <2> QED
    BY <1>1, <2>1, BooksKept DEF SameLogs
<1>4. CommitsKnown(g)'
  BY <1>1, <1>2, CommitsKept DEF StepFrom, serviceVars
<1>5. AppliedKnown(g)'
  BY <1>1, <1>2, AppliedKept DEF StepFrom, serviceVars
<1> QED
  BY <1>3, <1>4, <1>5 DEF ServerInv

\* startElection: the candidate holds what it has accepted itself.
LEMMA HistoryStartElection ==
    ASSUME NEW h, StepFrom(h), NEW i \in Server, startElection(i)
    PROVE  \E g : HistoryInv(g)'
<1>1. /\ h \in History /\ TypeOK /\ TypeOK' /\ VoteStep /\ ElectionInv(h) /\ LogInv(h) /\ AckInv(h)
      /\ MessageInv(h) /\ NoSnapshots /\ NoSnapshots'
  BY HistoryParts DEF StepFrom
<1>2. PICK g \in History :
             /\ SameLogs(h, g) /\ CastNow(g)' /\ CastKept(h, g)
             /\ \A v \in Server, t \in Nat :
                  g.cast[v][t] = IF t = currentTerm'[v] THEN votedFor'[v] ELSE h.cast[v][t]
             /\ \A v \in Server : currentTerm'[v] = currentTerm[v] /\ votedFor'[v] = votedFor[v] =>
                  \A t \in Nat : g.cast[v][t] = h.cast[v][t]
  BY VoteHistory
<1>3. /\ state'[i] = Candidate /\ currentTerm'[i] = currentTerm[i] + 1 /\ votedFor'[i] = i
      /\ votes'[i] = {i} /\ log' = log /\ snapshotIndex' = snapshotIndex
      /\ currentTerm[i] \in Nat
  BY <1>1 DEF startElection, TypeOK, logVars
<1>4. /\ \A k \in Server \ {i} : state'[k] = state[k] /\ currentTerm'[k] = currentTerm[k]
      /\ \A k \in Server \ {i} : votedFor'[k] = votedFor[k] /\ votes'[k] = votes[k]
  BY <1>1 DEF startElection, TypeOK
<1>5. Forward
  <2>1. \A k \in Server : currentTerm'[k] >= currentTerm[k]
    BY <1>1 DEF VoteStep
  <2>2. currentTerm[i] + 1 > currentTerm[i]
    BY <1>3
  <2> QED
    BY <1>3, <1>4, <2>1, <2>2 DEF Forward, Onward, Candidate, Leader
<1>6. ElectionInv(g)'
  <2>1. LeadersElected(g)' /\ LeadersLead(g)'
    BY <1>1, <1>2, <1>5, LeadersKept DEF SameLogs
  <2>2. VotesCast(g)'
    <3> SUFFICES ASSUME NEW k \in Server, Campaigning(k)', NEW v \in votes'[k]
                 PROVE  g.cast[v][currentTerm'[k]] = k
      BY DEF VotesCast
    <3>1. CASE k = i
      <4>1. v = i /\ currentTerm'[i] \in Nat
        BY <1>1, <1>3, <3>1 DEF TypeOK
      <4> QED
        BY <1>2, <1>3, <3>1, <4>1
    <3>2. CASE k # i
      <4>1. Campaigning(k) /\ v \in votes[k] /\ currentTerm'[k] = currentTerm[k]
        BY <1>4, <3>2 DEF Campaigning
      <4>2. h.cast[v][currentTerm[k]] = k /\ v \in Server /\ currentTerm[k] \in Nat
        BY <1>1, <4>1 DEF ElectionInv, VotesCast, TypeOK
      <4> QED
        BY <1>2, <4>1, <4>2, ServerAssumption DEF CastKept
    <3> QED
      BY <3>1, <3>2
  <2>3. GrantedCast(g)'
    <3> SUFFICES ASSUME NEW r \in Granted' PROVE g.cast[r.args.dst][r.args.term] = r.args.src
      BY DEF GrantedCast
    <3>1. r \in Granted
      BY DEF Granted, startElection
    <3>2. /\ r.args.src \in Server /\ r.args.dst \in Server /\ r.args.term \in Nat
          /\ h.cast[r.args.dst][r.args.term] = r.args.src
      BY <1>1, <3>1, GrantedTypes DEF ElectionInv, GrantedCast
    <3> QED
      BY <1>2, <3>2, ServerAssumption DEF CastKept
  <2>4. CastInTerm(g)'
    <3> SUFFICES ASSUME NEW v \in Server, NEW t \in Nat, g.cast[v][t] # None
                 PROVE  t <= currentTerm'[g.cast[v][t]]
      BY DEF CastInTerm
    <3>1. CASE g.cast[v][t] = h.cast[v][t]
      BY <1>1, <3>1, CastStays DEF ElectionInv
    <3>2. CASE g.cast[v][t] # h.cast[v][t]
      <4>1. v = i /\ t = currentTerm'[i] /\ g.cast[v][t] = i
        BY <1>2, <1>3, <1>4, <3>2
      <4> QED
        BY <4>1
    <3> QED
      BY <3>1, <3>2
  <2> QED
    BY <1>2, <2>1, <2>2, <2>3, <2>4 DEF ElectionInv
<1>7. LogInv(g)'
  BY <1>1, <1>2, <1>3, <1>5, SameLogInv
<1>8. CandidatesHold(g)'
  <2> SUFFICES ASSUME NEW k \in Server, NEW v \in Server, state'[k] = Candidate,
                      g.cast[v][currentTerm'[k]] = k,
                      NEW t \in 0..currentTerm'[k] - 1, NEW q \in 1..h.acked[v][t], Accepted(h, v, q, t)
               PROVE  Has(log[k], q, t) \/ Overruled(h, q, t, currentTerm'[k])
    BY <1>2, <1>3 DEF CandidatesHold, SameLogs, Accepted, Has, Overruled, Led
  <2>1. currentTerm[k] \in Nat /\ currentTerm'[k] \in Nat /\ t \in Nat
    BY <1>1 DEF TypeOK
  <2>2. CASE k # i
    <3>1. h.cast[v][currentTerm[k]] = k /\ state[k] = Candidate /\ currentTerm'[k] = currentTerm[k]
      BY <1>2, <1>3, <1>4, <2>1, <2>2
    <3> QED
      BY <1>1, <3>1 DEF AckInv, CandidatesHold
  <2>3. CASE k = i
    <3>1. v = i
      <4> SUFFICES ASSUME v # i PROVE FALSE
        OBVIOUS
      <4>1. h.cast[v][currentTerm[i] + 1] = i
        BY <1>2, <1>3, <1>4, <2>1, <2>3
      <4>2. currentTerm[i] + 1 <= currentTerm[i]
        BY <1>1, <1>3, <4>1, ServerAssumption DEF ElectionInv, CastInTerm
      <4> QED
        BY <1>3, <4>2
    <3>2. Has(log[i], q, t) \/ Overruled(h, q, t, currentTerm[i])
      BY <1>1, <2>1, <3>1 DEF AckInv, Held
    <3>3. q \in Nat \ {0} /\ currentTerm[i] <= currentTerm'[i]
      BY <1>1, <1>3, <2>1, VoterTypes
    <3>4. Overruled(h, q, t, currentTerm[i]) => Overruled(h, q, t, currentTerm'[i])
      BY <1>1, <2>1, <2>3, <3>3, ExtendsSelf, ExtendsOverruled
    <3> QED
      BY <2>3, <3>2, <3>4
  <2> QED
    BY <2>2, <2>3
<1>9. AckInv(g)'
  BY <1>1, <1>2, <1>3, <1>5, <1>8, SameAckInv
<1>10. MessageInv(g)'
  <2>1. Extends(h, g)
    BY <1>1, <1>2, SameExtends
  <2>2. ASSUME NEW m \in requests', m \notin requests
        PROVE  /\ m.type = "RequestVote" /\ m.src = i /\ m.term = currentTerm'[i]
               /\ m.lastLogIndex = LastLogIndex(i) /\ m.lastLogTerm = LastLogTerm(i)
    <3>1. PICK j \in Server \ {i} :
            m = [type |-> "RequestVote", src |-> i, dst |-> j, term |-> currentTerm[i] + 1,
                 lastLogIndex |-> LastLogIndex(i), lastLogTerm |-> LastLogTerm(i)]
      BY <2>2 DEF startElection, Send
    <3> QED
      BY <1>3, <3>1
  <2>3. ASSUME NEW m \in requests', m.type = "RequestVote" PROVE CandidateKnown(m)'
    <3>1. CASE m \in requests
      BY <1>1, <1>3, <1>5, <2>3, <3>1, CandidatesKept DEF Forward
    <3>2. CASE m \notin requests
      <4>1. LastLogIndex(i)' = LastLogIndex(i) /\ LastLogTerm(i)' = LastLogTerm(i)
        BY <1>3 DEF LastLogIndex, LastLogTerm
      <4>2. m.src = i /\ m.term = currentTerm'[i] /\ currentTerm'[i] \in Nat
        BY <1>1, <2>2, <3>2 DEF TypeOK
      <4> QED
        BY <2>2, <3>2, <4>1, <4>2 DEF CandidateKnown
    <3> QED
      BY <3>1, <3>2
  <2>4. \A m \in requests' : m.type = "AppendEntries" => m \in requests
    BY <2>2
  <2> QED
    BY <1>1, <1>2, <2>1, <2>3, <2>4, MessagesKept DEF startElection
<1>11. ServerInv(g)'
  BY <1>2, <1>3, <1>5, SameServers DEF startElection
<1> QED
  BY <1>2, <1>6, <1>7, <1>9, <1>10, <1>11 DEF HistoryInv

\* The reason for comparing logs before a vote: a log that is at least as up to date has
\* what the voter has, unless a leader in between was elected without it.
LEMMA UpToDateHolds ==
    ASSUME TypeOK, NoSnapshots, NEW h, HistoryInv(h), NEW v \in Server, NEW k \in Server,
           NEW t \in Nat, NEW q \in Nat \ {0}, Has(log[v], q, t),
           \/ LastLogTerm(k) > LastLogTerm(v)
           \/ LastLogTerm(k) = LastLogTerm(v) /\ LastLogIndex(k) >= LastLogIndex(v)
    PROVE  Has(log[k], q, t) \/ Overruled(h, q, t, currentTerm[k])
<1>1. PICK sv, sk, nv, nk : /\ sv = LastLogTerm(v) /\ sk = LastLogTerm(k)
                            /\ nv = Len(log[v]) /\ nk = Len(log[k])
  OBVIOUS
<1>2. /\ nv \in Nat \ {0} /\ nk \in Nat \ {0} /\ sv \in Nat /\ sk \in Nat
      /\ LastLogIndex(v) = nv - 1 /\ LastLogIndex(k) = nk - 1 /\ currentTerm[k] \in Nat
      /\ log[v][nv].term = sv /\ log[k][nk].term = sk
  <2>1. sv \in Nat /\ sk \in Nat /\ currentTerm[k] \in Nat
    BY <1>1, ServerTypes DEF TypeOK
  <2>2. nv \in Nat \ {0} /\ nk \in Nat \ {0} /\ LastLogIndex(v) = nv - 1 /\ LastLogIndex(k) = nk - 1
    <3>1. Len(log[v]) \in Nat /\ Len(log[v]) > 0 /\ LastLogIndex(v) = Len(log[v]) - 1
      BY SavedLog
    <3>2. Len(log[k]) \in Nat /\ Len(log[k]) > 0 /\ LastLogIndex(k) = Len(log[k]) - 1
      BY SavedLog
    <3> QED
      BY <1>1, <3>1, <3>2
  <2> QED
    BY <1>1, <2>1, <2>2 DEF LastLogTerm
<1>3. h \in History /\ TermLogs(h) /\ Sound(log[v], h) /\ Sound(log[k], h) /\ sk <= currentTerm[k]
  <2>1. h \in History /\ TermLogs(h) /\ ServerLogs(h)
    BY HistoryParts DEF LogInv
  <2>2. nk \in 1..Len(log[k])
    BY <1>1, <1>2
  <2> QED
    BY <1>2, <2>1, <2>2 DEF ServerLogs
<1>4. /\ nv <= Len(h.llog[sv]) /\ \A p \in 1..nv : log[v][p] = h.llog[sv][p]
      /\ nk <= Len(h.llog[sk]) /\ \A p \in 1..nk : log[k][p] = h.llog[sk][p]
  <2>1. nv \in 1..Len(log[v]) /\ nk \in 1..Len(log[k])
    BY <1>1, <1>2
  <2> QED
    BY <1>2, <1>3, <2>1 DEF Sound
<1>5. q \in 1..nv /\ log[v][q].term = t
  BY <1>1, <1>2 DEF Has
<1>6. Len(h.llog[sv]) \in Nat /\ Len(h.llog[sk]) \in Nat
  BY <1>2, <1>3, TermTypes
<1>7. CASE sk = sv /\ nk >= nv
  <2>1. q \in 1..nk
    BY <1>2, <1>5, <1>7
  <2>2. log[k][q] = log[v][q]
    BY <1>4, <1>5, <1>7, <2>1
  <2> QED
    BY <1>1, <1>5, <2>1, <2>2 DEF Has
<1>8. CASE sk > sv
  <2>1. t <= sv
    <3>1. q \in 1..Len(h.llog[sv])
      BY <1>2, <1>4, <1>5, <1>6
    <3>2. h.llog[sv][q].term <= sv
      BY <1>2, <1>3, <3>1 DEF TermLogs
    <3> QED
      BY <1>4, <1>5, <3>2
  <2>2. sk \in t + 1 .. currentTerm[k]
    BY <1>2, <1>3, <1>8, <2>1
  <2>3. Led(h, sk)
    <3> SUFFICES ASSUME ~Led(h, sk) PROVE FALSE
      OBVIOUS
    <3>1. h.llog[sk] = <<>>
      BY <1>2, <1>3, <1>8 DEF TermLogs
    <3>2. Len(h.llog[sk]) = 0
      BY <3>1
    <3> QED
      BY <1>2, <1>4, <3>2
  <2>4. CASE ~Has(h.llog[sk], q, t)
    BY <2>2, <2>3, <2>4 DEF Overruled
  <2>5. CASE Has(h.llog[sk], q, t)
    <3>1. q \in 1..Len(h.llog[sk]) /\ h.llog[sk][q].term = t
      BY <1>6, <2>5 DEF Has
    <3>2. h.llog[sk][nk].term = sk
      BY <1>2, <1>4
    <3>3. q <= nk
      <4> SUFFICES ASSUME nk < q PROVE FALSE
        BY <1>2
      <4>1. nk \in 1..q
        BY <1>2
      <4>2. h.llog[sk][nk].term <= h.llog[sk][q].term
        BY <1>2, <1>3, <3>1, <4>1, TermsRise
      <4> QED
        BY <1>2, <1>8, <2>1, <3>1, <3>2, <4>2
    <3>4. log[k][q] = h.llog[sk][q]
      BY <1>2, <1>4, <3>3
    <3> QED
      BY <1>1, <3>1, <3>3, <3>4 DEF Has
  <2> QED
    BY <2>4, <2>5
<1> QED
  BY <1>1, <1>2, <1>7, <1>8

\* RequestVote: whatever the voter has accepted, the candidate holds.
LEMMA HistoryRequestVote ==
    ASSUME NEW h, StepFrom(h), NEW m \in requests, RequestVote(m)
    PROVE  \E g : HistoryInv(g)'
<1> DEFINE v == m.dst
           answer == [type |-> "RequestVote", args |-> m, term |-> currentTerm[v],
                      voteGranted |-> CanVote(v, m)]
<1>1. /\ h \in History /\ TypeOK /\ TypeOK' /\ VoteStep /\ ElectionInv(h) /\ LogInv(h) /\ AckInv(h)
      /\ MessageInv(h) /\ NoSnapshots /\ NoSnapshots' /\ HistoryInv(h)
  BY HistoryParts DEF StepFrom
<1>2. PICK g \in History :
             /\ SameLogs(h, g) /\ CastNow(g)' /\ CastKept(h, g)
             /\ \A w \in Server, t \in Nat :
                  g.cast[w][t] = IF t = currentTerm'[w] THEN votedFor'[w] ELSE h.cast[w][t]
             /\ \A w \in Server : currentTerm'[w] = currentTerm[w] /\ votedFor'[w] = votedFor[w] =>
                  \A t \in Nat : g.cast[w][t] = h.cast[w][t]
  BY VoteHistory
<1>3. /\ v \in Server /\ m.src \in Server /\ m.term \in Nat /\ m.type = "RequestVote"
      /\ currentTerm[v] \in Nat
  <2>1. v \in Server /\ m.src \in Server /\ m.term \in Nat /\ m.type = "RequestVote"
    BY <1>1, MessageTypes DEF RequestVote, RequestVoteArgs
  <2>2. currentTerm[v] \in Nat
    BY <1>1, <2>1 DEF TypeOK
  <2> QED
    BY <2>1, <2>2
<1>4. CandidateKnown(m)
  BY <1>1, <1>3 DEF MessageInv
<1>5. /\ currentTerm'[v] = IF m.term > currentTerm[v] THEN m.term ELSE currentTerm[v]
      /\ votedFor'[v] = IF CanVote(v, m) THEN m.src ELSE VoteAfter(v, m.term)
      /\ state'[v] = IF m.term > currentTerm[v] \/ CanVote(v, m) THEN Follower ELSE state[v]
      /\ votes' = votes /\ log' = log
  <2>1. /\ currentTerm' = [currentTerm EXCEPT ![v] = TermAfter(v, m.term)]
        /\ votedFor' = [votedFor EXCEPT ![v] = IF CanVote(v, m) THEN m.src ELSE VoteAfter(v, m.term)]
        /\ state' = [state EXCEPT ![v] =
              IF m.term > currentTerm[v] \/ CanVote(v, m) THEN Follower ELSE state[v]]
        /\ votes' = votes /\ log' = log
    BY DEF RequestVote, logVars
  <2>2. TermAfter(v, m.term) = IF m.term > currentTerm[v] THEN m.term ELSE currentTerm[v]
    BY <1>1, <1>3, TermAfterType
  <2>3. currentTerm'[v] = TermAfter(v, m.term)
    BY <1>1, <1>3, <2>1 DEF TypeOK
  <2>4. votedFor'[v] = IF CanVote(v, m) THEN m.src ELSE VoteAfter(v, m.term)
    BY <1>1, <1>3, <2>1 DEF TypeOK
  <2>5. state'[v] = IF m.term > currentTerm[v] \/ CanVote(v, m) THEN Follower ELSE state[v]
    BY <1>1, <1>3, <2>1 DEF TypeOK
  <2> QED
    BY <2>1, <2>2, <2>3, <2>4, <2>5
<1>6. \A k \in Server \ {v} :
        state'[k] = state[k] /\ currentTerm'[k] = currentTerm[k] /\ votedFor'[k] = votedFor[k]
  BY <1>1 DEF RequestVote, TypeOK
<1>7. Forward
  <2>1. \A k \in Server : currentTerm'[k] >= currentTerm[k]
    BY <1>1 DEF VoteStep
  <2> QED
    BY <1>5, <1>6, <2>1 DEF Forward, Onward, Follower, Candidate, Leader
<1>8. ASSUME NEW w \in Server, NEW t \in Nat, g.cast[w][t] # None, g.cast[w][t] # h.cast[w][t]
      PROVE  /\ w = v /\ CanVote(v, m) /\ g.cast[w][t] = m.src /\ t = m.term
             /\ currentTerm[v] <= t
  <2>1. w = v
    BY <1>2, <1>6, <1>8
  <2>2. t = currentTerm'[v] /\ g.cast[w][t] = votedFor'[v]
    BY <1>2, <1>8, <2>1
  <2>3. ASSUME ~CanVote(v, m) PROVE FALSE
    <3>1. votedFor'[v] = VoteAfter(v, m.term)
      BY <1>5, <2>3
    <3>2. ~(m.term > currentTerm[v])
      BY <1>8, <2>2, <3>1 DEF VoteAfter
    <3>3. votedFor'[v] = votedFor[v] /\ currentTerm'[v] = currentTerm[v]
      BY <1>5, <3>1, <3>2 DEF VoteAfter
    <3> QED
      BY <1>2, <1>8, <2>1, <3>3
  <2>4. m.term >= currentTerm[v]
    BY <2>3 DEF CanVote
  <2> QED
    BY <1>3, <1>5, <2>1, <2>2, <2>3, <2>4
<1>9. ElectionInv(g)'
  <2>1. LeadersElected(g)' /\ LeadersLead(g)'
    BY <1>1, <1>2, <1>7, LeadersKept DEF SameLogs
  <2>2. VotesCast(g)'
    <3> SUFFICES ASSUME NEW k \in Server, Campaigning(k)', NEW w \in votes'[k]
                 PROVE  g.cast[w][currentTerm'[k]] = k
      BY DEF VotesCast
    <3>1. Campaigning(k) /\ w \in votes[k] /\ currentTerm'[k] = currentTerm[k]
      BY <1>5, <1>6 DEF Campaigning, Follower, Candidate, Leader
    <3>2. h.cast[w][currentTerm[k]] = k /\ w \in Server /\ currentTerm[k] \in Nat
      BY <1>1, <3>1 DEF ElectionInv, VotesCast, TypeOK
    <3> QED
      BY <1>2, <3>1, <3>2, ServerAssumption DEF CastKept
  <2>3. GrantedCast(g)'
    <3> SUFFICES ASSUME NEW r \in Granted' PROVE g.cast[r.args.dst][r.args.term] = r.args.src
      BY DEF GrantedCast
    <3>1. replies' \subseteq replies \cup {answer}
      BY DEF RequestVote, Reply
    <3>2. CASE r \in replies
      <4>1. r \in Granted
        BY <3>2 DEF Granted
      <4>2. /\ r.args.src \in Server /\ r.args.dst \in Server /\ r.args.term \in Nat
            /\ h.cast[r.args.dst][r.args.term] = r.args.src
        BY <1>1, <4>1, GrantedTypes DEF ElectionInv, GrantedCast
      <4> QED
        BY <1>2, <4>2, ServerAssumption DEF CastKept
    <3>3. CASE r = answer
      <4>1. CanVote(v, m) /\ r.args = m
        BY <3>3 DEF Granted
      <4>2. currentTerm'[v] = m.term /\ votedFor'[v] = m.src
        BY <1>3, <1>5, <4>1 DEF CanVote
      <4> QED
        BY <1>2, <1>3, <4>1, <4>2
    <3> QED
      BY <3>1, <3>2, <3>3 DEF Granted
  <2>4. CastInTerm(g)'
    <3> SUFFICES ASSUME NEW w \in Server, NEW t \in Nat, g.cast[w][t] # None
                 PROVE  t <= currentTerm'[g.cast[w][t]]
      BY DEF CastInTerm
    <3>1. CASE g.cast[w][t] = h.cast[w][t]
      BY <1>1, <3>1, CastStays DEF ElectionInv
    <3>2. CASE g.cast[w][t] # h.cast[w][t]
      <4>1. g.cast[w][t] = m.src /\ t = m.term
        BY <1>8, <3>2
      <4>2. /\ m.term <= currentTerm[m.src] /\ currentTerm[m.src] \in Nat
            /\ currentTerm'[m.src] \in Nat /\ currentTerm'[m.src] >= currentTerm[m.src]
        BY <1>1, <1>3, <1>4 DEF CandidateKnown, TypeOK, VoteStep
      <4> QED
        BY <1>3, <4>1, <4>2
    <3> QED
      BY <3>1, <3>2
  <2> QED
    BY <1>2, <2>1, <2>2, <2>3, <2>4 DEF ElectionInv
<1>10. LogInv(g)'
  BY <1>1, <1>2, <1>5, <1>7, SameLogInv
<1>11. CandidatesHold(g)'
  <2> SUFFICES ASSUME NEW k \in Server, NEW w \in Server, state'[k] = Candidate,
                      g.cast[w][currentTerm'[k]] = k,
                      NEW t \in 0..currentTerm'[k] - 1, NEW q \in 1..h.acked[w][t], Accepted(h, w, q, t)
               PROVE  Has(log[k], q, t) \/ Overruled(h, q, t, currentTerm'[k])
    BY <1>2, <1>5 DEF CandidatesHold, SameLogs, Accepted, Has, Overruled, Led
  <2>1. /\ currentTerm[k] \in Nat /\ t \in Nat /\ state[k] = Candidate
        /\ currentTerm'[k] = currentTerm[k]
    <3>1. currentTerm[k] \in Nat /\ currentTerm'[k] \in Nat
      BY <1>1 DEF TypeOK
    <3>2. state[k] = Candidate /\ currentTerm'[k] = currentTerm[k]
      BY <1>5, <1>6 DEF Follower, Candidate
    <3> QED
      BY <3>1, <3>2
  <2>2. CASE h.cast[w][currentTerm[k]] = k
    BY <1>1, <2>1, <2>2 DEF AckInv, CandidatesHold
  <2>3. CASE h.cast[w][currentTerm[k]] # k
    <3>1. /\ w = v /\ CanVote(v, m) /\ k = m.src /\ currentTerm[k] = m.term
          /\ currentTerm[v] <= currentTerm[k]
      BY <1>8, <2>1, <2>3, ServerAssumption
    <3>2. m.lastLogIndex = LastLogIndex(k) /\ m.lastLogTerm = LastLogTerm(k)
      BY <1>4, <2>1, <3>1 DEF CandidateKnown
    <3>3. \/ LastLogTerm(k) > LastLogTerm(v)
          \/ LastLogTerm(k) = LastLogTerm(v) /\ LastLogIndex(k) >= LastLogIndex(v)
      BY <3>1, <3>2 DEF CanVote, UpToDate
    <3>4. Has(log[v], q, t) \/ Overruled(h, q, t, currentTerm[v])
      BY <1>1, <2>1, <3>1 DEF AckInv, Held
    <3>5. q \in Nat \ {0}
      BY <1>1, <2>1, VoterTypes
    <3>6. CASE Has(log[v], q, t)
      BY <1>1, <1>3, <2>1, <3>3, <3>5, <3>6, UpToDateHolds
    <3>7. CASE Overruled(h, q, t, currentTerm[v])
      BY <1>1, <1>3, <2>1, <3>1, <3>5, <3>7, ExtendsSelf, ExtendsOverruled
    <3> QED
      BY <3>4, <3>6, <3>7
  <2> QED
    BY <2>2, <2>3
<1>12. AckInv(g)'
  BY <1>1, <1>2, <1>5, <1>7, <1>11, SameAckInv
<1>13. MessageInv(g)'
  <2>1. Extends(h, g)
    BY <1>1, <1>2, SameExtends
  <2>2. /\ requests' \subseteq requests /\ heartbeats' = heartbeats
        /\ \A r \in replies' : r \in replies \/ r.type = "RequestVote"
    BY <1>3 DEF RequestVote, Reply
  <2>3. ASSUME NEW x \in requests', x.type = "RequestVote" PROVE CandidateKnown(x)'
    BY <1>1, <1>5, <1>7, <2>2, <2>3, CandidatesKept DEF Forward
  <2> QED
    BY <1>1, <1>2, <2>1, <2>2, <2>3, MessagesKept
<1>14. ServerInv(g)'
  BY <1>2, <1>5, <1>7, SameServers DEF RequestVote
<1> QED
  BY <1>2, <1>9, <1>10, <1>12, <1>13, <1>14 DEF HistoryInv

\* A vote is counted and does not yet decide: the voter has cast it.
LEMMA HistoryCount ==
    ASSUME NEW h, StepFrom(h), NEW r \in replies, requestVoteReply(r), Awaited(r, Candidate),
           UNCHANGED <<state, currentTerm, votedFor, logVars, leaderVars>>,
           votes' = [votes EXCEPT ![r.args.src] = IF r.voteGranted THEN @ \cup {r.args.dst} ELSE @]
    PROVE  HistoryInv(h)'
<1> DEFINE i == r.args.src
<1>1. /\ h \in History /\ TypeOK /\ TypeOK' /\ VoteStep /\ ElectionInv(h) /\ LogInv(h) /\ AckInv(h)
      /\ MessageInv(h) /\ NoSnapshots /\ NoSnapshots' /\ SameLogs(h, h) /\ Extends(h, h)
  BY HistoryParts, ExtendsSelf DEF StepFrom, SameLogs
<1>2. r.type = "RequestVote" /\ i \in Server /\ r.args.dst \in Server
  BY <1>1, MessageTypes DEF requestVoteReply, RequestVoteReply, RequestVoteArgs
<1>3. Forward /\ NoNewVote /\ log' = log
  BY <1>1 DEF Forward, Onward, NoNewVote, logVars, VoteStep
<1>4. ElectionInv(h)'
  <2>1. CastNow(h)' /\ CastKept(h, h) /\ CastInTerm(h)'
    BY <1>1, <1>3, NoVoteIsCast DEF ElectionInv, CastKept, CastInTerm
  <2>2. LeadersElected(h)' /\ LeadersLead(h)'
    BY <1>1, <1>3, <2>1, LeadersKept
  <2>3. Granted' \subseteq Granted
    BY DEF requestVoteReply, Granted
  <2>4. GrantedCast(h)'
    BY <1>1, <2>3 DEF ElectionInv, GrantedCast
  <2>5. VotesCast(h)'
    <3> SUFFICES ASSUME NEW k \in Server, Campaigning(k), NEW w \in votes'[k]
                 PROVE  h.cast[w][currentTerm[k]] = k
      BY DEF VotesCast, Campaigning
    <3>1. CASE w \in votes[k]
      BY <1>1, <3>1 DEF ElectionInv, VotesCast
    <3>2. CASE w \notin votes[k]
      <4>1. k = i /\ w = r.args.dst /\ r.voteGranted
        BY <1>1, <1>2, <3>2 DEF TypeOK
      <4>2. r \in Granted /\ currentTerm[i] = r.args.term
        BY <1>2, <4>1 DEF Granted, Awaited
      <4> QED
        BY <1>1, <4>1, <4>2 DEF ElectionInv, GrantedCast
    <3> QED
      BY <3>1, <3>2
  <2> QED
    BY <2>1, <2>2, <2>4, <2>5 DEF ElectionInv
<1>5. LogInv(h)'
  BY <1>1, <1>3, SameLogInv
<1>6. AckInv(h)'
  <2>1. CandidatesHold(h)'
    BY <1>1, <1>3 DEF AckInv, CandidatesHold, Accepted, Has, Overruled, Led
  <2> QED
    BY <1>1, <1>3, <2>1, SameAckInv
<1>7. MessageInv(h)'
  <2>1. requests' = requests /\ heartbeats' = heartbeats /\ replies' \subseteq replies
    BY DEF requestVoteReply
  <2>2. ASSUME NEW x \in requests', x.type = "RequestVote" PROVE CandidateKnown(x)'
    BY <1>1, <1>3, <2>1, <2>2, CandidatesKept DEF Forward
  <2> QED
    BY <1>1, <2>1, <2>2, MessagesKept
<1>8. ServerInv(h)'
  BY <1>1, <1>3, SameServers DEF requestVoteReply
<1> QED
  BY <1>1, <1>4, <1>5, <1>6, <1>7, <1>8 DEF HistoryInv

\* How the history grows when i wins the election of term T with log L and votes V.
Wins(h, g, i, T, L, V) ==
    /\ g.cast = h.cast
    /\ \A t \in Nat :
        /\ g.llog[t] = (IF t = T THEN L ELSE h.llog[t])
        /\ g.lead[t] = (IF t = T THEN i ELSE h.lead[t])
        /\ g.voters[t] = (IF t = T THEN V ELSE h.voters[t])
    /\ \A v \in Server, t \in Nat :
        g.acked[v][t] = IF v = i /\ t = T THEN Len(L) ELSE h.acked[v][t]

\* There is such a history.
LEMMA WinHistory ==
    ASSUME NEW h \in History, NEW i \in Server, NEW T \in Nat, NEW L \in Seq(LogEntry),
           NEW V \in SUBSET Server
    PROVE  \E g \in History : Wins(h, g, i, T, L, V)
<1>1. /\ h.llog \in [Nat -> Seq(LogEntry)] /\ h.lead \in [Nat -> Server \cup {None}]
      /\ h.voters \in [Nat -> SUBSET Server]
      /\ h.cast \in [Server -> [Nat -> Server \cup {None}]] /\ h.acked \in [Server -> [Nat -> Nat]]
  BY DEF History
<1>2. Len(L) \in Nat
  BY LogTypes
<1> DEFINE llog == [t \in Nat |-> IF t = T THEN L ELSE h.llog[t]]
           lead == [t \in Nat |-> IF t = T THEN i ELSE h.lead[t]]
           voters == [t \in Nat |-> IF t = T THEN V ELSE h.voters[t]]
           acked == [v \in Server |-> [t \in Nat |-> IF v = i /\ t = T THEN Len(L) ELSE h.acked[v][t]]]
           g == [llog |-> llog, lead |-> lead, voters |-> voters, cast |-> h.cast, acked |-> acked]
<1>3. /\ llog \in [Nat -> Seq(LogEntry)] /\ lead \in [Nat -> Server \cup {None}]
      /\ voters \in [Nat -> SUBSET Server]
  BY <1>1
<1>4. acked \in [Server -> [Nat -> Nat]]
  BY <1>1, <1>2
<1>5. g \in History
  BY <1>1, <1>3, <1>4 DEF History
<1>6. Wins(h, g, i, T, L, V)
  BY DEF Wins
<1> QED
  BY <1>5, <1>6

\* The winner's term had no leader: two majorities would have voted differently.
LEMMA NewTerm ==
    ASSUME NEW h, HistoryInv(h), NEW i \in Server, state[i] = Candidate, NEW V \in SUBSET Server,
           IsMajority(Cardinality(V)), \A v \in V : h.cast[v][currentTerm[i]] = i, currentTerm[i] \in Nat
    PROVE  /\ currentTerm[i] # 0 /\ ~Led(h, currentTerm[i]) /\ h.llog[currentTerm[i]] = <<>>
           /\ \A v \in Server : h.acked[v][currentTerm[i]] = 0
<1>1. h \in History /\ ElectionInv(h) /\ LogInv(h) /\ AckInv(h)
  BY HistoryParts
<1>2. currentTerm[i] # 0
  BY <1>1 DEF ElectionInv, LeadersLead
<1>3. PICK T \in Nat : T = currentTerm[i]
  OBVIOUS
<1>4. ASSUME Led(h, T) PROVE FALSE
  <2>1. /\ IsMajority(Cardinality(h.voters[T])) /\ \A v \in h.voters[T] : h.cast[v][T] = h.lead[T]
        /\ T = currentTerm[h.lead[T]] => state[h.lead[T]] # Candidate
    BY <1>1, <1>4 DEF ElectionInv, LeadersElected
  <2>2. h.voters[T] \in SUBSET Server
    BY <1>1, TermTypes
  <2>3. PICK v \in V \cap h.voters[T] : TRUE
    BY <2>1, <2>2, MajoritiesMeet
  <2>4. h.lead[T] = i
    BY <1>3, <2>1, <2>3
  <2> QED
    BY <1>3, <2>1, <2>4
<1>5. h.llog[T] = <<>>
  BY <1>1, <1>2, <1>3, <1>4 DEF LogInv, TermLogs
<1>6. ASSUME NEW v \in Server PROVE h.acked[v][T] = 0
  <2>1. h.acked[v][T] <= Len(h.llog[T]) /\ h.acked[v][T] \in Nat
    BY <1>1, VoterTypes DEF AckInv, AckedBound
  <2>2. Len(h.llog[T]) = 0
    BY <1>5
  <2> QED
    BY <2>1, <2>2
<1> QED
  BY <1>2, <1>3, <1>4, <1>5, <1>6

\* A history with a new leader extends the old one.
LEMMA WinExtends ==
    ASSUME NEW h \in History, NEW g \in History, NEW i \in Server, NEW T \in Nat,
           NEW L \in Seq(LogEntry), NEW V, Wins(h, g, i, T, L, V), ~Led(h, T), h.llog[T] = <<>>,
           \A v \in Server : h.acked[v][T] = 0
    PROVE  Extends(h, g)
<1>1. Len(L) \in Nat /\ Len(h.llog[T]) = 0
  BY LogTypes
<1>2. \A t \in Nat : Len(h.llog[t]) \in Nat
  BY TermTypes
<1>3. \A v \in Server, t \in Nat : h.acked[v][t] \in Nat
  BY VoterTypes
<1>4. ASSUME NEW t \in Nat
      PROVE  /\ Led(h, t) => /\ g.lead[t] = h.lead[t] /\ g.voters[t] = h.voters[t]
                             /\ \A k \in Len(h.llog[t]) + 1 .. Len(g.llog[t]) : g.llog[t][k].term = t
             /\ Len(h.llog[t]) <= Len(g.llog[t])
             /\ \A k \in 1..Len(h.llog[t]) : g.llog[t][k] = h.llog[t][k]
  <2>1. CASE t = T
    <3>1. g.llog[t] = L
      BY <2>1 DEF Wins
    <3> QED
      BY <1>1, <2>1, <3>1
  <2>2. CASE t # T
    <3>1. g.llog[t] = h.llog[t] /\ g.lead[t] = h.lead[t] /\ g.voters[t] = h.voters[t]
      BY <2>2 DEF Wins
    <3> QED
      BY <1>2, <3>1
  <2> QED
    BY <2>1, <2>2
<1>5. \A v \in Server, t \in Nat : h.acked[v][t] <= g.acked[v][t]
  BY <1>1, <1>3 DEF Wins
<1> QED
  BY <1>4, <1>5 DEF Extends

\* requestVoteReply wins the election: the history gets a leader.
LEMMA HistoryWin ==
    ASSUME NEW h, StepFrom(h), NEW r \in replies, requestVoteReply(r), Awaited(r, Candidate),
           r.voteGranted, BecomeLeader(r.args.src), IsMajority(Cardinality(votes'[r.args.src])),
           votes' = [votes EXCEPT ![r.args.src] = @ \cup {r.args.dst}],
           UNCHANGED <<currentTerm, votedFor, logVars>>
    PROVE  \E g : HistoryInv(g)'
<1> DEFINE i == r.args.src
<1>1. /\ h \in History /\ TypeOK /\ TypeOK' /\ VoteStep /\ ElectionInv(h) /\ LogInv(h) /\ AckInv(h)
      /\ MessageInv(h) /\ NoSnapshots /\ NoSnapshots' /\ HistoryInv(h)
      /\ NextInLog /\ MatchAcked(h) /\ CommitsKnown(h) /\ AppliedKnown(h)
  BY HistoryParts DEF StepFrom
<1>2. r.type = "RequestVote" /\ i \in Server /\ r.args.dst \in Server /\ state[i] = Candidate
  BY <1>1, MessageTypes DEF requestVoteReply, RequestVoteReply, RequestVoteArgs, Awaited
<1>3. PICK T, L, V : T = currentTerm[i] /\ L = log[i] /\ V = votes[i] \cup {r.args.dst}
  OBVIOUS
<1>4. /\ T \in Nat /\ L \in Seq(LogEntry) /\ Len(L) \in Nat /\ Len(L) > 0 /\ V \in SUBSET Server
      /\ votes'[i] = V /\ IsMajority(Cardinality(V))
  <2>1. T \in Nat /\ V \in SUBSET Server /\ votes'[i] = V
    <3>1. votes \in [Server -> SUBSET Server] /\ T \in Nat
      BY <1>1, <1>2, <1>3 DEF TypeOK
    <3>2. votes[i] \in SUBSET Server
      BY <1>2, <3>1
    <3>3. votes'[i] = votes[i] \cup {r.args.dst}
      BY <1>2, <3>1
    <3> QED
      BY <1>2, <1>3, <3>1, <3>2, <3>3
  <2>2. L \in Seq(LogEntry) /\ Len(L) \in Nat /\ Len(L) > 0
    BY <1>1, <1>2, <1>3, ServerTypes
  <2> QED
    BY <2>1, <2>2
<1>5. \A v \in V : h.cast[v][T] = i
  <2>1. \A v \in votes[i] : h.cast[v][T] = i
    BY <1>1, <1>2, <1>3 DEF ElectionInv, VotesCast, Campaigning
  <2>2. h.cast[r.args.dst][T] = i
    BY <1>1, <1>2, <1>3 DEF ElectionInv, GrantedCast, Granted, Awaited
  <2> QED
    BY <1>3, <2>1, <2>2
<1>6. T # 0 /\ ~Led(h, T) /\ h.llog[T] = <<>> /\ \A v \in Server : h.acked[v][T] = 0
  BY <1>1, <1>2, <1>3, <1>4, <1>5, NewTerm
<1>7. PICK g \in History : Wins(h, g, i, T, L, V)
  BY <1>1, <1>2, <1>4, WinHistory
<1>8. Extends(h, g)
  BY <1>1, <1>2, <1>4, <1>6, <1>7, WinExtends
<1>9. /\ log' = log /\ currentTerm' = currentTerm /\ votedFor' = votedFor /\ state'[i] = Leader
      /\ \A k \in Server \ {i} : state'[k] = state[k] /\ votes'[k] = votes[k]
  BY <1>1, <1>2 DEF BecomeLeader, logVars, TypeOK
<1>10. Onward
  BY <1>1, <1>9 DEF Onward, Candidate, Leader, VoteStep
<1>11. \A k \in Server : state[k] = Leader => currentTerm[k] \in Nat \ {T}
  <2>1. \A k \in Server : state[k] = Leader => h.lead[currentTerm[k]] = k
    BY <1>1 DEF ElectionInv, LeadersLead
  <2> QED
    BY <1>1, <1>6, <2>1, ServerAssumption, SMTT(30) DEF TypeOK, Led
<1>12. \A t \in Nat : t > T => h.cast[i][t] = None
  BY <1>1, <1>2, <1>3 DEF ElectionInv, CastNow
<1>13. ElectionInv(g)'
  <2>1. CastNow(g)' /\ CastInTerm(g)'
    BY <1>1, <1>7, <1>9 DEF Wins, ElectionInv, CastNow, CastInTerm
  <2>2. VotesCast(g)'
    <3> SUFFICES ASSUME NEW k \in Server, Campaigning(k)', NEW w \in votes'[k]
                 PROVE  h.cast[w][currentTerm[k]] = k
      BY <1>7, <1>9 DEF VotesCast, Wins
    <3>1. CASE k = i
      BY <1>3, <1>4, <1>5, <3>1
    <3>2. CASE k # i
      BY <1>1, <1>9, <3>2 DEF ElectionInv, VotesCast, Campaigning
    <3> QED
      BY <3>1, <3>2
  <2>3. GrantedCast(g)'
    <3>1. Granted' \subseteq Granted
      BY DEF requestVoteReply, Granted
    <3> QED
      BY <1>1, <1>7, <3>1 DEF ElectionInv, GrantedCast, Wins
  <2>4. LeadersElected(g)'
    <3> SUFFICES ASSUME NEW t \in Nat, Led(g, t)
                 PROVE  /\ IsMajority(Cardinality(g.voters[t]))
                        /\ \A v \in g.voters[t] : g.cast[v][t] = g.lead[t]
                        /\ t <= currentTerm[g.lead[t]]
                        /\ t = currentTerm[g.lead[t]] => state'[g.lead[t]] # Candidate
      BY <1>9 DEF LeadersElected, Led, IsMajority
    <3>1. CASE t = T
      <4>1. g.voters[t] = V /\ g.lead[t] = i /\ g.cast = h.cast
        BY <1>7, <3>1 DEF Wins
      <4>2. IsMajority(Cardinality(g.voters[t])) /\ \A v \in g.voters[t] : g.cast[v][t] = g.lead[t]
        BY <1>4, <1>5, <3>1, <4>1
      <4>3. currentTerm[g.lead[t]] = t /\ state'[g.lead[t]] # Candidate
        BY <1>3, <1>9, <3>1, <4>1 DEF Candidate, Leader
      <4>4. t <= t
        OBVIOUS
      <4> QED
        BY <4>2, <4>3, <4>4
    <3>2. CASE t # T
      <4>1. g.voters[t] = h.voters[t] /\ g.lead[t] = h.lead[t] /\ g.cast = h.cast
        BY <1>7, <3>2 DEF Wins
      <4>2. /\ IsMajority(Cardinality(h.voters[t])) /\ \A v \in h.voters[t] : h.cast[v][t] = h.lead[t]
            /\ t <= currentTerm[h.lead[t]]
            /\ t = currentTerm[h.lead[t]] => state[h.lead[t]] # Candidate
        BY <1>1, <4>1 DEF ElectionInv, LeadersElected, Led
      <4>3. h.lead[t] \in Server
        BY <1>1, <4>1, TermTypes DEF Led
      <4>4. h.lead[t] # i => state'[h.lead[t]] = state[h.lead[t]]
        BY <1>9, <4>3
      <4> QED
        BY <1>9, <4>1, <4>2, <4>4 DEF Candidate, Leader
    <3> QED
      BY <3>1, <3>2
  <2>5. LeadersLead(g)'
    <3> SUFFICES ASSUME NEW k \in Server
                 PROVE  /\ state'[k] = Leader => g.lead[currentTerm[k]] = k
                        /\ state'[k] = Candidate => currentTerm[k] # 0
      BY <1>9 DEF LeadersLead
    <3>1. CASE k = i
      BY <1>3, <1>4, <1>7, <1>9, <3>1 DEF Wins, Candidate, Leader
    <3>2. CASE k # i
      <4>1. /\ state[k] = Leader => h.lead[currentTerm[k]] = k
            /\ state[k] = Candidate => currentTerm[k] # 0
        BY <1>1 DEF ElectionInv, LeadersLead
      <4> QED
        BY <1>7, <1>9, <1>11, <3>2, <4>1 DEF Wins
    <3> QED
      BY <3>1, <3>2
  <2> QED
    BY <2>1, <2>2, <2>3, <2>4, <2>5 DEF ElectionInv
<1>14. LogInv(g)'
  <2>1. \A k \in Server : Sound(log[k], g)
    <3>1. \A k \in Server : log[k] \in Seq(LogEntry) /\ Sound(log[k], h)
      BY <1>1, ServerTypes DEF LogInv, ServerLogs
    <3> QED
      BY <1>1, <1>8, <3>1, ExtendsSound
  <2>2. TermLogs(g)
    <3>1. g.llog[0] = <<Dummy(0)>> /\ g.lead[0] = None
      BY <1>1, <1>6, <1>7 DEF Wins, LogInv, TermLogs
    <3>2. \A t \in Nat \ {0} : ~Led(g, t) => g.llog[t] = <<>>
      BY <1>1, <1>2, <1>7, ServerAssumption DEF Wins, LogInv, TermLogs, Led
    <3>3. ASSUME NEW t \in Nat
          PROVE  Sound(g.llog[t], g) /\ \A q \in 1..Len(g.llog[t]) : g.llog[t][q].term <= t
      <4>1. CASE t = T
        <5>1. g.llog[t] = log[i]
          BY <1>3, <1>7, <4>1 DEF Wins
        <5>2. \A q \in 1..Len(log[i]) : log[i][q].term <= T
          BY <1>1, <1>2, <1>3 DEF LogInv, ServerLogs
        <5> QED
          BY <1>2, <2>1, <4>1, <5>1, <5>2
      <4>2. CASE t # T
        <5>1. g.llog[t] = h.llog[t]
          BY <1>7, <4>2 DEF Wins
        <5>2. Sound(h.llog[t], h) /\ \A q \in 1..Len(h.llog[t]) : h.llog[t][q].term <= t
          BY <1>1 DEF LogInv, TermLogs
        <5>3. Sound(h.llog[t], g)
          BY <1>1, <1>8, <5>2, TermTypes, ExtendsSound
        <5> QED
          BY <5>1, <5>2, <5>3
      <4> QED
        BY <4>1, <4>2
    <3> QED
      BY <3>1, <3>2, <3>3 DEF TermLogs
  <2>3. ServerLogs(g)'
    <3> SUFFICES ASSUME NEW k \in Server
                 PROVE  /\ \A q \in 1..Len(log[k]) : log[k][q].term <= currentTerm[k]
                        /\ state'[k] = Leader => log[k] = g.llog[currentTerm[k]]
      <4>1. log' = log /\ currentTerm' = currentTerm
        BY <1>9
      <4> QED
        BY <2>1, <4>1, ZenonT(30) DEF ServerLogs, Sound
    <3>1. /\ \A q \in 1..Len(log[k]) : log[k][q].term <= currentTerm[k]
          /\ state[k] = Leader => log[k] = h.llog[currentTerm[k]]
      BY <1>1 DEF LogInv, ServerLogs
    <3>2. CASE k = i
      BY <1>3, <1>4, <1>7, <3>1, <3>2 DEF Wins
    <3>3. CASE k # i
      BY <1>7, <1>9, <1>11, <3>1, <3>3 DEF Wins
    <3> QED
      BY <3>2, <3>3
  <2> QED
    BY <2>2, <2>3 DEF LogInv, TermLogs, Sound, Led, Dummy
<1>15. ASSUME NEW v \in Server, NEW t \in Nat, v # i \/ t # T PROVE g.acked[v][t] = h.acked[v][t]
  BY <1>7, <1>15 DEF Wins
<1>16. g.acked[i][T] = Len(L) /\ g.llog[T] = L
  BY <1>2, <1>4, <1>7 DEF Wins
<1>17. ASSUME NEW v \in Server, NEW t \in Nat, NEW q \in 1..g.acked[v][t], Accepted(g, v, q, t),
              v # i \/ t # T
       PROVE  q \in 1..h.acked[v][t] /\ Accepted(h, v, q, t) /\ t # T /\ q \in Nat \ {0}
  <2>1. g.acked[v][t] = h.acked[v][t] /\ h.acked[v][t] \in Nat
    BY <1>1, <1>15, <1>17, VoterTypes
  <2>2. t # T
    BY <1>6, <2>1
  <2>3. g.llog[t] = h.llog[t]
    BY <1>7, <2>2 DEF Wins
  <2> QED
    BY <1>17, <2>1, <2>2, <2>3 DEF Accepted
<1>18. AckedBound(g)'
  <2> SUFFICES ASSUME NEW v \in Server, NEW t \in Nat
               PROVE  g.acked[v][t] <= Len(g.llog[t]) /\ (g.acked[v][t] > 0 => t <= currentTerm[v])
    BY <1>9 DEF AckedBound
  <2>1. CASE v = i /\ t = T
    BY <1>3, <1>4, <1>16, <2>1
  <2>2. CASE ~(v = i /\ t = T)
    <3>1. h.acked[v][t] <= Len(h.llog[t]) /\ (h.acked[v][t] > 0 => t <= currentTerm[v])
      BY <1>1 DEF AckInv, AckedBound
    <3>2. /\ Len(h.llog[t]) <= Len(g.llog[t]) /\ Len(h.llog[t]) \in Nat /\ Len(g.llog[t]) \in Nat
          /\ h.acked[v][t] \in Nat
      BY <1>1, <1>8, TermTypes, VoterTypes DEF Extends
    <3> QED
      BY <1>15, <2>2, <3>1, <3>2
  <2> QED
    BY <2>1, <2>2
<1>19. AckedInTerm(g)'
  <2> SUFFICES ASSUME NEW v \in Server, NEW q \in 1..g.acked[v][currentTerm[v]]
               PROVE  q <= Len(log[v]) /\ log[v][q] = g.llog[currentTerm[v]][q]
    BY <1>9 DEF AckedInTerm
  <2>1. CASE v = i
    BY <1>3, <1>4, <1>16, <2>1
  <2>2. CASE v # i
    <3>1. currentTerm[v] \in Nat
      BY <1>1 DEF TypeOK
    <3>2. g.acked[v][currentTerm[v]] = h.acked[v][currentTerm[v]]
      BY <1>15, <2>2, <3>1
    <3>3. currentTerm[v] # T
      BY <1>6, <3>2
    <3>4. g.llog[currentTerm[v]] = h.llog[currentTerm[v]]
      BY <1>7, <3>1, <3>3 DEF Wins
    <3> QED
      BY <1>1, <3>2, <3>4 DEF AckInv, AckedInTerm
  <2> QED
    BY <2>1, <2>2
<1>20. Held(g)'
  <2> SUFFICES ASSUME NEW v \in Server, NEW t \in Nat, NEW q \in 1..g.acked[v][t], Accepted(g, v, q, t)
               PROVE  Has(log[v], q, t) \/ Overruled(g, q, t, currentTerm[v])
    BY <1>9, SMTT(30) DEF Held, Accepted, Has, Overruled, Led
  <2>1. CASE v = i /\ t = T
    <3>1. g.acked[v][t] = Len(L) /\ g.llog[t] = L /\ log[v] = L
      BY <1>3, <1>16, <2>1
    <3>2. q \in 1..Len(L) /\ L[q].term = t
      BY <3>1 DEF Accepted
    <3>3. q <= Len(L)
      BY <1>4, <3>2
    <3> QED
      BY <3>1, <3>2, <3>3 DEF Has
  <2>2. CASE ~(v = i /\ t = T)
    <3>1. q \in 1..h.acked[v][t] /\ Accepted(h, v, q, t) /\ q \in Nat \ {0} /\ currentTerm[v] \in Nat
      BY <1>1, <1>17, <2>2 DEF TypeOK
    <3>2. Has(log[v], q, t) \/ Overruled(h, q, t, currentTerm[v])
      BY <1>1, <3>1 DEF AckInv, Held
    <3>3. currentTerm[v] <= currentTerm[v]
      BY <3>1
    <3> QED
      BY <1>1, <1>8, <3>1, <3>2, <3>3, ExtendsOverruled
  <2> QED
    BY <2>1, <2>2
<1>21. CandidatesHold(g)'
  <2> SUFFICES ASSUME NEW k \in Server, NEW v \in Server, state'[k] = Candidate,
                      h.cast[v][currentTerm[k]] = k,
                      NEW t \in 0..currentTerm[k] - 1, NEW q \in 1..g.acked[v][t], Accepted(g, v, q, t)
               PROVE  Has(log[k], q, t) \/ Overruled(g, q, t, currentTerm[k])
    BY <1>7, <1>9 DEF CandidatesHold, Accepted, Has, Overruled, Led, Wins
  <2>1. k # i /\ state[k] = Candidate /\ currentTerm[k] \in Nat /\ t \in Nat
    <3>1. currentTerm[k] \in Nat
      BY <1>1 DEF TypeOK
    <3>2. k # i /\ state[k] = Candidate
      BY <1>9 DEF Candidate, Leader
    <3>3. t \in Nat
      BY <3>1
    <3> QED
      BY <3>1, <3>2, <3>3
  <2>2. v # i \/ t # T
    BY <1>12, <2>1, ServerAssumption
  <2>3. q \in 1..h.acked[v][t] /\ Accepted(h, v, q, t) /\ q \in Nat \ {0}
    BY <1>17, <2>1, <2>2
  <2>4. Has(log[k], q, t) \/ Overruled(h, q, t, currentTerm[k])
    BY <1>1, <2>1, <2>3 DEF AckInv, CandidatesHold
  <2>5. currentTerm[k] <= currentTerm[k]
    BY <2>1
  <2> QED
    BY <1>1, <1>8, <2>1, <2>3, <2>4, <2>5, ExtendsOverruled
<1>22. LeadersHold(g)
  <2> SUFFICES ASSUME NEW u \in Nat, Led(g, u), NEW v \in g.voters[u], NEW t \in 0..u - 1,
                      NEW q \in 1..g.acked[v][t], Accepted(g, v, q, t)
               PROVE  Has(g.llog[u], q, t) \/ Overruled(g, q, t, u - 1)
    BY DEF LeadersHold
  <2>1. v \in Server /\ t \in Nat /\ u - 1 \in Nat /\ u - 1 <= u - 1
    BY TermTypes
  <2>2. CASE u = T
    <3>1. g.voters[u] = V /\ g.llog[u] = L /\ h.cast[v][T] = i /\ t # T
      BY <1>5, <1>7, <2>2 DEF Wins
    <3>2. q \in 1..h.acked[v][t] /\ Accepted(h, v, q, t) /\ q \in Nat \ {0}
      BY <1>17, <2>1, <3>1
    <3>3. Has(log[i], q, t) \/ Overruled(h, q, t, T)
      BY <1>1, <1>2, <1>3, <2>1, <2>2, <3>1, <3>2 DEF AckInv, CandidatesHold
    <3>4. Overruled(h, q, t, T) => Overruled(h, q, t, T - 1)
      <4> SUFFICES ASSUME Overruled(h, q, t, T) PROVE Overruled(h, q, t, T - 1)
        OBVIOUS
      <4>1. PICK s \in t + 1 .. T : Led(h, s) /\ ~Has(h.llog[s], q, t)
        BY DEF Overruled
      <4>2. s \in t + 1 .. T - 1
        BY <1>4, <1>6, <2>1, <4>1
      <4> QED
        BY <4>1, <4>2 DEF Overruled
    <3> QED
      BY <1>1, <1>3, <1>8, <2>1, <2>2, <3>1, <3>2, <3>3, <3>4, ExtendsOverruled
  <2>3. CASE u # T
    <3>1. g.voters[u] = h.voters[u] /\ g.llog[u] = h.llog[u] /\ g.lead[u] = h.lead[u] /\ Led(h, u)
      BY <1>7, <2>3 DEF Wins, Led
    <3>2. v # i \/ t # T
      <4> SUFFICES ASSUME v = i, t = T PROVE FALSE
        OBVIOUS
      <4>1. h.cast[i][u] = h.lead[u] /\ h.lead[u] # None
        BY <1>1, <3>1 DEF ElectionInv, LeadersElected, Led
      <4> QED
        BY <1>12, <2>1, <4>1
    <3>3. q \in 1..h.acked[v][t] /\ Accepted(h, v, q, t) /\ q \in Nat \ {0}
      BY <1>17, <2>1, <3>2
    <3>4. Has(h.llog[u], q, t) \/ Overruled(h, q, t, u - 1)
      BY <1>1, <3>1, <3>3 DEF AckInv, LeadersHold
    <3> QED
      BY <1>1, <1>8, <2>1, <3>1, <3>3, <3>4, ExtendsOverruled
  <2> QED
    BY <2>2, <2>3
<1>23. AckInv(g)'
  <2>1. LeadersHold(g)'
    BY <1>22 DEF LeadersHold, Accepted, Has, Overruled, Led
  <2> QED
    BY <1>18, <1>19, <1>20, <1>21, <2>1 DEF AckInv
<1>24. MessageInv(g)'
  <2>1. requests' = requests /\ heartbeats' = heartbeats /\ replies' \subseteq replies
    BY DEF requestVoteReply
  <2>2. ASSUME NEW x \in requests', x.type = "RequestVote" PROVE CandidateKnown(x)'
    BY <1>1, <1>9, <1>10, <2>1, <2>2, CandidatesKept
  <2> QED
    BY <1>1, <1>8, <2>1, <2>2, MessagesKept
<1>25. /\ \A j \in Server : nextIndex'[i][j] = Len(L) /\ (j # i => matchIndex'[i][j] = 0)
       /\ \A k \in Server \ {i} : nextIndex'[k] = nextIndex[k] /\ matchIndex'[k] = matchIndex[k]
  <2>1. LastLogIndex(i) = Len(L) - 1 /\ snapshotIndex[i] = 0 /\ LastLogIndex(i) + 1 = Len(L)
    <3>1. LastLogIndex(i) = Len(L) - 1 /\ snapshotIndex[i] = 0
      BY <1>1, <1>2, <1>3, SavedLog DEF NoSnapshots
    <3> QED
      BY <1>4, <3>1
  <2>2. /\ nextIndex' = [nextIndex EXCEPT ![i] = [j \in Server |-> Len(L)]]
        /\ matchIndex' = [matchIndex EXCEPT ![i] =
              [j \in Server |-> IF j = i THEN LastLogIndex(i) ELSE 0]]
    BY <2>1 DEF BecomeLeader
  <2> QED
    BY <1>1, <1>2, <2>2 DEF TypeOK
<1>26. NextInLog' /\ MatchAcked(g)'
  <2>1. NextInLog'
    <3> SUFFICES ASSUME NEW k \in Server, NEW j \in Server, state'[k] = Leader
                 PROVE  nextIndex'[k][j] \in 1..Len(log[k])
      BY <1>9 DEF NextInLog
    <3>1. CASE k = i
      BY <1>3, <1>4, <1>25, <3>1
    <3>2. CASE k # i
      BY <1>1, <1>9, <1>25, <3>2 DEF NextInLog
    <3> QED
      BY <3>1, <3>2
  <2>2. MatchAcked(g)'
    <3> SUFFICES ASSUME NEW k \in Server, NEW j \in Server, state'[k] = Leader
                 PROVE  IF j = k THEN g.acked[k][currentTerm[k]] = Len(log[k])
                        ELSE matchIndex'[k][j] > 0 => matchIndex'[k][j] < g.acked[j][currentTerm[k]]
      BY <1>9 DEF MatchAcked
    <3>1. CASE k = i
      BY <1>3, <1>16, <1>25, <3>1
    <3>2. CASE k # i
      <4>1. state[k] = Leader /\ currentTerm[k] \in Nat /\ currentTerm[k] # T
        BY <1>9, <1>11, <3>2
      <4>2. g.acked[k][currentTerm[k]] = h.acked[k][currentTerm[k]]
            /\ g.acked[j][currentTerm[k]] = h.acked[j][currentTerm[k]]
        BY <1>15, <4>1
      <4> QED
        BY <1>1, <1>25, <3>2, <4>1, <4>2 DEF MatchAcked
    <3> QED
      BY <3>1, <3>2
  <2> QED
    BY <2>1, <2>2
<1>27. CommitsKnown(g)' /\ AppliedKnown(g)'
  <2>1. CommitsKnown(g)'
    BY <1>1, <1>8, <1>9, CommitsKept DEF requestVoteReply, serviceVars
  <2>2. AppliedKnown(g)'
    BY <1>1, <1>8, AppliedKept DEF requestVoteReply, serviceVars
  <2> QED
    BY <2>1, <2>2
<1> QED
  BY <1>7, <1>13, <1>14, <1>23, <1>24, <1>26, <1>27 DEF HistoryInv, ServerInv

-----------------------------------------------------------------------------
(* Steps in which a log grows *)

\* How the history grows when the log of term T becomes L, and v has accepted n of it.
Grows(h, g, v, T, L, n) ==
    /\ g.cast = h.cast /\ g.lead = h.lead /\ g.voters = h.voters
    /\ \A t \in Nat : g.llog[t] = IF t = T THEN L ELSE h.llog[t]
    /\ \A w \in Server, t \in Nat : g.acked[w][t] = IF w = v /\ t = T THEN n ELSE h.acked[w][t]

\* There is such a history.
LEMMA GrowHistory ==
    ASSUME NEW h \in History, NEW v \in Server, NEW T \in Nat, NEW L \in Seq(LogEntry), NEW n \in Nat
    PROVE  \E g \in History : Grows(h, g, v, T, L, n)
<1>1. /\ h.llog \in [Nat -> Seq(LogEntry)] /\ h.lead \in [Nat -> Server \cup {None}]
      /\ h.voters \in [Nat -> SUBSET Server]
      /\ h.cast \in [Server -> [Nat -> Server \cup {None}]] /\ h.acked \in [Server -> [Nat -> Nat]]
  BY DEF History
<1> DEFINE llog == [t \in Nat |-> IF t = T THEN L ELSE h.llog[t]]
           acked == [w \in Server |-> [t \in Nat |-> IF w = v /\ t = T THEN n ELSE h.acked[w][t]]]
           g == [llog |-> llog, lead |-> h.lead, voters |-> h.voters, cast |-> h.cast, acked |-> acked]
<1>2. llog \in [Nat -> Seq(LogEntry)]
  BY <1>1
<1>3. acked \in [Server -> [Nat -> Nat]]
  BY <1>1
<1>4. g \in History
  BY <1>1, <1>2, <1>3 DEF History
<1>5. Grows(h, g, v, T, L, n)
  BY DEF Grows
<1> QED
  BY <1>4, <1>5

\* It extends the old one, if the leader only appended entries of its own term.
LEMMA GrowExtends ==
    ASSUME NEW h \in History, NEW g \in History, NEW v \in Server, NEW T \in Nat,
           NEW L \in Seq(LogEntry), NEW n \in Nat, Grows(h, g, v, T, L, n), h.acked[v][T] <= n,
           Agree(h.llog[T], L, Len(h.llog[T])),
           \A k \in Len(h.llog[T]) + 1 .. Len(L) : L[k].term = T
    PROVE  Extends(h, g)
<1>1. \A t \in Nat : Len(h.llog[t]) \in Nat
  BY TermTypes
<1>2. \A w \in Server, t \in Nat : h.acked[w][t] \in Nat
  BY VoterTypes
<1>3. ASSUME NEW t \in Nat
      PROVE  /\ Led(h, t) => /\ g.lead[t] = h.lead[t] /\ g.voters[t] = h.voters[t]
                             /\ \A k \in Len(h.llog[t]) + 1 .. Len(g.llog[t]) : g.llog[t][k].term = t
             /\ Len(h.llog[t]) <= Len(g.llog[t])
             /\ \A k \in 1..Len(h.llog[t]) : g.llog[t][k] = h.llog[t][k]
  <2>1. CASE t = T
    <3>1. g.llog[t] = L /\ g.lead[t] = h.lead[t] /\ g.voters[t] = h.voters[t]
      BY <2>1 DEF Grows
    <3> QED
      BY <1>1, <2>1, <3>1 DEF Agree
  <2>2. CASE t # T
    <3>1. g.llog[t] = h.llog[t] /\ g.lead[t] = h.lead[t] /\ g.voters[t] = h.voters[t]
      BY <2>2 DEF Grows
    <3> QED
      BY <1>1, <3>1
  <2> QED
    BY <2>1, <2>2
<1>4. \A w \in Server, t \in Nat : h.acked[w][t] <= g.acked[w][t]
  BY <1>2 DEF Grows
<1> QED
  BY <1>3, <1>4 DEF Extends

\* The common part of Start and AppendEntries: v is in term T, whose leader's log is L
\* by now, and has accepted n positions of it.  The logs stay sound, and what v had
\* accepted before is still there or overruled.
LEMMA GrowKeeps ==
    ASSUME NEW h, StepFrom(h), Quiet, NoNewVote, NEW g \in History, NEW v \in Server, NEW T \in Nat,
           NEW L \in Seq(LogEntry), NEW n \in Nat, Grows(h, g, v, T, L, n), Extends(h, g),
           T = currentTerm'[v], Led(h, T), state'[v] # Candidate,
           \A k \in Server \ {v} : log'[k] = log[k],
           Sound(L, g), \A q \in 1..Len(L) : L[q].term <= T,
           Sound(log'[v], g), \A q \in 1..Len(log'[v]) : log'[v][q].term <= T,
           \A k \in Server : state'[k] = Leader => log'[k] = g.llog[currentTerm'[k]],
           Agree(L, log'[v], n),
           \A t \in Nat \ {T} : \A q \in 1..h.acked[v][t] :
             Accepted(h, v, q, t) => Has(log'[v], q, t) \/ Overruled(h, q, t, T)
    PROVE  ElectionInv(g)' /\ LogInv(g)' /\ AckInv(g)'
<1>1. /\ h \in History /\ TypeOK /\ TypeOK' /\ VoteStep /\ ElectionInv(h) /\ LogInv(h) /\ AckInv(h)
      /\ HistoryInv(h)
  BY HistoryParts DEF StepFrom
<1>2. g.cast = h.cast /\ g.lead = h.lead /\ g.voters = h.voters /\ g.llog[T] = L /\ g.acked[v][T] = n
  BY DEF Grows
<1>3. ElectionInv(g)'
  BY <1>1, <1>2, QuietElections
<1>4. Forward
  BY <1>1, QuietIsForward
<1>5. \A k \in Server : /\ currentTerm[k] \in Nat /\ currentTerm'[k] \in Nat
                        /\ currentTerm[k] <= currentTerm'[k]
  <2>1. \A k \in Server : currentTerm[k] \in Nat /\ currentTerm'[k] \in Nat
    BY <1>1 DEF TypeOK
  <2> QED
    BY <1>1, <2>1 DEF VoteStep
<1>6. LogInv(g)'
  <2>1. TermLogs(g)
    <3>1. T # 0 /\ g.llog[0] = <<Dummy(0)>> /\ g.lead[0] = None
      <4>1. h.llog[0] = <<Dummy(0)>> /\ h.lead[0] = None
        BY <1>1 DEF LogInv, TermLogs
      <4>2. T # 0
        BY <4>1 DEF Led
      <4> QED
        BY <1>2, <4>1, <4>2 DEF Grows
    <3>2. \A t \in Nat \ {0} : ~Led(g, t) => g.llog[t] = <<>>
      BY <1>1, <1>2 DEF Grows, LogInv, TermLogs, Led
    <3>3. ASSUME NEW t \in Nat
          PROVE  Sound(g.llog[t], g) /\ \A q \in 1..Len(g.llog[t]) : g.llog[t][q].term <= t
      <4>1. CASE t = T
        BY <1>2, <4>1
      <4>2. CASE t # T
        <5>1. g.llog[t] = h.llog[t]
          BY <4>2 DEF Grows
        <5>2. Sound(h.llog[t], h) /\ \A q \in 1..Len(h.llog[t]) : h.llog[t][q].term <= t
          BY <1>1 DEF LogInv, TermLogs
        <5>3. Sound(h.llog[t], g)
          BY <1>1, <5>2, TermTypes, ExtendsSound
        <5> QED
          BY <5>1, <5>2, <5>3
      <4> QED
        BY <4>1, <4>2
    <3> QED
      BY <3>1, <3>2, <3>3 DEF TermLogs
  <2>2. ASSUME NEW k \in Server
        PROVE  Sound(log'[k], g) /\ \A q \in 1..Len(log'[k]) : log'[k][q].term <= currentTerm'[k]
    <3>1. CASE k = v
      BY <3>1
    <3>2. CASE k # v
      <4>1. /\ log[k] \in Seq(LogEntry) /\ Sound(log[k], h)
            /\ \A q \in 1..Len(log[k]) : log[k][q].term <= currentTerm[k]
        BY <1>1, ServerTypes DEF LogInv, ServerLogs
      <4>2. \A q \in 1..Len(log[k]) : log[k][q].term \in Nat
        BY <4>1, LogTypes
      <4>3. Sound(log[k], g)
        BY <1>1, <4>1, ExtendsSound
      <4>4. log'[k] = log[k]
        BY <3>2
      <4> QED
        BY <1>5, <4>1, <4>2, <4>3, <4>4
    <3> QED
      BY <3>1, <3>2
  <2>3. ServerLogs(g)'
    BY <2>2 DEF ServerLogs, Sound
  <2> QED
    BY <2>1, <2>3 DEF LogInv, TermLogs, Sound, Led, Dummy
<1>7. ASSUME NEW w \in Server, NEW t \in Nat, w # v \/ t # T PROVE g.acked[w][t] = h.acked[w][t]
  BY <1>7 DEF Grows
<1>8. \A t \in Nat : /\ Len(h.llog[t]) \in Nat /\ Len(g.llog[t]) \in Nat
                     /\ Len(h.llog[t]) <= Len(g.llog[t])
                     /\ \A k \in 1..Len(h.llog[t]) : g.llog[t][k] = h.llog[t][k]
  BY <1>1, TermTypes DEF Extends
<1>9. \A w \in Server, t \in Nat : h.acked[w][t] \in Nat /\ h.acked[w][t] <= Len(h.llog[t])
  BY <1>1, VoterTypes DEF AckInv, AckedBound
<1>10. ASSUME NEW w \in Server, NEW t \in Nat, NEW q \in 1..g.acked[w][t], Accepted(g, w, q, t),
              w # v \/ t # T
       PROVE  q \in 1..h.acked[w][t] /\ Accepted(h, w, q, t) /\ q \in Nat \ {0}
  <2>1. q \in 1..h.acked[w][t] /\ q \in Nat \ {0}
    BY <1>7, <1>9, <1>10
  <2>2. g.llog[t][q] = h.llog[t][q]
    BY <1>8, <1>9, <2>1
  <2> QED
    BY <1>10, <2>1, <2>2 DEF Accepted
<1>11. AckedBound(g)'
  <2> SUFFICES ASSUME NEW w \in Server, NEW t \in Nat
               PROVE  g.acked[w][t] <= Len(g.llog[t]) /\ (g.acked[w][t] > 0 => t <= currentTerm'[w])
    BY DEF AckedBound
  <2>1. CASE w = v /\ t = T
    BY <1>2, <2>1 DEF Agree
  <2>2. CASE ~(w = v /\ t = T)
    <3>1. h.acked[w][t] > 0 => t <= currentTerm[w]
      BY <1>1 DEF AckInv, AckedBound
    <3>2. g.acked[w][t] = h.acked[w][t]
      BY <1>7, <2>2
    <3>3. h.acked[w][t] <= Len(h.llog[t]) /\ Len(h.llog[t]) <= Len(g.llog[t])
      BY <1>8, <1>9
    <3>4. /\ h.acked[w][t] \in Nat /\ Len(h.llog[t]) \in Nat /\ Len(g.llog[t]) \in Nat
          /\ currentTerm[w] \in Nat /\ currentTerm'[w] \in Nat /\ currentTerm[w] <= currentTerm'[w]
      BY <1>5, <1>8, <1>9
    <3>5. PICK a, l, m, c, d : /\ a = h.acked[w][t] /\ l = Len(h.llog[t]) /\ m = Len(g.llog[t])
                               /\ c = currentTerm[w] /\ d = currentTerm'[w]
      OBVIOUS
    <3>6. a <= m
      BY <3>3, <3>4, <3>5, SMTT(30)
    <3>7. a > 0 => t <= d
      BY <3>1, <3>4, <3>5
    <3> QED
      BY <3>2, <3>5, <3>6, <3>7
  <2> QED
    BY <2>1, <2>2
<1>12. AckedInTerm(g)'
  <2> SUFFICES ASSUME NEW w \in Server, NEW q \in 1..g.acked[w][currentTerm'[w]]
               PROVE  q <= Len(log'[w]) /\ log'[w][q] = g.llog[currentTerm'[w]][q]
    BY DEF AckedInTerm
  <2>1. CASE w = v
    BY <1>2, <2>1 DEF Agree
  <2>2. CASE w # v
    <3>1. PICK t \in Nat : t = currentTerm'[w]
      BY <1>5
    <3>2. q \in 1..h.acked[w][t] /\ log'[w] = log[w]
      BY <1>7, <2>2, <3>1
    <3>3. q \in 1..Len(h.llog[t]) /\ h.acked[w][t] > 0
      BY <1>8, <1>9, <3>2
    <3>4. t = currentTerm[w]
      <4>1. h.acked[w][t] > 0 => t <= currentTerm[w]
        BY <1>1 DEF AckInv, AckedBound
      <4> QED
        BY <1>5, <3>1, <3>3, <4>1
    <3>5. q <= Len(log[w]) /\ log[w][q] = h.llog[t][q]
      BY <1>1, <3>2, <3>4 DEF AckInv, AckedInTerm
    <3> QED
      BY <1>8, <3>1, <3>2, <3>3, <3>5
  <2> QED
    BY <2>1, <2>2
<1>13. Held(g)'
  <2> SUFFICES ASSUME NEW w \in Server, NEW t \in Nat, NEW q \in 1..g.acked[w][t], Accepted(g, w, q, t)
               PROVE  Has(log'[w], q, t) \/ Overruled(g, q, t, currentTerm'[w])
    BY DEF Held, Accepted, Has, Overruled, Led
  <2>1. CASE w = v /\ t = T
    BY <1>2, <2>1 DEF Accepted, Has, Agree
  <2>2. CASE ~(w = v /\ t = T)
    <3>1. q \in 1..h.acked[w][t] /\ Accepted(h, w, q, t) /\ q \in Nat \ {0}
      BY <1>10, <2>2
    <3>2. Has(log'[w], q, t) \/ \E u \in Nat : u <= currentTerm'[w] /\ Overruled(h, q, t, u)
      <4>1. CASE w = v
        <5>1. T <= currentTerm'[w]
          BY <4>1
        <5> QED
          BY <2>2, <3>1, <4>1, <5>1
      <4>2. CASE w # v
        <5>1. Has(log[w], q, t) \/ Overruled(h, q, t, currentTerm[w])
          BY <1>1, <3>1 DEF AckInv, Held
        <5> QED
          BY <1>5, <4>2, <5>1
      <4> QED
        BY <4>1, <4>2
    <3> QED
      BY <1>1, <1>5, <3>1, <3>2, ExtendsOverruled
  <2> QED
    BY <2>1, <2>2
<1>14. \A t \in Nat : t > T => h.cast[v][t] = None
  BY <1>2, <1>3 DEF ElectionInv, CastNow
<1>15. CandidatesHold(g)'
  <2> SUFFICES ASSUME NEW k \in Server, NEW w \in Server, state'[k] = Candidate,
                      g.cast[w][currentTerm'[k]] = k,
                      NEW t \in 0..currentTerm'[k] - 1, NEW q \in 1..g.acked[w][t], Accepted(g, w, q, t)
               PROVE  Has(log'[k], q, t) \/ Overruled(g, q, t, currentTerm'[k])
    BY DEF CandidatesHold, Accepted, Has, Overruled, Led
  <2>1. k # v /\ log'[k] = log[k] /\ state[k] = Candidate /\ currentTerm'[k] = currentTerm[k]
    BY DEF Quiet, Campaigning
  <2>2. t \in Nat /\ t < currentTerm[k] /\ t \in 0..currentTerm[k] - 1 /\ currentTerm[k] <= currentTerm[k]
    BY <1>5, <2>1
  <2>3. w # v \/ t # T
    <3> SUFFICES ASSUME w = v, t = T PROVE FALSE
      OBVIOUS
    <3>1. h.cast[v][currentTerm[k]] = None
      BY <1>5, <1>14, <2>2
    <3> QED
      BY <1>2, <2>1, <3>1, ServerAssumption
  <2>4. q \in 1..h.acked[w][t] /\ Accepted(h, w, q, t) /\ q \in Nat \ {0}
    BY <1>10, <2>2, <2>3
  <2>5. Has(log[k], q, t) \/ Overruled(h, q, t, currentTerm[k])
    BY <1>1, <1>2, <2>1, <2>2, <2>4 DEF AckInv, CandidatesHold
  <2> QED
    BY <1>1, <1>5, <2>1, <2>2, <2>4, <2>5, ExtendsOverruled
<1>16. LeadersHold(g)
  <2> SUFFICES ASSUME NEW u \in Nat, Led(g, u), NEW w \in g.voters[u], NEW t \in 0..u - 1,
                      NEW q \in 1..g.acked[w][t], Accepted(g, w, q, t)
               PROVE  Has(g.llog[u], q, t) \/ Overruled(g, q, t, u - 1)
    BY DEF LeadersHold
  <2>1. w \in Server /\ t \in Nat /\ u - 1 \in Nat /\ u - 1 <= u - 1 /\ t < u
    BY TermTypes
  <2>2. Led(h, u) /\ w \in h.voters[u]
    BY <1>2 DEF Led
  <2>3. w # v \/ t # T
    <3> SUFFICES ASSUME w = v, t = T PROVE FALSE
      OBVIOUS
    <3>1. h.cast[v][u] = h.lead[u] /\ h.lead[u] # None
      BY <1>1, <2>2 DEF ElectionInv, LeadersElected, Led
    <3> QED
      BY <1>14, <2>1, <3>1
  <2>4. q \in 1..h.acked[w][t] /\ Accepted(h, w, q, t) /\ q \in Nat \ {0}
    BY <1>10, <2>1, <2>3
  <2>5. Has(h.llog[u], q, t) \/ Overruled(h, q, t, u - 1)
    BY <1>1, <2>2, <2>4 DEF AckInv, LeadersHold
  <2>6. CASE Has(h.llog[u], q, t)
    BY <1>1, <2>1, <2>2, <2>4, <2>6, ExtendsHas
  <2>7. CASE Overruled(h, q, t, u - 1)
    BY <1>1, <2>1, <2>4, <2>7, ExtendsOverruled
  <2> QED
    BY <2>5, <2>6, <2>7
<1>17. AckInv(g)'
  <2>1. LeadersHold(g)'
    BY <1>16 DEF LeadersHold, Accepted, Has, Overruled, Led
  <2> QED
    BY <1>11, <1>12, <1>13, <1>15, <2>1 DEF AckInv
<1> QED
  BY <1>3, <1>6, <1>17

\* Start: the leader's log and the log of its term grow by the same entry.
LEMMA HistoryStart ==
    ASSUME NEW h, StepFrom(h), Quiet, NEW i \in Server, NEW command \in Command, Start(i, command)
    PROVE  \E g : HistoryInv(g)'
<1>1. /\ h \in History /\ TypeOK /\ TypeOK' /\ VoteStep /\ ElectionInv(h) /\ LogInv(h) /\ AckInv(h)
      /\ MessageInv(h) /\ NoSnapshots /\ NoSnapshots' /\ HistoryInv(h)
      /\ NextInLog /\ MatchAcked(h) /\ CommitsKnown(h) /\ AppliedKnown(h)
  BY HistoryParts DEF StepFrom
<1>2. PICK T, K, e : T = currentTerm[i] /\ K = log[i] /\ e = [term |-> T, command |-> command]
  OBVIOUS
<1>3. T \in Nat /\ e \in LogEntry /\ e.term = T
  BY <1>1, <1>2 DEF TypeOK, LogEntry
<1>4. K \in Seq(LogEntry) /\ Len(K) \in Nat
  BY <1>1, <1>2, ServerTypes
<1>5. PICK L : L = Append(K, e)
  OBVIOUS
<1>6. /\ L \in Seq(LogEntry) /\ Len(L) = Len(K) + 1 /\ Len(L) \in Nat /\ L[Len(K) + 1] = e
      /\ \A q \in 1..Len(K) : L[q] = K[q]
  BY <1>3, <1>4, <1>5, AppendProperties
<1>7. /\ state[i] = Leader /\ log'[i] = L /\ \A k \in Server \ {i} : log'[k] = log[k]
      /\ state' = state /\ currentTerm' = currentTerm /\ votedFor' = votedFor
      /\ nextIndex' = nextIndex /\ matchIndex' = matchIndex
      /\ commitIndex' = commitIndex /\ applied' = applied
      /\ heartbeats' = heartbeats /\ requests' = requests /\ replies' = replies
  BY <1>1, <1>2, <1>5 DEF Start, TypeOK, electionVars, leaderVars, serviceVars, netVars
<1>8. h.lead[T] = i /\ Led(h, T) /\ h.llog[T] = K /\ h.acked[i][T] = Len(K)
  <2>1. h.lead[T] = i
    BY <1>1, <1>2, <1>7 DEF ElectionInv, LeadersLead
  <2> QED
    BY <1>1, <1>2, <1>7, <2>1, ServerAssumption DEF Led, LogInv, ServerLogs, MatchAcked
<1>9. PICK g \in History : Grows(h, g, i, T, L, Len(L))
  BY <1>1, <1>3, <1>6, GrowHistory
<1>10. Extends(h, g)
  <2>1. Agree(h.llog[T], L, Len(h.llog[T]))
    BY <1>4, <1>6, <1>8 DEF Agree
  <2>2. \A k \in Len(h.llog[T]) + 1 .. Len(L) : L[k].term = T
    BY <1>3, <1>4, <1>6, <1>8
  <2>3. h.acked[i][T] <= Len(L)
    BY <1>4, <1>6, <1>8
  <2> QED
    BY <1>1, <1>3, <1>6, <1>9, <2>1, <2>2, <2>3, GrowExtends
<1>11. g.llog[T] = L /\ g.acked[i][T] = Len(L)
  BY <1>3, <1>9 DEF Grows
<1>12. \A q \in 1..Len(L) : L[q].term <= T
  <2>1. \A q \in 1..Len(K) : K[q].term <= T
    BY <1>1, <1>2 DEF LogInv, ServerLogs
  <2> QED
    BY <1>3, <1>4, <1>6, <2>1
<1>13. Sound(L, g)
  <2>1. Sound(K, g)
    BY <1>1, <1>2, <1>4, <1>10, ExtendsSound DEF LogInv, ServerLogs
  <2> SUFFICES ASSUME NEW q \in 1..Len(L)
               PROVE  q <= Len(g.llog[L[q].term]) /\ \A k \in 1..q : L[k] = g.llog[L[q].term][k]
    BY DEF Sound
  <2>2. CASE q \in 1..Len(K)
    <3>1. q <= Len(g.llog[K[q].term]) /\ \A k \in 1..q : K[k] = g.llog[K[q].term][k]
      BY <2>1, <2>2 DEF Sound
    <3>2. L[q] = K[q] /\ \A k \in 1..q : L[k] = K[k]
      BY <1>4, <1>6, <2>2
    <3> QED
      BY <3>1, <3>2
  <2>3. CASE q = Len(K) + 1
    <3>1. L[q].term = T
      BY <1>3, <1>6, <2>3
    <3> QED
      BY <1>6, <1>11, <2>3, <3>1
  <2> QED
    BY <1>4, <1>6, <2>2, <2>3
<1>14. \A k \in Server \ {i} : state[k] = Leader => currentTerm[k] \in Nat \ {T}
  <2>1. \A k \in Server : state[k] = Leader => h.lead[currentTerm[k]] = k
    BY <1>1 DEF ElectionInv, LeadersLead
  <2>2. \A k \in Server : currentTerm[k] \in Nat
    BY <1>1 DEF TypeOK
  <2> QED
    BY <1>8, <2>1, <2>2
<1>15. \A k \in Server : state'[k] = Leader => log'[k] = g.llog[currentTerm'[k]]
  <2> SUFFICES ASSUME NEW k \in Server, state[k] = Leader PROVE log'[k] = g.llog[currentTerm[k]]
    BY <1>7
  <2>1. CASE k = i
    BY <1>2, <1>7, <1>11, <2>1
  <2>2. CASE k # i
    <3>1. log[k] = h.llog[currentTerm[k]]
      BY <1>1 DEF LogInv, ServerLogs
    <3>2. g.llog[currentTerm[k]] = h.llog[currentTerm[k]]
      BY <1>9, <1>14, <2>2 DEF Grows
    <3> QED
      BY <1>7, <2>2, <3>1, <3>2
  <2> QED
    BY <2>1, <2>2
<1>16. ASSUME NEW t \in Nat \ {T}, NEW q \in 1..h.acked[i][t], Accepted(h, i, q, t)
       PROVE  Has(L, q, t) \/ Overruled(h, q, t, T)
  <2>1. Has(K, q, t) \/ Overruled(h, q, t, T)
    BY <1>1, <1>2, <1>16 DEF AckInv, Held
  <2>2. Has(K, q, t) => Has(L, q, t)
    <3>1. q \in Nat \ {0}
      BY <1>1, VoterTypes
    <3> QED
      BY <1>4, <1>6, <3>1 DEF Has
  <2> QED
    BY <2>1, <2>2
<1>17. ElectionInv(g)' /\ LogInv(g)' /\ AckInv(g)'
  <2>1. NoNewVote
    BY <1>7 DEF NoNewVote
  <2>2. state'[i] # Candidate
    BY <1>7 DEF Leader, Candidate
  <2>3. Agree(L, log'[i], Len(L))
    BY <1>6, <1>7 DEF Agree
  <2>4. /\ T = currentTerm'[i] /\ \A k \in Server \ {i} : log'[k] = log[k]
        /\ Sound(log'[i], g) /\ \A q \in 1..Len(log'[i]) : log'[i][q].term <= T
    BY <1>2, <1>7, <1>12, <1>13
  <2>5. \A t \in Nat \ {T} : \A q \in 1..h.acked[i][t] :
             Accepted(h, i, q, t) => Has(log'[i], q, t) \/ Overruled(h, q, t, T)
    BY <1>7, <1>16
  <2> QED
    BY <1>3, <1>6, <1>8, <1>9, <1>10, <1>12, <1>13, <1>15, <2>1, <2>2, <2>3, <2>4, <2>5, GrowKeeps
<1>18. MessageInv(g)'
  <2>1. Onward
    BY <1>1, QuietIsForward DEF Forward
  <2>2. \A k \in Server : state'[k] = Candidate => log'[k] = log[k]
    BY <1>7 DEF Leader, Candidate
  <2>3. \A m \in requests' : m.type = "RequestVote" => CandidateKnown(m)'
    BY <1>1, <1>7, <2>1, <2>2, CandidatesKept
  <2> QED
    BY <1>1, <1>7, <1>10, <2>3, MessagesKept
<1>19. NextInLog'
  <2> SUFFICES ASSUME NEW k \in Server, NEW j \in Server, state[k] = Leader
               PROVE  nextIndex[k][j] \in 1..Len(log'[k])
    BY <1>7 DEF NextInLog
  <2>1. nextIndex[k][j] \in 1..Len(log[k])
    BY <1>1 DEF NextInLog
  <2> QED
    BY <1>2, <1>4, <1>6, <1>7, <2>1
<1>20. MatchAcked(g)'
  <2> SUFFICES ASSUME NEW k \in Server, NEW j \in Server, state[k] = Leader
               PROVE  IF j = k THEN g.acked[k][currentTerm[k]] = Len(log'[k])
                      ELSE matchIndex[k][j] > 0 => matchIndex[k][j] < g.acked[j][currentTerm[k]]
    BY <1>7 DEF MatchAcked
  <2>1. IF j = k THEN h.acked[k][currentTerm[k]] = Len(log[k])
        ELSE matchIndex[k][j] > 0 => matchIndex[k][j] < h.acked[j][currentTerm[k]]
    BY <1>1 DEF MatchAcked
  <2>2. CASE j = i /\ k = i
    BY <1>2, <1>7, <1>11, <2>2
  <2>3. CASE ~(j = i /\ k = i)
    <3>1. currentTerm[k] \in Nat /\ (j # i \/ currentTerm[k] # T)
      BY <1>1, <1>14, <2>3 DEF TypeOK
    <3>2. g.acked[j][currentTerm[k]] = h.acked[j][currentTerm[k]]
      BY <1>9, <3>1 DEF Grows
    <3>3. j = k => log'[k] = log[k]
      BY <1>7, <2>3
    <3> QED
      BY <2>1, <3>2, <3>3
  <2> QED
    BY <2>2, <2>3
<1>21. CommitsKnown(g)'
  <2>1. ASSUME commitIndex[i] > 0 PROVE Agree(log[i], log'[i], commitIndex[i] + 1)
    <3>1. commitIndex[i] \in Nat
      BY <1>1 DEF TypeOK
    <3>2. commitIndex[i] \in 1..commitIndex[i]
      BY <2>1, <3>1
    <3>3. commitIndex[i] + 1 <= Len(log[i])
      BY <1>1, <3>2, CommitInLog
    <3> QED
      BY <1>2, <1>4, <1>6, <1>7, <3>1, <3>3 DEF Agree
  <2>2. commitIndex[i] = 0 \/ commitIndex[i] > 0
    BY <1>1 DEF TypeOK
  <2> QED
    BY <1>1, <1>7, <1>10, <2>1, <2>2, CommitsKept
<1>22. AppliedKnown(g)'
  BY <1>1, <1>7, <1>10, AppliedKept
<1> QED
  BY <1>9, <1>17, <1>18, <1>19, <1>20, <1>21, <1>22 DEF HistoryInv, ServerInv

\* Request m has entries that its receiver takes over.
Accepts(m) == m.type = "AppendEntries" /\ m.term >= currentTerm[m.dst] /\ PrevInLog(m.dst, m)

\* What is known of such a request: it is a piece of the log of its term's leader, from
\* a place up to which the receiver's log is the same.
LEMMA AcceptedRequest ==
    ASSUME TypeOK, NoSnapshots, NEW h, HistoryInv(h), NEW m \in requests, Accepts(m)
    PROVE  /\ m.dst \in Server /\ m.src # m.dst /\ h.lead[m.term] = m.src /\ m.src \in Server
           /\ m.term \in Nat /\ Led(h, m.term) /\ currentTerm[m.dst] \in Nat
           /\ m.entries \in Seq(LogEntry) /\ Len(m.entries) \in Nat
           /\ m.prevLogIndex \in Nat /\ m.prevLogIndex + 1 \in 1..Len(log[m.dst])
           /\ PieceOf(m, h.llog[m.term]) /\ CommitSaid(h, m.leaderCommit, m.term)
           /\ m.leaderCommit \in Nat
           /\ Agree(log[m.dst], h.llog[m.term], m.prevLogIndex + 1)
<1>1. m \in AppendEntriesArgs
  BY MessageTypes DEF Accepts
<1>2. /\ m.dst \in Server /\ m.src \in Server /\ m.term \in Nat /\ m.prevLogIndex \in Int
      /\ m.entries \in Seq(LogEntry) /\ m.leaderCommit \in Nat
  BY <1>1 DEF AppendEntriesArgs
<1>3. AppendKnown(h, m) /\ h \in History /\ LogInv(h)
  BY HistoryParts DEF MessageInv, Accepts
<1>4. PICK L, K : L = h.llog[m.term] /\ K = log[m.dst]
  OBVIOUS
<1>5. L \in Seq(LogEntry) /\ Len(L) \in Nat /\ Sound(L, h)
  BY <1>2, <1>3, <1>4, TermTypes DEF LogInv, TermLogs
<1>6. K \in Seq(LogEntry) /\ Len(K) \in Nat /\ Sound(K, h)
  BY <1>2, <1>3, <1>4, ServerTypes DEF LogInv, ServerLogs
<1>7. Len(m.entries) \in Nat
  BY <1>2, LogTypes
<1>8. PICK at : at = m.prevLogIndex + 1
  OBVIOUS
<1>9. at \in 1..Len(K) /\ K[at].term = m.prevLogTerm
  <2>1. snapshotIndex[m.dst] = 0 /\ m.prevLogIndex - 0 = m.prevLogIndex
    BY <1>2 DEF NoSnapshots
  <2>2. 0 <= m.prevLogIndex /\ m.prevLogIndex < Len(K) /\ K[m.prevLogIndex + 1].term = m.prevLogTerm
    BY <1>4, <2>1 DEF Accepts, PrevInLog
  <2> QED
    BY <1>2, <1>6, <1>8, <2>2
<1>10. at \in 1..Len(L) /\ L[at].term = m.prevLogTerm
  <2>1. m.prevLogIndex >= 0 /\ at + Len(m.entries) <= Len(L) /\ L[at].term = m.prevLogTerm
    BY <1>3, <1>4, <1>8 DEF AppendKnown, PieceOf
  <2> QED
    BY <1>2, <1>5, <1>7, <1>8, <2>1
<1>11. Agree(K, L, at)
  BY <1>5, <1>6, <1>9, <1>10, SoundAgree
<1>12. m.prevLogIndex \in Nat
  BY <1>2, <1>8, <1>9
<1>13. currentTerm[m.dst] \in Nat /\ Led(h, m.term)
  BY <1>2, <1>3, ServerAssumption DEF TypeOK, Led, AppendKnown
<1> QED
  BY <1>2, <1>3, <1>4, <1>7, <1>8, <1>9, <1>11, <1>12, <1>13 DEF AppendKnown

\* Up to where two logs agree, they agree.
LEMMA AgreeLess ==
    ASSUME NEW L, NEW M, Len(L) \in Nat, Len(M) \in Nat, NEW n \in Nat, NEW k \in Nat, k <= n,
           Agree(L, M, n)
    PROVE  Agree(L, M, k) /\ Agree(M, L, k)
  BY DEF Agree

\* What the entry loop leaves, for logs that a history explains.
LEMMA MergeSound ==
    ASSUME NEW h, NEW K \in Seq(LogEntry) \ {<<>>}, NEW L \in Seq(LogEntry), Sound(K, h), Sound(L, h),
           NEW at \in 1..Len(K), NEW es \in Seq(LogEntry), Agree(K, L, at), at + Len(es) <= Len(L),
           \A k \in 1..Len(es) : es[k] = L[at + k]
    PROVE  \/ Merge(K, at, es) = K /\ Agree(K, L, at + Len(es))
           \/ /\ Len(Merge(K, at, es)) = at + Len(es) /\ Agree(Merge(K, at, es), L, at + Len(es))
              /\ \A n \in 1..Len(L) : Agree(K, L, n) => n <= Len(Merge(K, at, es))
<1>1. Len(K) \in Nat /\ Len(L) \in Nat
  BY LogTypes
<1>2. ASSUME NEW q \in 1..Len(K), q <= Len(L), K[q].term = L[q].term PROVE K[q] = L[q]
  <2>1. q \in 1..Len(L) /\ q \in 1..q
    BY <1>1, <1>2
  <2>2. Agree(K, L, q)
    BY <1>1, <1>2, <2>1, SoundAgree
  <2> QED
    BY <2>1, <2>2 DEF Agree
<1>3. \A q \in 1..Len(K) : q <= Len(L) /\ K[q].term = L[q].term => K[q] = L[q]
  BY <1>2
<1> QED
  BY <1>3, MergeResult

\* The log after the entry loop agrees with the leader's log as far as the request
\* goes, and as far as the old log did.
LEMMA AcceptedLog ==
    ASSUME TypeOK, NoSnapshots, NEW h, HistoryInv(h), NEW m \in requests, Accepts(m), NEW L, NEW K, NEW M
    PROVE  L = h.llog[m.term] /\ K = log[m.dst] /\ M = Merge(K, m.prevLogIndex + 1, m.entries) =>
           /\ M \in Seq(LogEntry) /\ Len(M) \in Nat
           /\ M = K \/ Agree(M, L, Len(M))
           /\ Agree(M, L, m.prevLogIndex + 1 + Len(m.entries))
           /\ \A x \in 1..Len(L) : Agree(K, L, x) => Agree(M, L, x)
<1>0. HAVE L = h.llog[m.term] /\ K = log[m.dst] /\ M = Merge(K, m.prevLogIndex + 1, m.entries)
<1>1. /\ m.dst \in Server /\ m.term \in Nat /\ m.entries \in Seq(LogEntry) /\ Len(m.entries) \in Nat
      /\ m.prevLogIndex + 1 \in 1..Len(K) /\ PieceOf(m, L) /\ Agree(K, L, m.prevLogIndex + 1)
  BY <1>0, AcceptedRequest
<1>2. h \in History /\ LogInv(h)
  BY HistoryParts
<1>3. L \in Seq(LogEntry) /\ Len(L) \in Nat /\ Sound(L, h)
  BY <1>0, <1>1, <1>2, TermTypes DEF LogInv, TermLogs
<1>4. K \in Seq(LogEntry) /\ Len(K) \in Nat /\ Sound(K, h) /\ K # <<>>
  <2>1. K \in Seq(LogEntry) /\ Len(K) \in Nat /\ Len(K) > 0
    BY <1>0, <1>1, ServerTypes
  <2>2. Sound(K, h)
    BY <1>0, <1>1, <1>2 DEF LogInv, ServerLogs
  <2> QED
    BY <2>1, <2>2, EmptySeq
<1>5. PICK at, es : at = m.prevLogIndex + 1 /\ es = m.entries
  OBVIOUS
<1>6. /\ at \in 1..Len(K) /\ es \in Seq(LogEntry) /\ Agree(K, L, at) /\ at + Len(es) <= Len(L)
      /\ \A k \in 1..Len(es) : es[k] = L[at + k]
  BY <1>1, <1>5 DEF PieceOf
<1>7. M = Merge(K, at, es)
  BY <1>0, <1>5
<1>8. K \in Seq(LogEntry) \ {<<>>}
  BY <1>4
<1>9. \/ M = K /\ Agree(K, L, at + Len(es))
      \/ /\ Len(M) = at + Len(es) /\ Agree(M, L, at + Len(es))
         /\ \A n \in 1..Len(L) : Agree(K, L, n) => n <= Len(M)
  <2>1. \/ Merge(K, at, es) = K /\ Agree(K, L, at + Len(es))
        \/ /\ Len(Merge(K, at, es)) = at + Len(es) /\ Agree(Merge(K, at, es), L, at + Len(es))
           /\ \A n \in 1..Len(L) : Agree(K, L, n) => n <= Len(Merge(K, at, es))
    BY <1>3, <1>4, <1>6, <1>8, MergeSound
  <2> QED
    BY <1>7, <2>1
<1>10. M \in Seq(LogEntry)
  BY <1>6, <1>7, <1>8, MergeType
<1>11. Len(M) \in Nat
  BY <1>10, LogTypes
<1>12. ASSUME NEW x \in 1..Len(L), Agree(K, L, x) PROVE Agree(M, L, x)
  <2>1. CASE M = K
    BY <1>12, <2>1
  <2>2. CASE Len(M) = at + Len(es) /\ Agree(M, L, Len(M)) /\ x <= Len(M)
    BY <1>3, <1>11, <2>2, AgreeLess
  <2> QED
    BY <1>9, <1>12, <2>1, <2>2
<1> QED
  BY <1>5, <1>9, <1>10, <1>11, <1>12

\* What the receiver has committed survives the entry loop: the leader has it too.
LEMMA AcceptKeepsCommits ==
    ASSUME TypeOK, NoSnapshots, NEW h, HistoryInv(h), NEW m \in requests, Accepts(m),
           commitIndex[m.dst] > 0
    PROVE  Agree(log[m.dst], Merge(log[m.dst], m.prevLogIndex + 1, m.entries), commitIndex[m.dst] + 1)
<1>1. PICK L, K, M, c : /\ L = h.llog[m.term] /\ K = log[m.dst] /\ c = commitIndex[m.dst] + 1
                        /\ M = Merge(K, m.prevLogIndex + 1, m.entries)
  OBVIOUS
<1>2. m.dst \in Server /\ m.term \in Nat /\ Led(h, m.term) /\ currentTerm[m.dst] \in Nat
  BY AcceptedRequest
<1>3. c \in Nat \ {0}
  BY <1>1, <1>2 DEF TypeOK
<1>4. CommittedIn(h, K, c, currentTerm[m.dst])
  BY <1>1, <1>2, HistoryParts DEF CommitsKnown
<1>5. Agree(K, L, c)
  BY <1>1, <1>2, <1>3, <1>4, LaterLeaderAgrees DEF Accepts
<1>6. Len(L) \in Nat /\ Len(K) \in Nat /\ Len(M) \in Nat
  BY <1>1, <1>2, TermTypes, ServerTypes, AcceptedLog DEF HistoryInv
<1>7. c \in 1..Len(L)
  BY <1>3, <1>5, <1>6 DEF Agree
<1>8. Agree(M, L, c)
  BY <1>1, <1>5, <1>7, AcceptedLog
<1> QED
  BY <1>1, <1>3, <1>5, <1>6, <1>8 DEF Agree

\* What is committed is committed up to every earlier position.
LEMMA CommittedLess ==
    ASSUME NEW h, HistoryInv(h), NEW L, NEW n \in Nat \ {0}, NEW u \in Nat, CommittedIn(h, L, n, u),
           NEW k \in Nat \ {0}, k <= n
    PROVE  CommittedIn(h, L, k, u)
<1>1. PICK t \in Nat, q \in Nat \ {0} :
             /\ t <= u /\ n <= q /\ Committed(h, q, t) /\ q <= Len(h.llog[t])
             /\ Agree(L, h.llog[t], n)
  BY CommitWitness
<1>2. t \in 0..u /\ Len(h.llog[t]) \in Nat /\ h \in History
  BY <1>1, TermTypes DEF HistoryInv
<1>3. q \in k..Len(h.llog[t]) /\ k <= Len(L) /\ \A x \in 1..k : L[x] = h.llog[t][x]
  BY <1>1, <1>2 DEF Agree
<1> QED
  BY <1>1, <1>2, <1>3 DEF CommittedIn

\* AppendEntries accepted: the follower has the log of the term as far as the request
\* goes, keeps what it committed, and commits what the leader has committed.
LEMMA HistoryAccept ==
    ASSUME NEW h, StepFrom(h), Quiet, NEW m \in requests, AppendEntries(m), Accepts(m)
    PROVE  \E g : HistoryInv(g)'
<1>1. /\ h \in History /\ TypeOK /\ TypeOK' /\ VoteStep /\ ElectionInv(h) /\ LogInv(h) /\ AckInv(h)
      /\ MessageInv(h) /\ NoSnapshots /\ NoSnapshots' /\ HistoryInv(h)
      /\ NextInLog /\ MatchAcked(h) /\ CommitsKnown(h) /\ AppliedKnown(h)
  BY HistoryParts DEF StepFrom
<1>2. PICK v, T, L, K, M : /\ v = m.dst /\ T = m.term /\ L = h.llog[T] /\ K = log[v]
                           /\ M = Merge(K, m.prevLogIndex + 1, m.entries)
  OBVIOUS
<1>3. /\ v \in Server /\ m.src # v /\ h.lead[T] = m.src /\ T \in Nat /\ Led(h, T)
      /\ currentTerm[v] \in Nat /\ currentTerm[v] <= T
      /\ Len(m.entries) \in Nat /\ m.prevLogIndex \in Nat
      /\ PieceOf(m, L) /\ CommitSaid(h, m.leaderCommit, T) /\ m.leaderCommit \in Nat
  BY <1>1, <1>2, AcceptedRequest DEF Accepts
<1>4. PICK E : E = m.prevLogIndex + 1 + Len(m.entries)
  OBVIOUS
<1>5. E \in Nat \ {0} /\ E <= Len(L)
  <2>1. E <= Len(L)
    BY <1>3, <1>4 DEF PieceOf
  <2> QED
    BY <1>3, <1>4, <2>1
<1>6. /\ M \in Seq(LogEntry) /\ Len(M) \in Nat /\ (M = K \/ Agree(M, L, Len(M))) /\ Agree(M, L, E)
      /\ \A x \in 1..Len(L) : Agree(K, L, x) => Agree(M, L, x)
  <2>1. L = h.llog[m.term] /\ K = log[m.dst] /\ M = Merge(K, m.prevLogIndex + 1, m.entries)
    BY <1>2
  <2> QED
    BY <1>1, <1>4, <2>1, AcceptedLog
<1>7. /\ L \in Seq(LogEntry) /\ Len(L) \in Nat /\ Sound(L, h)
      /\ \A q \in 1..Len(L) : L[q].term <= T
  BY <1>1, <1>2, <1>3, TermTypes DEF LogInv, TermLogs
<1>8. /\ K \in Seq(LogEntry) /\ Len(K) \in Nat /\ Sound(K, h)
      /\ \A q \in 1..Len(K) : K[q].term <= currentTerm[v] /\ K[q].term \in Nat
  BY <1>1, <1>2, <1>3, ServerTypes DEF LogInv, ServerLogs
<1>9. FollowLeader(v, T) /\ log' = [log EXCEPT ![v] = M] /\ UNCHANGED <<leaderVars, applied, heartbeats>>
      /\ commitIndex' = [commitIndex EXCEPT ![v] = CommitAfter(v, m)]
  <2>1. snapshotIndex[v] = 0 /\ m.prevLogIndex - 0 + 1 = m.prevLogIndex + 1 /\ ~(T < currentTerm[v])
    BY <1>1, <1>3 DEF NoSnapshots
  <2>2. m.term >= currentTerm[m.dst] /\ PrevInLog(m.dst, m)
    BY DEF Accepts
  <2>3. /\ FollowLeader(v, T)
        /\ log' = [log EXCEPT ![v] = Merge(@, m.prevLogIndex - snapshotIndex[v] + 1, m.entries)]
        /\ commitIndex' = [commitIndex EXCEPT ![v] = CommitAfter(v, m)]
    BY <1>2, <2>1, <2>2 DEF AppendEntries
  <2> QED
    BY <1>2, <2>1, <2>3 DEF AppendEntries
<1>10. /\ log'[v] = M /\ \A k \in Server \ {v} : log'[k] = log[k]
       /\ \A k \in Server \ {v} : currentTerm'[k] = currentTerm[k] /\ state'[k] = state[k]
       /\ currentTerm'[v] = T /\ state'[v] = Follower
       /\ nextIndex' = nextIndex /\ matchIndex' = matchIndex /\ applied' = applied
       /\ heartbeats' = heartbeats
       /\ commitIndex'[v] = CommitAfter(v, m) /\ \A k \in Server \ {v} : commitIndex'[k] = commitIndex[k]
  <2>1. TermAfter(v, T) = T
    <3>1. TermAfter(v, T) = IF T > currentTerm[v] THEN T ELSE currentTerm[v]
      BY <1>1, <1>3, TermAfterType
    <3> QED
      BY <1>3, <3>1
  <2>2. /\ currentTerm' = [currentTerm EXCEPT ![v] = T] /\ state' = [state EXCEPT ![v] = Follower]
    BY <1>9, <2>1 DEF FollowLeader
  <2>3. /\ currentTerm'[v] = T /\ state'[v] = Follower
        /\ \A k \in Server \ {v} : currentTerm'[k] = currentTerm[k] /\ state'[k] = state[k]
    BY <1>1, <1>3, <2>2 DEF TypeOK
  <2>4. log'[v] = M /\ \A k \in Server \ {v} : log'[k] = log[k]
    BY <1>1, <1>3, <1>9 DEF TypeOK
  <2>5. commitIndex'[v] = CommitAfter(v, m) /\ \A k \in Server \ {v} : commitIndex'[k] = commitIndex[k]
    BY <1>1, <1>3, <1>9 DEF TypeOK
  <2> QED
    BY <1>9, <2>3, <2>4, <2>5 DEF leaderVars
<1>11. NoNewVote
  BY <1>1, <1>3, <1>9, FollowLeaderNoVote
<1>12. PICK a : a = h.acked[v][T]
  OBVIOUS
<1>13. a \in Nat /\ a <= Len(L) /\ (a > 0 => Agree(M, L, a))
  <2>1. a \in Nat /\ a <= Len(L) /\ (a > 0 => T <= currentTerm[v])
    BY <1>1, <1>2, <1>3, <1>12, VoterTypes DEF AckInv, AckedBound
  <2>2. ASSUME a > 0 PROVE Agree(K, L, a)
    <3>1. T = currentTerm[v]
      BY <1>3, <2>1, <2>2
    <3>2. \A q \in 1..a : q <= Len(K) /\ K[q] = L[q]
      BY <1>1, <1>2, <1>3, <1>12, <3>1 DEF AckInv, AckedInTerm
    <3>3. a \in 1..a
      BY <2>1, <2>2
    <3> QED
      BY <2>1, <3>2, <3>3 DEF Agree
  <2>3. a > 0 => a \in 1..Len(L)
    BY <1>7, <2>1
  <2> QED
    BY <1>6, <2>1, <2>2, <2>3
<1>14. PICK n : n = IF a <= E THEN E ELSE a
  OBVIOUS
<1>15. n \in Nat /\ a <= n /\ E <= n /\ Agree(L, M, n)
  <2>1. n \in Nat /\ a <= n /\ E <= n /\ (n = E \/ (n = a /\ a > 0))
    BY <1>5, <1>13, <1>14
  <2>2. Agree(M, L, n)
    BY <1>6, <1>13, <2>1
  <2> QED
    BY <2>1, <2>2 DEF Agree
<1>16. PICK g \in History : Grows(h, g, v, T, L, n)
  BY <1>1, <1>3, <1>7, <1>15, GrowHistory
<1>17. g.llog[T] = L /\ g.acked[v][T] = n /\ \A t \in Nat : g.llog[t] = h.llog[t]
  BY <1>2, <1>3, <1>16 DEF Grows
<1>18. Extends(h, g)
  <2>1. Agree(h.llog[T], L, Len(h.llog[T]))
    BY <1>2, <1>7 DEF Agree
  <2>2. \A k \in Len(h.llog[T]) + 1 .. Len(L) : L[k].term = T
    BY <1>2, <1>7
  <2> QED
    BY <1>1, <1>3, <1>7, <1>12, <1>15, <1>16, <2>1, <2>2, GrowExtends
<1>19. Sound(L, g)
  BY <1>1, <1>7, <1>18, ExtendsSound
<1>20. Sound(M, g) /\ \A q \in 1..Len(M) : M[q].term <= T
  <2>1. CASE M = K
    <3>1. Sound(K, g)
      BY <1>1, <1>8, <1>18, ExtendsSound
    <3>2. \A q \in 1..Len(K) : K[q].term <= T
      BY <1>3, <1>8
    <3> QED
      BY <2>1, <3>1, <3>2
  <2>2. CASE Agree(M, L, Len(M))
    <3>1. \A q \in 1..Len(M) : q \in 1..Len(L) /\ M[q] = L[q] /\ \A k \in 1..q : M[k] = L[k]
      BY <1>6, <1>7, <2>2 DEF Agree
    <3>2. \A q \in 1..Len(M) : M[q].term <= T
      BY <1>7, <3>1
    <3> QED
      BY <1>19, <3>1, <3>2, SMTT(30) DEF Sound
  <2> QED
    BY <1>6, <2>1, <2>2
<1>21. \A k \in Server : state'[k] = Leader =>
         /\ k # v /\ state[k] = Leader /\ currentTerm'[k] = currentTerm[k] /\ log'[k] = log[k]
         /\ log[k] = h.llog[currentTerm[k]] /\ currentTerm[k] \in Nat
  <2> SUFFICES ASSUME NEW k \in Server, state'[k] = Leader
               PROVE  /\ k # v /\ state[k] = Leader /\ currentTerm'[k] = currentTerm[k] /\ log'[k] = log[k]
                      /\ log[k] = h.llog[currentTerm[k]] /\ currentTerm[k] \in Nat
    OBVIOUS
  <2>1. k # v
    BY <1>10 DEF Leader, Follower
  <2>2. state[k] = Leader /\ currentTerm'[k] = currentTerm[k] /\ log'[k] = log[k]
    BY <1>10, <2>1
  <2>3. log[k] = h.llog[currentTerm[k]]
    BY <1>1, <2>2 DEF LogInv, ServerLogs
  <2>4. currentTerm[k] \in Nat
    BY <1>1 DEF TypeOK
  <2> QED
    BY <2>1, <2>2, <2>3, <2>4
<1>22. ASSUME NEW t \in Nat \ {T}, NEW q \in 1..h.acked[v][t], Accepted(h, v, q, t)
       PROVE  Has(M, q, t) \/ Overruled(h, q, t, T)
  <2>1. h.acked[v][t] \in Nat /\ q \in Nat \ {0} /\ h.acked[v][t] > 0
    BY <1>1, <1>3, VoterTypes
  <2>2. t <= currentTerm[v]
    BY <1>1, <1>3, <2>1 DEF AckInv, AckedBound
  <2>3. T \in t + 1 .. T
    BY <1>3, <2>2
  <2>4. Has(K, q, t) \/ Overruled(h, q, t, currentTerm[v])
    BY <1>1, <1>2, <1>3, <1>22 DEF AckInv, Held
  <2>5. CASE Has(K, q, t)
    <3>1. CASE Has(L, q, t)
      <4>1. q \in 1..Len(L) /\ q \in 1..Len(K) /\ K[q].term = L[q].term /\ L[q].term = t
        BY <1>7, <1>8, <2>1, <2>5, <3>1 DEF Has
      <4>2. Agree(K, L, q)
        BY <1>7, <1>8, <4>1, SoundAgree
      <4>3. Agree(M, L, q)
        BY <1>6, <4>1, <4>2
      <4> QED
        BY <2>1, <4>1, <4>3 DEF Agree, Has
    <3>2. CASE ~Has(L, q, t)
      BY <1>2, <1>3, <2>3, <3>2 DEF Overruled
    <3> QED
      BY <3>1, <3>2
  <2>6. CASE Overruled(h, q, t, currentTerm[v])
    <3>1. Extends(h, h)
      BY <1>1, ExtendsSelf
    <3> QED
      BY <1>1, <1>3, <2>1, <2>6, <3>1, ExtendsOverruled
  <2> QED
    BY <2>4, <2>5, <2>6
<1>23. ElectionInv(g)' /\ LogInv(g)' /\ AckInv(g)'
  <2>1. state'[v] # Candidate
    BY <1>10 DEF Follower, Candidate
  <2>2. \A k \in Server : state'[k] = Leader => log'[k] = g.llog[currentTerm'[k]]
    BY <1>17, <1>21
  <2>3. /\ T = currentTerm'[v] /\ \A k \in Server \ {v} : log'[k] = log[k]
        /\ Sound(log'[v], g) /\ \A q \in 1..Len(log'[v]) : log'[v][q].term <= T
        /\ Agree(L, log'[v], n)
    BY <1>10, <1>15, <1>20
  <2>4. \A t \in Nat \ {T} : \A q \in 1..h.acked[v][t] :
             Accepted(h, v, q, t) => Has(log'[v], q, t) \/ Overruled(h, q, t, T)
    BY <1>10, <1>22
  <2> QED
    BY <1>3, <1>7, <1>11, <1>15, <1>16, <1>18, <1>19, <2>1, <2>2, <2>3, <2>4, GrowKeeps
<1>24. MessageInv(g)'
  <2>1. PICK r : /\ Reply(m, r) /\ r.args = m /\ r.success
    <3>1. m.term >= currentTerm[m.dst] /\ PrevInLog(m.dst, m) /\ ~(m.term < currentTerm[m.dst])
      BY <1>2, <1>3 DEF Accepts
    <3>2. Reply(m, [type |-> "AppendEntries", args |-> m, term |-> currentTerm[m.dst], success |-> TRUE,
                    xTerm |-> 0, xIndex |-> 0, xLen |-> 0])
      BY <3>1 DEF AppendEntries
    <3> QED
      BY <3>2
  <2>2. requests' \subseteq requests /\ replies' \subseteq replies \cup {r}
    BY <2>1 DEF Reply
  <2>3. ReplyKnown(g, r)
    <3>1. NewMatch(r) = E - 1
      BY <1>3, <1>4, <2>1, SMTT(30) DEF NewMatch
    <3>2. NewMatch(r) >= 0 /\ NewMatch(r) < n
      BY <1>5, <1>15, <3>1
    <3>3. g.acked[r.args.dst][r.args.term] = n /\ r.args.src # r.args.dst
      BY <1>2, <1>3, <1>17, <2>1
    <3> QED
      BY <2>1, <3>2, <3>3 DEF ReplyKnown
  <2>4. Onward
    BY <1>1, QuietIsForward DEF Forward
  <2>5. \A k \in Server : state'[k] = Candidate => log'[k] = log[k]
    BY <1>10 DEF Follower, Candidate
  <2>6. \A x \in requests' : x.type = "RequestVote" => CandidateKnown(x)'
    BY <1>1, <2>2, <2>4, <2>5, CandidatesKept
  <2> QED
    BY <1>1, <1>10, <1>18, <2>2, <2>3, <2>6, MessagesKept
<1>25. NextInLog'
  BY <1>1, <1>10, <1>21 DEF NextInLog
<1>26. MatchAcked(g)'
  <2> SUFFICES ASSUME NEW k \in Server, NEW j \in Server, state'[k] = Leader
               PROVE  IF j = k THEN g.acked[k][currentTerm'[k]] = Len(log'[k])
                      ELSE matchIndex[k][j] > 0 => matchIndex[k][j] < g.acked[j][currentTerm'[k]]
    BY <1>10 DEF MatchAcked
  <2>1. /\ k # v /\ state[k] = Leader /\ currentTerm'[k] = currentTerm[k] /\ log'[k] = log[k]
        /\ currentTerm[k] \in Nat
    BY <1>21
  <2>2. IF j = k THEN h.acked[k][currentTerm[k]] = Len(log[k])
        ELSE matchIndex[k][j] > 0 => matchIndex[k][j] < h.acked[j][currentTerm[k]]
    BY <1>1, <2>1 DEF MatchAcked
  <2>3. CASE j = k
    BY <1>16, <2>1, <2>2, <2>3 DEF Grows
  <2>4. CASE j # k
    <3>1. /\ h.acked[j][currentTerm[k]] <= g.acked[j][currentTerm[k]]
          /\ h.acked[j][currentTerm[k]] \in Nat /\ g.acked[j][currentTerm[k]] \in Nat
      BY <1>1, <1>18, <2>1, VoterTypes DEF Extends
    <3>2. matchIndex[k][j] \in Int
      BY <1>1 DEF TypeOK
    <3> QED
      BY <2>1, <2>2, <2>4, <3>1, <3>2
  <2> QED
    BY <2>3, <2>4
<1>27. CommitsKnown(g)'
  <2>1. PICK c : c = CommitAfter(v, m)
    OBVIOUS
  <2>2. commitIndex[v] \in Nat
    BY <1>1, <1>3 DEF TypeOK
  <2>3. \/ c = 0
        \/ CommittedIn(g, M, c + 1, T)
        \/ c = commitIndex[v] /\ Agree(K, M, commitIndex[v] + 1)
    <3>1. CASE m.leaderCommit > commitIndex[v]
      <4>1. c = Min({m.prevLogIndex + Len(m.entries), m.leaderCommit})
        BY <2>1, <3>1 DEF CommitAfter
      <4>2. c \in Nat /\ c + 1 <= E /\ c <= m.leaderCommit
        <5>1. PICK a1, b1 : a1 = m.prevLogIndex + Len(m.entries) /\ b1 = m.leaderCommit
          OBVIOUS
        <5>2. a1 \in Int /\ b1 \in Int /\ a1 \in Nat /\ b1 \in Nat /\ E = a1 + 1
          BY <1>3, <1>4, <5>1, SMTT(30)
        <5>3. c = Min({a1, b1})
          BY <4>1, <5>1
        <5>4. c = IF a1 =< b1 THEN a1 ELSE b1
          BY <5>2, <5>3, MinPair
        <5> QED
          BY <5>1, <5>2, <5>4
      <4>3. ASSUME c # 0 PROVE CommittedIn(g, M, c + 1, T)
        <5>1. CommittedIn(h, L, m.leaderCommit + 1, T) /\ m.leaderCommit + 1 \in Nat \ {0}
          BY <1>2, <1>3, <2>2, <3>1 DEF CommitSaid
        <5>2. c + 1 \in Nat \ {0} /\ c + 1 <= m.leaderCommit + 1
          BY <1>3, <4>2
        <5>3. CommittedIn(h, L, c + 1, T)
          BY <1>1, <1>3, <5>1, <5>2, CommittedLess
        <5>4. Agree(L, M, c + 1)
          BY <1>5, <1>6, <1>7, <4>2, <5>2, AgreeLess
        <5>5. T <= T
          BY <1>3
        <5> QED
          BY <1>1, <1>3, <1>16, <1>18, <5>2, <5>3, <5>4, <5>5, ExtendsCommittedIn
      <4> QED
        BY <4>3
    <3>2. CASE ~(m.leaderCommit > commitIndex[v])
      <4>1. c = commitIndex[v]
        BY <2>1, <3>2 DEF CommitAfter
      <4>2. c > 0 => Agree(K, M, commitIndex[v] + 1)
        BY <1>1, <1>2, <4>1, AcceptKeepsCommits
      <4> QED
        BY <2>2, <4>1, <4>2
    <3> QED
      BY <3>1, <3>2
  <2>4. \A k \in Server :
             \/ commitIndex'[k] = 0
             \/ CommittedIn(g, log'[k], commitIndex'[k] + 1, currentTerm'[k])
             \/ commitIndex'[k] = commitIndex[k] /\ log'[k] = log[k]
             \/ commitIndex'[k] = commitIndex[k] /\ Agree(log[k], log'[k], commitIndex[k] + 1)
    <3> SUFFICES ASSUME NEW k \in Server
                 PROVE  \/ commitIndex'[k] = 0
                        \/ CommittedIn(g, log'[k], commitIndex'[k] + 1, currentTerm'[k])
                        \/ commitIndex'[k] = commitIndex[k] /\ log'[k] = log[k]
                        \/ commitIndex'[k] = commitIndex[k] /\ Agree(log[k], log'[k], commitIndex[k] + 1)
      OBVIOUS
    <3>1. CASE k = v
      <4>1. commitIndex'[k] = c /\ log'[k] = M /\ currentTerm'[k] = T /\ log[k] = K
        BY <1>2, <1>10, <2>1, <3>1
      <4> QED
        BY <2>3, <3>1, <4>1
    <3>2. CASE k # v
      BY <1>10, <3>2
    <3> QED
      BY <3>1, <3>2
  <2> QED
    BY <1>1, <1>18, <2>4, CommitsKept
<1>28. AppliedKnown(g)'
  BY <1>1, <1>10, <1>18, AppliedKept
<1> QED
  BY <1>16, <1>23, <1>24, <1>25, <1>26, <1>27, <1>28 DEF HistoryInv, ServerInv

-----------------------------------------------------------------------------
(* A service that takes no snapshots *)

\* The disk of i holds the whole log, with no snapshot before it.
SavedWhole(i) ==
    /\ snapshotIndex[i] = 0 /\ persister[i].snapshotIndex = 0
    /\ persister[i].snapshot = <<>> /\ persister[i].log = log[i]

\* A step that touches neither logs nor disks.
LEMMA UntouchedWhole ==
    ASSUME NoSnapshots, UNCHANGED <<log, snapshotIndex, persister>>
    PROVE  \A i \in Server : SavedWhole(i)'
  BY DEF NoSnapshots, SavedWhole

\* persist() saves the log as it is by then.
LEMMA PersistWhole ==
    ASSUME TypeOK, NoSnapshots, NEW i \in Server, persist(i), snapshotIndex' = snapshotIndex,
           \A k \in Server \ {i} : log'[k] = log[k]
    PROVE  \A k \in Server : SavedWhole(k)'
<1>1. persister' = [persister EXCEPT ![i] =
        [currentTerm |-> currentTerm'[i], votedFor |-> votedFor'[i], log |-> log'[i],
         snapshotIndex |-> snapshotIndex'[i], snapshotTerm |-> snapshotTerm'[i],
         snapshot |-> persister[i].snapshot]]
  BY DEF persist, SaveState
<1>2. /\ persister'[i].log = log'[i] /\ persister'[i].snapshotIndex = snapshotIndex[i]
      /\ persister'[i].snapshot = persister[i].snapshot
  BY <1>1 DEF TypeOK
<1>3. \A k \in Server \ {i} : persister'[k] = persister[k]
  BY <1>1 DEF TypeOK
<1>4. SavedWhole(i)'
  BY <1>2 DEF NoSnapshots, SavedWhole
<1> QED
  BY <1>3, <1>4 DEF NoSnapshots, SavedWhole

\* The entry loop of a heartbeat without entries changes nothing, so that
\* AppendEntries need not save the log.
LEMMA MergeNothing ==
    ASSUME NEW lg \in Seq(LogEntry), NEW at \in 1..Len(lg)
    PROVE  Merge(lg, at, <<>>) = lg
<1>1. Len(lg) \in Nat /\ Len(<<>>) = 0
  BY LogTypes
<1> DEFINE differ == {k \in 1..Len(<<>>) : at + k <= Len(lg) /\ lg[at + k].term # <<>>[k].term}
           keep == IF differ = {} THEN Len(lg) ELSE at + Min(differ) - 1
<1>2. differ = {}
  BY <1>1
<1>3. keep = Len(lg)
  BY <1>2
<1>4. Merge(lg, at, <<>>) = SubSeq(lg, 1, keep) \o SubSeq(<<>>, keep - at + 1, Len(<<>>))
  BY DEF Merge
<1> HIDE DEF keep
<1>5. SubSeq(<<>>, keep - at + 1, Len(<<>>)) = <<>>
  BY <1>1, <1>3, SubSeqEmpty
<1>6. SubSeq(lg, 1, keep) = lg
  <2>1. \A n \in 1..keep : lg[n] \in LogEntry
    BY <1>1, <1>3, LogTypes
  <2>2. PICK s : s = SubSeq(lg, 1, keep)
    OBVIOUS
  <2>3. /\ s \in Seq(LogEntry) /\ Len(s) = IF 1 <= keep THEN keep - 1 + 1 ELSE 0
        /\ \A k \in 1..(keep - 1 + 1) : s[k] = lg[1 + k - 1]
    BY <1>1, <1>3, <2>1, <2>2, SubSeqProperties
  <2>4. Len(s) = Len(lg) /\ \A k \in 1..Len(lg) : s[k] = lg[k]
    BY <1>1, <1>3, <2>3
  <2> QED
    BY <2>2, <2>3, <2>4, SeqEqual
<1> QED
  BY <1>4, <1>5, <1>6, ConcatEmptySeq

\* AppendEntries leaves the disk with the whole log.
LEMMA AppendWhole ==
    ASSUME TypeOK, NoSnapshots, NEW m \in requests, AppendEntries(m)
    PROVE  \A k \in Server : SavedWhole(k)'
<1>1. m \in AppendEntriesArgs
  BY MessageTypes DEF AppendEntries
<1>2. m.dst \in Server /\ m.prevLogIndex \in Int /\ m.entries \in Seq(LogEntry)
  BY <1>1 DEF AppendEntriesArgs
<1>3. CASE UNCHANGED logVars
  <2>1. UNCHANGED <<log, snapshotIndex, persister>> \/ (persist(m.dst) /\ UNCHANGED <<log, snapshotIndex>>)
    BY <1>3 DEF AppendEntries, logVars
  <2> QED
    BY <1>2, <2>1, UntouchedWhole, PersistWhole
<1>4. CASE /\ PrevInLog(m.dst, m) /\ snapshotIndex' = snapshotIndex
           /\ log' = [log EXCEPT ![m.dst] = Merge(@, m.prevLogIndex - snapshotIndex[m.dst] + 1, m.entries)]
           /\ persist(m.dst) \/ (m.entries = <<>> /\ UNCHANGED persister)
  <2>1. CASE persist(m.dst)
    <3>1. \A k \in Server \ {m.dst} : log'[k] = log[k]
      BY <1>2, <1>4 DEF TypeOK
    <3> QED
      BY <1>2, <1>4, <2>1, <3>1, PersistWhole
  <2>2. CASE m.entries = <<>> /\ UNCHANGED persister
    <3>1. PICK at : at = m.prevLogIndex - snapshotIndex[m.dst] + 1
      OBVIOUS
    <3>2. log[m.dst] \in Seq(LogEntry) /\ Len(log[m.dst]) \in Nat
      BY <1>2, ServerTypes
    <3>3. at \in 1..Len(log[m.dst])
      <4>1. 0 <= m.prevLogIndex - snapshotIndex[m.dst] /\ m.prevLogIndex - snapshotIndex[m.dst] < Len(log[m.dst])
        BY <1>4 DEF PrevInLog
      <4>2. snapshotIndex[m.dst] \in Nat
        BY <1>2 DEF TypeOK
      <4> QED
        BY <1>2, <3>1, <3>2, <4>1, <4>2
    <3>4. Merge(log[m.dst], at, m.entries) = log[m.dst]
      BY <2>2, <3>2, <3>3, MergeNothing
    <3>5. log' = log
      BY <1>2, <1>4, <3>1, <3>4 DEF TypeOK
    <3> QED
      BY <1>4, <2>2, <3>5, UntouchedWhole
  <2> QED
    BY <1>4, <2>1, <2>2
<1> QED
  BY <1>3, <1>4 DEF AppendEntries

\* Restart brings the whole log back.
LEMMA RestartWhole ==
    ASSUME TypeOK, NoSnapshots, NEW i \in Server, Restart(i)
    PROVE  \A k \in Server : SavedWhole(k)'
<1>1. /\ log' = [log EXCEPT ![i] = persister[i].log] /\ persister' = persister
      /\ snapshotIndex' = [snapshotIndex EXCEPT ![i] = persister[i].snapshotIndex]
  BY DEF Restart
<1>2. log'[i] = persister[i].log /\ snapshotIndex'[i] = persister[i].snapshotIndex
  BY <1>1 DEF TypeOK
<1>3. \A k \in Server \ {i} : log'[k] = log[k] /\ snapshotIndex'[k] = snapshotIndex[k]
  BY <1>1 DEF TypeOK
<1>4. \A k \in Server : log'[k] = log[k] /\ snapshotIndex'[k] = 0
  BY <1>2, <1>3 DEF NoSnapshots
<1> QED
  BY <1>1, <1>4 DEF NoSnapshots, SavedWhole

\* No message carries a snapshot, either.
LEMMA PlainMessages ==
    ASSUME SnapshotAt = {}, TypeOK, NoSnapshots, [Next]_vars
    PROVE  /\ \A hb \in heartbeats' : hb.snapshot = <<>>
           /\ \A m \in requests' : m.type # "InstallSnapshot"
           /\ \A r \in replies' : r.type # "InstallSnapshot"
<1>1. ASSUME NEW i \in Server,
             \/ updateCommitIndex(i) \/ applyCommitted(i) \/ Restart(i)
             \/ \E command \in Command : Start(i, command)
      PROVE  heartbeats' \subseteq heartbeats /\ requests' = requests /\ replies' \subseteq replies
  BY <1>1 DEF updateCommitIndex, applyCommitted, Restart, Start, netVars
<1>2. ASSUME NEW i \in Server, startElection(i)
      PROVE  /\ heartbeats' = heartbeats /\ replies' = replies
             /\ \A m \in requests' : m \in requests \/ m.type = "RequestVote"
  BY <1>2 DEF startElection, Send
<1>3. ASSUME NEW i \in Server, sendHeartbeats(i)
      PROVE  /\ requests' = requests /\ replies' = replies
             /\ \A hb \in heartbeats' : hb \in heartbeats \/ hb.snapshot = persister[i].snapshot
  BY <1>3 DEF sendHeartbeats
<1>4. ASSUME NEW hb \in heartbeats, heartbeatStale(hb) \/ heartbeatSend(hb)
      PROVE  /\ heartbeats' \subseteq heartbeats /\ replies' = replies
             /\ \A m \in requests' : m \in requests \/ m.type = "AppendEntries"
  <2>1. ~NeedsSnapshot(hb)
    BY DEF NoSnapshots, NeedsSnapshot
  <2>2. AppendArgs(hb).type = "AppendEntries"
    BY DEF AppendArgs
  <2>3. CASE heartbeatStale(hb)
    BY <2>3 DEF heartbeatStale
  <2>4. CASE heartbeatSend(hb)
    BY <2>1, <2>2, <2>4 DEF heartbeatSend, GoroutineRuns
  <2> QED
    BY <1>4, <2>3, <2>4
<1>5. ASSUME NEW m \in requests, RequestVote(m) \/ AppendEntries(m) \/ InstallSnapshot(m)
      PROVE  /\ heartbeats' = heartbeats /\ requests' \subseteq requests
             /\ \A r \in replies' : r \in replies \/ r.type # "InstallSnapshot"
  <2>1. ~InstallSnapshot(m)
    BY DEF NoSnapshots, InstallSnapshot
  <2>2. CASE RequestVote(m)
    BY <2>2 DEF RequestVote, Reply
  <2>3. CASE AppendEntries(m)
    BY <2>3 DEF AppendEntries, Reply
  <2> QED
    BY <1>5, <2>1, <2>2, <2>3
<1>6. ASSUME NEW r \in replies, requestVoteReply(r) \/ appendEntriesReply(r) \/ installSnapshotReply(r)
      PROVE  heartbeats' = heartbeats /\ requests' = requests /\ replies' \subseteq replies
  BY <1>6 DEF requestVoteReply, appendEntriesReply, installSnapshotReply
<1>7. CASE UNCHANGED vars
  BY <1>7 DEF vars, netVars, NoSnapshots
<1>8. CASE Next
  BY <1>1, <1>2, <1>3, <1>4, <1>5, <1>6, <1>8 DEF Next, NoSnapshots
<1> QED
  BY <1>7, <1>8

\* A service that takes no snapshots never meets one.
LEMMA PlainNext ==
    ASSUME SnapshotAt = {}, TypeOK, NoSnapshots, [Next]_vars
    PROVE  NoSnapshots'
<1>1. \A k \in Server : SavedWhole(k)'
  <2>1. ASSUME NEW i \in Server,
               sendHeartbeats(i) \/ updateCommitIndex(i) \/ applyCommitted(i)
        PROVE  UNCHANGED <<log, snapshotIndex, persister>>
    BY <2>1 DEF sendHeartbeats, updateCommitIndex, applyCommitted, logVars
  <2>2. ASSUME NEW i \in Server, startElection(i) \/ \E command \in Command : Start(i, command)
        PROVE  persist(i) /\ snapshotIndex' = snapshotIndex /\ \A k \in Server \ {i} : log'[k] = log[k]
    BY <2>2 DEF startElection, Start, logVars, TypeOK
  <2>3. ASSUME NEW hb \in heartbeats, heartbeatStale(hb) \/ heartbeatSend(hb)
        PROVE  UNCHANGED <<log, snapshotIndex, persister>>
    BY <2>3 DEF heartbeatStale, heartbeatSend, logVars
  <2>4. ASSUME NEW m \in requests, RequestVote(m)
        PROVE  \A k \in Server : SavedWhole(k)'
    <3>1. m.dst \in Server
      BY <2>4, MessageTypes DEF RequestVote, RequestVoteArgs
    <3>2. UNCHANGED <<log, snapshotIndex>> /\ (UNCHANGED persister \/ persist(m.dst))
      BY <2>4 DEF RequestVote, logVars
    <3> QED
      BY <3>1, <3>2, UntouchedWhole, PersistWhole
  <2>5. ASSUME NEW r \in replies, requestVoteReply(r) \/ appendEntriesReply(r)
        PROVE  \A k \in Server : SavedWhole(k)'
    <3>1. r.args.src \in Server
      BY <2>5, MessageTypes DEF requestVoteReply, appendEntriesReply, RequestVoteReply,
         RequestVoteArgs, AppendEntriesReply, AppendEntriesArgs
    <3>2. UNCHANGED <<log, snapshotIndex>> /\ (UNCHANGED persister \/ persist(r.args.src))
      BY <2>5 DEF requestVoteReply, appendEntriesReply, logVars, StepDown
    <3> QED
      BY <3>1, <3>2, UntouchedWhole, PersistWhole
  <2>6. \A m \in requests : ~InstallSnapshot(m)
    BY DEF NoSnapshots, InstallSnapshot
  <2>7. \A r \in replies : ~installSnapshotReply(r)
    BY DEF NoSnapshots, installSnapshotReply
  <2>8. CASE UNCHANGED vars
    BY <2>8, UntouchedWhole DEF vars, logVars
  <2>9. CASE Next
    BY <2>1, <2>2, <2>3, <2>4, <2>5, <2>6, <2>7, <2>9, UntouchedWhole, PersistWhole, AppendWhole,
       RestartWhole DEF Next
  <2> QED
    BY <2>8, <2>9
<1> QED
  BY <1>1, PlainMessages DEF NoSnapshots, SavedWhole

-----------------------------------------------------------------------------
(* Every step *)

\* requestVoteReply, in all its outcomes.
LEMMA HistoryRequestVoteReply ==
    ASSUME NEW h, StepFrom(h), NEW r \in replies, requestVoteReply(r)
    PROVE  \E g : HistoryInv(g)'
<1>1. TypeOK /\ r.args.src \in Server /\ r.args.dst \in Server /\ r.term \in Nat
  BY MessageTypes DEF StepFrom, requestVoteReply, RequestVoteReply, RequestVoteArgs
<1>2. /\ heartbeats' = heartbeats /\ requests' = requests /\ replies' \subseteq replies
      /\ UNCHANGED serviceVars
  BY DEF requestVoteReply
<1>3. CASE UNCHANGED <<electionVars, logVars, leaderVars>>
  <2>1. Calm
    BY <1>2, <1>3 DEF Calm, Quiet, NoNewVote, Granted, electionVars, logVars
  <2>2. UNCHANGED <<leaderVars, serviceVars>>
    BY <1>2, <1>3
  <2> QED
    BY <1>2, <2>1, <2>2, HistoryFewerMessages
<1>4. CASE StepDown(r.args.src, r.term) /\ UNCHANGED leaderVars
  <2>1. Quiet
    BY <1>1, <1>2, <1>4, StepDownIsQuiet DEF Quiet, Granted
  <2>2. Calm
    BY <1>1, <1>4, <2>1, StepDownNoVote DEF Calm
  <2>3. UNCHANGED <<leaderVars, serviceVars>>
    BY <1>2, <1>4
  <2> QED
    BY <1>2, <2>2, <2>3, HistoryFewerMessages
<1>5. CASE /\ Awaited(r, Candidate) /\ UNCHANGED <<state, currentTerm, votedFor, logVars, leaderVars>>
           /\ votes' = [votes EXCEPT ![r.args.src] = IF r.voteGranted THEN @ \cup {r.args.dst} ELSE @]
  BY <1>5, HistoryCount
<1>6. CASE /\ Awaited(r, Candidate) /\ UNCHANGED <<currentTerm, votedFor, logVars>>
           /\ votes' = [votes EXCEPT ![r.args.src] = IF r.voteGranted THEN @ \cup {r.args.dst} ELSE @]
           /\ r.voteGranted /\ IsMajority(Cardinality(votes'[r.args.src])) /\ BecomeLeader(r.args.src)
  BY <1>6, HistoryWin
<1> QED
  BY <1>3, <1>4, <1>5, <1>6 DEF requestVoteReply

\* Every step has a history that explains the new state.
LEMMA HistoryNext ==
    ASSUME SnapshotAt = {}, LogSafety, [Next]_vars
    PROVE  LogSafety'
<1>1. PICK h : HistoryInv(h)
  BY DEF LogSafety
<1>2. TypeOK /\ VoteInv /\ NoSnapshots /\ DiskInSync
  BY DEF LogSafety, VoteInv
<1>3. TypeOK' /\ VoteInv' /\ NoSnapshots' /\ VoteStep
  BY <1>2, TypeNext, VoteNext, PlainNext, VotesStepInSync DEF VoteInv
<1>4. StepFrom(h)
  BY <1>1, <1>2, <1>3 DEF StepFrom
<1>5. \E g : HistoryInv(g)'
  <2>1. CASE \E i \in Server : startElection(i)
    BY <1>4, <2>1, HistoryStartElection
  <2>2. CASE \E m \in requests : RequestVote(m)
    BY <1>4, <2>2, HistoryRequestVote
  <2>3. CASE \E r \in replies : requestVoteReply(r)
    BY <1>4, <2>3, HistoryRequestVoteReply
  <2>4. CASE /\ ~\E i \in Server : startElection(i)
             /\ ~\E m \in requests : RequestVote(m)
             /\ ~\E r \in replies : requestVoteReply(r)
    <3>1. Quiet
      BY <1>2, <2>4, OthersAreQuiet
    <3>2. ASSUME UNCHANGED <<electionVars, logVars, leaderVars, serviceVars>>,
                 heartbeats' \subseteq heartbeats, requests' \subseteq requests, replies' \subseteq replies
          PROVE  HistoryInv(h)'
      <4>1. Calm
        BY <3>1, <3>2 DEF Calm, NoNewVote, electionVars, logVars
      <4>2. UNCHANGED <<leaderVars, serviceVars>>
        BY <3>2
      <4> QED
        BY <1>4, <3>2, <4>1, <4>2, HistoryFewerMessages
    <3>3. CASE UNCHANGED vars
      <4>1. UNCHANGED <<electionVars, logVars, leaderVars, serviceVars>>
        BY <3>3 DEF vars
      <4>2. heartbeats' = heartbeats /\ requests' = requests /\ replies' = replies
        BY <3>3 DEF vars, netVars
      <4> QED
        BY <3>2, <4>1, <4>2
    <3>4. ASSUME NEW i \in Server,
                 \/ sendHeartbeats(i) \/ updateCommitIndex(i) \/ applyCommitted(i) \/ Restart(i)
          PROVE  HistoryInv(h)'
      BY <1>2, <1>4, <3>1, <3>4, HistorySendHeartbeats, HistoryUpdateCommitIndex,
         HistoryApplyCommitted, HistoryRestart
    <3>5. ASSUME NEW i \in Server, NEW command \in Command, Start(i, command)
          PROVE  \E g : HistoryInv(g)'
      BY <1>4, <3>1, <3>5, HistoryStart
    <3>6. ASSUME NEW hb \in heartbeats, heartbeatStale(hb) PROVE HistoryInv(h)'
      BY <3>2, <3>6 DEF heartbeatStale
    <3>7. ASSUME NEW hb \in heartbeats, heartbeatSend(hb) PROVE HistoryInv(h)'
      BY <1>4, <3>1, <3>7, HistoryHeartbeatSend
    <3>8. ASSUME NEW m \in requests, AppendEntries(m) PROVE \E g : HistoryInv(g)'
      <4>1. CASE m.term >= currentTerm[m.dst] /\ PrevInLog(m.dst, m)
        <5>1. Accepts(m)
          BY <3>8, <4>1 DEF Accepts, AppendEntries
        <5> QED
          BY <1>4, <3>1, <3>8, <5>1, HistoryAccept
      <4>2. CASE ~(m.term >= currentTerm[m.dst] /\ PrevInLog(m.dst, m))
        BY <1>4, <3>1, <3>8, <4>2, HistoryRefuse
      <4> QED
        BY <4>1, <4>2
    <3>9. \A m \in requests : ~InstallSnapshot(m)
      BY <1>2 DEF NoSnapshots, InstallSnapshot
    <3>10. \A r \in replies : ~installSnapshotReply(r)
      BY <1>2 DEF NoSnapshots, installSnapshotReply
    <3>11. ASSUME NEW r \in replies, appendEntriesReply(r) PROVE HistoryInv(h)'
      BY <1>4, <3>1, <3>11, HistoryAppendEntriesReply
    <3>12. CASE Next
      <4>1. \/ \E i \in Server : sendHeartbeats(i) \/ updateCommitIndex(i) \/ applyCommitted(i) \/ Restart(i)
            \/ \E i \in Server : \E command \in Command : Start(i, command)
            \/ \E hb \in heartbeats : heartbeatStale(hb) \/ heartbeatSend(hb)
            \/ \E m \in requests : AppendEntries(m)
            \/ \E r \in replies : appendEntriesReply(r)
        BY <2>4, <3>9, <3>10, <3>12 DEF Next
      <4> QED
        BY <3>4, <3>5, <3>6, <3>7, <3>8, <3>11, <4>1
    <3> QED
      BY <3>3, <3>12
  <2> QED
    BY <2>1, <2>2, <2>3, <2>4
<1> QED
  BY <1>3, <1>5 DEF LogSafety

\* At the start there is a history without elections.
LEMMA HistoryInit == Init => LogSafety
<1> SUFFICES ASSUME Init PROVE LogSafety
  OBVIOUS
<1>1. TypeOK /\ VoteInv
  BY TypeInit, VoteInit
<1>2. NoSnapshots
  BY DEF Init, NoSnapshots
<1> DEFINE llog == [t \in Nat |-> IF t = 0 THEN <<Dummy(0)>> ELSE <<>>]
           h == [llog |-> llog, lead |-> [t \in Nat |-> None], voters |-> [t \in Nat |-> {}],
                 cast |-> [v \in Server |-> [t \in Nat |-> None]],
                 acked |-> [v \in Server |-> [t \in Nat |-> 0]]]
<1>3. h \in History
  <2>1. <<Dummy(0)>> \in Seq(LogEntry) /\ <<>> \in Seq(LogEntry)
    BY DummyType
  <2>2. llog \in [Nat -> Seq(LogEntry)]
    BY <2>1
  <2> QED
    BY <2>2 DEF History
<1>4. /\ h.llog[0] = <<Dummy(0)>> /\ \A t \in Nat \ {0} : h.llog[t] = <<>>
      /\ \A t \in Nat : h.lead[t] = None /\ ~Led(h, t)
      /\ \A v \in Server, t \in Nat : h.cast[v][t] = None /\ h.acked[v][t] = 0
  BY DEF Led
<1> HIDE DEF h
<1>5. /\ \A i \in Server : /\ state[i] = Follower /\ currentTerm[i] = 0 /\ votedFor[i] = None
                           /\ log[i] = <<Dummy(0)>> /\ commitIndex[i] = 0 /\ applied[i] = <<>>
      /\ heartbeats = {} /\ requests = {} /\ replies = {}
  BY DEF Init
<1>6. ElectionInv(h)
  BY <1>4, <1>5, ServerAssumption DEF ElectionInv, CastNow, CastInTerm, VotesCast, GrantedCast,
     Granted, LeadersElected, LeadersLead, Campaigning, Follower, Candidate, Leader
<1>7. Len(<<Dummy(0)>>) = 1 /\ <<Dummy(0)>>[1].term = 0
  BY DEF Dummy
<1>8. Sound(<<Dummy(0)>>, h) /\ Sound(<<>>, h)
  <2>1. PICK L : L = <<Dummy(0)>>
    OBVIOUS
  <2>2. Len(L) = 1 /\ L[1].term = 0 /\ h.llog[0] = L
    BY <1>4, <1>7, <2>1
  <2>3. Sound(L, h)
    <3> SUFFICES ASSUME NEW q \in 1..Len(L)
                 PROVE  q <= Len(h.llog[L[q].term]) /\ \A k \in 1..q : L[k] = h.llog[L[q].term][k]
      BY DEF Sound
    <3>1. q = 1
      BY <2>2
    <3>2. h.llog[L[q].term] = L
      BY <2>2, <3>1
    <3>3. \A k \in 1..q : L[k] = h.llog[L[q].term][k]
      BY <3>2
    <3>4. q <= Len(L)
      OBVIOUS
    <3> QED
      BY <3>2, <3>3, <3>4, Zenon
  <2>4. Sound(<<>>, h)
    BY DEF Sound
  <2> QED
    BY <2>1, <2>3, <2>4
<1>9. LogInv(h)
  <2>1. TermLogs(h)
    BY <1>4, <1>7, <1>8 DEF TermLogs
  <2>2. ServerLogs(h)
    BY <1>5, <1>7, <1>8 DEF ServerLogs, Follower, Leader
  <2> QED
    BY <2>1, <2>2 DEF LogInv
<1>10. AckInv(h)
  <2>1. \A t \in Nat : Len(h.llog[t]) \in Nat
    BY <1>3, TermTypes
  <2>2. AckedBound(h)
    BY <1>4, <2>1 DEF AckedBound
  <2>3. AckedInTerm(h) /\ Held(h)
    BY <1>4, <1>5 DEF AckedInTerm, Held
  <2>4. CandidatesHold(h) /\ LeadersHold(h)
    BY <1>4, <1>5 DEF CandidatesHold, LeadersHold, Follower, Candidate
  <2> QED
    BY <2>2, <2>3, <2>4 DEF AckInv
<1>11. MessageInv(h)
  BY <1>5 DEF MessageInv
<1>12. ServerInv(h)
  BY <1>5 DEF ServerInv, NextInLog, MatchAcked, CommitsKnown, AppliedKnown, Follower, Leader
<1>13. HistoryInv(h)
  BY <1>3, <1>6, <1>9, <1>10, <1>11, <1>12 DEF HistoryInv
<1> QED
  BY <1>1, <1>2, <1>13 DEF LogSafety

\* No step touches what a server has committed: a log changes where the leader appends,
\* and where a follower takes over entries that the leader, too, has behind them.
LEMMA CommitsStay ==
    ASSUME SnapshotAt = {}, LogSafety, [Next]_vars, NEW i \in Server, commitIndex[i] > 0
    PROVE  Agree(log[i], log'[i], commitIndex[i] + 1)
<1>1. PICK h : HistoryInv(h)
  BY DEF LogSafety
<1>2. TypeOK /\ VoteInv /\ NoSnapshots /\ \A k \in Server : persister[k].log = log[k]
  BY DEF LogSafety, NoSnapshots
<1>3. /\ commitIndex[i] \in Nat /\ log[i] \in Seq(LogEntry) /\ Len(log[i]) \in Nat
      /\ commitIndex[i] + 1 <= Len(log[i])
  <2>1. commitIndex[i] \in Nat
    BY <1>2 DEF TypeOK
  <2>2. commitIndex[i] \in 1..commitIndex[i]
    BY <2>1
  <2> QED
    BY <1>1, <1>2, <2>1, <2>2, CommitInLog, ServerTypes
<1>4. CASE log'[i] = log[i]
  BY <1>3, <1>4 DEF Agree
<1>5. ASSUME NEW k \in Server, NEW command \in Command, Start(k, command)
      PROVE  Agree(log[i], log'[i], commitIndex[i] + 1)
  <2>1. log' = [log EXCEPT ![k] = Append(@, [term |-> currentTerm[k], command |-> command])]
    BY <1>5 DEF Start
  <2>2. CASE k # i
    BY <1>2, <1>4, <2>1, <2>2 DEF TypeOK
  <2>3. CASE k = i
    <3>1. PICK e : e = [term |-> currentTerm[i], command |-> command]
      OBVIOUS
    <3>2. e \in LogEntry
      BY <1>2, <3>1 DEF TypeOK, LogEntry
    <3>3. log'[i] = Append(log[i], e)
      BY <1>2, <2>1, <2>3, <3>1 DEF TypeOK
    <3>4. Len(log'[i]) = Len(log[i]) + 1 /\ \A q \in 1..Len(log[i]) : log'[i][q] = log[i][q]
      BY <1>3, <3>2, <3>3, AppendProperties
    <3> QED
      BY <1>3, <3>4 DEF Agree
  <2> QED
    BY <2>2, <2>3
<1>6. ASSUME NEW m \in requests, AppendEntries(m)
      PROVE  Agree(log[i], log'[i], commitIndex[i] + 1)
  <2>1. CASE log' = log
    BY <1>4, <2>1
  <2>2. CASE /\ m.term >= currentTerm[m.dst] /\ PrevInLog(m.dst, m)
             /\ log' = [log EXCEPT ![m.dst] = Merge(@, m.prevLogIndex - snapshotIndex[m.dst] + 1, m.entries)]
    <3>1. Accepts(m)
      BY <1>6, <2>2 DEF Accepts, AppendEntries
    <3>2. m.dst \in Server /\ m.prevLogIndex \in Nat
      BY <1>1, <1>2, <3>1, AcceptedRequest
    <3>3. snapshotIndex[m.dst] = 0 /\ m.prevLogIndex - 0 + 1 = m.prevLogIndex + 1
      BY <1>2, <3>2 DEF NoSnapshots
    <3>4. log' = [log EXCEPT ![m.dst] = Merge(log[m.dst], m.prevLogIndex + 1, m.entries)]
      BY <2>2, <3>3
    <3>5. CASE m.dst # i
      BY <1>2, <1>4, <3>4, <3>5 DEF TypeOK
    <3>6. CASE m.dst = i
      <4>1. log'[i] = Merge(log[i], m.prevLogIndex + 1, m.entries)
        BY <1>2, <3>2, <3>4, <3>6 DEF TypeOK
      <4> QED
        BY <1>1, <1>2, <3>1, <3>6, <4>1, AcceptKeepsCommits
    <3> QED
      BY <3>5, <3>6
  <2> QED
    BY <1>6, <2>1, <2>2 DEF AppendEntries, logVars
<1>7. ASSUME NEW k \in Server,
             \/ startElection(k) \/ sendHeartbeats(k) \/ updateCommitIndex(k) \/ applyCommitted(k)
      PROVE  log' = log
  BY <1>7 DEF startElection, sendHeartbeats, updateCommitIndex, applyCommitted, logVars
<1>8. ASSUME NEW k \in Server, Restart(k) PROVE log'[i] = log[i]
  BY <1>2, <1>8 DEF Restart, TypeOK
<1>9. ASSUME NEW hb \in heartbeats, heartbeatStale(hb) \/ heartbeatSend(hb) PROVE log' = log
  BY <1>9 DEF heartbeatStale, heartbeatSend, logVars
<1>10. ASSUME NEW m \in requests, RequestVote(m) PROVE log' = log
  BY <1>10 DEF RequestVote, logVars
<1>11. \A m \in requests : ~InstallSnapshot(m)
  BY <1>2 DEF NoSnapshots, InstallSnapshot
<1>12. ASSUME NEW r \in replies, requestVoteReply(r) \/ appendEntriesReply(r) \/ installSnapshotReply(r)
       PROVE  log' = log
  BY <1>12 DEF requestVoteReply, appendEntriesReply, installSnapshotReply, StepDown, logVars
<1>13. CASE UNCHANGED vars
  BY <1>4, <1>13 DEF vars, logVars
<1>14. CASE Next
  BY <1>4, <1>5, <1>6, <1>7, <1>8, <1>9, <1>10, <1>11, <1>12, <1>14 DEF Next
<1> QED
  BY <1>13, <1>14

\* The same for what is on disk.
LEMMA CommitsStaySaved ==
    ASSUME SnapshotAt = {}, LogSafety, [Next]_vars
    PROVE  \A i \in Server : \A n \in 1..commitIndex[i] :
             n <= SavedLast(i)' /\ SavedEntry(i, n)' = SavedEntry(i, n)
<1> SUFFICES ASSUME NEW i \in Server, NEW n \in 1..commitIndex[i]
             PROVE  n <= SavedLast(i)' /\ SavedEntry(i, n)' = SavedEntry(i, n)
  OBVIOUS
<1>1. LogSafety'
  BY HistoryNext
<1>2. /\ persister[i].snapshotIndex = 0 /\ persister[i].log = log[i]
      /\ persister'[i].snapshotIndex = 0 /\ persister'[i].log = log'[i]
  BY <1>1 DEF LogSafety, NoSnapshots
<1>3. commitIndex[i] \in Nat
  BY DEF LogSafety, TypeOK
<1>4. TypeOK'
  BY <1>1 DEF LogSafety
<1>5. n \in Nat \ {0} /\ commitIndex[i] > 0 /\ n + 1 \in 1 .. commitIndex[i] + 1 /\ n - 0 + 1 = n + 1
  BY <1>3
<1>6. Agree(log[i], log'[i], commitIndex[i] + 1)
  BY <1>5, CommitsStay
<1>7. log'[i] \in Seq(LogEntry)
  BY <1>4 DEF TypeOK
<1>8. Len(log'[i]) \in Nat
  BY <1>7, LogTypes
<1>9. log'[i][n + 1] = log[i][n + 1] /\ n + 1 <= Len(log'[i])
  BY <1>3, <1>5, <1>6, <1>8 DEF Agree
<1>10. n <= SavedLast(i)'
  BY <1>2, <1>5, <1>8, <1>9 DEF SavedLast
<1>11. SavedEntry(i, n) = log[i][n + 1] /\ SavedEntry(i, n)' = log'[i][n + 1]
  BY <1>2, <1>5 DEF SavedEntry
<1> QED
  BY <1>9, <1>10, <1>11

-----------------------------------------------------------------------------
(* Theorems *)

\* The inductive invariant: at every moment some history explains the state.
THEOREM HistoryExplains ==
    ASSUME SnapshotAt = {} PROVE Spec => []LogSafety
<1>1. LogSafety /\ [Next]_vars => LogSafety'
  BY HistoryNext
<1> QED
  BY <1>1, HistoryInit, PTL DEF Spec

\* Logs that agree on the term of an entry agree on everything before it: AppendEntries
\* (raft.go:324-365) compares the entry at prevLogIndex and cuts at the first conflict.
THEOREM LogsAreMatching ==
    ASSUME SnapshotAt = {} PROVE Spec => []LogMatching
<1>1. LogSafety => LogMatching
  BY LogsMatch DEF LogSafety
<1> QED
  BY <1>1, HistoryExplains, PTL

\* What a leader counts as acknowledged is on the follower's disk: the match index comes
\* from the request that was answered (raft.go:575), however late the answer.
THEOREM MatchesAreStored ==
    ASSUME SnapshotAt = {} PROVE Spec => []MatchIndexIsStored
<1>1. LogSafety => MatchIndexIsStored
  BY MatchesStored DEF LogSafety
<1> QED
  BY <1>1, HistoryExplains, PTL

\* applyCommitted (raft.go:607-618) finds every entry that it is to deliver.
THEOREM NoneIsSkipped ==
    ASSUME SnapshotAt = {} PROVE Spec => []NothingSkipped
<1>1. LogSafety => NothingSkipped
  BY NoneSkipped DEF LogSafety
<1> QED
  BY <1>1, HistoryExplains, PTL

\* What updateCommitIndex (raft.go:633-651) or a follower takes for committed is on the
\* disks of a majority, from then on.
THEOREM CommitsAreDurable ==
    ASSUME SnapshotAt = {} PROVE Spec => []CommittedIsDurable
<1>1. LogSafety => CommittedIsDurable
  BY CommitsDurable DEF LogSafety
<1> QED
  BY <1>1, HistoryExplains, PTL

\* A leader has every committed entry: RequestVote (raft.go:266-272) refuses candidates
\* whose logs are behind, and entries of earlier terms are not committed by counting.
THEOREM LeadersAreComplete ==
    ASSUME SnapshotAt = {} PROVE Spec => []LeaderCompleteness
<1>1. LogSafety => LeaderCompleteness
  BY LeadersHaveCommits DEF LogSafety
<1> QED
  BY <1>1, HistoryExplains, PTL

\* Services never apply different commands at the same index, whatever is lost, delayed
\* or restarted: the promise of applyCh.
THEOREM StateMachinesAreSafe ==
    ASSUME SnapshotAt = {} PROVE Spec => []StateMachineSafety
<1>1. LogSafety => StateMachineSafety
  BY ServicesAgree DEF LogSafety
<1> QED
  BY <1>1, HistoryExplains, PTL

\* No step, a restart included, removes or changes an entry that its server took for
\* committed: the entry loop of AppendEntries (raft.go:355-365) never cuts that deep.
THEOREM CommitsAreKept ==
    ASSUME SnapshotAt = {} PROVE Spec => CommittedIsKept
<1>1. LogSafety /\ [Next]_vars =>
        [\A i \in Server : \A n \in 1..commitIndex[i] :
            n <= SavedLast(i)' /\ SavedEntry(i, n)' = SavedEntry(i, n)]_vars
  BY CommitsStaySaved
<1> QED
  BY <1>1, HistoryExplains, PTL DEF Spec, CommittedIsKept
=============================================================================

-------------------------- MODULE RaftApplyProofs --------------------------
(***************************************************************************)
(* Theorems about the way from Raft's log to the service, for every number *)
(* of InstallSnapshot handlers, every log length and every SnapShotInterval. *)
(***************************************************************************)
EXTENDS RaftApply, TLAPS

-----------------------------------------------------------------------------
(* The inductive invariant *)

Message ==
    [kind : {"none", "command", "snapshot"}, index : Nat, image : [index : Nat, xlog : [Index -> Entry]]]

TypeOK ==
    /\ rf \in [commitIndex : Nat, lastApplied : Nat, snapshotIndex : Nat, lastIndex : Nat]
    /\ image \in [index : Nat, xlog : [Index -> Entry]]
    /\ loop \in [pc : {"sleep", "locked", "send"}, msgs : Seq(Message)]
    /\ hnd \in [Handlers -> [pc : {"idle", "locked", "send"}, msg : Message]]
    /\ svc \in [pc : {"recv", "work", "snapshot"}, msg : Message, lastApplied : Nat, log : [Index -> Entry]]
    /\ lastCmd \in Nat

\* What is in a snapshot is applied, what is applied is committed, and the log has it.
IndicesOrdered ==
    /\ rf.snapshotIndex <= rf.lastApplied
    /\ rf.lastApplied <= rf.commitIndex
    /\ rf.commitIndex <= rf.lastIndex

\* The persister's snapshot is the one Raft counts from: persistWithSnapshot runs in
\* the critical section that sets snapshotIndex.
ImageSaved == image.index = rf.snapshotIndex

\* applyCommitted and InstallSnapshot return only after their last send.
NothingLeft ==
    /\ loop.pc = "sleep" => loop.msgs = <<>>
    /\ \A h \in Handlers : hnd[h].pc = "idle" => hnd[h].msg.index = 0

\* Nothing runs ahead of lastApplied: neither what was sent nor what is about to be.
NothingAhead ==
    /\ lastCmd <= rf.lastApplied
    /\ svc.msg.index <= rf.lastApplied
    /\ \A k \in 1..Len(loop.msgs) : loop.msgs[k].index <= rf.lastApplied
    /\ \A h \in Handlers : hnd[h].msg.index <= rf.lastApplied

ApplyInv ==
    /\ TypeOK /\ IndicesOrdered /\ ImageSaved /\ NothingLeft /\ NothingAhead
    /\ NothingIsLost /\ CommandsComeOnce

-----------------------------------------------------------------------------
(* Types *)

\* The messages that the goroutines make.
LEMMA MessageTypes ==
    /\ NoImage \in [index : Nat, xlog : [Index -> Entry]] /\ NoImage.index = 0
    /\ NoMsg \in Message /\ NoMsg.index = 0
    /\ \A n \in Nat : /\ FullImage(n) \in [index : Nat, xlog : [Index -> Entry]]
                      /\ FullImage(n).index = n
                      /\ CommandMsg(n) \in Message /\ CommandMsg(n).index = n
                      /\ SnapshotMsg(n) \in Message /\ SnapshotMsg(n).index = n
<1>1. NoImage \in [index : Nat, xlog : [Index -> Entry]] /\ NoImage.index = 0
  BY DEF NoImage, EmptyLog, Entry
<1>2. NoMsg \in Message /\ NoMsg.index = 0
  BY <1>1 DEF NoMsg, Message
<1>3. ASSUME NEW n \in Nat
      PROVE  /\ FullImage(n) \in [index : Nat, xlog : [Index -> Entry]]
             /\ FullImage(n).index = n
             /\ CommandMsg(n) \in Message /\ CommandMsg(n).index = n
             /\ SnapshotMsg(n) \in Message /\ SnapshotMsg(n).index = n
  <2>1. FullImage(n) \in [index : Nat, xlog : [Index -> Entry]] /\ FullImage(n).index = n
    BY DEF FullImage, Entry
  <2>2. CommandMsg(n) \in Message /\ CommandMsg(n).index = n
    BY <1>1 DEF CommandMsg, Message
  <2>3. SnapshotMsg(n) \in Message /\ SnapshotMsg(n).index = n
    BY <2>1 DEF SnapshotMsg, Message
  <2> QED
    BY <2>1, <2>2, <2>3
<1> QED
  BY <1>1, <1>2, <1>3

\* The indices that the goroutines hold are natural numbers.
LEMMA IndexTypes ==
    ASSUME TypeOK
    PROVE  /\ rf.commitIndex \in Nat /\ rf.lastApplied \in Nat /\ rf.lastIndex \in Nat
           /\ rf.snapshotIndex \in Nat /\ image.index \in Nat
           /\ svc.msg \in Message /\ svc.msg.index \in Nat /\ lastCmd \in Nat
           /\ loop.msgs \in Seq(Message) /\ Len(loop.msgs) \in Nat
           /\ \A k \in 1..Len(loop.msgs) : loop.msgs[k] \in Message /\ loop.msgs[k].index \in Nat
           /\ \A h \in Handlers : hnd[h].msg \in Message /\ hnd[h].msg.index \in Nat
<1>1. \A m \in Message : m.index \in Nat
  BY DEF Message
<1>2. /\ rf.commitIndex \in Nat /\ rf.lastApplied \in Nat /\ rf.lastIndex \in Nat
      /\ rf.snapshotIndex \in Nat /\ image.index \in Nat /\ lastCmd \in Nat
      /\ svc.msg \in Message /\ loop.msgs \in Seq(Message) /\ \A h \in Handlers : hnd[h].msg \in Message
  BY DEF TypeOK
<1>3. Len(loop.msgs) \in Nat /\ \A k \in 1..Len(loop.msgs) : loop.msgs[k] \in Message
  BY <1>2
<1> QED
  BY <1>1, <1>2, <1>3

\* The larger of two indices.
LEMMA MaxOfBound ==
    ASSUME NEW a \in Nat, NEW b \in Nat
    PROVE  MaxOf(a, b) \in Nat /\ MaxOf(a, b) >= a /\ MaxOf(a, b) >= b /\ MaxOf(a, b) \in {a, b}
  BY DEF MaxOf

\* applyCommitted collects exactly the indices from lastApplied to commitIndex, in
\* their order: none of them is missing from the log.
LEMMA PendingIsAll ==
    ASSUME TypeOK, IndicesOrdered
    PROVE  /\ Pending \in Seq(Message)
           /\ Len(Pending) = rf.commitIndex - rf.lastApplied
           /\ \A k \in 1..Len(Pending) : Pending[k].index = rf.lastApplied + k
<1>1. PICK a, c, s, l : /\ a = rf.lastApplied /\ c = rf.commitIndex
                        /\ s = rf.snapshotIndex /\ l = rf.lastIndex
  OBVIOUS
<1>2. a \in Nat /\ c \in Nat /\ s \in Nat /\ l \in Nat /\ s <= a /\ a <= c /\ c <= l
  BY <1>1 DEF TypeOK, IndicesOrdered
<1>3. MaxOf(a + 1, s) = a + 1
  BY <1>2 DEF MaxOf
<1>4. Pending = [k \in 1..c - a |-> CommandMsg(a + k)]
  <2>1. Pending = [k \in 1..(c - (a + 1) + 1) |-> CommandMsg((a + 1) + k - 1)]
    BY <1>1, <1>2, <1>3 DEF Pending
  <2>2. c - (a + 1) + 1 = c - a /\ \A k \in 1..c - a : (a + 1) + k - 1 = a + k
    BY <1>2
  <2> QED
    BY <2>1, <2>2
<1>5. \A k \in 1..c - a : CommandMsg(a + k) \in Message /\ CommandMsg(a + k).index = a + k
  <2>1. \A k \in 1..c - a : a + k \in Nat
    BY <1>2
  <2> QED
    BY <2>1, MessageTypes
<1>6. c - a \in Nat
  BY <1>2
<1>7. Pending \in Seq(Message) /\ Len(Pending) = c - a
  BY <1>4, <1>5, <1>6
<1>8. \A k \in 1..c - a : Pending[k].index = a + k
  BY <1>4, <1>5
<1> QED
  BY <1>1, <1>7, <1>8

-----------------------------------------------------------------------------
(* Steps of the rest of Raft *)

\* A new leader's entries and commits change nothing below lastApplied.
LEMMA ReplicateKeeps ==
    ASSUME ApplyInv, NEW n \in Index \cup {0}, NEW c \in Index \cup {0}, Replicate(n, c)
    PROVE  ApplyInv'
<1>1. n \in Nat /\ c \in Nat /\ c >= rf.commitIndex /\ c <= n
  BY BoundsAssumption DEF Replicate, Index, ApplyInv, TypeOK
<1>2. /\ rf' \in [commitIndex : Nat, lastApplied : Nat, snapshotIndex : Nat, lastIndex : Nat]
      /\ rf'.lastIndex = n /\ rf'.commitIndex = c
      /\ rf'.lastApplied = rf.lastApplied /\ rf'.snapshotIndex = rf.snapshotIndex
  BY <1>1 DEF Replicate, ApplyInv, TypeOK
<1>3. image' = image /\ loop' = loop /\ hnd' = hnd /\ svc' = svc /\ told' = told /\ lastCmd' = lastCmd
  BY DEF Replicate, history
<1>4. TypeOK'
  BY <1>2, <1>3 DEF ApplyInv, TypeOK
<1>5. IndicesOrdered'
  BY <1>1, <1>2 DEF ApplyInv, TypeOK, IndicesOrdered
<1>6. ImageSaved' /\ NothingLeft' /\ NothingAhead'
  BY <1>2, <1>3 DEF ApplyInv, ImageSaved, NothingLeft, NothingAhead
<1>7. NothingIsLost' /\ CommandsComeOnce'
  BY <1>2, <1>3 DEF ApplyInv, NothingIsLost, CommandsComeOnce, InFlight, SnapshotsInFlight
<1> QED
  BY <1>4, <1>5, <1>6, <1>7 DEF ApplyInv

\* InstallSnapshot raises lastApplied to an index whose snapshot it is about to send.
LEMMA InstallSnapshotKeeps ==
    ASSUME ApplyInv, NEW h \in Handlers, NEW n \in Index, InstallSnapshot(h, n)
    PROVE  ApplyInv'
<1>1. n \in Nat /\ n > rf.snapshotIndex
  BY BoundsAssumption DEF InstallSnapshot, Index
<1>2. /\ rf.commitIndex \in Nat /\ rf.lastApplied \in Nat /\ rf.lastIndex \in Nat
      /\ rf.snapshotIndex \in Nat
  BY DEF ApplyInv, TypeOK
<1>3. /\ rf' \in [commitIndex : Nat, lastApplied : Nat, snapshotIndex : Nat, lastIndex : Nat]
      /\ rf'.lastApplied = MaxOf(rf.lastApplied, n) /\ rf'.snapshotIndex = n
      /\ rf'.commitIndex = MaxOf(rf.commitIndex, n) /\ rf'.lastIndex = MaxOf(rf.lastIndex, n)
  BY <1>1, <1>2, MaxOfBound DEF InstallSnapshot
<1>4. loop' = loop /\ svc' = svc /\ told' = told /\ lastCmd' = lastCmd /\ image' = FullImage(n)
  BY DEF InstallSnapshot, history
<1>5. /\ hnd' = [hnd EXCEPT ![h] = [pc |-> "locked", msg |-> SnapshotMsg(n)]]
      /\ SnapshotMsg(n) \in Message /\ SnapshotMsg(n).index = n /\ hnd[h].pc = "idle"
  BY <1>1, MessageTypes DEF InstallSnapshot
<1>6. TypeOK'
  <2>1. hnd' \in [Handlers -> [pc : {"idle", "locked", "send"}, msg : Message]]
    BY <1>5 DEF ApplyInv, TypeOK
  <2>2. image' \in [index : Nat, xlog : [Index -> Entry]]
    BY <1>1, <1>4, MessageTypes
  <2> QED
    BY <1>3, <1>4, <2>1, <2>2 DEF ApplyInv, TypeOK
<1>7. IndicesOrdered'
  BY <1>1, <1>2, <1>3 DEF ApplyInv, IndicesOrdered, MaxOf
<1>8. ImageSaved'
  BY <1>1, <1>3, <1>4, MessageTypes DEF ImageSaved
<1>9. rf'.lastApplied \in Nat /\ rf'.lastApplied >= rf.lastApplied /\ rf'.lastApplied >= n
  BY <1>1, <1>2, <1>3 DEF MaxOf
<1>10. /\ hnd'[h].msg.index = n /\ hnd'[h].pc = "locked"
       /\ \A g \in Handlers : g # h => hnd'[g] = hnd[g]
  BY <1>5 DEF ApplyInv, TypeOK
<1>11. NothingAhead'
  <2>1. \A g \in Handlers : hnd[g].msg.index \in Nat /\ hnd[g].msg.index <= rf.lastApplied
    BY IndexTypes DEF ApplyInv, NothingAhead
  <2>2. \A g \in Handlers : hnd'[g].msg.index <= rf'.lastApplied
    BY <1>1, <1>2, <1>9, <1>10, <2>1
  <2>3. \A k \in 1..Len(loop.msgs) :
           loop.msgs[k].index \in Nat /\ loop.msgs[k].index <= rf.lastApplied
    BY IndexTypes DEF ApplyInv, NothingAhead
  <2>4. \A k \in 1..Len(loop.msgs) : loop.msgs[k].index <= rf'.lastApplied
    BY <1>2, <1>9, <2>3
  <2>5. lastCmd \in Nat /\ svc.msg.index \in Nat
    BY DEF ApplyInv, TypeOK, Message
  <2> QED
    BY <1>2, <1>4, <1>9, <2>2, <2>4, <2>5 DEF ApplyInv, NothingAhead
<1>12. NothingIsLost'
  <2> SUFFICES ASSUME NEW i \in 1..rf'.lastApplied
               PROVE  i \in told \cup InFlight \cup SnapshotsInFlight'
    BY <1>4 DEF NothingIsLost, InFlight
  <2>1. CASE i <= n
    BY <1>1, <1>10, <2>1 DEF SnapshotsInFlight
  <2>2. CASE i > n
    <3>1. i \in 1..rf.lastApplied
      BY <1>1, <1>2, <1>3, <2>2 DEF MaxOf
    <3>2. i \in told \cup InFlight \cup SnapshotsInFlight
      BY <3>1 DEF ApplyInv, NothingIsLost
    <3>3. ASSUME NEW g \in Handlers, i \in 1..hnd[g].msg.index PROVE i \in SnapshotsInFlight'
      <4>1. hnd[h].msg.index = 0
        BY <1>5 DEF ApplyInv, NothingLeft
      <4>2. g # h
        BY <3>3, <4>1
      <4> QED
        BY <1>10, <3>3, <4>2 DEF SnapshotsInFlight
    <3> QED
      BY <3>2, <3>3 DEF SnapshotsInFlight
  <2> QED
    BY <1>1, <1>9, <2>1, <2>2
<1>13. CommandsComeOnce'
  BY <1>4 DEF ApplyInv, CommandsComeOnce
<1>14. NothingLeft'
  BY <1>4, <1>10 DEF ApplyInv, NothingLeft
<1> QED
  BY <1>6, <1>7, <1>8, <1>11, <1>12, <1>13, <1>14 DEF ApplyInv

\* The handler unlocks and is about to send.
LEMMA UnlockHandlerKeeps ==
    ASSUME ApplyInv, NEW h \in Handlers, UnlockHandler(h)
    PROVE  ApplyInv'
<1>1. /\ rf' = rf /\ image' = image /\ loop' = loop /\ svc' = svc /\ told' = told /\ lastCmd' = lastCmd
      /\ hnd' = [hnd EXCEPT ![h].pc = "send"]
  BY DEF UnlockHandler, history
<1>2. /\ hnd' \in [Handlers -> [pc : {"idle", "locked", "send"}, msg : Message]]
      /\ \A g \in Handlers : hnd'[g].msg = hnd[g].msg
      /\ \A g \in Handlers : hnd'[g].pc = "idle" => hnd[g].pc = "idle"
  BY <1>1 DEF ApplyInv, TypeOK
<1>3. TypeOK'
  BY <1>1, <1>2 DEF ApplyInv, TypeOK
<1>4. IndicesOrdered' /\ ImageSaved' /\ NothingLeft' /\ NothingAhead'
  BY <1>1, <1>2 DEF ApplyInv, IndicesOrdered, ImageSaved, NothingLeft, NothingAhead
<1>5. NothingIsLost' /\ CommandsComeOnce'
  BY <1>1, <1>2 DEF ApplyInv, NothingIsLost, CommandsComeOnce, InFlight, SnapshotsInFlight
<1> QED
  BY <1>3, <1>4, <1>5 DEF ApplyInv

-----------------------------------------------------------------------------
(* Steps of applyCommitted *)

\* The loop collects when it has nothing left to send, and what it collects is above
\* lastApplied, so above every command that it ever sent.
LEMMA CollectKeeps ==
    ASSUME ApplyInv, Collect
    PROVE  ApplyInv'
<1> DEFINE a == rf.lastApplied
           c == rf.commitIndex
<1>1. /\ image' = image /\ hnd' = hnd /\ svc' = svc /\ told' = told /\ lastCmd' = lastCmd
      /\ loop.msgs = <<>> /\ loop' = [pc |-> "locked", msgs |-> Pending]
  BY DEF Collect, history, ApplyInv, NothingLeft
<1>2. /\ rf' \in [commitIndex : Nat, lastApplied : Nat, snapshotIndex : Nat, lastIndex : Nat]
      /\ rf'.lastApplied = c /\ rf'.commitIndex = c
      /\ rf'.snapshotIndex = rf.snapshotIndex /\ rf'.lastIndex = rf.lastIndex
  BY DEF Collect, ApplyInv, TypeOK
<1>3. /\ a \in Nat /\ c \in Nat /\ a < c /\ rf.snapshotIndex \in Nat /\ rf.lastIndex \in Nat
      /\ rf.snapshotIndex <= a /\ c <= rf.lastIndex
  BY IndexTypes DEF Collect, ApplyInv, IndicesOrdered
<1>4. /\ loop'.msgs \in Seq(Message) /\ Len(loop'.msgs) = c - a
      /\ \A k \in 1..Len(loop'.msgs) : loop'.msgs[k].index = a + k
  BY <1>1, PendingIsAll DEF ApplyInv
<1>5. TypeOK'
  BY <1>1, <1>2, <1>4 DEF ApplyInv, TypeOK
<1>6. IndicesOrdered'
  BY <1>2, <1>3 DEF IndicesOrdered
<1>7. ImageSaved' /\ NothingLeft'
  BY <1>1, <1>2 DEF ApplyInv, ImageSaved, NothingLeft
<1>8. lastCmd \in Nat /\ lastCmd <= a /\ svc.msg.index \in Nat /\ svc.msg.index <= a
  BY IndexTypes DEF ApplyInv, NothingAhead
<1>9. NothingAhead'
  <2>1. \A k \in 1..Len(loop'.msgs) : loop'.msgs[k].index <= c
    BY <1>3, <1>4
  <2>2. \A g \in Handlers : hnd[g].msg.index \in Nat /\ hnd[g].msg.index <= a
    BY IndexTypes DEF ApplyInv, NothingAhead
  <2>3. \A g \in Handlers : hnd[g].msg.index <= c
    BY <1>3, <2>2
  <2>4. lastCmd <= c /\ svc.msg.index <= c
    BY <1>3, <1>8
  <2> QED
    BY <1>1, <1>2, <2>1, <2>3, <2>4 DEF NothingAhead
<1>10. NothingIsLost'
  <2> SUFFICES ASSUME NEW i \in 1..c
               PROVE  i \in told \cup InFlight' \cup SnapshotsInFlight
    BY <1>1, <1>2 DEF NothingIsLost, SnapshotsInFlight
  <2>1. CASE i <= a
    <3>1. i \in told \cup InFlight \cup SnapshotsInFlight
      BY <1>3, <2>1 DEF ApplyInv, NothingIsLost
    <3>2. InFlight = {}
      BY <1>1 DEF InFlight
    <3> QED
      BY <3>1, <3>2
  <2>2. CASE i > a
    <3>1. i - a \in 1..Len(loop'.msgs) /\ a + (i - a) = i
      BY <1>3, <1>4, <2>2
    <3>2. i - a \in DOMAIN loop'.msgs /\ loop'.msgs[i - a].index = i
      BY <1>4, <3>1
    <3> QED
      BY <3>2 DEF InFlight
  <2> QED
    BY <1>3, <2>1, <2>2
<1>11. CommandsComeOnce'
  <2> SUFFICES ASSUME NEW j \in 1..Len(loop'.msgs), NEW k \in 1..Len(loop'.msgs)
               PROVE  /\ loop'.msgs[j].index > lastCmd
                      /\ j < k => loop'.msgs[j].index < loop'.msgs[k].index
    BY <1>1, <1>4 DEF CommandsComeOnce
  <2>1. loop'.msgs[j].index = a + j /\ loop'.msgs[k].index = a + k /\ j \in Nat \ {0} /\ k \in Nat
    BY <1>3, <1>4
  <2> QED
    BY <1>3, <1>8, <2>1
<1> QED
  BY <1>5, <1>6, <1>7, <1>9, <1>10, <1>11 DEF ApplyInv

\* Unlocking and returning leave the messages as they are.
LEMMA LoopKeeps ==
    ASSUME ApplyInv, UnlockLoop \/ LoopReturn
    PROVE  ApplyInv'
<1>1. /\ rf' = rf /\ image' = image /\ hnd' = hnd /\ svc' = svc /\ told' = told /\ lastCmd' = lastCmd
  BY DEF UnlockLoop, LoopReturn, history
<1>2. /\ loop' \in [pc : {"sleep", "locked", "send"}, msgs : Seq(Message)]
      /\ loop'.msgs = loop.msgs /\ (loop'.pc = "sleep" => loop.msgs = <<>>)
  BY DEF UnlockLoop, LoopReturn, ApplyInv, TypeOK
<1>3. TypeOK'
  BY <1>1, <1>2 DEF ApplyInv, TypeOK
<1>4. IndicesOrdered' /\ ImageSaved' /\ NothingLeft' /\ NothingAhead'
  BY <1>1, <1>2 DEF ApplyInv, IndicesOrdered, ImageSaved, NothingLeft, NothingAhead
<1>5. NothingIsLost' /\ CommandsComeOnce'
  BY <1>1, <1>2 DEF ApplyInv, NothingIsLost, CommandsComeOnce, InFlight, SnapshotsInFlight
<1> QED
  BY <1>3, <1>4, <1>5 DEF ApplyInv

-----------------------------------------------------------------------------
(* Steps of the service *)

\* What the service receives from the loop is the lowest index that was in flight.
LEMMA ReceiveFromLoopKeeps ==
    ASSUME ApplyInv, ReceiveFromLoop
    PROVE  ApplyInv'
<1>1. PICK ms, n, x : ms = loop.msgs /\ n = Len(ms) /\ x = ms[1].index
  OBVIOUS
<1>2. /\ ms \in Seq(Message) /\ ms # <<>> /\ n \in Nat \ {0}
      /\ \A k \in 1..n : ms[k] \in Message /\ ms[k].index \in Nat
  BY <1>1, IndexTypes DEF ApplyInv, ReceiveFromLoop
<1>3. /\ Head(ms) = ms[1] /\ Tail(ms) \in Seq(Message) /\ Len(Tail(ms)) = n - 1
      /\ \A k \in 1..n - 1 : Tail(ms)[k] = ms[k + 1]
  BY <1>1, <1>2
<1>4. /\ rf' = rf /\ image' = image /\ hnd' = hnd /\ told' = told \cup {x} /\ lastCmd' = x
      /\ svc' = [svc EXCEPT !.pc = "work", !.msg = ms[1]]
      /\ loop' = [loop EXCEPT !.msgs = Tail(ms)] /\ loop.pc = "send"
  BY <1>1, <1>3 DEF ReceiveFromLoop
<1>5. x \in Nat /\ ms[1] \in Message
  BY <1>1, <1>2
<1>6. /\ loop' \in [pc : {"sleep", "locked", "send"}, msgs : Seq(Message)]
      /\ loop'.msgs = Tail(ms) /\ loop'.pc = "send"
  BY <1>3, <1>4 DEF ApplyInv, TypeOK
<1>7. svc' \in [pc : {"recv", "work", "snapshot"}, msg : Message, lastApplied : Nat, log : [Index -> Entry]]
      /\ svc'.msg = ms[1]
  BY <1>4, <1>5 DEF ApplyInv, TypeOK
<1>8. TypeOK'
  BY <1>4, <1>5, <1>6, <1>7 DEF ApplyInv, TypeOK
<1>9. IndicesOrdered' /\ ImageSaved' /\ NothingLeft'
  BY <1>4, <1>6 DEF ApplyInv, IndicesOrdered, ImageSaved, NothingLeft
<1>10. \A k \in 1..n : ms[k].index <= rf.lastApplied
  BY <1>1 DEF ApplyInv, NothingAhead
<1>11. \A k \in 1..n - 1 : k \in 1..n /\ k + 1 \in 1..n /\ 1 < k + 1
  BY <1>2
<1>12. 1 \in 1..n
  BY <1>2
<1>13. NothingAhead'
  <2>1. lastCmd' <= rf.lastApplied /\ svc'.msg.index <= rf.lastApplied
    BY <1>1, <1>4, <1>7, <1>10, <1>12
  <2>2. \A k \in 1..Len(loop'.msgs) : loop'.msgs[k].index <= rf.lastApplied
    BY <1>3, <1>6, <1>10, <1>11
  <2> QED
    BY <1>4, <2>1, <2>2 DEF ApplyInv, NothingAhead
<1>14. NothingIsLost'
  <2>1. ASSUME NEW i \in InFlight PROVE i \in {x} \cup InFlight'
    <3>1. PICK k \in 1..n : i = ms[k].index
      BY <1>1, <1>2, <2>1 DEF InFlight
    <3>2. CASE k = 1
      BY <1>1, <3>1, <3>2
    <3>3. CASE k # 1
      <4>1. k - 1 \in 1..n - 1 /\ (k - 1) + 1 = k
        BY <1>2, <3>3
      <4>2. Tail(ms)[k - 1].index = i /\ k - 1 \in DOMAIN Tail(ms)
        BY <1>3, <3>1, <4>1
      <4> QED
        BY <1>6, <4>2 DEF InFlight
    <3> QED
      BY <3>2, <3>3
  <2> QED
    BY <1>4, <2>1 DEF ApplyInv, NothingIsLost, SnapshotsInFlight
<1>15. CommandsComeOnce'
  <2>1. \A j, k \in 1..n : j < k => ms[j].index < ms[k].index
    BY <1>1, <1>2 DEF ApplyInv, CommandsComeOnce
  <2> SUFFICES ASSUME NEW j \in 1..n - 1, NEW k \in 1..n - 1
               PROVE  ms[j + 1].index > x /\ (j < k => ms[j + 1].index < ms[k + 1].index)
    <3>1. DOMAIN Tail(ms) = 1..n - 1
      BY <1>3
    <3> QED
      BY <1>3, <1>4, <1>6, <3>1 DEF CommandsComeOnce
  <2>2. j + 1 \in 1..n /\ k + 1 \in 1..n /\ 1 < j + 1 /\ (j < k => j + 1 < k + 1)
    BY <1>11
  <2>3. ms[1].index < ms[j + 1].index
    BY <1>12, <2>1, <2>2
  <2>4. ms[j + 1].index \in Nat
    BY <1>2, <2>2
  <2>5. ms[j + 1].index > x
    BY <1>1, <1>5, <2>3, <2>4
  <2> QED
    BY <2>1, <2>2, <2>5
<1> QED
  BY <1>8, <1>9, <1>13, <1>14, <1>15 DEF ApplyInv

\* What the service receives from a handler covers every index up to the snapshot's.
LEMMA ReceiveFromHandlerKeeps ==
    ASSUME ApplyInv, NEW h \in Handlers, ReceiveFromHandler(h)
    PROVE  ApplyInv'
<1>1. /\ rf' = rf /\ image' = image /\ loop' = loop /\ lastCmd' = lastCmd
      /\ told' = told \cup 1..hnd[h].msg.index
      /\ svc' = [svc EXCEPT !.pc = "work", !.msg = hnd[h].msg]
      /\ hnd' = [hnd EXCEPT ![h] = [pc |-> "idle", msg |-> NoMsg]]
  BY DEF ReceiveFromHandler
<1>2. hnd[h].msg \in Message /\ NoMsg \in Message /\ NoMsg.index = 0
  BY IndexTypes, MessageTypes DEF ApplyInv
<1>3. /\ svc' \in [pc : {"recv", "work", "snapshot"}, msg : Message, lastApplied : Nat, log : [Index -> Entry]]
      /\ svc'.msg = hnd[h].msg
  BY <1>1, <1>2 DEF ApplyInv, TypeOK
<1>4. /\ hnd' \in [Handlers -> [pc : {"idle", "locked", "send"}, msg : Message]]
      /\ hnd'[h].msg = NoMsg /\ \A g \in Handlers : g # h => hnd'[g] = hnd[g]
  BY <1>1, <1>2 DEF ApplyInv, TypeOK
<1>5. TypeOK'
  BY <1>1, <1>3, <1>4 DEF ApplyInv, TypeOK
<1>6. IndicesOrdered' /\ ImageSaved' /\ NothingLeft'
  BY <1>1, <1>2, <1>4 DEF ApplyInv, IndicesOrdered, ImageSaved, NothingLeft
<1>7. NothingAhead'
  <2>1. rf.lastApplied \in Nat /\ \A g \in Handlers : hnd[g].msg.index <= rf.lastApplied
    BY IndexTypes DEF ApplyInv, NothingAhead
  <2>2. \A g \in Handlers : hnd'[g].msg.index <= rf.lastApplied
    BY <1>2, <1>4, <2>1
  <2> QED
    BY <1>1, <1>3, <2>1, <2>2 DEF ApplyInv, NothingAhead
<1>8. NothingIsLost'
  <2>1. SnapshotsInFlight \subseteq SnapshotsInFlight' \cup 1..hnd[h].msg.index
    BY <1>4 DEF SnapshotsInFlight
  <2> QED
    BY <1>1, <2>1 DEF ApplyInv, NothingIsLost, InFlight
<1>9. CommandsComeOnce'
  BY <1>1 DEF ApplyInv, CommandsComeOnce
<1> QED
  BY <1>5, <1>6, <1>7, <1>8, <1>9 DEF ApplyInv

\* The service's own bookkeeping is not Raft's.
LEMMA ServiceKeeps ==
    ASSUME ApplyInv, IngestSnap \/ ApplyCommand
    PROVE  ApplyInv'
<1>1. rf' = rf /\ image' = image /\ loop' = loop /\ hnd' = hnd /\ told' = told /\ lastCmd' = lastCmd
  BY DEF IngestSnap, ApplyCommand, history
<1>2. /\ svc' \in [pc : {"recv", "work", "snapshot"}, msg : Message, lastApplied : Nat, log : [Index -> Entry]]
      /\ svc'.msg = svc.msg \/ svc'.msg.index = 0
  <2>1. CASE IngestSnap
    <3>1. svc.msg.index \in Nat /\ svc.msg.image.xlog \in [Index -> Entry]
      BY DEF ApplyInv, TypeOK, Message
    <3>2. CASE svc' = [pc |-> "recv", msg |-> NoMsg,
                       lastApplied |-> svc.msg.index, log |-> svc.msg.image.xlog]
      BY <3>1, <3>2, MessageTypes
    <3>3. CASE svc' = [svc EXCEPT !.pc = "recv"]
      BY <3>3 DEF ApplyInv, TypeOK
    <3> QED
      BY <2>1, <3>2, <3>3 DEF IngestSnap
  <2>2. CASE ApplyCommand
    <3>1. PICK i, e, a, p : /\ svc' = [svc EXCEPT !.log[i] = e, !.lastApplied = a, !.pc = p]
                            /\ a \in {svc.msg.index, svc.lastApplied} /\ p \in {"recv", "snapshot"}
                            /\ e \in {"cmd", svc.log[i]}
      <4> DEFINE j == svc.msg.index
      <4>1. svc' = [svc EXCEPT !.log[j] = IF snapshots THEN "cmd" ELSE svc.log[j],
                               !.lastApplied = IF snapshots THEN j ELSE svc.lastApplied,
                               !.pc = IF TakesSnapshotAt(j) THEN "snapshot" ELSE "recv"]
        BY <2>2 DEF ApplyCommand
      <4> QED
        BY <4>1
    <3>2. svc.msg.index \in Nat /\ svc.lastApplied \in Nat /\ svc.log \in [Index -> Entry]
      BY IndexTypes DEF ApplyInv, TypeOK
    <3>3. [svc.log EXCEPT ![i] = e] \in [Index -> Entry]
      BY <3>1, <3>2 DEF Entry
    <3> QED
      BY <3>1, <3>2, <3>3 DEF ApplyInv, TypeOK
  <2> QED
    BY <2>1, <2>2
<1>3. TypeOK'
  BY <1>1, <1>2 DEF ApplyInv, TypeOK
<1>4. IndicesOrdered' /\ ImageSaved' /\ NothingLeft'
  BY <1>1 DEF ApplyInv, IndicesOrdered, ImageSaved, NothingLeft
<1>5. NothingAhead'
  BY <1>1, <1>2, IndexTypes DEF ApplyInv, NothingAhead
<1>6. NothingIsLost' /\ CommandsComeOnce'
  BY <1>1 DEF ApplyInv, NothingIsLost, CommandsComeOnce, InFlight, SnapshotsInFlight
<1> QED
  BY <1>3, <1>4, <1>5, <1>6 DEF ApplyInv

\* Snapshot is called for an index that Raft has applied: only snapshotIndex moves.
LEMMA TakeSnapshotKeeps ==
    ASSUME ApplyInv, TakeSnapshot
    PROVE  ApplyInv'
<1>1. PICK n : n = svc.msg.index
  OBVIOUS
<1>2. /\ n \in Nat /\ n <= rf.lastApplied /\ rf.lastApplied <= rf.commitIndex
      /\ rf.lastApplied \in Nat /\ rf.commitIndex \in Nat
  BY <1>1, IndexTypes DEF ApplyInv, NothingAhead, IndicesOrdered
<1>3. /\ loop' = loop /\ hnd' = hnd /\ told' = told /\ lastCmd' = lastCmd
      /\ svc' = [svc EXCEPT !.pc = "recv", !.msg = NoMsg]
  BY DEF TakeSnapshot, history
<1>4. /\ svc' \in [pc : {"recv", "work", "snapshot"}, msg : Message, lastApplied : Nat, log : [Index -> Entry]]
      /\ svc'.msg.index = 0
  BY <1>3, MessageTypes DEF ApplyInv, TypeOK
<1>5. /\ rf' \in [commitIndex : Nat, lastApplied : Nat, snapshotIndex : Nat, lastIndex : Nat]
      /\ image' \in [index : Nat, xlog : [Index -> Entry]]
      /\ rf'.lastApplied = rf.lastApplied /\ rf'.commitIndex = rf.commitIndex
      /\ rf'.lastIndex = rf.lastIndex /\ image'.index = rf'.snapshotIndex
      /\ rf'.snapshotIndex <= rf.lastApplied
  <2>1. CASE rf' = rf /\ image' = image
    BY <2>1 DEF ApplyInv, TypeOK, ImageSaved, IndicesOrdered
  <2>2. CASE /\ rf' = [rf EXCEPT !.snapshotIndex = n, !.commitIndex = MaxOf(@, n),
                                 !.lastApplied = MaxOf(@, n)]
             /\ image' = Encode(n)
    <3>1. MaxOf(rf.commitIndex, n) = rf.commitIndex /\ MaxOf(rf.lastApplied, n) = rf.lastApplied
      BY <1>2 DEF MaxOf
    <3>2. Encode(n) \in [index : Nat, xlog : [Index -> Entry]] /\ Encode(n).index = n
      BY <1>2 DEF Encode, Entry
    <3>3. rf' = [rf EXCEPT !.snapshotIndex = n, !.commitIndex = rf.commitIndex,
                           !.lastApplied = rf.lastApplied]
      BY <2>2, <3>1
    <3> QED
      BY <1>2, <2>2, <3>2, <3>3 DEF ApplyInv, TypeOK
  <2> QED
    BY <1>1, <2>1, <2>2 DEF TakeSnapshot
<1>6. TypeOK'
  BY <1>3, <1>4, <1>5 DEF ApplyInv, TypeOK
<1>7. IndicesOrdered' /\ ImageSaved' /\ NothingLeft'
  BY <1>3, <1>5 DEF ApplyInv, IndicesOrdered, ImageSaved, NothingLeft
<1>8. NothingAhead'
  BY <1>2, <1>3, <1>4, <1>5 DEF ApplyInv, NothingAhead
<1>9. NothingIsLost' /\ CommandsComeOnce'
  BY <1>3, <1>5 DEF ApplyInv, NothingIsLost, CommandsComeOnce, InFlight, SnapshotsInFlight
<1> QED
  BY <1>6, <1>7, <1>8, <1>9 DEF ApplyInv

-----------------------------------------------------------------------------
(* Starting *)

\* A fresh service has received nothing.
LEMMA FreshServiceType ==
    /\ FreshService \in [pc : {"recv", "work", "snapshot"}, msg : Message, lastApplied : Nat,
                         log : [Index -> Entry]]
    /\ FreshService.msg.index = 0
  BY MessageTypes DEF FreshService, EmptyLog, Entry

\* A restarted server counts as applied what its saved snapshot has, and the service
\* has ingested that snapshot.
LEMMA RestartKeeps ==
    ASSUME ApplyInv, Restart
    PROVE  ApplyInv'
<1>1. /\ image' = image /\ told' = 1..image.index /\ lastCmd' = 0
      /\ loop' = [pc |-> "sleep", msgs |-> <<>>]
      /\ hnd' = [h \in Handlers |-> [pc |-> "idle", msg |-> NoMsg]]
  BY DEF Restart
<1>2. /\ rf' \in [commitIndex : Nat, lastApplied : Nat, snapshotIndex : Nat, lastIndex : Nat]
      /\ rf'.commitIndex = rf.snapshotIndex /\ rf'.lastApplied = rf.snapshotIndex
      /\ rf'.snapshotIndex = rf.snapshotIndex /\ rf'.lastIndex = rf.lastIndex
  BY DEF Restart, ApplyInv, TypeOK
<1>3. /\ svc' \in [pc : {"recv", "work", "snapshot"}, msg : Message, lastApplied : Nat, log : [Index -> Entry]]
      /\ svc'.msg.index = 0
  <2>1. CASE svc' = FreshService
    BY <2>1, FreshServiceType
  <2>2. CASE svc' = [FreshService EXCEPT !.lastApplied = image.index, !.log = image.xlog]
    <3>1. image.index \in Nat /\ image.xlog \in [Index -> Entry]
      BY DEF ApplyInv, TypeOK
    <3> QED
      BY <2>2, <3>1, FreshServiceType
  <2> QED
    BY <2>1, <2>2 DEF Restart
<1>4. /\ hnd' \in [Handlers -> [pc : {"idle", "locked", "send"}, msg : Message]]
      /\ \A h \in Handlers : hnd'[h].msg.index = 0
  BY <1>1, MessageTypes
<1>5. /\ loop' \in [pc : {"sleep", "locked", "send"}, msgs : Seq(Message)]
      /\ loop'.msgs = <<>> /\ Len(loop'.msgs) = 0
  BY <1>1
<1>6. TypeOK'
  BY <1>1, <1>2, <1>3, <1>4, <1>5 DEF ApplyInv, TypeOK
<1>7. /\ rf.snapshotIndex \in Nat /\ rf.lastIndex \in Nat /\ rf.snapshotIndex <= rf.lastIndex
      /\ image.index = rf.snapshotIndex
  BY IndexTypes DEF ApplyInv, IndicesOrdered, ImageSaved
<1>8. IndicesOrdered' /\ ImageSaved' /\ NothingLeft'
  BY <1>1, <1>2, <1>4, <1>5, <1>7 DEF IndicesOrdered, ImageSaved, NothingLeft
<1>9. NothingAhead'
  BY <1>1, <1>2, <1>3, <1>4, <1>5, <1>7 DEF NothingAhead
<1>10. NothingIsLost'
  BY <1>1, <1>2, <1>7 DEF NothingIsLost
<1>11. CommandsComeOnce'
  BY <1>5 DEF CommandsComeOnce
<1> QED
  BY <1>6, <1>8, <1>9, <1>10, <1>11 DEF ApplyInv

\* Nothing is applied at first.
LEMMA InitApplies == Init => ApplyInv
<1> SUFFICES ASSUME Init PROVE ApplyInv
  OBVIOUS
<1>1. TypeOK
  <2>1. hnd \in [Handlers -> [pc : {"idle", "locked", "send"}, msg : Message]]
    BY MessageTypes DEF Init
  <2>2. svc \in [pc : {"recv", "work", "snapshot"}, msg : Message, lastApplied : Nat, log : [Index -> Entry]]
    BY FreshServiceType DEF Init
  <2>3. image \in [index : Nat, xlog : [Index -> Entry]]
    BY MessageTypes DEF Init
  <2>4. rf \in [commitIndex : Nat, lastApplied : Nat, snapshotIndex : Nat, lastIndex : Nat]
    BY DEF Init
  <2>5. loop \in [pc : {"sleep", "locked", "send"}, msgs : Seq(Message)] /\ lastCmd \in Nat
    <3>1. loop = [pc |-> "sleep", msgs |-> <<>>] /\ lastCmd = 0
      BY DEF Init
    <3>2. <<>> \in Seq(Message)
      OBVIOUS
    <3> QED
      BY <3>1, <3>2
  <2> QED
    BY <2>1, <2>2, <2>3, <2>4, <2>5 DEF TypeOK
<1>2. loop.msgs = <<>> /\ Len(loop.msgs) = 0
  BY DEF Init
<1>3. rf.lastApplied = 0 /\ rf.snapshotIndex = 0 /\ rf.commitIndex = 0 /\ rf.lastIndex = 0
  BY DEF Init
<1>4. \A h \in Handlers : hnd[h].msg.index = 0
  BY MessageTypes DEF Init
<1>5. IndicesOrdered /\ ImageSaved /\ NothingLeft
  <2>1. image.index = 0
    BY MessageTypes DEF Init
  <2> QED
    BY <1>2, <1>3, <1>4, <2>1 DEF IndicesOrdered, ImageSaved, NothingLeft
<1>6. NothingAhead
  <2>1. svc.msg.index = 0 /\ lastCmd = 0
    BY FreshServiceType DEF Init
  <2> QED
    BY <1>2, <1>3, <1>4, <2>1 DEF NothingAhead
<1>7. NothingIsLost
  BY <1>3 DEF NothingIsLost
<1>8. CommandsComeOnce
  BY <1>2 DEF CommandsComeOnce
<1> QED
  BY <1>1, <1>5, <1>6, <1>7, <1>8 DEF ApplyInv

\* Every step keeps the invariant.
LEMMA StepApplies == ApplyInv /\ [Next]_vars => ApplyInv'
<1> SUFFICES ASSUME ApplyInv, [Next]_vars PROVE ApplyInv'
  OBVIOUS
<1>1. ASSUME NEW n \in Index \cup {0}, NEW c \in Index \cup {0}, Replicate(n, c) PROVE ApplyInv'
  BY <1>1, ReplicateKeeps
<1>2. ASSUME NEW h \in Handlers, NEW n \in Index, InstallSnapshot(h, n) PROVE ApplyInv'
  BY <1>2, InstallSnapshotKeeps
<1>3. ASSUME NEW h \in Handlers, UnlockHandler(h) PROVE ApplyInv'
  BY <1>3, UnlockHandlerKeeps
<1>4. ASSUME NEW h \in Handlers, ReceiveFromHandler(h) PROVE ApplyInv'
  BY <1>4, ReceiveFromHandlerKeeps
<1>5. CASE Collect
  BY <1>5, CollectKeeps
<1>6. CASE UnlockLoop \/ LoopReturn
  BY <1>6, LoopKeeps
<1>7. CASE ReceiveFromLoop
  BY <1>7, ReceiveFromLoopKeeps
<1>8. CASE IngestSnap \/ ApplyCommand
  BY <1>8, ServiceKeeps
<1>9. CASE TakeSnapshot
  BY <1>9, TakeSnapshotKeeps
<1>10. CASE Restart
  BY <1>10, RestartKeeps
<1>11. CASE UNCHANGED vars
  <2>1. /\ rf' = rf /\ image' = image /\ loop' = loop /\ hnd' = hnd /\ svc' = svc
        /\ told' = told /\ lastCmd' = lastCmd
    BY <1>11 DEF vars
  <2>2. TypeOK' /\ IndicesOrdered' /\ ImageSaved' /\ NothingLeft' /\ NothingAhead'
    BY <2>1 DEF ApplyInv, TypeOK, IndicesOrdered, ImageSaved, NothingLeft, NothingAhead
  <2>3. NothingIsLost' /\ CommandsComeOnce'
    BY <2>1 DEF ApplyInv, NothingIsLost, CommandsComeOnce, InFlight, SnapshotsInFlight
  <2> QED
    BY <2>2, <2>3 DEF ApplyInv
<1> QED
  BY <1>1, <1>2, <1>3, <1>4, <1>5, <1>6, <1>7, <1>8, <1>9, <1>10, <1>11
  DEF Next, LoopStep, ServiceStep

\* The invariant holds: lastApplied stays between what a snapshot has and what is
\* committed, and nothing that was sent or is about to be sent is above it.
THEOREM ApplyingIsOrdered == Spec => []ApplyInv
<1>1. Init => ApplyInv
  BY InitApplies
<1>2. ApplyInv /\ [Next]_vars => ApplyInv'
  BY StepApplies
<1> QED
  BY <1>1, <1>2, PTL DEF Spec

\* applyCommitted and InstallSnapshot raise lastApplied before they send, after the
\* unlock; still every index up to lastApplied was told to the service or is on its way,
\* however the goroutines interleave with Snapshot, with each other and with a restart.
THEOREM CommandsAreNotLost == Spec => []NothingIsLost
<1>1. ApplyInv => NothingIsLost
  BY DEF ApplyInv
<1> QED
  BY <1>1, ApplyingIsOrdered, PTL

\* Between two starts the loop hands the service each command at most once and in
\* increasing order, also when InstallSnapshot moves lastApplied under it.
THEOREM CommandsAreInOrder == Spec => []CommandsComeOnce
<1>1. ApplyInv => CommandsComeOnce
  BY DEF ApplyInv
<1> QED
  BY <1>1, ApplyingIsOrdered, PTL
=============================================================================

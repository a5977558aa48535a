------------------------------ MODULE RaftApply ------------------------------
(***************************************************************************)
(* The way from a Raft server's log to its service: the goroutines of one  *)
(* server that meet at the unbuffered applyCh.                             *)
(*                                                                         *)
(*   - the loop that Make starts calls applyCommitted, which collects      *)
(*     messages under rf.mu and sends them after the unlock                *)
(*     (src/src/raft1/raft.go);                                            *)
(*   - each InstallSnapshot handler sends its snapshot after the unlock;   *)
(*   - the service of the tests (src/src/raft1/server.go) receives, checks *)
(*     the order, reports to the tester, and calls Snapshot, which takes   *)
(*     rf.mu, every SnapShotInterval commands.                             *)
(*                                                                         *)
(* The rest of Raft is the environment: it extends the log, advances the   *)
(* commit index and delivers InstallSnapshot RPCs.  Module Raft shows that *)
(* servers agree on the committed command of an index, so a command is     *)
(* represented by its index.                                               *)
(***************************************************************************)
EXTENDS Integers, Sequences

CONSTANTS
    MaxIndex,           \* bound on log indices
    SnapShotInterval,   \* commands between two snapshots of the service
    Handlers,           \* goroutines that serve InstallSnapshot RPCs
    MaxInstalls,        \* bound on InstallSnapshot RPCs
    MaxRestarts         \* bound on crashes

ASSUME BoundsAssumption ==
    /\ MaxIndex \in Nat \ {0} /\ SnapShotInterval \in Nat \ {0}
    /\ MaxInstalls \in Nat /\ MaxRestarts \in Nat

VARIABLES
    snapshots,  \* the service takes snapshots (started with --max-raft-state)
    mu,         \* holder of rf.mu
    rf,         \* the indices that Raft keeps
    image,      \* the snapshot in the persister
    loop,       \* the goroutine that calls applyCommitted
    hnd,        \* the InstallSnapshot handlers
    svc,        \* the service: rfsrv
    test,       \* the tester's copy of the service's log, and its applyErr
    told,       \* history: indices this incarnation of the service was told of
    lastCmd,    \* history: the last command this incarnation was told of
    installs, restarts

history == <<told, lastCmd>>
vars == <<snapshots, mu, rf, image, loop, hnd, svc, test, told, lastCmd, installs, restarts>>

Index == 1..MaxIndex
Free == "free"

\* What a map from indices to commands holds at an index: nothing, nil, or the
\* command that was committed there.
Entry == {"absent", "nil", "cmd"}
EmptyLog == [i \in Index |-> "absent"]

\* A service snapshot: lastIncludedIndex and xlog.
Image == [index : 0..MaxIndex, xlog : [Index -> Entry]]
NoImage == [index |-> 0, xlog |-> EmptyLog]
FullImage(n) == [index |-> n, xlog |-> [i \in Index |-> IF i <= n THEN "cmd" ELSE "absent"]]

CommandMsg(i) == [kind |-> "command", index |-> i, image |-> NoImage]
SnapshotMsg(n) == [kind |-> "snapshot", index |-> n, image |-> FullImage(n)]
NoMsg == [kind |-> "none", index |-> 0, image |-> NoImage]
MaxOf(a, b) == IF a >= b THEN a ELSE b

FreshService == [pc |-> "recv", msg |-> NoMsg, lastApplied |-> 0, log |-> EmptyLog]

Init ==
    /\ snapshots \in BOOLEAN
    /\ mu = Free
    /\ rf = [commitIndex |-> 0, lastApplied |-> 0, snapshotIndex |-> 0, lastIndex |-> 0]
    /\ image = NoImage
    /\ loop = [pc |-> "sleep", msgs |-> <<>>]
    /\ hnd = [h \in Handlers |-> [pc |-> "idle", msg |-> NoMsg]]
    /\ svc = FreshService
    /\ test = [log |-> EmptyLog, applyErr |-> ""]
    /\ told = {} /\ lastCmd = 0
    /\ installs = 0 /\ restarts = 0

-----------------------------------------------------------------------------
(* The rest of Raft *)

\* AppendEntries, Start and updateCommitIndex: the log grows, entries commit.
Replicate(n, c) ==
    /\ mu = Free
    /\ n >= rf.lastIndex /\ c \in rf.commitIndex..n
    /\ n + c > rf.lastIndex + rf.commitIndex
    /\ rf' = [rf EXCEPT !.lastIndex = n, !.commitIndex = c]
    /\ UNCHANGED <<snapshots, mu, image, loop, hnd, svc, test, history, installs, restarts>>

\* Faulty: lastApplied is set without the comparison.
InstallSnapshotRewinds(h, n) ==
    /\ snapshots
    /\ installs < MaxInstalls
    /\ mu = Free
    /\ hnd[h].pc = "idle"
    /\ n > rf.snapshotIndex
    /\ mu' = h
    /\ rf' = [commitIndex |-> MaxOf(rf.commitIndex, n), lastApplied |-> n,
              snapshotIndex |-> n, lastIndex |-> MaxOf(rf.lastIndex, n)]
    /\ image' = FullImage(n)
    /\ hnd' = [hnd EXCEPT ![h] = [pc |-> "locked", msg |-> SnapshotMsg(n)]]
    /\ installs' = installs + 1
    /\ UNCHANGED <<snapshots, loop, svc, test, history, restarts>>

\* InstallSnapshot up to its unlock: the log behind n is kept, the snapshot is
\* saved and the message for the service is made.
InstallSnapshot(h, n) ==
    /\ snapshots
    /\ installs < MaxInstalls
    /\ mu = Free
    /\ hnd[h].pc = "idle"
    /\ n > rf.snapshotIndex
    /\ mu' = h
    /\ rf' = [commitIndex |-> MaxOf(rf.commitIndex, n),
              lastApplied |-> MaxOf(rf.lastApplied, n),
              snapshotIndex |-> n,
              lastIndex |-> MaxOf(rf.lastIndex, n)]
    /\ image' = FullImage(n)
    /\ hnd' = [hnd EXCEPT ![h] = [pc |-> "locked", msg |-> SnapshotMsg(n)]]
    /\ installs' = installs + 1
    /\ UNCHANGED <<snapshots, loop, svc, test, history, restarts>>

\* Faulty: the snapshot is not sent to the service.
UnlockHandlerSilently(h) ==
    /\ hnd[h].pc = "locked"
    /\ mu' = Free
    /\ hnd' = [hnd EXCEPT ![h] = [pc |-> "idle", msg |-> NoMsg]]
    /\ UNCHANGED <<snapshots, rf, image, loop, svc, test, history, installs, restarts>>

UnlockHandler(h) ==
    /\ hnd[h].pc = "locked"
    /\ mu' = Free
    /\ hnd' = [hnd EXCEPT ![h].pc = "send"]
    /\ UNCHANGED <<snapshots, rf, image, loop, svc, test, history, installs, restarts>>

-----------------------------------------------------------------------------
(* applyCommitted *)

\* The entries between lastApplied and commitIndex that the log still has.
Pending ==
    LET first == MaxOf(rf.lastApplied + 1, rf.snapshotIndex)
        last == IF rf.commitIndex <= rf.lastIndex THEN rf.commitIndex ELSE rf.lastIndex
    IN  [k \in 1..(last - first + 1) |-> CommandMsg(first + k - 1)]

\* The critical section; without pending entries the call changes nothing.
Collect ==
    /\ loop.pc = "sleep"
    /\ mu = Free
    /\ rf.lastApplied < rf.commitIndex
    /\ mu' = "loop"
    /\ loop' = [pc |-> "locked", msgs |-> Pending]
    /\ rf' = [rf EXCEPT !.lastApplied = rf.commitIndex]
    /\ UNCHANGED <<snapshots, image, hnd, svc, test, history, installs, restarts>>

\* Faulty: rf.mu is held while the messages are sent.
SendLocked ==
    /\ loop.pc = "locked"
    /\ mu' = mu
    /\ loop' = [loop EXCEPT !.pc = "send"]
    /\ UNCHANGED <<snapshots, rf, image, hnd, svc, test, history, installs, restarts>>

UnlockLoop ==
    /\ loop.pc = "locked"
    /\ mu' = Free
    /\ loop' = [loop EXCEPT !.pc = "send"]
    /\ UNCHANGED <<snapshots, rf, image, hnd, svc, test, history, installs, restarts>>

\* All messages are sent: back to the sleep of the loop.
LoopReturn ==
    /\ loop.pc = "send"
    /\ loop.msgs = <<>>
    /\ loop' = [loop EXCEPT !.pc = "sleep"]
    /\ UNCHANGED <<snapshots, mu, rf, image, hnd, svc, test, history, installs, restarts>>

-----------------------------------------------------------------------------
(* The service: a send on applyCh and the service's receive are one step *)

ReceiveFromLoop ==
    /\ svc.pc = "recv"
    /\ loop.pc = "send"
    /\ loop.msgs # <<>>
    /\ svc' = [svc EXCEPT !.pc = "work", !.msg = Head(loop.msgs)]
    /\ loop' = [loop EXCEPT !.msgs = Tail(@)]
    /\ told' = told \cup {Head(loop.msgs).index}
    /\ lastCmd' = Head(loop.msgs).index
    /\ UNCHANGED <<snapshots, mu, rf, image, hnd, test, installs, restarts>>

\* The handler's send completes and its RPC returns.
ReceiveFromHandler(h) ==
    /\ svc.pc = "recv"
    /\ hnd[h].pc = "send"
    /\ svc' = [svc EXCEPT !.pc = "work", !.msg = hnd[h].msg]
    /\ hnd' = [hnd EXCEPT ![h] = [pc |-> "idle", msg |-> NoMsg]]
    /\ told' = told \cup 1..hnd[h].msg.index
    /\ UNCHANGED <<snapshots, mu, rf, image, loop, test, lastCmd, installs, restarts>>

\* The RPCs IngestLog and ApplyErr to the tester: t is the tester's state.
IngestLog(t, log) == [t EXCEPT !.log = log]
ApplyErr(t, err) == IF err = "" THEN t ELSE [t EXCEPT !.applyErr = err]

\* applierSnap on a snapshot: ingestSnap, then IngestLog replaces the tester's
\* copy.  A snapshot whose index is not the message's is refused by ingestSnap.
IngestSnap ==
    /\ svc.pc = "work" /\ svc.msg.kind = "snapshot"
    /\ IF svc.msg.index = svc.msg.image.index
       THEN /\ svc' = [pc |-> "recv", msg |-> NoMsg,
                       lastApplied |-> svc.msg.index, log |-> svc.msg.image.xlog]
            /\ test' = IngestLog(test, svc.msg.image.xlog)
       ELSE /\ svc' = [svc EXCEPT !.pc = "recv"]
            /\ test' = ApplyErr(IngestLog(test, svc.log), "snapshot doesn't match")
    /\ UNCHANGED <<snapshots, mu, rf, image, loop, hnd, history, installs, restarts>>

\* The error of Test.CheckLogs for the command of index i.
CheckLogs(i) ==
    IF test.log[i] = "nil" THEN "committed a different value"
    ELSE IF i > 1 /\ test.log[i - 1] = "absent" THEN "apply out of order" ELSE ""

TakesSnapshotAt(i) == snapshots /\ (i + 1) % SnapShotInterval = 0

\* Faulty: the service stops reading after an error.
ApplyOrStop ==
    LET i == svc.msg.index
        bad == snapshots /\ i # svc.lastApplied + 1
        err == IF bad THEN "apply out of order" ELSE CheckLogs(i)
    IN  /\ svc.pc = "work" /\ svc.msg.kind = "command"
        /\ test' = ApplyErr(IF bad THEN test ELSE [test EXCEPT !.log[i] = "cmd"], err)
        /\ svc' = [svc EXCEPT !.log[i] = IF snapshots THEN "cmd" ELSE @,
                              !.lastApplied = IF snapshots THEN i ELSE @,
                              !.pc = IF err # "" THEN "stopped"
                                     ELSE IF TakesSnapshotAt(i) THEN "snapshot" ELSE "recv"]
        /\ UNCHANGED <<snapshots, mu, rf, image, loop, hnd, history, installs, restarts>>

\* applierSnap and applier on a command.  applierSnap compares the index with its
\* own and only then asks the tester; applier keeps no log and leaves the check to the
\* tester.  After an error both go on.
ApplyCommand ==
    LET i == svc.msg.index
        bad == snapshots /\ i # svc.lastApplied + 1
        err == IF bad THEN "apply out of order" ELSE CheckLogs(i)
    IN  /\ svc.pc = "work" /\ svc.msg.kind = "command"
        /\ test' = ApplyErr(IF bad THEN test ELSE [test EXCEPT !.log[i] = "cmd"], err)
        /\ svc' = [svc EXCEPT !.log[i] = IF snapshots THEN "cmd" ELSE @,
                              !.lastApplied = IF snapshots THEN i ELSE @,
                              !.pc = IF TakesSnapshotAt(i) THEN "snapshot" ELSE "recv"]
        /\ UNCHANGED <<snapshots, mu, rf, image, loop, hnd, history, installs, restarts>>

\* The image the service encodes: every index up to n, nil where it has no entry.
Encode(n) ==
    [index |-> n,
     xlog |-> [i \in Index |-> IF i > n THEN "absent"
                               ELSE IF svc.log[i] = "cmd" THEN "cmd" ELSE "nil"]]

\* Raft.Snapshot, called by the service.  An index that is in a snapshot already,
\* or not in the log, is ignored.
TakeSnapshot ==
    LET n == svc.msg.index
    IN  /\ svc.pc = "snapshot"
        /\ mu = Free
        /\ IF n > rf.snapshotIndex /\ n <= rf.lastIndex
           THEN /\ rf' = [rf EXCEPT !.snapshotIndex = n,
                                    !.commitIndex = MaxOf(@, n),
                                    !.lastApplied = MaxOf(@, n)]
                /\ image' = Encode(n)
           ELSE UNCHANGED <<rf, image>>
        /\ svc' = [svc EXCEPT !.pc = "recv", !.msg = NoMsg]
        /\ UNCHANGED <<snapshots, mu, loop, hnd, test, history, installs, restarts>>

-----------------------------------------------------------------------------
\* The process is killed and started: Make and readPersist restore the indices
\* from the persister, newRfsrv ingests the saved snapshot, if there is one, and
\* the tester's copy follows it.
Restart ==
    LET ingested == snapshots /\ image # NoImage
    IN  /\ restarts < MaxRestarts
        /\ restarts' = restarts + 1
        /\ mu' = Free
        /\ rf' = [rf EXCEPT !.commitIndex = rf.snapshotIndex,
                            !.lastApplied = rf.snapshotIndex]
        /\ loop' = [pc |-> "sleep", msgs |-> <<>>]
        /\ hnd' = [h \in Handlers |-> [pc |-> "idle", msg |-> NoMsg]]
        /\ svc' = IF ingested
                  THEN [FreshService EXCEPT !.lastApplied = image.index, !.log = image.xlog]
                  ELSE FreshService
        /\ test' = IF ingested THEN IngestLog(test, image.xlog) ELSE test
        /\ told' = 1..image.index
        /\ lastCmd' = 0
        /\ UNCHANGED <<snapshots, image, installs>>

ServiceStep == IngestSnap \/ ApplyCommand \/ TakeSnapshot
LoopStep == Collect \/ UnlockLoop \/ LoopReturn

Next ==
    \/ \E n, c \in Index \cup {0} : Replicate(n, c)
    \/ \E h \in Handlers : \/ \E n \in Index : InstallSnapshot(h, n)
                           \/ UnlockHandler(h)
                           \/ ReceiveFromHandler(h)
    \/ LoopStep
    \/ ReceiveFromLoop
    \/ ServiceStep
    \/ Restart

Spec == Init /\ [][Next]_vars

\* Goroutines that wait for nobody run on, rf.mu is handed to its waiters in turn,
\* and Go serves the goroutines that wait to send on a channel first come first
\* served, so that each is served in the end however many others come.
Fairness ==
    /\ WF_vars(UnlockLoop) /\ WF_vars(LoopReturn) /\ SF_vars(Collect)
    /\ \A h \in Handlers : WF_vars(UnlockHandler(h))
    /\ WF_vars(IngestSnap) /\ WF_vars(ApplyCommand) /\ SF_vars(TakeSnapshot)
    /\ SF_vars(ReceiveFromLoop)
    /\ \A h \in Handlers : SF_vars(ReceiveFromHandler(h))

FairSpec == Spec /\ Fairness

-----------------------------------------------------------------------------
InFlight == {loop.msgs[k].index : k \in DOMAIN loop.msgs}
SnapshotsInFlight == UNION {1..hnd[h].msg.index : h \in Handlers}

\* Raft counts an index as applied only when the service was told of it, by a
\* command or inside a snapshot, or a goroutine is about to tell it: whatever the
\* order of the goroutines, nothing that is committed is left out.
NothingIsLost ==
    1..rf.lastApplied \subseteq told \cup InFlight \cup SnapshotsInFlight

\* Between two starts of the server the commands come in increasing order, each at
\* most once, also when snapshots arrive in between (applyCommitted's lastApplied).
CommandsComeOnce ==
    \A j, k \in DOMAIN loop.msgs :
       /\ loop.msgs[j].index > lastCmd
       /\ j < k => loop.msgs[j].index < loop.msgs[k].index

\* A committed command reaches the service, or the server restarts and forgets that
\* it is committed: no goroutine blocks another one for ever ("keep reading after
\* error so that Raft doesn't block holding locks", server.go:118).
CommitsAreApplied ==
    \A i \in Index : rf.commitIndex >= i ~> (i \in told \/ rf.commitIndex < i)

\* An InstallSnapshot RPC returns, although its handler waits for the service.
InstallSnapshotReturns ==
    \A h \in Handlers : hnd[h].pc # "idle" ~> hnd[h].pc = "idle"

\* "server %v apply out of order, expected index %v, got %v" (server.go:140): the
\* service's check of the order in which commands arrive never fails.
AppliedInOrder == test.applyErr = ""
=============================================================================

------------------------------- MODULE Groups -------------------------------
(***************************************************************************)
(* A group of servers in the tests (src/src/tester1): the tester starts a  *)
(* process for each server, links servers to each other, cuts and          *)
(* partitions them, and restarts a server with the persister that the      *)
(* process before it had at its end.  Clients call the servers through     *)
(* modules LabNet and Demux meanwhile.                                     *)
(*                                                                         *)
(* A process is <<s, k>>, the k-th process of server s.  The service in it *)
(* (not under test here) saves in its persister what a call asks it to,    *)
(* then answers; its persister is represented by the set of calls it holds.*)
(***************************************************************************)
EXTENDS LabNet

CONSTANTS
    MaxOps        \* bound: operations of the tester on the group

ASSUME ConnsAssumption == Servers \X {1} \subseteq Conns /\ Conns \subseteq Servers \X Nat
ASSUME ClerkServersAssumption == ClerkServers \subseteq Servers
ASSUME IdsAssumption == Ids = Clnts \X (1..MaxCalls)
ASSUME BoundsAssumption == MaxCalls \in Nat /\ MaxOps \in Nat

VARIABLES
    links,      \* pairs <<i, j>>: server i's end to server j is enabled
    connected,  \* ServerGrp.connected
    procs,      \* per server: how many processes it has had
    proc,       \* the state of each process
    disk,       \* the persister in each process
    saved,      \* per server: Server.saved, the persister the tester keeps
    tst,        \* the tester's goroutine: operation under way, its server, partition
                \* and the servers that are left of it
    ops

groupVars == <<links, connected, procs, proc, disk, saved, tst, ops>>
vars == <<demuxVars, netVars, groupVars>>

Process(s) == <<s, procs[s]>>

\* After StartServers: every server has its first process and all are connected.
Init ==
    /\ NetInit /\ DemuxInit({<<s, 1>> : s \in Servers})
    /\ servers = [s \in Servers |-> <<s, 1>>]
    /\ links = Servers \X Servers /\ connected = Servers
    /\ procs = [s \in Servers |-> 1]
    /\ proc = [x \in Conns |-> IF x[2] = 1 THEN "up" ELSE "none"]
    /\ disk = [x \in Conns |-> {}]
    /\ saved = [s \in Servers |-> {}]
    /\ tst = [pc |-> "rest", srv |-> None, parted |-> FALSE, p1 |-> {}, todo |-> {}]
    /\ ops = 0

\* The tester does one operation after the other.
NewOp ==
    /\ tst.pc = "rest"
    /\ ops < MaxOps
    /\ ops' = ops + 1

At(pc) == tst.pc = pc
Goto(pc, s) == tst' = [tst EXCEPT !.pc = pc, !.srv = s]

-----------------------------------------------------------------------------
(* Links *)

\* Server.connect(to): i's own ends to the connected servers of to are enabled.
connect(i, to, conn, ls) == ls \cup ({i} \X (to \cap (conn \cup {i})))

\* Server.disconnect(from): i's own ends to from are disabled.
disconnect(i, from, ls) == ls \ ({i} \X from)

\* Faulty: the ends of the others to i are not enabled.
ConnectOutgoing(i, to, conn, ls) == connect(i, to, conn, ls)

\* ServerGrp.connect(i, to) when conn are connected and the ends ls enabled.
Connect(i, to, conn, ls) ==
    connect(i, to, conn, ls) \cup ((to \cap (conn \cup {i})) \X {i})

\* ServerGrp.disconnect(i, from).
Disconnect(i, from, ls) == disconnect(i, from, ls) \ (from \X {i})

\* The tests connect and partition servers that run only.
Running == {s \in Servers : servers[s] # None}

ConnectOne(s) ==
    /\ NewOp /\ s \in Running
    /\ links' = Connect(s, Servers, connected, links)
    /\ connected' = connected \cup {s}
    /\ UNCHANGED <<procs, proc, disk, saved, tst, demuxVars, netVars>>

DisconnectAll(s) ==
    /\ NewOp
    /\ links' = Disconnect(s, Servers, links)
    /\ connected' = connected \ {s}
    /\ UNCHANGED <<procs, proc, disk, saved, tst, demuxVars, netVars>>

\* Partition(p1, p2) of running servers, p2 being the servers that are not in p1.
Partition(p1) ==
    /\ NewOp /\ Running = Servers
    /\ tst' = [tst EXCEPT !.pc = "partition", !.parted = TRUE, !.p1 = p1, !.todo = Servers]
    /\ UNCHANGED <<links, connected, procs, proc, disk, saved, demuxVars, netVars>>

\* One turn of the loops of Partition, the servers of p1 first: s keeps its links
\* within its own side only.
PartitionOne(s) ==
    LET side == IF s \in tst.p1 THEN tst.p1 ELSE Servers \ tst.p1
    IN  /\ At("partition")
        /\ s \in tst.todo /\ (s \in tst.p1 \/ tst.todo \cap tst.p1 = {})
        /\ links' = Connect(s, side, connected, Disconnect(s, Servers \ side, links))
        /\ connected' = connected \cup {s}
        /\ tst' = [tst EXCEPT !.todo = @ \ {s}, !.pc = IF tst.todo = {s} THEN "rest" ELSE "partition"]
        /\ UNCHANGED <<procs, proc, disk, saved, ops, demuxVars, netVars>>

-----------------------------------------------------------------------------
(* ShutdownServer: disconnect, DeleteServer, checkpointPersister, kill *)

\* A server that is down can be shut down again; then nothing is saved.
Shutdown(s) ==
    /\ NewOp
    /\ links' = Disconnect(s, Servers, links)
    /\ connected' = connected \ {s}
    /\ Goto("delete", s)
    /\ UNCHANGED <<procs, proc, disk, saved, demuxVars, netVars>>

DeleteServer ==
    /\ At("delete")
    /\ servers' = [servers EXCEPT ![tst.srv] = None]
    /\ IF servers[tst.srv] = None THEN Goto("rest", None) ELSE Goto("checkpoint", tst.srv)
    /\ UNCHANGED <<links, connected, procs, proc, disk, saved, ops>>
    /\ UNCHANGED <<clnt, call, acked, demuxVars>>

\* Persister.Checkpoint: a copy of what the process has saved.
Checkpoint(x) == disk[x]

\* DaemonSrv.CheckpointPersister: the process closes its connection to the tester
\* and its listener, but goes on to serve the calls that have arrived.
CheckpointPersister ==
    /\ At("checkpoint")
    /\ saved' = [saved EXCEPT ![tst.srv] = Checkpoint(Process(tst.srv))]
    /\ proc' = [proc EXCEPT ![Process(tst.srv)] = "saved"]
    /\ Goto("kill", tst.srv)
    /\ UNCHANGED <<links, connected, procs, disk, ops, demuxVars, netVars>>

Kill ==
    /\ At("kill")
    /\ proc' = [proc EXCEPT ![Process(tst.srv)] = "dead"]
    /\ disk' = [disk EXCEPT ![Process(tst.srv)] = {}]
    /\ Break(Process(tst.srv))
    /\ Goto("rest", None)
    /\ UNCHANGED <<links, connected, procs, saved, ops, dmx, disp, netVars>>

-----------------------------------------------------------------------------
(* StartServer: new ends, runDaemon, init, waitInit, AddServer; callers then ConnectOne *)

\* makeServer: a fresh set of ends from s, none of them enabled.
makeServer(s) == links' = links \ ({s} \X Servers)

\* runDaemon: the process x starts, and waits for its persister.
runDaemon(x) == proc' = [proc EXCEPT ![x] = "init"]

\* init hands over the persister of the process before, and dials.
init(x, s) == disk' = [disk EXCEPT ![x] = saved[s]] /\ Dial(x)

StartServer(s) ==
    LET x == <<s, procs[s] + 1>>
    IN  /\ NewOp
        /\ servers[s] = None
        /\ x \in Conns
        /\ procs' = [procs EXCEPT ![s] = @ + 1]
        /\ makeServer(s)
        /\ runDaemon(x)
        /\ init(x, s)
        /\ Goto("waitInit", s)
        /\ UNCHANGED <<connected, saved, disp, netVars>>

\* InitDaemon in the process: the server is made and its services are added.
InitDaemon(x) ==
    /\ proc[x] = "init"
    /\ proc' = [proc EXCEPT ![x] = "up"]
    /\ UNCHANGED <<links, connected, procs, disk, saved, tst, ops, demuxVars, netVars>>

\* Faulty: the tester does not wait for the process.
WaitInitNot ==
    /\ At("waitInit")
    /\ Goto("add", tst.srv)
    /\ UNCHANGED <<links, connected, procs, proc, disk, saved, ops, demuxVars, netVars>>

WaitInit ==
    /\ At("waitInit")
    /\ proc[Process(tst.srv)] = "up"
    /\ Goto("add", tst.srv)
    /\ UNCHANGED <<links, connected, procs, proc, disk, saved, ops, demuxVars, netVars>>

AddServer ==
    /\ At("add")
    /\ servers' = [servers EXCEPT ![tst.srv] = Process(tst.srv)]
    /\ Goto("connect", tst.srv)
    /\ UNCHANGED <<links, connected, procs, proc, disk, saved, ops>>
    /\ UNCHANGED <<clnt, call, acked, demuxVars>>

ConnectStarted ==
    /\ At("connect")
    /\ links' = Connect(tst.srv, Servers, connected, links)
    /\ connected' = connected \cup {tst.srv}
    /\ Goto("rest", None)
    /\ UNCHANGED <<procs, proc, disk, saved, ops, demuxVars, netVars>>

-----------------------------------------------------------------------------
(* The process serves calls, also between the checkpoint and its end *)

\* The service's method: it saves what the call asks it to.
dispatch(x, m) == disk' = [disk EXCEPT ![x] = @ \cup {m.id}]

Serve(x, m) ==
    /\ proc[x] \in {"up", "saved"}
    /\ Run(x, m)
    /\ dispatch(x, m)
    /\ UNCHANGED <<links, connected, procs, proc, saved, tst, ops, netVars>>

Answer(x, m) ==
    /\ WriteReply(x, m)
    /\ UNCHANGED <<groupVars, netVars>>

TesterStep ==
    \/ DeleteServer \/ CheckpointPersister \/ Kill
    \/ WaitInit \/ AddServer \/ ConnectStarted
    \/ \E s \in tst.todo : PartitionOne(s)

TesterOp ==
    \/ \E s \in Servers : \/ Shutdown(s) \/ StartServer(s)
                          \/ ConnectOne(s) \/ DisconnectAll(s)
    \/ \E p1 \in SUBSET Servers : Partition(p1)

ProcessStep(x) ==
    \/ InitDaemon(x)
    \/ \E m \in wire[x].reqs : Serve(x, m)
    \/ \E m \in wire[x].ran : Answer(x, m)

ClntStep(c) ==
    \/ \E s \in ClerkServers : Call(c, s)
    \/ DisconnectClnt(c) \/ ConnectClnt(c)
    \/ DropRequest(c)

Next ==
    \/ TesterOp \/ TesterStep
    \/ \E x \in Conns : ProcessStep(x)
    \/ \E x \in Conns : ReaderStep(x) /\ UNCHANGED <<netVars, groupVars>>
    \/ \E i \in Ids : SendStep(i) /\ UNCHANGED <<netVars, groupVars>>
    \/ \E c \in Clnts : (ClntStep(c) \/ NetStep(c)) /\ UNCHANGED groupVars

\* Goroutines that can run do, and the handlers in the processes end; that the
\* tester begins an operation, a client calls or a message is lost is up to chance.
Fairness ==
    /\ WF_vars(TesterStep)
    /\ \A x \in Conns : /\ WF_vars(ProcessStep(x))
                        /\ WF_vars(ReaderStep(x) /\ UNCHANGED <<netVars, groupVars>>)
    /\ \A i \in Ids : WF_vars(SendStep(i) /\ UNCHANGED <<netVars, groupVars>>)
    /\ \A c \in Clnts : WF_vars(NetStep(c) /\ UNCHANGED groupVars)

Spec == Init /\ [][Next]_vars /\ Fairness

-----------------------------------------------------------------------------
(* Properties *)

\* A call that was answered with success is in the persister of the server's
\* process, and in the one the tester hands to the next process: "this is needed to
\* avoid situation in which a client gets a positive reply to an Append, but the
\* server persisted the update into the old Persister" (labrpc.go:338).
AcknowledgedIsSaved ==
    \A a \in acked :
      a.id \in IF proc[Process(a.srv)] \in {"init", "up"}
               THEN disk[Process(a.srv)] ELSE saved[a.srv]

\* No request reaches a process before its services are there (log.Fatalf,
\* labrpc.go:538).
ServicesAreReady == \A x \in Conns : proc[x] = "init" => wire[x].reqs = {}

\* Between the tester's operations an end between two servers is enabled only if both
\* are connected, and in both directions or in neither, whatever was shut down,
\* restarted and partitioned before; without a partition all of them are.  A client's
\* ends are enabled to the servers it may reach and to no other, also those it makes
\* after it was disconnected (allowedL, clnts.go:57).
LinksFollowOperations ==
    At("rest") =>
      /\ \A c \in Clnts : clnt[c].enabled = clnt[c].ends \cap clnt[c].srvs
      /\ links \subseteq connected \X connected
      /\ \A i, j \in Servers : <<i, j>> \in links => <<j, i>> \in links
      /\ ~tst.parted => links = connected \X connected
=============================================================================

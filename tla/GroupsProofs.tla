---------------------------- MODULE GroupsProofs ----------------------------
(***************************************************************************)
(* Theorems about the server groups of the tester, the simulated network   *)
(* and the RPC over sockets, for every set of servers and clients, every   *)
(* number of processes and calls, and every sequence of operations.        *)
(***************************************************************************)
EXTENDS Groups, TLAPS

-----------------------------------------------------------------------------
(* Types *)

Message == [tag : Nat, id : Ids]

\* A callMap: from some tags to calls.
CallMap == UNION {[D -> Ids] : D \in SUBSET Nat}

DemuxTypes ==
    /\ dmx \in [Conns -> [nextTag : Nat, calls : CallMap, closed : BOOLEAN,
                          reader : {"off", "read", "fatal", "closed", "failing"},
                          failing : SUBSET Nat]]
    /\ wire \in [Conns -> [open : BOOLEAN, reqs : SUBSET Message, ran : SUBSET Message,
                           reps : SUBSET Message]]
    /\ disp \in [Ids -> [pc : {"none", "put", "write", "wait", "got"}, conn : Conns \cup {None},
                         tag : Nat, ok : BOOLEAN]]

NetTypes ==
    /\ servers \in [Servers -> Conns \cup {None}]
    /\ clnt \in [Clnts -> [ends : SUBSET Servers, enabled : SUBSET Servers, srvs : SUBSET Servers]]
    /\ call \in [Clnts -> [pc : {"idle", "queued", "routed", "waiting", "decide", "answer"},
                           n : 0..MaxCalls, srv : Servers \cup {None}, obj : Conns \cup {None},
                           ok : BOOLEAN]]
    /\ acked \in SUBSET [id : Ids, srv : Servers]

GroupTypes ==
    /\ links \in SUBSET (Servers \X Servers) /\ connected \in SUBSET Servers
    /\ procs \in [Servers -> Nat]
    /\ proc \in [Conns -> {"none", "init", "up", "saved", "dead"}]
    /\ disk \in [Conns -> SUBSET Ids]
    /\ saved \in [Servers -> SUBSET Ids]
    /\ tst \in [pc : {"rest", "delete", "checkpoint", "kill", "waitInit", "add", "connect", "partition"},
                srv : Servers \cup {None}, parted : BOOLEAN, p1 : SUBSET Servers, todo : SUBSET Servers]

TypeOK == DemuxTypes /\ NetTypes /\ GroupTypes

-----------------------------------------------------------------------------
(* The life of a process *)

\* A process that the network may have got to know: AddServer ran after InitDaemon.
Known(x) == proc[x] \in {"up", "saved", "dead"}

\* Processes are numbered in the order in which they start.
ProcessesNumbered ==
    /\ \A s \in Servers : Process(s) \in Conns
    /\ \A x \in Conns : x[2] > procs[x[1]] => proc[x] = "none"

\* The network's table names processes that run.
TableIsLive ==
    \A s \in Servers : servers[s] # None => servers[s] = Process(s) /\ proc[Process(s)] = "up"

\* A server that is not in the table has ended, unless the tester is at work on it.
OthersEnded ==
    \A s \in Servers :
        servers[s] = None => proc[Process(s)] = "dead" \/ (s = tst.srv /\ ~At("rest"))

\* What the tester's steps have done for the server they are at work on.
TesterAtWork ==
    /\ tst.pc \notin {"rest", "partition"} => tst.srv \in Servers
    /\ At("delete") => servers[tst.srv] # None \/ proc[Process(tst.srv)] = "dead"
    /\ tst.pc \in {"checkpoint", "kill", "waitInit", "add"} => servers[tst.srv] = None
    /\ tst.pc \in {"checkpoint", "add"} => proc[Process(tst.srv)] = "up"
    /\ At("kill") => proc[Process(tst.srv)] = "saved"
    /\ At("waitInit") => proc[Process(tst.srv)] \in {"init", "up"}
    /\ At("connect") => servers[tst.srv] # None
    /\ At("partition") => Running = Servers /\ tst.parted

ProcessInv == ProcessesNumbered /\ TableIsLive /\ OthersEnded /\ TesterAtWork

-----------------------------------------------------------------------------
(* Links *)

LinkInv ==
    /\ connected \subseteq Running
    /\ At("delete") => tst.srv \notin connected
    /\ links \subseteq connected \X connected
    /\ \A i, j \in Servers : <<i, j>> \in links => <<j, i>> \in links
    /\ ~tst.parted => links = connected \X connected
    /\ \A c \in Clnts : clnt[c].enabled = clnt[c].ends \cap clnt[c].srvs

-----------------------------------------------------------------------------
(* Calls on their way *)

Sending(i) == disp[i].pc \in {"put", "write", "wait"}
OnWire(x) == wire[x].reqs \cup wire[x].ran \cup wire[x].reps

\* A call has its own identity, its dispatch starts once, on a process that has started.
CallsNumbered ==
    \A c \in Clnts :
        /\ call[c].pc # "idle" => call[c].n # 0 /\ call[c].srv \in Servers
        /\ call[c].pc \in {"queued", "routed"} => disp[Id(c)].pc = "none"
        /\ \A n \in 1..MaxCalls : n > call[c].n => disp[<<c, n>>].pc = "none"
        /\ call[c].pc \in {"routed", "waiting", "decide"} => call[c].obj \in Conns /\ Known(call[c].obj)
        /\ call[c].pc = "waiting" /\ Sending(Id(c)) => disp[Id(c)].conn = call[c].obj

SendersKnown == \A i \in Ids : Sending(i) => disp[i].conn \in Conns /\ Known(disp[i].conn)

\* The callMap and the goroutines in SendReceive agree on the tags.
TagsTaken ==
    /\ \A x \in Conns : \A t \in DOMAIN dmx[x].calls :
         /\ t < dmx[x].nextTag
         /\ disp[dmx[x].calls[t]].pc \in {"write", "wait"}
         /\ disp[dmx[x].calls[t]].conn = x /\ disp[dmx[x].calls[t]].tag = t
    /\ \A i \in Ids : disp[i].pc \in {"write", "wait"} =>
         /\ disp[i].tag \in DOMAIN dmx[disp[i].conn].calls
         /\ dmx[disp[i].conn].calls[disp[i].tag] = i

\* A message is at one place, and its call waits for it.
MessagesAwaited ==
    \A x \in Conns :
        /\ \A m \in OnWire(x) : /\ m.tag \in DOMAIN dmx[x].calls
                                /\ dmx[x].calls[m.tag] = m.id /\ disp[m.id].pc = "wait"
        /\ wire[x].reqs \cap wire[x].ran = {} /\ wire[x].reqs \cap wire[x].reps = {}
        /\ wire[x].ran \cap wire[x].reps = {}

\* The reader closes the map when nothing can come any more.
ReaderLast ==
    \A x \in Conns :
        /\ dmx[x].reader # "fatal"
        /\ ~wire[x].open => wire[x].reqs = {} /\ wire[x].ran = {}
        /\ dmx[x].reader \in {"closed", "failing"} =>
             ~wire[x].open /\ wire[x].reps = {} /\ dmx[x].closed
        /\ dmx[x].reader = "failing" => dmx[x].failing \subseteq DOMAIN dmx[x].calls

CallInv == CallsNumbered /\ SendersKnown /\ TagsTaken /\ MessagesAwaited /\ ReaderLast

-----------------------------------------------------------------------------
(* What is saved *)

\* In the persister that the server's process has, or that the next one will get.
Safe(i, s) ==
    i \in IF proc[Process(s)] \in {"init", "up"} THEN disk[Process(s)] ELSE saved[s]

\* While process x runs, its persister has call i.
Stored(i, x) == proc[x] \in {"up", "saved"} => i \in disk[x]

SavedInv ==
    /\ \A x \in Conns : \A m \in wire[x].ran \cup wire[x].reps : Stored(m.id, x)
    /\ \A c \in Clnts :
         /\ call[c].pc \in {"queued", "routed", "waiting"} => ~call[c].ok
         /\ call[c].pc = "waiting" /\ disp[Id(c)].pc = "got" /\ disp[Id(c)].ok => Stored(Id(c), call[c].obj)
         /\ call[c].pc = "decide" /\ call[c].ok => Stored(Id(c), call[c].obj)
         /\ call[c].pc = "answer" /\ call[c].ok => Safe(Id(c), call[c].srv)
    /\ \A a \in acked : Safe(a.id, a.srv)

-----------------------------------------------------------------------------
(* Call maps *)

\* A new callMap.
LEMMA CallMapEmpty == <<>> \in CallMap /\ DOMAIN <<>> = {}
<1>1. DOMAIN <<>> = {}
  OBVIOUS
<1>2. <<>> \in [{} -> Ids]
  OBVIOUS
<1> QED
  BY <1>1, <1>2 DEF CallMap

\* The entries of a callMap.
LEMMA CallMapApply ==
    ASSUME NEW f \in CallMap
    PROVE  DOMAIN f \in SUBSET Nat /\ \A t \in DOMAIN f : f[t] \in Ids
<1>1. PICK D \in SUBSET Nat : f \in [D -> Ids]
  BY DEF CallMap
<1> QED
  BY <1>1

\* callMap.put.
LEMMA CallMapPut ==
    ASSUME NEW f \in CallMap, NEW t \in Nat, NEW i \in Ids, NEW g,
           g = [u \in DOMAIN f \cup {t} |-> IF u = t THEN i ELSE f[u]]
    PROVE  /\ g \in CallMap /\ DOMAIN g = DOMAIN f \cup {t} /\ g[t] = i
           /\ \A u \in DOMAIN f : u # t => g[u] = f[u]
<1>1. DOMAIN f \cup {t} \in SUBSET Nat /\ \A u \in DOMAIN f : f[u] \in Ids
  BY CallMapApply
<1>2. g \in [DOMAIN f \cup {t} -> Ids]
  BY <1>1
<1>3. g \in CallMap
  BY <1>1, <1>2 DEF CallMap
<1> QED
  BY <1>3

\* callMap.remove.
LEMMA CallMapRemove ==
    ASSUME NEW f \in CallMap, NEW t, NEW g, g = [u \in DOMAIN f \ {t} |-> f[u]]
    PROVE  /\ g \in CallMap /\ DOMAIN g = DOMAIN f \ {t}
           /\ \A u \in DOMAIN g : g[u] = f[u]
<1>1. DOMAIN f \ {t} \in SUBSET Nat /\ \A u \in DOMAIN f : f[u] \in Ids
  BY CallMapApply
<1>2. g \in [DOMAIN f \ {t} -> Ids]
  BY <1>1
<1>3. g \in CallMap
  BY <1>1, <1>2 DEF CallMap
<1> QED
  BY <1>3

-----------------------------------------------------------------------------
(* Types *)

\* The fields of a connection and of a dispatch.
LEMMA DemuxFields ==
    ASSUME DemuxTypes
    PROVE  /\ \A x \in Conns :
                /\ dmx[x].nextTag \in Nat /\ dmx[x].calls \in CallMap /\ dmx[x].closed \in BOOLEAN
                /\ dmx[x].failing \in SUBSET Nat
                /\ wire[x].open \in BOOLEAN /\ wire[x].reqs \in SUBSET Message
                /\ wire[x].ran \in SUBSET Message /\ wire[x].reps \in SUBSET Message
           /\ \A i \in Ids : /\ disp[i].conn \in Conns \cup {None} /\ disp[i].tag \in Nat
                             /\ disp[i].ok \in BOOLEAN
           /\ \A x \in Conns : \A t \in DOMAIN dmx[x].calls : t \in Nat /\ dmx[x].calls[t] \in Ids
           /\ \A m \in Message : m.tag \in Nat /\ m.id \in Ids /\ m = Msg(m.tag, m.id)
<1>1. /\ \A x \in Conns :
                /\ dmx[x].nextTag \in Nat /\ dmx[x].calls \in CallMap /\ dmx[x].closed \in BOOLEAN
                /\ dmx[x].failing \in SUBSET Nat
  BY DEF DemuxTypes
<1>2. \A x \in Conns : /\ wire[x].open \in BOOLEAN /\ wire[x].reqs \in SUBSET Message
                       /\ wire[x].ran \in SUBSET Message /\ wire[x].reps \in SUBSET Message
  BY DEF DemuxTypes
<1>3. \A i \in Ids : disp[i].conn \in Conns \cup {None} /\ disp[i].tag \in Nat /\ disp[i].ok \in BOOLEAN
  BY DEF DemuxTypes
<1>4. \A x \in Conns : \A t \in DOMAIN dmx[x].calls : t \in Nat /\ dmx[x].calls[t] \in Ids
  BY <1>1, CallMapApply
<1>5. \A m \in Message : m.tag \in Nat /\ m.id \in Ids /\ m = Msg(m.tag, m.id)
  BY DEF Message, Msg
<1> QED
  BY <1>1, <1>2, <1>3, <1>4, <1>5

-----------------------------------------------------------------------------
(* The tester's operations: processes *)

ProcessVars == <<servers, procs, proc, tst>>

\* Where nothing that it speaks of changes, the invariant of the processes holds on.
LEMMA SameProcesses ==
    ASSUME ProcessInv, UNCHANGED ProcessVars
    PROVE  ProcessInv'
  BY DEF ProcessInv, ProcessVars, ProcessesNumbered, TableIsLive, OthersEnded, TesterAtWork, Process, At, Running

\* The same when the tester only begins an operation, or ends one after which the
\* server is as it should be.
LEMMA TesterMoves ==
    ASSUME GroupTypes, ProcessInv, UNCHANGED <<servers, procs, proc>>, TesterAtWork',
           At("rest") \/ servers[tst.srv] # None
    PROVE  ProcessInv'
<1>1. ProcessesNumbered' /\ TableIsLive'
  BY DEF ProcessInv, ProcessesNumbered, TableIsLive, Process
<1>2. OthersEnded'
  <2> SUFFICES ASSUME NEW s \in Servers, servers[s] = None PROVE proc[Process(s)] = "dead"
    BY DEF OthersEnded, Process
  <2> QED
    BY DEF ProcessInv, OthersEnded
<1> QED
  BY <1>1, <1>2 DEF ProcessInv

\* The fields of tst after a step of the tester.
LEMMA GotoFields ==
    ASSUME GroupTypes, NEW pc \in {"rest", "delete", "checkpoint", "kill", "waitInit", "add", "connect"},
           NEW s \in Servers \cup {None}, Goto(pc, s)
    PROVE  /\ tst' \in [pc : {"rest", "delete", "checkpoint", "kill", "waitInit", "add", "connect", "partition"},
                        srv : Servers \cup {None}, parted : BOOLEAN, p1 : SUBSET Servers,
                        todo : SUBSET Servers]
           /\ tst'.pc = pc /\ tst'.srv = s /\ tst'.parted = tst.parted
  BY DEF GroupTypes, Goto

\* Connecting, disconnecting and partitioning do not touch a process.
LEMMA LinkOpsKeepProcesses ==
    ASSUME GroupTypes, ProcessInv,
           \/ \E s \in Servers : ConnectOne(s) \/ DisconnectAll(s)
           \/ \E p1 \in SUBSET Servers : Partition(p1)
           \/ \E s \in tst.todo : PartitionOne(s)
           \/ ConnectStarted
    PROVE  ProcessInv'
<1>1. servers' = servers /\ procs' = procs /\ proc' = proc
  BY DEF ConnectOne, DisconnectAll, Partition, PartitionOne, ConnectStarted, netVars
<1>2. CASE \E s \in Servers : ConnectOne(s) \/ DisconnectAll(s)
  <2>1. tst' = tst
    BY <1>2 DEF ConnectOne, DisconnectAll
  <2> QED
    BY <1>1, <2>1, SameProcesses DEF ProcessVars
<1>3. CASE \E p1 \in SUBSET Servers : Partition(p1)
  <2>1. tst'.pc = "partition" /\ tst'.parted = TRUE /\ Running = Servers /\ At("rest")
    BY <1>3 DEF Partition, NewOp, GroupTypes, At
  <2>2. TesterAtWork'
    BY <1>1, <2>1 DEF TesterAtWork, At, Running
  <2> QED
    BY <1>1, <2>1, <2>2, TesterMoves
<1>4. CASE \E s \in tst.todo : PartitionOne(s)
  <2>1. tst'.pc \in {"rest", "partition"} /\ tst'.parted = tst.parted /\ At("partition")
    BY <1>4 DEF PartitionOne, GroupTypes
  <2>2. Running = Servers /\ tst.parted
    BY <2>1 DEF ProcessInv, TesterAtWork
  <2>3. TesterAtWork'
    BY <1>1, <2>1, <2>2 DEF TesterAtWork, At, Running
  <2>4. ProcessesNumbered' /\ TableIsLive'
    BY <1>1 DEF ProcessInv, ProcessesNumbered, TableIsLive, Process
  <2>5. OthersEnded'
    BY <1>1, <2>2 DEF OthersEnded, Running
  <2> QED
    BY <2>3, <2>4, <2>5 DEF ProcessInv
<1>5. CASE ConnectStarted
  <2>1. At("connect") /\ Goto("rest", None)
    BY <1>5 DEF ConnectStarted
  <2>2. tst'.pc = "rest"
    BY <2>1, GotoFields
  <2>3. servers[tst.srv] # None
    BY <2>1 DEF ProcessInv, TesterAtWork
  <2>4. TesterAtWork'
    BY <2>2 DEF TesterAtWork, At
  <2> QED
    BY <1>1, <2>3, <2>4, TesterMoves
<1> QED
  BY <1>2, <1>3, <1>4, <1>5

\* ShutdownServer up to its first lock: the server is in the table or has ended.
LEMMA ShutdownProcesses ==
    ASSUME GroupTypes, ProcessInv, NEW s \in Servers, Shutdown(s)
    PROVE  ProcessInv'
<1>1. servers' = servers /\ procs' = procs /\ proc' = proc /\ At("rest")
  BY DEF Shutdown, netVars, NewOp, At
<1>2. tst'.pc = "delete" /\ tst'.srv = s
  BY GotoFields DEF Shutdown
<1>3. servers[s] # None \/ proc[Process(s)] = "dead"
  BY <1>1 DEF ProcessInv, OthersEnded
<1>4. TesterAtWork'
  BY <1>1, <1>2, <1>3 DEF TesterAtWork, At, Process
<1> QED
  BY <1>1, <1>4, TesterMoves

\* The table loses the server that the tester is about to save.
LEMMA DeleteServerProcesses ==
    ASSUME TypeOK, ProcessInv, DeleteServer
    PROVE  ProcessInv'
<1>1. PICK s : s = tst.srv
  OBVIOUS
<1>2. s \in Servers /\ At("delete")
  BY <1>1 DEF ProcessInv, TesterAtWork, DeleteServer, At
<1>3. /\ procs' = procs /\ proc' = proc /\ servers'[s] = None
      /\ \A r \in Servers : r # s => servers'[r] = servers[r]
  BY <1>1, <1>2 DEF DeleteServer, TypeOK, NetTypes
<1>4. ProcessesNumbered' /\ TableIsLive'
  BY <1>3 DEF ProcessInv, ProcessesNumbered, TableIsLive, Process
<1>5. CASE servers[s] = None
  <2>1. Goto("rest", None)
    BY <1>1, <1>5 DEF DeleteServer
  <2>2. tst'.pc = "rest"
    BY <2>1, GotoFields DEF TypeOK
  <2>3. proc[Process(s)] = "dead"
    BY <1>1, <1>2, <1>5 DEF ProcessInv, TesterAtWork
  <2>4. TesterAtWork'
    BY <2>2 DEF TesterAtWork, At
  <2>5. OthersEnded'
    BY <1>1, <1>3, <2>3 DEF ProcessInv, OthersEnded, Process
  <2> QED
    BY <1>4, <2>4, <2>5 DEF ProcessInv
<1>6. CASE servers[s] # None
  <2>1. Goto("checkpoint", s)
    BY <1>1, <1>6 DEF DeleteServer
  <2>2. tst'.pc = "checkpoint" /\ tst'.srv = s
    BY <1>2, <2>1, GotoFields DEF TypeOK
  <2>3. proc[Process(s)] = "up"
    BY <1>2, <1>6 DEF ProcessInv, TableIsLive
  <2>4. TesterAtWork'
    BY <1>2, <1>3, <2>2, <2>3 DEF TesterAtWork, At, Process
  <2>5. OthersEnded'
    BY <1>1, <1>3, <2>2 DEF ProcessInv, OthersEnded, Process, At
  <2> QED
    BY <1>4, <2>4, <2>5 DEF ProcessInv
<1> QED
  BY <1>5, <1>6

\* Two servers have two processes.
LEMMA ProcessesDiffer ==
    ASSUME NEW r, NEW s, r # s
    PROVE  Process(r) # Process(s)
  BY DEF Process

\* Of the tester's own steps on a server that is not in the table: only the state of
\* that server's process changes.
LEMMA ProcessMoves ==
    ASSUME GroupTypes, ProcessInv, NEW s \in Servers, s = tst.srv, servers[s] = None, servers' = servers,
           procs' = procs, NEW p, p # "none", proc' = [proc EXCEPT ![Process(s)] = p],
           proc[Process(s)] # "none", TesterAtWork', (tst'.pc # "rest" /\ tst'.srv = s) \/ p = "dead"
    PROVE  ProcessInv'
<1>1. Process(s) \in Conns /\ procs[s] \in Nat /\ Process(s) = <<s, procs[s]>>
  BY DEF ProcessInv, ProcessesNumbered, GroupTypes, Process
<1>2. proc'[Process(s)] = p /\ \A x \in Conns : x # Process(s) => proc'[x] = proc[x]
  BY <1>1 DEF GroupTypes
<1>3. \A r \in Servers : Process(r) \in Conns /\ (r # s => Process(r) # Process(s))
  BY ProcessesDiffer DEF ProcessInv, ProcessesNumbered
<1>4. ProcessesNumbered'
  <2>1. \A x \in Conns : x[2] > procs[x[1]] => x # Process(s) /\ proc[x] = "none"
    BY DEF ProcessInv, ProcessesNumbered
  <2> QED
    BY <1>2, <1>3, <2>1 DEF ProcessesNumbered, Process
<1>5. TableIsLive'
  BY <1>2, <1>3 DEF ProcessInv, TableIsLive, Process
<1>6. OthersEnded'
  <2> SUFFICES ASSUME NEW r \in Servers, servers[r] = None
               PROVE  proc'[Process(r)] = "dead" \/ (r = tst'.srv /\ tst'.pc # "rest")
    BY DEF OthersEnded, At, Process
  <2>1. CASE r = s
    BY <1>2, <2>1
  <2>2. CASE r # s
    BY <1>2, <1>3, <2>2 DEF ProcessInv, OthersEnded
  <2> QED
    BY <2>1, <2>2
<1> QED
  BY <1>4, <1>5, <1>6 DEF ProcessInv

\* CheckpointPersister: the process is up until then.
LEMMA CheckpointProcesses ==
    ASSUME GroupTypes, ProcessInv, CheckpointPersister
    PROVE  ProcessInv'
<1>1. PICK s : s = tst.srv
  OBVIOUS
<1>2. s \in Servers /\ servers[s] = None /\ proc[Process(s)] = "up" /\ Process(s) \in Conns
  BY <1>1 DEF ProcessInv, TesterAtWork, CheckpointPersister, At, ProcessesNumbered
<1>3. servers' = servers /\ procs' = procs /\ proc' = [proc EXCEPT ![Process(s)] = "saved"]
  BY <1>1 DEF CheckpointPersister, netVars
<1>4. tst'.pc = "kill" /\ tst'.srv = s
  BY <1>1, <1>2, GotoFields DEF CheckpointPersister
<1>5. TesterAtWork'
  BY <1>2, <1>3, <1>4 DEF TesterAtWork, At, Process, GroupTypes
<1> QED
  BY <1>1, <1>2, <1>3, <1>4, <1>5, ProcessMoves

\* Kill: the process ends.
LEMMA KillProcesses ==
    ASSUME GroupTypes, ProcessInv, Kill
    PROVE  ProcessInv'
<1>1. PICK s : s = tst.srv
  OBVIOUS
<1>2. s \in Servers /\ servers[s] = None /\ proc[Process(s)] = "saved" /\ Process(s) \in Conns
  BY <1>1 DEF ProcessInv, TesterAtWork, Kill, At, ProcessesNumbered
<1>3. servers' = servers /\ procs' = procs /\ proc' = [proc EXCEPT ![Process(s)] = "dead"]
  BY <1>1 DEF Kill, netVars
<1>4. tst'.pc = "rest"
  BY GotoFields DEF Kill
<1>5. TesterAtWork'
  BY <1>4 DEF TesterAtWork, At
<1> QED
  BY <1>1, <1>2, <1>3, <1>5, ProcessMoves

\* InitDaemon: a process that the tester waits for comes up.
LEMMA InitDaemonProcesses ==
    ASSUME GroupTypes, ProcessInv, NEW x \in Conns, InitDaemon(x)
    PROVE  ProcessInv'
<1>1. servers' = servers /\ procs' = procs /\ tst' = tst /\ proc[x] = "init"
  BY DEF InitDaemon, netVars
<1>2. proc'[x] = "up" /\ \A y \in Conns : y # x => proc'[y] = proc[y]
  BY DEF InitDaemon, GroupTypes
<1>3. \A s \in Servers : Process(s) \in Conns /\ Process(s)' = Process(s)
  BY <1>1 DEF ProcessInv, ProcessesNumbered, Process
<1>4. ProcessesNumbered'
  BY <1>1, <1>2, <1>3 DEF ProcessInv, ProcessesNumbered
<1>5. TableIsLive'
  BY <1>1, <1>2, <1>3 DEF ProcessInv, TableIsLive
<1>6. OthersEnded'
  BY <1>1, <1>2, <1>3 DEF ProcessInv, OthersEnded, At
<1>7. TesterAtWork'
  BY <1>1, <1>2, <1>3 DEF ProcessInv, TesterAtWork, At, Running
<1> QED
  BY <1>4, <1>5, <1>6, <1>7 DEF ProcessInv

\* WaitInit: the tester goes on when the process is up.
LEMMA WaitInitProcesses ==
    ASSUME GroupTypes, ProcessInv, WaitInit
    PROVE  ProcessInv'
<1>1. PICK s : s = tst.srv
  OBVIOUS
<1>2. s \in Servers /\ servers[s] = None /\ proc[Process(s)] = "up"
  BY <1>1 DEF ProcessInv, TesterAtWork, WaitInit, At
<1>3. servers' = servers /\ procs' = procs /\ proc' = proc
  BY DEF WaitInit, netVars
<1>4. tst'.pc = "add" /\ tst'.srv = s
  BY <1>1, <1>2, GotoFields DEF WaitInit
<1>5. TesterAtWork'
  BY <1>2, <1>3, <1>4 DEF TesterAtWork, At, Process
<1>6. ProcessesNumbered' /\ TableIsLive'
  BY <1>3 DEF ProcessInv, ProcessesNumbered, TableIsLive, Process
<1>7. OthersEnded'
  BY <1>1, <1>3, <1>4 DEF ProcessInv, OthersEnded, At, Process
<1> QED
  BY <1>5, <1>6, <1>7 DEF ProcessInv

\* AddServer: the table gets a process that is up.
LEMMA AddServerProcesses ==
    ASSUME TypeOK, ProcessInv, AddServer
    PROVE  ProcessInv'
<1>1. PICK s : s = tst.srv
  OBVIOUS
<1>2. s \in Servers /\ proc[Process(s)] = "up" /\ Process(s) \in Conns
  BY <1>1 DEF ProcessInv, TesterAtWork, AddServer, At, ProcessesNumbered
<1>3. /\ procs' = procs /\ proc' = proc /\ servers'[s] = Process(s)
      /\ \A r \in Servers : r # s => servers'[r] = servers[r]
  BY <1>1, <1>2 DEF AddServer, TypeOK, NetTypes
<1>4. tst'.pc = "connect" /\ tst'.srv = s
  BY <1>1, <1>2, GotoFields DEF AddServer, TypeOK
<1>5. Process(s) # None
  BY <1>2, NoneAssumption
<1>6. TesterAtWork'
  BY <1>2, <1>3, <1>4, <1>5 DEF TesterAtWork, At
<1>7. ProcessesNumbered' /\ TableIsLive'
  BY <1>2, <1>3 DEF ProcessInv, ProcessesNumbered, TableIsLive, Process
<1>8. OthersEnded'
  BY <1>1, <1>3, <1>4, <1>5 DEF ProcessInv, OthersEnded, At, Process
<1> QED
  BY <1>6, <1>7, <1>8 DEF ProcessInv

\* StartServer: the new process has a number that no process had, and nobody knows it.
LEMMA StartServerProcesses ==
    ASSUME TypeOK, ProcessInv, NEW s \in Servers, StartServer(s)
    PROVE  /\ ProcessInv' /\ <<s, procs[s] + 1>> \in Conns /\ proc[<<s, procs[s] + 1>>] = "none"
           /\ proc[Process(s)] = "dead" /\ Process(s)' = <<s, procs[s] + 1>>
           /\ \A r \in Servers : r # s => Process(r)' = Process(r)
<1>1. PICK x : x = <<s, procs[s] + 1>>
  OBVIOUS
<1>2. /\ x \in Conns /\ servers[s] = None /\ servers' = servers /\ At("rest")
      /\ procs' = [procs EXCEPT ![s] = @ + 1] /\ proc' = [proc EXCEPT ![x] = "init"]
  BY <1>1 DEF StartServer, netVars, NewOp, At, runDaemon
<1>3. procs[s] \in Nat /\ procs'[s] = procs[s] + 1 /\ \A r \in Servers : r # s => procs'[r] = procs[r]
  BY <1>2 DEF TypeOK, GroupTypes
<1>4. Process(s)' = x /\ \A r \in Servers : r # s => Process(r)' = Process(r)
  BY <1>1, <1>3 DEF Process
<1>5. proc[x] = "none"
  <2>1. x[1] = s /\ x[2] = procs[s] + 1 /\ x[2] > procs[x[1]]
    BY <1>1, <1>3
  <2> QED
    BY <1>2, <2>1 DEF ProcessInv, ProcessesNumbered
<1>6. proc'[x] = "init" /\ \A y \in Conns : y # x => proc'[y] = proc[y]
  BY <1>2 DEF TypeOK, GroupTypes
<1>7. proc[Process(s)] = "dead"
  BY <1>2 DEF ProcessInv, OthersEnded
<1>8. tst'.pc = "waitInit" /\ tst'.srv = s
  BY GotoFields DEF StartServer, TypeOK
<1>9. TesterAtWork'
  BY <1>2, <1>4, <1>6, <1>8 DEF TesterAtWork, At
<1>10. ProcessesNumbered'
  <2>1. \A r \in Servers : Process(r)' \in Conns
    BY <1>2, <1>4 DEF ProcessInv, ProcessesNumbered
  <2>2. ASSUME NEW y \in Conns, y[2] > procs'[y[1]] PROVE proc'[y] = "none"
    <3>1. PICK r \in Servers, k \in Nat : y = <<r, k>>
      BY ConnsAssumption
    <3>2. y[1] = r /\ y[2] = k /\ k > procs'[r]
      BY <2>2, <3>1
    <3>3. procs[r] \in Nat /\ procs'[r] >= procs[r] /\ procs'[r] \in Nat
      BY <1>2 DEF TypeOK, GroupTypes
    <3>4. k > procs[r] /\ y # x
      BY <1>1, <1>3, <3>1, <3>2, <3>3
    <3>5. proc[y] = "none"
      BY <3>2, <3>4 DEF ProcessInv, ProcessesNumbered
    <3> QED
      BY <1>6, <3>4, <3>5
  <2> QED
    BY <2>1, <2>2 DEF ProcessesNumbered
<1>11. TableIsLive'
  <2> SUFFICES ASSUME NEW r \in Servers, servers[r] # None
               PROVE  servers[r] = Process(r)' /\ proc'[Process(r)'] = "up"
    BY <1>2 DEF TableIsLive
  <2>1. r # s /\ servers[r] = Process(r) /\ proc[Process(r)] = "up" /\ Process(r) \in Conns
    BY <1>2 DEF ProcessInv, TableIsLive, ProcessesNumbered
  <2> QED
    BY <1>4, <1>5, <1>6, <2>1
<1>12. OthersEnded'
  <2> SUFFICES ASSUME NEW r \in Servers, servers[r] = None, r # s
               PROVE  proc'[Process(r)'] = "dead"
    BY <1>2, <1>8 DEF OthersEnded, At
  <2>1. proc[Process(r)] = "dead" /\ Process(r) \in Conns
    BY <1>2 DEF ProcessInv, OthersEnded, ProcessesNumbered
  <2> QED
    BY <1>4, <1>5, <1>6, <2>1
<1> QED
  BY <1>1, <1>2, <1>4, <1>5, <1>7, <1>9, <1>10, <1>11, <1>12 DEF ProcessInv

-----------------------------------------------------------------------------
(* The tester's operations: links *)

\* Enabled ends between connected servers, both ways, and all of them if all is set.
LinksBetween(ls, conn, all) ==
    /\ \A a, b \in Servers : <<a, b>> \in ls => a \in conn /\ b \in conn /\ <<b, a>> \in ls
    /\ all => \A a, b \in conn : <<a, b>> \in ls

\* The same, as the properties say it.
LEMMA LinksBetweenMeans ==
    ASSUME NEW ls \in SUBSET (Servers \X Servers), NEW conn \in SUBSET Servers, NEW all
    PROVE  LinksBetween(ls, conn, all) <=>
               /\ ls \subseteq conn \X conn
               /\ \A i, j \in Servers : <<i, j>> \in ls => <<j, i>> \in ls
               /\ all => ls = conn \X conn
<1>1. ASSUME LinksBetween(ls, conn, all)
      PROVE  /\ ls \subseteq conn \X conn
             /\ \A i, j \in Servers : <<i, j>> \in ls => <<j, i>> \in ls
             /\ all => ls = conn \X conn
  <2>1. ASSUME NEW l \in ls PROVE l \in conn \X conn
    <3>1. PICK a, b \in Servers : l = <<a, b>>
      OBVIOUS
    <3> QED
      BY <1>1, <3>1 DEF LinksBetween
  <2>2. all => ls = conn \X conn
    BY <1>1, <2>1 DEF LinksBetween
  <2> QED
    BY <1>1, <2>1, <2>2 DEF LinksBetween
<1>2. ASSUME ls \subseteq conn \X conn,
             \A i, j \in Servers : <<i, j>> \in ls => <<j, i>> \in ls,
             all => ls = conn \X conn
      PROVE  LinksBetween(ls, conn, all)
  BY <1>2 DEF LinksBetween
<1> QED
  BY <1>1, <1>2

\* Connecting a server with a side keeps the ends between connected servers.
LEMMA ConnectKeepsLinks ==
    ASSUME NEW i \in Servers, NEW to \in SUBSET Servers, NEW conn \in SUBSET Servers,
           NEW ls \in SUBSET (Servers \X Servers), NEW all, LinksBetween(ls, conn, all),
           i \in to, all => to = Servers
    PROVE  /\ Connect(i, to, conn, ls) \in SUBSET (Servers \X Servers)
           /\ LinksBetween(Connect(i, to, conn, ls), conn \cup {i}, all)
<1>0. PICK l2 : l2 = Connect(i, to, conn, ls)
  OBVIOUS
<1>1. /\ l2 \in SUBSET (Servers \X Servers)
      /\ \A a, b \in Servers : <<a, b>> \in l2 <=>
                \/ <<a, b>> \in ls
                \/ a = i /\ b \in to /\ b \in conn \cup {i}
                \/ b = i /\ a \in to /\ a \in conn \cup {i}
  BY <1>0 DEF Connect, connect
<1>2. \A a, b \in Servers : <<a, b>> \in l2 => a \in conn \cup {i} /\ b \in conn \cup {i} /\ <<b, a>> \in l2
  BY <1>1 DEF LinksBetween
<1>3. all => \A a, b \in conn \cup {i} : <<a, b>> \in l2
  BY <1>1 DEF LinksBetween
<1>4. LinksBetween(l2, conn \cup {i}, all)
  BY <1>2, <1>3 DEF LinksBetween
<1> QED
  BY <1>0, <1>1, <1>4

\* Disconnecting a server from all others leaves the ends between the rest.
LEMMA DisconnectKeepsLinks ==
    ASSUME NEW i \in Servers, NEW conn \in SUBSET Servers,
           NEW ls \in SUBSET (Servers \X Servers), NEW all, LinksBetween(ls, conn, all)
    PROVE  /\ Disconnect(i, Servers, ls) \in SUBSET (Servers \X Servers)
           /\ LinksBetween(Disconnect(i, Servers, ls), conn \ {i}, all)
<1>0. PICK l2 : l2 = Disconnect(i, Servers, ls)
  OBVIOUS
<1>1. /\ l2 \in SUBSET (Servers \X Servers)
      /\ \A a, b \in Servers : <<a, b>> \in l2 <=> <<a, b>> \in ls /\ a # i /\ b # i
  BY <1>0 DEF Disconnect, disconnect
<1>2. \A a, b \in Servers : <<a, b>> \in l2 => a \in conn \ {i} /\ b \in conn \ {i} /\ <<b, a>> \in l2
  BY <1>1 DEF LinksBetween
<1>3. all => \A a, b \in conn \ {i} : <<a, b>> \in l2
  BY <1>1 DEF LinksBetween
<1>4. LinksBetween(l2, conn \ {i}, all)
  BY <1>2, <1>3 DEF LinksBetween
<1> QED
  BY <1>0, <1>1, <1>4

\* Disconnecting a server from the other side keeps both directions alike.
LEMMA DisconnectSideKeepsLinks ==
    ASSUME NEW i \in Servers, NEW from \in SUBSET Servers, NEW conn \in SUBSET Servers,
           NEW ls \in SUBSET (Servers \X Servers), LinksBetween(ls, conn, FALSE)
    PROVE  /\ Disconnect(i, from, ls) \in SUBSET (Servers \X Servers)
           /\ LinksBetween(Disconnect(i, from, ls), conn, FALSE)
<1>0. PICK l2 : l2 = Disconnect(i, from, ls)
  OBVIOUS
<1>1. /\ l2 \in SUBSET (Servers \X Servers)
      /\ \A a, b \in Servers : <<a, b>> \in l2 <=>
                /\ <<a, b>> \in ls
                /\ ~(a = i /\ b \in from) /\ ~(b = i /\ a \in from)
  BY <1>0 DEF Disconnect, disconnect
<1>2. \A a, b \in Servers : <<a, b>> \in l2 => a \in conn /\ b \in conn /\ <<b, a>> \in l2
  BY <1>1 DEF LinksBetween
<1>3. LinksBetween(l2, conn, FALSE)
  BY <1>2 DEF LinksBetween
<1> QED
  BY <1>0, <1>1, <1>3

\* The part of the invariant about the servers' links.
LEMMA LinkInvMeans ==
    ASSUME GroupTypes
    PROVE  LinkInv <=>
               /\ connected \subseteq Running
               /\ At("delete") => tst.srv \notin connected
               /\ LinksBetween(links, connected, ~tst.parted)
               /\ \A c \in Clnts : clnt[c].enabled = clnt[c].ends \cap clnt[c].srvs
<1>1. links \in SUBSET (Servers \X Servers) /\ connected \in SUBSET Servers
  BY DEF GroupTypes
<1> QED
  BY <1>1, LinksBetweenMeans DEF LinkInv

\* The invariant after a step, from what the step gives.
LEMMA LinkInvAfter ==
    ASSUME links' \in SUBSET (Servers \X Servers), connected' \in SUBSET Servers,
           LinksBetween(links', connected', ~tst'.parted), connected' \subseteq Running',
           tst'.pc = "delete" => tst'.srv \notin connected',
           \A c \in Clnts : clnt'[c].enabled = clnt'[c].ends \cap clnt'[c].srvs
    PROVE  LinkInv'
<1>1. /\ links' \subseteq connected' \X connected'
      /\ \A i, j \in Servers : <<i, j>> \in links' => <<j, i>> \in links'
      /\ ~tst'.parted => links' = connected' \X connected'
  <2>1. PICK ls, conn, all : ls = links' /\ conn = connected' /\ all = ~tst'.parted
    OBVIOUS
  <2>2. ls \in SUBSET (Servers \X Servers) /\ conn \in SUBSET Servers /\ LinksBetween(ls, conn, all)
    BY <2>1
  <2>3. /\ ls \subseteq conn \X conn
        /\ \A i, j \in Servers : <<i, j>> \in ls => <<j, i>> \in ls
        /\ all => ls = conn \X conn
    BY <2>2, LinksBetweenMeans
  <2> QED
    BY <2>1, <2>3
<1> QED
  BY <1>1 DEF LinkInv, At

\* ConnectOne and ConnectStarted: a server of the table is connected with all others.
LEMMA ConnectOpLinks ==
    ASSUME TypeOK, LinkInv, NEW s \in Servers, servers[s] # None,
           links' = Connect(s, Servers, connected, links), connected' = connected \cup {s},
           servers' = servers, clnt' = clnt, tst'.pc # "delete", tst'.parted = tst.parted
    PROVE  links' \in SUBSET (Servers \X Servers) /\ connected' \in SUBSET Servers /\ LinkInv'
<1>1. /\ links \in SUBSET (Servers \X Servers) /\ connected \in SUBSET Servers
      /\ LinksBetween(links, connected, ~tst.parted) /\ connected \subseteq Running
      /\ \A c \in Clnts : clnt[c].enabled = clnt[c].ends \cap clnt[c].srvs
  BY LinkInvMeans DEF TypeOK, GroupTypes
<1>2. links' \in SUBSET (Servers \X Servers) /\ LinksBetween(links', connected', ~tst'.parted)
  <2>1. PICK all : all = ~tst.parted
    OBVIOUS
  <2>2. LinksBetween(links, connected, all) /\ Servers \in SUBSET Servers /\ (all => Servers = Servers)
    BY <1>1, <2>1
  <2>3. /\ Connect(s, Servers, connected, links) \in SUBSET (Servers \X Servers)
        /\ LinksBetween(Connect(s, Servers, connected, links), connected \cup {s}, all)
    BY <1>1, <2>2, ConnectKeepsLinks, Zenon
  <2> QED
    BY <2>1, <2>3
<1>3. connected' \in SUBSET Servers /\ connected' \subseteq Running'
  BY <1>1 DEF Running
<1> QED
  BY <1>1, <1>2, <1>3, LinkInvAfter

\* DisconnectAll and ShutdownServer: a server is cut off from all others.
LEMMA DisconnectOpLinks ==
    ASSUME TypeOK, LinkInv, NEW s \in Servers,
           links' = Disconnect(s, Servers, links), connected' = connected \ {s},
           servers' = servers, clnt' = clnt, tst'.pc = "delete" => tst'.srv = s,
           tst'.parted = tst.parted
    PROVE  links' \in SUBSET (Servers \X Servers) /\ connected' \in SUBSET Servers /\ LinkInv'
<1>1. /\ links \in SUBSET (Servers \X Servers) /\ connected \in SUBSET Servers
      /\ LinksBetween(links, connected, ~tst.parted) /\ connected \subseteq Running
      /\ \A c \in Clnts : clnt[c].enabled = clnt[c].ends \cap clnt[c].srvs
  BY LinkInvMeans DEF TypeOK, GroupTypes
<1>2. links' \in SUBSET (Servers \X Servers) /\ LinksBetween(links', connected', ~tst'.parted)
  <2>1. PICK all : all = ~tst.parted
    OBVIOUS
  <2>2. LinksBetween(links, connected, all)
    BY <1>1, <2>1
  <2>3. /\ Disconnect(s, Servers, links) \in SUBSET (Servers \X Servers)
        /\ LinksBetween(Disconnect(s, Servers, links), connected \ {s}, all)
    BY <1>1, <2>2, DisconnectKeepsLinks, Zenon
  <2> QED
    BY <2>1, <2>3
<1>3. connected' \in SUBSET Servers /\ connected' \subseteq Running'
  BY <1>1 DEF Running
<1> QED
  BY <1>1, <1>2, <1>3, LinkInvAfter

\* One turn of Partition: the server is cut off from the other side and connected with
\* its own.
LEMMA PartitionOneLinks ==
    ASSUME TypeOK, LinkInv, NEW s \in Servers, NEW side \in SUBSET Servers, s \in side, servers[s] # None,
           links' = Connect(s, side, connected, Disconnect(s, Servers \ side, links)),
           connected' = connected \cup {s},
           servers' = servers, clnt' = clnt, tst'.pc # "delete", tst'.parted = TRUE
    PROVE  links' \in SUBSET (Servers \X Servers) /\ connected' \in SUBSET Servers /\ LinkInv'
<1>1. /\ links \in SUBSET (Servers \X Servers) /\ connected \in SUBSET Servers
      /\ LinksBetween(links, connected, ~tst.parted) /\ connected \subseteq Running
      /\ \A c \in Clnts : clnt[c].enabled = clnt[c].ends \cap clnt[c].srvs
  BY LinkInvMeans DEF TypeOK, GroupTypes
<1>2. PICK ls : ls = Disconnect(s, Servers \ side, links)
  OBVIOUS
<1>3. LinksBetween(links, connected, FALSE)
  BY <1>1 DEF LinksBetween
<1>4. /\ Disconnect(s, Servers \ side, links) \in SUBSET (Servers \X Servers)
      /\ LinksBetween(Disconnect(s, Servers \ side, links), connected, FALSE)
  <2>1. Servers \ side \in SUBSET Servers
    OBVIOUS
  <2> QED
    BY <1>1, <1>3, <2>1, DisconnectSideKeepsLinks, Zenon
<1>5. ls \in SUBSET (Servers \X Servers) /\ LinksBetween(ls, connected, FALSE)
  BY <1>2, <1>4
<1>6. links' \in SUBSET (Servers \X Servers) /\ LinksBetween(links', connected', FALSE)
  <2>1. /\ Connect(s, side, connected, ls) \in SUBSET (Servers \X Servers)
        /\ LinksBetween(Connect(s, side, connected, ls), connected \cup {s}, FALSE)
    BY <1>1, <1>5, ConnectKeepsLinks, Zenon
  <2> QED
    BY <1>2, <2>1
<1>7. LinksBetween(links', connected', ~tst'.parted)
  BY <1>6 DEF LinksBetween
<1>8. connected' \in SUBSET Servers /\ connected' \subseteq Running'
  BY <1>1 DEF Running
<1> QED
  BY <1>1, <1>6, <1>7, <1>8, LinkInvAfter

\* Where the links and the table do not change.
LEMMA SameLinks ==
    ASSUME TypeOK, LinkInv, links' = links, connected' = connected, connected \subseteq Running',
           tst'.pc # "delete", tst.parted => tst'.parted, tst'.parted \in BOOLEAN,
           \A c \in Clnts : clnt'[c].enabled = clnt'[c].ends \cap clnt'[c].srvs
    PROVE  LinkInv'
  BY DEF LinkInv, At

-----------------------------------------------------------------------------
(* The tester's operations: calls on their way, and what is saved *)

AllInv == TypeOK /\ ProcessInv /\ LinkInv /\ CallInv /\ SavedInv

\* A process that the network does not know has no calls and no messages.
LEMMA UnknownIsQuiet ==
    ASSUME DemuxTypes, CallInv, NEW x \in Conns, ~Known(x)
    PROVE  /\ DOMAIN dmx[x].calls = {}
           /\ wire[x].reqs = {} /\ wire[x].ran = {} /\ wire[x].reps = {}
           /\ \A i \in Ids : Sending(i) => disp[i].conn # x
           /\ \A c \in Clnts : call[c].pc \in {"routed", "waiting", "decide"} => call[c].obj # x
<1>1. \A i \in Ids : Sending(i) => disp[i].conn # x
  BY DEF CallInv, SendersKnown
<1>2. ASSUME NEW t \in DOMAIN dmx[x].calls PROVE FALSE
  <2>1. dmx[x].calls[t] \in Ids
    BY DemuxFields
  <2>2. Sending(dmx[x].calls[t]) /\ disp[dmx[x].calls[t]].conn = x
    BY DEF CallInv, TagsTaken, Sending
  <2> QED
    BY <1>1, <2>1, <2>2
<1>3. OnWire(x) = {}
  BY <1>2 DEF CallInv, MessagesAwaited
<1>4. \A c \in Clnts : call[c].pc \in {"routed", "waiting", "decide"} => call[c].obj # x
  BY DEF CallInv, CallsNumbered
<1> QED
  BY <1>1, <1>2, <1>3, <1>4 DEF OnWire

\* A step of the tester or of a process that leaves the network alone.
LEMMA GroupStepCalls ==
    ASSUME CallInv, dmx' = dmx, wire' = wire, disp' = disp, call' = call,
           \A x \in Conns : Known(x) => Known(x)'
    PROVE  CallInv'
<1>1. CallsNumbered'
  BY DEF CallInv, CallsNumbered, Id, IdOf, Sending
<1>2. SendersKnown'
  BY DEF CallInv, SendersKnown, Sending
<1>3. TagsTaken'
  BY DEF CallInv, TagsTaken
<1>4. MessagesAwaited' /\ ReaderLast'
  BY DEF CallInv, MessagesAwaited, ReaderLast, OnWire
<1> QED
  BY <1>1, <1>2, <1>3, <1>4 DEF CallInv

\* The same for what is saved, when it is so for the messages.
LEMMA CallsStaySaved ==
    ASSUME TypeOK, CallInv, SavedInv, disp' = disp, call' = call, acked' = acked,
           \A x \in Conns : \A i \in Ids : Known(x) /\ Stored(i, x) => Stored(i, x)',
           \A s \in Servers : \A i \in Ids : Safe(i, s) => Safe(i, s)',
           \A x \in Conns : \A m \in wire'[x].ran \cup wire'[x].reps : Stored(m.id, x)'
    PROVE  SavedInv'
<1>1. ASSUME NEW c \in Clnts
      PROVE  /\ call[c].pc \in {"queued", "routed", "waiting"} => ~call[c].ok
             /\ call[c].pc = "waiting" /\ disp[Id(c)].pc = "got" /\ disp[Id(c)].ok =>
                  Stored(Id(c), call[c].obj)'
             /\ call[c].pc = "decide" /\ call[c].ok => Stored(Id(c), call[c].obj)'
             /\ call[c].pc = "answer" /\ call[c].ok => Safe(Id(c), call[c].srv)'
  <2>1. call[c].pc # "idle" => Id(c) \in Ids /\ call[c].srv \in Servers
    BY IdsAssumption DEF TypeOK, NetTypes, CallInv, CallsNumbered, Id, IdOf
  <2>2. call[c].pc \in {"waiting", "decide"} => call[c].obj \in Conns /\ Known(call[c].obj)
    BY DEF CallInv, CallsNumbered
  <2>3. Id(c)' = Id(c)
    BY DEF Id, IdOf
  <2>4. call[c].pc \in {"waiting", "decide"} /\ Stored(Id(c), call[c].obj) => Stored(Id(c), call[c].obj)'
    <3> SUFFICES ASSUME call[c].pc \in {"waiting", "decide"}, Stored(Id(c), call[c].obj)
                 PROVE  Stored(Id(c), call[c].obj)'
      OBVIOUS
    <3>1. PICK i, x : i = Id(c) /\ x = call[c].obj
      OBVIOUS
    <3>2. Stored(i, x)'
      BY <2>1, <2>2, <3>1
    <3> QED
      BY <2>3, <3>1, <3>2 DEF Stored
  <2>5. call[c].pc = "answer" /\ Safe(Id(c), call[c].srv) => Safe(Id(c), call[c].srv)'
    <3> SUFFICES ASSUME call[c].pc = "answer", Safe(Id(c), call[c].srv)
                 PROVE  Safe(Id(c), call[c].srv)'
      OBVIOUS
    <3>1. PICK i, s : i = Id(c) /\ s = call[c].srv
      OBVIOUS
    <3>2. Safe(i, s)'
      BY <2>1, <3>1
    <3> QED
      BY <2>3, <3>1, <3>2 DEF Safe, Process
  <2> QED
    BY <2>4, <2>5 DEF SavedInv
<1>2. ASSUME NEW a \in acked PROVE Safe(a.id, a.srv)'
  <2>1. a.id \in Ids /\ a.srv \in Servers
    BY DEF TypeOK, NetTypes
  <2> QED
    BY <2>1 DEF SavedInv
<1>3. \A c \in Clnts : Id(c)' = Id(c)
  BY DEF Id, IdOf
<1> QED
  BY <1>1, <1>2, <1>3 DEF SavedInv, Stored, Safe, Process

\* A step that leaves the messages alone too.
LEMMA GroupStepSaved ==
    ASSUME TypeOK, CallInv, SavedInv, wire' = wire, disp' = disp, call' = call, acked' = acked,
           \A x \in Conns : \A i \in Ids : Known(x) /\ Stored(i, x) => Stored(i, x)',
           \A s \in Servers : \A i \in Ids : Safe(i, s) => Safe(i, s)'
    PROVE  SavedInv'
<1>1. ASSUME NEW x \in Conns, NEW m \in wire[x].ran \cup wire[x].reps PROVE Stored(m.id, x)'
  <2>1. Known(x)
    BY UnknownIsQuiet DEF TypeOK
  <2>2. m.id \in Ids
    BY DemuxFields DEF TypeOK
  <2> QED
    BY <2>1, <2>2 DEF SavedInv
<1> QED
  BY <1>1, CallsStaySaved

\* Steps of the tester that touch no process.
LEMMA TesterStepCalls ==
    ASSUME AllInv, UNCHANGED demuxVars, call' = call, acked' = acked,
           procs' = procs, proc' = proc, disk' = disk, saved' = saved
    PROVE  CallInv' /\ SavedInv'
<1>1. dmx' = dmx /\ wire' = wire /\ disp' = disp
  BY DEF demuxVars
<1>2. CallInv'
  BY <1>1, GroupStepCalls DEF AllInv, Known
<1>3. SavedInv'
  BY <1>1, GroupStepSaved DEF AllInv, Stored, Safe, Process
<1> QED
  BY <1>2, <1>3

\* ConnectOne and DisconnectAll.
LEMMA ConnectStep ==
    ASSUME AllInv, NEW s \in Servers, ConnectOne(s) \/ DisconnectAll(s)
    PROVE  AllInv'
<1>1. /\ UNCHANGED demuxVars /\ servers' = servers /\ clnt' = clnt /\ call' = call /\ acked' = acked
      /\ procs' = procs /\ proc' = proc /\ disk' = disk /\ saved' = saved /\ tst' = tst /\ tst.pc = "rest"
  BY DEF ConnectOne, DisconnectAll, netVars, NewOp
<1>2. links' \in SUBSET (Servers \X Servers) /\ connected' \in SUBSET Servers /\ LinkInv'
  <2>1. CASE ConnectOne(s)
    BY <1>1, <2>1, ConnectOpLinks DEF ConnectOne, Running, AllInv
  <2>2. CASE DisconnectAll(s)
    BY <1>1, <2>2, DisconnectOpLinks DEF DisconnectAll, AllInv
  <2> QED
    BY <2>1, <2>2
<1>3. TypeOK'
  BY <1>1, <1>2 DEF AllInv, TypeOK, DemuxTypes, NetTypes, GroupTypes, demuxVars
<1>4. ProcessInv'
  BY LinkOpsKeepProcesses DEF AllInv, TypeOK
<1>5. CallInv' /\ SavedInv'
  BY <1>1, TesterStepCalls
<1> QED
  BY <1>2, <1>3, <1>4, <1>5 DEF AllInv

\* ConnectStarted.
LEMMA ConnectStartedStep ==
    ASSUME AllInv, ConnectStarted
    PROVE  AllInv'
<1>1. /\ UNCHANGED demuxVars /\ servers' = servers /\ clnt' = clnt /\ call' = call /\ acked' = acked
      /\ procs' = procs /\ proc' = proc /\ disk' = disk /\ saved' = saved
  BY DEF ConnectStarted, netVars
<1>2. /\ tst' \in [pc : {"rest", "delete", "checkpoint", "kill", "waitInit", "add", "connect", "partition"},
                   srv : Servers \cup {None}, parted : BOOLEAN, p1 : SUBSET Servers,
                   todo : SUBSET Servers]
      /\ tst'.pc = "rest" /\ tst'.parted = tst.parted
  BY GotoFields DEF ConnectStarted, AllInv, TypeOK
<1>3. tst.srv \in Servers /\ servers[tst.srv] # None
  BY DEF ConnectStarted, AllInv, ProcessInv, TesterAtWork, At
<1>4. links' \in SUBSET (Servers \X Servers) /\ connected' \in SUBSET Servers /\ LinkInv'
  <2>1. PICK s : s = tst.srv
    OBVIOUS
  <2>2. links' = Connect(s, Servers, connected, links) /\ connected' = connected \cup {s}
    BY <2>1 DEF ConnectStarted
  <2> QED
    BY <1>1, <1>2, <1>3, <2>1, <2>2, ConnectOpLinks DEF AllInv
<1>5. TypeOK'
  BY <1>1, <1>2, <1>4 DEF AllInv, TypeOK, DemuxTypes, NetTypes, GroupTypes, demuxVars
<1>6. ProcessInv'
  BY LinkOpsKeepProcesses DEF AllInv, TypeOK
<1>7. CallInv' /\ SavedInv'
  BY <1>1, TesterStepCalls
<1> QED
  BY <1>4, <1>5, <1>6, <1>7 DEF AllInv

\* Partition and the turns of its loops.
LEMMA PartitionStep ==
    ASSUME AllInv, (\E p1 \in SUBSET Servers : Partition(p1)) \/ (\E s \in tst.todo : PartitionOne(s))
    PROVE  AllInv'
<1>1. /\ UNCHANGED demuxVars /\ servers' = servers /\ clnt' = clnt /\ call' = call /\ acked' = acked
      /\ procs' = procs /\ proc' = proc /\ disk' = disk /\ saved' = saved
  BY DEF Partition, PartitionOne, netVars
<1>2. ProcessInv'
  BY LinkOpsKeepProcesses DEF AllInv, TypeOK
<1>3. CallInv' /\ SavedInv'
  BY <1>1, TesterStepCalls
<1>4. CASE \E p1 \in SUBSET Servers : Partition(p1)
  <2>1. /\ tst' \in [pc : {"rest", "delete", "checkpoint", "kill", "waitInit", "add", "connect", "partition"},
                   srv : Servers \cup {None}, parted : BOOLEAN, p1 : SUBSET Servers,
                   todo : SUBSET Servers]
        /\ tst'.pc = "partition" /\ tst'.parted = TRUE /\ links' = links /\ connected' = connected
    <3>1. PICK p1 \in SUBSET Servers : Partition(p1)
      BY <1>4
    <3>2. /\ tst' = [tst EXCEPT !.pc = "partition", !.parted = TRUE, !.p1 = p1, !.todo = Servers]
          /\ links' = links /\ connected' = connected
      BY <3>1 DEF Partition
    <3> QED
      BY <3>2 DEF AllInv, TypeOK, GroupTypes
  <2>2. LinkInv'
    BY <1>1, <2>1, SameLinks DEF AllInv, LinkInv, Running
  <2>3. TypeOK'
    BY <1>1, <2>1 DEF AllInv, TypeOK, DemuxTypes, NetTypes, GroupTypes, demuxVars
  <2> QED
    BY <1>2, <1>3, <2>2, <2>3 DEF AllInv
<1>5. CASE \E s \in tst.todo : PartitionOne(s)
  <2>1. PICK s \in tst.todo : PartitionOne(s)
    BY <1>5
  <2>2. PICK side : side = IF s \in tst.p1 THEN tst.p1 ELSE Servers \ tst.p1
    OBVIOUS
  <2>3. tst.p1 \in SUBSET Servers /\ tst.todo \in SUBSET Servers /\ tst.parted \in BOOLEAN
    BY DEF AllInv, TypeOK, GroupTypes
  <2>4. s \in Servers /\ side \in SUBSET Servers /\ s \in side
    BY <2>1, <2>2, <2>3
  <2>5. /\ tst' \in [pc : {"rest", "delete", "checkpoint", "kill", "waitInit", "add", "connect", "partition"},
                   srv : Servers \cup {None}, parted : BOOLEAN, p1 : SUBSET Servers,
                   todo : SUBSET Servers]
        /\ tst'.pc # "delete" /\ tst'.parted = tst.parted
    BY <2>1 DEF PartitionOne, AllInv, TypeOK, GroupTypes
  <2>6. /\ links' = Connect(s, side, connected, Disconnect(s, Servers \ side, links))
        /\ connected' = connected \cup {s}
    BY <2>1, <2>2 DEF PartitionOne
  <2>7. servers[s] # None
    BY <2>1, <2>4 DEF PartitionOne, AllInv, ProcessInv, TesterAtWork, Running
  <2>8. tst.parted
    BY <2>1 DEF PartitionOne, AllInv, ProcessInv, TesterAtWork
  <2>9. links' \in SUBSET (Servers \X Servers) /\ connected' \in SUBSET Servers /\ LinkInv'
    BY <1>1, <2>4, <2>5, <2>6, <2>7, <2>8, PartitionOneLinks DEF AllInv
  <2>10. TypeOK'
    BY <1>1, <2>5, <2>9 DEF AllInv, TypeOK, DemuxTypes, NetTypes, GroupTypes, demuxVars
  <2> QED
    BY <1>2, <1>3, <2>9, <2>10 DEF AllInv
<1> QED
  BY <1>4, <1>5

\* Shutdown and WaitInit: only the tester moves, and links of the server go.
LEMMA ShutdownStep ==
    ASSUME AllInv, NEW s \in Servers, Shutdown(s)
    PROVE  AllInv'
<1>1. /\ UNCHANGED demuxVars /\ servers' = servers /\ clnt' = clnt /\ call' = call /\ acked' = acked
      /\ procs' = procs /\ proc' = proc /\ disk' = disk /\ saved' = saved
      /\ links' = Disconnect(s, Servers, links) /\ connected' = connected \ {s}
  BY DEF Shutdown, netVars
<1>2. /\ tst' \in [pc : {"rest", "delete", "checkpoint", "kill", "waitInit", "add", "connect", "partition"},
                   srv : Servers \cup {None}, parted : BOOLEAN, p1 : SUBSET Servers,
                   todo : SUBSET Servers]
      /\ tst'.pc = "delete" /\ tst'.srv = s /\ tst'.parted = tst.parted
  BY GotoFields DEF Shutdown, AllInv, TypeOK
<1>3. links' \in SUBSET (Servers \X Servers) /\ connected' \in SUBSET Servers /\ LinkInv'
  BY <1>1, <1>2, DisconnectOpLinks DEF AllInv
<1>4. TypeOK'
  BY <1>1, <1>2, <1>3 DEF AllInv, TypeOK, DemuxTypes, NetTypes, GroupTypes, demuxVars
<1>5. ProcessInv'
  BY ShutdownProcesses DEF AllInv, TypeOK
<1>6. CallInv' /\ SavedInv'
  BY <1>1, TesterStepCalls
<1> QED
  BY <1>3, <1>4, <1>5, <1>6 DEF AllInv

\* WaitInit: the tester goes on.
LEMMA WaitInitStep ==
    ASSUME AllInv, WaitInit
    PROVE  AllInv'
<1>1. /\ UNCHANGED demuxVars /\ servers' = servers /\ clnt' = clnt /\ call' = call /\ acked' = acked
      /\ procs' = procs /\ proc' = proc /\ disk' = disk /\ saved' = saved
      /\ links' = links /\ connected' = connected
  BY DEF WaitInit, netVars
<1>2. tst.srv \in Servers \cup {None}
  BY DEF AllInv, TypeOK, GroupTypes
<1>3. /\ tst' \in [pc : {"rest", "delete", "checkpoint", "kill", "waitInit", "add", "connect", "partition"},
                   srv : Servers \cup {None}, parted : BOOLEAN, p1 : SUBSET Servers,
                   todo : SUBSET Servers]
      /\ tst'.pc = "add" /\ tst'.parted = tst.parted
  BY <1>2, GotoFields DEF WaitInit, AllInv, TypeOK
<1>4. LinkInv'
  BY <1>1, <1>3, SameLinks DEF AllInv, LinkInv, Running, TypeOK, GroupTypes
<1>5. TypeOK'
  BY <1>1, <1>3 DEF AllInv, TypeOK, DemuxTypes, NetTypes, GroupTypes, demuxVars
<1>6. ProcessInv'
  BY WaitInitProcesses DEF AllInv, TypeOK
<1>7. CallInv' /\ SavedInv'
  BY <1>1, TesterStepCalls
<1> QED
  BY <1>4, <1>5, <1>6, <1>7 DEF AllInv

\* DeleteServer and AddServer: the network's table changes at a server that has no links.
LEMMA TableStep ==
    ASSUME AllInv, DeleteServer \/ AddServer
    PROVE  AllInv'
<1>1. /\ UNCHANGED demuxVars /\ clnt' = clnt /\ call' = call /\ acked' = acked
      /\ procs' = procs /\ proc' = proc /\ disk' = disk /\ saved' = saved
      /\ links' = links /\ connected' = connected
  BY DEF DeleteServer, AddServer
<1>2. PICK s : s = tst.srv
  OBVIOUS
<1>3. s \in Servers /\ Process(s) \in Conns
  BY <1>2 DEF DeleteServer, AddServer, AllInv, ProcessInv, TesterAtWork, At, ProcessesNumbered
<1>4. /\ tst' \in [pc : {"rest", "delete", "checkpoint", "kill", "waitInit", "add", "connect", "partition"},
                   srv : Servers \cup {None}, parted : BOOLEAN, p1 : SUBSET Servers,
                   todo : SUBSET Servers]
      /\ tst'.pc # "delete" /\ tst'.parted = tst.parted
  <2>1. Goto("rest", None) \/ Goto("checkpoint", s) \/ Goto("connect", s)
    BY <1>2 DEF DeleteServer, AddServer
  <2> QED
    BY <1>3, <2>1, GotoFields DEF AllInv, TypeOK
<1>5. /\ servers' \in [Servers -> Conns \cup {None}]
      /\ \A r \in Servers : r # s => servers'[r] = servers[r]
      /\ servers'[s] # None \/ s \notin connected
  <2>1. CASE DeleteServer
    BY <1>2, <1>3, <2>1 DEF DeleteServer, AllInv, TypeOK, NetTypes, LinkInv
  <2>2. CASE AddServer
    BY <1>2, <1>3, <2>2, NoneAssumption DEF AddServer, AllInv, TypeOK, NetTypes
  <2> QED
    BY <2>1, <2>2
<1>6. LinkInv'
  <2>1. connected \subseteq Running'
    BY <1>5 DEF AllInv, LinkInv, Running
  <2> QED
    BY <1>1, <1>4, <2>1, SameLinks DEF AllInv, LinkInv, TypeOK, GroupTypes
<1>7. TypeOK'
  BY <1>1, <1>4, <1>5 DEF AllInv, TypeOK, DemuxTypes, NetTypes, GroupTypes, demuxVars
<1>8. ProcessInv'
  BY DeleteServerProcesses, AddServerProcesses DEF AllInv
<1>9. CallInv' /\ SavedInv'
  BY <1>1, TesterStepCalls
<1> QED
  BY <1>6, <1>7, <1>8, <1>9 DEF AllInv

\* InitDaemon: a process that nobody knows comes up.
LEMMA InitDaemonStep ==
    ASSUME AllInv, NEW x \in Conns, InitDaemon(x)
    PROVE  AllInv'
<1>1. /\ dmx' = dmx /\ wire' = wire /\ disp' = disp /\ servers' = servers /\ clnt' = clnt
      /\ call' = call /\ acked' = acked /\ procs' = procs /\ disk' = disk /\ saved' = saved
      /\ links' = links /\ connected' = connected /\ tst' = tst /\ proc[x] = "init"
  BY DEF InitDaemon, netVars, demuxVars
<1>2. /\ proc' \in [Conns -> {"none", "init", "up", "saved", "dead"}] /\ proc'[x] = "up"
      /\ \A y \in Conns : y # x => proc'[y] = proc[y]
  BY DEF InitDaemon, AllInv, TypeOK, GroupTypes
<1>3. TypeOK'
  BY <1>1, <1>2 DEF AllInv, TypeOK, DemuxTypes, NetTypes, GroupTypes
<1>4. LinkInv'
  BY <1>1 DEF AllInv, LinkInv, Running, At
<1>5. ProcessInv'
  BY InitDaemonProcesses DEF AllInv, TypeOK
<1>6. CallInv'
  BY <1>1, <1>2, GroupStepCalls DEF AllInv, Known
<1>7. SavedInv'
  <2>1. \A y \in Conns : \A i \in Ids : Known(y) /\ Stored(i, y) => Stored(i, y)'
    BY <1>1, <1>2 DEF Known, Stored
  <2>2. \A s \in Servers : Process(s) \in Conns
    BY DEF AllInv, ProcessInv, ProcessesNumbered
  <2>3. \A s \in Servers : \A i \in Ids : Safe(i, s) => Safe(i, s)'
    BY <1>1, <1>2, <2>2 DEF Safe, Process
  <2> QED
    BY <1>1, <2>1, <2>3, GroupStepSaved DEF AllInv
<1> QED
  BY <1>3, <1>4, <1>5, <1>6, <1>7 DEF AllInv

\* CheckpointPersister: the tester keeps a copy of all that the process has saved.
LEMMA CheckpointStep ==
    ASSUME AllInv, CheckpointPersister
    PROVE  AllInv'
<1>1. PICK s, x : s = tst.srv /\ x = Process(s)
  OBVIOUS
<1>2. s \in Servers /\ x \in Conns /\ proc[x] = "up"
  BY <1>1 DEF CheckpointPersister, AllInv, ProcessInv, TesterAtWork, At, ProcessesNumbered
<1>3. /\ dmx' = dmx /\ wire' = wire /\ disp' = disp /\ servers' = servers /\ clnt' = clnt
      /\ call' = call /\ acked' = acked /\ procs' = procs /\ disk' = disk
      /\ links' = links /\ connected' = connected
      /\ saved' = [saved EXCEPT ![s] = disk[x]] /\ proc' = [proc EXCEPT ![x] = "saved"]
  BY <1>1 DEF CheckpointPersister, netVars, demuxVars, Checkpoint
<1>4. /\ proc' \in [Conns -> {"none", "init", "up", "saved", "dead"}] /\ proc'[x] = "saved"
      /\ \A y \in Conns : y # x => proc'[y] = proc[y]
      /\ saved' \in [Servers -> SUBSET Ids] /\ saved'[s] = disk[x]
      /\ \A r \in Servers : r # s => saved'[r] = saved[r]
  BY <1>2, <1>3 DEF AllInv, TypeOK, GroupTypes
<1>5. /\ tst' \in [pc : {"rest", "delete", "checkpoint", "kill", "waitInit", "add", "connect", "partition"},
                   srv : Servers \cup {None}, parted : BOOLEAN, p1 : SUBSET Servers,
                   todo : SUBSET Servers]
      /\ tst'.pc = "kill" /\ tst'.parted = tst.parted
  BY <1>1, <1>2, GotoFields DEF CheckpointPersister, AllInv, TypeOK
<1>6. TypeOK'
  BY <1>3, <1>4, <1>5 DEF AllInv, TypeOK, DemuxTypes, NetTypes, GroupTypes
<1>7. LinkInv'
  BY <1>3, <1>5, SameLinks DEF AllInv, LinkInv, Running, TypeOK, GroupTypes
<1>8. ProcessInv'
  BY CheckpointProcesses DEF AllInv, TypeOK
<1>9. CallInv'
  BY <1>3, <1>4, GroupStepCalls DEF AllInv, Known
<1>10. SavedInv'
  <2>1. \A y \in Conns : \A i \in Ids : Known(y) /\ Stored(i, y) => Stored(i, y)'
    BY <1>2, <1>3, <1>4 DEF Stored
  <2>2. \A r \in Servers : Process(r) \in Conns /\ Process(r)' = Process(r) /\ (r # s => Process(r) # x)
    BY <1>1, <1>3, ProcessesDiffer DEF AllInv, ProcessInv, ProcessesNumbered, Process
  <2>3. \A r \in Servers : \A i \in Ids : Safe(i, r) => Safe(i, r)'
    BY <1>1, <1>2, <1>3, <1>4, <2>2 DEF Safe
  <2> QED
    BY <1>3, <2>1, <2>3, GroupStepSaved DEF AllInv
<1> QED
  BY <1>6, <1>7, <1>8, <1>9, <1>10 DEF AllInv

-----------------------------------------------------------------------------
(* Processes serve, answer, end and start *)

\* Messages move on one connection, or are lost there.
LEMMA WireStepCalls ==
    ASSUME CallInv, dmx' = dmx, disp' = disp, call' = call,
           \A y \in Conns : Known(y) => Known(y)',
           NEW x \in Conns, \A y \in Conns : y # x => wire'[y] = wire[y],
           wire'[x].reqs \cup wire'[x].ran \cup wire'[x].reps \subseteq OnWire(x),
           wire'[x].reqs \cap wire'[x].ran = {}, wire'[x].reqs \cap wire'[x].reps = {},
           wire'[x].ran \cap wire'[x].reps = {},
           ~wire'[x].open => wire'[x].reqs = {} /\ wire'[x].ran = {},
           ~wire[x].open /\ wire[x].reps = {} => ~wire'[x].open /\ wire'[x].reps = {}
    PROVE  CallInv'
<1>1. CallsNumbered'
  BY DEF CallInv, CallsNumbered, Id, IdOf, Sending
<1>2. SendersKnown'
  BY DEF CallInv, SendersKnown, Sending
<1>3. TagsTaken'
  BY DEF CallInv, TagsTaken
<1>4. MessagesAwaited'
  <2>1. \A y \in Conns : OnWire(y)' \subseteq OnWire(y)
    BY DEF OnWire
  <2>2. ASSUME NEW y \in Conns, NEW m \in OnWire(y)'
        PROVE  m.tag \in DOMAIN dmx[y].calls /\ dmx[y].calls[m.tag] = m.id /\ disp[m.id].pc = "wait"
    BY <2>1 DEF CallInv, MessagesAwaited
  <2>3. ASSUME NEW y \in Conns
        PROVE  /\ wire'[y].reqs \cap wire'[y].ran = {} /\ wire'[y].reqs \cap wire'[y].reps = {}
               /\ wire'[y].ran \cap wire'[y].reps = {}
    BY DEF CallInv, MessagesAwaited
  <2> QED
    BY <2>2, <2>3 DEF MessagesAwaited
<1>5. ReaderLast'
  <2> SUFFICES ASSUME NEW y \in Conns
               PROVE  /\ dmx[y].reader # "fatal"
                      /\ ~wire'[y].open => wire'[y].reqs = {} /\ wire'[y].ran = {}
                      /\ dmx[y].reader \in {"closed", "failing"} =>
                           ~wire'[y].open /\ wire'[y].reps = {} /\ dmx[y].closed
                      /\ dmx[y].reader = "failing" => dmx[y].failing \subseteq DOMAIN dmx[y].calls
    BY DEF ReaderLast
  <2> QED
    BY DEF CallInv, ReaderLast
<1> QED
  BY <1>1, <1>2, <1>3, <1>4, <1>5 DEF CallInv

\* Serve: the call is in the persister before it counts as executed.
LEMMA ServeStep ==
    ASSUME AllInv, NEW x \in Conns, NEW m \in wire[x].reqs, Serve(x, m)
    PROVE  AllInv'
<1>1. /\ dmx' = dmx /\ disp' = disp /\ UNCHANGED netVars /\ procs' = procs /\ proc' = proc
      /\ saved' = saved /\ links' = links /\ connected' = connected /\ tst' = tst
      /\ wire' = [wire EXCEPT ![x].reqs = @ \ {m}, ![x].ran = @ \cup {m}]
      /\ disk' = [disk EXCEPT ![x] = @ \cup {m.id}]
  BY DEF Serve, Run, dispatch
<1>2. servers' = servers /\ clnt' = clnt /\ call' = call /\ acked' = acked
  BY <1>1 DEF netVars
<1>3. m \in Message /\ m.id \in Ids
  BY DemuxFields DEF AllInv, TypeOK
<1>4. /\ wire' \in [Conns -> [open : BOOLEAN, reqs : SUBSET Message, ran : SUBSET Message,
                              reps : SUBSET Message]]
      /\ wire'[x].reqs = wire[x].reqs \ {m} /\ wire'[x].ran = wire[x].ran \cup {m}
      /\ wire'[x].reps = wire[x].reps /\ wire'[x].open = wire[x].open
      /\ \A y \in Conns : y # x => wire'[y] = wire[y]
  <2>1. wire \in [Conns -> [open : BOOLEAN, reqs : SUBSET Message, ran : SUBSET Message,
                           reps : SUBSET Message]]
    BY DEF AllInv, TypeOK, DemuxTypes
  <2>2. /\ wire'[x].reqs = wire[x].reqs \ {m} /\ wire'[x].ran = wire[x].ran \cup {m}
        /\ wire'[x].reps = wire[x].reps /\ wire'[x].open = wire[x].open
        /\ \A y \in Conns : y # x => wire'[y] = wire[y]
    BY <1>1, <2>1
  <2>3. wire[x].reqs \ {m} \in SUBSET Message /\ wire[x].ran \cup {m} \in SUBSET Message
    BY <1>3, <2>1
  <2>4. wire' \in [Conns -> [open : BOOLEAN, reqs : SUBSET Message, ran : SUBSET Message,
                            reps : SUBSET Message]]
    BY <1>1, <2>1, <2>3
  <2> QED
    BY <2>2, <2>4
<1>5. /\ disk' \in [Conns -> SUBSET Ids] /\ disk'[x] = disk[x] \cup {m.id}
      /\ \A y \in Conns : y # x => disk'[y] = disk[y]
  BY <1>1, <1>3 DEF AllInv, TypeOK, GroupTypes
<1>6. TypeOK'
  BY <1>1, <1>2, <1>4, <1>5 DEF AllInv, TypeOK, DemuxTypes, NetTypes, GroupTypes
<1>7. LinkInv'
  BY <1>1, <1>2 DEF AllInv, LinkInv, Running, At
<1>8. ProcessInv'
  BY <1>1, <1>2, SameProcesses DEF AllInv, ProcessVars
<1>9. CallInv'
  <2>1. wire[x].open /\ wire[x].reqs \cap wire[x].ran = {} /\ wire[x].reqs \cap wire[x].reps = {}
        /\ wire[x].ran \cap wire[x].reps = {}
    BY DEF AllInv, CallInv, ReaderLast, MessagesAwaited
  <2>2. \A y \in Conns : Known(y) => Known(y)'
    BY <1>1 DEF Known
  <2>3. /\ wire'[x].reqs \cup wire'[x].ran \cup wire'[x].reps \subseteq OnWire(x)
        /\ wire'[x].reqs \cap wire'[x].ran = {} /\ wire'[x].reqs \cap wire'[x].reps = {}
        /\ wire'[x].ran \cap wire'[x].reps = {}
    BY <1>4, <2>1 DEF OnWire
  <2> QED
    BY <1>1, <1>2, <1>4, <2>1, <2>2, <2>3, WireStepCalls DEF AllInv
<1>10. SavedInv'
  <2>1. \A y \in Conns : \A i \in Ids : Stored(i, y) => Stored(i, y)'
    BY <1>1, <1>5 DEF Stored
  <2>2. \A s \in Servers : Process(s) \in Conns
    BY DEF AllInv, ProcessInv, ProcessesNumbered
  <2>3. \A s \in Servers : \A i \in Ids : Safe(i, s) => Safe(i, s)'
    BY <1>1, <1>5, <2>2 DEF Safe, Process
  <2>4. ASSUME NEW y \in Conns, NEW k \in wire'[y].ran \cup wire'[y].reps PROVE Stored(k.id, y)'
    <3>1. CASE k = m /\ y = x
      BY <1>5, <3>1 DEF Stored
    <3>2. CASE k \in wire[y].ran \cup wire[y].reps
      <4>1. k.id \in Ids
        BY <3>2, DemuxFields DEF AllInv, TypeOK
      <4> QED
        BY <2>1, <3>2, <4>1 DEF AllInv, SavedInv
    <3> QED
      BY <1>4, <3>1, <3>2
  <2> QED
    BY <1>1, <1>2, <2>1, <2>3, <2>4, CallsStaySaved DEF AllInv
<1> QED
  BY <1>6, <1>7, <1>8, <1>9, <1>10 DEF AllInv

\* Answer: the reply goes to the socket.
LEMMA AnswerStep ==
    ASSUME AllInv, NEW x \in Conns, NEW m \in wire[x].ran, Answer(x, m)
    PROVE  AllInv'
<1>1. /\ dmx' = dmx /\ disp' = disp /\ UNCHANGED netVars /\ UNCHANGED groupVars /\ wire[x].open
      /\ wire' = [wire EXCEPT ![x].ran = @ \ {m}, ![x].reps = @ \cup {m}]
  BY DEF Answer, WriteReply
<1>2. /\ servers' = servers /\ clnt' = clnt /\ call' = call /\ acked' = acked /\ procs' = procs
      /\ proc' = proc /\ saved' = saved /\ links' = links /\ connected' = connected /\ tst' = tst
      /\ disk' = disk
  BY <1>1 DEF netVars, groupVars
<1>3. m \in Message
  BY DemuxFields DEF AllInv, TypeOK
<1>4. /\ wire' \in [Conns -> [open : BOOLEAN, reqs : SUBSET Message, ran : SUBSET Message,
                              reps : SUBSET Message]]
      /\ wire'[x].reqs = wire[x].reqs /\ wire'[x].ran = wire[x].ran \ {m}
      /\ wire'[x].reps = wire[x].reps \cup {m} /\ wire'[x].open = wire[x].open
      /\ \A y \in Conns : y # x => wire'[y] = wire[y]
  BY <1>1, <1>3 DEF AllInv, TypeOK, DemuxTypes
<1>5. TypeOK'
  BY <1>1, <1>2, <1>4 DEF AllInv, TypeOK, DemuxTypes, NetTypes, GroupTypes
<1>6. LinkInv'
  BY <1>2 DEF AllInv, LinkInv, Running, At
<1>7. ProcessInv'
  BY <1>2, SameProcesses DEF AllInv, ProcessVars
<1>8. CallInv'
  <2>1. /\ wire[x].reqs \cap wire[x].ran = {} /\ wire[x].reqs \cap wire[x].reps = {}
        /\ wire[x].ran \cap wire[x].reps = {}
    BY DEF AllInv, CallInv, MessagesAwaited
  <2>2. \A y \in Conns : Known(y) => Known(y)'
    BY <1>2 DEF Known
  <2>3. /\ wire'[x].reqs \cup wire'[x].ran \cup wire'[x].reps \subseteq OnWire(x)
        /\ wire'[x].reqs \cap wire'[x].ran = {} /\ wire'[x].reqs \cap wire'[x].reps = {}
        /\ wire'[x].ran \cap wire'[x].reps = {}
    BY <1>4, <2>1 DEF OnWire
  <2> QED
    BY <1>1, <1>2, <1>4, <2>2, <2>3, WireStepCalls DEF AllInv
<1>9. SavedInv'
  <2>1. \A y \in Conns : \A i \in Ids : Stored(i, y) => Stored(i, y)'
    BY <1>2 DEF Stored
  <2>2. \A s \in Servers : \A i \in Ids : Safe(i, s) => Safe(i, s)'
    BY <1>2 DEF Safe, Process
  <2>3. ASSUME NEW y \in Conns, NEW k \in wire'[y].ran \cup wire'[y].reps PROVE Stored(k.id, y)'
    <3>1. k \in wire[y].ran \cup wire[y].reps
      BY <1>4
    <3>2. k.id \in Ids
      BY <3>1, DemuxFields DEF AllInv, TypeOK
    <3> QED
      BY <2>1, <3>1, <3>2 DEF AllInv, SavedInv
  <2> QED
    BY <1>1, <1>2, <2>1, <2>2, <2>3, CallsStaySaved DEF AllInv
<1> QED
  BY <1>5, <1>6, <1>7, <1>8, <1>9 DEF AllInv

\* Kill: what the process has not written is gone, and what was answered is in the
\* tester's copy.
LEMMA KillStep ==
    ASSUME AllInv, Kill
    PROVE  AllInv'
<1>1. PICK s, x : s = tst.srv /\ x = Process(s)
  OBVIOUS
<1>2. s \in Servers /\ x \in Conns /\ proc[x] = "saved"
  BY <1>1 DEF Kill, AllInv, ProcessInv, TesterAtWork, At, ProcessesNumbered
<1>3. /\ dmx' = dmx /\ disp' = disp /\ servers' = servers /\ clnt' = clnt
      /\ call' = call /\ acked' = acked /\ procs' = procs /\ saved' = saved
      /\ links' = links /\ connected' = connected
      /\ disk' = [disk EXCEPT ![x] = {}] /\ proc' = [proc EXCEPT ![x] = "dead"]
      /\ wire' = [wire EXCEPT ![x].open = FALSE, ![x].reqs = {}, ![x].ran = {}]
  BY <1>1 DEF Kill, netVars, Break
<1>4. /\ proc' \in [Conns -> {"none", "init", "up", "saved", "dead"}] /\ proc'[x] = "dead"
      /\ \A y \in Conns : y # x => proc'[y] = proc[y]
      /\ disk' \in [Conns -> SUBSET Ids]
      /\ \A y \in Conns : y # x => disk'[y] = disk[y]
  BY <1>2, <1>3 DEF AllInv, TypeOK, GroupTypes
<1>5. /\ tst' \in [pc : {"rest", "delete", "checkpoint", "kill", "waitInit", "add", "connect", "partition"},
                   srv : Servers \cup {None}, parted : BOOLEAN, p1 : SUBSET Servers,
                   todo : SUBSET Servers]
      /\ tst'.pc = "rest" /\ tst'.parted = tst.parted
  BY GotoFields DEF Kill, AllInv, TypeOK
<1>6. wire' \in [Conns -> [open : BOOLEAN, reqs : SUBSET Message, ran : SUBSET Message,
                           reps : SUBSET Message]]
  <2>1. wire \in [Conns -> [open : BOOLEAN, reqs : SUBSET Message, ran : SUBSET Message,
                           reps : SUBSET Message]]
    BY DEF AllInv, TypeOK, DemuxTypes
  <2> QED
    BY <1>2, <1>3, <2>1, ZenonT(60)
<1>7. /\ wire'[x].reqs = {} /\ wire'[x].ran = {} /\ wire'[x].reps = wire[x].reps /\ ~wire'[x].open
      /\ \A y \in Conns : y # x => wire'[y] = wire[y]
  <2>1. wire \in [Conns -> [open : BOOLEAN, reqs : SUBSET Message, ran : SUBSET Message,
                           reps : SUBSET Message]]
    BY DEF AllInv, TypeOK, DemuxTypes
  <2> QED
    BY <1>2, <1>3, <2>1
<1>8. TypeOK'
  BY <1>3, <1>4, <1>5, <1>6 DEF AllInv, TypeOK, DemuxTypes, NetTypes, GroupTypes
<1>9. LinkInv'
  BY <1>3, <1>5, SameLinks DEF AllInv, LinkInv, Running, TypeOK, GroupTypes
<1>10. ProcessInv'
  BY KillProcesses DEF AllInv, TypeOK
<1>11. CallInv'
  <2>1. \A y \in Conns : Known(y) => Known(y)'
    BY <1>4 DEF Known
  <2>2. wire'[x].reqs \cup wire'[x].ran \cup wire'[x].reps \subseteq OnWire(x)
    BY <1>7 DEF OnWire
  <2> QED
    BY <1>2, <1>3, <1>7, <2>1, <2>2, WireStepCalls DEF AllInv
<1>12. SavedInv'
  <2>1. \A y \in Conns : \A i \in Ids : Stored(i, y) => Stored(i, y)'
    BY <1>4 DEF Stored
  <2>2. \A r \in Servers : Process(r) \in Conns /\ Process(r)' = Process(r)
    BY <1>3 DEF AllInv, ProcessInv, ProcessesNumbered, Process
  <2>3. \A r \in Servers : \A i \in Ids : Safe(i, r) => Safe(i, r)'
    BY <1>2, <1>3, <1>4, <2>2 DEF Safe
  <2>4. ASSUME NEW y \in Conns, NEW k \in wire'[y].ran \cup wire'[y].reps PROVE Stored(k.id, y)'
    <3>1. k \in wire[y].ran \cup wire[y].reps
      BY <1>7
    <3>2. k.id \in Ids
      BY <3>1, DemuxFields DEF AllInv, TypeOK
    <3> QED
      BY <2>1, <3>1, <3>2 DEF AllInv, SavedInv
  <2> QED
    BY <1>3, <2>1, <2>3, <2>4, CallsStaySaved DEF AllInv
<1> QED
  BY <1>8, <1>9, <1>10, <1>11, <1>12 DEF AllInv

\* Dial: a connection to a process that nobody knows.
LEMMA DialCalls ==
    ASSUME AllInv, NEW x \in Conns, proc[x] = "none", Dial(x), disp' = disp, call' = call,
           \A y \in Conns : Known(y) => Known(y)'
    PROVE  /\ CallInv' /\ DemuxTypes'
           /\ \A y \in Conns : wire'[y].ran \cup wire'[y].reps = wire[y].ran \cup wire[y].reps
<1>0. DemuxTypes /\ CallInv
  BY DEF AllInv, TypeOK
<1>1. /\ DOMAIN dmx[x].calls = {}
      /\ wire[x].reqs = {} /\ wire[x].ran = {} /\ wire[x].reps = {}
      /\ \A i \in Ids : Sending(i) => disp[i].conn # x
  BY <1>0, UnknownIsQuiet DEF Known
<1>2. <<>> \in CallMap /\ DOMAIN <<>> = {}
  BY CallMapEmpty
<1>3. PICK d : d = NewDemuxClnt(TRUE)
  OBVIOUS
<1>4. /\ d \in [nextTag : Nat, calls : CallMap, closed : BOOLEAN,
                reader : {"off", "read", "fatal", "closed", "failing"}, failing : SUBSET Nat]
      /\ DOMAIN d.calls = {} /\ d.reader = "read"
  BY <1>2, <1>3 DEF NewDemuxClnt
<1>5. /\ dmx' \in [Conns -> [nextTag : Nat, calls : CallMap, closed : BOOLEAN,
                             reader : {"off", "read", "fatal", "closed", "failing"}, failing : SUBSET Nat]]
      /\ DOMAIN dmx'[x].calls = {} /\ dmx'[x].reader = "read"
      /\ \A y \in Conns : y # x => dmx'[y] = dmx[y]
  BY <1>0, <1>3, <1>4 DEF Dial, DemuxTypes
<1>6. wire' \in [Conns -> [open : BOOLEAN, reqs : SUBSET Message, ran : SUBSET Message,
                           reps : SUBSET Message]]
  BY <1>0, ZenonT(60) DEF Dial, DemuxTypes
<1>7. /\ wire'[x].open /\ wire'[x].reqs = {} /\ wire'[x].ran = {} /\ wire'[x].reps = {}
      /\ \A y \in Conns : y # x => wire'[y] = wire[y]
  BY <1>0, <1>1 DEF Dial, DemuxTypes
<1>8. DemuxTypes'
  BY <1>0, <1>5, <1>6 DEF DemuxTypes
<1>9. CallsNumbered' /\ SendersKnown'
  BY <1>0 DEF CallInv, CallsNumbered, SendersKnown, Id, IdOf, Sending
<1>10. TagsTaken'
  <2>1. ASSUME NEW y \in Conns, NEW t \in DOMAIN dmx'[y].calls
        PROVE  /\ t < dmx'[y].nextTag
               /\ disp[dmx'[y].calls[t]].pc \in {"write", "wait"}
               /\ disp[dmx'[y].calls[t]].conn = y /\ disp[dmx'[y].calls[t]].tag = t
    BY <1>0, <1>5 DEF CallInv, TagsTaken
  <2>2. ASSUME NEW i \in Ids, disp[i].pc \in {"write", "wait"}
        PROVE  /\ disp[i].tag \in DOMAIN dmx'[disp[i].conn].calls
               /\ dmx'[disp[i].conn].calls[disp[i].tag] = i
    <3>1. Sending(i)
      BY <2>2 DEF Sending
    <3>2. disp[i].conn \in Conns /\ disp[i].conn # x
      BY <1>0, <1>1, <3>1 DEF CallInv, SendersKnown
    <3> QED
      BY <1>0, <1>5, <2>2, <3>2 DEF CallInv, TagsTaken
  <2> QED
    BY <2>1, <2>2 DEF TagsTaken
<1>11. MessagesAwaited'
  <2> SUFFICES ASSUME NEW y \in Conns
               PROVE  /\ \A m \in OnWire(y)' : /\ m.tag \in DOMAIN dmx'[y].calls
                                /\ dmx'[y].calls[m.tag] = m.id /\ disp[m.id].pc = "wait"
                      /\ wire'[y].reqs \cap wire'[y].ran = {} /\ wire'[y].reqs \cap wire'[y].reps = {}
                      /\ wire'[y].ran \cap wire'[y].reps = {}
    BY DEF MessagesAwaited
  <2>1. CASE y = x
    BY <1>7, <2>1 DEF OnWire
  <2>2. CASE y # x
    BY <1>0, <1>5, <1>7, <2>2 DEF OnWire, CallInv, MessagesAwaited
  <2> QED
    BY <2>1, <2>2
<1>12. ReaderLast'
  BY <1>0, <1>5, <1>7 DEF CallInv, ReaderLast
<1>13. \A y \in Conns : wire'[y].ran \cup wire'[y].reps = wire[y].ran \cup wire[y].reps
  BY <1>1, <1>7
<1> QED
  BY <1>8, <1>9, <1>10, <1>11, <1>12, <1>13 DEF CallInv

\* StartServer: the new process has the copy that the tester took of the one before.
LEMMA StartServerStep ==
    ASSUME AllInv, NEW s \in Servers, StartServer(s)
    PROVE  AllInv'
<1>1. PICK x : x = <<s, procs[s] + 1>>
  OBVIOUS
<1>2. /\ disp' = disp /\ servers' = servers /\ clnt' = clnt /\ call' = call /\ acked' = acked
      /\ procs' = [procs EXCEPT ![s] = @ + 1] /\ proc' = [proc EXCEPT ![x] = "init"]
      /\ saved' = saved /\ connected' = connected /\ links' = links \ ({s} \X Servers)
      /\ disk' = [disk EXCEPT ![x] = saved[s]] /\ Dial(x) /\ servers[s] = None
  BY <1>1 DEF StartServer, netVars, makeServer, runDaemon, init
<1>3. /\ ProcessInv' /\ x \in Conns /\ proc[x] = "none" /\ proc[Process(s)] = "dead" /\ Process(s)' = x
      /\ \A r \in Servers : r # s => Process(r)' = Process(r)
  BY <1>1, StartServerProcesses DEF AllInv
<1>4. /\ proc' \in [Conns -> {"none", "init", "up", "saved", "dead"}] /\ proc'[x] = "init"
      /\ \A y \in Conns : y # x => proc'[y] = proc[y]
      /\ disk' \in [Conns -> SUBSET Ids] /\ disk'[x] = saved[s]
      /\ \A y \in Conns : y # x => disk'[y] = disk[y]
      /\ procs' \in [Servers -> Nat]
  BY <1>2, <1>3 DEF AllInv, TypeOK, GroupTypes
<1>5. /\ tst' \in [pc : {"rest", "delete", "checkpoint", "kill", "waitInit", "add", "connect", "partition"},
                   srv : Servers \cup {None}, parted : BOOLEAN, p1 : SUBSET Servers,
                   todo : SUBSET Servers]
      /\ tst'.pc = "waitInit" /\ tst'.parted = tst.parted
  BY GotoFields DEF StartServer, AllInv, TypeOK
<1>6. links' = links
  <2>1. s \notin connected /\ links \subseteq connected \X connected
    BY <1>2 DEF AllInv, LinkInv, Running
  <2> QED
    BY <1>2, <2>1
<1>7. \A y \in Conns : Known(y) => Known(y)'
  BY <1>3, <1>4 DEF Known
<1>8. /\ CallInv' /\ DemuxTypes'
      /\ \A y \in Conns : wire'[y].ran \cup wire'[y].reps = wire[y].ran \cup wire[y].reps
  BY <1>2, <1>3, <1>7, DialCalls
<1>9. TypeOK'
  BY <1>2, <1>4, <1>5, <1>6, <1>8 DEF AllInv, TypeOK, NetTypes, GroupTypes
<1>10. LinkInv'
  BY <1>2, <1>5, <1>6, SameLinks DEF AllInv, LinkInv, Running, TypeOK, GroupTypes
<1>11. SavedInv'
  <2>1. \A y \in Conns : \A i \in Ids : Stored(i, y) => Stored(i, y)'
    BY <1>3, <1>4 DEF Stored
  <2>2. \A r \in Servers : Process(r) \in Conns
    BY DEF AllInv, ProcessInv, ProcessesNumbered
  <2>3. ASSUME NEW r \in Servers, NEW i \in Ids, Safe(i, r) PROVE Safe(i, r)'
    <3>1. CASE r = s
      BY <1>2, <1>3, <1>4, <2>3, <3>1 DEF Safe
    <3>2. CASE r # s
      <4>1. Process(r) # x /\ Process(r)' = Process(r)
        BY <1>1, <1>3, <3>2 DEF Process
      <4> QED
        BY <1>2, <1>4, <2>2, <2>3, <4>1 DEF Safe
    <3> QED
      BY <3>1, <3>2
  <2>4. ASSUME NEW y \in Conns, NEW k \in wire'[y].ran \cup wire'[y].reps PROVE Stored(k.id, y)'
    <3>1. k \in wire[y].ran \cup wire[y].reps
      BY <1>8
    <3>2. k.id \in Ids
      BY <3>1, DemuxFields DEF AllInv, TypeOK
    <3> QED
      BY <2>1, <3>1, <3>2 DEF AllInv, SavedInv
  <2> QED
    BY <1>2, <2>1, <2>3, <2>4, CallsStaySaved DEF AllInv
<1> QED
  BY <1>3, <1>8, <1>9, <1>10, <1>11 DEF AllInv

-----------------------------------------------------------------------------
(* SendReceive and the reader *)

\* What is left to show of a step of SendReceive or of a reader.
LEMMA SocketStep ==
    ASSUME AllInv, UNCHANGED <<netVars, groupVars>>, DemuxTypes', CallInv', SavedInv'
    PROVE  AllInv'
<1>1. /\ servers' = servers /\ clnt' = clnt /\ call' = call /\ acked' = acked /\ procs' = procs
      /\ proc' = proc /\ saved' = saved /\ links' = links /\ connected' = connected /\ tst' = tst
      /\ disk' = disk
  BY DEF netVars, groupVars
<1>2. TypeOK'
  BY <1>1 DEF AllInv, TypeOK, NetTypes, GroupTypes
<1>3. LinkInv'
  BY <1>1 DEF AllInv, LinkInv, Running, At
<1>4. ProcessInv'
  BY <1>1, SameProcesses DEF AllInv, ProcessVars
<1> QED
  BY <1>2, <1>3, <1>4 DEF AllInv

\* The identity of a call under way.
LEMMA IdIsId ==
    ASSUME NetTypes, CallInv, NEW c \in Clnts, call[c].pc # "idle"
    PROVE  Id(c) \in Ids /\ Id(c) = <<c, call[c].n>> /\ call[c].n \in 1..MaxCalls /\ call[c].srv \in Servers
<1>1. call[c].n \in 0..MaxCalls /\ call[c].n # 0 /\ call[c].srv \in Servers
  BY DEF NetTypes, CallInv, CallsNumbered
<1>2. call[c].n \in 1..MaxCalls
  BY <1>1, BoundsAssumption
<1> QED
  BY <1>1, <1>2, IdsAssumption DEF Id, IdOf

\* A dispatch goes on, or ends.
LEMMA DispStepCalls ==
    ASSUME NetTypes, CallInv, call' = call, proc' = proc,
           \A i \in Ids : /\ disp[i].pc = "none" <=> disp'[i].pc = "none"
                          /\ Sending(i)' => Sending(i) /\ disp'[i].conn = disp[i].conn
    PROVE  CallsNumbered' /\ SendersKnown'
<1>1. ASSUME NEW c \in Clnts
      PROVE  /\ call[c].pc # "idle" => call[c].n # 0 /\ call[c].srv \in Servers
             /\ call[c].pc \in {"queued", "routed"} => disp'[Id(c)].pc = "none"
             /\ \A n \in 1..MaxCalls : n > call[c].n => disp'[<<c, n>>].pc = "none"
             /\ call[c].pc \in {"routed", "waiting", "decide"} => call[c].obj \in Conns /\ Known(call[c].obj)
             /\ call[c].pc = "waiting" /\ disp'[Id(c)].pc \in {"put", "write", "wait"} =>
                  disp'[Id(c)].conn = call[c].obj
  <2>1. /\ call[c].pc # "idle" => call[c].n # 0 /\ call[c].srv \in Servers
        /\ call[c].pc \in {"routed", "waiting", "decide"} => call[c].obj \in Conns /\ Known(call[c].obj)
    BY DEF CallInv, CallsNumbered
  <2>2. call[c].pc \in {"queued", "routed"} => disp'[Id(c)].pc = "none"
    BY IdIsId DEF CallInv, CallsNumbered
  <2>3. \A n \in 1..MaxCalls : n > call[c].n => disp'[<<c, n>>].pc = "none"
    BY IdsAssumption DEF CallInv, CallsNumbered
  <2>4. call[c].pc = "waiting" /\ disp'[Id(c)].pc \in {"put", "write", "wait"} =>
                  disp'[Id(c)].conn = call[c].obj
    BY IdIsId DEF CallInv, CallsNumbered, Sending
  <2> QED
    BY <2>1, <2>2, <2>3, <2>4
<1>2. CallsNumbered'
  BY <1>1 DEF CallsNumbered, Sending, Id, IdOf, Known
<1>3. SendersKnown'
  BY DEF CallInv, SendersKnown, Sending, Known
<1> QED
  BY <1>2, <1>3

\* A dispatch that ends with success has a call that is stored.
LEMMA DispStepSaved ==
    ASSUME TypeOK, CallInv, SavedInv, UNCHANGED <<netVars, groupVars>>,
           \A x \in Conns : wire'[x].ran \cup wire'[x].reps \subseteq wire[x].ran \cup wire[x].reps,
           \A i \in Ids : disp'[i].pc = "got" /\ disp'[i].ok =>
               (disp[i].pc = "got" /\ disp[i].ok) \/ (Sending(i) /\ Stored(i, disp[i].conn))
    PROVE  SavedInv'
<1>1. /\ call' = call /\ acked' = acked /\ procs' = procs /\ proc' = proc /\ saved' = saved
      /\ disk' = disk
  BY DEF netVars, groupVars
<1>2. \A x \in Conns : \A m \in wire'[x].ran \cup wire'[x].reps : Stored(m.id, x)
  BY DEF SavedInv
<1>3. ASSUME NEW c \in Clnts, call[c].pc = "waiting", disp'[Id(c)].pc = "got", disp'[Id(c)].ok
      PROVE  Stored(Id(c), call[c].obj)
  <2>1. Id(c) \in Ids
    BY <1>3, IdIsId DEF TypeOK
  <2>2. CASE disp[Id(c)].pc = "got" /\ disp[Id(c)].ok
    BY <1>3, <2>2 DEF SavedInv
  <2>3. CASE Sending(Id(c)) /\ Stored(Id(c), disp[Id(c)].conn)
    BY <1>3, <2>3 DEF CallInv, CallsNumbered
  <2> QED
    BY <1>3, <2>1, <2>2, <2>3
<1>4. /\ \A c \in Clnts :
           /\ call[c].pc \in {"queued", "routed", "waiting"} => ~call[c].ok
           /\ call[c].pc = "decide" /\ call[c].ok => Stored(Id(c), call[c].obj)
           /\ call[c].pc = "answer" /\ call[c].ok => Safe(Id(c), call[c].srv)
      /\ \A a \in acked : Safe(a.id, a.srv)
  BY DEF SavedInv
<1> QED
  BY <1>1, <1>2, <1>3, <1>4 DEF SavedInv, Stored, Safe, Process, Id, IdOf

\* A call leaves the callMap when no message with its tag is under way.
LEMMA CallLeaves ==
    ASSUME DemuxTypes, CallInv, NEW x \in Conns, NEW t \in DOMAIN dmx[x].calls, NEW ok \in BOOLEAN,
           Got(dmx[x].calls[t], ok),
           \A y \in Conns : y # x => dmx'[y] = dmx[y],
           dmx'[x].calls = RemoveCall(x, t), dmx'[x].nextTag = dmx[x].nextTag,
           \A y \in Conns : OnWire(y)' \subseteq OnWire(y), \A m \in OnWire(x)' : m.tag # t
    PROVE  /\ TagsTaken'
           /\ \A y \in Conns : \A m \in OnWire(y)' :
                /\ m.tag \in DOMAIN dmx'[y].calls
                /\ dmx'[y].calls[m.tag] = m.id /\ disp'[m.id].pc = "wait"
           /\ disp' \in [Ids -> [pc : {"none", "put", "write", "wait", "got"}, conn : Conns \cup {None},
                         tag : Nat, ok : BOOLEAN]]
           /\ disp'[dmx[x].calls[t]].pc = "got" /\ disp'[dmx[x].calls[t]].ok = ok
           /\ \A j \in Ids : j # dmx[x].calls[t] => disp'[j] = disp[j]
<1>1. PICK i : i = dmx[x].calls[t]
  OBVIOUS
<1>2. i \in Ids /\ disp[i].conn = x /\ disp[i].tag = t /\ disp[i].pc \in {"write", "wait"}
  BY <1>1, DemuxFields DEF CallInv, TagsTaken
<1>3. /\ disp' \in [Ids -> [pc : {"none", "put", "write", "wait", "got"}, conn : Conns \cup {None},
                         tag : Nat, ok : BOOLEAN]]
      /\ disp'[i].pc = "got" /\ disp'[i].ok = ok /\ \A j \in Ids : j # i => disp'[j] = disp[j]
  BY <1>1, <1>2 DEF Got, DemuxTypes
<1>4. /\ DOMAIN dmx'[x].calls = DOMAIN dmx[x].calls \ {t}
      /\ \A u \in DOMAIN dmx'[x].calls : dmx'[x].calls[u] = dmx[x].calls[u]
  BY DemuxFields, CallMapRemove DEF RemoveCall
<1>5. \A y \in Conns : \A u \in DOMAIN dmx'[y].calls :
          u \in DOMAIN dmx[y].calls /\ dmx'[y].calls[u] = dmx[y].calls[u] /\ (y # x \/ u # t)
  BY <1>4
<1>6. \A y \in Conns : \A u \in DOMAIN dmx[y].calls :
          (y # x \/ u # t) => dmx[y].calls[u] # i /\ u \in DOMAIN dmx'[y].calls
                              /\ dmx'[y].calls[u] = dmx[y].calls[u]
  BY <1>2, <1>4 DEF CallInv, TagsTaken
<1>7. TagsTaken'
  <2>1. ASSUME NEW y \in Conns, NEW u \in DOMAIN dmx'[y].calls
        PROVE  /\ u < dmx'[y].nextTag
               /\ disp'[dmx'[y].calls[u]].pc \in {"write", "wait"}
               /\ disp'[dmx'[y].calls[u]].conn = y /\ disp'[dmx'[y].calls[u]].tag = u
    <3>1. u \in DOMAIN dmx[y].calls /\ dmx'[y].calls[u] = dmx[y].calls[u] /\ dmx[y].calls[u] # i
      BY <1>5, <1>6
    <3>2. dmx[y].calls[u] \in Ids /\ dmx'[y].nextTag = dmx[y].nextTag
      BY <3>1, DemuxFields
    <3>3. disp'[dmx[y].calls[u]] = disp[dmx[y].calls[u]]
      BY <1>3, <3>1, <3>2
    <3> QED
      BY <3>1, <3>2, <3>3 DEF CallInv, TagsTaken
  <2>2. ASSUME NEW j \in Ids, disp'[j].pc \in {"write", "wait"}
        PROVE  /\ disp'[j].tag \in DOMAIN dmx'[disp'[j].conn].calls
               /\ dmx'[disp'[j].conn].calls[disp'[j].tag] = j
    <3>1. j # i /\ disp'[j] = disp[j]
      BY <1>3, <2>2
    <3>2. disp[j].conn \in Conns
      BY <2>2, <3>1 DEF CallInv, SendersKnown, Sending
    <3>3. disp[j].tag \in DOMAIN dmx[disp[j].conn].calls /\ dmx[disp[j].conn].calls[disp[j].tag] = j
      BY <2>2, <3>1 DEF CallInv, TagsTaken
    <3>4. disp[j].conn # x \/ disp[j].tag # t
      BY <1>1, <3>1, <3>3
    <3> QED
      BY <1>6, <3>1, <3>2, <3>3, <3>4
  <2> QED
    BY <2>1, <2>2 DEF TagsTaken
<1>8. ASSUME NEW y \in Conns, NEW m \in OnWire(y)'
      PROVE  /\ m.tag \in DOMAIN dmx'[y].calls
             /\ dmx'[y].calls[m.tag] = m.id /\ disp'[m.id].pc = "wait"
  <2>1. m.tag \in DOMAIN dmx[y].calls /\ dmx[y].calls[m.tag] = m.id /\ disp[m.id].pc = "wait"
    BY DEF CallInv, MessagesAwaited
  <2>2. y # x \/ m.tag # t
    OBVIOUS
  <2>3. m.tag \in DOMAIN dmx'[y].calls /\ dmx'[y].calls[m.tag] = m.id /\ m.id # i
    BY <1>6, <2>1, <2>2
  <2>4. m.id \in Ids
    BY <2>1, DemuxFields
  <2> QED
    BY <1>3, <2>1, <2>3, <2>4
<1> QED
  BY <1>1, <1>3, <1>7, <1>8

\* A dispatch that returned from the reader.
LEMMA CallEnds ==
    ASSUME TypeOK, CallInv, NEW i \in Ids, Sending(i), disp'[i].pc = "got",
           \A j \in Ids : j # i => disp'[j] = disp[j],
           UNCHANGED <<netVars, groupVars>>
    PROVE  CallsNumbered' /\ SendersKnown'
<1>1. call' = call /\ proc' = proc
  BY DEF netVars, groupVars
<1>2. \A j \in Ids : /\ disp[j].pc = "none" <=> disp'[j].pc = "none"
                     /\ Sending(j)' => Sending(j) /\ disp'[j].conn = disp[j].conn
  BY DEF Sending
<1> QED
  BY <1>1, <1>2, DispStepCalls DEF TypeOK

\* The reader hands a reply to the call that waits for it.
LEMMA ReadReplyStep ==
    ASSUME AllInv, NEW x \in Conns, NEW m \in wire[x].reps, ReadReply(x, m),
           UNCHANGED <<netVars, groupVars>>
    PROVE  AllInv'
<1>0. TypeOK /\ DemuxTypes /\ CallInv /\ SavedInv
  BY DEF AllInv, TypeOK
<1>1. /\ m \in Message /\ m.tag \in Nat /\ m.id \in Ids /\ m \in OnWire(x)
  BY <1>0, DemuxFields DEF OnWire
<1>2. m.tag \in DOMAIN dmx[x].calls /\ dmx[x].calls[m.tag] = m.id /\ disp[m.id].pc = "wait"
  BY <1>0, <1>1 DEF CallInv, MessagesAwaited
<1>3. PICK t : t = m.tag
  OBVIOUS
<1>4. /\ wire' = [wire EXCEPT ![x].reps = @ \ {m}]
      /\ Got(dmx[x].calls[t], TRUE)
      /\ dmx' = [dmx EXCEPT ![x].calls = RemoveCall(x, t)]
      /\ dmx[x].reader = "read" /\ t \in DOMAIN dmx[x].calls
  BY <1>2, <1>3 DEF ReadReply, Outstanding
<1>5. RemoveCall(x, t) \in CallMap
  BY <1>0, DemuxFields, CallMapRemove DEF RemoveCall
<1>6. /\ dmx' \in [Conns -> [nextTag : Nat, calls : CallMap, closed : BOOLEAN,
                             reader : {"off", "read", "fatal", "closed", "failing"}, failing : SUBSET Nat]]
      /\ dmx'[x].calls = RemoveCall(x, t) /\ dmx'[x].nextTag = dmx[x].nextTag
      /\ dmx'[x].reader = "read"
      /\ \A y \in Conns : y # x => dmx'[y] = dmx[y]
  BY <1>0, <1>4, <1>5, ZenonT(60) DEF DemuxTypes
<1>7. /\ wire' \in [Conns -> [open : BOOLEAN, reqs : SUBSET Message, ran : SUBSET Message,
                              reps : SUBSET Message]]
      /\ wire'[x].reqs = wire[x].reqs /\ wire'[x].ran = wire[x].ran /\ wire'[x].open = wire[x].open
      /\ wire'[x].reps = wire[x].reps \ {m}
      /\ \A y \in Conns : y # x => wire'[y] = wire[y]
  BY <1>0, <1>4 DEF DemuxTypes
<1>8. /\ wire[x].reqs \cap wire[x].reps = {} /\ wire[x].ran \cap wire[x].reps = {}
  BY <1>0 DEF CallInv, MessagesAwaited
<1>9. (\A y \in Conns : OnWire(y)' \subseteq OnWire(y)) /\ m \notin OnWire(x)'
  BY <1>7, <1>8 DEF OnWire
<1>10. ASSUME NEW k \in OnWire(x)' PROVE k.tag # t
  <2>1. k \in OnWire(x) /\ k # m /\ k \in Message
    BY <1>9, DemuxFields, <1>0 DEF OnWire
  <2>2. k = Msg(k.tag, k.id) /\ m = Msg(m.tag, m.id)
    BY <1>0, <1>1, <2>1, DemuxFields
  <2>3. dmx[x].calls[k.tag] = k.id
    BY <1>0, <2>1 DEF CallInv, MessagesAwaited
  <2> QED
    BY <1>2, <1>3, <2>1, <2>2, <2>3
<1>11. /\ TagsTaken'
       /\ \A y \in Conns : \A k \in OnWire(y)' :
                /\ k.tag \in DOMAIN dmx'[y].calls
                /\ dmx'[y].calls[k.tag] = k.id /\ disp'[k.id].pc = "wait"
       /\ disp' \in [Ids -> [pc : {"none", "put", "write", "wait", "got"}, conn : Conns \cup {None},
                         tag : Nat, ok : BOOLEAN]]
       /\ disp'[m.id].pc = "got"
       /\ \A j \in Ids : j # m.id => disp'[j] = disp[j]
  <2>1. /\ TagsTaken'
        /\ \A y \in Conns : \A k \in OnWire(y)' :
                /\ k.tag \in DOMAIN dmx'[y].calls
                /\ dmx'[y].calls[k.tag] = k.id /\ disp'[k.id].pc = "wait"
        /\ disp' \in [Ids -> [pc : {"none", "put", "write", "wait", "got"}, conn : Conns \cup {None},
                         tag : Nat, ok : BOOLEAN]]
        /\ disp'[dmx[x].calls[t]].pc = "got" /\ disp'[dmx[x].calls[t]].ok = TRUE
        /\ \A j \in Ids : j # dmx[x].calls[t] => disp'[j] = disp[j]
    <3>1. TRUE \in BOOLEAN
      OBVIOUS
    <3>2. \A y \in Conns : OnWire(y)' \subseteq OnWire(y)
      BY <1>9
    <3>3. \A k \in OnWire(x)' : k.tag # t
      BY <1>10
    <3> QED
      <4>1. Got(dmx[x].calls[t], TRUE) /\ t \in DOMAIN dmx[x].calls
        BY <1>4
      <4>2. /\ \A y \in Conns : y # x => dmx'[y] = dmx[y]
            /\ dmx'[x].calls = RemoveCall(x, t) /\ dmx'[x].nextTag = dmx[x].nextTag
        BY <1>6
      <4>3. DemuxTypes /\ CallInv
        BY <1>0
      <4> QED
        BY <3>1, <3>2, <3>3, <4>1, <4>2, <4>3, CallLeaves, ZenonT(30)
  <2> QED
    BY <1>2, <1>3, <2>1
<1>12. DemuxTypes'
  BY <1>6, <1>7, <1>11 DEF DemuxTypes
<1>13. CallInv'
  <2>1. CallsNumbered' /\ SendersKnown'
    BY <1>0, <1>1, <1>2, <1>11, CallEnds DEF Sending
  <2>2. MessagesAwaited'
    BY <1>0, <1>7, <1>11 DEF CallInv, MessagesAwaited
  <2>3. ReaderLast'
    BY <1>0, <1>6, <1>7 DEF CallInv, ReaderLast
  <2> QED
    BY <1>11, <2>1, <2>2, <2>3 DEF CallInv
<1>14. SavedInv'
  <2>1. \A y \in Conns : wire'[y].ran \cup wire'[y].reps \subseteq wire[y].ran \cup wire[y].reps
    BY <1>7
  <2>2. Sending(m.id) /\ Stored(m.id, disp[m.id].conn)
    <3>1. disp[m.id].conn = x
      BY <1>0, <1>2 DEF CallInv, TagsTaken
    <3> QED
      BY <1>0, <1>2, <3>1 DEF SavedInv, Sending
  <2>3. \A i \in Ids : disp'[i].pc = "got" /\ disp'[i].ok =>
               (disp[i].pc = "got" /\ disp[i].ok) \/ (Sending(i) /\ Stored(i, disp[i].conn))
    BY <1>11, <2>2
  <2> QED
    BY <1>0, <2>1, <2>3, DispStepSaved
<1> QED
  BY <1>12, <1>13, <1>14, SocketStep

\* A read error ends the reader's loop: no message is under way any more.
LEMMA ReadErrorStep ==
    ASSUME AllInv, NEW x \in Conns, ReadError(x) \/ ListOutstanding(x), UNCHANGED <<netVars, groupVars>>
    PROVE  AllInv'
<1>0. TypeOK /\ DemuxTypes /\ CallInv /\ SavedInv
  BY DEF AllInv, TypeOK
<1>1. /\ wire' = wire /\ disp' = disp
      /\ dmx' \in [Conns -> [nextTag : Nat, calls : CallMap, closed : BOOLEAN,
                             reader : {"off", "read", "fatal", "closed", "failing"}, failing : SUBSET Nat]]
      /\ dmx'[x].calls = dmx[x].calls /\ dmx'[x].nextTag = dmx[x].nextTag
      /\ \A y \in Conns : y # x => dmx'[y] = dmx[y]
      /\ dmx'[x].reader \in {"closed", "failing"} /\ dmx'[x].closed
      /\ dmx'[x].reader = "failing" => dmx'[x].failing = DOMAIN dmx[x].calls
      /\ ~wire[x].open /\ wire[x].reps = {}
  <2>1. CASE ReadError(x)
    <3>1. dmx \in [Conns -> [nextTag : Nat, calls : CallMap, closed : BOOLEAN,
                            reader : {"off", "read", "fatal", "closed", "failing"}, failing : SUBSET Nat]]
      BY <1>0 DEF DemuxTypes
    <3>2. /\ wire' = wire /\ disp' = disp /\ ~wire[x].open /\ wire[x].reps = {}
          /\ dmx' = [dmx EXCEPT ![x].reader = "closed", ![x].closed = TRUE]
      BY <2>1 DEF ReadError
    <3>3. dmx' \in [Conns -> [nextTag : Nat, calls : CallMap, closed : BOOLEAN,
                             reader : {"off", "read", "fatal", "closed", "failing"}, failing : SUBSET Nat]]
      BY <3>1, <3>2
    <3>4. /\ dmx'[x].calls = dmx[x].calls /\ dmx'[x].nextTag = dmx[x].nextTag
          /\ \A y \in Conns : y # x => dmx'[y] = dmx[y]
          /\ dmx'[x].reader = "closed" /\ dmx'[x].closed
      BY <3>1, <3>2
    <3> QED
      BY <3>2, <3>3, <3>4
  <2>2. CASE ListOutstanding(x)
    <3>1. DOMAIN dmx[x].calls \in SUBSET Nat /\ dmx[x].closed /\ ~wire[x].open /\ wire[x].reps = {}
      BY <1>0, <2>2, DemuxFields DEF ListOutstanding, CallInv, ReaderLast
    <3> QED
      BY <1>0, <2>2, <3>1, ZenonT(60) DEF ListOutstanding, Outstanding, DemuxTypes
  <2> QED
    BY <2>1, <2>2
<1>2. DemuxTypes'
  BY <1>0, <1>1 DEF DemuxTypes
<1>3. call' = call /\ proc' = proc
  BY DEF netVars, groupVars
<1>4. \A y \in Conns : dmx'[y].calls = dmx[y].calls /\ dmx'[y].nextTag = dmx[y].nextTag
  BY <1>1
<1>5. CallInv'
  <2>1. CallsNumbered' /\ SendersKnown'
    BY <1>0, <1>1, <1>3, DispStepCalls DEF TypeOK, Sending
  <2>2. TagsTaken'
    <3>1. \A i \in Ids : disp[i].pc \in {"write", "wait"} => disp[i].conn \in Conns
      BY <1>0 DEF CallInv, SendersKnown, Sending
    <3> QED
      BY <1>0, <1>1, <1>4, <3>1 DEF CallInv, TagsTaken
  <2>3. MessagesAwaited'
    BY <1>0, <1>1, <1>4 DEF CallInv, MessagesAwaited, OnWire
  <2>4. ReaderLast'
    BY <1>0, <1>1 DEF CallInv, ReaderLast
  <2> QED
    BY <2>1, <2>2, <2>3, <2>4 DEF CallInv
<1>6. SavedInv'
  BY <1>0, <1>1, DispStepSaved
<1> QED
  BY <1>2, <1>5, <1>6, SocketStep

\* The reader fails the calls that wait, one by one.
LEMMA FailCallStep ==
    ASSUME AllInv, NEW x \in Conns, NEW t \in dmx[x].failing, FailCall(x, t),
           UNCHANGED <<netVars, groupVars>>
    PROVE  AllInv'
<1>0. TypeOK /\ DemuxTypes /\ CallInv /\ SavedInv
  BY DEF AllInv, TypeOK
<1>1. /\ wire' = wire /\ Got(dmx[x].calls[t], FALSE) /\ disp[dmx[x].calls[t]].pc = "wait"
      /\ dmx' = [dmx EXCEPT ![x].calls = RemoveCall(x, t), ![x].failing = @ \ {t}]
      /\ dmx[x].reader = "failing"
  BY DEF FailCall
<1>2. /\ t \in DOMAIN dmx[x].calls /\ dmx[x].failing \subseteq DOMAIN dmx[x].calls
      /\ ~wire[x].open /\ wire[x].reps = {} /\ wire[x].reqs = {} /\ wire[x].ran = {} /\ dmx[x].closed
  BY <1>0, <1>1 DEF CallInv, ReaderLast
<1>3. PICK i : i = dmx[x].calls[t]
  OBVIOUS
<1>4. i \in Ids
  BY <1>0, <1>2, <1>3, DemuxFields
<1>5. RemoveCall(x, t) \in CallMap /\ DOMAIN RemoveCall(x, t) = DOMAIN dmx[x].calls \ {t}
  BY <1>0, DemuxFields, CallMapRemove DEF RemoveCall
<1>6. /\ dmx'[x].calls = RemoveCall(x, t) /\ dmx'[x].nextTag = dmx[x].nextTag
      /\ dmx'[x].reader = "failing" /\ dmx'[x].failing = dmx[x].failing \ {t} /\ dmx'[x].closed = dmx[x].closed
      /\ \A y \in Conns : y # x => dmx'[y] = dmx[y]
  BY <1>0, <1>1 DEF DemuxTypes
<1>7. dmx' \in [Conns -> [nextTag : Nat, calls : CallMap, closed : BOOLEAN,
                          reader : {"off", "read", "fatal", "closed", "failing"}, failing : SUBSET Nat]]
  <2>1. dmx[x].failing \ {t} \in SUBSET Nat
    BY <1>0, DemuxFields
  <2>2. dmx \in [Conns -> [nextTag : Nat, calls : CallMap, closed : BOOLEAN,
                          reader : {"off", "read", "fatal", "closed", "failing"}, failing : SUBSET Nat]]
    BY <1>0 DEF DemuxTypes
  <2> QED
    BY <1>1, <1>5, <2>1, <2>2
<1>8. (\A y \in Conns : OnWire(y)' = OnWire(y)) /\ OnWire(x)' = {}
  BY <1>1, <1>2 DEF OnWire
<1>9. /\ TagsTaken'
      /\ \A y \in Conns : \A k \in OnWire(y)' :
                /\ k.tag \in DOMAIN dmx'[y].calls
                /\ dmx'[y].calls[k.tag] = k.id /\ disp'[k.id].pc = "wait"
      /\ disp' \in [Ids -> [pc : {"none", "put", "write", "wait", "got"}, conn : Conns \cup {None},
                         tag : Nat, ok : BOOLEAN]]
      /\ disp'[i].pc = "got" /\ disp'[i].ok = FALSE
      /\ \A j \in Ids : j # i => disp'[j] = disp[j]
  <2>1. /\ TagsTaken'
        /\ \A y \in Conns : \A k \in OnWire(y)' :
                /\ k.tag \in DOMAIN dmx'[y].calls
                /\ dmx'[y].calls[k.tag] = k.id /\ disp'[k.id].pc = "wait"
        /\ disp' \in [Ids -> [pc : {"none", "put", "write", "wait", "got"}, conn : Conns \cup {None},
                         tag : Nat, ok : BOOLEAN]]
        /\ disp'[dmx[x].calls[t]].pc = "got" /\ disp'[dmx[x].calls[t]].ok = FALSE
        /\ \A j \in Ids : j # dmx[x].calls[t] => disp'[j] = disp[j]
    <3>1. FALSE \in BOOLEAN
      OBVIOUS
    <3>2. \A y \in Conns : OnWire(y)' \subseteq OnWire(y)
      BY <1>8
    <3>3. \A k \in OnWire(x)' : k.tag # t
      BY <1>8
    <3> QED
      BY <1>0, <1>1, <1>2, <1>6, <3>1, <3>2, <3>3, CallLeaves, Zenon
  <2> QED
    BY <1>3, <2>1
<1>10. DemuxTypes'
  BY <1>0, <1>1, <1>7, <1>9 DEF DemuxTypes
<1>11. CallInv'
  <2>1. CallsNumbered' /\ SendersKnown'
    BY <1>0, <1>1, <1>3, <1>4, <1>9, CallEnds DEF Sending
  <2>2. MessagesAwaited'
    BY <1>0, <1>1, <1>9 DEF CallInv, MessagesAwaited
  <2>3. ReaderLast'
    BY <1>0, <1>1, <1>2, <1>5, <1>6, ZenonT(60) DEF CallInv, ReaderLast
  <2> QED
    BY <1>9, <2>1, <2>2, <2>3 DEF CallInv
<1>12. SavedInv'
  <2>1. \A j \in Ids : disp'[j].pc = "got" /\ disp'[j].ok =>
               (disp[j].pc = "got" /\ disp[j].ok) \/ (Sending(j) /\ Stored(j, disp[j].conn))
    BY <1>9
  <2> QED
    BY <1>0, <1>1, <2>1, DispStepSaved
<1> QED
  BY <1>10, <1>11, <1>12, SocketStep

\* tag and put, on a map that is open: the new tag is no other call's.
LEMMA EnqueueOpenStep ==
    ASSUME AllInv, NEW i \in Ids, Enqueue(i), ~dmx[disp[i].conn].closed, UNCHANGED <<netVars, groupVars>>
    PROVE  AllInv'
<1>0. TypeOK /\ DemuxTypes /\ CallInv /\ SavedInv
  BY DEF AllInv, TypeOK
<1>1. PICK x : x = disp[i].conn
  OBVIOUS
<1>2. disp[i].pc = "put" /\ x \in Conns
  BY <1>0, <1>1 DEF Enqueue, CallInv, SendersKnown, Sending
<1>3. PICK t : t = dmx[x].nextTag
  OBVIOUS
<1>4. PICK f : f = [u \in DOMAIN dmx[x].calls \cup {t} |-> IF u = t THEN i ELSE dmx[x].calls[u]]
  OBVIOUS
<1>5. /\ dmx' = [dmx EXCEPT ![x].nextTag = t + 1, ![x].calls = f]
      /\ disp' = [disp EXCEPT ![i].pc = "write", ![i].tag = t]
      /\ wire' = wire
  BY <1>1, <1>3, <1>4 DEF Enqueue, NextTag
<1>6. t \in Nat /\ t + 1 \in Nat /\ dmx[x].calls \in CallMap
  BY <1>0, <1>2, <1>3, DemuxFields
<1>7. /\ f \in CallMap /\ DOMAIN f = DOMAIN dmx[x].calls \cup {t} /\ f[t] = i
      /\ \A u \in DOMAIN dmx[x].calls : u # t => f[u] = dmx[x].calls[u]
  <2>1. PICK h : h = dmx[x].calls
    OBVIOUS
  <2>2. h \in CallMap /\ f = [u \in DOMAIN h \cup {t} |-> IF u = t THEN i ELSE h[u]]
    BY <1>4, <1>6, <2>1
  <2>3. /\ f \in CallMap /\ DOMAIN f = DOMAIN h \cup {t} /\ f[t] = i
        /\ \A u \in DOMAIN h : u # t => f[u] = h[u]
    BY <1>6, <2>2, CallMapPut
  <2> QED
    BY <2>1, <2>3
<1>8. /\ dmx'[x].calls = f /\ dmx'[x].nextTag = t + 1 /\ dmx'[x].reader = dmx[x].reader
      /\ dmx'[x].closed = dmx[x].closed /\ dmx'[x].failing = dmx[x].failing
      /\ \A y \in Conns : y # x => dmx'[y] = dmx[y]
  BY <1>0, <1>2, <1>5 DEF DemuxTypes
<1>9. /\ disp'[i].pc = "write" /\ disp'[i].tag = t /\ disp'[i].conn = x
      /\ \A j \in Ids : j # i => disp'[j] = disp[j]
  BY <1>0, <1>1, <1>5 DEF DemuxTypes
<1>10. DemuxTypes'
  <2>1. dmx' \in [Conns -> [nextTag : Nat, calls : CallMap, closed : BOOLEAN,
                            reader : {"off", "read", "fatal", "closed", "failing"}, failing : SUBSET Nat]]
    <3>1. dmx \in [Conns -> [nextTag : Nat, calls : CallMap, closed : BOOLEAN,
                            reader : {"off", "read", "fatal", "closed", "failing"}, failing : SUBSET Nat]]
      BY <1>0 DEF DemuxTypes
    <3>2. PICK n \in Nat : n = t + 1
      BY <1>6
    <3>3. dmx' = [dmx EXCEPT ![x].nextTag = n, ![x].calls = f] /\ f \in CallMap
      BY <1>5, <1>7, <3>2
    <3> QED
      BY <3>1, <3>3
  <2>2. disp' \in [Ids -> [pc : {"none", "put", "write", "wait", "got"}, conn : Conns \cup {None},
                           tag : Nat, ok : BOOLEAN]]
    <3>1. disp \in [Ids -> [pc : {"none", "put", "write", "wait", "got"}, conn : Conns \cup {None},
                           tag : Nat, ok : BOOLEAN]]
      BY <1>0 DEF DemuxTypes
    <3> QED
      BY <1>5, <1>6, <3>1
  <2> QED
    BY <1>0, <1>5, <2>1, <2>2 DEF DemuxTypes
<1>11. ASSUME NEW y \in Conns, NEW u \in DOMAIN dmx[y].calls
       PROVE  /\ u \in Nat /\ dmx[y].calls[u] \in Ids /\ dmx[y].calls[u] # i /\ (y = x => u < t)
              /\ u \in DOMAIN dmx'[y].calls /\ dmx'[y].calls[u] = dmx[y].calls[u]
  <2>1. u \in Nat /\ dmx[y].calls[u] \in Ids
    BY <1>0, DemuxFields
  <2>2. u < dmx[y].nextTag /\ disp[dmx[y].calls[u]].pc \in {"write", "wait"}
    BY <1>0 DEF CallInv, TagsTaken
  <2>3. dmx[y].calls[u] # i /\ (y = x => u < t)
    BY <1>2, <1>3, <2>2
  <2>4. y = x => u # t
    BY <1>6, <2>1, <2>3
  <2>5. u \in DOMAIN dmx'[y].calls /\ dmx'[y].calls[u] = dmx[y].calls[u]
    BY <1>7, <1>8, <2>4
  <2> QED
    BY <2>1, <2>3, <2>5
<1>12. TagsTaken'
  <2>1. ASSUME NEW y \in Conns, NEW u \in DOMAIN dmx'[y].calls
        PROVE  /\ u < dmx'[y].nextTag
               /\ disp'[dmx'[y].calls[u]].pc \in {"write", "wait"}
               /\ disp'[dmx'[y].calls[u]].conn = y /\ disp'[dmx'[y].calls[u]].tag = u
    <3>1. CASE y = x /\ u = t
      BY <1>6, <1>7, <1>8, <1>9, <3>1
    <3>2. CASE u \in DOMAIN dmx[y].calls
      <4>1. /\ u \in Nat /\ dmx[y].calls[u] \in Ids /\ dmx[y].calls[u] # i /\ (y = x => u < t)
            /\ dmx'[y].calls[u] = dmx[y].calls[u]
        BY <1>11, <3>2
      <4>2. disp'[dmx[y].calls[u]] = disp[dmx[y].calls[u]]
        BY <1>9, <4>1
      <4>3. u < dmx[y].nextTag
        BY <1>0, <3>2 DEF CallInv, TagsTaken
      <4>4. u < dmx'[y].nextTag
        BY <1>3, <1>6, <1>8, <4>1, <4>3
      <4> QED
        BY <1>0, <3>2, <4>1, <4>2, <4>4 DEF CallInv, TagsTaken
    <3> QED
      BY <1>7, <1>8, <3>1, <3>2
  <2>2. ASSUME NEW j \in Ids, disp'[j].pc \in {"write", "wait"}
        PROVE  /\ disp'[j].tag \in DOMAIN dmx'[disp'[j].conn].calls
               /\ dmx'[disp'[j].conn].calls[disp'[j].tag] = j
    <3>1. CASE j = i
      BY <1>7, <1>8, <1>9, <3>1
    <3>2. CASE j # i
      <4>1. disp'[j] = disp[j]
        BY <1>9, <3>2
      <4>2. disp[j].conn \in Conns
        BY <1>0, <2>2, <4>1 DEF CallInv, SendersKnown, Sending
      <4>3. disp[j].tag \in DOMAIN dmx[disp[j].conn].calls /\ dmx[disp[j].conn].calls[disp[j].tag] = j
        BY <1>0, <2>2, <4>1 DEF CallInv, TagsTaken
      <4> QED
        BY <1>11, <4>1, <4>2, <4>3
    <3> QED
      BY <3>1, <3>2
  <2> QED
    BY <2>1, <2>2 DEF TagsTaken
<1>13. MessagesAwaited'
  <2>1. ASSUME NEW y \in Conns, NEW m \in OnWire(y)
        PROVE  /\ m.tag \in DOMAIN dmx'[y].calls
               /\ dmx'[y].calls[m.tag] = m.id /\ disp'[m.id].pc = "wait"
    <3>1. m.tag \in DOMAIN dmx[y].calls /\ dmx[y].calls[m.tag] = m.id /\ disp[m.id].pc = "wait"
      BY <1>0 DEF CallInv, MessagesAwaited
    <3>2. m.tag \in DOMAIN dmx'[y].calls /\ dmx'[y].calls[m.tag] = m.id /\ m.id # i /\ m.id \in Ids
      BY <1>11, <3>1
    <3> QED
      BY <1>9, <3>1, <3>2
  <2> QED
    BY <1>0, <1>5, <2>1 DEF CallInv, MessagesAwaited, OnWire
<1>14. ReaderLast'
  <2>1. dmx[x].reader \notin {"closed", "failing"}
    BY <1>0, <1>1, <1>2 DEF CallInv, ReaderLast
  <2> QED
    <3> SUFFICES ASSUME NEW y \in Conns
                 PROVE  /\ dmx'[y].reader # "fatal"
                        /\ ~wire[y].open => wire[y].reqs = {} /\ wire[y].ran = {}
                        /\ dmx'[y].reader \in {"closed", "failing"} =>
                             ~wire[y].open /\ wire[y].reps = {} /\ dmx'[y].closed
                        /\ dmx'[y].reader = "failing" => dmx'[y].failing \subseteq DOMAIN dmx'[y].calls
      BY <1>5 DEF ReaderLast
    <3>1. CASE y = x
      BY <1>0, <1>8, <2>1, <3>1 DEF CallInv, ReaderLast
    <3>2. CASE y # x
      BY <1>0, <1>8, <3>2 DEF CallInv, ReaderLast
    <3> QED
      BY <3>1, <3>2
<1>15. CallsNumbered' /\ SendersKnown'
  <2>1. call' = call /\ proc' = proc
    BY DEF netVars, groupVars
  <2>2. \A j \in Ids : /\ disp[j].pc = "none" <=> disp'[j].pc = "none"
                       /\ Sending(j)' => Sending(j) /\ disp'[j].conn = disp[j].conn
    BY <1>1, <1>2, <1>9 DEF Sending
  <2> QED
    BY <1>0, <2>1, <2>2, DispStepCalls DEF TypeOK
<1>16. SavedInv'
  <2>1. \A j \in Ids : disp'[j].pc = "got" /\ disp'[j].ok =>
               (disp[j].pc = "got" /\ disp[j].ok) \/ (Sending(j) /\ Stored(j, disp[j].conn))
    BY <1>9
  <2> QED
    BY <1>0, <1>5, <2>1, DispStepSaved
<1>17. CallInv'
  BY <1>12, <1>13, <1>14, <1>15 DEF CallInv
<1> QED
  BY <1>10, <1>16, <1>17, SocketStep

\* put on a map that is closed fails the call at once.
LEMMA EnqueueClosedStep ==
    ASSUME AllInv, NEW i \in Ids, Enqueue(i), dmx[disp[i].conn].closed, UNCHANGED <<netVars, groupVars>>
    PROVE  AllInv'
<1>0. TypeOK /\ DemuxTypes /\ CallInv /\ SavedInv
  BY DEF AllInv, TypeOK
<1>1. PICK x : x = disp[i].conn
  OBVIOUS
<1>2. disp[i].pc = "put" /\ x \in Conns /\ Sending(i)
  BY <1>0, <1>1 DEF Enqueue, CallInv, SendersKnown, Sending
<1>3. PICK t : t = dmx[x].nextTag
  OBVIOUS
<1>4. Got(i, FALSE) /\ dmx' = [dmx EXCEPT ![x].nextTag = t + 1] /\ wire' = wire
  BY <1>1, <1>3 DEF Enqueue, NextTag
<1>5. t \in Nat /\ t + 1 \in Nat
  BY <1>0, <1>2, <1>3, DemuxFields
<1>6. /\ dmx'[x].calls = dmx[x].calls /\ dmx'[x].nextTag = t + 1 /\ dmx'[x].reader = dmx[x].reader
      /\ dmx'[x].closed = dmx[x].closed /\ dmx'[x].failing = dmx[x].failing
      /\ \A y \in Conns : y # x => dmx'[y] = dmx[y]
  BY <1>0, <1>2, <1>4 DEF DemuxTypes
<1>7. /\ disp'[i].pc = "got" /\ disp'[i].ok = FALSE
      /\ \A j \in Ids : j # i => disp'[j] = disp[j]
  BY <1>0, <1>4 DEF DemuxTypes, Got
<1>8. DemuxTypes'
  <2>1. dmx' \in [Conns -> [nextTag : Nat, calls : CallMap, closed : BOOLEAN,
                            reader : {"off", "read", "fatal", "closed", "failing"}, failing : SUBSET Nat]]
    <3>1. dmx \in [Conns -> [nextTag : Nat, calls : CallMap, closed : BOOLEAN,
                            reader : {"off", "read", "fatal", "closed", "failing"}, failing : SUBSET Nat]]
      BY <1>0 DEF DemuxTypes
    <3>2. PICK n \in Nat : n = t + 1
      BY <1>5
    <3>3. dmx' = [dmx EXCEPT ![x].nextTag = n]
      BY <1>4, <3>2
    <3> QED
      BY <3>1, <3>3, ZenonT(60)
  <2>2. disp' \in [Ids -> [pc : {"none", "put", "write", "wait", "got"}, conn : Conns \cup {None},
                           tag : Nat, ok : BOOLEAN]]
    BY <1>0, <1>4 DEF DemuxTypes, Got
  <2> QED
    BY <1>0, <1>4, <2>1, <2>2 DEF DemuxTypes
<1>9. \A y \in Conns : \A u \in DOMAIN dmx[y].calls :
         /\ dmx[y].calls[u] \in Ids /\ u \in Nat
         /\ disp[dmx[y].calls[u]].pc \in {"write", "wait"} /\ u < dmx[y].nextTag
  BY <1>0, DemuxFields DEF CallInv, TagsTaken
<1>10. \A y \in Conns : dmx'[y].calls = dmx[y].calls
  BY <1>6
<1>11. TagsTaken'
  <2>1. ASSUME NEW y \in Conns, NEW u \in DOMAIN dmx[y].calls
        PROVE  /\ u < dmx'[y].nextTag
               /\ disp'[dmx[y].calls[u]].pc \in {"write", "wait"}
               /\ disp'[dmx[y].calls[u]].conn = y /\ disp'[dmx[y].calls[u]].tag = u
    <3>1. disp'[dmx[y].calls[u]] = disp[dmx[y].calls[u]]
      BY <1>2, <1>7, <1>9
    <3>2. u < dmx'[y].nextTag
      BY <1>3, <1>5, <1>6, <1>9
    <3> QED
      BY <1>0, <3>1, <3>2 DEF CallInv, TagsTaken
  <2>2. ASSUME NEW j \in Ids, disp'[j].pc \in {"write", "wait"}
        PROVE  /\ disp'[j].tag \in DOMAIN dmx'[disp'[j].conn].calls
               /\ dmx'[disp'[j].conn].calls[disp'[j].tag] = j
    <3>1. disp'[j] = disp[j]
      BY <1>7, <2>2
    <3>2. disp[j].conn \in Conns
      BY <1>0, <2>2, <3>1 DEF CallInv, SendersKnown, Sending
    <3> QED
      BY <1>0, <1>10, <2>2, <3>1, <3>2 DEF CallInv, TagsTaken
  <2> QED
    BY <1>10, <2>1, <2>2 DEF TagsTaken
<1>12. MessagesAwaited'
  <2>1. ASSUME NEW y \in Conns, NEW m \in OnWire(y)
        PROVE  /\ m.tag \in DOMAIN dmx[y].calls
               /\ dmx[y].calls[m.tag] = m.id /\ disp'[m.id].pc = "wait"
    <3>1. m.tag \in DOMAIN dmx[y].calls /\ dmx[y].calls[m.tag] = m.id /\ disp[m.id].pc = "wait"
      BY <1>0 DEF CallInv, MessagesAwaited
    <3> QED
      BY <1>2, <1>7, <1>9, <3>1
  <2> QED
    BY <1>0, <1>4, <1>10, <2>1 DEF CallInv, MessagesAwaited, OnWire
<1>13. ReaderLast'
  BY <1>0, <1>4, <1>6 DEF CallInv, ReaderLast
<1>14. CallsNumbered' /\ SendersKnown'
  BY <1>0, <1>2, <1>7, CallEnds
<1>15. SavedInv'
  <2>1. \A j \in Ids : disp'[j].pc = "got" /\ disp'[j].ok =>
               (disp[j].pc = "got" /\ disp[j].ok) \/ (Sending(j) /\ Stored(j, disp[j].conn))
    BY <1>7
  <2> QED
    BY <1>0, <1>4, <2>1, DispStepSaved
<1>16. CallInv'
  BY <1>11, <1>12, <1>13, <1>14 DEF CallInv
<1> QED
  BY <1>8, <1>15, <1>16, SocketStep

\* WriteCall: a request is under way only once its call waits.
LEMMA WriteStep ==
    ASSUME AllInv, NEW i \in Ids, Write(i), UNCHANGED <<netVars, groupVars>>
    PROVE  AllInv'
<1>0. TypeOK /\ DemuxTypes /\ CallInv /\ SavedInv
  BY DEF AllInv, TypeOK
<1>1. PICK x, t : x = disp[i].conn /\ t = disp[i].tag
  OBVIOUS
<1>2. /\ disp[i].pc = "write" /\ x \in Conns /\ t \in Nat
      /\ t \in DOMAIN dmx[x].calls /\ dmx[x].calls[t] = i
  BY <1>0, <1>1, DemuxFields DEF Write, CallInv, SendersKnown, Sending, TagsTaken
<1>3. PICK m : m = Msg(t, i)
  OBVIOUS
<1>4. m \in Message /\ m.tag = t /\ m.id = i
  BY <1>2, <1>3 DEF Message, Msg
<1>5. /\ dmx' = dmx /\ disp' = [disp EXCEPT ![i].pc = "wait"]
      /\ wire' = IF wire[x].open THEN [wire EXCEPT ![x].reqs = @ \cup {m}] ELSE wire
  BY <1>1, <1>3 DEF Write
<1>6. /\ disp' \in [Ids -> [pc : {"none", "put", "write", "wait", "got"}, conn : Conns \cup {None},
                           tag : Nat, ok : BOOLEAN]]
      /\ disp'[i].pc = "wait" /\ disp'[i].tag = t /\ disp'[i].conn = x
      /\ \A j \in Ids : j # i => disp'[j] = disp[j]
  BY <1>0, <1>1, <1>5 DEF DemuxTypes
<1>7. /\ wire' \in [Conns -> [open : BOOLEAN, reqs : SUBSET Message, ran : SUBSET Message,
                              reps : SUBSET Message]]
      /\ \A y \in Conns : /\ wire'[y].ran = wire[y].ran /\ wire'[y].reps = wire[y].reps
                          /\ wire'[y].open = wire[y].open
      /\ wire'[x].reqs = wire[x].reqs \/ (wire[x].open /\ wire'[x].reqs = wire[x].reqs \cup {m})
      /\ \A y \in Conns : y # x => wire'[y].reqs = wire[y].reqs
  <2>1. wire \in [Conns -> [open : BOOLEAN, reqs : SUBSET Message, ran : SUBSET Message,
                              reps : SUBSET Message]]
    BY <1>0 DEF DemuxTypes
  <2>2. CASE ~wire[x].open
    BY <1>5, <2>1, <2>2
  <2>3. CASE wire[x].open
    <3>1. wire' = [wire EXCEPT ![x].reqs = @ \cup {m}]
      BY <1>5, <2>3
    <3>2. wire[x].reqs \cup {m} \in SUBSET Message
      BY <1>2, <1>4, <2>1
    <3>3. wire' \in [Conns -> [open : BOOLEAN, reqs : SUBSET Message, ran : SUBSET Message,
                              reps : SUBSET Message]]
      BY <2>1, <3>1, <3>2
    <3>4. /\ \A y \in Conns : /\ wire'[y].ran = wire[y].ran /\ wire'[y].reps = wire[y].reps
                              /\ wire'[y].open = wire[y].open
          /\ wire'[x].reqs = wire[x].reqs \cup {m}
          /\ \A y \in Conns : y # x => wire'[y].reqs = wire[y].reqs
      BY <1>2, <2>1, <3>1
    <3> QED
      BY <2>3, <3>3, <3>4
  <2> QED
    BY <2>2, <2>3
<1>8. DemuxTypes'
  BY <1>0, <1>5, <1>6, <1>7 DEF DemuxTypes
<1>9. CallsNumbered' /\ SendersKnown'
  <2>1. call' = call /\ proc' = proc
    BY DEF netVars, groupVars
  <2>2. \A j \in Ids : /\ disp[j].pc = "none" <=> disp'[j].pc = "none"
                       /\ Sending(j)' => Sending(j) /\ disp'[j].conn = disp[j].conn
    BY <1>1, <1>2, <1>6 DEF Sending
  <2> QED
    BY <1>0, <2>1, <2>2, DispStepCalls DEF TypeOK
<1>10. TagsTaken'
  <2>1. \A j \in Ids : /\ disp'[j].conn = disp[j].conn /\ disp'[j].tag = disp[j].tag
                       /\ disp'[j].pc \in {"write", "wait"} <=> disp[j].pc \in {"write", "wait"}
    BY <1>1, <1>2, <1>6
  <2>2. \A y \in Conns : \A u \in DOMAIN dmx[y].calls : dmx[y].calls[u] \in Ids
    BY <1>0, DemuxFields
  <2> QED
    BY <1>0, <1>5, <2>1, <2>2 DEF CallInv, TagsTaken
<1>11. m \notin OnWire(x) /\ \A y \in Conns : \A k \in OnWire(y) : k.id \in Ids /\ k.id # i
  <2>1. \A y \in Conns : \A k \in OnWire(y) : k.id \in Ids
    BY <1>0, DemuxFields DEF OnWire
  <2>2. \A y \in Conns : \A k \in OnWire(y) : k.id # i
    BY <1>0, <1>2 DEF CallInv, MessagesAwaited
  <2> QED
    BY <1>2, <1>4, <2>1, <2>2
<1>12. MessagesAwaited'
  <2>1. ASSUME NEW y \in Conns, NEW k \in OnWire(y)'
        PROVE  k.tag \in DOMAIN dmx[y].calls /\ dmx[y].calls[k.tag] = k.id /\ disp'[k.id].pc = "wait"
    <3>1. CASE k \in OnWire(y)
      <4>1. k.tag \in DOMAIN dmx[y].calls /\ dmx[y].calls[k.tag] = k.id /\ disp[k.id].pc = "wait"
        BY <1>0, <3>1 DEF CallInv, MessagesAwaited
      <4> QED
        BY <1>6, <1>11, <3>1, <4>1
    <3>2. CASE k = m /\ y = x
      BY <1>2, <1>4, <1>6, <3>2
    <3> QED
      BY <1>7, <3>1, <3>2 DEF OnWire
  <2>2. ASSUME NEW y \in Conns
        PROVE  /\ wire'[y].reqs \cap wire'[y].ran = {} /\ wire'[y].reqs \cap wire'[y].reps = {}
               /\ wire'[y].ran \cap wire'[y].reps = {}
    <3>1. /\ wire[y].reqs \cap wire[y].ran = {} /\ wire[y].reqs \cap wire[y].reps = {}
          /\ wire[y].ran \cap wire[y].reps = {}
      BY <1>0 DEF CallInv, MessagesAwaited
    <3> QED
      BY <1>7, <1>11, <3>1 DEF OnWire
  <2> QED
    BY <1>5, <2>1, <2>2 DEF MessagesAwaited
<1>13. ReaderLast'
  <2> SUFFICES ASSUME NEW y \in Conns
               PROVE  /\ dmx[y].reader # "fatal"
                      /\ ~wire'[y].open => wire'[y].reqs = {} /\ wire'[y].ran = {}
                      /\ dmx[y].reader \in {"closed", "failing"} =>
                           ~wire'[y].open /\ wire'[y].reps = {} /\ dmx[y].closed
                      /\ dmx[y].reader = "failing" => dmx[y].failing \subseteq DOMAIN dmx[y].calls
    BY <1>5 DEF ReaderLast
  <2> QED
    BY <1>0, <1>7 DEF CallInv, ReaderLast
<1>14. SavedInv'
  <2>1. \A j \in Ids : disp'[j].pc = "got" /\ disp'[j].ok =>
               (disp[j].pc = "got" /\ disp[j].ok) \/ (Sending(j) /\ Stored(j, disp[j].conn))
    BY <1>6
  <2>2. \A y \in Conns : wire'[y].ran \cup wire'[y].reps \subseteq wire[y].ran \cup wire[y].reps
    BY <1>7
  <2> QED
    BY <1>0, <2>1, <2>2, DispStepSaved
<1>15. CallInv'
  BY <1>9, <1>10, <1>12, <1>13 DEF CallInv
<1> QED
  BY <1>8, <1>14, <1>15, SocketStep

-----------------------------------------------------------------------------
(* The network *)

\* What is left to show of a step of the network.
LEMMA NetworkStep ==
    ASSUME AllInv, UNCHANGED groupVars, servers' = servers, NetTypes', DemuxTypes', CallInv', SavedInv',
           \A c \in Clnts : clnt'[c].enabled = clnt'[c].ends \cap clnt'[c].srvs
    PROVE  AllInv'
<1>1. /\ procs' = procs /\ proc' = proc /\ saved' = saved /\ links' = links /\ connected' = connected
      /\ tst' = tst /\ disk' = disk
  BY DEF groupVars
<1>2. TypeOK'
  BY <1>1 DEF AllInv, TypeOK, GroupTypes
<1>3. LinkInv'
  BY <1>1 DEF AllInv, LinkInv, Running, At
<1>4. ProcessInv'
  BY <1>1, SameProcesses DEF AllInv, ProcessVars
<1> QED
  BY <1>2, <1>3, <1>4 DEF AllInv

\* The call of one client moves on; sockets are left alone.
LEMMA NetStepCalls ==
    ASSUME CallInv, UNCHANGED demuxVars, proc' = proc, NEW c \in Clnts,
           \A d \in Clnts : d # c => call'[d] = call[d],
           call'[c].pc # "idle" => call'[c].n # 0 /\ call'[c].srv \in Servers,
           call'[c].pc \in {"queued", "routed"} => disp[<<c, call'[c].n>>].pc = "none",
           \A n \in 1..MaxCalls : n > call'[c].n => disp[<<c, n>>].pc = "none",
           call'[c].pc \in {"routed", "waiting", "decide"} => call'[c].obj \in Conns /\ Known(call'[c].obj),
           call'[c].pc = "waiting" /\ Sending(<<c, call'[c].n>>) => disp[<<c, call'[c].n>>].conn = call'[c].obj
    PROVE  CallInv'
<1>1. dmx' = dmx /\ wire' = wire /\ disp' = disp
  BY DEF demuxVars
<1>2. CallsNumbered'
  <2> SUFFICES ASSUME NEW d \in Clnts
      PROVE  /\ call'[d].pc # "idle" => call'[d].n # 0 /\ call'[d].srv \in Servers
             /\ call'[d].pc \in {"queued", "routed"} => disp[<<d, call'[d].n>>].pc = "none"
             /\ \A n \in 1..MaxCalls : n > call'[d].n => disp[<<d, n>>].pc = "none"
             /\ call'[d].pc \in {"routed", "waiting", "decide"} =>
                  call'[d].obj \in Conns /\ Known(call'[d].obj)
             /\ call'[d].pc = "waiting" /\ Sending(<<d, call'[d].n>>) =>
                  disp[<<d, call'[d].n>>].conn = call'[d].obj
    BY <1>1 DEF CallsNumbered, Id, IdOf, Known, Sending
  <2>1. CASE d = c
    BY <2>1
  <2>2. CASE d # c
    <3>1. call'[d] = call[d]
      BY <2>2
    <3> QED
      BY <3>1 DEF CallInv, CallsNumbered, Id, IdOf
  <2> QED
    BY <2>1, <2>2
<1>3. SendersKnown' /\ TagsTaken'
  BY <1>1 DEF CallInv, SendersKnown, TagsTaken, Sending, Known
<1>4. MessagesAwaited' /\ ReaderLast'
  BY <1>1 DEF CallInv, MessagesAwaited, ReaderLast, OnWire
<1> QED
  BY <1>2, <1>3, <1>4 DEF CallInv

\* The same for what is saved.
LEMMA NetStepSaved ==
    ASSUME SavedInv, wire' = wire, UNCHANGED groupVars, NEW c \in Clnts,
           \A d \in Clnts : d # c => call'[d] = call[d] /\ disp'[<<d, call[d].n>>] = disp[<<d, call[d].n>>],
           call'[c].pc \in {"queued", "routed", "waiting"} => ~call'[c].ok,
           call'[c].pc = "waiting" /\ disp'[<<c, call'[c].n>>].pc = "got" /\ disp'[<<c, call'[c].n>>].ok =>
             Stored(<<c, call'[c].n>>, call'[c].obj),
           call'[c].pc = "decide" /\ call'[c].ok => Stored(<<c, call'[c].n>>, call'[c].obj),
           call'[c].pc = "answer" /\ call'[c].ok => Safe(<<c, call'[c].n>>, call'[c].srv),
           \A a \in acked' : Safe(a.id, a.srv)
    PROVE  SavedInv'
<1>1. procs' = procs /\ proc' = proc /\ saved' = saved /\ disk' = disk
  BY DEF groupVars
<1>2. \A x \in Conns : \A m \in wire[x].ran \cup wire[x].reps : Stored(m.id, x)
  BY DEF SavedInv
<1>3. ASSUME NEW d \in Clnts
      PROVE  /\ call'[d].pc \in {"queued", "routed", "waiting"} => ~call'[d].ok
             /\ call'[d].pc = "waiting" /\ disp'[<<d, call'[d].n>>].pc = "got"
                /\ disp'[<<d, call'[d].n>>].ok => Stored(<<d, call'[d].n>>, call'[d].obj)
             /\ call'[d].pc = "decide" /\ call'[d].ok => Stored(<<d, call'[d].n>>, call'[d].obj)
             /\ call'[d].pc = "answer" /\ call'[d].ok => Safe(<<d, call'[d].n>>, call'[d].srv)
  <2>1. CASE d = c
    BY <2>1
  <2>2. CASE d # c
    <3>1. call'[d] = call[d] /\ disp'[<<d, call[d].n>>] = disp[<<d, call[d].n>>]
      BY <2>2
    <3> QED
      BY <3>1 DEF SavedInv, Id, IdOf
  <2> QED
    BY <2>1, <2>2
<1> QED
  BY <1>1, <1>2, <1>3 DEF SavedInv, Stored, Safe, Process, Id, IdOf

CallType == [pc : {"idle", "queued", "routed", "waiting", "decide", "answer"},
             n : 0..MaxCalls, srv : Servers \cup {None}, obj : Conns \cup {None}, ok : BOOLEAN]

\* The call of one client moves on to q, and nothing else but the record of the answers
\* and the client's ends changes.
LEMMA CallMoves ==
    ASSUME AllInv, UNCHANGED groupVars, UNCHANGED demuxVars, servers' = servers,
           clnt' \in [Clnts -> [ends : SUBSET Servers, enabled : SUBSET Servers, srvs : SUBSET Servers]],
           \A d \in Clnts : clnt'[d].enabled = clnt'[d].ends \cap clnt'[d].srvs,
           NEW c \in Clnts, NEW q \in CallType, call' = [call EXCEPT ![c] = q],
           acked' \in SUBSET [id : Ids, srv : Servers], \A a \in acked' : Safe(a.id, a.srv),
           q.pc # "idle" => q.n # 0 /\ q.srv \in Servers,
           q.pc \in {"queued", "routed"} => disp[<<c, q.n>>].pc = "none",
           q.n = call[c].n \/ q.n = call[c].n + 1,
           q.pc \in {"routed", "waiting", "decide"} => q.obj \in Conns /\ Known(q.obj),
           q.pc # "waiting",
           q.pc \in {"queued", "routed"} => ~q.ok,
           q.pc = "decide" /\ q.ok => Stored(<<c, q.n>>, q.obj),
           q.pc = "answer" /\ q.ok => Safe(<<c, q.n>>, q.srv)
    PROVE  AllInv'
<1>1. call \in [Clnts -> CallType] /\ call[c].n \in 0..MaxCalls
  BY DEF AllInv, TypeOK, NetTypes, CallType
<1>2. call' \in [Clnts -> CallType] /\ call'[c] = q /\ \A d \in Clnts : d # c => call'[d] = call[d]
  BY <1>1
<1>3. NetTypes'
  BY <1>2 DEF AllInv, TypeOK, NetTypes, CallType
<1>4. dmx' = dmx /\ wire' = wire /\ disp' = disp
  BY DEF demuxVars
<1>5. DemuxTypes'
  BY <1>4 DEF AllInv, TypeOK, DemuxTypes
<1>6. \A n \in 1..MaxCalls : n > q.n => disp[<<c, n>>].pc = "none"
  <2>1. \A n \in 1..MaxCalls : n > call[c].n => disp[<<c, n>>].pc = "none"
    BY DEF AllInv, CallInv, CallsNumbered
  <2>2. \A n \in 1..MaxCalls : n > q.n => n > call[c].n
    BY <1>1, BoundsAssumption
  <2> QED
    BY <2>1, <2>2
<1>7. CallInv'
  <2>1. proc' = proc
    BY DEF groupVars
  <2> QED
    BY <1>2, <1>6, <2>1, NetStepCalls DEF AllInv
<1>8. SavedInv'
  BY <1>2, <1>4, NetStepSaved DEF AllInv
<1> QED
  BY <1>3, <1>5, <1>7, <1>8, NetworkStep

\* Call: a new call has no dispatch.
LEMMA CallStep ==
    ASSUME AllInv, NEW c \in Clnts, NEW s \in ClerkServers, Call(c, s), UNCHANGED groupVars
    PROVE  AllInv'
<1>0. s \in Servers
  BY ClerkServersAssumption
<1>1. /\ call[c].pc = "idle" /\ call[c].n < MaxCalls /\ servers' = servers /\ acked' = acked
      /\ UNCHANGED demuxVars
  BY DEF Call
<1>2. PICK k : k = call[c].n + 1
  OBVIOUS
<1>3. call[c].n \in 0..MaxCalls
  BY DEF AllInv, TypeOK, NetTypes
<1>4. k \in 0..MaxCalls /\ k # 0 /\ k \in 1..MaxCalls /\ k > call[c].n
  BY <1>1, <1>2, <1>3, BoundsAssumption
<1>5. PICK q : q = [pc |-> "queued", n |-> k, srv |-> s, obj |-> None, ok |-> FALSE]
  OBVIOUS
<1>6. q \in CallType /\ q.pc = "queued" /\ q.n = k /\ q.srv = s /\ ~q.ok
  BY <1>0, <1>4, <1>5 DEF CallType
<1>7. call' = [call EXCEPT ![c] = q]
  BY <1>2, <1>5 DEF Call
<1>8. clnt \in [Clnts -> [ends : SUBSET Servers, enabled : SUBSET Servers, srvs : SUBSET Servers]]
  BY DEF AllInv, TypeOK, NetTypes
<1>9. /\ clnt' \in [Clnts -> [ends : SUBSET Servers, enabled : SUBSET Servers, srvs : SUBSET Servers]]
      /\ \A d \in Clnts : clnt'[d].enabled = clnt'[d].ends \cap clnt'[d].srvs
  <2>1. \A d \in Clnts : clnt[d].enabled = clnt[d].ends \cap clnt[d].srvs
    BY DEF AllInv, LinkInv
  <2>2. CASE s \in clnt[c].ends
    BY <1>8, <2>1, <2>2 DEF Call
  <2>3. CASE s \notin clnt[c].ends
    <3>1. PICK e : e = IF s \in clnt[c].srvs THEN clnt[c].enabled \cup {s} ELSE clnt[c].enabled
      OBVIOUS
    <3>2. clnt' = [clnt EXCEPT ![c].ends = @ \cup {s}, ![c].enabled = e]
      BY <2>3, <3>1 DEF Call
    <3>3. PICK f : f = clnt[c].ends \cup {s}
      OBVIOUS
    <3>4. e \in SUBSET Servers /\ f \in SUBSET Servers /\ e = f \cap clnt[c].srvs
      BY <1>0, <1>8, <2>1, <3>1, <3>3
    <3>5. clnt' = [clnt EXCEPT ![c].ends = f, ![c].enabled = e]
      BY <3>2, <3>3
    <3>6. /\ clnt' \in [Clnts -> [ends : SUBSET Servers, enabled : SUBSET Servers, srvs : SUBSET Servers]]
      BY <1>8, <3>4, <3>5
    <3>7. /\ clnt'[c].ends = f /\ clnt'[c].enabled = e /\ clnt'[c].srvs = clnt[c].srvs
          /\ \A d \in Clnts : d # c => clnt'[d] = clnt[d]
      BY <1>8, <3>5
    <3> QED
      BY <2>1, <3>4, <3>6, <3>7
  <2> QED
    BY <2>2, <2>3
<1>10. acked' \in SUBSET [id : Ids, srv : Servers] /\ \A a \in acked' : Safe(a.id, a.srv)
  BY <1>1 DEF AllInv, TypeOK, NetTypes, SavedInv
<1>11. disp[<<c, k>>].pc = "none"
  BY <1>4 DEF AllInv, CallInv, CallsNumbered
<1> QED
  BY <1>0, <1>1, <1>2, <1>4, <1>6, <1>7, <1>9, <1>10, <1>11, CallMoves

\* DisconnectAll and ConnectAll of a client: its ends follow what it may reach.
LEMMA EndsStep ==
    ASSUME AllInv, NEW c \in Clnts, DisconnectClnt(c) \/ ConnectClnt(c), UNCHANGED groupVars
    PROVE  AllInv'
<1>1. /\ servers' = servers /\ acked' = acked /\ call' = call /\ UNCHANGED demuxVars
      /\ procs' = procs /\ proc' = proc /\ saved' = saved /\ disk' = disk
      /\ dmx' = dmx /\ wire' = wire /\ disp' = disp
  BY DEF DisconnectClnt, ConnectClnt, groupVars, demuxVars
<1>2. clnt \in [Clnts -> [ends : SUBSET Servers, enabled : SUBSET Servers, srvs : SUBSET Servers]]
  BY DEF AllInv, TypeOK, NetTypes
<1>3. \A d \in Clnts : clnt[d].enabled = clnt[d].ends \cap clnt[d].srvs
  BY DEF AllInv, LinkInv
<1>4. PICK e \in SUBSET Servers, v \in SUBSET Servers :
         e = clnt[c].ends \cap v /\ clnt' = [clnt EXCEPT ![c].enabled = e, ![c].srvs = v]
  <2>1. CASE DisconnectClnt(c)
    <3>1. {} \in SUBSET Servers /\ {} = clnt[c].ends \cap {}
      OBVIOUS
    <3> QED
      BY <2>1, <3>1 DEF DisconnectClnt
  <2>2. CASE ConnectClnt(c)
    <3>1. clnt[c].ends \in SUBSET Servers /\ Servers \in SUBSET Servers
          /\ clnt[c].ends = clnt[c].ends \cap Servers
      BY <1>2
    <3>2. clnt' = [clnt EXCEPT ![c].enabled = clnt[c].ends, ![c].srvs = Servers]
      BY <2>2 DEF ConnectClnt
    <3> QED
      BY <3>1, <3>2, Zenon
  <2> QED
    BY <2>1, <2>2
<1>5. clnt' \in [Clnts -> [ends : SUBSET Servers, enabled : SUBSET Servers, srvs : SUBSET Servers]]
  BY <1>2, <1>4
<1>6. /\ clnt'[c].ends = clnt[c].ends /\ clnt'[c].enabled = e /\ clnt'[c].srvs = v
      /\ \A d \in Clnts : d # c => clnt'[d] = clnt[d]
  BY <1>2, <1>4
<1>7. \A d \in Clnts : clnt'[d].enabled = clnt'[d].ends \cap clnt'[d].srvs
  BY <1>3, <1>4, <1>6
<1>8. NetTypes' /\ DemuxTypes'
  BY <1>1, <1>5 DEF AllInv, TypeOK, NetTypes, DemuxTypes
<1>9. CallInv' /\ SavedInv'
  BY <1>1, TesterStepCalls
<1> QED
  BY <1>1, <1>7, <1>8, <1>9, NetworkStep

\* What a client's call is, and what stays of the network, in a step of processReq.
LEMMA CallFields ==
    ASSUME AllInv, NEW c \in Clnts
    PROVE  /\ call[c] \in CallType
           /\ acked \in SUBSET [id : Ids, srv : Servers] /\ \A a \in acked : Safe(a.id, a.srv)
           /\ clnt \in [Clnts -> [ends : SUBSET Servers, enabled : SUBSET Servers, srvs : SUBSET Servers]]
           /\ \A d \in Clnts : clnt[d].enabled = clnt[d].ends \cap clnt[d].srvs
           /\ Id(c) = <<c, call[c].n>>
           /\ call[c].pc # "idle" => Id(c) \in Ids /\ call[c].n # 0 /\ call[c].srv \in Servers
           /\ call[c].pc \in {"queued", "routed"} => disp[<<c, call[c].n>>].pc = "none"
           /\ call[c].pc \in {"routed", "waiting", "decide"} => call[c].obj \in Conns /\ Known(call[c].obj)
           /\ call[c].pc \in {"queued", "routed", "waiting"} => ~call[c].ok
<1>1. call[c] \in CallType
  BY DEF AllInv, TypeOK, NetTypes, CallType
<1>2. /\ acked \in SUBSET [id : Ids, srv : Servers] /\ \A a \in acked : Safe(a.id, a.srv)
      /\ clnt \in [Clnts -> [ends : SUBSET Servers, enabled : SUBSET Servers, srvs : SUBSET Servers]]
      /\ \A d \in Clnts : clnt[d].enabled = clnt[d].ends \cap clnt[d].srvs
  BY DEF AllInv, TypeOK, NetTypes, SavedInv, LinkInv
<1>3. Id(c) = <<c, call[c].n>>
  BY DEF Id, IdOf
<1>4. call[c].pc # "idle" => Id(c) \in Ids /\ call[c].n # 0 /\ call[c].srv \in Servers
  BY IdIsId DEF AllInv, TypeOK, CallInv, CallsNumbered
<1>5. /\ call[c].pc \in {"queued", "routed"} => disp[<<c, call[c].n>>].pc = "none"
      /\ call[c].pc \in {"routed", "waiting", "decide"} => call[c].obj \in Conns /\ Known(call[c].obj)
      /\ call[c].pc \in {"queued", "routed", "waiting"} => ~call[c].ok
  BY <1>3 DEF AllInv, CallInv, CallsNumbered, SavedInv
<1> QED
  BY <1>1, <1>2, <1>3, <1>4, <1>5

\* readEndnameInfo: the network's table names processes that run.
LEMMA RouteStep ==
    ASSUME AllInv, NEW c \in Clnts, Route(c), UNCHANGED groupVars
    PROVE  AllInv'
<1>1. /\ call[c].pc = "queued" /\ servers' = servers /\ clnt' = clnt /\ acked' = acked
      /\ UNCHANGED demuxVars
  BY DEF Route
<1>2. PICK s, o : s = call[c].srv /\ o = servers[s]
  OBVIOUS
<1>3. s \in Servers /\ o \in Conns \cup {None} /\ (o # None => o \in Conns /\ Known(o))
  <2>1. s \in Servers
    BY <1>1, <1>2, CallFields
  <2>2. o \in Conns \cup {None}
    BY <1>2, <2>1 DEF AllInv, TypeOK, NetTypes
  <2>3. o # None => Known(o)
    BY <1>2, <2>1 DEF AllInv, ProcessInv, TableIsLive, Known
  <2> QED
    BY <2>1, <2>2, <2>3
<1>4. PICK p \in {"routed", "answer"} : /\ p = "routed" => o # None
                                        /\ call' = [call EXCEPT ![c].pc = p, ![c].obj = o]
  BY <1>2 DEF Route
<1>5. PICK q : q = [call[c] EXCEPT !.pc = p, !.obj = o]
  OBVIOUS
<1>6. /\ q \in CallType /\ q.pc = p /\ q.obj = o /\ q.n = call[c].n /\ q.srv = s /\ q.ok = call[c].ok
  BY <1>2, <1>3, <1>4, <1>5, CallFields DEF CallType
<1>7. call' = [call EXCEPT ![c] = q]
  BY <1>4, <1>5
<1>8. /\ q.pc # "idle" => q.n # 0 /\ q.srv \in Servers
      /\ q.pc \in {"queued", "routed"} => disp[<<c, q.n>>].pc = "none"
      /\ q.pc \in {"routed", "waiting", "decide"} => q.obj \in Conns /\ Known(q.obj)
      /\ q.pc \notin {"waiting", "decide"} /\ ~q.ok
  BY <1>1, <1>2, <1>3, <1>4, <1>6, CallFields
<1> QED
  BY <1>1, <1>6, <1>7, <1>8, CallFields, CallMoves

\* A request that is dropped or given up fails.
LEMMA NoReplyStep ==
    ASSUME AllInv, NEW c \in Clnts, DropRequest(c) \/ GiveUp(c), UNCHANGED groupVars
    PROVE  AllInv'
<1>1. /\ call[c].pc \in {"routed", "waiting"} /\ servers' = servers /\ clnt' = clnt /\ acked' = acked
      /\ UNCHANGED demuxVars /\ call' = [call EXCEPT ![c].pc = "answer"]
  BY DEF DropRequest, GiveUp
<1>2. PICK q : q = [call[c] EXCEPT !.pc = "answer"]
  OBVIOUS
<1>3. /\ q \in CallType /\ q.pc = "answer" /\ q.n = call[c].n /\ q.srv = call[c].srv /\ q.ok = call[c].ok
  BY <1>2, CallFields DEF CallType
<1>4. call' = [call EXCEPT ![c] = q]
  BY <1>1, <1>2
<1>5. q.n # 0 /\ q.srv \in Servers /\ ~q.ok
  BY <1>1, <1>3, CallFields
<1> QED
  BY <1>1, <1>3, <1>4, <1>5, CallFields, CallMoves

\* The dispatch is done: if it has a reply, the process stored the call.
LEMMA TakeReplyStep ==
    ASSUME AllInv, NEW c \in Clnts, TakeReply(c), UNCHANGED groupVars
    PROVE  AllInv'
<1>1. PICK o : o = disp[Id(c)].ok
  OBVIOUS
<1>2. /\ call[c].pc = "waiting" /\ servers' = servers /\ clnt' = clnt /\ acked' = acked
      /\ UNCHANGED demuxVars /\ call' = [call EXCEPT ![c].pc = "decide", ![c].ok = o]
      /\ disp[Id(c)].pc = "got"
  BY <1>1 DEF TakeReply
<1>3. o \in BOOLEAN
  BY <1>1, <1>2, CallFields, DemuxFields DEF AllInv, TypeOK
<1>4. PICK q : q = [call[c] EXCEPT !.pc = "decide", !.ok = o]
  OBVIOUS
<1>5. /\ q \in CallType /\ q.pc = "decide" /\ q.n = call[c].n /\ q.srv = call[c].srv /\ q.ok = o
      /\ q.obj = call[c].obj
  BY <1>3, <1>4, CallFields DEF CallType
<1>6. call' = [call EXCEPT ![c] = q]
  BY <1>2, <1>4
<1>7. q.n # 0 /\ q.srv \in Servers /\ q.obj \in Conns /\ Known(q.obj)
  BY <1>2, <1>5, CallFields
<1>8. q.ok => Stored(<<c, q.n>>, q.obj)
  <2>1. o => Stored(Id(c), call[c].obj)
    BY <1>1, <1>2 DEF AllInv, SavedInv
  <2> QED
    BY <1>5, <2>1, CallFields
<1> QED
  BY <1>2, <1>5, <1>6, <1>7, <1>8, CallFields, CallMoves

\* Success is given only if the process that executed the call is in the table still.
LEMMA DecideStep ==
    ASSUME AllInv, NEW c \in Clnts, Decide(c), UNCHANGED groupVars
    PROVE  AllInv'
<1>1. PICK o \in BOOLEAN : /\ o => call[c].ok /\ ~isServerDead(c)
                           /\ call' = [call EXCEPT ![c].pc = "answer", ![c].ok = o]
  <2>1. PICK dropped \in BOOLEAN :
          call' = [call EXCEPT ![c].pc = "answer", ![c].ok = @ /\ ~isServerDead(c) /\ ~dropped]
    BY DEF Decide
  <2>2. PICK o : o = (call[c].ok /\ ~isServerDead(c) /\ ~dropped)
    OBVIOUS
  <2>3. o \in BOOLEAN /\ (o => call[c].ok /\ ~isServerDead(c))
    BY <2>2
  <2>4. call' = [call EXCEPT ![c].pc = "answer", ![c].ok = o]
    BY <2>1, <2>2
  <2> QED
    BY <2>3, <2>4
<1>2. /\ call[c].pc = "decide" /\ servers' = servers /\ clnt' = clnt /\ acked' = acked
      /\ UNCHANGED demuxVars
  BY DEF Decide
<1>3. PICK q : q = [call[c] EXCEPT !.pc = "answer", !.ok = o]
  OBVIOUS
<1>4. /\ q \in CallType /\ q.pc = "answer" /\ q.n = call[c].n /\ q.srv = call[c].srv /\ q.ok = o
  BY <1>3, CallFields, ZenonT(60) DEF CallType
<1>5. call' = [call EXCEPT ![c] = q]
  BY <1>1, <1>3
<1>6. q.n # 0 /\ q.srv \in Servers
  BY <1>2, <1>4, CallFields
<1>7. q.ok => Safe(<<c, q.n>>, q.srv)
  <2> SUFFICES ASSUME o PROVE Safe(Id(c), call[c].srv)
    BY <1>4, CallFields
  <2>1. call[c].ok /\ servers[call[c].srv] = call[c].obj
    BY <1>1 DEF isServerDead
  <2>2. call[c].obj \in Conns /\ call[c].srv \in Servers
    BY <1>2, CallFields
  <2>3. call[c].obj = Process(call[c].srv) /\ proc[Process(call[c].srv)] = "up"
    BY <2>1, <2>2, NoneAssumption DEF AllInv, ProcessInv, TableIsLive
  <2>4. Stored(Id(c), call[c].obj)
    BY <1>2, <2>1 DEF AllInv, SavedInv
  <2> QED
    BY <2>3, <2>4 DEF Stored, Safe
<1> QED
  BY <1>2, <1>4, <1>5, <1>6, <1>7, CallFields, CallMoves

\* The return of a call: what was answered with success is safe.
LEMMA ReturnStep ==
    ASSUME AllInv, NEW c \in Clnts, Return(c), UNCHANGED groupVars
    PROVE  AllInv'
<1>1. PICK q : q = Idle(call[c].n)
  OBVIOUS
<1>2. /\ call[c].pc = "answer" /\ servers' = servers /\ clnt' = clnt
      /\ UNCHANGED demuxVars /\ call' = [call EXCEPT ![c] = q]
      /\ acked' = IF call[c].ok THEN acked \cup {[id |-> Id(c), srv |-> call[c].srv]} ELSE acked
  BY <1>1 DEF Return
<1>3. q \in CallType /\ q.pc = "idle" /\ q.n = call[c].n
  <2>1. call[c].n \in 0..MaxCalls
    BY CallFields DEF CallType
  <2> QED
    BY <1>1, <2>1 DEF Idle, CallType
<1>4. acked' \in SUBSET [id : Ids, srv : Servers]
  <2>1. acked \in SUBSET [id : Ids, srv : Servers] /\ Id(c) \in Ids /\ call[c].srv \in Servers
    BY <1>2, CallFields
  <2>2. PICK i, s : i = Id(c) /\ s = call[c].srv
    OBVIOUS
  <2>3. [id |-> i, srv |-> s] \in [id : Ids, srv : Servers]
    BY <2>1, <2>2
  <2>4. acked' = acked \/ acked' = acked \cup {[id |-> i, srv |-> s]}
    BY <1>2, <2>2
  <2> QED
    BY <2>1, <2>3, <2>4
<1>5. ASSUME NEW a \in acked' PROVE Safe(a.id, a.srv)
  <2>1. CASE a \in acked
    BY <2>1, CallFields
  <2>2. CASE call[c].ok /\ a = [id |-> Id(c), srv |-> call[c].srv]
    <3>1. Safe(Id(c), call[c].srv)
      BY <1>2, <2>2 DEF AllInv, SavedInv
    <3>2. a.id = Id(c) /\ a.srv = call[c].srv
      BY <2>2
    <3> QED
      BY <3>1, <3>2
  <2> QED
    BY <1>2, <2>1, <2>2
<1> QED
  BY <1>2, <1>3, <1>4, <1>5, CallFields, CallMoves

\* The goroutine that dispatches: a call has one, and it begins on a process that has started.
LEMMA DispatchStep ==
    ASSUME AllInv, NEW c \in Clnts, Dispatch(c), UNCHANGED groupVars
    PROVE  AllInv'
<1>0. TypeOK /\ DemuxTypes /\ CallInv /\ SavedInv
  BY DEF AllInv, TypeOK
<1>1. PICK i, x, n : i = Id(c) /\ x = call[c].obj /\ n = call[c].n
  OBVIOUS
<1>2. /\ call[c].pc = "routed" /\ servers' = servers /\ clnt' = clnt /\ acked' = acked
      /\ dmx' = dmx /\ wire' = wire /\ call' = [call EXCEPT ![c].pc = "waiting"]
      /\ disp' = [disp EXCEPT ![i] = [pc |-> "put", conn |-> x, tag |-> 0, ok |-> FALSE]]
  BY <1>1 DEF Dispatch, Begin
<1>3. /\ i \in Ids /\ i = <<c, n>> /\ x \in Conns /\ Known(x) /\ disp[i].pc = "none" /\ ~call[c].ok
      /\ n # 0 /\ call[c].srv \in Servers
  BY <1>1, <1>2, CallFields
<1>4. /\ disp' \in [Ids -> [pc : {"none", "put", "write", "wait", "got"}, conn : Conns \cup {None},
                            tag : Nat, ok : BOOLEAN]]
      /\ disp'[i].pc = "put" /\ disp'[i].conn = x
      /\ \A j \in Ids : j # i => disp'[j] = disp[j]
  BY <1>0, <1>2, <1>3 DEF DemuxTypes
<1>5. DemuxTypes'
  BY <1>0, <1>2, <1>4 DEF DemuxTypes
<1>6. /\ call' \in [Clnts -> CallType] /\ call'[c].pc = "waiting" /\ call'[c].n = n /\ call'[c].obj = x
      /\ call'[c].ok = call[c].ok /\ call'[c].srv = call[c].srv
      /\ \A d \in Clnts : d # c => call'[d] = call[d]
  <2>1. call \in [Clnts -> CallType]
    BY CallFields DEF AllInv, TypeOK, NetTypes
  <2> QED
    BY <1>1, <1>2, <2>1 DEF CallType
<1>7. NetTypes'
  BY <1>0, <1>2, <1>6 DEF TypeOK, NetTypes, CallType
<1>8. proc' = proc
  BY DEF groupVars
<1>9. \A d \in Clnts : \A k : d # c => <<d, k>> # i
  BY <1>3
<1>10. CallsNumbered'
  <2> SUFFICES ASSUME NEW d \in Clnts
      PROVE  /\ call'[d].pc # "idle" => call'[d].n # 0 /\ call'[d].srv \in Servers
             /\ call'[d].pc \in {"queued", "routed"} => disp'[<<d, call'[d].n>>].pc = "none"
             /\ \A k \in 1..MaxCalls : k > call'[d].n => disp'[<<d, k>>].pc = "none"
             /\ call'[d].pc \in {"routed", "waiting", "decide"} =>
                  call'[d].obj \in Conns /\ Known(call'[d].obj)
             /\ call'[d].pc = "waiting" /\ disp'[<<d, call'[d].n>>].pc \in {"put", "write", "wait"} =>
                  disp'[<<d, call'[d].n>>].conn = call'[d].obj
    BY <1>8 DEF CallsNumbered, Id, IdOf, Known, Sending
  <2>0. \A e \in Clnts : \A k \in 1..MaxCalls : <<e, k>> \in Ids
    BY IdsAssumption
  <2>1. \A k \in 1..MaxCalls : k > call[d].n => disp[<<d, k>>].pc = "none"
    BY <1>0 DEF CallInv, CallsNumbered
  <2>2. CASE d = c
    <3>1. \A k \in 1..MaxCalls : k > n => disp'[<<c, k>>].pc = "none"
      <4> SUFFICES ASSUME NEW k \in 1..MaxCalls, k > n PROVE disp'[<<c, k>>].pc = "none"
        OBVIOUS
      <4>1. n \in 0..MaxCalls
        BY <1>1, CallFields DEF CallType
      <4>2. k # n
        BY <4>1, BoundsAssumption
      <4>3. <<c, k>> # i /\ <<c, k>> \in Ids
        BY <1>3, <2>0, <4>2
      <4> QED
        BY <1>1, <1>4, <2>1, <2>2, <4>3
    <3> QED
      BY <1>3, <1>4, <1>6, <2>2, <3>1
  <2>3. CASE d # c
    <3>1. call'[d] = call[d]
      BY <1>6, <2>3
    <3>2. \A k \in 1..MaxCalls : disp'[<<d, k>>] = disp[<<d, k>>]
      BY <1>4, <1>9, <2>0, <2>3
    <3>3. call[d].pc # "idle" => call[d].n \in 1..MaxCalls
      BY <1>0, IdIsId DEF TypeOK
    <3>4. call[d].pc # "idle" => disp'[<<d, call[d].n>>] = disp[<<d, call[d].n>>]
      BY <3>2, <3>3
    <3> QED
      BY <1>0, <2>1, <3>1, <3>2, <3>4 DEF CallInv, CallsNumbered, Id, IdOf, Sending
  <2> QED
    BY <2>2, <2>3
<1>11. SendersKnown'
  BY <1>0, <1>3, <1>4, <1>8 DEF CallInv, SendersKnown, Sending, Known
<1>12. \A y \in Conns : \A t \in DOMAIN dmx[y].calls : dmx[y].calls[t] \in Ids /\ dmx[y].calls[t] # i
  BY <1>0, <1>3, DemuxFields DEF CallInv, TagsTaken
<1>13. TagsTaken'
  <2>1. \A y \in Conns : \A t \in DOMAIN dmx[y].calls : disp'[dmx[y].calls[t]] = disp[dmx[y].calls[t]]
    BY <1>4, <1>12
  <2>2. \A j \in Ids : disp'[j].pc \in {"write", "wait"} => disp'[j] = disp[j]
    BY <1>4
  <2> QED
    BY <1>0, <1>2, <2>1, <2>2 DEF CallInv, TagsTaken
<1>14. MessagesAwaited'
  <2>1. \A y \in Conns : \A m \in OnWire(y) : disp'[m.id].pc = disp[m.id].pc
    BY <1>0, <1>4, <1>12 DEF CallInv, MessagesAwaited
  <2> QED
    BY <1>0, <1>2, <2>1 DEF CallInv, MessagesAwaited, OnWire
<1>15. ReaderLast'
  BY <1>0, <1>2 DEF CallInv, ReaderLast
<1>16. CallInv'
  BY <1>10, <1>11, <1>13, <1>14, <1>15 DEF CallInv
<1>17. SavedInv'
  <2>1. disp'[<<c, call'[c].n>>].pc # "got"
    BY <1>3, <1>4, <1>6
  <2>2. \A a \in acked' : Safe(a.id, a.srv)
    BY <1>2, CallFields
  <2>3. ASSUME NEW d \in Clnts, d # c, call[d].pc = "waiting"
        PROVE  disp'[<<d, call[d].n>>] = disp[<<d, call[d].n>>]
    <3>1. <<d, call[d].n>> \in Ids
      BY <2>3, CallFields
    <3> QED
      BY <1>4, <1>9, <2>3, <3>1
  <2>4. ASSUME NEW d \in Clnts
        PROVE  /\ call'[d].pc \in {"queued", "routed", "waiting"} => ~call'[d].ok
               /\ call'[d].pc = "waiting" /\ disp'[<<d, call'[d].n>>].pc = "got"
                  /\ disp'[<<d, call'[d].n>>].ok => Stored(<<d, call'[d].n>>, call'[d].obj)
               /\ call'[d].pc = "decide" /\ call'[d].ok => Stored(<<d, call'[d].n>>, call'[d].obj)
               /\ call'[d].pc = "answer" /\ call'[d].ok => Safe(<<d, call'[d].n>>, call'[d].srv)
    <3>1. CASE d = c
      BY <1>3, <1>6, <2>1, <3>1
    <3>2. CASE d # c
      <4>1. call'[d] = call[d]
        BY <1>6, <3>2
      <4> QED
        BY <1>0, <2>3, <3>2, <4>1 DEF SavedInv, Id, IdOf
    <3> QED
      BY <3>1, <3>2
  <2>5. procs' = procs /\ proc' = proc /\ saved' = saved /\ disk' = disk
    BY DEF groupVars
  <2>6. \A y \in Conns : \A m \in wire'[y].ran \cup wire'[y].reps : Stored(m.id, y)
    BY <1>0, <1>2 DEF SavedInv
  <2> QED
    BY <2>2, <2>4, <2>5, <2>6 DEF SavedInv, Stored, Safe, Process, Id, IdOf
<1>18. \A d \in Clnts : clnt'[d].enabled = clnt'[d].ends \cap clnt'[d].srvs
  BY <1>2, CallFields
<1> QED
  BY <1>2, <1>5, <1>7, <1>16, <1>17, <1>18, NetworkStep

-----------------------------------------------------------------------------
(* The invariant *)

\* A step of the tester, of a process, of a reader, a dispatch, a client or the network.
LEMMA NextKeepsInv ==
    ASSUME AllInv, Next
    PROVE  AllInv'
<1>1. CASE TesterOp
  BY <1>1, ShutdownStep, StartServerStep, ConnectStep, PartitionStep DEF TesterOp
<1>2. CASE TesterStep
  BY <1>2, TableStep, CheckpointStep, KillStep, WaitInitStep, ConnectStartedStep, PartitionStep DEF TesterStep
<1>3. CASE \E x \in Conns : ProcessStep(x)
  BY <1>3, InitDaemonStep, ServeStep, AnswerStep DEF ProcessStep
<1>4. CASE \E x \in Conns : ReaderStep(x) /\ UNCHANGED <<netVars, groupVars>>
  <2>1. PICK x \in Conns : ReaderStep(x) /\ UNCHANGED <<netVars, groupVars>>
    BY <1>4
  <2>2. CASE \E m \in wire[x].reps : ReadReply(x, m)
    BY <2>1, <2>2, ReadReplyStep
  <2>3. CASE ReadError(x) \/ ListOutstanding(x)
    BY <2>1, <2>3, ReadErrorStep
  <2>4. CASE \E t \in dmx[x].failing : FailCall(x, t)
    BY <2>1, <2>4, FailCallStep
  <2> QED
    BY <2>1, <2>2, <2>3, <2>4 DEF ReaderStep
<1>5. CASE \E i \in Ids : SendStep(i) /\ UNCHANGED <<netVars, groupVars>>
  BY <1>5, EnqueueOpenStep, EnqueueClosedStep, WriteStep DEF SendStep
<1>6. CASE \E c \in Clnts : (ClntStep(c) \/ NetStep(c)) /\ UNCHANGED groupVars
  <2>1. PICK c \in Clnts : (ClntStep(c) \/ NetStep(c)) /\ UNCHANGED groupVars
    BY <1>6
  <2>2. CASE ClntStep(c)
    BY <2>1, <2>2, CallStep, EndsStep, NoReplyStep DEF ClntStep
  <2>3. CASE NetStep(c)
    BY <2>1, <2>3, RouteStep, DispatchStep, TakeReplyStep, NoReplyStep, DecideStep, ReturnStep DEF NetStep
  <2> QED
    BY <2>1, <2>2, <2>3
<1> QED
  BY <1>1, <1>2, <1>3, <1>4, <1>5, <1>6 DEF Next

\* A step in which nothing changes.
LEMMA StutterKeepsInv ==
    ASSUME AllInv, UNCHANGED vars
    PROVE  AllInv'
<1>1. /\ UNCHANGED demuxVars /\ UNCHANGED <<netVars, groupVars>> /\ call' = call /\ acked' = acked
      /\ procs' = procs /\ proc' = proc /\ disk' = disk /\ saved' = saved
      /\ dmx' = dmx /\ wire' = wire /\ disp' = disp
  BY DEF vars, demuxVars, netVars, groupVars
<1>2. DemuxTypes'
  BY <1>1 DEF AllInv, TypeOK, DemuxTypes
<1>3. CallInv' /\ SavedInv'
  BY <1>1, TesterStepCalls
<1> QED
  BY <1>1, <1>2, <1>3, SocketStep

\* After StartServers.
LEMMA InitInv ==
    ASSUME Init
    PROVE  AllInv
<1>1. /\ dmx = [x \in Conns |-> NewDemuxClnt(x \in {<<s, 1>> : s \in Servers})]
      /\ wire = [x \in Conns |-> [open |-> x \in {<<s, 1>> : s \in Servers}, reqs |-> {}, ran |-> {}, reps |-> {}]]
      /\ disp = [i \in Ids |-> [pc |-> "none", conn |-> None, tag |-> 0, ok |-> FALSE]]
  BY DEF Init, DemuxInit
<1>2. /\ clnt = [c \in Clnts |-> [ends |-> {}, enabled |-> {}, srvs |-> Servers]]
      /\ call = [c \in Clnts |-> Idle(0)] /\ acked = {}
  BY DEF Init, NetInit
<1>3. /\ servers = [s \in Servers |-> <<s, 1>>]
      /\ links = Servers \X Servers /\ connected = Servers
      /\ procs = [s \in Servers |-> 1]
      /\ proc = [x \in Conns |-> IF x[2] = 1 THEN "up" ELSE "none"]
      /\ disk = [x \in Conns |-> {}]
      /\ saved = [s \in Servers |-> {}]
      /\ tst = [pc |-> "rest", srv |-> None, parted |-> FALSE, p1 |-> {}, todo |-> {}]
  BY DEF Init
<1>4. \A s \in Servers : <<s, 1>> \in Conns /\ Process(s) = <<s, 1>> /\ <<s, 1>>[2] = 1
  BY <1>3, ConnsAssumption DEF Process
<1>5. DemuxTypes
  <2>1. dmx \in [Conns -> [nextTag : Nat, calls : CallMap, closed : BOOLEAN,
                           reader : {"off", "read", "fatal", "closed", "failing"}, failing : SUBSET Nat]]
    <3>1. ASSUME NEW x \in Conns
          PROVE  NewDemuxClnt(x \in {<<s, 1>> : s \in Servers}) \in
                   [nextTag : Nat, calls : CallMap, closed : BOOLEAN,
                    reader : {"off", "read", "fatal", "closed", "failing"}, failing : SUBSET Nat]
      BY CallMapEmpty DEF NewDemuxClnt
    <3> QED
      BY <1>1, <3>1, Zenon
  <2>2. wire \in [Conns -> [open : BOOLEAN, reqs : SUBSET Message, ran : SUBSET Message, reps : SUBSET Message]]
    BY <1>1
  <2>3. disp \in [Ids -> [pc : {"none", "put", "write", "wait", "got"}, conn : Conns \cup {None},
                         tag : Nat, ok : BOOLEAN]]
    BY <1>1
  <2> QED
    BY <2>1, <2>2, <2>3 DEF DemuxTypes
<1>6. NetTypes
  <2>1. Idle(0) \in CallType
    BY BoundsAssumption DEF Idle, CallType
  <2>2. call \in [Clnts -> CallType]
    BY <1>2, <2>1
  <2>3. servers \in [Servers -> Conns \cup {None}]
    BY <1>3, <1>4
  <2>4. clnt \in [Clnts -> [ends : SUBSET Servers, enabled : SUBSET Servers, srvs : SUBSET Servers]]
    BY <1>2
  <2> QED
    BY <1>2, <2>2, <2>3, <2>4 DEF NetTypes, CallType
<1>7. GroupTypes
  BY <1>3 DEF GroupTypes
<1>8. ProcessInv
  <2>1. ProcessesNumbered
    <3>1. ASSUME NEW x \in Conns, x[2] > procs[x[1]] PROVE proc[x] = "none"
      <4>1. PICK s \in Servers, k \in Nat : x = <<s, k>>
        BY ConnsAssumption
      <4>2. x[2] = k /\ procs[x[1]] = 1
        BY <1>3, <4>1
      <4> QED
        BY <1>3, <3>1, <4>2
    <3> QED
      BY <1>4, <3>1 DEF ProcessesNumbered
  <2>2. \A s \in Servers : servers[s] = <<s, 1>> /\ servers[s] # None /\ proc[<<s, 1>>] = "up"
    BY <1>3, <1>4, NoneAssumption
  <2>3. TableIsLive /\ OthersEnded
    BY <1>4, <2>2 DEF TableIsLive, OthersEnded
  <2>4. TesterAtWork
    BY <1>3 DEF TesterAtWork, At
  <2> QED
    BY <2>1, <2>3, <2>4 DEF ProcessInv
<1>9. LinkInv
  <2>1. connected \subseteq Running
    BY <1>3, <1>4, NoneAssumption DEF Running
  <2> QED
    BY <1>2, <1>3, <2>1 DEF LinkInv, At
<1>10. CallInv
  <2>1. \A x \in Conns : /\ DOMAIN dmx[x].calls = {} /\ dmx[x].reader \in {"read", "off"}
                         /\ wire[x].reqs = {} /\ wire[x].ran = {} /\ wire[x].reps = {}
    <3> SUFFICES ASSUME NEW x \in Conns
                 PROVE  /\ DOMAIN dmx[x].calls = {} /\ dmx[x].reader \in {"read", "off"}
                        /\ wire[x].reqs = {} /\ wire[x].ran = {} /\ wire[x].reps = {}
      OBVIOUS
    <3>1. wire[x].reqs = {} /\ wire[x].ran = {} /\ wire[x].reps = {}
      BY <1>1
    <3>2. PICK b : b = (x \in {<<s, 1>> : s \in Servers})
      OBVIOUS
    <3>3. dmx[x] = NewDemuxClnt(b)
      BY <1>1, <3>2
    <3>4. dmx[x].calls = <<>> /\ dmx[x].reader \in {"read", "off"}
      BY <3>3 DEF NewDemuxClnt
    <3> QED
      BY <3>1, <3>4, CallMapEmpty
  <2>2. \A i \in Ids : disp[i].pc = "none"
    BY <1>1
  <2>3. \A c \in Clnts : call[c].pc = "idle" /\ call[c].n = 0
    BY <1>2 DEF Idle
  <2>4. CallsNumbered
    BY <2>2, <2>3, IdsAssumption DEF CallsNumbered
  <2>5. SendersKnown /\ TagsTaken
    BY <2>1, <2>2 DEF SendersKnown, Sending, TagsTaken
  <2>6. MessagesAwaited
    BY <2>1 DEF MessagesAwaited, OnWire
  <2>7. ReaderLast
    BY <2>1 DEF ReaderLast
  <2> QED
    BY <2>4, <2>5, <2>6, <2>7 DEF CallInv
<1>11. SavedInv
  BY <1>1, <1>2 DEF SavedInv, Idle
<1> QED
  BY <1>5, <1>6, <1>7, <1>8, <1>9, <1>10, <1>11 DEF AllInv, TypeOK

-----------------------------------------------------------------------------
(* Theorems *)

\* Whatever is shut down, restarted, cut and partitioned while calls are on their way:
\* the tables of the tester, the network and the sockets agree.
THEOREM GroupsAreConsistent == Spec => []AllInv
<1>1. Init => AllInv
  BY InitInv
<1>2. AllInv /\ [Next]_vars => AllInv'
  BY NextKeepsInv, StutterKeepsInv
<1> QED
  BY <1>1, <1>2, PTL DEF Spec

\* A reply goes to the call that made the request, and the reader never meets one that
\* nobody waits for (dmxclnt.go:62).
THEOREM RepliesAreMatched == Spec => []RepliesMatchCalls
<1>1. AllInv => RepliesMatchCalls
  BY DEF AllInv, CallInv, ReaderLast, MessagesAwaited, OnWire, RepliesMatchCalls, Outstanding
<1> QED
  BY <1>1, GroupsAreConsistent, PTL

\* No request reaches a process before InitDaemon has added its services (labrpc.go:538).
THEOREM ServicesComeFirst == Spec => []ServicesAreReady
<1>1. ASSUME AllInv PROVE ServicesAreReady
  <2> SUFFICES ASSUME NEW x \in Conns, proc[x] = "init" PROVE wire[x].reqs = {}
    BY DEF ServicesAreReady
  <2>1. ~Known(x)
    BY DEF Known
  <2> QED
    BY <1>1, <2>1, UnknownIsQuiet DEF AllInv, TypeOK
<1> QED
  BY <1>1, GroupsAreConsistent, PTL

\* A call that was answered with success survives every restart of its server
\* (labrpc.go:338).
THEOREM AcknowledgedSurvives == Spec => []AcknowledgedIsSaved
<1>1. AllInv => AcknowledgedIsSaved
  BY DEF AllInv, SavedInv, Safe, AcknowledgedIsSaved
<1> QED
  BY <1>1, GroupsAreConsistent, PTL

\* Between the tester's operations links are enabled between connected servers only, in
\* both directions or in neither, and a client's ends to the servers it may reach.
THEOREM LinksAreFollowed == Spec => []LinksFollowOperations
<1>1. AllInv => LinksFollowOperations
  BY DEF AllInv, LinkInv, LinksFollowOperations
<1> QED
  BY <1>1, GroupsAreConsistent, PTL
=============================================================================

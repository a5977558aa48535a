------------------------------- MODULE LabNet -------------------------------
(***************************************************************************)
(* The simulated network of the tests (src/src/labrpc/labrpc.go) as clients *)
(* use it (src/src/tester1/clnts.go): an RPC of a client to a server, from  *)
(* Call through processReq, the dispatch over a socket (module Demux) and  *)
(* back.  Tables are read at several points of the way, each time under    *)
(* the network's lock, and may have changed in between.                    *)
(***************************************************************************)
EXTENDS Demux

CONSTANTS
    Clnts,        \* clients; each makes one call at a time
    Servers,      \* server names
    ClerkServers, \* the servers the clients' clerks call
    MaxCalls      \* bound: calls of a client

VARIABLES
    servers,   \* Network.servers: the server object, which stands for a process
    clnt,      \* per client: the ends it has made, which are enabled, and srvs
    call,      \* per client: the RPC it is in
    acked      \* history: the calls that were answered with success

netVars == <<servers, clnt, call, acked>>

IdOf(c, n) == <<c, n>>

Idle(n) == [pc |-> "idle", n |-> n, srv |-> None, obj |-> None, ok |-> FALSE]

NetInit ==
    /\ clnt = [c \in Clnts |-> [ends |-> {}, enabled |-> {}, srvs |-> Servers]]
    /\ call = [c \in Clnts |-> Idle(0)]
    /\ acked = {}

Id(c) == IdOf(c, call[c].n)

-----------------------------------------------------------------------------
(* A client's ends *)

\* Clnt.Call: makeEnd makes an end at the first call of a server and enables it
\* if the client may reach the server; then the request goes to the network.
Call(c, s) ==
    /\ call[c].pc = "idle"
    /\ call[c].n < MaxCalls
    /\ call' = [call EXCEPT ![c] = [pc |-> "queued", n |-> @.n + 1, srv |-> s,
                                    obj |-> None, ok |-> FALSE]]
    /\ clnt' = IF s \in clnt[c].ends THEN clnt
               ELSE [clnt EXCEPT ![c].ends = @ \cup {s},
                                 ![c].enabled = IF s \in clnt[c].srvs THEN @ \cup {s} ELSE @]
    /\ UNCHANGED <<servers, acked, demuxVars>>

\* Clnt.DisconnectAll.
DisconnectClnt(c) ==
    /\ clnt' = [clnt EXCEPT ![c].enabled = {}, ![c].srvs = {}]
    /\ UNCHANGED <<servers, call, acked, demuxVars>>

\* Clnt.ConnectAll.
ConnectClnt(c) ==
    /\ clnt' = [clnt EXCEPT ![c].enabled = clnt[c].ends, ![c].srvs = Servers]
    /\ UNCHANGED <<servers, call, acked, demuxVars>>

-----------------------------------------------------------------------------
(* processReq *)

\* Faulty: a server is dead only while no other one has its name.
DeadMeansNil(c) ==
    call[c].srv \notin clnt[c].enabled \/ servers[call[c].srv] = None

\* The end is disabled, or the name stands for another server object by now.
isServerDead(c) ==
    call[c].srv \notin clnt[c].enabled \/ servers[call[c].srv] # call[c].obj

\* Faulty: a request that cannot be routed is forgotten.
RouteSilently(c) ==
    LET s == call[c].srv
    IN  /\ call[c].pc = "queued"
        /\ s \in clnt[c].enabled /\ servers[s] # None
        /\ call' = [call EXCEPT ![c].pc = "routed", ![c].obj = servers[s]]
        /\ UNCHANGED <<servers, clnt, acked, demuxVars>>

\* readEndnameInfo; a disabled end or a missing server only costs time.
Route(c) ==
    LET s == call[c].srv
    IN  /\ call[c].pc = "queued"
        /\ call' = [call EXCEPT ![c].pc = IF s \in clnt[c].enabled /\ servers[s] # None
                                          THEN "routed" ELSE "answer",
                                ![c].obj = servers[s]]
        /\ UNCHANGED <<servers, clnt, acked, demuxVars>>

DropRequest(c) ==
    /\ call[c].pc = "routed"
    /\ call' = [call EXCEPT ![c].pc = "answer"]
    /\ UNCHANGED <<servers, clnt, acked, demuxVars>>

\* The goroutine that calls dispatch, which calls DaemonClnt.forward.
Dispatch(c) ==
    /\ call[c].pc = "routed"
    /\ call' = [call EXCEPT ![c].pc = "waiting"]
    /\ Begin(Id(c), call[c].obj)
    /\ UNCHANGED <<servers, clnt, acked, dmx, wire>>

\* The select: the dispatch is done, or 100 ms have passed and the server is dead.
TakeReply(c) ==
    /\ call[c].pc = "waiting"
    /\ disp[Id(c)].pc = "got"
    /\ call' = [call EXCEPT ![c].pc = "decide", ![c].ok = disp[Id(c)].ok]
    /\ UNCHANGED <<servers, clnt, acked, demuxVars>>

GiveUp(c) ==
    /\ call[c].pc = "waiting"
    /\ isServerDead(c)
    /\ call' = [call EXCEPT ![c].pc = "answer"]
    /\ UNCHANGED <<servers, clnt, acked, demuxVars>>

\* With a reply in hand: failure if the server is dead by now, or if the reply is
\* dropped, else the reply, at once or after a delay.
Decide(c) ==
    /\ call[c].pc = "decide"
    /\ \E dropped \in BOOLEAN :
         call' = [call EXCEPT ![c].pc = "answer",
                              ![c].ok = @ /\ ~isServerDead(c) /\ ~dropped]
    /\ UNCHANGED <<servers, clnt, acked, demuxVars>>

\* The answer on replyCh, and the return of Call.
Return(c) ==
    /\ call[c].pc = "answer"
    /\ call' = [call EXCEPT ![c] = Idle(@.n)]
    /\ acked' = IF call[c].ok THEN acked \cup {[id |-> Id(c), srv |-> call[c].srv]} ELSE acked
    /\ UNCHANGED <<servers, clnt, demuxVars>>

NetStep(c) ==
    \/ Route(c) \/ Dispatch(c) \/ TakeReply(c) \/ GiveUp(c) \/ Decide(c) \/ Return(c)

-----------------------------------------------------------------------------
\* Every call returns: no loss, restart or disconnection leaves a client waiting.
CallsReturn == \A c \in Clnts : call[c].pc # "idle" ~> call[c].pc = "idle"
=============================================================================

------------------------------- MODULE Demux --------------------------------
(***************************************************************************)
(* RPC over a UNIX socket between the tester and the server processes      *)
(* (src/src/tester1/demux, src/src/tester1/sockrpc): many calls share one  *)
(* connection and the reader matches replies with calls by their tags.     *)
(*                                                                         *)
(* A connection belongs to one process; it breaks when that process dies.  *)
(* What was written to the socket before can still be read, then the       *)
(* reader meets an error.  A socket carries its messages in order, but the *)
(* server runs each request in a goroutine of its own, so requests and     *)
(* replies under way are sets.                                             *)
(***************************************************************************)
EXTENDS Naturals, FiniteSets

CONSTANTS
    Conns,     \* connections, one for each process there may be
    Ids,       \* identities of the calls
    None       \* no connection

ASSUME NoneAssumption == None \notin Conns

VARIABLES
    dmx,       \* client side of each connection: DemuxClnt and its callMap
    wire,      \* requests, requests that have been executed, and replies
    disp       \* the SendReceive of each call

demuxVars == <<dmx, wire, disp>>

\* A message carries the tag, and which call it belongs to.
Msg(t, i) == [tag |-> t, id |-> i]

\* NewRPCClnt: dial, NewDemuxClnt.  The InitMsg takes the first tag; the server
\* reads it before it starts its reader.
NewDemuxClnt(up) ==
    [nextTag |-> IF up THEN 1 ELSE 0, calls |-> <<>>, closed |-> FALSE,
     reader |-> IF up THEN "read" ELSE "off", failing |-> {}]

DemuxInit(up) ==
    /\ dmx = [x \in Conns |-> NewDemuxClnt(x \in up)]
    /\ wire = [x \in Conns |-> [open |-> x \in up, reqs |-> {}, ran |-> {}, reps |-> {}]]
    /\ disp = [i \in Ids |-> [pc |-> "none", conn |-> None, tag |-> 0, ok |-> FALSE]]

Dial(x) ==
    /\ dmx' = [dmx EXCEPT ![x] = NewDemuxClnt(TRUE)]
    /\ wire' = [wire EXCEPT ![x].open = TRUE]

-----------------------------------------------------------------------------
(* SendReceive *)

Begin(i, x) == disp' = [disp EXCEPT ![i] = [pc |-> "put", conn |-> x, tag |-> 0, ok |-> FALSE]]

Got(i, ok) == disp' = [disp EXCEPT ![i] = [pc |-> "got", conn |-> None, tag |-> 0, ok |-> ok]]

\* Faulty: tag() reads the counter and does not count on.
SameTag(x) == dmx[x].nextTag

\* tag(): the counter after a tag was taken.
NextTag(x) == dmx[x].nextTag + 1

\* tag and callMap.put; on a closed map the call fails at once.  (The two take
\* different locks; nothing depends on the order in which tags are put.)
Enqueue(i) ==
    LET x == disp[i].conn
        t == dmx[x].nextTag
        calls == dmx[x].calls
    IN  /\ disp[i].pc = "put"
        /\ IF dmx[x].closed
           THEN Got(i, FALSE) /\ dmx' = [dmx EXCEPT ![x].nextTag = NextTag(x)]
           ELSE /\ dmx' = [dmx EXCEPT ![x].nextTag = NextTag(x),
                     ![x].calls = [u \in DOMAIN calls \cup {t} |->
                                     IF u = t THEN i ELSE calls[u]]]
                /\ disp' = [disp EXCEPT ![i].pc = "write", ![i].tag = t]
        /\ UNCHANGED wire

\* WriteCall.  An error is ignored: the caller waits for the reader anyway.
Write(i) ==
    LET x == disp[i].conn
    IN  /\ disp[i].pc = "write"
        /\ disp' = [disp EXCEPT ![i].pc = "wait"]
        /\ wire' = IF wire[x].open
                   THEN [wire EXCEPT ![x].reqs = @ \cup {Msg(disp[i].tag, i)}]
                   ELSE wire
        /\ UNCHANGED dmx

-----------------------------------------------------------------------------
(* The server's end: DemuxSrv and RPCSrv.ServeRequest *)

\* The method of the service has run; the composition says what it did.
Run(x, m) ==
    /\ m \in wire[x].reqs
    /\ wire' = [wire EXCEPT ![x].reqs = @ \ {m}, ![x].ran = @ \cup {m}]
    /\ UNCHANGED <<dmx, disp>>

WriteReply(x, m) ==
    /\ wire[x].open
    /\ m \in wire[x].ran
    /\ wire' = [wire EXCEPT ![x].ran = @ \ {m}, ![x].reps = @ \cup {m}]
    /\ UNCHANGED <<dmx, disp>>

\* The process dies: what it has not written is gone.
Break(x) == wire' = [wire EXCEPT ![x].open = FALSE, ![x].reqs = {}, ![x].ran = {}]

-----------------------------------------------------------------------------
(* The reader of the client's end *)

Outstanding(x) == DOMAIN dmx[x].calls

\* callMap.remove.
RemoveCall(x, t) ==
    [u \in DOMAIN dmx[x].calls \ {t} |-> dmx[x].calls[u]]

\* A reply is handed to the caller that waits for its tag; a reply without a
\* caller ends the tester.
ReadReply(x, m) ==
    /\ dmx[x].reader = "read"
    /\ m \in wire[x].reps
    /\ wire' = [wire EXCEPT ![x].reps = @ \ {m}]
    /\ IF m.tag \in Outstanding(x)
       THEN LET i == dmx[x].calls[m.tag]
            IN  /\ disp[i].pc = "wait"
                /\ Got(i, TRUE)
                /\ dmx' = [dmx EXCEPT ![x].calls = RemoveCall(x, m.tag)]
       ELSE /\ dmx' = [dmx EXCEPT ![x].reader = "fatal"]
            /\ UNCHANGED disp

\* Faulty: the map stays open.
ReadErrorOpen(x) ==
    /\ dmx[x].reader = "read"
    /\ ~wire[x].open /\ wire[x].reps = {}
    /\ dmx' = [dmx EXCEPT ![x].reader = "closed"]
    /\ UNCHANGED <<wire, disp>>

\* The connection is broken and all has been read: no more calls are taken.
ReadError(x) ==
    /\ dmx[x].reader = "read"
    /\ ~wire[x].open /\ wire[x].reps = {}
    /\ dmx' = [dmx EXCEPT ![x].reader = "closed", ![x].closed = TRUE]
    /\ UNCHANGED <<wire, disp>>

\* The calls that wait are listed, and then failed one by one.
ListOutstanding(x) ==
    /\ dmx[x].reader = "closed"
    /\ dmx' = [dmx EXCEPT ![x].reader = "failing", ![x].failing = Outstanding(x)]
    /\ UNCHANGED <<wire, disp>>

FailCall(x, t) ==
    /\ dmx[x].reader = "failing"
    /\ t \in dmx[x].failing
    /\ disp[dmx[x].calls[t]].pc = "wait"
    /\ Got(dmx[x].calls[t], FALSE)
    /\ dmx' = [dmx EXCEPT ![x].calls = RemoveCall(x, t), ![x].failing = @ \ {t}]
    /\ UNCHANGED wire

-----------------------------------------------------------------------------
SendStep(i) == Enqueue(i) \/ Write(i)

ReaderStep(x) ==
    \/ \E m \in wire[x].reps : ReadReply(x, m)
    \/ ReadError(x)
    \/ ListOutstanding(x)
    \/ \E t \in dmx[x].failing : FailCall(x, t)

\* A tag names one call: the reader never meets a reply that nobody waits for
\* (log.Fatalf, dmxclnt.go:62), and every reply under way, whatever the order the
\* handlers finish in, goes to the call that made the request.
RepliesMatchCalls ==
    \A x \in Conns :
      /\ dmx[x].reader # "fatal"
      /\ \A m \in wire[x].reqs \cup wire[x].ran \cup wire[x].reps :
           m.tag \in Outstanding(x) /\ dmx[x].calls[m.tag] = m.id

\* Every SendReceive returns, also one that is put into the map while the
\* connection breaks (dmxclnt.go:96).
SendReceiveReturns ==
    \A i \in Ids : disp[i].pc \in {"put", "write", "wait"} ~> disp[i].pc = "got"
=============================================================================

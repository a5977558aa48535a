------------------------------- MODULE KVTest -------------------------------
(***************************************************************************)
(* The clients of the key/value tests (src/src/kvtest1/kvtest.go) on top of *)
(* the server, the clerks and the network of module KV.  Each behaviour    *)
(* runs one of three tests, with one client per clerk:                     *)
(*                                                                         *)
(*   append   OneClientAppend: Get the list, Put it with (me, i) added,    *)
(*            both under one version; CheckAppends at the end              *)
(*   put      OneClientPut: OnePut until a Put succeeds or may have;       *)
(*            CheckPutConcurrent at the end                                *)
(*   atleast  PutAtLeastOnce, which assumes that nobody else puts to the   *)
(*            key: a single client runs it                                 *)
(*                                                                         *)
(* A client stops at the top of its loop when the test is over.            *)
(***************************************************************************)
EXTENDS KV, Sequences

CONSTANTS
    SharedKey     \* the key "k" that the clients of append and put share

ASSUME SharedKeyAssumption == SharedKey \in Key
ASSUME ClerkAssumption == IsFiniteSet(Clerk)

VARIABLES
    test,    \* the test that runs
    prog     \* per client: the place in its code and its local variables

testVars == <<vars, test, prog>>

\* i counts iterations, es and ver are what the client knows of the key, err is
\* the answer to OnePut's Put; oks and maybes hold the iterations (append) or the
\* versions (put) that ended with OK and with ErrMaybe, so that their sizes are
\* Nok and Nmaybe.
Start == [pc |-> "top", i |-> 0, es |-> <<>>, ver |-> 0, err |-> "OK",
          oks |-> {}, maybes |-> {}]

\* Nobody has called yet; the append test has put an empty list under the key.
TestInit ==
    /\ test \in {"append", "put", "atleast"}
    /\ data = [k \in IF test = "append" THEN {SharedKey} ELSE {} |->
                 [value |-> <<>>, version |-> 1]]
    /\ op = [c \in Clerk |-> None]
    /\ first = [c \in Clerk |-> TRUE]
    /\ call = [c \in Clerk |-> "none"]
    /\ reply = [c \in Clerk |-> None]
    /\ late = {} /\ issued = {} /\ took = {} /\ returned = {}
    /\ IF test = "atleast"
       THEN \E one \in Clerk :
              prog = [c \in Clerk |-> [Start EXCEPT !.pc = IF c = one THEN "top" ELSE "done"]]
       ELSE prog = [c \in Clerk |-> Start]

\* Client c is at one of the places pcs of its code, and goes to pc.
At(t, c, pcs) == test = t /\ prog[c].pc \in pcs /\ UNCHANGED test
Goto(c, pc) == prog' = [prog EXCEPT ![c].pc = pc]

\* The done signal, looked at in the top of each client's loop.
Done(c) ==
    /\ prog[c].pc = "top" /\ op[c] = None
    /\ Goto(c, "done")
    /\ UNCHANGED <<vars, test>>

\* Get and Put of porcupine.go: the clerk's calls.  The operations they log for
\* porcupine are issued and returned of module KV.
tsGet(c) == Get(c, SharedKey)
tsPut(c, value, version) == Put(c, SharedKey, value, version)

-----------------------------------------------------------------------------
(* OneClientAppend *)

AppendGet(c) ==
    /\ At("append", c, {"top", "get"})
    /\ tsGet(c)
    /\ Goto(c, "get")

\* GetJson fails the test unless the key is there.
AppendGot(c) ==
    /\ At("append", c, {"get"})
    /\ Return(c)
    /\ prog' = [prog EXCEPT ![c].pc = IF Result(c).err = "OK" THEN "put" ELSE "fatal",
                            ![c].es = Result(c).value,
                            ![c].ver = Result(c).version]

AppendPut(c) ==
    /\ At("append", c, {"put"})
    /\ tsPut(c, Append(prog[c].es, <<c, prog[c].i>>), prog[c].ver)
    /\ UNCHANGED prog

\* ErrMaybe counts and goes to the next iteration; other errors try again.
AppendPutDone(c) ==
    /\ At("append", c, {"put"})
    /\ Return(c)
    /\ \/ /\ Result(c).err = "OK"
          /\ prog' = [prog EXCEPT ![c].pc = "top", ![c].i = @ + 1,
                                  ![c].oks = @ \cup {prog[c].i}]
       \/ /\ Result(c).err = "ErrMaybe"
          /\ prog' = [prog EXCEPT ![c].pc = "top", ![c].i = @ + 1,
                                  ![c].maybes = @ \cup {prog[c].i}]
       \/ /\ Result(c).err \notin {"OK", "ErrMaybe"}
          /\ Goto(c, "get")

-----------------------------------------------------------------------------
(* OnePut, repeated by OneClientPut with the version it returned *)

OnePut(c) ==
    /\ At("put", c, {"top", "put"})
    /\ tsPut(c, <<c, prog[c].ver>>, prog[c].ver)
    /\ Goto(c, "put")

OnePutDone(c) ==
    /\ At("put", c, {"put"})
    /\ Return(c)
    /\ prog' = [prog EXCEPT ![c].pc = IF Result(c).err = "ErrNoKey" THEN "fatal" ELSE "get",
                            ![c].err = Result(c).err]

OnePutGet(c) ==
    /\ At("put", c, {"get"})
    /\ tsGet(c)
    /\ UNCHANGED prog

\* The value of an own Put that nobody followed is looked at, and the version read
\* is the one the next Put names.
OnePutGot(c) ==
    LET p == prog[c]
        r == Result(c)
        wrong == /\ p.err = "OK" /\ r.version = p.ver + 1
                 /\ r.value[1] # c /\ r.value[2] # p.ver
    IN  /\ At("put", c, {"get"})
        /\ Return(c)
        /\ prog' = [prog EXCEPT ![c] =
             [p EXCEPT !.pc = IF r.err # "OK" \/ wrong THEN "fatal"
                              ELSE IF p.err = "ErrVersion" THEN "put" ELSE "top",
                       !.ver = r.version,
                       !.oks = IF p.err = "OK" THEN @ \cup {p.ver} ELSE @,
                       !.maybes = IF p.err = "ErrMaybe" THEN @ \cup {p.ver} ELSE @]]

-----------------------------------------------------------------------------
(* PutAtLeastOnce *)

PutAtLeastOnce(c) ==
    /\ At("atleast", c, {"top", "put"})
    /\ tsPut(c, <<c, prog[c].i>>, prog[c].ver)
    /\ Goto(c, "put")

\* Faulty: after ErrMaybe the Put is made again under the same version.
PutAgainSameVersion(c) ==
    LET e == Result(c).err
    IN  /\ At("atleast", c, {"put"})
        /\ Return(c)
        /\ prog' = [prog EXCEPT ![c].pc = IF e = "ErrNoKey" /\ prog[c].ver # 0 THEN "fatal"
                                          ELSE IF e \in {"OK", "ErrVersion"} THEN "top" ELSE "put",
                                ![c].ver = IF e = "OK" THEN @ + 1 ELSE @,
                                ![c].i = IF e \in {"OK", "ErrVersion"} THEN @ + 1 ELSE @]

PutAtLeastOnceDone(c) ==
    LET e == Result(c).err
    IN  /\ At("atleast", c, {"put"})
        /\ Return(c)
        /\ prog' = [prog EXCEPT ![c].pc = IF e = "ErrNoKey" /\ prog[c].ver # 0 THEN "fatal"
                                          ELSE IF e = "OK" THEN "top" ELSE "put",
                                ![c].ver = IF e = "ErrNoKey" THEN @ ELSE @ + 1,
                                ![c].i = IF e = "OK" THEN @ + 1 ELSE @]

-----------------------------------------------------------------------------
\* The server, the network and the clerks' loops, which no client sees.
Serve(c) == (ServerGet(c) \/ ServerPut(c)) /\ UNCHANGED <<test, prog>>
Lose(c) == (RequestLost(c) \/ GivenUp(c) \/ ReplyLost(c)) /\ UNCHANGED <<test, prog>>

ClientStep(c) ==
    \/ Done(c)
    \/ AppendGet(c) \/ AppendPut(c)
    \/ OnePut(c) \/ OnePutGet(c)
    \/ PutAtLeastOnce(c)

ClientReturn(c) ==
    AppendGot(c) \/ AppendPutDone(c) \/ OnePutDone(c) \/ OnePutGot(c) \/ PutAtLeastOnceDone(c)

TestNext ==
    \/ \E c \in Clerk : ClientStep(c) \/ ClientReturn(c) \/ Serve(c) \/ Lose(c)
    \/ \E o \in late : LatePut(o) /\ UNCHANGED <<test, prog>>

\* As in KV: of an RPC that is repeated for ever one request and one reply get
\* through.
TestSpec ==
    /\ TestInit /\ [][TestNext]_testVars
    /\ \A c \in Clerk : SF_testVars(Serve(c)) /\ SF_testVars(ClientReturn(c))

-----------------------------------------------------------------------------
(* Properties *)

\* Porcupine accepts the history of every test (checkPorcupine, porcupine.go:86):
\* what the clients called and were told is linearizable with respect to
\* models1/kv.go, from the store that the set-up left, and each Put takes effect,
\* if it does, before its answer, although handlers outlive their calls.
PorcupineAccepts == Abstract!Begun /\ [][Abstract!Next]_(Abstract!vars)

AllDone == \A c \in Clerk : prog[c].pc = "done"
Nok(c) == Cardinality(prog[c].oks)
Nmaybe(c) == Cardinality(prog[c].maybes)

\* CheckAppends (kvtest.go:372): the list has one entry for each Put the server
\* counted, and in its loop over the entries each client's iterations increase, the
\* ones that were skipped so far are no more than the client had ErrMaybes, and the
\* client has had an answer for each.
CheckAppends ==
    LET es == data[SharedKey].value
        Of(c, j) == {k \in 1..j : es[k][1] = c}
    IN  /\ Len(es) + 1 = data[SharedKey].version
        /\ \A j \in DOMAIN es :
             LET c == es[j][1]
                 N == es[j][2]
             IN  /\ \A k \in Of(c, j - 1) : es[k][2] < N
                 /\ (N + 1) - Cardinality(Of(c, j)) <= Nmaybe(c)
                 /\ N + 1 <= Nok(c) + Nmaybe(c)

\* The OKs and ErrMaybes of all clients, and how many they are.
Answered ==
    UNION {{<<c, "OK", v>> : v \in prog[c].oks} \cup {<<c, "ErrMaybe", v>> : v \in prog[c].maybes}
             : c \in Clerk}
Puts == Cardinality(Answered)

\* CheckPutConcurrent (kvtest.go:137): the server counted no more Puts than the
\* clients had OKs and ErrMaybes.
CheckPutConcurrent ==
    /\ SharedKey \in DOMAIN data => data[SharedKey].version <= Puts
    /\ Puts > 0 => SharedKey \in DOMAIN data

\* No check of the tests fails: no client meets an answer it takes for wrong, and
\* when all have stopped the server's value and version add up with what they were
\* told, whatever the network lost and whatever handlers still run.
TestsPass ==
    /\ \A c \in Clerk : prog[c].pc # "fatal"
    /\ AllDone /\ test = "append" => CheckAppends
    /\ AllDone /\ test = "put" => CheckPutConcurrent

\* An append that was answered OK is in the list once and for ever, one that may
\* have happened at most once: concurrent read-modify-writes lose no update and a
\* repeated Put repeats none ("each client has entries with increasing N",
\* kvtest.go:336).
AppendsAreExact ==
    test = "append" =>
      \A c \in Clerk, i \in 0..MaxOps :
        LET at == {k \in DOMAIN data[SharedKey].value : data[SharedKey].value[k] = <<c, i>>}
        IN  /\ i \in prog[c].oks => Cardinality(at) = 1
            /\ Cardinality(at) <= 1

\* PutAtLeastOnce returns the version the key has then, and its value is the one
\* that was put, although an ErrMaybe before may stand for a Put that took effect.
AtLeastOnceIsKnown ==
    test = "atleast" =>
      \A c \in Clerk : prog[c].pc \in {"top", "done"} /\ prog[c].i > 0 =>
         data[SharedKey] = [value |-> <<c, prog[c].i - 1>>, version |-> prog[c].ver]
=============================================================================

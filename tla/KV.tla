--------------------------------- MODULE KV ---------------------------------
(***************************************************************************)
(* The key/value server of lab 2 (src/kvsrv1/server.go), its clerks        *)
(* (src/kvsrv1/client.go) and the network between them                     *)
(* (src/labrpc/labrpc.go).                                                 *)
(*                                                                         *)
(* A clerk makes one RPC at a time and repeats it until one is answered.   *)
(* A call fails when the network drops the request, when it drops the      *)
(* reply, or when it stops to wait for the handler, which then still runs. *)
(***************************************************************************)
EXTENDS Naturals, FiniteSets

CONSTANTS
    Clerk, Key, Value,
    None,         \* no operation, no reply, no value
    MaxOps,       \* bound: operations per clerk
    MaxVersion,   \* bound: the versions that clients name
    MaxLate       \* bound: handlers that outlive their call, at once

ASSUME BoundAssumption == {MaxOps, MaxVersion, MaxLate} \subseteq Nat

VARIABLES
    data,      \* KVServer.data: the keys that exist, with value and version
    op,        \* the Get or Put each clerk is in, or None
    first,     \* Put's flag: the RPC under way is the first one
    call,      \* where the clerk's RPC is: "none", "request" or "reply"
    reply,     \* what the handler answered to it
    late,      \* Puts whose handler still runs although the call has failed
    issued,    \* history: every operation called so far
    took,      \* history: the identities of the Puts that have taken effect
    returned   \* history: every answer given so far

clerkVars == <<op, first, call, reply>>
vars == <<data, clerkVars, late, issued, took, returned>>

Id == Clerk \X (1..MaxOps)

Entry == [value : Value, version : Nat \ {0}]

Op == [id : Id, type : {"Get", "Put"}, key : Key, value : Value \cup {None}, version : Nat]

Reply == [err : {"OK", "ErrNoKey", "ErrVersion", "ErrMaybe"},
          value : Value \cup {None}, version : Nat]

ASSUME NoneAssumption == None \notin Value /\ None \notin Op /\ None \notin Reply

Answer(err) == [err |-> err, value |-> None, version |-> 0]

-----------------------------------------------------------------------------
(* The server *)

\* What Get answers.
GetReply(o) ==
    IF o.key \in DOMAIN data
    THEN [err |-> "OK", value |-> data[o.key].value, version |-> data[o.key].version]
    ELSE Answer("ErrNoKey")

\* Faulty: an older version is good enough.
AcceptsOlder(o) ==
    IF o.key \in DOMAIN data THEN o.version <= data[o.key].version ELSE o.version = 0

\* Whether Put stores the value.
Accepts(o) ==
    IF o.key \in DOMAIN data THEN o.version = data[o.key].version ELSE o.version = 0

\* What Put answers.
PutReply(o) ==
    Answer(IF Accepts(o) THEN "OK"
           ELSE IF o.key \in DOMAIN data THEN "ErrVersion" ELSE "ErrNoKey")

\* Faulty: a new key starts with the version that the client named.
StoreFromZero(o) ==
    IF Accepts(o)
    THEN /\ data' = [k \in DOMAIN data \cup {o.key} |->
                IF k = o.key
                THEN [value |-> o.value,
                      version |-> IF k \in DOMAIN data THEN data[k].version + 1 ELSE o.version]
                ELSE data[k]]
         /\ took' = took \cup {o.id}
    ELSE UNCHANGED <<data, took>>

\* What Put does to the map.
Store(o) ==
    IF Accepts(o)
    THEN /\ data' = [k \in DOMAIN data \cup {o.key} |->
                IF k = o.key
                THEN [value |-> o.value,
                      version |-> IF k \in DOMAIN data THEN data[k].version + 1 ELSE 1]
                ELSE data[k]]
         /\ took' = took \cup {o.id}
    ELSE UNCHANGED <<data, took>>

ServerGet(c) ==
    /\ call[c] = "request" /\ op[c].type = "Get"
    /\ call' = [call EXCEPT ![c] = "reply"]
    /\ reply' = [reply EXCEPT ![c] = GetReply(op[c])]
    /\ UNCHANGED <<data, op, first, late, issued, took, returned>>

ServerPut(c) ==
    /\ call[c] = "request" /\ op[c].type = "Put"
    /\ Store(op[c])
    /\ call' = [call EXCEPT ![c] = "reply"]
    /\ reply' = [reply EXCEPT ![c] = PutReply(op[c])]
    /\ UNCHANGED <<op, first, late, issued, returned>>

\* A handler that outlived its call; nobody hears its answer.  Other calls of the
\* same operation may have been given up, too.
LatePut(o) ==
    /\ Store(o)
    /\ late' \in {late, late \ {o}}
    /\ UNCHANGED <<clerkVars, issued, returned>>

-----------------------------------------------------------------------------
(* The clerk *)

\* The clerk's n-th operation has been called.
Used(c, n) == \E p \in issued : p.id = <<c, n>>

\* The call of the clerk's n-th operation o.
Begin(c, n, o) ==
    /\ op[c] = None
    /\ ~Used(c, n) /\ \A m \in 1..n - 1 : Used(c, m)
    /\ op' = [op EXCEPT ![c] = o]
    /\ issued' = issued \cup {o}
    /\ first' = [first EXCEPT ![c] = TRUE]
    /\ call' = [call EXCEPT ![c] = "request"]
    /\ UNCHANGED <<data, reply, late, took, returned>>

Get(c, k) ==
    \E n \in 1..MaxOps :
        Begin(c, n, [id |-> <<c, n>>, type |-> "Get", key |-> k, value |-> None, version |-> 0])

Put(c, k, v, version) ==
    \E n \in 1..MaxOps :
        Begin(c, n, [id |-> <<c, n>>, type |-> "Put", key |-> k, value |-> v, version |-> version])

\* Faulty: a failed RPC is not repeated.
AgainNever(c) ==
    /\ call' = [call EXCEPT ![c] = "none"]
    /\ reply' = [reply EXCEPT ![c] = None]
    /\ UNCHANGED <<data, op, first, issued, took, returned>>

\* The RPC fails and the clerk's loop makes it again.
Again(c) ==
    /\ first' = [first EXCEPT ![c] = FALSE]
    /\ call' = [call EXCEPT ![c] = "request"]
    /\ reply' = [reply EXCEPT ![c] = None]
    /\ UNCHANGED <<data, op, issued, took, returned>>

RequestLost(c) ==
    /\ call[c] = "request"
    /\ Again(c)
    /\ UNCHANGED late

GivenUp(c) ==
    /\ call[c] = "request" /\ op[c].type = "Put"
    /\ Cardinality(late) < MaxLate
    /\ late' = late \cup {op[c]}
    /\ Again(c)

ReplyLost(c) ==
    /\ call[c] = "reply"
    /\ Again(c)
    /\ UNCHANGED late

\* Faulty: a refused repetition is reported like a refused first try.
ResultOfServer(c) == reply[c]

\* Faulty: a repetition that is refused is taken for a first try that succeeded.
ResultMaybeIsOK(c) ==
    IF op[c].type = "Put" /\ reply[c].err = "ErrVersion" /\ ~first[c]
    THEN Answer("OK") ELSE reply[c]

\* What the clerk makes of the reply to its last RPC.
Result(c) ==
    IF op[c].type = "Put" /\ reply[c].err = "ErrVersion" /\ ~first[c]
    THEN Answer("ErrMaybe") ELSE reply[c]

Return(c) ==
    /\ call[c] = "reply"
    /\ returned' = returned \cup {[id |-> op[c].id, reply |-> Result(c)]}
    /\ op' = [op EXCEPT ![c] = None]
    /\ call' = [call EXCEPT ![c] = "none"]
    /\ reply' = [reply EXCEPT ![c] = None]
    /\ UNCHANGED <<data, first, late, issued, took>>

-----------------------------------------------------------------------------

Init ==
    /\ data = << >>
    /\ op = [c \in Clerk |-> None]
    /\ first = [c \in Clerk |-> TRUE]
    /\ call = [c \in Clerk |-> "none"]
    /\ reply = [c \in Clerk |-> None]
    /\ late = {} /\ issued = {} /\ took = {} /\ returned = {}

Next ==
    \/ \E c \in Clerk :
        \/ \E k \in Key : Get(c, k)
        \/ \E k \in Key, v \in Value, version \in 0..MaxVersion : Put(c, k, v, version)
        \/ ServerGet(c) \/ ServerPut(c)
        \/ RequestLost(c) \/ GivenUp(c) \/ ReplyLost(c)
        \/ Return(c)
    \/ \E o \in late : LatePut(o)

Spec == Init /\ [][Next]_vars

\* The network drops messages at random, so that of an RPC that is repeated for
\* ever one request and one reply get through.
Fairness ==
    \A c \in Clerk :
        SF_vars(ServerGet(c)) /\ SF_vars(ServerPut(c)) /\ SF_vars(Return(c))

FairSpec == Spec /\ Fairness

-----------------------------------------------------------------------------
(* Properties *)

\* Every variable keeps its type.
TypeOK ==
    /\ \E keys \in SUBSET Key : data \in [keys -> Entry]
    /\ op \in [Clerk -> Op \cup {None}]
    /\ first \in [Clerk -> BOOLEAN]
    /\ call \in [Clerk -> {"none", "request", "reply"}]
    /\ reply \in [Clerk -> Reply \cup {None}]
    /\ late \subseteq Op /\ issued \subseteq Op /\ took \subseteq Id
    /\ \A r \in returned : r.id \in Id /\ r.reply \in Reply

PutsDone(k) == {o \in issued : o.type = "Put" /\ o.key = k /\ o.id \in took}

\* Since the first Put of a key, each of its versions was left behind by exactly
\* one Put, which named the version before: however often a Put is sent and
\* executed, it takes effect at most once.
AtMostOnce ==
    \A k \in DOMAIN data : \A o \in PutsDone(k) :
        /\ o.version < data[k].version
        /\ \A v \in o.version..data[k].version - 1 :
             \E p \in PutsDone(k) :
                p.version = v /\ \A q \in PutsDone(k) : q.version = v => q = p

\* OK means that the Put took effect, ErrVersion that it did not and never will,
\* even if the network still holds copies of requests.
AnswersAreTrue ==
    \A r \in returned : \A o \in issued : o.id = r.id /\ o.type = "Put" =>
        /\ r.reply.err = "OK" => o.id \in took
        /\ r.reply.err = "ErrVersion" => o.id \notin took

\* The answer that the sequential model gives to the operation of clerk c if it
\* acts when its handler ran last.
Outcome(c) ==
    IF op[c] = None THEN None
    ELSE IF op[c].id \in took THEN Answer("OK")
    ELSE IF call[c] # "reply" THEN None
    ELSE IF op[c].type = "Put" THEN Answer("ErrVersion") ELSE reply[c]

Abstract == INSTANCE KVStore WITH store <- data, outcome <- [c \in Clerk |-> Outcome(c)]

\* Whatever versions the clients name, what they call and are told is linearizable
\* as the tests' model wants it ("return out.Err == "ErrVersion" || out.Err ==
\* "ErrMaybe", st", models1/kv.go:62).  It is not: Put answers ErrNoKey as well.
Linearizable == Abstract!Spec

\* Clients name only versions that the key has or had, as those do that take them
\* from earlier answers.
NamesKnown ==
    \A o \in issued : o.type = "Put" => o.version <= Abstract!VersionOf(data, o.key)

\* A clerk's loop ends: every operation is answered.
EveryCallReturns == \A c \in Clerk : op[c] # None ~> op[c] = None
=============================================================================

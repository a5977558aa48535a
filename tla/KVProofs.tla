------------------------------ MODULE KVProofs ------------------------------
(***************************************************************************)
(* Theorems about KV, for every set of clerks, keys and values and every   *)
(* bound: types, at-most-once, the meaning of the answers, and that server *)
(* and clerks implement KVStore for clients that name no version that is   *)
(* still to come.  Then theorems about KVTest, for every number of         *)
(* clients: no check of kvtest.go fails and porcupine accepts the history. *)
(***************************************************************************)
EXTENDS KVTest, FiniteSetTheorems, TLAPS

-----------------------------------------------------------------------------
(* The inductive invariant *)

\* An operation belongs to its clerk, is known by its identity, and only a Put
\* carries a value or has a handler that outlives its call.
OpInv ==
    /\ \A o \in issued : o.type = "Put" => o.value \in Value
    /\ \A o, p \in issued : o.id = p.id => o = p
    /\ \A c \in Clerk :
        /\ op[c] = None <=> call[c] = "none"
        /\ op[c] # None => op[c] \in issued /\ op[c].id[1] = c
    /\ \A o \in late : o \in issued /\ o.type = "Put"
    /\ \A id \in took : \E o \in issued : o.id = id

\* A Put that has taken effect left a newer version than it names behind, so that
\* no copy of it is accepted again.
TookInv ==
    \A o \in issued : o.id \in took =>
        /\ o.type = "Put"
        /\ o.key \in DOMAIN data /\ o.version < data[o.key].version

\* What the handler answered about the operation under way.
ReplyInv ==
    \A c \in Clerk : call[c] = "reply" =>
        /\ reply[c] # None
        /\ op[c].type = "Put" =>
            /\ \E err \in {"OK", "ErrVersion", "ErrNoKey"} : reply[c] = Answer(err)
            /\ reply[c].err = "OK" => op[c].id \in took

\* While the first RPC is under way there is no copy of it, and if its handler
\* has refused the Put then the Put has not taken effect.
FirstInv ==
    \A c \in Clerk : op[c] # None /\ first[c] =>
        /\ op[c] \notin late
        /\ call[c] = "request" => op[c].id \notin took
        /\ call[c] = "reply" /\ reply[c].err # "OK" => op[c].id \notin took

\* An operation that was answered is over, and ErrVersion leaves no copy behind.
ReturnInv ==
    \A r \in returned :
        /\ \E o \in issued : o.id = r.id
        /\ \A c \in Clerk : op[c] # None => op[c].id # r.id
        /\ \A o \in issued : o.id = r.id /\ o.type = "Put" =>
            /\ r.reply.err = "OK" => o.id \in took
            /\ r.reply.err = "ErrVersion" => o.id \notin took /\ o \notin late

KVInv == TypeOK /\ OpInv /\ TookInv /\ ReplyInv /\ FirstInv /\ ReturnInv

-----------------------------------------------------------------------------
(* The server *)

\* The initial state satisfies the invariant.
LEMMA KVInit == Init => KVInv
<1> SUFFICES ASSUME Init PROVE KVInv
  OBVIOUS
<1>1. data \in [{} -> Entry]
  BY DEF Init
<1>2. TypeOK
  <2>1. \E keys \in SUBSET Key : data \in [keys -> Entry]
    BY <1>1
  <2> QED
    BY <2>1 DEF Init, TypeOK
<1> QED
  BY <1>2 DEF Init, KVInv, OpInv, TookInv, ReplyInv, FirstInv, ReturnInv

\* The types of what the map holds.
LEMMA DataType ==
    ASSUME TypeOK, NEW k \in DOMAIN data
    PROVE  k \in Key /\ data[k] \in Entry /\ data[k].value \in Value /\ data[k].version \in Nat \ {0}
  BY DEF TypeOK, Entry

\* KVServer.Put on a Put of some clerk: it stores the value only if the Put has
\* not taken effect before, and leaves a newer version behind.
LEMMA StoreStep ==
    ASSUME KVInv, NEW o \in issued, o.type = "Put", Store(o)
    PROVE  /\ \E keys \in SUBSET Key : data' \in [keys -> Entry]
           /\ took' \subseteq Id /\ took \subseteq took'
           /\ \A id \in took' : id \in took \/ id = o.id
           /\ \A p \in issued : p.id \in took' =>
                /\ p.type = "Put"
                /\ p.key \in DOMAIN data' /\ p.version < data'[p.key].version
           /\ IF Accepts(o) THEN o.id \notin took /\ took' = took \cup {o.id}
              ELSE UNCHANGED <<data, took>>
<1>1. /\ o.id \in Id /\ o.key \in Key /\ o.value \in Value /\ o.version \in Nat
      /\ took \subseteq Id
  BY DEF KVInv, TypeOK, OpInv, Op
<1>2. CASE ~Accepts(o)
  BY <1>1, <1>2 DEF Store, KVInv, TypeOK, TookInv
<1>3. CASE Accepts(o)
  <2> DEFINE e == [value |-> o.value,
                   version |-> IF o.key \in DOMAIN data THEN data[o.key].version + 1 ELSE 1]
  <2>1. /\ data' = [k \in DOMAIN data \cup {o.key} |-> IF k = o.key THEN e ELSE data[k]]
        /\ took' = took \cup {o.id}
    BY <1>3 DEF Store
  <2>2. \A k \in DOMAIN data : k \in Key /\ data[k] \in Entry /\ data[k].version \in Nat
    BY DataType DEF KVInv
  <2>3. o.id \notin took
    BY <1>1, <1>3, <2>2 DEF Accepts, KVInv, TookInv
  <2>4. e \in Entry /\ e.version \in Nat /\ o.version < e.version
    BY <1>1, <1>3, <2>2 DEF Accepts, Entry
  <2>5. \A k \in DOMAIN data : k = o.key => data[k].version < e.version
    BY <2>2
  <2> HIDE DEF e
  <2>6. \E keys \in SUBSET Key : data' \in [keys -> Entry]
    <3>1. data' \in [DOMAIN data \cup {o.key} -> Entry]
      BY <2>1, <2>2, <2>4
    <3> QED
      BY <1>1, <2>2, <3>1
  <2>7. \A p \in issued : p.id \in took' =>
          p.type = "Put" /\ p.key \in DOMAIN data' /\ p.version < data'[p.key].version
    <3> SUFFICES ASSUME NEW p \in issued, p.id \in took'
                 PROVE  p.type = "Put" /\ p.key \in DOMAIN data' /\ p.version < data'[p.key].version
      OBVIOUS
    <3>1. CASE p.id = o.id
      <4>1. p = o
        BY <3>1 DEF KVInv, OpInv
      <4> QED
        BY <2>1, <2>4, <4>1
    <3>2. CASE p.id \in took
      <4>1. p.type = "Put" /\ p.key \in DOMAIN data /\ p.version < data[p.key].version
        BY <3>2 DEF KVInv, TookInv
      <4>2. p.version \in Nat
        BY DEF KVInv, TypeOK, Op
      <4>3. p.key # o.key => data'[p.key] = data[p.key]
        BY <2>1, <4>1
      <4>4. p.key = o.key => data'[p.key] = e
        BY <2>1
      <4> QED
        BY <2>1, <2>2, <2>4, <2>5, <4>1, <4>2, <4>3, <4>4
    <3> QED
      BY <2>1, <3>1, <3>2
  <2> QED
    BY <1>1, <1>3, <2>1, <2>3, <2>6, <2>7
<1> QED
  BY <1>2, <1>3

\* A clerk calls Get or Put: the identity is new, so that nothing is known of it.
LEMMA KVBegin ==
    ASSUME KVInv, NEW c \in Clerk, NEW n \in 1..MaxOps, NEW o \in Op, o.id = <<c, n>>,
           o.type = "Put" => o.value \in Value, Begin(c, n, o)
    PROVE  KVInv'
<1>1. /\ op' = [op EXCEPT ![c] = o] /\ issued' = issued \cup {o}
      /\ first' = [first EXCEPT ![c] = TRUE] /\ call' = [call EXCEPT ![c] = "request"]
      /\ UNCHANGED <<data, reply, late, took, returned>>
      /\ op[c] = None /\ \A p \in issued : p.id # o.id
  BY DEF Begin, Used
<1>2. TypeOK'
  BY <1>1 DEF KVInv, TypeOK
<1>3. /\ \A d \in Clerk \ {c} : op'[d] = op[d] /\ first'[d] = first[d] /\ call'[d] = call[d]
      /\ op'[c] = o /\ first'[c] = TRUE /\ call'[c] = "request"
      /\ o # None
  BY <1>1, NoneAssumption DEF KVInv, TypeOK
<1>4. o \notin late /\ o.id \notin took /\ \A r \in returned : r.id # o.id
  BY <1>1 DEF KVInv, OpInv, ReturnInv
<1>5. OpInv'
  <2>1. \A p, q \in issued' : p.id = q.id => p = q
    BY <1>1 DEF KVInv, OpInv
  <2>2. \A d \in Clerk :
          /\ op'[d] = None <=> call'[d] = "none"
          /\ op'[d] # None => op'[d] \in issued' /\ op'[d].id[1] = d
    BY <1>1, <1>3 DEF KVInv, OpInv
  <2> QED
    BY <1>1, <2>1, <2>2 DEF KVInv, OpInv
<1>6. TookInv'
  BY <1>1, <1>4 DEF KVInv, TookInv
<1>7. ReplyInv'
  BY <1>1, <1>3 DEF KVInv, ReplyInv, Answer
<1>8. FirstInv'
  BY <1>1, <1>3, <1>4 DEF KVInv, FirstInv
<1>9. ReturnInv'
  BY <1>1, <1>3, <1>4 DEF KVInv, ReturnInv
<1> QED
  BY <1>2, <1>5, <1>6, <1>7, <1>8, <1>9 DEF KVInv

\* The handler of Get.
LEMMA KVServerGet ==
    ASSUME KVInv, NEW c \in Clerk, ServerGet(c)
    PROVE  KVInv'
<1>1. /\ call' = [call EXCEPT ![c] = "reply"] /\ reply' = [reply EXCEPT ![c] = GetReply(op[c])]
      /\ UNCHANGED <<data, op, first, late, issued, took, returned>>
      /\ call[c] = "request" /\ op[c].type = "Get"
  BY DEF ServerGet
<1>2. op[c] # None /\ op[c] \in issued
  BY <1>1 DEF KVInv, OpInv
<1>3. GetReply(op[c]) \in Reply
  BY DataType DEF KVInv, GetReply, Reply, Answer
<1>4. /\ \A d \in Clerk \ {c} : call'[d] = call[d] /\ reply'[d] = reply[d]
      /\ call'[c] = "reply" /\ reply'[c] = GetReply(op[c])
  BY <1>1 DEF KVInv, TypeOK
<1>5. TypeOK'
  BY <1>1, <1>3 DEF KVInv, TypeOK
<1>6. OpInv'
  BY <1>1, <1>2, <1>4 DEF KVInv, OpInv
<1>7. TookInv' /\ ReturnInv'
  BY <1>1 DEF KVInv, TookInv, ReturnInv
<1>8. ReplyInv'
  BY <1>1, <1>3, <1>4, NoneAssumption DEF KVInv, ReplyInv, Answer
<1>9. FirstInv'
  <2>1. op[c].id \notin took
    BY <1>1, <1>2 DEF KVInv, TookInv
  <2> QED
    BY <1>1, <1>4, <2>1 DEF KVInv, FirstInv
<1> QED
  BY <1>5, <1>6, <1>7, <1>8, <1>9 DEF KVInv

\* The handler of Put, while its call waits for it.
LEMMA KVServerPut ==
    ASSUME KVInv, NEW c \in Clerk, ServerPut(c)
    PROVE  KVInv'
<1>1. /\ call' = [call EXCEPT ![c] = "reply"] /\ reply' = [reply EXCEPT ![c] = PutReply(op[c])]
      /\ UNCHANGED <<op, first, late, issued, returned>>
      /\ call[c] = "request" /\ op[c].type = "Put" /\ Store(op[c])
  BY DEF ServerPut
<1>2. op[c] # None /\ op[c] \in issued
  BY <1>1 DEF KVInv, OpInv
<1> DEFINE o == op[c]
<1>3. /\ \E keys \in SUBSET Key : data' \in [keys -> Entry]
      /\ took' \subseteq Id /\ took \subseteq took'
      /\ \A id \in took' : id \in took \/ id = o.id
      /\ \A p \in issued : p.id \in took' =>
           p.type = "Put" /\ p.key \in DOMAIN data' /\ p.version < data'[p.key].version
      /\ IF Accepts(o) THEN o.id \notin took /\ took' = took \cup {o.id}
         ELSE UNCHANGED <<data, took>>
  BY <1>1, <1>2, StoreStep
<1>4. /\ \E err \in {"OK", "ErrVersion", "ErrNoKey"} : PutReply(o) = Answer(err)
      /\ PutReply(o) \in Reply
      /\ PutReply(o).err = "OK" <=> Accepts(o)
  BY DEF PutReply, Reply, Answer
<1>5. /\ \A d \in Clerk \ {c} : call'[d] = call[d] /\ reply'[d] = reply[d]
      /\ call'[c] = "reply" /\ reply'[c] = PutReply(o)
  BY <1>1 DEF KVInv, TypeOK
<1>6. \A p \in issued : p.id \in took' /\ p.id \notin took => p = o
  BY <1>2, <1>3 DEF KVInv, OpInv
<1>7. TypeOK'
  BY <1>1, <1>3, <1>4 DEF KVInv, TypeOK
<1>8. OpInv'
  BY <1>1, <1>2, <1>3, <1>5 DEF KVInv, OpInv
<1>9. TookInv'
  BY <1>1, <1>3 DEF TookInv
<1>10. ReplyInv'
  <2>1. \A d \in Clerk : op[d].id \in took => op[d].id \in took'
    BY <1>3
  <2> QED
    BY <1>1, <1>3, <1>4, <1>5, <2>1, NoneAssumption DEF KVInv, ReplyInv, Answer
<1>11. FirstInv'
  <2> SUFFICES ASSUME NEW d \in Clerk, op[d] # None, first[d]
               PROVE  /\ op[d] \notin late
                      /\ call'[d] = "request" => op[d].id \notin took'
                      /\ call'[d] = "reply" /\ reply'[d].err # "OK" => op[d].id \notin took'
    BY <1>1 DEF FirstInv
  <2>1. CASE d = c
    BY <1>1, <1>2, <1>3, <1>4, <1>5, <2>1 DEF KVInv, FirstInv
  <2>2. CASE d # c
    <3>1. op[d] \in issued /\ op[d] # o
      BY <1>2, <2>2 DEF KVInv, OpInv
    <3> QED
      BY <1>5, <1>6, <2>2, <3>1 DEF KVInv, FirstInv
  <2> QED
    BY <2>1, <2>2
<1>12. ReturnInv'
  <2>1. \A r \in returned : r.id # o.id
    BY <1>2 DEF KVInv, ReturnInv
  <2> QED
    BY <1>1, <1>3, <2>1 DEF KVInv, ReturnInv
<1> QED
  BY <1>7, <1>8, <1>9, <1>10, <1>11, <1>12 DEF KVInv

\* The handler of Put, after its call has failed.
LEMMA KVLatePut ==
    ASSUME KVInv, NEW o \in late, LatePut(o)
    PROVE  KVInv'
<1>1. /\ Store(o) /\ late' \subseteq late
      /\ UNCHANGED <<op, first, call, reply, issued, returned>>
  BY DEF LatePut, clerkVars
<1>2. o \in issued /\ o.type = "Put"
  BY DEF KVInv, OpInv
<1>3. /\ \E keys \in SUBSET Key : data' \in [keys -> Entry]
      /\ took' \subseteq Id /\ took \subseteq took'
      /\ \A id \in took' : id \in took \/ id = o.id
      /\ \A p \in issued : p.id \in took' =>
           p.type = "Put" /\ p.key \in DOMAIN data' /\ p.version < data'[p.key].version
  BY <1>1, <1>2, StoreStep
<1>4. \A p \in issued : p.id \in took' /\ p.id \notin took => p = o
  BY <1>2, <1>3 DEF KVInv, OpInv
<1>5. TypeOK'
  BY <1>1, <1>3 DEF KVInv, TypeOK
<1>6. OpInv'
  BY <1>1, <1>2, <1>3 DEF KVInv, OpInv
<1>7. TookInv'
  BY <1>1, <1>3 DEF TookInv
<1>8. ReplyInv'
  BY <1>1, <1>3 DEF KVInv, ReplyInv, Answer
<1>9. FirstInv'
  BY <1>1, <1>4 DEF KVInv, FirstInv, OpInv
<1>10. ReturnInv'
  BY <1>1, <1>2, <1>3, <1>4 DEF KVInv, ReturnInv
<1> QED
  BY <1>5, <1>6, <1>7, <1>8, <1>9, <1>10 DEF KVInv

\* A call fails and is made again, perhaps while the handler of the last one runs.
LEMMA KVAgain ==
    ASSUME KVInv, NEW c \in Clerk, op[c] # None, Again(c),
           late' = late \/ (op[c].type = "Put" /\ late' = late \cup {op[c]})
    PROVE  KVInv'
<1>1. /\ first' = [first EXCEPT ![c] = FALSE] /\ call' = [call EXCEPT ![c] = "request"]
      /\ reply' = [reply EXCEPT ![c] = None]
      /\ UNCHANGED <<data, op, issued, took, returned>>
  BY DEF Again
<1>2. op[c] \in issued
  BY DEF KVInv, OpInv
<1>3. /\ \A d \in Clerk \ {c} : first'[d] = first[d] /\ call'[d] = call[d] /\ reply'[d] = reply[d]
      /\ first'[c] = FALSE /\ call'[c] = "request"
  BY <1>1 DEF KVInv, TypeOK
<1>4. TypeOK'
  <2>1. late' \subseteq Op
    BY <1>2 DEF KVInv, TypeOK
  <2> QED
    BY <1>1, <2>1 DEF KVInv, TypeOK
<1>5. OpInv'
  BY <1>1, <1>2, <1>3 DEF KVInv, OpInv
<1>6. TookInv'
  BY <1>1 DEF KVInv, TookInv
<1>7. ReplyInv'
  BY <1>1, <1>3 DEF KVInv, ReplyInv, Answer
<1>8. FirstInv'
  <2>1. \A d \in Clerk \ {c} : op[d] # op[c] \/ op[d] = None
    BY <1>2 DEF KVInv, OpInv
  <2> QED
    BY <1>1, <1>3, <2>1 DEF KVInv, FirstInv
<1>9. ReturnInv'
  <2>1. \A r \in returned : r.id # op[c].id
    BY DEF KVInv, ReturnInv
  <2> QED
    BY <1>1, <2>1 DEF KVInv, ReturnInv
<1> QED
  BY <1>4, <1>5, <1>6, <1>7, <1>8, <1>9 DEF KVInv

\* A call is answered and the clerk's method returns.
LEMMA KVReturn ==
    ASSUME KVInv, NEW c \in Clerk, Return(c)
    PROVE  KVInv'
<1> DEFINE o == op[c]
           r == [id |-> op[c].id, reply |-> Result(c)]
<1>1. /\ returned' = returned \cup {r} /\ op' = [op EXCEPT ![c] = None]
      /\ call' = [call EXCEPT ![c] = "none"] /\ reply' = [reply EXCEPT ![c] = None]
      /\ UNCHANGED <<data, first, late, issued, took>>
      /\ call[c] = "reply"
  BY DEF Return
<1>2. o # None /\ o \in issued /\ o.id \in Id /\ reply[c] \in Reply /\ reply[c] # None
  BY <1>1 DEF KVInv, OpInv, ReplyInv, TypeOK, Op
<1>3. /\ \A d \in Clerk \ {c} : op'[d] = op[d] /\ call'[d] = call[d] /\ reply'[d] = reply[d]
      /\ op'[c] = None /\ call'[c] = "none"
  BY <1>1 DEF KVInv, TypeOK
<1>4. r.id = o.id /\ r.reply = Result(c) /\ Result(c) \in Reply
  BY <1>2 DEF Result, Reply, Answer
<1>5. o.type = "Put" => /\ Result(c).err = "OK" => o.id \in took
                        /\ Result(c).err = "ErrVersion" => o.id \notin took /\ o \notin late
  <2> SUFFICES ASSUME o.type = "Put"
               PROVE  /\ Result(c).err = "OK" => o.id \in took
                      /\ Result(c).err = "ErrVersion" => o.id \notin took /\ o \notin late
    OBVIOUS
  <2>1. /\ reply[c].err = "OK" => o.id \in took
        /\ Answer("ErrMaybe").err = "ErrMaybe"
    BY <1>1 DEF KVInv, ReplyInv, Answer
  <2>2. Result(c).err = "OK" => reply[c].err = "OK"
    BY <2>1 DEF Result
  <2>3. Result(c).err = "ErrVersion" => reply[c].err = "ErrVersion" /\ first[c]
    BY <1>2, <2>1 DEF Result, KVInv, TypeOK
  <2>4. first[c] /\ reply[c].err # "OK" => o.id \notin took /\ o \notin late
    BY <1>1, <1>2 DEF KVInv, FirstInv
  <2> QED
    BY <2>1, <2>2, <2>3, <2>4
<1> HIDE DEF r
<1>6. TypeOK'
  BY <1>1, <1>2, <1>4 DEF KVInv, TypeOK
<1>7. OpInv'
  BY <1>1, <1>3 DEF KVInv, OpInv
<1>8. TookInv'
  BY <1>1 DEF KVInv, TookInv
<1>9. ReplyInv'
  BY <1>1, <1>3 DEF KVInv, ReplyInv, Answer
<1>10. FirstInv'
  BY <1>1, <1>3 DEF KVInv, FirstInv
<1>11. ReturnInv'
  <2> SUFFICES ASSUME NEW q \in returned'
               PROVE  /\ \E p \in issued : p.id = q.id
                      /\ \A d \in Clerk : op'[d] # None => op'[d].id # q.id
                      /\ \A p \in issued : p.id = q.id /\ p.type = "Put" =>
                          /\ q.reply.err = "OK" => p.id \in took
                          /\ q.reply.err = "ErrVersion" => p.id \notin took /\ p \notin late
    BY <1>1 DEF ReturnInv
  <2>1. CASE q \in returned
    BY <1>3, <2>1 DEF KVInv, ReturnInv
  <2>2. CASE q = r
    <3>1. \A d \in Clerk \ {c} : op[d] # None => op[d].id # o.id
      BY <1>2 DEF KVInv, OpInv
    <3>2. \A p \in issued : p.id = o.id => p = o
      BY <1>2 DEF KVInv, OpInv
    <3> QED
      BY <1>2, <1>3, <1>4, <1>5, <2>2, <3>1, <3>2
  <2> QED
    BY <1>1, <2>1, <2>2
<1> QED
  BY <1>6, <1>7, <1>8, <1>9, <1>10, <1>11 DEF KVInv

\* Every step keeps the invariant.
LEMMA KVNext == KVInv /\ [Next]_vars => KVInv'
<1> SUFFICES ASSUME KVInv, [Next]_vars PROVE KVInv'
  OBVIOUS
<1>1. ASSUME NEW c \in Clerk, NEW k \in Key, Get(c, k) PROVE KVInv'
  <2> PICK n \in 1..MaxOps :
        Begin(c, n, [id |-> <<c, n>>, type |-> "Get", key |-> k, value |-> None, version |-> 0])
    BY <1>1 DEF Get
  <2> DEFINE o == [id |-> <<c, n>>, type |-> "Get", key |-> k, value |-> None, version |-> 0]
  <2>1. o \in Op /\ o.id = <<c, n>> /\ o.type # "Put"
    BY DEF Op, Id
  <2> HIDE DEF o
  <2> QED
    BY <2>1, KVBegin DEF o
<1>2. ASSUME NEW c \in Clerk, NEW k \in Key, NEW v \in Value, NEW version \in 0..MaxVersion,
             Put(c, k, v, version)
      PROVE  KVInv'
  <2> PICK n \in 1..MaxOps :
        Begin(c, n, [id |-> <<c, n>>, type |-> "Put", key |-> k, value |-> v, version |-> version])
    BY <1>2 DEF Put
  <2> DEFINE o == [id |-> <<c, n>>, type |-> "Put", key |-> k, value |-> v, version |-> version]
  <2>1. o \in Op /\ o.id = <<c, n>> /\ o.value \in Value
    BY DEF Op, Id
  <2> HIDE DEF o
  <2> QED
    BY <2>1, KVBegin DEF o
<1>3. ASSUME NEW c \in Clerk, RequestLost(c) \/ GivenUp(c) \/ ReplyLost(c) PROVE KVInv'
  <2>1. op[c] # None
    BY <1>3 DEF RequestLost, GivenUp, ReplyLost, KVInv, OpInv
  <2>2. Again(c) /\ (late' = late \/ (op[c].type = "Put" /\ late' = late \cup {op[c]}))
    BY <1>3 DEF RequestLost, GivenUp, ReplyLost
  <2> QED
    BY <2>1, <2>2, KVAgain
<1>4. CASE UNCHANGED vars
  BY <1>4 DEF vars, clerkVars, KVInv, TypeOK, OpInv, TookInv, ReplyInv, FirstInv, ReturnInv, Answer
<1> QED
  BY <1>1, <1>2, <1>3, <1>4, KVServerGet, KVServerPut, KVReturn, KVLatePut DEF Next

\* The server and the clerks never store a value of another shape: server.go keeps
\* versions from 1 on, and a reply is always one of those rpc.go declares.
THEOREM KVTypes == Spec => []TypeOK
  BY KVInit, KVNext, PTL DEF Spec, KVInv

\* OK and ErrVersion are definite (client.go:36-54): a Put answered OK has taken
\* effect, and one answered ErrVersion never does, whatever the network still
\* holds, because ErrVersion is passed on only for the first RPC.
THEOREM KVAnswers == Spec => []AnswersAreTrue
<1>1. KVInv => AnswersAreTrue
  BY DEF KVInv, ReturnInv, AnswersAreTrue
<1> QED
  BY <1>1, KVInit, KVNext, PTL DEF Spec

-----------------------------------------------------------------------------
(* At most once *)

\* A step that stores nothing and calls nothing changes no version.
LEMMA SameCount ==
    ASSUME AtMostOnce, UNCHANGED <<data, issued, took>>
    PROVE  AtMostOnce'
  BY DEF AtMostOnce, PutsDone

\* A new operation has not taken effect yet.
LEMMA BeginCount ==
    ASSUME KVInv, AtMostOnce, NEW c \in Clerk, NEW n \in 1..MaxOps, NEW o, o.id = <<c, n>>,
           Begin(c, n, o)
    PROVE  AtMostOnce'
<1>1. /\ issued' = issued \cup {o} /\ UNCHANGED <<data, took>>
      /\ \A p \in issued : p.id # o.id
  BY DEF Begin, Used
<1>2. o.id \notin took
  BY <1>1 DEF KVInv, OpInv
<1>3. \A k : PutsDone(k)' = PutsDone(k)
  BY <1>1, <1>2 DEF PutsDone
<1> QED
  BY <1>1, <1>3 DEF AtMostOnce

\* KVServer.Put counts every Put once: it raises the version by one exactly when
\* the Put joins those that have taken effect.
LEMMA StoreCount ==
    ASSUME KVInv, AtMostOnce, NEW o \in issued, o.type = "Put", Store(o), UNCHANGED issued
    PROVE  AtMostOnce'
<1>1. CASE ~Accepts(o)
  <2>1. UNCHANGED <<data, took>>
    BY <1>1 DEF Store
  <2> QED
    BY <2>1, SameCount
<1>2. CASE Accepts(o)
  <2>1. o.id \notin took /\ took' = took \cup {o.id}
    BY <1>2, StoreStep
  <2>2. data' = [k \in DOMAIN data \cup {o.key} |->
                   IF k = o.key
                   THEN [value |-> o.value,
                         version |-> IF k \in DOMAIN data THEN data[k].version + 1 ELSE 1]
                   ELSE data[k]]
    BY <1>2 DEF Store
  <2>3. \A p \in issued : p.id \in took' <=> p.id \in took \/ p = o
    BY <2>1 DEF KVInv, OpInv
  <2> DEFINE Counted(k, n, P) ==
               \A p \in P : /\ p.version < n
                            /\ \A v \in p.version..n - 1 :
                                 \E q \in P : q.version = v /\ \A r \in P : r.version = v => r = q
  <2> SUFFICES ASSUME NEW k \in DOMAIN data' PROVE Counted(k, data'[k].version, PutsDone(k)')
    BY DEF AtMostOnce
  <2>4. k \in DOMAIN data => Counted(k, data[k].version, PutsDone(k))
    BY DEF AtMostOnce
  <2>5. CASE k # o.key
    <3>1. PutsDone(k)' = PutsDone(k)
      BY <2>3, <2>5 DEF PutsDone
    <3>2. k \in DOMAIN data /\ data'[k] = data[k]
      BY <2>2, <2>5
    <3> QED
      BY <2>4, <3>1, <3>2
  <2>6. CASE k = o.key
    <3>1. PutsDone(k)' = PutsDone(k) \cup {o}
      BY <2>1, <2>3, <2>6 DEF PutsDone
    <3>2. \A p \in PutsDone(k) : k \in DOMAIN data /\ p.version \in Nat
      BY DEF KVInv, TookInv, TypeOK, Op, PutsDone
    <3>3. /\ o.version \in Nat /\ data'[k].version = o.version + 1
          /\ k \in DOMAIN data => data[k].version = o.version
      <4>1. o.version \in Nat
        BY DEF KVInv, TypeOK, Op
      <4>2. data'[k].version = IF k \in DOMAIN data THEN data[k].version + 1 ELSE 1
        BY <2>2, <2>6
      <4> QED
        BY <1>2, <2>6, <4>1, <4>2 DEF Accepts
    <3>4. Counted(k, o.version, PutsDone(k))
      BY <2>4, <3>2, <3>3
    <3> DEFINE P == PutsDone(k)
               n == o.version
    <3>5. Counted(k, n + 1, P \cup {o})
      <4> HIDE DEF P
      <4>1. \A p \in P : p.version \in Nat /\ p.version < n
        BY <3>2, <3>4 DEF P
      <4> SUFFICES ASSUME NEW p \in P \cup {o}, NEW v \in p.version..n
                   PROVE  \E q \in P \cup {o} :
                            q.version = v /\ \A r \in P \cup {o} : r.version = v => r = q
        BY <3>3, <4>1
      <4>2. p.version \in Nat /\ v \in Nat
        BY <3>3, <4>1
      <4>3. CASE v = n
        BY <4>1, <4>3
      <4>4. CASE v # n
        <5>1. p \in P /\ v \in p.version..n - 1
          BY <3>3, <4>2, <4>4
        <5>2. PICK q \in P : q.version = v /\ \A r \in P : r.version = v => r = q
          BY <3>4, <5>1 DEF P
        <5> QED
          BY <4>4, <5>2
      <4> QED
        BY <4>3, <4>4
    <3> QED
      BY <3>1, <3>3, <3>5
  <2> QED
    BY <2>5, <2>6
<1> QED
  BY <1>1, <1>2

\* Every version of a key is due to exactly one Put (server.go:63-75): however
\* often the clerk repeats a Put, and however many of its handlers run, late ones
\* included, it is stored at most once.
THEOREM KVAtMostOnce == Spec => []AtMostOnce
<1>1. Init => AtMostOnce
  BY DEF Init, AtMostOnce, PutsDone
<1>2. KVInv /\ AtMostOnce /\ [Next]_vars => AtMostOnce'
  <2> SUFFICES ASSUME KVInv, AtMostOnce, [Next]_vars PROVE AtMostOnce'
    OBVIOUS
  <2>1. ASSUME NEW c \in Clerk, NEW k \in Key, Get(c, k) PROVE AtMostOnce'
    <3> PICK n \in 1..MaxOps :
          Begin(c, n, [id |-> <<c, n>>, type |-> "Get", key |-> k, value |-> None, version |-> 0])
      BY <2>1 DEF Get
    <3> QED
      BY BeginCount
  <2>2. ASSUME NEW c \in Clerk, NEW k \in Key, NEW v \in Value, NEW version \in 0..MaxVersion,
               Put(c, k, v, version)
        PROVE  AtMostOnce'
    <3> PICK n \in 1..MaxOps :
          Begin(c, n, [id |-> <<c, n>>, type |-> "Put", key |-> k, value |-> v, version |-> version])
      BY <2>2 DEF Put
    <3> QED
      BY BeginCount
  <2>3. ASSUME NEW c \in Clerk, ServerPut(c) PROVE AtMostOnce'
    <3>1. op[c] \in issued /\ op[c].type = "Put" /\ Store(op[c]) /\ UNCHANGED issued
      BY <2>3 DEF ServerPut, KVInv, OpInv
    <3> QED
      BY <3>1, StoreCount
  <2>4. ASSUME NEW o \in late, LatePut(o) PROVE AtMostOnce'
    <3>1. o \in issued /\ o.type = "Put" /\ Store(o) /\ UNCHANGED issued
      BY <2>4 DEF LatePut, KVInv, OpInv
    <3> QED
      BY <3>1, StoreCount
  <2>5. ASSUME NEW c \in Clerk,
               ServerGet(c) \/ RequestLost(c) \/ GivenUp(c) \/ ReplyLost(c) \/ Return(c)
        PROVE  AtMostOnce'
    BY <2>5, SameCount DEF ServerGet, RequestLost, GivenUp, ReplyLost, Again, Return
  <2>6. CASE UNCHANGED vars
    BY <2>6, SameCount DEF vars
  <2> QED
    BY <2>1, <2>2, <2>3, <2>4, <2>5, <2>6 DEF Next
<1> QED
  BY <1>1, <1>2, KVInit, KVNext, PTL DEF Spec

-----------------------------------------------------------------------------
(* Refinement *)

\* A Put that does not wait for its handler names an older version than the one
\* its key has, so that no copy of it takes effect after its answer; and no Put
\* is answered ErrNoKey.
KnownInv ==
    /\ \A o \in issued : o.type = "Put" =>
        \/ o.version < Abstract!VersionOf(data, o.key)
        \/ \E c \in Clerk : op[c] = o /\ call[c] = "request"
    /\ \A c \in Clerk : call[c] = "reply" /\ op[c].type = "Put" => reply[c].err # "ErrNoKey"

\* A step that decides about the operation of clerk c only.
LEMMA OneOutcome ==
    ASSUME NEW c \in Clerk, NEW x, Outcome(c)' = x,
           \A d \in Clerk \ {c} : Outcome(d)' = Outcome(d)
    PROVE  [d \in Clerk |-> Outcome(d)]' = [[d \in Clerk |-> Outcome(d)] EXCEPT ![c] = x]
  OBVIOUS

\* A step that decides nothing.
LEMMA NoOutcome ==
    ASSUME \A d \in Clerk : Outcome(d)' = Outcome(d)
    PROVE  [d \in Clerk |-> Outcome(d)]' = [d \in Clerk |-> Outcome(d)]
  OBVIOUS

\* A clerk calls Get or Put.
LEMMA BeginRefines ==
    ASSUME KVInv, NEW c \in Clerk, NEW n \in 1..MaxOps, NEW o \in Op, o.id = <<c, n>>,
           Begin(c, n, o)
    PROVE  Abstract!Next
<1>1. /\ op' = [op EXCEPT ![c] = o] /\ issued' = issued \cup {o}
      /\ call' = [call EXCEPT ![c] = "request"]
      /\ UNCHANGED <<data, reply, took, returned>>
      /\ op[c] = None /\ \A p \in issued : p.id # o.id
  BY DEF Begin, Used
<1>2. o.id \notin took /\ o # None
  BY <1>1, NoneAssumption DEF KVInv, OpInv
<1>3. /\ \A d \in Clerk \ {c} : op'[d] = op[d] /\ call'[d] = call[d]
      /\ op'[c] = o /\ call'[c] = "request"
  BY <1>1 DEF KVInv, TypeOK
<1>4. \A d \in Clerk : Outcome(d)' = Outcome(d)
  BY <1>1, <1>2, <1>3 DEF Outcome, Answer
<1>5. [d \in Clerk |-> Outcome(d)]' = [d \in Clerk |-> Outcome(d)]
  BY <1>4, NoOutcome
<1>6. o \in Abstract!Operation
  <2>1. 1..MaxOps \subseteq Nat
    OBVIOUS
  <2> QED
    BY <2>1 DEF Op, Id, Abstract!Operation
<1>7. Abstract!Call(c, o)
  BY <1>1, <1>5, <1>6 DEF Abstract!Call
<1>8. o \in issued'
  BY <1>1
<1> QED
  BY <1>7, <1>8 DEF Abstract!Next

\* A clerk calls Get.
LEMMA GetCallRefines ==
    ASSUME KVInv, NEW c \in Clerk, NEW k \in Key, Get(c, k)
    PROVE  Abstract!Next
<1> DEFINE o(n) == [id |-> <<c, n>>, type |-> "Get", key |-> k, value |-> None, version |-> 0]
<1>1. PICK n \in 1..MaxOps : Begin(c, n, o(n))
  BY DEF Get
<1>2. o(n) \in Op /\ o(n).id = <<c, n>>
  BY DEF Op, Id
<1> HIDE DEF o
<1> QED
  BY <1>1, <1>2, BeginRefines

\* A clerk calls Put.
LEMMA PutCallRefines ==
    ASSUME KVInv, NEW c \in Clerk, NEW k \in Key, NEW v \in Value, NEW version \in Nat,
           Put(c, k, v, version)
    PROVE  Abstract!Next
<1> DEFINE o(n) == [id |-> <<c, n>>, type |-> "Put", key |-> k, value |-> v, version |-> version]
<1>1. PICK n \in 1..MaxOps : Begin(c, n, o(n))
  BY DEF Put
<1>2. o(n) \in Op /\ o(n).id = <<c, n>>
  BY DEF Op, Id
<1> HIDE DEF o
<1> QED
  BY <1>1, <1>2, BeginRefines

\* The handler of Get reads the store.
LEMMA GetRefines ==
    ASSUME KVInv, NEW c \in Clerk, ServerGet(c)
    PROVE  Abstract!Read(c)
<1>1. /\ call' = [call EXCEPT ![c] = "reply"] /\ reply' = [reply EXCEPT ![c] = GetReply(op[c])]
      /\ UNCHANGED <<data, op, issued, took, returned>>
      /\ call[c] = "request" /\ op[c].type = "Get"
  BY DEF ServerGet
<1>2. op[c] # None /\ op[c].id \notin took
  BY <1>1 DEF KVInv, OpInv, TookInv
<1>3. /\ \A d \in Clerk \ {c} : call'[d] = call[d] /\ reply'[d] = reply[d]
      /\ call'[c] = "reply" /\ reply'[c] = GetReply(op[c])
  BY <1>1 DEF KVInv, TypeOK
<1>4. GetReply(op[c]) = Abstract!Lookup(data, op[c].key)
  BY DEF GetReply, Abstract!Lookup, Answer, Abstract!Answer
<1>5. Outcome(c)' = Abstract!Lookup(data, op[c].key)
  BY <1>1, <1>2, <1>3, <1>4 DEF Outcome
<1>6. \A d \in Clerk \ {c} : Outcome(d)' = Outcome(d)
  BY <1>1, <1>3 DEF Outcome, Answer
<1>7. [d \in Clerk |-> Outcome(d)]'
        = [[d \in Clerk |-> Outcome(d)] EXCEPT ![c] = Abstract!Lookup(data, op[c].key)]
  BY <1>5, <1>6, OneOutcome
<1> QED
  BY <1>1, <1>2, <1>7 DEF Abstract!Read, Abstract!Pending

\* Accepting the Put that clerk c is in is the step in which it takes effect.
LEMMA EffectRefines ==
    ASSUME KVInv, NEW c \in Clerk, call[c] = "request", op[c].type = "Put",
           Store(op[c]), Accepts(op[c]), UNCHANGED <<op, issued, returned>>,
           \A d \in Clerk \ {c} : call'[d] = call[d] /\ reply'[d] = reply[d]
    PROVE  Abstract!TakeEffect(c)
<1> DEFINE o == op[c]
<1>1. o # None /\ o \in issued
  BY DEF KVInv, OpInv
<1>2. o.id \notin took /\ took' = took \cup {o.id}
  BY <1>1, StoreStep
<1>3. Abstract!Matches(data, o)
  BY DEF Accepts, Abstract!Matches, Abstract!VersionOf
<1>4. data' = Abstract!Update(data, o)
  BY DEF Store, Abstract!Update, Abstract!VersionOf
<1>5. \A d \in Clerk \ {c} : op[d] # None => op[d].id # o.id
  BY <1>1 DEF KVInv, OpInv
<1>6. \A d \in Clerk \ {c} : Outcome(d)' = Outcome(d)
  BY <1>2, <1>5 DEF Outcome, Answer
<1>7. Outcome(c)' = Abstract!Answer("OK")
  BY <1>1, <1>2 DEF Outcome, Answer, Abstract!Answer
<1>8. [d \in Clerk |-> Outcome(d)]'
        = [[d \in Clerk |-> Outcome(d)] EXCEPT ![c] = Abstract!Answer("OK")]
  BY <1>6, <1>7, OneOutcome
<1> QED
  BY <1>1, <1>2, <1>3, <1>4, <1>8 DEF Abstract!TakeEffect, Abstract!Pending

\* The handler of Put: it takes effect, is refused, or is a copy of one that took
\* effect before.
LEMMA PutRefines ==
    ASSUME KVInv, NEW c \in Clerk, ServerPut(c)
    PROVE  Abstract!TakeEffect(c) \/ Abstract!Refuse(c) \/ UNCHANGED Abstract!vars
<1> DEFINE o == op[c]
<1>1. /\ call' = [call EXCEPT ![c] = "reply"] /\ reply' = [reply EXCEPT ![c] = PutReply(o)]
      /\ UNCHANGED <<op, issued, returned>>
      /\ call[c] = "request" /\ o.type = "Put" /\ Store(o)
  BY DEF ServerPut
<1>2. o # None /\ o \in issued
  BY <1>1 DEF KVInv, OpInv
<1>3. /\ \A d \in Clerk \ {c} : call'[d] = call[d] /\ reply'[d] = reply[d]
      /\ call'[c] = "reply" /\ reply'[c] = PutReply(o)
  BY <1>1 DEF KVInv, TypeOK
<1>4. CASE Accepts(o)
  BY <1>1, <1>3, <1>4, EffectRefines
<1>5. CASE ~Accepts(o)
  <2>1. UNCHANGED <<data, took>>
    BY <1>1, <1>5 DEF Store
  <2>2. \A d \in Clerk \ {c} : Outcome(d)' = Outcome(d)
    BY <1>1, <1>3, <2>1 DEF Outcome, Answer
  <2>3. CASE o.id \in took
    <3>1. Outcome(c)' = Outcome(c)
      BY <1>1, <1>2, <2>1, <2>3 DEF Outcome, Answer
    <3>2. [d \in Clerk |-> Outcome(d)]' = [d \in Clerk |-> Outcome(d)]
      BY <2>2, <3>1, NoOutcome
    <3> QED
      BY <1>1, <2>1, <3>2 DEF Abstract!vars
  <2>4. CASE o.id \notin took
    <3>1. Outcome(c)' = Abstract!Answer("ErrVersion")
      BY <1>1, <1>2, <1>3, <2>1, <2>4 DEF Outcome, Answer, Abstract!Answer
    <3>2. [d \in Clerk |-> Outcome(d)]'
            = [[d \in Clerk |-> Outcome(d)] EXCEPT ![c] = Abstract!Answer("ErrVersion")]
      BY <2>2, <3>1, OneOutcome
    <3>3. ~Abstract!Matches(data, o)
      <4>1. o.version \in Nat
        BY <1>2 DEF KVInv, TypeOK, Op
      <4> QED
        BY <1>5, <4>1 DEF Accepts, Abstract!Matches, Abstract!VersionOf
    <3> QED
      BY <1>1, <1>2, <2>1, <2>4, <3>2, <3>3 DEF Abstract!Refuse, Abstract!Pending
  <2> QED
    BY <2>3, <2>4
<1> QED
  BY <1>4, <1>5

\* A handler that outlived its call: if it is accepted, its clerk still waits for
\* an answer to the same Put.
LEMMA LateRefines ==
    ASSUME KVInv, KnownInv, NEW o \in late, LatePut(o)
    PROVE  (\E c \in Clerk : Abstract!TakeEffect(c)) \/ UNCHANGED Abstract!vars
<1>1. /\ Store(o) /\ UNCHANGED <<op, first, call, reply, issued, returned>>
  BY DEF LatePut, clerkVars
<1>2. o \in issued /\ o.type = "Put" /\ o.version \in Nat
  BY DEF KVInv, OpInv, TypeOK, Op
<1>3. CASE Accepts(o)
  <2>1. o.version = Abstract!VersionOf(data, o.key)
    BY <1>3 DEF Accepts, Abstract!VersionOf
  <2>2. PICK c \in Clerk : op[c] = o /\ call[c] = "request"
    BY <1>2, <2>1 DEF KnownInv
  <2>3. Abstract!TakeEffect(c)
    BY <1>1, <1>2, <1>3, <2>2, EffectRefines
  <2> QED
    BY <2>3
<1>4. CASE ~Accepts(o)
  <2>1. UNCHANGED <<data, took>>
    BY <1>1, <1>4 DEF Store
  <2>2. \A d \in Clerk : Outcome(d)' = Outcome(d)
    BY <1>1, <2>1 DEF Outcome, Answer
  <2>3. [d \in Clerk |-> Outcome(d)]' = [d \in Clerk |-> Outcome(d)]
    BY <2>2, NoOutcome
  <2> QED
    BY <1>1, <2>1, <2>3 DEF Abstract!vars
<1> QED
  BY <1>3, <1>4

\* A call fails: at most a refusal or a reading is lost.
LEMMA AgainRefines ==
    ASSUME KVInv, NEW c \in Clerk, op[c] # None, Again(c)
    PROVE  Abstract!Forget(c) \/ UNCHANGED Abstract!vars
<1>1. /\ call' = [call EXCEPT ![c] = "request"] /\ reply' = [reply EXCEPT ![c] = None]
      /\ UNCHANGED <<data, op, issued, took, returned>>
  BY DEF Again
<1>2. /\ \A d \in Clerk \ {c} : call'[d] = call[d] /\ reply'[d] = reply[d]
      /\ call'[c] = "request" /\ op[c].type \in {"Get", "Put"}
  BY <1>1 DEF KVInv, TypeOK, Op
<1>3. \A d \in Clerk \ {c} : Outcome(d)' = Outcome(d)
  BY <1>1, <1>2 DEF Outcome, Answer
<1>4. CASE op[c].id \in took
  <2>1. Outcome(c)' = Outcome(c)
    BY <1>1, <1>4 DEF Outcome, Answer
  <2>2. [d \in Clerk |-> Outcome(d)]' = [d \in Clerk |-> Outcome(d)]
    BY <1>3, <2>1, NoOutcome
  <2> QED
    BY <1>1, <2>2 DEF Abstract!vars
<1>5. CASE op[c].id \notin took
  <2>1. Outcome(c)' = None
    BY <1>1, <1>2, <1>5 DEF Outcome
  <2>2. [d \in Clerk |-> Outcome(d)]' = [[d \in Clerk |-> Outcome(d)] EXCEPT ![c] = None]
    BY <1>3, <2>1, OneOutcome
  <2>3. \E t \in {"Get", "Put"} : Abstract!Pending(c, t)
    BY <1>2, <1>5 DEF Abstract!Pending
  <2> QED
    BY <1>1, <2>2, <2>3 DEF Abstract!Forget
<1> QED
  BY <1>4, <1>5

\* What the clerk returns is an answer that the sequential model allows.
LEMMA AllowedAnswer ==
    ASSUME KVInv, KnownInv, NEW c \in Clerk, call[c] = "reply"
    PROVE  Outcome(c) # None /\ Result(c) \in Abstract!MayReturn(c)
<1>1. /\ op[c] # None /\ op[c] \in issued /\ reply[c] # None /\ reply[c] \in Reply
      /\ op[c] \in Op
  BY DEF KVInv, OpInv, ReplyInv, TypeOK
<1>2. op[c].type \in {"Get", "Put"}
  BY <1>1 DEF Op
<1>3. \A e \in {"OK", "ErrVersion"} : Answer(e) # None
  <2>1. \A e \in {"OK", "ErrVersion"} : Answer(e) \in Reply
    BY DEF Answer, Reply
  <2> QED
    BY <2>1, NoneAssumption
<1>4. [d \in Clerk |-> Outcome(d)][c] = Outcome(c)
  OBVIOUS
<1>5. \A e : Abstract!Answer(e) = Answer(e) /\ Answer(e).err = e
  BY DEF Answer, Abstract!Answer
<1>6. CASE op[c].type = "Get"
  <2>1. op[c].id \notin took
    BY <1>1, <1>6 DEF KVInv, TookInv
  <2>2. Outcome(c) = reply[c] /\ Result(c) = reply[c]
    BY <1>1, <1>6, <2>1 DEF Outcome, Result
  <2> QED
    BY <1>1, <1>4, <2>2 DEF Abstract!MayReturn
<1>7. CASE op[c].type = "Put"
  <2>1. PICK err \in {"OK", "ErrVersion"} : reply[c] = Answer(err)
    BY <1>5, <1>7 DEF KVInv, ReplyInv, KnownInv
  <2>2. reply[c].err = err
    BY <2>1, <1>5
  <2>3. Result(c) = IF err = "ErrVersion" /\ ~first[c] THEN Answer("ErrMaybe") ELSE Answer(err)
    BY <1>7, <2>1, <2>2 DEF Result
  <2>4. Abstract!MayReturn(c) = {Outcome(c), Answer("ErrMaybe")}
    BY <1>4, <1>5, <1>7 DEF Abstract!MayReturn
  <2>5. CASE op[c].id \in took
    <3>1. Outcome(c) = Answer("OK")
      BY <1>1, <2>5 DEF Outcome
    <3>2. err = "ErrVersion" => ~first[c]
      BY <1>1, <2>2, <2>5 DEF KVInv, FirstInv
    <3> QED
      BY <1>3, <2>1, <2>3, <2>4, <3>1, <3>2
  <2>6. CASE op[c].id \notin took
    <3>1. err # "OK"
      BY <1>7, <2>2, <2>6 DEF KVInv, ReplyInv
    <3>2. Outcome(c) = Answer("ErrVersion")
      BY <1>1, <1>7, <2>6 DEF Outcome
    <3> QED
      BY <1>3, <2>1, <2>3, <2>4, <3>1, <3>2
  <2> QED
    BY <2>5, <2>6
<1> QED
  BY <1>2, <1>6, <1>7

\* A clerk's method returns.
LEMMA ReturnRefines ==
    ASSUME KVInv, KnownInv, NEW c \in Clerk, Return(c)
    PROVE  Abstract!Return(c)
<1>1. /\ returned' = returned \cup {[id |-> op[c].id, reply |-> Result(c)]}
      /\ op' = [op EXCEPT ![c] = None]
      /\ call' = [call EXCEPT ![c] = "none"] /\ reply' = [reply EXCEPT ![c] = None]
      /\ UNCHANGED <<data, issued, took>>
      /\ call[c] = "reply"
  BY DEF Return
<1>2. op[c] # None
  BY <1>1 DEF KVInv, OpInv
<1>3. Outcome(c) # None /\ Result(c) \in Abstract!MayReturn(c)
  BY <1>1, AllowedAnswer
<1>4. /\ \A d \in Clerk \ {c} : op'[d] = op[d] /\ call'[d] = call[d] /\ reply'[d] = reply[d]
      /\ op'[c] = None
  BY <1>1 DEF KVInv, TypeOK
<1>5. Outcome(c)' = None
  BY <1>4 DEF Outcome
<1>6. \A d \in Clerk \ {c} : Outcome(d)' = Outcome(d)
  BY <1>1, <1>4 DEF Outcome, Answer
<1>7. [d \in Clerk |-> Outcome(d)]' = [[d \in Clerk |-> Outcome(d)] EXCEPT ![c] = None]
  BY <1>5, <1>6, OneOutcome
<1>8. [d \in Clerk |-> Outcome(d)][c] # None
  BY <1>3
<1> QED
  BY <1>1, <1>2, <1>3, <1>7, <1>8 DEF Abstract!Return

\* A step that leaves server and clerks alone leaves the store alone.
LEMMA StutterRefines ==
    ASSUME UNCHANGED vars
    PROVE  UNCHANGED Abstract!vars
<1>1. UNCHANGED <<data, op, call, reply, issued, took, returned>>
  BY DEF vars, clerkVars
<1>2. \A d \in Clerk : Outcome(d)' = Outcome(d)
  BY <1>1 DEF Outcome, Answer
<1>3. [d \in Clerk |-> Outcome(d)]' = [d \in Clerk |-> Outcome(d)]
  BY <1>2, NoOutcome
<1> QED
  BY <1>1, <1>3 DEF Abstract!vars

\* A handler's run, a failed call or an answer is a step of the store or leaves it
\* as it is.
LEMMA ServiceRefines ==
    ASSUME KVInv, KnownInv,
           \/ \E c \in Clerk : \/ ServerGet(c) \/ ServerPut(c)
                               \/ RequestLost(c) \/ GivenUp(c) \/ ReplyLost(c)
                               \/ Return(c)
           \/ \E o \in late : LatePut(o)
    PROVE  Abstract!Next \/ UNCHANGED Abstract!vars
<1>1. ASSUME NEW c \in Clerk, ServerGet(c) PROVE Abstract!Next
  BY <1>1, GetRefines DEF Abstract!Next
<1>2. ASSUME NEW c \in Clerk, ServerPut(c) PROVE Abstract!Next \/ UNCHANGED Abstract!vars
  BY <1>2, PutRefines DEF Abstract!Next
<1>3. ASSUME NEW o \in late, LatePut(o) PROVE Abstract!Next \/ UNCHANGED Abstract!vars
  BY <1>3, LateRefines DEF Abstract!Next
<1>4. ASSUME NEW c \in Clerk, RequestLost(c) \/ GivenUp(c) \/ ReplyLost(c)
      PROVE  Abstract!Next \/ UNCHANGED Abstract!vars
  <2>1. op[c] # None /\ Again(c)
    BY <1>4 DEF RequestLost, GivenUp, ReplyLost, KVInv, OpInv
  <2> QED
    BY <2>1, AgainRefines DEF Abstract!Next
<1>5. ASSUME NEW c \in Clerk, Return(c) PROVE Abstract!Next
  BY <1>5, ReturnRefines DEF Abstract!Next
<1> QED
  BY <1>1, <1>2, <1>3, <1>4, <1>5

\* Every step of the server, the clerks and the network is a step of the store or
\* leaves it as it is.
LEMMA StepRefines == KVInv /\ KnownInv /\ [Next]_vars => [Abstract!Next]_(Abstract!vars)
<1> SUFFICES ASSUME KVInv, KnownInv, [Next]_vars PROVE Abstract!Next \/ UNCHANGED Abstract!vars
  OBVIOUS
<1>1. ASSUME NEW c \in Clerk, NEW k \in Key, Get(c, k) PROVE Abstract!Next
  BY <1>1, GetCallRefines
<1>2. ASSUME NEW c \in Clerk, NEW k \in Key, NEW v \in Value, NEW version \in 0..MaxVersion,
             Put(c, k, v, version)
      PROVE  Abstract!Next
  <2>1. version \in Nat
    OBVIOUS
  <2> QED
    BY <1>2, <2>1, PutCallRefines
<1>3. CASE UNCHANGED vars
  BY <1>3, StutterRefines
<1> QED
  BY <1>1, <1>2, <1>3, ServiceRefines DEF Next

\* KVServer.Put never lowers the version of a key, and leaves a newer one behind
\* than the Put names.
LEMMA VersionsGrow ==
    ASSUME KVInv, NEW o \in issued, o.type = "Put", Store(o),
           o.version <= Abstract!VersionOf(data, o.key)
    PROVE  /\ \A k \in Key : /\ Abstract!VersionOf(data, k) \in Nat
                             /\ Abstract!VersionOf(data', k) \in Nat
                             /\ Abstract!VersionOf(data, k) <= Abstract!VersionOf(data', k)
           /\ o.version < Abstract!VersionOf(data', o.key)
           /\ Accepts(o) \/ o.key \in DOMAIN data
<1>1. o.version \in Nat /\ o.key \in Key
  BY DEF KVInv, TypeOK, Op
<1>2. \A k \in DOMAIN data : data[k].version \in Nat
  BY DataType DEF KVInv
<1>3. CASE Accepts(o)
  <2>1. /\ DOMAIN data' = DOMAIN data \cup {o.key}
        /\ data'[o.key].version = IF o.key \in DOMAIN data THEN data[o.key].version + 1 ELSE 1
        /\ \A k \in DOMAIN data \ {o.key} : data'[k] = data[k]
    BY <1>3 DEF Store
  <2> QED
    BY <1>1, <1>2, <1>3, <2>1 DEF Accepts, Abstract!VersionOf
<1>4. CASE ~Accepts(o)
  <2>1. data' = data
    BY <1>4 DEF Store
  <2> QED
    BY <1>1, <1>2, <1>4, <2>1 DEF Accepts, Abstract!VersionOf
<1> QED
  BY <1>3, <1>4

\* As long as clients name versions that their keys have or had, every step keeps
\* KnownInv.
LEMMA KnownNext == KVInv /\ NamesKnown /\ KnownInv /\ [Next]_vars => KnownInv'
<1> SUFFICES ASSUME KVInv, NamesKnown, KnownInv, [Next]_vars PROVE KnownInv'
  OBVIOUS
<1> DEFINE V(k) == Abstract!VersionOf(data, k)
           Older(o) == o.version < V(o.key)
           Waiting(o) == \E c \in Clerk : op[c] = o /\ call[c] = "request"
           NoKey(c) == call[c] = "reply" /\ op[c].type = "Put" /\ reply[c].err = "ErrNoKey"
<1>1. /\ \A o \in issued : o.type = "Put" => Older(o) \/ Waiting(o)
      /\ \A c \in Clerk : ~NoKey(c)
  BY DEF KnownInv
<1> SUFFICES /\ \A o \in issued' : o.type = "Put" => Older(o)' \/ Waiting(o)'
             /\ \A c \in Clerk : ~NoKey(c)'
  BY DEF KnownInv
<1>2. \A o \in issued : o.version \in Nat /\ o.key \in Key
  BY DEF KVInv, TypeOK, Op
<1>3. /\ DOMAIN op = Clerk /\ DOMAIN call = Clerk /\ DOMAIN reply = Clerk
  BY DEF KVInv, TypeOK
<1>4. ASSUME NEW c \in Clerk, NEW n \in 1..MaxOps, NEW o, o.id = <<c, n>>, Begin(c, n, o)
      PROVE  /\ \A p \in issued' : p.type = "Put" => Older(p)' \/ Waiting(p)'
             /\ \A d \in Clerk : ~NoKey(d)'
  <2>1. /\ op' = [op EXCEPT ![c] = o] /\ issued' = issued \cup {o}
        /\ call' = [call EXCEPT ![c] = "request"]
        /\ UNCHANGED <<data, reply>> /\ op[c] = None
    BY <1>4 DEF Begin
  <2>2. call[c] = "none"
    BY <2>1 DEF KVInv, OpInv
  <2>3. /\ op'[c] = o /\ call'[c] = "request"
        /\ \A d \in Clerk \ {c} : op'[d] = op[d] /\ call'[d] = call[d] /\ reply'[d] = reply[d]
    BY <1>3, <2>1
  <2>4. \A p \in issued : (Older(p)' <=> Older(p)) /\ (Waiting(p) => Waiting(p)')
    BY <2>1, <2>2, <2>3
  <2>5. Waiting(o)'
    BY <2>3
  <2>6. \A d \in Clerk : ~NoKey(d)'
    BY <1>1, <2>3
  <2> HIDE DEF Older, Waiting, NoKey
  <2> QED
    BY <1>1, <2>1, <2>4, <2>5, <2>6
<1>5. ASSUME NEW c \in Clerk, NEW k \in Key, Get(c, k)
      PROVE  /\ \A p \in issued' : p.type = "Put" => Older(p)' \/ Waiting(p)'
             /\ \A d \in Clerk : ~NoKey(d)'
  <2> DEFINE o(n) == [id |-> <<c, n>>, type |-> "Get", key |-> k, value |-> None, version |-> 0]
  <2>1. PICK n \in 1..MaxOps : Begin(c, n, o(n))
    BY <1>5 DEF Get
  <2>2. o(n).id = <<c, n>>
    OBVIOUS
  <2> HIDE DEF o, Older, Waiting, NoKey
  <2> QED
    BY <1>4, <2>1, <2>2
<1>6. ASSUME NEW c \in Clerk, NEW k \in Key, NEW v, NEW version, Put(c, k, v, version)
      PROVE  /\ \A p \in issued' : p.type = "Put" => Older(p)' \/ Waiting(p)'
             /\ \A d \in Clerk : ~NoKey(d)'
  <2> DEFINE o(n) == [id |-> <<c, n>>, type |-> "Put", key |-> k, value |-> v, version |-> version]
  <2>1. PICK n \in 1..MaxOps : Begin(c, n, o(n))
    BY <1>6 DEF Put
  <2>2. o(n).id = <<c, n>>
    OBVIOUS
  <2> HIDE DEF o, Older, Waiting, NoKey
  <2> QED
    BY <1>4, <2>1, <2>2
<1>7. ASSUME NEW o \in issued, o.type = "Put", Store(o), UNCHANGED <<op, issued>>
      PROVE  Older(o)' /\ \A p \in issued : Older(p) => Older(p)'
  <2>1. o.version <= V(o.key)
    BY <1>7 DEF NamesKnown
  <2>2. /\ \A k \in Key : /\ V(k) \in Nat /\ Abstract!VersionOf(data', k) \in Nat
                          /\ V(k) <= Abstract!VersionOf(data', k)
        /\ o.version < Abstract!VersionOf(data', o.key)
    BY <1>7, <2>1, VersionsGrow
  <2>3. \A k : V(k)' = Abstract!VersionOf(data', k)
    BY DEF Abstract!VersionOf
  <2> HIDE DEF V
  <2> QED
    BY <1>2, <2>2, <2>3
<1>8. ASSUME NEW c \in Clerk, ServerPut(c)
      PROVE  /\ \A p \in issued' : p.type = "Put" => Older(p)' \/ Waiting(p)'
             /\ \A d \in Clerk : ~NoKey(d)'
  <2>1. /\ call' = [call EXCEPT ![c] = "reply"] /\ reply' = [reply EXCEPT ![c] = PutReply(op[c])]
        /\ UNCHANGED <<op, issued>> /\ op[c].type = "Put" /\ Store(op[c]) /\ call[c] = "request"
    BY <1>8 DEF ServerPut
  <2>2. op[c] \in issued
    BY <2>1 DEF KVInv, OpInv
  <2>3. Older(op[c])' /\ \A p \in issued : Older(p) => Older(p)'
    <3> HIDE DEF Older
    <3>1. PICK o \in issued : o = op[c]
      BY <2>2
    <3>2. Older(o)' /\ \A p \in issued : Older(p) => Older(p)'
      BY <1>7, <2>1, <3>1
    <3>3. op[c]' = o
      BY <2>1, <3>1
    <3> QED
      BY <3>2, <3>3 DEF Older
  <2>4. /\ call'[c] = "reply" /\ reply'[c] = PutReply(op[c])
        /\ \A d \in Clerk \ {c} : call'[d] = call[d] /\ reply'[d] = reply[d]
    BY <1>3, <2>1
  <2>5. \A p \in issued : Waiting(p) => p = op[c] \/ Waiting(p)'
    BY <2>1, <2>4
  <2>6. PutReply(op[c]).err # "ErrNoKey"
    <3>1. Accepts(op[c]) \/ op[c].key \in DOMAIN data
      BY <2>1, <2>2, VersionsGrow DEF NamesKnown
    <3> QED
      BY <3>1 DEF PutReply, Answer
  <2>7. \A d \in Clerk : ~NoKey(d)'
    BY <1>1, <2>1, <2>4, <2>6
  <2>8. op[c]' = op[c]
    BY <2>1
  <2> HIDE DEF Waiting, NoKey
  <2> QED
    BY <1>1, <2>1, <2>3, <2>5, <2>7, <2>8
<1>9. ASSUME NEW o \in late, LatePut(o)
      PROVE  /\ \A p \in issued' : p.type = "Put" => Older(p)' \/ Waiting(p)'
             /\ \A d \in Clerk : ~NoKey(d)'
  <2>1. Store(o) /\ UNCHANGED <<op, call, reply, issued>> /\ o \in issued /\ o.type = "Put"
    BY <1>9 DEF LatePut, clerkVars, KVInv, OpInv
  <2>2. \A p \in issued : Older(p) => Older(p)'
    BY <1>7, <2>1
  <2> QED
    BY <1>1, <2>1, <2>2
<1>10. ASSUME NEW c \in Clerk, ServerGet(c) \/ RequestLost(c) \/ GivenUp(c) \/ ReplyLost(c)
       PROVE  /\ \A p \in issued' : p.type = "Put" => Older(p)' \/ Waiting(p)'
              /\ \A d \in Clerk : ~NoKey(d)'
  <2>1. /\ UNCHANGED <<data, op, issued>>
        /\ \A d \in Clerk \ {c} : call'[d] = call[d] /\ reply'[d] = reply[d]
        /\ call'[c] = "request" \/ op[c].type = "Get"
    BY <1>3, <1>10 DEF ServerGet, RequestLost, GivenUp, ReplyLost, Again
  <2>2. \A p \in issued : (Older(p)' <=> Older(p)) /\ (p.type = "Put" /\ Waiting(p) => Waiting(p)')
    BY <2>1
  <2>3. \A d \in Clerk : ~NoKey(d)'
    BY <1>1, <2>1
  <2> HIDE DEF Older, Waiting, NoKey
  <2> QED
    BY <1>1, <2>1, <2>2, <2>3
<1>11. ASSUME NEW c \in Clerk, Return(c)
       PROVE  /\ \A p \in issued' : p.type = "Put" => Older(p)' \/ Waiting(p)'
              /\ \A d \in Clerk : ~NoKey(d)'
  <2>1. /\ op' = [op EXCEPT ![c] = None] /\ call' = [call EXCEPT ![c] = "none"]
        /\ reply' = [reply EXCEPT ![c] = None]
        /\ UNCHANGED <<data, issued>> /\ call[c] = "reply"
    BY <1>11 DEF Return
  <2>2. /\ call'[c] = "none"
        /\ \A d \in Clerk \ {c} : op'[d] = op[d] /\ call'[d] = call[d] /\ reply'[d] = reply[d]
    BY <1>3, <2>1
  <2>3. \A p \in issued : (Older(p)' <=> Older(p)) /\ (Waiting(p) => Waiting(p)')
    BY <2>1, <2>2
  <2>4. \A d \in Clerk : ~NoKey(d)'
    BY <1>1, <2>2
  <2> HIDE DEF Older, Waiting, NoKey
  <2> QED
    BY <1>1, <2>1, <2>3, <2>4
<1>12. CASE UNCHANGED vars
  BY <1>1, <1>12 DEF vars, clerkVars
<1> HIDE DEF Older, Waiting, NoKey
<1> QED
  BY <1>5, <1>6, <1>8, <1>9, <1>10, <1>11, <1>12 DEF Next

\* The histories of clients that name versions their keys have or had are
\* linearizable as models1/kv.go:49-67 wants it: server, clerks and network behave
\* like one store in which each operation acts in one step between its call and
\* its answer, although requests are repeated and handlers outlive their calls.
\* For other clients this fails (a Put of a version still to come can be answered
\* ErrNoKey, server.go:68, and can take effect after an answer).
THEOREM KVImplements == Spec /\ []NamesKnown => Linearizable
<1>1. Init => Abstract!Init
  <2> SUFFICES ASSUME Init PROVE Abstract!Init
    OBVIOUS
  <2>1. \A c \in Clerk : Outcome(c) = None
    BY DEF Init, Outcome
  <2>2. [c \in Clerk |-> Outcome(c)] = [c \in Clerk |-> None]
    BY <2>1
  <2> QED
    BY <2>2 DEF Init, Abstract!Init, Abstract!Begun
<1>2. Init => KnownInv
  BY DEF Init, KnownInv
<1> QED
  BY <1>1, <1>2, StepRefines, KnownNext, KVInit, KVNext, PTL DEF Spec, Linearizable, Abstract!Spec

-----------------------------------------------------------------------------
(* The clients of the tests *)

\* What the clients of the tests put: entries and lists of entries.
TestEntry == Clerk \X Nat
TestValue == TestEntry \cup Seq(TestEntry)

Exists == SharedKey \in DOMAIN data
Latest == IF Exists THEN data[SharedKey].version ELSE 0
Putting(c) == op[c] # None /\ op[c].type = "Put"
Reading(c) == op[c] # None /\ op[c].type = "Get"


\* What the client of clerk c puts.
PutValue(c) ==
    IF test = "append" THEN Append(prog[c].es, <<c, prog[c].i>>)
    ELSE IF test = "put" THEN <<c, prog[c].ver>>
    ELSE <<c, prog[c].i>>

\* No Put names a version that is still to come, and one that names the latest
\* is its clerk's present one, without an answer yet.  A Get finds the key.
PendInv ==
    /\ \A o \in issued : o.key = SharedKey
    /\ \A o \in issued : o.type = "Put" =>
        /\ o.version <= Latest
        /\ o.version = Latest => \E c \in Clerk : op[c] = o /\ call[c] = "request"
    /\ \A c \in Clerk : Reading(c) =>
        /\ Exists
        /\ call[c] = "reply" =>
            /\ reply[c].err = "OK" /\ reply[c].version \in 1..Latest
            /\ reply[c].version = Latest => reply[c].value = data[SharedKey].value
    /\ \A c \in Clerk : Putting(c) /\ call[c] = "reply" => reply[c].err # "ErrNoKey"

ClientState ==
    [pc : {"top", "get", "put", "done"}, i : Nat, es : Seq(TestEntry), ver : Nat,
     err : {"OK", "ErrVersion", "ErrMaybe"}, oks : SUBSET Nat, maybes : SUBSET Nat]

\* Where a client is tells which operation its clerk may be in.
ClientInv ==
    /\ test \in {"append", "put", "atleast"}
    /\ prog \in [Clerk -> ClientState]
    /\ \A c \in Clerk :
        /\ prog[c].pc \in {"top", "done"} => op[c] = None
        /\ prog[c].pc = "get" => ~Putting(c) /\ Exists
        /\ prog[c].pc = "put" => ~Reading(c)
        /\ Putting(c) => op[c].version = prog[c].ver /\ op[c].value = PutValue(c)
        /\ prog[c].ver <= Latest

BaseInv == KVInv /\ PendInv /\ ClientInv

-----------------------------------------------------------------------------
\* What PutLands and the other lemmas need of types.
LEMMA LatestType ==
    ASSUME KVInv
    PROVE  /\ Latest \in Nat
           /\ Exists => data[SharedKey] \in Entry /\ Latest = data[SharedKey].version /\ Latest > 0
           /\ ~Exists => Latest = 0
  BY DataType DEF KVInv, Latest, Exists, Entry

\* A clerk's operation is a Get or a Put that was issued under its name.
LEMMA OpKind ==
    ASSUME KVInv, NEW c \in Clerk, op[c] # None
    PROVE  /\ op[c] \in issued /\ op[c] \in Op /\ op[c].id[1] = c
           /\ op[c].version \in Nat
           /\ Putting(c) \/ Reading(c)
           /\ ~(Putting(c) /\ Reading(c))
           /\ Putting(c) <=> op[c].type = "Put"
           /\ Reading(c) <=> op[c].type = "Get"
<1>1. op[c] \in issued /\ op[c] \in Op /\ op[c].id[1] = c
  BY DEF KVInv, OpInv, TypeOK
<1> QED
  BY <1>1 DEF Putting, Reading, Op

\* The server accepts exactly the Puts that name the latest version.
LEMMA AcceptsLatest ==
    ASSUME KVInv, PendInv, NEW o \in issued, o.type = "Put"
    PROVE  /\ o.key = SharedKey /\ o.version \in Nat /\ o.version <= Latest
           /\ Accepts(o) <=> o.version = Latest
           /\ PutReply(o).err \in {"OK", "ErrVersion"}
<1>1. o.key = SharedKey /\ o.version \in Nat /\ o.version <= Latest
  BY DEF PendInv, KVInv, TypeOK, Op
<1>2. Accepts(o) <=> o.version = Latest
  BY <1>1, LatestType DEF Accepts, Latest, Exists
<1>3. ~Accepts(o) => Exists
  BY <1>1, <1>2, LatestType
<1> QED
  BY <1>1, <1>2, <1>3 DEF PutReply, Answer, Exists

\* A handler of a Put changes nothing, or lands the Put that a client is in under
\* the version its client knows.
Lands(c) ==
    /\ Putting(c) /\ op[c].id \notin took /\ took' = took \cup {op[c].id}
    /\ prog[c].pc = "put" /\ prog[c].ver = Latest
    /\ Exists' /\ data'[SharedKey] = [value |-> PutValue(c), version |-> Latest + 1]
    /\ Latest' = Latest + 1

\* A handler of a Put refuses it, or lands the Put that a client is in.
LEMMA PutLands ==
    ASSUME BaseInv, NEW o \in issued, o.type = "Put", Store(o)
    PROVE  \/ ~Accepts(o) /\ o.version < Latest /\ UNCHANGED <<data, took>>
           \/ Accepts(o) /\ o.version < Latest' /\ \E c \in Clerk : op[c] = o /\ Lands(c)
<1>0. KVInv /\ PendInv /\ ClientInv
  BY DEF BaseInv
<1>1. /\ o.key = SharedKey /\ o.version \in Nat /\ o.version <= Latest
      /\ Accepts(o) <=> o.version = Latest
  BY <1>0, AcceptsLatest
<1>2. Latest \in Nat
  BY <1>0, LatestType
<1>3. CASE ~Accepts(o)
  BY <1>1, <1>2, <1>3 DEF Store
<1>4. CASE Accepts(o)
  <2>1. PICK c \in Clerk : op[c] = o /\ call[c] = "request"
    BY <1>0, <1>1, <1>4 DEF PendInv
  <2>2. op[c] # None /\ Putting(c) /\ ~Reading(c)
    BY <1>0, <2>1, OpKind DEF KVInv, OpInv
  <2>3. prog[c].pc = "put" /\ prog[c].ver = o.version /\ o.value = PutValue(c)
    <3>1. prog[c] \in ClientState
      BY <1>0 DEF ClientInv
    <3> QED
      BY <1>0, <2>1, <2>2, <3>1 DEF ClientInv, ClientState
  <2>4. o.id \notin took /\ took' = took \cup {o.id}
    BY <1>0, <1>4, StoreStep
  <2>5. data' = [k \in DOMAIN data \cup {SharedKey} |->
                   IF k = SharedKey
                   THEN [value |-> o.value,
                         version |-> IF k \in DOMAIN data THEN data[k].version + 1 ELSE 1]
                   ELSE data[k]]
    BY <1>1, <1>4 DEF Store
  <2>6. /\ SharedKey \in DOMAIN data'
        /\ data'[SharedKey] = [value |-> o.value, version |-> Latest + 1]
    BY <1>0, <2>5, LatestType DEF Latest, Exists
  <2>7. data'[SharedKey].version = Latest + 1
    BY <2>6
  <2>8. Exists' /\ Latest' = Latest + 1
    BY <2>6, <2>7 DEF Exists, Latest
  <2> QED
    BY <1>1, <1>2, <1>4, <2>1, <2>2, <2>3, <2>4, <2>6, <2>8 DEF Lands
<1> QED
  BY <1>3, <1>4

-----------------------------------------------------------------------------
(* The steps of the server and the network *)

\* What the clerks that read have been answered stays, unless it is lost.
ReadersKeep ==
    \A d \in Clerk : Reading(d) /\ call'[d] = "reply" => call[d] = "reply" /\ reply'[d] = reply[d]

Idle == UNCHANGED <<data, op, took, test, prog>> /\ ReadersKeep
Landing == UNCHANGED <<op, test, prog>> /\ ReadersKeep /\ \E c \in Clerk : Lands(c)

\* The handler of Get answers with the pair that the key has now.
Answering(c) ==
    /\ UNCHANGED <<data, op, took, test, prog>>
    /\ Reading(c) /\ Exists
    /\ call'[c] = "reply"
    /\ reply'[c] = [err |-> "OK", value |-> data[SharedKey].value,
                    version |-> data[SharedKey].version]
    /\ \A d \in Clerk \ {c} : call'[d] = call[d] /\ reply'[d] = reply[d]

\* KVServer.Get finds the key, whoever reads.
LEMMA ServerGetStep ==
    ASSUME BaseInv, NEW c \in Clerk, ServerGet(c), UNCHANGED <<test, prog>>
    PROVE  Answering(c) /\ PendInv'
<1>0. KVInv /\ PendInv
  BY DEF BaseInv
<1>1. /\ call' = [call EXCEPT ![c] = "reply"] /\ reply' = [reply EXCEPT ![c] = GetReply(op[c])]
      /\ UNCHANGED <<data, op, first, late, issued, took, returned>>
      /\ call[c] = "request" /\ op[c].type = "Get"
  BY DEF ServerGet
<1>2. op[c] # None /\ op[c] \in issued /\ Reading(c) /\ ~Putting(c)
  BY <1>0, <1>1, OpKind DEF KVInv, OpInv
<1>3. Exists /\ op[c].key = SharedKey
  BY <1>0, <1>2 DEF PendInv
<1>4. /\ \A d \in Clerk \ {c} : call'[d] = call[d] /\ reply'[d] = reply[d]
      /\ call'[c] = "reply" /\ reply'[c] = GetReply(op[c])
  BY <1>0, <1>1 DEF KVInv, TypeOK
<1>5. GetReply(op[c]) = [err |-> "OK", value |-> data[SharedKey].value,
                         version |-> data[SharedKey].version]
  BY <1>3 DEF GetReply, Exists
<1>6. Answering(c)
  BY <1>1, <1>2, <1>3, <1>4, <1>5 DEF Answering
<1>7. Latest \in Nat /\ Latest > 0 /\ Latest = data[SharedKey].version
  BY <1>0, <1>3, LatestType
<1>8. Exists' = Exists /\ Latest' = Latest
  BY <1>1 DEF Exists, Latest
<1>9. /\ reply'[c].err = "OK" /\ reply'[c].version \in 1..Latest
      /\ reply'[c].value = data[SharedKey].value
  BY <1>4, <1>5, <1>7
<1>10. \A d \in Clerk : (Reading(d)' <=> Reading(d)) /\ (Putting(d)' <=> Putting(d))
  BY <1>1 DEF Reading, Putting
<1>11. \A o \in issued : o.type = "Put" /\ o.version = Latest =>
         \E d \in Clerk : op[d] = o /\ call'[d] = "request"
  <2> SUFFICES ASSUME NEW o \in issued, o.type = "Put", o.version = Latest
               PROVE  \E d \in Clerk : op[d] = o /\ call'[d] = "request"
    OBVIOUS
  <2>1. PICK d \in Clerk : op[d] = o /\ call[d] = "request"
    BY <1>0 DEF PendInv
  <2> QED
    BY <1>1, <1>4, <2>1
<1> QED
  BY <1>0, <1>1, <1>2, <1>3, <1>4, <1>6, <1>8, <1>9, <1>10, <1>11 DEF PendInv

\* A handler of a Put, with its effect on the calls.
LEMMA StoreKeepsPend ==
    ASSUME BaseInv, NEW o \in issued, o.type = "Put", Store(o), UNCHANGED <<op, issued>>,
           \A d \in Clerk : op[d] # None /\ op[d] # o => call'[d] = call[d] /\ reply'[d] = reply[d],
           \A d \in Clerk : Reading(d) => call'[d] = call[d] /\ reply'[d] = reply[d],
           \A d \in Clerk : Putting(d) /\ call'[d] = "reply" => reply'[d].err # "ErrNoKey"
    PROVE  PendInv'
<1>0. KVInv /\ PendInv
  BY DEF BaseInv
<1>1. Latest \in Nat /\ \A p \in issued : p.version \in Nat
  BY <1>0, LatestType DEF KVInv, TypeOK, Op
<1>2. \A d \in Clerk : (Reading(d)' <=> Reading(d)) /\ (Putting(d)' <=> Putting(d))
  BY DEF Reading, Putting
<1>3. CASE o.version < Latest /\ UNCHANGED <<data, took>>
  <2>1. Exists' = Exists /\ Latest' = Latest
    BY <1>3 DEF Exists, Latest
  <2>2. \A p \in issued : p.type = "Put" /\ p.version = Latest =>
         \E d \in Clerk : op[d] = p /\ call'[d] = "request"
    <3> SUFFICES ASSUME NEW p \in issued, p.type = "Put", p.version = Latest
                 PROVE  \E d \in Clerk : op[d] = p /\ call'[d] = "request"
      OBVIOUS
    <3>1. PICK d \in Clerk : op[d] = p /\ call[d] = "request"
      BY <1>0 DEF PendInv
    <3>2. p # o /\ op[d] # None
      BY <1>0, <1>1, <1>3, <3>1 DEF KVInv, OpInv
    <3> QED
      BY <3>1, <3>2
  <2> QED
    BY <1>0, <1>2, <1>3, <2>1, <2>2 DEF PendInv
<1>4. CASE \E c \in Clerk : Lands(c)
  <2>1. Exists' /\ Latest' = Latest + 1
    BY <1>4 DEF Lands
  <2>2. \A p \in issued : p.type = "Put" => p.version < Latest'
    BY <1>0, <1>1, <2>1 DEF PendInv
  <2>3. \A d \in Clerk : Reading(d) /\ call[d] = "reply" =>
          /\ reply[d].err = "OK" /\ reply[d].version \in 1..Latest'
          /\ reply[d].version # Latest'
    BY <1>0, <1>1, <2>1 DEF PendInv
  <2>4. \A p \in issued : p.type = "Put" => p.version <= Latest' /\ p.version # Latest'
    BY <1>1, <2>1, <2>2
  <2> QED
    BY <1>0, <1>2, <2>1, <2>3, <2>4 DEF PendInv
<1> QED
  BY <1>3, <1>4, PutLands

\* KVServer.Put, while its call waits for it.
LEMMA ServerPutStep ==
    ASSUME BaseInv, NEW c \in Clerk, ServerPut(c), UNCHANGED <<test, prog>>
    PROVE  (Idle \/ Landing) /\ PendInv'
<1>0. KVInv /\ PendInv
  BY DEF BaseInv
<1> DEFINE o == op[c]
<1>1. /\ call' = [call EXCEPT ![c] = "reply"] /\ reply' = [reply EXCEPT ![c] = PutReply(o)]
      /\ UNCHANGED <<op, first, late, issued, returned>>
      /\ call[c] = "request" /\ o.type = "Put" /\ Store(o)
  BY DEF ServerPut
<1>2. o # None /\ o \in issued /\ ~Reading(c)
  BY <1>0, <1>1, OpKind DEF KVInv, OpInv
<1>3. \A d \in Clerk \ {c} : call'[d] = call[d] /\ reply'[d] = reply[d]
  BY <1>0, <1>1 DEF KVInv, TypeOK
<1>4. ReadersKeep
  BY <1>2, <1>3 DEF ReadersKeep
<1>5. \/ UNCHANGED <<data, took>> \/ \E d \in Clerk : Lands(d)
  BY <1>1, <1>2, PutLands
<1>6. PendInv'
  <2>1. \A d \in Clerk : op[d] # None /\ op[d] # o => call'[d] = call[d] /\ reply'[d] = reply[d]
    BY <1>3
  <2>2. \A d \in Clerk : Reading(d) => call'[d] = call[d] /\ reply'[d] = reply[d]
    BY <1>2, <1>3
  <2>3. \A d \in Clerk : Putting(d) /\ call'[d] = "reply" => reply'[d].err # "ErrNoKey"
    <3>1. reply'[c] = PutReply(o)
      BY <1>0, <1>1 DEF KVInv, TypeOK
    <3>2. PutReply(o).err # "ErrNoKey"
      BY <1>0, <1>1, <1>2, AcceptsLatest
    <3> QED
      BY <1>0, <1>3, <3>1, <3>2 DEF PendInv
  <2> QED
    BY <1>1, <1>2, <2>1, <2>2, <2>3, StoreKeepsPend
<1> QED
  BY <1>1, <1>4, <1>5, <1>6 DEF Idle, Landing

\* KVServer.Put, after its call has failed: the same, since a Put under the latest
\* version is still its client's present one.
LEMMA LatePutStep ==
    ASSUME BaseInv, NEW o \in late, LatePut(o), UNCHANGED <<test, prog>>
    PROVE  (Idle \/ Landing) /\ PendInv'
<1>0. KVInv /\ PendInv
  BY DEF BaseInv
<1>1. /\ Store(o) /\ UNCHANGED <<op, first, call, reply, issued, returned>>
  BY DEF LatePut, clerkVars
<1>2. o \in issued /\ o.type = "Put"
  BY <1>0 DEF KVInv, OpInv
<1>3. ReadersKeep
  BY <1>1 DEF ReadersKeep
<1>4. \/ UNCHANGED <<data, took>> \/ \E d \in Clerk : Lands(d)
  BY <1>1, <1>2, PutLands
<1>5. PendInv'
  <2>1. \A d \in Clerk : Putting(d) /\ call'[d] = "reply" => reply'[d].err # "ErrNoKey"
    BY <1>0, <1>1 DEF PendInv
  <2> QED
    BY <1>1, <1>2, <2>1, StoreKeepsPend
<1> QED
  BY <1>1, <1>3, <1>4, <1>5 DEF Idle, Landing

\* A failed call takes nothing away but an answer.
LEMMA AgainStep ==
    ASSUME BaseInv, NEW c \in Clerk, Again(c), UNCHANGED <<test, prog>>
    PROVE  Idle /\ PendInv'
<1>0. KVInv /\ PendInv
  BY DEF BaseInv
<1>1. /\ first' = [first EXCEPT ![c] = FALSE] /\ call' = [call EXCEPT ![c] = "request"]
      /\ reply' = [reply EXCEPT ![c] = None]
      /\ UNCHANGED <<data, op, issued, took, returned>>
  BY DEF Again
<1>2. /\ \A d \in Clerk \ {c} : call'[d] = call[d] /\ reply'[d] = reply[d]
      /\ call'[c] = "request"
  BY <1>0, <1>1 DEF KVInv, TypeOK
<1>3. Idle
  BY <1>1, <1>2 DEF Idle, ReadersKeep
<1>4. /\ Exists' = Exists /\ Latest' = Latest
      /\ \A d \in Clerk : (Reading(d)' <=> Reading(d)) /\ (Putting(d)' <=> Putting(d))
  BY <1>1 DEF Exists, Latest, Reading, Putting
<1>5. \A o \in issued : o.type = "Put" /\ o.version = Latest =>
         \E d \in Clerk : op[d] = o /\ call'[d] = "request"
  <2> SUFFICES ASSUME NEW o \in issued, o.type = "Put", o.version = Latest
               PROVE  \E d \in Clerk : op[d] = o /\ call'[d] = "request"
    OBVIOUS
  <2>1. PICK d \in Clerk : op[d] = o /\ call[d] = "request"
    BY <1>0 DEF PendInv
  <2> QED
    BY <1>2, <2>1
<1>6. \A d \in Clerk : call'[d] = "reply" => call[d] = "reply" /\ reply'[d] = reply[d]
  BY <1>2
<1> QED
  BY <1>0, <1>1, <1>3, <1>4, <1>5, <1>6 DEF PendInv

\* A client calls Get or Put.
LEMMA BeginPend ==
    ASSUME BaseInv, NEW c \in Clerk, NEW n \in 1..MaxOps, NEW o \in Op, o.id = <<c, n>>,
           Begin(c, n, o), o.key = SharedKey, o.type = "Get" => Exists,
           o.type = "Put" => o.version <= Latest
    PROVE  /\ PendInv'
           /\ UNCHANGED <<data, took>> /\ ReadersKeep
           /\ op' = [op EXCEPT ![c] = o] /\ op[c] = None /\ op'[c] = o /\ o # None
           /\ call'[c] = "request" /\ o.id \notin took
           /\ \A d \in Clerk \ {c} : op'[d] = op[d] /\ call'[d] = call[d] /\ reply'[d] = reply[d]
           /\ Exists' = Exists /\ Latest' = Latest
<1>0. KVInv /\ PendInv
  BY DEF BaseInv
<1>1. /\ op' = [op EXCEPT ![c] = o] /\ issued' = issued \cup {o}
      /\ first' = [first EXCEPT ![c] = TRUE] /\ call' = [call EXCEPT ![c] = "request"]
      /\ UNCHANGED <<data, reply, late, took, returned>>
      /\ op[c] = None /\ \A p \in issued : p.id # o.id
  BY DEF Begin, Used
<1>2. /\ \A d \in Clerk \ {c} : op'[d] = op[d] /\ call'[d] = call[d] /\ reply'[d] = reply[d]
      /\ op'[c] = o /\ call'[c] = "request"
      /\ o # None /\ o.id \notin took
  BY <1>0, <1>1, NoneAssumption DEF KVInv, TypeOK, OpInv
<1>3. Exists' = Exists /\ Latest' = Latest
  BY <1>1 DEF Exists, Latest
<1>4. ReadersKeep
  BY <1>2 DEF ReadersKeep
<1>5. \A p \in issued' : p.type = "Put" /\ p.version = Latest =>
         \E d \in Clerk : op'[d] = p /\ call'[d] = "request"
  <2> SUFFICES ASSUME NEW p \in issued', p.type = "Put", p.version = Latest
               PROVE  \E d \in Clerk : op'[d] = p /\ call'[d] = "request"
    OBVIOUS
  <2>1. CASE p = o
    BY <1>2, <2>1
  <2>2. CASE p \in issued
    <3>1. PICK d \in Clerk : op[d] = p /\ call[d] = "request"
      BY <1>0, <2>2 DEF PendInv
    <3>2. d # c
      BY <1>0, <1>1, <3>1 DEF KVInv, OpInv
    <3> QED
      BY <1>2, <3>1, <3>2
  <2> QED
    BY <1>1, <2>1, <2>2
<1>6. \A p \in issued' : p.key = SharedKey /\ (p.type = "Put" => p.version <= Latest)
  BY <1>0, <1>1 DEF PendInv
<1>7. \A d \in Clerk : Reading(d)' =>
        /\ Exists
        /\ call'[d] = "reply" =>
            /\ reply[d].err = "OK" /\ reply[d].version \in 1..Latest
            /\ reply[d].version = Latest => reply[d].value = data[SharedKey].value
  BY <1>0, <1>2 DEF PendInv, Reading
<1>8. \A d \in Clerk : Putting(d)' /\ call'[d] = "reply" => reply'[d].err # "ErrNoKey"
  BY <1>0, <1>2 DEF PendInv, Putting
<1>9. PendInv'
  BY <1>1, <1>3, <1>5, <1>6, <1>7, <1>8 DEF PendInv
<1> QED
  BY <1>1, <1>2, <1>3, <1>4, <1>9

\* The answer to a client: a Put that was answered is no longer under the latest
\* version, and OK and ErrVersion say whether it took effect.
LEMMA ReturnPend ==
    ASSUME BaseInv, NEW c \in Clerk, Return(c)
    PROVE  /\ PendInv'
           /\ UNCHANGED <<data, took>> /\ ReadersKeep
           /\ op[c] # None /\ op'[c] = None
           /\ \A d \in Clerk \ {c} : op'[d] = op[d] /\ call'[d] = call[d] /\ reply'[d] = reply[d]
           /\ Exists' = Exists /\ Latest' = Latest
           /\ Putting(c) => /\ op[c].version < Latest
                            /\ Result(c).err \in {"OK", "ErrVersion", "ErrMaybe"}
                            /\ Result(c).err = "OK" => op[c].id \in took
                            /\ Result(c).err = "ErrVersion" => op[c].id \notin took
           /\ Reading(c) => /\ call[c] = "reply" /\ Result(c) = reply[c] /\ Result(c).err = "OK"
                            /\ Result(c).version \in 1..Latest
                            /\ Result(c).version = Latest =>
                                 Result(c).value = data[SharedKey].value
<1>0. KVInv /\ PendInv
  BY DEF BaseInv
<1>1. /\ op' = [op EXCEPT ![c] = None]
      /\ call' = [call EXCEPT ![c] = "none"] /\ reply' = [reply EXCEPT ![c] = None]
      /\ UNCHANGED <<data, first, late, issued, took>>
      /\ call[c] = "reply"
  BY DEF Return
<1>2. /\ op[c] # None /\ op[c] \in issued
      /\ \A d \in Clerk \ {c} : op'[d] = op[d] /\ call'[d] = call[d] /\ reply'[d] = reply[d]
      /\ op'[c] = None /\ call'[c] = "none"
  BY <1>0, <1>1 DEF KVInv, TypeOK, OpInv
<1>3. Exists' = Exists /\ Latest' = Latest
  BY <1>1 DEF Exists, Latest
<1>4. ReadersKeep
  BY <1>2 DEF ReadersKeep
<1>5. PendInv'
  <2>1. \A p \in issued : p.type = "Put" /\ p.version = Latest =>
         \E d \in Clerk : op'[d] = p /\ call'[d] = "request"
    <3> SUFFICES ASSUME NEW p \in issued, p.type = "Put", p.version = Latest
                 PROVE  \E d \in Clerk : op'[d] = p /\ call'[d] = "request"
      OBVIOUS
    <3>1. PICK d \in Clerk : op[d] = p /\ call[d] = "request"
      BY <1>0 DEF PendInv
    <3> QED
      BY <1>1, <1>2, <3>1
  <2>2. \A d \in Clerk : /\ Reading(d)' => Reading(d) /\ d # c
                        /\ Putting(d)' => Putting(d) /\ d # c
    BY <1>2 DEF Reading, Putting
  <2>3. \A d \in Clerk : Putting(d)' /\ call'[d] = "reply" => reply'[d].err # "ErrNoKey"
    BY <1>0, <1>2, <2>2 DEF PendInv, Putting
  <2>4. \A d \in Clerk : Reading(d)' =>
          /\ Exists
          /\ call'[d] = "reply" =>
              /\ reply'[d].err = "OK" /\ reply'[d].version \in 1..Latest
              /\ reply'[d].version = Latest => reply'[d].value = data[SharedKey].value
    BY <1>0, <1>2, <2>2 DEF PendInv, Reading
  <2> QED
    BY <1>0, <1>1, <1>3, <2>1, <2>3, <2>4 DEF PendInv
<1>6. ASSUME Putting(c)
      PROVE  /\ op[c].version < Latest
             /\ Result(c).err \in {"OK", "ErrVersion", "ErrMaybe"}
             /\ Result(c).err = "OK" => op[c].id \in took
             /\ Result(c).err = "ErrVersion" => op[c].id \notin took
  <2>1. op[c].type = "Put"
    BY <1>6 DEF Putting
  <2>2. op[c].version < Latest
    <3>1. \A d \in Clerk : op[d] = op[c] => d = c
      BY <1>0, <1>2 DEF KVInv, OpInv
    <3>2. op[c].version # Latest
      BY <1>0, <1>1, <1>2, <2>1, <3>1 DEF PendInv
    <3> QED
      BY <1>0, <1>2, <2>1, <3>2, LatestType, AcceptsLatest
  <2>3. PICK err \in {"OK", "ErrVersion", "ErrNoKey"} : reply[c] = Answer(err)
    BY <1>0, <1>1, <2>1 DEF KVInv, ReplyInv
  <2>4. reply[c].err = err /\ err # "ErrNoKey" /\ Answer("ErrMaybe").err = "ErrMaybe"
    BY <1>0, <1>1, <1>6, <2>3 DEF PendInv, Answer
  <2>5. Result(c).err = IF err = "ErrVersion" /\ ~first[c] THEN "ErrMaybe" ELSE err
    BY <2>1, <2>4 DEF Result
  <2>6. err = "OK" => op[c].id \in took
    BY <1>0, <1>1, <2>1, <2>4 DEF KVInv, ReplyInv
  <2>7. first[c] /\ err = "ErrVersion" => op[c].id \notin took
    BY <1>0, <1>1, <1>2, <2>4 DEF KVInv, FirstInv
  <2> QED
    BY <2>2, <2>4, <2>5, <2>6, <2>7
<1>7. ASSUME Reading(c)
      PROVE  /\ Result(c) = reply[c] /\ Result(c).err = "OK"
             /\ Result(c).version \in 1..Latest
             /\ Result(c).version = Latest => Result(c).value = data[SharedKey].value
  <2>1. Result(c) = reply[c]
    BY <1>7 DEF Reading, Result
  <2> QED
    BY <1>0, <1>1, <1>7, <2>1 DEF PendInv
<1> QED
  BY <1>1, <1>2, <1>3, <1>4, <1>5, <1>6, <1>7

-----------------------------------------------------------------------------
(* The clients' places *)

\* What the server and the network do leaves the clients where they are.
LEMMA ClientKeeps ==
    ASSUME BaseInv, UNCHANGED <<op, test, prog>>, Exists => Exists', Latest <= Latest', Latest' \in Nat
    PROVE  ClientInv'
<1>0. KVInv /\ ClientInv
  BY DEF BaseInv
<1>1. \A c \in Clerk : (Putting(c)' <=> Putting(c)) /\ (Reading(c)' <=> Reading(c))
                       /\ PutValue(c)' = PutValue(c)
  BY DEF Putting, Reading, PutValue
<1>2. \A c \in Clerk : prog[c].ver <= Latest'
  <2>1. Latest \in Nat /\ \A c \in Clerk : prog[c].ver \in Nat
    BY <1>0, LatestType DEF ClientInv, ClientState
  <2> QED
    BY <1>0, <2>1 DEF ClientInv
<1> QED
  BY <1>0, <1>1, <1>2 DEF ClientInv

\* A client's own step, after which its clerk is in operation o or in none.
LEMMA ClientMoves ==
    ASSUME BaseInv, NEW c \in Clerk, NEW p \in ClientState, prog' = [prog EXCEPT ![c] = p],
           UNCHANGED test, Exists' = Exists, Latest' = Latest,
           \A d \in Clerk \ {c} : op'[d] = op[d],
           p.pc \in {"top", "done"} => op'[c] = None,
           p.pc = "get" => ~Putting(c)' /\ Exists,
           p.pc = "put" => ~Reading(c)',
           Putting(c)' => op'[c].version = p.ver /\ op'[c].value = PutValue(c)',
           p.ver <= Latest
    PROVE  ClientInv'
<1>0. ClientInv
  BY DEF BaseInv
<1>1. prog' \in [Clerk -> ClientState] /\ prog'[c] = p /\ \A d \in Clerk \ {c} : prog'[d] = prog[d]
  BY <1>0 DEF ClientInv
<1>2. \A d \in Clerk \ {c} : (Putting(d)' <=> Putting(d)) /\ (Reading(d)' <=> Reading(d))
                       /\ PutValue(d)' = PutValue(d)
  BY <1>1 DEF Putting, Reading, PutValue
<1>3. test' \in {"append", "put", "atleast"}
  BY <1>0 DEF ClientInv
<1>4. ASSUME NEW d \in Clerk
      PROVE  (/\ prog[d].pc \in {"top", "done"} => op[d] = None
              /\ prog[d].pc = "get" => ~Putting(d) /\ Exists
              /\ prog[d].pc = "put" => ~Reading(d)
              /\ Putting(d) => op[d].version = prog[d].ver /\ op[d].value = PutValue(d)
              /\ prog[d].ver <= Latest)'
  <2>1. CASE d = c
    BY <1>1, <2>1
  <2>2. CASE d # c
    BY <1>0, <1>1, <1>2, <2>2 DEF ClientInv
  <2> QED
    BY <2>1, <2>2
<1> QED
  BY <1>1, <1>3, <1>4 DEF ClientInv

\* The values that the clients put are in Value.
Covers == TestValue \subseteq Value

\* A call of tsGet from a client of the append or the put test.
LEMMA GetCalled ==
    ASSUME BaseInv, NEW c \in Clerk, tsGet(c), Exists
    PROVE  /\ KVInv' /\ PendInv'
           /\ UNCHANGED <<data, took>> /\ ReadersKeep
           /\ op[c] = None /\ Reading(c)' /\ ~Putting(c)' /\ call'[c] = "request"
           /\ \A d \in Clerk \ {c} : op'[d] = op[d] /\ call'[d] = call[d] /\ reply'[d] = reply[d]
           /\ Exists' = Exists /\ Latest' = Latest
<1> DEFINE g(n) == [id |-> <<c, n>>, type |-> "Get", key |-> SharedKey, value |-> None, version |-> 0]
<1>1. PICK n \in 1..MaxOps : Begin(c, n, g(n))
  BY DEF tsGet, Get
<1>2. g(n) \in Op /\ g(n).id = <<c, n>> /\ g(n).type = "Get" /\ g(n).key = SharedKey
      /\ g(n).type # "Put"
  BY SharedKeyAssumption DEF Op, Id
<1> HIDE DEF g
<1>3. KVInv'
  BY <1>1, <1>2, KVBegin DEF BaseInv
<1>4. /\ PendInv'
      /\ UNCHANGED <<data, took>> /\ ReadersKeep
      /\ op[c] = None /\ op'[c] = g(n) /\ g(n) # None /\ call'[c] = "request"
      /\ \A d \in Clerk \ {c} : op'[d] = op[d] /\ call'[d] = call[d] /\ reply'[d] = reply[d]
      /\ Exists' = Exists /\ Latest' = Latest
  BY <1>1, <1>2, BeginPend
<1> QED
  BY <1>2, <1>3, <1>4 DEF Reading, Putting

\* A call of tsPut.
LEMMA PutCalled ==
    ASSUME BaseInv, NEW c \in Clerk, NEW value \in Value, NEW version \in Nat,
           tsPut(c, value, version), version <= Latest
    PROVE  /\ KVInv' /\ PendInv'
           /\ UNCHANGED <<data, took>> /\ ReadersKeep
           /\ op[c] = None /\ Putting(c)' /\ ~Reading(c)'
           /\ op'[c].value = value /\ op'[c].version = version /\ op'[c].id \notin took
           /\ \A d \in Clerk \ {c} : op'[d] = op[d] /\ call'[d] = call[d] /\ reply'[d] = reply[d]
           /\ Exists' = Exists /\ Latest' = Latest
<1> DEFINE g(n) == [id |-> <<c, n>>, type |-> "Put", key |-> SharedKey, value |-> value,
                    version |-> version]
<1>1. PICK n \in 1..MaxOps : Begin(c, n, g(n))
  BY DEF tsPut, Put
<1>2. /\ g(n) \in Op /\ g(n).id = <<c, n>> /\ g(n).type = "Put" /\ g(n).key = SharedKey
      /\ g(n).value = value /\ g(n).version = version
  BY SharedKeyAssumption DEF Op, Id
<1> HIDE DEF g
<1>3. KVInv'
  BY <1>1, <1>2, KVBegin DEF BaseInv
<1>4. /\ PendInv'
      /\ UNCHANGED <<data, took>> /\ ReadersKeep
      /\ op[c] = None /\ op'[c] = g(n) /\ g(n) # None /\ g(n).id \notin took
      /\ \A d \in Clerk \ {c} : op'[d] = op[d] /\ call'[d] = call[d] /\ reply'[d] = reply[d]
      /\ Exists' = Exists /\ Latest' = Latest
  BY <1>1, <1>2, BeginPend
<1> QED
  BY <1>2, <1>3, <1>4 DEF Reading, Putting

\* The server, the network and the clerks' loops.
LEMMA Behind ==
    ASSUME BaseInv, NEW c \in Clerk,
           Serve(c) \/ Lose(c) \/ \E o \in late : LatePut(o) /\ UNCHANGED <<test, prog>>
    PROVE  BaseInv' /\ (Idle \/ Landing \/ \E d \in Clerk : Answering(d))
<1>0. KVInv /\ PendInv /\ ClientInv
  BY DEF BaseInv
<1>1. KVInv' /\ PendInv' /\ (Idle \/ Landing \/ \E d \in Clerk : Answering(d))
  <2>1. CASE Serve(c)
    BY <1>0, <2>1, ServerGetStep, ServerPutStep, KVServerGet, KVServerPut DEF Serve
  <2>2. CASE Lose(c)
    <3>1. Again(c) /\ (late' = late \/ (op[c].type = "Put" /\ late' = late \cup {op[c]}))
      BY <2>2 DEF Lose, RequestLost, GivenUp, ReplyLost
    <3>2. op[c] # None
      BY <1>0, <2>2 DEF Lose, RequestLost, GivenUp, ReplyLost, KVInv, OpInv
    <3>3. UNCHANGED <<test, prog>>
      BY <2>2 DEF Lose
    <3> QED
      BY <1>0, <3>1, <3>2, <3>3, AgainStep, KVAgain
  <2>3. CASE \E o \in late : LatePut(o) /\ UNCHANGED <<test, prog>>
    BY <1>0, <2>3, LatePutStep, KVLatePut
  <2> QED
    BY <2>1, <2>2, <2>3
<1>2. UNCHANGED <<op, test, prog>>
  BY <1>1 DEF Idle, Landing, Answering
<1>3. (Exists => Exists') /\ Latest <= Latest' /\ Latest' \in Nat
  <2>0. Latest \in Nat
    BY <1>0, LatestType
  <2>1. CASE UNCHANGED data
    BY <2>0, <2>1 DEF Exists, Latest
  <2>2. CASE \E d \in Clerk : Lands(d)
    BY <2>0, <2>2 DEF Lands
  <2> QED
    BY <1>1, <2>1, <2>2 DEF Idle, Landing, Answering
<1>4. ClientInv'
  BY <1>2, <1>3, ClientKeeps
<1> QED
  BY <1>1, <1>4 DEF BaseInv

-----------------------------------------------------------------------------
(* The append test *)

List == data[SharedKey].value
Has(c, i) == \E j \in DOMAIN List : List[j] = <<c, i>>

\* The client of clerk c has had an answer for its i-th append, or will have one.
Accounted(c, i) ==
    \/ i \in prog[c].oks \cup prog[c].maybes
    \/ i = prog[c].i /\ Putting(c) /\ op[c].id \in took

\* A client that knows the latest version knows the list; what it was told is true.
Appender(c) ==
    /\ prog[c].pc = "put" /\ prog[c].ver = Latest => prog[c].es = List
    /\ Reading(c) /\ call[c] = "reply" => reply[c].value \in Seq(TestEntry)
    /\ prog[c].oks \cup prog[c].maybes = 0..(prog[c].i - 1)
    /\ \A i \in prog[c].oks : Has(c, i)
    /\ Putting(c) /\ op[c].id \in took => Has(c, prog[c].i)

AppendInv ==
    test = "append" =>
      /\ Exists /\ List \in Seq(TestEntry) /\ Len(List) + 1 = Latest
      /\ \A j, n \in DOMAIN List : j < n /\ List[j][1] = List[n][1] => List[j][2] < List[n][2]
      /\ \A c \in Clerk, i \in Nat : Has(c, i) => Accounted(c, i)
      /\ \A c \in Clerk : Appender(c)

-----------------------------------------------------------------------------
\* A list with one more entry.
LEMMA AppendFacts ==
    ASSUME NEW S, NEW s \in Seq(S), NEW e \in S
    PROVE  /\ Append(s, e) \in Seq(S) /\ Len(s) \in Nat /\ DOMAIN s = 1..Len(s)
           /\ Len(Append(s, e)) = Len(s) + 1 /\ DOMAIN Append(s, e) = 1..(Len(s) + 1)
           /\ \A j \in DOMAIN s : Append(s, e)[j] = s[j]
           /\ Append(s, e)[Len(s) + 1] = e
  OBVIOUS

\* The types of the list.
LEMMA ListFacts ==
    ASSUME KVInv, AppendInv, test = "append"
    PROVE  /\ Exists /\ List \in Seq(TestEntry) /\ Len(List) \in Nat /\ DOMAIN List = 1..Len(List)
           /\ Latest = Len(List) + 1
           /\ \A j \in DOMAIN List : /\ List[j] \in TestEntry /\ List[j][1] \in Clerk
                                     /\ List[j][2] \in Nat /\ List[j] = <<List[j][1], List[j][2]>>
<1>1. Exists /\ List \in Seq(TestEntry) /\ Len(List) + 1 = Latest
  BY DEF AppendInv
<1>2. Len(List) \in Nat /\ DOMAIN List = 1..Len(List) /\ \A j \in DOMAIN List : List[j] \in TestEntry
  BY <1>1
<1>3. \A e \in TestEntry : e[1] \in Clerk /\ e[2] \in Nat /\ e = <<e[1], e[2]>>
  BY DEF TestEntry
<1> QED
  BY <1>1, <1>2, <1>3

\* A step of the client of clerk c that leaves the list alone.
LEMMA AppendMoves ==
    ASSUME KVInv, AppendInv, NEW c \in Clerk, UNCHANGED <<data, took, test>>,
           \A d \in Clerk \ {c} : /\ op'[d] = op[d] /\ prog'[d] = prog[d]
                                  /\ call'[d] = call[d] /\ reply'[d] = reply[d],
           test = "append" => Appender(c)',
           test = "append" => \A i \in Nat : Accounted(c, i) => Accounted(c, i)'
    PROVE  AppendInv'
<1> SUFFICES ASSUME test = "append" PROVE AppendInv'
  BY DEF AppendInv
<1>1. List' = List /\ Exists' = Exists /\ Latest' = Latest
  BY DEF List, Exists, Latest
<1>2. \A d \in Clerk \ {c} : \A i : (Accounted(d, i)' <=> Accounted(d, i)) /\ (Has(d, i)' <=> Has(d, i))
  BY <1>1 DEF Accounted, Has, Putting
<1>3. \A d \in Clerk : Appender(d)'
  <2> SUFFICES ASSUME NEW d \in Clerk, d # c PROVE Appender(d)'
    OBVIOUS
  <2>1. Appender(d)
    BY DEF AppendInv
  <2>2. (Putting(d)' <=> Putting(d)) /\ (Reading(d)' <=> Reading(d))
    BY DEF Putting, Reading
  <2> QED
    BY <1>1, <1>2, <2>1, <2>2 DEF Appender
<1>4. \A d \in Clerk, i \in Nat : Has(d, i)' => Accounted(d, i)'
  <2>1. \A i \in Nat : Has(c, i)' <=> Has(c, i)
    BY <1>1 DEF Has
  <2> QED
    BY <1>2, <2>1 DEF AppendInv
<1> QED
  BY <1>1, <1>3, <1>4 DEF AppendInv

\* A step that neither answers nor stores.
LEMMA AppendIdle ==
    ASSUME KVInv, AppendInv, Idle
    PROVE  AppendInv'
<1> SUFFICES ASSUME test = "append" PROVE AppendInv'
  BY DEF AppendInv, Idle
<1>1. List' = List /\ Exists' = Exists /\ Latest' = Latest /\ test' = test
  BY DEF List, Exists, Latest, Idle
<1>2. \A d \in Clerk : /\ \A i : (Accounted(d, i)' <=> Accounted(d, i)) /\ (Has(d, i)' <=> Has(d, i))
                       /\ (Putting(d)' <=> Putting(d)) /\ (Reading(d)' <=> Reading(d))
  BY <1>1 DEF Accounted, Has, Putting, Reading, Idle
<1>3. ASSUME NEW d \in Clerk PROVE Appender(d)'
  <2>1. Appender(d)
    BY DEF AppendInv
  <2>2. Reading(d)' /\ call'[d] = "reply" => reply'[d] \in {reply[d]} /\ call[d] = "reply"
    BY <1>2 DEF Idle, ReadersKeep
  <2> QED
    BY <1>1, <1>2, <2>1, <2>2 DEF Appender, Idle
<1> QED
  BY <1>1, <1>2, <1>3 DEF AppendInv

\* The handler of Get hands out the list.
LEMMA AppendAnswers ==
    ASSUME KVInv, AppendInv, NEW c \in Clerk, Answering(c)
    PROVE  AppendInv'
<1>1. /\ UNCHANGED <<data, op, took, test, prog>>
      /\ \A d \in Clerk \ {c} : call'[d] = call[d] /\ reply'[d] = reply[d]
      /\ reply'[c].value = List
  BY DEF Answering, List
<1>2. ASSUME test = "append" PROVE Appender(c)'
  <2>1. Appender(c) /\ List \in Seq(TestEntry)
    BY <1>2 DEF AppendInv
  <2>2. List' = List /\ Latest' = Latest /\ Putting(c)' = Putting(c) /\ \A i : Has(c, i)' <=> Has(c, i)
    BY <1>1 DEF List, Latest, Exists, Putting, Has
  <2> QED
    BY <1>1, <2>1, <2>2 DEF Appender
<1>3. \A i \in Nat : Accounted(c, i) => Accounted(c, i)'
  BY <1>1 DEF Accounted, Putting
<1> QED
  BY <1>1, <1>2, <1>3, AppendMoves

\* A Put that lands adds its client's entry to the list that the client has read:
\* none of its own entries is as young, since the Put has not landed before.
LEMMA AppendLands ==
    ASSUME BaseInv, AppendInv, Landing
    PROVE  AppendInv'
<1> SUFFICES ASSUME test = "append" PROVE AppendInv'
  BY DEF AppendInv, Landing
<1>0. KVInv /\ PendInv /\ ClientInv
  BY DEF BaseInv
<1>1. PICK c \in Clerk : Lands(c)
  BY DEF Landing
<1>2. UNCHANGED <<op, test, prog>> /\ ReadersKeep
  BY DEF Landing
<1> PICK i : i = prog[c].i
  OBVIOUS
<1>3. /\ Putting(c) /\ op[c].id \notin took /\ took' = took \cup {op[c].id}
      /\ prog[c].pc = "put" /\ prog[c].ver = Latest
      /\ Exists' /\ data'[SharedKey] = [value |-> Append(prog[c].es, <<c, i>>), version |-> Latest + 1]
      /\ Latest' = Latest + 1
  BY <1>1 DEF Lands, PutValue
<1>4. /\ List \in Seq(TestEntry) /\ Latest = Len(List) + 1 /\ prog[c].es = List
      /\ Len(List) \in Nat /\ DOMAIN List = 1..Len(List)
      /\ \A j \in DOMAIN List : /\ List[j][1] \in Clerk /\ List[j][2] \in Nat
                                /\ List[j] = <<List[j][1], List[j][2]>>
  BY <1>0, <1>3, ListFacts DEF AppendInv, Appender
<1>5. List' = Append(List, <<c, i>>)
  BY <1>3, <1>4 DEF List
<1>6. i \in Nat /\ <<c, i>> \in TestEntry /\ <<c, i>>[1] = c /\ <<c, i>>[2] = i
  BY <1>0 DEF ClientInv, ClientState, TestEntry
<1>7. /\ List' \in Seq(TestEntry) /\ Len(List') = Len(List) + 1
      /\ DOMAIN List' = 1..(Len(List) + 1)
      /\ \A j \in DOMAIN List : List'[j] = List[j]
      /\ List'[Len(List) + 1] = <<c, i>>
  BY <1>4, <1>5, <1>6, AppendFacts
<1>8. \A d \in Clerk : /\ (Putting(d)' <=> Putting(d)) /\ (Reading(d)' <=> Reading(d))
                       /\ \A n : Has(d, n) => Has(d, n)'
                       /\ \A n : Has(d, n)' => Has(d, n) \/ (d = c /\ n = i)
  <2>1. \A d \in Clerk : (Putting(d)' <=> Putting(d)) /\ (Reading(d)' <=> Reading(d))
    BY <1>2 DEF Putting, Reading
  <2>2. ASSUME NEW d \in Clerk, NEW n, Has(d, n) PROVE Has(d, n)'
    <3>1. PICK j \in DOMAIN List : List[j] = <<d, n>>
      BY <2>2 DEF Has
    <3>2. j \in DOMAIN List' /\ List'[j] = <<d, n>>
      BY <1>4, <1>7, <3>1
    <3> QED
      BY <3>2 DEF Has
  <2>3. ASSUME NEW d \in Clerk, NEW n, Has(d, n)' PROVE Has(d, n) \/ (d = c /\ n = i)
    <3>1. PICK j \in DOMAIN List' : List'[j] = <<d, n>>
      BY <2>3 DEF Has
    <3>2. j \in DOMAIN List \/ j = Len(List) + 1
      BY <1>4, <1>7, <3>1
    <3>3. CASE j \in DOMAIN List
      BY <1>7, <3>1, <3>3 DEF Has
    <3>4. CASE j = Len(List) + 1
      BY <1>7, <3>1, <3>4
    <3> QED
      BY <3>2, <3>3, <3>4
  <2> QED
    BY <2>1, <2>2, <2>3
<1>9. Has(c, i)'
  <2>1. Len(List) + 1 \in DOMAIN List'
    BY <1>4, <1>7
  <2> QED
    BY <1>7, <2>1 DEF Has
<1>10. \A n \in Nat : Has(c, n) => n < i
  <2>1. \A n \in Nat : Has(c, n) => n \in prog[c].oks \cup prog[c].maybes
    BY <1>3 DEF AppendInv, Accounted
  <2>2. prog[c].oks \cup prog[c].maybes = 0..(i - 1)
    BY DEF AppendInv, Appender
  <2> QED
    BY <1>6, <2>1, <2>2
<1>11. \A j, n \in DOMAIN List' :
         j < n /\ List'[j][1] = List'[n][1] => List'[j][2] < List'[n][2]
  <2> SUFFICES ASSUME NEW j \in DOMAIN List', NEW n \in DOMAIN List', j < n, List'[j][1] = List'[n][1]
               PROVE  List'[j][2] < List'[n][2]
    OBVIOUS
  <2>1. j \in DOMAIN List /\ (n \in DOMAIN List \/ n = Len(List) + 1)
    BY <1>4, <1>7
  <2>2. CASE n \in DOMAIN List
    BY <1>7, <2>1, <2>2 DEF AppendInv
  <2>3. CASE n = Len(List) + 1
    <3>1. List[j][1] = c /\ List'[n][2] = i
      BY <1>6, <1>7, <2>1, <2>3
    <3>2. List[j][2] \in Nat /\ Has(c, List[j][2])
      BY <1>4, <2>1, <3>1 DEF Has
    <3> QED
      BY <1>7, <1>10, <2>1, <3>1, <3>2
  <2> QED
    BY <2>1, <2>2, <2>3
<1>12. ASSUME NEW d \in Clerk, NEW n \in Nat, Has(d, n)' PROVE Accounted(d, n)'
  <2>1. CASE d = c /\ n = i
    BY <1>2, <1>3, <1>8, <2>1 DEF Accounted
  <2>2. CASE Has(d, n)
    <3>1. Accounted(d, n)
      BY <2>2 DEF AppendInv
    <3> QED
      BY <1>2, <1>3, <1>8, <3>1 DEF Accounted
  <2> QED
    BY <1>8, <1>12, <2>1, <2>2
<1>13. ASSUME NEW d \in Clerk PROVE Appender(d)'
  <2>1. Appender(d)
    BY DEF AppendInv
  <2>2. prog[d].ver # Latest'
    <3>1. prog[d].ver \in Nat /\ prog[d].ver <= Latest /\ Latest \in Nat
      BY <1>0, LatestType DEF ClientInv, ClientState
    <3> QED
      BY <1>3, <3>1
  <2>3. Putting(d) /\ op[d].id \in took' => Has(d, prog[d].i)'
    <3>1. CASE d = c
      BY <1>2, <1>9, <3>1
    <3>2. CASE d # c
      <4>1. Putting(d) => op[d].id # op[c].id
        BY <1>0, <1>3, <3>2 DEF Putting, KVInv, OpInv
      <4> QED
        BY <1>2, <1>3, <1>8, <2>1, <4>1 DEF Appender
    <3> QED
      BY <3>1, <3>2
  <2>4. Reading(d) /\ call'[d] = "reply" => reply'[d].value \in Seq(TestEntry)
    BY <1>2, <2>1 DEF Appender, ReadersKeep
  <2> QED
    BY <1>2, <1>8, <2>1, <2>2, <2>3, <2>4 DEF Appender
<1>14. Len(List') + 1 = Latest'
  BY <1>3, <1>4, <1>7
<1>15. List' \in Seq(TestEntry)
  BY <1>7
<1> QED
  BY <1>3, <1>11, <1>12, <1>13, <1>14, <1>15 DEF AppendInv

-----------------------------------------------------------------------------
\* The fields of a client's record.
LEMMA ClientType ==
    ASSUME ClientInv, NEW c \in Clerk
    PROVE  /\ prog[c] \in ClientState
           /\ prog[c].pc \in {"top", "get", "put", "done"} /\ prog[c].i \in Nat
           /\ prog[c].es \in Seq(TestEntry) /\ prog[c].ver \in Nat
           /\ prog[c].err \in {"OK", "ErrVersion", "ErrMaybe"}
           /\ prog[c].oks \subseteq Nat /\ prog[c].maybes \subseteq Nat
  BY DEF ClientInv, ClientState

\* What a client puts is in Value, if Value has the entries and the lists.
LEMMA PutValueType ==
    ASSUME Covers, ClientInv, NEW c \in Clerk
    PROVE  /\ Append(prog[c].es, <<c, prog[c].i>>) \in Value
           /\ <<c, prog[c].ver>> \in Value /\ <<c, prog[c].i>> \in Value
<1>1. prog[c].es \in Seq(TestEntry) /\ <<c, prog[c].i>> \in TestEntry /\ <<c, prog[c].ver>> \in TestEntry
  BY ClientType DEF TestEntry
<1>2. Append(prog[c].es, <<c, prog[c].i>>) \in Seq(TestEntry)
  BY <1>1, AppendFacts
<1> QED
  BY <1>1, <1>2 DEF Covers, TestValue

\* OneClientAppend calls GetJson.
LEMMA AppendGetStep ==
    ASSUME BaseInv, AppendInv, NEW c \in Clerk, AppendGet(c)
    PROVE  BaseInv' /\ AppendInv' /\ test' = "append"
<1>0. KVInv /\ PendInv /\ ClientInv
  BY DEF BaseInv
<1> DEFINE p == [prog[c] EXCEPT !.pc = "get"]
<1>1. /\ test = "append" /\ test' = test /\ prog[c].pc \in {"top", "get"} /\ tsGet(c)
      /\ prog' = [prog EXCEPT ![c] = p]
  BY DEF AppendGet, At, Goto
<1>2. Exists
  BY <1>1 DEF AppendInv
<1>3. /\ KVInv' /\ PendInv'
      /\ UNCHANGED <<data, took>> /\ op[c] = None /\ Reading(c)' /\ ~Putting(c)' /\ call'[c] = "request"
      /\ \A d \in Clerk \ {c} : op'[d] = op[d] /\ call'[d] = call[d] /\ reply'[d] = reply[d]
      /\ Exists' = Exists /\ Latest' = Latest
  BY <1>1, <1>2, GetCalled
<1>4. /\ p \in ClientState /\ p.pc = "get" /\ p.i = prog[c].i /\ p.ver = prog[c].ver
      /\ p.oks = prog[c].oks /\ p.maybes = prog[c].maybes
  BY <1>0, ClientType DEF ClientState
<1>5. p.ver <= Latest
  BY <1>0, <1>4 DEF ClientInv
<1> HIDE DEF p
<1>6. ClientInv'
  BY <1>1, <1>2, <1>3, <1>4, <1>5, ClientMoves
<1>7. prog'[c] = p /\ \A d \in Clerk \ {c} : prog'[d] = prog[d]
  BY <1>0, <1>1 DEF ClientInv
<1>8. Appender(c)'
  <2>1. Appender(c)
    BY <1>1 DEF AppendInv
  <2>2. \A i : Has(c, i)' <=> Has(c, i)
    BY <1>3 DEF Has, List
  <2> QED
    BY <1>3, <1>4, <1>7, <2>1, <2>2 DEF Appender
<1>9. \A i \in Nat : Accounted(c, i) => Accounted(c, i)'
  BY <1>3, <1>4, <1>7 DEF Accounted, Putting
<1>10. AppendInv'
  BY <1>0, <1>1, <1>3, <1>7, <1>8, <1>9, AppendMoves
<1> QED
  BY <1>1, <1>3, <1>6, <1>10 DEF BaseInv

\* GetJson returns: the key is there, and if nobody has put since, the client now
\* knows the list.
LEMMA AppendGotStep ==
    ASSUME BaseInv, AppendInv, NEW c \in Clerk, AppendGot(c)
    PROVE  BaseInv' /\ AppendInv' /\ test' = "append"
<1>0. KVInv /\ PendInv /\ ClientInv
  BY DEF BaseInv
<1> DEFINE r == Result(c)
           p == [prog[c] EXCEPT !.pc = "put", !.es = r.value, !.ver = r.version]
<1>1. /\ test = "append" /\ test' = test /\ prog[c].pc = "get" /\ Return(c)
      /\ prog' = [prog EXCEPT ![c].pc = IF r.err = "OK" THEN "put" ELSE "fatal",
                              ![c].es = r.value, ![c].ver = r.version]
  BY DEF AppendGot, At
<1>2. /\ PendInv' /\ UNCHANGED <<data, took>>
      /\ op[c] # None /\ op'[c] = None
      /\ \A d \in Clerk \ {c} : op'[d] = op[d] /\ call'[d] = call[d] /\ reply'[d] = reply[d]
      /\ Exists' = Exists /\ Latest' = Latest
      /\ Reading(c) => /\ call[c] = "reply" /\ r = reply[c] /\ r.err = "OK" /\ r.version \in 1..Latest
                       /\ r.version = Latest => r.value = data[SharedKey].value
  BY <1>1, ReturnPend
<1>3. Reading(c) /\ ~Putting(c)
  BY <1>0, <1>1, <1>2, OpKind DEF ClientInv
<1>4. Appender(c)
  BY <1>1 DEF AppendInv
<1>5. /\ r.err = "OK" /\ r.value \in Seq(TestEntry) /\ r.version \in Nat /\ r.version <= Latest
      /\ r.version = Latest => r.value = List
  <2>1. Latest \in Nat
    BY <1>0, LatestType
  <2> QED
    BY <1>2, <1>3, <1>4, <2>1 DEF Appender, List
<1>6. prog' = [prog EXCEPT ![c] = p]
  BY <1>1, <1>5
<1>7. /\ p \in ClientState /\ p.pc = "put" /\ p.i = prog[c].i /\ p.ver = r.version /\ p.es = r.value
      /\ p.oks = prog[c].oks /\ p.maybes = prog[c].maybes
  <2> HIDE DEF r
  <2> QED
    BY <1>0, <1>5, ClientType DEF ClientState
<1>8. KVInv'
  BY <1>0, <1>1, KVReturn
<1> HIDE DEF p, r
<1>9. ~Putting(c)' /\ ~Reading(c)'
  BY <1>2 DEF Putting, Reading
<1>10. ClientInv'
  <2>1. UNCHANGED test /\ p.pc = "put" /\ p.ver <= Latest
    BY <1>1, <1>5, <1>7
  <2> QED
    BY <1>2, <1>6, <1>7, <1>9, <2>1, ClientMoves
<1>11. prog'[c] = p /\ \A d \in Clerk \ {c} : prog'[d] = prog[d]
  BY <1>0, <1>6 DEF ClientInv
<1>12. Appender(c)'
  <2>1. List' = List /\ \A i : Has(c, i)' <=> Has(c, i)
    BY <1>2 DEF Has, List
  <2> QED
    BY <1>2, <1>4, <1>5, <1>7, <1>9, <1>11, <2>1 DEF Appender
<1>13. \A i \in Nat : Accounted(c, i) => Accounted(c, i)'
  BY <1>3, <1>7, <1>11 DEF Accounted
<1>14. AppendInv'
  BY <1>0, <1>1, <1>2, <1>11, <1>12, <1>13, AppendMoves
<1> QED
  BY <1>1, <1>2, <1>8, <1>10, <1>14 DEF BaseInv

\* OneClientAppend calls PutJson with its entry added.
LEMMA AppendPutStep ==
    ASSUME Covers, BaseInv, AppendInv, NEW c \in Clerk, AppendPut(c)
    PROVE  BaseInv' /\ AppendInv' /\ test' = "append"
<1>0. KVInv /\ PendInv /\ ClientInv
  BY DEF BaseInv
<1> DEFINE v == Append(prog[c].es, <<c, prog[c].i>>)
           w == prog[c].ver
<1>1. test = "append" /\ test' = test /\ prog[c].pc = "put" /\ tsPut(c, v, w) /\ prog' = prog
  BY DEF AppendPut, At
<1>2. v \in Value /\ w \in Nat /\ w <= Latest
  BY <1>0, ClientType, PutValueType DEF ClientInv
<1>3. PutValue(c)' = v
  BY <1>1 DEF PutValue
<1> HIDE DEF v, w
<1>4. /\ KVInv' /\ PendInv'
      /\ UNCHANGED <<data, took>> /\ op[c] = None /\ Putting(c)' /\ ~Reading(c)'
      /\ op'[c].value = v /\ op'[c].version = w /\ op'[c].id \notin took
      /\ \A d \in Clerk \ {c} : op'[d] = op[d] /\ call'[d] = call[d] /\ reply'[d] = reply[d]
      /\ Exists' = Exists /\ Latest' = Latest
  BY <1>1, <1>2, PutCalled
<1>5. ClientInv'
  <2> DEFINE p == prog[c]
  <2>1. prog' = [prog EXCEPT ![c] = p] /\ p \in ClientState /\ p.pc = "put" /\ p.ver = w
    BY <1>0, <1>1 DEF ClientInv, w
  <2> HIDE DEF p
  <2> QED
    BY <1>1, <1>2, <1>3, <1>4, <2>1, ClientMoves
<1>6. Appender(c)'
  <2>1. Appender(c)
    BY <1>1 DEF AppendInv
  <2>2. List' = List /\ \A i : Has(c, i)' <=> Has(c, i)
    BY <1>4 DEF Has, List
  <2> QED
    BY <1>1, <1>4, <2>1, <2>2 DEF Appender
<1>7. \A i \in Nat : Accounted(c, i) => Accounted(c, i)'
  BY <1>1, <1>4 DEF Accounted, Putting
<1>8. AppendInv'
  BY <1>0, <1>1, <1>4, <1>6, <1>7, AppendMoves
<1> QED
  BY <1>1, <1>4, <1>5, <1>8 DEF BaseInv

\* PutJson returns.  After OK the entry is in the list; after ErrVersion it is not
\* and the client reads again; after ErrMaybe the iteration counts as one that may
\* have happened.
LEMMA AppendPutDoneStep ==
    ASSUME BaseInv, AppendInv, NEW c \in Clerk, AppendPutDone(c)
    PROVE  BaseInv' /\ AppendInv' /\ test' = "append"
<1>0. KVInv /\ PendInv /\ ClientInv
  BY DEF BaseInv
<1> DEFINE q == prog[c]
           e == Result(c).err
           p == IF e = "OK" THEN [q EXCEPT !.pc = "top", !.i = q.i + 1, !.oks = q.oks \cup {q.i}]
                ELSE IF e = "ErrMaybe"
                THEN [q EXCEPT !.pc = "top", !.i = q.i + 1, !.maybes = q.maybes \cup {q.i}]
                ELSE [q EXCEPT !.pc = "get"]
<1>1. /\ test = "append" /\ test' = test /\ q.pc = "put" /\ Return(c)
      /\ prog' = [prog EXCEPT ![c] = p]
  BY DEF AppendPutDone, At, Goto
<1>2. /\ PendInv' /\ UNCHANGED <<data, took>>
      /\ op[c] # None /\ op'[c] = None
      /\ \A d \in Clerk \ {c} : op'[d] = op[d] /\ call'[d] = call[d] /\ reply'[d] = reply[d]
      /\ Exists' = Exists /\ Latest' = Latest
      /\ Putting(c) => /\ e \in {"OK", "ErrVersion", "ErrMaybe"}
                       /\ e = "OK" => op[c].id \in took
                       /\ e = "ErrVersion" => op[c].id \notin took
  BY <1>1, ReturnPend
<1>3. Putting(c)
  BY <1>0, <1>1, <1>2, OpKind DEF ClientInv
<1>4. Appender(c) /\ Exists
  BY <1>1 DEF AppendInv
<1>5. KVInv'
  BY <1>0, <1>1, KVReturn
<1>6. /\ p \in ClientState /\ p.ver = q.ver
      /\ e = "OK" => /\ p.pc = "top" /\ p.i = q.i + 1 /\ p.oks = q.oks \cup {q.i}
                     /\ p.maybes = q.maybes
      /\ e = "ErrMaybe" => /\ p.pc = "top" /\ p.i = q.i + 1 /\ p.maybes = q.maybes \cup {q.i}
                           /\ p.oks = q.oks
      /\ e = "ErrVersion" => p.pc = "get" /\ p.i = q.i /\ p.oks = q.oks /\ p.maybes = q.maybes
  <2>1. /\ q \in ClientState /\ q.i \in Nat /\ q.oks \subseteq Nat /\ q.maybes \subseteq Nat
    BY <1>0, ClientType
  <2> HIDE DEF q, e
  <2>2. CASE e = "OK"
    <3> DEFINE i == q.i + 1
               s == q.oks \cup {q.i}
    <3>1. i \in Nat /\ s \in SUBSET Nat
      BY <2>1
    <3>2. p = [q EXCEPT !.pc = "top", !.i = i, !.oks = s]
      BY <2>2
    <3> HIDE DEF i, s, p
    <3>3. p \in ClientState
      BY <2>1, <3>1, <3>2 DEF ClientState
    <3>4. p.ver = q.ver /\ p.pc = "top" /\ p.i = i /\ p.oks = s /\ p.maybes = q.maybes
      BY <2>1, <3>2 DEF ClientState
    <3> QED
      BY <2>2, <3>3, <3>4 DEF i, s
  <2>3. CASE e = "ErrMaybe"
    <3> DEFINE i == q.i + 1
               s == q.maybes \cup {q.i}
    <3>1. i \in Nat /\ s \in SUBSET Nat
      BY <2>1
    <3>2. p = [q EXCEPT !.pc = "top", !.i = i, !.maybes = s]
      BY <2>3
    <3> HIDE DEF i, s, p
    <3>3. p \in ClientState
      BY <2>1, <3>1, <3>2 DEF ClientState
    <3>4. p.ver = q.ver /\ p.pc = "top" /\ p.i = i /\ p.maybes = s /\ p.oks = q.oks
      BY <2>1, <3>2 DEF ClientState
    <3> QED
      BY <2>3, <3>3, <3>4 DEF i, s
  <2>4. CASE e \notin {"OK", "ErrMaybe"}
    BY <2>1, <2>4 DEF ClientState
  <2> QED
    BY <2>2, <2>3, <2>4
<1>7. q.ver <= Latest /\ q.i \in Nat
  BY <1>0, ClientType DEF ClientInv
<1> HIDE DEF p, e
<1>8. ~Putting(c)' /\ ~Reading(c)'
  BY <1>2 DEF Putting, Reading
<1>9. p.pc \in {"top", "get"}
  BY <1>2, <1>3, <1>6
<1>10. ClientInv'
  <2> HIDE DEF q
  <2> QED
    BY <1>1, <1>2, <1>4, <1>6, <1>7, <1>8, <1>9, ClientMoves
<1>11. prog'[c] = p /\ \A d \in Clerk \ {c} : prog'[d] = prog[d]
  BY <1>0, <1>1 DEF ClientInv
<1>12. List' = List /\ \A i : Has(c, i)' <=> Has(c, i)
  BY <1>2 DEF Has, List
<1>13. p.oks \cup p.maybes = 0..(p.i - 1)
  <2>1. q.oks \cup q.maybes = 0..(q.i - 1)
    BY <1>4 DEF Appender
  <2> HIDE DEF q
  <2>2. CASE e = "ErrVersion"
    BY <1>6, <2>1, <2>2
  <2>3. CASE e \in {"OK", "ErrMaybe"}
    <3>1. p.oks \cup p.maybes = (q.oks \cup q.maybes) \cup {q.i} /\ p.i = q.i + 1
      BY <1>6, <2>3
    <3>2. 0..((q.i + 1) - 1) = (0..(q.i - 1)) \cup {q.i}
      BY <1>7
    <3> QED
      BY <2>1, <3>1, <3>2
  <2> QED
    BY <1>2, <1>3, <2>2, <2>3
<1>14. \A i \in p.oks : Has(c, i)
  BY <1>2, <1>3, <1>4, <1>6 DEF Appender
<1>15. Appender(c)'
  BY <1>8, <1>9, <1>11, <1>12, <1>13, <1>14 DEF Appender
<1>16. \A i \in Nat : Accounted(c, i) => Accounted(c, i)'
  <2> SUFFICES ASSUME NEW i \in Nat, Accounted(c, i) PROVE i \in p.oks \cup p.maybes
    BY <1>11 DEF Accounted
  <2>1. CASE i \in q.oks \cup q.maybes
    BY <1>2, <1>3, <1>6, <2>1
  <2>2. CASE i = q.i /\ op[c].id \in took
    BY <1>2, <1>3, <1>6, <2>2
  <2> QED
    BY <2>1, <2>2 DEF Accounted
<1>17. AppendInv'
  BY <1>0, <1>1, <1>2, <1>11, <1>15, <1>16, AppendMoves
<1> QED
  BY <1>1, <1>2, <1>5, <1>10, <1>17 DEF BaseInv

-----------------------------------------------------------------------------
(* The put test *)

\* The Put that made version v + 1 is one that the client of clerk c has counted or
\* is going to count.
CountedBy(c, v) ==
    \/ v \in prog[c].oks \cup prog[c].maybes
    \/ prog[c].ver = v /\ Putting(c) /\ op[c].id \in took
    \/ prog[c].ver = v /\ prog[c].pc = "get" /\ prog[c].err \in {"OK", "ErrMaybe"}

Putter(c) ==
    /\ Reading(c) /\ call[c] = "reply" => reply[c].value[2] = reply[c].version - 1
    /\ prog[c].oks \cup prog[c].maybes # {} => Exists
    /\ IsFiniteSet(prog[c].oks) /\ IsFiniteSet(prog[c].maybes)

\* Every value tells the version that its Put named, and every version has a
\* client that counts the Put that made it.
PutsInv ==
    test = "put" =>
      /\ Exists => data[SharedKey].value[2] = Latest - 1
      /\ \A c \in Clerk : Putter(c)
      /\ \A v \in Nat : v < Latest => \E c \in Clerk : CountedBy(c, v)

\* A step of the client of clerk c that leaves the map alone.
LEMMA PutsMoves ==
    ASSUME KVInv, PutsInv, NEW c \in Clerk, UNCHANGED <<data, took, test>>,
           \A d \in Clerk \ {c} : /\ op'[d] = op[d] /\ prog'[d] = prog[d]
                                  /\ call'[d] = call[d] /\ reply'[d] = reply[d],
           test = "put" => Putter(c)',
           test = "put" => \A v \in Nat : CountedBy(c, v) => CountedBy(c, v)'
    PROVE  PutsInv'
<1> SUFFICES ASSUME test = "put" PROVE PutsInv'
  BY DEF PutsInv
<1>1. Exists' = Exists /\ Latest' = Latest
  BY DEF Exists, Latest
<1>2. \A d \in Clerk \ {c} : \A v : CountedBy(d, v)' <=> CountedBy(d, v)
  BY DEF CountedBy, Putting
<1>3. \A d \in Clerk : Putter(d)'
  <2> SUFFICES ASSUME NEW d \in Clerk, d # c PROVE Putter(d)'
    OBVIOUS
  <2>1. Putter(d)
    BY DEF PutsInv
  <2>2. Reading(d)' <=> Reading(d)
    BY DEF Reading
  <2> QED
    BY <1>1, <2>1, <2>2 DEF Putter
<1>4. \A v \in Nat : v < Latest => \E d \in Clerk : CountedBy(d, v)'
  <2> SUFFICES ASSUME NEW v \in Nat, v < Latest PROVE \E d \in Clerk : CountedBy(d, v)'
    OBVIOUS
  <2>1. PICK d \in Clerk : CountedBy(d, v)
    BY DEF PutsInv
  <2>2. CountedBy(d, v)'
    BY <1>2, <2>1
  <2> QED
    BY <2>2
<1> QED
  BY <1>1, <1>3, <1>4 DEF PutsInv

\* A step that neither answers nor stores.
LEMMA PutsIdle ==
    ASSUME KVInv, PutsInv, Idle
    PROVE  PutsInv'
<1> SUFFICES ASSUME test = "put" PROVE PutsInv'
  BY DEF PutsInv, Idle
<1>1. Exists' = Exists /\ Latest' = Latest /\ UNCHANGED <<data, op, took, test, prog>>
  BY DEF Exists, Latest, Idle
<1>2. \A d \in Clerk : /\ \A v : CountedBy(d, v)' <=> CountedBy(d, v)
                       /\ Reading(d)' <=> Reading(d)
  BY <1>1 DEF CountedBy, Putting, Reading
<1>3. ASSUME NEW d \in Clerk PROVE Putter(d)'
  <2>1. Putter(d)
    BY DEF PutsInv
  <2>2. Reading(d)' /\ call'[d] = "reply" => reply'[d] = reply[d] /\ call[d] = "reply"
    BY <1>2 DEF Idle, ReadersKeep
  <2> QED
    BY <1>1, <1>2, <2>1, <2>2 DEF Putter
<1> QED
  BY <1>1, <1>2, <1>3 DEF PutsInv

\* The handler of Get hands out the value together with its version.
LEMMA PutsAnswers ==
    ASSUME KVInv, PutsInv, NEW c \in Clerk, Answering(c)
    PROVE  PutsInv'
<1>1. /\ UNCHANGED <<data, op, took, test, prog>>
      /\ \A d \in Clerk \ {c} : call'[d] = call[d] /\ reply'[d] = reply[d]
      /\ reply'[c].value = data[SharedKey].value /\ reply'[c].version = data[SharedKey].version
      /\ Exists
  BY DEF Answering
<1>2. ASSUME test = "put" PROVE Putter(c)'
  <2>1. Putter(c) /\ data[SharedKey].value[2] = Latest - 1 /\ Latest = data[SharedKey].version
    BY <1>1, <1>2, LatestType DEF PutsInv
  <2>2. Exists' = Exists
    BY <1>1 DEF Exists
  <2> QED
    BY <1>1, <2>1, <2>2 DEF Putter
<1>3. \A v \in Nat : CountedBy(c, v) => CountedBy(c, v)'
  BY <1>1 DEF CountedBy, Putting
<1> QED
  BY <1>1, <1>2, <1>3, PutsMoves

\* A Put that lands makes a version that its client counts.
LEMMA PutsLands ==
    ASSUME BaseInv, PutsInv, Landing
    PROVE  PutsInv'
<1> SUFFICES ASSUME test = "put" PROVE PutsInv'
  BY DEF PutsInv, Landing
<1>0. KVInv /\ PendInv /\ ClientInv /\ Latest \in Nat
  BY LatestType DEF BaseInv
<1>1. PICK c \in Clerk : Lands(c)
  BY DEF Landing
<1>2. UNCHANGED <<op, test, prog>> /\ ReadersKeep
  BY DEF Landing
<1>3. /\ Putting(c) /\ took' = took \cup {op[c].id} /\ prog[c].ver = Latest
      /\ Exists' /\ data'[SharedKey] = [value |-> <<c, Latest>>, version |-> Latest + 1]
      /\ Latest' = Latest + 1
  BY <1>1 DEF Lands, PutValue
<1>4. data'[SharedKey].value[2] = Latest' - 1
  BY <1>0, <1>3
<1>5. ASSUME NEW d \in Clerk PROVE Putter(d)'
  <2>1. Putter(d)
    BY DEF PutsInv
  <2>2. Reading(d)' <=> Reading(d)
    BY <1>2 DEF Reading
  <2>3. Reading(d) /\ call'[d] = "reply" => reply'[d] = reply[d] /\ call[d] = "reply"
    BY <1>2 DEF ReadersKeep
  <2> QED
    BY <1>2, <1>3, <2>1, <2>2, <2>3 DEF Putter
<1>6. ASSUME NEW v \in Nat, v < Latest' PROVE \E d \in Clerk : CountedBy(d, v)'
  <2>1. CASE v = Latest
    <3>1. CountedBy(c, v)'
      BY <1>2, <1>3, <2>1 DEF CountedBy, Putting
    <3> QED
      BY <3>1
  <2>2. CASE v < Latest
    <3>1. PICK d \in Clerk : CountedBy(d, v)
      BY <2>2 DEF PutsInv
    <3>2. CountedBy(d, v)'
      BY <1>2, <1>3, <3>1 DEF CountedBy, Putting
    <3> QED
      BY <3>2
  <2> QED
    BY <1>0, <1>3, <1>6, <2>1, <2>2
<1> QED
  BY <1>3, <1>4, <1>5, <1>6 DEF PutsInv

\* OnePut calls Put under the version that it knows.
LEMMA OnePutStep ==
    ASSUME Covers, BaseInv, PutsInv, NEW c \in Clerk, OnePut(c)
    PROVE  BaseInv' /\ PutsInv' /\ test' = "put"
<1>0. KVInv /\ PendInv /\ ClientInv
  BY DEF BaseInv
<1> DEFINE w == prog[c].ver
           v == <<c, w>>
           p == [prog[c] EXCEPT !.pc = "put"]
<1>1. /\ test = "put" /\ test' = test /\ prog[c].pc \in {"top", "put"} /\ tsPut(c, v, w)
      /\ prog' = [prog EXCEPT ![c] = p]
  BY DEF OnePut, At, Goto
<1>2. v \in Value /\ w \in Nat /\ w <= Latest
  BY <1>0, ClientType, PutValueType DEF ClientInv
<1>3. /\ p \in ClientState /\ p.pc = "put" /\ p.ver = w
      /\ p.oks = prog[c].oks /\ p.maybes = prog[c].maybes
  BY <1>0, ClientType DEF ClientState
<1> HIDE DEF p
<1>4. prog'[c] = p /\ \A d \in Clerk \ {c} : prog'[d] = prog[d]
  BY <1>0, <1>1 DEF ClientInv
<1>5. PutValue(c)' = v
  BY <1>1, <1>3, <1>4 DEF PutValue
<1> HIDE DEF v, w
<1>6. /\ KVInv' /\ PendInv'
      /\ UNCHANGED <<data, took>> /\ op[c] = None /\ Putting(c)' /\ ~Reading(c)'
      /\ op'[c].value = v /\ op'[c].version = w
      /\ \A d \in Clerk \ {c} : op'[d] = op[d] /\ call'[d] = call[d] /\ reply'[d] = reply[d]
      /\ Exists' = Exists /\ Latest' = Latest
  BY <1>1, <1>2, PutCalled
<1>7. ClientInv'
  BY <1>1, <1>2, <1>3, <1>5, <1>6, ClientMoves
<1>8. Putter(c)'
  <2>1. Putter(c)
    BY <1>1 DEF PutsInv
  <2> QED
    BY <1>3, <1>4, <1>6, <2>1 DEF Putter
<1>9. \A n \in Nat : CountedBy(c, n) => CountedBy(c, n)'
  BY <1>1, <1>3, <1>4, <1>6 DEF CountedBy, Putting
<1>10. PutsInv'
  BY <1>0, <1>1, <1>4, <1>6, <1>8, <1>9, PutsMoves
<1> QED
  BY <1>1, <1>6, <1>7, <1>10 DEF BaseInv

\* The Put of OnePut returns; unless it was refused at the first try it is counted
\* when the Get that follows returns.
LEMMA OnePutDoneStep ==
    ASSUME BaseInv, PutsInv, NEW c \in Clerk, OnePutDone(c)
    PROVE  BaseInv' /\ PutsInv' /\ test' = "put"
<1>0. KVInv /\ PendInv /\ ClientInv
  BY DEF BaseInv
<1> DEFINE q == prog[c]
           e == Result(c).err
           p == [q EXCEPT !.pc = "get", !.err = e]
<1>1. /\ test = "put" /\ test' = test /\ q.pc = "put" /\ Return(c)
      /\ prog' = [prog EXCEPT ![c].pc = IF e = "ErrNoKey" THEN "fatal" ELSE "get", ![c].err = e]
  BY DEF OnePutDone, At
<1>2. test = "put" /\ test' = test /\ q.pc = "put" /\ Return(c)
  BY <1>1
<1>3. /\ PendInv' /\ UNCHANGED <<data, took>>
      /\ op[c] # None /\ op'[c] = None
      /\ \A d \in Clerk \ {c} : op'[d] = op[d] /\ call'[d] = call[d] /\ reply'[d] = reply[d]
      /\ Exists' = Exists /\ Latest' = Latest
      /\ Putting(c) => /\ op[c].version < Latest
                       /\ e \in {"OK", "ErrVersion", "ErrMaybe"}
                       /\ e = "ErrVersion" => op[c].id \notin took
  BY <1>2, ReturnPend
<1>4. Putting(c)
  BY <1>0, <1>2, <1>3, OpKind DEF ClientInv
<1>5. KVInv'
  BY <1>0, <1>2, KVReturn
<1>6. prog' = [prog EXCEPT ![c] = p]
  BY <1>1, <1>3, <1>4
<1>7. Exists
  <2>1. op[c].version \in Nat
    BY <1>0, <1>3, OpKind
  <2> QED
    BY <1>0, <1>3, <1>4, <2>1, LatestType
<1>8. /\ p \in ClientState /\ p.pc = "get" /\ p.ver = q.ver /\ p.err = e
      /\ p.oks = q.oks /\ p.maybes = q.maybes
  <2>1. q \in ClientState /\ e \in {"OK", "ErrVersion", "ErrMaybe"}
    BY <1>0, <1>3, <1>4, ClientType
  <2> HIDE DEF q, e
  <2> QED
    BY <2>1 DEF ClientState
<1>9. p.ver <= Latest
  BY <1>0, <1>8 DEF ClientInv
<1> HIDE DEF p, e
<1>10. prog'[c] = p /\ \A d \in Clerk \ {c} : prog'[d] = prog[d]
  BY <1>0, <1>6 DEF ClientInv
<1>11. ~Putting(c)' /\ ~Reading(c)'
  BY <1>3 DEF Putting, Reading
<1>12. ClientInv'
  BY <1>2, <1>3, <1>6, <1>7, <1>8, <1>9, <1>11, ClientMoves
<1>13. Putter(c)'
  <2>1. Putter(c)
    BY <1>2 DEF PutsInv
  <2> QED
    BY <1>3, <1>8, <1>10, <1>11, <2>1 DEF Putter
<1>14. \A n \in Nat : CountedBy(c, n) => CountedBy(c, n)'
  BY <1>2, <1>3, <1>4, <1>8, <1>10 DEF CountedBy
<1>15. PutsInv'
  BY <1>0, <1>2, <1>3, <1>10, <1>13, <1>14, PutsMoves
<1> QED
  BY <1>2, <1>3, <1>5, <1>12, <1>15 DEF BaseInv

\* OnePut calls Get.
LEMMA OnePutGetStep ==
    ASSUME BaseInv, PutsInv, NEW c \in Clerk, OnePutGet(c)
    PROVE  BaseInv' /\ PutsInv' /\ test' = "put"
<1>0. KVInv /\ PendInv /\ ClientInv
  BY DEF BaseInv
<1>1. test = "put" /\ test' = test /\ prog[c].pc = "get" /\ tsGet(c) /\ prog' = prog
  BY DEF OnePutGet, At
<1>2. Exists
  BY <1>0, <1>1 DEF ClientInv
<1>3. /\ KVInv' /\ PendInv'
      /\ UNCHANGED <<data, took>> /\ op[c] = None /\ Reading(c)' /\ ~Putting(c)' /\ call'[c] = "request"
      /\ \A d \in Clerk \ {c} : op'[d] = op[d] /\ call'[d] = call[d] /\ reply'[d] = reply[d]
      /\ Exists' = Exists /\ Latest' = Latest
  BY <1>1, <1>2, GetCalled
<1>4. ClientInv'
  <2> DEFINE p == prog[c]
  <2>1. prog' = [prog EXCEPT ![c] = p] /\ p \in ClientState /\ p.pc = "get" /\ p.ver <= Latest
    BY <1>0, <1>1 DEF ClientInv
  <2> HIDE DEF p
  <2> QED
    BY <1>1, <1>2, <1>3, <2>1, ClientMoves
<1>5. Putter(c)'
  <2>1. Putter(c)
    BY <1>1 DEF PutsInv
  <2> QED
    BY <1>1, <1>3, <2>1 DEF Putter
<1>6. \A v \in Nat : CountedBy(c, v) => CountedBy(c, v)'
  BY <1>1, <1>3 DEF CountedBy, Putting
<1>7. PutsInv'
  BY <1>0, <1>1, <1>3, <1>5, <1>6, PutsMoves
<1> QED
  BY <1>1, <1>3, <1>4, <1>7 DEF BaseInv

\* The Get of OnePut returns: a version one above the client's own Put shows that
\* Put's value, so that the test does not fail, and the Put is counted.
LEMMA OnePutGotStep ==
    ASSUME BaseInv, PutsInv, NEW c \in Clerk, OnePutGot(c)
    PROVE  BaseInv' /\ PutsInv' /\ test' = "put"
<1>0. KVInv /\ PendInv /\ ClientInv
  BY DEF BaseInv
<1> DEFINE q == prog[c]
           r == Result(c)
           wrong == /\ q.err = "OK" /\ r.version = q.ver + 1
                    /\ r.value[1] # c /\ r.value[2] # q.ver
           pc == IF r.err # "OK" \/ wrong THEN "fatal"
                 ELSE IF q.err = "ErrVersion" THEN "put" ELSE "top"
           oks == IF q.err = "OK" THEN q.oks \cup {q.ver} ELSE q.oks
           maybes == IF q.err = "ErrMaybe" THEN q.maybes \cup {q.ver} ELSE q.maybes
           p == [q EXCEPT !.pc = pc, !.ver = r.version, !.oks = oks, !.maybes = maybes]
<1>1. /\ test = "put" /\ test' = test /\ q.pc = "get" /\ Return(c)
      /\ prog' = [prog EXCEPT ![c] = p]
  BY DEF OnePutGot, At
<1>2. /\ PendInv' /\ UNCHANGED <<data, took>>
      /\ op[c] # None /\ op'[c] = None
      /\ \A d \in Clerk \ {c} : op'[d] = op[d] /\ call'[d] = call[d] /\ reply'[d] = reply[d]
      /\ Exists' = Exists /\ Latest' = Latest
      /\ Reading(c) => /\ call[c] = "reply" /\ r = reply[c] /\ r.err = "OK" /\ r.version \in 1..Latest
  BY <1>1, ReturnPend
<1>3. Reading(c) /\ ~Putting(c) /\ Exists
  BY <1>0, <1>1, <1>2, OpKind DEF ClientInv
<1>4. KVInv'
  BY <1>0, <1>1, KVReturn
<1>5. Putter(c)
  BY <1>1 DEF PutsInv
<1>6. r.err = "OK" /\ r.version \in Nat /\ r.version <= Latest /\ r.value[2] = r.version - 1
  <2>1. Latest \in Nat
    BY <1>0, LatestType
  <2> QED
    BY <1>2, <1>3, <1>5, <2>1 DEF Putter
<1>7. /\ q \in ClientState /\ q.ver \in Nat /\ q.oks \subseteq Nat /\ q.maybes \subseteq Nat
      /\ q.err \in {"OK", "ErrVersion", "ErrMaybe"}
  BY <1>0, ClientType
<1>8. pc \in {"put", "top"}
  <2> HIDE DEF r, q
  <2>1. ~wrong
    BY <1>6, <1>7
  <2> QED
    BY <1>6, <2>1
<1>9. oks \subseteq Nat /\ maybes \subseteq Nat /\ IsFiniteSet(oks) /\ IsFiniteSet(maybes)
  <2>1. IsFiniteSet(q.oks) /\ IsFiniteSet(q.maybes)
    BY <1>5 DEF Putter
  <2> HIDE DEF q
  <2> QED
    BY <1>7, <2>1, FS_AddElement
<1>10. /\ p \in ClientState /\ p.pc = pc /\ p.ver = r.version /\ p.oks = oks /\ p.maybes = maybes
  <2> HIDE DEF q, r, pc, oks, maybes
  <2> QED
    BY <1>6, <1>7, <1>8, <1>9 DEF ClientState
<1> HIDE DEF p
<1>11. prog'[c] = p /\ \A d \in Clerk \ {c} : prog'[d] = prog[d]
  BY <1>0, <1>1 DEF ClientInv
<1>12. ~Putting(c)' /\ ~Reading(c)'
  BY <1>2 DEF Putting, Reading
<1>13. ClientInv'
  <2> HIDE DEF q, r, pc, oks, maybes
  <2> QED
    BY <1>1, <1>2, <1>6, <1>8, <1>10, <1>12, ClientMoves
<1>14. Putter(c)'
  <2> HIDE DEF q, r, pc, oks, maybes
  <2> QED
    BY <1>2, <1>3, <1>9, <1>10, <1>11, <1>12 DEF Putter
<1>15. \A n \in Nat : CountedBy(c, n) => n \in oks \cup maybes
  BY <1>3, <1>7 DEF CountedBy
<1>16. \A n \in Nat : CountedBy(c, n) => CountedBy(c, n)'
  <2> HIDE DEF q, r, pc, oks, maybes
  <2> QED
    BY <1>10, <1>11, <1>15 DEF CountedBy
<1>17. PutsInv'
  BY <1>0, <1>1, <1>2, <1>11, <1>14, <1>16, PutsMoves
<1> QED
  BY <1>1, <1>2, <1>4, <1>13, <1>17 DEF BaseInv

-----------------------------------------------------------------------------
(* PutAtLeastOnce *)

\* The client of clerk `one' is alone and knows the version that the key has
\* before its Put.
OnceBy(one) ==
    /\ \A c \in Clerk \ {one} : prog[c].pc = "done" /\ prog[c].i = 0 /\ op[c] = None
    /\ prog[one].pc # "get"
    /\ op[one] = None => prog[one].ver = Latest
    /\ op[one] # None =>
         IF op[one].id \in took
         THEN data[SharedKey] = [value |-> <<one, prog[one].i>>, version |-> prog[one].ver + 1]
              /\ Latest = prog[one].ver + 1
         ELSE Latest = prog[one].ver
    /\ prog[one].pc \in {"top", "done"} /\ prog[one].i > 0 =>
         data[SharedKey] = [value |-> <<one, prog[one].i - 1>>, version |-> prog[one].ver]

OnceInv == test = "atleast" => \E one \in Clerk : OnceBy(one)

\* A step that stores nothing.
LEMMA OnceKeeps ==
    ASSUME OnceInv, UNCHANGED <<data, op, took, test, prog>>
    PROVE  OnceInv'
  BY DEF OnceInv, OnceBy, Latest, Exists

\* Only the one client's Put can land.
LEMMA OnceLands ==
    ASSUME BaseInv, OnceInv, Landing
    PROVE  OnceInv'
<1> SUFFICES ASSUME test = "atleast" PROVE OnceInv'
  BY DEF OnceInv, Landing
<1>0. KVInv /\ PendInv /\ ClientInv /\ Latest \in Nat
  BY LatestType DEF BaseInv
<1>1. PICK one \in Clerk : OnceBy(one)
  BY DEF OnceInv
<1>2. PICK c \in Clerk : Lands(c)
  BY DEF Landing
<1>3. UNCHANGED <<op, test, prog>>
  BY DEF Landing
<1>4. /\ Putting(c) /\ took' = took \cup {op[c].id}
      /\ prog[c].pc = "put" /\ prog[c].ver = Latest
      /\ data'[SharedKey] = [value |-> <<c, prog[c].i>>, version |-> Latest + 1]
      /\ Latest' = Latest + 1
  BY <1>2 DEF Lands, PutValue
<1>5. c = one
  BY <1>1, <1>4 DEF OnceBy, Putting
<1>6. OnceBy(one)'
  BY <1>1, <1>3, <1>4, <1>5 DEF OnceBy, Putting
<1> QED
  BY <1>6 DEF OnceInv

\* PutAtLeastOnce calls Put.
LEMMA PutAtLeastOnceStep ==
    ASSUME Covers, BaseInv, OnceInv, NEW c \in Clerk, PutAtLeastOnce(c)
    PROVE  BaseInv' /\ OnceInv' /\ test' = "atleast"
<1>0. KVInv /\ PendInv /\ ClientInv
  BY DEF BaseInv
<1> DEFINE w == prog[c].ver
           v == <<c, prog[c].i>>
           p == [prog[c] EXCEPT !.pc = "put"]
<1>1. /\ test = "atleast" /\ test' = test /\ prog[c].pc \in {"top", "put"} /\ tsPut(c, v, w)
      /\ prog' = [prog EXCEPT ![c] = p]
  BY DEF PutAtLeastOnce, At, Goto
<1>2. v \in Value /\ w \in Nat /\ w <= Latest
  BY <1>0, ClientType, PutValueType DEF ClientInv
<1>3. p \in ClientState /\ p.pc = "put" /\ p.ver = w /\ p.i = prog[c].i
  BY <1>0, ClientType DEF ClientState
<1> HIDE DEF p
<1>4. prog'[c] = p /\ \A d \in Clerk \ {c} : prog'[d] = prog[d]
  BY <1>0, <1>1 DEF ClientInv
<1>5. PutValue(c)' = v
  BY <1>1, <1>3, <1>4 DEF PutValue
<1>6. PICK one \in Clerk : OnceBy(one)
  BY <1>1 DEF OnceInv
<1>7. c = one /\ prog[c].ver = w
  BY <1>1, <1>6 DEF OnceBy
<1> HIDE DEF v, w
<1>8. /\ KVInv' /\ PendInv'
      /\ UNCHANGED <<data, took>> /\ op[c] = None /\ Putting(c)' /\ ~Reading(c)'
      /\ op'[c].value = v /\ op'[c].version = w /\ op'[c].id \notin took
      /\ \A d \in Clerk \ {c} : op'[d] = op[d] /\ call'[d] = call[d] /\ reply'[d] = reply[d]
      /\ Exists' = Exists /\ Latest' = Latest
  BY <1>1, <1>2, PutCalled
<1>9. ClientInv'
  BY <1>1, <1>2, <1>3, <1>5, <1>8, ClientMoves
<1>10. OnceBy(one)'
  BY <1>3, <1>4, <1>6, <1>7, <1>8 DEF OnceBy, Putting
<1>11. OnceInv'
  BY <1>10 DEF OnceInv
<1> QED
  BY <1>1, <1>8, <1>9, <1>11 DEF BaseInv

\* The Put of PutAtLeastOnce returns.  It was answered, so it is no longer under the
\* latest version; as nobody else puts, it was itself the Put that made the next.
LEMMA PutAtLeastOnceDoneStep ==
    ASSUME BaseInv, OnceInv, NEW c \in Clerk, PutAtLeastOnceDone(c)
    PROVE  BaseInv' /\ OnceInv' /\ test' = "atleast"
<1>0. KVInv /\ PendInv /\ ClientInv
  BY DEF BaseInv
<1> DEFINE q == prog[c]
           e == Result(c).err
           i == IF e = "OK" THEN q.i + 1 ELSE q.i
           ver == q.ver + 1
           pc == IF e = "OK" THEN "top" ELSE "put"
           p == [q EXCEPT !.pc = pc, !.ver = ver, !.i = i]
<1>1. /\ test = "atleast" /\ test' = test /\ q.pc = "put" /\ Return(c)
      /\ prog' = [prog EXCEPT ![c].pc = IF e = "ErrNoKey" /\ prog[c].ver # 0 THEN "fatal"
                                        ELSE IF e = "OK" THEN "top" ELSE "put",
                              ![c].ver = IF e = "ErrNoKey" THEN @ ELSE @ + 1,
                              ![c].i = IF e = "OK" THEN @ + 1 ELSE @]
  BY DEF PutAtLeastOnceDone, At
<1>2. test = "atleast" /\ test' = test /\ q.pc = "put" /\ Return(c)
  BY <1>1
<1>3. /\ PendInv' /\ UNCHANGED <<data, took>>
      /\ op[c] # None /\ op'[c] = None
      /\ \A d \in Clerk \ {c} : op'[d] = op[d] /\ call'[d] = call[d] /\ reply'[d] = reply[d]
      /\ Exists' = Exists /\ Latest' = Latest
      /\ Putting(c) => /\ op[c].version < Latest
                       /\ e \in {"OK", "ErrVersion", "ErrMaybe"}
                       /\ e = "ErrVersion" => op[c].id \notin took
  BY <1>2, ReturnPend
<1>4. Putting(c) /\ op[c].version = q.ver
  BY <1>0, <1>2, <1>3, OpKind DEF ClientInv
<1>5. KVInv'
  BY <1>0, <1>2, KVReturn
<1>6. prog' = [prog EXCEPT ![c] = p]
  BY <1>1, <1>3, <1>4
<1>7. q \in ClientState /\ q.ver \in Nat /\ q.i \in Nat /\ Latest \in Nat
  BY <1>0, ClientType, LatestType
<1>8. pc \in {"top", "put"} /\ ver \in Nat /\ i \in Nat /\ ver <= Latest
  BY <1>3, <1>4, <1>7
<1>9. p \in ClientState /\ p.pc = pc /\ p.ver = ver /\ p.i = i
  <2> HIDE DEF q, e, i, ver, pc
  <2> QED
    BY <1>7, <1>8 DEF ClientState
<1>10. PICK one \in Clerk : OnceBy(one)
  BY <1>2 DEF OnceInv
<1>11. c = one
  BY <1>3, <1>10 DEF OnceBy
<1>12. /\ op[c].id \in took /\ Latest = ver /\ e \in {"OK", "ErrMaybe"}
       /\ data[SharedKey] = [value |-> <<c, q.i>>, version |-> ver]
  BY <1>3, <1>4, <1>7, <1>10, <1>11 DEF OnceBy
<1>13. pc = "top" => data[SharedKey] = [value |-> <<c, i - 1>>, version |-> ver]
  <2>1. e = "OK" => i - 1 = q.i
    BY <1>7
  <2> QED
    BY <1>12, <2>1
<1> HIDE DEF p, i, ver, pc
<1>14. prog'[c] = p /\ \A d \in Clerk \ {c} : prog'[d] = prog[d]
  BY <1>0, <1>6 DEF ClientInv
<1>15. ~Putting(c)' /\ ~Reading(c)'
  BY <1>3 DEF Putting, Reading
<1>16. ClientInv'
  <2> HIDE DEF q, e
  <2> QED
    BY <1>2, <1>3, <1>6, <1>8, <1>9, <1>15, ClientMoves
<1>17. OnceBy(one)'
  <2>1. \A d \in Clerk \ {one} : prog'[d].pc = "done" /\ prog'[d].i = 0 /\ op'[d] = None
    BY <1>3, <1>10, <1>11, <1>14 DEF OnceBy
  <2> HIDE DEF q, e
  <2> QED
    BY <1>3, <1>8, <1>9, <1>11, <1>12, <1>13, <1>14, <2>1 DEF OnceBy
<1>18. OnceInv'
  BY <1>17 DEF OnceInv
<1> QED
  BY <1>2, <1>3, <1>5, <1>16, <1>18 DEF BaseInv

-----------------------------------------------------------------------------
(* All tests *)

TestInv == BaseInv /\ AppendInv /\ PutsInv /\ OnceInv

\* A client sees the done signal.
LEMMA DoneStep ==
    ASSUME TestInv, NEW c \in Clerk, Done(c)
    PROVE  TestInv'
<1>0. KVInv /\ PendInv /\ ClientInv /\ BaseInv /\ AppendInv /\ PutsInv /\ OnceInv
  BY DEF TestInv, BaseInv
<1> DEFINE p == [prog[c] EXCEPT !.pc = "done"]
<1>1. /\ prog[c].pc = "top" /\ op[c] = None /\ UNCHANGED test
      /\ UNCHANGED <<data, op, first, call, reply, late, issued, took, returned>>
      /\ prog' = [prog EXCEPT ![c] = p]
  BY DEF Done, Goto, vars, clerkVars
<1>2. /\ p \in ClientState /\ p.pc = "done" /\ p.ver = prog[c].ver /\ p.i = prog[c].i
      /\ p.oks = prog[c].oks /\ p.maybes = prog[c].maybes
  BY <1>0, ClientType DEF ClientState
<1> HIDE DEF p
<1>3. prog'[c] = p /\ \A d \in Clerk \ {c} : prog'[d] = prog[d]
  BY <1>0, <1>1 DEF ClientInv
<1>4. KVInv'
  BY <1>0, <1>1 DEF KVInv, TypeOK, OpInv, TookInv, ReplyInv, FirstInv, ReturnInv, Answer
<1>5. /\ Exists' = Exists /\ Latest' = Latest
      /\ \A d \in Clerk : (Putting(d)' <=> Putting(d)) /\ (Reading(d)' <=> Reading(d))
  BY <1>1 DEF Exists, Latest, Putting, Reading
<1>6. PendInv'
  BY <1>0, <1>1, <1>5 DEF PendInv
<1>7. ~Putting(c)' /\ ~Reading(c)' /\ p.ver <= Latest
  BY <1>0, <1>1, <1>2 DEF Putting, Reading, ClientInv
<1>8. ClientInv'
  BY <1>0, <1>1, <1>2, <1>3, <1>5, <1>7, ClientMoves
<1>9. AppendInv'
  <2>1. ASSUME test = "append" PROVE Appender(c)'
    <3>1. Appender(c) /\ \A i : Has(c, i)' <=> Has(c, i)
      BY <1>0, <1>1, <2>1 DEF AppendInv, Has, List
    <3> QED
      BY <1>2, <1>3, <1>7, <3>1 DEF Appender
  <2>2. \A i \in Nat : Accounted(c, i) => Accounted(c, i)'
    BY <1>1, <1>2, <1>3 DEF Accounted, Putting
  <2> QED
    BY <1>0, <1>1, <1>3, <2>1, <2>2, AppendMoves
<1>10. PutsInv'
  <2>1. ASSUME test = "put" PROVE Putter(c)'
    <3>1. Putter(c)
      BY <1>0, <2>1 DEF PutsInv
    <3> QED
      BY <1>2, <1>3, <1>5, <1>7, <3>1 DEF Putter
  <2>2. \A v \in Nat : CountedBy(c, v) => CountedBy(c, v)'
    BY <1>1, <1>2, <1>3 DEF CountedBy, Putting
  <2> QED
    BY <1>0, <1>1, <1>3, <2>1, <2>2, PutsMoves
<1>11. OnceInv'
  <2> SUFFICES ASSUME test = "atleast" PROVE OnceInv'
    BY <1>1 DEF OnceInv
  <2>1. PICK one \in Clerk : OnceBy(one)
    BY <1>0 DEF OnceInv
  <2>2. c = one
    BY <1>1, <2>1 DEF OnceBy
  <2>3. OnceBy(one)'
    BY <1>1, <1>2, <1>3, <1>5, <2>1, <2>2 DEF OnceBy
  <2> QED
    BY <2>3 DEF OnceInv
<1> QED
  BY <1>4, <1>6, <1>8, <1>9, <1>10, <1>11 DEF TestInv, BaseInv

-----------------------------------------------------------------------------
\* The invariant holds at the start.
LEMMA TestInitInv ==
    ASSUME Covers, TestInit
    PROVE  TestInv
<1>1. /\ op = [c \in Clerk |-> None] /\ first = [c \in Clerk |-> TRUE]
      /\ call = [c \in Clerk |-> "none"] /\ reply = [c \in Clerk |-> None]
      /\ late = {} /\ issued = {} /\ took = {} /\ returned = {}
      /\ test \in {"append", "put", "atleast"}
  BY DEF TestInit
<1>2. \A c \in Clerk : op[c] = None /\ ~Putting(c) /\ ~Reading(c) /\ call[c] = "none"
  BY <1>1 DEF Putting, Reading
<1> DEFINE s == [Start EXCEPT !.pc = "top"]
           t == [Start EXCEPT !.pc = "done"]
<1>3. /\ s \in ClientState /\ t \in ClientState /\ Start \in ClientState
      /\ \A q \in {Start, s, t} : /\ q.pc \in {"top", "done"} /\ q.i = 0 /\ q.ver = 0
                                  /\ q.oks = {} /\ q.maybes = {}
      /\ t.pc = "done" /\ t.i = 0
  <2>1. <<>> \in Seq(TestEntry)
    OBVIOUS
  <2>2. Start \in ClientState
    BY <2>1 DEF Start, ClientState
  <2>3. s \in ClientState /\ t \in ClientState
    BY <2>2 DEF ClientState
  <2>4. /\ Start.pc = "top" /\ Start.i = 0 /\ Start.ver = 0 /\ Start.oks = {} /\ Start.maybes = {}
    BY DEF Start
  <2>5. /\ s.pc = "top" /\ s.i = Start.i /\ s.ver = Start.ver /\ s.oks = Start.oks
        /\ s.maybes = Start.maybes
        /\ t.pc = "done" /\ t.i = Start.i /\ t.ver = Start.ver /\ t.oks = Start.oks
        /\ t.maybes = Start.maybes
    BY <2>2 DEF ClientState
  <2> HIDE DEF s, t
  <2> QED
    BY <2>2, <2>3, <2>4, <2>5
<1>4. /\ prog \in [Clerk -> {Start, s, t}]
      /\ test = "atleast" => \E one \in Clerk : \A c \in Clerk \ {one} : prog[c] = t
  <2>1. CASE test = "atleast"
    <3>1. PICK one \in Clerk :
            prog = [c \in Clerk |-> [Start EXCEPT !.pc = IF c = one THEN "top" ELSE "done"]]
      BY <2>1 DEF TestInit
    <3>2. \A c \in Clerk : [Start EXCEPT !.pc = IF c = one THEN "top" ELSE "done"]
                             = IF c = one THEN s ELSE t
      OBVIOUS
    <3> HIDE DEF s, t
    <3>3. prog = [c \in Clerk |-> IF c = one THEN s ELSE t]
      BY <3>1, <3>2
    <3> QED
      BY <3>3
  <2>2. CASE test # "atleast"
    <3>1. prog = [c \in Clerk |-> Start]
      BY <2>2 DEF TestInit
    <3> HIDE DEF s, t
    <3> QED
      BY <2>2, <3>1
  <2> QED
    BY <2>1, <2>2
<1> HIDE DEF s, t
<1>5. \A c \in Clerk : /\ prog[c].pc \in {"top", "done"} /\ prog[c].i = 0
                       /\ prog[c].ver = 0 /\ prog[c].oks = {} /\ prog[c].maybes = {}
  BY <1>3, <1>4
<1>6. /\ test = "append" => /\ data \in [{SharedKey} -> Entry]
                            /\ data[SharedKey].value = <<>> /\ data[SharedKey].version = 1
      /\ test # "append" => DOMAIN data = {} /\ data \in [{} -> Entry]
  <2>1. <<>> \in Seq(TestEntry)
    OBVIOUS
  <2>2. <<>> \in Value
    BY <2>1 DEF Covers, TestValue
  <2>3. \A v \in Value : [value |-> v, version |-> 1] \in Entry
    BY DEF Entry
  <2>4. [value |-> <<>>, version |-> 1] \in Entry
    BY <2>2, <2>3
  <2> QED
    BY <2>4 DEF TestInit
<1>7. TypeOK
  <2>1. \E keys \in SUBSET Key : data \in [keys -> Entry]
    BY <1>6, SharedKeyAssumption
  <2> QED
    BY <1>1, <2>1 DEF TypeOK
<1>8. KVInv
  BY <1>1, <1>7 DEF KVInv, OpInv, TookInv, ReplyInv, FirstInv, ReturnInv
<1>9. PendInv
  BY <1>1, <1>2 DEF PendInv
<1>10. Latest \in Nat
  BY <1>8, LatestType
<1>11. prog \in [Clerk -> ClientState]
  BY <1>3, <1>4
<1>12. ClientInv
  BY <1>1, <1>2, <1>5, <1>10, <1>11 DEF ClientInv
<1>13. AppendInv
  <2> SUFFICES ASSUME test = "append" PROVE AppendInv
    BY DEF AppendInv
  <2>1. List = <<>> /\ Exists /\ Latest = 1
    BY <1>6 DEF List, Exists, Latest
  <2>2. DOMAIN List = {} /\ Len(List) = 0 /\ List \in Seq(TestEntry)
    BY <2>1
  <2>3. \A c \in Clerk : Appender(c)
    <3>1. 0..(0 - 1) = {}
      OBVIOUS
    <3> QED
      BY <1>2, <1>5, <3>1 DEF Appender
  <2> QED
    BY <2>1, <2>2, <2>3 DEF AppendInv, Has
<1>14. PutsInv
  <2> SUFFICES ASSUME test = "put" PROVE PutsInv
    BY DEF PutsInv
  <2>1. ~Exists /\ Latest = 0
    BY <1>6 DEF Exists, Latest
  <2> QED
    BY <1>2, <1>5, <2>1, FS_EmptySet DEF PutsInv, Putter
<1>15. OnceInv
  <2> SUFFICES ASSUME test = "atleast" PROVE OnceInv
    BY DEF OnceInv
  <2>1. Latest = 0
    BY <1>6 DEF Exists, Latest
  <2>2. PICK one \in Clerk : \A c \in Clerk \ {one} : prog[c] = t
    BY <1>4
  <2>3. OnceBy(one)
    BY <1>2, <1>3, <1>5, <2>1, <2>2 DEF OnceBy
  <2> QED
    BY <2>3 DEF OnceInv
<1> QED
  BY <1>8, <1>9, <1>12, <1>13, <1>14, <1>15 DEF TestInv, BaseInv

\* Every step keeps the invariant.
LEMMA TestNextInv ==
    ASSUME Covers, TestInv, [TestNext]_testVars
    PROVE  TestInv'
<1>0. BaseInv /\ AppendInv /\ PutsInv /\ OnceInv /\ KVInv
  BY DEF TestInv, BaseInv
<1>1. ASSUME NEW c \in Clerk, ClientStep(c) PROVE TestInv'
  <2>1. CASE Done(c)
    BY <2>1, DoneStep
  <2>2. CASE AppendGet(c) \/ AppendPut(c)
    BY <1>0, <2>2, AppendGetStep, AppendPutStep DEF TestInv, PutsInv, OnceInv
  <2>3. CASE OnePut(c) \/ OnePutGet(c)
    BY <1>0, <2>3, OnePutStep, OnePutGetStep DEF TestInv, AppendInv, OnceInv
  <2>4. CASE PutAtLeastOnce(c)
    BY <1>0, <2>4, PutAtLeastOnceStep DEF TestInv, AppendInv, PutsInv
  <2> QED
    BY <1>1, <2>1, <2>2, <2>3, <2>4 DEF ClientStep
<1>2. ASSUME NEW c \in Clerk, ClientReturn(c) PROVE TestInv'
  <2>1. CASE AppendGot(c) \/ AppendPutDone(c)
    BY <1>0, <2>1, AppendGotStep, AppendPutDoneStep DEF TestInv, PutsInv, OnceInv
  <2>2. CASE OnePutDone(c) \/ OnePutGot(c)
    BY <1>0, <2>2, OnePutDoneStep, OnePutGotStep DEF TestInv, AppendInv, OnceInv
  <2>3. CASE PutAtLeastOnceDone(c)
    BY <1>0, <2>3, PutAtLeastOnceDoneStep DEF TestInv, AppendInv, PutsInv
  <2> QED
    BY <1>2, <2>1, <2>2, <2>3 DEF ClientReturn
<1>3. ASSUME BaseInv', Idle \/ Landing \/ \E d \in Clerk : Answering(d) PROVE TestInv'
  <2>1. CASE Idle
    <3>1. UNCHANGED <<data, op, took, test, prog>>
      BY <2>1 DEF Idle
    <3> QED
      BY <1>0, <1>3, <2>1, <3>1, AppendIdle, PutsIdle, OnceKeeps DEF TestInv
  <2>2. CASE Landing
    BY <1>0, <1>3, <2>2, AppendLands, PutsLands, OnceLands DEF TestInv
  <2>3. ASSUME NEW d \in Clerk, Answering(d) PROVE TestInv'
    <3>1. UNCHANGED <<data, op, took, test, prog>>
      BY <2>3 DEF Answering
    <3> QED
      BY <1>0, <1>3, <2>3, <3>1, AppendAnswers, PutsAnswers, OnceKeeps DEF TestInv
  <2> QED
    BY <1>3, <2>1, <2>2, <2>3
<1>4. ASSUME NEW c \in Clerk, Serve(c) \/ Lose(c) PROVE TestInv'
  BY <1>0, <1>3, <1>4, Behind
<1>5. ASSUME NEW o \in late, LatePut(o) /\ UNCHANGED <<test, prog>> PROVE TestInv'
  <2>1. PICK c : c \in Clerk
    BY <1>0, <1>5 DEF KVInv, TypeOK, Op, Id
  <2> QED
    BY <1>0, <1>3, <1>5, <2>1, Behind
<1>6. CASE UNCHANGED testVars
  <2>1. UNCHANGED <<data, op, first, call, reply, late, issued, took, returned, test, prog>>
    BY <1>6 DEF testVars, vars, clerkVars
  <2>2. KVInv'
    BY <1>0, <2>1 DEF KVInv, TypeOK, OpInv, TookInv, ReplyInv, FirstInv, ReturnInv, Answer
  <2>3. Exists' = Exists /\ Latest' = Latest /\ PendInv'
    BY <1>0, <2>1 DEF BaseInv, PendInv, Exists, Latest, Reading, Putting
  <2>4. ClientInv'
    BY <1>0, <2>1, <2>3, ClientKeeps, LatestType
  <2>5. Idle
    BY <2>1 DEF Idle, ReadersKeep
  <2> QED
    BY <1>3, <2>2, <2>3, <2>4, <2>5 DEF BaseInv
<1> QED
  BY <1>1, <1>2, <1>4, <1>5, <1>6 DEF TestNext

-----------------------------------------------------------------------------
(* What the tests check *)

\* The image of a finite set is finite and no larger.
LEMMA ImageSize ==
    ASSUME NEW S, IsFiniteSet(S), NEW I, NEW f \in [S -> I], \A y \in I : \E x \in S : f[x] = y
    PROVE  IsFiniteSet(I) /\ Cardinality(I) <= Cardinality(S)
<1>1. f \in Surjection(S, I)
  BY DEF Surjection
<1> QED
  BY <1>1, FS_Surjection

\* A set that is covered by two finite sets is no larger than both together.
LEMMA CoverSize ==
    ASSUME NEW n \in Nat, NEW A, IsFiniteSet(A), NEW B, IsFiniteSet(B), 0..n \subseteq A \cup B
    PROVE  n + 1 <= Cardinality(A) + Cardinality(B)
<1>1. /\ IsFiniteSet(A \cup B)
      /\ Cardinality(A \cup B) = Cardinality(A) + Cardinality(B) - Cardinality(A \cap B)
  BY FS_Union
<1>2. Cardinality(0..n) <= Cardinality(A \cup B)
  BY <1>1, FS_Subset
<1>3. Cardinality(0..n) = n + 1
  BY FS_Interval
<1>4. Cardinality(A) \in Nat /\ Cardinality(B) \in Nat /\ Cardinality(A \cap B) \in Nat
  <2>1. IsFiniteSet(A \cap B)
    BY FS_Subset
  <2> QED
    BY <2>1, FS_CardinalityType
<1> QED
  BY <1>1, <1>2, <1>3, <1>4

\* CheckAppends succeeds: the iterations 0..N before an entry were answered OK, and
\* then their entries stand before it, or ErrMaybe, so that no more were skipped than
\* the client had ErrMaybes.
LEMMA AppendsChecked ==
    ASSUME TestInv, AllDone, test = "append"
    PROVE  CheckAppends
<1>0. KVInv /\ ClientInv /\ AppendInv
  BY DEF TestInv, BaseInv
<1>1. /\ Exists /\ List \in Seq(TestEntry) /\ Len(List) \in Nat /\ DOMAIN List = 1..Len(List)
      /\ Latest = Len(List) + 1
      /\ \A j \in DOMAIN List : /\ List[j] \in TestEntry /\ List[j][1] \in Clerk
                                /\ List[j][2] \in Nat /\ List[j] = <<List[j][1], List[j][2]>>
  BY <1>0, ListFacts
<1> DEFINE Of(c, j) == {k \in 1..j : List[k][1] = c}
<1>2. Len(List) + 1 = data[SharedKey].version
  BY <1>0, <1>1, LatestType
<1>3. ASSUME NEW j \in DOMAIN List, NEW c \in Clerk, NEW n \in Nat, List[j] = <<c, n>>
      PROVE  /\ \A k \in Of(c, j - 1) : List[k][2] < n
             /\ (n + 1) - Cardinality(Of(c, j)) <= Nmaybe(c)
             /\ n + 1 <= Nok(c) + Nmaybe(c)
  <2>0. j \in 1..Len(List) /\ List[j][1] = c /\ List[j][2] = n
    BY <1>1, <1>3
  <2>1. \A k \in Of(c, j - 1) : List[k][2] < n
    <3> SUFFICES ASSUME NEW k \in 1..(j - 1), List[k][1] = c PROVE List[k][2] < n
      OBVIOUS
    <3>1. k \in DOMAIN List /\ k < j
      BY <1>1, <2>0
    <3> QED
      BY <1>0, <2>0, <3>1 DEF AppendInv
  <2>2. Appender(c)
    BY <1>0 DEF AppendInv
  <2>3. n \in prog[c].oks \cup prog[c].maybes
    <3>1. Has(c, n)
      BY <1>3 DEF Has
    <3>2. ~Putting(c)
      BY <1>0 DEF AllDone, ClientInv, Putting
    <3> QED
      BY <1>0, <3>1, <3>2 DEF AppendInv, Accounted
  <2>4. prog[c].oks \cup prog[c].maybes = 0..(prog[c].i - 1) /\ prog[c].i \in Nat
    BY <1>0, <2>2, ClientType DEF Appender
  <2>5. 0..n \subseteq prog[c].oks \cup prog[c].maybes
    BY <2>3, <2>4
  <2>6. IsFiniteSet(prog[c].oks) /\ IsFiniteSet(prog[c].maybes)
    <3>1. IsFiniteSet(0..(prog[c].i - 1))
      BY <2>4, FS_Interval
    <3> QED
      BY <2>4, <3>1, FS_Subset
  <2>7. n + 1 <= Nok(c) + Nmaybe(c)
    BY <2>5, <2>6, CoverSize DEF Nok, Nmaybe
  <2>8. IsFiniteSet(Of(c, j))
    <3>1. IsFiniteSet(1..j)
      BY <2>0, FS_Interval
    <3> QED
      BY <3>1, FS_Subset
  <2> DEFINE P == Of(c, j)
             f == [k \in P |-> List[k][2]]
             I == {f[k] : k \in P}
  <2>9. f \in [P -> I] /\ \A y \in I : \E k \in P : f[k] = y
    OBVIOUS
  <2>10. 0..n \subseteq I \cup prog[c].maybes
    <3> SUFFICES ASSUME NEW m \in 0..n, m \in prog[c].oks PROVE m \in I
      BY <2>5
    <3>1. PICK k \in DOMAIN List : List[k] = <<c, m>>
      BY <2>2 DEF Appender, Has
    <3>2. List[k][1] = c /\ List[k][2] = m
      BY <3>1
    <3>3. ~(j < k)
      <4>1. m \in Nat /\ ~(n < m)
        OBVIOUS
      <4> QED
        BY <1>0, <2>0, <3>2, <4>1 DEF AppendInv
    <3>4. k \in P
      BY <1>1, <2>0, <3>2, <3>3
    <3> QED
      BY <3>2, <3>4
  <2>11. IsFiniteSet(I) /\ Cardinality(I) <= Cardinality(P)
    <3> HIDE DEF P, f, I
    <3> QED
      BY <2>8, <2>9, ImageSize DEF P
  <2>12. n + 1 <= Cardinality(I) + Nmaybe(c)
    <3> HIDE DEF I
    <3> QED
      BY <2>6, <2>10, <2>11, CoverSize DEF Nmaybe
  <2>13. Cardinality(I) \in Nat /\ Cardinality(P) \in Nat /\ Nmaybe(c) \in Nat
    <3> HIDE DEF I, P
    <3> QED
      BY <2>6, <2>8, <2>11, FS_CardinalityType DEF Nmaybe, P
  <2>14. (n + 1) - Cardinality(P) <= Nmaybe(c)
    <3> HIDE DEF I, P
    <3> QED
      BY <2>11, <2>12, <2>13
  <2> QED
    BY <2>1, <2>7, <2>14
<1>4. \A j \in DOMAIN List :
        LET c == List[j][1]
            N == List[j][2]
        IN  /\ \A k \in Of(c, j - 1) : List[k][2] < N
            /\ (N + 1) - Cardinality(Of(c, j)) <= Nmaybe(c)
            /\ N + 1 <= Nok(c) + Nmaybe(c)
  <2> HIDE DEF Of
  <2> QED
    BY <1>1, <1>3
<1> QED
  BY <1>2, <1>4 DEF CheckAppends, List

\* CheckPutConcurrent succeeds: each version below the latest was counted.
LEMMA PutsChecked ==
    ASSUME TestInv, AllDone, test = "put"
    PROVE  CheckPutConcurrent
<1>0. KVInv /\ ClientInv /\ PutsInv /\ Latest \in Nat
  BY LatestType DEF TestInv, BaseInv
<1>1. \A c \in Clerk : ~Putting(c) /\ prog[c].pc = "done" /\ Putter(c)
  BY <1>0 DEF AllDone, ClientInv, Putting, PutsInv
<1> DEFINE Oks(c) == {<<c, "OK", v>> : v \in prog[c].oks}
           Maybes(c) == {<<c, "ErrMaybe", v>> : v \in prog[c].maybes}
           A(c) == Oks(c) \cup Maybes(c)
<1>2. Answered = UNION {A(c) : c \in Clerk}
  BY DEF Answered
<1>3. ASSUME NEW c \in Clerk PROVE IsFiniteSet(A(c))
  <2>0. IsFiniteSet(prog[c].oks) /\ IsFiniteSet(prog[c].maybes)
    BY <1>1 DEF Putter
  <2>1. IsFiniteSet(Oks(c))
    <3> DEFINE f == [v \in prog[c].oks |-> <<c, "OK", v>>]
    <3>1. f \in [prog[c].oks -> Oks(c)] /\ \A y \in Oks(c) : \E v \in prog[c].oks : f[v] = y
      OBVIOUS
    <3> HIDE DEF f, Oks
    <3> QED
      BY <2>0, <3>1, ImageSize
  <2>2. IsFiniteSet(Maybes(c))
    <3> DEFINE f == [v \in prog[c].maybes |-> <<c, "ErrMaybe", v>>]
    <3>1. f \in [prog[c].maybes -> Maybes(c)] /\ \A y \in Maybes(c) : \E v \in prog[c].maybes : f[v] = y
      OBVIOUS
    <3> HIDE DEF f, Maybes
    <3> QED
      BY <2>0, <3>1, ImageSize
  <2> HIDE DEF Oks, Maybes
  <2> QED
    BY <2>1, <2>2, FS_Union
<1>4. IsFiniteSet(Answered)
  <2> DEFINE f == [c \in Clerk |-> A(c)]
             F == {f[c] : c \in Clerk}
  <2>1. F = {A(c) : c \in Clerk}
    OBVIOUS
  <2>2. f \in [Clerk -> F] /\ \A y \in F : \E c \in Clerk : f[c] = y
    OBVIOUS
  <2>3. \A T \in F : IsFiniteSet(T)
    <3> HIDE DEF A
    <3> QED
      BY <1>3
  <2>4. IsFiniteSet(F)
    <3> HIDE DEF f, F
    <3> QED
      BY <2>2, ImageSize, ClerkAssumption
  <2>5. IsFiniteSet(UNION F)
    <3> HIDE DEF F
    <3> QED
      BY <2>3, <2>4, FS_UNION
  <2> QED
    BY <1>2, <2>1, <2>5
<1>5. \A v \in Nat : v < Latest => \E x \in Answered : x[3] = v
  <2> SUFFICES ASSUME NEW v \in Nat, v < Latest PROVE \E x \in Answered : x[3] = v
    OBVIOUS
  <2>1. PICK c \in Clerk : CountedBy(c, v)
    BY <1>0 DEF PutsInv
  <2>2. v \in prog[c].oks \cup prog[c].maybes
    BY <1>1, <2>1 DEF CountedBy
  <2>3. <<c, "OK", v>> \in A(c) \/ <<c, "ErrMaybe", v>> \in A(c)
    BY <2>2
  <2>4. A(c) \subseteq Answered
    BY <1>2
  <2>5. <<c, "OK", v>>[3] = v /\ <<c, "ErrMaybe", v>>[3] = v
    OBVIOUS
  <2> QED
    BY <2>3, <2>4, <2>5
<1>6. Puts \in Nat
  BY <1>4, FS_CardinalityType DEF Puts
<1>7. Latest <= Puts
  <2>1. CASE Latest = 0
    BY <1>6, <2>1
  <2>2. CASE Latest > 0
    <3> DEFINE f == [x \in Answered |-> x[3]]
               I == {f[x] : x \in Answered}
    <3>1. 0..(Latest - 1) \subseteq I \cup {}
      BY <1>0, <1>5
    <3>2. f \in [Answered -> I] /\ \A y \in I : \E x \in Answered : f[x] = y
      OBVIOUS
    <3>3. IsFiniteSet(I) /\ Cardinality(I) <= Puts
      <4> HIDE DEF f, I
      <4> QED
        BY <1>4, <3>2, ImageSize DEF Puts
    <3> HIDE DEF I
    <3>4. IsFiniteSet({}) /\ Cardinality({}) = 0 /\ Cardinality(I) \in Nat
      BY <3>3, FS_EmptySet, FS_CardinalityType
    <3>5. (Latest - 1) + 1 <= Cardinality(I) + Cardinality({})
      <4> DEFINE m == Latest - 1
      <4>1. m \in Nat
        BY <1>0, <2>2
      <4> HIDE DEF m
      <4> QED
        BY <3>1, <3>3, <3>4, <4>1, CoverSize DEF m
    <3> QED
      BY <1>0, <1>6, <3>3, <3>4, <3>5
  <2> QED
    BY <1>0, <2>1, <2>2
<1>8. Puts > 0 => Exists
  <2> SUFFICES ASSUME Puts > 0 PROVE Exists
    OBVIOUS
  <2>1. Answered # {}
    BY <1>6, FS_EmptySet DEF Puts
  <2>2. PICK c \in Clerk : A(c) # {}
    BY <1>2, <2>1
  <2>3. prog[c].oks \cup prog[c].maybes # {}
    BY <2>2
  <2> QED
    BY <1>1, <2>3 DEF Putter
<1> QED
  BY <1>0, <1>7, <1>8, LatestType DEF CheckPutConcurrent, Exists

\* The key/value tests cannot fail on this server (kvtest.go:137-151, 372-401): no
\* client meets an answer it takes for wrong, and the checks at the end succeed, for
\* every number of clients and every loss, repetition and delay of RPCs.
THEOREM KVTestsPass ==
    ASSUME TestValue \subseteq Value
    PROVE  TestSpec => []TestsPass
<1>0. Covers
  BY DEF Covers
<1>1. TestInit => TestInv
  BY <1>0, TestInitInv
<1>2. TestInv /\ [TestNext]_testVars => TestInv'
  BY <1>0, TestNextInv
<1>3. TestInv => TestsPass
  <2> SUFFICES ASSUME TestInv PROVE TestsPass
    OBVIOUS
  <2>1. \A c \in Clerk : prog[c].pc # "fatal"
    BY ClientType DEF TestInv, BaseInv
  <2> QED
    BY <2>1, AppendsChecked, PutsChecked DEF TestsPass
<1> QED
  BY <1>1, <1>2, <1>3, PTL DEF TestSpec

\* Concurrent read-modify-writes (OneClientAppend, kvtest.go:338-370) lose no update
\* and repeat none: an append answered OK is in the list exactly once, any other at
\* most once.
THEOREM KVAppendsExact ==
    ASSUME TestValue \subseteq Value
    PROVE  TestSpec => []AppendsAreExact
<1>0. Covers
  BY DEF Covers
<1>1. TestInit => TestInv
  BY <1>0, TestInitInv
<1>2. TestInv /\ [TestNext]_testVars => TestInv'
  BY <1>0, TestNextInv
<1>3. TestInv => AppendsAreExact
  <2> SUFFICES ASSUME TestInv, test = "append", NEW c \in Clerk, NEW i \in 0..MaxOps
               PROVE  LET at == {k \in DOMAIN List : List[k] = <<c, i>>}
                      IN  /\ i \in prog[c].oks => Cardinality(at) = 1
                          /\ Cardinality(at) <= 1
    BY DEF AppendsAreExact, List
  <2>0. KVInv /\ AppendInv
    BY DEF TestInv, BaseInv
  <2> DEFINE at == {k \in DOMAIN List : List[k] = <<c, i>>}
  <2>1. DOMAIN List = 1..Len(List) /\ Len(List) \in Nat /\ i \in Nat
    BY <2>0, ListFacts, BoundAssumption
  <2>2. ASSUME NEW j \in at, NEW k \in at PROVE j = k
    <3>1. List[j] = <<c, i>> /\ List[k] = <<c, i>> /\ j \in Nat /\ k \in Nat
      BY <2>1
    <3>2. List[j][1] = List[k][1] /\ List[j][2] = i /\ List[k][2] = i
      BY <3>1
    <3>3. ~(j < k) /\ ~(k < j)
      BY <2>0, <2>1, <3>2 DEF AppendInv
    <3> QED
      BY <3>1, <3>3
  <2>3. at = {} \/ \E j : at = {j}
    <3> HIDE DEF at
    <3> QED
      BY <2>2
  <2>4. Cardinality(at) \in {0, 1} /\ (at # {} => Cardinality(at) = 1)
    <3> HIDE DEF at
    <3> QED
      BY <2>3, FS_EmptySet, FS_Singleton
  <2>5. i \in prog[c].oks => at # {}
    BY <2>0 DEF AppendInv, Appender, Has
  <2> HIDE DEF at
  <2>6. (i \in prog[c].oks => Cardinality(at) = 1) /\ Cardinality(at) <= 1
    BY <2>4, <2>5
  <2> QED
    BY <2>6 DEF at
<1> QED
  BY <1>1, <1>2, <1>3, PTL DEF TestSpec

\* PutAtLeastOnce (kvtest.go:92-110) returns the version the key has and leaves its
\* value there, although an ErrMaybe on the way may stand for a Put that took effect.
THEOREM KVAtLeastOnce ==
    ASSUME TestValue \subseteq Value
    PROVE  TestSpec => []AtLeastOnceIsKnown
<1>0. Covers
  BY DEF Covers
<1>1. TestInit => TestInv
  BY <1>0, TestInitInv
<1>2. TestInv /\ [TestNext]_testVars => TestInv'
  BY <1>0, TestNextInv
<1>3. TestInv => AtLeastOnceIsKnown
  <2> SUFFICES ASSUME TestInv, test = "atleast", NEW c \in Clerk,
                      prog[c].pc \in {"top", "done"}, prog[c].i > 0
               PROVE  data[SharedKey] = [value |-> <<c, prog[c].i - 1>>, version |-> prog[c].ver]
    BY DEF AtLeastOnceIsKnown
  <2>1. PICK one \in Clerk : OnceBy(one)
    BY DEF TestInv, OnceInv
  <2>2. c = one
    BY <2>1 DEF OnceBy
  <2> QED
    BY <2>1, <2>2 DEF OnceBy
<1> QED
  BY <1>1, <1>2, <1>3, PTL DEF TestSpec

\* The clients of the tests take the versions they name from answers or count
\* their own Puts: every step of a test is a step of the linearizable store.
LEMMA TestRefines ==
    ASSUME Covers, TestInv, [TestNext]_testVars
    PROVE  Abstract!Next \/ UNCHANGED Abstract!vars
<1>0. KVInv /\ PendInv /\ ClientInv
  BY DEF TestInv, BaseInv
<1>1. KnownInv
  <2>1. \A o \in issued : o.type = "Put" =>
          \/ o.version < Abstract!VersionOf(data, o.key)
          \/ \E c \in Clerk : op[c] = o /\ call[c] = "request"
    <3> SUFFICES ASSUME NEW o \in issued, o.type = "Put", ~(o.version < Abstract!VersionOf(data, o.key))
                 PROVE  \E c \in Clerk : op[c] = o /\ call[c] = "request"
      OBVIOUS
    <3>1. Abstract!VersionOf(data, o.key) = Latest
      BY <1>0 DEF PendInv, Latest, Exists, Abstract!VersionOf
    <3>2. o.version \in Nat /\ Latest \in Nat
      BY <1>0, LatestType, AcceptsLatest
    <3> QED
      BY <1>0, <3>1, <3>2 DEF PendInv
  <2>2. \A c \in Clerk : call[c] = "reply" => op[c] # None
    BY <1>0 DEF KVInv, OpInv
  <2> QED
    BY <1>0, <2>1, <2>2 DEF KnownInv, PendInv, Putting
<1>2. ASSUME NEW c \in Clerk, tsGet(c) PROVE Abstract!Next
  BY <1>0, <1>2, GetCallRefines, SharedKeyAssumption DEF tsGet
<1>3. ASSUME NEW c \in Clerk, NEW v \in Value, NEW version \in Nat, tsPut(c, v, version)
      PROVE  Abstract!Next
  BY <1>0, <1>3, PutCallRefines, SharedKeyAssumption DEF tsPut
<1>4. ASSUME NEW c \in Clerk, ClientStep(c) PROVE Abstract!Next \/ UNCHANGED Abstract!vars
  <2>1. prog[c].ver \in Nat
    BY <1>0, ClientType
  <2>2. CASE Done(c)
    BY <2>2, StutterRefines DEF Done
  <2>3. CASE AppendGet(c) \/ OnePutGet(c)
    BY <1>2, <2>3 DEF AppendGet, OnePutGet
  <2>4. CASE AppendPut(c) \/ OnePut(c) \/ PutAtLeastOnce(c)
    BY <1>0, <1>3, <2>1, <2>4, PutValueType DEF AppendPut, OnePut, PutAtLeastOnce
  <2> QED
    BY <1>4, <2>2, <2>3, <2>4 DEF ClientStep
<1>5. ASSUME NEW c \in Clerk, ClientReturn(c) PROVE Return(c)
  BY <1>5 DEF ClientReturn, AppendGot, AppendPutDone, OnePutDone, OnePutGot, PutAtLeastOnceDone
<1>6. ASSUME NEW c \in Clerk, Serve(c) \/ Lose(c)
      PROVE  ServerGet(c) \/ ServerPut(c) \/ RequestLost(c) \/ GivenUp(c) \/ ReplyLost(c)
  BY <1>6 DEF Serve, Lose
<1>7. CASE UNCHANGED testVars
  BY <1>7, StutterRefines DEF testVars
<1> QED
  BY <1>0, <1>1, <1>4, <1>5, <1>6, <1>7, ServiceRefines DEF TestNext

\* checkPorcupine (porcupine.go:86) accepts the histories of the tests: for any
\* number of clients and calls what they called and were told is linearizable with
\* respect to models1/kv.go, whatever the network loses and whatever handlers
\* outlive their calls.
THEOREM KVTestsLinearizable ==
    ASSUME TestValue \subseteq Value
    PROVE  TestSpec => PorcupineAccepts
<1>0. Covers
  BY DEF Covers
<1>1. TestInit => TestInv
  BY <1>0, TestInitInv
<1>2. TestInv /\ [TestNext]_testVars => TestInv'
  BY <1>0, TestNextInv
<1>3. TestInit => Abstract!Begun
  <2> SUFFICES ASSUME TestInit PROVE Abstract!Begun
    OBVIOUS
  <2>1. \A c \in Clerk : Outcome(c) = None
    BY DEF TestInit, Outcome
  <2>2. [c \in Clerk |-> Outcome(c)] = [c \in Clerk |-> None]
    BY <2>1
  <2> QED
    BY <2>2 DEF TestInit, Abstract!Begun
<1>4. TestInv /\ [TestNext]_testVars => [Abstract!Next]_(Abstract!vars)
  BY <1>0, TestRefines
<1> QED
  BY <1>1, <1>2, <1>3, <1>4, PTL DEF TestSpec, PorcupineAccepts
=============================================================================

------------------------------ MODULE KVStore -------------------------------
(***************************************************************************)
(* What the tests ask of the key/value service: that the history of calls  *)
(* and answers is linearizable with respect to the sequential model        *)
(* src/models1/kv.go, for which porcupine searches.                        *)
(*                                                                         *)
(* Every operation acts on the store in one step between its call and its  *)
(* answer, and its answer is one that the model's step allows: OK or       *)
(* ErrMaybe to a Put that names the current version, which is then stored, *)
(* and ErrVersion or ErrMaybe to any other, which is not.  Of a Get the    *)
(* model compares the value; here the version it read has to fit as well.  *)
(***************************************************************************)
EXTENDS Naturals

CONSTANTS Clerk, Key, Value, None

VARIABLES
    store,     \* the keys that exist, with value and version
    op,        \* the operation each clerk is in, or None
    outcome,   \* the model's answer to it once it has acted, or None
    issued,    \* every operation called so far
    took,      \* the identities of the Puts that have taken effect
    returned   \* every answer given so far

vars == <<store, op, outcome, issued, took, returned>>

Operation == [id : Clerk \X Nat, type : {"Get", "Put"}, key : Key,
              value : Value \cup {None}, version : Nat]

Answer(err) == [err |-> err, value |-> None, version |-> 0]

-----------------------------------------------------------------------------
(* The sequential store *)

VersionOf(d, k) == IF k \in DOMAIN d THEN d[k].version ELSE 0

Lookup(d, k) ==
    IF k \in DOMAIN d THEN [err |-> "OK", value |-> d[k].value, version |-> d[k].version]
    ELSE Answer("ErrNoKey")

Matches(d, o) == VersionOf(d, o.key) = o.version

Update(d, o) ==
    [k \in DOMAIN d \cup {o.key} |->
        IF k = o.key THEN [value |-> o.value, version |-> VersionOf(d, k) + 1] ELSE d[k]]

-----------------------------------------------------------------------------

\* Clerk c calls a new operation o.
Call(c, o) ==
    /\ op[c] = None
    /\ o \in Operation /\ \A p \in issued : p.id # o.id
    /\ op' = [op EXCEPT ![c] = o]
    /\ issued' = issued \cup {o}
    /\ UNCHANGED <<store, outcome, took, returned>>

\* The operation that clerk c is in is of type t and has not changed the store.
Pending(c, t) == op[c] # None /\ op[c].type = t /\ op[c].id \notin took

TakeEffect(c) ==
    /\ Pending(c, "Put")
    /\ Matches(store, op[c])
    /\ store' = Update(store, op[c])
    /\ took' = took \cup {op[c].id}
    /\ outcome' = [outcome EXCEPT ![c] = Answer("OK")]
    /\ UNCHANGED <<op, issued, returned>>

Read(c) ==
    /\ Pending(c, "Get")
    /\ outcome' = [outcome EXCEPT ![c] = Lookup(store, op[c].key)]
    /\ UNCHANGED <<store, op, issued, took, returned>>

Refuse(c) ==
    /\ Pending(c, "Put")
    /\ ~Matches(store, op[c])
    /\ outcome' = [outcome EXCEPT ![c] = Answer("ErrVersion")]
    /\ UNCHANGED <<store, op, issued, took, returned>>

\* A reading or a refusal is taken back: the operation acts at a later moment.
Forget(c) ==
    /\ \E t \in {"Get", "Put"} : Pending(c, t)
    /\ outcome' = [outcome EXCEPT ![c] = None]
    /\ UNCHANGED <<store, op, issued, took, returned>>

\* The answers that the model's step allows.
MayReturn(c) ==
    {outcome[c]} \cup (IF op[c].type = "Put" THEN {Answer("ErrMaybe")} ELSE {})

Return(c) ==
    /\ op[c] # None /\ outcome[c] # None
    /\ \E reply \in MayReturn(c) : returned' = returned \cup {[id |-> op[c].id, reply |-> reply]}
    /\ op' = [op EXCEPT ![c] = None]
    /\ outcome' = [outcome EXCEPT ![c] = None]
    /\ UNCHANGED <<store, issued, took>>

\* Nothing has been called yet.
Begun ==
    /\ op = [c \in Clerk |-> None]
    /\ outcome = [c \in Clerk |-> None]
    /\ issued = {} /\ took = {} /\ returned = {}

Init == Begun /\ store = << >>

Next ==
    \E c \in Clerk :
        \/ \E o \in issued' : Call(c, o)
        \/ TakeEffect(c) \/ Refuse(c) \/ Read(c)
        \/ Forget(c)
        \/ Return(c)

Spec == Init /\ [][Next]_vars
=============================================================================

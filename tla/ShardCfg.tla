------------------------------ MODULE ShardCfg ------------------------------
(***************************************************************************)
(* The shard configuration (src/src/shardkv1/shardcfg/shardcfg.go) and the *)
(* way its callers use it: a controller takes a Copy of the published      *)
(* configuration, applies JoinBalance or LeaveBalance to the copy, and     *)
(* publishes the result.  Several controllers may work on the same change  *)
(* at the same time, and have to compute the same configuration although   *)
(* Go iterates over maps in a random order.                                *)
(*                                                                         *)
(* Shards are numbered 1..NShards (0..NShards-1 in the code) and NoGid is  *)
(* the gid of an unassigned shard.                                         *)
(***************************************************************************)
EXTENDS Integers, FiniteSets, Sequences

CONSTANTS
    Ctrlers,    \* controllers that compute the change
    NShards,    \* number of shards
    Gids,       \* gids that may join
    Servers,    \* server names
    Joins,      \* arguments of Join: functions from gids to sets of servers
    Leaves,     \* arguments of Leave: sequences of gids
    MaxNum      \* bound on configuration numbers

\* A count of shards stays below the 257 that analyze starts from.
ASSUME NShardsAssumption == NShards \in 1..256
ASSUME GidsAssumption == Gids \subseteq Nat \ {0}
ASSUME GidsAreFinite == IsFiniteSet(Gids)
ASSUME MaxNumAssumption == MaxNum \in Nat
ASSUME JoinsAssumption ==
    \A j \in Joins : \E G \in SUBSET Gids : j \in [G -> SUBSET Servers]
ASSUME LeavesAssumption == Leaves \subseteq Seq(Gids)

VARIABLES
    base,   \* the published configuration
    req,    \* the change being made
    ctl     \* per controller: the place in the code, its copy, its loop variables

vars == <<base, req, ctl>>

Shards == 1..NShards
NoGid == 0

Config == [num : Nat,
           shards : [Shards -> Gids \cup {NoGid}],
           groups : UNION {[G -> SUBSET Servers] : G \in SUBSET Gids}]

\* The body of MakeShardConfig.
MakeShardConfig == [num |-> 0, shards |-> [s \in Shards |-> NoGid], groups |-> [g \in {} |-> {}]]

Members(c) == DOMAIN c.groups
Count(c, g) == Cardinality({s \in Shards : c.shards[s] = g})

\* analyze: the group with most and the one with least shards, the smallest gid
\* among equals, because the gids are sorted first.
IsMostOf(c, g) ==
    /\ g \in Members(c)
    /\ \A h \in Members(c) : \/ Count(c, h) < Count(c, g)
                             \/ Count(c, h) = Count(c, g) /\ g <= h

\* Faulty: the gids are not sorted, any least group will do.
AnyLeastOf(c, g) ==
    /\ g \in Members(c)
    /\ \A h \in Members(c) : Count(c, g) <= Count(c, h)

IsLeastOf(c, g) ==
    /\ g \in Members(c)
    /\ \A h \in Members(c) : \/ Count(c, g) < Count(c, h)
                             \/ Count(c, h) = Count(c, g) /\ g <= h

Assign(c, s, g) == [c EXCEPT !.shards[s] = g]

IsMember(c, g) == \E s \in Shards : c.shards[s] = g
GidServers(c, sh) == LET g == c.shards[sh]
                     IN  [gid |-> g,
                          srvs |-> IF g \in Members(c) THEN c.groups[g] ELSE {},
                          ok |-> g \in Members(c)]

-----------------------------------------------------------------------------
Idle == [pc |-> "idle", cfg |-> MakeShardConfig, todo |-> {}, next |-> 1]
NoReq == [op |-> "none"]

Init ==
    /\ base = MakeShardConfig
    /\ req = NoReq
    /\ ctl = [r \in Ctrlers |-> Idle]

Resting == \A r \in Ctrlers : ctl[r].pc = "idle"

\* A caller asks for a change: every controller works on a Copy of the published
\* configuration.
StartJoin(j) ==
    /\ Resting
    /\ base.num < MaxNum
    /\ req' = [op |-> "join", arg |-> j]
    /\ ctl' = [r \in Ctrlers |->
                 [pc |-> "join", cfg |-> base, todo |-> DOMAIN j, next |-> 1]]
    /\ UNCHANGED base

StartLeave(l) ==
    /\ Resting
    /\ base.num < MaxNum
    /\ req' = [op |-> "leave", arg |-> l]
    /\ ctl' = [r \in Ctrlers |->
                 [pc |-> "leave", cfg |-> base, todo |-> {}, next |-> 1]]
    /\ UNCHANGED base

-----------------------------------------------------------------------------
\* One iteration of the loop of Join.  The map's iteration order is random, so
\* gid is any of the remaining ones.  A gid that is present already ends the call
\* with the groups added so far left in place; a server that is in another group
\* stops the process.
SharesServer(c, srvs) == \E x \in Members(c) : c.groups[x] \cap srvs # {}
AddGroup(c, gid, srvs) ==
    [c EXCEPT !.groups = [g \in Members(c) \cup {gid} |->
                            IF g = gid THEN srvs ELSE c.groups[g]]]

\* Faulty: only the servers of the argument's first group are compared.
JoinOneUnchecked(r, gid) ==
    /\ ctl[r].pc = "join"
    /\ gid \in ctl[r].todo
    /\ ctl' = [ctl EXCEPT ![r] =
         IF gid \in Members(ctl[r].cfg)
         THEN [@ EXCEPT !.pc = "failed"]
         ELSE [@ EXCEPT !.cfg = AddGroup(ctl[r].cfg, gid, req.arg[gid]), !.todo = @ \ {gid}]]
    /\ UNCHANGED <<base, req>>

JoinOne(r, gid) ==
    LET c == ctl[r].cfg
        srvs == req.arg[gid]
    IN  /\ ctl[r].pc = "join"
        /\ gid \in ctl[r].todo
        /\ ctl' = [ctl EXCEPT ![r] =
             IF gid \in Members(c)
             THEN [@ EXCEPT !.pc = "failed"]
             ELSE IF SharesServer(c, srvs)
             THEN [@ EXCEPT !.pc = "fatal"]
             ELSE [@ EXCEPT !.cfg = AddGroup(c, gid, srvs), !.todo = ctl[r].todo \ {gid}]]
        /\ UNCHANGED <<base, req>>

\* One iteration of the loop of Leave, in the order of the list.
RemoveGroup(c, gid) ==
    [c EXCEPT !.groups = [g \in Members(c) \ {gid} |-> c.groups[g]]]

LeaveOne(r) ==
    LET c == ctl[r].cfg
        gid == req.arg[ctl[r].next]
    IN  /\ ctl[r].pc = "leave"
        /\ ctl[r].next <= Len(req.arg)
        /\ ctl' = [ctl EXCEPT ![r] =
             IF gid \in Members(c)
             THEN [@ EXCEPT !.cfg = RemoveGroup(c, gid), !.next = ctl[r].next + 1]
             ELSE [@ EXCEPT !.pc = "failed"]]
        /\ UNCHANGED <<base, req>>

\* The end of Join and of Leave: a call that changed nothing stops the process,
\* any other one takes the next number and goes on to Rebalance.
EndOf(k) ==
    IF Members(k.cfg) = Members(base)
    THEN [k EXCEPT !.pc = "fatal"]
    ELSE [k EXCEPT !.cfg.num = @ + 1, !.pc = "rebalance", !.next = 1]

EndJoin(r) ==
    /\ ctl[r].pc = "join"
    /\ ctl[r].todo = {}
    /\ ctl' = [ctl EXCEPT ![r] = EndOf(@)]
    /\ UNCHANGED <<base, req>>

EndLeave(r) ==
    /\ ctl[r].pc = "leave"
    /\ ctl[r].next > Len(req.arg)
    /\ ctl' = [ctl EXCEPT ![r] = EndOf(@)]
    /\ UNCHANGED <<base, req>>

-----------------------------------------------------------------------------
\* Rebalance without groups un-assigns every shard.
Unassign(r) ==
    /\ ctl[r].pc = "rebalance"
    /\ Members(ctl[r].cfg) = {}
    /\ ctl' = [ctl EXCEPT ![r].cfg.shards = [s \in Shards |-> NoGid],
                          ![r].pc = "done"]
    /\ UNCHANGED <<base, req>>

\* Faulty: the assignment is computed afresh.
BeginAssignAfresh(r) ==
    /\ ctl[r].pc = "rebalance"
    /\ Members(ctl[r].cfg) # {}
    /\ ctl' = [ctl EXCEPT ![r].pc = "assign", ![r].cfg.shards = [s \in Shards |-> NoGid]]
    /\ UNCHANGED <<base, req>>

BeginAssign(r) ==
    /\ ctl[r].pc = "rebalance"
    /\ Members(ctl[r].cfg) # {}
    /\ ctl' = [ctl EXCEPT ![r].pc = "assign"]
    /\ UNCHANGED <<base, req>>

\* Faulty: only shards that were never assigned are handed out.
AssignOneNoGid(r) ==
    LET c == ctl[r].cfg
        s == ctl[r].next
    IN  /\ ctl[r].pc = "assign"
        /\ s <= NShards
        /\ \/ /\ c.shards[s] # NoGid
              /\ ctl' = [ctl EXCEPT ![r].next = s + 1]
           \/ /\ c.shards[s] = NoGid
              /\ \E lg \in Members(c) :
                   /\ IsLeastOf(c, lg)
                   /\ ctl' = [ctl EXCEPT ![r].cfg = Assign(c, s, lg),
                                         ![r].next = s + 1]
        /\ UNCHANGED <<base, req>>

\* Rebalance's first loop: a shard of no present group goes to the least group.
AssignOne(r) ==
    LET c == ctl[r].cfg
        s == ctl[r].next
    IN  /\ ctl[r].pc = "assign"
        /\ s <= NShards
        /\ \/ /\ c.shards[s] \in Members(c)
              /\ ctl' = [ctl EXCEPT ![r].next = s + 1]
           \/ /\ c.shards[s] \notin Members(c)
              /\ \E lg \in Members(c) :
                   /\ IsLeastOf(c, lg)
                   /\ ctl' = [ctl EXCEPT ![r].cfg = Assign(c, s, lg),
                                         ![r].next = s + 1]
        /\ UNCHANGED <<base, req>>

EndAssign(r) ==
    /\ ctl[r].pc = "assign"
    /\ ctl[r].next > NShards
    /\ ctl' = [ctl EXCEPT ![r].pc = "move"]
    /\ UNCHANGED <<base, req>>

\* Faulty: the loop goes on while the counts differ at all.
UnevenByOne(c, mg, lg) == Count(c, mg) >= Count(c, lg) + 1

\* Faulty: the loop stops one shard too early.
UnevenByThree(c, mg, lg) == Count(c, mg) >= Count(c, lg) + 3

\* Rebalance's second loop: the first shard of the group with most shards goes to
\* the group with least, until the two counts differ by less than two.
Uneven(c, mg, lg) == Count(c, mg) >= Count(c, lg) + 2

IsFirstShardOf(c, s, g) ==
    /\ c.shards[s] = g
    /\ \A t \in Shards : c.shards[t] = g => s <= t

MoveOne(r) ==
    LET c == ctl[r].cfg
    IN  /\ ctl[r].pc = "move"
        /\ \E mg, lg \in Members(c) :
             /\ IsMostOf(c, mg)
             /\ IsLeastOf(c, lg)
             /\ Uneven(c, mg, lg)
             /\ \E s \in Shards :
                  /\ IsFirstShardOf(c, s, mg)
                  /\ ctl' = [ctl EXCEPT ![r].cfg = Assign(c, s, lg)]
        /\ UNCHANGED <<base, req>>

EndMove(r) ==
    LET c == ctl[r].cfg
    IN  /\ ctl[r].pc = "move"
        /\ \E mg, lg \in Members(c) :
             /\ IsMostOf(c, mg)
             /\ IsLeastOf(c, lg)
             /\ ~Uneven(c, mg, lg)
        /\ ctl' = [ctl EXCEPT ![r].pc = "done"]
        /\ UNCHANGED <<base, req>>

-----------------------------------------------------------------------------
\* The callers publish what JoinBalance or LeaveBalance returned.  After a false
\* they stop the process, so that a half-made change is never published.
Publish ==
    /\ \A r \in Ctrlers : ctl[r].pc = "done"
    /\ \E r \in Ctrlers : base' = ctl[r].cfg
    /\ req' = NoReq
    /\ ctl' = [r \in Ctrlers |-> Idle]

CtrlerStep(r) ==
    \/ \E gid \in Gids : JoinOne(r, gid)
    \/ LeaveOne(r)
    \/ EndJoin(r) \/ EndLeave(r)
    \/ Unassign(r) \/ BeginAssign(r) \/ AssignOne(r) \/ EndAssign(r)
    \/ MoveOne(r) \/ EndMove(r)

Next ==
    \/ \E j \in Joins : StartJoin(j)
    \/ \E l \in Leaves : StartLeave(l)
    \/ \E r \in Ctrlers : CtrlerStep(r)
    \/ Publish

Spec == Init /\ [][Next]_vars

\* A controller is a running goroutine that waits for nobody.
FairSpec == Spec /\ \A r \in Ctrlers : WF_vars(CtrlerStep(r))

-----------------------------------------------------------------------------
PCs == {"idle", "join", "leave", "rebalance", "assign", "move", "done", "failed", "fatal"}

Requests == {NoReq} \cup [op : {"join"}, arg : Joins] \cup [op : {"leave"}, arg : Leaves]

\* Every variable keeps its type.
TypeOK ==
    /\ base \in Config
    /\ req \in Requests
    /\ ctl \in [Ctrlers -> [pc : PCs, cfg : Config, todo : SUBSET Gids, next : Nat \ {0}]]

\* CheckConfig (shardcfg.go:238): every shard is with a group that is present and
\* the shard counts of any two groups differ by at most one, for every
\* configuration that is published or about to be.
WellFormed(c) ==
    /\ Members(c) # {} => \A s \in Shards : GidServers(c, s).ok
    /\ \A g, h \in Members(c) : Count(c, g) <= Count(c, h) + 1

Balanced ==
    /\ WellFormed(base)
    /\ \A r \in Ctrlers : ctl[r].pc = "done" => WellFormed(ctl[r].cfg)

\* A change moves no shard it need not: a join only hands shards to groups that
\* are new, a leave only takes shards from groups that are gone.
MovesAreNeeded ==
    \A r \in Ctrlers : ctl[r].pc = "done" =>
      \A s \in Shards : ctl[r].cfg.shards[s] # base.shards[s] =>
         \/ req.op = "join" /\ ctl[r].cfg.shards[s] \notin Members(base)
         \/ req.op = "leave" /\ base.shards[s] \notin Members(ctl[r].cfg)

\* Controllers that make the same change compute the same configuration, whatever
\* order Go iterates a map in ("Enforce deterministic ordering", shardcfg.go:90).
CtrlersAgree ==
    \A q, r \in Ctrlers : ctl[q].pc = "done" =>
       /\ ctl[r].pc \notin {"failed", "fatal"}
       /\ ctl[r].pc = "done" => ctl[r].cfg = ctl[q].cfg

\* No published configuration has a server in two groups, also when both groups
\* are in one call of Join (shardcfg.go:168).
OneGroupPerServer ==
    \A g, h \in Members(base) : g # h => base.groups[g] \cap base.groups[h] = {}

\* IsMember looks at the shards only, and the callers use it to find out whether a
\* group is in the configuration (shardkv1/test.go:124): with no more groups than
\* shards it answers that question.
IsMemberMeansPresent ==
    Cardinality(Members(base)) <= NShards =>
      \A g \in Gids : IsMember(base, g) <=> g \in Members(base)

\* Rebalance's loop of moves, which has no bound in the code, ends.
RebalanceEnds ==
    \A r \in Ctrlers :
      ctl[r].pc = "rebalance" ~> ctl[r].pc \notin {"rebalance", "assign", "move"}
=============================================================================

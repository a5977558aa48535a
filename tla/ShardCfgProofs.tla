--------------------------- MODULE ShardCfgProofs ---------------------------
(***************************************************************************)
(* Proofs about the shard configuration, for every number of shards up to  *)
(* 256, every set of groups and every sequence of joins and leaves.        *)
(***************************************************************************)
EXTENDS ShardCfg, FiniteSetTheorems, TLAPS

State == [pc : PCs, cfg : Config, todo : SUBSET Gids, next : Nat \ {0}]

-----------------------------------------------------------------------------
(* The operators on configurations *)

\* The number of shards of a group is a natural number.
LEMMA CountType ==
    ASSUME NEW c, NEW g
    PROVE  Count(c, g) \in Nat
<1> DEFINE S == {s \in Shards : c.shards[s] = g}
<1>1. IsFiniteSet(1..NShards)
  BY NShardsAssumption, FS_Interval
<1>2. IsFiniteSet(S)
  BY <1>1, FS_Subset DEF Shards
<1>3. QED
  BY <1>2, FS_CardinalityType DEF Count

\* The first configuration is one.
LEMMA MakeShardConfigType == MakeShardConfig \in Config
<1>1. [g \in {} |-> {}] \in [{} -> SUBSET Servers]
  OBVIOUS
<1>2. {} \in SUBSET Gids
  OBVIOUS
<1>3. QED
  BY <1>1, <1>2 DEF MakeShardConfig, Config, NoGid

\* What the parts of a configuration are.
LEMMA ConfigParts ==
    ASSUME NEW c \in Config
    PROVE  /\ c.num \in Nat
           /\ c.shards \in [Shards -> Gids \cup {NoGid}]
           /\ Members(c) \in SUBSET Gids
           /\ c.groups \in [Members(c) -> SUBSET Servers]
           /\ c = [num |-> c.num, shards |-> c.shards, groups |-> c.groups]
<1>1. PICK G \in SUBSET Gids : c.groups \in [G -> SUBSET Servers]
  BY DEF Config
<1>2. Members(c) = G
  BY <1>1 DEF Members
<1>3. QED
  BY <1>1, <1>2 DEF Config

\* A record of the right parts is a configuration.
LEMMA MakeConfig ==
    ASSUME NEW n \in Nat, NEW sh \in [Shards -> Gids \cup {NoGid}],
           NEW G \in SUBSET Gids, NEW gr \in [G -> SUBSET Servers]
    PROVE  [num |-> n, shards |-> sh, groups |-> gr] \in Config
BY DEF Config

\* To assign a shard to a group keeps the configuration's type.
LEMMA AssignType ==
    ASSUME NEW c \in Config, NEW s \in Shards, NEW g \in Gids
    PROVE  /\ Assign(c, s, g) \in Config
           /\ Assign(c, s, g).groups = c.groups
           /\ Assign(c, s, g).shards = [c.shards EXCEPT ![s] = g]
<1>1. Assign(c, s, g) =
        [num |-> c.num, shards |-> [c.shards EXCEPT ![s] = g], groups |-> c.groups]
  BY ConfigParts DEF Assign
<1>2. [c.shards EXCEPT ![s] = g] \in [Shards -> Gids \cup {NoGid}]
  BY ConfigParts
<1>3. Assign(c, s, g) \in Config
  <2>1. c.num \in Nat /\ Members(c) \in SUBSET Gids /\ c.groups \in [Members(c) -> SUBSET Servers]
    BY ConfigParts
  <2>2. QED
    BY <1>1, <1>2, <2>1, MakeConfig
<1>4. QED
  BY <1>1, <1>3

\* To add a group keeps the configuration's type.
LEMMA AddGroupType ==
    ASSUME NEW c \in Config, NEW g \in Gids, NEW srvs \in SUBSET Servers
    PROVE  /\ AddGroup(c, g, srvs) \in Config
           /\ Members(AddGroup(c, g, srvs)) = Members(c) \cup {g}
           /\ \A h \in Members(c) \cup {g} :
                AddGroup(c, g, srvs).groups[h] = IF h = g THEN srvs ELSE c.groups[h]
<1> DEFINE G == Members(c) \cup {g}
           gr == [h \in G |-> IF h = g THEN srvs ELSE c.groups[h]]
<1>1. gr \in [G -> SUBSET Servers]
  BY ConfigParts
<1>2. G \in SUBSET Gids
  BY ConfigParts
<1>3. AddGroup(c, g, srvs) = [num |-> c.num, shards |-> c.shards, groups |-> gr]
  BY ConfigParts DEF AddGroup
<1>4. AddGroup(c, g, srvs).groups = gr
  BY <1>3
<1>5. AddGroup(c, g, srvs) \in Config
  BY <1>1, <1>2, <1>3, ConfigParts, MakeConfig
<1>6. QED
  BY <1>4, <1>5 DEF Members

\* To remove a group keeps the configuration's type.
LEMMA RemoveGroupType ==
    ASSUME NEW c \in Config, NEW g
    PROVE  /\ RemoveGroup(c, g) \in Config
           /\ Members(RemoveGroup(c, g)) = Members(c) \ {g}
           /\ \A h \in Members(c) \ {g} : RemoveGroup(c, g).groups[h] = c.groups[h]
<1> DEFINE G == Members(c) \ {g}
           gr == [h \in G |-> c.groups[h]]
<1>1. gr \in [G -> SUBSET Servers]
  BY ConfigParts
<1>2. G \in SUBSET Gids
  BY ConfigParts
<1>3. RemoveGroup(c, g) = [num |-> c.num, shards |-> c.shards, groups |-> gr]
  BY ConfigParts DEF RemoveGroup
<1>4. RemoveGroup(c, g).groups = gr
  BY <1>3
<1>5. RemoveGroup(c, g) \in Config
  BY <1>1, <1>2, <1>3, ConfigParts, MakeConfig
<1>6. QED
  BY <1>4, <1>5 DEF Members

-----------------------------------------------------------------------------
(* The inductive invariant.  Balanced speaks of the end of Rebalance only; the   *)
(* invariant says what its two loops have achieved so far, and what Join may     *)
(* assume about its argument.                                                    *)

Assigned(c, n) == \A s \in Shards : s < n => c.shards[s] \in Members(c)

Disjoint(c) == \A g, h \in Members(c) : g # h => c.groups[g] \cap c.groups[h] = {}

\* A configuration that may be published.
Sound(c) ==
    /\ WellFormed(c)
    /\ Members(c) = {} => \A s \in Shards : c.shards[s] = NoGid

\* What holds of the state k of a controller while the request is q.
CtrlerInv(k, q) ==
    /\ k \in State
    /\ k.pc = "join" => q.op = "join" /\ k.todo \subseteq DOMAIN q.arg
    /\ k.pc = "leave" => q.op = "leave"
    /\ k.pc = "rebalance" => k.next = 1
    /\ k.pc = "assign" => Members(k.cfg) # {} /\ Assigned(k.cfg, k.next)
    /\ k.pc = "move" => Members(k.cfg) # {} /\ Assigned(k.cfg, NShards + 1)
    /\ k.pc = "done" => Sound(k.cfg)
    /\ Disjoint(k.cfg)

IInv ==
    /\ base \in Config /\ Sound(base) /\ Disjoint(base)
    /\ req \in Requests
    /\ ctl = [r \in Ctrlers |-> ctl[r]]
    /\ \A r \in Ctrlers : CtrlerInv(ctl[r], req)

\* A record of the right parts is a state of a controller.
LEMMA MakeState ==
    ASSUME NEW pc \in PCs, NEW c \in Config, NEW t \in SUBSET Gids, NEW n \in Nat \ {0}
    PROVE  [pc |-> pc, cfg |-> c, todo |-> t, next |-> n] \in State
BY DEF State

\* The state of a controller, part by part.
LEMMA StateParts ==
    ASSUME NEW k \in State
    PROVE  /\ k.pc \in PCs
           /\ k.cfg \in Config
           /\ k.todo \in SUBSET Gids
           /\ k.next \in Nat \ {0}
           /\ k = [pc |-> k.pc, cfg |-> k.cfg, todo |-> k.todo, next |-> k.next]
BY DEF State

\* Changes of a controller's state, part by part.
LEMMA ChangeCfg ==
    ASSUME NEW k \in State, NEW d
    PROVE  [k EXCEPT !.cfg = d] =
             [pc |-> k.pc, cfg |-> d, todo |-> k.todo, next |-> k.next]
BY StateParts

\* The same for other parts.
LEMMA ChangeNext ==
    ASSUME NEW k \in State, NEW n
    PROVE  [k EXCEPT !.next = n] =
             [pc |-> k.pc, cfg |-> k.cfg, todo |-> k.todo, next |-> n]
BY StateParts

\* The same for other parts.
LEMMA ChangePC ==
    ASSUME NEW k \in State, NEW pc
    PROVE  [k EXCEPT !.pc = pc] =
             [pc |-> pc, cfg |-> k.cfg, todo |-> k.todo, next |-> k.next]
BY StateParts

\* The same for other parts.
LEMMA ChangeCfgTodo ==
    ASSUME NEW k \in State, NEW d, NEW t
    PROVE  [k EXCEPT !.cfg = d, !.todo = t] =
             [pc |-> k.pc, cfg |-> d, todo |-> t, next |-> k.next]
<1>1. [k EXCEPT !.cfg = d, !.todo = t] = [[k EXCEPT !.cfg = d] EXCEPT !.todo = t]
  BY DEF State
<1>2. [[pc |-> k.pc, cfg |-> d, todo |-> k.todo, next |-> k.next] EXCEPT !.todo = t] =
        [pc |-> k.pc, cfg |-> d, todo |-> t, next |-> k.next]
  OBVIOUS
<1>3. QED
  BY <1>1, <1>2, ChangeCfg

\* The same for other parts.
LEMMA ChangeCfgNext ==
    ASSUME NEW k \in State, NEW d, NEW n
    PROVE  [k EXCEPT !.cfg = d, !.next = n] =
             [pc |-> k.pc, cfg |-> d, todo |-> k.todo, next |-> n]
<1>1. [k EXCEPT !.cfg = d, !.next = n] = [[k EXCEPT !.cfg = d] EXCEPT !.next = n]
  BY DEF State
<1>2. [[pc |-> k.pc, cfg |-> d, todo |-> k.todo, next |-> k.next] EXCEPT !.next = n] =
        [pc |-> k.pc, cfg |-> d, todo |-> k.todo, next |-> n]
  OBVIOUS
<1>3. QED
  BY <1>1, <1>2, ChangeCfg

\* The same for other parts.
LEMMA ChangeCfgPC ==
    ASSUME NEW k \in State, NEW d, NEW pc
    PROVE  [k EXCEPT !.cfg = d, !.pc = pc] =
             [pc |-> pc, cfg |-> d, todo |-> k.todo, next |-> k.next]
<1>1. [k EXCEPT !.cfg = d, !.pc = pc] = [[k EXCEPT !.cfg = d] EXCEPT !.pc = pc]
  BY DEF State
<1>2. [[pc |-> k.pc, cfg |-> d, todo |-> k.todo, next |-> k.next] EXCEPT !.pc = pc] =
        [pc |-> pc, cfg |-> d, todo |-> k.todo, next |-> k.next]
  OBVIOUS
<1>3. QED
  BY <1>1, <1>2, ChangeCfg

\* The same for other parts.
LEMMA ChangeCfgPCNext ==
    ASSUME NEW k \in State, NEW d, NEW pc, NEW n
    PROVE  [k EXCEPT !.cfg = d, !.pc = pc, !.next = n] =
             [pc |-> pc, cfg |-> d, todo |-> k.todo, next |-> n]
<1>1. [k EXCEPT !.cfg = d, !.pc = pc, !.next = n] =
        [[k EXCEPT !.cfg = d, !.pc = pc] EXCEPT !.next = n]
  BY DEF State
<1>2. [[pc |-> pc, cfg |-> d, todo |-> k.todo, next |-> k.next] EXCEPT !.next = n] =
        [pc |-> pc, cfg |-> d, todo |-> k.todo, next |-> n]
  OBVIOUS
<1>3. QED
  BY <1>1, <1>2, ChangeCfgPC

\* The invariant of the next state, said of the next values.
LEMMA PrimeInv ==
    ASSUME base' \in Config, Sound(base'), Disjoint(base'), req' \in Requests,
           ctl' = [r \in Ctrlers |-> ctl'[r]], \A r \in Ctrlers : CtrlerInv(ctl'[r], req')
    PROVE  IInv'
<1>1. (base \in Config /\ Sound(base) /\ Disjoint(base) /\ req \in Requests)'
  BY DEF Sound, WellFormed, Disjoint, Members, GidServers, Count
<1>2. \A x \in Ctrlers : CtrlerInv(ctl[x], req)'
  BY DEF CtrlerInv, Sound, WellFormed, Disjoint, Assigned, Members, GidServers, Count
<1>3. QED
  BY <1>1, <1>2 DEF IInv

\* A step of one controller that leaves it in a state of the invariant preserves
\* the invariant.
LEMMA CtrlerStepKeeps ==
    ASSUME IInv, NEW r \in Ctrlers, NEW k, CtrlerInv(k, req),
           ctl' = [ctl EXCEPT ![r] = k], UNCHANGED <<base, req>>
    PROVE  IInv'
<1>1. ctl' = [x \in Ctrlers |-> IF x = r THEN k ELSE ctl[x]]
  BY DEF IInv
<1>2. \A x \in Ctrlers : CtrlerInv(ctl'[x], req)
  BY <1>1 DEF IInv
<1>3. ctl' = [x \in Ctrlers |-> ctl'[x]]
  BY <1>1
<1>4. base' \in Config /\ Sound(base') /\ Disjoint(base') /\ req' \in Requests
  BY DEF IInv
<1>5. QED
  BY <1>2, <1>3, <1>4, PrimeInv

\* The first state.
LEMMA IdleInv == ASSUME NEW q PROVE CtrlerInv(Idle, q)
<1>1. MakeShardConfig \in Config
  BY MakeShardConfigType
<1>2. Idle \in State
  BY <1>1, MakeState DEF Idle, PCs
<1>3. Members(MakeShardConfig) = {}
  BY DEF Members, MakeShardConfig
<1>4. Disjoint(MakeShardConfig)
  BY <1>3 DEF Disjoint
<1>5. QED
  BY <1>2, <1>4 DEF CtrlerInv, Idle

\* The invariant holds initially.
LEMMA InitInv == Init => IInv
<1> SUFFICES ASSUME Init PROVE IInv
  OBVIOUS
<1>1. Members(MakeShardConfig) = {}
  BY DEF Members, MakeShardConfig
<1>2. Sound(MakeShardConfig) /\ Disjoint(MakeShardConfig)
  BY <1>1 DEF Sound, WellFormed, Disjoint, MakeShardConfig
<1>3. \A r \in Ctrlers : CtrlerInv(ctl[r], req)
  BY IdleInv DEF Init
<1>4. req \in Requests
  BY DEF Init, Requests
<1>5. ctl = [r \in Ctrlers |-> ctl[r]]
  BY DEF Init
<1>6. QED
  BY <1>2, <1>3, <1>4, <1>5, MakeShardConfigType DEF Init, IInv

-----------------------------------------------------------------------------
(* The operations preserve it *)

\* The arguments of Join give every gid a set of servers.
LEMMA JoinArg ==
    ASSUME NEW j \in Joins
    PROVE  DOMAIN j \in SUBSET Gids /\ \A g \in DOMAIN j : j[g] \in SUBSET Servers
<1>1. PICK G \in SUBSET Gids : j \in [G -> SUBSET Servers]
  BY JoinsAssumption
<1>2. QED
  BY <1>1

\* The request of a controller in Join.
LEMMA JoinRequest ==
    ASSUME NEW q \in Requests, q.op = "join"
    PROVE  q.arg \in Joins
BY DEF Requests, NoReq

\* The state of a controller after its copy was taken.
LEMMA StartInv ==
    ASSUME IInv, NEW r \in Ctrlers, NEW q, NEW t \in SUBSET Gids, NEW pc \in {"join", "leave"},
           q.op = pc, pc = "join" => t \subseteq DOMAIN q.arg
    PROVE  CtrlerInv([pc |-> pc, cfg |-> base, todo |-> t, next |-> 1], q)
<1> DEFINE k == [pc |-> pc, cfg |-> base, todo |-> t, next |-> 1]
<1>1. k \in State
  BY MakeState DEF IInv, PCs
<1>2. k.pc = pc /\ k.cfg = base /\ k.todo = t
  OBVIOUS
<1>3. QED
  BY <1>1, <1>2 DEF CtrlerInv, IInv

\* StartJoin preserves the invariant.
LEMMA StartJoinKeeps ==
    ASSUME IInv, NEW j \in Joins, StartJoin(j)
    PROVE  IInv'
<1>1. req' \in Requests /\ req'.op = "join" /\ req'.arg = j
  BY DEF StartJoin, Requests
<1>2. DOMAIN j \in SUBSET Gids
  BY JoinArg
<1>3. \A r \in Ctrlers : CtrlerInv(ctl'[r], req')
  <2> SUFFICES ASSUME NEW r \in Ctrlers PROVE CtrlerInv(ctl'[r], req')
    OBVIOUS
  <2>1. ctl'[r] = [pc |-> "join", cfg |-> base, todo |-> DOMAIN j, next |-> 1]
    BY DEF StartJoin
  <2>2. QED
    BY <1>1, <1>2, <2>1, StartInv
<1>4. ctl' = [r \in Ctrlers |-> ctl'[r]]
  BY DEF StartJoin
<1>5. base' = base
  BY DEF StartJoin
<1>6. QED
  BY <1>1, <1>3, <1>4, <1>5, PrimeInv DEF IInv

\* StartLeave preserves the invariant.
LEMMA StartLeaveKeeps ==
    ASSUME IInv, NEW l \in Leaves, StartLeave(l)
    PROVE  IInv'
<1>1. req' \in Requests /\ req'.op = "leave"
  BY DEF StartLeave, Requests
<1>3. \A r \in Ctrlers : CtrlerInv(ctl'[r], req')
  <2> SUFFICES ASSUME NEW r \in Ctrlers PROVE CtrlerInv(ctl'[r], req')
    OBVIOUS
  <2>1. ctl'[r] = [pc |-> "leave", cfg |-> base, todo |-> {}, next |-> 1]
    BY DEF StartLeave
  <2>2. QED
    BY <1>1, <2>1, StartInv
<1>4. ctl' = [r \in Ctrlers |-> ctl'[r]]
  BY DEF StartLeave
<1>5. base' = base
  BY DEF StartLeave
<1>6. QED
  BY <1>1, <1>3, <1>4, <1>5, PrimeInv DEF IInv

\* A controller that only stops, with its copy as it is.
LEMMA StopInv ==
    ASSUME NEW q, NEW k, CtrlerInv(k, q), NEW pc \in {"failed", "fatal"}
    PROVE  CtrlerInv([k EXCEPT !.pc = pc], q)
<1> DEFINE n == [k EXCEPT !.pc = pc]
<1>1. k \in State
  BY DEF CtrlerInv
<1>2. n = [pc |-> pc, cfg |-> k.cfg, todo |-> k.todo, next |-> k.next]
  BY <1>1, StateParts
<1>3. n \in State
  BY <1>1, <1>2, StateParts, MakeState DEF PCs
<1>4. n.pc = pc /\ n.cfg = k.cfg
  BY <1>2
<1>5. QED
  BY <1>3, <1>4 DEF CtrlerInv

\* A group that joins shares no server with the others.
LEMMA AddGroupDisjoint ==
    ASSUME NEW c \in Config, NEW g \in Gids, NEW srvs \in SUBSET Servers,
           g \notin Members(c), ~SharesServer(c, srvs), Disjoint(c)
    PROVE  Disjoint(AddGroup(c, g, srvs))
<1> DEFINE d == AddGroup(c, g, srvs)
<1>1. Members(d) = Members(c) \cup {g}
  BY AddGroupType
<1>2. \A h \in Members(c) \cup {g} : d.groups[h] = IF h = g THEN srvs ELSE c.groups[h]
  BY AddGroupType
<1>3. \A h \in Members(c) : c.groups[h] \cap srvs = {}
  BY DEF SharesServer
<1> HIDE DEF d
<1>4. \A h \in Members(c) : d.groups[h] = c.groups[h]
  BY <1>2
<1>5. d.groups[g] = srvs
  BY <1>2
<1>6. SUFFICES ASSUME NEW x \in Members(d), NEW y \in Members(d), x # y
               PROVE  d.groups[x] \cap d.groups[y] = {}
  BY DEF Disjoint, d
<1>7. CASE x = g
  <2>1. y \in Members(c)
    BY <1>1, <1>6, <1>7
  <2>2. QED
    BY <1>3, <1>4, <1>5, <1>7, <2>1
<1>8. CASE y = g
  <2>1. x \in Members(c)
    BY <1>1, <1>6, <1>8
  <2>2. QED
    BY <1>3, <1>4, <1>5, <1>8, <2>1
<1>9. CASE x # g /\ y # g
  <2>1. x \in Members(c) /\ y \in Members(c)
    BY <1>1, <1>6, <1>9
  <2>2. QED
    BY <1>4, <1>6, <2>1 DEF Disjoint
<1>10. QED
  BY <1>7, <1>8, <1>9

\* JoinOne preserves the invariant.
LEMMA JoinOneKeeps ==
    ASSUME IInv, NEW r \in Ctrlers, NEW gid \in Gids, JoinOne(r, gid)
    PROVE  IInv'
<1> DEFINE k == ctl[r]
           c == k.cfg
           srvs == req.arg[gid]
           n == [k EXCEPT !.cfg = AddGroup(c, gid, srvs), !.todo = k.todo \ {gid}]
<1>1. CtrlerInv(k, req) /\ k \in State /\ req \in Requests
  BY DEF IInv, CtrlerInv
<1>2. k.pc = "join" /\ gid \in k.todo /\ UNCHANGED <<base, req>>
  BY DEF JoinOne
<1>3. req.op = "join" /\ k.todo \subseteq DOMAIN req.arg
  BY <1>1, <1>2 DEF CtrlerInv
<1>4. srvs \in SUBSET Servers
  BY <1>1, <1>2, <1>3, JoinRequest, JoinArg
<1>5. CASE gid \in Members(c)
  <2>1. ctl' = [ctl EXCEPT ![r] = [k EXCEPT !.pc = "failed"]]
    BY <1>5 DEF JoinOne
  <2>2. QED
    BY <1>1, <1>2, <2>1, StopInv, CtrlerStepKeeps
<1>6. CASE gid \notin Members(c) /\ SharesServer(c, srvs)
  <2>1. ctl' = [ctl EXCEPT ![r] = [k EXCEPT !.pc = "fatal"]]
    BY <1>6 DEF JoinOne
  <2>2. QED
    BY <1>1, <1>2, <2>1, StopInv, CtrlerStepKeeps
<1>7. CASE gid \notin Members(c) /\ ~SharesServer(c, srvs)
  <2>1. ctl' = [ctl EXCEPT ![r] = n]
    BY <1>7 DEF JoinOne
  <2>2. c \in Config /\ Disjoint(c)
    BY <1>1, StateParts DEF CtrlerInv
  <2>3. AddGroup(c, gid, srvs) \in Config /\ Disjoint(AddGroup(c, gid, srvs))
    BY <1>4, <1>7, <2>2, AddGroupType, AddGroupDisjoint
  <2>4. n = [pc |-> "join", cfg |-> AddGroup(c, gid, srvs), todo |-> k.todo \ {gid},
             next |-> k.next]
    BY <1>1, <1>2, ChangeCfgTodo
  <2>5. k.todo \ {gid} \in SUBSET Gids /\ k.next \in Nat \ {0}
    BY <1>1, StateParts
  <2> HIDE DEF k, c, srvs
  <2>6. n \in State
    BY <2>3, <2>4, <2>5, MakeState DEF PCs
  <2>7. CtrlerInv(n, req)
    BY <1>3, <2>3, <2>4, <2>6 DEF CtrlerInv
  <2>8. QED
    BY <1>2, <2>1, <2>7, CtrlerStepKeeps DEF k
<1>8. QED
  BY <1>5, <1>6, <1>7

\* LeaveOne preserves the invariant.
LEMMA LeaveOneKeeps ==
    ASSUME IInv, NEW r \in Ctrlers, LeaveOne(r)
    PROVE  IInv'
<1> DEFINE k == ctl[r]
           c == k.cfg
           gid == req.arg[k.next]
           d == RemoveGroup(c, gid)
           m == k.next + 1
           n == [k EXCEPT !.cfg = d, !.next = m]
<1>1. CtrlerInv(k, req) /\ k \in State
  BY DEF IInv, CtrlerInv
<1>2. k.pc = "leave" /\ UNCHANGED <<base, req>>
  BY DEF LeaveOne
<1>3. CASE gid \notin Members(c)
  <2>1. ctl' = [ctl EXCEPT ![r] = [k EXCEPT !.pc = "failed"]]
    BY <1>3 DEF LeaveOne
  <2>2. QED
    BY <1>1, <1>2, <2>1, StopInv, CtrlerStepKeeps
<1>4. CASE gid \in Members(c)
  <2>1. ctl' = [ctl EXCEPT ![r] = n]
    BY <1>4 DEF LeaveOne
  <2>2. c \in Config /\ Disjoint(c) /\ req.op = "leave"
    BY <1>1, <1>2, StateParts DEF CtrlerInv
  <2>3. d \in Config /\ Members(d) = Members(c) \ {gid}
        /\ \A h \in Members(c) \ {gid} : d.groups[h] = c.groups[h]
    BY <2>2, RemoveGroupType
  <2>4. k.todo \in SUBSET Gids /\ m \in Nat \ {0}
    BY <1>1, StateParts
  <2> HIDE DEF m, d
  <2>5. n = [pc |-> "leave", cfg |-> d, todo |-> k.todo, next |-> m]
    <3>1. k \in State /\ k.pc = "leave"
      BY <1>1, <1>2
    <3> HIDE DEF k
    <3>2. n = [pc |-> k.pc, cfg |-> d, todo |-> k.todo, next |-> m]
      BY <3>1, ChangeCfgNext
    <3>3. QED
      BY <3>1, <3>2
  <2> HIDE DEF k, c, gid
  <2>6. Disjoint(d)
    BY <2>2, <2>3 DEF Disjoint
  <2>7. n \in State
    BY <2>3, <2>4, <2>5, MakeState DEF PCs
  <2>8. CtrlerInv(n, req)
    BY <2>2, <2>5, <2>6, <2>7 DEF CtrlerInv
  <2>9. QED
    BY <1>2, <2>1, <2>8, CtrlerStepKeeps DEF k
<1>5. QED
  BY <1>3, <1>4

\* The end of Join and Leave.
LEMMA EndOfInv ==
    ASSUME NEW k, NEW q, CtrlerInv(k, q)
    PROVE  CtrlerInv(EndOf(k), q)
<1>1. k \in State /\ k.cfg \in Config /\ Disjoint(k.cfg)
  BY StateParts DEF CtrlerInv
<1>2. CASE Members(k.cfg) = Members(base)
  BY <1>2, StopInv DEF EndOf
<1>3. CASE Members(k.cfg) # Members(base)
  <2> DEFINE d == [num |-> k.cfg.num + 1, shards |-> k.cfg.shards, groups |-> k.cfg.groups]
  <2>1. [k.cfg EXCEPT !.num = k.cfg.num + 1] = d
    BY <1>1 DEF Config
  <2>2. EndOf(k) = [k EXCEPT !.cfg = [k.cfg EXCEPT !.num = k.cfg.num + 1],
                             !.pc = "rebalance", !.next = 1]
    BY <1>1, <1>3 DEF EndOf, State
  <2>4. d \in Config
    <3>1. k.cfg.num + 1 \in Nat /\ k.cfg.shards \in [Shards -> Gids \cup {NoGid}]
      BY <1>1, ConfigParts
    <3>2. Members(k.cfg) \in SUBSET Gids /\ k.cfg.groups \in [Members(k.cfg) -> SUBSET Servers]
      BY <1>1, ConfigParts
    <3>3. QED
      BY <3>1, <3>2, MakeConfig
  <2>5. Disjoint(d)
    BY <1>1 DEF Disjoint, Members
  <2> HIDE DEF d
  <2>3. EndOf(k) = [pc |-> "rebalance", cfg |-> d, todo |-> k.todo, next |-> 1]
    <3>1. EndOf(k) = [k EXCEPT !.cfg = d, !.pc = "rebalance", !.next = 1]
      BY <2>1, <2>2
    <3>2. QED
      BY <1>1, <3>1, ChangeCfgPCNext
  <2>6. EndOf(k) \in State
    BY <1>1, <2>3, <2>4, StateParts, MakeState DEF PCs
  <2>7. QED
    BY <2>3, <2>5, <2>6 DEF CtrlerInv
<1>4. QED
  BY <1>2, <1>3

\* EndJoinLeave preserves the invariant.
LEMMA EndJoinLeaveKeeps ==
    ASSUME IInv, NEW r \in Ctrlers, EndJoin(r) \/ EndLeave(r)
    PROVE  IInv'
<1>1. ctl' = [ctl EXCEPT ![r] = EndOf(ctl[r])] /\ UNCHANGED <<base, req>>
  BY DEF EndJoin, EndLeave
<1>2. CtrlerInv(EndOf(ctl[r]), req)
  BY EndOfInv DEF IInv
<1>3. QED
  BY <1>1, <1>2, CtrlerStepKeeps

\* Without groups there is nothing to balance.
LEMMA UnassignKeeps ==
    ASSUME IInv, NEW r \in Ctrlers, Unassign(r)
    PROVE  IInv'
<1> DEFINE k == ctl[r]
           c == k.cfg
           sh == [s \in Shards |-> NoGid]
           d == [num |-> c.num, shards |-> sh, groups |-> c.groups]
           n == [k EXCEPT !.cfg = d, !.pc = "done"]
<1>1. CtrlerInv(k, req) /\ k \in State /\ c \in Config
  BY StateParts DEF IInv, CtrlerInv
<1>2. Members(c) = {} /\ UNCHANGED <<base, req>>
  BY DEF Unassign
<1>3. [c EXCEPT !.shards = sh] = d
  BY <1>1 DEF Config
<1>4. [ctl EXCEPT ![r].cfg.shards = sh, ![r].pc = "done"]
        = [ctl EXCEPT ![r] = [k EXCEPT !.cfg = [c EXCEPT !.shards = sh], !.pc = "done"]]
  BY <1>1 DEF IInv, State
<1>5. ctl' = [ctl EXCEPT ![r] = n]
  BY <1>3, <1>4 DEF Unassign
<1>6. n = [pc |-> "done", cfg |-> d, todo |-> k.todo, next |-> k.next]
  BY <1>1, ChangeCfgPC
<1>7. d \in Config
  <2>1. sh \in [Shards -> Gids \cup {NoGid}]
    OBVIOUS
  <2>2. c.num \in Nat /\ Members(c) \in SUBSET Gids /\ c.groups \in [Members(c) -> SUBSET Servers]
    BY <1>1, ConfigParts
  <2>3. QED
    BY <2>1, <2>2, MakeConfig
<1>8. Members(d) = {}
  BY <1>2 DEF Members
<1>9. k.todo \in SUBSET Gids /\ k.next \in Nat \ {0}
  BY <1>1, StateParts
<1>10. \A s \in Shards : d.shards[s] = NoGid
  OBVIOUS
<1> HIDE DEF k, c, d
<1>11. n \in State
  BY <1>6, <1>7, <1>9, MakeState DEF PCs
<1>12. Sound(d) /\ Disjoint(d)
  BY <1>8, <1>10 DEF Sound, WellFormed, Disjoint
<1>13. CtrlerInv(n, req)
  BY <1>6, <1>11, <1>12 DEF CtrlerInv
<1>14. QED
  BY <1>2, <1>5, <1>13, CtrlerStepKeeps DEF k

\* BeginAssign preserves the invariant.
LEMMA BeginAssignKeeps ==
    ASSUME IInv, NEW r \in Ctrlers, BeginAssign(r)
    PROVE  IInv'
<1> DEFINE k == ctl[r]
           n == [k EXCEPT !.pc = "assign"]
<1>1. CtrlerInv(k, req) /\ k \in State
  BY DEF IInv, CtrlerInv
<1>2. Members(k.cfg) # {} /\ UNCHANGED <<base, req>>
  BY DEF BeginAssign
<1>3. ctl' = [ctl EXCEPT ![r] = n]
  BY <1>1 DEF BeginAssign, IInv, State
<1>4. n = [pc |-> "assign", cfg |-> k.cfg, todo |-> k.todo, next |-> k.next]
  BY <1>1, ChangePC
<1>5. n \in State
  BY <1>1, <1>4, StateParts, MakeState DEF PCs
<1>6. k.next = 1
  BY <1>1 DEF CtrlerInv, BeginAssign
<1>7. Assigned(k.cfg, k.next)
  BY <1>6 DEF Assigned, Shards
<1> HIDE DEF k
<1>8. CtrlerInv(n, req)
  BY <1>1, <1>2, <1>4, <1>5, <1>7 DEF CtrlerInv
<1>9. QED
  BY <1>2, <1>3, <1>8, CtrlerStepKeeps DEF k

\* One more shard is with a group that is present.
LEMMA AssignAssigned ==
    ASSUME NEW c \in Config, NEW s \in Shards, NEW g \in Members(c), NEW n \in Nat,
           Assigned(c, n)
    PROVE  /\ Assigned(Assign(c, s, g), n)
           /\ n = s => Assigned(Assign(c, s, g), n + 1)
           /\ Members(Assign(c, s, g)) = Members(c)
           /\ Disjoint(c) => Disjoint(Assign(c, s, g))
           /\ Assign(c, s, g) \in Config
<1> DEFINE d == Assign(c, s, g)
<1>1. g \in Gids
  BY ConfigParts
<1>2. d \in Config /\ d.groups = c.groups /\ d.shards = [c.shards EXCEPT ![s] = g]
  BY <1>1, AssignType
<1>3. c.shards \in [Shards -> Gids \cup {NoGid}]
  BY ConfigParts
<1> HIDE DEF d
<1>4. Members(d) = Members(c)
  BY <1>2 DEF Members
<1>5. \A t \in Shards : d.shards[t] = IF t = s THEN g ELSE c.shards[t]
  BY <1>2, <1>3
<1>6. Assigned(d, n)
  BY <1>4, <1>5 DEF Assigned
<1>7. n = s => Assigned(d, n + 1)
  BY <1>4, <1>5 DEF Assigned, Shards
<1>8. Disjoint(c) => Disjoint(d)
  BY <1>2, <1>4 DEF Disjoint
<1>9. QED
  BY <1>2, <1>4, <1>6, <1>7, <1>8 DEF d

\* AssignOne preserves the invariant.
LEMMA AssignOneKeeps ==
    ASSUME IInv, NEW r \in Ctrlers, AssignOne(r)
    PROVE  IInv'
<1> DEFINE k == ctl[r]
           c == k.cfg
           s == k.next
           m == s + 1
<1>1. CtrlerInv(k, req) /\ k \in State /\ c \in Config
  BY StateParts DEF IInv, CtrlerInv
<1>2. k.pc = "assign" /\ s <= NShards /\ UNCHANGED <<base, req>>
  BY DEF AssignOne
<1>3. s \in Nat \ {0} /\ s \in Shards /\ m \in Nat \ {0} /\ k.todo \in SUBSET Gids
  BY <1>1, <1>2, StateParts, NShardsAssumption DEF Shards
<1>4. Members(c) # {} /\ Assigned(c, s) /\ Disjoint(c)
  BY <1>1, <1>2 DEF CtrlerInv
<1>5. CASE c.shards[s] \in Members(c)
  <2> DEFINE n == [k EXCEPT !.next = m]
  <2>1. ctl' = [ctl EXCEPT ![r] = n]
    BY <1>1, <1>5 DEF AssignOne, IInv, State
  <2>2. Assigned(c, m)
    BY <1>3, <1>4, <1>5 DEF Assigned, Shards
  <2> HIDE DEF m
  <2>3. n = [pc |-> "assign", cfg |-> c, todo |-> k.todo, next |-> m]
    BY <1>1, <1>2, ChangeNext
  <2>4. n \in State
    BY <1>1, <1>3, <2>3, MakeState DEF PCs
  <2> HIDE DEF k, c, s
  <2>5. CtrlerInv(n, req)
    BY <1>4, <2>2, <2>3, <2>4 DEF CtrlerInv
  <2>6. QED
    BY <1>2, <2>1, <2>5, CtrlerStepKeeps DEF k
<1>6. CASE c.shards[s] \notin Members(c)
  <2>1. PICK lg \in Members(c) :
          ctl' = [ctl EXCEPT ![r].cfg = Assign(c, s, lg), ![r].next = s + 1]
    BY <1>6 DEF AssignOne
  <2> DEFINE d == Assign(c, s, lg)
             n == [k EXCEPT !.cfg = d, !.next = m]
  <2>2. ctl' = [ctl EXCEPT ![r] = n]
    BY <1>1, <2>1 DEF IInv, State
  <2>3. Assigned(d, m) /\ Members(d) = Members(c) /\ Disjoint(d) /\ d \in Config
    BY <1>1, <1>3, <1>4, AssignAssigned
  <2> HIDE DEF m, d
  <2>4. n = [pc |-> "assign", cfg |-> d, todo |-> k.todo, next |-> m]
    <3>1. k \in State /\ k.pc = "assign"
      BY <1>1, <1>2
    <3> HIDE DEF k
    <3>2. n = [pc |-> k.pc, cfg |-> d, todo |-> k.todo, next |-> m]
      BY <3>1, ChangeCfgNext
    <3>3. QED
      BY <3>1, <3>2
  <2>5. n \in State
    BY <1>3, <2>3, <2>4, MakeState DEF PCs
  <2> HIDE DEF k, c, s
  <2>6. CtrlerInv(n, req)
    BY <1>4, <2>3, <2>4, <2>5 DEF CtrlerInv
  <2>7. QED
    BY <1>2, <2>2, <2>6, CtrlerStepKeeps DEF k
<1>7. QED
  BY <1>5, <1>6

\* EndAssign preserves the invariant.
LEMMA EndAssignKeeps ==
    ASSUME IInv, NEW r \in Ctrlers, EndAssign(r)
    PROVE  IInv'
<1> DEFINE k == ctl[r]
           n == [k EXCEPT !.pc = "move"]
<1>1. CtrlerInv(k, req) /\ k \in State
  BY DEF IInv, CtrlerInv
<1>2. k.pc = "assign" /\ k.next > NShards /\ UNCHANGED <<base, req>>
  BY DEF EndAssign
<1>3. ctl' = [ctl EXCEPT ![r] = n]
  BY <1>1 DEF EndAssign, IInv, State
<1>4. n = [pc |-> "move", cfg |-> k.cfg, todo |-> k.todo, next |-> k.next]
  BY <1>1, ChangePC
<1>5. n \in State
  BY <1>1, <1>4, StateParts, MakeState DEF PCs
<1>6. Members(k.cfg) # {} /\ Assigned(k.cfg, k.next) /\ Disjoint(k.cfg)
  BY <1>1, <1>2 DEF CtrlerInv
<1>7. Assigned(k.cfg, NShards + 1)
  BY <1>1, <1>2, <1>6, StateParts, NShardsAssumption DEF Assigned, Shards
<1> HIDE DEF k
<1>8. CtrlerInv(n, req)
  BY <1>4, <1>5, <1>6, <1>7 DEF CtrlerInv
<1>9. QED
  BY <1>2, <1>3, <1>8, CtrlerStepKeeps DEF k

\* MoveOne preserves the invariant.
LEMMA MoveOneKeeps ==
    ASSUME IInv, NEW r \in Ctrlers, MoveOne(r)
    PROVE  IInv'
<1> DEFINE k == ctl[r]
           c == k.cfg
<1>1. CtrlerInv(k, req) /\ k \in State /\ c \in Config
  BY StateParts DEF IInv, CtrlerInv
<1>2. k.pc = "move" /\ UNCHANGED <<base, req>>
  BY DEF MoveOne
<1>3. Members(c) # {} /\ Assigned(c, NShards + 1) /\ Disjoint(c)
  BY <1>1, <1>2 DEF CtrlerInv
<1>4. PICK lg \in Members(c), s \in Shards : ctl' = [ctl EXCEPT ![r].cfg = Assign(c, s, lg)]
  BY DEF MoveOne
<1> DEFINE d == Assign(c, s, lg)
           n == [k EXCEPT !.cfg = d]
<1>5. ctl' = [ctl EXCEPT ![r] = n]
  BY <1>1, <1>4 DEF IInv, State
<1>6. NShards + 1 \in Nat
  BY NShardsAssumption
<1>7. Assigned(d, NShards + 1) /\ Members(d) = Members(c) /\ Disjoint(d) /\ d \in Config
  BY <1>1, <1>3, <1>6, AssignAssigned
<1> HIDE DEF d
<1>8. n = [pc |-> "move", cfg |-> d, todo |-> k.todo, next |-> k.next]
  BY <1>1, <1>2, ChangeCfg
<1>9. n \in State
  BY <1>1, <1>7, <1>8, StateParts, MakeState DEF PCs
<1> HIDE DEF k, c
<1>10. CtrlerInv(n, req)
  BY <1>3, <1>7, <1>8, <1>9 DEF CtrlerInv
<1>11. QED
  BY <1>2, <1>5, <1>10, CtrlerStepKeeps DEF k

\* When the group with most and the one with least shards differ by less than two,
\* so do any two.
LEMMA EvenIsWellFormed ==
    ASSUME NEW c \in Config, NEW mg, NEW lg, IsMostOf(c, mg), IsLeastOf(c, lg),
           ~Uneven(c, mg, lg), Assigned(c, NShards + 1)
    PROVE  WellFormed(c)
<1>1. \A s \in Shards : c.shards[s] \in Members(c)
  BY NShardsAssumption DEF Assigned, Shards
<1>2. \A s \in Shards : GidServers(c, s).ok
  BY <1>1 DEF GidServers
<1>3. \A g, h \in Members(c) : Count(c, g) <= Count(c, h) + 1
  <2> SUFFICES ASSUME NEW g \in Members(c), NEW h \in Members(c)
               PROVE  Count(c, g) <= Count(c, h) + 1
    OBVIOUS
  <2>1. /\ Count(c, g) \in Nat /\ Count(c, h) \in Nat
        /\ Count(c, mg) \in Nat /\ Count(c, lg) \in Nat
    BY CountType
  <2>2. Count(c, g) <= Count(c, mg)
    BY <2>1 DEF IsMostOf
  <2>3. Count(c, lg) <= Count(c, h)
    BY <2>1 DEF IsLeastOf
  <2>4. Count(c, mg) < Count(c, lg) + 2
    BY <2>1 DEF Uneven
  <2>5. QED
    BY <2>1, <2>2, <2>3, <2>4
<1>4. QED
  BY <1>2, <1>3 DEF WellFormed

\* EndMove preserves the invariant.
LEMMA EndMoveKeeps ==
    ASSUME IInv, NEW r \in Ctrlers, EndMove(r)
    PROVE  IInv'
<1> DEFINE k == ctl[r]
           c == k.cfg
           n == [k EXCEPT !.pc = "done"]
<1>1. CtrlerInv(k, req) /\ k \in State /\ c \in Config
  BY StateParts DEF IInv, CtrlerInv
<1>2. k.pc = "move" /\ UNCHANGED <<base, req>>
  BY DEF EndMove
<1>3. Assigned(c, NShards + 1) /\ Disjoint(c)
  BY <1>1, <1>2 DEF CtrlerInv
<1>4. PICK mg \in Members(c), lg \in Members(c) :
        IsMostOf(c, mg) /\ IsLeastOf(c, lg) /\ ~Uneven(c, mg, lg)
  BY DEF EndMove
<1>5. Sound(c)
  BY <1>1, <1>3, <1>4, EvenIsWellFormed DEF Sound
<1>6. ctl' = [ctl EXCEPT ![r] = n]
  BY <1>1 DEF EndMove, IInv, State
<1>7. n = [pc |-> "done", cfg |-> c, todo |-> k.todo, next |-> k.next]
  BY <1>1, ChangePC
<1>8. n \in State
  BY <1>1, <1>7, StateParts, MakeState DEF PCs
<1> HIDE DEF k, c
<1>9. CtrlerInv(n, req)
  BY <1>3, <1>5, <1>7, <1>8 DEF CtrlerInv
<1>10. QED
  BY <1>2, <1>6, <1>9, CtrlerStepKeeps DEF k

\* Publish preserves the invariant.
LEMMA PublishKeeps ==
    ASSUME IInv, Publish
    PROVE  IInv'
<1>1. PICK r \in Ctrlers : base' = ctl[r].cfg
  BY DEF Publish
<1>2. CtrlerInv(ctl[r], req) /\ ctl[r].pc = "done"
  BY DEF IInv, Publish
<1>3. base' \in Config /\ Sound(base') /\ Disjoint(base')
  BY <1>1, <1>2, StateParts DEF CtrlerInv
<1>4. req' \in Requests /\ ctl' = [x \in Ctrlers |-> ctl'[x]]
  BY DEF Publish, Requests
<1>5. \A x \in Ctrlers : CtrlerInv(ctl'[x], req')
  BY IdleInv DEF Publish
<1>6. QED
  BY <1>3, <1>4, <1>5, PrimeInv

\* Next preserves the invariant.
LEMMA NextKeeps == IInv /\ [Next]_vars => IInv'
<1> SUFFICES ASSUME IInv, [Next]_vars PROVE IInv'
  OBVIOUS
<1>1. CASE UNCHANGED vars
  <2>1. base' = base /\ req' = req /\ ctl' = ctl
    BY <1>1 DEF vars
  <2>2. QED
    BY <2>1, PrimeInv DEF IInv
<1>2. CASE Next
  <2>1. ASSUME NEW j \in Joins, StartJoin(j) PROVE IInv'
    BY <2>1, StartJoinKeeps
  <2>2. ASSUME NEW l \in Leaves, StartLeave(l) PROVE IInv'
    BY <2>2, StartLeaveKeeps
  <2>3. ASSUME NEW r \in Ctrlers, CtrlerStep(r) PROVE IInv'
    BY <2>3, JoinOneKeeps, LeaveOneKeeps, EndJoinLeaveKeeps, UnassignKeeps, BeginAssignKeeps,
       AssignOneKeeps, EndAssignKeeps, MoveOneKeeps, EndMoveKeeps DEF CtrlerStep
  <2>4. CASE Publish
    BY <2>4, PublishKeeps
  <2>5. QED
    BY <1>2, <2>1, <2>2, <2>3, <2>4 DEF Next
<1>3. QED
  BY <1>1, <1>2

\* The invariant holds always.
LEMMA Invariance == Spec => []IInv
BY InitInv, NextKeeps, PTL DEF Spec

-----------------------------------------------------------------------------
(* The theorems *)

\* Join, Leave and Rebalance keep the configuration's type: the shards are never
\* given to a gid that is not one, as analyze's -1.
THEOREM ShardCfgTypeOK == Spec => []TypeOK
<1>1. IInv => TypeOK
  <2> SUFFICES ASSUME IInv PROVE TypeOK
    OBVIOUS
  <2>1. \A r \in Ctrlers : ctl[r] \in State
    BY DEF IInv, CtrlerInv
  <2>2. ctl \in [Ctrlers -> State]
    BY <2>1 DEF IInv
  <2>3. QED
    BY <2>2 DEF IInv, TypeOK, State
<1>2. QED
  BY <1>1, Invariance, PTL

\* Every configuration that is published, or returned by Rebalance, has all shards
\* with groups that are present and shard counts that differ by at most one
\* (CheckConfig), for any number of shards and any changes of groups.
THEOREM RebalanceIsBalanced == Spec => []Balanced
<1>1. IInv => Balanced
  BY DEF IInv, CtrlerInv, Sound, Balanced
<1>2. QED
  BY <1>1, Invariance, PTL

\* No server is in two groups of a published configuration.
THEOREM GroupsAreDisjoint == Spec => []OneGroupPerServer
<1>1. IInv => OneGroupPerServer
  BY DEF IInv, Disjoint, OneGroupPerServer
<1>2. QED
  BY <1>1, Invariance, PTL

\* A group with at most one shard has no two.
LEMMA AtMostOne ==
    ASSUME NEW c, NEW g, Count(c, g) <= 1, NEW s \in Shards, NEW t \in Shards,
           c.shards[s] = g, c.shards[t] = g
    PROVE  s = t
<1> SUFFICES ASSUME s # t PROVE FALSE
  OBVIOUS
<1> DEFINE S == {u \in Shards : c.shards[u] = g}
<1>1. IsFiniteSet(S)
  BY NShardsAssumption, FS_Interval, FS_Subset DEF Shards
<1>2. Cardinality({s, t}) = 2
  <2>1. IsFiniteSet({s}) /\ Cardinality({s}) = 1
    BY FS_Singleton
  <2>2. Cardinality({s} \cup {t}) = 2
    BY <2>1, FS_AddElement
  <2>3. {s, t} = {s} \cup {t}
    OBVIOUS
  <2>4. QED
    BY <2>2, <2>3
<1>3. {s, t} \subseteq S
  OBVIOUS
<1>4. Cardinality({s, t}) <= Cardinality(S)
  BY <1>1, <1>3, FS_Subset
<1>5. Cardinality(S) \in Nat /\ Cardinality(S) <= 1
  BY CountType DEF Count
<1>6. QED
  BY <1>2, <1>4, <1>5

\* With no more groups than shards every group has a shard.
LEMMA EveryGroupHasOne ==
    ASSUME NEW c \in Config, Sound(c), Cardinality(Members(c)) <= NShards,
           IsFiniteSet(Members(c)), NEW g \in Members(c)
    PROVE  IsMember(c, g)
<1> SUFFICES ASSUME ~IsMember(c, g) PROVE FALSE
  OBVIOUS
<1> DEFINE M == Members(c)
           T == M \ {g}
<1>1. \A s \in Shards : c.shards[s] \in T
  BY DEF IsMember, Sound, WellFormed, GidServers
<1>2. Count(c, g) = 0
  <2>1. {s \in Shards : c.shards[s] = g} = {}
    BY DEF IsMember
  <2>2. QED
    BY <2>1, FS_EmptySet DEF Count
<1>3. \A h \in M : Count(c, h) <= 1
  BY <1>2, CountType DEF Sound, WellFormed
<1>4. c.shards \in [Shards -> T]
  BY <1>1, ConfigParts
<1>5. IsInjective(c.shards)
  <2>1. \A s, t \in Shards : c.shards[s] = c.shards[t] => s = t
    BY <1>1, <1>3, AtMostOne
  <2>2. QED
    BY <1>4, <2>1 DEF IsInjective
<1>6. c.shards \in Injection(Shards, T)
  BY <1>4, <1>5 DEF Injection
<1>7. IsFiniteSet(T) /\ Cardinality(T) = Cardinality(M) - 1
  BY FS_RemoveElement
<1>8. Cardinality(Shards) <= Cardinality(T)
  BY <1>6, <1>7, FS_Injection
<1>9. Cardinality(Shards) = NShards
  <2>1. NShards \in Int /\ NShards >= 1
    BY NShardsAssumption
  <2>2. Cardinality(1..NShards) = IF 1 > NShards THEN 0 ELSE NShards - 1 + 1
    BY <2>1, FS_Interval
  <2>3. QED
    BY <2>1, <2>2 DEF Shards
<1>10. Cardinality(M) \in Nat
  BY FS_CardinalityType
<1>11. QED
  BY <1>7, <1>8, <1>9, <1>10, NShardsAssumption

\* IsMember, which looks at the shards, tells which groups are present as long as
\* there are no more groups than shards: Rebalance leaves no group without one.
THEOREM IsMemberIsExact == Spec => []IsMemberMeansPresent
<1>1. IInv => IsMemberMeansPresent
  <2> SUFFICES ASSUME IInv, Cardinality(Members(base)) <= NShards, NEW g \in Gids
               PROVE  IsMember(base, g) <=> g \in Members(base)
    BY DEF IsMemberMeansPresent
  <2>1. base \in Config /\ Sound(base)
    BY DEF IInv
  <2>2. IsFiniteSet(Members(base))
    BY <2>1, GidsAreFinite, ConfigParts, FS_Subset
  <2>3. ASSUME IsMember(base, g) PROVE g \in Members(base)
    <3>1. PICK s \in Shards : base.shards[s] = g
      BY <2>3 DEF IsMember
    <3>2. g # NoGid
      BY GidsAssumption DEF NoGid
    <3>3. Members(base) # {}
      BY <2>1, <3>1, <3>2 DEF Sound
    <3>4. QED
      BY <2>1, <3>1, <3>3 DEF Sound, WellFormed, GidServers
  <2>4. ASSUME g \in Members(base) PROVE IsMember(base, g)
    BY <2>1, <2>2, <2>4, EveryGroupHasOne
  <2>5. QED
    BY <2>3, <2>4
<1>2. QED
  BY <1>1, Invariance, PTL

-----------------------------------------------------------------------------
(* Rebalance as a computation.  Its steps are deterministic, which is what the  *)
(* order of gids and shards is for; MovesAreNeeded and CtrlersAgree are about    *)
(* all states that the computation goes through.                                 *)

\* The state after a step from k that goes to pc, leaves the shards sh behind and
\* has n as the loop variable.
Change(k, pc, sh, n) ==
    [pc |-> pc, cfg |-> [num |-> k.cfg.num, shards |-> sh, groups |-> k.cfg.groups],
     todo |-> k.todo, next |-> n]

\* The shards sh with shard s given to g.
Give(sh, s, g) == [sh EXCEPT ![s] = g]

\* n is the state after one step of Rebalance from state k.
RebalanceStep(k, n) ==
    \/ /\ k.pc = "rebalance" /\ Members(k.cfg) = {}
       /\ n = Change(k, "done", [s \in Shards |-> NoGid], k.next)
    \/ /\ k.pc = "rebalance" /\ Members(k.cfg) # {}
       /\ n = Change(k, "assign", k.cfg.shards, k.next)
    \/ /\ k.pc = "assign" /\ k.next <= NShards /\ k.cfg.shards[k.next] \in Members(k.cfg)
       /\ n = Change(k, "assign", k.cfg.shards, k.next + 1)
    \/ /\ k.pc = "assign" /\ k.next <= NShards /\ k.cfg.shards[k.next] \notin Members(k.cfg)
       /\ \E lg \in Members(k.cfg) :
            /\ IsLeastOf(k.cfg, lg)
            /\ n = Change(k, "assign", Give(k.cfg.shards, k.next, lg), k.next + 1)
    \/ /\ k.pc = "assign" /\ k.next > NShards
       /\ n = Change(k, "move", k.cfg.shards, k.next)
    \/ /\ k.pc = "move"
       /\ \E mg, lg \in Members(k.cfg), s \in Shards :
            /\ IsMostOf(k.cfg, mg) /\ IsLeastOf(k.cfg, lg) /\ Uneven(k.cfg, mg, lg)
            /\ IsFirstShardOf(k.cfg, s, mg)
            /\ n = Change(k, "move", Give(k.cfg.shards, s, lg), k.next)
    \/ /\ k.pc = "move"
       /\ \E mg, lg \in Members(k.cfg) :
            /\ IsMostOf(k.cfg, mg) /\ IsLeastOf(k.cfg, lg) /\ ~Uneven(k.cfg, mg, lg)
            /\ n = Change(k, "done", k.cfg.shards, k.next)

RebalanceAction(r) ==
    Unassign(r) \/ BeginAssign(r) \/ AssignOne(r) \/ EndAssign(r) \/ MoveOne(r) \/ EndMove(r)

\* The state in which a step leaves a controller, when only its program counter,
\* shards and loop variable change.
LEMMA ChangeParts ==
    ASSUME NEW k \in State, NEW pc, NEW sh, NEW n
    PROVE  /\ Change(k, pc, sh, n).pc = pc
           /\ Change(k, pc, sh, n).cfg.shards = sh
           /\ Change(k, pc, sh, n).cfg.groups = k.cfg.groups
           /\ Change(k, pc, sh, n).todo = k.todo
           /\ Change(k, pc, sh, n).next = n
           /\ Members(Change(k, pc, sh, n).cfg) = Members(k.cfg)
           /\ Change(k, pc, k.cfg.shards, n) =
                [pc |-> pc, cfg |-> k.cfg, todo |-> k.todo, next |-> n]
<1>1. k.cfg = [num |-> k.cfg.num, shards |-> k.cfg.shards, groups |-> k.cfg.groups]
  BY StateParts, ConfigParts
<1>2. QED
  BY <1>1 DEF Change, Members

\* Assigning a shard, in these terms.
LEMMA AssignIsChange ==
    ASSUME NEW k \in State, NEW s, NEW g, NEW pc, NEW n
    PROVE  [pc |-> pc, cfg |-> Assign(k.cfg, s, g), todo |-> k.todo, next |-> n] =
             Change(k, pc, Give(k.cfg.shards, s, g), n)
<1>1. k.cfg = [num |-> k.cfg.num, shards |-> k.cfg.shards, groups |-> k.cfg.groups]
  BY StateParts, ConfigParts
<1>2. Assign(k.cfg, s, g) = [num |-> k.cfg.num, shards |-> Give(k.cfg.shards, s, g),
                             groups |-> k.cfg.groups]
  BY <1>1 DEF Assign, Give
<1>3. QED
  BY <1>2 DEF Change

\* The changes that the actions write with EXCEPT.
LEMMA PCIsChange ==
    ASSUME NEW k \in State, NEW pc
    PROVE  [k EXCEPT !.pc = pc] = Change(k, pc, k.cfg.shards, k.next)
<1>1. [k EXCEPT !.pc = pc] = [pc |-> pc, cfg |-> k.cfg, todo |-> k.todo, next |-> k.next]
  BY ChangePC
<1>2. Change(k, pc, k.cfg.shards, k.next) =
        [pc |-> pc, cfg |-> k.cfg, todo |-> k.todo, next |-> k.next]
  BY ChangeParts
<1>3. QED
  BY <1>1, <1>2

\* The same for the loop variable.
LEMMA NextIsChange ==
    ASSUME NEW k \in State, NEW n
    PROVE  [k EXCEPT !.next = n] = Change(k, k.pc, k.cfg.shards, n)
<1>1. [k EXCEPT !.next = n] = [pc |-> k.pc, cfg |-> k.cfg, todo |-> k.todo, next |-> n]
  BY ChangeNext
<1>2. Change(k, k.pc, k.cfg.shards, n) =
        [pc |-> k.pc, cfg |-> k.cfg, todo |-> k.todo, next |-> n]
  BY ChangeParts
<1>3. QED
  BY <1>1, <1>2

\* The same for all shards and the program counter.
LEMMA ShardsAreChange ==
    ASSUME NEW k \in State, NEW sh, NEW pc
    PROVE  [k EXCEPT !.cfg = [k.cfg EXCEPT !.shards = sh], !.pc = pc] =
             Change(k, pc, sh, k.next)
<1> DEFINE d == [k.cfg EXCEPT !.shards = sh]
           e == [num |-> k.cfg.num, shards |-> sh, groups |-> k.cfg.groups]
<1>1. d = e
  BY StateParts DEF Config
<1> HIDE DEF d
<1>2. [k EXCEPT !.cfg = d, !.pc = pc] = [pc |-> pc, cfg |-> d, todo |-> k.todo, next |-> k.next]
  BY ChangeCfgPC
<1>3. Change(k, pc, sh, k.next) = [pc |-> pc, cfg |-> e, todo |-> k.todo, next |-> k.next]
  BY DEF Change
<1>4. QED
  BY <1>1, <1>2, <1>3 DEF d

\* The same for one shard.
LEMMA AssignOnlyIsChange ==
    ASSUME NEW k \in State, NEW s, NEW g
    PROVE  [k EXCEPT !.cfg = Assign(k.cfg, s, g)] =
             Change(k, k.pc, Give(k.cfg.shards, s, g), k.next)
<1> DEFINE d == Assign(k.cfg, s, g)
<1>1. [pc |-> k.pc, cfg |-> d, todo |-> k.todo, next |-> k.next] =
        Change(k, k.pc, Give(k.cfg.shards, s, g), k.next)
  BY AssignIsChange
<1> HIDE DEF d
<1>2. [k EXCEPT !.cfg = d] = [pc |-> k.pc, cfg |-> d, todo |-> k.todo, next |-> k.next]
  BY ChangeCfg
<1>3. QED
  BY <1>1, <1>2 DEF d

\* The actions of Rebalance are steps of that computation.
LEMMA ActionIsStep ==
    ASSUME IInv, NEW r \in Ctrlers, RebalanceAction(r)
    PROVE  /\ RebalanceStep(ctl[r], ctl'[r])
           /\ ctl' = [ctl EXCEPT ![r] = ctl'[r]]
           /\ UNCHANGED <<base, req>>
<1> DEFINE k == ctl[r]
           c == k.cfg
<1>1. CtrlerInv(k, req) /\ k \in State /\ c \in Config
  BY StateParts DEF IInv, CtrlerInv
<1>2. UNCHANGED <<base, req>>
  BY DEF RebalanceAction, Unassign, BeginAssign, AssignOne, EndAssign, MoveOne, EndMove
<1>3. ctl = [x \in Ctrlers |-> ctl[x]]
  BY DEF IInv
<1>4. \A n : ctl' = [ctl EXCEPT ![r] = n] => ctl'[r] = n
  BY <1>3
<1>5. SUFFICES \E n : ctl' = [ctl EXCEPT ![r] = n] /\ RebalanceStep(k, n)
  BY <1>2, <1>4
<1>6. CASE Unassign(r)
  <2> DEFINE sh == [s \in Shards |-> NoGid]
             n == Change(k, "done", sh, k.next)
  <2>2. [ctl EXCEPT ![r].cfg.shards = sh, ![r].pc = "done"]
          = [ctl EXCEPT ![r] = [k EXCEPT !.cfg = [c EXCEPT !.shards = sh], !.pc = "done"]]
    BY <1>1, <1>3 DEF State
  <2>3. [k EXCEPT !.cfg = [c EXCEPT !.shards = sh], !.pc = "done"] = n
    BY <1>1, ShardsAreChange
  <2>4. ctl' = [ctl EXCEPT ![r] = n]
    BY <1>6, <2>2, <2>3 DEF Unassign
  <2>5. RebalanceStep(k, n)
    BY <1>6 DEF Unassign, RebalanceStep
  <2>6. QED
    BY <2>4, <2>5
<1>7. CASE BeginAssign(r)
  <2> DEFINE n == Change(k, "assign", c.shards, k.next)
  <2>1. [ctl EXCEPT ![r].pc = "assign"] = [ctl EXCEPT ![r] = [k EXCEPT !.pc = "assign"]]
    BY <1>1, <1>3 DEF State
  <2>2. [k EXCEPT !.pc = "assign"] = n
    BY <1>1, PCIsChange
  <2>3. ctl' = [ctl EXCEPT ![r] = n]
    BY <1>7, <2>1, <2>2 DEF BeginAssign
  <2>4. RebalanceStep(k, n)
    BY <1>7 DEF BeginAssign, RebalanceStep
  <2>5. QED
    BY <2>3, <2>4
<1>8. CASE AssignOne(r)
  <2>0. k.pc = "assign" /\ k.next <= NShards
    BY <1>8 DEF AssignOne
  <2>1. CASE c.shards[k.next] \in Members(c)
    <3> DEFINE n == Change(k, "assign", c.shards, k.next + 1)
    <3>1. ctl' = [ctl EXCEPT ![r].next = k.next + 1]
      BY <1>8, <2>1 DEF AssignOne
    <3>2. [ctl EXCEPT ![r].next = k.next + 1] = [ctl EXCEPT ![r] = [k EXCEPT !.next = k.next + 1]]
      BY <1>1, <1>3 DEF State
    <3>3. [k EXCEPT !.next = k.next + 1] = n
      BY <1>1, <2>0, NextIsChange
    <3>4. RebalanceStep(k, n)
      BY <2>0, <2>1 DEF RebalanceStep
    <3>5. QED
      BY <3>1, <3>2, <3>3, <3>4
  <2>2. CASE c.shards[k.next] \notin Members(c)
    <3>1. PICK lg \in Members(c) :
            /\ IsLeastOf(c, lg)
            /\ ctl' = [ctl EXCEPT ![r].cfg = Assign(c, k.next, lg), ![r].next = k.next + 1]
      BY <1>8, <2>2 DEF AssignOne
    <3> DEFINE n == Change(k, "assign", Give(c.shards, k.next, lg), k.next + 1)
               d == Assign(c, k.next, lg)
    <3>2. [ctl EXCEPT ![r].cfg = d, ![r].next = k.next + 1]
            = [ctl EXCEPT ![r] = [k EXCEPT !.cfg = d, !.next = k.next + 1]]
      BY <1>1, <1>3 DEF State
    <3>3. [k EXCEPT !.cfg = d, !.next = k.next + 1]
            = Change(k, k.pc, Give(c.shards, k.next, lg), k.next + 1)
      <4> DEFINE m == k.next + 1
      <4> HIDE DEF d, m
      <4>1. [k EXCEPT !.cfg = d, !.next = m] = [pc |-> k.pc, cfg |-> d, todo |-> k.todo, next |-> m]
        BY <1>1, ChangeCfgNext
      <4>2. [pc |-> k.pc, cfg |-> d, todo |-> k.todo, next |-> m]
              = Change(k, k.pc, Give(c.shards, k.next, lg), m)
        BY <1>1, AssignIsChange DEF d
      <4>3. QED
        BY <4>1, <4>2 DEF m
    <3>4. RebalanceStep(k, n)
      BY <2>0, <2>2, <3>1 DEF RebalanceStep
    <3>5. QED
      BY <2>0, <3>1, <3>2, <3>3, <3>4, Zenon
  <2>3. QED
    BY <2>1, <2>2
<1>9. CASE EndAssign(r)
  <2> DEFINE n == Change(k, "move", c.shards, k.next)
  <2>1. [ctl EXCEPT ![r].pc = "move"] = [ctl EXCEPT ![r] = [k EXCEPT !.pc = "move"]]
    BY <1>1, <1>3 DEF State
  <2>2. [k EXCEPT !.pc = "move"] = n
    BY <1>1, PCIsChange
  <2>3. ctl' = [ctl EXCEPT ![r] = n]
    BY <1>9, <2>1, <2>2 DEF EndAssign
  <2>4. RebalanceStep(k, n)
    BY <1>9 DEF EndAssign, RebalanceStep
  <2>5. QED
    BY <2>3, <2>4
<1>10. CASE MoveOne(r)
  <2>1. PICK mg \in Members(c), lg \in Members(c), s \in Shards :
          /\ IsMostOf(c, mg) /\ IsLeastOf(c, lg) /\ Uneven(c, mg, lg)
          /\ IsFirstShardOf(c, s, mg)
          /\ ctl' = [ctl EXCEPT ![r].cfg = Assign(c, s, lg)]
    BY <1>10 DEF MoveOne
  <2> DEFINE n == Change(k, "move", Give(c.shards, s, lg), k.next)
             d == Assign(c, s, lg)
  <2>2. [ctl EXCEPT ![r].cfg = d] = [ctl EXCEPT ![r] = [k EXCEPT !.cfg = d]]
    BY <1>1, <1>3 DEF State
  <2>3. k.pc = "move"
    BY <1>10 DEF MoveOne
  <2>4. [k EXCEPT !.cfg = d] = Change(k, k.pc, Give(c.shards, s, lg), k.next)
    BY <1>1, AssignOnlyIsChange
  <2>5. RebalanceStep(k, n)
    BY <2>1, <2>3 DEF RebalanceStep
  <2>6. QED
    BY <2>1, <2>2, <2>3, <2>4, <2>5
<1>11. CASE EndMove(r)
  <2> DEFINE n == Change(k, "done", c.shards, k.next)
  <2>1. [ctl EXCEPT ![r].pc = "done"] = [ctl EXCEPT ![r] = [k EXCEPT !.pc = "done"]]
    BY <1>1, <1>3 DEF State
  <2>2. [k EXCEPT !.pc = "done"] = n
    BY <1>1, PCIsChange
  <2>3. ctl' = [ctl EXCEPT ![r] = n]
    BY <1>11, <2>1, <2>2 DEF EndMove
  <2>4. RebalanceStep(k, n)
    BY <1>11 DEF EndMove, RebalanceStep
  <2>5. QED
    BY <2>3, <2>4
<1>12. QED
  BY <1>6, <1>7, <1>8, <1>9, <1>10, <1>11 DEF RebalanceAction

-----------------------------------------------------------------------------

\* analyze names one group with most and one with least shards.
LEMMA ExtremesAreUnique ==
    ASSUME NEW c \in Config
    PROVE  /\ \A g, h : IsMostOf(c, g) /\ IsMostOf(c, h) => g = h
           /\ \A g, h : IsLeastOf(c, g) /\ IsLeastOf(c, h) => g = h
<1>1. \A g \in Members(c) : g \in Nat /\ Count(c, g) \in Nat
  BY ConfigParts, CountType, GidsAssumption
<1>2. ASSUME NEW g, NEW h, IsMostOf(c, g), IsMostOf(c, h) PROVE g = h
  <2>1. g \in Members(c) /\ h \in Members(c)
    BY <1>2 DEF IsMostOf
  <2>2. Count(c, h) < Count(c, g) \/ (Count(c, h) = Count(c, g) /\ g <= h)
    BY <1>2, <2>1 DEF IsMostOf
  <2>3. Count(c, g) < Count(c, h) \/ (Count(c, g) = Count(c, h) /\ h <= g)
    BY <1>2, <2>1 DEF IsMostOf
  <2>4. QED
    BY <1>1, <2>1, <2>2, <2>3
<1>3. ASSUME NEW g, NEW h, IsLeastOf(c, g), IsLeastOf(c, h) PROVE g = h
  <2>1. g \in Members(c) /\ h \in Members(c)
    BY <1>3 DEF IsLeastOf
  <2>2. Count(c, g) < Count(c, h) \/ (Count(c, h) = Count(c, g) /\ g <= h)
    BY <1>3, <2>1 DEF IsLeastOf
  <2>3. Count(c, h) < Count(c, g) \/ (Count(c, g) = Count(c, h) /\ h <= g)
    BY <1>3, <2>1 DEF IsLeastOf
  <2>4. QED
    BY <1>1, <2>1, <2>2, <2>3
<1>4. QED
  BY <1>2, <1>3

\* Rebalance is deterministic.
LEMMA StepIsFunctional ==
    ASSUME NEW k \in State, NEW m, NEW n, RebalanceStep(k, m), RebalanceStep(k, n)
    PROVE  m = n
<1>1. k.cfg \in Config /\ k.next \in Nat
  BY StateParts
<1>2. CASE k.pc = "rebalance"
  BY <1>2 DEF RebalanceStep
<1>3. CASE k.pc = "assign"
  <2>1. CASE k.next > NShards
    BY <1>1, <1>3, <2>1, NShardsAssumption DEF RebalanceStep
  <2>2. CASE k.next <= NShards /\ k.cfg.shards[k.next] \in Members(k.cfg)
    BY <1>1, <1>3, <2>2, NShardsAssumption DEF RebalanceStep
  <2>3. CASE k.next <= NShards /\ k.cfg.shards[k.next] \notin Members(k.cfg)
    <3>1. PICK g : IsLeastOf(k.cfg, g)
                   /\ m = Change(k, "assign", Give(k.cfg.shards, k.next, g), k.next + 1)
      BY <1>1, <1>3, <2>3, NShardsAssumption DEF RebalanceStep
    <3>2. PICK h : IsLeastOf(k.cfg, h)
                   /\ n = Change(k, "assign", Give(k.cfg.shards, k.next, h), k.next + 1)
      BY <1>1, <1>3, <2>3, NShardsAssumption DEF RebalanceStep
    <3>3. g = h
      BY <1>1, <3>1, <3>2, ExtremesAreUnique
    <3>4. QED
      BY <3>1, <3>2, <3>3
  <2>4. QED
    BY <1>1, <2>1, <2>2, <2>3, NShardsAssumption
<1>4. CASE k.pc = "move"
  <2> DEFINE Even(x) == \E mg, lg \in Members(k.cfg) :
                 /\ IsMostOf(k.cfg, mg) /\ IsLeastOf(k.cfg, lg) /\ ~Uneven(k.cfg, mg, lg)
                 /\ x = Change(k, "done", k.cfg.shards, k.next)
             Odd(x) == \E mg, lg \in Members(k.cfg), s \in Shards :
                 /\ IsMostOf(k.cfg, mg) /\ IsLeastOf(k.cfg, lg) /\ Uneven(k.cfg, mg, lg)
                 /\ IsFirstShardOf(k.cfg, s, mg)
                 /\ x = Change(k, "move", Give(k.cfg.shards, s, lg), k.next)
  <2>1. (Even(m) \/ Odd(m)) /\ (Even(n) \/ Odd(n))
    BY <1>4 DEF RebalanceStep
  <2>2. ASSUME Even(m), Odd(n) PROVE FALSE
    BY <1>1, <2>2, ExtremesAreUnique
  <2>3. ASSUME Odd(m), Even(n) PROVE FALSE
    BY <1>1, <2>3, ExtremesAreUnique
  <2>4. ASSUME Even(m), Even(n) PROVE m = n
    BY <2>4
  <2>5. ASSUME Odd(m), Odd(n) PROVE m = n
    <3>1. PICK mg \in Members(k.cfg), lg \in Members(k.cfg), s \in Shards :
                 /\ IsMostOf(k.cfg, mg) /\ IsLeastOf(k.cfg, lg)
                 /\ IsFirstShardOf(k.cfg, s, mg)
                 /\ m = Change(k, "move", Give(k.cfg.shards, s, lg), k.next)
      BY <2>5
    <3>2. PICK mh \in Members(k.cfg), lh \in Members(k.cfg), t \in Shards :
                 /\ IsMostOf(k.cfg, mh) /\ IsLeastOf(k.cfg, lh)
                 /\ IsFirstShardOf(k.cfg, t, mh)
                 /\ n = Change(k, "move", Give(k.cfg.shards, t, lh), k.next)
      BY <2>5
    <3>3. mg = mh /\ lg = lh
      BY <1>1, <3>1, <3>2, ExtremesAreUnique
    <3>4. s <= t /\ t <= s
      BY <3>1, <3>2, <3>3 DEF IsFirstShardOf
    <3>5. s = t
      BY <3>4, NShardsAssumption DEF Shards
    <3>6. QED
      BY <3>1, <3>2, <3>3, <3>5
  <2>6. QED
    BY <2>1, <2>2, <2>3, <2>4, <2>5
<1>5. QED
  BY <1>2, <1>3, <1>4 DEF RebalanceStep

-----------------------------------------------------------------------------

\* Rebalance gets from state k to state n: n is in every set of states that has k
\* in it and that no step leaves.
Closed(S) == \A x \in S, y \in State : RebalanceStep(x, y) => y \in S
Leads(k, n) == \A S \in SUBSET State : k \in S /\ Closed(S) => n \in S

\* Leads is reflexive and goes on with every step.
LEMMA LeadsSelf == ASSUME NEW k PROVE Leads(k, k)
BY DEF Leads

\* One more step.
LEMMA LeadsStep ==
    ASSUME NEW k, NEW x, NEW y \in State, Leads(k, x), RebalanceStep(x, y)
    PROVE  Leads(k, y)
BY DEF Leads, Closed

\* From a state that is not the last one the way to it begins with the only step
\* there is.
LEMMA LeadsFirst ==
    ASSUME NEW k \in State, NEW y \in State, NEW n, Leads(k, n), k # n, RebalanceStep(k, y)
    PROVE  Leads(y, n)
<1> SUFFICES ASSUME NEW S \in SUBSET State, y \in S, Closed(S) PROVE n \in S
  BY DEF Leads
<1> DEFINE T == S \cup {k}
<1>1. Closed(T)
  <2> SUFFICES ASSUME NEW x \in T, NEW z \in State, RebalanceStep(x, z) PROVE z \in T
    BY DEF Closed
  <2>1. CASE x \in S
    BY <2>1 DEF Closed
  <2>2. CASE x = k
    <3>1. z = y
      BY <2>2, StepIsFunctional
    <3>2. QED
      BY <3>1
  <2>3. QED
    BY <2>1, <2>2
<1>2. T \in SUBSET State /\ k \in T
  OBVIOUS
<1>3. n \in T
  BY <1>1, <1>2 DEF Leads
<1>4. QED
  BY <1>3

\* Two states that Rebalance gets to from one are on one way.
LEMMA OneWay ==
    ASSUME NEW k \in State, NEW x \in State, NEW y \in State, Leads(k, x), Leads(k, y)
    PROVE  Leads(x, y) \/ Leads(y, x)
<1> DEFINE S == {z \in State : Leads(z, y) \/ Leads(y, z)}
<1>1. S \in SUBSET State /\ k \in S
  OBVIOUS
<1>2. Closed(S)
  <2> SUFFICES ASSUME NEW z \in S, NEW w \in State, RebalanceStep(z, w)
               PROVE  Leads(w, y) \/ Leads(y, w)
    BY DEF Closed
  <2>1. CASE Leads(y, z)
    BY <2>1, LeadsStep
  <2>2. CASE Leads(z, y) /\ z = y
    <3>1. Leads(y, z)
      BY <2>2
    <3>2. QED
      BY <3>1, LeadsStep
  <2>3. CASE Leads(z, y) /\ z # y
    BY <2>3, LeadsFirst
  <2>4. QED
    BY <2>1, <2>2, <2>3
<1>3. x \in S
  BY <1>1, <1>2 DEF Leads
<1>4. QED
  BY <1>3

\* Nothing follows a finished configuration.
LEMMA LeadsEnd ==
    ASSUME NEW k \in State, NEW n, k.pc = "done", Leads(k, n)
    PROVE  n = k
<1> DEFINE S == {k}
<1>1. Closed(S)
  BY DEF Closed, RebalanceStep
<1>2. S \in SUBSET State /\ k \in S
  OBVIOUS
<1>3. n \in S
  BY <1>1, <1>2 DEF Leads
<1>4. QED
  BY <1>3

-----------------------------------------------------------------------------
(* Which shards Rebalance moves *)

\* The numbers of shards of the groups in G differ by at most one.
Even(c, G) == \A g, h \in G : Count(c, g) <= Count(c, h) + 1

\* Groups that are new have no more shards than any that were there.
Behind(c, old) == \A g \in Members(c) \ old, h \in old : Count(c, g) <= Count(c, h)

\* What holds in state k of Rebalance, when q changed the groups of b.  After a Join
\* the old groups stay even among themselves and so do the new ones, with no more
\* shards; therefore a shard only goes from an old to a new one.  After a Leave the
\* groups are even when the first loop ends, so that the second one moves nothing.
MoveInv(k, b, q) ==
    /\ k.pc = "rebalance" => k.cfg.shards = b.shards
    /\ q.op \in {"join", "leave"}
    /\ q.op = "join" =>
        /\ Members(b) \subseteq Members(k.cfg)
        /\ Members(b) # {} /\ k.pc = "assign" => k.cfg.shards = b.shards
        /\ Members(b) # {} /\ k.pc = "move" =>
             /\ Even(k.cfg, Members(b)) /\ Even(k.cfg, Members(k.cfg) \ Members(b))
             /\ Behind(k.cfg, Members(b))
        /\ Members(b) # {} => \A s \in Shards : \/ k.cfg.shards[s] = b.shards[s]
                                                \/ k.cfg.shards[s] \notin Members(b)
    /\ q.op = "leave" =>
        /\ Members(k.cfg) \subseteq Members(b)
        /\ k.pc \in {"assign", "move"} => Even(k.cfg, Members(k.cfg))
        /\ \A s \in Shards : \/ k.cfg.shards[s] = b.shards[s]
                             \/ b.shards[s] \notin Members(k.cfg)

\* To give a shard of group f to group g changes these two counts only.
LEMMA CountGive ==
    ASSUME NEW c \in Config, NEW d, NEW s \in Shards, NEW f, NEW g,
           c.shards[s] = f, f # g, d.shards = Give(c.shards, s, g)
    PROVE  /\ Count(d, g) = Count(c, g) + 1
           /\ Count(d, f) = Count(c, f) - 1
           /\ \A h : h # f /\ h # g => Count(d, h) = Count(c, h)
<1> DEFINE S(h) == {t \in Shards : c.shards[t] = h}
           T(h) == {t \in Shards : d.shards[t] = h}
<1>1. \A t \in Shards : d.shards[t] = IF t = s THEN g ELSE c.shards[t]
  BY ConfigParts DEF Give
<1>2. IsFiniteSet(S(f)) /\ IsFiniteSet(S(g))
  <2>1. IsFiniteSet(1..NShards)
    BY NShardsAssumption, FS_Interval
  <2>2. S(f) \subseteq Shards /\ S(g) \subseteq Shards
    OBVIOUS
  <2>3. QED
    BY <2>1, <2>2, FS_Subset DEF Shards
<1>3. T(g) = S(g) \cup {s} /\ s \notin S(g)
  BY <1>1
<1>4. T(f) = S(f) \ {s} /\ s \in S(f)
  BY <1>1
<1>5. \A h : h # f /\ h # g => T(h) = S(h)
  BY <1>1
<1>6. Cardinality(T(g)) = Cardinality(S(g)) + 1
  BY <1>2, <1>3, FS_AddElement
<1>7. Cardinality(T(f)) = Cardinality(S(f)) - 1
  BY <1>2, <1>4, FS_RemoveElement
<1>8. QED
  BY <1>5, <1>6, <1>7 DEF Count

\* Counts depend on the shards only.
LEMMA CountSame ==
    ASSUME NEW c, NEW d, c.shards = d.shards
    PROVE  \A g : Count(d, g) = Count(c, g)
BY DEF Count

\* A group without shards.
LEMMA CountNone ==
    ASSUME NEW c, NEW g, \A s \in Shards : c.shards[s] # g
    PROVE  Count(c, g) = 0
<1>1. {s \in Shards : c.shards[s] = g} = {}
  OBVIOUS
<1>2. QED
  BY <1>1, FS_EmptySet DEF Count

\* A shard of no present group goes to the group with least shards: that keeps
\* even what is even.
LEMMA AssignKeepsEven ==
    ASSUME NEW c \in Config, NEW d, NEW s \in Shards, NEW g,
           d.shards = Give(c.shards, s, g), Members(d) = Members(c),
           c.shards[s] \notin Members(c), IsLeastOf(c, g), Even(c, Members(c))
    PROVE  Even(d, Members(d))
<1>1. g \in Members(c) /\ \A h \in Members(c) : Count(c, g) <= Count(c, h)
  BY CountType DEF IsLeastOf
<1>2. Count(d, g) = Count(c, g) + 1 /\ \A h \in Members(c) : h # g => Count(d, h) = Count(c, h)
  BY <1>1, CountGive
<1>3. \A h : Count(c, h) \in Nat
  BY CountType
<1>4. ASSUME NEW x \in Members(c), NEW y \in Members(c)
      PROVE  Count(d, x) <= Count(d, y) + 1
  <2>1. Count(c, x) <= Count(c, y) + 1 /\ Count(c, g) <= Count(c, y) /\ Count(c, g) <= Count(c, x)
    BY <1>1 DEF Even
  <2>2. x # g => Count(d, x) = Count(c, x)
    BY <1>2
  <2>3. y # g => Count(d, y) = Count(c, y)
    BY <1>2
  <2>4. QED
    BY <1>2, <1>3, <2>1, <2>2, <2>3
<1>5. QED
  BY <1>4 DEF Even

\* After a Join the shard that moves goes from an old group to a new one, and the
\* counts keep their order.
LEMMA MoveKeepsBehind ==
    ASSUME NEW c \in Config, NEW d, NEW s \in Shards, NEW mg, NEW lg, NEW old \in SUBSET Members(c),
           d.shards = Give(c.shards, s, lg), Members(d) = Members(c), c.shards[s] = mg,
           IsMostOf(c, mg), IsLeastOf(c, lg), Uneven(c, mg, lg),
           Even(c, old), Even(c, Members(c) \ old), Behind(c, old)
    PROVE  /\ lg \notin old
           /\ Even(d, old) /\ Even(d, Members(d) \ old) /\ Behind(d, old)
<1> DEFINE new == Members(c) \ old
<1>1. \A h : Count(c, h) \in Nat
  BY CountType
<1>2. mg \in Members(c) /\ \A h \in Members(c) : Count(c, h) <= Count(c, mg)
  BY <1>1 DEF IsMostOf
<1>3. lg \in Members(c) /\ \A h \in Members(c) : Count(c, lg) <= Count(c, h)
  BY <1>1 DEF IsLeastOf
<1>4. Count(c, mg) >= Count(c, lg) + 2
  BY DEF Uneven
<1>5. /\ \A g, h \in old : Count(c, g) <= Count(c, h) + 1
      /\ \A g, h \in new : Count(c, g) <= Count(c, h) + 1
      /\ \A g \in new, h \in old : Count(c, g) <= Count(c, h)
  BY DEF Even, Behind
<1>6. mg \in old /\ lg \in new
  <2>1. ~(mg \in old /\ lg \in old)
    BY <1>1, <1>4, <1>5
  <2>2. ~(mg \in new /\ lg \in new)
    BY <1>1, <1>4, <1>5
  <2>3. ~(mg \in new /\ lg \in old)
    BY <1>1, <1>4, <1>5
  <2>4. QED
    BY <1>2, <1>3, <2>1, <2>2, <2>3
<1>7. /\ Count(d, lg) = Count(c, lg) + 1 /\ Count(d, mg) = Count(c, mg) - 1
      /\ \A h : h # mg /\ h # lg => Count(d, h) = Count(c, h)
  <2>1. mg # lg
    BY <1>6
  <2>2. QED
    BY <2>1, CountGive
<1>8. ASSUME NEW g \in old, NEW h \in old PROVE Count(d, g) <= Count(d, h) + 1
  <2>1. Count(c, g) <= Count(c, mg) /\ Count(c, mg) <= Count(c, h) + 1 /\ Count(c, g) <= Count(c, h) + 1
    BY <1>2, <1>5, <1>6
  <2>2. g # lg /\ h # lg
    BY <1>6
  <2>3. Count(d, g) = IF g = mg THEN Count(c, g) - 1 ELSE Count(c, g)
    BY <1>7, <2>2
  <2>4. Count(d, h) = IF h = mg THEN Count(c, h) - 1 ELSE Count(c, h)
    BY <1>7, <2>2
  <2>5. QED
    BY <1>1, <2>1, <2>3, <2>4
<1>9. ASSUME NEW g \in new, NEW h \in new PROVE Count(d, g) <= Count(d, h) + 1
  <2>1. Count(c, lg) <= Count(c, h) /\ Count(c, g) <= Count(c, lg) + 1 /\ Count(c, g) <= Count(c, h) + 1
    BY <1>3, <1>5, <1>6
  <2>2. g # mg /\ h # mg
    BY <1>6
  <2>3. Count(d, g) = IF g = lg THEN Count(c, g) + 1 ELSE Count(c, g)
    BY <1>7, <2>2
  <2>4. Count(d, h) = IF h = lg THEN Count(c, h) + 1 ELSE Count(c, h)
    BY <1>7, <2>2
  <2>5. QED
    BY <1>1, <2>1, <2>3, <2>4
<1>10. ASSUME NEW g \in new, NEW h \in old PROVE Count(d, g) <= Count(d, h)
  <2>1. Count(c, g) <= Count(c, lg) + 1 /\ Count(c, mg) <= Count(c, h) + 1
    BY <1>5, <1>6
  <2>2. g # mg /\ h # lg
    BY <1>6
  <2>3. Count(d, g) = IF g = lg THEN Count(c, g) + 1 ELSE Count(c, g)
    BY <1>7, <2>2
  <2>4. Count(d, h) = IF h = mg THEN Count(c, h) - 1 ELSE Count(c, h)
    BY <1>7, <2>2
  <2>5. QED
    BY <1>1, <1>4, <2>1, <2>3, <2>4
<1>11. QED
  BY <1>6, <1>8, <1>9, <1>10 DEF Even, Behind

\* A new group has no shards before the first move, and the old ones are even.
LEMMA JoinedIsBehind ==
    ASSUME NEW b \in Config, NEW c \in Config, Sound(b), c.shards = b.shards,
           Members(b) # {}, Members(b) \subseteq Members(c)
    PROVE  /\ Even(c, Members(b)) /\ Even(c, Members(c) \ Members(b)) /\ Behind(c, Members(b))
<1>1. \A h : Count(c, h) = Count(b, h) /\ Count(b, h) \in Nat
  BY CountSame, CountType
<1>2. \A s \in Shards : c.shards[s] \in Members(b)
  BY DEF Sound, WellFormed, GidServers
<1>3. \A h \in Members(c) \ Members(b) : Count(c, h) = 0
  BY <1>2, CountNone
<1>4. Even(c, Members(b))
  BY <1>1 DEF Sound, WellFormed, Even
<1>5. QED
  BY <1>1, <1>3, <1>4 DEF Even, Behind

\* Every step of Rebalance keeps MoveInv.
LEMMA MoveInvIsKept ==
    ASSUME NEW b \in Config, NEW q, Sound(b), NEW k \in State, NEW n, MoveInv(k, b, q),
           RebalanceStep(k, n)
    PROVE  MoveInv(n, b, q)
<1> DEFINE c == k.cfg
           d == n.cfg
<1>1. c \in Config /\ c.shards \in [Shards -> Gids \cup {NoGid}] /\ k.next \in Nat \ {0}
  BY StateParts, ConfigParts
<1>2. Members(d) = Members(c)
  <2>1. \A pc, sh, m : Change(k, pc, sh, m).cfg.groups = c.groups
    BY DEF Change
  <2>2. d.groups = c.groups
    BY <2>1 DEF RebalanceStep
  <2>3. QED
    BY <2>2 DEF Members
<1>3. Members(b) # {} => \A s \in Shards : b.shards[s] \in Members(b)
  BY DEF Sound, WellFormed, GidServers
<1>4. \A G, h : h \in G => G # {}
  OBVIOUS
<1>5. CASE k.pc = "rebalance" /\ Members(c) = {}
  <2>1. n = Change(k, "done", [s \in Shards |-> NoGid], k.next)
    BY <1>5 DEF RebalanceStep
  <2>2. n.pc = "done"
    BY <2>1 DEF Change
  <2>3. q.op = "join" => Members(b) = {}
    BY <1>5 DEF MoveInv
  <2>4. QED
    BY <1>2, <1>5, <2>2, <2>3 DEF MoveInv
<1>6. CASE k.pc = "rebalance" /\ Members(c) # {}
  <2>1. n = Change(k, "assign", c.shards, k.next)
    BY <1>6 DEF RebalanceStep
  <2>2. n.pc = "assign" /\ d.shards = c.shards
    BY <2>1 DEF Change
  <2>3. c.shards = b.shards
    BY <1>6 DEF MoveInv
  <2>4. \A h : Count(d, h) = Count(b, h)
    BY <2>2, <2>3, CountSame
  <2>5. q.op = "leave" => Even(d, Members(d))
    BY <1>2, <2>4 DEF Even, MoveInv, Sound, WellFormed
  <2>6. QED
    BY <1>2, <2>2, <2>3, <2>5 DEF MoveInv
<1>7. CASE k.pc = "assign" /\ k.next <= NShards /\ c.shards[k.next] \in Members(c)
  <2>1. n = Change(k, "assign", c.shards, k.next + 1)
    BY <1>1, <1>7, NShardsAssumption DEF RebalanceStep
  <2>2. n.pc = "assign" /\ d.shards = c.shards
    BY <2>1 DEF Change
  <2>3. \A h : Count(d, h) = Count(c, h)
    BY <2>2, CountSame
  <2>4. Even(c, Members(c)) => Even(d, Members(d))
    BY <1>2, <2>3 DEF Even
  <2>5. QED
    BY <1>2, <1>7, <2>2, <2>4 DEF MoveInv
<1>8. CASE k.pc = "assign" /\ k.next <= NShards /\ c.shards[k.next] \notin Members(c)
  <2>1. PICK lg \in Members(c) :
          IsLeastOf(c, lg) /\ n = Change(k, "assign", Give(c.shards, k.next, lg), k.next + 1)
    BY <1>1, <1>8, NShardsAssumption DEF RebalanceStep
  <2>2. n.pc = "assign" /\ d.shards = Give(c.shards, k.next, lg)
    BY <2>1 DEF Change
  <2>3. k.next \in Shards
    BY <1>1, <1>8, NShardsAssumption DEF Shards
  <2>4. \A s \in Shards : s # k.next => d.shards[s] = c.shards[s]
    BY <1>1, <2>2 DEF Give
  <2>5. ASSUME q.op = "join" PROVE Members(b) = {}
    BY <1>3, <1>8, <2>3, <2>5 DEF MoveInv
  <2>6. ASSUME q.op = "leave"
        PROVE  /\ Even(d, Members(d))
               /\ \A s \in Shards : d.shards[s] = b.shards[s] \/ b.shards[s] \notin Members(d)
    <3>1. Even(c, Members(c))
      BY <1>8, <2>6 DEF MoveInv
    <3>2. Even(d, Members(d))
      BY <1>1, <1>2, <1>8, <2>1, <2>2, <2>3, <3>1, AssignKeepsEven
    <3>3. c.shards[k.next] = b.shards[k.next] \/ b.shards[k.next] \notin Members(c)
      BY <2>3, <2>6 DEF MoveInv
    <3>4. QED
      BY <1>2, <1>8, <2>4, <2>6, <3>2, <3>3 DEF MoveInv
  <2>7. q.op \in {"join", "leave"}
        /\ (q.op = "join" => Members(b) \subseteq Members(c))
        /\ (q.op = "leave" => Members(c) \subseteq Members(b))
    BY DEF MoveInv
  <2>8. QED
    BY <1>2, <2>2, <2>5, <2>6, <2>7 DEF MoveInv
<1>9. CASE k.pc = "assign" /\ k.next > NShards
  <2>1. n = Change(k, "move", c.shards, k.next)
    BY <1>1, <1>9, NShardsAssumption DEF RebalanceStep
  <2>2. n.pc = "move" /\ d.shards = c.shards
    BY <2>1 DEF Change
  <2>3. \A h : Count(d, h) = Count(c, h)
    BY <2>2, CountSame
  <2>4. Even(c, Members(c)) => Even(d, Members(d))
    BY <1>2, <2>3 DEF Even
  <2>5. ASSUME q.op = "join", Members(b) # {}
        PROVE  Even(d, Members(b)) /\ Even(d, Members(d) \ Members(b)) /\ Behind(d, Members(b))
    <3>1. c.shards = b.shards /\ Members(b) \subseteq Members(c)
      BY <1>9, <2>5 DEF MoveInv
    <3>2. Even(c, Members(b)) /\ Even(c, Members(c) \ Members(b)) /\ Behind(c, Members(b))
      BY <1>1, <2>5, <3>1, JoinedIsBehind
    <3>3. QED
      BY <1>2, <2>3, <3>2 DEF Even, Behind
  <2>6. QED
    BY <1>2, <1>9, <2>2, <2>4, <2>5 DEF MoveInv
<1>10. ASSUME k.pc = "move", NEW mg \in Members(c), NEW lg \in Members(c), NEW s \in Shards,
              IsMostOf(c, mg), IsLeastOf(c, lg), Uneven(c, mg, lg), IsFirstShardOf(c, s, mg),
              n = Change(k, "move", Give(c.shards, s, lg), k.next)
       PROVE  MoveInv(n, b, q)
  <2>1. n.pc = "move" /\ d.shards = Give(c.shards, s, lg)
    BY <1>10 DEF Change
  <2>2. c.shards[s] = mg
    BY <1>10 DEF IsFirstShardOf
  <2>3. \A t \in Shards : d.shards[t] = IF t = s THEN lg ELSE c.shards[t]
    BY <1>1, <2>1 DEF Give
  <2>4. CASE q.op = "leave"
    <3>1. Even(c, Members(c))
      BY <1>10, <2>4 DEF MoveInv
    <3>2. Count(c, mg) <= Count(c, lg) + 1 /\ Count(c, mg) >= Count(c, lg) + 2
      BY <1>10, <3>1 DEF Even, Uneven
    <3>3. Count(c, mg) \in Nat /\ Count(c, lg) \in Nat
      BY CountType
    <3>4. QED
      BY <3>2, <3>3
  <2>5. CASE q.op = "join" /\ Members(b) = {}
    <3>1. Members(b) \subseteq Members(d)
      BY <2>5
    <3>2. QED
      BY <2>1, <2>5, <3>1 DEF MoveInv
  <2>6. CASE q.op = "join" /\ Members(b) # {}
    <3>1. /\ Members(b) \subseteq Members(c)
          /\ Even(c, Members(b)) /\ Even(c, Members(c) \ Members(b)) /\ Behind(c, Members(b))
          /\ \A t \in Shards : c.shards[t] = b.shards[t] \/ c.shards[t] \notin Members(b)
      BY <1>10, <2>6 DEF MoveInv
    <3>2. /\ lg \notin Members(b)
          /\ Even(d, Members(b)) /\ Even(d, Members(d) \ Members(b)) /\ Behind(d, Members(b))
      <4>1. /\ c \in Config /\ Members(d) = Members(c)
            /\ IsMostOf(c, mg) /\ IsLeastOf(c, lg) /\ Uneven(c, mg, lg)
        BY <1>1, <1>2, <1>10
      <4> HIDE DEF c, d
      <4>2. QED
        BY <2>1, <2>2, <3>1, <4>1, MoveKeepsBehind
    <3>3. \A t \in Shards : d.shards[t] = b.shards[t] \/ d.shards[t] \notin Members(b)
      BY <2>3, <3>1, <3>2
    <3>4. QED
      BY <1>2, <2>1, <2>6, <3>1, <3>2, <3>3 DEF MoveInv
  <2>7. QED
    BY <2>4, <2>5, <2>6 DEF MoveInv
<1>11. ASSUME k.pc = "move", n = Change(k, "done", c.shards, k.next)
       PROVE  MoveInv(n, b, q)
  <2>1. n.pc = "done" /\ d.shards = c.shards
    BY <1>11 DEF Change
  <2>2. QED
    BY <1>2, <2>1 DEF MoveInv
<1>12. QED
  BY <1>1, <1>5, <1>6, <1>7, <1>8, <1>9, <1>10, <1>11 DEF RebalanceStep

\* So that it holds wherever Rebalance gets to.
LEMMA MoveInvOfLeads ==
    ASSUME NEW b \in Config, NEW q, Sound(b), NEW k \in State, NEW n, MoveInv(k, b, q), Leads(k, n)
    PROVE  MoveInv(n, b, q)
<1> DEFINE S == {x \in State : MoveInv(x, b, q)}
<1>1. S \in SUBSET State /\ k \in S
  OBVIOUS
<1>2. Closed(S)
  <2> SUFFICES ASSUME NEW x \in S, NEW y \in State, RebalanceStep(x, y) PROVE MoveInv(y, b, q)
    BY DEF Closed
  <2>1. x \in State /\ MoveInv(x, b, q)
    OBVIOUS
  <2>2. QED
    BY <2>1, MoveInvIsKept
<1>3. n \in S
  BY <1>1, <1>2 DEF Leads
<1>4. QED
  BY <1>3

-----------------------------------------------------------------------------
(* Join and Leave *)

\* The groups of b with those in D of the argument j of Join, and without the first
\* n - 1 of the list l.
Joined(b, j, D) == [g \in Members(b) \cup D |-> IF g \in D THEN j[g] ELSE b.groups[g]]
Remaining(b, l, n) == [g \in Members(b) \ {l[i] : i \in 1..n - 1} |-> b.groups[g]]

\* The groups in D of j are new and share no server with others; the first n - 1 of
\* l are present and differ.
Clear(b, j, D) ==
    \A g \in D : /\ g \notin Members(b)
                 /\ \A x \in Members(b) : b.groups[x] \cap j[g] = {}
                 /\ \A h \in D : h # g => j[h] \cap j[g] = {}
Present(b, l, n) ==
    \A i \in 1..n - 1 : l[i] \in Members(b) /\ \A m \in 1..i - 1 : l[m] # l[i]

\* The change q can be made to b.
Possible(b, q) ==
    \/ q.op = "join" /\ DOMAIN q.arg # {} /\ Clear(b, q.arg, DOMAIN q.arg)
    \/ q.op = "leave" /\ Len(q.arg) > 0 /\ Present(b, q.arg, Len(q.arg) + 1)

\* The state in which Rebalance begins, whatever the order in which the groups came.
Copied(b, n, groups) == [num |-> n, shards |-> b.shards, groups |-> groups]
StartOf(b, q) ==
    [pc |-> "rebalance",
     cfg |-> Copied(b, b.num + 1, IF q.op = "join" THEN Joined(b, q.arg, DOMAIN q.arg)
                                  ELSE Remaining(b, q.arg, Len(q.arg) + 1)),
     todo |-> {}, next |-> 1]

\* How far the controller in state k is with the change q of b.  It stops before
\* the end exactly when the change cannot be made.
WayInv(k, b, q) ==
    /\ k.pc = "join" =>
        /\ k.cfg = Copied(b, b.num, Joined(b, q.arg, DOMAIN q.arg \ k.todo))
        /\ Clear(b, q.arg, DOMAIN q.arg \ k.todo)
    /\ k.pc = "leave" =>
        /\ k.cfg = Copied(b, b.num, Remaining(b, q.arg, k.next))
        /\ Present(b, q.arg, k.next)
        /\ k.todo = {} /\ k.next <= Len(q.arg) + 1
    /\ k.pc \in {"rebalance", "assign", "move", "done"} =>
        /\ Possible(b, q)
        /\ StartOf(b, q) \in State /\ Leads(StartOf(b, q), k)
    /\ k.pc \in {"failed", "fatal"} => ~Possible(b, q)

WInv == \A r \in Ctrlers : WayInv(ctl[r], base, req)

\* The arguments of Leave.
LEMMA LeaveRequest ==
    ASSUME NEW q \in Requests, q.op = "leave"
    PROVE  q.arg \in Leaves /\ q.arg \in Seq(Gids) /\ Len(q.arg) \in Nat
<1>1. q.arg \in Leaves
  BY DEF Requests, NoReq
<1>2. q.arg \in Seq(Gids)
  BY <1>1, LeavesAssumption
<1>3. QED
  BY <1>1, <1>2

\* A step of one controller that leaves it where WayInv says keeps the others there.
LEMMA WayKeeps ==
    ASSUME IInv, WInv, NEW r \in Ctrlers, NEW k, WayInv(k, base, req),
           ctl' = [ctl EXCEPT ![r] = k], UNCHANGED <<base, req>>
    PROVE  WInv'
<1>1. ctl' = [x \in Ctrlers |-> IF x = r THEN k ELSE ctl[x]]
  BY DEF IInv
<1>2. \A x \in Ctrlers : WayInv(ctl'[x], base', req')
  BY <1>1 DEF WInv
<1>3. QED
  BY <1>2 DEF WInv

\* The copy that the controllers start from.
LEMMA JoinedNone ==
    ASSUME NEW b \in Config, NEW j, NEW l
    PROVE  /\ b = Copied(b, b.num, Joined(b, j, {}))
           /\ b = Copied(b, b.num, Remaining(b, l, 1))
<1>1. b = [num |-> b.num, shards |-> b.shards, groups |-> b.groups]
      /\ b.groups \in [Members(b) -> SUBSET Servers]
  BY ConfigParts
<1>2. Joined(b, j, {}) = b.groups
  <2>1. Members(b) \cup {} = Members(b)
    OBVIOUS
  <2>2. Joined(b, j, {}) = [g \in Members(b) |-> b.groups[g]]
    BY <2>1 DEF Joined
  <2>3. QED
    BY <1>1, <2>2
<1>3. Remaining(b, l, 1) = b.groups
  <2>1. Members(b) \ {l[i] : i \in 1..1 - 1} = Members(b)
    OBVIOUS
  <2>2. Remaining(b, l, 1) = [g \in Members(b) |-> b.groups[g]]
    BY <2>1 DEF Remaining
  <2>3. QED
    BY <1>1, <2>2
<1>4. QED
  BY <1>1, <1>2, <1>3 DEF Copied

\* StartJoin and StartLeave.
LEMMA StartWay ==
    ASSUME IInv, (\E j \in Joins : StartJoin(j)) \/ (\E l \in Leaves : StartLeave(l))
    PROVE  WInv'
<1>0. base \in Config
  BY DEF IInv
<1>1. ASSUME NEW j \in Joins, StartJoin(j), NEW r \in Ctrlers
      PROVE  WayInv(ctl'[r], base', req')
  <2> DEFINE k == [pc |-> "join", cfg |-> base, todo |-> DOMAIN j, next |-> 1]
  <2>1. ctl'[r] = k /\ base' = base /\ req' = [op |-> "join", arg |-> j]
    BY <1>1 DEF StartJoin
  <2>2. k.pc = "join" /\ k.cfg = base /\ DOMAIN req'.arg \ k.todo = {}
    BY <2>1
  <2>3. base = Copied(base, base.num, Joined(base, req'.arg, {}))
    BY <1>0, JoinedNone
  <2>4. Clear(base, req'.arg, {})
    BY DEF Clear
  <2> HIDE DEF k
  <2>5. QED
    BY <2>1, <2>2, <2>3, <2>4 DEF WayInv
<1>2. ASSUME NEW l \in Leaves, StartLeave(l), NEW r \in Ctrlers
      PROVE  WayInv(ctl'[r], base', req')
  <2> DEFINE k == [pc |-> "leave", cfg |-> base, todo |-> {}, next |-> 1]
  <2>1. ctl'[r] = k /\ base' = base /\ req' = [op |-> "leave", arg |-> l]
    BY <1>2 DEF StartLeave
  <2>2. k.pc = "leave" /\ k.cfg = base /\ k.next = 1 /\ k.todo = {}
    BY <2>1
  <2>3. base = Copied(base, base.num, Remaining(base, req'.arg, 1))
    BY <1>0, JoinedNone
  <2>4. Present(base, req'.arg, 1)
    BY DEF Present
  <2>5. l \in Seq(Gids) /\ Len(l) \in Nat /\ 1 <= Len(req'.arg) + 1
    <3>1. l \in Seq(Gids)
      BY LeavesAssumption
    <3>2. Len(l) \in Nat
      BY <3>1
    <3>3. QED
      BY <2>1, <3>1, <3>2
  <2> HIDE DEF k
  <2>6. QED
    BY <2>1, <2>2, <2>3, <2>4, <2>5 DEF WayInv
<1>3. QED
  BY <1>1, <1>2 DEF WInv

\* A controller that stops.
LEMMA StopWay ==
    ASSUME IInv, WInv, NEW r \in Ctrlers, NEW pc \in {"failed", "fatal"}, ~Possible(base, req),
           ctl' = [ctl EXCEPT ![r] = [ctl[r] EXCEPT !.pc = pc]], UNCHANGED <<base, req>>
    PROVE  WInv'
<1> DEFINE k == [ctl[r] EXCEPT !.pc = pc]
<1>1. k.pc = pc
  BY DEF IInv, CtrlerInv, State
<1> HIDE DEF k
<1>2. WayInv(k, base, req)
  BY <1>1 DEF WayInv
<1>3. QED
  BY <1>2, WayKeeps DEF k

\* One iteration of Join.
LEMMA JoinOneWay ==
    ASSUME IInv, WInv, NEW r \in Ctrlers, NEW gid \in Gids, JoinOne(r, gid)
    PROVE  WInv'
<1> DEFINE k == ctl[r]
           c == k.cfg
           j == req.arg
           D == DOMAIN j \ k.todo
           srvs == j[gid]
<1>1. CtrlerInv(k, req) /\ k \in State /\ WayInv(k, base, req) /\ base \in Config /\ req \in Requests
  BY DEF IInv, WInv, CtrlerInv
<1>2. k.pc = "join" /\ gid \in k.todo /\ UNCHANGED <<base, req>>
  BY DEF JoinOne
<1>3. req.op = "join" /\ k.todo \subseteq DOMAIN j /\ gid \in DOMAIN j /\ gid \notin D
  BY <1>1, <1>2 DEF CtrlerInv
<1>4. c = Copied(base, base.num, Joined(base, j, D)) /\ Clear(base, j, D)
  BY <1>1, <1>2 DEF WayInv
<1>5. c.groups = Joined(base, j, D) /\ c.num = base.num /\ c.shards = base.shards
  BY <1>4 DEF Copied
<1>6. /\ Members(c) = Members(base) \cup D
      /\ \A g \in Members(c) : c.groups[g] = IF g \in D THEN j[g] ELSE base.groups[g]
  BY <1>5 DEF Joined, Members
<1>7. ASSUME Possible(base, req) PROVE Clear(base, j, DOMAIN j)
  BY <1>3, <1>7 DEF Possible
<1>8. CASE gid \in Members(c)
  <2>1. ~Possible(base, req)
    <3>1. gid \in Members(base)
      BY <1>3, <1>6, <1>8
    <3>2. QED
      BY <1>3, <1>7, <3>1 DEF Clear
  <2>2. ctl' = [ctl EXCEPT ![r] = [k EXCEPT !.pc = "failed"]]
    BY <1>8 DEF JoinOne
  <2>3. QED
    BY <1>2, <2>1, <2>2, StopWay
<1>9. CASE gid \notin Members(c) /\ SharesServer(c, srvs)
  <2>1. ~Possible(base, req)
    <3> SUFFICES ASSUME Possible(base, req) PROVE FALSE
      OBVIOUS
    <3>1. PICK x \in Members(c) : c.groups[x] \cap srvs # {}
      BY <1>9 DEF SharesServer
    <3>2. Clear(base, j, DOMAIN j)
      BY <1>7
    <3>3. CASE x \in D
      <4>1. c.groups[x] = j[x] /\ x # gid /\ x \in DOMAIN j
        BY <1>3, <1>6, <3>3
      <4>2. j[x] \cap j[gid] = {}
        BY <1>3, <3>2, <4>1 DEF Clear
      <4>3. QED
        BY <3>1, <4>1, <4>2
    <3>4. CASE x \notin D
      <4>1. c.groups[x] = base.groups[x] /\ x \in Members(base)
        BY <1>6, <3>4
      <4>2. base.groups[x] \cap j[gid] = {}
        BY <1>3, <3>2, <4>1 DEF Clear
      <4>3. QED
        BY <3>1, <4>1, <4>2
    <3>5. QED
      BY <3>3, <3>4
  <2>2. ctl' = [ctl EXCEPT ![r] = [k EXCEPT !.pc = "fatal"]]
    BY <1>9 DEF JoinOne
  <2>3. QED
    BY <1>2, <2>1, <2>2, StopWay
<1>10. CASE gid \notin Members(c) /\ ~SharesServer(c, srvs)
  <2> DEFINE d == AddGroup(c, gid, srvs)
             t == k.todo \ {gid}
             E == DOMAIN j \ t
             n == [k EXCEPT !.cfg = d, !.todo = t]
  <2>1. ctl' = [ctl EXCEPT ![r] = n]
    BY <1>10 DEF JoinOne
  <2>2. E = D \cup {gid}
    BY <1>3
  <2>3. d = Copied(base, base.num, Joined(base, j, E))
    <3>1. c \in Config
      BY <1>1, StateParts
    <3>2. d = [num |-> c.num, shards |-> c.shards,
               groups |-> [g \in Members(c) \cup {gid} |-> IF g = gid THEN srvs ELSE c.groups[g]]]
      BY <3>1, ConfigParts DEF AddGroup
    <3>3. Members(c) \cup {gid} = Members(base) \cup E
      BY <1>6, <2>2
    <3>4. \A g \in Members(base) \cup E :
            (IF g = gid THEN srvs ELSE c.groups[g]) = (IF g \in E THEN j[g] ELSE base.groups[g])
      <4> HIDE DEF E, D, c
      <4>1. QED
        BY <1>6, <2>2, <3>3
    <3>5. [g \in Members(c) \cup {gid} |-> IF g = gid THEN srvs ELSE c.groups[g]] = Joined(base, j, E)
      <4> HIDE DEF E, srvs, c
      <4>1. QED
        BY <3>3, <3>4 DEF Joined
    <3>6. QED
      BY <1>5, <3>2, <3>5 DEF Copied
  <2>4. Clear(base, j, E)
    <3>1. gid \notin Members(base)
      BY <1>6, <1>10
    <3>2. \A x \in Members(base) : base.groups[x] \cap srvs = {}
      <4> SUFFICES ASSUME NEW x \in Members(base) PROVE base.groups[x] \cap srvs = {}
        OBVIOUS
      <4>1. x \notin D
        BY <1>4 DEF Clear
      <4>2. x \in Members(c) /\ c.groups[x] = base.groups[x]
        BY <1>6, <4>1
      <4>3. QED
        BY <1>10, <4>2 DEF SharesServer
    <3>3. \A x \in D : j[x] \cap srvs = {}
      <4> SUFFICES ASSUME NEW x \in D PROVE j[x] \cap srvs = {}
        OBVIOUS
      <4>1. x \in Members(c) /\ c.groups[x] = j[x]
        BY <1>6
      <4>2. QED
        BY <1>10, <4>1 DEF SharesServer
    <3> HIDE DEF E, D
    <3>4. SUFFICES ASSUME NEW g \in E
                   PROVE  /\ g \notin Members(base)
                          /\ \A x \in Members(base) : base.groups[x] \cap j[g] = {}
                          /\ \A h \in E : h # g => j[h] \cap j[g] = {}
      BY DEF Clear
    <3>5. CASE g = gid
      BY <2>2, <3>1, <3>2, <3>3, <3>5
    <3>6. CASE g \in D
      <4>1. j[gid] \cap j[g] = {}
        BY <3>3, <3>6
      <4>2. QED
        BY <1>4, <2>2, <3>6, <4>1 DEF Clear
    <3>7. QED
      BY <2>2, <3>5, <3>6
  <2> HIDE DEF d, t
  <2>5. n = [pc |-> k.pc, cfg |-> d, todo |-> t, next |-> k.next]
    BY <1>1, ChangeCfgTodo
  <2>6. n.pc = "join" /\ n.cfg = d /\ n.todo = t
    BY <1>2, <2>5
  <2> HIDE DEF n, k, c
  <2>7. WayInv(n, base, req)
    BY <2>3, <2>4, <2>6 DEF WayInv
  <2>8. QED
    BY <1>2, <2>1, <2>7, WayKeeps
<1>11. QED
  BY <1>8, <1>9, <1>10

\* One iteration of Leave.
LEMMA LeaveOneWay ==
    ASSUME IInv, WInv, NEW r \in Ctrlers, LeaveOne(r)
    PROVE  WInv'
<1> DEFINE k == ctl[r]
           c == k.cfg
           l == req.arg
           gid == l[k.next]
           m == k.next + 1
<1>1. CtrlerInv(k, req) /\ k \in State /\ WayInv(k, base, req) /\ base \in Config /\ req \in Requests
  BY DEF IInv, WInv, CtrlerInv
<1>2. k.pc = "leave" /\ k.next <= Len(l) /\ UNCHANGED <<base, req>>
  BY DEF LeaveOne
<1>3. req.op = "leave" /\ k.next \in Nat \ {0} /\ Len(l) \in Nat
  BY <1>1, <1>2, LeaveRequest, StateParts DEF CtrlerInv
<1>4. /\ c = Copied(base, base.num, Remaining(base, l, k.next))
      /\ Present(base, l, k.next) /\ k.todo = {}
  BY <1>1, <1>2 DEF WayInv
<1>5. c.groups = Remaining(base, l, k.next) /\ c.num = base.num /\ c.shards = base.shards
  BY <1>4 DEF Copied
<1>6. /\ Members(c) = Members(base) \ {l[i] : i \in 1..k.next - 1}
      /\ \A g \in Members(c) : c.groups[g] = base.groups[g]
  BY <1>5 DEF Remaining, Members
<1>7. CASE gid \notin Members(c)
  <2>1. ~Possible(base, req)
    <3> SUFFICES ASSUME Possible(base, req) PROVE FALSE
      OBVIOUS
    <3>1. Present(base, l, Len(l) + 1)
      BY <1>3 DEF Possible
    <3>2. k.next \in 1..(Len(l) + 1) - 1
      BY <1>2, <1>3
    <3>3. gid \in Members(base) /\ \A i \in 1..k.next - 1 : l[i] # gid
      BY <3>1, <3>2 DEF Present
    <3>4. QED
      BY <1>6, <1>7, <3>3
  <2>2. ctl' = [ctl EXCEPT ![r] = [k EXCEPT !.pc = "failed"]]
    BY <1>7 DEF LeaveOne
  <2>3. QED
    BY <1>2, <2>1, <2>2, StopWay
<1>8. CASE gid \in Members(c)
  <2> DEFINE d == RemoveGroup(c, gid)
             n == [k EXCEPT !.cfg = d, !.next = m]
  <2>1. ctl' = [ctl EXCEPT ![r] = n]
    BY <1>8 DEF LeaveOne
  <2>2. 1..m - 1 = (1..k.next - 1) \cup {k.next}
    BY <1>3
  <2>3. {l[i] : i \in 1..m - 1} = {l[i] : i \in 1..k.next - 1} \cup {gid}
    BY <2>2
  <2>4. d = Copied(base, base.num, Remaining(base, l, m))
    <3>1. c \in Config
      BY <1>1, StateParts
    <3>2. d = [num |-> c.num, shards |-> c.shards,
               groups |-> [g \in Members(c) \ {gid} |-> c.groups[g]]]
      BY <3>1, ConfigParts DEF RemoveGroup
    <3>3. Members(c) \ {gid} = Members(base) \ {l[i] : i \in 1..m - 1}
      BY <1>6, <2>3
    <3>4. [g \in Members(c) \ {gid} |-> c.groups[g]] = Remaining(base, l, m)
      <4> HIDE DEF c, m
      <4>1. \A g \in Members(c) \ {gid} : c.groups[g] = base.groups[g]
        BY <1>6
      <4>2. QED
        BY <3>3, <4>1 DEF Remaining
    <3>5. QED
      BY <1>5, <3>2, <3>4 DEF Copied
  <2>5. Present(base, l, m)
    <3>1. gid \in Members(base) /\ \A i \in 1..k.next - 1 : l[i] # gid
      BY <1>6, <1>8
    <3>2. QED
      BY <1>3, <1>4, <2>2, <3>1 DEF Present
  <2>6. m <= Len(l) + 1
    BY <1>2, <1>3
  <2> HIDE DEF d, m
  <2>7. n = [pc |-> k.pc, cfg |-> d, todo |-> k.todo, next |-> m]
    BY <1>1, ChangeCfgNext
  <2>8. n.pc = "leave" /\ n.cfg = d /\ n.todo = {} /\ n.next = m
    BY <1>2, <1>4, <2>7
  <2> HIDE DEF n, k, c
  <2>9. WayInv(n, base, req)
    BY <2>4, <2>5, <2>6, <2>8 DEF WayInv
  <2>10. QED
    BY <1>2, <2>1, <2>9, WayKeeps
<1>9. QED
  BY <1>7, <1>8

\* The end of Join and of Leave: every controller that gets there begins Rebalance
\* in the same state.
LEMMA EndWay ==
    ASSUME IInv, WInv, NEW r \in Ctrlers, EndJoin(r) \/ EndLeave(r)
    PROVE  WInv'
<1> DEFINE k == ctl[r]
           c == k.cfg
           l == req.arg
<1>1. CtrlerInv(k, req) /\ k \in State /\ WayInv(k, base, req) /\ base \in Config /\ req \in Requests
  BY DEF IInv, WInv, CtrlerInv
<1>2. ctl' = [ctl EXCEPT ![r] = EndOf(k)] /\ UNCHANGED <<base, req>>
  BY DEF EndJoin, EndLeave
<1>3. \/ req.op = "join" /\ k.pc = "join" /\ k.todo = {}
      \/ req.op = "leave" /\ k.pc = "leave" /\ k.next > Len(l)
  BY <1>1 DEF EndJoin, EndLeave, CtrlerInv
<1> DEFINE groups == IF req.op = "join" THEN Joined(base, l, DOMAIN l)
                     ELSE Remaining(base, l, Len(l) + 1)
<1>4. c = Copied(base, base.num, groups) /\ k.todo = {}
  <2>1. CASE req.op = "join" /\ k.pc = "join" /\ k.todo = {}
    <3>1. DOMAIN l \ k.todo = DOMAIN l
      BY <2>1
    <3>2. QED
      BY <1>1, <2>1, <3>1 DEF WayInv
  <2>2. CASE req.op = "leave" /\ k.pc = "leave" /\ k.next > Len(l)
    <3>1. k.next \in Nat /\ Len(l) \in Nat /\ k.next <= Len(l) + 1
      BY <1>1, <2>2, StateParts, LeaveRequest DEF WayInv
    <3>2. k.next = Len(l) + 1
      BY <2>2, <3>1
    <3>3. QED
      BY <1>1, <2>2, <3>2 DEF WayInv
  <2>3. QED
    BY <1>3, <2>1, <2>2
<1>5. Members(c) # Members(base) <=> Possible(base, req)
  <2>0. Members(c) = DOMAIN groups
    BY <1>4 DEF Copied, Members
  <2>1. CASE req.op = "join" /\ k.pc = "join" /\ k.todo = {}
    <3>1. DOMAIN l \ k.todo = DOMAIN l
      BY <2>1
    <3>2. Clear(base, l, DOMAIN l)
      BY <1>1, <2>1, <3>1 DEF WayInv
    <3>3. DOMAIN groups = Members(base) \cup DOMAIN l
      BY <2>1 DEF Joined
    <3>4. \A g \in DOMAIN l : g \notin Members(base)
      BY <3>2 DEF Clear
    <3>5. QED
      BY <2>0, <2>1, <3>2, <3>3, <3>4 DEF Possible
  <2>2. CASE req.op = "leave" /\ k.pc = "leave" /\ k.next > Len(l)
    <3>1. k.next \in Nat /\ Len(l) \in Nat /\ k.next <= Len(l) + 1
      BY <1>1, <2>2, StateParts, LeaveRequest DEF WayInv
    <3>2. k.next = Len(l) + 1
      BY <2>2, <3>1
    <3>3. Present(base, l, Len(l) + 1)
      BY <1>1, <2>2, <3>2 DEF WayInv
    <3>4. DOMAIN groups = Members(base) \ {l[i] : i \in 1..(Len(l) + 1) - 1}
      BY <2>2 DEF Remaining
    <3>5. CASE Len(l) > 0
      <4>1. 1 \in 1..(Len(l) + 1) - 1
        BY <3>1, <3>5
      <4>2. l[1] \in Members(base) /\ l[1] \in {l[i] : i \in 1..(Len(l) + 1) - 1}
        BY <3>3, <4>1 DEF Present
      <4>3. QED
        BY <2>0, <2>2, <3>3, <3>4, <3>5, <4>2 DEF Possible
    <3>6. CASE ~(Len(l) > 0)
      <4>1. 1..(Len(l) + 1) - 1 = {}
        BY <3>1, <3>6
      <4>2. {l[i] : i \in 1..(Len(l) + 1) - 1} = {}
        BY <4>1
      <4>3. QED
        BY <2>0, <2>2, <3>4, <3>6, <4>2 DEF Possible
    <3>7. QED
      BY <3>5, <3>6
  <2>3. QED
    BY <1>3, <2>1, <2>2
<1>6. CASE Members(c) = Members(base)
  <2>1. ctl' = [ctl EXCEPT ![r] = [k EXCEPT !.pc = "fatal"]]
    BY <1>2, <1>6 DEF EndOf
  <2>2. QED
    BY <1>2, <1>5, <1>6, <2>1, StopWay
<1>7. CASE Members(c) # Members(base)
  <2> DEFINE d == Copied(base, base.num + 1, groups)
  <2>1. [c EXCEPT !.num = c.num + 1] = d
    BY <1>4 DEF Copied
  <2>2. EndOf(k) = [k EXCEPT !.cfg = [c EXCEPT !.num = c.num + 1],
                             !.pc = "rebalance", !.next = 1]
    BY <1>1, <1>7 DEF EndOf, State
  <2> HIDE DEF d
  <2>3. EndOf(k) = [k EXCEPT !.cfg = d, !.pc = "rebalance", !.next = 1]
    BY <2>1, <2>2, Zenon
  <2>4. EndOf(k) = [pc |-> "rebalance", cfg |-> d, todo |-> k.todo, next |-> 1]
    BY <1>1, <2>3, ChangeCfgPCNext
  <2>5. EndOf(k) = StartOf(base, req)
    BY <1>4, <2>4 DEF StartOf, d
  <2>6. EndOf(k) \in State
    BY <1>1, EndOfInv DEF CtrlerInv
  <2>7. EndOf(k).pc = "rebalance"
    BY <2>5 DEF StartOf
  <2>8. Leads(StartOf(base, req), EndOf(k))
    BY <2>5, LeadsSelf
  <2>9. WayInv(EndOf(k), base, req)
    BY <1>5, <1>7, <2>5, <2>6, <2>7, <2>8 DEF WayInv
  <2>10. QED
    BY <1>2, <2>9, WayKeeps
<1>8. QED
  BY <1>6, <1>7

\* The steps of Rebalance.
LEMMA RebalanceWay ==
    ASSUME IInv, WInv, NEW r \in Ctrlers, RebalanceAction(r)
    PROVE  WInv'
<1> DEFINE k == ctl[r]
           n == ctl'[r]
<1>1. RebalanceStep(k, n) /\ ctl' = [ctl EXCEPT ![r] = n] /\ UNCHANGED <<base, req>>
  BY ActionIsStep
<1>2. k \in State /\ WayInv(k, base, req)
  BY DEF IInv, WInv, CtrlerInv
<1>3. IInv'
  BY UnassignKeeps, BeginAssignKeeps, AssignOneKeeps, EndAssignKeeps, MoveOneKeeps, EndMoveKeeps
     DEF RebalanceAction
<1>4. n \in State
  BY <1>3 DEF IInv, CtrlerInv
<1>5. k.pc \in {"rebalance", "assign", "move"} /\ n.pc \in {"assign", "move", "done"}
  <2>1. \A pc, sh, m : Change(k, pc, sh, m).pc = pc
    BY DEF Change
  <2>2. QED
    BY <1>1, <2>1 DEF RebalanceStep
<1>6. Possible(base, req) /\ StartOf(base, req) \in State /\ Leads(StartOf(base, req), k)
  BY <1>2, <1>5 DEF WayInv
<1>7. Leads(StartOf(base, req), n)
  BY <1>1, <1>4, <1>6, LeadsStep
<1> HIDE DEF k, n
<1>8. WayInv(n, base, req)
  BY <1>5, <1>6, <1>7 DEF WayInv
<1>9. QED
  BY <1>1, <1>8, WayKeeps

\* A controller at rest.
LEMMA IdleWay == ASSUME NEW b, NEW q PROVE WayInv(Idle, b, q)
BY DEF WayInv, Idle

\* Next preserves the invariant.
LEMMA NextWay == IInv /\ WInv /\ [Next]_vars => WInv'
<1> SUFFICES ASSUME IInv, WInv, [Next]_vars PROVE WInv'
  OBVIOUS
<1>1. CASE UNCHANGED vars
  BY <1>1 DEF vars, WInv
<1>2. CASE (\E j \in Joins : StartJoin(j)) \/ (\E l \in Leaves : StartLeave(l))
  BY <1>2, StartWay
<1>3. ASSUME NEW r \in Ctrlers, CtrlerStep(r) PROVE WInv'
  BY <1>3, JoinOneWay, LeaveOneWay, EndWay, RebalanceWay DEF CtrlerStep, RebalanceAction
<1>4. CASE Publish
  <2>1. \A x \in Ctrlers : WayInv(ctl'[x], base', req')
    BY <1>4, IdleWay DEF Publish
  <2>2. QED
    BY <2>1 DEF WInv
<1>5. QED
  BY <1>1, <1>2, <1>3, <1>4 DEF Next

\* The invariant holds always.
LEMMA WayInvariance == Spec => []WInv
<1>1. Init => WInv
  BY IdleWay DEF Init, WInv
<1>2. QED
  BY <1>1, NextWay, Invariance, PTL DEF Spec

-----------------------------------------------------------------------------

\* Controllers that make the same change compute the same configuration, whatever
\* order Go iterates over a map in: if one has finished then no other one stops, and
\* any other one that has finished has the same result.
THEOREM CtrlersCompute == Spec => []CtrlersAgree
<1>1. IInv /\ WInv => CtrlersAgree
  <2> SUFFICES ASSUME IInv, WInv, NEW q \in Ctrlers, NEW r \in Ctrlers, ctl[q].pc = "done"
               PROVE  /\ ctl[r].pc \notin {"failed", "fatal"}
                      /\ ctl[r].pc = "done" => ctl[r].cfg = ctl[q].cfg
    BY DEF CtrlersAgree
  <2> DEFINE s == StartOf(base, req)
  <2>1. WayInv(ctl[q], base, req) /\ WayInv(ctl[r], base, req)
    BY DEF WInv
  <2>2. ctl[q] \in State /\ ctl[r] \in State
    BY DEF IInv, CtrlerInv
  <2>3. Possible(base, req) /\ s \in State /\ Leads(s, ctl[q])
    BY <2>1 DEF WayInv
  <2>4. ctl[r].pc \notin {"failed", "fatal"}
    BY <2>1, <2>3 DEF WayInv
  <2>5. ASSUME ctl[r].pc = "done" PROVE ctl[r] = ctl[q]
    <3>1. Leads(s, ctl[r])
      BY <2>1, <2>5 DEF WayInv
    <3> HIDE DEF s
    <3>2. Leads(ctl[q], ctl[r]) \/ Leads(ctl[r], ctl[q])
      BY <2>2, <2>3, <3>1, OneWay
    <3>3. QED
      BY <2>2, <2>5, <3>2, LeadsEnd
  <2>6. QED
    BY <2>4, <2>5
<1>2. QED
  BY <1>1, Invariance, WayInvariance, PTL

\* No change moves a shard it need not move: Join hands shards to new groups only
\* and Leave takes shards from groups that are gone only, for any number of shards
\* and groups.
THEOREM NoNeedlessMove == Spec => []MovesAreNeeded
<1>1. IInv /\ WInv => MovesAreNeeded
  <2> SUFFICES ASSUME IInv, WInv, NEW r \in Ctrlers, ctl[r].pc = "done", NEW s \in Shards,
                      ctl[r].cfg.shards[s] # base.shards[s]
               PROVE  \/ req.op = "join" /\ ctl[r].cfg.shards[s] \notin Members(base)
                      \/ req.op = "leave" /\ base.shards[s] \notin Members(ctl[r].cfg)
    BY DEF MovesAreNeeded
  <2> DEFINE k == StartOf(base, req)
  <2>1. WayInv(ctl[r], base, req) /\ base \in Config /\ Sound(base)
    BY DEF IInv, WInv
  <2>2. Possible(base, req) /\ k \in State /\ Leads(k, ctl[r])
    BY <2>1 DEF WayInv
  <2>3. MoveInv(k, base, req)
    <3>1. k.pc = "rebalance" /\ k.cfg.shards = base.shards
      BY DEF StartOf, Copied
    <3>2. req.op \in {"join", "leave"}
      BY <2>2 DEF Possible
    <3>3. req.op = "join" => Members(base) \subseteq Members(k.cfg)
      BY DEF StartOf, Copied, Joined, Members
    <3>4. req.op = "leave" => Members(k.cfg) \subseteq Members(base)
      BY DEF StartOf, Copied, Remaining, Members
    <3> HIDE DEF k
    <3>5. QED
      BY <3>1, <3>2, <3>3, <3>4 DEF MoveInv
  <2> HIDE DEF k
  <2>4. MoveInv(ctl[r], base, req)
    BY <2>1, <2>2, <2>3, MoveInvOfLeads
  <2>5. QED
    BY <2>4 DEF MoveInv
<1>2. QED
  BY <1>1, Invariance, WayInvariance, PTL
=============================================================================

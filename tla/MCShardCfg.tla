----------------------------- MODULE MCShardCfg -----------------------------
(* Instance of ShardCfg for TLC: small groups that join and leave one by one  *)
(* and in pairs, one group that clashes with another over a server.           *)
EXTENDS ShardCfg, TLC

CONSTANTS c1, c2, s1, s2, s3, s4

MCJoins == {(1 :> {s1}), (2 :> {s2}), (3 :> {s3}), (4 :> {s4}),
            (1 :> {s1} @@ 3 :> {s3}), (2 :> {s2} @@ 4 :> {s4}),
            (2 :> {s2} @@ 4 :> {s2, s4}), <<>>}
MCLeaves == {<<1>>, <<2>>, <<3>>, <<1, 2>>, <<3, 1>>, <<>>}
=============================================================================

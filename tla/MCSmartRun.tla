----------------------------- MODULE MCSmartRun -----------------------------
(***************************************************************************)
(* Small instances of SmartRun for TLC.                                    *)
(***************************************************************************)
EXTENDS SmartRun

CONSTANTS a, b, d

Route(t, role, shards) == [target |-> t, role |-> role, partitionIds |-> shards]

(* Two shards whose roles are swapped; shard 1 without a route and shard 0 *)
(* without a master; one node in both roles.                               *)
Swapped == [shards |-> 2,
            peers |-> {Route(a, "MASTER", {0}), Route(b, "BACKUP", {0}),
                       Route(b, "MASTER", {1}), Route(a, "BACKUP", {1})}]
Holes == [shards |-> 3, peers |-> {Route(b, "BACKUP", {0}),
                                   Route(d, "MASTER", {2})}]
Single == [shards |-> 1, peers |-> {Route(d, "MASTER", {0}),
                                    Route(d, "BACKUP", {0})}]

MCTopologies == {Swapped, Holes, Single}
=============================================================================

--------------------------- MODULE MCSmartBackend ---------------------------
(***************************************************************************)
(* Small instances of SmartBackend for TLC.                                *)
(***************************************************************************)
EXTENDS SmartBackendLeases, TLC

CONSTANTS a, b, c1, c2

Route(t, role, shards) == [target |-> t, role |-> role, partitionIds |-> shards]
Message(n, peers) == [maxShards |-> n, peerRouting |-> peers]

(* a and b; b alone; b twice with a in the way; a peer without a shard.    *)
BothNodes == {Message(1, {Route(a, "MASTER", {0})}),
              Message(1, {Route(b, "BACKUP", {0})})}
OnlyB == {Message(1, {Route(b, "MASTER", {0}), Route(b, "BACKUP", {0})})}
OnlyA == {Message(1, {Route(a, "MASTER", {0})})}
Conflict == {Message(1, {Route(a, "MASTER", {0}), Route(b, "MASTER", {0})})}
NoRoutes == {Message(1, {Route(a, "MASTER", {})})}

(* Answers that discover() refuses.                                        *)
Inconsistent == {Message(1, {Route(a, "MASTER", {0})}), Message(2, {})}
OutOfRange == {Message(1, {Route(a, "MASTER", {1})})}
NoAddress == {Message(1, {Route(NoTarget, "MASTER", {0})})}
Undefined == {Message(1, {Route(a, "UNDEFINED", {0})})}
Refused == {Inconsistent, OutOfRange, NoAddress, Undefined, {},
            {Message(0, {})}, {Message(1, {})}}

MCAnswers == {BothNodes, OnlyB, Conflict, NoRoutes} \cup Refused
MCSwitch == {OnlyA, OnlyB}

OneCoordinator == <<c1>>
TwoCoordinators == <<c1, c2>>

(* The goroutines of calls are alike; used where no liveness is checked.   *)
MCSymmetry == Permutations(Calls)
=============================================================================

------------------------------ MODULE Topology ------------------------------
(***************************************************************************)
(* The routing information a coordinator streams to the client and the     *)
(* checks that discover() and publish() make on it before a topology is    *)
(* installed.  A coordinator answer is the set of RoutingInfoData messages *)
(* of one stream.  The list order of peers is left out: publish() stops at *)
(* the first conflict whatever the order, and SmartBackend visits the      *)
(* peers in every order.                                                   *)
(***************************************************************************)
EXTENDS Naturals, FiniteSets

CONSTANTS
    Targets,    \* addresses of data nodes
    NoTarget    \* the empty address, PeerRouting.target = ""

ASSUME NoTargetAssumption == NoTarget \notin Targets

(* NodeRole; UNDEFINED is what proto3 delivers for an unset role.          *)
NodeRole == {"MASTER", "BACKUP", "UNDEFINED"}

Peer == [target : Targets \cup {NoTarget}, role : NodeRole,
         partitionIds : SUBSET Nat]
RoutingInfoData == [maxShards : Nat, peerRouting : SUBSET Peer]

(* d.peers and d.shards after the receive loop of discover().              *)
Peers(answer) == UNION {m.peerRouting : m \in answer}
Shards(answer) == (CHOOSE m \in answer : TRUE).maxShards

(* Every message carries the same, non-zero shard count.                   *)
ConsistentShards(answer) ==
    /\ \A m \in answer : m.maxShards # 0
    /\ \A m, n \in answer : m.maxShards = n.maxShards

(* A route discover() keeps: addressed, MASTER or BACKUP, in range.        *)
ValidPeer(p, shards) ==
    /\ p.target # NoTarget
    /\ p.role \in {"MASTER", "BACKUP"}
    /\ \A s \in p.partitionIds : s < shards

(* discover() returns this answer without an error.                        *)
Accepted(answer) ==
    /\ ConsistentShards(answer)
    /\ Peers(answer) # {}
    /\ \A p \in Peers(answer) : ValidPeer(p, Shards(answer))

(* publish(): two peers claim one shard in one role.  Endpoints are one    *)
(* per target within a snapshot, so old # ep is a comparison of targets.   *)
Conflicting(peers) ==
    \E p, q \in peers : /\ p.target # q.target
                        /\ p.role = q.role
                        /\ p.partitionIds \cap q.partitionIds # {}

(* publish(): len(snap.routes) # 0.                                        *)
HasRoutes(peers) == \E p \in peers : p.partitionIds # {}

(* snap.routes[routeKey{shard, role}]: the targets that hold the route.    *)
RouteTargets(peers, shard, role) ==
    {p.target : p \in {q \in peers : q.role = role /\ shard \in q.partitionIds}}
=============================================================================

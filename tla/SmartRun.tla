------------------------------ MODULE SmartRun ------------------------------
(***************************************************************************)
(* The body of smartBackend.run (smart.go): a call captures the current    *)
(* snapshot, selects a shard, resolves the routing mode to one or two      *)
(* endpoints, and makes one attempt and at most one more.  Refreshes may   *)
(* replace the current snapshot at any time.                               *)
(*                                                                         *)
(* How the captured endpoints stay open is module SmartBackend.  Within    *)
(* one snapshot there is one endpoint per target, so an endpoint is named  *)
(* by its target here, and NoTarget is a nil endpoint.                     *)
(***************************************************************************)
EXTENDS Topology, Sequences

CONSTANTS
    Calls,          \* goroutines inside run
    Topologies,     \* what publish() may install: [shards, peers]
    ConfigMode,     \* SmartConfig.Mode
    Hints,          \* weak hashes a caller may supply
    CounterBits,    \* bound: width of the round counter, 32 in the code
    UnknownTarget,  \* an address of no topology
    Absent          \* a nil pointer in Options

Modes == {"MasterThenBackup", "Master", "Backup", "LBSmart"}

ASSUME RunAssumption ==
    /\ CounterBits \in Nat \ {0}
    /\ ConfigMode \in Modes
    /\ Hints \subseteq Nat /\ Absent \notin Hints /\ Absent \notin Modes
    /\ UnknownTarget \notin Targets \cup {NoTarget}
    /\ \A tp \in Topologies :
          /\ tp.shards \in Nat \ {0}
          /\ tp.peers \subseteq Peer
          /\ \A p \in tp.peers : ValidPeer(p, tp.shards)
          /\ HasRoutes(tp.peers) /\ ~Conflicting(tp.peers)

(* The part of Options and of the operation that run() looks at.           *)
Request == [hint : Hints \cup {Absent}, mode : Modes \cup {Absent},
            write : BOOLEAN]

(* What an attempt may return: its status, whether the error holds a       *)
(* PartialError, and the first x-fastcache-route trailer.                  *)
Outcome ==
    [code : {"OK"}, partial : {FALSE}, route : {NoTarget}]
    \cup [code : {"Unavailable", "Other"}, partial : BOOLEAN, route : {NoTarget}]
    \cup [code : {"FailedPrecondition"}, partial : BOOLEAN,
          route : Targets \cup {NoTarget, UnknownTarget}]
LocalError(code) == [code |-> code, partial |-> FALSE, route |-> NoTarget]

VARIABLES
    topology,       \* b.snapshot
    round,          \* b.round
    wake,           \* a token waits in the wake channel
    pc, req,        \* where each call is and what it was asked
    snap,           \* the snapshot a call captured
    shard,          \* the shard it selected
    first, second,  \* the endpoints the mode names
    tried,          \* history: the attempts, [target, outcome] each
    result,         \* what run() returns
    asked           \* history: the call has requested a refresh

vars == <<topology, round, wake, pc, req, snap, shard, first, second, tried,
          result, asked>>
choiceVars == <<shard, first, second>>

Master(tp, s) == RouteTargets(tp.peers, s, "MASTER")
Backup(tp, s) == RouteTargets(tp.peers, s, "BACKUP")
(* A map lookup: the only element, or nil.                                 *)
Lookup(S) == IF S = {} THEN NoTarget ELSE CHOOSE t \in S : TRUE
TargetsOf(tp) == {p.target : p \in tp.peers}

NoRequest == [hint |-> Absent, mode |-> Absent, write |-> FALSE]
NoChoice == LocalError("none")
-----------------------------------------------------------------------------
Init ==
    /\ topology \in Topologies
    /\ round = 0 /\ wake = FALSE
    /\ pc = [c \in Calls |-> "idle"]
    /\ req = [c \in Calls |-> NoRequest]
    /\ snap = [c \in Calls |-> topology]
    /\ shard = [c \in Calls |-> 0]
    /\ first = [c \in Calls |-> NoTarget] /\ second = [c \in Calls |-> NoTarget]
    /\ tried = [c \in Calls |-> <<>>]
    /\ result = [c \in Calls |-> NoChoice]
    /\ asked = [c \in Calls |-> FALSE]

(* A refresh installs a topology; the loop's refreshes take the token.     *)
Publish ==
    /\ topology' \in Topologies
    /\ wake' \in {wake, FALSE}
    /\ UNCHANGED <<round, pc, req, snap, choiceVars, tried, result, asked>>

StartRun(c) ==
    /\ pc[c] = "idle"
    /\ req' \in {[req EXCEPT ![c] = q] : q \in Request}
    /\ pc' = [pc EXCEPT ![c] = "ready"]
    /\ UNCHANGED <<topology, round, wake, snap, choiceVars, tried, result, asked>>

PinSnapshot(c) ==
    /\ pc[c] = "ready"
    /\ snap' = [snap EXCEPT ![c] = topology]
    /\ pc' = [pc EXCEPT ![c] = "select"]
    /\ UNCHANGED <<topology, round, wake, req, choiceVars, tried, result, asked>>

Finish(c, e) ==
    /\ result' = [result EXCEPT ![c] = e]
    /\ pc' = [pc EXCEPT ![c] = "done"]

(* waitReady() fails or the client is closed.                              *)
NotReady(c) ==
    /\ pc[c] = "ready"
    /\ Finish(c, LocalError("Other"))
    /\ UNCHANGED <<topology, round, wake, req, snap, choiceVars, tried, asked>>

Increment(n) == (n + 1) % 2^CounterBits

(* The hint decides the shard, or the round counter without its top bit.   *)
SelectShard(c) ==
    IF req[c].hint # Absent
    THEN /\ shard' = [shard EXCEPT ![c] = req[c].hint % snap[c].shards]
         /\ UNCHANGED round
    ELSE /\ round' = Increment(round)
         /\ shard' = [shard EXCEPT ![c] =
                        (round' % 2^(CounterBits - 1)) % snap[c].shards]

(* The policy of the operation, then the override, then what exists.       *)
ResolveMode(q, master, backup) ==
    IF backup = NoTarget THEN "Master"
    ELSE IF master = NoTarget THEN "Backup"
    ELSE IF q.mode # Absent THEN q.mode
    ELSE IF q.write THEN "MasterThenBackup"
    ELSE ConfigMode

(* Fault (AttemptsJustified): a single-role mode falls back as well.       *)
FaultEndpoints(m, master, backup) ==
    IF m \in {"Backup"} THEN {<<backup, master>>} ELSE {<<master, backup>>}

(* The pairs (first, second) a mode allows.                                *)
Endpoints(m, master, backup) ==
    CASE m = "Master" -> {<<master, NoTarget>>}
      [] m = "Backup" -> {<<backup, NoTarget>>}
      [] m = "MasterThenBackup" -> {<<master, backup>>}
      [] m = "LBSmart" -> {<<master, backup>>, <<backup, master>>}

(* From the shard to the check of ctx before the first attempt.            *)
Select(c) ==
    /\ pc[c] = "select"
    /\ SelectShard(c)
    /\ LET master == Lookup(Master(snap[c], shard'[c]))
           backup == Lookup(Backup(snap[c], shard'[c]))
       IN  IF master = NoTarget /\ backup = NoTarget
           THEN /\ Finish(c, LocalError("Unavailable"))
                /\ UNCHANGED <<first, second>>
           ELSE /\ \E pair \in Endpoints(ResolveMode(req[c], master, backup),
                                        master, backup) :
                      /\ first' = [first EXCEPT ![c] = pair[1]]
                      /\ second' = [second EXCEPT ![c] = pair[2]]
                /\ \/ Finish(c, LocalError("Other"))
                   \/ pc' = [pc EXCEPT ![c] = "first"] /\ UNCHANGED result
    /\ UNCHANGED <<topology, wake, req, snap, tried, asked>>

Attempt(c, target, outcome) ==
    tried' = [tried EXCEPT ![c] =
                Append(@, [target |-> target, outcome |-> outcome])]

(* Fault (NoReplayAfterProgress): hasPartial is not consulted.             *)
FaultFinal(outcome) == outcome.code = "OK"

(* No second attempt is considered.                                        *)
Final(outcome) == outcome.code = "OK" \/ outcome.partial

(* Fault (AttemptsBounded): the redirect is looked up in the current       *)
(* snapshot.                                                               *)
FaultRerouteTo(c, outcome) ==
    {t \in TargetsOf(topology) : t = outcome.route /\ t # first[c]}

(* Where a redirect leads: nowhere, or to one other captured endpoint.     *)
RerouteTo(c, outcome) ==
    {t \in TargetsOf(snap[c]) : t = outcome.route /\ t # first[c]}

FallbackTo(c) == {second[c]} \ {NoTarget, first[c]}

(* The first attempt ends the call: by success, by progress that must not  *)
(* be replayed, by a status that is never retried, or because ctx ended.   *)
FirstReturns(c) ==
    /\ pc[c] = "first"
    /\ \E outcome \in Outcome : /\ Attempt(c, first[c], outcome)
                                /\ Finish(c, outcome)
    /\ UNCHANGED <<topology, round, wake, req, snap, choiceVars, asked>>

GoOn(c, S, outcome) ==
    IF S = {} THEN Finish(c, outcome) /\ UNCHANGED second
    ELSE /\ second' = [second EXCEPT ![c] = Lookup(S)]
         /\ pc' = [pc EXCEPT ![c] = "second"]
         /\ UNCHANGED result

FirstMoved(c) ==
    /\ pc[c] = "first"
    /\ \E outcome \in Outcome :
          /\ outcome.code = "FailedPrecondition" /\ ~Final(outcome)
          /\ Attempt(c, first[c], outcome)
          /\ GoOn(c, RerouteTo(c, outcome), outcome)
    /\ UNCHANGED <<topology, round, wake, req, snap, shard, first, asked>>

FirstUnavailable(c) ==
    /\ pc[c] = "first"
    /\ \E outcome \in Outcome :
          /\ outcome.code = "Unavailable" /\ ~Final(outcome)
          /\ Attempt(c, first[c], outcome)
          /\ GoOn(c, FallbackTo(c), outcome)
    /\ wake' = TRUE
    /\ asked' = [asked EXCEPT ![c] = TRUE]
    /\ UNCHANGED <<topology, round, req, snap, shard, first>>

(* return action(...): whatever the second attempt returns is final.       *)
SecondReturns(c) ==
    /\ pc[c] = "second"
    /\ \E outcome \in Outcome : /\ Attempt(c, second[c], outcome)
                                /\ Finish(c, outcome)
    /\ UNCHANGED <<topology, round, wake, req, snap, choiceVars, asked>>

EndRun(c) ==
    /\ pc[c] = "done"
    /\ pc' = [pc EXCEPT ![c] = "idle"]
    /\ req' = [req EXCEPT ![c] = NoRequest]
    /\ shard' = [shard EXCEPT ![c] = 0]
    /\ first' = [first EXCEPT ![c] = NoTarget]
    /\ second' = [second EXCEPT ![c] = NoTarget]
    /\ tried' = [tried EXCEPT ![c] = <<>>]
    /\ result' = [result EXCEPT ![c] = NoChoice]
    /\ asked' = [asked EXCEPT ![c] = FALSE]
    /\ UNCHANGED <<topology, round, wake, snap>>

Next ==
    \/ Publish
    \/ \E c \in Calls :
          \/ StartRun(c) \/ PinSnapshot(c) \/ NotReady(c) \/ Select(c)
          \/ FirstReturns(c) \/ FirstMoved(c) \/ FirstUnavailable(c)
          \/ SecondReturns(c) \/ EndRun(c)

Spec == Init /\ [][Next]_vars
-----------------------------------------------------------------------------
(* A call makes at most two attempts, on two different nodes, both of the  *)
(* snapshot it captured, whatever has been published since: only those are *)
(* kept open for it.  There is no retry chain, and a redirect to the same  *)
(* node or to an unknown one is not followed (run).                        *)
AttemptsBounded ==
    \A c \in Calls :
        /\ Len(tried[c]) <= 2
        /\ \A i \in DOMAIN tried[c] :
              tried[c][i].target \in TargetsOf(snap[c])
        /\ \A i, j \in DOMAIN tried[c] :
              i # j => tried[c][i].target # tried[c][j].target

(* An operation that was acknowledged in part is never sent again.         *)
NoReplayAfterProgress ==
    \A c \in Calls : \A i \in DOMAIN tried[c] :
        tried[c][i].outcome.partial => i = Len(tried[c])

(* Both attempts of a call have a reason.  A write that does not override  *)
(* the mode goes first to the master of its shard, whatever                *)
(* SmartConfig.Mode says, if the captured snapshot has one.  Before a      *)
(* second attempt, the first node named the second as the owner, or it was *)
(* unavailable, the call's mode allows a fallback and the second node      *)
(* serves the same shard of the captured snapshot.                         *)
AttemptsJustified ==
    \A c \in Calls :
        /\ tried[c] # <<>> /\ req[c].write /\ req[c].mode = Absent =>
              Master(snap[c], shard[c]) \subseteq {tried[c][1].target}
        /\ Len(tried[c]) = 2 =>
              LET e == tried[c][1].outcome
                  t == tried[c][2].target
              IN  \/ e.code = "FailedPrecondition" /\ e.route = t
                  \/ /\ e.code = "Unavailable" /\ asked[c]
                     /\ req[c].mode \notin {"Master", "Backup"}
                     /\ t \in Master(snap[c], shard[c]) \cup Backup(snap[c], shard[c])

(* README.md:361 "Unavailable failures trigger refresh.": when the last    *)
(* node a call tries is unavailable, the call has requested a refresh.     *)
UnavailableRefreshes ==
    \A c \in Calls :
        Len(tried[c]) = 2 /\ tried[c][2].outcome.code = "Unavailable" => asked[c]
=============================================================================

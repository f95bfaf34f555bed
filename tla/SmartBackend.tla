---------------------------- MODULE SmartBackend ----------------------------
(***************************************************************************)
(* The life of the connections of a SmartClient: discovery publishes       *)
(* topology snapshots, calls pin the snapshot they run on, a removed       *)
(* endpoint is closed by whoever drops its last reference, and Close shuts *)
(* everything down (smart.go).                                             *)
(*                                                                         *)
(* A lock section of smartBackend.mu is one step.  What a goroutine does   *)
(* between two lock sections on data only it can reach (dialling, closing  *)
(* endpoints it has not published) is part of the preceding or following   *)
(* step.  What a call does with its pinned snapshot is module SmartRun;    *)
(* here a call may ask for a refresh once and then returns.                *)
(*                                                                         *)
(* A definition named Fault... is a deliberately wrong variant of the one  *)
(* below it; no specification uses it.  Substituted for the right one it   *)
(* must break the property its comment names.                              *)
(***************************************************************************)
EXTENDS Topology, Sequences

CONSTANTS
    coordinators,       \* the configured coordinator addresses, in order
    Calls,              \* goroutines inside smartBackend.run
    Users,              \* goroutines inside SmartClient.Refresh
    Loop,               \* the goroutine of smartBackend.loop
    Borrowed,           \* addresses whose connections have Close = nil
    Answers,            \* what a coordinator may stream
    MaxConns            \* bound: connections the factory hands out

None == "none"     \* an empty gate
CoordinatorAddr == {coordinators[i] : i \in DOMAIN coordinators}
NumCoordinators == Len(coordinators)

ASSUME BackendAssumption ==
    /\ coordinators \in Seq(CoordinatorAddr) /\ coordinators # <<>>
    /\ MaxConns \in Nat
    /\ Loop \notin Users
    /\ Calls \cap (Users \cup {Loop}) = {}
    /\ IsFiniteSet(Calls) /\ IsFiniteSet(Users) /\ IsFiniteSet(Targets)
    /\ Answers \subseteq SUBSET RoutingInfoData
    /\ None \notin Users \cup {Loop}

VARIABLES
    phase,              \* closed / life / progress of close()
    pc,                 \* where each goroutine is
    gate,               \* the refresher in the one-slot gate channel, or None
    wake,               \* a token waits in the one-slot wake channel
    unserved,           \* history: no refresh started since the last request
    activeCoordinator,  \* index of the coordinator that answered last
    coords,             \* coordinatorConnections: address -> connection
    nodes,              \* b.nodes: target -> endpoint
    snapshot,           \* b.snapshot.targets: target -> endpoint
    opened,             \* connections 1..opened were returned by the factory
    owned,              \* those with a Close function
    closes,             \* history: Close calls on each connection
    refs, active, epClosed,     \* the fields of each endpoint
    held,               \* endpoints a goroutine counts in refs
    start, tries,       \* refresh(): first index and loop counter n
    todo, seen,         \* publish(): peers still to do, peers done
    snap                \* publish(): snap.targets under construction

vars == <<phase, pc, gate, wake, unserved, activeCoordinator, coords, nodes,
          snapshot, opened, owned, closes, refs, active, epClosed, held,
          start, tries, todo, seen, snap>>
connVars == <<opened, owned, closes>>
epVars == <<refs, active, epClosed, held, nodes>>
jobVars == <<start, tries, todo, seen, snap>>
chanVars == <<gate, wake, unserved>>

(* An endpoint is identified with its connection.  Nil is a nil pointer.   *)
Nil == 0
Conns == 1..MaxConns
Refreshers == Users \cup {Loop}
Procs == Calls \cup Refreshers
NoTargets == [t \in Targets |-> Nil]
Entries(f) == {f[x] : x \in DOMAIN f} \ {Nil}

Closed == phase # "open"
LifeDone == phase \in {"canceled", "released"}
Ready == snapshot # NoTargets
Returned(r) == IF r = Loop THEN "select" ELSE "idle"
InRefresh(r) == pc[r] \notin {"idle", "select", "exited"}

(* Whether ctx.Err() # nil in refresh(): the loop passes b.life itself, a  *)
(* caller's context may end at any time and sees Close through AfterFunc.  *)
CtxErr(r) == IF r = Loop THEN {LifeDone} ELSE BOOLEAN
(* The same for the attempt context, which DiscoveryTimeout may also end.  *)
AttemptErr(r) == IF r = Loop /\ LifeDone THEN {TRUE} ELSE BOOLEAN
-----------------------------------------------------------------------------
(* The connection factory and Connection.Close.                            *)
Dial(isOwned) ==
    /\ opened < MaxConns
    /\ opened' = opened + 1
    /\ owned' = IF isOwned THEN owned \cup {opened'} ELSE owned

CloseCount(S) == [c \in Conns |-> IF c \in S THEN closes[c] + 1 ELSE closes[c]]

(* The factory returns Connection{Conn: nil, Close: f}: f is called.       *)
DialNil ==
    /\ Dial(TRUE)
    /\ closes' = CloseCount({opened'})

(* Fault (HeldOpen): references are not consulted.                         *)
FaultRetirable(nds, act, rfs) ==
    {t \in Targets : nds[t] # Nil /\ nds[t] \notin act}

Retirable(nds, act, rfs) ==
    {t \in Targets : nds[t] # Nil /\ nds[t] \notin act /\ rfs[nds[t]] = 0}

(* retireLocked() on the maps as the lock section has left them.           *)
RetireLocked(nds, act, rfs) ==
    LET T == Retirable(nds, act, rfs)
        E == {nds[t] : t \in T}
    IN  /\ nodes' = [t \in Targets |-> IF t \in T THEN Nil ELSE nds[t]]
        /\ closes' = CloseCount((E \ epClosed) \cap owned)
        /\ epClosed' = epClosed \cup E

Pin(p, E) ==
    /\ refs' = [e \in Conns |-> IF e \in E THEN refs[e] + 1 ELSE refs[e]]
    /\ held' = [held EXCEPT ![p] = @ \cup E]

(* Fault (RetiredIsClosed): the deferred function does not retire.         *)
FaultUnpinAndRetire(p) ==
    /\ refs' = [e \in Conns |-> IF e \in held[p] THEN refs[e] - 1 ELSE refs[e]]
    /\ held' = [held EXCEPT ![p] = {}]
    /\ UNCHANGED <<nodes, active, epClosed, closes>>

(* The deferred functions of run() and publish(): drop the references,     *)
(* then retire.                                                            *)
UnpinAndRetire(p) ==
    /\ refs' = [e \in Conns |-> IF e \in held[p] THEN refs[e] - 1 ELSE refs[e]]
    /\ held' = [held EXCEPT ![p] = {}]
    /\ RetireLocked(nodes, active, refs')
    /\ UNCHANGED active
-----------------------------------------------------------------------------
Init ==
    /\ phase = "open"
    /\ pc = [p \in Procs |-> IF p = Loop THEN "enter" ELSE "idle"]
    /\ gate = None /\ wake = FALSE /\ unserved = FALSE
    /\ activeCoordinator = 0
    /\ coords = [a \in CoordinatorAddr |-> Nil]
    /\ nodes = NoTargets /\ snapshot = NoTargets
    /\ opened = 0 /\ owned = {} /\ closes = [c \in Conns |-> 0]
    /\ refs = [c \in Conns |-> 0] /\ active = {} /\ epClosed = {}
    /\ held = [p \in Procs |-> {}]
    /\ start = [r \in Refreshers |-> 0] /\ tries = [r \in Refreshers |-> 0]
    /\ todo = [r \in Refreshers |-> {}] /\ seen = [r \in Refreshers |-> {}]
    /\ snap = [r \in Refreshers |-> NoTargets]

Goto(p, l) == pc' = [pc EXCEPT ![p] = l]
-----------------------------------------------------------------------------
(* refresh(): entry, gate, coordinator rotation.                           *)

CallRefresh(r) ==
    /\ r # Loop /\ pc[r] = "idle"
    /\ Goto(r, "enter")
    /\ UNCHANGED <<phase, activeCoordinator, coords, snapshot>>
    /\ UNCHANGED <<chanVars, connVars, epVars, jobVars>>

EnterRefresh(r) ==
    /\ pc[r] = "enter"
    /\ Goto(r, IF Closed THEN Returned(r) ELSE "gate")
    /\ UNCHANGED <<phase, activeCoordinator, coords, snapshot>>
    /\ UNCHANGED <<chanVars, connVars, epVars, jobVars>>

(* Fault (IInv): refreshes are not serialised.                             *)
FaultGateFree == TRUE

GateFree == gate = None

AcquireGate(r) ==
    /\ pc[r] = "gate" /\ GateFree
    /\ gate' = r
    /\ start' = [start EXCEPT ![r] = activeCoordinator]
    /\ unserved' = FALSE
    /\ Goto(r, "attempt")
    /\ UNCHANGED <<phase, wake, activeCoordinator, coords, snapshot>>
    /\ UNCHANGED <<tries, todo, seen, snap, connVars, epVars>>

GateCanceled(r) ==
    /\ pc[r] = "gate" /\ TRUE \in CtxErr(r)
    /\ Goto(r, Returned(r))
    /\ UNCHANGED <<phase, activeCoordinator, coords, snapshot>>
    /\ UNCHANGED <<chanVars, connVars, epVars, jobVars>>

ResetJob(r) ==
    /\ start' = [start EXCEPT ![r] = 0] /\ tries' = [tries EXCEPT ![r] = 0]
    /\ todo' = [todo EXCEPT ![r] = {}] /\ seen' = [seen EXCEPT ![r] = {}]
    /\ snap' = [snap EXCEPT ![r] = NoTargets]

(* return from refresh(): its deferred calls free the gate and the         *)
(* WaitGroup.                                                              *)
ReturnRefresh(r) ==
    /\ pc[r] = "attempt"
    /\ tries[r] = NumCoordinators \/ TRUE \in CtxErr(r)
    /\ gate' = None
    /\ ResetJob(r)
    /\ Goto(r, Returned(r))
    /\ UNCHANGED <<phase, wake, unserved, activeCoordinator, coords, snapshot>>
    /\ UNCHANGED <<connVars, epVars>>

Index(r) == (start[r] + tries[r]) % NumCoordinators
Coordinator(r) == coordinators[Index(r) + 1]

(* The head of the attempt loop and discover()'s connection lookup.        *)
BeginAttempt(r) ==
    /\ pc[r] = "attempt"
    /\ tries[r] < NumCoordinators /\ FALSE \in CtxErr(r)
    /\ Goto(r, IF coords[Coordinator(r)] = Nil THEN "dial" ELSE "stream")
    /\ UNCHANGED <<phase, activeCoordinator, coords, snapshot>>
    /\ UNCHANGED <<chanVars, connVars, epVars, jobVars>>

(* An attempt has failed: the loop goes on with the next coordinator.      *)
NextAttempt(r) ==
    /\ tries' = [tries EXCEPT ![r] = @ + 1]
    /\ Goto(r, "attempt")
-----------------------------------------------------------------------------
(* discover()                                                              *)

(* The factory makes the coordinator connection; under the lock it is      *)
(* stored, or closed when the client was closed meanwhile.                 *)
StoreCoordinator(r) ==
    /\ pc[r] = "dial"
    /\ Dial(Coordinator(r) \notin Borrowed)
    /\ IF Closed
       THEN /\ closes' = CloseCount({opened'} \cap owned')
            /\ NextAttempt(r)
            /\ UNCHANGED coords
       ELSE /\ coords' = [coords EXCEPT ![Coordinator(r)] = opened']
            /\ Goto(r, "stream")
            /\ UNCHANGED <<tries, closes>>
    /\ UNCHANGED <<phase, activeCoordinator, snapshot, start, todo, seen, snap>>
    /\ UNCHANGED <<chanVars, epVars>>

DialCoordinatorFails(r) ==
    /\ pc[r] = "dial"
    /\ DialNil \/ UNCHANGED connVars
    /\ NextAttempt(r)
    /\ UNCHANGED <<phase, activeCoordinator, coords, snapshot>>
    /\ UNCHANGED <<start, todo, seen, snap, chanVars, epVars>>

(* The stream breaks, times out or carries an answer that is refused.      *)
DiscoverFails(r) ==
    /\ pc[r] = "stream"
    /\ NextAttempt(r)
    /\ UNCHANGED <<phase, activeCoordinator, coords, snapshot>>
    /\ UNCHANGED <<start, todo, seen, snap, chanVars, connVars, epVars>>

Discovered(r) ==
    /\ pc[r] = "stream"
    /\ \E a \in Answers : /\ Accepted(a)
                          /\ todo' = [todo EXCEPT ![r] = Peers(a)]
    /\ Goto(r, "publish")
    /\ UNCHANGED <<phase, activeCoordinator, coords, snapshot>>
    /\ UNCHANGED <<start, tries, seen, snap, chanVars, connVars, epVars>>
-----------------------------------------------------------------------------
(* publish()                                                               *)

(* Fault (ClosedOnce): cleanup() takes the reused endpoints too.           *)
FaultCreated(r) == Entries(snap[r])

(* created: the endpoints of snap.targets that were not found in b.nodes.  *)
Created(r) == Entries(snap[r]) \ held[r]

(* Fault (PublishedWhole): conflicting peers are not noticed.              *)
FaultAddRoutes(r, p) ==
    /\ todo' = [todo EXCEPT ![r] = @ \ {p}]
    /\ seen' = [seen EXCEPT ![r] = @ \cup {p}]
    /\ Goto(r, "publish")
    /\ UNCHANGED <<phase, activeCoordinator, coords, snapshot, start, tries>>
    /\ UNCHANGED chanVars

(* The end of one turn of the loop over d.peers: the routes of p are added *)
(* unless they conflict with those of an earlier peer.                     *)
AddRoutes(r, p) ==
    /\ todo' = [todo EXCEPT ![r] = @ \ {p}]
    /\ seen' = [seen EXCEPT ![r] = @ \cup {p}]
    /\ Goto(r, IF Conflicting(seen'[r]) THEN "cleanup" ELSE "publish")
    /\ UNCHANGED <<phase, activeCoordinator, coords, snapshot, start, tries>>
    /\ UNCHANGED chanVars

Publishing(r, p) ==
    /\ pc[r] = "publish" /\ p \in todo[r]
    /\ FALSE \in AttemptErr(r)

(* p.Target is already an endpoint of the new snapshot.                    *)
PublishSeen(r, p) ==
    /\ Publishing(r, p)
    /\ snap[r][p.target] # Nil
    /\ AddRoutes(r, p)
    /\ UNCHANGED <<snap, connVars, epVars>>

(* Fault (SnapshotLive): the reused endpoint is not pinned.                *)
FaultPublishReuse(r, p) ==
    /\ Publishing(r, p)
    /\ snap[r][p.target] = Nil /\ nodes[p.target] # Nil
    /\ snap' = [snap EXCEPT ![r][p.target] = nodes[p.target]]
    /\ AddRoutes(r, p)
    /\ UNCHANGED <<connVars, epVars>>

(* An endpoint of b.nodes is reused and pinned until publish() returns.    *)
PublishReuse(r, p) ==
    /\ Publishing(r, p)
    /\ snap[r][p.target] = Nil /\ nodes[p.target] # Nil
    /\ Pin(r, {nodes[p.target]})
    /\ snap' = [snap EXCEPT ![r][p.target] = nodes[p.target]]
    /\ AddRoutes(r, p)
    /\ UNCHANGED <<connVars, active, epClosed, nodes>>

(* A new endpoint is dialled.                                              *)
PublishDial(r, p) ==
    /\ Publishing(r, p)
    /\ snap[r][p.target] = Nil /\ nodes[p.target] = Nil
    /\ Dial(p.target \notin Borrowed)
    /\ snap' = [snap EXCEPT ![r][p.target] = opened']
    /\ AddRoutes(r, p)
    /\ UNCHANGED <<closes, epVars>>

(* The factory fails for a new target.                                     *)
PublishDialFails(r, p) ==
    /\ Publishing(r, p)
    /\ snap[r][p.target] = Nil /\ nodes[p.target] = Nil
    /\ DialNil \/ UNCHANGED connVars
    /\ Goto(r, "cleanup")
    /\ UNCHANGED <<phase, activeCoordinator, coords, snapshot>>
    /\ UNCHANGED <<chanVars, epVars, jobVars>>

(* The attempt context has ended, there are no routes, or Close came first.*)
AbortPublish(r) ==
    /\ pc[r] = "publish"
    /\ \/ TRUE \in AttemptErr(r)
       \/ todo[r] = {} /\ (~HasRoutes(seen[r]) \/ Closed)
    /\ Goto(r, "cleanup")
    /\ UNCHANGED <<phase, activeCoordinator, coords, snapshot>>
    /\ UNCHANGED <<chanVars, connVars, epVars, jobVars>>

MayInstall(r) == ~Closed /\ FALSE \in AttemptErr(r)

(* The last lock section of publish(): the snapshot becomes current, what  *)
(* it no longer names is deactivated and, if nobody uses it, closed.       *)
Install(r) ==
    /\ pc[r] = "publish" /\ todo[r] = {} /\ HasRoutes(seen[r])
    /\ MayInstall(r)
    /\ snapshot' = snap[r]
    /\ active' = (active \ Entries(nodes)) \cup Entries(snap[r])
    /\ RetireLocked([t \in Targets |-> IF snap[r][t] # Nil THEN snap[r][t]
                                                           ELSE nodes[t]],
                    active', refs)
    /\ Goto(r, "installed")
    /\ UNCHANGED <<phase, activeCoordinator, coords, opened, owned, refs, held>>
    /\ UNCHANGED <<chanVars, jobVars>>

(* cleanup(): every connection made for the abandoned snapshot is closed.  *)
Cleanup(r) ==
    /\ pc[r] = "cleanup"
    /\ closes' = CloseCount(Created(r) \cap owned)
    /\ Goto(r, "abandoned")
    /\ UNCHANGED <<phase, activeCoordinator, coords, snapshot, opened, owned>>
    /\ UNCHANGED <<chanVars, epVars, jobVars>>

(* publish() returns nil: its pins go, the coordinator becomes the active  *)
(* one, and refresh() returns.                                             *)
PublishOk(r) ==
    /\ pc[r] = "installed"
    /\ UnpinAndRetire(r)
    /\ activeCoordinator' = Index(r)
    /\ gate' = None
    /\ ResetJob(r)
    /\ Goto(r, Returned(r))
    /\ UNCHANGED <<phase, wake, unserved, coords, snapshot, opened, owned>>

(* publish() returns an error: its pins go, the next coordinator is tried. *)
PublishFailed(r) ==
    /\ pc[r] = "abandoned"
    /\ UnpinAndRetire(r)
    /\ NextAttempt(r)
    /\ todo' = [todo EXCEPT ![r] = {}] /\ seen' = [seen EXCEPT ![r] = {}]
    /\ snap' = [snap EXCEPT ![r] = NoTargets]
    /\ UNCHANGED <<phase, activeCoordinator, coords, snapshot, opened, owned>>
    /\ UNCHANGED <<chanVars, start>>
-----------------------------------------------------------------------------
(* loop()                                                                  *)

LoopTick ==
    /\ pc[Loop] = "select"
    /\ Goto(Loop, "enter")
    /\ UNCHANGED <<phase, activeCoordinator, coords, snapshot>>
    /\ UNCHANGED <<chanVars, connVars, epVars, jobVars>>

LoopWake ==
    /\ pc[Loop] = "select" /\ wake
    /\ wake' = FALSE
    /\ Goto(Loop, "enter")
    /\ UNCHANGED <<phase, gate, unserved, activeCoordinator, coords, snapshot>>
    /\ UNCHANGED <<connVars, epVars, jobVars>>

LoopExit ==
    /\ pc[Loop] = "select" /\ LifeDone
    /\ Goto(Loop, "exited")
    /\ UNCHANGED <<phase, activeCoordinator, coords, snapshot>>
    /\ UNCHANGED <<chanVars, connVars, epVars, jobVars>>
-----------------------------------------------------------------------------
(* run(): readiness, pinning, the refresh request, unpinning.              *)

StartRun(c) ==
    /\ pc[c] = "idle" /\ ~LifeDone
    /\ Goto(c, "wait")
    /\ UNCHANGED <<phase, activeCoordinator, coords, snapshot>>
    /\ UNCHANGED <<chanVars, connVars, epVars, jobVars>>

(* waitReady() fails: the context of the call or the client has ended.     *)
WaitFails(c) ==
    /\ pc[c] = "wait"
    /\ Goto(c, "idle")
    /\ UNCHANGED <<phase, activeCoordinator, coords, snapshot>>
    /\ UNCHANGED <<chanVars, connVars, epVars, jobVars>>

PinSnapshot(c) ==
    /\ pc[c] = "wait" /\ Ready /\ ~Closed
    /\ Pin(c, Entries(snapshot))
    /\ Goto(c, "pinned")
    /\ UNCHANGED <<phase, activeCoordinator, coords, snapshot>>
    /\ UNCHANGED <<active, epClosed, nodes, chanVars, connVars, jobVars>>

(* Fault (RefreshServed): an unbuffered wake channel, so the token is lost *)
(* unless the loop is waiting for it.                                      *)
FaultRequestRefresh(c) ==
    /\ pc[c] = "pinned"
    /\ wake' = (wake \/ pc[Loop] = "select")
    /\ unserved' = TRUE
    /\ Goto(c, "retrying")
    /\ UNCHANGED <<phase, gate, activeCoordinator, coords, snapshot>>
    /\ UNCHANGED <<connVars, epVars, jobVars>>

(* The first attempt came back Unavailable: a token is put in the wake     *)
(* channel unless one is there already.                                    *)
RequestRefresh(c) ==
    /\ pc[c] = "pinned"
    /\ wake' = TRUE
    /\ unserved' = TRUE
    /\ Goto(c, "retrying")
    /\ UNCHANGED <<phase, gate, activeCoordinator, coords, snapshot>>
    /\ UNCHANGED <<connVars, epVars, jobVars>>

EndRun(c) ==
    /\ pc[c] \in {"pinned", "retrying"}
    /\ UnpinAndRetire(c)
    /\ Goto(c, "idle")
    /\ UNCHANGED <<phase, activeCoordinator, coords, snapshot, opened, owned>>
    /\ UNCHANGED <<chanVars, jobVars>>
-----------------------------------------------------------------------------
(* close(), once                                                           *)

MarkClosed ==
    /\ phase = "open"
    /\ phase' = "marked"
    /\ UNCHANGED <<pc, activeCoordinator, coords, snapshot>>
    /\ UNCHANGED <<chanVars, connVars, epVars, jobVars>>

(* Fault (CloseCompletes): <-b.done before b.cancel().                     *)
FaultCancelLife ==
    /\ phase = "marked" /\ pc[Loop] = "exited"
    /\ phase' = "canceled"
    /\ UNCHANGED <<pc, activeCoordinator, coords, snapshot>>
    /\ UNCHANGED <<chanVars, connVars, epVars, jobVars>>

CancelLife ==
    /\ phase = "marked"
    /\ phase' = "canceled"
    /\ UNCHANGED <<pc, activeCoordinator, coords, snapshot>>
    /\ UNCHANGED <<chanVars, connVars, epVars, jobVars>>

(* Fault (NoLeak): close() does not wait for the refreshes of callers.     *)
FaultWorkDone == pc[Loop] = "exited"

(* <-b.done and b.work.Wait(): "enter" precedes work.Add and finds the     *)
(* client closed.                                                          *)
WorkDone ==
    /\ pc[Loop] = "exited"
    /\ \A r \in Refreshers : pc[r] = "enter" \/ ~InRefresh(r)

Release ==
    /\ phase = "canceled" /\ WorkDone
    /\ phase' = "released"
    /\ closes' = CloseCount(owned \cap ((Entries(nodes) \ epClosed)
                                        \cup Entries(coords)))
    /\ epClosed' = epClosed \cup Entries(nodes)
    /\ UNCHANGED <<pc, activeCoordinator, coords, snapshot, opened, owned>>
    /\ UNCHANGED <<refs, active, held, nodes, chanVars, jobVars>>
-----------------------------------------------------------------------------
RefreshStep(r) ==
    \/ EnterRefresh(r) \/ ReturnRefresh(r)
    \/ BeginAttempt(r) \/ StoreCoordinator(r) \/ DialCoordinatorFails(r)
    \/ DiscoverFails(r) \/ Discovered(r)
    \/ \E p \in todo[r] : \/ PublishSeen(r, p) \/ PublishReuse(r, p)
                          \/ PublishDial(r, p) \/ PublishDialFails(r, p)
    \/ AbortPublish(r) \/ Install(r) \/ Cleanup(r)
    \/ PublishOk(r) \/ PublishFailed(r)

RunStep(c) == WaitFails(c) \/ PinSnapshot(c) \/ RequestRefresh(c) \/ EndRun(c)

Next ==
    \/ \E r \in Refreshers : \/ CallRefresh(r) \/ AcquireGate(r)
                             \/ GateCanceled(r) \/ RefreshStep(r)
    \/ LoopTick \/ LoopWake \/ LoopExit
    \/ \E c \in Calls : StartRun(c) \/ RunStep(c)
    \/ MarkClosed \/ CancelLife \/ Release

Spec == Init /\ [][Next]_vars

(* A refresh in progress ends: discovery is bounded by DiscoveryTimeout,   *)
(* which NewSmartClient makes positive.  A waiter on the gate is served in *)
(* turn (Go channels queue their senders), and cancelling life ends its    *)
(* wait.  A call ends: its context has a deadline.  select chooses at      *)
(* random among the ready cases, so the loop does not ignore life forever. *)
(* Nothing is assumed of callers, of the ticker or of whether Close is     *)
(* called.                                                                 *)
Fairness ==
    /\ \A r \in Refreshers : /\ WF_vars(RefreshStep(r))
                             /\ SF_vars(AcquireGate(r))
                             /\ WF_vars(LifeDone /\ GateCanceled(r))
    /\ WF_vars(LoopWake) /\ SF_vars(LoopExit)
    /\ \A c \in Calls : WF_vars(EndRun(c))
    /\ WF_vars(CancelLife) /\ WF_vars(Release)

FairSpec == Spec /\ Fairness
-----------------------------------------------------------------------------
Labels == {"idle", "enter", "gate", "attempt", "dial", "stream", "publish",
           "installed", "cleanup", "abandoned", "select", "exited",
           "wait", "pinned", "retrying"}
ConnOrNil == Conns \cup {Nil}
AddressedPeer == {p \in Peer : p.target # NoTarget}

(* Every variable has its type; in particular no reference count is        *)
(* negative and activeCoordinator indexes the coordinator list (refresh).  *)
TypeOK ==
    /\ phase \in {"open", "marked", "canceled", "released"}
    /\ pc \in [Procs -> Labels]
    /\ gate \in Refreshers \cup {None}
    /\ wake \in BOOLEAN /\ unserved \in BOOLEAN
    /\ activeCoordinator \in 0..(NumCoordinators - 1)
    /\ coords \in [CoordinatorAddr -> ConnOrNil]
    /\ nodes \in [Targets -> ConnOrNil] /\ snapshot \in [Targets -> ConnOrNil]
    /\ opened \in 0..MaxConns /\ owned \subseteq 1..opened
    /\ closes \in [Conns -> Nat] /\ refs \in [Conns -> Nat]
    /\ active \subseteq 1..opened /\ epClosed \subseteq 1..opened
    /\ held \in [Procs -> SUBSET Conns]
    /\ start \in [Refreshers -> 0..(NumCoordinators - 1)]
    /\ tries \in [Refreshers -> 0..NumCoordinators]
    /\ todo \in [Refreshers -> SUBSET AddressedPeer]
    /\ seen \in [Refreshers -> SUBSET AddressedPeer]
    /\ snap \in [Refreshers -> [Targets -> ConnOrNil]]

(* Until Close releases the connections, no endpoint that a call or a      *)
(* publication has counted in refs is closed (retireLocked against run and *)
(* publish).                                                               *)
HeldOpen ==
    phase # "released" =>
        \A p \in Procs : \A e \in held[p] : e \notin epClosed /\ closes[e] = 0

(* Connection.Close is called at most once on each connection, and never   *)
(* on one the factory handed out without a Close (retireLocked, cleanup,   *)
(* discover and close together).                                           *)
ClosedOnce ==
    \A c \in Conns : closes[c] <= 1 /\ (c \notin owned => closes[c] = 0)

(* An open connection can always be reached by whoever must close it: it   *)
(* is a coordinator's, an endpoint's, or one publish() has just made; and  *)
(* once Close has returned, everything owned is closed.                    *)
NoLeak ==
    \A c \in owned : closes[c] = 0 =>
        /\ phase # "released"
        /\ \/ c \in Entries(coords) \cup Entries(nodes)
           \/ \E r \in Refreshers : c \in Created(r)

(* What a call would pin now is usable: every endpoint of the current      *)
(* snapshot is the registered one of its target, active and not closed     *)
(* (publish against retireLocked).                                         *)
SnapshotLive ==
    phase # "released" =>
        \A t \in Targets : snapshot[t] # Nil =>
            /\ nodes[t] = snapshot[t]
            /\ snapshot[t] \in active \ epClosed
            /\ closes[snapshot[t]] = 0

(* An endpoint that has left the topology is kept only while somebody      *)
(* holds it: whoever drops the last reference closes it (run and publish). *)
RetiredPromptly ==
    \A t \in Targets : nodes[t] # Nil /\ nodes[t] \notin active =>
        \E p \in Procs : nodes[t] \in held[p]

(* What publish() found in b.nodes in one lock section still holds when a  *)
(* later one installs the result: a reused endpoint is still registered    *)
(* and nobody has registered a target for which a connection was made.     *)
ResolutionFresh ==
    \A r \in Refreshers : pc[r] = "publish" =>
        \A t \in Targets : snap[r][t] # Nil =>
            IF snap[r][t] \in held[r] THEN nodes[t] = snap[r][t]
                                      ELSE nodes[t] = Nil

(* A snapshot is replaced only before Close, and only by the whole of one  *)
(* coordinator answer that has routes and no conflicts: any failure leaves *)
(* the last good one (publish, SmartClient.Refresh).                       *)
PublishedWhole ==
    [][snapshot' # snapshot =>
        /\ ~Closed
        /\ \E r \in Refreshers, a \in Answers :
              /\ gate = r /\ seen[r] = Peers(a)
              /\ Accepted(a) /\ HasRoutes(Peers(a)) /\ ~Conflicting(Peers(a))
              /\ {t \in Targets : snapshot'[t] # Nil} =
                    {p.target : p \in Peers(a)}]_vars

(* A refresh requested by a failed call starts after the request, unless   *)
(* the client is closed (requestRefresh and loop).                         *)
RefreshServed == unserved ~> (~unserved \/ Closed)

(* Close waits for the loop and for every refresh, and returns.            *)
CloseCompletes == Closed ~> phase = "released"

(* An endpoint that has left the topology is closed, or comes back.        *)
RetiredIsClosed ==
    \A c \in Conns : c \in Entries(nodes) \ active
                        ~> (c \in epClosed \/ c \in active)
=============================================================================

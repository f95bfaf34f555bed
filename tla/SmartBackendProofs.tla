------------------------- MODULE SmartBackendProofs -------------------------
(***************************************************************************)
(* IInv is an invariant of SmartBackend for every number of coordinators,  *)
(* calls, refreshers and connections, and with it the safety properties    *)
(* hold and SmartBackend implements Leases.                                *)
(***************************************************************************)
EXTENDS SmartBackendLeases, FiniteSetTheorems, TLAPS

-----------------------------------------------------------------------------
(* Facts about the constants.                                              *)

(* There are finitely many goroutines.                                     *)
LEMMA ProcsFinite == IsFiniteSet(Procs)
  <1>1. IsFiniteSet({Loop})
    BY FS_Singleton
  <1>2. IsFiniteSet(Users \cup {Loop})
    BY <1>1, FS_Union, BackendAssumption
  <1> QED
    BY <1>2, FS_Union, BackendAssumption DEF Procs, Refreshers

(* The goroutines are told apart and an empty gate is none of them.        *)
LEMMA ProcFacts ==
  /\ Calls \cap Refreshers = {} /\ Loop \in Refreshers
  /\ None \notin Refreshers /\ Calls \subseteq Procs /\ Refreshers \subseteq Procs
  BY BackendAssumption DEF Refreshers, Procs

(* Connections are the numbers from 1 to MaxConns.                         *)
LEMMA ConnFacts ==
  ASSUME TypeOK
  PROVE  /\ opened \in Nat /\ MaxConns \in Nat /\ opened <= MaxConns
         /\ 1..opened \subseteq Conns /\ owned \subseteq Conns
         /\ active \subseteq Conns /\ epClosed \subseteq Conns
         /\ Nil \notin Conns
         /\ \A c \in Conns : c \in Nat /\ (c \in 1..opened <=> c <= opened)
  BY BackendAssumption DEF TypeOK, Conns, Nil

(* The coordinator of an attempt is one of the list.                       *)
LEMMA IndexType ==
  ASSUME TypeOK, NEW r \in Refreshers
  PROVE  /\ NumCoordinators \in Nat \ {0}
         /\ Index(r) \in 0..(NumCoordinators - 1)
         /\ Coordinator(r) \in CoordinatorAddr
  <1>1. NumCoordinators \in Nat \ {0}
    BY BackendAssumption DEF NumCoordinators
  <1>2. start[r] \in Nat /\ tries[r] \in Nat
    BY <1>1 DEF TypeOK
  <1>3. Index(r) \in 0..(NumCoordinators - 1)
    BY <1>1, <1>2 DEF Index
  <1>4. Index(r) + 1 \in DOMAIN coordinators
    BY <1>1, <1>3, BackendAssumption DEF NumCoordinators
  <1> QED
    BY <1>1, <1>3, <1>4 DEF Coordinator, CoordinatorAddr
-----------------------------------------------------------------------------
(* Reference counts.                                                       *)

(* The holders of an endpoint are finitely many.                           *)
LEMMA HoldersFinite ==
  ASSUME NEW e
  PROVE  IsFiniteSet(Holders(e)) /\ Cardinality(Holders(e)) \in Nat
  <1>1. Holders(e) \subseteq Procs
    BY DEF Holders
  <1> QED
    BY <1>1, ProcsFinite, FS_Subset, FS_CardinalityType

(* refs[e] is positive exactly when somebody holds e.                      *)
LEMMA RefsPositive ==
  ASSUME RefsExact, NEW e \in Conns
  PROVE  refs[e] = 0 <=> \A p \in Procs : e \notin held[p]
  <1>1. refs[e] = 0 <=> Holders(e) = {}
    BY HoldersFinite, FS_EmptySet DEF RefsExact
  <1> QED
    BY <1>1 DEF Holders

(* Pin() keeps the counts exact.                                           *)
LEMMA PinRefs ==
  ASSUME TypeOK, RefsExact, NEW p \in Procs, NEW E \in SUBSET Conns,
         E \cap held[p] = {}, Pin(p, E)
  PROVE  RefsExact'
  <1> SUFFICES ASSUME NEW e \in Conns
               PROVE  refs'[e] = Cardinality(Holders(e)')
    BY DEF RefsExact
  <1>1. CASE e \in E
    <2>1. Holders(e)' = Holders(e) \cup {p} /\ p \notin Holders(e)
      BY <1>1 DEF Pin, Holders, TypeOK
    <2>2. Cardinality(Holders(e)') = Cardinality(Holders(e)) + 1
      BY <2>1, HoldersFinite, FS_AddElement
    <2> QED
      BY <2>2, <1>1 DEF Pin, RefsExact
  <1>2. CASE e \notin E
    <2>1. Holders(e)' = Holders(e)
      BY <1>2 DEF Pin, Holders, TypeOK
    <2> QED
      BY <2>1, <1>2 DEF Pin, RefsExact
  <1> QED
    BY <1>1, <1>2

(* Dropping everything a goroutine holds keeps the counts exact.           *)
LEMMA UnpinRefs ==
  ASSUME TypeOK, RefsExact, NEW p \in Procs,
         refs' = [e \in Conns |-> IF e \in held[p] THEN refs[e] - 1 ELSE refs[e]],
         held' = [held EXCEPT ![p] = {}]
  PROVE  RefsExact'
  <1> SUFFICES ASSUME NEW e \in Conns
               PROVE  refs'[e] = Cardinality(Holders(e)')
    BY DEF RefsExact
  <1>1. CASE e \in held[p]
    <2>1. Holders(e)' = Holders(e) \ {p} /\ p \in Holders(e)
      BY <1>1 DEF Holders, TypeOK
    <2>2. Cardinality(Holders(e)') = Cardinality(Holders(e)) - 1
      BY <2>1, HoldersFinite, FS_RemoveElement
    <2> QED
      BY <2>2, <1>1 DEF RefsExact
  <1>2. CASE e \notin held[p]
    <2>1. Holders(e)' = Holders(e)
      BY <1>2 DEF Holders, TypeOK
    <2> QED
      BY <2>1, <1>2 DEF RefsExact
  <1> QED
    BY <1>1, <1>2

(* The counts depend on refs and held only, and are natural numbers.       *)
LEMMA RefsNat ==
  ASSUME RefsExact, NEW D, refs \in [Conns -> D]
  PROVE  refs \in [Conns -> Nat]
  BY HoldersFinite DEF RefsExact
-----------------------------------------------------------------------------
(* Steps that touch no connection and no endpoint.                         *)

(* Such a step keeps the invariant when it keeps the types, the gate, the  *)
(* pins and the dialling rule, and enters publish() with nothing resolved. *)
LEMMA ControlStep ==
  ASSUME Registry,
         UNCHANGED <<coords, nodes, snapshot, opened, owned, closes, refs,
                     active, epClosed, held, snap>>,
         TypeOK', Gated', Trying', Unpinned', DialNeeded',
         \A r \in Refreshers :
            /\ pc'[r] = "publish" => pc[r] = "publish" \/ snap[r] = NoTargets
            /\ pc'[r] = "cleanup" => pc[r] \in {"publish", "cleanup"}
            /\ pc'[r] = "installed" => pc[r] = "installed"
            /\ pc'[r] = "abandoned" => pc[r] = "abandoned",
         phase = "released" <=> phase' = "released",
         phase = "released" =>
            \A r \in Refreshers : pc'[r] \notin GateLabels \cup {"gate"}
  PROVE  Registry'
  <1>1. Bounds' /\ Distinct' /\ HeldRegistered' /\ SnapshotRegistered'
    BY DEF Registry, Bounds, Distinct, HeldRegistered, SnapshotRegistered
  <1>2. RefsExact' /\ RetiredPromptly' /\ ClosedOnce' /\ RegisteredOpen'
    BY DEF Registry, RefsExact, Holders, RetiredPromptly, ClosedOnce, RegisteredOpen
  <1>3. ResolutionFresh'
    BY DEF Registry, ResolutionFresh, NoTargets
  <1>4. CreatedPrivate'
    BY DEF Registry, CreatedPrivate, NoTargets
  <1>5. CreatedClosed' /\ Installed' /\ Released'
    BY DEF Registry, CreatedClosed, Installed, Released
  <1>6. NoLeak'
    BY DEF Registry, NoLeak, Created, Entries
  <1> QED
    BY <1>1, <1>2, <1>3, <1>4, <1>5, <1>6 DEF Registry

(* The empty map from targets to endpoints.                                *)
LEMMA NoTargetsType == NoTargets \in [Targets -> ConnOrNil]
  BY DEF NoTargets, ConnOrNil

(* The peers of an accepted answer have addresses.                         *)
LEMMA PeersAddressed ==
  ASSUME NEW a \in Answers, Accepted(a)
  PROVE  Peers(a) \in SUBSET AddressedPeer
  BY BackendAssumption DEF Accepted, ValidPeer, Peers, RoutingInfoData, AddressedPeer

(* SmartClient.Refresh is called. *)
LEMMA CallRefreshStep ==
  ASSUME Registry, NEW r \in Refreshers, CallRefresh(r)
  PROVE  Registry'
  <1> USE ProcFacts
  <1>1. TypeOK'
    BY DEF Registry, TypeOK, CallRefresh, Goto, Returned, Labels, chanVars, connVars, epVars, jobVars
  <1>2. Gated' /\ Trying' /\ Unpinned'
    BY DEF Registry, TypeOK, Gated, Trying, Unpinned, CallRefresh, Goto, Returned, GateLabels,
           PublishLabels, chanVars, connVars, epVars, jobVars
  <1>3. DialNeeded'
    BY DEF Registry, TypeOK, DialNeeded, Coordinator, Index, CallRefresh, Goto, Returned,
           chanVars, connVars, epVars, jobVars
  <1> QED
    BY <1>1, <1>2, <1>3, ControlStep
    DEF Registry, TypeOK, Unpinned, Released, CallRefresh, Goto, Returned, GateLabels,
        PublishLabels, Closed, LifeDone, CtxErr, chanVars, connVars, epVars, jobVars

(* refresh() is entered. *)
LEMMA EnterRefreshStep ==
  ASSUME Registry, NEW r \in Refreshers, EnterRefresh(r)
  PROVE  Registry'
  <1> USE ProcFacts
  <1>1. TypeOK'
    BY DEF Registry, TypeOK, EnterRefresh, Goto, Returned, Labels, chanVars, connVars, epVars, jobVars
  <1>2. Gated' /\ Trying' /\ Unpinned'
    BY DEF Registry, TypeOK, Gated, Trying, Unpinned, EnterRefresh, Goto, Returned, GateLabels,
           PublishLabels, chanVars, connVars, epVars, jobVars
  <1>3. DialNeeded'
    BY DEF Registry, TypeOK, DialNeeded, Coordinator, Index, EnterRefresh, Goto, Returned,
           chanVars, connVars, epVars, jobVars
  <1> QED
    BY <1>1, <1>2, <1>3, ControlStep
    DEF Registry, TypeOK, Unpinned, Released, EnterRefresh, Goto, Returned, GateLabels,
        PublishLabels, Closed, LifeDone, CtxErr, chanVars, connVars, epVars, jobVars

(* refresh() gives up waiting. *)
LEMMA GateCanceledStep ==
  ASSUME Registry, NEW r \in Refreshers, GateCanceled(r)
  PROVE  Registry'
  <1> USE ProcFacts
  <1>1. TypeOK'
    BY DEF Registry, TypeOK, GateCanceled, Goto, Returned, Labels, chanVars, connVars, epVars, jobVars
  <1>2. Gated' /\ Trying' /\ Unpinned'
    BY DEF Registry, TypeOK, Gated, Trying, Unpinned, GateCanceled, Goto, Returned, GateLabels,
           PublishLabels, chanVars, connVars, epVars, jobVars
  <1>3. DialNeeded'
    BY DEF Registry, TypeOK, DialNeeded, Coordinator, Index, GateCanceled, Goto, Returned,
           chanVars, connVars, epVars, jobVars
  <1> QED
    BY <1>1, <1>2, <1>3, ControlStep
    DEF Registry, TypeOK, Unpinned, Released, GateCanceled, Goto, Returned, GateLabels,
        PublishLabels, Closed, LifeDone, CtxErr, chanVars, connVars, epVars, jobVars

(* refresh() enters the gate. *)
LEMMA AcquireGateStep ==
  ASSUME Registry, NEW r \in Refreshers, AcquireGate(r)
  PROVE  Registry'
  <1> USE ProcFacts
  <1>1. TypeOK'
    BY DEF Registry, TypeOK, AcquireGate, Goto, Returned, Labels, chanVars, connVars, epVars, jobVars, GateFree
  <1>2. Gated' /\ Trying' /\ Unpinned'
    BY DEF Registry, TypeOK, Gated, Trying, Unpinned, AcquireGate, Goto, Returned, GateLabels,
           PublishLabels, chanVars, connVars, epVars, jobVars, GateFree
  <1>3. DialNeeded'
    BY DEF Registry, TypeOK, DialNeeded, Coordinator, Index, AcquireGate, Goto, Returned,
           chanVars, connVars, epVars, jobVars, GateFree
  <1> QED
    BY <1>1, <1>2, <1>3, ControlStep
    DEF Registry, TypeOK, Unpinned, Released, AcquireGate, Goto, Returned, GateLabels,
        PublishLabels, Closed, LifeDone, CtxErr, chanVars, connVars, epVars, jobVars, GateFree

(* refresh() returns without a topology. *)
LEMMA ReturnRefreshStep ==
  ASSUME Registry, NEW r \in Refreshers, ReturnRefresh(r)
  PROVE  Registry'
  <1> USE ProcFacts
  <1>1. TypeOK'
    BY IndexType, NoTargetsType DEF Registry, TypeOK, ReturnRefresh, Goto, Returned, Labels, chanVars, connVars, epVars, jobVars, ResetJob
  <1>2. Gated' /\ Trying' /\ Unpinned'
    BY DEF Registry, TypeOK, Gated, Trying, Unpinned, ReturnRefresh, Goto, Returned, GateLabels,
           PublishLabels, chanVars, connVars, epVars, jobVars, ResetJob
  <1>3. DialNeeded'
    BY DEF Registry, TypeOK, DialNeeded, Coordinator, Index, ReturnRefresh, Goto, Returned,
           chanVars, connVars, epVars, jobVars, ResetJob
  <1>4. snap' = snap
    BY DEF Registry, TypeOK, Unpinned, ReturnRefresh, ResetJob, PublishLabels
  <1> QED
    BY <1>1, <1>2, <1>3, <1>4, ControlStep
    DEF Registry, TypeOK, Unpinned, Released, ReturnRefresh, Goto, Returned, GateLabels,
        PublishLabels, Closed, LifeDone, CtxErr, chanVars, connVars, epVars, jobVars, ResetJob

(* A coordinator's turn begins. *)
LEMMA BeginAttemptStep ==
  ASSUME Registry, NEW r \in Refreshers, BeginAttempt(r)
  PROVE  Registry'
  <1> USE ProcFacts
  <1>1. TypeOK'
    BY DEF Registry, TypeOK, BeginAttempt, Goto, Returned, Labels, chanVars, connVars, epVars, jobVars
  <1>2. Gated' /\ Trying' /\ Unpinned'
    BY DEF Registry, TypeOK, Gated, Trying, Unpinned, BeginAttempt, Goto, Returned, GateLabels,
           PublishLabels, chanVars, connVars, epVars, jobVars
  <1>3. DialNeeded'
    BY DEF Registry, TypeOK, DialNeeded, Coordinator, Index, BeginAttempt, Goto, Returned,
           chanVars, connVars, epVars, jobVars
  <1> QED
    BY <1>1, <1>2, <1>3, ControlStep
    DEF Registry, TypeOK, Unpinned, Released, BeginAttempt, Goto, Returned, GateLabels,
        PublishLabels, Closed, LifeDone, CtxErr, chanVars, connVars, epVars, jobVars

(* A discovery fails. *)
LEMMA DiscoverFailsStep ==
  ASSUME Registry, NEW r \in Refreshers, DiscoverFails(r)
  PROVE  Registry'
  <1> USE ProcFacts
  <1>1. TypeOK'
    BY IndexType DEF Registry, TypeOK, DiscoverFails, Goto, Returned, Labels, chanVars, connVars, epVars, jobVars, NextAttempt, Trying, GateLabels
  <1>2. Gated' /\ Trying' /\ Unpinned'
    BY DEF Registry, TypeOK, Gated, Trying, Unpinned, DiscoverFails, Goto, Returned, GateLabels,
           PublishLabels, chanVars, connVars, epVars, jobVars, NextAttempt, Trying, GateLabels
  <1>3. DialNeeded'
    BY DEF Registry, TypeOK, DialNeeded, Coordinator, Index, DiscoverFails, Goto, Returned,
           chanVars, connVars, epVars, jobVars, NextAttempt, Trying, GateLabels
  <1> QED
    BY <1>1, <1>2, <1>3, ControlStep
    DEF Registry, TypeOK, Unpinned, Released, DiscoverFails, Goto, Returned, GateLabels,
        PublishLabels, Closed, LifeDone, CtxErr, chanVars, connVars, epVars, jobVars, NextAttempt, Trying, GateLabels

(* A discovery succeeds. *)
LEMMA DiscoveredStep ==
  ASSUME Registry, NEW r \in Refreshers, Discovered(r)
  PROVE  Registry'
  <1> USE ProcFacts
  <1>1. TypeOK'
    BY PeersAddressed DEF Registry, TypeOK, Discovered, Goto, Returned, Labels, chanVars, connVars, epVars, jobVars
  <1>2. Gated' /\ Trying' /\ Unpinned'
    BY DEF Registry, TypeOK, Gated, Trying, Unpinned, Discovered, Goto, Returned, GateLabels,
           PublishLabels, chanVars, connVars, epVars, jobVars
  <1>3. DialNeeded'
    BY DEF Registry, TypeOK, DialNeeded, Coordinator, Index, Discovered, Goto, Returned,
           chanVars, connVars, epVars, jobVars
  <1> QED
    BY <1>1, <1>2, <1>3, ControlStep
    DEF Registry, TypeOK, Unpinned, Released, Discovered, Goto, Returned, GateLabels,
        PublishLabels, Closed, LifeDone, CtxErr, chanVars, connVars, epVars, jobVars

(* publish() gives up. *)
LEMMA AbortPublishStep ==
  ASSUME Registry, NEW r \in Refreshers, AbortPublish(r)
  PROVE  Registry'
  <1> USE ProcFacts
  <1>1. TypeOK'
    BY DEF Registry, TypeOK, AbortPublish, Goto, Returned, Labels, chanVars, connVars, epVars, jobVars
  <1>2. Gated' /\ Trying' /\ Unpinned'
    BY DEF Registry, TypeOK, Gated, Trying, Unpinned, AbortPublish, Goto, Returned, GateLabels,
           PublishLabels, chanVars, connVars, epVars, jobVars
  <1>3. DialNeeded'
    BY DEF Registry, TypeOK, DialNeeded, Coordinator, Index, AbortPublish, Goto, Returned,
           chanVars, connVars, epVars, jobVars
  <1> QED
    BY <1>1, <1>2, <1>3, ControlStep
    DEF Registry, TypeOK, Unpinned, Released, AbortPublish, Goto, Returned, GateLabels,
        PublishLabels, Closed, LifeDone, CtxErr, chanVars, connVars, epVars, jobVars

(* The ticker fires. *)
LEMMA LoopTickStep ==
  ASSUME Registry, LoopTick
  PROVE  Registry'
  <1> USE ProcFacts
  <1>1. TypeOK'
    BY DEF Registry, TypeOK, LoopTick, Goto, Returned, Labels, chanVars, connVars, epVars, jobVars
  <1>2. Gated' /\ Trying' /\ Unpinned'
    BY DEF Registry, TypeOK, Gated, Trying, Unpinned, LoopTick, Goto, Returned, GateLabels,
           PublishLabels, chanVars, connVars, epVars, jobVars
  <1>3. DialNeeded'
    BY DEF Registry, TypeOK, DialNeeded, Coordinator, Index, LoopTick, Goto, Returned,
           chanVars, connVars, epVars, jobVars
  <1> QED
    BY <1>1, <1>2, <1>3, ControlStep
    DEF Registry, TypeOK, Unpinned, Released, LoopTick, Goto, Returned, GateLabels,
        PublishLabels, Closed, LifeDone, CtxErr, chanVars, connVars, epVars, jobVars

(* The wake token is taken. *)
LEMMA LoopWakeStep ==
  ASSUME Registry, LoopWake
  PROVE  Registry'
  <1> USE ProcFacts
  <1>1. TypeOK'
    BY DEF Registry, TypeOK, LoopWake, Goto, Returned, Labels, chanVars, connVars, epVars, jobVars
  <1>2. Gated' /\ Trying' /\ Unpinned'
    BY DEF Registry, TypeOK, Gated, Trying, Unpinned, LoopWake, Goto, Returned, GateLabels,
           PublishLabels, chanVars, connVars, epVars, jobVars
  <1>3. DialNeeded'
    BY DEF Registry, TypeOK, DialNeeded, Coordinator, Index, LoopWake, Goto, Returned,
           chanVars, connVars, epVars, jobVars
  <1> QED
    BY <1>1, <1>2, <1>3, ControlStep
    DEF Registry, TypeOK, Unpinned, Released, LoopWake, Goto, Returned, GateLabels,
        PublishLabels, Closed, LifeDone, CtxErr, chanVars, connVars, epVars, jobVars

(* The loop ends. *)
LEMMA LoopExitStep ==
  ASSUME Registry, LoopExit
  PROVE  Registry'
  <1> USE ProcFacts
  <1>1. TypeOK'
    BY DEF Registry, TypeOK, LoopExit, Goto, Returned, Labels, chanVars, connVars, epVars, jobVars
  <1>2. Gated' /\ Trying' /\ Unpinned'
    BY DEF Registry, TypeOK, Gated, Trying, Unpinned, LoopExit, Goto, Returned, GateLabels,
           PublishLabels, chanVars, connVars, epVars, jobVars
  <1>3. DialNeeded'
    BY DEF Registry, TypeOK, DialNeeded, Coordinator, Index, LoopExit, Goto, Returned,
           chanVars, connVars, epVars, jobVars
  <1> QED
    BY <1>1, <1>2, <1>3, ControlStep
    DEF Registry, TypeOK, Unpinned, Released, LoopExit, Goto, Returned, GateLabels,
        PublishLabels, Closed, LifeDone, CtxErr, chanVars, connVars, epVars, jobVars

(* run() starts. *)
LEMMA StartRunStep ==
  ASSUME Registry, NEW c \in Calls, StartRun(c)
  PROVE  Registry'
  <1> USE ProcFacts
  <1>1. TypeOK'
    BY DEF Registry, TypeOK, StartRun, Goto, Returned, Labels, chanVars, connVars, epVars, jobVars
  <1>2. Gated' /\ Trying' /\ Unpinned'
    BY DEF Registry, TypeOK, Gated, Trying, Unpinned, StartRun, Goto, Returned, GateLabels,
           PublishLabels, chanVars, connVars, epVars, jobVars
  <1>3. DialNeeded'
    BY DEF Registry, TypeOK, DialNeeded, Coordinator, Index, StartRun, Goto, Returned,
           chanVars, connVars, epVars, jobVars
  <1> QED
    BY <1>1, <1>2, <1>3, ControlStep
    DEF Registry, TypeOK, Unpinned, Released, StartRun, Goto, Returned, GateLabels,
        PublishLabels, Closed, LifeDone, CtxErr, chanVars, connVars, epVars, jobVars

(* run() is not ready in time. *)
LEMMA WaitFailsStep ==
  ASSUME Registry, NEW c \in Calls, WaitFails(c)
  PROVE  Registry'
  <1> USE ProcFacts
  <1>1. TypeOK'
    BY DEF Registry, TypeOK, WaitFails, Goto, Returned, Labels, chanVars, connVars, epVars, jobVars
  <1>2. Gated' /\ Trying' /\ Unpinned'
    BY DEF Registry, TypeOK, Gated, Trying, Unpinned, WaitFails, Goto, Returned, GateLabels,
           PublishLabels, chanVars, connVars, epVars, jobVars
  <1>3. DialNeeded'
    BY DEF Registry, TypeOK, DialNeeded, Coordinator, Index, WaitFails, Goto, Returned,
           chanVars, connVars, epVars, jobVars
  <1> QED
    BY <1>1, <1>2, <1>3, ControlStep
    DEF Registry, TypeOK, Unpinned, Released, WaitFails, Goto, Returned, GateLabels,
        PublishLabels, Closed, LifeDone, CtxErr, chanVars, connVars, epVars, jobVars

(* A call requests a refresh. *)
LEMMA RequestRefreshStep ==
  ASSUME Registry, NEW c \in Calls, RequestRefresh(c)
  PROVE  Registry'
  <1> USE ProcFacts
  <1>1. TypeOK'
    BY DEF Registry, TypeOK, RequestRefresh, Goto, Returned, Labels, chanVars, connVars, epVars, jobVars
  <1>2. Gated' /\ Trying' /\ Unpinned'
    BY DEF Registry, TypeOK, Gated, Trying, Unpinned, RequestRefresh, Goto, Returned, GateLabels,
           PublishLabels, chanVars, connVars, epVars, jobVars
  <1>3. DialNeeded'
    BY DEF Registry, TypeOK, DialNeeded, Coordinator, Index, RequestRefresh, Goto, Returned,
           chanVars, connVars, epVars, jobVars
  <1> QED
    BY <1>1, <1>2, <1>3, ControlStep
    DEF Registry, TypeOK, Unpinned, Released, RequestRefresh, Goto, Returned, GateLabels,
        PublishLabels, Closed, LifeDone, CtxErr, chanVars, connVars, epVars, jobVars

(* close() sets closed. *)
LEMMA MarkClosedStep ==
  ASSUME Registry, MarkClosed
  PROVE  Registry'
  <1> USE ProcFacts
  <1>1. TypeOK'
    BY DEF Registry, TypeOK, MarkClosed, Goto, Returned, Labels, chanVars, connVars, epVars, jobVars
  <1>2. Gated' /\ Trying' /\ Unpinned'
    BY DEF Registry, TypeOK, Gated, Trying, Unpinned, MarkClosed, Goto, Returned, GateLabels,
           PublishLabels, chanVars, connVars, epVars, jobVars
  <1>3. DialNeeded'
    BY DEF Registry, TypeOK, DialNeeded, Coordinator, Index, MarkClosed, Goto, Returned,
           chanVars, connVars, epVars, jobVars
  <1> QED
    BY <1>1, <1>2, <1>3, ControlStep
    DEF Registry, TypeOK, Unpinned, Released, MarkClosed, Goto, Returned, GateLabels,
        PublishLabels, Closed, LifeDone, CtxErr, chanVars, connVars, epVars, jobVars

(* close() cancels life. *)
LEMMA CancelLifeStep ==
  ASSUME Registry, CancelLife
  PROVE  Registry'
  <1> USE ProcFacts
  <1>1. TypeOK'
    BY DEF Registry, TypeOK, CancelLife, Goto, Returned, Labels, chanVars, connVars, epVars, jobVars
  <1>2. Gated' /\ Trying' /\ Unpinned'
    BY DEF Registry, TypeOK, Gated, Trying, Unpinned, CancelLife, Goto, Returned, GateLabels,
           PublishLabels, chanVars, connVars, epVars, jobVars
  <1>3. DialNeeded'
    BY DEF Registry, TypeOK, DialNeeded, Coordinator, Index, CancelLife, Goto, Returned,
           chanVars, connVars, epVars, jobVars
  <1> QED
    BY <1>1, <1>2, <1>3, ControlStep
    DEF Registry, TypeOK, Unpinned, Released, CancelLife, Goto, Returned, GateLabels,
        PublishLabels, Closed, LifeDone, CtxErr, chanVars, connVars, epVars, jobVars
-----------------------------------------------------------------------------
(* retireLocked() and the deferred functions.                              *)

(* What a map of endpoints must satisfy for retireLocked() to be safe.     *)
MapOpen(nds) ==
    /\ nds \in [Targets -> ConnOrNil]
    /\ \A t, u \in Targets : nds[t] = nds[u] /\ nds[t] # Nil => t = u
    /\ \A t \in Targets : nds[t] # Nil =>
          IF phase = "released" THEN nds[t] \in epClosed
          ELSE nds[t] \notin epClosed /\ closes[nds[t]] = 0

(* What retireLocked() then does.                                          *)
Retirement(nds, act, rfs) ==
    /\ nodes' \in [Targets -> ConnOrNil] /\ closes' \in [Conns -> Nat]
    /\ \A t \in Targets : nodes'[t] \in {nds[t], Nil}
    /\ \A t \in Targets : nds[t] # Nil /\ nodes'[t] = Nil =>
          /\ nds[t] \notin act /\ rfs[nds[t]] = 0
          /\ phase # "released" /\ nds[t] \in owned => closes'[nds[t]] # 0
    /\ \A t \in Targets : nodes'[t] # Nil =>
          /\ nodes'[t] \in act \/ rfs[nodes'[t]] # 0
          /\ closes'[nodes'[t]] = closes[nodes'[t]]
          /\ nodes'[t] \in epClosed' <=> nodes'[t] \in epClosed
    /\ \A c \in Conns : (\A t \in Targets : nds[t] # c) =>
          /\ closes'[c] = closes[c]
          /\ c \in epClosed' <=> c \in epClosed
    /\ \A c \in Conns : closes'[c] # closes[c] =>
          closes[c] = 0 /\ closes'[c] = 1 /\ c \in owned
    /\ \A c \in Conns : closes[c] # 0 => closes'[c] # 0
    /\ epClosed \subseteq epClosed'
    /\ epClosed' \subseteq epClosed \cup ({nds[t] : t \in Targets} \ {Nil})

(* retireLocked() closes what it removes, once, and nothing else.          *)
LEMMA RetireEffect ==
  ASSUME TypeOK, NEW nds, NEW act, NEW rfs, MapOpen(nds),
         RetireLocked(nds, act, rfs)
  PROVE  Retirement(nds, act, rfs)
  <1> DEFINE T == Retirable(nds, act, rfs)
             E == {nds[t] : t \in T}
  <1>1. /\ nodes' = [t \in Targets |-> IF t \in T THEN Nil ELSE nds[t]]
        /\ closes' = CloseCount((E \ epClosed) \cap owned)
        /\ epClosed' = epClosed \cup E
    BY DEF RetireLocked
  <1>2. /\ T \subseteq Targets
        /\ \A t \in Targets : t \in T <=> /\ nds[t] # Nil /\ nds[t] \notin act
                                          /\ rfs[nds[t]] = 0
    BY DEF Retirable
  <1>3. \A t \in Targets : nds[t] # Nil => (nds[t] \in E <=> t \in T)
    BY <1>2 DEF MapOpen
  <1>4. E \subseteq Conns /\ Nil \notin E
    BY <1>2 DEF MapOpen, ConnOrNil, Conns, Nil
  <1>5. \A c \in Conns : closes[c] \in Nat /\
            closes'[c] = IF c \in E /\ c \notin epClosed /\ c \in owned
                         THEN closes[c] + 1 ELSE closes[c]
    BY <1>1 DEF CloseCount, TypeOK
  <1>6. \A c \in E : phase # "released" => closes[c] = 0 /\ c \notin epClosed
    BY <1>2 DEF MapOpen
  <1>7. \A c \in E : phase = "released" => c \in epClosed
    BY <1>2 DEF MapOpen
  <1> HIDE DEF T, E
  <1>8. nodes' \in [Targets -> ConnOrNil]
    BY <1>1 DEF MapOpen, ConnOrNil
  <1>9. closes' \in [Conns -> Nat]
    BY <1>1 DEF CloseCount, TypeOK
  <1>10. \A t \in Targets : nds[t] # Nil /\ nodes'[t] = Nil =>
          /\ nds[t] \notin act /\ rfs[nds[t]] = 0
          /\ phase # "released" /\ nds[t] \in owned => closes'[nds[t]] # 0
    <2> SUFFICES ASSUME NEW t \in Targets, nds[t] # Nil, nodes'[t] = Nil
                 PROVE  /\ nds[t] \notin act /\ rfs[nds[t]] = 0
                        /\ phase # "released" /\ nds[t] \in owned
                              => closes'[nds[t]] # 0
      OBVIOUS
    <2>1. t \in T
      BY <1>1
    <2> QED
      BY <2>1, <1>2, <1>3, <1>4, <1>5, <1>6
  <1>11. \A t \in Targets : nodes'[t] # Nil =>
          /\ nodes'[t] \in act \/ rfs[nodes'[t]] # 0
          /\ closes'[nodes'[t]] = closes[nodes'[t]]
          /\ nodes'[t] \in epClosed' <=> nodes'[t] \in epClosed
    <2> SUFFICES ASSUME NEW t \in Targets, nodes'[t] # Nil
                 PROVE  /\ nodes'[t] \in act \/ rfs[nodes'[t]] # 0
                        /\ closes'[nodes'[t]] = closes[nodes'[t]]
                        /\ nodes'[t] \in epClosed' <=> nodes'[t] \in epClosed
      OBVIOUS
    <2>1. t \notin T /\ nodes'[t] = nds[t] /\ nds[t] \in Conns
      BY <1>1 DEF MapOpen, ConnOrNil
    <2> QED
      BY <2>1, <1>1, <1>2, <1>3, <1>5
  <1>12. \A c \in Conns : (\A t \in Targets : nds[t] # c) => c \notin E
    BY <1>2 DEF E
  <1>13. E \subseteq {nds[t] : t \in Targets} \ {Nil}
    BY <1>2, <1>4 DEF E
  <1>14. \A c \in Conns : (\A t \in Targets : nds[t] # c) =>
          /\ closes'[c] = closes[c]
          /\ c \in epClosed' <=> c \in epClosed
    BY <1>12, <1>1, <1>5
  <1>15. \A c \in Conns : closes'[c] # closes[c] =>
          closes[c] = 0 /\ closes'[c] = 1 /\ c \in owned
    BY <1>5, <1>6, <1>7
  <1>16. \A c \in Conns : closes[c] # 0 => closes'[c] # 0
    BY <1>5
  <1>17. \A t \in Targets : nodes'[t] \in {nds[t], Nil}
    BY <1>1
  <1>18. /\ epClosed \subseteq epClosed'
         /\ epClosed' \subseteq epClosed \cup ({nds[t] : t \in Targets} \ {Nil})
    BY <1>1, <1>13
  <1> QED
    BY <1>8, <1>9, <1>10, <1>11, <1>14, <1>15, <1>16, <1>17, <1>18 DEF Retirement

(* What a deferred function preserves, for any goroutine.                  *)
LEMMA UnpinEffect ==
  ASSUME Registry, NEW p \in Procs, UnpinAndRetire(p),
         UNCHANGED <<phase, coords, snapshot, opened, owned>>
  PROVE  /\ Retirement(nodes, active, refs')
         /\ refs' \in [Conns -> Nat] /\ held' \in [Procs -> SUBSET Conns]
         /\ epClosed' \subseteq 1..opened /\ UNCHANGED active
         /\ RefsExact' /\ RetiredPromptly' /\ SnapshotRegistered' /\ ClosedOnce'
         /\ RegisteredOpen'
         /\ phase = "released" =>
               \A t \in Targets : nodes'[t] # Nil => nodes'[t] \in epClosed'
         /\ \A q \in Procs : q # p => held'[q] = held[q]
         /\ \A q \in Procs : \A e \in held'[q] : \E t \in Targets : nodes'[t] = e
         /\ \A q \in Procs, t \in Targets : nodes[t] \in held'[q] => nodes'[t] = nodes[t]
  <1>1. MapOpen(nodes)
    BY DEF Registry, TypeOK, MapOpen, Distinct, RegisteredOpen, Released
  <1>2. Retirement(nodes, active, refs')
    BY <1>1, RetireEffect DEF Registry, UnpinAndRetire
  <1>3. RefsExact'
    BY UnpinRefs DEF Registry, UnpinAndRetire
  <1>4. held' \in [Procs -> SUBSET Conns] /\ \A q \in Procs : q # p => held'[q] = held[q]
    BY DEF Registry, TypeOK, UnpinAndRetire
  <1>5. refs' \in [Conns -> Nat]
    <2>1. refs' \in [Conns -> Int]
      BY DEF Registry, TypeOK, UnpinAndRetire
    <2>2. \A e \in Conns : refs'[e] \in Nat
      <3> SUFFICES ASSUME NEW e \in Conns PROVE refs'[e] \in Nat
        OBVIOUS
      <3>1. refs[e] \in Nat /\ (e \in held[p] => refs[e] # 0)
        BY RefsPositive DEF Registry, TypeOK
      <3>2. refs'[e] = IF e \in held[p] THEN refs[e] - 1 ELSE refs[e]
        BY DEF UnpinAndRetire
      <3> QED
        BY <3>1, <3>2
    <2> QED
      BY <2>1, <2>2
  <1>6. \A e \in Conns : refs'[e] = 0 <=> \A q \in Procs : e \notin held'[q]
    <2> SUFFICES ASSUME NEW e \in Conns
                 PROVE  refs'[e] = 0 <=> \A q \in Procs : e \notin held'[q]
      OBVIOUS
    <2>1. refs'[e] = Cardinality(Holders(e)')
      BY <1>3 DEF RefsExact
    <2>2. Holders(e)' \subseteq Procs /\ IsFiniteSet(Holders(e)')
      BY ProcsFinite, FS_Subset DEF Holders
    <2>3. refs'[e] = 0 <=> Holders(e)' = {}
      BY <2>1, <2>2, FS_EmptySet
    <2> QED
      BY <2>3 DEF Holders
  <1>7. \A t \in Targets : nodes'[t] \in ConnOrNil /\ (nodes'[t] # Nil => nodes'[t] \in Conns)
    BY <1>2 DEF Retirement, ConnOrNil
  <1>8. RetiredPromptly'
    BY <1>2, <1>6, <1>7, SMTT(30) DEF Retirement, RetiredPromptly, UnpinAndRetire
  <1>9. SnapshotRegistered'
    BY <1>2 DEF Registry, SnapshotRegistered, Retirement, UnpinAndRetire
  <1>10. ClosedOnce'
    BY <1>2 DEF Registry, TypeOK, ClosedOnce, Retirement
  <1>11. RegisteredOpen'
    <2> SUFFICES ASSUME phase # "released"
                 PROVE  /\ \A t \in Targets : nodes'[t] # Nil =>
                              closes'[nodes'[t]] = 0 /\ nodes'[t] \notin epClosed'
                        /\ \A d \in CoordinatorAddr :
                              coords[d] # Nil => closes'[coords[d]] = 0
      BY DEF RegisteredOpen
    <2>1. \A t \in Targets : nodes'[t] # Nil =>
             closes'[nodes'[t]] = 0 /\ nodes'[t] \notin epClosed'
      BY <1>2 DEF Registry, RegisteredOpen, Retirement
    <2>2. \A d \in CoordinatorAddr : coords[d] # Nil => closes'[coords[d]] = 0
      BY <1>2 DEF Registry, TypeOK, ConnOrNil, Distinct, RegisteredOpen, Retirement
    <2> QED
      BY <2>1, <2>2
  <1>12. phase = "released" =>
            \A t \in Targets : nodes'[t] # Nil => nodes'[t] \in epClosed'
    BY <1>2 DEF Registry, Released, Retirement
  <1>13. \A q \in Procs, t \in Targets : nodes[t] \in held'[q] => nodes'[t] = nodes[t]
    BY <1>2, <1>4, <1>6 DEF Retirement, Conns, Nil
  <1>14. \A q \in Procs : \A e \in held'[q] : \E t \in Targets : nodes'[t] = e
    <2>1. \A q \in Procs : held'[q] \subseteq held[q]
      BY DEF Registry, TypeOK, UnpinAndRetire
    <2> QED
      BY <2>1, <1>13 DEF Registry, HeldRegistered
  <1>15. epClosed' \subseteq 1..opened
    <2>1. epClosed \subseteq 1..opened /\ TypeOK
      BY DEF Registry, TypeOK
    <2>2. \A t \in Targets : nodes[t] \in Conns \cup {Nil} /\ nodes[t] <= opened
      BY DEF Registry, TypeOK, Bounds, ConnOrNil
    <2>3. {nodes[t] : t \in Targets} \ {Nil} \subseteq 1..opened
      BY <2>1, <2>2, ConnFacts
    <2> QED
      BY <2>1, <2>3, <1>2 DEF Retirement
  <1> QED
    BY <1>2, <1>3, <1>4, <1>5, <1>8, <1>9, <1>10, <1>11, <1>12, <1>13, <1>14,
       <1>15 DEF UnpinAndRetire

(* A call ends.                                                            *)
LEMMA EndRunStep ==
  ASSUME Registry, NEW c \in Calls, EndRun(c)
  PROVE  Registry'
  <1> USE ProcFacts
  <1>1. c \in Procs /\ UnpinAndRetire(c) /\ c \notin Refreshers
    BY DEF EndRun
  <1>2. UNCHANGED <<phase, activeCoordinator, coords, snapshot, opened, owned,
                    gate, wake, unserved, start, tries, todo, seen, snap>>
    BY DEF EndRun, chanVars, jobVars
  <1>3. /\ Retirement(nodes, active, refs')
        /\ refs' \in [Conns -> Nat] /\ held' \in [Procs -> SUBSET Conns]
        /\ epClosed' \subseteq 1..opened /\ UNCHANGED active
        /\ RefsExact' /\ RetiredPromptly' /\ SnapshotRegistered' /\ ClosedOnce'
        /\ RegisteredOpen'
        /\ phase = "released" =>
              \A t \in Targets : nodes'[t] # Nil => nodes'[t] \in epClosed'
        /\ \A q \in Procs : q # c => held'[q] = held[q]
        /\ \A q \in Procs : \A e \in held'[q] : \E t \in Targets : nodes'[t] = e
        /\ \A q \in Procs, t \in Targets : nodes[t] \in held'[q] => nodes'[t] = nodes[t]
    BY <1>1, <1>2, UnpinEffect
  <1>4. pc' = [pc EXCEPT ![c] = "idle"] /\ held'[c] = {}
    BY DEF EndRun, Goto, UnpinAndRetire, Registry, TypeOK
  <1>5. \A r \in Refreshers : pc'[r] = pc[r] /\ held'[r] = held[r]
    BY <1>1, <1>3, <1>4 DEF Registry, TypeOK
  <1>6. TypeOK'
    BY <1>2, <1>3, <1>4 DEF Registry, TypeOK, Retirement, Labels
  <1>7. Bounds' /\ Distinct'
    <2>1. \A t \in Targets : nodes'[t] \in {nodes[t], Nil} /\ Nil <= opened
      BY <1>3, ConnFacts DEF Registry, Retirement, Nil
    <2>2. \A k \in Conns : k > opened => closes'[k] = 0
      <3>1. \A k \in Conns : k > opened => k \notin owned /\ closes[k] = 0
        BY ConnFacts DEF Registry, TypeOK, Bounds
      <3> QED
        BY <3>1, <1>3 DEF Retirement
    <2>3. Bounds'
      BY <1>2, <2>1, <2>2 DEF Registry, Bounds
    <2>4. Distinct'
      BY <1>2, <2>1 DEF Registry, Distinct
    <2> QED
      BY <2>3, <2>4
  <1>8. Gated' /\ Trying' /\ Unpinned' /\ DialNeeded'
    BY <1>1, <1>2, <1>3, <1>4, <1>5
    DEF Registry, TypeOK, Gated, Trying, Unpinned, DialNeeded, Coordinator, Index
  <1>9. HeldRegistered'
    BY <1>2, <1>3, <1>5 DEF Registry, HeldRegistered
  <1>10. ResolutionFresh'
    <2> SUFFICES ASSUME NEW r \in Refreshers, pc[r] = "publish",
                        NEW t \in Targets, snap[r][t] # Nil
                 PROVE  IF snap[r][t] \in held[r] THEN nodes'[t] = snap[r][t]
                                                  ELSE nodes'[t] = Nil
      BY <1>2, <1>5 DEF ResolutionFresh
    <2>1. CASE snap[r][t] \in held[r]
      BY <2>1, <1>3, <1>5 DEF Registry, ResolutionFresh
    <2>2. CASE snap[r][t] \notin held[r]
      BY <2>2, <1>3 DEF Registry, ResolutionFresh, Retirement
    <2> QED
      BY <2>1, <2>2
  <1>11. CreatedPrivate'
    <2> SUFFICES ASSUME NEW r \in Refreshers, pc[r] \in {"publish", "cleanup"},
                        NEW t \in Targets, snap[r][t] # Nil,
                        snap[r][t] \notin held[r]
                 PROVE  /\ closes'[snap[r][t]] = 0 /\ snap[r][t] \notin epClosed'
                        /\ \A u \in Targets : nodes'[u] # snap[r][t]
                        /\ \A d \in CoordinatorAddr : coords[d] # snap[r][t]
      BY <1>2, <1>5 DEF CreatedPrivate
    <2>1. /\ closes[snap[r][t]] = 0 /\ snap[r][t] \notin epClosed
          /\ \A u \in Targets : nodes[u] # snap[r][t]
          /\ \A d \in CoordinatorAddr : coords[d] # snap[r][t]
      BY DEF Registry, CreatedPrivate
    <2>2. snap[r][t] \in Conns
      BY DEF Registry, TypeOK, ConnOrNil
    <2> QED
      BY <2>1, <2>2, <1>3 DEF Retirement
  <1>12. CreatedClosed' /\ Installed'
    <2>1. \A k \in owned : closes[k] # 0 => closes'[k] # 0
      BY <1>3, ConnFacts DEF Registry, Retirement
    <2> QED
      BY <2>1, <1>2, <1>5 DEF Registry, CreatedClosed, Installed
  <1>13. Released'
    BY <1>2, <1>3, <1>5 DEF Registry, Released
  <1>14. NoLeak'
    <2> SUFFICES ASSUME NEW k \in owned, closes'[k] = 0
                 PROVE  /\ phase # "released"
                        /\ \/ k \in Entries(coords) \cup Entries(nodes')
                           \/ \E r \in Refreshers : k \in Created(r)
      BY <1>2, <1>5 DEF NoLeak, Created, Entries
    <2>1. k \in Conns
      BY ConnFacts DEF Registry
    <2>2. closes[k] = 0
      BY <2>1, <1>3 DEF Retirement
    <2>3. /\ phase # "released"
          /\ \/ k \in Entries(coords) \cup Entries(nodes)
             \/ \E r \in Refreshers : k \in Created(r)
      BY <2>2 DEF Registry, NoLeak
    <2>4. k \in Entries(nodes) => k \in Entries(nodes')
      BY <2>1, <2>3, <1>3 DEF Entries, Retirement, Registry, TypeOK, Conns, Nil
    <2> QED
      BY <2>3, <2>4
  <1> QED
    BY <1>3, <1>6, <1>7, <1>8, <1>9, <1>10, <1>11, <1>12, <1>13, <1>14 DEF Registry
-----------------------------------------------------------------------------
(* The steps of the refresher in the gate.                                 *)

(* It is alone, and the client is not yet released.                        *)
LEMMA AloneInGate ==
  ASSUME Registry, NEW r \in Refreshers, pc[r] \in GateLabels
  PROVE  /\ phase # "released" /\ gate = r
         /\ \A q \in Refreshers : q # r => /\ pc[q] \notin GateLabels
                                           /\ held[q] = {} /\ snap[q] = NoTargets
                                           /\ Created(q) = {}
  <1>1. phase # "released" /\ gate = r
    BY DEF Registry, Released, Gated
  <1>2. \A q \in Refreshers : q # r => pc[q] \notin GateLabels
    BY <1>1 DEF Registry, Gated
  <1>3. \A q \in Refreshers : q # r => held[q] = {} /\ snap[q] = NoTargets
    BY <1>2 DEF Registry, Unpinned, GateLabels, PublishLabels
  <1>4. \A q \in Refreshers : q # r => Created(q) = {}
    BY <1>3 DEF Created, Entries, NoTargets
  <1> QED
    BY <1>1, <1>2, <1>3, <1>4

(* publish() returns.                                                      *)
LEMMA PublishReturns ==
  ASSUME Registry, NEW r \in Refreshers, pc[r] \in {"installed", "abandoned"},
         UnpinAndRetire(r), UNCHANGED <<phase, coords, snapshot, opened, owned>>,
         snap' = [snap EXCEPT ![r] = NoTargets],
         NEW l \in {"idle", "select", "attempt"}, pc' = [pc EXCEPT ![r] = l],
         refs' \in [Conns -> Nat] => TypeOK', Gated', Trying'
  PROVE  Registry'
  <1> USE ProcFacts
  <1>1. /\ Retirement(nodes, active, refs')
        /\ refs' \in [Conns -> Nat] /\ held' \in [Procs -> SUBSET Conns]
        /\ epClosed' \subseteq 1..opened /\ UNCHANGED active
        /\ RefsExact' /\ RetiredPromptly' /\ SnapshotRegistered' /\ ClosedOnce'
        /\ RegisteredOpen'
        /\ \A q \in Procs : q # r => held'[q] = held[q]
        /\ \A q \in Procs : \A e \in held'[q] : \E t \in Targets : nodes'[t] = e
    BY UnpinEffect
  <1>2. /\ phase # "released"
        /\ \A q \in Refreshers : q # r => /\ pc[q] \notin GateLabels
                                          /\ held[q] = {} /\ snap[q] = NoTargets
                                          /\ Created(q) = {}
    BY AloneInGate DEF GateLabels
  <1>3. held'[r] = {} /\ TypeOK'
    BY <1>1 DEF UnpinAndRetire, Registry, TypeOK
  <1>4. \A q \in Refreshers : /\ pc'[q] \notin GateLabels \ {"attempt"}
                              /\ held'[q] = {} /\ snap'[q] = NoTargets
    BY <1>1, <1>2, <1>3 DEF GateLabels, Registry, TypeOK
  <1>5. Bounds' /\ Distinct'
    <2>1. \A t \in Targets : nodes'[t] \in {nodes[t], Nil} /\ Nil <= opened
      BY <1>1, ConnFacts DEF Registry, Retirement, Nil
    <2>2. \A k \in Conns : k > opened => closes'[k] = 0
      <3>1. \A k \in Conns : k > opened => k \notin owned /\ closes[k] = 0
        BY ConnFacts DEF Registry, TypeOK, Bounds
      <3> QED
        BY <3>1, <1>1 DEF Retirement
    <2>3. Bounds'
      BY <1>4, <2>1, <2>2 DEF Registry, Bounds, NoTargets
    <2>4. Distinct'
      BY <1>4, <2>1 DEF Registry, Distinct, NoTargets
    <2> QED
      BY <2>3, <2>4
  <1>6. Unpinned' /\ DialNeeded' /\ HeldRegistered'
    <2>1. \A c \in Calls : pc'[c] = pc[c] /\ held'[c] = held[c]
      BY <1>1 DEF Registry, TypeOK
    <2> QED
      BY <1>1, <1>4, <2>1
      DEF Registry, Unpinned, DialNeeded, HeldRegistered, GateLabels
  <1>7. ResolutionFresh' /\ CreatedPrivate' /\ CreatedClosed' /\ Installed'
    BY <1>4 DEF ResolutionFresh, CreatedPrivate, CreatedClosed, Installed, GateLabels
  <1>8. Released'
    BY <1>2 DEF Released
  <1>9. NoLeak'
    <2> SUFFICES ASSUME NEW k \in owned, closes'[k] = 0
                 PROVE  k \in Entries(coords) \cup Entries(nodes')
      BY <1>2 DEF NoLeak
    <2>1. k \in Conns /\ k # Nil
      BY ConnFacts DEF Registry
    <2>2. closes[k] = 0
      BY <2>1, <1>1 DEF Retirement
    <2>3. k \in Entries(coords) \cup Entries(nodes) \cup Created(r)
      BY <2>2, <1>2 DEF Registry, NoLeak
    <2>4. k \in Entries(nodes) => k \in Entries(nodes')
      BY <2>1, <1>1, <1>2 DEF Entries, Retirement, Registry, TypeOK
    <2>5. CASE k \in Created(r)
      <3>1. PICK t \in Targets : snap[r][t] = k /\ k \notin held[r]
        BY <2>5 DEF Created, Entries, Registry, TypeOK
      <3>2. pc[r] # "abandoned"
        BY <3>1, <2>2 DEF Registry, CreatedClosed
      <3>3. snapshot[t] = k
        BY <3>1, <3>2 DEF Registry, Installed
      <3>4. nodes[t] = k
        BY <3>3, <2>1 DEF Registry, SnapshotRegistered
      <3> QED
        BY <3>4, <2>1, <2>4 DEF Entries, Registry, TypeOK
    <2> QED
      BY <2>3, <2>4, <2>5
  <1> QED
    BY <1>1, <1>3, <1>5, <1>6, <1>7, <1>8, <1>9 DEF Registry

(* publish() has succeeded.                                                *)
LEMMA PublishOkStep ==
  ASSUME Registry, NEW r \in Refreshers, PublishOk(r)
  PROVE  Registry'
  <1> USE ProcFacts
  <1>1. UNCHANGED <<phase, coords, snapshot, opened, owned>>
    BY DEF PublishOk
  <1>2. /\ Retirement(nodes, active, refs') /\ held' \in [Procs -> SUBSET Conns]
        /\ epClosed' \subseteq 1..opened /\ UNCHANGED active
    BY <1>1, UnpinEffect DEF PublishOk
  <1>3. refs' \in [Conns -> Nat] => TypeOK'
    <2>1. /\ start' \in [Refreshers -> 0..(NumCoordinators - 1)]
          /\ tries' \in [Refreshers -> 0..NumCoordinators]
          /\ activeCoordinator' \in 0..(NumCoordinators - 1)
      BY IndexType DEF PublishOk, Registry, TypeOK, ResetJob
    <2>2. /\ todo' \in [Refreshers -> SUBSET AddressedPeer]
          /\ seen' \in [Refreshers -> SUBSET AddressedPeer]
          /\ snap' \in [Refreshers -> [Targets -> ConnOrNil]]
          /\ pc' \in [Procs -> Labels]
      BY NoTargetsType
      DEF PublishOk, Registry, TypeOK, ResetJob, Goto, Returned, Labels
    <2> QED
      BY <2>1, <2>2, <1>1, <1>2 DEF PublishOk, Registry, TypeOK, Retirement
  <1>4. Gated' /\ Trying'
    BY AloneInGate
    DEF PublishOk, Registry, TypeOK, Gated, Trying, ResetJob, Goto, Returned, GateLabels
  <1>5. Returned(r) \in {"idle", "select", "attempt"}
    BY DEF Returned
  <1>6. /\ pc[r] \in {"installed", "abandoned"} /\ UnpinAndRetire(r)
        /\ snap' = [snap EXCEPT ![r] = NoTargets]
        /\ pc' = [pc EXCEPT ![r] = Returned(r)]
    BY DEF PublishOk, ResetJob, Goto
  <1> QED
    BY <1>1, <1>3, <1>4, <1>5, <1>6, PublishReturns

(* publish() has failed.                                                   *)
LEMMA PublishFailedStep ==
  ASSUME Registry, NEW r \in Refreshers, PublishFailed(r)
  PROVE  Registry'
  <1> USE ProcFacts
  <1>1. UNCHANGED <<phase, coords, snapshot, opened, owned>>
    BY DEF PublishFailed
  <1>2. /\ Retirement(nodes, active, refs') /\ held' \in [Procs -> SUBSET Conns]
        /\ epClosed' \subseteq 1..opened /\ UNCHANGED active
    BY <1>1, UnpinEffect DEF PublishFailed
  <1>3. tries[r] + 1 \in 0..NumCoordinators
    BY IndexType, SMTT(30) DEF PublishFailed, Registry, TypeOK, Trying, GateLabels
  <1>4. refs' \in [Conns -> Nat] => TypeOK'
    <2>1. /\ tries' \in [Refreshers -> 0..NumCoordinators]
          /\ todo' \in [Refreshers -> SUBSET AddressedPeer]
          /\ seen' \in [Refreshers -> SUBSET AddressedPeer]
          /\ snap' \in [Refreshers -> [Targets -> ConnOrNil]]
          /\ pc' \in [Procs -> Labels]
      BY <1>3, NoTargetsType
      DEF PublishFailed, Registry, TypeOK, NextAttempt, Goto, Labels
    <2> QED
      BY <2>1, <1>1, <1>2 DEF PublishFailed, Registry, TypeOK, Retirement, chanVars
  <1>5. Gated' /\ Trying'
    BY AloneInGate
    DEF PublishFailed, Registry, TypeOK, Gated, Trying, NextAttempt, Goto, GateLabels,
        chanVars
  <1>6. /\ pc[r] \in {"installed", "abandoned"} /\ UnpinAndRetire(r)
        /\ snap' = [snap EXCEPT ![r] = NoTargets]
        /\ pc' = [pc EXCEPT ![r] = "attempt"]
    BY DEF PublishFailed, NextAttempt, Goto
  <1> QED
    BY <1>1, <1>4, <1>5, <1>6, PublishReturns

(* A topology is installed.                                                *)
LEMMA InstallStep ==
  ASSUME Registry, NEW r \in Refreshers, Install(r)
  PROVE  Registry'
  <1> USE ProcFacts
  <1> DEFINE nds == [t \in Targets |-> IF snap[r][t] # Nil THEN snap[r][t]
                                                           ELSE nodes[t]]
  <1>1. /\ pc[r] = "publish" /\ snapshot' = snap[r]
        /\ active' = (active \ Entries(nodes)) \cup Entries(snap[r])
        /\ RetireLocked(nds, active', refs)
        /\ pc' = [pc EXCEPT ![r] = "installed"]
        /\ UNCHANGED <<phase, activeCoordinator, coords, opened, owned, refs,
                       held, gate, wake, unserved, start, tries, todo, seen, snap>>
    BY DEF Install, Goto, chanVars, jobVars
  <1>2. /\ phase # "released" /\ gate = r
        /\ \A q \in Refreshers : q # r => /\ pc[q] \notin GateLabels
                                          /\ held[q] = {} /\ snap[q] = NoTargets
                                          /\ Created(q) = {}
    BY <1>1, AloneInGate DEF GateLabels
  <1>3. /\ snap[r] \in [Targets -> ConnOrNil] /\ nodes \in [Targets -> ConnOrNil]
        /\ \A t \in Targets : nds[t] = IF snap[r][t] # Nil THEN snap[r][t]
                                                           ELSE nodes[t]
        /\ nds \in [Targets -> ConnOrNil]
    BY DEF Registry, TypeOK
  <1>4. \A t \in Targets : nodes[t] # Nil => nds[t] = nodes[t]
    BY <1>1, <1>3 DEF Registry, ResolutionFresh
  <1>5. \A t \in Targets : nodes[t] = Nil /\ nds[t] # Nil =>
           /\ nds[t] = snap[r][t] /\ nds[t] \notin held[r]
           /\ closes[nds[t]] = 0 /\ nds[t] \notin epClosed
           /\ \A u \in Targets : nodes[u] # nds[t]
           /\ \A d \in CoordinatorAddr : coords[d] # nds[t]
    <2> SUFFICES ASSUME NEW t \in Targets, nodes[t] = Nil, nds[t] # Nil
                 PROVE  /\ nds[t] = snap[r][t] /\ nds[t] \notin held[r]
                        /\ closes[nds[t]] = 0 /\ nds[t] \notin epClosed
                        /\ \A u \in Targets : nodes[u] # nds[t]
                        /\ \A d \in CoordinatorAddr : coords[d] # nds[t]
      OBVIOUS
    <2>1. nds[t] = snap[r][t] /\ snap[r][t] # Nil
      BY <1>3
    <2>2. snap[r][t] \notin held[r]
      BY <2>1, <1>1 DEF Registry, ResolutionFresh
    <2> QED
      BY <2>1, <2>2, <1>1 DEF Registry, CreatedPrivate
  <1> HIDE DEF nds
  <1>6. \A t, u \in Targets : nds[t] = nds[u] /\ nds[t] # Nil => t = u
    <2> SUFFICES ASSUME NEW t \in Targets, NEW u \in Targets,
                        nds[t] = nds[u], nds[t] # Nil
                 PROVE  t = u
      OBVIOUS
    <2>1. CASE nodes[t] # Nil /\ nodes[u] # Nil
      BY <2>1, <1>4 DEF Registry, Distinct
    <2>2. CASE nodes[t] = Nil /\ nodes[u] = Nil
      <3>1. snap[r][t] = snap[r][u] /\ snap[r][t] # Nil
        BY <2>2, <1>5
      <3> QED
        BY <3>1 DEF Registry, Distinct
    <2>3. CASE nodes[t] = Nil /\ nodes[u] # Nil
      BY <2>3, <1>4, <1>5
    <2>4. CASE nodes[t] # Nil /\ nodes[u] = Nil
      BY <2>4, <1>4, <1>5
    <2> QED
      BY <2>1, <2>2, <2>3, <2>4
  <1>7. \A t \in Targets : nds[t] # Nil =>
           /\ nds[t] \notin epClosed /\ closes[nds[t]] = 0
           /\ \A d \in CoordinatorAddr : coords[d] # nds[t]
    <2> SUFFICES ASSUME NEW t \in Targets, nds[t] # Nil
                 PROVE  /\ nds[t] \notin epClosed /\ closes[nds[t]] = 0
                        /\ \A d \in CoordinatorAddr : coords[d] # nds[t]
      OBVIOUS
    <2>1. CASE nodes[t] # Nil
      BY <2>1, <1>2, <1>4 DEF Registry, RegisteredOpen, Distinct
    <2>2. CASE nodes[t] = Nil
      BY <2>2, <1>5
    <2> QED
      BY <2>1, <2>2
  <1>8. MapOpen(nds)
    BY <1>2, <1>3, <1>6, <1>7 DEF MapOpen
  <1>9. Retirement(nds, active', refs)
    BY <1>1, <1>8, RetireEffect DEF Registry
  <1>10. \A t \in Targets : nds[t] <= opened /\ snap[r][t] <= opened /\ Nil <= opened
    BY <1>3, ConnFacts DEF Registry, Bounds, Nil
  <1>11. TypeOK'
    <2>1. /\ nodes' \in [Targets -> ConnOrNil] /\ closes' \in [Conns -> Nat]
          /\ snapshot' \in [Targets -> ConnOrNil] /\ pc' \in [Procs -> Labels]
      BY <1>1, <1>3, <1>9 DEF Retirement, Registry, TypeOK, Labels
    <2>2. epClosed' \subseteq 1..opened
      <3>1. {nds[t] : t \in Targets} \ {Nil} \subseteq 1..opened
        BY <1>3, <1>10, ConnFacts DEF ConnOrNil, Registry
      <3> QED
        BY <3>1, <1>9 DEF Retirement, Registry, TypeOK
    <2>3. active' \subseteq 1..opened
      <3>1. Entries(snap[r]) \subseteq 1..opened
        BY <1>3, <1>10, ConnFacts DEF ConnOrNil, Registry, Entries
      <3> QED
        BY <3>1, <1>1 DEF Registry, TypeOK
    <2> QED
      BY <2>1, <2>2, <2>3, <1>1 DEF Registry, TypeOK
  <1>12. Bounds'
    <2>1. \A k \in Conns : k > opened => closes'[k] = 0
      <3>1. \A k \in Conns : k > opened => k \notin owned /\ closes[k] = 0
        BY ConnFacts DEF Registry, TypeOK, Bounds
      <3> QED
        BY <3>1, <1>9 DEF Retirement
    <2>2. \A t \in Targets : nodes'[t] <= opened
      BY <1>9, <1>10 DEF Retirement
    <2> QED
      BY <1>1, <1>10, <2>1, <2>2 DEF Registry, Bounds
  <1>13. Gated' /\ Trying' /\ Unpinned' /\ DialNeeded'
    <2>1. \A q \in Procs : q # r => pc'[q] = pc[q]
      BY <1>1 DEF Registry, TypeOK
    <2>2. pc'[r] = "installed"
      BY <1>1 DEF Registry, TypeOK
    <2>3. Gated' /\ Trying'
      BY <2>1, <2>2, <1>1, <1>2 DEF Registry, Gated, Trying, GateLabels
    <2>4. Unpinned' /\ DialNeeded'
      BY <2>1, <2>2, <1>1, <1>2 DEF Registry, Unpinned, DialNeeded, PublishLabels,
         GateLabels
    <2> QED
      BY <2>3, <2>4
  <1>14. Distinct'
    <2>1. \A t \in Targets : nodes'[t] # Nil => nodes'[t] = nds[t]
      BY <1>9 DEF Retirement
    <2> QED
      BY <2>1, <1>1, <1>6, <1>7 DEF Registry, Distinct
  <1>15. RefsExact'
    BY <1>1 DEF Registry, RefsExact, Holders
  <1>16. \A e \in Conns : refs[e] = 0 <=> \A p \in Procs : e \notin held[p]
    BY RefsPositive DEF Registry
  <1>17. HeldRegistered'
    <2> SUFFICES ASSUME NEW p \in Procs, NEW e \in held[p]
                 PROVE  \E t \in Targets : nodes'[t] = e
      BY <1>1 DEF Registry, HeldRegistered
    <2>1. PICK t \in Targets : nodes[t] = e
      BY DEF Registry, HeldRegistered
    <2>2. e \in Conns /\ e # Nil /\ refs[e] # 0
      BY <1>16, ConnFacts DEF Registry, TypeOK
    <2>3. nds[t] = e
      BY <2>1, <2>2, <1>4
    <2> QED
      BY <2>2, <2>3, <1>9 DEF Retirement
  <1>18. \A q \in Refreshers : pc'[q] \notin {"publish", "cleanup", "abandoned"} /\
                               (pc'[q] = "installed" => q = r)
    BY <1>1, <1>2 DEF Registry, TypeOK, GateLabels
  <1>19. ResolutionFresh' /\ CreatedPrivate' /\ CreatedClosed' /\ Installed'
    BY <1>1, <1>18 DEF ResolutionFresh, CreatedPrivate, CreatedClosed, Installed
  <1>20. SnapshotRegistered'
    <2> SUFFICES ASSUME NEW t \in Targets, snap[r][t] # Nil
                 PROVE  nodes'[t] = snap[r][t] /\ snap[r][t] \in active'
      BY <1>1 DEF SnapshotRegistered
    <2>1. snap[r][t] \in active'
      BY <1>1, <1>3 DEF Entries
    <2>2. nds[t] = snap[r][t]
      BY <1>3
    <2> QED
      BY <2>1, <2>2, <1>9 DEF Retirement
  <1>21. RetiredPromptly'
    <2> SUFFICES ASSUME NEW t \in Targets, nodes'[t] # Nil, nodes'[t] \notin active'
                 PROVE  \E p \in Procs : nodes'[t] \in held[p]
      BY <1>1 DEF RetiredPromptly
    <2>1. refs[nodes'[t]] # 0 /\ nodes'[t] \in Conns
      BY <1>9 DEF Retirement, ConnOrNil
    <2> QED
      BY <2>1, <1>16
  <1>22. RegisteredOpen' /\ Released'
    <2>1. \A t \in Targets : nodes'[t] # Nil =>
             closes'[nodes'[t]] = 0 /\ nodes'[t] \notin epClosed'
      BY <1>7, <1>9 DEF Retirement
    <2>2. \A d \in CoordinatorAddr : coords[d] # Nil => closes'[coords[d]] = 0
      <3> SUFFICES ASSUME NEW d \in CoordinatorAddr, coords[d] # Nil
                   PROVE  closes'[coords[d]] = 0
        OBVIOUS
      <3>1. coords[d] \in Conns /\ closes[coords[d]] = 0
        BY <1>2 DEF Registry, TypeOK, ConnOrNil, RegisteredOpen
      <3>2. \A t \in Targets : nds[t] # coords[d]
        BY <1>7
      <3> QED
        BY <3>1, <3>2, <1>9 DEF Retirement
    <2> QED
      BY <2>1, <2>2, <1>1, <1>2 DEF RegisteredOpen, Released
  <1>23. ClosedOnce'
    BY <1>1, <1>9 DEF Registry, TypeOK, ClosedOnce, Retirement
  <1>24. NoLeak'
    <2> SUFFICES ASSUME NEW k \in owned, closes'[k] = 0
                 PROVE  k \in Entries(coords) \cup Entries(nodes')
      BY <1>1, <1>2 DEF NoLeak
    <2>1. k \in Conns /\ k # Nil
      BY ConnFacts DEF Registry
    <2>2. closes[k] = 0
      BY <2>1, <1>9 DEF Retirement
    <2>3. k \in Entries(coords) \cup Entries(nodes) \cup Created(r)
      BY <2>2, <1>2 DEF Registry, NoLeak
    <2>4. CASE k \in Entries(nodes) \cup Created(r)
      <3>1. PICK t \in Targets : nds[t] = k
        <4>1. CASE k \in Entries(nodes)
          BY <4>1, <1>3, <1>4, <2>1 DEF Entries
        <4>2. CASE k \in Created(r)
          BY <4>2, <1>3, <2>1 DEF Created, Entries
        <4> QED
          BY <4>1, <4>2, <2>4
      <3>2. nodes'[t] = k
        BY <3>1, <2>1, <1>2, <1>9 DEF Retirement
      <3>3. DOMAIN nodes' = Targets
        BY <1>9 DEF Retirement
      <3> QED
        BY <3>2, <3>3, <2>1 DEF Entries
    <2> QED
      BY <2>3, <2>4
  <1> QED
    BY <1>11, <1>12, <1>13, <1>14, <1>15, <1>17, <1>19, <1>20, <1>21, <1>22,
       <1>23, <1>24 DEF Registry

(* cleanup() closes what the abandoned publication had made.               *)
LEMMA CleanupStep ==
  ASSUME Registry, NEW r \in Refreshers, Cleanup(r)
  PROVE  Registry'
  <1> USE ProcFacts
  <1>1. /\ pc[r] = "cleanup" /\ closes' = CloseCount(Created(r) \cap owned)
        /\ pc' = [pc EXCEPT ![r] = "abandoned"]
        /\ UNCHANGED <<phase, activeCoordinator, coords, snapshot, opened, owned,
                       refs, active, epClosed, held, nodes, gate, wake, unserved,
                       start, tries, todo, seen, snap>>
    BY DEF Cleanup, Goto, chanVars, jobVars, epVars
  <1>2. /\ phase # "released" /\ gate = r
        /\ \A q \in Refreshers : q # r => /\ pc[q] \notin GateLabels
                                          /\ held[q] = {} /\ snap[q] = NoTargets
                                          /\ Created(q) = {}
    BY <1>1, AloneInGate DEF GateLabels
  <1>3. \A k \in Conns : closes[k] \in Nat /\
            closes'[k] = IF k \in Created(r) \cap owned THEN closes[k] + 1
                                                        ELSE closes[k]
    BY <1>1 DEF CloseCount, Registry, TypeOK
  <1>4. \A k : k \in Created(r) <=> /\ k # Nil /\ k \notin held[r]
                                    /\ \E t \in Targets : snap[r][t] = k
    BY DEF Created, Entries, Registry, TypeOK
  <1>5. \A k \in Created(r) : /\ closes[k] = 0
                              /\ \A t \in Targets : nodes[t] # k
                              /\ \A d \in CoordinatorAddr : coords[d] # k
    BY <1>1, <1>4 DEF Registry, CreatedPrivate
  <1>6. TypeOK'
    <2>1. closes' \in [Conns -> Nat]
      BY <1>1 DEF CloseCount, Registry, TypeOK
    <2> QED
      BY <2>1, <1>1 DEF Registry, TypeOK, Labels
  <1>7. Bounds' /\ Distinct' /\ HeldRegistered' /\ SnapshotRegistered'
    <2>1. \A k \in Conns : k > opened => closes'[k] = 0
      <3>1. \A k \in Conns : k > opened => k \notin owned /\ closes[k] = 0
        BY ConnFacts DEF Registry, TypeOK, Bounds
      <3> QED
        BY <3>1, <1>3
    <2>2. Bounds'
      BY <2>1, <1>1 DEF Registry, Bounds
    <2>3. Distinct' /\ HeldRegistered' /\ SnapshotRegistered'
      BY <1>1 DEF Registry, Distinct, HeldRegistered, SnapshotRegistered
    <2> QED
      BY <2>2, <2>3
  <1>8. RefsExact' /\ RetiredPromptly'
    BY <1>1 DEF Registry, RefsExact, Holders, RetiredPromptly
  <1>9. /\ \A q \in Procs : q # r => pc'[q] = pc[q]
        /\ pc'[r] = "abandoned"
    BY <1>1 DEF Registry, TypeOK
  <1>10. Gated' /\ Trying' /\ Unpinned' /\ DialNeeded'
    <2>1. Gated' /\ Trying'
      BY <1>1, <1>2, <1>9 DEF Registry, Gated, Trying, GateLabels
    <2>2. Unpinned' /\ DialNeeded'
      BY <1>1, <1>2, <1>9 DEF Registry, Unpinned, DialNeeded, PublishLabels, GateLabels
    <2> QED
      BY <2>1, <2>2
  <1>11. ResolutionFresh' /\ CreatedPrivate' /\ Installed'
    BY <1>2, <1>9 DEF ResolutionFresh, CreatedPrivate, Installed, GateLabels
  <1>12. CreatedClosed'
    <2> SUFFICES ASSUME NEW t \in Targets, snap[r][t] \in owned,
                        snap[r][t] \notin held[r]
                 PROVE  closes'[snap[r][t]] # 0
      BY <1>1, <1>2, <1>9 DEF CreatedClosed, GateLabels
    <2>1. snap[r][t] \in Conns /\ snap[r][t] # Nil
      BY ConnFacts DEF Registry
    <2> QED
      BY <2>1, <1>3, <1>4
  <1>13. RegisteredOpen' /\ Released'
    <2>1. \A t \in Targets : nodes[t] # Nil => closes'[nodes[t]] = closes[nodes[t]]
      BY <1>3, <1>5 DEF Registry, TypeOK, ConnOrNil
    <2>2. \A d \in CoordinatorAddr :
             coords[d] # Nil => closes'[coords[d]] = closes[coords[d]]
      BY <1>3, <1>5 DEF Registry, TypeOK, ConnOrNil
    <2> QED
      BY <2>1, <2>2, <1>1, <1>2 DEF Registry, RegisteredOpen, Released
  <1>14. ClosedOnce'
    <2> SUFFICES ASSUME NEW k \in Conns
                 PROVE  closes'[k] <= 1 /\ (k \notin owned => closes'[k] = 0)
      BY <1>1 DEF ClosedOnce
    <2>1. closes[k] <= 1 /\ (k \notin owned => closes[k] = 0)
      BY DEF Registry, ClosedOnce
    <2>2. k \in Created(r) \cap owned => closes[k] = 0 /\ k \in owned
      BY <1>5
    <2> QED
      BY <2>1, <2>2, <1>3
  <1>15. NoLeak'
    <2> SUFFICES ASSUME NEW k \in owned, closes'[k] = 0
                 PROVE  k \in Entries(coords) \cup Entries(nodes)
      BY <1>1, <1>2 DEF NoLeak
    <2>1. k \in Conns
      BY ConnFacts DEF Registry
    <2>2. closes[k] = 0 /\ k \notin Created(r)
      BY <2>1, <1>3
    <2> QED
      BY <2>2, <1>2 DEF Registry, NoLeak
  <1> QED
    BY <1>6, <1>7, <1>8, <1>10, <1>11, <1>12, <1>13, <1>14, <1>15 DEF Registry
-----------------------------------------------------------------------------
(* A call pins the current snapshot.                                       *)
LEMMA PinSnapshotStep ==
  ASSUME Registry, NEW c \in Calls, PinSnapshot(c)
  PROVE  Registry'
  <1> USE ProcFacts
  <1>1. /\ pc[c] = "wait" /\ phase = "open" /\ Pin(c, Entries(snapshot))
        /\ pc' = [pc EXCEPT ![c] = "pinned"]
        /\ UNCHANGED <<phase, activeCoordinator, coords, snapshot, opened, owned,
                       closes, active, epClosed, nodes, gate, wake, unserved,
                       start, tries, todo, seen, snap>>
    BY DEF PinSnapshot, Goto, chanVars, jobVars, connVars, Closed
  <1>2. held[c] = {} /\ c \notin Refreshers /\ c \in Procs
    BY <1>1 DEF Registry, Unpinned
  <1>3. Entries(snapshot) \in SUBSET Conns
    BY DEF Entries, Registry, TypeOK, ConnOrNil
  <1>4. RefsExact'
    BY <1>1, <1>2, <1>3, PinRefs DEF Registry
  <1>5. /\ \A q \in Procs : q # c => held'[q] = held[q] /\ pc'[q] = pc[q]
        /\ held'[c] = Entries(snapshot) /\ pc'[c] = "pinned"
        /\ \A r \in Refreshers : held'[r] = held[r] /\ pc'[r] = pc[r]
    BY <1>1, <1>2 DEF Pin, Registry, TypeOK
  <1>6. TypeOK'
    <2>1. held' \in [Procs -> SUBSET Conns] /\ refs' \in [Conns -> Nat]
      BY <1>1, <1>2, <1>3 DEF Pin, Registry, TypeOK
    <2> QED
      BY <2>1, <1>1 DEF Registry, TypeOK, Labels
  <1>7. Bounds' /\ Distinct' /\ SnapshotRegistered' /\ RegisteredOpen' /\ ClosedOnce'
    BY <1>1
    DEF Registry, Bounds, Distinct, SnapshotRegistered, RegisteredOpen, ClosedOnce
  <1>8. Gated' /\ Trying' /\ Unpinned' /\ DialNeeded' /\ Installed' /\ Released'
    <2>1. Gated' /\ Trying' /\ DialNeeded' /\ Installed' /\ Released'
      BY <1>1, <1>5 DEF Registry, Gated, Trying, DialNeeded, Coordinator, Index,
         Installed, Released
    <2>2. Unpinned'
      BY <1>1, <1>2, <1>5 DEF Registry, Unpinned
    <2> QED
      BY <2>1, <2>2
  <1>9. HeldRegistered'
    <2>1. \A e \in Entries(snapshot) : \E t \in Targets : nodes[t] = e
      BY DEF Registry, TypeOK, Entries, SnapshotRegistered
    <2> QED
      BY <2>1, <1>1, <1>5 DEF Registry, HeldRegistered
  <1>10. ResolutionFresh' /\ CreatedPrivate' /\ CreatedClosed'
    BY <1>1, <1>5 DEF Registry, ResolutionFresh, CreatedPrivate, CreatedClosed
  <1>11. RetiredPromptly'
    <2>1. \A q \in Procs : held[q] \subseteq held'[q]
      BY <1>2, <1>5
    <2> QED
      BY <2>1, <1>1 DEF Registry, RetiredPromptly
  <1>12. NoLeak'
    BY <1>1, <1>5 DEF Registry, NoLeak, Created, Entries
  <1> QED
    BY <1>4, <1>6, <1>7, <1>8, <1>9, <1>10, <1>11, <1>12 DEF Registry

(* close() releases everything.                                            *)
LEMMA ReleaseStep ==
  ASSUME Registry, Release
  PROVE  Registry'
  <1> DEFINE S == owned \cap ((Entries(nodes) \ epClosed) \cup Entries(coords))
  <1>1. /\ phase = "canceled" /\ phase' = "released" /\ WorkDone
        /\ closes' = CloseCount(S) /\ epClosed' = epClosed \cup Entries(nodes)
        /\ UNCHANGED <<pc, activeCoordinator, coords, snapshot, opened, owned,
                       refs, active, held, nodes, gate, wake, unserved, start,
                       tries, todo, seen, snap>>
    BY DEF Release, chanVars, jobVars
  <1>2. \A k : k \in Entries(nodes) <=> k # Nil /\ \E t \in Targets : nodes[t] = k
    BY DEF Entries, Registry, TypeOK
  <1>3. \A k : k \in Entries(coords) <=>
                  k # Nil /\ \E d \in CoordinatorAddr : coords[d] = k
    BY DEF Entries, Registry, TypeOK
  <1>4. \A k \in Entries(nodes) : /\ k \in Conns /\ closes[k] = 0 /\ k \notin epClosed
                                  /\ k <= opened
    BY <1>1, <1>2 DEF Registry, RegisteredOpen, TypeOK, ConnOrNil, Bounds
  <1>5. \A k \in Entries(coords) : closes[k] = 0
    BY <1>1, <1>3 DEF Registry, RegisteredOpen
  <1>6. \A k \in Conns : closes[k] \in Nat /\
            closes'[k] = IF k \in S THEN closes[k] + 1 ELSE closes[k]
    BY <1>1 DEF CloseCount, Registry, TypeOK
  <1>7. S \subseteq owned /\ \A k \in S : closes[k] = 0
    BY <1>4, <1>5
  <1>8. \A r \in Refreshers : pc[r] \notin GateLabels \cup {"gate"} /\ snap[r] = NoTargets
    <2>1. \A r \in Refreshers : pc[r] \in {"enter", "idle", "select", "exited"}
      BY <1>1 DEF WorkDone, InRefresh
    <2> QED
      BY <2>1 DEF Registry, Unpinned, GateLabels, PublishLabels
  <1>9. TypeOK'
    <2>1. closes' \in [Conns -> Nat]
      BY <1>1 DEF CloseCount, Registry, TypeOK
    <2>2. epClosed' \subseteq 1..opened
      BY <1>1, <1>4, ConnFacts DEF Registry, TypeOK
    <2> QED
      BY <2>1, <2>2, <1>1 DEF Registry, TypeOK
  <1>10. Bounds' /\ Distinct' /\ HeldRegistered' /\ SnapshotRegistered'
    <2>1. \A k \in Conns : k > opened => closes'[k] = 0
      <3>1. \A k \in Conns : k > opened => k \notin owned /\ closes[k] = 0
        BY ConnFacts DEF Registry, TypeOK, Bounds
      <3> QED
        BY <3>1, <1>6, <1>7
    <2>2. Bounds'
      BY <2>1, <1>1 DEF Registry, Bounds
    <2>3. Distinct' /\ HeldRegistered' /\ SnapshotRegistered'
      BY <1>1 DEF Registry, Distinct, HeldRegistered, SnapshotRegistered
    <2> QED
      BY <2>2, <2>3
  <1>11. RefsExact' /\ RetiredPromptly'
    BY <1>1 DEF Registry, RefsExact, Holders, RetiredPromptly
  <1>12. Gated' /\ Trying' /\ Unpinned' /\ DialNeeded'
    BY <1>1 DEF Registry, Gated, Trying, Unpinned, DialNeeded, Coordinator, Index
  <1>13. ResolutionFresh' /\ CreatedPrivate' /\ CreatedClosed' /\ Installed'
    BY <1>1, <1>8 DEF ResolutionFresh, CreatedPrivate, CreatedClosed, Installed,
       GateLabels
  <1>14. RegisteredOpen' /\ Released'
    BY <1>1, <1>2, <1>8 DEF RegisteredOpen, Released
  <1>15. ClosedOnce'
    <2> SUFFICES ASSUME NEW k \in Conns
                 PROVE  closes'[k] <= 1 /\ (k \notin owned => closes'[k] = 0)
      BY <1>1 DEF ClosedOnce
    <2>1. closes[k] <= 1 /\ (k \notin owned => closes[k] = 0)
      BY DEF Registry, ClosedOnce
    <2>2. k \in S => closes[k] = 0 /\ k \in owned
      BY <1>7
    <2> QED
      BY <2>1, <2>2, <1>6
  <1>16. NoLeak'
    <2> SUFFICES ASSUME NEW k \in owned, closes'[k] = 0
                 PROVE  FALSE
      BY <1>1 DEF NoLeak
    <2>1. k \in Conns
      BY ConnFacts DEF Registry
    <2>2. closes[k] = 0 /\ k \notin S
      BY <2>1, <1>6
    <2>3. \A r \in Refreshers : Created(r) = {}
      BY <1>8 DEF Created, Entries, NoTargets
    <2>4. k \in Entries(coords) \cup Entries(nodes)
      BY <2>2, <2>3 DEF Registry, NoLeak
    <2> QED
      BY <2>2, <2>4, <1>4
  <1> QED
    BY <1>9, <1>10, <1>11, <1>12, <1>13, <1>14, <1>15, <1>16 DEF Registry
-----------------------------------------------------------------------------
(* Steps that call the connection factory.                                 *)

(* A new connection is unknown to everybody.                               *)
LEMMA NewConn ==
  ASSUME Registry, opened < MaxConns, opened' = opened + 1
  PROVE  /\ opened' \in Conns /\ opened' # Nil /\ closes[opened'] = 0
         /\ opened' \notin owned /\ opened' \notin epClosed /\ opened' \notin active
         /\ \A t \in Targets : nodes[t] # opened' /\ snapshot[t] # opened'
         /\ \A d \in CoordinatorAddr : coords[d] # opened'
         /\ \A r \in Refreshers : \A t \in Targets : snap[r][t] # opened'
         /\ \A p \in Procs : opened' \notin held[p]
         /\ opened' \in 0..MaxConns /\ 1..opened \subseteq 1..opened'
  <1>1. /\ opened \in Nat /\ MaxConns \in Nat /\ opened' \in Conns /\ opened' > opened
        /\ opened' \in 0..MaxConns /\ 1..opened \subseteq 1..opened'
    BY ConnFacts DEF Registry, Conns
  <1>2. opened' \notin 1..opened
    BY <1>1
  <1>3. \A t \in Targets : nodes[t] # opened' /\ snapshot[t] # opened'
    BY <1>1 DEF Registry, Bounds
  <1>4. \A d \in CoordinatorAddr : coords[d] # opened'
    BY <1>1 DEF Registry, Bounds
  <1>5. \A r \in Refreshers : \A t \in Targets : snap[r][t] # opened'
    BY <1>1 DEF Registry, Bounds
  <1>6. \A p \in Procs : opened' \notin held[p]
    BY <1>3 DEF Registry, HeldRegistered
  <1>7. closes[opened'] = 0 /\ opened' # Nil
    BY <1>1, ConnFacts DEF Registry, Bounds
  <1> QED
    BY <1>1, <1>2, <1>3, <1>4, <1>5, <1>6, <1>7 DEF Registry, TypeOK

(* A connection that is not kept is closed if it can be.                   *)
LEMMA TransientConn ==
  ASSUME Registry, opened < MaxConns, opened' = opened + 1,
         owned' \in {owned, owned \cup {opened'}},
         closes' = CloseCount({opened'} \cap owned'),
         UNCHANGED <<phase, coords, nodes, snapshot, refs, active, epClosed, held,
                     snap>>,
         TypeOK', Gated', Trying', Unpinned', DialNeeded', phase # "released",
         \A r \in Refreshers :
            /\ pc'[r] = "publish" => pc[r] = "publish"
            /\ pc'[r] = "cleanup" => pc[r] \in {"publish", "cleanup"}
            /\ pc'[r] = "installed" => pc[r] = "installed"
            /\ pc'[r] = "abandoned" => pc[r] = "abandoned"
  PROVE  Registry'
  <1>1. /\ opened' \in Conns /\ closes[opened'] = 0 /\ opened' \notin owned
        /\ \A t \in Targets : nodes[t] # opened'
        /\ \A d \in CoordinatorAddr : coords[d] # opened'
        /\ \A r \in Refreshers : \A t \in Targets : snap[r][t] # opened'
    BY NewConn
  <1>2. \A k \in Conns : k # opened' => closes'[k] = closes[k] /\
                                        (k \in owned' <=> k \in owned)
    BY DEF CloseCount
  <1>3. closes'[opened'] = IF opened' \in owned' THEN 1 ELSE 0
    BY <1>1 DEF CloseCount
  <1>4. Bounds'
    <2>1. /\ \A t \in Targets : nodes[t] \in Nat /\ snapshot[t] \in Nat
          /\ \A d \in CoordinatorAddr : coords[d] \in Nat
          /\ \A r \in Refreshers : \A t \in Targets : snap[r][t] \in Nat
          /\ opened \in Nat
      BY ConnFacts DEF Registry, TypeOK, ConnOrNil, Nil
    <2>2. \A k \in Conns : k > opened' => closes'[k] = 0
      <3> SUFFICES ASSUME NEW k \in Conns, k > opened' PROVE closes'[k] = 0
        OBVIOUS
      <3>1. k # opened' /\ k > opened
        BY <2>1, ConnFacts DEF Registry
      <3> QED
        BY <3>1, <1>2 DEF Registry, Bounds
    <2>3. \A n \in Nat : n <= opened => n <= opened'
      BY <2>1
    <2> QED
      BY <2>1, <2>2, <2>3 DEF Registry, Bounds
  <1>5. Distinct' /\ HeldRegistered' /\ SnapshotRegistered'
    BY DEF Registry, Distinct, HeldRegistered, SnapshotRegistered
  <1>6. RefsExact' /\ RetiredPromptly'
    BY DEF Registry, RefsExact, Holders, RetiredPromptly
  <1>7. ResolutionFresh' /\ Installed'
    BY DEF Registry, ResolutionFresh, Installed
  <1>8. CreatedPrivate' /\ CreatedClosed'
    <2>1. \A r \in Refreshers : \A t \in Targets :
             snap[r][t] # Nil => /\ closes'[snap[r][t]] = closes[snap[r][t]]
                                 /\ snap[r][t] \in owned' <=> snap[r][t] \in owned
      <3> SUFFICES ASSUME NEW r \in Refreshers, NEW t \in Targets, snap[r][t] # Nil
                   PROVE  /\ closes'[snap[r][t]] = closes[snap[r][t]]
                          /\ snap[r][t] \in owned' <=> snap[r][t] \in owned
        OBVIOUS
      <3>1. snap[r][t] \in Conns
        BY DEF Registry, TypeOK, ConnOrNil
      <3> QED
        BY <3>1, <1>1, <1>2
    <2>2. Nil \notin owned'
      BY <1>1, ConnFacts DEF Registry
    <2>3. CreatedPrivate'
      <3>1. \A r \in Refreshers : pc'[r] \in {"publish", "cleanup"}
                                    => pc[r] \in {"publish", "cleanup"}
        OBVIOUS
      <3> SUFFICES ASSUME NEW r \in Refreshers, pc'[r] \in {"publish", "cleanup"},
                          NEW t \in Targets, snap[r][t] # Nil,
                          snap[r][t] \notin held[r]
                   PROVE  /\ closes'[snap[r][t]] = 0 /\ snap[r][t] \notin epClosed
                          /\ \A u \in Targets : nodes[u] # snap[r][t]
                          /\ \A d \in CoordinatorAddr : coords[d] # snap[r][t]
        BY DEF CreatedPrivate
      <3>2. /\ closes[snap[r][t]] = 0 /\ snap[r][t] \notin epClosed
            /\ \A u \in Targets : nodes[u] # snap[r][t]
            /\ \A d \in CoordinatorAddr : coords[d] # snap[r][t]
        BY <3>1 DEF Registry, CreatedPrivate
      <3> QED
        BY <2>1, <3>2
    <2>4. CreatedClosed'
      BY <2>1, <2>2, SMTT(30) DEF Registry, CreatedClosed
    <2> QED
      BY <2>3, <2>4
  <1>9. RegisteredOpen' /\ Released'
    <2>1. \A t \in Targets : nodes[t] # Nil => closes'[nodes[t]] = closes[nodes[t]]
      BY <1>1, <1>2, ZenonT(30) DEF Registry, TypeOK, ConnOrNil
    <2>2. \A d \in CoordinatorAddr :
             coords[d] # Nil => closes'[coords[d]] = closes[coords[d]]
      BY <1>1, <1>2, ZenonT(30) DEF Registry, TypeOK, ConnOrNil
    <2> QED
      BY <2>1, <2>2 DEF Registry, RegisteredOpen, Released
  <1>10. ClosedOnce'
    <2> SUFFICES ASSUME NEW k \in Conns
                 PROVE  closes'[k] <= 1 /\ (k \notin owned' => closes'[k] = 0)
      BY DEF ClosedOnce
    <2>1. closes[k] <= 1 /\ (k \notin owned => closes[k] = 0)
      BY DEF Registry, ClosedOnce
    <2> QED
      BY <2>1, <1>2, <1>3
  <1>11. NoLeak'
    <2> SUFFICES ASSUME NEW k \in owned', closes'[k] = 0
                 PROVE  \/ k \in Entries(coords) \cup Entries(nodes)
                        \/ \E r \in Refreshers : k \in Created(r)
      BY DEF NoLeak, Created, Entries
    <2>1. k # opened' /\ k \in owned
      BY <1>3
    <2>2. closes[k] = 0
      BY <2>1, <1>2, ConnFacts DEF Registry
    <2> QED
      BY <2>1, <2>2 DEF Registry, NoLeak
  <1> QED
    BY <1>4, <1>5, <1>6, <1>7, <1>8, <1>9, <1>10, <1>11 DEF Registry

(* A coordinator cannot be reached.                                        *)
LEMMA DialCoordinatorFailsStep ==
  ASSUME Registry, NEW r \in Refreshers, DialCoordinatorFails(r)
  PROVE  Registry'
  <1> USE ProcFacts
  <1>1. /\ pc[r] = "dial" /\ pc' = [pc EXCEPT ![r] = "attempt"]
        /\ tries' = [tries EXCEPT ![r] = @ + 1]
        /\ UNCHANGED <<phase, activeCoordinator, coords, snapshot, start, todo,
                       seen, snap, gate, wake, unserved, refs, active, epClosed,
                       held, nodes>>
    BY DEF DialCoordinatorFails, NextAttempt, Goto, chanVars, epVars
  <1>2. /\ phase # "released" /\ gate = r
        /\ \A q \in Refreshers : q # r => pc[q] \notin GateLabels
    BY <1>1, AloneInGate DEF GateLabels
  <1>3. tries' \in [Refreshers -> 0..NumCoordinators] /\ pc' \in [Procs -> Labels]
    BY <1>1, IndexType DEF Registry, TypeOK, Trying, GateLabels, Labels
  <1>4. /\ \A q \in Procs : q # r => pc'[q] = pc[q]
        /\ pc'[r] = "attempt"
    BY <1>1 DEF Registry, TypeOK
  <1>5. Gated' /\ Trying' /\ Unpinned' /\ DialNeeded'
    <2>1. Gated' /\ Trying'
      BY <1>1, <1>2, <1>4 DEF Registry, Gated, Trying, GateLabels
    <2>2. Unpinned' /\ DialNeeded'
      BY <1>1, <1>2, <1>4 DEF Registry, Unpinned, DialNeeded, PublishLabels, GateLabels
    <2> QED
      BY <2>1, <2>2
  <1>6. CASE UNCHANGED connVars
    <2>1. UNCHANGED <<opened, owned, closes>>
      BY <1>6 DEF connVars
    <2>2. TypeOK'
      BY <2>1, <1>1, <1>3 DEF Registry, TypeOK
    <2> QED
      BY <2>1, <2>2, <1>1, <1>2, <1>4, <1>5, ControlStep DEF GateLabels
  <1>7. CASE DialNil
    <2>1. /\ opened < MaxConns /\ opened' = opened + 1
          /\ owned' = owned \cup {opened'} /\ closes' = CloseCount({opened'})
      BY <1>7 DEF DialNil, Dial
    <2>2. {opened'} \cap owned' = {opened'}
      BY <2>1
    <2>3. closes' \in [Conns -> Nat] /\ opened' \in 0..MaxConns
      BY <2>1, NewConn DEF CloseCount, Registry, TypeOK
    <2>4. /\ owned' \subseteq 1..opened' /\ active \subseteq 1..opened'
          /\ epClosed \subseteq 1..opened'
      BY <2>1, NewConn, ConnFacts DEF Registry, TypeOK
    <2>5. TypeOK'
      BY <2>3, <2>4, <1>1, <1>3 DEF Registry, TypeOK
    <2> QED
      BY <2>1, <2>2, <2>5, <1>1, <1>2, <1>4, <1>5, TransientConn DEF GateLabels
  <1> QED
    BY <1>6, <1>7 DEF DialCoordinatorFails

(* A node cannot be reached.                                               *)
LEMMA PublishDialFailsStep ==
  ASSUME Registry, NEW r \in Refreshers, NEW p \in todo[r], PublishDialFails(r, p)
  PROVE  Registry'
  <1> USE ProcFacts
  <1>1. /\ pc[r] = "publish" /\ pc' = [pc EXCEPT ![r] = "cleanup"]
        /\ UNCHANGED <<phase, activeCoordinator, coords, snapshot, start, tries,
                       todo, seen, snap, gate, wake, unserved, refs, active,
                       epClosed, held, nodes>>
    BY DEF PublishDialFails, Publishing, Goto, chanVars, epVars, jobVars
  <1>2. /\ phase # "released" /\ gate = r
        /\ \A q \in Refreshers : q # r => pc[q] \notin GateLabels
    BY <1>1, AloneInGate DEF GateLabels
  <1>3. pc' \in [Procs -> Labels]
    BY <1>1 DEF Registry, TypeOK, Labels
  <1>4. /\ \A q \in Procs : q # r => pc'[q] = pc[q]
        /\ pc'[r] = "cleanup"
    BY <1>1 DEF Registry, TypeOK
  <1>5. Gated' /\ Trying' /\ Unpinned' /\ DialNeeded'
    <2>1. Gated' /\ Trying'
      BY <1>1, <1>2, <1>4 DEF Registry, Gated, Trying, GateLabels
    <2>2. Unpinned' /\ DialNeeded'
      BY <1>1, <1>2, <1>4 DEF Registry, Unpinned, DialNeeded, PublishLabels, GateLabels
    <2> QED
      BY <2>1, <2>2
  <1>6. CASE UNCHANGED connVars
    <2>1. UNCHANGED <<opened, owned, closes>>
      BY <1>6 DEF connVars
    <2>2. TypeOK'
      BY <2>1, <1>1, <1>3 DEF Registry, TypeOK
    <2> QED
      BY <2>1, <2>2, <1>1, <1>2, <1>4, <1>5, ControlStep DEF GateLabels
  <1>7. CASE DialNil
    <2>1. /\ opened < MaxConns /\ opened' = opened + 1
          /\ owned' = owned \cup {opened'} /\ closes' = CloseCount({opened'})
      BY <1>7 DEF DialNil, Dial
    <2>2. {opened'} \cap owned' = {opened'}
      BY <2>1
    <2>3. closes' \in [Conns -> Nat] /\ opened' \in 0..MaxConns
      BY <2>1, NewConn DEF CloseCount, Registry, TypeOK
    <2>4. /\ owned' \subseteq 1..opened' /\ active \subseteq 1..opened'
          /\ epClosed \subseteq 1..opened'
      BY <2>1, NewConn, ConnFacts DEF Registry, TypeOK
    <2>5. TypeOK'
      BY <2>3, <2>4, <1>1, <1>3 DEF Registry, TypeOK
    <2> QED
      BY <2>1, <2>2, <2>5, <1>1, <1>2, <1>4, <1>5, TransientConn DEF GateLabels
  <1> QED
    BY <1>6, <1>7 DEF PublishDialFails

(* A coordinator connection is stored, or closed at once.                  *)
LEMMA StoreCoordinatorStep ==
  ASSUME Registry, NEW r \in Refreshers, StoreCoordinator(r)
  PROVE  Registry'
  <1> USE ProcFacts
  <1> DEFINE d == Coordinator(r)
  <1>1. /\ pc[r] = "dial" /\ opened < MaxConns /\ opened' = opened + 1
        /\ owned' \in {owned, owned \cup {opened'}}
        /\ UNCHANGED <<phase, activeCoordinator, snapshot, start, todo, seen, snap,
                       gate, wake, unserved, refs, active, epClosed, held, nodes>>
    BY DEF StoreCoordinator, Dial, chanVars, epVars
  <1>2. /\ phase # "released" /\ gate = r
        /\ \A q \in Refreshers : q # r => /\ pc[q] \notin GateLabels
                                          /\ Created(q) = {}
    BY <1>1, AloneInGate DEF GateLabels
  <1>3. /\ opened' \in Conns /\ opened' # Nil /\ closes[opened'] = 0
        /\ opened' \notin owned /\ opened' \in 0..MaxConns
        /\ 1..opened \subseteq 1..opened'
        /\ \A t \in Targets : nodes[t] # opened'
        /\ \A f \in CoordinatorAddr : coords[f] # opened'
        /\ \A q \in Refreshers : \A t \in Targets : snap[q][t] # opened'
    BY <1>1, NewConn
  <1>4. /\ owned' \subseteq 1..opened' /\ active \subseteq 1..opened'
        /\ epClosed \subseteq 1..opened'
    BY <1>1, <1>3, ConnFacts DEF Registry, TypeOK
  <1>5. d \in CoordinatorAddr /\ coords[d] = Nil
    BY <1>1, IndexType DEF Registry, DialNeeded
  <1>6. CASE Closed
    <2>1. /\ closes' = CloseCount({opened'} \cap owned') /\ UNCHANGED coords
          /\ pc' = [pc EXCEPT ![r] = "attempt"]
          /\ tries' = [tries EXCEPT ![r] = @ + 1]
      BY <1>6 DEF StoreCoordinator, NextAttempt, Goto
    <2>2. /\ tries' \in [Refreshers -> 0..NumCoordinators] /\ pc' \in [Procs -> Labels]
          /\ closes' \in [Conns -> Nat]
      BY <1>1, <2>1, IndexType DEF Registry, TypeOK, Trying, GateLabels, Labels, CloseCount
    <2>3. TypeOK'
      BY <1>1, <1>3, <1>4, <2>1, <2>2 DEF Registry, TypeOK
    <2>4. /\ \A q \in Procs : q # r => pc'[q] = pc[q]
          /\ pc'[r] = "attempt"
      BY <2>1 DEF Registry, TypeOK
    <2>5. Gated' /\ Trying'
      BY <1>1, <1>2, <2>1, <2>4 DEF Registry, Gated, Trying, GateLabels
    <2>6. Unpinned' /\ DialNeeded'
      BY <1>1, <1>2, <2>1, <2>4 DEF Registry, Unpinned, DialNeeded, PublishLabels, GateLabels
    <2> QED
      BY <1>1, <1>2, <2>1, <2>3, <2>4, <2>5, <2>6, TransientConn DEF GateLabels
  <1>7. CASE ~Closed
    <2>1. /\ coords' = [coords EXCEPT ![d] = opened']
          /\ pc' = [pc EXCEPT ![r] = "stream"] /\ UNCHANGED <<tries, closes>>
      BY <1>7 DEF StoreCoordinator, Goto
    <2>2. /\ \A f \in CoordinatorAddr : coords'[f] = IF f = d THEN opened' ELSE coords[f]
          /\ coords' \in [CoordinatorAddr -> ConnOrNil]
      BY <1>3, <1>5, <2>1 DEF Registry, TypeOK, ConnOrNil
    <2> HIDE DEF d
    <2>3. TypeOK'
      BY <1>1, <1>3, <1>4, <2>1, <2>2 DEF Registry, TypeOK, Labels
    <2>4. /\ \A q \in Procs : q # r => pc'[q] = pc[q]
          /\ pc'[r] = "stream"
      BY <2>1 DEF Registry, TypeOK
    <2>5. Gated' /\ Trying'
      BY <1>1, <1>2, <2>1, <2>4 DEF Registry, Gated, Trying, GateLabels
    <2>6. Unpinned' /\ DialNeeded'
      BY <1>1, <1>2, <2>1, <2>4 DEF Registry, Unpinned, DialNeeded, PublishLabels, GateLabels
    <2>7. Bounds'
      <3>1. /\ \A t \in Targets : nodes[t] \in Nat /\ snapshot[t] \in Nat
            /\ \A f \in CoordinatorAddr : coords[f] \in Nat
            /\ \A q \in Refreshers : \A t \in Targets : snap[q][t] \in Nat
            /\ opened \in Nat
        BY ConnFacts DEF Registry, TypeOK, ConnOrNil, Nil
      <3>2. /\ \A n \in Nat : n <= opened => n <= opened'
            /\ \A n \in Nat : n > opened' => n > opened
            /\ opened' <= opened'
        BY <1>1, <3>1
      <3>3. \A k \in Conns : k \in Nat
        BY ConnFacts DEF Registry
      <3>4. \A f \in CoordinatorAddr : coords'[f] <= opened'
        BY <2>2, <3>1, <3>2 DEF Registry, Bounds
      <3> QED
        BY <1>1, <2>1, <3>1, <3>2, <3>3, <3>4 DEF Registry, Bounds
    <2>8. Distinct'
      BY <1>1, <1>3, <2>2 DEF Registry, Distinct
    <2>9. HeldRegistered' /\ SnapshotRegistered' /\ RetiredPromptly'
      BY <1>1 DEF Registry, HeldRegistered, SnapshotRegistered, RetiredPromptly
    <2>10. RefsExact'
      BY <1>1 DEF Registry, RefsExact, Holders
    <2>11. ResolutionFresh' /\ CreatedPrivate' /\ CreatedClosed' /\ Installed'
      <3>1. \A q \in Refreshers : pc'[q] \notin {"publish", "cleanup", "abandoned",
                                                 "installed"}
        BY <1>2, <2>4 DEF GateLabels
      <3> QED
        BY <3>1 DEF ResolutionFresh, CreatedPrivate, CreatedClosed, Installed
    <2>12. RegisteredOpen' /\ Released'
      BY <1>1, <1>2, <1>3, <2>1, <2>2 DEF Registry, RegisteredOpen, Released
    <2>13. ClosedOnce'
      BY <1>1, <2>1 DEF Registry, ClosedOnce
    <2>14. NoLeak'
      <3> SUFFICES ASSUME NEW k \in owned', closes[k] = 0
                   PROVE  k \in Entries(coords') \cup Entries(nodes)
        BY <1>1, <1>2, <2>1 DEF NoLeak
      <3>1. \A j : j \in Entries(coords) => j \in Entries(coords')
        BY <1>5, <2>1, <2>2 DEF Entries, Registry, TypeOK
      <3>2. CASE k = opened'
        BY <3>2, <1>3, <1>5, <2>1, <2>2 DEF Entries, Registry, TypeOK
      <3>3. CASE k \in owned
        <4>1. Created(r) = {}
          BY <1>1 DEF Registry, Unpinned, PublishLabels, Created, Entries, NoTargets
        <4> QED
          BY <3>1, <3>3, <4>1, <1>2 DEF Registry, NoLeak
      <3> QED
        BY <1>1, <3>2, <3>3
    <2> QED
      BY <2>3, <2>5, <2>6, <2>7, <2>8, <2>9, <2>10, <2>11, <2>12, <2>13, <2>14
      DEF Registry
  <1> QED
    BY <1>6, <1>7
-----------------------------------------------------------------------------
(* The turns of publish()'s loop.                                          *)

(* The end of a turn.                                                      *)
LEMMA AddRoutesEffect ==
  ASSUME Registry, NEW r \in Refreshers, NEW p \in todo[r], pc[r] = "publish",
         AddRoutes(r, p)
  PROVE  /\ p.target \in Targets
         /\ pc' \in [Procs -> Labels]
         /\ pc'[r] \in {"publish", "cleanup"}
         /\ \A q \in Procs : q # r => pc'[q] = pc[q]
         /\ todo' \in [Refreshers -> SUBSET AddressedPeer]
         /\ seen' \in [Refreshers -> SUBSET AddressedPeer]
         /\ UNCHANGED <<phase, activeCoordinator, coords, snapshot, start, tries,
                        gate, wake, unserved>>
         /\ Gated' /\ Trying' /\ DialNeeded'
  <1> USE ProcFacts
  <1>1. UNCHANGED <<phase, activeCoordinator, coords, snapshot, start, tries,
                    gate, wake, unserved>>
    BY DEF AddRoutes, chanVars
  <1>2. p \in AddressedPeer /\ p.target \in Targets
    BY DEF Registry, TypeOK, AddressedPeer, Peer
  <1>3. /\ pc' \in [Procs -> Labels] /\ pc'[r] \in {"publish", "cleanup"}
        /\ \A q \in Procs : q # r => pc'[q] = pc[q]
    BY DEF AddRoutes, Goto, Registry, TypeOK, Labels
  <1>4. /\ todo' \in [Refreshers -> SUBSET AddressedPeer]
        /\ seen' \in [Refreshers -> SUBSET AddressedPeer]
    BY <1>2 DEF AddRoutes, Registry, TypeOK
  <1>5. \A q \in Refreshers : q # r => pc[q] \notin GateLabels
    BY AloneInGate DEF GateLabels
  <1>6. Gated' /\ Trying'
    BY <1>1, <1>3, <1>5 DEF Registry, Gated, Trying, GateLabels
  <1>7. DialNeeded'
    BY <1>1, <1>3, <1>5 DEF DialNeeded, GateLabels
  <1> QED
    BY <1>1, <1>2, <1>3, <1>4, <1>6, <1>7

(* A target met before.                                                    *)
LEMMA PublishSeenStep ==
  ASSUME Registry, NEW r \in Refreshers, NEW p \in todo[r], PublishSeen(r, p)
  PROVE  Registry'
  <1> USE ProcFacts
  <1>1. /\ pc[r] = "publish" /\ AddRoutes(r, p)
        /\ UNCHANGED <<snap, opened, owned, closes, refs, active, epClosed, held,
                       nodes>>
    BY DEF PublishSeen, Publishing, connVars, epVars
  <1>2. /\ pc' \in [Procs -> Labels] /\ pc'[r] \in {"publish", "cleanup"}
        /\ \A q \in Procs : q # r => pc'[q] = pc[q]
        /\ todo' \in [Refreshers -> SUBSET AddressedPeer]
        /\ seen' \in [Refreshers -> SUBSET AddressedPeer]
        /\ UNCHANGED <<phase, activeCoordinator, coords, snapshot, start, tries,
                       gate, wake, unserved>>
        /\ Gated' /\ Trying' /\ DialNeeded'
    BY <1>1, AddRoutesEffect
  <1>3. TypeOK'
    BY <1>1, <1>2 DEF Registry, TypeOK
  <1>4. Unpinned'
    BY <1>1, <1>2 DEF Registry, Unpinned, PublishLabels
  <1>5. phase # "released"
    BY <1>1, AloneInGate DEF GateLabels
  <1> QED
    BY <1>1, <1>2, <1>3, <1>4, <1>5, ControlStep

(* A new node.                                                             *)
LEMMA PublishDialStep ==
  ASSUME Registry, NEW r \in Refreshers, NEW p \in todo[r], PublishDial(r, p)
  PROVE  Registry'
  <1> USE ProcFacts
  <1> DEFINE t0 == p.target
  <1>1. /\ pc[r] = "publish" /\ AddRoutes(r, p) /\ snap[r][t0] = Nil
        /\ nodes[t0] = Nil /\ opened < MaxConns /\ opened' = opened + 1
        /\ owned' \in {owned, owned \cup {opened'}}
        /\ snap' = [snap EXCEPT ![r][t0] = opened']
        /\ UNCHANGED <<closes, refs, active, epClosed, held, nodes>>
    BY DEF PublishDial, Publishing, Dial, epVars
  <1>2. /\ t0 \in Targets
        /\ pc' \in [Procs -> Labels] /\ pc'[r] \in {"publish", "cleanup"}
        /\ \A q \in Procs : q # r => pc'[q] = pc[q]
        /\ todo' \in [Refreshers -> SUBSET AddressedPeer]
        /\ seen' \in [Refreshers -> SUBSET AddressedPeer]
        /\ UNCHANGED <<phase, activeCoordinator, coords, snapshot, start, tries,
                       gate, wake, unserved>>
        /\ Gated' /\ Trying' /\ DialNeeded'
    BY <1>1, AddRoutesEffect
  <1> HIDE DEF t0
  <1>3. /\ phase # "released"
        /\ \A q \in Refreshers : q # r => /\ pc[q] \notin GateLabels
                                          /\ held[q] = {} /\ snap[q] = NoTargets
                                          /\ Created(q) = {}
    BY <1>1, AloneInGate DEF GateLabels
  <1>4. /\ opened' \in Conns /\ opened' # Nil /\ closes[opened'] = 0
        /\ opened' \notin owned /\ opened' \notin epClosed
        /\ \A t \in Targets : nodes[t] # opened'
        /\ \A d \in CoordinatorAddr : coords[d] # opened'
        /\ \A q \in Refreshers : \A t \in Targets : snap[q][t] # opened'
        /\ \A q \in Procs : opened' \notin held[q]
        /\ opened' \in 0..MaxConns /\ 1..opened \subseteq 1..opened'
    BY <1>1, NewConn
  <1>5. /\ snap' \in [Refreshers -> [Targets -> ConnOrNil]]
        /\ \A q \in Refreshers : q # r => snap'[q] = snap[q]
        /\ \A t \in Targets : snap'[r][t] = IF t = t0 THEN opened' ELSE snap[r][t]
    BY <1>1, <1>2, <1>4 DEF Registry, TypeOK, ConnOrNil
  <1>6. TypeOK'
    <2>1. /\ owned' \subseteq 1..opened' /\ active \subseteq 1..opened'
          /\ epClosed \subseteq 1..opened'
      BY <1>1, <1>4, ConnFacts DEF Registry, TypeOK
    <2> QED
      BY <1>1, <1>2, <1>4, <1>5, <2>1 DEF Registry, TypeOK
  <1>7. Bounds'
    <2>1. /\ \A t \in Targets : nodes[t] \in Nat /\ snapshot[t] \in Nat
          /\ \A d \in CoordinatorAddr : coords[d] \in Nat
          /\ \A q \in Refreshers : \A t \in Targets : snap[q][t] \in Nat
          /\ opened \in Nat
      BY ConnFacts DEF Registry, TypeOK, ConnOrNil, Nil
    <2>2. /\ \A n \in Nat : n <= opened => n <= opened'
          /\ \A n \in Nat : n > opened' => n > opened
          /\ opened' <= opened'
      BY <1>1, <2>1
    <2>3. \A k \in Conns : k \in Nat
      BY ConnFacts DEF Registry
    <2>4. \A q \in Refreshers : \A t \in Targets : snap'[q][t] <= opened'
      BY <1>5, <2>1, <2>2 DEF Registry, Bounds
    <2> QED
      BY <1>1, <1>2, <2>1, <2>2, <2>3, <2>4 DEF Registry, Bounds
  <1>8. Unpinned'
    BY <1>1, <1>2, <1>5 DEF Registry, Unpinned, PublishLabels
  <1>9. Distinct'
    <2>1. \A t, u \in Targets : snap'[r][t] = snap'[r][u] /\ snap'[r][t] # Nil => t = u
      BY <1>4, <1>5 DEF Registry, Distinct
    <2> QED
      BY <1>1, <1>2, <1>5, <2>1 DEF Registry, Distinct
  <1>10. HeldRegistered'
    <2>1. \A e \in held[r] : \E t \in Targets : snap'[r][t] = e
      <3> SUFFICES ASSUME NEW e \in held[r] PROVE \E t \in Targets : snap'[r][t] = e
        OBVIOUS
      <3>1. PICK t \in Targets : snap[r][t] = e
        BY DEF Registry, HeldRegistered
      <3>2. e # Nil
        BY ConnFacts DEF Registry, TypeOK
      <3> QED
        BY <3>1, <3>2, <1>1, <1>5
    <2> QED
      BY <1>1, <1>5, <2>1 DEF Registry, HeldRegistered
  <1>11. RefsExact' /\ RetiredPromptly' /\ SnapshotRegistered'
    BY <1>1, <1>2 DEF Registry, RefsExact, Holders, RetiredPromptly, SnapshotRegistered
  <1>12. \A q \in Refreshers : /\ pc'[q] \notin {"abandoned", "installed"}
                               /\ pc'[q] \in {"publish", "cleanup"} => q = r
    BY <1>2, <1>3 DEF GateLabels
  <1>13. ResolutionFresh'
    <2> SUFFICES ASSUME NEW t \in Targets, snap'[r][t] # Nil
                 PROVE  IF snap'[r][t] \in held[r] THEN nodes[t] = snap'[r][t]
                                                   ELSE nodes[t] = Nil
      BY <1>1, <1>12 DEF ResolutionFresh
    <2>1. CASE t = t0
      BY <2>1, <1>1, <1>4, <1>5
    <2>2. CASE t # t0
      BY <2>2, <1>1, <1>5 DEF Registry, ResolutionFresh
    <2> QED
      BY <2>1, <2>2
  <1>14. CreatedPrivate'
    <2> SUFFICES ASSUME NEW t \in Targets, snap'[r][t] # Nil,
                        snap'[r][t] \notin held[r]
                 PROVE  /\ closes[snap'[r][t]] = 0 /\ snap'[r][t] \notin epClosed
                        /\ \A u \in Targets : nodes[u] # snap'[r][t]
                        /\ \A d \in CoordinatorAddr : coords[d] # snap'[r][t]
      BY <1>1, <1>2, <1>12 DEF CreatedPrivate
    <2>1. CASE t = t0
      BY <2>1, <1>4, <1>5
    <2>2. CASE t # t0
      BY <2>2, <1>1, <1>5 DEF Registry, CreatedPrivate
    <2> QED
      BY <2>1, <2>2
  <1>15. CreatedClosed' /\ Installed'
    BY <1>12 DEF CreatedClosed, Installed
  <1>16. RegisteredOpen' /\ Released' /\ ClosedOnce'
    BY <1>1, <1>2, <1>3 DEF Registry, RegisteredOpen, Released, ClosedOnce
  <1>17. NoLeak'
    <2> SUFFICES ASSUME NEW k \in owned', closes[k] = 0
                 PROVE  \/ k \in Entries(coords) \cup Entries(nodes)
                        \/ k \in Entries(snap'[r]) \ held[r]
      BY <1>1, <1>2, <1>3 DEF NoLeak, Created
    <2>1. \A j : (j # Nil /\ \E t \in Targets : snap'[r][t] = j)
                    <=> j \in Entries(snap'[r])
      BY <1>5 DEF Entries
    <2>2. CASE k = opened'
      <3>1. snap'[r][t0] = k /\ k # Nil /\ k \notin held[r]
        BY <2>2, <1>2, <1>4, <1>5
      <3> QED
        BY <3>1, <2>1, <1>2
    <2>3. CASE k \in owned
      <3>1. k \in Entries(coords) \cup Entries(nodes) \cup Created(r)
        BY <2>3, <1>3 DEF Registry, NoLeak
      <3>2. CASE k \in Created(r)
        <4>1. PICK t \in Targets : snap[r][t] = k /\ k # Nil /\ k \notin held[r]
          BY <3>2 DEF Created, Entries, Registry, TypeOK
        <4>2. snap'[r][t] = k
          BY <4>1, <1>1, <1>5
        <4> QED
          BY <4>1, <4>2, <2>1
      <3> QED
        BY <3>1, <3>2
    <2> QED
      BY <1>1, <2>2, <2>3
  <1> QED
    BY <1>2, <1>6, <1>7, <1>8, <1>9, <1>10, <1>11, <1>13, <1>14, <1>15, <1>16, <1>17
    DEF Registry

(* A known node.                                                           *)
LEMMA PublishReuseStep ==
  ASSUME Registry, NEW r \in Refreshers, NEW p \in todo[r], PublishReuse(r, p)
  PROVE  Registry'
  <1> USE ProcFacts
  <1> DEFINE t0 == p.target
             e0 == nodes[t0]
  <1>1. /\ pc[r] = "publish" /\ AddRoutes(r, p) /\ snap[r][t0] = Nil
        /\ e0 # Nil /\ Pin(r, {e0})
        /\ snap' = [snap EXCEPT ![r][t0] = e0]
        /\ UNCHANGED <<opened, owned, closes, active, epClosed, nodes>>
    BY DEF PublishReuse, Publishing, connVars
  <1>2. /\ t0 \in Targets
        /\ pc' \in [Procs -> Labels] /\ pc'[r] \in {"publish", "cleanup"}
        /\ \A q \in Procs : q # r => pc'[q] = pc[q]
        /\ todo' \in [Refreshers -> SUBSET AddressedPeer]
        /\ seen' \in [Refreshers -> SUBSET AddressedPeer]
        /\ UNCHANGED <<phase, activeCoordinator, coords, snapshot, start, tries,
                       gate, wake, unserved>>
        /\ Gated' /\ Trying' /\ DialNeeded'
    BY <1>1, AddRoutesEffect
  <1>3. nodes[t0] = e0 /\ e0 \in Conns
    BY <1>1, <1>2 DEF Registry, TypeOK, ConnOrNil
  <1> HIDE DEF t0, e0
  <1>4. /\ phase # "released"
        /\ \A q \in Refreshers : q # r => /\ pc[q] \notin GateLabels
                                          /\ held[q] = {} /\ snap[q] = NoTargets
                                          /\ Created(q) = {}
    BY <1>1, AloneInGate DEF GateLabels
  <1>5. e0 \notin held[r] /\ \A t \in Targets : snap[r][t] # e0
    <2>1. \A t \in Targets : snap[r][t] # e0
      <3> SUFFICES ASSUME NEW t \in Targets, snap[r][t] = e0 PROVE FALSE
        OBVIOUS
      <3>1. t # t0
        BY <1>1
      <3>2. CASE e0 \in held[r]
        <4>1. nodes[t] = e0
          BY <3>2, <1>1 DEF Registry, ResolutionFresh
        <4> QED
          BY <4>1, <3>1, <1>1, <1>2, <1>3 DEF Registry, Distinct
      <3>3. CASE e0 \notin held[r]
        BY <3>3, <1>1, <1>2, <1>3 DEF Registry, CreatedPrivate
      <3> QED
        BY <3>2, <3>3
    <2> QED
      BY <2>1 DEF Registry, HeldRegistered
  <1>6. RefsExact'
    BY <1>1, <1>3, <1>5, PinRefs DEF Registry
  <1>7. /\ snap' \in [Refreshers -> [Targets -> ConnOrNil]]
        /\ \A q \in Refreshers : q # r => snap'[q] = snap[q]
        /\ \A t \in Targets : snap'[r][t] = IF t = t0 THEN e0 ELSE snap[r][t]
    BY <1>1, <1>2, <1>3 DEF Registry, TypeOK, ConnOrNil
  <1>8. /\ held' \in [Procs -> SUBSET Conns] /\ refs' \in [Conns -> Nat]
        /\ \A q \in Procs : q # r => held'[q] = held[q]
        /\ held'[r] = held[r] \cup {e0}
    BY <1>1, <1>3 DEF Pin, Registry, TypeOK
  <1>9. TypeOK'
    BY <1>1, <1>2, <1>7, <1>8 DEF Registry, TypeOK
  <1>10. Bounds'
    <2>1. e0 <= opened
      BY <1>2, <1>3 DEF Registry, Bounds
    <2>2. \A q \in Refreshers : \A t \in Targets : snap'[q][t] <= opened
      BY <1>7, <2>1 DEF Registry, Bounds
    <2> QED
      BY <1>1, <1>2, <2>2 DEF Registry, Bounds
  <1>11. Unpinned'
    BY <1>1, <1>2, <1>7, <1>8 DEF Registry, Unpinned, PublishLabels
  <1>12. Distinct'
    <2>1. \A t, u \in Targets : snap'[r][t] = snap'[r][u] /\ snap'[r][t] # Nil => t = u
      BY <1>5, <1>7 DEF Registry, Distinct
    <2> QED
      BY <1>1, <1>2, <1>7, <2>1 DEF Registry, Distinct
  <1>13. HeldRegistered'
    <2>1. \A q \in Procs : \A e \in held'[q] : \E t \in Targets : nodes[t] = e
      BY <1>2, <1>3, <1>8 DEF Registry, HeldRegistered
    <2>2. \A e \in held'[r] : \E t \in Targets : snap'[r][t] = e
      <3> SUFFICES ASSUME NEW e \in held[r] PROVE \E t \in Targets : snap'[r][t] = e
        BY <1>2, <1>7, <1>8
      <3>1. PICK t \in Targets : snap[r][t] = e
        BY DEF Registry, HeldRegistered
      <3>2. e # Nil
        BY ConnFacts DEF Registry, TypeOK
      <3> QED
        BY <3>1, <3>2, <1>1, <1>7
    <2> QED
      BY <1>1, <1>7, <1>8, <2>1, <2>2 DEF Registry, HeldRegistered
  <1>14. RetiredPromptly'
    <2>1. \A q \in Procs : held[q] \subseteq held'[q]
      BY <1>8
    <2> QED
      BY <1>1, <2>1 DEF Registry, RetiredPromptly
  <1>15. SnapshotRegistered' /\ RegisteredOpen' /\ Released' /\ ClosedOnce'
    BY <1>1, <1>2, <1>4
    DEF Registry, SnapshotRegistered, RegisteredOpen, Released, ClosedOnce
  <1>16. \A q \in Refreshers : /\ pc'[q] \notin {"abandoned", "installed"}
                               /\ pc'[q] \in {"publish", "cleanup"} => q = r
    BY <1>2, <1>4 DEF GateLabels
  <1>17. ResolutionFresh'
    <2> SUFFICES ASSUME NEW t \in Targets, snap'[r][t] # Nil
                 PROVE  IF snap'[r][t] \in held'[r] THEN nodes[t] = snap'[r][t]
                                                    ELSE nodes[t] = Nil
      BY <1>1, <1>16 DEF ResolutionFresh
    <2>1. CASE t = t0
      BY <2>1, <1>3, <1>7, <1>8
    <2>2. CASE t # t0
      <3>1. snap'[r][t] = snap[r][t] /\ snap[r][t] # e0
        BY <2>2, <1>5, <1>7
      <3> QED
        BY <3>1, <1>1, <1>8 DEF Registry, ResolutionFresh
    <2> QED
      BY <2>1, <2>2
  <1>18. CreatedPrivate'
    <2> SUFFICES ASSUME NEW t \in Targets, snap'[r][t] # Nil,
                        snap'[r][t] \notin held'[r]
                 PROVE  /\ closes[snap'[r][t]] = 0 /\ snap'[r][t] \notin epClosed
                        /\ \A u \in Targets : nodes[u] # snap'[r][t]
                        /\ \A d \in CoordinatorAddr : coords[d] # snap'[r][t]
      BY <1>1, <1>2, <1>16 DEF CreatedPrivate
    <2>1. t # t0 /\ snap'[r][t] = snap[r][t] /\ snap[r][t] \notin held[r]
      BY <1>7, <1>8
    <2> QED
      BY <2>1, <1>1 DEF Registry, CreatedPrivate
  <1>19. CreatedClosed' /\ Installed'
    BY <1>16 DEF CreatedClosed, Installed
  <1>20. NoLeak'
    <2> SUFFICES ASSUME NEW k \in owned, closes[k] = 0
                 PROVE  \/ k \in Entries(coords) \cup Entries(nodes)
                        \/ k \in Entries(snap'[r]) \ held'[r]
      BY <1>1, <1>2, <1>4 DEF NoLeak, Created
    <2>1. \A j : (j # Nil /\ \E t \in Targets : snap'[r][t] = j)
                    <=> j \in Entries(snap'[r])
      BY <1>7 DEF Entries
    <2>2. k \in Entries(coords) \cup Entries(nodes) \cup Created(r)
      BY <1>4 DEF Registry, NoLeak
    <2>3. CASE k \in Created(r)
      <3>1. PICK t \in Targets : snap[r][t] = k /\ k # Nil /\ k \notin held[r]
        BY <2>3 DEF Created, Entries, Registry, TypeOK
      <3>2. snap'[r][t] = k /\ k \notin held'[r]
        BY <3>1, <1>1, <1>5, <1>7, <1>8
      <3> QED
        BY <3>1, <3>2, <2>1
    <2> QED
      BY <2>2, <2>3
  <1> QED
    BY <1>2, <1>6, <1>9, <1>10, <1>11, <1>12, <1>13, <1>14, <1>15, <1>17, <1>18,
       <1>19, <1>20 DEF Registry
-----------------------------------------------------------------------------
(* The invariant.                                                          *)

(* It holds when NewSmartClient returns.                                   *)
LEMMA InitRegistry == Init => Registry
  <1> SUFFICES ASSUME Init PROVE Registry
    OBVIOUS
  <1> USE ProcFacts
  <1>1. TypeOK
    <2>1. NumCoordinators \in Nat \ {0} /\ MaxConns \in Nat
      BY BackendAssumption DEF NumCoordinators
    <2>2. /\ start \in [Refreshers -> 0..(NumCoordinators - 1)]
          /\ tries \in [Refreshers -> 0..NumCoordinators]
          /\ activeCoordinator \in 0..(NumCoordinators - 1)
          /\ opened \in 0..MaxConns
      BY <2>1 DEF Init
    <2>3. /\ coords \in [CoordinatorAddr -> ConnOrNil]
          /\ nodes \in [Targets -> ConnOrNil] /\ snapshot \in [Targets -> ConnOrNil]
          /\ snap \in [Refreshers -> [Targets -> ConnOrNil]]
      BY NoTargetsType DEF Init, ConnOrNil
    <2> QED
      BY <2>2, <2>3 DEF Init, TypeOK, Labels
  <1>2. Bounds /\ Distinct
    BY ConnFacts, <1>1 DEF Init, Bounds, Distinct, NoTargets, Nil
  <1>3. Gated /\ Trying /\ Unpinned /\ DialNeeded
    BY DEF Init, Gated, Trying, Unpinned, DialNeeded, GateLabels
  <1>4. HeldRegistered
    BY DEF Init, HeldRegistered
  <1>5. RefsExact
    <2>1. \A e \in Conns : Holders(e) = {}
      BY DEF Init, Holders
    <2> QED
      BY <2>1, FS_EmptySet DEF Init, RefsExact
  <1>6. ResolutionFresh /\ CreatedPrivate /\ CreatedClosed /\ Installed
    BY DEF Init, ResolutionFresh, CreatedPrivate, CreatedClosed, Installed
  <1>7. SnapshotRegistered /\ RetiredPromptly /\ RegisteredOpen /\ Released
    BY DEF Init, SnapshotRegistered, RetiredPromptly, RegisteredOpen, Released,
       NoTargets
  <1>8. ClosedOnce /\ NoLeak
    BY DEF Init, ClosedOnce, NoLeak
  <1> QED
    BY <1>1, <1>2, <1>3, <1>4, <1>5, <1>6, <1>7, <1>8 DEF Registry

(* Every step of the backend keeps it.                                     *)
LEMMA NextRegistry == Registry /\ [Next]_vars => Registry'
  <1> SUFFICES ASSUME Registry, [Next]_vars PROVE Registry'
    OBVIOUS
  <1> USE ProcFacts
  <1>1. ASSUME NEW r \in Refreshers, CallRefresh(r) PROVE Registry'
    BY <1>1, CallRefreshStep
  <1>2. ASSUME NEW r \in Refreshers, AcquireGate(r) PROVE Registry'
    BY <1>2, AcquireGateStep
  <1>3. ASSUME NEW r \in Refreshers, GateCanceled(r) PROVE Registry'
    BY <1>3, GateCanceledStep
  <1>4. ASSUME NEW r \in Refreshers, RefreshStep(r) PROVE Registry'
    <2>1. CASE EnterRefresh(r)
      BY <2>1, EnterRefreshStep
    <2>2. CASE ReturnRefresh(r)
      BY <2>2, ReturnRefreshStep
    <2>3. CASE BeginAttempt(r)
      BY <2>3, BeginAttemptStep
    <2>4. CASE StoreCoordinator(r)
      BY <2>4, StoreCoordinatorStep
    <2>5. CASE DialCoordinatorFails(r)
      BY <2>5, DialCoordinatorFailsStep
    <2>6. CASE DiscoverFails(r)
      BY <2>6, DiscoverFailsStep
    <2>7. CASE Discovered(r)
      BY <2>7, DiscoveredStep
    <2>8. ASSUME NEW p \in todo[r], PublishSeen(r, p) PROVE Registry'
      BY <2>8, PublishSeenStep
    <2>9. ASSUME NEW p \in todo[r], PublishReuse(r, p) PROVE Registry'
      BY <2>9, PublishReuseStep
    <2>10. ASSUME NEW p \in todo[r], PublishDial(r, p) PROVE Registry'
      BY <2>10, PublishDialStep
    <2>11. ASSUME NEW p \in todo[r], PublishDialFails(r, p) PROVE Registry'
      BY <2>11, PublishDialFailsStep
    <2>12. CASE AbortPublish(r)
      BY <2>12, AbortPublishStep
    <2>13. CASE Install(r)
      BY <2>13, InstallStep
    <2>14. CASE Cleanup(r)
      BY <2>14, CleanupStep
    <2>15. CASE PublishOk(r)
      BY <2>15, PublishOkStep
    <2>16. CASE PublishFailed(r)
      BY <2>16, PublishFailedStep
    <2> QED
      BY <1>4, <2>1, <2>2, <2>3, <2>4, <2>5, <2>6, <2>7, <2>8, <2>9, <2>10, <2>11,
         <2>12, <2>13, <2>14, <2>15, <2>16 DEF RefreshStep
  <1>5. CASE LoopTick
    BY <1>5, LoopTickStep
  <1>6. CASE LoopWake
    BY <1>6, LoopWakeStep
  <1>7. CASE LoopExit
    BY <1>7, LoopExitStep
  <1>8. ASSUME NEW c \in Calls, StartRun(c) PROVE Registry'
    BY <1>8, StartRunStep
  <1>9. ASSUME NEW c \in Calls, RunStep(c) PROVE Registry'
    <2>1. CASE WaitFails(c)
      BY <2>1, WaitFailsStep
    <2>2. CASE PinSnapshot(c)
      BY <2>2, PinSnapshotStep
    <2>3. CASE RequestRefresh(c)
      BY <2>3, RequestRefreshStep
    <2>4. CASE EndRun(c)
      BY <2>4, EndRunStep
    <2> QED
      BY <1>9, <2>1, <2>2, <2>3, <2>4 DEF RunStep
  <1>10. CASE MarkClosed
    BY <1>10, MarkClosedStep
  <1>11. CASE CancelLife
    BY <1>11, CancelLifeStep
  <1>12. CASE Release
    BY <1>12, ReleaseStep
  <1>13. CASE UNCHANGED vars
    <2>1. UNCHANGED <<phase, pc, gate, wake, unserved, activeCoordinator, coords,
                      nodes, snapshot, opened, owned, closes, refs, active,
                      epClosed, held, start, tries, todo, seen, snap>>
      BY <1>13 DEF vars
    <2>2. TypeOK'
      BY <2>1 DEF Registry, TypeOK
    <2>3. Gated' /\ Trying' /\ Unpinned' /\ DialNeeded'
      BY <2>1 DEF Registry, Gated, Trying, Unpinned, DialNeeded, Coordinator, Index
    <2> QED
      BY <2>1, <2>2, <2>3, ControlStep DEF Registry, Released
  <1> QED
    BY <1>1, <1>2, <1>3, <1>4, <1>5, <1>6, <1>7, <1>8, <1>9, <1>10, <1>11, <1>12,
       <1>13 DEF Next

-----------------------------------------------------------------------------
(* What a publication has built.                                           *)

(* A step that leaves the work of a refresher alone.                       *)
LEMMA BuiltFrame ==
  ASSUME NEW r \in Refreshers, BuiltBy(r), pc'[r] = pc[r],
         UNCHANGED <<todo, seen, snap>>
  PROVE  BuiltBy(r)'
  BY DEF BuiltBy

(* The step of a goroutine that goes to a place other than the loop over   *)
(* d.peers, and not from within publish() to without.                      *)
LEMMA BuiltControl ==
  ASSUME Registry, Built, NEW p \in Procs, NEW l, Goto(p, l), l # "publish",
         l \in PublishLabels \/ pc[p] \notin PublishLabels,
         UNCHANGED <<todo, seen, snap>>
  PROVE  Built'
  <1> SUFFICES ASSUME NEW r \in Refreshers
               PROVE  BuiltBy(r)'
    BY DEF Built
  <1>1. BuiltBy(r) /\ pc \in [Procs -> Labels]
    BY DEF Built, Registry, TypeOK
  <1>2. CASE r = p
    BY <1>1, <1>2 DEF Goto, BuiltBy
  <1>3. CASE r # p
    <2>1. pc'[r] = pc[r]
      BY <1>1, <1>3 DEF Goto
    <2> QED
      BY <1>1, <2>1, BuiltFrame
  <1> QED
    BY <1>2, <1>3

(* publish() has returned: the work is thrown away.                        *)
LEMMA BuiltReset ==
  ASSUME Registry, Built, NEW r \in Refreshers, NEW l, Goto(r, l), l # "publish",
         seen' = [seen EXCEPT ![r] = {}], todo' = [todo EXCEPT ![r] = {}],
         snap' = [snap EXCEPT ![r] = NoTargets]
  PROVE  Built'
  <1> SUFFICES ASSUME NEW q \in Refreshers
               PROVE  BuiltBy(q)'
    BY DEF Built
  <1>1. /\ BuiltBy(q) /\ pc \in [Procs -> Labels] /\ q \in Procs /\ r \in Procs
        /\ DOMAIN seen = Refreshers /\ DOMAIN todo = Refreshers
        /\ DOMAIN snap = Refreshers
    BY ProcFacts DEF Built, Registry, TypeOK
  <1>2. CASE q = r
    BY <1>1, <1>2 DEF Goto, BuiltBy
  <1>3. CASE q # r
    BY <1>1, <1>3 DEF Goto, BuiltBy
  <1> QED
    BY <1>2, <1>3

(* A new answer: nothing has been done.                                    *)
LEMMA BuiltDiscovered ==
  ASSUME Registry, Built, NEW r \in Refreshers, Discovered(r)
  PROVE  Built'
  <1> SUFFICES ASSUME NEW q \in Refreshers
               PROVE  BuiltBy(q)'
    BY DEF Built
  <1>1. /\ BuiltBy(q) /\ BuiltBy(r) /\ pc \in [Procs -> Labels]
        /\ q \in Procs /\ r \in Procs /\ DOMAIN todo = Refreshers
    BY ProcFacts DEF Built, Registry, TypeOK
  <1>2. /\ pc[r] = "stream" /\ UNCHANGED <<seen, snap>>
        /\ pc' = [pc EXCEPT ![r] = "publish"]
    BY DEF Discovered, Goto
  <1>3. PICK a \in Answers : Accepted(a) /\ todo' = [todo EXCEPT ![r] = Peers(a)]
    BY DEF Discovered
  <1>4. CASE q = r
    <2>1. seen'[q] = {} /\ snap'[q] = NoTargets /\ todo'[q] = Peers(a)
      BY <1>1, <1>2, <1>3, <1>4
         DEF BuiltBy, PublishLabels, Registry, Unpinned
    <2>2. {t \in Targets : snap'[q][t] # Nil} = {}
      BY <2>1 DEF NoTargets
    <2>3. ~Conflicting({})
      BY DEF Conflicting
    <2> QED
      BY <1>1, <1>2, <1>3, <1>4, <2>1, <2>2, <2>3 DEF BuiltBy, PublishLabels
  <1>5. CASE q # r
    BY <1>1, <1>2, <1>3, <1>5 DEF BuiltBy
  <1> QED
    BY <1>4, <1>5

(* One turn of the loop over d.peers: p and its endpoint are added.        *)
LEMMA BuiltAddRoutes ==
  ASSUME Registry, Built, NEW r \in Refreshers, NEW p \in todo[r], Publishing(r, p),
         AddRoutes(r, p), NEW e, e # Nil, snap' = [snap EXCEPT ![r][p.target] = e]
  PROVE  Built'
  <1> SUFFICES ASSUME NEW q \in Refreshers
               PROVE  BuiltBy(q)'
    BY DEF Built
  <1>1. /\ BuiltBy(q) /\ BuiltBy(r) /\ pc \in [Procs -> Labels]
        /\ q \in Procs /\ r \in Procs
        /\ DOMAIN todo = Refreshers /\ DOMAIN seen = Refreshers
        /\ snap \in [Refreshers -> [Targets -> ConnOrNil]]
        /\ p.target \in Targets
    BY ProcFacts DEF Built, Registry, TypeOK, AddressedPeer, Peer
  <1>2. /\ pc[r] = "publish"
        /\ todo' = [todo EXCEPT ![r] = @ \ {p}]
        /\ seen' = [seen EXCEPT ![r] = @ \cup {p}]
        /\ pc' = [pc EXCEPT ![r] = IF Conflicting(seen'[r]) THEN "cleanup"
                                                            ELSE "publish"]
    BY DEF Publishing, AddRoutes, Goto
  <1>3. CASE q = r
    <2>1. seen'[q] \cup todo'[q] = seen[q] \cup todo[q]
      BY <1>1, <1>2, <1>3
    <2>2. /\ snap'[q][p.target] = e
          /\ \A t \in Targets \ {p.target} : snap'[q][t] = snap[q][t]
      BY <1>1, <1>3
    <2>3. seen'[q] = seen[q] \cup {p}
      BY <1>1, <1>2, <1>3
    <2>4. {t \in Targets : snap'[q][t] # Nil} =
             {t \in Targets : snap[q][t] # Nil} \cup {p.target}
      BY <1>1, <2>2
    <2>5. {x.target : x \in seen'[q]} = {x.target : x \in seen[q]} \cup {p.target}
      BY <2>3
    <2>6. pc'[q] = "cleanup" \/ (pc'[q] = "publish" /\ ~Conflicting(seen'[q]))
      BY <1>1, <1>2, <1>3
    <2> QED
      BY <1>1, <1>2, <1>3, <2>1, <2>4, <2>5, <2>6 DEF BuiltBy, PublishLabels
  <1>4. CASE q # r
    BY <1>1, <1>2, <1>4 DEF BuiltBy
  <1> QED
    BY <1>3, <1>4

(* The steps of refresh(), discover() and publish().                       *)
LEMMA BuiltRefreshStep ==
  ASSUME Registry, Built, NEW r \in Refreshers, RefreshStep(r)
  PROVE  Built'
  <1> USE ProcFacts DEF PublishLabels
  <1>1. CASE EnterRefresh(r) \/ BeginAttempt(r)
    BY <1>1, BuiltControl DEF EnterRefresh, BeginAttempt, Returned, jobVars
  <1>2. CASE ReturnRefresh(r) \/ PublishOk(r)
    BY <1>2, BuiltReset DEF ReturnRefresh, PublishOk, ResetJob, Returned
  <1>3. CASE StoreCoordinator(r)
    BY <1>3, BuiltControl DEF StoreCoordinator, NextAttempt
  <1>4. CASE DialCoordinatorFails(r) \/ DiscoverFails(r)
    BY <1>4, BuiltControl DEF DialCoordinatorFails, DiscoverFails, NextAttempt
  <1>5. CASE Discovered(r)
    BY <1>5, BuiltDiscovered
  <1>6. ASSUME NEW p \in todo[r], PublishSeen(r, p)
        PROVE  Built'
    <2>1. snap' = [snap EXCEPT ![r][p.target] = snap[r][p.target]]
      BY <1>6 DEF PublishSeen, Registry, TypeOK
    <2> QED
      BY <1>6, <2>1, BuiltAddRoutes DEF PublishSeen
  <1>7. ASSUME NEW p \in todo[r], PublishReuse(r, p)
        PROVE  Built'
    BY <1>7, BuiltAddRoutes DEF PublishReuse
  <1>8. ASSUME NEW p \in todo[r], PublishDial(r, p)
        PROVE  Built'
    <2>1. opened' # Nil
      BY <1>8, ConnFacts DEF PublishDial, Dial, Nil, Registry
    <2> QED
      BY <1>8, <2>1, BuiltAddRoutes DEF PublishDial
  <1>9. ASSUME NEW p \in todo[r], PublishDialFails(r, p)
        PROVE  Built'
    BY <1>9, BuiltControl DEF PublishDialFails, jobVars
  <1>10. CASE AbortPublish(r) \/ Install(r) \/ Cleanup(r)
    BY <1>10, BuiltControl DEF AbortPublish, Install, Cleanup, jobVars
  <1>11. CASE PublishFailed(r)
    BY <1>11, BuiltReset DEF PublishFailed, NextAttempt
  <1> QED
    BY <1>1, <1>2, <1>3, <1>4, <1>5, <1>6, <1>7, <1>8, <1>9, <1>10, <1>11
       DEF RefreshStep

(* Every step keeps Built.                                                 *)
LEMMA NextBuilt == Registry /\ Built /\ [Next]_vars => Built'
  <1> SUFFICES ASSUME Registry, Built, [Next]_vars PROVE Built'
    OBVIOUS
  <1> USE ProcFacts DEF PublishLabels
  <1>1. ASSUME NEW r \in Refreshers,
               CallRefresh(r) \/ AcquireGate(r) \/ GateCanceled(r)
        PROVE  Built'
    BY <1>1, BuiltControl DEF CallRefresh, AcquireGate, GateCanceled, Returned,
                              jobVars
  <1>2. ASSUME NEW r \in Refreshers, RefreshStep(r)
        PROVE  Built'
    BY <1>2, BuiltRefreshStep
  <1>3. CASE LoopTick \/ LoopWake \/ LoopExit
    BY <1>3, BuiltControl DEF LoopTick, LoopWake, LoopExit, jobVars
  <1>4. ASSUME NEW c \in Calls, StartRun(c) \/ RunStep(c)
        PROVE  Built'
    BY <1>4, BuiltControl DEF StartRun, RunStep, WaitFails, PinSnapshot,
                              RequestRefresh, EndRun, jobVars
  <1>5. CASE MarkClosed \/ CancelLife \/ Release
    BY <1>5, BuiltFrame DEF MarkClosed, CancelLife, Release, jobVars, Built
  <1>6. CASE UNCHANGED vars
    BY <1>6, BuiltFrame DEF vars, Built
  <1> QED
    BY <1>1, <1>2, <1>3, <1>4, <1>5, <1>6 DEF Next

(* IInv is an invariant of the backend.                                    *)
THEOREM Invariance == Spec => []IInv
  <1>1. Init => IInv
    <2>1. Init => Built
      <3> SUFFICES ASSUME Init, NEW r \in Refreshers
                   PROVE  pc[r] # "publish" /\ seen[r] = {}
        BY DEF Built, BuiltBy
      <3> QED
        BY ProcFacts DEF Init
    <2> QED
      BY <2>1, InitRegistry DEF IInv
  <1>2. IInv /\ [Next]_vars => IInv'
    BY NextRegistry, NextBuilt DEF IInv
  <1> QED
    BY <1>1, <1>2, PTL DEF Spec

(* Type correctness: no reference count becomes negative, the coordinator  *)
(* index stays in the list (smart.go refresh, run, publish).               *)
THEOREM TypeCorrect == Spec => []TypeOK
  <1>1. IInv => TypeOK
    BY DEF IInv, Registry
  <1> QED
    BY <1>1, Invariance, PTL

(* No endpoint is closed while a call or a publication has it pinned,      *)
(* until Close releases everything (retireLocked).                         *)
THEOREM PinnedStaysOpen == Spec => []HeldOpen
  <1>1. IInv => HeldOpen
    <2> SUFFICES ASSUME IInv, phase # "released", NEW p \in Procs, NEW e \in held[p]
                 PROVE  e \notin epClosed /\ closes[e] = 0
      BY DEF HeldOpen
    <2>1. PICK t \in Targets : nodes[t] = e
      BY DEF IInv, Registry, HeldRegistered
    <2>2. e # Nil
      BY ConnFacts DEF IInv, Registry, TypeOK
    <2> QED
      BY <2>1, <2>2 DEF IInv, Registry, RegisteredOpen
  <1> QED
    BY <1>1, Invariance, PTL

(* Connection.Close is called at most once per connection, and only on     *)
(* owned ones.                                                             *)
THEOREM NoDoubleClose == Spec => []ClosedOnce
  <1>1. IInv => ClosedOnce
    BY DEF IInv, Registry
  <1> QED
    BY <1>1, Invariance, PTL

(* No owned connection is lost: it can be reached while open, and is       *)
(* closed once Close has returned.                                         *)
THEOREM NothingLeaks == Spec => []NoLeak
  <1>1. IInv => NoLeak
    BY DEF IInv, Registry
  <1> QED
    BY <1>1, Invariance, PTL

(* What a call would pin is registered, active and open (publish).         *)
THEOREM CurrentIsLive == Spec => []SnapshotLive
  <1>1. IInv => SnapshotLive
    BY DEF IInv, Registry, SnapshotLive, SnapshotRegistered, RegisteredOpen
  <1> QED
    BY <1>1, Invariance, PTL

(* A retired endpoint is kept only while somebody holds it, and what       *)
(* publish() resolved is still true when it installs.                      *)
THEOREM PromptAndFresh == Spec => [](RetiredPromptly /\ ResolutionFresh)
  <1>1. IInv => RetiredPromptly /\ ResolutionFresh
    BY DEF IInv, Registry
  <1> QED
    BY <1>1, Invariance, PTL

(* Only Install changes the snapshot, and it makes the targets of a whole  *)
(* answer the current ones.                                                *)
LEMMA InstallsWhole ==
  ASSUME IInv, NEW r \in Refreshers, Install(r)
  PROVE  /\ ~Closed
         /\ \E a \in Answers :
               /\ gate = r /\ seen[r] = Peers(a)
               /\ Accepted(a) /\ HasRoutes(Peers(a)) /\ ~Conflicting(Peers(a))
               /\ {t \in Targets : snapshot'[t] # Nil} =
                     {p.target : p \in Peers(a)}
  <1>1. /\ pc[r] = "publish" /\ todo[r] = {} /\ HasRoutes(seen[r]) /\ ~Closed
        /\ snapshot' = snap[r]
    BY DEF Install, MayInstall
  <1>2. gate = r /\ BuiltBy(r)
    BY <1>1 DEF IInv, Registry, Gated, GateLabels, Built
  <1>3. PICK a \in Answers : Accepted(a) /\ seen[r] \cup todo[r] = Peers(a)
    BY <1>1, <1>2 DEF BuiltBy
  <1>4. seen[r] = Peers(a)
    BY <1>1, <1>3
  <1> QED
    BY <1>1, <1>2, <1>3, <1>4 DEF BuiltBy

(* Only Install changes the snapshot.                                      *)
LEMMA OthersKeepSnapshot ==
  ASSUME [Next]_vars, snapshot' # snapshot
  PROVE  \E r \in Refreshers : Install(r)
  <1>1. ASSUME NEW r \in Refreshers, RefreshStep(r), ~Install(r)
        PROVE  snapshot' = snapshot
    BY <1>1 DEF RefreshStep, EnterRefresh, ReturnRefresh, BeginAttempt,
       StoreCoordinator, DialCoordinatorFails, DiscoverFails, Discovered,
       PublishSeen, PublishReuse, PublishDial, PublishDialFails, AddRoutes,
       AbortPublish, Cleanup, PublishOk, PublishFailed
  <1>2. ASSUME NEW r \in Refreshers,
               CallRefresh(r) \/ AcquireGate(r) \/ GateCanceled(r)
        PROVE  snapshot' = snapshot
    BY <1>2 DEF CallRefresh, AcquireGate, GateCanceled
  <1>3. CASE LoopTick \/ LoopWake \/ LoopExit
    BY <1>3 DEF LoopTick, LoopWake, LoopExit
  <1>4. ASSUME NEW c \in Calls, StartRun(c) \/ RunStep(c)
        PROVE  snapshot' = snapshot
    BY <1>4 DEF StartRun, RunStep, WaitFails, PinSnapshot, RequestRefresh, EndRun
  <1>5. CASE MarkClosed \/ CancelLife \/ Release
    BY <1>5 DEF MarkClosed, CancelLife, Release
  <1>6. CASE UNCHANGED vars
    BY <1>6 DEF vars
  <1> QED
    BY <1>1, <1>2, <1>3, <1>4, <1>5, <1>6 DEF Next

(* A snapshot is replaced only before Close, by the refresher in the gate, *)
(* and by the whole of one accepted answer that has routes and no          *)
(* conflicts: a refresh that fails half-way leaves the last good one       *)
(* (publish).                                                              *)
THEOREM WholeAnswersOnly == Spec => PublishedWhole
  <1>1. IInv /\ [Next]_vars =>
          [snapshot' # snapshot =>
             /\ ~Closed
             /\ \E r \in Refreshers, a \in Answers :
                   /\ gate = r /\ seen[r] = Peers(a)
                   /\ Accepted(a) /\ HasRoutes(Peers(a)) /\ ~Conflicting(Peers(a))
                   /\ {t \in Targets : snapshot'[t] # Nil} =
                         {p.target : p \in Peers(a)}]_vars
    BY InstallsWhole, OthersKeepSnapshot
  <1> QED
    BY <1>1, Invariance, PTL DEF Spec, PublishedWhole
-----------------------------------------------------------------------------
(* The refinement of Leases.                                               *)

(* stage of a connection, by what it depends on.                           *)
StageOf(c, op, own, n) ==
    IF c > op THEN "unused"
    ELSE IF c \notin own THEN "lent" ELSE IF n = 0 THEN "open" ELSE "closed"

(* Close calls are never taken back.                                       *)
LEMMA CloseCountGrows ==
  ASSUME TypeOK, NEW S, closes' = CloseCount(S)
  PROVE  \A c \in Conns : closes'[c] >= closes[c]
  BY DEF CloseCount, TypeOK

(* A step that makes no connection and does not release closes only what   *)
(* is free.                                                                *)
LEMMA StepDiscards ==
  ASSUME Registry, Registry', HeldOpen', UNCHANGED <<opened, owned>>,
         \A c \in Conns : closes'[c] >= closes[c],
         phase = "released" <=> phase' = "released"
  PROVE  Pool!Discard /\ UNCHANGED shut
  <1>1. UNCHANGED shut
    BY DEF shut
  <1>2. ASSUME NEW c \in Conns, stage'[c] # stage[c]
        PROVE  /\ stage[c] = "open" /\ stage'[c] = "closed"
               /\ \A p \in Procs : c \notin held'[p]
    <2>1. /\ stage[c] = StageOf(c, opened, owned, closes[c])
          /\ stage'[c] = StageOf(c, opened, owned, closes'[c])
      BY DEF stage, StageOf
    <2>2. /\ c \in owned /\ ~(c > opened)
          /\ (closes[c] = 0) # (closes'[c] = 0)
      BY <1>2, <2>1 DEF StageOf
    <2>3. closes[c] = 0 /\ closes'[c] # 0
      <3>1. closes[c] \in Nat /\ closes'[c] \in Nat /\ closes'[c] >= closes[c]
        BY DEF Registry, TypeOK
      <3> QED
        BY <3>1, <2>2
    <2>4. phase' # "released"
      BY <2>2, <2>3 DEF Registry, NoLeak
    <2>5. \A p \in Procs : c \notin held'[p]
      BY <2>3, <2>4 DEF HeldOpen
    <2> QED
      BY <2>1, <2>2, <2>3, <2>5 DEF StageOf
  <1>3. stage' \in [Conns -> {"unused", "open", "lent", "closed"}]
    BY DEF stage
  <1> QED
    BY <1>1, <1>2, <1>3 DEF Pool!Discard

(* A step that leaves the pins alone is a step of the pool.                *)
LEMMA FreeStep ==
  ASSUME Registry, Registry', HeldOpen', UNCHANGED <<opened, owned, held>>,
         \A c \in Conns : closes'[c] >= closes[c],
         phase = "released" <=> phase' = "released"
  PROVE  Pool!Next
  BY StepDiscards DEF Pool!Next, Pool!Free

(* So is every step that leaves connections and pins alone.                *)
LEMMA IdleStep ==
  ASSUME Registry, Registry', HeldOpen', UNCHANGED <<opened, owned, closes, held>>,
         phase = "released" <=> phase' = "released"
  PROVE  Pool!Next
  <1>1. \A c \in Conns : closes'[c] >= closes[c]
    BY DEF Registry, TypeOK
  <1> QED
    BY <1>1, FreeStep

(* Dropping the pins of a goroutine returns its leases.                    *)
LEMMA ReturnStep ==
  ASSUME Registry, Registry', HeldOpen', NEW p \in Procs, UnpinAndRetire(p),
         UNCHANGED <<opened, owned, phase>>
  PROVE  Pool!Next
  <1>1. \A c \in Conns : closes'[c] >= closes[c]
    BY CloseCountGrows DEF UnpinAndRetire, RetireLocked, Registry
  <1>2. held' = [held EXCEPT ![p] = {}]
    BY DEF UnpinAndRetire
  <1> QED
    BY <1>1, <1>2, StepDiscards DEF Pool!Next, Pool!Return

(* Pinning registered endpoints leases them.                               *)
LEMMA LeaseStep ==
  ASSUME Registry, Registry', HeldOpen',
         NEW p \in Procs, NEW E \in SUBSET Conns, Pin(p, E),
         \A e \in E : \E t \in Targets : nodes[t] = e,
         UNCHANGED <<opened, owned, closes, phase>>, phase # "released"
  PROVE  Pool!Next
  <1>1. held' = [held EXCEPT ![p] = @ \cup E]
    BY DEF Pin
  <1>2. ~shut /\ UNCHANGED <<stage, shut>>
    BY DEF shut, stage
  <1>3. ASSUME NEW e \in E PROVE stage[e] \in {"open", "lent"}
    <2>1. e <= opened
      BY <1>3 DEF Registry, Bounds
    <2>2. e \in held'[p]
      BY <1>1, <1>3 DEF Registry, TypeOK
    <2>3. closes[e] = 0
      BY <2>2 DEF HeldOpen
    <2> QED
      BY <2>1, <2>3, <1>3, ConnFacts DEF stage, Registry
  <1> QED
    BY <1>1, <1>2, <1>3 DEF Pool!Next, Pool!Lease

(* A new connection is made, and closed at once when it is of no use.      *)
LEMMA MakeStep ==
  ASSUME Registry, Registry', NEW isOwned, Dial(isOwned),
         closes' = closes \/ closes' = CloseCount({opened'} \cap owned'),
         UNCHANGED <<held, phase>>, phase # "released"
  PROVE  Pool!Next
  <1>1. opened' \in Conns /\ opened' = opened + 1
    BY ConnFacts DEF Dial, Conns, Registry
  <1>2. ~shut /\ UNCHANGED <<held, shut>>
    BY DEF shut
  <1>3. stage[opened'] = "unused"
    BY <1>1, ConnFacts DEF stage, Registry
  <1>4. ASSUME NEW c \in Conns, c # opened' PROVE stage'[c] = stage[c]
    <2>1. c \in owned' <=> c \in owned
      BY <1>4 DEF Dial
    <2>2. c > opened' <=> c > opened
      BY <1>1, <1>4, ConnFacts DEF Registry
    <2>3. closes'[c] = closes[c]
      BY <1>4 DEF CloseCount
    <2> QED
      BY <2>1, <2>2, <2>3 DEF stage
  <1>5. stage'[opened'] \in {"open", "lent", "closed"}
    BY <1>1, ConnFacts DEF stage, Registry
  <1>6. stage' = [stage EXCEPT ![opened'] = stage'[opened']]
    BY <1>1, <1>4 DEF stage
  <1> QED
    BY <1>1, <1>2, <1>3, <1>5, <1>6 DEF Pool!Next, Pool!Make

(* Close releases the connections: the pool is shut down.                  *)
LEMMA ShutStep ==
  ASSUME Registry, Registry', Release
  PROVE  Pool!Next
  <1>1. ~shut /\ shut' = TRUE /\ UNCHANGED <<held, opened, owned>>
    BY DEF Release, shut
  <1>2. \A c \in owned : closes'[c] # 0
    BY <1>1 DEF Release, Registry, NoLeak
  <1>3. stage' = [c \in Conns |-> IF stage[c] = "open" THEN "closed" ELSE stage[c]]
    BY <1>1, <1>2 DEF stage
  <1> QED
    BY <1>1, <1>3 DEF Pool!Next, Pool!Shut

(* While somebody refreshes, nothing is released.                          *)
LEMMA NotReleased ==
  ASSUME Registry, NEW r \in Refreshers, pc[r] \in GateLabels
  PROVE  phase # "released"
  BY DEF Registry, Released

(* Every step of a refresh is a step of the pool.                          *)
LEMMA RefreshRefines ==
  ASSUME Registry, Registry', HeldOpen', NEW r \in Refreshers, RefreshStep(r)
  PROVE  Pool!Next
  <1>1. CASE EnterRefresh(r) \/ ReturnRefresh(r) \/ BeginAttempt(r)
    BY <1>1, IdleStep DEF EnterRefresh, ReturnRefresh, BeginAttempt, connVars, epVars
  <1>2. CASE DiscoverFails(r) \/ Discovered(r) \/ AbortPublish(r)
    BY <1>2, IdleStep DEF DiscoverFails, Discovered, AbortPublish, connVars, epVars
  <1>3. CASE StoreCoordinator(r)
    <2>1. phase # "released"
      BY <1>3, NotReleased DEF StoreCoordinator, GateLabels
    <2> QED
      BY <1>3, <2>1, MakeStep DEF StoreCoordinator, epVars
  <1>4. CASE DialCoordinatorFails(r)
    <2>1. phase # "released"
      BY <1>4, NotReleased DEF DialCoordinatorFails, GateLabels
    <2>2. CASE DialNil
      <3>1. opened' \in owned'
        BY <2>2 DEF DialNil, Dial
      <3>2. {opened'} = {opened'} \cap owned'
        BY <3>1
      <3> QED
        BY <1>4, <2>1, <2>2, <3>2, MakeStep DEF DialCoordinatorFails, DialNil, epVars
    <2>3. CASE UNCHANGED connVars
      BY <1>4, <2>3, IdleStep DEF DialCoordinatorFails, connVars, epVars
    <2> QED
      BY <1>4, <2>2, <2>3 DEF DialCoordinatorFails
  <1>5. ASSUME NEW p \in todo[r], PublishSeen(r, p) PROVE Pool!Next
    BY <1>5, IdleStep DEF PublishSeen, AddRoutes, connVars, epVars
  <1>6. ASSUME NEW p \in todo[r], PublishReuse(r, p) PROVE Pool!Next
    <2>1. phase # "released"
      BY <1>6, NotReleased DEF PublishReuse, Publishing, GateLabels
    <2>2. p.target \in Targets
      BY DEF Registry, TypeOK, AddressedPeer, Peer
    <2>3. nodes[p.target] \in Conns
      BY <1>6, <2>2 DEF PublishReuse, Registry, TypeOK, ConnOrNil
    <2> QED
      BY <1>6, <2>1, <2>2, <2>3, LeaseStep, ProcFacts
      DEF PublishReuse, AddRoutes, connVars
  <1>7. ASSUME NEW p \in todo[r], PublishDial(r, p) PROVE Pool!Next
    <2>1. phase # "released"
      BY <1>7, NotReleased DEF PublishDial, Publishing, GateLabels
    <2> QED
      BY <1>7, <2>1, MakeStep DEF PublishDial, AddRoutes, epVars
  <1>8. ASSUME NEW p \in todo[r], PublishDialFails(r, p) PROVE Pool!Next
    <2>1. phase # "released"
      BY <1>8, NotReleased DEF PublishDialFails, Publishing, GateLabels
    <2>2. CASE DialNil
      <3>1. opened' \in owned'
        BY <2>2 DEF DialNil, Dial
      <3>2. {opened'} = {opened'} \cap owned'
        BY <3>1
      <3> QED
        BY <1>8, <2>1, <2>2, <3>2, MakeStep DEF PublishDialFails, DialNil, epVars
    <2>3. CASE UNCHANGED connVars
      BY <1>8, <2>3, IdleStep DEF PublishDialFails, connVars, epVars
    <2> QED
      BY <1>8, <2>2, <2>3 DEF PublishDialFails
  <1>9. CASE Install(r)
    <2>1. \A c \in Conns : closes'[c] >= closes[c]
      BY <1>9, CloseCountGrows DEF Install, RetireLocked, Registry
    <2> QED
      BY <1>9, <2>1, FreeStep DEF Install
  <1>10. CASE Cleanup(r)
    <2>1. \A c \in Conns : closes'[c] >= closes[c]
      BY <1>10, CloseCountGrows DEF Cleanup, Registry
    <2> QED
      BY <1>10, <2>1, FreeStep DEF Cleanup, epVars
  <1>11. CASE PublishOk(r)
    BY <1>11, ReturnStep, ProcFacts DEF PublishOk
  <1>12. CASE PublishFailed(r)
    BY <1>12, ReturnStep, ProcFacts DEF PublishFailed
  <1> QED
    BY <1>1, <1>2, <1>3, <1>4, <1>5, <1>6, <1>7, <1>8, <1>9, <1>10, <1>11, <1>12
    DEF RefreshStep

(* So is every step of a call.                                             *)
LEMMA RunRefines ==
  ASSUME Registry, Registry', HeldOpen', NEW c \in Calls, StartRun(c) \/ RunStep(c)
  PROVE  Pool!Next
  <1>1. CASE StartRun(c) \/ WaitFails(c) \/ RequestRefresh(c)
    BY <1>1, IdleStep DEF StartRun, WaitFails, RequestRefresh, connVars, epVars
  <1>2. CASE PinSnapshot(c)
    <2>1. phase # "released"
      BY <1>2 DEF PinSnapshot, Closed
    <2>2. Entries(snapshot) \in SUBSET Conns
      BY DEF Entries, Registry, TypeOK, ConnOrNil
    <2>3. \A e \in Entries(snapshot) : \E t \in Targets : nodes[t] = e
      BY DEF Entries, Registry, TypeOK, SnapshotRegistered
    <2> QED
      BY <1>2, <2>1, <2>2, <2>3, LeaseStep, ProcFacts DEF PinSnapshot, connVars
  <1>3. CASE EndRun(c)
    BY <1>3, ReturnStep, ProcFacts DEF EndRun
  <1> QED
    BY <1>1, <1>2, <1>3 DEF RunStep

(* A step of the backend is a step of the pool or changes nothing of it.   *)
LEMMA StepRefines ==
  Registry /\ Registry' /\ HeldOpen' /\ [Next]_vars => [Pool!Next]_Pool!vars
  <1> SUFFICES ASSUME Registry, Registry', HeldOpen', [Next]_vars
               PROVE  Pool!Next \/ UNCHANGED Pool!vars
    OBVIOUS
  <1>1. ASSUME NEW r \in Refreshers,
               CallRefresh(r) \/ AcquireGate(r) \/ GateCanceled(r)
        PROVE  Pool!Next
    BY <1>1, IdleStep DEF CallRefresh, AcquireGate, GateCanceled, connVars, epVars
  <1>2. ASSUME NEW r \in Refreshers, RefreshStep(r) PROVE Pool!Next
    BY <1>2, RefreshRefines
  <1>3. CASE LoopTick \/ LoopWake \/ LoopExit
    BY <1>3, IdleStep DEF LoopTick, LoopWake, LoopExit, connVars, epVars
  <1>4. ASSUME NEW c \in Calls, StartRun(c) \/ RunStep(c) PROVE Pool!Next
    BY <1>4, RunRefines
  <1>5. CASE MarkClosed \/ CancelLife
    BY <1>5, IdleStep DEF MarkClosed, CancelLife, connVars, epVars
  <1>6. CASE Release
    BY <1>6, ShutStep
  <1>7. CASE UNCHANGED vars
    BY <1>7 DEF vars, Pool!vars, stage, shut
  <1> QED
    BY <1>1, <1>2, <1>3, <1>4, <1>5, <1>6, <1>7 DEF Next

(* Reference counting, retirement and Close implement the leases.          *)
THEOREM Refinement == Spec => ImplementsLeases
  <1>1. Init => Pool!Init
    BY BackendAssumption DEF Init, Pool!Init, stage, shut, Conns
  <1>2. Registry /\ Registry' /\ HeldOpen' /\ [Next]_vars => [Pool!Next]_Pool!vars
    BY StepRefines
  <1>3. IInv => Registry
    BY DEF IInv
  <1> QED
    BY <1>1, <1>2, <1>3, Invariance, PinnedStaysOpen, PTL
    DEF Spec, ImplementsLeases, Pool!Spec

(* What the pool promises its users follows from the abstract description  *)
(* alone.                                                                  *)
LEMMA PoolPromise == Pool!Spec => [](Pool!TypeOK /\ Pool!Usable)
  <1> DEFINE P == Pool!TypeOK /\ Pool!Usable
  <1>1. Pool!Init => P
    BY DEF Pool!Init, Pool!TypeOK, Pool!Usable
  <1>2. P /\ [Pool!Next]_Pool!vars => P'
    <2> SUFFICES ASSUME P, [Pool!Next]_Pool!vars PROVE P'
      OBVIOUS
    <2> USE DEF Pool!TypeOK, Pool!Usable
    <2>1. ASSUME NEW c \in Conns, Pool!Make(c) PROVE P'
      BY <2>1 DEF Pool!Make
    <2>2. ASSUME NEW p \in Procs, Pool!Return(p) PROVE P'
      BY <2>2 DEF Pool!Return, Pool!Discard
    <2>3. ASSUME NEW p \in Procs, NEW S \in SUBSET Conns, Pool!Lease(p, S) PROVE P'
      BY <2>3 DEF Pool!Lease
    <2>4. CASE Pool!Free
      BY <2>4 DEF Pool!Free, Pool!Discard
    <2>5. CASE Pool!Shut
      BY <2>5 DEF Pool!Shut
    <2>6. CASE UNCHANGED Pool!vars
      BY <2>6 DEF Pool!vars
    <2> QED
      BY <2>1, <2>2, <2>3, <2>4, <2>5, <2>6 DEF Pool!Next
  <1> QED
    BY <1>1, <1>2, PTL DEF Pool!Spec

(* A connection that a call has pinned is open or lent until Close         *)
(* releases the connections, and then none is open (run, publish, close).  *)
THEOREM PinnedIsUsable == Spec => []Pool!Usable
  BY Refinement, PoolPromise, PTL DEF ImplementsLeases
=============================================================================

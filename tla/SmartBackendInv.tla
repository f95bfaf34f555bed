-------------------------- MODULE SmartBackendInv ---------------------------
(***************************************************************************)
(* The inductive invariant behind the safety properties of SmartBackend.   *)
(* TLC checks it on the instances of MCSmartBackend, and                   *)
(* SmartBackendProofs proves it.                                           *)
(***************************************************************************)
EXTENDS SmartBackend

(* Where a refresher holds the gate, and where it is inside publish().     *)
GateLabels == {"attempt", "dial", "stream", "publish", "installed", "cleanup",
               "abandoned"}
PublishLabels == {"publish", "installed", "cleanup", "abandoned"}

(* Nothing refers to a connection that has not been made.                  *)
Bounds ==
    /\ \A t \in Targets : nodes[t] <= opened /\ snapshot[t] <= opened
    /\ \A d \in CoordinatorAddr : coords[d] <= opened
    /\ \A r \in Refreshers : \A t \in Targets : snap[r][t] <= opened
    /\ \A c \in Conns : c > opened => closes[c] = 0

(* One refresher at a time discovers and publishes.                        *)
Gated == \A r \in Refreshers : pc[r] \in GateLabels => gate = r

(* An attempt is one of at most NumCoordinators.                           *)
Trying ==
    \A r \in Refreshers :
        pc[r] \in GateLabels \ {"attempt"} => tries[r] < NumCoordinators

(* Outside publish() and outside run() nothing is pinned.                  *)
Unpinned ==
    /\ \A r \in Refreshers : pc[r] \notin PublishLabels =>
                                held[r] = {} /\ snap[r] = NoTargets
    /\ \A c \in Calls : pc[c] \in {"idle", "wait"} => held[c] = {}

(* A coordinator is dialled only while it has no connection.               *)
DialNeeded ==
    \A r \in Refreshers : pc[r] = "dial" => coords[Coordinator(r)] = Nil

(* A connection has one place.                                             *)
Distinct ==
    /\ \A t, u \in Targets : nodes[t] = nodes[u] /\ nodes[t] # Nil => t = u
    /\ \A d, f \in CoordinatorAddr : coords[d] = coords[f] /\ coords[d] # Nil => d = f
    /\ \A t \in Targets, d \in CoordinatorAddr :
          nodes[t] # Nil => nodes[t] # coords[d]
    /\ \A r \in Refreshers : \A t, u \in Targets :
          snap[r][t] = snap[r][u] /\ snap[r][t] # Nil => t = u

(* What is pinned is registered, and a publication pins what it reuses.    *)
HeldRegistered ==
    /\ \A p \in Procs : \A e \in held[p] : \E t \in Targets : nodes[t] = e
    /\ \A r \in Refreshers : \A e \in held[r] : \E t \in Targets : snap[r][t] = e

(* refs counts the goroutines that hold an endpoint.                       *)
Holders(e) == {p \in Procs : e \in held[p]}
RefsExact == \A e \in Conns : refs[e] = Cardinality(Holders(e))

(* What a publication has made belongs to it alone until it is installed   *)
(* or closed.                                                              *)
CreatedPrivate ==
    \A r \in Refreshers : pc[r] \in {"publish", "cleanup"} =>
        \A t \in Targets : snap[r][t] # Nil /\ snap[r][t] \notin held[r] =>
            /\ closes[snap[r][t]] = 0 /\ snap[r][t] \notin epClosed
            /\ \A u \in Targets : nodes[u] # snap[r][t]
            /\ \A d \in CoordinatorAddr : coords[d] # snap[r][t]
CreatedClosed ==
    \A r \in Refreshers : pc[r] = "abandoned" =>
        \A t \in Targets :
            snap[r][t] \in owned /\ snap[r][t] \notin held[r]
                => closes[snap[r][t]] # 0
Installed == \A r \in Refreshers : pc[r] = "installed" => snapshot = snap[r]

SnapshotRegistered ==
    \A t \in Targets : snapshot[t] # Nil => /\ nodes[t] = snapshot[t]
                                            /\ snapshot[t] \in active

(* Registered connections are open until Close releases them.              *)
RegisteredOpen ==
    phase # "released" =>
        /\ \A t \in Targets : nodes[t] # Nil => /\ closes[nodes[t]] = 0
                                                /\ nodes[t] \notin epClosed
        /\ \A d \in CoordinatorAddr : coords[d] # Nil => closes[coords[d]] = 0
Released ==
    phase = "released" =>
        /\ \A t \in Targets : nodes[t] # Nil => nodes[t] \in epClosed
        /\ \A r \in Refreshers : pc[r] \notin GateLabels \cup {"gate"}

(* A publication works off one accepted answer: the endpoints of its       *)
(* snapshot are those of the peers done, which do not conflict.            *)
BuiltBy(r) ==
    /\ pc[r] \notin PublishLabels => seen[r] = {}
    /\ pc[r] = "publish" =>
          /\ \E a \in Answers : Accepted(a) /\ seen[r] \cup todo[r] = Peers(a)
          /\ {t \in Targets : snap[r][t] # Nil} = {p.target : p \in seen[r]}
          /\ ~Conflicting(seen[r])
Built == \A r \in Refreshers : BuiltBy(r)

(* Connections, endpoints and references.                                  *)
Registry ==
    /\ TypeOK /\ Bounds /\ Gated /\ Trying /\ Unpinned /\ DialNeeded /\ Distinct
    /\ HeldRegistered /\ RefsExact
    /\ ResolutionFresh /\ CreatedPrivate /\ CreatedClosed /\ Installed
    /\ SnapshotRegistered /\ RetiredPromptly
    /\ RegisteredOpen /\ Released /\ ClosedOnce /\ NoLeak

IInv == Registry /\ Built
=============================================================================

------------------------------- MODULE Leases -------------------------------
(***************************************************************************)
(* What a pool of shared connections promises to its users: a connection   *)
(* that somebody has leased stays open until the pool is shut down, one    *)
(* that was closed stays so, and a pool that was shut down has nothing     *)
(* open and leases nothing.  How the pool knows which connections are free *)
(* is not its users' concern; SmartBackend knows it by counting (module    *)
(* SmartBackendLeases).                                                    *)
(***************************************************************************)
CONSTANTS
    Procs,          \* the users of the pool
    Conns           \* the connections

VARIABLES
    stage,          \* of a connection: "unused", "open", "lent" or "closed"
    lease,          \* the connections each user may use
    shut            \* the pool is shut down

vars == <<stage, lease, shut>>

(* A connection that is closed by the pool is "open" before; one that only *)
(* its provider closes is "lent".                                          *)
TypeOK ==
    /\ stage \in [Conns -> {"unused", "open", "lent", "closed"}]
    /\ lease \in [Procs -> SUBSET Conns]
    /\ shut \in BOOLEAN

Init ==
    /\ stage = [c \in Conns |-> "unused"]
    /\ lease = [p \in Procs |-> {}]
    /\ shut = FALSE

(* A connection is made; it may be of no use and closed at once.           *)
Make(c) ==
    /\ ~shut /\ stage[c] = "unused"
    /\ stage' \in {[stage EXCEPT ![c] = s] : s \in {"open", "lent", "closed"}}
    /\ UNCHANGED <<lease, shut>>

Lease(p, S) ==
    /\ ~shut
    /\ \A c \in S : stage[c] \in {"open", "lent"}
    /\ lease' = [lease EXCEPT ![p] = @ \cup S]
    /\ UNCHANGED <<stage, shut>>

(* Open connections that nobody will have leased after this step may be    *)
(* closed by it.                                                           *)
Discard ==
    /\ \A c \in Conns : stage'[c] # stage[c] =>
          /\ stage[c] = "open" /\ stage'[c] = "closed"
          /\ \A p \in Procs : c \notin lease'[p]
    /\ stage' \in [Conns -> {"unused", "open", "lent", "closed"}]

Free ==
    /\ UNCHANGED <<lease, shut>>
    /\ Discard

Return(p) ==
    /\ lease' = [lease EXCEPT ![p] = {}]
    /\ UNCHANGED shut
    /\ Discard

(* Nobody is asked any more.                                               *)
Shut ==
    /\ ~shut /\ shut' = TRUE
    /\ stage' = [c \in Conns |-> IF stage[c] = "open" THEN "closed" ELSE stage[c]]
    /\ UNCHANGED lease

Next ==
    \/ \E c \in Conns : Make(c)
    \/ \E p \in Procs : Return(p) \/ \E S \in SUBSET Conns : Lease(p, S)
    \/ Free \/ Shut

Spec == Init /\ [][Next]_vars

(* A leased connection works until the pool is shut down, and then nothing *)
(* is open.                                                                *)
Usable ==
    /\ ~shut => \A p \in Procs : \A c \in lease[p] : stage[c] \in {"open", "lent"}
    /\ shut => \A c \in Conns : stage[c] # "open"
=============================================================================

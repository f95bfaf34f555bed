------------------------- MODULE SmartBackendLeases -------------------------
(***************************************************************************)
(* The connections of SmartBackend are a pool in the sense of Leases: what *)
(* a goroutine counts in refs is what it has leased, and Close shuts the   *)
(* pool down when it releases the connections.                             *)
(***************************************************************************)
EXTENDS SmartBackendInv

stage ==
    [c \in Conns |-> IF c > opened THEN "unused"
                     ELSE IF c \notin owned THEN "lent"
                     ELSE IF closes[c] = 0 THEN "open" ELSE "closed"]
shut == phase = "released"

Pool == INSTANCE Leases WITH lease <- held

(* Reference counts, retirement, cleanup and Close together implement the  *)
(* leases: whatever discoveries, calls and Close do in whatever order, no  *)
(* connection is closed under a call or a publication that counts it until *)
(* Close releases everything, none is used again after it was closed or    *)
(* left open by Close, and none that is closed is pinned (smart.go).       *)
ImplementsLeases == Pool!Spec
=============================================================================

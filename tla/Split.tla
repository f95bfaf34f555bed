------------------------------- MODULE Split --------------------------------
(***************************************************************************)
(* split() of collections.go, one step per turn of its loops: it measures  *)
(* the bare request and every item by itself, then packs greedily, with a  *)
(* binary search for the end of each span.                                 *)
(*                                                                         *)
(* A definition named Fault... is a deliberately wrong variant of the one  *)
(* below it; no specification uses it.                                     *)
(***************************************************************************)
EXTENDS Spans

CONSTANTS
    Inputs,             \* what split() may be called on
    NumItems(_),        \* n
    Size(_, _, _),      \* Size(in, i, j) = proto.Size(build(i, j))
    MaxRequestBytes     \* s.config.MaxRequestBytes

ASSUME SplitAssumption ==
    /\ MaxRequestBytes \in Nat
    /\ \A in \in Inputs :
          /\ NumItems(in) \in Nat
          /\ \A i, j \in 0..NumItems(in) : Size(in, i, j) \in Nat

VARIABLES
    in,             \* the input
    loop,             \* which loop runs, or how split() has returned
    next,           \* i of the first loop
    start, lo, hi,  \* the span being packed and its binary search
    parts           \* the spans found

splitVars == <<in, loop, next, start, lo, hi, parts>>

n == NumItems(in)
SizeOf(i, j) == Size(in, i, j)
Fits(i, j) == SizeOf(i, j) <= MaxRequestBytes

SplitInit ==
    /\ in \in Inputs
    /\ loop = "header"
    /\ next = 0 /\ start = 0 /\ lo = 0 /\ hi = 0 /\ parts = <<>>

CheckHeader ==
    /\ loop = "header"
    /\ loop' = IF Fits(0, 0) THEN "items" ELSE "refused"
    /\ UNCHANGED <<in, next, start, lo, hi, parts>>

(* The context of the call ends before an item is measured.                *)
Canceled ==
    /\ loop = "items" /\ next < n
    /\ loop' = "canceled"
    /\ UNCHANGED <<in, next, start, lo, hi, parts>>

(* Fault (RefusedRightly): items are not measured by themselves.           *)
FaultCheckItem ==
    /\ loop = "items" /\ next < n
    /\ next' = next + 1
    /\ UNCHANGED <<in, loop, start, lo, hi, parts>>

CheckItem ==
    /\ loop = "items" /\ next < n
    /\ IF Fits(next, next + 1) THEN next' = next + 1 /\ UNCHANGED loop
                               ELSE loop' = "refused" /\ UNCHANGED next
    /\ UNCHANGED <<in, start, lo, hi, parts>>

ItemsChecked ==
    /\ loop = "items" /\ next = n
    /\ loop' = "pack"
    /\ UNCHANGED <<in, next, start, lo, hi, parts>>

BeginSpan ==
    /\ loop = "pack" /\ start < n
    /\ loop' = "search"
    /\ lo' = start + 1 /\ hi' = n
    /\ UNCHANGED <<in, next, start, parts>>

(* Fault (Terminates): the middle is rounded down.                         *)
FaultMid == lo + (hi - lo) \div 2

Mid == lo + (hi - lo + 1) \div 2

(* Fault (SpansPacked): a request of exactly the limit is not accepted.    *)
FaultProbe ==
    /\ loop = "search" /\ lo < hi
    /\ IF SizeOf(start, Mid) < MaxRequestBytes
       THEN lo' = Mid /\ UNCHANGED hi
       ELSE hi' = Mid - 1 /\ UNCHANGED lo
    /\ UNCHANGED <<in, loop, next, start, parts>>

Probe ==
    /\ loop = "search" /\ lo < hi
    /\ IF Fits(start, Mid) THEN lo' = Mid /\ UNCHANGED hi
                           ELSE hi' = Mid - 1 /\ UNCHANGED lo
    /\ UNCHANGED <<in, loop, next, start, parts>>

(* Fault (SpansCover): the spans share an end.                             *)
FaultEndSpan ==
    /\ loop = "search" /\ lo >= hi
    /\ parts' = Append(parts, [start |-> start, end |-> lo])
    /\ start' = IF lo < n THEN lo - 1 ELSE lo
    /\ loop' = "pack"
    /\ UNCHANGED <<in, next, lo, hi>>

EndSpan ==
    /\ loop = "search" /\ lo >= hi
    /\ parts' = Append(parts, [start |-> start, end |-> lo])
    /\ start' = lo
    /\ loop' = "pack"
    /\ UNCHANGED <<in, next, lo, hi>>

Return ==
    /\ loop = "pack" /\ start >= n
    /\ loop' = "returned"
    /\ UNCHANGED <<in, next, start, lo, hi, parts>>

SplitNext ==
    \/ CheckHeader \/ Canceled \/ CheckItem \/ ItemsChecked
    \/ BeginSpan \/ Probe \/ EndSpan \/ Return

SplitSpec == SplitInit /\ [][SplitNext]_splitVars

(* A goroutine in a loop without blocking operations goes on.              *)
FairSpec == SplitSpec /\ WF_splitVars(SplitNext)
-----------------------------------------------------------------------------
(* Every variable has its type; the indices stay within the input.         *)
TypeOK ==
    /\ in \in Inputs
    /\ loop \in {"header", "items", "pack", "search", "refused", "canceled",
               "returned"}
    /\ next \in 0..n
    /\ start \in 0..n /\ lo \in 0..n /\ hi \in 0..n
    /\ parts \in Seq(Span)

(* The spans found so far are consecutive, none is empty, and they cover   *)
(* the items up to start; the spans returned cover the whole input: no     *)
(* item is dropped or sent twice (split).                                  *)
SpansCover ==
    /\ Cover(parts, start)
    /\ loop = "returned" => Cover(parts, n)

(* Every request built from a span is within MaxRequestBytes (split).      *)
SpansFit == Fit(parts, SizeOf, MaxRequestBytes)

(* The binary search does not stop early: the next item would not fit.     *)
SpansGreedy == Greedy(parts, SizeOf, MaxRequestBytes, n)

(* The spans are packed: each makes a request within the limit and, but    *)
(* for the last, could not take one more item (split).                     *)
SpansPacked == SpansFit /\ SpansGreedy

(* An input is refused exactly when the bare request or an item by itself  *)
(* is over the limit, so before anything is sent (split).                  *)
RefusedRightly ==
    LET large == TooLarge(SizeOf, MaxRequestBytes, n)
    IN  /\ loop = "refused" => large
        /\ loop = "returned" => ~large

(* split() returns.                                                        *)
Terminates == <>(loop \in {"refused", "canceled", "returned"})
=============================================================================

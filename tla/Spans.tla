------------------------------- MODULE Spans --------------------------------
(***************************************************************************)
(* What split() (collections.go) promises about the spans it returns:      *)
(* module Split shows that the algorithm keeps the promise, and module     *)
(* Batch relies on it.  A span [start, end) holds the items with the       *)
(* indices start .. end-1, counted from 0 as in the code.                  *)
(***************************************************************************)
EXTENDS Naturals, Sequences

Span == [start : Nat, end : Nat]

(* The spans follow one another without gap or overlap, none is empty, and *)
(* together they are [0, n).                                               *)
Cover(parts, n) ==
    /\ \A k \in DOMAIN parts : parts[k].start < parts[k].end
    /\ \A k \in DOMAIN parts :
          parts[k].start = IF k = 1 THEN 0 ELSE parts[k - 1].end
    /\ n = IF parts = <<>> THEN 0 ELSE parts[Len(parts)].end

(* The request of every span is within the limit.  Size(i, j) is           *)
(* proto.Size(build(i, j)).                                                *)
Fit(parts, Size(_, _), limit) ==
    \A k \in DOMAIN parts : Size(parts[k].start, parts[k].end) <= limit

(* No span but the last could take its next item as well.                  *)
Greedy(parts, Size(_, _), limit, n) ==
    \A k \in DOMAIN parts :
        parts[k].end < n => Size(parts[k].start, parts[k].end + 1) > limit

(* split() refuses an input for its size: the bare request or one item is  *)
(* already over the limit.                                                 *)
TooLarge(Size(_, _), limit, n) ==
    \/ Size(0, 0) > limit
    \/ \E k \in 0..(n - 1) : Size(k, k + 1) > limit
=============================================================================

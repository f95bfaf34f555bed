---------------------------- MODULE BatchProofs -----------------------------
(***************************************************************************)
(* What a collection mutation does to the container, for every operation,  *)
(* every content of the container, every size of items and every limit.    *)
(***************************************************************************)
EXTENDS Batch, SequenceTheorems, FiniteSetTheorems, WellFoundedInduction, TLAPS

Entry == [start : Nat, end : Nat, reply : {"ok", "rejected", "failed"}]
IsContainer(s) == IF Ordered THEN s \in Seq(Nat) ELSE IsFiniteSet(s)

Typed ==
    /\ call \in Operations /\ pc \in {"prepare", "send", "returned"}
    /\ attempt \in {1, 2}
    /\ parts \in Seq(Span) /\ next \in 1..(Len(parts) + 1)
    /\ hint \in 0..MaxHint
    /\ done \in 0..n /\ chunks \in Nat /\ count \in 0..MaxUint32
    /\ IsContainer(initial) /\ IsContainer(store)
    /\ log \in Seq(Entry)

(* The first d items in the order of sending, as a set.                    *)
Covered(d) == IF call.kind = "after" THEN (n - d + 1)..n ELSE 1..d

(* The spans follow one another in the order of sending.                   *)
Follow(ps) ==
    /\ \A k \in DOMAIN ps : ps[k].start <= ps[k].end /\ ps[k].end <= n
    /\ IF call.kind = "after"
       THEN /\ \A k \in DOMAIN ps : ps[k].end = IF k = 1 THEN n ELSE ps[k - 1].start
            /\ IF ps = <<>> THEN n = 0 ELSE ps[Len(ps)].start = 0
       ELSE /\ \A k \in DOMAIN ps : ps[k].start = IF k = 1 THEN 0 ELSE ps[k - 1].end
            /\ n = IF ps = <<>> THEN 0 ELSE ps[Len(ps)].end

(* Every request is within the limit, with whatever hint it will carry.    *)
AllFit(ps) ==
    \A k \in DOMAIN ps :
        IF ~Creating THEN AddSize(call.hint, ps[k].start, ps[k].end) <= MaxRequestBytes
        ELSE IF k = 1 THEN CreateSize(MaxHint, ps[k].start, ps[k].end) <= MaxRequestBytes
        ELSE AddSize(MaxHint, ps[k].start, ps[k].end) <= MaxRequestBytes

(* Before an attempt has sent anything.                                    *)
Untouched ==
    pc = "prepare" =>
        /\ next = 1 /\ hint = call.hint /\ done = 0 /\ chunks = 0 /\ count = 0
        /\ Replied("ok") = {} /\ (~lost => store = initial)
        /\ attempt = 1 => log = <<>>

(* Between two requests: what is acknowledged is the first done items.     *)
Underway ==
    pc = "send" =>
        /\ ok /\ Follow(parts) /\ AllFit(parts) /\ ~PositionOverflows
        /\ ~Creating => hint = call.hint
        /\ chunks = next - 1 /\ (next = 1 => done = 0)
        /\ IF next > Len(parts) THEN done = n
           ELSE IF call.kind = "after" THEN parts[next].end = n - done
           ELSE parts[next].start = done
        /\ Cardinality(Replied("ok")) = chunks
        /\ ItemsIn(Replied("ok")) = Covered(done)
        /\ ~lost => store = Apply(initial, call.pos, FirstItems(done))
        /\ ~lost /\ ~Creating => count = Distance(initial, store)

(* Nothing is acknowledged when the operation may be repeated.             *)
Repeatable ==
    Ended /\ result.code \in {"Unavailable", "FailedPrecondition"} /\ ~result.partial
        => Replied("ok") = {} /\ (~lost => store = initial)

IInv ==
    /\ Typed /\ Untouched /\ Underway /\ Repeatable
    /\ ChunksAsOneRequest /\ PartialExact /\ AckedNotResent /\ RefusedUntouched
    /\ CountIsTrue
-----------------------------------------------------------------------------

(* A nonempty set of natural numbers has a least element.                  *)
LEMMA LeastNat ==
  ASSUME NEW T \in SUBSET Nat, T # {}
  PROVE  \E x \in T : \A y \in T : x <= y
  <1> DEFINE R == OpToRel(<, Nat)
  <1>1. IsWellFoundedOn(R, Nat)
    BY NatLessThanWellFounded
  <1>2. \A x, y \in Nat : y < x => <<y, x>> \in R
    BY DEF OpToRel
  <1> HIDE DEF R
  <1>3. PICK x \in T : \A y \in T : ~(<<y, x>> \in R)
    BY <1>1, WFMin
  <1>4. \A y \in T : ~(y < x)
    BY <1>2, <1>3
  <1>5. QED
    BY <1>4

(* The pivot is the first of its kind, or there is none.                   *)
LEMMA PivotProps ==
  ASSUME NEW s \in Seq(Nat)
  PROVE  \/ PivotAt(s) = 0 /\ \A i \in 1..Len(s) : s[i] # Pivot
         \/ /\ PivotAt(s) \in 1..Len(s) /\ s[PivotAt(s)] = Pivot
            /\ \A i \in 1..(PivotAt(s) - 1) : s[i] # Pivot
  <1> DEFINE I == {i \in 1..Len(s) : s[i] = Pivot}
  <1>1. PivotAt(s) = IF I # {} THEN Min(I) ELSE 0
    BY DEF PivotAt, SelectInSeq
  <1>2. CASE I # {}
    <2> HIDE DEF I
    <2>1. I \in SUBSET Nat
      BY DEF I
    <2>2. \E x \in I : \A y \in I : x <= y
      BY <1>2, <2>1, LeastNat
    <2>3. PivotAt(s) \in I /\ \A y \in I : PivotAt(s) <= y
      BY <1>1, <1>2, <2>2 DEF Min
    <2>4. \A i \in 1..(PivotAt(s) - 1) : i \in 1..Len(s) /\ ~(PivotAt(s) <= i)
      BY <2>3 DEF I
    <2>5. QED
      BY <2>3, <2>4 DEF I
  <1>3. CASE I = {}
    BY <1>1, <1>3
  <1>4. QED
    BY <1>2, <1>3

(* What the server does, by the kind of the call.                          *)
LEMMA ApplyOf ==
  ASSUME NEW s, NEW pos, NEW chunk
  PROVE  /\ call.kind = "head" => Apply(s, pos, chunk) = Reverse(chunk) \o s
         /\ call.kind \in {"tail", "createSequence"} =>
               Apply(s, pos, chunk) = s \o chunk
         /\ call.kind = "position" =>
               Apply(s, pos, chunk) =
                  Insert(s, IF pos < Len(s) THEN pos ELSE Len(s), chunk)
         /\ call.kind = "before" =>
               Apply(s, pos, chunk) = IF PivotAt(s) = 0 THEN s
                                      ELSE Insert(s, PivotAt(s) - 1, chunk)
         /\ call.kind = "after" =>
               Apply(s, pos, chunk) = IF PivotAt(s) = 0 THEN s
                                      ELSE Insert(s, PivotAt(s), chunk)
         /\ call.kind = "remove" => Apply(s, pos, chunk) = s \ Range(chunk)
         /\ call.kind \in {"createSet", "bool", "orderedBool", "generic"} =>
               Apply(s, pos, chunk) = s \cup Range(chunk)
  BY DEF Apply, Effect
-----------------------------------------------------------------------------
(* Items, and what an insertion makes of a sequence.                       *)

(* Values(i, j) is the sequence i+1, ..., j.                               *)
LEMMA ValuesProps ==
  ASSUME NEW i \in Nat, NEW j \in Nat, i <= j
  PROVE  /\ Values(i, j) \in Seq(Nat) /\ Len(Values(i, j)) = j - i
         /\ \A k \in 1..(j - i) : Values(i, j)[k] = i + k
         /\ Range(Values(i, j)) = (i + 1)..j
         /\ i = j => Values(i, j) = <<>>
  <1>1. /\ Values(i, j) \in Seq(Nat) /\ Len(Values(i, j)) = j - i
        /\ \A k \in 1..(j - i) : Values(i, j)[k] = i + k
        /\ DOMAIN Values(i, j) = 1..(j - i)
    BY DEF Values
  <1>2. ASSUME NEW x \in (i + 1)..j PROVE x \in Range(Values(i, j))
    <2>1. x - i \in 1..(j - i) /\ Values(i, j)[x - i] = x
      BY <1>1
    <2>2. QED
      BY <1>1, <2>1 DEF Range
  <1>3. ASSUME NEW x \in Range(Values(i, j)) PROVE x \in (i + 1)..j
    <2>1. PICK k \in 1..(j - i) : x = Values(i, j)[k]
      BY <1>1 DEF Range
    <2>2. QED
      BY <1>1, <2>1
  <1>4. i = j => Values(i, j) = <<>>
    BY <1>1
  <1>5. QED
    BY <1>1, <1>2, <1>3, <1>4

(* Reverse keeps the length and turns the indices round.                   *)
LEMMA ReverseProps ==
  ASSUME NEW S, NEW s \in Seq(S)
  PROVE  /\ Reverse(s) \in Seq(S) /\ Len(Reverse(s)) = Len(s)
         /\ \A k \in 1..Len(s) : Reverse(s)[k] = s[Len(s) - k + 1]
  <1>1. \A k \in 1..Len(s) : Len(s) - k + 1 \in 1..Len(s)
    OBVIOUS
  <1>2. \A k \in 1..Len(s) : s[Len(s) - k + 1] \in S
    BY <1>1
  <1>3. QED
    BY <1>1, <1>2 DEF Reverse

(* An insertion moves what is behind it and changes nothing else.          *)
LEMMA InsertProps ==
  ASSUME NEW s \in Seq(Nat), NEW c \in Seq(Nat), NEW at \in 0..Len(s)
  PROVE  /\ Insert(s, at, c) \in Seq(Nat)
         /\ Len(Insert(s, at, c)) = Len(s) + Len(c)
         /\ \A k \in 1..at : Insert(s, at, c)[k] = s[k]
         /\ \A k \in (at + 1)..(at + Len(c)) : Insert(s, at, c)[k] = c[k - at]
         /\ \A k \in (at + Len(c) + 1)..(Len(s) + Len(c)) :
               Insert(s, at, c)[k] = s[k - Len(c)]
  <1> DEFINE u == SubSeq(s, 1, at)
             v == SubSeq(s, at + 1, Len(s))
             w == u \o c
  <1>1. Len(s) \in Nat /\ Len(c) \in Nat /\ at \in Nat
    OBVIOUS
  <1>2. /\ u \in Seq(Nat) /\ Len(u) = at
        /\ \A k \in 1..at : u[k] = s[k]
    <2>1. \A k \in 1..at : s[k] \in Nat
      OBVIOUS
    <2>2. /\ u \in Seq(Nat) /\ Len(u) = IF 1 <= at THEN at - 1 + 1 ELSE 0
          /\ \A k \in 1..(at - 1 + 1) : u[k] = s[1 + k - 1]
      BY <1>1, <2>1, SubSeqProperties
    <2>3. QED
      BY <1>1, <2>2
  <1>3. /\ v \in Seq(Nat) /\ Len(v) = Len(s) - at
        /\ \A k \in 1..(Len(s) - at) : v[k] = s[at + k]
    <2>1. \A k \in (at + 1)..Len(s) : s[k] \in Nat
      OBVIOUS
    <2>2. /\ v \in Seq(Nat)
          /\ Len(v) = IF at + 1 <= Len(s) THEN Len(s) - (at + 1) + 1 ELSE 0
          /\ \A k \in 1..(Len(s) - (at + 1) + 1) : v[k] = s[at + 1 + k - 1]
      BY <1>1, <2>1, SubSeqProperties
    <2>3. QED
      BY <1>1, <2>2, SMTT(30)
  <1> HIDE DEF u, v
  <1>4. /\ w \in Seq(Nat) /\ Len(w) = at + Len(c)
        /\ \A k \in 1..(at + Len(c)) : w[k] = IF k <= at THEN u[k] ELSE c[k - at]
    BY <1>2, ConcatProperties
  <1> HIDE DEF w
  <1>5. /\ w \o v \in Seq(Nat) /\ Len(w \o v) = Len(s) + Len(c)
        /\ \A k \in 1..(Len(s) + Len(c)) :
              (w \o v)[k] = IF k <= at + Len(c) THEN w[k] ELSE v[k - (at + Len(c))]
    <2>1. /\ w \o v \in Seq(Nat) /\ Len(w \o v) = Len(w) + Len(v)
          /\ \A k \in 1..(Len(w) + Len(v)) :
                (w \o v)[k] = IF k <= Len(w) THEN w[k] ELSE v[k - Len(w)]
      BY <1>3, <1>4, ConcatProperties
    <2>2. Len(w) + Len(v) = Len(s) + Len(c)
      BY <1>1, <1>3, <1>4
    <2>3. QED
      BY <2>1, <2>2, <1>4
  <1>6. Insert(s, at, c) = w \o v
    BY DEF Insert, u, v, w
  <1>7. \A k \in 1..at : (w \o v)[k] = s[k]
    BY <1>1, <1>2, <1>4, <1>5, SMTT(30)
  <1>8. \A k \in (at + 1)..(at + Len(c)) : (w \o v)[k] = c[k - at]
    BY <1>1, <1>4, <1>5, SMTT(30)
  <1>9. \A k \in (at + Len(c) + 1)..(Len(s) + Len(c)) :
           (w \o v)[k] = s[k - Len(c)]
    <2> SUFFICES ASSUME NEW k \in (at + Len(c) + 1)..(Len(s) + Len(c))
                 PROVE  (w \o v)[k] = s[k - Len(c)]
      OBVIOUS
    <2>1. /\ k - (at + Len(c)) \in 1..(Len(s) - at)
          /\ at + (k - (at + Len(c))) = k - Len(c)
          /\ k \in 1..(Len(s) + Len(c)) /\ ~(k <= at + Len(c))
      BY <1>1
    <2>2. (w \o v)[k] = v[k - (at + Len(c))]
      BY <2>1, <1>5
    <2>3. QED
      BY <2>1, <2>2, <1>3
  <1>10. QED
    BY <1>5, <1>6, <1>7, <1>8, <1>9

(* Three lists may be joined in either order.                              *)
LEMMA ThreeParts ==
  ASSUME NEW s \in Seq(Nat), NEW t \in Seq(Nat), NEW u \in Seq(Nat)
  PROVE  (s \o t) \o u = s \o (t \o u)
  BY ConcatAssociative, SMTT(30)

(* Nothing inserted, nothing changed.                                      *)
LEMMA InsertNothing ==
  ASSUME NEW s \in Seq(Nat), NEW at \in 0..Len(s)
  PROVE  Insert(s, at, <<>>) = s
  <1> DEFINE c == <<>>
             t == Insert(s, at, c)
  <1>1. c \in Seq(Nat) /\ Len(c) = 0 /\ Len(s) \in Nat /\ at \in Nat
    OBVIOUS
  <1> HIDE DEF c
  <1>2. /\ t \in Seq(Nat) /\ Len(t) = Len(s) + Len(c)
        /\ \A k \in 1..at : t[k] = s[k]
        /\ \A k \in (at + Len(c) + 1)..(Len(s) + Len(c)) : t[k] = s[k - Len(c)]
    BY <1>1, InsertProps, ZenonT(40)
  <1> HIDE DEF t
  <1>3. Len(t) = Len(s) /\ \A k \in 1..Len(s) : t[k] = s[k]
    BY <1>1, <1>2
  <1>4. t = s
    BY <1>2, <1>3, SeqEqual
  <1>5. QED
    BY <1>4 DEF t, c

(* t is s, of length l, with c, of length p, inserted behind index at.     *)
Inserted(s, l, at, c, p, t) ==
    /\ \A k \in 1..at : t[k] = s[k]
    /\ \A k \in (at + 1)..(at + p) : t[k] = c[k - at]
    /\ \A k \in (at + p + 1)..(l + p) : t[k] = s[k - p]

(* e is c, of length p, followed by d, of length q.                        *)
Joined(c, p, d, q, e) ==
    \A k \in 1..(p + q) : e[k] = IF k <= p THEN c[k] ELSE d[k - p]

(* y is x, of length p, turned round.                                      *)
Reversed(x, p, y) == \A k \in 1..p : y[k] = x[p - k + 1]

(* A list inserted into another, place by place.                           *)
LEMMA InsertedAll ==
  ASSUME NEW s \in Seq(Nat), NEW c \in Seq(Nat), NEW at \in 0..Len(s)
  PROVE  Inserted(s, Len(s), at, c, Len(c), Insert(s, at, c))
  BY InsertProps DEF Inserted

(* Two lists joined, place by place.                                       *)
LEMMA JoinedAll ==
  ASSUME NEW c \in Seq(Nat), NEW d \in Seq(Nat)
  PROVE  Joined(c, Len(c), d, Len(d), c \o d)
  BY ConcatProperties DEF Joined

(* A list turned around, place by place.                                   *)
LEMMA ReversedAll ==
  ASSUME NEW c \in Seq(Nat)
  PROVE  Reversed(c, Len(c), Reverse(c))
  BY ReverseProps DEF Reversed

(* The elements of two insertions, one right behind the other.             *)
LEMMA BehindPoints ==
  ASSUME NEW l \in Nat, NEW p \in Nat, NEW q \in Nat, NEW at \in Nat, at <= l,
         NEW b \in Nat, b = at + p,
         NEW s, NEW c, NEW d, NEW t, NEW e, NEW u, NEW v,
         Inserted(s, l, at, c, p, t), Joined(c, p, d, q, e),
         Inserted(t, l + p, b, d, q, u), Inserted(s, l, at, e, p + q, v)
  PROVE  \A k \in 1..(l + p + q) : u[k] = v[k]
  <1> SUFFICES ASSUME NEW k \in Nat, 1 <= k, k <= l + p + q
               PROVE  u[k] = v[k]
    OBVIOUS
  <1>1. CASE k <= at
    BY <1>1 DEF Inserted
  <1>2. CASE at < k /\ k <= at + p
    BY <1>2 DEF Inserted, Joined
  <1>3. CASE at + p < k /\ k <= at + p + q
    BY <1>3 DEF Inserted, Joined
  <1>4. CASE at + p + q < k
    <2>1. k \in (b + q + 1)..(l + p + q) /\ k - q \in (at + p + 1)..(l + p)
      BY <1>4
    <2>2. u[k] = t[k - q] /\ t[k - q] = s[k - q - p]
      BY <2>1 DEF Inserted
    <2>3. v[k] = s[k - (p + q)] /\ k - q - p = k - (p + q)
      BY <1>4 DEF Inserted
    <2>4. QED
      BY <2>2, <2>3
  <1>5. QED
    BY <1>1, <1>2, <1>3, <1>4

(* The elements of two insertions, the second right before the first.      *)
LEMMA AheadPoints ==
  ASSUME NEW l \in Nat, NEW p \in Nat, NEW q \in Nat, NEW at \in Nat, at <= l,
         NEW s, NEW c, NEW d, NEW t, NEW e, NEW u, NEW v,
         Inserted(s, l, at, c, p, t), Joined(d, q, c, p, e),
         Inserted(t, l + p, at, d, q, u), Inserted(s, l, at, e, q + p, v)
  PROVE  \A k \in 1..(l + p + q) : u[k] = v[k]
  <1> SUFFICES ASSUME NEW k \in Nat, 1 <= k, k <= l + p + q
               PROVE  u[k] = v[k]
    OBVIOUS
  <1>1. CASE k <= at
    BY <1>1 DEF Inserted
  <1>2. CASE at < k /\ k <= at + q
    BY <1>2 DEF Inserted, Joined
  <1>3. CASE at + q < k /\ k <= at + q + p
    BY <1>3 DEF Inserted, Joined
  <1>4. CASE at + q + p < k
    BY <1>4 DEF Inserted
  <1>5. QED
    BY <1>1, <1>2, <1>3, <1>4

(* A chunk inserted right behind the one before it.                        *)
LEMMA InsertBehind ==
  ASSUME NEW s \in Seq(Nat), NEW c \in Seq(Nat), NEW d \in Seq(Nat),
         NEW at \in 0..Len(s)
  PROVE  Insert(Insert(s, at, c), at + Len(c), d) = Insert(s, at, c \o d)
  <1> DEFINE l == Len(s)
             p == Len(c)
             q == Len(d)
             t == Insert(s, at, c)
             e == c \o d
             b == at + p
             u == Insert(t, b, d)
             v == Insert(s, at, e)
  <1>1. l \in Nat /\ p \in Nat /\ q \in Nat /\ at \in Nat /\ at <= l
    OBVIOUS
  <1>2. t \in Seq(Nat) /\ Len(t) = l + p /\ Inserted(s, l, at, c, p, t)
    BY InsertProps, InsertedAll
  <1>3. e \in Seq(Nat) /\ Len(e) = p + q /\ Joined(c, p, d, q, e)
    BY ConcatProperties, JoinedAll
  <1> HIDE DEF t, e
  <1>4. at + p \in 0..Len(t)
    BY <1>1, <1>2
  <1>5. u \in Seq(Nat) /\ Len(u) = Len(t) + q
    BY <1>2, <1>4, InsertProps
  <1>6. Inserted(t, l + p, b, d, q, u) /\ b \in Nat /\ b = at + p
    <2>1. b \in Nat /\ b = at + p
      BY <1>1
    <2> HIDE DEF b
    <2>2. Inserted(t, l + p, b, d, q, u)
      BY <1>2, <1>4, InsertedAll DEF b
    <2>3. QED
      BY <2>1, <2>2
  <1>7. v \in Seq(Nat) /\ Len(v) = l + Len(e)
    BY <1>3, InsertProps
  <1>8. Inserted(s, l, at, e, p + q, v)
    BY <1>3, InsertedAll
  <1> HIDE DEF l, p, q, u, v
  <1>9. Len(u) = l + p + q /\ Len(v) = l + p + q
    BY <1>1, <1>2, <1>3, <1>5, <1>7
  <1>10. \A k \in 1..(l + p + q) : u[k] = v[k]
    <2> HIDE DEF b
    <2>1. QED
      BY <1>1, <1>2, <1>3, <1>6, <1>8, BehindPoints, SMTT(60)
  <1>11. u = v
    BY <1>5, <1>7, <1>9, <1>10, SeqEqual
  <1>12. QED
    BY <1>11 DEF p, t, e, u, v

(* A chunk inserted right before the one before it.                        *)
LEMMA InsertAhead ==
  ASSUME NEW s \in Seq(Nat), NEW c \in Seq(Nat), NEW d \in Seq(Nat),
         NEW at \in 0..Len(s)
  PROVE  Insert(Insert(s, at, c), at, d) = Insert(s, at, d \o c)
  <1> DEFINE l == Len(s)
             p == Len(c)
             q == Len(d)
             t == Insert(s, at, c)
             e == d \o c
             u == Insert(t, at, d)
             v == Insert(s, at, e)
  <1>1. l \in Nat /\ p \in Nat /\ q \in Nat /\ at \in Nat /\ at <= l
    OBVIOUS
  <1>2. t \in Seq(Nat) /\ Len(t) = l + p /\ Inserted(s, l, at, c, p, t)
    BY InsertProps, InsertedAll
  <1>3. e \in Seq(Nat) /\ Len(e) = q + p /\ Joined(d, q, c, p, e)
    BY ConcatProperties, JoinedAll
  <1> HIDE DEF t, e
  <1>4. at \in 0..Len(t)
    BY <1>1, <1>2
  <1>5. u \in Seq(Nat) /\ Len(u) = Len(t) + q
    BY <1>2, <1>4, InsertProps
  <1>6. Inserted(t, l + p, at, d, q, u)
    BY <1>2, <1>4, InsertedAll
  <1>7. v \in Seq(Nat) /\ Len(v) = l + Len(e)
    BY <1>3, InsertProps
  <1>8. Inserted(s, l, at, e, q + p, v)
    BY <1>3, InsertedAll
  <1> HIDE DEF l, p, q, u, v
  <1>9. Len(u) = l + p + q /\ Len(v) = l + p + q
    BY <1>1, <1>2, <1>3, <1>5, <1>7
  <1>10. \A k \in 1..(l + p + q) : u[k] = v[k]
    BY <1>1, <1>2, <1>3, <1>6, <1>8, AheadPoints, SMTT(60)
  <1>11. u = v
    BY <1>5, <1>7, <1>9, <1>10, SeqEqual
  <1>12. QED
    BY <1>11 DEF p, t, e, u, v

(* Two runs of items that meet are one run.                                *)
LEMMA ValuesConcat ==
  ASSUME NEW i \in Nat, NEW j \in Nat, NEW m \in Nat, i <= j, j <= m
  PROVE  Values(i, j) \o Values(j, m) = Values(i, m)
  <1> DEFINE a == Values(i, j)
             b == Values(j, m)
             c == Values(i, m)
  <1>1. i <= m
    OBVIOUS
  <1>2. a \in Seq(Nat) /\ Len(a) = j - i /\ \A k \in 1..(j - i) : a[k] = i + k
    BY ValuesProps
  <1>3. b \in Seq(Nat) /\ Len(b) = m - j /\ \A k \in 1..(m - j) : b[k] = j + k
    BY ValuesProps
  <1>4. c \in Seq(Nat) /\ Len(c) = m - i /\ \A k \in 1..(m - i) : c[k] = i + k
    BY <1>1, ValuesProps
  <1> HIDE DEF a, b, c
  <1>5. /\ a \o b \in Seq(Nat) /\ Len(a \o b) = Len(a) + Len(b)
        /\ \A k \in 1..(Len(a) + Len(b)) :
              (a \o b)[k] = IF k <= Len(a) THEN a[k] ELSE b[k - Len(a)]
    BY <1>2, <1>3, ConcatProperties
  <1>6. Len(a \o b) = m - i
    BY <1>2, <1>3, <1>5
  <1>7. \A k \in 1..(m - i) : (a \o b)[k] = c[k]
    <2> DEFINE f == a \o b
    <2>1. \A k \in 1..(m - i) : f[k] = IF k <= j - i THEN a[k] ELSE b[k - (j - i)]
      BY <1>2, <1>3, <1>5, SMTT(30)
    <2> HIDE DEF f
    <2>2. \A k \in 1..(m - i) : f[k] = i + k
      <3> SUFFICES ASSUME NEW k \in Nat, 1 <= k, k <= m - i
                   PROVE  f[k] = i + k
        OBVIOUS
      <3>1. CASE k <= j - i
        BY <3>1, <2>1, <1>2
      <3>2. CASE j - i < k
        <4>1. k - (j - i) \in 1..(m - j) /\ j + (k - (j - i)) = i + k
          BY <3>2
        <4>2. f[k] = b[k - (j - i)]
          BY <3>2, <2>1
        <4>3. QED
          BY <4>1, <4>2, <1>3
      <3>3. QED
        BY <3>1, <3>2
    <2>3. QED
      BY <2>2, <1>4 DEF f
  <1>8. a \o b = c
    BY <1>4, <1>5, <1>6, <1>7, SeqEqual
  <1>9. QED
    BY <1>8 DEF a, b, c

(* The elements of the reverse of a concatenation.                         *)
LEMMA ReversePoints ==
  ASSUME NEW p \in Nat, NEW q \in Nat, NEW c, NEW d, NEW e, NEW x, NEW y,
         NEW z, NEW w,
         Joined(c, p, d, q, e), Reversed(c, p, x), Reversed(d, q, y),
         Reversed(e, p + q, z), Joined(y, q, x, p, w)
  PROVE  \A k \in 1..(p + q) : z[k] = w[k]
  <1> SUFFICES ASSUME NEW k \in Nat, 1 <= k, k <= p + q
               PROVE  z[k] = w[k]
    OBVIOUS
  <1>1. CASE k <= q
    BY <1>1 DEF Joined, Reversed
  <1>2. CASE q < k
    BY <1>2 DEF Joined, Reversed
  <1>3. QED
    BY <1>1, <1>2

(* Reversing turns the order of two parts round as well.                   *)
LEMMA ReverseConcat ==
  ASSUME NEW c \in Seq(Nat), NEW d \in Seq(Nat)
  PROVE  Reverse(c \o d) = Reverse(d) \o Reverse(c)
  <1> DEFINE p == Len(c)
             q == Len(d)
             e == c \o d
             x == Reverse(c)
             y == Reverse(d)
             z == Reverse(e)
             w == y \o x
  <1>1. p \in Nat /\ q \in Nat
    OBVIOUS
  <1>2. e \in Seq(Nat) /\ Len(e) = p + q /\ Joined(c, p, d, q, e)
    BY ConcatProperties, JoinedAll
  <1> HIDE DEF e
  <1>3. x \in Seq(Nat) /\ Len(x) = p /\ Reversed(c, p, x)
    BY ReverseProps, ReversedAll
  <1>4. y \in Seq(Nat) /\ Len(y) = q /\ Reversed(d, q, y)
    BY ReverseProps, ReversedAll
  <1>5. z \in Seq(Nat) /\ Len(z) = Len(e) /\ Reversed(e, p + q, z)
    BY <1>2, ReverseProps, ReversedAll
  <1> HIDE DEF p, q, x, y, z
  <1>6. w \in Seq(Nat) /\ Len(w) = Len(y) + Len(x)
    BY <1>3, <1>4, ConcatProperties
  <1>7. Joined(y, q, x, p, w)
    BY <1>3, <1>4, JoinedAll
  <1> HIDE DEF w
  <1>8. Len(z) = p + q /\ Len(w) = p + q
    BY <1>1, <1>2, <1>3, <1>4, <1>5, <1>6
  <1>9. \A k \in 1..(p + q) : z[k] = w[k]
    BY <1>1, <1>2, <1>3, <1>4, <1>5, <1>7, ReversePoints
  <1>10. z = w
    BY <1>5, <1>6, <1>8, <1>9, SeqEqual
  <1>11. QED
    BY <1>10 DEF x, y, z, e, w

(* The head and the tail are positions of their own.                       *)
LEMMA InsertAtEnds ==
  ASSUME NEW s \in Seq(Nat), NEW c \in Seq(Nat)
  PROVE  Insert(s, 0, c) = c \o s /\ Insert(s, Len(s), c) = s \o c
  <1>1. Len(s) \in Nat /\ Len(s) + 1 > Len(s)
    OBVIOUS
  <1>2. SubSeq(s, 1, 0) = <<>> /\ SubSeq(s, Len(s) + 1, Len(s)) = <<>>
    BY <1>1, SubSeqEmpty
  <1>3. SubSeq(s, 1, Len(s)) = s /\ SubSeq(s, 0 + 1, Len(s)) = s
    BY SubSeqFull
  <1>4. <<>> \o c = c /\ (s \o c) \in Seq(Nat)
    BY ConcatEmptySeq, ConcatProperties
  <1>5. (s \o c) \o <<>> = s \o c
    BY <1>4, ConcatEmptySeq
  <1>6. QED
    BY <1>2, <1>3, <1>4, <1>5 DEF Insert

(* The pivot that is found is the first one.                               *)
LEMMA PivotIs ==
  ASSUME NEW s \in Seq(Nat), NEW p \in 1..Len(s), s[p] = Pivot,
         \A i \in 1..(p - 1) : s[i] # Pivot
  PROVE  PivotAt(s) = p
  <1>1. p \in Nat /\ Len(s) \in Nat
    OBVIOUS
  <1>2. /\ PivotAt(s) \in 1..Len(s) /\ s[PivotAt(s)] = Pivot
        /\ \A i \in 1..(PivotAt(s) - 1) : s[i] # Pivot
    BY PivotProps
  <1> DEFINE q == PivotAt(s)
  <1>3. q \in Nat /\ 1 <= q /\ q <= Len(s) /\ s[q] = Pivot
        /\ \A i \in 1..(q - 1) : s[i] # Pivot
    BY <1>1, <1>2
  <1> HIDE DEF q
  <1>4. ~(q < p)
    <2> SUFFICES ASSUME q < p PROVE FALSE
      OBVIOUS
    <2>1. q \in 1..(p - 1)
      BY <1>1, <1>3
    <2>2. QED
      BY <2>1, <1>3
  <1>5. ~(p < q)
    <2> SUFFICES ASSUME p < q PROVE FALSE
      OBVIOUS
    <2>1. p \in 1..(q - 1)
      BY <1>1, <1>3
    <2>2. QED
      BY <2>1, <1>3
  <1>6. q = p
    BY <1>1, <1>3, <1>4, <1>5
  <1>7. QED
    BY <1>6 DEF q

(* Items inserted before the pivot move it, items behind it do not.        *)
LEMMA PivotMoves ==
  ASSUME NEW s \in Seq(Nat), NEW c \in Seq(Nat), PivotAt(s) # 0,
         \A i \in 1..Len(c) : c[i] # Pivot
  PROVE  /\ PivotAt(s) \in 1..Len(s)
         /\ PivotAt(Insert(s, PivotAt(s) - 1, c)) = PivotAt(s) + Len(c)
         /\ PivotAt(Insert(s, PivotAt(s), c)) = PivotAt(s)
  <1> DEFINE p == PivotAt(s)
             l == Len(s)
             m == Len(c)
             b == p - 1
             t == Insert(s, b, c)
             u == Insert(s, p, c)
  <1>1. /\ p \in 1..l /\ s[p] = Pivot
        /\ \A i \in 1..(p - 1) : s[i] # Pivot
    BY PivotProps
  <1>2. l \in Nat /\ m \in Nat
    OBVIOUS
  <1> HIDE DEF p, l, m
  <1>3. p \in 0..l /\ b \in 0..l /\ p \in Nat /\ b \in Nat /\ p = b + 1 /\ p <= l
    BY <1>1, <1>2
  <1> HIDE DEF b
  <1>4. t \in Seq(Nat) /\ Len(t) = l + m /\ Inserted(s, l, b, c, m, t)
    BY <1>3, InsertProps, InsertedAll DEF l, m
  <1>5. u \in Seq(Nat) /\ Len(u) = l + m /\ Inserted(s, l, p, c, m, u)
    BY <1>3, InsertProps, InsertedAll DEF l, m
  <1>6. \A i \in 1..m : c[i] # Pivot
    BY DEF m
  <1> HIDE DEF t, u
  <1> DEFINE q == p + m
  <1>q. /\ q \in Nat /\ q \in (b + m + 1)..(l + m) /\ q - m = p
        /\ q - 1 = b + m /\ q \in 1..Len(t)
    BY <1>2, <1>3, <1>4
  <1> HIDE DEF q
  <1>7. t[q] = Pivot
    <2>1. t[q] = s[q - m]
      BY <1>q, <1>4 DEF Inserted
    <2>2. QED
      BY <2>1, <1>q, <1>1
  <1>8. ASSUME NEW i \in 1..(q - 1) PROVE t[i] # Pivot
    <2>0. i \in Nat /\ 1 <= i /\ i <= b + m
      BY <1>2, <1>3, <1>q
    <2>1. CASE i <= b
      <3>1. i \in 1..b /\ i \in 1..(p - 1)
        BY <2>0, <2>1, <1>3
      <3>2. QED
        BY <3>1, <1>1, <1>4 DEF Inserted
    <2>2. CASE b < i
      <3>1. i \in (b + 1)..(b + m) /\ i - b \in 1..m
        BY <2>0, <2>2, <1>2, <1>3
      <3>2. QED
        BY <3>1, <1>4, <1>6 DEF Inserted
    <2>3. QED
      BY <2>0, <2>1, <2>2, <1>3
  <1>9. PivotAt(t) = p + m
    <2>1. PivotAt(t) = q
      BY <1>q, <1>4, <1>7, <1>8, PivotIs
    <2>2. QED
      BY <2>1 DEF q
  <1>10. PivotAt(u) = p
    <2>1. p \in 1..Len(u) /\ p \in 1..p
      BY <1>2, <1>3, <1>5
    <2>2. u[p] = Pivot
      BY <2>1, <1>1, <1>5 DEF Inserted
    <2>3. \A i \in 1..(p - 1) : i \in 1..p
      BY <1>3
    <2>4. \A i \in 1..(p - 1) : u[i] # Pivot
      BY <2>3, <1>1, <1>5 DEF Inserted
    <2>5. QED
      BY <2>1, <2>2, <2>4, <1>5, PivotIs
  <1>11. QED
    BY <1>1, <1>9, <1>10 DEF p, b, t, u, l, m

-----------------------------------------------------------------------------
(* What a request does to the container.                                   *)

(* What BatchAssumption says of the call.                                  *)
LEMMA CallType ==
  ASSUME call \in Operations
  PROVE  /\ call.kind \in Kinds /\ call.countOnly \in BOOLEAN
         /\ call.pos \in Nat /\ call.pos <= MaxUint32 /\ MaxUint32 \in Nat
         /\ n \in Nat /\ n < Pivot /\ Pivot \in Nat
         /\ call.header \in Nat /\ call.ttl \in Nat
         /\ call.hint \in 0..MaxHint /\ MaxHint \in Nat /\ MaxRequestBytes \in Nat
         /\ \A i, j \in 0..n : ItemBytes(i, j) \in Nat
  <1>1. call \in Operation
    BY BatchAssumption
  <1>2. /\ call.kind \in Kinds /\ call.countOnly \in BOOLEAN
        /\ call.pos \in Nat /\ call.header \in Nat /\ call.ttl \in Nat
        /\ call.hint \in 0..MaxHint /\ call.items \in Seq(Nat)
    BY <1>1 DEF Operation
  <1>3. n \in Nat
    BY <1>2 DEF n
  <1>4. /\ call.pos <= MaxUint32 /\ n < Pivot
        /\ \A i, j \in 0..n : ItemBytes(i, j) \in Nat
    BY BatchAssumption DEF n, ItemBytes
  <1>5. QED
    BY <1>2, <1>3, <1>4, BatchAssumption

(* In a sequence a request does nothing or inserts its items somewhere.    *)
LEMMA OrderedApply ==
  ASSUME Ordered, NEW s \in Seq(Nat), NEW pos \in Nat, NEW c \in Seq(Nat)
  PROVE  \/ Apply(s, pos, c) = s
         \/ \E at \in 0..Len(s), x \in Seq(Nat) :
               Len(x) = Len(c) /\ Apply(s, pos, c) = Insert(s, at, x)
  <1>1. Len(s) \in Nat /\ 0 \in 0..Len(s) /\ Len(s) \in 0..Len(s)
    OBVIOUS
  <1>2. Reverse(c) \in Seq(Nat) /\ Len(Reverse(c)) = Len(c)
    BY ReverseProps
  <1>3. CASE call.kind = "head"
    <2>1. Insert(s, 0, Reverse(c)) = Reverse(c) \o s
      BY <1>2, InsertAtEnds
    <2>2. Apply(s, pos, c) = Reverse(c) \o s
      BY <1>3, ApplyOf
    <2>3. QED
      BY <1>1, <1>2, <2>1, <2>2
  <1>4. CASE call.kind \in {"tail", "createSequence"}
    <2>1. Insert(s, Len(s), c) = s \o c
      BY InsertAtEnds
    <2>2. Apply(s, pos, c) = s \o c
      BY <1>4, ApplyOf
    <2>3. QED
      BY <1>1, <2>1, <2>2
  <1>5. CASE call.kind = "position"
    <2> DEFINE at == IF pos < Len(s) THEN pos ELSE Len(s)
    <2>1. at \in 0..Len(s)
      BY <1>1
    <2>2. Apply(s, pos, c) = Insert(s, at, c)
      BY <1>5, ApplyOf
    <2>3. QED
      BY <2>1, <2>2
  <1>6. CASE call.kind = "before" /\ PivotAt(s) # 0
    <2>1. PivotAt(s) - 1 \in 0..Len(s)
      BY <1>1, <1>6, PivotProps
    <2>2. Apply(s, pos, c) = Insert(s, PivotAt(s) - 1, c)
      BY <1>6, ApplyOf
    <2>3. QED
      BY <2>1, <2>2
  <1>7. CASE call.kind = "after" /\ PivotAt(s) # 0
    <2>1. PivotAt(s) \in 0..Len(s)
      BY <1>1, <1>7, PivotProps
    <2>2. Apply(s, pos, c) = Insert(s, PivotAt(s), c)
      BY <1>7, ApplyOf
    <2>3. QED
      BY <2>1, <2>2
  <1>8. CASE call.kind \in {"before", "after"} /\ PivotAt(s) = 0
    BY <1>8, ApplyOf
  <1>9. QED
    BY <1>3, <1>4, <1>5, <1>6, <1>7, <1>8 DEF Ordered, SequenceKinds

(* A request that changes the size of a sequence by nothing leaves it.     *)
LEMMA OrderedGrows ==
  ASSUME Ordered, NEW s \in Seq(Nat), NEW pos \in Nat, NEW c \in Seq(Nat)
  PROVE  /\ Apply(s, pos, c) \in Seq(Nat)
         /\ Len(s) <= Len(Apply(s, pos, c))
         /\ Len(Apply(s, pos, c)) = Len(s) => Apply(s, pos, c) = s
  <1>1. CASE Apply(s, pos, c) = s
    <2>1. Len(s) <= Len(s)
      OBVIOUS
    <2>2. QED
      BY <1>1, <2>1
  <1>2. CASE \E at \in 0..Len(s), x \in Seq(Nat) :
                Len(x) = Len(c) /\ Apply(s, pos, c) = Insert(s, at, x)
    <2>1. PICK at \in 0..Len(s), x \in Seq(Nat) :
                  Len(x) = Len(c) /\ Apply(s, pos, c) = Insert(s, at, x)
      BY <1>2
    <2>2. Insert(s, at, x) \in Seq(Nat) /\ Len(Insert(s, at, x)) = Len(s) + Len(x)
      BY InsertProps
    <2>3. Len(s) \in Nat /\ Len(x) \in Nat /\ (Len(x) = 0 => x = <<>>)
      OBVIOUS
    <2>4. Len(Insert(s, at, x)) = Len(s) => Insert(s, at, x) = s
      BY <2>2, <2>3, InsertNothing
    <2>5. Len(s) <= Len(Insert(s, at, x))
      BY <2>2, <2>3
    <2>6. QED
      BY <2>1, <2>2, <2>4, <2>5
  <1>3. QED
    BY <1>1, <1>2, OrderedApply

(* A request leaves a container, its size grows, or shrinks on a removal,  *)
(* and when the size stays nothing has changed.                            *)
LEMMA ApplyChanges ==
  ASSUME call \in Operations, NEW s, IsContainer(s), NEW pos \in Nat,
         NEW c \in Seq(Nat), IsFiniteSet(Range(c))
  PROVE  /\ IsContainer(Apply(s, pos, c))
         /\ Amount(s) \in Nat /\ Amount(Apply(s, pos, c)) \in Nat
         /\ IF call.kind = "remove" THEN Amount(Apply(s, pos, c)) <= Amount(s)
                                    ELSE Amount(s) <= Amount(Apply(s, pos, c))
         /\ Amount(Apply(s, pos, c)) = Amount(s) => Apply(s, pos, c) = s
  <1>1. CASE Ordered
    <2>1. s \in Seq(Nat) /\ call.kind # "remove"
      BY <1>1 DEF IsContainer, Ordered, SequenceKinds
    <2>2. /\ Apply(s, pos, c) \in Seq(Nat)
          /\ Len(s) <= Len(Apply(s, pos, c))
          /\ Len(Apply(s, pos, c)) = Len(s) => Apply(s, pos, c) = s
      BY <1>1, <2>1, OrderedGrows
    <2>3. Len(s) \in Nat /\ Len(Apply(s, pos, c)) \in Nat
      BY <2>1, <2>2
    <2>4. QED
      BY <1>1, <2>1, <2>2, <2>3 DEF IsContainer, Amount
  <1>2. CASE ~Ordered /\ call.kind = "remove"
    <2> DEFINE t == s \ Range(c)
    <2>1. Apply(s, pos, c) = t /\ IsFiniteSet(s)
      BY <1>2, ApplyOf DEF IsContainer
    <2>2. t \in SUBSET s
      OBVIOUS
    <2> HIDE DEF t
    <2>3. IsFiniteSet(t) /\ Cardinality(t) <= Cardinality(s)
          /\ (Cardinality(s) = Cardinality(t) => s = t)
      BY <2>1, <2>2, FS_Subset
    <2>4. Cardinality(s) \in Nat /\ Cardinality(t) \in Nat
      BY <2>1, <2>3, FS_CardinalityType
    <2>5. QED
      BY <1>2, <2>1, <2>3, <2>4 DEF IsContainer, Amount
  <1>3. CASE ~Ordered /\ call.kind # "remove"
    <2> DEFINE t == s \cup Range(c)
    <2>1. Apply(s, pos, c) = t /\ IsFiniteSet(s)
      BY <1>3, ApplyOf, CallType
         DEF IsContainer, Ordered, SequenceKinds, Kinds, CreateKinds, BooleanKinds
    <2>2. IsFiniteSet(t) /\ s \in SUBSET t
      BY <2>1, FS_Union
    <2> HIDE DEF t
    <2>3. /\ Cardinality(s) <= Cardinality(t)
          /\ Cardinality(t) = Cardinality(s) => t = s
      BY <2>2, FS_Subset
    <2>4. Cardinality(s) \in Nat /\ Cardinality(t) \in Nat
      BY <2>1, <2>2, FS_CardinalityType
    <2>5. QED
      BY <1>3, <2>1, <2>2, <2>3, <2>4 DEF IsContainer, Amount
  <1>4. QED
    BY <1>1, <1>2, <1>3

(* The first d items, in the order of sending.                             *)
LEMMA FirstProps ==
  ASSUME call \in Operations, NEW d \in 0..n
  PROVE  /\ FirstItems(d) \in Seq(Nat) /\ Len(FirstItems(d)) = d
         /\ Range(FirstItems(d)) = Covered(d)
         /\ IsFiniteSet(Range(FirstItems(d)))
         /\ \A k \in 1..d : FirstItems(d)[k] # Pivot
         /\ d = 0 => FirstItems(d) = <<>>
  <1>1. n \in Nat /\ d \in Nat /\ d <= n /\ n < Pivot /\ Pivot \in Nat
    BY CallType
  <1>2. CASE call.kind = "after"
    <2> DEFINE i == n - d
    <2>1. i \in Nat /\ i <= n /\ n - i = d /\ i + 1 \in Nat
      BY <1>1
    <2>2. FirstItems(d) = Values(i, n) /\ Covered(d) = (i + 1)..n
      BY <1>2 DEF FirstItems, Covered
    <2>3. d = 0 => i = n
      BY <1>1
    <2> HIDE DEF i
    <2>4. /\ Values(i, n) \in Seq(Nat) /\ Len(Values(i, n)) = n - i
          /\ \A k \in 1..(n - i) : Values(i, n)[k] = i + k
          /\ Range(Values(i, n)) = (i + 1)..n
          /\ i = n => Values(i, n) = <<>>
      BY <1>1, <2>1, ValuesProps
    <2>5. \A k \in 1..d : i + k # Pivot
      BY <1>1, <2>1
    <2>6. IsFiniteSet((i + 1)..n)
      BY <1>1, <2>1, FS_Interval
    <2>7. QED
      BY <1>1, <2>1, <2>2, <2>3, <2>4, <2>5, <2>6
  <1>3. CASE call.kind # "after"
    <2> DEFINE i == 0
    <2>1. FirstItems(d) = Values(i, d) /\ Covered(d) = 1..d
      BY <1>3 DEF FirstItems, Covered
    <2>2. i \in Nat /\ i <= d /\ d - i = d /\ i + 1 = 1
      BY <1>1
    <2>3. d = 0 => i = d
      OBVIOUS
    <2> HIDE DEF i
    <2>4. /\ Values(i, d) \in Seq(Nat) /\ Len(Values(i, d)) = d - i
          /\ \A k \in 1..(d - i) : Values(i, d)[k] = i + k
          /\ Range(Values(i, d)) = (i + 1)..d
          /\ i = d => Values(i, d) = <<>>
      BY <1>1, <2>2, ValuesProps
    <2>5. \A k \in 1..d : i + k # Pivot
      BY <1>1, <2>2
    <2>6. IsFiniteSet((i + 1)..d)
      BY <1>1, <2>2, FS_Interval
    <2>7. QED
      BY <1>1, <2>1, <2>2, <2>3, <2>4, <2>5, <2>6
  <1>4. QED
    BY <1>2, <1>3

(* The span that comes next when the first d items are acknowledged.       *)
NextSpan(d, a, b) ==
    /\ a \in Nat /\ b \in Nat /\ a <= b /\ b <= n
    /\ IF call.kind = "after" THEN b = n - d ELSE a = d

(* With the next span, the first d items become the first d + b - a ones.  *)
LEMMA FirstNext ==
  ASSUME call \in Operations, NEW d \in 0..n, NEW a, NEW b, NextSpan(d, a, b)
  PROVE  /\ d + (b - a) \in 0..n
         /\ FirstItems(d + (b - a)) =
               IF call.kind = "after" THEN Values(a, b) \o FirstItems(d)
                                      ELSE FirstItems(d) \o Values(a, b)
  <1>1. n \in Nat /\ d \in Nat /\ d <= n
    BY CallType
  <1>2. a \in Nat /\ b \in Nat /\ a <= b /\ b <= n
    BY DEF NextSpan
  <1>3. CASE call.kind = "after"
    <2>1. b = n - d
      BY <1>3 DEF NextSpan
    <2>2. d + (b - a) \in 0..n /\ n - (d + (b - a)) = a
      BY <1>1, <1>2, <2>1
    <2>3. FirstItems(d + (b - a)) = Values(a, n) /\ FirstItems(d) = Values(b, n)
      BY <1>3, <2>1, <2>2 DEF FirstItems
    <2>4. Values(a, b) \o Values(b, n) = Values(a, n)
      BY <1>1, <1>2, ValuesConcat
    <2>5. QED
      BY <1>3, <2>2, <2>3, <2>4
  <1>4. CASE call.kind # "after"
    <2>1. a = d
      BY <1>4 DEF NextSpan
    <2>2. d + (b - a) = b
      BY <1>1, <1>2, <2>1
    <2>3. FirstItems(d + (b - a)) = Values(0, b) /\ FirstItems(d) = Values(0, a)
      BY <1>4, <2>1, <2>2 DEF FirstItems
    <2>4. Values(0, a) \o Values(a, b) = Values(0, b)
      <3> DEFINE i == 0
      <3>1. i \in Nat /\ i <= a
        BY <1>2
      <3> HIDE DEF i
      <3>2. Values(i, a) \o Values(a, b) = Values(i, b)
        BY <1>2, <3>1, ValuesConcat
      <3>3. QED
        BY <3>2 DEF i
    <2>5. QED
      BY <1>1, <1>2, <1>4, <2>2, <2>3, <2>4
  <1>5. QED
    BY <1>3, <1>4

(* The heart of the matter: the next chunk, sent to the container that the *)
(* first d items have made, makes the container that one request with the  *)
(* first d + b - a items would have made.                                  *)
LEMMA Compose ==
  ASSUME call \in Operations, ~PositionOverflows, NEW s, IsContainer(s),
         NEW d \in 0..n, NEW a, NEW b, NextSpan(d, a, b)
  PROVE  Apply(Apply(s, call.pos, FirstItems(d)), Position(a), Values(a, b)) =
            Apply(s, call.pos, FirstItems(d + (b - a)))
  <1> DEFINE f == FirstItems(d)
             g == Values(a, b)
             h == FirstItems(d + (b - a))
             t == Apply(s, call.pos, f)
             u == Apply(t, Position(a), g)
             v == Apply(s, call.pos, h)
  <1>1. n \in Nat /\ d \in Nat /\ d <= n /\ call.pos \in Nat /\ MaxUint32 \in Nat
    BY CallType
  <1>2. a \in Nat /\ b \in Nat /\ a <= b /\ b <= n
    BY DEF NextSpan
  <1>3. /\ f \in Seq(Nat) /\ Len(f) = d
        /\ \A k \in 1..d : f[k] # Pivot
    BY FirstProps
  <1>4. g \in Seq(Nat)
    BY <1>2, ValuesProps
  <1>5. h = IF call.kind = "after" THEN g \o f ELSE f \o g
    BY FirstNext
  <1> HIDE DEF f, g, h
  <1>6. CASE call.kind = "head"
    <2>1. s \in Seq(Nat)
      BY <1>6 DEF IsContainer, Ordered, SequenceKinds
    <2>2. t = Reverse(f) \o s /\ v = Reverse(h) \o s /\ u = Reverse(g) \o t
      BY <1>6, ApplyOf, SMTT(30)
    <2>3. Reverse(h) = Reverse(g) \o Reverse(f)
      BY <1>3, <1>4, <1>5, <1>6, ReverseConcat
    <2>4. Reverse(f) \in Seq(Nat) /\ Reverse(g) \in Seq(Nat)
      BY <1>3, <1>4, ReverseProps
    <2>5. (Reverse(g) \o Reverse(f)) \o s = Reverse(g) \o (Reverse(f) \o s)
      BY <2>1, <2>4, ThreeParts
    <2>6. u = v
      BY <2>2, <2>3, <2>5
    <2>7. QED
      BY <2>6 DEF f, g, h
  <1>7. CASE call.kind \in {"tail", "createSequence"}
    <2>1. s \in Seq(Nat)
      BY <1>7 DEF IsContainer, Ordered, SequenceKinds
    <2>2. t = s \o f /\ v = s \o h /\ u = t \o g
      BY <1>7, ApplyOf, SMTT(30)
    <2>3. h = f \o g
      BY <1>5, <1>7
    <2>4. (s \o f) \o g = s \o (f \o g)
      BY <1>3, <1>4, <2>1, ThreeParts
    <2>5. u = v
      BY <2>2, <2>3, <2>4
    <2>6. QED
      BY <2>5 DEF f, g, h
  <1>8. CASE call.kind = "position"
    <2> DEFINE at == IF call.pos < Len(s) THEN call.pos ELSE Len(s)
               bt == IF Position(a) < Len(t) THEN Position(a) ELSE Len(t)
    <2>1. s \in Seq(Nat)
      BY <1>8 DEF IsContainer, Ordered, SequenceKinds
    <2>2. a = d /\ Len(f) = a
      BY <1>3, <1>8 DEF NextSpan
    <2>3. Position(a) = call.pos + a
      <3>1. call.pos + a \in Nat /\ call.pos + a < MaxUint32 + 1
        BY <1>1, <1>2, <1>8 DEF PositionOverflows
      <3>2. QED
        BY <1>1, <3>1 DEF Position
    <2>4. at \in 0..Len(s) /\ Len(s) \in Nat
      BY <1>1, <2>1
    <2>5. /\ t = Insert(s, at, f) /\ v = Insert(s, at, h)
          /\ u = Insert(t, bt, g)
      BY <1>8, ApplyOf
    <2>6. Len(t) = Len(s) + a
      <3> HIDE DEF at, bt
      <3>1. Len(Insert(s, at, f)) = Len(s) + Len(f)
        BY <1>3, <2>1, <2>4, InsertProps
      <3>2. QED
        BY <2>2, <2>5, <3>1
    <2>7. bt = at + Len(f)
      BY <1>1, <1>2, <2>2, <2>3, <2>4, <2>6
    <2> HIDE DEF at, bt
    <2>8. Insert(Insert(s, at, f), at + Len(f), g) = Insert(s, at, f \o g)
      BY <1>3, <1>4, <2>1, <2>4, InsertBehind
    <2>9. h = f \o g
      BY <1>5, <1>8
    <2>10. u = v
      BY <2>5, <2>7, <2>8, <2>9
    <2>11. QED
      BY <2>10 DEF f, g, h
  <1>9. CASE call.kind \in {"before", "after"} /\ PivotAt(s) = 0
    <2>1. t = s /\ v = s
      BY <1>9, ApplyOf
    <2>2. u = s
      BY <1>9, <2>1, ApplyOf
    <2>3. QED
      BY <2>1, <2>2 DEF f, g, h
  <1>10. CASE call.kind = "before" /\ PivotAt(s) # 0
    <2> DEFINE p == PivotAt(s)
               at == p - 1
    <2>1. s \in Seq(Nat)
      BY <1>10 DEF IsContainer, Ordered, SequenceKinds
    <2>2. t = Insert(s, at, f) /\ v = Insert(s, at, h)
      BY <1>10, ApplyOf
    <2>3. p \in 1..Len(s) /\ PivotAt(t) = p + Len(f)
      BY <1>3, <1>10, <2>1, <2>2, PivotMoves
    <2>4. Len(s) \in Nat /\ Len(f) \in Nat
      BY <1>3, <2>1
    <2> HIDE DEF p
    <2>5. at \in 0..Len(s) /\ PivotAt(t) # 0 /\ PivotAt(t) - 1 = at + Len(f)
      BY <2>3, <2>4
    <2>6. u = Insert(t, PivotAt(t) - 1, g)
      BY <1>10, <2>5, ApplyOf
    <2> HIDE DEF at
    <2>7. Insert(Insert(s, at, f), at + Len(f), g) = Insert(s, at, f \o g)
      BY <1>3, <1>4, <2>1, <2>5, InsertBehind
    <2>8. h = f \o g
      BY <1>5, <1>10
    <2>9. u = v
      BY <2>2, <2>5, <2>6, <2>7, <2>8
    <2>10. QED
      BY <2>9 DEF f, g, h
  <1>11. CASE call.kind = "after" /\ PivotAt(s) # 0
    <2> DEFINE p == PivotAt(s)
    <2>1. s \in Seq(Nat)
      BY <1>11 DEF IsContainer, Ordered, SequenceKinds
    <2>2. t = Insert(s, p, f) /\ v = Insert(s, p, h)
      BY <1>11, ApplyOf
    <2>3. p \in 1..Len(s) /\ PivotAt(t) = p
      BY <1>3, <1>11, <2>1, <2>2, PivotMoves
    <2>4. p \in 0..Len(s)
      BY <2>1, <2>3
    <2>5. u = Insert(t, p, g)
      BY <1>11, <2>3, ApplyOf
    <2> HIDE DEF p
    <2>6. Insert(Insert(s, p, f), p, g) = Insert(s, p, g \o f)
      BY <1>3, <1>4, <2>1, <2>4, InsertAhead
    <2>7. h = g \o f
      BY <1>5, <1>11
    <2>8. u = v
      BY <2>2, <2>5, <2>6, <2>7
    <2>9. QED
      BY <2>8 DEF f, g, h
  <1>12. CASE call.kind \notin SequenceKinds
    <2>1. Range(f) = Covered(d) /\ Range(h) = Covered(d + (b - a))
      BY FirstProps, FirstNext DEF f, h
    <2>2. a = d /\ d + (b - a) = b
      BY <1>1, <1>2, <1>12 DEF NextSpan, SequenceKinds
    <2>3. Range(g) = (a + 1)..b
      BY <1>2, ValuesProps DEF g
    <2>4. Range(f) = 1..a /\ Range(h) = 1..b
      BY <1>12, <2>1, <2>2 DEF Covered, SequenceKinds
    <2>5. 1..b = (1..a) \cup ((a + 1)..b)
      BY <1>2
    <2>6. Range(h) = Range(f) \cup Range(g)
      BY <2>3, <2>4, <2>5
    <2>7. CASE call.kind = "remove"
      <3>1. t = s \ Range(f) /\ v = s \ Range(h) /\ u = t \ Range(g)
        BY <2>7, ApplyOf
      <3>2. u = v
        BY <2>6, <3>1
      <3>3. QED
        BY <3>2 DEF f, g, h
    <2>8. CASE call.kind # "remove"
      <3>1. call.kind \in {"createSet", "bool", "orderedBool", "generic"}
        BY <1>12, <2>8, CallType DEF Kinds, CreateKinds, BooleanKinds, SequenceKinds
      <3>2. t = s \cup Range(f) /\ v = s \cup Range(h) /\ u = t \cup Range(g)
        BY <3>1, ApplyOf
      <3>3. u = v
        BY <2>6, <3>2
      <3>4. QED
        BY <3>3 DEF f, g, h
    <2>9. QED
      BY <2>7, <2>8
  <1>13. QED
    BY <1>6, <1>7, <1>8, <1>9, <1>10, <1>11, <1>12 DEF SequenceKinds

-----------------------------------------------------------------------------
(* What split() returns, in the order of sending.                          *)

(* A nonempty set of naturals up to m has a largest element.               *)
LEMMA LargestNat ==
  ASSUME NEW m \in Nat, NEW T \in SUBSET (0..m), T # {}
  PROVE  \E x \in T : \A y \in T : y <= x
  <1> DEFINE U == {i \in 0..m : m - i \in T}
  <1>1. U \in SUBSET Nat
    OBVIOUS
  <1>2. PICK t \in T : TRUE
    OBVIOUS
  <1>3. t \in 0..m
    OBVIOUS
  <1>4. m - t \in 0..m /\ m - (m - t) = t
    BY <1>3
  <1>5. U # {}
    BY <1>4
  <1>6. PICK i \in U : \A j \in U : i <= j
    <2> HIDE DEF U
    <2>1. QED
      BY <1>1, <1>5, LeastNat
  <1>7. i \in 0..m /\ m - i \in T
    OBVIOUS
  <1>8. ASSUME NEW y \in T PROVE y <= m - i
    <2>1. y \in 0..m
      OBVIOUS
    <2>2. m - y \in 0..m /\ m - (m - y) = y
      BY <2>1
    <2>3. m - y \in U
      BY <2>2
    <2>4. i <= m - y
      BY <1>6, <2>3
    <2>5. QED
      BY <1>7, <2>1, <2>4
  <1>9. QED
    BY <1>7, <1>8

(* The fields of a span.                                                   *)
LEMMA SpanFields ==
  ASSUME NEW ps \in Seq(Span), NEW k \in 1..Len(ps)
  PROVE  ps[k].start \in Nat /\ ps[k].end \in Nat
  <1>1. ps[k] \in Span
    BY ElementOfSeq
  <1>2. QED
    BY <1>1 DEF Span

(* The spans of a cover lie within the items.                              *)
LEMMA CoverBounded ==
  ASSUME NEW ps \in Seq(Span), NEW m \in Nat, Cover(ps, m)
  PROVE  \A k \in 1..Len(ps) : ps[k].end <= m
  <1> DEFINE l == Len(ps)
             T == {k \in 1..l : ~(ps[k].end <= m)}
  <1>1. l \in Nat /\ DOMAIN ps = 1..l
    OBVIOUS
  <1>2. \A k \in 1..l : ps[k].start \in Nat /\ ps[k].end \in Nat
    BY SpanFields
  <1>3. /\ \A k \in 1..l : ps[k].start < ps[k].end
        /\ \A k \in 1..l : ps[k].start = IF k = 1 THEN 0 ELSE ps[k - 1].end
        /\ m = IF ps = <<>> THEN 0 ELSE ps[l].end
    BY <1>1 DEF Cover
  <1>4. l # 0 => m = ps[l].end
    BY <1>3
  <1> HIDE DEF l
  <1>5. ASSUME T # {} PROVE FALSE
    <2>1. T \in SUBSET (0..l)
      BY <1>1
    <2>2. PICK x \in T : \A y \in T : y <= x
      <3> HIDE DEF T
      <3>1. QED
        BY <1>1, <1>5, <2>1, LargestNat
    <2>3. x \in 1..l /\ ~(ps[x].end <= m)
      OBVIOUS
    <2>4. x # l
      BY <1>1, <1>2, <1>4, <2>3
    <2>5. x + 1 \in 1..l /\ x + 1 # 1 /\ (x + 1) - 1 = x
      BY <1>1, <2>3, <2>4
    <2> DEFINE y == x + 1
    <2>6. y \in 1..l /\ y # 1 /\ y - 1 = x /\ ~(y <= x)
      BY <2>3, <2>5
    <2> HIDE DEF y
    <2>7. ps[y].start = ps[x].end /\ ps[y].start < ps[y].end
      BY <1>3, <2>6
    <2>8. ~(ps[y].end <= m)
      <3>1. /\ ps[y].start \in Nat /\ ps[y].end \in Nat /\ ps[x].end \in Nat
        BY <1>2, <2>3, <2>6
      <3>2. QED
        BY <2>3, <2>7, <3>1
    <2>9. QED
      BY <2>2, <2>6, <2>8
  <1>6. QED
    BY <1>5 DEF l

(* The spans of split(), from the front or from the back, follow one       *)
(* another in the order of sending.                                        *)
LEMMA SplitFollows ==
  ASSUME call \in Operations, NEW ps \in Seq(Span), Cover(ps, n)
  PROVE  /\ InOrder(OrEmpty(ps)) \in Seq(Span)
         /\ Follow(InOrder(OrEmpty(ps)))
  <1> DEFINE l == Len(ps)
  <1>0. n \in Nat
    BY CallType
  <1>1. l \in Nat /\ DOMAIN ps = 1..l
    OBVIOUS
  <1>2. \A k \in 1..l : ps[k].start \in Nat /\ ps[k].end \in Nat
    BY SpanFields
  <1>3. /\ \A k \in 1..l : ps[k].start < ps[k].end
        /\ \A k \in 1..l : ps[k].start = IF k = 1 THEN 0 ELSE ps[k - 1].end
        /\ n = IF ps = <<>> THEN 0 ELSE ps[l].end
    BY <1>1 DEF Cover
  <1>4. \A k \in 1..l : ps[k].end <= n
    BY <1>0, CoverBounded
  <1>5. \A k \in 1..l : ps[k].start <= ps[k].end
    BY <1>2, <1>3
  <1>6. CASE call.kind = "after"
    <2> DEFINE qs == Reverse(ps)
    <2>1. InOrder(OrEmpty(ps)) = qs
      BY <1>6 DEF InOrder, OrEmpty, Creating, CreateKinds
    <2>2. /\ qs \in Seq(Span) /\ Len(qs) = l
          /\ \A k \in 1..l : qs[k] = ps[l - k + 1]
      BY ReverseProps
    <2>3. DOMAIN qs = 1..l /\ (qs = <<>> => l = 0) /\ (l = 0 => ps = <<>>)
          /\ (ps = <<>> => l = 0)
      BY <2>2
    <2> HIDE DEF qs, l
    <2>4. \A k \in 1..l : qs[k].start <= qs[k].end /\ qs[k].end <= n
      <3> SUFFICES ASSUME NEW k \in 1..l
                   PROVE  qs[k].start <= qs[k].end /\ qs[k].end <= n
        OBVIOUS
      <3>1. l - k + 1 \in 1..l
        BY <1>1
      <3>2. QED
        BY <1>4, <1>5, <2>2, <3>1
    <2>5. \A k \in 1..l : qs[k].end = IF k = 1 THEN n ELSE qs[k - 1].start
      <3> SUFFICES ASSUME NEW k \in 1..l
                   PROVE  qs[k].end = IF k = 1 THEN n ELSE qs[k - 1].start
        OBVIOUS
      <3>1. CASE k = 1
        <4>1. l - k + 1 = l /\ ps # <<>>
          BY <1>1, <2>3, <3>1
        <4>2. QED
          BY <1>3, <2>2, <3>1, <4>1
      <3>2. CASE k # 1
        <4> DEFINE i == l - k + 1
                   j == k - 1
                   m == l - j + 1
        <4>1. i \in 1..l /\ j \in 1..l /\ m \in 1..l /\ m # 1 /\ m - 1 = i
          BY <1>1, <3>2
        <4>2. qs[k] = ps[i]
          BY <2>2
        <4>3. qs[j] = ps[m]
          <5> HIDE DEF j
          <5>1. QED
            BY <2>2, <4>1
        <4> HIDE DEF i, m
        <4>4. ps[m].start = ps[i].end
          BY <1>3, <4>1
        <4>5. QED
          BY <3>2, <4>2, <4>3, <4>4
      <3>3. QED
        BY <3>1, <3>2
    <2>6. IF qs = <<>> THEN n = 0 ELSE qs[l].start = 0
      <3>1. CASE l = 0
        BY <1>3, <2>3, <3>1
      <3>2. CASE l # 0
        <4>1. l \in 1..l /\ l - l + 1 = 1 /\ 1 \in 1..l
          BY <1>1, <3>2
        <4>2. qs[l] = ps[1] /\ ps[1].start = 0
          BY <1>3, <2>2, <4>1
        <4>3. QED
          BY <2>3, <3>2, <4>2
      <3>3. QED
        BY <3>1, <3>2
    <2>7. Follow(qs)
      BY <1>6, <2>2, <2>3, <2>4, <2>5, <2>6 DEF Follow
    <2>8. QED
      BY <2>1, <2>2, <2>7
  <1>7. CASE call.kind # "after" /\ ~(Creating /\ ps = <<>>)
    <2>1. InOrder(OrEmpty(ps)) = ps
      BY <1>7 DEF InOrder, OrEmpty
    <2>2. Follow(ps)
      BY <1>1, <1>3, <1>4, <1>5, <1>7 DEF Follow
    <2>3. QED
      BY <2>1, <2>2
  <1>8. CASE call.kind # "after" /\ Creating /\ ps = <<>>
    <2> DEFINE qs == <<[start |-> 0, end |-> 0]>>
    <2>1. InOrder(OrEmpty(ps)) = qs
      BY <1>8 DEF InOrder, OrEmpty
    <2>2. n = 0
      BY <1>3, <1>8
    <2>3. qs \in Seq(Span) /\ Len(qs) = 1 /\ DOMAIN qs = {1} /\ qs # <<>>
      BY DEF Span
    <2>4. qs[1].start = 0 /\ qs[1].end = 0
      OBVIOUS
    <2> HIDE DEF qs
    <2>5. Follow(qs)
      BY <1>8, <2>2, <2>3, <2>4 DEF Follow
    <2>6. QED
      BY <2>1, <2>3, <2>5
  <1>9. QED
    BY <1>6, <1>7, <1>8

(* Sizes are natural numbers, and a wider hint makes a larger request.     *)
LEMMA Sizes ==
  ASSUME call \in Operations, NEW i \in 0..n, NEW j \in 0..n
  PROVE  /\ \A h \in Nat : CreateSize(h, i, j) \in Nat /\ AddSize(h, i, j) \in Nat
         /\ \A h, g \in Nat : h <= g => /\ CreateSize(h, i, j) <= CreateSize(g, i, j)
                                        /\ AddSize(h, i, j) <= AddSize(g, i, j)
  <1>1. /\ call.header \in Nat /\ call.ttl \in Nat /\ ItemBytes(i, j) \in Nat
    BY CallType
  <1>2. QED
    BY <1>1 DEF CreateSize, AddSize

(* No request of a prepared operation is too large.                        *)
LEMMA SplitFits ==
  ASSUME call \in Operations, NEW ps \in Splits,
         ~TooLarge(SplitSize, MaxRequestBytes, n), ~ContinuationTooLarge(OrEmpty(ps))
  PROVE  AllFit(InOrder(OrEmpty(ps)))
  <1> DEFINE l == Len(ps)
  <1>0. n \in Nat /\ MaxHint \in Nat /\ MaxRequestBytes \in Nat /\ call.hint \in Nat
    BY CallType
  <1>1. ps \in Seq(Span) /\ Cover(ps, n) /\ Fit(ps, SplitSize, MaxRequestBytes)
    BY DEF Splits
  <1>2. l \in Nat /\ DOMAIN ps = 1..l
    BY <1>1
  <1>3. \A k \in 1..l : SplitSize(ps[k].start, ps[k].end) <= MaxRequestBytes
    BY <1>1, <1>2 DEF Fit
  <1>4. \A k \in 1..l : ps[k].start \in 0..n /\ ps[k].end \in 0..n
    <2> SUFFICES ASSUME NEW k \in 1..l
                 PROVE  ps[k].start \in 0..n /\ ps[k].end \in 0..n
      OBVIOUS
    <2>1. ps[k].start \in Nat /\ ps[k].end \in Nat
      BY <1>1, SpanFields
    <2>2. ps[k].start < ps[k].end
      BY <1>1, <1>2 DEF Cover
    <2>3. ps[k].end <= n
      BY <1>0, <1>1, CoverBounded
    <2>4. QED
      BY <1>0, <2>1, <2>2, <2>3
  <1>5. CASE ~Creating
    <2>1. OrEmpty(ps) = ps
      BY <1>5 DEF OrEmpty
    <2>2. \A k \in 1..l : AddSize(call.hint, ps[k].start, ps[k].end) <= MaxRequestBytes
      BY <1>3, <1>5 DEF SplitSize
    <2>3. CASE call.kind = "after"
      <3> DEFINE qs == Reverse(ps)
      <3>1. qs \in Seq(Span) /\ Len(qs) = l /\ \A k \in 1..l : qs[k] = ps[l - k + 1]
        BY <1>1, ReverseProps
      <3>2. DOMAIN qs = 1..l
        BY <3>1
      <3>3. \A k \in 1..l : l - k + 1 \in 1..l
        BY <1>2
      <3> HIDE DEF qs, l
      <3>4. \A k \in 1..l : AddSize(call.hint, qs[k].start, qs[k].end) <= MaxRequestBytes
        BY <2>2, <3>1, <3>3
      <3>5. AllFit(qs)
        BY <1>5, <3>2, <3>4 DEF AllFit
      <3>6. QED
        BY <2>1, <2>3, <3>5 DEF InOrder, qs
    <2>4. CASE call.kind # "after"
      <3>1. AllFit(ps)
        BY <1>2, <1>5, <2>2 DEF AllFit
      <3>2. QED
        BY <2>1, <2>4, <3>1 DEF InOrder
    <2>5. QED
      BY <2>3, <2>4
  <1>6. CASE Creating /\ ps # <<>>
    <2>1. OrEmpty(ps) = ps /\ InOrder(ps) = ps
      BY <1>6 DEF OrEmpty, InOrder, Creating, CreateKinds
    <2>2. 1 \in 1..l => CreateSize(MaxHint, ps[1].start, ps[1].end) <= MaxRequestBytes
      BY <1>3, <1>6 DEF SplitSize, Reserve
    <2>3. ASSUME NEW k \in 1..l, k # 1
          PROVE  AddSize(MaxHint, ps[k].start, ps[k].end) <= MaxRequestBytes
      <3>1. k \in 2..Len(ps)
        BY <1>2, <2>3
      <3>2. ~(AddSize(MaxHint, ps[k].start, ps[k].end) > MaxRequestBytes)
        BY <1>6, <2>1, <3>1 DEF ContinuationTooLarge, Reserve
      <3>3. AddSize(MaxHint, ps[k].start, ps[k].end) \in Nat
        BY <1>0, <1>4, Sizes
      <3>4. QED
        BY <1>0, <3>2, <3>3
    <2>4. AllFit(ps)
      BY <1>2, <1>6, <2>2, <2>3 DEF AllFit
    <2>5. QED
      BY <2>1, <2>4
  <1>7. CASE Creating /\ ps = <<>>
    <2> DEFINE qs == <<[start |-> 0, end |-> 0]>>
    <2>1. InOrder(OrEmpty(ps)) = qs
      BY <1>7 DEF OrEmpty, InOrder, Creating, CreateKinds
    <2>2. ~(CreateSize(MaxHint, 0, 0) > MaxRequestBytes)
      BY <1>7 DEF TooLarge, SplitSize, Reserve
    <2>3. 0 \in 0..n
      BY <1>0
    <2>4. CreateSize(MaxHint, 0, 0) \in Nat
      BY <1>0, <2>3, Sizes
    <2>5. CreateSize(MaxHint, 0, 0) <= MaxRequestBytes
      BY <1>0, <2>2, <2>4
    <2>6. DOMAIN qs = {1} /\ qs[1].start = 0 /\ qs[1].end = 0
      OBVIOUS
    <2> HIDE DEF qs
    <2>7. AllFit(qs)
      BY <1>7, <2>5, <2>6 DEF AllFit
    <2>8. QED
      BY <2>1, <2>7
  <1>8. QED
    BY <1>5, <1>6, <1>7

(* What is sent is never over the limit.                                   *)
LEMMA SentFits ==
  ASSUME Typed, Sending, Follow(parts), AllFit(parts), ~Creating => hint = call.hint
  PROVE  /\ RequestSize <= MaxRequestBytes /\ ~(RequestSize > MaxRequestBytes)
         /\ Part.start \in Nat /\ Part.end \in Nat
         /\ Part.start <= Part.end /\ Part.end <= n
  <1>1. /\ call \in Operations /\ parts \in Seq(Span) /\ next \in 1..(Len(parts) + 1)
        /\ hint \in 0..MaxHint /\ next <= Len(parts)
    BY DEF Typed, Sending
  <1>2. next \in 1..Len(parts) /\ DOMAIN parts = 1..Len(parts)
    BY <1>1
  <1>3. Part.start \in Nat /\ Part.end \in Nat
    BY <1>1, <1>2, SpanFields DEF Part
  <1>4. Part.start <= Part.end /\ Part.end <= n
    BY <1>2 DEF Follow, Part
  <1>5. n \in Nat /\ MaxHint \in Nat /\ MaxRequestBytes \in Nat /\ call.hint \in Nat
    BY <1>1, CallType
  <1>6. Part.start \in 0..n /\ Part.end \in 0..n
    BY <1>3, <1>4, <1>5
  <1>7. hint \in Nat /\ hint <= MaxHint
    BY <1>1, <1>5
  <1>8. /\ CreateSize(hint, Part.start, Part.end) \in Nat
        /\ AddSize(hint, Part.start, Part.end) \in Nat
        /\ CreateSize(MaxHint, Part.start, Part.end) \in Nat
        /\ AddSize(MaxHint, Part.start, Part.end) \in Nat
        /\ CreateSize(hint, Part.start, Part.end) <=
              CreateSize(MaxHint, Part.start, Part.end)
        /\ AddSize(hint, Part.start, Part.end) <= AddSize(MaxHint, Part.start, Part.end)
    BY <1>1, <1>5, <1>6, <1>7, Sizes
  <1>9. CASE ~Creating
    <2>1. AddSize(call.hint, Part.start, Part.end) <= MaxRequestBytes
      BY <1>2, <1>9 DEF AllFit, Part
    <2>2. RequestSize = AddSize(call.hint, Part.start, Part.end)
      BY <1>9 DEF RequestSize
    <2>3. QED
      BY <1>3, <1>4, <1>5, <1>8, <1>9, <2>1, <2>2
  <1>10. CASE Creating /\ next = 1
    <2>1. CreateSize(MaxHint, Part.start, Part.end) <= MaxRequestBytes
      BY <1>2, <1>10 DEF AllFit, Part
    <2>2. RequestSize = CreateSize(hint, Part.start, Part.end)
      BY <1>10 DEF RequestSize
    <2>3. QED
      BY <1>3, <1>4, <1>5, <1>8, <2>1, <2>2
  <1>11. CASE Creating /\ next # 1
    <2>1. AddSize(MaxHint, Part.start, Part.end) <= MaxRequestBytes
      BY <1>2, <1>11 DEF AllFit, Part
    <2>2. RequestSize = AddSize(hint, Part.start, Part.end)
      BY <1>11 DEF RequestSize
    <2>3. QED
      BY <1>3, <1>4, <1>5, <1>8, <2>1, <2>2
  <1>12. QED
    BY <1>3, <1>4, <1>9, <1>10, <1>11

-----------------------------------------------------------------------------
(* One request more.                                                       *)

(* What another entry does to the log.                                     *)
LEMMA LogGrows ==
  ASSUME log \in Seq(Entry), NEW e \in Entry, log' = Append(log, e)
  PROVE  /\ log' \in Seq(Entry) /\ log' # <<>>
         /\ IsFiniteSet(Replied("ok")) /\ Cardinality(Replied("ok")) \in Nat
         /\ \A i \in DOMAIN log : i \in DOMAIN log' /\ log'[i] = log[i]
         /\ \A i \in DOMAIN log' : i \in DOMAIN log \/ log'[i] = e
         /\ \A i, j \in DOMAIN log' : i < j => i \in DOMAIN log
         /\ e.reply # "ok" =>
               /\ Replied("ok")' = Replied("ok")
               /\ ItemsIn(Replied("ok"))' = ItemsIn(Replied("ok"))
         /\ e.reply = "ok" =>
               /\ Cardinality(Replied("ok")') = Cardinality(Replied("ok")) + 1
               /\ ItemsIn(Replied("ok"))' =
                     ItemsIn(Replied("ok")) \cup ((e.start + 1)..e.end)
  <1> DEFINE l == Len(log)
             R == Replied("ok")
             S == Replied("ok")'
  <1>1. l \in Nat /\ DOMAIN log = 1..l
    OBVIOUS
  <1>2. /\ log' \in Seq(Entry) /\ Len(log') = l + 1 /\ DOMAIN log' = 1..(l + 1)
        /\ \A i \in 1..l : log'[i] = log[i]
        /\ log'[l + 1] = e /\ log' # <<>>
    OBVIOUS
  <1>3. R = {i \in 1..l : log[i].reply = "ok"}
    BY <1>1 DEF Replied
  <1>4. S = {i \in 1..(l + 1) : log'[i].reply = "ok"}
    BY <1>2 DEF Replied
  <1>5. ItemsIn(R) = UNION {(log[i].start + 1)..log[i].end : i \in R}
    BY DEF ItemsIn
  <1>6. ItemsIn(R)' = UNION {(log'[i].start + 1)..log'[i].end : i \in S}
    BY DEF ItemsIn
  <1>7. \A i \in 1..(l + 1) : i \in 1..l \/ i = l + 1
    BY <1>1
  <1>8. \A i \in 1..l : i \in 1..(l + 1)
    BY <1>1
  <1>9. \A i, j \in 1..(l + 1) : i < j => i \in 1..l
    BY <1>1
  <1>10. l + 1 \notin 1..l /\ l + 1 \in 1..(l + 1)
    BY <1>1
  <1>11. IsFiniteSet(R) /\ Cardinality(R) \in Nat
    <2>1. IsFiniteSet(1..l)
      BY <1>1, FS_Interval
    <2>2. R \in SUBSET (1..l)
      BY <1>3
    <2> HIDE DEF R, l
    <2>3. IsFiniteSet(R)
      BY <2>1, <2>2, FS_Subset
    <2>4. QED
      BY <2>3, FS_CardinalityType
  <1> HIDE DEF l, R, S
  <1>12. ASSUME e.reply # "ok" PROVE S = R /\ ItemsIn(Replied("ok"))' = ItemsIn(R)
    <2>1. S = R
      BY <1>2, <1>3, <1>4, <1>7, <1>8, <1>12
    <2>2. \A i \in R : log'[i] = log[i]
      BY <1>2, <1>3
    <2>3. QED
      BY <1>5, <1>6, <2>1, <2>2, ZenonT(60) DEF R
  <1>13. ASSUME e.reply = "ok"
         PROVE  /\ Cardinality(S) = Cardinality(R) + 1
                /\ ItemsIn(Replied("ok"))' = ItemsIn(R) \cup ((e.start + 1)..e.end)
    <2>1. S = R \cup {l + 1} /\ l + 1 \notin R
      BY <1>2, <1>3, <1>4, <1>7, <1>8, <1>10, <1>13
    <2>2. Cardinality(S) = Cardinality(R) + 1
      BY <1>11, <2>1, FS_AddElement
    <2>3. \A i \in R : log'[i] = log[i]
      BY <1>2, <1>3
    <2> DEFINE f(i) == (log[i].start + 1)..log[i].end
               g(i) == (log'[i].start + 1)..log'[i].end
    <2>4. g(l + 1) = (e.start + 1)..e.end /\ \A i \in R : g(i) = f(i)
      BY <1>2, <2>3
    <2>5. ItemsIn(R) = UNION {f(i) : i \in R}
      BY <1>5
    <2>6. ItemsIn(Replied("ok"))' = UNION {g(i) : i \in S}
      BY <1>6 DEF R
    <2> HIDE DEF f, g
    <2>7. UNION {g(i) : i \in S} = (UNION {f(i) : i \in R}) \cup g(l + 1)
      BY <2>1, <2>4
    <2>8. QED
      BY <2>2, <2>4, <2>5, <2>6, <2>7
  <1>14. QED
    BY <1>1, <1>2, <1>7, <1>8, <1>9, <1>11, <1>12, <1>13 DEF R, S

(* The number of the first d items.                                        *)
LEMMA CoveredCount ==
  ASSUME call \in Operations, NEW d \in 0..n
  PROVE  Cardinality(Covered(d)) = d
  <1>1. n \in Nat /\ d \in Nat /\ d <= n
    BY CallType
  <1>2. CASE call.kind = "after"
    <2> DEFINE i == n - d + 1
    <2>1. i \in Int /\ n \in Int /\ (IF i > n THEN 0 ELSE n - i + 1) = d
      BY <1>1
    <2>2. Covered(d) = i..n
      BY <1>2 DEF Covered
    <2> HIDE DEF i
    <2>3. Cardinality(i..n) = IF i > n THEN 0 ELSE n - i + 1
      BY <2>1, FS_Interval
    <2>4. QED
      BY <2>1, <2>2, <2>3
  <1>3. CASE call.kind # "after"
    <2> DEFINE i == 1
    <2>1. i \in Int /\ d \in Int /\ (IF i > d THEN 0 ELSE d - i + 1) = d
      BY <1>1
    <2>2. Covered(d) = i..d
      BY <1>3 DEF Covered
    <2> HIDE DEF i
    <2>3. Cardinality(i..d) = IF i > d THEN 0 ELSE d - i + 1
      BY <2>1, FS_Interval
    <2>4. QED
      BY <2>1, <2>2, <2>3
  <1>4. QED
    BY <1>2, <1>3

(* Where the operation is when the next request is acknowledged.           *)
LEMMA Progress ==
  ASSUME Typed, Underway, Sending
  PROVE  /\ NextSpan(done, Part.start, Part.end)
         /\ Width \in Nat /\ done + Width \in 0..n
         /\ next + 1 \in 1..(Len(parts) + 1)
         /\ Covered(done + Width) = Covered(done) \cup ((Part.start + 1)..Part.end)
         /\ IF next + 1 > Len(parts) THEN done + Width = n
            ELSE IF call.kind = "after" THEN parts[next + 1].end = n - (done + Width)
            ELSE parts[next + 1].start = done + Width
         /\ \A x \in Covered(done) : x \notin (Part.start + 1)..Part.end
  <1> DEFINE l == Len(parts)
             a == Part.start
             b == Part.end
  <1>1. /\ call \in Operations /\ parts \in Seq(Span) /\ next \in 1..(l + 1)
        /\ next <= l /\ done \in 0..n
    BY DEF Typed, Sending
  <1>2. n \in Nat /\ l \in Nat /\ DOMAIN parts = 1..l /\ parts # <<>>
    BY <1>1, CallType
  <1>3. Follow(parts)
    BY DEF Underway, Sending
  <1>4. a \in Nat /\ b \in Nat /\ a <= b /\ b <= n
    BY SentFits DEF Underway, Sending
  <1>5. IF call.kind = "after" THEN b = n - done ELSE a = done
    BY <1>1, <1>2 DEF Underway, Sending, Part
  <1>6. Width = b - a /\ next \in Nat /\ done \in Nat
    BY <1>1, <1>2 DEF Width
  <1>7. next + 1 > l => next = l
    <2> HIDE DEF l
    <2>1. next \in Nat
      BY <1>1, <1>2
    <2>2. QED
      BY <1>1, <1>2, <2>1
  <1>8. ~(next + 1 > l) => next + 1 \in 1..l /\ next + 1 # 1 /\ (next + 1) - 1 = next
    BY <1>1, <1>2
  <1>9. /\ call.kind = "after" /\ next + 1 > l => a = 0
        /\ call.kind # "after" /\ next + 1 > l => b = n
    BY <1>2, <1>3, <1>7 DEF Follow, Part
  <1>10. /\ call.kind = "after" /\ ~(next + 1 > l) => parts[next + 1].end = a
         /\ call.kind # "after" /\ ~(next + 1 > l) => parts[next + 1].start = b
    <2> DEFINE m == next + 1
    <2>1. ~(next + 1 > l) => m \in 1..l /\ m # 1 /\ m - 1 = next
      BY <1>8
    <2> HIDE DEF m
    <2>2. /\ call.kind = "after" /\ ~(next + 1 > l) => parts[m].end = parts[next].start
          /\ call.kind # "after" /\ ~(next + 1 > l) => parts[m].start = parts[next].end
      BY <1>2, <1>3, <2>1 DEF Follow
    <2>3. QED
      BY <2>2 DEF m, Part
  <1> HIDE DEF a, b, l
  <1>11. NextSpan(done, a, b)
    BY <1>4, <1>5 DEF NextSpan
  <1>12. done + Width \in 0..n /\ Width \in Nat
    BY <1>2, <1>4, <1>5, <1>6
  <1>13. next + 1 \in 1..(l + 1)
    BY <1>1, <1>2, <1>6
  <1>14. CASE call.kind = "after"
    <2>1. /\ Covered(done) = (b + 1)..n
          /\ Covered(done + Width) = (a + 1)..n
      <3>1. n - done + 1 = b + 1 /\ n - (done + Width) + 1 = a + 1
        BY <1>2, <1>4, <1>5, <1>6, <1>14
      <3>2. QED
        BY <1>14, <3>1 DEF Covered
    <2>2. (a + 1)..n = ((b + 1)..n) \cup ((a + 1)..b)
      BY <1>2, <1>4
    <2>3. \A x \in (b + 1)..n : x \notin (a + 1)..b
      BY <1>2, <1>4
    <2>4. IF next + 1 > l THEN done + Width = n
          ELSE parts[next + 1].end = n - (done + Width)
      BY <1>2, <1>4, <1>5, <1>6, <1>9, <1>10, <1>14
    <2>5. QED
      BY <1>11, <1>12, <1>13, <1>14, <2>1, <2>2, <2>3, <2>4 DEF a, b, l
  <1>15. CASE call.kind # "after"
    <2>1. /\ Covered(done) = 1..a
          /\ Covered(done + Width) = 1..b
      <3>1. done = a /\ done + Width = b
        BY <1>4, <1>5, <1>6, <1>15
      <3>2. QED
        BY <1>15, <3>1 DEF Covered
    <2>2. 1..b = (1..a) \cup ((a + 1)..b)
      BY <1>4
    <2>3. \A x \in 1..a : x \notin (a + 1)..b
      BY <1>4
    <2>4. IF next + 1 > l THEN done + Width = n
          ELSE parts[next + 1].start = done + Width
      BY <1>2, <1>4, <1>5, <1>6, <1>9, <1>10, <1>15
    <2>5. QED
      BY <1>11, <1>12, <1>13, <1>15, <2>1, <2>2, <2>3, <2>4 DEF a, b, l
  <1>16. QED
    BY <1>14, <1>15

(* What a request that is executed does to the container.                  *)
LEMMA Delivered ==
  ASSUME Typed, Underway, Sending
  PROVE  /\ IsContainer(Applied) /\ Distance(store, Applied) \in Nat
         /\ Distance(store, Applied) = 0 => Applied = store
         /\ ~lost => Applied = Apply(initial, call.pos, FirstItems(done + Width))
         /\ ~lost => Distance(initial, Applied) =
                        Distance(initial, store) + Distance(store, Applied)
  <1> DEFINE a == Part.start
             b == Part.end
             g == Values(a, b)
             p == Position(a)
  <1>1. /\ call \in Operations /\ IsContainer(initial) /\ IsContainer(store)
        /\ done \in 0..n
    BY DEF Typed
  <1>2. a \in Nat /\ b \in Nat /\ a <= b /\ NextSpan(done, a, b)
    BY Progress DEF NextSpan
  <1>a. Applied = Apply(store, p, g) /\ Width = b - a
    BY DEF Applied, Width
  <1> HIDE DEF a, b
  <1>3. g \in Seq(Nat) /\ Range(g) = (a + 1)..b /\ a + 1 \in Nat
    <2>1. g \in Seq(Nat) /\ Range(g) = (a + 1)..b
      BY <1>2, ValuesProps
    <2>2. QED
      BY <1>2, <2>1
  <1>4. p \in Nat
    <2>1. call.pos \in Nat /\ MaxUint32 \in Nat
      BY <1>1, CallType
    <2>2. QED
      BY <1>2, <2>1 DEF Position
  <1>5. Applied = Apply(store, p, g)
    BY <1>a
  <1> HIDE DEF g, p
  <1>6. /\ IsContainer(Applied) /\ Amount(store) \in Nat /\ Amount(Applied) \in Nat
        /\ IF call.kind = "remove" THEN Amount(Applied) <= Amount(store)
                                   ELSE Amount(store) <= Amount(Applied)
        /\ Amount(Applied) = Amount(store) => Applied = store
    <2>1. a + 1 \in Int /\ b \in Int
      BY <1>2
    <2>2. IsFiniteSet(Range(g))
      BY <1>3, <2>1, FS_Interval
    <2>3. /\ IsContainer(Apply(store, p, g))
          /\ Amount(store) \in Nat /\ Amount(Apply(store, p, g)) \in Nat
          /\ IF call.kind = "remove" THEN Amount(Apply(store, p, g)) <= Amount(store)
                                     ELSE Amount(store) <= Amount(Apply(store, p, g))
          /\ Amount(Apply(store, p, g)) = Amount(store) => Apply(store, p, g) = store
      BY <1>1, <1>3, <1>4, <2>2, ApplyChanges
    <2>4. QED
      BY <1>5, <2>3, Zenon
  <1>7. /\ Distance(store, Applied) \in Nat
        /\ Distance(store, Applied) = 0 => Applied = store
    BY <1>6 DEF Distance
  <1>8. ASSUME ~lost
        PROVE  /\ Applied = Apply(initial, call.pos, FirstItems(done + Width))
               /\ Distance(initial, Applied) =
                     Distance(initial, store) + Distance(store, Applied)
    <2>1. store = Apply(initial, call.pos, FirstItems(done)) /\ ~PositionOverflows
      BY <1>8 DEF Underway, Sending
    <2>2. Applied = Apply(initial, call.pos, FirstItems(done + (b - a)))
      BY <1>1, <1>2, <1>5, <2>1, Compose DEF g, p
    <2>3. /\ Amount(initial) \in Nat
          /\ IF call.kind = "remove" THEN Amount(store) <= Amount(initial)
                                     ELSE Amount(initial) <= Amount(store)
      <3> DEFINE f == FirstItems(done)
      <3>1. IsFiniteSet(Range(f))
        BY <1>1, FirstProps
      <3>2. f \in Seq(Nat) /\ call.pos \in Nat
        BY <1>1, FirstProps, CallType
      <3>3. store = Apply(initial, call.pos, f)
        BY <2>1
      <3> HIDE DEF f
      <3>4. QED
        BY <1>1, <3>1, <3>2, <3>3, ApplyChanges
    <2>4. Distance(initial, Applied) =
             Distance(initial, store) + Distance(store, Applied)
      BY <1>6, <2>3 DEF Distance
    <2>5. QED
      BY <1>a, <2>2, <2>4
  <1>9. QED
    BY <1>6, <1>7, <1>8

-----------------------------------------------------------------------------
(* The inductive invariant.                                                *)

(* What has been put through when an attempt ends with the error e.        *)
PutThrough(e, good) ==
    IF e.partial THEN e.items ELSE IF e.code = "OK" /\ good THEN n ELSE 0

(* What has to hold when an attempt ends with the error e.                 *)
LEMMA Returns ==
  ASSUME NEW e, Return(e), call' = call, initial' = initial,
         Typed', AckedNotResent',
         ~lost' => store' = Apply(initial, call.pos, FirstItems(PutThrough(e, ok'))),
         e.partial => /\ e.chunks = Cardinality(Replied("ok")')
                      /\ e.items = Cardinality(ItemsIn(Replied("ok"))'),
         e.code = "ResourceExhausted" =>
             Replied("ok")' = {} /\ (attempt' = 1 => log' = <<>>),
         ~lost' /\ ~Creating /\ e.code # "OutOfRange" =>
             count' = Distance(initial, store'),
         e.code \in {"Unavailable", "FailedPrecondition"} /\ ~e.partial =>
             Replied("ok")' = {} /\ (~lost' => store' = initial)
  PROVE  IInv'
  <1>1. pc' = "returned" /\ result' = e
    BY DEF Return
  <1>2. Untouched' /\ Underway'
    BY <1>1 DEF Untouched, Underway
  <1>3. Repeatable'
    BY <1>1 DEF Repeatable
  <1>4. ChunksAsOneRequest'
    BY <1>1 DEF ChunksAsOneRequest, Completed, PutThrough, FirstItems, Apply, n
  <1>5. PartialExact'
    BY <1>1 DEF PartialExact
  <1>6. RefusedUntouched'
    BY <1>1 DEF RefusedUntouched
  <1>7. CountIsTrue'
    BY <1>1 DEF CountIsTrue, Creating, Distance, Amount, Ordered
  <1>8. QED
    BY <1>2, <1>3, <1>4, <1>5, <1>6, <1>7 DEF IInv

(* Nothing changes on the server.                                          *)
LEMMA ServerFrame ==
  ASSUME AckedNotResent, log' = log
  PROVE  /\ AckedNotResent' /\ Replied("ok")' = Replied("ok")
         /\ ItemsIn(Replied("ok"))' = ItemsIn(Replied("ok"))
  <1>1. Replied("ok")' = Replied("ok")
    BY DEF Replied
  <1>2. ItemsIn(Replied("ok"))' = ItemsIn(Replied("ok"))
    BY <1>1 DEF ItemsIn
  <1>3. AckedNotResent'
    BY DEF AckedNotResent
  <1>4. QED
    BY <1>1, <1>2, <1>3

(* An error with and without progress.                                     *)
LEMMA PartialValue ==
  ASSUME NEW ch \in Nat, NEW items, NEW code
  PROVE  /\ Partial(ch, items, code).code = code
         /\ Partial(ch, items, code).partial = (ch # 0)
         /\ ch # 0 => /\ Partial(ch, items, code).chunks = ch
                      /\ Partial(ch, items, code).items = items
  BY DEF Partial, Plain

(* An error that is no PartialError.                                       *)
LEMMA PlainValue ==
  ASSUME NEW code
  PROVE  Plain(code).code = code /\ Plain(code).partial = FALSE
  BY DEF Plain

(* A container without change is what no item at all makes of it.          *)
LEMMA NothingApplied ==
  ASSUME call \in Operations, IsContainer(initial)
  PROVE  Apply(initial, call.pos, FirstItems(0)) = initial
  <1>1. n \in Nat /\ call.pos \in Nat /\ 0 \in 0..n
    BY CallType
  <1> DEFINE f == FirstItems(0)
             t == Apply(initial, call.pos, f)
  <1>2. f = <<>>
    BY <1>1, FirstProps
  <1>3. CASE Ordered
    <2>1. initial \in Seq(Nat)
      BY <1>3 DEF IsContainer
    <2>2. f \in Seq(Nat) /\ Len(f) = 0
      BY <1>1, FirstProps
    <2> HIDE DEF f
    <2>3. t = initial \/ \E at \in 0..Len(initial), x \in Seq(Nat) :
                            Len(x) = Len(f) /\ t = Insert(initial, at, x)
      BY <1>1, <1>3, <2>1, <2>2, OrderedApply
    <2>4. ASSUME NEW at \in 0..Len(initial), NEW x \in Seq(Nat), Len(x) = 0
          PROVE  Insert(initial, at, x) = initial
      <3>1. x = <<>>
        BY <2>4
      <3>2. QED
        BY <2>1, <3>1, InsertNothing
    <2>5. QED
      BY <2>2, <2>3, <2>4 DEF f
  <1>4. CASE ~Ordered
    <2>1. Range(f) = {}
      BY <1>2 DEF Range
    <2> HIDE DEF f
    <2>2. CASE call.kind = "remove"
      <3>1. t = initial \ Range(f)
        BY <2>2, ApplyOf
      <3>2. QED
        BY <2>1, <3>1 DEF f
    <2>3. CASE call.kind # "remove"
      <3>1. call.kind \in {"createSet", "bool", "orderedBool", "generic"}
        BY <1>4, <2>3, CallType
           DEF Ordered, Kinds, CreateKinds, BooleanKinds, SequenceKinds
      <3>2. t = initial \cup Range(f)
        BY <3>1, ApplyOf
      <3>3. QED
        BY <2>1, <3>2 DEF f
    <2>4. QED
      BY <2>2, <2>3
  <1>5. QED
    BY <1>3, <1>4

(* No change, no distance.                                                 *)
LEMMA NoDistance ==
  ASSUME NEW s, IsContainer(s)
  PROVE  Distance(s, s) = 0
  <1>1. Amount(s) \in Nat
    BY FS_CardinalityType DEF IsContainer, Amount
  <1>2. QED
    BY <1>1 DEF Distance

(* Every operation starts from a container of its sort.                    *)
LEMMA InitIInv ==
  ASSUME Init
  PROVE  IInv
  <1>1. call \in Operations /\ log = <<>> /\ store = initial /\ pc = "prepare"
        /\ parts = <<>> /\ attempt = 1 /\ next = 1 /\ hint = call.hint /\ done = 0
        /\ chunks = 0 /\ count = 0
    BY DEF Init
  <1>2. n \in Nat /\ MaxUint32 \in Nat /\ hint \in 0..MaxHint
    BY <1>1, CallType
  <1>3. IsContainer(initial)
    <2>1. PICK s \in Seq(Nat) : initial = Contents(s)
      <3>1. <<>> \in Seq(Nat) /\ Stores \subseteq Seq(Nat)
        BY BatchAssumption
      <3>2. QED
        BY <3>1 DEF Init
    <2>2. CASE Ordered
      BY <2>1, <2>2 DEF Contents, IsContainer
    <2>3. CASE ~Ordered
      <3> DEFINE D == 1..Len(s)
                 T == Range(s)
      <3>1. IsFiniteSet(D)
        BY FS_Interval
      <3>2. s \in Surjection(D, T)
        BY DEF Surjection, Range
      <3> HIDE DEF D, T
      <3>3. IsFiniteSet(T)
        BY <3>1, <3>2, FS_Surjection
      <3>4. QED
        BY <2>1, <2>3, <3>3 DEF Contents, IsContainer, T
    <2>4. QED
      BY <2>2, <2>3
  <1>4. Typed
    <2>1. parts \in Seq(Span) /\ next \in 1..(Len(parts) + 1) /\ log \in Seq(Entry)
      BY <1>1
    <2>2. done \in 0..n /\ chunks \in Nat /\ count \in 0..MaxUint32
      BY <1>1, <1>2
    <2>3. QED
      BY <1>1, <1>2, <1>3, <2>1, <2>2 DEF Typed
  <1>5. Replied("ok") = {}
    BY <1>1 DEF Replied
  <1>6. Untouched /\ Underway /\ Repeatable
    BY <1>1, <1>5 DEF Untouched, Underway, Repeatable, Ended
  <1>7. /\ ChunksAsOneRequest /\ PartialExact /\ AckedNotResent
        /\ RefusedUntouched /\ CountIsTrue
    BY <1>1 DEF ChunksAsOneRequest, PartialExact, AckedNotResent,
                RefusedUntouched, CountIsTrue, Ended
  <1>8. QED
    BY <1>4, <1>6, <1>7 DEF IInv

(* The type of the variables that a return leaves alone.                   *)
LEMMA TypedFrame ==
  ASSUME Typed, pc' \in {"prepare", "send", "returned"}, attempt' \in {1, 2},
         UNCHANGED <<call, parts, next, hint, done, chunks, count, initial>>,
         IsContainer(store'), log' \in Seq(Entry)
  PROVE  Typed'
  BY DEF Typed, IsContainer, Ordered, n

(* An attempt that fails before its first request has done nothing.        *)
LEMMA PrepareStops ==
  ASSUME IInv, EncodeFails \/ PrepareFails
  PROVE  IInv'
  <1>1. /\ pc = "prepare" /\ UNCHANGED <<call, attempt, parts, next, hint, done>>
        /\ UNCHANGED <<chunks, count, ok, initial, store, log, lost>>
    BY DEF EncodeFails, PrepareFails, serverVars
  <1>2. PICK code \in {"Other", "OutOfRange", "ResourceExhausted"} : Return(Plain(code))
    BY DEF EncodeFails, PrepareFails
  <1>3. /\ count = 0 /\ Replied("ok") = {} /\ (~lost => store = initial)
        /\ attempt = 1 => log = <<>>
    BY <1>1 DEF IInv, Untouched
  <1>4. Typed /\ AckedNotResent /\ call \in Operations /\ IsContainer(initial)
        /\ IsContainer(store) /\ log \in Seq(Entry) /\ attempt \in {1, 2}
    BY DEF IInv, Typed
  <1>5. Typed'
    BY <1>1, <1>2, <1>4, TypedFrame DEF Return
  <1>6. AckedNotResent' /\ Replied("ok")' = {}
    BY <1>1, <1>3, <1>4, ServerFrame
  <1> DEFINE e == Plain(code)
  <1>7. e.code = code /\ ~e.partial /\ Return(e)
    BY <1>2, PlainValue
  <1>8. PutThrough(e, ok') = 0
    BY <1>7 DEF PutThrough
  <1>9. ~lost' => store' = Apply(initial, call.pos, FirstItems(PutThrough(e, ok')))
    BY <1>1, <1>3, <1>4, <1>8, NothingApplied
  <1>10. ~lost' => count' = Distance(initial, store')
    BY <1>1, <1>3, <1>4, NoDistance
  <1> HIDE DEF e
  <1>11. QED
    BY <1>1, <1>3, <1>5, <1>6, <1>7, <1>9, <1>10, Returns

(* A prepared operation has spans that follow one another and fit.         *)
LEMMA PrepareKeeps ==
  ASSUME IInv, Prepare
  PROVE  IInv'
  <1>1. /\ pc = "prepare" /\ pc' = "send" /\ ok' = TRUE
        /\ UNCHANGED <<call, attempt, next, hint, done, chunks, count, result>>
        /\ UNCHANGED <<initial, store, log, lost>>
        /\ ~PositionOverflows /\ ~TooLarge(SplitSize, MaxRequestBytes, n)
    BY DEF Prepare, serverVars
  <1>2. PICK ps \in Splits : /\ ~ContinuationTooLarge(OrEmpty(ps))
                             /\ parts' = InOrder(OrEmpty(ps))
    BY DEF Prepare
  <1>3. /\ call \in Operations /\ attempt \in {1, 2} /\ hint \in 0..MaxHint
        /\ IsContainer(initial) /\ IsContainer(store) /\ log \in Seq(Entry)
        /\ AckedNotResent /\ MaxUint32 \in Nat /\ n \in Nat
    BY CallType DEF IInv, Typed
  <1>4. /\ next = 1 /\ hint = call.hint /\ done = 0 /\ chunks = 0 /\ count = 0
        /\ Replied("ok") = {} /\ (~lost => store = initial)
    BY <1>1 DEF IInv, Untouched
  <1>5. ps \in Seq(Span) /\ Cover(ps, n)
    BY DEF Splits
  <1>6. parts' \in Seq(Span) /\ Follow(parts') /\ AllFit(parts')
    BY <1>1, <1>2, <1>3, <1>5, SplitFollows, SplitFits
  <1>7. next' \in 1..(Len(parts') + 1) /\ done' \in 0..n /\ chunks' \in Nat
        /\ count' \in 0..MaxUint32
    BY <1>1, <1>3, <1>4, <1>6
  <1>8. Typed'
    BY <1>1, <1>3, <1>6, <1>7 DEF Typed, IsContainer, Ordered, n
  <1>9. Untouched' /\ Repeatable' /\ ChunksAsOneRequest' /\ PartialExact'
        /\ RefusedUntouched' /\ CountIsTrue'
    BY <1>1 DEF Untouched, Repeatable, ChunksAsOneRequest, PartialExact,
                RefusedUntouched, CountIsTrue, Ended
  <1>10. AckedNotResent' /\ Replied("ok")' = {}
    BY <1>1, <1>3, <1>4, ServerFrame
  <1>11. Follow(parts)' /\ AllFit(parts)' /\ ~PositionOverflows'
    BY <1>1, <1>6 DEF Follow, AllFit, PositionOverflows, Creating, CreateSize,
                      AddSize, ItemBytes, n
  <1>12. /\ IF next' > Len(parts') THEN done' = n
            ELSE IF call.kind = "after" THEN parts'[next'].end = n - done'
            ELSE parts'[next'].start = done'
    <2>1. DOMAIN parts' = 1..Len(parts') /\ Len(parts') \in Nat
          /\ (Len(parts') = 0 <=> parts' = <<>>)
      BY <1>6
    <2>2. next' = 1 /\ done' = 0
      BY <1>1, <1>4
    <2>3. CASE Len(parts') = 0
      <3>1. n = 0 /\ next' > Len(parts')
        BY <1>6, <2>1, <2>2, <2>3 DEF Follow
      <3>2. QED
        BY <2>2, <3>1
    <2>4. CASE Len(parts') # 0
      <3>1. 1 \in DOMAIN parts' /\ ~(1 > Len(parts'))
        BY <2>1, <2>4
      <3>2. IF call.kind = "after" THEN parts'[1].end = n ELSE parts'[1].start = 0
        BY <1>6, <3>1 DEF Follow
      <3>3. n - 0 = n
        BY <1>3
      <3>4. QED
        BY <2>2, <3>1, <3>2, <3>3
    <2>5. QED
      BY <2>3, <2>4
  <1>13. Cardinality(Replied("ok"))' = 0 /\ ItemsIn(Replied("ok"))' = {}
    BY <1>10, FS_EmptySet DEF ItemsIn
  <1>14. Covered(0) = {}
    BY <1>3 DEF Covered
  <1>15. ~lost => /\ store = Apply(initial, call.pos, FirstItems(0))
                  /\ Distance(initial, store) = 0
    BY <1>3, <1>4, NothingApplied, NoDistance
  <1>16. Underway'
    <2>1. (chunks = next - 1)'
      BY <1>1, <1>4
    <2>2. (IF next > Len(parts) THEN done = n
           ELSE IF call.kind = "after" THEN parts[next].end = n - done
           ELSE parts[next].start = done)'
      BY <1>1, <1>12 DEF n
    <2>3. (/\ Cardinality(Replied("ok")) = chunks
           /\ ItemsIn(Replied("ok")) = Covered(done))'
      BY <1>1, <1>4, <1>13, <1>14 DEF Covered, n
    <2>4. (/\ ~lost => store = Apply(initial, call.pos, FirstItems(done))
           /\ ~lost /\ ~Creating => count = Distance(initial, store))'
      BY <1>1, <1>4, <1>15 DEF Apply, FirstItems, n, Distance, Amount, Ordered
    <2>5. (ok /\ (~Creating => hint = call.hint) /\ (next = 1 => done = 0))'
      BY <1>1, <1>4
    <2>6. QED
      BY <1>11, <2>1, <2>2, <2>3, <2>4, <2>5 DEF Underway
  <1>17. QED
    BY <1>8, <1>9, <1>10, <1>16 DEF IInv

(* An operation that has sent everything returns without an error.         *)
LEMMA CompleteKeeps ==
  ASSUME IInv, Complete
  PROVE  IInv'
  <1>1. /\ pc = "send" /\ next > Len(parts) /\ Return(Plain("OK"))
        /\ UNCHANGED <<call, attempt, parts, next, hint, done, chunks, count, ok>>
        /\ UNCHANGED <<initial, store, log, lost>>
    BY DEF Complete, serverVars
  <1>2. Typed /\ AckedNotResent /\ IsContainer(store) /\ log \in Seq(Entry)
        /\ attempt \in {1, 2}
    BY DEF IInv, Typed
  <1>3. /\ ok /\ done = n
        /\ ~lost => store = Apply(initial, call.pos, FirstItems(n))
        /\ ~lost /\ ~Creating => count = Distance(initial, store)
    BY <1>1 DEF IInv, Underway
  <1>4. Typed' /\ AckedNotResent'
    BY <1>1, <1>2, TypedFrame, ServerFrame DEF Return
  <1> DEFINE e == Plain("OK")
  <1>5. e.code = "OK" /\ ~e.partial /\ Return(e)
    BY <1>1, PlainValue
  <1>6. PutThrough(e, ok') = n
    BY <1>1, <1>3, <1>5 DEF PutThrough
  <1> HIDE DEF e
  <1>7. QED
    BY <1>1, <1>3, <1>4, <1>5, <1>6, Returns

(* An attempt that ends between two requests reports its progress.         *)
LEMMA ProgressReported ==
  ASSUME IInv, Sending, NEW code
  PROVE  LET e == Partial(chunks, done, code)
         IN  /\ e.partial => /\ e.chunks = Cardinality(Replied("ok"))
                             /\ e.items = Cardinality(ItemsIn(Replied("ok")))
             /\ e.code = code
             /\ code # "OK" /\ ~lost =>
                   store = Apply(initial, call.pos, FirstItems(PutThrough(e, ok)))
             /\ ~e.partial => Replied("ok") = {} /\ (~lost => store = initial)
  <1> DEFINE e == Partial(chunks, done, code)
  <1>1. Typed /\ call \in Operations /\ done \in 0..n /\ chunks \in Nat
        /\ IsContainer(initial) /\ log \in Seq(Entry) /\ next \in 1..(Len(parts) + 1)
        /\ parts \in Seq(Span)
    BY DEF IInv, Typed
  <1>2. /\ chunks = next - 1 /\ (next = 1 => done = 0)
        /\ Cardinality(Replied("ok")) = chunks
        /\ ItemsIn(Replied("ok")) = Covered(done)
        /\ ~lost => store = Apply(initial, call.pos, FirstItems(done))
    BY DEF IInv, Underway, Sending
  <1>3. /\ e.code = code /\ e.partial = (chunks # 0)
        /\ chunks # 0 => e.chunks = chunks /\ e.items = done
    BY <1>1, PartialValue
  <1>4. Cardinality(Covered(done)) = done
    BY <1>1, CoveredCount
  <1>5. chunks = 0 => done = 0
    <2>1. next \in Nat
      BY <1>1
    <2>2. QED
      BY <1>2, <2>1
  <1>6. chunks = 0 => Replied("ok") = {}
    <2> DEFINE R == Replied("ok")
               l == Len(log)
    <2>1. R \in SUBSET (1..l) /\ l \in Nat
      BY <1>1 DEF Replied
    <2>2. IsFiniteSet(1..l)
      BY <2>1, FS_Interval
    <2> HIDE DEF R, l
    <2>3. IsFiniteSet(R)
      BY <2>1, <2>2, FS_Subset
    <2>4. Cardinality(R) = 0 => R = {}
      BY <2>3, FS_EmptySet
    <2>5. QED
      BY <1>2, <2>4 DEF R
  <1>7. Apply(initial, call.pos, FirstItems(0)) = initial
    BY <1>1, NothingApplied
  <1>8. code # "OK" => PutThrough(e, ok) = done
    BY <1>3, <1>5 DEF PutThrough
  <1> HIDE DEF e
  <1>9. /\ e.partial => /\ e.chunks = Cardinality(Replied("ok"))
                        /\ e.items = Cardinality(ItemsIn(Replied("ok")))
        /\ e.code = code
        /\ code # "OK" /\ ~lost =>
              store = Apply(initial, call.pos, FirstItems(PutThrough(e, ok)))
        /\ ~e.partial => Replied("ok") = {} /\ (~lost => store = initial)
    BY <1>2, <1>3, <1>4, <1>5, <1>6, <1>7, <1>8
  <1>10. QED
    BY <1>9 DEF e

(* The next request carries no item of an acknowledged one.                *)
LEMMA AckedAppend ==
  ASSUME IInv, Sending, NEW e \in Entry, e.start = Part.start, e.end = Part.end,
         log' = Append(log, e)
  PROVE  AckedNotResent'
  <1> DEFINE a == Part.start
             b == Part.end
  <1>1. Typed /\ Underway /\ AckedNotResent /\ call \in Operations
        /\ log \in Seq(Entry) /\ done \in 0..n /\ n \in Nat
    BY CallType DEF IInv, Typed
  <1>2. NextSpan(done, a, b)
    BY <1>1, Progress
  <1>3. a \in Nat /\ b \in Nat /\ IF call.kind = "after" THEN b = n - done ELSE a = done
    BY <1>2 DEF NextSpan
  <1>4. ItemsIn(Replied("ok")) = Covered(done)
    BY <1>1 DEF Underway, Sending
  <1>5. /\ \A i \in DOMAIN log : log'[i] = log[i]
        /\ \A i \in DOMAIN log' : i \in DOMAIN log \/ log'[i] = e
        /\ \A i, j \in DOMAIN log' : i < j => i \in DOMAIN log
    BY <1>1, LogGrows
  <1> HIDE DEF a, b
  <1>6. e.start = a /\ e.end = b
    BY DEF a, b
  <1>7. ASSUME NEW i \in DOMAIN log, log[i].reply = "ok", log[i].start < log[i].end
        PROVE  b <= log[i].start \/ log[i].end <= a
    <2> DEFINE x == log[i].start
               y == log[i].end
    <2>1. log[i] \in Entry
      BY <1>1
    <2>2. x \in Nat /\ y \in Nat /\ x < y
      BY <1>7, <2>1 DEF Entry
    <2>3. i \in Replied("ok")
      BY <1>7 DEF Replied
    <2>4. ((x + 1)..y) \subseteq Covered(done)
      BY <1>4, <2>3 DEF ItemsIn
    <2> HIDE DEF x, y
    <2>5. x + 1 \in (x + 1)..y /\ y \in (x + 1)..y
      BY <2>2
    <2>6. x + 1 \in Covered(done) /\ y \in Covered(done)
      BY <2>4, <2>5
    <2>7. CASE call.kind = "after"
      <3>1. x + 1 \in (n - done + 1)..n
        BY <2>6, <2>7 DEF Covered
      <3>2. b <= x
        BY <1>1, <1>3, <2>2, <2>7, <3>1
      <3>3. QED
        BY <3>2 DEF x
    <2>8. CASE call.kind # "after"
      <3>1. y \in 1..done
        BY <2>6, <2>8 DEF Covered
      <3>2. y <= a
        BY <1>1, <1>3, <2>2, <2>8, <3>1
      <3>3. QED
        BY <3>2 DEF y
    <2>9. QED
      BY <2>7, <2>8
  <1>8. ASSUME NEW i \in DOMAIN log', NEW j \in DOMAIN log', i < j,
               log'[i].reply = "ok", log'[i].start < log'[i].end
        PROVE  log'[j].end <= log'[i].start \/ log'[i].end <= log'[j].start
    <2>1. i \in DOMAIN log /\ log'[i] = log[i]
      BY <1>5, <1>8
    <2>2. CASE j \in DOMAIN log
      BY <1>1, <1>5, <1>8, <2>1, <2>2 DEF AckedNotResent
    <2>3. CASE log'[j] = e
      BY <1>6, <1>7, <1>8, <2>1, <2>3
    <2>4. QED
      BY <1>5, <2>2, <2>3
  <1>9. QED
    BY <1>8 DEF AckedNotResent

(* A call that ends before its request is sent.                            *)
LEMMA NotSentKeeps ==
  ASSUME IInv, NotSent
  PROVE  IInv'
  <1>1. /\ Sending
        /\ UNCHANGED <<call, attempt, parts, next, hint, done, chunks, count, ok>>
        /\ UNCHANGED <<initial, store, log, lost>>
    BY DEF NotSent, serverVars
  <1>2. Typed /\ Underway /\ AckedNotResent /\ IsContainer(store)
        /\ log \in Seq(Entry) /\ attempt \in {1, 2}
    BY DEF IInv, Typed
  <1>3. ~(RequestSize > MaxRequestBytes)
    BY <1>1, <1>2, SentFits DEF Underway, Sending
  <1> DEFINE e == Partial(chunks, done, "Canceled")
  <1>4. Return(e)
    BY <1>3 DEF NotSent
  <1>5. /\ e.partial => /\ e.chunks = Cardinality(Replied("ok"))
                        /\ e.items = Cardinality(ItemsIn(Replied("ok")))
        /\ e.code = "Canceled"
        /\ ~lost => store = Apply(initial, call.pos, FirstItems(PutThrough(e, ok)))
        /\ ~e.partial => Replied("ok") = {} /\ (~lost => store = initial)
    BY <1>1, ProgressReported
  <1>6. ~lost /\ ~Creating => count = Distance(initial, store)
    BY <1>1, <1>2 DEF Underway, Sending
  <1>7. Typed' /\ AckedNotResent' /\ Replied("ok")' = Replied("ok")
        /\ ItemsIn(Replied("ok"))' = ItemsIn(Replied("ok"))
    BY <1>1, <1>2, <1>4, TypedFrame, ServerFrame DEF Return
  <1> HIDE DEF e
  <1>8. QED
    BY <1>1, <1>4, <1>5, <1>6, <1>7, Returns

(* A request that fails, whether or not the server has executed it.        *)
LEMMA RpcFailsKeeps ==
  ASSUME IInv, RpcFails
  PROVE  IInv'
  <1>1. /\ Sending /\ Log("failed") /\ initial' = initial
        /\ UNCHANGED <<call, attempt, parts, next, hint, done, chunks, count, ok>>
        /\ \/ UNCHANGED <<store, lost>>
           \/ store' = Applied /\ lost' = TRUE
    BY DEF RpcFails
  <1>2. PICK code \in {"Unavailable", "FailedPrecondition", "Other"} :
               Return(Partial(chunks, done, code))
    BY DEF RpcFails
  <1>3. Typed /\ Underway /\ AckedNotResent /\ IsContainer(store)
        /\ log \in Seq(Entry) /\ attempt \in {1, 2}
    BY DEF IInv, Typed
  <1> DEFINE e == Partial(chunks, done, code)
             r == [start |-> Part.start, end |-> Part.end, reply |-> "failed"]
  <1>4. /\ e.partial => /\ e.chunks = Cardinality(Replied("ok"))
                        /\ e.items = Cardinality(ItemsIn(Replied("ok")))
        /\ e.code = code
        /\ ~lost => store = Apply(initial, call.pos, FirstItems(PutThrough(e, ok)))
        /\ ~e.partial => Replied("ok") = {} /\ (~lost => store = initial)
    BY <1>1, ProgressReported
  <1>5. r \in Entry /\ log' = Append(log, r) /\ r.reply # "ok"
        /\ r.start = Part.start /\ r.end = Part.end
    <2>1. Part.start \in Nat /\ Part.end \in Nat
      BY <1>1, <1>3, SentFits DEF Underway, Sending
    <2>2. QED
      BY <1>1, <2>1 DEF Log, Entry
  <1> HIDE DEF e, r
  <1>6. /\ log' \in Seq(Entry) /\ Replied("ok")' = Replied("ok")
        /\ ItemsIn(Replied("ok"))' = ItemsIn(Replied("ok"))
    BY <1>3, <1>5, LogGrows
  <1>7. AckedNotResent'
    BY <1>1, <1>5, AckedAppend
  <1>8. IsContainer(store')
    BY <1>1, <1>3, Delivered
  <1>9. Typed'
    BY <1>1, <1>2, <1>3, <1>6, <1>8, TypedFrame DEF Return
  <1>10. ~lost /\ ~Creating => count = Distance(initial, store)
    BY <1>1, <1>3 DEF Underway, Sending
  <1>11. Return(e)
    BY <1>2 DEF e
  <1>12. ~lost' => ~lost /\ store' = store
    BY <1>1
  <1>13. QED
    BY <1>1, <1>4, <1>6, <1>7, <1>9, <1>10, <1>11, <1>12, Returns

(* A chunk without effect stops the operation.                             *)
LEMMA StopKeeps ==
  ASSUME IInv, Sending, StopAtZero, Log("rejected"),
         UNCHANGED <<call, attempt, parts, count, initial, store, lost>>
  PROVE  IInv'
  <1>1. Typed /\ Underway /\ AckedNotResent /\ IsContainer(store) /\ chunks \in Nat
        /\ log \in Seq(Entry) /\ attempt \in {1, 2}
    BY DEF IInv, Typed
  <1> DEFINE f == Partial(chunks, done, "Aborted")
             e == IF chunks = 0 THEN Plain("OK") ELSE f
             r == [start |-> Part.start, end |-> Part.end, reply |-> "rejected"]
  <1>2. /\ f.partial => /\ f.chunks = Cardinality(Replied("ok"))
                        /\ f.items = Cardinality(ItemsIn(Replied("ok")))
        /\ f.code = "Aborted"
        /\ ~lost => store = Apply(initial, call.pos, FirstItems(PutThrough(f, ok)))
        /\ ~f.partial => Replied("ok") = {} /\ (~lost => store = initial)
    BY ProgressReported
  <1>3. f.partial = (chunks # 0)
    BY <1>1, PartialValue
  <1>4. ok' = FALSE /\ Return(e) /\ UNCHANGED <<next, done, chunks, hint>>
    BY DEF StopAtZero
  <1>5. r \in Entry /\ log' = Append(log, r) /\ r.reply # "ok"
        /\ r.start = Part.start /\ r.end = Part.end
    <2>1. Part.start \in Nat /\ Part.end \in Nat
      BY <1>1, SentFits DEF Underway, Sending
    <2>2. QED
      BY <2>1 DEF Log, Entry
  <1> HIDE DEF r
  <1>6. /\ log' \in Seq(Entry) /\ Replied("ok")' = Replied("ok")
        /\ ItemsIn(Replied("ok"))' = ItemsIn(Replied("ok"))
    BY <1>1, <1>5, LogGrows
  <1>7. AckedNotResent'
    BY <1>5, AckedAppend
  <1>8. Typed'
    BY <1>1, <1>4, <1>6, TypedFrame DEF Return
  <1>9. ~lost /\ ~Creating => count = Distance(initial, store)
    BY <1>1 DEF Underway, Sending
  <1>10. /\ e.partial = (chunks # 0)
         /\ e.code \in {"OK", "Aborted"}
         /\ e.partial => /\ e.chunks = Cardinality(Replied("ok"))
                         /\ e.items = Cardinality(ItemsIn(Replied("ok")))
    <2>1. CASE chunks = 0
      <3>1. e = Plain("OK")
        BY <2>1
      <3> HIDE DEF e
      <3>2. e.code = "OK" /\ e.partial = FALSE
        BY <3>1, PlainValue
      <3>3. QED
        BY <2>1, <3>2
    <2>2. CASE chunks # 0
      <3>1. e = f
        BY <2>2
      <3> HIDE DEF e, f
      <3>2. QED
        BY <1>2, <1>3, <3>1
    <2>3. QED
      BY <2>1, <2>2
  <1>11. ~lost => store = Apply(initial, call.pos, FirstItems(PutThrough(e, FALSE)))
    <2>1. CASE chunks = 0
      <3>1. PutThrough(e, FALSE) = 0
        BY <1>10, <2>1 DEF PutThrough
      <3>2. Apply(initial, call.pos, FirstItems(0)) = initial
        BY <1>1, NothingApplied DEF Typed
      <3>3. QED
        BY <1>2, <1>3, <2>1, <3>1, <3>2
    <2>2. CASE chunks # 0
      <3>1. e = f
        BY <2>2
      <3>2. PutThrough(f, FALSE) = PutThrough(f, ok)
        BY <1>3, <2>2 DEF PutThrough
      <3> HIDE DEF e, f
      <3>3. QED
        BY <1>2, <3>1, <3>2
    <2>3. QED
      BY <2>1, <2>2
  <1> HIDE DEF e, f
  <1>12. QED
    BY <1>4, <1>6, <1>7, <1>8, <1>9, <1>10, <1>11, Returns

(* The sum of the replies no longer fits into its 32 bits.                 *)
LEMMA OverflowKeeps ==
  ASSUME IInv, Sending, Log("ok"), store' = Applied,
         Return(Partial(chunks + 1, done + Width, "OutOfRange")),
         UNCHANGED <<call, attempt, parts, initial, lost, next, done, chunks,
                     count, ok, hint>>
  PROVE  IInv'
  <1>1. Typed /\ Underway /\ call \in Operations /\ chunks \in Nat
        /\ log \in Seq(Entry) /\ attempt \in {1, 2}
    BY DEF IInv, Typed
  <1> DEFINE e == Partial(chunks + 1, done + Width, "OutOfRange")
             r == [start |-> Part.start, end |-> Part.end, reply |-> "ok"]
  <1>2. e.partial /\ e.code = "OutOfRange" /\ e.chunks = chunks + 1
        /\ e.items = done + Width /\ Return(e)
    <2>1. chunks + 1 # 0
      BY <1>1
    <2>2. e = [code |-> "OutOfRange", partial |-> TRUE, chunks |-> chunks + 1,
               items |-> done + Width]
      BY <2>1 DEF Partial
    <2>3. Return(e)
      OBVIOUS
    <2> HIDE DEF e
    <2>4. QED
      BY <2>2, <2>3
  <1>3. r \in Entry /\ log' = Append(log, r) /\ r.reply = "ok"
        /\ r.start = Part.start /\ r.end = Part.end
    <2>1. Part.start \in Nat /\ Part.end \in Nat
      BY <1>1, SentFits DEF Underway, Sending
    <2>2. QED
      BY <2>1 DEF Log, Entry
  <1> HIDE DEF r
  <1>4. /\ log' \in Seq(Entry)
        /\ Cardinality(Replied("ok")') = Cardinality(Replied("ok")) + 1
        /\ ItemsIn(Replied("ok"))' =
              ItemsIn(Replied("ok")) \cup ((Part.start + 1)..Part.end)
    BY <1>1, <1>3, LogGrows
  <1>5. AckedNotResent'
    BY <1>3, AckedAppend
  <1>6. Cardinality(Replied("ok")) = chunks /\ ItemsIn(Replied("ok")) = Covered(done)
    BY <1>1 DEF Underway, Sending
  <1>7. done + Width \in 0..n
        /\ Covered(done + Width) = Covered(done) \cup ((Part.start + 1)..Part.end)
    BY <1>1, Progress
  <1>8. Cardinality(Covered(done + Width)) = done + Width
    BY <1>1, <1>7, CoveredCount
  <1>9. /\ IsContainer(store')
        /\ ~lost => store' = Apply(initial, call.pos, FirstItems(done + Width))
    BY <1>1, Delivered
  <1> HIDE DEF e
  <1>10. Typed'
    BY <1>1, <1>2, <1>4, <1>9, TypedFrame DEF Return
  <1>11. PutThrough(e, ok') = done + Width
    BY <1>2 DEF PutThrough
  <1>12. e.partial => /\ e.chunks = Cardinality(Replied("ok")')
                      /\ e.items = Cardinality(ItemsIn(Replied("ok"))')
    BY <1>2, <1>4, <1>6, <1>7, <1>8
  <1>13. QED
    BY <1>2, <1>5, <1>9, <1>10, <1>11, <1>12, Returns

(* An acknowledged chunk takes the operation to the next one.              *)
LEMMA NextKeeps ==
  ASSUME IInv, Sending, Log("ok"), store' = Applied, NextChunk,
         UNCHANGED <<call, attempt, parts, initial, lost>>,
         count' \in 0..MaxUint32,
         ~Creating => count' = count + Distance(store, Applied)
  PROVE  IInv'
  <1>1. Typed /\ Underway /\ call \in Operations /\ chunks \in Nat /\ next \in Nat
        /\ log \in Seq(Entry) /\ attempt \in {1, 2} /\ hint \in 0..MaxHint
        /\ parts \in Seq(Span) /\ done \in Nat /\ n \in Nat
        /\ IsContainer(initial) /\ pc = "send"
    BY CallType DEF IInv, Typed, Sending
  <1>2. /\ next' = next + 1 /\ done' = done + Width /\ chunks' = chunks + 1
        /\ UNCHANGED <<pc, ok, result>>
        /\ IF Creating /\ next = 1 THEN hint' \in {hint} \cup 0..MaxHint
                                   ELSE hint' = hint
    BY DEF NextChunk
  <1>3. /\ ok /\ Follow(parts) /\ AllFit(parts) /\ ~PositionOverflows
        /\ ~Creating => hint = call.hint
        /\ chunks = next - 1
        /\ Cardinality(Replied("ok")) = chunks
        /\ ItemsIn(Replied("ok")) = Covered(done)
        /\ ~lost /\ ~Creating => count = Distance(initial, store)
    BY <1>1 DEF Underway
  <1> DEFINE r == [start |-> Part.start, end |-> Part.end, reply |-> "ok"]
  <1>4. r \in Entry /\ log' = Append(log, r) /\ r.reply = "ok"
        /\ r.start = Part.start /\ r.end = Part.end
    <2>1. Part.start \in Nat /\ Part.end \in Nat
      BY <1>1, SentFits DEF Underway, Sending
    <2>2. QED
      BY <2>1 DEF Log, Entry
  <1> HIDE DEF r
  <1>5. /\ log' \in Seq(Entry)
        /\ Cardinality(Replied("ok")') = Cardinality(Replied("ok")) + 1
        /\ ItemsIn(Replied("ok"))' =
              ItemsIn(Replied("ok")) \cup ((Part.start + 1)..Part.end)
    BY <1>1, <1>4, LogGrows
  <1>6. AckedNotResent'
    BY <1>4, AckedAppend
  <1>7. /\ Width \in Nat /\ done + Width \in 0..n
        /\ next + 1 \in 1..(Len(parts) + 1)
        /\ Covered(done + Width) = Covered(done) \cup ((Part.start + 1)..Part.end)
        /\ IF next + 1 > Len(parts) THEN done + Width = n
           ELSE IF call.kind = "after" THEN parts[next + 1].end = n - (done + Width)
           ELSE parts[next + 1].start = done + Width
    BY <1>1, Progress
  <1>8. /\ IsContainer(store')
        /\ ~lost => store' = Apply(initial, call.pos, FirstItems(done + Width))
        /\ ~lost => Distance(initial, store') =
                       Distance(initial, store) + Distance(store, Applied)
    BY <1>1, Delivered
  <1>9. Typed'
    <2>1. hint' \in 0..MaxHint /\ chunks' \in Nat
      BY <1>1, <1>2
    <2>2. QED
      BY <1>1, <1>2, <1>5, <1>7, <1>8, <2>1 DEF Typed, IsContainer, Ordered, n
  <1>10. Untouched' /\ Repeatable' /\ ChunksAsOneRequest' /\ PartialExact'
         /\ RefusedUntouched' /\ CountIsTrue'
    BY <1>1, <1>2 DEF Untouched, Repeatable, ChunksAsOneRequest, PartialExact,
                      RefusedUntouched, CountIsTrue, Ended
  <1>11. Follow(parts)' /\ AllFit(parts)' /\ ~PositionOverflows'
    BY <1>3 DEF Follow, AllFit, PositionOverflows, Creating, CreateSize,
                AddSize, ItemBytes, n
  <1>12. (ok /\ (~Creating => hint = call.hint))'
    BY <1>2, <1>3 DEF Creating
  <1>13. (chunks = next - 1 /\ (next = 1 => done = 0))'
    <2>1. next # 0
      BY <1>1 DEF Typed
    <2>2. QED
      BY <1>1, <1>2, <1>3, <2>1
  <1>14. (IF next > Len(parts) THEN done = n
          ELSE IF call.kind = "after" THEN parts[next].end = n - done
          ELSE parts[next].start = done)'
    BY <1>2, <1>7 DEF n
  <1>15. (/\ Cardinality(Replied("ok")) = chunks
          /\ ItemsIn(Replied("ok")) = Covered(done))'
    <2>1. Cardinality(Replied("ok"))' = chunks'
      BY <1>2, <1>3, <1>5
    <2>2. Covered(done)' = Covered(done + Width)
      BY <1>2 DEF Covered, n
    <2>3. QED
      BY <1>3, <1>5, <1>7, <2>1, <2>2
  <1>16. (~lost => store = Apply(initial, call.pos, FirstItems(done)))'
    BY <1>2, <1>8 DEF Apply, FirstItems, n
  <1>17. (~lost /\ ~Creating => count = Distance(initial, store))'
    <2>1. Distance(initial, store)' = Distance(initial, store')
      BY DEF Distance, Amount, Ordered
    <2>2. QED
      BY <1>3, <1>8, <2>1 DEF Creating
  <1>18. Underway'
    BY <1>11, <1>12, <1>13, <1>14, <1>15, <1>16, <1>17 DEF Underway
  <1>19. QED
    BY <1>6, <1>9, <1>10, <1>18 DEF IInv

(* A reply with a count.                                                   *)
LEMMA RpcOkKeeps ==
  ASSUME IInv, RpcOk
  PROVE  IInv'
  <1> DEFINE c == Distance(store, Applied)
  <1>1. /\ Sending /\ store' = Applied
        /\ Log(IF c = 0 /\ ZeroStops THEN "rejected" ELSE "ok")
        /\ Acknowledge(c)
        /\ UNCHANGED <<call, attempt, parts, initial, lost>>
    BY DEF RpcOk
  <1>2. Typed /\ Underway /\ count \in 0..MaxUint32 /\ MaxUint32 \in Nat
    BY CallType DEF IInv, Typed
  <1>3. c \in Nat /\ (c = 0 => Applied = store)
    BY <1>1, <1>2, Delivered
  <1> HIDE DEF c
  <1>4. CASE Overflows(c)
    <2>1. c # 0
      BY <1>2, <1>3, <1>4 DEF Overflows
    <2>2. Log("ok")
      BY <1>1, <2>1
    <2>3. /\ Return(Partial(chunks + 1, done + Width, "OutOfRange"))
          /\ UNCHANGED <<next, done, chunks, count, ok, hint>>
      BY <1>1, <1>4 DEF Acknowledge
    <2>4. QED
      BY <1>1, <2>2, <2>3, OverflowKeeps
  <1>5. CASE ~Overflows(c) /\ c = 0 /\ ZeroStops
    <2>1. Log("rejected") /\ StopAtZero
      BY <1>1, <1>5 DEF Acknowledge
    <2>2. count' = IF Creating THEN count ELSE (count + c) % (MaxUint32 + 1)
      BY <1>1, <1>5 DEF Acknowledge
    <2>3. count' = count
      BY <1>2, <1>5, <2>2
    <2>4. QED
      BY <1>1, <1>3, <1>5, <2>1, <2>3, StopKeeps
  <1>6. CASE ~Overflows(c) /\ ~(c = 0 /\ ZeroStops)
    <2>1. Log("ok") /\ NextChunk
      BY <1>1, <1>6 DEF Acknowledge
    <2>2. count' = IF Creating THEN count ELSE (count + c) % (MaxUint32 + 1)
      BY <1>1, <1>6 DEF Acknowledge
    <2>3. ~Creating => count + c \in 0..MaxUint32
      BY <1>2, <1>3, <1>6 DEF Overflows
    <2>4. ~Creating => count' = count + c
      BY <1>2, <2>2, <2>3
    <2>5. count' \in 0..MaxUint32
      BY <1>2, <2>2, <2>3, <2>4
    <2>6. QED
      BY <1>1, <2>1, <2>4, <2>5, NextKeeps DEF c
  <1>7. QED
    BY <1>4, <1>5, <1>6

(* A chunk that the server turns down.                                     *)
LEMMA RpcRejectedKeeps ==
  ASSUME IInv, RpcRejected
  PROVE  IInv'
  <1>1. /\ Sending /\ ZeroStops /\ Log("rejected") /\ Acknowledge(0)
        /\ UNCHANGED <<call, attempt, parts, initial, store, lost>>
    BY DEF RpcRejected
  <1>2. count \in 0..MaxUint32 /\ MaxUint32 \in Nat
    BY CallType DEF IInv, Typed
  <1>3. ~Overflows(0)
    BY <1>2 DEF Overflows
  <1>4. StopAtZero /\ count' = IF Creating THEN count ELSE (count + 0) % (MaxUint32 + 1)
    BY <1>1, <1>3 DEF Acknowledge
  <1>5. count' = count
    BY <1>2, <1>4
  <1>6. QED
    BY <1>1, <1>4, <1>5, StopKeeps

(* A second attempt starts from where the first one began.                 *)
LEMMA ReplayKeeps ==
  ASSUME IInv, Replay
  PROVE  IInv'
  <1>1. /\ pc = "returned" /\ pc' = "prepare" /\ attempt' = 2 /\ ~result.partial
        /\ result.code \in {"Unavailable", "FailedPrecondition"}
        /\ parts' = <<>> /\ next' = 1 /\ hint' = call.hint
        /\ done' = 0 /\ chunks' = 0 /\ count' = 0
        /\ UNCHANGED <<call, result, initial, store, log, lost>>
    BY DEF Replay, serverVars
  <1>2. /\ call \in Operations /\ IsContainer(initial) /\ IsContainer(store)
        /\ log \in Seq(Entry) /\ AckedNotResent /\ n \in Nat /\ MaxUint32 \in Nat
        /\ call.hint \in 0..MaxHint
    BY CallType DEF IInv, Typed
  <1>3. Replied("ok") = {} /\ (~lost => store = initial)
    BY <1>1 DEF IInv, Repeatable, Ended
  <1>4. AckedNotResent' /\ Replied("ok")' = {}
    BY <1>1, <1>2, <1>3, ServerFrame
  <1>5. Typed'
    <2>1. parts' \in Seq(Span) /\ next' \in 1..(Len(parts') + 1)
      BY <1>1
    <2>2. done' \in 0..n /\ chunks' \in Nat /\ count' \in 0..MaxUint32
      BY <1>1, <1>2
    <2>3. QED
      BY <1>1, <1>2, <2>1, <2>2 DEF Typed, IsContainer, Ordered, n
  <1>6. Untouched'
    BY <1>1, <1>3, <1>4 DEF Untouched
  <1>7. Underway' /\ Repeatable' /\ ChunksAsOneRequest' /\ PartialExact'
        /\ RefusedUntouched' /\ CountIsTrue'
    BY <1>1 DEF Underway, Repeatable, ChunksAsOneRequest, PartialExact,
                RefusedUntouched, CountIsTrue, Ended
  <1>8. QED
    BY <1>4, <1>5, <1>6, <1>7 DEF IInv

(* A step that changes nothing.                                            *)
LEMMA StutterKeeps ==
  ASSUME IInv, UNCHANGED vars
  PROVE  IInv'
  <1>1. UNCHANGED <<call, pc, attempt, parts, next, hint, done, chunks, count, ok>>
        /\ UNCHANGED <<result, initial, store, log, lost>>
    BY DEF vars
  <1>2. AckedNotResent' /\ Replied("ok")' = Replied("ok")
        /\ ItemsIn(Replied("ok"))' = ItemsIn(Replied("ok"))
    BY <1>1, ServerFrame DEF IInv
  <1>3. Typed'
    BY <1>1, TypedFrame DEF IInv, Typed
  <1>4. Untouched' /\ Repeatable'
    BY <1>1, <1>2 DEF IInv, Untouched, Repeatable, Ended
  <1>5. Follow(parts)' = Follow(parts) /\ AllFit(parts)' = AllFit(parts)
        /\ PositionOverflows' = PositionOverflows /\ Covered(done)' = Covered(done)
    BY <1>1 DEF Follow, AllFit, PositionOverflows, Creating, CreateSize, AddSize,
                ItemBytes, Covered, n
  <1>6. Apply(initial, call.pos, FirstItems(done))' =
           Apply(initial, call.pos, FirstItems(done))
    BY <1>1 DEF Apply, FirstItems, n
  <1>7. Distance(initial, store)' = Distance(initial, store) /\ Creating' = Creating
    BY <1>1 DEF Distance, Amount, Ordered, Creating
  <1>8. Underway'
    BY <1>1, <1>2, <1>5, <1>6, <1>7 DEF IInv, Underway, n
  <1>9. ChunksAsOneRequest'
    BY <1>1 DEF IInv, ChunksAsOneRequest, Completed, FirstItems, Apply, n, Ended
  <1>10. PartialExact' /\ RefusedUntouched' /\ CountIsTrue'
    BY <1>1, <1>2, <1>7 DEF IInv, PartialExact, RefusedUntouched, CountIsTrue, Ended
  <1>11. QED
    BY <1>2, <1>3, <1>4, <1>8, <1>9, <1>10 DEF IInv

(* The inductive invariant holds: between two requests exactly the first   *)
(* done items are acknowledged, and the container is what one request with *)
(* them would have made of it (CreateContainer, add, RemoveFromContainer). *)
THEOREM Invariance == Spec => []IInv
  <1>1. Init => IInv
    BY InitIInv
  <1>2. IInv /\ [Next]_vars => IInv'
    BY PrepareStops, PrepareKeeps, CompleteKeeps, NotSentKeeps, RpcFailsKeeps,
       RpcOkKeeps, RpcRejectedKeeps, ReplayKeeps, StutterKeeps DEF Next
  <1>3. QED
    BY <1>1, <1>2, PTL DEF Spec

(* Whatever the chunk boundaries, the container of a call that has ended   *)
(* is what one request with the completed items would have made of it, for *)
(* every kind of mutation, every container and every number of items.      *)
THEOREM AsOneRequest == Spec => []ChunksAsOneRequest
  <1>1. IInv => ChunksAsOneRequest
    BY DEF IInv
  <1>2. QED
    BY <1>1, Invariance, PTL

(* A PartialError reports the accepted chunks and their items, no more and *)
(* no less (partial).                                                      *)
THEOREM PartialsExact == Spec => []PartialExact
  <1>1. IInv => PartialExact
    BY DEF IInv
  <1>2. QED
    BY <1>1, Invariance, PTL

(* No item of an acknowledged chunk is sent again, by a later chunk or by  *)
(* the second attempt of run.                                              *)
THEOREM NoResend == Spec => []AckedNotResent
  <1>1. IInv => AckedNotResent
    BY DEF IInv
  <1>2. QED
    BY <1>1, Invariance, PTL

(* An operation refused for its size has not touched the server, whatever  *)
(* the sizes of the items and the hint that a creation returns (reserve).  *)
THEOREM RefusalsUntouched == Spec => []RefusedUntouched
  <1>1. IInv => RefusedUntouched
    BY DEF IInv
  <1>2. QED
    BY <1>1, Invariance, PTL

(* The count returned is the true change of the container, at any width of *)
(* the counter (addOutcome, RemoveFromContainer).                          *)
THEOREM CountsTrue == Spec => []CountIsTrue
  <1>1. IInv => CountIsTrue
    BY DEF IInv
  <1>2. QED
    BY <1>1, Invariance, PTL
=============================================================================

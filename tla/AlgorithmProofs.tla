-------------------------- MODULE AlgorithmProofs ---------------------------
(***************************************************************************)
(* The computations of a call in which nobody else takes part: split(),    *)
(* for every input, size function and limit (the sizes need not grow with  *)
(* the number of items); encode() and decode(), for all data,              *)
(* configurations, field widths and block lengths; and the arithmetic of   *)
(* expirations, for all clocks, durations and widths.                      *)
(***************************************************************************)
EXTENDS Split, Codec, Timing, TLAPS

-----------------------------------------------------------------------------
(* split()                                                                 *)

(* The bare request, and the items before k, fit by themselves.            *)
Measured(k) == Fits(0, 0) /\ \A i \in 0..(k - 1) : Fits(i, i + 1)

(* What the first loop has established.                                    *)
Checked ==
    /\ loop = "header" => next = 0
    /\ loop = "items" => Measured(next)
    /\ loop \in {"pack", "search", "returned"} => Measured(n)

(* The binary search: lo is an end that fits, and hi is the last index or  *)
(* the one before an end that does not fit.                                *)
Searching ==
    loop = "search" =>
        /\ start < lo /\ lo <= hi
        /\ Fits(start, lo)
        /\ hi < n => ~Fits(start, hi + 1)

Refused == loop = "refused" => TooLarge(SizeOf, MaxRequestBytes, n)
AllDone == loop = "returned" => start = n

SplitInv == /\ TypeOK /\ Checked /\ Searching /\ Refused /\ AllDone
        /\ Cover(parts, start) /\ SpansFit /\ SpansGreedy

(* What split() has measured is a natural number.                          *)
LEMMA SizeFacts ==
    ASSUME in \in Inputs
    PROVE  /\ n \in Nat /\ MaxRequestBytes \in Nat
           /\ \A i, j \in 0..n : SizeOf(i, j) \in Nat
BY SplitAssumption DEF n, SizeOf

(* The middle of a search range lies in its upper half.                    *)
LEMMA MidFacts ==
    ASSUME lo \in Nat, hi \in Nat, lo < hi
    PROVE  Mid \in Nat /\ lo < Mid /\ Mid <= hi
BY DEF Mid

(* Appending the next span to spans that cover [0, start) covers [0, end). *)
LEMMA AppendCover ==
    ASSUME NEW ps \in Seq(Span), NEW s \in Nat, NEW e \in Nat, s < e,
           Cover(ps, s)
    PROVE  Cover(Append(ps, [start |-> s, end |-> e]), e)
<1> DEFINE x == [start |-> s, end |-> e]
           qs == Append(ps, x)
<1>1. /\ Len(qs) = Len(ps) + 1 /\ DOMAIN qs = 1..(Len(ps) + 1)
      /\ \A k \in 1..Len(ps) : qs[k] = ps[k]
      /\ qs[Len(ps) + 1] = x /\ Len(ps) \in Nat /\ DOMAIN ps = 1..Len(ps)
  BY DEF Span
<1>2. qs # <<>>
  BY <1>1
<1>3. \A k \in DOMAIN qs : qs[k].start < qs[k].end
  BY <1>1 DEF Cover
<1>4. ASSUME NEW k \in DOMAIN qs
      PROVE  qs[k].start = IF k = 1 THEN 0 ELSE qs[k - 1].end
  <2>1. CASE k \in 1..Len(ps)
    <3>1. k # 1 => k - 1 \in 1..Len(ps)
      BY <2>1, <1>1
    <3> QED
      BY <3>1, <2>1, <1>1 DEF Cover
  <2>2. CASE k = Len(ps) + 1
    <3>1. CASE ps = <<>>
      BY <3>1, <2>2, <1>1 DEF Cover
    <3>2. CASE ps # <<>>
      <4>1. Len(ps) # 0 /\ k - 1 = Len(ps) /\ k # 1 /\ k - 1 \in 1..Len(ps)
        BY <3>2, <2>2, <1>1
      <4>2. s = ps[Len(ps)].end
        BY <3>2 DEF Cover
      <4> QED
        BY <4>1, <4>2, <2>2, <1>1
    <3> QED
      BY <3>1, <3>2
  <2> QED
    BY <2>1, <2>2, <1>1
<1>5. qs[Len(qs)].end = e
  BY <1>1
<1> QED
  BY <1>2, <1>3, <1>4, <1>5 DEF Cover

(* SplitInv holds initially.                                                   *)
LEMMA SplitInvInit == SplitInit => SplitInv
<1> SUFFICES ASSUME SplitInit PROVE SplitInv
  OBVIOUS
<1>1. n \in Nat /\ in \in Inputs
  BY SizeFacts DEF SplitInit
<1> QED
  BY <1>1 DEF SplitInit, SplitInv, TypeOK, Checked, Searching, Refused, AllDone, Cover,
     SpansFit, Fit, SpansGreedy, Greedy

(* Every step of split() preserves SplitInv.                                   *)
LEMMA SplitInvNext == SplitInv /\ [SplitNext]_splitVars => SplitInv'
<1> SUFFICES ASSUME SplitInv, [SplitNext]_splitVars PROVE SplitInv'
  OBVIOUS
<1>1. /\ n \in Nat /\ MaxRequestBytes \in Nat /\ in \in Inputs
      /\ \A i, j \in 0..n : SizeOf(i, j) \in Nat
  BY SizeFacts DEF SplitInv, TypeOK
<1>2. in' = in
  BY DEF SplitNext, splitVars, CheckHeader, Canceled, CheckItem, ItemsChecked, BeginSpan,
     Probe, EndSpan, Return
<1>3. n' = n /\ \A i, j : SizeOf(i, j)' = SizeOf(i, j) /\ Fits(i, j)' = Fits(i, j)
  BY <1>2 DEF n, SizeOf, Fits
<1>0. ASSUME parts' = parts, start' = start
      PROVE  Cover(parts, start)' /\ SpansFit' /\ SpansGreedy'
  <2>1. Cover(parts, start)'
    BY <1>0 DEF SplitInv
  <2>2. SpansFit'
    BY <1>0, <1>2, <1>3 DEF SplitInv, SpansFit, Fit
  <2>3. SpansGreedy'
    BY <1>0, <1>2, <1>3 DEF SplitInv, SpansGreedy, Greedy
  <2> QED
    BY <2>1, <2>2, <2>3
<1>13. TooLarge(SizeOf, MaxRequestBytes, n)' = TooLarge(SizeOf, MaxRequestBytes, n)
  BY <1>3 DEF TooLarge
<1>4. CASE CheckHeader
  <2>1. /\ loop = "header" /\ UNCHANGED <<in, next, start, lo, hi, parts>>
        /\ loop' = IF Fits(0, 0) THEN "items" ELSE "refused"
    BY <1>4 DEF CheckHeader
  <2>2. TypeOK' /\ Searching' /\ AllDone'
    BY <2>1, <1>1, <1>3 DEF SplitInv, TypeOK, Searching, AllDone
  <2>3. Checked'
    <3>1. CASE Fits(0, 0)
      <4>1. next = 0
        BY <2>1 DEF SplitInv, Checked
      <4> QED
        BY <4>1, <3>1, <2>1, <1>3 DEF Checked, Measured
    <3>2. CASE ~Fits(0, 0)
      BY <3>2, <2>1 DEF Checked
    <3> QED
      BY <3>1, <3>2
  <2>4. Refused'
    <3>1. SizeOf(0, 0) \in Nat
      BY <1>1
    <3>2. ASSUME loop' = "refused" PROVE TooLarge(SizeOf, MaxRequestBytes, n)
      BY <3>1, <3>2, <2>1, <1>1 DEF Fits, TooLarge
    <3> QED
      BY <3>2, <1>13 DEF Refused
  <2> QED
    BY <2>1, <2>2, <2>3, <2>4, <1>0 DEF SplitInv
<1>5. CASE Canceled
  BY <1>5, <1>0, <1>13, <1>1, <1>2, <1>3
  DEF Canceled, SplitInv, TypeOK, Checked, Searching, Refused, AllDone
<1>6. CASE CheckItem
  <2>1. /\ loop = "items" /\ next < n /\ UNCHANGED <<in, start, lo, hi, parts>>
        /\ next \in 0..n /\ next + 1 \in 0..n /\ Measured(next)
    BY <1>6, <1>1 DEF CheckItem, SplitInv, TypeOK, Checked
  <2>2. CASE Fits(next, next + 1)
    <3>1. next' = next + 1 /\ loop' = loop
      BY <2>2, <1>6 DEF CheckItem
    <3>2. Measured(next + 1)
      BY <2>1, <2>2 DEF Measured
    <3>3. Measured(next)'
      BY <3>1, <3>2, <1>3 DEF Measured
    <3> QED
      BY <3>1, <3>3, <2>1, <1>0, <1>1, <1>3
      DEF SplitInv, TypeOK, Checked, Searching, Refused, AllDone
  <2>3. CASE ~Fits(next, next + 1)
    <3>1. next' = next /\ loop' = "refused"
      BY <2>3, <1>6 DEF CheckItem
    <3>2. SizeOf(next, next + 1) \in Nat /\ next \in 0..(n - 1)
      BY <2>1, <1>1
    <3>3. TooLarge(SizeOf, MaxRequestBytes, n)
      BY <3>2, <2>3, <1>1 DEF Fits, TooLarge
    <3> QED
      BY <3>1, <3>3, <2>1, <1>0, <1>1, <1>3, <1>13
      DEF SplitInv, TypeOK, Checked, Searching, Refused, AllDone
  <2> QED
    BY <2>2, <2>3
<1>7. CASE ItemsChecked
  BY <1>7, <1>0, <1>13, <1>1, <1>2, <1>3
  DEF ItemsChecked, SplitInv, TypeOK, Checked, Measured, Searching, Refused, AllDone
<1>8. CASE BeginSpan
  BY <1>8, <1>0, <1>13, <1>1, <1>2, <1>3
  DEF BeginSpan, SplitInv, TypeOK, Checked, Measured, Searching, Refused, AllDone
<1>9. CASE Probe
  <2>1. Mid \in Nat /\ lo < Mid /\ Mid <= hi
    BY <1>9, <1>1, MidFacts DEF Probe, SplitInv, TypeOK
  <2>2. Mid \in 0..n /\ Mid - 1 \in 0..n /\ lo <= Mid - 1 /\ (Mid - 1) + 1 = Mid
    BY <2>1, <1>1 DEF SplitInv, TypeOK
  <2>3. /\ loop = "search" /\ UNCHANGED <<in, loop, next, start, parts>>
        /\ start < lo /\ lo <= hi /\ Fits(start, lo)
        /\ hi < n => ~Fits(start, hi + 1)
    BY <1>9 DEF Probe, SplitInv, Searching
  <2>4. TypeOK' /\ Searching'
    <3>1. CASE Fits(start, Mid)
      <4>1. lo' = Mid /\ hi' = hi
        BY <3>1, <1>9 DEF Probe
      <4> HIDE DEF Mid
      <4> QED
        BY <4>1, <3>1, <2>1, <2>2, <2>3, <1>1, <1>3 DEF SplitInv, TypeOK, Searching
    <3>2. CASE ~Fits(start, Mid)
      <4>1. lo' = lo /\ hi' = Mid - 1 /\ hi' + 1 = Mid
        BY <3>2, <2>2, <1>9 DEF Probe
      <4>2. ~Fits(start, hi' + 1)
        BY <4>1, <3>2
      <4> HIDE DEF Mid
      <4> QED
        BY <4>1, <4>2, <2>1, <2>2, <2>3, <1>1, <1>3 DEF SplitInv, TypeOK, Searching
    <3> QED
      BY <3>1, <3>2
  <2> QED
    BY <2>3, <2>4, <1>0, <1>3, <1>13 DEF SplitInv, Checked, Measured, Refused, AllDone
<1>10. CASE EndSpan
  <2> DEFINE x == [start |-> start, end |-> lo]
  <2>1. /\ start < lo /\ lo = hi /\ Fits(start, lo)
        /\ lo < n => ~Fits(start, lo + 1)
        /\ start \in Nat /\ lo \in Nat /\ lo \in 0..n /\ start \in 0..n
    <3>1. /\ start \in 0..n /\ lo \in 0..n /\ hi \in 0..n
          /\ loop = "search" /\ lo >= hi
      BY <1>10 DEF EndSpan, SplitInv, TypeOK
    <3>2. /\ start < lo /\ lo <= hi /\ Fits(start, lo)
          /\ hi < n => ~Fits(start, hi + 1)
      BY <3>1 DEF SplitInv, Searching
    <3>3. lo = hi /\ start \in Nat /\ lo \in Nat
      BY <3>1, <3>2, <1>1
    <3> QED
      BY <3>1, <3>2, <3>3
  <2>2. x \in Span /\ parts \in Seq(Span) /\ parts' = Append(parts, x)
    BY <2>1, <1>10 DEF EndSpan, Span, SplitInv, TypeOK
  <2>3. /\ DOMAIN parts' = 1..(Len(parts) + 1) /\ DOMAIN parts = 1..Len(parts)
        /\ Len(parts) \in Nat
        /\ \A k \in 1..Len(parts) : parts'[k] = parts[k]
        /\ parts'[Len(parts) + 1] = x
    BY <2>2
  <2>4. Cover(parts, start)'
    <3>1. Cover(Append(parts, x), lo)
      BY <2>1, <2>2, AppendCover DEF SplitInv
    <3> QED
      BY <3>1, <2>2, <1>10 DEF EndSpan
  <2>5. SpansFit'
    BY <2>1, <2>3, <1>2, <1>3 DEF SplitInv, SpansFit, Fit, Fits
  <2>6. SpansGreedy'
    <3> SUFFICES ASSUME NEW k \in DOMAIN parts', parts'[k].end < n
                 PROVE  SizeOf(parts'[k].start, parts'[k].end + 1) > MaxRequestBytes
      BY <1>3 DEF SpansGreedy, Greedy
    <3>1. CASE k \in 1..Len(parts)
      BY <3>1, <2>3 DEF SplitInv, SpansGreedy, Greedy
    <3>2. CASE k = Len(parts) + 1
      <4>1. parts'[k].start = start /\ parts'[k].end = lo
        BY <3>2, <2>3
      <4>2. start \in 0..n /\ lo + 1 \in 0..n
        BY <4>1, <2>1, <1>1
      <4>3. SizeOf(start, lo + 1) \in Nat
        BY <4>2, <1>1
      <4> QED
        BY <4>1, <4>3, <2>1, <1>1 DEF Fits
    <3> QED
      BY <3>1, <3>2, <2>3
  <2>7. TypeOK'
    BY <2>1, <2>2, <1>10, <1>1, <1>2, <1>3 DEF EndSpan, SplitInv, TypeOK
  <2> QED
    BY <2>4, <2>5, <2>6, <2>7, <1>10, <1>13, <1>3
    DEF EndSpan, SplitInv, Checked, Measured, Searching, Refused, AllDone
<1>11. CASE Return
  BY <1>11, <1>0, <1>13, <1>1, <1>2, <1>3
  DEF Return, SplitInv, TypeOK, Checked, Measured, Searching, Refused, AllDone
<1>12. CASE UNCHANGED splitVars
  BY <1>12, <1>0, <1>13, <1>1, <1>2, <1>3
  DEF splitVars, SplitInv, TypeOK, Checked, Measured, Searching, Refused, AllDone
<1> QED
  BY <1>4, <1>5, <1>6, <1>7, <1>8, <1>9, <1>10, <1>11, <1>12 DEF SplitNext

(* SplitInv is an invariant of split().                                        *)
LEMMA SplitInvariance == SplitSpec => []SplitInv
BY SplitInvInit, SplitInvNext, PTL DEF SplitSpec

(* The spans returned cover every item exactly once, in order.             *)
THEOREM SplitCovers == SplitSpec => []SpansCover
<1>1. SplitInv => SpansCover
  BY DEF SplitInv, AllDone, SpansCover
<1> QED
  BY <1>1, SplitInvariance, PTL

(* No request built from a span is over MaxRequestBytes, and no span but   *)
(* the last could take one more item: the binary search finds the end.     *)
THEOREM SplitPacks == SplitSpec => []SpansPacked
<1>1. SplitInv => SpansPacked
  BY DEF SplitInv, SpansPacked
<1> QED
  BY <1>1, SplitInvariance, PTL

(* split() refuses an input exactly when some part of it cannot be sent.   *)
THEOREM SplitRefuses == SplitSpec => []RefusedRightly
<1>1. SplitInv => RefusedRightly
  <2> SUFFICES ASSUME SplitInv PROVE RefusedRightly
    OBVIOUS
  <2>1. /\ n \in Nat /\ MaxRequestBytes \in Nat
        /\ \A i, j \in 0..n : SizeOf(i, j) \in Nat
    BY SizeFacts DEF SplitInv, TypeOK
  <2>2. ASSUME loop = "returned" PROVE ~TooLarge(SizeOf, MaxRequestBytes, n)
    <3>1. Measured(n)
      BY <2>2 DEF SplitInv, Checked
    <3>2. SizeOf(0, 0) \in Nat /\ \A k \in 0..(n - 1) : SizeOf(k, k + 1) \in Nat
      BY <2>1
    <3> QED
      BY <3>1, <3>2, <2>1 DEF Measured, Fits, TooLarge
  <2> QED
    BY <2>2 DEF SplitInv, Refused, RefusedRightly
<1> QED
  BY <1>1, SplitInvariance, PTL
-----------------------------------------------------------------------------
(* encode() and decode()                                                   *)

ByteString == [format : {"plain"} \cup Codecs, data : Data, len : Nat,
               intact : BOOLEAN]
Info == [Enabled : BOOLEAN, RawSize : Nat \cup {Nil}]
Stored == [bytes : ByteString, size : Nat, info : Info \cup {Nil}]

Compressed == Compresses(datum, compress, writer)

(* What the stored form says, whatever damage was done to it.              *)
Faithful ==
    /\ wire \in Stored
    /\ wire.bytes.data = datum
    /\ datum.len <= writer.MaxDecodedBytes
    /\ Compressed => /\ wire.bytes.format = writer.CompressionCodec
                     /\ wire.bytes.len <= datum.len + Overhead
                     /\ wire.info # Nil /\ wire.info.Enabled
    /\ ~Compressed => /\ wire.bytes = Plain(datum)
                      /\ wire.info = Nil \/ ~wire.info.Enabled

(* And what it says as long as nobody has changed it.                      *)
Untouched ==
    /\ wire.bytes.intact
    /\ wire.size = Uint32(wire.bytes.len)
    /\ Compressed => wire.info.RawSize = Uint32(datum.len)

CodecInv ==
    /\ datum \in Data /\ compress \in BOOLEAN
    /\ writer \in Writers /\ reader \in Readers /\ damaged \in BOOLEAN
    /\ pc \in {"write", "refused", "stored", "read"}
    /\ pc \in {"stored", "read"} => Faithful /\ (~damaged => Untouched)
    /\ pc = "read" => result \in Decodings(wire.bytes, wire.size, wire.info,
                                           reader)
-----------------------------------------------------------------------------
(* The conversion to 32 bits keeps what fits.                              *)
LEMMA ModSmall == ASSUME NEW num \in Nat, NEW m \in Nat, num < m PROVE num % m = num
  OBVIOUS

(* A remainder is a number below the modulus.                              *)
LEMMA ModNat == ASSUME NEW num \in Nat, NEW m \in Nat \ {0} PROVE num % m \in Nat
  OBVIOUS

(* A converted size is a number.                                           *)
LEMMA Uint32Nat == ASSUME NEW num \in Nat PROVE Uint32(num) \in Nat
  BY CodecAssumption, EncodingAssumption, ModNat DEF Uint32

(* A size that fits is not changed.                                        *)
LEMMA Uint32Small ==
  ASSUME NEW num \in Nat, num < 2^SizeBits PROVE Uint32(num) = num
  BY CodecAssumption, EncodingAssumption, ModSmall DEF Uint32
-----------------------------------------------------------------------------
(* The invariant holds in the beginning.                                   *)
LEMMA CodecInvInit == Init => CodecInv
  BY DEF Init, CodecInv

(* encode() and what it stores.                                            *)
LEMMA WriteInv == CodecInv /\ Write => CodecInv'
<1> SUFFICES ASSUME CodecInv, Write PROVE CodecInv'
  OBVIOUS
<1>1. PICK e \in Encodings(datum, compress, writer) :
        wire' = [bytes |-> e.bytes, size |-> Uint32(e.bytes.len),
                 info |-> e.info]
  BY DEF Write
<1>2. /\ datum \in Data /\ datum.len \in Nat
      /\ writer.CompressionCodec \in Codecs
      /\ writer.MaxDecodedBytes \in Nat
      /\ datum.len <= writer.MaxDecodedBytes
      /\ pc' = "stored" /\ UNCHANGED <<datum, compress, writer, damaged, reader>>
  BY CodecAssumption, EncodingAssumption DEF CodecInv, Write, Config, TooLong
<1>3. CASE Compressed
  <2>1. PICK num \in 1..(datum.len + Overhead) :
          e = [bytes |-> Block(writer.CompressionCodec, datum, num),
               info |-> [Enabled |-> TRUE, RawSize |-> Uint32(datum.len)]]
    BY <1>3 DEF Encodings, Compressed
  <2>2. num \in Nat /\ num <= datum.len + Overhead
    BY <1>2, CodecAssumption, EncodingAssumption
  <2>3. /\ Uint32(datum.len) \in Nat /\ Uint32(num) \in Nat
    BY <1>2, <2>2, Uint32Nat
  <2>4. wire' = [bytes |-> [format |-> writer.CompressionCodec,
                            data |-> datum, len |-> num, intact |-> TRUE],
                 size |-> Uint32(num),
                 info |-> [Enabled |-> TRUE, RawSize |-> Uint32(datum.len)]]
    BY <1>1, <2>1 DEF Block
  <2>5. wire' \in Stored
    BY <1>2, <2>2, <2>3, <2>4 DEF Stored, ByteString, Info
  <2>6. Compressed'
    BY <1>2, <1>3 DEF Compressed
  <2>7. Nil # [Enabled |-> TRUE, RawSize |-> Uint32(datum.len)]
    <3> DEFINE info == [Enabled |-> TRUE, RawSize |-> Uint32(datum.len)]
    <3>1. info \in [Enabled : BOOLEAN, RawSize : Nat \cup {Nil}]
      BY <2>3
    <3> QED
      BY <3>1, CodecAssumption, EncodingAssumption
  <2> QED
    BY <1>2, <2>2, <2>4, <2>5, <2>6, <2>7 DEF CodecInv, Faithful, Untouched, Write
<1>4. CASE ~Compressed
  <2>1. e = [bytes |-> Plain(datum), info |-> Nil]
    BY <1>4 DEF Encodings, Compressed
  <2>2. Uint32(datum.len) \in Nat
    BY <1>2, Uint32Nat
  <2>3. /\ wire' = [bytes |-> Plain(datum), size |-> Uint32(datum.len),
                    info |-> Nil]
        /\ wire' \in Stored
    BY <1>1, <1>2, <2>1, <2>2 DEF Plain, Stored, ByteString
  <2>4. ~Compressed'
    BY <1>2, <1>4 DEF Compressed
  <2> QED
    BY <1>2, <2>3, <2>4 DEF CodecInv, Faithful, Untouched, Write, Plain
<1> QED
  BY <1>3, <1>4

(* The stored form is changed.                                             *)
LEMMA DamageInv == CodecInv /\ Damage => CodecInv'
<1> SUFFICES ASSUME CodecInv, Damage PROVE CodecInv'
  OBVIOUS
<1>1. /\ Faithful /\ pc' = "stored" /\ damaged' = TRUE
      /\ UNCHANGED <<datum, compress, writer, reader>>
      /\ wire' \in Damages
  BY DEF CodecInv, Damage
<1>2. 0..(2^SizeBits - 1) \subseteq Nat
  BY CodecAssumption, EncodingAssumption
<1>3. Compressed' <=> Compressed
  BY <1>1 DEF Compressed
<1>4. CASE \E num \in 0..(2^SizeBits - 1) : wire' = [wire EXCEPT !.size = num]
  <2>1. PICK num \in Nat : wire' = [wire EXCEPT !.size = num]
    BY <1>2, <1>4
  <2>2. wire' \in Stored /\ wire'.bytes = wire.bytes /\ wire'.info = wire.info
    BY <1>1, <2>1 DEF Faithful, Stored
  <2> QED
    BY <1>1, <1>3, <2>2 DEF CodecInv, Faithful
<1>5. CASE /\ wire.info # Nil /\ wire.info.Enabled
           /\ \E num \in {Nil} \cup 0..(2^SizeBits - 1) :
                 wire' = [wire EXCEPT !.info.RawSize = num]
  <2>1. PICK num \in {Nil} \cup Nat : wire' = [wire EXCEPT !.info.RawSize = num]
    BY <1>2, <1>5
  <2>2. wire.info \in Info
    BY <1>1, <1>5 DEF Faithful, Stored
  <2>3. /\ [wire.info EXCEPT !.RawSize = num] \in Info
        /\ [wire.info EXCEPT !.RawSize = num].Enabled = wire.info.Enabled
    BY <2>2 DEF Info
  <2>4. /\ wire' \in Stored /\ wire'.bytes = wire.bytes
        /\ wire'.info = [wire.info EXCEPT !.RawSize = num]
    BY <1>1, <2>1, <2>3 DEF Faithful, Stored
  <2>5. wire'.info # Nil
    BY <2>3, <2>4, CodecAssumption, EncodingAssumption DEF Info
  <2> QED
    BY <1>1, <1>3, <1>5, <2>3, <2>4, <2>5 DEF CodecInv, Faithful
<1>6. CASE /\ wire.info # Nil /\ wire.info.Enabled
           /\ wire' = [wire EXCEPT !.bytes.intact = FALSE]
  <2>1. Compressed
    BY <1>1, <1>6 DEF Faithful
  <2>2. wire.bytes \in ByteString
    BY <1>1 DEF Faithful, Stored
  <2>3. /\ [wire.bytes EXCEPT !.intact = FALSE] \in ByteString
        /\ wire' \in Stored /\ wire'.info = wire.info
        /\ wire'.bytes = [wire.bytes EXCEPT !.intact = FALSE]
    BY <1>1, <1>6, <2>2 DEF Faithful, Stored, ByteString
  <2>4. /\ wire'.bytes.data = wire.bytes.data
        /\ wire'.bytes.format = wire.bytes.format
        /\ wire'.bytes.len = wire.bytes.len
    BY <2>2, <2>3 DEF ByteString
  <2> QED
    BY <1>1, <1>3, <2>1, <2>3, <2>4 DEF CodecInv, Faithful
<1> QED
  BY <1>1, <1>4, <1>5, <1>6 DEF Damages

(* The server adds that the bytes are not compressed.                      *)
LEMMA AnnotateInv == CodecInv /\ Annotate => CodecInv'
<1> SUFFICES ASSUME CodecInv, Annotate PROVE CodecInv'
  OBVIOUS
<1>1. /\ Faithful /\ pc = "stored" /\ wire.info = Nil /\ datum.len \in Nat
      /\ UNCHANGED <<datum, compress, writer, reader, pc, damaged>>
  BY CodecAssumption, EncodingAssumption DEF CodecInv, Annotate
<1>2. ~Compressed /\ ~Compressed'
  BY <1>1 DEF Faithful, Compressed
<1>3. PICK num \in {Nil} \cup Nat :
        wire' = [wire EXCEPT !.info = [Enabled |-> FALSE, RawSize |-> num]]
  BY <1>1, Uint32Nat DEF Annotate
<1>4. /\ wire' \in Stored /\ wire'.bytes = wire.bytes
      /\ wire'.size = wire.size /\ ~wire'.info.Enabled
  BY <1>1, <1>3 DEF Faithful, Stored, Info
<1> QED
  BY <1>1, <1>2, <1>4 DEF CodecInv, Faithful, Untouched

(* decode() of what is stored.                                             *)
LEMMA ReadInv == CodecInv /\ Read => CodecInv'
<1> SUFFICES ASSUME CodecInv, Read PROVE CodecInv'
  OBVIOUS
<1>1. UNCHANGED <<datum, compress, writer, reader, wire, damaged>>
      /\ pc = "stored" /\ pc' = "read"
      /\ result' \in Decodings(wire.bytes, wire.size, wire.info, reader)
  BY DEF Read
<1>2. Faithful' /\ (~damaged' => Untouched')
  BY <1>1 DEF CodecInv, Faithful, Untouched, Compressed
<1> QED
  BY <1>1, <1>2 DEF CodecInv

(* Every step keeps the invariant.                                         *)
LEMMA CodecInvNext == CodecInv /\ [Next]_vars => CodecInv'
<1> SUFFICES ASSUME CodecInv, [Next]_vars PROVE CodecInv'
  OBVIOUS
<1>1. CASE Refuse
  BY <1>1 DEF CodecInv, Refuse
<1>2. CASE UNCHANGED vars
  BY <1>2 DEF CodecInv, vars, Faithful, Untouched, Compressed
<1> QED
  BY <1>1, <1>2, WriteInv, DamageInv, AnnotateInv, ReadInv DEF Next

(* The stored form stands for the payload, and the result of a read is one *)
(* that decode() can give for it: the inductive invariant.                 *)
THEOREM CodecInvariance == Spec => []CodecInv
  BY CodecInvInit, CodecInvNext, PTL DEF Spec
-----------------------------------------------------------------------------
(* The invariant gives ReadBackExact.                                      *)
LEMMA ExactFromInv == CodecInv => ReadBackExact
<1> SUFFICES ASSUME CodecInv, pc = "read", ~damaged, SizesFit,
                    writer.CompressionCodec = reader.CompressionCodec,
                    datum.len <= reader.MaxDecodedBytes
             PROVE  result.code = "OK" /\ result.data = datum
  BY DEF ReadBackExact
<1>1. /\ Faithful /\ Untouched
      /\ result \in Decodings(wire.bytes, wire.size, wire.info, reader)
  BY DEF CodecInv
<1>2. /\ datum.len \in Nat /\ writer.MaxDecodedBytes \in Nat
      /\ reader.MaxDecodedBytes \in Nat /\ Overhead \in Nat
      /\ writer.CompressionThreshold \in Nat /\ 2^SizeBits \in Nat
      /\ writer.CompressionCodec \in Codecs
  BY CodecAssumption, EncodingAssumption DEF CodecInv, Config
<1>3. /\ datum.len < 2^SizeBits /\ wire.bytes.len \in Nat
      /\ wire.bytes.len < 2^SizeBits
  <2>1. wire.bytes.len <= datum.len + Overhead /\ wire.bytes.len \in Nat
    BY <1>1, <1>2 DEF Faithful, Stored, ByteString, Plain
  <2> QED
    BY <1>1, <1>2, <2>1 DEF Faithful, SizesFit
<1>4. /\ Uint32(datum.len) = datum.len
      /\ wire.size = wire.bytes.len
  BY <1>1, <1>2, <1>3, Uint32Small DEF Untouched
<1>5. CASE ~Compressed
  <2>1. result \in {Decoded(AsData(wire.bytes), wire.bytes.len)}
    BY <1>1, <1>2, <1>4, <1>5 DEF Decodings, Faithful, Plain
  <2>2. AsData(wire.bytes) = datum
    BY <1>1, <1>5 DEF Faithful, Plain, AsData
  <2> QED
    BY <2>1, <2>2 DEF Decoded
<1>6. CASE Compressed
  <2>1. /\ wire.info # Nil /\ wire.info.Enabled
        /\ wire.info.RawSize = datum.len /\ datum.len > 0
    BY <1>1, <1>2, <1>4, <1>6 DEF Faithful, Untouched, Compressed, Compresses
  <2>2. /\ wire.info.RawSize \notin {Nil, 0}
        /\ ~OverLimit(wire.info.RawSize, reader)
    BY <1>2, <2>1, CodecAssumption, EncodingAssumption DEF OverLimit
  <2>3. /\ wire.bytes.format = reader.CompressionCodec /\ wire.bytes.intact
        /\ wire.bytes.data = datum
    BY <1>1, <1>6 DEF Faithful, Untouched
  <2>4. CASE reader.CompressionCodec = "LZ4"
    <3>1. result \in Lz4Results(wire.bytes, datum.len)
      BY <1>1, <1>4, <2>1, <2>2, <2>4 DEF Decodings
    <3> QED
      BY <2>3, <2>4, <3>1 DEF Lz4Results, Decoded
  <2>5. CASE reader.CompressionCodec = "GZIP"
    <3>1. result \in GzipResults(wire.bytes, datum.len)
      BY <1>1, <1>4, <2>1, <2>2, <2>5 DEF Decodings
    <3>2. GzipReads(wire.bytes, datum.len) = {datum.len}
      BY <1>2, <2>3 DEF GzipReads, GzipLimit
    <3>3. GzipResults(wire.bytes, datum.len) = {Decoded(datum, datum.len)}
      BY <2>3, <2>5, <3>2 DEF GzipResults
    <3> QED
      BY <3>1, <3>3 DEF Decoded
  <2> QED
    BY <1>2, <2>4, <2>5 DEF Codecs
<1> QED
  BY <1>5, <1>6

(* The invariant gives DamageDetected.                                     *)
LEMMA DetectedFromInv == CodecInv => DamageDetected
<1> SUFFICES ASSUME CodecInv, pc = "read", result.code = "OK", result.data # datum
             PROVE  /\ reader.CompressionCodec = "LZ4"
                    /\ ~(wire.bytes.format = "LZ4" /\ wire.bytes.intact)
                    /\ result.data.len = wire.info.RawSize
  BY DEF DamageDetected, ReadOk
<1>1. /\ Faithful
      /\ result \in Decodings(wire.bytes, wire.size, wire.info, reader)
  BY DEF CodecInv
<1>2. /\ datum.len \in Nat /\ wire.bytes.data = datum
      /\ reader.CompressionCodec \in Codecs
  BY <1>1, CodecAssumption, EncodingAssumption DEF CodecInv, Config, Faithful
<1>3. \A code, num : result = Failed(code, num) => code = "OK"
  BY DEF Failed
<1>4. CASE ~Compressed
  <2>1. AsData(wire.bytes) = datum
    BY <1>1, <1>4 DEF Faithful, Plain, AsData
  <2>2. result = Decoded(AsData(wire.bytes), wire.bytes.len)
    BY <1>1, <1>3, <1>4 DEF Decodings, Faithful
  <2> QED
    BY <2>1, <2>2 DEF Decoded
<1>5. CASE Compressed
  <2>1. /\ wire.info # Nil /\ wire.info.Enabled
        /\ wire.info.RawSize \in Nat \cup {Nil}
    BY <1>1, <1>5 DEF Faithful, Stored, Info
  <2>2. /\ wire.info.RawSize \in Nat
        /\ result \in IF reader.CompressionCodec = "LZ4"
                      THEN Lz4Results(wire.bytes, wire.info.RawSize)
                      ELSE GzipResults(wire.bytes, wire.info.RawSize)
    BY <1>1, <1>3, <2>1 DEF Decodings
  <2>3. CASE reader.CompressionCodec = "LZ4"
    <3>1. /\ ~(wire.bytes.format = "LZ4" /\ wire.bytes.intact)
          /\ result = Decoded(Junk(wire.info.RawSize), wire.info.RawSize)
      BY <1>2, <1>3, <2>2, <2>3 DEF Lz4Results, Decoded
    <3> QED
      BY <2>3, <3>1 DEF Decoded, Junk
  <2>4. CASE reader.CompressionCodec # "LZ4"
    <3>1. result \in GzipResults(wire.bytes, wire.info.RawSize)
      BY <2>2, <2>4
    <3>2. PICK num \in GzipReads(wire.bytes, wire.info.RawSize) :
             result = IF \/ num # wire.info.RawSize
                         \/ ~wire.bytes.intact /\ num < GzipLimit(wire.info.RawSize)
                      THEN Failed("DataLoss", num)
                      ELSE Decoded(IF num = wire.bytes.data.len /\ wire.bytes.intact
                                   THEN wire.bytes.data ELSE Junk(num), num)
      BY <1>3, <3>1 DEF GzipResults
    <3>3. num = wire.info.RawSize /\ wire.bytes.intact
      BY <1>3, <2>2, <3>2 DEF GzipLimit
    <3>4. num = wire.bytes.data.len
      BY <1>2, <2>2, <3>3 DEF GzipReads, GzipLimit
    <3>5. result = Decoded(datum, num)
      BY <1>2, <3>2, <3>3, <3>4 DEF GzipLimit
    <3> QED
      BY <3>5 DEF Decoded
  <2> QED
    BY <2>3, <2>4
<1> QED
  BY <1>4, <1>5

(* The invariant gives AllocationBounded.                                  *)
LEMMA BoundedFromInv == CodecInv => AllocationBounded
<1> SUFFICES ASSUME CodecInv, pc = "read"
             PROVE  /\ result.read <= reader.MaxDecodedBytes + 1
                    /\ wire.info # Nil /\ wire.info.Enabled =>
                          result.read <= (IF wire.info.RawSize = Nil THEN 0
                                          ELSE wire.info.RawSize + 1)
  BY DEF AllocationBounded
<1>1. /\ Faithful
      /\ result \in Decodings(wire.bytes, wire.size, wire.info, reader)
  BY DEF CodecInv
<1>2. reader.MaxDecodedBytes \in Nat
  BY CodecAssumption, EncodingAssumption DEF CodecInv, Config
<1>3. /\ wire.bytes.len \in Nat /\ wire.info \in Info \cup {Nil}
      /\ wire.info # Nil => wire.info.RawSize \in Nat \cup {Nil}
      /\ wire.bytes.data.len \in Nat
  BY <1>1, CodecAssumption DEF CodecInv, Faithful, Stored, ByteString, Info
<1>4. CASE \E code : result = Failed(code, 0)
  <2>1. result.read = 0
    BY <1>4 DEF Failed
  <2> QED
    BY <1>2, <1>3, <2>1
<1>5. CASE /\ wire.info = Nil \/ ~wire.info.Enabled
           /\ wire.bytes.len <= reader.MaxDecodedBytes
           /\ result = Decoded(AsData(wire.bytes), wire.bytes.len)
  BY <1>2, <1>3, <1>5 DEF Decoded
<1>6. CASE /\ wire.info # Nil /\ wire.info.RawSize \in Nat
           /\ wire.info.RawSize <= reader.MaxDecodedBytes
           /\ \/ result \in Lz4Results(wire.bytes, wire.info.RawSize)
              \/ result \in GzipResults(wire.bytes, wire.info.RawSize)
  <2> DEFINE num == wire.info.RawSize
  <2>1. num \in Nat /\ num # Nil
    BY <1>6, EncodingAssumption
  <2>2. ASSUME result \in Lz4Results(wire.bytes, num)
        PROVE  result.read = num
    BY <2>2 DEF Lz4Results, Failed, Decoded
  <2>3. ASSUME result \in GzipResults(wire.bytes, num)
        PROVE  result.read \in 0..(num + 1)
    <3>1. GzipReads(wire.bytes, num) \subseteq 0..(num + 1)
      BY <1>3, <2>1 DEF GzipReads, GzipLimit
    <3>2. \/ result = Failed("DataLoss", 0)
          \/ \E cnt \in GzipReads(wire.bytes, num) :
                \/ result = Failed("DataLoss", cnt)
                \/ \E d : result = Decoded(d, cnt)
      BY <2>3 DEF GzipResults
    <3> QED
      BY <2>1, <3>1, <3>2 DEF Failed, Decoded
  <2>4. result.read \in 0..(num + 1)
    BY <1>6, <2>1, <2>2, <2>3
  <2> HIDE DEF num
  <2> QED
    BY <1>2, <1>6, <2>1, <2>4 DEF num
<1> QED
  BY <1>1, <1>2, <1>3, <1>4, <1>5, <1>6 DEF Decodings, OverLimit

(* A payload that was accepted and not changed is read back as it was, for *)
(* every length, threshold and block: encode() and decode() are inverse as *)
(* long as MaxDecodedBytes and the block overhead fit the size fields.     *)
THEOREM ReadBackExactTheorem == Spec => []ReadBackExact
  BY CodecInvariance, ExactFromInv, PTL

(* Damage to the sizes or to a block, or a block of the other codec, is an *)
(* error of decode(), up to the undetectable change of a raw LZ4 block.    *)
THEOREM DamageDetectedTheorem == Spec => []DamageDetected
  BY CodecInvariance, DetectedFromInv, PTL

(* decode() has never allocated or read more than MaxDecodedBytes + 1 bytes*)
(* of a payload, nor more than one above the raw size, when it returns,    *)
(* with the payload or with an error.                                      *)
THEOREM AllocationBoundedTheorem == Spec => []AllocationBounded
  BY CodecInvariance, BoundedFromInv, PTL
-----------------------------------------------------------------------------
(* Expirations                                                             *)

Words == 0..(2 * MaxInt64 + 1)

TimingInv ==
    /\ now \in Clock
    /\ ttl \in Words \cup {NoTime}
    /\ given # NoTime => /\ given.at \in Clock /\ given.d \in Nat
                      /\ ttl = Expiry(given.at, given.d)
    /\ got # NoTime => \E t \in Clock, e \in Words \cup {NoTime} : got = TTLResult(t, e)
    /\ lock # NoTime /\ lock.expiry # NoTime =>
          /\ lock.at \in Clock /\ lock.d \in Nat
          /\ lock.expiry = LockSeconds(lock.at, lock.d)
-----------------------------------------------------------------------------
(* Division by a positive number, rounded down.                            *)
LEMMA DivBounds ==
  ASSUME NEW a \in Int, NEW b \in Nat, b > 0
  PROVE  /\ a \div b \in Int
         /\ b * (a \div b) <= a
         /\ a < b * (a \div b) + b
  OBVIOUS

(* A product is within a bound when the factor is within the quotient.     *)
LEMMA MulDiv ==
  ASSUME NEW a \in Nat, NEW b \in Nat, b > 0, NEW q \in Int
  PROVE  q * b <= a <=> q <= a \div b
<1>1. /\ a \div b \in Int /\ b * (a \div b) <= a
      /\ a < b * (a \div b) + b
  BY DivBounds
<1>2. ASSUME q <= a \div b PROVE q * b <= a
  <2>1. q * b <= b * (a \div b)
    BY <1>1, <1>2
  <2> QED
    BY <1>1, <2>1
<1>3. ASSUME q > a \div b PROVE q * b > a
  <2>1. q >= (a \div b) + 1
    BY <1>1, <1>3
  <2>2. q * b >= b * (a \div b) + b
    BY <1>1, <2>1
  <2> QED
    BY <1>1, <2>2
<1> QED
  BY <1>1, <1>2, <1>3

(* The remainder of a number below twice the modulus.                      *)
LEMMA ModOnce ==
  ASSUME NEW m \in Nat, m > 0, NEW x \in Int
  PROVE  /\ 0 <= x /\ x < m => x % m = x
         /\ m <= x /\ x < 2 * m => x % m = x - m
  OBVIOUS

(* int64 arithmetic within the range, and above it once around.            *)
LEMMA Int64Values ==
  ASSUME NEW x \in Int
  PROVE  /\ -MaxInt64 - 1 <= x /\ x <= MaxInt64 => Int64(x) = x
         /\ MaxInt64 < x /\ x <= 3 * MaxInt64 =>
               Int64(x) = x - 2 * MaxInt64 - 2
<1> DEFINE m == 2 * MaxInt64 + 2
<1>1. m \in Nat /\ m > 0 /\ MaxInt64 \in Nat
  BY TimingAssumption
<1>2. \A y \in Int : /\ 0 <= y /\ y < m => y % m = y
                     /\ m <= y /\ y < 2 * m => y % m = y - m
  BY <1>1, ModOnce
<1> QED
  BY <1>1, <1>2 DEF Int64

(* The milliseconds of the clock keep to the middle half of int64.         *)
LEMMA MillisBounds ==
  ASSUME NEW t \in Clock
  PROVE  /\ UnixMilli(t) \in Int
         /\ -MaxInt64 <= 2 * UnixMilli(t)
         /\ 2 * UnixMilli(t) <= MaxInt64
<1>1. /\ t \in Int /\ NsPerMs \in Nat /\ NsPerMs > 2 /\ MaxInt64 \in Nat
      /\ -MaxInt64 <= 2 * t /\ 2 * t <= MaxInt64
  BY TimingAssumption
<1> DEFINE q == t \div NsPerMs
<1>2. /\ q \in Int /\ NsPerMs * q <= t /\ t < NsPerMs * q + NsPerMs
  BY <1>1, DivBounds
<1>3. CASE q >= 0
  <2>1. q <= NsPerMs * q
    BY <1>1, <1>2, <1>3
  <2> QED
    BY <1>1, <1>2, <1>3, <2>1 DEF UnixMilli
<1>4. CASE q < 0
  <2>1. NsPerMs * (q + 1) <= q + 1
    BY <1>1, <1>2, <1>4
  <2>2. NsPerMs * q + NsPerMs = NsPerMs * (q + 1)
    BY <1>1, <1>2
  <2>3. t < q + 1
    BY <1>1, <1>2, <2>1, <2>2
  <2> QED
    BY <1>1, <1>2, <1>4, <2>3 DEF UnixMilli
<1> QED
  BY <1>2, <1>3, <1>4

(* A conversion to uint64 gives a uint64.                                  *)
LEMMA WordNat == ASSUME NEW x \in Int PROVE Uint64(x) \in Words
<1>1. 2 * MaxInt64 + 2 \in Nat /\ 2 * MaxInt64 + 2 > 0
  BY TimingAssumption
<1> QED
  BY <1>1, TimingAssumption DEF Uint64, Words

(* The heart of GetTTL: the guards hold exactly for the differences whose  *)
(* product with NsPerMs fits, and then nothing has wrapped.                *)
LEMMA RemainingExact ==
  ASSUME NEW t \in Clock, NEW e \in Words
  PROVE  LET r == (e - UnixMilli(t)) * NsPerMs
         IN  IF -MaxInt64 - 1 <= r /\ r <= MaxInt64
             THEN /\ InRange(e, UnixMilli(t))
                  /\ Int64(Int64(e - UnixMilli(t)) * NsPerMs) = r
             ELSE ~InRange(e, UnixMilli(t))
<1> DEFINE ms == UnixMilli(t)
           x == e - ms
           r == x * NsPerMs
<1>1. /\ NsPerMs \in Nat /\ NsPerMs > 2 /\ MaxInt64 \in Nat
      /\ ms \in Int /\ -MaxInt64 <= 2 * ms /\ 2 * ms <= MaxInt64
      /\ e \in Int /\ 0 <= e /\ e <= 2 * MaxInt64 + 1
  BY MillisBounds, TimingAssumption DEF Words
<1>2. x \in Int /\ r \in Int /\ -MaxInt64 <= 2 * x
  BY <1>1
<1> HIDE DEF ms
<1>3. /\ r <= MaxInt64 <=> x <= MaxMillis
      /\ r >= -MaxInt64 - 1 <=> x >= MinMillis
  <2>1. r <= MaxInt64 <=> x <= MaxMillis
    BY <1>1, <1>2, MulDiv DEF MaxMillis
  <2>2. (-x) * NsPerMs <= MaxInt64 + 1 <=> -x <= (MaxInt64 + 1) \div NsPerMs
    BY <1>1, <1>2, MulDiv
  <2>3. (-x) * NsPerMs = -r
    BY <1>1, <1>2
  <2>4. (MaxInt64 + 1) \div NsPerMs \in Int
    BY <1>1, DivBounds
  <2> QED
    BY <1>1, <1>2, <2>1, <2>2, <2>3, <2>4 DEF MinMillis
<1>4. CASE e <= MaxInt64 /\ x <= MaxInt64
  <2>1. Int64(x) = x
    BY <1>1, <1>2, <1>4, Int64Values
  <2>2. InRange(e, ms) <=> -MaxInt64 - 1 <= r /\ r <= MaxInt64
    BY <1>2, <1>3, <1>4, <2>1 DEF InRange
  <2>3. -MaxInt64 - 1 <= r /\ r <= MaxInt64 => Int64(r) = r
    BY <1>2, Int64Values
  <2> QED
    BY <2>1, <2>2, <2>3 DEF ms
<1>5. CASE e > MaxInt64 \/ x > MaxInt64
  <2>1. 2 * x > MaxInt64
    BY <1>1, <1>2, <1>5
  <2>2. r > MaxInt64
    <3>1. r >= 2 * x
      BY <1>1, <1>2, <2>1
    <3> QED
      BY <1>1, <1>2, <2>1, <3>1
  <2>3. ~InRange(e, ms)
    <3>1. CASE e > MaxInt64
      BY <1>1, <3>1 DEF InRange
    <3>2. CASE e <= MaxInt64 /\ x > MaxInt64
      <4>1. Int64(x) = x - 2 * MaxInt64 - 2
        BY <1>1, <1>2, <3>2, Int64Values
      <4>2. 3 * ((MaxInt64 + 1) \div NsPerMs) <= MaxInt64 + 1
        <5> DEFINE q == (MaxInt64 + 1) \div NsPerMs
        <5>1. q \in Int /\ NsPerMs * q <= MaxInt64 + 1
              /\ MaxInt64 + 1 < NsPerMs * q + NsPerMs
          BY <1>1, DivBounds
        <5> HIDE DEF q
        <5>2. q >= 0
          <6> SUFFICES ASSUME q < 0 PROVE FALSE
            BY <5>1
          <6>1. NsPerMs * q + NsPerMs <= 0
            BY <1>1, <5>1
          <6> QED
            BY <1>1, <5>1, <6>1
        <5>3. 3 * q <= NsPerMs * q
          BY <1>1, <5>1, <5>2
        <5> QED
          BY <1>1, <5>1, <5>3 DEF q
      <4>3. (MaxInt64 + 1) \div NsPerMs \in Int
        BY <1>1, DivBounds
      <4>4. Int64(x) < MinMillis
        BY <1>1, <1>2, <3>2, <4>1, <4>2, <4>3 DEF MinMillis
      <4> QED
        BY <1>1, <1>2, <4>1, <4>3, <4>4 DEF InRange, MinMillis
    <3> QED
      BY <1>1, <1>5, <3>1, <3>2
  <2> QED
    BY <1>1, <1>2, <2>2, <2>3 DEF ms
<1> QED
  BY <1>1, <1>2, <1>4, <1>5
-----------------------------------------------------------------------------
(* The invariant holds in the beginning.                                   *)
LEMMA TimingInvInit == TimingInit => TimingInv
  BY DEF TimingInit, TimingInv

(* Every step keeps the invariant.                                         *)
LEMMA TimingInvNext == TimingInv /\ [TimingNext]_timingVars => TimingInv'
<1> SUFFICES ASSUME TimingInv, [TimingNext]_timingVars PROVE TimingInv'
  OBVIOUS
<1>0. now \in Clock
  BY DEF TimingInv
<1>1. ASSUME NEW d \in Durations, d >= 0
      PROVE  d \in Nat /\ Expiry(now, d) \in Words
  <2>1. d \in Nat /\ now \in Int /\ NsPerMs \in Nat /\ NsPerMs > 0
    BY <1>0, <1>1, TimingAssumption
  <2>2. UnixMilli(now + d) \in Int
    BY <2>1, DivBounds DEF UnixMilli
  <2> QED
    BY <2>1, <2>2, WordNat DEF Expiry
<1> USE DEF TimingInv
<1>2. CASE Tick
  BY <1>2 DEF Tick
<1>3. CASE OtherWriter
  BY <1>3, TimingAssumption DEF OtherWriter, Words
<1>4. CASE GetTTL
  BY <1>4 DEF GetTTL
<1>5. ASSUME NEW d \in Durations, SetTTL(d) PROVE TimingInv'
  BY <1>1, <1>5 DEF SetTTL
<1>6. ASSUME NEW d \in Durations, Store(d) PROVE TimingInv'
  BY <1>1, <1>6 DEF Store
<1>7. ASSUME NEW d \in Durations, LockObject(d) PROVE TimingInv'
  BY <1>1, <1>7 DEF LockObject
<1>8. CASE UNCHANGED timingVars
  BY <1>8 DEF timingVars
<1> QED
  BY <1>2, <1>3, <1>4, <1>5, <1>6, <1>7, <1>8 DEF TimingNext

(* Every expiration the server holds, every answer of GetTTL and every     *)
(* lock request comes from the clock and a duration by the code's formula. *)
THEOREM TimingInvariance == TimingSpec => []TimingInv
  BY TimingInvInit, TimingInvNext, PTL DEF TimingSpec

(* The invariant gives RemainingTrue.                                      *)
LEMMA RemainingFromInv == TimingInv => RemainingTrue
<1> SUFFICES ASSUME TimingInv, got # NoTime, got.expires # NoTime
             PROVE  IF /\ -MaxInt64 - 1 <= TrueRemaining(got)
                       /\ TrueRemaining(got) <= MaxInt64
                    THEN /\ got.code = "OK"
                         /\ got.remaining = TrueRemaining(got)
                    ELSE got.code = "OutOfRange"
  BY DEF RemainingTrue
<1>1. PICK t \in Clock, e \in Words \cup {NoTime} : got = TTLResult(t, e)
  BY DEF TimingInv
<1>2. e \in Words /\ e # NoTime /\ got.at = t /\ got.expires = e
  BY <1>1 DEF TTLResult
<1>3. TrueRemaining(got) = (e - UnixMilli(t)) * NsPerMs
  BY <1>2 DEF TrueRemaining
<1>4. CASE InRange(e, UnixMilli(t))
  BY <1>1, <1>2, <1>3, <1>4, RemainingExact DEF TTLResult
<1>5. CASE ~InRange(e, UnixMilli(t))
  BY <1>1, <1>2, <1>3, <1>5, RemainingExact DEF TTLResult
<1> QED
  BY <1>4, <1>5

(* The invariant gives TTLReadBack.                                        *)
LEMMA ReadBackFromInv == TimingInv => TTLReadBack
<1> SUFFICES ASSUME TimingInv, got # NoTime, got.code = "OK", given # NoTime,
                    got.expires = ttl, given.at + given.d \in 0..MaxInt64
             PROVE  LET left == given.d - (got.at - given.at)
                    IN  /\ left - NsPerMs < got.remaining
                        /\ got.remaining < left + NsPerMs
  BY DEF TTLReadBack
<1> DEFINE end == given.at + given.d
<1>1. /\ given.at \in Int /\ given.d \in Nat /\ ttl = Uint64(UnixMilli(end))
      /\ end \in Nat /\ end <= MaxInt64 /\ MaxInt64 \in Nat
      /\ NsPerMs \in Nat /\ NsPerMs > 2
  <2>1. /\ given.at \in Clock /\ given.d \in Nat
        /\ ttl = Expiry(given.at, given.d)
    BY DEF TimingInv
  <2>2. given.at \in Int /\ MaxInt64 \in Nat /\ NsPerMs \in Nat /\ NsPerMs > 2
    BY <2>1, TimingAssumption
  <2> QED
    BY <2>1, <2>2 DEF Expiry
<1>2. PICK t \in Clock, e \in Words \cup {NoTime} : got = TTLResult(t, e)
  BY DEF TimingInv
<1>3. got.at = t /\ got.expires = e /\ t \in Int
  BY <1>2, TimingAssumption DEF TTLResult
<1> DEFINE q == end \div NsPerMs
           p == t \div NsPerMs
<1>4. /\ q \in Int /\ NsPerMs * q <= end /\ end < NsPerMs * q + NsPerMs
      /\ p \in Int /\ NsPerMs * p <= t /\ t < NsPerMs * p + NsPerMs
  BY <1>1, <1>3, DivBounds
<1> HIDE DEF q, p, end
<1>5. 0 <= q /\ q <= MaxInt64
  <2>1. q >= 0
    <3> SUFFICES ASSUME q < 0 PROVE FALSE
      BY <1>4
    <3>1. NsPerMs * q + NsPerMs <= 0
      BY <1>1, <1>4
    <3> QED
      BY <1>1, <1>4, <3>1
  <2>2. q <= NsPerMs * q
    BY <1>1, <1>4, <2>1
  <2> QED
    BY <1>1, <1>4, <2>1, <2>2
<1>6. ttl = q
  <2>1. 2 * MaxInt64 + 2 \in Nat /\ 2 * MaxInt64 + 2 > 0
    BY <1>1
  <2> QED
    BY <1>1, <1>4, <1>5, <2>1, ModOnce DEF Uint64, UnixMilli, q
<1>7. e = q /\ e # NoTime /\ e \in Words
  BY <1>1, <1>3, <1>4, <1>5, <1>6, TimingAssumption DEF Words
<1>8. got.remaining = (q - p) * NsPerMs
  <2>1. TrueRemaining(got) = (q - p) * NsPerMs
    BY <1>3, <1>7 DEF TrueRemaining, UnixMilli, p
  <2>2. RemainingTrue
    BY RemainingFromInv
  <2>3. got.expires # NoTime
    BY <1>3, <1>7
  <2> QED
    BY <2>1, <2>2, <2>3 DEF RemainingTrue
<1>9. (q - p) * NsPerMs = NsPerMs * q - NsPerMs * p
  BY <1>1, <1>4
<1>10. given.d - (got.at - given.at) = end - t
  BY <1>1, <1>3 DEF end
<1> QED
  BY <1>1, <1>3, <1>4, <1>8, <1>9, <1>10

(* There is one quotient.                                                  *)
LEMMA DivUnique ==
  ASSUME NEW q \in Int, NEW s \in Int, NEW m \in Nat, m > 0, NEW r \in Int,
         0 <= r, r < m, m * s <= m * q + r, m * q + r < m * s + m
  PROVE  s = q
<1>1. ASSUME s >= q + 1 PROVE FALSE
  <2>1. m * s >= m * (q + 1) /\ m * (q + 1) = m * q + m
    BY <1>1
  <2> DEFINE x == m * q
             y == m * s
  <2>2. x \in Int /\ y \in Int /\ y <= x + r /\ y >= x + m
    BY <2>1
  <2> HIDE DEF x, y
  <2> QED
    BY <2>2
<1>2. ASSUME q >= s + 1 PROVE FALSE
  <2>1. m * q >= m * (s + 1) /\ m * (s + 1) = m * s + m
    BY <1>2
  <2> DEFINE x == m * q
             y == m * s
  <2>2. x \in Int /\ y \in Int /\ x + r < y + m /\ x >= y + m
    BY <2>1
  <2> HIDE DEF x, y
  <2> QED
    BY <2>2
<1> QED
  BY <1>1, <1>2

(* The quotient of a sum is the sum of the quotients, or one more.         *)
LEMMA DivSum ==
  ASSUME NEW a \in Nat, NEW b \in Nat, NEW m \in Nat, m > 0
  PROVE  (a + b) \div m =
            (a \div m) + (b \div m) + (IF (a % m) + (b % m) >= m THEN 1 ELSE 0)
<1> DEFINE qa == a \div m
           qb == b \div m
           ra == a % m
           rb == b % m
           s == (a + b) \div m
<1>1. /\ qa \in Int /\ a = m * qa + ra /\ ra \in Int /\ 0 <= ra /\ ra < m
      /\ qb \in Int /\ b = m * qb + rb /\ rb \in Int /\ 0 <= rb /\ rb < m
  OBVIOUS
<1>2. s \in Int /\ m * s <= a + b /\ a + b < m * s + m
  BY DivBounds
<1> HIDE DEF qa, qb, ra, rb, s
<1>3. /\ m * (qa + qb) = m * qa + m * qb
      /\ m * (qa + qb + 1) = m * qa + m * qb + m
      /\ m * qa \in Int /\ m * qb \in Int /\ m * s \in Int
  BY <1>1, <1>2
<1>4. CASE ra + rb >= m
  <2>1. /\ ra + rb - m \in Int /\ 0 <= ra + rb - m /\ ra + rb - m < m
        /\ m * (qa + qb + 1) + (ra + rb - m) = a + b
    BY <1>1, <1>3, <1>4
  <2>2. s = qa + qb + 1
    BY <1>1, <1>2, <2>1, DivUnique
  <2> QED
    BY <1>4, <2>2 DEF qa, qb, ra, rb, s
<1>5. CASE ~(ra + rb >= m)
  <2>1. /\ ra + rb \in Int /\ 0 <= ra + rb /\ ra + rb < m
        /\ m * (qa + qb) + (ra + rb) = a + b
    BY <1>1, <1>3, <1>5
  <2>2. s = qa + qb
    BY <1>1, <1>2, <2>1, DivUnique
  <2>3. s = qa + qb + 0
    BY <1>1, <2>2
  <2> QED
    BY <1>5, <2>3 DEF qa, qb, ra, rb, s
<1> QED
  BY <1>4, <1>5

(* Where the division that rounds toward zero leaves a sum.                *)
LEMMA QuoBounds ==
  ASSUME NEW x \in Int, NEW m \in Nat, m > 0
  PROVE  /\ Quo(x, m) \in Int
         /\ x >= 0 => Quo(x, m) * m <= x /\ x < Quo(x, m) * m + m
         /\ x < 0 => x <= Quo(x, m) * m /\ Quo(x, m) * m < x + m
<1>1. CASE x >= 0
  <2> DEFINE q == x \div m
  <2>1. q \in Int /\ m * q <= x /\ x < m * q + m
    BY DivBounds
  <2>2. Quo(x, m) = q
    BY <1>1 DEF Quo
  <2> HIDE DEF q
  <2>3. q * m = m * q
    BY <2>1
  <2> QED
    BY <1>1, <2>1, <2>2, <2>3
<1>2. CASE x < 0
  <2> DEFINE q == (-x) \div m
  <2>1. q \in Int /\ m * q <= -x /\ -x < m * q + m
    BY DivBounds
  <2>2. Quo(x, m) = -q
    BY <1>2 DEF Quo
  <2> HIDE DEF q
  <2>3. (-q) * m = -(m * q)
    BY <2>1
  <2>4. m * q \in Int
    BY <2>1
  <2> DEFINE r == m * q
  <2> HIDE DEF r
  <2>5. r <= -x /\ -x < r + m /\ r \in Int /\ Quo(x, m) * m = -r
    BY <2>1, <2>2, <2>3, <2>4 DEF r
  <2>6. x <= -r /\ -r < x + m
    BY <2>5
  <2> QED
    BY <1>2, <2>1, <2>2, <2>5, <2>6
<1> QED
  BY <1>1, <1>2

(* The invariant gives LockLasts.                                          *)
LEMMA LockFromInv == TimingInv => LockLasts
<1> SUFFICES ASSUME TimingInv, lock # NoTime, lock.expiry # NoTime
             PROVE  LET end == UnixMilli(lock.at) + Milliseconds(lock.d)
                        till == lock.expiry * MsPerSecond
                        carry == (UnixMilli(lock.at) % MsPerSecond)
                                 + (Milliseconds(lock.d) % MsPerSecond) >= MsPerSecond
                    IN  /\ end - MsPerSecond < till /\ till < end + MsPerSecond
                        /\ end >= 0 => till <= end
                        /\ Milliseconds(lock.d) >= MsPerSecond =>
                              till > UnixMilli(lock.at)
                        /\ lock.at >= 0 =>
                              lock.expiry = DocumentedExpiry(lock.at, lock.d)
                                            + (IF carry THEN 1 ELSE 0)
  BY DEF LockLasts
<1>1. /\ lock.at \in Int /\ lock.d \in Nat
      /\ NsPerMs \in Nat /\ NsPerMs > 0 /\ MsPerSecond \in Nat /\ MsPerSecond > 0
      /\ lock.expiry = LockSeconds(lock.at, lock.d)
  <2>1. /\ lock.at \in Clock /\ lock.d \in Nat
        /\ lock.expiry = LockSeconds(lock.at, lock.d)
    BY DEF TimingInv
  <2>2. lock.at \in Int
    BY <2>1, TimingAssumption
  <2>3. /\ NsPerMs \in Nat /\ NsPerMs > 0
        /\ MsPerSecond \in Nat /\ MsPerSecond > 0
    BY TimingAssumption
  <2> QED
    BY <2>1, <2>2, <2>3
<1> DEFINE a == UnixMilli(lock.at)
           b == Milliseconds(lock.d)
           s == Quo(a + b, MsPerSecond)
<1>2. a \in Int /\ b \in Int
  BY <1>1, DivBounds DEF UnixMilli, Milliseconds
<1>3. lock.expiry = s
  BY <1>1 DEF LockSeconds
<1>d. DocumentedExpiry(lock.at, lock.d) = (a \div MsPerSecond) + (b \div MsPerSecond)
  BY DEF DocumentedExpiry
<1>n. lock.at >= 0 => a \in Nat /\ b \in Nat
  BY <1>1 DEF UnixMilli, Milliseconds
<1> HIDE DEF a, b
<1>c. ASSUME lock.at >= 0
      PROVE  lock.expiry = DocumentedExpiry(lock.at, lock.d)
                + (IF (a % MsPerSecond) + (b % MsPerSecond) >= MsPerSecond THEN 1 ELSE 0)
  <2>1. a \in Nat /\ b \in Nat /\ a + b >= 0
    BY <1>n, <1>c
  <2>2. s = (a + b) \div MsPerSecond
    BY <2>1 DEF Quo
  <2>3. s = (a \div MsPerSecond) + (b \div MsPerSecond)
            + (IF (a % MsPerSecond) + (b % MsPerSecond) >= MsPerSecond THEN 1 ELSE 0)
    BY <1>1, <2>1, <2>2, DivSum
  <2> QED
    BY <1>3, <1>d, <2>3
<1>4. /\ s \in Int
      /\ a + b >= 0 => /\ s * MsPerSecond <= a + b
                       /\ a + b < s * MsPerSecond + MsPerSecond
      /\ a + b < 0 => /\ a + b <= s * MsPerSecond
                      /\ s * MsPerSecond < a + b + MsPerSecond
  BY <1>1, <1>2, QuoBounds
<1> HIDE DEF s
<1> DEFINE till == s * MsPerSecond
<1>5. till \in Int
  BY <1>1, <1>4
<1>6. /\ a + b >= 0 => till <= a + b /\ a + b < till + MsPerSecond
      /\ a + b < 0 => a + b <= till /\ till < a + b + MsPerSecond
  BY <1>4
<1> HIDE DEF till
<1>7. /\ a + b - MsPerSecond < till /\ till < a + b + MsPerSecond
      /\ a + b >= 0 => till <= a + b
      /\ b >= MsPerSecond => till > a
  BY <1>1, <1>2, <1>5, <1>6
<1>8. lock.expiry * MsPerSecond = till
  BY <1>3 DEF till
<1> QED
  BY <1>1, <1>2, <1>5, <1>7, <1>8, <1>c DEF a, b

(* GetTTL is exact: OutOfRange is reported exactly for the differences     *)
(* that are no time.Duration, and no 64-bit step wraps otherwise.          *)
THEOREM RemainingTrueTheorem == TimingSpec => []RemainingTrue
  BY TimingInvariance, RemainingFromInv, PTL

(* A TTL read back after any time is what is left of it, to a millisecond. *)
THEOREM TTLReadBackTheorem == TimingSpec => []TTLReadBack
  BY TimingInvariance, ReadBackFromInv, PTL

(* A lock is requested to within a second of the time asked, and for no    *)
(* longer unless that time lies before 1970; it ends at the documented     *)
(* second, or at the next when the parts below a second add up to one.     *)
THEOREM LockLastsTheorem == TimingSpec => []LockLasts
  BY TimingInvariance, LockFromInv, PTL
=============================================================================

--------------------------- MODULE MessagesProofs ---------------------------
(***************************************************************************)
(* Keys and values on the wire: what delivery keeps of them, and that      *)
(* decode() undoes encode().  CollectProofs and OperationsProofs build on  *)
(* these lemmas.                                                           *)
(***************************************************************************)
EXTENDS Messages, TLAPS

(* A nil pointer is no struct and no number.                               *)
LEMMA NilFacts ==
  /\ Nil \notin Nat /\ Nil \notin Infos /\ NilApart(Data)
  BY EncodingAssumption, MessagesAssumption DEF NilApart, Infos, Pointer
-----------------------------------------------------------------------------
(* What delivery does to the parts of a key or value.                      *)

(* The bytes of an empty payload are not sent; the size is.                *)
LEMMA FlatBinary ==
  ASSUME NEW b \in Binaries(Data)
  PROVE  Flat(BinaryPayload, b) =
           [Payload |-> IF b.Payload # Nil /\ b.Payload.len > 0 THEN b.Payload ELSE Nil,
            Size |-> b.Size]
  BY SMT DEF Flat, BinaryPayload, OnWire, Default, Bytes, Uint, Scalar, Binaries

(* The payload of a key travels as that of a value.                        *)
LEMMA FlatKeyBinary ==
  ASSUME NEW b \in Binaries(Data)
  PROVE  Flat(KeyBinaryPayload, b) = Flat(BinaryPayload, b)
  BY DEF KeyBinaryPayload, BinaryPayload

(* A CompressedInfo arrives as it was sent.                                *)
LEMMA FlatInfo ==
  ASSUME NEW i \in Infos
  PROVE  Flat(CompressedInfo, i) = i
  BY SMT DEF Flat, CompressedInfo, OnWire, Default, Optional, Bool, Scalar, Infos

(* A KeyHint arrives as it was sent.                                       *)
LEMMA FlatHint ==
  ASSUME NEW h \in HintMessages
  PROVE  Flat(KeyHint, h) = h
  BY SMT DEF Flat, KeyHint, OnWire, Default, Optional, HintMessages

(* A LockInfo arrives as it was sent.                                      *)
LEMMA FlatLock ==
  ASSUME NEW l \in LockMessages
  PROVE  Flat(LockInfo, l) = l
  BY SMT DEF Flat, LockInfo, OnWire, Default, Optional, Uint, Scalar, LockMessages

(* The bytes of an empty payload are not sent.                             *)
Wired(b) ==
    IF b = Nil THEN Nil
    ELSE [Payload |-> IF b.Payload # Nil /\ b.Payload.len > 0 THEN b.Payload ELSE Nil,
          Size |-> b.Size]

(* A Value arrives as it was sent, but for the bytes of an empty payload.  *)
LEMMA NestedValue ==
  ASSUME NEW v \in ValueMessages(Data)
  PROVE  Nested(Value, v) = [v EXCEPT !.Value = Wired(@)]
  <1>1. Field(Message(BinaryPayload), v.Value, Flat) = Wired(v.Value)
    BY FlatBinary DEF Field, Message, OnWire, Default, Wired, ValueMessages, Pointer
  <1>2. Field(Message(CompressedInfo), v.CompressionInfo, Flat) = v.CompressionInfo
    BY FlatInfo DEF Field, Message, OnWire, Default, ValueMessages, Pointer
  <1>3. Field(Optional, v.Ttl, Flat) = v.Ttl
    BY DEF Field, Optional, OnWire, Default
  <1>4. Field(Message(LockInfo), v.LockInfo, Flat) = v.LockInfo
    BY FlatLock DEF Field, Message, OnWire, Default, ValueMessages, Pointer
  <1>5. QED
    BY <1>1, <1>2, <1>3, <1>4 DEF Nested, Value, ValueMessages

(* The same of a Key.                                                      *)
LEMMA NestedKey ==
  ASSUME NEW k \in KeyMessages(Data)
  PROVE  Nested(Key, k) = [k EXCEPT !.Payload = Wired(@)]
  <1>1. Field(Message(KeyBinaryPayload), k.Payload, Flat) = Wired(k.Payload)
    BY FlatBinary, FlatKeyBinary
    DEF Field, Message, OnWire, Default, Wired, KeyMessages, Pointer
  <1>2. Field(Message(CompressedInfo), k.CompressionInfo, Flat) = k.CompressionInfo
    BY FlatInfo DEF Field, Message, OnWire, Default, KeyMessages, Pointer
  <1>3. Field(Message(KeyHint), k.KeyHint, Flat) = k.KeyHint
    BY FlatHint DEF Field, Message, OnWire, Default, KeyMessages, Pointer
  <1>4. Field(Optional, k.ClientId, Flat) = k.ClientId
    BY DEF Field, Optional, OnWire, Default
  <1>5. QED
    BY <1>1, <1>2, <1>3, <1>4 DEF Nested, Key, KeyMessages

(* A weight is kept, a weight of zero included.                            *)
LEMMA NestedOrderedValue ==
  ASSUME NEW v \in OrderedValueMessages(Data)
  PROVE  Nested(OrderedValue, v) = [v EXCEPT !.Value = Wired(@)]
  <1>1. Field(Message(BinaryPayload), v.Value, Flat) = Wired(v.Value)
    BY FlatBinary DEF Field, Message, OnWire, Default, Wired, OrderedValueMessages, Pointer
  <1>2. Field(Message(CompressedInfo), v.CompressionInfo, Flat) = v.CompressionInfo
    BY FlatInfo DEF Field, Message, OnWire, Default, OrderedValueMessages, Pointer
  <1>3. \A x : Field(Optional, x, Flat) = x
    BY DEF Field, Optional, OnWire, Default
  <1>4. Field(Message(LockInfo), v.LockInfo, Flat) = v.LockInfo
    BY FlatLock DEF Field, Message, OnWire, Default, OrderedValueMessages, Pointer
  <1>5. OrderedValue = [Value |-> Message(BinaryPayload),
                        CompressionInfo |-> Message(CompressedInfo),
                        Ttl |-> Optional, LockInfo |-> Message(LockInfo),
                        Order |-> Optional]
    BY DEF OrderedValue, Value, ++
  <1>6. QED
    BY <1>1, <1>2, <1>3, <1>4, <1>5 DEF Nested, OrderedValueMessages

(* The same of an OrderedKey.                                              *)
LEMMA NestedOrderedKey ==
  ASSUME NEW k \in OrderedKeyMessages(Data)
  PROVE  Nested(OrderedKey, k) = [k EXCEPT !.Payload = Wired(@)]
  <1>1. Field(Message(KeyBinaryPayload), k.Payload, Flat) = Wired(k.Payload)
    BY FlatBinary, FlatKeyBinary
    DEF Field, Message, OnWire, Default, Wired, OrderedKeyMessages, Pointer
  <1>2. Field(Message(CompressedInfo), k.CompressionInfo, Flat) = k.CompressionInfo
    BY FlatInfo DEF Field, Message, OnWire, Default, OrderedKeyMessages, Pointer
  <1>3. Field(Message(KeyHint), k.KeyHint, Flat) = k.KeyHint
    BY FlatHint DEF Field, Message, OnWire, Default, OrderedKeyMessages, Pointer
  <1>4. \A x : Field(Optional, x, Flat) = x
    BY DEF Field, Optional, OnWire, Default
  <1>5. OrderedKey = [Payload |-> Message(KeyBinaryPayload),
                      CompressionInfo |-> Message(CompressedInfo),
                      KeyHint |-> Message(KeyHint), ClientId |-> Optional,
                      Order |-> Optional]
    BY DEF OrderedKey, Key, ++
  <1>6. QED
    BY <1>1, <1>2, <1>3, <1>4, <1>5 DEF Nested, OrderedKeyMessages
-----------------------------------------------------------------------------
(* The codec.                                                              *)

(* Bytes as they are received, of which the reader makes d.                *)
Readable(b, info, d, c) ==
    /\ b \in Binaries(Data) /\ Wired(b) = b
    /\ b.Size = IF b.Payload = Nil THEN 0 ELSE b.Payload.len
    /\ Decode(b.Payload, b.Size, info, c).code = "OK"
    /\ Decode(b.Payload, b.Size, info, c).data = d

(* What encode() makes of data it accepts.                                 *)
LEMMA EncodeGives ==
  ASSUME NEW d \in Data, NEW c \in Configs, NEW compress \in BOOLEAN,
         Encode(d, compress, c).code = "OK"
  PROVE  /\ ~TooLong(d, c)
         /\ \/ Encode(d, compress, c).value = [bytes |-> Plain(d), info |-> Nil]
            \/ \E n \in 1..(d.len + Overhead) :
                  /\ d.len > 0
                  /\ Encode(d, compress, c).value =
                       [bytes |-> Block(c.CompressionCodec, d, n),
                        info |-> [Enabled |-> TRUE, RawSize |-> Uint32(d.len)]]
  <1>1. ~TooLong(d, c)
    BY DEF Encode, Err, Result
  <1>2. Encode(d, compress, c).value = CHOOSE e \in Encodings(d, compress, c) : TRUE
    BY <1>1 DEF Encode, Ok, Result
  <1>3. CASE Compresses(d, compress, c)
    <2> DEFINE E(n) == [bytes |-> Block(c.CompressionCodec, d, n),
                        info |-> [Enabled |-> TRUE, RawSize |-> Uint32(d.len)]]
    <2>1. d.len \in Nat /\ d.len > 0 /\ Overhead \in Nat
      BY <1>3, MessagesAssumption, EncodingAssumption DEF Compresses
    <2>2. Encodings(d, compress, c) = {E(n) : n \in 1..(d.len + Overhead)}
      BY <1>3 DEF Encodings
    <2> HIDE DEF E
    <2>3. 1 \in 1..(d.len + Overhead)
      BY <2>1
    <2>4. \E n \in 1..(d.len + Overhead) :
             (CHOOSE e \in Encodings(d, compress, c) : TRUE) = E(n)
      BY <2>2, <2>3
    <2>5. QED
      BY <1>1, <1>2, <2>1, <2>4 DEF E
  <1>4. CASE ~Compresses(d, compress, c)
    BY <1>1, <1>2, <1>4 DEF Encodings
  <1>5. QED
    BY <1>3, <1>4

(* A remainder of a number below the modulus is the number.                *)
LEMMA SmallUint32 ==
  ASSUME NEW n \in Nat, n < 2^SizeBits
  PROVE  Uint32(n) = n
  <1> DEFINE M == 2^SizeBits
  <1>1. M \in Nat \ {0} /\ n < M
    BY EncodingAssumption
  <1> HIDE DEF M
  <1>2. n % M = n
    BY <1>1
  <1>3. QED
    BY <1>2 DEF M, Uint32

(* What encode() accepts arrives so that decode() gives it back.           *)
LEMMA RoundTrip ==
  ASSUME NEW d \in Data, NEW c \in Configs, NEW compress \in BOOLEAN,
         Encode(d, compress, c).code = "OK"
  PROVE  LET e == Encode(d, compress, c).value
         IN  /\ Binary(e.bytes) \in Binaries(Data)
             /\ e.info \in Pointer(Infos)
             /\ Readable(Wired(Binary(e.bytes)), e.info, d, c)
  <1> DEFINE e == Encode(d, compress, c).value
  <1>n. Nil \notin ByteStrings(Data) /\ Nil \notin Binaries(Data) /\ Nil \notin Infos
    BY NilFacts DEF NilApart
  <1>m. \A m \in Nat : m # Nil
    BY NilFacts
  <1>1. /\ d.len \in Nat /\ (d.len = 0 => d = Empty) /\ d.len <= c.MaxDecodedBytes
        /\ c.CompressionCodec \in Codecs /\ c.MaxDecodedBytes \in Nat
        /\ d.len + Overhead < 2^SizeBits /\ d.len < 2^SizeBits /\ Overhead \in Nat
    <2> DEFINE M == 2^SizeBits
    <2>1. /\ d.len \in Nat /\ (d.len = 0 => d = Empty) /\ ~(d.len > c.MaxDecodedBytes)
          /\ c.CompressionCodec \in Codecs /\ c.MaxDecodedBytes \in Nat
          /\ c.MaxDecodedBytes + Overhead < M /\ Overhead \in Nat /\ M \in Nat
      BY EncodeGives, MessagesAssumption, EncodingAssumption DEF TooLong
    <2> HIDE DEF M
    <2>2. d.len + Overhead < M /\ d.len < M /\ d.len <= c.MaxDecodedBytes
      BY <2>1
    <2>3. QED
      BY <2>1, <2>2 DEF M
  <1>u. Uint32(d.len) = d.len
    BY <1>1, SmallUint32
  <1>g. \/ e = [bytes |-> Plain(d), info |-> Nil]
        \/ \E n \in 1..(d.len + Overhead) :
              /\ d.len > 0
              /\ e = [bytes |-> Block(c.CompressionCodec, d, n),
                      info |-> [Enabled |-> TRUE, RawSize |-> Uint32(d.len)]]
    BY EncodeGives
  <1> HIDE DEF e
  <1>2. CASE e = [bytes |-> Plain(d), info |-> Nil]
    <2>1. Binary(e.bytes) = [Payload |-> Plain(d), Size |-> d.len]
      BY <1>2, <1>u DEF Binary, Plain
    <2>2. Plain(d) \in ByteStrings(Data) /\ Plain(d).len = d.len /\ AsData(Plain(d)) = d
      BY <1>1 DEF Plain, ByteStrings, AsData
    <2>3. Binary(e.bytes) \in Binaries(Data) /\ e.info \in Pointer(Infos)
      BY <1>1, <1>2, <2>1, <2>2 DEF Binaries, Pointer
    <2>4. Wired(Binary(e.bytes)) = [Payload |-> IF d.len > 0 THEN Plain(d) ELSE Nil,
                                    Size |-> d.len]
      BY <1>n, <2>1, <2>2, <2>3 DEF Wired
    <2>5. Decodings(Plain(d), d.len, Nil, c) = {Decoded(d, d.len)}
      BY <1>1, <2>2 DEF Decodings
    <2>6. Decode(IF d.len > 0 THEN Plain(d) ELSE Nil, d.len, Nil, c) = Decoded(d, d.len)
      BY <1>1, <1>n, <2>2, <2>5 DEF Decode
    <2> DEFINE b == Wired(Binary(e.bytes))
    <2>7. b \in Binaries(Data) /\ b # Nil
      BY <1>1, <1>n, <2>2, <2>4 DEF Binaries, Pointer
    <2>8. Wired(b) = b /\ b.Size = IF b.Payload = Nil THEN 0 ELSE b.Payload.len
      <3> HIDE DEF b
      <3>1. b = [Payload |-> IF d.len > 0 THEN Plain(d) ELSE Nil, Size |-> d.len]
        BY <2>4 DEF b
      <3>2. b.Payload # Nil => d.len > 0 /\ b.Payload = Plain(d) /\ b.Payload.len > 0
        BY <2>2, <3>1
      <3>3. Wired(b) = b
        BY <2>7, <3>1, <3>2 DEF Wired
      <3>4. QED
        BY <1>1, <1>n, <2>2, <3>1, <3>2, <3>3
    <2>9. Decode(b.Payload, b.Size, e.info, c) = Decoded(d, d.len)
      BY <1>2, <2>4, <2>6
    <2> HIDE DEF b
    <2>10. Readable(b, e.info, d, c)
      BY <2>7, <2>8, <2>9 DEF Readable, Decoded
    <2>11. QED
      BY <2>3, <2>10 DEF b, e
  <1>3. ASSUME NEW n \in 1..(d.len + Overhead), d.len > 0,
               e = [bytes |-> Block(c.CompressionCodec, d, n),
                    info |-> [Enabled |-> TRUE, RawSize |-> Uint32(d.len)]]
        PROVE  /\ Binary(e.bytes) \in Binaries(Data)
               /\ e.info \in Pointer(Infos)
               /\ Readable(Wired(Binary(e.bytes)), e.info, d, c)
    <2> DEFINE B == Block(c.CompressionCodec, d, n)
    <2>1. n \in Nat /\ n > 0 /\ n < 2^SizeBits
      <3> DEFINE M == 2^SizeBits
      <3>1. d.len + Overhead < M /\ M \in Nat
        BY <1>1, EncodingAssumption
      <3> HIDE DEF M
      <3>2. n \in Nat /\ n > 0 /\ n < M
        BY <1>1, <3>1
      <3>3. QED
        BY <3>2 DEF M
    <2>u. Uint32(n) = n
      BY <2>1, SmallUint32
    <2>2. Binary(e.bytes) = [Payload |-> B, Size |-> n]
      BY <1>3, <2>u DEF Binary, Block
    <2>3. e.info = [Enabled |-> TRUE, RawSize |-> d.len]
      BY <1>3, <1>u
    <2>4. /\ B \in ByteStrings(Data) /\ B.len = n /\ B.data = d /\ B.intact
          /\ B.format = c.CompressionCodec
      BY <1>1, <2>1 DEF Block, ByteStrings
    <2>5. Binary(e.bytes) \in Binaries(Data) /\ e.info \in Infos
      BY <1>1, <2>1, <2>2, <2>3, <2>4 DEF Binaries, Pointer, Infos
    <2> HIDE DEF B
    <2>6. Wired(Binary(e.bytes)) = [Payload |-> B, Size |-> n]
      BY <1>n, <2>1, <2>2, <2>4, <2>5 DEF Wired
    <2>7. Lz4Results(B, d.len) = {Decoded(d, d.len)} \/ c.CompressionCodec # "LZ4"
      BY <2>4 DEF Lz4Results
    <2>8. GzipResults(B, d.len) = {Decoded(d, d.len)} \/ c.CompressionCodec # "GZIP"
      <3>1. GzipReads(B, d.len) = {d.len}
        BY <1>1, <2>4 DEF GzipReads, GzipLimit
      <3>2. QED
        BY <2>4, <3>1 DEF GzipResults
    <2>e. /\ e.info # Nil /\ e.info.Enabled /\ e.info.RawSize = d.len
          /\ d.len \notin {Nil, 0} /\ ~OverLimit(d.len, c)
      <3>1. d.len \in Nat /\ d.len <= c.MaxDecodedBytes /\ c.MaxDecodedBytes \in Nat
        BY <1>1
      <3>2. d.len \notin {Nil, 0} /\ ~OverLimit(d.len, c)
        BY <1>3, <1>m, <3>1 DEF OverLimit
      <3>3. e.info # Nil
        BY <1>n, <2>5
      <3>4. e.info.Enabled = TRUE
        BY <2>3
      <3>5. e.info.RawSize = d.len
        BY <2>3
      <3>6. QED
        BY <3>2, <3>3, <3>4, <3>5
    <2>f. Decodings(B, n, e.info, c) =
             IF c.CompressionCodec = "LZ4" THEN Lz4Results(B, d.len)
             ELSE GzipResults(B, d.len)
      BY <2>e, <2>4 DEF Decodings
    <2>9. Decodings(B, n, e.info, c) = {Decoded(d, d.len)}
      BY <1>1, <2>f, <2>7, <2>8 DEF Codecs
    <2>10. Decode(B, n, e.info, c) = Decoded(d, d.len)
      BY <1>n, <2>4, <2>9 DEF Decode
    <2>11. QED
      BY <1>n, <2>1, <2>2, <2>4, <2>5, <2>6, <2>10
      DEF Readable, Decoded, Wired, Binaries, Pointer
  <1>4. QED
    BY <1>2, <1>3, <1>g DEF e
-----------------------------------------------------------------------------
(* Keys and values.                                                        *)

(* What of a payload becomes a value, and what becomes a key.              *)
ValueFields(p) ==
    p.Data \in Data /\ p.ExpiresAtMillis \in Pointer(Nat) /\ p.Lock \in Pointer(LockInfos)
KeyFields(p) ==
    p.Data \in Data /\ p.Hint \in Pointer(KeyHints) /\ p.ClientID \in Pointer(Nat)

(* A message as received says what the caller's payload says.              *)
SaysValue(v, p, ttl, c) ==
    /\ v.Value # Nil /\ Readable(v.Value, v.CompressionInfo, p.Data, c)
    /\ v.Ttl = IF p.ExpiresAtMillis # Nil THEN p.ExpiresAtMillis ELSE ttl
    /\ v.LockInfo = lockPB(p.Lock)
SaysKey(k, p, id, c) ==
    /\ k.Payload # Nil /\ Readable(k.Payload, k.CompressionInfo, p.Data, c)
    /\ k.KeyHint = hintPB(p.Hint) /\ k.ClientId = id

(* lockGo() undoes lockPB().                                               *)
LEMMA LockBack ==
  ASSUME NEW l \in Pointer(LockInfos)
  PROVE  lockPB(l) \in Pointer(LockMessages) /\ lockGo(lockPB(l)) = l
  <1>1. Nil \notin LockMessages /\ Nil \notin LockInfos
    BY NilFacts DEF NilApart
  <1>2. CASE l = Nil
    BY <1>2 DEF lockPB, lockGo, Pointer
  <1>3. CASE l \in LockInfos
    <2>1. lockPB(l) \in LockMessages
      BY <1>1, <1>3 DEF lockPB, LockInfos, LockMessages
    <2>2. lockPB(l) = [Type |-> l.Type, LockedBy |-> l.LockedBy,
                       LockedTill |-> l.LockedTillMillis]
      BY <1>1, <1>3 DEF lockPB
    <2>3. lockGo(lockPB(l)) = l
      BY <1>1, <1>3, <2>1, <2>2 DEF lockGo, LockInfos
    <2>4. QED
      BY <2>1, <2>3 DEF Pointer
  <1>4. QED
    BY <1>2, <1>3 DEF Pointer

(* hintGo() undoes hintPB().                                               *)
LEMMA HintBack ==
  ASSUME NEW h \in Pointer(KeyHints)
  PROVE  hintPB(h) \in Pointer(HintMessages) /\ hintGo(hintPB(h)) = h
  <1>1. Nil \notin HintMessages /\ Nil \notin KeyHints
    BY NilFacts DEF NilApart
  <1>2. CASE h = Nil
    BY <1>2 DEF hintPB, hintGo, Pointer
  <1>3. CASE h \in KeyHints
    <2>1. hintPB(h) \in HintMessages
      BY <1>1, <1>3 DEF hintPB, KeyHints, HintMessages
    <2>2. hintPB(h) = [WeekHash |-> h.WeakHash, StrongHash |-> h.StrongHash]
      BY <1>1, <1>3 DEF hintPB
    <2>3. hintGo(hintPB(h)) = h
      BY <1>1, <1>3, <2>1, <2>2 DEF hintGo, KeyHints
    <2>4. QED
      BY <2>1, <2>3 DEF Pointer
  <1>4. QED
    BY <1>2, <1>3 DEF Pointer

(* encodeValuePolicy() and its way through the wire.                       *)
LEMMA ValueEncoded ==
  ASSUME NEW p, ValueFields(p), NEW ttl \in Pointer(Nat), NEW c \in Configs,
         NEW compress \in BOOLEAN,
         encodeValuePolicy(p, ttl, c, compress).code = "OK"
  PROVE  LET v == encodeValuePolicy(p, ttl, c, compress).value
         IN  /\ v \in ValueMessages(Data)
             /\ [v EXCEPT !.Value = Wired(@)] \in ValueMessages(Data)
             /\ SaysValue([v EXCEPT !.Value = Wired(@)], p, ttl, c)
  <1> DEFINE e == Encode(p.Data, compress, c)
             v == encodeValuePolicy(p, ttl, c, compress).value
             t == IF p.ExpiresAtMillis # Nil THEN p.ExpiresAtMillis ELSE ttl
             w == [v EXCEPT !.Value = Wired(@)]
  <1>1. e.code = "OK"
    BY DEF encodeValuePolicy
  <1>2. v = [Value |-> Binary(e.value.bytes), CompressionInfo |-> e.value.info,
             Ttl |-> t, LockInfo |-> lockPB(p.Lock)]
    BY <1>1 DEF encodeValuePolicy, Ok, Result
  <1>3. /\ Binary(e.value.bytes) \in Binaries(Data) /\ e.value.info \in Pointer(Infos)
        /\ Readable(Wired(Binary(e.value.bytes)), e.value.info, p.Data, c)
    BY <1>1, RoundTrip DEF ValueFields
  <1>4. t \in Pointer(Nat) /\ lockPB(p.Lock) \in Pointer(LockMessages)
    BY LockBack DEF ValueFields
  <1> DEFINE b == Binary(e.value.bytes)
             i == e.value.info
             k == lockPB(p.Lock)
  <1> HIDE DEF e, v, t, b, i, k
  <1>5. v = [Value |-> b, CompressionInfo |-> i, Ttl |-> t, LockInfo |-> k]
    BY <1>2 DEF b, i, k
  <1>6. /\ b \in Binaries(Data) /\ i \in Pointer(Infos) /\ Readable(Wired(b), i, p.Data, c)
        /\ t \in Pointer(Nat) /\ k \in Pointer(LockMessages)
    BY <1>3, <1>4 DEF b, i, k
  <1>7. v \in ValueMessages(Data)
    BY <1>5, <1>6 DEF ValueMessages, Pointer
  <1>8. w = [Value |-> Wired(b), CompressionInfo |-> i, Ttl |-> t, LockInfo |-> k]
    BY <1>5
  <1>9. Wired(b) \in Binaries(Data) /\ Wired(b) # Nil
    BY <1>6, NilFacts DEF NilApart, Readable
  <1> HIDE DEF w
  <1>10. w \in ValueMessages(Data)
    BY <1>6, <1>8, <1>9 DEF ValueMessages, Pointer
  <1>11. SaysValue(w, p, ttl, c)
    BY <1>6, <1>8, <1>9 DEF SaysValue, t, k
  <1>12. QED
    BY <1>7, <1>10, <1>11 DEF v, w

(* encodeKeyPolicy(): the key with its hint and its owner.                 *)
LEMMA KeyEncoded ==
  ASSUME NEW p, KeyFields(p), NEW id \in Pointer(Nat), NEW c \in Configs,
         NEW compress \in BOOLEAN,
         encodeKeyPolicy(p.Data, p.Hint, id, c, compress).code = "OK"
  PROVE  LET k == encodeKeyPolicy(p.Data, p.Hint, id, c, compress).value
         IN  /\ k \in KeyMessages(Data)
             /\ [k EXCEPT !.Payload = Wired(@)] \in KeyMessages(Data)
             /\ SaysKey([k EXCEPT !.Payload = Wired(@)], p, id, c)
  <1> DEFINE e == Encode(p.Data, compress, c)
             v == encodeKeyPolicy(p.Data, p.Hint, id, c, compress).value
             w == [v EXCEPT !.Payload = Wired(@)]
  <1>1. e.code = "OK"
    BY DEF encodeKeyPolicy
  <1>2. v = [Payload |-> Binary(e.value.bytes), KeyHint |-> hintPB(p.Hint),
             ClientId |-> id, CompressionInfo |-> e.value.info]
    BY <1>1 DEF encodeKeyPolicy, Ok, Result
  <1>3. /\ Binary(e.value.bytes) \in Binaries(Data) /\ e.value.info \in Pointer(Infos)
        /\ Readable(Wired(Binary(e.value.bytes)), e.value.info, p.Data, c)
    BY <1>1, RoundTrip DEF KeyFields
  <1>4. hintPB(p.Hint) \in Pointer(HintMessages)
    BY HintBack DEF KeyFields
  <1> DEFINE b == Binary(e.value.bytes)
             i == e.value.info
             h == hintPB(p.Hint)
  <1> HIDE DEF e, v, b, i, h
  <1>5. v = [Payload |-> b, KeyHint |-> h, ClientId |-> id, CompressionInfo |-> i]
    BY <1>2 DEF b, i, h
  <1>6. /\ b \in Binaries(Data) /\ i \in Pointer(Infos) /\ Readable(Wired(b), i, p.Data, c)
        /\ h \in Pointer(HintMessages)
    BY <1>3, <1>4 DEF b, i, h
  <1>7. v \in KeyMessages(Data)
    BY <1>5, <1>6 DEF KeyMessages, Pointer
  <1>8. w = [Payload |-> Wired(b), KeyHint |-> h, ClientId |-> id, CompressionInfo |-> i]
    BY <1>5
  <1>9. Wired(b) \in Binaries(Data) /\ Wired(b) # Nil
    BY <1>6, NilFacts DEF NilApart, Readable
  <1> HIDE DEF w
  <1>10. w \in KeyMessages(Data)
    BY <1>6, <1>8, <1>9 DEF KeyMessages, Pointer
  <1>11. SaysKey(w, p, id, c)
    BY <1>6, <1>8, <1>9 DEF SaysKey, h
  <1>12. QED
    BY <1>7, <1>10, <1>11 DEF v, w
=============================================================================

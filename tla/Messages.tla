------------------------------ MODULE Messages ------------------------------
(***************************************************************************)
(* The conversions of codec.go between what callers hold and the messages  *)
(* of module Wire.  Copies of pointers are copies of what they point to,   *)
(* so copyPtr is not visible here.                                         *)
(*                                                                         *)
(* A function that may fail returns [code, value]; with an error the value *)
(* is what the Go function returns beside it.                              *)
(*                                                                         *)
(* A definition named Fault... is a deliberately wrong variant of the one  *)
(* below it; no specification uses it.                                     *)
(***************************************************************************)
EXTENDS Wire

CONSTANTS
    Configs,        \* client configurations
    Data            \* the data of keys and values: [id, len]

Result(code, v) == [code |-> code, value |-> v]
Ok(v) == Result("OK", v)
Err(code) == Result(code, Nil)

(* The only data of length zero; its bytes are not sent.                   *)
Empty == [id |-> "empty", len |-> 0]

(* What a caller holds (types.go).                                         *)
Payload(d) ==
    [Data |-> d, ExpiresAtMillis |-> Nil, Lock |-> Nil, Hint |-> Nil,
     Compression |-> Nil, ClientID |-> Nil]
OrderedPayload(p, order) == p ++ [Order |-> order]

(* The types of the client and of the messages, with the data in D.        *)
Pointer(S) == S \cup {Nil}
KeyHints == [WeakHash : Pointer(Nat), StrongHash : Pointer(Nat)]
LockInfos == [Type : Nat, LockedBy : Pointer(Nat), LockedTillMillis : Pointer(Nat)]
PayloadsOf(D) ==
    [Data : D, ExpiresAtMillis : Pointer(Nat), Lock : Pointer(LockInfos),
     Hint : Pointer(KeyHints), Compression : {Nil}, ClientID : Pointer(Nat)]

ByteStrings(D) ==
    [format : {"plain"} \cup Codecs, data : D, len : Nat, intact : BOOLEAN]
Binaries(D) == [Payload : Pointer(ByteStrings(D)), Size : Nat]
Infos == [Enabled : BOOLEAN, RawSize : Pointer(Nat)]
HintMessages == [WeekHash : Pointer(Nat), StrongHash : Pointer(Nat)]
LockMessages == [Type : Nat, LockedBy : Pointer(Nat), LockedTill : Pointer(Nat)]
KeyMessages(D) ==
    [Payload : Pointer(Binaries(D)), CompressionInfo : Pointer(Infos),
     KeyHint : Pointer(HintMessages), ClientId : Pointer(Nat)]
OrderedKeyMessages(D) ==
    [Payload : Pointer(Binaries(D)), CompressionInfo : Pointer(Infos),
     KeyHint : Pointer(HintMessages), ClientId : Pointer(Nat), Order : Pointer(Nat)]
ValueMessages(D) ==
    [Value : Pointer(Binaries(D)), CompressionInfo : Pointer(Infos),
     Ttl : Pointer(Nat), LockInfo : Pointer(LockMessages)]
OrderedValueMessages(D) ==
    [Value : Pointer(Binaries(D)), CompressionInfo : Pointer(Infos),
     Ttl : Pointer(Nat), LockInfo : Pointer(LockMessages), Order : Pointer(Nat)]

(* A nil pointer is none of the structs.                                   *)
NilApart(D) ==
    /\ Nil \notin ByteStrings(D) /\ Nil \notin Binaries(D) /\ Nil \notin Infos
    /\ Nil \notin KeyHints /\ Nil \notin HintMessages
    /\ Nil \notin LockInfos /\ Nil \notin LockMessages
    /\ Nil \notin KeyMessages(D) /\ Nil \notin OrderedKeyMessages(D)
    /\ Nil \notin ValueMessages(D) /\ Nil \notin OrderedValueMessages(D)

(* Sizes do not wrap: see Codec for configurations where they do.          *)
ASSUME MessagesAssumption ==
    /\ \A c \in Configs :
          /\ c.ClientID \in Nat /\ c.CompressionCodec \in Codecs
          /\ c.CompressionThreshold \in Nat /\ c.MaxDecodedBytes \in Nat
          /\ c.MaxDecodedBytes + Overhead < 2^SizeBits
    /\ \A d \in Data : d.len \in Nat /\ (d.len = 0 => d = Empty)
    /\ NilApart(Data)

hintPB(h) ==
    IF h = Nil THEN Nil
    ELSE [WeekHash |-> h.WeakHash, StrongHash |-> h.StrongHash]

hintGo(h) ==
    IF h = Nil THEN Nil
    ELSE [WeakHash |-> h.WeekHash, StrongHash |-> h.StrongHash]

compressionGo(ci) ==
    IF ci = Nil THEN Nil ELSE [Enabled |-> ci.Enabled, RawSize |-> ci.RawSize]

lockGo(l) ==
    IF l = Nil THEN Nil
    ELSE [Type |-> l.Type, LockedBy |-> l.LockedBy,
          LockedTillMillis |-> l.LockedTill]

lockPB(l) ==
    IF l = Nil THEN Nil
    ELSE [Type |-> l.Type, LockedBy |-> l.LockedBy,
          LockedTill |-> l.LockedTillMillis]
-----------------------------------------------------------------------------
(* encode(): the compressors are deterministic; which of the lengths a     *)
(* block has does not matter here.                                         *)
Encode(d, compress, c) ==
    IF TooLong(d, c) THEN Err("ResourceExhausted")
    ELSE Ok(CHOOSE e \in Encodings(d, compress, c) : TRUE)

Binary(b) == [Payload |-> b, Size |-> Uint32(b.len)]

encodeKeyPolicy(d, h, id, c, compress) ==
    LET e == Encode(d, compress, c)
    IN  IF e.code # "OK" THEN e
        ELSE Ok([Payload |-> Binary(e.value.bytes), KeyHint |-> hintPB(h),
                 ClientId |-> id, CompressionInfo |-> e.value.info])

encodeKey(d, h, id, c) == encodeKeyPolicy(d, h, id, c, TRUE)

(* The expiry of the payload itself goes before the one of the call.       *)
encodeValuePolicy(p, ttl, c, compress) ==
    LET e == Encode(p.Data, compress, c)
    IN  IF e.code # "OK" THEN e
        ELSE Ok([Value |-> Binary(e.value.bytes),
                 CompressionInfo |-> e.value.info,
                 Ttl |-> IF p.ExpiresAtMillis # Nil THEN p.ExpiresAtMillis
                                                    ELSE ttl,
                 LockInfo |-> lockPB(p.Lock)])

encodeValue(p, ttl, c) == encodeValuePolicy(p, ttl, c, TRUE)

(* A missing weight is an explicit zero.                                   *)
OrderOrZero(order) == IF order = Nil THEN 0 ELSE order

encodeOrdered(p, ttl, c) ==
    LET e == encodeValuePolicy(p, ttl, c, TRUE)
    IN  IF e.code # "OK" THEN e
        ELSE Ok(e.value ++ [Order |-> OrderOrZero(p.Order)])
-----------------------------------------------------------------------------
(* Fault (AbsentIsNotEmpty): no bytes are taken for no payload.            *)
FaultHasPayload(v) == v.Value # Nil /\ v.Value.Payload # Nil

HasPayload(v) == v.Value # Nil

(* decode() of bytes that were received; a nil slice has length zero.      *)
Decode(b, size, info, c) ==
    CHOOSE r \in Decodings(IF b = Nil THEN Plain(Empty) ELSE b, size, info, c) :
        TRUE

decodeValue(v, c) ==
    IF v = Nil THEN Ok(Nil)
    ELSE IF ~HasPayload(v) THEN Err("DataLoss")
    ELSE LET r == Decode(v.Value.Payload, v.Value.Size, v.CompressionInfo, c)
         IN  IF r.code # "OK" THEN Err(r.code)
             ELSE Ok([Payload(r.data) EXCEPT
                        !.ExpiresAtMillis = v.Ttl,
                        !.Lock = lockGo(v.LockInfo),
                        !.Compression = compressionGo(v.CompressionInfo)])

decodeOrdered(v, c) ==
    LET r == decodeValue(v, c)
    IN  IF v = Nil \/ r.code # "OK" THEN r
        ELSE Ok(OrderedPayload(r.value, v.Order))

decodeResult(v, c) ==
    LET plain == decodeValue(v.ValueUnordered, c)
        ordered == decodeOrdered(v.ValueOrdered, c)
        ok == plain.code = "OK"
    IN  Result(IF ok THEN ordered.code ELSE plain.code,
               [Value |-> plain.value,
                Ordered |-> IF ok THEN ordered.value ELSE Nil,
                Hint |-> hintGo(v.KeyHint)])

decodeUpdate(v, c) ==
    LET r == decodeValue(v.Value, c)
    IN  Result(r.code, [Updated |-> v.Result, Previous |-> r.value])

atomicGo(v) == [Value |-> v.Val, Hint |-> hintGo(v.KeyHint)]

decodeKey(k, c) ==
    IF k = Nil \/ k.Payload = Nil THEN Err("DataLoss")
    ELSE LET r == Decode(k.Payload.Payload, k.Payload.Size, k.CompressionInfo, c)
         IN  Result(r.code, [Payload(r.data) EXCEPT
                               !.Hint = hintGo(k.KeyHint),
                               !.ClientID = k.ClientId,
                               !.Compression = compressionGo(k.CompressionInfo)])
-----------------------------------------------------------------------------
(* Position (types.go), and what is refused of it.                         *)
Position(start, end, type, reverse) ==
    [Start |-> start, End |-> end, Type |-> type, Reverse |-> reverse]

InvalidPosition(p) == p.End # Nil /\ p.End < p.Start

positionPB(key, p) ==
    [Key |-> key, Type |-> p.Type, Pos |-> p.Start, End |-> p.End,
     Reverse |-> p.Reverse]
=============================================================================

--------------------------- MODULE CollectProofs ----------------------------
(***************************************************************************)
(* What is read of a collection, for every configuration, every content    *)
(* and every way the server cuts it into batches.                          *)
(***************************************************************************)
EXTENDS Collect, MessagesProofs, FiniteSetTheorems, SequenceTheorems,
        WellFoundedInduction

(* decodeValue() of a message that says p.                                 *)
LEMMA ValueRead ==
  ASSUME NEW v \in ValueMessages(Data) \cup OrderedValueMessages(Data),
         NEW p, ValueFields(p), NEW ttl, NEW c, SaysValue(v, p, ttl, c)
  PROVE  /\ decodeValue(v, c).code = "OK"
         /\ decodeValue(v, c).value =
              [SeenValue(p, ttl) EXCEPT !.Compression = compressionGo(v.CompressionInfo)]
  <1>1. v # Nil
    BY NilFacts DEF NilApart
  <1>2. HasPayload(v) /\ lockGo(v.LockInfo) = p.Lock
    BY LockBack DEF SaysValue, HasPayload, ValueFields
  <1> DEFINE r == Decode(v.Value.Payload, v.Value.Size, v.CompressionInfo, c)
  <1>3. r.code = "OK" /\ r.data = p.Data
    BY DEF SaysValue, Readable
  <1> HIDE DEF r
  <1>4. decodeValue(v, c) =
          Ok([Payload(r.data) EXCEPT
                !.ExpiresAtMillis = v.Ttl, !.Lock = lockGo(v.LockInfo),
                !.Compression = compressionGo(v.CompressionInfo)])
    BY <1>1, <1>2, <1>3 DEF decodeValue, r
  <1>5. QED
    BY <1>2, <1>3, <1>4 DEF Ok, Result, Payload, SeenValue, SaysValue

KeyNoted(d, h, id, z) ==
    [Payload(d) EXCEPT !.Hint = h, !.ClientID = id, !.Compression = z]

(* decodeKey() of a key that says p.                                       *)
LEMMA KeyRead ==
  ASSUME NEW k \in KeyMessages(Data) \cup OrderedKeyMessages(Data),
         NEW p, KeyFields(p), NEW id, NEW c, SaysKey(k, p, id, c)
  PROVE  /\ decodeKey(k, c).code = "OK"
         /\ decodeKey(k, c).value =
              KeyNoted(p.Data, p.Hint, id, compressionGo(k.CompressionInfo))
  <1>1. k # Nil /\ k.Payload # Nil
    BY NilFacts DEF NilApart, SaysKey
  <1>2. hintGo(k.KeyHint) = p.Hint
    BY HintBack DEF SaysKey, KeyFields
  <1> DEFINE r == Decode(k.Payload.Payload, k.Payload.Size, k.CompressionInfo, c)
  <1>3. r.code = "OK" /\ r.data = p.Data
    BY DEF SaysKey, Readable
  <1> HIDE DEF r
  <1>4. decodeKey(k, c) =
          Result(r.code, [Payload(r.data) EXCEPT
                !.Hint = hintGo(k.KeyHint), !.ClientID = k.ClientId,
                !.Compression = compressionGo(k.CompressionInfo)])
    BY <1>1 DEF decodeKey, r
  <1>5. QED
    BY <1>2, <1>3, <1>4 DEF Result, SaysKey, KeyNoted
-----------------------------------------------------------------------------
(* Columns of a request or a batch.                                        *)

Items ==
    [key : Pointer(KeyMessages(Data)), orderedKey : Pointer(OrderedKeyMessages(Data)),
     value : Pointer(ValueMessages(Data)),
     orderedValue : Pointer(OrderedValueMessages(Data))]

(* The k-th of the numbers 1 to n is k.                                    *)
LEMMA NthOfAll ==
  ASSUME NEW n \in Nat, NEW k \in 1..n
  PROVE  Nth(1..n, k) = k
  <1>1. \A i \in 1..n : {j \in 1..n : j <= i} = 1..i
    OBVIOUS
  <1>2. \A i \in 1..n : Cardinality(1..i) = i
    BY FS_Interval
  <1>3. \A i \in 1..n : Cardinality({j \in 1..n : j <= i}) = k <=> i = k
    BY <1>1, <1>2
  <1>4. QED
    BY <1>3 DEF Nth

(* The column of a part that every item has.                               *)
LEMMA ColumnAll ==
  ASSUME NEW s \in Seq(Items), NEW part, \A i \in DOMAIN s : s[i][part] # Nil
  PROVE  Column(s, part) = [i \in DOMAIN s |-> s[i][part]]
  <1> DEFINE n == Len(s)
  <1>1. n \in Nat /\ DOMAIN s = 1..n
    OBVIOUS
  <1> HIDE DEF n
  <1>2. {i \in DOMAIN s : s[i][part] # Nil} = 1..n
    BY <1>1
  <1>3. Cardinality(1..n) = n
    BY <1>1, FS_Interval
  <1>4. Column(s, part) = [k \in 1..n |-> s[Nth(1..n, k)][part]]
    BY <1>2, <1>3 DEF Column
  <1>5. QED
    BY <1>1, <1>4, NthOfAll

(* The column of a part that no item has.                                  *)
LEMMA ColumnNone ==
  ASSUME NEW s, NEW part, \A i \in DOMAIN s : s[i][part] = Nil
  PROVE  Column(s, part) = <<>>
  <1>1. {i \in DOMAIN s : s[i][part] # Nil} = {}
    OBVIOUS
  <1>2. Cardinality({}) = 0
    BY FS_EmptySet
  <1>3. 1..Cardinality({i \in DOMAIN s : s[i][part] # Nil}) = {}
    BY <1>1, <1>2
  <1>4. QED
    BY <1>3 DEF Column

(* A repeated field is delivered message by message.                       *)
Received(field, v) == Field(field, v, Nested)

(* A repeated field arrives message by message, in order.                  *)
LEMMA Repeatedly ==
  ASSUME NEW schema, NEW x, DOMAIN x = {} => x = <<>>
  PROVE  Received(Repeated(schema), x) = [i \in DOMAIN x |-> Nested(schema, x[i])]
  <1>1. CASE x = <<>>
    <2>1. ~OnWire(Repeated(schema), x) /\ Default(Repeated(schema)) = <<>>
      BY <1>1 DEF OnWire, Repeated, Default
    <2>2. Received(Repeated(schema), x) = <<>>
      BY <2>1 DEF Received, Field
    <2>3. QED
      BY <1>1, <2>2
  <1>2. CASE x # <<>>
    <2>1. /\ OnWire(Repeated(schema), x) /\ Repeated(schema).presence = "repeated"
          /\ Repeated(schema).of = schema
      BY <1>2 DEF OnWire, Repeated, Default
    <2>2. QED
      BY <2>1 DEF Received, Field
  <1>3. QED
    BY <1>1, <1>2

ColumnFields == {"KeyUnordered", "KeyOrdered", "ValueUnordered", "ValueOrdered"}

(* The four columns of a message that has them arrive each by itself.      *)
LEMMA ColumnsDelivered ==
  ASSUME NEW R \in {AddToRequest, CreateContainerRequest, BatchValueResponse},
         NEW m, \A f \in ColumnFields : DOMAIN m[f] = {} => m[f] = <<>>
  PROVE  /\ Deliver(R, m).KeyUnordered =
               [i \in DOMAIN m.KeyUnordered |-> Nested(Key, m.KeyUnordered[i])]
         /\ Deliver(R, m).KeyOrdered =
               [i \in DOMAIN m.KeyOrdered |-> Nested(OrderedKey, m.KeyOrdered[i])]
         /\ Deliver(R, m).ValueUnordered =
               [i \in DOMAIN m.ValueUnordered |-> Nested(Value, m.ValueUnordered[i])]
         /\ Deliver(R, m).ValueOrdered =
               [i \in DOMAIN m.ValueOrdered |-> Nested(OrderedValue, m.ValueOrdered[i])]
  <1>1. /\ ColumnFields \subseteq DOMAIN R
        /\ R["KeyUnordered"] = Repeated(Key) /\ R["KeyOrdered"] = Repeated(OrderedKey)
        /\ R["ValueUnordered"] = Repeated(Value)
        /\ R["ValueOrdered"] = Repeated(OrderedValue)
    BY DEF AddToRequest, CreateContainerRequest, BatchValueResponse, ++, ColumnFields
  <1>2. \A f \in ColumnFields : Deliver(R, m)[f] = Received(R[f], m[f])
    BY <1>1 DEF Deliver, Received
  <1>3. ASSUME NEW f \in ColumnFields, NEW schema, R[f] = Repeated(schema)
        PROVE  Deliver(R, m)[f] = [i \in DOMAIN m[f] |-> Nested(schema, m[f][i])]
    <2>1. Received(Repeated(schema), m[f]) =
             [i \in DOMAIN m[f] |-> Nested(schema, m[f][i])]
      <3>1. DOMAIN m[f] = {} => m[f] = <<>>
        OBVIOUS
      <3>2. QED
        BY <3>1, Repeatedly
    <2>2. QED
      BY <1>2, <1>3, <2>1
  <1>4. /\ "KeyUnordered" \in ColumnFields /\ "KeyOrdered" \in ColumnFields
        /\ "ValueUnordered" \in ColumnFields /\ "ValueOrdered" \in ColumnFields
    BY DEF ColumnFields
  <1>5. QED
    BY <1>1, <1>3, <1>4
-----------------------------------------------------------------------------
(* Items.                                                                  *)

(* The parts an item has, by the list it comes from.                       *)
HasParts(l, it) ==
    /\ it \in Items
    /\ (it.key # Nil) = (l = "Entries")
    /\ (it.orderedKey # Nil) = (l = "OrderedEntries")
    /\ (it.value # Nil) = (l # "OrderedValues")
    /\ (it.orderedValue # Nil) = (l = "OrderedValues")

(* An item as the server holds it carries what the caller wrote.           *)
Carries(l, it, p, s, ttl) ==
    /\ HasParts(l, it)
    /\ l = "Values" => SaysValue(it.value, p, ttl, s.config)
    /\ l = "OrderedValues" =>
          /\ SaysValue(it.orderedValue, p, ttl, s.config)
          /\ it.orderedValue.Order = OrderOrZero(p.Order)
    /\ l = "Entries" =>
          /\ SaysKey(it.key, p.Key, KeyOwner(s, p.Key), s.config)
          /\ SaysValue(it.value, p.Value, ttl, s.config)
    /\ l = "OrderedEntries" =>
          /\ SaysKey(it.orderedKey, p.Key, KeyOwner(s, p.Key), s.config)
          /\ it.orderedKey.Order = OrderOrZero(p.Key.Order)
          /\ SaysValue(it.value, p.Value, ttl, s.config)

ElementFields(l, p) ==
    /\ l = "Values" => ValueFields(p)
    /\ l = "OrderedValues" => ValueFields(p) /\ p.Order \in Pointer(Nat)
    /\ l = "Entries" => KeyFields(p.Key) /\ ValueFields(p.Value)
    /\ l = "OrderedEntries" =>
          KeyFields(p.Key) /\ p.Key.Order \in Pointer(Nat) /\ ValueFields(p.Value)

(* What delivery makes of an item.                                         *)
Sent(it) ==
    [key |-> IF it.key = Nil THEN Nil ELSE Nested(Key, it.key),
     orderedKey |-> IF it.orderedKey = Nil THEN Nil
                    ELSE Nested(OrderedKey, it.orderedKey),
     value |-> IF it.value = Nil THEN Nil ELSE Nested(Value, it.value),
     orderedValue |-> IF it.orderedValue = Nil THEN Nil
                      ELSE Nested(OrderedValue, it.orderedValue)]

(* What the assumptions say of the payloads and keys of a caller.          *)
LEMMA PayloadFields ==
  ASSUME NEW p \in Payloads \cup Keys
  PROVE  p \in PayloadsOf(Data) /\ ValueFields(p) /\ KeyFields(p)
  <1>1. p \in PayloadsOf(Data)
    BY CollectAssumption, MessagesAssumption
  <1>2. QED
    BY <1>1 DEF PayloadsOf, ValueFields, KeyFields

(* A payload with a weight has the fields of the payload.                  *)
LEMMA WeightedFields ==
  ASSUME NEW p \in PayloadsOf(Data), NEW o \in Pointer(Nat),
         NEW q, q = OrderedPayload(p, o)
  PROVE  /\ ValueFields(q) /\ KeyFields(q) /\ q.Order \in Pointer(Nat)
  <1>1. /\ q.Data = p.Data /\ q.ExpiresAtMillis = p.ExpiresAtMillis
        /\ q.Lock = p.Lock /\ q.Hint = p.Hint /\ q.ClientID = p.ClientID /\ q.Order = o
    BY DEF OrderedPayload, ++, PayloadsOf
  <1>2. QED
    BY <1>1 DEF PayloadsOf, ValueFields, KeyFields

(* The fields of what a caller may put in a list.                          *)
LEMMA ElementsTyped ==
  ASSUME NEW l \in Lists, NEW p \in Elements(l)
  PROVE  ElementFields(l, p)
  <1>o. Orders \subseteq Pointer(Nat)
    BY CollectAssumption, MessagesAssumption
  <1>1. CASE l = "Values"
    BY <1>1, PayloadFields DEF Elements, ElementFields
  <1>2. CASE l = "OrderedValues"
    <2>1. PICK q \in Payloads, o \in Orders : p = OrderedPayload(q, o)
      BY <1>2 DEF Elements
    <2>2. QED
      BY <1>2, <1>o, <2>1, PayloadFields, WeightedFields DEF ElementFields
  <1>3. CASE l = "Entries"
    <2>1. p.Key \in Keys /\ p.Value \in Payloads
      BY <1>3 DEF Elements
    <2>2. QED
      BY <1>3, <2>1, PayloadFields DEF ElementFields
  <1>4. CASE l = "OrderedEntries"
    <2>1. p.Value \in Payloads /\ \E q \in Keys, o \in Orders : p.Key = OrderedPayload(q, o)
      BY <1>4 DEF Elements
    <2>2. QED
      BY <1>4, <1>o, <2>1, PayloadFields, WeightedFields DEF ElementFields
  <1>5. QED
    BY <1>1, <1>2, <1>3, <1>4 DEF Lists

(* encodeItems(), item by item, and the way of an item to the server.      *)
LEMMA ValueSent ==
  ASSUME NEW p, ValueFields(p), NEW ttl \in Pointer(Nat), NEW c \in Configs,
         NEW compress \in BOOLEAN,
         encodeValuePolicy(p, ttl, c, compress).code = "OK",
         NEW v, v = encodeValuePolicy(p, ttl, c, compress).value
  PROVE  /\ v \in ValueMessages(Data) /\ v # Nil
         /\ Nested(Value, v) \in ValueMessages(Data) /\ Nested(Value, v) # Nil
         /\ SaysValue(Nested(Value, v), p, ttl, c)
  <1>1. /\ v \in ValueMessages(Data)
        /\ [v EXCEPT !.Value = Wired(@)] \in ValueMessages(Data)
        /\ SaysValue([v EXCEPT !.Value = Wired(@)], p, ttl, c)
    BY ValueEncoded
  <1>2. Nested(Value, v) = [v EXCEPT !.Value = Wired(@)]
    BY <1>1, NestedValue
  <1>3. QED
    BY <1>1, <1>2, NilFacts DEF NilApart

(* A key, encoded and delivered.                                           *)
LEMMA KeySent ==
  ASSUME NEW p, KeyFields(p), NEW id \in Pointer(Nat), NEW c \in Configs,
         NEW compress \in BOOLEAN,
         encodeKeyPolicy(p.Data, p.Hint, id, c, compress).code = "OK",
         NEW k, k = encodeKeyPolicy(p.Data, p.Hint, id, c, compress).value
  PROVE  /\ k \in KeyMessages(Data) /\ k # Nil
         /\ Nested(Key, k) \in KeyMessages(Data) /\ Nested(Key, k) # Nil
         /\ SaysKey(Nested(Key, k), p, id, c)
  <1>1. /\ k \in KeyMessages(Data)
        /\ [k EXCEPT !.Payload = Wired(@)] \in KeyMessages(Data)
        /\ SaysKey([k EXCEPT !.Payload = Wired(@)], p, id, c)
    BY KeyEncoded
  <1>2. Nested(Key, k) = [k EXCEPT !.Payload = Wired(@)]
    BY <1>1, NestedKey
  <1>3. QED
    BY <1>1, <1>2, NilFacts DEF NilApart

(* A weight added to a message changes no other field.                     *)
LEMMA Weigh ==
  ASSUME NEW o
  PROVE  /\ \A v \in ValueMessages(Data) :
               v ++ [Order |-> o] =
                 [Value |-> v.Value, CompressionInfo |-> v.CompressionInfo, Ttl |-> v.Ttl,
                  LockInfo |-> v.LockInfo, Order |-> o]
         /\ \A k \in KeyMessages(Data) :
               k ++ [Order |-> o] =
                 [Payload |-> k.Payload, CompressionInfo |-> k.CompressionInfo,
                  KeyHint |-> k.KeyHint, ClientId |-> k.ClientId, Order |-> o]
  BY DEF ++, ValueMessages, KeyMessages

(* An ordered value, encoded and delivered.                                *)
LEMMA OrderedValueSent ==
  ASSUME NEW p, NEW ttl, NEW c, NEW o \in Pointer(Nat), NEW e \in ValueMessages(Data),
         [e EXCEPT !.Value = Wired(@)] \in ValueMessages(Data),
         SaysValue([e EXCEPT !.Value = Wired(@)], p, ttl, c)
  PROVE  LET v == e ++ [Order |-> o]
         IN  /\ v \in OrderedValueMessages(Data) /\ v # Nil
             /\ Nested(OrderedValue, v) \in OrderedValueMessages(Data)
             /\ Nested(OrderedValue, v) # Nil
             /\ SaysValue(Nested(OrderedValue, v), p, ttl, c)
             /\ Nested(OrderedValue, v).Order = o
  <1> DEFINE v == e ++ [Order |-> o]
             w == [e EXCEPT !.Value = Wired(@)]
  <1>3. v = [Value |-> e.Value, CompressionInfo |-> e.CompressionInfo, Ttl |-> e.Ttl,
             LockInfo |-> e.LockInfo, Order |-> o]
    BY Weigh
  <1> HIDE DEF v
  <1>4. v \in OrderedValueMessages(Data)
    BY <1>3 DEF OrderedValueMessages, ValueMessages
  <1>5. Nested(OrderedValue, v) = [v EXCEPT !.Value = Wired(@)]
    BY <1>4, NestedOrderedValue
  <1>6. Nested(OrderedValue, v) = [Value |-> w.Value, CompressionInfo |-> w.CompressionInfo,
                                   Ttl |-> w.Ttl, LockInfo |-> w.LockInfo, Order |-> o]
    BY <1>3, <1>5 DEF ValueMessages
  <1>w. w \in ValueMessages(Data) /\ SaysValue(w, p, ttl, c)
    OBVIOUS
  <1> HIDE DEF w
  <1>7. Nested(OrderedValue, v) \in OrderedValueMessages(Data)
    BY <1>w, <1>6 DEF OrderedValueMessages, ValueMessages
  <1>8. SaysValue(Nested(OrderedValue, v), p, ttl, c)
    BY <1>w, <1>6 DEF SaysValue
  <1>9. QED
    BY <1>4, <1>6, <1>7, <1>8, NilFacts DEF NilApart, v

(* An ordered key, encoded and delivered.                                  *)
LEMMA OrderedKeySent ==
  ASSUME NEW p, NEW id, NEW c, NEW o \in Pointer(Nat), NEW e \in KeyMessages(Data),
         [e EXCEPT !.Payload = Wired(@)] \in KeyMessages(Data),
         SaysKey([e EXCEPT !.Payload = Wired(@)], p, id, c)
  PROVE  LET k == e ++ [Order |-> o]
         IN  /\ k \in OrderedKeyMessages(Data) /\ k # Nil
             /\ Nested(OrderedKey, k) \in OrderedKeyMessages(Data)
             /\ Nested(OrderedKey, k) # Nil
             /\ SaysKey(Nested(OrderedKey, k), p, id, c)
             /\ Nested(OrderedKey, k).Order = o
  <1> DEFINE v == e ++ [Order |-> o]
             w == [e EXCEPT !.Payload = Wired(@)]
  <1>3. v = [Payload |-> e.Payload, CompressionInfo |-> e.CompressionInfo,
             KeyHint |-> e.KeyHint, ClientId |-> e.ClientId, Order |-> o]
    BY Weigh
  <1> HIDE DEF v
  <1>4. v \in OrderedKeyMessages(Data)
    BY <1>3 DEF OrderedKeyMessages, KeyMessages
  <1>5. Nested(OrderedKey, v) = [v EXCEPT !.Payload = Wired(@)]
    BY <1>4, NestedOrderedKey
  <1>6. Nested(OrderedKey, v) = [Payload |-> w.Payload, CompressionInfo |-> w.CompressionInfo,
                                 KeyHint |-> w.KeyHint, ClientId |-> w.ClientId, Order |-> o]
    BY <1>3, <1>5 DEF KeyMessages
  <1>w. w \in KeyMessages(Data) /\ SaysKey(w, p, id, c)
    OBVIOUS
  <1> HIDE DEF w
  <1>7. Nested(OrderedKey, v) \in OrderedKeyMessages(Data)
    BY <1>w, <1>6 DEF OrderedKeyMessages, KeyMessages
  <1>8. SaysKey(Nested(OrderedKey, v), p, id, c)
    BY <1>w, <1>6 DEF SaysKey
  <1>9. QED
    BY <1>4, <1>6, <1>7, <1>8, NilFacts DEF NilApart, v

(* The owner of a map key is a client or nobody.                           *)
LEMMA OwnerTyped ==
  ASSUME NEW s, s.key.ClientId \in Pointer(Nat), NEW k, KeyFields(k)
  PROVE  KeyOwner(s, k) \in Pointer(Nat)
  BY DEF KeyOwner, KeyFields, Pointer

(* A weight that is sent is a number.                                      *)
LEMMA WeightTyped ==
  ASSUME NEW o \in Pointer(Nat)
  PROVE  OrderOrZero(o) \in Pointer(Nat)
  BY DEF OrderOrZero, Pointer

(* The value of a result that is no error.                                 *)
LEMMA OneOk ==
  ASSUME NEW E, NEW r, NEW x, E.code = "OK", E = IF r.code # "OK" THEN r ELSE Ok(x)
  PROVE  r.code = "OK" /\ E.value = x
  BY DEF Ok, Result

(* The same of two results.                                                *)
LEMMA BothOk ==
  ASSUME NEW E, NEW q, NEW r, NEW x, E.code = "OK",
         E = IF q.code # "OK" THEN q ELSE IF r.code # "OK" THEN r ELSE Ok(x)
  PROVE  q.code = "OK" /\ r.code = "OK" /\ E.value = x
  BY DEF Ok, Result

(* An item that encodeItems() makes arrives so that it carries its         *)
(* element.                                                                *)
LEMMA ItemEncoded ==
  ASSUME NEW s, s.config \in Configs, s.key.ClientId \in Pointer(Nat),
         NEW ttl \in Pointer(Nat), NEW l \in Lists, NEW p, ElementFields(l, p),
         encodeItem(s, l, p, ttl).code = "OK"
  PROVE  LET it == encodeItem(s, l, p, ttl).value
         IN  HasParts(l, it) /\ Carries(l, Sent(it), p, s, ttl)
  <1> DEFINE c == s.config
             it == encodeItem(s, l, p, ttl).value
  <1>1. CASE l = "Values"
    <2> DEFINE r == encodeValuePolicy(p, ttl, c, FALSE)
    <2>1. encodeItem(s, l, p, ttl) =
            IF r.code # "OK" THEN r ELSE Ok([NoItem EXCEPT !.value = r.value])
      BY <1>1 DEF encodeItem, One
    <2>2. r.code = "OK" /\ it = [NoItem EXCEPT !.value = r.value]
      BY <2>1, OneOk
    <2> HIDE DEF it
    <2>3. /\ r.value \in ValueMessages(Data) /\ r.value # Nil
          /\ Nested(Value, r.value) \in ValueMessages(Data) /\ Nested(Value, r.value) # Nil
          /\ SaysValue(Nested(Value, r.value), p, ttl, c)
      BY <1>1, <2>2, ValueSent DEF ElementFields
    <2> HIDE DEF r, c
    <2>4. it = [key |-> Nil, orderedKey |-> Nil, value |-> r.value, orderedValue |-> Nil]
      BY <2>2 DEF NoItem
    <2>5. Sent(it) = [key |-> Nil, orderedKey |-> Nil, value |-> Nested(Value, r.value),
                      orderedValue |-> Nil]
      BY <2>3, <2>4 DEF Sent
    <2>6. HasParts(l, it) /\ HasParts(l, Sent(it))
      BY <1>1, <2>3, <2>4, <2>5 DEF HasParts, Items, Pointer
    <2>7. Carries(l, Sent(it), p, s, ttl)
      BY <1>1, <2>3, <2>5, <2>6 DEF Carries, c
    <2>8. QED
      BY <2>6, <2>7 DEF it
  <1>2. CASE l = "OrderedValues"
    <2> DEFINE r == encodeValuePolicy(p, ttl, c, TRUE)
               o == OrderOrZero(p.Order)
               v == r.value ++ [Order |-> o]
    <2>1. encodeItem(s, l, p, ttl) =
            LET q == encodeOrdered(p, ttl, c)
            IN  IF q.code # "OK" THEN q ELSE Ok([NoItem EXCEPT !.orderedValue = q.value])
      BY <1>2 DEF encodeItem, One
    <2>2. encodeOrdered(p, ttl, c) = IF r.code # "OK" THEN r ELSE Ok(v)
      BY DEF encodeOrdered
    <2> HIDE DEF v
    <2>3. r.code = "OK" /\ it = [NoItem EXCEPT !.orderedValue = v]
      <3>1. encodeOrdered(p, ttl, c).code = "OK"
            /\ it = [NoItem EXCEPT !.orderedValue = encodeOrdered(p, ttl, c).value]
        BY <2>1, OneOk
      <3>2. r.code = "OK" /\ encodeOrdered(p, ttl, c).value = v
        BY <2>2, <3>1, OneOk
      <3>3. QED
        BY <3>1, <3>2
    <2> HIDE DEF it
    <2>4. o \in Pointer(Nat) /\ ValueFields(p)
      BY <1>2, WeightTyped DEF ElementFields
    <2>5. /\ r.value \in ValueMessages(Data)
          /\ [r.value EXCEPT !.Value = Wired(@)] \in ValueMessages(Data)
          /\ SaysValue([r.value EXCEPT !.Value = Wired(@)], p, ttl, c)
      BY <2>3, <2>4, ValueEncoded
    <2> HIDE DEF r, c, o
    <2>6. /\ v \in OrderedValueMessages(Data) /\ v # Nil
          /\ Nested(OrderedValue, v) \in OrderedValueMessages(Data)
          /\ Nested(OrderedValue, v) # Nil
          /\ SaysValue(Nested(OrderedValue, v), p, ttl, c)
          /\ Nested(OrderedValue, v).Order = o
      BY <2>4, <2>5, OrderedValueSent DEF v
    <2>7. it = [key |-> Nil, orderedKey |-> Nil, value |-> Nil, orderedValue |-> v]
      BY <2>3 DEF NoItem
    <2>8. Sent(it) = [key |-> Nil, orderedKey |-> Nil, value |-> Nil,
                      orderedValue |-> Nested(OrderedValue, v)]
      BY <2>6, <2>7 DEF Sent
    <2>9. HasParts(l, it) /\ HasParts(l, Sent(it))
      BY <1>2, <2>6, <2>7, <2>8 DEF HasParts, Items, Pointer
    <2>10. Carries(l, Sent(it), p, s, ttl)
      BY <1>2, <2>6, <2>8, <2>9 DEF Carries, c, o
    <2>11. QED
      BY <2>9, <2>10 DEF it
  <1>3. CASE l = "Entries"
    <2> DEFINE id == KeyOwner(s, p.Key)
               q == encodeKeyPolicy(p.Key.Data, p.Key.Hint, id, c, FALSE)
               r == encodeValuePolicy(p.Value, ttl, c, FALSE)
    <2>1. encodeItem(s, l, p, ttl) =
            IF q.code # "OK" THEN q
            ELSE IF r.code # "OK" THEN r
            ELSE Ok([NoItem EXCEPT !.key = q.value, !.value = r.value])
      BY <1>3 DEF encodeItem, Both
    <2>2. /\ q.code = "OK" /\ r.code = "OK"
          /\ it = [NoItem EXCEPT !.key = q.value, !.value = r.value]
      BY <2>1, BothOk
    <2> HIDE DEF it
    <2>3. KeyFields(p.Key) /\ ValueFields(p.Value) /\ id \in Pointer(Nat)
      BY <1>3, OwnerTyped DEF ElementFields
    <2>4. /\ r.value \in ValueMessages(Data) /\ r.value # Nil
          /\ Nested(Value, r.value) \in ValueMessages(Data) /\ Nested(Value, r.value) # Nil
          /\ SaysValue(Nested(Value, r.value), p.Value, ttl, c)
      BY <2>2, <2>3, ValueSent
    <2>5. /\ q.value \in KeyMessages(Data) /\ q.value # Nil
          /\ Nested(Key, q.value) \in KeyMessages(Data) /\ Nested(Key, q.value) # Nil
          /\ SaysKey(Nested(Key, q.value), p.Key, id, c)
      BY <2>2, <2>3, KeySent
    <2> HIDE DEF q, r, c, id
    <2>6. it = [key |-> q.value, orderedKey |-> Nil, value |-> r.value, orderedValue |-> Nil]
      BY <2>2 DEF NoItem
    <2>7. Sent(it) = [key |-> Nested(Key, q.value), orderedKey |-> Nil,
                      value |-> Nested(Value, r.value), orderedValue |-> Nil]
      BY <2>4, <2>5, <2>6 DEF Sent
    <2>8. HasParts(l, it) /\ HasParts(l, Sent(it))
      BY <1>3, <2>4, <2>5, <2>6, <2>7 DEF HasParts, Items, Pointer
    <2>9. Carries(l, Sent(it), p, s, ttl)
      BY <1>3, <2>4, <2>5, <2>7, <2>8 DEF Carries, c, id
    <2>10. QED
      BY <2>8, <2>9 DEF it
  <1>4. CASE l = "OrderedEntries"
    <2> DEFINE id == KeyOwner(s, p.Key)
               q == encodeKeyPolicy(p.Key.Data, p.Key.Hint, id, c, TRUE)
               r == encodeValuePolicy(p.Value, ttl, c, TRUE)
               o == OrderOrZero(p.Key.Order)
               k == q.value ++ [Order |-> o]
    <2>1. encodeItem(s, l, p, ttl) =
            IF q.code # "OK" THEN q
            ELSE IF r.code # "OK" THEN r
            ELSE Ok([NoItem EXCEPT !.orderedKey = k, !.value = r.value])
      BY <1>4 DEF encodeItem, Both, OrderedKeyOf
    <2> HIDE DEF k
    <2>2. /\ q.code = "OK" /\ r.code = "OK"
          /\ it = [NoItem EXCEPT !.orderedKey = k, !.value = r.value]
      BY <2>1, BothOk
    <2> HIDE DEF it
    <2>3. /\ KeyFields(p.Key) /\ ValueFields(p.Value) /\ id \in Pointer(Nat)
          /\ o \in Pointer(Nat)
      BY <1>4, OwnerTyped, WeightTyped DEF ElementFields
    <2>4. /\ r.value \in ValueMessages(Data) /\ r.value # Nil
          /\ Nested(Value, r.value) \in ValueMessages(Data) /\ Nested(Value, r.value) # Nil
          /\ SaysValue(Nested(Value, r.value), p.Value, ttl, c)
      BY <2>2, <2>3, ValueSent
    <2>5. /\ q.value \in KeyMessages(Data)
          /\ [q.value EXCEPT !.Payload = Wired(@)] \in KeyMessages(Data)
          /\ SaysKey([q.value EXCEPT !.Payload = Wired(@)], p.Key, id, c)
      BY <2>2, <2>3, KeyEncoded
    <2> HIDE DEF q, r, c, id, o
    <2>6. /\ k \in OrderedKeyMessages(Data) /\ k # Nil
          /\ Nested(OrderedKey, k) \in OrderedKeyMessages(Data)
          /\ Nested(OrderedKey, k) # Nil
          /\ SaysKey(Nested(OrderedKey, k), p.Key, id, c)
          /\ Nested(OrderedKey, k).Order = o
      BY <2>3, <2>5, OrderedKeySent DEF k
    <2>7. it = [key |-> Nil, orderedKey |-> k, value |-> r.value, orderedValue |-> Nil]
      BY <2>2 DEF NoItem
    <2>8. Sent(it) = [key |-> Nil, orderedKey |-> Nested(OrderedKey, k),
                      value |-> Nested(Value, r.value), orderedValue |-> Nil]
      BY <2>4, <2>6, <2>7 DEF Sent
    <2>9. HasParts(l, it) /\ HasParts(l, Sent(it))
      BY <1>4, <2>4, <2>6, <2>7, <2>8 DEF HasParts, Items, Pointer
    <2>10. Carries(l, Sent(it), p, s, ttl)
      BY <1>4, <2>4, <2>6, <2>8, <2>9 DEF Carries, c, id, o
    <2>11. QED
      BY <2>9, <2>10 DEF it
  <1>5. QED
    BY <1>1, <1>2, <1>3, <1>4 DEF Lists
-----------------------------------------------------------------------------
(* All the items of a call.                                                *)

IsList(f) == \E S : f \in Seq(S)

(* A function on 1..n is a sequence.                                       *)
LEMMA Listed ==
  ASSUME NEW n \in Nat, NEW f, f = [i \in 1..n |-> f[i]]
  PROVE  f \in Seq({f[i] : i \in 1..n}) /\ Len(f) = n /\ DOMAIN f = 1..n
  <1> DEFINE S == {f[i] : i \in 1..n}
  <1>1. f \in [1..n -> S]
    OBVIOUS
  <1>2. f \in Seq(S)
    BY <1>1, SeqDef
  <1>3. DOMAIN f = 1..n /\ DOMAIN f = 1..Len(f) /\ Len(f) \in Nat
    BY <1>1, <1>2, LenProperties
  <1>4. Len(f) = n
    BY <1>3
  <1>5. QED
    BY <1>2, <1>3, <1>4

(* One list among four.                                                    *)
LEMMA OnlyOne ==
  ASSUME NEW l \in Lists, NEW A, NEW f \in Seq(A),
         NEW v, NEW ov, NEW e, NEW oe,
         v = IF l = "Values" THEN f ELSE <<>>,
         ov = IF l = "OrderedValues" THEN f ELSE <<>>,
         e = IF l = "Entries" THEN f ELSE <<>>,
         oe = IF l = "OrderedEntries" THEN f ELSE <<>>
  PROVE  v \o ov \o e \o oe = f
  <1>1. f \o <<>> = f /\ <<>> \o f = f
    BY ConcatEmptySeq
  <1>2. <<>> \o <<>> = <<>>
    BY ConcatEmptySeq, EmptySeq
  <1>3. QED
    BY <1>1, <1>2 DEF Lists

(* The items r are the elements xs of list l as encoded, and arrive so     *)
(* that they carry them.                                                   *)
Encoded(r, l, xs, s, ttl) ==
    /\ r \in Seq(Items) /\ Len(r) = Len(xs)
    /\ \A i \in DOMAIN xs : HasParts(l, r[i]) /\ Carries(l, Sent(r[i]), xs[i], s, ttl)

(* encodeItems() without an error: the list is that of the type, and each  *)
(* item carries the element at its place.                                  *)
LEMMA ItemsEncoded ==
  ASSUME NEW s, s.config \in Configs, s.key.ClientId \in Pointer(Nat),
         s.ttl \in Pointer(Nat), NEW t, NEW creation \in BOOLEAN,
         NEW l \in Lists, NEW xs \in Seq(Elements(l)),
         encodeItems(s, t, Only(l, xs), creation).code = "OK"
  PROVE  /\ l = ListOf(t) \/ xs = <<>>
         /\ Encoded(encodeItems(s, t, Only(l, xs), creation).value, l, xs, s,
                    ElementTTL(s, t, creation))
  <1> DEFINE d == Only(l, xs)
             ttl == ElementTTL(s, t, creation)
             f == [i \in DOMAIN xs |-> encodeItem(s, l, xs[i], ttl)]
             List(m) == [i \in DOMAIN d[m] |-> encodeItem(s, m, d[m][i], ttl)]
             r == encodeItems(s, t, d, creation).value
  <1>1. \A m \in Lists : d[m] = IF m = l THEN xs ELSE <<>>
    BY DEF Only, NoData
  <1>2. \A m \in Lists : List(m) = IF m = l THEN f ELSE <<>>
    <2> TAKE m \in Lists
    <2>1. CASE m = l
      BY <1>1, <2>1
    <2>2. CASE m # l
      BY <1>1, <2>2
    <2>3. QED
      BY <2>1, <2>2
  <1>3. DOMAIN xs = 1..Len(xs) /\ Len(xs) \in Nat
    BY LenProperties
  <1>4. IsList(f) /\ DOMAIN f = DOMAIN xs
    <2>1. f = [i \in 1..Len(xs) |-> f[i]]
      BY <1>3
    <2> HIDE DEF f
    <2>2. QED
      BY <1>3, <2>1, Listed, Zenon DEF IsList
  <1> DEFINE all == List("Values") \o List("OrderedValues") \o List("Entries")
                    \o List("OrderedEntries")
  <1>5. encodeItems(s, t, d, creation) =
          IF t \notin VECTOR..ORDERED_SET \/ Mismatched(t, d)
          THEN Err("InvalidArgument")
          ELSE IF \E i \in DOMAIN all : all[i].code # "OK"
          THEN Err("ResourceExhausted")
          ELSE Ok([i \in DOMAIN all |-> all[i].value])
    BY Zenon DEF encodeItems
  <1>6. all = f
    <2> HIDE DEF f, List
    <2>1. PICK A : f \in Seq(A)
      BY <1>4 DEF IsList
    <2>2. /\ "Values" \in Lists /\ "OrderedValues" \in Lists /\ "Entries" \in Lists
          /\ "OrderedEntries" \in Lists
      BY DEF Lists
    <2>3. /\ List("Values") = IF l = "Values" THEN f ELSE <<>>
          /\ List("OrderedValues") = IF l = "OrderedValues" THEN f ELSE <<>>
          /\ List("Entries") = IF l = "Entries" THEN f ELSE <<>>
          /\ List("OrderedEntries") = IF l = "OrderedEntries" THEN f ELSE <<>>
      BY <1>2, <2>2
    <2>4. QED
      BY <2>1, <2>3, OnlyOne
  <1> HIDE DEF all, d, List
  <1>7. /\ t \in VECTOR..ORDERED_SET /\ ~Mismatched(t, d)
        /\ \A i \in DOMAIN f : f[i].code = "OK"
        /\ r = [i \in DOMAIN f |-> f[i].value]
    <2> HIDE DEF f
    <2>1. QED
      BY <1>5, <1>6 DEF Err, Ok, Result, d
  <1>8. l = ListOf(t) \/ xs = <<>>
    BY <1>1, <1>7 DEF Mismatched
  <1>9. ttl \in Pointer(Nat)
    BY DEF ElementTTL, Pointer
  <1>10. \A i \in DOMAIN xs : /\ HasParts(l, r[i])
                              /\ Carries(l, Sent(r[i]), xs[i], s, ttl)
    <2> TAKE i \in DOMAIN xs
    <2>1. xs[i] \in Elements(l)
      BY <1>3, ElementOfSeq
    <2>2. ElementFields(l, xs[i])
      BY <2>1, ElementsTyped
    <2>3. f[i] = encodeItem(s, l, xs[i], ttl)
      OBVIOUS
    <2> HIDE DEF f, r, ttl
    <2>4. encodeItem(s, l, xs[i], ttl).code = "OK" /\ r[i] = encodeItem(s, l, xs[i], ttl).value
      BY <1>4, <1>7, <2>3
    <2>5. QED
      BY <1>9, <2>2, <2>4, ItemEncoded
  <1> HIDE DEF f, r, ttl
  <1>11. r = [i \in 1..Len(xs) |-> r[i]] /\ \A i \in 1..Len(xs) : r[i] \in Items
    BY <1>3, <1>4, <1>7, <1>10 DEF HasParts
  <1>12. r \in Seq(Items) /\ Len(r) = Len(xs)
    <2>1. r \in [1..Len(xs) -> Items]
      BY <1>11
    <2>2. QED
      BY <1>3, <1>11, <2>1, Listed, SeqDef
  <1>13. Encoded(r, l, xs, s, ttl)
    BY <1>10, <1>12 DEF Encoded
  <1>14. QED
    BY <1>8, <1>13 DEF r, d, ttl
-----------------------------------------------------------------------------
(* The columns of items that come from one list, as they are received.     *)

(* Those of the items for which it is said, or nothing.                    *)
Part(us, part, present) == IF present THEN [i \in DOMAIN us |-> us[i][part]] ELSE <<>>

(* A column without places is the empty list.                              *)
LEMMA EmptyPart ==
  ASSUME NEW us \in Seq(Items), NEW part, NEW present
  PROVE  DOMAIN Part(us, part, present) = {} => Part(us, part, present) = <<>>
  <1>1. CASE present
    BY <1>1 DEF Part
  <1>2. CASE ~present
    BY <1>2 DEF Part
  <1>3. QED
    BY <1>1, <1>2

(* A column holds its part of every item or nothing.                       *)
LEMMA ColumnPart ==
  ASSUME NEW us \in Seq(Items), NEW part, NEW present \in BOOLEAN,
         \A i \in DOMAIN us : (us[i][part] # Nil) = present
  PROVE  Column(us, part) = Part(us, part, present)
  <1>1. CASE present
    BY <1>1, ColumnAll DEF Part
  <1>2. CASE ~present
    BY <1>2, ColumnNone DEF Part
  <1>3. QED
    BY <1>1, <1>2

(* The columns of items that come from one list.                           *)
LEMMA ColumnsOf ==
  ASSUME NEW l \in Lists, NEW us \in Seq(Items),
         \A i \in DOMAIN us : HasParts(l, us[i])
  PROVE  Columns(us) = [KeyUnordered |-> Part(us, "key", l = "Entries"),
                        KeyOrdered |-> Part(us, "orderedKey", l = "OrderedEntries"),
                        ValueUnordered |-> Part(us, "value", l # "OrderedValues"),
                        ValueOrdered |-> Part(us, "orderedValue", l = "OrderedValues")]
  <1>1. \A i \in DOMAIN us : /\ (us[i]["key"] # Nil) = (l = "Entries")
                             /\ (us[i]["orderedKey"] # Nil) = (l = "OrderedEntries")
                             /\ (us[i]["value"] # Nil) = (l # "OrderedValues")
                             /\ (us[i]["orderedValue"] # Nil) = (l = "OrderedValues")
    BY DEF HasParts
  <1>2. Column(us, "key") = Part(us, "key", l = "Entries")
    BY <1>1, ColumnPart
  <1>3. Column(us, "orderedKey") = Part(us, "orderedKey", l = "OrderedEntries")
    BY <1>1, ColumnPart
  <1>4. Column(us, "value") = Part(us, "value", l # "OrderedValues")
    BY <1>1, ColumnPart
  <1>5. Column(us, "orderedValue") = Part(us, "orderedValue", l = "OrderedValues")
    BY <1>1, ColumnPart
  <1>6. QED
    BY <1>2, <1>3, <1>4, <1>5 DEF Columns

SentAll(us) == [i \in DOMAIN us |-> Sent(us[i])]

EachNested(schema, x) == [i \in DOMAIN x |-> Nested(schema, x[i])]

(* A column of parts, each delivered, is the column of the delivered       *)
(* parts.                                                                  *)
LEMMA PartReceived ==
  ASSUME NEW us, NEW ws, DOMAIN ws = DOMAIN us, NEW part, NEW present \in BOOLEAN,
         NEW schema,
         present => \A i \in DOMAIN us : ws[i][part] = Nested(schema, us[i][part]),
         NEW x, x = Part(us, part, present)
  PROVE  EachNested(schema, x) = Part(ws, part, present)
  <1>1. CASE present
    <2>1. x = [i \in DOMAIN us |-> us[i][part]]
      BY <1>1 DEF Part
    <2>2. [i \in DOMAIN x |-> Nested(schema, x[i])] =
             [i \in DOMAIN us |-> Nested(schema, us[i][part])]
      BY <2>1
    <2>3. [i \in DOMAIN us |-> Nested(schema, us[i][part])] = [i \in DOMAIN us |-> ws[i][part]]
      BY <1>1
    <2>4. QED
      BY <1>1, <2>2, <2>3 DEF Part, EachNested
  <1>2. CASE ~present
    <2>1. x = <<>> /\ Part(ws, part, present) = <<>>
      BY <1>2 DEF Part
    <2>2. QED
      BY <2>1 DEF EachNested
  <1>3. QED
    BY <1>1, <1>2

(* The columns of a message, as they are received.                         *)
LEMMA ColumnsReceived ==
  ASSUME NEW l \in Lists, NEW us \in Seq(Items),
         \A i \in DOMAIN us : HasParts(l, us[i]),
         NEW R \in {AddToRequest, CreateContainerRequest, BatchValueResponse},
         NEW m, \A f \in ColumnFields : m[f] = Columns(us)[f]
  PROVE  /\ Deliver(R, m).KeyUnordered = Part(SentAll(us), "key", l = "Entries")
         /\ Deliver(R, m).KeyOrdered =
               Part(SentAll(us), "orderedKey", l = "OrderedEntries")
         /\ Deliver(R, m).ValueUnordered =
               Part(SentAll(us), "value", l # "OrderedValues")
         /\ Deliver(R, m).ValueOrdered =
               Part(SentAll(us), "orderedValue", l = "OrderedValues")
  <1> DEFINE ku == Part(us, "key", l = "Entries")
             ko == Part(us, "orderedKey", l = "OrderedEntries")
             vu == Part(us, "value", l # "OrderedValues")
             vo == Part(us, "orderedValue", l = "OrderedValues")
  <1>1. /\ m["KeyUnordered"] = ku /\ m["KeyOrdered"] = ko
        /\ m["ValueUnordered"] = vu /\ m["ValueOrdered"] = vo
    BY ColumnsOf DEF ColumnFields
  <1>2. /\ (DOMAIN ku = {} => ku = <<>>) /\ (DOMAIN ko = {} => ko = <<>>)
        /\ (DOMAIN vu = {} => vu = <<>>) /\ (DOMAIN vo = {} => vo = <<>>)
    BY EmptyPart
  <1>3. DOMAIN SentAll(us) = DOMAIN us /\ \A i \in DOMAIN us : SentAll(us)[i] = Sent(us[i])
    BY DEF SentAll
  <1>4. \A i \in DOMAIN us :
           /\ l = "Entries" => SentAll(us)[i]["key"] = Nested(Key, us[i]["key"])
           /\ l = "OrderedEntries" =>
                 SentAll(us)[i]["orderedKey"] = Nested(OrderedKey, us[i]["orderedKey"])
           /\ l # "OrderedValues" => SentAll(us)[i]["value"] = Nested(Value, us[i]["value"])
           /\ l = "OrderedValues" =>
                 SentAll(us)[i]["orderedValue"] = Nested(OrderedValue, us[i]["orderedValue"])
    BY <1>3 DEF HasParts, Sent
  <1> HIDE DEF ku, ko, vu, vo
  <1>5. EachNested(Key, ku) = Part(SentAll(us), "key", l = "Entries")
    <2> DEFINE present == l = "Entries"
    <2>1. /\ present \in BOOLEAN /\ ku = Part(us, "key", present)
          /\ present => \A i \in DOMAIN us :
                          SentAll(us)[i]["key"] = Nested(Key, us[i]["key"])
      BY <1>4 DEF ku
    <2> HIDE DEF present
    <2>2. EachNested(Key, ku) = Part(SentAll(us), "key", present)
      BY <1>3, <2>1, PartReceived
    <2>3. QED
      BY <2>2 DEF present
  <1>6. EachNested(OrderedKey, ko) =
           Part(SentAll(us), "orderedKey", l = "OrderedEntries")
    <2> DEFINE present == l = "OrderedEntries"
    <2>1. /\ present \in BOOLEAN /\ ko = Part(us, "orderedKey", present)
          /\ present => \A i \in DOMAIN us :
                          SentAll(us)[i]["orderedKey"] = Nested(OrderedKey, us[i]["orderedKey"])
      BY <1>4 DEF ko
    <2> HIDE DEF present
    <2>2. EachNested(OrderedKey, ko) = Part(SentAll(us), "orderedKey", present)
      BY <1>3, <2>1, PartReceived
    <2>3. QED
      BY <2>2 DEF present
  <1>7. EachNested(Value, vu) =
           Part(SentAll(us), "value", l # "OrderedValues")
    <2> DEFINE present == l # "OrderedValues"
    <2>1. /\ present \in BOOLEAN /\ vu = Part(us, "value", present)
          /\ present => \A i \in DOMAIN us :
                          SentAll(us)[i]["value"] = Nested(Value, us[i]["value"])
      BY <1>4 DEF vu
    <2> HIDE DEF present
    <2>2. EachNested(Value, vu) = Part(SentAll(us), "value", present)
      BY <1>3, <2>1, PartReceived
    <2>3. QED
      BY <2>2 DEF present
  <1>8. EachNested(OrderedValue, vo) =
           Part(SentAll(us), "orderedValue", l = "OrderedValues")
    <2> DEFINE present == l = "OrderedValues"
    <2>1. /\ present \in BOOLEAN /\ vo = Part(us, "orderedValue", present)
          /\ present => \A i \in DOMAIN us :
                          SentAll(us)[i]["orderedValue"] = Nested(OrderedValue, us[i]["orderedValue"])
      BY <1>4 DEF vo
    <2> HIDE DEF present
    <2>2. EachNested(OrderedValue, vo) = Part(SentAll(us), "orderedValue", present)
      BY <1>3, <2>1, PartReceived
    <2>3. QED
      BY <2>2 DEF present
  <1>9. \A f \in ColumnFields : DOMAIN m[f] = {} => m[f] = <<>>
    BY <1>1, <1>2 DEF ColumnFields
  <1>10. /\ Deliver(R, m).KeyUnordered =
              [i \in DOMAIN m.KeyUnordered |-> Nested(Key, m.KeyUnordered[i])]
         /\ Deliver(R, m).KeyOrdered =
              [i \in DOMAIN m.KeyOrdered |-> Nested(OrderedKey, m.KeyOrdered[i])]
         /\ Deliver(R, m).ValueUnordered =
              [i \in DOMAIN m.ValueUnordered |-> Nested(Value, m.ValueUnordered[i])]
         /\ Deliver(R, m).ValueOrdered =
              [i \in DOMAIN m.ValueOrdered |-> Nested(OrderedValue, m.ValueOrdered[i])]
    BY <1>9, ColumnsDelivered
  <1>11. QED
    BY <1>1, <1>5, <1>6, <1>7, <1>8, <1>10 DEF EachNested
-----------------------------------------------------------------------------
(* A request taken apart again.                                            *)

(* The fields beside the columns do not touch them.                        *)
LEMMA RequestColumns ==
  ASSUME NEW us, NEW k, NEW t, NEW x
  PROVE  \A f \in ColumnFields :
            /\ addRequest(k, t, x, us)[f] = Columns(us)[f]
            /\ createRequest(k, t, x, us)[f] = Columns(us)[f]
  BY DEF ColumnFields, addRequest, createRequest, Columns, ++

(* Delivery gives an item no part and takes none.                          *)
LEMMA SentParts ==
  ASSUME NEW l, NEW it, HasParts(l, it)
  PROVE  /\ l # "Entries" => Sent(it).key = Nil
         /\ l # "OrderedEntries" => Sent(it).orderedKey = Nil
         /\ l = "OrderedValues" => Sent(it).value = Nil
         /\ l # "OrderedValues" => Sent(it).orderedValue = Nil
         /\ Sent(it) = [key |-> Sent(it).key, orderedKey |-> Sent(it).orderedKey,
                        value |-> Sent(it).value, orderedValue |-> Sent(it).orderedValue]
  BY DEF HasParts, Sent

(* Delivered items are as many as were sent.                               *)
LEMMA SentList ==
  ASSUME NEW us \in Seq(Items)
  PROVE  /\ IsList(SentAll(us)) /\ Len(SentAll(us)) = Len(us)
         /\ DOMAIN SentAll(us) = 1..Len(us) /\ DOMAIN us = 1..Len(us) /\ Len(us) \in Nat
         /\ us # <<>> => DOMAIN us # {}
         /\ us = <<>> => SentAll(us) = <<>>
  <1>1. DOMAIN us = 1..Len(us) /\ Len(us) \in Nat
    BY LenProperties
  <1>2. SentAll(us) = [i \in 1..Len(us) |-> SentAll(us)[i]]
    BY <1>1 DEF SentAll
  <1>3. us # <<>> => Len(us) > 0
    BY <1>1, EmptySeq
  <1>4. us = <<>> => SentAll(us) = <<>>
    BY DEF SentAll
  <1>5. /\ SentAll(us) \in Seq({SentAll(us)[i] : i \in 1..Len(us)})
        /\ Len(SentAll(us)) = Len(us) /\ DOMAIN SentAll(us) = 1..Len(us)
    BY <1>1, <1>2, Listed
  <1>6. IsList(SentAll(us))
    BY <1>5 DEF IsList
  <1>7. QED
    BY <1>1, <1>3, <1>4, <1>5, <1>6

(* An item made of a key and a value.                                      *)
LEMMA TwoParts ==
  ASSUME NEW x, NEW y
  PROVE  /\ [NoItem EXCEPT !.key = x, !.value = y] =
               [key |-> x, orderedKey |-> Nil, value |-> y, orderedValue |-> Nil]
         /\ [NoItem EXCEPT !.orderedKey = x, !.value = y] =
               [key |-> Nil, orderedKey |-> x, value |-> y, orderedValue |-> Nil]
  <1> DEFINE e == [NoItem EXCEPT !.key = x, !.value = y]
             f == [NoItem EXCEPT !.orderedKey = x, !.value = y]
  <1>1. /\ DOMAIN e = {"key", "orderedKey", "value", "orderedValue"}
        /\ e.key = x /\ e.orderedKey = Nil /\ e.value = y /\ e.orderedValue = Nil
        /\ e = [i \in DOMAIN e |-> e[i]]
    BY DEF NoItem
  <1>2. /\ DOMAIN f = {"key", "orderedKey", "value", "orderedValue"}
        /\ f.key = Nil /\ f.orderedKey = x /\ f.value = y /\ f.orderedValue = Nil
        /\ f = [i \in DOMAIN f |-> f[i]]
    BY DEF NoItem
  <1> HIDE DEF e, f
  <1>3. e = [key |-> x, orderedKey |-> Nil, value |-> y, orderedValue |-> Nil]
    BY <1>1
  <1>4. f = [key |-> Nil, orderedKey |-> x, value |-> y, orderedValue |-> Nil]
    BY <1>2
  <1>5. QED
    BY <1>3, <1>4 DEF e, f

(* The server takes the items apart as they were put together.             *)
LEMMA Unpacked ==
  ASSUME NEW l \in Lists, NEW us \in Seq(Items),
         \A i \in DOMAIN us : HasParts(l, us[i]),
         NEW R \in {AddToRequest, CreateContainerRequest},
         NEW m, \A f \in ColumnFields : m[f] = Columns(us)[f]
  PROVE  Unpack(Deliver(R, m)) = SentAll(us)
  <1> DEFINE D == Deliver(R, m)
             w == SentAll(us)
  <1>1. /\ D.KeyUnordered = Part(w, "key", l = "Entries")
        /\ D.KeyOrdered = Part(w, "orderedKey", l = "OrderedEntries")
        /\ D.ValueUnordered = Part(w, "value", l # "OrderedValues")
        /\ D.ValueOrdered = Part(w, "orderedValue", l = "OrderedValues")
    BY ColumnsReceived
  <1>2. /\ IsList(w) /\ DOMAIN w = DOMAIN us
        /\ (us # <<>> => DOMAIN w # {}) /\ (us = <<>> => w = <<>>)
    BY SentList
  <1>3. \A i \in DOMAIN w :
           /\ l # "Entries" => w[i].key = Nil
           /\ l # "OrderedEntries" => w[i].orderedKey = Nil
           /\ l = "OrderedValues" => w[i].value = Nil
           /\ l # "OrderedValues" => w[i].orderedValue = Nil
           /\ w[i] = [key |-> w[i].key, orderedKey |-> w[i].orderedKey,
                      value |-> w[i].value, orderedValue |-> w[i].orderedValue]
    BY <1>2, SentParts DEF SentAll
  <1>e. w = [i \in DOMAIN w |-> w[i]]
    BY DEF SentAll
  <1> HIDE DEF D, w
  <1>4. CASE us = <<>>
    <2>1. w = <<>>
      BY <1>2, <1>4
    <2>2. \A part, present : Part(w, part, present) = <<>>
      BY <2>1 DEF Part
    <2>3. /\ D.KeyUnordered = <<>> /\ D.KeyOrdered = <<>>
          /\ D.ValueUnordered = <<>> /\ D.ValueOrdered = <<>>
      BY <1>1, <2>2
    <2>4. Unpack(D) = <<>> \o <<>>
      BY <2>3 DEF Unpack
    <2>5. <<>> \o <<>> = <<>>
      BY ConcatEmptySeq, EmptySeq
    <2>6. QED
      BY <2>1, <2>4, <2>5 DEF D, w
  <1>5. CASE us # <<>> /\ l = "Entries"
    <2>1. /\ D.KeyUnordered = [i \in DOMAIN w |-> w[i]["key"]]
          /\ D.ValueUnordered = [i \in DOMAIN w |-> w[i]["value"]]
      BY <1>1, <1>5 DEF Part
    <2>2. D.KeyUnordered # <<>>
      BY <1>2, <1>5, <2>1
    <2>3. Unpack(D) = [i \in DOMAIN w |->
                         [NoItem EXCEPT !.key = w[i].key, !.value = w[i].value]]
      BY <2>1, <2>2 DEF Unpack
    <2>4. \A i \in DOMAIN w :
             [NoItem EXCEPT !.key = w[i].key, !.value = w[i].value] = w[i]
      <3> TAKE i \in DOMAIN w
      <3>1. [NoItem EXCEPT !.key = w[i].key, !.value = w[i].value] =
               [key |-> w[i].key, orderedKey |-> Nil, value |-> w[i].value,
                orderedValue |-> Nil]
        BY TwoParts
      <3>2. w[i].orderedKey = Nil /\ w[i].orderedValue = Nil
        BY <1>3, <1>5
      <3>3. QED
        BY <1>3, <3>1, <3>2
    <2>5. QED
      BY <1>e, <2>3, <2>4 DEF D, w
  <1>6. CASE us # <<>> /\ l = "OrderedEntries"
    <2>1. /\ D.KeyOrdered = [i \in DOMAIN w |-> w[i]["orderedKey"]]
          /\ D.ValueUnordered = [i \in DOMAIN w |-> w[i]["value"]]
          /\ D.KeyUnordered = <<>>
      BY <1>1, <1>6 DEF Part
    <2>2. D.KeyOrdered # <<>>
      BY <1>2, <1>6, <2>1
    <2>3. Unpack(D) = [i \in DOMAIN w |->
                         [NoItem EXCEPT !.orderedKey = w[i].orderedKey,
                                        !.value = w[i].value]]
      BY <2>1, <2>2 DEF Unpack
    <2>4. \A i \in DOMAIN w :
             [NoItem EXCEPT !.orderedKey = w[i].orderedKey, !.value = w[i].value] = w[i]
      <3> TAKE i \in DOMAIN w
      <3>1. [NoItem EXCEPT !.orderedKey = w[i].orderedKey, !.value = w[i].value] =
               [key |-> Nil, orderedKey |-> w[i].orderedKey, value |-> w[i].value,
                orderedValue |-> Nil]
        BY TwoParts
      <3>2. w[i].key = Nil /\ w[i].orderedValue = Nil
        BY <1>3, <1>6
      <3>3. QED
        BY <1>3, <3>1, <3>2
    <2>5. QED
      BY <1>e, <2>3, <2>4 DEF D, w
  <1>7. CASE l = "Values"
    <2>1. /\ D.ValueUnordered = [i \in DOMAIN w |-> w[i]["value"]]
          /\ D.KeyUnordered = <<>> /\ D.KeyOrdered = <<>> /\ D.ValueOrdered = <<>>
      BY <1>1, <1>7 DEF Part
    <2>2. Unpack(D) = [i \in DOMAIN w |-> [NoItem EXCEPT !.value = w[i].value]] \o <<>>
      BY <2>1 DEF Unpack
    <2>3. \A i \in DOMAIN w : [NoItem EXCEPT !.value = w[i].value] = w[i]
      BY <1>3, <1>7 DEF NoItem
    <2>4. [i \in DOMAIN w |-> [NoItem EXCEPT !.value = w[i].value]] = w
      BY <1>e, <2>3
    <2>5. w \o <<>> = w
      BY <1>2, ConcatEmptySeq DEF IsList
    <2>6. QED
      BY <2>2, <2>4, <2>5 DEF D, w
  <1>8. CASE l = "OrderedValues"
    <2>1. /\ D.ValueOrdered = [i \in DOMAIN w |-> w[i]["orderedValue"]]
          /\ D.KeyUnordered = <<>> /\ D.KeyOrdered = <<>> /\ D.ValueUnordered = <<>>
      BY <1>1, <1>8 DEF Part
    <2>2. Unpack(D) = <<>> \o [i \in DOMAIN w |->
                                 [NoItem EXCEPT !.orderedValue = w[i].orderedValue]]
      BY <2>1 DEF Unpack
    <2>3. \A i \in DOMAIN w : [NoItem EXCEPT !.orderedValue = w[i].orderedValue] = w[i]
      BY <1>3, <1>8 DEF NoItem
    <2>4. [i \in DOMAIN w |-> [NoItem EXCEPT !.orderedValue = w[i].orderedValue]] = w
      BY <1>e, <2>3
    <2>5. <<>> \o w = w
      BY <1>2, ConcatEmptySeq DEF IsList
    <2>6. QED
      BY <2>2, <2>4, <2>5 DEF D, w
  <1>9. QED
    BY <1>4, <1>5, <1>6, <1>7, <1>8 DEF Lists
-----------------------------------------------------------------------------
(* Lists.                                                                  *)

(* The length and the places of a list.                                    *)
LEMMA ListFacts ==
  ASSUME NEW s, IsList(s)
  PROVE  /\ Len(s) \in Nat /\ DOMAIN s = 1..Len(s) /\ s = [i \in 1..Len(s) |-> s[i]]
         /\ Len(s) = 0 <=> s = <<>>
  <1>1. PICK S : s \in Seq(S)
    BY DEF IsList
  <1>2. QED
    BY <1>1, LenProperties, EmptySeq

(* Lists that are equal place by place.                                    *)
LEMMA SameList ==
  ASSUME NEW s, NEW t, IsList(s), IsList(t), Len(s) = Len(t),
         \A i \in 1..Len(s) : s[i] = t[i]
  PROVE  s = t
  <1>1. s = [i \in 1..Len(s) |-> s[i]] /\ t = [i \in 1..Len(t) |-> t[i]]
    BY ListFacts
  <1>2. QED
    BY <1>1

(* Two lists, one after the other.                                         *)
LEMMA Joined ==
  ASSUME NEW s, NEW t, IsList(s), IsList(t)
  PROVE  /\ IsList(s \o t) /\ Len(s \o t) = Len(s) + Len(t)
         /\ \A i \in 1..(Len(s) + Len(t)) :
               (s \o t)[i] = IF i <= Len(s) THEN s[i] ELSE t[i - Len(s)]
         /\ DOMAIN (s \o t) = 1..(Len(s) + Len(t))
  <1>1. PICK S, T : s \in Seq(S) /\ t \in Seq(T)
    BY DEF IsList
  <1> DEFINE U == S \cup T
  <1>2. s \in Seq(U)
    <2>1. s \in [1..Len(s) -> U] /\ Len(s) \in Nat
      BY <1>1, LenProperties
    <2>2. QED
      BY <2>1, SeqDef
  <1>3. t \in Seq(U)
    <2>1. t \in [1..Len(t) -> U] /\ Len(t) \in Nat
      BY <1>1, LenProperties
    <2>2. QED
      BY <2>1, SeqDef
  <1> HIDE DEF U
  <1>4. /\ s \o t \in Seq(U) /\ Len(s \o t) = Len(s) + Len(t)
        /\ \A i \in 1..(Len(s) + Len(t)) :
              (s \o t)[i] = IF i <= Len(s) THEN s[i] ELSE t[i - Len(s)]
    BY <1>2, <1>3, ConcatProperties
  <1>5. DOMAIN (s \o t) = 1..Len(s \o t)
    BY <1>4, LenProperties
  <1>6. QED
    BY <1>4, <1>5 DEF IsList

(* A part of a list.                                                       *)
LEMMA Cut ==
  ASSUME NEW S, NEW s \in Seq(S), NEW a \in Nat, a >= 1, NEW b \in 0..Len(s)
  PROVE  /\ SubSeq(s, a, b) \in Seq(S)
         /\ Len(SubSeq(s, a, b)) = IF a <= b THEN b - a + 1 ELSE 0
         /\ \A i \in 1..Len(SubSeq(s, a, b)) : SubSeq(s, a, b)[i] = s[a + i - 1]
  <1>1. Len(s) \in Nat
    BY LenProperties
  <1>2. \A i \in a..b : i \in 1..Len(s)
    BY <1>1
  <1>3. \A i \in a..b : s[i] \in S
    BY <1>2, ElementOfSeq
  <1>4. a \in Int /\ b \in Int
    BY <1>1
  <1>5. /\ SubSeq(s, a, b) \in Seq(S)
        /\ Len(SubSeq(s, a, b)) = IF a <= b THEN b - a + 1 ELSE 0
        /\ \A i \in 1..(b - a + 1) : SubSeq(s, a, b)[i] = s[a + i - 1]
    BY <1>3, <1>4, SubSeqProperties
  <1>6. QED
    BY <1>4, <1>5

(* A list cut in two.                                                      *)
LEMMA TwoCuts ==
  ASSUME NEW S, NEW s \in Seq(S), NEW k \in 0..Len(s)
  PROVE  /\ SubSeq(s, 1, k) \in Seq(S) /\ Len(SubSeq(s, 1, k)) = k
         /\ \A i \in 1..k : SubSeq(s, 1, k)[i] = s[i]
         /\ SubSeq(s, k + 1, Len(s)) \in Seq(S)
         /\ Len(SubSeq(s, k + 1, Len(s))) = Len(s) - k
         /\ \A i \in 1..(Len(s) - k) : SubSeq(s, k + 1, Len(s))[i] = s[k + i]
  <1>1. Len(s) \in Nat /\ k \in Nat /\ k <= Len(s)
    BY LenProperties
  <1>2. /\ SubSeq(s, 1, k) \in Seq(S) /\ Len(SubSeq(s, 1, k)) = IF 1 <= k THEN k - 1 + 1 ELSE 0
        /\ \A i \in 1..Len(SubSeq(s, 1, k)) : SubSeq(s, 1, k)[i] = s[1 + i - 1]
    BY <1>1, Cut
  <1>3. /\ SubSeq(s, k + 1, Len(s)) \in Seq(S)
        /\ Len(SubSeq(s, k + 1, Len(s))) =
              IF k + 1 <= Len(s) THEN Len(s) - (k + 1) + 1 ELSE 0
        /\ \A i \in 1..Len(SubSeq(s, k + 1, Len(s))) :
              SubSeq(s, k + 1, Len(s))[i] = s[(k + 1) + i - 1]
    <2>1. k + 1 \in Nat /\ k + 1 >= 1 /\ Len(s) \in 0..Len(s)
      BY <1>1
    <2>2. QED
      BY <2>1, Cut
  <1>4. Len(SubSeq(s, 1, k)) = k /\ Len(SubSeq(s, k + 1, Len(s))) = Len(s) - k
    BY <1>1, <1>2, <1>3
  <1>5. \A i \in 1..k : SubSeq(s, 1, k)[i] = s[i]
    <2> TAKE i \in 1..k
    <2>1. 1 + i - 1 = i
      BY <1>1
    <2>2. QED
      BY <1>2, <1>4, <2>1
  <1>6. \A i \in 1..(Len(s) - k) : SubSeq(s, k + 1, Len(s))[i] = s[k + i]
    <2> TAKE i \in 1..(Len(s) - k)
    <2>1. (k + 1) + i - 1 = k + i
      BY <1>1
    <2>2. QED
      BY <1>3, <1>4, <2>1
  <1>7. QED
    BY <1>2, <1>3, <1>4, <1>5, <1>6

(* The message m holds the items us, which have the parts of list l.       *)
Tabled(m, us) == \A f \in ColumnFields : m[f] = Columns(us)[f]
Parted(l, us) == \A i \in DOMAIN us : HasParts(l, us[i])

(* The two parts of a list that is cut after the first k.                  *)
Begin(r, k) == SubSeq(r, 1, k)
End(r, k) == SubSeq(r, k + 1, Len(r))

(* What the server stores of two requests.                                 *)
Insertions == {AddToRequest, CreateContainerRequest}
Inserted(Q, m, R, n) == Unpack(Deliver(Q, m)) \o Unpack(Deliver(R, n))

(* What two requests store is what the items say.                          *)
LEMMA Stored ==
  ASSUME NEW l \in Lists, NEW r \in Seq(Items), Parted(l, r), NEW k \in 0..Len(r),
         NEW Q \in Insertions, NEW R \in Insertions,
         NEW m, Tabled(m, Begin(r, k)), NEW n, Tabled(n, End(r, k))
  PROVE  Inserted(Q, m, R, n) = SentAll(r)
  <1> DEFINE a == Begin(r, k)
             b == End(r, k)
  <1>1. Len(r) \in Nat /\ k \in Nat /\ k <= Len(r) /\ DOMAIN r = 1..Len(r)
    BY LenProperties
  <1>2. /\ a \in Seq(Items) /\ Len(a) = k /\ (\A i \in 1..k : a[i] = r[i])
        /\ b \in Seq(Items) /\ Len(b) = Len(r) - k
        /\ \A i \in 1..(Len(r) - k) : b[i] = r[k + i]
    BY TwoCuts DEF Begin, End
  <1> HIDE DEF a, b
  <1>3. DOMAIN a = 1..k /\ DOMAIN b = 1..(Len(r) - k)
    BY <1>2, LenProperties
  <1>4. \A i \in DOMAIN a : HasParts(l, a[i])
    BY <1>1, <1>2, <1>3 DEF Parted
  <1>5. \A i \in DOMAIN b : HasParts(l, b[i])
    <2> TAKE i \in DOMAIN b
    <2>1. i \in 1..(Len(r) - k) /\ k + i \in 1..Len(r)
      BY <1>1, <1>3
    <2>2. QED
      BY <1>1, <1>2, <2>1 DEF Parted
  <1>6. Unpack(Deliver(Q, m)) = SentAll(a)
    <2>1. \A f \in ColumnFields : m[f] = Columns(a)[f]
      BY DEF a, Tabled
    <2>2. QED
      BY <1>2, <1>4, <2>1, Unpacked DEF Insertions
  <1>7. Unpack(Deliver(R, n)) = SentAll(b)
    <2>1. \A f \in ColumnFields : n[f] = Columns(b)[f]
      BY DEF b, Tabled
    <2>2. QED
      BY <1>2, <1>5, <2>1, Unpacked DEF Insertions
  <1>8. /\ IsList(SentAll(a)) /\ Len(SentAll(a)) = k
        /\ IsList(SentAll(b)) /\ Len(SentAll(b)) = Len(r) - k
        /\ IsList(SentAll(r)) /\ Len(SentAll(r)) = Len(r)
    BY <1>2, SentList
  <1>9. /\ IsList(SentAll(a) \o SentAll(b)) /\ Len(SentAll(a) \o SentAll(b)) = Len(r)
        /\ \A i \in 1..Len(r) :
              (SentAll(a) \o SentAll(b))[i] =
                 IF i <= k THEN SentAll(a)[i] ELSE SentAll(b)[i - k]
    <2>1. k + (Len(r) - k) = Len(r)
      BY <1>1
    <2>2. QED
      BY <1>8, <2>1, Joined
  <1>10. \A i \in 1..Len(r) : (SentAll(a) \o SentAll(b))[i] = SentAll(r)[i]
    <2> TAKE i \in 1..Len(r)
    <2>1. CASE i <= k
      <3>1. i \in 1..k
        BY <1>1, <2>1
      <3>2. SentAll(a)[i] = Sent(r[i]) /\ SentAll(r)[i] = Sent(r[i])
        BY <1>1, <1>2, <1>3, <3>1 DEF SentAll
      <3>3. QED
        BY <1>9, <2>1, <3>2
    <2>2. CASE ~(i <= k)
      <3>1. i - k \in 1..(Len(r) - k) /\ k + (i - k) = i
        BY <1>1, <2>2
      <3>2. SentAll(b)[i - k] = Sent(r[i]) /\ SentAll(r)[i] = Sent(r[i])
        BY <1>1, <1>2, <1>3, <3>1 DEF SentAll
      <3>3. QED
        BY <1>9, <2>2, <3>2
    <2>3. QED
      BY <2>1, <2>2
  <1>11. SentAll(a) \o SentAll(b) = SentAll(r)
    BY <1>8, <1>9, <1>10, SameList
  <1>12. QED
    BY <1>6, <1>7, <1>11 DEF Inserted
-----------------------------------------------------------------------------
(* decodeBatch().                                                          *)

(* Its local results: of the values, the ordered values, the keys, and the *)
(* first error of an element.                                              *)
GoValues(b, c) == [i \in DOMAIN b.ValueUnordered |-> decodeValue(b.ValueUnordered[i], c)]
GoOrdered(b, c) == [i \in DOMAIN b.ValueOrdered |-> decodeOrdered(b.ValueOrdered[i], c)]
GoKeys(b, c) ==
    [i \in DOMAIN (b.KeyUnordered \o b.KeyOrdered) |->
        decodeKey((b.KeyUnordered \o b.KeyOrdered)[i], c)]
GoPairs(b, c) ==
    [i \in DOMAIN GoValues(b, c) |->
        IF GoValues(b, c)[i].code = "OK" /\ i \in DOMAIN GoKeys(b, c)
        THEN GoKeys(b, c)[i] ELSE GoValues(b, c)[i]]
Bad(all) == {i \in DOMAIN all : all[i].code # "OK"}

(* Four columns.                                                           *)
Batched(b) ==
    /\ IsList(b.KeyUnordered) /\ IsList(b.KeyOrdered)
    /\ IsList(b.ValueUnordered) /\ IsList(b.ValueOrdered)

Sound(b, c) ==
    /\ \A i \in DOMAIN b.ValueUnordered : GoValues(b, c)[i].code = "OK"
    /\ \A i \in DOMAIN b.ValueOrdered : GoOrdered(b, c)[i].code = "OK"
    /\ \A i \in DOMAIN b.ValueUnordered :
          i \in DOMAIN GoKeys(b, c) => GoKeys(b, c)[i].code = "OK"

(* A set of numbers with a member has a least one.                         *)
LEMMA LeastNat ==
  ASSUME NEW T \in SUBSET Nat, T # {}
  PROVE  Min(T) \in T
  <1> DEFINE R == OpToRel(<, Nat)
  <1>1. IsWellFoundedOn(R, Nat)
    BY NatLessThanWellFounded
  <1>2. \A x, y \in Nat : y < x => <<y, x>> \in R
    BY DEF OpToRel
  <1> HIDE DEF R
  <1>3. PICK x \in T : \A y \in T : ~(<<y, x>> \in R)
    BY <1>1, WFMin
  <1>4. \A y \in T : ~(y < x)
    BY <1>2, <1>3
  <1>5. \A y \in T : x <= y
    BY <1>4
  <1>6. QED
    BY <1>5 DEF Min

(* A list made place by place has the length of its source.                *)
LEMMA Mapped ==
  ASSUME NEW s, IsList(s), NEW f, f = [i \in DOMAIN s |-> f[i]]
  PROVE  IsList(f) /\ Len(f) = Len(s) /\ DOMAIN f = 1..Len(s)
  <1>1. Len(s) \in Nat /\ DOMAIN s = 1..Len(s)
    BY ListFacts
  <1>2. f = [i \in 1..Len(s) |-> f[i]]
    BY <1>1
  <1>3. /\ f \in Seq({f[i] : i \in 1..Len(s)}) /\ Len(f) = Len(s)
        /\ DOMAIN f = 1..Len(s)
    BY <1>1, <1>2, Listed
  <1>4. QED
    BY <1>3 DEF IsList

(* The local results of decodeBatch() are lists of their fields' lengths.  *)
LEMMA GoLists ==
  ASSUME NEW b, Batched(b), NEW c
  PROVE  /\ IsList(GoValues(b, c)) /\ Len(GoValues(b, c)) = Len(b.ValueUnordered)
         /\ IsList(GoOrdered(b, c)) /\ Len(GoOrdered(b, c)) = Len(b.ValueOrdered)
         /\ IsList(GoKeys(b, c))
         /\ Len(GoKeys(b, c)) = Len(b.KeyUnordered) + Len(b.KeyOrdered)
         /\ IsList(GoPairs(b, c)) /\ Len(GoPairs(b, c)) = Len(b.ValueUnordered)
  <1>1. IsList(GoValues(b, c)) /\ Len(GoValues(b, c)) = Len(b.ValueUnordered)
    <2>1. GoValues(b, c) = [i \in DOMAIN b.ValueUnordered |-> GoValues(b, c)[i]]
      BY DEF GoValues
    <2>2. QED
      BY <2>1, Mapped DEF Batched
  <1>2. IsList(GoOrdered(b, c)) /\ Len(GoOrdered(b, c)) = Len(b.ValueOrdered)
    <2>1. GoOrdered(b, c) = [i \in DOMAIN b.ValueOrdered |-> GoOrdered(b, c)[i]]
      BY DEF GoOrdered
    <2>2. QED
      BY <2>1, Mapped DEF Batched
  <1>3. IsList(GoKeys(b, c)) /\ Len(GoKeys(b, c)) = Len(b.KeyUnordered) + Len(b.KeyOrdered)
    <2> DEFINE k == b.KeyUnordered \o b.KeyOrdered
    <2>1. IsList(k) /\ Len(k) = Len(b.KeyUnordered) + Len(b.KeyOrdered)
      BY Joined DEF Batched
    <2>2. GoKeys(b, c) = [i \in DOMAIN k |-> GoKeys(b, c)[i]]
      BY DEF GoKeys
    <2> HIDE DEF k
    <2>3. QED
      BY <2>1, <2>2, Mapped
  <1>4. IsList(GoPairs(b, c)) /\ Len(GoPairs(b, c)) = Len(b.ValueUnordered)
    <2>1. GoPairs(b, c) = [i \in DOMAIN GoValues(b, c) |-> GoPairs(b, c)[i]]
      BY DEF GoPairs
    <2>2. QED
      BY <1>1, <2>1, Mapped
  <1>5. QED
    BY <1>1, <1>2, <1>3, <1>4

(* An element is in error exactly when the batch is not sound.             *)
LEMMA BadIff ==
  ASSUME NEW b, Batched(b), NEW c
  PROVE  Bad(GoPairs(b, c) \o GoOrdered(b, c)) = {} <=> Sound(b, c)
  <1> DEFINE v == GoValues(b, c)
             o == GoOrdered(b, c)
             k == GoKeys(b, c)
             p == GoPairs(b, c)
             all == p \o o
  <1>1. /\ IsList(p) /\ IsList(o) /\ Len(p) = Len(v) /\ Len(v) \in Nat /\ Len(o) \in Nat
        /\ DOMAIN b.ValueUnordered = 1..Len(v) /\ DOMAIN b.ValueOrdered = 1..Len(o)
        /\ DOMAIN v = 1..Len(v)
    <2>1. /\ IsList(v) /\ Len(v) = Len(b.ValueUnordered)
          /\ IsList(o) /\ Len(o) = Len(b.ValueOrdered)
          /\ IsList(p) /\ Len(p) = Len(b.ValueUnordered)
          /\ IsList(b.ValueUnordered) /\ IsList(b.ValueOrdered)
      BY GoLists DEF Batched
    <2> HIDE DEF v, o, p
    <2>2. QED
      BY <2>1, ListFacts
  <1>2. \A i \in 1..Len(v) :
           p[i] = IF v[i].code = "OK" /\ i \in DOMAIN k THEN k[i] ELSE v[i]
    BY <1>1 DEF GoPairs
  <1> HIDE DEF v, o, k, p
  <1>3. /\ DOMAIN all = 1..(Len(v) + Len(o))
        /\ \A i \in 1..(Len(v) + Len(o)) : all[i] = IF i <= Len(v) THEN p[i] ELSE o[i - Len(v)]
    BY <1>1, Joined
  <1> HIDE DEF all
  <1>4. ASSUME Bad(all) = {}
        PROVE  /\ \A i \in 1..Len(v) : p[i].code = "OK"
               /\ \A i \in 1..Len(o) : o[i].code = "OK"
    <2>1. \A i \in 1..(Len(v) + Len(o)) : all[i].code = "OK"
      BY <1>3, <1>4 DEF Bad
    <2>2. \A i \in 1..Len(v) : p[i].code = "OK"
      <3> TAKE i \in 1..Len(v)
      <3>1. i \in 1..(Len(v) + Len(o)) /\ i <= Len(v)
        BY <1>1
      <3>2. QED
        BY <1>3, <2>1, <3>1
    <2>3. \A i \in 1..Len(o) : o[i].code = "OK"
      <3> TAKE i \in 1..Len(o)
      <3>1. /\ Len(v) + i \in 1..(Len(v) + Len(o)) /\ ~(Len(v) + i <= Len(v))
            /\ (Len(v) + i) - Len(v) = i
        BY <1>1
      <3>2. QED
        BY <1>3, <2>1, <3>1
    <2>4. QED
      BY <2>2, <2>3
  <1>5. ASSUME \A i \in 1..Len(v) : p[i].code = "OK",
               \A i \in 1..Len(o) : o[i].code = "OK"
        PROVE  Bad(all) = {}
    <2>1. \A i \in 1..(Len(v) + Len(o)) : all[i].code = "OK"
      <3> TAKE i \in 1..(Len(v) + Len(o))
      <3>1. i <= Len(v) => i \in 1..Len(v)
        BY <1>1
      <3>2. ~(i <= Len(v)) => i - Len(v) \in 1..Len(o)
        BY <1>1
      <3>3. QED
        BY <1>3, <1>5, <3>1, <3>2
    <2>2. QED
      BY <1>3, <2>1 DEF Bad
  <1>6. (\A i \in 1..Len(v) : p[i].code = "OK") <=>
           /\ \A i \in 1..Len(v) : v[i].code = "OK"
           /\ \A i \in 1..Len(v) : i \in DOMAIN k => k[i].code = "OK"
    BY <1>2
  <1>7. Sound(b, c) <=>
           /\ \A i \in 1..Len(v) : v[i].code = "OK"
           /\ \A i \in 1..Len(o) : o[i].code = "OK"
           /\ \A i \in 1..Len(v) : i \in DOMAIN k => k[i].code = "OK"
    BY <1>1 DEF Sound, v, o, k
  <1>8. Bad(all) = {} <=> Sound(b, c)
    BY <1>4, <1>5, <1>6, <1>7
  <1>9. QED
    BY <1>8 DEF all, p, o

(* The lists of a batch without an error.                                  *)
Gathered(b, c) ==
    LET values == GoValues(b, c)
        ordered == GoOrdered(b, c)
        keys == GoKeys(b, c)
        n == Len(values)
        plain == [i \in 1..n |-> values[i].value]
        m == IF Len(keys) < n THEN Len(keys) ELSE n
    IN  Concat(
           Only("OrderedValues", [i \in DOMAIN ordered |-> ordered[i].value]),
           IF b.KeyUnordered # <<>>
           THEN Only("Entries", [i \in 1..m |->
                   [Key |-> keys[i].value, Value |-> plain[i]]])
           ELSE IF b.KeyOrdered # <<>>
           THEN Only("OrderedEntries", [i \in 1..m |->
                   [Key |-> OrderedPayload(keys[i].value, b.KeyOrdered[i].Order),
                    Value |-> plain[i]]])
           ELSE Only("Values", plain))

(* decodeBatch() in terms of its local results.                            *)
LEMMA DecodeUnfolded ==
  ASSUME NEW b, NEW c
  PROVE  LET all == GoPairs(b, c) \o GoOrdered(b, c)
         IN  decodeBatch(b, c) =
               IF Unpaired(b) THEN Err("DataLoss")
               ELSE IF Bad(all) # {} THEN all[Min(Bad(all))]
               ELSE Ok(Gathered(b, c))
  BY DEF decodeBatch, GoPairs, GoOrdered, GoKeys, GoValues, Bad, Gathered

(* One element that cannot be decoded is enough for an error.              *)
LEMMA DecodeRefused ==
  ASSUME NEW b, Batched(b), NEW c, Unpaired(b) \/ ~Sound(b, c)
  PROVE  decodeBatch(b, c).code # "OK"
  <1> DEFINE all == GoPairs(b, c) \o GoOrdered(b, c)
  <1>1. decodeBatch(b, c) =
          IF Unpaired(b) THEN Err("DataLoss")
          ELSE IF Bad(all) # {} THEN all[Min(Bad(all))]
          ELSE Ok(Gathered(b, c))
    BY DecodeUnfolded
  <1>2. Bad(all) = {} <=> Sound(b, c)
    BY BadIff
  <1>3. IsList(all)
    BY GoLists, Joined
  <1> HIDE DEF all
  <1>4. Bad(all) \in SUBSET Nat
    BY <1>3, ListFacts DEF Bad
  <1>5. Bad(all) # {} => all[Min(Bad(all))].code # "OK"
    <2>1. Bad(all) # {} => Min(Bad(all)) \in Bad(all)
      BY <1>4, LeastNat
    <2>2. QED
      BY <2>1 DEF Bad
  <1>6. Err("DataLoss").code # "OK"
    BY DEF Err, Result
  <1>7. QED
    BY <1>1, <1>2, <1>5, <1>6

(* Without one, and with keys and values paired, there is none.            *)
LEMMA DecodeAccepted ==
  ASSUME NEW b, Batched(b), NEW c, ~Unpaired(b), Sound(b, c)
  PROVE  decodeBatch(b, c) = Ok(Gathered(b, c))
  BY DecodeUnfolded, BadIff

(* One filled list beside empty ones.                                      *)
LEMMA OnlyList ==
  ASSUME NEW l \in Lists, NEW m \in Lists, NEW s, IsList(s)
  PROVE  /\ Concat(Only(l, s), Only(m, <<>>)) = Only(l, s)
         /\ Concat(Only(m, <<>>), Only(l, s)) = Only(l, s)
  <1>1. s \o <<>> = s /\ <<>> \o s = s /\ <<>> \o <<>> = <<>>
    BY ConcatEmptySeq, EmptySeq DEF IsList
  <1>2. \A n \in Lists : /\ Only(l, s)[n] = IF n = l THEN s ELSE <<>>
                         /\ Only(m, <<>>)[n] = <<>>
    BY DEF Only, NoData
  <1>3. Only(l, s) = [n \in Lists |-> Only(l, s)[n]]
    BY DEF Only, NoData
  <1>4. \A n \in Lists : /\ Only(l, s)[n] \o Only(m, <<>>)[n] = Only(l, s)[n]
                         /\ Only(m, <<>>)[n] \o Only(l, s)[n] = Only(l, s)[n]
    BY <1>1, <1>2
  <1> HIDE DEF Only
  <1>5. QED
    BY <1>3, <1>4 DEF Concat
-----------------------------------------------------------------------------
(* What a reader sees of an item.                                          *)

(* A payload with its fields one by one, and the same with a weight.       *)
Six(d, x, k, h, z, id) ==
    [Data |-> d, ExpiresAtMillis |-> x, Lock |-> k, Hint |-> h,
     Compression |-> z, ClientID |-> id]
Seven(d, x, k, h, z, id, o) ==
    [Data |-> d, ExpiresAtMillis |-> x, Lock |-> k, Hint |-> h,
     Compression |-> z, ClientID |-> id, Order |-> o]

(* Seen and SeenKey of Collect, for a session s and an expiration ttl.     *)
ShownKey(k, s) == Six(k.Data, Nil, Nil, k.Hint, Nil, KeyOwner(s, k))
Shown(l, p, s, ttl) ==
    CASE l = "Values" -> SeenValue(p, ttl)
      [] l = "OrderedValues" -> Weighted(SeenValue(p, ttl), p.Order)
      [] l = "Entries" ->
            [Key |-> ShownKey(p.Key, s), Value |-> SeenValue(p.Value, ttl)]
      [] l = "OrderedEntries" ->
            [Key |-> Weighted(ShownKey(p.Key, s), p.Key.Order),
             Value |-> SeenValue(p.Value, ttl)]

(* The item carries what a reader should see as e.                         *)
Means(l, it, e, s, ttl) ==
    \E p \in Elements(l) : Carries(l, it, p, s, ttl) /\ e = Shown(l, p, s, ttl)

(* Another note on how the bytes arrived.                                  *)
Noted(v, y) == [v EXCEPT !.Compression = y]

(* A weight and another note change nothing else of a payload.             *)
LEMMA SixSeven ==
  ASSUME NEW d, NEW x, NEW k, NEW h, NEW z, NEW id, NEW o, NEW y
  PROVE  /\ OrderedPayload(Six(d, x, k, h, z, id), o) = Seven(d, x, k, h, z, id, o)
         /\ Noted(Six(d, x, k, h, z, id), y) = Six(d, x, k, h, y, id)
         /\ Noted(Seven(d, x, k, h, z, id, o), y) = Seven(d, x, k, h, y, id, o)
  BY DEF Six, Seven, OrderedPayload, ++, Noted

(* The fields of SeenValue.                                                *)
LEMMA SeenFields ==
  ASSUME NEW p, NEW ttl
  PROVE  SeenValue(p, ttl) =
            Six(p.Data, IF p.ExpiresAtMillis # Nil THEN p.ExpiresAtMillis ELSE ttl,
                p.Lock, Nil, Nil, Nil)
  <1> DEFINE t == IF p.ExpiresAtMillis # Nil THEN p.ExpiresAtMillis ELSE ttl
             v == SeenValue(p, ttl)
  <1>1. v = [[Data |-> p.Data, ExpiresAtMillis |-> Nil, Lock |-> Nil, Hint |-> Nil,
              Compression |-> Nil, ClientID |-> Nil]
               EXCEPT !.ExpiresAtMillis = t, !.Lock = p.Lock]
    BY DEF SeenValue, Payload
  <1> HIDE DEF t, v
  <1>2. /\ DOMAIN v = {"Data", "ExpiresAtMillis", "Lock", "Hint", "Compression", "ClientID"}
        /\ v.Data = p.Data /\ v.ExpiresAtMillis = t /\ v.Lock = p.Lock /\ v.Hint = Nil
        /\ v.Compression = Nil /\ v.ClientID = Nil /\ v = [f \in DOMAIN v |-> v[f]]
    BY <1>1
  <1>3. v = Six(p.Data, t, p.Lock, Nil, Nil, Nil)
    BY <1>2 DEF Six
  <1>4. QED
    BY <1>3 DEF v, t

(* The fields of a key that was read.                                      *)
LEMMA NotedFields ==
  ASSUME NEW d, NEW h, NEW id, NEW z
  PROVE  KeyNoted(d, h, id, z) = Six(d, Nil, Nil, h, z, id)
  <1> DEFINE w == KeyNoted(d, h, id, z)
  <1>1. /\ DOMAIN w = {"Data", "ExpiresAtMillis", "Lock", "Hint", "Compression", "ClientID"}
        /\ w.Data = d /\ w.ExpiresAtMillis = Nil /\ w.Lock = Nil /\ w.Hint = h
        /\ w.Compression = z /\ w.ClientID = id /\ w = [f \in DOMAIN w |-> w[f]]
    BY DEF KeyNoted, Payload
  <1> HIDE DEF w
  <1>2. w = Six(d, Nil, Nil, h, z, id)
    BY <1>1 DEF Six
  <1>3. QED
    BY <1>2 DEF w

(* The weight that is read is the one written, zero for none.              *)
LEMMA WeightPlainly ==
  ASSUME NEW d, NEW x, NEW k, NEW h, NEW z, NEW id, NEW o
  PROVE  Noted(OrderedPayload(Six(d, x, k, h, z, id), OrderOrZero(o)), Nil) =
            Weighted(Six(d, x, k, h, Nil, id), o)
  <1>1. OrderedPayload(Six(d, x, k, h, z, id), OrderOrZero(o)) =
           Seven(d, x, k, h, z, id, OrderOrZero(o))
    BY SixSeven
  <1>2. Weighted(Six(d, x, k, h, Nil, id), o) =
           OrderedPayload(Six(d, x, k, h, Nil, id), OrderOrZero(o))
    BY DEF Weighted, OrderOrZero, OrderedPayload
  <1>3. Weighted(Six(d, x, k, h, Nil, id), o) = Seven(d, x, k, h, Nil, id, OrderOrZero(o))
    BY <1>2, SixSeven
  <1>4. QED
    BY <1>1, <1>3, SixSeven

(* A value that says p is read as p, but for the note on the bytes.        *)
LEMMA ValueShown ==
  ASSUME NEW v \in ValueMessages(Data) \cup OrderedValueMessages(Data),
         NEW p, ValueFields(p), NEW ttl, NEW c, SaysValue(v, p, ttl, c)
  PROVE  /\ decodeValue(v, c).code = "OK"
         /\ Noted(decodeValue(v, c).value, Nil) = SeenValue(p, ttl)
         /\ \A o : Noted(OrderedPayload(decodeValue(v, c).value, OrderOrZero(o)), Nil) =
                     Weighted(SeenValue(p, ttl), o)
  <1> DEFINE t == IF p.ExpiresAtMillis # Nil THEN p.ExpiresAtMillis ELSE ttl
             z == compressionGo(v.CompressionInfo)
             x == decodeValue(v, c).value
  <1>1. decodeValue(v, c).code = "OK" /\ x = Noted(SeenValue(p, ttl), z)
    BY ValueRead DEF Noted
  <1>2. SeenValue(p, ttl) = Six(p.Data, t, p.Lock, Nil, Nil, Nil)
    BY SeenFields
  <1> HIDE DEF t, z, x
  <1>3. x = Six(p.Data, t, p.Lock, Nil, z, Nil)
    BY <1>1, <1>2, SixSeven
  <1>4. Noted(x, Nil) = SeenValue(p, ttl)
    BY <1>2, <1>3, SixSeven
  <1>5. \A o : Noted(OrderedPayload(x, OrderOrZero(o)), Nil) = Weighted(SeenValue(p, ttl), o)
    BY <1>2, <1>3, WeightPlainly
  <1>6. QED
    BY <1>1, <1>4, <1>5 DEF x

(* A key that says p is read as p with its owner.                          *)
LEMMA KeyShown ==
  ASSUME NEW k \in KeyMessages(Data) \cup OrderedKeyMessages(Data),
         NEW p, KeyFields(p), NEW s, NEW c, SaysKey(k, p, KeyOwner(s, p), c)
  PROVE  /\ decodeKey(k, c).code = "OK"
         /\ Noted(decodeKey(k, c).value, Nil) = ShownKey(p, s)
         /\ \A o : Noted(OrderedPayload(decodeKey(k, c).value, OrderOrZero(o)), Nil) =
                     Weighted(ShownKey(p, s), o)
  <1> DEFINE z == compressionGo(k.CompressionInfo)
             x == decodeKey(k, c).value
             id == KeyOwner(s, p)
  <1>1. decodeKey(k, c).code = "OK" /\ x = KeyNoted(p.Data, p.Hint, id, z)
    BY KeyRead
  <1>2. ShownKey(p, s) = Six(p.Data, Nil, Nil, p.Hint, Nil, id)
    BY DEF ShownKey
  <1>3. x = Six(p.Data, Nil, Nil, p.Hint, z, id)
    BY <1>1, NotedFields
  <1> HIDE DEF z, x, id
  <1>4. Noted(x, Nil) = ShownKey(p, s)
    BY <1>2, <1>3, SixSeven
  <1>5. \A o : Noted(OrderedPayload(x, OrderOrZero(o)), Nil) = Weighted(ShownKey(p, s), o)
    BY <1>2, <1>3, WeightPlainly
  <1>6. QED
    BY <1>1, <1>4, <1>5 DEF x

(* Plainly leaves out the note of a value, or of a key and its value.      *)
LEMMA PlainlyNoted ==
  ASSUME NEW k, NEW v
  PROVE  /\ \A l \in {"Values", "OrderedValues"} : Plainly(l, v) = Noted(v, Nil)
         /\ \A l \in {"Entries", "OrderedEntries"} :
               Plainly(l, [Key |-> k, Value |-> v]) =
                  [Key |-> Noted(k, Nil), Value |-> Noted(v, Nil)]
  BY DEF Plainly, Noted

(* The results of the codec for an item and what they show.                *)
Reads(l, it, e, c) ==
    /\ l = "OrderedValues" =>
          /\ decodeOrdered(it.orderedValue, c).code = "OK"
          /\ Plainly(l, decodeOrdered(it.orderedValue, c).value) = e
    /\ l # "OrderedValues" => decodeValue(it.value, c).code = "OK"
    /\ l = "Values" => Plainly(l, decodeValue(it.value, c).value) = e
    /\ l = "Entries" =>
          /\ decodeKey(it.key, c).code = "OK"
          /\ Plainly(l, [Key |-> decodeKey(it.key, c).value,
                         Value |-> decodeValue(it.value, c).value]) = e
    /\ l = "OrderedEntries" =>
          /\ decodeKey(it.orderedKey, c).code = "OK"
          /\ Plainly(l, [Key |-> OrderedPayload(decodeKey(it.orderedKey, c).value,
                                                it.orderedKey.Order),
                         Value |-> decodeValue(it.value, c).value]) = e

(* An item that means e is decoded to e.                                   *)
LEMMA ItemRead ==
  ASSUME NEW l \in Lists, NEW it, NEW e, NEW s, NEW ttl, Means(l, it, e, s, ttl)
  PROVE  HasParts(l, it) /\ Reads(l, it, e, s.config)
  <1> DEFINE c == s.config
  <1>1. PICK p \in Elements(l) : Carries(l, it, p, s, ttl) /\ e = Shown(l, p, s, ttl)
    BY DEF Means
  <1>2. ElementFields(l, p)
    BY ElementsTyped
  <1>3. HasParts(l, it)
    BY <1>1 DEF Carries
  <1>4. /\ l = "Entries" => it.key \in KeyMessages(Data)
        /\ l = "OrderedEntries" => it.orderedKey \in OrderedKeyMessages(Data)
        /\ l # "OrderedValues" => it.value \in ValueMessages(Data)
        /\ l = "OrderedValues" => it.orderedValue \in OrderedValueMessages(Data)
    BY <1>3 DEF HasParts, Items, Pointer
  <1>5. CASE l = "Values"
    <2>1. ValueFields(p) /\ SaysValue(it.value, p, ttl, c) /\ e = SeenValue(p, ttl)
      BY <1>1, <1>2, <1>5 DEF ElementFields, Carries, Shown
    <2>2. /\ decodeValue(it.value, c).code = "OK"
          /\ Noted(decodeValue(it.value, c).value, Nil) = e
      BY <1>4, <1>5, <2>1, ValueShown
    <2>3. QED
      BY <1>3, <1>5, <2>2, PlainlyNoted DEF Reads
  <1>6. CASE l = "OrderedValues"
    <2> DEFINE v == it.orderedValue
    <2>1. /\ ValueFields(p) /\ SaysValue(v, p, ttl, c) /\ v.Order = OrderOrZero(p.Order)
          /\ e = Weighted(SeenValue(p, ttl), p.Order)
      BY <1>1, <1>2, <1>6 DEF ElementFields, Carries, Shown
    <2>2. v # Nil
      BY <1>4, <1>6, NilFacts DEF NilApart
    <2> HIDE DEF v
    <2>3. v \in OrderedValueMessages(Data)
      BY <1>4, <1>6 DEF v
    <2>4. /\ decodeValue(v, c).code = "OK"
          /\ Noted(OrderedPayload(decodeValue(v, c).value, OrderOrZero(p.Order)), Nil) = e
      BY <2>1, <2>3, ValueShown
    <2>5. decodeOrdered(v, c) = Ok(OrderedPayload(decodeValue(v, c).value, v.Order))
      BY <2>2, <2>4 DEF decodeOrdered
    <2>6. /\ decodeOrdered(v, c).code = "OK"
          /\ decodeOrdered(v, c).value =
                OrderedPayload(decodeValue(v, c).value, OrderOrZero(p.Order))
      BY <2>1, <2>5 DEF Ok, Result
    <2>7. Plainly(l, decodeOrdered(v, c).value) = e
      BY <1>6, <2>4, <2>6, PlainlyNoted
    <2>8. QED
      BY <1>3, <1>6, <2>6, <2>7 DEF v, Reads
  <1>7. CASE l = "Entries"
    <2>1. /\ KeyFields(p.Key) /\ ValueFields(p.Value)
          /\ SaysKey(it.key, p.Key, KeyOwner(s, p.Key), c)
          /\ SaysValue(it.value, p.Value, ttl, c)
          /\ e = [Key |-> ShownKey(p.Key, s), Value |-> SeenValue(p.Value, ttl)]
      BY <1>1, <1>2, <1>7 DEF ElementFields, Carries, Shown
    <2>2. /\ decodeValue(it.value, c).code = "OK"
          /\ Noted(decodeValue(it.value, c).value, Nil) = SeenValue(p.Value, ttl)
      BY <1>4, <1>7, <2>1, ValueShown
    <2>3. /\ decodeKey(it.key, c).code = "OK"
          /\ Noted(decodeKey(it.key, c).value, Nil) = ShownKey(p.Key, s)
      BY <1>4, <1>7, <2>1, KeyShown
    <2>4. QED
      BY <1>3, <1>7, <2>1, <2>2, <2>3, PlainlyNoted DEF Reads
  <1>8. CASE l = "OrderedEntries"
    <2>1. /\ KeyFields(p.Key) /\ ValueFields(p.Value)
          /\ SaysKey(it.orderedKey, p.Key, KeyOwner(s, p.Key), c)
          /\ it.orderedKey.Order = OrderOrZero(p.Key.Order)
          /\ SaysValue(it.value, p.Value, ttl, c)
          /\ e = [Key |-> Weighted(ShownKey(p.Key, s), p.Key.Order),
                  Value |-> SeenValue(p.Value, ttl)]
      BY <1>1, <1>2, <1>8 DEF ElementFields, Carries, Shown
    <2>2. /\ decodeValue(it.value, c).code = "OK"
          /\ Noted(decodeValue(it.value, c).value, Nil) = SeenValue(p.Value, ttl)
      BY <1>4, <1>8, <2>1, ValueShown
    <2>3. /\ decodeKey(it.orderedKey, c).code = "OK"
          /\ Noted(OrderedPayload(decodeKey(it.orderedKey, c).value,
                                  OrderOrZero(p.Key.Order)), Nil) =
                Weighted(ShownKey(p.Key, s), p.Key.Order)
      BY <1>4, <1>8, <2>1, KeyShown
    <2>4. QED
      BY <1>3, <1>8, <2>1, <2>2, <2>3, PlainlyNoted DEF Reads
  <1>9. QED
    BY <1>5, <1>6, <1>7, <1>8 DEF Lists
-----------------------------------------------------------------------------
(* Batches.                                                                *)

(* An item of the server is sent as it is.                                 *)
LEMMA CarriedStable ==
  ASSUME NEW l \in Lists, NEW it, NEW p, NEW s, NEW ttl, Carries(l, it, p, s, ttl)
  PROVE  Sent(it) = it
  <1>1. /\ HasParts(l, it) /\ it \in Items
        /\ it = [key |-> it.key, orderedKey |-> it.orderedKey, value |-> it.value,
                 orderedValue |-> it.orderedValue]
    BY DEF Carries, HasParts, Items
  <1>2. ASSUME it.key # Nil PROVE Nested(Key, it.key) = it.key
    <2>1. l = "Entries" /\ it.key \in KeyMessages(Data)
      BY <1>1, <1>2 DEF HasParts, Items, Pointer
    <2>2. Wired(it.key.Payload) = it.key.Payload
      BY <2>1 DEF Carries, SaysKey, Readable
    <2>3. QED
      BY <2>1, <2>2, NestedKey DEF KeyMessages
  <1>3. ASSUME it.orderedKey # Nil PROVE Nested(OrderedKey, it.orderedKey) = it.orderedKey
    <2>1. l = "OrderedEntries" /\ it.orderedKey \in OrderedKeyMessages(Data)
      BY <1>1, <1>3 DEF HasParts, Items, Pointer
    <2>2. Wired(it.orderedKey.Payload) = it.orderedKey.Payload
      BY <2>1 DEF Carries, SaysKey, Readable
    <2>3. QED
      BY <2>1, <2>2, NestedOrderedKey DEF OrderedKeyMessages
  <1>4. ASSUME it.value # Nil PROVE Nested(Value, it.value) = it.value
    <2>1. l # "OrderedValues" /\ it.value \in ValueMessages(Data)
      BY <1>1, <1>4 DEF HasParts, Items, Pointer
    <2>2. Wired(it.value.Value) = it.value.Value
      BY <2>1 DEF Carries, SaysValue, Readable, Lists
    <2>3. QED
      BY <2>1, <2>2, NestedValue DEF ValueMessages
  <1>5. ASSUME it.orderedValue # Nil
        PROVE  Nested(OrderedValue, it.orderedValue) = it.orderedValue
    <2>1. l = "OrderedValues" /\ it.orderedValue \in OrderedValueMessages(Data)
      BY <1>1, <1>5 DEF HasParts, Items, Pointer
    <2>2. Wired(it.orderedValue.Value) = it.orderedValue.Value
      BY <2>1 DEF Carries, SaysValue, Readable
    <2>3. QED
      BY <2>1, <2>2, NestedOrderedValue DEF OrderedValueMessages
  <1>6. Sent(it) = [key |-> it.key, orderedKey |-> it.orderedKey, value |-> it.value,
                    orderedValue |-> it.orderedValue]
    BY <1>2, <1>3, <1>4, <1>5 DEF Sent
  <1>7. QED
    BY <1>1, <1>6

(* The columns of us, as they are.                                         *)
HasColumns(b, l, us) ==
    /\ b.KeyUnordered = Part(us, "key", l = "Entries")
    /\ b.KeyOrdered = Part(us, "orderedKey", l = "OrderedEntries")
    /\ b.ValueUnordered = Part(us, "value", l # "OrderedValues")
    /\ b.ValueOrdered = Part(us, "orderedValue", l = "OrderedValues")

AllMean(l, us, es, s, ttl) == \A i \in DOMAIN us : Means(l, us[i], es[i], s, ttl)

(* A batch of items of the server arrives as it was sent.                  *)
LEMMA BatchDelivered ==
  ASSUME NEW l \in Lists, NEW us \in Seq(Items), NEW es, NEW s, NEW ttl,
         AllMean(l, us, es, s, ttl)
  PROVE  /\ HasColumns(Columns(us), l, us)
         /\ HasColumns(Deliver(BatchValueResponse, Columns(us)), l, us)
  <1>1. \A i \in DOMAIN us : HasParts(l, us[i]) /\ Sent(us[i]) = us[i]
    BY CarriedStable DEF AllMean, Means, Carries
  <1>2. DOMAIN us = 1..Len(us)
    BY LenProperties
  <1>3. SentAll(us) = us
    <2>1. us = [i \in DOMAIN us |-> us[i]]
      OBVIOUS
    <2>2. QED
      BY <1>1, <2>1 DEF SentAll
  <1>4. HasColumns(Columns(us), l, us)
    BY <1>1, ColumnsOf DEF HasColumns
  <1>5. QED
    BY <1>1, <1>3, <1>4, ColumnsReceived DEF HasColumns

(* A column of a list of items is a list.                                  *)
LEMMA PartList ==
  ASSUME NEW us \in Seq(Items), NEW part, NEW present \in BOOLEAN
  PROVE  /\ IsList(Part(us, part, present))
         /\ Len(Part(us, part, present)) = IF present THEN Len(us) ELSE 0
         /\ present => /\ DOMAIN Part(us, part, present) = 1..Len(us)
                       /\ \A i \in 1..Len(us) : Part(us, part, present)[i] = us[i][part]
         /\ ~present => Part(us, part, present) = <<>>
  <1>0. DOMAIN us = 1..Len(us) /\ Len(us) \in Nat /\ IsList(us)
    BY LenProperties DEF IsList
  <1>1. CASE present
    <2> DEFINE f == Part(us, part, present)
    <2>1. f = [i \in DOMAIN us |-> us[i][part]]
      BY <1>1 DEF Part
    <2> HIDE DEF f
    <2>2. f = [i \in DOMAIN us |-> f[i]]
      BY <2>1
    <2>3. IsList(f) /\ Len(f) = Len(us) /\ DOMAIN f = 1..Len(us)
      BY <1>0, <2>2, Mapped
    <2>4. \A i \in 1..Len(us) : f[i] = us[i][part]
      BY <1>0, <2>1
    <2>5. QED
      BY <1>1, <2>3, <2>4 DEF f
  <1>2. CASE ~present
    <2>1. Part(us, part, present) = <<>>
      BY <1>2 DEF Part
    <2>2. IsList(<<>>) /\ Len(<<>>) = 0
      BY EmptySeq DEF IsList
    <2>3. QED
      BY <1>2, <2>1, <2>2
  <1>3. QED
    BY <1>1, <1>2

(* The four columns, by the list.                                          *)
LEMMA ColumnFacts ==
  ASSUME NEW l \in Lists, NEW us \in Seq(Items), NEW b, HasColumns(b, l, us)
  PROVE  /\ Batched(b) /\ ~Unpaired(b)
         /\ l = "Entries" =>
               /\ DOMAIN b.KeyUnordered = 1..Len(us)
               /\ \A i \in 1..Len(us) : b.KeyUnordered[i] = us[i].key
         /\ l # "Entries" => b.KeyUnordered = <<>>
         /\ l = "OrderedEntries" =>
               /\ DOMAIN b.KeyOrdered = 1..Len(us)
               /\ \A i \in 1..Len(us) : b.KeyOrdered[i] = us[i].orderedKey
         /\ l # "OrderedEntries" => b.KeyOrdered = <<>>
         /\ l # "OrderedValues" =>
               /\ DOMAIN b.ValueUnordered = 1..Len(us)
               /\ \A i \in 1..Len(us) : b.ValueUnordered[i] = us[i].value
         /\ l = "OrderedValues" => b.ValueUnordered = <<>>
         /\ l = "OrderedValues" =>
               /\ DOMAIN b.ValueOrdered = 1..Len(us)
               /\ \A i \in 1..Len(us) : b.ValueOrdered[i] = us[i].orderedValue
         /\ l # "OrderedValues" => b.ValueOrdered = <<>>
  <1>1. /\ IsList(b.KeyUnordered) /\ Len(b.KeyUnordered) = IF l = "Entries" THEN Len(us) ELSE 0
        /\ l = "Entries" => /\ DOMAIN b.KeyUnordered = 1..Len(us)
                            /\ \A i \in 1..Len(us) : b.KeyUnordered[i] = us[i]["key"]
        /\ l # "Entries" => b.KeyUnordered = <<>>
    <2> DEFINE present == l = "Entries"
    <2>1. b.KeyUnordered = Part(us, "key", present) /\ present \in BOOLEAN
      BY DEF HasColumns
    <2>2. /\ IsList(b.KeyUnordered) /\ Len(b.KeyUnordered) = IF present THEN Len(us) ELSE 0
          /\ present => /\ DOMAIN b.KeyUnordered = 1..Len(us)
                        /\ \A i \in 1..Len(us) : b.KeyUnordered[i] = us[i]["key"]
          /\ ~present => b.KeyUnordered = <<>>
      <3> HIDE DEF present
      <3>1. QED
        BY <2>1, PartList
    <2>3. QED
      BY <2>2
  <1>2. /\ IsList(b.KeyOrdered)
        /\ Len(b.KeyOrdered) = IF l = "OrderedEntries" THEN Len(us) ELSE 0
        /\ l = "OrderedEntries" =>
              /\ DOMAIN b.KeyOrdered = 1..Len(us)
              /\ \A i \in 1..Len(us) : b.KeyOrdered[i] = us[i]["orderedKey"]
        /\ l # "OrderedEntries" => b.KeyOrdered = <<>>
    <2> DEFINE present == l = "OrderedEntries"
    <2>1. b.KeyOrdered = Part(us, "orderedKey", present) /\ present \in BOOLEAN
      BY DEF HasColumns
    <2>2. /\ IsList(b.KeyOrdered) /\ Len(b.KeyOrdered) = IF present THEN Len(us) ELSE 0
          /\ present => /\ DOMAIN b.KeyOrdered = 1..Len(us)
                        /\ \A i \in 1..Len(us) : b.KeyOrdered[i] = us[i]["orderedKey"]
          /\ ~present => b.KeyOrdered = <<>>
      <3> HIDE DEF present
      <3>1. QED
        BY <2>1, PartList
    <2>3. QED
      BY <2>2
  <1>3. /\ IsList(b.ValueUnordered)
        /\ Len(b.ValueUnordered) = IF l # "OrderedValues" THEN Len(us) ELSE 0
        /\ l # "OrderedValues" =>
              /\ DOMAIN b.ValueUnordered = 1..Len(us)
              /\ \A i \in 1..Len(us) : b.ValueUnordered[i] = us[i]["value"]
        /\ l = "OrderedValues" => b.ValueUnordered = <<>>
    <2> DEFINE present == l # "OrderedValues"
    <2>1. b.ValueUnordered = Part(us, "value", present) /\ present \in BOOLEAN
      BY DEF HasColumns
    <2>2. /\ IsList(b.ValueUnordered) /\ Len(b.ValueUnordered) = IF present THEN Len(us) ELSE 0
          /\ present => /\ DOMAIN b.ValueUnordered = 1..Len(us)
                        /\ \A i \in 1..Len(us) : b.ValueUnordered[i] = us[i]["value"]
          /\ ~present => b.ValueUnordered = <<>>
      <3> HIDE DEF present
      <3>1. QED
        BY <2>1, PartList
    <2>3. QED
      BY <2>2
  <1>4. /\ IsList(b.ValueOrdered)
        /\ l = "OrderedValues" =>
              /\ DOMAIN b.ValueOrdered = 1..Len(us)
              /\ \A i \in 1..Len(us) : b.ValueOrdered[i] = us[i]["orderedValue"]
        /\ l # "OrderedValues" => b.ValueOrdered = <<>>
    <2> DEFINE present == l = "OrderedValues"
    <2>1. b.ValueOrdered = Part(us, "orderedValue", present) /\ present \in BOOLEAN
      BY DEF HasColumns
    <2>2. /\ IsList(b.ValueOrdered)
          /\ present => /\ DOMAIN b.ValueOrdered = 1..Len(us)
                        /\ \A i \in 1..Len(us) : b.ValueOrdered[i] = us[i]["orderedValue"]
          /\ ~present => b.ValueOrdered = <<>>
      <3> HIDE DEF present
      <3>1. QED
        BY <2>1, PartList
    <2>3. QED
      BY <2>2
  <1>5. Len(us) \in Nat
    BY LenProperties
  <1>6. ~Unpaired(b)
    <2>1. ~(b.KeyUnordered # <<>> /\ b.KeyOrdered # <<>>)
      BY <1>1, <1>2
    <2> DEFINE nk == Len(b.KeyUnordered) + Len(b.KeyOrdered)
    <2>2. nk > 0 => l \in {"Entries", "OrderedEntries"} /\ nk = Len(us)
      <3>1. CASE l = "Entries"
        <4>1. Len(b.KeyUnordered) = Len(us) /\ Len(b.KeyOrdered) = 0
          BY <1>1, <1>2, <3>1
        <4>2. QED
          BY <1>5, <3>1, <4>1
      <3>2. CASE l = "OrderedEntries"
        <4>1. Len(b.KeyUnordered) = 0 /\ Len(b.KeyOrdered) = Len(us)
          BY <1>1, <1>2, <3>2
        <4>2. QED
          BY <1>5, <3>2, <4>1
      <3>3. CASE l \notin {"Entries", "OrderedEntries"}
        <4>1. Len(b.KeyUnordered) = 0 /\ Len(b.KeyOrdered) = 0
          BY <1>1, <1>2, <3>3
        <4>2. QED
          BY <4>1
      <3>4. QED
        BY <3>1, <3>2, <3>3
    <2> HIDE DEF nk
    <2>3. nk > 0 => nk = Len(b.ValueUnordered) /\ b.ValueOrdered = <<>>
      BY <1>3, <1>4, <2>2
    <2>4. QED
      BY <2>1, <2>3 DEF Unpaired, nk
  <1>7. QED
    BY <1>1, <1>2, <1>3, <1>4, <1>6 DEF Batched

(* The batch is accepted, whole and in order.                              *)
LEMMA BatchAccepted ==
  ASSUME NEW l \in Lists, NEW us \in Seq(Items), NEW es, NEW s, NEW ttl,
         AllMean(l, us, es, s, ttl), NEW b, HasColumns(b, l, us), NEW c, c = s.config
  PROVE  /\ decodeBatch(b, c).code = "OK"
         /\ \E out : /\ decodeBatch(b, c).value = Only(l, out)
                     /\ IsList(out) /\ Len(out) = Len(us)
                     /\ \A i \in 1..Len(us) : Plainly(l, out[i]) = es[i]
  <1> DEFINE n == Len(us)
             v == GoValues(b, c)
             o == GoOrdered(b, c)
             k == GoKeys(b, c)
  <1>0. n \in Nat /\ DOMAIN us = 1..n
    BY LenProperties
  <1>1. \A i \in 1..n : Means(l, us[i], es[i], s, ttl)
    BY <1>0 DEF AllMean
  <1>r. \A i \in 1..n : Reads(l, us[i], es[i], c)
    BY <1>1, ItemRead
  <1>2. Batched(b) /\ ~Unpaired(b)
    BY ColumnFacts
  <1>3. /\ IsList(v) /\ Len(v) = Len(b.ValueUnordered)
        /\ IsList(o) /\ Len(o) = Len(b.ValueOrdered)
        /\ IsList(k) /\ Len(k) = Len(b.KeyUnordered) + Len(b.KeyOrdered)
    BY <1>2, GoLists
  <1>e. IsList(<<>>) /\ Len(<<>>) = 0 /\ DOMAIN <<>> = {} /\ <<>> \o <<>> = <<>>
    BY EmptySeq, ConcatEmptySeq DEF IsList
  <1>s. /\ "Values" \in Lists /\ "OrderedValues" \in Lists /\ "Entries" \in Lists
        /\ "OrderedEntries" \in Lists
    BY DEF Lists
  <1>4. ASSUME Sound(b, c), NEW out, IsList(out), Len(out) = n,
               Gathered(b, c) = Only(l, out),
               \A i \in 1..n : Plainly(l, out[i]) = es[i]
        PROVE  /\ decodeBatch(b, c).code = "OK"
               /\ \E q : /\ decodeBatch(b, c).value = Only(l, q)
                         /\ IsList(q) /\ Len(q) = n
                         /\ \A i \in 1..n : Plainly(l, q[i]) = es[i]
    <2>1. decodeBatch(b, c) = Ok(Only(l, out))
      BY <1>2, <1>4, DecodeAccepted
    <2>2. decodeBatch(b, c).code = "OK" /\ decodeBatch(b, c).value = Only(l, out)
      BY <2>1 DEF Ok, Result
    <2>3. QED
      BY <1>4, <2>2
  <1>5. l # "OrderedValues" =>
           /\ DOMAIN b.ValueUnordered = 1..n /\ Len(v) = n /\ b.ValueOrdered = <<>>
           /\ DOMAIN o = {} /\ DOMAIN b.ValueOrdered = {}
           /\ [i \in DOMAIN o |-> o[i].value] = <<>>
           /\ \A i \in 1..n : /\ v[i] = decodeValue(us[i].value, c)
                              /\ v[i].code = "OK"
    <2> SUFFICES ASSUME l # "OrderedValues"
                 PROVE  /\ DOMAIN b.ValueUnordered = 1..n /\ Len(v) = n
                        /\ b.ValueOrdered = <<>>
                        /\ DOMAIN o = {} /\ DOMAIN b.ValueOrdered = {}
                        /\ [i \in DOMAIN o |-> o[i].value] = <<>>
                        /\ \A i \in 1..n : /\ v[i] = decodeValue(us[i].value, c)
                                           /\ v[i].code = "OK"
      OBVIOUS
    <2>1. /\ DOMAIN b.ValueUnordered = 1..n /\ b.ValueOrdered = <<>>
          /\ \A i \in 1..n : b.ValueUnordered[i] = us[i].value
      BY ColumnFacts
    <2>2. DOMAIN o = {} /\ [i \in DOMAIN o |-> o[i].value] = <<>>
      <3>1. DOMAIN o = {}
        BY <2>1 DEF GoOrdered
      <3> HIDE DEF o
      <3>2. QED
        BY <3>1
    <2>3. \A i \in 1..n : v[i] = decodeValue(us[i].value, c)
      BY <2>1 DEF GoValues
    <2>4. Len(v) = n
      <3>1. DOMAIN v = 1..n /\ DOMAIN v = 1..Len(v) /\ Len(v) \in Nat
        BY <1>3, <2>1, ListFacts DEF GoValues
      <3>2. QED
        BY <1>0, <3>1
    <2>5. \A i \in 1..n : decodeValue(us[i].value, c).code = "OK"
      BY <1>r DEF Reads
    <2>6. QED
      BY <1>e, <2>1, <2>2, <2>3, <2>4, <2>5
  <1>6. CASE l = "Values"
    <2>1. b.KeyUnordered = <<>> /\ b.KeyOrdered = <<>>
      BY <1>6, ColumnFacts
    <2>2. DOMAIN k = {}
      BY <1>e, <2>1 DEF GoKeys
    <2>3. Sound(b, c)
      BY <1>5, <1>6, <2>2 DEF Sound
    <2> DEFINE out == [i \in 1..n |-> v[i].value]
    <2>4. Gathered(b, c) = Concat(Only("OrderedValues", <<>>), Only("Values", out))
      BY <1>5, <1>6, <2>1 DEF Gathered
    <2>5. IsList(out) /\ Len(out) = n
      <3>1. out = [i \in 1..n |-> out[i]]
        OBVIOUS
      <3> HIDE DEF out
      <3>2. QED
        BY <1>0, <3>1, Listed DEF IsList
    <2>6. \A i \in 1..n : Plainly(l, out[i]) = es[i]
      <3> TAKE i \in 1..n
      <3>1. out[i] = decodeValue(us[i].value, c).value
        BY <1>5, <1>6
      <3> HIDE DEF out
      <3>2. QED
        BY <1>r, <1>6, <3>1 DEF Reads
    <2> HIDE DEF out
    <2>7. Gathered(b, c) = Only(l, out)
      BY <1>6, <1>s, <2>4, <2>5, OnlyList
    <2>8. QED
      BY <1>4, <2>3, <2>5, <2>6, <2>7
  <1>7. CASE l = "OrderedValues"
    <2>1. /\ b.KeyUnordered = <<>> /\ b.KeyOrdered = <<>> /\ b.ValueUnordered = <<>>
          /\ DOMAIN b.ValueOrdered = 1..n
          /\ \A i \in 1..n : b.ValueOrdered[i] = us[i].orderedValue
      BY <1>7, ColumnFacts
    <2>2. DOMAIN k = {} /\ DOMAIN v = {} /\ Len(v) = 0
      BY <1>3, <1>e, <2>1 DEF GoKeys, GoValues
    <2>3. \A i \in 1..n : o[i] = decodeOrdered(us[i].orderedValue, c)
      BY <2>1 DEF GoOrdered
    <2>o. DOMAIN o = 1..n
      BY <2>1 DEF GoOrdered
    <2>4. \A i \in 1..n : decodeOrdered(us[i].orderedValue, c).code = "OK"
      BY <1>r, <1>7 DEF Reads
    <2>5. Sound(b, c)
      BY <1>e, <2>1, <2>3, <2>4 DEF Sound
    <2> DEFINE out == [i \in 1..n |-> o[i].value]
    <2>6. [i \in 1..Len(v) |-> v[i].value] = <<>>
      BY <2>2
    <2>7. Gathered(b, c) = Concat(Only("OrderedValues", out), Only("Values", <<>>))
      <3>1. [i \in DOMAIN o |-> o[i].value] = out
        BY <2>o
      <3> HIDE DEF out
      <3>2. QED
        BY <2>1, <2>6, <3>1 DEF Gathered
    <2>8. IsList(out) /\ Len(out) = n
      <3>1. out = [i \in 1..n |-> out[i]]
        OBVIOUS
      <3> HIDE DEF out
      <3>2. QED
        BY <1>0, <3>1, Listed DEF IsList
    <2>9. \A i \in 1..n : Plainly(l, out[i]) = es[i]
      <3> TAKE i \in 1..n
      <3>1. out[i] = decodeOrdered(us[i].orderedValue, c).value
        BY <2>3
      <3> HIDE DEF out
      <3>2. QED
        BY <1>r, <1>7, <3>1 DEF Reads
    <2> HIDE DEF out
    <2>10. Gathered(b, c) = Only(l, out)
      BY <1>7, <1>s, <2>7, <2>8, OnlyList
    <2>11. QED
      BY <1>4, <2>5, <2>8, <2>9, <2>10
  <1>8. CASE l = "Entries"
    <2>1. /\ b.KeyOrdered = <<>> /\ DOMAIN b.KeyUnordered = 1..n
          /\ \A i \in 1..n : b.KeyUnordered[i] = us[i].key
      BY <1>8, ColumnFacts
    <2>2. b.KeyUnordered \o b.KeyOrdered = b.KeyUnordered
      BY <1>2, <2>1, ConcatEmptySeq DEF Batched, IsList
    <2>3. DOMAIN k = 1..n /\ \A i \in 1..n : k[i] = decodeKey(us[i].key, c)
      BY <2>1, <2>2 DEF GoKeys
    <2>4. Len(k) = n
      <3>1. DOMAIN k = 1..Len(k) /\ Len(k) \in Nat
        BY <1>3, ListFacts
      <3> HIDE DEF k
      <3>2. QED
        BY <1>0, <2>3, <3>1
    <2>5. \A i \in 1..n : decodeKey(us[i].key, c).code = "OK"
      BY <1>r, <1>8 DEF Reads
    <2>6. Sound(b, c)
      BY <1>5, <1>8, <2>3, <2>5 DEF Sound
    <2> DEFINE plain == [i \in 1..n |-> v[i].value]
               out == [i \in 1..n |-> [Key |-> k[i].value, Value |-> plain[i]]]
    <2>7. IsList(out) /\ Len(out) = n
      <3>1. out = [i \in 1..n |-> out[i]]
        OBVIOUS
      <3> HIDE DEF out
      <3>2. QED
        BY <1>0, <3>1, Listed DEF IsList
    <2>8. \A i \in 1..n : Plainly(l, out[i]) = es[i]
      <3> TAKE i \in 1..n
      <3>1. out[i] = [Key |-> decodeKey(us[i].key, c).value,
                      Value |-> decodeValue(us[i].value, c).value]
        BY <1>5, <1>8, <2>3
      <3> HIDE DEF out
      <3>2. QED
        BY <1>r, <1>8, <3>1 DEF Reads
    <2>9. CASE n > 0
      <3>1. b.KeyUnordered # <<>>
        BY <1>0, <1>e, <2>1, <2>9
      <3>2. (IF Len(k) < Len(v) THEN Len(k) ELSE Len(v)) = n
        BY <1>0, <1>5, <1>8, <2>4
      <3>3. Gathered(b, c) = Concat(Only("OrderedValues", <<>>), Only("Entries", out))
        BY <1>5, <1>8, <3>1, <3>2 DEF Gathered
      <3> HIDE DEF out
      <3>4. Gathered(b, c) = Only(l, out)
        BY <1>8, <1>s, <2>7, <3>3, OnlyList
      <3>5. QED
        BY <1>4, <2>6, <2>7, <2>8, <3>4
    <2>10. CASE n = 0
      <3>1. b.KeyUnordered = <<>>
        BY <1>2, <2>1, <2>10, ListFacts DEF Batched
      <3>2. plain = <<>> /\ out = <<>>
        BY <2>10
      <3>3. Gathered(b, c) = Concat(Only("OrderedValues", <<>>), Only("Values", <<>>))
        BY <1>5, <1>8, <2>1, <3>1, <3>2 DEF Gathered
      <3> HIDE DEF out
      <3>4. Only("Values", <<>>) = Only(l, <<>>)
        BY <1>s DEF Only, NoData
      <3>5. Gathered(b, c) = Only(l, out)
        BY <1>e, <1>s, <3>2, <3>3, <3>4, OnlyList
      <3>6. QED
        BY <1>4, <2>6, <2>7, <2>8, <3>5
    <2>11. QED
      BY <1>0, <2>9, <2>10
  <1>9. CASE l = "OrderedEntries"
    <2>1. /\ b.KeyUnordered = <<>> /\ DOMAIN b.KeyOrdered = 1..n
          /\ \A i \in 1..n : b.KeyOrdered[i] = us[i].orderedKey
      BY <1>9, ColumnFacts
    <2>2. b.KeyUnordered \o b.KeyOrdered = b.KeyOrdered
      BY <1>2, <2>1, ConcatEmptySeq DEF Batched, IsList
    <2>3. DOMAIN k = 1..n /\ \A i \in 1..n : k[i] = decodeKey(us[i].orderedKey, c)
      BY <2>1, <2>2 DEF GoKeys
    <2>4. Len(k) = n
      <3>1. DOMAIN k = 1..Len(k) /\ Len(k) \in Nat
        BY <1>3, ListFacts
      <3> HIDE DEF k
      <3>2. QED
        BY <1>0, <2>3, <3>1
    <2>5. \A i \in 1..n : decodeKey(us[i].orderedKey, c).code = "OK"
      BY <1>r, <1>9 DEF Reads
    <2>6. Sound(b, c)
      BY <1>5, <1>9, <2>3, <2>5 DEF Sound
    <2> DEFINE plain == [i \in 1..n |-> v[i].value]
               out == [i \in 1..n |->
                         [Key |-> OrderedPayload(k[i].value, b.KeyOrdered[i].Order),
                          Value |-> plain[i]]]
    <2>7. IsList(out) /\ Len(out) = n
      <3>1. out = [i \in 1..n |-> out[i]]
        OBVIOUS
      <3> HIDE DEF out
      <3>2. QED
        BY <1>0, <3>1, Listed DEF IsList
    <2>8. \A i \in 1..n : Plainly(l, out[i]) = es[i]
      <3> TAKE i \in 1..n
      <3>1. out[i] = [Key |-> OrderedPayload(decodeKey(us[i].orderedKey, c).value,
                                             us[i].orderedKey.Order),
                      Value |-> decodeValue(us[i].value, c).value]
        BY <1>5, <1>9, <2>1, <2>3
      <3> HIDE DEF out
      <3>2. QED
        BY <1>r, <1>9, <3>1 DEF Reads
    <2>9. CASE n > 0
      <3>1. b.KeyOrdered # <<>>
        BY <1>0, <1>e, <2>1, <2>9
      <3>2. (IF Len(k) < Len(v) THEN Len(k) ELSE Len(v)) = n
        BY <1>0, <1>5, <1>9, <2>4
      <3>3. Gathered(b, c) = Concat(Only("OrderedValues", <<>>), Only("OrderedEntries", out))
        BY <1>5, <1>9, <2>1, <3>1, <3>2 DEF Gathered
      <3> HIDE DEF out
      <3>4. Gathered(b, c) = Only(l, out)
        BY <1>9, <1>s, <2>7, <3>3, OnlyList
      <3>5. QED
        BY <1>4, <2>6, <2>7, <2>8, <3>4
    <2>10. CASE n = 0
      <3>1. b.KeyOrdered = <<>>
        BY <1>2, <2>1, <2>10, ListFacts DEF Batched
      <3>2. plain = <<>> /\ out = <<>>
        BY <2>10
      <3>3. Gathered(b, c) = Concat(Only("OrderedValues", <<>>), Only("Values", <<>>))
        BY <1>5, <1>9, <2>1, <3>1, <3>2 DEF Gathered
      <3> HIDE DEF out
      <3>4. Only("Values", <<>>) = Only(l, <<>>)
        BY <1>s DEF Only, NoData
      <3>5. Gathered(b, c) = Only(l, out)
        BY <1>e, <1>s, <3>2, <3>3, <3>4, OnlyList
      <3>6. QED
        BY <1>4, <2>6, <2>7, <2>8, <3>5
    <2>11. QED
      BY <1>0, <2>9, <2>10
  <1>10. QED
    BY <1>6, <1>7, <1>8, <1>9 DEF Lists
-----------------------------------------------------------------------------
(* Batches that are not well formed.                                       *)

(* Bytes of the size they announce.                                        *)
Whole(b) ==
    /\ b \in Binaries(Data) /\ Wired(b) = b
    /\ b.Size = IF b.Payload = Nil THEN 0 ELSE b.Payload.len

(* The parts of an item are messages whose sizes are those of their bytes. *)
LEMMA MeansWhole ==
  ASSUME NEW l \in Lists, NEW it, NEW e, NEW s, NEW ttl, Means(l, it, e, s, ttl)
  PROVE  /\ l # "OrderedValues" => it.value \in ValueMessages(Data) /\ Whole(it.value.Value)
         /\ l = "OrderedValues" =>
               it.orderedValue \in OrderedValueMessages(Data) /\ Whole(it.orderedValue.Value)
         /\ l = "Entries" => it.key \in KeyMessages(Data)
         /\ l = "OrderedEntries" => it.orderedKey \in OrderedKeyMessages(Data)
  <1>1. PICK p \in Elements(l) : Carries(l, it, p, s, ttl)
    BY DEF Means
  <1>2. HasParts(l, it)
    BY <1>1 DEF Carries
  <1>3. /\ l = "Entries" => it.key \in KeyMessages(Data)
        /\ l = "OrderedEntries" => it.orderedKey \in OrderedKeyMessages(Data)
        /\ l # "OrderedValues" => it.value \in ValueMessages(Data)
        /\ l = "OrderedValues" => it.orderedValue \in OrderedValueMessages(Data)
    BY <1>2 DEF HasParts, Items, Pointer
  <1>4. l # "OrderedValues" => Whole(it.value.Value)
    BY <1>1 DEF Carries, SaysValue, Readable, Whole, Lists
  <1>5. l = "OrderedValues" => Whole(it.orderedValue.Value)
    BY <1>1 DEF Carries, SaysValue, Readable, Whole
  <1>6. QED
    BY <1>3, <1>4, <1>5

(* A missing payload, and a size that is not that of the bytes.            *)
NoPayload(v) == [v EXCEPT !.Value = Nil]
NoKey(k) == [k EXCEPT !.Payload = Nil]
Resized(v) == [v EXCEPT !.Value.Size = @ + 1]

(* A value without a payload is refused.                                   *)
LEMMA MissingRefused ==
  ASSUME NEW v, NEW schema, NEW c,
         \/ schema = Value /\ v \in ValueMessages(Data)
         \/ schema = OrderedValue /\ v \in OrderedValueMessages(Data)
  PROVE  decodeValue(Nested(schema, NoPayload(v)), c).code # "OK"
  <1> DEFINE w == NoPayload(v)
             x == Nested(schema, w)
  <1>1. x # Nil /\ x.Value = Nil
    <2>1. CASE schema = Value /\ v \in ValueMessages(Data)
      <3>1. w \in ValueMessages(Data) /\ w.Value = Nil
        BY <2>1 DEF NoPayload, ValueMessages, Pointer
      <3> HIDE DEF w
      <3>2. x = [w EXCEPT !.Value = Wired(@)]
        BY <2>1, <3>1, NestedValue
      <3>3. x = w
        BY <3>1, <3>2 DEF Wired, ValueMessages
      <3>4. QED
        BY <3>1, <3>3, NilFacts DEF NilApart
    <2>2. CASE schema = OrderedValue /\ v \in OrderedValueMessages(Data)
      <3>1. w \in OrderedValueMessages(Data) /\ w.Value = Nil
        BY <2>2 DEF NoPayload, OrderedValueMessages, Pointer
      <3> HIDE DEF w
      <3>2. x = [w EXCEPT !.Value = Wired(@)]
        BY <2>2, <3>1, NestedOrderedValue
      <3>3. x = w
        BY <3>1, <3>2 DEF Wired, OrderedValueMessages
      <3>4. QED
        BY <3>1, <3>3, NilFacts DEF NilApart
    <2>3. QED
      BY <2>1, <2>2
  <1> HIDE DEF x
  <1>2. decodeValue(x, c) = Err("DataLoss")
    BY <1>1 DEF decodeValue, HasPayload
  <1>3. QED
    BY <1>2 DEF x, Err, Result

(* A key without a payload is refused.                                     *)
LEMMA MissingKeyRefused ==
  ASSUME NEW k, NEW schema, NEW c,
         \/ schema = Key /\ k \in KeyMessages(Data)
         \/ schema = OrderedKey /\ k \in OrderedKeyMessages(Data)
  PROVE  decodeKey(Nested(schema, NoKey(k)), c).code # "OK"
  <1> DEFINE w == NoKey(k)
             x == Nested(schema, w)
  <1>1. x.Payload = Nil
    <2>1. CASE schema = Key /\ k \in KeyMessages(Data)
      <3>1. w \in KeyMessages(Data) /\ w.Payload = Nil
        BY <2>1 DEF NoKey, KeyMessages, Pointer
      <3> HIDE DEF w
      <3>2. x = [w EXCEPT !.Payload = Wired(@)]
        BY <2>1, <3>1, NestedKey
      <3>3. QED
        BY <3>1, <3>2 DEF Wired, KeyMessages
    <2>2. CASE schema = OrderedKey /\ k \in OrderedKeyMessages(Data)
      <3>1. w \in OrderedKeyMessages(Data) /\ w.Payload = Nil
        BY <2>2 DEF NoKey, OrderedKeyMessages, Pointer
      <3> HIDE DEF w
      <3>2. x = [w EXCEPT !.Payload = Wired(@)]
        BY <2>2, <3>1, NestedOrderedKey
      <3>3. QED
        BY <3>1, <3>2 DEF Wired, OrderedKeyMessages
    <2>3. QED
      BY <2>1, <2>2
  <1> HIDE DEF x
  <1>2. decodeKey(x, c) = Err("DataLoss")
    BY <1>1 DEF decodeKey
  <1>3. QED
    BY <1>2 DEF x, Err, Result

(* A value whose size is not that of its bytes is refused.                 *)
LEMMA ResizedRefused ==
  ASSUME NEW v, NEW schema, NEW c, Whole(v.Value),
         \/ schema = Value /\ v \in ValueMessages(Data)
         \/ schema = OrderedValue /\ v \in OrderedValueMessages(Data)
  PROVE  decodeValue(Nested(schema, Resized(v)), c).code # "OK"
  <1> DEFINE w == Resized(v)
             x == Nested(schema, w)
             b == v.Value
  <1>0. /\ b \in Binaries(Data) /\ b # Nil /\ Wired(b) = b /\ b.Size \in Nat
        /\ b.Size = IF b.Payload = Nil THEN 0 ELSE b.Payload.len
        /\ b = [Payload |-> b.Payload, Size |-> b.Size]
    BY NilFacts DEF NilApart, Whole, Binaries
  <1>1. w.Value = [Payload |-> b.Payload, Size |-> b.Size + 1] /\ w.Value \in Binaries(Data)
    <2>1. v = [f \in DOMAIN v |-> v[f]] /\ "Value" \in DOMAIN v
      BY DEF ValueMessages, OrderedValueMessages
    <2>2. w.Value = [b EXCEPT !.Size = @ + 1]
      BY <2>1 DEF Resized
    <2> HIDE DEF w, b
    <2>3. QED
      BY <1>0, <2>2 DEF Binaries
  <1>2. \/ schema = Value /\ w \in ValueMessages(Data)
        \/ schema = OrderedValue /\ w \in OrderedValueMessages(Data)
    <2>1. w = [v EXCEPT !.Value = w.Value]
      BY DEF Resized, ValueMessages, OrderedValueMessages
    <2> HIDE DEF w
    <2>2. v \in ValueMessages(Data) => w \in ValueMessages(Data)
      BY <1>1, <2>1 DEF ValueMessages, Pointer
    <2>3. v \in OrderedValueMessages(Data) => w \in OrderedValueMessages(Data)
      BY <1>1, <2>1 DEF OrderedValueMessages, Pointer
    <2>4. QED
      BY <2>2, <2>3
  <1> HIDE DEF w
  <1>3. x = [w EXCEPT !.Value = Wired(@)]
    BY <1>2, NestedValue, NestedOrderedValue
  <1>4. w.Value # Nil
    BY <1>1, NilFacts DEF NilApart
  <1>5. Wired(w.Value) = [Payload |-> b.Payload, Size |-> b.Size + 1]
    <2>1. b.Payload = IF b.Payload # Nil /\ b.Payload.len > 0 THEN b.Payload ELSE Nil
      BY <1>0 DEF Wired
    <2> HIDE DEF b
    <2>2. QED
      BY <1>1, <1>4, <2>1 DEF Wired
  <1>6. x # Nil /\ x.Value = [Payload |-> b.Payload, Size |-> b.Size + 1] /\ x.Value # Nil
    <2>1. x.Value = Wired(w.Value)
      BY <1>2, <1>3 DEF ValueMessages, OrderedValueMessages
    <2>2. x \in ValueMessages(Data) \cup OrderedValueMessages(Data)
      <3>1. Wired(w.Value) \in Binaries(Data)
        BY <1>0, <1>5 DEF Binaries
      <3>2. QED
        BY <1>2, <1>3, <3>1 DEF ValueMessages, OrderedValueMessages, Pointer
    <2>3. Wired(w.Value) # Nil
      BY <1>0, <1>5, NilFacts DEF NilApart, Binaries
    <2>4. QED
      BY <1>5, <2>1, <2>2, <2>3, NilFacts DEF NilApart
  <1> HIDE DEF x, b
  <1> DEFINE B == IF b.Payload = Nil THEN Plain(Empty) ELSE b.Payload
  <1>7. B.len # b.Size + 1
    BY <1>0 DEF Plain, Empty
  <1>8. Decode(b.Payload, b.Size + 1, x.CompressionInfo, c) = Failed("DataLoss", 0)
    BY <1>7 DEF Decode, Decodings
  <1>9. decodeValue(x, c).code = "DataLoss"
    <2>1. Failed("DataLoss", 0).code = "DataLoss"
      BY DEF Failed
    <2>2. decodeValue(x, c) = Err("DataLoss")
      BY <1>6, <1>8, <2>1 DEF decodeValue, HasPayload
    <2>3. QED
      BY <2>2 DEF Err, Result
  <1>10. QED
    BY <1>9 DEF x, w

(* Columns as they are received, one by one.                               *)
LEMMA ListsDelivered ==
  ASSUME NEW m, Batched(m)
  PROVE  LET D == Deliver(BatchValueResponse, m)
         IN  /\ Batched(D)
             /\ Len(D.KeyUnordered) = Len(m.KeyUnordered)
             /\ Len(D.KeyOrdered) = Len(m.KeyOrdered)
             /\ Len(D.ValueUnordered) = Len(m.ValueUnordered)
             /\ Len(D.ValueOrdered) = Len(m.ValueOrdered)
             /\ Len(m.KeyUnordered) > 0 =>
                   D.KeyUnordered[1] = Nested(Key, m.KeyUnordered[1])
             /\ Len(m.KeyOrdered) > 0 =>
                   D.KeyOrdered[1] = Nested(OrderedKey, m.KeyOrdered[1])
             /\ Len(m.ValueUnordered) > 0 =>
                   D.ValueUnordered[1] = Nested(Value, m.ValueUnordered[1])
             /\ Len(m.ValueOrdered) > 0 =>
                   D.ValueOrdered[1] = Nested(OrderedValue, m.ValueOrdered[1])
  <1> DEFINE D == Deliver(BatchValueResponse, m)
  <1>1. \A s : IsList(s) /\ DOMAIN s = {} => s = <<>>
    <2>1. \A s : IsList(s) => s = [i \in 1..Len(s) |-> s[i]] /\ DOMAIN s = 1..Len(s)
      BY ListFacts
    <2> TAKE s
    <2> HAVE IsList(s) /\ DOMAIN s = {}
    <2>2. s = [i \in {} |-> s[i]]
      BY <2>1
    <2>3. QED
      BY <2>2
  <1>2. \A f \in ColumnFields : DOMAIN m[f] = {} => m[f] = <<>>
    BY <1>1 DEF ColumnFields, Batched
  <1>3. /\ D.KeyUnordered = EachNested(Key, m.KeyUnordered)
        /\ D.KeyOrdered = EachNested(OrderedKey, m.KeyOrdered)
        /\ D.ValueUnordered = EachNested(Value, m.ValueUnordered)
        /\ D.ValueOrdered = EachNested(OrderedValue, m.ValueOrdered)
    BY <1>2, ColumnsDelivered DEF EachNested
  <1>4. ASSUME NEW schema, NEW s, IsList(s)
        PROVE  /\ IsList(EachNested(schema, s)) /\ Len(EachNested(schema, s)) = Len(s)
               /\ Len(s) > 0 => EachNested(schema, s)[1] = Nested(schema, s[1])
    <2> DEFINE f == EachNested(schema, s)
    <2>1. f = [i \in DOMAIN s |-> f[i]]
      BY DEF EachNested
    <2>2. Len(s) > 0 => f[1] = Nested(schema, s[1])
      BY <1>4, ListFacts DEF EachNested
    <2> HIDE DEF f
    <2>3. IsList(f) /\ Len(f) = Len(s)
      BY <1>4, <2>1, Mapped
    <2>4. QED
      BY <2>2, <2>3 DEF f
  <1> HIDE DEF D
  <1>5. /\ IsList(m.KeyUnordered) /\ IsList(m.KeyOrdered)
        /\ IsList(m.ValueUnordered) /\ IsList(m.ValueOrdered)
    BY DEF Batched
  <1>6. Batched(D)
    BY <1>3, <1>4, <1>5 DEF Batched
  <1>7. QED
    BY <1>3, <1>4, <1>5, <1>6 DEF D

(* Columns that do not pair are refused after delivery too.                *)
LEMMA UnpairedDelivered ==
  ASSUME NEW m, Batched(m), NEW c, Unpaired(m)
  PROVE  decodeBatch(Deliver(BatchValueResponse, m), c).code # "OK"
  <1> DEFINE D == Deliver(BatchValueResponse, m)
  <1>1. /\ Batched(D)
        /\ Len(D.KeyUnordered) = Len(m.KeyUnordered)
        /\ Len(D.KeyOrdered) = Len(m.KeyOrdered)
        /\ Len(D.ValueUnordered) = Len(m.ValueUnordered)
        /\ Len(D.ValueOrdered) = Len(m.ValueOrdered)
    BY ListsDelivered
  <1> HIDE DEF D
  <1>2. \A s : IsList(s) => (s = <<>> <=> Len(s) = 0)
    BY ListFacts
  <1>3. /\ D.KeyUnordered = <<>> <=> m.KeyUnordered = <<>>
        /\ D.KeyOrdered = <<>> <=> m.KeyOrdered = <<>>
        /\ D.ValueOrdered = <<>> <=> m.ValueOrdered = <<>>
    BY <1>1, <1>2 DEF Batched
  <1>4. Unpaired(D)
    BY <1>1, <1>3 DEF Unpaired
  <1>5. decodeBatch(D, c).code # "OK"
    BY <1>1, <1>4, DecodeRefused
  <1>6. QED
    BY <1>5 DEF D

(* The first element of a column is in error.                              *)
LEMMA SpoilDelivered ==
  ASSUME NEW m, Batched(m), NEW c,
         \/ /\ Len(m.ValueUnordered) > 0
            /\ decodeValue(Nested(Value, m.ValueUnordered[1]), c).code # "OK"
         \/ /\ Len(m.ValueOrdered) > 0
            /\ decodeValue(Nested(OrderedValue, m.ValueOrdered[1]), c).code # "OK"
         \/ /\ Len(m.KeyUnordered) > 0 /\ Len(m.ValueUnordered) > 0
            /\ m.KeyOrdered = <<>>
            /\ decodeKey(Nested(Key, m.KeyUnordered[1]), c).code # "OK"
         \/ /\ Len(m.KeyOrdered) > 0 /\ Len(m.ValueUnordered) > 0
            /\ m.KeyUnordered = <<>>
            /\ decodeKey(Nested(OrderedKey, m.KeyOrdered[1]), c).code # "OK"
  PROVE  decodeBatch(Deliver(BatchValueResponse, m), c).code # "OK"
  <1> DEFINE D == Deliver(BatchValueResponse, m)
  <1>1. /\ Batched(D)
        /\ Len(D.KeyUnordered) = Len(m.KeyUnordered)
        /\ Len(D.KeyOrdered) = Len(m.KeyOrdered)
        /\ Len(D.ValueUnordered) = Len(m.ValueUnordered)
        /\ Len(D.ValueOrdered) = Len(m.ValueOrdered)
        /\ Len(m.KeyUnordered) > 0 => D.KeyUnordered[1] = Nested(Key, m.KeyUnordered[1])
        /\ Len(m.KeyOrdered) > 0 => D.KeyOrdered[1] = Nested(OrderedKey, m.KeyOrdered[1])
        /\ Len(m.ValueUnordered) > 0 =>
              D.ValueUnordered[1] = Nested(Value, m.ValueUnordered[1])
        /\ Len(m.ValueOrdered) > 0 =>
              D.ValueOrdered[1] = Nested(OrderedValue, m.ValueOrdered[1])
    BY ListsDelivered
  <1> HIDE DEF D
  <1>2. \A s : IsList(s) /\ Len(s) > 0 => 1 \in DOMAIN s
    BY ListFacts
  <1>3. /\ IsList(D.KeyUnordered) /\ IsList(D.KeyOrdered)
        /\ IsList(D.ValueUnordered) /\ IsList(D.ValueOrdered)
    BY <1>1 DEF Batched
  <1>4. ASSUME Len(m.ValueUnordered) > 0,
               decodeValue(Nested(Value, m.ValueUnordered[1]), c).code # "OK"
        PROVE  ~Sound(D, c)
    BY <1>1, <1>2, <1>3, <1>4 DEF Sound, GoValues
  <1>5. ASSUME Len(m.ValueOrdered) > 0,
               decodeValue(Nested(OrderedValue, m.ValueOrdered[1]), c).code # "OK"
        PROVE  ~Sound(D, c)
    <2> DEFINE x == D.ValueOrdered[1]
    <2>1. 1 \in DOMAIN D.ValueOrdered /\ decodeValue(x, c).code # "OK"
      BY <1>1, <1>2, <1>3, <1>5
    <2> HIDE DEF x
    <2>2. decodeOrdered(x, c) = decodeValue(x, c)
      BY <2>1 DEF decodeOrdered
    <2>3. QED
      BY <2>1, <2>2 DEF Sound, GoOrdered, x
  <1>6. ASSUME Len(m.ValueUnordered) > 0,
               NEW k, IsList(k), Len(k) > 0, D.KeyUnordered \o D.KeyOrdered = k,
               decodeKey(k[1], c).code # "OK"
        PROVE  ~Sound(D, c)
    <2>1. 1 \in DOMAIN D.ValueUnordered /\ 1 \in DOMAIN k
      BY <1>1, <1>2, <1>3, <1>6
    <2>2. 1 \in DOMAIN GoKeys(D, c) /\ GoKeys(D, c)[1] = decodeKey(k[1], c)
      BY <1>6, <2>1 DEF GoKeys
    <2>3. QED
      BY <1>6, <2>1, <2>2 DEF Sound
  <1>7. ASSUME NEW s, IsList(s) PROVE s \o <<>> = s /\ <<>> \o s = s
    BY <1>7, ConcatEmptySeq DEF IsList
  <1>8. ASSUME Len(m.KeyUnordered) > 0, Len(m.ValueUnordered) > 0, m.KeyOrdered = <<>>,
               decodeKey(Nested(Key, m.KeyUnordered[1]), c).code # "OK"
        PROVE  ~Sound(D, c)
    <2>1. D.KeyOrdered = <<>>
      BY <1>1, <1>3, <1>8, ListFacts, EmptySeq
    <2>2. D.KeyUnordered \o D.KeyOrdered = D.KeyUnordered
      BY <1>3, <1>7, <2>1
    <2>3. QED
      BY <1>1, <1>3, <1>6, <1>8, <2>2
  <1>9. ASSUME Len(m.KeyOrdered) > 0, Len(m.ValueUnordered) > 0, m.KeyUnordered = <<>>,
               decodeKey(Nested(OrderedKey, m.KeyOrdered[1]), c).code # "OK"
        PROVE  ~Sound(D, c)
    <2>1. D.KeyUnordered = <<>>
      BY <1>1, <1>3, <1>9, ListFacts, EmptySeq
    <2>2. D.KeyUnordered \o D.KeyOrdered = D.KeyOrdered
      BY <1>3, <1>7, <2>1
    <2>3. QED
      BY <1>1, <1>3, <1>6, <1>9, <2>2
  <1>10. ~Sound(D, c)
    BY <1>4, <1>5, <1>8, <1>9
  <1>11. decodeBatch(D, c).code # "OK"
    BY <1>1, <1>10, DecodeRefused
  <1>12. QED
    BY <1>11 DEF D

(* A list with another first element.                                      *)
LEMMA FirstChanged ==
  ASSUME NEW s, IsList(s), s # <<>>, NEW x
  PROVE  LET t == [s EXCEPT ![1] = x]
         IN  IsList(t) /\ Len(t) = Len(s) /\ Len(t) > 0 /\ t[1] = x
  <1> DEFINE t == [s EXCEPT ![1] = x]
  <1>1. /\ Len(s) \in Nat /\ DOMAIN s = 1..Len(s) /\ Len(s) > 0
        /\ s = [i \in 1..Len(s) |-> s[i]]
    BY ListFacts
  <1>2. t = [i \in DOMAIN s |-> t[i]] /\ t[1] = x
    <2> DEFINE D == 1..Len(s)
               S == {s[i] : i \in D}
    <2>1. s \in [D -> S] /\ 1 \in D /\ DOMAIN s = D
      BY <1>1
    <2> HIDE DEF D, S
    <2>2. t \in [D -> S \cup {x}] /\ t[1] = x
      BY <2>1
    <2> HIDE DEF t
    <2>3. QED
      BY <2>1, <2>2
  <1> HIDE DEF t
  <1>3. IsList(t) /\ Len(t) = Len(s)
    BY <1>2, Mapped
  <1>4. QED
    BY <1>1, <1>2, <1>3 DEF t

(* The ways in which a batch may be malformed, one by one.                 *)
LEMMA MalformedCases ==
  ASSUME NEW b, NEW sent \in Malformed(b)
  PROVE  \/ /\ b.KeyUnordered # <<>> \/ b.KeyOrdered # <<>>
            /\ sent = [b EXCEPT !.ValueUnordered = Tail(@)]
         \/ /\ b.KeyUnordered # <<>> \/ b.KeyOrdered # <<>>
            /\ sent = [b EXCEPT !.ValueOrdered = <<b.ValueUnordered[1] ++ [Order |-> 0]>>]
         \/ /\ b.KeyUnordered # <<>>
            /\ sent = [b EXCEPT !.KeyOrdered = <<b.KeyUnordered[1] ++ [Order |-> 0]>>,
                                !.ValueUnordered = Append(@, @[1])]
         \/ /\ b["ValueUnordered"] # <<>>
            /\ sent = [b EXCEPT !["ValueUnordered"][1] = NoPayload(@)]
         \/ /\ b["ValueUnordered"] # <<>>
            /\ sent = [b EXCEPT !["ValueUnordered"][1] = Resized(@)]
         \/ /\ b["ValueOrdered"] # <<>>
            /\ sent = [b EXCEPT !["ValueOrdered"][1] = NoPayload(@)]
         \/ /\ b["ValueOrdered"] # <<>>
            /\ sent = [b EXCEPT !["ValueOrdered"][1] = Resized(@)]
         \/ /\ b["KeyUnordered"] # <<>>
            /\ sent = [b EXCEPT !["KeyUnordered"][1] = NoKey(@)]
         \/ /\ b["KeyOrdered"] # <<>>
            /\ sent = [b EXCEPT !["KeyOrdered"][1] = NoKey(@)]
  BY Zenon DEF Malformed, NoPayload, Resized, NoKey

(* decodeBatch() refuses every malformed batch.                            *)
LEMMA MalformedRefused ==
  ASSUME NEW l \in Lists, NEW us \in Seq(Items), NEW es, NEW s, NEW ttl,
         AllMean(l, us, es, s, ttl), NEW c, NEW sent \in Malformed(Columns(us))
  PROVE  decodeBatch(Deliver(BatchValueResponse, sent), c).code # "OK"
  <1> DEFINE b == Columns(us)
             n == Len(us)
  <1>0. n \in Nat /\ DOMAIN us = 1..n
    BY LenProperties
  <1>1. HasColumns(b, l, us)
    BY BatchDelivered
  <1>2. b = [KeyUnordered |-> b.KeyUnordered, KeyOrdered |-> b.KeyOrdered,
             ValueUnordered |-> b.ValueUnordered, ValueOrdered |-> b.ValueOrdered]
    BY DEF Columns
  <1> HIDE DEF b
  <1>3. /\ IsList(b.KeyUnordered) /\ IsList(b.KeyOrdered)
        /\ IsList(b.ValueUnordered) /\ IsList(b.ValueOrdered)
    BY <1>1, ColumnFacts DEF Batched
  <1>4. /\ l = "Entries" =>
               /\ DOMAIN b.KeyUnordered = 1..n
               /\ \A i \in 1..n : b.KeyUnordered[i] = us[i].key
        /\ l # "Entries" => b.KeyUnordered = <<>>
        /\ l = "OrderedEntries" =>
               /\ DOMAIN b.KeyOrdered = 1..n
               /\ \A i \in 1..n : b.KeyOrdered[i] = us[i].orderedKey
        /\ l # "OrderedEntries" => b.KeyOrdered = <<>>
        /\ l # "OrderedValues" =>
               /\ DOMAIN b.ValueUnordered = 1..n
               /\ \A i \in 1..n : b.ValueUnordered[i] = us[i].value
        /\ l = "OrderedValues" => b.ValueUnordered = <<>>
        /\ l = "OrderedValues" =>
               /\ DOMAIN b.ValueOrdered = 1..n
               /\ \A i \in 1..n : b.ValueOrdered[i] = us[i].orderedValue
        /\ l # "OrderedValues" => b.ValueOrdered = <<>>
    BY <1>1, ColumnFacts
  <1>5. n > 0 => Means(l, us[1], es[1], s, ttl)
    BY <1>0 DEF AllMean
  <1>6. ASSUME NEW q, IsList(q), DOMAIN q = 1..n PROVE Len(q) = n
    <2>1. DOMAIN q = 1..Len(q) /\ Len(q) \in Nat
      BY <1>6, ListFacts
    <2>2. QED
      BY <1>0, <1>6, <2>1
  <1>7. ASSUME NEW q, IsList(q), q # <<>> PROVE Len(q) > 0 /\ Len(q) \in Nat
    BY <1>7, ListFacts
  <1>m. Batched(sent) /\ Unpaired(sent) =>
           decodeBatch(Deliver(BatchValueResponse, sent), c).code # "OK"
    BY UnpairedDelivered
  <1>k. ASSUME b.KeyUnordered # <<>> \/ b.KeyOrdered # <<>>
        PROVE  /\ l \in {"Entries", "OrderedEntries"} /\ n > 0 /\ Len(b.ValueUnordered) = n
               /\ Len(b.KeyUnordered) + Len(b.KeyOrdered) = n
               /\ b.ValueUnordered # <<>>
    <2>1. l \in {"Entries", "OrderedEntries"}
      BY <1>k, <1>4
    <2>2. Len(b.ValueUnordered) = n
      BY <1>3, <1>4, <1>6, <2>1
    <2>3. Len(<<>>) = 0
      BY EmptySeq
    <2>4. CASE l = "Entries"
      <3>1. Len(b.KeyUnordered) = n /\ b.KeyUnordered # <<>> /\ b.KeyOrdered = <<>>
        BY <1>k, <1>3, <1>4, <1>6, <2>4
      <3>2. n > 0
        BY <1>3, <1>7, <3>1
      <3>3. QED
        BY <1>0, <2>1, <2>2, <2>3, <3>1, <3>2
    <2>5. CASE l = "OrderedEntries"
      <3>1. Len(b.KeyOrdered) = n /\ b.KeyOrdered # <<>> /\ b.KeyUnordered = <<>>
        BY <1>k, <1>3, <1>4, <1>6, <2>5
      <3>2. n > 0
        BY <1>3, <1>7, <3>1
      <3>3. QED
        BY <1>0, <2>1, <2>2, <2>3, <3>1, <3>2
    <2>6. QED
      BY <2>1, <2>4, <2>5
  <1>8. CASE /\ b.KeyUnordered # <<>> \/ b.KeyOrdered # <<>>
             /\ sent = [b EXCEPT !.ValueUnordered = Tail(@)]
    <2>1. /\ sent.KeyUnordered = b.KeyUnordered /\ sent.KeyOrdered = b.KeyOrdered
          /\ sent.ValueUnordered = Tail(b.ValueUnordered)
          /\ sent.ValueOrdered = b.ValueOrdered
      BY <1>2, <1>8
    <2>2. IsList(Tail(b.ValueUnordered)) /\ Len(Tail(b.ValueUnordered)) = n - 1
      <3>1. PICK S : b.ValueUnordered \in Seq(S)
        BY <1>3 DEF IsList
      <3>2. b.ValueUnordered # <<>> /\ Len(b.ValueUnordered) = n
        BY <1>8, <1>k
      <3>3. /\ Tail(b.ValueUnordered) \in Seq(S)
            /\ Len(Tail(b.ValueUnordered)) = Len(b.ValueUnordered) - 1
        BY <3>1, <3>2, HeadTailProperties
      <3>4. QED
        BY <3>2, <3>3 DEF IsList
    <2>3. Batched(sent)
      BY <1>3, <2>1, <2>2 DEF Batched
    <2>4. Unpaired(sent)
      <3>1. n > 0 /\ Len(sent.KeyUnordered) + Len(sent.KeyOrdered) = n
            /\ Len(sent.ValueUnordered) = n - 1
        BY <1>8, <1>k, <2>1, <2>2, Zenon
      <3> DEFINE nk == Len(sent.KeyUnordered) + Len(sent.KeyOrdered)
                 nv == Len(sent.ValueUnordered)
      <3>2. nk = n /\ nv = n - 1 /\ n > 0 /\ n \in Nat
        BY <1>0, <3>1, Zenon
      <3> HIDE DEF nk, nv, n
      <3>3. nk > 0 /\ nk # nv
        BY <3>2
      <3>4. QED
        BY <3>3 DEF Unpaired, nk, nv
    <2>5. QED
      BY <1>m, <2>3, <2>4
  <1>9. CASE /\ b.KeyUnordered # <<>> \/ b.KeyOrdered # <<>>
             /\ sent = [b EXCEPT !.ValueOrdered = <<b.ValueUnordered[1] ++ [Order |-> 0]>>]
    <2> DEFINE x == b.ValueUnordered[1] ++ [Order |-> 0]
    <2> HIDE DEF x
    <2>0. sent = [b EXCEPT !.ValueOrdered = <<x>>]
      BY <1>9 DEF x
    <2>1. /\ sent.KeyUnordered = b.KeyUnordered /\ sent.KeyOrdered = b.KeyOrdered
          /\ sent.ValueUnordered = b.ValueUnordered /\ sent.ValueOrdered = <<x>>
      BY <1>2, <2>0
    <2>2. IsList(<<x>>) /\ <<x>> # <<>>
      <3>1. <<x>> \in Seq({x})
        OBVIOUS
      <3>2. QED
        BY <3>1 DEF IsList
    <2>3. Batched(sent)
      BY <1>3, <2>1, <2>2 DEF Batched
    <2>4. Unpaired(sent)
      <3>1. n > 0 /\ Len(sent.KeyUnordered) + Len(sent.KeyOrdered) = n
        BY <1>9, <1>k, <2>1
      <3>2. QED
        BY <1>0, <2>1, <2>2, <3>1 DEF Unpaired
    <2>5. QED
      BY <1>m, <2>3, <2>4
  <1>10. CASE /\ b.KeyUnordered # <<>>
              /\ sent = [b EXCEPT !.KeyOrdered = <<b.KeyUnordered[1] ++ [Order |-> 0]>>,
                                  !.ValueUnordered = Append(@, @[1])]
    <2> DEFINE x == b.KeyUnordered[1] ++ [Order |-> 0]
    <2> HIDE DEF x
    <2>0. sent = [b EXCEPT !.KeyOrdered = <<x>>, !.ValueUnordered = Append(@, @[1])]
      BY <1>10 DEF x
    <2>1. /\ sent.KeyUnordered = b.KeyUnordered /\ sent.KeyOrdered = <<x>>
          /\ sent.ValueUnordered = Append(b.ValueUnordered, b.ValueUnordered[1])
          /\ sent.ValueOrdered = b.ValueOrdered
      BY <1>2, <2>0
    <2>2. IsList(<<x>>) /\ <<x>> # <<>>
      <3>1. <<x>> \in Seq({x})
        OBVIOUS
      <3>2. QED
        BY <3>1 DEF IsList
    <2>3. IsList(Append(b.ValueUnordered, b.ValueUnordered[1]))
      <3>1. PICK S : b.ValueUnordered \in Seq(S)
        BY <1>3 DEF IsList
      <3>2. b.ValueUnordered[1] \in S
        <4>1. Len(b.ValueUnordered) = n /\ n > 0
          BY <1>10, <1>k
        <4>2. 1 \in 1..Len(b.ValueUnordered)
          BY <1>0, <4>1
        <4>3. QED
          BY <3>1, <4>2, ElementOfSeq
      <3>3. Append(b.ValueUnordered, b.ValueUnordered[1]) \in Seq(S)
        BY <3>1, <3>2, AppendProperties
      <3>4. QED
        BY <3>3 DEF IsList
    <2>4. Batched(sent)
      BY <1>3, <2>1, <2>2, <2>3 DEF Batched
    <2>5. Unpaired(sent)
      BY <1>10, <2>1, <2>2 DEF Unpaired
    <2>6. QED
      BY <1>m, <2>4, <2>5
  <1>11. ASSUME b.ValueUnordered # <<>>, NEW x,
                decodeValue(Nested(Value, x), c).code # "OK",
                sent = [b EXCEPT !.ValueUnordered = [@ EXCEPT ![1] = x]]
         PROVE  decodeBatch(Deliver(BatchValueResponse, sent), c).code # "OK"
    <2> DEFINE t == [b.ValueUnordered EXCEPT ![1] = x]
    <2>1. IsList(t) /\ Len(t) > 0 /\ t[1] = x
      BY <1>3, <1>11, FirstChanged
    <2> HIDE DEF t
    <2>2. /\ sent.KeyUnordered = b.KeyUnordered /\ sent.KeyOrdered = b.KeyOrdered
          /\ sent.ValueUnordered = t /\ sent.ValueOrdered = b.ValueOrdered
      BY <1>2, <1>11 DEF t
    <2>3. Batched(sent)
      BY <1>3, <2>1, <2>2 DEF Batched
    <2>4. QED
      BY <1>11, <2>1, <2>2, <2>3, SpoilDelivered
  <1>12. ASSUME b.ValueOrdered # <<>>, NEW x,
                decodeValue(Nested(OrderedValue, x), c).code # "OK",
                sent = [b EXCEPT !.ValueOrdered = [@ EXCEPT ![1] = x]]
         PROVE  decodeBatch(Deliver(BatchValueResponse, sent), c).code # "OK"
    <2> DEFINE t == [b.ValueOrdered EXCEPT ![1] = x]
    <2>1. IsList(t) /\ Len(t) > 0 /\ t[1] = x
      BY <1>3, <1>12, FirstChanged
    <2> HIDE DEF t
    <2>2. /\ sent.KeyUnordered = b.KeyUnordered /\ sent.KeyOrdered = b.KeyOrdered
          /\ sent.ValueUnordered = b.ValueUnordered /\ sent.ValueOrdered = t
      BY <1>2, <1>12 DEF t
    <2>3. Batched(sent)
      BY <1>3, <2>1, <2>2 DEF Batched
    <2>4. QED
      BY <1>12, <2>1, <2>2, <2>3, SpoilDelivered
  <1>13. CASE /\ b["ValueUnordered"] # <<>>
              /\ \/ sent = [b EXCEPT !["ValueUnordered"][1] = NoPayload(@)]
                 \/ sent = [b EXCEPT !["ValueUnordered"][1] = Resized(@)]
    <2>1. /\ l # "OrderedValues" /\ n > 0 /\ b.ValueUnordered[1] = us[1].value
      <3>1. l # "OrderedValues"
        BY <1>4, <1>13
      <3>2. Len(b.ValueUnordered) = n
        BY <1>3, <1>4, <1>6, <3>1
      <3>3. n > 0
        BY <1>3, <1>7, <1>13, <3>2
      <3>4. 1 \in 1..n
        BY <1>0, <3>3
      <3>5. QED
        BY <1>4, <3>1, <3>3, <3>4
    <2>2. us[1].value \in ValueMessages(Data) /\ Whole(us[1].value.Value)
      BY <1>5, <2>1, MeansWhole
    <2>3. /\ decodeValue(Nested(Value, NoPayload(us[1].value)), c).code # "OK"
          /\ decodeValue(Nested(Value, Resized(us[1].value)), c).code # "OK"
      BY <2>2, MissingRefused, ResizedRefused
    <2>4. CASE sent = [b EXCEPT !["ValueUnordered"][1] = NoPayload(@)]
      <3>1. sent = [b EXCEPT !.ValueUnordered = [@ EXCEPT ![1] = NoPayload(us[1].value)]]
        BY <1>2, <2>1, <2>4
      <3>2. QED
        BY <1>11, <1>13, <2>3, <3>1
    <2>5. CASE sent = [b EXCEPT !["ValueUnordered"][1] = Resized(@)]
      <3>1. sent = [b EXCEPT !.ValueUnordered = [@ EXCEPT ![1] = Resized(us[1].value)]]
        BY <1>2, <2>1, <2>5
      <3>2. QED
        BY <1>11, <1>13, <2>3, <3>1
    <2>6. QED
      BY <1>13, <2>4, <2>5
  <1>14. CASE /\ b["ValueOrdered"] # <<>>
              /\ \/ sent = [b EXCEPT !["ValueOrdered"][1] = NoPayload(@)]
                 \/ sent = [b EXCEPT !["ValueOrdered"][1] = Resized(@)]
    <2>1. /\ l = "OrderedValues" /\ n > 0 /\ b.ValueOrdered[1] = us[1].orderedValue
      <3>1. l = "OrderedValues"
        BY <1>4, <1>14
      <3>2. Len(b.ValueOrdered) = n
        BY <1>3, <1>4, <1>6, <3>1
      <3>3. n > 0
        BY <1>3, <1>7, <1>14, <3>2
      <3>4. 1 \in 1..n
        BY <1>0, <3>3
      <3>5. QED
        BY <1>4, <3>1, <3>3, <3>4
    <2> DEFINE v == us[1].orderedValue
    <2>2. v \in OrderedValueMessages(Data) /\ Whole(v.Value)
      BY <1>5, <2>1, MeansWhole
    <2>3. /\ decodeValue(Nested(OrderedValue, NoPayload(v)), c).code # "OK"
          /\ decodeValue(Nested(OrderedValue, Resized(v)), c).code # "OK"
      BY <2>2, MissingRefused, ResizedRefused
    <2>4. CASE sent = [b EXCEPT !["ValueOrdered"][1] = NoPayload(@)]
      <3>1. sent = [b EXCEPT !.ValueOrdered = [@ EXCEPT ![1] = NoPayload(v)]]
        BY <1>2, <2>1, <2>4
      <3>2. QED
        BY <1>12, <1>14, <2>3, <3>1
    <2>5. CASE sent = [b EXCEPT !["ValueOrdered"][1] = Resized(@)]
      <3>1. sent = [b EXCEPT !.ValueOrdered = [@ EXCEPT ![1] = Resized(v)]]
        BY <1>2, <2>1, <2>5
      <3>2. QED
        BY <1>12, <1>14, <2>3, <3>1
    <2>6. QED
      BY <1>14, <2>4, <2>5
  <1>15. CASE b["KeyUnordered"] # <<>> /\ sent = [b EXCEPT !["KeyUnordered"][1] = NoKey(@)]
    <2>1. l = "Entries"
      BY <1>4, <1>15
    <2>2. /\ n > 0 /\ Len(b.ValueUnordered) = n /\ b.KeyOrdered = <<>>
      BY <1>4, <1>15, <1>k, <2>1
    <2>3. b.KeyUnordered[1] = us[1].key
      <3>1. 1 \in 1..n
        BY <1>0, <2>2
      <3>2. QED
        BY <1>4, <2>1, <3>1
    <2> DEFINE x == NoKey(us[1].key)
               t == [b.KeyUnordered EXCEPT ![1] = x]
    <2>4. decodeKey(Nested(Key, x), c).code # "OK"
      BY <1>5, <2>1, <2>2, MeansWhole, MissingKeyRefused
    <2>5. IsList(t) /\ Len(t) > 0 /\ t[1] = x
      BY <1>3, <1>15, FirstChanged
    <2>6. sent = [b EXCEPT !.KeyUnordered = t]
      BY <1>2, <1>15, <2>3
    <2> HIDE DEF t, x
    <2>7. /\ sent.KeyUnordered = t /\ sent.KeyOrdered = b.KeyOrdered
          /\ sent.ValueUnordered = b.ValueUnordered /\ sent.ValueOrdered = b.ValueOrdered
      BY <1>2, <2>6
    <2>8. Batched(sent)
      BY <1>3, <2>5, <2>7 DEF Batched
    <2>9. QED
      BY <2>2, <2>4, <2>5, <2>7, <2>8, SpoilDelivered
  <1>16. CASE b["KeyOrdered"] # <<>> /\ sent = [b EXCEPT !["KeyOrdered"][1] = NoKey(@)]
    <2>1. l = "OrderedEntries"
      BY <1>4, <1>16
    <2>2. /\ n > 0 /\ Len(b.ValueUnordered) = n /\ b.KeyUnordered = <<>>
      BY <1>4, <1>16, <1>k, <2>1
    <2>3. b.KeyOrdered[1] = us[1].orderedKey
      <3>1. 1 \in 1..n
        BY <1>0, <2>2
      <3>2. QED
        BY <1>4, <2>1, <3>1
    <2> DEFINE x == NoKey(us[1].orderedKey)
               t == [b.KeyOrdered EXCEPT ![1] = x]
    <2>4. decodeKey(Nested(OrderedKey, x), c).code # "OK"
      BY <1>5, <2>1, <2>2, MeansWhole, MissingKeyRefused
    <2>5. IsList(t) /\ Len(t) > 0 /\ t[1] = x
      BY <1>3, <1>16, FirstChanged
    <2>6. sent = [b EXCEPT !.KeyOrdered = t]
      BY <1>2, <1>16, <2>3
    <2> HIDE DEF t, x
    <2>7. /\ sent.KeyUnordered = b.KeyUnordered /\ sent.KeyOrdered = t
          /\ sent.ValueUnordered = b.ValueUnordered /\ sent.ValueOrdered = b.ValueOrdered
      BY <1>2, <2>6
    <2>8. Batched(sent)
      BY <1>3, <2>5, <2>7 DEF Batched
    <2>9. QED
      BY <2>2, <2>4, <2>5, <2>7, <2>8, SpoilDelivered
  <1>17. QED
    <2>1. sent \in Malformed(b)
      BY DEF b
    <2>2. QED
      BY <1>8, <1>9, <1>10, <1>13, <1>14, <1>15, <1>16, <2>1, MalformedCases
-----------------------------------------------------------------------------
(* Map entries without their keys are taken for values.                    *)

(* The value of a map entry is a value.                                    *)
LEMMA ValueAlone ==
  ASSUME NEW l \in {"Entries", "OrderedEntries"}, NEW it, NEW e, NEW s, NEW ttl,
         Means(l, it, e, s, ttl)
  PROVE  LET w == [NoItem EXCEPT !.value = it.value]
         IN  w \in Items /\ \E f : Means("Values", w, f, s, ttl)
  <1> DEFINE w == [NoItem EXCEPT !.value = it.value]
  <1>0. l \in Lists /\ "Values" \in Lists
    BY DEF Lists
  <1>1. PICK p \in Elements(l) : Carries(l, it, p, s, ttl)
    BY DEF Means
  <1>2. it.value \in ValueMessages(Data) /\ it.value # Nil
    BY <1>0, MeansWhole, NilFacts DEF NilApart
  <1>3. SaysValue(it.value, p.Value, ttl, s.config)
    BY <1>1 DEF Carries
  <1>4. p.Value \in Elements("Values")
    <2>1. CASE l = "Entries"
      BY <2>1 DEF Elements
    <2>2. CASE l = "OrderedEntries"
      BY <2>2 DEF Elements
    <2>3. QED
      BY <2>1, <2>2
  <1>5. w = [key |-> Nil, orderedKey |-> Nil, value |-> it.value, orderedValue |-> Nil]
    BY DEF NoItem
  <1> HIDE DEF w
  <1>6. HasParts("Values", w) /\ w \in Items
    BY <1>2, <1>5 DEF HasParts, Items, Pointer
  <1>7. Carries("Values", w, p.Value, s, ttl)
    BY <1>3, <1>5, <1>6 DEF Carries
  <1>8. Means("Values", w, Shown("Values", p.Value, s, ttl), s, ttl)
    BY <1>4, <1>7 DEF Means
  <1>9. QED
    BY <1>6, <1>8 DEF w

(* Entries without their keys are taken for plain values, all of them.     *)
LEMMA KeylessAccepted ==
  ASSUME NEW l \in Lists, NEW us \in Seq(Items), NEW es, NEW s, NEW ttl,
         AllMean(l, us, es, s, ttl), NEW sent \in Keyless(Columns(us)),
         NEW c, c = s.config
  PROVE  LET r == decodeBatch(Deliver(BatchValueResponse, sent), c)
         IN  /\ r.code = "OK"
             /\ \E out : r.value = Only("Values", out) /\ IsList(out) /\ Len(out) = Len(us)
  <1> DEFINE b == Columns(us)
             n == Len(us)
             V(i) == [NoItem EXCEPT !.value = us[i].value]
             ws == [i \in 1..n |-> V(i)]
             fs == [i \in 1..n |-> CHOOSE f : Means("Values", ws[i], f, s, ttl)]
  <1>0. n \in Nat /\ DOMAIN us = 1..n
    BY LenProperties
  <1>1. HasColumns(b, l, us)
    BY BatchDelivered
  <1>2. /\ b.KeyUnordered # <<>> \/ b.KeyOrdered # <<>>
        /\ sent = [b EXCEPT !.KeyUnordered = <<>>, !.KeyOrdered = <<>>]
    BY DEF Keyless
  <1>3. b = [KeyUnordered |-> b.KeyUnordered, KeyOrdered |-> b.KeyOrdered,
             ValueUnordered |-> b.ValueUnordered, ValueOrdered |-> b.ValueOrdered]
    BY DEF Columns
  <1> HIDE DEF b
  <1>4. l \in {"Entries", "OrderedEntries"}
    BY <1>1, <1>2, ColumnFacts
  <1>5. /\ IsList(b.ValueUnordered) /\ DOMAIN b.ValueUnordered = 1..n
        /\ (\A i \in 1..n : b.ValueUnordered[i] = us[i].value) /\ b.ValueOrdered = <<>>
    BY <1>1, <1>4, ColumnFacts DEF Batched
  <1>6. sent = [KeyUnordered |-> <<>>, KeyOrdered |-> <<>>,
                ValueUnordered |-> b.ValueUnordered, ValueOrdered |-> <<>>]
    BY <1>2, <1>3, <1>5
  <1>7. \A i \in 1..n : V(i) \in Items /\ \E f : Means("Values", V(i), f, s, ttl)
    BY <1>0, <1>4, ValueAlone DEF AllMean
  <1>8. \A i \in 1..n : ws[i] = V(i)
    OBVIOUS
  <1>9. \A i \in 1..n : V(i)["value"] = us[i].value
    BY DEF NoItem
  <1> HIDE DEF V
  <1>10. ws \in Seq(Items) /\ Len(ws) = n /\ DOMAIN ws = 1..n
    <2>1. ws = [i \in 1..n |-> ws[i]] /\ ws \in [1..n -> Items]
      BY <1>7
    <2> HIDE DEF ws
    <2>2. QED
      BY <1>0, <2>1, Listed, SeqDef
  <1>11. AllMean("Values", ws, fs, s, ttl)
    <2>1. \A i \in 1..n : fs[i] = CHOOSE f : Means("Values", ws[i], f, s, ttl)
      OBVIOUS
    <2> HIDE DEF fs, ws
    <2>2. \A i \in 1..n : Means("Values", ws[i], fs[i], s, ttl)
      BY <1>7, <1>8, <2>1
    <2>3. QED
      BY <1>10, <2>2 DEF AllMean
  <1> HIDE DEF ws, fs
  <1>12. "Values" \in Lists
    BY DEF Lists
  <1>13. /\ HasColumns(Columns(ws), "Values", ws)
         /\ HasColumns(Deliver(BatchValueResponse, Columns(ws)), "Values", ws)
    BY <1>10, <1>11, <1>12, BatchDelivered
  <1>14. Columns(ws) = sent
    <2> DEFINE a == Columns(ws)
    <2>1. a = [KeyUnordered |-> a.KeyUnordered, KeyOrdered |-> a.KeyOrdered,
               ValueUnordered |-> a.ValueUnordered, ValueOrdered |-> a.ValueOrdered]
      BY DEF Columns
    <2> HIDE DEF a
    <2>2. /\ a.KeyUnordered = <<>> /\ a.KeyOrdered = <<>> /\ a.ValueOrdered = <<>>
          /\ IsList(a.ValueUnordered) /\ DOMAIN a.ValueUnordered = 1..n
          /\ \A i \in 1..n : a.ValueUnordered[i] = ws[i].value
      BY <1>10, <1>12, <1>13, ColumnFacts DEF Batched, a
    <2>3. \A i \in 1..n : a.ValueUnordered[i] = b.ValueUnordered[i]
      BY <1>5, <1>8, <1>9, <2>2
    <2>4. a.ValueUnordered = b.ValueUnordered
      <3>1. /\ a.ValueUnordered = [i \in 1..n |-> a.ValueUnordered[i]]
            /\ b.ValueUnordered = [i \in 1..n |-> b.ValueUnordered[i]]
        BY <1>5, <2>2, ListFacts
      <3>2. QED
        BY <2>3, <3>1
    <2>5. a = sent
      BY <1>6, <2>1, <2>2, <2>4
    <2>6. QED
      BY <2>5 DEF a
  <1>15. QED
    BY <1>10, <1>11, <1>12, <1>13, <1>14, BatchAccepted
-----------------------------------------------------------------------------
(* Counting.                                                               *)

Filled(d) == d = [l \in Lists |-> d[l]] /\ \A l \in Lists : IsList(d[l])

(* The number of items in one list, and in none.                           *)
LEMMA CountOnly ==
  ASSUME NEW l \in Lists, NEW s, IsList(s)
  PROVE  /\ Filled(Only(l, s)) /\ Count(Only(l, s)) = Len(s) /\ Only(l, s)[l] = s
         /\ Filled(NoData) /\ Count(NoData) = 0
  <1>0. /\ "Values" \in Lists /\ "OrderedValues" \in Lists /\ "Entries" \in Lists
        /\ "OrderedEntries" \in Lists
    BY DEF Lists
  <1>1. IsList(<<>>) /\ Len(<<>>) = 0
    BY EmptySeq DEF IsList
  <1>2. \A m \in Lists : NoData[m] = <<>> /\ Only(l, s)[m] = IF m = l THEN s ELSE <<>>
    BY DEF Only, NoData
  <1>3. Filled(Only(l, s)) /\ Filled(NoData)
    BY <1>1, <1>2 DEF Filled, Only, NoData
  <1>4. Count(NoData) = 0
    <2>1. /\ Len(NoData.Values) = 0 /\ Len(NoData.OrderedValues) = 0
          /\ Len(NoData.Entries) = 0 /\ Len(NoData.OrderedEntries) = 0
      BY <1>0, <1>1, <1>2
    <2>2. QED
      BY <2>1 DEF Count
  <1>5. Len(s) \in Nat
    BY ListFacts
  <1> DEFINE d == Only(l, s)
  <1>6. /\ Len(d["Values"]) = IF l = "Values" THEN Len(s) ELSE 0
        /\ Len(d["OrderedValues"]) = IF l = "OrderedValues" THEN Len(s) ELSE 0
        /\ Len(d["Entries"]) = IF l = "Entries" THEN Len(s) ELSE 0
        /\ Len(d["OrderedEntries"]) = IF l = "OrderedEntries" THEN Len(s) ELSE 0
    BY <1>0, <1>1, <1>2
  <1> HIDE DEF d
  <1>7. Count(d) = Len(s)
    <2> DEFINE v == Len(d["Values"])
               o == Len(d["OrderedValues"])
               e == Len(d["Entries"])
               f == Len(d["OrderedEntries"])
               n == Len(s)
    <2>1. /\ n \in Nat
          /\ v = (IF l = "Values" THEN n ELSE 0)
          /\ o = (IF l = "OrderedValues" THEN n ELSE 0)
          /\ e = (IF l = "Entries" THEN n ELSE 0)
          /\ f = (IF l = "OrderedEntries" THEN n ELSE 0)
      BY <1>5, <1>6
    <2>2. Count(d) = v + o + e + f
      BY DEF Count
    <2> HIDE DEF v, o, e, f, n
    <2>3. v + o + e + f = n
      BY <2>1 DEF Lists
    <2>4. QED
      BY <2>2, <2>3 DEF n
  <1>8. QED
    BY <1>2, <1>3, <1>4, <1>7 DEF d

(* The number of items of two sets of lists.                               *)
LEMMA CountConcat ==
  ASSUME NEW d, NEW e, Filled(d), Filled(e)
  PROVE  /\ Filled(Concat(d, e)) /\ Count(Concat(d, e)) = Count(d) + Count(e)
         /\ \A l \in Lists : Concat(d, e)[l] = d[l] \o e[l]
         /\ Count(d) \in Nat
         /\ \A l \in Lists : Len(d[l]) \in Nat /\ Len(d[l]) <= Count(d)
  <1>0. /\ "Values" \in Lists /\ "OrderedValues" \in Lists /\ "Entries" \in Lists
        /\ "OrderedEntries" \in Lists
    BY DEF Lists
  <1> DEFINE f == Concat(d, e)
  <1>1. f = [l \in Lists |-> f[l]] /\ \A l \in Lists : f[l] = d[l] \o e[l]
    BY DEF Concat
  <1> HIDE DEF f
  <1>2. \A l \in Lists : /\ IsList(f[l]) /\ Len(f[l]) = Len(d[l]) + Len(e[l])
                         /\ Len(d[l]) \in Nat /\ Len(e[l]) \in Nat
    <2> TAKE l \in Lists
    <2>1. IsList(d[l]) /\ IsList(e[l])
      BY DEF Filled
    <2>2. f[l] = d[l] \o e[l]
      BY <1>1
    <2>3. IsList(d[l] \o e[l]) /\ Len(d[l] \o e[l]) = Len(d[l]) + Len(e[l])
      BY <2>1, Joined
    <2>4. Len(d[l]) \in Nat /\ Len(e[l]) \in Nat
      BY <2>1, ListFacts
    <2>5. QED
      BY <2>2, <2>3, <2>4
  <1>3. Filled(f)
    BY <1>1, <1>2 DEF Filled
  <1> DEFINE a(l) == Len(d[l])
             b(l) == Len(e[l])
             g(l) == Len(f[l])
             sum(x, y, z, w) == x + y + z + w
  <1>4. /\ Count(d) = sum(a("Values"), a("OrderedValues"), a("Entries"), a("OrderedEntries"))
        /\ Count(e) = sum(b("Values"), b("OrderedValues"), b("Entries"), b("OrderedEntries"))
        /\ Count(f) = sum(g("Values"), g("OrderedValues"), g("Entries"), g("OrderedEntries"))
    BY DEF Count
  <1>5. \A l \in Lists : a(l) \in Nat /\ b(l) \in Nat /\ g(l) = a(l) + b(l)
    BY <1>2
  <1> HIDE DEF a, b, g
  <1>6. Count(f) = Count(d) + Count(e) /\ Count(d) \in Nat
    BY <1>0, <1>4, <1>5
  <1>7. \A l \in Lists : a(l) \in Nat /\ a(l) <= Count(d)
    BY <1>0, <1>4, <1>5 DEF Lists
  <1>8. QED
    BY <1>1, <1>3, <1>6, <1>7 DEF f, a
-----------------------------------------------------------------------------
(* What is selected of a list is selected by place.                        *)

(* Lists of one length are selected alike: what stands at a place of the   *)
(* one selection and of the other stood at one place before.               *)
LEMMA Selection ==
  ASSUME NEW S, NEW s \in Seq(S), NEW T, NEW u \in Seq(T), Len(u) = Len(s),
         NEW pos \in Nat, pos < Len(s), NEW end \in Pointer(Nat), NEW rev \in BOOLEAN
  PROVE  LET a == Select(s, pos, end, rev)
             b == Select(u, pos, end, rev)
         IN  /\ a \in Seq(S) /\ b \in Seq(T) /\ Len(a) = Len(b)
             /\ \A j \in 1..Len(a) : \E i \in 1..Len(s) : a[j] = s[i] /\ b[j] = u[i]
  <1> DEFINE n == Len(s)
             hi == IF end = Nil THEN pos + 1 ELSE IF end < n THEN end + 1 ELSE n
             lo == pos + 1
             p == SubSeq(s, lo, hi)
             q == SubSeq(u, lo, hi)
             m == IF lo <= hi THEN hi - lo + 1 ELSE 0
  <1>0. n \in Nat /\ Len(u) = n
    BY LenProperties
  <1>1. hi \in 0..n /\ lo \in Nat /\ lo >= 1
    <2> HIDE DEF n
    <2>1. CASE end = Nil
      BY <1>0, <2>1 DEF n
    <2>2. CASE end \in Nat
      BY <1>0, <2>2, NilFacts
    <2>3. QED
      BY <2>1, <2>2 DEF Pointer
  <1>2. /\ Select(s, pos, end, rev) = IF rev THEN Reverse(p) ELSE p
        /\ Select(u, pos, end, rev) = IF rev THEN Reverse(q) ELSE q
    BY <1>0 DEF Select
  <1> HIDE DEF n, hi, lo
  <1>3. /\ p \in Seq(S) /\ Len(p) = m /\ (\A i \in 1..Len(p) : p[i] = s[lo + i - 1])
        /\ q \in Seq(T) /\ Len(q) = m /\ (\A i \in 1..Len(q) : q[i] = u[lo + i - 1])
    BY <1>0, <1>1, Cut DEF n
  <1>4. m \in Nat /\ \A i \in 1..m : lo + i - 1 \in 1..n
    BY <1>0, <1>1
  <1> HIDE DEF p, q, m
  <1>5. \A j \in 1..m : \E i \in 1..n : p[j] = s[i] /\ q[j] = u[i]
    BY <1>3, <1>4
  <1>6. CASE ~rev
    BY <1>2, <1>3, <1>5, <1>6 DEF n
  <1>7. CASE rev
    <2>1. Reverse(p) = [i \in 1..m |-> p[(m - i) + 1]] /\ Reverse(q) = [i \in 1..m |-> q[(m - i) + 1]]
      BY <1>3 DEF Reverse
    <2>2. \A i \in 1..m : (m - i) + 1 \in 1..m
      BY <1>4
    <2>3. Reverse(p) \in [1..m -> S] /\ Reverse(q) \in [1..m -> T]
      BY <1>3, <2>1, <2>2, ElementOfSeq
    <2>4. /\ Reverse(p) \in Seq(S) /\ Len(Reverse(p)) = m
          /\ Reverse(q) \in Seq(T) /\ Len(Reverse(q)) = m
      <3>1. Reverse(p) \in Seq(S) /\ Reverse(q) \in Seq(T)
        BY <1>4, <2>3, SeqDef
      <3>2. /\ Reverse(p) = [i \in 1..m |-> Reverse(p)[i]]
            /\ Reverse(q) = [i \in 1..m |-> Reverse(q)[i]]
        BY <2>3
      <3>3. QED
        BY <1>4, <3>1, <3>2, Listed
    <2>5. \A j \in 1..m : \E i \in 1..n : Reverse(p)[j] = s[i] /\ Reverse(q)[j] = u[i]
      BY <1>5, <2>1, <2>2
    <2>6. QED
      BY <1>2, <1>7, <2>4, <2>5 DEF n
  <1>8. QED
    BY <1>6, <1>7

(* The request of a range arrives as it was made.                          *)
LEMMA PositionDelivered ==
  ASSUME NEW k, NEW p, p.Start \in Nat, p.End \in Pointer(Nat), p.Reverse \in BOOLEAN
  PROVE  LET m == Deliver(KeyPositionRequest, positionPB(k, p))
         IN  m.Pos = p.Start /\ m.End = p.End /\ m.Reverse = p.Reverse
  <1> DEFINE m == Deliver(KeyPositionRequest, positionPB(k, p))
  <1>1. /\ m.Pos = Received(Uint, p.Start) /\ m.End = Received(Optional, p.End)
        /\ m.Reverse = Received(Bool, p.Reverse)
    BY DEF Deliver, KeyPositionRequest, positionPB, Received
  <1>2. Received(Uint, p.Start) = p.Start
    BY DEF Received, Field, OnWire, Default, Uint, Scalar
  <1>3. Received(Optional, p.End) = p.End
    BY DEF Received, Field, OnWire, Default, Optional
  <1>4. Received(Bool, p.Reverse) = p.Reverse
    BY DEF Received, Field, OnWire, Default, Bool, Scalar
  <1>5. QED
    BY <1>1, <1>2, <1>3, <1>4
-----------------------------------------------------------------------------
(* What the server selects and what the reader should see.                 *)

L == ListOf(written.type)
TTL == ElementTTL(session, written.type, written.creation)

(* The list of a type; all but the plain one belong to Java-style types.   *)
LEMMA ListOfTypes ==
  ASSUME NEW t
  PROVE  /\ ListOf(t) \in Lists
         /\ ListOf(t) # "Values" <=> t \in {MAP, ORDERED_MAP, ORDERED_SET}
  BY DEF ListOf, Lists

(* SeenKey for the client of the session.                                  *)
LEMMA SeenKeyShown ==
  ASSUME NEW k, session.key.ClientId = session.config.ClientID
  PROVE  SeenKey(k) = ShownKey(k, session)
  <1> DEFINE w == SeenKey(k)
             id == IF k.ClientID # Nil THEN k.ClientID ELSE session.config.ClientID
  <1>1. w = [[Data |-> k.Data, ExpiresAtMillis |-> Nil, Lock |-> Nil, Hint |-> Nil,
              Compression |-> Nil, ClientID |-> Nil] EXCEPT !.Hint = k.Hint, !.ClientID = id]
    BY DEF SeenKey, Payload
  <1>2. KeyOwner(session, k) = id
    BY DEF KeyOwner
  <1> HIDE DEF w, id
  <1>3. /\ DOMAIN w = {"Data", "ExpiresAtMillis", "Lock", "Hint", "Compression", "ClientID"}
        /\ w.Data = k.Data /\ w.ExpiresAtMillis = Nil /\ w.Lock = Nil /\ w.Hint = k.Hint
        /\ w.Compression = Nil /\ w.ClientID = id /\ w = [f \in DOMAIN w |-> w[f]]
    BY <1>1
  <1>4. w = Six(k.Data, Nil, Nil, k.Hint, Nil, id)
    BY <1>3 DEF Six
  <1>5. QED
    BY <1>2, <1>4 DEF w, ShownKey

(* Seen is Shown for the list and the expiration of what was written.      *)
LEMMA SeenShown ==
  ASSUME NEW p, session.key.ClientId = session.config.ClientID,
         written.creation \in BOOLEAN
  PROVE  Seen(L, p) = Shown(L, p, session, TTL)
  <1> DEFINE l == L
             ttl == IF written.creation /\ l # "Values" THEN session.ttl ELSE Nil
  <1>1. TTL = ttl /\ l \in Lists
    BY ListOfTypes DEF TTL, L, ElementTTL
  <1>2. \A k : SeenKey(k) = ShownKey(k, session)
    BY SeenKeyShown
  <1>3. Seen(l, p) =
          CASE l = "Values" -> SeenValue(p, ttl)
            [] l = "OrderedValues" -> Weighted(SeenValue(p, ttl), p.Order)
            [] l = "Entries" ->
                  [Key |-> SeenKey(p.Key), Value |-> SeenValue(p.Value, ttl)]
            [] l = "OrderedEntries" ->
                  [Key |-> Weighted(SeenKey(p.Key), p.Key.Order),
                   Value |-> SeenValue(p.Value, ttl)]
    BY DEF Seen
  <1> HIDE DEF l, ttl
  <1>4. Seen(l, p) = Shown(l, p, session, ttl)
    BY <1>1, <1>2, <1>3 DEF Shown, Lists
  <1>5. QED
    BY <1>1, <1>4 DEF l

(* The container holds what was written.                                   *)
Holds ==
    /\ written.creation \in BOOLEAN
    /\ written.data[L] \in Seq(Elements(L))
    /\ contents \in Seq(Items) /\ Len(contents) = Len(written.data[L])
    /\ \A i \in 1..Len(contents) :
          Carries(L, contents[i], written.data[L][i], session, TTL)

Asks ==
    \/ reader.position = Nil
    \/ /\ reader.position.Start \in Nat /\ reader.position.End \in Pointer(Nat)
       /\ reader.position.Reverse \in BOOLEAN

(* What is sent is what should be read, place by place.                    *)
LEMMA SelectedExpected ==
  ASSUME Holds, Asks, session.key.ClientId = session.config.ClientID
  PROVE  /\ Selected \in Seq(Items) /\ IsList(Expected) /\ Len(Selected) = Len(Expected)
         /\ \A j \in 1..Len(Selected) :
               Means(L, Selected[j], Expected[j], session, TTL)
  <1> DEFINE xs == written.data[L]
             seen == [i \in DOMAIN xs |-> Seen(L, xs[i])]
             n == Len(xs)
             p == reader.position
  <1>1. /\ xs \in Seq(Elements(L)) /\ contents \in Seq(Items) /\ Len(contents) = n
        /\ n \in Nat /\ DOMAIN xs = 1..n
    BY LenProperties DEF Holds
  <1>2. Expected = IF p = Nil THEN seen ELSE IF p.Start >= Len(seen) THEN <<>>
                   ELSE Select(seen, p.Start, p.End, p.Reverse)
    BY DEF Expected, L
  <1>3. \A i \in 1..n : seen[i] = Shown(L, xs[i], session, TTL)
    <2> TAKE i \in 1..n
    <2>1. seen[i] = Seen(L, xs[i])
      BY <1>1
    <2>2. QED
      BY <2>1, SeenShown DEF Holds
  <1> DEFINE T == {seen[i] : i \in 1..n}
  <1>4. seen \in Seq(T) /\ Len(seen) = n
    <2>1. seen = [i \in 1..n |-> seen[i]]
      BY <1>1
    <2> HIDE DEF seen
    <2>2. QED
      BY <1>1, <2>1, Listed
  <1>5. \A i \in 1..n : Means(L, contents[i], seen[i], session, TTL)
    <2> TAKE i \in 1..n
    <2>1. xs[i] \in Elements(L)
      BY <1>1, ElementOfSeq
    <2>2. Carries(L, contents[i], xs[i], session, TTL)
      BY <1>1 DEF Holds
    <2> HIDE DEF seen, xs
    <2>3. QED
      BY <1>3, <2>1, <2>2 DEF Means
  <1> HIDE DEF xs, seen, n, T
  <1>6. CASE p = Nil
    <2>1. Selected = contents /\ Expected = seen
      BY <1>2, <1>6 DEF Selected
    <2>2. QED
      BY <1>1, <1>4, <1>5, <2>1 DEF IsList
  <1>7. CASE p # Nil
    <2> DEFINE m == Deliver(KeyPositionRequest, positionPB(session.key, p))
    <2>1. p.Start \in Nat /\ p.End \in Pointer(Nat) /\ p.Reverse \in BOOLEAN
      BY <1>7 DEF Asks
    <2>2. m.Pos = p.Start /\ m.End = p.End /\ m.Reverse = p.Reverse
      BY <2>1, PositionDelivered
    <2>3. Selected = IF m.Pos >= Len(contents) THEN <<>>
                     ELSE Select(contents, m.Pos, m.End, m.Reverse)
      BY <1>7 DEF Selected
    <2> HIDE DEF m, p
    <2>4. CASE p.Start >= n
      <3>1. Selected = <<>> /\ Expected = <<>>
        BY <1>1, <1>2, <1>4, <1>7, <2>2, <2>3, <2>4
      <3>2. QED
        BY <3>1, EmptySeq DEF IsList
    <2>5. CASE ~(p.Start >= n)
      <3> DEFINE a == Select(contents, p.Start, p.End, p.Reverse)
                 b == Select(seen, p.Start, p.End, p.Reverse)
      <3>1. Selected = a /\ Expected = b
        BY <1>1, <1>2, <1>4, <1>7, <2>2, <2>3, <2>5
      <3>2. p.Start < Len(contents) /\ Len(seen) = Len(contents)
        BY <1>1, <1>4, <2>1, <2>5
      <3>s. contents \in Seq(Items) /\ seen \in Seq(T)
        BY <1>1, <1>4
      <3>3. /\ a \in Seq(Items) /\ b \in Seq(T) /\ Len(a) = Len(b)
            /\ \A j \in 1..Len(a) :
                  \E i \in 1..Len(contents) : a[j] = contents[i] /\ b[j] = seen[i]
        <4> DEFINE i0 == p.Start
                   end == p.End
                   rev == p.Reverse
        <4>1. i0 \in Nat /\ end \in Pointer(Nat) /\ rev \in BOOLEAN /\ i0 < Len(contents)
          BY <2>1, <3>2
        <4> HIDE DEF i0, end, rev
        <4>2. /\ Select(contents, i0, end, rev) \in Seq(Items)
              /\ Select(seen, i0, end, rev) \in Seq(T)
              /\ Len(Select(contents, i0, end, rev)) = Len(Select(seen, i0, end, rev))
              /\ \A j \in 1..Len(Select(contents, i0, end, rev)) :
                    \E i \in 1..Len(contents) :
                       /\ Select(contents, i0, end, rev)[j] = contents[i]
                       /\ Select(seen, i0, end, rev)[j] = seen[i]
          BY <3>2, <3>s, <4>1, Selection
        <4>3. QED
          BY <4>2 DEF i0, end, rev
      <3> HIDE DEF a, b
      <3>4. \A j \in 1..Len(a) : Means(L, a[j], b[j], session, TTL)
        BY <1>1, <1>5, <3>3
      <3>5. QED
        BY <3>1, <3>3, <3>4 DEF IsList
    <2>6. QED
      BY <2>4, <2>5
  <1>8. QED
    BY <1>6, <1>7
-----------------------------------------------------------------------------
(* The inductive invariant.                                                *)

(* The session, and the counters of collect().                             *)
Sessions ==
    /\ session.config \in Configs /\ session.ttl \in Pointer(Nat)
    /\ session.key.ClientId = session.config.ClientID
Counted ==
    /\ Filled(result) /\ chunks \in Nat /\ items = Count(result)
    /\ chunks = 0 => items = 0

(* Before the reader nothing was read; then the container holds what was   *)
(* written, and the reader's range is one.                                 *)
Idle == {"write", "refused", "written"}
Waits ==
    /\ pc \in Idle => reader = Nil /\ chunks = 0 /\ result = NoData
    /\ pc \in Idle \cup {"open"} => progressed = {}
Stores == pc \notin {"write", "refused"} => Holds
Requests == pc \notin Idle => Asks

(* The items still to come are the rest of what should be read.            *)
Rest ==
    /\ todo \in Seq(Items) /\ Len(todo) + items = Len(Expected)
    /\ \A i \in 1..Len(todo) : Means(L, todo[i], Expected[items + i], session, TTL)
Streams == pc = "recv" => Rest

(* An attempt that fails without a PartialError has accepted nothing.      *)
Tries ==
    /\ pc = "recv" /\ chunks = 0 => progressed = {}
    /\ pc = "failed" => error.code # "OK" /\ (~error.partial => progressed = {})

(* What an error says of the batches collect() has taken.                  *)
Told ==
    pc \in {"failed", "returned"} /\ error.code # "OK" =>
        /\ error.partial =>
              /\ error.chunks = chunks /\ error.items = Count(result)
              /\ error.chunks > 0
        /\ ~error.partial => chunks = 0 \/ Unexpected

IInv ==
    /\ Sessions /\ Counted /\ Waits /\ Stores /\ Requests /\ Streams /\ Tries
    /\ PrefixExact /\ NothingDropped /\ Told /\ NoReplayAfterBatch

(* The invariant holds in the beginning.                                   *)
LEMMA InitHolds == Init => IInv
  <1> SUFFICES ASSUME Init PROVE IInv
    OBVIOUS
  <1>1. PICK c \in Configs, ttl \in TTLs :
           session = [key |-> encodeKey(Empty, Nil, c.ClientID, c).value,
                      ttl |-> ttl, config |-> c]
    BY DEF Init
  <1>2. /\ reader = Nil /\ pc = "write" /\ result = NoData /\ chunks = 0 /\ items = 0
        /\ progressed = {}
    BY DEF Init
  <1>3. Sessions
    <2>1. c.MaxDecodedBytes \in Nat /\ Empty.len = 0
      BY CollectAssumption, MessagesAssumption DEF Empty
    <2>2. ~TooLong(Empty, c)
      BY <2>1 DEF TooLong
    <2>3. Encode(Empty, TRUE, c).code = "OK"
      BY <2>2 DEF Encode, Ok, Result
    <2>4. encodeKey(Empty, Nil, c.ClientID, c).value.ClientId = c.ClientID
      BY <2>3 DEF encodeKey, encodeKeyPolicy, Ok, Result
    <2>5. ttl \in Pointer(Nat)
      BY CollectAssumption, MessagesAssumption
    <2>6. QED
      BY <1>1, <2>4, <2>5 DEF Sessions
  <1>4. Counted
    BY <1>2, CountOnly, EmptySeq DEF Counted, IsList, Lists
  <1>5. Waits /\ Stores /\ Requests /\ Streams /\ Tries
    BY <1>2 DEF Waits, Stores, Requests, Streams, Tries, Idle
  <1>6. PrefixExact /\ NothingDropped /\ Told /\ NoReplayAfterBatch
    BY <1>2 DEF PrefixExact, NothingDropped, Told, NoReplayAfterBatch
  <1>7. QED
    BY <1>3, <1>4, <1>5, <1>6 DEF IInv

(* What a write stores.                                                    *)
LEMMA WriteStores ==
  ASSUME Sessions, NEW t, NEW creation \in BOOLEAN, NEW l \in Lists,
         NEW xs \in Seq(Elements(l)), l = ListOf(t) \/ xs # <<>>,
         Write(t, creation, Only(l, xs))
  PROVE  pc' = "refused" \/ (pc' = "written" /\ Holds')
  <1> DEFINE E == encodeItems(session, t, Only(l, xs), creation)
             r == E.value
             ttl == ElementTTL(session, t, creation)
             m(k) == IF creation
                     THEN createRequest(session.key, t, session.ttl, Begin(r, k))
                     ELSE addRequest(session.key, AddType(t, creation), Nil,
                                     Begin(r, k))
             Q == IF creation THEN CreateContainerRequest ELSE AddToRequest
             n(k) == addRequest(session.key, AddType(t, creation), Nil, End(r, k))
  <1>1. /\ written' = [type |-> t, creation |-> creation, data |-> Only(l, xs)]
        /\ session' = session
        /\ \/ pc' = "refused"
           \/ /\ E.code = "OK" /\ pc' = "written"
              /\ \E k \in 0..Len(r) :
                    contents' = Inserted(Q, m(k), AddToRequest, n(k))
    BY DEF Write, Inserted, Begin, End
  <1>2. SUFFICES ASSUME pc' # "refused" PROVE pc' = "written" /\ Holds'
    OBVIOUS
  <1>3. E.code = "OK" /\ pc' = "written"
    BY <1>1, <1>2
  <1>4. PICK k \in 0..Len(r) :
           contents' = Inserted(Q, m(k), AddToRequest, n(k))
    BY <1>1, <1>2
  <1>5. /\ l = ListOf(t)
        /\ r \in Seq(Items) /\ Len(r) = Len(xs)
        /\ \A i \in DOMAIN xs : HasParts(l, r[i]) /\ Carries(l, Sent(r[i]), xs[i], session, ttl)
    <2>1. /\ session.config \in Configs /\ session.ttl \in Pointer(Nat)
          /\ session.key.ClientId \in Pointer(Nat)
      BY CollectAssumption, MessagesAssumption DEF Sessions, Pointer
    <2> DEFINE g == creation
    <2>2. g \in BOOLEAN /\ encodeItems(session, t, Only(l, xs), g).code = "OK"
      BY <1>3
    <2> HIDE DEF g
    <2> DEFINE q == encodeItems(session, t, Only(l, xs), g).value
               w == ElementTTL(session, t, g)
    <2>3. l = ListOf(t) \/ xs = <<>>
      BY <2>1, <2>2, ItemsEncoded
    <2>4. Encoded(q, l, xs, session, w)
      BY <2>1, <2>2, ItemsEncoded
    <2>5. q = r /\ w = ttl
      BY DEF g
    <2> HIDE DEF q, w, r, ttl
    <2>6. QED
      BY <2>3, <2>4, <2>5 DEF Encoded
  <1>6. DOMAIN r = 1..Len(xs) /\ DOMAIN xs = 1..Len(xs) /\ Len(xs) \in Nat
    BY <1>5, LenProperties
  <1>7. Tabled(m(k), Begin(r, k)) /\ Tabled(n(k), End(r, k))
    BY RequestColumns DEF Tabled
  <1>8. Q \in Insertions /\ AddToRequest \in Insertions
    BY DEF Insertions
  <1> DEFINE mk == m(k)
             nk == n(k)
  <1> HIDE DEF m, n, Q, r, E, ttl
  <1>9. contents' = SentAll(r)
    <2>1. Parted(l, r)
      BY <1>5, <1>6 DEF Parted
    <2>2. Tabled(mk, Begin(r, k)) /\ Tabled(nk, End(r, k))
      BY <1>7
    <2> HIDE DEF mk, nk
    <2>3. Inserted(Q, mk, AddToRequest, nk) = SentAll(r)
      BY <1>4, <1>5, <1>8, <2>1, <2>2, Stored
    <2>4. QED
      BY <1>4, <2>3 DEF mk, nk
  <1> DEFINE c == SentAll(r)
  <1>10. c \in Seq(Items) /\ Len(c) = Len(xs)
    <2>1. Len(c) = Len(xs) /\ DOMAIN c = 1..Len(xs) /\ IsList(c)
      BY <1>5, SentList
    <2>2. \A i \in 1..Len(xs) : c[i] \in Items
      BY <1>5, <1>6 DEF SentAll, Carries, HasParts
    <2> HIDE DEF c
    <2>3. c = [i \in 1..Len(c) |-> c[i]]
      BY <2>1, ListFacts
    <2>4. c \in [1..Len(xs) -> Items]
      BY <2>1, <2>2, <2>3
    <2>5. c \in Seq(Items)
      BY <1>6, <2>4, SeqDef
    <2>6. QED
      BY <2>1, <2>5
  <1>11. \A i \in 1..Len(xs) : Carries(l, c[i], xs[i], session, ttl)
    BY <1>5, <1>6 DEF SentAll
  <1> HIDE DEF c
  <1>12. L' = l /\ TTL' = ttl
    BY <1>1, <1>5 DEF L, TTL, ttl
  <1>13. written'.data[l] = xs /\ written'.creation = creation
    BY <1>1 DEF Only, NoData
  <1>14. Holds'
    BY <1>1, <1>9, <1>10, <1>11, <1>12, <1>13 DEF Holds, c
  <1>15. QED
    BY <1>3, <1>14

(* What the reader should see depends on the calls only.                   *)
LEMMA CallsKept ==
  ASSUME UNCHANGED <<session, written, contents, reader>>
  PROVE  /\ Expected' = Expected /\ L' = L /\ TTL' = TTL
         /\ Holds' = Holds /\ Asks' = Asks /\ Sessions' = Sessions
  <1>1. /\ session' = session /\ written' = written /\ contents' = contents
        /\ reader' = reader
    OBVIOUS
  <1>2. \A k : SeenKey(k)' = SeenKey(k)
    BY <1>1 DEF SeenKey
  <1>3. \A l, p : Seen(l, p)' = Seen(l, p)
    BY <1>1, <1>2 DEF Seen
  <1>4. Expected' = Expected
    BY <1>1, <1>3 DEF Expected
  <1>5. L' = L /\ TTL' = TTL
    BY <1>1 DEF L, TTL
  <1>6. QED
    BY <1>1, <1>4, <1>5 DEF Holds, Asks, Sessions

(* What should be read is a list.                                          *)
LEMMA ExpectedList ==
  Holds /\ Asks /\ Sessions => IsList(Expected) /\ Len(Expected) \in Nat
  BY SelectedExpected, ListFacts DEF Sessions

(* The same in the next state.                                             *)
LEMMA ExpectedListNext ==
  (Holds /\ Asks /\ Sessions)' => (IsList(Expected) /\ Len(Expected) \in Nat)'
  BY ExpectedList, PTL

(* A creation or an insertion.                                             *)
LEMMA WriteKeeps ==
  ASSUME IInv, NEW t, NEW creation \in BOOLEAN, NEW l \in Lists,
         NEW xs \in Seq(Elements(l)), l = ListOf(t) \/ xs # <<>>,
         Write(t, creation, Only(l, xs))
  PROVE  IInv'
  <1>1. pc' = "refused" \/ (pc' = "written" /\ Holds')
    BY WriteStores DEF IInv
  <1>2. /\ pc = "write"
        /\ UNCHANGED <<session, reader, attempt, todo, result, chunks, items, error,
                       foreign, progressed>>
    BY DEF Write
  <1>3. reader = Nil /\ chunks = 0 /\ result = NoData /\ progressed = {}
    BY <1>2 DEF IInv, Waits, Idle
  <1>4. Sessions' /\ Counted'
    BY <1>2 DEF IInv, Sessions, Counted
  <1>5. Waits' /\ Stores' /\ Requests' /\ Streams' /\ Tries'
    BY <1>1, <1>2, <1>3 DEF Waits, Stores, Requests, Streams, Tries, Idle
  <1>6. PrefixExact' /\ NothingDropped' /\ Told' /\ NoReplayAfterBatch'
    BY <1>1, <1>2, <1>3
    DEF PrefixExact, NothingDropped, Told, NoReplayAfterBatch
  <1>7. QED
    BY <1>4, <1>5, <1>6 DEF IInv

(* A reader is called.                                                     *)
LEMMA ReadKeeps ==
  ASSUME IInv, NEW name \in Readers, NEW r \in Spans, NEW t \in RangeTypes(name),
         Read(name, r, t)
  PROVE  IInv'
  <1>1. /\ pc = "written"
        /\ reader' = [op |-> name,
                      position |-> IF name \in Ranges
                                   THEN Position(r.start, r.end, t, r.reverse) ELSE Nil]
        /\ \/ pc' = "returned" /\ error' = Error("InvalidArgument")
           \/ pc' = "open"
        /\ UNCHANGED <<session, written, contents, attempt, todo, result, chunks, items,
                       foreign, progressed>>
    BY DEF Read, writeVars
  <1>2. /\ reader = Nil /\ chunks = 0 /\ result = NoData /\ progressed = {}
        /\ Holds /\ Sessions /\ Counted
    BY <1>1 DEF IInv, Waits, Stores, Idle
  <1>3. items = 0 /\ result[L] = <<>> /\ Len(result[L]) = 0 /\ Count(result) = 0
    BY <1>2, CountOnly, EmptySeq, ListOfTypes DEF Counted, IsList, L, NoData
  <1>4. Holds' /\ L' = L
    BY <1>1, <1>2 DEF Holds, L, TTL
  <1>5. Sessions' /\ Counted'
    BY <1>1, <1>2 DEF Sessions, Counted
  <1>6. Asks'
    <2>1. r.start \in Nat /\ r.end \in Nat /\ r.reverse \in BOOLEAN
      BY CollectAssumption, MessagesAssumption
    <2>2. CASE name \in Ranges
      <3>1. reader'.position = Position(r.start, r.end, t, r.reverse)
        BY <1>1, <2>2
      <3>2. QED
        BY <2>1, <3>1 DEF Asks, Position, Pointer
    <2>3. CASE name \notin Ranges
      BY <1>1, <2>3 DEF Asks
    <2>4. QED
      BY <2>2, <2>3
  <1>7. Len(Expected') \in Nat
    BY <1>4, <1>5, <1>6, ExpectedListNext
  <1>8. Waits' /\ Stores' /\ Requests' /\ Streams' /\ Tries'
    BY <1>1, <1>2, <1>4, <1>6 DEF Waits, Stores, Requests, Streams, Tries, Idle
  <1>9. PrefixExact'
    <2>1. items' = 0 /\ Count(result') = 0 /\ Len(result'[L']) = 0
      BY <1>1, <1>3, <1>4
    <2>2. items' <= Len(Expected') /\ 1..items' = {}
      BY <1>7, <2>1
    <2>3. QED
      BY <2>1, <2>2 DEF PrefixExact, L
  <1>10. NothingDropped' /\ Told' /\ NoReplayAfterBatch'
    BY <1>1, <1>2 DEF NothingDropped, Told, NoReplayAfterBatch, Error
  <1>11. QED
    BY <1>5, <1>8, <1>9, <1>10 DEF IInv

(* A stream is opened.                                                     *)
LEMMA OpenKeeps ==
  ASSUME IInv, Open
  PROVE  IInv'
  <1>1. /\ pc = "open"
        /\ result' = NoData /\ chunks' = 0 /\ items' = 0 /\ foreign' = FALSE
        /\ UNCHANGED <<session, written, contents, reader, progressed>>
        /\ \/ pc' = "returned" /\ error' = Error("InvalidArgument")
           \/ /\ pc' = "failed"
              /\ error' \in {Error(code) : code \in {"ResourceExhausted"} \cup Movable}
           \/ pc' = "recv" /\ todo' = Selected
    BY DEF Open, writeVars
  <1>2. progressed = {} /\ Holds /\ Asks /\ Sessions
    BY <1>1 DEF IInv, Waits, Stores, Requests, Idle
  <1>3. /\ Expected' = Expected /\ L' = L /\ TTL' = TTL /\ session' = session
        /\ Holds' /\ Asks' /\ Sessions'
    BY <1>1, <1>2, CallsKept
  <1>4. L \in Lists /\ IsList(<<>>)
    BY ListOfTypes, EmptySeq DEF L, IsList
  <1>5. Filled(NoData) /\ Count(NoData) = 0 /\ Len(NoData[L]) = 0
    BY <1>4, CountOnly, EmptySeq DEF NoData
  <1>6. Counted'
    BY <1>1, <1>5 DEF Counted
  <1>7. Waits' /\ Stores' /\ Requests'
    BY <1>1, <1>2, <1>3 DEF Waits, Stores, Requests, Idle
  <1>8. Streams'
    <2>1. SUFFICES ASSUME pc' = "recv" PROVE Rest'
      BY DEF Streams
    <2>2. todo' = Selected
      BY <1>1, <2>1
    <2>3. /\ Selected \in Seq(Items) /\ Len(Selected) = Len(Expected)
          /\ \A j \in 1..Len(Selected) :
                Means(L, Selected[j], Expected[j], session, TTL)
      BY <1>2, SelectedExpected DEF Sessions
    <2>4. Len(Selected) \in Nat
      BY <2>3, LenProperties
    <2> DEFINE s == Selected
               e == Expected
    <2> HIDE DEF s, e
    <2>5. \A j \in 1..Len(s) : Means(L, s[j], e[0 + j], session, TTL)
      <3> TAKE j \in 1..Len(s)
      <3>1. 0 + j = j
        OBVIOUS
      <3>2. QED
        BY <2>3, <3>1 DEF s, e
    <2>6. s \in Seq(Items) /\ Len(s) + 0 = Len(e)
      BY <2>3, <2>4 DEF s, e
    <2>7. QED
      BY <1>1, <1>3, <2>2, <2>5, <2>6 DEF Rest, s, e
  <1>9. Tries'
    BY <1>1, <1>2 DEF Tries, Error, Movable
  <1>10. PrefixExact'
    <2>1. Len(Expected) \in Nat
      BY <1>2, ExpectedList
    <2>2. Count(result') = 0 /\ Len(result'[L']) = 0 /\ items' <= Len(Expected')
          /\ 1..items' = {}
      BY <1>1, <1>3, <1>5, <2>1
    <2>3. QED
      BY <1>1, <2>2 DEF PrefixExact, L
  <1>11. NothingDropped' /\ Told' /\ NoReplayAfterBatch'
    BY <1>1, <1>2 DEF NothingDropped, Told, NoReplayAfterBatch, Error, Movable
  <1>12. QED
    BY <1>3, <1>6, <1>7, <1>8, <1>9, <1>10, <1>11 DEF IInv

(* What is left of a stream after a batch.                                 *)
LEMMA RestAfter ==
  ASSUME Rest, NEW k \in 0..Len(todo), items \in Nat, todo' = End(todo, k),
         UNCHANGED <<session, written, contents, reader>>, items' = items + k
  PROVE  Rest'
  <1>1. /\ todo \in Seq(Items) /\ Len(todo) \in Nat /\ k \in Nat /\ k <= Len(todo)
        /\ Len(todo) + items = Len(Expected)
    BY LenProperties DEF Rest
  <1>2. /\ End(todo, k) \in Seq(Items) /\ Len(End(todo, k)) = Len(todo) - k
        /\ \A i \in 1..(Len(todo) - k) : End(todo, k)[i] = todo[k + i]
    BY <1>1, TwoCuts DEF End
  <1>3. Expected' = Expected /\ L' = L /\ TTL' = TTL /\ session' = session
    BY CallsKept
  <1> DEFINE n == Len(todo)
             e == Expected
  <1> HIDE DEF n, e
  <1>4. Len(todo') = n - k /\ n \in Nat /\ n + items = Len(e)
    BY <1>1, <1>2 DEF n, e
  <1>5. (n - k) + (items + k) = Len(e)
    BY <1>1, <1>4
  <1>6. \A i \in 1..(n - k) : Means(L, todo'[i], e[(items + k) + i], session, TTL)
    <2> TAKE i \in 1..(n - k)
    <2>1. k + i \in 1..n /\ items + (k + i) = (items + k) + i
      BY <1>1, <1>4
    <2>2. Means(L, todo[k + i], e[items + (k + i)], session, TTL)
      BY <2>1 DEF Rest, n, e
    <2>3. todo'[i] = todo[k + i]
      BY <1>2 DEF n
    <2>4. QED
      BY <2>1, <2>2, <2>3
  <1>7. todo' \in Seq(Items)
    BY <1>2
  <1>8. QED
    BY <1>3, <1>4, <1>5, <1>6, <1>7 DEF Rest, e

(* The batch a client takes has the items that were sent; unless their     *)
(* keys were left out, they are the next ones that should be read.         *)
Batch(d, k, foreignly) ==
    \E m \in Lists : \E out :
       /\ d = Only(m, out) /\ IsList(out) /\ Len(out) = k
       /\ ~foreignly => /\ m = L
                        /\ \A i \in 1..k : Plainly(L, out[i]) = Expected[items + i]

(* Only a batch as the server holds it, or one without keys, is taken.     *)
LEMMA BatchTaken ==
  ASSUME Rest, items \in Nat, NEW k \in 0..Len(todo), NEW b, b = Columns(Begin(todo, k)),
         NEW sent \in {b} \cup Malformed(b) \cup Keyless(b),
         NEW r, r = decodeBatch(Deliver(BatchValueResponse, sent), session.config),
         r.code = "OK"
  PROVE  Batch(r.value, k, sent \in Keyless(b))
  <1> DEFINE us == Begin(todo, k)
             es == [i \in 1..k |-> Expected[items + i]]
             c == session.config
  <1>1. L \in Lists
    BY ListOfTypes DEF L
  <1>2. todo \in Seq(Items) /\ Len(todo) \in Nat /\ k \in Nat /\ k <= Len(todo)
    BY LenProperties DEF Rest
  <1>3. us \in Seq(Items) /\ Len(us) = k /\ \A i \in 1..k : us[i] = todo[i]
    BY <1>2, TwoCuts DEF Begin
  <1>4. DOMAIN us = 1..k
    BY <1>3, LenProperties
  <1>5. AllMean(L, us, es, session, TTL)
    <2>1. SUFFICES ASSUME NEW i \in 1..k PROVE Means(L, us[i], es[i], session, TTL)
      BY <1>4 DEF AllMean
    <2>2. i \in 1..Len(todo) /\ us[i] = todo[i]
      BY <1>2, <1>3
    <2>3. es[i] = Expected[items + i]
      OBVIOUS
    <2> HIDE DEF us, es
    <2>4. QED
      BY <2>2, <2>3 DEF Rest
  <1>6. \A i \in 1..k : es[i] = Expected[items + i]
    OBVIOUS
  <1> HIDE DEF us, es
  <1>7. CASE sent \in Malformed(b)
    BY <1>1, <1>3, <1>5, <1>7, MalformedRefused DEF us
  <1>8. CASE sent \in Keyless(b)
    <2>1. PICK out : r.value = Only("Values", out) /\ IsList(out) /\ Len(out) = Len(us)
      BY <1>1, <1>3, <1>5, <1>8, KeylessAccepted DEF us
    <2>2. "Values" \in Lists
      BY DEF Lists
    <2>3. QED
      BY <1>3, <1>8, <2>1, <2>2 DEF Batch
  <1>9. CASE sent = b
    <2> DEFINE B == Deliver(BatchValueResponse, Columns(us))
    <2>1. HasColumns(B, L, us) /\ r = decodeBatch(B, c)
      BY <1>1, <1>3, <1>5, <1>9, BatchDelivered DEF us
    <2> HIDE DEF B
    <2>2. PICK out : /\ r.value = Only(L, out) /\ IsList(out) /\ Len(out) = Len(us)
                     /\ \A i \in 1..Len(us) : Plainly(L, out[i]) = es[i]
      BY <1>1, <1>3, <1>5, <2>1, BatchAccepted
    <2>3. \A i \in 1..k : Plainly(L, out[i]) = Expected[items + i]
      BY <1>3, <1>6, <2>2
    <2>4. QED
      BY <1>1, <1>3, <2>2, <2>3 DEF Batch
  <1>10. QED
    BY <1>7, <1>8, <1>9

(* The lists with a batch added.                                           *)
LEMMA Extended ==
  ASSUME NEW d, Filled(d), NEW m \in Lists, NEW out, IsList(out)
  PROVE  LET e == Concat(d, Only(m, out))
         IN  /\ Filled(e) /\ Count(e) = Count(d) + Len(out)
             /\ Len(e[m]) = Len(d[m]) + Len(out)
             /\ \A i \in 1..Len(d[m]) : e[m][i] = d[m][i]
             /\ \A i \in 1..Len(out) : e[m][Len(d[m]) + i] = out[i]
  <1> DEFINE o == Only(m, out)
             e == Concat(d, o)
             a == d[m]
  <1>1. Filled(o) /\ Count(o) = Len(out) /\ o[m] = out
    BY CountOnly
  <1> HIDE DEF o
  <1>2. Filled(e) /\ Count(e) = Count(d) + Count(o) /\ e[m] = a \o o[m]
    BY <1>1, CountConcat
  <1>3. IsList(a) /\ Len(a) \in Nat /\ Len(out) \in Nat
    BY ListFacts DEF Filled
  <1>4. /\ Len(a \o out) = Len(a) + Len(out)
        /\ \A i \in 1..(Len(a) + Len(out)) :
              (a \o out)[i] = IF i <= Len(a) THEN a[i] ELSE out[i - Len(a)]
    BY <1>3, Joined
  <1> DEFINE x == Len(a)
             y == Len(out)
             w == a \o out
  <1> HIDE DEF e, a, x, y, w
  <1>5. /\ x \in Nat /\ y \in Nat
        /\ \A i \in 1..(x + y) : w[i] = IF i <= x THEN a[i] ELSE out[i - x]
    BY <1>3, <1>4 DEF x, y, w
  <1>6. \A i \in 1..x : w[i] = a[i]
    BY <1>5
  <1>7. \A i \in 1..y : w[x + i] = out[i]
    <2> TAKE i \in 1..y
    <2>1. x + i \in 1..(x + y) /\ ~(x + i <= x) /\ (x + i) - x = i
      BY <1>5
    <2>2. QED
      BY <1>5, <2>1
  <1>8. QED
    BY <1>1, <1>2, <1>4, <1>6, <1>7 DEF a, x, y, w, e, o

(* An error after some batch.                                              *)
LEMMA PartialSays ==
  ASSUME NEW code, code # "OK", chunks \in Nat
  PROVE  /\ Partial(code).code # "OK" /\ Partial(code).chunks = chunks
         /\ chunks > 0 => Partial(code).partial = TRUE /\ Partial(code).items = items
         /\ chunks = 0 => Partial(code).partial = FALSE
  <1> DEFINE some == chunks > 0
  <1>1. chunks = 0 => some = FALSE
    OBVIOUS
  <1>2. /\ Partial(code).code = code /\ Partial(code).chunks = chunks
        /\ Partial(code).partial = some
    BY DEF Partial
  <1>3. chunks > 0 => Partial(code).items = items
    BY DEF Partial
  <1>4. chunks > 0 => Partial(code).partial = TRUE
    BY DEF Partial
  <1>5. chunks = 0 => Partial(code).partial = FALSE
    <2> HIDE DEF some
    <2>1. QED
      BY <1>1, <1>2
  <1>6. QED
    BY <1>2, <1>3, <1>4, <1>5

(* A batch arrives: taken whole, or refused with an error.                 *)
LEMMA RecvKeeps ==
  ASSUME IInv, Recv
  PROVE  IInv'
  <1>1. PICK k \in 0..Len(todo) :
           LET b == Columns(SubSeq(todo, 1, k))
           IN  /\ \E sent \in {b} \cup Malformed(b) \cup Keyless(b) :
                    /\ LET r == decodeBatch(Deliver(BatchValueResponse, sent),
                                            session.config)
                       IN  \/ r.code = "OK" /\ Accept(r.value)
                           \/ /\ r.code # "OK"
                              /\ error' = Partial(r.code) /\ pc' = "returned"
                              /\ UNCHANGED <<result, chunks, items, progressed>>
                    /\ foreign' = (foreign \/ sent \in Keyless(b))
               /\ todo' = SubSeq(todo, k + 1, Len(todo))
    BY DEF Recv
  <1> DEFINE b == Columns(Begin(todo, k))
  <1>2. PICK sent \in {b} \cup Malformed(b) \cup Keyless(b) :
           /\ LET r == decodeBatch(Deliver(BatchValueResponse, sent), session.config)
              IN  \/ r.code = "OK" /\ Accept(r.value)
                  \/ /\ r.code # "OK"
                     /\ error' = Partial(r.code) /\ pc' = "returned"
                     /\ UNCHANGED <<result, chunks, items, progressed>>
           /\ foreign' = (foreign \/ sent \in Keyless(b))
    BY <1>1 DEF Begin
  <1> DEFINE r == decodeBatch(Deliver(BatchValueResponse, sent), session.config)
             odd == sent \in Keyless(b)
  <1>3. \/ r.code = "OK" /\ Accept(r.value)
        \/ /\ r.code # "OK"
           /\ error' = Partial(r.code) /\ pc' = "returned"
           /\ UNCHANGED <<result, chunks, items, progressed>>
    BY <1>2
  <1>4. foreign' = (foreign \/ odd)
    BY <1>2
  <1>5. todo' = End(todo, k)
    BY <1>1 DEF End
  <1>6. /\ pc = "recv" /\ UNCHANGED <<session, written, contents, reader, attempt>>
    BY DEF Recv, writeVars
  <1>7. /\ Rest /\ Holds /\ Asks /\ Sessions /\ Counted /\ PrefixExact /\ NoReplayAfterBatch
    BY <1>6 DEF IInv, Streams, Stores, Requests, Idle
  <1>8. items \in Nat /\ items = Count(result) /\ Filled(result) /\ chunks \in Nat
    BY <1>7, CountConcat DEF Counted
  <1>9. /\ Expected' = Expected /\ L' = L /\ TTL' = TTL /\ Holds' /\ Asks' /\ Sessions'
    BY <1>6, <1>7, CallsKept
  <1>b. ASSUME r.code = "OK" PROVE Batch(r.value, k, odd)
    BY <1>2, <1>7, <1>8, <1>b, BatchTaken
  <1> HIDE DEF b, r, odd
  <1>10. CASE r.code # "OK"
    <2>1. /\ error' = Partial(r.code) /\ pc' = "returned"
          /\ UNCHANGED <<result, chunks, items, progressed>>
      BY <1>3, <1>10
    <2>2. Counted'
      BY <1>7, <2>1 DEF Counted
    <2>3. Waits' /\ Stores' /\ Requests' /\ Streams' /\ Tries'
      BY <1>9, <2>1 DEF Waits, Stores, Requests, Streams, Tries, Idle
    <2>4. PrefixExact'
      BY <1>4, <1>6, <1>7, <1>9, <2>1 DEF PrefixExact, L
    <2>5. /\ error'.code # "OK" /\ error'.chunks = chunks
          /\ chunks > 0 => error'.partial = TRUE /\ error'.items = items
          /\ chunks = 0 => error'.partial = FALSE
      BY <1>8, <1>10, <2>1, PartialSays
    <2>6. NothingDropped'
      BY <2>5 DEF NothingDropped
    <2>7. Told'
      <3>1. error'.chunks = chunks' /\ Count(result') = items /\ chunks' = chunks
        BY <1>8, <2>1, <2>5
      <3>2. CASE chunks > 0
        <4>1. error'.partial = TRUE /\ error'.items = items
          BY <2>5, <3>2
        <4>2. error'.items = Count(result') /\ error'.chunks > 0
          BY <3>1, <3>2, <4>1
        <4>3. QED
          BY <3>1, <4>1, <4>2 DEF Told
      <3>3. CASE chunks = 0
        BY <2>5, <3>1, <3>3 DEF Told
      <3>4. QED
        BY <1>8, <3>2, <3>3
    <2>8. NoReplayAfterBatch'
      BY <1>6, <1>7, <2>1 DEF NoReplayAfterBatch
    <2>9. QED
      BY <1>9, <2>2, <2>3, <2>4, <2>6, <2>7, <2>8 DEF IInv
  <1>11. CASE r.code = "OK"
    <2>1. /\ result' = Concat(result, r.value)
          /\ chunks' = chunks + 1 /\ items' = items + Count(r.value)
          /\ progressed' = progressed \cup {attempt}
          /\ pc' = "recv" /\ error' = error
      BY <1>3, <1>6, <1>11 DEF Accept
    <2>2. PICK m \in Lists : \E out :
             /\ r.value = Only(m, out) /\ IsList(out) /\ Len(out) = k
             /\ ~odd => /\ m = L
                        /\ \A i \in 1..k : Plainly(L, out[i]) = Expected[items + i]
      BY <1>b, <1>11 DEF Batch
    <2>3. PICK out :
             /\ r.value = Only(m, out) /\ IsList(out) /\ Len(out) = k
             /\ ~odd => /\ m = L
                        /\ \A i \in 1..k : Plainly(L, out[i]) = Expected[items + i]
      BY <2>2
    <2>4. k \in Nat
      BY <2>3, ListFacts
    <2>5. Count(r.value) = k
      BY <2>2, <2>3, CountOnly
    <2>6. items' = items + k
      BY <2>1, <2>5
    <2>7. /\ Filled(result') /\ Count(result') = Count(result) + k
          /\ Len(result'[m]) = Len(result[m]) + k
          /\ \A i \in 1..Len(result[m]) : result'[m][i] = result[m][i]
          /\ \A i \in 1..k : result'[m][Len(result[m]) + i] = out[i]
      <3> DEFINE e == Concat(result, Only(m, out))
      <3>1. e = result'
        BY <2>1, <2>3
      <3>2. Filled(e) /\ Count(e) = Count(result) + k
        BY <1>8, <2>2, <2>3, Extended
      <3> DEFINE n == Len(out)
      <3>n. m \in Lists /\ IsList(out) /\ Filled(result)
        BY <1>8, <2>2, <2>3
      <3>3. Len(e[m]) = Len(result[m]) + n
        BY <3>n, Extended
      <3>4. \A i \in 1..Len(result[m]) : e[m][i] = result[m][i]
        BY <3>n, Extended
      <3>5. \A i \in 1..n : e[m][Len(result[m]) + i] = out[i]
        BY <3>n, Extended
      <3>k. n = k
        BY <2>3
      <3> HIDE DEF e, n
      <3>6. QED
        BY <3>1, <3>2, <3>3, <3>4, <3>5, <3>k
    <2>8. Counted'
      BY <1>8, <2>1, <2>6, <2>7 DEF Counted
    <2>9. Rest'
      BY <1>1, <1>5, <1>6, <1>7, <1>8, <2>6, RestAfter
    <2>10. Waits' /\ Stores' /\ Requests' /\ Streams'
      BY <1>9, <2>1, <2>9 DEF Waits, Stores, Requests, Streams, Idle
    <2>11. Tries'
      BY <1>8, <2>1 DEF Tries
    <2>12. PrefixExact'
      <3>1. SUFFICES ASSUME ~foreign, ~odd
                     PROVE  /\ Count(result') = Len(result'[L])
                            /\ items' <= Len(Expected)
                            /\ \A i \in 1..items' : Plainly(L, result'[L][i]) = Expected[i]
        BY <1>4, <1>6, <1>9, <2>8 DEF PrefixExact, L, Counted
      <3>2. /\ Count(result) = Len(result[L]) /\ Len(result[L]) = items
            /\ \A i \in 1..items : Plainly(L, result[L][i]) = Expected[i]
        BY <1>6, <1>7, <1>8, <3>1 DEF PrefixExact, L
      <3>3. m = L /\ \A i \in 1..k : Plainly(L, out[i]) = Expected[items + i]
        BY <2>3, <3>1
      <3>4. Count(result') = Len(result'[L])
        BY <1>8, <2>4, <2>7, <3>2, <3>3
      <3>5. items' <= Len(Expected)
        <4>1. Len(todo') + items' = Len(Expected) /\ Len(todo') \in Nat
          BY <1>9, <2>9, LenProperties DEF Rest
        <4>2. items' \in Nat
          BY <1>8, <2>4, <2>6
        <4> HIDE DEF Expected
        <4>3. QED
          BY <4>1, <4>2
      <3>6. ASSUME NEW i \in 1..items' PROVE Plainly(L, result'[L][i]) = Expected[i]
        <4>1. CASE i <= items
          <5>1. i \in 1..items
            BY <1>8, <2>4, <2>6, <4>1
          <5>2. QED
            BY <2>7, <3>2, <3>3, <5>1
        <4>2. CASE ~(i <= items)
          <5>1. i - items \in 1..k /\ items + (i - items) = i
            BY <1>8, <2>4, <2>6, <4>2
          <5> DEFINE j == i - items
          <5>2. result'[m][items + j] = out[j]
            BY <2>7, <3>2, <3>3, <5>1
          <5>3. Plainly(L, out[j]) = Expected[items + j]
            BY <3>3, <5>1
          <5>4. QED
            BY <3>3, <5>1, <5>2, <5>3
        <4>3. QED
          BY <4>1, <4>2
      <3>7. QED
        BY <3>4, <3>5, <3>6
    <2>13. NothingDropped' /\ Told' /\ NoReplayAfterBatch'
      BY <1>6, <1>7, <2>1 DEF NothingDropped, Told, NoReplayAfterBatch
    <2>14. QED
      BY <1>9, <2>8, <2>10, <2>11, <2>12, <2>13 DEF IInv
  <1>12. QED
    BY <1>10, <1>11

(* The stream breaks.                                                      *)
LEMMA BreakKeeps ==
  ASSUME IInv, Break
  PROVE  IInv'
  <1>1. /\ pc = "recv" /\ pc' = "failed"
        /\ error' \in {Partial(code) : code \in Movable}
        /\ UNCHANGED <<session, written, contents, reader, attempt, todo, result, chunks,
                       items, foreign, progressed>>
    BY DEF Break, writeVars
  <1>2. /\ Rest /\ Holds /\ Asks /\ Sessions /\ Counted /\ PrefixExact /\ Tries
        /\ NoReplayAfterBatch
    BY <1>1 DEF IInv, Streams, Stores, Requests, Idle
  <1>3. Expected' = Expected /\ L' = L /\ Holds' /\ Asks' /\ Sessions'
    BY <1>1, <1>2, CallsKept
  <1>4. PICK code \in Movable : error' = Partial(code)
    BY <1>1
  <1>5. chunks \in Nat /\ code # "OK"
    BY <1>2, <1>4 DEF Counted, Movable
  <1>6. /\ error'.code # "OK" /\ error'.chunks = chunks
        /\ chunks > 0 => error'.partial = TRUE /\ error'.items = items
        /\ chunks = 0 => error'.partial = FALSE
    BY <1>4, <1>5, PartialSays
  <1>7. Counted' /\ Waits' /\ Stores' /\ Requests' /\ Streams'
    BY <1>1, <1>2, <1>3 DEF Counted, Waits, Stores, Requests, Streams, Idle
  <1>8. Tries'
    <2>1. CASE chunks > 0
      BY <1>1, <1>6, <2>1 DEF Tries
    <2>2. CASE chunks = 0
      BY <1>1, <1>2, <1>6, <2>2 DEF Tries
    <2>3. QED
      BY <1>5, <2>1, <2>2
  <1>9. PrefixExact'
    BY <1>1, <1>2, <1>3 DEF PrefixExact, L
  <1>10. NothingDropped' /\ NoReplayAfterBatch'
    BY <1>1, <1>2 DEF NothingDropped, NoReplayAfterBatch
  <1>11. Told'
    <2>0. Count(result') = items /\ chunks' = chunks
      BY <1>1, <1>2 DEF Counted
    <2>1. CASE chunks > 0
      BY <1>6, <2>0, <2>1 DEF Told
    <2>2. CASE chunks = 0
      BY <1>6, <2>0, <2>2 DEF Told
    <2>3. QED
      BY <1>5, <2>1, <2>2
  <1>12. QED
    BY <1>3, <1>7, <1>8, <1>9, <1>10, <1>11 DEF IInv

(* The stream ends.                                                        *)
LEMMA EofKeeps ==
  ASSUME IInv, Eof
  PROVE  IInv'
  <1>1. /\ pc = "recv" /\ todo = <<>> /\ pc' = "returned"
        /\ error' = IF Unexpected THEN Error("DataLoss") ELSE NoError
        /\ UNCHANGED <<session, written, contents, reader, attempt, todo, result, chunks,
                       items, foreign, progressed>>
    BY DEF Eof, writeVars
  <1>2. /\ Rest /\ Holds /\ Asks /\ Sessions /\ Counted /\ PrefixExact
        /\ NoReplayAfterBatch
    BY <1>1 DEF IInv, Streams, Stores, Requests, Idle
  <1>3. Expected' = Expected /\ L' = L /\ Holds' /\ Asks' /\ Sessions'
    BY <1>1, <1>2, CallsKept
  <1>4. Counted' /\ Waits' /\ Stores' /\ Requests' /\ Streams' /\ Tries'
    BY <1>1, <1>2, <1>3 DEF Counted, Waits, Stores, Requests, Streams, Tries, Idle
  <1>5. PrefixExact'
    BY <1>1, <1>2, <1>3 DEF PrefixExact, L
  <1>6. items = Len(Expected) /\ items = Count(result)
    <2>1. Len(todo) = 0 /\ items \in Nat /\ items = Count(result)
      BY <1>1, <1>2, EmptySeq, CountConcat DEF Counted
    <2>2. Len(todo) + items = Len(Expected)
      BY <1>2 DEF Rest
    <2> DEFINE e == Len(Expected)
    <2> HIDE DEF e
    <2>3. 0 + items = e
      BY <2>1, <2>2 DEF e
    <2>4. items = e
      BY <2>1, <2>3
    <2>5. QED
      BY <2>1, <2>4 DEF e
  <1>7. Unexpected' = Unexpected
    BY <1>1 DEF Unexpected
  <1>8. CASE Unexpected
    <2>1. error'.code = "DataLoss" /\ error'.partial = FALSE
      BY <1>1, <1>8 DEF Error
    <2>2. NothingDropped' /\ Told'
      BY <1>7, <1>8, <2>1 DEF NothingDropped, Told
    <2>3. QED
      BY <1>1, <1>2, <1>3, <1>4, <1>5, <2>2 DEF IInv, NoReplayAfterBatch
  <1>9. CASE ~Unexpected
    <2>1. error'.code = "OK"
      BY <1>1, <1>9 DEF NoError, Error
    <2>2. Told'
      BY <2>1 DEF Told
    <2>3. reader.op \in DOMAIN Helper => Len(result[Helper[reader.op]]) = Len(Expected)
      BY <1>6, <1>9 DEF Unexpected
    <2>4. NothingDropped'
      BY <1>1, <1>3, <1>6, <2>3 DEF NothingDropped
    <2>5. QED
      BY <1>1, <1>2, <1>3, <1>4, <1>5, <2>2, <2>4 DEF IInv, NoReplayAfterBatch
  <1>10. QED
    BY <1>8, <1>9

(* run() calls collect() again.                                            *)
LEMMA ReplayKeeps ==
  ASSUME IInv, Replay
  PROVE  IInv'
  <1>1. /\ pc = "failed" /\ pc' = "open" /\ ~error.partial
        /\ UNCHANGED <<session, written, contents, reader, attempt, todo, result, chunks,
                       items, foreign, progressed>>
    BY DEF Replay, Replayable, writeVars
  <1>2. /\ Holds /\ Asks /\ Sessions /\ Counted /\ PrefixExact /\ progressed = {}
    BY <1>1 DEF IInv, Tries, Stores, Requests, Idle
  <1>3. Expected' = Expected /\ L' = L /\ Holds' /\ Asks' /\ Sessions'
    BY <1>1, <1>2, CallsKept
  <1>4. Counted' /\ Waits' /\ Stores' /\ Requests' /\ Streams' /\ Tries'
    BY <1>1, <1>2, <1>3 DEF Counted, Waits, Stores, Requests, Streams, Tries, Idle
  <1>5. PrefixExact'
    BY <1>1, <1>2, <1>3 DEF PrefixExact, L
  <1>6. NothingDropped' /\ Told' /\ NoReplayAfterBatch'
    BY <1>1, <1>2 DEF NothingDropped, Told, NoReplayAfterBatch
  <1>7. QED
    BY <1>3, <1>4, <1>5, <1>6 DEF IInv

(* The error is returned.                                                  *)
LEMMA GiveUpKeeps ==
  ASSUME IInv, GiveUp
  PROVE  IInv'
  <1>1. /\ pc = "failed" /\ pc' = "returned"
        /\ UNCHANGED <<session, written, contents, reader, attempt, todo, result, chunks,
                       items, error, foreign, progressed>>
    BY DEF GiveUp, writeVars
  <1>2. /\ Holds /\ Asks /\ Sessions /\ Counted /\ PrefixExact /\ error.code # "OK"
        /\ Told /\ NoReplayAfterBatch
    BY <1>1 DEF IInv, Tries, Stores, Requests, Idle
  <1>3. Expected' = Expected /\ L' = L /\ Holds' /\ Asks' /\ Sessions'
    BY <1>1, <1>2, CallsKept
  <1>4. Counted' /\ Waits' /\ Stores' /\ Requests' /\ Streams' /\ Tries'
    BY <1>1, <1>2, <1>3 DEF Counted, Waits, Stores, Requests, Streams, Tries, Idle
  <1>5. PrefixExact'
    BY <1>1, <1>2, <1>3 DEF PrefixExact, L
  <1>6. NothingDropped' /\ NoReplayAfterBatch'
    BY <1>1, <1>2 DEF NothingDropped, NoReplayAfterBatch
  <1>7. Told'
    <2>1. Unexpected' = Unexpected
      BY <1>1 DEF Unexpected
    <2>2. QED
      BY <1>1, <1>2, <2>1 DEF Told
  <1>8. QED
    BY <1>3, <1>4, <1>5, <1>6, <1>7 DEF IInv

(* Every step keeps the invariant.                                         *)
LEMMA NextKeeps == IInv /\ [Next]_vars => IInv'
  <1> SUFFICES ASSUME IInv, [Next]_vars PROVE IInv'
    OBVIOUS
  <1>1. CASE \E creation \in BOOLEAN :
                \E t \in IF creation THEN Types(CreateOperations)
                         ELSE Types(AddOperations) \cup Types(CountOperations) :
                   \E s \in BoundedSeq(Elements(ListOf(t)), MaxItems) :
                      Write(t, creation, Only(ListOf(t), s))
    <2>1. PICK creation \in BOOLEAN :
                \E t \in IF creation THEN Types(CreateOperations)
                         ELSE Types(AddOperations) \cup Types(CountOperations) :
                   \E s \in BoundedSeq(Elements(ListOf(t)), MaxItems) :
                      Write(t, creation, Only(ListOf(t), s))
      BY <1>1
    <2>2. PICK t \in IF creation THEN Types(CreateOperations)
                     ELSE Types(AddOperations) \cup Types(CountOperations) :
                   \E s \in BoundedSeq(Elements(ListOf(t)), MaxItems) :
                      Write(t, creation, Only(ListOf(t), s))
      BY <2>1
    <2>3. PICK s \in BoundedSeq(Elements(ListOf(t)), MaxItems) :
             Write(t, creation, Only(ListOf(t), s))
      BY <2>2
    <2>4. s \in Seq(Elements(ListOf(t)))
      <3>1. PICK n \in 0..MaxItems : s \in [1..n -> Elements(ListOf(t))]
        BY <2>3 DEF BoundedSeq, SeqOf
      <3>2. n \in Nat
        BY <3>1, CollectAssumption, MessagesAssumption
      <3>3. QED
        BY <3>1, <3>2, SeqDef
    <2>5. ListOf(t) \in Lists
      BY ListOfTypes
    <2>6. QED
      BY <2>1, <2>3, <2>4, <2>5, WriteKeeps
  <1>2. CASE \E t \in UNDEFINED..(ORDERED_SET + 1), l \in Lists :
                \E p \in Elements(l) : Write(t, TRUE, Only(l, <<p>>))
    <2>1. PICK t \in UNDEFINED..(ORDERED_SET + 1), l \in Lists :
             \E p \in Elements(l) : Write(t, TRUE, Only(l, <<p>>))
      BY <1>2
    <2>2. PICK p \in Elements(l) : Write(t, TRUE, Only(l, <<p>>))
      BY <2>1
    <2>3. <<p>> \in Seq(Elements(l)) /\ <<p>> # <<>> /\ l \in Lists
      BY <2>1, <2>2
    <2> DEFINE xs == <<p>>
               yes == TRUE
    <2>4. /\ xs \in Seq(Elements(l)) /\ xs # <<>> /\ yes \in BOOLEAN
          /\ Write(t, yes, Only(l, xs))
      BY <2>2, <2>3
    <2> HIDE DEF xs, yes
    <2>5. QED
      BY <2>3, <2>4, WriteKeeps
  <1>3. CASE \E name \in Readers, r \in Spans : \E t \in RangeTypes(name) : Read(name, r, t)
    BY <1>3, ReadKeeps
  <1>4. CASE Open
    BY <1>4, OpenKeeps
  <1>5. CASE Recv
    BY <1>5, RecvKeeps
  <1>6. CASE Break
    BY <1>6, BreakKeeps
  <1>7. CASE Eof
    BY <1>7, EofKeeps
  <1>8. CASE Replay
    BY <1>8, ReplayKeeps
  <1>9. CASE GiveUp
    BY <1>9, GiveUpKeeps
  <1>10. CASE UNCHANGED vars
    <2>1. UNCHANGED <<session, written, contents, pc, reader, attempt, todo, result, chunks,
                      items, error, foreign, progressed>>
      BY <1>10 DEF vars
    <2>2. /\ Expected' = Expected /\ L' = L /\ TTL' = TTL
          /\ Holds' = Holds /\ Asks' = Asks /\ Sessions' = Sessions
      BY <2>1, CallsKept
    <2>3. Counted' /\ Waits' /\ Stores' /\ Requests' /\ Tries' /\ Sessions'
      BY <2>1, <2>2 DEF IInv, Counted, Waits, Stores, Requests, Tries
    <2>4. Streams'
      BY <2>1, <2>2 DEF IInv, Streams, Rest
    <2>5. PrefixExact'
      BY <2>1, <2>2 DEF IInv, PrefixExact, L
    <2>6. Unexpected' = Unexpected
      BY <2>1 DEF Unexpected
    <2>7. NothingDropped' /\ Told' /\ NoReplayAfterBatch'
      BY <2>1, <2>2, <2>6 DEF IInv, NothingDropped, Told, NoReplayAfterBatch
    <2>8. QED
      BY <2>3, <2>4, <2>5, <2>7 DEF IInv
  <1>11. QED
    BY <1>1, <1>2, <1>3, <1>4, <1>5, <1>6, <1>7, <1>8, <1>9, <1>10 DEF Next

(* The invariant holds always.                                             *)
LEMMA Invariance == Spec => []IInv
  BY InitHolds, NextKeeps, PTL DEF Spec

(* Whatever is stored and read, however the server cuts the contents into  *)
(* batches and wherever the stream breaks, the lists collect() holds are   *)
(* the beginning of what was written, item by item with every field.       *)
THEOREM PrefixExactHolds == Spec => []PrefixExact
  <1>1. IInv => PrefixExact
    BY DEF IInv
  <1>2. QED
    BY <1>1, Invariance, PTL

(* When collect() and the helper around it return no error, the stream was *)
(* read to its end and the list the helper returns is all of it.           *)
THEOREM NothingDroppedHolds == Spec => []NothingDropped
  <1>1. IInv => NothingDropped
    BY DEF IInv
  <1>2. QED
    BY <1>1, Invariance, PTL

(* A helper returns one of the four lists.                                 *)
LEMMA HelperLists ==
  ASSUME NEW op \in DOMAIN Helper
  PROVE  Helper[op] \in Lists
  BY DEF Helper, StreamOperations, RangeOperations, MapRangeOperation, Lists, ++

(* PartialTold from the invariant.                                         *)
LEMMA ToldToCaller == IInv => PartialTold
  <1> SUFFICES ASSUME IInv, pc = "returned", error.code # "OK" PROVE PartialTold
    BY DEF PartialTold
  <1> DEFINE h == Helper[reader.op]
  <1>1. /\ Filled(result) /\ chunks \in Nat /\ items = Count(result)
        /\ chunks = 0 => items = 0
        /\ Asks /\ PrefixExact /\ Told
    BY DEF IInv, Counted, Requests, Idle
  <1>3. reader.op \in DOMAIN Helper => h \in Lists
    BY HelperLists
  <1> HIDE DEF h
  <1>4. /\ reader.op \notin DOMAIN Helper => Returned = result
        /\ reader.op \in DOMAIN Helper => Returned = Only(h, result[h])
    BY DEF Returned, h
  <1>5. reader.op \in DOMAIN Helper =>
           /\ Count(Returned) = Len(result[h]) /\ Returned[h] = result[h]
    BY <1>1, <1>3, <1>4, CountOnly DEF Filled
  <1>6. Count(Returned) \in Nat /\ Count(Returned) <= items /\ items \in Nat
    <2>1. /\ Count(result) \in Nat
          /\ \A l \in Lists : Len(result[l]) \in Nat /\ Len(result[l]) <= Count(result)
      BY <1>1, CountConcat
    <2>2. QED
      BY <1>1, <1>3, <1>4, <1>5, <2>1
  <1>7. ASSUME error.partial
        PROVE  /\ error.chunks = chunks /\ chunks > 0 /\ error.items = items
    BY <1>1, <1>7 DEF Told
  <1>8. ASSUME OwnReader
        PROVE  /\ Count(Returned) = items /\ Len(Returned[L]) = items
               /\ \A i \in 1..items : Plainly(L, Returned[L][i]) = Expected[i]
    <2>1. reader.op \in DOMAIN Helper => h = L
      BY <1>8 DEF OwnReader, h, L
    <2>2. /\ items = Count(result) /\ Count(result) = Len(result[L])
          /\ \A i \in 1..items : Plainly(L, result[L][i]) = Expected[i]
      BY <1>1, <1>8 DEF PrefixExact, OwnReader, L
    <2>3. Returned[L] = result[L] /\ Count(Returned) = Len(result[L])
      BY <1>4, <1>5, <2>1, <2>2
    <2>4. QED
      BY <2>2, <2>3
  <1>9. ASSUME ~error.partial
        PROVE  Unexpected \/ (chunks = 0 /\ Count(Returned) = 0)
    BY <1>1, <1>6, <1>9 DEF Told
  <1>10. CASE error.partial
    <2>1. /\ error.chunks = chunks /\ chunks > 0 /\ error.items = items
          /\ error.items = Count(result) /\ Count(Returned) <= error.items
      BY <1>1, <1>6, <1>7, <1>10
    <2>2. QED
      BY <1>8, <1>10, <2>1 DEF PartialTold, L
  <1>11. CASE ~error.partial
    BY <1>9, <1>11 DEF PartialTold
  <1>12. QED
    BY <1>10, <1>11

(* A PartialError has the numbers of the batches and items decoded, and    *)
(* the caller of the reader that fits the container is given these items,  *)
(* the beginning of what was written; any other error comes with nothing   *)
(* or from a helper's check.                                               *)
THEOREM PartialToldHolds == Spec => []PartialTold
  <1>1. IInv => PartialTold
    BY ToldToCaller
  <1>2. QED
    BY <1>1, Invariance, PTL

(* run() never calls collect() again after an attempt took a batch.        *)
THEOREM NoReplayAfterBatchHolds == Spec => []NoReplayAfterBatch
  <1>1. IInv => NoReplayAfterBatch
    BY DEF IInv
  <1>2. QED
    BY <1>1, Invariance, PTL
=============================================================================

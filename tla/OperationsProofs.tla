-------------------------- MODULE OperationsProofs --------------------------
(***************************************************************************)
(* The operations that make one RPC, for every configuration, every        *)
(* argument and option, every answer and every clock.                      *)
(***************************************************************************)
EXTENDS Operations, MessagesProofs

-----------------------------------------------------------------------------
(* The table of the operations and that of the stubs.                      *)

(* An entry of two tables together is one of the first ...                 *)
LEMMA InFirst ==
  ASSUME NEW f, NEW g, NEW x \in DOMAIN f
  PROVE  x \in DOMAIN (f ++ g) /\ (f ++ g)[x] = f[x]
  BY DEF ++

(* ... or, where the first has none, one of the second.                    *)
LEMMA InSecond ==
  ASSUME NEW f, NEW g, NEW x \in DOMAIN g, x \notin DOMAIN f
  PROVE  x \in DOMAIN (f ++ g) /\ (f ++ g)[x] = g[x]
  BY DEF ++

(* The entries of two tables together are those of the two.                *)
LEMMA InEither ==
  ASSUME NEW f, NEW g, NEW x \in DOMAIN (f ++ g)
  PROVE  \/ x \in DOMAIN f /\ (f ++ g)[x] = f[x]
         \/ x \in DOMAIN g /\ (f ++ g)[x] = g[x]
  BY DEF ++

(* The stubs of each group are in the whole table as they are in theirs.   *)
LEMMA StubEntries ==
  /\ \A r \in DOMAIN LockAndTtlStubs : Stub[r] = LockAndTtlStubs[r]
  /\ \A r \in DOMAIN ValueStubs : Stub[r] = ValueStubs[r]
  /\ \A r \in DOMAIN ContainerStubs : Stub[r] = ContainerStubs[r]
  /\ \A r \in DOMAIN ElementStubs : Stub[r] = ElementStubs[r]
  /\ \A r \in DOMAIN AtomicStubs : Stub[r] = AtomicStubs[r]
  <1> DEFINE S2 == LockAndTtlStubs ++ ValueStubs
             S3 == S2 ++ ContainerStubs
             S4 == S3 ++ ElementStubs
  <1>1. Stub = S4 ++ AtomicStubs
    BY DEF Stub
  <1>2. /\ \A r \in DOMAIN ValueStubs : r \notin DOMAIN LockAndTtlStubs
        /\ \A r \in DOMAIN ContainerStubs :
              r \notin DOMAIN LockAndTtlStubs /\ r \notin DOMAIN ValueStubs
    BY DEF LockAndTtlStubs, ValueStubs, ContainerStubs
  <1>3. \A r \in DOMAIN ElementStubs :
           /\ r \notin DOMAIN LockAndTtlStubs /\ r \notin DOMAIN ValueStubs
           /\ r \notin DOMAIN ContainerStubs
    BY DEF LockAndTtlStubs, ValueStubs, ContainerStubs, ElementStubs
  <1>4. DOMAIN AtomicStubs = {"AtomicLoad", "AtomicLoadAndDelete", "AtomicCreate",
                              "AtomicStore", "AtomicCompareAndSet", "AtomicExchange",
                              "AtomicAdd", "AtomicSub", "AtomicOr", "AtomicAnd",
                              "AtomicXor"}
    BY DEF AtomicStubs, ++
  <1>5. \A r \in DOMAIN AtomicStubs :
           /\ r \notin DOMAIN LockAndTtlStubs /\ r \notin DOMAIN ValueStubs
           /\ r \notin DOMAIN ContainerStubs /\ r \notin DOMAIN ElementStubs
    BY <1>4 DEF LockAndTtlStubs, ValueStubs, ContainerStubs, ElementStubs
  <1>6. /\ DOMAIN S2 = DOMAIN LockAndTtlStubs \cup DOMAIN ValueStubs
        /\ DOMAIN S3 = DOMAIN S2 \cup DOMAIN ContainerStubs
        /\ DOMAIN S4 = DOMAIN S3 \cup DOMAIN ElementStubs
    BY DEF ++
  <1>7. \A r \in DOMAIN LockAndTtlStubs : S2[r] = LockAndTtlStubs[r]
    BY InFirst
  <1>8. \A r \in DOMAIN ValueStubs : S2[r] = ValueStubs[r]
    BY <1>2, InSecond
  <1>9. \A r \in DOMAIN S2 : S3[r] = S2[r]
    BY InFirst
  <1>10. \A r \in DOMAIN ContainerStubs : S3[r] = ContainerStubs[r]
    BY <1>2, <1>6, InSecond
  <1>11. \A r \in DOMAIN S3 : S4[r] = S3[r]
    BY InFirst
  <1>12. \A r \in DOMAIN ElementStubs : S4[r] = ElementStubs[r]
    BY <1>3, <1>6, InSecond
  <1>13. \A r \in DOMAIN S4 : Stub[r] = S4[r]
    BY <1>1, InFirst
  <1>14. \A r \in DOMAIN AtomicStubs : Stub[r] = AtomicStubs[r]
    BY <1>1, <1>5, <1>6, InSecond
  <1> HIDE DEF S2, S3, S4
  <1>15. QED
    BY <1>6, <1>7, <1>8, <1>9, <1>10, <1>11, <1>12, <1>13, <1>14

(* What is sent, by the kind of the arguments, and what comes back, by the *)
(* kind of the result.                                                     *)
RequestOf(takes) ==
    CASE takes = "key" -> GetRequest
      [] takes = "ttl" -> TtlRequest
      [] takes = "create" -> CreateRequest
      [] takes = "update" -> UpdateRequest
      [] takes \in {"position", "weight"} -> KeyPositionRequest
      [] takes = "element" -> ContainerGetRequest
      [] takes = "entry" -> UpdateContainerRequest
      [] takes = "lock" -> LockRequest
      [] takes = "unlock" -> UnLockRequest
      [] takes = "atomic" -> AtomicCreate
      [] takes = "cas" -> AtomicCas
ResponseOf(gives) ==
    CASE gives = "value" -> ValueResponse
      [] gives = "update" -> UpdateValueResponse
      [] gives = "bool" -> BoolResponse
      [] gives = "count" -> IntResponse
      [] gives = "ttl" -> TtlResponse
      [] gives = "hint" -> KeyHintResponse
      [] gives = "lock" -> LockResponse
      [] gives = "atomic" -> AtomicValue
      [] gives = "cas" -> AtomicCasRes
Takes == {"key", "ttl", "create", "update", "position", "weight", "element", "entry",
          "lock", "unlock", "atomic", "cas"}
Gives == {"value", "update", "bool", "count", "ttl", "hint", "lock", "atomic", "cas"}

(* An operation uses the stub that has the types it needs.                 *)
Matched(o) ==
    /\ o.takes \in Takes /\ o.gives \in Gives
    /\ Stub[o.rpc].request = RequestOf(o.takes)
    /\ Stub[o.rpc].response = ResponseOf(o.gives)

(* The stubs the operations use.                                           *)
LEMMA StubsUsed ==
  /\ \A r \in {"GetValue", "GetAndDeleteValue", "GetTail", "GetHead",
               "GetAndRemoveFront", "GetAndRemoveTail"} :
        Stub[r] = Rpc(GetRequest, ValueResponse)
  /\ \A r \in {"ExistKey", "Remove", "RemoveHead", "RemoveTail"} :
        Stub[r] = Rpc(GetRequest, BoolResponse)
  /\ Stub["GetSize"] = Rpc(GetRequest, IntResponse)
  /\ Stub["SetTtl"] = Rpc(TtlRequest, BoolResponse)
  /\ Stub["GetTtl"] = Rpc(GetRequest, TtlResponse)
  /\ Stub["CreateKeyValue"] = Rpc(CreateRequest, KeyHintResponse)
  /\ Stub["UpdateValue"] = Rpc(UpdateRequest, UpdateValueResponse)
  /\ \A r \in {"GetElementAtPosition", "GetAndRemoveElementAtPosition"} :
        Stub[r] = Rpc(KeyPositionRequest, ValueResponse)
  /\ Stub["RemoveElementAtPosition"] = Rpc(KeyPositionRequest, BoolResponse)
  /\ \A r \in {"GetValueInContainer", "GetAndDeleteValueInContainer"} :
        Stub[r] = Rpc(ContainerGetRequest, ValueResponse)
  /\ Stub["ExistKeyInContainer"] = Rpc(ContainerGetRequest, BoolResponse)
  /\ Stub["RemoveInContainer"] = Rpc(ContainerGetRequest, IntResponse)
  /\ Stub["UpdateValueInContainer"] = Rpc(UpdateContainerRequest, UpdateValueResponse)
  /\ Stub["LockObject"] = Rpc(LockRequest, LockResponse)
  /\ Stub["UnlockObject"] = Rpc(UnLockRequest, LockResponse)
  /\ \A r \in {"AtomicLoad", "AtomicLoadAndDelete"} :
        Stub[r] = Rpc(GetRequest, AtomicValue)
  /\ \A r \in {"AtomicCreate", "AtomicStore"} :
        Stub[r] = Rpc(AtomicCreate, KeyHintResponse)
  /\ \A r \in {"AtomicExchange", "AtomicAdd", "AtomicSub", "AtomicOr", "AtomicAnd",
               "AtomicXor"} : Stub[r] = Rpc(AtomicCreate, AtomicValue)
  /\ Stub["AtomicCompareAndSet"] = Rpc(AtomicCas, AtomicCasRes)
  <1>1. /\ Stub["LockObject"] = Rpc(LockRequest, LockResponse)
        /\ Stub["UnlockObject"] = Rpc(UnLockRequest, UnlockResponse)
        /\ Stub["SetTtl"] = Rpc(TtlRequest, BoolResponse)
        /\ Stub["GetTtl"] = Rpc(GetRequest, TtlResponse)
    BY StubEntries DEF LockAndTtlStubs
  <1>2. UnlockResponse = LockResponse
    BY DEF UnlockResponse, LockResponse
  <1>3. /\ \A r \in {"GetValue", "GetAndDeleteValue"} :
              Stub[r] = Rpc(GetRequest, ValueResponse)
        /\ \A r \in {"ExistKey", "Remove"} : Stub[r] = Rpc(GetRequest, BoolResponse)
        /\ Stub["CreateKeyValue"] = Rpc(CreateRequest, KeyHintResponse)
        /\ Stub["UpdateValue"] = Rpc(UpdateRequest, UpdateValueResponse)
    BY StubEntries DEF ValueStubs
  <1>4. /\ \A r \in {"GetTail", "GetHead", "GetAndRemoveFront", "GetAndRemoveTail"} :
              Stub[r] = Rpc(GetRequest, ValueResponse)
        /\ Stub["GetSize"] = Rpc(GetRequest, IntResponse)
        /\ Stub["GetAndRemoveElementAtPosition"] = Rpc(KeyPositionRequest, ValueResponse)
        /\ \A r \in {"GetValueInContainer", "GetAndDeleteValueInContainer"} :
              Stub[r] = Rpc(ContainerGetRequest, ValueResponse)
        /\ Stub["ExistKeyInContainer"] = Rpc(ContainerGetRequest, BoolResponse)
        /\ Stub["UpdateValueInContainer"] =
              Rpc(UpdateContainerRequest, UpdateValueResponse)
    BY StubEntries DEF ContainerStubs
  <1>5. /\ \A r \in {"RemoveHead", "RemoveTail"} : Stub[r] = Rpc(GetRequest, BoolResponse)
        /\ Stub["GetElementAtPosition"] = Rpc(KeyPositionRequest, ValueResponse)
        /\ Stub["RemoveElementAtPosition"] = Rpc(KeyPositionRequest, BoolResponse)
        /\ Stub["RemoveInContainer"] = Rpc(ContainerGetRequest, IntResponse)
    BY StubEntries DEF ElementStubs
  <1>6. /\ \A r \in {"AtomicLoad", "AtomicLoadAndDelete"} :
              Stub[r] = Rpc(GetRequest, AtomicValue)
        /\ \A r \in {"AtomicCreate", "AtomicStore"} :
              Stub[r] = Rpc(AtomicCreate, KeyHintResponse)
        /\ \A r \in {"AtomicExchange", "AtomicAdd", "AtomicSub", "AtomicOr", "AtomicAnd",
                     "AtomicXor"} : Stub[r] = Rpc(AtomicCreate, AtomicValue)
        /\ Stub["AtomicCompareAndSet"] = Rpc(AtomicCas, AtomicCasRes)
    <2> DEFINE A == [AtomicLoad |-> Rpc(GetRequest, AtomicValue),
                     AtomicLoadAndDelete |-> Rpc(GetRequest, AtomicValue),
                     AtomicCreate |-> Rpc(AtomicCreate, KeyHintResponse),
                     AtomicStore |-> Rpc(AtomicCreate, KeyHintResponse),
                     AtomicCompareAndSet |-> Rpc(AtomicCas, AtomicCasRes)]
               N == {"AtomicExchange", "AtomicAdd", "AtomicSub", "AtomicOr",
                     "AtomicAnd", "AtomicXor"}
               B == [m \in N |-> Rpc(AtomicCreate, AtomicValue)]
    <2>1. AtomicStubs = A ++ B
      BY DEF AtomicStubs
    <2>2. \A r \in N : r \in DOMAIN B /\ r \notin DOMAIN A /\ B[r] = Rpc(AtomicCreate, AtomicValue)
      OBVIOUS
    <2>3. /\ \A r \in {"AtomicLoad", "AtomicLoadAndDelete"} :
                r \in DOMAIN A /\ A[r] = Rpc(GetRequest, AtomicValue)
          /\ \A r \in {"AtomicCreate", "AtomicStore"} :
                r \in DOMAIN A /\ A[r] = Rpc(AtomicCreate, KeyHintResponse)
          /\ "AtomicCompareAndSet" \in DOMAIN A
          /\ A["AtomicCompareAndSet"] = Rpc(AtomicCas, AtomicCasRes)
      OBVIOUS
    <2> HIDE DEF A, B, N
    <2>4. \A r \in DOMAIN A : r \in DOMAIN AtomicStubs /\ AtomicStubs[r] = A[r]
      BY <2>1, InFirst
    <2>5. \A r \in N : r \in DOMAIN AtomicStubs /\ AtomicStubs[r] = B[r]
      BY <2>1, <2>2, InSecond
    <2>6. \A r \in DOMAIN AtomicStubs : Stub[r] = AtomicStubs[r]
      BY StubEntries
    <2>7. \A r \in N : Stub[r] = Rpc(AtomicCreate, AtomicValue)
      BY <2>2, <2>5, <2>6
    <2>8. QED
      BY <2>3, <2>4, <2>6, <2>7 DEF N
  <1>7. QED
    BY <1>1, <1>2, <1>3, <1>4, <1>5, <1>6

(* Every operation calls a stub of its own types.                          *)
LEMMA AllMatched ==
  \A name \in DOMAIN Operation : Matched(Operation[name])
  <1> DEFINE Good(f) == \A name \in DOMAIN f : Matched(f[name])
  <1>1. ASSUME NEW f, NEW g, Good(f), Good(g)
        PROVE  Good(f ++ g)
    BY <1>1, InEither
  <1>2. Good(KeyOperations)
    BY StubsUsed DEF KeyOperations, Op, Rpc, Matched, Takes, Gives, RequestOf, ResponseOf
  <1>3. Good(TtlOperations) /\ Good(ScalarOperations)
    BY StubsUsed
    DEF TtlOperations, ScalarOperations, Op, Rpc, Matched, Takes, Gives, RequestOf,
        ResponseOf
  <1>4. Good(PositionOperations) /\ Good(WeightOperations)
    BY StubsUsed
    DEF PositionOperations, WeightOperations, Op, Rpc, Matched, Takes, Gives, RequestOf,
        ResponseOf
  <1>5. Good(ElementOperations) /\ Good(LockOperations)
    BY StubsUsed
    DEF ElementOperations, LockOperations, Op, Rpc, Matched, Takes, Gives, RequestOf,
        ResponseOf
  <1>6. Good(AtomicLoads)
    BY StubsUsed
    DEF AtomicLoads, Op, Rpc, Matched, Takes, Gives, RequestOf, ResponseOf
  <1>7. Good(AtomicOperations)
    <2> DEFINE A == [m \in {"AtomicCreate", "AtomicStore"} |-> Op(TRUE, m, "atomic", "hint")]
               B == [m \in {"AtomicExchange", "AtomicAdd", "AtomicSub", "AtomicOr",
                            "AtomicAnd", "AtomicXor"} |-> Op(TRUE, m, "atomic", "atomic")]
               C == [AtomicCompareAndSet |-> Op(TRUE, "AtomicCompareAndSet", "cas", "cas")]
    <2>1. Good(A)
      BY StubsUsed DEF Op, Rpc, Matched, Takes, Gives, RequestOf, ResponseOf
    <2>2. Good(B)
      BY StubsUsed DEF Op, Rpc, Matched, Takes, Gives, RequestOf, ResponseOf
    <2>3. Good(C)
      BY StubsUsed DEF Op, Rpc, Matched, Takes, Gives, RequestOf, ResponseOf
    <2>4. AtomicOperations = A ++ B ++ C
      BY DEF AtomicOperations
    <2> HIDE DEF Good, A, B, C
    <2>5. QED
      BY <1>1, <2>1, <2>2, <2>3, <2>4
  <1> HIDE DEF Good
  <1>8. Good(Operation)
    BY <1>1, <1>2, <1>3, <1>4, <1>5, <1>6, <1>7 DEF Operation
  <1>9. QED
    BY <1>8 DEF Good

-----------------------------------------------------------------------------
(* Requests on the wire.                                                   *)

(* A message is delivered field by field.                                  *)
LEMMA Delivered ==
  ASSUME NEW R, NEW f, NEW x \in DOMAIN R
  PROVE  /\ DOMAIN Deliver(R, New(R, f)) = DOMAIN R
         /\ New(R, f)[x] = IF x \in DOMAIN f THEN f[x] ELSE Default(R[x])
         /\ Deliver(R, New(R, f))[x] = Field(R[x], New(R, f)[x], Nested)
  BY DEF Deliver, New

(* Pointers to scalars arrive as they were sent, a zero included.          *)
LEMMA OptionalKept ==
  ASSUME NEW x
  PROVE  Field(Optional, x, Nested) = x
  BY DEF Field, Optional, OnWire, Default

(* A plain scalar does too: what is not sent reads as the zero it was.     *)
LEMMA ScalarKept ==
  ASSUME NEW z, NEW x
  PROVE  Field(Scalar(z), x, Nested) = x
  BY DEF Field, Scalar, OnWire, Default

(* A key arrives with its hint and its owner.                              *)
LEMMA KeyKept ==
  ASSUME NEW k \in KeyMessages(Data)
  PROVE  /\ Field(Message(Key), k, Nested).ClientId = k.ClientId
         /\ Field(Message(Key), k, Nested).KeyHint = k.KeyHint
  <1>1. k # Nil
    BY NilFacts DEF NilApart
  <1>2. Field(Message(Key), k, Nested) = Nested(Key, k)
    BY <1>1 DEF Field, Message, OnWire, Default
  <1>3. Nested(Key, k) = [k EXCEPT !.Payload = Wired(@)]
    BY NestedKey
  <1>4. QED
    BY <1>2, <1>3 DEF KeyMessages

(* A value arrives but for the bytes of an empty payload.                  *)
LEMMA ValueKept ==
  ASSUME NEW v \in ValueMessages(Data)
  PROVE  Field(Message(Value), v, Nested) = [v EXCEPT !.Value = Wired(@)]
  <1>1. v # Nil
    BY NilFacts DEF NilApart
  <1>2. Field(Message(Value), v, Nested) = Nested(Value, v)
    BY <1>1 DEF Field, Message, OnWire, Default
  <1>3. QED
    BY <1>2, NestedValue

(* The fields of the requests that carry options of the call.              *)
LEMMA RequestShape ==
  ASSUME NEW takes \in Takes
  PROVE  LET R == RequestOf(takes)
         IN  /\ "Key" \in DOMAIN R /\ R["Key"] = Message(Key)
             /\ "ClientId" \in DOMAIN R =>
                   takes \in {"lock", "unlock"} /\ R["ClientId"] = Optional
             /\ "ElementKey" \in DOMAIN R =>
                   takes \in {"element", "entry"} /\ R["ElementKey"] = Message(Key)
             /\ takes = "create" => "Value" \in DOMAIN R /\ R["Value"] = Message(Value)
  <1>1. CASE takes = "key"
    BY <1>1 DEF RequestOf, GetRequest
  <1>2. CASE takes = "ttl"
    BY <1>2 DEF RequestOf, TtlRequest
  <1>3. CASE takes = "create"
    BY <1>3 DEF RequestOf, CreateRequest
  <1>4. CASE takes = "update"
    BY <1>4 DEF RequestOf, UpdateRequest
  <1>5. CASE takes \in {"position", "weight"}
    BY <1>5 DEF RequestOf, KeyPositionRequest
  <1>6. CASE takes = "element"
    BY <1>6 DEF RequestOf, ContainerGetRequest
  <1>7. CASE takes = "entry"
    <2>1. UpdateContainerRequest = [Key |-> Message(Key), ElementKey |-> Message(Key),
                                    Value |-> Message(Value)]
      BY DEF UpdateContainerRequest, ContainerGetRequest, ++
    <2>2. QED
      BY <1>7, <2>1 DEF RequestOf
  <1>8. CASE takes = "lock"
    BY <1>8 DEF RequestOf, LockRequest
  <1>9. CASE takes = "unlock"
    BY <1>9 DEF RequestOf, UnLockRequest
  <1>10. CASE takes = "atomic"
    BY <1>10 DEF RequestOf, AtomicCreate
  <1>11. CASE takes = "cas"
    BY <1>11 DEF RequestOf, AtomicCas
  <1>12. QED
    BY <1>1, <1>2, <1>3, <1>4, <1>5, <1>6, <1>7, <1>8, <1>9, <1>10, <1>11 DEF Takes
-----------------------------------------------------------------------------
(* The call, once perform() has seen it.                                   *)
Called ==
    /\ call.op \in DOMAIN Operation /\ call.key \in Data
    /\ call.options \in OptionSets /\ call.arg \in Arguments(op.takes)

(* The session: the key has the options of the call.                       *)
Prepared ==
    /\ session.key \in KeyMessages(Data) /\ session.ttl \in Pointer(Nat)
    /\ session.key.ClientId = ClientID
    /\ session.key.KeyHint = hintPB(call.options.Hint)

(* The effective client is a number.                                       *)
LEMMA ClientTyped ==
  ASSUME config \in Configs, call.options \in OptionSets
  PROVE  ClientID \in Nat
  BY MessagesAssumption, OperationsAssumption DEF ClientID, OrElse, Pointer

(* encodeKeyPolicy() keeps the hint and the owner.                         *)
LEMMA KeyMade ==
  ASSUME NEW d \in Data, NEW h \in Pointer(KeyHints), NEW id \in Pointer(Nat),
         NEW c \in Configs, NEW compress \in BOOLEAN,
         encodeKeyPolicy(d, h, id, c, compress).code = "OK"
  PROVE  LET k == encodeKeyPolicy(d, h, id, c, compress).value
         IN  k \in KeyMessages(Data) /\ k.ClientId = id /\ k.KeyHint = hintPB(h)
  <1> DEFINE p == [Payload(d) EXCEPT !.Hint = h]
  <1>1. KeyFields(p) /\ p.Data = d /\ p.Hint = h
    BY DEF KeyFields, Payload, Pointer
  <1> HIDE DEF p
  <1>2. encodeKeyPolicy(d, h, id, c, compress).value \in KeyMessages(Data)
    BY <1>1, KeyEncoded
  <1>3. QED
    BY <1>2 DEF encodeKeyPolicy, Ok, Result

(* encodeValuePolicy() of a payload without options of its own.            *)
LEMMA ValueMade ==
  ASSUME NEW d \in Data, NEW ttl \in Pointer(Nat), NEW c \in Configs,
         NEW compress \in BOOLEAN,
         encodeValuePolicy(Payload(d), ttl, c, compress).code = "OK"
  PROVE  LET v == encodeValuePolicy(Payload(d), ttl, c, compress).value
         IN  /\ v \in ValueMessages(Data) /\ v.Ttl = ttl
             /\ SaysValue([v EXCEPT !.Value = Wired(@)], Payload(d), ttl, c)
  <1>1. ValueFields(Payload(d)) /\ Payload(d).ExpiresAtMillis = Nil
    BY DEF ValueFields, Payload, Pointer
  <1>2. QED
    BY <1>1, ValueEncoded DEF encodeValuePolicy, Ok, Result

(* The request that creates a value names its owner.                       *)
Owned(v) ==
    [v EXCEPT !.LockInfo = New(LockInfo, [Type |-> NO_LOCK,
                                          LockedBy |-> session.key.ClientId])]

(* A new value carries its owner to the server.                            *)
LEMMA OwnerKept ==
  ASSUME NEW v \in ValueMessages(Data), session.key.ClientId \in Nat
  PROVE  Field(Message(Value), Owned(v), Nested).LockInfo.LockedBy = session.key.ClientId
  <1> DEFINE l == New(LockInfo, [Type |-> NO_LOCK, LockedBy |-> session.key.ClientId])
  <1>1. l = [Type |-> 0, LockedBy |-> session.key.ClientId, LockedTill |-> Nil]
    BY DEF New, LockInfo, Default, NO_LOCK, Uint, Scalar, Optional
  <1>2. l \in LockMessages
    BY <1>1 DEF LockMessages, Pointer
  <1>3. Owned(v) = [v EXCEPT !.LockInfo = l]
    BY DEF Owned
  <1> HIDE DEF l
  <1>4. Owned(v) \in ValueMessages(Data) /\ Owned(v).LockInfo = l
    BY <1>2, <1>3 DEF ValueMessages, Pointer
  <1>5. Field(Message(Value), Owned(v), Nested).LockInfo = l
    BY <1>4, ValueKept DEF ValueMessages
  <1>6. QED
    BY <1>1, <1>5

(* The key of a map entry has the owner of the call.                       *)
LEMMA ElementKeyMade ==
  ASSUME config \in Configs, session.key.ClientId \in Nat, NEW d \in Data,
         ElementKey(d).code = "OK"
  PROVE  /\ ElementKey(d).value \in KeyMessages(Data)
         /\ ElementKey(d).value.ClientId = session.key.ClientId
  <1> DEFINE id == session.key.ClientId
  <1>1. id \in Pointer(Nat) /\ Nil \in Pointer(KeyHints)
    BY DEF Pointer
  <1>2. ElementKey(d) = encodeKeyPolicy(d, Nil, id, config, FALSE)
    BY DEF ElementKey
  <1> HIDE DEF id
  <1>3. ElementKey(d).value \in KeyMessages(Data) /\ ElementKey(d).value.ClientId = id
    <2>1. encodeKeyPolicy(d, Nil, id, config, FALSE).code = "OK" /\ FALSE \in BOOLEAN
      BY <1>2
    <2>2. LET k == encodeKeyPolicy(d, Nil, id, config, FALSE).value
          IN  k \in KeyMessages(Data) /\ k.ClientId = id
      BY <1>1, <2>1, KeyMade, Zenon
    <2>3. QED
      BY <1>2, <2>2, Zenon
  <1>4. QED
    BY <1>3 DEF id

(* What the fields of a request say of the call.                           *)
LEMMA FieldsShape ==
  ASSUME config \in Configs, Called, Prepared, NEW takes \in Takes,
         NEW a \in Arguments(takes),
         RequestFields(takes, a).code = "OK"
  PROVE  LET f == RequestFields(takes, a).value
         IN  /\ "Key" \in DOMAIN f /\ f["Key"] = session.key
             /\ takes \in {"lock", "unlock"} =>
                   "ClientId" \in DOMAIN f /\ f["ClientId"] = ClientID
             /\ takes \in {"element", "entry"} =>
                   /\ "ElementKey" \in DOMAIN f /\ f["ElementKey"] \in KeyMessages(Data)
                   /\ f["ElementKey"].ClientId = ClientID
             /\ takes = "create" =>
                   /\ "Value" \in DOMAIN f
                   /\ \E v \in ValueMessages(Data) : f["Value"] = Owned(v)
  <1>0. ClientID \in Nat /\ session.key.ClientId = ClientID /\ Nil \in Pointer(KeyHints)
    BY ClientTyped DEF Called, Prepared, Pointer
  <1>1. CASE takes = "key"
    BY <1>1 DEF RequestFields, Ok, Result
  <1>2. CASE takes = "ttl"
    BY <1>2 DEF RequestFields, Ok, Result
  <1>3. CASE takes = "create"
    <2> DEFINE r == encodeValue(Payload(a), SessionTTL, config)
    <2>1. RequestFields(takes, a) =
             IF r.code = "OK" THEN Ok([Key |-> session.key, Value |-> Owned(r.value)])
             ELSE r
      BY <1>3 DEF RequestFields, Fields, Owned
    <2>2. r.code = "OK"
      BY <2>1
    <2>3. a \in Data /\ SessionTTL \in Pointer(Nat)
      BY <1>3 DEF Arguments, Prepared, SessionTTL
    <2>4. r.value \in ValueMessages(Data)
      BY <2>2, <2>3, ValueMade DEF encodeValue
    <2> HIDE DEF r
    <2>5. QED
      BY <1>3, <2>1, <2>2, <2>4 DEF Ok, Result
  <1>4. CASE takes = "update"
    <2> DEFINE r == encodeValue(Payload(a), SessionTTL, config)
    <2>1. RequestFields(takes, a) =
             IF r.code = "OK" THEN Ok([Key |-> session.key, Value |-> r.value]) ELSE r
      BY <1>4 DEF RequestFields, Fields
    <2> HIDE DEF r
    <2>2. QED
      BY <1>4, <2>1 DEF Ok, Result
  <1>5. CASE takes \in {"position", "weight"}
    BY <1>5 DEF RequestFields, positionPB, Ok, Result
  <1>6. CASE takes = "element"
    <2> DEFINE k == ElementKey(a)
    <2>1. RequestFields(takes, a) =
             IF k.code = "OK" THEN Ok([Key |-> session.key, ElementKey |-> k.value]) ELSE k
      BY <1>6 DEF RequestFields, Fields
    <2>2. k.code = "OK" /\ a \in Data
      BY <1>6, <2>1 DEF Arguments
    <2>3. k.value \in KeyMessages(Data) /\ k.value.ClientId = ClientID
      BY <1>0, <2>2, ElementKeyMade
    <2> HIDE DEF k
    <2>4. QED
      BY <1>6, <2>1, <2>2, <2>3 DEF Ok, Result
  <1>7. CASE takes = "entry"
    <2> DEFINE k == ElementKey(a[1])
               r == encodeValuePolicy(Payload(a[2]), Nil, config, FALSE)
    <2>1. RequestFields(takes, a) =
             IF k.code # "OK" THEN k
             ELSE IF r.code = "OK"
             THEN Ok([Key |-> session.key, ElementKey |-> k.value, Value |-> r.value])
             ELSE r
      BY <1>7 DEF RequestFields, Fields
    <2>2. k.code = "OK" /\ r.code = "OK" /\ a[1] \in Data
      BY <1>7, <2>1 DEF Arguments
    <2>3. k.value \in KeyMessages(Data) /\ k.value.ClientId = ClientID
      BY <1>0, <2>2, ElementKeyMade
    <2> HIDE DEF k, r
    <2>4. QED
      BY <1>7, <2>1, <2>2, <2>3 DEF Ok, Result
  <1>8. CASE takes = "lock"
    BY <1>0, <1>8 DEF RequestFields, Ok, Result
  <1>9. CASE takes = "unlock"
    BY <1>0, <1>9 DEF RequestFields, Ok, Result
  <1>10. CASE takes = "atomic"
    BY <1>10 DEF RequestFields, Ok, Result
  <1>11. CASE takes = "cas"
    BY <1>11 DEF RequestFields, Ok, Result
  <1>12. QED
    BY <1>1, <1>2, <1>3, <1>4, <1>5, <1>6, <1>7, <1>8, <1>9, <1>10, <1>11 DEF Takes

(* What OptionsKept says of one request.                                   *)
OptionsIn(m) ==
    /\ m.Key.ClientId = ClientID
    /\ m.Key.KeyHint = hintPB(call.options.Hint)
    /\ "ClientId" \in DOMAIN m => m.ClientId = ClientID
    /\ "ElementKey" \in DOMAIN m => m.ElementKey.ClientId = ClientID
    /\ op.takes = "create" => m.Value.LockInfo.LockedBy = ClientID

(* Every request carries the options of the call.                          *)
LEMMA OptionsSent ==
  ASSUME config \in Configs, Called, Prepared,
         RequestFields(op.takes, call.arg).code = "OK"
  PROVE  OptionsIn(Received(RequestFields(op.takes, call.arg).value))
  <1> DEFINE R == RequestOf(op.takes)
             f == RequestFields(op.takes, call.arg).value
             m == Deliver(R, New(R, f))
  <1>1. Matched(op)
    BY AllMatched DEF op, Called
  <1>2. Received(f) = m /\ op.takes \in Takes
    BY <1>1 DEF Received, Matched
  <1>3. /\ "Key" \in DOMAIN f /\ f["Key"] = session.key
        /\ op.takes \in {"lock", "unlock"} =>
              "ClientId" \in DOMAIN f /\ f["ClientId"] = ClientID
        /\ op.takes \in {"element", "entry"} =>
              /\ "ElementKey" \in DOMAIN f /\ f["ElementKey"] \in KeyMessages(Data)
              /\ f["ElementKey"].ClientId = ClientID
        /\ op.takes = "create" =>
              /\ "Value" \in DOMAIN f
              /\ \E v \in ValueMessages(Data) : f["Value"] = Owned(v)
    BY <1>2, FieldsShape DEF Called
  <1>4. /\ "Key" \in DOMAIN R /\ R["Key"] = Message(Key)
        /\ "ClientId" \in DOMAIN R =>
              op.takes \in {"lock", "unlock"} /\ R["ClientId"] = Optional
        /\ "ElementKey" \in DOMAIN R =>
              op.takes \in {"element", "entry"} /\ R["ElementKey"] = Message(Key)
        /\ op.takes = "create" => "Value" \in DOMAIN R /\ R["Value"] = Message(Value)
    BY <1>2, RequestShape
  <1> HIDE DEF R, f
  <1>5. DOMAIN m = DOMAIN R
    BY DEF Deliver
  <1>6. \A x \in DOMAIN R : x \in DOMAIN f => m[x] = Field(R[x], f[x], Nested)
    BY Delivered
  <1> HIDE DEF m
  <1>7. m["Key"] = Field(Message(Key), session.key, Nested)
    BY <1>3, <1>4, <1>6
  <1>8. m.Key.ClientId = ClientID /\ m.Key.KeyHint = hintPB(call.options.Hint)
    BY <1>7, KeyKept DEF Prepared
  <1>9. "ClientId" \in DOMAIN m => m.ClientId = ClientID
    BY <1>3, <1>4, <1>5, <1>6, OptionalKept
  <1>10. "ElementKey" \in DOMAIN m => m.ElementKey.ClientId = ClientID
    BY <1>3, <1>4, <1>5, <1>6, KeyKept
  <1>11. op.takes = "create" => m.Value.LockInfo.LockedBy = ClientID
    BY <1>3, <1>4, <1>6, OwnerKept, ClientTyped DEF Prepared, Called
  <1>12. QED
    BY <1>2, <1>8, <1>9, <1>10, <1>11 DEF OptionsIn, f

-----------------------------------------------------------------------------
(* A second attempt.                                                       *)

(* The later a quotient is taken, the larger it is.                        *)
LEMMA LaterQuotient ==
  ASSUME NEW x \in Int, NEW y \in Int, NEW m \in Nat \ {0}, x <= y
  PROVE  x \div m <= y \div m /\ x \div m \in Int /\ y \div m \in Int
  OBVIOUS

(* The fields of a request built at time t.                                *)
FieldsAt(t) ==
    CASE op.takes = "ttl" -> [Key |-> session.key, Ttl |-> t + call.arg]
      [] op.takes = "lock" ->
            [Key |-> session.key, LockType |-> call.arg.kind,
             ClientId |-> session.key.ClientId,
             LockDuration |-> IF call.arg.duration > 0
                              THEN (t + call.arg.duration) \div MsPerSecond ELSE Nil]
      [] OTHER -> RequestFields(op.takes, call.arg).value

(* An attempt builds its request at the present time.                      *)
LEMMA FieldsNow ==
  RequestFields(op.takes, call.arg).value = FieldsAt(clock)
  <1>1. CASE op.takes = "ttl"
    BY <1>1 DEF RequestFields, FieldsAt, Ok, Result
  <1>2. CASE op.takes = "lock"
    BY <1>2 DEF RequestFields, FieldsAt, Ok, Result, LockExpiry
  <1>3. CASE op.takes \notin {"ttl", "lock"}
    BY <1>3 DEF FieldsAt
  <1>4. QED
    BY <1>1, <1>2, <1>3

(* Only SetTTL and LockObject look at the clock.                           *)
LEMMA FieldsStay ==
  ASSUME UNCHANGED <<config, call, session>>, op.takes \in Takes \ {"ttl", "lock"}
  PROVE  RequestFields(op.takes, call.arg)' = RequestFields(op.takes, call.arg)
  <1>1. op' = op /\ call' = call /\ session' = session /\ config' = config
    BY DEF op
  <1>2. CASE op.takes = "key"
    BY <1>1, <1>2 DEF RequestFields
  <1>3. CASE op.takes \in {"create", "update"}
    BY <1>1, <1>3 DEF RequestFields, Fields, SessionTTL
  <1>4. CASE op.takes \in {"position", "weight"}
    BY <1>1, <1>4 DEF RequestFields
  <1>5. CASE op.takes \in {"element", "entry"}
    BY <1>1, <1>5 DEF RequestFields, Fields, ElementKey
  <1>6. CASE op.takes = "unlock"
    BY <1>1, <1>6 DEF RequestFields
  <1>7. CASE op.takes \in {"atomic", "cas"}
    BY <1>1, <1>7 DEF RequestFields, SessionTTL
  <1>8. QED
    BY <1>2, <1>3, <1>4, <1>5, <1>6, <1>7 DEF Takes

(* A request built at some time is the same from then on.                  *)
LEMMA RequestsStay ==
  ASSUME UNCHANGED <<config, call, session>>, op.takes \in Takes, NEW t
  PROVE  Received(FieldsAt(t))' = Received(FieldsAt(t))
  <1>1. op' = op /\ call' = call /\ session' = session
    BY DEF op
  <1>2. CASE op.takes \in {"ttl", "lock"}
    BY <1>1, <1>2 DEF FieldsAt, Received
  <1>3. CASE op.takes \notin {"ttl", "lock"}
    <2>1. RequestFields(op.takes, call.arg)' = RequestFields(op.takes, call.arg)
      BY <1>3, FieldsStay
    <2>2. QED
      BY <1>1, <1>3, <2>1 DEF FieldsAt, Received
  <1>4. QED
    BY <1>2, <1>3

(* The request of SetTTL.                                                  *)
LEMMA TtlSent ==
  ASSUME NEW k, NEW x
  PROVE  Deliver(TtlRequest, New(TtlRequest, [Key |-> k, Ttl |-> x])) =
           [Key |-> Field(Message(Key), k, Nested), Ttl |-> x]
  <1> DEFINE f == [Key |-> k, Ttl |-> x]
             R == TtlRequest
  <1>1. DOMAIN R = {"Key", "Ttl"} /\ R["Key"] = Message(Key) /\ R["Ttl"] = Optional
    BY DEF TtlRequest
  <1>2. New(R, f) = f
    BY <1>1 DEF New
  <1>3. Deliver(R, f) = [y \in {"Key", "Ttl"} |-> Field(R[y], f[y], Nested)]
    BY <1>1 DEF Deliver
  <1>4. QED
    BY <1>1, <1>2, <1>3, OptionalKept

(* The request of LockObject.                                              *)
LEMMA LockSent ==
  ASSUME NEW k, NEW type, NEW id, NEW x
  PROVE  Deliver(LockRequest, New(LockRequest,
                    [Key |-> k, LockType |-> type, ClientId |-> id, LockDuration |-> x])) =
           [Key |-> Field(Message(Key), k, Nested), LockType |-> type, ClientId |-> id,
            LockDuration |-> x]
  <1> DEFINE f == [Key |-> k, LockType |-> type, ClientId |-> id, LockDuration |-> x]
             R == LockRequest
             D == {"Key", "LockType", "ClientId", "LockDuration"}
  <1>1. /\ DOMAIN R = D /\ R["Key"] = Message(Key) /\ R["LockType"] = Scalar(0)
        /\ R["ClientId"] = Optional /\ R["LockDuration"] = Optional
    BY DEF LockRequest, Uint
  <1>2. New(R, f) = f
    BY <1>1 DEF New
  <1>3. Deliver(R, f) = [y \in D |-> Field(R[y], f[y], Nested)]
    BY <1>1 DEF Deliver
  <1>4. QED
    BY <1>1, <1>2, <1>3, OptionalKept, ScalarKept

(* What ReplayCarriesSame says of two requests.                            *)
SameRequest(a, b) ==
    CASE op.takes = "ttl" -> b.Ttl >= a.Ttl /\ b = [a EXCEPT !.Ttl = b.Ttl]
      [] op.takes = "lock" /\ a.LockDuration # Nil ->
            /\ b.LockDuration >= a.LockDuration
            /\ b = [a EXCEPT !.LockDuration = b.LockDuration]
      [] OTHER -> b = a

(* A request sent again later is the same request, or lasts longer.        *)
LEMMA SentLater ==
  ASSUME Called, NEW s \in Nat, NEW t \in Nat, s <= t
  PROVE  SameRequest(Received(FieldsAt(s)), Received(FieldsAt(t)))
  <1>1. Matched(op)
    BY AllMatched DEF op, Called
  <1>2. CASE op.takes = "ttl"
    <2>1. \A u : Received(FieldsAt(u)) =
                   [Key |-> Field(Message(Key), session.key, Nested), Ttl |-> u + call.arg]
      BY <1>1, <1>2, TtlSent DEF Received, FieldsAt, Matched, RequestOf
    <2>2. call.arg \in Int
      BY <1>2, OperationsAssumption DEF Called, Arguments
    <2>3. QED
      BY <1>2, <2>1, <2>2 DEF SameRequest
  <1>3. CASE op.takes = "lock"
    <2> DEFINE d == call.arg.duration
               x(u) == IF d > 0 THEN (u + d) \div MsPerSecond ELSE Nil
    <2>1. \A u : Received(FieldsAt(u)) =
                   [Key |-> Field(Message(Key), session.key, Nested),
                    LockType |-> call.arg.kind, ClientId |-> session.key.ClientId,
                    LockDuration |-> x(u)]
      BY <1>1, <1>3, LockSent DEF Received, FieldsAt, Matched, RequestOf
    <2>2. d \in Int
      BY <1>3, OperationsAssumption DEF Called, Arguments
    <2>3. d > 0 => x(s) \in Int /\ x(t) \in Int /\ x(s) <= x(t)
      <3> HIDE DEF d
      <3>1. s + d \in Int /\ t + d \in Int /\ s + d <= t + d /\ MsPerSecond \in Nat \ {0}
        BY <2>2, OperationsAssumption
      <3>2. /\ (s + d) \div MsPerSecond <= (t + d) \div MsPerSecond
            /\ (s + d) \div MsPerSecond \in Int /\ (t + d) \div MsPerSecond \in Int
        BY <3>1, LaterQuotient
      <3>3. QED
        BY <3>2
    <2>4. ~(d > 0) => x(s) = Nil /\ x(t) = Nil
      OBVIOUS
    <2> HIDE DEF x, d
    <2>5. CASE d > 0
      BY <1>3, <2>1, <2>3, <2>5, OperationsAssumption DEF SameRequest
    <2>6. CASE ~(d > 0)
      BY <1>3, <2>1, <2>4, <2>6 DEF SameRequest
    <2>7. QED
      BY <2>5, <2>6
  <1>4. CASE op.takes \notin {"ttl", "lock"}
    BY <1>4 DEF SameRequest, FieldsAt
  <1>5. QED
    BY <1>2, <1>3, <1>4

-----------------------------------------------------------------------------
(* Responses on the wire.                                                  *)

(* A message that is absent stays absent.                                  *)
LEMMA NilKept ==
  ASSUME NEW R
  PROVE  Field(Message(R), Nil, Nested) = Nil
  BY DEF Field, Message, OnWire, Default

(* What encode() makes of data: the size is that of the bytes, which are   *)
(* those of the data.                                                      *)
LEMMA BytesMade ==
  ASSUME NEW d \in Data, NEW c \in Configs, Encode(d, TRUE, c).code = "OK"
  PROVE  LET b == Binary(Encode(d, TRUE, c).value.bytes)
         IN  /\ b \in Binaries(Data) /\ b.Payload # Nil /\ b.Payload.data = d
             /\ b.Size = b.Payload.len
  <1> DEFINE e == Encode(d, TRUE, c).value
  <1>1. /\ d.len \in Nat /\ d.len + Overhead < 2^SizeBits /\ d.len < 2^SizeBits
        /\ Overhead \in Nat
    <2> DEFINE M == 2^SizeBits
    <2>1. /\ d.len \in Nat /\ ~(d.len > c.MaxDecodedBytes) /\ c.MaxDecodedBytes \in Nat
          /\ c.MaxDecodedBytes + Overhead < M /\ Overhead \in Nat /\ M \in Nat
      BY EncodeGives, MessagesAssumption, EncodingAssumption DEF TooLong
    <2> HIDE DEF M
    <2>2. d.len + Overhead < M /\ d.len < M
      BY <2>1
    <2>3. QED
      BY <2>1, <2>2 DEF M
  <1>2. Binary(e.bytes) \in Binaries(Data)
    BY RoundTrip
  <1>3. \/ e = [bytes |-> Plain(d), info |-> Nil]
        \/ \E n \in 1..(d.len + Overhead) :
              e = [bytes |-> Block(c.CompressionCodec, d, n),
                   info |-> [Enabled |-> TRUE, RawSize |-> Uint32(d.len)]]
    BY EncodeGives
  <1> HIDE DEF e
  <1>4. e.bytes \in ByteStrings(Data) /\ e.bytes.data = d /\ Uint32(e.bytes.len) = e.bytes.len
    <2>1. CASE e = [bytes |-> Plain(d), info |-> Nil]
      <3>1. Plain(d) \in ByteStrings(Data) /\ Plain(d).data = d /\ Plain(d).len = d.len
        BY <1>1 DEF Plain, ByteStrings
      <3>2. QED
        BY <1>1, <2>1, <3>1, SmallUint32
    <2>2. ASSUME NEW n \in 1..(d.len + Overhead),
                 e = [bytes |-> Block(c.CompressionCodec, d, n),
                      info |-> [Enabled |-> TRUE, RawSize |-> Uint32(d.len)]]
          PROVE  /\ e.bytes \in ByteStrings(Data) /\ e.bytes.data = d
                 /\ Uint32(e.bytes.len) = e.bytes.len
      <3> DEFINE M == 2^SizeBits
                 B == Block(c.CompressionCodec, d, n)
      <3>1. d.len + Overhead < M /\ M \in Nat
        BY <1>1, EncodingAssumption
      <3> HIDE DEF M
      <3>2. n \in Nat /\ n < M
        BY <1>1, <3>1
      <3>3. Uint32(n) = n
        BY <3>2, SmallUint32 DEF M
      <3>4. c.CompressionCodec \in Codecs
        BY MessagesAssumption
      <3>5. B \in ByteStrings(Data) /\ B.data = d /\ B.len = n
        BY <3>2, <3>4 DEF Block, ByteStrings
      <3>6. e.bytes = B
        BY <2>2
      <3> HIDE DEF B
      <3>7. QED
        BY <3>3, <3>5, <3>6
    <2>3. QED
      BY <1>3, <2>1, <2>2
  <1>5. Binary(e.bytes) = [Payload |-> e.bytes, Size |-> e.bytes.len] /\ e.bytes # Nil
    BY <1>4, NilFacts DEF Binary, NilApart
  <1>6. /\ Binary(e.bytes).Payload # Nil /\ Binary(e.bytes).Payload.data = d
        /\ Binary(e.bytes).Size = Binary(e.bytes).Payload.len
    BY <1>4, <1>5
  <1>7. QED
    BY <1>2, <1>6 DEF e

(* What some client has stored: readable, without an owner.                *)
StoredAs(v, d) ==
    /\ d \in Data /\ v.Value \in Binaries(Data) /\ v.Value.Payload # Nil
    /\ v.Value.Payload.data = d /\ v.Value.Size = v.Value.Payload.len
    /\ Readable(Wired(v.Value), v.CompressionInfo, d, config)
    /\ v.CompressionInfo \in Pointer(Infos) /\ v.Ttl \in {Nil, 0} /\ v.LockInfo = Nil

(* A stored value is what encodeValue() made of some data.                 *)
LEMMA StoredMade ==
  ASSUME config \in Configs, NEW v \in Stored
  PROVE  v \in ValueMessages(Data) /\ \E d \in Data : StoredAs(v, d)
  <1>1. PICK d \in Data, ttl \in {Nil, 0} :
           ~TooLong(d, config) /\ v = encodeValue(Payload(d), ttl, config).value
    BY DEF Stored
  <1> DEFINE e == Encode(d, TRUE, config)
  <1>2. e.code = "OK" /\ Payload(d).Data = d /\ Payload(d).ExpiresAtMillis = Nil
        /\ Payload(d).Lock = Nil
    BY <1>1 DEF Encode, Ok, Result, Payload
  <1>3. LET b == Binary(e.value.bytes)
        IN  /\ b \in Binaries(Data) /\ b.Payload # Nil /\ b.Payload.data = d
            /\ b.Size = b.Payload.len /\ Readable(Wired(b), e.value.info, d, config)
            /\ e.value.info \in Pointer(Infos)
    BY <1>2, BytesMade, RoundTrip
  <1> HIDE DEF e
  <1>4. encodeValue(Payload(d), ttl, config) =
          Ok([Value |-> Binary(e.value.bytes), CompressionInfo |-> e.value.info,
              Ttl |-> ttl, LockInfo |-> Nil])
    BY <1>2 DEF encodeValue, encodeValuePolicy, lockPB, e
  <1>5. v = [Value |-> Binary(e.value.bytes), CompressionInfo |-> e.value.info,
             Ttl |-> ttl, LockInfo |-> Nil]
    BY <1>1, <1>4 DEF Ok, Result
  <1> DEFINE b == Binary(e.value.bytes)
             i == e.value.info
  <1> HIDE DEF b, i
  <1>6. v = [Value |-> b, CompressionInfo |-> i, Ttl |-> ttl, LockInfo |-> Nil]
    BY <1>5 DEF b, i
  <1>7. /\ b \in Binaries(Data) /\ b.Payload # Nil /\ b.Payload.data = d
        /\ b.Size = b.Payload.len /\ Readable(Wired(b), i, d, config)
        /\ i \in Pointer(Infos)
    BY <1>3 DEF b, i
  <1>8. v \in ValueMessages(Data)
    BY <1>6, <1>7 DEF ValueMessages, Pointer
  <1>9. StoredAs(v, d)
    BY <1>6, <1>7 DEF StoredAs
  <1>10. QED
    BY <1>8, <1>9

(* The payload a caller sees of a stored value.                            *)
SeenOf(v, d) ==
    [Payload(d) EXCEPT !.ExpiresAtMillis = v.Ttl, !.Lock = Nil,
                       !.Compression = compressionGo(v.CompressionInfo)]

(* It is no nil pointer, and neither is one with a weight.                 *)
LEMMA SeenNotNil ==
  ASSUME NEW v, NEW d, StoredAs(v, d)
  PROVE  /\ SeenOf(v, d) # Nil /\ OrderedPayload(SeenOf(v, d), 0) # Nil
         /\ SeenOf(v, d).Data = d /\ SeenOf(v, d).ExpiresAtMillis = v.Ttl
         /\ OrderedPayload(SeenOf(v, d), 0).Data = d
         /\ OrderedPayload(SeenOf(v, d), 0).ExpiresAtMillis = v.Ttl
  <1> DEFINE i == compressionGo(v.CompressionInfo)
             p == SeenOf(v, d)
             q == OrderedPayload(p, 0)
  <1>1. d \in Data /\ v.Ttl \in Pointer(Nat) /\ v.CompressionInfo \in Pointer(Infos)
    BY DEF StoredAs, Pointer
  <1>2. i \in Pointer(Infos)
    BY <1>1, NilFacts DEF compressionGo, Pointer, Infos
  <1>3. p = [Payload(d) EXCEPT !.ExpiresAtMillis = v.Ttl, !.Lock = Nil, !.Compression = i]
    BY DEF SeenOf
  <1> HIDE DEF i, p
  <1>4. p \in SeenPayloads /\ p.Data = d /\ p.ExpiresAtMillis = v.Ttl
    BY <1>1, <1>2, <1>3 DEF SeenPayloads, Payload, Pointer
  <1>5. q = [x \in {"Data", "ExpiresAtMillis", "Lock", "Hint", "Compression", "ClientID",
                    "Order"} |-> IF x = "Order" THEN 0 ELSE p[x]]
    BY <1>4 DEF OrderedPayload, ++, SeenPayloads
  <1> HIDE DEF q
  <1>6. q \in SeenOrdered /\ q.Data = d /\ q.ExpiresAtMillis = v.Ttl
    BY <1>4, <1>5 DEF SeenPayloads, SeenOrdered, Pointer
  <1>7. QED
    BY <1>4, <1>6, OperationsAssumption DEF p, q

(* decodeValue() of what arrives of a stored value.                        *)
LEMMA StoredRead ==
  ASSUME NEW v, NEW d, StoredAs(v, d), NEW w, w # Nil, w.Value = Wired(v.Value),
         w.CompressionInfo = v.CompressionInfo, w.Ttl = v.Ttl, w.LockInfo = v.LockInfo
  PROVE  decodeValue(w, config) = Ok(SeenOf(v, d))
  <1> DEFINE r == Decode(w.Value.Payload, w.Value.Size, w.CompressionInfo, config)
  <1>1. r.code = "OK" /\ r.data = d
    BY DEF StoredAs, Readable
  <1>2. w.Value # Nil
    BY NilFacts DEF StoredAs, Readable, NilApart
  <1>3. lockGo(w.LockInfo) = Nil
    BY DEF StoredAs, lockGo
  <1> HIDE DEF r
  <1>4. decodeValue(w, config) =
          Ok([Payload(r.data) EXCEPT
                !.ExpiresAtMillis = w.Ttl, !.Lock = lockGo(w.LockInfo),
                !.Compression = compressionGo(w.CompressionInfo)])
    BY <1>1, <1>2 DEF decodeValue, HasPayload, r
  <1>5. QED
    BY <1>1, <1>3, <1>4 DEF SeenOf

(* The result r is that of a value x: an error for a damaged one, and      *)
(* otherwise nothing, or what was stored.                                  *)
ReadBack(r, x) ==
    /\ r.code = "OK" <=> IntactValue(x)
    /\ r.code = "OK" => SameValue(r.value, x)

(* A stored value comes back.                                              *)
LEMMA StoredBack ==
  ASSUME config \in Configs, NEW v \in Stored
  PROVE  ReadBack(decodeValue(Field(Message(Value), v, Nested), config), v)
  <1>1. PICK d \in Data : StoredAs(v, d)
    BY StoredMade
  <1>2. v \in ValueMessages(Data) /\ v # Nil
    BY StoredMade, NilFacts DEF NilApart
  <1> DEFINE w == [v EXCEPT !.Value = Wired(@)]
  <1>3. Field(Message(Value), v, Nested) = w
    BY <1>2, ValueKept
  <1>4. /\ w.Value = Wired(v.Value) /\ w.CompressionInfo = v.CompressionInfo
        /\ w.Ttl = v.Ttl /\ w.LockInfo = v.LockInfo
    BY <1>2 DEF ValueMessages
  <1>5. w # Nil
    <2>1. Wired(v.Value) \in Pointer(Binaries(Data))
      BY <1>1 DEF StoredAs, Readable, Pointer
    <2>2. w \in ValueMessages(Data)
      BY <1>2, <2>1 DEF ValueMessages
    <2>3. QED
      BY <2>2, NilFacts DEF NilApart
  <1> HIDE DEF w
  <1>6. decodeValue(w, config) = Ok(SeenOf(v, d))
    BY <1>1, <1>4, <1>5, StoredRead
  <1>7. IntactValue(v)
    BY <1>1, NilFacts DEF IntactValue, StoredAs, NilApart
  <1>8. SameValue(SeenOf(v, d), v)
    BY <1>1, <1>2, SeenNotNil DEF SameValue, StoredAs
  <1>9. QED
    BY <1>3, <1>6, <1>7, <1>8 DEF ReadBack, Ok, Result

(* No payload where there should be one is an error.                       *)
LEMMA MissingBack ==
  ASSUME config \in Configs, NEW v \in Stored
  PROVE  LET x == [v EXCEPT !.Value = Nil]
         IN  ReadBack(decodeValue(Field(Message(Value), x, Nested), config), x)
  <1> DEFINE x == [v EXCEPT !.Value = Nil]
             w == Field(Message(Value), x, Nested)
  <1>1. v \in ValueMessages(Data)
    BY StoredMade
  <1>2. x \in ValueMessages(Data) /\ x.Value = Nil
    BY <1>1 DEF ValueMessages, Pointer
  <1> HIDE DEF x
  <1>3. w = [x EXCEPT !.Value = Wired(@)]
    BY <1>2, ValueKept
  <1>4. w.Value = Nil
    BY <1>2, <1>3 DEF Wired, ValueMessages
  <1>5. w \in ValueMessages(Data)
    BY <1>2, <1>3 DEF Wired, ValueMessages
  <1>6. w # Nil /\ x # Nil
    BY <1>2, <1>5, NilFacts DEF NilApart
  <1> HIDE DEF w
  <1>7. decodeValue(w, config).code # "OK"
    BY <1>4, <1>6 DEF decodeValue, HasPayload, Err, Result
  <1>8. ~IntactValue(x)
    BY <1>2, <1>6 DEF IntactValue
  <1>9. QED
    BY <1>7, <1>8 DEF ReadBack, x, w

(* A size that is not true is an error, at no bytes too.                   *)
LEMMA WrongSizeBack ==
  ASSUME config \in Configs, NEW v \in Stored
  PROVE  LET x == [v EXCEPT !.Value.Size = @ + 1]
         IN  ReadBack(decodeValue(Field(Message(Value), x, Nested), config), x)
  <1> DEFINE x == [v EXCEPT !.Value.Size = @ + 1]
             w == Field(Message(Value), x, Nested)
  <1>1. v \in ValueMessages(Data) /\ v.Value \in Binaries(Data)
    BY StoredMade DEF StoredAs
  <1>2. v.Value.Payload \in ByteStrings(Data) /\ v.Value.Size = v.Value.Payload.len
    BY <1>1, StoredMade DEF StoredAs, Binaries, Pointer
  <1> DEFINE p == v.Value.Payload
             y == [Payload |-> p, Size |-> p.len + 1]
  <1>3. x = [v EXCEPT !.Value = [v.Value EXCEPT !.Size = v.Value.Size + 1]]
    BY <1>1 DEF ValueMessages
  <1>4. [v.Value EXCEPT !.Size = v.Value.Size + 1] = y
    BY <1>1, <1>2 DEF Binaries
  <1>5. p.len \in Nat /\ p # Nil
    BY <1>2, NilFacts DEF ByteStrings, NilApart
  <1>6. x = [v EXCEPT !.Value = y]
    BY <1>3, <1>4
  <1> HIDE DEF p, x
  <1>7. y \in Binaries(Data)
    BY <1>2, <1>5 DEF Binaries, Pointer, p
  <1>8. y # Nil /\ y.Payload = p /\ y.Size = p.len + 1
    BY <1>7, NilFacts DEF NilApart
  <1> HIDE DEF y
  <1>9. x \in ValueMessages(Data) /\ x.Value = y
    BY <1>1, <1>6, <1>7 DEF ValueMessages, Pointer
  <1>10. w = [x EXCEPT !.Value = Wired(@)]
    BY <1>9, ValueKept
  <1>11. Wired(y) = [Payload |-> IF p.len > 0 THEN p ELSE Nil, Size |-> p.len + 1]
    BY <1>5, <1>8 DEF Wired
  <1>12. Wired(y) \in Binaries(Data) /\ Wired(y) # Nil
    <2>1. Wired(y) \in Binaries(Data)
      BY <1>2, <1>5, <1>11 DEF Binaries, Pointer, p
    <2>2. QED
      BY <2>1, NilFacts DEF NilApart
  <1>13. w.Value = Wired(y) /\ w \in ValueMessages(Data)
    BY <1>9, <1>10, <1>12 DEF ValueMessages, Pointer
  <1>14. w # Nil /\ x # Nil /\ w.Value # Nil
    BY <1>9, <1>12, <1>13, NilFacts DEF NilApart
  <1> DEFINE b == IF w.Value.Payload = Nil THEN Plain(Empty) ELSE w.Value.Payload
  <1>15. b.len = p.len /\ w.Value.Size = p.len + 1
    BY <1>5, <1>11, <1>13 DEF Plain, Empty
  <1>16. Decodings(b, w.Value.Size, w.CompressionInfo, config) = {Failed("DataLoss", 0)}
    BY <1>5, <1>15 DEF Decodings
  <1> HIDE DEF w
  <1>17. Decode(w.Value.Payload, w.Value.Size, w.CompressionInfo, config).code # "OK"
    <2>1. Decode(w.Value.Payload, w.Value.Size, w.CompressionInfo, config) =
             Failed("DataLoss", 0)
      BY <1>16 DEF Decode
    <2>2. Failed("DataLoss", 0).code # "OK"
      BY DEF Failed
    <2>3. QED
      BY <2>1, <2>2
  <1>18. decodeValue(w, config).code # "OK"
    BY <1>14, <1>17 DEF decodeValue, HasPayload, Err, Result
  <1>19. ~IntactValue(x)
    BY <1>5, <1>8, <1>9, <1>14 DEF IntactValue
  <1>20. QED
    BY <1>18, <1>19 DEF ReadBack, x, w

(* Every value an answer may have, and its absence, comes back as it is.   *)
LEMMA ValueBack ==
  ASSUME config \in Configs, NEW x \in AnyValue
  PROVE  ReadBack(decodeValue(Field(Message(Value), x, Nested), config), x)
  <1>1. CASE x = Nil
    <2>1. Field(Message(Value), x, Nested) = Nil
      BY <1>1, NilKept
    <2>2. decodeValue(Nil, config) = Ok(Nil)
      BY DEF decodeValue
    <2>3. QED
      BY <1>1, <2>1, <2>2 DEF ReadBack, IntactValue, SameValue, Ok, Result
  <1>2. CASE x \in Stored
    BY <1>2, StoredBack
  <1>3. ASSUME NEW v \in Stored, x = [v EXCEPT !.Value = Nil]
        PROVE  ReadBack(decodeValue(Field(Message(Value), x, Nested), config), x)
    BY <1>3, MissingBack
  <1>4. ASSUME NEW v \in Stored, x = [v EXCEPT !.Value.Size = @ + 1]
        PROVE  ReadBack(decodeValue(Field(Message(Value), x, Nested), config), x)
    BY <1>4, WrongSizeBack
  <1>5. QED
    BY <1>1, <1>2, <1>3, <1>4 DEF AnyValue

(* So does a value with a weight.                                          *)
LEMMA OrderedBack ==
  ASSUME config \in Configs, NEW v \in Stored
  PROVE  LET x == v ++ [Order |-> 0]
         IN  ReadBack(decodeOrdered(Field(Message(OrderedValue), x, Nested), config), x)
  <1>1. PICK d \in Data : StoredAs(v, d)
    BY StoredMade
  <1>2. v \in ValueMessages(Data)
    BY StoredMade
  <1> DEFINE x == v ++ [Order |-> 0]
             w == [x EXCEPT !.Value = Wired(@)]
  <1>3. x = [y \in {"Value", "CompressionInfo", "Ttl", "LockInfo", "Order"} |->
                IF y = "Order" THEN 0 ELSE v[y]]
    BY <1>2 DEF ++, ValueMessages
  <1> HIDE DEF x
  <1>4. /\ x \in OrderedValueMessages(Data) /\ x.Value = v.Value /\ x.Ttl = v.Ttl
        /\ x.CompressionInfo = v.CompressionInfo /\ x.LockInfo = v.LockInfo /\ x.Order = 0
    BY <1>2, <1>3 DEF ValueMessages, OrderedValueMessages, Pointer
  <1>5. x # Nil
    BY <1>4, NilFacts DEF NilApart
  <1>6. Field(Message(OrderedValue), x, Nested) = w
    <2>1. Field(Message(OrderedValue), x, Nested) = Nested(OrderedValue, x)
      BY <1>5 DEF Field, Message, OnWire, Default
    <2>2. QED
      BY <1>4, <2>1, NestedOrderedValue
  <1>7. /\ w.Value = Wired(v.Value) /\ w.CompressionInfo = v.CompressionInfo
        /\ w.Ttl = v.Ttl /\ w.LockInfo = v.LockInfo /\ w.Order = 0
    BY <1>4 DEF OrderedValueMessages
  <1>8. w # Nil
    <2>1. Wired(v.Value) \in Pointer(Binaries(Data))
      BY <1>1 DEF StoredAs, Readable, Pointer
    <2>2. w \in OrderedValueMessages(Data)
      BY <1>4, <2>1 DEF OrderedValueMessages
    <2>3. QED
      BY <2>2, NilFacts DEF NilApart
  <1> HIDE DEF w
  <1>9. decodeValue(w, config) = Ok(SeenOf(v, d))
    BY <1>1, <1>7, <1>8, StoredRead
  <1>10. decodeOrdered(w, config) = Ok(OrderedPayload(SeenOf(v, d), 0))
    BY <1>7, <1>8, <1>9 DEF decodeOrdered, Ok, Result
  <1>11. IntactValue(x)
    BY <1>1, <1>4, NilFacts DEF IntactValue, StoredAs, NilApart
  <1>12. SameValue(OrderedPayload(SeenOf(v, d), 0), x)
    BY <1>1, <1>4, <1>5, SeenNotNil DEF SameValue, StoredAs
  <1>13. QED
    BY <1>6, <1>10, <1>11, <1>12 DEF ReadBack, Ok, Result, x

(* What an answer is made of.                                              *)
AnyOrdered == {v ++ [Order |-> 0] : v \in Stored} \cup {Nil}

(* The values of an answer with a value are such values.                   *)
LEMMA ValueAnswer ==
  ASSUME Matched(op), op.gives = "value", NEW a \in Answers
  PROVE  /\ a.ValueUnordered \in AnyValue /\ a.ValueOrdered \in AnyOrdered
         /\ DOMAIN a = {"ValueUnordered", "ValueOrdered", "KeyHint"}
  <1> DEFINE R == ValueResponse
             F == [ValueUnordered : AnyValue, KeyHint : AnyHint]
             G == [ValueOrdered : {v ++ [Order |-> 0] : v \in Stored},
                   ValueUnordered : AnyValue]
  <1>1. Stub[op.rpc].response = R
    BY DEF Matched, ResponseOf
  <1>2. PICK f \in F \cup G : a = New(R, f)
    BY <1>1 DEF Answers
  <1>3. /\ DOMAIN R = {"ValueUnordered", "ValueOrdered", "KeyHint"}
        /\ Default(R["ValueOrdered"]) = Nil
    BY DEF ValueResponse, Default, Message
  <1> HIDE DEF R
  <1>4. /\ DOMAIN a = DOMAIN R
        /\ \A x \in DOMAIN R : a[x] = IF x \in DOMAIN f THEN f[x] ELSE Default(R[x])
    BY <1>2 DEF New
  <1>5. CASE f \in F
    BY <1>3, <1>4, <1>5 DEF AnyOrdered
  <1>6. CASE f \in G
    BY <1>3, <1>4, <1>6 DEF AnyOrdered
  <1>7. QED
    BY <1>2, <1>3, <1>4, <1>5, <1>6

(* What AbsentIsNotEmpty says of an answer a and the result r made of it.  *)
Told(a, r) ==
    CASE op.gives = "value" ->
            /\ (r.code = "OK") = (IntactValue(a.ValueUnordered) /\ IntactValue(a.ValueOrdered))
            /\ r.code = "OK" =>
                  /\ SameValue(r.value.Value, a.ValueUnordered)
                  /\ SameValue(r.value.Ordered, a.ValueOrdered)
      [] op.gives = "update" ->
            /\ (r.code = "OK") = IntactValue(a.Value)
            /\ r.value.Updated = a.Result
            /\ r.code = "OK" => SameValue(r.value.Previous, a.Value)
      [] op.gives = "ttl" -> r.value.ExpiresAtMillis = a.Ttl
      [] op.gives = "cas" ->
            /\ (r.value.Expected = Nil) = (a.Expected = Nil)
            /\ r.value.Swapped = a.Result
      [] OTHER -> r.code = "OK"

(* A value with or without a weight.                                       *)
LEMMA ValueTold ==
  ASSUME config \in Configs, Matched(op), op.gives = "value", NEW a \in Answers
  PROVE  Told(a, Convert(Deliver(Stub[op.rpc].response, a)))
  <1> DEFINE R == ValueResponse
             m == Deliver(R, a)
             u == decodeValue(Field(Message(Value), a.ValueUnordered, Nested), config)
             o == decodeOrdered(Field(Message(OrderedValue), a.ValueOrdered, Nested), config)
             r == Convert(m)
  <1>1. Stub[op.rpc].response = R
    BY DEF Matched, ResponseOf
  <1>2. a.ValueUnordered \in AnyValue /\ a.ValueOrdered \in AnyOrdered
    BY ValueAnswer
  <1>3. /\ m.ValueUnordered = Field(Message(Value), a.ValueUnordered, Nested)
        /\ m.ValueOrdered = Field(Message(OrderedValue), a.ValueOrdered, Nested)
    BY DEF Deliver, ValueResponse
  <1>4. ReadBack(u, a.ValueUnordered)
    BY <1>2, ValueBack
  <1>5. ReadBack(o, a.ValueOrdered)
    <2>1. CASE a.ValueOrdered = Nil
      <3>1. Field(Message(OrderedValue), a.ValueOrdered, Nested) = Nil
        BY <2>1, NilKept
      <3>2. decodeOrdered(Nil, config) = Ok(Nil)
        BY DEF decodeOrdered, decodeValue
      <3>3. QED
        BY <2>1, <3>1, <3>2 DEF ReadBack, IntactValue, SameValue, Ok, Result
    <2>2. CASE a.ValueOrdered # Nil
      BY <1>2, <2>2, OrderedBack DEF AnyOrdered
    <2>3. QED
      BY <2>1, <2>2
  <1> HIDE DEF m, u, o
  <1>6. /\ r.code = IF u.code = "OK" THEN o.code ELSE u.code
        /\ r.value.Value = u.value
        /\ r.value.Ordered = IF u.code = "OK" THEN o.value ELSE Nil
    BY <1>3 DEF Convert, decodeResult, Result, u, o
  <1> HIDE DEF r
  <1>7. r.code = "OK" <=> (IntactValue(a.ValueUnordered) /\ IntactValue(a.ValueOrdered))
    BY <1>4, <1>5, <1>6 DEF ReadBack
  <1>8. r.code = "OK" => /\ SameValue(r.value.Value, a.ValueUnordered)
                         /\ SameValue(r.value.Ordered, a.ValueOrdered)
    BY <1>4, <1>5, <1>6 DEF ReadBack
  <1>9. Told(a, r)
    BY <1>7, <1>8 DEF Told
  <1>10. QED
    BY <1>1, <1>9 DEF m, r

(* What an update was, and whether it was.                                 *)
LEMMA UpdateTold ==
  ASSUME config \in Configs, Matched(op), op.gives = "update", NEW a \in Answers
  PROVE  Told(a, Convert(Deliver(Stub[op.rpc].response, a)))
  <1> DEFINE R == UpdateValueResponse
             m == Deliver(R, a)
             u == decodeValue(Field(Message(Value), a.Value, Nested), config)
             r == Convert(m)
  <1>1. Stub[op.rpc].response = R
    BY DEF Matched, ResponseOf
  <1>2. PICK f \in [Result : BOOLEAN, Value : AnyValue] : a = New(R, f)
    BY <1>1 DEF Answers
  <1>3. a.Value \in AnyValue
    BY <1>2 DEF New, UpdateValueResponse
  <1>4. m.Value = Field(Message(Value), a.Value, Nested) /\ m.Result = a.Result
    BY ScalarKept DEF Deliver, UpdateValueResponse, Bool
  <1>5. ReadBack(u, a.Value)
    BY <1>3, ValueBack
  <1> HIDE DEF m, u
  <1>6. r.code = u.code /\ r.value.Updated = a.Result /\ r.value.Previous = u.value
    BY <1>4 DEF Convert, decodeUpdate, Result, u
  <1> HIDE DEF r
  <1>7. r.code = "OK" <=> IntactValue(a.Value)
    BY <1>5, <1>6 DEF ReadBack
  <1>8. r.code = "OK" => SameValue(r.value.Previous, a.Value)
    BY <1>5, <1>6 DEF ReadBack
  <1>9. (r.code = "OK") = IntactValue(a.Value)
    BY <1>7 DEF IntactValue
  <1>10. Told(a, r)
    BY <1>6, <1>8, <1>9 DEF Told
  <1>11. QED
    BY <1>1, <1>10 DEF m, r

(* The expected value of a compare-and-set, or none.                       *)
LEMMA CasTold ==
  ASSUME Matched(op), op.gives = "cas", NEW a \in Answers
  PROVE  Told(a, Convert(Deliver(Stub[op.rpc].response, a)))
  <1> DEFINE R == AtomicCasRes
             m == Deliver(R, a)
             r == Convert(m)
             E == {Nil} \cup {New(AtomicValue, [Val |-> n]) : n \in Integer64s}
  <1>1. Stub[op.rpc].response = R
    BY DEF Matched, ResponseOf
  <1>2. PICK f \in [Result : BOOLEAN, KeyHint : AnyHint, Expected : E] : a = New(R, f)
    BY <1>1 DEF Answers
  <1>3. a.Expected \in E
    BY <1>2 DEF New, AtomicCasRes
  <1>4. m.Result = a.Result /\ m.Expected = Field(Message(AtomicValue), a.Expected, Nested)
    BY ScalarKept DEF Deliver, AtomicCasRes, Bool
  <1> HIDE DEF m
  <1>5. /\ r.value.Swapped = a.Result
        /\ r.value.Expected = IF m.Expected = Nil THEN Nil ELSE atomicGo(m.Expected)
    BY <1>4 DEF Convert, Ok, Result
  <1>6. CASE a.Expected = Nil
    <2>1. m.Expected = Nil
      BY <1>4, <1>6, NilKept
    <2> HIDE DEF r
    <2>2. Told(a, r)
      BY <1>5, <1>6, <2>1 DEF Told
    <2>3. QED
      BY <1>1, <2>2 DEF m, r
  <1>7. ASSUME NEW n \in Integer64s, a.Expected = New(AtomicValue, [Val |-> n])
        PROVE  Told(a, Convert(Deliver(Stub[op.rpc].response, a)))
    <2> DEFINE x == [Val |-> n, KeyHint |-> Nil]
    <2>1. a.Expected = x
      BY <1>7 DEF New, AtomicValue, Default, Message
    <2>2. x \in AtomicMessages
      BY OperationsAssumption DEF AtomicMessages, Pointer
    <2>3. x # Nil
      BY <2>2, OperationsAssumption
    <2>4. Field(Message(AtomicValue), x, Nested) = Nested(AtomicValue, x)
      BY <2>3 DEF Field, Message, OnWire, Default
    <2>5. Nested(AtomicValue, x) = x
      BY DEF Nested, AtomicValue, Field, OnWire, Default, Message, Uint, Scalar
    <2>6. atomicGo(x) = [Value |-> n, Hint |-> Nil]
      BY DEF atomicGo, hintGo
    <2>7. atomicGo(x) \in AtomicResults
      BY <2>6, OperationsAssumption DEF AtomicResults, Pointer
    <2>8. atomicGo(x) # Nil
      BY <2>7, OperationsAssumption
    <2> HIDE DEF x, r
    <2>9. r.value.Expected # Nil /\ a.Expected # Nil
      BY <1>4, <1>5, <2>1, <2>3, <2>4, <2>5, <2>8
    <2>10. Told(a, r)
      BY <1>5, <2>9 DEF Told
    <2>11. QED
      BY <1>1, <2>10 DEF m, r
  <1>8. QED
    BY <1>3, <1>6, <1>7

(* Every result tells what the answer says.                                *)
LEMMA AnswerTold ==
  ASSUME config \in Configs, Matched(op), NEW a \in Answers
  PROVE  Told(a, Convert(Deliver(Stub[op.rpc].response, a)))
  <1>1. CASE op.gives = "value"
    BY <1>1, ValueTold
  <1>2. CASE op.gives = "update"
    BY <1>2, UpdateTold
  <1>3. CASE op.gives = "ttl"
    <2> DEFINE m == Deliver(TtlResponse, a)
    <2>1. Stub[op.rpc].response = TtlResponse
      BY <1>3 DEF Matched, ResponseOf
    <2>2. m.Ttl = a.Ttl
      BY OptionalKept DEF Deliver, TtlResponse
    <2> HIDE DEF m
    <2>3. Told(a, Convert(m))
      BY <1>3, <2>2 DEF Told, Convert, Ok, Result
    <2>4. QED
      BY <2>1, <2>3 DEF m
  <1>4. CASE op.gives = "cas"
    BY <1>4, CasTold
  <1>5. CASE op.gives \in {"bool", "count", "hint", "lock", "atomic"}
    <2> DEFINE m == Deliver(Stub[op.rpc].response, a)
    <2> HIDE DEF m
    <2>1. Told(a, Convert(m))
      BY <1>5 DEF Told, Convert, Ok, Result
    <2>2. QED
      BY <2>1 DEF m
  <1>6. QED
    BY <1>1, <1>2, <1>3, <1>4, <1>5 DEF Matched, Gives

-----------------------------------------------------------------------------
(* The invariant.                                                          *)

(* What an attempt may have sent so far.                                   *)
Requests == {Received(FieldsAt(t)) : t \in 0..clock}

(* A request is built by an attempt, of a prepared session and at a time   *)
(* that has passed; before the call there is none.                         *)
History ==
    /\ config \in Configs /\ clock \in Nat
    /\ pc \in {"idle", "run", "sent", "returned"}
    /\ pc = "idle" => log = <<>>
    /\ pc # "idle" => Called
    /\ pc \in {"run", "sent"} \/ log # <<>> => Prepared
    /\ log # <<>> => log \in Seq(Requests)
    /\ answer # Nil => pc = "returned"

Inv == History /\ OptionsKept /\ ReplayCarriesSame /\ AbsentIsNotEmpty

(* The invariant holds before the call.                                    *)
LEMMA InitHolds ==
  ASSUME Init
  PROVE  Inv
  <1>1. History
    BY DEF Init, History
  <1>2. DOMAIN log = {} /\ Len(log) = 0
    BY DEF Init
  <1>3. OptionsKept /\ ReplayCarriesSame
    BY <1>2 DEF OptionsKept, ReplayCarriesSame
  <1>4. AbsentIsNotEmpty
    BY DEF Init, AbsentIsNotEmpty
  <1>5. QED
    BY <1>1, <1>3, <1>4 DEF Inv

(* As time passes, what may have been sent stays so.                       *)
LEMMA RequestsGrow ==
  ASSUME UNCHANGED <<config, call, session>>, op.takes \in Takes,
         clock \in Nat, clock' \in Nat, clock <= clock'
  PROVE  Requests \subseteq Requests'
  <1>1. \A t : Received(FieldsAt(t))' = Received(FieldsAt(t))
    BY RequestsStay
  <1>2. 0..clock \subseteq 0..clock'
    OBVIOUS
  <1>3. QED
    BY <1>1, <1>2 DEF Requests

(* A step after which the call and the requests are what they were.        *)
LEMMA PastKept ==
  ASSUME Inv, UNCHANGED <<config, call, session, log>>,
         clock' \in Nat, clock <= clock'
  PROVE  /\ config' \in Configs
         /\ pc # "idle" => Called'
         /\ pc \in {"run", "sent"} \/ log # <<>> => Prepared'
         /\ log' # <<>> => log' \in Seq(Requests')
         /\ OptionsKept' /\ ReplayCarriesSame'
  <1>1. op' = op /\ ClientID' = ClientID
    BY DEF op, ClientID
  <1>2. pc # "idle" => Called'
    BY <1>1 DEF Inv, History, Called
  <1>3. pc \in {"run", "sent"} \/ log # <<>> => Prepared'
    BY <1>1 DEF Inv, History, Prepared
  <1>4. ASSUME log # <<>>
        PROVE  log' \in Seq(Requests')
    <2>1. Called /\ clock \in Nat /\ log \in Seq(Requests)
      BY <1>4 DEF Inv, History
    <2>2. op.takes \in Takes
      BY <2>1, AllMatched DEF op, Called, Matched
    <2>3. Requests \subseteq Requests'
      BY <2>1, <2>2, RequestsGrow
    <2>4. QED
      BY <2>1, <2>3
  <1>5. OptionsKept'
    BY <1>1 DEF Inv, OptionsKept
  <1>6. ReplayCarriesSame'
    BY <1>1 DEF Inv, ReplayCarriesSame
  <1>7. QED
    BY <1>2, <1>3, <1>4, <1>5, <1>6 DEF Inv, History

(* The clock advances.                                                     *)
LEMMA TickKeeps ==
  ASSUME Inv, Tick
  PROVE  Inv'
  <1>1. /\ clock \in Nat /\ clock' \in Nat /\ clock <= clock'
        /\ pc' = pc /\ pc # "returned" /\ answer' = answer
        /\ UNCHANGED <<config, call, session, log>>
    BY DEF Inv, History, Tick
  <1>2. History'
    BY <1>1, PastKept DEF Inv, History
  <1>3. AbsentIsNotEmpty'
    BY <1>1 DEF AbsentIsNotEmpty
  <1>4. QED
    BY <1>1, <1>2, <1>3, PastKept DEF Inv

(* An RPC fails.                                                           *)
LEMMA FailKeeps ==
  ASSUME Inv, Fail
  PROVE  Inv'
  <1>1. /\ clock \in Nat /\ clock' = clock /\ pc = "sent" /\ pc' \in {"run", "returned"}
        /\ answer = Nil /\ answer' = Nil /\ UNCHANGED <<config, call, session, log>>
    BY DEF Inv, History, Fail, Return
  <1>2. clock' \in Nat /\ clock <= clock'
    BY <1>1
  <1>3. History'
    BY <1>1, <1>2, PastKept DEF Inv, History
  <1>4. AbsentIsNotEmpty'
    BY <1>1 DEF AbsentIsNotEmpty
  <1>5. QED
    BY <1>1, <1>2, <1>3, <1>4, PastKept DEF Inv

(* A response arrives.                                                     *)
LEMMA ReplyKeeps ==
  ASSUME Inv, Reply
  PROVE  Inv'
  <1>1. /\ clock \in Nat /\ clock' = clock /\ pc = "sent" /\ pc' = "returned"
        /\ UNCHANGED <<config, call, session, log>>
    BY DEF Inv, History, Reply, Return
  <1>2. clock' \in Nat /\ clock <= clock'
    BY <1>1
  <1>3. History'
    BY <1>1, <1>2, PastKept DEF Inv, History
  <1>4. AbsentIsNotEmpty'
    <2>1. config \in Configs /\ Matched(op)
      BY <1>1, AllMatched DEF Inv, History, Called, op
    <2>2. answer' \in Answers /\ result' = Convert(Deliver(Stub[op.rpc].response, answer'))
      BY DEF Reply, Return
    <2>3. Told(answer', result')
      BY <2>1, <2>2, AnswerTold
    <2>4. op' = op
      BY <1>1 DEF op
    <2>5. QED
      BY <2>3, <2>4 DEF AbsentIsNotEmpty, Told
  <1>5. QED
    BY <1>1, <1>2, <1>3, <1>4, PastKept DEF Inv

(* The request of an attempt joins those before it.                        *)
LEMMA SendKeeps ==
  ASSUME Inv, pc = "run", pc' = "sent", RequestFields(op.takes, call.arg).code = "OK",
         log' = Append(log, Received(RequestFields(op.takes, call.arg).value)),
         UNCHANGED <<config, call, clock, session, answer>>
  PROVE  Inv'
  <1> DEFINE m == Received(RequestFields(op.takes, call.arg).value)
  <1>1. /\ config \in Configs /\ clock \in Nat /\ Called /\ Prepared /\ answer = Nil
        /\ log # <<>> => log \in Seq(Requests)
    BY DEF Inv, History
  <1>2. op' = op /\ ClientID' = ClientID /\ Called' /\ Prepared'
    BY <1>1 DEF op, ClientID, Called, Prepared
  <1>3. OptionsIn(m)
    BY <1>1, OptionsSent
  <1>4. m = Received(FieldsAt(clock))
    BY FieldsNow
  <1>5. m \in Requests
    BY <1>1, <1>4 DEF Requests
  <1> HIDE DEF m
  <1>6. log \in Seq(Requests)
    <2>1. <<>> \in Seq(Requests)
      OBVIOUS
    <2>2. QED
      BY <1>1, <2>1
  <1>7. /\ log' \in Seq(Requests) /\ Len(log') = Len(log) + 1 /\ Len(log) \in Nat
        /\ DOMAIN log = 1..Len(log) /\ DOMAIN log' = 1..(Len(log) + 1)
        /\ \A i \in 1..Len(log) : log'[i] = log[i]
        /\ log'[Len(log) + 1] = m
    BY <1>5, <1>6 DEF m
  <1>8. Requests \subseteq Requests'
    <2>1. op.takes \in Takes
      BY <1>1, AllMatched DEF op, Called, Matched
    <2>2. clock' \in Nat /\ clock <= clock'
      BY <1>1
    <2>3. QED
      BY <1>1, <2>1, <2>2, RequestsGrow
  <1>9. log' \in Seq(Requests')
    BY <1>7, <1>8
  <1>10. History'
    BY <1>1, <1>2, <1>9 DEF History
  <1>11. OptionsKept'
    <2>1. \A i \in DOMAIN log : OptionsIn(log[i])
      BY DEF Inv, OptionsKept, OptionsIn
    <2>2. \A i \in DOMAIN log' : OptionsIn(log'[i])
      <3>1. \A i \in DOMAIN log' : i \in DOMAIN log \/ i = Len(log) + 1
        BY <1>7
      <3>2. QED
        BY <1>3, <1>7, <2>1, <3>1
    <2>3. QED
      BY <1>2, <2>2 DEF OptionsKept, OptionsIn
  <1>12. ReplayCarriesSame'
    <2>1. SUFFICES ASSUME Len(log') = 2
                   PROVE  SameRequest(log'[1], log'[2])
      BY <1>2 DEF ReplayCarriesSame, SameRequest
    <2>2. Len(log) = 1 /\ log'[1] = log[1] /\ log'[2] = m
      BY <1>7, <2>1
    <2>3. log[1] \in Requests
      BY <1>6, <2>2
    <2>4. PICK s \in 0..clock : log[1] = Received(FieldsAt(s))
      BY <2>3 DEF Requests
    <2>5. SameRequest(Received(FieldsAt(s)), Received(FieldsAt(clock)))
      BY <1>1, <2>4, SentLater
    <2>6. QED
      BY <1>4, <2>2, <2>4, <2>5
  <1>13. AbsentIsNotEmpty'
    BY DEF AbsentIsNotEmpty
  <1>14. QED
    BY <1>10, <1>11, <1>12, <1>13 DEF Inv

(* An attempt sends a request or is the end of the call.                   *)
LEMMA AttemptKeeps ==
  ASSUME Inv, Attempt
  PROVE  Inv'
  <1>1. pc = "run" /\ UNCHANGED <<config, call, clock, session, answer>>
    BY DEF Attempt
  <1>2. CASE pc' = "returned" /\ UNCHANGED log
    <2>1. clock \in Nat /\ clock' \in Nat /\ clock <= clock' /\ answer' = Nil
      BY <1>1 DEF Inv, History
    <2>2. History'
      BY <1>1, <1>2, <2>1, PastKept DEF Inv, History
    <2>3. AbsentIsNotEmpty'
      BY <2>1 DEF AbsentIsNotEmpty
    <2>4. QED
      BY <1>1, <1>2, <2>1, <2>2, <2>3, PastKept DEF Inv
  <1>3. CASE /\ pc' = "sent" /\ RequestFields(op.takes, call.arg).code = "OK"
             /\ log' = Append(log, Received(RequestFields(op.takes, call.arg).value))
    BY <1>1, <1>3, SendKeeps
  <1>4. QED
    BY <1>2, <1>3 DEF Attempt, Return

(* perform() of a call with valid options prepares the session.            *)
LEMMA PerformKeeps ==
  ASSUME Inv, NEW name \in DOMAIN Operation, NEW key \in Data, NEW o \in OptionSets,
         NEW arg \in Arguments(Operation[name].takes), Perform(name, key, arg, o)
  PROVE  Inv'
  <1> DEFINE id == OrElse(o.ClientID, config.ClientID)
             k == encodeKey(key, o.Hint, id, config)
  <1>1. /\ config \in Configs /\ clock \in Nat /\ log = <<>> /\ answer = Nil
        /\ UNCHANGED <<config, clock, attempt, log, answer>>
        /\ call' = [op |-> name, key |-> key, arg |-> arg, options |-> o]
    BY DEF Inv, History, Perform
  <1>2. Called'
    BY <1>1 DEF Called, op
  <1>3. /\ o.Hint \in Pointer(KeyHints) /\ o.ClientID \in Pointer(Nat)
        /\ o.TTL \in Pointer(Int) /\ config.ClientID \in Nat /\ config.DefaultTTL \in Int
    BY <1>1, MessagesAssumption, OperationsAssumption
  <1>4. id \in Pointer(Nat) /\ TTL(o) \in Int
    BY <1>3 DEF OrElse, TTL, Pointer
  <1>5. ClientID' = id /\ call'.options.Hint = o.Hint
    BY <1>1 DEF ClientID
  <1> HIDE DEF id
  <1>6. \/ pc' = "returned"
        \/ /\ pc' = "run" /\ ~(TTL(o) < 0) /\ k.code = "OK"
           /\ session' = [key |-> k.value,
                          ttl |-> IF TTL(o) # 0 THEN clock + TTL(o) ELSE Nil]
    BY DEF Perform, Return, id
  <1>7. ASSUME pc' = "run"
        PROVE  Prepared'
    <2>1. /\ ~(TTL(o) < 0) /\ k.code = "OK"
          /\ session' = [key |-> k.value,
                         ttl |-> IF TTL(o) # 0 THEN clock + TTL(o) ELSE Nil]
      BY <1>6, <1>7
    <2>2. k = encodeKeyPolicy(key, o.Hint, id, config, TRUE) /\ TRUE \in BOOLEAN
      BY DEF encodeKey
    <2>3. /\ k.value \in KeyMessages(Data) /\ k.value.ClientId = id
          /\ k.value.KeyHint = hintPB(o.Hint)
      <3> HIDE DEF k
      <3>1. encodeKeyPolicy(key, o.Hint, id, config, TRUE).code = "OK"
        BY <2>1, <2>2
      <3>2. LET e == encodeKeyPolicy(key, o.Hint, id, config, TRUE).value
            IN  e \in KeyMessages(Data) /\ e.ClientId = id /\ e.KeyHint = hintPB(o.Hint)
        <4> DEFINE h == o.Hint
        <4>1. /\ key \in Data /\ h \in Pointer(KeyHints) /\ id \in Pointer(Nat)
              /\ config \in Configs
          BY <1>1, <1>3, <1>4
        <4>2. encodeKeyPolicy(key, h, id, config, TRUE).code = "OK"
          BY <3>1
        <4> HIDE DEF h
        <4>3. LET e == encodeKeyPolicy(key, h, id, config, TRUE).value
              IN  e \in KeyMessages(Data) /\ e.ClientId = id /\ e.KeyHint = hintPB(h)
          BY <4>1, <4>2, KeyMade
        <4>4. QED
          BY <4>3 DEF h
      <3>3. QED
        BY <2>2, <3>2
    <2> HIDE DEF k
    <2>4. session'.key = k.value /\ session'.ttl \in Pointer(Nat)
      BY <1>1, <1>4, <2>1 DEF Pointer
    <2>5. QED
      BY <1>5, <2>3, <2>4 DEF Prepared
  <1>8. History'
    BY <1>1, <1>2, <1>6, <1>7 DEF History
  <1>9. DOMAIN log' = {} /\ Len(log') = 0
    BY <1>1
  <1>10. OptionsKept' /\ ReplayCarriesSame'
    BY <1>9 DEF OptionsKept, ReplayCarriesSame
  <1>11. AbsentIsNotEmpty'
    BY <1>1 DEF AbsentIsNotEmpty
  <1>12. QED
    BY <1>8, <1>10, <1>11 DEF Inv

(* Every step keeps the invariant.                                         *)
LEMMA NextKeeps ==
  ASSUME Inv, [Next]_vars
  PROVE  Inv'
  <1>1. CASE Tick
    BY <1>1, TickKeeps
  <1>2. CASE Attempt
    BY <1>2, AttemptKeeps
  <1>3. CASE Reply
    BY <1>3, ReplyKeeps
  <1>4. CASE Fail
    BY <1>4, FailKeeps
  <1>5. CASE \E name \in DOMAIN Operation, key \in Data, o \in OptionSets :
                \E arg \in Arguments(Operation[name].takes) : Perform(name, key, arg, o)
    BY <1>5, PerformKeeps, Zenon
  <1>6. CASE UNCHANGED vars
    <2>1. /\ UNCHANGED <<config, call, session, log>> /\ clock \in Nat /\ clock' = clock
          /\ pc' = pc /\ answer' = answer /\ result' = result /\ op' = op
      BY <1>6 DEF vars, Inv, History, op
    <2>2. clock' \in Nat /\ clock <= clock'
      BY <2>1
    <2>3. History'
      BY <2>1, <2>2, PastKept DEF Inv, History
    <2>4. AbsentIsNotEmpty'
      BY <2>1 DEF Inv, AbsentIsNotEmpty
    <2>5. QED
      BY <2>1, <2>2, <2>3, <2>4, PastKept DEF Inv
  <1>7. QED
    BY <1>1, <1>2, <1>3, <1>4, <1>5, <1>6 DEF Next

(* The requests and results of every behaviour are as the invariant says.  *)
LEMMA Invariance ==
  Spec => []Inv
  BY InitHolds, NextKeeps, PTL DEF Spec

(* README.md:135, 158: for every configuration, options and arguments, the *)
(* effective client ID and the hint reach the node of every attempt as     *)
(* they were given.                                                        *)
THEOREM OptionsKeptHolds ==
  Spec => []OptionsKept
  BY Invariance, PTL DEF Inv

(* A second attempt sends what the first sent, whenever it comes, and what *)
(* SetTTL and LockObject send only ever lasts longer: operations.go builds *)
(* the request of the session that perform() has fixed.                    *)
THEOREM ReplayCarriesSameHolds ==
  Spec => []ReplayCarriesSame
  BY Invariance, PTL DEF Inv

(* Absent, empty and damaged values, and an expiration at zero or none,    *)
(* are told apart in every result (decodeValue, decodeResult,              *)
(* decodeUpdate).                                                          *)
THEOREM AbsentIsNotEmptyHolds ==
  Spec => []AbsentIsNotEmpty
  BY Invariance, PTL DEF Inv
=============================================================================

-------------------------------- MODULE Wire --------------------------------
(***************************************************************************)
(* The messages of the data service (cache.pb.go), the stubs that carry    *)
(* them (cache_grpc.pb.go) and what proto3 does to a message on its way.   *)
(*                                                                         *)
(* A message type is a schema, a record that gives each Go field its       *)
(* presence; a message is a record over the same fields.  A nil pointer is *)
(* Nil, byte strings are records with a field len (module Encoding).       *)
(***************************************************************************)
EXTENDS Encoding, Sequences

(* The fields of two records or the entries of two tables together.        *)
f ++ g == [x \in DOMAIN f \cup DOMAIN g |-> IF x \in DOMAIN f THEN f[x] ELSE g[x]]

(* The presence of a field: plain scalars have none, a zero is not sent;   *)
(* optional scalars and messages are pointers; bytes are sent unless empty.*)
Scalar(zero) == [presence |-> "implicit", zero |-> zero]
Optional == [presence |-> "optional"]
Bytes == [presence |-> "bytes"]
Message(schema) == [presence |-> "message", of |-> schema]
Repeated(schema) == [presence |-> "repeated", of |-> schema]
Uint == Scalar(0)
Bool == Scalar(FALSE)

(* The enumerations are numbers, as on the wire.                           *)
UNDEFINED == 0
VECTOR == 1
LIST == 2
QUEUE == 3
SET == 4
MAP == 5
ORDERED_MAP == 6
ORDERED_SET == 7
ContainerType == UNDEFINED..ORDERED_SET

NO_LOCK == 0
GLOBAL == 3
LockType == NO_LOCK..GLOBAL

LockStatus == 0..3

BinaryPayload == [Payload |-> Bytes, Size |-> Uint]
KeyBinaryPayload == [Payload |-> Bytes, Size |-> Uint]
KeyHint == [WeekHash |-> Optional, StrongHash |-> Optional]
CompressedInfo == [Enabled |-> Bool, RawSize |-> Optional]
Key == [Payload |-> Message(KeyBinaryPayload),
        CompressionInfo |-> Message(CompressedInfo),
        KeyHint |-> Message(KeyHint), ClientId |-> Optional]
OrderedKey == Key ++ [Order |-> Optional]
LockInfo == [Type |-> Uint, LockedBy |-> Optional,
             LockedTill |-> Optional]
Value == [Value |-> Message(BinaryPayload),
          CompressionInfo |-> Message(CompressedInfo),
          Ttl |-> Optional, LockInfo |-> Message(LockInfo)]
OrderedValue == Value ++ [Order |-> Optional]

GetRequest == [Key |-> Message(Key)]
ContainerGetRequest == [Key |-> Message(Key), ElementKey |-> Message(Key)]
TtlRequest == [Key |-> Message(Key), Ttl |-> Optional]
TtlResponse == [Ttl |-> Optional]
CreateRequest == [Key |-> Message(Key), Value |-> Message(Value)]
UpdateRequest == [Key |-> Message(Key), Value |-> Message(Value)]
UpdateContainerRequest == ContainerGetRequest ++ [Value |-> Message(Value)]
BoolResponse == [Value |-> Bool, Message |-> Optional]
IntResponse == [Size |-> Uint]
ValueResponse == [ValueUnordered |-> Message(Value),
                  ValueOrdered |-> Message(OrderedValue),
                  KeyHint |-> Message(KeyHint)]
BatchValueResponse == [KeyUnordered |-> Repeated(Key),
                       KeyOrdered |-> Repeated(OrderedKey),
                       ValueUnordered |-> Repeated(Value),
                       ValueOrdered |-> Repeated(OrderedValue)]
UpdateValueResponse == [Result |-> Bool, Value |-> Message(Value)]
KeyHintResponse == [KeyHint |-> Message(KeyHint)]
KeyPositionRequest == [Key |-> Message(Key), Type |-> Optional, Pos |-> Uint,
                       End |-> Optional, Reverse |-> Bool]
CreateContainerRequest ==
    [Key |-> Message(Key), Type |-> Uint, Ttl |-> Optional,
     LockInfo |-> Message(LockInfo)] ++ BatchValueResponse
AddToRequest == [Key |-> Message(Key), Type |-> Optional, Ttl |-> Optional,
                 Pos |-> Optional] ++ BatchValueResponse
AddToValRequest == [Key |-> Message(Key), Ttl |-> Optional, IsBefore |-> Bool,
                    Pos |-> Message(Value), Value |-> Repeated(Value)]
RemoveFromContainerRequest ==
    [Key |-> Message(Key), Type |-> Optional, Values |-> Repeated(Value),
     Keys |-> Repeated(Key)]
LockRequest == [Key |-> Message(Key), LockType |-> Uint,
                ClientId |-> Optional, LockDuration |-> Optional]
UnLockRequest == [Key |-> Message(Key), ClientId |-> Optional]
LockResponse == [Result |-> Uint, Message |-> Optional]
UnlockResponse == [Result |-> Uint, Message |-> Optional]
AtomicValue == [Val |-> Uint, KeyHint |-> Message(KeyHint)]
AtomicCreate == [Key |-> Message(Key), Val |-> Message(AtomicValue),
                 Ttl |-> Optional, LockInfo |-> Message(LockInfo)]
AtomicCas == [Key |-> Message(Key), Expected |-> Message(AtomicValue),
              ToSet |-> Message(AtomicValue), Ttl |-> Optional,
              LockInfo |-> Message(LockInfo)]
AtomicCasRes == [Result |-> Bool, Expected |-> Message(AtomicValue),
                 KeyHint |-> Message(KeyHint)]
-----------------------------------------------------------------------------
(* The stubs, in the order of the generated code: what each method sends   *)
(* and what comes back, once or as a stream.                               *)
Rpc(request, response) == [request |-> request, response |-> response]

LockAndTtlStubs ==
    [LockObject |-> Rpc(LockRequest, LockResponse),
     UnlockObject |-> Rpc(UnLockRequest, UnlockResponse),
     SetTtl |-> Rpc(TtlRequest, BoolResponse),
     GetTtl |-> Rpc(GetRequest, TtlResponse)]
ValueStubs ==
    [CreateKeyValue |-> Rpc(CreateRequest, KeyHintResponse),
     GetValue |-> Rpc(GetRequest, ValueResponse),
     GetAndDeleteValue |-> Rpc(GetRequest, ValueResponse),
     ExistKey |-> Rpc(GetRequest, BoolResponse),
     UpdateValue |-> Rpc(UpdateRequest, UpdateValueResponse),
     Remove |-> Rpc(GetRequest, BoolResponse)]
ContainerStubs ==
    [CreateContainer |-> Rpc(CreateContainerRequest, KeyHintResponse),
     GetContainer |-> Rpc(GetRequest, BatchValueResponse),
     GetSize |-> Rpc(GetRequest, IntResponse),
     GetTail |-> Rpc(GetRequest, ValueResponse),
     GetHead |-> Rpc(GetRequest, ValueResponse),
     GetValueInContainer |-> Rpc(ContainerGetRequest, ValueResponse),
     ExistKeyInContainer |-> Rpc(ContainerGetRequest, BoolResponse),
     GetAndRemoveFront |-> Rpc(GetRequest, ValueResponse),
     GetAndRemoveTail |-> Rpc(GetRequest, ValueResponse),
     GetAndRemoveElementAtPosition |-> Rpc(KeyPositionRequest, ValueResponse),
     GetAndDeleteValueInContainer |-> Rpc(ContainerGetRequest, ValueResponse),
     UpdateValueInContainer |-> Rpc(UpdateContainerRequest, UpdateValueResponse)]
ElementStubs ==
    [GetElementAtPosition |-> Rpc(KeyPositionRequest, ValueResponse),
     GetElementInRange |-> Rpc(KeyPositionRequest, BatchValueResponse),
     RemoveHead |-> Rpc(GetRequest, BoolResponse),
     RemoveTail |-> Rpc(GetRequest, BoolResponse),
     RemoveElementAtPosition |-> Rpc(KeyPositionRequest, BoolResponse),
     RemoveFromContainerByKeyValue |->
        Rpc(RemoveFromContainerRequest, IntResponse),
     RemoveInContainer |-> Rpc(ContainerGetRequest, IntResponse),
     AddElementToTail |-> Rpc(AddToRequest, IntResponse),
     AddElementToHead |-> Rpc(AddToRequest, IntResponse),
     AddElement |-> Rpc(AddToRequest, IntResponse),
     AddElementToPositionByValue |-> Rpc(AddToValRequest, IntResponse)]
AtomicStubs ==
    [AtomicLoad |-> Rpc(GetRequest, AtomicValue),
     AtomicLoadAndDelete |-> Rpc(GetRequest, AtomicValue),
     AtomicCreate |-> Rpc(AtomicCreate, KeyHintResponse),
     AtomicStore |-> Rpc(AtomicCreate, KeyHintResponse),
     AtomicCompareAndSet |-> Rpc(AtomicCas, AtomicCasRes)]
    ++ [m \in {"AtomicExchange", "AtomicAdd", "AtomicSub", "AtomicOr",
               "AtomicAnd", "AtomicXor"} |-> Rpc(AtomicCreate, AtomicValue)]

(* The client interface.                                                   *)
Stub == LockAndTtlStubs ++ ValueStubs ++ ContainerStubs ++ ElementStubs
        ++ AtomicStubs
-----------------------------------------------------------------------------
(* What a field that was not sent reads as.                                *)
Default(field) ==
    CASE field.presence = "implicit" -> field.zero
      [] field.presence = "repeated" -> <<>>
      [] OTHER -> Nil

(* The Go composite literal: the fields given, the others zero.            *)
New(schema, fields) ==
    [f \in DOMAIN schema |->
        IF f \in DOMAIN fields THEN fields[f] ELSE Default(schema[f])]

(* Fault (OptionsKept): optional fields are declared without "optional".  *)
FaultOnWire(field, v) ==
    IF field.presence = "bytes" THEN v # Nil /\ v.len > 0
    ELSE v # Default(field) /\ (field.presence = "optional" => v # 0)

(* Marshalling writes the field: empty bytes and defaults are left out.    *)
OnWire(field, v) ==
    IF field.presence = "bytes" THEN v # Nil /\ v.len > 0
    ELSE v # Default(field)

(* What the peer unmarshals of a message without messages in it.           *)
Flat(schema, m) ==
    [f \in DOMAIN schema |->
        IF OnWire(schema[f], m[f]) THEN m[f] ELSE Default(schema[f])]

(* A field as it is unmarshalled, given how a message in it is.            *)
Field(field, v, Inner(_, _)) ==
    IF ~OnWire(field, v) THEN Default(field)
    ELSE IF field.presence = "message" THEN Inner(field.of, v)
    ELSE IF field.presence = "repeated" THEN [i \in DOMAIN v |-> Inner(field.of, v[i])]
    ELSE v

(* A message is a request or a response, or a key or value in one, or      *)
(* something flat in these.                                                *)
Nested(schema, m) == [f \in DOMAIN schema |-> Field(schema[f], m[f], Flat)]
Deliver(schema, m) == [f \in DOMAIN schema |-> Field(schema[f], m[f], Nested)]
=============================================================================

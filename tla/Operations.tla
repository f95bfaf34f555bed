----------------------------- MODULE Operations -----------------------------
(***************************************************************************)
(* The operations that make one RPC: the scalar, lock, TTL, positional,    *)
(* map-entry and atomic ones of operations.go and the two weight lookups   *)
(* of convenience.go.  A call computes its key and expiration once, in     *)
(* perform(); every attempt of run() builds the request again; the clock   *)
(* advances in between.                                                    *)
(*                                                                         *)
(* The server is external: it answers anything its response type allows,   *)
(* or fails before or after it has executed the request.  Which node an    *)
(* attempt goes to and when there is a second one is module SmartRun; the  *)
(* contexts are module ClientCall, the units and widths of times module    *)
(* Timing.                                                                 *)
(*                                                                         *)
(* A definition named Fault... is a deliberately wrong variant of the one  *)
(* below it; no specification uses it.                                     *)
(***************************************************************************)
EXTENDS Messages, Integers

CONSTANTS
    OptionSets,     \* Options a caller may pass: [Hint, ClientID, TTL]
    Durations, Positions, Weights, Locks, Integer64s,   \* other arguments
    MsPerSecond,    \* milliseconds per second
    MaxUint32,      \* bound of a lock's expiration
    MaxClock        \* bound of the clock, in milliseconds

(* Types of what is sent to and returned by the atomic operations, and of  *)
(* the payloads a caller is given back.                                    *)
AtomicMessages == [Val : Int, KeyHint : Pointer(HintMessages)]
AtomicResults == [Value : Int, Hint : Pointer(KeyHints)]
SeenPayloads ==
    [Data : Data, ExpiresAtMillis : Pointer(Nat), Lock : Pointer(LockInfos),
     Hint : {Nil}, Compression : Pointer(Infos), ClientID : {Nil}]
SeenOrdered ==
    [Data : Data, ExpiresAtMillis : Pointer(Nat), Lock : Pointer(LockInfos),
     Hint : {Nil}, Compression : Pointer(Infos), ClientID : {Nil},
     Order : Pointer(Nat)]

ASSUME OperationsAssumption ==
    /\ Empty \in Data /\ MaxClock \in Nat /\ MsPerSecond \in Nat \ {0}
    /\ OptionSets \subseteq [Hint : Pointer(KeyHints), ClientID : Pointer(Nat),
                             TTL : Pointer(Int)]
    /\ \A c \in Configs : c.DefaultTTL \in Int
    /\ Positions \subseteq [Start : Nat, End : Pointer(Nat), Type : Pointer(Nat),
                            Reverse : BOOLEAN]
    /\ Durations \subseteq Int /\ Weights \subseteq Nat /\ Integer64s \subseteq Int
    /\ Locks \subseteq [kind : Int, duration : Int]
    /\ Nil \notin Int /\ Nil \notin AtomicMessages /\ Nil \notin AtomicResults
    /\ Nil \notin SeenPayloads /\ Nil \notin SeenOrdered

(* An operation: its dispatch policy, its RPC, what the request is built   *)
(* of and what the response is turned into.                                *)
Op(write, rpc, takes, gives) ==
    [write |-> write, rpc |-> rpc, takes |-> takes, gives |-> gives]

KeyOperations ==
    [GetValue |-> Op(FALSE, "GetValue", "key", "value"),
     GetAndDeleteValue |-> Op(TRUE, "GetAndDeleteValue", "key", "value"),
     ExistKey |-> Op(FALSE, "ExistKey", "key", "bool"),
     Remove |-> Op(FALSE, "Remove", "key", "bool"),
     GetSize |-> Op(FALSE, "GetSize", "key", "count"),
     GetFront |-> Op(FALSE, "GetHead", "key", "value"),
     GetHead |-> Op(FALSE, "GetHead", "key", "value"),
     GetTail |-> Op(FALSE, "GetTail", "key", "value"),
     GetAndRemoveFront |-> Op(TRUE, "GetAndRemoveFront", "key", "value"),
     GetAndRemoveTail |-> Op(TRUE, "GetAndRemoveTail", "key", "value"),
     RemoveHead |-> Op(TRUE, "RemoveHead", "key", "bool"),
     RemoveTail |-> Op(TRUE, "RemoveTail", "key", "bool")]
TtlOperations ==
    [SetTTL |-> Op(TRUE, "SetTtl", "ttl", "bool"),
     GetTTL |-> Op(FALSE, "GetTtl", "key", "ttl")]
ScalarOperations ==
    [CreateKeyValue |-> Op(FALSE, "CreateKeyValue", "create", "hint"),
     UpdateKeyValue |-> Op(FALSE, "UpdateValue", "update", "update")]
PositionOperations ==
    [GetElementAtPosition |->
        Op(FALSE, "GetElementAtPosition", "position", "value"),
     GetAndRemoveElementAtPosition |->
        Op(TRUE, "GetAndRemoveElementAtPosition", "position", "value"),
     RemoveElementAtPosition |->
        Op(TRUE, "RemoveElementAtPosition", "position", "bool")]
WeightOperations ==
    [GetElementWithWeight |->
        Op(FALSE, "GetElementAtPosition", "weight", "value"),
     GetAndRemoveElementWithWeight |->
        Op(FALSE, "GetAndRemoveElementAtPosition", "weight", "value")]
ElementOperations ==
    [GetContainerValue |-> Op(FALSE, "GetValueInContainer", "element", "value"),
     GetAndRemoveContainerValue |->
        Op(TRUE, "GetAndDeleteValueInContainer", "element", "value"),
     ContainsContainerKey |->
        Op(FALSE, "ExistKeyInContainer", "element", "bool"),
     RemoveContainerKey |-> Op(TRUE, "RemoveInContainer", "element", "count"),
     UpdateContainerValue |->
        Op(TRUE, "UpdateValueInContainer", "entry", "update")]
LockOperations ==
    [LockObject |-> Op(TRUE, "LockObject", "lock", "lock"),
     UnlockObject |-> Op(TRUE, "UnlockObject", "unlock", "lock")]
AtomicLoads ==
    [AtomicLoad |-> Op(FALSE, "AtomicLoad", "key", "atomic"),
     AtomicLoadAndDelete |-> Op(TRUE, "AtomicLoadAndDelete", "key", "atomic")]
AtomicOperations ==
    [m \in {"AtomicCreate", "AtomicStore"} |-> Op(TRUE, m, "atomic", "hint")]
    ++ [m \in {"AtomicExchange", "AtomicAdd", "AtomicSub", "AtomicOr",
               "AtomicAnd", "AtomicXor"} |-> Op(TRUE, m, "atomic", "atomic")]
    ++ [AtomicCompareAndSet |-> Op(TRUE, "AtomicCompareAndSet", "cas", "cas")]

Operation == KeyOperations ++ TtlOperations ++ ScalarOperations
             ++ PositionOperations ++ WeightOperations ++ ElementOperations
             ++ LockOperations ++ AtomicLoads ++ AtomicOperations

(* The arguments of an operation beside the key and the options.           *)
Arguments(takes) ==
    CASE takes \in {"key", "unlock"} -> {Nil}
      [] takes = "ttl" -> Durations
      [] takes \in {"create", "update", "element"} -> Data
      [] takes = "entry" -> Data \X Data
      [] takes = "position" -> Positions
      [] takes = "weight" -> Weights
      [] takes = "lock" -> Locks
      [] takes = "atomic" -> Integer64s
      [] takes = "cas" -> Integer64s \X Integer64s
-----------------------------------------------------------------------------
VARIABLES
    config,     \* c.config
    call,       \* [op, key, arg, options], or Nil before the call
    pc,         \* "idle", "run", "sent" or "returned"
    clock,      \* time.Now().UnixMilli()
    session,    \* key and ttl of the session, or Nil
    attempt,    \* how often run() has called the operation
    log,        \* history: requests as the nodes received them
    answer,     \* history: the response the last node sent, or Nil
    result      \* what the operation returns, [code, value], or Nil

vars == <<config, call, pc, clock, session, attempt, log, answer, result>>

op == Operation[call.op]
OrElse(p, default) == IF p = Nil THEN default ELSE p

Init ==
    /\ config \in Configs
    /\ call = Nil /\ pc = "idle" /\ clock = 0 /\ session = Nil /\ attempt = 0
    /\ log = <<>> /\ answer = Nil /\ result = Nil

Tick ==
    /\ clock < MaxClock /\ pc # "returned"
    /\ clock' = clock + 1
    /\ UNCHANGED <<config, call, pc, session, attempt, log, answer, result>>

Return(r) == pc' = "returned" /\ result' = r

ClientID == OrElse(call.options.ClientID, config.ClientID)
TTL(o) == OrElse(o.TTL, config.DefaultTTL)

(* perform(): the options are checked, the key is encoded, and a TTL that  *)
(* is not zero becomes an expiration.                                      *)
Perform(name, key, arg, o) ==
    /\ pc = "idle"
    /\ call' = [op |-> name, key |-> key, arg |-> arg, options |-> o]
    /\ LET k == encodeKey(key, o.Hint, OrElse(o.ClientID, config.ClientID), config)
       IN  IF TTL(o) < 0 THEN Return(Err("InvalidArgument")) /\ UNCHANGED session
           ELSE IF k.code # "OK" THEN Return(k) /\ UNCHANGED session
           ELSE /\ pc' = "run"
                /\ session' = [key |-> k.value,
                               ttl |-> IF TTL(o) # 0 THEN clock + TTL(o) ELSE Nil]
                /\ UNCHANGED result
    /\ UNCHANGED <<config, clock, attempt, log, answer>>

LockExpiry(duration) == (clock + duration) \div MsPerSecond

(* The arguments the operation itself refuses.                             *)
Refused(takes, a) ==
    CASE takes = "ttl" -> a < 0
      [] takes = "position" -> InvalidPosition(a)
      [] takes = "lock" -> \/ a.kind \notin LockType \/ a.duration < 0
                           \/ a.duration > 0 /\ LockExpiry(a.duration) > MaxUint32
      [] OTHER -> FALSE

(* The key of a map entry.                                                 *)
ElementKey(d) == encodeKeyPolicy(d, Nil, session.key.ClientId, config, FALSE)

(* Fault (ReplayCarriesSame): the expiration counts from the attempt.      *)
FaultSessionTTL == IF TTL(call.options) = 0 THEN Nil ELSE clock + TTL(call.options)

SessionTTL == session.ttl

Fields(r, F(_)) == IF r.code = "OK" THEN Ok(F(r.value)) ELSE r

(* The fields of the request: [code, value].                               *)
RequestFields(takes, a) ==
    CASE takes = "key" -> Ok([Key |-> session.key])
      [] takes = "ttl" -> Ok([Key |-> session.key, Ttl |-> clock + a])
      [] takes = "create" ->
            Fields(encodeValue(Payload(a), SessionTTL, config),
                   LAMBDA v : [Key |-> session.key,
                               Value |-> [v EXCEPT !.LockInfo =
                                            New(LockInfo,
                                                [Type |-> NO_LOCK,
                                                 LockedBy |-> session.key.ClientId])]])
      [] takes = "update" ->
            Fields(encodeValue(Payload(a), SessionTTL, config),
                   LAMBDA v : [Key |-> session.key, Value |-> v])
      [] takes = "position" -> Ok(positionPB(session.key, a))
      [] takes = "weight" ->
            Ok(positionPB(session.key, Position(a, Nil, Nil, FALSE)))
      [] takes = "element" ->
            Fields(ElementKey(a),
                   LAMBDA k : [Key |-> session.key, ElementKey |-> k])
      [] takes = "entry" ->
            LET k == ElementKey(a[1])
            IN  IF k.code # "OK" THEN k
                ELSE Fields(encodeValuePolicy(Payload(a[2]), Nil, config, FALSE),
                            LAMBDA v : [Key |-> session.key,
                                        ElementKey |-> k.value, Value |-> v])
      [] takes = "lock" ->
            Ok([Key |-> session.key, LockType |-> a.kind,
                ClientId |-> session.key.ClientId,
                LockDuration |-> IF a.duration > 0 THEN LockExpiry(a.duration)
                                                   ELSE Nil])
      [] takes = "unlock" ->
            Ok([Key |-> session.key, ClientId |-> session.key.ClientId])
      [] takes = "atomic" ->
            Ok([Key |-> session.key, Val |-> New(AtomicValue, [Val |-> a]),
                Ttl |-> SessionTTL])
      [] takes = "cas" ->
            Ok([Key |-> session.key, Ttl |-> SessionTTL,
                Expected |-> New(AtomicValue, [Val |-> a[1]]),
                ToSet |-> New(AtomicValue, [Val |-> a[2]])])

Received(fields) ==
    Deliver(Stub[op.rpc].request, New(Stub[op.rpc].request, fields))

(* An attempt: the request is refused, or built and sent by unary(), which *)
(* checks the context and the size first.                                  *)
Attempt ==
    /\ pc = "run"
    /\ LET r == RequestFields(op.takes, call.arg)
       IN  IF Refused(op.takes, call.arg)
           THEN Return(Err("InvalidArgument")) /\ UNCHANGED log
           ELSE IF r.code # "OK" THEN Return(r) /\ UNCHANGED log
           ELSE \/ Return(Err("ResourceExhausted")) /\ UNCHANGED log
                \/ Return(Err("Canceled")) /\ UNCHANGED log
                \/ /\ log' = Append(log, Received(r.value))
                   /\ pc' = "sent" /\ UNCHANGED result
    /\ attempt' = attempt + 1
    /\ UNCHANGED <<config, call, clock, session, answer>>
-----------------------------------------------------------------------------
(* What the values of a response may be: stored by some client, without a  *)
(* payload, or with a size that is not true.                               *)
Stored == {encodeValue(Payload(d), ttl, config).value :
              d \in {e \in Data : ~TooLong(e, config)}, ttl \in {Nil, 0}}
AnyValue == {Nil} \cup Stored
            \cup {[v EXCEPT !.Value = Nil] : v \in Stored}
            \cup {[v EXCEPT !.Value.Size = @ + 1] : v \in Stored}
AnyHint == {Nil, [WeekHash |-> 0, StrongHash |-> Nil]}

Answers ==
    LET response == Stub[op.rpc].response
        All(fields) == {New(response, f) : f \in fields}
    IN  CASE op.gives = "value" ->
                All([ValueUnordered : AnyValue, KeyHint : AnyHint]
                    \cup [ValueOrdered : {v ++ [Order |-> 0] : v \in Stored},
                          ValueUnordered : AnyValue])
          [] op.gives = "update" -> All([Result : BOOLEAN, Value : AnyValue])
          [] op.gives = "bool" -> All([Value : BOOLEAN])
          [] op.gives = "count" -> All([Size : {0, MaxUint32}])
          [] op.gives = "ttl" -> All([Ttl : {Nil, 0, MaxClock}])
          [] op.gives = "hint" -> All([KeyHint : AnyHint])
          [] op.gives = "lock" -> All([Result : LockStatus])
          [] op.gives = "atomic" -> All([Val : Integer64s, KeyHint : AnyHint])
          [] op.gives = "cas" ->
                All([Result : BOOLEAN, KeyHint : AnyHint,
                     Expected : {Nil} \cup {New(AtomicValue, [Val |-> n]) :
                                               n \in Integer64s}])

(* The result made of a response.                                          *)
Convert(r) ==
    CASE op.gives = "value" -> decodeResult(r, config)
      [] op.gives = "update" -> decodeUpdate(r, config)
      [] op.gives = "bool" -> Ok(r.Value)
      [] op.gives = "count" -> Ok(r.Size)
      [] op.gives = "ttl" ->
            Ok([ExpiresAtMillis |-> r.Ttl,
                Remaining |-> IF r.Ttl = Nil THEN Nil ELSE r.Ttl - clock])
      [] op.gives = "hint" -> Ok(hintGo(r.KeyHint))
      [] op.gives = "lock" -> Ok([Status |-> r.Result, Message |-> r.Message])
      [] op.gives = "atomic" -> Ok(atomicGo(r))
      [] op.gives = "cas" ->
            Ok([Swapped |-> r.Result, Hint |-> hintGo(r.KeyHint),
                Expected |-> IF r.Expected = Nil THEN Nil
                                                 ELSE atomicGo(r.Expected)])

Reply ==
    /\ pc = "sent"
    /\ answer' \in Answers
    /\ Return(Convert(Deliver(Stub[op.rpc].response, answer')))
    /\ UNCHANGED <<config, call, clock, session, attempt, log>>

(* The RPC fails.  run() may repeat the operation once.                    *)
Fail ==
    /\ pc = "sent"
    /\ \/ Return(Err("Unavailable"))
       \/ attempt = 1 /\ pc' = "run" /\ UNCHANGED result
    /\ UNCHANGED <<config, call, clock, session, attempt, log, answer>>

Next ==
    \/ Tick \/ Attempt \/ Reply \/ Fail
    \/ \E name \in DOMAIN Operation, key \in Data, o \in OptionSets :
          \E arg \in Arguments(Operation[name].takes) : Perform(name, key, arg, o)

Spec == Init /\ [][Next]_vars
-----------------------------------------------------------------------------
(* README.md:135, 158: the effective client ID and the hint reach every    *)
(* node as they were given, an explicit zero included, and the client is   *)
(* the same in the key, in the key of a map entry, in a lock or unlock     *)
(* request and as the owner of a new value.                                *)
OptionsKept ==
    \A i \in DOMAIN log :
        LET m == log[i]
        IN  /\ m.Key.ClientId = ClientID
            /\ m.Key.KeyHint = hintPB(call.options.Hint)
            /\ "ClientId" \in DOMAIN m => m.ClientId = ClientID
            /\ "ElementKey" \in DOMAIN m => m.ElementKey.ClientId = ClientID
            /\ op.takes = "create" => m.Value.LockInfo.LockedBy = ClientID

(* A second attempt, which may follow one that was executed, sends what    *)
(* the first sent, however late it is: the life of what is created does    *)
(* not start again.  SetTTL and LockObject count from the attempt and only *)
(* ever extend it.                                                         *)
ReplayCarriesSame ==
    Len(log) = 2 =>
        LET a == log[1]
            b == log[2]
        IN  CASE op.takes = "ttl" -> b.Ttl >= a.Ttl /\ b = [a EXCEPT !.Ttl = b.Ttl]
              [] op.takes = "lock" /\ a.LockDuration # Nil ->
                    /\ b.LockDuration >= a.LockDuration
                    /\ b = [a EXCEPT !.LockDuration = b.LockDuration]
              [] OTHER -> b = a

IntactValue(v) ==
    v # Nil => v.Value # Nil /\ v.Value.Size = v.Value.Payload.len
SameValue(p, v) ==
    IF v = Nil THEN p = Nil
    ELSE /\ p # Nil
         /\ p.Data = v.Value.Payload.data
         /\ p.ExpiresAtMillis = v.Ttl

(* Presence survives the way back: an absent value, an empty one and one   *)
(* that is damaged are three results, and so are an expiration at zero and *)
(* none; Updated does not depend on Previous (decodeValue, decodeResult,   *)
(* decodeUpdate).                                                          *)
AbsentIsNotEmpty ==
    pc = "returned" /\ answer # Nil =>
        CASE op.gives = "value" ->
                /\ (result.code = "OK") = (/\ IntactValue(answer.ValueUnordered)
                                           /\ IntactValue(answer.ValueOrdered))
                /\ result.code = "OK" =>
                      /\ SameValue(result.value.Value, answer.ValueUnordered)
                      /\ SameValue(result.value.Ordered, answer.ValueOrdered)
          [] op.gives = "update" ->
                /\ (result.code = "OK") = IntactValue(answer.Value)
                /\ result.value.Updated = answer.Result
                /\ result.code = "OK" =>
                      SameValue(result.value.Previous, answer.Value)
          [] op.gives = "ttl" -> result.value.ExpiresAtMillis = answer.Ttl
          [] op.gives = "cas" ->
                /\ (result.value.Expected = Nil) = (answer.Expected = Nil)
                /\ result.value.Swapped = answer.Result
          [] OTHER -> result.code = "OK"
=============================================================================

------------------------------ MODULE Collect -------------------------------
(***************************************************************************)
(* Collections across the wire: encodeItems() and addRequest() on the way  *)
(* in, decodeBatch() and collect() on the way out (collections.go), with   *)
(* the Create..., Add... and Stream... methods around them                 *)
(* (convenience.go).  One call fills a container, another reads it as a    *)
(* stream of batches, which run() may start a second time.                 *)
(*                                                                         *)
(* The server is external.  It pairs keys and values by position, may cut  *)
(* the contents into batches anywhere, may send batches that are not well  *)
(* formed, and may fail at any time; it ends a stream only at its end.     *)
(* How a mutation is cut into requests is module Batch.                    *)
(*                                                                         *)
(* A definition named Fault... is a deliberately wrong variant of the one  *)
(* below it; no specification uses it.                                     *)
(***************************************************************************)
EXTENDS Messages, SequencesExt

CONSTANTS
    Payloads,       \* elements a caller may store
    Keys,           \* map keys a caller may use, as payloads
    Orders,         \* weights a caller may give
    TTLs,           \* expirations of the session, or Nil
    Spans,          \* ranges a caller may ask for: [start, end, reverse]
    MaxItems,       \* bound: items of a container
    MaxChunks       \* bound: batches of a stream

ASSUME CollectAssumption ==
    /\ MaxItems \in Nat /\ MaxChunks \in Nat
    /\ Spans \subseteq [start : Nat, end : Nat, reverse : BOOLEAN]
    /\ Payloads \subseteq PayloadsOf(Data) /\ Keys \subseteq PayloadsOf(Data)
    /\ Orders \subseteq Pointer(Nat) /\ TTLs \subseteq Pointer(Nat)

(* ContainerData: one of its four lists is used, by the type.              *)
Lists == {"Values", "OrderedValues", "Entries", "OrderedEntries"}
NoData == [l \in Lists |-> <<>>]
Only(l, s) == [NoData EXCEPT ![l] = s]
Concat(d, e) == [l \in Lists |-> d[l] \o e[l]]
Count(d) == Len(d.Values) + Len(d.OrderedValues) + Len(d.Entries)
            + Len(d.OrderedEntries)

ListOf(t) ==
    CASE t = MAP -> "Entries"
      [] t = ORDERED_MAP -> "OrderedEntries"
      [] t = ORDERED_SET -> "OrderedValues"
      [] OTHER -> "Values"

CreateOperations ==
    [CreateQueue |-> QUEUE, CreateList |-> LIST, CreateVector |-> VECTOR,
     CreateSet |-> SET, CreateOrderedSet |-> ORDERED_SET, CreateMap |-> MAP,
     CreateOrderedMap |-> ORDERED_MAP]

(* The type each insertion passes to add().                                *)
AddOperations ==
    [m \in {"AddElementToTail", "AddElementToHead", "AddElementToPosition",
            "AddElementToPositionBefore", "AddElementToPositionAfter"} |-> LIST]
    ++ [AddElement |-> SET, AddElementOrdered |-> ORDERED_SET,
        AddElementOrderedSet |-> ORDERED_SET, AddElementWithWeight |-> ORDERED_SET,
        AddElementHashMap |-> MAP, AddElementOrderedMap |-> ORDERED_MAP]
CountOperations ==
    [m \in {"AddElementToHeadCount", "AddElementToTailCount",
            "AddElementToPositionBeforeCount", "AddElementToPositionAfterCount",
            "AddElementUnordered"} |-> LIST]

(* The list each reader returns; the first two return all of them.         *)
StreamOperations ==
    [StreamQueue |-> "Values", StreamList |-> "Values", StreamVector |-> "Values",
     StreamSet |-> "Values", StreamOrderedSet |-> "OrderedValues",
     StreamMap |-> "Entries", StreamOrderedMap |-> "OrderedEntries"]
RangeOperations ==
    [StreamElementInRangeUnordered |-> "Values",
     StreamElementInRangeOrderedSet |-> "OrderedValues",
     StreamElementInRangeOrdered |-> "OrderedValues"]
MapRangeOperation == [StreamElementInRangeOrderedMap |-> "OrderedEntries"]
Helper == StreamOperations ++ RangeOperations ++ MapRangeOperation
Readers == DOMAIN Helper \cup {"GetContainer", "GetElementInRange"}
Ranges == {"GetElementInRange"} \cup DOMAIN RangeOperations
          \cup DOMAIN MapRangeOperation
-----------------------------------------------------------------------------
(* encodeItems().                                                          *)

Mismatched(t, d) == \E l \in Lists \ {ListOf(t)} : d[l] # <<>>

(* An item is a value or a key and its value.                              *)
NoItem == [key |-> Nil, orderedKey |-> Nil, value |-> Nil, orderedValue |-> Nil]

OrderedKeyOf(k, order) == k ++ [Order |-> OrderOrZero(order)]

KeyOwner(s, k) == IF k.ClientID # Nil THEN k.ClientID ELSE s.key.ClientId

(* The creation's expiration goes to the elements of the Java-style types. *)
ElementTTL(s, t, creation) ==
    IF creation /\ t \in {MAP, ORDERED_MAP, ORDERED_SET} THEN s.ttl ELSE Nil

Both(k, v, Make(_, _)) ==
    IF k.code # "OK" THEN k
    ELSE IF v.code # "OK" THEN v ELSE Ok(Make(k.value, v.value))
One(v, Make(_)) == IF v.code # "OK" THEN v ELSE Ok(Make(v.value))

encodeItem(s, l, p, ttl) ==
    CASE l = "Values" ->
            One(encodeValuePolicy(p, ttl, s.config, FALSE),
                LAMBDA v : [NoItem EXCEPT !.value = v])
      [] l = "OrderedValues" ->
            One(encodeOrdered(p, ttl, s.config),
                LAMBDA v : [NoItem EXCEPT !.orderedValue = v])
      [] l = "Entries" ->
            Both(encodeKeyPolicy(p.Key.Data, p.Key.Hint, KeyOwner(s, p.Key),
                                 s.config, FALSE),
                 encodeValuePolicy(p.Value, ttl, s.config, FALSE),
                 LAMBDA k, v : [NoItem EXCEPT !.key = k, !.value = v])
      [] l = "OrderedEntries" ->
            Both(encodeKeyPolicy(p.Key.Data, p.Key.Hint, KeyOwner(s, p.Key),
                                 s.config, TRUE),
                 encodeValuePolicy(p.Value, ttl, s.config, TRUE),
                 LAMBDA k, v : [NoItem EXCEPT
                                  !.orderedKey = OrderedKeyOf(k, p.Key.Order),
                                  !.value = v])

encodeItems(s, t, d, creation) ==
    LET List(l) == [i \in DOMAIN d[l] |->
                       encodeItem(s, l, d[l][i], ElementTTL(s, t, creation))]
        all == List("Values") \o List("OrderedValues") \o List("Entries")
               \o List("OrderedEntries")
    IN  IF t \notin VECTOR..ORDERED_SET \/ Mismatched(t, d)
        THEN Err("InvalidArgument")
        ELSE IF \E i \in DOMAIN all : all[i].code # "OK"
        THEN Err("ResourceExhausted")
        ELSE Ok([i \in DOMAIN all |-> all[i].value])

(* addRequest(): each part of the items goes to its own repeated field,    *)
(* which leaves out the items without it.                                  *)
Nth(I, k) == CHOOSE i \in I : Cardinality({j \in I : j <= i}) = k
Column(items, part) ==
    LET I == {i \in DOMAIN items : items[i][part] # Nil}
    IN  [k \in 1..Cardinality(I) |-> items[Nth(I, k)][part]]

Columns(items) ==
    [KeyUnordered |-> Column(items, "key"),
     KeyOrdered |-> Column(items, "orderedKey"),
     ValueUnordered |-> Column(items, "value"),
     ValueOrdered |-> Column(items, "orderedValue")]

addRequest(k, t, pos, items) ==
    [Key |-> k, Type |-> t, Pos |-> pos, Ttl |-> Nil] ++ Columns(items)

createRequest(k, t, ttl, items) ==
    [Key |-> k, Type |-> t, Ttl |-> ttl, LockInfo |-> Nil] ++ Columns(items)

(* The server takes a request apart again.                                 *)
Unpack(m) ==
    IF m.KeyUnordered # <<>>
    THEN [i \in DOMAIN m.KeyUnordered |->
            [NoItem EXCEPT !.key = m.KeyUnordered[i], !.value = m.ValueUnordered[i]]]
    ELSE IF m.KeyOrdered # <<>>
    THEN [i \in DOMAIN m.KeyOrdered |->
            [NoItem EXCEPT !.orderedKey = m.KeyOrdered[i],
                           !.value = m.ValueUnordered[i]]]
    ELSE [i \in DOMAIN m.ValueUnordered |->
            [NoItem EXCEPT !.value = m.ValueUnordered[i]]]
         \o [i \in DOMAIN m.ValueOrdered |->
            [NoItem EXCEPT !.orderedValue = m.ValueOrdered[i]]]
-----------------------------------------------------------------------------
(* decodeBatch(): an error or the four lists.  Elements of a repeated      *)
(* field that was received are never nil.                                  *)

(* Fault (PrefixExact): the numbers of keys and values are not compared.   *)
FaultUnpaired(b) == b.KeyUnordered # <<>> /\ b.KeyOrdered # <<>>

Unpaired(b) ==
    LET nk == Len(b.KeyUnordered) + Len(b.KeyOrdered)
    IN  \/ b.KeyUnordered # <<>> /\ b.KeyOrdered # <<>>
        \/ nk > 0 /\ (nk # Len(b.ValueUnordered) \/ b.ValueOrdered # <<>>)

decodeBatch(b, c) ==
    LET values == [i \in DOMAIN b.ValueUnordered |->
                      decodeValue(b.ValueUnordered[i], c)]
        ordered == [i \in DOMAIN b.ValueOrdered |->
                      decodeOrdered(b.ValueOrdered[i], c)]
        keys == [i \in DOMAIN (b.KeyUnordered \o b.KeyOrdered) |->
                      decodeKey((b.KeyUnordered \o b.KeyOrdered)[i], c)]
        pairs == [i \in DOMAIN values |->
                      IF values[i].code = "OK" /\ i \in DOMAIN keys THEN keys[i]
                      ELSE values[i]]
        all == pairs \o ordered
        bad == {i \in DOMAIN all : all[i].code # "OK"}
    IN  IF Unpaired(b) THEN Err("DataLoss")
        ELSE IF bad # {} THEN all[Min(bad)]
        ELSE LET n == Len(values)
                 plain == [i \in 1..n |-> values[i].value]
                 m == IF Len(keys) < n THEN Len(keys) ELSE n
             IN  Ok(Concat(
                    Only("OrderedValues", [i \in DOMAIN ordered |-> ordered[i].value]),
                    IF b.KeyUnordered # <<>>
                    THEN Only("Entries", [i \in 1..m |->
                            [Key |-> keys[i].value, Value |-> plain[i]]])
                    ELSE IF b.KeyOrdered # <<>>
                    THEN Only("OrderedEntries", [i \in 1..m |->
                            [Key |-> OrderedPayload(keys[i].value,
                                                    b.KeyOrdered[i].Order),
                             Value |-> plain[i]]])
                    ELSE Only("Values", plain)))
-----------------------------------------------------------------------------
VARIABLES
    session,        \* key, ttl and config of both calls
    written,        \* history: [type, creation, data] of the writer
    contents,       \* server: the items of the container
    pc,             \* "write", "refused", "written", "open", "recv",
                    \* "failed" or "returned"
    reader,         \* [op, position] of the reader
    attempt,        \* how often run() has called collect()
    todo,           \* server: the items the stream has not sent
    result,         \* the lists collect() has filled
    chunks, items,  \* its counters
    error,          \* what is returned: [code, partial, chunks, items]
    foreign,        \* history: the server sent another representation
    progressed      \* history: the attempts in which a batch was accepted

vars == <<session, written, contents, pc, reader, attempt, todo, result, chunks,
          items, error, foreign, progressed>>
writeVars == <<session, written, contents>>

Error(code) == [code |-> code, partial |-> FALSE, chunks |-> 0, items |-> 0]
NoError == Error("OK")

Init ==
    /\ \E c \in Configs, ttl \in TTLs :
          session = [key |-> encodeKey(Empty, Nil, c.ClientID, c).value,
                     ttl |-> ttl, config |-> c]
    /\ written = Nil /\ contents = <<>> /\ pc = "write" /\ reader = Nil
    /\ attempt = 0 /\ todo = <<>> /\ result = NoData
    /\ chunks = 0 /\ items = 0 /\ error = NoError
    /\ foreign = FALSE /\ progressed = {}

(* The lists a caller may pass.                                            *)
Elements(l) ==
    CASE l = "Values" -> Payloads
      [] l = "OrderedValues" -> {OrderedPayload(p, o) : p \in Payloads, o \in Orders}
      [] l = "Entries" -> [Key : Keys, Value : Payloads]
      [] l = "OrderedEntries" ->
            [Key : {OrderedPayload(k, o) : k \in Keys, o \in Orders},
             Value : Payloads]

(* The type an insertion names: add() gives that of a map only, and        *)
(* CreateContainer gives it in the insertions after the first request.     *)
AddType(t, creation) == IF creation \/ t \in {MAP, ORDERED_MAP} THEN t ELSE Nil

(* A creation, or an insertion into an empty container, in two requests at *)
(* most; of two items with one key the server keeps both here, and where   *)
(* an insertion puts its items is module Batch.  The context may end       *)
(* between two items.                                                      *)
Write(t, creation, d) ==
    /\ pc = "write"
    /\ written' = [type |-> t, creation |-> creation, data |-> d]
    /\ LET r == encodeItems(session, t, d, creation)
           first(k) == IF creation
                       THEN Deliver(CreateContainerRequest,
                                    createRequest(session.key, t, session.ttl,
                                                  SubSeq(r.value, 1, k)))
                       ELSE Deliver(AddToRequest,
                                    addRequest(session.key, AddType(t, creation), Nil,
                                               SubSeq(r.value, 1, k)))
           rest(k) == Deliver(AddToRequest,
                              addRequest(session.key, AddType(t, creation), Nil,
                                         SubSeq(r.value, k + 1, Len(r.value))))
       IN  \/ pc' = "refused" /\ UNCHANGED contents
           \/ /\ r.code = "OK"
              /\ pc' = "written"
              /\ \E k \in 0..Len(r.value) :
                    contents' = Unpack(first(k)) \o Unpack(rest(k))
    /\ UNCHANGED <<session, reader, attempt, todo, result, chunks, items, error,
                   foreign, progressed>>

(* The types a range reader passes; the caller gives that of the first.    *)
RangeTypes(name) ==
    CASE name = "StreamElementInRangeUnordered" -> VECTOR..ORDERED_SET
      [] name = "StreamElementInRangeOrderedMap" -> {ORDERED_MAP}
      [] name = "GetElementInRange" -> {Nil}
      [] OTHER -> {ORDERED_SET}
Reversible == {"GetElementInRange", "StreamElementInRangeOrderedSet",
               "StreamElementInRangeOrderedMap"}

Read(name, r, t) ==
    /\ pc = "written"
    /\ name \in Ranges /\ name \notin Reversible => ~r.reverse
    /\ reader' = [op |-> name,
                  position |-> IF name \in Ranges
                               THEN Position(r.start, r.end, t, r.reverse)
                               ELSE Nil]
    /\ IF name = "StreamElementInRangeUnordered" /\ t \notin {LIST, VECTOR, SET}
       THEN pc' = "returned" /\ error' = Error("InvalidArgument")
       ELSE pc' = "open" /\ UNCHANGED error
    /\ UNCHANGED <<writeVars, attempt, todo, result, chunks, items, foreign,
                   progressed>>

(* What the server selects by the request it received.                     *)
Select(s, pos, end, reverse) ==
    LET range == SubSeq(s, pos + 1,
                        IF end = Nil THEN pos + 1
                        ELSE IF end < Len(s) THEN end + 1 ELSE Len(s))
    IN  IF reverse THEN Reverse(range) ELSE range

Selected ==
    IF reader.position = Nil THEN contents
    ELSE LET m == Deliver(KeyPositionRequest,
                          positionPB(session.key, reader.position))
         IN  IF m.Pos >= Len(contents) THEN <<>>
             ELSE Select(contents, m.Pos, m.End, m.Reverse)

(* Fault (PartialTold): the batch that failed is counted.                  *)
FaultPartial(code) ==
    [code |-> code, partial |-> chunks > 0, chunks |-> chunks + 1,
     items |-> IF chunks > 0 THEN items ELSE 0]

(* partial(): an error after some batch says how many there were.          *)
Partial(code) ==
    [code |-> code, partial |-> chunks > 0, chunks |-> chunks,
     items |-> IF chunks > 0 THEN items ELSE 0]

(* The errors after which run() may turn to another node.                  *)
Movable == {"Unavailable", "FailedPrecondition"}

BadRange == reader.position # Nil /\ InvalidPosition(reader.position)

(* collect() opens the stream.  It refuses a bad range, may find the       *)
(* request too large, and may not get a stream.                            *)
Open ==
    /\ pc = "open"
    /\ attempt' = attempt + 1
    /\ result' = NoData /\ chunks' = 0 /\ items' = 0 /\ foreign' = FALSE
    /\ \/ /\ BadRange
          /\ error' = Error("InvalidArgument") /\ pc' = "returned"
          /\ UNCHANGED todo
       \/ /\ ~BadRange
          /\ error' \in {Error(code) : code \in {"ResourceExhausted"} \cup Movable}
          /\ pc' = "failed" /\ UNCHANGED todo
       \/ /\ ~BadRange
          /\ todo' = Selected /\ pc' = "recv" /\ UNCHANGED error
    /\ UNCHANGED <<writeVars, reader, progressed>>

(* Batches that are not well formed: a value is missing, a key of the      *)
(* other kind or an ordered value is among them, a payload is missing, a   *)
(* size is wrong.                                                          *)
Malformed(b) ==
    LET keyed == b.KeyUnordered # <<>> \/ b.KeyOrdered # <<>>
        Spoil(f, At(_)) == IF b[f] = <<>> THEN {}
                           ELSE {[b EXCEPT ![f][1] = At(@)]}
        NoPayload(v) == [v EXCEPT !.Value = Nil]
        NoKey(k) == [k EXCEPT !.Payload = Nil]
        Resized(v) == [v EXCEPT !.Value.Size = @ + 1]
    IN  (IF keyed
         THEN {[b EXCEPT !.ValueUnordered = Tail(@)],
               [b EXCEPT !.ValueOrdered =
                            <<b.ValueUnordered[1] ++ [Order |-> 0]>>]}
         ELSE {})
        \cup (IF b.KeyUnordered = <<>> THEN {}
              ELSE {[b EXCEPT !.KeyOrdered =
                                 <<b.KeyUnordered[1] ++ [Order |-> 0]>>,
                              !.ValueUnordered = Append(@, @[1])]})
        \cup Spoil("ValueUnordered", NoPayload) \cup Spoil("ValueUnordered", Resized)
        \cup Spoil("ValueOrdered", NoPayload) \cup Spoil("ValueOrdered", Resized)
        \cup Spoil("KeyUnordered", NoKey) \cup Spoil("KeyOrdered", NoKey)

(* Map entries may come without their keys.                                *)
Keyless(b) ==
    IF b.KeyUnordered = <<>> /\ b.KeyOrdered = <<>> THEN {}
    ELSE {[b EXCEPT !.KeyUnordered = <<>>, !.KeyOrdered = <<>>]}

Accept(d) ==
    /\ result' = Concat(result, d)
    /\ chunks' = chunks + 1 /\ items' = items + Count(d)
    /\ progressed' = progressed \cup {attempt}
    /\ UNCHANGED <<pc, error>>

(* Recv and decodeBatch(): all of the batch, or none of it and an error.   *)
Recv ==
    /\ pc = "recv" /\ chunks < MaxChunks
    /\ \E k \in 0..Len(todo) :
          LET b == Columns(SubSeq(todo, 1, k))
          IN  /\ \E sent \in {b} \cup Malformed(b) \cup Keyless(b) :
                    /\ LET r == decodeBatch(Deliver(BatchValueResponse, sent),
                                            session.config)
                       IN  \/ r.code = "OK" /\ Accept(r.value)
                           \/ /\ r.code # "OK"
                              /\ error' = Partial(r.code) /\ pc' = "returned"
                              /\ UNCHANGED <<result, chunks, items, progressed>>
                    /\ foreign' = (foreign \/ sent \in Keyless(b))
              /\ todo' = SubSeq(todo, k + 1, Len(todo))
    /\ UNCHANGED <<writeVars, reader, attempt>>

(* The stream breaks.                                                      *)
Break ==
    /\ pc = "recv"
    /\ error' \in {Partial(code) : code \in Movable} /\ pc' = "failed"
    /\ UNCHANGED <<writeVars, reader, attempt, todo, result, chunks, items, foreign,
                   progressed>>

(* Fault (NothingDropped): a helper returns its list and says nothing of   *)
(* the others.                                                             *)
FaultUnexpected == FALSE

(* The check of the Stream... helpers.                                     *)
Unexpected == reader.op \in DOMAIN Helper /\ Count(result) # Len(result[Helper[reader.op]])

(* What the reader hands to its caller, beside an error too: a helper      *)
(* hands over its own list only.                                           *)
Returned ==
    IF reader.op \in DOMAIN Helper
    THEN Only(Helper[reader.op], result[Helper[reader.op]]) ELSE result

(* The end of the stream.                                                  *)
Eof ==
    /\ pc = "recv" /\ todo = <<>>
    /\ error' = IF Unexpected THEN Error("DataLoss") ELSE NoError
    /\ pc' = "returned"
    /\ UNCHANGED <<writeVars, reader, attempt, todo, result, chunks, items, foreign,
                   progressed>>

(* Fault (NoReplayAfterBatch): hasPartial() is not asked.                  *)
FaultReplayable == error.code \in Movable /\ attempt = 1

Replayable == error.code \in Movable /\ ~error.partial /\ attempt = 1

(* run() starts collect() once more, or the error is returned.             *)
Replay ==
    /\ pc = "failed" /\ Replayable
    /\ pc' = "open" /\ error' = NoError
    /\ UNCHANGED <<writeVars, reader, attempt, todo, result, chunks, items,
                   foreign, progressed>>

GiveUp ==
    /\ pc = "failed"
    /\ pc' = "returned"
    /\ UNCHANGED <<writeVars, reader, attempt, todo, result, chunks, items, error,
                   foreign, progressed>>

Types(ops) == {ops[m] : m \in DOMAIN ops}

Next ==
    \/ \E creation \in BOOLEAN :
          \E t \in IF creation THEN Types(CreateOperations)
                   ELSE Types(AddOperations) \cup Types(CountOperations) :
             \E s \in BoundedSeq(Elements(ListOf(t)), MaxItems) :
                Write(t, creation, Only(ListOf(t), s))
    \/ \E t \in UNDEFINED..(ORDERED_SET + 1), l \in Lists :
          \E p \in Elements(l) : Write(t, TRUE, Only(l, <<p>>))
    \/ \E name \in Readers, r \in Spans : \E t \in RangeTypes(name) : Read(name, r, t)
    \/ Open \/ Recv \/ Break \/ Eof \/ Replay \/ GiveUp

Spec == Init /\ [][Next]_vars
-----------------------------------------------------------------------------
(* What a reader should see of a payload that was written.                 *)
SeenValue(p, ttl) ==
    [Payload(p.Data) EXCEPT
        !.ExpiresAtMillis = IF p.ExpiresAtMillis # Nil THEN p.ExpiresAtMillis
                                                       ELSE ttl,
        !.Lock = p.Lock]
SeenKey(k) ==
    [Payload(k.Data) EXCEPT
        !.Hint = k.Hint,
        !.ClientID = IF k.ClientID # Nil THEN k.ClientID
                     ELSE session.config.ClientID]
Weighted(p, order) == p ++ [Order |-> IF order = Nil THEN 0 ELSE order]

Seen(l, p) ==
    LET ttl == IF written.creation /\ l # "Values" THEN session.ttl ELSE Nil
    IN  CASE l = "Values" -> SeenValue(p, ttl)
          [] l = "OrderedValues" -> Weighted(SeenValue(p, ttl), p.Order)
          [] l = "Entries" ->
                [Key |-> SeenKey(p.Key), Value |-> SeenValue(p.Value, ttl)]
          [] l = "OrderedEntries" ->
                [Key |-> Weighted(SeenKey(p.Key), p.Key.Order),
                 Value |-> SeenValue(p.Value, ttl)]

(* Without the note on how the bytes arrived.                              *)
Plainly(l, p) ==
    IF l \in {"Values", "OrderedValues"} THEN [p EXCEPT !.Compression = Nil]
    ELSE [p EXCEPT !.Key.Compression = Nil, !.Value.Compression = Nil]

Expected ==
    LET l == ListOf(written.type)
        seen == [i \in DOMAIN written.data[l] |-> Seen(l, written.data[l][i])]
        p == reader.position
    IN  IF p = Nil THEN seen
        ELSE IF p.Start >= Len(seen) THEN <<>>
        ELSE Select(seen, p.Start, p.End, p.Reverse)

(* At every moment, and beside every error, collect() holds exactly the    *)
(* items of the batches it accepted: the beginning of what was written, in *)
(* order, each key with its own value, its owner, its hint and its weight, *)
(* each value with its expiration; nothing of a batch it rejected and      *)
(* nothing of an earlier attempt.                                          *)
PrefixExact ==
    pc \notin {"write", "refused", "written"} /\ ~foreign =>
        LET l == ListOf(written.type)
        IN  /\ items = Count(result)
            /\ Count(result) = Len(result[l])
            /\ items <= Len(Expected)
            /\ \A i \in 1..items : Plainly(l, result[l][i]) = Expected[i]

(* A nil error means that everything was returned: the stream was read to  *)
(* its end and no helper leaves out items of another kind.                 *)
NothingDropped ==
    pc = "returned" /\ error.code = "OK" =>
        /\ items = Len(Expected)
        /\ reader.op \in DOMAIN Helper =>
              Len(result[Helper[reader.op]]) = Len(Expected)

(* The container was read by GetContainer, GetElementInRange or the helper *)
(* of its own kind, and the server sent that kind.                         *)
OwnReader ==
    /\ reader.op \in DOMAIN Helper => Helper[reader.op] = ListOf(written.type)
    /\ ~foreign

(* A PartialError has the number of the batches and items collect() has    *)
(* decoded.  The caller who asked the reader of the container's kind holds *)
(* these items, the beginning of what was written, and no others           *)
(* (README.md:327 "the returned collection contains the decoded prefix").  *)
(* Another reader may be left with none of them and never has more than    *)
(* the error tells of.  Any other error comes with nothing, or from the    *)
(* check of a helper.                                                      *)
PartialTold ==
    pc = "returned" /\ error.code # "OK" =>
        /\ error.partial =>
              /\ error.chunks = chunks /\ chunks > 0
              /\ error.items = Count(result)
              /\ Count(Returned) <= error.items
              /\ OwnReader =>
                    LET l == ListOf(written.type)
                    IN  /\ Count(Returned) = error.items
                        /\ Len(Returned[l]) = error.items
                        /\ \A i \in 1..error.items :
                              Plainly(l, Returned[l][i]) = Expected[i]
        /\ ~error.partial => Unexpected \/ (chunks = 0 /\ Count(Returned) = 0)

(* README.md:363 "Once a batch/stream prefix has completed, the operation  *)
(* is never replayed on another node."                                     *)
NoReplayAfterBatch == \A a \in progressed : a = attempt
=============================================================================

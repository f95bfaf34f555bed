------------------------------- MODULE Batch --------------------------------
(***************************************************************************)
(* One collection mutation of Client: CreateContainer, add (behind every   *)
(* insertion method) or RemoveFromContainer (collections.go).  The items   *)
(* are split into requests of bounded size, the requests are sent in turn, *)
(* and the replies are added up.  A failure after some acknowledged chunk  *)
(* is a PartialError; smartBackend.run may repeat the whole operation on a *)
(* second node after other failures.                                       *)
(*                                                                         *)
(* The items of a call are the numbers 1, 2, ...; the container on the     *)
(* server, a sequence or a set of such values, is external.  split() is    *)
(* modelled by what module Split shows of it.  A definition named Fault... *)
(* is a deliberately wrong variant of the one below it; no specification   *)
(* uses it.                                                                *)
(***************************************************************************)
EXTENDS Spans, SequencesExt

CONSTANTS
    Operations,         \* the calls to consider, see Operation
    Stores,             \* what the container may hold before the call
    Pivot,              \* the value named by before and after
    Bytes(_, _, _),     \* Bytes(items, i, j): items i .. j-1 in a request
    MaxHint,            \* bytes of the widest key hint
    MaxRequestBytes,
    MaxUint32           \* bound: 2^32 - 1 in the code

CreateKinds == {"createSequence", "createSet"}
BooleanKinds == {"head", "tail", "before", "after", "bool", "orderedBool"}
Kinds == CreateKinds \cup BooleanKinds \cup {"position", "generic", "remove"}
(* Where the order of the container matters to the operation.              *)
SequenceKinds == {"createSequence", "head", "tail", "position", "before", "after"}

(* items: the bytes of each item; header, ttl, hint: those of the key and  *)
(* the fixed fields, of the creation TTL, of the caller's key hint.        *)
Operation == [kind : Kinds, countOnly : BOOLEAN, items : Seq(Nat), pos : Nat,
              header : Nat, ttl : Nat, hint : 0..MaxHint]

ASSUME BatchAssumption ==
    /\ MaxHint \in Nat /\ MaxRequestBytes \in Nat /\ MaxUint32 \in Nat
    /\ Pivot \in Nat
    /\ Operations \subseteq Operation /\ Stores \subseteq Seq(Nat)
    /\ \A c \in Operations :
          /\ c.pos <= MaxUint32 /\ Len(c.items) < Pivot
          /\ \A i, j \in 0..Len(c.items) : Bytes(c.items, i, j) \in Nat

VARIABLES
    call,               \* the operation
    pc,                 \* "prepare", "send" or "returned"
    attempt,            \* how often run() has called the operation
    parts, next,        \* the spans and the next one to send
    hint,               \* bytes of the hint in the key of the next request
    done, chunks,       \* progress, as the code counts it
    count, ok,          \* addOutcome, or the total of RemoveFromContainer
    result,             \* the error returned
    initial, store,     \* server: the container before and now
    log,                \* history: requests that reached the server
    lost                \* history: a request that failed was executed

vars == <<call, pc, attempt, parts, next, hint, done, chunks, count, ok, result,
          initial, store, log, lost>>
serverVars == <<initial, store, log, lost>>

n == Len(call.items)
Creating == call.kind \in CreateKinds
Ordered == call.kind \in SequenceKinds
Values(i, j) == [k \in 1..(j - i) |-> i + k]
ItemBytes(i, j) == Bytes(call.items, i, j)
-----------------------------------------------------------------------------
(* Requests.                                                               *)

CreateSize(h, i, j) == call.header + call.ttl + h + ItemBytes(i, j)
AddSize(h, i, j) == call.header + h + ItemBytes(i, j)

(* Fault (RefusedUntouched): the key is measured with its present hint.    *)
FaultReserve == call.hint

(* reserve.KeyHint: a creation is measured with the widest hint.           *)
Reserve == MaxHint

(* What split() measures.                                                  *)
SplitSize(i, j) ==
    IF Creating THEN CreateSize(Reserve, i, j) ELSE AddSize(call.hint, i, j)

(* The spans whose ends are E.                                             *)
SpansEndingAt(E) ==
    LET ends == SetToSortSeq(E, <)
    IN  [k \in DOMAIN ends |->
            [start |-> IF k = 1 THEN 0 ELSE ends[k - 1], end |-> ends[k]]]

(* The results of split().                                                 *)
Splits ==
    {ps \in {SpansEndingAt(E) : E \in SUBSET (1..n)} :
        /\ ps \in Seq(Span) /\ Cover(ps, n)
        /\ Fit(ps, SplitSize, MaxRequestBytes)
        /\ Greedy(ps, SplitSize, MaxRequestBytes, n)}

(* A creation sends one request even without items.                        *)
OrEmpty(ps) == IF Creating /\ ps = <<>> THEN <<[start |-> 0, end |-> 0]>> ELSE ps

(* Later chunks of a creation are additions, measured before it starts.    *)
ContinuationTooLarge(ps) ==
    /\ Creating
    /\ \E k \in 2..Len(ps) :
          AddSize(Reserve, ps[k].start, ps[k].end) > MaxRequestBytes

(* Fault (ChunksAsOneRequest): chunks are always sent forwards.            *)
FaultInOrder(ps) == ps

(* Insertion after a pivot sends the last chunk first.                     *)
InOrder(ps) == IF call.kind = "after" THEN Reverse(ps) ELSE ps

(* pos + uint32(i).  The kinds other than position send no position or one *)
(* that does not place the items.                                          *)
Position(i) == (call.pos + i) % (MaxUint32 + 1)
PositionOverflows == call.kind = "position" /\ call.pos + n > MaxUint32
-----------------------------------------------------------------------------
(* The server.                                                             *)

Insert(s, at, chunk) == SubSeq(s, 1, at) \o chunk \o SubSeq(s, at + 1, Len(s))
PivotAt(s) == SelectInSeq(s, LAMBDA x : x = Pivot)

(* The container after a request that carries chunk.  Head insertion goes  *)
(* item by item; a pivot that is not there means that nothing happens.     *)
Effect(kind, s, pos, chunk) ==
    LET at == PivotAt(s)
    IN  CASE kind = "head" -> Reverse(chunk) \o s
          [] kind \in {"tail", "createSequence"} -> s \o chunk
          [] kind = "position" ->
                Insert(s, IF pos < Len(s) THEN pos ELSE Len(s), chunk)
          [] kind = "before" -> IF at = 0 THEN s ELSE Insert(s, at - 1, chunk)
          [] kind = "after" -> IF at = 0 THEN s ELSE Insert(s, at, chunk)
          [] kind = "remove" -> s \ Range(chunk)
          [] OTHER -> s \cup Range(chunk)

Apply(s, pos, chunk) == Effect(call.kind, s, pos, chunk)

Contents(s) == IF Ordered THEN s ELSE Range(s)
Amount(s) == IF Ordered THEN Len(s) ELSE Cardinality(s)
Distance(s, t) == IF Amount(s) < Amount(t) THEN Amount(t) - Amount(s)
                                           ELSE Amount(s) - Amount(t)

Part == parts[next]
Applied == Apply(store, Position(Part.start), Values(Part.start, Part.end))
-----------------------------------------------------------------------------
Init ==
    /\ call \in Operations
    /\ pc = "prepare" /\ attempt = 1
    /\ parts = <<>> /\ next = 1 /\ hint = call.hint
    /\ done = 0 /\ chunks = 0 /\ count = 0 /\ ok = FALSE
    /\ result = [code |-> "OK", partial |-> FALSE, chunks |-> 0, items |-> 0]
    /\ initial \in {Contents(s) : s \in IF Creating THEN {<<>>} ELSE Stores}
    /\ store = initial
    /\ log = <<>> /\ lost = FALSE

Plain(code) == [code |-> code, partial |-> FALSE, chunks |-> 0, items |-> 0]

(* Fault (AckedNotResent): progress is not recorded in the error.          *)
FaultPartial(ch, items, code) == Plain(code)

(* partial(): progress makes a PartialError of an error.                   *)
Partial(ch, items, code) ==
    IF ch = 0 THEN Plain(code)
    ELSE [code |-> code, partial |-> TRUE, chunks |-> ch, items |-> items]

Return(e) == pc' = "returned" /\ result' = e

(* An item is of the wrong sort or does not encode, or ctx has ended.      *)
EncodeFails ==
    /\ pc = "prepare"
    /\ Return(Plain("Other"))
    /\ UNCHANGED <<call, attempt, parts, next, hint, done, chunks, count, ok>>
    /\ UNCHANGED serverVars

(* The checks before the first request: the position, split() and, for a   *)
(* creation, the size of the continuations.                                *)
PrepareFails ==
    /\ pc = "prepare"
    /\ \/ PositionOverflows /\ Return(Plain("OutOfRange"))
       \/ /\ ~PositionOverflows
          /\ \/ TooLarge(SplitSize, MaxRequestBytes, n)
             \/ \E ps \in Splits : ContinuationTooLarge(OrEmpty(ps))
          /\ Return(Plain("ResourceExhausted"))
    /\ UNCHANGED <<call, attempt, parts, next, hint, done, chunks, count, ok>>
    /\ UNCHANGED serverVars

Prepare ==
    /\ pc = "prepare"
    /\ ~PositionOverflows /\ ~TooLarge(SplitSize, MaxRequestBytes, n)
    /\ \E ps \in Splits : /\ ~ContinuationTooLarge(OrEmpty(ps))
                          /\ parts' = InOrder(OrEmpty(ps))
    /\ ok' = TRUE
    /\ pc' = "send"
    /\ UNCHANGED <<call, attempt, next, hint, done, chunks, count, result>>
    /\ UNCHANGED serverVars

Complete ==
    /\ pc = "send" /\ next > Len(parts)
    /\ Return(Plain("OK"))
    /\ UNCHANGED <<call, attempt, parts, next, hint, done, chunks, count, ok>>
    /\ UNCHANGED serverVars

Sending == pc = "send" /\ next <= Len(parts)
RequestSize ==
    IF Creating /\ next = 1 THEN CreateSize(hint, Part.start, Part.end)
                            ELSE AddSize(hint, Part.start, Part.end)

(* unary() gives up before sending: ctx has ended or the request is over   *)
(* the limit.                                                              *)
NotSent ==
    /\ Sending
    /\ \E code \in {"Canceled"} \cup (IF RequestSize > MaxRequestBytes
                                      THEN {"ResourceExhausted"} ELSE {}) :
          Return(Partial(chunks, done, code))
    /\ UNCHANGED <<call, attempt, parts, next, hint, done, chunks, count, ok>>
    /\ UNCHANGED serverVars

Log(reply) ==
    /\ RequestSize <= MaxRequestBytes
    /\ log' = Append(log, [start |-> Part.start, end |-> Part.end,
                           reply |-> reply])

(* The request fails; the server may have executed it all the same.        *)
RpcFails ==
    /\ Sending
    /\ Log("failed")
    /\ \/ UNCHANGED <<store, lost>>
       \/ store' = Applied /\ lost' = TRUE
    /\ \E code \in {"Unavailable", "FailedPrecondition", "Other"} :
          Return(Partial(chunks, done, code))
    /\ UNCHANGED <<call, attempt, parts, next, hint, done, chunks, count, ok>>
    /\ UNCHANGED initial

Width == Part.end - Part.start

Boolean == call.kind \in BooleanKinds /\ ~call.countOnly
(* A zero reply stops the operation.                                       *)
ZeroStops == Boolean \/ (call.kind = "createSequence" /\ next > 1)

(* Fault (CountIsTrue): the sum is not checked.                            *)
FaultOverflows(c) == FALSE

Overflows(c) == ~Creating /\ count + c > MaxUint32

(* Fault (PartialExact): a chunk is counted before its reply is judged.    *)
FaultStopAtZero ==
    /\ ok' = FALSE
    /\ Return(IF chunks = 0 THEN Plain("OK")
                            ELSE Partial(chunks + 1, done + Width, "Aborted"))
    /\ UNCHANGED <<next, done, chunks, hint>>

StopAtZero ==
    /\ ok' = FALSE
    /\ Return(IF chunks = 0 THEN Plain("OK") ELSE Partial(chunks, done, "Aborted"))
    /\ UNCHANGED <<next, done, chunks, hint>>

(* A creation takes the hint of the reply into the later requests.         *)
NextChunk ==
    /\ next' = next + 1
    /\ done' = done + Width /\ chunks' = chunks + 1
    /\ IF Creating /\ next = 1 THEN hint' \in {hint} \cup 0..MaxHint
                               ELSE UNCHANGED hint
    /\ UNCHANGED <<pc, ok, result>>

(* What the code does with the count c of a reply.                         *)
Acknowledge(c) ==
    IF Overflows(c)
    THEN /\ Return(Partial(chunks + 1, done + Width, "OutOfRange"))
         /\ UNCHANGED <<next, done, chunks, count, ok, hint>>
    ELSE /\ count' = IF Creating THEN count ELSE (count + c) % (MaxUint32 + 1)
         /\ IF c = 0 /\ ZeroStops THEN StopAtZero ELSE NextChunk

RpcOk ==
    /\ Sending
    /\ store' = Applied
    /\ LET c == Distance(store, store')
       IN  /\ Log(IF c = 0 /\ ZeroStops THEN "rejected" ELSE "ok")
           /\ Acknowledge(c)
    /\ UNCHANGED <<call, attempt, parts, initial, lost>>

(* The server turns a chunk down for a reason of its own.                  *)
RpcRejected ==
    /\ Sending /\ ZeroStops
    /\ Log("rejected")
    /\ Acknowledge(0)
    /\ UNCHANGED <<call, attempt, parts, initial, store, lost>>

(* run() calls the operation again, on another node of the same data.      *)
Replay ==
    /\ pc = "returned" /\ attempt = 1
    /\ result.code \in {"Unavailable", "FailedPrecondition"} /\ ~result.partial
    /\ attempt' = 2
    /\ pc' = "prepare"
    /\ parts' = <<>> /\ next' = 1 /\ hint' = call.hint
    /\ done' = 0 /\ chunks' = 0 /\ count' = 0 /\ ok' = FALSE
    /\ UNCHANGED <<call, result, serverVars>>

Next ==
    \/ EncodeFails \/ PrepareFails \/ Prepare \/ Complete \/ NotSent
    \/ RpcFails \/ RpcOk \/ RpcRejected \/ Replay

Spec == Init /\ [][Next]_vars
-----------------------------------------------------------------------------
Ended == pc = "returned"
Replied(r) == {i \in DOMAIN log : log[i].reply = r}
ItemsIn(I) == UNION {(log[i].start + 1)..log[i].end : i \in I}

(* The first m items in the order of sending: insertion after a pivot      *)
(* begins at the end of the input.                                         *)
FirstItems(m) == IF call.kind = "after" THEN Values(n - m, n) ELSE Values(0, m)

(* The items an operation has put through: all of them, those its          *)
(* PartialError reports, or none.                                          *)
Completed == FirstItems(IF result.partial THEN result.items
                        ELSE IF result.code = "OK" /\ ok THEN n ELSE 0)

(* The container is what one single request with the completed items would *)
(* have made of it, whatever the chunk boundaries: the order of the list   *)
(* is kept at the head, the tail, a position and a pivot, and nothing is   *)
(* missing or doubled (add, CreateContainer, RemoveFromContainer).  A      *)
(* failed request that was executed is the exception the README names.     *)
ChunksAsOneRequest ==
    Ended /\ ~lost => store = Apply(initial, call.pos, Completed)

(* A PartialError reports exactly the chunks the server has accepted, and  *)
(* their items.                                                            *)
PartialExact ==
    Ended /\ result.partial =>
        /\ result.chunks = Cardinality(Replied("ok"))
        /\ result.items = Cardinality(ItemsIn(Replied("ok")))

(* No item of an acknowledged chunk is ever sent again, by a later chunk   *)
(* or by a second attempt (partial against run's hasPartial).              *)
AckedNotResent ==
    \A i, j \in DOMAIN log :
        i < j /\ log[i].reply = "ok" /\ log[i].start < log[i].end =>
            log[j].end <= log[i].start \/ log[i].end <= log[j].start

(* An operation refused for its size has not touched the server: what is   *)
(* measured beforehand is never less than what is sent, whatever hint the  *)
(* server returns on creation.                                             *)
RefusedUntouched ==
    Ended /\ result.code = "ResourceExhausted" =>
        /\ Replied("ok") = {}
        /\ attempt = 1 => log = <<>>

(* The count returned is the true change of the container, not its value   *)
(* modulo 2^32 (add, RemoveFromContainer).                                 *)
CountIsTrue ==
    Ended /\ ~lost /\ ~Creating /\ result.code # "OutOfRange" =>
        count = Distance(initial, store)

(* README.md:327 "PartialError.CompletedChunks reports acknowledged RPCs"  *)
(* and "A rejected boolean chunk can count as acknowledged without adding  *)
(* completed items": the reported chunks are the requests with a reply.    *)
RejectedCounted ==
    Ended /\ result.partial =>
        result.chunks = Cardinality(Replied("ok")) + Cardinality(Replied("rejected"))
=============================================================================

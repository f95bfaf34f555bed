# A verification of the HurriCache Go client

TLA+ models of the client library `hurricache-go-client`, the TLC runs that check
them on small instances, and TLAPS proofs of the results that matter most. All
source paths are relative to the repository root.

## 1. The system

| Part | Source | State | Operations | What is hard |
|---|---|---|---|---|
| Smart backend | `smart.go` | coordinator connections, registered endpoints with `refs`/`active`/`closed`, current topology snapshot, gate and wake channels, `closed`/`life` | `Refresh`, background `loop`, `discover`, `publish`, `retireLocked`, pinning in `run`, `close` | many goroutines, lookups used in a later lock section, `Close` racing with dialling, connections owned or borrowed |
| Routing of a call | `smart.go` `run` | captured snapshot, round counter | choose shard, mode, node; one reroute or fallback | topology changes under the call, at most one retry, none after progress |
| Request splitting | `collections.go` `split` | search range, spans | measure, binary search | boundaries |
| Chunked mutations | `collections.go` `CreateContainer`, `add`, `RemoveFromContainer` | progress, counts | one request per span | partial failure, order across chunks, sizes that change under way, counters |
| Collection contents | `collections.go` `encodeItems`, `addRequest`, `collect`, `decodeBatch` | decoded prefix, chunk and item counts | encode items, one stream of batches | keys and values travel in separate fields, failure after a prefix, a second start |
| Client | `client.go` | configuration, `life`, `once`, the connection; per call a context, a timer, an `AfterFunc` | constructors, `perform`, `unary`, `Close` | cancellation and deadlines racing with `Close`, silent servers |
| Codec | `codec.go` | none | `encode`, `decode`, conversions of messages | thresholds and limits, 32-bit sizes, damaged input, presence of zero values |
| Scalar, lock, TTL, atomic operations | `operations.go` | none | one request each | time arithmetic, what a second attempt repeats |
| Convenience methods, interface, types | `convenience.go`, `interface.go`, `types.go` | none | wrappers | results of another kind than the method's |
| Messages and stubs | `proto/` | none | the fields of each message, the RPC of each stub | proto3 drops plain zeros |
| Tools | `tools/` | - | - | - |

How they interact: every public method calls `perform`, which builds a context and
hands a closure to `backend.run`. The direct backend calls it once. The smart
backend pins the current topology snapshot, calls the closure on one node and
perhaps once more on another. The closure (for collections: encode, `split`, one
`unary` per span) returns an error that may be a `PartialError`, by which `run`
knows that it must not be repeated. Refreshes, started by the ticker, by callers of
`Refresh` and by calls that found a node unavailable, replace the snapshot; one at a
time, by the gate. Whoever drops the last reference to an endpoint that has left the
topology closes it. `Close` cancels everything, waits for the refreshes, and
releases what is left.

What makes each part correct:

* smart backend: nothing is closed while in use, nothing is closed twice, nothing
  leaks, only complete and valid topologies are published, refresh requests are not
  lost, `Close` ends;
* routing: writes go to the master, at most two attempts, on nodes of the captured
  snapshot, the second one justified by the first one's answer, never after
  acknowledged progress;
* splitting: a partition of the input into requests that fit, as few as a greedy
  packer makes, and refusal only before anything is sent;
* chunked mutations: the container is as after one request, counts are true, errors
  report what was acknowledged, acknowledged items are not sent again;
* collection contents: what is read is a prefix of what was written, item by item
  with all attributes; a nil error means all of it; a partial error tells exactly what
  is returned with it;
* client: a call that begins after `Close` sends nothing, the connection is closed once
  and before any `Close` returns, calls end by their timeout or by `Close`, and leave nothing behind;
* codec: payloads are read back exactly, damage is an error, allocation is bounded;
* operations: options, zeros included, reach the node, a second attempt
  does not prolong what the first created, absence is told from emptiness;
* time arithmetic: no 64-bit wrap is reported as a duration, TTLs are right to the
  millisecond, locks to the second.

## 2. Modules

| Module | Models | Proof / instance |
|---|---|---|
| `Topology` | coordinator answers and their validation in `discover` and `publish` | - |
| `SmartBackend` | the smart backend, one action per lock section | `SmartBackendInv` (inductive invariant), `SmartBackendProofs`, `MCSmartBackend` |
| `SmartRun` | the body of `run` on a captured snapshot | `SmartRunProofs`, `MCSmartRun` |
| `Spans` | what `split` promises | - |
| `Split` | `split`, one step per turn of a loop | `AlgorithmProofs`, `MCSplit` |
| `Batch` | a chunked mutation against a server, with replay by `run` | `BatchProofs`, `MCBatch` |
| `Leases` | what a pool of shared connections promises (abstract) | - |
| `SmartBackendLeases` | the mapping by which `SmartBackend` implements `Leases` | `SmartBackendProofs`, `MCSmartBackend` |
| `ClientCall` | a direct client: construction, `perform`, `unary`, `Close` | `ClientCallProofs`, `MCClientCall` |
| `Encoding` | `encode` and `decode` as operators | - |
| `Codec` | a payload written by one client, perhaps damaged, read by another | `AlgorithmProofs`, `MCCodec` |
| `Timing` | expirations of `perform`, `SetTTL`, `GetTTL`, `LockObject` | `AlgorithmProofs`, `MCTiming` |
| `Wire` | the messages and stubs of `cache.pb.go`, `cache_grpc.pb.go`, and what proto3 does to a message | - |
| `Messages` | the conversions of `codec.go` between Go values and messages | `MessagesProofs` (lemmas) |
| `Operations` | every operation that makes one RPC | `OperationsProofs`, `MCOperations` |
| `Collect` | the contents of a collection, encoded, sent, streamed back, decoded | `CollectProofs`, `MCCollect` |

`SmartBackend` and `SmartRun` share `Topology` and divide `run` between them: the
first keeps its references (`PinSnapshot`, `EndRun`), the second its decisions.
`Batch` uses `Spans` as the specification of `split`, which `Split` is shown to meet,
and abstracts `run` to `Replay`, whose condition `SmartRun` checks
(`NoReplayAfterProgress`). `Encoding` serves both `Codec`, which asks whether bytes
survive, and `Messages`, on which `Operations` and `Collect` build their requests and
results; both send them through `Wire!Deliver`. `Collect` looks at what becomes of
each item, `Batch` at how the items are cut into requests. `Timing` keeps units and
widths, `Operations` the moments at which a call reads the clock.

Definitions whose name begins with `Fault` are wrong variants of the definition they
precede, each a plausible programming error. No specification uses them. Putting one
in the place of the right definition must make TLC report the property named in its
comment; `PROJECT.json` lists the pairs under `mutants`. This shows that each
property depends on the code it speaks of.

### State and actions of SmartBackend

An endpoint is identified with its connection, a number in the order of dialling.
`nodes`, `snapshot` and `coords` are the three maps of `smartBackend`; `refs`,
`active`, `epClosed` the fields of `endpoint`; `held[p]` the endpoints goroutine `p`
has counted in `refs` (the slice `pinned` in `publish`, the whole snapshot in `run`);
`start`, `tries`, `todo`, `seen`, `snap` the local variables of `refresh` and
`publish`. `phase` is the progress of `close`. `closes` counts the calls of
`Connection.Close` and `unserved` remembers a refresh request; both are history.
Work between two lock sections on data that only the goroutine can reach is part of
a neighbouring step. The list of peers is visited in any order. A context may end at
any point where the code looks at it; the loop's context ends exactly with `life`.
`retireLocked` is part of every step that calls it.

### State and actions of SmartRun

`Select` covers shard, mode and endpoints; `FirstReturns`, `FirstMoved`,
`FirstUnavailable`, `SecondReturns` cover what follows an attempt. An attempt may
return any status, with or without a `PartialError`, and any route trailer. The round
counter has `CounterBits` bits so that it wraps within the run.

### State and actions of Split and Batch

`Split` takes the size of a request as an arbitrary function of its span. `Batch`
computes sizes from a header, an optional TTL, a hint and an arbitrary function
`Bytes` of the items; items are numbered and the container is a sequence, or a set
where order does not matter to the operation. The server is external (`Effect`): head
insertion reverses (README.md:197), pivot insertion goes to the first occurrence of
the pivot, sets take the union. A request may fail having been executed or not, and a
boolean request may be rejected. The pivot is not among the inserted values: with
such input a chunk inserted before the pivot changes which occurrence is the first.

### Leases and its mapping

`Leases` knows stages of connections, who has leased which, and whether the pool is
shut. `SmartBackendLeases` maps `held` to leases, `opened`, `owned` and `closes` to
stages, and the `released` phase to `shut`. Reference counts, `active` and the maps
have no counterpart: they are how `SmartBackend` finds out what is free.

### State and actions of ClientCall

`Begin`, `Derive`, `Admit`, `Prepare`, `Run`, `Unary` are the parts of a call between
which another goroutine can make a difference; `Abort` and `Reply` end an RPC. `life`
is the client's context, `parent` the caller's, `canceled` the call's own, `timer` its
deadline. `watcher` is the `context.AfterFunc` of the call: cancelling `life` starts a
goroutine for it and does not wait. `Close` runs under `sync.Once`: the first goroutine
cancels and releases, the others wait. `late` is history.

### State and actions of Codec and Timing

A byte string is its length and what it is a form of; a compressed block has any length
the format may give it. A gzip stream has a checksum; a raw LZ4 block has none, so a
damaged one may decode to other bytes of the announced length. Sizes have `SizeBits`
bits. `Damage` changes a size, a raw size or the block; `Annotate` marks plain bytes as
not compressed. The result of `decode` records beside the data or the error how many
bytes of decoded data it had allocated (LZ4) or read (gzip) by then, on the paths that
fail too; the spare capacity of `io.ReadAll`'s buffer is left out. A damaged gzip stream
may break off anywhere up to the limit. In `Timing` the clock counts nanoseconds; `NsPerMs`, `MsPerSecond`,
`MaxInt64` and `MaxUint32` are parameters, and conversions wrap at their widths. `Quo`
is Go's division, which rounds toward zero, so that a lock asked to end in the last
second before 1970 gets the expiration 0 and passes the check for negative ones.

### State and actions of Operations and Collect

`Wire` gives each message as a schema of fields with their presence, and `Deliver` what
the receiver sees: a plain field of value zero and an absent one are the same, an
optional one keeps the difference. In `Operations`, a table gives for each method its
RPC, its policies, its arguments and its result. `Perform` computes the session once,
`Attempt` builds and sends the request, perhaps a second time and later, and `Reply`
answers anything the response type allows. `log` holds the requests as received.

In `Collect`, `Write` encodes the items of a container and sends them in at most two
requests; the server puts keys and values together again by position. `Open`, `Recv`,
`Break`, `Eof` are the life of a stream; `Recv` may bring a batch that is not well
formed or entries without their keys. `Replay` is the second attempt of `run`.
`Returned` is what the caller is handed, one of the four lists if the reader is a
Stream helper, whatever the error.

## 3. Runs

| Run | Instance | Shows |
|---|---|---|
| `backend_safety` | 2 coordinators (one borrowed), 2 nodes (one borrowed), 2 calls, 1 caller of `Refresh`, the loop, 3 connections, 11 answers of which 7 are refused | `IInv` (with `TypeOK`, `RetiredPromptly`, `ResolutionFresh`), `HeldOpen`, `SnapshotLive`, `ClosedOnce`, `NoLeak`, `PublishedWhole`, `ImplementsLeases` |
| `backend_liveness` | 1 coordinator, 1 call, 1 caller, 3 connections, topologies that exclude each other | `RefreshServed`, `CloseCompletes`, `RetiredIsClosed` |
| `run_routing` | 3 topologies (roles swapped per shard, missing routes, one node in both roles), all modes, 3 hints, 3-bit counter | `AttemptsBounded`, `NoReplayAfterProgress`, `AttemptsJustified` |
| `unavailable_refresh` | as `run_routing` | `UnavailableRefreshes` is violated, see below |
| `split` | up to 5 items of 3 sizes, 3 header sizes, exact fits included | `SpansCover`, `SpansPacked`, `RefusedRightly`, `Terminates` |
| `batch` | 11 kinds of mutation, up to 4 items, 3 stores, counts and positions limited to 3 | `ChunksAsOneRequest`, `PartialExact`, `AckedNotResent`, `RefusedUntouched`, `CountIsTrue` |
| `rejected_chunk` | as `batch` | `RejectedCounted` is violated, see below |
| `codec` | payloads of 0 to 9 bytes, 3-bit sizes, limits below and above what fits, 2 thresholds, both codecs on either side | `ReadBackExact`, `DamageDetected`, `AllocationBounded` |
| `timing` | 3 ns per ms, 2 ms per s, 64-bit maximum 40, times before and after 1970 | `RemainingTrue`, `TTLReadBack`, `LockLasts` |
| `client_call` | 2 calls with default, zero or refused timeout, 2 closers, owned and borrowed connection, a valid and a refused configuration, a server that may be silent | `LateSendsNothing`, `CloseReleases`, `NoWatcherLeft`, `CallsEnd`, `CloseEndsCalls` |
| `operations` | every method, keys and values from empty to too long, absent and zero options, valid and invalid arguments, 2 attempts at different times | `OptionsKept`, `ReplayCarriesSame`, `AbsentIsNotEmpty` |
| `collect` | every container type and reader, up to 2 items with and without weights, expirations, owners and hints, 2 batches, 3 ranges, 2 attempts | `PrefixExact`, `NothingDropped`, `PartialTold`, `NoReplayAfterBatch` |

Bounds. `MaxConns` limits the connections the factory hands out. Three allow a
coordinator connection and two topologies that follow each other, so that an endpoint
is reused, retired under a call, or discarded, or else two coordinator connections and
a node. Once the bound is reached the factory only fails, which it may always do. That
a closed target is dialled again needs a fourth and is covered by the proofs, which
hold for any number. Two calls are needed for the last reference to be dropped by the
other call, two refreshers for the gate to matter, two coordinators for the rotation.
The calls of `backend_safety` are interchangeable and it checks no liveness, so it uses
symmetry. In `batch`, `MaxUint32 = 3` brings both overflows within reach of four items.
In `codec`, three bits let sizes wrap with the largest limit; in `timing`, the small
maximum puts the bounds of `GetTTL` among the stored values. Two items and two batches
are what it takes to mispair keys and values and to fail after a prefix. `split`,
`batch`, `codec`, `client_call`, `operations` and `collect` follow work that ends, so
those runs do not check for deadlock; the others do.

Fairness (`SmartBackend!Fairness`). A refresh in progress goes on: each attempt is
bounded by `DiscoveryTimeout`, which `NewSmartClient` makes positive. A goroutine
waiting for the gate gets it eventually if it is freed again and again (Go queues
the senders of a channel), and stops waiting when `life` ends. A call ends: its
context has a deadline unless its caller set `Options.Timeout` to zero, in which
case `RetiredIsClosed` rests on the caller's own context. The loop's `select` picks
among ready cases at random, so it does not ignore `life` forever. `Close`, once
called, proceeds. Nothing is assumed of callers, of the ticker, or of whether
`Close` is called. In `Split`, a goroutine in a loop without blocking goes on.
In `ClientCall`, goroutines that can run do, also those of `AfterFunc`, and a timer
that is set fires (`FairSpec`); nothing is assumed of the server, which may never
answer, or of callers, which need not cancel or call `Close`. A closer that has entered
`Close` proceeds.

Disagreements with the documentation:

* `unavailable_refresh`: README.md:361 says "Unavailable failures trigger refresh."
  A call that is redirected (`smart.go:448-449`) and finds the second node
  unavailable returns without `requestRefresh`.
* `rejected_chunk`: README.md:327 says that `CompletedChunks` "reports acknowledged
  RPCs" and that a "rejected boolean chunk can count as acknowledged". The code
  reports the chunks before the rejected one only (`collections.go:199-201`,
  `317-321`); `gzip_counts_test.go` expects what the code does. `PartialExact` states
  what the code does.

Two sentences of the documentation that the code does not keep have no run of their own.
A property of a passing run says exactly how far they hold:

* `LockLasts` in `timing`: README.md:158 says that the lock duration "is truncated to whole
  seconds and added to the current Unix time", FINDINGS.md:112 that the expiration is
  "obtained by adding the whole-second duration to current Unix time".
  `operations.go:401` adds milliseconds and truncates the sum: 999 ms past a second, a
  lock of 1 ms gets the next second. `LockLasts` states the difference from the
  documented value (`DocumentedExpiry`): one second when the parts below a second add up
  to one or more, otherwise none.
* `PartialTold` in `collect`: README.md:327 says of a stream's `PartialError` that "the returned
  collection contains the decoded prefix". A Stream helper returns one list, and looks
  at the others only when there is no error (`convenience.go:16-20`, and so in the other
  helpers): called for a container of another kind whose stream breaks after a batch it
  returns an empty list beside a `PartialError` that counts items, `StreamQueue` on a
  map for example. `PartialTold` shows that the sentence is true of `GetContainer`,
  `GetElementInRange` and the helper of the container's own kind (`OwnReader`), and that
  no reader returns more than the error tells of.

Two places where a sentence of the documentation is looser than the code; the
properties state what the code does:

* client.go:188 says that `Close` "cancels pending calls before releasing owned
  connections". Cancelling `life` starts the `AfterFunc` goroutines and does not wait
  for them, so a call in flight may meet its connection closed before its own context
  has ended. Either way it ends (`CloseEndsCalls`).
* README.md:319 says compressed payloads "are decoded transparently". `encode` records
  the raw size in 32 bits (`codec.go:62`) while `MaxDecodedBytes` is an `int`; with a
  limit of 4 GiB or more a payload of that length is stored and then refused by
  `decode`. `ReadBackExact` therefore asks that sizes fit; `DamageDetected` shows that
  the refusal is all that happens.

## 4. Proofs

`SmartBackendProofs` proves, for any finite sets of calls, callers and nodes, any
list of coordinators, any set of answers and any `MaxConns`:

* `Invariance` (`IInv`), `TypeCorrect`, `PinnedStaysOpen` (`HeldOpen`),
  `NoDoubleClose` (`ClosedOnce`), `NothingLeaks` (`NoLeak`), `CurrentIsLive` (`SnapshotLive`), `PromptAndFresh`
  (`RetiredPromptly` and `ResolutionFresh`);
* `WholeAnswersOnly`, the action property `PublishedWhole`.

The assumptions are those of `BackendAssumption` and `NoTargetAssumption`. None of
the properties is inductive. `IInv` (module `SmartBackendInv`) adds what they rest
on: only the holder of the gate is past it (`Gated`), so that what a publication
looked up cannot change but by retirement; `refs` is exactly the number of
goroutines that hold an endpoint (`RefsExact`), so that a zero count means nobody
does; what is held is registered (`HeldRegistered`); a connection has one place
(`Distinct`); what a publication made is its own until installed or closed
(`CreatedPrivate`, `CreatedClosed`); registered connections are open until `Close`
releases them (`RegisteredOpen`), which happens only when no refresh is under way
(`Released`). There is one lemma per action; `PinRefs` and `UnpinRefs` do the
cardinality argument, `RetireEffect` and `UnpinEffect` what `retireLocked` does to
the maps. `PublishedWhole` needs one more part (`Built`): the peers a publication has
visited and those it has still to visit are together those of one accepted answer,
and the snapshot under construction has an endpoint for each one visited. TLC checks
`IInv` in `backend_safety`.

It also proves `Refinement` (`ImplementsLeases`): under `IInv` every
step of `SmartBackend` is a step of the pool or leaves it alone. Dialling is `Make`,
pinning is `Lease` (what is pinned is registered, hence open), installing and cleaning
up are `Free`, unpinning is `Return` (what it closes has count zero, hence no holder),
and the release in `Close` is `Shut`. `PinnedIsUsable` carries the pool's own promise
back to `SmartBackend`.

`SmartRunProofs` proves `BoundedAttempts` (`AttemptsBounded`), `ProgressNotReplayed`
(`NoReplayAfterProgress`) and `JustifiedAttempts` (`AttemptsJustified`) for any calls
and any topologies that `publish` installs, replaced at any time. The invariant follows
one call: before its first attempt (`Fresh`), after `Select` (`Chosen`), between the
attempts (`GoesOn`), at its end (`Over`). It does not depend on what
`SelectShard` computes.

`BatchProofs` proves `AsOneRequest` (`ChunksAsOneRequest`), `PartialsExact`
(`PartialExact`), `NoResend` (`AckedNotResent`), `RefusalsUntouched`
(`RefusedUntouched`) and `CountsTrue` (`CountIsTrue`) for every kind of mutation, every
input, content, size function and limit. The five are proved together, because a
second attempt begins in the state a first one leaves. Between two requests
(`Underway`) the acknowledged items are the first `done` in the order of sending, the
spans left follow on, each fits with whatever hint it will carry, and the container is
what one request with the first `done` items would have made. The last point is kept
by `Compose`: for each kind, a request with the first d items followed by one with the
next span has the effect of one request with all of them. It rests on `InsertBehind`,
`InsertAhead`, `ReverseConcat` and `PivotMoves` for sequences and on `ApplyChanges`
for sets. Where an argument goes through the spans or the items one by one, it takes
the least exception (`LeastNat`).

`AlgorithmProofs` holds the proofs of `Split`, `Codec` and `Timing`, whose
specifications are `SplitSpec`, `Spec` and `TimingSpec`. For every input, size function
and limit it proves `SplitCovers`, `SplitPacks` and `SplitRefuses`. The invariant says what the first loop has
established (`Checked`) and what the binary search keeps: `lo` is an end that fits,
and `hi` is the last index or is followed by an end that does not fit (`Searching`).
It does not need sizes to grow with the number of items.

It proves `ReadBackExactTheorem`, `DamageDetectedTheorem` and
`AllocationBoundedTheorem` of `Codec` for all lengths, limits, thresholds and widths. Its invariant
says what a stored form can be: plain bytes or a block of the writer's codec, with the
true sizes modulo the width unless damaged. `AllocationBoundedTheorem` holds of failing
decodes too; an over-long gzip stream is followed for one byte beyond its raw size.

It proves `RemainingTrueTheorem`, `TTLReadBackTheorem` and
`LockLastsTheorem` of `Timing` for every unit, width, duration and stored value and every clock in
the middle half of the 64-bit range (`TimingAssumption`; for nanoseconds since 1970,
until the year 2116). Its invariant is that every recorded result is what the operators
compute at a time of the clock; the work is in the lemmas on `\div`, `%` and `Int64`
(`RemainingExact`) and on Go's division and its
difference from the documented sum (`QuoBounds`, `DivSum`).

`ClientCallProofs` proves `TypeCorrect`, `LateCallsSilent` (`LateSendsNothing`),
`CloseSound` (`CloseReleases`) and `WatchersStopped` (`NoWatcherLeft`) for
any sets of calls and closers. The invariant adds that a late call has not got past the
check of `life` (`Unsent`), and how `once`, `life`, `closes` and the one closer that is
neither idle nor waiting go together (`Closing`).

`CollectProofs` proves `PrefixExactHolds` (`PrefixExact`), `NothingDroppedHolds`
(`NothingDropped`), `PartialToldHolds` (`PartialTold`) and `NoReplayAfterBatchHolds`
(`NoReplayAfterBatch`) for all configurations of writer and reader, contents, weights,
keys and ranges, every cut of a stream into batches and every batch that is not well
formed or lacks its keys. `MessagesAssumption` says that recorded sizes do not wrap
(`Codec` is about those that do), that `Nil` is none of the structures a pointer may
lead to, and that only the empty data has length zero; `CollectAssumption` gives the
types of the other constants. The proof follows an item on its way:

* what `Deliver` makes of each message that holds a payload (`NestedValue` to
  `NestedOrderedKey`), and that `decode` undoes `encode` (`RoundTrip`) unless the
  reader's limit refuses it; these lemmas are in `MessagesProofs`, for `Operations`
  needs them too;
* `ItemsEncoded` and `ColumnsReceived`: the fields of a request hold the keys and the
  values of the items position by position, and arrive so; hence the server puts
  together the items that were written, in one request or in two (`Stored`);
* `BatchAccepted`, `MalformedRefused`, `KeylessAccepted`: which batches `decodeBatch`
  takes and what it appends; `SelectedExpected`: the items the range asks for are
  those the property expects.

The invariant says that the container holds items that carry what was written
(`Holds`), that while a stream is open the items still to come are what is left of the
expected ones after those decoded (`Rest`), and that an attempt which failed without a
`PartialError` has accepted no batch (`Tries`). The last is what makes a replay
harmless, and the second why an end of stream means that nothing is missing. What an
error says is kept as the counters of `collect` (`Told`); `ToldToCaller` then turns it, with
`PrefixExact`, into what the caller is handed.

`OperationsProofs` proves `OptionsKeptHolds` (`OptionsKept`), `ReplayCarriesSameHolds`
(`ReplayCarriesSame`) and `AbsentIsNotEmptyHolds` (`AbsentIsNotEmpty`) for all
configurations, options, arguments and clocks. `OperationsAssumption` gives the
constants their Go types and sets `Nil` apart from numbers and from what results point
to. The argument has three parts:

* `AllMatched`: each of the operations in the table calls a stub whose request and
  response are those its arguments and its result need. From then on there are twelve
  kinds of requests and nine of results to look at instead of every method;
* `FieldsShape` and `OptionsSent`: each kind of request names the session's key, and its
  owner wherever it has one, and delivery keeps both. `FieldsStay` shows that only
  SetTTL and LockObject read the clock when they build a request, so that one built
  later is the same; for these two, `SentLater` compares what is sent at two times, for
  the lock through the division that makes seconds of milliseconds;
* `ValueBack` and `OrderedBack`: a value stored by some client is decoded to what was
  stored, the empty one included, whose bytes are not on the wire; one without a
  payload (`MissingBack`) or with a wrong size (`WrongSizeBack`) is an error; an absent
  one is absent. `AnswerTold` carries this to the result of each kind of response.

The invariant (`History`) adds to the three properties that the session of a call that
has sent something has the key with the call's options, and that each request received
so far is the one an attempt builds at some time up to now (`Requests`). The second is
what relates the request of a first attempt to that of a second, which never looks at
it.

Only model-checked: liveness (`RefreshServed`, `CloseCompletes`, `RetiredIsClosed`,
`Terminates`, `CallsEnd`, `CloseEndsCalls`), which needs fairness and is outside the
prover. Every invariant and action property of the passing runs is proved.

## 5. Not modelled

The compressors' algorithms (a block is a length and a checksum or none), TLS and
dialling options, error texts and trailers other than the route. Of the generated code,
the replication service, the server halves of the stubs and the descriptors, which the
client does not use. The programs under `tools/`: they check a server and a schema and
keep no state. gRPC, the coordinator and the server are external. The memory model is
not in question: all shared fields are under one mutex, in channels or atomic.

## 6. Plan

Done: the modules of section 2 and the proofs of section 4.

Left, in this order:

1. Coordinator failover as a liveness property: with one healthy coordinator and no
   `Close`, the client becomes ready.
2. `ClientCall` over `SmartBackend` instead of the direct backend.

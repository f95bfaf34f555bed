----------------------------- MODULE ClientCall -----------------------------
(***************************************************************************)
(* A direct client (client.go): its construction, the life of a call in    *)
(* perform(), directBackend.run and unary(), and Close.  Calls run in      *)
(* goroutines of the caller; the goroutine that context.AfterFunc starts   *)
(* for each pending call when the client is closed, and the timers, run    *)
(* beside them.  A server may never answer.                                *)
(*                                                                         *)
(* A definition named Fault... is a deliberately wrong variant of the one  *)
(* below it; no specification uses it.                                     *)
(***************************************************************************)
EXTENDS Integers

CONSTANTS
    Calls,          \* goroutines that make one call each
    Closers,        \* goroutines that call Close
    RawConfigs,     \* what a caller may pass as Config
    Timeouts,       \* what a caller may pass as Options.Timeout, or Nil
    DefaultTimeout, DefaultMaxRequestBytes, DefaultMaxDecodedBytes,
    DefaultThreshold,
    Nil             \* a nil pointer

Config == [Timeout : Int, DefaultTTL : Int, CompressionThreshold : Int \cup {Nil},
           MaxRequestBytes : Int, MaxDecodedBytes : Int, codec : Int]

ASSUME CallAssumption ==
    /\ RawConfigs \subseteq Config
    /\ Timeouts \subseteq Int \cup {Nil} /\ Nil \notin Int
    /\ {DefaultTimeout, DefaultMaxRequestBytes, DefaultMaxDecodedBytes,
        DefaultThreshold} \subseteq Nat \ {0}

VARIABLES
    client,         \* "none", "open", or "refused" by the constructor
    config,         \* c.config
    owned,          \* the connection belongs to the client
    life,           \* c.life is cancelled
    once,           \* c.once: "fresh", "busy" or "done"
    closes,         \* how often the connection was closed
    closer,         \* where each closer is
    pc,             \* where each call is
    timeout,        \* Options.Timeout of each call
    parent,         \* the caller's context has ended
    canceled,       \* the cancel function of the call's context was called
    timer,          \* the deadline: "none", "armed", "fired"
    watcher,        \* the AfterFunc: "none", "registered", "started", "over"
    sent,           \* the request was handed to the connection
    late            \* history: the call began after the client was closed

clientVars == <<client, config, owned>>
closeVars == <<life, once, closes, closer>>
callVars == <<pc, timeout, parent, canceled, timer, watcher, sent, late>>
vars == <<clientVars, closeVars, callVars>>

All(S, v) == [s \in S |-> v]
-----------------------------------------------------------------------------
OrDefault(n, default) == IF n = 0 THEN default ELSE n

(* normalizeConfig(): what it refuses and what it fills in.                *)
ConfigInvalid(raw) ==
    \/ raw.codec \notin {0, 1}
    \/ raw.CompressionThreshold # Nil /\ raw.CompressionThreshold < 0
    \/ raw.Timeout < 0 \/ raw.DefaultTTL < 0
    \/ raw.MaxRequestBytes < 0 \/ raw.MaxDecodedBytes < 0

(* Fault (CallsEnd): a zero timeout stays zero, which is no timeout.       *)
FaultNormalizeConfig(raw) ==
    [raw EXCEPT
        !.CompressionThreshold = IF @ = Nil THEN DefaultThreshold ELSE @,
        !.MaxRequestBytes = OrDefault(@, DefaultMaxRequestBytes),
        !.MaxDecodedBytes = OrDefault(@, DefaultMaxDecodedBytes)]

NormalizeConfig(raw) ==
    [raw EXCEPT
        !.CompressionThreshold = IF @ = Nil THEN DefaultThreshold ELSE @,
        !.Timeout = OrDefault(@, DefaultTimeout),
        !.MaxRequestBytes = OrDefault(@, DefaultMaxRequestBytes),
        !.MaxDecodedBytes = OrDefault(@, DefaultMaxDecodedBytes)]

Init ==
    /\ client = "none" /\ config \in RawConfigs /\ owned \in BOOLEAN
    /\ life = FALSE /\ once = "fresh" /\ closes = 0
    /\ closer = All(Closers, "idle")
    /\ pc = All(Calls, "idle") /\ timeout = All(Calls, Nil)
    /\ parent = All(Calls, FALSE) /\ canceled = All(Calls, FALSE)
    /\ timer = All(Calls, "none") /\ watcher = All(Calls, "none")
    /\ sent = All(Calls, FALSE) /\ late = All(Calls, FALSE)

(* NewClient and NewClientWithConnection; the target or the connection     *)
(* may be missing too, and dialing may fail.                               *)
NewClientFails ==
    /\ client = "none"
    /\ client' = "refused"
    /\ UNCHANGED <<config, owned, closeVars, callVars>>

NewClient ==
    /\ client = "none" /\ ~ConfigInvalid(config)
    /\ client' = "open" /\ config' = NormalizeConfig(config)
    /\ UNCHANGED <<owned, closeVars, callVars>>
-----------------------------------------------------------------------------
(* perform(): the effective timeout and the state of the call's context.   *)
Effective(c) == IF timeout[c] = Nil THEN config.Timeout ELSE timeout[c]
CtxDone(c) == parent[c] \/ canceled[c] \/ timer[c] = "fired"
Pending(c) == pc[c] \notin {"idle", "returned"}

Goto(c, step) == pc' = [pc EXCEPT ![c] = step]

(* Fault (NoWatcherLeft): the AfterFunc is not stopped.                    *)
FaultReturn(c) ==
    /\ Goto(c, "returned")
    /\ canceled' = [canceled EXCEPT ![c] = TRUE]
    /\ timer' = [timer EXCEPT ![c] = "none"]
    /\ UNCHANGED watcher

(* perform() returns: end(), stop() and cancel() run.  A goroutine that    *)
(* was started is not stopped any more.                                    *)
Return(c) ==
    /\ Goto(c, "returned")
    /\ canceled' = [canceled EXCEPT ![c] = TRUE]
    /\ timer' = [timer EXCEPT ![c] = "none"]
    /\ watcher' = [watcher EXCEPT ![c] = IF @ = "registered" THEN "over" ELSE @]

(* The options and the caller's context are checked first; TTL and Mode    *)
(* may be refused too.                                                     *)
Begin(c) ==
    /\ client = "open" /\ pc[c] = "idle"
    /\ timeout' \in {[timeout EXCEPT ![c] = t] : t \in Timeouts}
    /\ parent' \in {parent, [parent EXCEPT ![c] = TRUE]}
    /\ late' = [late EXCEPT ![c] = life]
    /\ \/ Goto(c, "returned")
       \/ /\ ~parent'[c] /\ timeout'[c] \in Nat \cup {Nil}
          /\ Goto(c, "derive")
    /\ UNCHANGED <<clientVars, closeVars, canceled, timer, watcher, sent>>

(* Fault (CloseEndsCalls): the call is not tied to the client's life.      *)
FaultDerive(c) ==
    /\ pc[c] = "derive"
    /\ Goto(c, "admit")
    /\ UNCHANGED <<clientVars, closeVars, timeout, parent, canceled, timer,
                   watcher, sent, late>>

(* context.WithCancel and context.AfterFunc: the function of a context     *)
(* that has ended is started at once.                                      *)
Derive(c) ==
    /\ pc[c] = "derive"
    /\ watcher' = [watcher EXCEPT ![c] = IF life THEN "started" ELSE "registered"]
    /\ Goto(c, "admit")
    /\ UNCHANGED <<clientVars, closeVars, timeout, parent, canceled, timer,
                   sent, late>>

(* Fault (LateSendsNothing): perform() relies on the AfterFunc alone.      *)
FaultAdmit(c) ==
    /\ pc[c] = "admit"
    /\ Goto(c, "prepare")
    /\ timer' = [timer EXCEPT ![c] = IF Effective(c) > 0 THEN "armed" ELSE @]
    /\ UNCHANGED <<clientVars, closeVars, timeout, parent, canceled, watcher,
                   sent, late>>

(* c.life is checked, then the deadline is set.                            *)
Admit(c) ==
    /\ pc[c] = "admit"
    /\ IF life THEN Return(c)
       ELSE /\ Goto(c, "prepare")
            /\ timer' = [timer EXCEPT ![c] =
                            IF Effective(c) > 0 THEN "armed" ELSE @]
            /\ UNCHANGED <<canceled, watcher>>
    /\ UNCHANGED <<clientVars, closeVars, timeout, parent, sent, late>>

(* encodeKey() and the expiration; the key may not encode.                 *)
Prepare(c) ==
    /\ pc[c] = "prepare"
    /\ \/ Return(c)
       \/ Goto(c, "run") /\ UNCHANGED <<canceled, timer, watcher>>
    /\ UNCHANGED <<clientVars, closeVars, timeout, parent, sent, late>>

(* directBackend.run checks the context; the operation may refuse its own  *)
(* arguments before it sends anything.                                     *)
Run(c) ==
    /\ pc[c] = "run"
    /\ \/ Return(c)
       \/ ~CtxDone(c) /\ Goto(c, "unary") /\ UNCHANGED <<canceled, timer, watcher>>
    /\ UNCHANGED <<clientVars, closeVars, timeout, parent, sent, late>>

(* unary() checks the context and the size, then invokes the stub.         *)
Unary(c) ==
    /\ pc[c] = "unary"
    /\ \/ Return(c) /\ UNCHANGED sent
       \/ /\ ~CtxDone(c)
          /\ sent' = [sent EXCEPT ![c] = TRUE]
          /\ Goto(c, "inflight") /\ UNCHANGED <<canceled, timer, watcher>>
    /\ UNCHANGED <<clientVars, closeVars, timeout, parent, late>>

(* The RPC ends because its context has ended or its connection is closed. *)
Abort(c) ==
    /\ pc[c] = "inflight" /\ (CtxDone(c) \/ closes > 0)
    /\ Return(c)
    /\ UNCHANGED <<clientVars, closeVars, timeout, parent, sent, late>>

(* The server answers, with a result or an error.                          *)
Reply(c) ==
    /\ pc[c] = "inflight" /\ closes = 0
    /\ Return(c)
    /\ UNCHANGED <<clientVars, closeVars, timeout, parent, sent, late>>

CallerCancels(c) ==
    /\ Pending(c) /\ ~parent[c]
    /\ parent' = [parent EXCEPT ![c] = TRUE]
    /\ UNCHANGED <<clientVars, closeVars, pc, timeout, canceled, timer, watcher,
                   sent, late>>

TimerFires(c) ==
    /\ timer[c] = "armed"
    /\ timer' = [timer EXCEPT ![c] = "fired"]
    /\ UNCHANGED <<clientVars, closeVars, pc, timeout, parent, canceled, watcher,
                   sent, late>>

(* The goroutine of the AfterFunc cancels the call.                        *)
WatcherRuns(c) ==
    /\ watcher[c] = "started"
    /\ canceled' = [canceled EXCEPT ![c] = TRUE]
    /\ watcher' = [watcher EXCEPT ![c] = "over"]
    /\ UNCHANGED <<clientVars, closeVars, pc, timeout, parent, timer, sent, late>>
-----------------------------------------------------------------------------
(* Fault (CloseReleases): a second closer does not wait for the first.     *)
FaultNoWait(k) ==
    /\ client = "open" /\ closer[k] = "idle"
    /\ IF once = "fresh"
       THEN once' = "busy" /\ closer' = [closer EXCEPT ![k] = "cancel"]
       ELSE UNCHANGED once /\ closer' = [closer EXCEPT ![k] = "returned"]
    /\ UNCHANGED <<clientVars, life, closes, callVars>>

(* c.once.Do: the first runs the function, the others wait for it.         *)
Close(k) ==
    /\ client = "open" /\ closer[k] = "idle"
    /\ IF once = "fresh"
       THEN once' = "busy" /\ closer' = [closer EXCEPT ![k] = "cancel"]
       ELSE UNCHANGED once /\ closer' = [closer EXCEPT ![k] = "wait"]
    /\ UNCHANGED <<clientVars, life, closes, callVars>>

(* c.cancel() starts a goroutine for every registered AfterFunc and does   *)
(* not wait for any.                                                       *)
CancelLife(k) ==
    /\ closer[k] = "cancel"
    /\ life' = TRUE
    /\ watcher' = [c \in Calls |-> IF watcher[c] = "registered" THEN "started"
                                   ELSE watcher[c]]
    /\ closer' = [closer EXCEPT ![k] = "release"]
    /\ UNCHANGED <<clientVars, once, closes, pc, timeout, parent, canceled, timer,
                   sent, late>>

(* directBackend.close().                                                  *)
Release(k) ==
    /\ closer[k] = "release"
    /\ closes' = IF owned THEN closes + 1 ELSE closes
    /\ once' = "done"
    /\ closer' = [closer EXCEPT ![k] = "returned"]
    /\ UNCHANGED <<clientVars, life, callVars>>

CloseWaited(k) ==
    /\ closer[k] = "wait" /\ once = "done"
    /\ closer' = [closer EXCEPT ![k] = "returned"]
    /\ UNCHANGED <<clientVars, life, once, closes, callVars>>

CallStep(c) ==
    Derive(c) \/ Admit(c) \/ Prepare(c) \/ Run(c) \/ Unary(c) \/ Abort(c)
CloseStep(k) == CancelLife(k) \/ Release(k) \/ CloseWaited(k)

Next ==
    \/ NewClientFails \/ NewClient
    \/ \E c \in Calls : \/ Begin(c) \/ CallStep(c) \/ Reply(c)
                        \/ CallerCancels(c) \/ TimerFires(c) \/ WatcherRuns(c)
    \/ \E k \in Closers : Close(k) \/ CloseStep(k)

Spec == Init /\ [][Next]_vars

(* Goroutines that can run do, and a timer that is set fires.  Nothing is  *)
(* assumed of the server or of the caller.                                 *)
FairSpec ==
    /\ Spec
    /\ \A c \in Calls : /\ WF_vars(CallStep(c))
                        /\ WF_vars(TimerFires(c))
                        /\ WF_vars(WatcherRuns(c))
    /\ \A k \in Closers : WF_vars(CloseStep(k))
-----------------------------------------------------------------------------
(* What the operations rely on of a configuration that was accepted.       *)
Usable(c) ==
    /\ c.codec \in {0, 1} /\ c.CompressionThreshold \in Nat
    /\ c.Timeout \in Nat \ {0} /\ c.DefaultTTL \in Nat
    /\ c.MaxRequestBytes \in Nat \ {0} /\ c.MaxDecodedBytes \in Nat \ {0}

(* Every variable has its type, and an open client's configuration is      *)
(* complete: no caller of normalizeConfig() sees a nil or negative field.  *)
TypeOK ==
    /\ client = "open" => Usable(config)
    /\ client \in {"none", "open", "refused"} /\ config \in Config
    /\ owned \in BOOLEAN /\ life \in BOOLEAN
    /\ once \in {"fresh", "busy", "done"} /\ closes \in Nat
    /\ closer \in [Closers -> {"idle", "cancel", "release", "wait", "returned"}]
    /\ pc \in [Calls -> {"idle", "derive", "admit", "prepare", "run", "unary",
                         "inflight", "returned"}]
    /\ timeout \in [Calls -> Int \cup {Nil}]
    /\ parent \in [Calls -> BOOLEAN] /\ canceled \in [Calls -> BOOLEAN]
    /\ timer \in [Calls -> {"none", "armed", "fired"}]
    /\ watcher \in [Calls -> {"none", "registered", "started", "over"}]
    /\ sent \in [Calls -> BOOLEAN] /\ late \in [Calls -> BOOLEAN]

(* A call that begins after the client was closed sends nothing, whenever  *)
(* the goroutine of its AfterFunc gets to run (perform).                   *)
LateSendsNothing == \A c \in Calls : late[c] => ~sent[c]

(* However many goroutines call Close, an owned connection is closed once  *)
(* and a borrowed one never, and whoever returns finds it done, also when  *)
(* another goroutine did the work (sync.Once, directBackend.close).        *)
CloseReleases ==
    /\ closes <= IF owned THEN 1 ELSE 0
    /\ \A k \in Closers : closer[k] = "returned" =>
          life /\ (owned => closes = 1)

(* A finished call has left nothing behind that the client's life would    *)
(* still have to wake, and after Close no call has: a long-lived client    *)
(* does not collect one AfterFunc per call (perform's deferred stop).      *)
NoWatcherLeft ==
    \A c \in Calls : watcher[c] = "registered" => Pending(c) /\ ~life

(* A call with a timeout, its own or the default, ends although the server *)
(* never answers: only Options.Timeout zero may wait for ever.             *)
CallsEnd ==
    \A c \in Calls : Pending(c) /\ timeout[c] # 0 ~> pc[c] = "returned"

(* Close ends every call, also those without a timeout on a borrowed       *)
(* connection, which stays open.                                           *)
CloseEndsCalls == \A c \in Calls : life /\ Pending(c) ~> pc[c] = "returned"
=============================================================================

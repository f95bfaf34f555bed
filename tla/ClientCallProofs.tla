-------------------------- MODULE ClientCallProofs --------------------------
(***************************************************************************)
(* The safety properties of a direct client, for every number of calls and *)
(* of goroutines that close it, and for every configuration.               *)
(***************************************************************************)
EXTENDS ClientCall, TLAPS

(* Before the request is handed over, nothing is sent; a call that began   *)
(* on a closed client never comes so far.                                  *)
Unsent ==
    \A c \in Calls :
        /\ pc[c] \in {"idle", "derive", "admit", "prepare", "run", "unary"} => ~sent[c]
        /\ late[c] => life /\ ~sent[c] /\ pc[c] \in {"derive", "admit", "returned"}

(* One closer at a time is inside c.once, and nothing is released before   *)
(* it is done.                                                             *)
Closing ==
    /\ \A k \in Closers : /\ closer[k] \in {"cancel", "release"} => once = "busy"
                          /\ closer[k] = "release" => life
                          /\ closer[k] = "returned" => once = "done"
    /\ \A j, k \in Closers :
          closer[j] \in {"cancel", "release"} /\ closer[k] \in {"cancel", "release"}
             => j = k
    /\ once # "done" => closes = 0
    /\ once = "done" => life /\ closes = IF owned THEN 1 ELSE 0

IInv == TypeOK /\ Unsent /\ Closing /\ NoWatcherLeft

(* normalizeConfig() accepts only what it can complete.                    *)
LEMMA Normalized ==
  ASSUME NEW raw \in Config, ~ConfigInvalid(raw)
  PROVE  NormalizeConfig(raw) \in Config /\ Usable(NormalizeConfig(raw))
  <1> DEFINE n == NormalizeConfig(raw)
  <1>1. /\ raw.Timeout \in Nat /\ raw.DefaultTTL \in Nat
        /\ raw.CompressionThreshold \in Nat \cup {Nil}
        /\ raw.MaxRequestBytes \in Nat /\ raw.MaxDecodedBytes \in Nat
        /\ raw.codec \in {0, 1}
    BY CallAssumption DEF Config, ConfigInvalid
  <1>2. /\ n.Timeout = OrDefault(raw.Timeout, DefaultTimeout)
        /\ n.DefaultTTL = raw.DefaultTTL /\ n.codec = raw.codec
        /\ n.CompressionThreshold = IF raw.CompressionThreshold = Nil
                                    THEN DefaultThreshold
                                    ELSE raw.CompressionThreshold
        /\ n.MaxRequestBytes = OrDefault(raw.MaxRequestBytes, DefaultMaxRequestBytes)
        /\ n.MaxDecodedBytes = OrDefault(raw.MaxDecodedBytes, DefaultMaxDecodedBytes)
    BY DEF NormalizeConfig, Config
  <1>3. Usable(n)
    BY <1>1, <1>2, CallAssumption DEF Usable, OrDefault
  <1>4. n \in Config
    <2>1. /\ n.Timeout \in Int /\ n.DefaultTTL \in Int
          /\ n.CompressionThreshold \in Int \cup {Nil}
          /\ n.MaxRequestBytes \in Int /\ n.MaxDecodedBytes \in Int /\ n.codec \in Int
      BY <1>3 DEF Usable
    <2>2. n = [raw EXCEPT !.CompressionThreshold = n.CompressionThreshold,
                          !.Timeout = n.Timeout,
                          !.MaxRequestBytes = n.MaxRequestBytes,
                          !.MaxDecodedBytes = n.MaxDecodedBytes]
      BY <1>2 DEF NormalizeConfig
    <2> HIDE DEF n
    <2>3. [raw EXCEPT !.CompressionThreshold = n.CompressionThreshold,
                      !.Timeout = n.Timeout,
                      !.MaxRequestBytes = n.MaxRequestBytes,
                      !.MaxDecodedBytes = n.MaxDecodedBytes] \in Config
      BY <2>1 DEF Config
    <2> QED
      BY <2>2, <2>3
  <1> QED
    BY <1>3, <1>4

(* The initial states are in IInv.                                         *)
LEMMA InitIInv == Init => IInv
  <1> SUFFICES ASSUME Init PROVE IInv
    OBVIOUS
  <1>1. TypeOK
    BY CallAssumption DEF Init, TypeOK, All
  <1>2. Unsent /\ Closing /\ NoWatcherLeft
    BY DEF Init, Unsent, Closing, NoWatcherLeft, All
  <1> QED
    BY <1>1, <1>2 DEF IInv

(* Steps of the client keep IInv: construction first.                      *)
LEMMA ConstructionStep ==
  ASSUME IInv, NewClientFails \/ NewClient
  PROVE  IInv'
  <1>1. TypeOK'
    BY Normalized
    DEF IInv, TypeOK, NewClientFails, NewClient, closeVars, callVars
  <1>2. Unsent' /\ Closing' /\ NoWatcherLeft'
    BY DEF IInv, Unsent, Closing, NoWatcherLeft, Pending, NewClientFails, NewClient,
           closeVars, callVars
  <1> QED
    BY <1>1, <1>2 DEF IInv

(* What a call leaves alone.                                               *)
LEMMA CallFrame ==
  ASSUME IInv, UNCHANGED <<clientVars, closeVars>>
  PROVE  Closing' /\ (TypeOK' <=>
            /\ pc' \in [Calls -> {"idle", "derive", "admit", "prepare", "run",
                                  "unary", "inflight", "returned"}]
            /\ timeout' \in [Calls -> Int \cup {Nil}]
            /\ parent' \in [Calls -> BOOLEAN] /\ canceled' \in [Calls -> BOOLEAN]
            /\ timer' \in [Calls -> {"none", "armed", "fired"}]
            /\ watcher' \in [Calls -> {"none", "registered", "started", "over"}]
            /\ sent' \in [Calls -> BOOLEAN] /\ late' \in [Calls -> BOOLEAN])
  BY DEF IInv, TypeOK, Closing, clientVars, closeVars, Usable

(* A call returns.                                                         *)
LEMMA ReturnStep ==
  ASSUME IInv, NEW c \in Calls, Return(c),
         UNCHANGED <<clientVars, closeVars, timeout, parent, sent, late>>
  PROVE  IInv'
  <1>1. TypeOK' /\ Closing'
    BY CallFrame DEF IInv, TypeOK, Return, Goto
  <1>2. Unsent'
    BY DEF IInv, TypeOK, Unsent, Return, Goto, closeVars
  <1>3. NoWatcherLeft'
    BY DEF IInv, TypeOK, NoWatcherLeft, Pending, Return, Goto, closeVars
  <1> QED
    BY <1>1, <1>2, <1>3 DEF IInv

(* The steps of a call up to its answer.                                   *)
LEMMA CallStepStep ==
  ASSUME IInv, NEW c \in Calls, CallStep(c)
  PROVE  IInv'
  <1>1. CASE Derive(c)
    <2>1. TypeOK' /\ Closing'
      BY <1>1, CallFrame DEF IInv, TypeOK, Derive, Goto
    <2>2. Unsent'
      BY <1>1 DEF IInv, TypeOK, Unsent, Derive, Goto, closeVars
    <2>3. NoWatcherLeft'
      BY <1>1 DEF IInv, TypeOK, NoWatcherLeft, Pending, Derive, Goto, closeVars
    <2> QED
      BY <2>1, <2>2, <2>3 DEF IInv
  <1>2. CASE Admit(c)
    <2>1. CASE life
      BY <1>2, <2>1, ReturnStep DEF Admit
    <2>2. CASE ~life
      <3>1. TypeOK' /\ Closing'
        BY <1>2, <2>2, CallFrame DEF IInv, TypeOK, Admit, Goto
      <3>2. Unsent'
        BY <1>2, <2>2 DEF IInv, TypeOK, Unsent, Admit, Goto, closeVars
      <3>3. NoWatcherLeft'
        BY <1>2, <2>2 DEF IInv, TypeOK, NoWatcherLeft, Pending, Admit, Goto, closeVars
      <3> QED
        BY <3>1, <3>2, <3>3 DEF IInv
    <2> QED
      BY <2>1, <2>2
  <1>3. CASE Abort(c)
    BY <1>3, ReturnStep DEF Abort
  <1>4. ASSUME Prepare(c) \/ Run(c) \/ Unary(c) PROVE IInv'
    <2>1. CASE Return(c)
      <3>1. UNCHANGED sent
        BY <1>4, <2>1 DEF Prepare, Run, Unary, Return, Goto, IInv, TypeOK
      <3> QED
        BY <1>4, <2>1, <3>1, ReturnStep DEF Prepare, Run, Unary
    <2>2. CASE ~Return(c)
      <3>1. TypeOK' /\ Closing'
        BY <1>4, <2>2, CallFrame DEF IInv, TypeOK, Prepare, Run, Unary, Goto
      <3>2. Unsent'
        BY <1>4, <2>2 DEF IInv, TypeOK, Unsent, Prepare, Run, Unary, Goto, closeVars
      <3>3. NoWatcherLeft'
        BY <1>4, <2>2
        DEF IInv, TypeOK, NoWatcherLeft, Pending, Prepare, Run, Unary, Goto, closeVars
      <3> QED
        BY <3>1, <3>2, <3>3 DEF IInv
    <2> QED
      BY <2>1, <2>2
  <1> QED
    BY <1>1, <1>2, <1>3, <1>4 DEF CallStep

(* A call begins, and what happens to its context.                         *)
LEMMA BeginStep ==
  ASSUME IInv, NEW c \in Calls, Begin(c)
  PROVE  IInv'
  <1>a. timeout' \in [Calls -> Int \cup {Nil}]
    <2>1. PICK t \in Timeouts : timeout' = [timeout EXCEPT ![c] = t]
      BY DEF Begin
    <2>2. timeout \in [Calls -> Int \cup {Nil}] /\ t \in Int \cup {Nil}
      BY CallAssumption DEF IInv, TypeOK
    <2> QED
      BY <2>1, <2>2
  <1>b. parent' \in [Calls -> BOOLEAN]
    <2>1. parent' = parent \/ parent' = [parent EXCEPT ![c] = TRUE]
      BY DEF Begin
    <2> QED
      BY <2>1 DEF IInv, TypeOK
  <1>1. /\ timeout' \in [Calls -> Int \cup {Nil}] /\ parent' \in [Calls -> BOOLEAN]
        /\ pc' \in {[pc EXCEPT ![c] = "returned"], [pc EXCEPT ![c] = "derive"]}
    <2>1. pc' = [pc EXCEPT ![c] = "returned"] \/ pc' = [pc EXCEPT ![c] = "derive"]
      BY Zenon DEF Begin, Goto
    <2> QED
      BY <1>a, <1>b, <2>1
  <1>2. TypeOK' /\ Closing'
    BY <1>1, CallFrame DEF IInv, TypeOK, Begin
  <1>3. Unsent'
    BY <1>1 DEF IInv, TypeOK, Unsent, Begin, closeVars
  <1>4. NoWatcherLeft'
    BY <1>1 DEF IInv, TypeOK, NoWatcherLeft, Pending, Begin, closeVars
  <1> QED
    BY <1>2, <1>3, <1>4 DEF IInv

(* Contexts end, and the goroutine of the AfterFunc runs.                  *)
LEMMA ContextStep ==
  ASSUME IInv, NEW c \in Calls, CallerCancels(c) \/ TimerFires(c) \/ WatcherRuns(c)
  PROVE  IInv'
  <1>1. TypeOK' /\ Closing'
    BY CallFrame DEF IInv, TypeOK, CallerCancels, TimerFires, WatcherRuns
  <1>2. Unsent'
    BY DEF IInv, Unsent, CallerCancels, TimerFires, WatcherRuns, closeVars
  <1>3. NoWatcherLeft'
    BY DEF IInv, TypeOK, NoWatcherLeft, Pending, CallerCancels, TimerFires, WatcherRuns,
           closeVars
  <1> QED
    BY <1>1, <1>2, <1>3 DEF IInv

(* The steps of Close.                                                     *)
LEMMA CloseStepStep ==
  ASSUME IInv, NEW k \in Closers, Close(k) \/ CloseStep(k)
  PROVE  IInv'
  <1>1. CASE Close(k)
    <2>1. TypeOK' /\ Unsent' /\ NoWatcherLeft'
      BY <1>1
      DEF IInv, TypeOK, Usable, Unsent, NoWatcherLeft, Pending, Close, clientVars, callVars
    <2>2. Closing'
      BY <1>1 DEF IInv, TypeOK, Closing, Close, clientVars
    <2> QED
      BY <2>1, <2>2 DEF IInv
  <1>2. CASE CancelLife(k)
    <2>1. TypeOK'
      BY <1>2 DEF IInv, TypeOK, Usable, CancelLife, clientVars
    <2>2. Unsent' /\ NoWatcherLeft'
      BY <1>2 DEF IInv, TypeOK, Unsent, NoWatcherLeft, CancelLife
    <2>3. Closing'
      BY <1>2 DEF IInv, TypeOK, Closing, CancelLife, clientVars
    <2> QED
      BY <2>1, <2>2, <2>3 DEF IInv
  <1>3. CASE Release(k)
    <2>1. TypeOK' /\ Unsent' /\ NoWatcherLeft'
      BY <1>3
      DEF IInv, TypeOK, Usable, Unsent, NoWatcherLeft, Pending, Release, clientVars,
          callVars
    <2>2. Closing'
      BY <1>3 DEF IInv, TypeOK, Closing, Release, clientVars
    <2> QED
      BY <2>1, <2>2 DEF IInv
  <1>4. CASE CloseWaited(k)
    <2>1. TypeOK' /\ Unsent' /\ NoWatcherLeft'
      BY <1>4
      DEF IInv, TypeOK, Usable, Unsent, NoWatcherLeft, Pending, CloseWaited, clientVars,
          callVars
    <2>2. Closing'
      BY <1>4 DEF IInv, TypeOK, Closing, CloseWaited, clientVars
    <2> QED
      BY <2>1, <2>2 DEF IInv
  <1> QED
    BY <1>1, <1>2, <1>3, <1>4 DEF CloseStep

(* Every step keeps IInv.                                                  *)
LEMMA NextIInv == IInv /\ [Next]_vars => IInv'
  <1> SUFFICES ASSUME IInv, [Next]_vars PROVE IInv'
    OBVIOUS
  <1>1. ASSUME NEW c \in Calls, Reply(c) PROVE IInv'
    BY <1>1, ReturnStep DEF Reply
  <1>2. CASE UNCHANGED vars
    BY <1>2 DEF IInv, TypeOK, Usable, Unsent, Closing, NoWatcherLeft, Pending, vars,
                clientVars, closeVars, callVars
  <1> QED
    BY <1>1, <1>2, ConstructionStep, BeginStep, CallStepStep, ContextStep, CloseStepStep
    DEF Next

(* IInv is an invariant of the client.                                     *)
THEOREM Invariance == Spec => []IInv
  BY InitIInv, NextIInv, PTL DEF Spec

(* An open client's configuration is complete, whatever was passed         *)
(* (normalizeConfig).                                                      *)
THEOREM TypeCorrect == Spec => []TypeOK
  <1>1. IInv => TypeOK
    BY DEF IInv
  <1> QED
    BY <1>1, Invariance, PTL

(* A call that begins on a closed client sends nothing (perform).          *)
THEOREM LateCallsSilent == Spec => []LateSendsNothing
  <1>1. IInv => LateSendsNothing
    BY DEF IInv, Unsent, LateSendsNothing
  <1> QED
    BY <1>1, Invariance, PTL

(* However many goroutines call Close, whoever returns finds the client    *)
(* closed and the connection released exactly once (Client.Close).         *)
THEOREM CloseSound == Spec => []CloseReleases
  <1>1. IInv => CloseReleases
    BY DEF IInv, TypeOK, Closing, CloseReleases
  <1> QED
    BY <1>1, Invariance, PTL

(* No finished call leaves an AfterFunc behind (perform).                  *)
THEOREM WatchersStopped == Spec => []NoWatcherLeft
  <1>1. IInv => NoWatcherLeft
    BY DEF IInv
  <1> QED
    BY <1>1, Invariance, PTL
=============================================================================

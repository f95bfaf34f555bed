--------------------------- MODULE SmartRunProofs ---------------------------
(***************************************************************************)
(* The attempts of smartBackend.run, for every set of calls and every set  *)
(* of topologies that discover() and publish() accept, in whatever order   *)
(* refreshes install them.                                                 *)
(***************************************************************************)
EXTENDS SmartRun, TLAPS

Made(t, e) == [target |-> t, outcome |-> e]
Attempts == [target : Targets, outcome : Outcome]
Served(c) == Master(snap[c], shard[c]) \cup Backup(snap[c], shard[c])

(* Types, as far as the argument needs them: what SelectShard computes is  *)
(* of no consequence.                                                      *)
Typed ==
    /\ topology \in Topologies /\ snap \in [Calls -> Topologies]
    /\ pc \in [Calls -> {"idle", "ready", "select", "first", "second", "done"}]
    /\ req \in [Calls -> Request]
    /\ first \in [Calls -> Targets \cup {NoTarget}]
    /\ second \in [Calls -> Targets \cup {NoTarget}]
    /\ tried \in [Calls -> Seq(Attempts)]
    /\ asked \in [Calls -> BOOLEAN]
    /\ shard = [c \in Calls |-> shard[c]]

MasterFirst(c) ==
    req[c].write /\ req[c].mode = Absent =>
        Master(snap[c], shard[c]) \subseteq {first[c]}

(* Until its first attempt a call has tried nothing.                       *)
Fresh(c) == pc[c] \in {"idle", "ready", "select", "first"} => tried[c] = <<>>

(* What Select leaves for the attempts: nodes of the captured snapshot,    *)
(* and a second one only if the mode allows it.                            *)
Chosen(c) ==
    pc[c] = "first" =>
        /\ first[c] \in Served(c)
        /\ second[c] \in Served(c) \cup {NoTarget}
        /\ second[c] # NoTarget => req[c].mode \notin {"Master", "Backup"}
        /\ MasterFirst(c)

Reason(c, e) ==
    \/ e.code = "FailedPrecondition" /\ e.route = second[c]
    \/ /\ e.code = "Unavailable" /\ asked[c]
       /\ req[c].mode \notin {"Master", "Backup"}
       /\ second[c] \in Served(c)

(* The first attempt went to a node of the captured snapshot.              *)
Begun(c) == first[c] \in TargetsOf(snap[c]) /\ MasterFirst(c)

(* It returned e, and that allows the attempt on second[c].                *)
MayGoOn(c, e) ==
    /\ ~e.partial /\ Reason(c, e)
    /\ second[c] \in TargetsOf(snap[c]) /\ first[c] # second[c]

GoesOn(c) ==
    pc[c] = "second" =>
        /\ Begun(c)
        /\ \E e \in Outcome : /\ tried[c] = <<Made(first[c], e)>>
                               /\ MayGoOn(c, e)

(* A call that is over has made no attempt, one, or one and another.       *)
Over(c) ==
    pc[c] = "done" =>
        \/ tried[c] = <<>>
        \/ /\ Begun(c)
           /\ \E e \in Outcome :
                 \/ tried[c] = <<Made(first[c], e)>>
                 \/ /\ MayGoOn(c, e)
                    /\ \E f \in Outcome :
                          tried[c] = <<Made(first[c], e), Made(second[c], f)>>

CallInv(c) == Fresh(c) /\ Chosen(c) /\ GoesOn(c) /\ Over(c)

IInv == Typed /\ \A c \in Calls : CallInv(c)
-----------------------------------------------------------------------------
(* What the topologies that publish() installs say of a shard: its nodes   *)
(* are addressed nodes of the topology, at most one of each role.          *)
LEMMA Routes ==
  ASSUME NEW tp \in Topologies, NEW s
  PROVE  /\ Master(tp, s) \subseteq TargetsOf(tp)
         /\ Backup(tp, s) \subseteq TargetsOf(tp)
         /\ TargetsOf(tp) \subseteq Targets /\ NoTarget \notin TargetsOf(tp)
         /\ \A t, u \in Master(tp, s) : t = u
  <1>1. /\ tp.peers \subseteq Peer
        /\ \A p \in tp.peers : p.target # NoTarget
        /\ ~Conflicting(tp.peers)
    BY RunAssumption DEF ValidPeer
  <1>2. \A t, u \in Master(tp, s) : t = u
    BY <1>1 DEF Conflicting, Master, RouteTargets
  <1>3. QED
    BY <1>1, <1>2, NoTargetAssumption
       DEF Master, Backup, RouteTargets, TargetsOf, Peer

(* A lookup yields an element, or nil for an empty set of real targets.    *)
LEMMA LookupIn ==
  ASSUME NEW S
  PROVE  /\ S # {} => Lookup(S) \in S
         /\ S = {} => Lookup(S) = NoTarget
  BY DEF Lookup

(* A mode and the nodes that exist decide the pair of endpoints.           *)
LEMMA PairOf ==
  ASSUME NEW q \in Request, NEW m, NEW b, m # NoTarget \/ b # NoTarget,
         NEW pair \in Endpoints(ResolveMode(q, m, b), m, b)
  PROVE  /\ pair[1] \in {m, b} \ {NoTarget}
         /\ pair[2] \in {m, b, NoTarget}
         /\ pair[2] # NoTarget => q.mode \notin {"Master", "Backup"}
         /\ q.write /\ q.mode = Absent => pair[1] = m \/ m = NoTarget
  <1>1. q.mode \in Modes \cup {Absent}
    BY DEF Request
  <1> DEFINE r == ResolveMode(q, m, b)
  <1>2. /\ b = NoTarget => r = "Master"
        /\ b # NoTarget /\ m = NoTarget => r = "Backup"
        /\ b # NoTarget /\ m # NoTarget =>
              /\ q.mode # Absent => r = q.mode
              /\ q.mode = Absent /\ q.write => r = "MasterThenBackup"
              /\ q.mode = Absent /\ ~q.write => r = ConfigMode
    BY DEF ResolveMode
  <1> HIDE DEF r
  <1>3. r \in Modes
    BY <1>1, <1>2, RunAssumption DEF Modes, Request
  <1>4. /\ r = "Master" => pair = <<m, NoTarget>>
        /\ r = "Backup" => pair = <<b, NoTarget>>
        /\ r = "MasterThenBackup" => pair = <<m, b>>
        /\ r = "LBSmart" => pair \in {<<m, b>>, <<b, m>>}
    BY <1>3 DEF r, Endpoints, Modes
  <1>5. pair[1] \in {m, b} \ {NoTarget} /\ pair[2] \in {m, b, NoTarget}
    BY <1>2, <1>3, <1>4 DEF Modes
  <1>6. pair[2] # NoTarget => q.mode \notin {"Master", "Backup"}
    BY <1>1, <1>2, <1>3, <1>4, RunAssumption DEF Modes
  <1>7. q.write /\ q.mode = Absent => pair[1] = m \/ m = NoTarget
    BY <1>2, <1>4
  <1>8. QED
    BY <1>5, <1>6, <1>7
-----------------------------------------------------------------------------
(* CallInv speaks of one call: a step of another one does not disturb it.  *)
LEMMA Frame ==
  ASSUME NEW c \in Calls, CallInv(c),
         pc'[c] = pc[c], req'[c] = req[c], snap'[c] = snap[c],
         shard'[c] = shard[c], first'[c] = first[c], second'[c] = second[c],
         tried'[c] = tried[c], asked'[c] = asked[c]
  PROVE  CallInv(c)'
  BY DEF CallInv, Fresh, Chosen, GoesOn, Over, Begun, MayGoOn, MasterFirst,
         Reason, Served

(* The steps before the first attempt and after the last one.              *)
LEMMA QuietSteps ==
  ASSUME IInv, NEW c \in Calls,
         StartRun(c) \/ PinSnapshot(c) \/ NotReady(c) \/ EndRun(c)
  PROVE  IInv'
  <1>1. CASE StartRun(c)
    <2>1. PICK q \in Request : req' = [req EXCEPT ![c] = q]
      BY <1>1 DEF StartRun
    <2>2. Typed'
      BY <1>1, <2>1 DEF StartRun, IInv, Typed, choiceVars
    <2>3. CallInv(c)'
      BY <1>1 DEF StartRun, IInv, Typed, choiceVars, CallInv, Fresh, Chosen,
                  GoesOn, Over
    <2>4. \A d \in Calls \ {c} : CallInv(d)'
      BY <1>1, <2>1, Frame DEF StartRun, IInv, Typed, choiceVars
    <2>5. QED
      BY <2>2, <2>3, <2>4 DEF IInv
  <1>2. CASE PinSnapshot(c)
    <2>1. Typed'
      BY <1>2 DEF PinSnapshot, IInv, Typed, choiceVars
    <2>2. CallInv(c)'
      BY <1>2 DEF PinSnapshot, IInv, Typed, choiceVars, CallInv, Fresh, Chosen,
                  GoesOn, Over
    <2>3. \A d \in Calls \ {c} : CallInv(d)'
      BY <1>2, Frame DEF PinSnapshot, IInv, Typed, choiceVars
    <2>4. QED
      BY <2>1, <2>2, <2>3 DEF IInv
  <1>3. CASE NotReady(c)
    <2>1. Typed'
      BY <1>3 DEF NotReady, Finish, IInv, Typed, choiceVars
    <2>2. CallInv(c)'
      BY <1>3 DEF NotReady, Finish, IInv, Typed, choiceVars, CallInv, Fresh,
                  Chosen, GoesOn, Over
    <2>3. \A d \in Calls \ {c} : CallInv(d)'
      BY <1>3, Frame DEF NotReady, Finish, IInv, Typed, choiceVars
    <2>4. QED
      BY <2>1, <2>2, <2>3 DEF IInv
  <1>4. CASE EndRun(c)
    <2>1. NoRequest \in Request /\ <<>> \in Seq(Attempts)
      BY DEF NoRequest, Request
    <2>2. Typed'
      BY <1>4, <2>1 DEF EndRun, IInv, Typed
    <2>3. CallInv(c)'
      BY <1>4 DEF EndRun, IInv, Typed, CallInv, Fresh, Chosen, GoesOn, Over
    <2>4. \A d \in Calls \ {c} : CallInv(d)'
      BY <1>4, Frame DEF EndRun, IInv, Typed
    <2>5. QED
      BY <2>2, <2>3, <2>4 DEF IInv
  <1>5. QED
    BY <1>1, <1>2, <1>3, <1>4

(* Select: the mode names nodes that serve the shard.                      *)
LEMMA SelectStep ==
  ASSUME IInv, NEW c \in Calls, Select(c)
  PROVE  IInv'
  <1> DEFINE sh == shard'[c]
             M == Master(snap[c], sh)
             B == Backup(snap[c], sh)
             master == Lookup(M)
             backup == Lookup(B)
  <1>1. /\ pc[c] = "select" /\ tried[c] = <<>>
        /\ snap[c] \in Topologies /\ req[c] \in Request
        /\ UNCHANGED <<topology, wake, req, snap, tried, asked>>
    BY DEF Select, IInv, Typed, CallInv, Fresh
  <1>2. /\ shard' = [d \in Calls |-> shard'[d]]
        /\ \A d \in Calls \ {c} : shard'[d] = shard[d]
    BY DEF Select, SelectShard, IInv, Typed
  <1>3. /\ M \subseteq TargetsOf(snap[c]) /\ B \subseteq TargetsOf(snap[c])
        /\ TargetsOf(snap[c]) \subseteq Targets /\ NoTarget \notin TargetsOf(snap[c])
        /\ \A t, u \in M : t = u
    BY <1>1, Routes
  <1>4. /\ master = NoTarget => M = {}
        /\ master # NoTarget => master \in M
        /\ backup # NoTarget => backup \in B
        /\ M \subseteq {master}
    BY <1>3, LookupIn
  <1>5. CASE master = NoTarget /\ backup = NoTarget
    <2>1. Finish(c, LocalError("Unavailable")) /\ UNCHANGED <<first, second>>
      BY <1>5 DEF Select
    <2>2. Typed'
      BY <1>1, <1>2, <2>1 DEF Finish, IInv, Typed
    <2>3. CallInv(c)'
      BY <1>1, <2>1 DEF Finish, IInv, Typed, CallInv, Fresh, Chosen, GoesOn, Over
    <2>4. \A d \in Calls \ {c} : CallInv(d)'
      BY <1>1, <1>2, <2>1, Frame DEF Finish, IInv, Typed
    <2>5. QED
      BY <2>2, <2>3, <2>4 DEF IInv
  <1>6. CASE ~(master = NoTarget /\ backup = NoTarget)
    <2>1. PICK pair \in Endpoints(ResolveMode(req[c], master, backup),
                                  master, backup) :
             /\ first' = [first EXCEPT ![c] = pair[1]]
             /\ second' = [second EXCEPT ![c] = pair[2]]
      BY <1>6 DEF Select
    <2>2. \/ pc' = [pc EXCEPT ![c] = "done"]
          \/ pc' = [pc EXCEPT ![c] = "first"]
      BY <1>6 DEF Select, Finish
    <2> HIDE DEF master, backup
    <2>3. /\ pair[1] \in {master, backup} \ {NoTarget}
          /\ pair[2] \in {master, backup, NoTarget}
          /\ pair[2] # NoTarget => req[c].mode \notin {"Master", "Backup"}
          /\ req[c].write /\ req[c].mode = Absent =>
                pair[1] = master \/ master = NoTarget
      BY <1>1, <1>6, PairOf
    <2>4. /\ pair[1] \in M \cup B /\ pair[2] \in M \cup B \cup {NoTarget}
          /\ req[c].write /\ req[c].mode = Absent => M \subseteq {pair[1]}
      BY <1>4, <2>3
    <2>5. /\ first'[c] = pair[1] /\ second'[c] = pair[2]
          /\ \A d \in Calls \ {c} : /\ first'[d] = first[d] /\ second'[d] = second[d]
                                   /\ pc'[d] = pc[d]
          /\ pc'[c] \in {"first", "done"}
      BY <2>1, <2>2 DEF IInv, Typed
    <2>6. Typed'
      BY <1>1, <1>2, <1>3, <2>1, <2>2, <2>4 DEF IInv, Typed
    <2>7. CallInv(c)'
      BY <1>1, <2>3, <2>4, <2>5
         DEF CallInv, Fresh, Chosen, GoesOn, Over, MasterFirst, Served
    <2>8. \A d \in Calls \ {c} : CallInv(d)'
      BY <1>1, <1>2, <2>5, Frame DEF IInv
    <2>9. QED
      BY <2>6, <2>7, <2>8 DEF IInv
  <1>7. QED
    BY <1>5, <1>6

(* An attempt is made on a target, and the history takes it.               *)
LEMMA Recorded ==
  ASSUME Typed, NEW c \in Calls, NEW t \in Targets, NEW e \in Outcome,
         Attempt(c, t, e)
  PROVE  /\ tried' \in [Calls -> Seq(Attempts)]
         /\ tried'[c] = Append(tried[c], Made(t, e))
         /\ \A d \in Calls \ {c} : tried'[d] = tried[d]
  <1>1. Made(t, e) \in Attempts /\ tried[c] \in Seq(Attempts)
    BY DEF Made, Attempts, Typed
  <1>2. tried' = [tried EXCEPT ![c] = Append(tried[c], Made(t, e))]
    BY DEF Attempt, Made
  <1> HIDE DEF Attempts
  <1>3. Append(tried[c], Made(t, e)) \in Seq(Attempts)
    BY <1>1
  <1>4. QED
    BY <1>2, <1>3 DEF Typed

(* The first attempt goes to a node of the captured snapshot.              *)
LEMMA FirstNode ==
  ASSUME IInv, NEW c \in Calls, pc[c] = "first"
  PROVE  /\ Begun(c) /\ first[c] \in Targets /\ tried[c] = <<>>
         /\ second[c] \in TargetsOf(snap[c]) \cup {NoTarget}
         /\ TargetsOf(snap[c]) \subseteq Targets
  <1>1. Chosen(c) /\ Fresh(c) /\ snap[c] \in Topologies
    BY DEF IInv, Typed, CallInv
  <1>2. Served(c) \subseteq TargetsOf(snap[c]) /\ TargetsOf(snap[c]) \subseteq Targets
    BY <1>1, Routes DEF Served
  <1>3. QED
    BY <1>1, <1>2 DEF Chosen, Fresh, Begun

(* The first attempt ends the call.                                        *)
LEMMA FirstReturnsStep ==
  ASSUME IInv, NEW c \in Calls, FirstReturns(c)
  PROVE  IInv'
  <1>1. /\ pc[c] = "first"
        /\ UNCHANGED <<topology, round, wake, req, snap, shard, first, second, asked>>
    BY DEF FirstReturns, choiceVars
  <1>2. PICK e \in Outcome : Attempt(c, first[c], e) /\ Finish(c, e)
    BY DEF FirstReturns
  <1>3. Begun(c) /\ first[c] \in Targets /\ tried[c] = <<>>
    BY <1>1, FirstNode
  <1>4. /\ tried' \in [Calls -> Seq(Attempts)]
        /\ tried'[c] = <<Made(first[c], e)>>
        /\ \A d \in Calls \ {c} : tried'[d] = tried[d]
    BY <1>2, <1>3, Recorded DEF IInv
  <1>5. pc' = [pc EXCEPT ![c] = "done"]
    BY <1>2 DEF Finish
  <1>6. Typed'
    BY <1>1, <1>4, <1>5 DEF IInv, Typed
  <1>7. pc'[c] = "done" /\ \A d \in Calls \ {c} : pc'[d] = pc[d]
    BY <1>5 DEF IInv, Typed
  <1>8. Begun(c)'
    BY <1>1, <1>3 DEF Begun, MasterFirst
  <1>9. CallInv(c)'
    BY <1>1, <1>4, <1>7, <1>8 DEF CallInv, Fresh, Chosen, GoesOn, Over
  <1>10. \A d \in Calls \ {c} : CallInv(d)'
    BY <1>1, <1>4, <1>7, Frame DEF IInv
  <1>11. QED
    BY <1>6, <1>9, <1>10 DEF IInv

(* What GoOn does after an attempt that returned e: the call is over or    *)
(* goes to an element of S, for which there must be a reason.              *)
LEMMA GoOnStep ==
  ASSUME IInv, NEW c \in Calls, NEW e \in Outcome, NEW S,
         pc[c] = "first", ~e.partial, Attempt(c, first[c], e), GoOn(c, S, e),
         UNCHANGED <<topology, req, snap, shard, first>>,
         asked' \in [Calls -> BOOLEAN],
         \A d \in Calls \ {c} : asked'[d] = asked[d],
         S \subseteq TargetsOf(snap[c]) \ {first[c]},
         \A t \in S : second'[c] = t => Reason(c, e)'
  PROVE  IInv'
  <1>1. /\ Begun(c) /\ first[c] \in Targets /\ tried[c] = <<>>
        /\ TargetsOf(snap[c]) \subseteq Targets
    BY FirstNode
  <1>2. /\ tried' \in [Calls -> Seq(Attempts)]
        /\ tried'[c] = <<Made(first[c], e)>>
        /\ \A d \in Calls \ {c} : tried'[d] = tried[d]
    BY <1>1, Recorded DEF IInv
  <1>3. Begun(c)'
    BY <1>1 DEF Begun, MasterFirst
  <1>4. CASE S = {}
    <2>1. pc' = [pc EXCEPT ![c] = "done"] /\ UNCHANGED second
      BY <1>4 DEF GoOn, Finish
    <2>2. Typed'
      BY <1>2, <2>1 DEF IInv, Typed
    <2>3. pc'[c] = "done" /\ \A d \in Calls \ {c} : pc'[d] = pc[d]
      BY <2>1 DEF IInv, Typed
    <2>4. CallInv(c)'
      BY <1>2, <1>3, <2>3 DEF CallInv, Fresh, Chosen, GoesOn, Over
    <2>5. \A d \in Calls \ {c} : CallInv(d)'
      BY <1>2, <2>1, <2>3, Frame DEF IInv
    <2>6. QED
      BY <2>2, <2>4, <2>5 DEF IInv
  <1>5. CASE S # {}
    <2>1. /\ pc' = [pc EXCEPT ![c] = "second"]
          /\ second' = [second EXCEPT ![c] = Lookup(S)]
      BY <1>5 DEF GoOn
    <2>2. Lookup(S) \in S
      BY <1>5, LookupIn
    <2>3. Typed'
      BY <1>1, <1>2, <2>1, <2>2 DEF IInv, Typed
    <2>4. /\ pc'[c] = "second" /\ second'[c] = Lookup(S)
          /\ \A d \in Calls \ {c} : pc'[d] = pc[d] /\ second'[d] = second[d]
      BY <2>1 DEF IInv, Typed
    <2>5. MayGoOn(c, e)'
      BY <2>2, <2>4 DEF MayGoOn
    <2>6. CallInv(c)'
      BY <1>2, <1>3, <2>4, <2>5 DEF CallInv, Fresh, Chosen, GoesOn, Over
    <2>7. \A d \in Calls \ {c} : CallInv(d)'
      BY <1>2, <2>4, Frame DEF IInv
    <2>8. QED
      BY <2>3, <2>6, <2>7 DEF IInv
  <1>6. QED
    BY <1>4, <1>5

(* A redirect leads to another node of the captured snapshot, a fallback   *)
(* to the other node of the shard.                                         *)
LEMMA FirstFailsStep ==
  ASSUME IInv, NEW c \in Calls, FirstMoved(c) \/ FirstUnavailable(c)
  PROVE  IInv'
  <1>1. CASE FirstMoved(c)
    <2>1. PICK e \in Outcome :
             /\ e.code = "FailedPrecondition" /\ ~Final(e)
             /\ Attempt(c, first[c], e) /\ GoOn(c, RerouteTo(c, e), e)
      BY <1>1 DEF FirstMoved
    <2>2. /\ pc[c] = "first" /\ ~e.partial
          /\ UNCHANGED <<topology, req, snap, shard, first, asked>>
      BY <1>1, <2>1 DEF FirstMoved, Final
    <2>3. RerouteTo(c, e) \subseteq TargetsOf(snap[c]) \ {first[c]}
      BY DEF RerouteTo
    <2>4. \A t \in RerouteTo(c, e) : second'[c] = t => Reason(c, e)'
      BY <2>1 DEF RerouteTo, Reason
    <2>5. asked' \in [Calls -> BOOLEAN]
      BY <2>2 DEF IInv, Typed
    <2>6. QED
      BY <2>1, <2>2, <2>3, <2>4, <2>5, GoOnStep
  <1>2. CASE FirstUnavailable(c)
    <2>1. PICK e \in Outcome :
             /\ e.code = "Unavailable" /\ ~Final(e)
             /\ Attempt(c, first[c], e) /\ GoOn(c, FallbackTo(c), e)
      BY <1>2 DEF FirstUnavailable
    <2>2. /\ pc[c] = "first" /\ ~e.partial
          /\ UNCHANGED <<topology, req, snap, shard, first>>
          /\ asked' = [asked EXCEPT ![c] = TRUE]
      BY <1>2, <2>1 DEF FirstUnavailable, Final
    <2>3. /\ asked' \in [Calls -> BOOLEAN] /\ asked'[c]
          /\ \A d \in Calls \ {c} : asked'[d] = asked[d]
      BY <2>2 DEF IInv, Typed
    <2>4. FallbackTo(c) \subseteq TargetsOf(snap[c]) \ {first[c]}
      BY <2>2, FirstNode DEF FallbackTo
    <2>5. \A t \in FallbackTo(c) : second'[c] = t => Reason(c, e)'
      <3>1. Chosen(c)
        BY DEF IInv, CallInv
      <3>2. QED
        BY <2>1, <2>2, <2>3, <3>1 DEF FallbackTo, Chosen, Reason, Served
    <2>6. QED
      BY <2>1, <2>2, <2>3, <2>4, <2>5, GoOnStep
  <1>3. QED
    BY <1>1, <1>2

(* The second attempt ends the call.                                       *)
LEMMA SecondReturnsStep ==
  ASSUME IInv, NEW c \in Calls, SecondReturns(c)
  PROVE  IInv'
  <1>1. /\ pc[c] = "second"
        /\ UNCHANGED <<topology, round, wake, req, snap, shard, first, second, asked>>
    BY DEF SecondReturns, choiceVars
  <1>2. PICK f \in Outcome : Attempt(c, second[c], f) /\ Finish(c, f)
    BY DEF SecondReturns
  <1>3. Begun(c)
    BY <1>1 DEF IInv, CallInv, GoesOn
  <1>4. PICK e \in Outcome : tried[c] = <<Made(first[c], e)>> /\ MayGoOn(c, e)
    BY <1>1 DEF IInv, CallInv, GoesOn
  <1>5. second[c] \in Targets
    BY <1>4, Routes DEF MayGoOn, IInv, Typed
  <1>6. /\ tried' \in [Calls -> Seq(Attempts)]
        /\ tried'[c] = <<Made(first[c], e), Made(second[c], f)>>
        /\ \A d \in Calls \ {c} : tried'[d] = tried[d]
    BY <1>2, <1>4, <1>5, Recorded DEF IInv
  <1>7. pc' = [pc EXCEPT ![c] = "done"]
    BY <1>2 DEF Finish
  <1>8. Typed'
    BY <1>1, <1>6, <1>7 DEF IInv, Typed
  <1>9. pc'[c] = "done" /\ \A d \in Calls \ {c} : pc'[d] = pc[d]
    BY <1>7 DEF IInv, Typed
  <1>10. Begun(c)' /\ MayGoOn(c, e)'
    BY <1>1, <1>3, <1>4 DEF Begun, MasterFirst, MayGoOn, Reason, Served
  <1>11. CallInv(c)'
    BY <1>1, <1>6, <1>9, <1>10 DEF CallInv, Fresh, Chosen, GoesOn, Over
  <1>12. \A d \in Calls \ {c} : CallInv(d)'
    BY <1>1, <1>6, <1>9, Frame DEF IInv
  <1>13. QED
    BY <1>8, <1>11, <1>12 DEF IInv
-----------------------------------------------------------------------------
(* No step of run or of a refresh breaks the inductive invariant.          *)
THEOREM Invariance == Spec => []IInv
  <1>1. Init => IInv
    <2> SUFFICES ASSUME Init
                 PROVE  IInv
      OBVIOUS
    <2>1. NoRequest \in Request /\ <<>> \in Seq(Attempts)
      BY DEF NoRequest, Request
    <2>2. Typed
      BY <2>1 DEF Init, Typed
    <2>3. \A c \in Calls : CallInv(c)
      BY DEF Init, CallInv, Fresh, Chosen, GoesOn, Over
    <2>4. QED
      BY <2>2, <2>3 DEF IInv
  <1>2. IInv /\ [Next]_vars => IInv'
    <2> SUFFICES ASSUME IInv, [Next]_vars
                 PROVE  IInv'
      OBVIOUS
    <2>1. CASE Publish
      <3>1. Typed'
        BY <2>1 DEF Publish, IInv, Typed, choiceVars
      <3>2. \A c \in Calls : CallInv(c)'
        BY <2>1, Frame DEF Publish, IInv, choiceVars
      <3>3. QED
        BY <3>1, <3>2 DEF IInv
    <2>2. ASSUME NEW c \in Calls,
                 \/ StartRun(c) \/ PinSnapshot(c) \/ NotReady(c) \/ Select(c)
                 \/ FirstReturns(c) \/ FirstMoved(c) \/ FirstUnavailable(c)
                 \/ SecondReturns(c) \/ EndRun(c)
          PROVE  IInv'
      BY <2>2, QuietSteps, SelectStep, FirstReturnsStep, FirstFailsStep,
         SecondReturnsStep
    <2>3. CASE UNCHANGED vars
      <3>1. Typed'
        BY <2>3 DEF vars, IInv, Typed
      <3>2. \A c \in Calls : CallInv(c)'
        BY <2>3, Frame DEF vars, IInv
      <3>3. QED
        BY <3>1, <3>2 DEF IInv
    <2>4. QED
      BY <2>1, <2>2, <2>3 DEF Next
  <1>3. QED
    BY <1>1, <1>2, PTL DEF Spec

(* The attempts are the first and, of two, the second.                     *)
LEMMA UpToTwo ==
  ASSUME NEW m \in 0..2
  PROVE  m <= 2 /\ \A i \in 1..m : (i = 1 /\ m > 0) \/ (i = 2 /\ m = 2)
  OBVIOUS

(* The attempts of a call, at any moment: none, one, or one and another.   *)
LEMMA Shape ==
  ASSUME IInv, NEW c \in Calls
  PROVE  /\ DOMAIN tried[c] = 1..Len(tried[c]) /\ Len(tried[c]) \in 0..2
         /\ Len(tried[c]) > 0 => Begun(c) /\ tried[c][1].target = first[c]
         /\ Len(tried[c]) = 2 => /\ tried[c][2].target = second[c]
                                /\ MayGoOn(c, tried[c][1].outcome)
  <1>1. /\ pc[c] \in {"idle", "ready", "select", "first", "second", "done"}
        /\ tried[c] \in Seq(Attempts)
    BY DEF IInv, Typed
  <1>2. \/ tried[c] = <<>>
        \/ /\ Begun(c)
           /\ \E e \in Outcome :
                 \/ tried[c] = <<Made(first[c], e)>>
                 \/ /\ MayGoOn(c, e)
                    /\ \E f \in Outcome :
                          tried[c] = <<Made(first[c], e), Made(second[c], f)>>
    BY <1>1 DEF IInv, CallInv, Fresh, GoesOn, Over
  <1>3. DOMAIN tried[c] = 1..Len(tried[c]) /\ (tried[c] = <<>> => Len(tried[c]) = 0)
    BY <1>1
  <1>4. ASSUME NEW e \in Outcome, Begun(c), tried[c] = <<Made(first[c], e)>>
        PROVE  Len(tried[c]) = 1 /\ tried[c][1].target = first[c]
    BY <1>4 DEF Made
  <1>5. ASSUME NEW e \in Outcome, NEW f \in Outcome,
               tried[c] = <<Made(first[c], e), Made(second[c], f)>>
        PROVE  /\ Len(tried[c]) = 2 /\ tried[c][1].target = first[c]
               /\ tried[c][1].outcome = e /\ tried[c][2].target = second[c]
    BY <1>5 DEF Made
  <1>6. QED
    BY <1>1, <1>2, <1>3, <1>4, <1>5

(* At most two attempts, on two nodes of the captured snapshot (run): no   *)
(* retry chain and no node that was not kept open for the call, whatever   *)
(* refreshes publish meanwhile.                                            *)
THEOREM BoundedAttempts == Spec => []AttemptsBounded
  <1>1. IInv => AttemptsBounded
    <2> SUFFICES ASSUME IInv, NEW c \in Calls
                 PROVE  /\ Len(tried[c]) <= 2
                        /\ \A i \in DOMAIN tried[c] :
                              tried[c][i].target \in TargetsOf(snap[c])
                        /\ \A i, j \in DOMAIN tried[c] :
                              i # j => tried[c][i].target # tried[c][j].target
      BY DEF AttemptsBounded
    <2>1. /\ DOMAIN tried[c] = 1..Len(tried[c]) /\ Len(tried[c]) \in 0..2
          /\ Len(tried[c]) > 0 => /\ tried[c][1].target = first[c]
                                 /\ first[c] \in TargetsOf(snap[c])
          /\ Len(tried[c]) = 2 => /\ tried[c][2].target = second[c]
                                 /\ second[c] \in TargetsOf(snap[c])
                                 /\ first[c] # second[c]
      BY Shape DEF Begun, MayGoOn
    <2>2. \A i \in DOMAIN tried[c] : \/ i = 1 /\ Len(tried[c]) > 0
                                     \/ i = 2 /\ Len(tried[c]) = 2
      BY <2>1, UpToTwo
    <2>3. Len(tried[c]) <= 2
      BY <2>1, UpToTwo
    <2>4. \A i \in DOMAIN tried[c] : tried[c][i].target \in TargetsOf(snap[c])
      BY <2>1, <2>2
    <2>5. ASSUME NEW i \in DOMAIN tried[c], NEW j \in DOMAIN tried[c], i # j
          PROVE  tried[c][i].target # tried[c][j].target
      BY <2>1, <2>2, <2>5
    <2>6. QED
      BY <2>3, <2>4, <2>5
  <1>2. QED
    BY <1>1, Invariance, PTL

(* What was acknowledged in part is not sent again (run's hasPartial).     *)
THEOREM ProgressNotReplayed == Spec => []NoReplayAfterProgress
  <1>1. IInv => NoReplayAfterProgress
    <2> SUFFICES ASSUME IInv, NEW c \in Calls, NEW i \in DOMAIN tried[c],
                        tried[c][i].outcome.partial
                 PROVE  i = Len(tried[c])
      BY DEF NoReplayAfterProgress
    <2>1. /\ DOMAIN tried[c] = 1..Len(tried[c]) /\ Len(tried[c]) \in 0..2
          /\ Len(tried[c]) = 2 => ~tried[c][1].outcome.partial
      BY Shape DEF MayGoOn
    <2>2. (i = 1 /\ Len(tried[c]) > 0) \/ (i = 2 /\ Len(tried[c]) = 2)
      BY <2>1, UpToTwo
    <2>3. ~(i = 1 /\ Len(tried[c]) = 2)
      BY <2>1
    <2>4. QED
      BY <2>1, <2>2, <2>3, SMTT(30)
  <1>2. QED
    BY <1>1, Invariance, PTL

(* The first attempt of a plain write is on the master of the shard, and   *)
(* a second attempt has a reason: a redirect that names the node, or an    *)
(* unavailable node, a mode that falls back and a node of the same shard   *)
(* (run, resolveMode).                                                     *)
THEOREM JustifiedAttempts == Spec => []AttemptsJustified
  <1>1. IInv => AttemptsJustified
    <2> SUFFICES ASSUME IInv, NEW c \in Calls
                 PROVE  /\ tried[c] # <<>> /\ req[c].write /\ req[c].mode = Absent =>
                              Master(snap[c], shard[c]) \subseteq {tried[c][1].target}
                        /\ Len(tried[c]) = 2 =>
                              LET e == tried[c][1].outcome
                                  t == tried[c][2].target
                              IN  \/ e.code = "FailedPrecondition" /\ e.route = t
                                  \/ /\ e.code = "Unavailable" /\ asked[c]
                                     /\ req[c].mode \notin {"Master", "Backup"}
                                     /\ t \in Master(snap[c], shard[c])
                                             \cup Backup(snap[c], shard[c])
      BY DEF AttemptsJustified
    <2>1. tried[c] # <<>> => MasterFirst(c) /\ tried[c][1].target = first[c]
      BY Shape DEF Begun
    <2>2. Len(tried[c]) = 2 =>
             Reason(c, tried[c][1].outcome) /\ tried[c][2].target = second[c]
      BY Shape DEF MayGoOn
    <2>3. QED
      BY <2>1, <2>2 DEF MasterFirst, Reason, Served
  <1>2. QED
    BY <1>1, Invariance, PTL
=============================================================================

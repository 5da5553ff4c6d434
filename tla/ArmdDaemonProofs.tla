------------------------ MODULE ArmdDaemonProofs ------------------------
(* Proofs about ArmdDaemon for any number of modules, any levels, timers    *)
(* and sizes of the rings.  The daemon's steps are steps of ModuleLifecycle, *)
(* whose invariants say which modules run when a callback posts.             *)
EXTENDS ArmdDaemon, ModuleLifecycleProofs

Msgs == [hops : 0..MaxHops, tick : 0..MaxTicks]
Heartbeat(q) == Heartbeats(q) # {}

MailType == /\ box \in [Modules -> Seq(Msgs)]
            /\ \A m \in Modules : Len(box[m]) < QueueSize
            /\ pending \in [Modules -> BOOLEAN]

LoopType == /\ phase \in {"timers", "poll", "scan", "drain", "callback", "closing"}
            /\ todo \subseteq Handles
            /\ cur \in {None} \cup Modules
            /\ fired \subseteq HasTimer
            /\ hand \in Msgs
            /\ tick \in [Modules -> 0..MaxTicks]
            /\ heard \in [Modules -> SUBSET (1..MaxTicks)]
            /\ dropped \in [Modules -> SUBSET (1..MaxTicks)]

(* async_callback runs in uv_run with every module running. *)
DrainInv == IF phase \in {"drain", "callback"}
              THEN pc = "run" /\ shutdown = "active" /\ cur \in Modules
              ELSE cur = None

(* A message in a ring has a wake-up: its module is pending or being drained. *)
WakeInv == \A m \in Modules :
  async[m] = "active" /\ box[m] # <<>> => pending[m] \/ cur = m

(* A heartbeat stays in its ring from the timers' pass to the next walk of    *)
(* uv__async_io at most.                                                      *)
HeartInv == \A m \in Modules : async[m] = "active" /\ Heartbeat(box[m]) =>
              /\ phase = "timers" => m \in fired
              /\ phase \in {"scan", "drain", "callback"} => m \in todo \/ m = cur
              /\ phase # "closing"

(* Every heartbeat sent was given to on_message, was refused, or waits. *)
CountInv == \A m \in Modules : async[m] = "active" =>
              heard[m] \cup dropped[m] \cup Heartbeats(box[m]) = 1..tick[m]

DaemonInv == /\ MailType /\ LoopType
             /\ DrainInv /\ WakeInv /\ HeartInv /\ CountInv
             /\ stray = FALSE

-----------------------------------------------------------------------------
LEMMA DaemonStep == [DaemonNext]_daemonVars => [Next]_vars
<1> USE DEF Next, MainStep, vars
<1>1. CASE Setup BY <1>1 DEF Setup
<1>2. CASE LoopStep
  BY <1>2 DEF LoopStep, TimersDone, LoopEnds, PollEvent, PollTimeout, ScanShutdown, ScanEnd,
     DrainTake, OnMessage, DrainEnd, CloseHandles, TimerCallback, ScanModule, ScanSkips
<1>3. CASE \E m \in Modules : Start(m) \/ Stop(m) BY <1>3 DEF Start, Stop
<1>4. CASE SignalArrives BY <1>4 DEF SignalArrives
<1>5. CASE UNCHANGED daemonVars BY <1>5 DEF daemonVars
<1> QED BY <1>1, <1>2, <1>3, <1>4, <1>5 DEF DaemonNext, ThreadStep, Exited

(* The daemon with its mail and its loop implements ModuleLifecycle: what     *)
(* messages and timers do between start and stop is invisible to main, and    *)
(* all that is proved of module.c's start and stop holds of the daemon.       *)
THEOREM DaemonIsLifecycle == DaemonSpec => Spec
<1>1. DaemonInit => Init BY DEF DaemonInit
<1> QED BY <1>1, DaemonStep, PTL DEF DaemonSpec, Spec

-----------------------------------------------------------------------------
(* What the posts of one callback leave behind, b being the rings before     *)
(* them: none is stray, and a ring that gets a message gets a wake-up.       *)
Posted(b) == /\ stray' = stray
             /\ MailType'
             /\ \A n \in Modules : /\ box'[n] # <<>> => b[n] # <<>> \/ pending'[n]
                                   /\ pending[n] => pending'[n]

LEMMA PostToActive ==
  ASSUME MailType,
         NEW b \in [Modules -> Seq(Msgs)], \A n \in Modules : Len(b[n]) < QueueSize,
         NEW m \in Modules, async[m] = "active", NEW msg \in Msgs, PostTo(b, m, msg)
  PROVE  /\ Posted(b)
         /\ \A n \in Modules : n # m => box'[n] = b[n]
         /\ box'[m] = b[m] \/ box'[m] = Append(b[m], msg)
<1> USE DaemonAssumption DEF MailType
<1>1. CASE Full(b, m)
  <2>1. UNCHANGED <<pending, stray>> /\ box' = b BY <1>1 DEF PostTo
  <2> QED BY <2>1 DEF Posted
<1>2. CASE ~Full(b, m)
  <2>1. /\ box' = [b EXCEPT ![m] = Append(@, msg)]
        /\ pending' = [pending EXCEPT ![m] = TRUE]
        /\ stray' = stray
    BY <1>2 DEF PostTo, Put
  <2>2. /\ Append(b[m], msg) \in Seq(Msgs)
        /\ Len(Append(b[m], msg)) = Len(b[m]) + 1
        /\ Len(b[m]) \in Nat /\ Len(b[m]) # QueueSize - 1
    BY <1>2, AppendProperties DEF Full
  <2>3. MailType' BY <2>1, <2>2
  <2> QED BY <2>1, <2>3 DEF Posted
<1> QED BY <1>1, <1>2

(* The heartbeats of a ring after an append and before a take. *)
LEMMA HeartbeatsAppend ==
  ASSUME NEW q \in Seq(Msgs), NEW msg \in Msgs
  PROVE  Heartbeats(Append(q, msg)) = Heartbeats(q) \cup ({msg.tick} \ {0})
<1>1. /\ Len(q) \in Nat /\ Append(q, msg) \in Seq(Msgs)
      /\ Len(Append(q, msg)) = Len(q) + 1
      /\ \A i \in 1..Len(q) : Append(q, msg)[i] = q[i]
      /\ Append(q, msg)[Len(q) + 1] = msg
  BY AppendProperties
<1>2. DOMAIN Append(q, msg) = 1..(Len(q) + 1) /\ DOMAIN q = 1..Len(q) BY <1>1
<1>3. 1..(Len(q) + 1) = (1..Len(q)) \cup {Len(q) + 1} BY <1>1
<1>4. {Append(q, msg)[i].tick : i \in DOMAIN Append(q, msg)} =
        {q[i].tick : i \in DOMAIN q} \cup {msg.tick}
  BY <1>1, <1>2, <1>3
<1> QED BY <1>4 DEF Heartbeats

LEMMA HeartbeatsTail ==
  ASSUME NEW q \in Seq(Msgs), q # <<>>
  PROVE  Heartbeats(<<Head(q)>>) \cup Heartbeats(Tail(q)) = Heartbeats(q)
<1> DEFINE h == <<Head(q)>>
<1>1. /\ Len(q) \in Nat /\ Len(q) # 0 /\ Head(q) = q[1]
      /\ Tail(q) \in Seq(Msgs) /\ Len(Tail(q)) = Len(q) - 1
      /\ \A i \in 1..Len(Tail(q)) : Tail(q)[i] = q[i + 1]
  BY HeadTailProperties, EmptySeq
<1>2. DOMAIN Tail(q) = 1..(Len(q) - 1) /\ DOMAIN q = 1..Len(q) BY <1>1
<1>3. DOMAIN h = {1} /\ h[1] = q[1] BY <1>1
<1> HIDE DEF h
<1>4. ASSUME NEW t PROVE t \in {q[i].tick : i \in DOMAIN q} <=>
                         \/ t \in {h[i].tick : i \in DOMAIN h}
                         \/ t \in {Tail(q)[i].tick : i \in DOMAIN Tail(q)}
  <2>1. ASSUME NEW i \in 1..Len(q)
        PROVE  \/ q[i].tick \in {h[k].tick : k \in DOMAIN h}
               \/ q[i].tick \in {Tail(q)[k].tick : k \in DOMAIN Tail(q)}
    <3>1. CASE i = 1 BY <1>3, <3>1
    <3>2. CASE i # 1
      <4>1. i - 1 \in 1..(Len(q) - 1) /\ (i - 1) + 1 = i BY <1>1, <3>2
      <4>2. Tail(q)[i - 1] = q[i] BY <1>1, <4>1
      <4> QED BY <1>2, <4>1, <4>2
    <3> QED BY <3>1, <3>2
  <2>2. ASSUME NEW k \in 1..(Len(q) - 1)
        PROVE  Tail(q)[k].tick \in {q[i].tick : i \in DOMAIN q}
    <3>1. k + 1 \in 1..Len(q) /\ Tail(q)[k] = q[k + 1] BY <1>1
    <3> QED BY <1>2, <3>1
  <2>3. h[1].tick \in {q[i].tick : i \in DOMAIN q} BY <1>1, <1>2, <1>3
  <2> QED BY <1>2, <1>3, <2>1, <2>2, <2>3
<1>5. Heartbeats(h) \cup Heartbeats(Tail(q)) = Heartbeats(q) BY <1>4 DEF Heartbeats
<1> QED BY <1>5 DEF h

(* An appended answer is no heartbeat. *)
LEMMA AnswerIsNoHeartbeat ==
  ASSUME NEW q \in Seq(Msgs), NEW h \in 0..MaxHops
  PROVE  Heartbeats(Append(q, Message(h, 0))) = Heartbeats(q)
<1>1. Message(h, 0) \in Msgs /\ Message(h, 0).tick = 0
  BY DaemonAssumption DEF Msgs, Message
<1> QED BY <1>1, HeartbeatsAppend

LEMMA PostsToActive ==
  ASSUME MailType,
         NEW b \in [Modules -> Seq(Msgs)], \A n \in Modules : Len(b[n]) < QueueSize,
         NEW targets \in SUBSET Modules, \A n \in targets : async[n] = "active",
         NEW h \in 0..MaxHops, PostsOneOf(b, targets, h)
  PROVE  /\ Posted(b)
         /\ \A n \in Modules : Heartbeats(box'[n]) = Heartbeats(b[n])
<1>1. CASE NoPost(b) BY <1>1 DEF NoPost, Posted, MailType
<1>2. ASSUME NEW m \in targets, PostTo(b, m, Message(h, 0))
      PROVE  /\ Posted(b)
             /\ \A n \in Modules : Heartbeats(box'[n]) = Heartbeats(b[n])
  <2>1. Message(h, 0) \in Msgs BY DaemonAssumption DEF Message, Msgs
  <2>2. m \in Modules /\ async[m] = "active" OBVIOUS
  <2>3. /\ Posted(b)
        /\ \A n \in Modules : n # m => box'[n] = b[n]
        /\ box'[m] = b[m] \/ box'[m] = Append(b[m], Message(h, 0))
    BY <1>2, <2>1, <2>2, PostToActive
  <2> QED BY <2>2, <2>3, AnswerIsNoHeartbeat
<1> QED BY <1>1, <1>2 DEF PostsOneOf

-----------------------------------------------------------------------------
(* on_start finds the modules of the levels below running. *)
LEMMA BelowRunsAtStart ==
  ASSUME IInv, NEW m \in Modules, StartModule(m)
  PROVE  \A n \in Below(m) : async[n] = "active"
<1> USE DEF IInv, RegisterInv, TypeOK
<1>1. /\ pc = "start" /\ level \in Levels
      /\ pos \in 1..Len(list[level]) /\ list[level][pos] = m
  BY DEF StartModule, StartLevels, Levels, MaxLevel
<1>2. lvl[m] = level BY <1>1 DEF Placed
<1>3. ASSUME NEW n \in Below(m) PROVE async[n] = "active"
  <2>1. n \in Modules /\ lvl[n] \in Levels /\ lvl[n] < level BY <1>2 DEF Below
  <2>2. PICK i \in 1..Len(list[lvl[n]]) : list[lvl[n]][i] = n
    BY <1>1, <2>1 DEF StartInv, Listed
  <2>3. StartInv BY DEF IInv
  <2> QED BY <1>1, <2>1, <2>2, <2>3 DEF StartInv, Levels
<1> QED BY <1>3

(* on_stop as well: its own module is active, because its handle is open. *)
LEMMA BelowRunsAtStop ==
  ASSUME IInv, HandleInv, NEW m \in Modules, StopModule(m)
  PROVE  \A n \in Below(m) : async[n] = "active"
<1>1. async[m] = "active" BY DEF StopModule, Open, HandleInv
<1> QED BY <1>1 DEF IInv, LevelsNest, Below

(* In uv_run, one open handle shows that every module runs. *)
LEMMA AllRunInLoop ==
  ASSUME HandleInv, pc = "run",
         \/ shutdown = "active"
         \/ \E m \in Modules : async[m] = "active" \/ timer[m] = "active"
  PROVE  Serving
<1>1. ASSUME Closing PROVE FALSE BY <1>1 DEF Closing, Paired
<1> QED BY <1>1 DEF HandleInv

-----------------------------------------------------------------------------
LEMMA DaemonInvInit == DaemonInit => DaemonInv
<1> SUFFICES ASSUME DaemonInit PROVE DaemonInv OBVIOUS
<1> USE DaemonAssumption DEF DaemonInit
<1>1. NoMsg \in Msgs BY DEF NoMsg, Msgs
<1>2. MailType
  <2>1. \A m \in Modules : box[m] = <<>> OBVIOUS
  <2>2. box \in [Modules -> Seq(Msgs)] OBVIOUS
  <2> QED BY <2>1, <2>2 DEF MailType
<1>3. LoopType BY <1>1 DEF LoopType
<1>4. HeartInv BY DEF HeartInv, Heartbeat, Heartbeats
<1>5. \A m \in Modules : async[m] # "active" BY DEF Init
<1> QED BY <1>2, <1>3, <1>4, <1>5 DEF DaemonInv, DrainInv, WakeInv, CountInv

(* Steps of main that neither start nor stop a module. *)
LEMMA SetupKeeps ==
  ASSUME IInv, HandleInv, DaemonInv, Setup \/ SignalArrives \/ UNCHANGED daemonVars
  PROVE  DaemonInv'
<1>1. UNCHANGED <<mail, uv, monitor, stray>>
  BY DEF Setup, SignalArrives, daemonVars
<1>2. MailType' /\ LoopType' /\ stray' = FALSE
  BY <1>1 DEF DaemonInv, MailType, LoopType, mail, uv, monitor
<1>3. phase \in {"drain", "callback"} => pc = "run" /\ shutdown = "active"
  BY DEF DaemonInv, DrainInv
<1>4. /\ \A m \in Modules : async'[m] = async[m]
      /\ pc = "run" => pc' = "run" /\ shutdown' = shutdown
  BY DEF Setup, SignalArrives, daemonVars, vars, handles, regs, Regcall, RegcallsDone,
     StartNextLevel, StartDone, StopNextLevel, StopDone, Signal
<1>5. DrainInv' /\ WakeInv' /\ HeartInv' /\ CountInv'
  BY <1>1, <1>3, <1>4
  DEF DaemonInv, DrainInv, WakeInv, HeartInv, CountInv, Heartbeat, mail, uv, monitor
<1> QED BY <1>2, <1>5 DEF DaemonInv

LEMMA StartKeeps ==
  ASSUME IInv, HandleInv, DaemonInv, NEW m \in Modules, Start(m)
  PROVE  DaemonInv'
<1> DEFINE b == [box EXCEPT ![m] = <<>>]
<1> USE DaemonAssumption
<1>1. /\ MailType /\ LoopType /\ DrainInv /\ WakeInv /\ HeartInv /\ CountInv /\ stray = FALSE
      /\ box \in [Modules -> Seq(Msgs)] /\ \A n \in Modules : Len(box[n]) < QueueSize
  BY DEF DaemonInv, MailType
<1>2. /\ StartModule(m) /\ PostsOneOf(b, Below(m), MaxHops)
      /\ tick' = [tick EXCEPT ![m] = 0] /\ UNCHANGED uv
      /\ heard' = [heard EXCEPT ![m] = {}] /\ dropped' = [dropped EXCEPT ![m] = {}]
      /\ pc = "start" /\ pc' = pc
      /\ async' = [async EXCEPT ![m] = "active"]
  BY DEF Start, StartModule, StartLevels
<1>3. b \in [Modules -> Seq(Msgs)] /\ \A n \in Modules : Len(b[n]) < QueueSize
  BY <1>1
<1>4. Below(m) \in SUBSET Modules /\ MaxHops \in 0..MaxHops
      /\ \A n \in Below(m) : async[n] = "active"
  BY <1>2, BelowRunsAtStart DEF Below
<1>5. /\ \A n \in Modules : b[n] = IF n = m THEN <<>> ELSE box[n]
      /\ Heartbeats(<<>>) = {}
      /\ async \in [Modules -> HandleStates]
  BY <1>1 DEF Heartbeats, IInv, TypeOK
<1> HIDE DEF b
<1>6. Posted(b) /\ \A n \in Modules : Heartbeats(box'[n]) = Heartbeats(b[n])
  BY <1>1, <1>2, <1>3, <1>4, PostsToActive
<1>7. MailType' /\ stray' = FALSE BY <1>1, <1>6 DEF Posted
<1>8. LoopType' BY <1>1, <1>2 DEF LoopType, uv
<1>9. DrainInv' BY <1>1, <1>2 DEF DrainInv, uv
<1>10. WakeInv' BY <1>1, <1>2, <1>5, <1>6 DEF WakeInv, Posted, uv
<1>11. HeartInv'
  <2>1. ASSUME NEW n \in Modules, async'[n] = "active", Heartbeat(box'[n])
        PROVE  async[n] = "active" /\ Heartbeat(box[n])
    BY <1>2, <1>5, <1>6, <2>1 DEF Heartbeat
  <2>2. UNCHANGED <<phase, fired, todo, cur>> BY <1>2 DEF uv
  <2> QED BY <1>1, <2>1, <2>2 DEF HeartInv
<1>12. CountInv' BY <1>1, <1>2, <1>5, <1>6 DEF CountInv, LoopType
<1> QED BY <1>7, <1>8, <1>9, <1>10, <1>11, <1>12 DEF DaemonInv

LEMMA StopKeeps ==
  ASSUME IInv, HandleInv, DaemonInv, NEW m \in Modules, Stop(m)
  PROVE  DaemonInv'
<1> USE DaemonAssumption
<1>1. /\ MailType /\ LoopType /\ DrainInv /\ WakeInv /\ HeartInv /\ CountInv /\ stray = FALSE
      /\ box \in [Modules -> Seq(Msgs)] /\ \A n \in Modules : Len(box[n]) < QueueSize
  BY DEF DaemonInv, MailType
<1>2. /\ StopModule(m) /\ PostsOneOf(box, Below(m), MaxHops)
      /\ todo' = todo \ {m} /\ UNCHANGED <<phase, cur, fired, hand, monitor>>
      /\ pc = "stop" /\ pc' = pc
      /\ async' = [async EXCEPT ![m] = "closing"]
      /\ async \in [Modules -> HandleStates]
  BY DEF Stop, StopModule, StopLevels, Delist, IInv, TypeOK
<1>3. Below(m) \in SUBSET Modules /\ MaxHops \in 0..MaxHops
      /\ \A n \in Below(m) : async[n] = "active"
  BY <1>2, BelowRunsAtStop DEF Below
<1>4. Posted(box) /\ \A n \in Modules : Heartbeats(box'[n]) = Heartbeats(box[n])
  BY <1>1, <1>2, <1>3, PostsToActive
<1>5. MailType' /\ stray' = FALSE BY <1>1, <1>4 DEF Posted
<1>6. LoopType' BY <1>1, <1>2 DEF LoopType, monitor
<1>7. DrainInv' BY <1>1, <1>2 DEF DrainInv
<1>8. WakeInv' BY <1>1, <1>2, <1>4 DEF WakeInv, Posted
<1>9. HeartInv' BY <1>1, <1>2, <1>4 DEF HeartInv, Heartbeat
<1>10. CountInv' BY <1>1, <1>2, <1>4 DEF CountInv, monitor
<1> QED BY <1>5, <1>6, <1>7, <1>8, <1>9, <1>10 DEF DaemonInv

-----------------------------------------------------------------------------
LEMMA TimerCallbackKeeps ==
  ASSUME IInv, HandleInv, DaemonInv, NEW m \in Modules, TimerCallback(m)
  PROVE  DaemonInv'
<1> USE DaemonAssumption
<1>1. /\ MailType /\ LoopType /\ DrainInv /\ WakeInv /\ HeartInv /\ CountInv /\ stray = FALSE
      /\ box \in [Modules -> Seq(Msgs)] /\ \A n \in Modules : Len(box[n]) < QueueSize
      /\ tick \in [Modules -> 0..MaxTicks]
  BY DEF DaemonInv, MailType, LoopType
<1>2. /\ pc = "run" /\ phase = "timers" /\ timer[m] = "active" /\ tick[m] < MaxTicks
      /\ fired' = fired \cup {m}
      /\ tick' = [tick EXCEPT ![m] = @ + 1]
      /\ PostTo(box, m, Message(MaxHops, tick[m] + 1))
      /\ dropped' = IF Full(box, m) THEN [dropped EXCEPT ![m] = @ \cup {tick[m] + 1}] ELSE dropped
      /\ UNCHANGED <<pc, shutdown, async, phase, todo, cur, hand, heard>>
  BY DEF TimerCallback, InLoop, vars, handles
<1>3. m \in HasTimer /\ async[m] = "active"
  BY <1>2, AllRunInLoop DEF HandleInv, Serving
<1>4. tick[m] + 1 \in 0..MaxTicks BY <1>1, <1>2
<1>5. Message(MaxHops, tick[m] + 1) \in Msgs BY <1>4 DEF Message, Msgs
<1>6. Posted(box) /\ \A n \in Modules : n # m => box'[n] = box[n]
  BY <1>1, <1>2, <1>3, <1>5, PostToActive
<1>7. MailType' /\ stray' = FALSE BY <1>1, <1>6 DEF Posted
<1>8. LoopType'
  <2>1. tick[m] + 1 \in 1..MaxTicks BY <1>1, <1>2
  <2> QED BY <1>1, <1>2, <1>3, <1>4, <2>1 DEF LoopType
<1>9. DrainInv' BY <1>1, <1>2 DEF DrainInv
<1>10. WakeInv' BY <1>1, <1>2, <1>6 DEF WakeInv, Posted
<1>11. HeartInv' BY <1>1, <1>2, <1>6 DEF HeartInv
<1>12. CountInv'
  <2>1. 1..(tick[m] + 1) = (1..tick[m]) \cup {tick[m] + 1} BY <1>1
  <2>2. CASE Full(box, m)
    <3>1. box' = box BY <1>2, <1>3, <2>2 DEF PostTo
    <3> QED BY <1>1, <1>2, <1>3, <2>1, <2>2, <3>1 DEF CountInv, LoopType
  <2>3. CASE ~Full(box, m)
    <3>1. box' = [box EXCEPT ![m] = Append(@, Message(MaxHops, tick[m] + 1))]
      BY <1>2, <1>3, <2>3 DEF PostTo, Put
    <3>2. Message(MaxHops, tick[m] + 1).tick = tick[m] + 1 /\ tick[m] + 1 # 0
      BY <1>1 DEF Message
    <3>3. Heartbeats(box'[m]) = Heartbeats(box[m]) \cup {tick[m] + 1}
      BY <1>1, <1>5, <3>1, <3>2, HeartbeatsAppend
    <3>4. \A n \in Modules : n # m => box'[n] = box[n] BY <3>1
    <3> QED BY <1>1, <1>2, <1>3, <2>1, <2>3, <3>3, <3>4 DEF CountInv, LoopType
  <2> QED BY <2>2, <2>3
<1> QED BY <1>7, <1>8, <1>9, <1>10, <1>11, <1>12 DEF DaemonInv

LEMMA OnMessageKeeps ==
  ASSUME IInv, HandleInv, DaemonInv, OnMessage
  PROVE  DaemonInv'
<1> USE DaemonAssumption
<1>1. /\ MailType /\ LoopType /\ DrainInv /\ WakeInv /\ HeartInv /\ CountInv /\ stray = FALSE
      /\ box \in [Modules -> Seq(Msgs)] /\ \A n \in Modules : Len(box[n]) < QueueSize
  BY DEF DaemonInv, MailType
<1>2. /\ pc = "run" /\ phase = "callback" /\ phase' = "drain" /\ hand' = NoMsg
      /\ UNCHANGED <<pc, shutdown, async, todo, cur, fired, monitor>>
  BY DEF OnMessage, InLoop, vars, handles
<1>3. Modules \in SUBSET Modules /\ \A n \in Modules : async[n] = "active"
  BY <1>1, <1>2, AllRunInLoop DEF DrainInv, Serving
<1>4. Posted(box) /\ \A n \in Modules : Heartbeats(box'[n]) = Heartbeats(box[n])
  <2>1. CASE hand.hops = 0
    BY <1>1, <2>1 DEF OnMessage, NoPost, Posted, MailType
  <2>2. CASE hand.hops # 0
    <3>1. hand.hops - 1 \in 0..MaxHops BY <1>1, <2>2 DEF LoopType, Msgs
    <3>2. PostsOneOf(box, Modules, hand.hops - 1) BY <2>2 DEF OnMessage
    <3> QED BY <1>1, <1>3, <3>1, <3>2, PostsToActive
  <2> QED BY <2>1, <2>2
<1>5. MailType' /\ stray' = FALSE BY <1>1, <1>4 DEF Posted
<1>6. LoopType'
  <2>1. NoMsg \in Msgs BY DEF NoMsg, Msgs
  <2> QED BY <1>1, <1>2, <2>1 DEF LoopType, monitor
<1>7. DrainInv' BY <1>1, <1>2 DEF DrainInv
<1>8. WakeInv' BY <1>1, <1>2, <1>4 DEF WakeInv, Posted
<1>9. HeartInv' BY <1>1, <1>2, <1>4 DEF HeartInv, Heartbeat
<1>10. CountInv' BY <1>1, <1>2, <1>4 DEF CountInv, monitor
<1> QED BY <1>5, <1>6, <1>7, <1>8, <1>9, <1>10 DEF DaemonInv

LEMMA DrainTakeKeeps ==
  ASSUME IInv, HandleInv, DaemonInv, DrainTake
  PROVE  DaemonInv'
<1>1. /\ MailType /\ LoopType /\ DrainInv /\ WakeInv /\ HeartInv /\ CountInv /\ stray = FALSE
      /\ box \in [Modules -> Seq(Msgs)]
  BY DEF DaemonInv, MailType
<1>2. /\ pc = "run" /\ phase = "drain" /\ phase' = "callback" /\ box[cur] # <<>>
      /\ hand' = Head(box[cur]) /\ box' = [box EXCEPT ![cur] = Tail(@)]
      /\ heard' = [heard EXCEPT ![cur] = @ \cup Heartbeats(<<Head(box[cur])>>)]
      /\ UNCHANGED <<pc, shutdown, async, pending, todo, cur, fired, tick, dropped, stray>>
  BY DEF DrainTake, InLoop, vars, handles
<1>3. cur \in Modules BY <1>1, <1>2 DEF DrainInv
<1>4. /\ Head(box[cur]) \in Msgs /\ Tail(box[cur]) \in Seq(Msgs)
      /\ Len(box[cur]) \in Nat /\ Len(Tail(box[cur])) = Len(box[cur]) - 1
  BY <1>1, <1>2, <1>3, HeadTailProperties
<1>5. MailType'
  <2>1. Len(Tail(box[cur])) < QueueSize
    BY <1>1, <1>3, <1>4, DaemonAssumption DEF MailType
  <2> QED BY <1>1, <1>2, <1>3, <1>4, <2>1 DEF MailType
<1>11. Heartbeats(<<Head(box[cur])>>) \subseteq 1..MaxTicks
  <2> DEFINE h == Head(box[cur])
  <2>1. h.tick \in 0..MaxTicks BY <1>4 DEF Msgs
  <2>2. Heartbeats(<<h>>) = {h.tick} \ {0} BY DEF Heartbeats
  <2> QED BY <2>1, <2>2, DaemonAssumption
<1>6. LoopType' BY <1>1, <1>2, <1>3, <1>4, <1>11 DEF LoopType
<1>7. DrainInv' BY <1>1, <1>2 DEF DrainInv
<1>8. WakeInv' BY <1>1, <1>2 DEF WakeInv
<1>9. HeartInv'
  <2>1. \A n \in Modules : n # cur => box'[n] = box[n] BY <1>1, <1>2
  <2> QED BY <1>1, <1>2, <2>1 DEF HeartInv
<1>10. CountInv'
  <2>1. Heartbeats(<<Head(box[cur])>>) \cup Heartbeats(Tail(box[cur])) = Heartbeats(box[cur])
    BY <1>1, <1>2, <1>3, HeartbeatsTail
  <2> HIDE DEF Msgs
  <2> QED BY <1>1, <1>2, <1>3, <2>1 DEF CountInv, LoopType
<1> QED BY <1>1, <1>2, <1>5, <1>6, <1>7, <1>8, <1>9, <1>10 DEF DaemonInv

(* uv_run's other steps only look at the rings. *)
LEMMA LoopKeeps ==
  ASSUME IInv, HandleInv, DaemonInv,
         \/ TimersDone \/ LoopEnds \/ PollEvent \/ PollTimeout \/ ScanShutdown \/ ScanEnd
         \/ DrainEnd \/ CloseHandles
         \/ \E m \in Modules : ScanModule(m)
         \/ \E h \in Handles : ScanSkips(h)
  PROVE  DaemonInv'
<1>1. /\ MailType /\ LoopType /\ DrainInv /\ WakeInv /\ HeartInv /\ CountInv /\ stray = FALSE
      /\ pending \in [Modules -> BOOLEAN]
  BY DEF DaemonInv, MailType
<1>2. \A m \in Modules : m # None BY DEF None, Modules
<1>3. CASE TimersDone
  <2>1. /\ phase = "timers" /\ phase' = "poll" /\ fired' = {}
        /\ UNCHANGED <<pc, shutdown, async>>
        /\ UNCHANGED <<box, pending, todo, cur, hand, monitor, stray>>
    BY <1>3 DEF TimersDone, InLoop, vars, handles, mail
  <2> QED BY <1>1, <2>1 DEF DaemonInv, MailType, LoopType, DrainInv, WakeInv, HeartInv,
             CountInv, monitor
<1>4. CASE LoopEnds
  <2>1. /\ phase = "timers"
        /\ UNCHANGED <<async, box, pending, phase, todo, cur, fired, hand, monitor, stray>>
    BY <1>4 DEF LoopEnds, InLoop, RunEnds, handles, mail, uv
  <2> QED BY <1>1, <2>1 DEF DaemonInv, MailType, LoopType, DrainInv, WakeInv, HeartInv,
             CountInv, monitor
<1>5. CASE PollEvent
  <2>1. /\ phase = "poll" /\ phase' = "scan" /\ UNCHANGED <<pc, shutdown, async>>
        /\ UNCHANGED <<box, pending, cur, fired, hand, monitor, stray>>
        /\ todo' \subseteq Handles
        /\ \A m \in Modules : async[m] = "active" => m \in todo'
    BY <1>2, <1>5 DEF PollEvent, InLoop, vars, handles, mail, Handles, Shutdown, None
  <2> QED BY <1>1, <2>1 DEF DaemonInv, MailType, LoopType, DrainInv, WakeInv, HeartInv,
             CountInv, monitor
<1>6. CASE PollTimeout
  <2>1. /\ phase = "poll" /\ phase' = "closing" /\ UNCHANGED <<pc, shutdown, async>>
        /\ UNCHANGED <<box, pending, todo, cur, fired, hand, monitor, stray>>
        /\ \A m \in Modules : ~(pending[m] /\ async[m] = "active")
    BY <1>2, <1>6 DEF PollTimeout, InLoop, vars, handles, mail, Handles, Wanted, Shutdown, None
  <2>2. \A m \in Modules : ~(async[m] = "active" /\ Heartbeat(box[m]))
    BY <1>1, <1>2, <2>1 DEF WakeInv, DrainInv, Heartbeat, Heartbeats
  <2> QED BY <1>1, <2>1, <2>2 DEF DaemonInv, MailType, LoopType, DrainInv, WakeInv, HeartInv,
             CountInv, monitor
<1>7. CASE ScanShutdown
  <2>1. /\ phase = "scan" /\ todo' = todo \ {Shutdown} /\ UNCHANGED <<shutdown, async>>
        /\ UNCHANGED <<box, pending, phase, cur, fired, hand, monitor, stray>>
    BY <1>7 DEF ScanShutdown, ScanNext, InLoop, ShutdownCallback, handles, mail
  <2> QED BY <1>1, <1>2, <2>1
      DEF DaemonInv, MailType, LoopType, DrainInv, WakeInv, HeartInv, CountInv,
          monitor, Shutdown, None
<1>8. CASE ScanEnd
  <2>1. /\ phase = "scan" /\ phase' = "closing" /\ todo = {}
        /\ UNCHANGED <<pc, shutdown, async>>
        /\ UNCHANGED <<box, pending, todo, cur, fired, hand, monitor, stray>>
    BY <1>8 DEF ScanEnd, InLoop, vars, handles, mail
  <2> QED BY <1>1, <1>2, <2>1 DEF DaemonInv, MailType, LoopType, DrainInv, WakeInv, HeartInv,
             CountInv, monitor
<1>9. CASE DrainEnd
  <2>1. /\ phase = "drain" /\ phase' = "scan" /\ cur' = None /\ box[cur] = <<>>
        /\ UNCHANGED <<pc, shutdown, async, box, pending, todo, fired, hand, monitor, stray>>
    BY <1>9 DEF DrainEnd, InLoop, vars, handles, mail
  <2>2. ~Heartbeat(box[cur]) BY <2>1 DEF Heartbeat, Heartbeats
  <2> QED BY <1>1, <2>1, <2>2 DEF DaemonInv, MailType, LoopType, DrainInv, WakeInv, HeartInv,
             CountInv, monitor
<1>10. CASE CloseHandles
  <2>1. /\ phase = "closing" /\ phase' = "timers"
        /\ UNCHANGED <<box, pending, todo, cur, fired, hand, monitor, stray>>
        /\ \A m \in Modules : async'[m] = "active" => async[m] = "active"
    BY <1>10 DEF CloseHandles, InLoop, ClosingPass, Finish, vars, handles, mail
  <2> QED BY <1>1, <2>1 DEF DaemonInv, MailType, LoopType, DrainInv, WakeInv, HeartInv,
             CountInv, monitor
<1>11. ASSUME NEW m \in Modules, ScanModule(m) PROVE DaemonInv'
  <2>1. /\ pc = "run" /\ phase = "scan" /\ phase' = "drain" /\ cur' = m
        /\ todo' = todo \ {m} /\ pending' = [pending EXCEPT ![m] = FALSE]
        /\ UNCHANGED <<pc, shutdown, async, box, fired, hand, monitor, stray>>
        /\ async[m] = "active"
    BY <1>2, <1>11 DEF ScanModule, ScanNext, InLoop, Wanted, Shutdown, None, vars, handles
  <2>2. shutdown = "active" BY <2>1, AllRunInLoop DEF Serving
  <2>3. MailType' /\ LoopType' /\ DrainInv'
    BY <1>1, <2>1, <2>2 DEF MailType, LoopType, DrainInv, monitor
  <2>8. CountInv' BY <1>1, <2>1 DEF CountInv, monitor
  <2>4. cur = None BY <1>1, <2>1 DEF DrainInv
  <2>5. WakeInv' BY <1>1, <1>2, <2>1, <2>4 DEF WakeInv
  <2>6. \A n \in Modules : async[n] = "active" /\ Heartbeat(box[n]) => n \in todo
    BY <1>1, <1>2, <2>1, <2>4 DEF HeartInv
  <2>7. HeartInv' BY <2>1, <2>6 DEF HeartInv
  <2> QED BY <1>1, <2>1, <2>3, <2>5, <2>7, <2>8 DEF DaemonInv
<1>12. ASSUME NEW h \in Handles, ScanSkips(h) PROVE DaemonInv'
  <2>1. /\ phase = "scan" /\ todo' = todo \ {h} /\ UNCHANGED <<pc, shutdown, async>>
        /\ UNCHANGED <<box, pending, phase, cur, fired, hand, monitor, stray>>
    BY <1>12 DEF ScanSkips, ScanNext, InLoop, vars, handles, mail
  <2>2. h \in Modules => ~(pending[h] /\ async[h] = "active")
    BY <1>2, <1>12 DEF ScanSkips, Wanted, Shutdown, None
  <2>3. h \in Modules => ~(async[h] = "active" /\ Heartbeat(box[h]))
    BY <1>1, <1>2, <2>1, <2>2 DEF WakeInv, DrainInv, Heartbeat, Heartbeats
  <2>4. MailType' /\ LoopType' /\ DrainInv' /\ WakeInv' /\ CountInv'
    BY <1>1, <2>1 DEF MailType, LoopType, DrainInv, WakeInv, CountInv, monitor
  <2>5. ASSUME NEW m \in Modules, async[m] = "active", Heartbeat(box[m])
        PROVE  phase = "scan" => m \in todo' \/ m = cur
    BY <1>1, <2>1, <2>3, <2>5 DEF HeartInv
  <2>6. HeartInv' BY <1>1, <2>1, <2>5 DEF HeartInv
  <2> QED BY <1>1, <2>1, <2>4, <2>6 DEF DaemonInv
<1> QED BY <1>3, <1>4, <1>5, <1>6, <1>7, <1>8, <1>9, <1>10, <1>11, <1>12

LEMMA DaemonInvariant == DaemonSpec => [](IInv /\ HandleInv /\ DaemonInv)
<1>1. IInv /\ HandleInv /\ DaemonInv /\ [DaemonNext]_daemonVars => DaemonInv'
  BY SetupKeeps, StartKeeps, StopKeeps, TimerCallbackKeeps, OnMessageKeeps, DrainTakeKeeps,
     LoopKeeps DEF DaemonNext, ThreadStep, LoopStep, Exited
<1> QED BY <1>1, DaemonInvInit, DaemonIsLifecycle, HandlesInvariant, PTL DEF DaemonSpec

-----------------------------------------------------------------------------
(* Every variable of the daemon keeps its type, and no ring ever holds more  *)
(* messages than it has slots but one.                                       *)
THEOREM DaemonType == DaemonSpec => []DaemonTypeOK
<1>1. IInv /\ DaemonInv => DaemonTypeOK
  BY DEF IInv, DaemonInv, MailType, LoopType, DaemonTypeOK, Msgs
<1> QED BY <1>1, DaemonInvariant, PTL

(* armd_module_post never meets a module without a live mutex and handle:    *)
(* whoever posts from a callback of the loop finds its target running.       *)
THEOREM NoPostGoesAstray == DaemonSpec => []NoStrayPost
<1>1. DaemonInv => NoStrayPost BY DEF DaemonInv, NoStrayPost
<1> QED BY <1>1, DaemonInvariant, PTL

(* Between two calls of a module's timer uv__async_io has drained its ring:  *)
(* on_message was given every heartbeat but those that a full ring refused.  *)
THEOREM HeartbeatsAreServed == DaemonSpec => HeartbeatsKeepUp
<1>1. ASSUME HandleInv, DaemonInv, NEW m \in Modules, TimerCallback(m)
      PROVE  heard[m] \cup dropped[m] = 1..tick[m] /\ Heartbeats(box[m]) = {}
  <2>1. phase = "timers" /\ m \notin fired /\ async[m] = "active"
    BY <1>1, AllRunInLoop DEF TimerCallback, InLoop, Serving
  <2>2. Heartbeats(box[m]) = {} BY <1>1, <2>1 DEF DaemonInv, HeartInv, Heartbeat
  <2> QED BY <1>1, <2>1, <2>2 DEF DaemonInv, CountInv
<1>2. HandleInv /\ DaemonInv =>
        \A m \in Modules : TimerCallback(m) => /\ heard[m] \cup dropped[m] = 1..tick[m]
                                               /\ Heartbeats(box[m]) = {}
  BY <1>1
<1> QED BY <1>2, DaemonInvariant, PTL DEF HeartbeatsKeepUp
=============================================================================

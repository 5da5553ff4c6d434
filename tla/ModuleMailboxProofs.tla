---------------------- MODULE ModuleMailboxProofs ----------------------
(* Proofs about ModuleMailbox for any number of modules, threads and posts  *)
(* and any ring size.                                                       *)
EXTENDS ModuleMailbox, FiniteSetTheorems, SequenceTheorems, TLAPS

-----------------------------------------------------------------------------
(* The inductive invariant, part by part. *)

BusyThreads(h) == {t \in Threads : dst[t] = h /\ pc[t] \in Busy}

(* A thread in armd_module_post is a poster of a started module; one in      *)
(* uv_async_send has an initialised handle.                                  *)
PostInv == \A t \in Threads :
             /\ pc[t] \in InPost => /\ t \in Posters
                                    /\ dst[t] \in 1..started
                                    /\ sent[t] \in 1..MaxPosts
             /\ pc[t] \in InSend => dst[t] \in 0..started

(* Where the loop thread is decides what cur and todo are. *)
LoopInv == /\ phase \in DrainPhases => cur \in open \ {Shutdown}
           /\ phase = "onstop" => cur \in open \ {Shutdown}
           /\ phase = "spin" => cur \in open
           /\ phase = "destroy" => cur \in (1..started) \ open
           /\ phase \in {"start", "poll", "timers", "done"} => todo = {}
           /\ pc[Loop] # "idle" => phase \in PostPhases

(* The busy flag counts the senders between its two updates. *)
BusyInv == \A h \in Handles : busy[h] = Cardinality(BusyThreads(h))

TypeInv == TypeOK /\ PostInv /\ LoopInv /\ BusyInv

-----------------------------------------------------------------------------
LEMMA BusyThreadsFinite ==
  \A h \in Handles : /\ IsFiniteSet(BusyThreads(h))
                     /\ Cardinality(BusyThreads(h)) \in Nat
<1> TAKE h \in Handles
<1>1. BusyThreads(h) \subseteq Threads BY DEF BusyThreads
<1>2. IsFiniteSet(BusyThreads(h)) BY <1>1, ThreadsAssumption, FS_Subset
<1> QED BY <1>2, FS_CardinalityType

LEMMA TypeInit == Init => TypeInv
<1> SUFFICES ASSUME Init PROVE TypeInv OBVIOUS
<1> USE DEF Init, Shutdown
<1>1. TypeOK
  <2>1. 0 \in Slots /\ 0 \in Handles /\ 0 \in 0..NumModules
    BY NumModulesAssumption, QueueSizeAssumption DEF Slots, Handles
  <2>2. /\ head \in [Modules -> Slots]
        /\ tail \in [Modules -> Slots]
        /\ msgs \in [Modules -> [Slots -> Msgs \cup {NoMsg}]]
    BY <2>1
  <2>3. mutex \in [Modules -> Threads \cup {Free, Destroyed}] OBVIOUS
  <2>4. /\ pending \in [Handles -> {0, 1}]
        /\ busy \in [Handles -> Nat]
        /\ wakeup \in BOOLEAN
    OBVIOUS
  <2>5. /\ pc \in [Threads -> {"idle"} \cup InPost \cup InSend]
        /\ dst \in [Threads -> Handles]
        /\ slot \in [Threads -> Slots]
        /\ sent \in [Threads -> Nat]
    BY <2>1
  <2>6. ret \in [Posters -> {"none", "ok", "nospace"}] OBVIOUS
  <2>7. /\ phase \in Phases
        /\ cur \in Handles
        /\ todo \subseteq open
        /\ hand \in Msgs \cup {NoMsg}
        /\ started \in 0..NumModules
        /\ open \subseteq 0..started
    BY <2>1 DEF Phases, PostPhases
  <2> QED BY <2>2, <2>3, <2>4, <2>5, <2>6, <2>7 DEF TypeOK
<1>2. PostInv BY DEF PostInv, InPost, InSend
<1>3. LoopInv BY ThreadsAssumption DEF LoopInv, DrainPhases, PostPhases, Threads, Posters
<1>4. BusyInv
  <2> SUFFICES ASSUME NEW h \in Handles PROVE busy[h] = Cardinality(BusyThreads(h))
    BY DEF BusyInv
  <2>1. BusyThreads(h) = {} BY DEF BusyThreads, Busy
  <2> QED BY <2>1, FS_EmptySet
<1> QED BY <1>1, <1>2, <1>3, <1>4 DEF TypeInv

-----------------------------------------------------------------------------
(* What the steps of a thread leave to the loop, and the loop to the threads. *)

CallStep == \/ \E t \in Threads : ThreadStep(t)
            \/ \E t \in Posters, m \in Modules : PostBegin(t, m)
            \/ \E t \in Signallers : Signal(t)

LEMMA CallFrame == CallStep => UNCHANGED <<tail, loop>>
  BY DEF CallStep, ThreadStep, PostLock, PostFull, PostRoom, PostCopy, PostPublish,
         SendSkip, SendLoad, SendBusy, SendExchange, SendWrite, SendUnbusy,
         PostBegin, Signal, ring, async, thread, loop

LEMMA LoopFrame == LoopStep => /\ UNCHANGED thread
                               /\ StartModule \/ UNCHANGED <<busy, started, head>>
  BY DEF LoopStep, StartModule, RunLoop, PollEvent, PollTimeout, ScanHandle, ScanEnd,
         DrainLock, DrainEmpty, DrainTake, CallbackReturn, TimersDone, LoopExit,
         StopModule, CloseModule, CloseShutdown, CloseDone, DestroyMutex, LoopOnly,
         ring, async, thread, loop

LEMMA NextSplit == [Next]_vars => CallStep \/ LoopStep \/ UNCHANGED vars
  BY DEF Next, CallStep, Terminated

-----------------------------------------------------------------------------
LEMMA TypeOKNext == TypeInv /\ [Next]_vars => TypeOK'
<1> SUFFICES ASSUME TypeInv, [Next]_vars PROVE TypeOK' OBVIOUS
<1> USE NumModulesAssumption, QueueSizeAssumption
    DEF TypeOK, Shutdown, Handles, Modules, Slots, Goto, Lock,
        Unlock, ring, async, thread, loop
<1> TypeOK BY DEF TypeInv
<1>n. 0 \in Slots /\ \A i \in Slots : NextSlot(i) \in Slots BY DEF NextSlot
<1>m. Modules \subseteq Handles OBVIOUS
<1>p. \A t \in Threads : pc[t] \in InPost => /\ t \in Posters
                                              /\ dst[t] \in Modules
                                              /\ sent[t] \in 1..MaxPosts
  BY DEF TypeInv, PostInv
<1>b. \A t \in Threads : pc[t] = "unbusy" => busy[dst[t]] >= 1
  <2> SUFFICES ASSUME NEW t \in Threads, pc[t] = "unbusy" PROVE busy[dst[t]] >= 1
    OBVIOUS
  <2>1. t \in BusyThreads(dst[t]) BY DEF BusyThreads, Busy
  <2>2. IsFiniteSet(BusyThreads(dst[t])) /\ busy[dst[t]] = Cardinality(BusyThreads(dst[t]))
    BY BusyThreadsFinite DEF TypeInv, BusyInv
  <2> QED BY <2>1, <2>2, FS_EmptySet
<1>l. phase \in DrainPhases => cur \in Modules
  BY DEF TypeInv, LoopInv
<1>1. ASSUME NEW t \in Threads, PostLock(t) PROVE TypeOK'
  BY <1>1 DEF PostLock, InPost, InSend
<1>2. ASSUME NEW t \in Threads, PostFull(t) PROVE TypeOK'
  BY <1>2 DEF PostFull, InPost, InSend
<1>3. ASSUME NEW t \in Threads, PostRoom(t) PROVE TypeOK'
  BY <1>3, <1>p DEF PostRoom, InPost, InSend
<1>4. ASSUME NEW t \in Threads, PostCopy(t) PROVE TypeOK'
  BY <1>4, <1>p DEF PostCopy, InPost, InSend, Message, Msgs
<1>5. ASSUME NEW t \in Threads, PostPublish(t) PROVE TypeOK'
  BY <1>5, <1>p, <1>n DEF PostPublish, InPost, InSend
<1>6. ASSUME NEW t \in Threads, SendSkip(t) PROVE TypeOK'
  BY <1>6 DEF SendSkip, InPost, InSend
<1>7. ASSUME NEW t \in Threads, SendLoad(t) PROVE TypeOK'
  BY <1>7 DEF SendLoad, InPost, InSend
<1>8. ASSUME NEW t \in Threads, SendBusy(t) PROVE TypeOK'
  <2>1. busy' \in [Handles -> Nat] BY <1>8 DEF SendBusy
  <2>2. pc' \in [Threads -> {"idle"} \cup InPost \cup InSend]
    BY <1>8 DEF SendBusy, InPost, InSend
  <2> QED BY <1>8, <2>1, <2>2 DEF SendBusy
<1>9. ASSUME NEW t \in Threads, SendExchange(t) PROVE TypeOK'
  BY <1>9 DEF SendExchange, InPost, InSend
<1>10. ASSUME NEW t \in Threads, SendWrite(t) PROVE TypeOK'
  BY <1>10 DEF SendWrite, InPost, InSend
<1>11. ASSUME NEW t \in Threads, SendUnbusy(t) PROVE TypeOK'
  <2>1. busy' \in [Handles -> Nat] BY <1>11, <1>b DEF SendUnbusy
  <2>2. pc' \in [Threads -> {"idle"} \cup InPost \cup InSend]
    BY <1>11 DEF SendUnbusy, InPost, InSend
  <2> QED BY <1>11, <2>1, <2>2 DEF SendUnbusy
<1>12. ASSUME NEW t \in Posters, NEW m \in Modules, PostBegin(t, m) PROVE TypeOK'
  <2>1. t \in Threads /\ m \in Handles BY <1>12, <1>m DEF Threads
  <2>2. sent' \in [Threads -> Nat] BY <1>12, <2>1 DEF PostBegin
  <2>3. ret' \in [Posters -> {"none", "ok", "nospace"}] BY <1>12 DEF PostBegin
  <2> QED BY <1>12, <2>1, <2>2, <2>3 DEF PostBegin, InPost, InSend
<1>13. ASSUME NEW t \in Signallers, Signal(t) PROVE TypeOK'
  <2>1. t \in Threads /\ Shutdown \in Handles BY <1>13, NumModulesAssumption DEF Threads
  <2>2. sent' \in [Threads -> Nat] BY <1>13, <2>1 DEF Signal
  <2>3. dst' \in [Threads -> Handles] BY <1>13, <2>1 DEF Signal
  <2>4. pc' \in [Threads -> {"idle"} \cup InPost \cup InSend]
    BY <1>13, <2>1 DEF Signal, InPost, InSend
  <2> QED BY <1>13, <2>2, <2>3, <2>4 DEF Signal
<1>14. CASE StartModule
  <2>1. LET m == started + 1 IN
           /\ m \in Modules
           /\ 0 \in Slots
           /\ open \cup {m} \subseteq 0..m
    BY <1>14, <1>n DEF StartModule
  <2>2. head' \in [Modules -> Slots] /\ tail' \in [Modules -> Slots]
    BY <1>14, <2>1 DEF StartModule
  <2>3. mutex' \in [Modules -> Threads \cup {Free, Destroyed}]
    BY <1>14, <2>1 DEF StartModule
  <2>4. pending' \in [Handles -> {0, 1}] /\ busy' \in [Handles -> Nat]
    BY <1>14, <2>1 DEF StartModule
  <2>5. started' \in 0..NumModules /\ open' \subseteq 0..started' /\ todo' \subseteq open'
    BY <1>14, <2>1 DEF StartModule
  <2> QED BY <1>14, <2>2, <2>3, <2>4, <2>5 DEF StartModule
<1>15. CASE RunLoop
  BY <1>15 DEF RunLoop, LoopAt, LoopOnly, Phases, PostPhases, DrainPhases
<1>16. CASE PollEvent
  BY <1>16 DEF PollEvent, LoopAt, LoopOnly, Phases, PostPhases, DrainPhases
<1>17. CASE PollTimeout
  BY <1>17 DEF PollTimeout, LoopAt, LoopOnly, Phases, PostPhases, DrainPhases
<1>18. ASSUME NEW h \in Handles, ScanHandle(h) PROVE TypeOK'
  BY <1>18 DEF ScanHandle, LoopAt, LoopOnly, Phases, PostPhases, DrainPhases
<1>19. CASE ScanEnd
  BY <1>19 DEF ScanEnd, LoopAt, LoopOnly, Phases, PostPhases, DrainPhases
<1>20. CASE DrainLock
  BY <1>20, <1>l DEF DrainLock, LoopAt, LoopOnly, Phases, PostPhases, DrainPhases, Threads, Posters
<1>21. CASE DrainEmpty
  BY <1>21 DEF DrainEmpty, LoopAt, LoopOnly, Phases, PostPhases, DrainPhases
<1>22. CASE DrainTake
  <2>1. cur \in Modules BY <1>22, <1>l DEF DrainTake, LoopAt, DrainPhases
  <2>2. hand' \in Msgs \cup {NoMsg} BY <1>22, <2>1 DEF DrainTake
  <2>3. tail' \in [Modules -> Slots] BY <1>22, <1>n, <2>1 DEF DrainTake
  <2>4. mutex' \in [Modules -> Threads \cup {Free, Destroyed}] BY <1>22 DEF DrainTake
  <2>5. phase' \in Phases BY <1>22 DEF DrainTake, Phases, DrainPhases
  <2> QED BY <1>22, <2>2, <2>3, <2>4, <2>5 DEF DrainTake
<1>23. CASE CallbackReturn
  BY <1>23 DEF CallbackReturn, LoopAt, LoopOnly, Phases, PostPhases, DrainPhases
<1>24. CASE TimersDone
  BY <1>24 DEF TimersDone, LoopAt, LoopOnly, Phases, PostPhases, DrainPhases
<1>25. CASE LoopExit
  BY <1>25 DEF LoopExit, LoopAt, LoopOnly, Phases, PostPhases, DrainPhases
<1>26. ASSUME NEW m \in Modules, StopModule(m) PROVE TypeOK'
  BY <1>26, <1>m DEF StopModule, LoopAt, LoopOnly, Phases, PostPhases, DrainPhases
<1>27. CASE CloseModule
  BY <1>27 DEF CloseModule, LoopAt, LoopOnly, Phases, PostPhases, DrainPhases
<1>28. CASE CloseShutdown
  <2>1. Shutdown \in Handles BY NumModulesAssumption
  <2>2. pending' \in [Handles -> {0, 1}] BY <1>28 DEF CloseShutdown
  <2>3. phase' \in Phases BY <1>28 DEF CloseShutdown, Phases
  <2> QED BY <1>28, <2>1, <2>2, <2>3 DEF CloseShutdown
<1>29. CASE CloseDone
  BY <1>29 DEF CloseDone, LoopAt, LoopOnly, Phases, PostPhases, DrainPhases
<1>30. CASE DestroyMutex
  BY <1>30 DEF DestroyMutex, LoopAt, LoopOnly, Phases, PostPhases, DrainPhases
<1>31. CASE UNCHANGED vars
  BY <1>31 DEF vars
<1> QED
  BY <1>1, <1>2, <1>3, <1>4, <1>5, <1>6, <1>7, <1>8, <1>9, <1>10, <1>11,
     <1>12, <1>13, <1>14, <1>15, <1>16, <1>17, <1>18, <1>19, <1>20, <1>21,
     <1>22, <1>23, <1>24, <1>25, <1>26, <1>27, <1>28, <1>29, <1>30, <1>31
     DEF Next, ThreadStep, LoopStep, Terminated
-----------------------------------------------------------------------------
LEMMA PostInvNext == TypeInv /\ [Next]_vars => PostInv'
<1> SUFFICES ASSUME TypeInv, [Next]_vars PROVE PostInv' OBVIOUS
<1> USE NumModulesAssumption, MaxPostsAssumption DEF Shutdown, Handles, Modules
<1>0. TypeOK /\ PostInv BY DEF TypeInv
<1>1. CASE CallStep
  <2> SUFFICES ASSUME NEW u \in Threads
               PROVE  /\ pc'[u] \in InPost => /\ u \in Posters
                                              /\ dst'[u] \in 1..started'
                                              /\ sent'[u] \in 1..MaxPosts
                      /\ pc'[u] \in InSend => dst'[u] \in 0..started'
    BY DEF PostInv
  <2>0. started' = started BY <1>1, CallFrame DEF loop
  <2> USE <1>0, <2>0 DEF TypeOK, PostInv, InPost, InSend, Goto
  <2>1. ASSUME NEW t \in Threads, ThreadStep(t) PROVE pc'[u] \in InPost \cup InSend =>
          /\ dst'[u] = dst[u] /\ sent'[u] = sent[u]
          /\ pc'[u] \in InPost => pc[u] \in InPost
          /\ pc'[u] \in InSend => pc[u] \in InPost \cup InSend
    <3>1. CASE PostLock(t) \/ PostFull(t) \/ PostRoom(t) \/ PostCopy(t) \/ PostPublish(t)
      BY <3>1 DEF PostLock, PostFull, PostRoom, PostCopy, PostPublish
    <3>2. CASE \/ SendSkip(t) \/ SendLoad(t) \/ SendBusy(t)
               \/ SendExchange(t) \/ SendWrite(t) \/ SendUnbusy(t)
      BY <3>2 DEF SendSkip, SendLoad, SendBusy, SendExchange, SendWrite, SendUnbusy
    <3> QED BY <2>1, <3>1, <3>2 DEF ThreadStep
  <2>2. ASSUME NEW t \in Posters, NEW m \in Modules, PostBegin(t, m)
        PROVE  /\ pc'[u] \in InPost => /\ u \in Posters
                                       /\ dst'[u] \in 1..started'
                                       /\ sent'[u] \in 1..MaxPosts
               /\ pc'[u] \in InSend => dst'[u] \in 0..started'
    <3>1. t \in Threads BY DEF Threads
    <3>2. CASE u = t BY <2>2, <3>1, <3>2 DEF PostBegin
    <3>3. CASE u # t BY <2>2, <3>1, <3>3 DEF PostBegin
    <3> QED BY <3>2, <3>3
  <2>3. ASSUME NEW t \in Signallers, Signal(t)
        PROVE  /\ pc'[u] \in InPost => /\ u \in Posters
                                       /\ dst'[u] \in 1..started'
                                       /\ sent'[u] \in 1..MaxPosts
               /\ pc'[u] \in InSend => dst'[u] \in 0..started'
    <3>1. t \in Threads BY DEF Threads
    <3>2. CASE u = t BY <2>3, <3>1, <3>2 DEF Signal
    <3>3. CASE u # t BY <2>3, <3>1, <3>3 DEF Signal
    <3> QED BY <3>2, <3>3
  <2> QED BY <1>1, <2>1, <2>2, <2>3 DEF CallStep
<1>2. CASE LoopStep
  <2>1. UNCHANGED thread /\ started \in Nat /\ started' \in {started, started + 1}
    BY <1>0, <1>2, LoopFrame DEF StartModule, TypeOK
  <2> QED BY <1>0, <2>1 DEF PostInv, TypeOK, thread
<1>3. CASE UNCHANGED vars BY <1>0, <1>3 DEF PostInv, vars, thread, loop
<1> QED BY <1>1, <1>2, <1>3, NextSplit

-----------------------------------------------------------------------------
LEMMA BusyInvNext == TypeInv /\ [Next]_vars => BusyInv'
<1> SUFFICES ASSUME TypeInv, [Next]_vars, NEW h \in Handles
             PROVE  busy'[h] = Cardinality(BusyThreads(h)')
  BY DEF BusyInv
<1>0. /\ TypeOK /\ PostInv /\ IsFiniteSet(BusyThreads(h))
      /\ busy[h] = Cardinality(BusyThreads(h)) /\ busy[h] \in Nat
  BY BusyThreadsFinite DEF TypeInv, BusyInv
<1>1. CASE CallStep
  <2>1. ASSUME NEW t \in Threads, SendBusy(t) PROVE busy'[h] = Cardinality(BusyThreads(h)')
    <3>1. CASE dst[t] = h
      <4>1. BusyThreads(h)' = BusyThreads(h) \cup {t} /\ t \notin BusyThreads(h)
        BY <1>0, <2>1, <3>1 DEF SendBusy, BusyThreads, Busy, Goto, TypeOK
      <4>2. busy'[h] = busy[h] + 1 BY <1>0, <2>1, <3>1 DEF SendBusy, TypeOK
      <4> QED BY <1>0, <4>1, <4>2, FS_AddElement
    <3>2. CASE dst[t] # h
      BY <1>0, <2>1, <3>2 DEF SendBusy, BusyThreads, Busy, Goto, TypeOK
    <3> QED BY <3>1, <3>2
  <2>2. ASSUME NEW t \in Threads, SendUnbusy(t) PROVE busy'[h] = Cardinality(BusyThreads(h)')
    <3>1. CASE dst[t] = h
      <4>1. BusyThreads(h)' = BusyThreads(h) \ {t} /\ t \in BusyThreads(h)
        BY <1>0, <2>2, <3>1 DEF SendUnbusy, BusyThreads, Busy, Goto, TypeOK
      <4>2. busy'[h] = busy[h] - 1 BY <1>0, <2>2, <3>1 DEF SendUnbusy, TypeOK
      <4> QED BY <1>0, <4>1, <4>2, FS_RemoveElement
    <3>2. CASE dst[t] # h
      BY <1>0, <2>2, <3>2 DEF SendUnbusy, BusyThreads, Busy, Goto, TypeOK
    <3> QED BY <3>1, <3>2
  <2>3. ASSUME NEW t \in Threads, ThreadStep(t), ~SendBusy(t), ~SendUnbusy(t)
        PROVE  busy' = busy /\ BusyThreads(h)' = BusyThreads(h)
    BY <1>0, <2>3 DEF ThreadStep, PostLock, PostFull, PostRoom, PostCopy, PostPublish,
         SendSkip, SendLoad, SendExchange, SendWrite, BusyThreads, Busy, Goto, TypeOK,
         async
  <2>4. ASSUME NEW t \in Posters, NEW m \in Modules, PostBegin(t, m)
        PROVE  busy' = busy /\ BusyThreads(h)' = BusyThreads(h)
    BY <1>0, <2>4 DEF PostBegin, BusyThreads, Busy, Goto, TypeOK, Threads, async
  <2>5. ASSUME NEW t \in Signallers, Signal(t)
        PROVE  busy' = busy /\ BusyThreads(h)' = BusyThreads(h)
    BY <1>0, <2>5 DEF Signal, BusyThreads, Busy, Goto, TypeOK, Threads, async
  <2> QED BY <1>0, <1>1, <2>1, <2>2, <2>3, <2>4, <2>5 DEF CallStep
<1>2. CASE LoopStep
  <2>1. BusyThreads(h)' = BusyThreads(h) BY <1>2, LoopFrame DEF BusyThreads, thread
  <2>2. CASE StartModule
    <3>1. h = started + 1 => BusyThreads(h) = {}
      BY <1>0 DEF BusyThreads, PostInv, InSend, Busy, TypeOK
    <3>2. busy'[h] = IF h = started + 1 THEN 0 ELSE busy[h]
      BY <1>0, <2>2 DEF StartModule, TypeOK
    <3> QED BY <1>0, <2>1, <3>1, <3>2, FS_EmptySet
  <2>3. CASE UNCHANGED busy BY <1>0, <2>1, <2>3
  <2> QED BY <1>2, <2>2, <2>3, LoopFrame
<1>3. CASE UNCHANGED vars
  BY <1>0, <1>3 DEF vars, thread, async, BusyThreads
<1> QED BY <1>1, <1>2, <1>3, NextSplit
-----------------------------------------------------------------------------
LEMMA LoopInvNext == TypeInv /\ [Next]_vars => LoopInv'
<1> SUFFICES ASSUME TypeInv, [Next]_vars PROVE LoopInv' OBVIOUS
<1>0. TypeOK /\ LoopInv /\ Loop \in Threads
  BY DEF TypeInv, Threads, Posters
<1> USE <1>0 DEF LoopInv, TypeOK, DrainPhases, PostPhases
<1>1. CASE CallStep
  <2>1. UNCHANGED <<phase, cur, todo, started, open>> BY <1>1, CallFrame DEF loop
  <2>2. pc'[Loop] # "idle" => pc[Loop] # "idle" \/ phase \in PostPhases
    <3>1. ASSUME NEW t \in Threads, ThreadStep(t)
          PROVE  pc'[Loop] # "idle" => pc[Loop] # "idle"
      BY <3>1 DEF ThreadStep, PostLock, PostFull, PostRoom, PostCopy, PostPublish,
           SendSkip, SendLoad, SendBusy, SendExchange, SendWrite, SendUnbusy, Goto
    <3>2. ASSUME NEW t \in Posters, NEW m \in Modules, PostBegin(t, m)
          PROVE  pc'[Loop] # "idle" => pc[Loop] # "idle" \/ phase \in PostPhases
      BY <3>2 DEF PostBegin, Goto
    <3>3. ASSUME NEW t \in Signallers, Signal(t)
          PROVE  pc'[Loop] # "idle" => pc[Loop] # "idle"
      BY <3>3, ThreadsAssumption DEF Signal, Goto, Posters
    <3> QED BY <1>1, <3>1, <3>2, <3>3 DEF CallStep
  <2> QED BY <2>1, <2>2
<1>2. CASE LoopStep
  <2> USE NumModulesAssumption DEF LoopAt, LoopOnly, thread, Handles, Modules, Shutdown
  <2>1. CASE StartModule BY <2>1 DEF StartModule
  <2>2. CASE RunLoop BY <2>2 DEF RunLoop
  <2>3. CASE PollEvent BY <2>3 DEF PollEvent
  <2>4. CASE PollTimeout BY <2>4 DEF PollTimeout
  <2>5. ASSUME NEW h \in Handles, ScanHandle(h) PROVE LoopInv' BY <2>5 DEF ScanHandle
  <2>6. CASE ScanEnd BY <2>6 DEF ScanEnd
  <2>7. CASE DrainLock BY <2>7 DEF DrainLock
  <2>8. CASE DrainEmpty BY <2>8 DEF DrainEmpty
  <2>9. CASE DrainTake BY <2>9 DEF DrainTake
  <2>10. CASE CallbackReturn BY <2>10 DEF CallbackReturn
  <2>11. CASE TimersDone BY <2>11 DEF TimersDone
  <2>12. CASE LoopExit BY <2>12 DEF LoopExit
  <2>13. ASSUME NEW m \in Modules, StopModule(m) PROVE LoopInv'
    BY <2>13 DEF StopModule, NextToStop
  <2>14. CASE CloseModule BY <2>14 DEF CloseModule
  <2>15. CASE CloseShutdown BY <2>15 DEF CloseShutdown
  <2>16. CASE CloseDone BY <2>16 DEF CloseDone
  <2>17. CASE DestroyMutex BY <2>17 DEF DestroyMutex
  <2> QED BY <1>2, <2>1, <2>2, <2>3, <2>4, <2>5, <2>6, <2>7, <2>8, <2>9, <2>10, <2>11,
             <2>12, <2>13, <2>14, <2>15, <2>16, <2>17 DEF LoopStep
<1>3. CASE UNCHANGED vars BY <1>3 DEF vars, thread, loop
<1> QED BY <1>1, <1>2, <1>3, NextSplit

LEMMA TypeNext == TypeInv /\ [Next]_vars => TypeInv'
BY TypeOKNext, PostInvNext, BusyInvNext, LoopInvNext DEF TypeInv

LEMMA TypeInvariant == Spec => []TypeInv
BY TypeInit, TypeNext, PTL DEF Spec

(* Every variable keeps its type: indexes stay inside the ring whatever its  *)
(* size, the messages in it were posted, and no busy flag goes below zero.   *)
THEOREM TypeCorrect == Spec => []TypeOK
BY TypeInvariant, PTL DEF TypeInv

(* async_callback, the ring and on_message are only used for an open module. *)
THEOREM HandlersOpen == Spec => []HandlerOnlyWhileOpen
<1>1. TypeInv => HandlerOnlyWhileOpen BY DEF TypeInv, LoopInv, HandlerOnlyWhileOpen
<1> QED BY <1>1, TypeInvariant, PTL
-----------------------------------------------------------------------------
(* Closing a handle: uv__async_spin sets pending, so that every send that    *)
(* has not exchanged yet will find it set, and waits out those that have.    *)
(* Nothing resets pending afterwards.                                        *)
CloseInv == /\ phase = "spin" => pending[cur] = 1
            /\ \A h \in (0..started) \ open : pending[h] = 1 /\ ~Sending(h, {"write"})

LEMMA CloseInit == Init => CloseInv
BY DEF Init, CloseInv, Shutdown

LEMMA CloseNext == TypeInv /\ CloseInv /\ [Next]_vars => CloseInv'
<1> SUFFICES ASSUME TypeInv, CloseInv, [Next]_vars PROVE CloseInv' OBVIOUS
<1>0. TypeOK /\ PostInv /\ LoopInv /\ BusyInv BY DEF TypeInv
<1> USE <1>0, NumModulesAssumption DEF TypeOK, CloseInv, Handles, Modules, Shutdown
<1>1. CASE CallStep
  <2>1. UNCHANGED <<phase, cur, started, open>> BY <1>1, CallFrame DEF loop
  <2>2. ASSUME NEW h \in Handles, pending[h] = 1 PROVE pending'[h] = 1
    BY <1>1, <2>2 DEF CallStep, ThreadStep, PostLock, PostFull, PostRoom, PostCopy,
       PostPublish, SendSkip, SendLoad, SendBusy, SendExchange, SendWrite, SendUnbusy,
       PostBegin, Signal, async
  <2>3. ASSUME NEW h \in Handles, pending[h] = 1, Sending(h, {"write"})'
        PROVE  Sending(h, {"write"})
    <3> USE <2>3 DEF Sending
    <3>1. ASSUME NEW t \in Threads, ThreadStep(t) PROVE Sending(h, {"write"})
      BY <3>1 DEF ThreadStep, PostLock, PostFull, PostRoom, PostCopy, PostPublish,
         SendSkip, SendLoad, SendBusy, SendExchange, SendWrite, SendUnbusy, Goto
    <3>2. ASSUME NEW t \in Posters, NEW m \in Modules, PostBegin(t, m)
          PROVE  Sending(h, {"write"})
      BY <3>2 DEF PostBegin, Goto, Threads
    <3>3. ASSUME NEW t \in Signallers, Signal(t) PROVE Sending(h, {"write"})
      BY <3>3 DEF Signal, Goto, Threads
    <3> QED BY <1>1, <3>1, <3>2, <3>3 DEF CallStep
  <2>4. cur \in Handles /\ (0..started) \ open \subseteq Handles OBVIOUS
  <2> QED BY <2>1, <2>2, <2>3, <2>4
<1>2. CASE LoopStep
  <2>1. ASSUME NEW h \in Handles PROVE Sending(h, {"write"})' <=> Sending(h, {"write"})
    BY <1>2, LoopFrame DEF Sending, thread
  <2> USE <2>1 DEF LoopAt, LoopOnly, async
  <2>2. CASE StartModule BY <2>2 DEF StartModule
  <2>3. CASE RunLoop BY <2>3 DEF RunLoop
  <2>4. CASE PollEvent BY <2>4 DEF PollEvent
  <2>5. CASE PollTimeout BY <2>5 DEF PollTimeout
  <2>6. ASSUME NEW h \in Handles, ScanHandle(h) PROVE CloseInv' BY <2>6 DEF ScanHandle
  <2>7. CASE ScanEnd BY <2>7 DEF ScanEnd
  <2>8. CASE DrainLock BY <2>8 DEF DrainLock
  <2>9. CASE DrainEmpty BY <2>9 DEF DrainEmpty
  <2>10. CASE DrainTake BY <2>10 DEF DrainTake
  <2>11. CASE CallbackReturn BY <2>11 DEF CallbackReturn
  <2>12. CASE TimersDone BY <2>12 DEF TimersDone
  <2>13. CASE LoopExit BY <2>13 DEF LoopExit
  <2>14. ASSUME NEW m \in Modules, StopModule(m) PROVE CloseInv' BY <2>14 DEF StopModule
  <2>15. CASE CloseModule BY <2>15 DEF CloseModule
  <2>16. CASE CloseShutdown BY <2>16 DEF CloseShutdown
  <2>17. CASE CloseDone
    <3>1. BusyThreads(cur) = {}
      BY <2>17, BusyThreadsFinite, FS_EmptySet DEF CloseDone, BusyInv
    <3>2. ~Sending(cur, {"write"}) BY <3>1 DEF Sending, BusyThreads, Busy
    <3> QED BY <2>17, <3>2 DEF CloseDone
  <2>18. CASE DestroyMutex BY <2>18 DEF DestroyMutex
  <2> QED BY <1>2, <2>2, <2>3, <2>4, <2>5, <2>6, <2>7, <2>8, <2>9, <2>10, <2>11, <2>12,
             <2>13, <2>14, <2>15, <2>16, <2>17, <2>18 DEF LoopStep
<1>3. CASE UNCHANGED vars BY <1>3 DEF vars, thread, async, loop, Sending
<1> QED BY <1>1, <1>2, <1>3, NextSplit

LEMMA CloseInvariant == Spec => []CloseInv
BY CloseInit, CloseNext, TypeInvariant, PTL DEF Spec

(* No thread writes the eventfd for a handle that uv_close has returned for. *)
THEOREM ClosedQuiet == Spec => []CloseQuiesces
<1>1. CloseInv => CloseQuiesces BY DEF CloseInv, CloseQuiesces
<1> QED BY <1>1, CloseInvariant, PTL
-----------------------------------------------------------------------------
(* The two halves of the wake-up handshake.                                  *)
(* A pending handle is going to be looked at: the eventfd is readable, or a  *)
(* sender will make it so, or the scan under way has not reached the handle. *)
WakeInv == \A h \in open : pending[h] = 1 =>
             \/ wakeup
             \/ h \in todo
             \/ Sending(h, {"write"})
             \/ (phase = "spin" /\ cur = h)

(* The loop is at work on what h is owed. *)
StopPhases == {"stopping", "onstop", "spin", "destroy"}
Serving(h) == IF h = Shutdown THEN phase \in StopPhases
              ELSE cur = h /\ phase \in DrainPhases

(* What a handle is owed is being worked on, or the handle is pending, or a  *)
(* sender is about to make it so.                                            *)
OwedInv == \A h \in open : Owed(h) =>
             \/ pending[h] = 1
             \/ Sending(h, {"load", "busy", "xchg"})
             \/ Serving(h)

HandshakeInv == WakeInv /\ OwedInv

LEMMA HandshakeInit == Init => HandshakeInv
BY NumModulesAssumption
DEF Init, HandshakeInv, WakeInv, OwedInv, Owed, Shutdown, Threads, Handles

LEMMA WakeNext == TypeInv /\ WakeInv /\ [Next]_vars => WakeInv'
<1> SUFFICES ASSUME TypeInv, WakeInv, [Next]_vars PROVE WakeInv' OBVIOUS
<1>0. TypeOK /\ PostInv /\ LoopInv BY DEF TypeInv
<1> USE <1>0, NumModulesAssumption DEF TypeOK, WakeInv, Handles, Modules, Shutdown
<1>1. CASE CallStep
  <2>1. UNCHANGED <<phase, cur, todo, started, open>> BY <1>1, CallFrame DEF loop
  <2> SUFFICES ASSUME NEW h \in open, pending'[h] = 1
               PROVE  wakeup' \/ h \in todo \/ Sending(h, {"write"})' \/ (phase = "spin" /\ cur = h)
    BY <2>1
  <2> DEFINE Awake == wakeup' \/ Sending(h, {"write"})'
  <2>0. pending[h] = 1 => wakeup \/ h \in todo \/ Sending(h, {"write"}) \/ (phase = "spin" /\ cur = h)
    OBVIOUS
  <2>2. ASSUME NEW t \in Threads, SendExchange(t) PROVE Awake \/ h \in todo \/ (phase = "spin" /\ cur = h)
    <3>1. CASE dst[t] = h /\ pending[h] = 0
      <4>1. dst'[t] = h /\ pc'[t] = "write" BY <2>2, <3>1 DEF SendExchange, Goto
      <4> QED BY <4>1 DEF Sending
    <3>2. CASE ~(dst[t] = h /\ pending[h] = 0)
      <4>1. pending[h] = 1 BY <2>2, <3>2 DEF SendExchange
      <4>2. Sending(h, {"write"}) => Sending(h, {"write"})'
        BY <2>2 DEF SendExchange, Sending, Goto
      <4>3. wakeup' = wakeup BY <2>2 DEF SendExchange
      <4> QED BY <2>0, <4>1, <4>2, <4>3
    <3> QED BY <3>1, <3>2
  <2>3. ASSUME NEW t \in Threads, SendWrite(t) PROVE Awake BY <2>3 DEF SendWrite
  <2>4. ASSUME NEW t \in Threads, ThreadStep(t), ~SendExchange(t), ~SendWrite(t)
        PROVE  /\ pending' = pending /\ wakeup' = wakeup
               /\ Sending(h, {"write"}) => Sending(h, {"write"})'
    BY <2>4 DEF ThreadStep, PostLock, PostFull, PostRoom, PostCopy, PostPublish,
       SendSkip, SendLoad, SendBusy, SendUnbusy, Sending, Goto, async
  <2>5. ASSUME NEW t \in Posters, NEW m \in Modules, PostBegin(t, m)
        PROVE  /\ pending' = pending /\ wakeup' = wakeup
               /\ Sending(h, {"write"}) => Sending(h, {"write"})'
    BY <2>5 DEF PostBegin, Sending, Goto, async
  <2>6. ASSUME NEW t \in Signallers, Signal(t)
        PROVE  /\ pending' = pending /\ wakeup' = wakeup
               /\ Sending(h, {"write"}) => Sending(h, {"write"})'
    BY <2>6 DEF Signal, Sending, Goto, async
  <2> QED BY <1>1, <2>0, <2>2, <2>3, <2>4, <2>5, <2>6 DEF CallStep
<1>2. CASE LoopStep
  <2>1. ASSUME NEW h \in Handles PROVE Sending(h, {"write"})' <=> Sending(h, {"write"})
    BY <1>2, LoopFrame DEF Sending, thread
  <2> USE <2>1 DEF LoopAt, LoopOnly, async
  <2>2. CASE StartModule BY <2>2 DEF StartModule
  <2>3. CASE RunLoop BY <2>3 DEF RunLoop
  <2>4. CASE PollEvent BY <2>4 DEF PollEvent
  <2>5. CASE PollTimeout BY <2>5 DEF PollTimeout
  <2>6. ASSUME NEW h \in Handles, ScanHandle(h) PROVE WakeInv' BY <2>6 DEF ScanHandle
  <2>7. CASE ScanEnd BY <2>7 DEF ScanEnd
  <2>8. CASE DrainLock BY <2>8 DEF DrainLock
  <2>9. CASE DrainEmpty BY <2>9 DEF DrainEmpty
  <2>10. CASE DrainTake BY <2>10 DEF DrainTake
  <2>11. CASE CallbackReturn BY <2>11 DEF CallbackReturn
  <2>12. CASE TimersDone BY <2>12 DEF TimersDone
  <2>13. CASE LoopExit BY <2>13 DEF LoopExit
  <2>14. ASSUME NEW m \in Modules, StopModule(m) PROVE WakeInv' BY <2>14 DEF StopModule
  <2>15. CASE CloseModule BY <2>15 DEF CloseModule
  <2>16. CASE CloseShutdown BY <2>16 DEF CloseShutdown
  <2>17. CASE CloseDone BY <2>17 DEF CloseDone
  <2>18. CASE DestroyMutex BY <2>18 DEF DestroyMutex
  <2> QED BY <1>2, <2>2, <2>3, <2>4, <2>5, <2>6, <2>7, <2>8, <2>9, <2>10, <2>11, <2>12,
             <2>13, <2>14, <2>15, <2>16, <2>17, <2>18 DEF LoopStep
<1>3. CASE UNCHANGED vars BY <1>3 DEF vars, thread, async, loop, Sending
<1> QED BY <1>1, <1>2, <1>3, NextSplit
-----------------------------------------------------------------------------
LEMMA OwedNext == TypeInv /\ OwedInv /\ [Next]_vars => OwedInv'
<1> SUFFICES ASSUME TypeInv, OwedInv, [Next]_vars PROVE OwedInv' OBVIOUS
<1>0. TypeOK /\ PostInv /\ LoopInv BY DEF TypeInv
<1> USE <1>0, NumModulesAssumption DEF TypeOK, OwedInv, Handles, Modules, Shutdown
<1>1. CASE CallStep
  <2>1. UNCHANGED <<tail, loop>> BY <1>1, CallFrame
  <2> SUFFICES ASSUME NEW h \in open, Owed(h)'
               PROVE  pending'[h] = 1 \/ Sending(h, {"load", "busy", "xchg"})' \/ Serving(h)
    BY <2>1 DEF Serving, loop
  <2> DEFINE OnTheWay == Sending(h, {"load", "busy", "xchg"})
  <2>2. Owed(h) => pending[h] = 1 \/ OnTheWay \/ Serving(h)
    OBVIOUS
  <2>3. ASSUME NEW t \in Threads, PostPublish(t) PROVE OnTheWay' \/ (Owed(h) /\ pending' = pending /\ (OnTheWay => OnTheWay'))
    <3>1. CASE dst[t] = h
      <4>1. dst'[t] = h /\ pc'[t] = "load" BY <2>3, <3>1 DEF PostPublish, Goto
      <4> QED BY <4>1 DEF Sending
    <3>2. CASE dst[t] # h
      <4>1. Owed(h) /\ pending' = pending BY <2>1, <2>3, <3>2 DEF PostPublish, Owed, async
      <4>2. OnTheWay => OnTheWay' BY <2>3, <3>2 DEF PostPublish, Sending, Goto
      <4> QED BY <4>1, <4>2
    <3> QED BY <3>1, <3>2
  <2>4. ASSUME NEW t \in Signallers, Signal(t) PROVE OnTheWay' \/ (Owed(h) /\ pending' = pending /\ (OnTheWay => OnTheWay'))
    <3>0. t \in Threads BY DEF Threads
    <3>1. CASE h = Shutdown
      <4>1. dst'[t] = h /\ pc'[t] = "load" BY <2>4, <3>0, <3>1 DEF Signal, Goto
      <4> QED BY <3>0, <4>1 DEF Sending
    <3>2. CASE h # Shutdown
      <4>1. Owed(h) /\ pending' = pending BY <2>1, <2>4, <3>2 DEF Signal, Owed, ring, async
      <4>2. OnTheWay => OnTheWay' BY <2>4, <3>0 DEF Signal, Sending, Goto
      <4> QED BY <4>1, <4>2
    <3> QED BY <3>1, <3>2
  <2>5. ASSUME NEW t \in Posters, NEW m \in Modules, PostBegin(t, m)
        PROVE  Owed(h) /\ pending' = pending /\ (OnTheWay => OnTheWay')
    <3>1. Owed(h)
      <4>1. \A s \in Signallers : s \in Threads /\ sent'[s] = sent[s]
        BY <2>5, ThreadsAssumption DEF PostBegin, Threads
      <4> QED BY <2>1, <2>5, <4>1 DEF PostBegin, Owed, ring
    <3>2. OnTheWay => OnTheWay' BY <2>5 DEF PostBegin, Sending, Goto, Threads
    <3> QED BY <2>5, <3>1, <3>2 DEF PostBegin, async
  <2>6. ASSUME NEW t \in Threads, SendSkip(t)
        PROVE  pending'[h] = 1 \/ (pending' = pending /\ (OnTheWay => OnTheWay'))
    <3>1. CASE dst[t] = h BY <2>6, <3>1 DEF SendSkip, async
    <3>2. CASE dst[t] # h
      BY <2>6, <3>2 DEF SendSkip, Sending, Goto, async
    <3> QED BY <3>1, <3>2
  <2>7. ASSUME NEW t \in Threads, SendExchange(t)
        PROVE  pending'[h] = 1 \/ (pending'[h] = pending[h] /\ (OnTheWay => OnTheWay'))
    <3>1. CASE dst[t] = h BY <2>7, <3>1 DEF SendExchange
    <3>2. CASE dst[t] # h
      BY <2>7, <3>2 DEF SendExchange, Sending, Goto
    <3> QED BY <3>1, <3>2
  <2>8. ASSUME NEW t \in Threads, ThreadStep(t), ~PostPublish(t), ~SendSkip(t), ~SendExchange(t)
        PROVE  pending' = pending /\ (OnTheWay => OnTheWay')
    BY <2>8 DEF ThreadStep, PostLock, PostFull, PostRoom, PostCopy, SendLoad, SendBusy,
       SendWrite, SendUnbusy, Sending, Goto, async
  <2>9. ASSUME NEW t \in Threads, ThreadStep(t), ~PostPublish(t) PROVE Owed(h)
    <3>1. UNCHANGED <<head, tail, sent>>
      BY <2>9 DEF ThreadStep, PostLock, PostFull, PostRoom, PostCopy, SendSkip, SendLoad,
         SendBusy, SendExchange, SendWrite, SendUnbusy, ring
    <3> QED BY <3>1 DEF Owed
  <2> HIDE DEF OnTheWay
  <2>10. ASSUME NEW t \in Threads, ThreadStep(t) PROVE pending'[h] = 1 \/ OnTheWay' \/ Serving(h)
    BY <2>2, <2>3, <2>6, <2>7, <2>8, <2>9, <2>10
  <2> QED BY <1>1, <2>2, <2>4, <2>5, <2>10 DEF CallStep, OnTheWay
<1>2. CASE LoopStep
  <2>1. ASSUME NEW h \in Handles
        PROVE  /\ Sending(h, {"load", "busy", "xchg"})' <=> Sending(h, {"load", "busy", "xchg"})
               /\ (head' = head /\ tail' = tail) => (Owed(h)' <=> Owed(h))
    BY <1>2, LoopFrame DEF Sending, thread, Owed
  <2> USE <2>1 DEF LoopAt, LoopOnly, ring, async, Serving, StopPhases, DrainPhases
  <2>2. CASE StartModule
    <3>1. ASSUME NEW h \in open', h = started + 1 PROVE ~Owed(h)'
      BY <2>2, <3>1 DEF StartModule, Owed
    <3>2. ASSUME NEW h \in open', h # started + 1
          PROVE  h \in open /\ pending'[h] = pending[h] /\ (Owed(h)' <=> Owed(h))
      BY <2>2, <3>2 DEF StartModule, Owed, thread
    <3>3. ASSUME NEW h \in open', Owed(h)'
          PROVE  pending'[h] = 1 \/ Sending(h, {"load", "busy", "xchg"})'
      BY <2>1, <2>2, <3>1, <3>2, <3>3 DEF StartModule
    <3> QED BY <3>3
  <2>3. CASE RunLoop BY <2>3 DEF RunLoop
  <2>4. CASE PollEvent BY <2>4 DEF PollEvent
  <2>5. CASE PollTimeout BY <2>5 DEF PollTimeout
  <2>6. ASSUME NEW h \in Handles, ScanHandle(h) PROVE OwedInv' BY <2>6 DEF ScanHandle
  <2>7. CASE ScanEnd BY <2>7 DEF ScanEnd
  <2>8. CASE DrainLock BY <2>8 DEF DrainLock
  <2>9. CASE DrainEmpty
    <3>1. ~Owed(cur)' BY <2>9 DEF DrainEmpty, Owed, LoopInv
    <3> QED BY <2>9, <3>1 DEF DrainEmpty
  <2>10. CASE DrainTake
    <3>1. \A h \in open : h # cur => (Owed(h)' <=> Owed(h))
      BY <2>10 DEF DrainTake, Owed, thread
    <3> QED BY <2>10, <3>1 DEF DrainTake
  <2>11. CASE CallbackReturn BY <2>11 DEF CallbackReturn
  <2>12. CASE TimersDone BY <2>12 DEF TimersDone
  <2>13. CASE LoopExit BY <2>13 DEF LoopExit
  <2>14. ASSUME NEW m \in Modules, StopModule(m) PROVE OwedInv' BY <2>14 DEF StopModule
  <2>15. CASE CloseModule BY <2>15 DEF CloseModule
  <2>16. CASE CloseShutdown BY <2>16 DEF CloseShutdown
  <2>17. CASE CloseDone BY <2>17 DEF CloseDone
  <2>18. CASE DestroyMutex BY <2>18 DEF DestroyMutex
  <2> QED BY <1>2, <2>2, <2>3, <2>4, <2>5, <2>6, <2>7, <2>8, <2>9, <2>10, <2>11, <2>12,
             <2>13, <2>14, <2>15, <2>16, <2>17, <2>18 DEF LoopStep
<1>3. CASE UNCHANGED vars
  BY <1>3 DEF vars, thread, ring, async, loop, Sending, Owed, Serving
<1> QED BY <1>1, <1>2, <1>3, NextSplit

LEMMA HandshakeInvariant == Spec => []HandshakeInv
<1>1. TypeInv /\ HandshakeInv /\ [Next]_vars => HandshakeInv'
  BY WakeNext, OwedNext DEF HandshakeInv
<1> QED BY <1>1, HandshakeInit, TypeInvariant, PTL DEF Spec

(* When the loop is about to block and the eventfd is not readable, whatever *)
(* is owed a callback has a sender that will still write the eventfd.        *)
THEOREM WakeupsNotLost == Spec => []NoLostWakeup
<1>1. TypeInv /\ HandshakeInv => NoLostWakeup
  BY DEF TypeInv, LoopInv, HandshakeInv, WakeInv, OwedInv, NoLostWakeup, Sending,
         Serving, StopPhases, DrainPhases
<1> QED BY <1>1, TypeInvariant, HandshakeInvariant, PTL
-----------------------------------------------------------------------------
(* A thread that is inside a ring whose mutex lives owns the mutex. *)
MutexInv == \A m \in Modules, t \in Threads :
              mutex[m] # Destroyed /\ InRing(t, m) => mutex[m] = t

LEMMA MutexInit == Init => MutexInv
BY DEF Init, MutexInv, InRing

LEMMA MutexNext == TypeInv /\ MutexInv /\ [Next]_vars => MutexInv'
<1> SUFFICES ASSUME TypeInv, MutexInv, [Next]_vars,
                    NEW m \in Modules, NEW u \in Threads,
                    mutex'[m] # Destroyed, InRing(u, m)'
             PROVE  mutex'[m] = u
  BY DEF MutexInv
<1>0. /\ TypeOK /\ PostInv /\ LoopInv
      /\ Loop \in Threads
      /\ mutex[m] # Destroyed /\ InRing(u, m) => mutex[m] = u
  BY DEF TypeInv, MutexInv, Threads, Posters
<1> USE <1>0, NumModulesAssumption, MutexAssumption
    DEF TypeOK, Handles, Modules, Shutdown, Lock, Unlock
<1>1. CASE CallStep
  <2>1. UNCHANGED <<cur, phase>> BY <1>1, CallFrame DEF loop
  <2> USE <2>1 DEF InRing, Goto
  <2>2. ASSUME NEW t \in Threads, PostLock(t) PROVE mutex'[m] = u
    BY <2>2 DEF PostLock
  <2>3. ASSUME NEW t \in Threads, PostFull(t) \/ PostPublish(t) PROVE mutex'[m] = u
    <3>1. pc[t] \in InPost /\ t = Loop => phase # "drain"
      BY DEF LoopInv, InPost, PostPhases
    <3> QED BY <2>3, <3>1 DEF PostFull, PostPublish, InPost
  <2>4. ASSUME NEW t \in Threads, ThreadStep(t), ~PostLock(t), ~PostFull(t), ~PostPublish(t)
        PROVE  mutex' = mutex /\ InRing(u, m)
    <3>1. CASE PostRoom(t) \/ PostCopy(t) BY <3>1 DEF PostRoom, PostCopy
    <3>2. CASE \/ SendSkip(t) \/ SendLoad(t) \/ SendBusy(t)
               \/ SendExchange(t) \/ SendWrite(t) \/ SendUnbusy(t)
      BY <3>2 DEF SendSkip, SendLoad, SendBusy, SendExchange, SendWrite, SendUnbusy
    <3> QED BY <2>4, <3>1, <3>2 DEF ThreadStep
  <2>5. ASSUME NEW t \in Posters, NEW n \in Modules, PostBegin(t, n)
        PROVE  mutex' = mutex /\ InRing(u, m)
    BY <2>5 DEF PostBegin
  <2>6. ASSUME NEW t \in Signallers, Signal(t) PROVE mutex' = mutex /\ InRing(u, m)
    BY <2>6 DEF Signal
  <2> QED BY <1>1, <2>2, <2>3, <2>4, <2>5, <2>6 DEF CallStep
<1>2. CASE LoopStep
  <2> USE DEF LoopAt, LoopOnly, InRing, thread
  <2>1. CASE StartModule
    BY <2>1 DEF StartModule, PostInv, InPost
  <2>2. CASE DrainLock
    <3>1. CASE m = cur /\ u = Loop BY <2>2, <3>1 DEF DrainLock
    <3>2. CASE ~(m = cur /\ u = Loop)
      <4>1. mutex[m] # Destroyed /\ InRing(u, m) BY <2>2, <3>2 DEF DrainLock
      <4> QED BY <2>2, <4>1 DEF DrainLock
    <3> QED BY <3>1, <3>2
  <2>3. CASE DrainEmpty
    <3>1. mutex[m] # Destroyed /\ InRing(u, m) /\ u # Loop BY <2>3 DEF DrainEmpty
    <3> QED BY <2>3, <3>1 DEF DrainEmpty
  <2>4. CASE DrainTake BY <2>4 DEF DrainTake
  <2>5. CASE DestroyMutex BY <2>5 DEF DestroyMutex
  <2>6. CASE ~(StartModule \/ DrainLock \/ DrainEmpty \/ DrainTake \/ DestroyMutex)
    <3>1. mutex' = mutex /\ phase' # "drain" /\ UNCHANGED thread
      BY <1>2, <2>6 DEF LoopStep, RunLoop, PollEvent, PollTimeout, ScanHandle, ScanEnd,
         CallbackReturn, TimersDone, LoopExit, StopModule, CloseModule, CloseShutdown,
         CloseDone
    <3> QED BY <3>1
  <2> QED BY <2>1, <2>2, <2>3, <2>4, <2>5, <2>6
<1>3. CASE UNCHANGED vars BY <1>3 DEF vars, thread, loop, InRing
<1> QED BY <1>1, <1>2, <1>3, NextSplit

(* At most one thread at a time is inside the ring of a module that has not  *)
(* been stopped.                                                             *)
THEOREM RingMutex == Spec => []RingExclusive
<1>1. MutexInv => RingExclusive BY DEF MutexInv, RingExclusive
<1>2. Spec => []MutexInv BY MutexInit, MutexNext, TypeInvariant, PTL DEF Spec
<1> QED BY <1>1, <1>2, PTL
-----------------------------------------------------------------------------
(* The refinement of Mailbox. First the ring as a value: what writing,        *)
(* publishing and taking do to the sequence of its messages.                  *)

Rings(S) == [Slots -> S]

LEMMA RingSizeBounds ==
  ASSUME NEW h \in Slots, NEW t \in Slots
  PROVE  /\ RingSize(h, t) \in 0..(QueueSize - 1) /\ RingSize(h, t) \in Nat
         /\ RingSize(h, t) = 0 <=> h = t
         /\ RingSize(h, t) = QueueSize - 1 <=> NextSlot(h) = t
         /\ NextSlot(h) \in Slots /\ NextSlot(t) \in Slots
         /\ NextSlot(h) # t => RingSize(NextSlot(h), t) = RingSize(h, t) + 1
         /\ h # t => RingSize(h, NextSlot(t)) = RingSize(h, t) - 1
BY QueueSizeAssumption DEF RingSize, NextSlot, Slots

LEMMA SlotAtFacts ==
  ASSUME NEW h \in Slots, NEW t \in Slots
  PROVE  /\ \A i \in 1..RingSize(h, t) : SlotAt(t, i) \in Slots /\ SlotAt(t, i) # h
         /\ SlotAt(t, RingSize(h, t) + 1) = h
         /\ SlotAt(t, 1) = t
         /\ \A i \in 1..(QueueSize - 1) : SlotAt(NextSlot(t), i) = SlotAt(t, i + 1)
<1>1. \A i \in 1..RingSize(h, t) : SlotAt(t, i) \in Slots /\ SlotAt(t, i) # h
  BY QueueSizeAssumption DEF RingSize, SlotAt, Slots
<1>2. SlotAt(t, RingSize(h, t) + 1) = h
  BY QueueSizeAssumption DEF RingSize, SlotAt, Slots
<1>3. SlotAt(t, 1) = t
  BY QueueSizeAssumption DEF SlotAt, Slots
<1>4. \A i \in 1..(QueueSize - 1) : SlotAt(NextSlot(t), i) = SlotAt(t, i + 1)
  BY QueueSizeAssumption DEF NextSlot, SlotAt, Slots
<1> QED BY <1>1, <1>2, <1>3, <1>4

LEMMA RingSeqType ==
  ASSUME NEW S, NEW a \in Rings(S), NEW h \in Slots, NEW t \in Slots
  PROVE  /\ RingSeq(h, t, a) \in Seq(S)
         /\ Len(RingSeq(h, t, a)) = RingSize(h, t)
         /\ \A i \in 1..RingSize(h, t) : RingSeq(h, t, a)[i] = a[SlotAt(t, i)]
<1> DEFINE n == RingSize(h, t)
<1>1. n \in Nat BY RingSizeBounds
<1>2. \A i \in 1..n : a[SlotAt(t, i)] \in S BY SlotAtFacts DEF Rings
<1>3. RingSeq(h, t, a) = [i \in 1..n |-> a[SlotAt(t, i)]] BY DEF RingSeq
<1> HIDE DEF n
<1>4. RingSeq(h, t, a) \in [1..n -> S] BY <1>2, <1>3
<1>5. RingSeq(h, t, a) \in Seq(S) /\ Len(RingSeq(h, t, a)) = n BY <1>1, <1>4
<1> QED BY <1>3, <1>5 DEF n

(* Publishing the slot at the head appends its message. *)
LEMMA RingPublish ==
  ASSUME NEW S, NEW a \in Rings(S), NEW h \in Slots, NEW t \in Slots, NextSlot(h) # t
  PROVE  RingSeq(NextSlot(h), t, a) = Append(RingSeq(h, t, a), a[h])
<1> DEFINE r == RingSeq(h, t, a)
           n == RingSize(h, t)
           u == RingSeq(NextSlot(h), t, a)
           v == Append(r, a[h])
<1>1. /\ n \in Nat /\ NextSlot(h) \in Slots /\ RingSize(NextSlot(h), t) = n + 1
  BY RingSizeBounds
<1>2. /\ r \in Seq(S) /\ Len(r) = n
      /\ \A i \in 1..n : r[i] = a[SlotAt(t, i)]
  BY RingSeqType
<1>3. /\ u \in Seq(S) /\ Len(u) = n + 1
      /\ \A i \in 1..(n + 1) : u[i] = a[SlotAt(t, i)]
  <2>1. PICK s \in Slots : s = NextSlot(h) BY <1>1
  <2>2. /\ RingSeq(s, t, a) \in Seq(S) /\ Len(RingSeq(s, t, a)) = RingSize(s, t)
        /\ \A i \in 1..RingSize(s, t) : RingSeq(s, t, a)[i] = a[SlotAt(t, i)]
    BY RingSeqType
  <2> QED BY <1>1, <2>1, <2>2
<1>4. SlotAt(t, n + 1) = h BY SlotAtFacts
<1>5. a[h] \in S BY DEF Rings
<1> HIDE DEF r, n, u
<1>6. /\ v \in Seq(S) /\ Len(v) = n + 1
      /\ \A i \in 1..n : v[i] = r[i]
      /\ v[n + 1] = a[h]
  BY <1>2, <1>5, AppendProperties
<1> HIDE DEF v
<1>7. \A i \in 1..(n + 1) : u[i] = v[i]
  <2> TAKE i \in 1..(n + 1)
  <2>1. CASE i \in 1..n BY <2>1, <1>2, <1>3, <1>6
  <2>2. CASE i = n + 1 BY <2>2, <1>3, <1>4, <1>6
  <2> QED BY <1>1, <2>1, <2>2
<1> QED BY <1>3, <1>6, <1>7, SeqEqual DEF r, u, v

(* Taking the message at the tail. *)
LEMMA RingTake ==
  ASSUME NEW S, NEW a \in Rings(S), NEW h \in Slots, NEW t \in Slots, h # t
  PROVE  /\ RingSeq(h, t, a) # <<>>
         /\ Head(RingSeq(h, t, a)) = a[t]
         /\ Tail(RingSeq(h, t, a)) = RingSeq(h, NextSlot(t), a)
<1> DEFINE r == RingSeq(h, t, a)
           n == RingSize(h, t)
           u == RingSeq(h, NextSlot(t), a)
<1>1. /\ n \in Nat \ {0} /\ n \in 0..(QueueSize - 1)
      /\ NextSlot(t) \in Slots /\ RingSize(h, NextSlot(t)) = n - 1
  BY RingSizeBounds
<1>2. /\ r \in Seq(S) /\ Len(r) = n
      /\ \A i \in 1..n : r[i] = a[SlotAt(t, i)]
  BY RingSeqType
<1>3. /\ u \in Seq(S) /\ Len(u) = n - 1
      /\ \A i \in 1..(n - 1) : u[i] = a[SlotAt(NextSlot(t), i)]
  <2>1. PICK s \in Slots : s = NextSlot(t) BY <1>1
  <2>2. /\ RingSeq(h, s, a) \in Seq(S) /\ Len(RingSeq(h, s, a)) = RingSize(h, s)
        /\ \A i \in 1..RingSize(h, s) : RingSeq(h, s, a)[i] = a[SlotAt(s, i)]
    BY RingSeqType
  <2> QED BY <1>1, <2>1, <2>2
<1>4. /\ SlotAt(t, 1) = t
      /\ \A i \in 1..(n - 1) : SlotAt(NextSlot(t), i) = SlotAt(t, i + 1)
  <2>1. 1..(n - 1) \subseteq 1..(QueueSize - 1) BY <1>1, QueueSizeAssumption
  <2> QED BY <2>1, SlotAtFacts
<1> HIDE DEF r, n, u
<1>5. r # <<>> BY <1>1, <1>2
<1>6. r[1] = a[t] BY <1>1, <1>2, <1>4
<1>7. \A i \in 1..(n - 1) : u[i] = r[i + 1]
  <2> TAKE i \in 1..(n - 1)
  <2>1. i + 1 \in 1..n BY <1>1
  <2> QED BY <2>1, <1>2, <1>3, <1>4
<1>8. /\ Tail(r) \in Seq(S) /\ Len(Tail(r)) = n - 1
      /\ \A i \in 1..(n - 1) : Tail(r)[i] = r[i + 1]
  BY <1>2, <1>5, HeadTailProperties
<1>9. Head(r) = r[1] BY <1>2, <1>5
<1>10. Tail(r) = u BY <1>3, <1>7, <1>8, SeqEqual
<1> QED BY <1>5, <1>6, <1>9, <1>10 DEF r, u

(* Writing the slot at the head changes no message of the ring. *)
LEMMA RingCopy ==
  ASSUME NEW S, NEW a \in Rings(S), NEW h \in Slots, NEW t \in Slots, NEW x
  PROVE  RingSeq(h, t, [a EXCEPT ![h] = x]) = RingSeq(h, t, a)
<1>1. \A i \in 1..RingSize(h, t) : [a EXCEPT ![h] = x][SlotAt(t, i)] = a[SlotAt(t, i)]
  BY SlotAtFacts DEF Rings
<1> QED BY <1>1 DEF RingSeq

-----------------------------------------------------------------------------
(* What the refinement needs of a module that is not stopped: its mutex       *)
(* lives, its ring is empty before it is started, a thread that is copying    *)
(* has the head's slot, and no message is being handled but in on_message.    *)
AliveInv == \A m \in Modules : mutex[m] = Destroyed => m \in Stopped
FreshInv == \A m \in Modules : m > started => head[m] = tail[m]
CopyInv == \A t \in Threads :
             dst[t] \in Modules \ Stopped /\ pc[t] \in {"copy", "publish"} =>
               /\ slot[t] = head[dst[t]]
               /\ ~Full(dst[t])
               /\ pc[t] = "publish" => msgs[dst[t]][slot[t]] = Message(t)
HandInv == phase # "callback" => hand = NoMsg
RetInv == \A t \in Posters : sent[t] > 0 /\ ret[t] = "none" <=> pc[t] \in InPost

RefinementInv == AliveInv /\ FreshInv /\ CopyInv /\ HandInv /\ RetInv

LEMMA RefinementInit == Init => RefinementInv
BY MutexAssumption
DEF Init, RefinementInv, AliveInv, FreshInv, CopyInv, HandInv, RetInv, Posters, Threads, InPost

(* Only the end of a close stops a module. *)
LEMMA StoppedSteps ==
  ASSUME TypeInv, [Next]_vars
  PROVE  /\ ~CloseDone => Stopped' = Stopped
         /\ CloseDone => Stopped' = Stopped \cup ({cur} \ {Shutdown})
<1>0. TypeOK /\ LoopInv BY DEF TypeInv
<1> USE <1>0, NumModulesAssumption DEF TypeOK, Modules, Handles, Shutdown, Stopped
<1>1. CASE UNCHANGED <<started, open>>
  <2>1. CloseDone => cur = Shutdown
    BY <1>1 DEF CloseDone, LoopAt, LoopInv
  <2> QED BY <1>1, <2>1
<1>2. CASE StartModule
  <2>1. ~CloseDone BY <1>2 DEF StartModule, CloseDone, LoopAt
  <2>2. started' = started + 1 /\ open' = open \cup {started + 1}
    BY <1>2 DEF StartModule
  <2> QED BY <2>1, <2>2
<1>3. CASE CloseDone
  <2>1. cur \in open /\ open' = open \ {cur} /\ started' = started
    BY <1>3 DEF CloseDone, LoopAt, LoopInv
  <2> QED BY <1>3, <2>1
<1>4. CallStep => UNCHANGED <<started, open>> BY CallFrame DEF loop
<1>5. LoopStep => StartModule \/ CloseDone \/ UNCHANGED <<started, open>>
  BY DEF LoopStep, RunLoop, PollEvent, PollTimeout, ScanHandle, ScanEnd,
         DrainLock, DrainEmpty, DrainTake, CallbackReturn, TimersDone, LoopExit,
         StopModule, CloseModule, CloseShutdown, DestroyMutex
<1>6. UNCHANGED vars => UNCHANGED <<started, open>> BY DEF vars, loop
<1> QED BY <1>1, <1>2, <1>3, <1>4, <1>5, <1>6, NextSplit

LEMMA AliveNext == TypeInv /\ AliveInv /\ [Next]_vars => AliveInv'
<1> SUFFICES ASSUME TypeInv, AliveInv, [Next]_vars,
                    NEW m \in Modules, mutex'[m] = Destroyed
             PROVE  m \in Stopped'
  BY DEF AliveInv
<1>0. TypeOK /\ LoopInv /\ Stopped \subseteq Stopped' /\ Loop \in Threads
  BY StoppedSteps DEF TypeInv, Threads, Posters
<1> USE <1>0, ThreadsAssumption, MutexAssumption DEF TypeOK, AliveInv
<1>1. mutex[m] = Destroyed => m \in Stopped' OBVIOUS
<1>2. ASSUME NEW t \in Threads, ThreadStep(t) PROVE mutex[m] = Destroyed
  BY <1>2 DEF ThreadStep, PostLock, PostFull, PostRoom, PostCopy, PostPublish, SendSkip,
         SendLoad, SendBusy, SendExchange, SendWrite, SendUnbusy, Lock, Unlock
<1>3. ASSUME NEW t \in Posters, NEW n \in Modules, PostBegin(t, n) PROVE mutex[m] = Destroyed
  BY <1>3 DEF PostBegin
<1>4. ASSUME NEW t \in Signallers, Signal(t) PROVE mutex[m] = Destroyed
  BY <1>4 DEF Signal
<1>5. CASE DestroyMutex
  <2>1. cur \in (1..started) \ open BY <1>5 DEF DestroyMutex, LoopAt, LoopInv
  <2>2. m = cur => m \in Stopped BY <2>1 DEF Stopped, Modules
  <2> QED BY <1>1, <1>5, <2>2 DEF DestroyMutex
<1>6. CASE LoopStep /\ ~DestroyMutex
  <2>1. CASE StartModule BY <1>1, <2>1 DEF StartModule
  <2>2. CASE DrainLock \/ DrainEmpty \/ DrainTake
    BY <1>1, <2>2 DEF DrainLock, DrainEmpty, DrainTake, Lock, Unlock
  <2>3. CASE ~(StartModule \/ DrainLock \/ DrainEmpty \/ DrainTake)
    BY <1>1, <1>6, <2>3 DEF LoopStep, RunLoop, PollEvent, PollTimeout, ScanHandle,
       ScanEnd, CallbackReturn, TimersDone, LoopExit, StopModule, CloseModule,
       CloseShutdown, CloseDone, LoopOnly
  <2> QED BY <2>1, <2>2, <2>3
<1>7. CASE UNCHANGED vars BY <1>1, <1>7 DEF vars
<1> QED BY <1>1, <1>2, <1>3, <1>4, <1>5, <1>6, <1>7, NextSplit DEF CallStep

LEMMA FreshNext == TypeInv /\ FreshInv /\ [Next]_vars => FreshInv'
<1> SUFFICES ASSUME TypeInv, FreshInv, [Next]_vars,
                    NEW m \in Modules, m > started'
             PROVE  head'[m] = tail'[m]
  BY DEF FreshInv
<1>0. TypeOK /\ PostInv /\ LoopInv /\ started \in Nat /\ started' \in Nat /\ started <= started'
  <2>1. started \in Nat /\ TypeOK /\ PostInv /\ LoopInv
    BY NumModulesAssumption DEF TypeInv, TypeOK
  <2>2. started' = started \/ started' = started + 1
    BY CallFrame, LoopFrame, NextSplit DEF loop, StartModule, vars
  <2> QED BY <2>1, <2>2
<1>1. m \in Nat /\ m > started /\ head[m] = tail[m]
  BY <1>0 DEF FreshInv, Modules
<1> USE <1>0, <1>1 DEF TypeOK
<1>2. CASE CallStep
  <2>1. tail' = tail BY <1>2, CallFrame
  <2>2. ASSUME NEW t \in Threads, PostPublish(t) PROVE head'[m] = head[m]
    <3>1. dst[t] \in 1..started BY <2>2 DEF PostPublish, PostInv, InPost
    <3> QED BY <2>2, <3>1 DEF PostPublish
  <2>3. ASSUME NEW t \in Threads, ThreadStep(t), ~PostPublish(t) PROVE head' = head
    BY <2>3 DEF ThreadStep, PostLock, PostFull, PostRoom, PostCopy, SendSkip,
         SendLoad, SendBusy, SendExchange, SendWrite, SendUnbusy, ring
  <2>4. ASSUME NEW t \in Posters, NEW n \in Modules, PostBegin(t, n) PROVE head' = head
    BY <2>4 DEF PostBegin, ring
  <2>5. ASSUME NEW t \in Signallers, Signal(t) PROVE head' = head
    BY <2>5 DEF Signal, ring
  <2> QED BY <1>2, <2>1, <2>2, <2>3, <2>4, <2>5 DEF CallStep
<1>3. CASE StartModule BY <1>3 DEF StartModule
<1>4. CASE DrainTake
  <2>1. cur \in 0..started BY <1>4 DEF DrainTake, LoopAt, LoopInv, DrainPhases
  <2> QED BY <1>4, <2>1 DEF DrainTake
<1>5. CASE LoopStep /\ ~StartModule /\ ~DrainTake
  BY <1>5 DEF LoopStep, RunLoop, PollEvent, PollTimeout, ScanHandle, DrainLock, DrainEmpty,
     ScanEnd, CallbackReturn, TimersDone, LoopExit, StopModule, CloseModule,
     CloseShutdown, CloseDone, DestroyMutex, LoopOnly, ring
<1>6. CASE UNCHANGED vars BY <1>6 DEF vars, ring
<1> QED BY <1>2, <1>3, <1>4, <1>5, <1>6, NextSplit

LEMMA HandNext == TypeInv /\ HandInv /\ [Next]_vars => HandInv'
<1> SUFFICES ASSUME TypeInv, HandInv, [Next]_vars PROVE HandInv' OBVIOUS
<1> USE DEF HandInv
<1>1. CASE CallStep BY <1>1, CallFrame DEF loop
<1>2. CASE LoopStep
  BY <1>2 DEF LoopStep, StartModule, RunLoop, PollEvent, PollTimeout, ScanHandle, DrainLock,
     DrainEmpty, DrainTake, ScanEnd, CallbackReturn, TimersDone, LoopExit, StopModule,
     CloseModule, CloseShutdown, CloseDone, DestroyMutex, LoopAt
<1>3. CASE UNCHANGED vars BY <1>3 DEF vars, loop
<1> QED BY <1>1, <1>2, <1>3, NextSplit

LEMMA RetNext == TypeInv /\ RetInv /\ [Next]_vars => RetInv'
<1> SUFFICES ASSUME TypeInv, RetInv, [Next]_vars, NEW u \in Posters
             PROVE  (sent[u] > 0 /\ ret[u] = "none" <=> pc[u] \in InPost)'
  BY DEF RetInv
<1>0. TypeOK /\ u \in Threads BY DEF TypeInv, Threads
<1>1. sent[u] > 0 /\ ret[u] = "none" <=> pc[u] \in InPost BY DEF RetInv
<1> USE <1>0, <1>1 DEF TypeOK, Goto, InPost, InSend
<1>2. ASSUME NEW t \in Threads, ThreadStep(t)
      PROVE  (sent[u] > 0 /\ ret[u] = "none" <=> pc[u] \in InPost)'
  BY <1>2 DEF ThreadStep, PostLock, PostFull, PostRoom, PostCopy, PostPublish, SendSkip,
     SendLoad, SendBusy, SendExchange, SendWrite, SendUnbusy
<1>3. ASSUME NEW t \in Posters, NEW m \in Modules, PostBegin(t, m)
      PROVE  (sent[u] > 0 /\ ret[u] = "none" <=> pc[u] \in InPost)'
  <2>1. t \in Threads BY DEF Threads
  <2> QED BY <1>3, <2>1 DEF PostBegin
<1>4. ASSUME NEW t \in Signallers, Signal(t)
      PROVE  (sent[u] > 0 /\ ret[u] = "none" <=> pc[u] \in InPost)'
  <2>1. t \in Threads /\ t # u BY ThreadsAssumption DEF Threads
  <2> QED BY <1>4, <2>1 DEF Signal
<1>5. LoopStep \/ UNCHANGED vars => (sent[u] > 0 /\ ret[u] = "none" <=> pc[u] \in InPost)'
  BY LoopFrame DEF vars, thread
<1> QED BY <1>2, <1>3, <1>4, <1>5, NextSplit DEF CallStep

(* Two threads are not in the ring of a module that is not stopped, and the   *)
(* loop takes no message from a ring that a thread is copying into.           *)
LEMMA AloneInRing ==
  ASSUME TypeInv, MutexInv, AliveInv,
         NEW t \in Threads, dst[t] \in Modules \ Stopped, pc[t] \in {"check", "copy", "publish"}
  PROVE  /\ \A u \in Threads : dst[u] = dst[t] /\ pc[u] \in {"check", "copy", "publish"} => u = t
         /\ ~(LoopAt("drain") /\ cur = dst[t])
<1>1. mutex[dst[t]] # Destroyed BY DEF AliveInv
<1>2. mutex[dst[t]] = t BY <1>1 DEF MutexInv, InRing
<1>3. \A u \in Threads : dst[u] = dst[t] /\ pc[u] \in {"check", "copy", "publish"} => u = t
  BY <1>1, <1>2 DEF MutexInv, InRing
<1>4. LoopAt("drain") /\ cur = dst[t] => t = Loop
  BY <1>1, <1>2 DEF MutexInv, InRing, LoopAt, Threads, Posters
<1> QED BY <1>3, <1>4 DEF LoopAt

LEMMA CopyNext == TypeInv /\ MutexInv /\ RefinementInv /\ [Next]_vars => CopyInv'
<1> DEFINE Copied(u) == dst[u] \in Modules \ Stopped /\ pc[u] \in {"copy", "publish"} =>
                          /\ slot[u] = head[dst[u]]
                          /\ ~Full(dst[u])
                          /\ pc[u] = "publish" => msgs[dst[u]][slot[u]] = Message(u)
<1> SUFFICES ASSUME TypeInv, MutexInv, RefinementInv, [Next]_vars, NEW u \in Threads
             PROVE  Copied(u)'
  BY DEF CopyInv
<1>0. /\ TypeOK /\ PostInv /\ AliveInv /\ Copied(u)
      /\ Stopped \subseteq Stopped'
  BY StoppedSteps DEF TypeInv, RefinementInv, CopyInv
<1>a. ASSUME UNCHANGED <<head, tail, msgs>>, dst'[u] = dst[u], sent'[u] = sent[u],
             slot'[u] = slot[u], pc'[u] = pc[u]
      PROVE  Copied(u)'
  BY <1>0, <1>a DEF Full, Message
<1> HIDE DEF Copied
<1>1. ASSUME NEW t \in Threads, PostRoom(t) PROVE Copied(u)'
  <2>1. CASE u = t
    BY <1>0, <1>1, <2>1 DEF PostRoom, Copied, Full, Goto, TypeOK, ring, NextSlot
  <2>2. CASE u # t BY <1>0, <1>1, <1>a, <2>2 DEF PostRoom, Goto, TypeOK, ring
  <2> QED BY <2>1, <2>2
<1>2. ASSUME NEW t \in Threads, PostCopy(t) PROVE Copied(u)'
  <2>1. /\ UNCHANGED <<head, tail, dst, slot, sent>>
        /\ dst[t] \in Modules /\ slot[t] \in Slots
        /\ pc' = [pc EXCEPT ![t] = "publish"]
        /\ msgs' = [msgs EXCEPT ![dst[t]][slot[t]] = Message(t)]
    BY <1>0, <1>2, NumModulesAssumption DEF PostCopy, Goto, PostInv, TypeOK, InPost, Modules
  <2>2. CASE u = t
    <3>1. pc[t] = "copy" BY <1>2 DEF PostCopy
    <3>2. msgs'[dst[t]][slot[t]] = Message(t) BY <1>0, <2>1 DEF TypeOK
    <3> QED BY <1>0, <2>1, <2>2, <3>1, <3>2 DEF Copied, Full, Message, TypeOK
  <2>3. CASE u # t
    <3> SUFFICES ASSUME dst'[u] \in Modules \ Stopped', pc'[u] \in {"copy", "publish"}
                 PROVE  dst[u] # dst[t]
      BY <1>0, <2>1, <2>3 DEF Copied, Full, Message, TypeOK
    <3>1. dst[u] \in Modules \ Stopped /\ pc[u] \in {"check", "copy", "publish"}
      BY <1>0, <2>1, <2>3 DEF TypeOK
    <3>2. pc[t] = "copy" BY <1>2 DEF PostCopy
    <3> QED BY <1>0, <2>3, <3>1, <3>2, AloneInRing
  <2> QED BY <2>2, <2>3
<1>3. ASSUME NEW t \in Threads, PostPublish(t) PROVE Copied(u)'
  <2>1. /\ UNCHANGED <<tail, msgs, dst, slot, sent>>
        /\ dst[t] \in Modules
        /\ pc' = [pc EXCEPT ![t] = "load"]
        /\ head' = [head EXCEPT ![dst[t]] = NextSlot(slot[t])]
    BY <1>0, <1>3, NumModulesAssumption DEF PostPublish, Goto, PostInv, TypeOK, InPost, Modules
  <2>2. CASE u = t BY <1>0, <2>1, <2>2 DEF Copied, TypeOK
  <2>3. CASE u # t
    <3> SUFFICES ASSUME dst'[u] \in Modules \ Stopped', pc'[u] \in {"copy", "publish"}
                 PROVE  dst[u] # dst[t]
      BY <1>0, <2>1, <2>3 DEF Copied, Full, Message, TypeOK
    <3>1. dst[u] \in Modules \ Stopped /\ pc[u] \in {"check", "copy", "publish"}
      BY <1>0, <2>1, <2>3 DEF TypeOK
    <3>2. pc[t] = "publish" BY <1>3 DEF PostPublish
    <3> QED BY <1>0, <2>3, <3>1, <3>2, AloneInRing
  <2> QED BY <2>2, <2>3
<1>4. ASSUME NEW t \in Threads, ThreadStep(t), ~PostRoom(t), ~PostCopy(t), ~PostPublish(t)
      PROVE  Copied(u)'
  <2>1. /\ UNCHANGED <<head, tail, msgs, dst, slot, sent>>
        /\ pc'[t] \notin {"copy", "publish"} /\ \A v \in Threads : v # t => pc'[v] = pc[v]
    BY <1>0, <1>4 DEF ThreadStep, PostLock, PostFull, SendSkip, SendLoad, SendBusy,
       SendExchange, SendWrite, SendUnbusy, ring, Goto, TypeOK
  <2>2. CASE u = t BY <2>1, <2>2 DEF Copied
  <2>3. CASE u # t BY <1>a, <2>1, <2>3
  <2> QED BY <2>2, <2>3
<1>5. ASSUME NEW t \in Posters, NEW n \in Modules, PostBegin(t, n) PROVE Copied(u)'
  <2>1. t \in Threads BY DEF Threads
  <2>2. CASE u = t BY <1>0, <1>5, <2>1, <2>2 DEF PostBegin, Copied, Goto, TypeOK
  <2>3. CASE u # t BY <1>0, <1>a, <1>5, <2>1, <2>3 DEF PostBegin, Goto, TypeOK, ring
  <2> QED BY <2>2, <2>3
<1>6. ASSUME NEW t \in Signallers, Signal(t) PROVE Copied(u)'
  <2>1. t \in Threads BY DEF Threads
  <2>2. CASE u = t BY <1>0, <1>6, <2>1, <2>2 DEF Signal, Copied, Goto, TypeOK
  <2>3. CASE u # t BY <1>0, <1>a, <1>6, <2>1, <2>3 DEF Signal, Goto, TypeOK, ring
  <2> QED BY <2>2, <2>3
<1>7. CASE StartModule
  <2>1. /\ UNCHANGED <<msgs, dst, slot, sent, pc>>
        /\ head' = [head EXCEPT ![started + 1] = 0]
        /\ tail' = [tail EXCEPT ![started + 1] = 0]
    BY <1>7 DEF StartModule, thread
  <2>2. pc[u] \in {"copy", "publish"} => dst[u] # started + 1
    BY <1>0, NumModulesAssumption DEF PostInv, InPost, TypeOK
  <2> QED BY <1>0, <2>1, <2>2 DEF Copied, Full, Message, TypeOK
<1>8. CASE DrainTake
  <2>1. /\ UNCHANGED <<head, msgs, dst, slot, sent, pc>>
        /\ tail' = [tail EXCEPT ![cur] = NextSlot(@)] /\ LoopAt("drain")
    BY <1>8 DEF DrainTake, thread
  <2> SUFFICES ASSUME dst'[u] \in Modules \ Stopped', pc'[u] \in {"copy", "publish"}
               PROVE  dst[u] # cur
    BY <1>0, <2>1 DEF Copied, Full, Message, TypeOK
  <2> QED BY <1>0, <2>1, AloneInRing
<1>9. CASE LoopStep /\ ~StartModule /\ ~DrainTake
  <2>1. UNCHANGED <<head, tail, msgs>>
    BY <1>9 DEF LoopStep, RunLoop, PollEvent, PollTimeout, ScanHandle, DrainLock, DrainEmpty,
       ScanEnd, CallbackReturn, TimersDone, LoopExit, StopModule, CloseModule,
       CloseShutdown, CloseDone, DestroyMutex, LoopOnly, ring
  <2> QED BY <1>a, <1>9, <2>1, LoopFrame DEF thread
<1>10. CASE UNCHANGED vars BY <1>a, <1>10 DEF vars, ring, thread
<1> QED BY <1>1, <1>2, <1>3, <1>4, <1>5, <1>6, <1>7, <1>8, <1>9, <1>10, NextSplit DEF CallStep

LEMMA RefinementInvariant == Spec => [](TypeInv /\ RefinementInv)
<1>1. TypeInv /\ MutexInv /\ RefinementInv /\ [Next]_vars => RefinementInv'
  BY AliveNext, FreshNext, CopyNext, HandNext, RetNext DEF RefinementInv
<1> QED BY <1>1, RefinementInit, TypeInvariant, MutexInit, MutexNext, PTL DEF Spec

-----------------------------------------------------------------------------
(* How the steps of ModuleMailbox look in Mailbox. *)

LEMMA ContentsRing ==
  ASSUME TypeOK, NEW m \in Modules
  PROVE  /\ Contents(m) = RingSeq(head[m], tail[m], msgs[m])
         /\ head[m] \in Slots /\ tail[m] \in Slots
         /\ msgs[m] \in [Slots -> Msgs \cup {NoMsg}]
         /\ Len(Contents(m)) = RingSize(head[m], tail[m])
<1>1. Contents(m) = RingSeq(head[m], tail[m], msgs[m]) BY DEF Contents
<1>2. /\ head[m] \in Slots /\ tail[m] \in Slots
      /\ msgs[m] \in [Slots -> Msgs \cup {NoMsg}]
  BY DEF TypeOK
<1>3. Len(RingSeq(head[m], tail[m], msgs[m])) = RingSize(head[m], tail[m])
  <2>1. PICK h \in Slots : h = head[m] BY <1>2
  <2>2. PICK t \in Slots : t = tail[m] BY <1>2
  <2>3. PICK S : S = Msgs \cup {NoMsg} OBVIOUS
  <2>4. PICK a \in Rings(S) : a = msgs[m] BY <1>2, <2>3 DEF Rings
  <2>5. Len(RingSeq(h, t, a)) = RingSize(h, t) BY RingSeqType
  <2> QED BY <2>1, <2>2, <2>4, <2>5
<1> QED BY <1>1, <1>2, <1>3

LEMMA ContentsNext ==
  \A m \in Modules : Contents(m)' = RingSeq(head'[m], tail'[m], msgs'[m])
BY DEF Contents

LEMMA BoxFrame == UNCHANGED <<head, tail, msgs>> /\ Stopped' = Stopped => Box' = Box
BY DEF Box, Contents

(* What a thread posts, and where to, does not change before its next call. *)
LEMMA CalledFrame ==
  ASSUME TypeInv, [Next]_vars, \A t \in Posters, m \in Modules : ~PostBegin(t, m)
  PROVE  Called' = Called
<1>1. \A t \in Posters : t \in Threads /\ t \notin Signallers BY ThreadsAssumption DEF Threads
<1>2. ASSUME NEW t \in Threads, ThreadStep(t) PROVE UNCHANGED <<sent, dst>>
  BY <1>2 DEF ThreadStep, PostLock, PostFull, PostRoom, PostCopy, PostPublish, SendSkip,
     SendLoad, SendBusy, SendExchange, SendWrite, SendUnbusy
<1>3. ASSUME NEW t \in Signallers, Signal(t)
      PROVE  \A u \in Posters : sent'[u] = sent[u] /\ dst'[u] = dst[u]
  BY <1>1, <1>3 DEF Signal, TypeInv, TypeOK
<1>4. LoopStep \/ UNCHANGED vars => UNCHANGED <<sent, dst>> BY LoopFrame DEF vars, thread
<1>5. \A u \in Posters : sent'[u] = sent[u] /\ dst'[u] = dst[u]
  BY <1>2, <1>3, <1>4, NextSplit DEF CallStep
<1> QED BY <1>5 DEF Called, Message

(* A thread in armd_module_post is in a call of Mailbox. *)
LEMMA CallUnderWay ==
  ASSUME TypeInv, RefinementInv, NEW t \in Posters
  PROVE  /\ pc[t] \in InPost => Abstract!InCall(t) /\ Called[t] = <<dst[t], Message(t)>>
         /\ pc[t] \notin InPost => ~Abstract!InCall(t)
<1>1. sent[t] > 0 /\ ret[t] = "none" <=> pc[t] \in InPost BY DEF RefinementInv, RetInv
<1>2. sent[t] \in Nat BY DEF TypeInv, TypeOK, Threads
<1>3. Called[t] = IF sent[t] = 0 THEN <<>> ELSE <<dst[t], Message(t)>> BY DEF Called
<1>4. Called[t] # <<>> <=> sent[t] > 0 BY <1>2, <1>3
<1> QED BY <1>1, <1>2, <1>3, <1>4 DEF Abstract!InCall

LEMMA SimulationInit == Init => Abstract!Init
<1> SUFFICES ASSUME Init PROVE Abstract!Init OBVIOUS
<1>1. Stopped = {} BY NumModulesAssumption DEF Init, Stopped, Modules
<1>2. RingSize(0, 0) = 0 BY DEF RingSize
<1>3. \A m \in Modules : Contents(m) = <<>> BY <1>2 DEF Init, Contents, RingSeq
<1>4. Box = [m \in Modules |-> <<>>] BY <1>1, <1>3 DEF Box
<1>5. Called = [t \in Posters |-> <<>>] BY DEF Init, Called, Threads
<1> QED BY <1>1, <1>4, <1>5 DEF Init, Abstract!Init

LEMMA SimulationFull ==
  ASSUME TypeInv, RefinementInv, NEW t \in Threads, PostFull(t), Stopped' = Stopped,
         Called' = Called
  PROVE  Abstract!Next
<1> DEFINE m == dst[t]
           x == Message(t)
<1>1. m \in Modules /\ t \in Posters /\ TypeOK /\ x \in Msgs /\ pc[t] \in InPost
  BY NumModulesAssumption
  DEF TypeInv, TypeOK, PostInv, PostFull, InPost, Modules, Message, Msgs
<1>c. Abstract!InCall(t) /\ Called[t] = <<m, x>> BY <1>1, CallUnderWay
<1>2. /\ Box' = Box /\ hand' = hand /\ Full(m)
      /\ ret' = [ret EXCEPT ![t] = "nospace"]
  BY BoxFrame DEF PostFull, ring, loop
<1>3. CASE m \in Stopped
  <2>1. Abstract!PostToClosed(t, m, x)
    BY <1>2, <1>3, <1>c DEF Abstract!PostToClosed, Abstract!Answer
  <2> QED BY <1>1, <2>1 DEF Abstract!Next
<1>4. CASE m \notin Stopped
  <2>1. Box[m] = Contents(m) BY <1>1, <1>4 DEF Box
  <2>2. Len(Contents(m)) = QueueSize - 1 BY <1>1, <1>2, ContentsRing, RingSizeBounds DEF Full
  <2>3. Abstract!Refuse(t, m, x)
    BY <1>2, <1>4, <1>c, <2>1, <2>2 DEF Abstract!Refuse, Abstract!Answer
  <2> QED BY <1>1, <2>3 DEF Abstract!Next
<1> QED BY <1>3, <1>4

LEMMA SimulationPublish ==
  ASSUME TypeInv, RefinementInv, NEW t \in Threads, PostPublish(t), Stopped' = Stopped,
         Called' = Called
  PROVE  Abstract!Next
<1>1. /\ dst[t] \in Modules /\ t \in Posters /\ TypeOK
      /\ Message(t) \in Msgs /\ pc[t] = "publish"
  BY NumModulesAssumption
  DEF TypeInv, TypeOK, PostInv, PostPublish, InPost, Modules, Message, Msgs
<1>m. PICK m \in Modules : m = dst[t] BY <1>1
<1>c. Abstract!InCall(t) /\ Called[t] = <<m, Message(t)>>
  BY <1>1, <1>m, CallUnderWay DEF InPost
<1>2. /\ UNCHANGED <<tail, msgs, hand>>
      /\ head' = [head EXCEPT ![m] = NextSlot(slot[t])]
      /\ ret' = [ret EXCEPT ![t] = "ok"]
  BY <1>m DEF PostPublish, loop
<1>3. \A n \in Modules : n # m => Contents(n)' = Contents(n)
  BY <1>1, <1>2, ContentsRing, ContentsNext DEF TypeOK
<1>4. CASE m \in Stopped
  <2>1. Box' = Box BY <1>3, <1>4 DEF Box
  <2>2. Abstract!PostToClosed(t, m, Message(t))
    BY <1>2, <1>4, <1>c, <2>1 DEF Abstract!PostToClosed, Abstract!Answer
  <2> QED BY <1>1, <2>2 DEF Abstract!Next
<1>5. CASE m \notin Stopped
  <2>1. slot[t] = head[m] /\ NextSlot(head[m]) # tail[m] /\ msgs[m][head[m]] = Message(t)
    BY <1>1, <1>m, <1>5 DEF RefinementInv, CopyInv, Full
  <2>2. /\ head[m] \in Slots /\ tail[m] \in Slots /\ msgs[m] \in [Slots -> Msgs \cup {NoMsg}]
        /\ Contents(m) = RingSeq(head[m], tail[m], msgs[m])
        /\ Len(Contents(m)) = RingSize(head[m], tail[m])
    BY <1>1, ContentsRing
  <2>3. Len(Contents(m)) < QueueSize - 1
    BY <2>1, <2>2, RingSizeBounds, QueueSizeAssumption
  <2>4. Contents(m)' = Append(Contents(m), Message(t))
    <3>1. Contents(m)' = RingSeq(NextSlot(head[m]), tail[m], msgs[m])
      BY <1>1, <1>2, <2>1, ContentsNext DEF TypeOK
    <3>2. PICK h \in Slots : h = head[m] BY <2>2
    <3>3. PICK u \in Slots : u = tail[m] BY <2>2
    <3>4. PICK a \in Rings(Msgs \cup {NoMsg}) : a = msgs[m] BY <2>2 DEF Rings
    <3>5. RingSeq(NextSlot(h), u, a) = Append(RingSeq(h, u, a), a[h])
      BY <2>1, <3>2, <3>3, RingPublish
    <3> QED BY <2>1, <2>2, <3>1, <3>2, <3>3, <3>4, <3>5
  <2>5. Box' = [Box EXCEPT ![m] = Append(@, Message(t))]
    BY <1>1, <1>3, <1>5, <2>4 DEF Box
  <2>6. Box[m] = Contents(m) BY <1>1, <1>5 DEF Box
  <2>7. Abstract!Accept(t, m, Message(t))
    BY <1>2, <1>5, <1>c, <2>3, <2>5, <2>6 DEF Abstract!Accept, Abstract!Answer
  <2> QED BY <1>1, <2>7 DEF Abstract!Next
<1> QED BY <1>4, <1>5

LEMMA SimulationCopy ==
  ASSUME TypeInv, RefinementInv, NEW t \in Threads, PostCopy(t), Stopped' = Stopped
  PROVE  Box' = Box
<1>1. dst[t] \in Modules /\ TypeOK /\ pc[t] = "copy"
  BY NumModulesAssumption DEF TypeInv, TypeOK, PostInv, PostCopy, InPost, Modules
<1>m. PICK m \in Modules : m = dst[t] BY <1>1
<1>2. /\ UNCHANGED <<head, tail>>
      /\ msgs' = [msgs EXCEPT ![m][slot[t]] = Message(t)]
  BY <1>m DEF PostCopy
<1>3. \A n \in Modules : n # m => Contents(n)' = Contents(n)
  BY <1>1, <1>2, ContentsRing, ContentsNext DEF TypeOK
<1>4. m \notin Stopped => Contents(m)' = Contents(m)
  <2> SUFFICES ASSUME m \notin Stopped PROVE Contents(m)' = Contents(m) OBVIOUS
  <2>1. slot[t] = head[m] BY <1>1, <1>m DEF RefinementInv, CopyInv
  <2>2. /\ head[m] \in Slots /\ tail[m] \in Slots /\ msgs[m] \in [Slots -> Msgs \cup {NoMsg}]
        /\ Contents(m) = RingSeq(head[m], tail[m], msgs[m])
    BY <1>1, ContentsRing
  <2>3. msgs'[m] = [msgs[m] EXCEPT ![head[m]] = Message(t)]
    BY <1>1, <1>2, <2>1 DEF TypeOK
  <2>4. PICK h \in Slots : h = head[m] BY <2>2
  <2>5. PICK u \in Slots : u = tail[m] BY <2>2
  <2>6. PICK a \in Rings(Msgs \cup {NoMsg}) : a = msgs[m] BY <2>2 DEF Rings
  <2>7. RingSeq(h, u, [a EXCEPT ![h] = Message(t)]) = RingSeq(h, u, a) BY RingCopy
  <2>8. Contents(m)' = RingSeq(head[m], tail[m], [msgs[m] EXCEPT ![head[m]] = Message(t)])
    BY <1>1, <1>2, <2>3, ContentsNext
  <2> QED BY <2>2, <2>4, <2>5, <2>6, <2>7, <2>8
<1> QED BY <1>3, <1>4 DEF Box

LEMMA SimulationTake ==
  ASSUME TypeInv, RefinementInv, DrainTake, Stopped' = Stopped, Called' = Called
  PROVE  Abstract!Next
<1>1. cur \in Modules \ Stopped /\ TypeOK
  BY NumModulesAssumption
  DEF TypeInv, TypeOK, LoopInv, DrainTake, LoopAt, DrainPhases, Modules, Stopped, Handles, Shutdown
<1>c. PICK c \in Modules \ Stopped : c = cur BY <1>1
<1>2. /\ UNCHANGED <<head, msgs, ret>>
      /\ hand = NoMsg
      /\ hand' = msgs[c][tail[c]]
      /\ tail' = [tail EXCEPT ![c] = NextSlot(@)]
      /\ head[c] # tail[c]
  BY <1>c DEF DrainTake, LoopAt, RefinementInv, HandInv, thread
<1>3. \A n \in Modules : n # c => Contents(n)' = Contents(n)
  BY <1>1, <1>2, ContentsRing, ContentsNext DEF TypeOK
<1>4. /\ head[c] \in Slots /\ tail[c] \in Slots
      /\ msgs[c] \in [Slots -> Msgs \cup {NoMsg}]
      /\ Contents(c) = RingSeq(head[c], tail[c], msgs[c])
  BY <1>1, ContentsRing
<1>5. Contents(c)' = RingSeq(head[c], NextSlot(tail[c]), msgs[c])
  BY <1>1, <1>2, ContentsNext DEF TypeOK
<1>6. /\ Contents(c) # <<>>
      /\ Head(Contents(c)) = msgs[c][tail[c]]
      /\ Contents(c)' = Tail(Contents(c))
  <2>1. PICK h \in Slots : h = head[c] BY <1>4
  <2>2. PICK u \in Slots : u = tail[c] BY <1>4
  <2>3. PICK a \in Rings(Msgs \cup {NoMsg}) : a = msgs[c] BY <1>4 DEF Rings
  <2>4. /\ RingSeq(h, u, a) # <<>>
        /\ Head(RingSeq(h, u, a)) = a[u]
        /\ Tail(RingSeq(h, u, a)) = RingSeq(h, NextSlot(u), a)
    BY <1>2, <2>1, <2>2, RingTake
  <2> QED BY <1>4, <1>5, <2>1, <2>2, <2>3, <2>4
<1>7. Box' = [Box EXCEPT ![c] = Tail(@)]
  BY <1>1, <1>3, <1>6 DEF Box
<1>8. Box[c] = Contents(c) BY <1>1 DEF Box
<1>9. Abstract!Deliver(c) BY <1>2, <1>6, <1>7, <1>8 DEF Abstract!Deliver
<1> QED BY <1>1, <1>9 DEF Abstract!Next

LEMMA SimulationClose ==
  ASSUME TypeInv, RefinementInv, CloseDone, Stopped' = Stopped \cup ({cur} \ {Shutdown}),
         Called' = Called
  PROVE  Abstract!Next \/ UNCHANGED Abstract!vars
<1>1. /\ UNCHANGED <<head, tail, msgs, hand, ret>> /\ hand = NoMsg
      /\ cur \in open /\ TypeOK
  BY DEF TypeInv, LoopInv, CloseDone, LoopAt, RefinementInv, HandInv, ring, thread, LoopOnly
<1>2. \A n \in Modules : Contents(n)' = Contents(n)
  BY <1>1, ContentsRing, ContentsNext
<1>3. CASE cur = Shutdown
  <2>1. Stopped' = Stopped BY <1>3
  <2>2. Box' = Box BY <1>1, <2>1, BoxFrame
  <2> QED BY <1>1, <2>1, <2>2 DEF Abstract!vars
<1>4. CASE cur # Shutdown
  <2>1. cur \in Modules \ Stopped /\ Stopped' = Stopped \cup {cur}
    BY <1>1, <1>4, NumModulesAssumption DEF TypeOK, Modules, Stopped, Handles, Shutdown
  <2>2. Box' = [Box EXCEPT ![cur] = <<>>] BY <1>2, <2>1 DEF Box
  <2>3. Abstract!Close(cur) BY <1>1, <2>1, <2>2 DEF Abstract!Close
  <2> QED BY <2>1, <2>3 DEF Abstract!Next
<1> QED BY <1>3, <1>4

LEMMA SimulationStart ==
  ASSUME TypeInv, RefinementInv, StartModule, Stopped' = Stopped
  PROVE  Box' = Box
<1>1. started + 1 \in Modules /\ started + 1 > started /\ TypeOK
  BY NumModulesAssumption DEF TypeInv, TypeOK, StartModule, Modules
<1>m. PICK m \in Modules : m = started + 1 BY <1>1
<1>2. /\ head' = [head EXCEPT ![m] = 0] /\ tail' = [tail EXCEPT ![m] = 0] /\ msgs' = msgs
  BY <1>m DEF StartModule
<1>3. \A n \in Modules : n # m => Contents(n)' = Contents(n)
  BY <1>1, <1>2, ContentsRing, ContentsNext DEF TypeOK
<1>4. head[m] = tail[m] /\ head[m] \in Slots /\ head'[m] = 0 /\ tail'[m] = 0
  BY <1>1, <1>m, <1>2 DEF RefinementInv, FreshInv, TypeOK
<1>5. RingSize(head[m], tail[m]) = 0 /\ RingSize(0, 0) = 0
  BY <1>4, RingSizeBounds DEF RingSize
<1>6. Contents(m) = <<>> /\ Contents(m)' = <<>>
  BY <1>4, <1>5, ContentsNext DEF Contents, RingSeq
<1> QED BY <1>3, <1>6 DEF Box

LEMMA Simulation ==
  TypeInv /\ MutexInv /\ RefinementInv /\ [Next]_vars => [Abstract!Next]_(Abstract!vars)
<1> SUFFICES ASSUME TypeInv, RefinementInv, [Next]_vars
             PROVE  Abstract!Next \/ UNCHANGED Abstract!vars
  OBVIOUS
<1>0. Stopped' = Stopped /\ UNCHANGED <<hand, ret>> /\ Box' = Box /\ Called' = Called
      => UNCHANGED Abstract!vars
  BY DEF Abstract!vars
<1>b. ASSUME NEW t \in Posters, NEW m \in Modules, PostBegin(t, m) PROVE Abstract!Next
  <2>1. Stopped' = Stopped /\ hand' = hand
    BY <1>b, CallFrame DEF CallStep, loop, Stopped
  <2>2. /\ UNCHANGED <<head, tail, msgs>> /\ ret' = [ret EXCEPT ![t] = "none"]
        /\ sent' = [sent EXCEPT ![t] = @ + 1] /\ dst' = [dst EXCEPT ![t] = m]
        /\ pc[t] \notin InPost /\ sent[t] < MaxPosts
    BY <1>b DEF PostBegin, ring, InPost
  <2>3. t \in Threads /\ sent \in [Threads -> Nat] /\ dst \in [Threads -> Handles]
    BY DEF Threads, TypeInv, TypeOK
  <2>4. /\ Message(t)' = <<t, sent[t] + 1>> /\ sent[t] + 1 # 0
        /\ <<t, sent[t] + 1>> \in Msgs
    BY <2>2, <2>3, MaxPostsAssumption DEF Message, Msgs
  <2>5. \A u \in Posters : u \in Threads BY DEF Threads
  <2>6. Called' = [Called EXCEPT ![t] = <<m, <<t, sent[t] + 1>>>>]
    BY <2>2, <2>3, <2>4, <2>5 DEF Called, Message
  <2>7. Abstract!Call(t, m, <<t, sent[t] + 1>>)
    BY <2>1, <2>2, <2>6, BoxFrame, CallUnderWay DEF Abstract!Call
  <2> QED BY <2>4, <2>7 DEF Abstract!Next
<1> SUFFICES ASSUME Called' = Called PROVE Abstract!Next \/ UNCHANGED Abstract!vars
  BY <1>b, CalledFrame
<1>1. CASE CallStep
  <2>1. Stopped' = Stopped /\ hand' = hand /\ tail' = tail
    BY <1>1, CallFrame DEF loop, Stopped
  <2>2. ASSUME NEW t \in Threads, PostFull(t) PROVE Abstract!Next
    BY <2>1, <2>2, SimulationFull
  <2>3. ASSUME NEW t \in Threads, PostPublish(t) PROVE Abstract!Next
    BY <2>1, <2>3, SimulationPublish
  <2>4. ASSUME NEW t \in Threads, PostCopy(t) PROVE UNCHANGED Abstract!vars
    <3>1. ret' = ret BY <2>4 DEF PostCopy
    <3> QED BY <1>0, <2>1, <2>4, <3>1, SimulationCopy
  <2>5. ASSUME NEW t \in Threads, ThreadStep(t), ~PostFull(t), ~PostPublish(t), ~PostCopy(t)
        PROVE  UNCHANGED Abstract!vars
    <3>1. UNCHANGED <<head, tail, msgs, ret>>
      BY <2>5 DEF ThreadStep, PostLock, PostRoom, SendSkip, SendLoad, SendBusy,
         SendExchange, SendWrite, SendUnbusy, ring
    <3> QED BY <1>0, <2>1, <3>1, BoxFrame
  <2>6. ASSUME NEW t \in Signallers, Signal(t) PROVE UNCHANGED Abstract!vars
    <3>1. UNCHANGED <<head, tail, msgs, ret>> BY <2>6 DEF Signal, ring
    <3> QED BY <1>0, <2>1, <3>1, BoxFrame
  <2> QED BY <1>1, <1>b, <2>2, <2>3, <2>4, <2>5, <2>6 DEF CallStep
<1>2. CASE LoopStep /\ ~CloseDone
  <2>1. Stopped' = Stopped /\ ret' = ret BY <1>2, StoppedSteps, LoopFrame DEF thread
  <2>2. CASE StartModule
    <3>1. hand' = hand BY <2>2 DEF StartModule
    <3> QED BY <1>0, <2>1, <2>2, <3>1, SimulationStart
  <2>3. CASE DrainTake BY <2>1, <2>3, SimulationTake
  <2>4. CASE CallbackReturn
    <3>1. UNCHANGED <<head, tail, msgs>> /\ hand' = NoMsg
      BY <2>4 DEF CallbackReturn, LoopOnly, ring
    <3>2. Box' = Box BY <2>1, <3>1, BoxFrame
    <3>3. CASE hand = NoMsg BY <1>0, <2>1, <3>1, <3>2, <3>3
    <3>4. CASE hand # NoMsg
      <4>1. Abstract!Finish BY <2>1, <3>1, <3>2, <3>4 DEF Abstract!Finish
      <4> QED BY <4>1 DEF Abstract!Next
    <3> QED BY <3>3, <3>4
  <2>5. CASE ~StartModule /\ ~DrainTake /\ ~CallbackReturn
    <3>1. UNCHANGED <<head, tail, msgs, hand>>
      BY <1>2, <2>5 DEF LoopStep, RunLoop, PollEvent, PollTimeout, ScanHandle, DrainLock,
         DrainEmpty, ScanEnd, TimersDone, LoopExit, StopModule, CloseModule,
         CloseShutdown, DestroyMutex, LoopOnly, ring
    <3> QED BY <1>0, <2>1, <3>1, BoxFrame
  <2> QED BY <2>2, <2>3, <2>4, <2>5
<1>3. CASE CloseDone BY <1>3, StoppedSteps, SimulationClose
<1>4. CASE UNCHANGED vars
  <2>1. UNCHANGED <<head, tail, msgs, hand, ret>> /\ Stopped' = Stopped
    BY <1>4 DEF vars, ring, loop, thread, Stopped
  <2> QED BY <1>0, <2>1, BoxFrame
<1> QED BY <1>1, <1>2, <1>3, <1>4, NextSplit

(* Posting and delivering are a bounded FIFO box per module, for any number   *)
(* of modules, threads and posts and any ring size: an accepted message is    *)
(* handed over at most once and in order, only a full box refuses, and a      *)
(* message that waits when its module is stopped is not handed over.          *)
THEOREM MailboxRefined == Spec => ImplementsMailbox
<1>1. Spec => []MutexInv BY MutexInit, MutexNext, TypeInvariant, PTL DEF Spec
<1>2. Spec => Abstract!Init /\ [][Abstract!Next]_(Abstract!vars)
  BY <1>1, SimulationInit, Simulation, RefinementInvariant, PTL DEF Spec
<1> QED BY <1>2 DEF ImplementsMailbox, Abstract!Spec
=============================================================================

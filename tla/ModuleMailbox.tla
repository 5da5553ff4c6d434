------------------------- MODULE ModuleMailbox -------------------------
(* The message path of armd: armd_module_post, called by any thread, the    *)
(* ring buffer and mutex of armd_msg_queue_t, libuv's async wake-up         *)
(* (uv_async_send, the eventfd, uv__async_io) and async_callback, which     *)
(* drains the ring in the loop thread; plus armd_module_stopall, run by the *)
(* shutdown handle's callback, which closes all of it under the senders.    *)
(*                                                                          *)
(* Handles are numbered in the order of loop->async_handles: Shutdown is    *)
(* g_shutdown_async, which main initialises first, then the modules in      *)
(* start order.  uv__async_io takes each handle off the head and puts it    *)
(* back at the tail, so every scan visits the open handles in this order.   *)
EXTENDS Naturals, FiniteSets, Sequences

CONSTANTS NumModules,   \* how many modules are registered
          Level,        \* Level[m]: the registry level of module m
          Producers,    \* threads other than the loop that post messages
          Signallers,   \* activations of signal_handler
          Loop,         \* the thread that runs uv_run
          QueueSize,    \* QUEUE_SIZE, 64 in the code
          MaxPosts,     \* bound: posts of one thread
          Free,         \* a mutex nobody holds
          Destroyed,    \* a mutex after pthread_mutex_destroy
          NoMsg         \* not a message

Shutdown == 0
Modules == 1..NumModules
Handles == 0..NumModules
Posters == Producers \cup {Loop}
Threads == Posters \cup Signallers
Slots == 0..(QueueSize - 1)
Msgs == Posters \X (1..MaxPosts)

ASSUME NumModulesAssumption == NumModules \in Nat
ASSUME LevelAssumption == Level \in [Modules -> Nat]
ASSUME QueueSizeAssumption == QueueSize \in Nat /\ QueueSize >= 2
ASSUME MaxPostsAssumption == MaxPosts \in Nat
ASSUME ThreadsAssumption == /\ IsFiniteSet(Threads)
                            /\ Loop \notin Producers
                            /\ Signallers \cap Posters = {}
ASSUME MutexAssumption == /\ Free \notin Threads
                          /\ Destroyed \notin Threads
                          /\ Free # Destroyed
ASSUME NoMsgAssumption == NoMsg \notin Msgs

VARIABLES
  head, tail, msgs, mutex,  \* armd_msg_queue_t, per module
  pending, busy,            \* uv_async_t: pending and u.fd, per handle
  wakeup,                   \* the eventfd's counter is not zero
  pc, dst, slot, sent, ret, \* per thread: place in post/send, its target, the
                            \* head it read, its posts so far, its return value
  phase, cur, todo, hand,   \* the loop thread: where it is, the handle it works
                            \* on, uv__async_io's local queue, async_callback's msg
  started, open             \* modules 1..started were started; open: the handles
                            \* in loop->async_handles

ring == <<head, tail, msgs>>
async == <<pending, busy, wakeup>>
thread == <<pc, dst, slot, sent, ret>>
loop == <<phase, cur, todo, hand, started, open>>
vars == <<ring, mutex, async, thread, loop>>

InPost == {"lock", "check", "copy", "publish"}       \* armd_module_post
InSend == {"load", "busy", "xchg", "write", "unbusy"} \* uv_async_send
Busy == {"xchg", "write", "unbusy"}                  \* between busy+1 and busy-1
PostPhases == {"start", "callback", "timers", "onstop"} \* module code runs on the loop
DrainPhases == {"drainlock", "drain", "callback"}    \* inside async_callback
Phases == PostPhases \cup DrainPhases
            \cup {"poll", "scan", "stopping", "spin", "destroy", "done"}

(* The module handle storage is static, so it starts zeroed. *)
Init == /\ head = [m \in Modules |-> 0]
        /\ tail = [m \in Modules |-> 0]
        /\ msgs = [m \in Modules |-> [i \in Slots |-> NoMsg]]
        /\ mutex = [m \in Modules |-> Free]
        /\ pending = [h \in Handles |-> 0]
        /\ busy = [h \in Handles |-> 0]
        /\ wakeup = FALSE
        /\ pc = [t \in Threads |-> "idle"]
        /\ dst = [t \in Threads |-> Shutdown]
        /\ slot = [t \in Threads |-> 0]
        /\ sent = [t \in Threads |-> 0]
        /\ ret = [t \in Posters |-> "none"]
        /\ phase = "start"
        /\ cur = Shutdown
        /\ todo = {}
        /\ hand = NoMsg
        /\ started = 0
        /\ open = {Shutdown}

(* Mutant: the index is not taken modulo QUEUE_SIZE. *)
NextSlotNoWrap(i) == i + 1

NextSlot(i) == IF i + 1 = QueueSize THEN 0 ELSE i + 1  \* (i + 1) % QUEUE_SIZE

(* Mutant: the ring counts as full one message too early. *)
FullEarly(m) == NextSlot(NextSlot(head[m])) = tail[m]

Full(m) == NextSlot(head[m]) = tail[m]
Message(t) == <<t, sent[t]>>
Goto(t, label) == pc' = [pc EXCEPT ![t] = label]

-----------------------------------------------------------------------------
(* pthread_mutex_t as glibc builds it: locking or unlocking a destroyed      *)
(* mutex fails with EINVAL, which no caller looks at, so the caller goes on  *)
(* without owning it; destroying a held mutex fails with EBUSY.              *)
(* Mutants: a missing lock, a missing unlock. *)
NoLock(t, m) == UNCHANGED mutex
NoUnlock(t, m) == UNCHANGED mutex

Lock(t, m) == /\ mutex[m] \in {Free, Destroyed}
              /\ mutex' = [mutex EXCEPT ![m] = IF @ = Free THEN t ELSE @]

Unlock(t, m) == mutex' = [mutex EXCEPT ![m] = IF @ = t THEN Free ELSE @]

-----------------------------------------------------------------------------
(* armd_module_post(m, msg), called by thread t. *)

PostBegin(t, m) ==
  /\ pc[t] = "idle"
  /\ sent[t] < MaxPosts
  /\ t = Loop => phase \in PostPhases
  /\ m <= started
  /\ sent' = [sent EXCEPT ![t] = @ + 1]
  /\ dst' = [dst EXCEPT ![t] = m]
  /\ ret' = [ret EXCEPT ![t] = "none"]
  /\ Goto(t, "lock")
  /\ UNCHANGED <<ring, mutex, async, slot, loop>>

PostLock(t) ==
  /\ pc[t] = "lock"
  /\ Lock(t, dst[t])
  /\ Goto(t, "check")
  /\ UNCHANGED <<ring, async, dst, slot, sent, ret, loop>>

PostFull(t) ==
  /\ pc[t] = "check"
  /\ Full(dst[t])
  /\ Unlock(t, dst[t])
  /\ ret' = [ret EXCEPT ![t] = "nospace"]
  /\ Goto(t, "idle")
  /\ UNCHANGED <<ring, async, dst, slot, sent, loop>>

PostRoom(t) ==
  /\ pc[t] = "check"
  /\ ~Full(dst[t])
  /\ slot' = [slot EXCEPT ![t] = head[dst[t]]]
  /\ Goto(t, "copy")
  /\ UNCHANGED <<ring, mutex, async, dst, sent, ret, loop>>

PostCopy(t) ==
  /\ pc[t] = "copy"
  /\ msgs' = [msgs EXCEPT ![dst[t]][slot[t]] = Message(t)]
  /\ Goto(t, "publish")
  /\ UNCHANGED <<head, tail, mutex, async, dst, slot, sent, ret, loop>>

PostPublish(t) ==
  /\ pc[t] = "publish"
  /\ head' = [head EXCEPT ![dst[t]] = NextSlot(slot[t])]
  /\ Unlock(t, dst[t])
  /\ ret' = [ret EXCEPT ![t] = "ok"]
  /\ Goto(t, "load")
  /\ UNCHANGED <<tail, msgs, async, dst, slot, sent, loop>>

(* signal_handler: uv_async_send on the shutdown handle, with no post. *)
Signal(t) ==
  /\ pc[t] = "idle"
  /\ sent[t] = 0
  /\ sent' = [sent EXCEPT ![t] = 1]
  /\ dst' = [dst EXCEPT ![t] = Shutdown]
  /\ Goto(t, "load")
  /\ UNCHANGED <<ring, mutex, async, slot, ret, loop>>

-----------------------------------------------------------------------------
(* uv_async_send on handle dst[t]. *)

SendSkip(t) ==
  /\ pc[t] = "load"
  /\ pending[dst[t]] # 0
  /\ Goto(t, "idle")
  /\ UNCHANGED <<ring, mutex, async, dst, slot, sent, ret, loop>>

SendLoad(t) ==
  /\ pc[t] = "load"
  /\ pending[dst[t]] = 0
  /\ Goto(t, "busy")
  /\ UNCHANGED <<ring, mutex, async, dst, slot, sent, ret, loop>>

SendBusy(t) ==
  /\ pc[t] = "busy"
  /\ busy' = [busy EXCEPT ![dst[t]] = @ + 1]
  /\ Goto(t, "xchg")
  /\ UNCHANGED <<ring, mutex, pending, wakeup, dst, slot, sent, ret, loop>>

SendExchange(t) ==
  /\ pc[t] = "xchg"
  /\ Goto(t, IF pending[dst[t]] = 0 THEN "write" ELSE "unbusy")
  /\ pending' = [pending EXCEPT ![dst[t]] = 1]
  /\ UNCHANGED <<ring, mutex, busy, wakeup, dst, slot, sent, ret, loop>>

SendWrite(t) ==
  /\ pc[t] = "write"
  /\ wakeup' = TRUE
  /\ Goto(t, "unbusy")
  /\ UNCHANGED <<ring, mutex, pending, busy, dst, slot, sent, ret, loop>>

(* Mutant: the busy flag is not taken back. *)
SendStaysBusy(t) ==
  /\ pc[t] = "unbusy"
  /\ Goto(t, "idle")
  /\ UNCHANGED <<ring, mutex, async, dst, slot, sent, ret, loop>>

SendUnbusy(t) ==
  /\ pc[t] = "unbusy"
  /\ busy' = [busy EXCEPT ![dst[t]] = @ - 1]
  /\ Goto(t, "idle")
  /\ UNCHANGED <<ring, mutex, pending, wakeup, dst, slot, sent, ret, loop>>

-----------------------------------------------------------------------------
(* The loop thread between its own posts. *)
LoopAt(p) == phase = p /\ pc[Loop] = "idle"
LoopOnly == UNCHANGED <<ring, mutex, async, thread>>

(* armd_module_start of the next module: fresh mutex, ring and async handle. *)
StartModule ==
  /\ LoopAt("start")
  /\ started < NumModules
  /\ LET m == started + 1 IN
       /\ started' = m
       /\ mutex' = [mutex EXCEPT ![m] = Free]
       /\ head' = [head EXCEPT ![m] = 0]
       /\ tail' = [tail EXCEPT ![m] = 0]
       /\ pending' = [pending EXCEPT ![m] = 0]
       /\ busy' = [busy EXCEPT ![m] = 0]
       /\ open' = open \cup {m}
  /\ UNCHANGED <<msgs, wakeup, thread, phase, cur, todo, hand>>

(* armd_module_startall is done: uv_run, which looks at the timers first. *)
RunLoop ==
  /\ LoopAt("start")
  /\ started = NumModules
  /\ phase' = "timers"
  /\ LoopOnly
  /\ UNCHANGED <<cur, todo, hand, started, open>>

(* uv__io_poll reports the eventfd; uv__async_io reads it, which resets it,  *)
(* and moves the handles to its local queue.                                 *)
PollEvent ==
  /\ LoopAt("poll")
  /\ wakeup
  /\ wakeup' = FALSE
  /\ todo' = open
  /\ phase' = "scan"
  /\ UNCHANGED <<ring, mutex, pending, busy, thread, cur, hand, started, open>>

(* uv__io_poll ends because a timer of some module is due. *)
PollTimeout ==
  /\ LoopAt("poll")
  /\ ~wakeup
  /\ phase' = "timers"
  /\ LoopOnly
  /\ UNCHANGED <<cur, todo, hand, started, open>>

(* Mutant: the pending flag is read but not reset. *)
ScanHandleKeepsPending(h) ==
  /\ LoopAt("scan")
  /\ h \in todo
  /\ \A g \in todo : h <= g
  /\ todo' = todo \ {h}
  /\ cur' = h
  /\ phase' = IF pending[h] = 0 THEN "scan"
              ELSE IF h = Shutdown THEN "stopping" ELSE "drainlock"
  /\ UNCHANGED <<ring, mutex, async, thread, hand, started, open>>

(* uv__async_io takes the next handle and exchanges its pending flag with 0; *)
(* only a handle that was pending has its callback called.                   *)
ScanHandle(h) ==
  /\ LoopAt("scan")
  /\ h \in todo
  /\ \A g \in todo : h <= g
  /\ todo' = todo \ {h}
  /\ cur' = h
  /\ pending' = [pending EXCEPT ![h] = 0]
  /\ phase' = IF pending[h] = 0 THEN "scan"
              ELSE IF h = Shutdown THEN "stopping" ELSE "drainlock"
  /\ UNCHANGED <<ring, mutex, busy, wakeup, thread, hand, started, open>>

(* Mutant: the eventfd is read after the walk over the handles. *)
ScanEndReads ==
  /\ LoopAt("scan")
  /\ todo = {}
  /\ wakeup' = FALSE
  /\ phase' = "timers"
  /\ UNCHANGED <<ring, mutex, pending, busy, thread, cur, todo, hand, started, open>>

ScanEnd ==
  /\ LoopAt("scan")
  /\ todo = {}
  /\ phase' = "timers"
  /\ LoopOnly
  /\ UNCHANGED <<cur, todo, hand, started, open>>

(* One round of async_callback's loop: lock; leave when the ring is empty,   *)
(* else take a message, unlock and call on_message without the mutex.        *)
DrainLock ==
  /\ LoopAt("drainlock")
  /\ Lock(Loop, cur)
  /\ phase' = "drain"
  /\ UNCHANGED <<ring, async, thread, cur, todo, hand, started, open>>

DrainEmpty ==
  /\ LoopAt("drain")
  /\ tail[cur] = head[cur]
  /\ Unlock(Loop, cur)
  /\ phase' = "scan"
  /\ UNCHANGED <<ring, async, thread, cur, todo, hand, started, open>>

DrainTake ==
  /\ LoopAt("drain")
  /\ tail[cur] # head[cur]
  /\ hand' = msgs[cur][tail[cur]]
  /\ tail' = [tail EXCEPT ![cur] = NextSlot(@)]
  /\ Unlock(Loop, cur)
  /\ phase' = "callback"
  /\ UNCHANGED <<head, msgs, async, thread, cur, todo, started, open>>

CallbackReturn ==
  /\ LoopAt("callback")
  /\ hand' = NoMsg
  /\ phase' = "drainlock"
  /\ LoopOnly
  /\ UNCHANGED <<cur, todo, started, open>>

(* uv__run_timers ran its callbacks; the loop goes on while a handle is      *)
(* active, else uv_run returns and main calls uv_loop_close, which closes    *)
(* the eventfd.                                                              *)
TimersDone ==
  /\ LoopAt("timers")
  /\ open # {}
  /\ phase' = "poll"
  /\ LoopOnly
  /\ UNCHANGED <<cur, todo, hand, started, open>>

LoopExit ==
  /\ LoopAt("timers")
  /\ open = {}
  /\ phase' = "done"
  /\ LoopOnly
  /\ UNCHANGED <<cur, todo, hand, started, open>>

-----------------------------------------------------------------------------
(* on_shutdown_async: armd_module_stopall, then uv_close of the handle.      *)

(* Levels from the last to the first, and in a level in registration order. *)
NextToStop(m) ==
  /\ m \in open \ {Shutdown}
  /\ \A n \in open \ {Shutdown} :
       Level[n] < Level[m] \/ (Level[n] = Level[m] /\ m <= n)

(* armd_module_stop begins: on_stop runs. *)
StopModule(m) ==
  /\ LoopAt("stopping")
  /\ NextToStop(m)
  /\ cur' = m
  /\ phase' = "onstop"
  /\ LoopOnly
  /\ UNCHANGED <<todo, hand, started, open>>

(* uv_close -> uv__async_spin: set pending, then wait until no sender is busy. *)
CloseModule ==
  /\ LoopAt("onstop")
  /\ pending' = [pending EXCEPT ![cur] = 1]
  /\ phase' = "spin"
  /\ UNCHANGED <<ring, mutex, busy, wakeup, thread, cur, todo, hand, started, open>>

CloseShutdown ==
  /\ LoopAt("stopping")
  /\ open = {Shutdown}
  /\ cur' = Shutdown
  /\ pending' = [pending EXCEPT ![Shutdown] = 1]
  /\ phase' = "spin"
  /\ UNCHANGED <<ring, mutex, busy, wakeup, thread, todo, hand, started, open>>

(* Mutants: uv_close does not wait for busy senders; the handle stays in     *)
(* uv__async_io's local queue.                                               *)
CloseDoneNoSpin ==
  /\ LoopAt("spin")
  /\ open' = open \ {cur}
  /\ todo' = todo \ {cur}
  /\ phase' = IF cur = Shutdown THEN "scan" ELSE "destroy"
  /\ LoopOnly
  /\ UNCHANGED <<cur, hand, started>>

CloseDoneStaysQueued ==
  /\ LoopAt("spin")
  /\ busy[cur] = 0
  /\ open' = open \ {cur}
  /\ phase' = IF cur = Shutdown THEN "scan" ELSE "destroy"
  /\ LoopOnly
  /\ UNCHANGED <<cur, todo, hand, started>>

(* The spin ends and the handle leaves whichever queue holds it, async_handles *)
(* or uv__async_io's local one.                                                *)
CloseDone ==
  /\ LoopAt("spin")
  /\ busy[cur] = 0
  /\ open' = open \ {cur}
  /\ todo' = todo \ {cur}
  /\ phase' = IF cur = Shutdown THEN "scan" ELSE "destroy"
  /\ LoopOnly
  /\ UNCHANGED <<cur, hand, started>>

DestroyMutex ==
  /\ LoopAt("destroy")
  /\ mutex' = [mutex EXCEPT ![cur] = IF @ = Free THEN Destroyed ELSE @]
  /\ phase' = "stopping"
  /\ UNCHANGED <<ring, async, thread, cur, todo, hand, started, open>>

-----------------------------------------------------------------------------
(* The rest of a post or a send that thread t is in. *)
ThreadStep(t) == \/ PostLock(t) \/ PostFull(t) \/ PostRoom(t)
                 \/ PostCopy(t) \/ PostPublish(t)
                 \/ SendSkip(t) \/ SendLoad(t) \/ SendBusy(t)
                 \/ SendExchange(t) \/ SendWrite(t) \/ SendUnbusy(t)

LoopStep == \/ StartModule \/ RunLoop \/ PollEvent \/ PollTimeout
            \/ (\E h \in Handles : ScanHandle(h)) \/ ScanEnd
            \/ DrainLock \/ DrainEmpty \/ DrainTake \/ CallbackReturn
            \/ TimersDone \/ LoopExit
            \/ (\E m \in Modules : StopModule(m)) \/ CloseModule \/ CloseShutdown
            \/ CloseDone \/ DestroyMutex

(* main returned and no thread is inside a call: nothing is left to model. *)
Terminated == /\ phase = "done"
              /\ \A t \in Threads : pc[t] = "idle"
              /\ UNCHANGED vars

Next == \/ LoopStep
        \/ \E t \in Threads : ThreadStep(t)
        \/ \E t \in Posters, m \in Modules : PostBegin(t, m)
        \/ \E t \in Signallers : Signal(t)
        \/ Terminated

Spec == Init /\ [][Next]_vars

(* The kernel runs every runnable thread: a call that was begun and the loop *)
(* itself go on.  Nobody has to begin a post or send a signal, and a thread  *)
(* caught waiting for a mutex that is destroyed may wait for ever.           *)
Fairness == /\ WF_vars(LoopStep)
            /\ \A t \in Threads :
                 WF_vars(ThreadStep(t) /\ (t = Loop \/ pc[t] # "lock"
                                            \/ mutex[dst[t]] # Destroyed))

FairSpec == Spec /\ Fairness

-----------------------------------------------------------------------------
TypeOK == /\ head \in [Modules -> Slots]
          /\ tail \in [Modules -> Slots]
          /\ msgs \in [Modules -> [Slots -> Msgs \cup {NoMsg}]]
          /\ mutex \in [Modules -> Threads \cup {Free, Destroyed}]
          /\ pending \in [Handles -> {0, 1}]
          /\ busy \in [Handles -> Nat]
          /\ wakeup \in BOOLEAN
          /\ pc \in [Threads -> {"idle"} \cup InPost \cup InSend]
          /\ dst \in [Threads -> Handles]
          /\ slot \in [Threads -> Slots]
          /\ sent \in [Threads -> Nat]
          /\ ret \in [Posters -> {"none", "ok", "nospace"}]
          /\ phase \in Phases
          /\ cur \in Handles
          /\ todo \subseteq open
          /\ hand \in Msgs \cup {NoMsg}
          /\ started \in 0..NumModules
          /\ open \subseteq 0..started

Sending(h, labels) == \E t \in Threads : dst[t] = h /\ pc[t] \in labels

(* h still has something to be called back for: a message in the ring, or,   *)
(* for the shutdown handle, a signal that was caught.                        *)
Owed(h) == IF h = Shutdown THEN \E t \in Signallers : sent[t] > 0
           ELSE head[h] # tail[h]

(* No lost wake-up: when the loop is about to block in uv__io_poll and the   *)
(* eventfd is not readable, an open handle that is owed a callback has a     *)
(* sender on its way to writing the eventfd.  This is the handshake of       *)
(* uv_async_send (load, exchange) with uv__async_io (exchange) and of        *)
(* armd_module_post (publish, send) with async_callback (drain).             *)
NoLostWakeup ==
  \A h \in open : phase = "poll" /\ ~wakeup /\ Owed(h)
                    => Sending(h, {"load", "busy", "xchg", "write"})

(* Closing quiesces the senders: once uv_close has returned for a handle, no *)
(* thread will ever write the eventfd for it, however late its send began.   *)
(* With every handle closed this covers uv_loop_close closing the eventfd.   *)
CloseQuiesces ==
  \A h \in 0..started : h \notin open => ~Sending(h, {"write"})

(* async_callback touches the ring, and on_message runs, only for a module   *)
(* that has not been stopped, although stopall runs in the middle of         *)
(* uv__async_io's walk over its local queue of handles.                      *)
HandlerOnlyWhileOpen == phase \in DrainPhases => cur \in open

(* While a module's mutex lives, at most one thread is between lock and      *)
(* unlock on its ring.                                                       *)
InRing(t, m) == \/ dst[t] = m /\ pc[t] \in {"check", "copy", "publish"}
                \/ t = Loop /\ cur = m /\ phase = "drain"
RingExclusive ==
  \A m \in Modules : mutex[m] # Destroyed =>
    \A t, u \in Threads : InRing(t, m) /\ InRing(u, m) => t = u

-----------------------------------------------------------------------------
(* Mailbox is what this module implements. *)

(* The messages of a ring with head h, tail t and slots a, oldest first. *)
RingSize(h, t) == IF h >= t THEN h - t ELSE h + QueueSize - t
SlotAt(t, i) == IF t + i - 1 >= QueueSize THEN t + i - 1 - QueueSize ELSE t + i - 1
RingSeq(h, t, a) == [i \in 1..RingSize(h, t) |-> a[SlotAt(t, i)]]
Contents(m) == RingSeq(head[m], tail[m], msgs[m])

Stopped == {m \in Modules : m <= started /\ m \notin open}

Box == [m \in Modules |-> IF m \in Stopped THEN <<>> ELSE Contents(m)]

Called == [t \in Posters |-> IF sent[t] = 0 THEN <<>> ELSE <<dst[t], Message(t)>>]

Abstract == INSTANCE Mailbox WITH
              box <- Box,
              call <- Called,
              closed <- Stopped,
              Capacity <- QueueSize - 1

(* Post and on_message behave as a bounded FIFO box per module: the message   *)
(* of a call goes to the box of the module it names or to none, an accepted  *)
(* one is handed over exactly once, in order, unless its module is stopped   *)
(* first, and -ENOSPC means QUEUE_SIZE - 1 messages were waiting.            *)
ImplementsMailbox == Abstract!Spec

(* A message in an open module's ring is handed to on_message, unless the    *)
(* program begins to shut down.                                              *)
EventualDelivery ==
  \A m \in Modules, x \in Msgs :
    (m \in open /\ \E i \in DOMAIN Contents(m) : Contents(m)[i] = x)
      ~> (hand = x \/ phase = "stopping")

(* A post returns, also the loop thread's own from on_message, unless the    *)
(* mutex it waits for is destroyed.                                          *)
PostReturns ==
  \A t \in Threads :
    pc[t] # "idle" ~> (pc[t] = "idle" \/ (pc[t] = "lock" /\ mutex[dst[t]] = Destroyed))

(* A caught signal ends the program: every module is stopped, uv_run returns. *)
SignalEndsLoop ==
  \A t \in Signallers : (sent[t] = 1) ~> (phase = "done")
=============================================================================

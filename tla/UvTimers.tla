---------------------------- MODULE UvTimers ----------------------------
(* libuv's timers (timer.c) in the loop that runs them (uv_run).  The heap of *)
(* the loop is the set of its timers and heap_min the least of them, which is *)
(* what UvHeap implements; start_id is the order of the last starts.  User    *)
(* code, in the callbacks of timers and of other handles, starts, stops and   *)
(* closes any timer.                                                          *)
(* uint64_t ends at MaxTime and int at MaxInt, so that both ends are reached. *)
EXTENDS Integers, FiniteSets, Sequences, SequencesExt, IntrusiveQueue

CONSTANTS Timers,
          MaxTime,      \* UINT64_MAX: times and timeouts are in 0..MaxTime
          MaxInt,       \* INT_MAX
          Timeouts,     \* bound: the timeouts user code asks for
          Repeats       \* bound: the repeats user code asks for

ASSUME TimersAssumption == IsFiniteSet(Timers)
ASSUME WidthAssumption == MaxTime \in Nat /\ MaxInt \in Nat /\ MaxInt < MaxTime
ASSUME InputAssumption == Timeouts \subseteq 0..MaxTime /\ Repeats \subseteq 0..MaxTime

VARIABLES
  clock, time,          \* the system's clock and the loop's copy, loop->time
  heap,                 \* the timers in loop->timer_heap
  timeout, older,       \* per timer: its expiry; the pairs <<t, u>> such that
                        \* t's start_id is less than u's
  ready,                \* ready_queue of uv__run_timers
  handle, cb, repeat,   \* per timer: its handle, whether timer_cb is set, repeat
  phase,                \* where uv_run is
  base, entered, tmo,   \* uv__io_poll: the loop's time at its call; when
                        \* epoll_pwait was entered, with which timeout
  asked, wanted         \* history: the expiry user code asked for; the timers it
                        \* waits for

queues == <<heap, timeout, older, ready>>
timer == <<queues, handle, cb, repeat>>
poll == <<base, entered, tmo>>
history == <<asked, wanted>>
vars == <<clock, time, timer, phase, poll, history>>

Init == /\ clock = 0 /\ time = 0
        /\ heap = {} /\ ready = <<>>
        /\ timeout = [t \in Timers |-> 0] /\ older = {}
        /\ handle = [t \in Timers |-> "none"]
        /\ cb = [t \in Timers |-> FALSE]
        /\ repeat = [t \in Timers |-> 0]
        /\ phase = "setup"
        /\ base = 0 /\ entered = 0 /\ tmo = 0
        /\ asked = [t \in Timers |-> 0]
        /\ wanted = {}

-----------------------------------------------------------------------------
(* uint64_t addition, and the clamp when it wraps; the mutant lets it wrap. *)
Plus(a, b) == (a + b) % (MaxTime + 1)
ExpiryWraps(delay) == Plus(time, delay)
Expiry(delay) == LET sum == Plus(time, delay) IN IF sum < delay THEN MaxTime ELSE sum

(* timer_less_than, and heap_min: the set is empty where it returns NULL. *)
LessThan(t, u) == timeout[t] < timeout[u] \/ (timeout[t] = timeout[u] /\ <<t, u>> \in older)
HeapMin == {t \in heap : \A u \in heap \ {t} : LessThan(t, u)}

(* uv_timer_stop: an active timer, that is one in the heap, leaves it, an idle *)
(* one the queue it may be in.  The mutant leaves the idle timer there.        *)
UnreadyNot(t) == ready
Unready(t) == IF t \in heap THEN ready ELSE Unlinked(ready, t)

(* The start_id of t becomes the greatest. *)
Youngest(t) == {p \in older : t \notin {p[1], p[2]}} \cup ((Timers \ {t}) \X {t})

(* uv_timer_start, once it has stopped the timer. *)
StartOn(t, delay, rep) ==
  /\ heap' = heap \cup {t}
  /\ timeout' = [timeout EXCEPT ![t] = Expiry(delay)]
  /\ older' = Youngest(t)
  /\ repeat' = [repeat EXCEPT ![t] = rep]
  /\ asked' = [asked EXCEPT ![t] = IF time + delay > MaxTime THEN MaxTime ELSE time + delay]
  /\ wanted' = wanted \cup {t}

-----------------------------------------------------------------------------
(* What user code may do, in main, in a timer's callback and in another one. *)
User == phase \in {"setup", "callback", "io"}

TimerInit(t) ==
  /\ User
  /\ handle[t] \in {"none", "closed"}
  /\ handle' = [handle EXCEPT ![t] = "open"]
  /\ cb' = [cb EXCEPT ![t] = FALSE]
  /\ timeout' = [timeout EXCEPT ![t] = 0]
  /\ repeat' = [repeat EXCEPT ![t] = 0]
  /\ UNCHANGED <<clock, time, heap, older, ready, phase, poll, history>>

TimerStart(t, delay, rep) ==
  /\ User
  /\ handle[t] = "open"
  /\ ready' = Unready(t)
  /\ StartOn(t, delay, rep)
  /\ cb' = [cb EXCEPT ![t] = TRUE]
  /\ UNCHANGED <<clock, time, handle, phase, poll>>

TimerStop(t) ==
  /\ User
  /\ handle[t] = "open"
  /\ heap' = heap \ {t}
  /\ ready' = Unready(t)
  /\ wanted' = wanted \ {t}
  /\ UNCHANGED <<clock, time, timeout, older, handle, cb, repeat, phase, poll, asked>>

(* uv_timer_again: a timer without repeat is left alone. *)
TimerAgain(t) ==
  /\ User
  /\ handle[t] = "open" /\ cb[t]
  /\ repeat[t] # 0
  /\ ready' = Unready(t)
  /\ StartOn(t, repeat[t], repeat[t])
  /\ UNCHANGED <<clock, time, handle, cb, phase, poll>>

SetRepeat(t, rep) ==
  /\ User
  /\ handle[t] = "open"
  /\ repeat' = [repeat EXCEPT ![t] = rep]
  /\ UNCHANGED <<clock, time, queues, handle, cb, phase, poll, history>>

(* uv_close and uv__timer_close. *)
TimerClose(t) ==
  /\ User
  /\ handle[t] = "open"
  /\ handle' = [handle EXCEPT ![t] = "closing"]
  /\ heap' = heap \ {t}
  /\ ready' = Unready(t)
  /\ wanted' = wanted \ {t}
  /\ UNCHANGED <<clock, time, timeout, older, cb, repeat, phase, poll, asked>>

-----------------------------------------------------------------------------
(* uv_run. Another active handle keeps it going. *)
Run ==
  /\ phase = "setup"
  /\ time' = clock
  /\ phase' = "collect"
  /\ UNCHANGED <<clock, timer, poll, history>>

(* The first loop of uv__run_timers, in which no user code runs: the first    *)
(* timer of the heap goes to the queue, until it is not due.                  *)
Collect(t) ==
  /\ phase = "collect"
  /\ t \in HeapMin
  /\ timeout[t] <= time
  /\ heap' = heap \ {t}
  /\ ready' = Append(ready, t)
  /\ UNCHANGED <<clock, time, timeout, older, handle, cb, repeat, phase, poll, history>>

CollectEnds ==
  /\ phase = "collect"
  /\ \A t \in HeapMin : timeout[t] > time
  /\ phase' = "run"
  /\ UNCHANGED <<clock, time, timer, poll, history>>

(* The second loop: uv_timer_again, then timer_cb. *)
Call(t) ==
  /\ phase = "run"
  /\ ready # <<>>
  /\ t = Head(ready)
  /\ ready' = Tail(ready)
  /\ IF repeat[t] # 0
       THEN StartOn(t, repeat[t], repeat[t])
       ELSE /\ wanted' = wanted \ {t}
            /\ UNCHANGED <<heap, timeout, older, repeat, asked>>
  /\ phase' = "callback"
  /\ UNCHANGED <<clock, time, handle, cb, poll>>

(* Mutant: the due timers are looked up again after every callback. *)
CallbackReturnsCollects ==
  /\ phase = "callback"
  /\ phase' = IF ready = <<>> THEN "collect" ELSE "run"
  /\ UNCHANGED <<clock, time, timer, poll, history>>

CallbackReturns ==
  /\ phase = "callback"
  /\ phase' = "run"
  /\ UNCHANGED <<clock, time, timer, poll, history>>

(* uv__next_timeout; -1 blocks for ever. Mutant: the difference is cast as it is. *)
NextTimeoutCast ==
  IF HeapMin = {} THEN -1
  ELSE LET at == timeout[CHOOSE t \in HeapMin : TRUE]
           diff == at - time
       IN IF at <= time THEN 0
          ELSE IF diff > MaxInt THEN diff - 2 * (MaxInt + 1) ELSE diff

NextTimeout ==
  IF HeapMin = {} THEN -1
  ELSE LET at == timeout[CHOOSE t \in HeapMin : TRUE]
           diff == at - time
       IN IF at <= time THEN 0 ELSE IF diff > MaxInt THEN MaxInt ELSE diff

(* uv__backend_timeout does not block while a handle waits to be closed. *)
(* Mutant: it does.                                                      *)
BackendTimeoutBlocks == NextTimeout
BackendTimeout == IF \E t \in Timers : handle[t] = "closing" THEN 0 ELSE NextTimeout

EnterPoll ==
  /\ phase = "run"
  /\ ready = <<>>
  /\ tmo' = BackendTimeout
  /\ base' = time /\ entered' = clock
  /\ phase' = "poll"
  /\ UNCHANGED <<clock, time, timer, history>>

(* uv__io_poll returns at an event or when its timeout is over. *)
PollReturns ==
  /\ phase = "poll"
  /\ time' = clock
  /\ base' = 0 /\ entered' = 0 /\ tmo' = 0
  /\ phase' = "io"
  /\ UNCHANGED <<clock, timer, history>>

PollAgain(rest) ==
  /\ phase = "poll"
  /\ time' = clock
  /\ entered' = clock /\ tmo' = rest
  /\ UNCHANGED <<clock, timer, base, phase, history>>

(* A signal ends epoll_pwait, or all of its events are of closed watchers: it *)
(* is entered again for what is left of the timeout. base stays, so that a    *)
(* second interruption takes off what the first one took off already.         *)
(* Mutant: the whole timeout again.                                           *)
PollInterruptedWhole == PollAgain(tmo)
PollInterrupted ==
  LET rest == tmo - (clock - base)
  IN \/ tmo = -1 /\ PollAgain(-1)
     \/ tmo >= 0 /\ rest > 0 /\ PollAgain(rest)
     \/ tmo >= 0 /\ rest <= 0 /\ PollReturns

TimedOut == tmo >= 0 /\ (clock >= entered + tmo \/ clock = MaxTime)
PollTimesOut == TimedOut /\ PollReturns
PollEvent == PollReturns

(* The callbacks are done: uv__run_closing_handles, uv__update_time. *)
EndIo ==
  /\ phase = "io"
  /\ handle' = [t \in Timers |-> IF handle[t] = "closing" THEN "closed" ELSE handle[t]]
  /\ time' = clock
  /\ phase' = "collect"
  /\ UNCHANGED <<clock, queues, cb, repeat, poll, history>>

Tick ==
  /\ clock < MaxTime
  /\ clock' = clock + 1
  /\ UNCHANGED <<time, timer, phase, poll, history>>

-----------------------------------------------------------------------------
Restart(t) == TimerAgain(t) \/ \E o \in Timeouts, p \in Repeats : TimerStart(t, o, p)
UserStep(t) == \/ TimerInit(t) \/ TimerStop(t) \/ TimerClose(t) \/ Restart(t)
               \/ \E p \in Repeats : SetRepeat(t, p)
LoopStep == \/ Run \/ CollectEnds \/ CallbackReturns \/ EnterPoll \/ PollTimesOut \/ EndIo
            \/ \E t \in Timers : Collect(t) \/ Call(t)

Next == LoopStep \/ PollEvent \/ PollInterrupted \/ Tick \/ \E t \in Timers : UserStep(t)

(* The loop's thread runs, callbacks return, and time goes on. *)
Fairness == WF_vars(LoopStep) /\ WF_vars(Tick)

Spec == Init /\ [][Next]_vars
FairSpec == Spec /\ Fairness

-----------------------------------------------------------------------------
(* The timeout handed to the poll is an int: -1, or not beyond INT_MAX. *)
TypeOK == /\ clock \in 0..MaxTime /\ time \in 0..MaxTime
          /\ heap \subseteq Timers
          /\ timeout \in [Timers -> 0..MaxTime]
          /\ older \subseteq Timers \X Timers
          /\ ready \in Seq(Timers)
          /\ handle \in [Timers -> {"none", "open", "closing", "closed"}]
          /\ cb \in [Timers -> BOOLEAN]
          /\ repeat \in [Timers -> 0..MaxTime]
          /\ phase \in {"setup", "collect", "run", "callback", "poll", "io"}
          /\ base \in 0..MaxTime /\ entered \in 0..MaxTime /\ tmo \in -1..MaxInt
          /\ asked \in [Timers -> 0..MaxTime]
          /\ wanted \subseteq Timers

(* A timer's node is a union of a heap node and a queue node: whoever waits   *)
(* for a timer has it in the heap or in the ready queue, once, and a timer    *)
(* nobody waits for is in neither: one that was stopped or closed by another  *)
(* timer's callback is not called although it was due.                        *)
OneHome == /\ heap \cap ToSet(ready) = {} /\ IsInjective(ready)
           /\ heap \cup ToSet(ready) = wanted
           /\ \A t \in wanted : handle[t] = "open"

(* The poll is never entered for longer than the first timer has still to go, *)
(* however often signals interrupt it and whatever time that takes: not for   *)
(* ever while a timer is active, and not for the whole timeout again.         *)
NoOversleep == phase = "poll" =>
                 \A t \in HeapMin : tmo # -1 /\ (tmo > 0 => tmo <= timeout[t] - time)

(* No callback before the loop's time has reached what was asked for, also    *)
(* where the addition wraps; and of the timers that became due together the   *)
(* one that was to expire first is called first, and of equals the one that   *)
(* was started first.                                                         *)
Earlier(t, u) == asked[t] < asked[u] \/ (asked[t] = asked[u] /\ <<t, u>> \in older)
FiresWhenDue == [][\A t \in Timers : Call(t) =>
                     /\ time >= asked[t]
                     /\ ~ \E u \in ToSet(ready) : Earlier(u, t)]_vars

(* A timer somebody waits for is called, unless it is restarted for ever.     *)
TimerFires == \A t \in Timers :
                <>[](t \in wanted) => []<><<Call(t) \/ Restart(t)>>_vars

(* Timers do not starve the rest of the loop, whatever their callbacks start. *)
LoopPolls == []<>(phase = "poll")

(* A closing timer gets closed, though nothing else wakes the loop. *)
CloseFinishes == \A t \in Timers : handle[t] = "closing" ~> handle[t] = "closed"
=============================================================================

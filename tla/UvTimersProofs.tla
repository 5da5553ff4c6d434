------------------------- MODULE UvTimersProofs -------------------------
(* Proofs about UvTimers for any finite set of timers, any widths of the    *)
(* times and any timeouts and repeats that user code asks for.              *)
EXTENDS UvTimers, SequenceFacts

-----------------------------------------------------------------------------
(* The inductive invariant, part by part. *)

(* The loop's time never runs ahead of the clock, nor behind the call of the  *)
(* poll, and the queue of due timers is empty where the loop's time moves.    *)
TimeInv == /\ time <= clock
           /\ phase = "poll" => base <= time
           /\ ready # <<>> => phase \in {"collect", "run", "callback"}

(* A timer somebody waits for expires when it was asked to. *)
AskedInv == \A t \in wanted : timeout[t] = asked[t]

(* What is in the queue is due, in the order of timer_less_than, and before   *)
(* all that the first loop of uv__run_timers has still to look at.            *)
ReadyInv == /\ \A t \in ToSet(ready) : timeout[t] <= time
            /\ \A i, j \in DOMAIN ready : i < j => LessThan(ready[i], ready[j])
            /\ phase = "collect" => \A t \in ToSet(ready), u \in heap : LessThan(t, u)

(* start_id is a strict order. *)
OlderInv == \A t, u \in Timers : ~(<<t, u>> \in older /\ <<u, t>> \in older)

(* NoOversleep is inductive on top of these. *)
IInv == TypeOK /\ OneHome /\ TimeInv /\ AskedInv /\ ReadyInv /\ OlderInv

-----------------------------------------------------------------------------
(* The clamp: the expiry is what was asked for, up to the end of the range,   *)
(* although the addition wraps.                                               *)
LEMMA ModOnce ==
  ASSUME NEW n \in Nat \ {0}, NEW s \in Int
  PROVE  /\ s \in 0..(n - 1) => s % n = s
         /\ n <= s /\ s < n + n => s % n = s - n
<1>1. ASSUME s \in 0..(n - 1) PROVE s % n = s BY <1>1
<1>2. ASSUME n <= s, s < n + n PROVE s % n = s - n BY <1>2
<1> QED BY <1>1, <1>2

LEMMA Wrapped ==
  ASSUME NEW a \in 0..MaxTime, NEW b \in 0..MaxTime
  PROVE  Plus(a, b) = IF a + b > MaxTime THEN a + b - (MaxTime + 1) ELSE a + b
<1>1. PICK n \in Nat \ {0} : n = MaxTime + 1 BY WidthAssumption
<1>2. PICK s \in Int : s = a + b OBVIOUS
<1>3. Plus(a, b) = s % n BY <1>1, <1>2 DEF Plus
<1>4. CASE s \in 0..(n - 1)
  <2>1. s % n = s BY <1>4, ModOnce
  <2> QED BY <1>1, <1>2, <1>3, <1>4, <2>1, WidthAssumption
<1>5. CASE n <= s /\ s < n + n
  <2>1. s % n = s - n BY <1>5, ModOnce
  <2> QED BY <1>1, <1>2, <1>3, <1>5, <2>1, WidthAssumption
<1>6. s \in 0..(n - 1) \/ (n <= s /\ s < n + n) BY <1>1, <1>2, WidthAssumption
<1> QED BY <1>4, <1>5, <1>6

LEMMA Clamped ==
  ASSUME time \in 0..MaxTime, NEW delay \in 0..MaxTime
  PROVE  /\ Expiry(delay) = IF time + delay > MaxTime THEN MaxTime ELSE time + delay
         /\ Expiry(delay) \in 0..MaxTime
<1>1. Plus(time, delay) = IF time + delay > MaxTime THEN time + delay - (MaxTime + 1)
                          ELSE time + delay
  <2>1. PICK a \in 0..MaxTime : a = time OBVIOUS
  <2> QED BY <2>1, Wrapped
<1> QED BY <1>1, WidthAssumption DEF Expiry

-----------------------------------------------------------------------------
LEMMA TypeInit == Init => IInv
<1> SUFFICES ASSUME Init PROVE IInv OBVIOUS
<1> USE DEF Init
<1>0. 0 \in 0..MaxTime /\ 0 \in -1..MaxInt BY WidthAssumption
<1>1. <<>> \in Seq(Timers) /\ ToSet(<<>>) = {} /\ IsInjective(<<>>) /\ DOMAIN <<>> = {}
  BY DEF ToSet, IsInjective
<1>2. TypeOK BY <1>0, <1>1 DEF TypeOK
<1>3. OneHome BY <1>1 DEF OneHome
<1>4. TimeInv /\ AskedInv /\ OlderInv BY DEF TimeInv, AskedInv, OlderInv
<1>5. ReadyInv BY <1>1 DEF ReadyInv
<1> QED BY <1>2, <1>3, <1>4, <1>5 DEF IInv

(* Queue q is the queue of the due timers without t, in the same order. *)
Removed(q, t) ==
  /\ q \in Seq(Timers) /\ IsInjective(q)
  /\ ToSet(q) = ToSet(ready) \ {t}
  /\ \A i, j \in DOMAIN q : i < j =>
       \E k, l \in DOMAIN ready : k < l /\ ready[k] = q[i] /\ ready[l] = q[j]
  /\ ready = <<>> => q = <<>>

(* What uv_timer_stop does to the queue, and the second loop of uv__run_timers. *)
LEMMA RemovedUnready ==
  ASSUME TypeOK, OneHome, NEW t \in Timers, NEW q, q = Unready(t)
  PROVE  Removed(q, t)
<1>0. ready \in Seq(Timers) /\ IsInjective(ready) BY DEF TypeOK, OneHome
<1>1. CASE t \in heap BY <1>0, <1>1 DEF Unready, OneHome, Removed
<1>2. CASE t \notin heap
  <2>1. q = Unlinked(ready, t) BY <1>2 DEF Unready
  <2>2. q \in Seq(Timers) /\ IsInjective(q) /\ ToSet(q) = ToSet(ready) \ {t}
    BY <1>0, <2>1, UnlinkedFacts
  <2>3. \A i, j \in DOMAIN q : i < j =>
          \E k, l \in DOMAIN ready : k < l /\ ready[k] = q[i] /\ ready[l] = q[j]
    BY <1>0, <2>1, UnlinkedOrder
  <2>4. ready = <<>> => q = <<>> BY <1>0, <2>2, ToSetEmpty
  <2> QED BY <2>2, <2>3, <2>4 DEF Removed
<1> QED BY <1>1, <1>2

LEMMA RemovedTail ==
  ASSUME TypeOK, OneHome, ready # <<>>, NEW q, q = Tail(ready)
  PROVE  Removed(q, Head(ready)) /\ Head(ready) = ready[1] /\ Head(ready) \in ToSet(ready)
<1>0. ready \in Seq(Timers) /\ IsInjective(ready) BY DEF TypeOK, OneHome
<1>1. /\ Head(ready) \in ToSet(ready) /\ Head(ready) = ready[1]
      /\ q \in Seq(Timers) /\ IsInjective(q)
      /\ Len(q) = Len(ready) - 1
      /\ ToSet(ready) = ToSet(q) \cup {Head(ready)} /\ Head(ready) \notin ToSet(q)
  BY <1>0, ToSetTail
<1>2. /\ DOMAIN q = 1..Len(q) /\ DOMAIN ready = 1..Len(ready) /\ Len(ready) \in Nat
      /\ \A i \in 1..Len(q) : q[i] = ready[i + 1]
  BY <1>0, <1>1, LenProperties, HeadTailProperties
<1>3. ASSUME NEW i \in DOMAIN q, NEW j \in DOMAIN q, i < j
      PROVE  \E k, l \in DOMAIN ready : k < l /\ ready[k] = q[i] /\ ready[l] = q[j]
  <2>1. i + 1 \in DOMAIN ready /\ j + 1 \in DOMAIN ready /\ i + 1 < j + 1
    BY <1>1, <1>2, <1>3
  <2>2. ready[i + 1] = q[i] /\ ready[j + 1] = q[j] BY <1>2
  <2> QED BY <2>1, <2>2
<1> QED BY <1>1, <1>3 DEF Removed

(* What uv_timer_start does: it concerns no other timer. *)
LEMMA StartOnFacts ==
  ASSUME TypeOK, OlderInv, NEW t \in Timers, NEW delay \in 0..MaxTime, NEW rep \in 0..MaxTime,
         StartOn(t, delay, rep)
  PROVE  /\ heap' = heap \cup {t} /\ wanted' = wanted \cup {t}
         /\ timeout' \in [Timers -> 0..MaxTime] /\ asked' \in [Timers -> 0..MaxTime]
         /\ repeat' \in [Timers -> 0..MaxTime]
         /\ timeout'[t] = asked'[t]
         /\ \A u \in Timers \ {t} : timeout'[u] = timeout[u] /\ asked'[u] = asked[u]
         /\ older' \subseteq Timers \X Timers
         /\ \A u, v \in Timers \ {t} : <<u, v>> \in older' <=> <<u, v>> \in older
         /\ OlderInv'
<1>1. /\ Expiry(delay) = IF time + delay > MaxTime THEN MaxTime ELSE time + delay
      /\ Expiry(delay) \in 0..MaxTime
  BY Clamped DEF TypeOK
<1>2. /\ timeout' \in [Timers -> 0..MaxTime] /\ asked' \in [Timers -> 0..MaxTime]
      /\ repeat' \in [Timers -> 0..MaxTime]
      /\ timeout'[t] = asked'[t]
      /\ \A u \in Timers \ {t} : timeout'[u] = timeout[u] /\ asked'[u] = asked[u]
      /\ heap' = heap \cup {t} /\ wanted' = wanted \cup {t}
  BY <1>1 DEF StartOn, TypeOK
<1>3. older' = Youngest(t) /\ older \subseteq Timers \X Timers BY DEF StartOn, TypeOK
<1>4. older' \subseteq Timers \X Timers BY <1>3 DEF Youngest
<1>5. \A u, v \in Timers : <<u, v>> \in older' <=>
        IF u = t THEN FALSE ELSE IF v = t THEN TRUE ELSE <<u, v>> \in older
  BY <1>3 DEF Youngest
<1>6. OlderInv' BY <1>5 DEF OlderInv
<1> QED BY <1>2, <1>4, <1>5, <1>6

-----------------------------------------------------------------------------
Phases == {"setup", "collect", "run", "callback", "poll", "io"}

(* A timer is started or started again, and leaves the queue it was in. *)
LEMMA Restarted ==
  ASSUME IInv, NEW t \in Timers, NEW delay \in 0..MaxTime, NEW rep \in 0..MaxTime,
         StartOn(t, delay, rep), NEW q, Removed(q, t), ready' = q,
         handle[t] = "open", UNCHANGED <<clock, time, handle, poll>>,
         cb' \in [Timers -> BOOLEAN], phase' \in Phases \ {"collect", "poll"},
         ready # <<>> => phase' \in {"run", "callback"}
  PROVE  IInv'
<1>1. TypeOK /\ OneHome /\ TimeInv /\ AskedInv /\ ReadyInv /\ OlderInv BY DEF IInv
<1>2. /\ heap' = heap \cup {t} /\ wanted' = wanted \cup {t}
      /\ timeout' \in [Timers -> 0..MaxTime] /\ asked' \in [Timers -> 0..MaxTime]
      /\ repeat' \in [Timers -> 0..MaxTime]
      /\ timeout'[t] = asked'[t]
      /\ \A u \in Timers \ {t} : timeout'[u] = timeout[u] /\ asked'[u] = asked[u]
      /\ older' \subseteq Timers \X Timers
      /\ \A u, v \in Timers \ {t} : <<u, v>> \in older' <=> <<u, v>> \in older
      /\ OlderInv'
  BY <1>1, StartOnFacts
<1>3. /\ q \in Seq(Timers) /\ IsInjective(q) /\ ToSet(q) = ToSet(ready) \ {t}
      /\ \A i, j \in DOMAIN q : i < j =>
           \E k, l \in DOMAIN ready : k < l /\ ready[k] = q[i] /\ ready[l] = q[j]
      /\ ready = <<>> => q = <<>>
  BY DEF Removed
<1>4. TypeOK' BY <1>1, <1>2, <1>3 DEF TypeOK, Phases, poll
<1>5. OneHome' BY <1>1, <1>2, <1>3 DEF OneHome
<1>6. TimeInv' BY <1>1, <1>3 DEF TimeInv
<1>7. AskedInv' BY <1>1, <1>2 DEF AskedInv, TypeOK
<1>8. ReadyInv'
  <2>1. ToSet(q) \subseteq Timers \ {t} /\ \A i \in DOMAIN q : q[i] \in ToSet(q)
    BY <1>1, <1>3, ToSetElement DEF ToSet, TypeOK
  <2>2. \A u \in ToSet(q) : timeout'[u] <= time
    BY <1>1, <1>2, <1>3, <2>1 DEF ReadyInv
  <2>3. ASSUME NEW i \in DOMAIN q, NEW j \in DOMAIN q, i < j PROVE LessThan(q[i], q[j])'
    <3>1. LessThan(q[i], q[j]) BY <1>1, <1>3, <2>3 DEF ReadyInv
    <3>2. PICK u \in Timers \ {t} : u = q[i] BY <2>1
    <3>3. PICK v \in Timers \ {t} : v = q[j] BY <2>1
    <3> QED BY <1>2, <3>1, <3>2, <3>3 DEF LessThan
  <2> QED BY <2>2, <2>3 DEF ReadyInv
<1> QED BY <1>2, <1>4, <1>5, <1>6, <1>7, <1>8 DEF IInv

(* A timer is stopped, closed, or called for the last time. *)
LEMMA Dropped ==
  ASSUME IInv, NEW t \in Timers, NEW q, Removed(q, t), ready' = q,
         heap' = heap \ {t}, wanted' = wanted \ {t},
         UNCHANGED <<clock, time, timeout, older, asked, repeat, cb, poll>>,
         handle' \in [Timers -> {"none", "open", "closing", "closed"}],
         \A u \in Timers \ {t} : handle'[u] = handle[u],
         phase' \in Phases \ {"collect", "poll"},
         ready # <<>> => phase' \in {"run", "callback"}
  PROVE  IInv'
<1>1. TypeOK /\ OneHome /\ TimeInv /\ AskedInv /\ ReadyInv /\ OlderInv BY DEF IInv
<1>2. /\ q \in Seq(Timers) /\ IsInjective(q) /\ ToSet(q) = ToSet(ready) \ {t}
      /\ \A i, j \in DOMAIN q : i < j =>
           \E k, l \in DOMAIN ready : k < l /\ ready[k] = q[i] /\ ready[l] = q[j]
      /\ ready = <<>> => q = <<>>
  BY DEF Removed
<1>3. TypeOK' BY <1>1, <1>2 DEF TypeOK, Phases, poll
<1>4. OneHome' BY <1>1, <1>2 DEF OneHome, TypeOK
<1>5. TimeInv' BY <1>1, <1>2 DEF TimeInv
<1>6. AskedInv' BY <1>1 DEF AskedInv
<1>7. OlderInv' BY <1>1 DEF OlderInv
<1>8. ReadyInv'
  <2>1. ASSUME NEW i \in DOMAIN q, NEW j \in DOMAIN q, i < j PROVE LessThan(q[i], q[j])'
    <3>1. LessThan(q[i], q[j]) BY <1>1, <1>2, <2>1 DEF ReadyInv
    <3> QED BY <3>1 DEF LessThan
  <2> QED BY <1>1, <1>2, <2>1 DEF ReadyInv
<1> QED BY <1>3, <1>4, <1>5, <1>6, <1>7, <1>8 DEF IInv

-----------------------------------------------------------------------------
LEMMA UserKeeps ==
  ASSUME IInv, NEW t \in Timers, UserStep(t)
  PROVE  IInv'
<1>0. TypeOK /\ OneHome /\ TimeInv /\ AskedInv /\ ReadyInv /\ OlderInv BY DEF IInv
<1>1. User /\ phase \notin {"collect", "poll"} /\ (ready # <<>> => phase \in {"run", "callback"})
  BY <1>0
  DEF UserStep, Restart, TimerInit, TimerStop, TimerClose, TimerAgain, TimerStart, SetRepeat,
      User, TimeInv
<1>2. PICK q : q = Unready(t) OBVIOUS
<1>3. Removed(q, t) BY <1>0, <1>2, RemovedUnready
<1>4. phase \in Phases \ {"collect", "poll"} BY <1>0, <1>1 DEF TypeOK, Phases
<1>5. ASSUME NEW delay \in Timeouts, NEW rep \in Repeats, TimerStart(t, delay, rep) PROVE IInv'
  <2>1. /\ StartOn(t, delay, rep) /\ ready' = q /\ handle[t] = "open"
        /\ UNCHANGED <<clock, time, handle, phase, poll>>
        /\ cb' \in [Timers -> BOOLEAN]
    BY <1>0, <1>2, <1>5 DEF TimerStart, TypeOK
  <2>2. delay \in 0..MaxTime /\ rep \in 0..MaxTime BY InputAssumption
  <2> QED BY <1>1, <1>3, <1>4, <2>1, <2>2, Restarted
<1>6. CASE TimerAgain(t)
  <2>1. /\ StartOn(t, repeat[t], repeat[t]) /\ ready' = q /\ handle[t] = "open"
        /\ UNCHANGED <<clock, time, handle, phase, poll>>
        /\ cb' \in [Timers -> BOOLEAN]
    BY <1>0, <1>2, <1>6 DEF TimerAgain, TypeOK
  <2>2. PICK rep \in 0..MaxTime : rep = repeat[t] BY <1>0 DEF TypeOK
  <2> QED BY <1>1, <1>3, <1>4, <2>1, <2>2, Restarted
<1>7. CASE TimerStop(t)
  <2>1. /\ ready' = q /\ heap' = heap \ {t} /\ wanted' = wanted \ {t}
        /\ UNCHANGED <<clock, time, timeout, older, asked, repeat, cb, poll, handle, phase>>
    BY <1>2, <1>7 DEF TimerStop
  <2>2. handle' \in [Timers -> {"none", "open", "closing", "closed"}]
    BY <1>0, <2>1 DEF TypeOK
  <2> QED BY <1>0, <1>1, <1>3, <1>4, <2>1, <2>2, Dropped
<1>8. CASE TimerClose(t)
  <2>1. /\ ready' = q /\ heap' = heap \ {t} /\ wanted' = wanted \ {t}
        /\ UNCHANGED <<clock, time, timeout, older, asked, repeat, cb, poll, phase>>
        /\ handle' = [handle EXCEPT ![t] = "closing"]
    BY <1>2, <1>8 DEF TimerClose
  <2>2. /\ handle' \in [Timers -> {"none", "open", "closing", "closed"}]
        /\ \A u \in Timers \ {t} : handle'[u] = handle[u]
    BY <1>0, <2>1 DEF TypeOK
  <2> QED BY <1>0, <1>1, <1>3, <1>4, <2>1, <2>2, Dropped
<1>9. CASE TimerInit(t)
  <2>1. /\ handle[t] \in {"none", "closed"}
        /\ handle' = [handle EXCEPT ![t] = "open"]
        /\ cb' = [cb EXCEPT ![t] = FALSE]
        /\ timeout' = [timeout EXCEPT ![t] = 0]
        /\ repeat' = [repeat EXCEPT ![t] = 0]
        /\ UNCHANGED <<clock, time, heap, older, ready, phase, base, entered, tmo, asked, wanted>>
    BY <1>9 DEF TimerInit, poll, history
  <2>2. t \notin wanted BY <1>0, <2>1 DEF OneHome
  <2>3. t \notin heap /\ t \notin ToSet(ready) BY <1>0, <2>2 DEF OneHome
  <2>4. \A u \in Timers \ {t} : timeout'[u] = timeout[u] /\ handle'[u] = handle[u]
    BY <1>0, <2>1 DEF TypeOK
  <2>5. ToSet(ready) \subseteq Timers \ {t} /\ \A i \in DOMAIN ready : ready[i] \in ToSet(ready)
    BY <1>0, <2>3, ToSetElement DEF ToSet, TypeOK
  <2>6. TypeOK'
    <3>1. 0 \in 0..MaxTime BY WidthAssumption
    <3> QED BY <1>0, <2>1, <3>1 DEF TypeOK
  <2>7. OneHome' BY <1>0, <2>1, <2>2, <2>4 DEF OneHome, TypeOK
  <2>8. TimeInv' BY <1>0, <2>1 DEF TimeInv
  <2>9. AskedInv' BY <1>0, <2>1, <2>2, <2>4 DEF AskedInv, TypeOK
  <2>10. OlderInv' BY <1>0, <2>1 DEF OlderInv
  <2>11. ReadyInv'
    <3>1. \A u, v \in Timers \ {t} : LessThan(u, v) => LessThan(u, v)'
      BY <2>1, <2>4 DEF LessThan
    <3>2. \A i, j \in DOMAIN ready : i < j => LessThan(ready[i], ready[j])'
      <4> TAKE i, j \in DOMAIN ready
      <4> HAVE i < j
      <4>1. PICK u \in Timers \ {t} : u = ready[i] BY <2>5
      <4>2. PICK v \in Timers \ {t} : v = ready[j] BY <2>5
      <4>3. LessThan(u, v) BY <1>0, <4>1, <4>2 DEF ReadyInv
      <4>4. LessThan(u, v)' BY <3>1, <4>3
      <4> QED BY <2>1, <4>1, <4>2, <4>4
    <3>3. \A u \in ToSet(ready) : timeout'[u] <= time
      BY <1>0, <2>4, <2>5 DEF ReadyInv
    <3>4. phase' # "collect" BY <1>1, <2>1
    <3> QED BY <2>1, <3>2, <3>3, <3>4 DEF ReadyInv
  <2> QED BY <2>6, <2>7, <2>8, <2>9, <2>10, <2>11 DEF IInv
<1>10. ASSUME NEW rep \in Repeats, SetRepeat(t, rep) PROVE IInv'
  <2>1. /\ repeat' = [repeat EXCEPT ![t] = rep]
        /\ UNCHANGED <<clock, time, heap, timeout, older, ready, handle, cb, phase, base, entered, tmo,
                       asked, wanted>>
    BY <1>10 DEF SetRepeat, queues, poll, history
  <2>2. TypeOK' BY <1>0, <2>1, InputAssumption DEF TypeOK
  <2>3. OneHome' /\ TimeInv' /\ AskedInv' /\ OlderInv'
    BY <1>0, <2>1 DEF OneHome, TimeInv, AskedInv, OlderInv
  <2>4. ReadyInv' BY <1>0, <2>1 DEF ReadyInv, LessThan
  <2> QED BY <2>2, <2>3, <2>4 DEF IInv
<1> QED BY <1>5, <1>6, <1>7, <1>8, <1>9, <1>10 DEF UserStep, Restart

(* Steps that leave the timers alone. *)
LEMMA TimersLeft ==
  ASSUME IInv, UNCHANGED <<heap, timeout, older, ready, asked, wanted>>,
         \A t \in wanted : handle'[t] = handle[t],
         TypeOK', TimeInv', time <= time',
         phase' = "collect" => phase = "collect" \/ ready = <<>>
  PROVE  IInv'
<1>0. TypeOK /\ OneHome /\ TimeInv /\ AskedInv /\ ReadyInv /\ OlderInv BY DEF IInv
<1>1. OneHome' /\ AskedInv' /\ OlderInv' BY <1>0 DEF OneHome, AskedInv, OlderInv
<1>2. ReadyInv'
  <2>1. ready = <<>> => ToSet(ready) = {} BY DEF ToSet
  <2>2. \A t \in ToSet(ready) : timeout[t] <= time'
    <3>1. ToSet(ready) \subseteq Timers BY <1>0, ToSetElement DEF TypeOK
    <3> QED BY <1>0, <3>1, WidthAssumption DEF TypeOK, ReadyInv
  <2> QED BY <1>0, <2>1, <2>2 DEF ReadyInv, LessThan
<1> QED BY <1>1, <1>2 DEF IInv

LEMMA CollectKeeps ==
  ASSUME IInv, NEW t \in Timers, Collect(t)
  PROVE  IInv'
<1>0. TypeOK /\ OneHome /\ TimeInv /\ AskedInv /\ ReadyInv /\ OlderInv BY DEF IInv
<1>1. /\ phase = "collect" /\ timeout[t] <= time
      /\ t \in heap /\ \A u \in heap \ {t} : LessThan(t, u)
      /\ heap' = heap \ {t} /\ ready' = Append(ready, t)
      /\ UNCHANGED <<clock, time, timeout, older, handle, cb, repeat, phase, base, entered, tmo,
                     asked, wanted>>
  BY DEF Collect, HeapMin, poll, history
<1>2. PICK q : q = Append(ready, t) OBVIOUS
<1>3. ready \in Seq(Timers) /\ IsInjective(ready) /\ t \notin ToSet(ready)
  BY <1>0, <1>1 DEF TypeOK, OneHome
<1>4. /\ q \in Seq(Timers) /\ Len(q) = Len(ready) + 1
      /\ ToSet(q) = ToSet(ready) \cup {t} /\ IsInjective(q)
  BY <1>2, <1>3, ToSetAppend
<1>5. TypeOK' BY <1>0, <1>1, <1>2, <1>4 DEF TypeOK
<1>6. OneHome' BY <1>0, <1>1, <1>2, <1>3, <1>4 DEF OneHome
<1>7. TimeInv' /\ AskedInv' /\ OlderInv' BY <1>0, <1>1 DEF TimeInv, AskedInv, OlderInv
<1>8. \A u, v : LessThan(u, v)' <=> LessThan(u, v) BY <1>1 DEF LessThan
<1>9. \A u \in ToSet(q) : timeout[u] <= time BY <1>0, <1>1, <1>4 DEF ReadyInv
<1>10. \A u \in ToSet(q), v \in heap \ {t} : LessThan(u, v)
  BY <1>0, <1>1, <1>4 DEF ReadyInv
<1>11. ASSUME NEW i \in DOMAIN q, NEW j \in DOMAIN q, i < j PROVE LessThan(q[i], q[j])
  <2>1. /\ DOMAIN q = 1..(Len(ready) + 1) /\ DOMAIN ready = 1..Len(ready) /\ Len(ready) \in Nat
        /\ \A k \in DOMAIN ready : q[k] = ready[k] /\ ready[k] \in ToSet(ready)
        /\ q[Len(ready) + 1] = t
    BY <1>2, <1>3, <1>4, LenProperties, AppendProperties DEF ToSet
  <2>2. i \in DOMAIN ready BY <1>11, <2>1
  <2>3. CASE j \in DOMAIN ready BY <1>0, <1>11, <2>1, <2>2, <2>3 DEF ReadyInv
  <2>4. CASE j = Len(ready) + 1 BY <1>0, <1>1, <2>1, <2>2, <2>4 DEF ReadyInv
  <2> QED BY <2>1, <2>3, <2>4
<1>12. ReadyInv' BY <1>1, <1>2, <1>8, <1>9, <1>10, <1>11 DEF ReadyInv
<1> QED BY <1>5, <1>6, <1>7, <1>12 DEF IInv

LEMMA CallKeeps ==
  ASSUME IInv, NEW t \in Timers, Call(t)
  PROVE  IInv'
<1>0. TypeOK /\ OneHome /\ TimeInv /\ AskedInv /\ ReadyInv /\ OlderInv BY DEF IInv
<1>1. /\ phase = "run" /\ ready # <<>> /\ t = Head(ready)
      /\ ready' = Tail(ready) /\ phase' = "callback"
      /\ UNCHANGED <<clock, time, handle, cb, poll>>
  BY DEF Call
<1>2. PICK q : q = Tail(ready) OBVIOUS
<1>3. Removed(q, t) /\ t \in ToSet(ready) BY <1>0, <1>1, <1>2, RemovedTail
<1>4. handle[t] = "open" /\ t \notin heap BY <1>0, <1>3 DEF OneHome
<1>5. phase' \in Phases \ {"collect", "poll"} /\ (ready # <<>> => phase' \in {"run", "callback"})
  BY <1>1 DEF Phases
<1>6. CASE repeat[t] # 0
  <2>1. StartOn(t, repeat[t], repeat[t]) /\ cb' \in [Timers -> BOOLEAN]
    BY <1>0, <1>1, <1>6 DEF Call, TypeOK
  <2>2. PICK rep \in 0..MaxTime : rep = repeat[t] BY <1>0 DEF TypeOK
  <2> QED BY <1>1, <1>2, <1>3, <1>4, <1>5, <2>1, <2>2, Restarted
<1>7. CASE repeat[t] = 0
  <2>1. /\ wanted' = wanted \ {t} /\ heap' = heap \ {t}
        /\ UNCHANGED <<timeout, older, repeat, asked>>
    BY <1>4, <1>7 DEF Call
  <2>2. handle' \in [Timers -> {"none", "open", "closing", "closed"}]
    BY <1>0, <1>1 DEF TypeOK
  <2>3. \A u \in Timers \ {t} : handle'[u] = handle[u] BY <1>1
  <2>4. UNCHANGED <<clock, time, timeout, older, asked, repeat, cb, poll>> BY <1>1, <2>1
  <2> QED BY <1>1, <1>2, <1>3, <1>5, <2>1, <2>2, <2>3, <2>4, Dropped
<1> QED BY <1>6, <1>7

(* The timeout of the poll fits an int. *)
LEMMA TimeoutFits == ASSUME TypeOK PROVE BackendTimeout \in -1..MaxInt
<1>1. HeapMin # {} => (CHOOSE t \in HeapMin : TRUE) \in Timers BY DEF HeapMin, TypeOK
<1>2. HeapMin # {} => timeout[CHOOSE t \in HeapMin : TRUE] \in 0..MaxTime
  BY <1>1 DEF TypeOK
<1>3. NextTimeout \in -1..MaxInt
  <2>1. CASE HeapMin = {} BY <2>1, WidthAssumption DEF NextTimeout
  <2>2. CASE HeapMin # {}
    <3>1. PICK at \in 0..MaxTime : at = timeout[CHOOSE t \in HeapMin : TRUE] BY <1>2, <2>2
    <3>2. NextTimeout = IF at <= time THEN 0
                        ELSE IF at - time > MaxInt THEN MaxInt ELSE at - time
      BY <2>2, <3>1 DEF NextTimeout
    <3> QED BY <3>2, WidthAssumption DEF TypeOK
  <2> QED BY <2>1, <2>2
<1> QED BY <1>3, WidthAssumption DEF BackendTimeout

LEMMA LoopKeeps ==
  ASSUME IInv, Run \/ CollectEnds \/ CallbackReturns \/ EnterPoll \/ PollReturns
           \/ PollInterrupted \/ EndIo \/ Tick
  PROVE  IInv'
<1>0. TypeOK /\ OneHome /\ TimeInv BY DEF IInv
<1>1. 0 \in 0..MaxTime /\ 0 \in -1..MaxInt /\ clock \in Nat /\ time \in Nat
  BY <1>0, WidthAssumption DEF TypeOK
<1> USE <1>0, <1>1 DEF TimeInv, timer, queues, poll, history
<1>2. CASE Run
  <2>1. TypeOK' BY <1>2 DEF Run, TypeOK
  <2>2. TimeInv' BY <1>2 DEF Run
  <2> QED BY <1>2, <2>1, <2>2, TimersLeft DEF Run
<1>3. CASE CollectEnds
  <2>1. TypeOK' BY <1>3 DEF CollectEnds, TypeOK
  <2>2. TimeInv' BY <1>3 DEF CollectEnds
  <2> QED BY <1>3, <2>1, <2>2, TimersLeft DEF CollectEnds
<1>4. CASE CallbackReturns
  <2>1. TypeOK' BY <1>4 DEF CallbackReturns, TypeOK
  <2>2. TimeInv' BY <1>4 DEF CallbackReturns
  <2> QED BY <1>4, <2>1, <2>2, TimersLeft DEF CallbackReturns
<1>5. CASE EnterPoll
  <2>1. TypeOK' BY <1>5, TimeoutFits DEF EnterPoll, TypeOK
  <2>2. TimeInv' BY <1>5 DEF EnterPoll
  <2> QED BY <1>5, <2>1, <2>2, TimersLeft DEF EnterPoll
<1>6. CASE PollReturns
  <2>1. TypeOK' BY <1>6 DEF PollReturns, TypeOK
  <2>2. TimeInv' BY <1>6 DEF PollReturns
  <2> QED BY <1>6, <2>1, <2>2, TimersLeft DEF PollReturns
<1>7. CASE EndIo
  <2>1. TypeOK' BY <1>7 DEF EndIo, TypeOK
  <2>2. TimeInv' BY <1>7 DEF EndIo
  <2>3. \A t \in wanted : handle'[t] = handle[t] BY <1>7 DEF EndIo, OneHome, TypeOK
  <2>4. /\ UNCHANGED <<heap, timeout, older, ready, asked, wanted>>
        /\ time <= time' /\ ready = <<>>
    BY <1>7 DEF EndIo
  <2> QED BY <2>1, <2>2, <2>3, <2>4, TimersLeft
<1>8. CASE Tick
  <2>1. clock + 1 \in 0..MaxTime BY <1>8, WidthAssumption DEF Tick, TypeOK
  <2>3. TypeOK' BY <1>8, <2>1 DEF Tick, TypeOK
  <2>2. TimeInv' BY <1>8 DEF Tick
  <2> QED BY <1>8, <2>2, <2>3, TimersLeft DEF Tick
<1>9. CASE PollInterrupted
  <2>1. ASSUME NEW rest \in Int, rest <= MaxInt, rest >= -1, PollAgain(rest) PROVE IInv'
    <3>1. TypeOK' BY <2>1, WidthAssumption DEF PollAgain, TypeOK
    <3>2. TimeInv' BY <2>1 DEF PollAgain, TypeOK
    <3> QED BY <2>1, <3>1, <3>2, TimersLeft DEF PollAgain
  <2>2. CASE tmo = -1 /\ PollAgain(-1) BY <2>1, <2>2, WidthAssumption
  <2>3. CASE tmo - (clock - base) > 0 /\ PollAgain(tmo - (clock - base))
    <3>1. base \in Nat /\ base <= clock /\ tmo \in Int /\ tmo <= MaxInt
      BY <2>3, WidthAssumption DEF PollAgain, TypeOK
    <3> QED BY <2>1, <2>3, <3>1, WidthAssumption
  <2> QED BY <1>6, <1>9, <2>2, <2>3 DEF PollInterrupted
<1> QED BY <1>2, <1>3, <1>4, <1>5, <1>6, <1>7, <1>8, <1>9

LEMMA NextKeeps == IInv /\ [Next]_vars => IInv'
<1> SUFFICES ASSUME IInv, [Next]_vars PROVE IInv' OBVIOUS
<1>1. CASE UNCHANGED vars
  <2>1. UNCHANGED <<clock, time, heap, timeout, older, ready, handle, cb, repeat, phase,
                    base, entered, tmo, asked, wanted>>
    BY <1>1 DEF vars, timer, queues, poll, history
  <2>2. TypeOK' /\ TimeInv' BY <2>1 DEF IInv, TypeOK, TimeInv
  <2>3. time <= time' BY <2>1, WidthAssumption DEF IInv, TypeOK
  <2> QED BY <2>1, <2>2, <2>3, TimersLeft
<1>2. CASE Next
  BY <1>2, UserKeeps, CollectKeeps, CallKeeps, LoopKeeps
  DEF Next, LoopStep, PollTimesOut, PollEvent
<1> QED BY <1>1, <1>2

LEMMA Invariant == Spec => []IInv
BY TypeInit, NextKeeps, PTL DEF Spec

-----------------------------------------------------------------------------
(* Type correctness: no timeout leaves its width, whatever the sum of time    *)
(* and timeout wraps to, and the poll is never given a negative one but -1.   *)
THEOREM TypeCorrect == Spec => []TypeOK
<1>1. IInv => TypeOK BY DEF IInv
<1> QED BY <1>1, Invariant, PTL

(* A timer somebody waits for is in the heap or in the queue of due timers,   *)
(* once, and a timer that was stopped or closed is in neither.                *)
THEOREM TimersHaveOneHome == Spec => []OneHome
<1>1. IInv => OneHome BY DEF IInv
<1> QED BY <1>1, Invariant, PTL

LEMMA TimeoutBounded ==
  ASSUME TypeOK, NEW t \in HeapMin
  PROVE  BackendTimeout # -1 /\ (BackendTimeout > 0 => BackendTimeout <= timeout[t] - time)
<1>1. PICK u \in HeapMin : u = CHOOSE v \in HeapMin : TRUE OBVIOUS
<1>2. timeout[u] <= timeout[t] /\ timeout[u] \in Nat /\ timeout[t] \in Nat /\ time \in Nat
  <2>1. t \in Timers /\ u \in Timers BY DEF HeapMin, TypeOK
  <2>2. timeout[u] \in Nat /\ timeout[t] \in Nat /\ time \in Nat
    BY <2>1, WidthAssumption DEF TypeOK
  <2>3. u = t \/ LessThan(u, t) BY DEF HeapMin
  <2> QED BY <2>2, <2>3 DEF LessThan
<1>3. NextTimeout = IF timeout[u] <= time THEN 0
                    ELSE IF timeout[u] - time > MaxInt THEN MaxInt ELSE timeout[u] - time
  BY <1>1 DEF NextTimeout
<1>4. NextTimeout # -1 /\ (NextTimeout > 0 => NextTimeout <= timeout[t] - time)
  BY <1>2, <1>3, WidthAssumption
<1> QED BY <1>4, WidthAssumption DEF BackendTimeout

(* The poll is never entered for longer than the first timer has still to go, *)
(* however often epoll_pwait is interrupted, for any timers and any widths.   *)
THEOREM NeverOversleeps == Spec => []NoOversleep
<1>1. Init => NoOversleep BY DEF Init, NoOversleep
<1>2. ASSUME IInv, NoOversleep, [Next]_vars PROVE NoOversleep'
  <2>0. TypeOK /\ TimeInv BY <1>2 DEF IInv
  <2> SUFFICES ASSUME phase' = "poll", NEW t \in HeapMin'
               PROVE  (tmo # -1 /\ (tmo > 0 => tmo <= timeout[t] - time))'
    BY DEF NoOversleep
  <2>1. ASSUME UNCHANGED <<heap, timeout, older>> PROVE t \in HeapMin
    BY <2>1 DEF HeapMin, LessThan
  <2>2. CASE EnterPoll
    <3>1. t \in HeapMin BY <2>1, <2>2 DEF EnterPoll, timer, queues
    <3>2. UNCHANGED <<timeout, time>> /\ tmo' = BackendTimeout
      BY <2>2 DEF EnterPoll, timer, queues
    <3> QED BY <2>0, <3>1, <3>2, TimeoutBounded
  <2>3. CASE PollInterrupted
    <3>1. PICK rest : /\ PollAgain(rest)
                      /\ \/ tmo = -1 /\ rest = -1
                         \/ rest > 0 /\ rest = tmo - (clock - base)
      BY <2>3 DEF PollInterrupted, PollReturns
    <3>2. /\ phase = "poll" /\ UNCHANGED <<heap, timeout, older>>
          /\ time' = clock /\ tmo' = rest
      BY <3>1 DEF PollAgain, timer, queues
    <3>3. t \in HeapMin BY <2>1, <3>2
    <3>4. tmo # -1 /\ (tmo > 0 => tmo <= timeout[t] - time) BY <1>2, <3>2, <3>3 DEF NoOversleep
    <3>5. /\ base <= time /\ time <= clock
          /\ base \in Nat /\ time \in Nat /\ clock \in Nat /\ tmo \in Int /\ timeout[t] \in Nat
      BY <2>0, <3>2, <3>3, WidthAssumption DEF TypeOK, TimeInv, HeapMin
    <3> QED BY <3>1, <3>2, <3>4, <3>5
  <2>4. CASE Tick \/ UNCHANGED vars
    <3>1. UNCHANGED <<phase, heap, timeout, older, time, tmo>>
      BY <2>4 DEF Tick, vars, timer, queues, poll
    <3>2. t \in HeapMin BY <2>1, <3>1
    <3> QED BY <1>2, <3>1, <3>2 DEF NoOversleep
  <2>5. CASE Run \/ CollectEnds \/ CallbackReturns \/ PollReturns \/ EndIo
    BY <2>5 DEF Run, CollectEnds, CallbackReturns, PollReturns, EndIo
  <2>6. ASSUME NEW u \in Timers, Collect(u) \/ Call(u) PROVE FALSE
    BY <2>6 DEF Collect, Call
  <2>7. ASSUME NEW u \in Timers, UserStep(u) PROVE FALSE
    BY <2>7
    DEF UserStep, Restart, TimerInit, TimerStop, TimerClose, TimerAgain, TimerStart, SetRepeat,
        User
  <2> QED BY <1>2, <2>2, <2>3, <2>4, <2>5, <2>6, <2>7
          DEF Next, LoopStep, PollTimesOut, PollEvent
<1> QED BY <1>1, <1>2, Invariant, PTL DEF Spec

(* No timer is called early, also where the addition of uv_timer_start wraps, *)
(* and due timers are called in the order of their expiry and start.          *)
THEOREM TimersInOrder == Spec => FiresWhenDue
<1>1. IInv /\ [Next]_vars =>
        [\A t \in Timers : Call(t) => /\ time >= asked[t]
                                      /\ ~ \E u \in ToSet(ready) : Earlier(u, t)]_vars
  <2> SUFFICES ASSUME IInv, NEW t \in Timers, Call(t)
               PROVE  time >= asked[t] /\ ~ \E u \in ToSet(ready) : Earlier(u, t)
    OBVIOUS
  <2>0. TypeOK /\ OneHome /\ AskedInv /\ ReadyInv /\ OlderInv BY DEF IInv
  <2>1. ready # <<>> /\ t = Head(ready) BY DEF Call
  <2>2. t = ready[1] /\ t \in ToSet(ready) BY <2>0, <2>1, RemovedTail
  <2>3. ToSet(ready) \subseteq wanted /\ wanted \subseteq Timers BY <2>0 DEF OneHome, TypeOK
  <2>4. \A u \in ToSet(ready) : timeout[u] = asked[u] /\ asked[u] \in Nat
    BY <2>0, <2>3 DEF AskedInv, TypeOK
  <2>5. time >= asked[t] BY <2>0, <2>2, <2>4 DEF ReadyInv, TypeOK
  <2>6. ASSUME NEW u \in ToSet(ready), Earlier(u, t) PROVE FALSE
    <3>1. PICK i \in DOMAIN ready : u = ready[i] BY DEF ToSet
    <3>2. 1 \in DOMAIN ready /\ i \in Nat /\ i >= 1
      <4>1. ready \in Seq(Timers) BY <2>0 DEF TypeOK
      <4>2. DOMAIN ready = 1..Len(ready) /\ Len(ready) \in Nat BY <4>1, LenProperties
      <4> QED BY <3>1, <4>2
    <3>3. u # t => LessThan(t, u) BY <2>0, <2>2, <3>1, <3>2 DEF ReadyInv
    <3> QED BY <2>0, <2>2, <2>3, <2>4, <2>6, <3>3 DEF LessThan, Earlier, OlderInv
  <2> QED BY <2>5, <2>6
<1> QED BY <1>1, Invariant, PTL DEF Spec, FiresWhenDue
=============================================================================

----------------------- MODULE UvThreadPoolProofs -----------------------
(* Proofs about UvThreadPool for any number of workers, any requests and    *)
(* any number of calls of uv_cancel.                                        *)
EXTENDS UvThreadPool, SequenceFacts, FiniteSetTheorems

-----------------------------------------------------------------------------
(* The inductive invariant, part by part. *)

Idle == {w \in Workers : pc[w] \in {"wait", "woken"}}
Slow == {w \in Workers : is_slow[w]}

(* The counters are right, and slow work is given back on the next lock. *)
CountInv == /\ idle_threads = Cardinality(Idle)
            /\ slow_running = Cardinality(Slow)
            /\ \A w \in Workers : is_slow[w] => pc[w] \in {"work", "put", "send", "lock"}

(* Where a thread is decides which mutex it holds and which request it has. *)
PlaceInv == /\ \A w \in Workers : /\ pc[w] = "top" <=> mutex = w
                                  /\ pc[w] = "send" <=> wq_mutex = w
                                  /\ pc[w] \in {"work", "put"} <=> job[w] # NoReq
            /\ lpc = "cancel" <=> mutex = Loop
            /\ wq_mutex # Loop
            /\ lpc \in {"cancel", "put"} <=> target # NoReq

(* No queue holds anything twice, and the messages are where they belong. *)
QueueInv == /\ IsInjective(wq) /\ IsInjective(slow_wq)
            /\ IsInjective(loop_wq) /\ IsInjective(local)
            /\ ToSet(wq) \cap SlowReqs = {}
            /\ ExitMsg \in ToSet(wq) => lpc \in {"join", "done"}

(* What is known of a request from the place where it is. *)
Submitted(r) == work[r] = "set" /\ r \notin ran /\ result[r] = "none"
Begun(r)     == work[r] = "set" /\ r \in ran /\ result[r] = "none"
Returned(r)  == /\ \/ work[r] = "null" /\ r \in ran
                   \/ work[r] = "cancelled" /\ r \notin ran
                /\ result[r] = "none"
Cancelling(r) == work[r] # "null" /\ r \notin ran /\ result[r] = "none"

HomeInv == /\ \A r \in Reqs \cap (ToSet(wq) \cup ToSet(slow_wq)) : Submitted(r)
           /\ \A w \in Workers : job[w] # NoReq => Begun(job[w])
           /\ \A v, w \in Workers : job[v] = job[w] /\ job[v] # NoReq => v = w
           /\ \A r \in ToSet(loop_wq) \cup ToSet(local) : Returned(r)
           /\ ToSet(loop_wq) \cap ToSet(local) = {}
           /\ lpc = "put" => /\ Cancelling(target)
                             /\ target \notin ToSet(wq) \cup ToSet(slow_wq)
                             /\ target \notin ToSet(loop_wq) \cup ToSet(local)

(* A request that waits for its callback is somewhere, and what callbacks     *)
(* were told was true.                                                        *)
KeptInv == \A r \in Reqs :
             /\ Pending(r) => \/ r \in ToSet(wq) \cup ToSet(slow_wq)
                              \/ r \in ToSet(loop_wq) \cup ToSet(local)
                              \/ \E w \in Workers : job[w] = r
                              \/ lpc = "put" /\ target = r
             /\ work[r] = "cancelled" \/ result[r] = "ecanceled" => r \notin ran
             /\ result[r] = "ok" => r \in ran

(* Signals: the entries of wq that a worker may take now are not more than    *)
(* the workers that are about to look at wq, unless nobody sleeps. A worker   *)
(* that comes back from slow work is not counted: it makes the message for    *)
(* slow work eligible when it locks the mutex.                                *)
Awake == {w \in Workers : pc[w] \in {"lock", "woken", "top", "put", "send"} /\ ~is_slow[w]}
Eligible == IF SlowMsg \in ToSet(wq) /\ slow_running >= Threshold THEN Len(wq) - 1 ELSE Len(wq)
SignalInv == (\E w \in Workers : pc[w] = "wait") => Eligible <= Cardinality(Awake)

IInv == TypeOK /\ CountInv /\ PlaceInv /\ QueueInv /\ HomeInv /\ KeptInv /\ SignalInv

-----------------------------------------------------------------------------
(* Lemmas about the helpers of the model. *)

Stages == {"lock", "top", "wait", "woken", "work", "put", "send", "exited"}

LEMMA WorkerSets ==
  ASSUME NEW A \in SUBSET Workers
  PROVE  /\ IsFiniteSet(A)
         /\ Cardinality(A) \in Nat
         /\ Cardinality(Workers) \in Nat
         /\ Cardinality(A) <= Cardinality(Workers)
         /\ \A x : Cardinality(A \cup {x}) = IF x \in A THEN Cardinality(A) ELSE Cardinality(A) + 1
         /\ \A x : Cardinality(A \ {x}) = IF x \in A THEN Cardinality(A) - 1 ELSE Cardinality(A)
         /\ Cardinality(A) = 0 <=> A = {}
<1>1. IsFiniteSet(A) /\ Cardinality(A) <= Cardinality(Workers)
  BY WorkersAssumption, FS_Subset
<1>2. Cardinality(A) \in Nat /\ Cardinality(Workers) \in Nat
  BY <1>1, WorkersAssumption, FS_CardinalityType
<1>3. \A x : Cardinality(A \cup {x}) = IF x \in A THEN Cardinality(A) ELSE Cardinality(A) + 1
  BY <1>1, FS_AddElement
<1>4. \A x : Cardinality(A \ {x}) = IF x \in A THEN Cardinality(A) - 1 ELSE Cardinality(A)
  BY <1>1, FS_RemoveElement
<1> QED BY <1>1, <1>2, <1>3, <1>4, FS_EmptySet

(* uv_cond_signal wakes somebody who waits, or nobody waits. *)
Woke(p, q) == \/ q = p /\ \A w \in Workers : p[w] # "wait"
              \/ \E v \in Workers : p[v] = "wait" /\ q = [p EXCEPT ![v] = "woken"]

LEMMA SignalledWakes ==
  ASSUME NEW p, NEW q \in Signalled(p)
  PROVE  Woke(p, q)
BY DEF Signalled, Woke

(* The test of idle_threads never keeps a signal from somebody who waits. *)
LEMMA SignalIdleWakes ==
  ASSUME CountInv, NEW p, NEW q \in SignalIdle(p),
         \A w \in Workers : p[w] = "wait" => pc[w] = "wait"
  PROVE  Woke(p, q)
<1>1. CASE idle_threads > 0 BY <1>1, SignalledWakes DEF SignalIdle
<1>2. CASE ~(idle_threads > 0)
  <2>1. Idle \in SUBSET Workers BY DEF Idle
  <2>2. Idle = {}
    <3>1. Cardinality(Idle) \in Nat /\ (Cardinality(Idle) = 0 <=> Idle = {})
      BY <2>1, WorkerSets
    <3> QED BY <3>1, <1>2 DEF CountInv
  <2>3. \A w \in Workers : p[w] # "wait" BY <2>2 DEF Idle
  <2> QED BY <1>2, <2>3 DEF SignalIdle, Woke
<1> QED BY <1>1, <1>2

LEMMA ThresholdFacts ==
  /\ Threshold \in Nat \ {0}
  /\ Threshold = (Cardinality(Workers) + 1) \div 2
<1>1. Cardinality(Workers) \in Nat \ {0}
  BY WorkersAssumption, FS_CardinalityType, FS_EmptySet
<1> QED BY <1>1 DEF Threshold

(* The three sets that are counted are sets of workers. *)
LEMMA CountedSets ==
  /\ Idle \in SUBSET Workers /\ Slow \in SUBSET Workers /\ Awake \in SUBSET Workers
  /\ Idle' \in SUBSET Workers /\ Slow' \in SUBSET Workers /\ Awake' \in SUBSET Workers
BY DEF Idle, Slow, Awake

LEMMA InitIInv == Init => IInv
<1> SUFFICES ASSUME Init PROVE IInv OBVIOUS
<1> USE DEF Init
<1>1. ToSet(<<>>) = {} /\ IsInjective(<<>>) BY DEF ToSet, IsInjective
<1>2. Idle = {} /\ Slow = {} BY DEF Idle, Slow
<1>3. Cardinality(Workers) \in Nat /\ (Cardinality(Workers) + 1) \div 2 \in Nat
  BY WorkersAssumption, FS_CardinalityType
<1>4. TypeOK
  <2>1. /\ idle_threads \in 0..Cardinality(Workers)
        /\ slow_running \in 0..(Cardinality(Workers) + 1) \div 2
        /\ cancels \in 0..MaxCancels
    BY <1>3, CancelsAssumption
  <2>2. /\ pc \in [Workers -> Stages]
        /\ job \in [Workers -> Reqs \cup {NoReq}]
        /\ is_slow \in [Workers -> BOOLEAN]
        /\ work \in [Reqs -> {"null", "set", "cancelled"}]
        /\ result \in [Reqs -> {"none", "ok", "ecanceled"}]
    BY DEF Stages
  <2>3. /\ wq \in Seq(Reqs \cup {SlowMsg, ExitMsg}) /\ slow_wq \in Seq(SlowReqs)
        /\ loop_wq \in Seq(Reqs) /\ local \in Seq(Reqs)
    OBVIOUS
  <2>4. /\ mutex \in Threads \cup {Free} /\ wq_mutex \in Threads \cup {Free}
        /\ async \in BOOLEAN /\ lpc \in {"user", "cancel", "put", "join", "done"}
        /\ target \in Reqs \cup {NoReq} /\ ran \subseteq Reqs
    OBVIOUS
  <2> QED BY ONLY <2>1, <2>2, <2>3, <2>4 DEF TypeOK, Stages
<1>5. CountInv BY <1>2, FS_EmptySet DEF CountInv
<1>6. PlaceInv BY ThreadsAssumption, ReqsAssumption DEF PlaceInv, Threads
<1>7. QueueInv BY <1>1 DEF QueueInv
<1>8. HomeInv BY <1>1 DEF HomeInv
<1>9. KeptInv BY DEF KeptInv, Pending
<1>10. SignalInv BY DEF SignalInv
<1> QED BY <1>4, <1>5, <1>6, <1>7, <1>8, <1>9, <1>10 DEF IInv

-----------------------------------------------------------------------------
(* The steps that move no request. *)

LEMMA RequestsStay ==
  ASSUME QueueInv, HomeInv, KeptInv,
         UNCHANGED <<wq, slow_wq, loop_wq, local, job, work, result, ran>>,
         lpc' = "put" <=> lpc = "put",
         lpc = "put" => target' = target,
         lpc \in {"join", "done"} => lpc' \in {"join", "done"}
  PROVE  QueueInv' /\ HomeInv' /\ KeptInv'
<1>1. QueueInv' BY DEF QueueInv
<1>2. HomeInv' BY DEF HomeInv, Submitted, Begun, Returned, Cancelling
<1>3. KeptInv' BY DEF KeptInv, Pending
<1> QED BY <1>1, <1>2, <1>3

LEMMA WorkerLockStep ==
  ASSUME IInv, NEW w \in Workers, WorkerLock(w)
  PROVE  IInv'
<1> USE DEF IInv
<1>1. /\ pc[w] = "lock" /\ mutex = Free /\ mutex' = w
      /\ slow_running' = IF is_slow[w] THEN slow_running - 1 ELSE slow_running
      /\ is_slow' = [is_slow EXCEPT ![w] = FALSE]
      /\ pc' = [pc EXCEPT ![w] = "top"]
      /\ UNCHANGED <<wq, slow_wq, idle_threads, job, loop_wq, async, local, wq_mutex, lpc,
                     target, work, result, ran, cancels>>
  BY DEF WorkerLock, loop, request
<1>2. /\ pc \in [Workers -> Stages]
      /\ is_slow \in [Workers -> BOOLEAN]
  BY DEF TypeOK, Stages
<1>3. Idle' = Idle /\ Slow' = Slow \ {w}
  BY <1>1, <1>2 DEF Idle, Slow
<1>4. Slow' \in SUBSET Workers /\ Slow \in SUBSET Workers /\ (w \in Slow <=> is_slow[w])
  BY DEF Slow, CountedSets
<1>5. slow_running' = Cardinality(Slow') /\ slow_running' \in 0..slow_running
  BY <1>1, <1>3, <1>4, WorkerSets DEF CountInv
<1>6. TypeOK'
  <2>1. /\ slow_running' \in 0..(Cardinality(Workers) + 1) \div 2
        /\ mutex' \in Threads \cup {Free}
    BY <1>1, <1>5, ThresholdFacts DEF TypeOK, Threads
  <2>2. /\ pc' \in [Workers -> Stages]
        /\ is_slow' \in [Workers -> BOOLEAN]
    BY <1>1, <1>2 DEF Stages
  <2> QED BY <1>1, <2>1, <2>2 DEF TypeOK, Stages
<1>7. CountInv' BY <1>1, <1>2, <1>3, <1>5 DEF CountInv
<1>8. PlaceInv' BY <1>1, <1>2, ThreadsAssumption DEF PlaceInv, Threads
<1>9. QueueInv' /\ HomeInv' /\ KeptInv' BY <1>1, RequestsStay
<1>10. SignalInv'
  <2> SUFFICES ASSUME \E v \in Workers : pc[v] = "wait" PROVE Eligible' <= Cardinality(Awake')
    BY <1>1, <1>2 DEF SignalInv
  <2>1. Eligible <= Cardinality(Awake) BY DEF SignalInv
  <2>2. Len(wq) \in Nat BY LenProperties DEF TypeOK
  <2>3. Awake' = Awake \cup {w} BY <1>1, <1>2 DEF Awake
  <2>4. Cardinality(Awake) \in Nat /\ Cardinality(Awake') = IF w \in Awake THEN Cardinality(Awake) ELSE Cardinality(Awake) + 1
    BY <2>3, CountedSets, WorkerSets
  <2>5. w \in Awake <=> ~is_slow[w] BY <1>1 DEF Awake
  <2>6. Eligible' <= IF is_slow[w] THEN Eligible + 1 ELSE Eligible
    <3>1. slow_running' <= slow_running /\ slow_running' \in Nat /\ slow_running \in Nat
      BY <1>5 DEF TypeOK
    <3> QED BY <1>1, <2>2, <3>1, ThresholdFacts DEF Eligible
  <2>7. Eligible \in Int /\ Eligible' \in Int BY <1>1, <2>2 DEF Eligible
  <2> QED BY <2>1, <2>4, <2>5, <2>6, <2>7
<1> QED BY <1>6, <1>7, <1>8, <1>9, <1>10

LEMMA WorkerWakesStep ==
  ASSUME IInv, NEW w \in Workers, WorkerWakes(w)
  PROVE  IInv'
<1> USE DEF IInv
<1>1. /\ pc[w] = "woken" /\ mutex = Free /\ mutex' = w
      /\ idle_threads' = idle_threads - 1
      /\ pc' = [pc EXCEPT ![w] = "top"]
      /\ UNCHANGED <<wq, slow_wq, slow_running, job, is_slow, loop_wq, async, local, wq_mutex,
                     lpc, target, work, result, ran, cancels>>
  BY DEF WorkerWakes, loop, request
<1>2. pc \in [Workers -> Stages] BY DEF TypeOK, Stages
<1>3. Idle' = Idle \ {w} /\ Slow' = Slow /\ w \in Idle
  BY <1>1, <1>2 DEF Idle, Slow
<1>4. idle_threads' = Cardinality(Idle') /\ idle_threads' \in 0..idle_threads
  BY <1>1, <1>3, CountedSets, WorkerSets DEF CountInv
<1>5. TypeOK'
  <2>1. /\ idle_threads' \in 0..Cardinality(Workers)
        /\ mutex' \in Threads \cup {Free}
    BY <1>1, <1>4, WorkersAssumption, FS_CardinalityType DEF TypeOK, Threads
  <2>2. pc' \in [Workers -> Stages] BY <1>1, <1>2 DEF Stages
  <2> QED BY <1>1, <2>1, <2>2 DEF TypeOK, Stages
<1>6. CountInv' BY <1>1, <1>2, <1>3, <1>4 DEF CountInv
<1>7. PlaceInv' BY <1>1, <1>2, ThreadsAssumption DEF PlaceInv, Threads
<1>8. QueueInv' /\ HomeInv' /\ KeptInv' BY <1>1, RequestsStay
<1>9. Awake' = Awake BY <1>1, <1>2 DEF Awake
<1>10. SignalInv' BY <1>1, <1>2, <1>9 DEF SignalInv, Eligible
<1> QED BY <1>5, <1>6, <1>7, <1>8, <1>10

(* A worker goes to sleep only when there is nothing it may take. *)
LEMMA WorkerWaitsStep ==
  ASSUME IInv, NEW w \in Workers, WorkerWaits(w)
  PROVE  IInv'
<1> USE DEF IInv
<1>1. /\ pc[w] = "top" /\ NothingToDo
      /\ idle_threads' = idle_threads + 1
      /\ mutex' = Free
      /\ pc' = [pc EXCEPT ![w] = "wait"]
      /\ UNCHANGED <<wq, slow_wq, slow_running, job, is_slow, loop_wq, async, local, wq_mutex,
                     lpc, target, work, result, ran, cancels>>
  BY DEF WorkerWaits, loop, request
<1>2. pc \in [Workers -> Stages] BY DEF TypeOK, Stages
<1>3. Idle' = Idle \cup {w} /\ Slow' = Slow /\ w \notin Idle
  BY <1>1, <1>2 DEF Idle, Slow
<1>4. idle_threads' = Cardinality(Idle')
  BY <1>1, <1>3, CountedSets, WorkerSets DEF CountInv
<1>5. idle_threads' \in 0..Cardinality(Workers)
  BY <1>4, CountedSets, WorkerSets
<1>6. TypeOK'
  <2>1. pc' \in [Workers -> Stages] BY <1>1, <1>2 DEF Stages
  <2> QED BY <1>1, <1>5, <2>1 DEF TypeOK, Stages
<1>7. CountInv' BY <1>1, <1>2, <1>3, <1>4 DEF CountInv
<1>8. PlaceInv' BY <1>1, <1>2, ThreadsAssumption DEF PlaceInv, Threads
<1>9. QueueInv' /\ HomeInv' /\ KeptInv' BY <1>1, RequestsStay
<1>10. SignalInv'
  <2>1. Eligible' = 0
    <3>1. CASE wq = <<>>
      <4>1. Len(wq) = 0 /\ ToSet(wq) = {} BY <3>1 DEF ToSet
      <4> QED BY <4>1, <1>1 DEF Eligible
    <3>2. CASE wq = <<SlowMsg>> /\ slow_running >= Threshold
      <4>1. Len(wq) = 1 /\ SlowMsg \in ToSet(wq) BY <3>2 DEF ToSet
      <4> QED BY <4>1, <3>2, <1>1 DEF Eligible
    <3> QED BY <3>1, <3>2, <1>1 DEF NothingToDo
  <2>2. Cardinality(Awake') \in Nat BY CountedSets, WorkerSets
  <2> QED BY <2>1, <2>2 DEF SignalInv
<1> QED BY <1>6, <1>7, <1>8, <1>9, <1>10

(* Who exits wakes the next one. *)
LEMMA WorkerExitsStep ==
  ASSUME IInv, NEW w \in Workers, WorkerExits(w)
  PROVE  IInv'
<1> USE DEF IInv
<1> DEFINE p == [pc EXCEPT ![w] = "exited"]
<1>1. /\ pc[w] = "top"
      /\ pc' \in Signalled(p)
      /\ mutex' = Free
      /\ UNCHANGED <<wq, slow_wq, idle_threads, slow_running, job, is_slow, loop_wq, async, local,
                     wq_mutex, lpc, target, work, result, ran, cancels>>
  BY DEF WorkerExits, loop, request, pool
<1>2. pc \in [Workers -> Stages] BY DEF TypeOK, Stages
<1>3. p \in [Workers -> Stages] BY <1>2 DEF Stages
<1>4. Woke(p, pc') BY <1>1, SignalledWakes
<1>5. pc' \in [Workers -> Stages] BY <1>3, <1>4 DEF Woke, Stages
<1>6. \A v \in Workers : \/ v = w /\ pc'[v] = "exited"
                         \/ v # w /\ pc'[v] = pc[v]
                         \/ v # w /\ pc[v] = "wait" /\ pc'[v] = "woken"
  BY <1>1, <1>2, <1>4 DEF Woke
<1>7. Idle' = Idle /\ Slow' = Slow
  BY <1>1, <1>6 DEF Idle, Slow
<1>8. TypeOK' BY <1>1, <1>5 DEF TypeOK, Stages
<1>9. CountInv' BY <1>1, <1>6, <1>7 DEF CountInv
<1>10. PlaceInv' BY <1>1, <1>6, ThreadsAssumption DEF PlaceInv, Threads
<1>11. QueueInv' /\ HomeInv' /\ KeptInv' BY <1>1, RequestsStay
<1>12. SignalInv'
  <2> SUFFICES ASSUME \E v \in Workers : pc'[v] = "wait" PROVE Eligible' <= Cardinality(Awake')
    BY DEF SignalInv
  <2>1. PICK v \in Workers : p[v] = "wait" /\ pc' = [p EXCEPT ![v] = "woken"]
    BY <1>4, <1>6 DEF Woke
  <2>2. v # w /\ pc[v] = "wait" /\ ~is_slow[v] /\ ~is_slow[w]
    BY <2>1, <1>1, <1>2 DEF CountInv
  <2>3. Awake' = (Awake \ {w}) \cup {v} /\ w \in Awake /\ v \notin Awake
    BY <1>1, <1>2, <2>1, <2>2 DEF Awake
  <2>4. Cardinality(Awake \ {w}) = Cardinality(Awake) - 1
    BY <2>3, CountedSets, WorkerSets
  <2>5. Cardinality(Awake') = Cardinality(Awake \ {w}) + 1
    <3>1. Awake \ {w} \in SUBSET Workers /\ v \notin Awake \ {w} BY <2>3, CountedSets
    <3> QED BY <3>1, <2>3, WorkerSets
  <2>6. Cardinality(Awake') = Cardinality(Awake)
    BY <2>4, <2>5, CountedSets, WorkerSets
  <2>7. Eligible' = Eligible BY <1>1 DEF Eligible
  <2> QED BY <2>2, <2>6, <2>7 DEF SignalInv
<1> QED BY <1>8, <1>9, <1>10, <1>11, <1>12

LEMMA WorkReturnsStep ==
  ASSUME IInv, NEW w \in Workers, WorkReturns(w)
  PROVE  IInv'
<1> USE DEF IInv
<1>1. /\ pc[w] = "work"
      /\ pc' = [pc EXCEPT ![w] = "put"]
      /\ UNCHANGED <<wq, slow_wq, idle_threads, slow_running, mutex, job, is_slow, loop_wq, async,
                     local, wq_mutex, lpc, target, work, result, ran, cancels>>
  BY DEF WorkReturns, loop, request, pool
<1>2. pc \in [Workers -> Stages] BY DEF TypeOK, Stages
<1>3. Idle' = Idle /\ Slow' = Slow BY <1>1, <1>2 DEF Idle, Slow
<1>4. TypeOK'
  <2>1. pc' \in [Workers -> Stages] BY <1>1, <1>2 DEF Stages
  <2> QED BY <1>1, <2>1 DEF TypeOK, Stages
<1>5. CountInv' BY <1>1, <1>2, <1>3 DEF CountInv
<1>6. PlaceInv' BY <1>1, <1>2 DEF PlaceInv
<1>7. QueueInv' /\ HomeInv' /\ KeptInv' BY <1>1, RequestsStay
<1>8. SignalInv'
  <2> SUFFICES ASSUME \E v \in Workers : pc'[v] = "wait" PROVE Eligible' <= Cardinality(Awake')
    BY DEF SignalInv
  <2>1. \E v \in Workers : pc[v] = "wait" BY <1>1, <1>2
  <2>2. Awake' = IF is_slow[w] THEN Awake ELSE Awake \cup {w}
    BY <1>1, <1>2 DEF Awake
  <2>3. Cardinality(Awake') >= Cardinality(Awake) /\ Cardinality(Awake) \in Nat /\ Cardinality(Awake') \in Nat
    BY <2>2, CountedSets, WorkerSets
  <2>4. Eligible' = Eligible /\ Eligible \in Int
    <3>1. Len(wq) \in Nat BY LenProperties DEF TypeOK
    <3> QED BY <1>1, <3>1 DEF Eligible
  <2>5. Eligible <= Cardinality(Awake) BY <2>1 DEF SignalInv
  <2> QED BY <2>3, <2>4, <2>5
<1> QED BY <1>4, <1>5, <1>6, <1>7, <1>8

LEMMA WorkerSendsStep ==
  ASSUME IInv, NEW w \in Workers, WorkerSends(w)
  PROVE  IInv'
<1> USE DEF IInv
<1>1. /\ pc[w] = "send"
      /\ async' = TRUE /\ wq_mutex' = Free
      /\ pc' = [pc EXCEPT ![w] = "lock"]
      /\ UNCHANGED <<wq, slow_wq, idle_threads, slow_running, mutex, job, is_slow, loop_wq,
                     local, lpc, target, work, result, ran, cancels>>
  BY DEF WorkerSends, request, pool
<1>2. pc \in [Workers -> Stages] BY DEF TypeOK, Stages
<1>3. Idle' = Idle /\ Slow' = Slow BY <1>1, <1>2 DEF Idle, Slow
<1>4. TypeOK'
  <2>1. pc' \in [Workers -> Stages] BY <1>1, <1>2 DEF Stages
  <2> QED BY <1>1, <2>1 DEF TypeOK, Stages
<1>5. CountInv' BY <1>1, <1>2, <1>3 DEF CountInv
<1>6. PlaceInv' BY <1>1, <1>2, ThreadsAssumption DEF PlaceInv, Threads
<1>7. QueueInv' /\ HomeInv' /\ KeptInv' BY <1>1, RequestsStay
<1>8. Awake' = Awake BY <1>1, <1>2 DEF Awake
<1>9. SignalInv' BY <1>1, <1>2, <1>8 DEF SignalInv, Eligible
<1> QED BY <1>4, <1>5, <1>6, <1>7, <1>9

(* The steps of the loop thread that touch no worker and no queue. *)
LEMMA WorkersStay ==
  ASSUME IInv,
         UNCHANGED <<wq, slow_wq, idle_threads, slow_running, pc, job, is_slow>>
  PROVE  CountInv' /\ SignalInv'
<1>1. Idle' = Idle /\ Slow' = Slow /\ Awake' = Awake BY DEF Idle, Slow, Awake
<1>2. CountInv' BY <1>1 DEF IInv, CountInv
<1>3. SignalInv' BY <1>1 DEF IInv, SignalInv, Eligible
<1> QED BY <1>2, <1>3

LEMMA CancelLockStep ==
  ASSUME IInv, NEW r \in Reqs, CancelLock(r)
  PROVE  IInv'
<1> USE DEF IInv
<1>1. /\ lpc = "user" /\ mutex = Free /\ mutex' = Loop /\ target' = r /\ lpc' = "cancel"
      /\ cancels < MaxCancels /\ cancels' = cancels + 1
      /\ UNCHANGED <<wq, slow_wq, idle_threads, slow_running, pc, job, is_slow, loop_wq, async,
                     local, wq_mutex, work, result, ran>>
  BY DEF CancelLock, pool, worker, loop, request
<1>2. TypeOK'
  <2>1. cancels' \in 0..MaxCancels BY <1>1, CancelsAssumption DEF TypeOK
  <2> QED BY <1>1, <2>1 DEF TypeOK, Threads
<1>3. PlaceInv' BY <1>1, ThreadsAssumption, ReqsAssumption DEF PlaceInv, Threads
<1>4. QueueInv' /\ HomeInv' /\ KeptInv' BY <1>1, RequestsStay
<1>5. CountInv' /\ SignalInv' BY <1>1, WorkersStay
<1> QED BY <1>2, <1>3, <1>4, <1>5

LEMMA CancelBusyStep ==
  ASSUME IInv, CancelBusy
  PROVE  IInv'
<1> USE DEF IInv
<1>1. /\ lpc = "cancel" /\ mutex' = Free /\ target' = NoReq /\ lpc' = "user"
      /\ UNCHANGED <<wq, slow_wq, idle_threads, slow_running, pc, job, is_slow, loop_wq, async,
                     local, wq_mutex, work, result, ran, cancels>>
  BY DEF CancelBusy, pool, worker, loop, request
<1>2. TypeOK' BY <1>1 DEF TypeOK
<1>3. PlaceInv' BY <1>1, ThreadsAssumption DEF PlaceInv, Threads
<1>4. QueueInv' /\ HomeInv' /\ KeptInv' BY <1>1, RequestsStay
<1>5. CountInv' /\ SignalInv' BY <1>1, WorkersStay
<1> QED BY <1>2, <1>3, <1>4, <1>5

LEMMA JoinedStep ==
  ASSUME IInv, Joined
  PROVE  IInv'
<1> USE DEF IInv
<1>1. /\ lpc = "join" /\ lpc' = "done"
      /\ UNCHANGED <<wq, slow_wq, idle_threads, slow_running, mutex, pc, job, is_slow, loop_wq,
                     async, local, wq_mutex, target, work, result, ran, cancels>>
  BY DEF Joined, pool, worker, loop, request
<1>2. TypeOK' BY <1>1 DEF TypeOK
<1>3. PlaceInv' BY <1>1 DEF PlaceInv
<1>4. QueueInv' /\ HomeInv' /\ KeptInv' BY <1>1, RequestsStay
<1>5. CountInv' /\ SignalInv' BY <1>1, WorkersStay
<1> QED BY <1>2, <1>3, <1>4, <1>5

-----------------------------------------------------------------------------
(* The steps that move requests. *)

Entries == Reqs \cup {SlowMsg, ExitMsg}

(* What the types say of the elements of the queues. *)
LEMMA QueueTypes ==
  ASSUME TypeOK
  PROVE  /\ wq \in Seq(Entries) /\ slow_wq \in Seq(SlowReqs)
         /\ loop_wq \in Seq(Reqs) /\ local \in Seq(Reqs)
         /\ ToSet(wq) \subseteq Entries
         /\ ToSet(slow_wq) \subseteq SlowReqs /\ SlowReqs \subseteq Reqs
         /\ ToSet(loop_wq) \subseteq Reqs /\ ToSet(local) \subseteq Reqs
         /\ Len(wq) \in Nat /\ SlowMsg \in Entries /\ ExitMsg \in Entries /\ Reqs \subseteq Entries
         /\ \A e \in Entries : e \in Reqs \/ e \in {SlowMsg, ExitMsg}
<1>1. /\ wq \in Seq(Entries) /\ slow_wq \in Seq(SlowReqs)
      /\ loop_wq \in Seq(Reqs) /\ local \in Seq(Reqs)
  BY DEF TypeOK, Entries
<1>2. ToSet(wq) \subseteq Entries /\ Len(wq) \in Nat BY <1>1, ToSetElement
<1>3. ToSet(slow_wq) \subseteq SlowReqs BY <1>1, ToSetElement
<1>4. ToSet(loop_wq) \subseteq Reqs BY <1>1, ToSetElement
<1>5. ToSet(local) \subseteq Reqs BY <1>1, ToSetElement
<1> QED BY <1>1, <1>2, <1>3, <1>4, <1>5 DEF Reqs, Entries

(* The entry at the head of wq leaves it. *)
LEMMA HeadLeaves ==
  ASSUME TypeOK, QueueInv, wq # <<>>
  PROVE  /\ Head(wq) \in ToSet(wq)
         /\ Tail(wq) \in Seq(Entries)
         /\ Len(Tail(wq)) = Len(wq) - 1
         /\ ToSet(Tail(wq)) = ToSet(wq) \ {Head(wq)}
         /\ IsInjective(Tail(wq))
BY QueueTypes, ToSetTail DEF QueueInv

(* The message for slow work goes from the head of wq to its tail.            *)
LEMMA MessageGoesBack ==
  ASSUME TypeOK, QueueInv, wq # <<>>, Head(wq) = SlowMsg
  PROVE  /\ Append(Tail(wq), SlowMsg) \in Seq(Entries)
         /\ IsInjective(Append(Tail(wq), SlowMsg))
         /\ Len(Append(Tail(wq), SlowMsg)) = Len(wq)
         /\ ToSet(Append(Tail(wq), SlowMsg)) = ToSet(wq)
<1> DEFINE t == Tail(wq)
<1>1. /\ t \in Seq(Entries) /\ IsInjective(t) /\ SlowMsg \notin ToSet(t)
      /\ ToSet(wq) = ToSet(t) \cup {SlowMsg} /\ Len(t) = Len(wq) - 1
  BY HeadLeaves
<1>2. SlowMsg \in Entries /\ Len(wq) \in Nat BY QueueTypes
<1> HIDE DEF t
<1>3. /\ Append(t, SlowMsg) \in Seq(Entries) /\ Len(Append(t, SlowMsg)) = Len(t) + 1
      /\ ToSet(Append(t, SlowMsg)) = ToSet(t) \cup {SlowMsg}
      /\ IsInjective(Append(t, SlowMsg))
  BY <1>1, <1>2, ToSetAppend
<1>4. Len(t) + 1 = Len(wq) BY <1>1, <1>2
<1> QED BY <1>1, <1>3, <1>4 DEF t

LEMMA WorkerRotatesStep ==
  ASSUME IInv, NEW w \in Workers, WorkerRotates(w)
  PROVE  IInv'
<1> USE DEF IInv
<1>1. /\ wq # <<>> /\ Head(wq) = SlowMsg
      /\ wq' = Append(Tail(wq), SlowMsg)
      /\ UNCHANGED <<slow_wq, idle_threads, slow_running, mutex, pc, job, is_slow, loop_wq, async,
                     local, wq_mutex, lpc, target, work, result, ran, cancels>>
  BY DEF WorkerRotates, NothingToDo, worker, loop, request
<1>2. /\ wq' \in Seq(Entries) /\ IsInjective(wq')
      /\ Len(wq') = Len(wq) /\ ToSet(wq') = ToSet(wq)
  BY <1>1, MessageGoesBack
<1>3. TypeOK' BY <1>1, <1>2 DEF TypeOK, Entries
<1>4. PlaceInv' BY <1>1 DEF PlaceInv
<1>5. QueueInv' BY <1>1, <1>2 DEF QueueInv
<1>6. HomeInv' BY <1>1, <1>2 DEF HomeInv, Submitted, Begun, Returned, Cancelling
<1>7. KeptInv' BY <1>1, <1>2 DEF KeptInv, Pending
<1>8. Idle' = Idle /\ Slow' = Slow /\ Awake' = Awake BY <1>1 DEF Idle, Slow, Awake
<1>9. CountInv' BY <1>1, <1>8 DEF CountInv
<1>10. SignalInv' BY <1>1, <1>2, <1>8 DEF SignalInv, Eligible
<1> QED BY <1>3, <1>4, <1>5, <1>6, <1>7, <1>9, <1>10

LEMMA WorkerSkipsStep ==
  ASSUME IInv, NEW w \in Workers, WorkerSkips(w)
  PROVE  IInv'
<1> USE DEF IInv
<1>1. /\ wq # <<>> /\ Head(wq) = SlowMsg /\ slow_running < Threshold
      /\ wq' = Tail(wq)
      /\ UNCHANGED <<slow_wq, idle_threads, slow_running, mutex, pc, job, is_slow, loop_wq, async,
                     local, wq_mutex, lpc, target, work, result, ran, cancels>>
  BY DEF WorkerSkips, NothingToDo, worker, loop, request
<1>2. /\ wq' \in Seq(Entries) /\ IsInjective(wq')
      /\ Len(wq') = Len(wq) - 1 /\ ToSet(wq') = ToSet(wq) \ {SlowMsg}
  BY <1>1, HeadLeaves
<1>3. TypeOK' BY <1>1, <1>2 DEF TypeOK, Entries
<1>4. PlaceInv' BY <1>1 DEF PlaceInv
<1>5. QueueInv' BY <1>1, <1>2 DEF QueueInv
<1>6. HomeInv' BY <1>1, <1>2 DEF HomeInv, Submitted, Begun, Returned, Cancelling
<1>7. KeptInv' BY <1>1, <1>2, MsgAssumption DEF KeptInv, Pending
<1>8. Idle' = Idle /\ Slow' = Slow /\ Awake' = Awake BY <1>1 DEF Idle, Slow, Awake
<1>9. CountInv' BY <1>1, <1>8 DEF CountInv
<1>10. SignalInv'
  <2>1. ~(slow_running >= Threshold) /\ slow_running' = slow_running
    BY <1>1, ThresholdFacts DEF TypeOK
  <2>2. Eligible = Len(wq) /\ Eligible' = Len(wq) - 1
    BY <1>2, <2>1 DEF Eligible
  <2>3. Cardinality(Awake) \in Nat /\ Len(wq) \in Nat BY CountedSets, WorkerSets, QueueTypes
  <2> QED BY <1>1, <1>8, <2>2, <2>3 DEF SignalInv
<1> QED BY <1>3, <1>4, <1>5, <1>6, <1>7, <1>9, <1>10

(* A worker begins the request at the head of a queue: it is now the          *)
(* worker's and nowhere else.                                                 *)
LEMMA RequestBegins ==
  ASSUME IInv, NEW w \in Workers, NEW r \in Reqs,
         pc[w] = "top",
         r \in ToSet(wq) \cup ToSet(slow_wq),
         IsInjective(wq'), IsInjective(slow_wq'),
         ToSet(wq') \cap Reqs = (ToSet(wq) \cap Reqs) \ {r},
         ToSet(wq') \subseteq ToSet(wq),
         ToSet(slow_wq') = ToSet(slow_wq) \ {r},
         job' = [job EXCEPT ![w] = r],
         ran' = ran \cup {r},
         UNCHANGED <<loop_wq, local, lpc, target, work, result>>
  PROVE  QueueInv' /\ HomeInv' /\ KeptInv'
<1> USE DEF IInv
<1>1. Submitted(r) BY DEF HomeInv
<1>2. job \in [Workers -> Reqs \cup {NoReq}] BY DEF TypeOK, Entries
<1>3. job[w] = NoReq BY DEF PlaceInv
<1>4. QueueInv' BY DEF QueueInv
<1>5. HomeInv'
  <2>1. \A q \in Reqs \cap (ToSet(wq') \cup ToSet(slow_wq')) : Submitted(q)'
    BY DEF HomeInv, Submitted
  <2>2. \A v \in Workers : job'[v] # NoReq => Begun(job[v])'
    BY <1>1, <1>2 DEF HomeInv, Begun, Submitted
  <2>3. \A v, u \in Workers : job'[v] = job'[u] /\ job'[v] # NoReq => v = u
    BY <1>1, <1>2 DEF HomeInv, Begun, Submitted
  <2>4. \A q \in ToSet(loop_wq) \cup ToSet(local) : Returned(q)'
    <3>1. r \notin ToSet(loop_wq) \cup ToSet(local) BY <1>1 DEF HomeInv, Returned, Submitted
    <3> QED BY <3>1 DEF HomeInv, Returned
  <2>5. lpc = "put" => /\ Cancelling(target)'
                       /\ target \notin ToSet(wq') \cup ToSet(slow_wq')
                       /\ target \notin ToSet(loop_wq) \cup ToSet(local)
    BY QueueTypes, MsgAssumption DEF HomeInv, Cancelling
  <2> QED BY <2>1, <2>2, <2>3, <2>4, <2>5 DEF HomeInv
<1>6. KeptInv'
  <2> SUFFICES ASSUME NEW q \in Reqs
               PROVE  /\ Pending(q)' => \/ q \in ToSet(wq') \cup ToSet(slow_wq')
                                        \/ q \in ToSet(loop_wq) \cup ToSet(local)
                                        \/ \E v \in Workers : job'[v] = q
                                        \/ lpc = "put" /\ target = q
                      /\ work[q] = "cancelled" \/ result[q] = "ecanceled" => q \notin ran'
                      /\ result[q] = "ok" => q \in ran'
    BY DEF KeptInv
  <2>1. CASE q = r BY <2>1, <1>1, <1>2 DEF Submitted
  <2>2. CASE q # r
    <3>1. Pending(q)' => Pending(q) BY <2>2 DEF Pending
    <3>2. \A v \in Workers : job[v] = q => job'[v] = q
      BY <1>2, <1>3, ReqsAssumption
    <3> QED BY <2>2, <3>1, <3>2 DEF KeptInv
  <2> QED BY <2>1, <2>2
<1> QED BY <1>4, <1>5, <1>6

LEMMA WorkerTakesStep ==
  ASSUME IInv, NEW w \in Workers, WorkerTakes(w)
  PROVE  IInv'
<1> USE DEF IInv
<1> DEFINE r == Head(wq)
<1>1. /\ pc[w] = "top" /\ wq # <<>> /\ r \in Reqs
      /\ job' = [job EXCEPT ![w] = r]
      /\ wq' = Tail(wq)
      /\ pc' = [pc EXCEPT ![w] = "work"]
      /\ ran' = ran \cup {r}
      /\ mutex' = Free
      /\ UNCHANGED <<slow_wq, idle_threads, slow_running, is_slow, loop_wq, async, local, wq_mutex,
                     lpc, target, work, result, cancels>>
  BY DEF WorkerTakes, NothingToDo, loop, request
<1>2. /\ wq' \in Seq(Entries) /\ IsInjective(wq')
      /\ Len(wq') = Len(wq) - 1 /\ ToSet(wq') = ToSet(wq) \ {r} /\ r \in ToSet(wq)
  BY <1>1, HeadLeaves
<1> HIDE DEF r
<1>3. /\ pc \in [Workers -> Stages] /\ job \in [Workers -> Reqs \cup {NoReq}]
  BY DEF TypeOK, Stages, Entries
<1>4. Idle' = Idle /\ Slow' = Slow /\ Awake' = Awake \ {w}
  BY <1>1, <1>3 DEF Idle, Slow, Awake
<1>5. TypeOK'
  <2>1. pc' \in [Workers -> Stages] /\ job' \in [Workers -> Reqs \cup {NoReq}]
    BY <1>1, <1>3 DEF Stages
  <2>2. ran' \subseteq Reqs BY <1>1 DEF TypeOK, Entries
  <2> QED BY <1>1, <1>2, <2>1, <2>2 DEF TypeOK, Stages, Entries
<1>6. CountInv' BY <1>1, <1>3, <1>4 DEF CountInv
<1>7. PlaceInv' BY <1>1, <1>3, ThreadsAssumption, ReqsAssumption DEF PlaceInv, Threads
<1>8. QueueInv' /\ HomeInv' /\ KeptInv'
  <2>1. r \notin ToSet(slow_wq) BY <1>1, <1>2, QueueTypes DEF QueueInv
  <2>2. ToSet(slow_wq') = ToSet(slow_wq) \ {r} BY <1>1, <2>1
  <2>3. IsInjective(slow_wq') BY <1>1 DEF QueueInv
  <2>4. ToSet(wq') \cap Reqs = (ToSet(wq) \cap Reqs) \ {r} /\ ToSet(wq') \subseteq ToSet(wq)
    BY <1>2
  <2>5. r \in ToSet(wq) \cup ToSet(slow_wq) BY <1>2
  <2> QED BY <1>1, <1>2, <2>2, <2>3, <2>4, <2>5, RequestBegins
<1>9. SignalInv'
  <2> SUFFICES ASSUME \E v \in Workers : pc'[v] = "wait" PROVE Eligible' <= Cardinality(Awake')
    BY DEF SignalInv
  <2>1. Eligible <= Cardinality(Awake) BY <1>1, <1>3 DEF SignalInv
  <2>2. r # SlowMsg BY <1>1, MsgAssumption
  <2>3. Eligible' = Eligible - 1 /\ Eligible \in Int
    BY <1>1, <1>2, <2>2, QueueTypes DEF Eligible
  <2>4. w \in Awake BY <1>1 DEF Awake, CountInv
  <2>5. Cardinality(Awake') = Cardinality(Awake) - 1 /\ Cardinality(Awake) \in Nat
    BY <1>4, <2>4, CountedSets, WorkerSets
  <2> QED BY <2>1, <2>3, <2>5
<1> QED BY <1>5, <1>6, <1>7, <1>8, <1>9

(* A worker takes slow work; if more of it is left, the message goes back     *)
(* into wq and wakes somebody.                                                *)
LEMMA WorkerTakesSlowStep ==
  ASSUME IInv, NEW w \in Workers, WorkerTakesSlow(w)
  PROVE  IInv'
<1> USE DEF IInv
<1> DEFINE r == Head(slow_wq)
           p == [pc EXCEPT ![w] = "work"]
<1>1. /\ pc[w] = "top" /\ wq # <<>> /\ Head(wq) = SlowMsg
      /\ slow_running < Threshold /\ slow_wq # <<>>
      /\ job' = [job EXCEPT ![w] = r]
      /\ is_slow' = [is_slow EXCEPT ![w] = TRUE]
      /\ slow_running' = slow_running + 1
      /\ slow_wq' = Tail(slow_wq)
      /\ \/ wq' = Append(Tail(wq), SlowMsg) /\ pc' \in SignalIdle(p)
         \/ wq' = Tail(wq) /\ pc' = p
      /\ ran' = ran \cup {r}
      /\ mutex' = Free
      /\ UNCHANGED <<idle_threads, loop_wq, async, local, wq_mutex, lpc, target, work, result,
                     cancels>>
  BY DEF WorkerTakesSlow, NothingToDo, loop, request
<1>2. /\ slow_wq' \in Seq(SlowReqs) /\ IsInjective(slow_wq')
      /\ ToSet(slow_wq') = ToSet(slow_wq) \ {r} /\ r \in ToSet(slow_wq) /\ r \in SlowReqs
  BY <1>1, QueueTypes, ToSetTail DEF QueueInv
<1>3. /\ SlowMsg \in ToSet(wq) /\ SlowMsg \notin ToSet(Tail(wq))
      /\ ToSet(Tail(wq)) = ToSet(wq) \ {SlowMsg} /\ IsInjective(Tail(wq))
      /\ Tail(wq) \in Seq(Entries) /\ Len(Tail(wq)) = Len(wq) - 1
  BY <1>1, HeadLeaves
<1>4. /\ Append(Tail(wq), SlowMsg) \in Seq(Entries)
      /\ Len(Append(Tail(wq), SlowMsg)) = Len(wq)
      /\ ToSet(Append(Tail(wq), SlowMsg)) = ToSet(wq)
      /\ IsInjective(Append(Tail(wq), SlowMsg))
  BY <1>1, MessageGoesBack
<1>5. /\ wq' \in Seq(Entries) /\ IsInjective(wq')
      /\ ToSet(wq') \cap Reqs = (ToSet(wq) \cap Reqs) \ {r} /\ ToSet(wq') \subseteq ToSet(wq)
  BY <1>1, <1>2, <1>3, <1>4, MsgAssumption DEF QueueInv
<1> HIDE DEF r
<1>6. /\ pc \in [Workers -> Stages] /\ job \in [Workers -> Reqs \cup {NoReq}]
      /\ is_slow \in [Workers -> BOOLEAN]
  BY DEF TypeOK, Stages, Entries
<1>7. p \in [Workers -> Stages] /\ \A v \in Workers : p[v] = "wait" => pc[v] = "wait"
  BY <1>6 DEF Stages
<1>8. pc' = p \/ Woke(p, pc') BY <1>1, <1>7, SignalIdleWakes
<1>9. pc' \in [Workers -> Stages] BY <1>7, <1>8 DEF Woke, Stages
<1>10. \A v \in Workers : \/ v = w /\ pc'[v] = "work"
                          \/ v # w /\ pc'[v] = pc[v]
                          \/ v # w /\ pc[v] = "wait" /\ pc'[v] = "woken"
  BY <1>1, <1>6, <1>8 DEF Woke
<1>11. ~is_slow[w] BY <1>1 DEF CountInv
<1>12. Idle' = Idle /\ Slow' = Slow \cup {w} /\ w \notin Slow
  BY <1>1, <1>6, <1>10, <1>11 DEF Idle, Slow
<1>13. slow_running' = Cardinality(Slow')
  BY <1>1, <1>12, CountedSets, WorkerSets DEF CountInv
<1>14. TypeOK'
  <2>1. job' \in [Workers -> Reqs \cup {NoReq}] /\ is_slow' \in [Workers -> BOOLEAN]
    BY <1>1, <1>2, <1>6, QueueTypes
  <2>2. ran' \subseteq Reqs BY <1>1, <1>2, QueueTypes DEF TypeOK, Entries
  <2>3. slow_running' \in 0..(Cardinality(Workers) + 1) \div 2
    BY <1>1, ThresholdFacts DEF TypeOK, Entries
  <2> QED BY <1>1, <1>2, <1>5, <1>9, <2>1, <2>2, <2>3 DEF TypeOK, Stages, Entries
<1>15. CountInv'
  <2>1. \A v \in Workers : is_slow'[v] => pc'[v] \in {"work", "put", "send", "lock"}
    BY <1>1, <1>6, <1>10 DEF CountInv
  <2> QED BY <1>1, <1>12, <1>13, <2>1 DEF CountInv
<1>16. PlaceInv'
  <2>1. r # NoReq BY <1>2, QueueTypes, ReqsAssumption
  <2>2. \A v \in Workers : /\ pc'[v] = "top" <=> mutex' = v
                           /\ pc'[v] = "send" <=> wq_mutex = v
                           /\ pc'[v] \in {"work", "put"} <=> job'[v] # NoReq
    BY <1>1, <1>6, <1>10, <2>1, ThreadsAssumption DEF PlaceInv, Threads
  <2> QED BY <1>1, <2>2, ThreadsAssumption DEF PlaceInv, Threads
<1>17. QueueInv' /\ HomeInv' /\ KeptInv'
  <2>1. r \in Reqs /\ r \in ToSet(wq) \cup ToSet(slow_wq) BY <1>2, QueueTypes
  <2> QED BY <1>1, <1>2, <1>5, <2>1, RequestBegins
<1>18. SignalInv'
  <2> SUFFICES ASSUME \E v \in Workers : pc'[v] = "wait" PROVE Eligible' <= Cardinality(Awake')
    BY DEF SignalInv
  <2>1. Eligible <= Cardinality(Awake) BY <1>10 DEF SignalInv
  <2>2. Eligible = Len(wq) /\ Len(wq) \in Nat /\ slow_running \in Nat
    BY <1>1, QueueTypes, ThresholdFacts DEF Eligible, TypeOK
  <2>3. w \in Awake /\ Cardinality(Awake \ {w}) = Cardinality(Awake) - 1 /\ Cardinality(Awake) \in Nat
    BY <1>1, <1>11, CountedSets, WorkerSets DEF Awake
  <2>4. CASE wq' = Append(Tail(wq), SlowMsg) /\ pc' \in SignalIdle(p)
    <3>1. Woke(p, pc') BY <2>4, <1>7, SignalIdleWakes
    <3>2. PICK v \in Workers : p[v] = "wait" /\ pc' = [p EXCEPT ![v] = "woken"]
      BY <3>1 DEF Woke
    <3>3. v # w /\ pc[v] = "wait" /\ ~is_slow[v]
      BY <3>2, <1>1, <1>6 DEF CountInv
    <3>4. Awake' = (Awake \ {w}) \cup {v} /\ v \notin Awake \ {w}
      BY <1>1, <1>6, <3>2, <3>3 DEF Awake
    <3>5. Awake \ {w} \in SUBSET Workers BY CountedSets
    <3>6. Cardinality((Awake \ {w}) \cup {v}) = Cardinality(Awake \ {w}) + 1
      BY <3>4, <3>5, WorkerSets
    <3>7. Eligible' <= Len(wq) /\ Eligible' \in Int
      <4>1. Len(wq') = Len(wq) BY <2>4, <2>2, <1>3, <1>4
      <4> QED BY <4>1, <2>2 DEF Eligible
    <3> QED BY <2>1, <2>2, <2>3, <3>4, <3>6, <3>7
  <2>5. CASE wq' = Tail(wq) /\ pc' = p
    <3>1. Awake' = Awake \ {w} BY <1>1, <1>6, <2>5 DEF Awake
    <3>2. Eligible' = Len(wq) - 1 BY <2>5, <1>3 DEF Eligible
    <3> QED BY <2>1, <2>2, <2>3, <3>1, <3>2
  <2> QED BY <1>1, <2>4, <2>5
<1> QED BY <1>14, <1>15, <1>16, <1>17, <1>18

(* A request whose work has returned goes to the loop. *)
LEMMA WorkerPutsStep ==
  ASSUME IInv, NEW w \in Workers, WorkerPuts(w)
  PROVE  IInv'
<1> USE DEF IInv
<1>0. PICK r : r = job[w] OBVIOUS
<1>1. /\ pc[w] = "put" /\ wq_mutex = Free /\ wq_mutex' = w
      /\ work' = [work EXCEPT ![r] = "null"]
      /\ loop_wq' = Append(loop_wq, r)
      /\ job' = [job EXCEPT ![w] = NoReq]
      /\ pc' = [pc EXCEPT ![w] = "send"]
      /\ UNCHANGED <<wq, slow_wq, idle_threads, slow_running, mutex, is_slow, async, local, lpc,
                     target, result, ran, cancels>>
  BY <1>0 DEF WorkerPuts, pool
<1>2. /\ pc \in [Workers -> Stages] /\ job \in [Workers -> Reqs \cup {NoReq}]
      /\ work \in [Reqs -> {"null", "set", "cancelled"}]
  BY DEF TypeOK, Stages
<1>3. r \in Reqs /\ r # NoReq BY <1>0, <1>1, <1>2 DEF PlaceInv
<1>4. Begun(r) BY <1>0, <1>3 DEF HomeInv
<1>5. r \notin ToSet(loop_wq) \cup ToSet(local) BY <1>4 DEF HomeInv, Begun, Returned
<1>6. r \notin ToSet(wq) \cup ToSet(slow_wq) BY <1>3, <1>4 DEF HomeInv, Begun, Submitted
<1>7. /\ loop_wq' \in Seq(Reqs) /\ IsInjective(loop_wq')
      /\ ToSet(loop_wq') = ToSet(loop_wq) \cup {r}
  BY <1>1, <1>3, <1>5, QueueTypes, ToSetAppend DEF QueueInv
<1>8. Idle' = Idle /\ Slow' = Slow /\ Awake' = Awake
  BY <1>1, <1>2 DEF Idle, Slow, Awake
<1>9. TypeOK'
  <2>1. pc' \in [Workers -> Stages] /\ job' \in [Workers -> Reqs \cup {NoReq}]
    BY <1>1, <1>2 DEF Stages
  <2>2. work' \in [Reqs -> {"null", "set", "cancelled"}] BY <1>1, <1>2
  <2>3. wq_mutex' \in Threads \cup {Free} BY <1>1 DEF Threads
  <2> QED BY <1>1, <1>7, <2>1, <2>2, <2>3 DEF TypeOK, Stages
<1>10. CountInv' BY <1>1, <1>2, <1>8 DEF CountInv
<1>11. PlaceInv' BY <1>1, <1>2, ThreadsAssumption DEF PlaceInv, Threads
<1>12. QueueInv' BY <1>1, <1>7 DEF QueueInv
<1>13. \A v \in Workers : v # w => job'[v] = job[v] /\ (job[v] # NoReq => job[v] # r)
  BY <1>0, <1>1, <1>2, <1>3 DEF HomeInv
<1>14. job'[w] = NoReq BY <1>1, <1>2
<1>15. work'[r] = "null" /\ \A q \in Reqs : q # r => work'[q] = work[q]
  BY <1>1, <1>2, <1>3
<1>16. HomeInv'
  <2>1. \A q \in Reqs \cap (ToSet(wq) \cup ToSet(slow_wq)) : Submitted(q)'
    BY <1>1, <1>6, <1>15 DEF HomeInv, Submitted
  <2>2. \A v \in Workers : job'[v] # NoReq => Begun(job[v])'
    BY <1>1, <1>2, <1>13, <1>14, <1>15 DEF HomeInv, Begun
  <2>3. \A v, u \in Workers : job'[v] = job'[u] /\ job'[v] # NoReq => v = u
    BY <1>13, <1>14 DEF HomeInv
  <2>4. \A q \in ToSet(loop_wq) \cup ToSet(local) : Returned(q)'
    BY <1>1, <1>5, <1>15, QueueTypes DEF HomeInv, Returned
  <2>5. Returned(r)' BY <1>1, <1>4, <1>15 DEF Begun, Returned
  <2>6. \A v \in Workers : job'[v] # NoReq => job'[v] = job[v] BY <1>13, <1>14
  <2>7. lpc = "put" => /\ Cancelling(target)'
                       /\ target \notin ToSet(wq) \cup ToSet(slow_wq)
                       /\ target \notin ToSet(loop_wq') \cup ToSet(local)
    <3> SUFFICES ASSUME lpc = "put" PROVE /\ Cancelling(target)'
                                         /\ target \notin ToSet(wq) \cup ToSet(slow_wq)
                                         /\ target \notin ToSet(loop_wq') \cup ToSet(local)
      OBVIOUS
    <3>1. target \in Reqs /\ target # r BY <1>4 DEF HomeInv, Begun, Cancelling, TypeOK, PlaceInv
    <3> QED BY <1>1, <1>7, <1>15, <3>1 DEF HomeInv, Cancelling
  <2>8. ToSet(loop_wq') \cap ToSet(local) = {} BY <1>5, <1>7 DEF HomeInv
  <2>9. \A q \in ToSet(loop_wq') \cup ToSet(local) : Returned(q)' BY <1>7, <2>4, <2>5
  <2> QED BY <1>1, <2>1, <2>2, <2>3, <2>6, <2>7, <2>8, <2>9 DEF HomeInv, Begun
<1>17. KeptInv'
  <2> SUFFICES ASSUME NEW q \in Reqs
               PROVE  /\ Pending(q)' => \/ q \in ToSet(wq) \cup ToSet(slow_wq)
                                        \/ q \in ToSet(loop_wq') \cup ToSet(local)
                                        \/ \E v \in Workers : job'[v] = q
                                        \/ lpc = "put" /\ target = q
                      /\ work'[q] = "cancelled" \/ result[q] = "ecanceled" => q \notin ran
                      /\ result[q] = "ok" => q \in ran
    BY <1>1 DEF KeptInv
  <2>1. CASE q = r BY <2>1, <1>4, <1>7, <1>15 DEF Begun
  <2>2. CASE q # r
    <3>1. Pending(q)' => Pending(q) BY <2>2, <1>1, <1>15 DEF Pending
    <3>2. \A v \in Workers : job[v] = q => job'[v] = q
      BY <1>0, <2>2, <1>13
    <3>3. work'[q] = work[q] BY <2>2, <1>15
    <3> QED BY <3>1, <3>2, <3>3, <1>7 DEF KeptInv
  <2> QED BY <2>1, <2>2
<1>18. SignalInv' BY <1>1, <1>2, <1>8 DEF SignalInv, Eligible
<1> QED BY <1>9, <1>10, <1>11, <1>12, <1>16, <1>17, <1>18

(* post: an entry is added to wq, and wakes a worker if one waits. *)
LEMMA PostSignals ==
  ASSUME IInv, NEW m \in Entries, m \notin ToSet(wq),
         wq' = Append(wq, m),
         pc' \in SignalIdle(pc),
         UNCHANGED <<idle_threads, slow_running, is_slow>>
  PROVE  /\ wq' \in Seq(Entries) /\ IsInjective(wq')
         /\ ToSet(wq') = ToSet(wq) \cup {m}
         /\ pc' \in [Workers -> Stages]
         /\ \A v \in Workers : pc'[v] = pc[v] \/ (pc[v] = "wait" /\ pc'[v] = "woken")
         /\ CountInv'
         /\ SignalInv'
<1> USE DEF IInv
<1>1. /\ wq' \in Seq(Entries) /\ IsInjective(wq') /\ Len(wq') = Len(wq) + 1
      /\ ToSet(wq') = ToSet(wq) \cup {m}
  BY QueueTypes, ToSetAppend DEF QueueInv
<1>2. pc \in [Workers -> Stages] BY DEF TypeOK, Stages
<1>3. Woke(pc, pc') BY SignalIdleWakes
<1>4. pc' \in [Workers -> Stages] BY <1>2, <1>3 DEF Woke, Stages
<1>5. \A v \in Workers : pc'[v] = pc[v] \/ (pc[v] = "wait" /\ pc'[v] = "woken")
  BY <1>2, <1>3 DEF Woke
<1>6. Idle' = Idle /\ Slow' = Slow BY <1>5 DEF Idle, Slow
<1>7. CountInv' BY <1>5, <1>6 DEF CountInv
<1>8. SignalInv'
  <2> SUFFICES ASSUME \E v \in Workers : pc'[v] = "wait" PROVE Eligible' <= Cardinality(Awake')
    BY DEF SignalInv
  <2>1. PICK v \in Workers : pc[v] = "wait" /\ pc' = [pc EXCEPT ![v] = "woken"]
    BY <1>3 DEF Woke
  <2>2. ~is_slow[v] BY <2>1 DEF CountInv
  <2>3. Awake' = Awake \cup {v} /\ v \notin Awake BY <1>2, <2>1, <2>2 DEF Awake
  <2>4. Cardinality(Awake') = Cardinality(Awake) + 1 /\ Cardinality(Awake) \in Nat
    BY <2>3, CountedSets, WorkerSets
  <2>5. Eligible <= Cardinality(Awake) BY <2>1 DEF SignalInv
  <2>6. Eligible' <= Eligible + 1 /\ Eligible' \in Int /\ Eligible \in Int
    BY <1>1, QueueTypes DEF Eligible
  <2> QED BY <2>4, <2>5, <2>6
<1> QED BY <1>1, <1>4, <1>5, <1>7, <1>8

LEMMA SubmitStep ==
  ASSUME IInv, NEW r \in Reqs, Submit(r)
  PROVE  IInv'
<1> USE DEF IInv
<1>1. /\ lpc = "user" /\ work[r] = "null" /\ result[r] = "none" /\ r \notin ran
      /\ work' = [work EXCEPT ![r] = "set"]
      /\ Post(r)
      /\ UNCHANGED <<idle_threads, slow_running, mutex, job, is_slow, loop_wq, async, local,
                     wq_mutex, lpc, target, result, ran, cancels>>
  BY DEF Submit, loop
<1>2. work \in [Reqs -> {"null", "set", "cancelled"}] BY DEF TypeOK
<1>3. pc \in [Workers -> Stages] BY DEF TypeOK, Stages
<1>4. r \notin ToSet(wq) /\ r \notin ToSet(slow_wq) BY <1>1 DEF HomeInv, Submitted
<1>5. Contains(wq, SlowMsg) <=> SlowMsg \in ToSet(wq) BY QueueTypes, ToSetElement
<1>6. /\ wq' \in Seq(Entries) /\ IsInjective(wq')
      /\ slow_wq' \in Seq(SlowReqs) /\ IsInjective(slow_wq')
      /\ ToSet(wq') \subseteq ToSet(wq) \cup {r, SlowMsg}
      /\ ToSet(wq) \subseteq ToSet(wq')
      /\ ToSet(slow_wq) \subseteq ToSet(slow_wq')
      /\ ToSet(slow_wq') \subseteq ToSet(slow_wq) \cup {r}
      /\ r \in ToSet(wq') \cup ToSet(slow_wq')
      /\ r \in SlowReqs => r \notin ToSet(wq')
      /\ pc' \in [Workers -> Stages]
      /\ \A v \in Workers : pc'[v] = pc[v] \/ (pc[v] = "wait" /\ pc'[v] = "woken")
      /\ CountInv' /\ SignalInv'
  <2>1. ASSUME r \in SlowReqs
        PROVE  /\ slow_wq' = Append(slow_wq, r)
               /\ slow_wq' \in Seq(SlowReqs) /\ IsInjective(slow_wq')
               /\ ToSet(slow_wq') = ToSet(slow_wq) \cup {r}
               /\ r # SlowMsg
    <3>1. slow_wq' = Append(slow_wq, r) BY <1>1, <2>1 DEF Post
    <3> QED BY <2>1, <3>1, <1>4, QueueTypes, ToSetAppend, MsgAssumption DEF QueueInv
  <2>2. CASE r \in SlowReqs /\ SlowMsg \in ToSet(wq)
    <3>1. UNCHANGED <<wq, pc>> BY <1>1, <1>5, <2>2 DEF Post
    <3>2. CountInv' /\ SignalInv'
      <4>1. Idle' = Idle /\ Slow' = Slow /\ Awake' = Awake BY <1>1, <3>1 DEF Idle, Slow, Awake
      <4> QED BY <1>1, <3>1, <4>1 DEF CountInv, SignalInv, Eligible
    <3> QED BY <1>3, <1>4, <2>1, <2>2, <3>1, <3>2, QueueTypes DEF QueueInv
  <2>3. CASE r \in SlowReqs /\ SlowMsg \notin ToSet(wq)
    <3>1. wq' = Append(wq, SlowMsg) /\ pc' \in SignalIdle(pc)
      BY <1>1, <1>5, <2>3 DEF Post
    <3>2. SlowMsg \in Entries /\ SlowMsg \notin ToSet(wq) BY <2>3, QueueTypes
    <3>3. /\ wq' \in Seq(Entries) /\ IsInjective(wq')
          /\ ToSet(wq') = ToSet(wq) \cup {SlowMsg}
          /\ pc' \in [Workers -> Stages]
          /\ \A v \in Workers : pc'[v] = pc[v] \/ (pc[v] = "wait" /\ pc'[v] = "woken")
          /\ CountInv' /\ SignalInv'
      BY <1>1, <3>1, <3>2, PostSignals
    <3> QED BY <1>4, <2>1, <2>3, <3>3
  <2>4. CASE r \notin SlowReqs
    <3>1. wq' = Append(wq, r) /\ pc' \in SignalIdle(pc) /\ slow_wq' = slow_wq
      BY <1>1, <2>4 DEF Post
    <3>2. r \in Entries BY QueueTypes
    <3>3. /\ wq' \in Seq(Entries) /\ IsInjective(wq')
          /\ ToSet(wq') = ToSet(wq) \cup {r}
          /\ pc' \in [Workers -> Stages]
          /\ \A v \in Workers : pc'[v] = pc[v] \/ (pc[v] = "wait" /\ pc'[v] = "woken")
          /\ CountInv' /\ SignalInv'
      BY <1>1, <1>4, <3>1, <3>2, PostSignals
    <3> QED BY <2>4, <3>1, <3>3, QueueTypes DEF QueueInv
  <2> QED BY <2>2, <2>3, <2>4
<1>7. TypeOK'
  <2>1. work' \in [Reqs -> {"null", "set", "cancelled"}] BY <1>1, <1>2
  <2> QED BY <1>1, <1>6, <2>1 DEF TypeOK, Stages, Entries
<1>8. PlaceInv' BY <1>1, <1>6 DEF PlaceInv
<1>9. SlowMsg \notin Reqs /\ ExitMsg \notin Reqs /\ SlowMsg # ExitMsg /\ SlowReqs \subseteq Reqs
  BY MsgAssumption DEF Reqs
<1>10. QueueInv'
  <2>1. ToSet(wq') \cap SlowReqs = {} BY <1>6, <1>9 DEF QueueInv
  <2>2. ExitMsg \notin ToSet(wq') BY <1>1, <1>6, <1>9 DEF QueueInv
  <2> QED BY <1>1, <1>6, <2>1, <2>2 DEF QueueInv
<1>11. work'[r] = "set" /\ \A q \in Reqs : q # r => work'[q] = work[q]
  BY <1>1, <1>2
<1>12. HomeInv'
  <2>1. \A q \in Reqs \cap (ToSet(wq') \cup ToSet(slow_wq')) : Submitted(q)'
    BY <1>1, <1>6, <1>9, <1>11 DEF HomeInv, Submitted
  <2>2. \A v \in Workers : job[v] # NoReq => Begun(job[v])'
    BY <1>1, <1>11 DEF HomeInv, Begun, TypeOK
  <2>3. r \notin ToSet(loop_wq) \cup ToSet(local) BY <1>1 DEF HomeInv, Returned
  <2>4. \A q \in ToSet(loop_wq) \cup ToSet(local) : Returned(q)'
    BY <1>1, <1>11, <2>3, QueueTypes DEF HomeInv, Returned
  <2> QED BY <1>1, <2>1, <2>2, <2>4 DEF HomeInv, Begun
<1>13. KeptInv'
  <2> SUFFICES ASSUME NEW q \in Reqs
               PROVE  /\ Pending(q)' => \/ q \in ToSet(wq') \cup ToSet(slow_wq')
                                        \/ q \in ToSet(loop_wq) \cup ToSet(local)
                                        \/ \E v \in Workers : job[v] = q
                                        \/ lpc = "put" /\ target = q
                      /\ work'[q] = "cancelled" \/ result[q] = "ecanceled" => q \notin ran
                      /\ result[q] = "ok" => q \in ran
    BY <1>1 DEF KeptInv
  <2>1. CASE q = r BY <2>1, <1>1, <1>6, <1>11
  <2>2. CASE q # r
    <3>1. Pending(q)' => Pending(q) BY <2>2, <1>1, <1>11 DEF Pending
    <3>2. work'[q] = work[q] BY <2>2, <1>11
    <3> QED BY <3>1, <3>2, <1>6 DEF KeptInv
  <2> QED BY <2>1, <2>2
<1> QED BY <1>6, <1>7, <1>8, <1>10, <1>12, <1>13

LEMMA CleanupStep ==
  ASSUME IInv, Cleanup
  PROVE  IInv'
<1> USE DEF IInv
<1>1. /\ lpc = "user" /\ mutex = Free
      /\ wq' = Append(wq, ExitMsg)
      /\ pc' \in SignalIdle(pc)
      /\ lpc' = "join"
      /\ UNCHANGED <<slow_wq, idle_threads, slow_running, mutex, job, is_slow, loop_wq, async,
                     local, wq_mutex, target, work, result, ran, cancels>>
  BY DEF Cleanup, loop, request
<1>2. ExitMsg \in Entries /\ ExitMsg \notin ToSet(wq) BY <1>1, QueueTypes DEF QueueInv
<1>3. /\ wq' \in Seq(Entries) /\ IsInjective(wq')
      /\ ToSet(wq') = ToSet(wq) \cup {ExitMsg}
      /\ pc' \in [Workers -> Stages]
      /\ \A v \in Workers : pc'[v] = pc[v] \/ (pc[v] = "wait" /\ pc'[v] = "woken")
      /\ CountInv' /\ SignalInv'
  BY <1>1, <1>2, PostSignals
<1>4. TypeOK' BY <1>1, <1>3 DEF TypeOK, Stages, Entries
<1>5. PlaceInv' BY <1>1, <1>3 DEF PlaceInv
<1>6. ExitMsg \notin Reqs /\ SlowReqs \subseteq Reqs BY MsgAssumption DEF Reqs
<1>7. QueueInv' BY <1>1, <1>3, <1>6 DEF QueueInv
<1>8. HomeInv'
  <2>1. Reqs \cap (ToSet(wq') \cup ToSet(slow_wq)) = Reqs \cap (ToSet(wq) \cup ToSet(slow_wq))
    BY <1>3, <1>6
  <2> QED BY <1>1, <2>1 DEF HomeInv, Submitted, Begun, Returned
<1>9. KeptInv' BY <1>1, <1>3 DEF KeptInv, Pending
<1> QED BY <1>3, <1>4, <1>5, <1>7, <1>8, <1>9

(* uv_cancel takes a request out of whatever queue it is in. *)
LEMMA CancelTakesStep ==
  ASSUME IInv, CancelTakes
  PROVE  IInv'
<1> USE DEF IInv
<1>1. /\ lpc = "cancel" /\ InQueue(target) /\ work[target] # "null"
      /\ wq' = Unlinked(wq, target) /\ slow_wq' = Unlinked(slow_wq, target)
      /\ loop_wq' = Unlinked(loop_wq, target) /\ local' = Unlinked(local, target)
      /\ mutex' = Free /\ lpc' = "put"
      /\ UNCHANGED <<idle_threads, slow_running, pc, job, is_slow, async, wq_mutex, target, work,
                     result, ran, cancels>>
  BY DEF CancelTakes, worker, request
<1>2. target \in Reqs /\ target # SlowMsg /\ target # ExitMsg
  BY <1>1, MsgAssumption DEF PlaceInv, TypeOK
<1>3. /\ wq' \in Seq(Entries) /\ IsInjective(wq') /\ ToSet(wq') = ToSet(wq) \ {target}
      /\ Len(wq') = IF target \in ToSet(wq) THEN Len(wq) - 1 ELSE Len(wq)
  BY <1>1, QueueTypes, UnlinkedFacts DEF QueueInv
<1>4. /\ slow_wq' \in Seq(SlowReqs) /\ IsInjective(slow_wq')
      /\ ToSet(slow_wq') = ToSet(slow_wq) \ {target}
  BY <1>1, QueueTypes, UnlinkedFacts DEF QueueInv
<1>5. /\ loop_wq' \in Seq(Reqs) /\ IsInjective(loop_wq')
      /\ ToSet(loop_wq') = ToSet(loop_wq) \ {target}
  BY <1>1, QueueTypes, UnlinkedFacts DEF QueueInv
<1>6. /\ local' \in Seq(Reqs) /\ IsInjective(local')
      /\ ToSet(local') = ToSet(local) \ {target}
  BY <1>1, QueueTypes, UnlinkedFacts DEF QueueInv
<1>7. \/ target \in ToSet(wq) \cup ToSet(slow_wq)
      \/ target \in ToSet(loop_wq) \cup ToSet(local)
  <2>1. PICK q \in {wq, slow_wq, loop_wq, local} : Contains(q, target)
    BY <1>1 DEF InQueue
  <2>2. \E i \in 1..Len(q) : q[i] = target BY <2>1 DEF Contains
  <2>3. q \in Seq(Entries) \/ q \in Seq(SlowReqs) \/ q \in Seq(Reqs)
    BY <2>1, QueueTypes
  <2>4. DOMAIN q = 1..Len(q) BY <2>3, LenProperties
  <2>5. target \in ToSet(q) BY <2>2, <2>4 DEF ToSet
  <2> QED BY <2>1, <2>5
<1>8. Cancelling(target)
  BY <1>1, <1>2, <1>7 DEF HomeInv, Submitted, Returned, Cancelling
<1>9. TypeOK' BY <1>1, <1>3, <1>4, <1>5, <1>6 DEF TypeOK, Entries
<1>10. PlaceInv' BY <1>1, ThreadsAssumption DEF PlaceInv, Threads
<1>11. QueueInv' BY <1>1, <1>3, <1>4, <1>5, <1>6 DEF QueueInv
<1>12. HomeInv'
  <2>1. \A q \in Reqs \cap (ToSet(wq') \cup ToSet(slow_wq')) : Submitted(q)'
    BY <1>1, <1>3, <1>4 DEF HomeInv, Submitted
  <2>2. \A v \in Workers : job'[v] # NoReq => Begun(job[v])'
    BY <1>1 DEF HomeInv, Begun
  <2>3. \A q \in ToSet(loop_wq') \cup ToSet(local') : Returned(q)'
    BY <1>1, <1>5, <1>6 DEF HomeInv, Returned
  <2>4. Cancelling(target)' BY <1>1, <1>8 DEF Cancelling
  <2> QED BY <1>1, <1>3, <1>4, <1>5, <1>6, <2>1, <2>2, <2>3, <2>4 DEF HomeInv
<1>13. KeptInv' BY <1>1, <1>3, <1>4, <1>5, <1>6 DEF KeptInv, Pending
<1>14. Idle' = Idle /\ Slow' = Slow /\ Awake' = Awake BY <1>1 DEF Idle, Slow, Awake
<1>15. CountInv' BY <1>1, <1>14 DEF CountInv
<1>16. SignalInv'
  <2>1. Eligible' <= Eligible /\ Eligible' \in Int /\ Eligible \in Int
    BY <1>1, <1>2, <1>3, QueueTypes DEF Eligible
  <2>2. Cardinality(Awake) \in Nat BY CountedSets, WorkerSets
  <2> QED BY <1>1, <1>14, <2>1, <2>2 DEF SignalInv
<1> QED BY <1>9, <1>10, <1>11, <1>12, <1>13, <1>15, <1>16

LEMMA CancelPutsStep ==
  ASSUME IInv, CancelPuts
  PROVE  IInv'
<1> USE DEF IInv
<1>0. PICK r : r = target OBVIOUS
<1>1. /\ lpc = "put"
      /\ work' = [work EXCEPT ![r] = "cancelled"]
      /\ loop_wq' = Append(loop_wq, r)
      /\ async' = TRUE /\ target' = NoReq /\ lpc' = "user"
      /\ UNCHANGED <<wq, slow_wq, idle_threads, slow_running, mutex, pc, job, is_slow, local,
                     wq_mutex, result, ran, cancels>>
  BY <1>0 DEF CancelPuts, pool, worker
<1>2. r \in Reqs /\ Cancelling(r) BY <1>0, <1>1 DEF PlaceInv, TypeOK, HomeInv
<1>3. /\ r \notin ToSet(wq) \cup ToSet(slow_wq)
      /\ r \notin ToSet(loop_wq) \cup ToSet(local)
  BY <1>0, <1>1 DEF HomeInv
<1>4. work \in [Reqs -> {"null", "set", "cancelled"}] BY DEF TypeOK
<1>5. /\ loop_wq' \in Seq(Reqs) /\ IsInjective(loop_wq')
      /\ ToSet(loop_wq') = ToSet(loop_wq) \cup {r}
  BY <1>1, <1>2, <1>3, QueueTypes, ToSetAppend DEF QueueInv
<1>6. work'[r] = "cancelled" /\ \A q \in Reqs : q # r => work'[q] = work[q]
  BY <1>1, <1>2, <1>4
<1>7. TypeOK'
  <2>1. work' \in [Reqs -> {"null", "set", "cancelled"}] BY <1>1, <1>4
  <2> QED BY <1>1, <1>5, <2>1 DEF TypeOK
<1>8. PlaceInv' BY <1>1 DEF PlaceInv
<1>9. QueueInv' BY <1>1, <1>5 DEF QueueInv
<1>10. HomeInv'
  <2>1. \A q \in Reqs \cap (ToSet(wq) \cup ToSet(slow_wq)) : Submitted(q)'
    BY <1>1, <1>3, <1>6 DEF HomeInv, Submitted
  <2>2. \A v \in Workers : job[v] # NoReq => Begun(job[v])'
    <3> TAKE v \in Workers
    <3> HAVE job[v] # NoReq
    <3>1. Begun(job[v]) /\ job[v] \in Reqs BY DEF HomeInv, TypeOK
    <3>2. job[v] # r BY <1>2, <3>1 DEF Begun, Cancelling
    <3> QED BY <1>1, <1>6, <3>1, <3>2 DEF Begun
  <2>3. \A q \in ToSet(loop_wq) \cup ToSet(local) : Returned(q)'
    BY <1>1, <1>3, <1>6, QueueTypes DEF HomeInv, Returned
  <2>4. Returned(r)' BY <1>1, <1>2, <1>6 DEF Cancelling, Returned
  <2>5. \A q \in ToSet(loop_wq') \cup ToSet(local) : Returned(q)' BY <1>5, <2>3, <2>4
  <2>6. ToSet(loop_wq') \cap ToSet(local) = {} BY <1>3, <1>5 DEF HomeInv
  <2> QED BY <1>1, <2>1, <2>2, <2>5, <2>6 DEF HomeInv
<1>11. KeptInv'
  <2> SUFFICES ASSUME NEW q \in Reqs
               PROVE  /\ Pending(q)' => \/ q \in ToSet(wq) \cup ToSet(slow_wq)
                                        \/ q \in ToSet(loop_wq') \cup ToSet(local)
                                        \/ \E v \in Workers : job[v] = q
                      /\ work'[q] = "cancelled" \/ result[q] = "ecanceled" => q \notin ran
                      /\ result[q] = "ok" => q \in ran
    BY <1>1 DEF KeptInv
  <2>1. CASE q = r BY <2>1, <1>2, <1>5 DEF Cancelling
  <2>2. CASE q # r
    <3>1. Pending(q)' => Pending(q) BY <2>2, <1>1, <1>6 DEF Pending
    <3>2. work'[q] = work[q] BY <2>2, <1>6
    <3> QED BY <1>0, <1>5, <2>2, <3>1, <3>2 DEF KeptInv
  <2> QED BY <2>1, <2>2
<1>12. CountInv' /\ SignalInv' BY <1>1, WorkersStay
<1> QED BY <1>7, <1>8, <1>9, <1>10, <1>11, <1>12

(* uv__work_done moves the loop's queue. *)
LEMMA WorkDoneStep ==
  ASSUME IInv, WorkDone
  PROVE  IInv'
<1> USE DEF IInv
<1>1. /\ lpc = "user" /\ local = <<>>
      /\ async' = FALSE /\ local' = loop_wq /\ loop_wq' = <<>>
      /\ UNCHANGED <<wq, slow_wq, idle_threads, slow_running, mutex, pc, job, is_slow, wq_mutex,
                     lpc, target, work, result, ran, cancels>>
  BY DEF WorkDone, pool, worker, request
<1>2. ToSet(<<>>) = {} /\ IsInjective(<<>>) BY DEF ToSet, IsInjective
<1>3. ToSet(local) = {} /\ ToSet(loop_wq') = {} /\ ToSet(local') = ToSet(loop_wq)
  BY <1>1, <1>2
<1>4. TypeOK' BY <1>1 DEF TypeOK
<1>5. PlaceInv' BY <1>1 DEF PlaceInv
<1>6. QueueInv' BY <1>1, <1>2 DEF QueueInv
<1>7. HomeInv' BY <1>1, <1>3 DEF HomeInv, Submitted, Begun, Returned
<1>8. KeptInv' BY <1>1, <1>3 DEF KeptInv, Pending
<1>9. CountInv' /\ SignalInv' BY <1>1, WorkersStay
<1> QED BY <1>4, <1>5, <1>6, <1>7, <1>8, <1>9

(* The done callback; what it is told is what happened. *)
LEMMA DoneCallbackStep ==
  ASSUME IInv, DoneCallback
  PROVE  IInv'
<1> USE DEF IInv
<1>0. PICK r : r = Head(local) OBVIOUS
<1>1. /\ lpc = "user" /\ local # <<>>
      /\ result' = [result EXCEPT ![r] = IF work[r] = "cancelled" THEN "ecanceled" ELSE "ok"]
      /\ work' = [work EXCEPT ![r] = "null"]
      /\ local' = Tail(local)
      /\ UNCHANGED <<wq, slow_wq, idle_threads, slow_running, mutex, pc, job, is_slow, loop_wq,
                     async, wq_mutex, lpc, target, ran, cancels>>
  BY <1>0 DEF DoneCallback, pool, worker
<1>2. /\ local' \in Seq(Reqs) /\ IsInjective(local')
      /\ ToSet(local) = ToSet(local') \cup {r} /\ r \notin ToSet(local') /\ r \in Reqs
  BY <1>0, <1>1, QueueTypes, ToSetTail DEF QueueInv
<1>3. Returned(r) BY <1>2 DEF HomeInv
<1>4. /\ r \notin ToSet(wq) \cup ToSet(slow_wq) /\ r \notin ToSet(loop_wq)
      /\ \A v \in Workers : job[v] # r
  <2>1. r \notin ToSet(wq) \cup ToSet(slow_wq)
    BY <1>2, <1>3 DEF HomeInv, Returned, Submitted
  <2>2. r \notin ToSet(loop_wq) BY <1>2 DEF HomeInv
  <2>3. r # NoReq BY <1>2, ReqsAssumption
  <2>4. \A v \in Workers : job[v] # r BY <1>3, <2>3 DEF HomeInv, Returned, Begun
  <2> QED BY <2>1, <2>2, <2>4
<1>5. /\ work \in [Reqs -> {"null", "set", "cancelled"}]
      /\ result \in [Reqs -> {"none", "ok", "ecanceled"}]
  BY DEF TypeOK
<1>6. /\ work'[r] = "null"
      /\ result'[r] = IF work[r] = "cancelled" THEN "ecanceled" ELSE "ok"
      /\ \A q \in Reqs : q # r => work'[q] = work[q] /\ result'[q] = result[q]
  BY <1>1, <1>2, <1>5
<1>7. TypeOK'
  <2>1. work' \in [Reqs -> {"null", "set", "cancelled"}] BY <1>1, <1>5
  <2>2. result' \in [Reqs -> {"none", "ok", "ecanceled"}] BY <1>1, <1>5
  <2> QED BY <1>1, <1>2, <2>1, <2>2 DEF TypeOK
<1>8. PlaceInv' BY <1>1 DEF PlaceInv
<1>9. QueueInv' BY <1>1, <1>2 DEF QueueInv
<1>10. HomeInv'
  <2>1. \A q \in Reqs \cap (ToSet(wq) \cup ToSet(slow_wq)) : Submitted(q)'
    BY <1>1, <1>4, <1>6 DEF HomeInv, Submitted
  <2>2. \A v \in Workers : job[v] # NoReq => Begun(job[v])'
    BY <1>1, <1>4, <1>6 DEF HomeInv, Begun, TypeOK
  <2>3. \A q \in ToSet(loop_wq) \cup ToSet(local') : Returned(q)'
    BY <1>1, <1>2, <1>4, <1>6, QueueTypes DEF HomeInv, Returned
  <2> QED BY <1>1, <1>2, <2>1, <2>2, <2>3 DEF HomeInv
<1>11. KeptInv'
  <2> SUFFICES ASSUME NEW q \in Reqs
               PROVE  /\ Pending(q)' => \/ q \in ToSet(wq) \cup ToSet(slow_wq)
                                        \/ q \in ToSet(loop_wq) \cup ToSet(local')
                                        \/ \E v \in Workers : job[v] = q
                      /\ work'[q] = "cancelled" \/ result'[q] = "ecanceled" => q \notin ran
                      /\ result'[q] = "ok" => q \in ran
    BY <1>1 DEF KeptInv
  <2>1. CASE q = r BY <2>1, <1>1, <1>3, <1>6 DEF Returned, Pending
  <2>2. CASE q # r
    <3>1. Pending(q)' => Pending(q) BY <2>2, <1>1, <1>6 DEF Pending
    <3>2. work'[q] = work[q] /\ result'[q] = result[q] BY <2>2, <1>6
    <3> QED BY <1>1, <1>2, <2>2, <3>1, <3>2 DEF KeptInv
  <2> QED BY <2>1, <2>2
<1>12. CountInv' /\ SignalInv' BY <1>1, WorkersStay
<1> QED BY <1>7, <1>8, <1>9, <1>10, <1>11, <1>12

-----------------------------------------------------------------------------
LEMMA NextIInv == IInv /\ [Next]_vars => IInv'
<1> SUFFICES ASSUME IInv, [Next]_vars PROVE IInv' OBVIOUS
<1>1. ASSUME NEW w \in Workers, WorkerStep(w) PROVE IInv'
  BY <1>1, WorkerLockStep, WorkerWakesStep, WorkerWaitsStep, WorkerExitsStep, WorkerRotatesStep,
     WorkerSkipsStep, WorkerTakesSlowStep, WorkerTakesStep, WorkerPutsStep, WorkerSendsStep
     DEF WorkerStep
<1>2. ASSUME NEW w \in Workers, WorkReturns(w) PROVE IInv' BY <1>2, WorkReturnsStep
<1>3. ASSUME LoopStep PROVE IInv'
  BY <1>3, CancelBusyStep, CancelTakesStep, CancelPutsStep, WorkDoneStep, DoneCallbackStep,
     JoinedStep DEF LoopStep
<1>4. ASSUME NEW r \in Reqs, Submit(r) PROVE IInv' BY <1>4, SubmitStep
<1>5. ASSUME NEW r \in Reqs, CancelLock(r) PROVE IInv' BY <1>5, CancelLockStep
<1>6. ASSUME Cleanup PROVE IInv' BY <1>6, CleanupStep
<1>7. ASSUME UNCHANGED vars PROVE IInv'
  <2>1. UNCHANGED <<wq, slow_wq, idle_threads, slow_running, mutex, pc, job, is_slow, loop_wq,
                    async, local, wq_mutex, lpc, target, work, result, ran, cancels>>
    BY <1>7 DEF vars, pool, worker, loop, request
  <2>2. TypeOK' BY <2>1 DEF IInv, TypeOK
  <2>3. PlaceInv' BY <2>1 DEF IInv, PlaceInv
  <2>4. QueueInv' /\ HomeInv' /\ KeptInv' BY <2>1, RequestsStay DEF IInv
  <2>5. CountInv' /\ SignalInv' BY <2>1, WorkersStay
  <2> QED BY <2>2, <2>3, <2>4, <2>5 DEF IInv
<1> QED BY <1>1, <1>2, <1>3, <1>4, <1>5, <1>6, <1>7 DEF Next, Terminated

LEMMA Inductive == Spec => []IInv
BY InitIInv, NextIInv, PTL DEF Spec

(* Every variable keeps its type: the counters of idle and of slow workers    *)
(* never pass their bounds, however the workers interleave.                   *)
THEOREM TypeCorrect == Spec => []TypeOK
<1>1. IInv => TypeOK BY DEF IInv
<1> QED BY <1>1, Inductive, PTL

(* What the invariant says in terms of the places of a request. *)
LEMMA OnePlace ==
  ASSUME IInv, NEW r \in Reqs
  PROVE  /\ ~Pending(r) => Places(r) = {}
         /\ Pending(r) => \E p : Places(r) = {p}
<1> USE DEF IInv
<1> DEFINE At(tag, s) == {<<tag, i>> : i \in {j \in DOMAIN s : s[j] = r}}
           Q == At("q", wq)
           S == At("slow", slow_wq)
           L == At("loop", loop_wq)
           D == At("local", local)
           W == {<<"worker", w>> : w \in {v \in Workers : job[v] = r}}
           C == {<<"cancel", 0>> : x \in {y \in {target} : y = r /\ lpc = "put"}}
<1>1. Places(r) = Q \cup S \cup L \cup D \cup W \cup C BY DEF Places
<1>2. /\ IsInjective(wq) /\ IsInjective(slow_wq) /\ IsInjective(loop_wq) /\ IsInjective(local)
  BY DEF QueueInv
<1>3. /\ r \in ToSet(wq) => \E p : Q = {p}
      /\ r \notin ToSet(wq) => Q = {}
  BY <1>2, PositionUnique
<1>4. /\ r \in ToSet(slow_wq) => \E p : S = {p}
      /\ r \notin ToSet(slow_wq) => S = {}
  BY <1>2, PositionUnique
<1>5. /\ r \in ToSet(loop_wq) => \E p : L = {p}
      /\ r \notin ToSet(loop_wq) => L = {}
  BY <1>2, PositionUnique
<1>6. /\ r \in ToSet(local) => \E p : D = {p}
      /\ r \notin ToSet(local) => D = {}
  BY <1>2, PositionUnique
<1>7. r # NoReq BY ReqsAssumption
<1>8. /\ \A w \in Workers : job[w] = r => W = {<<"worker", w>>}
      /\ (\A w \in Workers : job[w] # r) => W = {}
  BY <1>7 DEF HomeInv
<1>9. /\ lpc = "put" /\ target = r => C = {<<"cancel", 0>>}
      /\ ~(lpc = "put" /\ target = r) => C = {}
  OBVIOUS
<1> HIDE DEF Q, S, L, D, W, C
<1>10. r \in ToSet(wq) \cup ToSet(slow_wq) =>
         /\ Pending(r) /\ Submitted(r)
         /\ r \notin ToSet(loop_wq) \cup ToSet(local)
         /\ \A w \in Workers : job[w] # r
         /\ ~(lpc = "put" /\ target = r)
  BY <1>7 DEF HomeInv, Submitted, Begun, Returned, Pending
<1>11. ~(r \in ToSet(wq) /\ r \in ToSet(slow_wq)) BY QueueTypes DEF QueueInv
<1>12. r \in ToSet(loop_wq) \cup ToSet(local) =>
         /\ Pending(r)
         /\ \A w \in Workers : job[w] # r
         /\ ~(lpc = "put" /\ target = r)
         /\ ~(r \in ToSet(loop_wq) /\ r \in ToSet(local))
  BY <1>7 DEF HomeInv, Begun, Returned, Pending
<1>13. (\E w \in Workers : job[w] = r) => Pending(r) /\ ~(lpc = "put" /\ target = r)
  BY <1>7 DEF HomeInv, Begun, Cancelling, Pending
<1>14. lpc = "put" /\ target = r => Pending(r) BY DEF HomeInv, Cancelling, Pending
<1>15. ASSUME ~Pending(r) PROVE Places(r) = {}
  BY <1>15, <1>1, <1>3, <1>4, <1>5, <1>6, <1>8, <1>9, <1>10, <1>12, <1>13, <1>14
<1>16. ASSUME Pending(r) PROVE \E p : Places(r) = {p}
  <2>1. CASE r \in ToSet(wq)
    <3>1. Places(r) = Q BY <2>1, <1>1, <1>4, <1>5, <1>6, <1>8, <1>9, <1>10, <1>11
    <3> QED BY <3>1, <2>1, <1>3
  <2>2. CASE r \in ToSet(slow_wq)
    <3>1. Places(r) = S BY <2>2, <1>1, <1>3, <1>5, <1>6, <1>8, <1>9, <1>10, <1>11
    <3> QED BY <3>1, <2>2, <1>4
  <2>3. CASE r \in ToSet(loop_wq)
    <3>1. Places(r) = L BY <2>3, <1>1, <1>3, <1>4, <1>6, <1>8, <1>9, <1>10, <1>12
    <3> QED BY <3>1, <2>3, <1>5
  <2>4. CASE r \in ToSet(local)
    <3>1. Places(r) = D BY <2>4, <1>1, <1>3, <1>4, <1>5, <1>8, <1>9, <1>10, <1>12
    <3> QED BY <3>1, <2>4, <1>6
  <2>5. CASE \E w \in Workers : job[w] = r
    <3>1. Places(r) = W BY <2>5, <1>1, <1>3, <1>4, <1>5, <1>6, <1>9, <1>10, <1>12, <1>13
    <3> QED BY <3>1, <2>5, <1>8
  <2>6. CASE lpc = "put" /\ target = r
    <3>1. Places(r) = C BY <2>6, <1>1, <1>3, <1>4, <1>5, <1>6, <1>8, <1>10, <1>12, <1>13
    <3> QED BY <3>1, <2>6, <1>9
  <2> QED BY <1>16, <2>1, <2>2, <2>3, <2>4, <2>5, <2>6 DEF KeptInv
<1> QED BY <1>15, <1>16

(* No request is lost and none is handed out twice, between its submission    *)
(* and its callback, by workers, uv_cancel and uv__work_done under their two  *)
(* mutexes; and a callback is told the truth about its work.                  *)
THEOREM RequestsAreKept == Spec => []RequestsKept
<1>1. ASSUME IInv PROVE RequestsKept
  <2> SUFFICES ASSUME NEW r \in Reqs
               PROVE  /\ Cardinality(Places(r)) = (IF Pending(r) THEN 1 ELSE 0)
                      /\ work[r] = "cancelled" \/ result[r] = "ecanceled" => r \notin ran
                      /\ result[r] = "ok" => r \in ran
    BY DEF RequestsKept
  <2>1. CASE Pending(r)
    <3>1. PICK p : Places(r) = {p} BY <1>1, <2>1, OnePlace
    <3>2. Cardinality(Places(r)) = 1 BY <3>1, FS_Singleton
    <3> QED BY <1>1, <2>1, <3>2 DEF IInv, KeptInv
  <2>2. CASE ~Pending(r)
    <3>1. Places(r) = {} BY <1>1, <2>2, OnePlace
    <3>2. Cardinality(Places(r)) = 0 BY <3>1, FS_EmptySet
    <3> QED BY <1>1, <2>2, <3>2 DEF IInv, KeptInv
  <2> QED BY <2>1, <2>2
<1>2. IInv => RequestsKept BY <1>1
<1> QED BY <1>2, Inductive, PTL

(* No lost signal, for any number of workers: post signals once for an entry, *)
(* only if idle_threads is not 0, and a worker that takes slow work passes    *)
(* the signal on; that is enough.                                             *)
THEOREM NoSignalLost == Spec => []NoForgottenWork
<1>1. ASSUME IInv, mutex = Free, ~NothingToDo, \E w \in Workers : pc[w] = "wait"
      PROVE  \E w \in Workers : pc[w] \in {"lock", "woken", "put", "send"}
  <2> USE <1>1 DEF IInv
  <2>1. wq # <<>> /\ (slow_running >= Threshold => wq # <<SlowMsg>>)
    BY DEF NothingToDo
  <2>2. Len(wq) \in Nat \ {0} /\ wq \in Seq(Entries)
    BY <2>1, QueueTypes, ToSetEmpty
  <2>3. Eligible > 0
    <3>1. CASE SlowMsg \in ToSet(wq) /\ slow_running >= Threshold
      <4>1. Len(wq) # 1
        <5> SUFFICES ASSUME Len(wq) = 1 PROVE FALSE OBVIOUS
        <5>1. wq[1] = SlowMsg BY <2>2, <3>1, LenProperties DEF ToSet
        <5>2. <<SlowMsg>> \in Seq(Entries) /\ Len(<<SlowMsg>>) = 1 /\ <<SlowMsg>>[1] = SlowMsg
          BY QueueTypes
        <5>3. wq = <<SlowMsg>> BY <2>2, <5>1, <5>2, SeqEqual
        <5> QED BY <2>1, <3>1, <5>3
      <4>2. Eligible = Len(wq) - 1 BY <3>1 DEF Eligible
      <4>3. \A n \in Nat \ {0} : n # 1 => n > 1 /\ n - 1 > 0 OBVIOUS
      <4> QED BY ONLY <2>2, <4>1, <4>2, <4>3
    <3>2. CASE ~(SlowMsg \in ToSet(wq) /\ slow_running >= Threshold)
      BY <2>2, <3>2 DEF Eligible
    <3> QED BY <3>1, <3>2
  <2>4. Cardinality(Awake) \in Nat /\ (Cardinality(Awake) = 0 <=> Awake = {})
    BY CountedSets, WorkerSets
  <2>5. Eligible <= Cardinality(Awake) /\ Eligible \in Int
    BY <2>2 DEF SignalInv, Eligible
  <2>6. PICK w \in Workers : w \in Awake
    BY <2>3, <2>4, <2>5 DEF Awake
  <2>7. pc[w] # "top" BY ThreadsAssumption DEF PlaceInv, Threads
  <2> QED BY <2>6, <2>7 DEF Awake
<1>2. IInv => NoForgottenWork BY <1>1 DEF NoForgottenWork
<1> QED BY <1>2, Inductive, PTL
=============================================================================

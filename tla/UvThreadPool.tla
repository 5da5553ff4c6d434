-------------------------- MODULE UvThreadPool --------------------------
(* libuv's thread pool (threadpool.c): the work queue wq with its two       *)
(* mutexes and its condition variable, the workers, slow I/O held back to   *)
(* half of them, uv_cancel, uv__work_done in the loop thread and            *)
(* uv__threadpool_cleanup.  uv_queue_work and the other requests of libuv   *)
(* reach it through uv__work_submit.                                        *)
EXTENDS Naturals, FiniteSets, Sequences, SequencesExt, IntrusiveQueue

CONSTANTS Workers,      \* the threads of the pool
          CpuReqs,      \* requests of kind UV__WORK_CPU or UV__WORK_FAST_IO
          SlowReqs,     \* requests of kind UV__WORK_SLOW_IO
          Loop,         \* the loop thread
          Free,         \* a mutex nobody holds
          NoReq,        \* no request
          SlowMsg,      \* &run_slow_work_message
          ExitMsg,      \* &exit_message
          MaxCancels    \* bound: calls of uv_cancel

Reqs == CpuReqs \cup SlowReqs
Threads == Workers \cup {Loop}

ASSUME WorkersAssumption == IsFiniteSet(Workers) /\ Workers # {}
ASSUME ThreadsAssumption == Loop \notin Workers /\ Free \notin Threads
ASSUME ReqsAssumption == CpuReqs \cap SlowReqs = {} /\ NoReq \notin Reqs
ASSUME MsgAssumption == {SlowMsg, ExitMsg} \cap Reqs = {} /\ SlowMsg # ExitMsg
ASSUME CancelsAssumption == MaxCancels \in Nat

VARIABLES
  wq, slow_wq,          \* wq and slow_io_pending_wq, from head to tail
  mutex,                \* who holds the global mutex
  idle_threads, slow_running,     \* the counters idle_threads, slow_io_work_running
  pc, job, is_slow,     \* per worker: its place, its request, is_slow_work
  loop_wq, wq_mutex,    \* loop->wq and loop->wq_mutex
  async,                \* loop->wq_async is pending
  local, lpc, target,   \* the loop thread: work_done's queue, its place, the
                        \* request uv_cancel is about
  work,                 \* per request: w->work
  result,               \* per request: what its done callback was told
  ran, cancels          \* history: requests whose work began; calls of uv_cancel

pool == <<wq, slow_wq, idle_threads, slow_running>>
worker == <<pc, job, is_slow>>
loop == <<loop_wq, async, local>>
request == <<work, result>>
vars == <<pool, mutex, worker, loop, wq_mutex, lpc, target, request, ran, cancels>>

Init == /\ wq = <<>> /\ slow_wq = <<>>
        /\ mutex = Free
        /\ idle_threads = 0 /\ slow_running = 0
        /\ pc = [w \in Workers |-> "lock"]
        /\ job = [w \in Workers |-> NoReq]
        /\ is_slow = [w \in Workers |-> FALSE]
        /\ loop_wq = <<>> /\ wq_mutex = Free /\ async = FALSE
        /\ local = <<>> /\ lpc = "user" /\ target = NoReq
        /\ work = [r \in Reqs |-> "null"]
        /\ result = [r \in Reqs |-> "none"]
        /\ ran = {} /\ cancels = 0

(* slow_work_thread_threshold. Mutant: no thread is left for other work. *)
ThresholdAll == Cardinality(Workers)
Threshold == (Cardinality(Workers) + 1) \div 2

(* uv_cond_signal wakes one waiter, if there is one. *)
Signalled(p) == IF \E w \in Workers : p[w] = "wait"
                THEN {[p EXCEPT ![w] = "woken"] : w \in {v \in Workers : p[v] = "wait"}}
                ELSE {p}
(* Mutant: an off-by-one in the test of idle_threads. *)
SignalIdleMany(p) == IF idle_threads > 1 THEN Signalled(p) ELSE {p}
(* The code signals only if idle_threads says that somebody waits. *)
SignalIdle(p) == IF idle_threads > 0 THEN Signalled(p) ELSE {p}

-----------------------------------------------------------------------------
(* A worker takes the global mutex, for the first time, after its work (when *)
(* it gives back its share of slow work), or back in uv_cond_wait.           *)
WorkerLock(w) ==
  /\ pc[w] = "lock"
  /\ mutex = Free
  /\ mutex' = w
  /\ slow_running' = IF is_slow[w] THEN slow_running - 1 ELSE slow_running
  /\ is_slow' = [is_slow EXCEPT ![w] = FALSE]
  /\ pc' = [pc EXCEPT ![w] = "top"]
  /\ UNCHANGED <<wq, slow_wq, idle_threads, job, loop, wq_mutex, lpc, target, request,
                 ran, cancels>>

(* Mutant: a worker that wakes still counts as idle. *)
WorkerWakesUncounted(w) ==
  /\ pc[w] = "woken"
  /\ mutex = Free
  /\ mutex' = w
  /\ pc' = [pc EXCEPT ![w] = "top"]
  /\ UNCHANGED <<pool, job, is_slow, loop, wq_mutex, lpc, target, request, ran, cancels>>

WorkerWakes(w) ==
  /\ pc[w] = "woken"
  /\ mutex = Free
  /\ mutex' = w
  /\ idle_threads' = idle_threads - 1
  /\ pc' = [pc EXCEPT ![w] = "top"]
  /\ UNCHANGED <<wq, slow_wq, slow_running, job, is_slow, loop, wq_mutex, lpc, target,
                 request, ran, cancels>>

(* No work, or only slow work and the threshold is reached. *)
NothingToDo == wq = <<>> \/ (wq = <<SlowMsg>> /\ slow_running >= Threshold)

WorkerWaits(w) ==
  /\ pc[w] = "top"
  /\ NothingToDo
  /\ idle_threads' = idle_threads + 1
  /\ mutex' = Free
  /\ pc' = [pc EXCEPT ![w] = "wait"]
  /\ UNCHANGED <<wq, slow_wq, slow_running, job, is_slow, loop, wq_mutex, lpc, target,
                 request, ran, cancels>>

(* Mutant: the worker goes on to its next iteration. *)
WorkerExitsNever(w) ==
  /\ pc[w] = "top"
  /\ ~NothingToDo
  /\ Head(wq) = ExitMsg
  /\ pc' \in Signalled([pc EXCEPT ![w] = "lock"])
  /\ mutex' = Free
  /\ UNCHANGED <<pool, job, is_slow, loop, wq_mutex, lpc, target, request, ran, cancels>>

(* The exit message stays at the head for the next worker. *)
WorkerExits(w) ==
  /\ pc[w] = "top"
  /\ ~NothingToDo
  /\ Head(wq) = ExitMsg
  /\ pc' \in Signalled([pc EXCEPT ![w] = "exited"])
  /\ mutex' = Free
  /\ UNCHANGED <<pool, job, is_slow, loop, wq_mutex, lpc, target, request, ran, cancels>>

(* Slow work over the threshold goes behind the other work. *)
WorkerRotates(w) ==
  /\ pc[w] = "top"
  /\ ~NothingToDo
  /\ Head(wq) = SlowMsg
  /\ slow_running >= Threshold
  /\ wq' = Append(Tail(wq), SlowMsg)
  /\ UNCHANGED <<slow_wq, idle_threads, slow_running, mutex, worker, loop, wq_mutex, lpc,
                 target, request, ran, cancels>>

(* All slow work was cancelled. *)
WorkerSkips(w) ==
  /\ pc[w] = "top"
  /\ ~NothingToDo
  /\ Head(wq) = SlowMsg
  /\ slow_running < Threshold
  /\ slow_wq = <<>>
  /\ wq' = Tail(wq)
  /\ UNCHANGED <<slow_wq, idle_threads, slow_running, mutex, worker, loop, wq_mutex, lpc,
                 target, request, ran, cancels>>

(* Mutant: slow work that is left is not scheduled again. *)
WorkerTakesSlowOnce(w) ==
  /\ pc[w] = "top"
  /\ ~NothingToDo
  /\ Head(wq) = SlowMsg
  /\ slow_running < Threshold
  /\ slow_wq # <<>>
  /\ job' = [job EXCEPT ![w] = Head(slow_wq)]
  /\ is_slow' = [is_slow EXCEPT ![w] = TRUE]
  /\ slow_running' = slow_running + 1
  /\ slow_wq' = Tail(slow_wq)
  /\ wq' = Tail(wq)
  /\ pc' = [pc EXCEPT ![w] = "work"]
  /\ ran' = ran \cup {Head(slow_wq)}
  /\ mutex' = Free
  /\ UNCHANGED <<idle_threads, loop, wq_mutex, lpc, target, request, cancels>>

(* The head of slow_io_pending_wq; what is left of it is scheduled again. *)
WorkerTakesSlow(w) ==
  /\ pc[w] = "top"
  /\ ~NothingToDo
  /\ Head(wq) = SlowMsg
  /\ slow_running < Threshold
  /\ slow_wq # <<>>
  /\ job' = [job EXCEPT ![w] = Head(slow_wq)]
  /\ is_slow' = [is_slow EXCEPT ![w] = TRUE]
  /\ slow_running' = slow_running + 1
  /\ slow_wq' = Tail(slow_wq)
  /\ LET p == [pc EXCEPT ![w] = "work"] IN
       IF Len(slow_wq) > 1 THEN wq' = Append(Tail(wq), SlowMsg) /\ pc' \in SignalIdle(p)
                           ELSE wq' = Tail(wq) /\ pc' = p
  /\ ran' = ran \cup {Head(slow_wq)}
  /\ mutex' = Free
  /\ UNCHANGED <<idle_threads, loop, wq_mutex, lpc, target, request, cancels>>

WorkerTakes(w) ==
  /\ pc[w] = "top"
  /\ ~NothingToDo
  /\ Head(wq) \in Reqs
  /\ job' = [job EXCEPT ![w] = Head(wq)]
  /\ wq' = Tail(wq)
  /\ pc' = [pc EXCEPT ![w] = "work"]
  /\ ran' = ran \cup {Head(wq)}
  /\ mutex' = Free
  /\ UNCHANGED <<slow_wq, idle_threads, slow_running, is_slow, loop, wq_mutex, lpc, target,
                 request, cancels>>

(* w->work returns. *)
WorkReturns(w) ==
  /\ pc[w] = "work"
  /\ pc' = [pc EXCEPT ![w] = "put"]
  /\ UNCHANGED <<pool, mutex, job, is_slow, loop, wq_mutex, lpc, target, request, ran, cancels>>

WorkerPuts(w) ==
  /\ pc[w] = "put"
  /\ wq_mutex = Free
  /\ wq_mutex' = w
  /\ work' = [work EXCEPT ![job[w]] = "null"]
  /\ loop_wq' = Append(loop_wq, job[w])
  /\ job' = [job EXCEPT ![w] = NoReq]
  /\ pc' = [pc EXCEPT ![w] = "send"]
  /\ UNCHANGED <<pool, mutex, is_slow, async, local, lpc, target, result, ran, cancels>>

WorkerSends(w) ==
  /\ pc[w] = "send"
  /\ async' = TRUE
  /\ wq_mutex' = Free
  /\ pc' = [pc EXCEPT ![w] = "lock"]
  /\ UNCHANGED <<pool, mutex, job, is_slow, loop_wq, local, lpc, target, request, ran, cancels>>

-----------------------------------------------------------------------------
(* The loop thread. User code runs between the callbacks of uv__work_done and *)
(* whenever the loop calls it.                                                *)

(* post: slow work waits in its own queue, with one message in wq for all. *)
Post(r) ==
  IF r \in SlowReqs
    THEN /\ slow_wq' = Append(slow_wq, r)
         /\ IF Contains(wq, SlowMsg)
              THEN UNCHANGED <<wq, pc>>
              ELSE wq' = Append(wq, SlowMsg) /\ pc' \in SignalIdle(pc)
    ELSE /\ wq' = Append(wq, r)
         /\ UNCHANGED slow_wq
         /\ pc' \in SignalIdle(pc)

(* uv__work_submit; each request is submitted once. *)
Submit(r) ==
  /\ lpc = "user"
  /\ work[r] = "null" /\ result[r] = "none" /\ r \notin ran
  /\ mutex = Free
  /\ work' = [work EXCEPT ![r] = "set"]
  /\ Post(r)
  /\ UNCHANGED <<idle_threads, slow_running, mutex, job, is_slow, loop, wq_mutex, lpc,
                 target, result, ran, cancels>>

(* uv__work_cancel, for a request whose callback was not called yet, in three *)
(* steps: it takes the global mutex; it takes loop->wq_mutex as well and      *)
(* looks; it puts a cancelled request on the loop's queue.                    *)
Pending(r) == work[r] # "null" \/ (r \in ran /\ result[r] = "none")

CancelLock(r) ==
  /\ lpc = "user"
  /\ Pending(r)
  /\ cancels < MaxCancels
  /\ mutex = Free
  /\ mutex' = Loop
  /\ target' = r
  /\ lpc' = "cancel"
  /\ cancels' = cancels + 1
  /\ UNCHANGED <<pool, worker, loop, wq_mutex, request, ran>>

InQueue(r) == \E q \in {wq, slow_wq, loop_wq, local} : Contains(q, r)

CancelBusy ==
  /\ lpc = "cancel"
  /\ wq_mutex = Free
  /\ (~InQueue(target) \/ work[target] = "null")
  /\ mutex' = Free
  /\ target' = NoReq
  /\ lpc' = "user"
  /\ UNCHANGED <<pool, worker, loop, wq_mutex, request, ran, cancels>>

(* Mutant: a request that a worker has begun is cancelled too. *)
CancelTakesRunning ==
  /\ lpc = "cancel"
  /\ wq_mutex = Free
  /\ work[target] # "null"
  /\ wq' = Unlinked(wq, target)
  /\ slow_wq' = Unlinked(slow_wq, target)
  /\ loop_wq' = Unlinked(loop_wq, target)
  /\ local' = Unlinked(local, target)
  /\ mutex' = Free
  /\ lpc' = "put"
  /\ UNCHANGED <<idle_threads, slow_running, worker, async, wq_mutex, target, request, ran,
                 cancels>>

CancelTakes ==
  /\ lpc = "cancel"
  /\ wq_mutex = Free
  /\ InQueue(target) /\ work[target] # "null"
  /\ wq' = Unlinked(wq, target)
  /\ slow_wq' = Unlinked(slow_wq, target)
  /\ loop_wq' = Unlinked(loop_wq, target)
  /\ local' = Unlinked(local, target)
  /\ mutex' = Free
  /\ lpc' = "put"
  /\ UNCHANGED <<idle_threads, slow_running, worker, async, wq_mutex, target, request, ran,
                 cancels>>

CancelPuts ==
  /\ lpc = "put"
  /\ wq_mutex = Free
  /\ work' = [work EXCEPT ![target] = "cancelled"]
  /\ loop_wq' = Append(loop_wq, target)
  /\ async' = TRUE
  /\ target' = NoReq
  /\ lpc' = "user"
  /\ UNCHANGED <<pool, mutex, worker, local, wq_mutex, result, ran, cancels>>

(* uv__work_done moves the loop's queue and calls the callbacks one by one. *)
WorkDone ==
  /\ lpc = "user"
  /\ local = <<>>
  /\ async
  /\ wq_mutex = Free
  /\ async' = FALSE
  /\ local' = loop_wq
  /\ loop_wq' = <<>>
  /\ UNCHANGED <<pool, mutex, worker, wq_mutex, lpc, target, request, ran, cancels>>

(* Afterwards the request is the caller's again. *)
DoneCallback ==
  /\ lpc = "user"
  /\ local # <<>>
  /\ LET r == Head(local) IN
       /\ result' = [result EXCEPT ![r] = IF work[r] = "cancelled" THEN "ecanceled" ELSE "ok"]
       /\ work' = [work EXCEPT ![r] = "null"]
  /\ local' = Tail(local)
  /\ UNCHANGED <<pool, mutex, worker, loop_wq, async, wq_mutex, lpc, target, ran, cancels>>

(* uv__threadpool_cleanup: the exit message, then uv_thread_join of each worker. *)
Cleanup ==
  /\ lpc = "user"
  /\ mutex = Free
  /\ wq' = Append(wq, ExitMsg)
  /\ pc' \in SignalIdle(pc)
  /\ lpc' = "join"
  /\ UNCHANGED <<slow_wq, idle_threads, slow_running, mutex, job, is_slow, loop, wq_mutex,
                 target, request, ran, cancels>>

Joined ==
  /\ lpc = "join"
  /\ \A w \in Workers : pc[w] = "exited"
  /\ lpc' = "done"
  /\ UNCHANGED <<pool, mutex, worker, loop, wq_mutex, target, request, ran, cancels>>

-----------------------------------------------------------------------------
WorkerStep(w) == \/ WorkerLock(w) \/ WorkerWakes(w) \/ WorkerWaits(w) \/ WorkerExits(w)
                 \/ WorkerRotates(w) \/ WorkerSkips(w) \/ WorkerTakesSlow(w)
                 \/ WorkerTakes(w) \/ WorkerPuts(w) \/ WorkerSends(w)

LoopStep == CancelBusy \/ CancelTakes \/ CancelPuts \/ WorkDone \/ DoneCallback \/ Joined

(* The process has ended, or nobody has anything to do and nobody asks. *)
Terminated == lpc = "done" /\ UNCHANGED vars

Next == \/ \E w \in Workers : WorkerStep(w) \/ WorkReturns(w)
        \/ LoopStep
        \/ \E r \in Reqs : Submit(r) \/ CancelLock(r)
        \/ Cleanup
        \/ Terminated

(* Threads run and work on the CPU ends; nothing says that slow I/O does,     *)
(* nor that anybody submits, cancels or leaves.                               *)
Fairness == /\ \A w \in Workers : WF_vars(WorkerStep(w))
            /\ \A w \in Workers : WF_vars(WorkReturns(w) /\ job[w] \in CpuReqs)
            /\ WF_vars(LoopStep)

Spec == Init /\ [][Next]_vars
FairSpec == Spec /\ Fairness

-----------------------------------------------------------------------------
TypeOK == /\ wq \in Seq(Reqs \cup {SlowMsg, ExitMsg})
          /\ slow_wq \in Seq(SlowReqs)
          /\ mutex \in Threads \cup {Free}
          /\ idle_threads \in 0..Cardinality(Workers)
          /\ slow_running \in 0..(Cardinality(Workers) + 1) \div 2
          /\ pc \in [Workers -> {"lock", "top", "wait", "woken", "work", "put", "send", "exited"}]
          /\ job \in [Workers -> Reqs \cup {NoReq}]
          /\ is_slow \in [Workers -> BOOLEAN]
          /\ loop_wq \in Seq(Reqs)
          /\ wq_mutex \in Threads \cup {Free}
          /\ async \in BOOLEAN
          /\ local \in Seq(Reqs)
          /\ lpc \in {"user", "cancel", "put", "join", "done"}
          /\ target \in Reqs \cup {NoReq}
          /\ work \in [Reqs -> {"null", "set", "cancelled"}]
          /\ result \in [Reqs -> {"none", "ok", "ecanceled"}]
          /\ ran \subseteq Reqs
          /\ cancels \in 0..MaxCancels

(* Where a request is between its submission and its callback. *)
Places(r) == {<<"q", i>> : i \in {j \in DOMAIN wq : wq[j] = r}}
             \cup {<<"slow", i>> : i \in {j \in DOMAIN slow_wq : slow_wq[j] = r}}
             \cup {<<"loop", i>> : i \in {j \in DOMAIN loop_wq : loop_wq[j] = r}}
             \cup {<<"local", i>> : i \in {j \in DOMAIN local : local[j] = r}}
             \cup {<<"worker", w>> : w \in {v \in Workers : job[v] = r}}
             \cup {<<"cancel", 0>> : x \in {y \in {target} : y = r /\ lpc = "put"}}

(* None is lost and none is handed out twice, by workers, uv_cancel and       *)
(* uv__work_done taking and returning requests under two mutexes; and what    *)
(* the callback is told is true: a request that uv_cancel returned 0 for      *)
(* never runs, one whose callback gets 0 has run.                             *)
RequestsKept == \A r \in Reqs :
  /\ Cardinality(Places(r)) = (IF Pending(r) THEN 1 ELSE 0)
  /\ work[r] = "cancelled" \/ result[r] = "ecanceled" => r \notin ran
  /\ result[r] = "ok" => r \in ran

(* No lost signal: while there is something a worker could take (work or the  *)
(* exit message) and a worker sleeps, another one is awake and about to look, *)
(* and not only busy with work that may never end.                            *)
NoForgottenWork == mutex = Free /\ ~NothingToDo /\ (\E w \in Workers : pc[w] = "wait") =>
                     \E w \in Workers : pc[w] \in {"lock", "woken", "put", "send"}

(* With two workers or more, work on the CPU is run although slow I/O may     *)
(* take for ever.                                                             *)
CpuWorkRuns == \A r \in CpuReqs :
                 work[r] = "set" ~> (r \in ran \/ work[r] = "cancelled" \/ lpc \in {"join", "done"})

(* If slow I/O ends, every request gets its callback, unless the process      *)
(* leaves first.                                                              *)
SlowWorkEnds == \A w \in Workers : pc[w] = "work" ~> pc[w] # "work"
EveryRequestDone ==
  SlowWorkEnds => \A r \in Reqs : work[r] = "set" ~> (result[r] # "none" \/ lpc \in {"join", "done"})

(* If slow I/O ends, uv__threadpool_cleanup returns. *)
CleanupReturns == SlowWorkEnds => (lpc = "join" ~> lpc = "done")
=============================================================================

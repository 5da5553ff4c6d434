--------------------------- MODULE ArmdDaemon ---------------------------
(* The daemon in one piece: the life of main and its modules (ModuleLifecycle) *)
(* with the event loop between start and stop, the modules' mailboxes, their   *)
(* timers and what their callbacks post.  A post and the taking of a message   *)
(* are one step here (ModuleMailbox shows that they look like it); failures    *)
(* are ModuleLifecycle's.  All callbacks run in the loop's thread.             *)
(* A callback posts at most one message.  on_start and on_stop post to modules *)
(* of lower levels, on_message to any module.  A message posted in answer to   *)
(* another has fewer hops left: no conversation goes on for ever.              *)
EXTENDS ModuleLifecycle, SequencesExt

CONSTANTS QueueSize,     \* QUEUE_SIZE
          MaxHops,       \* bound: hops of a message
          MaxTicks       \* bound: how often a timer fires

ASSUME DaemonAssumption == QueueSize \in Nat \ {0, 1} /\ MaxHops \in Nat /\ MaxTicks \in Nat

VARIABLES
  box, pending,          \* per module: its ring's messages, mod->async.pending
  phase,                 \* where uv_run is
  todo, cur,             \* uv__async_io: handles to be looked at; async_callback's module
  fired,                 \* timers called in this uv__run_timers
  hand,                  \* async_callback's msg
  tick,                  \* per module: priv->tick
  heard,                 \* history: per module, the heartbeats on_message was given
  dropped,               \* history: per module, those that a full ring refused
  stray                  \* history: a post to a module that was not running

mail == <<box, pending>>
uv == <<phase, todo, cur, fired, hand>>
monitor == <<tick, heard, dropped>>
daemonVars == <<vars, mail, uv, monitor, stray>>

Shutdown == 0            \* g_shutdown_async, the first handle of the loop
None == 0
NoMsg == [hops |-> 0, tick |-> 0]

DaemonInit == /\ Init
              /\ box = [m \in Modules |-> <<>>]
              /\ pending = [m \in Modules |-> FALSE]
              /\ phase = "timers"
              /\ todo = {} /\ cur = None /\ fired = {} /\ hand = NoMsg
              /\ tick = [m \in Modules |-> 0]
              /\ heard = [m \in Modules |-> {}]
              /\ dropped = [m \in Modules |-> {}]
              /\ stray = FALSE

-----------------------------------------------------------------------------
Message(hops, t) == [hops |-> hops, tick |-> t]
Heartbeats(q) == {q[i].tick : i \in DOMAIN q} \ {0}

(* armd_module_post from a callback. A module that never started has a handle *)
(* without loop, one that was stopped a destroyed mutex: such a post is       *)
(* recorded, and changes nothing that anybody sees.                           *)
Put(b, m, msg) == [b EXCEPT ![m] = Append(@, msg)]
FullLate(b, m) == Len(b[m]) = QueueSize      \* mutant: all slots are used
Full(b, m) == Len(b[m]) = QueueSize - 1

PostTo(b, m, msg) ==
  IF async[m] # "active" THEN stray' = TRUE /\ box' = b /\ UNCHANGED pending
  ELSE IF Full(b, m) THEN box' = b /\ UNCHANGED <<pending, stray>>
  ELSE /\ box' = Put(b, m, msg)
       /\ pending' = [pending EXCEPT ![m] = TRUE]
       /\ UNCHANGED stray

NoPost(b) == box' = b /\ UNCHANGED <<pending, stray>>
PostsOneOf(b, targets, hops) ==
  NoPost(b) \/ \E m \in targets : PostTo(b, m, Message(hops, 0))

Below(m) == {n \in Modules : lvl[n] < lvl[m]}

-----------------------------------------------------------------------------
(* main, with what on_start and on_stop post. *)
Setup == /\ \/ Regcall \/ RegcallsDone \/ StartNextLevel \/ StartDone
            \/ StopNextLevel \/ StopDone
         /\ UNCHANGED <<mail, uv, monitor, stray>>

(* armd_module_start empties the ring; monitor's on_start resets its tick. *)
Start(m) ==
  /\ StartModule(m)
  /\ PostsOneOf([box EXCEPT ![m] = <<>>], Below(m), MaxHops)
  /\ tick' = [tick EXCEPT ![m] = 0]
  /\ heard' = [heard EXCEPT ![m] = {}]
  /\ dropped' = [dropped EXCEPT ![m] = {}]
  /\ UNCHANGED uv

(* A closed handle leaves the queue of uv__async_io. *)
Stop(m) ==
  /\ StopModule(m)
  /\ PostsOneOf(box, Below(m), MaxHops)
  /\ todo' = todo \ {m}
  /\ UNCHANGED <<phase, cur, fired, hand, monitor>>

SignalArrives == Signal /\ UNCHANGED <<mail, uv, monitor, stray>>

-----------------------------------------------------------------------------
(* uv_run *)
InLoop(p) == pc = "run" /\ phase = p

(* monitor_timer_cb: a heartbeat to the module itself. UvTimers shows that a  *)
(* timer is called once in a pass at most.                                    *)
TimerCallback(m) ==
  /\ InLoop("timers")
  /\ timer[m] = "active"
  /\ m \notin fired
  /\ tick[m] < MaxTicks
  /\ fired' = fired \cup {m}
  /\ tick' = [tick EXCEPT ![m] = @ + 1]
  /\ PostTo(box, m, Message(MaxHops, tick[m] + 1))
  /\ dropped' = IF Full(box, m) THEN [dropped EXCEPT ![m] = @ \cup {tick[m] + 1}] ELSE dropped
  /\ UNCHANGED <<vars, phase, todo, cur, hand, heard>>

(* The end of uv__run_timers; uv_run goes on while the loop is alive. *)
TimersDone ==
  /\ InLoop("timers")
  /\ SomeHandle("active") \/ SomeHandle("closing")
  /\ fired' = {}
  /\ phase' = "poll"
  /\ UNCHANGED <<vars, mail, todo, cur, hand, monitor, stray>>

LoopEnds ==
  /\ InLoop("timers")
  /\ RunEnds
  /\ UNCHANGED <<mail, uv, monitor, stray>>

(* The eventfd is readable once a handle is pending. *)
Wanted(h) == IF h = Shutdown THEN signalled /\ shutdown = "active"
                             ELSE pending[h] /\ async[h] = "active"
Handles == {Shutdown} \cup Modules

PollEvent ==
  /\ InLoop("poll")
  /\ \E h \in Handles : Wanted(h)
  /\ todo' = {h \in Handles : IF h = Shutdown THEN shutdown = "active" ELSE async[h] = "active"}
  /\ phase' = "scan"
  /\ UNCHANGED <<vars, mail, cur, fired, hand, monitor, stray>>

(* A timer is due, or handles are to be closed. *)
PollTimeout ==
  /\ InLoop("poll")
  /\ ~ \E h \in Handles : Wanted(h)
  /\ SomeHandle("closing") \/ \E m \in Modules : timer[m] = "active"
  /\ phase' = "closing"
  /\ UNCHANGED <<vars, mail, todo, cur, fired, hand, monitor, stray>>

(* uv__async_io's walk: the shutdown handle is the first of the queue. *)
ScanNext(h) == InLoop("scan") /\ h \in todo /\ \A g \in todo : h <= g

ScanSkips(h) ==
  /\ ScanNext(h)
  /\ ~Wanted(h)
  /\ todo' = todo \ {h}
  /\ UNCHANGED <<vars, mail, phase, cur, fired, hand, monitor, stray>>

ScanModule(m) ==
  /\ ScanNext(m)
  /\ Wanted(m)
  /\ pending' = [pending EXCEPT ![m] = FALSE]
  /\ todo' = todo \ {m}
  /\ cur' = m
  /\ phase' = "drain"
  /\ UNCHANGED <<vars, box, fired, hand, monitor, stray>>

ScanShutdown ==
  /\ ScanNext(Shutdown)
  /\ ShutdownCallback
  /\ todo' = todo \ {Shutdown}
  /\ UNCHANGED <<mail, phase, cur, fired, hand, monitor, stray>>

ScanEnd ==
  /\ InLoop("scan")
  /\ todo = {}
  /\ phase' = "closing"
  /\ UNCHANGED <<vars, mail, todo, cur, fired, hand, monitor, stray>>

(* async_callback takes a message, then on_message gets it; a message without *)
(* hops is not answered.                                                      *)
DrainTake ==
  /\ InLoop("drain")
  /\ box[cur] # <<>>
  /\ hand' = Head(box[cur])
  /\ box' = [box EXCEPT ![cur] = Tail(@)]
  /\ heard' = [heard EXCEPT ![cur] = @ \cup Heartbeats(<<Head(box[cur])>>)]
  /\ phase' = "callback"
  /\ UNCHANGED <<vars, pending, todo, cur, fired, tick, dropped, stray>>

(* Mutants: the answer has as many hops; async_callback returns after one     *)
(* message.                                                                   *)
OnMessageEchoes ==
  /\ InLoop("callback")
  /\ PostsOneOf(box, Modules, hand.hops)
  /\ hand' = NoMsg
  /\ phase' = "drain"
  /\ UNCHANGED <<vars, todo, cur, fired, monitor>>

OnMessageOnce ==
  /\ InLoop("callback")
  /\ IF hand.hops = 0 THEN NoPost(box) ELSE PostsOneOf(box, Modules, hand.hops - 1)
  /\ hand' = NoMsg
  /\ cur' = None
  /\ phase' = "scan"
  /\ UNCHANGED <<vars, todo, fired, monitor>>

OnMessage ==
  /\ InLoop("callback")
  /\ IF hand.hops = 0 THEN NoPost(box) ELSE PostsOneOf(box, Modules, hand.hops - 1)
  /\ hand' = NoMsg
  /\ phase' = "drain"
  /\ UNCHANGED <<vars, todo, cur, fired, monitor>>

DrainEnd ==
  /\ InLoop("drain")
  /\ box[cur] = <<>>
  /\ cur' = None
  /\ phase' = "scan"
  /\ UNCHANGED <<vars, mail, todo, fired, hand, monitor, stray>>

(* uv__run_closing_handles *)
CloseHandles ==
  /\ InLoop("closing")
  /\ IF SomeHandle("closing") THEN ClosingPass ELSE UNCHANGED vars
  /\ phase' = "timers"
  /\ UNCHANGED <<mail, todo, cur, fired, hand, monitor, stray>>

-----------------------------------------------------------------------------
LoopStep == \/ TimersDone \/ LoopEnds \/ PollEvent \/ PollTimeout
            \/ ScanShutdown \/ ScanEnd \/ DrainTake \/ OnMessage \/ DrainEnd \/ CloseHandles
            \/ \E m \in Modules : TimerCallback(m) \/ ScanModule(m)
            \/ \E h \in Handles : ScanSkips(h)

ThreadStep == LoopStep \/ Setup \/ \E m \in Modules : Start(m) \/ Stop(m)

(* The program has ended, or all modules sleep and the loop blocks. *)
Exited == pc = "exit" /\ UNCHANGED daemonVars

DaemonNext == ThreadStep \/ SignalArrives \/ Exited

(* The thread runs whenever it is not blocked in uv__io_poll. *)
DaemonSpec == DaemonInit /\ [][DaemonNext]_daemonVars /\ WF_daemonVars(ThreadStep)

-----------------------------------------------------------------------------
DaemonTypeOK ==
  /\ TypeOK
  /\ box \in [Modules -> Seq([hops : 0..MaxHops, tick : 0..MaxTicks])]
  /\ \A m \in Modules : Len(box[m]) < QueueSize
  /\ pending \in [Modules -> BOOLEAN]
  /\ phase \in {"timers", "poll", "scan", "drain", "callback", "closing"}
  /\ todo \subseteq Handles
  /\ cur \in {None} \cup Modules
  /\ fired \subseteq HasTimer
  /\ hand \in [hops : 0..MaxHops, tick : 0..MaxTicks]
  /\ tick \in [Modules -> 0..MaxTicks]
  /\ heard \in [Modules -> SUBSET (1..MaxTicks)]
  /\ dropped \in [Modules -> SUBSET (1..MaxTicks)]
  /\ stray \in BOOLEAN

(* No post reaches a module before its armd_module_start or after its         *)
(* armd_module_stop: the levels make every on_start and on_stop find the      *)
(* modules below running, and no on_message and no timer runs beside them.    *)
NoStrayPost == ~stray

(* When a module's timer is called, on_message has been given every earlier  *)
(* heartbeat that its ring accepted: the loop serves the mailboxes between    *)
(* two timer passes.  A heartbeat is lost in one way only, refused by a ring  *)
(* full of other messages, never for one that still waits before it.          *)
HeartbeatsKeepUp ==
  [][\A m \in Modules : TimerCallback(m) => /\ heard[m] \cup dropped[m] = 1..tick[m]
                                            /\ Heartbeats(box[m]) = {}]_daemonVars

(* Messages get handled, unless the module is stopped first. *)
MailHandled == \A m \in Modules : box[m] # <<>> ~> (box[m] = <<>> \/ async[m] # "active")

(* A signal ends the program while the modules answer one another: however    *)
(* long the drain of a ring, the loop comes back to the other handles, if     *)
(* every conversation comes to an end (MaxHops).                              *)
SignalEndsDaemon == signalled ~> pc = "exit"
=============================================================================

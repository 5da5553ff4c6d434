------------------------ MODULE ModuleLifecycle ------------------------
(* The life of the daemon: main runs the regcalls, which put modules in the *)
(* registry's level lists, starts them level by level, sits in uv_run until *)
(* a signal arrives, and stops them; or takes the `fail:' path.  The libuv  *)
(* handles of modules are followed through init, close and the loop's       *)
(* closing pass, because uv_run returns only when none is left and because  *)
(* uv_close aborts the program on a handle in the wrong state.              *)
EXTENDS Integers, Sequences

CONSTANTS NumModules,    \* how many regcalls there are; module m is the m-th's
          HasTimer,      \* modules that own a timer, as monitor.c does
          MayLackOps,    \* modules that may come without operations (mops)
          MayFailReg,    \* modules whose regcall may return an error
          MayFailStart   \* modules whose on_start may return an error

Modules == 1..NumModules
Levels == 0..3           \* SYSTEM_LEVEL .. POST_LEVEL
MaxLevel == 4            \* MAX_LEVEL

ASSUME LifecycleAssumption == /\ NumModules \in Nat
                              /\ HasTimer \subseteq Modules
                              /\ MayLackOps \subseteq Modules
                              /\ MayFailReg \subseteq Modules
                              /\ MayFailStart \subseteq Modules

VARIABLES
  lvl,                   \* the level each regcall registers its module at
  mops,                  \* the modules whose mops is not NULL
  list,                  \* registry_sentinel[level], from next to prev
  registered,            \* how many regcalls have run
  level, pos,            \* startall's and stopall's level; startall's node
  shutdown,              \* g_shutdown_async
  async, timer,          \* mod->async and the module's timer
  signalled,             \* uv_async_send was called on g_shutdown_async
  pc,                    \* where main is
  ret,                   \* main's exit status: 1 on the fail path
  crash                  \* why the program died in uv_close or uv_timer_stop

regs == <<lvl, mops, list, registered>>
handles == <<shutdown, async, timer>>
vars == <<regs, level, pos, handles, signalled, pc, ret, crash>>

(* A handle is zero before its init; idle, initialised and not started;      *)
(* closing, until the loop's closing pass makes it closed.                   *)
HandleStates == {"zero", "idle", "active", "closing", "closed"}
Open(s) == s \in {"idle", "active"}
AllHandles == <<shutdown>> \o [m \in Modules |-> async[m]] \o [m \in Modules |-> timer[m]]
SomeHandle(s) == \E i \in DOMAIN AllHandles : AllHandles[i] = s

(* main has initialised g_shutdown_async and installed the signal handler. *)
Init == /\ lvl \in [Modules -> Levels]
        /\ mops \in SUBSET Modules /\ Modules \ mops \subseteq MayLackOps
        /\ list = [l \in Levels |-> <<>>]
        /\ registered = 0
        /\ level = 0
        /\ pos = 1
        /\ shutdown = "active"
        /\ async = [m \in Modules |-> "zero"]
        /\ timer = [m \in Modules |-> "zero"]
        /\ signalled = FALSE
        /\ pc = "register"
        /\ ret = 0
        /\ crash = "none"

(* `goto fail': stopall begins at the last level. *)
Fail == /\ pc' = "stop"
        /\ ret' = 1
        /\ level' = MaxLevel - 1

-----------------------------------------------------------------------------
(* run_regcalls *)

Regcall ==
  /\ pc = "register"
  /\ registered < NumModules
  /\ LET m == registered + 1 IN
       /\ registered' = m
       /\ list' = [list EXCEPT ![lvl[m]] = Append(@, m)]
  /\ UNCHANGED <<lvl, mops, level, pos, handles, signalled, pc, ret, crash>>

RegcallFails ==
  /\ pc = "register"
  /\ registered + 1 \in MayFailReg
  /\ Fail
  /\ UNCHANGED <<regs, pos, handles, signalled, crash>>

RegcallsDone ==
  /\ pc = "register"
  /\ registered = NumModules
  /\ pc' = "start"
  /\ level' = 0
  /\ pos' = 1
  /\ UNCHANGED <<regs, handles, signalled, ret, crash>>

-----------------------------------------------------------------------------
(* armd_module_startall *)

StartLevels(m) == /\ pc = "start"
                  /\ level < MaxLevel
                  /\ pos <= Len(list[level])
                  /\ m = list[level][pos]

(* armd_module_start refuses a module without operations (-EINVAL). *)
StartModuleRefused(m) ==
  /\ StartLevels(m)
  /\ m \notin mops
  /\ Fail
  /\ UNCHANGED <<regs, pos, handles, signalled, crash>>

(* armd_module_start succeeds; on_start starts the module's timer. *)
StartModule(m) ==
  /\ StartLevels(m)
  /\ m \in mops
  /\ async' = [async EXCEPT ![m] = "active"]
  /\ timer' = IF m \in HasTimer THEN [timer EXCEPT ![m] = "active"] ELSE timer
  /\ pos' = pos + 1
  /\ UNCHANGED <<regs, level, shutdown, signalled, pc, ret, crash>>

(* on_start fails after its uv_timer_init: armd_module_start closes the      *)
(* async handle it had opened and startall returns the error to main.        *)
StartModuleFails(m) ==
  /\ StartLevels(m)
  /\ m \in mops \cap MayFailStart
  /\ async' = [async EXCEPT ![m] = "closing"]
  /\ timer' = IF m \in HasTimer THEN [timer EXCEPT ![m] = "idle"] ELSE timer
  /\ Fail
  /\ UNCHANGED <<regs, pos, shutdown, signalled, crash>>

(* Mutant: the walk of a level begins behind its first module. *)
StartNextLevelSkips ==
  /\ pc = "start"
  /\ level < MaxLevel
  /\ pos > Len(list[level])
  /\ level' = level + 1
  /\ pos' = 2
  /\ UNCHANGED <<regs, handles, signalled, pc, ret, crash>>

StartNextLevel ==
  /\ pc = "start"
  /\ level < MaxLevel
  /\ pos > Len(list[level])
  /\ level' = level + 1
  /\ pos' = 1
  /\ UNCHANGED <<regs, handles, signalled, pc, ret, crash>>

StartDone ==
  /\ pc = "start"
  /\ level = MaxLevel
  /\ pc' = "run"
  /\ UNCHANGED <<regs, level, pos, handles, signalled, ret, crash>>

-----------------------------------------------------------------------------
(* uv_run; the asynchronous signal. *)

Signal ==
  /\ ~signalled
  /\ pc \notin {"exit", "aborted"}
  /\ signalled' = TRUE
  /\ UNCHANGED <<regs, level, pos, handles, pc, ret, crash>>

(* Mutant: stopall begins at the first level. *)
ShutdownCallbackFirst ==
  /\ pc = "run"
  /\ signalled
  /\ shutdown = "active"
  /\ pc' = "stop"
  /\ level' = 0
  /\ UNCHANGED <<regs, pos, handles, signalled, ret, crash>>

(* uv__async_io calls on_shutdown_async, which calls stopall. *)
ShutdownCallback ==
  /\ pc = "run"
  /\ signalled
  /\ shutdown = "active"
  /\ pc' = "stop"
  /\ level' = MaxLevel - 1
  /\ UNCHANGED <<regs, pos, handles, signalled, ret, crash>>

Finish(s) == IF s = "closing" THEN "closed" ELSE s

(* uv__run_closing_handles *)
ClosingPass ==
  /\ pc = "run"
  /\ SomeHandle("closing")
  /\ shutdown' = Finish(shutdown)
  /\ async' = [m \in Modules |-> Finish(async[m])]
  /\ timer' = [m \in Modules |-> Finish(timer[m])]
  /\ UNCHANGED <<regs, level, pos, signalled, pc, ret, crash>>

(* The loop is not alive: uv_run returns, main closes the loop and returns. *)
RunEnds ==
  /\ pc = "run"
  /\ ~SomeHandle("active")
  /\ ~SomeHandle("closing")
  /\ pc' = "exit"
  /\ UNCHANGED <<regs, level, pos, handles, signalled, ret, crash>>

-----------------------------------------------------------------------------
(* armd_module_stopall *)

StopLevels(m) == /\ pc = "stop"
                 /\ list[level] # <<>>
                 /\ m = Head(list[level])

(* The module leaves its list. *)
Delist ==
  /\ list' = [list EXCEPT ![level] = Tail(@)]
  /\ UNCHANGED <<lvl, mops, registered, level, pos, shutdown, signalled, pc, ret, crash>>

(* armd_module_stop returns at once for a module without operations. *)
StopModuleSkips(m) ==
  /\ StopLevels(m)
  /\ m \notin mops
  /\ Delist
  /\ UNCHANGED <<async, timer>>

(* Mutant: on_stop stops the timer and does not close it. *)
StopModuleLeavesTimer(m) ==
  /\ StopLevels(m)
  /\ m \in mops
  /\ Open(async[m])
  /\ async' = [async EXCEPT ![m] = "closing"]
  /\ timer' = IF m \in HasTimer THEN [timer EXCEPT ![m] = "idle"] ELSE timer
  /\ Delist

(* armd_module_stop: on_stop stops and closes the timer, then the async      *)
(* handle is closed.                                                         *)
StopModule(m) ==
  /\ StopLevels(m)
  /\ m \in mops
  /\ Open(async[m])
  /\ m \in HasTimer => Open(timer[m])
  /\ async' = [async EXCEPT ![m] = "closing"]
  /\ timer' = IF m \in HasTimer THEN [timer EXCEPT ![m] = "closing"] ELSE timer
  /\ Delist

(* uv_timer_stop follows a null queue link of a timer that was never         *)
(* initialised; uv_close asserts that the handle is not closing and that its *)
(* type is a known one.                                                      *)
StopModuleAborts(m) ==
  /\ StopLevels(m)
  /\ m \in mops
  /\ \/ /\ m \in HasTimer /\ timer[m] = "zero"
        /\ crash' = "null"
     \/ /\ m \in HasTimer => Open(timer[m])
        /\ async[m] = "zero"
        /\ crash' = "type"
     \/ /\ m \in HasTimer => Open(timer[m])
        /\ async[m] \in {"closing", "closed"}
        /\ crash' = "closing"
  /\ pc' = "aborted"
  /\ UNCHANGED <<regs, level, pos, handles, signalled, ret>>

(* Mutant: the level loop has no lower end. *)
StopNextLevelUnbounded ==
  /\ pc = "stop"
  /\ list[level] = <<>>
  /\ level' = level - 1
  /\ UNCHANGED <<regs, pos, handles, signalled, pc, ret, crash>>

StopNextLevel ==
  /\ pc = "stop"
  /\ list[level] = <<>>
  /\ level > 0
  /\ level' = level - 1
  /\ UNCHANGED <<regs, pos, handles, signalled, pc, ret, crash>>

(* Mutant: the shutdown handle stays open. *)
StopDoneKeepsShutdown ==
  /\ pc = "stop"
  /\ level = 0
  /\ list[0] = <<>>
  /\ pc' = "run"
  /\ UNCHANGED <<regs, level, pos, handles, signalled, ret, crash>>

(* stopall returned: its caller closes g_shutdown_async, then goes back to,  *)
(* or on the fail path into, uv_run.                                         *)
StopDone ==
  /\ pc = "stop"
  /\ level = 0
  /\ list[0] = <<>>
  /\ shutdown' = "closing"
  /\ pc' = "run"
  /\ UNCHANGED <<regs, level, pos, async, timer, signalled, ret, crash>>

-----------------------------------------------------------------------------
MainStep == \/ Regcall \/ RegcallFails \/ RegcallsDone
            \/ (\E m \in Modules : StartModule(m) \/ StartModuleFails(m) \/ StartModuleRefused(m))
            \/ StartNextLevel \/ StartDone
            \/ ShutdownCallback \/ ClosingPass \/ RunEnds
            \/ (\E m \in Modules : StopModule(m) \/ StopModuleSkips(m) \/ StopModuleAborts(m))
            \/ StopNextLevel \/ StopDone

Terminated == pc \in {"exit", "aborted"} /\ UNCHANGED vars

(* In uv_run with nothing to do: uv__io_poll blocks until a signal. *)
Next == MainStep \/ Signal \/ Terminated

(* main runs whenever it is not blocked; nobody has to send a signal. *)
FairSpec == Init /\ [][Next]_vars /\ WF_vars(MainStep)
Spec == Init /\ [][Next]_vars

-----------------------------------------------------------------------------
TypeOK == /\ lvl \in [Modules -> Levels]
          /\ mops \subseteq Modules
          /\ list \in [Levels -> Seq(Modules)]
          /\ registered \in 0..NumModules
          /\ level \in 0..MaxLevel
          /\ pos \in Nat \ {0}
          /\ shutdown \in HandleStates
          /\ async \in [Modules -> HandleStates]
          /\ timer \in [Modules -> HandleStates]
          /\ signalled \in BOOLEAN
          /\ pc \in {"register", "start", "run", "stop", "exit", "aborted"}
          /\ ret \in {0, 1}
          /\ crash \in {"none", "null", "type", "closing"}

InRegistry(m) == \E l \in Levels : \E i \in DOMAIN list[l] : list[l][i] = m

(* Levels nest: while a module runs, every module of a lower level runs too, *)
(* in start-up, in shutdown and on the fail path.  A module can rely on what *)
(* the levels below it provide from its on_start to its on_stop.             *)
LevelsNest ==
  \A m, n \in Modules :
    async[m] = "active" /\ lvl[n] < lvl[m] => async[n] = "active"

(* In uv_run, the registry lists exactly the modules with an open handle, so *)
(* that stopall closes everything the loop waits for.                        *)
RegistryMatchesHandles ==
  pc = "run" => \A m \in Modules : /\ InRegistry(m) <=> Open(async[m])
                                   /\ Open(timer[m]) => InRegistry(m)

(* When main returns, also on the fail path, the registry is empty and no    *)
(* handle is left in the loop, so uv_loop_close does not answer UV_EBUSY;    *)
(* the status is 0 only if every module was started. An assertion of         *)
(* uv_close, or a null link, ends the program on the fail path only: without *)
(* a failure start and stop match.                                           *)
CleanExit ==
  /\ pc = "exit" => /\ \A m \in Modules : ~InRegistry(m)
                    /\ \A i \in DOMAIN AllHandles : AllHandles[i] \in {"zero", "closed"}
                    /\ ret = 0 => \A m \in Modules : async[m] = "closed"
  /\ pc = "aborted" => ret = 1

(* A signal ends the program, whenever it arrives. *)
SignalEndsProgram == signalled ~> pc \in {"exit", "aborted"}

(* core.c:160, assert(!uv__is_closing(handle)), never fails. *)
NeverClosedTwice == crash # "closing"

(* core.c:234, assert(0) for a handle of no known type, is never reached. *)
OnlyKnownHandlesClosed == crash # "type"
=============================================================================

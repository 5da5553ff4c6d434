--------------------- MODULE ModuleLifecycleProofs ---------------------
(* Proofs about ModuleLifecycle for any number of modules, any levels and   *)
(* any choice of the regcalls and on_starts that may fail.                  *)
EXTENDS ModuleLifecycle, SequenceTheorems, TLAPS

Listed(m) == \E i \in 1..Len(list[lvl[m]]) : list[lvl[m]][i] = m

(* A module is only in the list of its own level. *)
Placed == \A l \in Levels : \A i \in 1..Len(list[l]) : lvl[list[l][i]] = l

(* Modules are registered one after the other, and a running one is listed, *)
(* so that stopall will find it.                                            *)
RegisterInv == /\ Placed
               /\ \A m \in Modules : async[m] = "active" => Listed(m)
               /\ pc = "register" =>
                    \A m \in Modules : /\ async[m] # "active"
                                       /\ m <= registered => Listed(m)

(* startall has started the levels below and the nodes before its place, and *)
(* nothing above.                                                            *)
StartInv == pc = "start" =>
              /\ \A m \in Modules : Listed(m)
              /\ \A l \in Levels : \A i \in 1..Len(list[l]) :
                   l < level \/ (l = level /\ i < pos) => async[list[l][i]] = "active"
              /\ \A m \in Modules : async[m] = "active" => lvl[m] <= level

(* stopall has emptied the levels above. *)
StopInv == pc = "stop" => /\ level < MaxLevel
                          /\ \A l \in Levels : l > level => list[l] = <<>>

(* Nothing is opened for a module without operations. *)
OpsInv == \A m \in Modules : m \notin mops => async[m] = "zero" /\ timer[m] = "zero"

IInv == TypeOK /\ OpsInv /\ RegisterInv /\ StartInv /\ StopInv /\ LevelsNest

-----------------------------------------------------------------------------
LEMMA LifecycleInit == Init => IInv
<1> SUFFICES ASSUME Init PROVE IInv OBVIOUS
<1> USE LifecycleAssumption DEF Init
<1>1. TypeOK
  <2>1. list \in [Levels -> Seq(Modules)] OBVIOUS
  <2>2. /\ shutdown \in HandleStates
        /\ async \in [Modules -> HandleStates]
        /\ timer \in [Modules -> HandleStates]
    BY DEF HandleStates
  <2>3. /\ registered \in 0..NumModules
        /\ level \in 0..MaxLevel
        /\ pos \in Nat \ {0}
    BY DEF MaxLevel
  <2> QED BY <2>1, <2>2, <2>3 DEF TypeOK
<1>2. Placed BY DEF Placed
<1>3. RegisterInv BY <1>2 DEF RegisterInv, Modules
<1> QED BY <1>1, <1>3 DEF IInv, OpsInv, StartInv, StopInv, LevelsNest

LEMMA TypeOKNext == TypeOK /\ [Next]_vars => TypeOK'
<1> SUFFICES ASSUME TypeOK, [Next]_vars PROVE TypeOK' OBVIOUS
<1> USE LifecycleAssumption
    DEF TypeOK, HandleStates, MaxLevel, Levels, Modules, regs, handles
<1>1. CASE Regcall BY <1>1 DEF Regcall
<1>2. CASE RegcallFails BY <1>2 DEF RegcallFails, Fail
<1>3. CASE RegcallsDone BY <1>3 DEF RegcallsDone
<1>4. ASSUME NEW m \in Modules, StartModule(m) PROVE TypeOK'
  BY <1>4 DEF StartModule
<1>5. ASSUME NEW m \in Modules, StartModuleFails(m) PROVE TypeOK'
  BY <1>5 DEF StartModuleFails, Fail
<1>17. ASSUME NEW m \in Modules, StartModuleRefused(m) PROVE TypeOK'
  BY <1>17 DEF StartModuleRefused, Fail
<1>6. CASE StartNextLevel BY <1>6 DEF StartNextLevel
<1>7. CASE StartDone BY <1>7 DEF StartDone
<1>8. CASE Signal BY <1>8 DEF Signal
<1>9. CASE ShutdownCallback BY <1>9 DEF ShutdownCallback
<1>10. CASE ClosingPass BY <1>10 DEF ClosingPass, Finish
<1>11. CASE RunEnds BY <1>11 DEF RunEnds
<1>12. ASSUME NEW m \in Modules, StopModule(m) \/ StopModuleSkips(m) PROVE TypeOK'
  <2>0. StopLevels(m) /\ Delist BY <1>12 DEF StopModule, StopModuleSkips
  <2>1. level \in Levels => Tail(list[level]) \in Seq(Modules)
    BY <2>0, HeadTailProperties DEF StopLevels
  <2>2. list' \in [Levels -> Seq(Modules)] BY <2>0, <2>1 DEF Delist
  <2>3. async' \in [Modules -> HandleStates] /\ timer' \in [Modules -> HandleStates]
    BY <1>12 DEF StopModule, StopModuleSkips
  <2> QED BY <2>0, <2>2, <2>3 DEF Delist
<1>13. ASSUME NEW m \in Modules, StopModuleAborts(m) PROVE TypeOK'
  BY <1>13 DEF StopModuleAborts
<1>14. CASE StopNextLevel BY <1>14 DEF StopNextLevel
<1>15. CASE StopDone BY <1>15 DEF StopDone
<1>16. CASE UNCHANGED vars BY <1>16 DEF vars
<1> QED BY <1>1, <1>2, <1>3, <1>4, <1>5, <1>6, <1>7, <1>8, <1>9, <1>10, <1>11, <1>12,
           <1>13, <1>14, <1>15, <1>16, <1>17 DEF Next, MainStep, Terminated
-----------------------------------------------------------------------------
(* Taking a module off the head of its list leaves every other one listed.   *)
LEMMA HeadOff ==
  ASSUME TypeOK, StopInv, NEW x \in Modules, StopLevels(x), Delist
  PROVE  /\ level \in Levels
         /\ list' = [list EXCEPT ![level] = Tail(@)]
         /\ \A l \in Levels : \A i \in 1..Len(list'[l]) :
              \E j \in 1..Len(list[l]) : list'[l][i] = list[l][j]
         /\ \A m \in Modules : Listed(m) /\ m # x => Listed(m)'
<1> USE DEF TypeOK, Delist, StopLevels
<1>1. level \in Levels BY DEF StopInv, MaxLevel, Levels
<1>2. /\ Tail(list[level]) \in Seq(Modules)
      /\ Len(Tail(list[level])) = Len(list[level]) - 1
      /\ \A i \in 1..Len(Tail(list[level])) : Tail(list[level])[i] = list[level][i + 1]
      /\ Len(list[level]) \in Nat
  BY <1>1, HeadTailProperties
<1>3. ASSUME NEW l \in Levels, NEW i \in 1..Len(list'[l])
      PROVE  \E j \in 1..Len(list[l]) : list'[l][i] = list[l][j]
  <2>1. CASE l = level
    <3>1. i + 1 \in 1..Len(list[l]) /\ list'[l][i] = list[l][i + 1]
      BY <1>1, <1>2, <1>3, <2>1
    <3> QED BY <3>1
  <2>2. CASE l # level BY <1>1, <1>3, <2>2
  <2> QED BY <2>1, <2>2
<1>4. ASSUME NEW m \in Modules, Listed(m), m # x PROVE Listed(m)'
  <2>1. PICK i \in 1..Len(list[lvl[m]]) : list[lvl[m]][i] = m BY <1>4 DEF Listed
  <2>2. CASE lvl[m] = level
    <3>1. i # 1 BY <1>1, <1>4, <2>1, <2>2
    <3>2. i - 1 \in 1..Len(list'[level]) /\ list'[level][i - 1] = m
      BY <1>1, <1>2, <2>1, <2>2, <3>1
    <3> QED BY <2>2, <3>2 DEF Listed
  <2>3. CASE lvl[m] # level
    <3>1. list'[lvl[m]] = list[lvl[m]] /\ lvl' = lvl BY <1>1, <2>3
    <3> QED BY <2>1, <3>1 DEF Listed
  <2> QED BY <2>2, <2>3
<1> QED BY <1>1, <1>3, <1>4

LEMMA OpsInvNext == TypeOK /\ OpsInv /\ [Next]_vars => OpsInv'
<1> SUFFICES ASSUME TypeOK, OpsInv, [Next]_vars PROVE OpsInv' OBVIOUS
<1> USE DEF TypeOK, OpsInv, regs, handles
<1>1. CASE UNCHANGED <<mops, async, timer>> BY <1>1
<1>2. ASSUME NEW x \in Modules, \/ StartModule(x) \/ StartModuleFails(x) \/ StopModule(x)
      PROVE  OpsInv'
  <2>1. CASE StartModule(x) BY <2>1 DEF StartModule
  <2>2. CASE StartModuleFails(x) BY <2>2 DEF StartModuleFails, Fail
  <2>3. CASE StopModule(x) BY <2>3 DEF StopModule, Delist
  <2> QED BY <1>2, <2>1, <2>2, <2>3
<1>3. CASE ClosingPass BY <1>3 DEF ClosingPass, Finish
<1>4. ASSUME NEW x \in Modules,
             StartModuleRefused(x) \/ StopModuleSkips(x) \/ StopModuleAborts(x)
      PROVE  OpsInv'
  BY <1>1, <1>4 DEF StartModuleRefused, StopModuleSkips, StopModuleAborts, Delist, Fail
<1>5. CASE \/ Regcall \/ RegcallFails \/ RegcallsDone \/ StartNextLevel \/ StartDone
           \/ Signal \/ ShutdownCallback \/ RunEnds \/ StopNextLevel \/ StopDone
           \/ UNCHANGED vars
  BY <1>1, <1>5 DEF Regcall, RegcallFails, RegcallsDone, StartNextLevel, StartDone, Signal,
     ShutdownCallback, RunEnds, StopNextLevel, StopDone, Fail, vars
<1> QED BY <1>2, <1>3, <1>4, <1>5 DEF Next, MainStep, Terminated

LEMMA RegisterInvNext == IInv /\ [Next]_vars => RegisterInv'
<1> SUFFICES ASSUME IInv, [Next]_vars PROVE RegisterInv' OBVIOUS
<1>0. TypeOK /\ RegisterInv /\ StopInv /\ Placed BY DEF IInv, RegisterInv
<1> USE <1>0, LifecycleAssumption DEF TypeOK, RegisterInv, regs, handles
<1>1. CASE Regcall
  <2>0. PICK x \in Modules : x = registered + 1 BY <1>1 DEF Regcall, Modules
  <2> DEFINE k == lvl[x]
  <2>1. k \in Levels OBVIOUS
  <2>2. /\ list' = [list EXCEPT ![k] = Append(@, x)] /\ lvl' = lvl
        /\ UNCHANGED <<async, pc>> /\ registered' = x /\ pc = "register"
    BY <1>1, <2>0 DEF Regcall
  <2>3. /\ Len(Append(list[k], x)) = Len(list[k]) + 1
        /\ Len(list[k]) \in Nat
        /\ \A i \in 1..Len(list[k]) : Append(list[k], x)[i] = list[k][i]
        /\ Append(list[k], x)[Len(list[k]) + 1] = x
    BY <2>1, AppendProperties
  <2>4. \A l \in Levels : \A i \in 1..Len(list'[l]) :
           (i \in 1..Len(list[l]) /\ list'[l][i] = list[l][i]) \/ (l = k /\ list'[l][i] = x)
    BY <2>1, <2>2, <2>3
  <2>5. Placed' BY <2>1, <2>2, <2>4 DEF Placed
  <2>6. ASSUME NEW m \in Modules, Listed(m) PROVE Listed(m)'
    <3>1. PICK i \in 1..Len(list[lvl[m]]) : list[lvl[m]][i] = m BY <2>6 DEF Listed
    <3>2. i \in 1..Len(list'[lvl[m]]) /\ list'[lvl[m]][i] = m
      BY <2>1, <2>2, <2>3, <3>1
    <3> QED BY <2>2, <3>2 DEF Listed
  <2>7. Listed(x)'
    <3>1. Len(list[k]) + 1 \in 1..Len(list'[k]) /\ list'[k][Len(list[k]) + 1] = x
      BY <2>1, <2>2, <2>3
    <3> QED BY <2>2, <3>1 DEF Listed
  <2>8. \A m \in Modules : m <= x => m <= registered \/ m = x
    BY <2>0 DEF Modules
  <2> HIDE DEF k
  <2> QED BY <2>2, <2>5, <2>6, <2>7, <2>8
<1>2. ASSUME NEW x \in Modules, StopModule(x) \/ StopModuleSkips(x) PROVE RegisterInv'
  <2>0. StopLevels(x) /\ Delist BY <1>2 DEF StopModule, StopModuleSkips
  <2>1. Placed' BY <2>0, HeadOff DEF Placed, Delist
  <2>2. \A m \in Modules : async'[m] = "active" => async[m] = "active" /\ m # x
    <3>1. CASE StopModule(x) BY <3>1 DEF StopModule
    <3>2. CASE StopModuleSkips(x) BY <3>2 DEF StopModuleSkips, IInv, OpsInv
    <3> QED BY <1>2, <3>1, <3>2
  <2> QED BY <2>0, <2>1, <2>2, HeadOff DEF Delist, StopLevels
<1>3. ASSUME NEW x \in Modules, StartModule(x) PROVE RegisterInv'
  <2>1. UNCHANGED <<lvl, list>> /\ pc' = "start" BY <1>3 DEF StartModule, StartLevels
  <2>2. Listed(x)
    BY <1>3 DEF IInv, StartInv, StartModule, StartLevels
  <2>3. Placed' /\ \A m \in Modules : Listed(m)' <=> Listed(m)
    BY <2>1 DEF Placed, Listed
  <2> QED BY <1>3, <2>1, <2>2, <2>3 DEF StartModule
<1>4. CASE /\ UNCHANGED <<lvl, list, registered>>
           /\ \A m \in Modules : async'[m] = "active" => async[m] = "active"
           /\ pc' = "register" => pc = "register"
  BY <1>4 DEF Placed, Listed
<1>5. CASE \/ RegcallFails \/ RegcallsDone \/ StartNextLevel \/ StartDone \/ Signal
           \/ ShutdownCallback \/ ClosingPass \/ RunEnds \/ StopNextLevel \/ StopDone
  BY <1>4, <1>5 DEF RegcallFails, Fail, RegcallsDone, StartNextLevel, StartDone, Signal,
     ShutdownCallback, ClosingPass, Finish, RunEnds, StopNextLevel, StopDone
<1>6. ASSUME NEW x \in Modules,
             StartModuleFails(x) \/ StartModuleRefused(x) \/ StopModuleAborts(x)
      PROVE  RegisterInv'
  BY <1>4, <1>6 DEF StartModuleFails, StartModuleRefused, StopModuleAborts, Fail
<1>7. CASE UNCHANGED vars BY <1>4, <1>7 DEF vars
<1> QED BY <1>1, <1>2, <1>3, <1>5, <1>6, <1>7 DEF Next, MainStep, Terminated
-----------------------------------------------------------------------------
LEMMA StartInvNext == IInv /\ [Next]_vars => StartInv'
<1> SUFFICES ASSUME IInv, [Next]_vars, pc' = "start" PROVE StartInv' BY DEF StartInv
<1>0. TypeOK /\ RegisterInv /\ StartInv /\ Placed BY DEF IInv, RegisterInv
<1> USE <1>0, LifecycleAssumption DEF TypeOK, regs, handles, Levels, MaxLevel
<1>1. CASE RegcallsDone
  <2>1. \A m \in Modules : Listed(m) /\ async[m] # "active"
    BY <1>1 DEF RegcallsDone, RegisterInv, Modules
  <2>2. UNCHANGED <<lvl, list, async>> /\ level' = 0 /\ pos' = 1 BY <1>1 DEF RegcallsDone
  <2>3. \A m \in Modules : Listed(m)' BY <2>1, <2>2 DEF Listed
  <2> QED BY <2>1, <2>2, <2>3 DEF StartInv
<1>2. ASSUME NEW x \in Modules, StartModule(x) PROVE StartInv'
  <2>1. /\ UNCHANGED <<lvl, list, level>> /\ pos' = pos + 1 /\ level < MaxLevel
        /\ pc = "start" /\ async' = [async EXCEPT ![x] = "active"]
        /\ pos \in 1..Len(list[level]) /\ list[level][pos] = x
    BY <1>2 DEF StartModule, StartLevels
  <2>2. lvl[x] = level BY <2>1 DEF Placed
  <2>3. \A m \in Modules : Listed(m)' BY <2>1 DEF StartInv, Listed
  <2>4. ASSUME NEW l \in Levels, NEW i \in 1..Len(list[l]),
               l < level \/ (l = level /\ i < pos + 1)
        PROVE  async'[list[l][i]] = "active"
    <3>1. list[l][i] \in Modules OBVIOUS
    <3>2. CASE l < level \/ (l = level /\ i < pos) BY <2>1, <3>1, <3>2 DEF StartInv
    <3>3. CASE l = level /\ i = pos BY <2>1, <3>3
    <3> QED BY <2>4, <3>2, <3>3
  <2>5. \A m \in Modules : async'[m] = "active" => lvl[m] <= level
    BY <2>1, <2>2 DEF StartInv
  <2> QED BY <2>1, <2>3, <2>4, <2>5 DEF StartInv
<1>3. CASE StartNextLevel
  <2>1. /\ UNCHANGED <<lvl, list, async>> /\ level' = level + 1 /\ pos' = 1
        /\ pc = "start" /\ level < MaxLevel /\ pos > Len(list[level])
    BY <1>3 DEF StartNextLevel
  <2>2. \A m \in Modules : Listed(m)' BY <2>1 DEF StartInv, Listed
  <2>3. ASSUME NEW l \in Levels, NEW i \in 1..Len(list[l]),
               l < level + 1 \/ (l = level + 1 /\ i < 1)
        PROVE  async[list[l][i]] = "active"
    BY <2>1, <2>3 DEF StartInv
  <2>4. \A m \in Modules : async[m] = "active" => lvl[m] <= level + 1
    BY <2>1 DEF StartInv
  <2> QED BY <2>1, <2>2, <2>3, <2>4 DEF StartInv
<1>4. CASE Signal BY <1>4 DEF Signal, StartInv, Listed
<1>5. CASE UNCHANGED vars BY <1>5 DEF vars, StartInv, Listed
<1>6. pc' = pc \/ RegcallsDone
  BY DEF Next, MainStep, Terminated, Regcall, RegcallFails, Fail, StartModule,
     StartModuleFails, StartModuleRefused, StartNextLevel, StartDone, Signal,
     ShutdownCallback, ClosingPass, RunEnds, StopModule, StopModuleSkips, Delist,
     StopModuleAborts, StopNextLevel, StopDone, vars
<1>7. CASE pc = "start" /\ ~Signal /\ [Next]_vars
  BY <1>2, <1>3, <1>5, <1>7 DEF Next, MainStep, Terminated, Regcall, RegcallFails,
     RegcallsDone, Fail, StartModuleFails, StartModuleRefused, StartDone,
     ShutdownCallback, ClosingPass, RunEnds, StopModule, StopModuleSkips, StopLevels,
     StopModuleAborts, StopNextLevel, StopDone
<1> QED BY <1>1, <1>4, <1>6, <1>7

LEMMA StopInvNext == IInv /\ [Next]_vars => StopInv'
<1> SUFFICES ASSUME IInv, [Next]_vars, pc' = "stop" PROVE StopInv' BY DEF StopInv
<1>0. TypeOK /\ StopInv BY DEF IInv
<1> USE <1>0 DEF TypeOK, StopInv, regs, handles, Levels, MaxLevel
<1>1. CASE pc = "stop"
  <2>1. ASSUME NEW x \in Modules, StopModule(x) \/ StopModuleSkips(x) PROVE StopInv'
    <3>1. StopLevels(x) /\ Delist BY <2>1 DEF StopModule, StopModuleSkips
    <3> QED BY <3>1, HeadOff DEF StopLevels, Delist
  <2>2. CASE StopNextLevel BY <2>2 DEF StopNextLevel
  <2>3. CASE Signal BY <2>3 DEF Signal
  <2>4. CASE UNCHANGED vars BY <2>4 DEF vars
  <2> QED
    BY <1>1, <2>1, <2>2, <2>3, <2>4
    DEF Next, MainStep, Terminated, Regcall, RegcallFails, RegcallsDone, StartModule,
        StartModuleFails, StartModuleRefused, StartLevels, StartNextLevel, StartDone,
        ShutdownCallback, ClosingPass, RunEnds, StopModuleAborts, StopDone
<1>2. CASE pc # "stop"
  <2>1. level' = MaxLevel - 1
    BY <1>2 DEF Next, MainStep, Terminated, Regcall, RegcallFails, RegcallsDone, Fail,
       StartModule, StartModuleFails, StartModuleRefused, StartNextLevel, StartDone,
       Signal, ShutdownCallback, ClosingPass, RunEnds, StopModule, StopModuleSkips,
       StopLevels, StopModuleAborts, StopNextLevel, StopDone, vars
  <2> QED BY <2>1
<1> QED BY <1>1, <1>2

LEMMA LevelsNestNext == IInv /\ [Next]_vars => LevelsNest'
<1> SUFFICES ASSUME IInv, [Next]_vars,
                    NEW m \in Modules, NEW n \in Modules,
                    async'[m] = "active", lvl'[n] < lvl'[m]
             PROVE  async'[n] = "active"
  BY DEF LevelsNest
<1>0. TypeOK /\ RegisterInv /\ StartInv /\ StopInv /\ LevelsNest /\ Placed
  BY DEF IInv, RegisterInv
<1> USE <1>0 DEF TypeOK, LevelsNest, regs, handles, Levels, MaxLevel
<1>1. lvl' = lvl
  BY DEF Next, MainStep, Terminated, Regcall, RegcallFails, RegcallsDone, Fail, StartModule,
     StartModuleFails, StartModuleRefused, StartNextLevel, StartDone, Signal,
     ShutdownCallback, ClosingPass, RunEnds, StopModule, StopModuleSkips, Delist,
     StopModuleAborts, StopNextLevel, StopDone, vars
<1>2. ASSUME NEW x \in Modules, StartModule(x) PROVE async'[n] = "active"
  <2>1. CASE m = x
    <3>1. /\ pc = "start" /\ level < MaxLevel
          /\ pos \in 1..Len(list[level]) /\ list[level][pos] = x
      BY <1>2 DEF StartModule, StartLevels
    <3>2. lvl[n] < level BY <1>1, <2>1, <3>1 DEF Placed
    <3>3. PICK i \in 1..Len(list[lvl[n]]) : list[lvl[n]][i] = n
      BY <3>1 DEF StartInv, Listed
    <3>4. async[n] = "active" BY <3>1, <3>2, <3>3 DEF StartInv
    <3> QED BY <1>2, <3>4 DEF StartModule
  <2>2. CASE m # x BY <1>1, <1>2, <2>2 DEF StartModule
  <2> QED BY <2>1, <2>2
<1>3. ASSUME NEW x \in Modules, StartModuleFails(x) PROVE async'[n] = "active"
  <2>1. pc = "start" /\ async' = [async EXCEPT ![x] = "closing"]
        /\ pos \in 1..Len(list[level]) /\ list[level][pos] = x /\ level \in Levels
    BY <1>3 DEF StartModuleFails, StartLevels
  <2>2. async[m] = "active" /\ lvl[m] <= level BY <2>1 DEF StartInv
  <2>3. lvl[x] = level BY <2>1 DEF Placed
  <2>4. lvl[n] < lvl[m] /\ lvl[n] \in Levels /\ lvl[m] \in Levels BY <1>1
  <2>5. n # x BY <2>1, <2>2, <2>3, <2>4
  <2> QED BY <1>1, <2>1, <2>2, <2>5
<1>4. ASSUME NEW x \in Modules, StopModule(x) PROVE async'[n] = "active"
  <2>1. async[m] = "active" BY <1>4 DEF StopModule
  <2>2. PICK i \in 1..Len(list[lvl[m]]) : list[lvl[m]][i] = m
    BY <2>1 DEF RegisterInv, Listed
  <2>3. pc = "stop" /\ level \in Levels /\ Len(list[level]) \in Nat
        /\ list[level] # <<>> /\ list[level][1] = x
    BY <1>4 DEF StopModule, StopLevels, StopInv
  <2>4. lvl[m] <= level BY <2>2, <2>3 DEF StopInv
  <2>5. 1 \in 1..Len(list[level]) BY <2>3
  <2>6. lvl[x] = level BY <2>3, <2>5 DEF Placed
  <2>7. n # x BY <1>1, <2>4, <2>6
  <2> QED BY <1>1, <1>4, <2>1, <2>7 DEF StopModule
<1>5. CASE \A k \in Modules : async'[k] = "active" <=> async[k] = "active"
  BY <1>1, <1>5
<1>6. CASE \/ Regcall \/ RegcallFails \/ RegcallsDone \/ StartNextLevel \/ StartDone
           \/ Signal \/ ShutdownCallback \/ ClosingPass \/ RunEnds \/ StopNextLevel
           \/ StopDone \/ UNCHANGED vars
           \/ \E x \in Modules : \/ StartModuleRefused(x) \/ StopModuleSkips(x)
                                 \/ StopModuleAborts(x)
  BY <1>5, <1>6 DEF Regcall, RegcallFails, RegcallsDone, StartNextLevel, StartDone, Signal,
     ShutdownCallback, ClosingPass, Finish, RunEnds, StopNextLevel, StopDone,
     StartModuleRefused, Fail, StopModuleSkips, StopModuleAborts, vars
<1> QED BY <1>2, <1>3, <1>4, <1>6 DEF Next, MainStep, Terminated

LEMMA LifecycleInvariant == Spec => []IInv
<1>1. IInv /\ [Next]_vars => IInv'
  BY TypeOKNext, RegisterInvNext, StartInvNext, StopInvNext, LevelsNestNext,
     OpsInvNext DEF IInv
<1> QED BY <1>1, LifecycleInit, PTL DEF Spec

(* Every variable keeps its type; stopall's level never leaves 0..3. *)
THEOREM LifecycleType == Spec => []TypeOK
BY LifecycleInvariant, PTL DEF IInv

(* While a module runs, every module of a lower level runs, whatever fails. *)
THEOREM LevelsAlwaysNest == Spec => []LevelsNest
BY LifecycleInvariant, PTL DEF IInv

-----------------------------------------------------------------------------
(* The handles.  A module's timer is in the state of its async handle; only  *)
(* an on_start that fails leaves them apart, and its module is still listed. *)
Paired(m) == timer[m] = IF m \in HasTimer THEN async[m] ELSE "zero"

(* No module is listed twice: the regcalls list them one after the other. *)
Distinct == /\ \A l \in Levels : \A i, j \in 1..Len(list[l]) :
                 list[l][i] = list[l][j] => i = j
            /\ \A l \in Levels : \A i \in 1..Len(list[l]) : list[l][i] <= registered

(* Before startall has returned. *)
Setting == /\ shutdown = "active" /\ ret = 0
           /\ \A m \in Modules : Paired(m) /\ async[m] \in {"zero", "active"}

(* stopall: what has left its list is closed; on the way from a successful   *)
(* start, what has not is open.                                              *)
Stopping == /\ shutdown = "active"
            /\ \A m \in Modules :
                 /\ Listed(m) \/ (Paired(m) /\ async[m] # "active")
                 /\ ret = 0 => /\ Paired(m) /\ async[m] # "zero"
                               /\ Listed(m) => async[m] = "active"

(* uv_run, with all modules or with none. *)
Serving == /\ shutdown = "active" /\ ret = 0
           /\ \A m \in Modules : Listed(m) /\ Paired(m) /\ async[m] = "active"
Closing == /\ shutdown \in {"closing", "closed"}
           /\ \A l \in Levels : list[l] = <<>>
           /\ \A m \in Modules : /\ Paired(m) /\ async[m] # "active"
                                 /\ ret = 0 => async[m] # "zero"

HandleInv == /\ \A m \in Modules : /\ async[m] # "idle"
                                   /\ m \notin HasTimer => timer[m] = "zero"
             /\ pc \in {"register", "start"} => Setting
             /\ pc = "stop" => Stopping
             /\ pc = "run" => Serving \/ Closing
             /\ pc = "exit" => /\ Closing /\ shutdown = "closed"
                               /\ \A m \in Modules : async[m] # "closing"
             /\ pc = "aborted" => ret = 1

-----------------------------------------------------------------------------
(* The handles of the loop, one by one. *)
LEMMA HandlesAre ==
  ASSUME TypeOK
  PROVE  Range(AllHandles) = {shutdown} \cup {async[m] : m \in Modules}
                                        \cup {timer[m] : m \in Modules}
<1> DEFINE A == [m \in Modules |-> async[m]]
           T == [m \in Modules |-> timer[m]]
<1>1. A \in Seq(HandleStates) /\ T \in Seq(HandleStates)
  <2>1. A \in [1..NumModules -> HandleStates] /\ T \in [1..NumModules -> HandleStates]
    BY DEF TypeOK, Modules
  <2> QED BY <2>1, LifecycleAssumption
<1>2. /\ Range(A) = {async[m] : m \in Modules}
      /\ Range(T) = {timer[m] : m \in Modules}
  BY DEF Range
<1>3. <<shutdown>> \in Seq(HandleStates) /\ Range(<<shutdown>>) = {shutdown}
  BY DEF TypeOK, Range
<1>4. AllHandles = (<<shutdown>> \o A) \o T BY DEF AllHandles
<1> HIDE DEF A, T
<1>5. ASSUME NEW s \in Seq(HandleStates), NEW t \in Seq(HandleStates)
      PROVE  s \o t \in Seq(HandleStates) /\ Range(s \o t) = Range(s) \cup Range(t)
  <2>1. s \o t \in Seq(HandleStates) OBVIOUS
  <2>2. Range(s \o t) = Range(s) \cup Range(t) BY RangeConcatenation
  <2> QED BY <2>1, <2>2
<1>6. /\ <<shutdown>> \o A \in Seq(HandleStates)
      /\ Range(<<shutdown>> \o A) = Range(<<shutdown>>) \cup Range(A)
  BY <1>1, <1>3, <1>5, Zenon
<1>7. Range((<<shutdown>> \o A) \o T) = Range(<<shutdown>> \o A) \cup Range(T)
  BY <1>1, <1>5, <1>6, Zenon
<1> QED BY <1>2, <1>3, <1>4, <1>6, <1>7

LEMMA SomeHandleIs ==
  ASSUME TypeOK, NEW s
  PROVE  SomeHandle(s) <=> \/ shutdown = s
                           \/ \E m \in Modules : async[m] = s \/ timer[m] = s
<1>1. SomeHandle(s) <=> s \in Range(AllHandles) BY DEF SomeHandle, Range
<1> QED BY <1>1, HandlesAre

LEMMA DistinctInit == Init => Distinct
BY LifecycleAssumption DEF Init, Distinct

LEMMA DistinctNext == IInv /\ Distinct /\ [Next]_vars => Distinct'
<1> SUFFICES ASSUME IInv, Distinct, [Next]_vars PROVE Distinct' OBVIOUS
<1>0. TypeOK /\ StopInv BY DEF IInv
<1> USE <1>0, LifecycleAssumption DEF TypeOK, regs, handles
<1>1. CASE Regcall
  <2>0. PICK x \in Modules : x = registered + 1 BY <1>1 DEF Regcall, Modules
  <2> DEFINE k == lvl[x]
  <2>1. k \in Levels OBVIOUS
  <2>2. list' = [list EXCEPT ![k] = Append(@, x)] /\ registered' = x
    BY <1>1, <2>0 DEF Regcall
  <2>3. /\ Len(Append(list[k], x)) = Len(list[k]) + 1
        /\ Len(list[k]) \in Nat
        /\ \A i \in 1..Len(list[k]) : Append(list[k], x)[i] = list[k][i]
        /\ Append(list[k], x)[Len(list[k]) + 1] = x
    BY <2>1, AppendProperties
  <2>4. ASSUME NEW l \in Levels, NEW i \in 1..Len(list'[l])
        PROVE  \/ i \in 1..Len(list[l]) /\ list'[l][i] = list[l][i]
                                        /\ list'[l][i] < x
               \/ l = k /\ i = Len(list[k]) + 1 /\ list'[l][i] = x
    <3>1. \/ i \in 1..Len(list[l]) /\ list'[l][i] = list[l][i]
          \/ l = k /\ i = Len(list[k]) + 1 /\ list'[l][i] = x
      BY <2>1, <2>2, <2>3
    <3>2. i \in 1..Len(list[l]) => list[l][i] <= registered /\ list[l][i] \in Modules
      BY DEF Distinct
    <3> HIDE DEF k
    <3> QED BY <2>0, <3>1, <3>2 DEF Modules
  <2>5. ASSUME NEW l \in Levels, NEW i \in 1..Len(list'[l]) PROVE list'[l][i] <= registered'
    <3> HIDE DEF k
    <3> QED BY <2>0, <2>2, <2>4 DEF Modules
  <2>6. ASSUME NEW l \in Levels, NEW i \in 1..Len(list'[l]), NEW j \in 1..Len(list'[l]),
               list'[l][i] = list'[l][j]
        PROVE  i = j
    <3> HIDE DEF k
    <3>1. CASE list'[l][i] = x
      <4>1. x \in Int /\ ~(x < x) BY DEF Modules
      <4>2. i = Len(list[k]) + 1 BY <2>4, <3>1, <4>1
      <4>3. j = Len(list[k]) + 1 BY <2>4, <2>6, <3>1, <4>1
      <4> QED BY <4>2, <4>3
    <3>2. CASE list'[l][i] # x
      <4>1. i \in 1..Len(list[l]) /\ list'[l][i] = list[l][i] BY <2>4, <3>2
      <4>2. j \in 1..Len(list[l]) /\ list'[l][j] = list[l][j] BY <2>4, <2>6, <3>2
      <4> QED BY <2>6, <4>1, <4>2 DEF Distinct
    <3> QED BY <3>1, <3>2
  <2> QED BY <2>5, <2>6 DEF Distinct
<1>2. ASSUME NEW x \in Modules, StopModule(x) \/ StopModuleSkips(x) PROVE Distinct'
  <2>0. StopLevels(x) /\ Delist BY <1>2 DEF StopModule, StopModuleSkips
  <2>1. level \in Levels /\ list' = [list EXCEPT ![level] = Tail(@)]
        /\ registered' = registered /\ list[level] # <<>>
    BY <2>0, HeadOff DEF Delist, StopLevels
  <2>2. /\ Len(Tail(list[level])) = Len(list[level]) - 1
        /\ \A i \in 1..Len(Tail(list[level])) : Tail(list[level])[i] = list[level][i + 1]
        /\ Len(list[level]) \in Nat
    BY <2>1, HeadTailProperties
  <2>3. ASSUME NEW l \in Levels, NEW i \in 1..Len(list'[l]), NEW j \in 1..Len(list'[l]),
               list'[l][i] = list'[l][j]
        PROVE  i = j
    <3>1. CASE l = level
      <4>1. /\ i + 1 \in 1..Len(list[l]) /\ list'[l][i] = list[l][i + 1]
            /\ j + 1 \in 1..Len(list[l]) /\ list'[l][j] = list[l][j + 1]
        BY <2>1, <2>2, <3>1
      <4>2. i + 1 = j + 1 BY <2>3, <4>1 DEF Distinct
      <4> QED BY <4>2
    <3>2. CASE l # level BY <2>1, <2>3, <3>2 DEF Distinct
    <3> QED BY <3>1, <3>2
  <2>4. \A l \in Levels : \A i \in 1..Len(list'[l]) : list'[l][i] <= registered'
    BY <2>0, <2>1, HeadOff DEF Distinct
  <2> QED BY <2>3, <2>4 DEF Distinct
<1>3. CASE UNCHANGED <<list, registered>> BY <1>3 DEF Distinct
<1>4. CASE \/ RegcallFails \/ RegcallsDone \/ StartNextLevel \/ StartDone \/ Signal
           \/ ShutdownCallback \/ ClosingPass \/ RunEnds \/ StopNextLevel \/ StopDone
           \/ UNCHANGED vars
  BY <1>3, <1>4 DEF RegcallFails, RegcallsDone, StartNextLevel, StartDone, Signal,
     ShutdownCallback, ClosingPass, RunEnds, StopNextLevel, StopDone, vars
<1>5. ASSUME NEW x \in Modules,
             \/ StartModule(x) \/ StartModuleFails(x) \/ StartModuleRefused(x)
             \/ StopModuleAborts(x)
      PROVE  Distinct'
  BY <1>3, <1>5 DEF StartModule, StartModuleFails, StartModuleRefused, StopModuleAborts
<1> QED BY <1>1, <1>2, <1>4, <1>5 DEF Next, MainStep, Terminated

LEMMA HandleInvInit == Init => HandleInv
BY DEF Init, HandleInv, Setting, Paired

(* Off its list, a module is in no list: it was listed once. *)
LEMMA HeadGone ==
  ASSUME TypeOK, StopInv, Placed, Distinct, NEW x \in Modules, StopLevels(x), Delist
  PROVE  /\ ~Listed(x)'
         /\ \A m \in Modules : Listed(m)' => Listed(m)
<1> USE DEF TypeOK, Delist, StopLevels
<1>1. /\ level \in Levels /\ list' = [list EXCEPT ![level] = Tail(@)] /\ lvl' = lvl
      /\ list[level] # <<>> /\ x = Head(list[level])
  BY HeadOff
<1>2. /\ Len(Tail(list[level])) = Len(list[level]) - 1
      /\ \A i \in 1..Len(Tail(list[level])) : Tail(list[level])[i] = list[level][i + 1]
      /\ Len(list[level]) \in Nat /\ Len(list[level]) # 0
      /\ x = list[level][1]
  BY <1>1, HeadTailProperties, EmptySeq
<1>3. lvl[x] = level BY <1>1, <1>2 DEF Placed
<1>4. ASSUME Listed(x)' PROVE FALSE
  <2>1. PICK i \in 1..Len(list'[level]) : list'[level][i] = x BY <1>1, <1>3, <1>4 DEF Listed
  <2>2. i + 1 \in 1..Len(list[level]) /\ list[level][i + 1] = x /\ 1 \in 1..Len(list[level])
    BY <1>1, <1>2, <2>1
  <2>3. i + 1 = 1 BY <1>1, <1>2, <2>2 DEF Distinct
  <2> QED BY <2>1, <2>3
<1>5. ASSUME NEW m \in Modules, Listed(m)' PROVE Listed(m)
  <2>1. PICK i \in 1..Len(list'[lvl[m]]) : list'[lvl[m]][i] = m BY <1>1, <1>5 DEF Listed
  <2>2. \E j \in 1..Len(list[lvl[m]]) : list'[lvl[m]][i] = list[lvl[m]][j]
    BY <2>1, HeadOff
  <2> QED BY <2>1, <2>2 DEF Listed
<1> QED BY <1>4, <1>5

LEMMA HandleInvNext == IInv /\ Distinct /\ HandleInv /\ [Next]_vars => HandleInv'
<1> SUFFICES ASSUME IInv, Distinct, HandleInv, [Next]_vars PROVE HandleInv' OBVIOUS
<1>0. TypeOK /\ OpsInv /\ RegisterInv /\ StartInv /\ StopInv /\ Placed BY DEF IInv, RegisterInv
<1> USE <1>0, LifecycleAssumption DEF TypeOK, regs, handles
<1>1. CASE Regcall
  <2>1. /\ UNCHANGED <<shutdown, async, timer, pc, ret, crash>> /\ pc = "register"
    BY <1>1 DEF Regcall
  <2> QED BY <2>1 DEF HandleInv, Setting, Paired
<1>2. CASE RegcallFails
  <2>1. /\ UNCHANGED <<shutdown, async, timer, crash, lvl, list>>
        /\ pc = "register" /\ pc' = "stop" /\ ret' = 1
    BY <1>2 DEF RegcallFails, Fail
  <2>2. \A m \in Modules : Paired(m)' /\ async'[m] # "active" /\ shutdown' = "active"
    BY <2>1 DEF RegisterInv, HandleInv, Setting, Paired
  <2>3. shutdown' = "active" BY <2>1 DEF HandleInv, Setting
  <2> QED BY <2>1, <2>2, <2>3 DEF HandleInv, Stopping
<1>3. CASE RegcallsDone
  BY <1>3 DEF RegcallsDone, HandleInv, Setting, Paired
<1>4. ASSUME NEW x \in Modules, StartModule(x) PROVE HandleInv'
  <2>1. /\ pc = "start" /\ UNCHANGED <<shutdown, pc, ret, crash>>
        /\ async' = [async EXCEPT ![x] = "active"]
        /\ timer' = IF x \in HasTimer THEN [timer EXCEPT ![x] = "active"] ELSE timer
    BY <1>4 DEF StartModule, StartLevels
  <2>2. ASSUME NEW m \in Modules
        PROVE  /\ Paired(m)' /\ async'[m] \in {"zero", "active"}
               /\ m \notin HasTimer => timer'[m] = "zero"
    BY <2>1 DEF HandleInv, Setting, Paired
  <2> QED BY <2>1, <2>2 DEF HandleInv, Setting
<1>5. ASSUME NEW x \in Modules, StartModuleFails(x) PROVE HandleInv'
  <2>1. /\ pc = "start" /\ pc' = "stop" /\ ret' = 1
        /\ UNCHANGED <<shutdown, crash, lvl, list>>
        /\ async' = [async EXCEPT ![x] = "closing"]
        /\ timer' = IF x \in HasTimer THEN [timer EXCEPT ![x] = "idle"] ELSE timer
    BY <1>5 DEF StartModuleFails, StartLevels, Fail
  <2>2. \A m \in Modules : Listed(m)' BY <2>1 DEF StartInv, Listed
  <2>3. \A m \in Modules : /\ async'[m] # "idle"
                           /\ m \notin HasTimer => timer'[m] = "zero"
    BY <2>1 DEF HandleInv
  <2>4. shutdown' = "active" BY <2>1 DEF HandleInv, Setting
  <2> QED BY <2>1, <2>2, <2>3, <2>4 DEF HandleInv, Stopping
<1>17. ASSUME NEW x \in Modules, StartModuleRefused(x) PROVE HandleInv'
  <2>1. /\ pc = "start" /\ pc' = "stop" /\ ret' = 1
        /\ UNCHANGED <<shutdown, async, timer, crash, lvl, list>>
    BY <1>17 DEF StartModuleRefused, StartLevels, Fail
  <2>2. \A m \in Modules : Listed(m)' BY <2>1 DEF StartInv, Listed
  <2>3. shutdown' = "active" BY <2>1 DEF HandleInv, Setting
  <2> QED BY <2>1, <2>2, <2>3 DEF HandleInv, Stopping
<1>6. CASE StartNextLevel
  BY <1>6 DEF StartNextLevel, HandleInv, Setting, Paired
<1>7. CASE StartDone
  <2>1. /\ pc = "start" /\ level = MaxLevel /\ pc' = "run"
        /\ UNCHANGED <<shutdown, async, timer, ret, crash, lvl, list>>
    BY <1>7 DEF StartDone
  <2>2. ASSUME NEW m \in Modules PROVE Listed(m)' /\ async[m] = "active"
    <3>1. PICK i \in 1..Len(list[lvl[m]]) : list[lvl[m]][i] = m
      BY <2>1 DEF StartInv, Listed
    <3>2. lvl[m] < level /\ lvl[m] \in Levels BY <2>1 DEF Levels, MaxLevel
    <3>3. async[m] = "active" BY <2>1, <3>1, <3>2 DEF StartInv
    <3>4. Listed(m)' BY <2>1, <3>1 DEF Listed
    <3> QED BY <3>3, <3>4
  <2>3. Serving' BY <2>1, <2>2 DEF HandleInv, Setting, Serving, Paired
  <2> QED BY <2>1, <2>3 DEF HandleInv
<1>8. CASE Signal
  BY <1>8 DEF Signal, HandleInv, Setting, Stopping, Serving, Closing, Paired, Listed
<1>9. CASE ShutdownCallback
  <2>1. /\ pc = "run" /\ pc' = "stop" /\ shutdown = "active"
        /\ UNCHANGED <<shutdown, async, timer, ret, crash, lvl, list>>
    BY <1>9 DEF ShutdownCallback
  <2>2. Serving BY <2>1 DEF HandleInv, Closing
  <2>3. Stopping' BY <2>1, <2>2 DEF Serving, Stopping, Paired, Listed
  <2> QED BY <2>1, <2>3 DEF HandleInv
<1>10. CASE ClosingPass
  <2>1. /\ pc = "run" /\ UNCHANGED <<pc, ret, crash, lvl, list>>
        /\ shutdown' = Finish(shutdown)
        /\ \A m \in Modules : async'[m] = Finish(async[m]) /\ timer'[m] = Finish(timer[m])
    BY <1>10 DEF ClosingPass
  <2>2. \A m \in Modules : /\ async'[m] # "idle"
                           /\ m \notin HasTimer => timer'[m] = "zero"
                           /\ Paired(m) => Paired(m)'
    BY <2>1 DEF HandleInv, Finish, Paired
  <2>3. CASE Serving
    <3>1. Serving' BY <2>1, <2>2, <2>3 DEF Serving, Finish, Listed
    <3> QED BY <2>1, <2>2, <3>1 DEF HandleInv
  <2>4. CASE Closing
    <3>1. Closing' BY <2>1, <2>2, <2>4 DEF Closing, Finish
    <3> QED BY <2>1, <2>2, <3>1 DEF HandleInv
  <2> QED BY <2>1, <2>3, <2>4 DEF HandleInv
<1>11. CASE RunEnds
  <2>1. /\ pc = "run" /\ pc' = "exit" /\ ~SomeHandle("active") /\ ~SomeHandle("closing")
        /\ UNCHANGED <<shutdown, async, timer, ret, crash, lvl, list>>
    BY <1>11 DEF RunEnds
  <2>2. /\ shutdown \notin {"active", "closing"}
        /\ \A m \in Modules : async[m] # "closing"
    BY <2>1, SomeHandleIs
  <2>3. Closing BY <2>1, <2>2 DEF HandleInv, Serving
  <2>4. Closing' BY <2>1, <2>3 DEF Closing, Paired
  <2> QED BY <2>1, <2>2, <2>3, <2>4 DEF HandleInv, Closing
<1>12. ASSUME NEW x \in Modules, StopModule(x) PROVE HandleInv'
  <2>1. /\ pc = "stop" /\ UNCHANGED <<lvl, shutdown, pc, ret, crash>>
        /\ async' = [async EXCEPT ![x] = "closing"]
        /\ timer' = IF x \in HasTimer THEN [timer EXCEPT ![x] = "closing"] ELSE timer
    BY <1>12 DEF StopModule, StopLevels, Delist
  <2>0. StopLevels(x) /\ Delist BY <1>12 DEF StopModule
  <2>2. \A m \in Modules : /\ async'[m] # "idle"
                           /\ m \notin HasTimer => timer'[m] = "zero"
    BY <2>1 DEF HandleInv
  <2>3. /\ ~Listed(x)' /\ Paired(x)' /\ async'[x] = "closing"
    BY <2>0, <2>1, HeadGone DEF Paired, HandleInv
  <2>4. ASSUME NEW m \in Modules, m # x
        PROVE  /\ async'[m] = async[m] /\ (Paired(m)' <=> Paired(m))
               /\ Listed(m)' <=> Listed(m)
    <3>1. async'[m] = async[m] /\ timer'[m] = timer[m] BY <2>1, <2>4
    <3>2. Listed(m)' <=> Listed(m) BY <2>0, <2>4, HeadOff, HeadGone
    <3> QED BY <3>1, <3>2 DEF Paired
  <2>5. Stopping BY <2>1 DEF HandleInv
  <2>6. Stopping' BY <2>1, <2>3, <2>4, <2>5 DEF Stopping
  <2> QED BY <2>1, <2>2, <2>6 DEF HandleInv
<1>18. ASSUME NEW x \in Modules, StopModuleSkips(x) PROVE HandleInv'
  <2>0. StopLevels(x) /\ Delist BY <1>18 DEF StopModuleSkips
  <2>1. /\ pc = "stop" /\ UNCHANGED <<lvl, shutdown, async, timer, pc, ret, crash>>
        /\ level \in Levels /\ list[level] # <<>> /\ x = Head(list[level])
    BY <1>18, HeadOff DEF StopModuleSkips, StopLevels, Delist
  <2>2. Listed(x)
    <3>1. 1 \in 1..Len(list[level]) /\ list[level][1] = x BY <2>1, EmptySeq
    <3> QED BY <2>1, <3>1 DEF Placed, Listed
  <2>3. async[x] = "zero" /\ timer[x] = "zero" BY <1>18 DEF StopModuleSkips, OpsInv
  <2>4. ~Listed(x)' /\ Paired(x)' BY <2>0, <2>1, <2>3, HeadGone DEF Paired
  <2>5. \A m \in Modules : m # x => /\ Paired(m)' <=> Paired(m)
                                    /\ Listed(m)' <=> Listed(m)
    BY <2>0, <2>1, HeadOff, HeadGone DEF Paired
  <2>6. ret # 0 /\ Stopping BY <2>1, <2>2, <2>3 DEF HandleInv, Stopping
  <2>7. Stopping' BY <2>1, <2>3, <2>4, <2>5, <2>6 DEF Stopping
  <2> QED BY <2>1, <2>7 DEF HandleInv
<1>13. ASSUME NEW x \in Modules, StopModuleAborts(x) PROVE HandleInv'
  <2>1. /\ pc = "stop" /\ pc' = "aborted" /\ UNCHANGED <<async, timer, ret>>
        /\ level \in Levels /\ list[level] # <<>> /\ x = Head(list[level])
    BY <1>13 DEF StopModuleAborts, StopLevels, StopInv, MaxLevel, Levels
  <2>2. Listed(x)
    <3>1. 1 \in 1..Len(list[level]) /\ list[level][1] = x BY <2>1, EmptySeq
    <3> QED BY <2>1, <3>1 DEF Placed, Listed
  <2>3. ASSUME ret = 0 PROVE FALSE
    <3>1. async[x] = "active" /\ Paired(x)
      BY <2>1, <2>2, <2>3 DEF HandleInv, Stopping
    <3> QED BY <1>13, <3>1 DEF StopModuleAborts, Paired
  <2>4. ret = 1 BY <2>3
  <2> QED BY <2>1, <2>4 DEF HandleInv
<1>14. CASE StopNextLevel
  BY <1>14 DEF StopNextLevel, HandleInv, Stopping, Paired, Listed
<1>15. CASE StopDone
  <2>1. /\ pc = "stop" /\ pc' = "run" /\ shutdown' = "closing" /\ level = 0 /\ list[0] = <<>>
        /\ UNCHANGED <<async, timer, ret, crash, lvl, list>>
    BY <1>15 DEF StopDone
  <2>2. \A l \in Levels : list[l] = <<>> BY <2>1 DEF StopInv, Levels
  <2>3. \A m \in Modules : ~Listed(m) BY <2>2 DEF Listed
  <2>4. Closing' BY <2>1, <2>2, <2>3 DEF HandleInv, Stopping, Closing, Paired
  <2> QED BY <2>1, <2>4 DEF HandleInv
<1>16. CASE UNCHANGED vars
  BY <1>16 DEF vars, HandleInv, Setting, Stopping, Serving, Closing, Paired, Listed
<1> QED BY <1>1, <1>2, <1>3, <1>4, <1>5, <1>6, <1>7, <1>8, <1>9, <1>10, <1>11, <1>12,
           <1>13, <1>14, <1>15, <1>16, <1>17, <1>18 DEF Next, MainStep, Terminated

LEMMA HandlesInvariant == Spec => [](IInv /\ HandleInv)
<1>1. Init => IInv /\ Distinct /\ HandleInv
  BY LifecycleInit, DistinctInit, HandleInvInit
<1>2. IInv /\ Distinct /\ HandleInv /\ [Next]_vars => (IInv /\ Distinct /\ HandleInv)'
  BY TypeOKNext, RegisterInvNext, StartInvNext, StopInvNext, LevelsNestNext,
     OpsInvNext, DistinctNext, HandleInvNext DEF IInv
<1> QED BY <1>1, <1>2, PTL DEF Spec

-----------------------------------------------------------------------------
(* In uv_run the registry lists exactly the modules with an open handle:     *)
(* what the loop waits for is what stopall will close.                       *)
THEOREM RegistryAlwaysMatches == Spec => []RegistryMatchesHandles
<1>1. ASSUME IInv, HandleInv PROVE RegistryMatchesHandles
  <2> SUFFICES ASSUME pc = "run", NEW m \in Modules
               PROVE  /\ InRegistry(m) <=> Open(async[m])
                      /\ Open(timer[m]) => InRegistry(m)
    BY DEF RegistryMatchesHandles
  <2> USE <1>1 DEF IInv, TypeOK, HandleInv, Open
  <2>1. CASE Serving
    <3>1. InRegistry(m) BY <2>1 DEF Serving, Listed, InRegistry
    <3> QED BY <2>1, <3>1 DEF Serving
  <2>2. CASE Closing
    <3>1. ~InRegistry(m) BY <2>2 DEF Closing, InRegistry
    <3> QED BY <2>2, <3>1 DEF Closing, Paired
  <2> QED BY <2>1, <2>2
<1> QED BY <1>1, HandlesInvariant, PTL

(* When main returns no module is listed and no handle is left in the loop,  *)
(* and its status is 0 only if every module was started and stopped; an      *)
(* abort is on the fail path.                                                *)
THEOREM ExitIsClean == Spec => []CleanExit
<1>1. ASSUME IInv, HandleInv PROVE CleanExit
  <2> SUFFICES ASSUME pc = "exit"
               PROVE  /\ \A m \in Modules : ~InRegistry(m)
                      /\ \A i \in DOMAIN AllHandles : AllHandles[i] \in {"zero", "closed"}
                      /\ ret = 0 => \A m \in Modules : async[m] = "closed"
    BY <1>1 DEF CleanExit, HandleInv
  <2>0. TypeOK /\ Closing /\ shutdown = "closed" BY <1>1 DEF IInv, HandleInv
  <2>1. \A m \in Modules : async[m] \in {"zero", "closed"} /\ timer[m] \in {"zero", "closed"}
    BY <1>1, <2>0 DEF HandleInv, Closing, Paired, TypeOK, HandleStates
  <2>2. \A m \in Modules : ~InRegistry(m) BY <2>0 DEF Closing, InRegistry
  <2>3. Range(AllHandles) \subseteq {"zero", "closed"} BY <2>0, <2>1, HandlesAre
  <2>4. ret = 0 => \A m \in Modules : async[m] = "closed" BY <2>0, <2>1 DEF Closing
  <2> QED BY <2>2, <2>3, <2>4 DEF Range
<1> QED BY <1>1, HandlesInvariant, PTL

(* Every module has its operations, no regcall and no on_start ever fails. *)
Unfailing == MayLackOps = {} /\ MayFailReg = {} /\ MayFailStart = {}

(* Without a failure the fail path is not taken and no handle is stopped or  *)
(* closed that start-up did not open: the program never aborts.              *)
THEOREM NoFailureNoAbort == Spec => [](Unfailing => ret = 0 /\ pc # "aborted")
<1> DEFINE Sound == Unfailing => ret = 0 /\ mops = Modules
<1>1. Init => Sound BY DEF Init, Unfailing
<1>2. Sound /\ [Next]_vars => Sound'
  BY DEF Unfailing, Next, MainStep, Terminated, Regcall, RegcallFails, RegcallsDone,
     StartModule, StartModuleFails, StartModuleRefused, StartNextLevel, StartDone, Signal,
     ShutdownCallback, ClosingPass, RunEnds, StopModule, StopModuleSkips, Delist,
     StopModuleAborts, StopNextLevel, StopDone, vars, regs
<1>3. HandleInv /\ Sound => (Unfailing => ret = 0 /\ pc # "aborted") BY DEF HandleInv
<1> HIDE DEF Sound
<1> QED BY <1>1, <1>2, <1>3, HandlesInvariant, PTL DEF Spec
=============================================================================

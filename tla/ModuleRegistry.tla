------------------------- MODULE ModuleRegistry -------------------------
(* The registry (module_registry.c) on the intrusive rings of datastructure.h: *)
(* one ring per level, whose sentinel stands for the level, and the list node  *)
(* of a module stands for the module.  startall and stopall walk the rings and *)
(* call on_start and on_stop, which call the registry themselves:              *)
(*  - on_start may register a module that is in no ring, at this level or a    *)
(*    higher one, and take out another module, that was not started;           *)
(*  - on_stop may take out modules that do not run, itself included.           *)
(* The registry checks none of this; what breaks otherwise is in the README.   *)
EXTENDS Integers, FiniteSets, Sequences, SequencesExt

CONSTANTS Modules,
          MaxLevel,      \* MAX_LEVEL
          Twins,         \* modules of the same name; the other names are different
          Null           \* a null pointer

Levels == 0..MaxLevel - 1
Nodes == Levels \cup Modules

ASSUME RegistryAssumption == /\ IsFiniteSet(Modules)
                             /\ MaxLevel \in Nat \ {0}
                             /\ Twins \subseteq Modules
                             /\ Null \notin Nodes /\ Modules \cap Int = {}

VARIABLES next, prev,    \* armd_list_t of every node
          initialized,   \* registry_initialized
          running,       \* modules between armd_module_start and armd_module_stop
          phase,         \* where main is
          level, node,   \* startall and stopall: the level, the node
          found          \* what the last armd_module_find returned

rings == <<next, prev>>
walk == <<phase, level, node>>
vars == <<rings, initialized, running, walk, found>>

(* Everything is static, thus zero. *)
Init == /\ next = [n \in Nodes |-> Null]
        /\ prev = [n \in Nodes |-> Null]
        /\ initialized = FALSE
        /\ running = {}
        /\ phase = "register" /\ level = 0 /\ node = Null
        /\ found = Null

-----------------------------------------------------------------------------
(* armd_list_insert, before the sentinel, of a node armd_list_init has made.  *)
(* Mutant: behind the sentinel.                                               *)
ListInsertHead(s, n) ==
  /\ next' = [next EXCEPT ![s] = n, ![n] = next[s]]
  /\ prev' = [prev EXCEPT ![next[s]] = n, ![n] = s]
ListInsert(s, n) ==
  /\ next' = [next EXCEPT ![prev[s]] = n, ![n] = s]
  /\ prev' = [prev EXCEPT ![s] = n, ![n] = prev[s]]

(* armd_list_delete; a node in no ring may be deleted again. The mutant leaves *)
(* the node's own links.                                                       *)
ListDeleteKeeps(n) ==
  /\ next' = [next EXCEPT ![prev[n]] = next[n]]
  /\ prev' = [prev EXCEPT ![next[n]] = prev[n]]
ListDelete(n) ==
  /\ next' = [next EXCEPT ![prev[n]] = next[n], ![n] = n]
  /\ prev' = [prev EXCEPT ![next[n]] = prev[n], ![n] = n]

Detached(n) == next[n] \in {Null, n}

RegistryInit ==
  /\ phase = "register"
  /\ ~initialized
  /\ next' = [n \in Nodes |-> IF n \in Levels THEN n ELSE next[n]]
  /\ prev' = [n \in Nodes |-> IF n \in Levels THEN n ELSE prev[n]]
  /\ initialized' = TRUE
  /\ UNCHANGED <<running, walk, found>>

(* armd_module_register; before registry_init it does nothing. *)
MayRegister(m, l) == \/ phase = "register"
                     \/ phase = "on_start" /\ l >= level /\ m \notin running

Register(m, l) ==
  /\ MayRegister(m, l)
  /\ Detached(m)
  /\ initialized
  /\ ListInsert(l, m)
  /\ UNCHANGED <<initialized, running, walk, found>>

(* armd_module_unregister of a module that has been registered. Mutant: of    *)
(* any module, that whose on_start runs included.                             *)
MayUnregisterAny(m) == phase \in {"register", "on_start", "on_stop"}

MayUnregister(m) == \/ phase = "register"
                    \/ phase = "on_start" /\ m \notin running
                    \/ phase = "on_stop" /\ m \notin running

Unregister(m) ==
  /\ MayUnregister(m)
  /\ next[m] # Null
  /\ initialized
  /\ ListDelete(m)
  /\ UNCHANGED <<initialized, running, walk, found>>

(* The modules of a ring as a walk along its links meets them: s is the walk  *)
(* from the sentinel l back to it.                                            *)
Walks == UNION {[1..n -> Modules] : n \in 0..Cardinality(Modules)}
NodeAt(l, s, i) == IF i \in DOMAIN s THEN s[i] ELSE l
IsRing(link, l, s) == \A i \in 0..Len(s) : link[NodeAt(l, s, i)] = NodeAt(l, s, i + 1)

RingOf(link, l) == IF \E s \in Walks : IsRing(link, l, s)
                     THEN CHOOSE s \in Walks : IsRing(link, l, s) ELSE <<>>
Ring(l) == RingOf(next, l)

(* armd_module_find. *)
SameName(m, n) == m = n \/ {m, n} \subseteq Twins

Hits(l, m) == {i \in DOMAIN Ring(l) : SameName(Ring(l)[i], m)}

Find(m) ==
  /\ initialized
  /\ phase \in {"on_start", "run", "on_stop"}
  /\ \/ /\ \A l \in Levels : Hits(l, m) = {}
        /\ found' = Null
     \/ \E l \in Levels : \E i \in Hits(l, m) :
          /\ \A k \in Levels : k < l => Hits(k, m) = {}
          /\ \A j \in Hits(l, m) : i <= j
          /\ found' = Ring(l)[i]
  /\ UNCHANGED <<rings, initialized, running, walk>>

-----------------------------------------------------------------------------
(* armd_module_startall *)

StartAll ==
  /\ phase = "register"
  /\ initialized
  /\ phase' = "start"
  /\ level' = 0 /\ node' = next[0]
  /\ UNCHANGED <<rings, initialized, running, found>>

(* Mutant: the walk does not stop at the sentinel. *)
StartModuleUnchecked ==
  /\ phase = "start"
  /\ running' = running \cup {node}
  /\ phase' = "on_start"
  /\ UNCHANGED <<rings, initialized, level, node, found>>

(* armd_module_start calls on_start. *)
StartModule ==
  /\ phase = "start"
  /\ node # level
  /\ running' = running \cup {node}
  /\ phase' = "on_start"
  /\ UNCHANGED <<rings, initialized, level, node, found>>

(* on_start has returned; only now is the next node read. *)
StartNextNode ==
  /\ phase = "on_start"
  /\ node' = next[node]
  /\ phase' = "start"
  /\ UNCHANGED <<rings, initialized, running, level, found>>

(* on_start fails: startall returns; ModuleLifecycle has what follows. *)
StartFails ==
  /\ phase = "on_start"
  /\ running' = running \ {node}
  /\ phase' = "failed"
  /\ UNCHANGED <<rings, initialized, level, node, found>>

StartNextLevel ==
  /\ phase = "start"
  /\ node = level
  /\ IF level + 1 < MaxLevel
       THEN level' = level + 1 /\ node' = next[level + 1] /\ UNCHANGED phase
       ELSE level' = level /\ node' = Null /\ phase' = "run"
  /\ UNCHANGED <<rings, initialized, running, found>>

-----------------------------------------------------------------------------
(* armd_module_stopall *)

StopAll ==
  /\ phase = "run"
  /\ phase' = "stop"
  /\ level' = MaxLevel - 1
  /\ UNCHANGED <<rings, initialized, running, node, found>>

(* armd_module_stop calls on_stop. *)
StopModule ==
  /\ phase = "stop"
  /\ next[level] # level
  /\ node' = next[level]
  /\ running' = running \ {next[level]}
  /\ phase' = "on_stop"
  /\ UNCHANGED <<rings, initialized, level, found>>

(* on_stop has returned: the node leaves the ring, if it is still there. *)
StopDeletes ==
  /\ phase = "on_stop"
  /\ ListDelete(node)
  /\ phase' = "stop"
  /\ node' = Null
  /\ UNCHANGED <<initialized, running, level, found>>

(* Mutant: the last level to be stopped is CORE_LEVEL. *)
StopNextLevelEarly ==
  /\ phase = "stop"
  /\ next[level] = level
  /\ IF level > 1 THEN level' = level - 1 /\ UNCHANGED phase
                  ELSE phase' = "stopped" /\ UNCHANGED level
  /\ UNCHANGED <<rings, initialized, running, node, found>>

StopNextLevel ==
  /\ phase = "stop"
  /\ next[level] = level
  /\ IF level > 0 THEN level' = level - 1 /\ UNCHANGED phase
                  ELSE phase' = "stopped" /\ UNCHANGED level
  /\ UNCHANGED <<rings, initialized, running, node, found>>

-----------------------------------------------------------------------------
MainStep == \/ RegistryInit \/ StartAll \/ StartModule \/ StartNextNode \/ StartNextLevel
            \/ StopAll \/ StopModule \/ StopDeletes \/ StopNextLevel
Callback == \E m \in Modules : \/ \E l \in Levels : Register(m, l)
                               \/ Unregister(m) \/ Find(m)
Ended == phase \in {"stopped", "failed"} /\ UNCHANGED vars

Next == MainStep \/ Callback \/ StartFails \/ Ended

(* main runs and callbacks return. *)
Fairness == WF_vars(MainStep)

Spec == Init /\ [][Next]_vars
FairSpec == Spec /\ Fairness

-----------------------------------------------------------------------------
TypeOK == /\ next \in [Nodes -> Nodes \cup {Null}]
          /\ prev \in [Nodes -> Nodes \cup {Null}]
          /\ initialized \in BOOLEAN
          /\ running \subseteq Modules
          /\ phase \in {"register", "start", "on_start", "run", "stop", "on_stop",
                        "stopped", "failed"}
          /\ level \in Levels
          /\ node \in Nodes \cup {Null}
          /\ found \in Modules \cup {Null}

(* next and prev are inverse on all nodes that are linked, a module is in one *)
(* ring at most, and a linked module that is in none is linked to itself: so  *)
(* a second unregister, or stopall's delete after an on_stop that has taken   *)
(* its module out, touches no other node.                                     *)
RingsWellFormed ==
  /\ \A n \in Nodes : /\ (next[n] = Null) = (prev[n] = Null)
                      /\ next[n] # Null => prev[next[n]] = n /\ next[prev[n]] = n
  /\ \A m \in Modules :
       Cardinality({l \in Levels : m \in ToSet(Ring(l))}) = (IF Detached(m) THEN 0 ELSE 1)

(* When startall has returned, all registered modules run, those that an      *)
(* on_start has added included; when stopall has returned, none runs and the  *)
(* rings are empty.                                                           *)
Listed == UNION {ToSet(Ring(l)) : l \in Levels}
WalksComplete == /\ phase = "run" => running = Listed
                 /\ phase = "stopped" => running = {} /\ Listed = {}

(* Both walks end, although on_start adds modules. *)
WalksEnd == /\ phase = "start" ~> phase \in {"run", "failed"}
            /\ phase = "stop" ~> phase = "stopped"

(* The rings implement lists of modules in the order of registration. *)
Order == [l \in Levels |-> Ring(l)]
Lists == INSTANCE LevelLists WITH
           list <- Order, NoModule <- Null
ImplementsLevelLists == Lists!Spec
=============================================================================

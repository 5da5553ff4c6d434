--------------------------- MODULE LevelLists ---------------------------
(* What the registry promises: a list of modules per level, in the order of   *)
(* registration; modules start once, level by level and in list order, and    *)
(* stop once, in the opposite order of levels.                                *)
EXTENDS Naturals, Sequences, SequencesExt, IntrusiveQueue

CONSTANTS Modules, Levels, NoModule,
          SameName(_, _)

VARIABLES list, running, found

Init == /\ list = [l \in Levels |-> <<>>]
        /\ running = {}
        /\ found = NoModule

Listed(m) == \E l \in Levels : Contains(list[l], m)

Register(m, l) == /\ ~Listed(m)
                  /\ list' = [list EXCEPT ![l] = Append(@, m)]
                  /\ UNCHANGED <<running, found>>

Unregister(m) == /\ m \notin running
                 /\ list' = [l \in Levels |-> Unlinked(list[l], m)]
                 /\ UNCHANGED <<running, found>>

(* All modules before m, in lower levels or earlier in its own list, run. *)
Start(m) == /\ m \notin running
            /\ \E l \in Levels : \E i \in DOMAIN list[l] :
                 /\ list[l][i] = m
                 /\ \A k \in Levels : k < l => ToSet(list[k]) \subseteq running
                 /\ \A j \in 1..i-1 : list[l][j] \in running
            /\ running' = running \cup {m}
            /\ UNCHANGED <<list, found>>

(* Nothing above m runs any more. *)
Stop(m) == /\ m \in running
           /\ \E l \in Levels : /\ Contains(list[l], m)
                                /\ \A k \in Levels : k > l => ToSet(list[k]) \cap running = {}
           /\ running' = running \ {m}
           /\ UNCHANGED <<list, found>>

(* The module of that name of the lowest level and, in it, the first one. *)
First(n) == { m \in Modules :
  /\ SameName(m, n)
  /\ \E l \in Levels : \E i \in DOMAIN list[l] :
       /\ list[l][i] = m
       /\ \A k \in Levels : \A j \in DOMAIN list[k] :
            SameName(list[k][j], n) => l < k \/ (l = k /\ i <= j) }
Find(n) == /\ found' \in IF First(n) = {} THEN {NoModule} ELSE First(n)
           /\ UNCHANGED <<list, running>>

Next == \E m \in Modules : \/ \E l \in Levels : Register(m, l)
                           \/ Unregister(m) \/ Start(m) \/ Stop(m) \/ Find(m)

Spec == Init /\ [][Next]_<<list, running, found>>
=============================================================================

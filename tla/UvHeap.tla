----------------------------- MODULE UvHeap -----------------------------
(* The binary heap of heap-inl.h, pointer by pointer: the timers of a loop    *)
(* live in it.  A node is its rank in the order of less_than, which is strict *)
(* and total for timers.  An iteration of a loop of the code is a step, so an *)
(* operation begins with HeapInsert or HeapRemove and ends when op is idle.   *)
EXTENDS Naturals, Sequences, FiniteSets

CONSTANT N              \* the nodes are 1..N

ASSUME NAssumption == N \in Nat \ {0}

Nodes == 1..N
Null == 0

VARIABLES
  left, right, parent,  \* struct heap_node
  min, nelts,           \* struct heap
  op, cur,              \* the loop an operation is in, the node it moves
  before                \* history: nodes and min when the operation began

links == <<left, right, parent>>
vars == <<links, min, nelts, op, cur, before>>

Init == /\ left = [n \in Nodes |-> Null]
        /\ right = [n \in Nodes |-> Null]
        /\ parent = [n \in Nodes |-> Null]
        /\ min = Null /\ nelts = 0
        /\ op = "idle" /\ cur = Null
        /\ before = [nodes |-> {}, min |-> Null]

-----------------------------------------------------------------------------
(* The path to the i-th place of a complete tree, the bit taken first in      *)
(* front: the code shifts the bits of i into `path' from the last to the one   *)
(* behind the first, and out again, so the highest comes out first. The       *)
(* mutant takes the lowest first.                                             *)
PathLowFirst(i) ==
  LET path[n \in 0..N] == IF n < 2 THEN <<>> ELSE <<n % 2>> \o path[n \div 2] IN path[i]
Path(i) ==
  LET path[n \in 0..N] == IF n < 2 THEN <<>> ELSE Append(path[n \div 2], n % 2) IN path[i]

(* The node that k steps of a path lead to from heap->min. *)
Child(n, bit) == IF n = Null THEN Null ELSE IF bit = 1 THEN right[n] ELSE left[n]

Walk(path, k) ==
  LET at[j \in 0..Len(path)] == IF j = 0 THEN min ELSE Child(at[j - 1], path[j]) IN at[k]

(* For guards and properties, without a path: the parent of the node at a      *)
(* place is at the half of its number, and the heap is what is at its places.  *)
NodeAt(i) ==
  LET at[j \in 1..N] == IF j = 1 THEN min ELSE Child(at[j \div 2], j % 2) IN at[i]

Tree == {NodeAt(i) : i \in 1..nelts}

(* p's pointer to the child c points to d. *)
Relink(f, p, c, d) == [n \in Nodes |-> IF n = p /\ f[n] = c THEN d ELSE f[n]]

(* heap_node_swap: c goes up to the place of its parent p. *)
SwapLinks(p, c) ==
  LET gp == parent[p]
      exchanged(f) == [f EXCEPT ![p] = f[c], ![c] = IF f[p] = c THEN p ELSE f[p]]
  IN /\ left' = Relink(exchanged(left), gp, p, c)
     /\ right' = Relink(exchanged(right), gp, p, c)
     /\ parent' = [n \in Nodes |->
                     CASE n = c -> gp
                       [] n = p -> c
                       [] n \in {left[c], right[c]} \ {Null} -> p
                       [] n \in {left[p], right[p]} \ {Null, c} -> c
                       [] OTHER -> parent[n]]
Swap(p, c) == /\ SwapLinks(p, c)
              /\ min' = IF parent[p] = Null THEN c ELSE min

Remember == before' = [nodes |-> Tree, min |-> min]

-----------------------------------------------------------------------------
(* heap_insert up to its loop: the node goes to the first free place. *)
HeapInsert(x) ==
  /\ op = "idle"
  /\ x \notin Tree
  /\ LET path == Path(nelts + 1)
         k == Len(path)
         p == Walk(path, k - 1)
     IN IF k = 0
          THEN min' = x /\ UNCHANGED links
          ELSE /\ left' = IF path[k] = 0 THEN [left EXCEPT ![p] = x] ELSE left
               /\ right' = IF path[k] = 1 THEN [right EXCEPT ![p] = x] ELSE right
               /\ parent' = [parent EXCEPT ![x] = p]
               /\ UNCHANGED min
  /\ nelts' = nelts + 1
  /\ op' = "up" /\ cur' = x
  /\ Remember

(* heap_remove up to its loops: the last node takes the place of x. What x's  *)
(* own pointers hold afterwards is left out, its next user overwrites them    *)
(* (uv_timer_stop, heap_insert).                                              *)
Inherit(f, x, last) == [f EXCEPT ![x] = Null, ![last] = f[x]]

MaxNode == LET path == Path(nelts) IN Walk(path, Len(path))

TakePlace(x, last) ==
  LET up == parent[x]
      unlinked(f) == Relink(f, parent[last], last, Null)
      l == unlinked(left)
      r == unlinked(right)
  IN /\ left' = Relink(Inherit(l, x, last), up, x, last)
     /\ right' = Relink(Inherit(r, x, last), up, x, last)
     /\ parent' = [n \in Nodes |-> CASE n = x -> Null
                                     [] n = last -> up
                                     [] n \in {l[x], r[x]} \ {Null} -> last
                                     [] OTHER -> parent[n]]
     /\ min' = IF up = Null THEN last ELSE min

(* Mutant: nelts is counted down behind the early return. *)
HeapRemoveCountsLate(x) ==
  /\ op = "idle"
  /\ x \in Tree
  /\ LET last == MaxNode IN
       IF last = x
         THEN /\ left' = Relink(left, parent[x], x, Null)
              /\ right' = Relink(right, parent[x], x, Null)
              /\ parent' = [parent EXCEPT ![x] = Null]
              /\ min' = IF x = min THEN Null ELSE min
              /\ UNCHANGED <<nelts, op, cur>>
         ELSE /\ TakePlace(x, last)
              /\ nelts' = nelts - 1
              /\ op' = "down" /\ cur' = last
  /\ Remember

HeapRemove(x) ==
  /\ op = "idle"
  /\ x \in Tree
  /\ nelts' = nelts - 1
  /\ LET last == MaxNode IN
       IF last = x
         THEN /\ left' = Relink(left, parent[x], x, Null)
              /\ right' = Relink(right, parent[x], x, Null)
              /\ parent' = [parent EXCEPT ![x] = Null]
              /\ min' = IF x = min THEN Null ELSE min
              /\ UNCHANGED <<op, cur>>
         ELSE /\ TakePlace(x, last)
              /\ op' = "down" /\ cur' = last
  /\ Remember

(* The walk up, of heap_insert and at the end of heap_remove. *)
Above == parent[cur] # Null /\ cur < parent[cur]

SiftUp ==
  /\ op = "up"
  /\ Above
  /\ Swap(parent[cur], cur)
  /\ UNCHANGED <<nelts, op, cur, before>>

UpEnds ==
  /\ op = "up"
  /\ ~Above
  /\ op' = "idle" /\ cur' = Null
  /\ UNCHANGED <<links, min, nelts, before>>

(* The walk down of heap_remove, to the smaller child. *)
Children(n) == {left[n], right[n]} \ {Null}
Smallest == CHOOSE c \in {cur} \cup Children(cur) : \A d \in {cur} \cup Children(cur) : c <= d

SiftDown ==
  /\ op = "down"
  /\ Smallest # cur
  /\ Swap(cur, Smallest)
  /\ UNCHANGED <<nelts, op, cur, before>>

(* Mutant: no walk up, as if the last node were the greatest. *)
DownEndsIdle ==
  /\ op = "down"
  /\ Smallest = cur
  /\ op' = "idle" /\ cur' = Null
  /\ UNCHANGED <<links, min, nelts, before>>

DownEnds ==
  /\ op = "down"
  /\ Smallest = cur
  /\ op' = "up"
  /\ UNCHANGED <<links, min, nelts, cur, before>>

Next == \/ \E x \in Nodes : HeapInsert(x) \/ HeapRemove(x)
        \/ SiftUp \/ UpEnds \/ SiftDown \/ DownEnds

Spec == Init /\ [][Next]_vars

-----------------------------------------------------------------------------
TypeOK == /\ {left, right, parent} \subseteq [Nodes -> Nodes \cup {Null}]
          /\ min \in Nodes \cup {Null}
          /\ nelts \in 0..N
          /\ nelts = 0 <=> min = Null
          /\ op \in {"idle", "up", "down"}
          /\ cur \in Nodes \cup {Null}
          /\ before \in [nodes : SUBSET Nodes, min : Nodes \cup {Null}]

Complete ==
  /\ Cardinality(Tree) = nelts /\ Null \notin Tree
  /\ \A i \in 1..nelts :
       LET n == NodeAt(i) IN
         /\ parent[n] = IF i = 1 THEN Null ELSE NodeAt(i \div 2)
         /\ left[n] = IF 2 * i <= nelts THEN NodeAt(2 * i) ELSE Null
         /\ right[n] = IF 2 * i < nelts THEN NodeAt(2 * i + 1) ELSE Null
  /\ \A n \in Nodes \ Tree : {left[n], right[n], parent[n]} = {Null}

HeapOrder == \A n \in Tree : parent[n] = Null \/ parent[n] < n \/ cur \in {n, parent[n]}

(* The tree is complete and its pointers agree in both directions, also       *)
(* between two swaps: the nelts first places hold different nodes, each knows *)
(* its parent, and nothing hangs below the last row. No node is less than its *)
(* parent but the one an operation is moving, or its child.                   *)
HeapShape == Complete /\ HeapOrder

(* Callers see a set and its least node. *)
PQ == INSTANCE PriorityQueue WITH
        queue <- IF op = "idle" THEN Tree ELSE before.nodes,
        min <- IF op = "idle" THEN min ELSE before.min
ImplementsPriorityQueue == PQ!Spec
=============================================================================

----------------------- MODULE ModuleRegistryProofs -----------------------
(* Proofs about ModuleRegistry: what inserting into a ring and deleting from  *)
(* it does to the lists, for any links that are linked well (WellLinked), and *)
(* from it the invariants of the walks and the implementation of LevelLists.  *)
EXTENDS ModuleRegistry, SequenceFacts, SequenceTheorems, FiniteSetTheorems, TLAPS

Links == [Nodes -> Nodes \cup {Null}]
Orders == [Levels -> Seq(Modules)]

(* next and prev are inverse where they are set. *)
TwoWay(nx, pv) == \A n \in Nodes : /\ (nx[n] = Null) = (pv[n] = Null)
                                   /\ nx[n] # Null => /\ pv[nx[n]] = n
                                                      /\ nx[pv[n]] = n

(* The links are those of disjoint rings that hold the modules of ord. *)
WellLinked(nx, pv, ord) ==
  /\ nx \in Links /\ pv \in Links /\ ord \in Orders
  /\ TwoWay(nx, pv)
  /\ \A l \in Levels : IsRing(nx, l, ord[l]) /\ IsInjective(ord[l])
  /\ \A l, k \in Levels : l # k => ToSet(ord[l]) \cap ToSet(ord[k]) = {}
  /\ \A m \in Modules : nx[m] \notin {Null, m} => \E l \in Levels : m \in ToSet(ord[l])

RingInv == IF initialized THEN WellLinked(next, prev, Order)
                          ELSE /\ next = [n \in Nodes |-> Null]
                               /\ prev = [n \in Nodes |-> Null]

(* startall has reached position p of the ring of level. *)
Reached(p) == /\ node = NodeAt(level, Order[level], p)
              /\ \A k \in Levels : /\ k < level => ToSet(Order[k]) \subseteq running
                                   /\ k > level => ToSet(Order[k]) \cap running = {}
Upto(p) == \A i \in DOMAIN Order[level] : Order[level][i] \in running <=> i <= p

AllOf(ord) == {m \in Modules : \E l \in Levels : m \in ToSet(ord[l])}

WalkInv ==
  /\ initialized \/ phase = "register"
  /\ running \subseteq AllOf(Order)
  /\ phase = "register" => running = {}
  /\ phase = "start" => \E p \in 1..Len(Order[level]) + 1 : Reached(p) /\ Upto(p - 1)
  /\ phase = "on_start" => \E p \in 1..Len(Order[level]) : Reached(p) /\ Upto(p)
  /\ phase \in {"run", "stop"} => running = AllOf(Order)
  /\ phase = "on_stop" => /\ node \in Modules /\ next[node] # Null
                          /\ running = AllOf(Order) \ {node}
  /\ phase \in {"stop", "on_stop"} => \A k \in Levels : k > level => Order[k] = <<>>
  /\ phase = "stopped" => running = {} /\ \A k \in Levels : Order[k] = <<>>

IInv == TypeOK /\ RingInv /\ WalkInv

-----------------------------------------------------------------------------
(* Rings *)

LEMMA NodesApart == /\ Levels \cap Modules = {}
                    /\ Null \notin Levels /\ Null \notin Modules
                    /\ Levels \subseteq Nat /\ Levels \subseteq Nodes /\ Modules \subseteq Nodes
                    /\ 0 \in Levels /\ MaxLevel - 1 \in Levels
BY RegistryAssumption DEF Levels, Nodes

LEMMA LevelSteps ==
  ASSUME NEW l \in Levels
  PROVE  /\ l + 1 < MaxLevel => l + 1 \in Levels
         /\ ~(l + 1 < MaxLevel) => l = MaxLevel - 1
         /\ l > 0 => l - 1 \in Levels
         /\ ~(l > 0) => l = 0
         /\ l \in 0..MaxLevel - 1 /\ MaxLevel \in Nat
BY RegistryAssumption DEF Levels

(* The nodes of a ring: the sentinel at both ends, the modules in between. *)
LEMMA NodeAtFacts ==
  ASSUME NEW l \in Levels, NEW s \in Seq(Modules)
  PROVE  /\ Len(s) \in Nat /\ DOMAIN s = 1..Len(s)
         /\ NodeAt(l, s, 0) = l /\ NodeAt(l, s, Len(s) + 1) = l
         /\ \A i \in 1..Len(s) : NodeAt(l, s, i) = s[i] /\ s[i] \in Modules
         /\ \A i \in 0..Len(s) + 1 : NodeAt(l, s, i) \in Nodes
<1>1. Len(s) \in Nat /\ DOMAIN s = 1..Len(s) /\ \A i \in 1..Len(s) : s[i] \in Modules
  BY LenProperties, ElementOfSeq
<1>2. 0 \notin DOMAIN s /\ Len(s) + 1 \notin DOMAIN s
  BY <1>1
<1> QED
  BY <1>1, <1>2, NodesApart DEF NodeAt

(* A walk from a sentinel meets one sequence of modules. *)
LEMMA RingUnique ==
  ASSUME NEW link, NEW l \in Levels, NEW s \in Seq(Modules), NEW t \in Seq(Modules),
         IsRing(link, l, s), IsRing(link, l, t)
  PROVE  s = t
<1> DEFINE Differ == {i \in Nat : /\ i <= Len(s) + 1 /\ i <= Len(t) + 1
                                  /\ NodeAt(l, s, i) # NodeAt(l, t, i)}
<1>1. /\ Len(s) \in Nat /\ DOMAIN s = 1..Len(s)
      /\ NodeAt(l, s, 0) = l /\ NodeAt(l, s, Len(s) + 1) = l
      /\ \A i \in 1..Len(s) : NodeAt(l, s, i) = s[i] /\ s[i] \in Modules
  BY NodeAtFacts
<1>2. /\ Len(t) \in Nat /\ DOMAIN t = 1..Len(t)
      /\ NodeAt(l, t, 0) = l /\ NodeAt(l, t, Len(t) + 1) = l
      /\ \A i \in 1..Len(t) : NodeAt(l, t, i) = t[i] /\ t[i] \in Modules
  BY NodeAtFacts
<1>3. Differ = {}
  <2> SUFFICES ASSUME Differ # {} PROVE FALSE
    OBVIOUS
  <2>1. PICK i \in Differ : \A j \in Differ : i <= j
    BY LeastNat
  <2>2. i # 0
    BY <1>1, <1>2
  <2>3. i - 1 \in Nat /\ i - 1 \in 0..Len(s) /\ i - 1 \in 0..Len(t) /\ i - 1 \notin Differ /\ (i - 1) + 1 = i
    BY <1>1, <1>2, <2>1, <2>2
  <2>4. NodeAt(l, s, i - 1) = NodeAt(l, t, i - 1)
    BY <2>3, <1>1, <1>2
  <2>5. NodeAt(l, s, i) = link[NodeAt(l, s, i - 1)] /\ NodeAt(l, t, i) = link[NodeAt(l, t, i - 1)]
    BY <2>3 DEF IsRing
  <2> QED
    BY <2>1, <2>4, <2>5
<1>4. \A i \in Nat : i <= Len(s) + 1 /\ i <= Len(t) + 1 => NodeAt(l, s, i) = NodeAt(l, t, i)
  BY <1>3
<1> HIDE DEF Differ
<1>5. ~(Len(s) < Len(t))
  <2> SUFFICES ASSUME Len(s) < Len(t) PROVE FALSE
    OBVIOUS
  <2>1. Len(s) + 1 \in 1..Len(t) /\ Len(s) + 1 \in Nat /\ Len(s) + 1 <= Len(s) + 1 /\ Len(s) + 1 <= Len(t) + 1
    BY <1>1, <1>2
  <2> QED
    BY <1>1, <1>2, <1>4, <2>1, NodesApart
<1>6. ~(Len(t) < Len(s))
  <2> SUFFICES ASSUME Len(t) < Len(s) PROVE FALSE
    OBVIOUS
  <2>1. Len(t) + 1 \in 1..Len(s) /\ Len(t) + 1 \in Nat /\ Len(t) + 1 <= Len(t) + 1 /\ Len(t) + 1 <= Len(s) + 1
    BY <1>1, <1>2
  <2> QED
    BY <1>1, <1>2, <1>4, <2>1, NodesApart
<1>7. Len(s) = Len(t)
  <2>1. Len(s) \in Nat /\ Len(t) \in Nat
    BY <1>1, <1>2
  <2>2. \A a, b \in Nat : ~(a < b) /\ ~(b < a) => a = b
    OBVIOUS
  <2> QED
    BY <2>1, <2>2, <1>5, <1>6
<1>8. \A i \in 1..Len(s) : s[i] = t[i]
  BY <1>1, <1>2, <1>4, <1>7
<1> QED
  BY <1>1, <1>2, <1>7, <1>8, SeqEqual

(* A sequence without repetitions is short enough to be found by RingOf. *)
LEMMA InjectiveIsWalk ==
  ASSUME NEW s \in Seq(Modules), IsInjective(s)
  PROVE  s \in Walks
<1>1. Len(s) \in Nat /\ DOMAIN s = 1..Len(s) /\ s \in [1..Len(s) -> Modules]
  BY LenProperties
<1>2. s \in Injection(1..Len(s), Modules)
  BY <1>1 DEF Injection, IsInjective
<1>3. IsFiniteSet(Modules)
  BY RegistryAssumption
<1>4. Cardinality(1..Len(s)) <= Cardinality(Modules)
  BY <1>2, <1>3, FS_Injection
<1>5. Cardinality(1..Len(s)) = Len(s)
  BY <1>1, FS_Interval
<1>6. Cardinality(Modules) \in Nat
  BY <1>3, FS_CardinalityType
<1>7. Len(s) \in 0..Cardinality(Modules)
  BY <1>1, <1>4, <1>5, <1>6
<1> QED
  BY <1>1, <1>7 DEF Walks

LEMMA WalksAreSequences == Walks \subseteq Seq(Modules)
<1> SUFFICES ASSUME NEW s \in Walks PROVE s \in Seq(Modules)
  OBVIOUS
<1>1. PICK n \in 0..Cardinality(Modules) : s \in [1..n -> Modules]
  BY DEF Walks
<1>2. n \in Nat
  BY FS_CardinalityType, RegistryAssumption
<1> QED
  BY <1>1, <1>2, SeqDef

LEMMA RingOfIs ==
  ASSUME NEW link, NEW l \in Levels, NEW s \in Seq(Modules), IsRing(link, l, s), IsInjective(s)
  PROVE  RingOf(link, l) = s
<1>1. s \in Walks
  BY InjectiveIsWalk
<1>2. RingOf(link, l) \in Walks /\ IsRing(link, l, RingOf(link, l))
  BY <1>1 DEF RingOf
<1> QED
  BY <1>2, RingUnique, WalksAreSequences

-----------------------------------------------------------------------------
(* What the links of disjoint rings have in common. *)

LEMMA LinkedIsOrder ==
  ASSUME NEW nx, NEW pv, NEW ord, WellLinked(nx, pv, ord)
  PROVE  ord = [l \in Levels |-> RingOf(nx, l)]
<1>1. \A l \in Levels : RingOf(nx, l) = ord[l]
  BY RingOfIs DEF WellLinked, Orders
<1> QED
  BY <1>1 DEF WellLinked, Orders

(* A node occurs once in one ring. *)
LEMMA NodesDiffer ==
  ASSUME NEW nx, NEW pv, NEW ord, WellLinked(nx, pv, ord), NEW l \in Levels, NEW k \in Levels
  PROVE  \A i \in 0..Len(ord[l]), j \in 0..Len(ord[k]) :
           NodeAt(l, ord[l], i) = NodeAt(k, ord[k], j) => l = k /\ i = j
<1> SUFFICES ASSUME NEW i \in 0..Len(ord[l]), NEW j \in 0..Len(ord[k]),
                    NodeAt(l, ord[l], i) = NodeAt(k, ord[k], j)
             PROVE  l = k /\ i = j
  OBVIOUS
<1>0. ord[l] \in Seq(Modules) /\ ord[k] \in Seq(Modules) /\ IsInjective(ord[l])
  BY DEF WellLinked, Orders
<1>1. /\ Len(ord[l]) \in Nat /\ DOMAIN ord[l] = 1..Len(ord[l])
      /\ NodeAt(l, ord[l], 0) = l
      /\ \A a \in 1..Len(ord[l]) : NodeAt(l, ord[l], a) = ord[l][a] /\ ord[l][a] \in Modules
  BY <1>0, NodeAtFacts
<1>2. /\ Len(ord[k]) \in Nat /\ DOMAIN ord[k] = 1..Len(ord[k])
      /\ NodeAt(k, ord[k], 0) = k
      /\ \A a \in 1..Len(ord[k]) : NodeAt(k, ord[k], a) = ord[k][a] /\ ord[k][a] \in Modules
  BY <1>0, NodeAtFacts
<1>3. CASE i = 0 \/ j = 0
  BY <1>1, <1>2, <1>3, NodesApart
<1>4. CASE i # 0 /\ j # 0
  <2>1. i \in 1..Len(ord[l]) /\ j \in 1..Len(ord[k])
    BY <1>1, <1>2, <1>4
  <2>2. ord[l][i] = ord[k][j] /\ ord[l][i] \in ToSet(ord[l]) /\ ord[k][j] \in ToSet(ord[k])
    BY <2>1, <1>1, <1>2 DEF ToSet
  <2>3. l = k
    BY <2>2 DEF WellLinked
  <2> QED
    BY <2>1, <2>2, <2>3, <1>0, <1>1 DEF IsInjective
<1> QED
  BY <1>3, <1>4

(* A module in a ring is linked, and not to itself. *)
LEMMA InRing ==
  ASSUME NEW nx, NEW pv, NEW ord, WellLinked(nx, pv, ord), NEW l \in Levels,
         NEW m \in ToSet(ord[l])
  PROVE  m \in Modules /\ nx[m] \notin {Null, m}
<1>0. ord[l] \in Seq(Modules) /\ IsInjective(ord[l]) /\ IsRing(nx, l, ord[l])
  BY DEF WellLinked, Orders
<1>1. /\ Len(ord[l]) \in Nat /\ DOMAIN ord[l] = 1..Len(ord[l])
      /\ NodeAt(l, ord[l], Len(ord[l]) + 1) = l
      /\ \A a \in 1..Len(ord[l]) : NodeAt(l, ord[l], a) = ord[l][a] /\ ord[l][a] \in Modules
  BY <1>0, NodeAtFacts
<1>2. PICK i \in 1..Len(ord[l]) : m = ord[l][i]
  BY <1>1 DEF ToSet
<1>3. nx[m] = NodeAt(l, ord[l], i + 1)
  BY <1>0, <1>1, <1>2 DEF IsRing
<1>4. CASE i = Len(ord[l])
  BY <1>1, <1>2, <1>3, <1>4, NodesApart
<1>5. CASE i # Len(ord[l])
  <2>1. i + 1 \in 1..Len(ord[l]) /\ i + 1 # i
    BY <1>1, <1>5
  <2>2. nx[m] = ord[l][i + 1] /\ nx[m] \in Modules
    BY <2>1, <1>1, <1>3
  <2>3. nx[m] # m
    BY <2>1, <2>2, <1>0, <1>1, <1>2 DEF IsInjective
  <2> QED
    BY <2>2, <2>3, <1>1, <1>2, NodesApart
<1> QED
  BY <1>4, <1>5

(* All static: no links; registry_init makes empty rings of the sentinels. *)
LEMMA InitialRings ==
  ASSUME NEW nx, nx = [n \in Nodes |-> IF n \in Levels THEN n ELSE Null]
  PROVE  WellLinked(nx, nx, [l \in Levels |-> <<>>])
<1> DEFINE ord == [l \in Levels |-> <<>>]
<1>1. nx \in Links /\ ord \in Orders
  BY NodesApart, EmptySeq DEF Links, Orders
<1>2. TwoWay(nx, nx)
  BY NodesApart DEF TwoWay
<1>3. \A l \in Levels : IsRing(nx, l, <<>>) /\ IsInjective(<<>>) /\ ToSet(<<>>) = {}
  <2> TAKE l \in Levels
  <2>1. <<>> \in Seq(Modules) /\ Len(<<>>) = 0 /\ DOMAIN <<>> = {}
    BY EmptySeq
  <2>2. NodeAt(l, <<>>, 0) = l /\ NodeAt(l, <<>>, 1) = l
    BY <2>1 DEF NodeAt
  <2>3. nx[l] = l
    BY NodesApart
  <2>4. IsRing(nx, l, <<>>)
    BY <2>1, <2>2, <2>3 DEF IsRing
  <2> QED
    BY <2>1, <2>4 DEF IsInjective, ToSet
<1>4. \A m \in Modules : nx[m] = Null
  BY NodesApart
<1>5. \A l \in Levels : ord[l] = <<>>
  OBVIOUS
<1> HIDE DEF ord
<1> QED
  BY <1>1, <1>2, <1>3, <1>4, <1>5 DEF WellLinked, ord

-----------------------------------------------------------------------------
(* armd_list_insert appends a module that is in no ring. *)

Insertion(nx, pv, l, m, nx1, pv1) ==
  /\ nx1 = [nx EXCEPT ![pv[l]] = m, ![m] = l]
  /\ pv1 = [pv EXCEPT ![l] = m, ![m] = pv[l]]

(* The node the new one is inserted behind. *)
LEMMA LastNode ==
  ASSUME NEW nx, NEW pv, NEW ord, WellLinked(nx, pv, ord), NEW l \in Levels
  PROVE  /\ pv[l] = NodeAt(l, ord[l], Len(ord[l]))
         /\ pv[l] \in Nodes /\ nx[pv[l]] = l
<1>1. ord[l] \in Seq(Modules) /\ IsRing(nx, l, ord[l])
  BY DEF WellLinked, Orders
<1>2. /\ Len(ord[l]) \in 0..Len(ord[l])
      /\ NodeAt(l, ord[l], Len(ord[l]) + 1) = l
      /\ NodeAt(l, ord[l], Len(ord[l])) \in Nodes
  BY <1>1, NodeAtFacts
<1>3. nx[NodeAt(l, ord[l], Len(ord[l]))] = l
  BY <1>1, <1>2 DEF IsRing
<1>4. TwoWay(nx, pv)
  BY DEF WellLinked
<1> QED
  BY <1>2, <1>3, <1>4, NodesApart DEF TwoWay

LEMMA InsertTwoWay ==
  ASSUME NEW nx, NEW pv, NEW ord, WellLinked(nx, pv, ord), NEW l \in Levels,
         NEW m \in Modules, nx[m] \in {Null, m},
         NEW nx1, NEW pv1, Insertion(nx, pv, l, m, nx1, pv1)
  PROVE  nx1 \in Links /\ pv1 \in Links /\ TwoWay(nx1, pv1)
<1>1. PICK q \in Nodes : q = pv[l] /\ nx[q] = l
  BY LastNode
<1>2. q # m /\ l # m /\ l \in Nodes /\ m \in Nodes /\ Null \notin Nodes
  BY <1>1, NodesApart, RegistryAssumption
<1>3. nx \in Links /\ pv \in Links /\ TwoWay(nx, pv)
  BY DEF WellLinked
<1>4. nx1 \in Links /\ pv1 \in Links
  BY <1>1, <1>2, <1>3 DEF Insertion, Links
<1>5. \A n \in Nodes : /\ nx1[n] = IF n = m THEN l ELSE IF n = q THEN m ELSE nx[n]
                       /\ pv1[n] = IF n = m THEN q ELSE IF n = l THEN m ELSE pv[n]
  BY <1>1, <1>2, <1>3 DEF Insertion, Links
<1>6. \A n \in Nodes : n # m /\ nx[n] # Null /\ n # q => nx[n] \in Nodes /\ nx[n] # m /\ nx[n] # l
  BY <1>1, <1>2, <1>3 DEF TwoWay, Links
<1>7. \A n \in Nodes : n # m /\ nx[n] # Null /\ n # l => pv[n] \in Nodes /\ pv[n] # m /\ pv[n] # q
  BY <1>1, <1>2, <1>3 DEF TwoWay, Links
<1>8. ASSUME NEW n \in Nodes
      PROVE  /\ (nx1[n] = Null) = (pv1[n] = Null)
             /\ nx1[n] # Null => pv1[nx1[n]] = n /\ nx1[pv1[n]] = n
  <2>1. CASE n = m
    BY <2>1, <1>1, <1>2, <1>5
  <2>2. CASE n = q /\ n = l
    BY <2>2, <1>1, <1>2, <1>5
  <2>3. CASE n = q /\ n # l
    BY <2>3, <1>1, <1>2, <1>3, <1>5, <1>7 DEF TwoWay
  <2>4. CASE n = l /\ n # q
    BY <2>4, <1>1, <1>2, <1>3, <1>5, <1>6 DEF TwoWay
  <2>5. CASE n \notin {m, q, l}
    BY <2>5, <1>1, <1>2, <1>3, <1>5, <1>6, <1>7 DEF TwoWay
  <2> QED
    BY <2>1, <2>2, <2>3, <2>4, <2>5
<1> QED
  BY <1>4, <1>8 DEF TwoWay

LEMMA InsertRings ==
  ASSUME NEW nx, NEW pv, NEW ord, WellLinked(nx, pv, ord), NEW l \in Levels,
         NEW m \in Modules, nx[m] \in {Null, m},
         NEW nx1, NEW pv1, Insertion(nx, pv, l, m, nx1, pv1)
  PROVE  /\ IsRing(nx1, l, Append(ord[l], m))
         /\ \A k \in Levels : k # l => IsRing(nx1, k, ord[k])
<1>0. /\ nx \in Links /\ ord[l] \in Seq(Modules) /\ IsRing(nx, l, ord[l])
  BY DEF WellLinked, Orders
<1>1. PICK q \in Nodes : q = pv[l] /\ q = NodeAt(l, ord[l], Len(ord[l]))
  BY LastNode
<1>2. /\ Len(ord[l]) \in Nat /\ DOMAIN ord[l] = 1..Len(ord[l])
      /\ NodeAt(l, ord[l], 0) = l
      /\ \A a \in 1..Len(ord[l]) : NodeAt(l, ord[l], a) = ord[l][a] /\ ord[l][a] \in Modules
  BY <1>0, NodeAtFacts
<1>3. \A n \in Nodes : nx1[n] = IF n = m THEN l ELSE IF n = q THEN m ELSE nx[n]
  <2>1. q # m
    <3>1. CASE Len(ord[l]) = 0
      BY <3>1, <1>1, <1>2, NodesApart
    <3>2. CASE Len(ord[l]) # 0
      <4>1. Len(ord[l]) \in 1..Len(ord[l])
        BY <3>2, <1>2
      <4>2. q = ord[l][Len(ord[l])] /\ q \in ToSet(ord[l])
        BY <4>1, <1>1, <1>2 DEF ToSet
      <4> QED
        BY <4>2, InRing
    <3> QED
      BY <3>1, <3>2
  <2> QED
    BY <2>1, <1>0, <1>1, NodesApart DEF Insertion, Links
<1>4. ASSUME NEW k \in Levels, NEW i \in 0..Len(ord[k])
      PROVE  NodeAt(k, ord[k], i) \in Nodes /\ NodeAt(k, ord[k], i) # m
  <2>0. ord[k] \in Seq(Modules)
    BY DEF WellLinked, Orders
  <2>1. /\ Len(ord[k]) \in Nat /\ DOMAIN ord[k] = 1..Len(ord[k])
        /\ NodeAt(k, ord[k], 0) = k
        /\ \A a \in 1..Len(ord[k]) : NodeAt(k, ord[k], a) = ord[k][a] /\ ord[k][a] \in Modules
    BY <2>0, NodeAtFacts
  <2>2. CASE i = 0
    BY <2>2, <2>1, NodesApart
  <2>3. CASE i # 0
    <3>1. i \in 1..Len(ord[k])
      BY <2>1, <2>3
    <3>2. NodeAt(k, ord[k], i) = ord[k][i] /\ ord[k][i] \in ToSet(ord[k])
      BY <3>1, <2>1 DEF ToSet
    <3> QED
      BY <3>2, InRing, NodesApart
  <2> QED
    BY <2>2, <2>3
<1>5. ASSUME NEW k \in Levels, NEW i \in 0..Len(ord[k]), k # l \/ i # Len(ord[l])
      PROVE  nx1[NodeAt(k, ord[k], i)] = NodeAt(k, ord[k], i + 1)
  <2>1. NodeAt(k, ord[k], i) # q
    <3>1. Len(ord[l]) \in 0..Len(ord[l])
      BY <1>2
    <3> QED
      BY <3>1, <1>1, <1>5, NodesDiffer
  <2>2. nx1[NodeAt(k, ord[k], i)] = nx[NodeAt(k, ord[k], i)]
    BY <2>1, <1>3, <1>4
  <2>3. IsRing(nx, k, ord[k])
    BY DEF WellLinked
  <2> QED
    BY <2>2, <2>3 DEF IsRing
<1>6. \A k \in Levels : k # l => IsRing(nx1, k, ord[k])
  BY <1>5 DEF IsRing
<1>7. PICK t \in Seq(Modules) : t = Append(ord[l], m)
  BY <1>0, AppendProperties
<1>8. /\ Len(t) = Len(ord[l]) + 1 /\ DOMAIN t = 1..Len(ord[l]) + 1
      /\ \A i \in 1..Len(ord[l]) : t[i] = ord[l][i]
      /\ t[Len(ord[l]) + 1] = m
  <2>1. /\ Len(t) = Len(ord[l]) + 1
        /\ \A i \in 1..Len(ord[l]) : t[i] = ord[l][i]
        /\ t[Len(ord[l]) + 1] = m
    BY <1>0, <1>7, AppendProperties
  <2> QED
    BY <2>1, <1>7, LenProperties
<1>9. /\ \A i \in 0..Len(ord[l]) : NodeAt(l, t, i) = NodeAt(l, ord[l], i)
      /\ NodeAt(l, t, Len(ord[l]) + 1) = m
      /\ NodeAt(l, t, Len(ord[l]) + 2) = l
  <2>1. NodeAt(l, t, 0) = l /\ NodeAt(l, t, Len(ord[l]) + 2) = l
    BY <1>2, <1>8 DEF NodeAt
  <2>2. NodeAt(l, t, Len(ord[l]) + 1) = m
    BY <1>2, <1>8 DEF NodeAt
  <2>3. \A i \in 1..Len(ord[l]) : NodeAt(l, t, i) = NodeAt(l, ord[l], i)
    BY <1>2, <1>8 DEF NodeAt
  <2> QED
    BY <2>1, <2>2, <2>3, <1>2
<1>10. ASSUME NEW i \in 0..Len(ord[l]) + 1
       PROVE  nx1[NodeAt(l, t, i)] = NodeAt(l, t, i + 1)
  <2>1. CASE i \in 0..Len(ord[l]) - 1
    <3>1. i \in 0..Len(ord[l]) /\ i + 1 \in 0..Len(ord[l]) /\ i # Len(ord[l])
      BY <2>1, <1>2
    <3> QED
      BY <3>1, <1>5, <1>9
  <2>2. CASE i = Len(ord[l])
    <3>1. i \in 0..Len(ord[l])
      BY <2>2, <1>2
    <3>2. NodeAt(l, t, i) = q /\ NodeAt(l, t, i + 1) = m
      BY <3>1, <2>2, <1>1, <1>9
    <3>3. q # m
      BY <3>1, <2>2, <1>1, <1>4
    <3> QED
      BY <3>2, <3>3, <1>3, <1>1
  <2>3. CASE i = Len(ord[l]) + 1
    <3>1. NodeAt(l, t, i) = m /\ NodeAt(l, t, i + 1) = l
      BY <2>3, <1>9, <1>2
    <3> QED
      BY <3>1, <1>3, NodesApart
  <2>4. \A n \in Nat : \A j \in 0..n + 1 : j \in 0..n - 1 \/ j = n \/ j = n + 1
    OBVIOUS
  <2> QED
    BY <2>1, <2>2, <2>3, <2>4, <1>2
<1>11. IsRing(nx1, l, t)
  BY <1>8, <1>10 DEF IsRing
<1> QED
  BY <1>6, <1>7, <1>11

LEMMA InsertAppends ==
  ASSUME NEW nx, NEW pv, NEW ord, WellLinked(nx, pv, ord), NEW l \in Levels,
         NEW m \in Modules, nx[m] \in {Null, m},
         NEW nx1, NEW pv1, Insertion(nx, pv, l, m, nx1, pv1)
  PROVE  WellLinked(nx1, pv1, [ord EXCEPT ![l] = Append(@, m)])
<1>0. ord \in Orders /\ nx \in Links
  BY DEF WellLinked
<1>1. PICK o1 : o1 = [ord EXCEPT ![l] = Append(@, m)]
  OBVIOUS
<1>2. m \notin UNION {ToSet(ord[k]) : k \in Levels}
  BY InRing
<1>3. /\ Append(ord[l], m) \in Seq(Modules)
      /\ ToSet(Append(ord[l], m)) = ToSet(ord[l]) \cup {m}
      /\ IsInjective(Append(ord[l], m))
  BY <1>0, <1>2, ToSetAppend DEF WellLinked, Orders
<1>4. /\ o1 \in Orders /\ o1[l] = Append(ord[l], m)
      /\ \A k \in Levels : k # l => o1[k] = ord[k]
  BY <1>0, <1>1, <1>3 DEF Orders
<1>5. nx1 \in Links /\ pv1 \in Links /\ TwoWay(nx1, pv1)
  BY InsertTwoWay
<1>6. \A k \in Levels : IsRing(nx1, k, o1[k]) /\ IsInjective(o1[k])
  <2>1. /\ IsRing(nx1, l, Append(ord[l], m))
        /\ \A k \in Levels : k # l => IsRing(nx1, k, ord[k])
    BY InsertRings
  <2>2. \A k \in Levels : IsInjective(ord[k])
    BY DEF WellLinked
  <2> QED
    BY <2>1, <2>2, <1>3, <1>4
<1>7. \A a, b \in Levels : a # b => ToSet(o1[a]) \cap ToSet(o1[b]) = {}
  <2> SUFFICES ASSUME NEW a \in Levels, NEW b \in Levels, a # b
               PROVE  ToSet(o1[a]) \cap ToSet(o1[b]) = {}
    OBVIOUS
  <2>1. ToSet(ord[a]) \cap ToSet(ord[b]) = {}
    BY DEF WellLinked
  <2>2. m \notin ToSet(ord[a]) /\ m \notin ToSet(ord[b])
    BY <1>2
  <2> QED
    BY <2>1, <2>2, <1>3, <1>4
<1>8. \A n \in Modules : nx1[n] \notin {Null, n} => \E k \in Levels : n \in ToSet(o1[k])
  <2> SUFFICES ASSUME NEW n \in Modules, nx1[n] \notin {Null, n}
               PROVE  \E k \in Levels : n \in ToSet(o1[k])
    OBVIOUS
  <2>1. CASE n = m
    BY <2>1, <1>3, <1>4
  <2>2. CASE n # m
    <3>1. \E k \in Levels : n \in ToSet(ord[k])
      <4>1. CASE n = pv[l]
        <5>1. ord[l] \in Seq(Modules) /\ pv[l] = NodeAt(l, ord[l], Len(ord[l]))
          BY <1>0, LastNode DEF Orders
        <5>2. n # l
          BY NodesApart
        <5>3. Len(ord[l]) \in DOMAIN ord[l] /\ n = ord[l][Len(ord[l])]
          BY <5>1, <5>2, <4>1 DEF NodeAt
        <5> QED
          BY <5>3 DEF ToSet
      <4>2. CASE n # pv[l]
        <5>1. nx1[n] = nx[n]
          BY <4>2, <2>2, <1>0, NodesApart DEF Insertion, Links
        <5> QED
          BY <5>1 DEF WellLinked
      <4> QED
        BY <4>1, <4>2
    <3> QED
      BY <3>1, <1>3, <1>4
  <2> QED
    BY <2>1, <2>2
<1> QED
  BY <1>1, <1>4, <1>5, <1>6, <1>7, <1>8 DEF WellLinked

-----------------------------------------------------------------------------
(* armd_list_delete takes out the module, wherever it is. *)

Deletion(nx, pv, m, nx1, pv1) ==
  /\ nx1 = [nx EXCEPT ![pv[m]] = nx[m], ![m] = m]
  /\ pv1 = [pv EXCEPT ![nx[m]] = pv[m], ![m] = m]

LEMMA DeleteTwoWay ==
  ASSUME NEW nx, NEW pv, nx \in Links, pv \in Links, TwoWay(nx, pv),
         NEW m \in Modules, nx[m] # Null,
         NEW nx1, NEW pv1, Deletion(nx, pv, m, nx1, pv1)
  PROVE  /\ nx1 \in Links /\ pv1 \in Links /\ TwoWay(nx1, pv1)
         /\ nx1[m] = m
         /\ \A n \in Nodes : n # m /\ n # pv[m] => nx1[n] = nx[n]
         /\ pv[m] # m => nx1[pv[m]] = nx[m]
<1>1. m \in Nodes /\ Null \notin Nodes
  BY NodesApart, RegistryAssumption
<1>2. PICK a \in Nodes : a = pv[m] /\ nx[a] = m
  BY <1>1 DEF TwoWay, Links
<1>3. PICK b \in Nodes : b = nx[m] /\ pv[b] = m
  BY <1>1 DEF TwoWay, Links
<1>4. nx1 \in Links /\ pv1 \in Links
  BY <1>1, <1>2, <1>3 DEF Deletion, Links
<1>5. \A n \in Nodes : /\ nx1[n] = IF n = m THEN m ELSE IF n = a THEN b ELSE nx[n]
                       /\ pv1[n] = IF n = m THEN m ELSE IF n = b THEN a ELSE pv[n]
  BY <1>1, <1>2, <1>3 DEF Deletion, Links
<1>6. a = m <=> b = m
  BY <1>1, <1>2, <1>3 DEF TwoWay, Links
<1>7. \A n \in Nodes : n # m /\ nx[n] # Null /\ n # a => nx[n] \in Nodes /\ nx[n] # m /\ nx[n] # b
  BY <1>1, <1>2, <1>3 DEF TwoWay, Links
<1>8. \A n \in Nodes : n # m /\ nx[n] # Null /\ n # b => pv[n] \in Nodes /\ pv[n] # m /\ pv[n] # a
  BY <1>1, <1>2, <1>3 DEF TwoWay, Links
<1>9. ASSUME NEW n \in Nodes
      PROVE  /\ (nx1[n] = Null) = (pv1[n] = Null)
             /\ nx1[n] # Null => pv1[nx1[n]] = n /\ nx1[pv1[n]] = n
  <2>1. CASE n = m
    BY <2>1, <1>1, <1>5
  <2>2. CASE n # m /\ n = a /\ n = b
    BY <2>2, <1>1, <1>2, <1>3, <1>5
  <2>3. CASE n # m /\ n = a /\ n # b
    BY <2>3, <1>1, <1>2, <1>3, <1>5, <1>6, <1>8 DEF TwoWay
  <2>4. CASE n # m /\ n = b /\ n # a
    BY <2>4, <1>1, <1>2, <1>3, <1>5, <1>6, <1>7 DEF TwoWay
  <2>5. CASE n \notin {m, a, b}
    BY <2>5, <1>1, <1>2, <1>3, <1>5, <1>7, <1>8 DEF TwoWay
  <2> QED
    BY <2>1, <2>2, <2>3, <2>4, <2>5
<1>10. TwoWay(nx1, pv1)
  BY <1>9 DEF TwoWay
<1> QED
  BY <1>1, <1>2, <1>3, <1>4, <1>5, <1>10

(* The ring without its i-th module: the node before it is linked to the node *)
(* behind it.                                                                 *)
LEMMA ShorterRing ==
  ASSUME NEW nx, NEW nx1, NEW l \in Levels, NEW s \in Seq(Modules), NEW i \in 1..Len(s),
         IsRing(nx, l, s),
         \A j \in 0..Len(s) : j \notin {i - 1, i} => nx1[NodeAt(l, s, j)] = nx[NodeAt(l, s, j)],
         nx1[NodeAt(l, s, i - 1)] = nx[s[i]]
  PROVE  IsRing(nx1, l, RemoveAt(s, i))
<1>1. /\ Len(s) \in Nat /\ DOMAIN s = 1..Len(s)
      /\ NodeAt(l, s, 0) = l /\ NodeAt(l, s, Len(s) + 1) = l
      /\ \A a \in 1..Len(s) : NodeAt(l, s, a) = s[a] /\ s[a] \in Modules
  BY NodeAtFacts
<1>2. PICK t \in Seq(Modules) : /\ t = RemoveAt(s, i)
                                /\ Len(t) = Len(s) - 1
                                /\ \A j \in 1..(Len(s) - 1) : t[j] = IF j < i THEN s[j] ELSE s[j + 1]
  <2>1. i \in DOMAIN s
    BY <1>1
  <2>2. /\ RemoveAt(s, i) \in Seq(Modules)
        /\ Len(RemoveAt(s, i)) = Len(s) - 1
        /\ \A j \in 1..(Len(s) - 1) : RemoveAt(s, i)[j] = IF j < i THEN s[j] ELSE s[j + 1]
    BY <2>1, RemoveAtProperties
  <2> QED
    BY <2>2
<1>3. /\ Len(t) \in Nat /\ DOMAIN t = 1..Len(t)
      /\ NodeAt(l, t, 0) = l /\ NodeAt(l, t, Len(t) + 1) = l
      /\ \A a \in 1..Len(t) : NodeAt(l, t, a) = t[a]
  BY NodeAtFacts
<1>4. \A j \in 0..Len(t) + 1 : NodeAt(l, t, j) = IF j < i THEN NodeAt(l, s, j) ELSE NodeAt(l, s, j + 1)
  <2> TAKE j \in 0..Len(t) + 1
  <2>1. CASE j = 0
    BY <2>1, <1>1, <1>3
  <2>2. CASE j = Len(t) + 1
    BY <2>2, <1>1, <1>2, <1>3
  <2>3. CASE j \in 1..Len(t)
    <3>1. NodeAt(l, t, j) = IF j < i THEN s[j] ELSE s[j + 1]
      BY <2>3, <1>2, <1>3
    <3>2. j \in 1..Len(s) /\ j + 1 \in 1..Len(s)
      BY <2>3, <1>1, <1>2
    <3> QED
      BY <3>1, <3>2, <1>1
  <2>4. j = 0 \/ j = Len(t) + 1 \/ j \in 1..Len(t)
    <3>1. \A n \in Nat : \A a \in 0..n + 1 : a = 0 \/ a = n + 1 \/ a \in 1..n
      OBVIOUS
    <3> QED
      BY <3>1, <1>3
  <2> QED
    BY <2>1, <2>2, <2>3, <2>4
<1>5. ASSUME NEW j \in 0..Len(t) PROVE nx1[NodeAt(l, t, j)] = NodeAt(l, t, j + 1)
  <2>0. j \in 0..Len(t) + 1 /\ j + 1 \in 0..Len(t) + 1 /\ j \in 0..Len(s) /\ j + 1 \in 0..Len(s)
        /\ Len(t) = Len(s) - 1 /\ j \in Int /\ i \in Int
    BY <1>1, <1>2
  <2>1. CASE j < i - 1
    <3>1. j < i /\ j + 1 < i /\ j \notin {i - 1, i}
      BY <2>0, <2>1
    <3>2. NodeAt(l, t, j) = NodeAt(l, s, j) /\ NodeAt(l, t, j + 1) = NodeAt(l, s, j + 1)
      BY <2>0, <3>1, <1>4
    <3> QED
      BY <2>0, <3>1, <3>2 DEF IsRing
  <2>2. CASE j = i - 1
    <3>1. j < i /\ ~(j + 1 < i) /\ j + 1 = i /\ i \in 0..Len(s)
      BY <2>0, <2>2
    <3>2. NodeAt(l, t, j) = NodeAt(l, s, i - 1) /\ NodeAt(l, t, j + 1) = NodeAt(l, s, i + 1)
      BY <2>0, <2>2, <3>1, <1>4
    <3>3. nx[NodeAt(l, s, i)] = NodeAt(l, s, i + 1)
      BY <3>1 DEF IsRing
    <3> QED
      BY <3>2, <3>3, <1>1
  <2>3. CASE j >= i
    <3>1. ~(j < i) /\ ~(j + 1 < i) /\ j + 1 \notin {i - 1, i}
      BY <2>0, <2>3
    <3>2. NodeAt(l, t, j) = NodeAt(l, s, j + 1) /\ NodeAt(l, t, j + 1) = NodeAt(l, s, (j + 1) + 1)
      BY <2>0, <3>1, <1>4
    <3> QED
      BY <2>0, <3>1, <3>2 DEF IsRing
  <2> QED
    BY <2>0, <2>1, <2>2, <2>3
<1> QED
  BY <1>2, <1>5 DEF IsRing

LEMMA DeleteRings ==
  ASSUME NEW nx, NEW pv, NEW ord, WellLinked(nx, pv, ord),
         NEW m \in Modules, nx[m] # Null,
         NEW nx1, NEW pv1, Deletion(nx, pv, m, nx1, pv1), NEW l \in Levels
  PROVE  IsRing(nx1, l, Unlinked(ord[l], m))
<1>0. /\ nx \in Links /\ pv \in Links /\ TwoWay(nx, pv)
      /\ ord[l] \in Seq(Modules) /\ IsInjective(ord[l]) /\ IsRing(nx, l, ord[l])
  BY DEF WellLinked, Orders
<1>1. /\ Len(ord[l]) \in Nat /\ DOMAIN ord[l] = 1..Len(ord[l])
      /\ NodeAt(l, ord[l], 0) = l
      /\ \A a \in 1..Len(ord[l]) : NodeAt(l, ord[l], a) = ord[l][a] /\ ord[l][a] \in Modules
      /\ \A a \in 0..Len(ord[l]) + 1 : NodeAt(l, ord[l], a) \in Nodes
  BY <1>0, NodeAtFacts
<1>2. /\ nx1[m] = m
      /\ \A n \in Nodes : n # m /\ n # pv[m] => nx1[n] = nx[n]
      /\ pv[m] # m => nx1[pv[m]] = nx[m]
  BY <1>0, DeleteTwoWay
<1>3. pv[nx[m]] = m /\ nx[pv[m]] = m
  BY <1>0, NodesApart DEF TwoWay
<1>4. CASE m \notin ToSet(ord[l])
  <2>1. Unlinked(ord[l], m) = ord[l]
    BY <1>4, <1>0, ToSetElement DEF Unlinked
  <2>2. ASSUME NEW i \in 0..Len(ord[l])
        PROVE  nx1[NodeAt(l, ord[l], i)] = NodeAt(l, ord[l], i + 1)
    <3>1. NodeAt(l, ord[l], i) \in Nodes /\ nx[NodeAt(l, ord[l], i)] = NodeAt(l, ord[l], i + 1)
      BY <1>0, <1>1 DEF IsRing
    <3>2. \A a \in 0..Len(ord[l]) + 1 : NodeAt(l, ord[l], a) # m
      <4> TAKE a \in 0..Len(ord[l]) + 1
      <4>1. CASE a \in 1..Len(ord[l])
        BY <4>1, <1>1, <1>4 DEF ToSet
      <4>2. CASE a \notin 1..Len(ord[l])
        BY <4>2, <1>1, NodesApart DEF NodeAt
      <4> QED
        BY <4>1, <4>2
    <3>3. NodeAt(l, ord[l], i) # m /\ NodeAt(l, ord[l], i + 1) # m
      BY <3>2, <1>1
    <3>4. NodeAt(l, ord[l], i) # pv[m]
      BY <3>1, <3>3, <1>3
    <3> QED
      BY <3>1, <3>3, <3>4, <1>2
  <2> QED
    BY <2>1, <2>2 DEF IsRing
<1>5. CASE m \in ToSet(ord[l])
  <2>1. PICK i \in 1..Len(ord[l]) : ord[l][i] = m /\ Unlinked(ord[l], m) = RemoveAt(ord[l], i)
    BY <1>0, <1>1, <1>5, ToSetElement DEF Unlinked, ToSet
  <2>2. i - 1 \in 0..Len(ord[l]) /\ i \in 0..Len(ord[l]) /\ (i - 1) + 1 = i /\ i - 1 # i
    BY <1>1
  <2>3. nx[NodeAt(l, ord[l], i - 1)] = m /\ NodeAt(l, ord[l], i - 1) \in Nodes
    BY <2>1, <2>2, <1>0, <1>1 DEF IsRing
  <2>4. pv[m] = NodeAt(l, ord[l], i - 1)
    BY <2>3, <1>0, NodesApart, RegistryAssumption DEF TwoWay
  <2>5. \A j \in 0..Len(ord[l]) : j \notin {i - 1, i} =>
           NodeAt(l, ord[l], j) # m /\ NodeAt(l, ord[l], j) # pv[m]
    <3>1. NodeAt(l, ord[l], i) = m
      BY <2>1, <1>1
    <3> QED
      BY <2>2, <2>4, <3>1, NodesDiffer
  <2>6. pv[m] # m
    BY <2>1, <2>2, <2>4, <1>1, NodesDiffer
  <2>7. \A j \in 0..Len(ord[l]) : j \notin {i - 1, i} =>
           nx1[NodeAt(l, ord[l], j)] = nx[NodeAt(l, ord[l], j)]
    <3>1. \A j \in 0..Len(ord[l]) : NodeAt(l, ord[l], j) \in Nodes
      BY <1>1
    <3> QED
      BY <2>5, <3>1, <1>2
  <2>8. nx1[NodeAt(l, ord[l], i - 1)] = nx[ord[l][i]]
    BY <2>1, <2>4, <2>6, <1>2
  <2>9. IsRing(nx1, l, RemoveAt(ord[l], i))
    BY <2>7, <2>8, <1>0, ShorterRing
  <2> QED
    BY <2>1, <2>9
<1> QED
  BY <1>4, <1>5

LEMMA DeleteUnlinks ==
  ASSUME NEW nx, NEW pv, NEW ord, WellLinked(nx, pv, ord),
         NEW m \in Modules, nx[m] # Null,
         NEW nx1, NEW pv1, Deletion(nx, pv, m, nx1, pv1)
  PROVE  WellLinked(nx1, pv1, [l \in Levels |-> Unlinked(ord[l], m)])
<1>0. /\ nx \in Links /\ pv \in Links /\ TwoWay(nx, pv)
      /\ ord \in Orders /\ \A l \in Levels : IsInjective(ord[l])
  BY DEF WellLinked
<1>1. PICK o1 : o1 = [l \in Levels |-> Unlinked(ord[l], m)]
  OBVIOUS
<1>2. \A l \in Levels : /\ o1[l] = Unlinked(ord[l], m)
                        /\ o1[l] \in Seq(Modules) /\ IsInjective(o1[l])
                        /\ ToSet(o1[l]) = ToSet(ord[l]) \ {m}
  <2> TAKE l \in Levels
  <2>1. ord[l] \in Seq(Modules) /\ IsInjective(ord[l])
    BY <1>0 DEF Orders
  <2>2. o1[l] = Unlinked(ord[l], m)
    BY <1>1
  <2> QED
    BY <2>1, <2>2, UnlinkedFacts
<1>3. o1 \in Orders
  BY <1>1, <1>2 DEF Orders
<1>4. /\ nx1 \in Links /\ pv1 \in Links /\ TwoWay(nx1, pv1)
      /\ nx1[m] = m
      /\ \A n \in Nodes : n # m /\ n # pv[m] => nx1[n] = nx[n]
      /\ pv[m] # m => nx1[pv[m]] = nx[m]
  BY <1>0, DeleteTwoWay
<1>5. \A l \in Levels : IsRing(nx1, l, o1[l])
  BY <1>2, DeleteRings
<1>6. \A l, k \in Levels : l # k => ToSet(o1[l]) \cap ToSet(o1[k]) = {}
  <2> SUFFICES ASSUME NEW l \in Levels, NEW k \in Levels, l # k
               PROVE  ToSet(o1[l]) \cap ToSet(o1[k]) = {}
    OBVIOUS
  <2>1. ToSet(ord[l]) \cap ToSet(ord[k]) = {}
    BY DEF WellLinked
  <2> QED
    BY <2>1, <1>2
<1>7. \A n \in Modules : nx1[n] \notin {Null, n} => \E l \in Levels : n \in ToSet(o1[l])
  <2> SUFFICES ASSUME NEW n \in Modules, nx1[n] \notin {Null, n}
               PROVE  \E l \in Levels : n \in ToSet(o1[l])
    OBVIOUS
  <2>1. n # m
    BY <1>4
  <2>2. nx[n] \notin {Null, n}
    <3>1. CASE n = pv[m]
      <4>1. nx[n] = m
        BY <3>1, <1>0, NodesApart DEF TwoWay
      <4> QED
        BY <4>1, <2>1, NodesApart
    <3>2. CASE n # pv[m]
      BY <3>2, <2>1, <1>4, NodesApart
    <3> QED
      BY <3>1, <3>2
  <2>3. PICK l \in Levels : n \in ToSet(ord[l])
    BY <2>2 DEF WellLinked
  <2> QED
    BY <2>1, <2>3, <1>2
<1> QED
  BY <1>1, <1>2, <1>3, <1>4, <1>5, <1>6, <1>7 DEF WellLinked

-----------------------------------------------------------------------------
(* The lists after each kind of step. *)

LEMMA OrderKept == UNCHANGED rings => UNCHANGED Order
BY DEF rings, Order, Ring

LEMMA OrderFacts ==
  ASSUME RingInv, initialized
  PROVE  /\ WellLinked(next, prev, Order)
         /\ \A l \in Levels : /\ Order[l] \in Seq(Modules) /\ Len(Order[l]) \in Nat
                              /\ DOMAIN Order[l] = 1..Len(Order[l])
                              /\ IsInjective(Order[l]) /\ IsRing(next, l, Order[l])
                              /\ Order[l] = Ring(l)
                              /\ ToSet(Order[l]) \subseteq Modules
         /\ AllOf(Order) \subseteq Modules
<1>1. WellLinked(next, prev, Order)
  BY DEF RingInv
<1>2. \A l \in Levels : Order[l] \in Seq(Modules) /\ IsInjective(Order[l]) /\ IsRing(next, l, Order[l])
  BY <1>1 DEF WellLinked, Orders
<1>3. \A l \in Levels : Order[l] = Ring(l)
  BY DEF Order
<1>4. \A l \in Levels : /\ Len(Order[l]) \in Nat /\ DOMAIN Order[l] = 1..Len(Order[l])
                        /\ ToSet(Order[l]) \subseteq Modules
  BY <1>2, ToSetElement
<1> QED
  BY <1>1, <1>2, <1>3, <1>4 DEF AllOf

LEMMA InsertOrder ==
  ASSUME RingInv, initialized, NEW m \in Modules, NEW l \in Levels,
         Detached(m), ListInsert(l, m)
  PROVE  /\ WellLinked(next', prev', Order')
         /\ Order' = [Order EXCEPT ![l] = Append(@, m)]
         /\ \A k \in Levels : m \notin ToSet(Order[k])
<1>1. WellLinked(next, prev, Order)
  BY DEF RingInv
<1>2. next[m] \in {Null, m}
  BY DEF Detached
<1>3. Insertion(next, prev, l, m, next', prev')
  BY DEF ListInsert, Insertion
<1>4. WellLinked(next', prev', [Order EXCEPT ![l] = Append(@, m)])
  BY <1>1, <1>2, <1>3, InsertAppends
<1>5. Order' = [k \in Levels |-> RingOf(next', k)]
  BY DEF Order, Ring
<1>6. Order' = [Order EXCEPT ![l] = Append(@, m)]
  BY <1>4, <1>5, LinkedIsOrder
<1>7. \A k \in Levels : m \notin ToSet(Order[k])
  BY <1>1, <1>2, InRing
<1> QED
  BY <1>4, <1>6, <1>7

LEMMA DeleteOrder ==
  ASSUME RingInv, initialized, NEW m \in Modules, next[m] # Null, ListDelete(m)
  PROVE  /\ WellLinked(next', prev', Order')
         /\ Order' = [k \in Levels |-> Unlinked(Order[k], m)]
         /\ \A k \in Levels : ToSet(Order'[k]) = ToSet(Order[k]) \ {m}
<1>1. WellLinked(next, prev, Order)
  BY DEF RingInv
<1>2. Deletion(next, prev, m, next', prev')
  BY DEF ListDelete, Deletion
<1>3. WellLinked(next', prev', [k \in Levels |-> Unlinked(Order[k], m)])
  BY <1>1, <1>2, DeleteUnlinks
<1>4. Order' = [k \in Levels |-> RingOf(next', k)]
  BY DEF Order, Ring
<1>5. Order' = [k \in Levels |-> Unlinked(Order[k], m)]
  BY <1>3, <1>4, LinkedIsOrder
<1>6. \A k \in Levels : ToSet(Order'[k]) = ToSet(Order[k]) \ {m}
  <2> TAKE k \in Levels
  <2>1. Order[k] \in Seq(Modules) /\ IsInjective(Order[k]) /\ Order'[k] = Unlinked(Order[k], m)
    BY <1>5, OrderFacts
  <2> QED
    BY <2>1, UnlinkedFacts
<1> QED
  BY <1>3, <1>5, <1>6

-----------------------------------------------------------------------------
(* The rings stay rings. *)

LEMMA InitInv == Init => IInv
<1> SUFFICES ASSUME Init PROVE IInv
  OBVIOUS
<1>1. TypeOK
  BY NodesApart DEF Init, TypeOK
<1>2. RingInv
  BY DEF Init, RingInv
<1>3. WalkInv
  BY DEF Init, WalkInv
<1> QED
  BY <1>1, <1>2, <1>3 DEF IInv

LEMMA StartedEmpty ==
  ASSUME RingInv, RegistryInit
  PROVE  /\ WellLinked(next', prev', Order')
         /\ Order' = [l \in Levels |-> <<>>]
<1>1. next = [n \in Nodes |-> Null] /\ prev = [n \in Nodes |-> Null]
  BY DEF RingInv, RegistryInit
<1>2. /\ next' = [n \in Nodes |-> IF n \in Levels THEN n ELSE Null]
      /\ prev' = [n \in Nodes |-> IF n \in Levels THEN n ELSE Null]
  BY <1>1 DEF RegistryInit
<1>3. WellLinked(next', prev', [l \in Levels |-> <<>>])
  BY <1>2, InitialRings
<1>4. Order' = [l \in Levels |-> RingOf(next', l)]
  BY DEF Order, Ring
<1> QED
  BY <1>3, <1>4, LinkedIsOrder

LEMMA RingInvStep == IInv /\ [Next]_vars => RingInv'
<1> SUFFICES ASSUME IInv, [Next]_vars PROVE RingInv'
  OBVIOUS
<1>0. RingInv /\ WalkInv
  BY DEF IInv
<1>1. CASE UNCHANGED <<rings, initialized>>
  BY <1>0, <1>1, OrderKept DEF RingInv, rings
<1>2. CASE RegistryInit
  BY <1>0, <1>2, StartedEmpty DEF RingInv, RegistryInit
<1>3. ASSUME NEW m \in Modules, NEW l \in Levels, Register(m, l) PROVE RingInv'
  BY <1>0, <1>3, InsertOrder DEF RingInv, Register
<1>4. ASSUME NEW m \in Modules, Unregister(m) PROVE RingInv'
  BY <1>0, <1>4, DeleteOrder DEF RingInv, Unregister
<1>5. CASE StopDeletes
  <2>1. node \in Modules /\ next[node] # Null /\ initialized
    BY <1>0, <1>5 DEF WalkInv, StopDeletes
  <2>2. ListDelete(node) /\ initialized'
    BY <1>5, <2>1 DEF StopDeletes
  <2> QED
    BY <1>0, <2>1, <2>2, DeleteOrder DEF RingInv
<1>6. ASSUME StartAll \/ StartModule \/ StartNextNode \/ StartNextLevel \/ StopAll
             \/ StopModule \/ StopNextLevel \/ StartFails \/ Ended \/ \E m \in Modules : Find(m)
      PROVE  UNCHANGED <<rings, initialized>>
  BY <1>6 DEF StartAll, StartModule, StartNextNode, StartNextLevel, StopAll, StopModule,
              StopNextLevel, StartFails, Ended, Find, vars
<1> QED
  BY <1>1, <1>2, <1>3, <1>4, <1>5, <1>6 DEF Next, MainStep, Callback, vars

-----------------------------------------------------------------------------
(* The walks. *)

LEMMA ReachedFacts ==
  ASSUME IInv, initialized, NEW p \in 0..Len(Order[level]) + 1, Reached(p)
  PROVE  /\ level \in Levels
         /\ Len(Order[level]) \in Nat /\ DOMAIN Order[level] = 1..Len(Order[level])
         /\ node \in Nodes
         /\ p \in 1..Len(Order[level]) => /\ node = Order[level][p] /\ node \in Modules
                                          /\ node \in ToSet(Order[level])
                                          /\ node # level
         /\ p \notin 1..Len(Order[level]) => node = level
<1>1. level \in Levels /\ RingInv
  BY DEF IInv, TypeOK
<1>2. /\ Order[level] \in Seq(Modules) /\ Len(Order[level]) \in Nat
      /\ DOMAIN Order[level] = 1..Len(Order[level])
  BY <1>1, OrderFacts
<1>3. node = NodeAt(level, Order[level], p)
  BY DEF Reached
<1>4. node \in Nodes
  BY <1>1, <1>2, <1>3, NodeAtFacts
<1>5. ASSUME p \in 1..Len(Order[level])
      PROVE  node = Order[level][p] /\ node \in Modules
  BY <1>1, <1>2, <1>3, <1>5, NodeAtFacts
<1>6. ASSUME p \in 1..Len(Order[level])
      PROVE  node \in ToSet(Order[level]) /\ node # level
  BY <1>1, <1>2, <1>5, <1>6, NodesApart DEF ToSet
<1>7. ASSUME p \notin 1..Len(Order[level])
      PROVE  node = level
  BY <1>2, <1>3, <1>7 DEF NodeAt
<1> QED
  BY <1>1, <1>2, <1>4, <1>5, <1>6, <1>7

(* The node behind position p. *)
LEMMA NextReached ==
  ASSUME IInv, initialized, NEW l \in Levels
  PROVE  \A p \in 0..Len(Order[l]) : next[NodeAt(l, Order[l], p)] = NodeAt(l, Order[l], p + 1)
BY OrderFacts DEF IInv, IsRing

LEMMA TypeStep == IInv /\ [Next]_vars => TypeOK'
<1> SUFFICES ASSUME IInv, [Next]_vars PROVE TypeOK'
  OBVIOUS
<1>0. TypeOK /\ RingInv /\ WalkInv
  BY DEF IInv
<1>1. next' \in Links /\ prev' \in Links
  <2>1. RingInv'
    BY RingInvStep
  <2>2. CASE initialized'
    BY <2>1, <2>2 DEF RingInv, WellLinked
  <2>3. CASE ~initialized'
    BY <2>1, <2>3 DEF RingInv, Links
  <2> QED
    BY <2>2, <2>3
<1> DEFINE Rest == /\ initialized' \in BOOLEAN
                   /\ running' \subseteq Modules
                   /\ phase' \in {"register", "start", "on_start", "run", "stop", "on_stop",
                                  "stopped", "failed"}
                   /\ level' \in Levels
                   /\ node' \in Nodes \cup {Null}
                   /\ found' \in Modules \cup {Null}
<1> SUFFICES Rest
  BY <1>1 DEF TypeOK, Links
<1>2. CASE UNCHANGED vars
  BY <1>0, <1>2 DEF TypeOK, vars, walk
<1>3. CASE RegistryInit
  BY <1>0, <1>3 DEF TypeOK, RegistryInit, walk
<1>4. CASE StartAll
  BY <1>0, <1>4, NodesApart DEF TypeOK, StartAll
<1>5. CASE StartModule
  <2>1. PICK p \in 1..Len(Order[level]) + 1 : Reached(p)
    BY <1>0, <1>5 DEF WalkInv, StartModule
  <2>2. initialized /\ node # level
    BY <1>0, <1>5 DEF WalkInv, StartModule
  <2>3. level \in Levels
    BY <1>0 DEF TypeOK
  <2>4. Len(Order[level]) \in Nat
    BY <1>0, <2>2, <2>3, OrderFacts
  <2>5. p \in 0..Len(Order[level]) + 1
    BY <2>1, <2>4
  <2>6. node \in Modules
    BY <2>1, <2>2, <2>5, ReachedFacts
  <2> QED
    BY <1>0, <1>5, <2>6 DEF TypeOK, StartModule
<1>6. CASE StartNextNode
  <2>1. node \in Nodes \/ node = Null
    BY <1>0 DEF TypeOK
  <2>2. PICK p \in 1..Len(Order[level]) : Reached(p)
    BY <1>0, <1>6 DEF WalkInv, StartNextNode
  <2>3. initialized
    BY <1>0, <1>6 DEF WalkInv, StartNextNode
  <2>4. level \in Levels
    BY <1>0 DEF TypeOK
  <2>5. Len(Order[level]) \in Nat
    BY <1>0, <2>3, <2>4, OrderFacts
  <2>6. p \in 0..Len(Order[level]) + 1
    BY <2>2, <2>5
  <2>7. node \in Nodes
    BY <2>2, <2>3, <2>6, ReachedFacts
  <2> QED
    BY <1>0, <1>6, <2>7 DEF TypeOK, StartNextNode
<1>7. CASE StartNextLevel
  BY <1>0, <1>7, NodesApart, LevelSteps DEF TypeOK, StartNextLevel
<1>8. CASE StartFails
  BY <1>0, <1>8 DEF TypeOK, StartFails
<1>9. CASE StopAll
  BY <1>0, <1>9, NodesApart DEF TypeOK, StopAll
<1>10. CASE StopModule
  BY <1>0, <1>10, NodesApart DEF TypeOK, StopModule
<1>11. CASE StopDeletes
  BY <1>0, <1>11 DEF TypeOK, StopDeletes
<1>12. CASE StopNextLevel
  BY <1>0, <1>12, LevelSteps DEF TypeOK, StopNextLevel
<1>13. ASSUME NEW m \in Modules, NEW l \in Levels, Register(m, l) PROVE Rest
  BY <1>0, <1>13 DEF TypeOK, Register, walk
<1>14. ASSUME NEW m \in Modules, Unregister(m) PROVE Rest
  BY <1>0, <1>14 DEF TypeOK, Unregister, walk
<1>15. ASSUME NEW m \in Modules, Find(m) PROVE Rest
  <2>1. found' \in Modules \cup {Null}
    <3>1. initialized
      BY <1>15 DEF Find
    <3>2. \A l \in Levels : \A i \in Hits(l, m) : Ring(l)[i] \in Modules
      <4> TAKE l \in Levels
      <4>1. Ring(l) \in Seq(Modules)
        BY <1>0, <3>1, OrderFacts
      <4> QED
        BY <4>1, LenProperties, ElementOfSeq DEF Hits
    <3> QED
      BY <1>15, <3>2 DEF Find
  <2> QED
    BY <1>0, <1>15, <2>1 DEF TypeOK, Find, walk
<1> QED
  BY <1>2, <1>3, <1>4, <1>5, <1>6, <1>7, <1>8, <1>9, <1>10, <1>11, <1>12, <1>13, <1>14, <1>15
     DEF Next, MainStep, Callback, Ended

(* A list whose first p modules are those in W stays one if a module that is  *)
(* not in W is appended or taken out.                                         *)
LEMMA AppendBehind ==
  ASSUME NEW S, NEW q \in Seq(S), NEW r \in S, NEW W, r \notin W,
         NEW p \in 0..Len(q), \A i \in DOMAIN q : q[i] \in W <=> i <= p
  PROVE  /\ p \in 0..Len(Append(q, r))
         /\ \A i \in 1..p : Append(q, r)[i] = q[i]
         /\ \A i \in DOMAIN Append(q, r) : Append(q, r)[i] \in W <=> i <= p
<1>1. PICK t \in Seq(S) : t = Append(q, r)
  BY AppendProperties
<1>2. /\ Len(q) \in Nat /\ DOMAIN q = 1..Len(q)
      /\ Len(t) = Len(q) + 1 /\ DOMAIN t = 1..Len(q) + 1
  BY <1>1, AppendProperties, LenProperties
<1>3. /\ \A i \in 1..Len(q) : t[i] = q[i]
      /\ t[Len(q) + 1] = r
  BY <1>1, AppendProperties
<1>4. p \in 0..Len(t) /\ \A i \in 1..p : t[i] = q[i]
  BY <1>2, <1>3
<1>5. ASSUME NEW i \in DOMAIN t PROVE t[i] \in W <=> i <= p
  <2>1. CASE i \in 1..Len(q)
    BY <2>1, <1>2, <1>3
  <2>2. CASE i = Len(q) + 1
    <3>1. ~(i <= p)
      BY <2>2, <1>2
    <3> QED
      BY <3>1, <2>2, <1>3
  <2> QED
    BY <2>1, <2>2, <1>2
<1> QED
  BY <1>1, <1>4, <1>5

LEMMA UnlinkedBehind ==
  ASSUME NEW S, NEW q \in Seq(S), NEW r, NEW W, r \notin W,
         NEW p \in 0..Len(q), \A i \in DOMAIN q : q[i] \in W <=> i <= p
  PROVE  /\ p \in 0..Len(Unlinked(q, r))
         /\ \A i \in 1..p : Unlinked(q, r)[i] = q[i]
         /\ \A i \in DOMAIN Unlinked(q, r) : Unlinked(q, r)[i] \in W <=> i <= p
<1>1. Len(q) \in Nat /\ DOMAIN q = 1..Len(q)
  BY LenProperties
<1>2. CASE r \notin ToSet(q)
  <2>1. Unlinked(q, r) = q
    BY <1>2, ToSetElement DEF Unlinked
  <2> QED
    BY <2>1
<1>3. CASE r \in ToSet(q)
  <2>1. PICK n \in 1..Len(q) : q[n] = r /\ Unlinked(q, r) = RemoveAt(q, n)
    BY <1>1, <1>3, ToSetElement DEF Unlinked, ToSet
  <2>2. n \in DOMAIN q /\ n > p
    BY <2>1, <1>1
  <2>3. PICK t \in Seq(S) : /\ t = RemoveAt(q, n)
                            /\ Len(t) = Len(q) - 1
                            /\ \A j \in 1..(Len(q) - 1) : t[j] = IF j < n THEN q[j] ELSE q[j + 1]
    <3>1. /\ RemoveAt(q, n) \in Seq(S)
          /\ Len(RemoveAt(q, n)) = Len(q) - 1
          /\ \A j \in 1..(Len(q) - 1) : RemoveAt(q, n)[j] = IF j < n THEN q[j] ELSE q[j + 1]
      BY <2>2, RemoveAtProperties
    <3> QED
      BY <3>1
  <2>4. DOMAIN t = 1..(Len(q) - 1)
    BY <2>3, LenProperties
  <2>5. p \in 0..Len(t) /\ \A i \in 1..p : i \in 1..(Len(q) - 1) /\ i < n
    BY <2>1, <2>2, <2>3, <1>1
  <2>6. \A i \in 1..p : t[i] = q[i]
    BY <2>3, <2>5
  <2>7. ASSUME NEW i \in DOMAIN t PROVE t[i] \in W <=> i <= p
    <3>0. i \in 1..(Len(q) - 1) /\ i \in DOMAIN q /\ i + 1 \in DOMAIN q
      BY <2>4, <1>1
    <3>1. CASE i < n
      <4>1. t[i] = q[i]
        BY <3>0, <3>1, <2>3
      <4> QED
        BY <4>1, <3>0
    <3>2. CASE ~(i < n)
      <4>1. t[i] = q[i + 1]
        BY <3>0, <3>2, <2>3
      <4>2. ~(i + 1 <= p) /\ ~(i <= p)
        BY <3>2, <2>1, <2>2, <2>4, <1>1
      <4> QED
        BY <4>1, <4>2, <3>0
    <3> QED
      BY <3>1, <3>2
  <2> QED
    BY <2>1, <2>3, <2>5, <2>6, <2>7
<1> QED
  BY <1>2, <1>3

LEMMA WalkRegister ==
  ASSUME IInv, NEW m \in Modules, NEW l \in Levels, Register(m, l)
  PROVE  WalkInv'
<1>0. TypeOK /\ RingInv /\ WalkInv
  BY DEF IInv
<1>1. /\ initialized /\ initialized' /\ running' = running /\ phase' = phase
      /\ level' = level /\ node' = node /\ Detached(m) /\ ListInsert(l, m)
  BY DEF Register, walk
<1>2. /\ Order' = [Order EXCEPT ![l] = Append(@, m)]
      /\ \A k \in Levels : m \notin ToSet(Order[k])
  BY <1>0, <1>1, InsertOrder
<1>3. \A k \in Levels : Order[k] \in Seq(Modules)
  BY <1>0, <1>1, OrderFacts
<1>4. /\ Order'[l] = Append(Order[l], m) /\ ToSet(Order'[l]) = ToSet(Order[l]) \cup {m}
      /\ \A k \in Levels : k # l => Order'[k] = Order[k]
  <2>1. Order \in Orders
    BY <1>0, <1>1 DEF RingInv, WellLinked
  <2> QED
    BY <2>1, <1>2, <1>3, ToSetAppend DEF Orders
<1>5. m \notin running
  BY <1>0, <1>2 DEF WalkInv, AllOf
<1>6. running \subseteq AllOf(Order')
  BY <1>0, <1>4 DEF WalkInv, AllOf
<1>7. CASE phase = "register"
  BY <1>0, <1>1, <1>6, <1>7 DEF WalkInv
<1>8. CASE phase = "on_start" /\ l >= level
  <2>0. level \in Levels /\ level \in Nat
    BY <1>0, NodesApart DEF TypeOK
  <2>1. PICK p \in 1..Len(Order[level]) : Reached(p) /\ Upto(p)
    BY <1>0, <1>8 DEF WalkInv
  <2>2. Len(Order[level]) \in Nat /\ DOMAIN Order[level] = 1..Len(Order[level])
    BY <2>0, <1>3, LenProperties
  <2>3. node = Order[level][p]
    BY <2>1, <2>2 DEF Reached, NodeAt
  <2>4. /\ p \in 0..Len(Order'[level])
        /\ \A i \in 1..p : Order'[level][i] = Order[level][i]
        /\ \A i \in DOMAIN Order'[level] : Order'[level][i] \in running <=> i <= p
    <3>1. CASE l = level
      <4>1. p \in 0..Len(Order[level]) /\ \A i \in DOMAIN Order[level] : Order[level][i] \in running <=> i <= p
        BY <2>1, <2>2 DEF Upto
      <4> QED
        BY <4>1, <3>1, <1>3, <1>4, <1>5, <2>0, AppendBehind
    <3>2. CASE l # level
      BY <3>2, <1>4, <2>0, <2>1, <2>2 DEF Upto
    <3> QED
      BY <3>1, <3>2
  <2>5. Len(Order'[level]) \in Nat /\ DOMAIN Order'[level] = 1..Len(Order'[level])
    <3>1. Order'[level] \in Seq(Modules)
      BY <2>0, <1>0, <1>1, InsertOrder DEF WellLinked, Orders
    <3> QED
      BY <3>1, LenProperties
  <2>6. p \in 1..Len(Order'[level]) /\ node = NodeAt(level, Order'[level], p)
    BY <2>1, <2>2, <2>3, <2>4, <2>5 DEF NodeAt
  <2>7. \A k \in Levels : /\ k < level => ToSet(Order'[k]) \subseteq running
                          /\ k > level => ToSet(Order'[k]) \cap running = {}
    <3> TAKE k \in Levels
    <3>1. /\ k < level => ToSet(Order[k]) \subseteq running
          /\ k > level => ToSet(Order[k]) \cap running = {}
      BY <2>1 DEF Reached
    <3>2. CASE k = l
      <4>1. ~(k < level) /\ ToSet(Order'[k]) = ToSet(Order[k]) \cup {m}
        BY <3>2, <1>4, <1>8, <2>0, NodesApart
      <4> QED
        BY <3>1, <4>1, <1>5
    <3>3. CASE k # l
      BY <3>1, <3>3, <1>4
    <3> QED
      BY <3>2, <3>3
  <2>8. Reached(p)' /\ Upto(p)'
    BY <2>4, <2>6, <2>7, <1>1 DEF Reached, Upto
  <2>9. \E q \in 1..Len(Order'[level']) : Reached(q)' /\ Upto(q)'
    BY <2>6, <2>8, <1>1
  <2> QED
    BY <1>1, <1>6, <1>8, <2>9 DEF WalkInv
<1> QED
  BY <1>7, <1>8 DEF Register, MayRegister

LEMMA WalkUnregister ==
  ASSUME IInv, NEW m \in Modules, Unregister(m)
  PROVE  WalkInv'
<1>0. TypeOK /\ RingInv /\ WalkInv
  BY DEF IInv
<1>1. /\ initialized /\ initialized' /\ running' = running /\ phase' = phase
      /\ level' = level /\ node' = node /\ next[m] # Null /\ ListDelete(m)
  BY DEF Unregister, walk
<1>2. /\ Order' = [k \in Levels |-> Unlinked(Order[k], m)]
      /\ \A k \in Levels : ToSet(Order'[k]) = ToSet(Order[k]) \ {m}
      /\ Order' \in Orders
  BY <1>0, <1>1, DeleteOrder DEF WellLinked
<1>3. /\ \A k \in Levels : Order[k] \in Seq(Modules)
      /\ \A k \in Levels : Order'[k] \in Seq(Modules)
  BY <1>0, <1>1, <1>2, OrderFacts DEF Orders
<1>4. AllOf(Order') = AllOf(Order) \ {m}
  BY <1>2 DEF AllOf
<1>5. m \notin running
  BY <1>0 DEF WalkInv, Unregister, MayUnregister
<1>6. running \subseteq AllOf(Order')
  BY <1>0, <1>4, <1>5 DEF WalkInv
<1>7. CASE phase = "register"
  BY <1>0, <1>1, <1>6, <1>7 DEF WalkInv
<1>8. CASE phase = "on_start"
  <2>0. level \in Levels
    BY <1>0 DEF TypeOK
  <2>1. PICK p \in 1..Len(Order[level]) : Reached(p) /\ Upto(p)
    BY <1>0, <1>8 DEF WalkInv
  <2>2. Len(Order[level]) \in Nat /\ DOMAIN Order[level] = 1..Len(Order[level])
    BY <2>0, <1>3, LenProperties
  <2>3. node = Order[level][p]
    BY <2>1, <2>2 DEF Reached, NodeAt
  <2>4. /\ p \in 0..Len(Order'[level])
        /\ \A i \in 1..p : Order'[level][i] = Order[level][i]
        /\ \A i \in DOMAIN Order'[level] : Order'[level][i] \in running <=> i <= p
    <3>1. p \in 0..Len(Order[level]) /\ \A i \in DOMAIN Order[level] : Order[level][i] \in running <=> i <= p
      BY <2>1, <2>2 DEF Upto
    <3>2. Order'[level] = Unlinked(Order[level], m)
      BY <2>0, <1>2
    <3> QED
      BY <3>1, <3>2, <1>3, <1>5, <2>0, UnlinkedBehind
  <2>5. Len(Order'[level]) \in Nat /\ DOMAIN Order'[level] = 1..Len(Order'[level])
    BY <2>0, <1>3, LenProperties
  <2>6. p \in 1..Len(Order'[level]) /\ node = NodeAt(level, Order'[level], p)
    BY <2>1, <2>2, <2>3, <2>4, <2>5 DEF NodeAt
  <2>7. \A k \in Levels : /\ k < level => ToSet(Order'[k]) \subseteq running
                          /\ k > level => ToSet(Order'[k]) \cap running = {}
    BY <1>2, <2>1 DEF Reached
  <2>8. Reached(p)' /\ Upto(p)'
    BY <2>4, <2>6, <2>7, <1>1 DEF Reached, Upto
  <2>9. \E q \in 1..Len(Order'[level']) : Reached(q)' /\ Upto(q)'
    BY <2>6, <2>8, <1>1
  <2> QED
    BY <1>1, <1>6, <1>8, <2>9 DEF WalkInv
<1>9. CASE phase = "on_stop"
  <2>1. /\ node \in Modules /\ next[node] # Null
        /\ running = AllOf(Order) \ {node}
        /\ \A k \in Levels : k > level => Order[k] = <<>>
    BY <1>0, <1>9 DEF WalkInv
  <2>2. running' = AllOf(Order') \ {node'}
    BY <2>1, <1>1, <1>4, <1>5
  <2>3. next'[node'] # Null
    <3>1. next \in Links /\ prev \in Links
      BY <1>0, <1>1 DEF RingInv, WellLinked
    <3>2. next' = [next EXCEPT ![prev[m]] = next[m], ![m] = m]
      BY <1>1 DEF ListDelete
    <3>3. next'[node] = IF node = m THEN m ELSE IF node = prev[m] THEN next[m] ELSE next[node]
      BY <3>1, <3>2, <2>1, NodesApart DEF Links
    <3> QED
      BY <3>3, <2>1, <1>1, NodesApart
  <2>4. \A k \in Levels : k > level => Order'[k] = <<>>
    <3> SUFFICES ASSUME NEW k \in Levels, k > level PROVE Order'[k] = <<>>
      OBVIOUS
    <3>1. ToSet(Order[k]) = {}
      BY <2>1, <1>3, ToSetEmpty
    <3>2. ToSet(Order'[k]) = {}
      BY <3>1, <1>2
    <3> QED
      BY <3>2, <1>3, ToSetEmpty
  <2> QED
    BY <2>1, <2>2, <2>3, <2>4, <1>1, <1>6, <1>9 DEF WalkInv
<1> QED
  BY <1>7, <1>8, <1>9 DEF Unregister, MayUnregister

LEMMA WalkInit ==
  ASSUME IInv, RegistryInit
  PROVE  WalkInv'
<1>1. /\ initialized' /\ phase' = "register" /\ running' = running /\ running = {}
  BY DEF RegistryInit, walk, IInv, WalkInv
<1> QED
  BY <1>1 DEF WalkInv

(* StartAll and StartNextLevel come to the sentinel's first node. *)
LEMMA LevelReached ==
  ASSUME IInv, initialized, UNCHANGED <<rings, running>>,
         level' \in Levels, node' = next[level'],
         \A k \in Levels : /\ k < level' => ToSet(Order[k]) \subseteq running
                           /\ k >= level' => ToSet(Order[k]) \cap running = {}
  PROVE  \E p \in 1..Len(Order'[level']) + 1 : Reached(p)' /\ Upto(p - 1)'
<1>0. Order' = Order /\ RingInv
  BY OrderKept DEF IInv
<1>1. PICK l \in Levels : l = level'
  OBVIOUS
<1>2. /\ Order[l] \in Seq(Modules) /\ Len(Order[l]) \in Nat /\ DOMAIN Order[l] = 1..Len(Order[l])
      /\ NodeAt(l, Order[l], 0) = l
  BY <1>0, OrderFacts, NodeAtFacts
<1>3. next[l] = NodeAt(l, Order[l], 1)
  BY <1>2, NextReached
<1>4. \A k \in Levels : /\ k < l => ToSet(Order[k]) \subseteq running
                        /\ k > l => ToSet(Order[k]) \cap running = {}
  BY <1>1, NodesApart
<1>5. \A i \in DOMAIN Order[l] : Order[l][i] \notin running /\ ~(i <= 0)
  <2>1. ToSet(Order[l]) \cap running = {}
    BY <1>1, NodesApart
  <2> QED
    BY <2>1, <1>2 DEF ToSet
<1>6. Reached(1)'
  BY <1>0, <1>1, <1>3, <1>4 DEF Reached
<1>7. Upto(0)'
  BY <1>0, <1>1, <1>5 DEF Upto
<1>8. 1 \in 1..Len(Order[l]) + 1 /\ 1 - 1 = 0
  BY <1>2
<1> QED
  BY <1>0, <1>1, <1>6, <1>7, <1>8

LEMMA WalkStartAll ==
  ASSUME IInv, StartAll
  PROVE  WalkInv'
<1>0. TypeOK /\ RingInv /\ WalkInv
  BY DEF IInv
<1>1. /\ initialized /\ initialized' /\ running' = running /\ running = {}
      /\ phase' = "start" /\ level' = 0 /\ node' = next[level']
      /\ UNCHANGED <<rings, running>>
  BY <1>0 DEF StartAll, WalkInv
<1>2. level' \in Levels
  BY <1>1, NodesApart
<1>3. \A k \in Levels : /\ k < level' => ToSet(Order[k]) \subseteq running
                        /\ k >= level' => ToSet(Order[k]) \cap running = {}
  BY <1>1, NodesApart
<1>4. \E p \in 1..Len(Order'[level']) + 1 : Reached(p)' /\ Upto(p - 1)'
  BY <1>1, <1>2, <1>3, LevelReached
<1> QED
  BY <1>1, <1>4 DEF WalkInv

(* on_start runs: position p is the first that does not run. *)
LEMMA StartingAt ==
  ASSUME IInv, StartModule
  PROVE  /\ initialized /\ level \in Levels
         /\ \E p \in 1..Len(Order[level]) :
              /\ Reached(p) /\ Upto(p - 1)
              /\ node = Order[level][p] /\ node \in Modules /\ node \in ToSet(Order[level])
              /\ node \notin running
<1>0. TypeOK /\ RingInv /\ WalkInv
  BY DEF IInv
<1>1. initialized /\ level \in Levels /\ node # level
  BY <1>0 DEF StartModule, WalkInv, TypeOK
<1>2. PICK p \in 1..Len(Order[level]) + 1 : Reached(p) /\ Upto(p - 1)
  BY <1>0 DEF StartModule, WalkInv
<1>3. Len(Order[level]) \in Nat /\ DOMAIN Order[level] = 1..Len(Order[level])
  BY <1>0, <1>1, OrderFacts
<1>4. p \in 0..Len(Order[level]) + 1 /\ ~(p <= p - 1)
  BY <1>3
<1>5. p \in 1..Len(Order[level])
  BY <1>1, <1>2, <1>4, ReachedFacts
<1>6. node = Order[level][p] /\ node \in Modules /\ node \in ToSet(Order[level])
  BY <1>1, <1>2, <1>4, <1>5, ReachedFacts
<1>7. node \notin running
  BY <1>2, <1>3, <1>4, <1>5, <1>6 DEF Upto
<1> QED
  BY <1>1, <1>2, <1>5, <1>6, <1>7

LEMMA WalkStartModule ==
  ASSUME IInv, StartModule
  PROVE  WalkInv'
<1>0. TypeOK /\ RingInv /\ WalkInv
  BY DEF IInv
<1>1. PICK p \in 1..Len(Order[level]) :
              /\ Reached(p) /\ Upto(p - 1)
              /\ node = Order[level][p] /\ node \in Modules /\ node \in ToSet(Order[level])
  BY StartingAt
<1>2. /\ initialized /\ level \in Levels
      /\ initialized' /\ running' = running \cup {node} /\ phase' = "on_start"
      /\ level' = level /\ node' = node /\ Order' = Order
  BY OrderKept, StartingAt DEF StartModule
<1>3. \A k \in Levels : k > level => ToSet(Order[k]) \cap running' = {}
  <2> SUFFICES ASSUME NEW k \in Levels, k > level PROVE ToSet(Order[k]) \cap running' = {}
    OBVIOUS
  <2>1. k # level
    BY <1>2, NodesApart
  <2>2. node \notin ToSet(Order[k])
    BY <2>1, <1>0, <1>1, <1>2 DEF RingInv, WellLinked
  <2>3. ToSet(Order[k]) \cap running = {}
    BY <1>1 DEF Reached
  <2> QED
    BY <2>2, <2>3, <1>2
<1>4. Reached(p)'
  BY <1>1, <1>2, <1>3 DEF Reached
<1>5. Upto(p)'
  <2> SUFFICES ASSUME NEW i \in DOMAIN Order[level]
               PROVE  Order[level][i] \in running' <=> i <= p
    BY <1>2 DEF Upto
  <2>1. /\ DOMAIN Order[level] = 1..Len(Order[level]) /\ Len(Order[level]) \in Nat
        /\ IsInjective(Order[level])
    BY <1>0, <1>2, OrderFacts
  <2>2. Order[level][i] \in running <=> i <= p - 1
    BY <1>1 DEF Upto
  <2>3. Order[level][i] = node <=> i = p
    BY <2>1, <1>1 DEF IsInjective
  <2>4. i <= p <=> i <= p - 1 \/ i = p
    BY <2>1
  <2> QED
    BY <2>2, <2>3, <2>4, <1>2
<1>6. running' \subseteq AllOf(Order')
  BY <1>0, <1>1, <1>2 DEF WalkInv, AllOf
<1> QED
  BY <1>1, <1>2, <1>4, <1>5, <1>6 DEF WalkInv

LEMMA WalkStartNextNode ==
  ASSUME IInv, StartNextNode
  PROVE  WalkInv'
<1>0. TypeOK /\ RingInv /\ WalkInv
  BY DEF IInv
<1>1. /\ initialized /\ initialized' /\ level \in Levels
      /\ running' = running /\ phase' = "start" /\ level' = level /\ node' = next[node]
      /\ Order' = Order
  BY <1>0, OrderKept DEF StartNextNode, WalkInv, TypeOK
<1>2. PICK p \in 1..Len(Order[level]) : Reached(p) /\ Upto(p)
  BY <1>0 DEF StartNextNode, WalkInv
<1>3. Len(Order[level]) \in Nat
  BY <1>0, <1>1, OrderFacts
<1>4. p \in 0..Len(Order[level]) /\ p + 1 \in 1..Len(Order[level]) + 1 /\ (p + 1) - 1 = p
  BY <1>3
<1>5. node' = NodeAt(level, Order[level], p + 1)
  BY <1>1, <1>2, <1>4, NextReached DEF Reached
<1>6. Reached(p + 1)'
  BY <1>1, <1>2, <1>5 DEF Reached
<1>7. Upto(p)'
  BY <1>1, <1>2 DEF Upto
<1>8. running' \subseteq AllOf(Order')
  BY <1>0, <1>1 DEF WalkInv
<1>9. \E q \in 1..Len(Order'[level']) + 1 : Reached(q)' /\ Upto(q - 1)'
  BY <1>1, <1>4, <1>6, <1>7
<1> QED
  BY <1>1, <1>8, <1>9 DEF WalkInv

LEMMA WalkStartFails ==
  ASSUME IInv, StartFails
  PROVE  WalkInv'
<1>1. /\ initialized' /\ phase' = "failed" /\ Order' = Order
      /\ running' \subseteq AllOf(Order)
  BY OrderKept DEF StartFails, IInv, WalkInv
<1> QED
  BY <1>1 DEF WalkInv

(* Where a level ends all its modules run. *)
LEMMA LevelDone ==
  ASSUME IInv, StartNextLevel
  PROVE  /\ initialized /\ level \in Levels
         /\ \A k \in Levels : /\ k <= level => ToSet(Order[k]) \subseteq running
                              /\ k > level => ToSet(Order[k]) \cap running = {}
<1>0. TypeOK /\ RingInv /\ WalkInv
  BY DEF IInv
<1>1. initialized /\ level \in Levels /\ node = level
  BY <1>0 DEF StartNextLevel, WalkInv, TypeOK
<1>2. PICK p \in 1..Len(Order[level]) + 1 : Reached(p) /\ Upto(p - 1)
  BY <1>0 DEF StartNextLevel, WalkInv
<1>3. Len(Order[level]) \in Nat /\ DOMAIN Order[level] = 1..Len(Order[level])
  BY <1>0, <1>1, OrderFacts
<1>4. p \in 0..Len(Order[level]) + 1
  BY <1>3
<1>5. p \notin 1..Len(Order[level])
  BY <1>1, <1>2, <1>4, ReachedFacts
<1>6. \A i \in 1..Len(Order[level]) : i <= p - 1
  BY <1>3, <1>5
<1>7. ToSet(Order[level]) \subseteq running
  BY <1>2, <1>3, <1>6 DEF Upto, ToSet
<1>8. ASSUME NEW k \in Levels, k <= level PROVE ToSet(Order[k]) \subseteq running
  <2>1. CASE k = level
    BY <2>1, <1>7
  <2>2. CASE k # level
    <3>1. k < level
      BY <2>2, <1>1, <1>8, NodesApart
    <3> QED
      BY <3>1, <1>2 DEF Reached
  <2> QED
    BY <2>1, <2>2
<1> QED
  BY <1>1, <1>2, <1>8 DEF Reached

LEMMA WalkStartNextLevel ==
  ASSUME IInv, StartNextLevel
  PROVE  WalkInv'
<1>0. TypeOK /\ RingInv /\ WalkInv
  BY DEF IInv
<1>1. /\ initialized /\ initialized' /\ level \in Levels /\ level \in Nat
      /\ running' = running /\ Order' = Order /\ UNCHANGED <<rings, running>>
  BY LevelDone, OrderKept, NodesApart DEF StartNextLevel
<1>2. running' \subseteq AllOf(Order')
  BY <1>0, <1>1 DEF WalkInv
<1>3. CASE level + 1 < MaxLevel
  <2>1. phase' = "start" /\ level' = level + 1 /\ node' = next[level'] /\ level' \in Levels
    BY <1>1, <1>3, LevelSteps DEF StartNextLevel
  <2>2. \A k \in Levels : /\ k < level' => ToSet(Order[k]) \subseteq running
                          /\ k >= level' => ToSet(Order[k]) \cap running = {}
    <3>1. \A k \in Levels : (k < level' => k <= level) /\ (k >= level' => k > level)
      BY <2>1, <1>1, NodesApart
    <3> QED
      BY <3>1, LevelDone
  <2>3. \E p \in 1..Len(Order'[level']) + 1 : Reached(p)' /\ Upto(p - 1)'
    BY <2>1, <2>2, <1>1, LevelReached
  <2> QED
    BY <2>1, <2>3, <1>1, <1>2 DEF WalkInv
<1>4. CASE ~(level + 1 < MaxLevel)
  <2>1. phase' = "run"
    BY <1>4 DEF StartNextLevel
  <2>2. \A k \in Levels : k <= level
    BY <1>1, <1>4, LevelSteps DEF Levels
  <2>3. AllOf(Order) \subseteq running
    BY <2>2, LevelDone DEF AllOf
  <2> QED
    BY <2>1, <2>3, <1>1, <1>2 DEF WalkInv
<1> QED
  BY <1>3, <1>4

LEMMA WalkStopAll ==
  ASSUME IInv, StopAll
  PROVE  WalkInv'
<1>0. TypeOK /\ RingInv /\ WalkInv
  BY DEF IInv
<1>1. /\ initialized' /\ phase' = "stop" /\ level' = MaxLevel - 1
      /\ running' = running /\ Order' = Order /\ running = AllOf(Order)
  BY <1>0, OrderKept DEF StopAll, WalkInv
<1>2. \A k \in Levels : ~(k > MaxLevel - 1)
  BY RegistryAssumption DEF Levels
<1> QED
  BY <1>1, <1>2 DEF WalkInv

(* A ring is empty when its sentinel is linked to itself. *)
LEMMA EmptyRing ==
  ASSUME RingInv, initialized, NEW l \in Levels
  PROVE  /\ next[l] = l => Order[l] = <<>>
         /\ next[l] # l => next[l] \in ToSet(Order[l]) /\ next[l] \in Modules
<1>1. /\ Order[l] \in Seq(Modules) /\ Len(Order[l]) \in Nat /\ DOMAIN Order[l] = 1..Len(Order[l])
      /\ IsRing(next, l, Order[l]) /\ ToSet(Order[l]) \subseteq Modules
  BY OrderFacts
<1>2. NodeAt(l, Order[l], 0) = l /\ 0 \in 0..Len(Order[l])
  BY <1>1, NodeAtFacts
<1>3. next[l] = NodeAt(l, Order[l], 1)
  BY <1>1, <1>2 DEF IsRing
<1>4. CASE Len(Order[l]) = 0
  <2>1. Order[l] = <<>>
    BY <1>1, <1>4, ToSetEmpty
  <2>2. next[l] = l
    BY <1>1, <1>3, <1>4 DEF NodeAt
  <2> QED
    BY <2>1, <2>2
<1>5. CASE Len(Order[l]) # 0
  <2>1. 1 \in DOMAIN Order[l]
    BY <1>1, <1>5
  <2>2. next[l] = Order[l][1]
    BY <2>1, <1>3 DEF NodeAt
  <2>3. next[l] \in ToSet(Order[l])
    BY <2>1, <2>2 DEF ToSet
  <2> QED
    BY <2>3, <1>1, NodesApart
<1> QED
  BY <1>4, <1>5

LEMMA StoppingAt ==
  ASSUME IInv, StopModule
  PROVE  /\ initialized /\ level \in Levels
         /\ node' \in ToSet(Order[level]) /\ node' \in Modules /\ next[node'] # Null
         /\ node' \in running /\ running = AllOf(Order) /\ running' = running \ {node'}
         /\ \A k \in Levels : k > level => Order[k] = <<>>
<1>0. TypeOK /\ RingInv /\ WalkInv
  BY DEF IInv
<1>1. /\ initialized /\ level \in Levels /\ running = AllOf(Order)
      /\ \A k \in Levels : k > level => Order[k] = <<>>
  BY <1>0 DEF StopModule, WalkInv, TypeOK
<1>2. node' = next[level] /\ next[level] # level /\ running' = running \ {node'}
  BY DEF StopModule
<1>3. node' \in ToSet(Order[level]) /\ node' \in Modules
  BY <1>0, <1>1, <1>2, EmptyRing
<1>4. next[node'] # Null
  BY <1>0, <1>1, <1>3, InRing DEF RingInv
<1>5. node' \in running
  BY <1>1, <1>3 DEF AllOf
<1> QED
  BY <1>1, <1>2, <1>3, <1>4, <1>5

LEMMA WalkStopModule ==
  ASSUME IInv, StopModule
  PROVE  WalkInv'
<1>1. /\ initialized' /\ phase' = "on_stop" /\ level' = level
      /\ Order' = Order /\ next' = next
  BY StoppingAt, OrderKept DEF StopModule, rings
<1>2. PICK m \in Modules : m = node'
  BY StoppingAt
<1>3. /\ next[m] # Null /\ running' = AllOf(Order) \ {m}
      /\ \A k \in Levels : k > level => Order[k] = <<>>
  BY <1>2, StoppingAt
<1> QED
  BY <1>1, <1>2, <1>3 DEF WalkInv

LEMMA WalkStopDeletes ==
  ASSUME IInv, StopDeletes
  PROVE  WalkInv'
<1>0. TypeOK /\ RingInv /\ WalkInv
  BY DEF IInv
<1>1. /\ initialized /\ initialized' /\ ListDelete(node) /\ node \in Modules /\ next[node] # Null
      /\ running = AllOf(Order) \ {node} /\ running' = running
      /\ phase' = "stop" /\ level' = level
      /\ \A k \in Levels : k > level => Order[k] = <<>>
  BY <1>0 DEF StopDeletes, WalkInv
<1>2. PICK m \in Modules : m = node
  BY <1>1
<1>3. /\ \A k \in Levels : ToSet(Order'[k]) = ToSet(Order[k]) \ {m}
      /\ Order' \in Orders
  BY <1>0, <1>1, <1>2, DeleteOrder DEF WellLinked
<1>4. running' = AllOf(Order')
  BY <1>1, <1>2, <1>3 DEF AllOf
<1>5. \A k \in Levels : k > level => Order'[k] = <<>>
  <2> SUFFICES ASSUME NEW k \in Levels, k > level PROVE Order'[k] = <<>>
    OBVIOUS
  <2>1. Order[k] \in Seq(Modules) /\ Order'[k] \in Seq(Modules)
    BY <1>0, <1>1, <1>3, OrderFacts DEF Orders
  <2>2. ToSet(Order[k]) = {}
    BY <2>1, <1>1, ToSetEmpty
  <2>3. ToSet(Order'[k]) = {}
    BY <2>2, <1>3
  <2> QED
    BY <2>1, <2>3, ToSetEmpty
<1> QED
  BY <1>1, <1>4, <1>5 DEF WalkInv

LEMMA NothingInEmpty == ToSet(<<>>) = {}
<1>1. <<>> \in Seq(Modules)
  OBVIOUS
<1> QED
  BY <1>1, ToSetEmpty

LEMMA WalkStopNextLevel ==
  ASSUME IInv, StopNextLevel
  PROVE  WalkInv'
<1>0. TypeOK /\ RingInv /\ WalkInv
  BY DEF IInv
<1>1. /\ initialized /\ initialized' /\ level \in Levels /\ level \in Nat
      /\ running = AllOf(Order) /\ running' = running /\ Order' = Order
      /\ \A k \in Levels : k > level => Order[k] = <<>>
  BY <1>0, OrderKept, NodesApart DEF StopNextLevel, WalkInv, TypeOK
<1>2. Order[level] = <<>>
  BY <1>0, <1>1, EmptyRing DEF StopNextLevel
<1>3. \A k \in Levels : k >= level => Order[k] = <<>>
  BY <1>1, <1>2, NodesApart
<1>4. CASE level > 0
  <2>1. phase' = "stop" /\ level' = level - 1
    BY <1>4 DEF StopNextLevel
  <2>2. \A k \in Levels : k > level' => Order'[k] = <<>>
    BY <2>1, <1>1, <1>3, NodesApart
  <2> QED
    BY <2>1, <2>2, <1>1 DEF WalkInv
<1>5. CASE ~(level > 0)
  <2>1. phase' = "stopped"
    BY <1>5 DEF StopNextLevel
  <2>2. \A k \in Levels : Order[k] = <<>>
    BY <1>1, <1>3, <1>5, NodesApart
  <2>3. AllOf(Order) = {}
    BY <2>2, NothingInEmpty DEF AllOf
  <2> QED
    BY <2>1, <2>2, <2>3, <1>1 DEF WalkInv
<1> QED
  BY <1>4, <1>5

LEMMA WalkKept ==
  ASSUME WalkInv, UNCHANGED <<rings, initialized, running, walk>>
  PROVE  WalkInv'
<1>1. /\ Order' = Order /\ next' = next /\ initialized' = initialized /\ running' = running
      /\ phase' = phase /\ level' = level /\ node' = node
  BY OrderKept DEF walk, rings
<1>2. \A p : (Reached(p) <=> Reached(p)') /\ (Upto(p) <=> Upto(p)')
  BY <1>1 DEF Reached, Upto
<1> QED
  BY <1>1, <1>2 DEF WalkInv

LEMMA WalkInvStep == IInv /\ [Next]_vars => WalkInv'
<1> SUFFICES ASSUME IInv, [Next]_vars PROVE WalkInv'
  OBVIOUS
<1>0. WalkInv
  BY DEF IInv
<1>1. CASE UNCHANGED vars
  BY <1>0, <1>1, WalkKept DEF vars
<1>2. ASSUME NEW m \in Modules, Find(m) PROVE WalkInv'
  BY <1>0, <1>2, WalkKept DEF Find
<1>3. CASE Ended
  BY <1>0, <1>3, WalkKept DEF Ended, vars
<1> QED
  BY <1>1, <1>2, <1>3, WalkInit, WalkRegister, WalkUnregister, WalkStartAll, WalkStartModule,
     WalkStartNextNode, WalkStartFails, WalkStartNextLevel, WalkStopAll, WalkStopModule,
     WalkStopDeletes, WalkStopNextLevel
     DEF Next, MainStep, Callback

LEMMA NoRings ==
  ASSUME next = [n \in Nodes |-> Null]
  PROVE  Order = [l \in Levels |-> <<>>]
<1>1. ASSUME NEW l \in Levels, NEW s \in Walks PROVE ~IsRing(next, l, s)
  <2>1. s \in Seq(Modules)
    BY <1>1, WalksAreSequences
  <2>2. Len(s) \in Nat /\ NodeAt(l, s, 0) = l /\ NodeAt(l, s, 1) \in Nodes
    BY <2>1, NodeAtFacts
  <2>3. 0 \in 0..Len(s) /\ next[l] = Null
    BY <2>2, NodesApart
  <2> QED
    BY <2>2, <2>3, RegistryAssumption DEF IsRing
<1>2. \A l \in Levels : Ring(l) = <<>>
  BY <1>1 DEF Ring, RingOf
<1> QED
  BY <1>2 DEF Order

LEMMA Inductive == Spec => []IInv
<1>1. IInv /\ [Next]_vars => IInv'
  BY TypeStep, RingInvStep, WalkInvStep DEF IInv
<1> QED
  BY InitInv, <1>1, PTL DEF Spec

-----------------------------------------------------------------------------
(* The registry's variables keep their types for any modules and levels: the  *)
(* walks never follow a null link and on_start and on_stop are called for     *)
(* modules only, never for a sentinel.                                        *)
THEOREM TypeCorrect == Spec => []TypeOK
<1>1. IInv => TypeOK
  BY DEF IInv
<1> QED
  BY Inductive, <1>1, PTL

(* The rings stay rings, of any number of modules and levels: next and prev   *)
(* are inverse and a linked module is in one ring.                            *)
THEOREM RingsStayRings == Spec => []RingsWellFormed
<1>1. ASSUME IInv PROVE RingsWellFormed
  <2>0. TypeOK /\ RingInv
    BY <1>1 DEF IInv
  <2>1. CASE ~initialized
    <3>1. /\ next = [n \in Nodes |-> Null] /\ prev = [n \in Nodes |-> Null]
          /\ \A l \in Levels : next[l] = Null
      BY <2>0, <2>1, NodesApart DEF RingInv
    <3>2. \A l \in Levels : ToSet(Ring(l)) = {}
      BY <3>1, NoRings, NothingInEmpty DEF Order
    <3>3. \A m \in Modules : Detached(m) /\ {l \in Levels : m \in ToSet(Ring(l))} = {}
      BY <3>1, <3>2, NodesApart DEF Detached
    <3> QED
      BY <3>1, <3>3, FS_EmptySet DEF RingsWellFormed
  <2>2. CASE initialized
    <3>1. /\ WellLinked(next, prev, Order)
          /\ \A l \in Levels : Order[l] = Ring(l)
      BY <2>0, <2>2, OrderFacts
    <3>2. TwoWay(next, prev)
      BY <3>1 DEF WellLinked
    <3>3. ASSUME NEW m \in Modules
          PROVE  Cardinality({l \in Levels : m \in ToSet(Ring(l))}) = (IF Detached(m) THEN 0 ELSE 1)
      <4>1. CASE Detached(m)
        <5>1. {l \in Levels : m \in ToSet(Ring(l))} = {}
          BY <4>1, <3>1, InRing DEF Detached
        <5> QED
          BY <5>1, <4>1, FS_EmptySet
      <4>2. CASE ~Detached(m)
        <5>1. PICK l \in Levels : m \in ToSet(Order[l])
          BY <4>2, <3>1 DEF Detached, WellLinked
        <5>2. \A k \in Levels : m \in ToSet(Order[k]) => k = l
          BY <5>1, <3>1 DEF WellLinked
        <5>3. {k \in Levels : m \in ToSet(Ring(k))} = {l}
          BY <5>1, <5>2, <3>1
        <5> QED
          BY <5>3, <4>2, FS_Singleton
      <4> QED
        BY <4>1, <4>2
    <3> QED
      BY <3>2, <3>3 DEF RingsWellFormed, TwoWay
  <2> QED
    BY <2>1, <2>2
<1> QED
  BY Inductive, <1>1, PTL

(* Whatever the callbacks register and unregister in the middle of the walks, *)
(* startall has started all registered modules when it returns, and stopall   *)
(* leaves none running and none registered.                                   *)
THEOREM WalksMissNobody == Spec => []WalksComplete
<1>1. ASSUME IInv PROVE WalksComplete
  <2>0. WalkInv /\ \A l \in Levels : Order[l] = Ring(l)
    BY <1>1 DEF IInv, Order
  <2>1. CASE phase = "run"
    <3>1. initialized /\ RingInv
      BY <1>1, <2>0, <2>1 DEF IInv, WalkInv
    <3>2. \A l \in Levels : ToSet(Order[l]) \subseteq Modules
      BY <3>1, OrderFacts
    <3>3. Listed = AllOf(Order)
      BY <3>2, <2>0 DEF Listed, AllOf
    <3> QED
      BY <3>3, <2>0, <2>1 DEF WalksComplete, WalkInv
  <2>2. CASE phase = "stopped"
    <3>1. running = {} /\ \A l \in Levels : Ring(l) = <<>>
      BY <2>0, <2>2 DEF WalkInv
    <3>2. ToSet(<<>>) = {}
      BY NothingInEmpty
    <3>3. Listed = {}
      BY <3>1, <3>2 DEF Listed
    <3> QED
      BY <3>1, <3>3, <2>2 DEF WalksComplete
  <2>3. CASE phase \notin {"run", "stopped"}
    BY <2>3 DEF WalksComplete
  <2> QED
    BY <2>1, <2>2, <2>3
<1> QED
  BY Inductive, <1>1, PTL

-----------------------------------------------------------------------------
(* The rings implement the lists of LevelLists. *)

(* The instance has the operators of the libraries once more. *)
LEMMA ListsOperators ==
  /\ \A s : Lists!ToSet(s) = ToSet(s)
  /\ \A s, e : Lists!Contains(s, e) <=> Contains(s, e)
  /\ \A s, e : Lists!Unlinked(s, e) = Unlinked(s, e)
BY DEF Lists!ToSet, ToSet, Lists!Contains, Contains, Lists!RemoveAt, RemoveAt,
       Lists!Unlinked, Unlinked

LEMMA ListsInit == Init => Lists!Init
BY NoRings DEF Init, Lists!Init

ListsVars == <<Order, running, found>>

LEMMA ListsRegister ==
  ASSUME IInv, NEW m \in Modules, NEW l \in Levels, Register(m, l)
  PROVE  Lists!Register(m, l)
<1>1. /\ RingInv /\ initialized /\ Detached(m) /\ ListInsert(l, m)
      /\ UNCHANGED <<running, found>>
  BY DEF IInv, Register
<1>2. /\ Order' = [Order EXCEPT ![l] = Append(@, m)]
      /\ \A k \in Levels : m \notin ToSet(Order[k])
  BY <1>1, InsertOrder
<1>3. ~Lists!Listed(m)
  <2>1. \A k \in Levels : Order[k] \in Seq(Modules)
    BY <1>1, OrderFacts
  <2> QED
    BY <2>1, <1>2, ToSetElement, ListsOperators DEF Lists!Listed
<1> QED
  BY <1>1, <1>2, <1>3 DEF Lists!Register

LEMMA ListsUnregister ==
  ASSUME IInv, NEW m \in Modules, Unregister(m)
  PROVE  Lists!Unregister(m)
<1>1. /\ RingInv /\ initialized /\ next[m] # Null /\ ListDelete(m)
      /\ UNCHANGED <<running, found>>
  BY DEF IInv, Unregister
<1>2. Order' = [k \in Levels |-> Unlinked(Order[k], m)]
  BY <1>1, DeleteOrder
<1>3. m \notin running
  BY DEF IInv, WalkInv, Unregister, MayUnregister
<1> QED
  BY <1>1, <1>2, <1>3, ListsOperators DEF Lists!Unregister

LEMMA ListsStopDeletes ==
  ASSUME IInv, StopDeletes
  PROVE  node \in Modules /\ Lists!Unregister(node)
<1>1. /\ RingInv /\ initialized /\ node \in Modules /\ next[node] # Null /\ ListDelete(node)
      /\ UNCHANGED <<running, found>>
      /\ node \notin running
  BY DEF IInv, WalkInv, StopDeletes
<1>2. PICK m \in Modules : m = node
  BY <1>1
<1>3. Order' = [k \in Levels |-> Unlinked(Order[k], m)]
  BY <1>1, <1>2, DeleteOrder
<1>4. Lists!Unregister(m)
  BY <1>1, <1>2, <1>3, ListsOperators DEF Lists!Unregister
<1> QED
  BY <1>2, <1>4

LEMMA ListsStart ==
  ASSUME IInv, StartModule
  PROVE  node \in Modules /\ Lists!Start(node)
<1>0. RingInv /\ initialized /\ level \in Levels
  BY StartingAt DEF IInv
<1>1. PICK p \in 1..Len(Order[level]) :
              /\ Reached(p) /\ Upto(p - 1)
              /\ node = Order[level][p] /\ node \in Modules
              /\ node \notin running
  BY StartingAt
<1>2. DOMAIN Order[level] = 1..Len(Order[level]) /\ Len(Order[level]) \in Nat
  BY <1>0, OrderFacts
<1>3. \A k \in Levels : k < level => ToSet(Order[k]) \subseteq running
  BY <1>1 DEF Reached
<1>4. \A j \in 1..p - 1 : Order[level][j] \in running
  <2>1. \A j \in 1..p - 1 : j \in 1..Len(Order[level]) /\ j <= p - 1
    BY <1>2
  <2> QED
    BY <2>1, <1>1, <1>2 DEF Upto
<1>5. /\ running' = running \cup {node} /\ UNCHANGED <<Order, found>>
  BY OrderKept DEF StartModule
<1>6. \E l \in Levels : \E i \in DOMAIN Order[l] :
        /\ Order[l][i] = node
        /\ \A k \in Levels : k < l => ToSet(Order[k]) \subseteq running
        /\ \A j \in 1..i - 1 : Order[l][j] \in running
  BY <1>0, <1>1, <1>2, <1>3, <1>4
<1> QED
  BY <1>1, <1>5, <1>6, ListsOperators DEF Lists!Start

LEMMA ListsStartFails ==
  ASSUME IInv, StartFails
  PROVE  node \in Modules /\ Lists!Stop(node)
<1>0. TypeOK /\ RingInv /\ WalkInv
  BY DEF IInv
<1>1. initialized /\ level \in Levels
  BY <1>0 DEF StartFails, WalkInv, TypeOK
<1>2. PICK p \in 1..Len(Order[level]) : Reached(p) /\ Upto(p)
  BY <1>0 DEF StartFails, WalkInv
<1>3. /\ DOMAIN Order[level] = 1..Len(Order[level]) /\ Len(Order[level]) \in Nat
      /\ Order[level] \in Seq(Modules)
  BY <1>0, <1>1, OrderFacts
<1>4. p \in 0..Len(Order[level]) + 1 /\ p <= p
  BY <1>3
<1>5. node = Order[level][p] /\ node \in Modules /\ node \in ToSet(Order[level])
  BY <1>1, <1>2, <1>4, ReachedFacts
<1>6. node \in running
  BY <1>2, <1>3, <1>4, <1>5 DEF Upto
<1>7. Contains(Order[level], node)
  BY <1>3, <1>5, ToSetElement
<1>8. \A k \in Levels : k > level => ToSet(Order[k]) \cap running = {}
  BY <1>2 DEF Reached
<1>9. running' = running \ {node} /\ UNCHANGED <<Order, found>>
  BY OrderKept DEF StartFails
<1> QED
  BY <1>1, <1>5, <1>6, <1>7, <1>8, <1>9, ListsOperators DEF Lists!Stop

LEMMA ListsStop ==
  ASSUME IInv, StopModule
  PROVE  \E m \in Modules : Lists!Stop(m)
<1>0. RingInv
  BY DEF IInv
<1>1. PICK m \in Modules : m = node'
  BY StoppingAt
<1>2. /\ initialized /\ level \in Levels /\ m \in ToSet(Order[level])
      /\ m \in running /\ running' = running \ {m}
      /\ \A k \in Levels : k > level => Order[k] = <<>>
  BY <1>1, StoppingAt
<1>3. Contains(Order[level], m)
  <2>1. Order[level] \in Seq(Modules)
    BY <1>0, <1>2, OrderFacts
  <2> QED
    BY <2>1, <1>2, ToSetElement
<1>4. \A k \in Levels : k > level => ToSet(Order[k]) \cap running = {}
  BY <1>2, NothingInEmpty
<1>5. UNCHANGED <<Order, found>>
  BY OrderKept DEF StopModule
<1>6. Lists!Stop(m)
  BY <1>2, <1>3, <1>4, <1>5, ListsOperators DEF Lists!Stop
<1> QED
  BY <1>6

LEMMA ListsFind ==
  ASSUME IInv, NEW m \in Modules, Find(m)
  PROVE  Lists!Find(m)
<1>0. RingInv /\ initialized /\ UNCHANGED <<Order, running>>
  BY OrderKept DEF IInv, Find
<1>1. \A l \in Levels : /\ Order[l] = Ring(l)
                        /\ Hits(l, m) = {i \in DOMAIN Order[l] : SameName(Order[l][i], m)}
  BY <1>0, OrderFacts DEF Hits
<1>2. CASE (\A l \in Levels : Hits(l, m) = {}) /\ found' = Null
  <2>1. Lists!First(m) = {}
    BY <1>1, <1>2 DEF Lists!First
  <2> QED
    BY <2>1, <1>0, <1>2 DEF Lists!Find
<1>3. ASSUME NEW l \in Levels, NEW i \in Hits(l, m),
             \A k \in Levels : k < l => Hits(k, m) = {},
             \A j \in Hits(l, m) : i <= j,
             found' = Ring(l)[i]
      PROVE  Lists!Find(m)
  <2>1. /\ i \in DOMAIN Order[l] /\ found' = Order[l][i] /\ SameName(Order[l][i], m)
        /\ Order[l][i] \in Modules
    <3>1. Order[l] \in Seq(Modules) /\ DOMAIN Order[l] = 1..Len(Order[l])
      BY <1>0, OrderFacts
    <3> QED
      BY <3>1, <1>1, <1>3, ElementOfSeq
  <2>2. ASSUME NEW k \in Levels, NEW j \in DOMAIN Order[k], SameName(Order[k][j], m)
        PROVE  l < k \/ (l = k /\ i <= j)
    <3>1. j \in Hits(k, m)
      BY <2>2, <1>1
    <3>2. ~(k < l)
      BY <3>1, <1>3
    <3>3. CASE k = l
      BY <3>1, <3>3, <1>3
    <3>4. CASE k # l
      BY <3>2, <3>4, NodesApart
    <3> QED
      BY <3>3, <3>4
  <2>3. found' \in Lists!First(m)
    BY <2>1, <2>2 DEF Lists!First
  <2> QED
    BY <2>3, <1>0 DEF Lists!Find
<1> QED
  BY <1>2, <1>3 DEF Find

LEMMA ListsStep == IInv /\ [Next]_vars => [Lists!Next]_ListsVars
<1> SUFFICES ASSUME IInv, [Next]_vars PROVE [Lists!Next]_ListsVars
  OBVIOUS
<1>1. CASE UNCHANGED <<rings, running, found>>
  BY <1>1, OrderKept DEF ListsVars
<1>2. CASE RegistryInit
  <2>1. RingInv
    BY DEF IInv
  <2>2. Order' = [l \in Levels |-> <<>>]
    BY <2>1, <1>2, StartedEmpty
  <2>3. Order = [l \in Levels |-> <<>>]
    BY <2>1, <1>2, NoRings DEF RingInv, RegistryInit
  <2> QED
    BY <2>2, <2>3, <1>2 DEF RegistryInit, ListsVars
<1>3. ASSUME NEW m \in Modules, NEW l \in Levels, Register(m, l) PROVE Lists!Next
  BY <1>3, ListsRegister DEF Lists!Next
<1>4. ASSUME NEW m \in Modules, Unregister(m) PROVE Lists!Next
  BY <1>4, ListsUnregister DEF Lists!Next
<1>5. ASSUME NEW m \in Modules, Find(m) PROVE Lists!Next
  BY <1>5, ListsFind DEF Lists!Next
<1>6. CASE StartModule
  BY <1>6, ListsStart DEF Lists!Next
<1>7. CASE StartFails
  BY <1>7, ListsStartFails DEF Lists!Next
<1>8. CASE StopModule
  BY <1>8, ListsStop DEF Lists!Next
<1>9. CASE StopDeletes
  BY <1>9, ListsStopDeletes DEF Lists!Next
<1>10. ASSUME StartAll \/ StartNextNode \/ StartNextLevel \/ StopAll \/ StopNextLevel \/ Ended
       PROVE  UNCHANGED <<rings, running, found>>
  BY <1>10 DEF StartAll, StartNextNode, StartNextLevel, StopAll, StopNextLevel, Ended, vars
<1> QED
  BY <1>1, <1>2, <1>3, <1>4, <1>5, <1>6, <1>7, <1>8, <1>9, <1>10
     DEF Next, MainStep, Callback, vars

(* The intrusive rings behave as lists of modules in the order of             *)
(* registration: modules start once, level by level and in list order, stop   *)
(* in the opposite order of levels, and find returns the first of the name.   *)
THEOREM RegistryImplementsLists == Spec => ImplementsLevelLists
<1>1. Init => Lists!Init
  BY ListsInit
<1>2. IInv /\ [Next]_vars => [Lists!Next]_ListsVars
  BY ListsStep
<1>3. Init /\ [][Next]_vars => []IInv
  BY Inductive DEF Spec
<1>4. Init /\ [][Next]_vars => Lists!Init /\ [][Lists!Next]_ListsVars
  BY <1>1, <1>2, <1>3, PTL
<1> QED
  BY <1>4 DEF Spec, ImplementsLevelLists, Lists!Spec, ListsVars
=============================================================================

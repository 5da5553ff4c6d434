--------------------------- MODULE UvHeapProofs ---------------------------
(* Proofs about UvHeap.  A tree is described by the sequence a of its nodes,  *)
(* place by place (WellBuilt); what the operations do to the links is proved  *)
(* once, for any links, as what they do to a.                                 *)
EXTENDS UvHeap, SequenceFacts, FiniteSetTheorems, TLAPS

Half(i) == i \div 2
Links == [Nodes -> Nodes \cup {Null}]

(* The node at place i; none outside of 1..n. *)
At(a, n, i) == IF i \in 1..n THEN a[i] ELSE Null

(* a lists n different nodes. *)
Listed(n, a) == /\ n \in Nat /\ a \in [1..n -> Nodes]
                /\ \A i, j \in 1..n : a[i] = a[j] => i = j

(* The links are those of the complete tree of the nodes a[1], ..., a[n]. *)
WellBuilt(lf, rt, pa, mn, n, a) ==
  /\ n <= N /\ Listed(n, a)
  /\ lf \in Links /\ rt \in Links /\ pa \in Links
  /\ mn = At(a, n, 1)
  /\ \A i \in 1..n : /\ lf[a[i]] = At(a, n, 2 * i)
                     /\ rt[a[i]] = At(a, n, 2 * i + 1)
                     /\ pa[a[i]] = At(a, n, Half(i))
  /\ \A x \in Nodes : (\A i \in 1..n : a[i] # x) => lf[x] = Null /\ rt[x] = Null /\ pa[x] = Null

Places == [i \in 1..nelts |-> NodeAt(i)]

TreeInv == WellBuilt(left, right, parent, min, nelts, Places)

(* Every pair of a parent and its child is ordered but those of the node c    *)
(* that the operation o moves, and what is below c is greater than c's parent.*)
Ordered(n, a, o, c) ==
  /\ \A i \in 2..n : \/ a[Half(i)] < a[i]
                     \/ o # "idle" /\ a[i] = c
                     \/ o = "down" /\ a[Half(i)] = c
  /\ o # "idle" => /\ \E k \in 1..n : a[k] = c
                   /\ \A i \in 2..n : a[Half(i)] = c /\ Half(i) # 1 => a[Half(Half(i))] < a[i]

OrderInv == Ordered(nelts, Places, op, cur)

(* Between the steps of an operation the tree holds what it will hold. *)
BeforeInv ==
  /\ before \in [nodes : SUBSET Nodes, min : Nodes \cup {Null}]
  /\ op \in {"idle", "up", "down"}
  /\ op = "idle" => cur = Null
  /\ op # "idle" => \E x \in Nodes : \/ x \notin before.nodes /\ Tree = before.nodes \cup {x}
                                     \/ x \in before.nodes /\ Tree = before.nodes \ {x}

IInv == TreeInv /\ OrderInv /\ BeforeInv

-----------------------------------------------------------------------------
(* Places *)

LEMMA Halves ==
  /\ \A i \in Nat : Half(i) \in Nat
  /\ \A i, k \in Nat : Half(i) = k <=> i = 2 * k \/ i = 2 * k + 1
  /\ \A i \in Nat : i >= 2 => Half(i) >= 1 /\ Half(i) < i
  /\ Half(1) = 0
BY DEF Half

LEMMA Bits ==
  /\ \A i \in Nat : i % 2 = 0 \/ i % 2 = 1
  /\ \A i \in Nat : i % 2 = 0 => i = 2 * Half(i)
  /\ \A i \in Nat : i % 2 = 1 => i = 2 * Half(i) + 1
BY DEF Half

LEMMA NodeNumbers == N \in Nat /\ N >= 1 /\ Null \notin Nodes
BY NAssumption DEF Nodes, Null

ChildIn(lf, rt, n, bit) == IF n = Null THEN Null ELSE IF bit = 1 THEN rt[n] ELSE lf[n]

(* The walks to the first n places. *)
WalkTo(lf, rt, mn, n, at) ==
  at = [j \in 1..n |-> IF j = 1 THEN mn ELSE ChildIn(lf, rt, at[j \div 2], j % 2)]

LEMMA WalksExist ==
  ASSUME NEW lf, NEW rt, NEW mn
  PROVE  \A n \in Nat : \E at : WalkTo(lf, rt, mn, n, at)
<1> DEFINE Without == {n \in Nat : ~ \E at : WalkTo(lf, rt, mn, n, at)}
<1> SUFFICES ASSUME Without # {} PROVE FALSE
  OBVIOUS
<1>1. PICK n \in Without : \A k \in Without : n <= k
  BY LeastNat
<1>2. n # 0
  <2>1. WalkTo(lf, rt, mn, 0, [j \in 1..0 |-> mn])
    BY DEF WalkTo
  <2> QED
    BY <2>1, <1>1
<1>3. n \in Nat /\ n - 1 \in Nat /\ n - 1 \notin Without
  BY <1>1, <1>2
<1>4. PICK f : WalkTo(lf, rt, mn, n - 1, f)
  BY <1>3
<1> DEFINE Value(h, j) == IF j = 1 THEN mn ELSE ChildIn(lf, rt, h[j \div 2], j % 2)
           g == [j \in 1..n |-> IF j < n THEN f[j] ELSE Value(f, n)]
<1>5. \A j \in 1..n - 1 : f[j] = Value(f, j)
  BY <1>4 DEF WalkTo
<1>6. \A j \in 1..n : j # 1 => j \div 2 \in 1..n /\ j \div 2 < n /\ j \div 2 \in 1..n - 1
  <2> TAKE j \in 1..n
  <2>1. j \in Nat /\ j <= n /\ (j # 1 => j >= 2)
    BY <1>3
  <2>2. j # 1 => j \div 2 >= 1 /\ j \div 2 < j /\ j \div 2 \in Nat
    BY <2>1, Halves DEF Half
  <2> QED
    BY <2>1, <2>2, <1>3
<1>7. \A j \in 1..n : j # 1 => g[j \div 2] = f[j \div 2]
  BY <1>6
<1>8. \A j \in 1..n : g[j] = Value(f, j)
  <2> TAKE j \in 1..n
  <2>1. CASE j = n
    BY <2>1
  <2>2. CASE j # n
    <3>1. j \in 1..n - 1 /\ j < n
      BY <2>2, <1>3
    <3> QED
      BY <3>1, <1>5
  <2> QED
    BY <2>1, <2>2
<1>9. \A j \in 1..n : g[j] = Value(g, j)
  BY <1>7, <1>8
<1>10. DOMAIN g = 1..n /\ g = [j \in 1..n |-> g[j]]
  OBVIOUS
<1> HIDE DEF g
<1>11. g = [j \in 1..n |-> Value(g, j)]
  BY <1>9, <1>10
<1>12. WalkTo(lf, rt, mn, n, g)
  BY <1>11 DEF WalkTo
<1> QED
  BY <1>1, <1>12

(* NodeAt, for any links. *)
NodeIn(lf, rt, mn, i) == (CHOOSE at : WalkTo(lf, rt, mn, N, at))[i]

LEMMA NodeAtIsIn == \A i : NodeAt(i) = NodeIn(left, right, min, i)
BY DEF NodeAt, NodeIn, WalkTo, Child, ChildIn

LEMMA NodeAtIsIn2 == \A i : NodeAt(i)' = NodeIn(left', right', min', i)
BY DEF NodeAt, NodeIn, WalkTo, Child, ChildIn

(* In a complete tree the walks end at the nodes. *)
LEMMA WellBuiltPlaces ==
  ASSUME NEW lf, NEW rt, NEW pa, NEW mn, NEW n, NEW a, WellBuilt(lf, rt, pa, mn, n, a)
  PROVE  /\ n \in Nat /\ n <= N
         /\ \A i \in 1..n : NodeIn(lf, rt, mn, i) = a[i]
         /\ [i \in 1..n |-> NodeIn(lf, rt, mn, i)] = a
<1>0. /\ n \in Nat /\ n <= N /\ N \in Nat
      /\ a \in [1..n -> Nodes]
      /\ mn = At(a, n, 1)
      /\ \A i \in 1..n : lf[a[i]] = At(a, n, 2 * i) /\ rt[a[i]] = At(a, n, 2 * i + 1)
  BY NodeNumbers DEF WellBuilt, Listed
<1>1. PICK at : at = CHOOSE f : WalkTo(lf, rt, mn, N, f)
  OBVIOUS
<1>2. WalkTo(lf, rt, mn, N, at)
  BY <1>0, <1>1, WalksExist
<1>3. \A j \in 1..N : at[j] = IF j = 1 THEN mn ELSE ChildIn(lf, rt, at[j \div 2], j % 2)
  BY <1>2 DEF WalkTo
<1> DEFINE Wrong == {i \in Nat : i \in 1..n /\ at[i] # a[i]}
<1>4. Wrong = {}
  <2> SUFFICES ASSUME Wrong # {} PROVE FALSE
    OBVIOUS
  <2>1. PICK i \in Wrong : \A k \in Wrong : i <= k
    BY LeastNat
  <2>2. i \in Nat /\ i \in 1..n /\ i \in 1..N /\ at[i] # a[i]
    BY <2>1, <1>0
  <2>3. i # 1
    BY <2>2, <1>0, <1>3 DEF At
  <2>4. Half(i) \in Nat /\ Half(i) >= 1 /\ Half(i) < i /\ i >= 2
    BY <2>2, <2>3, Halves
  <2>5. Half(i) \in 1..n /\ Half(i) \notin Wrong
    BY <2>1, <2>2, <2>4, <1>0
  <2>6. at[Half(i)] = a[Half(i)] /\ a[Half(i)] \in Nodes /\ a[Half(i)] # Null
    BY <2>4, <2>5, <1>0, NodeNumbers
  <2>7. at[i] = ChildIn(lf, rt, a[Half(i)], i % 2)
    BY <2>2, <2>3, <2>6, <1>3 DEF Half
  <2>8. CASE i % 2 = 1
    <3>1. i = 2 * Half(i) + 1
      BY <2>2, <2>8, Bits
    <3>2. at[i] = rt[a[Half(i)]]
      BY <2>6, <2>7, <2>8 DEF ChildIn
    <3>3. at[i] = At(a, n, i)
      BY <3>1, <3>2, <2>5, <1>0
    <3> QED
      BY <3>3, <2>2 DEF At
  <2>9. CASE i % 2 = 0
    <3>1. i = 2 * Half(i)
      BY <2>2, <2>9, Bits
    <3>2. at[i] = lf[a[Half(i)]]
      BY <2>6, <2>7, <2>9 DEF ChildIn
    <3>3. at[i] = At(a, n, i)
      BY <3>1, <3>2, <2>5, <1>0
    <3> QED
      BY <3>3, <2>2 DEF At
  <2>10. i % 2 = 0 \/ i % 2 = 1
    BY <2>2, Bits
  <2> QED
    BY <2>8, <2>9, <2>10
<1>5. \A i \in 1..n : at[i] = a[i]
  <2> SUFFICES ASSUME NEW i \in 1..n, at[i] # a[i] PROVE FALSE
    OBVIOUS
  <2>1. i \in Wrong
    BY <1>0
  <2> QED
    BY <2>1, <1>4
<1> HIDE DEF Wrong
<1>6. \A i \in 1..n : NodeIn(lf, rt, mn, i) = a[i]
  BY <1>1, <1>5 DEF NodeIn
<1> QED
  BY <1>0, <1>6

-----------------------------------------------------------------------------
(* What the operations do to a tree. *)

LEMMA AtFacts ==
  ASSUME NEW n \in Nat, NEW a \in [1..n -> Nodes]
  PROVE  /\ \A i \in 1..n : At(a, n, i) = a[i] /\ a[i] \in Nodes /\ a[i] # Null
         /\ \A i : At(a, n, i) \in Nodes \cup {Null}
         /\ \A i : At(a, n, i) # Null <=> i \in 1..n
BY NodeNumbers DEF At

LEMMA InitTree == WellBuilt([x \in Nodes |-> Null], [x \in Nodes |-> Null],
                            [x \in Nodes |-> Null], Null, 0, [i \in 1..0 |-> Null])
BY NodeNumbers DEF WellBuilt, Listed, At, Links

(* heap_insert: the node becomes the last. *)
Grown(a, n, x) == [i \in 1..n + 1 |-> IF i = n + 1 THEN x ELSE a[i]]

LEMMA GrownFacts ==
  ASSUME NEW n, NEW a, Listed(n, a), NEW x \in Nodes
  PROVE  /\ Grown(a, n, x) \in [1..n + 1 -> Nodes]
         /\ \A i \in 1..n : Grown(a, n, x)[i] = a[i]
         /\ Grown(a, n, x)[n + 1] = x
         /\ \A i \in Int : At(Grown(a, n, x), n + 1, i) = IF i = n + 1 THEN x ELSE At(a, n, i)
BY DEF Listed, Grown, At

LEMMA GrowTree ==
  ASSUME NEW lf, NEW rt, NEW pa, NEW mn, NEW n, NEW a, WellBuilt(lf, rt, pa, mn, n, a),
         n < N, NEW x \in Nodes, \A i \in 1..n : a[i] # x,
         NEW lf1, NEW rt1, NEW pa1, NEW mn1,
         n = 0 => lf1 = lf /\ rt1 = rt /\ pa1 = pa /\ mn1 = x,
         n # 0 => /\ lf1 = IF (n + 1) % 2 = 0 THEN [lf EXCEPT ![a[Half(n + 1)]] = x] ELSE lf
                  /\ rt1 = IF (n + 1) % 2 = 1 THEN [rt EXCEPT ![a[Half(n + 1)]] = x] ELSE rt
                  /\ pa1 = [pa EXCEPT ![x] = a[Half(n + 1)]]
                  /\ mn1 = mn
  PROVE  WellBuilt(lf1, rt1, pa1, mn1, n + 1, Grown(a, n, x))
<1>0. /\ n \in Nat /\ n <= N /\ N \in Nat /\ a \in [1..n -> Nodes]
      /\ lf \in Links /\ rt \in Links /\ pa \in Links
      /\ x # Null /\ Null \notin Nodes
  BY NodeNumbers DEF WellBuilt, Listed
<1>1. Listed(n, a)
  BY DEF WellBuilt
<1> DEFINE b == Grown(a, n, x)
           q == Half(n + 1)
<1>2. /\ b \in [1..n + 1 -> Nodes]
      /\ \A i \in 1..n : b[i] = a[i]
      /\ b[n + 1] = x
      /\ \A i \in Int : At(b, n + 1, i) = IF i = n + 1 THEN x ELSE At(a, n, i)
  BY <1>1, GrownFacts
<1> HIDE DEF b
<1>3. \A i, j \in 1..n : a[i] = a[j] => i = j
  BY DEF WellBuilt, Listed
<1>4. \A i, j \in 1..n + 1 : b[i] = b[j] => i = j
  <2> SUFFICES ASSUME NEW i \in 1..n + 1, NEW j \in 1..n + 1, b[i] = b[j] PROVE i = j
    OBVIOUS
  <2>1. (i \in 1..n \/ i = n + 1) /\ (j \in 1..n \/ j = n + 1)
    BY <1>0
  <2> QED
    BY <2>1, <1>2, <1>3
<1>5. /\ \A i \in 1..n : /\ lf[a[i]] = At(a, n, 2 * i) /\ rt[a[i]] = At(a, n, 2 * i + 1)
                         /\ pa[a[i]] = At(a, n, Half(i))
      /\ lf[x] = Null /\ rt[x] = Null /\ pa[x] = Null
      /\ mn = At(a, n, 1)
  BY DEF WellBuilt, Listed
<1>6. CASE n = 0
  <2>1. /\ mn1 = At(b, 1, 1) /\ At(b, 1, 2) = Null /\ At(b, 1, 3) = Null /\ At(b, 1, Half(1)) = Null
    BY <1>6, <1>2, Halves DEF At
  <2>2. \A y \in Nodes : lf[y] = Null /\ rt[y] = Null /\ pa[y] = Null
    BY <1>6 DEF WellBuilt, Listed
  <2>3. \A i \in 1..1 : i = 1
    OBVIOUS
  <2>4. b[1] \in Nodes /\ b \in [1..1 -> Nodes] /\ 1 \in 0..N /\ 2 * 1 = 2 /\ 2 * 1 + 1 = 3 /\ n + 1 = 1
    BY <1>6, <1>2, NodeNumbers
  <2>5. lf1 = lf /\ rt1 = rt /\ pa1 = pa
    BY <1>6
  <2>6. \A i \in 1..1 : /\ lf1[b[i]] = At(b, 1, 2 * i)
                        /\ rt1[b[i]] = At(b, 1, 2 * i + 1)
                        /\ pa1[b[i]] = At(b, 1, Half(i))
    BY <2>1, <2>2, <2>3, <2>4, <2>5
  <2> QED
    BY <2>1, <2>2, <2>4, <2>5, <2>6, <1>0, <1>4 DEF WellBuilt, Listed, b
<1>7. CASE n # 0
  <2>1. q \in 1..n /\ a[q] \in Nodes /\ a[q] # x /\ q \in Nat
    BY <1>0, <1>7, Halves, AtFacts
  <2>2. /\ \A i \in 1..n : 2 * i = n + 1 <=> (n + 1) % 2 = 0 /\ i = q
        /\ \A i \in 1..n : 2 * i + 1 = n + 1 <=> (n + 1) % 2 = 1 /\ i = q
    <3> SUFFICES ASSUME NEW i \in 1..n
                 PROVE  /\ 2 * i = n + 1 <=> (n + 1) % 2 = 0 /\ i = q
                        /\ 2 * i + 1 = n + 1 <=> (n + 1) % 2 = 1 /\ i = q
      OBVIOUS
    <3>1. i \in Nat /\ n + 1 \in Nat
      BY <1>0
    <3>2. q = i <=> n + 1 = 2 * i \/ n + 1 = 2 * i + 1
      BY <3>1, Halves
    <3>3. (2 * i) % 2 = 0 /\ (2 * i + 1) % 2 = 1
      BY <3>1
    <3>4. 2 * i # 2 * i + 1
      BY <3>1
    <3> QED
      BY <3>1, <3>2, <3>3, <3>4
  <2>3. /\ lf1 \in Links /\ rt1 \in Links /\ pa1 \in Links
        /\ \A y \in Nodes : /\ lf1[y] = IF (n + 1) % 2 = 0 /\ y = a[q] THEN x ELSE lf[y]
                            /\ rt1[y] = IF (n + 1) % 2 = 1 /\ y = a[q] THEN x ELSE rt[y]
                            /\ pa1[y] = IF y = x THEN a[q] ELSE pa[y]
    BY <2>1, <1>0, <1>7 DEF Links
  <2>4. \A i \in 1..n : a[i] = a[q] <=> i = q
    BY <2>1, <1>3
  <2>5. ASSUME NEW i \in 1..n
        PROVE  /\ lf1[b[i]] = At(b, n + 1, 2 * i)
               /\ rt1[b[i]] = At(b, n + 1, 2 * i + 1)
               /\ pa1[b[i]] = At(b, n + 1, Half(i))
    <3>1. b[i] = a[i] /\ a[i] \in Nodes /\ a[i] # x /\ 2 * i \in Int /\ 2 * i + 1 \in Int
      BY <1>0, <1>2
    <3>2. lf1[b[i]] = At(b, n + 1, 2 * i)
      BY <3>1, <2>2, <2>3, <2>4, <1>2, <1>5
    <3>3. rt1[b[i]] = At(b, n + 1, 2 * i + 1)
      BY <3>1, <2>2, <2>3, <2>4, <1>2, <1>5
    <3>4. Half(i) \in Int /\ Half(i) # n + 1
      <4>1. i \in Nat /\ i <= n /\ i # 0
        BY <1>0
      <4>2. Half(i) \in Nat /\ (i >= 2 => Half(i) < i) /\ (i = 1 => Half(i) = 0)
        BY <4>1, Halves
      <4> QED
        BY <4>1, <4>2, <1>0
    <3>5. pa1[b[i]] = At(b, n + 1, Half(i))
      BY <3>1, <3>4, <2>3, <1>2, <1>5
    <3> QED
      BY <3>2, <3>3, <3>5
  <2>6. /\ lf1[x] = At(b, n + 1, 2 * (n + 1))
        /\ rt1[x] = At(b, n + 1, 2 * (n + 1) + 1)
        /\ pa1[x] = At(b, n + 1, q)
    <3>1. /\ 2 * (n + 1) \notin 1..n + 1 /\ 2 * (n + 1) + 1 \notin 1..n + 1
      BY <1>0
    <3>2. At(b, n + 1, 2 * (n + 1)) = Null /\ At(b, n + 1, 2 * (n + 1) + 1) = Null
      BY <3>1 DEF At
    <3>3. At(b, n + 1, q) = a[q]
      <4>1. q # n + 1 /\ q \in Int
        BY <2>1, <1>0
      <4> QED
        BY <4>1, <2>1, <1>0, <1>2, AtFacts
    <3> QED
      BY <3>2, <3>3, <2>1, <2>3, <1>5
  <2>7. \A i \in 1..n + 1 : /\ lf1[b[i]] = At(b, n + 1, 2 * i)
                            /\ rt1[b[i]] = At(b, n + 1, 2 * i + 1)
                            /\ pa1[b[i]] = At(b, n + 1, Half(i))
    <3> TAKE i \in 1..n + 1
    <3>1. i \in 1..n \/ i = n + 1
      BY <1>0
    <3>2. CASE i \in 1..n
      BY <3>2, <2>5
    <3>3. CASE i = n + 1
      BY <3>3, <2>6, <1>2
    <3> QED
      BY <3>1, <3>2, <3>3
  <2>8. mn1 = At(b, n + 1, 1)
    <3>1. 1 # n + 1 /\ 1 \in Int
      BY <1>0, <1>7
    <3> QED
      BY <3>1, <1>2, <1>5, <1>7
  <2>9. ASSUME NEW y \in Nodes, \A i \in 1..n + 1 : b[i] # y
        PROVE  lf1[y] = Null /\ rt1[y] = Null /\ pa1[y] = Null
    <3>1. y # x /\ \A i \in 1..n : a[i] # y
      <4>1. n + 1 \in 1..n + 1 /\ \A i \in 1..n : i \in 1..n + 1
        BY <1>0
      <4> QED
        BY <4>1, <2>9, <1>2
    <3>2. lf[y] = Null /\ rt[y] = Null /\ pa[y] = Null
      BY <3>1 DEF WellBuilt, Listed
    <3> QED
      BY <3>1, <3>2, <2>1, <2>3
  <2>10. n + 1 \in 0..N
    BY <1>0
  <2> QED
    BY <2>3, <2>7, <2>8, <2>9, <2>10, <1>2, <1>4 DEF WellBuilt, Listed, b
<1> QED
  BY <1>6, <1>7

(* A list with places for all i outside of 1..n too. *)
LEMMA ListedFacts ==
  ASSUME NEW n, NEW a, Listed(n, a)
  PROVE  /\ n \in Nat
         /\ \A i \in 1..n : i \in Nat /\ i # 0 /\ i <= n
         /\ \A i \in 1..n : At(a, n, i) = a[i] /\ a[i] \in Nodes /\ a[i] # Null
         /\ \A i : At(a, n, i) \in Nodes \cup {Null}
         /\ \A i : At(a, n, i) # Null <=> i \in 1..n
         /\ \A i, j : i \in 1..n => (At(a, n, i) = At(a, n, j) <=> i = j)
         /\ \A i, j : i \in 1..n => (a[i] = At(a, n, j) <=> i = j)
<1>1. n \in Nat /\ a \in [1..n -> Nodes] /\ \A i, j \in 1..n : a[i] = a[j] => i = j
  BY DEF Listed
<1>2. /\ \A i \in 1..n : At(a, n, i) = a[i] /\ a[i] \in Nodes /\ a[i] # Null
      /\ \A i : At(a, n, i) \in Nodes \cup {Null}
      /\ \A i : At(a, n, i) # Null <=> i \in 1..n
  BY <1>1, AtFacts
<1>3. \A i, j : i \in 1..n => (At(a, n, i) = At(a, n, j) <=> i = j)
  BY <1>1, <1>2
<1>4. \A i \in 1..n : i \in Nat /\ i # 0 /\ i <= n
  BY <1>1
<1> QED
  BY <1>1, <1>2, <1>3, <1>4

(* heap_node_swap: the nodes of a place j and of its parent's change places. *)
Exchanged(a, n, k, j) == [i \in 1..n |-> IF i = k THEN a[j] ELSE IF i = j THEN a[k] ELSE a[i]]

LEMMA ExchangedFacts ==
  ASSUME NEW n, NEW a, Listed(n, a), NEW k \in 1..n, NEW j \in 1..n, k # j
  PROVE  /\ Listed(n, Exchanged(a, n, k, j))
         /\ \A i \in 1..n : Exchanged(a, n, k, j)[i] =
              IF i = k THEN a[j] ELSE IF i = j THEN a[k] ELSE a[i]
         /\ \A i : At(Exchanged(a, n, k, j), n, i) =
              IF i = k THEN a[j] ELSE IF i = j THEN a[k] ELSE At(a, n, i)
<1> DEFINE b == Exchanged(a, n, k, j)
<1>0. n \in Nat /\ a \in [1..n -> Nodes] /\ \A i, h \in 1..n : a[i] = a[h] => i = h
  BY DEF Listed
<1>1. /\ b \in [1..n -> Nodes]
      /\ \A i \in 1..n : b[i] = IF i = k THEN a[j] ELSE IF i = j THEN a[k] ELSE a[i]
  BY <1>0 DEF Exchanged
<1> HIDE DEF b
<1>2. \A i, h \in 1..n : b[i] = b[h] => i = h
  BY <1>0, <1>1
<1>3. \A i : At(b, n, i) = IF i = k THEN a[j] ELSE IF i = j THEN a[k] ELSE At(a, n, i)
  BY <1>1 DEF At
<1>4. Listed(n, b)
  BY <1>0, <1>1, <1>2 DEF Listed
<1> QED
  BY <1>1, <1>3, <1>4 DEF b

(* What the swap does to one of the children pointers, left or right: bit is  *)
(* 0 or 1.                                                                    *)
ChildrenOf(f, a, n, bit) == \A i \in 1..n : f[a[i]] = At(a, n, 2 * i + bit)

SwapOne(f, g, p, c) == Relink([f EXCEPT ![p] = f[c], ![c] = IF f[p] = c THEN p ELSE f[p]], g, p, c)

LEMMA SwapOneFacts ==
  ASSUME NEW f \in Links, NEW g, NEW p \in Nodes, NEW c \in Nodes, p # c, g # p, g # c
  PROVE  /\ SwapOne(f, g, p, c) \in Links
         /\ \A x \in Nodes : SwapOne(f, g, p, c)[x] =
              IF x = p THEN f[c] ELSE IF x = c THEN (IF f[p] = c THEN p ELSE f[p])
              ELSE IF x = g /\ f[x] = p THEN c ELSE f[x]
<1> DEFINE f1 == SwapOne(f, g, p, c)
<1>1. \A x \in Nodes : f[x] \in Nodes \cup {Null}
  BY DEF Links
<1>2. \A x \in Nodes : f1[x] = IF x = p THEN f[c] ELSE IF x = c THEN (IF f[p] = c THEN p ELSE f[p])
                               ELSE IF x = g /\ f[x] = p THEN c ELSE f[x]
  BY DEF SwapOne, Relink, Links
<1>3. f1 = [x \in Nodes |-> f1[x]]
  BY DEF SwapOne, Relink
<1> HIDE DEF f1
<1>4. \A x \in Nodes : f1[x] \in Nodes \cup {Null}
  BY <1>1, <1>2
<1>5. f1 \in Links
  BY <1>3, <1>4 DEF Links
<1> QED
  BY <1>2, <1>5 DEF f1

LEMMA SwapChildren ==
  ASSUME NEW n, NEW a, Listed(n, a), NEW f \in Links, NEW bit \in {0, 1}, ChildrenOf(f, a, n, bit),
         NEW k \in 1..n, NEW j \in 1..n, Half(j) = k
  PROVE  /\ SwapOne(f, At(a, n, Half(k)), a[k], a[j]) \in Links
         /\ ChildrenOf(SwapOne(f, At(a, n, Half(k)), a[k], a[j]), Exchanged(a, n, k, j), n, bit)
         /\ \A x \in Nodes : (\A i \in 1..n : a[i] # x) =>
              SwapOne(f, At(a, n, Half(k)), a[k], a[j])[x] = f[x]
<1> DEFINE g == At(a, n, Half(k))
           b == Exchanged(a, n, k, j)
           f1 == SwapOne(f, g, a[k], a[j])
<1>1. /\ n \in Nat
      /\ \A i \in 1..n : i \in Nat /\ i # 0 /\ i <= n
      /\ \A i \in 1..n : At(a, n, i) = a[i] /\ a[i] \in Nodes /\ a[i] # Null
      /\ \A i, h : i \in 1..n => (a[i] = At(a, n, h) <=> i = h)
  BY ListedFacts
<1>2. k \in Nat /\ j \in Nat /\ k # 0 /\ bit \in Nat /\ (j = 2 * k \/ j = 2 * k + 1) /\ k < j /\ k # j
  <2>1. k \in Nat /\ j \in Nat /\ k # 0 /\ bit \in Nat
    BY <1>1
  <2>2. j = 2 * k \/ j = 2 * k + 1
    BY <2>1, Halves
  <2> QED
    BY <2>1, <2>2
<1>3. Half(k) \in Nat /\ Half(k) # k /\ Half(k) # j
  <2>1. Half(k) \in Nat /\ (k >= 2 => Half(k) < k) /\ (k = 1 => Half(k) = 0)
    BY <1>2, Halves
  <2> QED
    BY <2>1, <1>2
<1>4. /\ \A i \in 1..n : b[i] = IF i = k THEN a[j] ELSE IF i = j THEN a[k] ELSE a[i]
      /\ \A i : At(b, n, i) = IF i = k THEN a[j] ELSE IF i = j THEN a[k] ELSE At(a, n, i)
  BY <1>2, ExchangedFacts
<1> HIDE DEF b
<1>5. g # a[k] /\ g # a[j] /\ a[k] # a[j]
  BY <1>1, <1>2, <1>3
<1>6. a[k] \in Nodes /\ a[j] \in Nodes
  BY <1>1
<1> HIDE DEF g
<1>7. /\ f1 \in Links
      /\ \A x \in Nodes : f1[x] = IF x = a[k] THEN f[a[j]]
                                  ELSE IF x = a[j] THEN (IF f[a[k]] = a[j] THEN a[k] ELSE f[a[k]])
                                  ELSE IF x = g /\ f[x] = a[k] THEN a[j] ELSE f[x]
  BY <1>5, <1>6, SwapOneFacts
<1> HIDE DEF f1
<1>8. \A i \in 1..n : f[a[i]] = At(a, n, 2 * i + bit)
  BY DEF ChildrenOf
<1>9. ASSUME NEW i \in 1..n
      PROVE  f1[b[i]] = At(b, n, 2 * i + bit)
  <2>0. 2 * i + bit \in Nat /\ 2 * i + bit > i /\ i \in Nat
    BY <1>1, <1>2
  <2>1. CASE i = k
    <3>1. b[i] = a[j] /\ a[j] \in Nodes /\ a[j] # a[k]
      BY <2>1, <1>4, <1>5, <1>6
    <3>2. f1[a[j]] = IF f[a[k]] = a[j] THEN a[k] ELSE f[a[k]]
      BY <3>1, <1>7
    <3>3. f[a[k]] = At(a, n, 2 * i + bit)
      BY <2>1, <1>8
    <3>4. f[a[k]] = a[j] <=> 2 * i + bit = j
      BY <3>3, <1>1
    <3>5. 2 * i + bit # k
      BY <2>0, <2>1
    <3>6. At(b, n, 2 * i + bit) = IF 2 * i + bit = j THEN a[k] ELSE At(a, n, 2 * i + bit)
      BY <3>5, <1>4
    <3> QED
      BY <3>1, <3>2, <3>3, <3>4, <3>6
  <2>2. CASE i = j
    <3>1. b[i] = a[k]
      BY <2>2, <1>2, <1>4
    <3>2. f1[a[k]] = f[a[j]]
      BY <1>6, <1>7
    <3>3. f[a[j]] = At(a, n, 2 * i + bit)
      BY <2>2, <1>8
    <3>4. 2 * i + bit # k /\ 2 * i + bit # j
      BY <2>0, <2>2, <1>2
    <3>5. At(b, n, 2 * i + bit) = At(a, n, 2 * i + bit)
      BY <3>4, <1>4
    <3> QED
      BY <3>1, <3>2, <3>3, <3>5
  <2>3. CASE i # k /\ i # j
    <3>1. b[i] = a[i] /\ a[i] \in Nodes
      BY <2>3, <1>1, <1>4
    <3>2. a[i] # a[k] /\ a[i] # a[j]
      BY <2>3, <1>1
    <3>3. f[a[i]] = At(a, n, 2 * i + bit)
      BY <1>8
    <3>4. f1[b[i]] = IF a[i] = g /\ f[a[i]] = a[k] THEN a[j] ELSE f[a[i]]
      BY <3>1, <3>2, <1>7
    <3>5. 2 * i + bit # j
      <4>1. SUFFICES ASSUME 2 * i + bit = j PROVE FALSE
        OBVIOUS
      <4>2. j = 2 * i \/ j = 2 * i + 1
        BY <4>1, <2>0
      <4>3. Half(j) = i
        BY <4>2, <2>0, <1>2, Halves
      <4> QED
        BY <4>3, <2>3
    <3>6. f[a[i]] = a[k] <=> 2 * i + bit = k
      BY <3>3, <1>1
    <3>7. 2 * i + bit = k => Half(k) = i
      <4>1. 2 * i + bit = k => k = 2 * i \/ k = 2 * i + 1
        BY <2>0
      <4> QED
        BY <4>1, <2>0, <1>2, Halves
    <3>8. 2 * i + bit = k => a[i] = g
      BY <3>7, <1>1 DEF g
    <3>9. At(b, n, 2 * i + bit) = IF 2 * i + bit = k THEN a[j] ELSE At(a, n, 2 * i + bit)
      BY <3>5, <1>4
    <3> QED
      BY <3>3, <3>4, <3>6, <3>8, <3>9
  <2> QED
    BY <2>1, <2>2, <2>3
<1>10. \A x \in Nodes : (\A i \in 1..n : a[i] # x) => f1[x] = f[x]
  <2> SUFFICES ASSUME NEW x \in Nodes, \A i \in 1..n : a[i] # x PROVE f1[x] = f[x]
    OBVIOUS
  <2>1. x # a[k] /\ x # a[j]
    OBVIOUS
  <2>2. x # g
    BY NodeNumbers DEF At, g
  <2> QED
    BY <2>1, <2>2, <1>7
<1>11. ChildrenOf(f1, b, n, bit)
  BY <1>9 DEF ChildrenOf
<1> QED
  BY <1>7, <1>10, <1>11 DEF b, f1, g

(* WellBuilt, piece by piece. *)
LEMMA WellBuiltParts ==
  ASSUME NEW lf, NEW rt, NEW pa, NEW mn, NEW n, NEW a
  PROVE  WellBuilt(lf, rt, pa, mn, n, a) <=>
           /\ n <= N /\ Listed(n, a)
           /\ lf \in Links /\ rt \in Links /\ pa \in Links
           /\ mn = At(a, n, 1)
           /\ ChildrenOf(lf, a, n, 0) /\ ChildrenOf(rt, a, n, 1)
           /\ \A i \in 1..n : pa[a[i]] = At(a, n, Half(i))
           /\ \A x \in Nodes : (\A i \in 1..n : a[i] # x) => lf[x] = Null /\ rt[x] = Null /\ pa[x] = Null
<1>1. Listed(n, a) => \A i \in 1..n : 2 * i + 0 = 2 * i
  BY ListedFacts
<1>2. Listed(n, a) => /\ (\A i \in 1..n : lf[a[i]] = At(a, n, 2 * i)) <=> ChildrenOf(lf, a, n, 0)
                      /\ (\A i \in 1..n : rt[a[i]] = At(a, n, 2 * i + 1)) <=> ChildrenOf(rt, a, n, 1)
  BY <1>1 DEF ChildrenOf
<1> QED
  BY <1>2 DEF WellBuilt

SwapParents(lf, rt, pa, p, c) ==
  [x \in Nodes |-> CASE x = c -> pa[p]
                     [] x = p -> c
                     [] x \in {lf[c], rt[c]} \ {Null} -> p
                     [] x \in {lf[p], rt[p]} \ {Null, c} -> c
                     [] OTHER -> pa[x]]

(* The children of p and c are other nodes, and p and c have none in common. *)
Apart(lf, rt, p, c) ==
  /\ p # c /\ p # lf[c] /\ p # rt[c] /\ c # lf[c] /\ c # rt[c] /\ p # lf[p] /\ p # rt[p]
  /\ \A x \in Nodes : x = lf[c] \/ x = rt[c] => x # lf[p] /\ x # rt[p]

ParentsSwapped(pa1, lf, rt, pa, p, c) ==
  /\ pa1 \in Links
  /\ \A x \in Nodes : pa1[x] = IF x = c THEN pa[p] ELSE IF x = p THEN c
                               ELSE IF x = lf[c] \/ x = rt[c] THEN p
                               ELSE IF x = lf[p] \/ x = rt[p] THEN c ELSE pa[x]

LEMMA SwapParentsFacts ==
  ASSUME NEW lf, NEW rt, NEW pa \in Links, NEW p \in Nodes, NEW c \in Nodes, Apart(lf, rt, p, c)
  PROVE  ParentsSwapped(SwapParents(lf, rt, pa, p, c), lf, rt, pa, p, c)
<1> DEFINE pa1 == SwapParents(lf, rt, pa, p, c)
           value(x) == IF x = c THEN pa[p] ELSE IF x = p THEN c
                       ELSE IF x = lf[c] \/ x = rt[c] THEN p
                       ELSE IF x = lf[p] \/ x = rt[p] THEN c ELSE pa[x]
<1>1. \A x \in Nodes : /\ x \in {lf[c], rt[c]} \ {Null} <=> x = lf[c] \/ x = rt[c]
                       /\ x # c => (x \in {lf[p], rt[p]} \ {Null, c} <=> x = lf[p] \/ x = rt[p])
  BY NodeNumbers
<1>2. \A x \in Nodes : pa1[x] = value(x)
  <2> TAKE x \in Nodes
  <2>1. pa1[x] = CASE x = c -> pa[p]
                   [] x = p -> c
                   [] x \in {lf[c], rt[c]} \ {Null} -> p
                   [] x \in {lf[p], rt[p]} \ {Null, c} -> c
                   [] OTHER -> pa[x]
    BY DEF SwapParents
  <2>2. CASE x = c
    BY <2>1, <2>2, <1>1 DEF Apart
  <2>3. CASE x = p
    BY <2>1, <2>3, <1>1 DEF Apart
  <2>4. CASE x # c /\ x # p /\ (x = lf[c] \/ x = rt[c])
    BY <2>1, <2>4, <1>1 DEF Apart
  <2>5. CASE x # c /\ x # p /\ ~(x = lf[c] \/ x = rt[c])
    BY <2>1, <2>5, <1>1
  <2> QED
    BY <2>2, <2>3, <2>4, <2>5
<1>3. \A x \in Nodes : value(x) \in Nodes \cup {Null}
  BY DEF Links
<1>4. pa1 = [x \in Nodes |-> pa1[x]]
  BY DEF SwapParents
<1> HIDE DEF pa1
<1>5. pa1 \in Links
  BY <1>2, <1>3, <1>4 DEF Links
<1> QED
  BY <1>2, <1>5 DEF pa1, ParentsSwapped

LEMMA SwapTree ==
  ASSUME NEW lf, NEW rt, NEW pa, NEW mn, NEW n, NEW a, WellBuilt(lf, rt, pa, mn, n, a),
         NEW k \in 1..n, NEW j \in 1..n, Half(j) = k
  PROVE  WellBuilt(SwapOne(lf, pa[a[k]], a[k], a[j]), SwapOne(rt, pa[a[k]], a[k], a[j]),
                   SwapParents(lf, rt, pa, a[k], a[j]),
                   IF pa[a[k]] = Null THEN a[j] ELSE mn, n, Exchanged(a, n, k, j))
<1> DEFINE b == Exchanged(a, n, k, j)
           p == a[k]
           c == a[j]
           g == At(a, n, Half(k))
           lf1 == SwapOne(lf, g, p, c)
           rt1 == SwapOne(rt, g, p, c)
           pa1 == SwapParents(lf, rt, pa, p, c)
           mn1 == IF g = Null THEN c ELSE mn
<1>0. /\ n <= N /\ Listed(n, a)
      /\ lf \in Links /\ rt \in Links /\ pa \in Links
      /\ mn = At(a, n, 1)
      /\ ChildrenOf(lf, a, n, 0) /\ ChildrenOf(rt, a, n, 1)
      /\ \A i \in 1..n : pa[a[i]] = At(a, n, Half(i))
      /\ \A x \in Nodes : (\A i \in 1..n : a[i] # x) => lf[x] = Null /\ rt[x] = Null /\ pa[x] = Null
  BY WellBuiltParts
<1>1. /\ n \in Nat
      /\ \A i \in 1..n : i \in Nat /\ i # 0 /\ i <= n
      /\ \A i \in 1..n : At(a, n, i) = a[i] /\ a[i] \in Nodes /\ a[i] # Null
      /\ \A i : At(a, n, i) # Null <=> i \in 1..n
      /\ \A i, h : i \in 1..n => (a[i] = At(a, n, h) <=> i = h)
  BY <1>0, ListedFacts
<1>2. k \in Nat /\ j \in Nat /\ k # 0 /\ (j = 2 * k \/ j = 2 * k + 1) /\ k < j /\ k # j
  <2>1. k \in Nat /\ j \in Nat /\ k # 0
    BY <1>1
  <2>2. j = 2 * k \/ j = 2 * k + 1
    BY <2>1, Halves
  <2> QED
    BY <2>1, <2>2
<1>3. Half(k) \in Nat /\ Half(k) # k /\ Half(k) # j /\ (Half(k) \in 1..n <=> k # 1)
  <2>1. Half(k) \in Nat /\ (k >= 2 => Half(k) < k /\ Half(k) >= 1) /\ (k = 1 => Half(k) = 0)
    BY <1>2, Halves
  <2>2. k <= n
    BY <1>1
  <2> QED
    BY <2>1, <2>2, <1>2, <1>1
<1>4. /\ Listed(n, b)
      /\ \A i \in 1..n : b[i] = IF i = k THEN a[j] ELSE IF i = j THEN a[k] ELSE a[i]
      /\ \A i : At(b, n, i) = IF i = k THEN a[j] ELSE IF i = j THEN a[k] ELSE At(a, n, i)
  BY <1>0, <1>2, ExchangedFacts
<1>5. pa[a[k]] = g
  BY <1>0
<1>6. /\ lf1 \in Links /\ ChildrenOf(lf1, b, n, 0)
      /\ \A x \in Nodes : (\A i \in 1..n : a[i] # x) => lf1[x] = lf[x]
  <2>1. 0 \in {0, 1}
    OBVIOUS
  <2> QED
    BY <2>1, <1>0, SwapChildren
<1>7. /\ rt1 \in Links /\ ChildrenOf(rt1, b, n, 1)
      /\ \A x \in Nodes : (\A i \in 1..n : a[i] # x) => rt1[x] = rt[x]
  <2>1. 1 \in {0, 1}
    OBVIOUS
  <2> QED
    BY <2>1, <1>0, SwapChildren
<1>8. p \in Nodes /\ c \in Nodes /\ p # c
  BY <1>1, <1>2
<1>9. \A i \in 1..n : lf[a[i]] = At(a, n, 2 * i + 0) /\ rt[a[i]] = At(a, n, 2 * i + 1)
  BY <1>0 DEF ChildrenOf
<1>10. /\ \A i \in 1..n : (a[i] = lf[c] \/ a[i] = rt[c]) <=> i = 2 * j + 0 \/ i = 2 * j + 1
       /\ \A i \in 1..n : (a[i] = lf[p] \/ a[i] = rt[p]) <=> i = 2 * k + 0 \/ i = 2 * k + 1
  <2>1. /\ lf[c] = At(a, n, 2 * j + 0) /\ rt[c] = At(a, n, 2 * j + 1)
        /\ lf[p] = At(a, n, 2 * k + 0) /\ rt[p] = At(a, n, 2 * k + 1)
    BY <1>9
  <2>2. ASSUME NEW i \in 1..n
        PROVE  /\ a[i] = lf[c] <=> i = 2 * j + 0
               /\ a[i] = rt[c] <=> i = 2 * j + 1
               /\ a[i] = lf[p] <=> i = 2 * k + 0
               /\ a[i] = rt[p] <=> i = 2 * k + 1
    BY <2>1, <1>1
  <2> QED
    BY <2>2
<1>11. Apart(lf, rt, p, c)
  <2>1. /\ ~(k = 2 * j + 0 \/ k = 2 * j + 1) /\ ~(j = 2 * j + 0 \/ j = 2 * j + 1)
        /\ ~(k = 2 * k + 0 \/ k = 2 * k + 1)
    BY <1>2
  <2>2. /\ p # lf[c] /\ p # rt[c] /\ c # lf[c] /\ c # rt[c] /\ p # lf[p] /\ p # rt[p]
    BY <2>1, <1>10
  <2>3. ASSUME NEW x \in Nodes, x = lf[c] \/ x = rt[c], x = lf[p] \/ x = rt[p] PROVE FALSE
    <3>1. \E i \in 1..n : x = a[i]
      <4>1. x # Null /\ (x = At(a, n, 2 * j + 0) \/ x = At(a, n, 2 * j + 1))
        BY <2>3, <1>9, NodeNumbers
      <4> QED
        BY <4>1 DEF At
    <3>2. PICK i \in 1..n : x = a[i]
      BY <3>1
    <3>3. (i = 2 * j + 0 \/ i = 2 * j + 1) /\ (i = 2 * k + 0 \/ i = 2 * k + 1)
      BY <3>2, <2>3, <1>10
    <3> QED
      BY <3>3, <1>2
  <2> QED
    BY <2>2, <2>3, <1>8 DEF Apart
<1>12. /\ pa1 \in Links
      /\ \A x \in Nodes : pa1[x] = IF x = c THEN pa[p] ELSE IF x = p THEN c
                                   ELSE IF x = lf[c] \/ x = rt[c] THEN p
                                   ELSE IF x = lf[p] \/ x = rt[p] THEN c ELSE pa[x]
  <2>1. pa \in Links
    BY <1>0
  <2>2. p \in Nodes /\ c \in Nodes
    BY <1>8
  <2>3. ParentsSwapped(pa1, lf, rt, pa, p, c)
    BY <2>1, <2>2, <1>11, SwapParentsFacts
  <2> QED
    BY <2>3 DEF ParentsSwapped
<1> HIDE DEF b, lf1, rt1, pa1, g
<1>13. mn1 = At(b, n, 1)
  <2>1. g = Null <=> k = 1
    BY <1>1, <1>3 DEF g
  <2>2. 1 # j
    BY <1>2
  <2> QED
    BY <2>1, <2>2, <1>0, <1>4
<1>14. ASSUME NEW i \in 1..n PROVE pa1[b[i]] = At(b, n, Half(i))
  <2>0. Half(i) \in Nat /\ i \in Nat
    BY <1>1, Halves
  <2>1. CASE i = k
    <3>1. pa1[b[i]] = g
      BY <2>1, <1>4, <1>5, <1>8, <1>12
    <3>2. At(b, n, Half(i)) = At(a, n, Half(k))
      BY <2>1, <1>3, <1>4
    <3> QED
      BY <3>1, <3>2 DEF g
  <2>2. CASE i = j
    <3>1. b[i] = p
      BY <2>2, <1>2, <1>4
    <3>2. pa1[b[i]] = c
      BY <3>1, <1>8, <1>12
    <3>3. At(b, n, Half(i)) = c
      BY <2>2, <1>4
    <3> QED
      BY <3>2, <3>3
  <2>3. CASE i # k /\ i # j
    <3>1. b[i] = a[i] /\ a[i] \in Nodes
      BY <2>3, <1>1, <1>4
    <3>2. a[i] # c /\ a[i] # p
      BY <2>3, <1>1
    <3>3. (a[i] = lf[c] \/ a[i] = rt[c]) <=> i = 2 * j + 0 \/ i = 2 * j + 1
      BY <1>10
    <3>4. (a[i] = lf[p] \/ a[i] = rt[p]) <=> i = 2 * k + 0 \/ i = 2 * k + 1
      BY <1>10
    <3>5. Half(i) = j <=> i = 2 * j + 0 \/ i = 2 * j + 1
      <4>1. 2 * j + 0 = 2 * j
        BY <1>2
      <4> QED
        BY <4>1, <2>0, <1>2, Halves
    <3>6. Half(i) = k <=> i = 2 * k + 0 \/ i = 2 * k + 1
      <4>1. 2 * k + 0 = 2 * k
        BY <1>2
      <4> QED
        BY <4>1, <2>0, <1>2, Halves
    <3>7. pa1[a[i]] = IF Half(i) = j THEN p ELSE IF Half(i) = k THEN c ELSE pa[a[i]]
      BY <3>1, <3>2, <3>3, <3>4, <3>5, <3>6, <1>12
    <3>8. pa[a[i]] = At(a, n, Half(i))
      BY <1>0
    <3>9. At(b, n, Half(i)) = IF Half(i) = k THEN c ELSE IF Half(i) = j THEN p ELSE At(a, n, Half(i))
      BY <1>4
    <3> QED
      BY <3>1, <3>7, <3>8, <3>9, <1>2
  <2> QED
    BY <2>1, <2>2, <2>3
<1>15. ASSUME NEW x \in Nodes, \A i \in 1..n : b[i] # x
       PROVE  lf1[x] = Null /\ rt1[x] = Null /\ pa1[x] = Null
  <2>1. \A i \in 1..n : a[i] # x
    <3> SUFFICES ASSUME NEW i \in 1..n, a[i] = x PROVE FALSE
      OBVIOUS
    <3>1. b[i] = a[i] \/ (i = k /\ b[j] = a[i]) \/ (i = j /\ b[k] = a[i])
      BY <1>2, <1>4
    <3> QED
      BY <3>1, <1>15
  <2>2. lf[x] = Null /\ rt[x] = Null /\ pa[x] = Null
    BY <2>1, <1>0
  <2>3. lf1[x] = Null /\ rt1[x] = Null
    BY <2>1, <2>2, <1>6, <1>7
  <2>4. \A i : At(a, n, i) # x
    BY <2>1, NodeNumbers DEF At
  <2>5. x # c /\ x # p /\ x # lf[c] /\ x # rt[c] /\ x # lf[p] /\ x # rt[p]
    BY <2>1, <2>4, <1>9
  <2> QED
    BY <2>2, <2>3, <2>5, <1>12
<1>16. WellBuilt(lf1, rt1, pa1, mn1, n, b)
  BY <1>0, <1>4, <1>6, <1>7, <1>12, <1>13, <1>14, <1>15, WellBuiltParts
<1> QED
  BY <1>5, <1>16 DEF b, lf1, rt1, pa1

(* heap_remove of the last node. *)
Shrunk(a, n) == [i \in 1..n - 1 |-> a[i]]

LEMMA ShrunkFacts ==
  ASSUME NEW n, NEW a, Listed(n, a), n # 0
  PROVE  /\ Listed(n - 1, Shrunk(a, n))
         /\ \A i \in 1..n - 1 : i \in 1..n /\ i # n /\ Shrunk(a, n)[i] = a[i]
         /\ \A i \in Int : At(Shrunk(a, n), n - 1, i) = IF i = n THEN Null ELSE At(a, n, i)
<1> DEFINE b == Shrunk(a, n)
<1>0. n \in Nat /\ a \in [1..n -> Nodes] /\ \A i, h \in 1..n : a[i] = a[h] => i = h
  BY DEF Listed
<1>1. n - 1 \in Nat /\ (\A i \in 1..n - 1 : i \in 1..n /\ i # n)
      /\ (\A i \in Int : i \in 1..n - 1 <=> i \in 1..n /\ i # n)
  BY <1>0
<1>2. \A i \in 1..n - 1 : b[i] = a[i]
  BY DEF Shrunk
<1>3. b = [i \in 1..n - 1 |-> b[i]]
  BY DEF Shrunk
<1> HIDE DEF b
<1>4. b \in [1..n - 1 -> Nodes]
  BY <1>0, <1>1, <1>2, <1>3
<1>5. Listed(n - 1, b)
  BY <1>0, <1>1, <1>2, <1>4 DEF Listed
<1>6. \A i \in Int : At(b, n - 1, i) = IF i = n THEN Null ELSE At(a, n, i)
  BY <1>1, <1>2 DEF At
<1> QED
  BY <1>1, <1>2, <1>5, <1>6 DEF b

LEMMA RelinkFacts ==
  ASSUME NEW f \in Links, NEW g, NEW x, NEW y \in Nodes \cup {Null}
  PROVE  /\ Relink(f, g, x, y) \in Links
         /\ \A z \in Nodes : Relink(f, g, x, y)[z] = IF z = g /\ f[z] = x THEN y ELSE f[z]
<1> DEFINE f1 == Relink(f, g, x, y)
<1>1. \A z \in Nodes : f1[z] = IF z = g /\ f[z] = x THEN y ELSE f[z]
  BY DEF Relink
<1>2. f1 = [z \in Nodes |-> f1[z]]
  BY DEF Relink
<1>3. \A z \in Nodes : f[z] \in Nodes \cup {Null}
  BY DEF Links
<1> HIDE DEF f1
<1>4. f1 \in Links
  BY <1>1, <1>2, <1>3 DEF Links
<1> QED
  BY <1>1, <1>4 DEF f1

LEMMA ShrinkChildren ==
  ASSUME NEW n, NEW a, Listed(n, a), n # 0, NEW f \in Links, NEW bit \in {0, 1},
         ChildrenOf(f, a, n, bit)
  PROVE  /\ Relink(f, At(a, n, Half(n)), a[n], Null) \in Links
         /\ ChildrenOf(Relink(f, At(a, n, Half(n)), a[n], Null), Shrunk(a, n), n - 1, bit)
         /\ \A x \in Nodes : f[x] = Null => Relink(f, At(a, n, Half(n)), a[n], Null)[x] = Null
<1> DEFINE g == At(a, n, Half(n))
           b == Shrunk(a, n)
           f1 == Relink(f, g, a[n], Null)
<1>1. /\ n \in Nat
      /\ \A i \in 1..n : i \in Nat /\ i # 0 /\ i <= n
      /\ \A i \in 1..n : At(a, n, i) = a[i] /\ a[i] \in Nodes /\ a[i] # Null
      /\ \A i, h : i \in 1..n => (a[i] = At(a, n, h) <=> i = h)
  BY ListedFacts
<1>2. n \in 1..n /\ bit \in Nat
  BY <1>1
<1>3. /\ \A i \in 1..n - 1 : i \in 1..n /\ i # n /\ b[i] = a[i]
      /\ \A i \in Int : At(b, n - 1, i) = IF i = n THEN Null ELSE At(a, n, i)
  BY ShrunkFacts
<1> HIDE DEF b
<1>4. /\ f1 \in Links
      /\ \A z \in Nodes : f1[z] = IF z = g /\ f[z] = a[n] THEN Null ELSE f[z]
  BY RelinkFacts
<1> HIDE DEF f1
<1>5. ASSUME NEW i \in 1..n - 1 PROVE f1[b[i]] = At(b, n - 1, 2 * i + bit)
  <2>1. i \in 1..n /\ i \in Nat /\ b[i] = a[i] /\ a[i] \in Nodes
    BY <1>1, <1>3
  <2>2. f[a[i]] = At(a, n, 2 * i + bit)
    BY <2>1 DEF ChildrenOf
  <2>3. f[a[i]] = a[n] <=> 2 * i + bit = n
    BY <2>2, <1>1, <1>2
  <2>4. 2 * i + bit = n => Half(n) = i
    <3>1. 2 * i + bit = n => n = 2 * i \/ n = 2 * i + 1
      BY <2>1
    <3> QED
      BY <3>1, <2>1, <1>1, Halves
  <2>5. 2 * i + bit = n => a[i] = g
    BY <2>1, <2>4, <1>1
  <2>6. 2 * i + bit \in Int
    BY <2>1, <1>2
  <2>7. At(b, n - 1, 2 * i + bit) = IF 2 * i + bit = n THEN Null ELSE At(a, n, 2 * i + bit)
    BY <2>6, <1>3
  <2> QED
    BY <2>1, <2>2, <2>3, <2>5, <2>7, <1>4
<1>6. ChildrenOf(f1, b, n - 1, bit)
  BY <1>5 DEF ChildrenOf
<1>7. \A x \in Nodes : f[x] = Null => f1[x] = Null
  BY <1>4
<1> QED
  BY <1>4, <1>6, <1>7 DEF f1, b

LEMMA ShrinkTree ==
  ASSUME NEW lf, NEW rt, NEW pa, NEW mn, NEW n, NEW a, WellBuilt(lf, rt, pa, mn, n, a), n # 0
  PROVE  WellBuilt(Relink(lf, pa[a[n]], a[n], Null), Relink(rt, pa[a[n]], a[n], Null),
                   [pa EXCEPT ![a[n]] = Null], IF a[n] = mn THEN Null ELSE mn,
                   n - 1, Shrunk(a, n))
<1> DEFINE g == At(a, n, Half(n))
           b == Shrunk(a, n)
           lf1 == Relink(lf, g, a[n], Null)
           rt1 == Relink(rt, g, a[n], Null)
           pa1 == [pa EXCEPT ![a[n]] = Null]
           mn1 == IF a[n] = mn THEN Null ELSE mn
<1>0. /\ n <= N /\ Listed(n, a)
      /\ lf \in Links /\ rt \in Links /\ pa \in Links
      /\ mn = At(a, n, 1)
      /\ ChildrenOf(lf, a, n, 0) /\ ChildrenOf(rt, a, n, 1)
      /\ \A i \in 1..n : pa[a[i]] = At(a, n, Half(i))
      /\ \A x \in Nodes : (\A i \in 1..n : a[i] # x) => lf[x] = Null /\ rt[x] = Null /\ pa[x] = Null
  BY WellBuiltParts
<1>1. /\ n \in Nat
      /\ \A i \in 1..n : i \in Nat /\ i # 0 /\ i <= n
      /\ \A i \in 1..n : At(a, n, i) = a[i] /\ a[i] \in Nodes /\ a[i] # Null
      /\ \A i : At(a, n, i) # Null <=> i \in 1..n
      /\ \A i, h : i \in 1..n => (a[i] = At(a, n, h) <=> i = h)
  BY <1>0, ListedFacts
<1>2. n \in 1..n /\ n - 1 <= N /\ N \in Nat
  BY <1>0, <1>1, NodeNumbers
<1>3. /\ Listed(n - 1, b)
      /\ \A i \in 1..n - 1 : i \in 1..n /\ i # n /\ b[i] = a[i]
      /\ \A i \in Int : At(b, n - 1, i) = IF i = n THEN Null ELSE At(a, n, i)
  BY <1>0, ShrunkFacts
<1>4. /\ lf1 \in Links /\ ChildrenOf(lf1, b, n - 1, 0)
      /\ \A x \in Nodes : lf[x] = Null => lf1[x] = Null
  <2>1. 0 \in {0, 1}
    OBVIOUS
  <2> QED
    BY <2>1, <1>0, ShrinkChildren
<1>5. /\ rt1 \in Links /\ ChildrenOf(rt1, b, n - 1, 1)
      /\ \A x \in Nodes : rt[x] = Null => rt1[x] = Null
  <2>1. 1 \in {0, 1}
    OBVIOUS
  <2> QED
    BY <2>1, <1>0, ShrinkChildren
<1>6. pa[a[n]] = g
  BY <1>0, <1>2
<1> HIDE DEF b, lf1, rt1, g
<1>7. /\ pa1 \in Links
      /\ \A x \in Nodes : pa1[x] = IF x = a[n] THEN Null ELSE pa[x]
  BY <1>0, <1>1, <1>2 DEF Links
<1> HIDE DEF pa1
<1>8. ASSUME NEW i \in 1..n - 1 PROVE pa1[b[i]] = At(b, n - 1, Half(i))
  <2>1. i \in 1..n /\ i # n /\ b[i] = a[i] /\ a[i] \in Nodes /\ i \in Nat /\ i # 0 /\ i <= n
    BY <1>1, <1>3
  <2>2. a[i] # a[n]
    BY <2>1, <1>1, <1>2
  <2>3. pa1[b[i]] = At(a, n, Half(i))
    BY <2>1, <2>2, <1>0, <1>7
  <2>4. Half(i) \in Int /\ Half(i) # n
    <3>1. Half(i) \in Nat /\ (i >= 2 => Half(i) < i) /\ (i = 1 => Half(i) = 0)
      BY <2>1, Halves
    <3> QED
      BY <3>1, <2>1, <1>1
  <2> QED
    BY <2>3, <2>4, <1>3
<1>9. mn1 = At(b, n - 1, 1)
  <2>1. At(b, n - 1, 1) = IF 1 = n THEN Null ELSE At(a, n, 1)
    BY <1>3
  <2>2. a[n] = At(a, n, 1) <=> n = 1
    BY <1>1, <1>2
  <2> QED
    BY <2>1, <2>2, <1>0
<1>10. ASSUME NEW x \in Nodes, \A i \in 1..n - 1 : b[i] # x
       PROVE  lf1[x] = Null /\ rt1[x] = Null /\ pa1[x] = Null
  <2>1. lf[x] = Null /\ rt[x] = Null /\ (pa[x] = Null \/ x = a[n])
    <3>1. CASE x = a[n]
      <4>1. 2 * n + 0 \notin 1..n /\ 2 * n + 1 \notin 1..n
        BY <1>1
      <4>2. lf[a[n]] = At(a, n, 2 * n + 0) /\ rt[a[n]] = At(a, n, 2 * n + 1)
        BY <1>0, <1>2 DEF ChildrenOf
      <4>3. lf[a[n]] = Null /\ rt[a[n]] = Null
        BY <4>1, <4>2, <1>1
      <4> QED
        BY <3>1, <4>3
    <3>2. CASE x # a[n]
      <4>1. \A i \in 1..n : i \in 1..n - 1 \/ i = n
        BY <1>1
      <4>2. \A i \in 1..n : a[i] # x
        BY <4>1, <3>2, <1>3, <1>10
      <4> QED
        BY <4>2, <1>0
    <3> QED
      BY <3>1, <3>2
  <2> QED
    BY <2>1, <1>4, <1>5, <1>7
<1>11. WellBuilt(lf1, rt1, pa1, mn1, n - 1, b)
  BY <1>2, <1>3, <1>4, <1>5, <1>7, <1>8, <1>9, <1>10, WellBuiltParts
<1> QED
  BY <1>6, <1>11 DEF b, lf1, rt1, pa1

(* heap_remove of another node: a node from outside takes its place m. *)
Renamed(a, n, m, y) == [i \in 1..n |-> IF i = m THEN y ELSE a[i]]

LEMMA RenamedFacts ==
  ASSUME NEW n, NEW a, Listed(n, a), NEW m \in 1..n, NEW y \in Nodes, \A i \in 1..n : a[i] # y
  PROVE  /\ Listed(n, Renamed(a, n, m, y))
         /\ \A i \in 1..n : Renamed(a, n, m, y)[i] = IF i = m THEN y ELSE a[i]
         /\ \A i : At(Renamed(a, n, m, y), n, i) = IF i = m THEN y ELSE At(a, n, i)
<1> DEFINE b == Renamed(a, n, m, y)
<1>0. n \in Nat /\ a \in [1..n -> Nodes] /\ \A i, h \in 1..n : a[i] = a[h] => i = h
  BY DEF Listed
<1>1. /\ b \in [1..n -> Nodes]
      /\ \A i \in 1..n : b[i] = IF i = m THEN y ELSE a[i]
  BY <1>0 DEF Renamed
<1> HIDE DEF b
<1>2. \A i, h \in 1..n : b[i] = b[h] => i = h
  BY <1>0, <1>1
<1>3. Listed(n, b)
  BY <1>0, <1>1, <1>2 DEF Listed
<1>4. \A i : At(b, n, i) = IF i = m THEN y ELSE At(a, n, i)
  BY <1>1 DEF At
<1> QED
  BY <1>1, <1>3, <1>4 DEF b

RenameOne(f, g, x, y) == Relink(Inherit(f, x, y), g, x, y)

LEMMA RenameOneFacts ==
  ASSUME NEW f \in Links, NEW g, NEW x \in Nodes, NEW y \in Nodes, x # y, g # x, g # y
  PROVE  /\ RenameOne(f, g, x, y) \in Links
         /\ \A z \in Nodes : RenameOne(f, g, x, y)[z] =
              IF z = x THEN Null ELSE IF z = y THEN f[x]
              ELSE IF z = g /\ f[z] = x THEN y ELSE f[z]
<1> DEFINE f1 == RenameOne(f, g, x, y)
           h == Inherit(f, x, y)
<1>1. /\ h \in Links
      /\ \A z \in Nodes : h[z] = IF z = y THEN f[x] ELSE IF z = x THEN Null ELSE f[z]
  BY DEF Inherit, Links
<1> HIDE DEF h
<1>2. /\ Relink(h, g, x, y) \in Links
      /\ \A z \in Nodes : Relink(h, g, x, y)[z] = IF z = g /\ h[z] = x THEN y ELSE h[z]
  BY <1>1, RelinkFacts
<1>3. f1 = Relink(h, g, x, y)
  BY DEF RenameOne, h
<1> HIDE DEF f1
<1>4. \A z \in Nodes : f1[z] = IF z = x THEN Null ELSE IF z = y THEN f[x]
                               ELSE IF z = g /\ f[z] = x THEN y ELSE f[z]
  BY <1>1, <1>2, <1>3
<1> QED
  BY <1>2, <1>3, <1>4 DEF f1

LEMMA RenameChildren ==
  ASSUME NEW n, NEW a, Listed(n, a), NEW f \in Links, NEW bit \in {0, 1}, ChildrenOf(f, a, n, bit),
         NEW m \in 1..n, NEW y \in Nodes, \A i \in 1..n : a[i] # y
  PROVE  /\ RenameOne(f, At(a, n, Half(m)), a[m], y) \in Links
         /\ ChildrenOf(RenameOne(f, At(a, n, Half(m)), a[m], y), Renamed(a, n, m, y), n, bit)
         /\ RenameOne(f, At(a, n, Half(m)), a[m], y)[a[m]] = Null
         /\ \A x \in Nodes : x # y /\ (\A i \in 1..n : a[i] # x) =>
              RenameOne(f, At(a, n, Half(m)), a[m], y)[x] = f[x]
<1> DEFINE g == At(a, n, Half(m))
           b == Renamed(a, n, m, y)
           f1 == RenameOne(f, g, a[m], y)
<1>1. /\ n \in Nat
      /\ \A i \in 1..n : i \in Nat /\ i # 0 /\ i <= n
      /\ \A i \in 1..n : At(a, n, i) = a[i] /\ a[i] \in Nodes /\ a[i] # Null
      /\ \A i, h : i \in 1..n => (a[i] = At(a, n, h) <=> i = h)
  BY ListedFacts
<1>2. m \in Nat /\ m # 0 /\ bit \in Nat
  BY <1>1
<1>3. Half(m) \in Nat /\ Half(m) # m
  <2>1. Half(m) \in Nat /\ (m >= 2 => Half(m) < m) /\ (m = 1 => Half(m) = 0)
    BY <1>2, Halves
  <2> QED
    BY <2>1, <1>2
<1>4. /\ \A i \in 1..n : b[i] = IF i = m THEN y ELSE a[i]
      /\ \A i : At(b, n, i) = IF i = m THEN y ELSE At(a, n, i)
  BY RenamedFacts
<1> HIDE DEF b
<1>5. g # a[m] /\ g # y /\ a[m] # y
  <2>1. g # y
    BY NodeNumbers DEF At
  <2> QED
    BY <2>1, <1>1, <1>3
<1>6. a[m] \in Nodes
  BY <1>1
<1> HIDE DEF g
<1>7. /\ f1 \in Links
      /\ \A z \in Nodes : f1[z] = IF z = a[m] THEN Null ELSE IF z = y THEN f[a[m]]
                                  ELSE IF z = g /\ f[z] = a[m] THEN y ELSE f[z]
  BY <1>5, <1>6, RenameOneFacts
<1> HIDE DEF f1
<1>8. \A i \in 1..n : f[a[i]] = At(a, n, 2 * i + bit)
  BY DEF ChildrenOf
<1>9. ASSUME NEW i \in 1..n PROVE f1[b[i]] = At(b, n, 2 * i + bit)
  <2>0. 2 * i + bit \in Nat /\ 2 * i + bit > i /\ i \in Nat
    BY <1>1, <1>2
  <2>1. CASE i = m
    <3>1. f1[b[i]] = At(a, n, 2 * i + bit)
      BY <2>1, <1>4, <1>5, <1>7, <1>8
    <3>2. 2 * i + bit # m
      BY <2>0, <2>1
    <3> QED
      BY <3>1, <3>2, <1>4
  <2>2. CASE i # m
    <3>1. b[i] = a[i] /\ a[i] \in Nodes /\ a[i] # y
      BY <2>2, <1>1, <1>4
    <3>2. a[i] # a[m]
      BY <2>2, <1>1
    <3>3. f1[b[i]] = IF a[i] = g /\ f[a[i]] = a[m] THEN y ELSE f[a[i]]
      BY <3>1, <3>2, <1>7
    <3>4. f[a[i]] = At(a, n, 2 * i + bit)
      BY <1>8
    <3>5. f[a[i]] = a[m] <=> 2 * i + bit = m
      BY <3>4, <1>1
    <3>6. 2 * i + bit = m => Half(m) = i
      <4>1. 2 * i + bit = m => m = 2 * i \/ m = 2 * i + 1
        BY <2>0
      <4> QED
        BY <4>1, <2>0, <1>2, Halves
    <3>7. 2 * i + bit = m => a[i] = g
      BY <3>6, <1>1 DEF g
    <3>8. At(b, n, 2 * i + bit) = IF 2 * i + bit = m THEN y ELSE At(a, n, 2 * i + bit)
      BY <1>4
    <3> QED
      BY <3>3, <3>4, <3>5, <3>7, <3>8
  <2> QED
    BY <2>1, <2>2
<1>10. ChildrenOf(f1, b, n, bit)
  BY <1>9 DEF ChildrenOf
<1>11. f1[a[m]] = Null
  BY <1>6, <1>7
<1>12. \A x \in Nodes : x # y /\ (\A i \in 1..n : a[i] # x) => f1[x] = f[x]
  <2> SUFFICES ASSUME NEW x \in Nodes, x # y, \A i \in 1..n : a[i] # x PROVE f1[x] = f[x]
    OBVIOUS
  <2>1. x # a[m]
    OBVIOUS
  <2>2. x # g
    BY NodeNumbers DEF At, g
  <2> QED
    BY <2>1, <2>2, <1>7
<1> QED
  BY <1>7, <1>10, <1>11, <1>12 DEF f1, b, g

(* The parents afterwards. *)
ParentsRenamed(pa1, lf, rt, pa, x, y) ==
  /\ pa1 \in Links
  /\ \A z \in Nodes : pa1[z] = IF z = x THEN Null ELSE IF z = y THEN pa[x]
                               ELSE IF z = lf[x] \/ z = rt[x] THEN y ELSE pa[z]

LEMMA RenameTree ==
  ASSUME NEW lf, NEW rt, NEW pa, NEW mn, NEW n, NEW a, WellBuilt(lf, rt, pa, mn, n, a),
         NEW m \in 1..n, NEW y \in Nodes, \A i \in 1..n : a[i] # y,
         NEW pa1, ParentsRenamed(pa1, lf, rt, pa, a[m], y)
  PROVE  WellBuilt(RenameOne(lf, pa[a[m]], a[m], y), RenameOne(rt, pa[a[m]], a[m], y), pa1,
                   IF pa[a[m]] = Null THEN y ELSE mn, n, Renamed(a, n, m, y))
<1> DEFINE g == At(a, n, Half(m))
           x == a[m]
           b == Renamed(a, n, m, y)
           lf1 == RenameOne(lf, g, x, y)
           rt1 == RenameOne(rt, g, x, y)
           mn1 == IF g = Null THEN y ELSE mn
<1>0. /\ n <= N /\ Listed(n, a)
      /\ lf \in Links /\ rt \in Links /\ pa \in Links
      /\ mn = At(a, n, 1)
      /\ ChildrenOf(lf, a, n, 0) /\ ChildrenOf(rt, a, n, 1)
      /\ \A i \in 1..n : pa[a[i]] = At(a, n, Half(i))
      /\ \A z \in Nodes : (\A i \in 1..n : a[i] # z) => lf[z] = Null /\ rt[z] = Null /\ pa[z] = Null
  BY WellBuiltParts
<1>1. /\ n \in Nat
      /\ \A i \in 1..n : i \in Nat /\ i # 0 /\ i <= n
      /\ \A i \in 1..n : At(a, n, i) = a[i] /\ a[i] \in Nodes /\ a[i] # Null
      /\ \A i : At(a, n, i) # Null <=> i \in 1..n
      /\ \A i, h : i \in 1..n => (a[i] = At(a, n, h) <=> i = h)
  BY <1>0, ListedFacts
<1>2. m \in Nat /\ m # 0
  BY <1>1
<1>3. Half(m) \in Nat /\ Half(m) # m /\ (Half(m) \in 1..n <=> m # 1)
  <2>1. Half(m) \in Nat /\ (m >= 2 => Half(m) < m /\ Half(m) >= 1) /\ (m = 1 => Half(m) = 0)
    BY <1>2, Halves
  <2>2. m <= n
    BY <1>1
  <2> QED
    BY <2>1, <2>2, <1>2, <1>1
<1>4. /\ Listed(n, b)
      /\ \A i \in 1..n : b[i] = IF i = m THEN y ELSE a[i]
      /\ \A i : At(b, n, i) = IF i = m THEN y ELSE At(a, n, i)
  BY <1>0, RenamedFacts
<1>5. pa[x] = g
  BY <1>0
<1>6. /\ lf1 \in Links /\ ChildrenOf(lf1, b, n, 0) /\ lf1[x] = Null
      /\ \A z \in Nodes : z # y /\ (\A i \in 1..n : a[i] # z) => lf1[z] = lf[z]
  <2>1. 0 \in {0, 1}
    OBVIOUS
  <2> QED
    BY <2>1, <1>0, RenameChildren
<1>7. /\ rt1 \in Links /\ ChildrenOf(rt1, b, n, 1) /\ rt1[x] = Null
      /\ \A z \in Nodes : z # y /\ (\A i \in 1..n : a[i] # z) => rt1[z] = rt[z]
  <2>1. 1 \in {0, 1}
    OBVIOUS
  <2> QED
    BY <2>1, <1>0, RenameChildren
<1>8. /\ pa1 \in Links
      /\ \A z \in Nodes : pa1[z] = IF z = x THEN Null ELSE IF z = y THEN pa[x]
                                   ELSE IF z = lf[x] \/ z = rt[x] THEN y ELSE pa[z]
  BY DEF ParentsRenamed
<1>9. lf[x] = At(a, n, 2 * m + 0) /\ rt[x] = At(a, n, 2 * m + 1)
  BY <1>0 DEF ChildrenOf
<1>10. x \in Nodes /\ x # y
  BY <1>1
<1> HIDE DEF b, lf1, rt1, x
<1>11. mn1 = At(b, n, 1)
  <2>1. g = Null <=> m = 1
    BY <1>1, <1>3
  <2> QED
    BY <2>1, <1>0, <1>4
<1>12. ASSUME NEW i \in 1..n PROVE pa1[b[i]] = At(b, n, Half(i))
  <2>0. Half(i) \in Nat /\ i \in Nat
    BY <1>1, Halves
  <2>1. CASE i = m
    <3>1. pa1[b[i]] = g
      BY <2>1, <1>4, <1>5, <1>8, <1>10
    <3>2. At(b, n, Half(i)) = At(a, n, Half(m))
      BY <2>1, <1>3, <1>4
    <3> QED
      BY <3>1, <3>2
  <2>2. CASE i # m
    <3>1. b[i] = a[i] /\ a[i] \in Nodes /\ a[i] # y
      BY <2>2, <1>1, <1>4
    <3>2. a[i] # x
      BY <2>2, <1>1 DEF x
    <3>3. /\ a[i] = lf[x] <=> i = 2 * m + 0
          /\ a[i] = rt[x] <=> i = 2 * m + 1
      BY <1>1, <1>9
    <3>4. Half(i) = m <=> i = 2 * m + 0 \/ i = 2 * m + 1
      <4>1. 2 * m + 0 = 2 * m
        BY <1>2
      <4> QED
        BY <4>1, <2>0, <1>2, Halves
    <3>5. pa1[a[i]] = IF Half(i) = m THEN y ELSE pa[a[i]]
      BY <3>1, <3>2, <3>3, <3>4, <1>8
    <3>6. pa[a[i]] = At(a, n, Half(i))
      BY <1>0
    <3>7. At(b, n, Half(i)) = IF Half(i) = m THEN y ELSE At(a, n, Half(i))
      BY <1>4
    <3> QED
      BY <3>1, <3>5, <3>6, <3>7
  <2> QED
    BY <2>1, <2>2
<1>13. ASSUME NEW z \in Nodes, \A i \in 1..n : b[i] # z
       PROVE  lf1[z] = Null /\ rt1[z] = Null /\ pa1[z] = Null
  <2>1. CASE z = x
    BY <2>1, <1>6, <1>7, <1>8
  <2>2. CASE z # x
    <3>1. z # y
      BY <1>4, <1>13
    <3>2. \A i \in 1..n : a[i] # z
      BY <2>2, <1>4, <1>13 DEF x
    <3>3. lf[z] = Null /\ rt[z] = Null /\ pa[z] = Null
      BY <3>2, <1>0
    <3>4. \A i : At(a, n, i) # z
      BY <3>2, NodeNumbers DEF At
    <3> QED
      BY <2>2, <3>1, <3>2, <3>3, <3>4, <1>6, <1>7, <1>8, <1>9
  <2> QED
    BY <2>1, <2>2
<1>14. WellBuilt(lf1, rt1, pa1, mn1, n, b)
  BY <1>0, <1>4, <1>6, <1>7, <1>8, <1>11, <1>12, <1>13, WellBuiltParts
<1> QED
  BY <1>5, <1>14 DEF b, lf1, rt1, x

-----------------------------------------------------------------------------
(* The steps of the heap, as steps of the list of its nodes. *)

LEMMA PlacesAre ==
  ASSUME TreeInv
  PROVE  /\ nelts <= N /\ Listed(nelts, Places) /\ min = At(Places, nelts, 1)
         /\ \A i \in 1..nelts : NodeAt(i) = Places[i]
         /\ Tree = {Places[i] : i \in 1..nelts}
<1>1. nelts <= N /\ Listed(nelts, Places) /\ min = At(Places, nelts, 1)
  BY WellBuiltParts DEF TreeInv
<1>2. \A i \in 1..nelts : NodeAt(i) = Places[i]
  BY DEF Places
<1> QED
  BY <1>1, <1>2 DEF Tree

LEMMA TreeLinks ==
  ASSUME TreeInv
  PROVE  left \in Links /\ right \in Links /\ min \in Nodes \cup {Null}
<1>1. left \in Links /\ right \in Links
  BY DEF TreeInv, WellBuilt
<1>2. min = At(Places, nelts, 1) /\ nelts \in Nat /\ Places \in [1..nelts -> Nodes]
  BY PlacesAre DEF Listed
<1>3. min \in Nodes \cup {Null}
  BY <1>2, AtFacts
<1> QED
  BY <1>1, <1>3

(* The paths: the bits of a place's number behind the first, highest first.   *)
Bit == {0, 1}

LEMMA PathFacts ==
  /\ \A i \in 0..N : i < 2 => Path(i) = <<>>
  /\ \A i \in 0..N : i >= 2 => Path(i) = Append(Path(i \div 2), i % 2)
  /\ \A i \in 0..N : Path(i) \in Seq(Bit)
<1> DEFINE G == [si \in Seq(Bit) \X Nat |-> Append(si[1], si[2] % 2)]
           h == [i \in Nat |-> i \div 2]
           IsPath(path) ==
             path = [n \in 0..N |-> IF n < 2 THEN <<>> ELSE Append(path[n \div 2], n % 2)]
<1>1. /\ G \in [Seq(Bit) \X Nat -> Seq(Bit)]
      /\ \A q \in Seq(Bit), i \in Nat : G[<<q, i>>] = Append(q, i % 2)
  <2>1. ASSUME NEW q \in Seq(Bit), NEW i \in Nat PROVE Append(q, i % 2) \in Seq(Bit)
    <3>1. i % 2 \in Bit
      BY Bits DEF Bit
    <3> QED
      BY <3>1, AppendProperties
  <2> QED
    BY <2>1
<1>2. h \in [Nat -> Nat] /\ \A j \in Nat : j >= 2 => h[j] < j
  BY Halves DEF Half
<1>3. <<>> \in Seq(Bit) /\ 2 \in Nat /\ N \in Nat
  BY NodeNumbers
<1>15. \A j \in 0..N : j >= 2 => j \in Nat /\ j \div 2 \in 0..N /\ h[j] = j \div 2
  BY <1>3, Halves DEF Half
<1>16. \A i \in 0..N : ~(i < 2) <=> i >= 2
  BY <1>3
<1> HIDE DEF G, h
<1>4. PICK f \in [0..N -> Seq(Bit)] :
        \A j \in 0..N : f[j] = IF j < 2 THEN <<>> ELSE G[<<f[h[j]], j>>]
  <2>1. \E f \in [0..N -> Seq(Bit)] : Follows(f, N, <<>>, 2, G, h)
    BY <1>1, <1>2, <1>3, RecursionExists
  <2> QED
    BY <2>1 DEF Follows
<1>6. \A j \in 0..N : f[j] = IF j < 2 THEN <<>> ELSE Append(f[j \div 2], j % 2)
  <2> TAKE j \in 0..N
  <2>1. CASE j < 2
    BY <2>1, <1>4
  <2>2. CASE ~(j < 2)
    <3>1. j >= 2
      BY <2>2, <1>3
    <3>2. f[j] = G[<<f[j \div 2], j>>] /\ f[j \div 2] \in Seq(Bit) /\ j \in Nat
      BY <3>1, <2>2, <1>4, <1>15
    <3> QED
      BY <3>2, <2>2, <1>1
  <2> QED
    BY <2>1, <2>2
<1>7. IsPath(f)
  BY <1>4, <1>6
<1>8. PICK path : path = CHOOSE g : IsPath(g)
  OBVIOUS
<1>9. IsPath(path)
  BY <1>7, <1>8
<1>10. \A i \in 0..N : path[i] = IF i < 2 THEN <<>> ELSE Append(path[i \div 2], i % 2)
  BY <1>9
<1>17. /\ \A i \in 0..N : i < 2 => path[i] = <<>>
       /\ \A i \in 0..N : i >= 2 => path[i] = Append(path[i \div 2], i % 2)
  BY <1>10, <1>16, Zenon
<1>11. \A i : Path(i) = path[i]
  BY <1>8 DEF Path
<1> HIDE DEF IsPath
<1> DEFINE Wrong == {i \in Nat : i \in 0..N /\ path[i] \notin Seq(Bit)}
<1>12. Wrong = {}
  <2> SUFFICES ASSUME Wrong # {} PROVE FALSE
    OBVIOUS
  <2>1. PICK i \in Wrong : \A k \in Wrong : i <= k
    BY LeastNat
  <2>2. i \in Nat /\ i \in 0..N /\ path[i] \notin Seq(Bit)
    BY <2>1
  <2>3. i >= 2
    BY <2>2, <1>3, <1>16, <1>17, Zenon
  <2>4. i \div 2 \in Nat /\ i \div 2 < i /\ i \div 2 \in 0..N
    BY <2>2, <2>3, <1>15, Halves DEF Half
  <2>5. i \div 2 \notin Wrong
    BY <2>1, <2>2, <2>4
  <2>6. path[i \div 2] \in Seq(Bit)
    BY <2>4, <2>5
  <2>7. path[i] = Append(path[i \div 2], i % 2) /\ i % 2 \in Bit
    BY <2>2, <2>3, <1>17, Bits DEF Bit
  <2> QED
    BY <2>2, <2>6, <2>7, AppendProperties
<1>13. \A i \in 0..N : path[i] \in Seq(Bit)
  <2> SUFFICES ASSUME NEW i \in 0..N, path[i] \notin Seq(Bit) PROVE FALSE
    OBVIOUS
  <2>1. i \in Wrong
    BY <1>3
  <2> QED
    BY <2>1, <1>12
<1> QED
  BY <1>11, <1>13, <1>17, Zenon

(* A walk, step by step. *)
LEMMA WalkFacts ==
  ASSUME left \in Links, right \in Links, min \in Nodes \cup {Null}, NEW path \in Seq(Bit)
  PROVE  /\ Walk(path, 0) = min
         /\ \A k \in 1..Len(path) : Walk(path, k) = Child(Walk(path, k - 1), path[k])
<1> DEFINE S == Nodes \cup {Null}
           G == [sj \in S \X Nat |-> Child(sj[1], path[sj[2]])]
           h == [j \in Nat |-> IF j = 0 THEN 0 ELSE j - 1]
           IsWalk(at) ==
             at = [j \in 0..Len(path) |-> IF j = 0 THEN min ELSE Child(at[j - 1], path[j])]
<1>1. /\ G \in [S \X Nat -> S]
      /\ \A n \in S, j \in Nat : G[<<n, j>>] = Child(n, path[j])
  BY DEF Child, Links
<1>2. /\ h \in [Nat -> Nat] /\ \A j \in Nat : j >= 1 => h[j] < j
      /\ \A j \in Nat : j # 0 => h[j] = j - 1
  OBVIOUS
<1>3. min \in S /\ 1 \in Nat /\ Len(path) \in Nat
  OBVIOUS
<1> HIDE DEF G, h, S
<1>4. PICK f \in [0..Len(path) -> S] :
        \A j \in 0..Len(path) : f[j] = IF j < 1 THEN min ELSE G[<<f[h[j]], j>>]
  <2>1. \E f \in [0..Len(path) -> S] : Follows(f, Len(path), min, 1, G, h)
    BY <1>1, <1>2, <1>3, RecursionExists
  <2> QED
    BY <2>1 DEF Follows
<1>5. \A j \in 0..Len(path) : f[j] = IF j = 0 THEN min ELSE Child(f[j - 1], path[j])
  <2> TAKE j \in 0..Len(path)
  <2>1. CASE j = 0
    BY <2>1, <1>4
  <2>2. CASE j # 0
    <3>1. j \in Nat /\ ~(j < 1) /\ h[j] = j - 1 /\ j - 1 \in 0..Len(path)
      BY <2>2, <1>2, <1>3
    <3>2. f[j] = G[<<f[j - 1], j>>] /\ f[j - 1] \in S
      BY <3>1, <1>4
    <3> QED
      BY <3>1, <3>2, <2>2, <1>1
  <2> QED
    BY <2>1, <2>2
<1>6. IsWalk(f)
  BY <1>4, <1>5
<1>7. PICK at : at = CHOOSE g : IsWalk(g)
  OBVIOUS
<1>8. IsWalk(at)
  BY <1>6, <1>7
<1>9. \A j \in 0..Len(path) : at[j] = IF j = 0 THEN min ELSE Child(at[j - 1], path[j])
  BY <1>8
<1>10. \A k : Walk(path, k) = at[k]
  BY <1>7 DEF Walk
<1> HIDE DEF IsWalk
<1>11. \A k \in 1..Len(path) : k \in 0..Len(path) /\ k # 0
  BY <1>3
<1> QED
  BY <1>3, <1>9, <1>10, <1>11

(* One step more leaves the walk before it as it is. *)
LEMMA WalkAppend ==
  ASSUME left \in Links, right \in Links, min \in Nodes \cup {Null},
         NEW path \in Seq(Bit), NEW bit \in Bit
  PROVE  \A k \in 0..Len(path) : Walk(Append(path, bit), k) = Walk(path, k)
<1> DEFINE long == Append(path, bit)
<1>1. /\ long \in Seq(Bit) /\ Len(long) = Len(path) + 1 /\ Len(path) \in Nat
      /\ \A i \in 1..Len(path) : long[i] = path[i]
  BY AppendProperties
<1> HIDE DEF long
<1>2. Walk(long, 0) = Walk(path, 0)
  BY <1>1, WalkFacts
<1> DEFINE Wrong == {k \in Nat : k \in 0..Len(path) /\ Walk(long, k) # Walk(path, k)}
<1>3. Wrong = {}
  <2> SUFFICES ASSUME Wrong # {} PROVE FALSE
    OBVIOUS
  <2>1. PICK k \in Wrong : \A j \in Wrong : k <= j
    BY LeastNat
  <2>2. k \in Nat /\ k \in 0..Len(path) /\ Walk(long, k) # Walk(path, k)
    BY <2>1
  <2>3. k # 0
    BY <2>2, <1>2
  <2>4. k \in 1..Len(path) /\ k \in 1..Len(long) /\ k - 1 \in Nat /\ k - 1 \in 0..Len(path)
    BY <2>2, <2>3, <1>1
  <2>5. k - 1 \notin Wrong
    BY <2>1, <2>4
  <2>6. Walk(long, k - 1) = Walk(path, k - 1)
    BY <2>4, <2>5
  <2>7. Walk(long, k) = Child(Walk(long, k - 1), long[k])
    BY <2>4, <1>1, WalkFacts
  <2>8. Walk(path, k) = Child(Walk(path, k - 1), path[k])
    BY <2>4, WalkFacts
  <2> QED
    BY <2>2, <2>4, <2>6, <2>7, <2>8, <1>1
<1>4. ASSUME NEW k \in 0..Len(path), Walk(long, k) # Walk(path, k) PROVE FALSE
  <2>1. k \in Wrong
    BY <1>1, <1>4
  <2> QED
    BY <2>1, <1>3
<1> HIDE DEF Wrong
<1> QED
  BY <1>4 DEF long

LEMMA NodeAtFacts ==
  /\ NodeAt(1) = min
  /\ \A i \in 2..N : NodeAt(i) = Child(NodeAt(i \div 2), i % 2)
<1>1. PICK at : at = CHOOSE f : WalkTo(left, right, min, N, f)
  OBVIOUS
<1>2. WalkTo(left, right, min, N, at)
  BY <1>1, NodeNumbers, WalksExist
<1>3. \A j \in 1..N : at[j] = IF j = 1 THEN min ELSE ChildIn(left, right, at[j \div 2], j % 2)
  BY <1>2 DEF WalkTo
<1>4. \A i : NodeAt(i) = at[i]
  BY <1>1, NodeAtIsIn DEF NodeIn
<1>5. \A i \in 2..N : i \in 1..N /\ i # 1
  OBVIOUS
<1> QED
  BY <1>3, <1>4, <1>5, NodeNumbers DEF ChildIn, Child

(* The path loops of heap_insert and heap_remove: the path of a place leads to *)
(* the node at the place, and without its last bit to the parent.              *)
LEMMA PathLeads ==
  ASSUME left \in Links, right \in Links, min \in Nodes \cup {Null}
  PROVE  /\ \A i \in 1..N : Walk(Path(i), Len(Path(i))) = NodeAt(i)
         /\ Len(Path(1)) = 0
         /\ \A i \in 2..N : /\ Len(Path(i)) # 0
                            /\ Path(i)[Len(Path(i))] = i % 2
                            /\ Walk(Path(i), Len(Path(i)) - 1) = NodeAt(i \div 2)
<1> DEFINE End(i) == Walk(Path(i), Len(Path(i)))
<1>0. N \in Nat /\ 1 \in 0..N /\ 1 \in 1..N
  BY NodeNumbers
<1>1. Path(1) = <<>> /\ Len(Path(1)) = 0 /\ Path(1) \in Seq(Bit)
  BY <1>0, PathFacts
<1>2. End(1) = NodeAt(1)
  BY <1>1, WalkFacts, NodeAtFacts
<1>3. ASSUME NEW i \in 2..N
      PROVE  /\ i \in Nat /\ i >= 2 /\ i \in 1..N /\ i \in 0..N
             /\ i \div 2 \in 1..N /\ i \div 2 < i
             /\ Path(i \div 2) \in Seq(Bit)
             /\ Len(Path(i)) = Len(Path(i \div 2)) + 1 /\ Len(Path(i \div 2)) \in Nat
             /\ Path(i)[Len(Path(i))] = i % 2
             /\ Walk(Path(i), Len(Path(i)) - 1) = End(i \div 2)
             /\ End(i) = Child(End(i \div 2), i % 2)
  <2>1. i \in Nat /\ i >= 2 /\ i \in 1..N /\ i \in 0..N
    BY <1>0
  <2>2. i \div 2 \in 1..N /\ i \div 2 < i /\ i \div 2 \in 0..N
    BY <1>0, <2>1, Halves DEF Half
  <2>3. PICK q : q = Path(i \div 2)
    OBVIOUS
  <2>4. q \in Seq(Bit) /\ i % 2 \in Bit /\ Path(i) = Append(q, i % 2) /\ Path(i) \in Seq(Bit)
    BY <2>1, <2>2, <2>3, PathFacts, Bits DEF Bit
  <2>5. Len(Path(i)) = Len(q) + 1 /\ Len(q) \in Nat /\ Path(i)[Len(q) + 1] = i % 2
    BY <2>4, AppendProperties
  <2>6. Walk(Path(i), Len(q)) = Walk(q, Len(q))
    BY <2>4, <2>5, WalkAppend
  <2>9. Len(q) + 1 \in 1..Len(Path(i))
    BY <2>5
  <2>7. Walk(Path(i), Len(q) + 1) = Child(Walk(Path(i), (Len(q) + 1) - 1), Path(i)[Len(q) + 1])
    BY <2>4, <2>9, WalkFacts
  <2>8. (Len(q) + 1) - 1 = Len(q)
    BY <2>5
  <2> QED
    BY <2>1, <2>2, <2>3, <2>4, <2>5, <2>6, <2>7, <2>8
<1> HIDE DEF End
<1> DEFINE Wrong == {i \in Nat : i \in 1..N /\ End(i) # NodeAt(i)}
<1>4. Wrong = {}
  <2> SUFFICES ASSUME Wrong # {} PROVE FALSE
    OBVIOUS
  <2>1. PICK i \in Wrong : \A k \in Wrong : i <= k
    BY LeastNat
  <2>2. i \in Nat /\ i \in 1..N /\ End(i) # NodeAt(i) /\ i \in 2..N
    BY <2>1, <1>0, <1>2
  <2>3. i \div 2 \in 1..N /\ i \div 2 < i /\ i \div 2 \in Nat
    BY <2>2, <1>3
  <2>4. i \div 2 \notin Wrong
    BY <2>1, <2>2, <2>3
  <2>5. End(i \div 2) = NodeAt(i \div 2)
    BY <2>3, <2>4
  <2> QED
    BY <2>2, <2>5, <1>3, NodeAtFacts
<1>5. \A i \in 1..N : End(i) = NodeAt(i)
  <2> SUFFICES ASSUME NEW i \in 1..N, End(i) # NodeAt(i) PROVE FALSE
    OBVIOUS
  <2>1. i \in Wrong
    BY <1>0
  <2> QED
    BY <2>1, <1>4
<1> HIDE DEF Wrong
<1>6. \A i \in 1..N : Walk(Path(i), Len(Path(i))) = NodeAt(i)
  BY <1>5 DEF End
<1>7. ASSUME NEW i \in 2..N
      PROVE  /\ Len(Path(i)) # 0
             /\ Path(i)[Len(Path(i))] = i % 2
             /\ Walk(Path(i), Len(Path(i)) - 1) = NodeAt(i \div 2)
  <2>1. Len(Path(i)) # 0
    BY <1>3
  <2> QED
    BY <2>1, <1>3, <1>5
<1> QED
  BY <1>1, <1>6, <1>7

(* heap_remove finds the node at the last place. *)
LEMMA MaxNodeIs ==
  ASSUME TreeInv, nelts \in 1..N
  PROVE  MaxNode = NodeAt(nelts)
<1>1. left \in Links /\ right \in Links /\ min \in Nodes \cup {Null}
  BY TreeLinks
<1> QED
  BY <1>1, PathLeads DEF MaxNode

LEMMA PlacesBecome ==
  ASSUME NEW b, WellBuilt(left', right', parent', min', nelts', b)
  PROVE  TreeInv' /\ Places' = b
<1>1. [i \in 1..nelts' |-> NodeIn(left', right', min', i)] = b
  BY WellBuiltPlaces
<1>2. Places' = [i \in 1..nelts' |-> NodeIn(left', right', min', i)]
  BY NodeAtIsIn2 DEF Places
<1> QED
  BY <1>1, <1>2 DEF TreeInv

(* There is room for a node that the list does not hold. *)
LEMMA Room ==
  ASSUME NEW n, NEW a, Listed(n, a), NEW x \in Nodes, \A i \in 1..n : a[i] # x
  PROVE  n < N
<1>0. n \in Nat /\ a \in [1..n -> Nodes] /\ \A i, h \in 1..n : a[i] = a[h] => i = h
  BY DEF Listed
<1>1. IsFiniteSet(Nodes) /\ Cardinality(Nodes) = N
  BY NodeNumbers, FS_Interval DEF Nodes
<1>2. IsFiniteSet(Nodes \ {x}) /\ Cardinality(Nodes \ {x}) = N - 1
  BY <1>1, FS_RemoveElement
<1>3. a \in [1..n -> Nodes \ {x}]
  BY <1>0
<1>4. a \in Injection(1..n, Nodes \ {x})
  BY <1>0, <1>3 DEF Injection, IsInjective
<1>5. Cardinality(1..n) <= N - 1
  BY <1>2, <1>4, FS_Injection
<1>6. Cardinality(1..n) = n
  BY <1>0, FS_Interval
<1> QED
  BY <1>0, <1>5, <1>6, NodeNumbers

LEMMA InsertStep ==
  ASSUME TreeInv, NEW x \in Nodes, HeapInsert(x)
  PROVE  /\ TreeInv' /\ Places' = Grown(Places, nelts, x) /\ nelts' = nelts + 1
         /\ \A i \in 1..nelts : Places[i] # x
<1> DEFINE a == Places
           n == nelts
<1>1. /\ n <= N /\ Listed(n, a) /\ \A i \in 1..n : NodeAt(i) = a[i]
      /\ Tree = {a[i] : i \in 1..n}
  BY PlacesAre
<1>2. n \in Nat
  BY <1>1 DEF Listed
<1>3. \A i \in 1..n : a[i] # x
  BY <1>1 DEF HeapInsert
<1>4. n < N
  BY <1>1, <1>3, Room
<1>5. WellBuilt(left, right, parent, min, n, a)
  BY DEF TreeInv
<1> HIDE DEF a
<1>6. n # 0 => Half(n + 1) \in 1..n
  <2>1. n # 0 => Half(n + 1) \in Nat /\ Half(n + 1) >= 1 /\ Half(n + 1) < n + 1
    BY <1>2, Halves
  <2> QED
    BY <2>1, <1>2
<1>7. n # 0 => NodeAt((n + 1) \div 2) = a[Half(n + 1)]
  BY <1>1, <1>6 DEF Half
<1>12. left \in Links /\ right \in Links /\ min \in Nodes \cup {Null}
  BY TreeLinks
<1>13. n # 0 => n + 1 \in 2..N
  BY <1>2, <1>4, NodeNumbers
<1>14. Len(Path(1)) = 0 /\ (n = 0 => n + 1 = 1)
  BY <1>12, PathLeads
<1>15. n # 0 => /\ Len(Path(n + 1)) # 0
                /\ Path(n + 1)[Len(Path(n + 1))] = (n + 1) % 2
                /\ Walk(Path(n + 1), Len(Path(n + 1)) - 1) = a[Half(n + 1)]
  BY <1>7, <1>12, <1>13, PathLeads
<1>8. n = 0 => left' = left /\ right' = right /\ parent' = parent /\ min' = x
  BY <1>14 DEF HeapInsert, links
<1>9. n # 0 => /\ left' = IF (n + 1) % 2 = 0 THEN [left EXCEPT ![a[Half(n + 1)]] = x] ELSE left
               /\ right' = IF (n + 1) % 2 = 1 THEN [right EXCEPT ![a[Half(n + 1)]] = x] ELSE right
               /\ parent' = [parent EXCEPT ![x] = a[Half(n + 1)]]
               /\ min' = min
  BY <1>15 DEF HeapInsert
<1>10. nelts' = n + 1
  BY DEF HeapInsert
<1>11. WellBuilt(left', right', parent', min', n + 1, Grown(a, n, x))
  BY <1>3, <1>4, <1>5, <1>8, <1>9, GrowTree
<1> QED
  BY <1>3, <1>10, <1>11, PlacesBecome DEF a

LEMMA SwapStep ==
  ASSUME TreeInv, NEW k \in 1..nelts, NEW j \in 1..nelts, Half(j) = k,
         Swap(Places[k], Places[j]), nelts' = nelts
  PROVE  TreeInv' /\ Places' = Exchanged(Places, nelts, k, j)
<1> DEFINE a == Places
           p == Places[k]
           c == Places[j]
<1>1. WellBuilt(left, right, parent, min, nelts, a)
  BY DEF TreeInv
<1>2. /\ left' = SwapOne(left, parent[p], p, c)
      /\ right' = SwapOne(right, parent[p], p, c)
      /\ parent' = SwapParents(left, right, parent, p, c)
      /\ min' = IF parent[p] = Null THEN c ELSE min
  BY DEF Swap, SwapLinks, SwapOne, SwapParents
<1>3. WellBuilt(left', right', parent', min', nelts', Exchanged(a, nelts, k, j))
  BY <1>1, <1>2, SwapTree
<1> QED
  BY <1>3, PlacesBecome

(* cur is at a place k > 1, and its parent is the node of k's half. *)
LEMMA UpStep ==
  ASSUME TreeInv, OrderInv, SiftUp
  PROVE  \E j \in 2..nelts : /\ Places[j] = cur /\ Half(j) \in 1..nelts /\ Half(j) < j
                             /\ cur < Places[Half(j)]
                             /\ TreeInv' /\ Places' = Exchanged(Places, nelts, Half(j), j)
                             /\ nelts' = nelts /\ cur' = cur /\ op = "up" /\ op' = "up"
<1>1. op = "up" /\ op' = "up" /\ nelts' = nelts /\ cur' = cur /\ Above /\ Swap(parent[cur], cur)
  BY DEF SiftUp
<1>2. PICK j \in 1..nelts : Places[j] = cur
  BY <1>1 DEF OrderInv, Ordered
<1>3. nelts \in Nat /\ \A i \in 1..nelts : parent[Places[i]] = At(Places, nelts, Half(i))
  BY WellBuiltParts DEF TreeInv, Listed
<1>4. Half(j) \in 1..nelts /\ parent[cur] = Places[Half(j)]
  BY <1>1, <1>2, <1>3 DEF Above, At
<1>5. j \in 2..nelts /\ Half(j) < j
  <2>1. j \in Nat /\ j >= 1 /\ j <= nelts
    BY <1>3
  <2>2. j # 1
    BY <1>3, <1>4, Halves
  <2>3. j >= 2
    BY <2>1, <2>2
  <2> QED
    BY <2>1, <2>3, <1>3, Halves
<1>6. TreeInv' /\ Places' = Exchanged(Places, nelts, Half(j), j)
  BY <1>1, <1>2, <1>4, SwapStep
<1> QED
  BY <1>1, <1>2, <1>4, <1>5, <1>6 DEF Above

LEMMA ChildrenArePlaces ==
  ASSUME TreeInv, NEW k \in 1..nelts
  PROVE  /\ \A i \in 2..nelts : Half(i) = k => Places[i] \in Children(Places[k])
         /\ \A d \in Children(Places[k]) : \E i \in 2..nelts : Half(i) = k /\ d = Places[i]
         /\ Children(Places[k]) \subseteq Nodes
<1> DEFINE a == Places
           n == nelts
<1>1. Listed(n, a) /\ ChildrenOf(left, a, n, 0) /\ ChildrenOf(right, a, n, 1)
  BY WellBuiltParts DEF TreeInv
<1>2. /\ n \in Nat
      /\ \A i \in 1..n : i \in Nat /\ i # 0 /\ i <= n
      /\ \A i \in 1..n : At(a, n, i) = a[i] /\ a[i] \in Nodes /\ a[i] # Null
      /\ \A i : At(a, n, i) \in Nodes \cup {Null}
      /\ \A i : At(a, n, i) # Null <=> i \in 1..n
  BY <1>1, ListedFacts
<1>3. left[a[k]] = At(a, n, 2 * k + 0) /\ right[a[k]] = At(a, n, 2 * k + 1)
  BY <1>1 DEF ChildrenOf
<1>4. k \in Nat /\ k # 0 /\ 2 * k + 0 = 2 * k
  BY <1>2
<1>5. \A i \in 2..n : i \in Nat /\ i \in 1..n
  BY <1>2
<1> HIDE DEF a
<1>6. ASSUME NEW i \in 2..n, Half(i) = k PROVE a[i] \in Children(a[k])
  <2>1. i = 2 * k + 0 \/ i = 2 * k + 1
    BY <1>4, <1>5, <1>6, Halves
  <2>2. a[i] = left[a[k]] \/ a[i] = right[a[k]]
    BY <2>1, <1>2, <1>3, <1>5
  <2> QED
    BY <2>2, <1>2, <1>5 DEF Children
<1>7. ASSUME NEW d \in Children(a[k]) PROVE \E i \in 2..n : Half(i) = k /\ d = a[i]
  <2>1. d # Null /\ (d = At(a, n, 2 * k + 0) \/ d = At(a, n, 2 * k + 1))
    BY <1>3, <1>7 DEF Children
  <2>2. PICK i \in {2 * k + 0, 2 * k + 1} : d = At(a, n, i)
    BY <2>1
  <2>3. i \in 1..n /\ i \in Nat /\ i >= 2
    BY <2>1, <2>2, <1>2, <1>4
  <2>4. Half(i) = k
    BY <2>2, <2>3, <1>4, Halves
  <2>5. i \in 2..n
    BY <2>3, <1>2
  <2> QED
    BY <2>2, <2>3, <2>4, <2>5, <1>2
<1>8. Children(a[k]) \subseteq Nodes
  BY <1>2, <1>3 DEF Children
<1> QED
  BY <1>6, <1>7, <1>8 DEF a

LEMMA SmallestIsLeast ==
  ASSUME TreeInv, NEW k \in 1..nelts, Places[k] = cur
  PROVE  /\ Smallest \in {cur} \cup Children(cur)
         /\ \A d \in {cur} \cup Children(cur) : Smallest <= d
<1>1. cur \in Nodes /\ Children(cur) \subseteq Nodes
  BY ChildrenArePlaces, PlacesAre, ListedFacts
<1>2. {cur} \cup Children(cur) \in SUBSET Nat
  BY <1>1, NodeNumbers DEF Nodes
<1>3. \E x \in {cur} \cup Children(cur) : \A y \in {cur} \cup Children(cur) : x <= y
  BY <1>2, LeastNat
<1> QED
  BY <1>3 DEF Smallest

LEMMA DownStep ==
  ASSUME TreeInv, OrderInv, SiftDown
  PROVE  \E j \in 2..nelts : /\ Places[Half(j)] = cur /\ Half(j) \in 1..nelts /\ Half(j) < j
                             /\ Places[j] < cur
                             /\ \A i \in 2..nelts : Half(i) = Half(j) => Places[j] <= Places[i]
                             /\ TreeInv' /\ Places' = Exchanged(Places, nelts, Half(j), j)
                             /\ nelts' = nelts /\ cur' = cur /\ op = "down" /\ op' = "down"
<1>1. op = "down" /\ op' = "down" /\ nelts' = nelts /\ cur' = cur /\ Smallest # cur /\ Swap(cur, Smallest)
  BY DEF SiftDown
<1>2. PICK k \in 1..nelts : Places[k] = cur
  BY <1>1 DEF OrderInv, Ordered
<1>3. Smallest \in Children(cur) /\ \A d \in {cur} \cup Children(cur) : Smallest <= d
  BY <1>1, <1>2, SmallestIsLeast
<1>4. PICK j \in 2..nelts : Half(j) = k /\ Smallest = Places[j]
  BY <1>2, <1>3, ChildrenArePlaces
<1>5. nelts \in Nat /\ \A i \in 1..nelts : Places[i] \in Nodes
  BY PlacesAre, ListedFacts
<1>6. j \in 1..nelts /\ j \in Nat /\ k \in Nat /\ j >= 2
  BY <1>5
<1>7. Half(j) < j
  BY <1>6, Halves
<1>8. Places[j] < cur
  <2>1. Places[j] \in Nat /\ cur \in Nat
    BY <1>2, <1>5, <1>6, NodeNumbers DEF Nodes
  <2>2. Places[j] <= cur /\ Places[j] # cur
    BY <1>1, <1>3, <1>4
  <2> QED
    BY <2>1, <2>2
<1>9. \A i \in 2..nelts : Half(i) = Half(j) => Places[j] <= Places[i]
  BY <1>2, <1>3, <1>4, ChildrenArePlaces
<1>10. TreeInv' /\ Places' = Exchanged(Places, nelts, k, j)
  BY <1>1, <1>2, <1>4, <1>6, SwapStep
<1> QED
  BY <1>1, <1>2, <1>4, <1>7, <1>8, <1>9, <1>10

LEMMA RemoveLastStep ==
  ASSUME TreeInv, NEW x \in Nodes, HeapRemove(x), NodeAt(nelts) = x
  PROVE  /\ nelts \in 1..N /\ nelts' = nelts - 1 /\ x = Places[nelts]
         /\ TreeInv' /\ Places' = Shrunk(Places, nelts)
         /\ op' = op /\ cur' = cur
<1> DEFINE a == Places
           n == nelts
<1>1. /\ n <= N /\ Listed(n, a) /\ \A i \in 1..n : NodeAt(i) = a[i]
      /\ Tree = {a[i] : i \in 1..n}
  BY PlacesAre
<1>2. n \in Nat /\ 1..n # {}
  BY <1>1 DEF Listed, HeapRemove
<1>3. n # 0 /\ n \in 1..n /\ n \in 1..N
  BY <1>1, <1>2, NodeNumbers
<1>4. x = a[n]
  BY <1>1, <1>3
<1>5. WellBuilt(left, right, parent, min, n, a)
  BY DEF TreeInv
<1>8. MaxNode = x
  BY <1>3, MaxNodeIs
<1>6. /\ left' = Relink(left, parent[x], x, Null)
      /\ right' = Relink(right, parent[x], x, Null)
      /\ parent' = [parent EXCEPT ![x] = Null]
      /\ min' = IF x = min THEN Null ELSE min
      /\ nelts' = n - 1 /\ op' = op /\ cur' = cur
  BY <1>8 DEF HeapRemove
<1> HIDE DEF a
<1>7. WellBuilt(left', right', parent', min', n - 1, Shrunk(a, n))
  BY <1>3, <1>4, <1>5, <1>6, ShrinkTree
<1> QED
  BY <1>3, <1>4, <1>6, <1>7, PlacesBecome DEF a

LEMMA TakePlaceStep ==
  ASSUME TreeInv, NEW x \in Nodes, HeapRemove(x), NodeAt(nelts) # x
  PROVE  \E m \in 1..nelts - 1 :
           /\ nelts \in 1..N /\ nelts' = nelts - 1 /\ x = Places[m]
           /\ TreeInv' /\ Places' = Renamed(Shrunk(Places, nelts), nelts - 1, m, Places[nelts])
           /\ op = "idle" /\ op' = "down" /\ cur' = Places[nelts]
<1> DEFINE a == Places
           n == nelts
           last == a[n]
           b == Shrunk(a, n)
           l == Relink(left, parent[last], last, Null)
           r == Relink(right, parent[last], last, Null)
           pa == [parent EXCEPT ![last] = Null]
           mn == IF last = min THEN Null ELSE min
<1>1. /\ n <= N /\ Listed(n, a) /\ \A i \in 1..n : NodeAt(i) = a[i]
      /\ Tree = {a[i] : i \in 1..n} /\ min = At(a, n, 1)
  BY PlacesAre
<1>2. /\ n \in Nat
      /\ \A i \in 1..n : i \in Nat /\ i # 0 /\ i <= n
      /\ \A i \in 1..n : At(a, n, i) = a[i] /\ a[i] \in Nodes /\ a[i] # Null
      /\ \A i, h : i \in 1..n => (a[i] = At(a, n, h) <=> i = h)
  BY <1>1, ListedFacts
<1>3. PICK m \in 1..n : x = a[m]
  BY <1>1 DEF HeapRemove
<1>4. n # 0 /\ n \in 1..n /\ n \in 1..N
  BY <1>1, <1>2, NodeNumbers
<1>5. m # n /\ m \in 1..n - 1 /\ x # last /\ NodeAt(n) = last /\ last \in Nodes
  BY <1>1, <1>2, <1>3, <1>4
<1>6. WellBuilt(left, right, parent, min, n, a)
  BY DEF TreeInv
<1>7. WellBuilt(l, r, pa, mn, n - 1, b)
  BY <1>4, <1>6, ShrinkTree
<1>0. MaxNode = last
  BY <1>4, <1>5, MaxNodeIs
<1>8. TakePlace(x, last)
  BY <1>5, <1>0 DEF HeapRemove
<1>9. op = "idle" /\ op' = "down" /\ cur' = last /\ nelts' = n - 1
  BY <1>5, <1>0 DEF HeapRemove
<1>10. parent \in Links
  BY <1>6, WellBuiltParts
<1>11. pa \in Links /\ \A z \in Nodes : pa[z] = IF z = last THEN Null ELSE parent[z]
  BY <1>10 DEF Links
<1>12. /\ \A i \in 1..n - 1 : b[i] = a[i]
       /\ \A i \in 1..n - 1 : b[i] # last
       /\ Listed(n - 1, b)
  <2>1. /\ \A i \in 1..n - 1 : i \in 1..n /\ i # n /\ b[i] = a[i]
        /\ Listed(n - 1, b)
    BY <1>1, <1>4, ShrunkFacts
  <2> QED
    BY <2>1, <1>2, <1>4
<1>13. b[m] = x /\ pa[x] = parent[x]
  BY <1>3, <1>5, <1>11, <1>12
<1>14. mn = min
  <2>1. last = min => n = 1
    BY <1>1, <1>2, <1>4
  <2> QED
    BY <2>1, <1>2, <1>5
<1> HIDE DEF pa, mn, b
<1>15. /\ left' = RenameOne(l, parent[x], x, last)
       /\ right' = RenameOne(r, parent[x], x, last)
       /\ min' = IF parent[x] = Null THEN last ELSE min
       /\ parent' = [z \in Nodes |-> CASE z = x -> Null
                                       [] z = last -> parent[x]
                                       [] z \in {l[x], r[x]} \ {Null} -> last
                                       [] OTHER -> parent[z]]
  BY <1>8 DEF TakePlace, RenameOne
<1> HIDE DEF l, r
<1>16. ParentsRenamed(parent', l, r, pa, x, last)
  <2>1. x # l[x] /\ x # r[x] /\ last # l[x] /\ last # r[x]
    <3>1. ChildrenOf(l, b, n - 1, 0) /\ ChildrenOf(r, b, n - 1, 1)
      BY <1>7, WellBuiltParts
    <3>2. l[x] = At(b, n - 1, 2 * m + 0) /\ r[x] = At(b, n - 1, 2 * m + 1)
      BY <3>1, <1>5, <1>13 DEF ChildrenOf
    <3>3. \A i, h : i \in 1..n - 1 => (b[i] = At(b, n - 1, h) <=> i = h)
      BY <1>12, ListedFacts
    <3>4. m # 2 * m + 0 /\ m # 2 * m + 1
      BY <1>2
    <3>5. \A i : At(b, n - 1, i) # last
      BY <1>5, <1>12, NodeNumbers DEF At
    <3>6. b[m] # At(b, n - 1, 2 * m + 0) /\ b[m] # At(b, n - 1, 2 * m + 1)
      BY <3>3, <3>4, <1>5
    <3> HIDE DEF last
    <3> QED
      BY <3>2, <3>5, <3>6, <1>13
  <2> DEFINE value(z) == IF z = x THEN Null ELSE IF z = last THEN pa[x]
                         ELSE IF z = l[x] \/ z = r[x] THEN last ELSE pa[z]
  <2>2. ASSUME NEW z \in Nodes PROVE parent'[z] = value(z)
    <3>1. parent'[z] = CASE z = x -> Null
                         [] z = last -> parent[x]
                         [] z \in {l[x], r[x]} \ {Null} -> last
                         [] OTHER -> parent[z]
      BY <1>15
    <3>2. z \in {l[x], r[x]} \ {Null} <=> z = l[x] \/ z = r[x]
      BY NodeNumbers
    <3>3. z # last => pa[z] = parent[z]
      BY <1>11
    <3>4. CASE z = x
      <4>1. z # last /\ z \notin {l[x], r[x]} \ {Null}
        BY <3>4, <2>1, <1>5
      <4> QED
        BY <3>1, <3>4, <4>1
    <3>5. CASE z = last
      <4>1. z # x /\ z \notin {l[x], r[x]} \ {Null}
        BY <3>5, <2>1, <1>5
      <4> QED
        BY <3>1, <3>5, <4>1, <1>13
    <3>6. CASE z # x /\ z # last /\ (z = l[x] \/ z = r[x])
      BY <3>1, <3>2, <3>6
    <3>7. CASE z # x /\ z # last /\ ~(z = l[x] \/ z = r[x])
      BY <3>1, <3>2, <3>3, <3>7
    <3> QED
      BY <3>4, <3>5, <3>6, <3>7
  <2>3. \A z \in Nodes : value(z) \in Nodes \cup {Null}
    BY <1>5, <1>11 DEF Links
  <2>4. parent' = [z \in Nodes |-> parent'[z]]
    BY <1>15
  <2>5. parent' \in Links
    <3>1. \A z \in Nodes : parent'[z] \in Nodes \cup {Null}
      BY <2>2, <2>3
    <3> QED
      BY <3>1, <2>4 DEF Links
  <2> QED
    BY <2>2, <2>5 DEF ParentsRenamed
<1> HIDE DEF last
<1>17. WellBuilt(RenameOne(l, pa[x], x, last), RenameOne(r, pa[x], x, last), parent',
                 IF pa[x] = Null THEN last ELSE mn, n - 1, Renamed(b, n - 1, m, last))
  <2>1. ParentsRenamed(parent', l, r, pa, b[m], last)
    BY <1>13, <1>16
  <2>2. WellBuilt(RenameOne(l, pa[b[m]], b[m], last), RenameOne(r, pa[b[m]], b[m], last), parent',
                  IF pa[b[m]] = Null THEN last ELSE mn, n - 1, Renamed(b, n - 1, m, last))
    BY <2>1, <1>5, <1>7, <1>12, RenameTree
  <2> QED
    BY <2>2, <1>13
<1>18. WellBuilt(left', right', parent', min', nelts', Renamed(b, n - 1, m, last))
  BY <1>9, <1>13, <1>14, <1>15, <1>17
<1>19. TreeInv' /\ Places' = Renamed(b, n - 1, m, last)
  BY <1>18, PlacesBecome
<1> QED
  BY <1>3, <1>4, <1>5, <1>9, <1>19 DEF b, last

-----------------------------------------------------------------------------
(* The order, step by step. *)

LEMMA PairFacts ==
  ASSUME NEW n, NEW a, Listed(n, a)
  PROVE  /\ \A i \in 2..n : /\ i \in 1..n /\ i \in Nat /\ i # 1
                            /\ Half(i) \in 1..n /\ Half(i) \in Nat /\ Half(i) < i /\ Half(i) # i
         /\ \A i \in 1..n : a[i] \in Nat /\ a[i] \in Nodes /\ (i # 1 => i \in 2..n)
         /\ \A i, h \in 1..n : a[i] = a[h] => i = h
<1>1. n \in Nat /\ (\A i \in 1..n : a[i] \in Nodes) /\ \A i, h \in 1..n : a[i] = a[h] => i = h
  BY DEF Listed
<1>2. \A i \in 2..n : i \in 1..n /\ i \in Nat /\ i >= 2 /\ i <= n /\ i # 1
  BY <1>1
<1>3. \A i \in 2..n : Half(i) \in Nat /\ Half(i) >= 1 /\ Half(i) < i
  BY <1>2, Halves
<1>4. ASSUME NEW i \in 2..n PROVE Half(i) \in 1..n /\ Half(i) # i
  <2>1. i \in Nat /\ i <= n /\ Half(i) \in Nat /\ Half(i) >= 1 /\ Half(i) < i
    BY <1>2, <1>3
  <2> QED
    BY <2>1, <1>1
<1>5. \A i \in 1..n : i # 1 => i \in 2..n
  BY <1>1
<1>6. \A i \in 1..n : a[i] \in Nat
  BY <1>1, NodeNumbers DEF Nodes
<1> QED
  BY <1>1, <1>2, <1>3, <1>4, <1>5, <1>6

LEMMA OrderGrown ==
  ASSUME NEW n, NEW a, Listed(n, a), Ordered(n, a, "idle", Null),
         NEW x \in Nodes, Listed(n + 1, Grown(a, n, x))
  PROVE  Ordered(n + 1, Grown(a, n, x), "up", x)
<1> DEFINE b == Grown(a, n, x)
<1>1. n \in Nat /\ a \in [1..n -> Nodes]
  BY DEF Listed
<1>2. (\A i \in 1..n : b[i] = a[i]) /\ b[n + 1] = x
  BY GrownFacts
<1>3. /\ \A i \in 2..n + 1 : Half(i) \in 1..n + 1 /\ Half(i) < i /\ Half(i) \in Nat /\ i \in Nat
      /\ \A i, h \in 1..n + 1 : b[i] = b[h] => i = h
  BY PairFacts
<1> HIDE DEF b
<1>4. ASSUME NEW i \in 2..n + 1
      PROVE  (b[Half(i)] < b[i] \/ b[i] = x) /\ b[Half(i)] # x
  <2>1. Half(i) \in 1..n /\ (i = n + 1 \/ i \in 2..n)
    BY <1>1, <1>3
  <2>2. b[Half(i)] # x
    <3>1. n + 1 \in 1..n + 1 /\ Half(i) # n + 1 /\ Half(i) \in 1..n + 1
      BY <2>1, <1>1
    <3> QED
      BY <3>1, <1>2, <1>3
  <2>3. CASE i = n + 1
    BY <2>2, <2>3, <1>2
  <2>4. CASE i \in 2..n
    <3>1. a[Half(i)] < a[i]
      BY <2>4 DEF Ordered
    <3>2. i \in 1..n
      BY <2>4, <1>1
    <3> QED
      BY <2>1, <2>2, <3>1, <3>2, <1>2
  <2> QED
    BY <2>1, <2>3, <2>4
<1>5. n + 1 \in 1..n + 1
  BY <1>1
<1>6. Ordered(n + 1, b, "up", x)
  BY <1>2, <1>4, <1>5 DEF Ordered
<1> QED
  BY <1>6 DEF b

LEMMA OrderUp ==
  ASSUME NEW n, NEW a, NEW c, Listed(n, a), Ordered(n, a, "up", c),
         NEW j \in 2..n, a[j] = c, c < a[Half(j)]
  PROVE  Ordered(n, Exchanged(a, n, Half(j), j), "up", c)
<1> DEFINE k == Half(j)
           b == Exchanged(a, n, k, j)
<1>1. /\ \A i \in 2..n : /\ i \in 1..n /\ i \in Nat /\ i # 1
                         /\ Half(i) \in 1..n /\ Half(i) \in Nat /\ Half(i) < i /\ Half(i) # i
      /\ \A i \in 1..n : a[i] \in Nat /\ a[i] \in Nodes /\ (i # 1 => i \in 2..n)
      /\ \A i, h \in 1..n : a[i] = a[h] => i = h
  BY PairFacts
<1>2. k \in 1..n /\ j \in 1..n /\ k # j /\ k < j /\ k \in Nat /\ j \in Nat /\ j # 1
  BY <1>1
<1>3. \A i \in 1..n : b[i] = IF i = k THEN c ELSE IF i = j THEN a[k] ELSE a[i]
  BY <1>2, ExchangedFacts
<1>4. \A i \in 2..n : i # j => a[Half(i)] < a[i]
  BY <1>1, <1>2 DEF Ordered
<1>5. \A i \in 2..n : Half(i) = j => a[k] < a[i]
  BY <1>2 DEF Ordered
<1>6. k # 1 => k \in 2..n /\ a[Half(k)] < a[k] /\ Half(k) \in 1..n /\ Half(k) # k /\ Half(k) # j
               /\ a[Half(k)] \in Nat
  <2> SUFFICES ASSUME k # 1
               PROVE  k \in 2..n /\ a[Half(k)] < a[k] /\ Half(k) \in 1..n /\ Half(k) # k /\ Half(k) # j
                      /\ a[Half(k)] \in Nat
    OBVIOUS
  <2>1. k \in 2..n
    BY <1>1, <1>2
  <2>2. Half(k) \in 1..n /\ Half(k) \in Nat /\ Half(k) < k
    BY <2>1, <1>1
  <2>3. a[Half(k)] < a[k]
    BY <2>1, <1>2, <1>4
  <2>4. Half(k) # k /\ Half(k) # j
    BY <2>2, <1>2
  <2> QED
    BY <2>1, <2>2, <2>3, <2>4, <1>1
<1>7. a[k] \in Nat /\ c \in Nat /\ c < a[k]
  BY <1>1, <1>2
<1> HIDE DEF b, k
<1>8. ASSUME NEW i \in 2..n PROVE b[Half(i)] < b[i] \/ b[i] = c
  <2>0. Half(i) \in 1..n /\ i \in 1..n /\ i # Half(i) /\ a[i] \in Nat /\ a[Half(i)] \in Nat
    BY <1>1
  <2>1. CASE i = j
    <3>1. b[Half(i)] = c /\ b[i] = a[k]
      BY <2>1, <1>2, <1>3 DEF k
    <3> QED
      BY <3>1, <1>7
  <2>2. CASE i = k
    BY <2>2, <1>2, <1>3
  <2>3. CASE i # j /\ i # k /\ Half(i) = j
    <3>1. b[Half(i)] = a[k] /\ b[i] = a[i]
      BY <2>0, <2>3, <1>2, <1>3
    <3> QED
      BY <3>1, <2>3, <1>5
  <2>4. CASE i # j /\ i # k /\ Half(i) = k
    <3>1. b[Half(i)] = c /\ b[i] = a[i]
      BY <2>0, <2>4, <1>2, <1>3
    <3>2. a[k] < a[i]
      BY <2>4, <1>4
    <3> QED
      BY <3>1, <3>2, <2>0, <1>7
  <2>5. CASE i # j /\ i # k /\ Half(i) # j /\ Half(i) # k
    <3>1. b[Half(i)] = a[Half(i)] /\ b[i] = a[i]
      BY <2>0, <2>5, <1>3
    <3> QED
      BY <3>1, <2>5, <1>4
  <2> QED
    BY <2>1, <2>2, <2>3, <2>4, <2>5
<1>9. b[k] = c
  BY <1>2, <1>3
<1>10. ASSUME NEW i \in 2..n, b[Half(i)] = c, Half(i) # 1 PROVE b[Half(Half(i))] < b[i]
  <2>0. Half(i) \in 1..n /\ i \in 1..n /\ i # Half(i) /\ a[i] \in Nat
    BY <1>1
  <2>1. Half(i) = k
    <3>1. a[k] # c /\ \A h \in 1..n : a[h] = c => h = j
      BY <1>1, <1>2
    <3>2. b[Half(i)] = IF Half(i) = k THEN c ELSE IF Half(i) = j THEN a[k] ELSE a[Half(i)]
      BY <2>0, <1>3
    <3> QED
      BY <3>1, <3>2, <2>0, <1>10
  <2>2. k # 1
    BY <2>1, <1>10
  <2>3. b[Half(k)] = a[Half(k)]
    BY <2>2, <1>3, <1>6
  <2>4. CASE i = j
    BY <2>1, <2>2, <2>3, <2>4, <1>2, <1>3, <1>6
  <2>5. CASE i # j
    <3>1. b[i] = a[i] /\ a[k] < a[i]
      BY <2>0, <2>1, <2>5, <1>3, <1>4
    <3> QED
      BY <2>0, <2>1, <2>2, <2>3, <3>1, <1>6, <1>7
  <2> QED
    BY <2>4, <2>5
<1>11. Ordered(n, b, "up", c)
  BY <1>2, <1>8, <1>9, <1>10 DEF Ordered
<1> QED
  BY <1>11 DEF b, k

LEMMA OrderDown ==
  ASSUME NEW n, NEW a, NEW c, Listed(n, a), Ordered(n, a, "down", c),
         NEW j \in 2..n, a[Half(j)] = c, a[j] < c,
         \A i \in 2..n : Half(i) = Half(j) => a[j] <= a[i]
  PROVE  Ordered(n, Exchanged(a, n, Half(j), j), "down", c)
<1> DEFINE k == Half(j)
           b == Exchanged(a, n, k, j)
<1>1. /\ \A i \in 2..n : /\ i \in 1..n /\ i \in Nat /\ i # 1
                         /\ Half(i) \in 1..n /\ Half(i) \in Nat /\ Half(i) < i /\ Half(i) # i
      /\ \A i \in 1..n : a[i] \in Nat /\ a[i] \in Nodes /\ (i # 1 => i \in 2..n)
      /\ \A i, h \in 1..n : a[i] = a[h] => i = h
  BY PairFacts
<1>2. k \in 1..n /\ j \in 1..n /\ k # j /\ k < j /\ k \in Nat /\ j \in Nat /\ j # 1 /\ a[j] # c
  BY <1>1
<1>3. \A i \in 1..n : b[i] = IF i = k THEN a[j] ELSE IF i = j THEN c ELSE a[i]
  BY <1>2, ExchangedFacts
<1>4. \A i \in 2..n : i # k /\ Half(i) # k => a[Half(i)] < a[i]
  BY <1>1, <1>2 DEF Ordered
<1>5. \A i \in 2..n : Half(i) = k /\ i # j => a[j] < a[i]
  <2> SUFFICES ASSUME NEW i \in 2..n, Half(i) = k, i # j PROVE a[j] < a[i]
    OBVIOUS
  <2>1. a[j] <= a[i] /\ a[i] \in Nat /\ a[j] \in Nat /\ a[i] # a[j]
    BY <1>1, <1>2
  <2> QED
    BY <2>1
<1>6. k # 1 => k \in 2..n /\ a[Half(k)] < a[j] /\ Half(k) \in 1..n /\ Half(k) # k /\ Half(k) # j
  <2> SUFFICES ASSUME k # 1
               PROVE  k \in 2..n /\ a[Half(k)] < a[j] /\ Half(k) \in 1..n /\ Half(k) # k /\ Half(k) # j
    OBVIOUS
  <2>1. k \in 2..n
    BY <1>1, <1>2
  <2>2. Half(k) \in 1..n /\ Half(k) \in Nat /\ Half(k) < k
    BY <2>1, <1>1
  <2>3. a[Half(k)] < a[j]
    BY <1>2 DEF Ordered
  <2>4. Half(k) # k /\ Half(k) # j
    BY <2>2, <1>2
  <2> QED
    BY <2>1, <2>2, <2>3, <2>4
<1> HIDE DEF b, k
<1>8. ASSUME NEW i \in 2..n PROVE b[Half(i)] < b[i] \/ b[i] = c \/ b[Half(i)] = c
  <2>0. Half(i) \in 1..n /\ i \in 1..n /\ i # Half(i)
    BY <1>1
  <2>1. CASE i = j
    BY <2>1, <1>2, <1>3
  <2>2. CASE i = k
    <3>1. k # 1 /\ b[i] = a[j] /\ Half(i) = Half(k)
      BY <2>2, <1>1, <1>2, <1>3
    <3>2. b[Half(k)] = a[Half(k)]
      BY <3>1, <1>3, <1>6
    <3> QED
      BY <3>1, <3>2, <1>6
  <2>3. CASE i # j /\ i # k /\ Half(i) = j
    BY <2>3, <1>2, <1>3
  <2>4. CASE i # j /\ i # k /\ Half(i) = k
    <3>1. b[Half(i)] = a[j] /\ b[i] = a[i]
      BY <2>0, <2>4, <1>2, <1>3
    <3> QED
      BY <3>1, <2>4, <1>5
  <2>5. CASE i # j /\ i # k /\ Half(i) # j /\ Half(i) # k
    <3>1. b[Half(i)] = a[Half(i)] /\ b[i] = a[i]
      BY <2>0, <2>5, <1>3
    <3> QED
      BY <3>1, <2>5, <1>4
  <2> QED
    BY <2>1, <2>2, <2>3, <2>4, <2>5
<1>9. b[j] = c
  BY <1>2, <1>3
<1>10. ASSUME NEW i \in 2..n, b[Half(i)] = c, Half(i) # 1 PROVE b[Half(Half(i))] < b[i]
  <2>0. Half(i) \in 1..n /\ i \in 1..n /\ i # Half(i) /\ i \in Nat /\ Half(i) < i
    BY <1>1
  <2>1. Half(i) = j
    <3>1. \A h \in 1..n : a[h] = c => h = k
      BY <1>1, <1>2 DEF k
    <3>2. b[Half(i)] = IF Half(i) = k THEN a[j] ELSE IF Half(i) = j THEN c ELSE a[Half(i)]
      BY <2>0, <1>3
    <3> QED
      BY <3>1, <3>2, <2>0, <1>2, <1>10
  <2>2. i # j /\ i # k /\ Half(i) # k
    BY <2>0, <2>1, <1>2
  <2>3. b[i] = a[i] /\ b[k] = a[j] /\ a[j] < a[i]
    BY <2>0, <2>1, <2>2, <1>2, <1>3, <1>4
  <2> QED
    BY <2>1, <2>3 DEF k
<1>11. Ordered(n, b, "down", c)
  BY <1>2, <1>8, <1>9, <1>10 DEF Ordered
<1> QED
  BY <1>11 DEF b, k

LEMMA OrderShrunk ==
  ASSUME NEW n, NEW a, Listed(n, a), n # 0, NEW c, Ordered(n, a, "idle", c)
  PROVE  Ordered(n - 1, Shrunk(a, n), "idle", c)
<1>1. n \in Nat
  BY DEF Listed
<1>2. ASSUME NEW i \in 2..n - 1 PROVE Shrunk(a, n)[Half(i)] < Shrunk(a, n)[i]
  <2>1. i \in 2..n /\ i \in 1..n - 1 /\ i < n /\ i \in Nat
    BY <1>1
  <2>2. Half(i) \in 1..n /\ Half(i) < i /\ Half(i) \in Nat
    BY <2>1, PairFacts
  <2>3. Half(i) \in 1..n - 1
    BY <2>1, <2>2, <1>1
  <2>4. Shrunk(a, n)[i] = a[i] /\ Shrunk(a, n)[Half(i)] = a[Half(i)]
    BY <2>1, <2>3 DEF Shrunk
  <2> QED
    BY <2>1, <2>4 DEF Ordered
<1> QED
  BY <1>2 DEF Ordered

LEMMA OrderRenamed ==
  ASSUME NEW n, NEW a, Listed(n, a), NEW c, Ordered(n, a, "idle", c),
         NEW m \in 1..n, NEW y \in Nodes, \A i \in 1..n : a[i] # y
  PROVE  Ordered(n, Renamed(a, n, m, y), "down", y)
<1> DEFINE b == Renamed(a, n, m, y)
<1>1. /\ \A i \in 2..n : /\ i \in 1..n /\ i \in Nat /\ i # 1
                         /\ Half(i) \in 1..n /\ Half(i) \in Nat /\ Half(i) < i /\ Half(i) # i
      /\ \A i \in 1..n : a[i] \in Nat /\ (i # 1 => i \in 2..n)
  BY PairFacts
<1>2. \A i \in 1..n : b[i] = IF i = m THEN y ELSE a[i]
  BY RenamedFacts
<1>3. \A i \in 2..n : a[Half(i)] < a[i]
  BY DEF Ordered
<1> HIDE DEF b
<1>4. ASSUME NEW i \in 2..n PROVE b[Half(i)] < b[i] \/ b[i] = y \/ b[Half(i)] = y
  BY <1>1, <1>2, <1>3
<1>5. ASSUME NEW i \in 2..n, b[Half(i)] = y, Half(i) # 1 PROVE b[Half(Half(i))] < b[i]
  <2>1. Half(i) \in 1..n /\ i \in 1..n /\ Half(i) # i /\ Half(i) < i /\ i \in Nat /\ Half(i) \in Nat
    BY <1>1
  <2>2. Half(i) = m /\ i # m
    BY <2>1, <1>2, <1>5
  <2>3. m \in 2..n
    BY <2>1, <2>2, <1>1, <1>5
  <2>4. Half(m) \in 1..n /\ Half(m) # m
    BY <2>3, <1>1
  <2>5. b[Half(m)] = a[Half(m)] /\ b[i] = a[i]
    BY <2>1, <2>2, <2>4, <1>2
  <2>6. a[Half(m)] < a[m] /\ a[m] < a[i]
    BY <2>2, <2>3, <1>3
  <2>7. a[Half(m)] \in Nat /\ a[m] \in Nat /\ a[i] \in Nat
    BY <2>1, <2>4, <1>1
  <2> QED
    BY <2>2, <2>5, <2>6, <2>7
<1>6. b[m] = y
  BY <1>2
<1>7. Ordered(n, b, "down", y)
  BY <1>4, <1>5, <1>6 DEF Ordered
<1> QED
  BY <1>7 DEF b

(* The walk up ends below a smaller parent, or at the root. *)
LEMMA UpEndsOrdered ==
  ASSUME TreeInv, OrderInv, op = "up", ~Above
  PROVE  Ordered(nelts, Places, "idle", Null)
<1>1. Listed(nelts, Places) /\ \A i \in 1..nelts : parent[Places[i]] = At(Places, nelts, Half(i))
  BY WellBuiltParts DEF TreeInv
<1>2. /\ \A i \in 2..nelts : i \in 1..nelts /\ Half(i) \in 1..nelts /\ Half(i) # i
      /\ \A i \in 1..nelts : Places[i] \in Nat /\ Places[i] \in Nodes
      /\ \A i, h \in 1..nelts : Places[i] = Places[h] => i = h
  BY <1>1, PairFacts
<1>3. ASSUME NEW i \in 2..nelts PROVE Places[Half(i)] < Places[i]
  <2>1. CASE Places[i] = cur
    <3>1. parent[cur] = Places[Half(i)] /\ Places[Half(i)] # Null /\ Places[Half(i)] # cur
      BY <2>1, <1>1, <1>2, NodeNumbers DEF At
    <3>2. ~(cur < Places[Half(i)])
      BY <3>1 DEF Above
    <3>3. cur \in Nat /\ Places[Half(i)] \in Nat
      BY <2>1, <1>2
    <3> QED
      BY <2>1, <3>1, <3>2, <3>3
  <2>2. CASE Places[i] # cur
    BY <2>2 DEF OrderInv, Ordered
  <2> QED
    BY <2>1, <2>2
<1> QED
  BY <1>3 DEF Ordered

(* The walk down ends above greater children. *)
LEMMA DownEndsOrdered ==
  ASSUME TreeInv, OrderInv, op = "down", Smallest = cur
  PROVE  Ordered(nelts, Places, "up", cur)
<1>1. PICK k \in 1..nelts : Places[k] = cur
  BY DEF OrderInv, Ordered
<1>2. \A d \in Children(cur) : cur <= d
  BY <1>1, SmallestIsLeast
<1>3. \A i \in 2..nelts : Half(i) = k => Places[i] \in Children(cur)
  BY <1>1, ChildrenArePlaces
<1>4. /\ \A i \in 2..nelts : i \in 1..nelts /\ Half(i) \in 1..nelts /\ Half(i) # i
      /\ \A i \in 1..nelts : Places[i] \in Nat
      /\ \A i, h \in 1..nelts : Places[i] = Places[h] => i = h
  BY PairFacts, PlacesAre
<1>5. ASSUME NEW i \in 2..nelts PROVE Places[Half(i)] < Places[i] \/ Places[i] = cur
  <2>1. CASE Places[Half(i)] = cur
    <3>1. Half(i) = k /\ i # k
      BY <2>1, <1>1, <1>4
    <3>2. cur <= Places[i] /\ Places[i] # cur
      BY <3>1, <1>1, <1>2, <1>3, <1>4
    <3>3. cur \in Nat /\ Places[i] \in Nat
      BY <1>1, <1>4
    <3> QED
      BY <2>1, <3>2, <3>3
  <2>2. CASE Places[Half(i)] # cur
    BY <2>2 DEF OrderInv, Ordered
  <2> QED
    BY <2>1, <2>2
<1> QED
  BY <1>5 DEF OrderInv, Ordered

-----------------------------------------------------------------------------
(* The nodes of the tree, step by step. *)

Members(n, a) == {a[i] : i \in 1..n}

LEMMA MembersGrown ==
  ASSUME NEW n, NEW a, Listed(n, a), NEW x \in Nodes
  PROVE  Members(n + 1, Grown(a, n, x)) = Members(n, a) \cup {x}
<1>1. n \in Nat /\ a \in [1..n -> Nodes]
  BY DEF Listed
<1>2. (\A i \in 1..n : Grown(a, n, x)[i] = a[i]) /\ Grown(a, n, x)[n + 1] = x
  BY GrownFacts
<1>3. \A i : i \in 1..n + 1 <=> i \in 1..n \/ i = n + 1
  BY <1>1
<1> QED
  BY <1>2, <1>3 DEF Members

LEMMA MembersExchanged ==
  ASSUME NEW n, NEW a, Listed(n, a), NEW k \in 1..n, NEW j \in 1..n, k # j
  PROVE  Members(n, Exchanged(a, n, k, j)) = Members(n, a)
<1>1. \A i \in 1..n : Exchanged(a, n, k, j)[i] = IF i = k THEN a[j] ELSE IF i = j THEN a[k] ELSE a[i]
  BY ExchangedFacts
<1>2. ASSUME NEW i \in 1..n PROVE \E h \in 1..n : a[i] = Exchanged(a, n, k, j)[h]
  BY <1>1
<1> QED
  BY <1>1, <1>2 DEF Members

LEMMA MembersShrunk ==
  ASSUME NEW n, NEW a, Listed(n, a), n # 0
  PROVE  Members(n - 1, Shrunk(a, n)) = Members(n, a) \ {a[n]}
<1>1. n \in Nat /\ \A i, h \in 1..n : a[i] = a[h] => i = h
  BY DEF Listed
<1>2. \A i : i \in 1..n - 1 <=> i \in 1..n /\ i # n
  BY <1>1
<1>3. n \in 1..n
  BY <1>1
<1> QED
  BY <1>1, <1>2, <1>3 DEF Members, Shrunk

LEMMA MembersRenamed ==
  ASSUME NEW n, NEW a, Listed(n, a), NEW m \in 1..n, NEW y \in Nodes, \A i \in 1..n : a[i] # y
  PROVE  Members(n, Renamed(a, n, m, y)) = (Members(n, a) \ {a[m]}) \cup {y}
<1>1. \A i, h \in 1..n : a[i] = a[h] => i = h
  BY DEF Listed
<1>2. \A i \in 1..n : Renamed(a, n, m, y)[i] = IF i = m THEN y ELSE a[i]
  BY RenamedFacts
<1>3. ASSUME NEW z \in Members(n, Renamed(a, n, m, y)) PROVE z \in (Members(n, a) \ {a[m]}) \cup {y}
  BY <1>1, <1>2 DEF Members
<1>4. ASSUME NEW z \in (Members(n, a) \ {a[m]}) \cup {y} PROVE z \in Members(n, Renamed(a, n, m, y))
  BY <1>1, <1>2 DEF Members
<1> QED
  BY <1>3, <1>4

-----------------------------------------------------------------------------
(* The invariant *)

(* What every step does to the nodes of the tree. *)
TreeGrows(x) == x \in Nodes /\ x \notin Tree /\ Tree' = Tree \cup {x}
TreeShrinks(x) == x \in Nodes /\ x \in Tree /\ Tree' = Tree \ {x}

LEMMA TreeIsMembers == TreeInv => Tree = Members(nelts, Places) /\ Tree \subseteq Nodes
<1> SUFFICES ASSUME TreeInv PROVE Tree = Members(nelts, Places) /\ Tree \subseteq Nodes
  OBVIOUS
<1>1. Tree = Members(nelts, Places) /\ Listed(nelts, Places)
  BY PlacesAre DEF Members
<1> QED
  BY <1>1, ListedFacts DEF Members

LEMMA TreeIsMembersNext == TreeInv' => Tree' = Members(nelts', Places')
<1> SUFFICES ASSUME TreeInv' PROVE Tree' = Members(nelts', Places')
  OBVIOUS
<1>1. TreeInv => Tree = Members(nelts, Places)
  BY TreeIsMembers
<1>2. (TreeInv => Tree = Members(nelts, Places))'
  BY <1>1, TreeIsMembers, PTL
<1> QED
  BY <1>2 DEF Members

LEMMA InsertKeeps ==
  ASSUME IInv, NEW x \in Nodes, HeapInsert(x)
  PROVE  IInv' /\ TreeGrows(x)
<1>0. TreeInv /\ OrderInv /\ BeforeInv /\ op = "idle" /\ op' = "up" /\ cur' = x /\ Remember
      /\ cur = Null /\ Listed(nelts, Places) /\ nelts \in Nat
  BY PlacesAre DEF IInv, HeapInsert, BeforeInv, Listed
<1>1. /\ TreeInv' /\ Places' = Grown(Places, nelts, x) /\ nelts' = nelts + 1
      /\ \A i \in 1..nelts : Places[i] # x
  BY <1>0, InsertStep
<1>2. Listed(nelts + 1, Grown(Places, nelts, x))
  <2>1. Listed(nelts', Places')
    BY <1>1 DEF TreeInv, WellBuilt
  <2> QED
    BY <2>1, <1>1
<1>3. Ordered(nelts', Places', "up", x)
  <2>1. Ordered(nelts, Places, "idle", Null)
    BY <1>0 DEF OrderInv
  <2> QED
    BY <2>1, <1>0, <1>1, <1>2, OrderGrown
<1>4. OrderInv'
  BY <1>0, <1>3 DEF OrderInv
<1>5. TreeGrows(x) /\ Tree \subseteq Nodes
  <2>1. Tree = Members(nelts, Places) /\ Tree \subseteq Nodes /\ Tree' = Members(nelts', Places')
    BY <1>0, <1>1, TreeIsMembers, TreeIsMembersNext
  <2>2. Members(nelts', Places') = Members(nelts, Places) \cup {x}
    BY <1>0, <1>1, MembersGrown
  <2>3. x \notin Members(nelts, Places)
    BY <1>1 DEF Members
  <2> QED
    BY <2>1, <2>2, <2>3 DEF TreeGrows
<1>6. min \in Nodes \cup {Null}
  BY <1>0, PlacesAre, ListedFacts
<1>7. BeforeInv'
  BY <1>0, <1>5, <1>6 DEF BeforeInv, Remember, TreeGrows
<1> QED
  BY <1>1, <1>4, <1>5, <1>7 DEF IInv

LEMMA RemoveLastKeeps ==
  ASSUME IInv, NEW x \in Nodes, HeapRemove(x), NodeAt(nelts) = x
  PROVE  IInv' /\ TreeShrinks(x) /\ op' = "idle"
<1>0. TreeInv /\ OrderInv /\ BeforeInv /\ op = "idle" /\ x \in Tree /\ Remember
      /\ cur = Null /\ Listed(nelts, Places)
  BY PlacesAre DEF IInv, HeapRemove, BeforeInv
<1>1. /\ nelts \in 1..N /\ nelts' = nelts - 1 /\ x = Places[nelts]
      /\ TreeInv' /\ Places' = Shrunk(Places, nelts)
      /\ op' = op /\ cur' = cur
  BY <1>0, RemoveLastStep
<1>2. nelts # 0
  BY <1>1, NodeNumbers
<1>3. Ordered(nelts', Places', "idle", Null)
  <2>1. Ordered(nelts, Places, "idle", Null)
    BY <1>0 DEF OrderInv
  <2> QED
    BY <2>1, <1>0, <1>1, <1>2, OrderShrunk
<1>4. OrderInv'
  BY <1>0, <1>1, <1>3 DEF OrderInv
<1>5. TreeShrinks(x) /\ Tree \subseteq Nodes
  <2>1. Tree = Members(nelts, Places) /\ Tree \subseteq Nodes /\ Tree' = Members(nelts', Places')
    BY <1>0, <1>1, TreeIsMembers, TreeIsMembersNext
  <2>2. Members(nelts', Places') = Members(nelts, Places) \ {x}
    BY <1>0, <1>1, <1>2, MembersShrunk
  <2> QED
    BY <2>1, <2>2, <1>0 DEF TreeShrinks
<1>6. min \in Nodes \cup {Null}
  BY <1>0, PlacesAre, ListedFacts
<1>7. BeforeInv'
  BY <1>0, <1>1, <1>5, <1>6 DEF BeforeInv, Remember
<1> QED
  BY <1>0, <1>1, <1>4, <1>5, <1>7 DEF IInv

LEMMA TakePlaceKeeps ==
  ASSUME IInv, NEW x \in Nodes, HeapRemove(x), NodeAt(nelts) # x
  PROVE  IInv' /\ TreeShrinks(x) /\ op' = "down"
<1>0. TreeInv /\ OrderInv /\ BeforeInv /\ x \in Tree /\ Remember
      /\ cur = Null /\ op = "idle" /\ Listed(nelts, Places)
  BY PlacesAre DEF IInv, HeapRemove, BeforeInv
<1>1. PICK m \in 1..nelts - 1 :
         /\ nelts \in 1..N /\ nelts' = nelts - 1 /\ x = Places[m]
         /\ TreeInv' /\ Places' = Renamed(Shrunk(Places, nelts), nelts - 1, m, Places[nelts])
         /\ op = "idle" /\ op' = "down" /\ cur' = Places[nelts]
  BY <1>0, TakePlaceStep
<1> DEFINE last == Places[nelts]
           b == Shrunk(Places, nelts)
<1>2. nelts # 0 /\ nelts \in Nat /\ nelts \in 1..nelts
  BY <1>1, NodeNumbers
<1>3. Listed(nelts - 1, b) /\ \A i \in 1..nelts - 1 : i \in 1..nelts /\ i # nelts /\ b[i] = Places[i]
  BY <1>0, <1>2, ShrunkFacts
<1>4. last \in Nodes /\ \A i \in 1..nelts - 1 : b[i] # last
  BY <1>0, <1>2, <1>3 DEF Listed
<1>5. b[m] = x
  BY <1>1, <1>3
<1>6. Ordered(nelts - 1, b, "idle", Null)
  <2>1. Ordered(nelts, Places, "idle", Null)
    BY <1>0 DEF OrderInv
  <2> QED
    BY <2>1, <1>0, <1>2, OrderShrunk
<1>7. Members(nelts - 1, b) = Members(nelts, Places) \ {last}
  BY <1>0, <1>2, MembersShrunk
<1> HIDE DEF b, last
<1>8. Ordered(nelts - 1, Renamed(b, nelts - 1, m, last), "down", last)
  BY <1>3, <1>4, <1>6, OrderRenamed
<1>9. OrderInv'
  BY <1>1, <1>8 DEF OrderInv, b, last
<1>10. TreeShrinks(x) /\ Tree \subseteq Nodes
  <2>1. Tree = Members(nelts, Places) /\ Tree \subseteq Nodes /\ Tree' = Members(nelts', Places')
    BY <1>0, <1>1, TreeIsMembers, TreeIsMembersNext
  <2>2. Members(nelts - 1, Renamed(b, nelts - 1, m, last)) = (Members(nelts - 1, b) \ {x}) \cup {last}
    BY <1>3, <1>4, <1>5, MembersRenamed
  <2>3. Members(nelts', Places') = (Members(nelts - 1, b) \ {x}) \cup {last}
    BY <2>2, <1>1 DEF b, last
  <2>4. last \in Members(nelts, Places) /\ last # x
    BY <1>1, <1>2, <1>4, <1>5 DEF Members, last
  <2> QED
    BY <2>1, <2>3, <2>4, <1>0, <1>7 DEF TreeShrinks
<1>11. min \in Nodes \cup {Null}
  BY <1>0, PlacesAre, ListedFacts
<1>12. BeforeInv'
  BY <1>0, <1>1, <1>10, <1>11 DEF BeforeInv, Remember, TreeShrinks
<1> QED
  BY <1>1, <1>9, <1>10, <1>12 DEF IInv

LEMMA SwapKeepsTree ==
  ASSUME TreeInv, NEW j \in 2..nelts, TreeInv',
         Places' = Exchanged(Places, nelts, Half(j), j), nelts' = nelts
  PROVE  Tree' = Tree
<1>1. Listed(nelts, Places)
  BY PlacesAre
<1>2. Half(j) \in 1..nelts /\ j \in 1..nelts /\ Half(j) # j
  BY <1>1, PairFacts
<1>3. Members(nelts, Places') = Members(nelts, Places)
  BY <1>1, <1>2, MembersExchanged
<1> QED
  BY <1>3, TreeIsMembers, TreeIsMembersNext

LEMMA SiftKeeps ==
  ASSUME IInv, SiftUp \/ SiftDown
  PROVE  IInv' /\ Tree' = Tree /\ op # "idle" /\ op' = op /\ before' = before
<1>0. TreeInv /\ OrderInv /\ BeforeInv /\ Listed(nelts, Places)
  BY PlacesAre DEF IInv
<1>1. op # "idle" /\ op' = op /\ cur' = cur /\ before' = before /\ nelts' = nelts
  BY DEF SiftUp, SiftDown
<1>2. PICK j \in 2..nelts : /\ TreeInv' /\ Places' = Exchanged(Places, nelts, Half(j), j)
                            /\ Ordered(nelts, Exchanged(Places, nelts, Half(j), j), op, cur)
  <2>1. CASE SiftUp
    <3>1. PICK j \in 2..nelts : /\ Places[j] = cur /\ cur < Places[Half(j)]
                                /\ TreeInv' /\ Places' = Exchanged(Places, nelts, Half(j), j)
                                /\ op = "up"
      BY <2>1, <1>0, UpStep
    <3>2. Ordered(nelts, Exchanged(Places, nelts, Half(j), j), "up", cur)
      BY <3>1, <1>0, OrderUp DEF OrderInv
    <3> QED
      BY <3>1, <3>2
  <2>2. CASE SiftDown
    <3>1. PICK j \in 2..nelts : /\ Places[Half(j)] = cur /\ Places[j] < cur
                                /\ \A i \in 2..nelts : Half(i) = Half(j) => Places[j] <= Places[i]
                                /\ TreeInv' /\ Places' = Exchanged(Places, nelts, Half(j), j)
                                /\ op = "down"
      BY <2>2, <1>0, DownStep
    <3>2. Ordered(nelts, Exchanged(Places, nelts, Half(j), j), "down", cur)
      BY <3>1, <1>0, OrderDown DEF OrderInv
    <3> QED
      BY <3>1, <3>2
  <2> QED
    BY <2>1, <2>2
<1>3. OrderInv'
  BY <1>1, <1>2 DEF OrderInv
<1>4. Tree' = Tree
  BY <1>0, <1>1, <1>2, SwapKeepsTree
<1>5. BeforeInv'
  BY <1>0, <1>1, <1>4 DEF BeforeInv
<1> QED
  BY <1>1, <1>2, <1>3, <1>4, <1>5 DEF IInv

(* Steps that leave the heap alone. *)
LEMMA StaysKeeps ==
  ASSUME TreeInv, UNCHANGED <<links, min, nelts>>
  PROVE  TreeInv' /\ Places' = Places /\ Tree' = Tree
<1>1. left' = left /\ right' = right /\ parent' = parent /\ min' = min /\ nelts' = nelts
  BY DEF links
<1>2. WellBuilt(left', right', parent', min', nelts', Places)
  BY <1>1 DEF TreeInv
<1>3. TreeInv' /\ Places' = Places
  BY <1>2, PlacesBecome
<1> QED
  BY <1>1, <1>3, TreeIsMembers, TreeIsMembersNext

LEMMA UpEndsKeeps ==
  ASSUME IInv, UpEnds
  PROVE  IInv' /\ Tree' = Tree /\ op = "up" /\ op' = "idle" /\ min' = min
<1>0. TreeInv /\ OrderInv /\ BeforeInv
      /\ op = "up" /\ op' = "idle" /\ ~Above /\ cur' = Null /\ UNCHANGED <<links, min, nelts, before>>
  BY DEF IInv, UpEnds
<1>1. TreeInv' /\ Places' = Places /\ Tree' = Tree
  BY <1>0, StaysKeeps
<1>2. Ordered(nelts, Places, "idle", Null)
  BY <1>0, UpEndsOrdered
<1>3. OrderInv'
  BY <1>0, <1>1, <1>2 DEF OrderInv
<1>4. BeforeInv'
  BY <1>0 DEF BeforeInv
<1> QED
  BY <1>0, <1>1, <1>3, <1>4 DEF IInv

LEMMA DownEndsKeeps ==
  ASSUME IInv, DownEnds
  PROVE  IInv' /\ Tree' = Tree /\ op = "down" /\ op' = "up" /\ before' = before
<1>0. TreeInv /\ OrderInv /\ BeforeInv
      /\ op = "down" /\ op' = "up" /\ Smallest = cur /\ UNCHANGED <<links, min, nelts, cur, before>>
  BY DEF IInv, DownEnds
<1>1. TreeInv' /\ Places' = Places /\ Tree' = Tree
  BY <1>0, StaysKeeps
<1>2. Ordered(nelts, Places, "up", cur)
  BY <1>0, DownEndsOrdered
<1>3. OrderInv'
  BY <1>0, <1>1, <1>2 DEF OrderInv
<1>4. BeforeInv'
  BY <1>0, <1>1 DEF BeforeInv
<1> QED
  BY <1>0, <1>1, <1>3, <1>4 DEF IInv

LEMMA InitKeeps == Init => IInv
<1> SUFFICES ASSUME Init PROVE IInv
  OBVIOUS
<1>1. /\ left = [x \in Nodes |-> Null] /\ right = [x \in Nodes |-> Null]
      /\ parent = [x \in Nodes |-> Null] /\ min = Null /\ nelts = 0 /\ op = "idle" /\ cur = Null
      /\ before = [nodes |-> {}, min |-> Null]
  BY DEF Init
<1>2. Places = [i \in 1..0 |-> Null]
  <2>1. 1..0 = {}
    OBVIOUS
  <2> QED
    BY <1>1, <2>1 DEF Places
<1>3. TreeInv
  BY <1>1, <1>2, InitTree DEF TreeInv
<1>4. OrderInv
  BY <1>1 DEF OrderInv, Ordered
<1>5. BeforeInv
  BY <1>1 DEF BeforeInv
<1> QED
  BY <1>3, <1>4, <1>5 DEF IInv

LEMMA NextKeeps == IInv /\ [Next]_vars => IInv'
<1> SUFFICES ASSUME IInv, [Next]_vars PROVE IInv'
  OBVIOUS
<1>1. ASSUME NEW x \in Nodes, HeapInsert(x) PROVE IInv'
  BY <1>1, InsertKeeps
<1>2. ASSUME NEW x \in Nodes, HeapRemove(x) PROVE IInv'
  BY <1>2, RemoveLastKeeps, TakePlaceKeeps
<1>3. CASE SiftUp
  BY <1>3, SiftKeeps
<1>4. CASE UpEnds
  BY <1>4, UpEndsKeeps
<1>5. CASE SiftDown
  BY <1>5, SiftKeeps
<1>6. CASE DownEnds
  BY <1>6, DownEndsKeeps
<1>7. CASE UNCHANGED vars
  <2>1. UNCHANGED <<links, min, nelts>> /\ op' = op /\ cur' = cur /\ before' = before
    BY <1>7 DEF vars
  <2>2. TreeInv' /\ Places' = Places /\ Tree' = Tree
    BY <2>1, StaysKeeps DEF IInv
  <2>3. OrderInv'
    BY <2>1, <2>2 DEF IInv, OrderInv
  <2>4. BeforeInv'
    BY <2>1, <2>2 DEF IInv, BeforeInv
  <2> QED
    BY <2>2, <2>3, <2>4 DEF IInv
<1> QED
  BY <1>1, <1>2, <1>3, <1>4, <1>5, <1>6, <1>7 DEF Next

LEMMA Invariant == Spec => []IInv
BY InitKeeps, NextKeeps, PTL DEF Spec

-----------------------------------------------------------------------------
(* Type correctness; there is a least node exactly when there is a node. *)
THEOREM TypeCorrect == Spec => []TypeOK
<1>1. IInv => TypeOK
  <2> SUFFICES ASSUME IInv PROVE TypeOK
    OBVIOUS
  <2>1. TreeInv /\ OrderInv /\ BeforeInv
    BY DEF IInv
  <2>2. /\ nelts <= N /\ Listed(nelts, Places) /\ min = At(Places, nelts, 1)
        /\ left \in Links /\ right \in Links /\ parent \in Links
    BY <2>1, WellBuiltParts DEF TreeInv
  <2>3. nelts \in 0..N
    BY <2>2, NodeNumbers DEF Listed
  <2>4. min \in Nodes \cup {Null} /\ (min # Null <=> 1 \in 1..nelts)
    BY <2>2, ListedFacts
  <2>5. nelts = 0 <=> min = Null
    BY <2>3, <2>4, NodeNumbers
  <2>6. cur \in Nodes \cup {Null}
    <3>1. CASE op = "idle"
      BY <3>1, <2>1 DEF BeforeInv
    <3>2. CASE op # "idle"
      BY <3>2, <2>1, <2>2, ListedFacts DEF OrderInv, Ordered
    <3> QED
      BY <3>1, <3>2
  <2> QED
    BY <2>1, <2>2, <2>3, <2>4, <2>5, <2>6 DEF TypeOK, BeforeInv, Links
<1> QED
  BY <1>1, Invariant, PTL

LEMMA TreeIsComplete == TreeInv => Complete
<1> SUFFICES ASSUME TreeInv PROVE Complete
  OBVIOUS
<1> DEFINE a == Places
           n == nelts
<1>1. /\ Listed(n, a) /\ \A i \in 1..n : NodeAt(i) = a[i]
      /\ Tree = {a[i] : i \in 1..n}
  BY PlacesAre
<1>2. /\ n \in Nat
      /\ \A i \in 1..n : i \in Nat /\ i # 0 /\ i <= n
      /\ \A i \in 1..n : At(a, n, i) = a[i] /\ a[i] \in Nodes /\ a[i] # Null
  BY <1>1, ListedFacts
<1>3. /\ ChildrenOf(left, a, n, 0) /\ ChildrenOf(right, a, n, 1)
      /\ \A i \in 1..n : parent[a[i]] = At(a, n, Half(i))
      /\ \A x \in Nodes : (\A i \in 1..n : a[i] # x) => left[x] = Null /\ right[x] = Null /\ parent[x] = Null
  BY WellBuiltParts DEF TreeInv
<1>4. a \in [1..n -> Nodes] /\ \A i, h \in 1..n : a[i] = a[h] => i = h
  BY <1>1 DEF Listed
<1> HIDE DEF a
<1>5. Cardinality(Tree) = n
  <2>1. a \in [1..n -> Tree]
    BY <1>1, <1>4
  <2>2. a \in Bijection(1..n, Tree)
    BY <1>1, <1>4, <2>1 DEF Bijection, Injection, Surjection, IsInjective
  <2>3. IsFiniteSet(1..n) /\ Cardinality(1..n) = n
    BY <1>2, FS_Interval
  <2>4. ExistsBijection(1..n, Tree)
    BY <2>2 DEF ExistsBijection
  <2> QED
    BY <2>3, <2>4, FS_Bijection
<1>6. Null \notin Tree
  BY <1>1, <1>2
<1>7. ASSUME NEW i \in 1..n
      PROVE  /\ parent[a[i]] = IF i = 1 THEN Null ELSE NodeAt(i \div 2)
             /\ left[a[i]] = IF 2 * i <= n THEN NodeAt(2 * i) ELSE Null
             /\ right[a[i]] = IF 2 * i < n THEN NodeAt(2 * i + 1) ELSE Null
  <2>1. i \in Nat /\ i # 0 /\ i <= n
    BY <1>2
  <2>2. parent[a[i]] = IF i = 1 THEN Null ELSE NodeAt(i \div 2)
    <3>1. CASE i = 1
      BY <3>1, <1>3, Halves DEF At
    <3>2. CASE i # 1
      <4>1. i \in 2..n
        BY <3>2, <2>1, <1>2
      <4>2. Half(i) \in 1..n
        BY <4>1, <1>1, PairFacts
      <4> QED
        BY <3>2, <4>2, <1>1, <1>2, <1>3 DEF Half
    <3> QED
      BY <3>1, <3>2
  <2>3. left[a[i]] = At(a, n, 2 * i) /\ right[a[i]] = At(a, n, 2 * i + 1)
    <3>1. 2 * i + 0 = 2 * i
      BY <2>1
    <3>2. left[a[i]] = At(a, n, 2 * i + 0) /\ right[a[i]] = At(a, n, 2 * i + 1)
      BY <1>3 DEF ChildrenOf
    <3> QED
      BY <3>1, <3>2
  <2>4. (2 * i \in 1..n <=> 2 * i <= n) /\ (2 * i + 1 \in 1..n <=> 2 * i < n)
    BY <2>1, <1>2
  <2> QED
    BY <2>2, <2>3, <2>4, <1>1 DEF At
<1>8. \A x \in Nodes \ Tree : {left[x], right[x], parent[x]} = {Null}
  BY <1>1, <1>3
<1>9. \A i \in 1..n :
        LET x == NodeAt(i) IN
          /\ parent[x] = IF i = 1 THEN Null ELSE NodeAt(i \div 2)
          /\ left[x] = IF 2 * i <= n THEN NodeAt(2 * i) ELSE Null
          /\ right[x] = IF 2 * i < n THEN NodeAt(2 * i + 1) ELSE Null
  BY <1>1, <1>7
<1> QED
  BY <1>5, <1>6, <1>8, <1>9 DEF Complete

LEMMA TreeIsOrdered == TreeInv /\ OrderInv => HeapOrder
<1> SUFFICES ASSUME TreeInv, OrderInv, NEW x \in Tree
             PROVE  parent[x] = Null \/ parent[x] < x \/ cur \in {x, parent[x]}
  BY DEF HeapOrder
<1>1. Listed(nelts, Places) /\ Tree = {Places[i] : i \in 1..nelts}
      /\ \A i \in 1..nelts : parent[Places[i]] = At(Places, nelts, Half(i))
  BY PlacesAre, WellBuiltParts DEF TreeInv
<1>2. PICK i \in 1..nelts : x = Places[i]
  BY <1>1
<1>3. CASE i = 1
  BY <1>1, <1>2, <1>3, Halves DEF At
<1>4. CASE i # 1
  <2>1. i \in 2..nelts /\ Half(i) \in 1..nelts
    BY <1>1, <1>4, PairFacts
  <2>2. parent[x] = Places[Half(i)]
    BY <2>1, <1>1, <1>2 DEF At
  <2> QED
    BY <2>1, <2>2, <1>2 DEF OrderInv, Ordered
<1> QED
  BY <1>3, <1>4

(* The pointers are those of a complete tree of nelts nodes, ordered but at   *)
(* the node an operation is moving, after every iteration of every loop.      *)
THEOREM TreeStaysAHeap == Spec => []HeapShape
<1>1. IInv => HeapShape
  BY TreeIsComplete, TreeIsOrdered DEF IInv, HeapShape
<1> QED
  BY <1>1, Invariant, PTL

-----------------------------------------------------------------------------
(* The refinement *)

(* Between the operations the root is the least node. *)
LEMMA RootIsLeast ==
  ASSUME TreeInv, Ordered(nelts, Places, "idle", Null)
  PROVE  min = PQ!Least(Tree)
<1> DEFINE a == Places
           n == nelts
<1>1. Listed(n, a) /\ Tree = {a[i] : i \in 1..n} /\ min = At(a, n, 1)
  BY PlacesAre
<1>2. n \in Nat
  BY <1>1 DEF Listed
<1>3. CASE n = 0
  <2>1. Tree = {} /\ min = Null
    BY <1>1, <1>3 DEF At
  <2> QED
    BY <2>1 DEF PQ!Least
<1>4. CASE n # 0
  <2>1. 1 \in 1..n /\ min = a[1]
    BY <1>1, <1>2, <1>4 DEF At
  <2>2. /\ \A i \in 2..n : i \in 1..n /\ i \in Nat /\ Half(i) \in 1..n /\ Half(i) \in Nat /\ Half(i) < i
        /\ \A i \in 1..n : a[i] \in Nat /\ (i # 1 => i \in 2..n)
    BY <1>1, PairFacts
  <2> DEFINE Wrong == {i \in 1..n : a[i] < a[1]}
  <2> HIDE DEF a
  <2>3. Wrong = {}
    <3> SUFFICES ASSUME Wrong # {} PROVE FALSE
      OBVIOUS
    <3>1. Wrong \in SUBSET Nat
      BY <1>2
    <3>2. PICK i \in Wrong : \A h \in Wrong : i <= h
      BY <3>1, LeastNat
    <3>3. i \in 1..n /\ a[i] < a[1]
      BY <3>2
    <3>4. i # 1 /\ i \in 2..n
      BY <3>3, <2>1, <2>2
    <3>5. Half(i) \in 1..n /\ Half(i) < i /\ Half(i) \in Nat /\ i \in Nat
      BY <3>4, <2>2
    <3>6. Half(i) \notin Wrong
      BY <3>2, <3>5
    <3>7. a[Half(i)] < a[i]
      BY <3>4 DEF Ordered, a
    <3>8. a[Half(i)] \in Nat /\ a[i] \in Nat /\ a[1] \in Nat
      BY <3>3, <3>5, <2>1, <2>2
    <3> QED
      BY <3>3, <3>5, <3>6, <3>7, <3>8
  <2>4. \A i \in 1..n : a[1] <= a[i]
    <3> SUFFICES ASSUME NEW i \in 1..n PROVE a[1] <= a[i]
      OBVIOUS
    <3>1. ~(a[i] < a[1]) /\ a[i] \in Nat /\ a[1] \in Nat
      BY <2>1, <2>2, <2>3
    <3> QED
      BY <3>1
  <2> HIDE DEF Wrong
  <2>5. min \in Tree /\ (\A y \in Tree : min <= y) /\ Tree \subseteq Nat
    BY <2>1, <2>2, <2>4, <1>1 DEF a
  <2>6. \A x \in Tree : (\A y \in Tree : x <= y) => x = min
    <3> SUFFICES ASSUME NEW x \in Tree, \A y \in Tree : x <= y PROVE x = min
      OBVIOUS
    <3>1. x <= min /\ min <= x /\ x \in Nat /\ min \in Nat
      BY <2>5
    <3> QED
      BY <3>1
  <2>7. Tree # {}
    BY <2>5
  <2> QED
    BY <2>5, <2>6, <2>7 DEF PQ!Least
<1> QED
  BY <1>3, <1>4

LEMMA RootIsLeastIdle == IInv /\ op = "idle" => min = PQ!Least(Tree)
<1> SUFFICES ASSUME IInv, op = "idle" PROVE min = PQ!Least(Tree)
  OBVIOUS
<1>1. Ordered(nelts, Places, "idle", Null)
  BY DEF IInv, OrderInv, BeforeInv
<1> QED
  BY <1>1, RootIsLeast DEF IInv

LEMMA RootIsLeastNext == IInv' /\ op' = "idle" => min' = PQ!Least(Tree')
<1>1. (IInv /\ op = "idle" => min = PQ!Least(Tree))'
  BY RootIsLeastIdle, PTL
<1> QED
  BY <1>1 DEF PQ!Least

QueueSeen == IF op = "idle" THEN Tree ELSE before.nodes
MinSeen == IF op = "idle" THEN min ELSE before.min
PQVars == <<QueueSeen, MinSeen>>

LEMMA PQInit == Init => PQ!Init
<1> SUFFICES ASSUME Init PROVE PQ!Init
  OBVIOUS
<1>1. 1..0 = {}
  OBVIOUS
<1>2. Tree = {} /\ min = Null /\ op = "idle"
  BY <1>1 DEF Init, Tree
<1> QED
  BY <1>2 DEF PQ!Init

LEMMA PQStep == IInv /\ [Next]_vars => [PQ!Next]_PQVars
<1> SUFFICES ASSUME IInv, [Next]_vars PROVE [PQ!Next]_PQVars
  OBVIOUS
<1>0. BeforeInv /\ TreeInv
  BY DEF IInv
<1>1. ASSUME NEW x \in Nodes, HeapInsert(x) PROVE UNCHANGED PQVars
  <2>1. op = "idle" /\ op' = "up" /\ before' = [nodes |-> Tree, min |-> min]
    BY <1>1 DEF HeapInsert, Remember
  <2> QED
    BY <2>1 DEF PQVars, QueueSeen, MinSeen
<1>2. ASSUME NEW x \in Nodes, HeapRemove(x) PROVE [PQ!Next]_PQVars
  <2>1. op = "idle" /\ before' = [nodes |-> Tree, min |-> min]
    BY <1>2 DEF HeapRemove, Remember
  <2>2. CASE NodeAt(nelts) = x
    <3>1. IInv' /\ TreeShrinks(x) /\ op' = "idle"
      BY <1>2, <2>2, RemoveLastKeeps
    <3>2. min' = PQ!Least(Tree')
      BY <3>1, RootIsLeastNext
    <3>3. PQ!Remove(x)
      BY <2>1, <3>1, <3>2 DEF PQ!Remove, PQ!Least, TreeShrinks
    <3> QED
      BY <3>3 DEF PQ!Next, Nodes
  <2>3. CASE NodeAt(nelts) # x
    <3>1. op' = "down"
      BY <1>2, <2>3, TakePlaceKeeps
    <3> QED
      BY <2>1, <3>1 DEF PQVars, QueueSeen, MinSeen
  <2> QED
    BY <2>2, <2>3
<1>3. CASE SiftUp \/ SiftDown
  <2>1. op # "idle" /\ op' = op /\ before' = before
    BY <1>3, SiftKeeps
  <2> QED
    BY <2>1 DEF PQVars, QueueSeen, MinSeen
<1>4. CASE UpEnds
  <2>1. IInv' /\ Tree' = Tree /\ op = "up" /\ op' = "idle"
    BY <1>4, UpEndsKeeps
  <2>2. min' = PQ!Least(Tree')
    BY <2>1, RootIsLeastNext
  <2>3. PICK x \in Nodes : \/ x \notin before.nodes /\ Tree = before.nodes \cup {x}
                           \/ x \in before.nodes /\ Tree = before.nodes \ {x}
    BY <2>1, <1>0 DEF BeforeInv
  <2>4. PQ!Insert(x) \/ PQ!Remove(x)
    BY <2>1, <2>2, <2>3 DEF PQ!Insert, PQ!Remove, PQ!Least
  <2> QED
    BY <2>4 DEF PQ!Next, Nodes
<1>5. CASE DownEnds
  <2>1. op = "down" /\ op' = "up" /\ before' = before
    BY <1>5, DownEndsKeeps
  <2> QED
    BY <2>1 DEF PQVars, QueueSeen, MinSeen
<1>6. CASE UNCHANGED vars
  <2>1. UNCHANGED <<links, min, nelts>> /\ op' = op /\ before' = before /\ min' = min
    BY <1>6 DEF vars
  <2>2. Tree' = Tree
    BY <2>1, <1>0, StaysKeeps
  <2> QED
    BY <2>1, <2>2 DEF PQVars, QueueSeen, MinSeen
<1> QED
  BY <1>1, <1>2, <1>3, <1>4, <1>5, <1>6 DEF Next

(* The pointers implement a set and its least element: an operation shows its *)
(* callers nothing before its last loop ends, then the node added or taken    *)
(* away and the new least one, as heap_min returns it.                        *)
THEOREM HeapIsAPriorityQueue == Spec => ImplementsPriorityQueue
<1>1. Init => PQ!Init
  BY PQInit
<1>2. IInv /\ [Next]_vars => [PQ!Next]_PQVars
  BY PQStep
<1>3. Init /\ [][Next]_vars => []IInv
  BY Invariant DEF Spec
<1>4. Init /\ [][Next]_vars => PQ!Init /\ [][PQ!Next]_PQVars
  BY <1>1, <1>2, <1>3, PTL
<1> QED
  BY <1>4 DEF Spec, ImplementsPriorityQueue, PQ!Spec, PQVars, QueueSeen, MinSeen
=============================================================================

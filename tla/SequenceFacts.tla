------------------------- MODULE SequenceFacts -------------------------
(* Lemmas about the queues of the models: what appending, taking the head   *)
(* and removing at a position do to the set of the elements (ToSet) and to  *)
(* a sequence without repetitions (IsInjective); and that a set of numbers  *)
(* has a least one.                                                         *)
EXTENDS Integers, Sequences, SequencesExt, IntrusiveQueue, SequenceTheorems,
        WellFoundedInduction, TLAPS

(* A set of numbers has a least one: what holds at the first place where two  *)
(* things differ, or where something fails, is an induction without a schema. *)
LEMMA LeastNat ==
  ASSUME NEW T \in SUBSET Nat, T # {}
  PROVE  \E x \in T : \A y \in T : x <= y
<1> DEFINE R == {ss \in Nat \X Nat : ss[1] < ss[2]}
<1>1. IsWellFoundedOn(OpToRel(<, Nat), Nat)
  BY NatLessThanWellFounded
<1>2. OpToRel(<, Nat) = R
  BY DEF OpToRel
<1>3. IsWellFoundedOn(R, Nat)
  BY <1>1, <1>2
<1>4. \A x, y \in Nat : <<x, y>> \in R <=> x < y
  OBVIOUS
<1> HIDE DEF R
<1>5. PICK x \in T : \A y \in T : <<y, x>> \notin R
  BY <1>3, WFMin
<1>6. \A y \in T : ~(y < x)
  BY <1>4, <1>5
<1>7. \A a, b \in Nat : ~(b < a) => a <= b
  OBVIOUS
<1> QED
  BY <1>5, <1>6, <1>7

(* A function on 0..n that is given below b and follows from an earlier value *)
(* from there on exists: what a recursive definition denotes is not vacuous.  *)
Follows(f, n, s0, b, G, h) ==
  \A j \in 0..n : f[j] = IF j < b THEN s0 ELSE G[<<f[h[j]], j>>]

LEMMA RecursionExists ==
  ASSUME NEW S, NEW s0 \in S, NEW b \in Nat, NEW G \in [S \X Nat -> S],
         NEW h \in [Nat -> Nat], \A j \in Nat : j >= b => h[j] < j
  PROVE  \A n \in Nat : \E f \in [0..n -> S] : Follows(f, n, s0, b, G, h)
<1> DEFINE Value(f, j) == IF j < b THEN s0 ELSE G[<<f[h[j]], j>>]
           Fits(n, f) == f \in [0..n -> S] /\ \A j \in 0..n : f[j] = Value(f, j)
           Without == {n \in Nat : ~ \E f : Fits(n, f)}
<1>0. h[0] \in Nat /\ 0 < b
  OBVIOUS
<1>1. Without = {}
  <2> SUFFICES ASSUME Without # {} PROVE FALSE
    OBVIOUS
  <2>1. PICK n \in Without : \A k \in Without : n <= k
    <3> HIDE DEF Fits
    <3> QED
      BY LeastNat
  <2>2. n \in Nat /\ ~ \E f : Fits(n, f)
    BY <2>1
  <2>3. n # 0
    <3> DEFINE f == [j \in 0..0 |-> s0]
    <3>1. Fits(0, f)
      BY <1>0
    <3> QED
      BY <2>2, <3>1
  <2>4. n - 1 \in Nat /\ ~(n <= n - 1)
    BY <2>2, <2>3
  <2>5. PICK f : Fits(n - 1, f)
    <3>1. n - 1 \notin Without
      BY <2>1, <2>4
    <3> HIDE DEF Fits
    <3> QED
      BY <2>4, <3>1
  <2>6. f \in [0..n - 1 -> S] /\ \A j \in 0..n - 1 : f[j] = Value(f, j)
    BY <2>5
  <2>7. \A j \in 0..n : j >= b => h[j] \in 0..n - 1 /\ h[j] \in 0..n /\ h[j] # n
    <3> SUFFICES ASSUME NEW j \in 0..n, j >= b
                 PROVE  h[j] \in 0..n - 1 /\ h[j] \in 0..n /\ h[j] # n
      OBVIOUS
    <3> HIDE DEF Fits, Value, Without
    <3>1. j \in Nat /\ j <= n
      BY <2>2
    <3>2. h[j] \in Nat /\ h[j] < j
      BY <3>1
    <3> QED
      BY <2>2, <3>1, <3>2
  <2>8. Value(f, n) \in S
    <3>1. CASE n < b
      BY <3>1
    <3>2. CASE n >= b
      <4>1. f[h[n]] \in S
        BY <2>2, <2>6, <2>7, <3>2
      <4> QED
        BY <2>2, <3>2, <4>1
    <3> QED
      BY <2>2, <3>1, <3>2
  <2> DEFINE g == [j \in 0..n |-> IF j = n THEN Value(f, n) ELSE f[j]]
  <2>9. g \in [0..n -> S] /\ \A j \in 0..n : j # n => g[j] = f[j]
    <3>1. \A j \in 0..n : j # n => j \in 0..n - 1
      BY <2>2
    <3> HIDE DEF Value
    <3> QED
      BY <2>6, <2>8, <3>1
  <2>10. g[n] = Value(f, n)
    BY <2>2
  <2> HIDE DEF g
  <2>11. ASSUME NEW j \in 0..n PROVE g[j] = Value(g, j)
    <3>1. Value(g, j) = Value(f, j)
      <4>1. CASE j < b
        BY <4>1
      <4>2. CASE ~(j < b)
        <5>1. j >= b
          BY <2>2, <4>2
        <5>2. g[h[j]] = f[h[j]]
          BY <2>7, <2>9, <5>1
        <5> QED
          BY <4>2, <5>2
      <4> QED
        BY <4>1, <4>2
    <3>2. CASE j = n
      <4> HIDE DEF Value
      <4> QED
        BY <2>10, <3>1, <3>2
    <3>3. CASE j # n
      <4>1. j \in 0..n - 1
        BY <2>2, <3>3
      <4> HIDE DEF Value
      <4> QED
        BY <2>6, <2>9, <3>1, <3>3, <4>1
    <3> QED
      BY <3>2, <3>3
  <2>12. Fits(n, g)
    <3> HIDE DEF Value
    <3> QED
      BY <2>9, <2>11
  <2> HIDE DEF Fits
  <2> QED
    BY <2>2, <2>12
<1>2. ASSUME NEW n \in Nat PROVE \E f : Fits(n, f)
  <2> HIDE DEF Fits
  <2> QED
    BY <1>1
<1> QED
  BY <1>2 DEF Follows

LEMMA ToSetElement ==
  ASSUME NEW S, NEW s \in Seq(S)
  PROVE  /\ ToSet(s) \subseteq S
         /\ DOMAIN s = 1..Len(s)
         /\ Len(s) \in Nat
         /\ \A e : Contains(s, e) <=> e \in ToSet(s)
BY LenProperties DEF ToSet, Contains

LEMMA ToSetEmpty ==
  ASSUME NEW S, NEW s \in Seq(S)
  PROVE  /\ s = <<>> <=> ToSet(s) = {}
         /\ s = <<>> <=> Len(s) = 0
<1>1. DOMAIN s = 1..Len(s) /\ Len(s) \in Nat BY LenProperties
<1>2. s = <<>> => ToSet(s) = {} /\ Len(s) = 0 BY DEF ToSet
<1>3. s # <<>> => Len(s) > 0 BY EmptySeq, <1>1
<1>4. Len(s) > 0 => s[1] \in ToSet(s) BY <1>1 DEF ToSet
<1> QED BY <1>2, <1>3, <1>4

LEMMA ToSetAppend ==
  ASSUME NEW S, NEW s \in Seq(S), NEW e \in S
  PROVE  /\ Append(s, e) \in Seq(S)
         /\ Len(Append(s, e)) = Len(s) + 1
         /\ ToSet(Append(s, e)) = ToSet(s) \cup {e}
         /\ IsInjective(s) /\ e \notin ToSet(s) => IsInjective(Append(s, e))
<1> DEFINE t == Append(s, e)
<1>1. /\ t \in Seq(S) /\ Len(t) = Len(s) + 1
      /\ \A i \in 1..Len(s) : t[i] = s[i]
      /\ t[Len(s) + 1] = e
  BY AppendProperties
<1>2. /\ Len(s) \in Nat /\ DOMAIN s = 1..Len(s) /\ DOMAIN t = 1..(Len(s) + 1)
  BY LenProperties, <1>1
<1> HIDE DEF t
<1>3. ToSet(t) = ToSet(s) \cup {e}
  BY <1>1, <1>2 DEF ToSet
<1>4. ASSUME IsInjective(s), e \notin ToSet(s) PROVE IsInjective(t)
  <2> SUFFICES ASSUME NEW i \in DOMAIN t, NEW j \in DOMAIN t, t[i] = t[j] PROVE i = j
    BY DEF IsInjective
  <2>1. \A k \in DOMAIN s : s[k] # e BY <1>4 DEF ToSet
  <2> QED BY <2>1, <1>1, <1>2, <1>4 DEF IsInjective
<1> QED BY <1>1, <1>3, <1>4 DEF t

LEMMA ToSetTail ==
  ASSUME NEW S, NEW s \in Seq(S), s # <<>>
  PROVE  /\ Head(s) \in ToSet(s) /\ Head(s) = s[1] /\ Head(s) \in S
         /\ Tail(s) \in Seq(S)
         /\ Len(Tail(s)) = Len(s) - 1
         /\ ToSet(s) = ToSet(Tail(s)) \cup {Head(s)}
         /\ IsInjective(s) => IsInjective(Tail(s)) /\ Head(s) \notin ToSet(Tail(s))
<1> DEFINE t == Tail(s)
<1>1. /\ t \in Seq(S) /\ Len(t) = Len(s) - 1 /\ Head(s) \in S
      /\ \A i \in 1..Len(t) : t[i] = s[i + 1]
  BY HeadTailProperties
<1>2. /\ Len(s) \in Nat \ {0} /\ DOMAIN s = 1..Len(s) /\ DOMAIN t = 1..(Len(s) - 1)
  BY LenProperties, EmptySeq, <1>1
<1>3. Head(s) = s[1] OBVIOUS
<1> HIDE DEF t
<1>4. Head(s) \in ToSet(s) BY <1>2, <1>3 DEF ToSet
<1>5. \A i \in DOMAIN t : t[i] = s[i + 1] /\ i + 1 \in DOMAIN s /\ i + 1 # 1
  BY <1>1, <1>2
<1>6. \A i \in DOMAIN s : i = 1 \/ (i - 1 \in DOMAIN t /\ t[i - 1] = s[i])
  BY <1>1, <1>2
<1>7. ToSet(s) = ToSet(t) \cup {Head(s)}
  <2>1. ToSet(t) \subseteq ToSet(s) BY <1>5 DEF ToSet
  <2>2. ToSet(s) \subseteq ToSet(t) \cup {Head(s)} BY <1>6, <1>3 DEF ToSet
  <2> QED BY <2>1, <2>2, <1>4
<1>8. ASSUME IsInjective(s) PROVE IsInjective(t) /\ Head(s) \notin ToSet(t)
  <2>1. IsInjective(t)
    <3> SUFFICES ASSUME NEW i \in DOMAIN t, NEW j \in DOMAIN t, t[i] = t[j] PROVE i = j
      BY DEF IsInjective
    <3>1. i + 1 = j + 1 BY <1>5, <1>8 DEF IsInjective
    <3> QED BY <3>1, <1>2
  <2>2. Head(s) \notin ToSet(t)
    BY <1>2, <1>3, <1>5, <1>8 DEF ToSet, IsInjective
  <2> QED BY <2>1, <2>2
<1> QED BY <1>1, <1>3, <1>4, <1>7, <1>8 DEF t

LEMMA RemoveAtProperties ==
  ASSUME NEW S, NEW s \in Seq(S), NEW i \in DOMAIN s
  PROVE  /\ RemoveAt(s, i) \in Seq(S)
         /\ Len(RemoveAt(s, i)) = Len(s) - 1
         /\ Len(s) \in Nat /\ i \in 1..Len(s)
         /\ \A j \in 1..(Len(s) - 1) : RemoveAt(s, i)[j] = IF j < i THEN s[j] ELSE s[j + 1]
<1>1. Len(s) \in Nat /\ DOMAIN s = 1..Len(s) /\ \A j \in 1..Len(s) : s[j] \in S
  BY LenProperties
<1>2. i \in 1..Len(s) BY <1>1
<1> DEFINE a == SubSeq(s, 1, i - 1)
           b == SubSeq(s, i + 1, Len(s))
<1>3. \A j \in 1..(i - 1) : s[j] \in S BY <1>1, <1>2
<1>4. \A j \in (i + 1)..Len(s) : s[j] \in S BY <1>1, <1>2
<1>5. /\ a \in Seq(S) /\ Len(a) = i - 1
      /\ \A j \in 1..(i - 1) : a[j] = s[j]
  BY <1>2, <1>3, SubSeqProperties
<1>6. /\ b \in Seq(S) /\ Len(b) = Len(s) - i
      /\ \A j \in 1..(Len(s) - i) : b[j] = s[i + j]
  <2>1. /\ b \in Seq(S)
        /\ Len(b) = IF i + 1 <= Len(s) THEN Len(s) - (i + 1) + 1 ELSE 0
        /\ \A j \in 1..(Len(s) - (i + 1) + 1) : b[j] = s[(i + 1) + j - 1]
    BY <1>1, <1>2, <1>4, SubSeqProperties
  <2> QED BY <2>1, <1>1, <1>2
<1> HIDE DEF a, b
<1>7. /\ a \o b \in Seq(S)
      /\ Len(a \o b) = Len(a) + Len(b)
      /\ \A j \in 1..(Len(a) + Len(b)) : (a \o b)[j] = IF j <= Len(a) THEN a[j] ELSE b[j - Len(a)]
  BY <1>5, <1>6, ConcatProperties
<1>8. RemoveAt(s, i) = a \o b BY DEF RemoveAt, a, b
<1>9. \A j \in 1..(Len(s) - 1) : (a \o b)[j] = IF j < i THEN s[j] ELSE s[j + 1]
  <2> TAKE j \in 1..(Len(s) - 1)
  <2>1. CASE j < i BY <2>1, <1>1, <1>2, <1>5, <1>6, <1>7
  <2>2. CASE ~(j < i)
    <3>1. j - (i - 1) \in 1..(Len(s) - i) BY <2>2, <1>1, <1>2
    <3>2. (a \o b)[j] = b[j - (i - 1)]
      <4>1. j \in 1..(Len(a) + Len(b)) /\ ~(j <= Len(a)) BY <2>2, <1>1, <1>2, <1>5, <1>6
      <4> QED BY <4>1, <1>5, <1>7
    <3>3. b[j - (i - 1)] = s[i + (j - (i - 1))] BY <3>1, <1>6
    <3>4. i + (j - (i - 1)) = j + 1 BY <1>1, <1>2
    <3> QED BY <2>2, <3>2, <3>3, <3>4
  <2> QED BY <2>1, <2>2
<1>10. Len(a \o b) = Len(s) - 1 BY <1>1, <1>2, <1>5, <1>6, <1>7
<1>11. a \o b \in Seq(S) BY <1>7
<1> QED BY <1>1, <1>2, <1>8, <1>9, <1>10, <1>11

LEMMA ToSetRemoveAt ==
  ASSUME NEW S, NEW s \in Seq(S), NEW i \in DOMAIN s
  PROVE  /\ ToSet(s) = ToSet(RemoveAt(s, i)) \cup {s[i]}
         /\ IsInjective(s) => IsInjective(RemoveAt(s, i)) /\ s[i] \notin ToSet(RemoveAt(s, i))
<1> DEFINE t == RemoveAt(s, i)
<1>1. /\ t \in Seq(S) /\ Len(t) = Len(s) - 1 /\ Len(s) \in Nat /\ i \in 1..Len(s)
      /\ \A j \in 1..(Len(s) - 1) : t[j] = IF j < i THEN s[j] ELSE s[j + 1]
  BY RemoveAtProperties
<1>2. DOMAIN s = 1..Len(s) /\ DOMAIN t = 1..(Len(s) - 1) BY LenProperties, <1>1
<1> HIDE DEF t
<1>3. \A j \in DOMAIN t : \/ j < i /\ t[j] = s[j]
                          \/ j >= i /\ t[j] = s[j + 1]
  BY <1>1, <1>2
<1>4. \A j \in DOMAIN s : \/ j < i /\ j \in DOMAIN t /\ t[j] = s[j]
                          \/ j = i
                          \/ j > i /\ j - 1 \in DOMAIN t /\ t[j - 1] = s[j]
  BY <1>1, <1>2
<1>5. \A j \in DOMAIN t : j \in DOMAIN s /\ j + 1 \in DOMAIN s BY <1>1, <1>2
<1>6. ToSet(s) = ToSet(t) \cup {s[i]}
  <2>1. ToSet(t) \subseteq ToSet(s) BY <1>3, <1>5 DEF ToSet
  <2>2. ToSet(s) \subseteq ToSet(t) \cup {s[i]} BY <1>4 DEF ToSet
  <2>3. s[i] \in ToSet(s) BY DEF ToSet
  <2> QED BY <2>1, <2>2, <2>3
<1>7. ASSUME IsInjective(s) PROVE IsInjective(t) /\ s[i] \notin ToSet(t)
  <2>1. IsInjective(t)
    <3> SUFFICES ASSUME NEW j \in DOMAIN t, NEW k \in DOMAIN t, t[j] = t[k] PROVE j = k
      BY DEF IsInjective
    <3>1. \A m, n \in DOMAIN s : s[m] = s[n] => m = n BY <1>7 DEF IsInjective
    <3> QED BY <3>1, <1>1, <1>2, <1>3, <1>5
  <2>2. s[i] \notin ToSet(t)
    <3> SUFFICES ASSUME NEW j \in DOMAIN t, t[j] = s[i] PROVE FALSE BY DEF ToSet
    <3>1. \A m, n \in DOMAIN s : s[m] = s[n] => m = n BY <1>7 DEF IsInjective
    <3> QED BY <3>1, <1>1, <1>2, <1>3, <1>5
  <2> QED BY <2>1, <2>2
<1> QED BY <1>6, <1>7 DEF t

(* The positions of an element of a sequence without repetitions, each with   *)
(* the name of the sequence.                                                  *)
LEMMA PositionUnique ==
  ASSUME NEW s, IsInjective(s), NEW e, NEW tag
  PROVE  /\ e \in ToSet(s) => \E p : {<<tag, i>> : i \in {j \in DOMAIN s : s[j] = e}} = {p}
         /\ e \notin ToSet(s) => {<<tag, i>> : i \in {j \in DOMAIN s : s[j] = e}} = {}
<1>1. ASSUME e \in ToSet(s)
      PROVE  \E p : {<<tag, i>> : i \in {j \in DOMAIN s : s[j] = e}} = {p}
  <2>1. PICK k \in DOMAIN s : s[k] = e BY <1>1 DEF ToSet
  <2>2. {j \in DOMAIN s : s[j] = e} = {k} BY <2>1 DEF IsInjective
  <2>3. {<<tag, i>> : i \in {j \in DOMAIN s : s[j] = e}} = {<<tag, k>>} BY <2>2
  <2> QED BY <2>3
<1>2. ASSUME e \notin ToSet(s)
      PROVE  {<<tag, i>> : i \in {j \in DOMAIN s : s[j] = e}} = {}
  BY <1>2 DEF ToSet
<1> QED BY <1>1, <1>2

(* uv__queue_remove takes out the node and nothing else. *)
LEMMA UnlinkedFacts ==
  ASSUME NEW S, NEW q \in Seq(S), IsInjective(q), NEW r
  PROVE  /\ Unlinked(q, r) \in Seq(S)
         /\ IsInjective(Unlinked(q, r))
         /\ ToSet(Unlinked(q, r)) = ToSet(q) \ {r}
         /\ Len(Unlinked(q, r)) = IF r \in ToSet(q) THEN Len(q) - 1 ELSE Len(q)
<1>1. Contains(q, r) <=> r \in ToSet(q) BY ToSetElement
<1>2. CASE r \notin ToSet(q) BY <1>1, <1>2 DEF Unlinked
<1>3. CASE r \in ToSet(q)
  <2> DEFINE i == CHOOSE i \in DOMAIN q : q[i] = r
  <2>1. i \in DOMAIN q /\ q[i] = r BY <1>3 DEF ToSet
  <2>2. Unlinked(q, r) = RemoveAt(q, i) BY <1>1, <1>3 DEF Unlinked
  <2> HIDE DEF i
  <2>3. RemoveAt(q, i) \in Seq(S) /\ Len(RemoveAt(q, i)) = Len(q) - 1
    BY <2>1, RemoveAtProperties
  <2>4. /\ ToSet(q) = ToSet(RemoveAt(q, i)) \cup {r}
        /\ IsInjective(RemoveAt(q, i)) /\ r \notin ToSet(RemoveAt(q, i))
    BY <2>1, ToSetRemoveAt
  <2> QED BY <1>3, <2>2, <2>3, <2>4
<1> QED BY <1>2, <1>3

(* ... and leaves the others in their order. *)
LEMMA UnlinkedOrder ==
  ASSUME NEW S, NEW q \in Seq(S), NEW r
  PROVE  \A i, j \in DOMAIN Unlinked(q, r) : i < j =>
           \E k, l \in DOMAIN q : k < l /\ q[k] = Unlinked(q, r)[i] /\ q[l] = Unlinked(q, r)[j]
<1>1. Contains(q, r) <=> r \in ToSet(q) BY ToSetElement
<1>2. CASE r \notin ToSet(q) BY <1>1, <1>2 DEF Unlinked
<1>3. CASE r \in ToSet(q)
  <2> DEFINE n == CHOOSE i \in DOMAIN q : q[i] = r
  <2>1. n \in DOMAIN q BY <1>3 DEF ToSet
  <2>2. Unlinked(q, r) = RemoveAt(q, n) BY <1>1, <1>3 DEF Unlinked
  <2> HIDE DEF n
  <2> DEFINE t == RemoveAt(q, n)
  <2>3. /\ t \in Seq(S) /\ Len(t) = Len(q) - 1 /\ Len(q) \in Nat /\ n \in 1..Len(q)
        /\ \A j \in 1..(Len(q) - 1) : t[j] = IF j < n THEN q[j] ELSE q[j + 1]
    BY <2>1, RemoveAtProperties
  <2>4. DOMAIN t = 1..(Len(q) - 1) /\ DOMAIN q = 1..Len(q) BY <2>3, LenProperties
  <2> HIDE DEF t
  <2>5. SUFFICES ASSUME NEW i \in DOMAIN t, NEW j \in DOMAIN t, i < j
                 PROVE  \E k, l \in DOMAIN q : k < l /\ q[k] = t[i] /\ q[l] = t[j]
    BY <2>2 DEF t
  <2> DEFINE At(x) == IF x < n THEN x ELSE x + 1
  <2>6. At(i) \in DOMAIN q /\ At(j) \in DOMAIN q /\ At(i) < At(j)
    BY <2>3, <2>4, <2>5
  <2>7. q[At(i)] = t[i] /\ q[At(j)] = t[j] BY <2>3, <2>4
  <2> QED BY <2>6, <2>7
<1> QED BY <1>2, <1>3
=============================================================================

-------------------------- MODULE TilingTreeProofs --------------------------
(*****************************************************************************)
(* What the operations on one tree preserve, for trees of any size and any   *)
(* number of windows: a tree is a tree, its windows and its map agree, and   *)
(* its nodes hold what their kinds may hold (TreeOK).                        *)
(*                                                                           *)
(* TilingTree goes through sequences and rounds with recursive functions.    *)
(* Here such a definition is unrolled once: Recursion gives the results      *)
(* after each of its steps, and an invariant goes from one to the next by    *)
(* induction over their number.                                              *)
(*                                                                           *)
(* Each operation has a lemma that says what it makes of a sound tree. The   *)
(* one about normalize says that it ends in a sound tree or never: on the    *)
(* way a container may miss its only child (Broken), and while one does the  *)
(* loop does not end.                                                        *)
(*****************************************************************************)
EXTENDS TilingProperties, FiniteSetTheorems, FunctionTheorems, WellFoundedInduction,
        SequenceTheorems, TLAPS

-----------------------------------------------------------------------------
(* Numbers and sequences *)

\* A non-empty set of natural numbers has a least one.
LEMMA LeastNatural ==
  ASSUME NEW S \in SUBSET Nat, S # {}
  PROVE  \E n \in S : \A m \in S : n <= m
<1>1. PICK n \in S : \A m \in S : ~(<<m, n>> \in OpToRel(<, Nat))
  BY NatLessThanWellFounded, WFMin
<1>2. ASSUME NEW m \in S PROVE n <= m
  <2>1. n \in Nat /\ m \in Nat
    OBVIOUS
  <2>2. ~(m < n)
    BY <1>1, <2>1 DEF OpToRel
  <2> QED BY <2>1, <2>2
<1> QED BY <1>2

\* Induction over the natural numbers, for a set.
LEMMA Induction ==
  ASSUME NEW S, 0 \in S, \A n \in Nat : n \in S => n + 1 \in S
  PROVE  Nat \subseteq S
<1> SUFFICES ASSUME Nat \ S # {} PROVE FALSE
  OBVIOUS
<1>1. PICK n \in Nat \ S : \A m \in Nat \ S : n <= m
  BY LeastNatural
<1>2. n # 0 /\ n - 1 \in Nat /\ n - 1 \in S
  BY <1>1
<1> QED BY <1>1, <1>2

\* Induction up to a bound
LEMMA BoundedInduction ==
  ASSUME NEW m \in Nat, NEW S, 0 \in S, \A n \in 0..m : n < m /\ n \in S => n + 1 \in S
  PROVE  0..m \subseteq S
<1> DEFINE R == {n \in Nat : n <= m => n \in S}
<1>1. 0 \in R
  OBVIOUS
<1>2. \A n \in Nat : n \in R => n + 1 \in R
  OBVIOUS
<1>3. Nat \subseteq R
  <2> HIDE DEF R
  <2> QED BY <1>1, <1>2, Induction
<1> QED BY <1>3

\* The functions that next makes of v0 in n steps
Runs(V, n, v0, next) ==
  {g \in [0..n -> V] : g[0] = v0 /\ \A i \in 1..n : g[i] = next[i][g[i - 1]]}

\* Applying functions one after the other, there is what each of them makes of
\* the result before it.
LEMMA Recursion ==
  ASSUME NEW V, NEW n \in Nat, NEW v0 \in V, NEW next \in [1..n -> [V -> V]]
  PROVE  \E g : g \in Runs(V, n, v0, next)
<1> DEFINE S == {m \in 0..n : \E g : g \in Runs(V, m, v0, next)}
<1>1. 0 \in S
  <2> DEFINE g == [i \in 0..0 |-> v0]
  <2>1. g \in [0..0 -> V] /\ g[0] = v0 /\ \A i \in 1..0 : g[i] = next[i][g[i - 1]]
    OBVIOUS
  <2>2. g \in Runs(V, 0, v0, next)
    BY <2>1 DEF Runs
  <2> QED BY <2>2
<1>2. ASSUME NEW m \in 0..n, m < n, m \in S PROVE m + 1 \in S
  <2>1. PICK g : g \in Runs(V, m, v0, next)
    BY <1>2
  <2> DEFINE h == [i \in 0..(m + 1) |-> IF i = m + 1 THEN next[m + 1][g[m]] ELSE g[i]]
  <2>2. g \in [0..m -> V] /\ g[0] = v0 /\ \A i \in 1..m : g[i] = next[i][g[i - 1]]
    BY <2>1 DEF Runs
  <2>3. next[m + 1][g[m]] \in V
    <3>1. m + 1 \in 1..n
      BY <1>2
    <3>2. next[m + 1] \in [V -> V]
      BY <3>1
    <3>3. g[m] \in V
      BY <2>2
    <3> QED BY <3>1, <3>2, <3>3
  <2>4. h \in [0..(m + 1) -> V] /\ h[0] = v0
    BY <2>2, <2>3
  <2>5. ASSUME NEW i \in 1..(m + 1) PROVE h[i] = next[i][h[i - 1]]
    <3>1. CASE i = m + 1
      <4>1. h[i] = next[m + 1][g[m]] /\ h[i - 1] = g[m]
        BY <3>1
      <4> QED BY <3>1, <4>1
    <3>2. CASE i # m + 1
      <4>1. h[i] = g[i] /\ h[i - 1] = g[i - 1] /\ i \in 1..m
        BY <3>2
      <4> QED BY <2>2, <4>1
    <3> QED BY <3>1, <3>2
  <2>6. h \in Runs(V, m + 1, v0, next) /\ m + 1 \in 0..n
    <3> HIDE DEF h
    <3> QED BY <1>2, <2>4, <2>5 DEF Runs
  <2> HIDE DEF h
  <2> QED BY <2>6
<1>3. 0..n \subseteq S
  <2> HIDE DEF S
  <2> QED BY <1>1, <1>2, BoundedInduction
<1> QED BY <1>3

\* What holds at the start and is kept by each step
LEMMA Steps ==
  ASSUME NEW V, NEW n \in Nat, NEW f, f[0] \in V,
         \A i \in 1..n : f[i - 1] \in V => f[i] \in V
  PROVE  \A i \in 0..n : f[i] \in V
<1> DEFINE S == {i \in 0..n : f[i] \in V}
<1>1. 0 \in S
  OBVIOUS
<1>2. ASSUME NEW i \in 0..n, i < n, i \in S PROVE i + 1 \in S
  <2>1. i + 1 \in 1..n /\ (i + 1) - 1 = i
    BY <1>2
  <2> QED BY <1>2, <2>1
<1>3. 0..n \subseteq S
  <2> HIDE DEF S
  <2> QED BY <1>1, <1>2, BoundedInduction
<1> QED BY <1>3

\* What is left of s after each of its elements, up to Minus(s, S)
MinusRuns(T, s, S) ==
  {g \in [0..Len(s) -> Seq(T)] :
     /\ g[0] = <<>>
     /\ \A i \in 1..Len(s) :
          g[i] = IF s[i] \in S THEN g[i - 1] ELSE Append(g[i - 1], s[i])
     /\ Minus(s, S) = g[Len(s)]}

\* Minus goes through s as it says.
LEMMA MinusSteps ==
  ASSUME NEW T, NEW s \in Seq(T), NEW S
  PROVE  \E g : g \in MinusRuns(T, s, S)
<1> DEFINE next == [i \in 1..Len(s) |-> [v \in Seq(T) |->
                      IF s[i] \in S THEN v ELSE Append(v, s[i])]]
           kept[i \in 0..Len(s)] ==
             IF i = 0 THEN <<>>
             ELSE IF s[i] \in S THEN kept[i - 1] ELSE Append(kept[i - 1], s[i])
           eq(h) == [i \in 0..Len(s) |->
             IF i = 0 THEN <<>>
             ELSE IF s[i] \in S THEN h[i - 1] ELSE Append(h[i - 1], s[i])]
<1>1. /\ next \in [1..Len(s) -> [Seq(T) -> Seq(T)]]
      /\ <<>> \in Seq(T) /\ Len(s) \in Nat
  BY AppendProperties, ElementOfSeq
<1>2. PICK g : g \in Runs(Seq(T), Len(s), <<>>, next)
  <2> HIDE DEF next
  <2> QED BY <1>1, Recursion
<1>3. /\ g \in [0..Len(s) -> Seq(T)] /\ g[0] = <<>>
      /\ \A i \in 1..Len(s) : g[i] = next[i][g[i - 1]]
  BY <1>2 DEF Runs
<1>4. ASSUME NEW i \in 1..Len(s)
      PROVE  g[i] = IF s[i] \in S THEN g[i - 1] ELSE Append(g[i - 1], s[i])
  <2>1. g[i - 1] \in Seq(T)
    BY <1>1, <1>3
  <2>2. \A v \in Seq(T) : next[i][v] = IF s[i] \in S THEN v ELSE Append(v, s[i])
    OBVIOUS
  <2> HIDE DEF next
  <2> QED BY <1>3, <2>1, <2>2
<1> HIDE DEF next
<1>5. g = eq(g)
  <2>1. ASSUME NEW i \in 0..Len(s)
        PROVE  g[i] = IF i = 0 THEN <<>>
                      ELSE IF s[i] \in S THEN g[i - 1] ELSE Append(g[i - 1], s[i])
    <3>1. i = 0 \/ i \in 1..Len(s)
      BY <1>1
    <3> QED BY <1>3, <1>4, <3>1
  <2> QED BY <1>3, <2>1
<1>6. kept = eq(kept)
  <2>1. \E h : h = eq(h)
    <3> HIDE DEF eq, kept
    <3> QED BY <1>5
  <2> QED BY <2>1, Zenon
<1>7. Minus(s, S) = kept[Len(s)]
  BY DEF Minus
<1> HIDE DEF kept
<1>8. /\ kept[0] = <<>>
      /\ \A i \in 1..Len(s) :
           kept[i] = IF s[i] \in S THEN kept[i - 1] ELSE Append(kept[i - 1], s[i])
  <2>1. 0 \in 0..Len(s) /\ \A i \in 1..Len(s) : i \in 0..Len(s) /\ i # 0
    BY <1>1
  <2> QED BY <1>6, <2>1
<1>9. \A i \in 0..Len(s) : kept[i] \in Seq(T)
  <2>1. \A i \in 1..Len(s) : kept[i - 1] \in Seq(T) => kept[i] \in Seq(T)
    <3> TAKE i \in 1..Len(s)
    <3> HAVE kept[i - 1] \in Seq(T)
    <3>1. s[i] \in T
      BY ElementOfSeq
    <3>2. Append(kept[i - 1], s[i]) \in Seq(T)
      BY <3>1, AppendProperties
    <3> QED BY <1>8, <3>2
  <2>2. kept[0] \in Seq(T)
    BY <1>1, <1>8
  <2> QED BY <1>1, <2>1, <2>2, Steps
<1>10. kept \in [0..Len(s) -> Seq(T)]
  BY <1>6, <1>9
<1>11. kept \in MinusRuns(T, s, S)
  BY <1>7, <1>8, <1>10 DEF MinusRuns
<1> QED BY <1>11

\* What Append does to the elements
LEMMA AppendElements ==
  ASSUME NEW T, NEW s \in Seq(T), NEW e \in T
  PROVE  /\ Append(s, e) \in Seq(T)
         /\ ToSet(Append(s, e)) = ToSet(s) \cup {e}
         /\ IsInjective(s) /\ e \notin ToSet(s) => IsInjective(Append(s, e))
<1>1. /\ Append(s, e) \in Seq(T) /\ DOMAIN Append(s, e) = 1..(Len(s) + 1)
      /\ \A i \in 1..Len(s) : Append(s, e)[i] = s[i]
      /\ Append(s, e)[Len(s) + 1] = e
      /\ DOMAIN s = 1..Len(s) /\ Len(s) \in Nat
  BY AppendProperties
<1>2. ToSet(Append(s, e)) = ToSet(s) \cup {e}
  BY <1>1 DEF ToSet
<1>3. ASSUME IsInjective(s), e \notin ToSet(s) PROVE IsInjective(Append(s, e))
  BY <1>1, <1>3 DEF ToSet, IsInjective
<1> QED BY <1>1, <1>2, <1>3

\* What concatenation does to the elements
LEMMA ConcatElements ==
  ASSUME NEW T, NEW s \in Seq(T), NEW u \in Seq(T)
  PROVE  /\ s \o u \in Seq(T)
         /\ ToSet(s \o u) = ToSet(s) \cup ToSet(u)
         /\ IsInjective(s) /\ IsInjective(u) /\ ToSet(s) \cap ToSet(u) = {}
              => IsInjective(s \o u)
<1>1. /\ s \o u \in Seq(T) /\ DOMAIN (s \o u) = 1..(Len(s) + Len(u))
      /\ \A i \in 1..(Len(s) + Len(u)) :
           (s \o u)[i] = IF i <= Len(s) THEN s[i] ELSE u[i - Len(s)]
      /\ DOMAIN s = 1..Len(s) /\ Len(s) \in Nat
      /\ DOMAIN u = 1..Len(u) /\ Len(u) \in Nat
  BY ConcatProperties, LenProperties
<1> DEFINE c == s \o u
<1>2. ToSet(c) = ToSet(s) \cup ToSet(u)
  <2>1. ToSet(c) \subseteq ToSet(s) \cup ToSet(u)
    BY <1>1 DEF ToSet
  <2>2. \A i \in DOMAIN s : i \in DOMAIN c /\ c[i] = s[i]
    BY <1>1
  <2>3. \A i \in DOMAIN u : i + Len(s) \in DOMAIN c /\ c[i + Len(s)] = u[i]
    BY <1>1
  <2>4. ToSet(s) \subseteq ToSet(c) /\ ToSet(u) \subseteq ToSet(c)
    <3> HIDE DEF c
    <3> QED BY <2>2, <2>3 DEF ToSet
  <2> QED BY <2>1, <2>4
<1>3. ASSUME IsInjective(s), IsInjective(u), ToSet(s) \cap ToSet(u) = {},
             NEW i \in DOMAIN c, NEW j \in DOMAIN c, c[i] = c[j]
      PROVE  i = j
  <2>1. i \in 1..(Len(s) + Len(u)) /\ j \in 1..(Len(s) + Len(u))
    BY <1>1
  <2>2. CASE i <= Len(s) /\ j <= Len(s)
    BY <1>1, <1>3, <2>1, <2>2 DEF IsInjective
  <2>3. CASE i > Len(s) /\ j > Len(s)
    <3>1. i - Len(s) \in DOMAIN u /\ j - Len(s) \in DOMAIN u
      BY <1>1, <2>1, <2>3
    <3>2. u[i - Len(s)] = u[j - Len(s)]
      BY <1>1, <1>3, <2>1, <2>3
    <3>3. i - Len(s) = j - Len(s)
      BY <1>3, <3>1, <3>2 DEF IsInjective
    <3> QED BY <1>1, <2>1, <3>3
  <2>4. CASE i <= Len(s) /\ j > Len(s)
    <3>1. i \in DOMAIN s /\ j - Len(s) \in DOMAIN u /\ c[i] = s[i] /\ c[j] = u[j - Len(s)]
      BY <1>1, <2>1, <2>4
    <3>2. c[i] \in ToSet(s) /\ c[i] \in ToSet(u)
      BY <1>3, <3>1 DEF ToSet
    <3> QED BY <1>3, <3>2
  <2>5. CASE i > Len(s) /\ j <= Len(s)
    <3>1. j \in DOMAIN s /\ i - Len(s) \in DOMAIN u /\ c[j] = s[j] /\ c[i] = u[i - Len(s)]
      BY <1>1, <2>1, <2>5
    <3>2. c[i] \in ToSet(s) /\ c[i] \in ToSet(u)
      BY <1>3, <3>1 DEF ToSet
    <3> QED BY <1>3, <3>2
  <2> QED BY <1>1, <2>1, <2>2, <2>3, <2>4, <2>5
<1> QED BY <1>1, <1>2, <1>3 DEF IsInjective

\* retain: the elements that are left, each as often as before
LEMMA MinusElements ==
  ASSUME NEW T, NEW s \in Seq(T), NEW S
  PROVE  /\ Minus(s, S) \in Seq(T)
         /\ ToSet(Minus(s, S)) = ToSet(s) \ S
         /\ IsInjective(s) => IsInjective(Minus(s, S))
<1>0. PICK g : g \in MinusRuns(T, s, S)
  BY MinusSteps
<1>1. /\ g \in [0..Len(s) -> Seq(T)]
      /\ g[0] = <<>>
      /\ \A i \in 1..Len(s) :
           g[i] = IF s[i] \in S THEN g[i - 1] ELSE Append(g[i - 1], s[i])
      /\ Minus(s, S) = g[Len(s)]
  BY <1>0 DEF MinusRuns
<1>2. Len(s) \in Nat /\ DOMAIN s = 1..Len(s) /\ \A i \in 1..Len(s) : s[i] \in T
  BY LenProperties
<1> DEFINE Good(i) == /\ ToSet(g[i]) = {s[j] : j \in 1..i} \ S
                      /\ IsInjective(s) => IsInjective(g[i])
           N == {i \in 0..Len(s) : Good(i)}
<1>3. 0 \in N
  BY <1>1, <1>2 DEF ToSet, IsInjective
<1>4. ASSUME NEW i \in 0..Len(s), i < Len(s), i \in N PROVE i + 1 \in N
  <2>1. /\ i + 1 \in 1..Len(s) /\ (i + 1) - 1 = i /\ g[i] \in Seq(T) /\ s[i + 1] \in T
        /\ g[i + 1] = IF s[i + 1] \in S THEN g[i] ELSE Append(g[i], s[i + 1])
    BY <1>1, <1>2, <1>4
  <2>2. {s[j] : j \in 1..(i + 1)} = {s[j] : j \in 1..i} \cup {s[i + 1]}
    BY <1>2, <2>1
  <2>3. ToSet(g[i + 1]) = {s[j] : j \in 1..(i + 1)} \ S
    BY <1>4, <2>1, <2>2, AppendElements
  <2>4. ASSUME IsInjective(s) PROVE IsInjective(g[i + 1])
    <3>1. s[i + 1] \notin {s[j] : j \in 1..i}
      BY <1>2, <2>1, <2>4 DEF IsInjective
    <3>2. CASE s[i + 1] \in S
      BY <1>4, <2>1, <2>4, <3>2
    <3>3. CASE s[i + 1] \notin S
      <4>1. IsInjective(g[i]) /\ s[i + 1] \notin ToSet(g[i])
        BY <1>4, <2>4, <3>1
      <4> QED BY <2>1, <3>3, <4>1, AppendElements
    <3> QED BY <3>2, <3>3
  <2> QED BY <2>1, <2>3, <2>4
<1>5. 0..Len(s) \subseteq N
  <2> HIDE DEF N
  <2> QED BY <1>2, <1>3, <1>4, BoundedInduction
<1>6. Good(Len(s)) /\ Minus(s, S) \in Seq(T)
  BY <1>1, <1>2, <1>5
<1>7. ToSet(s) = {s[j] : j \in 1..Len(s)}
  BY <1>2 DEF ToSet
<1> QED BY <1>1, <1>6, <1>7

\* The first n numbers
LEMMA OneTo ==
  ASSUME NEW n \in Nat
  PROVE  IsFiniteSet(1..n) /\ Cardinality(1..n) = n
<1>1. 1 \in Int /\ n \in Int
  OBVIOUS
<1>2. IsFiniteSet(1..n) /\ Cardinality(1..n) = IF 1 > n THEN 0 ELSE n - 1 + 1
  BY <1>1, FS_Interval
<1> QED BY <1>2

\* sort_by_key: the same elements, each as often as before
LEMMA SortedElements ==
  ASSUME NEW T, NEW s \in Seq(T), NEW keys \in [DOMAIN s -> Int]
  PROVE  /\ SortedBy(keys, s) \in Seq(T)
         /\ ToSet(SortedBy(keys, s)) = ToSet(s)
         /\ IsInjective(s) => IsInjective(SortedBy(keys, s))
<1> DEFINE D == DOMAIN s
           upto(j) == {k \in DOMAIN keys : keys[k] < keys[j] \/ (keys[k] = keys[j] /\ k <= j)}
           rank == [j \in D |-> Cardinality(upto(j))]
           at(i) == CHOOSE j \in DOMAIN keys : Cardinality(upto(j)) = i
<1>1. /\ Len(s) \in Nat /\ D = 1..Len(s) /\ \A i \in D : s[i] \in T
      /\ DOMAIN keys = D /\ \A i \in D : keys[i] \in Int
  BY LenProperties
<1>2. IsFiniteSet(D) /\ Cardinality(D) = Len(s)
  <2>1. IsFiniteSet(1..Len(s)) /\ Cardinality(1..Len(s)) = Len(s)
    BY <1>1, OneTo
  <2> QED BY <1>1, <2>1
<1>3. \A j \in D : /\ j \in upto(j) /\ upto(j) \subseteq D
                   /\ IsFiniteSet(upto(j)) /\ Cardinality(upto(j)) \in D
  <2> TAKE j \in D
  <2>1. j \in upto(j) /\ upto(j) \subseteq D
    BY <1>1
  <2> HIDE DEF upto
  <2>2. /\ IsFiniteSet(upto(j)) /\ Cardinality(upto(j)) \in Nat
        /\ Cardinality(upto(j)) <= Len(s) /\ Cardinality(upto(j)) # 0
    BY <1>2, <2>1, FS_Subset, FS_CardinalityType, FS_EmptySet
  <2> QED BY <1>1, <2>1, <2>2
<1>4. ASSUME NEW j \in D, NEW k \in D, rank[j] = rank[k] PROVE j = k
  <2>1. upto(j) \subseteq upto(k) \/ upto(k) \subseteq upto(j)
    BY <1>1
  <2>2. Cardinality(upto(j)) = Cardinality(upto(k))
    BY <1>4
  <2>3. upto(j) = upto(k)
    <3> HIDE DEF upto
    <3> QED BY <1>3, <2>1, <2>2, FS_Subset
  <2>4. j \in upto(k) /\ k \in upto(j)
    <3> HIDE DEF upto
    <3> QED BY <1>3, <2>3
  <2> QED BY <1>1, <2>4
<1>5. rank \in Injection(D, D)
  <2>1. rank \in [D -> D]
    BY <1>3
  <2> HIDE DEF rank
  <2> QED BY <1>4, <2>1, Fun_IsInj
<1>6. rank \in Surjection(D, D)
  <2> HIDE DEF rank
  <2> QED BY <1>2, <1>5, FS_Injection
<1>7. \A i \in D : \E j \in D : rank[j] = i
  <2> HIDE DEF rank
  <2> QED BY <1>6, Fun_SurjectionProperties
<1>8. \A i \in D : at(i) \in D /\ Cardinality(upto(at(i))) = i
  BY <1>1, <1>7
<1>9. \A j \in D : at(rank[j]) = j /\ rank[j] \in D
  <2> TAKE j \in D
  <2>1. rank[j] \in D
    BY <1>3
  <2>2. rank[at(rank[j])] = rank[j] /\ at(rank[j]) \in D
    BY <1>8, <2>1
  <2> HIDE DEF rank, at
  <2> QED BY <1>4, <2>1, <2>2
<1>10. SortedBy(keys, s) = [i \in D |-> s[at(i)]]
  BY DEF SortedBy
<1> HIDE DEF at, rank, upto
<1>11. \A i, j \in D : at(i) = at(j) => i = j
  BY <1>8
<1>12. SortedBy(keys, s) \in Seq(T)
  BY <1>1, <1>8, <1>10
<1>13. ToSet(SortedBy(keys, s)) = ToSet(s)
  BY <1>8, <1>9, <1>10 DEF ToSet
<1>14. IsInjective(s) => IsInjective(SortedBy(keys, s))
  BY <1>8, <1>10, <1>11 DEF IsInjective
<1> QED BY <1>12, <1>13, <1>14

-----------------------------------------------------------------------------
(* Trees, and the walk through them *)

\* Functions from a part of S to T
Partial(S, T) == UNION {[D -> T] : D \in SUBSET S}

\* What it is to be one of them
LEMMA PartialFunction ==
  ASSUME NEW S, NEW T, NEW f
  PROVE  f \in Partial(S, T) <=> DOMAIN f \subseteq S /\ f \in [DOMAIN f -> T]
BY DEF Partial

\* The types of the nodes and trees
NodeSet ==
  [parent : Nat \cup {None}, children : Seq(Nat), kind : {"Leaf", "Stack", "Split"},
   temporal : BOOLEAN, priority : Int, condition : {None} \cup SUBSET (Nat \X BOOLEAN),
   max : Nat \cup {None}, policy : {"Manual", "Auto", "AutoWhenOverflow"},
   windows : Seq(Window), active : Window \cup {None}]

TreeSet ==
  [root : Nat, next : Nat, nodes : Partial(Nat, NodeSet), at : Partial(Window, Nat),
   time : Partial(Window, Int), floating : SUBSET Window, endless : BOOLEAN]

\* A tree that may still lack the links, the windows and the map of a sound one
IsTree(t) ==
  /\ t \in TreeSet
  /\ Nodes(t) \subseteq 1..(t.next - 1)
  /\ DOMAIN t.time = DOMAIN t.at

\* What is known of a tree piece by piece
LEMMA TreeParts ==
  ASSUME NEW t, IsTree(t)
  PROVE  /\ t.root \in Nat /\ t.next \in Nat /\ t.endless \in BOOLEAN
         /\ t.nodes \in [Nodes(t) -> NodeSet] /\ Nodes(t) \subseteq Nat
         /\ Nodes(t) \subseteq 1..(t.next - 1)
         /\ t.at \in [DOMAIN t.at -> Nat] /\ DOMAIN t.at \subseteq Window
         /\ t.time \in [DOMAIN t.at -> Int] /\ DOMAIN t.time = DOMAIN t.at
         /\ t.floating \subseteq Window
         /\ IsFiniteSet(Nodes(t)) /\ Cardinality(Nodes(t)) \in Nat
<1>1. /\ t.root \in Nat /\ t.next \in Nat /\ t.endless \in BOOLEAN
      /\ t.nodes \in Partial(Nat, NodeSet)
      /\ t.at \in Partial(Window, Nat) /\ t.time \in Partial(Window, Int)
      /\ t.floating \subseteq Window
      /\ Nodes(t) \subseteq 1..(t.next - 1) /\ DOMAIN t.time = DOMAIN t.at
  BY DEF IsTree, TreeSet
<1>2. /\ t.nodes \in [Nodes(t) -> NodeSet] /\ Nodes(t) \subseteq Nat
      /\ t.at \in [DOMAIN t.at -> Nat] /\ DOMAIN t.at \subseteq Window
      /\ t.time \in [DOMAIN t.at -> Int]
  BY <1>1, PartialFunction DEF Nodes
<1>3. IsFiniteSet(Nodes(t)) /\ Cardinality(Nodes(t)) \in Nat
  <2>1. 1 \in Int /\ t.next - 1 \in Int
    BY <1>1
  <2>2. IsFiniteSet(1..(t.next - 1))
    BY <2>1, FS_Interval
  <2> QED BY <1>1, <2>2, FS_Subset, FS_CardinalityType
<1> QED BY <1>1, <1>2, <1>3

\* The types of a node of a tree
LEMMA NodeParts ==
  ASSUME NEW t, IsTree(t), NEW n \in Nodes(t)
  PROVE  /\ n \in Nat /\ n < t.next /\ t.nodes[n] \in NodeSet
         /\ t.nodes[n].parent \in Nat \cup {None} /\ t.nodes[n].children \in Seq(Nat)
         /\ t.nodes[n].kind \in {"Leaf", "Stack", "Split"}
         /\ t.nodes[n].priority \in Int
         /\ t.nodes[n].windows \in Seq(Window) /\ t.nodes[n].active \in Window \cup {None}
<1>1. n \in Nat /\ n < t.next /\ t.nodes[n] \in NodeSet
  BY TreeParts
<1> QED BY <1>1 DEF NodeSet

\* A node is the child of one node, the one it names.
Links(t) ==
  \A n \in Nodes(t) :
    /\ IsInjective(t.nodes[n].children)
    /\ \A c \in ToSet(t.nodes[n].children) : c \in Nodes(t) => t.nodes[c].parent = n

\* Nodes are never above themselves.
Acyclic(t) == \A S \in SUBSET Nodes(t) : S # {} => \E n \in S : t.nodes[n].parent \notin S

\* Children and parents are there.
Closed(t) ==
  /\ \A n \in Nodes(t) :
       /\ \A c \in ToSet(t.nodes[n].children) : c \in Nodes(t)
       /\ IF n = t.root THEN t.nodes[n].parent = None
          ELSE /\ t.nodes[n].parent \in Nodes(t)
               /\ n \in ToSet(t.nodes[t.nodes[n].parent].children)

\* A tree in the sense of graphs
Skeleton(t) == Links(t) /\ Acyclic(t) /\ Closed(t)


\* A tree that has a node has its root.
LEMMA RootIsThere ==
  ASSUME NEW t, IsTree(t), Skeleton(t), Nodes(t) # {}
  PROVE  t.root \in Nodes(t)
<1>1. PICK n \in Nodes(t) : t.nodes[n].parent \notin Nodes(t)
  BY DEF Skeleton, Acyclic
<1> QED BY <1>1 DEF Skeleton, Closed

\* Sorting the children of a node neither adds nor loses one.
LEMMA ByPriorityElements ==
  ASSUME NEW t, IsTree(t), Skeleton(t), NEW n \in Nodes(t)
  PROVE  LET kids == t.nodes[n].children
         IN  /\ ByPriority(t, kids) \in Seq(Nat)
             /\ ToSet(ByPriority(t, kids)) = ToSet(kids)
             /\ IsInjective(ByPriority(t, kids))
<1> DEFINE kids == t.nodes[n].children
           keys == [i \in DOMAIN kids |-> t.nodes[kids[i]].priority]
<1>1. kids \in Seq(Nat)
  BY NodeParts
<1>2. keys \in [DOMAIN kids -> Int]
  BY <1>1, NodeParts DEF Skeleton, Closed, ToSet
<1>3. ByPriority(t, kids) = SortedBy(keys, kids)
  BY DEF ByPriority
<1>4. IsInjective(kids)
  BY DEF Skeleton, Links
<1> HIDE DEF keys, kids
<1> QED BY <1>1, <1>2, <1>3, <1>4, SortedElements DEF kids

\* Where a walk through a tree may be, and a walk up to Preorder(t)
States == [done : Seq(Nat), stack : Seq(Nat)]

\* A step of the walk leads to where a walk may be.
LEMMA VisitedType ==
  ASSUME NEW t, IsTree(t), Skeleton(t), NEW s \in States
  PROVE  Visited(t, s) \in States
<1>1. s.done \in Seq(Nat) /\ s.stack \in Seq(Nat)
  BY DEF States
<1>2. CASE s.stack = <<>> \/ Head(s.stack) \notin Nodes(t)
  BY <1>2 DEF Visited, Nodes
<1>3. CASE ~(s.stack = <<>> \/ Head(s.stack) \notin Nodes(t))
  <2> DEFINE h == Head(s.stack)
             kids == t.nodes[h].children
  <2>1. h \in Nodes(t) /\ h \in Nat /\ Tail(s.stack) \in Seq(Nat)
    BY <1>1, <1>3, NodeParts, HeadTailProperties
  <2>2. ByPriority(t, kids) \in Seq(Nat)
    BY <2>1, ByPriorityElements
  <2>3. Append(s.done, h) \in Seq(Nat) /\ ByPriority(t, kids) \o Tail(s.stack) \in Seq(Nat)
    BY <1>1, <2>1, <2>2
  <2> QED BY <1>3, <2>3 DEF Visited, Nodes, States
<1> QED BY <1>2, <1>3

WalkRuns(t) ==
  {g \in [0..Cardinality(Nodes(t)) -> States] :
     /\ g[0] = [done |-> <<>>, stack |-> <<t.root>>]
     /\ \A k \in 1..Cardinality(Nodes(t)) : g[k] = Visited(t, g[k - 1])
     /\ Preorder(t) = g[Cardinality(Nodes(t))].done}

\* The walk through a tree goes as Preorder says.
LEMMA WalkSteps ==
  ASSUME NEW t, IsTree(t), Skeleton(t)
  PROVE  \E g : g \in WalkRuns(t)
<1> DEFINE size == Cardinality(Nodes(t))
           v0 == [done |-> <<>>, stack |-> <<t.root>>]
           next == [k \in 1..size |-> [s \in States |-> Visited(t, s)]]
           walk[k \in 0..size] == IF k = 0 THEN v0 ELSE Visited(t, walk[k - 1])
           eq(h) == [k \in 0..size |-> IF k = 0 THEN v0 ELSE Visited(t, h[k - 1])]
<1>1. size \in Nat /\ v0 \in States
  BY TreeParts DEF States
<1>2. Preorder(t) = walk[size].done
  BY DEF Preorder, Nodes
<1> HIDE DEF size, v0
<1>3. next \in [1..size -> [States -> States]]
  BY VisitedType
<1>4. PICK g : g \in Runs(States, size, v0, next)
  <2> HIDE DEF next
  <2> QED BY <1>1, <1>3, Recursion
<1>5. /\ g \in [0..size -> States] /\ g[0] = v0
      /\ \A k \in 1..size : g[k] = next[k][g[k - 1]]
  BY <1>4 DEF Runs
<1>6. ASSUME NEW k \in 1..size PROVE g[k] = Visited(t, g[k - 1])
  <2>1. g[k - 1] \in States
    BY <1>1, <1>5
  <2>2. \A s \in States : next[k][s] = Visited(t, s)
    OBVIOUS
  <2> HIDE DEF next
  <2> QED BY <1>5, <2>1, <2>2
<1> HIDE DEF next
<1>7. g = eq(g)
  <2>1. ASSUME NEW k \in 0..size
        PROVE  g[k] = IF k = 0 THEN v0 ELSE Visited(t, g[k - 1])
    <3>1. k = 0 \/ k \in 1..size
      BY <1>1
    <3> QED BY <1>5, <1>6, <3>1
  <2> QED BY <1>5, <2>1
<1>8. walk = eq(walk)
  <2>1. \E h : h = eq(h)
    <3> HIDE DEF eq, walk
    <3> QED BY <1>7
  <2> QED BY <2>1, Zenon
<1> HIDE DEF walk
<1>9. walk[0] = v0 /\ \A k \in 1..size : walk[k] = Visited(t, walk[k - 1])
  <2>1. 0 \in 0..size /\ \A k \in 1..size : k \in 0..size /\ k # 0
    BY <1>1
  <2> QED BY <1>8, <2>1
<1>10. walk \in [0..size -> States]
  <2>1. \A k \in 1..size : walk[k - 1] \in States => walk[k] \in States
    BY <1>9, VisitedType
  <2>2. \A k \in 0..size : walk[k] \in States
    BY <1>1, <1>9, <2>1, Steps
  <2> QED BY <1>8, <2>2
<1>11. walk \in WalkRuns(t)
  BY <1>2, <1>9, <1>10 DEF WalkRuns, size, v0
<1> QED BY <1>11

\* While the traversal is under way: what it has seen and what it will see
\* next are the root and the children of what it has seen.
WalkInv(t, s, k) ==
  /\ s \in States
  /\ IsInjective(s.done) /\ IsInjective(s.stack)
  /\ ToSet(s.done) \cap ToSet(s.stack) = {}
  /\ ToSet(s.done) \cup ToSet(s.stack) =
       {n \in Nodes(t) : n = t.root \/ t.nodes[n].parent \in ToSet(s.done)}
  /\ s.stack = <<>> \/ Len(s.done) = k

\* What a sequence with an element is made of
LEMMA HeadAndTail ==
  ASSUME NEW T, NEW s \in Seq(T), s # <<>>
  PROVE  /\ Head(s) \in T /\ Tail(s) \in Seq(T)
         /\ ToSet(s) = ToSet(Tail(s)) \cup {Head(s)}
         /\ IsInjective(s) => IsInjective(Tail(s)) /\ Head(s) \notin ToSet(Tail(s))
<1>1. /\ Head(s) \in T /\ Tail(s) \in Seq(T) /\ Len(s) \in Nat /\ Len(s) > 0
      /\ DOMAIN s = 1..Len(s) /\ Head(s) = s[1]
      /\ DOMAIN Tail(s) = 1..(Len(s) - 1)
      /\ \A i \in 1..(Len(s) - 1) : Tail(s)[i] = s[i + 1]
  BY HeadTailProperties, LenProperties, EmptySeq
<1>2. ToSet(s) = ToSet(Tail(s)) \cup {Head(s)}
  <2>1. ASSUME NEW i \in DOMAIN s PROVE s[i] \in ToSet(Tail(s)) \cup {Head(s)}
    <3>1. CASE i = 1
      BY <1>1, <3>1
    <3>2. CASE i # 1
      <4>1. i - 1 \in DOMAIN Tail(s) /\ Tail(s)[i - 1] = s[i]
        BY <1>1, <3>2
      <4> QED BY <4>1 DEF ToSet
    <3> QED BY <3>1, <3>2
  <2>2. ASSUME NEW i \in DOMAIN Tail(s) PROVE Tail(s)[i] \in ToSet(s)
    <3>1. i + 1 \in DOMAIN s /\ Tail(s)[i] = s[i + 1]
      BY <1>1
    <3> QED BY <3>1 DEF ToSet
  <2>3. Head(s) \in ToSet(s)
    BY <1>1 DEF ToSet
  <2> QED BY <2>1, <2>2, <2>3 DEF ToSet
<1>3. ASSUME IsInjective(s) PROVE IsInjective(Tail(s)) /\ Head(s) \notin ToSet(Tail(s))
  <2>1. \A i \in DOMAIN Tail(s) : i + 1 \in DOMAIN s /\ Tail(s)[i] = s[i + 1] /\ i \in Nat \ {0}
    BY <1>1
  <2>2. IsInjective(Tail(s))
    <3> SUFFICES ASSUME NEW i \in DOMAIN Tail(s), NEW j \in DOMAIN Tail(s), Tail(s)[i] = Tail(s)[j]
                 PROVE  i = j
      BY DEF IsInjective
    <3>1. i + 1 = j + 1
      BY <1>3, <2>1 DEF IsInjective
    <3> QED BY <2>1, <3>1
  <2>3. Head(s) \notin ToSet(Tail(s))
    <3> SUFFICES ASSUME NEW i \in DOMAIN Tail(s), Tail(s)[i] = Head(s) PROVE FALSE
      BY DEF ToSet
    <3>1. 1 \in DOMAIN s /\ i + 1 \in DOMAIN s /\ s[i + 1] = s[1]
      BY <1>1, <2>1
    <3>2. i + 1 = 1
      BY <1>3, <3>1 DEF IsInjective
    <3> QED BY <2>1, <3>2
  <2> QED BY <2>2, <2>3
<1> QED BY <1>1, <1>2, <1>3

\* One more node is visited: its children come next in its place.
LEMMA WalkStep ==
  ASSUME NEW t, IsTree(t), Skeleton(t), NEW s, NEW k \in Nat, WalkInv(t, s, k)
  PROVE  WalkInv(t, Visited(t, s), k + 1)
<1> DEFINE D == ToSet(s.done)
           K == ToSet(s.stack)
           h == Head(s.stack)
           kids == ByPriority(t, t.nodes[h].children)
           v == Visited(t, s)
<1>1. /\ s.done \in Seq(Nat) /\ s.stack \in Seq(Nat) /\ s \in States
      /\ IsInjective(s.done) /\ IsInjective(s.stack)
      /\ D \cap K = {}
      /\ D \cup K = {n \in Nodes(t) : n = t.root \/ t.nodes[n].parent \in D}
      /\ s.stack = <<>> \/ Len(s.done) = k
  BY DEF WalkInv, States
<1>2. CASE s.stack = <<>>
  BY <1>1, <1>2 DEF WalkInv, Visited
<1>3. CASE s.stack # <<>>
  <2>1. /\ h \in Nat /\ Tail(s.stack) \in Seq(Nat)
        /\ K = ToSet(Tail(s.stack)) \cup {h}
        /\ IsInjective(Tail(s.stack)) /\ h \notin ToSet(Tail(s.stack))
    BY <1>1, <1>3, HeadAndTail
  <2>2. h \in Nodes(t) /\ h \in K /\ h \notin D
    BY <1>1, <2>1
  <2>3. v = [done |-> Append(s.done, h), stack |-> kids \o Tail(s.stack)]
    BY <1>3, <2>2 DEF Visited, Nodes
  <2>4. /\ kids \in Seq(Nat) /\ IsInjective(kids)
        /\ ToSet(kids) = ToSet(t.nodes[h].children)
    BY <2>2, ByPriorityElements
  <2> HIDE DEF kids, h, v
  <2>5. ToSet(kids) = {n \in Nodes(t) : n # t.root /\ t.nodes[n].parent = h}
    <3>1. h # None
      BY <2>1, NoneAssumption
    <3>2. ASSUME NEW n \in ToSet(kids)
          PROVE  n \in Nodes(t) /\ n # t.root /\ t.nodes[n].parent = h
      BY <2>2, <2>4, <3>1, <3>2 DEF Skeleton, Closed, Links
    <3>3. ASSUME NEW n \in Nodes(t), n # t.root, t.nodes[n].parent = h PROVE n \in ToSet(kids)
      BY <2>4, <3>3 DEF Skeleton, Closed
    <3> QED BY <3>2, <3>3
  <2>6. ToSet(kids) \cap (D \cup K) = {}
    BY <1>1, <2>2, <2>5
  <2>7. /\ v.done \in Seq(Nat) /\ ToSet(v.done) = D \cup {h} /\ IsInjective(v.done)
        /\ Len(v.done) = k + 1
    BY <1>1, <1>3, <2>1, <2>2, <2>3, AppendElements, AppendProperties
  <2>8. /\ v.stack \in Seq(Nat)
        /\ ToSet(v.stack) = ToSet(kids) \cup (K \ {h}) /\ IsInjective(v.stack)
    <3>1. ToSet(kids) \cap ToSet(Tail(s.stack)) = {}
      BY <2>1, <2>6
    <3> DEFINE rest == Tail(s.stack)
    <3>2. rest \in Seq(Nat) /\ IsInjective(rest) /\ v.stack = kids \o rest
      BY <2>1, <2>3
    <3>3. ToSet(kids) \cap ToSet(rest) = {} /\ ToSet(rest) = K \ {h}
      BY <2>1, <3>1
    <3> HIDE DEF rest
    <3>4. /\ kids \o rest \in Seq(Nat) /\ ToSet(kids \o rest) = ToSet(kids) \cup ToSet(rest)
          /\ IsInjective(kids \o rest)
      BY <2>4, <3>2, <3>3, ConcatElements
    <3> QED BY <3>2, <3>3, <3>4
  <2>9. ToSet(v.done) \cap ToSet(v.stack) = {}
    BY <1>1, <2>2, <2>6, <2>7, <2>8
  <2>10. ToSet(v.done) \cup ToSet(v.stack) =
         {n \in Nodes(t) : n = t.root \/ t.nodes[n].parent \in ToSet(v.done)}
    <3>1. ToSet(v.done) \cup ToSet(v.stack) = D \cup K \cup ToSet(kids)
      BY <2>2, <2>7, <2>8
    <3> QED BY <1>1, <2>5, <2>7, <3>1
  <2>11. v \in States
    BY <2>3, <2>7, <2>8 DEF States
  <2> QED BY <2>7, <2>8, <2>9, <2>10, <2>11 DEF WalkInv, v
<1> QED BY <1>2, <1>3

\* A sequence without repetition is as long as it has elements.
LEMMA InjectiveLength ==
  ASSUME NEW T, NEW s \in Seq(T), IsInjective(s)
  PROVE  Len(s) \in Nat /\ Cardinality(ToSet(s)) = Len(s) /\ IsFiniteSet(ToSet(s))
<1>1. Len(s) \in Nat /\ DOMAIN s = 1..Len(s) /\ s \in [1..Len(s) -> ToSet(s)]
  BY LenProperties DEF ToSet
<1>2. s \in Bijection(1..Len(s), ToSet(s))
  <2>1. \A a, b \in 1..Len(s) : s[a] = s[b] => a = b
    BY <1>1 DEF IsInjective
  <2>2. \A e \in ToSet(s) : \E i \in 1..Len(s) : s[i] = e
    BY <1>1 DEF ToSet
  <2> QED BY <1>1, <2>1, <2>2, Fun_IsBij
<1>3. ExistsBijection(1..Len(s), ToSet(s))
  BY <1>2 DEF ExistsBijection
<1> QED BY <1>1, <1>3, FS_CountingElements, FS_NatBijection

\* TwmTreeIter visits every node once.
LEMMA PreorderVisitsEach ==
  ASSUME NEW t, IsTree(t), Skeleton(t)
  PROVE  /\ Preorder(t) \in Seq(Nat)
         /\ IsInjective(Preorder(t))
         /\ ToSet(Preorder(t)) = Nodes(t)
<1> DEFINE size == Cardinality(Nodes(t))
<1>1. PICK g : g \in WalkRuns(t)
  BY WalkSteps
<1>2. /\ g \in [0..size -> States] /\ g[0] = [done |-> <<>>, stack |-> <<t.root>>]
      /\ \A k \in 1..size : g[k] = Visited(t, g[k - 1])
      /\ Preorder(t) = g[size].done /\ size \in Nat
  BY <1>1, TreeParts DEF WalkRuns
<1>3. CASE Nodes(t) = {}
  <2>1. size = 0
    BY <1>3, FS_EmptySet
  <2>2. Preorder(t) = <<>>
    BY <1>2, <2>1
  <2> QED BY <1>3, <2>2 DEF ToSet, IsInjective
<1>4. CASE Nodes(t) # {}
  <2> DEFINE N == {k \in 0..size : WalkInv(t, g[k], k)}
  <2>1. 0 \in N
    <3>1. g[0].done = <<>> /\ g[0].stack = <<t.root>> /\ 0 \in 0..size
      BY <1>2
    <3>2. t.root \in Nodes(t) /\ t.root \in Nat
      BY <1>4, RootIsThere, TreeParts
    <3>3. /\ ToSet(g[0].done) = {} /\ ToSet(g[0].stack) = {t.root}
          /\ IsInjective(g[0].done) /\ IsInjective(g[0].stack) /\ Len(g[0].done) = 0
      BY <3>1 DEF ToSet, IsInjective
    <3>4. g[0] \in States
      BY <1>2, <3>1
    <3>5. WalkInv(t, g[0], 0)
      BY <3>2, <3>3, <3>4 DEF WalkInv
    <3> QED BY <3>1, <3>5
  <2>2. ASSUME NEW k \in 0..size, k < size, k \in N PROVE k + 1 \in N
    <3>1. k + 1 \in 1..size /\ (k + 1) - 1 = k /\ k + 1 \in 0..size /\ k \in Nat
      BY <1>2, <2>2
    <3>2. g[k + 1] = Visited(t, g[k])
      BY <1>2, <3>1
    <3> QED BY <2>2, <3>1, <3>2, WalkStep
  <2>3. 0..size \subseteq N
    <3> HIDE DEF N
    <3> QED BY <1>2, <2>1, <2>2, BoundedInduction
  <2>4. WalkInv(t, g[size], size)
    BY <1>2, <2>3
  <2> DEFINE s == g[size]
  <2>5. /\ s.done \in Seq(Nat) /\ IsInjective(s.done) /\ ToSet(s.done) \subseteq Nodes(t)
        /\ ToSet(s.done) \cup ToSet(s.stack) =
             {n \in Nodes(t) : n = t.root \/ t.nodes[n].parent \in ToSet(s.done)}
        /\ s.stack = <<>> \/ Len(s.done) = size
    BY <2>4 DEF WalkInv, States
  <2> HIDE DEF s
  <2>6. ToSet(s.done) = Nodes(t)
    <3>1. CASE s.stack = <<>>
      <4>1. ToSet(s.stack) = {}
        BY <3>1 DEF ToSet
      <4> SUFFICES ASSUME Nodes(t) \ ToSet(s.done) # {} PROVE FALSE
        BY <2>5
      <4>2. PICK n \in Nodes(t) \ ToSet(s.done) :
               t.nodes[n].parent \notin Nodes(t) \ ToSet(s.done)
        BY DEF Skeleton, Acyclic
      <4>3. n = t.root \/ t.nodes[n].parent \in Nodes(t)
        BY <4>2 DEF Skeleton, Closed
      <4> QED BY <2>5, <4>1, <4>2, <4>3
    <3>2. CASE Len(s.done) = size
      <4>1. Cardinality(ToSet(s.done)) = size
        BY <2>5, <3>2, InjectiveLength
      <4> QED BY <2>5, <4>1, TreeParts, FS_Subset
    <3> QED BY <2>5, <3>1, <3>2
  <2> QED BY <1>2, <2>5, <2>6 DEF s
<1> QED BY <1>3, <1>4

-----------------------------------------------------------------------------
(* Times and entries *)

\* The maximum of a finite set of integers
LEMMA MaxIsGreatest ==
  ASSUME NEW S, IsFiniteSet(S), S \in SUBSET Int, S # {}
  PROVE  Max(S) \in S /\ \A y \in S : Max(S) >= y
<1>1. PICK n \in Nat : ExistsSurjection(1..n, S)
  BY FS_NatSurjection
<1>2. PICK f : f \in Surjection(1..n, S)
  BY <1>1 DEF ExistsSurjection
<1>3. /\ f \in [1..n -> S] /\ \A y \in S : \E i \in 1..n : f[i] = y
  BY <1>2, Fun_SurjectionProperties
<1> DEFINE N == {i \in 0..n : i = 0 \/ \E j \in 1..i : \A k \in 1..i : f[j] >= f[k]}
<1>4. 0 \in N
  OBVIOUS
<1>5. ASSUME NEW i \in 0..n, i < n, i \in N PROVE i + 1 \in N
  <2>1. i + 1 \in 1..n /\ f[i + 1] \in Int /\ \A k \in 1..i : k \in 1..n /\ f[k] \in Int
    <3>1. i + 1 \in 1..n /\ \A k \in 1..i : k \in 1..n
      BY <1>5
    <3>2. \A k \in 1..n : f[k] \in Int
      BY <1>3
    <3> QED BY <3>1, <3>2
  <2>2. CASE i = 0
    <3>1. \A k \in 1..1 : f[1] >= f[k]
      BY <2>1, <2>2
    <3> QED BY <2>1, <2>2, <3>1
  <2>3. CASE i # 0
    <3>1. PICK j \in 1..i : \A k \in 1..i : f[j] >= f[k]
      BY <1>5, <2>3
    <3>2. CASE f[j] >= f[i + 1]
      <4>1. j \in 1..(i + 1) /\ \A k \in 1..(i + 1) : f[j] >= f[k]
        BY <3>1, <3>2
      <4> QED BY <2>1, <4>1
    <3>3. CASE ~(f[j] >= f[i + 1])
      <4>1. i + 1 \in 1..(i + 1) /\ \A k \in 1..(i + 1) : f[i + 1] >= f[k]
        <5>1. f[j] \in Int
          BY <2>1
        <5>2. \A k \in 1..i : f[i + 1] >= f[k]
          BY <2>1, <3>1, <3>3, <5>1
        <5>3. f[i + 1] >= f[i + 1] /\ i \in Nat
          BY <2>1
        <5> QED BY <5>2, <5>3
      <4> QED BY <2>1, <4>1
    <3> QED BY <3>2, <3>3
  <2> QED BY <2>2, <2>3
<1>6. 0..n \subseteq N
  <2> HIDE DEF N
  <2> QED BY <1>4, <1>5, BoundedInduction
<1>7. n \in N
  BY <1>6
<1>8. \E x \in S : \A y \in S : x >= y
  <2>1. n # 0
    <3>1. PICK y : y \in S
      OBVIOUS
    <3>2. PICK i \in 1..n : f[i] = y
      BY <1>3, <3>1
    <3> QED BY <3>2
  <2>2. PICK j \in 1..n : \A k \in 1..n : f[j] >= f[k]
    BY <1>7, <2>1
  <2> QED BY <1>3, <2>2
<1> QED BY <1>8 DEF Max

\* The time a window gets is an integer.
LEMMA NowIsInt ==
  ASSUME NEW t, IsTree(t)
  PROVE  Now(t) \in Int
<1> DEFINE S == Range(t.time) \cup {0}
<1>1. t.time \in [DOMAIN t.at -> Int] /\ DOMAIN t.at \subseteq Window
  BY TreeParts
<1>2. IsFiniteSet(DOMAIN t.at)
  BY <1>1, WindowAssumption, FS_Subset
<1>3. t.time \in Surjection(DOMAIN t.at, Range(t.time)) /\ Range(t.time) \subseteq Int
  BY <1>1, Fun_RangeProperties
<1>4. IsFiniteSet(Range(t.time))
  BY <1>2, <1>3, FS_Surjection
<1>5. IsFiniteSet(S) /\ S \subseteq Int /\ S # {}
  BY <1>3, <1>4, FS_AddElement
<1> HIDE DEF S
<1>6. Max(S) \in Int
  BY <1>5, MaxIsGreatest
<1> QED BY <1>6 DEF Now, S

\* Ranked changes the times alone.
LEMMA RankedFields ==
  ASSUME NEW t, t \in TreeSet
  PROVE  /\ Ranked(t) \in TreeSet
         /\ DOMAIN Ranked(t).time = DOMAIN t.time
         /\ Ranked(t).root = t.root /\ Ranked(t).next = t.next /\ Ranked(t).nodes = t.nodes
         /\ Ranked(t).at = t.at /\ Ranked(t).floating = t.floating
         /\ Ranked(t).endless = t.endless
<1> DEFINE rank(w) == Cardinality({s \in Range(t.time) : s <= t.time[w]})
           time == [w \in DOMAIN t.time |-> rank(w)]
<1>1. t.time \in [DOMAIN t.time -> Int] /\ DOMAIN t.time \subseteq Window
  BY PartialFunction DEF TreeSet
<1>2. IsFiniteSet(DOMAIN t.time)
  BY <1>1, WindowAssumption, FS_Subset
<1>3. IsFiniteSet(Range(t.time))
  <2>1. t.time \in Surjection(DOMAIN t.time, Range(t.time))
    BY <1>1, Fun_RangeProperties
  <2> QED BY <1>2, <2>1, FS_Surjection
<1>4. \A w \in DOMAIN t.time : rank(w) \in Int
  <2> TAKE w \in DOMAIN t.time
  <2> DEFINE S == {s \in Range(t.time) : s <= t.time[w]}
  <2>1. S \in SUBSET Range(t.time)
    OBVIOUS
  <2> HIDE DEF S
  <2>2. Cardinality(S) \in Nat
    BY <1>3, <2>1, FS_Subset, FS_CardinalityType
  <2> QED BY <2>2 DEF S
<1> HIDE DEF rank
<1>5. time \in Partial(Window, Int) /\ DOMAIN time = DOMAIN t.time
  BY <1>1, <1>4, PartialFunction
<1>6. Ranked(t) = [t EXCEPT !.time = time]
  BY DEF Ranked, rank, TreeSet
<1> HIDE DEF time
<1> QED BY <1>5, <1>6 DEF TreeSet

\* What the entry of one more window changes
LEMMA LocatedFields ==
  ASSUME NEW t, IsTree(t), NEW w \in Window, NEW n \in Nat
  PROVE  LET u == Located(t, w, n)
         IN  /\ u \in TreeSet
             /\ DOMAIN u.at = DOMAIN t.at \cup {w} /\ DOMAIN u.time = DOMAIN u.at
             /\ u.at[w] = n /\ \A v \in DOMAIN t.at \ {w} : u.at[v] = t.at[v]
             /\ u.floating = t.floating \ {w}
             /\ u.root = t.root /\ u.next = t.next /\ u.nodes = t.nodes
             /\ u.endless = t.endless
<1> DEFINE at == Inserted(t.at, w, n)
           time == Inserted(t.time, w, Now(t))
<1>1. /\ at \in Partial(Window, Nat) /\ DOMAIN at = DOMAIN t.at \cup {w}
      /\ at[w] = n /\ \A v \in DOMAIN t.at \ {w} : at[v] = t.at[v]
  BY TreeParts, PartialFunction DEF Inserted
<1>2. time \in Partial(Window, Int) /\ DOMAIN time = DOMAIN t.at \cup {w}
  <2>1. Now(t) \in Int
    BY NowIsInt
  <2> QED BY <2>1, TreeParts, PartialFunction DEF Inserted
<1>3. Located(t, w, n) = [t EXCEPT !.at = at, !.time = time, !.floating = t.floating \ {w}]
  BY DEF Located, IsTree, TreeSet
<1> HIDE DEF at, time
<1> QED BY <1>1, <1>2, <1>3 DEF TreeSet, IsTree

-----------------------------------------------------------------------------
(* Sound trees *)

\* What a node may hold: containers have children, leaves and stacks windows,
\* of which one is active.
NodeShape(node) ==
  /\ IF IsContainer(node) THEN node.windows = <<>> ELSE node.children = <<>>
  /\ node.kind = "Leaf" => Len(node.windows) <= 1
  /\ IF node.windows = <<>> THEN node.active = None ELSE node.active \in ToSet(node.windows)

Shapes(t) == \A n \in Nodes(t) : NodeShape(t.nodes[n])

\* The windows of a node are those the map leads from to it.
Agreement(t) ==
  /\ \A n \in Nodes(t) :
       /\ ToSet(t.nodes[n].windows) = {w \in DOMAIN t.at : t.at[w] = n}
       /\ IsInjective(t.nodes[n].windows)
  /\ t.floating \cap DOMAIN t.at = {}

Mapped(t) == \A w \in DOMAIN t.at : t.at[w] \in Nodes(t)

\* A sound tree
TreeOK(t) == IsTree(t) /\ Skeleton(t) /\ Shapes(t) /\ Agreement(t) /\ Mapped(t)

\* The windows of a tree, the floating ones included
Managed(t) == DOMAIN t.at \cup t.floating

\* The links of t and u are the same; so are the frames if the kinds and the
\* counters are, too.
SameLinks(t, u) ==
  /\ u.root = t.root /\ Nodes(u) = Nodes(t)
  /\ \A n \in Nodes(t) : /\ u.nodes[n].parent = t.nodes[n].parent
                         /\ u.nodes[n].children = t.nodes[n].children

SameFrame(t, u) ==
  /\ SameLinks(t, u)
  /\ u.next = t.next /\ u.endless = t.endless
  /\ \A n \in Nodes(t) : /\ u.nodes[n].kind = t.nodes[n].kind
                         /\ u.nodes[n].policy = t.nodes[n].policy

\* A tree whose links are unchanged stays one.
LEMMA SameLinksSkeleton ==
  ASSUME NEW t, NEW u, Skeleton(t), SameLinks(t, u)
  PROVE  Skeleton(u)
<1>1. Links(u)
  BY DEF Skeleton, SameLinks, Links
<1>2. Acyclic(u)
  <2> SUFFICES ASSUME NEW S \in SUBSET Nodes(u), S # {}
               PROVE  \E n \in S : u.nodes[n].parent \notin S
    BY DEF Acyclic
  <2>1. S \in SUBSET Nodes(t)
    BY DEF SameLinks
  <2>2. PICK n \in S : t.nodes[n].parent \notin S
    BY <2>1 DEF Skeleton, Acyclic
  <2> QED BY <2>1, <2>2 DEF SameLinks
<1>3. Closed(u)
  BY DEF Skeleton, SameLinks, Closed
<1> QED BY <1>1, <1>2, <1>3 DEF Skeleton

\* Changed windows in the same nodes
LEMMA NodeChanged ==
  ASSUME NEW node \in NodeSet, NEW ws \in Seq(Window), NEW a \in Window \cup {None},
         NEW k \in {"Leaf", "Stack", "Split"}
  PROVE  LET new == [node EXCEPT !.windows = ws, !.active = a, !.kind = k]
         IN  /\ new \in NodeSet
             /\ new.windows = ws /\ new.active = a /\ new.kind = k
             /\ new.parent = node.parent /\ new.children = node.children
             /\ new.priority = node.priority /\ new.policy = node.policy
BY DEF NodeSet

\* What one more window in a node changes
LEMMA PushFields ==
  ASSUME NEW t, IsTree(t), NEW w \in Window, NEW n \in Nodes(t)
  PROVE  LET u == Push(t, w, n)
         IN  /\ IsTree(u) /\ SameFrame(t, u)
             /\ DOMAIN u.at = DOMAIN t.at \cup {w}
             /\ u.at[w] = n /\ \A v \in DOMAIN t.at \ {w} : u.at[v] = t.at[v]
             /\ u.floating = t.floating \ {w}
             /\ \A m \in Nodes(t) \ {n} : u.nodes[m] = t.nodes[m]
             /\ u.nodes[n].windows = Append(t.nodes[n].windows, w)
             /\ u.nodes[n].active = w
<1> DEFINE node == t.nodes[n]
           new == [node EXCEPT !.windows = Append(node.windows, w), !.active = w]
           nodes == [t.nodes EXCEPT ![n] = new]
           l == Located(t, w, n)
           u == Push(t, w, n)
<1>1. node \in NodeSet /\ node.windows \in Seq(Window) /\ n \in Nat
  BY NodeParts
<1>2. /\ new \in NodeSet /\ new.windows = Append(node.windows, w) /\ new.active = w
      /\ new.parent = node.parent /\ new.children = node.children /\ new.kind = node.kind
      /\ new.policy = node.policy
  BY <1>1, AppendProperties DEF NodeSet
<1>3. t.nodes \in [Nodes(t) -> NodeSet] /\ Nodes(t) \subseteq Nat
  BY TreeParts
<1> HIDE DEF node, new
<1>4. /\ nodes \in Partial(Nat, NodeSet) /\ DOMAIN nodes = Nodes(t)
      /\ nodes[n] = new /\ \A m \in Nodes(t) \ {n} : nodes[m] = t.nodes[m]
  BY <1>2, <1>3, PartialFunction
<1>5. u = [l EXCEPT !.nodes = nodes]
  <2>1. l.nodes = t.nodes /\ l \in TreeSet
    BY <1>1, LocatedFields
  <2>2. u = [l EXCEPT !.nodes[n].windows = Append(@, w), !.nodes[n].active = w]
    BY DEF Push
  <2> QED BY <1>3, <2>1, <2>2 DEF TreeSet, node, new, Nodes
<1>6. /\ l \in TreeSet /\ DOMAIN l.at = DOMAIN t.at \cup {w} /\ DOMAIN l.time = DOMAIN l.at
      /\ l.at[w] = n /\ \A v \in DOMAIN t.at \ {w} : l.at[v] = t.at[v]
      /\ l.floating = t.floating \ {w} /\ l.root = t.root /\ l.next = t.next
      /\ l.endless = t.endless
  BY <1>1, LocatedFields
<1> HIDE DEF nodes, l
<1>7. /\ u \in TreeSet /\ u.nodes = nodes /\ u.at = l.at /\ u.time = l.time
      /\ u.floating = l.floating /\ u.root = l.root /\ u.next = l.next /\ u.endless = l.endless
  BY <1>4, <1>5, <1>6 DEF TreeSet
<1> HIDE DEF u
<1>8. Nodes(u) = Nodes(t)
  BY <1>4, <1>7 DEF Nodes
<1>9. IsTree(u)
  BY <1>6, <1>7, <1>8 DEF IsTree
<1>10. SameFrame(t, u)
  <2>1. \A m \in Nodes(t) :
          /\ u.nodes[m].parent = t.nodes[m].parent
          /\ u.nodes[m].children = t.nodes[m].children
          /\ u.nodes[m].kind = t.nodes[m].kind
          /\ u.nodes[m].policy = t.nodes[m].policy
    BY <1>2, <1>4, <1>7 DEF node
  <2> QED BY <1>6, <1>7, <1>8, <2>1 DEF SameFrame, SameLinks
<1> QED BY <1>2, <1>4, <1>6, <1>7, <1>9, <1>10 DEF u, node

\* A node that has room takes a window.
LEMMA PushOK ==
  ASSUME NEW t, TreeOK(t), NEW w \in Window, w \notin DOMAIN t.at, NEW n \in Nodes(t),
         t.nodes[n].kind # "Split", t.nodes[n].kind = "Leaf" => t.nodes[n].windows = <<>>
  PROVE  TreeOK(Push(t, w, n))
<1> DEFINE u == Push(t, w, n)
           old == t.nodes[n].windows
           new == u.nodes[n].windows
<1>1. /\ IsTree(u) /\ SameFrame(t, u)
      /\ DOMAIN u.at = DOMAIN t.at \cup {w}
      /\ u.at[w] = n /\ \A v \in DOMAIN t.at \ {w} : u.at[v] = t.at[v]
      /\ u.floating = t.floating \ {w}
      /\ \A m \in Nodes(t) \ {n} : u.nodes[m] = t.nodes[m]
      /\ new = Append(old, w)
      /\ u.nodes[n].active = w
  BY PushFields DEF TreeOK
<1>2. Nodes(u) = Nodes(t)
  BY <1>1 DEF SameFrame, SameLinks
<1>3. Skeleton(u)
  BY <1>1, SameLinksSkeleton DEF TreeOK, SameFrame
<1>4. /\ old \in Seq(Window) /\ ToSet(old) = {v \in DOMAIN t.at : t.at[v] = n}
      /\ IsInjective(old)
  BY NodeParts DEF TreeOK, Agreement
<1>5. /\ ToSet(new) = ToSet(old) \cup {w} /\ IsInjective(new) /\ new # <<>>
      /\ Len(new) = Len(old) + 1
  BY <1>1, <1>4, AppendElements, AppendProperties
<1> HIDE DEF u, old, new
<1>6. Shapes(u)
  <2> SUFFICES ASSUME NEW m \in Nodes(t) PROVE NodeShape(u.nodes[m])
    BY <1>2 DEF Shapes
  <2>1. CASE m # n
    BY <1>1, <2>1 DEF TreeOK, Shapes
  <2>2. CASE m = n
    <3>1. /\ u.nodes[n].kind = t.nodes[n].kind /\ u.nodes[n].children = t.nodes[n].children
          /\ NodeShape(t.nodes[n])
      BY <1>1 DEF SameFrame, SameLinks, TreeOK, Shapes
    <3>2. u.nodes[n].kind = "Leaf" => Len(new) <= 1
      BY <1>4, <1>5, <3>1 DEF old
    <3>3. u.nodes[n].children = <<>> /\ u.nodes[n].kind # "Split"
      BY <3>1 DEF NodeShape, IsContainer
    <3>4. u.nodes[n].active \in ToSet(new) /\ u.nodes[n].windows # <<>>
      BY <1>1, <1>5 DEF new
    <3> QED BY <2>2, <3>2, <3>3, <3>4 DEF NodeShape, IsContainer, new
  <2> QED BY <2>1, <2>2
<1>7. Agreement(u)
  <2>1. \A m \in Nodes(t) \ {n} :
          /\ ToSet(u.nodes[m].windows) = {v \in DOMAIN u.at : u.at[v] = m}
          /\ IsInjective(u.nodes[m].windows)
    BY <1>1 DEF TreeOK, Agreement
  <2>2. ToSet(new) = {v \in DOMAIN u.at : u.at[v] = n}
    BY <1>1, <1>4, <1>5
  <2>3. u.floating \cap DOMAIN u.at = {}
    BY <1>1 DEF TreeOK, Agreement
  <2> QED BY <1>2, <1>5, <2>1, <2>2, <2>3 DEF Agreement, new
<1>8. Mapped(u)
  BY <1>1, <1>2 DEF TreeOK, Mapped
<1> QED BY <1>1, <1>3, <1>6, <1>7, <1>8 DEF TreeOK, u

-----------------------------------------------------------------------------
(* Placing windows: reindex_windows and AddToTiled *)

\* What is found in an order is one of the nodes that were asked for.
LEMMA FirstOfIsThere ==
  ASSUME NEW order \in Seq(Nat), NEW ns
  PROVE  FirstOf(order, ns) = None \/ FirstOf(order, ns) \in ns \cap ToSet(order)
<1> DEFINE found == {i \in DOMAIN order : order[i] \in ns}
<1>1. CASE found = {}
  BY <1>1 DEF FirstOf
<1>2. CASE found # {}
  <2>1. found \in SUBSET Nat /\ found \subseteq DOMAIN order
    BY LenProperties
  <2>2. FirstOf(order, ns) = order[Min(found)]
    BY <1>2 DEF FirstOf
  <2>3. \A i \in found : order[i] \in ns /\ order[i] \in ToSet(order)
    BY DEF ToSet
  <2> HIDE DEF found
  <2>4. \E i \in found : \A j \in found : i <= j
    BY <1>2, <2>1, LeastNatural
  <2>5. Min(found) \in found
    BY <2>4 DEF Min
  <2> QED BY <2>2, <2>3, <2>5
<1> QED BY <1>1, <1>2

\* try_add_window never chooses a container, a leaf that is taken or a stack
\* the user has made.
LEMMA TargetHasRoom ==
  ASSUME NEW t, NEW order \in Seq(Nat), NEW ctx, Target(t, order, ctx) # None
  PROVE  LET n == Target(t, order, ctx)
         IN  /\ n \in Nodes(t) /\ t.nodes[n].kind \in {"Leaf", "Stack"}
             /\ t.nodes[n].kind = "Leaf" => t.nodes[n].windows = <<>>
             /\ ~IsKept(t.nodes[n])
<1> DEFINE ns == {m \in DOMAIN t.nodes : Accepts(t.nodes[m], ctx)}
           os == {m \in DOMAIN t.nodes : AcceptsOnOverflow(t.nodes[m], ctx)}
           n == Target(t, order, ctx)
<1>1. n = FirstOf(order, ns) \/ n = FirstOf(order, os)
  BY DEF Target
<1>2. n \in ns \/ n \in os
  <2> HIDE DEF ns, os, n
  <2>1. n # None
    BY DEF n
  <2> QED BY <1>1, <2>1, FirstOfIsThere
<1> QED BY <1>2 DEF Accepts, AcceptsOnOverflow, Nodes, IsKept

\* A floating window leaves the nodes alone.
LEMMA AddToFloatingOK ==
  ASSUME NEW t, IsTree(t), NEW w \in Window
  PROVE  LET u == AddToFloating(t, w)
         IN  /\ IsTree(u) /\ SameFrame(t, u)
             /\ u.nodes = t.nodes /\ u.at = t.at /\ u.floating = t.floating \cup {w}
             /\ TreeOK(t) /\ w \notin DOMAIN t.at => TreeOK(u)
<1> DEFINE u == AddToFloating(t, w)
<1>1. /\ u \in TreeSet /\ u.nodes = t.nodes /\ u.at = t.at /\ u.floating = t.floating \cup {w}
      /\ u.root = t.root /\ u.next = t.next /\ u.endless = t.endless /\ u.time = t.time
  BY DEF AddToFloating, IsTree, TreeSet
<1> HIDE DEF u
<1>2. Nodes(u) = Nodes(t)
  BY <1>1 DEF Nodes
<1>3. IsTree(u) /\ SameFrame(t, u)
  BY <1>1, <1>2 DEF IsTree, SameFrame, SameLinks
<1>4. ASSUME TreeOK(t), w \notin DOMAIN t.at PROVE TreeOK(u)
  <2>1. Skeleton(u)
    BY <1>3, <1>4, SameLinksSkeleton DEF TreeOK, SameFrame
  <2>2. Shapes(u) /\ Mapped(u)
    BY <1>1, <1>2, <1>4 DEF TreeOK, Shapes, Mapped
  <2>3. Agreement(u)
    BY <1>1, <1>2, <1>4 DEF TreeOK, Agreement
  <2> QED BY <1>3, <2>1, <2>2, <2>3 DEF TreeOK
<1> QED BY <1>1, <1>3, <1>4 DEF u

\* Ranking the times leaves a tree sound.
LEMMA RankedOK ==
  ASSUME NEW t, IsTree(t)
  PROVE  LET u == Ranked(t)
         IN  /\ IsTree(u) /\ SameFrame(t, u)
             /\ u.nodes = t.nodes /\ u.at = t.at /\ u.floating = t.floating
             /\ TreeOK(t) => TreeOK(u)
<1> DEFINE u == Ranked(t)
<1>1. /\ u \in TreeSet /\ u.nodes = t.nodes /\ u.at = t.at /\ u.floating = t.floating
      /\ u.root = t.root /\ u.next = t.next /\ u.endless = t.endless
      /\ DOMAIN u.time = DOMAIN t.time
  BY RankedFields DEF IsTree
<1> HIDE DEF u
<1>2. Nodes(u) = Nodes(t)
  BY <1>1 DEF Nodes
<1>3. IsTree(u) /\ SameFrame(t, u)
  BY <1>1, <1>2 DEF IsTree, SameFrame, SameLinks
<1>4. ASSUME TreeOK(t) PROVE TreeOK(u)
  <2>1. Skeleton(u)
    BY <1>3, <1>4, SameLinksSkeleton DEF TreeOK, SameFrame
  <2>2. Shapes(u) /\ Mapped(u) /\ Agreement(u)
    BY <1>1, <1>2, <1>4 DEF TreeOK, Shapes, Mapped, Agreement
  <2> QED BY <1>3, <2>1, <2>2 DEF TreeOK
<1> QED BY <1>1, <1>3, <1>4 DEF u

\* A tree on the way and how many windows have their place again
Placing == {so \in [tree : TreeSet, count : Nat] : IsTree(so.tree)}

\* One more window has its place again: the types
LEMMA PlacedNextType ==
  ASSUME NEW so \in Placing, NEW order \in Seq(Nat), NEW w \in Window
  PROVE  PlacedNext(so, order, w) \in Placing
<1> DEFINE n == Target(so.tree, order, <<so.count, TRUE>>)
<1>1. IsTree(so.tree) /\ so.count \in Nat
  BY DEF Placing
<1>2. CASE n = None
  <2>1. IsTree(AddToFloating(so.tree, w)) /\ AddToFloating(so.tree, w) \in TreeSet
    BY <1>1, AddToFloatingOK DEF IsTree
  <2> QED BY <1>1, <1>2, <2>1 DEF PlacedNext, Placing
<1>3. CASE n # None
  <2>1. n \in Nodes(so.tree)
    BY <1>3, TargetHasRoom
  <2>2. IsTree(Push(so.tree, w, n)) /\ Push(so.tree, w, n) \in TreeSet
    <3> HIDE DEF n
    <3> QED BY <1>1, <2>1, PushFields DEF IsTree
  <2> QED BY <1>1, <1>3, <2>2 DEF PlacedNext, Placing
<1> QED BY <1>2, <1>3

\* What holds of a tree while the windows ws of t are placed again, those up
\* to the i-th of them so far
PlacingInv(t, ws, so, i) ==
  LET u == so.tree
      rest == {ws[j] : j \in (i + 1)..Len(ws)}
  IN  /\ so \in Placing
      /\ TreeOK(u) /\ SameFrame(t, u)
      /\ DOMAIN u.at \cap rest = {}
      /\ Managed(u) \cup rest = Managed(t)
      /\ \A n \in Nodes(t) : IsKept(t.nodes[n]) => u.nodes[n] = t.nodes[n]

\* One more window has its place again: where the windows are
LEMMA PlacedNextInv ==
  ASSUME NEW t, TreeOK(t), NEW ws \in Seq(Window), IsInjective(ws), NEW order \in Seq(Nat),
         NEW so, NEW i \in 0..Len(ws), i < Len(ws), PlacingInv(t, ws, so, i)
  PROVE  PlacingInv(t, ws, PlacedNext(so, order, ws[i + 1]), i + 1)
<1> DEFINE u == so.tree
           w == ws[i + 1]
           n == Target(u, order, <<so.count, TRUE>>)
           v == PlacedNext(so, order, w)
           rest == {ws[j] : j \in (i + 1)..Len(ws)}
           left == {ws[j] : j \in (i + 2)..Len(ws)}
<1>1. /\ so \in Placing /\ TreeOK(u) /\ SameFrame(t, u)
      /\ DOMAIN u.at \cap rest = {} /\ Managed(u) \cup rest = Managed(t)
      /\ \A m \in Nodes(t) : IsKept(t.nodes[m]) => u.nodes[m] = t.nodes[m]
  BY DEF PlacingInv
<1>2. Len(ws) \in Nat /\ DOMAIN ws = 1..Len(ws) /\ i + 1 \in DOMAIN ws /\ w \in Window
  BY LenProperties, ElementOfSeq
<1>3. rest = left \cup {w} /\ w \notin left
  BY <1>2 DEF IsInjective
<1>4. v \in Placing
  BY <1>1, <1>2, PlacedNextType
<1>5. (i + 1) + 1 = i + 2
  BY <1>2
<1> HIDE DEF w, n, u
<1>6. w \notin DOMAIN u.at
  <2> HIDE DEF rest, left
  <2> QED BY <1>1, <1>3
<1>7. CASE n = None
  <2>1. v.tree = AddToFloating(u, w)
    BY <1>7 DEF PlacedNext, n, u
  <2>2. /\ TreeOK(v.tree) /\ SameFrame(u, v.tree) /\ v.tree.nodes = u.nodes
        /\ v.tree.at = u.at /\ v.tree.floating = u.floating \cup {w}
    <3>1. IsTree(u)
      BY <1>1 DEF TreeOK
    <3> QED BY <1>1, <1>2, <1>6, <2>1, <3>1, AddToFloatingOK
  <2> HIDE DEF v, rest, left
  <2>3. SameFrame(t, v.tree)
    BY <1>1, <2>2 DEF SameFrame, SameLinks
  <2>4. DOMAIN v.tree.at \cap left = {} /\ Managed(v.tree) \cup left = Managed(t)
    BY <1>1, <1>3, <2>2 DEF Managed
  <2> QED BY <1>1, <1>4, <1>5, <2>2, <2>3, <2>4 DEF PlacingInv, left, v, w
<1>8. CASE n # None
  <2>1. v.tree = Push(u, w, n)
    BY <1>8 DEF PlacedNext, n, u
  <2>2. /\ n \in Nodes(u) /\ u.nodes[n].kind \in {"Leaf", "Stack"}
        /\ u.nodes[n].kind = "Leaf" => u.nodes[n].windows = <<>>
        /\ ~IsKept(u.nodes[n])
    BY <1>8, TargetHasRoom DEF n
  <2>3. /\ IsTree(v.tree) /\ SameFrame(u, v.tree)
        /\ DOMAIN v.tree.at = DOMAIN u.at \cup {w}
        /\ v.tree.floating = u.floating \ {w}
        /\ \A m \in Nodes(u) \ {n} : v.tree.nodes[m] = u.nodes[m]
    BY <1>1, <1>2, <2>1, <2>2, PushFields DEF TreeOK
  <2>4. TreeOK(v.tree)
    BY <1>1, <1>2, <1>6, <2>1, <2>2, PushOK
  <2> HIDE DEF v, rest, left
  <2>5. SameFrame(t, v.tree) /\ Nodes(u) = Nodes(t)
    BY <1>1, <2>3 DEF SameFrame, SameLinks
  <2>6. DOMAIN v.tree.at \cap left = {} /\ Managed(v.tree) \cup left = Managed(t)
    BY <1>1, <1>3, <2>3 DEF Managed
  <2>7. \A m \in Nodes(t) : IsKept(t.nodes[m]) => v.tree.nodes[m] = t.nodes[m]
    BY <1>1, <2>2, <2>3, <2>5
  <2> QED BY <1>4, <1>5, <2>4, <2>5, <2>6, <2>7 DEF PlacingInv, left, v, w
<1> QED BY <1>7, <1>8

\* The windows that were taken from the nodes ns so far
DrainRuns(t, ns) ==
  {g \in [0..Len(ns) -> Seq(Window)] :
     /\ g[0] = <<>>
     /\ \A i \in 1..Len(ns) : g[i] = g[i - 1] \o t.nodes[ns[i]].windows
     /\ WindowsOf(t, ns) = g[Len(ns)]}

\* Taking them goes as WindowsOf says.
LEMMA DrainSteps ==
  ASSUME NEW t, IsTree(t), NEW ns \in Seq(Nat), ToSet(ns) \subseteq Nodes(t)
  PROVE  \E g : g \in DrainRuns(t, ns)
<1> DEFINE V == Seq(Window)
           next == [i \in 1..Len(ns) |-> [s \in V |-> s \o t.nodes[ns[i]].windows]]
           drained[i \in 0..Len(ns)] ==
             IF i = 0 THEN <<>> ELSE drained[i - 1] \o t.nodes[ns[i]].windows
           eq(h) == [i \in 0..Len(ns) |->
             IF i = 0 THEN <<>> ELSE h[i - 1] \o t.nodes[ns[i]].windows]
<1>1. /\ Len(ns) \in Nat /\ <<>> \in V
      /\ \A i \in 1..Len(ns) : t.nodes[ns[i]].windows \in V
  <2>1. Len(ns) \in Nat /\ \A i \in 1..Len(ns) : ns[i] \in Nodes(t)
    BY LenProperties DEF ToSet
  <2> QED BY <2>1, NodeParts
<1>2. \A i \in 1..Len(ns) : \A s \in V : s \o t.nodes[ns[i]].windows \in V
  BY <1>1, ConcatProperties
<1>3. WindowsOf(t, ns) = drained[Len(ns)]
  BY DEF WindowsOf
<1>4. next \in [1..Len(ns) -> [V -> V]]
  BY <1>2
<1> HIDE DEF V
<1>5. PICK g : g \in Runs(V, Len(ns), <<>>, next)
  <2> HIDE DEF next
  <2> QED BY <1>1, <1>4, Recursion
<1>6. /\ g \in [0..Len(ns) -> V] /\ g[0] = <<>>
      /\ \A i \in 1..Len(ns) : g[i] = next[i][g[i - 1]]
  BY <1>5 DEF Runs
<1>7. ASSUME NEW i \in 1..Len(ns) PROVE g[i] = g[i - 1] \o t.nodes[ns[i]].windows
  <2>1. g[i - 1] \in V
    BY <1>1, <1>6
  <2>2. \A s \in V : next[i][s] = s \o t.nodes[ns[i]].windows
    OBVIOUS
  <2> HIDE DEF next
  <2> QED BY <1>6, <2>1, <2>2
<1> HIDE DEF next
<1>8. g = eq(g)
  <2>1. ASSUME NEW i \in 0..Len(ns)
        PROVE  g[i] = IF i = 0 THEN <<>> ELSE g[i - 1] \o t.nodes[ns[i]].windows
    <3>1. i = 0 \/ i \in 1..Len(ns)
      BY <1>1
    <3> QED BY <1>6, <1>7, <3>1
  <2> QED BY <1>6, <2>1
<1>9. drained = eq(drained)
  <2>1. \E h : h = eq(h)
    <3> HIDE DEF eq, drained
    <3> QED BY <1>8
  <2> QED BY <2>1, Zenon
<1> HIDE DEF drained
<1>10. /\ drained[0] = <<>>
       /\ \A i \in 1..Len(ns) : drained[i] = drained[i - 1] \o t.nodes[ns[i]].windows
  <2>1. 0 \in 0..Len(ns) /\ \A i \in 1..Len(ns) : i \in 0..Len(ns) /\ i # 0
    BY <1>1
  <2> QED BY <1>9, <2>1
<1>11. drained \in [0..Len(ns) -> V]
  <2>1. \A i \in 1..Len(ns) : drained[i - 1] \in V => drained[i] \in V
    BY <1>2, <1>10
  <2>2. \A i \in 0..Len(ns) : drained[i] \in V
    BY <1>1, <1>10, <2>1, Steps
  <2> QED BY <1>9, <2>2
<1>12. drained \in DrainRuns(t, ns)
  BY <1>3, <1>10, <1>11 DEF DrainRuns, V
<1> QED BY <1>12

\* The windows of some nodes: those the map leads to these nodes, each once
LEMMA WindowsOfNodes ==
  ASSUME NEW t, IsTree(t), Agreement(t),
         NEW ns \in Seq(Nat), IsInjective(ns), ToSet(ns) \subseteq Nodes(t)
  PROVE  /\ WindowsOf(t, ns) \in Seq(Window)
         /\ ToSet(WindowsOf(t, ns)) = {w \in DOMAIN t.at : t.at[w] \in ToSet(ns)}
         /\ IsInjective(WindowsOf(t, ns))
<1>0. PICK g : g \in DrainRuns(t, ns)
  BY DrainSteps
<1>1. /\ g \in [0..Len(ns) -> Seq(Window)] /\ g[0] = <<>>
      /\ \A i \in 1..Len(ns) : g[i] = g[i - 1] \o t.nodes[ns[i]].windows
      /\ WindowsOf(t, ns) = g[Len(ns)]
  BY <1>0 DEF DrainRuns
<1>2. /\ Len(ns) \in Nat /\ DOMAIN ns = 1..Len(ns)
      /\ \A i \in 1..Len(ns) : ns[i] \in Nodes(t)
  BY LenProperties DEF ToSet
<1> DEFINE Good(i) ==
             /\ ToSet(g[i]) = {w \in DOMAIN t.at : \E j \in 1..i : t.at[w] = ns[j]}
             /\ IsInjective(g[i])
           N == {i \in 0..Len(ns) : Good(i)}
<1>3. 0 \in N
  BY <1>1, <1>2 DEF ToSet, IsInjective
<1>4. ASSUME NEW i \in 0..Len(ns), i < Len(ns), i \in N PROVE i + 1 \in N
  <2> DEFINE ws == t.nodes[ns[i + 1]].windows
  <2>1. /\ i + 1 \in 1..Len(ns) /\ (i + 1) - 1 = i /\ g[i] \in Seq(Window)
        /\ i + 1 \in 0..Len(ns)
        /\ g[i + 1] = g[i] \o ws
        /\ \A j \in 1..i : j \in 1..Len(ns) /\ j # i + 1
    <3>1. /\ i + 1 \in 1..Len(ns) /\ (i + 1) - 1 = i /\ i + 1 \in 0..Len(ns)
          /\ \A j \in 1..i : j \in 1..Len(ns) /\ j # i + 1
      BY <1>2, <1>4
    <3>2. g[i] \in Seq(Window)
      BY <1>1
    <3>3. g[i + 1] = g[i] \o ws
      BY <1>1, <3>1
    <3> QED BY <3>1, <3>2, <3>3
  <2>2. /\ ws \in Seq(Window) /\ ToSet(ws) = {w \in DOMAIN t.at : t.at[w] = ns[i + 1]}
        /\ IsInjective(ws)
    BY <1>2, <2>1, NodeParts DEF Agreement
  <2>3. /\ ToSet(g[i]) = {w \in DOMAIN t.at : \E j \in 1..i : t.at[w] = ns[j]}
        /\ IsInjective(g[i])
    BY <1>4
  <2>4. \A j \in 1..i : ns[j] # ns[i + 1]
    BY <1>2, <2>1 DEF IsInjective
  <2>5. ToSet(g[i]) \cap ToSet(ws) = {}
    BY <2>2, <2>3, <2>4
  <2> HIDE DEF ws
  <2>6. ToSet(g[i + 1]) = ToSet(g[i]) \cup ToSet(ws) /\ IsInjective(g[i + 1])
    BY <2>1, <2>2, <2>3, <2>5, ConcatElements
  <2>7. \A w \in DOMAIN t.at : (\E j \in 1..(i + 1) : t.at[w] = ns[j])
                               <=> (\E j \in 1..i : t.at[w] = ns[j]) \/ t.at[w] = ns[i + 1]
    BY <2>1
  <2> QED BY <2>1, <2>2, <2>3, <2>6, <2>7
<1>5. 0..Len(ns) \subseteq N
  <2> HIDE DEF N
  <2> QED BY <1>2, <1>3, <1>4, BoundedInduction
<1>6. Good(Len(ns)) /\ WindowsOf(t, ns) \in Seq(Window)
  BY <1>1, <1>2, <1>5
<1>7. \A w \in DOMAIN t.at : t.at[w] \in ToSet(ns) <=> \E j \in 1..Len(ns) : t.at[w] = ns[j]
  BY <1>2 DEF ToSet
<1> QED BY <1>1, <1>6, <1>7

\* The tree after each window that is placed again
PlacingRuns(start, order, ws) ==
  {g \in [0..Len(ws) -> Placing] :
     /\ g[0] = [tree |-> start, count |-> 0]
     /\ \A i \in 1..Len(ws) : g[i] = PlacedNext(g[i - 1], order, ws[i])}

\* The tree whose windows are placed again
Start(t, loose, ws) ==
  [Without(t, ToSet(ws)) EXCEPT !.nodes =
     [n \in DOMAIN @ |-> IF n \in loose THEN Emptied(@[n]) ELSE @[n]]]

\* Placing them goes as PlacedAgain says.
LEMMA PlacingSteps ==
  ASSUME NEW t, NEW order \in Seq(Nat), NEW loose, NEW ws \in Seq(Window),
         IsTree(Start(t, loose, ws))
  PROVE  \E g : /\ g \in PlacingRuns(Start(t, loose, ws), order, ws)
                /\ PlacedAgain(t, order, loose, ws) = Ranked(g[Len(ws)].tree)
<1> DEFINE start == Start(t, loose, ws)
           v0 == [tree |-> start, count |-> 0]
           next == [i \in 1..Len(ws) |-> [so \in Placing |-> PlacedNext(so, order, ws[i])]]
           placed[i \in 0..Len(ws)] ==
             IF i = 0 THEN v0 ELSE PlacedNext(placed[i - 1], order, ws[i])
           eq(h) == [i \in 0..Len(ws) |->
             IF i = 0 THEN v0 ELSE PlacedNext(h[i - 1], order, ws[i])]
<1>1. Len(ws) \in Nat /\ v0 \in Placing /\ \A i \in 1..Len(ws) : ws[i] \in Window
  BY LenProperties, ElementOfSeq DEF Placing, IsTree
<1>2. PlacedAgain(t, order, loose, ws) = Ranked(placed[Len(ws)].tree)
  BY DEF PlacedAgain, Start
<1> HIDE DEF v0
<1>3. \A i \in 1..Len(ws) : \A so \in Placing : PlacedNext(so, order, ws[i]) \in Placing
  BY <1>1, PlacedNextType
<1>4. next \in [1..Len(ws) -> [Placing -> Placing]]
  BY <1>3
<1>5. PICK g : g \in Runs(Placing, Len(ws), v0, next)
  <2> HIDE DEF next
  <2> QED BY <1>1, <1>4, Recursion
<1>6. /\ g \in [0..Len(ws) -> Placing] /\ g[0] = v0
      /\ \A i \in 1..Len(ws) : g[i] = next[i][g[i - 1]]
  BY <1>5 DEF Runs
<1>7. ASSUME NEW i \in 1..Len(ws) PROVE g[i] = PlacedNext(g[i - 1], order, ws[i])
  <2>1. g[i - 1] \in Placing
    BY <1>1, <1>6
  <2>2. \A so \in Placing : next[i][so] = PlacedNext(so, order, ws[i])
    OBVIOUS
  <2> HIDE DEF next
  <2> QED BY <1>6, <2>1, <2>2
<1> HIDE DEF next
<1>8. g = eq(g)
  <2>1. ASSUME NEW i \in 0..Len(ws)
        PROVE  g[i] = IF i = 0 THEN v0 ELSE PlacedNext(g[i - 1], order, ws[i])
    <3>1. i = 0 \/ i \in 1..Len(ws)
      BY <1>1
    <3> QED BY <1>6, <1>7, <3>1
  <2> QED BY <1>6, <2>1
<1>9. placed = eq(placed)
  <2>1. \E h : h = eq(h)
    <3> HIDE DEF eq, placed
    <3> QED BY <1>8
  <2> QED BY <2>1, Zenon
<1> HIDE DEF placed
<1>10. placed[0] = v0 /\ \A i \in 1..Len(ws) : placed[i] = PlacedNext(placed[i - 1], order, ws[i])
  <2>1. 0 \in 0..Len(ws) /\ \A i \in 1..Len(ws) : i \in 0..Len(ws) /\ i # 0
    BY <1>1
  <2> QED BY <1>9, <2>1
<1>11. placed \in [0..Len(ws) -> Placing]
  <2>1. \A i \in 1..Len(ws) : placed[i - 1] \in Placing => placed[i] \in Placing
    BY <1>3, <1>10
  <2>2. \A i \in 0..Len(ws) : placed[i] \in Placing
    BY <1>1, <1>10, <2>1, Steps
  <2> QED BY <1>9, <2>2
<1>12. placed \in PlacingRuns(start, order, ws)
  BY <1>10, <1>11 DEF PlacingRuns, v0
<1> QED BY <1>2, <1>12

\* What removing the entries of windows changes
LEMMA WithoutFields ==
  ASSUME NEW t, IsTree(t), NEW S
  PROVE  LET u == Without(t, S)
         IN  /\ u \in TreeSet
             /\ DOMAIN u.at = DOMAIN t.at \ S /\ DOMAIN u.time = DOMAIN u.at
             /\ \A v \in DOMAIN u.at : u.at[v] = t.at[v]
             /\ u.floating = t.floating /\ u.nodes = t.nodes
             /\ u.root = t.root /\ u.next = t.next /\ u.endless = t.endless
<1> DEFINE at == Restrict(t.at, DOMAIN t.at \ S)
           time == Restrict(t.time, DOMAIN t.at \ S)
<1>1. /\ at \in Partial(Window, Nat) /\ DOMAIN at = DOMAIN t.at \ S
      /\ \A v \in DOMAIN at : at[v] = t.at[v]
      /\ time \in Partial(Window, Int) /\ DOMAIN time = DOMAIN t.at \ S
  BY TreeParts, PartialFunction DEF Restrict
<1>2. Without(t, S) = [t EXCEPT !.at = at, !.time = time]
  BY TreeParts DEF Without, IsTree, TreeSet
<1> HIDE DEF at, time
<1> QED BY <1>1, <1>2 DEF IsTree, TreeSet

\* A tree that gives up the windows of some nodes is sound without them.
LEMMA StartOK ==
  ASSUME NEW t, TreeOK(t), NEW loose, NEW ws,
         ToSet(ws) = {w \in DOMAIN t.at : t.at[w] \in loose}
  PROVE  LET u == Start(t, loose, ws)
         IN  /\ TreeOK(u) /\ SameFrame(t, u)
             /\ DOMAIN u.at = DOMAIN t.at \ ToSet(ws) /\ u.floating = t.floating
             /\ \A n \in Nodes(t) \ loose : u.nodes[n] = t.nodes[n]
<1> DEFINE u == Start(t, loose, ws)
           x == Without(t, ToSet(ws))
           nodes == [n \in Nodes(t) |-> IF n \in loose THEN Emptied(t.nodes[n]) ELSE t.nodes[n]]
<1>1. /\ x \in TreeSet /\ DOMAIN x.at = DOMAIN t.at \ ToSet(ws) /\ DOMAIN x.time = DOMAIN x.at
      /\ \A v \in DOMAIN x.at : x.at[v] = t.at[v]
      /\ x.floating = t.floating /\ x.nodes = t.nodes
      /\ x.root = t.root /\ x.next = t.next /\ x.endless = t.endless
  BY WithoutFields DEF TreeOK
<1>2. \A n \in Nodes(t) : /\ t.nodes[n] \in NodeSet
                          /\ Emptied(t.nodes[n]) \in NodeSet
                          /\ Emptied(t.nodes[n]).windows = <<>> /\ Emptied(t.nodes[n]).active = None
                          /\ Emptied(t.nodes[n]).parent = t.nodes[n].parent
                          /\ Emptied(t.nodes[n]).children = t.nodes[n].children
                          /\ Emptied(t.nodes[n]).kind = t.nodes[n].kind
                          /\ Emptied(t.nodes[n]).policy = t.nodes[n].policy
  <2>1. ASSUME NEW node \in NodeSet
        PROVE  /\ Emptied(node) \in NodeSet
               /\ Emptied(node).windows = <<>> /\ Emptied(node).active = None
               /\ Emptied(node).parent = node.parent /\ Emptied(node).children = node.children
               /\ Emptied(node).kind = node.kind /\ Emptied(node).policy = node.policy
    <3> DEFINE new == [node EXCEPT !.windows = <<>>, !.active = None]
    <3>1. new.windows = <<>> /\ new.active = None /\ new.parent = node.parent
          /\ new.children = node.children /\ new.kind = node.kind /\ new.policy = node.policy
      BY DEF NodeSet
    <3>2. <<>> \in Seq(Window) /\ None \in Window \cup {None}
      OBVIOUS
    <3>3. \A e \in Seq(Window) : [node EXCEPT !.windows = e, !.active = None] \in NodeSet
      BY DEF NodeSet
    <3>4. new \in NodeSet
      BY <3>2, <3>3
    <3> QED BY <3>1, <3>4 DEF Emptied
  <2>2. \A n \in Nodes(t) : t.nodes[n] \in NodeSet
    BY NodeParts DEF TreeOK
  <2> QED BY <2>1, <2>2
<1>3. nodes \in Partial(Nat, NodeSet) /\ DOMAIN nodes = Nodes(t)
  <2>1. Nodes(t) \subseteq Nat
    BY TreeParts DEF TreeOK
  <2> QED BY <1>2, <2>1, PartialFunction
<1>4. u = [x EXCEPT !.nodes = nodes]
  BY <1>1 DEF Start, Nodes, TreeSet
<1>5. \A n \in Nodes(t) : /\ nodes[n].parent = t.nodes[n].parent
                          /\ nodes[n].children = t.nodes[n].children
                          /\ nodes[n].kind = t.nodes[n].kind
                          /\ nodes[n].policy = t.nodes[n].policy
                          /\ n \notin loose => nodes[n] = t.nodes[n]
                          /\ n \in loose => nodes[n].windows = <<>> /\ nodes[n].active = None
  BY <1>2
<1> HIDE DEF nodes, x
<1>6. /\ u \in TreeSet /\ u.nodes = nodes /\ u.at = x.at /\ u.time = x.time
      /\ u.floating = x.floating /\ u.root = x.root /\ u.next = x.next /\ u.endless = x.endless
  BY <1>1, <1>3, <1>4 DEF TreeSet
<1> HIDE DEF u
<1>7. Nodes(u) = Nodes(t)
  BY <1>3, <1>6 DEF Nodes
<1>8. IsTree(u) /\ SameFrame(t, u)
  BY <1>1, <1>5, <1>6, <1>7 DEF IsTree, SameFrame, SameLinks, TreeOK
<1>9. Skeleton(u)
  BY <1>8, SameLinksSkeleton DEF TreeOK, SameFrame
<1>10. Shapes(u)
  <2> SUFFICES ASSUME NEW n \in Nodes(t) PROVE NodeShape(nodes[n])
    BY <1>6, <1>7 DEF Shapes
  <2>1. NodeShape(t.nodes[n])
    BY DEF TreeOK, Shapes
  <2>2. CASE n \notin loose
    BY <1>5, <2>1, <2>2
  <2>3. CASE n \in loose
    <3>1. Len(nodes[n].windows) = 0
      BY <1>5, <2>3
    <3> QED BY <1>5, <2>1, <2>3, <3>1 DEF NodeShape, IsContainer
  <2> QED BY <2>2, <2>3
<1>11. DOMAIN u.at = {w \in DOMAIN t.at : t.at[w] \notin loose} /\ \A v \in DOMAIN u.at : u.at[v] = t.at[v]
  BY <1>1, <1>6
<1>12. Mapped(u)
  BY <1>7, <1>11 DEF TreeOK, Mapped
<1>13. Agreement(u)
  <2>1. u.floating \cap DOMAIN u.at = {}
    BY <1>1, <1>6, <1>11 DEF TreeOK, Agreement
  <2>2. ASSUME NEW n \in Nodes(t)
        PROVE  /\ ToSet(nodes[n].windows) = {w \in DOMAIN u.at : u.at[w] = n}
               /\ IsInjective(nodes[n].windows)
    <3>1. CASE n \notin loose
      BY <1>5, <1>11, <3>1 DEF TreeOK, Agreement
    <3>2. CASE n \in loose
      <4>1. nodes[n].windows = <<>>
        BY <1>5, <3>2
      <4>2. ToSet(<<>>) = {} /\ IsInjective(<<>>)
        BY DEF ToSet, IsInjective
      <4> QED BY <1>11, <3>2, <4>1, <4>2
    <3> QED BY <3>1, <3>2
  <2> QED BY <1>6, <1>7, <2>1, <2>2 DEF Agreement
<1> QED BY <1>1, <1>5, <1>6, <1>8, <1>9, <1>10, <1>12, <1>13 DEF TreeOK, u

Untouched(t, u) == \A n \in Nodes(t) : IsKept(t.nodes[n]) => u.nodes[n] = t.nodes[n]

\* Windows that are placed again are all still managed, and the kept stacks have
\* their own.
LEMMA PlacedAgainOK ==
  ASSUME NEW t, TreeOK(t), NEW order \in Seq(Nat),
         NEW loose, \A n \in Nodes(t) : IsKept(t.nodes[n]) => n \notin loose,
         NEW ws \in Seq(Window), IsInjective(ws),
         ToSet(ws) = {w \in DOMAIN t.at : t.at[w] \in loose}
  PROVE  LET u == PlacedAgain(t, order, loose, ws)
         IN  TreeOK(u) /\ SameFrame(t, u) /\ Managed(u) = Managed(t) /\ Untouched(t, u)
<1> DEFINE start == Start(t, loose, ws)
<1>1. /\ TreeOK(start) /\ SameFrame(t, start)
      /\ DOMAIN start.at = DOMAIN t.at \ ToSet(ws) /\ start.floating = t.floating
      /\ \A n \in Nodes(t) \ loose : start.nodes[n] = t.nodes[n]
  BY StartOK
<1>2. IsTree(start) /\ start \in TreeSet
  BY <1>1 DEF TreeOK, IsTree
<1>3. PICK g : /\ g \in PlacingRuns(start, order, ws)
               /\ PlacedAgain(t, order, loose, ws) = Ranked(g[Len(ws)].tree)
  BY <1>2, PlacingSteps
<1>4. /\ g[0] = [tree |-> start, count |-> 0] /\ g[0] \in Placing
      /\ \A i \in 1..Len(ws) : g[i] = PlacedNext(g[i - 1], order, ws[i])
  <2>1. Len(ws) \in Nat
    OBVIOUS
  <2> QED BY <1>3, <2>1 DEF PlacingRuns
<1> HIDE DEF start
<1> DEFINE N == {i \in 0..Len(ws) : PlacingInv(t, ws, g[i], i)}
<1>5. Len(ws) \in Nat /\ ToSet(ws) = {ws[j] : j \in 1..Len(ws)}
  BY LenProperties DEF ToSet
<1>6. 0 \in N
  <2>1. g[0].tree = start /\ 0 + 1 = 1 /\ 0 \in 0..Len(ws)
    BY <1>4, <1>5
  <2>2. DOMAIN start.at \cap ToSet(ws) = {} /\ Managed(start) \cup ToSet(ws) = Managed(t)
    BY <1>1 DEF Managed
  <2>3. \A n \in Nodes(t) : IsKept(t.nodes[n]) => start.nodes[n] = t.nodes[n]
    BY <1>1
  <2>4. PlacingInv(t, ws, g[0], 0)
    BY <1>1, <1>4, <1>5, <2>1, <2>2, <2>3 DEF PlacingInv
  <2> QED BY <2>1, <2>4
<1>7. ASSUME NEW i \in 0..Len(ws), i < Len(ws), i \in N PROVE i + 1 \in N
  <2>1. i + 1 \in 1..Len(ws) /\ (i + 1) - 1 = i /\ i + 1 \in 0..Len(ws)
    BY <1>5, <1>7
  <2>2. g[i + 1] = PlacedNext(g[i], order, ws[i + 1])
    BY <1>4, <2>1
  <2>3. PlacingInv(t, ws, g[i], i)
    BY <1>7
  <2>4. PlacingInv(t, ws, g[i + 1], i + 1)
    BY <1>7, <2>2, <2>3, PlacedNextInv
  <2> QED BY <2>1, <2>4
<1>8. 0..Len(ws) \subseteq N
  <2> HIDE DEF N
  <2> QED BY <1>5, <1>6, <1>7, BoundedInduction
<1>9. PlacingInv(t, ws, g[Len(ws)], Len(ws))
  BY <1>5, <1>8
<1> DEFINE v == g[Len(ws)].tree
<1>10. /\ TreeOK(v) /\ SameFrame(t, v) /\ Managed(v) = Managed(t)
       /\ \A n \in Nodes(t) : IsKept(t.nodes[n]) => v.nodes[n] = t.nodes[n]
  <2>1. {ws[j] : j \in (Len(ws) + 1)..Len(ws)} = {}
    BY <1>5
  <2> QED BY <1>9, <2>1 DEF PlacingInv
<1> HIDE DEF v
<1> DEFINE u == Ranked(v)
<1>11. /\ TreeOK(u) /\ SameFrame(v, u) /\ u.nodes = v.nodes /\ u.at = v.at
       /\ u.floating = v.floating
  <2>1. IsTree(v)
    BY <1>10 DEF TreeOK
  <2> QED BY <1>10, <2>1, RankedOK
<1> HIDE DEF u
<1>12. SameFrame(t, u) /\ Managed(u) = Managed(t) /\ Untouched(t, u)
  BY <1>10, <1>11 DEF SameFrame, SameLinks, Managed, Untouched
<1> QED BY <1>3, <1>11, <1>12 DEF u, v

\* The windows of the nodes that are not kept, each once, in some order
LEMMA ReindexOK ==
  ASSUME NEW t, TreeOK(t)
  PROVE  LET u == Reindex(t)
         IN  TreeOK(u) /\ SameFrame(t, u) /\ Managed(u) = Managed(t) /\ Untouched(t, u)
<1> DEFINE order == Preorder(t)
           kept == {n \in DOMAIN t.nodes : IsKept(t.nodes[n])}
           loose == Minus(order, kept)
           drained == WindowsOf(t, loose)
           keys == [i \in DOMAIN drained |-> t.time[drained[i]]]
           ws == OldestFirst(t, drained)
<1>1. IsTree(t) /\ Skeleton(t) /\ Agreement(t)
  BY DEF TreeOK
<1>2. order \in Seq(Nat) /\ IsInjective(order) /\ ToSet(order) = Nodes(t)
  BY <1>1, PreorderVisitsEach
<1> HIDE DEF order
<1>3. loose \in Seq(Nat) /\ IsInjective(loose) /\ ToSet(loose) = Nodes(t) \ kept
  BY <1>2, MinusElements
<1> HIDE DEF loose
<1>4. /\ drained \in Seq(Window) /\ IsInjective(drained)
      /\ ToSet(drained) = {w \in DOMAIN t.at : t.at[w] \in ToSet(loose)}
  BY <1>1, <1>3, WindowsOfNodes
<1> HIDE DEF drained
<1>5. keys \in [DOMAIN drained -> Int]
  BY <1>1, <1>4, TreeParts DEF ToSet
<1>6. ws = SortedBy(keys, drained)
  BY DEF OldestFirst
<1> HIDE DEF keys, ws
<1>7. ws \in Seq(Window) /\ IsInjective(ws) /\ ToSet(ws) = ToSet(drained)
  BY <1>4, <1>5, <1>6, SortedElements
<1>8. \A n \in Nodes(t) : IsKept(t.nodes[n]) => n \notin ToSet(loose)
  BY <1>3 DEF Nodes
<1>9. Reindex(t) = PlacedAgain(t, order, ToSet(loose), ws)
  BY DEF Reindex, ReindexIn, ReindexLoose, order, loose, drained, ws
<1> QED BY <1>2, <1>4, <1>7, <1>8, <1>9, PlacedAgainOK

-----------------------------------------------------------------------------
(* What normalize keeps *)

\* A window that is added leaves the tree as it was but for the windows that
\* are placed again.
LEMMA AddToTiledOK ==
  ASSUME NEW t, TreeOK(t), NEW w \in Window, w \notin DOMAIN t.at
  PROVE  LET u == AddToTiled(t, w)
         IN  /\ TreeOK(u) /\ SameFrame(t, u) /\ Untouched(t, u)
             /\ Managed(u) = Managed(t) \cup {w}
<1> DEFINE n == Target(t, Preorder(t), <<Cardinality(DOMAIN t.at), FALSE>>)
           u == AddToTiled(t, w)
<1>1. u = AddedAt(t, w, n) /\ IsTree(t) /\ Preorder(t) \in Seq(Nat)
  BY PreorderVisitsEach DEF AddToTiled, TreeOK
<1>2. CASE n = None
  <2>1. u = AddToFloating(t, w)
    BY <1>1, <1>2 DEF AddedAt
  <2> HIDE DEF u
  <2>2. /\ TreeOK(u) /\ SameFrame(t, u) /\ u.nodes = t.nodes
        /\ u.at = t.at /\ u.floating = t.floating \cup {w}
    <3> DEFINE v == AddToFloating(t, w)
    <3>1. IsTree(t)
      BY <1>1
    <3>2. /\ IsTree(v) /\ SameFrame(t, v)
          /\ v.nodes = t.nodes /\ v.at = t.at /\ v.floating = t.floating \cup {w}
          /\ TreeOK(t) /\ w \notin DOMAIN t.at => TreeOK(v)
      BY <3>1, AddToFloatingOK
    <3> HIDE DEF v
    <3> QED BY <2>1, <3>2 DEF v
  <2> QED BY <2>2 DEF Untouched, Managed, u
<1>3. CASE n # None
  <2> DEFINE p == Push(t, w, n)
  <2>1. u = Reindex(p)
    BY <1>1, <1>3 DEF AddedAt
  <2>2. /\ n \in Nodes(t) /\ t.nodes[n].kind \in {"Leaf", "Stack"}
        /\ t.nodes[n].kind = "Leaf" => t.nodes[n].windows = <<>>
        /\ ~IsKept(t.nodes[n])
    BY <1>1, <1>3, TargetHasRoom
  <2> HIDE DEF u, n
  <2>3. /\ SameFrame(t, p) /\ Managed(p) = Managed(t) \cup {w}
        /\ \A m \in Nodes(t) \ {n} : p.nodes[m] = t.nodes[m]
    BY <1>1, <2>2, PushFields DEF Managed
  <2>4. TreeOK(p)
    BY <2>2, PushOK
  <2> HIDE DEF p
  <2>5. TreeOK(u) /\ SameFrame(p, u) /\ Managed(u) = Managed(p) /\ Untouched(p, u)
    BY <2>1, <2>4, ReindexOK
  <2>6. SameFrame(t, u) /\ Untouched(t, u)
    BY <2>2, <2>3, <2>5 DEF SameFrame, SameLinks, Untouched
  <2> QED BY <2>3, <2>5, <2>6 DEF u
<1> QED BY <1>2, <1>3

\* What holds of a tree all the way through normalize, even if a node is lost
Sound(t) == IsTree(t) /\ Links(t) /\ Acyclic(t) /\ Shapes(t) /\ Agreement(t)

\* A container whose only child is gone
Waits(t, n) ==
  /\ IsContainer(t.nodes[n]) /\ Len(t.nodes[n].children) = 1
  /\ t.nodes[n].children[1] \notin Nodes(t)

Broken(t) == \E n \in Nodes(t) : Waits(t, n)

Normal(t) == Sound(t) /\ (Broken(t) \/ TreeOK(t))

\* What becomes of t when nodes are taken away: containers may become leaves
\* or stacks, but no others become containers, windows of one node stay with
\* one another and those of a kept stack have a kept stack, if they have a node.
Narrowed(t, u) ==
  /\ u.next = t.next /\ Nodes(u) \subseteq Nodes(t)
  /\ \A n \in Nodes(u) : IsContainer(u.nodes[n]) => IsContainer(t.nodes[n])
  /\ DOMAIN u.at = DOMAIN t.at /\ u.floating = t.floating
  /\ \A a, b \in DOMAIN t.at : t.at[a] = t.at[b] => u.at[a] = u.at[b]
  /\ \A a \in DOMAIN t.at :
       t.at[a] \notin Nodes(t) \/ IsKept(t.nodes[t.at[a]]) =>
         u.at[a] \notin Nodes(u) \/ IsKept(u.nodes[u.at[a]])

\* Narrowed is transitive
LEMMA NarrowedTwice ==
  ASSUME NEW t, NEW u, NEW v, Narrowed(t, u), Narrowed(u, v)
  PROVE  Narrowed(t, v)
<1>1. v.next = t.next /\ Nodes(v) \subseteq Nodes(t) /\ DOMAIN v.at = DOMAIN t.at
  BY DEF Narrowed
<1>2. v.floating = t.floating
  BY DEF Narrowed
<1>3. \A n \in Nodes(v) : IsContainer(v.nodes[n]) => IsContainer(t.nodes[n])
  BY DEF Narrowed
<1>4. \A a, b \in DOMAIN t.at : t.at[a] = t.at[b] => v.at[a] = v.at[b]
  BY DEF Narrowed
<1>5. \A a \in DOMAIN t.at :
       t.at[a] \notin Nodes(t) \/ IsKept(t.nodes[t.at[a]]) =>
         v.at[a] \notin Nodes(v) \/ IsKept(v.nodes[v.at[a]])
  BY DEF Narrowed
<1> QED BY <1>1, <1>2, <1>3, <1>4, <1>5 DEF Narrowed

\* and reflexive.
LEMMA NarrowedSame ==
  ASSUME NEW t
  PROVE  Narrowed(t, t)
BY DEF Narrowed

\* The relation between parents and nodes stays acyclic when nodes go.
LEMMA AcyclicFewer ==
  ASSUME NEW t, NEW u, Acyclic(t), Nodes(u) \subseteq Nodes(t),
         \A n \in Nodes(u) : u.nodes[n].parent = t.nodes[n].parent
  PROVE  Acyclic(u)
BY DEF Acyclic

\* A sequence without elements is empty.
LEMMA NoElements ==
  ASSUME NEW T, NEW s \in Seq(T), ToSet(s) = {}
  PROVE  s = <<>>
<1>1. s # <<>> => 1 \in DOMAIN s
  BY EmptySeq, LenProperties
<1> QED BY <1>1 DEF ToSet

\* Dropping nodes that hold nothing
LEMMA DroppedOK ==
  ASSUME NEW t, Normal(t), NEW ns \in SUBSET Nodes(t),
         \A n \in ns : t.nodes[n].children = <<>> /\ t.nodes[n].windows = <<>>
  PROVE  LET u == Dropped(t, ns)
         IN  /\ Normal(u) /\ Narrowed(t, u) /\ u.endless = t.endless
             /\ Nodes(u) = Nodes(t) \ ns
<1> DEFINE u == Dropped(t, ns)
           few(n) == [t.nodes[n] EXCEPT !.children = Minus(t.nodes[n].children, ns)]
           nodes == [n \in Nodes(t) \ ns |-> few(n)]
<1>1. Sound(t) /\ IsTree(t)
  BY DEF Normal, Sound
<1>2. \A n \in Nodes(t) \ ns :
        /\ few(n) \in NodeSet
        /\ few(n).children = Minus(t.nodes[n].children, ns)
        /\ few(n).children \in Seq(Nat)
        /\ ToSet(few(n).children) = ToSet(t.nodes[n].children) \ ns
        /\ IsInjective(few(n).children)
        /\ few(n).parent = t.nodes[n].parent /\ few(n).kind = t.nodes[n].kind
        /\ few(n).policy = t.nodes[n].policy
        /\ few(n).windows = t.nodes[n].windows /\ few(n).active = t.nodes[n].active
  <2> TAKE n \in Nodes(t) \ ns
  <2>1. t.nodes[n] \in NodeSet /\ t.nodes[n].children \in Seq(Nat) /\ IsInjective(t.nodes[n].children)
    BY <1>1, NodeParts DEF Sound, Links
  <2>2. /\ Minus(t.nodes[n].children, ns) \in Seq(Nat)
        /\ ToSet(Minus(t.nodes[n].children, ns)) = ToSet(t.nodes[n].children) \ ns
        /\ IsInjective(Minus(t.nodes[n].children, ns))
    BY <2>1, MinusElements
  <2>3. few(n) = [t.nodes[n] EXCEPT !.children = Minus(t.nodes[n].children, ns)]
    BY <2>1 DEF NodeSet
  <2> HIDE DEF few
  <2> QED BY <2>1, <2>2, <2>3 DEF NodeSet
<1> HIDE DEF few
<1>3. nodes \in Partial(Nat, NodeSet) /\ DOMAIN nodes = Nodes(t) \ ns
  <2>1. Nodes(t) \subseteq Nat
    BY <1>1, TreeParts
  <2> QED BY <1>2, <2>1, PartialFunction
<1>4. u = [t EXCEPT !.nodes = nodes]
  BY <1>1 DEF Dropped, Nodes, IsTree, TreeSet, few
<1>5. \A n \in Nodes(t) \ ns :
        /\ nodes[n].children \in Seq(Nat)
        /\ ToSet(nodes[n].children) = ToSet(t.nodes[n].children) \ ns
        /\ IsInjective(nodes[n].children)
        /\ nodes[n].parent = t.nodes[n].parent /\ nodes[n].kind = t.nodes[n].kind
        /\ nodes[n].policy = t.nodes[n].policy
        /\ nodes[n].windows = t.nodes[n].windows /\ nodes[n].active = t.nodes[n].active
  BY <1>2
<1> HIDE DEF nodes
<1>6. /\ u \in TreeSet /\ u.nodes = nodes /\ u.at = t.at /\ u.time = t.time
      /\ u.floating = t.floating /\ u.root = t.root /\ u.next = t.next
      /\ u.endless = t.endless
  BY <1>1, <1>3, <1>4 DEF TreeSet, IsTree
<1> HIDE DEF u
<1>7. Nodes(u) = Nodes(t) \ ns
  BY <1>3, <1>6 DEF Nodes
<1>8. IsTree(u)
  BY <1>1, <1>6, <1>7 DEF IsTree
<1>9. \A n \in ns : \A w \in DOMAIN t.at : t.at[w] # n
  <2>1. ToSet(<<>>) = {}
    BY DEF ToSet
  <2> QED BY <1>1, <2>1 DEF Sound, Agreement
<1>10. Sound(u)
  <2>1. Links(u)
    BY <1>1, <1>5, <1>6, <1>7 DEF Sound, Links
  <2>2. Acyclic(u)
    BY <1>1, <1>5, <1>6, <1>7, AcyclicFewer DEF Sound
  <2>3. Agreement(u)
    BY <1>1, <1>5, <1>6, <1>7 DEF Sound, Agreement
  <2>4. Shapes(u)
    <3> SUFFICES ASSUME NEW n \in Nodes(u) PROVE NodeShape(nodes[n])
      BY <1>6 DEF Shapes
    <3>1. NodeShape(t.nodes[n])
      BY <1>1, <1>7 DEF Sound, Shapes
    <3>2. t.nodes[n].children = <<>> => nodes[n].children = <<>>
      <4>1. ToSet(<<>>) = {}
        BY DEF ToSet
      <4>2. nodes[n].children \in Seq(Nat) /\ n \in Nodes(t) \ ns
        BY <1>5, <1>7
      <4>3. ToSet(nodes[n].children) = ToSet(t.nodes[n].children) \ ns
        BY <1>5, <4>2
      <4>4. t.nodes[n].children = <<>> => ToSet(nodes[n].children) = {}
        BY <4>1, <4>3
      <4> QED BY <4>2, <4>4, NoElements
    <3> QED BY <1>5, <1>7, <3>1, <3>2 DEF NodeShape, IsContainer
  <2> QED BY <1>8, <2>1, <2>2, <2>3, <2>4 DEF Sound
<1>11. Narrowed(t, u)
  <2>1. \A n \in Nodes(u) : IsContainer(u.nodes[n]) => IsContainer(t.nodes[n])
    BY <1>5, <1>6, <1>7 DEF IsContainer
  <2>2. \A n \in Nodes(u) : IsKept(t.nodes[n]) => IsKept(u.nodes[n])
    BY <1>5, <1>6, <1>7 DEF IsKept
  <2> QED BY <1>6, <1>7, <2>1, <2>2 DEF Narrowed
<1>12. CASE Broken(t)
  <2>1. PICK n \in Nodes(t) : Waits(t, n)
    BY <1>12 DEF Broken
  <2> DEFINE old == t.nodes[n].children
             new == nodes[n].children
  <2>2. old \in Seq(Nat) /\ Len(old) = 1 /\ old[1] \notin Nodes(t)
    BY <1>1, <2>1, NodeParts DEF Waits
  <2>3. ToSet(old) = {old[1]} /\ n \notin ns
    <3>1. old # <<>> /\ DOMAIN old = 1..1
      BY <2>2
    <3> QED BY <3>1 DEF ToSet
  <2>4. new \in Seq(Nat) /\ ToSet(new) = {old[1]} /\ IsInjective(new)
    BY <1>5, <2>2, <2>3
  <2> HIDE DEF new, old
  <2>5. Len(new) = 1
    BY <2>4, InjectiveLength, FS_Singleton
  <2>6. new[1] = old[1]
    <3>1. 1 \in DOMAIN new
      BY <2>4, <2>5
    <3>2. new[1] \in ToSet(new)
      BY <3>1 DEF ToSet
    <3> QED BY <2>4, <3>2
  <2>7. n \in Nodes(u) /\ Waits(u, n)
    BY <1>5, <1>6, <1>7, <2>1, <2>2, <2>3, <2>5, <2>6 DEF Waits, IsContainer, new
  <2> QED BY <1>6, <1>7, <1>10, <1>11, <2>7 DEF Normal, Broken, u
<1>13. CASE TreeOK(t)
  <2>1. Mapped(u)
    BY <1>6, <1>7, <1>9, <1>13 DEF TreeOK, Mapped
  <2>2. Closed(u)
    <3>1. \A n \in Nodes(u) : \A c \in ToSet(nodes[n].children) : c \in Nodes(u)
      BY <1>5, <1>7, <1>13 DEF TreeOK, Skeleton, Closed
    <3>2. ASSUME NEW n \in Nodes(u), n # u.root
          PROVE  nodes[n].parent \in Nodes(u) /\ n \in ToSet(nodes[nodes[n].parent].children)
      <4>1. t.nodes[n].parent \in Nodes(t) /\ n \in ToSet(t.nodes[t.nodes[n].parent].children)
        BY <1>6, <1>7, <1>13, <3>2 DEF TreeOK, Skeleton, Closed
      <4>2. t.nodes[n].parent \notin ns
        <5>1. ToSet(<<>>) = {}
          BY DEF ToSet
        <5> QED BY <4>1, <5>1
      <4> QED BY <1>5, <1>7, <4>1, <4>2
    <3>3. \A n \in Nodes(u) : n = u.root => nodes[n].parent = None
      BY <1>5, <1>6, <1>7, <1>13 DEF TreeOK, Skeleton, Closed
    <3> QED BY <1>6, <3>1, <3>2, <3>3 DEF Closed
  <2>3. TreeOK(u)
    BY <1>10, <2>1, <2>2 DEF TreeOK, Sound, Skeleton
  <2> QED BY <1>6, <1>7, <1>10, <1>11, <2>3 DEF Normal, u
<1> QED BY <1>12, <1>13 DEF Normal

\* A container takes the place of its only child: nothing is lost.
LEMMA AbsorbOK ==
  ASSUME NEW t, Sound(t), NEW p \in Nodes(t), NEW c \in Nodes(t),
         IsContainer(t.nodes[p]), t.nodes[p].children = <<c>>
  PROVE  LET u == Absorb(t, p, c)
         IN  /\ Sound(u) /\ Narrowed(t, u) /\ u.endless = t.endless /\ u.root = t.root
             /\ p # c /\ Nodes(u) = Nodes(t) \ {c}
             /\ u.nodes[p].kind = t.nodes[c].kind
             /\ u.nodes[p].children = t.nodes[c].children
             /\ u.nodes[p].parent = t.nodes[p].parent
             /\ t.nodes[c].parent = p
             /\ \A n \in Nodes(u) \ {p} :
                  /\ u.nodes[n].kind = t.nodes[n].kind
                  /\ u.nodes[n].children = t.nodes[n].children
                  /\ u.nodes[n].parent = IF n \in ToSet(t.nodes[c].children) THEN p
                                         ELSE t.nodes[n].parent
             /\ TreeOK(t) => TreeOK(u)
<1> DEFINE u == Absorb(t, p, c)
           kids == ToSet(t.nodes[c].children)
           ws == ToSet(t.nodes[c].windows)
           moved(n) == IF n = p
                       THEN [t.nodes[c] EXCEPT !.parent = t.nodes[p].parent,
                                               !.priority = t.nodes[p].priority]
                       ELSE IF n \in kids THEN [t.nodes[n] EXCEPT !.parent = p]
                       ELSE t.nodes[n]
           nodes == [n \in Nodes(t) \ {c} |-> moved(n)]
           at == [w \in DOMAIN t.at |-> IF w \in ws THEN p ELSE t.at[w]]
<1>1. IsTree(t) /\ Links(t) /\ Acyclic(t) /\ Shapes(t) /\ Agreement(t)
  BY DEF Sound
<1>2. t.nodes[c].parent = p
  <2>1. ToSet(<<c>>) = {c}
    BY DEF ToSet
  <2> QED BY <1>1, <2>1 DEF Links
<1>3. p # c
  <2>1. \E n \in {c} : t.nodes[n].parent \notin {c}
    BY <1>1 DEF Acyclic
  <2> QED BY <1>2, <2>1
<1>4. p \notin kids /\ c \notin kids
  <2>1. \E n \in {p, c} : t.nodes[n].parent \notin {p, c}
    BY <1>1 DEF Acyclic
  <2>2. t.nodes[p].parent # c /\ t.nodes[c].parent # c
    BY <1>2, <1>3, <2>1
  <2> QED BY <1>1, <2>2 DEF Links
<1>5. /\ t.nodes[p].windows = <<>> /\ \A w \in DOMAIN t.at : t.at[w] # p
      /\ ws = {w \in DOMAIN t.at : t.at[w] = c}
  <2>1. t.nodes[p].windows = <<>>
    BY <1>1 DEF Shapes, NodeShape
  <2>2. ToSet(<<>>) = {}
    BY DEF ToSet
  <2> QED BY <1>1, <2>1, <2>2 DEF Agreement
<1>6. \A n \in Nodes(t) \ {c} : moved(n) \in NodeSet
  <2>1. ASSUME NEW a \in NodeSet, NEW q \in Nat \cup {None}, NEW r \in Int
        PROVE  [a EXCEPT !.parent = q, !.priority = r] \in NodeSet /\ [a EXCEPT !.parent = q] \in NodeSet
    BY DEF NodeSet
  <2>2. \A n \in Nodes(t) : /\ t.nodes[n] \in NodeSet /\ n \in Nat
                            /\ t.nodes[n].parent \in Nat \cup {None} /\ t.nodes[n].priority \in Int
    BY <1>1, NodeParts
  <2> QED BY <2>1, <2>2
<1>7. /\ nodes[p].kind = t.nodes[c].kind /\ nodes[p].children = t.nodes[c].children
      /\ nodes[p].windows = t.nodes[c].windows /\ nodes[p].active = t.nodes[c].active
      /\ nodes[p].policy = t.nodes[c].policy /\ nodes[p].parent = t.nodes[p].parent
  <2>1. t.nodes[c] \in NodeSet
    BY <1>1, NodeParts
  <2> QED BY <1>3, <2>1 DEF NodeSet
<1>8. \A n \in Nodes(t) \ {c, p} :
        /\ nodes[n].kind = t.nodes[n].kind /\ nodes[n].children = t.nodes[n].children
        /\ nodes[n].windows = t.nodes[n].windows /\ nodes[n].active = t.nodes[n].active
        /\ nodes[n].policy = t.nodes[n].policy
        /\ nodes[n].parent = IF n \in kids THEN p ELSE t.nodes[n].parent
  <2> TAKE n \in Nodes(t) \ {c, p}
  <2>1. t.nodes[n] \in NodeSet
    BY <1>1, NodeParts
  <2>2. nodes[n] = IF n \in kids THEN [t.nodes[n] EXCEPT !.parent = p] ELSE t.nodes[n]
    OBVIOUS
  <2> HIDE DEF nodes, kids
  <2> QED BY <2>1, <2>2 DEF NodeSet
<1>9. nodes \in Partial(Nat, NodeSet) /\ DOMAIN nodes = Nodes(t) \ {c}
  <2>1. Nodes(t) \subseteq Nat
    BY <1>1, TreeParts
  <2> QED BY <1>6, <2>1, PartialFunction
<1>10. at \in Partial(Window, Nat) /\ DOMAIN at = DOMAIN t.at
  <2>1. t.at \in [DOMAIN t.at -> Nat] /\ DOMAIN t.at \subseteq Window /\ p \in Nat
    BY <1>1, TreeParts
  <2>2. at \in [DOMAIN t.at -> Nat]
    BY <2>1
  <2> QED BY <2>1, <2>2, PartialFunction
<1>11. \A w \in DOMAIN t.at : at[w] = IF t.at[w] = c THEN p ELSE t.at[w]
  BY <1>5
<1>12. u = [t EXCEPT !.nodes = nodes, !.at = at]
  BY <1>1 DEF Absorb, Nodes, IsTree, TreeSet
<1> HIDE DEF nodes, at, moved
<1>13. /\ u \in TreeSet /\ u.nodes = nodes /\ u.at = at /\ u.time = t.time
       /\ u.floating = t.floating /\ u.root = t.root /\ u.next = t.next
       /\ u.endless = t.endless
  BY <1>1, <1>9, <1>10, <1>12 DEF IsTree, TreeSet
<1> HIDE DEF u, kids, ws
<1>14. Nodes(u) = Nodes(t) \ {c}
  BY <1>9, <1>13 DEF Nodes
<1>15. IsTree(u)
  BY <1>1, <1>10, <1>13, <1>14 DEF IsTree
<1>16. Links(u)
  <2> SUFFICES ASSUME NEW n \in Nodes(u)
               PROVE  /\ IsInjective(nodes[n].children)
                      /\ \A x \in ToSet(nodes[n].children) : x \in Nodes(u) => nodes[x].parent = n
    BY <1>13 DEF Links
  <2>1. CASE n = p
    <3>1. nodes[n].children = t.nodes[c].children
      BY <1>7, <2>1
    <3>2. IsInjective(t.nodes[c].children)
      BY <1>1 DEF Links
    <3>3. \A x \in kids : x \in Nodes(u) => nodes[x].parent = p
      BY <1>4, <1>8, <1>14
    <3> QED BY <2>1, <3>1, <3>2, <3>3 DEF kids
  <2>2. CASE n # p
    <3>1. nodes[n].children = t.nodes[n].children /\ n \in Nodes(t) /\ n # c
      BY <1>8, <1>14, <2>2
    <3>2. /\ IsInjective(t.nodes[n].children)
          /\ \A x \in ToSet(t.nodes[n].children) : x \in Nodes(t) => t.nodes[x].parent = n
      BY <1>1, <3>1 DEF Links
    <3>3. \A x \in kids : x \in Nodes(t) => t.nodes[x].parent = c
      BY <1>1 DEF Links, kids
    <3>4. ASSUME NEW x \in ToSet(t.nodes[n].children), x \in Nodes(u) PROVE nodes[x].parent = n
      <4>1. x \in Nodes(t) \ {c} /\ t.nodes[x].parent = n /\ x \notin kids
        BY <1>14, <3>1, <3>2, <3>3, <3>4
      <4> QED BY <1>7, <1>8, <4>1
    <3> QED BY <3>1, <3>2, <3>4
  <2> QED BY <2>1, <2>2
<1>17. Acyclic(u)
  <2> SUFFICES ASSUME NEW S \in SUBSET Nodes(u), S # {}
               PROVE  \E n \in S : nodes[n].parent \notin S
    BY <1>13 DEF Acyclic
  <2> DEFINE T == IF p \in S THEN S \cup {c} ELSE S
  <2>1. T \in SUBSET Nodes(t) /\ T # {} /\ S \subseteq T
    BY <1>14
  <2>2. PICK n \in T : t.nodes[n].parent \notin T
    BY <1>1, <2>1 DEF Acyclic
  <2>3. n # c
    <3> SUFFICES ASSUME n = c PROVE FALSE
      OBVIOUS
    <3>1. c \in T /\ c \notin S
      BY <1>14, <2>2
    <3> QED BY <1>2, <2>2, <3>1
  <2>4. n \in S /\ n \in Nodes(t) \ {c}
    BY <1>14, <2>2, <2>3
  <2>5. CASE n = p
    BY <1>7, <2>1, <2>2, <2>4, <2>5
  <2>6. CASE n # p /\ n \notin kids
    BY <1>8, <2>1, <2>2, <2>4, <2>6
  <2>7. CASE n # p /\ n \in kids
    <3>1. t.nodes[n].parent = c
      BY <1>1, <2>4, <2>7 DEF Links, kids
    <3>2. p \notin S
      BY <2>2, <3>1
    <3> QED BY <1>8, <2>4, <2>7, <3>2
  <2> QED BY <2>5, <2>6, <2>7
<1>18. Shapes(u)
  <2> SUFFICES ASSUME NEW n \in Nodes(u) PROVE NodeShape(nodes[n])
    BY <1>13 DEF Shapes
  <2>1. CASE n = p
    <3>1. NodeShape(t.nodes[c])
      BY <1>1 DEF Shapes
    <3> QED BY <1>7, <2>1, <3>1 DEF NodeShape, IsContainer
  <2>2. CASE n # p
    <3>1. NodeShape(t.nodes[n])
      BY <1>1, <1>14 DEF Shapes
    <3> QED BY <1>8, <1>14, <2>2, <3>1 DEF NodeShape, IsContainer
  <2> QED BY <2>1, <2>2
<1>19. Agreement(u)
  <2>1. u.floating \cap DOMAIN u.at = {}
    BY <1>1, <1>10, <1>13 DEF Agreement
  <2>2. ASSUME NEW n \in Nodes(u)
        PROVE  /\ ToSet(nodes[n].windows) = {w \in DOMAIN t.at : at[w] = n}
               /\ IsInjective(nodes[n].windows)
    <3>1. CASE n = p
      <4>1. {w \in DOMAIN t.at : at[w] = p} = ws
        BY <1>5, <1>11
      <4>2. IsInjective(t.nodes[c].windows)
        BY <1>1 DEF Agreement
      <4> QED BY <1>7, <3>1, <4>1, <4>2 DEF ws
    <3>2. CASE n # p
      <4>1. n \in Nodes(t) \ {c, p}
        BY <1>14, <3>2
      <4>2. {w \in DOMAIN t.at : at[w] = n} = {w \in DOMAIN t.at : t.at[w] = n}
        BY <1>11, <4>1
      <4>3. /\ ToSet(t.nodes[n].windows) = {w \in DOMAIN t.at : t.at[w] = n}
            /\ IsInjective(t.nodes[n].windows)
        BY <1>1, <4>1 DEF Agreement
      <4> QED BY <1>8, <4>1, <4>2, <4>3
    <3> QED BY <3>1, <3>2
  <2> QED BY <1>10, <1>13, <2>1, <2>2 DEF Agreement
<1>20. Sound(u)
  BY <1>15, <1>16, <1>17, <1>18, <1>19 DEF Sound
<1>21. Narrowed(t, u)
  <2>1. \A n \in Nodes(u) : IsContainer(u.nodes[n]) => IsContainer(t.nodes[n])
    BY <1>8, <1>13, <1>14 DEF IsContainer
  <2>2. \A a, b \in DOMAIN t.at : t.at[a] = t.at[b] => at[a] = at[b]
    BY <1>11
  <2>3. ASSUME NEW a \in DOMAIN t.at, t.at[a] \notin Nodes(t) \/ IsKept(t.nodes[t.at[a]])
        PROVE  at[a] \notin Nodes(u) \/ IsKept(nodes[at[a]])
    <3>1. CASE t.at[a] = c
      <4>1. at[a] = p /\ IsKept(t.nodes[c])
        BY <1>11, <2>3, <3>1
      <4> QED BY <1>7, <4>1 DEF IsKept
    <3>2. CASE t.at[a] # c
      <4>1. at[a] = t.at[a] /\ at[a] # p
        BY <1>5, <1>11, <3>2
      <4> QED BY <1>8, <1>14, <2>3, <4>1 DEF IsKept
    <3> QED BY <3>1, <3>2
  <2> QED BY <1>10, <1>13, <1>14, <2>1, <2>2, <2>3 DEF Narrowed
<1>22. ASSUME TreeOK(t) PROVE TreeOK(u)
  <2>1. Mapped(u)
    BY <1>3, <1>10, <1>11, <1>13, <1>14, <1>22 DEF TreeOK, Mapped
  <2>2. Closed(t)
    BY <1>22 DEF TreeOK, Skeleton
  <2>3. ASSUME NEW n \in Nodes(u), NEW x \in ToSet(nodes[n].children) PROVE x \in Nodes(u)
    <3>1. CASE n = p
      <4>1. x \in kids
        BY <1>7, <2>3, <3>1 DEF kids
      <4> QED BY <1>4, <1>14, <2>2, <4>1 DEF Closed, kids
    <3>2. CASE n # p
      <4>1. n \in Nodes(t) \ {c, p} /\ x \in ToSet(t.nodes[n].children)
        BY <1>8, <1>14, <2>3, <3>2
      <4>2. x \in Nodes(t) /\ t.nodes[x].parent = n
        BY <1>1, <2>2, <4>1 DEF Closed, Links
      <4> QED BY <1>2, <1>14, <4>1, <4>2
    <3> QED BY <3>1, <3>2
  <2>4. ASSUME NEW n \in Nodes(u)
        PROVE  IF n = u.root THEN nodes[n].parent = None
               ELSE /\ nodes[n].parent \in Nodes(u)
                    /\ n \in ToSet(nodes[nodes[n].parent].children)
    <3>1. n \in Nodes(t) /\ n # c
      BY <1>14
    <3>2. IF n = t.root THEN t.nodes[n].parent = None
          ELSE /\ t.nodes[n].parent \in Nodes(t)
               /\ n \in ToSet(t.nodes[t.nodes[n].parent].children)
      BY <2>2, <3>1 DEF Closed
    <3>3. None \notin Nodes(t)
      BY <1>1, TreeParts, NoneAssumption
    <3>4. CASE n \in kids
      <4>1. t.nodes[n].parent = c
        BY <1>1, <3>1, <3>4 DEF Links, kids
      <4>2. n # t.root
        BY <3>2, <3>3, <4>1
      <4>3. nodes[n].parent = p /\ n \in ToSet(nodes[p].children)
        BY <1>4, <1>7, <1>8, <3>1, <3>4 DEF kids
      <4> QED BY <1>3, <1>13, <1>14, <4>2, <4>3
    <3>5. CASE n \notin kids
      <4>1. nodes[n].parent = t.nodes[n].parent
        BY <1>7, <1>8, <3>1, <3>5
      <4>2. CASE n = t.root
        BY <1>13, <3>2, <4>1, <4>2
      <4>3. CASE n # t.root
        <5> DEFINE q == t.nodes[n].parent
        <5>1. q \in Nodes(t) /\ n \in ToSet(t.nodes[q].children)
          BY <3>2, <4>3
        <5>2. q # c
          BY <3>5, <5>1 DEF kids
        <5>3. q # p
          <6>1. ToSet(<<c>>) = {c}
            BY DEF ToSet
          <6> QED BY <3>1, <5>1, <6>1
        <5>4. nodes[q].children = t.nodes[q].children /\ q \in Nodes(u)
          BY <1>8, <1>14, <5>1, <5>2, <5>3
        <5> QED BY <1>13, <4>1, <4>3, <5>1, <5>4
      <4> QED BY <4>2, <4>3
    <3> QED BY <3>4, <3>5
  <2>5. Closed(u)
    BY <1>13, <2>3, <2>4 DEF Closed
  <2> QED BY <1>20, <2>1, <2>5 DEF TreeOK, Skeleton, Sound
<1> QED BY <1>2, <1>3, <1>7, <1>8, <1>13, <1>14, <1>20, <1>21, <1>22 DEF u, kids

\* Nodes whose pair comes up although the parent is gone: they will be lost.
Doomed(t, left) == {pr[2] : pr \in {q \in left : q[1] \notin Nodes(t)}}

\* A set of nodes with all that is above them
Upward(t, U) ==
  /\ U \subseteq Nodes(t)
  /\ \A m \in U : t.nodes[m].parent \in Nodes(t) => t.nodes[m].parent \in U

\* n is a container that will wait for its only child: the child is gone or
\* will be, and nothing from n upwards is lost.
Exposed(t, left, U, n) ==
  /\ Upward(t, U) /\ n \in U /\ U \cap Doomed(t, left) = {}
  /\ IsContainer(t.nodes[n]) /\ Len(t.nodes[n].children) = 1
  /\ t.nodes[n].children[1] \notin Nodes(t) \/ t.nodes[n].children[1] \in Doomed(t, left)

\* The pairs that are left are parents with their only children.
Listed(t, left) ==
  /\ \A pr \in left : pr[1] \in Nodes(t) =>
       IsContainer(t.nodes[pr[1]]) /\ t.nodes[pr[1]].children = <<pr[2]>>
  /\ \A pr, qr \in left : pr[2] = qr[2] /\ pr[2] \in Nodes(t) => pr = qr

\* The invariant of a round's last part
Collapsing(t, left) ==
  /\ Sound(t) /\ left \in SUBSET (Nat \X Nat) /\ Listed(t, left)
  /\ \/ TreeOK(t) /\ Doomed(t, left) \cap Nodes(t) = {}
     \/ \E U \in SUBSET Nodes(t) : \E n \in U : Exposed(t, left, U, n)

\* All that is above a node, without what is below its child c
LEMMA AboveOnly ==
  ASSUME NEW t, Acyclic(t), NEW c \in Nodes(t), NEW p \in Nodes(t), t.nodes[c].parent = p
  PROVE  \E V \in SUBSET Nodes(t) : Upward(t, V) /\ p \in V /\ c \notin V
<1> DEFINE Below(D) == c \in D /\ \A m \in Nodes(t) : t.nodes[m].parent \in D => m \in D
           D == {m \in Nodes(t) : \A E \in SUBSET Nodes(t) : Below(E) => m \in E}
           E == {c} \cup {m \in D : t.nodes[m].parent \in D}
           V == Nodes(t) \ D
<1>1. Below(D)
  OBVIOUS
<1>2. \A F \in SUBSET Nodes(t) : Below(F) => D \subseteq F
  OBVIOUS
<1> HIDE DEF D
<1>3. E \in SUBSET Nodes(t) /\ Below(E)
  <2>1. D \subseteq Nodes(t)
    BY DEF D
  <2> QED BY <1>1, <2>1
<1>4. D \subseteq E
  BY <1>2, <1>3
<1>5. p \notin D
  <2> SUFFICES ASSUME p \in D PROVE FALSE
    OBVIOUS
  <2>1. D \in SUBSET Nodes(t) /\ D # {}
    BY DEF D
  <2>2. \A m \in D : t.nodes[m].parent \in D
    BY <1>4
  <2> QED BY <2>1, <2>2 DEF Acyclic
<1>6. Upward(t, V)
  BY <1>1 DEF Upward
<1> QED BY <1>1, <1>5, <1>6

\* A node of the tree is taken out of the map alone.
Lost(t, c) == [t EXCEPT !.nodes = Restrict(@, DOMAIN @ \ {c})]

\* What is left when a node is taken out of the map alone
LEMMA LostFields ==
  ASSUME NEW t, Sound(t), NEW c
  PROVE  LET u == Lost(t, c)
         IN  /\ Sound(u) /\ Narrowed(t, u) /\ u.endless = t.endless /\ u.root = t.root
             /\ Nodes(u) = Nodes(t) \ {c}
             /\ \A n \in Nodes(u) : u.nodes[n] = t.nodes[n]
<1> DEFINE u == Lost(t, c)
           nodes == Restrict(t.nodes, Nodes(t) \ {c})
<1>1. IsTree(t)
  BY DEF Sound
<1>2. /\ nodes \in Partial(Nat, NodeSet) /\ DOMAIN nodes = Nodes(t) \ {c}
      /\ \A n \in DOMAIN nodes : nodes[n] = t.nodes[n]
  BY <1>1, TreeParts, PartialFunction DEF Restrict
<1>3. u = [t EXCEPT !.nodes = nodes]
  BY <1>1 DEF Lost, IsTree, TreeSet, Nodes
<1> HIDE DEF nodes
<1>4. /\ u \in TreeSet /\ u.nodes = nodes /\ u.at = t.at /\ u.time = t.time
      /\ u.floating = t.floating /\ u.root = t.root /\ u.next = t.next
      /\ u.endless = t.endless
  BY <1>1, <1>2, <1>3 DEF IsTree, TreeSet
<1> HIDE DEF u
<1>5. Nodes(u) = Nodes(t) \ {c} /\ \A n \in Nodes(u) : u.nodes[n] = t.nodes[n]
  BY <1>2, <1>4 DEF Nodes
<1>6. IsTree(u)
  BY <1>1, <1>4, <1>5 DEF IsTree
<1>7. Links(u) /\ Shapes(u)
  BY <1>5 DEF Sound, Links, Shapes
<1>8. Acyclic(u)
  BY <1>5, AcyclicFewer DEF Sound
<1>9. Agreement(u)
  BY <1>4, <1>5 DEF Sound, Agreement
<1>10. Narrowed(t, u)
  BY <1>4, <1>5 DEF Narrowed
<1> QED BY <1>4, <1>5, <1>6, <1>7, <1>8, <1>9, <1>10 DEF Sound, u

\* A doomed node is lost: the container that waits for it, or another one that
\* waits, stays.
LEMMA CollapseLost ==
  ASSUME NEW t, NEW left, Collapsing(t, left), NEW pr \in left,
         pr[2] \in Nodes(t), pr[1] \notin Nodes(t)
  PROVE  Collapsing(Lost(t, pr[2]), left \ {pr})
<1> DEFINE c == pr[2]
           u == Lost(t, c)
           rest == left \ {pr}
<1>1. Sound(u) /\ Nodes(u) = Nodes(t) \ {c} /\ \A n \in Nodes(u) : u.nodes[n] = t.nodes[n]
  BY LostFields DEF Collapsing
<1>2. Listed(t, left) /\ left \in SUBSET (Nat \X Nat) /\ c \in Doomed(t, left)
  BY DEF Collapsing, Doomed
<1>3. PICK U \in SUBSET Nodes(t) : \E n \in U : Exposed(t, left, U, n)
  BY <1>2 DEF Collapsing
<1>3a. PICK n \in U : Exposed(t, left, U, n)
  BY <1>3
<1> HIDE DEF u
<1>4. Listed(u, rest)
  BY <1>1, <1>2 DEF Listed
<1>5. c \notin U
  BY <1>2, <1>3a DEF Exposed
<1>6. Upward(u, U)
  BY <1>1, <1>3a, <1>5 DEF Exposed, Upward
<1>7. U \cap Doomed(u, rest) = {}
  <2> SUFFICES ASSUME NEW qr \in rest, qr[1] \notin Nodes(u), qr[2] \in U PROVE FALSE
    BY DEF Doomed
  <2>1. CASE qr[1] \notin Nodes(t)
    BY <1>3a, <2>1 DEF Exposed, Doomed
  <2>2. CASE qr[1] \in Nodes(t)
    <3>1. qr[1] = c /\ t.nodes[c].children = <<qr[2]>>
      BY <1>1, <1>2, <2>2 DEF Listed
    <3>2. qr[2] \in ToSet(<<qr[2]>>)
      BY DEF ToSet
    <3>3. t.nodes[qr[2]].parent = c
      BY <1>3a, <3>1, <3>2 DEF Collapsing, Sound, Links
    <3> QED BY <1>3a, <1>5, <3>3 DEF Exposed, Upward
  <2> QED BY <2>1, <2>2
<1>8. t.nodes[n].children[1] \notin Nodes(u) \/ t.nodes[n].children[1] \in Doomed(u, rest)
  <2> DEFINE x == t.nodes[n].children[1]
  <2>1. CASE x \notin Nodes(t)
    BY <1>1, <2>1
  <2>2. CASE x \in Doomed(t, left)
    <3>1. PICK qr \in left : qr[1] \notin Nodes(t) /\ qr[2] = x
      BY <2>2 DEF Doomed
    <3>2. CASE qr = pr
      BY <1>1, <3>1, <3>2
    <3>3. CASE qr # pr
      BY <1>1, <3>1, <3>3 DEF Doomed
    <3> QED BY <3>2, <3>3
  <2> QED BY <1>3a, <2>1, <2>2 DEF Exposed
<1>9. n \in Nodes(u) /\ U \in SUBSET Nodes(u)
  BY <1>1, <1>5
<1>10. Exposed(u, rest, U, n)
  BY <1>1, <1>3a, <1>6, <1>7, <1>8, <1>9 DEF Exposed
<1> QED BY <1>1, <1>2, <1>4, <1>9, <1>10 DEF Collapsing, u

\* What waits or will wait, once a container took the place of its only child
LEMMA CollapseAbsorbed ==
  ASSUME NEW t, NEW left, Collapsing(t, left), NEW pr \in left,
         pr[1] \in Nodes(t), pr[2] \in Nodes(t)
  PROVE  LET u == Absorb(t, pr[1], pr[2])
         IN  /\ Collapsing(u, left \ {pr}) /\ Narrowed(t, u)
             /\ u.endless = t.endless /\ Nodes(u) \subseteq Nodes(t)
<1> DEFINE p == pr[1]
           c == pr[2]
           u == Absorb(t, p, c)
           rest == left \ {pr}
           kids == ToSet(t.nodes[c].children)
<1>1. /\ Listed(t, left) /\ left \in SUBSET (Nat \X Nat) /\ Sound(t)
      /\ IsContainer(t.nodes[p]) /\ t.nodes[p].children = <<c>>
  BY DEF Collapsing, Listed
<1>2. /\ Sound(u) /\ Narrowed(t, u) /\ u.endless = t.endless /\ u.root = t.root
      /\ p # c /\ Nodes(u) = Nodes(t) \ {c}
      /\ u.nodes[p].kind = t.nodes[c].kind
      /\ u.nodes[p].children = t.nodes[c].children
      /\ u.nodes[p].parent = t.nodes[p].parent
      /\ t.nodes[c].parent = p
      /\ \A n \in Nodes(u) \ {p} :
           /\ u.nodes[n].kind = t.nodes[n].kind
           /\ u.nodes[n].children = t.nodes[n].children
           /\ u.nodes[n].parent = IF n \in kids THEN p ELSE t.nodes[n].parent
      /\ TreeOK(t) => TreeOK(u)
  BY <1>1, AbsorbOK
<1>3. p \in Nodes(u) /\ \A x \in kids : x \in Nodes(t) => t.nodes[x].parent = c
  BY <1>1, <1>2 DEF Sound, Links
<1> HIDE DEF u, kids
<1>4. \A qr \in rest : qr[1] \in Nodes(t) => qr[1] # p
  <2> SUFFICES ASSUME NEW qr \in rest, qr[1] = p PROVE FALSE
    OBVIOUS
  <2>1. <<qr[2]>> = <<c>>
    BY <1>1, <1>3 DEF Listed
  <2>2. qr[2] = c
    BY <2>1
  <2>3. qr = pr
    BY <1>1, <2>2 DEF Listed
  <2> QED BY <2>3
<1>5. Listed(u, rest)
  <2>1. \A qr \in rest : qr[1] \in Nodes(u) =>
          IsContainer(u.nodes[qr[1]]) /\ u.nodes[qr[1]].children = <<qr[2]>>
    BY <1>1, <1>2, <1>4 DEF Listed, IsContainer
  <2>2. \A qr, sr \in rest : qr[2] = sr[2] /\ qr[2] \in Nodes(u) => qr = sr
    BY <1>1, <1>2 DEF Listed
  <2> QED BY <2>1, <2>2 DEF Listed
<1>6. ASSUME NEW qr \in rest, qr[1] = c
      PROVE  /\ IsContainer(u.nodes[p]) /\ u.nodes[p].children = <<qr[2]>> /\ qr[2] # c
             /\ kids = {qr[2]} /\ qr[2] \in Doomed(u, rest)
             /\ \A sr \in rest : sr[1] = c => sr[2] = qr[2]
  <2>1. \A sr \in rest : sr[1] = c =>
          IsContainer(t.nodes[c]) /\ t.nodes[c].children = <<sr[2]>>
    BY <1>1 DEF Listed
  <2>2. \A sr \in rest : sr[1] = c => sr[2] = qr[2]
    <3> TAKE sr \in rest
    <3> HAVE sr[1] = c
    <3>1. <<sr[2]>> = <<qr[2]>>
      BY <1>6, <2>1
    <3> QED BY <3>1
  <2>3. ToSet(<<qr[2]>>) = {qr[2]}
    BY DEF ToSet
  <2>4. kids = {qr[2]}
    BY <1>6, <2>1, <2>3 DEF kids
  <2>5. qr[2] # c
    BY <1>2, <1>3, <2>4
  <2>6. qr[1] \notin Nodes(u)
    BY <1>2, <1>6
  <2> QED BY <1>2, <1>6, <2>1, <2>2, <2>4, <2>5, <2>6 DEF IsContainer, Doomed
<1>7. ASSUME NEW d \in Doomed(u, rest)
      PROVE  d \in Doomed(t, left) \/ \E qr \in rest : qr[1] = c /\ qr[2] = d
  BY <1>2 DEF Doomed
<1>8. Doomed(t, left) \subseteq Doomed(u, rest)
  BY <1>2 DEF Doomed
\* The node that took the child's place is exposed when its new only child is doomed.
<1>9. ASSUME NEW qr \in rest, qr[1] = c, qr[2] \in Nodes(u),
             NEW U \in SUBSET Nodes(u), Upward(u, U), p \in U,
             U \cap Doomed(t, left) = {}
      PROVE  \E W \in SUBSET Nodes(u) : \E n \in W : Exposed(u, rest, W, n)
  <2> DEFINE e == qr[2]
  <2>1. /\ IsContainer(u.nodes[p]) /\ u.nodes[p].children = <<e>> /\ kids = {e}
        /\ e \in Doomed(u, rest) /\ \A sr \in rest : sr[1] = c => sr[2] = e
    BY <1>6, <1>9
  <2>2. u.nodes[e].parent = p /\ Acyclic(u)
    <3>1. e \in ToSet(<<e>>)
      BY DEF ToSet
    <3> QED BY <1>2, <1>3, <1>9, <2>1, <3>1 DEF Sound, Links
  <2> HIDE DEF e
  <2>3. PICK V \in SUBSET Nodes(u) : Upward(u, V) /\ p \in V /\ e \notin V
    BY <1>3, <1>9, <2>2, AboveOnly DEF e
  <2> DEFINE W == U \cap V
  <2>4. W \in SUBSET Nodes(u) /\ p \in W /\ Upward(u, W)
    BY <1>9, <2>3 DEF Upward
  <2>5. W \cap Doomed(u, rest) = {}
    BY <1>7, <1>9, <2>1, <2>3
  <2>6. Len(u.nodes[p].children) = 1 /\ u.nodes[p].children[1] = e
    BY <2>1
  <2> HIDE DEF W
  <2>7. Exposed(u, rest, W, p)
    BY <2>1, <2>4, <2>5, <2>6 DEF Exposed
  <2> QED BY <2>4, <2>7
<1>10. ASSUME TreeOK(t), Doomed(t, left) \cap Nodes(t) = {}
       PROVE  Collapsing(u, rest)
  <2>1. CASE \E qr \in rest : qr[1] = c /\ qr[2] \in Nodes(u)
    <3>1. PICK qr \in rest : qr[1] = c /\ qr[2] \in Nodes(u)
      BY <2>1
    <3>2. Upward(u, Nodes(u)) /\ Nodes(u) \cap Doomed(t, left) = {}
      BY <1>2, <1>10 DEF Upward
    <3>3. \E W \in SUBSET Nodes(u) : \E n \in W : Exposed(u, rest, W, n)
      BY <1>3, <1>9, <3>1, <3>2
    <3> QED BY <1>1, <1>2, <1>5, <3>3 DEF Collapsing
  <2>2. CASE \A qr \in rest : qr[1] = c => qr[2] \notin Nodes(u)
    <3>1. Doomed(u, rest) \cap Nodes(u) = {}
      <4> SUFFICES ASSUME NEW d \in Doomed(u, rest), d \in Nodes(u) PROVE FALSE
        OBVIOUS
      <4>1. d \in Nodes(t)
        BY <1>2
      <4> QED BY <1>7, <1>10, <2>2, <4>1
    <3> QED BY <1>1, <1>2, <1>5, <1>10, <3>1 DEF Collapsing
  <2> QED BY <2>1, <2>2
<1>11. ASSUME NEW U \in SUBSET Nodes(t), \E n \in U : Exposed(t, left, U, n)
       PROVE  Collapsing(u, rest)
  <2>2. PICK n \in U : Exposed(t, left, U, n)
    BY <1>11
  <2> DEFINE W == U \ {c}
  <2>3. /\ Upward(t, U) /\ U \cap Doomed(t, left) = {} /\ U \subseteq Nodes(t)
        /\ IsContainer(t.nodes[n]) /\ Len(t.nodes[n].children) = 1
        /\ t.nodes[n].children[1] \notin Nodes(t) \/ t.nodes[n].children[1] \in Doomed(t, left)
    BY <2>2 DEF Exposed
  <2>4. c \in U => p \in U
    BY <1>2, <2>3 DEF Upward
  <2>5. W \in SUBSET Nodes(u) /\ W \cap Doomed(t, left) = {}
    BY <1>2, <2>3
  <2>6. Upward(u, W)
    <3> SUFFICES ASSUME NEW m \in W, u.nodes[m].parent \in Nodes(u)
                 PROVE  u.nodes[m].parent \in W
      BY <2>5 DEF Upward
    <3>1. CASE m = p
      BY <1>2, <2>3, <3>1 DEF Upward
    <3>2. CASE m # p /\ m \in kids
      <4>1. t.nodes[m].parent = c
        BY <1>3, <2>3, <3>2
      <4>2. c \in U
        BY <2>3, <4>1 DEF Upward
      <4>3. u.nodes[m].parent = p
        BY <1>2, <2>3, <3>2
      <4> QED BY <1>2, <2>4, <4>2, <4>3
    <3>3. CASE m # p /\ m \notin kids
      BY <1>2, <2>3, <3>3 DEF Upward
    <3> QED BY <3>1, <3>2, <3>3
  <2>7. CASE \E qr \in rest : qr[1] = c /\ qr[2] \in U
    <3>1. PICK qr \in rest : qr[1] = c /\ qr[2] \in U
      BY <2>7
    <3>2. kids = {qr[2]} /\ qr[2] # c
      BY <1>6, <3>1
    <3>3. t.nodes[qr[2]].parent = c /\ qr[2] \in Nodes(u)
      BY <1>2, <1>3, <2>3, <3>1, <3>2
    <3>4. p \in W
      BY <1>2, <2>3, <2>4, <3>1, <3>3 DEF Upward
    <3> HIDE DEF W
    <3>5. \E X \in SUBSET Nodes(u) : \E m \in X : Exposed(u, rest, X, m)
      BY <1>9, <2>5, <2>6, <3>1, <3>3, <3>4
    <3> QED BY <1>1, <1>2, <1>5, <3>5 DEF Collapsing
  <2>8. CASE \A qr \in rest : qr[1] = c => qr[2] \notin U
    <3>1. W \cap Doomed(u, rest) = {}
      BY <1>7, <2>5, <2>8
    <3>2. n # p
      <4> SUFFICES ASSUME n = p PROVE FALSE
        OBVIOUS
      <4>1. t.nodes[n].children[1] = c
        BY <1>1
      <4>2. c \in Doomed(t, left)
        BY <2>3, <4>1
      <4>3. PICK qr \in left : qr[1] \notin Nodes(t) /\ qr[2] = c
        BY <4>2 DEF Doomed
      <4>4. qr = pr
        BY <1>1, <4>3 DEF Listed
      <4> QED BY <4>3, <4>4
    <3> DEFINE m == IF n = c THEN p ELSE n
    <3>3. m \in W
      BY <1>2, <2>4, <3>2
    <3>4. u.nodes[m].kind = t.nodes[n].kind /\ u.nodes[m].children = t.nodes[n].children
      <4>1. n # c => n \in Nodes(u) \ {p}
        BY <1>2, <2>3, <3>2
      <4> QED BY <1>2, <4>1
    <3> HIDE DEF m, W
    <3>5. Exposed(u, rest, W, m)
      <4>1. u.nodes[m].children[1] \notin Nodes(u) \/ u.nodes[m].children[1] \in Doomed(u, rest)
        BY <1>2, <1>8, <2>3, <3>4
      <4>2. IsContainer(u.nodes[m]) /\ Len(u.nodes[m].children) = 1
        BY <2>3, <3>4 DEF IsContainer
      <4> QED BY <2>6, <3>1, <3>3, <4>1, <4>2 DEF Exposed
    <3> QED BY <1>1, <1>2, <1>5, <2>5, <3>3, <3>5 DEF Collapsing
  <2> QED BY <2>7, <2>8
<1>12. Collapsing(u, rest)
  BY <1>10, <1>11 DEF Collapsing
<1> QED BY <1>2, <1>12 DEF u

\* One pair more of a round is dealt with, whatever became of the others.
LEMMA CollapseOneOK ==
  ASSUME NEW t, NEW left, Collapsing(t, left), NEW pr \in left
  PROVE  LET u == CollapseOne(t, pr)
         IN  /\ Collapsing(u, left \ {pr}) /\ Narrowed(t, u)
             /\ u.endless = t.endless /\ Nodes(u) \subseteq Nodes(t)
<1> DEFINE u == CollapseOne(t, pr)
<1>1. CASE pr[2] \notin Nodes(t)
  <2>1. u = t
    BY <1>1 DEF CollapseOne, Nodes
  <2>2. Listed(t, left \ {pr})
    BY DEF Collapsing, Listed
  <2>3. Doomed(t, left) \cap Nodes(t) = Doomed(t, left \ {pr}) \cap Nodes(t)
    BY <1>1 DEF Doomed
  <2>4. ASSUME NEW U \in SUBSET Nodes(t), NEW n \in U, Exposed(t, left, U, n)
        PROVE  Exposed(t, left \ {pr}, U, n)
    <3> DEFINE x == t.nodes[n].children[1]
    <3>1. U \cap Doomed(t, left \ {pr}) = {}
      BY <2>4, <2>3 DEF Exposed
    <3>2. x \notin Nodes(t) \/ x \in Doomed(t, left \ {pr})
      BY <2>4, <2>3 DEF Exposed
    <3> QED BY <2>4, <3>1, <3>2 DEF Exposed
  <2>5. Collapsing(t, left \ {pr})
    BY <2>2, <2>3, <2>4 DEF Collapsing
  <2> QED BY <2>1, <2>5, NarrowedSame
<1>2. CASE pr[2] \in Nodes(t) /\ pr[1] \notin Nodes(t)
  <2>1. u = Lost(t, pr[2])
    BY <1>2 DEF CollapseOne, Nodes, Lost
  <2>2. Collapsing(Lost(t, pr[2]), left \ {pr})
    BY <1>2, CollapseLost
  <2>3. /\ Narrowed(t, Lost(t, pr[2])) /\ Lost(t, pr[2]).endless = t.endless
        /\ Nodes(Lost(t, pr[2])) \subseteq Nodes(t)
    BY LostFields DEF Collapsing
  <2> QED BY <2>1, <2>2, <2>3
<1>3. CASE pr[2] \in Nodes(t) /\ pr[1] \in Nodes(t)
  <2>1. u = Absorb(t, pr[1], pr[2])
    BY <1>3 DEF CollapseOne, Nodes
  <2> QED BY <1>3, <2>1, CollapseAbsorbed
<1> QED BY <1>1, <1>2, <1>3

\* What is collapsed and what is left, while the pairs of a round are dealt with
Stages(t) ==
  {s \in [tree : TreeSet, left : SUBSET (Nat \X Nat)] :
     Collapsing(s.tree, s.left) /\ Narrowed(t, s.tree) /\ s.tree.endless = t.endless}

\* One pair more, any of those that are left
CollapsedOnce(S) ==
  UNION {{[tree |-> CollapseOne(s.tree, p), left |-> s.left \ {p}] : p \in s.left} : s \in S}

\* The same for all orders in which a round may take the pairs
LEMMA CollapsedOnceStages ==
  ASSUME NEW t, NEW S \in SUBSET Stages(t)
  PROVE  CollapsedOnce(S) \in SUBSET Stages(t)
<1> SUFFICES ASSUME NEW s \in S, NEW p \in s.left
             PROVE  [tree |-> CollapseOne(s.tree, p), left |-> s.left \ {p}] \in Stages(t)
  BY DEF CollapsedOnce
<1> DEFINE u == CollapseOne(s.tree, p)
<1>1. Collapsing(s.tree, s.left) /\ Narrowed(t, s.tree) /\ s.tree.endless = t.endless
  BY DEF Stages
<1>2. /\ Collapsing(u, s.left \ {p}) /\ Narrowed(s.tree, u)
      /\ u.endless = s.tree.endless
  BY <1>1, CollapseOneOK
<1> HIDE DEF u
<1>3. Narrowed(t, u)
  BY <1>1, <1>2, NarrowedTwice
<1>4. u \in TreeSet /\ s.left \ {p} \in SUBSET (Nat \X Nat)
  BY <1>2 DEF Collapsing, Sound, IsTree
<1> DEFINE v == [tree |-> u, left |-> s.left \ {p}]
<1>5. v \in [tree : TreeSet, left : SUBSET (Nat \X Nat)] /\ v.tree = u /\ v.left = s.left \ {p}
  BY <1>4
<1> HIDE DEF v
<1>6. v \in Stages(t)
  BY <1>1, <1>2, <1>3, <1>5 DEF Stages
<1> QED BY <1>6 DEF v, u

\* The stages of a round, up to all that Round may end in
CollapseRuns(t, n, v0) ==
  {g \in [0..n -> SUBSET Stages(t)] :
     g[0] = v0 /\ \A k \in 1..n : g[k] = CollapsedOnce(g[k - 1])}

\* A round goes through its pairs as Round says.
LEMMA RoundSteps ==
  ASSUME NEW t,
         LET kept == DropChildless(DropTemporal(t))
             pairs == ToCollapse(kept)
         IN  /\ Cardinality(pairs) \in Nat
             /\ {[tree |-> kept, left |-> pairs]} \in SUBSET Stages(kept)
  PROVE  LET kept == DropChildless(DropTemporal(t))
             pairs == ToCollapse(kept)
         IN  \E g : /\ g \in CollapseRuns(kept, Cardinality(pairs), {[tree |-> kept, left |-> pairs]})
                    /\ Round(t) = {s.tree : s \in g[Cardinality(pairs)]}
<1> DEFINE kept == DropChildless(DropTemporal(t))
           pairs == ToCollapse(kept)
           n == Cardinality(pairs)
           v0 == {[tree |-> kept, left |-> pairs]}
           V == SUBSET Stages(kept)
           next == [k \in 1..n |-> [S \in V |-> CollapsedOnce(S)]]
           step[k \in 0..n] ==
             IF k = 0 THEN v0
             ELSE UNION {{[tree |-> CollapseOne(s.tree, p), left |-> s.left \ {p}] : p \in s.left}
                          : s \in step[k - 1]}
           eq(h) == [k \in 0..n |->
             IF k = 0 THEN v0
             ELSE UNION {{[tree |-> CollapseOne(s.tree, p), left |-> s.left \ {p}] : p \in s.left}
                          : s \in h[k - 1]}]
<1>1. n \in Nat /\ v0 \in V
  OBVIOUS
<1>2. Round(t) = {s.tree : s \in step[n]}
  BY DEF Round
<1>3. \A S \in V : CollapsedOnce(S) \in V
  BY CollapsedOnceStages
<1> HIDE DEF kept, pairs, n, v0, V
<1>4. next \in [1..n -> [V -> V]]
  BY <1>3
<1>5. PICK g : g \in Runs(V, n, v0, next)
  <2> HIDE DEF next
  <2> QED BY <1>1, <1>4, Recursion
<1>6. /\ g \in [0..n -> V] /\ g[0] = v0
      /\ \A k \in 1..n : g[k] = next[k][g[k - 1]]
  BY <1>5 DEF Runs
<1>7. ASSUME NEW k \in 1..n PROVE g[k] = CollapsedOnce(g[k - 1])
  <2>1. g[k - 1] \in V
    BY <1>1, <1>6
  <2>2. \A S \in V : next[k][S] = CollapsedOnce(S)
    OBVIOUS
  <2> HIDE DEF next
  <2> QED BY <1>6, <2>1, <2>2
<1> HIDE DEF next
<1>8. g = eq(g)
  <2>1. ASSUME NEW k \in 0..n
        PROVE  g[k] = IF k = 0 THEN v0 ELSE CollapsedOnce(g[k - 1])
    <3>1. k = 0 \/ k \in 1..n
      BY <1>1
    <3> QED BY <1>6, <1>7, <3>1
  <2>2. eq(g) = [k \in 0..n |-> IF k = 0 THEN v0 ELSE CollapsedOnce(g[k - 1])]
    BY DEF CollapsedOnce
  <2> HIDE DEF eq
  <2> QED BY <1>6, <2>1, <2>2
<1>9. step = eq(step)
  <2>1. \E h : h = eq(h)
    <3> HIDE DEF eq, step
    <3> QED BY <1>8
  <2> QED BY <2>1, Zenon
<1> HIDE DEF step
<1>10. step = [k \in 0..n |-> IF k = 0 THEN v0 ELSE CollapsedOnce(step[k - 1])]
  BY <1>9 DEF CollapsedOnce
<1> HIDE DEF eq
<1>11. step[0] = v0 /\ \A k \in 1..n : step[k] = CollapsedOnce(step[k - 1])
  <2>1. 0 \in 0..n /\ \A k \in 1..n : k \in 0..n /\ k # 0
    BY <1>1
  <2> QED BY <1>10, <2>1
<1>12. step \in [0..n -> V]
  <2>1. \A k \in 1..n : step[k - 1] \in V => step[k] \in V
    BY <1>3, <1>11
  <2>2. \A k \in 0..n : step[k] \in V
    BY <1>1, <1>11, <2>1, Steps
  <2> QED BY <1>10, <2>2
<1>13. step \in CollapseRuns(kept, n, v0)
  BY <1>11, <1>12 DEF CollapseRuns, V
<1> QED BY <1>2, <1>13 DEF kept, pairs, n, v0

\* Whole trees, or trees that lost a node and wait for it for ever
LEMMA RoundStart ==
  ASSUME NEW t, Normal(t)
  PROVE  LET pairs == ToCollapse(t)
         IN  /\ Collapsing(t, pairs) /\ IsFiniteSet(pairs)
             /\ [tree |-> t, left |-> pairs] \in Stages(t)
<1> DEFINE pairs == ToCollapse(t)
           ns == {m \in Nodes(t) : IsContainer(t.nodes[m]) /\ Len(t.nodes[m].children) = 1}
           f == [n \in ns |-> <<n, t.nodes[n].children[1]>>]
<1>1. Sound(t) /\ IsTree(t)
  BY DEF Normal, Sound
<1>2. pairs = {<<n, t.nodes[n].children[1]>> : n \in ns}
  BY DEF ToCollapse, Nodes
<1>3. \A n \in ns : /\ t.nodes[n].children \in Seq(Nat) /\ t.nodes[n].children[1] \in Nat
                    /\ t.nodes[n].children = <<t.nodes[n].children[1]>>
                    /\ t.nodes[n].children[1] \in ToSet(t.nodes[n].children)
  <2> TAKE n \in ns
  <2>1. t.nodes[n].children \in Seq(Nat) /\ Len(t.nodes[n].children) = 1
    BY <1>1, NodeParts
  <2>2. 1 \in DOMAIN t.nodes[n].children
    BY <2>1
  <2>3. t.nodes[n].children[1] \in ToSet(t.nodes[n].children)
    BY <2>2 DEF ToSet
  <2> QED BY <2>1, <2>3
<1>4. IsFiniteSet(ns) /\ ns \subseteq Nat
  BY <1>1, TreeParts, FS_Subset
<1>5. f \in Surjection(ns, pairs)
  BY <1>2 DEF Surjection
<1>6. IsFiniteSet(pairs)
  BY <1>4, <1>5, FS_Surjection
<1>7. pairs \in SUBSET (Nat \X Nat)
  BY <1>2, <1>3, <1>4
<1>8. \A pr \in pairs : pr[1] \in ns /\ pr = <<pr[1], pr[2]>> /\ pr[2] = t.nodes[pr[1]].children[1]
  BY <1>2
<1> HIDE DEF pairs, f
<1>9. Listed(t, pairs)
  <2>1. \A pr \in pairs : IsContainer(t.nodes[pr[1]]) /\ t.nodes[pr[1]].children = <<pr[2]>>
    BY <1>3, <1>8
  <2>2. ASSUME NEW pr \in pairs, NEW qr \in pairs, pr[2] = qr[2], pr[2] \in Nodes(t)
        PROVE  pr = qr
    <3>1. pr[2] \in ToSet(t.nodes[pr[1]].children) /\ qr[2] \in ToSet(t.nodes[qr[1]].children)
      BY <1>3, <1>8
    <3>2. t.nodes[pr[2]].parent = pr[1] /\ t.nodes[pr[2]].parent = qr[1]
      BY <1>1, <1>8, <2>2, <3>1 DEF Sound, Links
    <3> QED BY <1>8, <2>2, <3>2
  <2> QED BY <2>1, <2>2 DEF Listed
<1>10. Doomed(t, pairs) = {}
  BY <1>8 DEF Doomed
<1>11. ASSUME Broken(t) PROVE \E U \in SUBSET Nodes(t) : \E n \in U : Exposed(t, pairs, U, n)
  <2>1. PICK n \in Nodes(t) : Waits(t, n)
    BY <1>11 DEF Broken
  <2>2. Exposed(t, pairs, Nodes(t), n)
    BY <1>10, <2>1 DEF Exposed, Upward, Waits
  <2> QED BY <2>2
<1>12. Collapsing(t, pairs)
  BY <1>1, <1>7, <1>9, <1>10, <1>11 DEF Collapsing, Normal
<1> DEFINE v == [tree |-> t, left |-> pairs]
<1>13. v \in [tree : TreeSet, left : SUBSET (Nat \X Nat)] /\ v.tree = t /\ v.left = pairs
  BY <1>1, <1>7 DEF IsTree
<1> HIDE DEF v
<1>14. v \in Stages(t)
  BY <1>12, <1>13, NarrowedSame DEF Stages
<1> QED BY <1>6, <1>12, <1>14 DEF v, pairs

\* The first two parts of a round
LEMMA DropsOK ==
  ASSUME NEW t, Normal(t)
  PROVE  /\ Normal(DropTemporal(t)) /\ Narrowed(t, DropTemporal(t))
         /\ DropTemporal(t).endless = t.endless
         /\ Normal(DropChildless(t)) /\ Narrowed(t, DropChildless(t))
         /\ DropChildless(t).endless = t.endless
<1> DEFINE ns == {n \in DOMAIN t.nodes : /\ ~IsContainer(t.nodes[n])
                                         /\ t.nodes[n].temporal
                                         /\ t.nodes[n].windows = <<>>}
           os == {n \in DOMAIN t.nodes : /\ IsContainer(t.nodes[n])
                                         /\ t.nodes[n].children = <<>>}
<1>1. Shapes(t)
  BY DEF Normal, Sound
<1>2. /\ ns \in SUBSET Nodes(t)
      /\ \A n \in ns : t.nodes[n].children = <<>> /\ t.nodes[n].windows = <<>>
  BY <1>1 DEF Shapes, NodeShape, Nodes
<1>3. /\ os \in SUBSET Nodes(t)
      /\ \A n \in os : t.nodes[n].children = <<>> /\ t.nodes[n].windows = <<>>
  BY <1>1 DEF Shapes, NodeShape, Nodes
<1>4. DropTemporal(t) = Dropped(t, ns) /\ DropChildless(t) = Dropped(t, os)
  BY DEF DropTemporal, DropChildless
<1> HIDE DEF ns, os
<1> QED BY <1>2, <1>3, <1>4, DroppedOK

\* One pair less with every step: at the end none is left.
LEMMA CollapseEnds ==
  ASSUME NEW t, NEW pairs, IsFiniteSet(pairs),
         NEW g \in CollapseRuns(t, Cardinality(pairs), {[tree |-> t, left |-> pairs]}),
         NEW s \in g[Cardinality(pairs)]
  PROVE  s \in Stages(t) /\ s.left = {}
<1> DEFINE n == Cardinality(pairs)
           Fewer(k) == \A r \in g[k] : IsFiniteSet(r.left) /\ Cardinality(r.left) = n - k
           N == {k \in 0..n : Fewer(k)}
<1>1. n \in Nat
  BY FS_CardinalityType
<1>2. /\ g \in [0..n -> SUBSET Stages(t)] /\ g[0] = {[tree |-> t, left |-> pairs]}
      /\ \A k \in 1..n : g[k] = CollapsedOnce(g[k - 1])
  BY DEF CollapseRuns
<1>3. 0 \in N
  <2>1. \A r \in g[0] : r.left = pairs
    BY <1>2
  <2> QED BY <1>1, <2>1
<1>4. ASSUME NEW k \in 0..n, k < n, k \in N PROVE k + 1 \in N
  <2>1. k + 1 \in 1..n /\ (k + 1) - 1 = k /\ k + 1 \in 0..n /\ (n - k) - 1 = n - (k + 1)
    BY <1>1, <1>4
  <2>2. g[k + 1] = CollapsedOnce(g[k])
    BY <1>2, <2>1
  <2>3. ASSUME NEW r \in g[k], NEW p \in r.left
        PROVE  IsFiniteSet(r.left \ {p}) /\ Cardinality(r.left \ {p}) = n - (k + 1)
    <3>1. IsFiniteSet(r.left) /\ Cardinality(r.left) = n - k
      BY <1>4, <2>3
    <3>2. IsFiniteSet(r.left \ {p}) /\ Cardinality(r.left \ {p}) = Cardinality(r.left) - 1
      BY <2>3, <3>1, FS_RemoveElement
    <3> QED BY <2>1, <3>1, <3>2
  <2>4. Fewer(k + 1)
    <3> SUFFICES ASSUME NEW q \in g[k + 1]
                 PROVE  IsFiniteSet(q.left) /\ Cardinality(q.left) = n - (k + 1)
      OBVIOUS
    <3>0. PICK r \in g[k] : \E p \in r.left :
            q = [tree |-> CollapseOne(r.tree, p), left |-> r.left \ {p}]
      BY <2>2 DEF CollapsedOnce
    <3>1. PICK p \in r.left : q = [tree |-> CollapseOne(r.tree, p), left |-> r.left \ {p}]
      BY <3>0
    <3>2. q.left = r.left \ {p}
      BY <3>1
    <3> QED BY <2>3, <3>2
  <2> QED BY <2>1, <2>4
<1>5. 0..n \subseteq N
  <2> HIDE DEF N
  <2> QED BY <1>1, <1>3, <1>4, BoundedInduction
<1>6. n \in 0..n
  BY <1>1
<1>7. s \in Stages(t)
  BY <1>2, <1>6
<1>8. IsFiniteSet(s.left) /\ Cardinality(s.left) = 0
  <2>1. Fewer(n) /\ n - n = 0
    BY <1>1, <1>5, <1>6
  <2> QED BY <2>1
<1> QED BY <1>7, <1>8, FS_EmptySet

\* A round keeps a tree sound or broken, and brings no new windows in.
LEMMA RoundOK ==
  ASSUME NEW t, Normal(t), NEW u \in Round(t)
  PROVE  Normal(u) /\ Narrowed(t, u) /\ u.endless = t.endless
<1> DEFINE kept == DropChildless(DropTemporal(t))
           pairs == ToCollapse(kept)
<1>1. Normal(kept) /\ Narrowed(t, kept) /\ kept.endless = t.endless
  <2>1. /\ Normal(DropTemporal(t)) /\ Narrowed(t, DropTemporal(t))
        /\ DropTemporal(t).endless = t.endless
    BY DropsOK
  <2> DEFINE d == DropTemporal(t)
  <2> HIDE DEF d
  <2>2. /\ Normal(d) => Normal(DropChildless(d)) /\ Narrowed(d, DropChildless(d))
        /\ Normal(d) => DropChildless(d).endless = d.endless
    BY DropsOK
  <2> QED BY <2>1, <2>2, NarrowedTwice DEF d
<1>2. /\ IsFiniteSet(pairs) /\ [tree |-> kept, left |-> pairs] \in Stages(kept)
  <2> HIDE DEF kept
  <2> QED BY <1>1, RoundStart
<1>3. Cardinality(pairs) \in Nat
  BY <1>2, FS_CardinalityType
<1>4. PICK g : /\ g \in CollapseRuns(kept, Cardinality(pairs), {[tree |-> kept, left |-> pairs]})
               /\ Round(t) = {s.tree : s \in g[Cardinality(pairs)]}
  BY <1>2, <1>3, RoundSteps
<1>5. PICK s \in g[Cardinality(pairs)] : u = s.tree
  BY <1>4
<1> HIDE DEF kept, pairs
<1>6. s \in Stages(kept) /\ s.left = {}
  BY <1>2, <1>4, <1>5, CollapseEnds
<1>7. Collapsing(u, {}) /\ Narrowed(kept, u) /\ u.endless = kept.endless
  BY <1>5, <1>6 DEF Stages
<1>8. Normal(u)
  <2>1. Doomed(u, {}) = {}
    BY DEF Doomed
  <2>2. ASSUME NEW U \in SUBSET Nodes(u), NEW n \in U, Exposed(u, {}, U, n)
        PROVE  Broken(u)
    BY <2>1, <2>2 DEF Exposed, Broken, Waits
  <2> QED BY <1>7, <2>2 DEF Collapsing, Normal
<1> QED BY <1>1, <1>7, <1>8, NarrowedTwice

\* The trees a loop of normalize may go through
Normals(t) == {s \in TreeSet : Normal(s) /\ Narrowed(t, s) /\ s.endless = t.endless}

Rounds(S) == UNION {Round(s) : s \in S}

\* The same for all the trees a loop may be at
LEMMA RoundsNormal ==
  ASSUME NEW t, NEW S \in SUBSET Normals(t)
  PROVE  Rounds(S) \in SUBSET Normals(t)
<1> SUFFICES ASSUME NEW s \in S, NEW u \in Round(s) PROVE u \in Normals(t)
  BY DEF Rounds
<1>1. Normal(s) /\ Narrowed(t, s) /\ s.endless = t.endless
  BY DEF Normals
<1>2. Normal(u) /\ Narrowed(s, u) /\ u.endless = s.endless
  BY <1>1, RoundOK
<1>3. Narrowed(t, u) /\ u \in TreeSet
  BY <1>1, <1>2, NarrowedTwice DEF Normal, Sound, IsTree
<1> QED BY <1>1, <1>2, <1>3 DEF Normals

PlainTree(t) == [t EXCEPT !.nodes = [n \in DOMAIN t.nodes |-> Plain(t.nodes[n])]]

\* Stacks the user made that are down to one window become leaves.
LEMMA PlainOK ==
  ASSUME NEW t, TreeOK(t)
  PROVE  LET u == PlainTree(t)
         IN  TreeOK(u) /\ Narrowed(t, u) /\ u.endless = t.endless
<1> DEFINE u == PlainTree(t)
           nodes == [n \in Nodes(t) |-> Plain(t.nodes[n])]
<1>1. IsTree(t)
  BY DEF TreeOK
<1>2. \A n \in Nodes(t) :
        /\ Plain(t.nodes[n]) \in NodeSet
        /\ Plain(t.nodes[n]).parent = t.nodes[n].parent
        /\ Plain(t.nodes[n]).children = t.nodes[n].children
        /\ Plain(t.nodes[n]).windows = t.nodes[n].windows
        /\ Plain(t.nodes[n]).active = t.nodes[n].active
        /\ \/ Plain(t.nodes[n]) = t.nodes[n]
           \/ /\ Plain(t.nodes[n]).kind = "Leaf" /\ t.nodes[n].kind = "Stack"
              /\ Len(t.nodes[n].windows) <= 1
  <2> TAKE n \in Nodes(t)
  <2>1. t.nodes[n] \in NodeSet
    BY <1>1, NodeParts
  <2> QED BY <2>1 DEF NodeSet, Plain
<1>3. nodes \in Partial(Nat, NodeSet) /\ DOMAIN nodes = Nodes(t)
  <2>1. Nodes(t) \subseteq Nat
    BY <1>1, TreeParts
  <2> QED BY <1>2, <2>1, PartialFunction
<1>4. u = [t EXCEPT !.nodes = nodes]
  BY DEF PlainTree, Nodes
<1>5. \A n \in Nodes(t) :
        /\ nodes[n].parent = t.nodes[n].parent /\ nodes[n].children = t.nodes[n].children
        /\ nodes[n].windows = t.nodes[n].windows /\ nodes[n].active = t.nodes[n].active
        /\ \/ nodes[n] = t.nodes[n]
           \/ /\ nodes[n].kind = "Leaf" /\ t.nodes[n].kind = "Stack"
              /\ Len(t.nodes[n].windows) <= 1
  BY <1>2
<1> HIDE DEF nodes
<1>6. /\ u \in TreeSet /\ u.nodes = nodes /\ u.at = t.at /\ u.time = t.time
      /\ u.floating = t.floating /\ u.root = t.root /\ u.next = t.next
      /\ u.endless = t.endless
  BY <1>1, <1>3, <1>4 DEF IsTree, TreeSet
<1> HIDE DEF u
<1>7. Nodes(u) = Nodes(t) /\ IsTree(u)
  BY <1>1, <1>3, <1>6 DEF Nodes, IsTree
<1>8. Skeleton(u)
  <2>1. SameLinks(t, u)
    BY <1>5, <1>6, <1>7 DEF SameLinks
  <2> QED BY <2>1, SameLinksSkeleton DEF TreeOK
<1>9. Shapes(u)
  <2> SUFFICES ASSUME NEW n \in Nodes(t) PROVE NodeShape(nodes[n])
    BY <1>6, <1>7 DEF Shapes
  <2>1. NodeShape(t.nodes[n])
    BY DEF TreeOK, Shapes
  <2> QED BY <1>5, <2>1 DEF NodeShape, IsContainer
<1>10. Agreement(u) /\ Mapped(u)
  BY <1>5, <1>6, <1>7 DEF TreeOK, Agreement, Mapped
<1>11. Narrowed(t, u)
  <2>1. \A n \in Nodes(u) : IsContainer(u.nodes[n]) => IsContainer(t.nodes[n])
    BY <1>5, <1>6, <1>7 DEF IsContainer
  <2>2. ASSUME NEW n \in Nodes(t), IsKept(t.nodes[n]) PROVE IsKept(nodes[n])
    <3>1. Len(t.nodes[n].windows) \in Nat
      BY <1>1, NodeParts
    <3> QED BY <1>5, <2>2, <3>1 DEF IsKept
  <2> QED BY <1>6, <1>7, <2>1, <2>2 DEF Narrowed
<1> QED BY <1>6, <1>7, <1>8, <1>9, <1>10, <1>11 DEF TreeOK, u

\* normalize ends in a whole tree, or never.
LEMMA NormalizeOK ==
  ASSUME NEW t, TreeOK(t), t.endless = FALSE, NEW u \in Normalize(t)
  PROVE  IsTree(u) /\ Narrowed(t, u) /\ (u.endless \/ TreeOK(u))
<1> DEFINE plain == PlainTree(t)
           n == Cardinality(DOMAIN t.nodes)
           V == SUBSET Normals(plain)
           next == [k \in 1..n |-> [S \in V |-> Rounds(S)]]
           after[k \in 0..n] ==
             IF k = 0 THEN {plain} ELSE UNION {Round(s) : s \in after[k - 1]}
           eq(h) == [k \in 0..n |->
             IF k = 0 THEN {plain} ELSE UNION {Round(s) : s \in h[k - 1]}]
<1>1. TreeOK(plain) /\ Narrowed(t, plain) /\ plain.endless = FALSE
  BY PlainOK
<1>2. n \in Nat
  BY TreeParts DEF TreeOK, Nodes
<1>3. Normalize(t) = {[s EXCEPT !.endless = ToCollapse(s) # {}] : s \in after[n]}
  BY DEF Normalize, PlainTree
<1> HIDE DEF plain, n
<1>4. {plain} \in V
  BY <1>1, NarrowedSame DEF Normals, Normal, Sound, TreeOK, Skeleton, IsTree
<1>5. \A S \in V : Rounds(S) \in V
  BY RoundsNormal
<1> HIDE DEF V
<1>6. next \in [1..n -> [V -> V]]
  BY <1>5
<1>7. PICK g : g \in Runs(V, n, {plain}, next)
  <2> HIDE DEF next
  <2> QED BY <1>2, <1>4, <1>6, Recursion
<1>8. /\ g \in [0..n -> V] /\ g[0] = {plain}
      /\ \A k \in 1..n : g[k] = next[k][g[k - 1]]
  BY <1>7 DEF Runs
<1>9. ASSUME NEW k \in 1..n PROVE g[k] = Rounds(g[k - 1])
  <2>1. g[k - 1] \in V
    BY <1>2, <1>8
  <2>2. \A S \in V : next[k][S] = Rounds(S)
    OBVIOUS
  <2> HIDE DEF next
  <2> QED BY <1>8, <2>1, <2>2
<1> HIDE DEF next
<1>10. g = eq(g)
  <2>1. ASSUME NEW k \in 0..n
        PROVE  g[k] = IF k = 0 THEN {plain} ELSE Rounds(g[k - 1])
    <3>1. k = 0 \/ k \in 1..n
      BY <1>2
    <3> QED BY <1>8, <1>9, <3>1
  <2>2. eq(g) = [k \in 0..n |-> IF k = 0 THEN {plain} ELSE Rounds(g[k - 1])]
    BY DEF Rounds
  <2> HIDE DEF eq
  <2> QED BY <1>8, <2>1, <2>2
<1>11. after = eq(after)
  <2>1. \E h : h = eq(h)
    <3> HIDE DEF eq, after
    <3> QED BY <1>10
  <2> QED BY <2>1, Zenon
<1> HIDE DEF after
<1>12. after = [k \in 0..n |-> IF k = 0 THEN {plain} ELSE Rounds(after[k - 1])]
  BY <1>11 DEF Rounds
<1> HIDE DEF eq
<1>13. after[n] \in V
  <2>1. 0 \in 0..n /\ n \in 0..n /\ \A k \in 1..n : k \in 0..n /\ k # 0
    BY <1>2
  <2>2. after[0] = {plain} /\ \A k \in 1..n : after[k] = Rounds(after[k - 1])
    BY <1>12, <2>1
  <2>3. \A k \in 1..n : after[k - 1] \in V => after[k] \in V
    BY <1>5, <2>2
  <2>4. \A k \in 0..n : after[k] \in V
    BY <1>2, <1>4, <2>2, <2>3, Steps
  <2> QED BY <2>1, <2>4
<1>14. PICK s \in Normals(plain) : u = [s EXCEPT !.endless = ToCollapse(s) # {}]
  BY <1>3, <1>13 DEF V
<1>15. s \in TreeSet /\ Normal(s) /\ Narrowed(plain, s) /\ IsTree(s)
  BY <1>14 DEF Normals, Normal, Sound
<1>16. /\ u \in TreeSet /\ u.endless = (ToCollapse(s) # {})
       /\ u.nodes = s.nodes /\ u.at = s.at /\ u.time = s.time
       /\ u.floating = s.floating /\ u.root = s.root /\ u.next = s.next
  BY <1>14, <1>15 DEF TreeSet
<1>17. Nodes(u) = Nodes(s) /\ IsTree(u)
  BY <1>15, <1>16 DEF Nodes, IsTree
<1>18. Narrowed(t, u)
  <2>1. Narrowed(t, s)
    BY <1>1, <1>15, NarrowedTwice
  <2> QED BY <1>16, <1>17, <2>1 DEF Narrowed
<1>19. TreeOK(s) => TreeOK(u)
  BY <1>16, <1>17 DEF TreeOK, Skeleton, Links, Acyclic, Closed, Shapes, Agreement, Mapped
<1>20. ASSUME Broken(s) PROVE u.endless
  <2>1. PICK m \in Nodes(s) : Waits(s, m)
    BY <1>20 DEF Broken
  <2>2. <<m, s.nodes[m].children[1]>> \in ToCollapse(s)
    BY <2>1 DEF ToCollapse, Waits, Nodes
  <2> QED BY <1>16, <2>2
<1> QED BY <1>15, <1>17, <1>18, <1>19, <1>20 DEF Normal

\* A window less in the list of its node
LEMMA ActiveWithoutOK ==
  ASSUME NEW node \in NodeSet, NodeShape(node), IsInjective(node.windows),
         NEW w \in ToSet(node.windows)
  PROVE  LET ws == Minus(node.windows, {w})
             a == ActiveWithout(node, w)
         IN  /\ ws \in Seq(Window) /\ ToSet(ws) = ToSet(node.windows) \ {w} /\ IsInjective(ws)
             /\ IF ws = <<>> THEN a = None ELSE a \in ToSet(ws)
             /\ node.kind = "Leaf" => Len(ws) <= 1
<1> DEFINE old == node.windows
           ws == Minus(old, {w})
           a == ActiveWithout(node, w)
           i == PositionOf(old, w)
<1>1. old \in Seq(Window)
  BY DEF NodeSet
<1>2. ws \in Seq(Window) /\ ToSet(ws) = ToSet(old) \ {w} /\ IsInjective(ws)
  BY <1>1, MinusElements
<1>3. Len(old) \in Nat /\ DOMAIN old = 1..Len(old)
  BY <1>1
<1>4. i \in DOMAIN old /\ old[i] = w
  BY DEF PositionOf, ToSet
<1>5. /\ a = IF node.active # w THEN node.active
             ELSE IF i < Len(old) THEN old[i + 1]
             ELSE IF i > 1 THEN old[i - 1] ELSE None
  BY DEF ActiveWithout
<1>6. old # <<>> /\ node.active \in ToSet(old)
  <2>1. old # <<>>
    BY <1>3, <1>4
  <2> QED BY <2>1 DEF NodeShape
<1> HIDE DEF ws, a, i, old
<1>7. \A j \in DOMAIN old : j # i => old[j] \in ToSet(ws)
  <2> TAKE j \in DOMAIN old
  <2> HAVE j # i
  <2>1. old[j] # w
    BY <1>4 DEF IsInjective, old
  <2>2. old[j] \in ToSet(old)
    BY DEF ToSet
  <2> QED BY <1>2, <2>1, <2>2
<1>8. CASE node.active # w \/ i < Len(old) \/ i > 1
  <2>1. a \in ToSet(ws)
    <3>1. CASE node.active # w
      BY <1>2, <1>5, <1>6, <3>1
    <3>2. CASE node.active = w /\ i < Len(old)
      <4>1. i + 1 \in DOMAIN old /\ i + 1 # i
        BY <1>3, <1>4, <3>2
      <4> QED BY <1>5, <1>7, <3>2, <4>1
    <3>3. CASE node.active = w /\ ~(i < Len(old)) /\ i > 1
      <4>1. i - 1 \in DOMAIN old /\ i - 1 # i
        BY <1>3, <1>4, <3>3
      <4> QED BY <1>5, <1>7, <3>3, <4>1
    <3> QED BY <1>8, <3>1, <3>2, <3>3
  <2>2. ToSet(<<>>) = {}
    BY DEF ToSet
  <2>3. node.kind = "Leaf" => Len(ws) <= 1
    <3> SUFFICES ASSUME node.kind = "Leaf" PROVE Len(ws) <= 1
      OBVIOUS
    <3>0. Len(old) <= 1
      BY DEF NodeShape, old
    <3>1. Len(old) = 1 /\ i = 1
      BY <1>3, <1>4, <3>0
    <3>2. ToSet(old) = {w}
      BY <1>3, <1>4, <3>1 DEF ToSet
    <3>3. ws = <<>>
      BY <1>2, <3>2, NoElements
    <3> QED BY <3>3
  <2> QED BY <1>2, <2>1, <2>2, <2>3 DEF ws, a, old
<1>9. CASE node.active = w /\ ~(i < Len(old)) /\ ~(i > 1)
  <2>1. i = 1 /\ Len(old) = 1
    BY <1>3, <1>4, <1>9
  <2>2. ToSet(old) = {w}
    BY <1>3, <1>4, <2>1 DEF ToSet
  <2>3. ws = <<>>
    BY <1>2, <2>2, NoElements
  <2>4. Len(ws) <= 1 /\ a = None
    BY <1>5, <1>9, <2>1, <2>3
  <2> QED BY <1>2, <2>3, <2>4 DEF ws, a, old
<1> QED BY <1>8, <1>9

-----------------------------------------------------------------------------
(* Removing and adding one window *)

\* New windows and a new active one in one node
LEMMA NodeReplaced ==
  ASSUME NEW t, IsTree(t), NEW n \in Nodes(t), NEW new \in NodeSet,
         new.parent = t.nodes[n].parent, new.children = t.nodes[n].children
  PROVE  LET u == [t EXCEPT !.nodes[n] = new]
         IN  /\ IsTree(u) /\ SameLinks(t, u) /\ u.next = t.next /\ u.endless = t.endless
             /\ u.at = t.at /\ u.time = t.time /\ u.floating = t.floating
             /\ u.nodes[n] = new /\ \A m \in Nodes(t) \ {n} : u.nodes[m] = t.nodes[m]
<1> DEFINE nodes == [t.nodes EXCEPT ![n] = new]
           u == [t EXCEPT !.nodes[n] = new]
<1>1. t.nodes \in [Nodes(t) -> NodeSet] /\ Nodes(t) \subseteq Nat
  BY TreeParts
<1>2. /\ nodes \in Partial(Nat, NodeSet) /\ DOMAIN nodes = Nodes(t)
      /\ nodes[n] = new /\ \A m \in Nodes(t) \ {n} : nodes[m] = t.nodes[m]
  BY <1>1, PartialFunction
<1>3. u = [t EXCEPT !.nodes = nodes]
  BY DEF IsTree, TreeSet
<1> HIDE DEF nodes
<1>4. /\ u \in TreeSet /\ u.nodes = nodes /\ u.at = t.at /\ u.time = t.time
      /\ u.floating = t.floating /\ u.root = t.root /\ u.next = t.next
      /\ u.endless = t.endless
  BY <1>2, <1>3 DEF IsTree, TreeSet
<1> HIDE DEF u
<1>5. Nodes(u) = Nodes(t)
  BY <1>2, <1>4 DEF Nodes
<1>6. IsTree(u)
  BY <1>4, <1>5 DEF IsTree
<1>7. SameLinks(t, u)
  BY <1>2, <1>4, <1>5 DEF SameLinks
<1> QED BY <1>2, <1>4, <1>6, <1>7 DEF u

\* A window leaves its node.
LEMMA TakenOutOK ==
  ASSUME NEW t, TreeOK(t), NEW w \in Window
  PROVE  LET u == TakenOut(t, w)
         IN  /\ TreeOK(u) /\ SameFrame(t, u) /\ Managed(u) = Managed(t) \ {w}
             /\ DOMAIN u.at = DOMAIN t.at \ {w}
             /\ \A v \in DOMAIN u.at : u.at[v] = t.at[v]
<1> DEFINE u == TakenOut(t, w)
<1>1. IsTree(t) /\ Skeleton(t) /\ Shapes(t) /\ Agreement(t) /\ Mapped(t)
  BY DEF TreeOK
<1>2. CASE w \notin DOMAIN t.at
  <2>1. u = [t EXCEPT !.floating = t.floating \ {w}]
    BY <1>2 DEF TakenOut
  <2>2. /\ u \in TreeSet /\ u.nodes = t.nodes /\ u.at = t.at /\ u.time = t.time
        /\ u.floating = t.floating \ {w} /\ u.root = t.root /\ u.next = t.next
        /\ u.endless = t.endless
    BY <1>1, <2>1 DEF IsTree, TreeSet
  <2> HIDE DEF u
  <2>3. Nodes(u) = Nodes(t) /\ IsTree(u)
    BY <1>1, <2>2 DEF Nodes, IsTree
  <2>4. SameFrame(t, u)
    BY <2>2, <2>3 DEF SameFrame, SameLinks
  <2>5. Skeleton(u)
    BY <1>1, <2>4, SameLinksSkeleton DEF SameFrame
  <2>6. Shapes(u) /\ Agreement(u) /\ Mapped(u)
    BY <1>1, <2>2, <2>3 DEF Shapes, Agreement, Mapped
  <2>7. Managed(u) = Managed(t) \ {w}
    BY <1>2, <2>2 DEF Managed
  <2>8. DOMAIN u.at = DOMAIN t.at \ {w} /\ \A v \in DOMAIN u.at : u.at[v] = t.at[v]
    BY <1>2, <2>2
  <2> QED BY <2>3, <2>4, <2>5, <2>6, <2>7, <2>8 DEF TreeOK, u
<1>3. CASE w \in DOMAIN t.at
  <2> DEFINE n == t.at[w]
             node == t.nodes[n]
             ws == Minus(node.windows, {w})
             a == ActiveWithout(node, w)
             new == [node EXCEPT !.windows = ws, !.active = a]
             x == Without(t, {w})
  <2>1. n \in Nodes(t) /\ node \in NodeSet /\ NodeShape(node)
    BY <1>1, <1>3, NodeParts DEF Mapped, Shapes
  <2>2. /\ ToSet(node.windows) = {v \in DOMAIN t.at : t.at[v] = n}
        /\ IsInjective(node.windows) /\ w \in ToSet(node.windows)
    BY <1>1, <1>3, <2>1 DEF Agreement
  <2>3. /\ ws \in Seq(Window) /\ ToSet(ws) = ToSet(node.windows) \ {w} /\ IsInjective(ws)
        /\ IF ws = <<>> THEN a = None ELSE a \in ToSet(ws)
        /\ node.kind = "Leaf" => Len(ws) <= 1
    <3> HIDE DEF node
    <3> QED BY <2>1, <2>2, ActiveWithoutOK
  <2>4. u = [x EXCEPT !.nodes[n] = new]
    BY <1>3 DEF TakenOut
  <2>5. /\ x \in TreeSet /\ DOMAIN x.at = DOMAIN t.at \ {w} /\ DOMAIN x.time = DOMAIN x.at
        /\ \A v \in DOMAIN x.at : x.at[v] = t.at[v]
        /\ x.floating = t.floating /\ x.nodes = t.nodes
        /\ x.root = t.root /\ x.next = t.next /\ x.endless = t.endless
    BY <1>1, WithoutFields
  <2> HIDE DEF ws, a, x, n
  <2>6. /\ new \in NodeSet /\ new.windows = ws /\ new.active = a
        /\ new.parent = node.parent /\ new.children = node.children
        /\ new.kind = node.kind /\ new.policy = node.policy
    <3>1. a \in Window \cup {None}
      BY <2>1, <2>2, <2>3, <1>1, TreeParts
    <3> QED BY <2>1, <2>3, <3>1 DEF NodeSet
  <2>7. Nodes(x) = Nodes(t) /\ IsTree(x) /\ SameFrame(t, x)
    BY <1>1, <2>5 DEF Nodes, IsTree, SameFrame, SameLinks
  <2> HIDE DEF new, u
  <2>8. /\ IsTree(u) /\ SameLinks(x, u) /\ u.next = x.next /\ u.endless = x.endless
        /\ u.at = x.at /\ u.floating = x.floating
        /\ u.nodes[n] = new /\ \A m \in Nodes(t) \ {n} : u.nodes[m] = t.nodes[m]
    BY <2>1, <2>4, <2>5, <2>6, <2>7, NodeReplaced
  <2>9. SameFrame(t, u) /\ Nodes(u) = Nodes(t)
    BY <2>5, <2>6, <2>7, <2>8 DEF SameFrame, SameLinks
  <2>10. Skeleton(u)
    BY <1>1, <2>9, SameLinksSkeleton DEF SameFrame
  <2>11. Shapes(u)
    <3> SUFFICES ASSUME NEW m \in Nodes(t) PROVE NodeShape(u.nodes[m])
      BY <2>9 DEF Shapes
    <3>1. CASE m # n
      BY <1>1, <2>8, <3>1 DEF Shapes
    <3>2. CASE m = n
      <4>1. node.windows # <<>>
        <5>1. ToSet(<<>>) = {}
          BY DEF ToSet
        <5> QED BY <2>2, <5>1
      <4> QED BY <2>1, <2>3, <2>6, <2>8, <3>2, <4>1 DEF NodeShape, IsContainer
    <3> QED BY <3>1, <3>2
  <2>12. Agreement(u)
    <3>1. u.floating \cap DOMAIN u.at = {}
      BY <1>1, <2>5, <2>8 DEF Agreement
    <3>2. ASSUME NEW m \in Nodes(t)
          PROVE  /\ ToSet(u.nodes[m].windows) = {v \in DOMAIN u.at : u.at[v] = m}
                 /\ IsInjective(u.nodes[m].windows)
      <4>1. CASE m # n
        <5>1. {v \in DOMAIN u.at : u.at[v] = m} = {v \in DOMAIN t.at : t.at[v] = m}
          BY <2>5, <2>8, <4>1 DEF n
        <5> QED BY <1>1, <2>8, <4>1, <5>1 DEF Agreement
      <4>2. CASE m = n
        <5>1. {v \in DOMAIN u.at : u.at[v] = n} = {v \in DOMAIN t.at : t.at[v] = n} \ {w}
          BY <2>5, <2>8
        <5> QED BY <2>2, <2>3, <2>6, <2>8, <4>2, <5>1
      <4> QED BY <4>1, <4>2
    <3> QED BY <2>9, <3>1, <3>2 DEF Agreement
  <2>13. Mapped(u)
    BY <1>1, <2>5, <2>8, <2>9 DEF Mapped
  <2>14. Managed(u) = Managed(t) \ {w}
    BY <1>1, <1>3, <2>5, <2>8 DEF Managed, Agreement
  <2>15. DOMAIN u.at = DOMAIN t.at \ {w} /\ \A v \in DOMAIN u.at : u.at[v] = t.at[v]
    BY <2>5, <2>8
  <2>16. TreeOK(u)
    BY <2>8, <2>10, <2>11, <2>12, <2>13 DEF TreeOK
  <2> QED BY <2>9, <2>14, <2>15, <2>16 DEF u
<1> QED BY <1>2, <1>3

\* What a change may do to the nodes: no node that was there becomes a
\* container. A reservation counts on it.
Kin(t, u) ==
  /\ u.next >= t.next
  /\ \A n \in Nodes(u) : n < t.next /\ IsContainer(u.nodes[n]) =>
       n \in Nodes(t) /\ IsContainer(t.nodes[n])

\* Windows that share a kept stack, as long as both are managed
Together(t, u) ==
  \A n \in Nodes(t) : IsKept(t.nodes[n]) =>
    \A a, b \in ToSet(t.nodes[n].windows) :
      a # b /\ a \in Managed(u) /\ b \in Managed(u) =>
        a \in DOMAIN u.at /\ b \in DOMAIN u.at /\ u.at[a] = u.at[b]

\* A tree with the same frame is kin.
LEMMA SameFrameKin ==
  ASSUME NEW t, NEW u, IsTree(t), SameFrame(t, u)
  PROVE  Kin(t, u)
<1>1. t.next \in Nat
  BY TreeParts
<1> QED BY <1>1 DEF SameFrame, SameLinks, Kin, IsContainer

\* RemoveWindow, normalize included, ends in a sound tree without the window or
\* never. Windows of a kept stack stay together.
LEMMA RemoveWindowOK ==
  ASSUME NEW t, TreeOK(t), t.endless = FALSE, NEW w \in Window, NEW u \in RemoveWindow(t, w)
  PROVE  /\ IsTree(u) /\ (u.endless \/ TreeOK(u)) /\ Managed(u) = Managed(t) \ {w}
         /\ Kin(t, u) /\ Together(t, u)
<1> DEFINE x == TakenOut(t, w)
<1>1. /\ TreeOK(x) /\ SameFrame(t, x) /\ Managed(x) = Managed(t) \ {w}
      /\ DOMAIN x.at = DOMAIN t.at \ {w}
      /\ \A v \in DOMAIN x.at : x.at[v] = t.at[v]
  BY TakenOutOK
<1>2. PICK s \in Normalize(x) : u = IF s.endless THEN s ELSE Reindex(s)
  BY DEF RemoveWindow
<1> HIDE DEF x
<1>3. x.endless = FALSE /\ x.next = t.next /\ Nodes(x) = Nodes(t)
  BY <1>1 DEF SameFrame, SameLinks
<1>4. IsTree(s) /\ Narrowed(x, s) /\ (s.endless \/ TreeOK(s))
  BY <1>1, <1>2, <1>3, NormalizeOK
<1>5. Managed(s) = Managed(t) \ {w} /\ s.next = t.next /\ t.next \in Nat
  BY <1>1, <1>3, <1>4, TreeParts DEF Narrowed, Managed, TreeOK
<1>6. Kin(t, s)
  BY <1>1, <1>3, <1>4, <1>5 DEF Kin, Narrowed, SameFrame, SameLinks, IsContainer
\* Two windows of a kept stack that stay are in one kept stack of x.
<1>7. ASSUME NEW n \in Nodes(t), IsKept(t.nodes[n]),
             NEW a \in ToSet(t.nodes[n].windows), NEW b \in ToSet(t.nodes[n].windows),
             a # b, a # w, b # w
      PROVE  /\ a \in DOMAIN s.at /\ b \in DOMAIN s.at /\ s.at[a] = s.at[b]
             /\ s.at[a] \notin Nodes(s) \/ IsKept(s.nodes[s.at[a]])
  <2>1. a \in DOMAIN t.at /\ b \in DOMAIN t.at /\ t.at[a] = n /\ t.at[b] = n
    BY <1>7 DEF TreeOK, Agreement
  <2>2. a \in DOMAIN x.at /\ b \in DOMAIN x.at /\ x.at[a] = n /\ x.at[b] = n
    BY <1>1, <1>7, <2>1
  <2>3. IsKept(x.nodes[n])
    <3> DEFINE ws == x.nodes[n].windows
    <3>1. ws \in Seq(Window) /\ a \in ToSet(ws) /\ b \in ToSet(ws)
      BY <1>1, <1>3, <2>2, NodeParts DEF TreeOK, Agreement
    <3> HIDE DEF ws
    <3>2. Len(ws) >= 2
      <4>1. PICK i \in DOMAIN ws : ws[i] = a
        BY <3>1 DEF ToSet
      <4>2. PICK j \in DOMAIN ws : ws[j] = b
        BY <3>1 DEF ToSet
      <4>3. i # j /\ i \in 1..Len(ws) /\ j \in 1..Len(ws) /\ Len(ws) \in Nat
        BY <1>7, <3>1, <4>1, <4>2
      <4> QED BY <4>3
    <3>3. x.nodes[n].kind = t.nodes[n].kind /\ x.nodes[n].policy = t.nodes[n].policy
      BY <1>1 DEF SameFrame
    <3> QED BY <1>7, <3>2, <3>3 DEF IsKept, ws
  <2> QED BY <1>4, <2>2, <2>3 DEF Narrowed
<1>8. w \notin Managed(s)
  BY <1>5
<1>9. CASE s.endless
  <2>1. u = s
    BY <1>2, <1>9
  <2>2. Together(t, s)
    BY <1>7, <1>8 DEF Together
  <2> QED BY <1>4, <1>5, <1>6, <2>1, <2>2
<1>10. CASE ~s.endless
  <2>1. u = Reindex(s) /\ TreeOK(s)
    BY <1>2, <1>4, <1>10
  <2>2. TreeOK(u) /\ SameFrame(s, u) /\ Managed(u) = Managed(s) /\ Untouched(s, u)
    BY <2>1, ReindexOK
  <2>3. Kin(t, u)
    BY <1>5, <1>6, <2>2 DEF Kin, SameFrame, SameLinks, IsContainer
  <2>4. Together(t, u)
    <3> SUFFICES ASSUME NEW n \in Nodes(t), IsKept(t.nodes[n]),
                        NEW a \in ToSet(t.nodes[n].windows), NEW b \in ToSet(t.nodes[n].windows),
                        a # b, a \in Managed(u), b \in Managed(u)
                 PROVE  a \in DOMAIN u.at /\ b \in DOMAIN u.at /\ u.at[a] = u.at[b]
      BY DEF Together
    <3>1. a # w /\ b # w
      BY <1>8, <2>2
    <3> DEFINE m == s.at[a]
    <3>2. /\ a \in DOMAIN s.at /\ b \in DOMAIN s.at /\ s.at[b] = m
          /\ m \in Nodes(s) /\ IsKept(s.nodes[m])
      BY <1>7, <2>1, <3>1 DEF TreeOK, Mapped
    <3>3. u.nodes[m] = s.nodes[m] /\ m \in Nodes(u)
      BY <2>2, <3>2 DEF Untouched, SameFrame, SameLinks
    <3>4. a \in ToSet(u.nodes[m].windows) /\ b \in ToSet(u.nodes[m].windows)
      BY <2>1, <3>2, <3>3 DEF TreeOK, Agreement
    <3> QED BY <2>2, <3>3, <3>4 DEF TreeOK, Agreement
  <2> QED BY <1>5, <2>2, <2>3, <2>4 DEF TreeOK
<1> QED BY <1>9, <1>10

\* What adding window w makes of a tree
Gains(t, u, w) ==
  /\ TreeOK(u) /\ Kin(t, u) /\ u.endless = t.endless
  /\ Managed(u) = Managed(t) \cup {w}
  /\ Together(t, u)

\* Windows that stay in their nodes stay together.
LEMMA StaysTogether ==
  ASSUME NEW t, NEW u, Agreement(t),
         \A v \in DOMAIN t.at : v \in DOMAIN u.at /\ u.at[v] = t.at[v]
  PROVE  Together(t, u)
BY DEF Agreement, Together

\* So do those of kept stacks that are left alone.
LEMMA UntouchedTogether ==
  ASSUME NEW t, NEW u, TreeOK(u), SameFrame(t, u), Untouched(t, u)
  PROVE  Together(t, u)
<1> SUFFICES ASSUME NEW n \in Nodes(t), IsKept(t.nodes[n]),
                    NEW a \in ToSet(t.nodes[n].windows), NEW b \in ToSet(t.nodes[n].windows)
             PROVE  a \in DOMAIN u.at /\ b \in DOMAIN u.at /\ u.at[a] = u.at[b]
  BY DEF Together
<1>1. u.nodes[n] = t.nodes[n] /\ n \in Nodes(u)
  BY DEF Untouched, SameFrame, SameLinks
<1> QED BY <1>1 DEF TreeOK, Agreement

\* AddToTiled adds a window,
LEMMA AddToTiledGains ==
  ASSUME NEW t, TreeOK(t), NEW w \in Window, w \notin DOMAIN t.at
  PROVE  Gains(t, AddToTiled(t, w), w)
<1> DEFINE u == AddToTiled(t, w)
<1>1. /\ TreeOK(u) /\ SameFrame(t, u) /\ Untouched(t, u)
      /\ Managed(u) = Managed(t) \cup {w}
  BY AddToTiledOK
<1> HIDE DEF u
<1>2. Kin(t, u) /\ Together(t, u) /\ u.endless = t.endless
  BY <1>1, SameFrameKin, UntouchedTogether DEF TreeOK, SameFrame
<1> QED BY <1>1, <1>2 DEF Gains, u

\* AddToFloating does,
LEMMA AddToFloatingGains ==
  ASSUME NEW t, TreeOK(t), NEW w \in Window, w \notin DOMAIN t.at
  PROVE  Gains(t, AddToFloating(t, w), w)
<1> DEFINE u == AddToFloating(t, w)
<1>0. IsTree(t)
  BY DEF TreeOK
<1>1. /\ TreeOK(u) /\ SameFrame(t, u) /\ u.at = t.at /\ u.floating = t.floating \cup {w}
  BY <1>0, AddToFloatingOK
<1> HIDE DEF u
<1>2. Kin(t, u) /\ Together(t, u) /\ u.endless = t.endless
  BY <1>0, <1>1, SameFrameKin, StaysTogether DEF TreeOK, SameFrame
<1>3. Managed(u) = Managed(t) \cup {w}
  BY <1>1 DEF Managed
<1> QED BY <1>1, <1>2, <1>3 DEF Gains, u

\* The node becomes a stack and shows the window, whatever it was.
LEMMA PushStackedGains ==
  ASSUME NEW t, TreeOK(t), NEW w \in Window, w \notin DOMAIN t.at,
         NEW n \in Nodes(t), ~IsContainer(t.nodes[n])
  PROVE  Gains(t, PushStacked(t, w, n), w)
<1> DEFINE new == Stacked(t.nodes[n])
           x == [t EXCEPT !.nodes[n] = new]
           p == Push(x, w, n)
           u == Ranked(p)
<1>1. IsTree(t) /\ Skeleton(t) /\ Shapes(t) /\ Agreement(t) /\ Mapped(t)
  BY DEF TreeOK
<1>2. /\ new \in NodeSet /\ new.kind = "Stack" /\ new.windows = t.nodes[n].windows
      /\ new.active = t.nodes[n].active /\ new.parent = t.nodes[n].parent
      /\ new.children = t.nodes[n].children
  <2>1. t.nodes[n] \in NodeSet
    BY <1>1, NodeParts
  <2> QED BY <2>1 DEF NodeSet, Stacked
<1>3. PushStacked(t, w, n) = u
  BY <1>1 DEF PushStacked, IsTree, TreeSet
<1> HIDE DEF new
<1>4. /\ IsTree(x) /\ SameLinks(t, x) /\ x.next = t.next /\ x.endless = t.endless
      /\ x.at = t.at /\ x.floating = t.floating
      /\ x.nodes[n] = new /\ \A m \in Nodes(t) \ {n} : x.nodes[m] = t.nodes[m]
  BY <1>1, <1>2, NodeReplaced
<1> HIDE DEF x
<1>5. Nodes(x) = Nodes(t) /\ Skeleton(x)
  BY <1>1, <1>4, SameLinksSkeleton DEF SameLinks
<1>6. Shapes(x)
  <2> SUFFICES ASSUME NEW m \in Nodes(t) PROVE NodeShape(x.nodes[m])
    BY <1>5 DEF Shapes
  <2>1. NodeShape(t.nodes[m])
    BY <1>1 DEF Shapes
  <2> QED BY <1>2, <1>4, <2>1 DEF NodeShape, IsContainer
<1>7. Agreement(x) /\ Mapped(x)
  BY <1>1, <1>2, <1>4, <1>5 DEF Agreement, Mapped
<1>8. TreeOK(x)
  BY <1>4, <1>5, <1>6, <1>7 DEF TreeOK
<1>9. TreeOK(p)
  BY <1>2, <1>4, <1>5, <1>8, PushOK
<1>10. /\ SameFrame(x, p) /\ DOMAIN p.at = DOMAIN x.at \cup {w}
       /\ \A v \in DOMAIN x.at \ {w} : p.at[v] = x.at[v]
       /\ p.floating = x.floating \ {w}
  BY <1>4, <1>5, PushFields
<1> HIDE DEF p
<1>11. /\ TreeOK(u) /\ SameFrame(p, u) /\ u.at = p.at /\ u.floating = p.floating
  BY <1>9, RankedOK DEF TreeOK
<1> HIDE DEF u
<1>12. Together(t, u)
  BY <1>1, <1>4, <1>10, <1>11, StaysTogether
<1>13. Managed(u) = Managed(t) \cup {w}
  BY <1>4, <1>10, <1>11 DEF Managed
<1>14. Kin(t, u) /\ u.endless = t.endless
  <2>1. SameFrame(x, u)
    BY <1>10, <1>11 DEF SameFrame, SameLinks
  <2>2. t.next \in Nat
    BY <1>1, TreeParts
  <2>3. \A m \in Nodes(t) : u.nodes[m].kind = x.nodes[m].kind
    BY <1>5, <2>1 DEF SameFrame
  <2>4. \A m \in Nodes(t) : IsContainer(u.nodes[m]) => IsContainer(t.nodes[m])
    BY <1>2, <1>4, <2>3 DEF IsContainer
  <2>5. Nodes(u) = Nodes(t) /\ u.next = t.next /\ u.endless = t.endless
    BY <1>4, <1>5, <2>1 DEF SameFrame, SameLinks
  <2> QED BY <2>2, <2>4, <2>5 DEF Kin
<1> QED BY <1>3, <1>11, <1>12, <1>13, <1>14 DEF Gains

\* A node with a window of the category is not a container.
LEMMA NodeOfCategoryHolds ==
  ASSUME NEW t, TreeOK(t), NEW w \in Window, NodeOfCategory(t, w) # None
  PROVE  NodeOfCategory(t, w) \in Nodes(t) /\ ~IsContainer(t.nodes[NodeOfCategory(t, w)])
<1> DEFINE ns == {n \in DOMAIN t.nodes :
                    /\ ~IsContainer(t.nodes[n])
                    /\ \E v \in ToSet(t.nodes[n].windows) : Category[v] = Category[w]}
<1>1. NodeOfCategory(t, w) = FirstOf(Preorder(t), ns)
  BY DEF NodeOfCategory, FirstNode
<1>2. Preorder(t) \in Seq(Nat)
  BY PreorderVisitsEach DEF TreeOK
<1>3. NodeOfCategory(t, w) \in ns
  <2> HIDE DEF ns
  <2> QED BY <1>1, <1>2, FirstOfIsThere
<1> QED BY <1>3 DEF Nodes

\* and PlacedByLayout.
LEMMA PlacedByLayoutGains ==
  ASSUME NEW t, TreeOK(t), NEW w \in Window, w \notin DOMAIN t.at
  PROVE  Gains(t, PlacedByLayout(t, w), w)
<1> DEFINE n == NodeOfCategory(t, w)
<1>1. PlacedByLayout(t, w) = IF n # None THEN PushStacked(t, w, n) ELSE AddToTiled(t, w)
  BY DEF PlacedByLayout
<1>2. n # None => n \in Nodes(t) /\ ~IsContainer(t.nodes[n])
  BY NodeOfCategoryHolds
<1> HIDE DEF n
<1> QED BY <1>1, <1>2, PushStackedGains, AddToTiledGains

-----------------------------------------------------------------------------
(* Splits and swaps *)

\* What replacing an element does to a sequence without repetition
LEMMA ReplacedElements ==
  ASSUME NEW T, NEW s \in Seq(T), NEW old, NEW new \in T, new \notin ToSet(s)
  PROVE  /\ ReplaceAll(s, old, new) \in Seq(T)
         /\ ToSet(ReplaceAll(s, old, new)) =
              IF old \in ToSet(s) THEN (ToSet(s) \ {old}) \cup {new} ELSE ToSet(s)
         /\ IsInjective(s) => IsInjective(ReplaceAll(s, old, new))
<1> DEFINE r == ReplaceAll(s, old, new)
<1>1. Len(s) \in Nat /\ DOMAIN s = 1..Len(s) /\ \A i \in DOMAIN s : s[i] \in T
  BY LenProperties, ElementOfSeq
<1>2. r = [i \in 1..Len(s) |-> IF s[i] = old THEN new ELSE s[i]]
  BY DEF ReplaceAll
<1> HIDE DEF r
<1>3. DOMAIN r = DOMAIN s /\ \A i \in DOMAIN s : r[i] = IF s[i] = old THEN new ELSE s[i]
  BY <1>1, <1>2
<1>4. r \in [1..Len(s) -> T]
  BY <1>1, <1>2, <1>3
<1>5. r \in Seq(T)
  BY <1>1, <1>4, IsASeq
<1>6. ToSet(r) = IF old \in ToSet(s) THEN (ToSet(s) \ {old}) \cup {new} ELSE ToSet(s)
  BY <1>3 DEF ToSet
<1>7. ASSUME IsInjective(s) PROVE IsInjective(r)
  <2>1. \A i \in DOMAIN s : s[i] # new
    BY DEF ToSet
  <2>2. \A i, j \in DOMAIN s : s[i] = s[j] => i = j
    BY <1>7 DEF IsInjective
  <2>3. \A i, j \in DOMAIN s : r[i] = r[j] => i = j
    BY <1>3, <2>1, <2>2
  <2> QED BY <1>3, <2>3 DEF IsInjective
<1> QED BY <1>5, <1>6, <1>7 DEF r

\* A node with a window gets a neighbour: both are below a new container that
\* takes the place of the node.
LEMMA SplitNodeGains ==
  ASSUME NEW t, TreeOK(t), NEW w \in Window, w \notin DOMAIN t.at,
         NEW n \in Nodes(t), ~IsContainer(t.nodes[n]), NEW side
  PROVE  Gains(t, SplitNode(t, n, side, w), w)
<1> DEFINE leaf == t.next
           box == t.next + 1
           node == t.nodes[n]
           up == node.parent
           fresh(kind, parent, kids, ws, active) ==
             [parent |-> parent, children |-> kids, kind |-> kind, temporal |-> TRUE,
              priority |-> node.priority, condition |-> None, max |-> None,
              policy |-> "Manual", windows |-> ws, active |-> active]
           kids == IF side = "before" THEN <<leaf, n>> ELSE <<n, leaf>>
           L == fresh("Leaf", box, <<>>, <<w>>, w)
           C == fresh("Split", up, kids, <<>>, None)
           below == [m \in DOMAIN t.nodes |->
                       CASE m = n -> [node EXCEPT !.parent = box]
                         [] m = up -> [t.nodes[m] EXCEPT !.children =
                                         ReplaceAll(t.nodes[m].children, n, box)]
                         [] OTHER -> t.nodes[m]]
           nodes == Inserted(Inserted(below, leaf, L), box, C)
           l == Located(t, w, leaf)
           root == IF up = None THEN box ELSE t.root
           x == [l EXCEPT !.next = t.next + 2, !.root = root, !.nodes = nodes]
           u == Ranked(x)
<1>1. IsTree(t) /\ Links(t) /\ Acyclic(t) /\ Closed(t) /\ Shapes(t) /\ Agreement(t) /\ Mapped(t)
  BY DEF TreeOK, Skeleton
<1>2. /\ leaf \in Nat /\ box \in Nat /\ leaf \notin Nodes(t) /\ box \notin Nodes(t) /\ leaf # box
      /\ n \in Nat /\ n # leaf /\ n # box /\ t.next + 2 \in Nat /\ n < t.next
      /\ Nodes(t) \subseteq Nat /\ t.next \in Nat /\ None # leaf /\ None # box /\ None # n
      /\ \A m \in Nodes(t) : m < t.next /\ m >= 1
  <2>1. t.next \in Nat /\ Nodes(t) \subseteq 1..(t.next - 1)
    BY <1>1, TreeParts
  <2>2. leaf \in Nat /\ box \in Nat /\ leaf \notin Nodes(t) /\ box \notin Nodes(t)
        /\ leaf # box /\ t.next + 2 \in Nat
    BY <2>1
  <2>3. n \in Nat /\ n < t.next /\ Nodes(t) \subseteq Nat
        /\ \A m \in Nodes(t) : m < t.next /\ m >= 1
    BY <2>1
  <2> QED BY <2>1, <2>2, <2>3, NoneAssumption
<1>3. /\ node \in NodeSet /\ node.priority \in Int /\ up \in Nat \cup {None}
      /\ up # n /\ up # leaf /\ up # box
      /\ n # t.root => up \in Nodes(t) /\ n \in ToSet(t.nodes[up].children)
      /\ n = t.root => up = None
  <2>1. node \in NodeSet /\ node.priority \in Int /\ up \in Nat \cup {None}
    BY <1>1, NodeParts
  <2>2. /\ n # t.root => up \in Nodes(t) /\ n \in ToSet(t.nodes[up].children)
        /\ n = t.root => up = None
    BY <1>1 DEF Closed
  <2>3. up # n
    <3>1. \E m \in {n} : t.nodes[m].parent \notin {n}
      BY <1>1 DEF Acyclic
    <3> QED BY <3>1
  <2> QED BY <1>2, <2>1, <2>2, <2>3
<1>4. SplitNode(t, n, side, w) = u
  <2>1. l.root = t.root /\ l.nodes = t.nodes
    BY <1>1, <1>2, LocatedFields
  <2> QED BY <2>1 DEF SplitNode
<1>5. /\ l \in TreeSet /\ DOMAIN l.at = DOMAIN t.at \cup {w} /\ DOMAIN l.time = DOMAIN l.at
      /\ l.at[w] = leaf /\ \A v \in DOMAIN t.at : l.at[v] = t.at[v]
      /\ l.floating = t.floating \ {w} /\ l.endless = t.endless
  BY <1>1, <1>2, LocatedFields
<1>6. /\ kids \in Seq(Nat) /\ ToSet(kids) = {leaf, n} /\ IsInjective(kids)
  <2>1. ASSUME NEW a \in Nat, NEW b \in Nat, a # b
        PROVE  <<a, b>> \in Seq(Nat) /\ ToSet(<<a, b>>) = {a, b} /\ IsInjective(<<a, b>>)
    BY <2>1 DEF ToSet, IsInjective
  <2> QED BY <1>2, <2>1
<1> HIDE DEF kids
<1>7. /\ L \in NodeSet /\ L.parent = box /\ L.children = <<>> /\ L.kind = "Leaf"
      /\ L.windows = <<w>> /\ L.active = w
      /\ C \in NodeSet /\ C.parent = up /\ C.children = kids /\ C.kind = "Split"
      /\ C.windows = <<>> /\ C.active = None
  <2>1. <<w>> \in Seq(Window) /\ <<>> \in Seq(Window) /\ <<>> \in Seq(Nat)
    OBVIOUS
  <2>2. L \in NodeSet
    BY <1>2, <1>3, <2>1 DEF NodeSet
  <2>3. C \in NodeSet
    BY <1>3, <1>6, <2>1 DEF NodeSet
  <2> QED BY <2>2, <2>3
<1> HIDE DEF L, C, fresh, leaf, box
\* The nodes that were there
<1>8. \A m \in Nodes(t) :
        /\ below[m] \in NodeSet /\ below[m].kind = t.nodes[m].kind
        /\ below[m].windows = t.nodes[m].windows /\ below[m].active = t.nodes[m].active
        /\ below[m].policy = t.nodes[m].policy
        /\ below[m].parent = IF m = n THEN box ELSE t.nodes[m].parent
        /\ IsInjective(below[m].children)
        /\ m # up => below[m].children = t.nodes[m].children
        /\ m = up => ToSet(below[m].children) =
                       IF n \in ToSet(t.nodes[m].children)
                       THEN (ToSet(t.nodes[m].children) \ {n}) \cup {box}
                       ELSE ToSet(t.nodes[m].children)
  <2> TAKE m \in Nodes(t)
  <2>1. t.nodes[m] \in NodeSet /\ t.nodes[m].children \in Seq(Nat)
        /\ IsInjective(t.nodes[m].children) /\ box \notin ToSet(t.nodes[m].children)
    BY <1>1, <1>2, NodeParts DEF Links, Closed
  <2> DEFINE r == ReplaceAll(t.nodes[m].children, n, box)
  <2>2. /\ r \in Seq(Nat) /\ IsInjective(r)
        /\ ToSet(r) = IF n \in ToSet(t.nodes[m].children)
                      THEN (ToSet(t.nodes[m].children) \ {n}) \cup {box}
                      ELSE ToSet(t.nodes[m].children)
    <3> DEFINE s == t.nodes[m].children
    <3>1. s \in Seq(Nat) /\ IsInjective(s) /\ box \notin ToSet(s) /\ box \in Nat
      BY <1>2, <2>1
    <3> HIDE DEF s
    <3>2. /\ ReplaceAll(s, n, box) \in Seq(Nat) /\ IsInjective(ReplaceAll(s, n, box))
          /\ ToSet(ReplaceAll(s, n, box)) =
               IF n \in ToSet(s) THEN (ToSet(s) \ {n}) \cup {box} ELSE ToSet(s)
      BY <3>1, ReplacedElements
    <3> QED BY <3>2 DEF s
  <2>2a. m \in DOMAIN t.nodes
    BY DEF Nodes
  <2>2b. below[m] = CASE m = n -> [node EXCEPT !.parent = box]
                      [] m = up -> [t.nodes[m] EXCEPT !.children = r]
                      [] OTHER -> t.nodes[m]
    BY <2>2a
  <2> DEFINE b == below[m]
             s == t.nodes[m]
  <2> HIDE DEF r, below
  <2>2c. b = CASE m = n -> [s EXCEPT !.parent = box]
              [] m = up -> [s EXCEPT !.children = r]
              [] OTHER -> s
    BY <2>2b, Zenon
  <2> HIDE DEF b, s, node, up
  <2>3. /\ s \in NodeSet /\ s.children \in Seq(Nat) /\ IsInjective(s.children)
    BY <2>1 DEF s
  <2>4. CASE m = n
    <3>0. m # up
      BY <1>3, <2>4
    <3>1. b = [s EXCEPT !.parent = box]
      BY <2>2c, <2>4, <3>0
    <3>2. b \in NodeSet /\ b.parent = box /\ b.kind = s.kind /\ b.windows = s.windows
          /\ b.active = s.active /\ b.policy = s.policy /\ b.children = s.children
      BY <1>2, <2>3, <3>1 DEF NodeSet
    <3> QED BY <1>3, <2>3, <2>4, <3>2 DEF b, s
  <2>5. CASE m # n /\ m = up
    <3>1. b = [s EXCEPT !.children = r]
      BY <2>2c, <2>5
    <3>2. b \in NodeSet /\ b.parent = s.parent /\ b.kind = s.kind /\ b.windows = s.windows
          /\ b.active = s.active /\ b.policy = s.policy /\ b.children = r
      BY <2>2, <2>3, <3>1 DEF NodeSet
    <3> QED BY <2>2, <2>5, <3>2 DEF b, s
  <2>6. CASE m # n /\ m # up
    <3>1. b = s
      BY <2>2c, <2>6
    <3> QED BY <2>3, <2>6, <3>1 DEF b, s
  <2> QED BY <2>4, <2>5, <2>6
<1>9. DOMAIN below = Nodes(t)
  BY DEF Nodes
<1> HIDE DEF below
<1>10. /\ DOMAIN nodes = Nodes(t) \cup {leaf, box}
       /\ nodes[leaf] = L /\ nodes[box] = C /\ \A m \in Nodes(t) : nodes[m] = below[m]
  BY <1>2, <1>9 DEF Inserted
<1> HIDE DEF nodes
<1>11. nodes \in Partial(Nat, NodeSet)
  <2>1. \A m \in DOMAIN nodes : m \in Nat /\ nodes[m] \in NodeSet
    BY <1>2, <1>7, <1>8, <1>10
  <2>2. nodes = [m \in DOMAIN nodes |-> nodes[m]]
    BY DEF nodes, Inserted
  <2> QED BY <2>1, <2>2, PartialFunction
<1> HIDE DEF l
<1>12. root \in Nat
  BY <1>1, <1>2, TreeParts
<1> HIDE DEF root
<1>13. /\ x \in TreeSet /\ x.nodes = nodes /\ x.at = l.at /\ x.time = l.time
       /\ x.floating = l.floating /\ x.root = root /\ x.next = t.next + 2
       /\ x.endless = l.endless
  BY <1>2, <1>5, <1>11, <1>12 DEF TreeSet
<1> HIDE DEF x
<1>14. Nodes(x) = Nodes(t) \cup {leaf, box}
  BY <1>10, <1>13 DEF Nodes
<1>15. IsTree(x)
  <2>1. Nodes(x) \subseteq 1..(x.next - 1)
    <3>1. leaf \in 1..(t.next + 1) /\ box \in 1..(t.next + 1)
          /\ Nodes(t) \subseteq 1..(t.next + 1) /\ t.next + 2 - 1 = t.next + 1
      <4>1. t.next \in Nat /\ n \in Nodes(t) /\ n < t.next /\ n >= 1
        BY <1>2
      <4>2. leaf \in 1..(t.next + 1) /\ box \in 1..(t.next + 1)
        BY <4>1, <1>2 DEF leaf, box
      <4> QED BY <1>2, <4>2
    <3>2. x.next - 1 = t.next + 1
      <4>1. x.next = t.next + 2
        BY <1>13
      <4>2. t.next \in Nat
        BY <1>2
      <4> QED BY <4>1, <4>2
    <3> QED BY <1>14, <3>1, <3>2
  <2> QED BY <1>5, <1>13, <2>1 DEF IsTree
<1>16. Links(x)
  <2> SUFFICES ASSUME NEW m \in Nodes(x)
               PROVE  /\ IsInjective(nodes[m].children)
                      /\ \A c \in ToSet(nodes[m].children) : c \in Nodes(x) => nodes[c].parent = m
    BY <1>13 DEF Links
  <2>0. ToSet(<<>>) = {} /\ IsInjective(<<>>)
    BY DEF ToSet, IsInjective
  <2>1. CASE m = leaf
    BY <1>7, <1>10, <2>0, <2>1
  <2>2. CASE m = box
    <3>1. nodes[leaf].parent = box /\ nodes[n].parent = box
      BY <1>7, <1>8, <1>10
    <3> QED BY <1>6, <1>7, <1>10, <2>2, <3>1
  <2>3. CASE m \in Nodes(t)
    <3> SUFFICES ASSUME NEW c \in ToSet(below[m].children) PROVE nodes[c].parent = m
      BY <1>8, <1>10, <2>3
    <3>1. \A d \in ToSet(t.nodes[m].children) : d \in Nodes(t) /\ t.nodes[d].parent = m
      BY <1>1, <2>3 DEF Closed, Links
    <3>2. CASE m = up
      <4>1. CASE c = box
        <5>1. nodes[box].parent = up
          BY <1>7, <1>10
        <5> HIDE DEF up
        <5> QED BY <3>2, <4>1, <5>1
      <4>2. CASE c # box
        <5>0. /\ n \in ToSet(t.nodes[m].children) =>
                   ToSet(below[m].children) = (ToSet(t.nodes[m].children) \ {n}) \cup {box}
              /\ n \notin ToSet(t.nodes[m].children) =>
                   ToSet(below[m].children) = ToSet(t.nodes[m].children)
          BY <1>8, <2>3, <3>2
        <5>1. c \in ToSet(t.nodes[m].children) /\ c # n
          BY <4>2, <5>0
        <5> QED BY <1>8, <1>10, <3>1, <5>1
      <4> QED BY <4>1, <4>2
    <3>3. CASE m # up
      <4>1. c \in ToSet(t.nodes[m].children)
        BY <1>8, <2>3, <3>3
      <4>2. c # n
        BY <3>1, <3>3, <4>1
      <4> QED BY <1>8, <1>10, <3>1, <4>1, <4>2
    <3> QED BY <3>2, <3>3
  <2> QED BY <1>14, <2>1, <2>2, <2>3
<1>17. Acyclic(x)
  <2> SUFFICES ASSUME NEW S \in SUBSET Nodes(x), S # {}
               PROVE  \E m \in S : nodes[m].parent \notin S
    BY <1>13 DEF Acyclic
  <2>1. CASE box \notin S /\ leaf \in S
    BY <1>7, <1>10, <2>1
  <2>2. CASE box \notin S /\ leaf \notin S
    <3>1. S \in SUBSET Nodes(t)
      BY <1>14, <2>2
    <3>2. PICK m \in S : t.nodes[m].parent \notin S
      BY <1>1, <3>1 DEF Acyclic
    <3>3. nodes[m].parent \notin S
      BY <1>8, <1>10, <2>2, <3>1, <3>2
    <3> QED BY <3>3
  <2>3. CASE box \in S
    <3> DEFINE T == (S \cap Nodes(t)) \cup {n}
    <3>1. T \in SUBSET Nodes(t) /\ T # {}
      OBVIOUS
    <3>2. PICK m \in T : t.nodes[m].parent \notin T
      BY <1>1, <3>1 DEF Acyclic
    <3>3. t.nodes[m].parent \notin S
      <4>1. m \in Nodes(t)
        BY <3>1
      <4>2. t.nodes[m].parent \in Nodes(t) \cup {None}
        BY <1>1, <4>1 DEF Closed
      <4>3. None \notin S
        BY <1>2, <1>14, NoneAssumption
      <4> QED BY <3>2, <4>2, <4>3
    <3>4. CASE m = n
      BY <1>7, <1>10, <2>3, <3>3, <3>4
    <3>5. CASE m # n
      <4>1. m \in S /\ m \in Nodes(t)
        BY <3>5
      <4>2. nodes[m].parent = t.nodes[m].parent
        BY <1>8, <1>10, <3>5, <4>1
      <4> QED BY <3>3, <4>1, <4>2
    <3> QED BY <3>4, <3>5
  <2> QED BY <2>1, <2>2, <2>3
<1>18. Closed(x)
  <2>1. ASSUME NEW m \in Nodes(x), NEW c \in ToSet(nodes[m].children) PROVE c \in Nodes(x)
    <3>0. ToSet(<<>>) = {}
      BY DEF ToSet
    <3>1. CASE m = leaf
      BY <1>7, <1>10, <2>1, <3>0, <3>1
    <3>2. CASE m = box
      BY <1>6, <1>7, <1>10, <1>14, <2>1, <3>2
    <3>3. CASE m \in Nodes(t)
      <4>1. c \in ToSet(below[m].children)
        BY <1>10, <2>1, <3>3
      <4>2. c \in ToSet(t.nodes[m].children) \/ c = box
        BY <1>8, <3>3, <4>1
      <4> QED BY <1>1, <1>14, <3>3, <4>2 DEF Closed
    <3> QED BY <1>14, <3>1, <3>2, <3>3
  <2>2. t.root \in Nodes(t)
    BY <1>1, RootIsThere DEF Skeleton
  <2>3. root = IF n = t.root THEN box ELSE t.root
    BY <1>1, <1>2, <1>3, TreeParts, NoneAssumption DEF root
  <2>4. ASSUME NEW m \in Nodes(x)
        PROVE  IF m = root THEN nodes[m].parent = None
               ELSE nodes[m].parent \in Nodes(x) /\ m \in ToSet(nodes[nodes[m].parent].children)
    <3>1. CASE m = leaf
      <4>1. m # root
        BY <1>2, <2>2, <2>3, <3>1
      <4> QED BY <1>6, <1>7, <1>10, <1>14, <3>1, <4>1
    <3>2. CASE m = box
      <4>1. CASE n = t.root
        BY <1>3, <1>7, <1>10, <2>3, <3>2, <4>1
      <4>2. CASE n # t.root
        <5>1. up \in Nodes(t) /\ box \in ToSet(below[up].children)
          BY <1>3, <1>8, <4>2
        <5>2. m # root
          BY <1>2, <2>2, <2>3, <3>2, <4>2
        <5> QED BY <1>7, <1>10, <1>14, <3>2, <5>1, <5>2
      <4> QED BY <4>1, <4>2
    <3>3. CASE m = n
      <4>1. m # root
        BY <1>2, <2>3, <3>3
      <4>2. nodes[m].parent = box
        BY <1>8, <1>10, <3>3
      <4> QED BY <1>6, <1>7, <1>10, <1>14, <3>3, <4>1, <4>2
    <3>4. CASE m \in Nodes(t) /\ m # n
      <4> DEFINE q == t.nodes[m].parent
      <4>1. nodes[m].parent = q
        BY <1>8, <1>10, <3>4
      <4>2. CASE m = t.root
        BY <1>1, <2>3, <3>4, <4>1, <4>2 DEF Closed
      <4>3. CASE m # t.root
        <5>1. q \in Nodes(t) /\ m \in ToSet(t.nodes[q].children)
          BY <1>1, <3>4, <4>3 DEF Closed
        <5> HIDE DEF q
        <5>2. m \in ToSet(below[q].children)
          BY <1>8, <3>4, <5>1
        <5>3. m # root
          BY <1>2, <2>3, <3>4, <4>3
        <5> QED BY <1>10, <1>14, <4>1, <5>1, <5>2, <5>3
      <4> QED BY <4>2, <4>3
    <3> QED BY <1>14, <3>1, <3>2, <3>3, <3>4
  <2> QED BY <1>13, <2>1, <2>4 DEF Closed
<1>19. Shapes(x)
  <2> SUFFICES ASSUME NEW m \in Nodes(x) PROVE NodeShape(nodes[m])
    BY <1>13 DEF Shapes
  <2>1. CASE m = leaf
    <3>1. w \in ToSet(<<w>>) /\ Len(<<w>>) = 1 /\ <<w>> # <<>>
      BY DEF ToSet
    <3> DEFINE d == nodes[m]
    <3>2. d.kind = "Leaf" /\ d.windows = <<w>> /\ d.active = w /\ d.children = <<>>
      BY <1>7, <1>10, <2>1
    <3> HIDE DEF d
    <3>3. NodeShape(d)
      BY <3>1, <3>2 DEF NodeShape, IsContainer
    <3> QED BY <3>3 DEF d
  <2>2. CASE m = box
    BY <1>7, <1>10, <2>2 DEF NodeShape, IsContainer
  <2>3. CASE m \in Nodes(t)
    <3>1. NodeShape(t.nodes[m])
      BY <1>1, <2>3 DEF Shapes
    <3>2. ~IsContainer(t.nodes[m]) => m # up
      <4> SUFFICES ASSUME ~IsContainer(t.nodes[m]), m = up PROVE FALSE
        OBVIOUS
      <4>1. n \in ToSet(t.nodes[m].children)
        BY <1>2, <1>3, <2>3, NoneAssumption
      <4>2. ToSet(<<>>) = {}
        BY DEF ToSet
      <4> QED BY <3>1, <4>1, <4>2 DEF NodeShape
    <3> QED BY <1>8, <1>10, <2>3, <3>1, <3>2 DEF NodeShape, IsContainer
  <2> QED BY <1>14, <2>1, <2>2, <2>3
<1>20. \A v \in DOMAIN t.at : t.at[v] \in Nodes(t)
  BY <1>1 DEF Mapped
<1>21. Agreement(x) /\ Mapped(x)
  <2>1. x.floating \cap DOMAIN x.at = {}
    BY <1>1, <1>5, <1>13 DEF Agreement
  <2>2. Mapped(x)
    BY <1>5, <1>13, <1>14, <1>20 DEF Mapped
  <2>3. ASSUME NEW m \in Nodes(x)
        PROVE  /\ ToSet(nodes[m].windows) = {v \in DOMAIN x.at : x.at[v] = m}
               /\ IsInjective(nodes[m].windows)
    <3>0. ToSet(<<>>) = {} /\ IsInjective(<<>>) /\ ToSet(<<w>>) = {w} /\ IsInjective(<<w>>)
      BY DEF ToSet, IsInjective
    <3>1. CASE m = leaf
      <4>1. {v \in DOMAIN x.at : x.at[v] = m} = {w}
        BY <1>2, <1>5, <1>13, <1>20, <3>1
      <4> QED BY <1>7, <1>10, <3>0, <3>1, <4>1
    <3>2. CASE m = box
      <4>1. {v \in DOMAIN x.at : x.at[v] = m} = {}
        BY <1>2, <1>5, <1>13, <1>20, <3>2
      <4> QED BY <1>7, <1>10, <3>0, <3>2, <4>1
    <3>3. CASE m \in Nodes(t)
      <4>1. {v \in DOMAIN x.at : x.at[v] = m} = {v \in DOMAIN t.at : t.at[v] = m}
        BY <1>2, <1>5, <1>13, <3>3
      <4>2. /\ ToSet(t.nodes[m].windows) = {v \in DOMAIN t.at : t.at[v] = m}
            /\ IsInjective(t.nodes[m].windows)
        BY <1>1, <3>3 DEF Agreement
      <4> QED BY <1>8, <1>10, <3>3, <4>1, <4>2
    <3> QED BY <1>14, <3>1, <3>2, <3>3
  <2> QED BY <1>13, <2>1, <2>2, <2>3 DEF Agreement
<1>22. TreeOK(x)
  BY <1>15, <1>16, <1>17, <1>18, <1>19, <1>21 DEF TreeOK, Skeleton
<1>23. TreeOK(u) /\ SameFrame(x, u) /\ u.at = x.at /\ u.floating = x.floating
  BY <1>15, <1>22, RankedOK
<1> HIDE DEF u
<1>24. Kin(t, u)
  <2>1. Kin(t, x)
    <3>1. x.next >= t.next
      BY <1>2, <1>13
    <3>2. ASSUME NEW m \in Nodes(x), m < t.next, IsContainer(x.nodes[m])
          PROVE  m \in Nodes(t) /\ IsContainer(t.nodes[m])
      <4>1. m \in Nodes(t)
        BY <1>2, <1>14, <3>2 DEF leaf, box
      <4> QED BY <1>8, <1>10, <1>13, <3>2, <4>1 DEF IsContainer
    <3> QED BY <3>1, <3>2 DEF Kin
  <2> QED BY <1>23, <2>1 DEF Kin, SameFrame, SameLinks, IsContainer
<1>25. Managed(u) = Managed(t) \cup {w}
  BY <1>5, <1>13, <1>23 DEF Managed
<1>26. Together(t, u)
  BY <1>1, <1>5, <1>13, <1>23, StaysTogether
<1>27. u.endless = t.endless
  BY <1>5, <1>13, <1>23 DEF SameFrame
<1> QED BY <1>4, <1>23, <1>24, <1>25, <1>26, <1>27 DEF Gains

\* Two nodes exchange what they hold; the windows follow.
LEMMA SwapNodesOK ==
  ASSUME NEW t, TreeOK(t), NEW a, NEW b
  PROVE  LET u == SwapNodes(t, a, b)
         IN  TreeOK(u) /\ Kin(t, u) /\ Managed(u) = Managed(t) /\ u.endless = t.endless
<1> DEFINE na == t.at[a]
           nb == t.at[b]
           A == t.nodes[na]
           B == t.nodes[nb]
           newA == [A EXCEPT !.kind = B.kind, !.windows = B.windows, !.active = B.active]
           newB == [B EXCEPT !.kind = A.kind, !.windows = A.windows, !.active = A.active]
           goes == [w \in DOMAIN t.at |-> CASE t.at[w] = na -> nb
                                            [] t.at[w] = nb -> na
                                            [] OTHER -> t.at[w]]
           nodes == [t.nodes EXCEPT ![na] = newA, ![nb] = newB]
           time == [w \in DOMAIN t.time |-> CASE goes[w] = na -> t.time[a]
                                              [] goes[w] = nb -> t.time[b]
                                              [] OTHER -> t.time[w]]
           x == [t EXCEPT !.nodes = nodes, !.at = goes, !.time = time]
           u == Ranked(x)
<1>1. IsTree(t) /\ Skeleton(t) /\ Shapes(t) /\ Agreement(t) /\ Mapped(t)
  BY DEF TreeOK
<1>2. CASE ~({a, b} \subseteq DOMAIN t.at) \/ na = nb
  <2>1. SwapNodes(t, a, b) = t
    BY <1>2 DEF SwapNodes
  <2>2. t.next \in Nat
    BY <1>1, TreeParts
  <2> QED BY <2>1, <2>2 DEF Kin
<1>3. CASE {a, b} \subseteq DOMAIN t.at /\ na # nb
  <2>1. SwapNodes(t, a, b) = u
    BY <1>3 DEF SwapNodes
  <2>2. /\ na \in Nodes(t) /\ nb \in Nodes(t) /\ A \in NodeSet /\ B \in NodeSet
        /\ NodeShape(A) /\ NodeShape(B)
    BY <1>1, <1>3, NodeParts DEF Mapped, Shapes
  <2>3. A.windows # <<>> /\ B.windows # <<>>
    <3>1. a \in ToSet(A.windows) /\ b \in ToSet(B.windows)
      BY <1>1, <1>3, <2>2 DEF Agreement
    <3>2. ToSet(<<>>) = {}
      BY DEF ToSet
    <3> QED BY <3>1, <3>2
  <2>4. /\ newA \in NodeSet /\ newA.kind = B.kind /\ newA.windows = B.windows
        /\ newA.active = B.active /\ newA.parent = A.parent /\ newA.children = A.children
        /\ newB \in NodeSet /\ newB.kind = A.kind /\ newB.windows = A.windows
        /\ newB.active = A.active /\ newB.parent = B.parent /\ newB.children = B.children
    <3> HIDE DEF A, B
    <3> QED BY <2>2 DEF NodeSet
  <2>5. A.children = <<>> /\ B.children = <<>> /\ A.kind # "Split" /\ B.kind # "Split"
    BY <2>2, <2>3 DEF NodeShape, IsContainer
  <2>6. t.nodes \in [Nodes(t) -> NodeSet] /\ Nodes(t) \subseteq Nat /\ DOMAIN t.time = DOMAIN t.at
        /\ t.time \in [DOMAIN t.at -> Int] /\ t.at \in [DOMAIN t.at -> Nat]
        /\ DOMAIN t.at \subseteq Window /\ t.next \in Nat
    BY <1>1, TreeParts
  <2> HIDE DEF newA, newB, A, B
  <2>7. /\ nodes \in Partial(Nat, NodeSet) /\ DOMAIN nodes = Nodes(t)
        /\ nodes[na] = newA /\ nodes[nb] = newB
        /\ \A m \in Nodes(t) \ {na, nb} : nodes[m] = t.nodes[m]
    <3> HIDE DEF na, nb
    <3>1. na # nb
      BY <1>3
    <3> QED BY <2>2, <2>4, <2>6, <3>1, PartialFunction
  <2>8. /\ goes \in Partial(Window, Nat) /\ DOMAIN goes = DOMAIN t.at
        /\ \A w \in DOMAIN t.at : /\ t.at[w] = na => goes[w] = nb
                                  /\ t.at[w] = nb => goes[w] = na
                                  /\ t.at[w] \notin {na, nb} => goes[w] = t.at[w]
    <3>1. \A w \in DOMAIN t.at : /\ t.at[w] = na => goes[w] = nb
                                 /\ t.at[w] = nb => goes[w] = na
                                 /\ t.at[w] \notin {na, nb} => goes[w] = t.at[w]
      BY <1>3
    <3>2. na \in Nat /\ nb \in Nat
      BY <2>2, <2>6
    <3>3. DOMAIN goes = DOMAIN t.at /\ goes = [w \in DOMAIN goes |-> goes[w]]
      OBVIOUS
    <3> HIDE DEF goes, na, nb
    <3>4. \A w \in DOMAIN t.at : goes[w] \in Nat
      BY <2>6, <3>1, <3>2
    <3> QED BY <2>6, <3>1, <3>3, <3>4, PartialFunction
  <2> HIDE DEF goes, nodes
  <2>9. time \in Partial(Window, Int) /\ DOMAIN time = DOMAIN t.at
    <3>1. t.time[a] \in Int /\ t.time[b] \in Int
      BY <1>3, <2>6
    <3>2. \A w \in DOMAIN t.at : time[w] \in {t.time[a], t.time[b], t.time[w]}
      <4> TAKE w \in DOMAIN t.at
      <4>1. time[w] = CASE goes[w] = na -> t.time[a]
                        [] goes[w] = nb -> t.time[b]
                        [] OTHER -> t.time[w]
        BY <2>6
      <4> QED BY <4>1
    <3>3. \A w \in DOMAIN t.at : t.time[w] \in Int
      BY <2>6
    <3>4. DOMAIN time = DOMAIN t.at /\ time = [w \in DOMAIN time |-> time[w]]
      BY <2>6
    <3> HIDE DEF time
    <3>5. \A w \in DOMAIN t.at : time[w] \in Int
      BY <3>1, <3>2, <3>3
    <3> QED BY <2>6, <3>4, <3>5, PartialFunction
  <2> HIDE DEF time
  <2>10. /\ x \in TreeSet /\ x.nodes = nodes /\ x.at = goes /\ x.time = time
         /\ x.floating = t.floating /\ x.root = t.root /\ x.next = t.next
         /\ x.endless = t.endless
    BY <1>1, <2>7, <2>8, <2>9 DEF IsTree, TreeSet
  <2> HIDE DEF x
  <2>11. Nodes(x) = Nodes(t) /\ IsTree(x)
    BY <1>1, <2>7, <2>8, <2>9, <2>10 DEF Nodes, IsTree
  <2>12. SameLinks(t, x)
    <3> SUFFICES ASSUME NEW m \in Nodes(t)
                 PROVE  x.nodes[m].parent = t.nodes[m].parent
                        /\ x.nodes[m].children = t.nodes[m].children
      BY <2>10, <2>11 DEF SameLinks
    <3>1. CASE m = na
      BY <2>4, <2>7, <2>10, <3>1 DEF A
    <3>2. CASE m = nb
      BY <2>4, <2>7, <2>10, <3>2 DEF B
    <3>3. CASE m \notin {na, nb}
      BY <2>7, <2>10, <3>3
    <3> QED BY <3>1, <3>2, <3>3
  <2>13. Skeleton(x)
    BY <1>1, <2>12, SameLinksSkeleton
  <2>14. Shapes(x)
    <3> SUFFICES ASSUME NEW m \in Nodes(t) PROVE NodeShape(x.nodes[m])
      BY <2>11 DEF Shapes
    <3>1. CASE m = na
      <4>1. x.nodes[m] = newA
        BY <2>7, <2>10, <3>1
      <4> QED BY <2>2, <2>3, <2>4, <2>5, <4>1 DEF NodeShape, IsContainer
    <3>2. CASE m = nb
      <4>1. x.nodes[m] = newB
        BY <2>7, <2>10, <3>2
      <4> QED BY <2>2, <2>3, <2>4, <2>5, <4>1 DEF NodeShape, IsContainer
    <3>3. CASE m \notin {na, nb}
      BY <1>1, <2>7, <2>10, <3>3 DEF Shapes
    <3> QED BY <3>1, <3>2, <3>3
  <2>15. Agreement(x)
    <3>1. x.floating \cap DOMAIN x.at = {}
      BY <1>1, <2>8, <2>10 DEF Agreement
    <3> SUFFICES ASSUME NEW m \in Nodes(t)
                 PROVE  /\ ToSet(x.nodes[m].windows) = {w \in DOMAIN x.at : x.at[w] = m}
                        /\ IsInjective(x.nodes[m].windows)
      BY <2>11, <3>1 DEF Agreement
    <3>2. \A k \in Nodes(t) :
            /\ ToSet(t.nodes[k].windows) = {w \in DOMAIN t.at : t.at[w] = k}
            /\ IsInjective(t.nodes[k].windows)
      BY <1>1 DEF Agreement
    <3>3. CASE m = na
      <4>1. {w \in DOMAIN x.at : x.at[w] = m} = {w \in DOMAIN t.at : t.at[w] = nb}
        BY <1>3, <2>8, <2>10, <3>3
      <4>2. x.nodes[m].windows = t.nodes[nb].windows
        BY <2>4, <2>7, <2>10, <3>3 DEF B
      <4> QED BY <2>2, <3>2, <4>1, <4>2
    <3>4. CASE m = nb
      <4>1. {w \in DOMAIN x.at : x.at[w] = m} = {w \in DOMAIN t.at : t.at[w] = na}
        BY <1>3, <2>8, <2>10, <3>4
      <4>2. x.nodes[m].windows = t.nodes[na].windows
        BY <2>4, <2>7, <2>10, <3>4 DEF A
      <4> QED BY <2>2, <3>2, <4>1, <4>2
    <3>5. CASE m \notin {na, nb}
      <4>1. {w \in DOMAIN x.at : x.at[w] = m} = {w \in DOMAIN t.at : t.at[w] = m}
        BY <1>3, <2>8, <2>10, <3>5
      <4>2. x.nodes[m] = t.nodes[m]
        BY <2>7, <2>10, <3>5
      <4> QED BY <3>2, <4>1, <4>2
    <3> QED BY <3>3, <3>4, <3>5
  <2>16. Mapped(x)
    <3> HIDE DEF na, nb
    <3> QED BY <1>1, <2>2, <2>8, <2>10, <2>11 DEF Mapped
  <2>17. TreeOK(x)
    BY <2>11, <2>13, <2>14, <2>15, <2>16 DEF TreeOK
  <2>18. TreeOK(u) /\ SameFrame(x, u) /\ u.at = x.at /\ u.floating = x.floating
         /\ u.nodes = x.nodes
    BY <2>11, <2>17, RankedOK
  <2> HIDE DEF u
  <2>19. Managed(u) = Managed(t) /\ u.endless = t.endless
    BY <2>8, <2>10, <2>18 DEF Managed, SameFrame
  <2>20. Kin(t, u)
    <3>1. \A m \in Nodes(t) : IsContainer(x.nodes[m]) => IsContainer(t.nodes[m])
      <4> SUFFICES ASSUME NEW m \in Nodes(t), m \in {na, nb} PROVE ~IsContainer(x.nodes[m])
        BY <2>7, <2>10
      <4>1. x.nodes[m].kind \in {A.kind, B.kind}
        BY <2>4, <2>7, <2>10
      <4> QED BY <2>5, <4>1 DEF IsContainer
    <3>2. Nodes(u) = Nodes(t) /\ u.next = t.next
      BY <2>10, <2>11, <2>18 DEF SameFrame, SameLinks
    <3> QED BY <2>6, <2>18, <3>1, <3>2 DEF Kin
  <2> QED BY <2>1, <2>18, <2>19, <2>20
<1> QED BY <1>2, <1>3

-----------------------------------------------------------------------------
(* Stacks *)

\* Another window of a node becomes the active one.
LEMMA ActiveChanged ==
  ASSUME NEW t, TreeOK(t), NEW n \in Nodes(t), NEW v \in ToSet(t.nodes[n].windows)
  PROVE  LET u == [t EXCEPT !.nodes[n].active = v]
         IN  TreeOK(u) /\ SameFrame(t, u) /\ u.at = t.at /\ u.floating = t.floating
<1> DEFINE node == t.nodes[n]
           new == [node EXCEPT !.active = v]
           u == [t EXCEPT !.nodes[n].active = v]
<1>1. IsTree(t) /\ Skeleton(t) /\ Shapes(t) /\ Agreement(t) /\ Mapped(t)
  BY DEF TreeOK
<1>2. node \in NodeSet /\ NodeShape(node) /\ v \in Window
  <2>1. node \in NodeSet /\ NodeShape(node) /\ node.windows \in Seq(Window)
    BY <1>1, NodeParts DEF Shapes
  <2> QED BY <2>1 DEF ToSet
<1>3. /\ new \in NodeSet /\ new.parent = node.parent /\ new.children = node.children
      /\ new.kind = node.kind /\ new.policy = node.policy /\ new.windows = node.windows
      /\ new.active = v
  <2> HIDE DEF node
  <2> QED BY <1>2 DEF NodeSet
<1>4. u = [t EXCEPT !.nodes[n] = new]
  BY <1>1 DEF IsTree, TreeSet
<1> HIDE DEF new, u
<1>5. /\ IsTree(u) /\ SameLinks(t, u) /\ u.next = t.next /\ u.endless = t.endless
      /\ u.at = t.at /\ u.floating = t.floating
      /\ u.nodes[n] = new /\ \A m \in Nodes(t) \ {n} : u.nodes[m] = t.nodes[m]
  BY <1>1, <1>3, <1>4, NodeReplaced
<1>6. Nodes(u) = Nodes(t) /\ SameFrame(t, u)
  BY <1>3, <1>5 DEF SameFrame, SameLinks
<1>7. Skeleton(u)
  BY <1>1, <1>5, SameLinksSkeleton
<1>8. Shapes(u)
  <2> SUFFICES ASSUME NEW m \in Nodes(t) PROVE NodeShape(u.nodes[m])
    BY <1>6 DEF Shapes
  <2>1. CASE m = n
    <3>1. node.windows # <<>>
      <4>1. ToSet(<<>>) = {}
        BY DEF ToSet
      <4> QED BY <4>1
    <3> QED BY <1>2, <1>3, <1>5, <2>1, <3>1 DEF NodeShape, IsContainer
  <2>2. CASE m # n
    BY <1>1, <1>5, <2>2 DEF Shapes
  <2> QED BY <2>1, <2>2
<1>9. Agreement(u) /\ Mapped(u)
  BY <1>1, <1>3, <1>5, <1>6 DEF Agreement, Mapped
<1> QED BY <1>5, <1>6, <1>7, <1>8, <1>9 DEF TreeOK, u

\* SetActive changes which window is shown.
LEMMA SetActiveOK ==
  ASSUME NEW t, TreeOK(t), NEW w
  PROVE  LET u == SetActive(t, w)
         IN  TreeOK(u) /\ SameFrame(t, u) /\ u.at = t.at /\ u.floating = t.floating
<1>1. CASE w \in DOMAIN t.at /\ t.nodes[t.at[w]].kind = "Stack"
  <2>1. t.at[w] \in Nodes(t) /\ w \in ToSet(t.nodes[t.at[w]].windows)
    BY <1>1 DEF TreeOK, Mapped, Agreement
  <2>2. SetActive(t, w) = [t EXCEPT !.nodes[t.at[w]].active = w]
    BY <1>1 DEF SetActive
  <2> QED BY <2>1, <2>2, ActiveChanged
<1>2. CASE ~(w \in DOMAIN t.at /\ t.nodes[t.at[w]].kind = "Stack")
  <2>1. SetActive(t, w) = t
    BY <1>2 DEF SetActive
  <2> QED BY <2>1 DEF SameFrame, SameLinks
<1> QED BY <1>1, <1>2

\* CycleStack does, too.
LEMMA CycleStackOK ==
  ASSUME NEW t, TreeOK(t), NEW w, NEW way \in Int
  PROVE  LET u == CycleStack(t, w, way)
         IN  TreeOK(u) /\ SameFrame(t, u) /\ u.at = t.at /\ u.floating = t.floating
<1> DEFINE n == t.at[w]
           node == t.nodes[n]
           ws == node.windows
           next == PositionOf(ws, node.active) - 1 + way
           i == 1 + ((next + Len(ws)) % Len(ws))
<1>1. CASE w \in DOMAIN t.at /\ node.kind = "Stack" /\ node.active \in ToSet(ws)
  <2>1. n \in Nodes(t) /\ ws \in Seq(Window)
    BY <1>1, NodeParts DEF TreeOK, Mapped
  <2>2. CycleStack(t, w, way) = [t EXCEPT !.nodes[n].active = ws[i]]
    BY <1>1 DEF CycleStack
  <2> HIDE DEF ws, n
  <2>3. Len(ws) \in Nat /\ DOMAIN ws = 1..Len(ws)
    BY <2>1, LenProperties
  <2>4. PICK k \in DOMAIN ws : ws[k] = node.active
    BY <1>1 DEF ToSet
  <2>5. PositionOf(ws, node.active) \in DOMAIN ws
    BY <2>4 DEF PositionOf
  <2> DEFINE p == PositionOf(ws, node.active)
             L == Len(ws)
  <2>6. p \in 1..L /\ L \in Nat /\ L > 0
    BY <2>3, <2>5
  <2> HIDE DEF p, L
  <2>7. 1 + ((p - 1 + way + L) % L) \in 1..L
    <3>1. p - 1 + way + L \in Int
      BY <2>6
    <3>2. \A z \in Int : z % L \in 0..(L - 1)
      BY <2>6
    <3> DEFINE z == (p - 1 + way + L) % L
    <3>3. z \in 0..(L - 1)
      BY <3>1, <3>2
    <3> HIDE DEF z
    <3>4. 1 + z \in 1..L
      BY <2>6, <3>3
    <3> QED BY <3>4 DEF z
  <2>8. ws[i] \in ToSet(ws)
    BY <2>3, <2>7 DEF ToSet, p, L
  <2> DEFINE v == ws[i]
  <2>9. v \in ToSet(t.nodes[n].windows) /\ CycleStack(t, w, way) = [t EXCEPT !.nodes[n].active = v]
    BY <2>2, <2>8 DEF ws
  <2> HIDE DEF v
  <2>10. LET u == [t EXCEPT !.nodes[n].active = v]
         IN  TreeOK(u) /\ SameFrame(t, u) /\ u.at = t.at /\ u.floating = t.floating
    BY <2>1, <2>9, ActiveChanged
  <2> QED BY <2>9, <2>10, Zenon
<1>2. CASE ~(w \in DOMAIN t.at /\ node.kind = "Stack" /\ node.active \in ToSet(ws))
  <2>1. CycleStack(t, w, way) = t
    BY <1>2 DEF CycleStack
  <2> QED BY <2>1 DEF SameFrame, SameLinks
<1> QED BY <1>1, <1>2

\* A new tree
LEMMA FromPluginOK ==
  ASSUME NEW layout, IsLayout(layout)
  PROVE  LET t == FromPlugin(layout)
         IN  TreeOK(t) /\ Managed(t) = {} /\ t.endless = FALSE
<1> DEFINE t == FromPlugin(layout)
           P == [parent : {None} \cup Nat, children : Seq(Nat),
                 kind : {"Leaf", "Stack", "Split"}, temporal : BOOLEAN,
                 priority : Nat, condition : {None} \cup SUBSET (Nat \X BOOLEAN),
                 max : {None} \cup Nat, policy : {"Manual", "Auto", "AutoWhenOverflow"},
                 windows : {<<>>}, active : {None}]
<1>1. layout \in Seq(P)
  BY DEF IsLayout
<1>2. \A p \in P : p \in NodeSet /\ p.windows = <<>> /\ p.active = None
  <2>1. <<>> \in Seq(Window) /\ Nat \subseteq Int
    OBVIOUS
  <2> QED BY <2>1 DEF NodeSet
<1> HIDE DEF P
<1>3. /\ Len(layout) \in Nat /\ DOMAIN layout = 1..Len(layout)
      /\ layout \in [1..Len(layout) -> P]
      /\ \A n \in DOMAIN layout : layout[n] \in P
  BY <1>1, LenProperties, ElementOfSeq
<1>4. layout \in Partial(Nat, NodeSet)
  <2>1. \A n \in DOMAIN layout : layout[n] \in NodeSet
    BY <1>2, <1>3
  <2>2. layout \in [DOMAIN layout -> NodeSet] /\ DOMAIN layout \subseteq Nat
    BY <1>3, <2>1
  <2> QED BY <2>2, PartialFunction
<1>5. <<>> \in Partial(Window, Nat) /\ <<>> \in Partial(Window, Int) /\ DOMAIN <<>> = {}
  <2>1. <<>> \in Seq(Nat) /\ <<>> \in Seq(Int) /\ Len(<<>>) = 0
    OBVIOUS
  <2>2. <<>> \in [1..0 -> Nat] /\ <<>> \in [1..0 -> Int] /\ 1..0 = {}
    BY <2>1, LenProperties
  <2>3. DOMAIN <<>> = {} /\ <<>> \in [DOMAIN <<>> -> Nat] /\ <<>> \in [DOMAIN <<>> -> Int]
    BY <2>2
  <2> QED BY <2>3, PartialFunction
<1>6. /\ t.root = IF layout = <<>> THEN 0 ELSE 1
      /\ t.next = Len(layout) + 1 /\ t.nodes = layout /\ t.at = <<>> /\ t.time = <<>>
      /\ t.floating = {} /\ t.endless = FALSE /\ t \in TreeSet
  BY <1>3, <1>4, <1>5 DEF FromPlugin, TreeSet
<1> HIDE DEF t
<1>7. Nodes(t) = 1..Len(layout) /\ Len(layout) \in Nat
  BY <1>3, <1>6 DEF Nodes
<1>8. IsTree(t)
  <2>1. Nodes(t) \subseteq 1..(t.next - 1)
    <3>1. t.next - 1 = Len(layout)
      BY <1>3, <1>6
    <3> QED BY <1>7, <3>1
  <2> QED BY <1>5, <1>6, <2>1 DEF IsTree
<1>9. \A n \in Nodes(t) :
        /\ IsInjective(t.nodes[n].children)
        /\ IsContainer(t.nodes[n]) \/ t.nodes[n].children = <<>>
        /\ \A c \in ToSet(t.nodes[n].children) : c \in Nodes(t) /\ t.nodes[c].parent = n
        /\ n = 1 => t.nodes[n].parent = None
        /\ n # 1 => t.nodes[n].parent \in 1..(n - 1)
                    /\ n \in ToSet(t.nodes[t.nodes[n].parent].children)
  BY <1>3, <1>6, <1>7 DEF IsLayout
<1>10. Links(t)
  BY <1>9 DEF Links
<1>11. Acyclic(t)
  <2> SUFFICES ASSUME NEW S \in SUBSET Nodes(t), S # {}
               PROVE  \E n \in S : t.nodes[n].parent \notin S
    BY DEF Acyclic
  <2>1. S \subseteq Nat
    BY <1>7
  <2>2. PICK n \in S : \A m \in S : n <= m
    BY <2>1, LeastNatural
  <2>3. t.nodes[n].parent \notin S
    <3>1. n \in Nodes(t) /\ n \in Nat
      BY <2>1
    <3>2. CASE n = 1
      <4>1. t.nodes[n].parent = None
        BY <1>9, <3>1, <3>2
      <4> QED BY <2>1, <4>1, NoneAssumption
    <3>3. CASE n # 1
      <4>1. t.nodes[n].parent \in 1..(n - 1)
        BY <1>9, <3>1, <3>3
      <4> HIDE DEF Nodes
      <4>2. \A p \in 1..(n - 1) : ~(n <= p)
        BY <3>1
      <4> QED BY <2>2, <4>1, <4>2
    <3> QED BY <3>2, <3>3
  <2> QED BY <2>3
<1>12. Closed(t)
  <2>1. ASSUME NEW n \in Nodes(t)
        PROVE  IF n = t.root THEN t.nodes[n].parent = None
               ELSE /\ t.nodes[n].parent \in Nodes(t)
                    /\ n \in ToSet(t.nodes[t.nodes[n].parent].children)
    <3>1. t.root = 1 /\ n \in 1..Len(layout)
      <4>1. layout # <<>>
        BY <1>7
      <4> QED BY <1>6, <1>7, <4>1
    <3>2. CASE n = 1
      BY <1>9, <3>1, <3>2
    <3>3. CASE n # 1
      <4>1. /\ t.nodes[n].parent \in 1..(n - 1)
            /\ n \in ToSet(t.nodes[t.nodes[n].parent].children)
        BY <1>9, <3>3
      <4>2. t.nodes[n].parent \in 1..Len(layout)
        <5>1. 1..(n - 1) \subseteq 1..Len(layout)
          BY <1>7, <3>1
        <5> QED BY <4>1, <5>1
      <4> QED BY <1>7, <3>1, <3>3, <4>1, <4>2
    <3> QED BY <3>2, <3>3
  <2> QED BY <1>9, <2>1 DEF Closed
<1>13. Shapes(t)
  <2> SUFFICES ASSUME NEW n \in Nodes(t) PROVE NodeShape(t.nodes[n])
    BY DEF Shapes
  <2>1. t.nodes[n].windows = <<>> /\ t.nodes[n].active = None
    BY <1>2, <1>3, <1>6, <1>7
  <2>2. Len(t.nodes[n].windows) = 0
    BY <2>1
  <2> QED BY <1>9, <2>1, <2>2 DEF NodeShape
<1>14. Agreement(t) /\ Mapped(t)
  <2>1. \A n \in Nodes(t) : t.nodes[n].windows = <<>>
    BY <1>2, <1>3, <1>6, <1>7
  <2>2. ToSet(<<>>) = {} /\ IsInjective(<<>>)
    BY DEF ToSet, IsInjective
  <2> QED BY <1>5, <1>6, <2>1, <2>2 DEF Agreement, Mapped
<1>15. Managed(t) = {}
  BY <1>5, <1>6 DEF Managed
<1> QED BY <1>6, <1>8, <1>10, <1>11, <1>12, <1>13, <1>14, <1>15 DEF TreeOK, Skeleton, t

-----------------------------------------------------------------------------
(* Another layout *)

\* Sound trees
Trees == {t \in TreeSet : TreeOK(t)}

\* The tree after i of the windows ws have moved to it
Moved(t, ws, x, i) ==
  /\ x \in Trees /\ x.endless = FALSE
  /\ Managed(x) = t.floating \cup {ws[j] : j \in 1..i}

\* What moving window w makes of the tree
MovedNext(t, w) == IF w \in DOMAIN t.at THEN t ELSE AddToTiled(t, w)

\* A window that moves leaves the tree sound.
LEMMA MovedNextOK ==
  ASSUME NEW x \in Trees, NEW w \in Window
  PROVE  MovedNext(x, w) \in Trees
<1>1. CASE w \in DOMAIN x.at
  BY <1>1 DEF MovedNext
<1>2. CASE w \notin DOMAIN x.at
  <2>1. TreeOK(AddToTiled(x, w))
    BY <1>2, AddToTiledOK DEF Trees
  <2>2. AddToTiled(x, w) \in Trees
    BY <2>1 DEF Trees, TreeOK, IsTree
  <2> QED BY <1>2, <2>2 DEF MovedNext
<1> QED BY <1>1, <1>2

\* One more window moves.
LEMMA MovedStep ==
  ASSUME NEW t, NEW ws \in Seq(Window), IsInjective(ws), ToSet(ws) \cap t.floating = {},
         NEW i \in 0..Len(ws), i < Len(ws), NEW x, Moved(t, ws, x, i)
  PROVE  /\ ws[i + 1] \in Window /\ ws[i + 1] \notin DOMAIN x.at
         /\ Moved(t, ws, AddToTiled(x, ws[i + 1]), i + 1)
<1> DEFINE w == ws[i + 1]
           u == AddToTiled(x, w)
<1>1. /\ Len(ws) \in Nat /\ i + 1 \in 1..Len(ws) /\ DOMAIN ws = 1..Len(ws)
      /\ \A j \in 1..i : j \in DOMAIN ws /\ j # i + 1
      /\ \A j \in 1..(i + 1) : j \in 1..i \/ j = i + 1
      /\ \A j \in 1..i : j \in 1..(i + 1)
      /\ i + 1 \in 1..(i + 1)
  BY LenProperties
<1>2. w \in Window /\ w \in ToSet(ws)
  BY <1>1 DEF ToSet
<1>3. \A j \in 1..i : ws[j] # w
  BY <1>1 DEF IsInjective
<1>4. w \notin Managed(x)
  BY <1>2, <1>3 DEF Moved
<1>5. w \notin DOMAIN x.at /\ TreeOK(x) /\ x.endless = FALSE
  BY <1>4 DEF Managed, Moved, Trees
<1>6. {ws[j] : j \in 1..(i + 1)} = {ws[j] : j \in 1..i} \cup {w}
  BY <1>1
<1> HIDE DEF w
<1>7. TreeOK(u) /\ SameFrame(x, u) /\ Managed(u) = Managed(x) \cup {w}
  BY <1>2, <1>5, AddToTiledOK
<1> HIDE DEF u
<1>8. u \in Trees /\ u.endless = FALSE
  BY <1>5, <1>7 DEF Trees, TreeOK, IsTree, SameFrame
<1>9. Moved(t, ws, u, i + 1)
  BY <1>6, <1>7, <1>8 DEF Moved
<1> QED BY <1>2, <1>5, <1>9 DEF u, w

\* The windows move to the new layout, those without a place there float.
LEMMA ChangeLayoutOK ==
  ASSUME NEW t, TreeOK(t), NEW layout, IsLayout(layout)
  PROVE  LET u == ChangeLayout(t, layout)
         IN  TreeOK(u) /\ Managed(u) = Managed(t) /\ u.endless = FALSE
<1> DEFINE ws == WindowsOf(t, Preorder(t))
           p == FromPlugin(layout)
           start == [p EXCEPT !.floating = t.floating]
           next == [i \in 1..Len(ws) |-> [x \in Trees |-> MovedNext(x, ws[i])]]
           moved[i \in 0..Len(ws)] ==
             IF i = 0 THEN start ELSE AddToTiled(moved[i - 1], ws[i])
           eq(h) == [i \in 0..Len(ws) |->
                       IF i = 0 THEN start ELSE AddToTiled(h[i - 1], ws[i])]
<1>1. IsTree(t) /\ Skeleton(t) /\ Agreement(t) /\ Mapped(t)
  BY DEF TreeOK
<1>2. Preorder(t) \in Seq(Nat) /\ IsInjective(Preorder(t)) /\ ToSet(Preorder(t)) = Nodes(t)
  BY <1>1, PreorderVisitsEach
<1>3. ws \in Seq(Window) /\ IsInjective(ws) /\ ToSet(ws) = DOMAIN t.at
  <2> DEFINE order == Preorder(t)
  <2>1. order \in Seq(Nat) /\ IsInjective(order) /\ ToSet(order) = Nodes(t)
    BY <1>2
  <2> HIDE DEF order
  <2>2. /\ WindowsOf(t, order) \in Seq(Window) /\ IsInjective(WindowsOf(t, order))
        /\ ToSet(WindowsOf(t, order)) = {w \in DOMAIN t.at : t.at[w] \in ToSet(order)}
    BY <1>1, <2>1, WindowsOfNodes
  <2>3. {w \in DOMAIN t.at : t.at[w] \in ToSet(order)} = DOMAIN t.at
    BY <1>1, <2>1 DEF Mapped
  <2> QED BY <2>2, <2>3 DEF order
<1>4. TreeOK(p) /\ Managed(p) = {} /\ p.endless = FALSE
  BY FromPluginOK
<1>5. ChangeLayout(t, layout) = moved[Len(ws)]
  BY DEF ChangeLayout
<1> HIDE DEF p
<1>6. Moved(t, ws, start, 0)
  <2>1. /\ p \in TreeSet /\ t.floating \subseteq Window
        /\ DOMAIN p.at = {} /\ p.floating = {}
    BY <1>1, <1>4 DEF TreeOK, IsTree, TreeSet, Managed
  <2>2. /\ start \in TreeSet /\ start.nodes = p.nodes /\ start.at = p.at /\ start.time = p.time
        /\ start.floating = t.floating /\ start.root = p.root /\ start.next = p.next
        /\ start.endless = p.endless
    BY <2>1 DEF TreeSet
  <2> HIDE DEF start
  <2>3. Nodes(start) = Nodes(p)
    BY <2>2 DEF Nodes
  <2>4. IsTree(start) /\ SameLinks(p, start)
    BY <1>4, <2>2, <2>3 DEF TreeOK, IsTree, SameLinks
  <2>5. Skeleton(start)
    BY <1>4, <2>4, SameLinksSkeleton DEF TreeOK
  <2>6. Shapes(start) /\ Agreement(start) /\ Mapped(start)
    BY <1>4, <2>1, <2>2, <2>3 DEF TreeOK, Shapes, Agreement, Mapped
  <2>7. start \in Trees
    BY <2>2, <2>4, <2>5, <2>6 DEF Trees, TreeOK
  <2>8. Managed(start) = t.floating \cup {ws[j] : j \in 1..0}
    <3>1. 1..0 = {}
      OBVIOUS
    <3> QED BY <2>1, <2>2, <3>1 DEF Managed
  <2> QED BY <1>4, <2>2, <2>7, <2>8 DEF Moved
<1> HIDE DEF start
<1>7. Len(ws) \in Nat /\ \A i \in 1..Len(ws) : ws[i] \in Window
  BY <1>3, ElementOfSeq
<1>8. ToSet(ws) \cap t.floating = {}
  BY <1>1, <1>3 DEF Agreement
<1>8a. {ws[j] : j \in 1..Len(ws)} = DOMAIN t.at
  BY <1>3, LenProperties DEF ToSet
<1> HIDE DEF ws
<1>9. next \in [1..Len(ws) -> [Trees -> Trees]]
  <2>1. \A i \in 1..Len(ws) : \A x \in Trees : MovedNext(x, ws[i]) \in Trees
    BY <1>7, MovedNextOK
  <2> QED BY <2>1
<1>10. start \in Trees
  BY <1>6 DEF Moved
<1>11. PICK g : g \in Runs(Trees, Len(ws), start, next)
  <2> HIDE DEF next
  <2> QED BY <1>7, <1>9, <1>10, Recursion
<1>12. g \in [0..Len(ws) -> Trees] /\ g[0] = start
       /\ \A i \in 1..Len(ws) : g[i] = next[i][g[i - 1]]
  BY <1>11 DEF Runs
<1>13. ASSUME NEW i \in 1..Len(ws) PROVE g[i] = MovedNext(g[i - 1], ws[i])
  <2>1. g[i - 1] \in Trees
    BY <1>7, <1>12
  <2>2. \A x \in Trees : next[i][x] = MovedNext(x, ws[i])
    OBVIOUS
  <2> HIDE DEF next
  <2> QED BY <1>12, <2>1, <2>2
<1> HIDE DEF next
<1> DEFINE N == {i \in 0..Len(ws) : Moved(t, ws, g[i], i)}
<1>14. 0..Len(ws) \subseteq N
  <2>1. 0 \in N
    BY <1>6, <1>7, <1>12
  <2>2. ASSUME NEW i \in 0..Len(ws), i < Len(ws), i \in N PROVE i + 1 \in N
    <3>1. i + 1 \in 1..Len(ws) /\ (i + 1) - 1 = i /\ i + 1 \in 0..Len(ws)
      BY <1>7, <2>2
    <3>2. Moved(t, ws, g[i], i)
      BY <2>2
    <3>3. /\ ws[i + 1] \notin DOMAIN g[i].at
          /\ Moved(t, ws, AddToTiled(g[i], ws[i + 1]), i + 1)
      BY <1>3, <1>8, <2>2, <3>2, MovedStep
    <3>4. g[i + 1] = AddToTiled(g[i], ws[i + 1])
      BY <1>13, <3>1, <3>3 DEF MovedNext
    <3> QED BY <3>1, <3>3, <3>4
  <2> HIDE DEF N
  <2> QED BY <1>7, <2>1, <2>2, BoundedInduction
<1>15. ASSUME NEW i \in 1..Len(ws) PROVE g[i] = AddToTiled(g[i - 1], ws[i])
  <2>1. i - 1 \in 0..Len(ws) /\ i - 1 < Len(ws) /\ (i - 1) + 1 = i
    BY <1>7
  <2>2. Moved(t, ws, g[i - 1], i - 1)
    BY <1>14, <2>1
  <2>3. ws[i] \notin DOMAIN g[i - 1].at
    BY <1>3, <1>8, <2>1, <2>2, MovedStep
  <2> QED BY <1>13, <2>3 DEF MovedNext
<1>16. g = eq(g)
  <2>1. ASSUME NEW i \in 0..Len(ws)
        PROVE  g[i] = IF i = 0 THEN start ELSE AddToTiled(g[i - 1], ws[i])
    <3>1. i = 0 \/ i \in 1..Len(ws)
      BY <1>7
    <3> QED BY <1>12, <1>15, <3>1
  <2> QED BY <1>12, <2>1
<1>17. moved = eq(moved)
  <2>1. \E h : h = eq(h)
    <3> HIDE DEF eq, moved
    <3> QED BY <1>16
  <2> QED BY <2>1, Zenon
<1> HIDE DEF moved
<1>18. /\ moved[0] = start
       /\ \A i \in 1..Len(ws) : moved[i] = AddToTiled(moved[i - 1], ws[i])
  <2>1. 0 \in 0..Len(ws) /\ \A i \in 1..Len(ws) : i \in 0..Len(ws) /\ i # 0
    BY <1>7
  <2> QED BY <1>17, <2>1
<1> DEFINE M == {i \in 0..Len(ws) : Moved(t, ws, moved[i], i)}
<1>19. 0..Len(ws) \subseteq M
  <2>1. 0 \in M
    BY <1>6, <1>7, <1>18
  <2>2. ASSUME NEW i \in 0..Len(ws), i < Len(ws), i \in M PROVE i + 1 \in M
    <3>1. i + 1 \in 1..Len(ws) /\ (i + 1) - 1 = i /\ i + 1 \in 0..Len(ws)
      BY <1>7, <2>2
    <3>2. Moved(t, ws, moved[i], i)
      BY <2>2
    <3>3. Moved(t, ws, AddToTiled(moved[i], ws[i + 1]), i + 1)
      BY <1>3, <1>8, <2>2, <3>2, MovedStep
    <3>4. moved[i + 1] = AddToTiled(moved[i], ws[i + 1])
      BY <1>18, <3>1
    <3> QED BY <3>1, <3>3, <3>4
  <2> HIDE DEF M
  <2> QED BY <1>7, <2>1, <2>2, BoundedInduction
<1>20. Moved(t, ws, moved[Len(ws)], Len(ws))
  BY <1>7, <1>19
<1> DEFINE u == moved[Len(ws)]
<1> HIDE DEF u
<1>21. TreeOK(u) /\ u.endless = FALSE /\ Managed(u) = Managed(t)
  BY <1>8a, <1>20 DEF Moved, Trees, Managed, u
<1> QED BY <1>5, <1>21 DEF u

\* What a reservation does to the next window
LEMMA ReservedGains ==
  ASSUME NEW t, TreeOK(t), NEW w \in Window, w \notin DOMAIN t.at, NEW r,
         r.node \in Nodes(t) => ~IsContainer(t.nodes[r.node])
  PROVE  Gains(t, Reserved(t, w, r), w)
<1>1. CASE r.side = "float"
  <2>1. Reserved(t, w, r) = AddToFloating(t, w)
    BY <1>1 DEF Reserved
  <2> QED BY <2>1, AddToFloatingGains
<1>2. CASE r.side # "float" /\ r.node \notin Nodes(t)
  <2>1. Reserved(t, w, r) = AddToTiled(t, w)
    BY <1>2 DEF Reserved, Nodes
  <2> QED BY <2>1, AddToTiledGains
<1>3. CASE r.side = "stack" /\ r.node \in Nodes(t)
  <2>1. Reserved(t, w, r) = PushStacked(t, w, r.node)
    BY <1>3 DEF Reserved, Nodes
  <2> QED BY <1>3, <2>1, PushStackedGains
<1>4. CASE r.side \notin {"float", "stack"} /\ r.node \in Nodes(t)
  <2>1. Reserved(t, w, r) = SplitNode(t, r.node, r.side, w)
    BY <1>4 DEF Reserved, Nodes
  <2> QED BY <1>4, <2>1, SplitNodeGains
<1> QED BY <1>1, <1>2, <1>3, <1>4
=============================================================================

----------------------------- MODULE NatLemmas -----------------------------
(***************************************************************************)
(* Facts about natural numbers that the proofs about the recovery scan, the *)
(* audit, the walks over versions, the scans and the rankings rest on: least *)
(* and greatest elements, induction stated over sets, so that it can be      *)
(* cited like any lemma, and the enumerations that Ranking makes of a set.   *)
(***************************************************************************)
EXTENDS Ranking, FiniteSetsExt, FiniteSetTheorems, WellFoundedInduction, TLAPS

\* A set of naturals that is not empty has a least element.
LEMMA LeastElement ==
    ASSUME NEW T \in SUBSET Nat, T # {}
    PROVE  \E x \in T : \A y \in T : x <= y
<1> DEFINE R == {ss \in Nat \X Nat : ss[1] < ss[2]}
<1>1. IsWellFoundedOn(R, Nat)
  BY NatLessThanWellFounded, Zenon DEF OpToRel
<1>2. PICK x \in T : \A y \in T : ~ (<<y, x>> \in R)
  <2> HIDE DEF R
  <2> QED BY <1>1, WFMin
<1>3. ASSUME NEW y \in T, y < x PROVE FALSE
  <2> DEFINE p == <<y, x>>
  <2>1. p \in Nat \X Nat /\ p[1] < p[2]
    BY <1>3
  <2>2. p \in R
    BY <2>1, Zenon
  <2> QED BY <1>2, <2>2
<1> HIDE DEF R
<1>4. ASSUME NEW y \in T PROVE ~(y < x)
  BY <1>3
<1> QED BY <1>4

\* Induction: a set that has 0 and the successor of each of its naturals has
\* all naturals.
LEMMA SetInduction ==
    ASSUME NEW S, 0 \in S, \A n \in Nat : n \in S => n + 1 \in S
    PROVE  Nat \subseteq S
<1> SUFFICES ASSUME Nat \ S # {} PROVE FALSE
  OBVIOUS
<1>1. PICK m \in Nat \ S : \A y \in Nat \ S : m <= y
  BY LeastElement
<1>2. m - 1 \in Nat /\ m - 1 \in S
  BY <1>1
<1> QED BY <1>1, <1>2

\* Induction up to a bound.
LEMMA BoundedInduction ==
    ASSUME NEW N \in Nat, NEW S, 0 \in S,
           \A n \in 0 .. N - 1 : n \in S => n + 1 \in S
    PROVE  0 .. N \subseteq S
<1> DEFINE T == {n \in Nat : n \in 0 .. N => n \in S}
<1>1. Nat \subseteq T
  <2>1. 0 \in T /\ \A n \in Nat : n \in T => n + 1 \in T
    OBVIOUS
  <2> HIDE DEF T
  <2> QED BY <2>1, SetInduction
<1> QED BY <1>1

\* Induction over all smaller numbers.
LEMMA StrongInduction ==
    ASSUME NEW S, \A n \in Nat : (\A m \in 0 .. n - 1 : m \in S) => n \in S
    PROVE  Nat \subseteq S
<1> SUFFICES ASSUME Nat \ S # {} PROVE FALSE
  OBVIOUS
<1>1. PICK m \in Nat \ S : \A y \in Nat \ S : m <= y
  BY LeastElement
<1>2. \A k \in 0 .. m - 1 : k \in S
  BY <1>1
<1> QED BY <1>1, <1>2

\* Each member of G goes from V to V.
Within(N, V, G) == \A k \in 1 .. N : G[k] \in [V -> V]

\* g starts at a and goes from each number to the next by G.
Follows(N, V, a, G, g) ==
    g \in [0 .. N -> V] /\ g[0] = a /\ \A k \in 1 .. N : g[k] = G[k][g[k - 1]]

\* A function on 0 .. N can be defined from each number to the next.
LEMMA Iterates ==
    ASSUME NEW N \in Nat, NEW V, NEW a \in V, NEW G, Within(N, V, G)
    PROVE  \E g : Follows(N, V, a, G, g)
<1> USE DEF Within
<1> DEFINE Upto(g, j) == g \in [0 .. j -> V] /\ g[0] = a
                         /\ \A k \in 1 .. j : g[k] = G[k][g[k - 1]]
           T == {j \in 0 .. N : \E g : Upto(g, j)}
<1>1. 0 \in T
  <2> DEFINE g == [k \in 0 .. 0 |-> a]
  <2>1. Upto(g, 0)
    OBVIOUS
  <2>2. \E f : Upto(f, 0)
    <3> HIDE DEF Upto, g
    <3> QED BY <2>1
  <2> HIDE DEF Upto, g
  <2> QED BY <2>2
<1>2. ASSUME NEW j \in 0 .. N - 1, j \in T
      PROVE  j + 1 \in T
  <2>1. PICK g : Upto(g, j)
    BY <1>2
  <2> DEFINE b == G[j + 1][g[j]]
             h == [k \in 0 .. j + 1 |-> IF k = j + 1 THEN b ELSE g[k]]
  <2>2. b \in V
    <3>1. j + 1 \in 1 .. N /\ j \in 0 .. j
      OBVIOUS
    <3>2. g[j] \in V
      BY <2>1, <3>1
    <3> QED BY <3>1, <3>2
  <2> HIDE DEF b
  <2>3. h \in [0 .. j + 1 -> V] /\ h[0] = a
    <3>1. \A k \in 0 .. j + 1 : k # j + 1 => k \in 0 .. j
      OBVIOUS
    <3>2. 0 \in 0 .. j + 1 /\ 0 # j + 1
      OBVIOUS
    <3> QED BY <2>1, <2>2, <3>1, <3>2
  <2>4. ASSUME NEW k \in 1 .. j + 1 PROVE h[k] = G[k][h[k - 1]]
    <3>1. k - 1 \in 0 .. j + 1 /\ k - 1 # j + 1 /\ k \in 0 .. j + 1
      OBVIOUS
    <3>2. h[k - 1] = g[k - 1]
      BY <3>1
    <3>3. CASE k = j + 1
      <4>1. k - 1 = j
        BY <3>3
      <4> QED BY <3>1, <3>2, <3>3, <4>1 DEF b
    <3>4. CASE k # j + 1
      <4>1. k \in 1 .. j
        BY <3>4
      <4>2. h[k] = g[k]
        BY <3>1, <3>4
      <4> QED BY <2>1, <4>1, <4>2, <3>2
    <3> QED BY <3>3, <3>4
  <2>5. Upto(h, j + 1)
    <3> HIDE DEF h
    <3> QED BY <2>3, <2>4
  <2>6. \E f : Upto(f, j + 1)
    <3> HIDE DEF Upto, h
    <3> QED BY <2>5
  <2> HIDE DEF Upto, h
  <2> QED BY <2>6
<1>3. N \in T
  <2> HIDE DEF T
  <2>1. N \in 0 .. N
    OBVIOUS
  <2> QED BY <2>1, <1>1, <1>2, BoundedInduction
<1> QED BY <1>3 DEF Follows

\* A set of naturals up to N that is not empty has a greatest element, which
\* is its Max.
LEMMA MaxOfBounded ==
    ASSUME NEW N \in Nat, NEW S \in SUBSET (0 .. N), S # {}
    PROVE  Max(S) \in S /\ \A y \in S : Max(S) >= y
<1> DEFINE T == {k \in 0 .. N : N - k \in S}
<1>1. ASSUME NEW y \in S PROVE N - y \in T
  OBVIOUS
<1>2. T \in SUBSET Nat /\ T # {}
  <2>1. T \in SUBSET Nat
    OBVIOUS
  <2>2. PICK y \in S : TRUE
    OBVIOUS
  <2> QED BY <1>1, <2>1, <2>2
<1>3. PICK t \in T : \A u \in T : t <= u
  <2> HIDE DEF T
  <2> QED BY <1>2, LeastElement
<1>4. N - t \in S /\ \A y \in S : N - t >= y
  <2>1. t \in 0 .. N /\ N - t \in S
    BY <1>3
  <2>2. ASSUME NEW y \in S PROVE N - t >= y
    <3>1. t <= N - y
      <4> HIDE DEF T
      <4> QED BY <1>1, <1>3
    <3> QED BY <2>1, <3>1
  <2> QED BY <2>1, <2>2
<1> QED BY <1>4 DEF Max

\* The larger of two integers.
LEMMA MaxOfTwo ==
    ASSUME NEW a \in Int, NEW b \in Int
    PROVE  Max({a, b}) = IF a >= b THEN a ELSE b
<1>1. \E x \in {a, b} : \A y \in {a, b} : x >= y
  OBVIOUS
<1>2. Max({a, b}) \in {a, b} /\ \A y \in {a, b} : Max({a, b}) >= y
  BY <1>1 DEF Max
<1> QED BY <1>2

\* A set of naturals that is not empty has its Min.
LEMMA MinOfNat ==
    ASSUME NEW S \in SUBSET Nat, S # {}
    PROVE  Min(S) \in S /\ \A y \in S : Min(S) <= y
  BY LeastElement DEF Min

\* next goes down from every number that is not in stop.
Descends(N, stop, next) ==
    \A u \in 0 .. N : u \notin stop => next[u] \in 0 .. u - 1

\* There is a function that walks down by next until it meets stop and
\* collects the numbers it passes, ...
Collects(N, stop, base, next) ==
    \E V : \E g \in [0 .. N -> V] : \A u \in 0 .. N :
        g[u] = IF u \in stop THEN base[u] ELSE {u} \cup g[next[u]]

\* ... and one that returns where it stops.
Seeks(N, stop, next) ==
    \E V : \E g \in [0 .. N -> V] : \A u \in 0 .. N :
        g[u] = IF u \in stop THEN u ELSE g[next[u]]

\* A walk that goes down has its collection.
LEMMA CollectExists ==
    ASSUME NEW N \in Nat, NEW stop, NEW base, NEW next, Descends(N, stop, next)
    PROVE  Collects(N, stop, base, next)
<1> USE DEF Descends
<1> DEFINE E(g, u) == IF u \in stop THEN base[u] ELSE {u} \cup g[next[u]]
           Upto(g, n) == g = [u \in 0 .. n |-> E(g, u)]
           S == {n \in 0 .. N : \E g : Upto(g, n)}
<1>1. 0 \in S
  <2> DEFINE g == [u \in 0 .. 0 |-> base[u]]
  <2>1. 0 \in stop
    OBVIOUS
  <2>2. Upto(g, 0)
    BY <2>1
  <2>3. \E f : Upto(f, 0)
    <3> HIDE DEF Upto, g
    <3> QED BY <2>2
  <2> HIDE DEF Upto, g
  <2> QED BY <2>3
<1>2. ASSUME NEW n \in 0 .. N - 1, n \in S
      PROVE  n + 1 \in S
  <2>1. PICK g : Upto(g, n)
    BY <1>2
  <2>2. \A u \in 0 .. n : g[u] = E(g, u)
    <3> HIDE DEF E
    <3> QED BY <2>1
  <2> DEFINE h == [u \in 0 .. n + 1 |-> IF u = n + 1 THEN E(g, n + 1) ELSE g[u]]
  <2>3. ASSUME NEW u \in 0 .. n + 1 PROVE h[u] = E(h, u)
    <3>1. u \in 0 .. N
      OBVIOUS
    <3>2. u \notin stop => next[u] \in 0 .. n + 1 /\ next[u] # n + 1 /\ next[u] \in 0 .. n
      BY <3>1
    <3>3. u \notin stop => h[next[u]] = g[next[u]]
      BY <3>2
    <3>4. E(h, u) = E(g, u)
      <4> HIDE DEF h
      <4> QED BY <3>3
    <3>5. h[u] = E(g, u)
      <4> HIDE DEF E
      <4> QED BY <2>2
    <3> HIDE DEF E, h
    <3> QED BY <3>4, <3>5
  <2>4. Upto(h, n + 1)
    <3> HIDE DEF E
    <3> QED BY <2>3
  <2>5. \E f : Upto(f, n + 1)
    <3> HIDE DEF Upto, h
    <3> QED BY <2>4
  <2> HIDE DEF Upto, h
  <2> QED BY <2>5
<1>3. N \in S
  <2> HIDE DEF S
  <2> QED BY <1>1, <1>2, BoundedInduction
<1>4. PICK g : Upto(g, N)
  BY <1>3
<1> DEFINE V == {g[u] : u \in 0 .. N}
<1>5. g \in [0 .. N -> V] /\ \A u \in 0 .. N : g[u] = E(g, u)
  <2> HIDE DEF E
  <2> QED BY <1>4
<1> HIDE DEF V
<1> QED BY <1>5 DEF Collects

\* A walk that goes down stops somewhere.
LEMMA SeekExists ==
    ASSUME NEW N \in Nat, NEW stop, NEW next, Descends(N, stop, next)
    PROVE  Seeks(N, stop, next)
<1> USE DEF Descends
<1> DEFINE E(g, u) == IF u \in stop THEN u ELSE g[next[u]]
           Upto(g, n) == g = [u \in 0 .. n |-> E(g, u)]
           S == {n \in 0 .. N : \E g : Upto(g, n)}
<1>1. 0 \in S
  <2> DEFINE g == [u \in 0 .. 0 |-> u]
  <2>1. 0 \in stop
    OBVIOUS
  <2>2. Upto(g, 0)
    BY <2>1
  <2>3. \E f : Upto(f, 0)
    <3> HIDE DEF Upto, g
    <3> QED BY <2>2
  <2> HIDE DEF Upto, g
  <2> QED BY <2>3
<1>2. ASSUME NEW n \in 0 .. N - 1, n \in S
      PROVE  n + 1 \in S
  <2>1. PICK g : Upto(g, n)
    BY <1>2
  <2>2. \A u \in 0 .. n : g[u] = E(g, u)
    <3> HIDE DEF E
    <3> QED BY <2>1
  <2> DEFINE h == [u \in 0 .. n + 1 |-> IF u = n + 1 THEN E(g, n + 1) ELSE g[u]]
  <2>3. ASSUME NEW u \in 0 .. n + 1 PROVE h[u] = E(h, u)
    <3>1. u \in 0 .. N
      OBVIOUS
    <3>2. u \notin stop => next[u] \in 0 .. n + 1 /\ next[u] # n + 1 /\ next[u] \in 0 .. n
      BY <3>1
    <3>3. u \notin stop => h[next[u]] = g[next[u]]
      BY <3>2
    <3>4. E(h, u) = E(g, u)
      <4> HIDE DEF h
      <4> QED BY <3>3
    <3>5. h[u] = E(g, u)
      <4> HIDE DEF E
      <4> QED BY <2>2
    <3> HIDE DEF E, h
    <3> QED BY <3>4, <3>5
  <2>4. Upto(h, n + 1)
    <3> HIDE DEF E
    <3> QED BY <2>3
  <2>5. \E f : Upto(f, n + 1)
    <3> HIDE DEF Upto, h
    <3> QED BY <2>4
  <2> HIDE DEF Upto, h
  <2> QED BY <2>5
<1>3. N \in S
  <2> HIDE DEF S
  <2> QED BY <1>1, <1>2, BoundedInduction
<1>4. PICK g : Upto(g, N)
  BY <1>3
<1> DEFINE V == {g[u] : u \in 0 .. N}
<1>5. g \in [0 .. N -> V] /\ \A u \in 0 .. N : g[u] = E(g, u)
  <2> HIDE DEF E
  <2> QED BY <1>4
<1> HIDE DEF V
<1> QED BY <1>5 DEF Seeks

----------------------------------------------------------------------------
(***************************************************************************)
(* Enumerations of a finite set.                                             *)
(***************************************************************************)
\* s has every member of S once.
Enumerates(s, S) ==
    /\ Len(s) = Cardinality(S) /\ Len(s) \in Nat
    /\ \A i \in 1 .. Len(s) : s[i] \in S
    /\ \A i, j \in 1 .. Len(s) : s[i] = s[j] => i = j
    /\ \A x \in S : \E i \in 1 .. Len(s) : s[i] = x

LEMMA InjectionEnumerates ==
    ASSUME NEW S, IsFiniteSet(S), NEW s \in [1 .. Cardinality(S) -> S],
           \A i, j \in 1 .. Cardinality(S) : s[i] = s[j] => i = j
    PROVE  Enumerates(s, S)
<1> DEFINE n == Cardinality(S)
<1>1. n \in Nat
  BY FS_CardinalityType
<1>2. IsFiniteSet(1 .. n) /\ Cardinality(1 .. n) = n
  BY <1>1, FS_Interval
<1>3. s \in Injection(1 .. n, S)
  BY DEF Injection, IsInjective
<1>4. s \in Surjection(1 .. n, S)
  <2> HIDE DEF n
  <2> QED BY <1>2, <1>3, FS_Injection DEF n
<1>5. \A x \in S : \E i \in 1 .. n : s[i] = x
  BY <1>4 DEF Surjection
<1>6. Len(s) = n
  <2> HIDE DEF n
  <2> QED BY <1>1 DEF n
<1> QED BY <1>1, <1>5, <1>6 DEF Enumerates

----------------------------------------------------------------------------
(***************************************************************************)
(* The best of a set.                                                        *)
(***************************************************************************)
LEMMA LeastIs ==
    ASSUME NEW S, S # {}, NEW d, \A x \in S : d[x] \in Nat
    PROVE  Least(S, d) \in S /\ \A x \in S : d[Least(S, d)] <= d[x]
<1> DEFINE V == {d[x] : x \in S}
<1>1. V \in SUBSET Nat /\ V # {}
  OBVIOUS
<1>2. \E v \in V : \A w \in V : v <= w
  <2> HIDE DEF V
  <2> QED BY <1>1, LeastElement
<1>3. \E s \in S : \A t \in S : d[s] <= d[t]
  BY <1>2
<1> QED BY <1>3 DEF Least

WithoutLeast(S, d) == S \ {Least(S, d)}

LeavesBehind(left, S, d, n, m) ==
    /\ left[0] = S
    /\ \A k \in 1 .. m : left[k] = WithoutLeast(left[k - 1], d)
    /\ Closest(S, d, n) = [k \in 1 .. m |-> Least(left[k - 1], d)]

\* The sets Closest leaves behind.
LEMMA LeftAre ==
    ASSUME NEW S, NEW d, NEW n \in Nat, Cardinality(S) \in Nat
    PROVE  \E left : LeavesBehind(left, S, d, n, IF Cardinality(S) < n THEN Cardinality(S) ELSE n)
<1> DEFINE N == IF Cardinality(S) < n THEN Cardinality(S) ELSE n
           F(g, k) == IF k = 0 THEN S ELSE WithoutLeast(g[k - 1], d)
           Upto(g, j) == g = [k \in 0 .. j |-> F(g, k)]
           T == {j \in 0 .. N : \E g : Upto(g, j)}
           left == CHOOSE g : g = [k \in 0 .. N |-> F(g, k)]
<1>a. N \in Nat
  OBVIOUS
<1>1. Closest(S, d, n) = [k \in 1 .. N |-> Least(left[k - 1], d)]
  BY DEF Closest, WithoutLeast
<1> HIDE DEF N
<1>2. 0 \in T
  <2> DEFINE g == [k \in 0 .. 0 |-> S]
  <2>1. \A k \in 0 .. 0 : g[k] = F(g, k)
    OBVIOUS
  <2>2. Upto(g, 0)
    <3> HIDE DEF F
    <3> QED BY <2>1
  <2>3. \E f : Upto(f, 0)
    <3> HIDE DEF Upto, g
    <3> QED BY <2>2
  <2> HIDE DEF Upto, g
  <2> QED BY <2>3, <1>a
<1>3. ASSUME NEW j \in 0 .. N - 1, j \in T
      PROVE  j + 1 \in T
  <2>1. PICK g : Upto(g, j)
    BY <1>3
  <2>2. \A k \in 0 .. j : g[k] = F(g, k)
    <3> HIDE DEF F
    <3> QED BY <2>1
  <2> DEFINE h == [k \in 0 .. j + 1 |-> IF k = j + 1 THEN F(g, j + 1) ELSE g[k]]
  <2>3. ASSUME NEW k \in 0 .. j + 1 PROVE h[k] = F(h, k)
    <3>1. k # 0 => k - 1 \in 0 .. j + 1 /\ k - 1 # j + 1 /\ k - 1 \in 0 .. j
      BY <1>a
    <3>2. k # 0 => h[k - 1] = g[k - 1]
      <4> HIDE DEF F
      <4> QED BY <3>1
    <3>3. F(h, k) = F(g, k)
      <4> HIDE DEF h
      <4> QED BY <3>2
    <3>4. h[k] = F(g, k)
      <4> HIDE DEF F
      <4> QED BY <2>2, <1>a
    <3> HIDE DEF F, h
    <3> QED BY <3>3, <3>4
  <2>4. Upto(h, j + 1)
    <3> HIDE DEF F
    <3> QED BY <2>3
  <2>5. \E f : Upto(f, j + 1)
    <3> HIDE DEF Upto, h
    <3> QED BY <2>4
  <2> HIDE DEF Upto, h
  <2> QED BY <2>5, <1>a
<1>4. N \in T
  <2> HIDE DEF T
  <2>1. N \in 0 .. N
    BY <1>a
  <2> QED BY <2>1, <1>2, <1>3, <1>a, BoundedInduction
<1>5. \E g : Upto(g, N)
  BY <1>4
<1> HIDE DEF F
<1>6. left = [k \in 0 .. N |-> F(left, k)]
  BY <1>5
<1> HIDE DEF left
<1>7. \A k \in 0 .. N : left[k] = F(left, k)
  BY <1>6
<1>8. left[0] = S
  BY <1>7, <1>a DEF F
<1>9. \A k \in 1 .. N : left[k] = WithoutLeast(left[k - 1], d)
  BY <1>7, <1>a DEF F
<1>10. LeavesBehind(left, S, d, n, N)
  BY <1>1, <1>8, <1>9 DEF LeavesBehind
<1> QED BY <1>10 DEF N

\* Closest returns members of S, each once, as many as it may.
LEMMA ClosestIs ==
    ASSUME NEW S, IsFiniteSet(S), NEW d, \A x \in S : d[x] \in Nat, NEW n \in Nat
    PROVE  LET s == Closest(S, d, n) IN
           /\ Len(s) = (IF Cardinality(S) < n THEN Cardinality(S) ELSE n) /\ Len(s) \in Nat
           /\ \A i \in 1 .. Len(s) : s[i] \in S
           /\ \A i, j \in 1 .. Len(s) : s[i] = s[j] => i = j
           /\ Cardinality(S) <= n => Enumerates(s, S)
<1> DEFINE c == Cardinality(S)
           m == IF c < n THEN c ELSE n
           s == Closest(S, d, n)
<1>1. c \in Nat /\ m \in Nat /\ m <= c
  BY FS_CardinalityType
<1>0. PICK left : LeavesBehind(left, S, d, n, m)
  BY <1>1, LeftAre
<1>2. /\ left[0] = S
      /\ \A k \in 1 .. m : left[k] = WithoutLeast(left[k - 1], d)
      /\ s = [k \in 1 .. m |-> Least(left[k - 1], d)]
  <2> HIDE DEF m
  <2> QED BY <1>0 DEF LeavesBehind
<1> HIDE DEF m, s
<1> DEFINE P(k) == /\ left[k] \subseteq S /\ IsFiniteSet(left[k])
                   /\ Cardinality(left[k]) = c - k
                   /\ \A j \in 1 .. k : s[j] \in S \ left[k]
<1>3. P(0)
  BY <1>1, <1>2
<1>4. ASSUME NEW k \in 0 .. m - 1, P(k)
      PROVE  P(k + 1)
  <2>1. k + 1 \in 1 .. m /\ (k + 1) - 1 = k /\ c - k > 0
    BY <1>1
  <2>2. left[k + 1] = left[k] \ {Least(left[k], d)} /\ s[k + 1] = Least(left[k], d)
    BY <1>2, <2>1 DEF WithoutLeast
  <2>3. left[k] # {}
    BY <1>4, <2>1, FS_EmptySet
  <2>4. Least(left[k], d) \in left[k]
    <3>1. \A x \in left[k] : d[x] \in Nat
      BY <1>4
    <3> QED BY <2>3, <3>1, LeastIs
  <2>5. IsFiniteSet(left[k + 1]) /\ Cardinality(left[k + 1]) = c - k - 1
    BY <2>2, <2>4, <1>4, FS_RemoveElement
  <2>6. ASSUME NEW j \in 1 .. k + 1 PROVE s[j] \in S \ left[k + 1]
    <3>1. CASE j = k + 1
      BY <3>1, <2>2, <2>4, <1>4
    <3>2. CASE j # k + 1
      <4>1. j \in 1 .. k
        BY <3>2
      <4> QED BY <4>1, <1>4, <2>2
    <3> QED BY <3>1, <3>2
  <2> QED BY <2>2, <2>5, <2>6, <1>4, <1>1
<1>5. \A k \in 0 .. m : P(k)
  <2> DEFINE T == {k \in 0 .. m : P(k)}
  <2>1. 0 \in T /\ \A k \in 0 .. m - 1 : k \in T => k + 1 \in T
    <3> HIDE DEF P
    <3> QED BY <1>1, <1>3, <1>4
  <2> HIDE DEF T, P
  <2>2. 0 .. m \subseteq T
    BY <2>1, <1>1, BoundedInduction
  <2> QED BY <2>2 DEF T
<1>6. Len(s) = m /\ s \in [1 .. m -> S]
  <2>1. ASSUME NEW k \in 1 .. m PROVE s[k] \in S
    <3>1. P(k)
      BY <1>5, <1>1
    <3> QED BY <3>1, <1>1
  <2> QED BY <1>1, <1>2, <2>1
<1>7. ASSUME NEW i \in 1 .. m, NEW j \in 1 .. m, i < j PROVE s[i] # s[j]
  <2>1. j - 1 \in 0 .. m /\ j - 1 # m /\ i \in 1 .. j - 1 /\ (j - 1) + 1 = j
    BY <1>1, <1>7
  <2>2. left[j - 1] \subseteq S /\ Cardinality(left[j - 1]) = c - (j - 1) /\ IsFiniteSet(left[j - 1])
        /\ s[i] \in S \ left[j - 1]
    BY <1>5, <2>1
  <2>3. left[j - 1] # {}
    BY <2>1, <2>2, <1>1, FS_EmptySet
  <2>4. s[j] \in left[j - 1]
    <3>1. \A x \in left[j - 1] : d[x] \in Nat
      BY <2>2
    <3>2. Least(left[j - 1], d) \in left[j - 1]
      BY <2>3, <3>1, LeastIs
    <3> QED BY <3>2, <1>2
  <2> QED BY <2>2, <2>4
<1>8. \A i, j \in 1 .. m : s[i] = s[j] => i = j
  BY <1>7, <1>1
<1>9. c <= n => Enumerates(s, S)
  <2> SUFFICES ASSUME c <= n PROVE Enumerates(s, S)
    OBVIOUS
  <2>1. m = c
    BY <1>1 DEF m
  <2> HIDE DEF s
  <2> QED BY <2>1, <1>6, <1>8, InjectionEnumerates
<1>10. \A i \in 1 .. m : s[i] \in S
  BY <1>6
<1> QED BY <1>1, <1>6, <1>8, <1>9, <1>10 DEF m, s

LEMMA SortedNumbersIs ==
    ASSUME NEW S \in SUBSET Nat, IsFiniteSet(S)
    PROVE  Enumerates(SortedNumbers(S), S)
<1> DEFINE d == [x \in S |-> x]
<1>1. Cardinality(S) \in Nat /\ Cardinality(S) <= Cardinality(S)
  BY FS_CardinalityType
<1>2. \A x \in S : d[x] \in Nat
  OBVIOUS
<1>3. SortedNumbers(S) = Closest(S, d, Cardinality(S))
  BY DEF SortedNumbers
<1> HIDE DEF d
<1>4. Enumerates(Closest(S, d, Cardinality(S)), S)
  BY <1>1, <1>2, ClosestIs
<1> QED BY <1>3, <1>4

\* They come in ascending order.
LEMMA SortedNumbersAscend ==
    ASSUME NEW S \in SUBSET Nat, IsFiniteSet(S)
    PROVE  LET s == SortedNumbers(S) IN
           \A i, j \in 1 .. Len(s) : i < j => s[i] < s[j]
<1> DEFINE d == [x \in S |-> x]
           m == Cardinality(S)
           s == SortedNumbers(S)
<1>1. m \in Nat
  BY FS_CardinalityType
<1>2. Len(s) = m /\ (\A i \in 1 .. m : s[i] \in S) /\ \A i, j \in 1 .. m : s[i] = s[j] => i = j
  BY SortedNumbersIs DEF Enumerates
<1>3. s = Closest(S, d, m)
  BY DEF SortedNumbers
<1>4. (IF m < m THEN m ELSE m) = m
  BY <1>1
<1> HIDE DEF m, s
<1>5. PICK left : LeavesBehind(left, S, d, m, m)
  <2> HIDE DEF d
  <2> QED BY <1>1, <1>4, LeftAre DEF m
<1>6. /\ left[0] = S
      /\ \A k \in 1 .. m : left[k] = left[k - 1] \ {Least(left[k - 1], d)}
      /\ \A k \in 1 .. m : s[k] = Least(left[k - 1], d)
  BY <1>1, <1>3, <1>5 DEF LeavesBehind, WithoutLeast
<1> DEFINE P(k) == left[k] = {x \in S : \A j \in 1 .. k : x # s[j]}
           T == {k \in 0 .. m : P(k)}
<1>7. 0 \in T
  BY <1>1, <1>6
<1>8. ASSUME NEW k \in 0 .. m - 1, k \in T PROVE k + 1 \in T
  <2>1. k + 1 \in 1 .. m /\ (k + 1) - 1 = k /\ P(k)
    BY <1>1, <1>8
  <2>2. left[k + 1] = left[k] \ {s[k + 1]}
    BY <2>1, <1>6
  <2>3. \A j : j \in 1 .. k + 1 <=> (j \in 1 .. k \/ j = k + 1)
    BY <2>1, <1>1
  <2>4. P(k + 1)
    BY <2>1, <2>2, <2>3
  <2> QED BY <2>1, <2>4
<1>9. 0 .. m \subseteq T
  <2> HIDE DEF T
  <2> QED BY <1>1, <1>7, <1>8, BoundedInduction
<1>10. ASSUME NEW i \in 1 .. m, NEW j \in 1 .. m, i < j PROVE s[i] < s[j]
  <2>1. i - 1 \in 0 .. m
    BY <1>1
  <2>2. left[i - 1] = {x \in S : \A k \in 1 .. i - 1 : x # s[k]}
    BY <2>1, <1>9
  <2>3. s[j] \in left[i - 1] /\ left[i - 1] \subseteq S
    BY <2>2, <1>2, <1>10, <1>1
  <2>4. \A x \in left[i - 1] : d[x] \in Nat /\ d[x] = x
    BY <2>3
  <2>5. d[Least(left[i - 1], d)] <= d[s[j]] /\ Least(left[i - 1], d) \in left[i - 1]
    <3> HIDE DEF d
    <3> QED BY <2>3, <2>4, LeastIs
  <2>6. s[i] <= s[j]
    BY <2>3, <2>4, <2>5, <1>6
  <2>7. s[i] \in Nat /\ s[j] \in Nat
    BY <1>2
  <2>8. s[i] # s[j]
    BY <1>2, <1>10
  <2> QED BY <2>6, <2>7, <2>8
<1> QED BY <1>2, <1>10 DEF s
=============================================================================

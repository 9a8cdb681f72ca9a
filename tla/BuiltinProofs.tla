---------------------------- MODULE BuiltinProofs ----------------------------
(***************************************************************************)
(* Proofs about BuiltinLoops.                                              *)
(***************************************************************************)
EXTENDS BuiltinLoops, UntypedSeqs, FiniteSetTheorems

-----------------------------------------------------------------------------
(***************************************************************************)
(* Counting.                                                               *)
(***************************************************************************)

\* A different part of D for every element of D, each within or around each
\* other: they have every size from 1 to that of D.
LEMMA Chain ==
  ASSUME NEW D, IsFiniteSet(D), NEW f,
         \A i \in D : i \in f[i] /\ f[i] \subseteq D,
         \A i, j \in D : f[i] \subseteq f[j] \/ f[j] \subseteq f[i],
         \A i, j \in D : f[i] = f[j] => i = j
  PROVE  /\ Cardinality(D) \in Nat
         /\ \A i \in D : Cardinality(f[i]) \in 1..Cardinality(D)
         /\ \A i, j \in D : Cardinality(f[i]) <= Cardinality(f[j]) => f[i] \subseteq f[j]
         /\ \A i, j \in D : Cardinality(f[i]) = Cardinality(f[j]) => i = j
         /\ \A n \in 1..Cardinality(D) : \E i \in D : Cardinality(f[i]) = n
<1> DEFINE C(i) == Cardinality(f[i])
           N == Cardinality(D)
           g == [i \in D |-> C(i)]
<1>1. N \in Nat
  BY FS_CardinalityType
<1>2. ASSUME NEW i \in D
      PROVE  IsFiniteSet(f[i]) /\ C(i) \in 1..N
  <2>1. IsFiniteSet(f[i]) /\ C(i) <= N
    BY FS_Subset
  <2>2. C(i) \in Nat /\ C(i) # 0
    BY <2>1, FS_CardinalityType, FS_EmptySet
  <2> QED
    BY <1>1, <2>1, <2>2
<1>3. ASSUME NEW i \in D, NEW j \in D, C(i) <= C(j)
      PROVE  f[i] \subseteq f[j]
  <2>1. CASE f[i] \subseteq f[j]
    BY <2>1
  <2>2. CASE f[j] \subseteq f[i]
    <3>1. IsFiniteSet(f[i]) /\ C(i) \in Nat /\ C(j) \in Nat
      BY <1>1, <1>2
    <3>2. C(j) <= C(i) /\ (C(j) = C(i) => f[j] = f[i])
      BY <2>2, <3>1, FS_Subset
    <3> QED
      BY <1>3, <3>1, <3>2
  <2> QED
    BY <2>1, <2>2
<1>4. ASSUME NEW i \in D, NEW j \in D, C(i) = C(j)
      PROVE  i = j
  <2>1. C(i) \in Nat /\ C(j) \in Nat
    BY <1>1, <1>2
  <2>2. f[i] \subseteq f[j] /\ f[j] \subseteq f[i]
    BY <1>3, <1>4, <2>1
  <2> QED
    BY <2>2
<1>5. ASSUME NEW n \in 1..N
      PROVE  \E i \in D : C(i) = n
  <2>1. g \in [D -> 1..N]
    BY <1>2
  <2>2. g \in Injection(D, 1..N)
    BY <1>4, <2>1 DEF Injection, IsInjective
  <2>3. IsFiniteSet(1..N) /\ Cardinality(1..N) = N
    BY <1>1, FS_Interval
  <2>4. g \in Surjection(D, 1..N)
    BY <2>2, <2>3, FS_Injection
  <2> QED
    BY <2>4 DEF Surjection
<1> QED
  BY <1>1, <1>2, <1>3, <1>4, <1>5

\* How many of the places are not behind i, and the nth of them.
Rank(places, i) == Cardinality({j \in places : j <= i})
Nth(places, n)  == CHOOSE i \in places : Rank(places, i) = n

\* Places have the ranks from 1 on, in their order.
LEMMA Ranks ==
  ASSUME NEW n \in Nat, NEW places, places \subseteq 1..n
  PROVE  /\ IsFiniteSet(places)
         /\ Cardinality(places) \in Nat
         /\ \A i \in places : Rank(places, i) \in 1..Cardinality(places)
         /\ \A i, j \in places : Rank(places, i) <= Rank(places, j) => i <= j
         /\ \A m \in 1..Cardinality(places) : \E i \in places : Rank(places, i) = m
<1> DEFINE f == [i \in places |-> {j \in places : j <= i}]
<1>1. IsFiniteSet(places)
  <2>1. IsFiniteSet(1..n)
    BY FS_Interval
  <2> QED
    BY <2>1, FS_Subset
<1>2. \A i \in places : i \in f[i] /\ f[i] \subseteq places
  OBVIOUS
<1>3. \A i, j \in places : f[i] \subseteq f[j] \/ f[j] \subseteq f[i]
  <2> SUFFICES ASSUME NEW i \in places, NEW j \in places
               PROVE  f[i] \subseteq f[j] \/ f[j] \subseteq f[i]
    OBVIOUS
  <2>1. \A k \in places : k \in Int
    OBVIOUS
  <2>2. ASSUME i <= j, NEW k \in f[i]
        PROVE  k \in f[j]
    BY <2>1, <2>2
  <2>3. ASSUME j <= i, NEW k \in f[j]
        PROVE  k \in f[i]
    BY <2>1, <2>3
  <2>4. i <= j \/ j <= i
    BY <2>1
  <2> HIDE DEF f
  <2> QED
    BY <2>2, <2>3, <2>4
<1>4. \A i, j \in places : f[i] = f[j] => i = j
  <2> SUFFICES ASSUME NEW i \in places, NEW j \in places, f[i] = f[j]
               PROVE  i = j
    OBVIOUS
  <2>1. i \in f[j] /\ j \in f[i]
    OBVIOUS
  <2> QED
    BY <2>1
<1>5. \A i, j \in places : f[i] \subseteq f[j] => i <= j
  OBVIOUS
<1>6. \A i \in places : Cardinality(f[i]) = Rank(places, i)
  BY DEF Rank
<1> HIDE DEF f
<1>7. /\ Cardinality(places) \in Nat
      /\ \A i \in places : Cardinality(f[i]) \in 1..Cardinality(places)
      /\ \A i, j \in places : Cardinality(f[i]) <= Cardinality(f[j]) => f[i] \subseteq f[j]
      /\ \A m \in 1..Cardinality(places) : \E i \in places : Cardinality(f[i]) = m
  BY <1>1, <1>2, <1>3, <1>4, Chain
<1>8. \A i, j \in places : Rank(places, i) <= Rank(places, j) => i <= j
  <2> SUFFICES ASSUME NEW i \in places, NEW j \in places,
                      Rank(places, i) <= Rank(places, j)
               PROVE  i <= j
    OBVIOUS
  <2>1. Cardinality(f[i]) <= Cardinality(f[j])
    BY <1>6
  <2> QED
    BY <1>5, <1>7, <2>1
<1>9. \A m \in 1..Cardinality(places) : \E i \in places : Rank(places, i) = m
  BY <1>6, <1>7
<1> QED
  BY <1>1, <1>6, <1>7, <1>8, <1>9

\* The place of a rank, and no other place has it.
LEMMA NthFacts ==
  ASSUME NEW n \in Nat, NEW places, places \subseteq 1..n,
         NEW m \in 1..Cardinality(places)
  PROVE  /\ Nth(places, m) \in places
         /\ \A i \in places : Rank(places, i) = m <=> i = Nth(places, m)
<1>1. \E i \in places : Rank(places, i) = m
  BY Ranks
<1>2. Nth(places, m) \in places /\ Rank(places, Nth(places, m)) = m
  BY <1>1 DEF Nth
<1>3. ASSUME NEW i \in places, NEW j \in places, Rank(places, i) = m, Rank(places, j) = m
      PROVE  i = j
  <2>1. Rank(places, i) <= Rank(places, j) /\ Rank(places, j) <= Rank(places, i)
    BY <1>3
  <2>2. i <= j /\ j <= i
    BY <2>1, Ranks
  <2> QED
    BY <2>2
<1> QED
  BY <1>2, <1>3

\* o enumerates the places in their order, and list has the items at them.
Enumerates(o, places) ==
  /\ o \in [1..Cardinality(places) -> places]
  /\ \A k, m \in 1..Cardinality(places) : k < m => o[k] < o[m]
  /\ \A i \in places : \E m \in 1..Cardinality(places) : o[m] = i

HasItemsAt(list, items, o) ==
  DOMAIN list = DOMAIN o /\ \A m \in DOMAIN o : list[m] = items[o[m]]

\* What Picked does: it lists the items at the places, in their order.
LEMMA PickedFacts ==
  ASSUME NEW n \in Nat, NEW places, places \subseteq 1..n, NEW items
  PROVE  \E o : Enumerates(o, places) /\ HasItemsAt(Picked(items, places), items, o)
<1> DEFINE N == Cardinality(places)
           o == [m \in 1..N |-> Nth(places, m)]
<1>1. N \in Nat
  BY Ranks
<1>2. o \in [1..N -> places]
  BY NthFacts
<1>3. /\ DOMAIN Picked(items, places) = 1..N
      /\ \A m \in 1..N : Picked(items, places)[m] = items[o[m]]
  BY DEF Picked, Nth, Rank
<1>4. ASSUME NEW k \in 1..N, NEW m \in 1..N, k < m
      PROVE  o[k] < o[m]
  <2> DEFINE a == o[k]
             b == o[m]
  <2>1. a \in places /\ b \in places /\ Rank(places, a) = k /\ Rank(places, b) = m
    BY NthFacts
  <2> HIDE DEF o, a, b
  <2>2. a \in Int /\ b \in Int
    BY <2>1
  <2>3. Rank(places, a) <= Rank(places, b)
    BY <1>4, <2>1
  <2>4. a <= b
    BY <2>1, <2>3, Ranks
  <2>5. a # b
    BY <1>4, <2>1
  <2> QED
    BY <2>2, <2>4, <2>5 DEF a, b
<1>5. ASSUME NEW i \in places
      PROVE  \E m \in 1..N : o[m] = i
  <2>1. Rank(places, i) \in 1..N
    BY Ranks
  <2>2. i = Nth(places, Rank(places, i))
    BY <2>1, NthFacts
  <2> QED
    BY <2>1, <2>2
<1>6. Enumerates(o, places)
  BY <1>2, <1>4, <1>5 DEF Enumerates
<1>7. HasItemsAt(Picked(items, places), items, o)
  BY <1>3 DEF HasItemsAt
<1> QED
  BY <1>6, <1>7

\* One place more, behind the others.
LEMMA PickMore ==
  ASSUME NEW n \in Nat, NEW places, places \subseteq 1..n, NEW items
  PROVE  Picked(items, places \cup {n + 1}) = Append(Picked(items, places), items[n + 1])
<1> DEFINE more == places \cup {n + 1}
           N == Cardinality(places)
<1>1. IsFiniteSet(places) /\ N \in Nat
  BY Ranks
<1>2. Cardinality(more) = N + 1
  <2>1. n + 1 \notin places
    OBVIOUS
  <2> QED
    BY <1>1, <2>1, FS_AddElement
<1>3. \A i \in places : Rank(more, i) = Rank(places, i)
  <2> SUFFICES ASSUME NEW i \in places
               PROVE  Rank(more, i) = Rank(places, i)
    OBVIOUS
  <2>1. {j \in more : j <= i} = {j \in places : j <= i}
    OBVIOUS
  <2> QED
    BY <2>1 DEF Rank
<1>4. Rank(more, n + 1) = N + 1
  <2>1. {j \in more : j <= n + 1} \subseteq more
    OBVIOUS
  <2>2. more \subseteq {j \in more : j <= n + 1}
    <3>1. \A j \in more : j \in Int /\ j <= n + 1
      OBVIOUS
    <3> QED
      BY <3>1
  <2>3. {j \in more : j <= n + 1} = more
    BY <2>1, <2>2
  <2> QED
    BY <1>2, <2>3 DEF Rank
<1>5. more \subseteq 1..(n + 1) /\ n + 1 \in Nat /\ n + 1 \in more
  OBVIOUS
<1> HIDE DEF more
<1>6. ASSUME NEW m \in 1..N
      PROVE  Nth(more, m) = Nth(places, m)
  <2>1. m \in 1..Cardinality(more)
    BY <1>1, <1>2
  <2>2. /\ Nth(places, m) \in places
        /\ Rank(places, Nth(places, m)) = m
    BY NthFacts
  <2>3. Nth(places, m) \in more /\ Rank(more, Nth(places, m)) = m
    BY <1>3, <2>2 DEF more
  <2> QED
    BY <1>5, <2>1, <2>3, NthFacts
<1>7. Nth(more, N + 1) = n + 1
  <2>1. N + 1 \in 1..Cardinality(more)
    BY <1>1, <1>2
  <2> QED
    BY <1>4, <1>5, <2>1, NthFacts
<1> DEFINE p == [m \in 1..N |-> items[Nth(places, m)]]
           q == [m \in 1..(N + 1) |-> items[Nth(more, m)]]
           a == Append(p, items[n + 1])
<1>8. Picked(items, places) = p
  BY DEF Picked, Nth, Rank
<1>9. Picked(items, more) = q
  BY <1>2 DEF Picked, Nth, Rank
<1>10. p \in Seq({p[m] : m \in 1..N}) /\ Len(p) = N
  BY <1>1
<1>11. IsSeq(p)
  BY <1>10 DEF IsSeq
<1>12. /\ IsSeq(a) /\ Len(a) = N + 1
       /\ \A m \in 1..N : a[m] = p[m]
       /\ a[N + 1] = items[n + 1]
  <2> HIDE DEF p
  <2> QED
    BY <1>10, <1>11, AppendFacts
<1>13. a = [m \in 1..(N + 1) |-> a[m]]
  <2> HIDE DEF a
  <2> QED
    BY <1>12 DEF IsSeq
<1>14. \A m \in 1..(N + 1) : q[m] = a[m]
  <2> SUFFICES ASSUME NEW m \in 1..(N + 1)
               PROVE  q[m] = a[m]
    OBVIOUS
  <2>1. q[m] = items[Nth(more, m)]
    OBVIOUS
  <2> HIDE DEF a, q
  <2>2. CASE m = N + 1
    BY <1>7, <1>12, <2>1, <2>2
  <2>3. CASE m \in 1..N
    BY <1>6, <1>12, <2>1, <2>3
  <2> QED
    BY <1>1, <2>2, <2>3
<1>15. q = [m \in 1..(N + 1) |-> q[m]]
  OBVIOUS
<1> HIDE DEF p, q, a
<1>16. q = a
  BY <1>13, <1>14, <1>15
<1> QED
  BY <1>8, <1>9, <1>16 DEF more, a

\* No place at all.
LEMMA PickNone ==
  ASSUME NEW items
  PROVE  Picked(items, {}) = <<>>
BY FS_EmptySet DEF Picked

-----------------------------------------------------------------------------
(***************************************************************************)
(* Orders of places.                                                       *)
(***************************************************************************)

\* The places that a stable order by the ranking r puts up to i.
UpTo(r, i) == {j \in DOMAIN r : \/ r[j] < r[i]
                                \/ r[j] = r[i] /\ j <= i}

\* Pairs of numbers are ordered by the first, then by the second.
LEMMA Lexicographic ==
  ASSUME NEW a \in Int, NEW b \in Int, NEW c \in Int,
         NEW i \in Int, NEW j \in Int, NEW k \in Int,
         a < b \/ (a = b /\ i <= j),
         b < c \/ (b = c /\ j <= k)
  PROVE  a < c \/ (a = c /\ i <= k)
OBVIOUS

\* The stable order of any ranking takes in every place once.
LEMMA OrderedFacts ==
  ASSUME NEW n \in Nat, NEW r \in [1..n -> 1..n]
  PROVE  /\ Ordered(r) \in Orderings(1..n)
         /\ \A m \in 1..n : Cardinality(UpTo(r, Ordered(r)[m])) = m
<1> DEFINE D == 1..n
           f == [i \in D |-> UpTo(r, i)]
           o == Ordered(r)
<1>1. IsFiniteSet(D) /\ Cardinality(D) = n
  BY FS_Interval
<1>2. \A i \in D : i \in Int /\ r[i] \in Int
  OBVIOUS
<1>3. \A i \in D : i \in f[i] /\ f[i] \subseteq D
  BY <1>2 DEF UpTo
<1>4. \A i, j \in D : f[i] \subseteq f[j] \/ f[j] \subseteq f[i]
  <2> SUFFICES ASSUME NEW i \in D, NEW j \in D
               PROVE  f[i] \subseteq f[j] \/ f[j] \subseteq f[i]
    OBVIOUS
  <2>1. ASSUME r[i] < r[j] \/ (r[i] = r[j] /\ i <= j), NEW k \in f[i]
        PROVE  k \in f[j]
    <3>1. k \in D /\ (r[k] < r[i] \/ (r[k] = r[i] /\ k <= i))
      BY DEF UpTo
    <3>2. /\ i \in Int /\ j \in Int /\ k \in Int
          /\ r[i] \in Int /\ r[j] \in Int /\ r[k] \in Int
      BY <1>2, <3>1
    <3>3. r[k] < r[j] \/ (r[k] = r[j] /\ k <= j)
      BY <2>1, <3>1, <3>2, Lexicographic
    <3> QED
      BY <3>1, <3>3 DEF UpTo
  <2>2. ASSUME r[j] < r[i] \/ (r[j] = r[i] /\ j <= i), NEW k \in f[j]
        PROVE  k \in f[i]
    <3>1. k \in D /\ (r[k] < r[j] \/ (r[k] = r[j] /\ k <= j))
      BY DEF UpTo
    <3>2. /\ i \in Int /\ j \in Int /\ k \in Int
          /\ r[i] \in Int /\ r[j] \in Int /\ r[k] \in Int
      BY <1>2, <3>1
    <3>3. r[k] < r[i] \/ (r[k] = r[i] /\ k <= i)
      BY <2>2, <3>1, <3>2, Lexicographic
    <3> QED
      BY <3>1, <3>3 DEF UpTo
  <2>3. \/ r[i] < r[j] \/ (r[i] = r[j] /\ i <= j)
        \/ r[j] < r[i] \/ (r[j] = r[i] /\ j <= i)
    BY <1>2
  <2> HIDE DEF f
  <2> QED
    BY <2>1, <2>2, <2>3
<1>5. \A i, j \in D : f[i] = f[j] => i = j
  <2> SUFFICES ASSUME NEW i \in D, NEW j \in D, f[i] = f[j]
               PROVE  i = j
    OBVIOUS
  <2>1. i \in UpTo(r, j) /\ j \in UpTo(r, i)
    BY <1>3
  <2> QED
    BY <1>2, <2>1 DEF UpTo
<1>6. \A i \in D : f[i] = UpTo(r, i)
  OBVIOUS
<1> HIDE DEF f
<1>7. \A m \in 1..n : \E i \in D : Cardinality(f[i]) = m
  <2> HIDE DEF D
  <2>1. \A m \in 1..Cardinality(D) : \E i \in D : Cardinality(f[i]) = m
    BY <1>1, <1>3, <1>4, <1>5, Chain
  <2> QED
    BY <1>1, <2>1
<1>8. o = [m \in D |-> CHOOSE i \in D : Cardinality(UpTo(r, i)) = m]
  <2>1. DOMAIN r = D
    OBVIOUS
  <2>2. Ordered(r) = [m \in DOMAIN r |-> CHOOSE i \in DOMAIN r : Cardinality(UpTo(r, i)) = m]
    BY Zenon DEF Ordered, UpTo
  <2> QED
    BY <2>1, <2>2
<1>9. \A m \in D : o[m] \in D /\ Cardinality(UpTo(r, o[m])) = m
  <2> SUFFICES ASSUME NEW m \in D
               PROVE  o[m] \in D /\ Cardinality(UpTo(r, o[m])) = m
    OBVIOUS
  <2>1. \E i \in D : Cardinality(UpTo(r, i)) = m
    BY <1>6, <1>7
  <2>2. o[m] = CHOOSE i \in D : Cardinality(UpTo(r, i)) = m
    BY <1>8
  <2> HIDE DEF o, D
  <2> QED
    BY <2>1, <2>2
<1> HIDE DEF o
<1>10. o \in [D -> D]
  BY <1>8, <1>9
<1>11. \A k, m \in D : o[k] = o[m] => k = m
  BY <1>9
<1>12. o \in Orderings(D)
  BY <1>10, <1>11 DEF Orderings
<1> QED
  BY <1>9, <1>12 DEF o

\* What is behind in it has a greater rank, or the same and a greater place.
LEMMA OrderedRises ==
  ASSUME NEW n \in Nat, NEW r \in [1..n -> 1..n], NEW k \in 1..n, NEW m \in 1..n, k < m
  PROVE  LET o == Ordered(r) IN
         /\ o[k] \in 1..n /\ o[m] \in 1..n
         /\ r[o[k]] < r[o[m]] \/ (r[o[k]] = r[o[m]] /\ o[k] < o[m])
<1> DEFINE o == Ordered(r)
<1>1. o \in [1..n -> 1..n] /\ o[k] # o[m]
  BY OrderedFacts DEF Orderings
<1>2. Cardinality(UpTo(r, o[k])) = k /\ Cardinality(UpTo(r, o[m])) = m
  BY OrderedFacts
<1> HIDE DEF o
<1>3. PICK a \in 1..n, b \in 1..n : a = o[k] /\ b = o[m] /\ a # b
  BY <1>1
<1>4. PICK x \in Int, y \in Int : x = r[a] /\ y = r[b]
  OBVIOUS
<1>5. ASSUME y < x \/ (y = x /\ b <= a)
      PROVE  FALSE
  <2>1. ASSUME NEW i \in UpTo(r, b)
        PROVE  i \in UpTo(r, a)
    <3>1. i \in 1..n /\ r[i] \in Int /\ (r[i] < y \/ (r[i] = y /\ i <= b))
      BY <1>4 DEF UpTo
    <3>2. r[i] < x \/ (r[i] = x /\ i <= a)
      BY <1>5, <3>1, Lexicographic
    <3> QED
      BY <1>4, <3>1, <3>2 DEF UpTo
  <2>2. IsFiniteSet(1..n) /\ UpTo(r, a) \subseteq 1..n
    BY FS_Interval DEF UpTo
  <2>3. IsFiniteSet(UpTo(r, a))
    BY <2>2, FS_Subset
  <2>4. UpTo(r, b) \subseteq UpTo(r, a)
    BY <2>1
  <2>5. Cardinality(UpTo(r, b)) <= Cardinality(UpTo(r, a))
    BY <2>3, <2>4, FS_Subset
  <2> QED
    BY <1>2, <1>3, <2>5
<1>6. x < y \/ (x = y /\ a < b)
  BY <1>3, <1>5
<1> QED
  BY <1>1, <1>3, <1>4, <1>6 DEF o

-----------------------------------------------------------------------------
(***************************************************************************)
(* The order of values.                                                    *)
(***************************************************************************)

\* `as f64` keeps the order of integers; up to Exact it is exact.
LEMMA AsDecFacts ==
  ASSUME NEW m \in MinInt..MaxInt, NEW k \in MinInt..MaxInt
  PROVE  /\ AsDec(m) \in Int
         /\ m <= k => AsDec(m) <= AsDec(k)
         /\ AbsOf(m) <= Exact => AsDec(m) = 2 * m
<1> DEFINE M == 2^(Width - 1)
           s(x) == IF x < 0 THEN -Nearest(-x) ELSE Nearest(x)
<1>1. M \in Nat /\ Exact \in Nat /\ MinInt = -M /\ MaxInt = M - 1
  BY NumbersAssumption DEF MinInt, MaxInt
<1>2. /\ \A x \in 0..M : Nearest(x) \in Nat /\ (x <= Exact => Nearest(x) = x)
      /\ \A x \in 0..M : \A y \in 0..x : Nearest(y) <= Nearest(x)
  BY NearestAssumption
<1> HIDE DEF M
<1>3. \A x \in MinInt..MaxInt :
        /\ x \in Int
        /\ x < 0 => -x \in 0..M
        /\ ~ (x < 0) => x \in 0..M
  BY <1>1
<1>4. \A x \in MinInt..MaxInt : AsDec(x) = 2 * s(x) /\ s(x) \in Int
  <2> SUFFICES ASSUME NEW x \in MinInt..MaxInt
               PROVE  AsDec(x) = 2 * s(x) /\ s(x) \in Int
    OBVIOUS
  <2>1. AsDec(x) = 2 * SignOf(x) * Nearest(AbsOf(x)) /\ x \in Int
    BY <1>3 DEF AsDec
  <2>2. CASE x < 0
    <3>1. Nearest(-x) \in Nat /\ SignOf(x) = -1 /\ AbsOf(x) = -x
      BY <1>2, <1>3, <2>1, <2>2 DEF SignOf, AbsOf
    <3> QED
      BY <2>1, <2>2, <3>1
  <2>3. CASE x > 0
    <3>1. Nearest(x) \in Nat /\ SignOf(x) = 1 /\ AbsOf(x) = x
      BY <1>2, <1>3, <2>1, <2>3 DEF SignOf, AbsOf
    <3> QED
      BY <2>1, <2>3, <3>1
  <2>4. CASE x = 0
    <3>1. Nearest(0) = 0 /\ SignOf(0) = 0 /\ AbsOf(0) = 0
      BY <1>1, <1>2 DEF SignOf, AbsOf
    <3> QED
      BY <2>1, <2>4, <3>1
  <2> QED
    BY <2>1, <2>2, <2>3, <2>4
<1>5. ASSUME m <= k
      PROVE  s(m) <= s(k)
  <2>1. CASE m < 0 /\ k < 0
    <3>1. -m \in 0..M /\ -k \in 0..(-m)
      BY <1>3, <1>5, <2>1
    <3>2. Nearest(-k) \in Nat /\ Nearest(-m) \in Nat /\ Nearest(-k) <= Nearest(-m)
      BY <1>2, <1>3, <2>1, <3>1
    <3> QED
      BY <2>1, <3>2
  <2>2. CASE m < 0 /\ ~ (k < 0)
    <3>1. Nearest(-m) \in Nat /\ Nearest(k) \in Nat
      BY <1>2, <1>3, <2>2
    <3> QED
      BY <2>2, <3>1
  <2>3. CASE ~ (m < 0)
    <3>1. k \in 0..M /\ m \in 0..k /\ ~ (k < 0)
      BY <1>3, <1>5, <2>3
    <3>2. Nearest(m) <= Nearest(k)
      BY <1>2, <3>1
    <3> QED
      BY <2>3, <3>1, <3>2
  <2> QED
    BY <2>1, <2>2, <2>3
<1>6. ASSUME AbsOf(m) <= Exact
      PROVE  s(m) = m
  <2>1. CASE m < 0
    <3>1. Nearest(-m) = -m
      BY <1>2, <1>3, <1>6, <2>1 DEF AbsOf
    <3> QED
      BY <1>3, <2>1, <3>1
  <2>2. CASE ~ (m < 0)
    BY <1>2, <1>3, <1>6, <2>2 DEF AbsOf
  <2> QED
    BY <2>1, <2>2
<1> HIDE DEF s
<1>7. AsDec(m) = 2 * s(m) /\ s(m) \in Int /\ AsDec(k) = 2 * s(k) /\ s(k) \in Int
  BY <1>4
<1>8. m \in Int /\ k \in Int
  BY <1>3
<1> QED
  BY <1>5, <1>6, <1>7, <1>8

\* Values with an order: strings among each other, and numbers but NaN.
IsStr(v)  == Tag(v) = "str"
IsReal(v) == IsNum(v) /\ v # NaNV

\* The number of halves a number is compared as with another variant.
Halves(v) == IF Tag(v) = "int" THEN AsDec(v[2]) ELSE v[3]

\* What the variants hold.
LEMMA ValueShapes ==
  ASSUME NEW v, IsValue(v)
  PROVE  /\ IsReal(v) => Halves(v) \in Int /\ AsFloat(v) = DecV(Halves(v)) /\ AsFloat(v) # NaNV
         /\ Tag(v) = "int" => v[2] \in Int /\ v = IntV(v[2]) /\ Tag(v) # "float" /\ v # NaNV
         /\ IsReal(v) /\ Tag(v) # "int" => Tag(v) = "float" /\ v[3] \in Int /\ v = DecV(v[3])
         /\ IsStr(v) => v[2] \in Strings /\ v = StrV(v[2]) /\ ~ IsNum(v)
         /\ v = NaNV => IsNum(v) /\ AsFloat(v) = NaNV
<1> DEFINE h == v[3]
           n == v[2]
<1>1. MinInt \in Int /\ MaxInt \in Int
  BY NumbersAssumption DEF MinInt, MaxInt
<1>2. \A x : DecV(x) # NaNV /\ DecV(x)[3] = x /\ Tag(DecV(x)) = "float"
  BY DEF DecV, NaNV, Tag
<1>3. \A x : IntV(x) # NaNV /\ IntV(x)[2] = x /\ Tag(IntV(x)) = "int"
  BY DEF IntV, NaNV, Tag
<1>4. Tag(NaNV) = "float"
  BY DEF NaNV, Tag
<1>5. ASSUME Tag(v) = "int"
      PROVE  v[2] \in Int /\ v = IntV(v[2]) /\ AsDec(v[2]) \in Int
  <2>1. v[2] \in MinInt..MaxInt /\ v = IntV(v[2])
    BY <1>5 DEF IsValue
  <2>2. AsDec(v[2]) \in Int
    BY <2>1, AsDecFacts
  <2> QED
    BY <1>1, <2>1, <2>2
<1>6. ASSUME IsReal(v), Tag(v) # "int"
      PROVE  Tag(v) = "float" /\ v[3] \in Int /\ v = DecV(v[3])
  BY <1>6 DEF IsValue, IsReal, IsNum
<1>7. ASSUME IsStr(v)
      PROVE  v[2] \in Strings /\ v = StrV(v[2]) /\ ~ IsNum(v)
  BY <1>7 DEF IsValue, IsStr, IsNum
<1>8. ASSUME IsReal(v)
      PROVE  Halves(v) \in Int /\ AsFloat(v) = DecV(Halves(v)) /\ AsFloat(v) # NaNV
  <2>1. CASE Tag(v) = "int"
    BY <1>2, <1>5, <2>1 DEF Halves, AsFloat, Payload
  <2>2. CASE Tag(v) # "int"
    BY <1>2, <1>6, <1>8, <2>2 DEF Halves, AsFloat
  <2> QED
    BY <2>1, <2>2
<1> QED
  BY <1>3, <1>4, <1>5, <1>6, <1>7, <1>8 DEF IsNum, AsFloat

\* compare_values by the variants of its operands.
LEMMA CompareCases ==
  ASSUME NEW l, NEW r, IsValue(l), IsValue(r)
  PROVE  LET ord == compare_values(l, r) IN
         /\ IsStr(l) /\ IsStr(r) =>
              ord = Ok(IF l[2] = r[2] THEN 0 ELSE IF StrBefore(l[2], r[2]) THEN -1 ELSE 1)
         /\ Tag(l) = "int" /\ Tag(r) = "int" => ord = Ok(SignOf(l[2] - r[2]))
         /\ IsReal(l) /\ IsReal(r) /\ ~ (Tag(l) = "int" /\ Tag(r) = "int") =>
              ord = Ok(SignOf(Halves(l) - Halves(r)))
         /\ ~ (IsStr(l) /\ IsStr(r)) /\ ~ (IsReal(l) /\ IsReal(r)) =>
              ord.res = "err" /\ ~ IsOk(ord)
<1>1. CASE IsStr(l) /\ IsStr(r)
  <2>1. l = r <=> l[2] = r[2]
    BY <1>1, ValueShapes
  <2>2. ~ IsNum(l) /\ Tag(l) # "int" /\ ~ IsReal(l)
    BY <1>1 DEF IsStr, IsNum, IsReal
  <2> QED
    BY <1>1, <2>1, <2>2 DEF compare_values, IsStr
<1>2. CASE ~ IsStr(l) \/ ~ IsStr(r)
  <2>1. CASE Tag(l) = "int" /\ Tag(r) = "int"
    <3>1. IsReal(l) /\ IsReal(r)
      BY <2>1, ValueShapes DEF IsReal, IsNum
    <3> QED
      BY <1>2, <2>1, <3>1 DEF compare_values, IsStr
  <2>2. CASE IsReal(l) /\ IsReal(r) /\ ~ (Tag(l) = "int" /\ Tag(r) = "int")
    <3>1. NaNV \notin {AsFloat(l), AsFloat(r)} /\ IsNum(l) /\ IsNum(r)
      BY <2>2, ValueShapes DEF IsReal
    <3>2. AsFloat(l)[3] = Halves(l) /\ AsFloat(r)[3] = Halves(r)
      BY <2>2, ValueShapes DEF DecV
    <3> QED
      BY <1>2, <2>2, <3>1, <3>2 DEF compare_values, IsStr
  <2>3. CASE ~ (IsReal(l) /\ IsReal(r))
    <3>1. ~ (Tag(l) = "int" /\ Tag(r) = "int")
      BY <2>3, ValueShapes DEF IsReal, IsNum
    <3>2. ~ (IsNum(l) /\ IsNum(r) /\ NaNV \notin {AsFloat(l), AsFloat(r)})
      BY <2>3, ValueShapes DEF IsReal
    <3>3. compare_values(l, r) = NotComparable(type_name(l), type_name(r))
      BY <1>2, <3>1, <3>2 DEF compare_values, IsStr
    <3> QED
      BY <1>2, <2>3, <3>1, <3>3 DEF NotComparable, Err, IsOk
  <2> QED
    BY <2>1, <2>2, <2>3
<1> QED
  BY <1>1, <1>2

Comparable(l, r) == (IsStr(l) /\ IsStr(r)) \/ (IsReal(l) /\ IsReal(r))

\* Whether two values can be compared does not depend on the side they are on,
\* and seen from the other side the answer is the opposite.
LEMMA CompareFacts ==
  ASSUME NEW l, NEW r, IsValue(l), IsValue(r)
  PROVE  /\ IsOk(compare_values(l, r)) <=> Comparable(l, r)
         /\ IsOk(compare_values(l, r)) =>
              /\ compare_values(l, r).val \in {-1, 0, 1}
              /\ IsOk(compare_values(r, l))
              /\ compare_values(r, l).val = -compare_values(l, r).val
         /\ compare_values(l, r).res \in {"ok", "err"}
<1>1. CASE IsStr(l) /\ IsStr(r)
  <2>1. l[2] \in Strings /\ r[2] \in Strings
    BY <1>1, ValueShapes
  <2>2. l[2] # r[2] => (~ StrBefore(l[2], r[2]) <=> StrBefore(r[2], l[2]))
    BY <2>1, StringsAssumption
  <2> QED
    BY <1>1, <2>2, CompareCases DEF Comparable, Ok, IsOk
<1>2. CASE Tag(l) = "int" /\ Tag(r) = "int"
  <2>1. IsReal(l) /\ IsReal(r) /\ l[2] \in Int /\ r[2] \in Int
    BY <1>2, ValueShapes DEF IsReal, IsNum
  <2>2. PICK a \in Int, b \in Int : a = l[2] /\ b = r[2]
    BY <2>1
  <2>3. SignOf(a - b) \in {-1, 0, 1} /\ SignOf(b - a) = -SignOf(a - b)
    BY DEF SignOf
  <2> QED
    BY <1>2, <2>1, <2>2, <2>3, CompareCases DEF Comparable, Ok, IsOk
<1>3. CASE IsReal(l) /\ IsReal(r) /\ ~ (Tag(l) = "int" /\ Tag(r) = "int")
  <2>1. PICK a \in Int, b \in Int : a = Halves(l) /\ b = Halves(r)
    BY <1>3, ValueShapes
  <2>2. SignOf(a - b) \in {-1, 0, 1} /\ SignOf(b - a) = -SignOf(a - b)
    BY DEF SignOf
  <2> QED
    BY <1>3, <2>1, <2>2, CompareCases DEF Comparable, Ok, IsOk
<1>4. CASE ~ Comparable(l, r)
  BY <1>4, CompareCases DEF Comparable, IsOk
<1> QED
  BY <1>1, <1>2, <1>3, <1>4 DEF Comparable

\* r can be compared with l and is greater; is neither greater nor smaller.
Below(l, r)   == IsOk(compare_values(l, r)) /\ compare_values(l, r).val = -1
SameRank(l, r) == IsOk(compare_values(l, r)) /\ compare_values(l, r).val = 0

\* What that says of numbers.
LEMMA RealOrder ==
  ASSUME NEW l, NEW r, IsValue(l), IsValue(r), IsReal(l), IsReal(r)
  PROVE  /\ Halves(l) \in Int /\ Halves(r) \in Int
         /\ Tag(l) = "int" /\ Tag(r) = "int" =>
              /\ l[2] \in Int /\ r[2] \in Int
              /\ Below(l, r) <=> l[2] < r[2]
              /\ SameRank(l, r) <=> l[2] = r[2]
              /\ l[2] <= r[2] => Halves(l) <= Halves(r)
         /\ ~ (Tag(l) = "int" /\ Tag(r) = "int") =>
              /\ Below(l, r) <=> Halves(l) < Halves(r)
              /\ SameRank(l, r) <=> Halves(l) = Halves(r)
<1>1. \A d, e \in Int : (SignOf(d - e) = -1 <=> d < e) /\ (SignOf(d - e) = 0 <=> d = e)
  BY DEF SignOf
<1>2. Halves(l) \in Int /\ Halves(r) \in Int
  BY ValueShapes
<1>3. CASE Tag(l) = "int" /\ Tag(r) = "int"
  <2>1. l[2] \in Int /\ r[2] \in Int
    BY <1>3, ValueShapes
  <2>2. compare_values(l, r) = Ok(SignOf(l[2] - r[2]))
    BY <1>3, CompareCases
  <2>3. (SignOf(l[2] - r[2]) = -1 <=> l[2] < r[2]) /\ (SignOf(l[2] - r[2]) = 0 <=> l[2] = r[2])
    BY <1>1, <2>1
  <2>4. l[2] <= r[2] => Halves(l) <= Halves(r)
    <3>1. l[2] \in MinInt..MaxInt /\ r[2] \in MinInt..MaxInt
      BY <1>3 DEF IsValue
    <3> QED
      BY <1>3, <3>1, AsDecFacts DEF Halves
  <2> QED
    BY <1>2, <1>3, <2>1, <2>2, <2>3, <2>4 DEF Below, SameRank, Ok, IsOk
<1>4. CASE ~ (Tag(l) = "int" /\ Tag(r) = "int")
  <2>1. compare_values(l, r) = Ok(SignOf(Halves(l) - Halves(r)))
    BY <1>4, CompareCases
  <2>2. /\ SignOf(Halves(l) - Halves(r)) = -1 <=> Halves(l) < Halves(r)
        /\ SignOf(Halves(l) - Halves(r)) = 0 <=> Halves(l) = Halves(r)
    BY <1>1, <1>2
  <2> QED
    BY <1>2, <1>4, <2>1, <2>2 DEF Below, SameRank, Ok, IsOk
<1> QED
  BY <1>3, <1>4

\* What it says of strings.
LEMMA StrOrder ==
  ASSUME NEW l, NEW r, IsValue(l), IsValue(r), IsStr(l), IsStr(r)
  PROVE  /\ l[2] \in Strings /\ r[2] \in Strings
         /\ Below(l, r) <=> StrBefore(l[2], r[2])
         /\ SameRank(l, r) <=> l[2] = r[2]
<1>1. l[2] \in Strings /\ r[2] \in Strings
  BY ValueShapes
<1>2. l[2] = r[2] => ~ StrBefore(l[2], r[2])
  BY <1>1, StringsAssumption
<1> QED
  BY <1>1, <1>2, CompareCases DEF Below, SameRank, Ok, IsOk

\* A third value between two others.
LEMMA BelowIsTransitive ==
  ASSUME NEW a, NEW b, NEW c, IsValue(a), IsValue(b), IsValue(c),
         Below(a, b), Below(b, c)
  PROVE  Below(a, c)
<1>1. Comparable(a, b) /\ Comparable(b, c)
  BY CompareFacts DEF Below
<1>2. CASE IsStr(b)
  <2>1. IsStr(a) /\ IsStr(c)
    BY <1>1, <1>2, ValueShapes DEF Comparable, IsReal
  <2>2. StrBefore(a[2], b[2]) /\ StrBefore(b[2], c[2])
    BY <1>2, <2>1, StrOrder
  <2>3. a[2] \in Strings /\ b[2] \in Strings /\ c[2] \in Strings
    BY <1>2, <2>1, ValueShapes
  <2>4. StrBefore(a[2], c[2])
    BY <2>2, <2>3, StringsAssumption
  <2> QED
    BY <2>1, <2>4, StrOrder
<1>3. CASE ~ IsStr(b)
  <2>1. IsReal(a) /\ IsReal(b) /\ IsReal(c)
    BY <1>1, <1>3 DEF Comparable
  <2> DEFINE int(v) == Tag(v) = "int"
  <2>2. PICK x \in Int, y \in Int, z \in Int : x = Halves(a) /\ y = Halves(b) /\ z = Halves(c)
    BY <2>1, RealOrder
  <2>3. /\ ~ (int(a) /\ int(b)) => x < y
        /\ ~ (int(b) /\ int(c)) => y < z
        /\ ~ (int(a) /\ int(c)) => (Below(a, c) <=> x < z)
    BY <2>1, <2>2, RealOrder
  <2>4. /\ int(a) /\ int(b) => a[2] \in Int /\ b[2] \in Int /\ a[2] < b[2] /\ x <= y
        /\ int(b) /\ int(c) => b[2] \in Int /\ c[2] \in Int /\ b[2] < c[2] /\ y <= z
    BY <2>1, <2>2, RealOrder
  <2>5. CASE int(a) /\ int(c)
    <3>1. /\ a[2] \in Int /\ c[2] \in Int
          /\ Below(a, c) <=> a[2] < c[2]
          /\ c[2] <= a[2] => z <= x
      BY <2>1, <2>2, <2>5, RealOrder
    <3>2. CASE int(b)
      BY <2>4, <2>5, <3>1, <3>2
    <3>3. CASE ~ int(b)
      BY <2>2, <2>3, <3>1, <3>3
    <3> QED
      BY <3>2, <3>3
  <2>6. CASE ~ (int(a) /\ int(c))
    BY <2>2, <2>3, <2>4, <2>6
  <2> QED
    BY <2>5, <2>6
<1> QED
  BY <1>2, <1>3

\* Comparability is an equivalence, but that NaN and the like cannot be
\* compared with themselves either.
LEMMA ComparableIsTransitive ==
  ASSUME NEW a, NEW b, NEW c, IsValue(a), IsValue(b), IsValue(c),
         IsOk(compare_values(a, b)), IsOk(compare_values(b, c))
  PROVE  IsOk(compare_values(a, c))
<1>1. Comparable(a, b) /\ Comparable(b, c)
  BY CompareFacts
<1>2. IsStr(b) => ~ IsReal(b)
  BY ValueShapes DEF IsReal
<1>3. Comparable(a, c)
  BY <1>1, <1>2 DEF Comparable
<1> QED
  BY <1>3, CompareFacts

\* Equal rank is transitive among integers, and among numbers of which the
\* integers are small enough, and among strings; it is not among all numbers.
LEMMA SameRankIsTransitive ==
  ASSUME NEW a, NEW b, NEW c, IsValue(a), IsValue(b), IsValue(c),
         SameRank(a, b), SameRank(b, c),
         \/ Integral(a) /\ Integral(b) /\ Integral(c)
         \/ InExact(a) /\ InExact(b) /\ InExact(c)
  PROVE  SameRank(a, c)
<1>1. Comparable(a, b) /\ Comparable(b, c)
  BY CompareFacts DEF SameRank
<1>2. CASE IsStr(b)
  <2>1. IsStr(a) /\ IsStr(c)
    BY <1>1, <1>2, ValueShapes DEF Comparable, IsReal
  <2>2. a[2] = b[2] /\ b[2] = c[2]
    BY <1>2, <2>1, StrOrder
  <2> QED
    BY <2>1, <2>2, StrOrder
<1>3. CASE ~ IsStr(b)
  <2>1. IsReal(a) /\ IsReal(b) /\ IsReal(c)
    BY <1>1, <1>3 DEF Comparable
  <2>2. CASE Integral(a) /\ Integral(b) /\ Integral(c)
    BY <2>1, <2>2, RealOrder DEF Integral
  <2>3. CASE InExact(a) /\ InExact(b) /\ InExact(c)
    <3>1. ASSUME NEW v, IsValue(v), InExact(v), Tag(v) = "int"
          PROVE  Halves(v) = 2 * v[2] /\ v[2] \in Int
      <4>1. v[2] \in Int /\ AbsOf(v[2]) <= Exact
        BY <3>1, ValueShapes DEF InExact, Integral, Payload
      <4>2. v[2] \in MinInt..MaxInt
        BY <3>1 DEF IsValue
      <4> QED
        BY <3>1, <4>1, <4>2, AsDecFacts DEF Halves
    <3>2. ASSUME NEW v, NEW w, IsValue(v), IsValue(w), InExact(v), InExact(w),
                 IsReal(v), IsReal(w)
          PROVE  SameRank(v, w) <=> Halves(v) = Halves(w)
      <4>1. CASE Tag(v) = "int" /\ Tag(w) = "int"
        <5>1. PICK x \in Int, y \in Int : x = v[2] /\ y = w[2]
          BY <3>1, <3>2, <4>1
        <5>2. Halves(v) = 2 * x /\ Halves(w) = 2 * y
          BY <3>1, <3>2, <4>1, <5>1
        <5>3. SameRank(v, w) <=> x = y
          BY <3>2, <4>1, <5>1, RealOrder
        <5> QED
          BY <5>2, <5>3
      <4>2. CASE ~ (Tag(v) = "int" /\ Tag(w) = "int")
        BY <3>2, <4>2, RealOrder
      <4> QED
        BY <4>1, <4>2
    <3> QED
      BY <2>1, <2>3, <3>2
  <2> QED
    BY <2>2, <2>3
<1> QED
  BY <1>2, <1>3

-----------------------------------------------------------------------------
(***************************************************************************)
(* The order of keys.                                                      *)
(***************************************************************************)

\* n values to sort by.
AreKeys(keyed, n) ==
  n \in Nat /\ DOMAIN keyed = 1..n /\ \A i \in 1..n : IsValue(keyed[i])

IsDir(dir) == dir \in {"Asc", "Desc"}

\* "Before" is a strict order in both directions.
LEMMA BeforeIsAnOrder ==
  ASSUME NEW n, NEW keyed, AreKeys(keyed, n), NEW dir, IsDir(dir)
  PROVE  /\ \A i, j \in 1..n : Before(keyed, dir, i, j) => ~ Before(keyed, dir, j, i)
         /\ \A i, j, k \in 1..n :
              Before(keyed, dir, i, j) /\ Before(keyed, dir, j, k) => Before(keyed, dir, i, k)
<1>1. \A i, j \in 1..n :
        Before(keyed, dir, i, j) <=> IF dir = "Asc" THEN Below(keyed[i], keyed[j])
                                                   ELSE Below(keyed[j], keyed[i])
  <2> SUFFICES ASSUME NEW i \in 1..n, NEW j \in 1..n
               PROVE  Before(keyed, dir, i, j)
                        <=> IF dir = "Asc" THEN Below(keyed[i], keyed[j])
                                           ELSE Below(keyed[j], keyed[i])
    OBVIOUS
  <2>1. IsValue(keyed[i]) /\ IsValue(keyed[j])
    BY DEF AreKeys
  <2>2. Compare(keyed, i, j) = compare_values(keyed[i], keyed[j])
    BY DEF Compare
  <2>3. /\ IsOk(compare_values(keyed[i], keyed[j])) <=> IsOk(compare_values(keyed[j], keyed[i]))
        /\ IsOk(compare_values(keyed[i], keyed[j])) =>
             /\ compare_values(keyed[i], keyed[j]).val \in {-1, 0, 1}
             /\ compare_values(keyed[j], keyed[i]).val = -compare_values(keyed[i], keyed[j]).val
    BY <2>1, CompareFacts
  <2> QED
    BY <2>2, <2>3 DEF Before, Below
<1>2. ASSUME NEW i \in 1..n, NEW j \in 1..n, Below(keyed[i], keyed[j])
      PROVE  ~ Below(keyed[j], keyed[i])
  <2>1. IsValue(keyed[i]) /\ IsValue(keyed[j])
    BY DEF AreKeys
  <2> QED
    BY <1>2, <2>1, CompareFacts DEF Below
<1>3. ASSUME NEW i \in 1..n, NEW j \in 1..n, NEW k \in 1..n,
             Below(keyed[i], keyed[j]), Below(keyed[j], keyed[k])
      PROVE  Below(keyed[i], keyed[k])
  <2>1. IsValue(keyed[i]) /\ IsValue(keyed[j]) /\ IsValue(keyed[k])
    BY DEF AreKeys
  <2> QED
    BY <1>3, <2>1, BelowIsTransitive
<1> QED
  BY <1>1, <1>2, <1>3

\* The rank of a key: how many are before it.
BeforeIt(keyed, dir, i) == {j \in DOMAIN keyed : Before(keyed, dir, j, i)}
TrueRanks(keyed, dir) ==
  [i \in DOMAIN keyed |-> Cardinality(BeforeIt(keyed, dir, i)) + 1]

\* In a weak order these ranks say which of two keys is before the other.
LEMMA TrueRanksTell ==
  ASSUME NEW n, NEW keyed, AreKeys(keyed, n), NEW dir, IsDir(dir),
         IsWeakOrder(keyed, dir)
  PROVE  LET r == TrueRanks(keyed, dir) IN
         /\ r \in [1..n -> 1..n]
         /\ \A i, j \in 1..n : r[i] < r[j] <=> Before(keyed, dir, i, j)
         /\ \A i, j \in 1..n :
              r[i] = r[j] <=> ~ Before(keyed, dir, i, j) /\ ~ Before(keyed, dir, j, i)
<1> DEFINE D == 1..n
           b(i, j) == Before(keyed, dir, i, j)
           S(i) == BeforeIt(keyed, dir, i)
           C(i) == Cardinality(S(i))
           r == TrueRanks(keyed, dir)
<1>1. n \in Nat /\ DOMAIN keyed = D /\ IsFiniteSet(D) /\ Cardinality(D) = n
  BY FS_Interval DEF AreKeys
<1>2. /\ \A i, j \in D : b(i, j) => ~ b(j, i)
      /\ \A i, j, k \in D : b(i, j) /\ b(j, k) => b(i, k)
  BY BeforeIsAnOrder
<1>3. \A i, j, k \in D :
        ~ b(i, j) /\ ~ b(j, i) /\ ~ b(j, k) /\ ~ b(k, j) => ~ b(i, k) /\ ~ b(k, i)
  BY <1>1 DEF IsWeakOrder
<1>4. \A i \in D : \A j : j \in S(i) <=> j \in D /\ b(j, i)
  BY <1>1 DEF BeforeIt
<1>5. \A i \in D : r[i] = C(i) + 1
  BY <1>1 DEF TrueRanks
<1>6. DOMAIN r = D /\ r = [i \in D |-> r[i]]
  BY <1>1 DEF TrueRanks
<1> HIDE DEF D, b, S, r
<1>7. ASSUME NEW i \in D
      PROVE  IsFiniteSet(S(i)) /\ C(i) \in Nat /\ C(i) < n
  <2>1. S(i) \subseteq D /\ i \in D \ S(i)
    BY <1>2, <1>4
  <2>2. IsFiniteSet(S(i)) /\ C(i) <= n /\ (C(i) = n => S(i) = D)
    BY <1>1, <2>1, FS_Subset
  <2>3. C(i) \in Nat /\ C(i) # n
    BY <2>1, <2>2, FS_CardinalityType
  <2> QED
    BY <1>1, <2>2, <2>3
<1>8. ASSUME NEW i \in D, NEW j \in D, b(i, j)
      PROVE  C(i) < C(j)
  <2>1. S(i) \subseteq S(j) /\ i \in S(j) /\ i \notin S(i)
    BY <1>2, <1>4, <1>8
  <2>2. C(i) <= C(j) /\ (C(i) = C(j) => S(i) = S(j))
    BY <1>7, <2>1, FS_Subset
  <2> QED
    BY <1>7, <2>1, <2>2
<1>9. ASSUME NEW i \in D, NEW j \in D, ~ b(i, j), ~ b(j, i)
      PROVE  C(i) = C(j)
  <2>1. ASSUME NEW k \in D
        PROVE  b(k, i) <=> b(k, j)
    BY <1>2, <1>3, <1>9
  <2>2. S(i) = S(j)
    BY <1>4, <2>1
  <2> QED
    BY <2>2
<1>10. ASSUME NEW i \in D, NEW j \in D
       PROVE  /\ r[i] < r[j] <=> b(i, j)
              /\ r[i] = r[j] <=> ~ b(i, j) /\ ~ b(j, i)
  <2>1. PICK x \in Nat, y \in Nat : x = C(i) /\ y = C(j)
    BY <1>7
  <2>2. r[i] = x + 1 /\ r[j] = y + 1
    BY <1>5, <2>1
  <2>3. /\ b(i, j) => x < y
        /\ b(j, i) => y < x
        /\ ~ b(i, j) /\ ~ b(j, i) => x = y
    BY <1>8, <1>9, <2>1
  <2> QED
    BY <2>2, <2>3
<1>11. \A i \in D : r[i] \in D
  <2> SUFFICES ASSUME NEW i \in D
               PROVE  r[i] \in D
    OBVIOUS
  <2>1. PICK x \in Nat : x = C(i) /\ x < n
    BY <1>7
  <2>2. r[i] = x + 1
    BY <1>5, <2>1
  <2> QED
    BY <1>1, <2>1, <2>2 DEF D
<1>12. r \in [D -> D]
  BY <1>6, <1>11
<1> QED
  BY <1>10, <1>12 DEF D, b, r

\* The items in the order o of their places.
Arranged(items, o) == [m \in DOMAIN o |-> items[o[m]]]

\* By the true ranks, the stable order is what Sorted makes of the items.
LEMMA SortedByRanks ==
  ASSUME NEW n, NEW keyed, AreKeys(keyed, n), NEW dir, IsDir(dir),
         IsWeakOrder(keyed, dir), NEW items, DOMAIN items = 1..n
  PROVE  Sorted(items, keyed, dir) = Arranged(items, Ordered(TrueRanks(keyed, dir)))
<1> DEFINE D == 1..n
           r == TrueRanks(keyed, dir)
           o == Ordered(r)
<1>1. DOMAIN keyed = D /\ n \in Nat /\ \A i \in D : i \in Int
  BY DEF AreKeys
<1>2. /\ \A i, j \in D : r[i] < r[j] <=> Before(keyed, dir, i, j)
      /\ \A i, j \in D : r[i] = r[j] <=> ~ Before(keyed, dir, i, j) /\ ~ Before(keyed, dir, j, i)
      /\ DOMAIN r = D
  BY TrueRanksTell
<1>3. \A i, j \in D : Before(keyed, dir, i, j) => ~ Before(keyed, dir, j, i)
  BY BeforeIsAnOrder
<1> HIDE DEF D, r
<1>4. ASSUME NEW i \in D
      PROVE  Place(keyed, dir, i) = Cardinality(UpTo(r, i))
  <2> DEFINE P == {j \in DOMAIN keyed : \/ Before(keyed, dir, j, i)
                                        \/ j <= i /\ ~ Before(keyed, dir, i, j)}
  <2>1. ASSUME NEW j
        PROVE  j \in P <=> j \in UpTo(r, i)
    BY <1>1, <1>2, <1>3 DEF UpTo
  <2>2. P = UpTo(r, i)
    BY <2>1
  <2>3. Place(keyed, dir, i) = Cardinality(P)
    BY DEF Place
  <2> QED
    BY <2>2, <2>3
<1>5. ASSUME NEW m \in D
      PROVE  (CHOOSE i \in D : Place(keyed, dir, i) = m) = o[m]
  <2>1. o[m] = CHOOSE i \in D : Cardinality(UpTo(r, i)) = m
    <3>1. o = [k \in DOMAIN r |-> CHOOSE i \in DOMAIN r : Cardinality(UpTo(r, i)) = k]
      BY Zenon DEF Ordered, UpTo
    <3> HIDE DEF o
    <3> QED
      BY <1>2, <3>1
  <2> HIDE DEF o
  <2>2. \A i \in D : Place(keyed, dir, i) = m <=> Cardinality(UpTo(r, i)) = m
    BY <1>4
  <2> QED
    BY <2>1, <2>2
<1>6. Sorted(items, keyed, dir) = [m \in D |-> items[CHOOSE i \in D : Place(keyed, dir, i) = m]]
  <2>1. DOMAIN items = D
    BY DEF D
  <2>2. Sorted(items, keyed, dir)
          = [m \in DOMAIN items |-> items[CHOOSE i \in DOMAIN items : Place(keyed, dir, i) = m]]
    BY DEF Sorted
  <2> QED
    BY <2>1, <2>2
<1> HIDE DEF o
<1>7. Sorted(items, keyed, dir) = [m \in D |-> items[o[m]]]
  BY <1>5, <1>6
<1>8. DOMAIN o = D
  BY <1>2 DEF o, Ordered
<1>9. Sorted(items, keyed, dir) = Arranged(items, o)
  BY <1>7, <1>8 DEF Arranged
<1> QED
  BY <1>9 DEF r, o

\* Keys that are all integers, or of which all integers are small enough, are
\* in a weak order if any two of them can be compared.
LEMMA TrustedIsWeakOrder ==
  ASSUME NEW n, NEW keyed, AreKeys(keyed, n), NEW dir, IsDir(dir),
         \A i, j \in 1..n : i # j => IsOk(Compare(keyed, i, j)),
         \/ \A i \in 1..n : Integral(keyed[i])
         \/ \A i \in 1..n : InExact(keyed[i])
  PROVE  IsWeakOrder(keyed, dir)
<1> DEFINE tied(i, j) == ~ Before(keyed, dir, i, j) /\ ~ Before(keyed, dir, j, i)
<1>1. \A i \in 1..n : IsValue(keyed[i])
  BY DEF AreKeys
<1>2. ASSUME NEW i \in 1..n, NEW j \in 1..n, i # j
      PROVE  tied(i, j) <=> SameRank(keyed[i], keyed[j])
  <2>1. IsOk(Compare(keyed, i, j)) /\ IsOk(Compare(keyed, j, i))
    BY <1>2
  <2>2. /\ Compare(keyed, i, j) = compare_values(keyed[i], keyed[j])
        /\ Compare(keyed, j, i) = compare_values(keyed[j], keyed[i])
    BY DEF Compare
  <2>3. /\ compare_values(keyed[i], keyed[j]).val \in {-1, 0, 1}
        /\ compare_values(keyed[j], keyed[i]).val = -compare_values(keyed[i], keyed[j]).val
    BY <1>1, <2>1, <2>2, CompareFacts
  <2> QED
    BY <2>1, <2>2, <2>3 DEF Before, SameRank, IsDir
<1>3. ASSUME NEW i \in 1..n
      PROVE  tied(i, i)
  BY BeforeIsAnOrder
<1>4. ASSUME NEW i \in 1..n, NEW j \in 1..n, NEW k \in 1..n, tied(i, j), tied(j, k)
      PROVE  tied(i, k)
  <2>1. CASE i = j \/ j = k \/ i = k
    BY <1>3, <1>4, <2>1
  <2>2. CASE i # j /\ j # k /\ i # k
    <3>1. SameRank(keyed[i], keyed[j]) /\ SameRank(keyed[j], keyed[k])
      BY <1>2, <1>4, <2>2
    <3>2. \/ Integral(keyed[i]) /\ Integral(keyed[j]) /\ Integral(keyed[k])
          \/ InExact(keyed[i]) /\ InExact(keyed[j]) /\ InExact(keyed[k])
      OBVIOUS
    <3>3. SameRank(keyed[i], keyed[k])
      BY <1>1, <3>1, <3>2, SameRankIsTransitive
    <3> QED
      BY <1>2, <2>2, <3>3
  <2> QED
    BY <2>1, <2>2
<1>5. DOMAIN keyed = 1..n
  BY DEF AreKeys
<1> QED
  BY <1>4, <1>5 DEF IsWeakOrder

-----------------------------------------------------------------------------
(***************************************************************************)
(* Collecting results.                                                     *)
(***************************************************************************)

\* Nothing failed.
LEMMA CollectOk ==
  ASSUME NEW results, \A i \in DOMAIN results : IsOk(results[i])
  PROVE  collect(results) = Ok([i \in DOMAIN results |-> results[i].val])
BY DEF collect

\* The first failure counts.
LEMMA CollectFails ==
  ASSUME NEW results, NEW n \in Nat, DOMAIN results = 1..n, NEW k \in 1..n,
         ~ IsOk(results[k]), \A i \in 1..(k - 1) : IsOk(results[i])
  PROVE  collect(results) = results[k]
<1> DEFINE bad == {i \in DOMAIN results : ~ IsOk(results[i])}
<1>1. k \in bad /\ \A j \in bad : k <= j
  OBVIOUS
<1>2. \A i \in bad : (\A j \in bad : i <= j) => i = k
  <2> SUFFICES ASSUME NEW i \in bad, \A j \in bad : i <= j
               PROVE  i = k
    OBVIOUS
  <2>1. i <= k /\ k <= i /\ i \in Int /\ k \in Int
    BY <1>1
  <2> QED
    BY <2>1
<1> HIDE DEF bad
<1>3. (CHOOSE i \in bad : \A j \in bad : i <= j) = k
  BY <1>1, <1>2
<1>4. bad # {}
  BY <1>1
<1> QED
  BY <1>3, <1>4 DEF collect, bad

-----------------------------------------------------------------------------
(***************************************************************************)
(* The items of a command: what an item comes to, as KeyOf says of the     *)
(* command at hand, and the places that stay.                              *)
(***************************************************************************)
Loops == {"filter", "unique", "sort"}

KeyIn(c, item) ==
  CASE c.op = "filter" -> verdict(c.expr, item)
    [] c.op = "unique" /\ c.expr = <<>> -> Ok(item)
    [] c.op = "unique" /\ c.expr # <<>> -> ValueAt(c.expr[1], item)
    [] c.op = "sort" -> ValueAt(c.expr, item)

KeyVals(c, items)  == [i \in DOMAIN items |-> KeyIn(c, items[i]).val]
Fresh(c, items, i) ==
  \A j \in 1..(i - 1) : ~ ValueEq(KeyIn(c, items[j]).val, KeyIn(c, items[i]).val)

\* The places below k that stay in a filter, and in unique.
Stays(c, items, i)      == KeyIn(c, items[i]).val = BoolV(TRUE)
StayPlaces(c, items, k) == {i \in 1..(k - 1) : Stays(c, items, i)}
FreshPlaces(c, items, k) == {i \in 1..(k - 1) : Fresh(c, items, i)}

\* A command and the items it is given.
IsTask(c, v) == c \in Commands /\ v \in Inputs /\ IsVec(v)

\* The items are a sequence of values.
LEMMA TaskItems ==
  ASSUME NEW c, NEW v, IsTask(c, v)
  PROVE  /\ Len(Payload(v)) \in Nat
         /\ DOMAIN Payload(v) = 1..Len(Payload(v))
         /\ Payload(v) = [i \in 1..Len(Payload(v)) |-> Payload(v)[i]]
         /\ IsSeq(Payload(v))
         /\ \A i \in DOMAIN Payload(v) : IsValue(Payload(v)[i])
<1> DEFINE s == Payload(v)
           n == Len(s)
<1>1. IsList(s) /\ \A i \in DOMAIN s : IsValue(s[i])
  BY InputsAssumption DEF IsTask, IsValue
<1> HIDE DEF s
<1>2. n \in Nat /\ s = [i \in 1..n |-> s[i]]
  BY <1>1 DEF IsList
<1> HIDE DEF n
<1>3. DOMAIN s = 1..n
  BY <1>2
<1>4. s \in Seq({s[i] : i \in 1..n})
  BY <1>2
<1>5. IsSeq(s)
  BY <1>4 DEF IsSeq
<1> QED
  BY <1>1, <1>2, <1>3, <1>5 DEF s, n

\* What an item comes to is a result, and a key is a value.
LEMMA KeyFacts ==
  ASSUME NEW c, NEW v, IsTask(c, v), c.op \in Loops, NEW i \in DOMAIN Payload(v)
  PROVE  LET r == KeyIn(c, Payload(v)[i]) IN
         /\ r.res \in {"ok", "err", "panic"}
         /\ IsOk(r) /\ c.op # "filter" => IsValue(r.val)
<1> DEFINE item == Payload(v)[i]
<1>1. \A e \in ExprsOf(c) :
        /\ ValueAt(e, item).res \in {"ok", "err", "panic"}
        /\ IsOk(ValueAt(e, item)) => IsValue(ValueAt(e, item).val)
  BY InputsAssumption DEF IsTask
<1>2. IsValue(item)
  BY TaskItems
<1> HIDE DEF item
<1>3. CASE c.op = "filter"
  <2> DEFINE r == ValueAt(c.expr, item)
  <2>1. r.res \in {"ok", "err", "panic"}
    BY <1>1, <1>3 DEF ExprsOf
  <2>2. verdict(c.expr, item).res \in {"ok", "err", "panic"}
    BY <2>1 DEF verdict, Ok, TypeMismatch, Err
  <2>3. KeyIn(c, item) = verdict(c.expr, item)
    BY <1>3 DEF KeyIn
  <2> QED
    BY <1>3, <2>2, <2>3 DEF item
<1>4. CASE c.op = "unique" /\ c.expr = <<>>
  <2>1. KeyIn(c, item) = Ok(item)
    BY <1>4 DEF KeyIn
  <2> QED
    BY <1>2, <2>1 DEF Ok, item
<1>5. CASE c.op = "unique" /\ c.expr # <<>>
  <2>1. KeyIn(c, item) = ValueAt(c.expr[1], item)
    BY <1>5 DEF KeyIn
  <2>2. c.expr[1] \in ExprsOf(c)
    BY <1>5 DEF ExprsOf
  <2> QED
    BY <1>1, <2>1, <2>2 DEF item
<1>6. CASE c.op = "sort"
  <2>1. KeyIn(c, item) = ValueAt(c.expr, item)
    BY <1>6 DEF KeyIn
  <2>2. c.expr \in ExprsOf(c)
    BY <1>6 DEF ExprsOf
  <2> QED
    BY <1>1, <2>1, <2>2 DEF item
<1> QED
  BY <1>3, <1>4, <1>5, <1>6 DEF Loops

\* What the items come to, all together.
KeyResults(c, items) == [i \in DOMAIN items |-> KeyIn(c, items[i])]

\* A loop starts from what its items come to together.
LEMMA LoopUnfolds ==
  ASSUME NEW c, NEW v, IsTask(c, v), c.op \in Loops
  PROVE  LET items == Payload(v)
             all   == collect(KeyResults(c, items)) IN
         /\ c.op = "filter" =>
              /\ eval_builtin(c, v) = {eval_filter(items, c.expr)}
              /\ collect([i \in DOMAIN items |-> verdict(c.expr, items[i])]) = all
         /\ c.op = "unique" =>
              /\ eval_builtin(c, v) = {eval_unique(items, c.expr)}
              /\ (IF c.expr = <<>> THEN Ok(items) ELSE at_each(c.expr[1], items)) = all
         /\ c.op = "sort" =>
              /\ eval_builtin(c, v) = eval_sort(items, c.expr, c.dir)
              /\ at_each(c.expr, items) = all
<1> DEFINE items == Payload(v)
           all == collect(KeyResults(c, items))
<1>1. expect_vector(v) = Ok(items)
  BY DEF expect_vector, IsTask
<1>2. IsOk(Ok(items)) /\ Ok(items).val = items
  BY DEF Ok, IsOk
<1> HIDE DEF items
<1>3. CASE c.op = "filter"
  <2>1. [i \in DOMAIN items |-> verdict(c.expr, items[i])] = KeyResults(c, items)
    BY <1>3 DEF KeyResults, KeyIn
  <2>2. eval_builtin(c, v) = {eval_filter(items, c.expr)}
    BY <1>1, <1>2, <1>3 DEF eval_builtin
  <2> QED
    BY <1>3, <2>1, <2>2 DEF items
<1>4. CASE c.op = "unique"
  <2>1. eval_builtin(c, v) = {eval_unique(items, c.expr)}
    BY <1>1, <1>2, <1>4 DEF eval_builtin
  <2>2. CASE c.expr = <<>>
    <3>1. \A i \in DOMAIN items : KeyResults(c, items)[i] = Ok(items[i])
      BY <1>4, <2>2 DEF KeyResults, KeyIn
    <3>2. DOMAIN KeyResults(c, items) = DOMAIN items
      BY DEF KeyResults
    <3>3. \A x : IsOk(Ok(x)) /\ Ok(x).val = x
      BY DEF Ok, IsOk
    <3>4. all = Ok([i \in DOMAIN items |-> items[i]])
      BY <3>1, <3>2, <3>3, CollectOk
    <3>5. items = [i \in DOMAIN items |-> items[i]]
      BY TaskItems DEF items
    <3> QED
      BY <1>4, <2>1, <2>2, <3>4, <3>5 DEF items
  <2>3. CASE c.expr # <<>>
    <3>1. [i \in DOMAIN items |-> ValueAt(c.expr[1], items[i])] = KeyResults(c, items)
      BY <1>4, <2>3 DEF KeyResults, KeyIn
    <3>2. at_each(c.expr[1], items) = all
      BY <3>1 DEF at_each
    <3> QED
      BY <1>4, <2>1, <2>3, <3>2 DEF items
  <2> QED
    BY <2>2, <2>3
<1>5. CASE c.op = "sort"
  <2>1. eval_builtin(c, v) = eval_sort(items, c.expr, c.dir)
    BY <1>1, <1>2, <1>5 DEF eval_builtin
  <2>2. [i \in DOMAIN items |-> ValueAt(c.expr, items[i])] = KeyResults(c, items)
    BY <1>5 DEF KeyResults, KeyIn
  <2>3. at_each(c.expr, items) = all
    BY <2>2 DEF at_each
  <2> QED
    BY <1>5, <2>1, <2>3 DEF items
<1> QED
  BY <1>3, <1>4, <1>5 DEF Loops

\* An item fails, and none before it.
LEMMA ItemFailure ==
  ASSUME NEW c, NEW v, IsTask(c, v), c.op \in Loops, NEW k \in DOMAIN Payload(v),
         ~ IsOk(KeyIn(c, Payload(v)[k])),
         \A i \in 1..(k - 1) : IsOk(KeyIn(c, Payload(v)[i]))
  PROVE  KeyIn(c, Payload(v)[k]) \in eval_builtin(c, v)
<1> DEFINE items == Payload(v)
           n == Len(items)
           res == KeyResults(c, items)
<1>1. n \in Nat /\ DOMAIN items = 1..n
  BY TaskItems
<1>2. DOMAIN res = 1..n /\ \A i \in 1..n : res[i] = KeyIn(c, items[i])
  BY <1>1 DEF KeyResults
<1>3. k \in 1..n /\ ~ IsOk(res[k])
  BY <1>1, <1>2
<1>4. \A i \in 1..(k - 1) : IsOk(res[i])
  BY <1>1, <1>2, <1>3
<1> HIDE DEF n, items, res
<1>5. collect(res) = res[k]
  BY <1>1, <1>2, <1>3, <1>4, CollectFails
<1>6. PICK all : all = collect(res) /\ ~ IsOk(all)
  BY <1>3, <1>5
<1>7. /\ c.op = "filter" =>
           /\ eval_builtin(c, v) = {eval_filter(items, c.expr)}
           /\ collect([i \in DOMAIN items |-> verdict(c.expr, items[i])]) = all
      /\ c.op = "unique" =>
           /\ eval_builtin(c, v) = {eval_unique(items, c.expr)}
           /\ (IF c.expr = <<>> THEN Ok(items) ELSE at_each(c.expr[1], items)) = all
      /\ c.op = "sort" =>
           /\ eval_builtin(c, v) = eval_sort(items, c.expr, c.dir)
           /\ at_each(c.expr, items) = all
  BY <1>6, LoopUnfolds DEF items, res
<1>8. CASE c.op = "filter"
  <2>1. eval_filter(items, c.expr) = all
    BY <1>6, <1>7, <1>8 DEF eval_filter
  <2> QED
    BY <1>2, <1>3, <1>5, <1>6, <1>7, <1>8, <2>1 DEF items
<1>9. CASE c.op = "unique"
  <2>1. eval_unique(items, c.expr) = all
    BY <1>6, <1>7, <1>9 DEF eval_unique
  <2> QED
    BY <1>2, <1>3, <1>5, <1>6, <1>7, <1>9, <2>1 DEF items
<1>10. CASE c.op = "sort"
  <2>1. eval_sort(items, c.expr, c.dir) = {all}
    BY <1>6, <1>7, <1>10 DEF eval_sort
  <2> QED
    BY <1>2, <1>3, <1>5, <1>6, <1>7, <1>10, <2>1 DEF items
<1> QED
  BY <1>8, <1>9, <1>10 DEF Loops

\* No item fails.
LEMMA NoItemFailure ==
  ASSUME NEW c, NEW v, IsTask(c, v), c.op \in Loops,
         \A i \in DOMAIN Payload(v) : IsOk(KeyIn(c, Payload(v)[i]))
  PROVE  LET items == Payload(v)
             keyed == KeyVals(c, items) IN
         /\ c.op = "filter" =>
              eval_builtin(c, v)
                = {Ok(VecV(Picked(items, StayPlaces(c, items, Len(items) + 1))))}
         /\ c.op = "unique" =>
              eval_builtin(c, v)
                = {Ok(VecV(Picked(items, FreshPlaces(c, items, Len(items) + 1))))}
         /\ c.op = "sort" =>
              eval_builtin(c, v)
                = IF Clashes(keyed) # {}
                    THEN {Compare(keyed, p[1], p[2]) : p \in Clashes(keyed)} \cup {Disorder}
                  ELSE IF IsWeakOrder(keyed, c.dir)
                    THEN {Ok(VecV(Sorted(items, keyed, c.dir)))}
                  ELSE {Ok(VecV(s)) : s \in Shuffles(items)} \cup {Disorder}
<1> DEFINE items == Payload(v)
           n == Len(items)
           res == KeyResults(c, items)
           keyed == KeyVals(c, items)
<1>1. n \in Nat /\ DOMAIN items = 1..n
  BY TaskItems
<1>2. DOMAIN res = DOMAIN items /\ \A i \in DOMAIN items : res[i] = KeyIn(c, items[i])
  BY DEF KeyResults
<1>3. \A i \in DOMAIN res : IsOk(res[i])
  BY <1>2
<1>4. collect(res) = Ok([i \in DOMAIN res |-> res[i].val])
  <2> HIDE DEF res
  <2> QED
    BY <1>3, CollectOk
<1>5. [i \in DOMAIN res |-> res[i].val] = keyed
  BY <1>2 DEF KeyVals
<1>6. \A i \in DOMAIN items : keyed[i] = KeyIn(c, items[i]).val
  BY DEF KeyVals
<1> HIDE DEF res, keyed, items, n
<1>7. PICK all : all = collect(res) /\ IsOk(all) /\ all.val = keyed
  BY <1>4, <1>5 DEF Ok, IsOk
<1>8. /\ c.op = "filter" =>
           /\ eval_builtin(c, v) = {eval_filter(items, c.expr)}
           /\ collect([i \in DOMAIN items |-> verdict(c.expr, items[i])]) = all
      /\ c.op = "unique" =>
           /\ eval_builtin(c, v) = {eval_unique(items, c.expr)}
           /\ (IF c.expr = <<>> THEN Ok(items) ELSE at_each(c.expr[1], items)) = all
      /\ c.op = "sort" =>
           /\ eval_builtin(c, v) = eval_sort(items, c.expr, c.dir)
           /\ at_each(c.expr, items) = all
  BY <1>7, LoopUnfolds DEF items, res
<1>9. CASE c.op = "filter"
  <2> DEFINE S == {i \in DOMAIN items : all.val[i] = BoolV(TRUE)}
             K == StayPlaces(c, items, n + 1)
  <2>1. eval_filter(items, c.expr) = Ok(VecV(Picked(items, S)))
    BY <1>7, <1>8, <1>9 DEF eval_filter
  <2>2. ASSUME NEW i
        PROVE  i \in S <=> i \in DOMAIN items /\ Stays(c, items, i)
    BY <1>6, <1>7 DEF Stays
  <2>3. ASSUME NEW i
        PROVE  i \in K <=> i \in DOMAIN items /\ Stays(c, items, i)
    <3>1. n + 1 - 1 = n
      BY <1>1
    <3> QED
      BY <1>1, <3>1 DEF StayPlaces
  <2> HIDE DEF S, K
  <2>4. S = K
    BY <2>2, <2>3
  <2> QED
    BY <1>8, <1>9, <2>1, <2>4 DEF items, n, K
<1>10. CASE c.op = "unique"
  <2> DEFINE S == {i \in DOMAIN items : \A j \in 1..(i - 1) : ~ ValueEq(all.val[j], all.val[i])}
             K == FreshPlaces(c, items, n + 1)
  <2>1. eval_unique(items, c.expr) = Ok(VecV(Picked(items, S)))
    BY <1>7, <1>8, <1>10 DEF eval_unique
  <2>2. ASSUME NEW i
        PROVE  i \in S <=> i \in DOMAIN items /\ Fresh(c, items, i)
    <3>1. i \in DOMAIN items => \A j \in 1..(i - 1) : j \in DOMAIN items
      BY <1>1
    <3> QED
      BY <1>6, <1>7, <3>1 DEF Fresh
  <2>3. ASSUME NEW i
        PROVE  i \in K <=> i \in DOMAIN items /\ Fresh(c, items, i)
    <3>1. n + 1 - 1 = n
      BY <1>1
    <3> QED
      BY <1>1, <3>1 DEF FreshPlaces
  <2> HIDE DEF S, K
  <2>4. S = K
    BY <2>2, <2>3
  <2> QED
    BY <1>8, <1>10, <2>1, <2>4 DEF items, n, K
<1>11. CASE c.op = "sort"
  <2>1. eval_sort(items, c.expr, c.dir)
          = IF Clashes(keyed) # {}
              THEN {Compare(keyed, p[1], p[2]) : p \in Clashes(keyed)} \cup {Disorder}
            ELSE IF IsWeakOrder(keyed, c.dir)
              THEN {Ok(VecV(Sorted(items, keyed, c.dir)))}
            ELSE {Ok(VecV(s)) : s \in Shuffles(items)} \cup {Disorder}
    BY <1>7, <1>8, <1>11 DEF eval_sort
  <2> QED
    BY <1>8, <1>11, <2>1 DEF items, keyed
<1> QED
  BY <1>9, <1>10, <1>11 DEF Loops

-----------------------------------------------------------------------------
(***************************************************************************)
(* What sort_by has been told.                                             *)
(***************************************************************************)

\* Every answer is about two keys, and without an error so far it is what they
\* compare as, in the direction of the sort; the error is that of two keys that
\* cannot be compared.
AnswersTrue ==
  \A p \in DOMAIN told :
    LET ord == Compare(keys, p[1], p[2]) IN
    IsOk(ord) /\ told[p] = IF cmd.dir = "Asc" THEN ord.val ELSE -ord.val

ToldInv ==
  /\ \A p \in DOMAIN told :
       p \in (DOMAIN keys) \X (DOMAIN keys) /\ p[1] # p[2] /\ told[p] \in {-1, 0, 1}
  /\ lazy_error = <<>> => AnswersTrue
  /\ lazy_error # <<>> => \E p \in Clashes(keys) : lazy_error = <<Compare(keys, p[1], p[2])>>

\* Keys that were put together by comparing them can all be compared.
LEMMA LinkedKeysCompare ==
  ASSUME NEW n, AreKeys(keys, n), ToldInv, lazy_error = <<>>, Linked
  PROVE  /\ \A i, j \in 1..n : i # j => IsOk(Compare(keys, i, j))
         /\ Clashes(keys) = {}
<1>1. DOMAIN keys = 1..n /\ \A i \in 1..n : IsValue(keys[i])
  BY DEF AreKeys
<1>2. ASSUME NEW i \in 1..n, NEW j \in 1..n, i # j, ~ IsOk(Compare(keys, i, j))
      PROVE  FALSE
  <2> DEFINE group == {k \in 1..n : k = i \/ IsOk(Compare(keys, i, k))}
  <2>1. i \in group /\ j \notin group /\ group \in SUBSET DOMAIN keys
    BY <1>1, <1>2
  <2>2. group \notin {{}, DOMAIN keys}
    BY <1>1, <2>1
  <2>3. PICK p \in DOMAIN told : ~ (p[1] \in group <=> p[2] \in group)
    <3> HIDE DEF group
    <3> QED
      BY <2>1, <2>2 DEF Linked
  <2>4. p[1] \in 1..n /\ p[2] \in 1..n /\ IsOk(Compare(keys, p[1], p[2]))
    BY <1>1 DEF ToldInv, AnswersTrue
  <2>5. PICK a \in 1..n, b \in 1..n : a \in group /\ b \notin group /\ IsOk(Compare(keys, a, b))
    <3>1. IsOk(Compare(keys, p[2], p[1]))
      BY <1>1, <2>4, CompareFacts DEF Compare
    <3> HIDE DEF group
    <3> QED
      BY <2>3, <2>4, <3>1
  <2>6. IsOk(Compare(keys, i, b))
    <3>1. a = i \/ IsOk(Compare(keys, i, a))
      BY <2>5
    <3> QED
      BY <1>1, <2>5, <3>1, ComparableIsTransitive DEF Compare
  <2> QED
    BY <2>5, <2>6
<1>3. Clashes(keys) = {}
  BY <1>1, <1>2 DEF Clashes
<1> QED
  BY <1>2, <1>3

\* The true ranks of keys in a weak order agree with what sort_by was told.
LEMMA TrueRanksAgree ==
  ASSUME NEW n, AreKeys(keys, n), NEW dir, dir = cmd.dir, IsDir(dir),
         IsWeakOrder(keys, dir), ToldInv, lazy_error = <<>>
  PROVE  TrueRanks(keys, dir) \in Rankings
<1> DEFINE r == TrueRanks(keys, dir)
<1>1. DOMAIN keys = 1..n /\ n \in Nat /\ \A i \in 1..n : IsValue(keys[i])
  BY DEF AreKeys
<1>2. /\ r \in [1..n -> 1..n]
      /\ \A i, j \in 1..n : r[i] < r[j] <=> Before(keys, dir, i, j)
      /\ \A i, j \in 1..n :
           r[i] = r[j] <=> ~ Before(keys, dir, i, j) /\ ~ Before(keys, dir, j, i)
  BY TrueRanksTell
<1> HIDE DEF r
<1>3. ASSUME NEW p \in DOMAIN told
      PROVE  SignOf(r[p[1]] - r[p[2]]) = told[p]
  <2>1. PICK i \in 1..n, j \in 1..n : i = p[1] /\ j = p[2]
    BY <1>1 DEF ToldInv
  <2>2. PICK ord, back : ord = Compare(keys, i, j) /\ back = Compare(keys, j, i)
    OBVIOUS
  <2>3. IsOk(ord) /\ told[p] = IF dir = "Asc" THEN ord.val ELSE -ord.val
    BY <2>1, <2>2 DEF ToldInv, AnswersTrue
  <2>4. ord.val \in {-1, 0, 1} /\ IsOk(back) /\ back.val = -ord.val
    BY <1>1, <2>2, <2>3, CompareFacts DEF Compare
  <2>5. /\ Before(keys, dir, i, j) <=> ord.val = IF dir = "Asc" THEN -1 ELSE 1
        /\ Before(keys, dir, j, i) <=> back.val = IF dir = "Asc" THEN -1 ELSE 1
    BY <2>2, <2>3, <2>4 DEF Before
  <2>6. PICK x \in Int, y \in Int : x = r[i] /\ y = r[j]
    BY <1>2
  <2>7. /\ x < y <=> Before(keys, dir, i, j)
        /\ x = y <=> ~ Before(keys, dir, i, j) /\ ~ Before(keys, dir, j, i)
    BY <1>2, <2>6
  <2>8. PICK w \in {-1, 0, 1} : w = ord.val
    BY <2>4
  <2>9. /\ x < y <=> (IF dir = "Asc" THEN w = -1 ELSE w = 1)
        /\ x = y <=> w = 0
    BY <2>4, <2>5, <2>7, <2>8 DEF IsDir
  <2>10. SignOf(x - y) = IF dir = "Asc" THEN w ELSE -w
    BY <2>9 DEF SignOf
  <2> QED
    BY <2>1, <2>3, <2>6, <2>8, <2>10
<1> QED
  BY <1>1, <1>2, <1>3 DEF Rankings, r

\* The orders sort_by may return with.
Returnable == IF Settled = {} THEN Orderings(DOMAIN keys) ELSE Settled

\* Every such order takes in every place once; in a weak order it is the
\* stable one.
LEMMA ReturnedOrder ==
  ASSUME NEW n, AreKeys(keys, n), NEW dir, dir = cmd.dir, IsDir(dir),
         ToldInv, lazy_error = <<>>, IsSettled, NEW o \in Returnable
  PROVE  /\ o \in Orderings(1..n)
         /\ IsWeakOrder(keys, dir) => o = Ordered(TrueRanks(keys, dir))
<1>1. DOMAIN keys = 1..n /\ n \in Nat
  BY DEF AreKeys
<1>2. ASSUME NEW r \in Rankings
      PROVE  r \in [1..n -> 1..n] /\ Ordered(r) \in Settled
  BY <1>1 DEF Rankings, Settled
<1>3. o \in Orderings(1..n)
  <2>1. CASE Settled = {}
    BY <1>1, <2>1 DEF Returnable
  <2>2. CASE Settled # {}
    <3>1. PICK r \in Rankings : o = Ordered(r)
      BY <2>2 DEF Returnable, Settled
    <3>2. r \in [1..n -> 1..n]
      BY <1>2
    <3> QED
      BY <1>1, <3>1, <3>2, OrderedFacts
  <2> QED
    BY <2>1, <2>2
<1>4. ASSUME IsWeakOrder(keys, dir)
      PROVE  o = Ordered(TrueRanks(keys, dir))
  <2>1. Ordered(TrueRanks(keys, dir)) \in Settled
    BY <1>2, <1>4, TrueRanksAgree
  <2>2. o \in Settled
    BY <2>1 DEF Returnable
  <2>3. Settled = {o}
    BY <2>2 DEF IsSettled
  <2> QED
    BY <2>1, <2>3
<1> QED
  BY <1>3, <1>4

\* A sort that has keyed all items.
Keyed ==
  /\ IsTask(cmd, input)
  /\ cmd.op = "sort"
  /\ \A i \in DOMAIN Items : IsOk(KeyIn(cmd, Items[i]))
  /\ keys = KeyVals(cmd, Items)

\* Its keys are values to sort by, one for every item.
LEMMA KeyedKeys ==
  ASSUME Keyed
  PROVE  AreKeys(keys, Len(Items)) /\ IsDir(cmd.dir) /\ DOMAIN Items = 1..Len(Items)
<1>1. Len(Items) \in Nat /\ DOMAIN Items = 1..Len(Items)
  BY TaskItems DEF Keyed, Items
<1>2. \A i \in DOMAIN Items : IsValue(KeyIn(cmd, Items[i]).val)
  BY KeyFacts DEF Keyed, Items, Loops
<1>3. DOMAIN keys = DOMAIN Items /\ \A i \in DOMAIN Items : keys[i] = KeyIn(cmd, Items[i]).val
  BY DEF Keyed, KeyVals
<1>4. IsDir(cmd.dir)
  BY CommandsAssumption DEF Keyed, IsTask, IsDir
<1> QED
  BY <1>1, <1>2, <1>3, <1>4 DEF AreKeys

\* The ways sort may return are those that the command as a whole has.
LEMMA SortAgrees ==
  ASSUME Keyed, ToldInv
  PROVE  /\ lazy_error # <<>> => lazy_error[1] \in eval_builtin(cmd, input)
         /\ lazy_error = <<>> /\ Linked /\ IsSettled =>
              \A o \in Returnable : Ok(VecV(Arranged(Items, o))) \in eval_builtin(cmd, input)
         /\ Rankings = {} => Disorder \in eval_builtin(cmd, input)
<1> DEFINE n == Len(Items)
<1>1. AreKeys(keys, n) /\ IsDir(cmd.dir) /\ DOMAIN Items = 1..n
  BY KeyedKeys
<1>2. eval_builtin(cmd, input)
        = IF Clashes(keys) # {}
            THEN {Compare(keys, p[1], p[2]) : p \in Clashes(keys)} \cup {Disorder}
          ELSE IF IsWeakOrder(keys, cmd.dir)
            THEN {Ok(VecV(Sorted(Items, keys, cmd.dir)))}
          ELSE {Ok(VecV(s)) : s \in Shuffles(Items)} \cup {Disorder}
  BY NoItemFailure DEF Keyed, Items, Loops
<1> HIDE DEF n
<1>3. ASSUME lazy_error # <<>>
      PROVE  lazy_error[1] \in eval_builtin(cmd, input)
  <2>1. PICK p \in Clashes(keys) : lazy_error = <<Compare(keys, p[1], p[2])>>
    BY <1>3 DEF ToldInv
  <2>2. lazy_error[1] = Compare(keys, p[1], p[2])
    BY <2>1
  <2> QED
    BY <1>2, <2>1, <2>2
<1>4. ASSUME lazy_error = <<>>, Linked, IsSettled, NEW o \in Returnable
      PROVE  Ok(VecV(Arranged(Items, o))) \in eval_builtin(cmd, input)
  <2>1. Clashes(keys) = {}
    BY <1>1, <1>4, LinkedKeysCompare
  <2>2. o \in Orderings(1..n) /\ DOMAIN o = 1..n
    BY <1>1, <1>4, ReturnedOrder DEF Orderings
  <2>3. CASE IsWeakOrder(keys, cmd.dir)
    <3>1. o = Ordered(TrueRanks(keys, cmd.dir))
      BY <1>1, <1>4, <2>3, ReturnedOrder
    <3>2. Sorted(Items, keys, cmd.dir) = Arranged(Items, o)
      BY <1>1, <2>3, <3>1, SortedByRanks
    <3> QED
      BY <1>2, <2>1, <2>3, <3>2
  <2>4. CASE ~ IsWeakOrder(keys, cmd.dir)
    <3>1. Arranged(Items, o) = [m \in DOMAIN Items |-> Items[o[m]]]
      BY <1>1, <2>2 DEF Arranged
    <3>2. Arranged(Items, o) \in Shuffles(Items)
      BY <1>1, <2>2, <3>1 DEF Shuffles
    <3> QED
      BY <1>2, <2>1, <2>4, <3>2
  <2> QED
    BY <2>3, <2>4
<1>5. ASSUME Rankings = {}
      PROVE  Disorder \in eval_builtin(cmd, input)
  <2>1. CASE Clashes(keys) # {}
    BY <1>2, <2>1
  <2>2. CASE Clashes(keys) = {} /\ ~ IsWeakOrder(keys, cmd.dir)
    BY <1>2, <2>2
  <2>3. CASE Clashes(keys) = {} /\ IsWeakOrder(keys, cmd.dir)
    <3>1. lazy_error = <<>>
      BY <2>3 DEF ToldInv
    <3> QED
      BY <1>1, <1>5, <2>3, <3>1, TrueRanksAgree
  <2> QED
    BY <2>1, <2>2, <2>3
<1> QED
  BY <1>3, <1>4, <1>5

-----------------------------------------------------------------------------
(***************************************************************************)
(* One item more.                                                          *)
(***************************************************************************)

\* In a filter.
LEMMA StayStep ==
  ASSUME NEW c, NEW items, NEW k \in Nat \ {0}
  PROVE  Picked(items, StayPlaces(c, items, k + 1))
           = IF Stays(c, items, k)
               THEN Append(Picked(items, StayPlaces(c, items, k)), items[k])
             ELSE Picked(items, StayPlaces(c, items, k))
<1> DEFINE S == StayPlaces(c, items, k)
           T == StayPlaces(c, items, k + 1)
<1>1. PICK m \in Nat : k = m + 1
  <2>1. k - 1 \in Nat /\ k = (k - 1) + 1
    OBVIOUS
  <2> QED
    BY <2>1
<1>2. k - 1 = m /\ k + 1 - 1 = m + 1
  BY <1>1
<1>3. S \subseteq 1..m
  BY <1>2 DEF StayPlaces
<1>4. \A i : i \in 1..(m + 1) <=> i \in 1..m \/ i = m + 1
  BY <1>1
<1>5. \A i : /\ i \in S <=> i \in 1..m /\ Stays(c, items, i)
             /\ i \in T <=> i \in 1..(m + 1) /\ Stays(c, items, i)
  BY <1>2 DEF StayPlaces
<1> HIDE DEF S, T
<1>6. ASSUME Stays(c, items, k)
      PROVE  T = S \cup {m + 1}
  <2>1. \A i : i \in T <=> i \in S \cup {m + 1}
    BY <1>1, <1>4, <1>5, <1>6
  <2> QED
    BY <2>1
<1>7. ASSUME ~ Stays(c, items, k)
      PROVE  T = S
  <2>1. \A i : i \in T <=> i \in S
    BY <1>1, <1>4, <1>5, <1>7
  <2> QED
    BY <2>1
<1>8. Picked(items, S \cup {m + 1}) = Append(Picked(items, S), items[m + 1])
  BY <1>3, PickMore
<1> QED
  BY <1>1, <1>6, <1>7, <1>8 DEF S, T

\* In unique.
LEMMA FreshStep ==
  ASSUME NEW c, NEW items, NEW k \in Nat \ {0}, NEW list
  PROVE  /\ FreshPlaces(c, items, k) \subseteq FreshPlaces(c, items, k + 1)
         /\ Fresh(c, items, k) =>
              /\ k \in FreshPlaces(c, items, k + 1)
              /\ Picked(list, FreshPlaces(c, items, k + 1))
                   = Append(Picked(list, FreshPlaces(c, items, k)), list[k])
         /\ ~ Fresh(c, items, k) => FreshPlaces(c, items, k + 1) = FreshPlaces(c, items, k)
<1> DEFINE S == FreshPlaces(c, items, k)
           T == FreshPlaces(c, items, k + 1)
<1>1. PICK m \in Nat : k = m + 1
  <2>1. k - 1 \in Nat /\ k = (k - 1) + 1
    OBVIOUS
  <2> QED
    BY <2>1
<1>2. k - 1 = m /\ k + 1 - 1 = m + 1
  BY <1>1
<1>3. S \subseteq 1..m
  BY <1>2 DEF FreshPlaces
<1>4. \A i : i \in 1..(m + 1) <=> i \in 1..m \/ i = m + 1
  BY <1>1
<1>5. \A i : /\ i \in S <=> i \in 1..m /\ Fresh(c, items, i)
             /\ i \in T <=> i \in 1..(m + 1) /\ Fresh(c, items, i)
  BY <1>2 DEF FreshPlaces
<1> HIDE DEF S, T
<1>6. ASSUME Fresh(c, items, k)
      PROVE  T = S \cup {m + 1}
  <2>1. \A i : i \in T <=> i \in S \cup {m + 1}
    BY <1>1, <1>4, <1>5, <1>6
  <2> QED
    BY <2>1
<1>7. ASSUME ~ Fresh(c, items, k)
      PROVE  T = S
  <2>1. \A i : i \in T <=> i \in S
    BY <1>1, <1>4, <1>5, <1>7
  <2> QED
    BY <2>1
<1>8. Picked(list, S \cup {m + 1}) = Append(Picked(list, S), list[m + 1])
  BY <1>3, PickMore
<1> QED
  BY <1>1, <1>6, <1>7, <1>8 DEF S, T

\* Every key below k is equal to one at a fresh place, but for those that are
\* equal to nothing.
Covered(c, items, k) ==
  \A i \in 1..(k - 1) :
    ~ HoldsNaN(KeyIn(c, items[i]).val) =>
      \E j \in FreshPlaces(c, items, k) :
        ValueEq(KeyIn(c, items[j]).val, KeyIn(c, items[i]).val)

\* So a key is among those unique has kept exactly if an earlier item has it.
LEMMA SeenIsStale ==
  ASSUME NEW c, NEW items, NEW n \in Nat, DOMAIN items = 1..n, NEW k \in 1..n,
         Covered(c, items, k)
  PROVE  vec_contains(Picked(KeyVals(c, items), FreshPlaces(c, items, k)),
                      KeyIn(c, items[k]).val)
           <=> ~ Fresh(c, items, k)
<1> DEFINE S == FreshPlaces(c, items, k)
           key(i) == KeyIn(c, items[i]).val
           list == Picked(KeyVals(c, items), S)
<1>1. PICK m \in Nat : m = k - 1 /\ m < n
  OBVIOUS
<1>2. S \subseteq 1..m
  BY <1>1 DEF FreshPlaces
<1>3. PICK o : Enumerates(o, S) /\ HasItemsAt(list, KeyVals(c, items), o)
  <2> HIDE DEF S
  <2> QED
    BY <1>1, <1>2, PickedFacts
<1>4. \A i \in 1..m : KeyVals(c, items)[i] = key(i)
  BY <1>1 DEF KeyVals
<1> HIDE DEF list, S
<1>5. DOMAIN o = DOMAIN list /\ \A i \in S : \E x \in DOMAIN list : o[x] = i
  BY <1>3 DEF Enumerates, HasItemsAt
<1>6. \A x \in DOMAIN list : o[x] \in S /\ list[x] = key(o[x])
  BY <1>2, <1>3, <1>4 DEF Enumerates, HasItemsAt
<1>7. ASSUME vec_contains(list, key(k))
      PROVE  ~ Fresh(c, items, k)
  <2>1. PICK x \in DOMAIN list : ValueEq(list[x], key(k))
    BY <1>7 DEF vec_contains
  <2>2. o[x] \in 1..(k - 1) /\ ValueEq(key(o[x]), key(k))
    BY <1>1, <1>2, <1>6, <2>1
  <2> QED
    BY <2>2 DEF Fresh
<1>8. ASSUME ~ Fresh(c, items, k)
      PROVE  vec_contains(list, key(k))
  <2>1. PICK i \in 1..(k - 1) : ValueEq(key(i), key(k))
    BY <1>8 DEF Fresh
  <2>2. key(i) = key(k) /\ ~ HoldsNaN(key(i))
    BY <2>1 DEF ValueEq
  <2>3. PICK j \in S : ValueEq(key(j), key(i))
    BY <2>2 DEF Covered, S
  <2>4. PICK x \in DOMAIN list : o[x] = j
    BY <1>5
  <2>5. ValueEq(list[x], key(k))
    BY <1>6, <2>2, <2>3, <2>4
  <2> QED
    BY <2>5 DEF vec_contains
<1> QED
  BY <1>7, <1>8 DEF list, S

\* One item more is covered.
LEMMA CoveredStep ==
  ASSUME NEW c, NEW items, NEW k \in Nat \ {0}, Covered(c, items, k)
  PROVE  Covered(c, items, k + 1)
<1> DEFINE key(i) == KeyIn(c, items[i]).val
<1> SUFFICES ASSUME NEW i \in 1..(k + 1 - 1), ~ HoldsNaN(key(i))
             PROVE  \E j \in FreshPlaces(c, items, k + 1) : ValueEq(key(j), key(i))
  BY DEF Covered
<1>1. FreshPlaces(c, items, k) \subseteq FreshPlaces(c, items, k + 1)
  BY FreshStep
<1>2. CASE i \in 1..(k - 1)
  BY <1>1, <1>2 DEF Covered
<1>3. CASE i = k /\ Fresh(c, items, k)
  <2>1. k \in FreshPlaces(c, items, k + 1) /\ ValueEq(key(k), key(i))
    BY <1>3, FreshStep DEF ValueEq
  <2> QED
    BY <2>1
<1>4. CASE i = k /\ ~ Fresh(c, items, k)
  <2>1. PICK l \in 1..(k - 1) : ValueEq(key(l), key(k))
    BY <1>4 DEF Fresh
  <2>2. key(l) = key(k) /\ ~ HoldsNaN(key(l))
    BY <2>1 DEF ValueEq
  <2>3. PICK j \in FreshPlaces(c, items, k) : ValueEq(key(j), key(l))
    BY <2>2 DEF Covered
  <2> QED
    BY <1>1, <1>4, <2>2, <2>3
<1> QED
  BY <1>2, <1>3, <1>4

\* Picked is a sequence of as many items as there are places.
LEMMA PickedLen ==
  ASSUME NEW n \in Nat, NEW places, places \subseteq 1..n, NEW items
  PROVE  Len(Picked(items, places)) \in 0..n
<1> DEFINE N == Cardinality(places)
<1>1. IsFiniteSet(1..n) /\ Cardinality(1..n) = n
  BY FS_Interval
<1>2. N \in Nat /\ N <= n
  <2>1. N <= Cardinality(1..n)
    BY <1>1, FS_Subset
  <2>2. N \in Nat
    BY Ranks
  <2> QED
    BY <1>1, <2>1, <2>2
<1>3. Picked(items, places) = [m \in 1..N |-> items[Nth(places, m)]]
  BY DEF Picked, Nth, Rank
<1>4. Picked(items, places) \in Seq({items[Nth(places, m)] : m \in 1..N})
      /\ Len(Picked(items, places)) = N
  BY <1>2, <1>3
<1> QED
  BY <1>2, <1>4

-----------------------------------------------------------------------------
(***************************************************************************)
(* The invariant of a run.                                                 *)
(***************************************************************************)

\* What the loop has been through came to values.
ItemsInv ==
  /\ cmd \in Commands /\ input \in Inputs
  /\ phase \in {"items", "sorting", "done"}
  /\ IsVec(input) =>
       /\ at \in 1..(Len(Items) + 1)
       /\ at # 1 => cmd.op \in Loops
       /\ \A i \in 1..(at - 1) : IsOk(KeyIn(cmd, Items[i]))

\* filter and unique have kept what is to be kept of it, sort all of its keys.
KeptInv ==
  IsVec(input) =>
    /\ cmd.op = "filter" =>
         keys = <<>> /\ kept = Picked(Items, StayPlaces(cmd, Items, at))
    /\ cmd.op = "unique" =>
         /\ kept = Picked(Items, FreshPlaces(cmd, Items, at))
         /\ keys = Picked(KeyVals(cmd, Items), FreshPlaces(cmd, Items, at))
         /\ Covered(cmd, Items, at)
    /\ cmd.op = "sort" =>
         /\ kept = <<>>
         /\ IsSeq(keys) /\ Len(keys) = at - 1
         /\ \A i \in 1..(at - 1) : keys[i] = KeyIn(cmd, Items[i]).val
    /\ cmd.op \notin Loops => keys = <<>> /\ kept = <<>>

\* sort_by is asked to sort when all keys are there, and answers when it is done.
PhaseInv ==
  /\ phase = "sorting" => cmd.op = "sort" /\ IsVec(input) /\ at = Len(Items) + 1
  /\ phase = "items" => told = [p \in {} |-> 0] /\ lazy_error = <<>>
  /\ phase # "done" => outcome = Running

LoopInv == ItemsInv /\ KeptInv /\ PhaseInv /\ ToldInv

\* The ways a command returns.
Returned ==
  \/ ~ IsVec(input) /\ outcome = expect_vector(input)
  \/ /\ IsVec(input)
     /\ \/ /\ cmd.op \in Loops /\ at \in DOMAIN Items
           /\ ~ IsOk(KeyIn(cmd, Items[at])) /\ outcome = KeyIn(cmd, Items[at])
        \/ /\ cmd.op \in {"filter", "unique"} /\ at = Len(Items) + 1
           /\ outcome = Ok(VecV(kept))
        \/ cmd.op = "take" /\ outcome = eval_limit(Items, cmd.n)
        \/ cmd.op = "count" /\ outcome = Ok(IntV(Len(Items)))
        \/ /\ cmd.op = "sort" /\ at = Len(Items) + 1
           /\ \/ lazy_error # <<>> /\ outcome = lazy_error[1]
              \/ /\ lazy_error = <<>> /\ Linked /\ IsSettled
                 /\ \E o \in Returnable : outcome = Ok(VecV(Arranged(Items, o)))
              \/ Rankings = {} /\ outcome = Disorder

ReturnInv == phase = "done" => Returned

\* It holds at first.
LEMMA InitInv == Init => LoopInv /\ ReturnInv
<1> SUFFICES ASSUME Init
             PROVE  LoopInv /\ ReturnInv
  OBVIOUS
<1>1. ASSUME IsVec(input)
      PROVE  Len(Items) \in Nat
  BY <1>1, TaskItems DEF Init, IsTask, Items
<1>2. ItemsInv
  BY <1>1 DEF Init, ItemsInv
<1>3. 1..(1 - 1) = {}
  OBVIOUS
<1>4. KeptInv
  <2>1. /\ StayPlaces(cmd, Items, 1) = {} /\ FreshPlaces(cmd, Items, 1) = {}
        /\ Covered(cmd, Items, 1)
    BY <1>3 DEF StayPlaces, FreshPlaces, Covered
  <2>2. IsSeq(<<>>) /\ Len(<<>>) = 0
    <3>1. <<>> \in Seq({})
      OBVIOUS
    <3> QED
      BY <3>1 DEF IsSeq
  <2> QED
    BY <1>3, <2>1, <2>2, PickNone DEF Init, KeptInv, Loops
<1>5. PhaseInv /\ ToldInv
  BY DEF Init, PhaseInv, ToldInv, AnswersTrue
<1> QED
  BY <1>2, <1>4, <1>5 DEF Init, LoopInv, ReturnInv

\* What is true of a loop at one of its items.
LEMMA AtItem ==
  ASSUME LoopInv, NEW op \in Loops, Runs(op), at \in DOMAIN Items
  PROVE  /\ IsTask(cmd, input) /\ cmd.op = op
         /\ Len(Items) \in Nat /\ DOMAIN Items = 1..Len(Items) /\ at \in Nat \ {0}
         /\ KeyOf(Items[at]) = KeyIn(cmd, Items[at])
         /\ at + 1 \in 1..(Len(Items) + 1) /\ at + 1 - 1 = at
         /\ \A i \in 1..at : i \in 1..(at - 1) \/ i = at
         /\ told = [p \in {} |-> 0] /\ lazy_error = <<>> /\ outcome = Running
<1>1. IsTask(cmd, input) /\ cmd.op = op
  BY DEF Runs, LoopInv, ItemsInv, IsTask
<1>2. Len(Items) \in Nat /\ DOMAIN Items = 1..Len(Items)
  BY <1>1, TaskItems DEF Items
<1>3. KeyOf(Items[at]) = KeyIn(cmd, Items[at])
  BY DEF KeyOf, KeyIn
<1>4. told = [p \in {} |-> 0] /\ lazy_error = <<>> /\ outcome = Running
  BY DEF Runs, LoopInv, PhaseInv
<1>5. PICK n \in Nat : n = Len(Items)
  BY <1>2
<1>8. PICK k \in 1..n : k = at
  BY <1>2, <1>5
<1>6. at \in Nat \ {0} /\ at + 1 \in 1..(Len(Items) + 1) /\ at + 1 - 1 = at
  BY <1>5, <1>8
<1>7. \A i \in 1..at : i \in 1..(at - 1) \/ i = at
  BY <1>8
<1> QED
  BY <1>1, <1>2, <1>3, <1>4, <1>6, <1>7

\* An item that comes to a value: what does not depend on the command.
LEMMA ItemStep ==
  ASSUME LoopInv, NEW op \in Loops, Item(op, KeyOf(Items[at]))
  PROVE  /\ ItemsInv' /\ PhaseInv' /\ ToldInv' /\ ReturnInv'
         /\ cmd' = cmd /\ input' = input /\ Items' = Items /\ at' = at + 1
         /\ phase = "items" /\ at \in DOMAIN Items /\ IsOk(KeyIn(cmd, Items[at]))
<1>1. Runs(op) /\ at \in DOMAIN Items /\ IsOk(KeyOf(Items[at]))
  BY DEF Item
<1>2. /\ cmd' = cmd /\ input' = input /\ Items' = Items /\ at' = at + 1
      /\ phase' = phase /\ told' = told /\ lazy_error' = lazy_error /\ outcome' = outcome
  BY DEF Item, Items
<1>3. /\ IsTask(cmd, input) /\ cmd.op = op
      /\ IsOk(KeyIn(cmd, Items[at]))
      /\ at + 1 \in 1..(Len(Items) + 1) /\ at + 1 - 1 = at
      /\ \A i \in 1..at : i \in 1..(at - 1) \/ i = at
      /\ told = [p \in {} |-> 0] /\ lazy_error = <<>> /\ outcome = Running
  BY <1>1, AtItem
<1>4. phase = "items" /\ IsVec(input)
  BY <1>1 DEF Runs
<1>5. ItemsInv'
  <2>1. \A i \in 1..(at - 1) : IsOk(KeyIn(cmd, Items[i]))
    BY <1>4 DEF LoopInv, ItemsInv
  <2>2. \A i \in 1..(at + 1 - 1) : IsOk(KeyIn(cmd, Items[i]))
    BY <1>3, <2>1
  <2>6. at \in Int
    BY <1>1, AtItem
  <2>3. /\ at' \in 1..(Len(Items') + 1) /\ cmd'.op \in Loops
        /\ at' - 1 = at + 1 - 1
    BY <1>2, <1>3, <2>6
  <2>5. \A i \in 1..(at' - 1) : IsOk(KeyIn(cmd', Items'[i]))
    BY <1>2, <2>2, <2>3
  <2>4. cmd' \in Commands /\ input' \in Inputs /\ phase' \in {"items", "sorting", "done"}
    BY <1>2 DEF LoopInv, ItemsInv
  <2> QED
    BY <2>3, <2>4, <2>5 DEF ItemsInv
<1>6. PhaseInv' /\ ReturnInv'
  BY <1>2, <1>3, <1>4 DEF PhaseInv, ReturnInv
<1>7. ToldInv'
  BY <1>2, <1>3 DEF ToldInv, AnswersTrue
<1> QED
  BY <1>1, <1>2, <1>3, <1>4, <1>5, <1>6, <1>7

\* filter takes an item.
LEMMA FilterItemInv ==
  ASSUME LoopInv, FilterItem
  PROVE  LoopInv' /\ ReturnInv'
<1>1. Item("filter", KeyOf(Items[at])) /\ "filter" \in Loops
  BY DEF FilterItem, Loops
<1>2. /\ ItemsInv' /\ PhaseInv' /\ ToldInv' /\ ReturnInv'
      /\ cmd' = cmd /\ input' = input /\ Items' = Items /\ at' = at + 1
  BY <1>1, ItemStep
<1>3. /\ IsVec(input) /\ cmd.op = "filter" /\ at \in Nat \ {0}
      /\ KeyOf(Items[at]) = KeyIn(cmd, Items[at])
  BY <1>1, AtItem DEF Item, IsTask
<1>4. keys' = keys /\ kept' = IF Stays(cmd, Items, at) THEN Append(kept, Items[at]) ELSE kept
  BY <1>3 DEF FilterItem, Stays
<1>5. keys = <<>> /\ kept = Picked(Items, StayPlaces(cmd, Items, at))
  BY <1>3 DEF LoopInv, KeptInv
<1>6. kept' = Picked(Items, StayPlaces(cmd, Items, at + 1))
  BY <1>3, <1>4, <1>5, StayStep
<1>7. keys' = <<>> /\ kept' = Picked(Items', StayPlaces(cmd', Items', at')) /\ cmd'.op = "filter"
  BY <1>2, <1>3, <1>4, <1>5, <1>6
<1>8. KeptInv'
  BY <1>7 DEF KeptInv, Loops
<1> QED
  BY <1>2, <1>8 DEF LoopInv

\* unique takes an item.
LEMMA UniqueItemInv ==
  ASSUME LoopInv, UniqueItem
  PROVE  LoopInv' /\ ReturnInv'
<1> DEFINE S == FreshPlaces(cmd, Items, at)
           T == FreshPlaces(cmd, Items, at + 1)
           K == KeyVals(cmd, Items)
<1>1. Item("unique", KeyOf(Items[at])) /\ "unique" \in Loops
  BY DEF UniqueItem, Loops
<1>2. /\ ItemsInv' /\ PhaseInv' /\ ToldInv' /\ ReturnInv'
      /\ cmd' = cmd /\ input' = input /\ Items' = Items /\ at' = at + 1
  BY <1>1, ItemStep
<1>3. /\ IsVec(input) /\ cmd.op = "unique" /\ at \in Nat \ {0} /\ at \in DOMAIN Items
      /\ KeyOf(Items[at]) = KeyIn(cmd, Items[at])
      /\ Len(Items) \in Nat /\ DOMAIN Items = 1..Len(Items)
  BY <1>1, AtItem DEF Item, IsTask
<1>4. /\ kept = Picked(Items, S)
      /\ keys = Picked(K, S)
      /\ Covered(cmd, Items, at)
  BY <1>3 DEF LoopInv, KeptInv
<1>5. K[at] = KeyOf(Items[at]).val
  BY <1>3 DEF KeyVals
<1>6. Seen(K[at]) <=> ~ Fresh(cmd, Items, at)
  <2>1. vec_contains(Picked(K, S), KeyIn(cmd, Items[at]).val) <=> ~ Fresh(cmd, Items, at)
    BY <1>3, <1>4, SeenIsStale
  <2> QED
    BY <1>3, <1>4, <1>5, <2>1 DEF Seen
<1>7. IF Fresh(cmd, Items, at)
        THEN keys' = Append(keys, K[at]) /\ kept' = Append(kept, Items[at])
        ELSE keys' = keys /\ kept' = kept
  BY <1>5, <1>6 DEF UniqueItem
<1>8. \A list : /\ Fresh(cmd, Items, at) => Picked(list, T) = Append(Picked(list, S), list[at])
                /\ ~ Fresh(cmd, Items, at) => T = S
  BY <1>3, FreshStep
<1>9. Covered(cmd, Items, at + 1)
  BY <1>3, <1>4, CoveredStep
<1> HIDE DEF S, T, K
<1>10. kept' = Picked(Items, T) /\ keys' = Picked(K, T)
  BY <1>4, <1>7, <1>8
<1>11. /\ cmd'.op = "unique"
       /\ kept' = Picked(Items', FreshPlaces(cmd', Items', at'))
       /\ keys' = Picked(KeyVals(cmd', Items'), FreshPlaces(cmd', Items', at'))
       /\ Covered(cmd', Items', at')
  BY <1>2, <1>3, <1>9, <1>10 DEF T, K
<1>12. KeptInv'
  BY <1>11 DEF KeptInv, Loops
<1> QED
  BY <1>2, <1>12 DEF LoopInv

\* sort keys an item.
LEMMA SortItemInv ==
  ASSUME LoopInv, SortItem
  PROVE  LoopInv' /\ ReturnInv'
<1>1. Item("sort", KeyOf(Items[at])) /\ "sort" \in Loops
  BY DEF SortItem, Loops
<1>2. /\ ItemsInv' /\ PhaseInv' /\ ToldInv' /\ ReturnInv'
      /\ cmd' = cmd /\ input' = input /\ Items' = Items /\ at' = at + 1
  BY <1>1, ItemStep
<1>3. /\ IsVec(input) /\ cmd.op = "sort" /\ at \in Nat \ {0}
      /\ KeyOf(Items[at]) = KeyIn(cmd, Items[at])
      /\ \A i \in 1..at : i \in 1..(at - 1) \/ i = at
  BY <1>1, AtItem DEF Item, IsTask
<1>4. /\ kept = <<>> /\ IsSeq(keys) /\ Len(keys) = at - 1
      /\ \A i \in 1..(at - 1) : keys[i] = KeyIn(cmd, Items[i]).val
  BY <1>3 DEF LoopInv, KeptInv
<1>5. kept' = kept /\ keys' = Append(keys, KeyIn(cmd, Items[at]).val)
  BY <1>3 DEF SortItem
<1>6. PICK m \in Nat : m = Len(keys) /\ at = m + 1 /\ at - 1 = m /\ at + 1 - 1 = m + 1
  BY <1>3, <1>4
<1>7. /\ IsSeq(keys') /\ Len(keys') = m + 1
      /\ \A i \in 1..m : keys'[i] = keys[i]
      /\ keys'[m + 1] = KeyIn(cmd, Items[at]).val
  BY <1>4, <1>5, <1>6, AppendFacts
<1>8. \A i \in 1..(m + 1) : keys'[i] = KeyIn(cmd, Items[i]).val
  BY <1>3, <1>4, <1>6, <1>7
<1>9. /\ cmd'.op = "sort" /\ kept' = <<>> /\ IsSeq(keys') /\ Len(keys') = at' - 1
      /\ \A i \in 1..(at' - 1) : keys'[i] = KeyIn(cmd', Items'[i]).val
  BY <1>2, <1>3, <1>4, <1>5, <1>6, <1>7, <1>8
<1>10. KeptInv'
  BY <1>9 DEF KeptInv, Loops
<1> QED
  BY <1>2, <1>10 DEF LoopInv

\* All items have been keyed.
LEMMA AllAreKeyed ==
  ASSUME LoopInv, IsVec(input), cmd.op = "sort", at = Len(Items) + 1
  PROVE  Keyed
<1>1. IsTask(cmd, input)
  BY DEF LoopInv, ItemsInv, IsTask
<1>2. Len(Items) \in Nat /\ DOMAIN Items = 1..Len(Items)
  BY <1>1, TaskItems DEF Items
<1>3. PICK n \in Nat : n = Len(Items) /\ at - 1 = n
  <2>1. PICK n \in Nat : n = Len(Items)
    BY <1>2
  <2>2. at - 1 = n
    BY <2>1
  <2> QED
    BY <2>1, <2>2
<1>4. \A i \in 1..n : IsOk(KeyIn(cmd, Items[i]))
  BY <1>3 DEF LoopInv, ItemsInv
<1>5. /\ IsSeq(keys) /\ Len(keys) = n
      /\ \A i \in 1..n : keys[i] = KeyIn(cmd, Items[i]).val
  BY <1>3 DEF LoopInv, KeptInv
<1>6. keys = [i \in 1..n |-> keys[i]]
  BY <1>5 DEF IsSeq
<1>7. keys = KeyVals(cmd, Items)
  BY <1>2, <1>3, <1>5, <1>6 DEF KeyVals
<1> QED
  BY <1>1, <1>2, <1>3, <1>4, <1>7 DEF Keyed

\* sort_by asks about a pair.
LEMMA AskInv ==
  ASSUME LoopInv, Ask
  PROVE  LoopInv' /\ ReturnInv'
<1>1. Keyed
  <2>1. phase = "sorting"
    BY DEF Ask
  <2> QED
    BY <2>1, AllAreKeyed DEF LoopInv, PhaseInv
<1>2. PICK n \in Nat : AreKeys(keys, n) /\ n = Len(Items)
  BY <1>1, KeyedKeys DEF AreKeys
<1>3. phase = "sorting" /\ UNCHANGED <<cmd, input, phase, at, keys, kept, outcome>>
  BY DEF Ask
<1>4. PICK p \in Unasked :
        /\ told' = [q \in DOMAIN told \cup {p} |->
                      IF q = p THEN Answer(Compare(keys, p[1], p[2])) ELSE told[q]]
        /\ lazy_error' = LazyError(Compare(keys, p[1], p[2]))
  BY DEF Ask, Compare
<1>5. PICK i \in 1..n, j \in 1..n : p = <<i, j>> /\ i # j
  BY <1>2 DEF Unasked, AreKeys
<1>6. PICK ord : ord = Compare(keys, i, j)
  OBVIOUS
<1>7. IsOk(ord) => ord.val \in {-1, 0, 1}
  <2>1. IsValue(keys[i]) /\ IsValue(keys[j])
    BY <1>2 DEF AreKeys
  <2> QED
    BY <1>6, <2>1, CompareFacts DEF Compare
<1>8. /\ DOMAIN told' = DOMAIN told \cup {p}
      /\ told'[p] = Answer(ord)
      /\ \A q \in DOMAIN told : q # p => told'[q] = told[q]
      /\ lazy_error' = LazyError(ord)
  BY <1>4, <1>5, <1>6
<1>9. ToldInv
  BY DEF LoopInv
<1>10. ASSUME NEW q \in DOMAIN told'
       PROVE  /\ q \in (DOMAIN keys) \X (DOMAIN keys) /\ q[1] # q[2]
              /\ told'[q] \in {-1, 0, 1}
  <2>1. CASE q = p
    <3>1. Answer(ord) \in {-1, 0, 1}
      BY <1>7 DEF Answer
    <3> QED
      BY <1>2, <1>5, <1>8, <2>1, <3>1 DEF AreKeys
  <2>2. CASE q # p
    BY <1>8, <1>9, <2>2 DEF ToldInv
  <2> QED
    BY <2>1, <2>2
<1>11. ASSUME lazy_error' = <<>>
       PROVE  AnswersTrue'
  <2>1. lazy_error = <<>> /\ IsOk(ord)
    BY <1>8, <1>11 DEF LazyError
  <2>2. Answer(ord) = IF cmd.dir = "Asc" THEN ord.val ELSE -ord.val
    BY <2>1 DEF Answer
  <2>3. ASSUME NEW q \in DOMAIN told'
        PROVE  /\ IsOk(Compare(keys, q[1], q[2]))
               /\ told'[q] = IF cmd.dir = "Asc" THEN Compare(keys, q[1], q[2]).val
                             ELSE -Compare(keys, q[1], q[2]).val
    <3>1. CASE q = p
      BY <1>5, <1>6, <1>8, <2>1, <2>2, <3>1
    <3>2. CASE q # p
      BY <1>8, <1>9, <2>1, <3>2 DEF ToldInv, AnswersTrue
    <3> QED
      BY <3>1, <3>2
  <2>4. keys' = keys /\ cmd' = cmd
    BY <1>3
  <2> QED
    BY <2>3, <2>4 DEF AnswersTrue
<1>12. ASSUME lazy_error' # <<>>
       PROVE  \E q \in Clashes(keys) : lazy_error' = <<Compare(keys, q[1], q[2])>>
  <2>1. CASE lazy_error # <<>>
    BY <1>8, <1>9, <2>1 DEF ToldInv, LazyError
  <2>2. CASE lazy_error = <<>>
    <3>1. ~ IsOk(ord) /\ lazy_error' = <<ord>>
      BY <1>8, <1>12, <2>2 DEF LazyError
    <3>2. p \in Clashes(keys) /\ p[1] = i /\ p[2] = j
      BY <1>2, <1>5, <1>6, <3>1 DEF Clashes, AreKeys
    <3> QED
      BY <1>6, <3>1, <3>2
  <2> QED
    BY <2>1, <2>2
<1>13. ToldInv'
  BY <1>3, <1>10, <1>11, <1>12 DEF ToldInv
<1>14. ItemsInv' /\ KeptInv'
  <2>1. Items' = Items
    BY <1>3 DEF Items
  <2> QED
    BY <1>3, <2>1 DEF LoopInv, ItemsInv, KeptInv
<1>15. PhaseInv'
  <2>1. Items' = Items
    BY <1>3 DEF Items
  <2> QED
    BY <1>3, <2>1 DEF LoopInv, PhaseInv
<1>16. ReturnInv'
  BY <1>3 DEF ReturnInv
<1> QED
  BY <1>13, <1>14, <1>15, <1>16 DEF LoopInv

\* The keys are handed to sort_by.
LEMMA AllKeyedInv ==
  ASSUME LoopInv, AllKeyed
  PROVE  LoopInv' /\ ReturnInv'
<1>1. /\ Runs("sort") /\ at > Len(Items) /\ phase' = "sorting"
      /\ UNCHANGED <<cmd, input, at, keys, kept, told, lazy_error, outcome>>
  BY DEF AllKeyed, PastItems
<1>2. /\ Items' = Items /\ IsVec(input) /\ cmd.op = "sort"
      /\ phase = "items"
  BY <1>1 DEF Items, Runs
<1>3. at = Len(Items) + 1
  <2>1. IsTask(cmd, input)
    BY <1>2 DEF LoopInv, ItemsInv, IsTask
  <2>2. PICK n \in Nat : n = Len(Items)
    BY <2>1, TaskItems DEF Items
  <2>3. PICK k \in 1..(n + 1) : k = at
    BY <1>2, <2>2 DEF LoopInv, ItemsInv
  <2> QED
    BY <1>1, <2>2, <2>3
<1>4. ItemsInv' /\ KeptInv'
  BY <1>1, <1>2 DEF LoopInv, ItemsInv, KeptInv
<1>5. PhaseInv'
  BY <1>1, <1>2, <1>3 DEF LoopInv, PhaseInv
<1>6. ToldInv'
  BY <1>1 DEF LoopInv, ToldInv, AnswersTrue
<1>7. ReturnInv'
  BY <1>1 DEF ReturnInv
<1> QED
  BY <1>4, <1>5, <1>6, <1>7 DEF LoopInv

\* The command returns.
LEMMA ReturnStep ==
  ASSUME LoopInv, NEW r, Return(r)
  PROVE  /\ LoopInv' /\ phase' = "done" /\ outcome' = r
         /\ cmd' = cmd /\ input' = input /\ Items' = Items /\ at' = at /\ kept' = kept
         /\ lazy_error' = lazy_error
         /\ Linked' = Linked /\ IsSettled' = IsSettled
         /\ Returnable' = Returnable /\ Rankings' = Rankings
<1>1. /\ phase' = "done" /\ outcome' = r
      /\ UNCHANGED <<cmd, input, at, keys, kept, told, lazy_error>>
  BY DEF Return
<1>2. Items' = Items
  BY <1>1 DEF Items
<1>3. ItemsInv' /\ KeptInv'
  BY <1>1, <1>2 DEF LoopInv, ItemsInv, KeptInv
<1>4. PhaseInv'
  BY <1>1 DEF PhaseInv
<1>5. ToldInv'
  BY <1>1 DEF LoopInv, ToldInv, AnswersTrue
<1>6. Rankings' = Rankings /\ Linked' = Linked
  BY <1>1 DEF Rankings, Linked
<1>7. Settled' = Settled
  BY <1>6 DEF Settled
<1>8. IsSettled' = IsSettled /\ Returnable' = Returnable
  BY <1>1, <1>7 DEF IsSettled, Returnable
<1> QED
  BY <1>1, <1>2, <1>3, <1>4, <1>5, <1>6, <1>8 DEF LoopInv

\* What it returns then is one of the ways it may.
LEMMA ReturnsInv ==
  /\ LoopInv /\ NotAList => LoopInv' /\ ReturnInv'
  /\ LoopInv /\ ItemFails => LoopInv' /\ ReturnInv'
  /\ LoopInv /\ AllKept => LoopInv' /\ ReturnInv'
  /\ LoopInv /\ Take => LoopInv' /\ ReturnInv'
  /\ LoopInv /\ Count => LoopInv' /\ ReturnInv'
<1>1. ASSUME LoopInv, NotAList
      PROVE  LoopInv' /\ ReturnInv'
  <2>1. Return(expect_vector(input)) /\ ~ IsVec(input)
    BY <1>1 DEF NotAList
  <2> QED
    BY <1>1, <2>1, ReturnStep DEF ReturnInv, Returned
<1>2. ASSUME LoopInv, ItemFails
      PROVE  LoopInv' /\ ReturnInv'
  <2>1. /\ Return(KeyOf(Items[at])) /\ at \in DOMAIN Items /\ ~ IsOk(KeyOf(Items[at]))
        /\ IsVec(input) /\ cmd.op \in Loops
    BY <1>2 DEF ItemFails, Runs, Loops
  <2>2. KeyOf(Items[at]) = KeyIn(cmd, Items[at])
    BY DEF KeyOf, KeyIn
  <2>3. /\ LoopInv' /\ outcome' = KeyIn(cmd, Items[at])
        /\ cmd' = cmd /\ input' = input /\ Items' = Items /\ at' = at
    BY <1>2, <2>1, <2>2, ReturnStep
  <2>4. /\ IsVec(input') /\ cmd'.op \in Loops /\ at' \in DOMAIN Items'
        /\ ~ IsOk(KeyIn(cmd', Items'[at'])) /\ outcome' = KeyIn(cmd', Items'[at'])
    BY <2>1, <2>2, <2>3
  <2> QED
    BY <2>3, <2>4 DEF ReturnInv, Returned
<1>3. ASSUME LoopInv, AllKept
      PROVE  LoopInv' /\ ReturnInv'
  <2>1. /\ Return(Ok(VecV(kept))) /\ at > Len(Items)
        /\ IsVec(input) /\ cmd.op \in {"filter", "unique"}
    BY <1>3 DEF AllKept, Runs, PastItems
  <2>2. at = Len(Items) + 1
    <3>1. IsTask(cmd, input)
      BY <1>3, <2>1 DEF LoopInv, ItemsInv, IsTask
    <3>2. PICK n \in Nat : n = Len(Items)
      BY <3>1, TaskItems DEF Items
    <3>3. PICK k \in 1..(n + 1) : k = at
      BY <1>3, <2>1, <3>2 DEF LoopInv, ItemsInv
    <3> QED
      BY <2>1, <3>2, <3>3
  <2> QED
    BY <1>3, <2>1, <2>2, ReturnStep DEF ReturnInv, Returned
<1>4. ASSUME LoopInv, Take
      PROVE  LoopInv' /\ ReturnInv'
  <2>1. Return(eval_limit(Items, cmd.n)) /\ IsVec(input) /\ cmd.op = "take"
    BY <1>4 DEF Take, Runs
  <2> QED
    BY <1>4, <2>1, ReturnStep DEF ReturnInv, Returned
<1>5. ASSUME LoopInv, Count
      PROVE  LoopInv' /\ ReturnInv'
  <2>1. Return(Ok(IntV(Len(Items)))) /\ IsVec(input) /\ cmd.op = "count"
    BY <1>5 DEF Count, Runs
  <2> QED
    BY <1>5, <2>1, ReturnStep DEF ReturnInv, Returned
<1> QED
  BY <1>1, <1>2, <1>3, <1>4, <1>5

\* sort_by returns or panics.
LEMMA SortReturnsInv ==
  /\ LoopInv /\ SortReturns => LoopInv' /\ ReturnInv'
  /\ LoopInv /\ SortPanics => LoopInv' /\ ReturnInv'
<1>1. ASSUME LoopInv, SortReturns
      PROVE  LoopInv' /\ ReturnInv'
  <2>1. PICK o \in Returnable :
          Return(IF lazy_error # <<>> THEN lazy_error[1]
                 ELSE Ok(VecV([n \in DOMAIN o |-> Items[o[n]]])))
    BY <1>1 DEF SortReturns, Returnable
  <2>2. /\ IsVec(input) /\ cmd.op = "sort" /\ at = Len(Items) + 1
        /\ Linked /\ IsSettled
    BY <1>1 DEF SortReturns, LoopInv, PhaseInv
  <2>3. Return(IF lazy_error # <<>> THEN lazy_error[1] ELSE Ok(VecV(Arranged(Items, o))))
    BY <2>1 DEF Arranged
  <2>4. /\ LoopInv' /\ cmd' = cmd /\ input' = input /\ Items' = Items /\ at' = at
        /\ outcome' = (IF lazy_error # <<>> THEN lazy_error[1]
                       ELSE Ok(VecV(Arranged(Items, o))))
        /\ lazy_error' = lazy_error /\ Linked' /\ IsSettled' /\ o \in Returnable'
    <3>1. PICK r : /\ Return(r)
                   /\ r = IF lazy_error # <<>> THEN lazy_error[1]
                          ELSE Ok(VecV(Arranged(Items, o)))
      BY <2>3
    <3>2. /\ LoopInv' /\ cmd' = cmd /\ input' = input /\ Items' = Items /\ at' = at
          /\ outcome' = r /\ lazy_error' = lazy_error
          /\ Linked' = Linked /\ IsSettled' = IsSettled /\ Returnable' = Returnable
      BY <1>1, <3>1, ReturnStep
    <3> QED
      BY <2>1, <2>2, <3>1, <3>2
  <2>5. CASE lazy_error # <<>>
    BY <2>2, <2>4, <2>5 DEF ReturnInv, Returned
  <2>6. CASE lazy_error = <<>>
    <3>1. \E p \in Returnable' : outcome' = Ok(VecV(Arranged(Items', p)))
      BY <2>4, <2>6
    <3> QED
      BY <2>2, <2>4, <2>6, <3>1 DEF ReturnInv, Returned
  <2> QED
    BY <2>5, <2>6
<1>2. ASSUME LoopInv, SortPanics
      PROVE  LoopInv' /\ ReturnInv'
  <2>1. Return(Disorder) /\ Rankings = {}
    BY <1>2 DEF SortPanics
  <2>2. IsVec(input) /\ cmd.op = "sort" /\ at = Len(Items) + 1
    BY <1>2 DEF SortPanics, LoopInv, PhaseInv
  <2> QED
    BY <1>2, <2>1, <2>2, ReturnStep DEF ReturnInv, Returned
<1> QED
  BY <1>1, <1>2

\* Every step keeps it.
LEMMA StepInv ==
  LoopInv /\ ReturnInv /\ [Next]_vars => LoopInv' /\ ReturnInv'
<1> SUFFICES ASSUME LoopInv, ReturnInv, [Next]_vars
             PROVE  LoopInv' /\ ReturnInv'
  OBVIOUS
<1>1. CASE NotAList \/ ItemFails \/ AllKept \/ Take \/ Count
  BY <1>1, ReturnsInv
<1>2. CASE FilterItem
  BY <1>2, FilterItemInv
<1>3. CASE UniqueItem
  BY <1>3, UniqueItemInv
<1>4. CASE SortItem
  BY <1>4, SortItemInv
<1>5. CASE AllKeyed
  BY <1>5, AllKeyedInv
<1>6. CASE Ask
  BY <1>6, AskInv
<1>7. CASE SortReturns \/ SortPanics
  BY <1>7, SortReturnsInv
<1>8. CASE UNCHANGED vars
  <2>1. UNCHANGED <<cmd, input, phase, at, keys, kept, told, lazy_error, outcome>>
    BY <1>8 DEF vars
  <2>2. Items' = Items
    BY <2>1 DEF Items
  <2>3. ItemsInv' /\ KeptInv'
    BY <2>1, <2>2 DEF LoopInv, ItemsInv, KeptInv
  <2>4. PhaseInv' /\ ToldInv'
    BY <2>1, <2>2 DEF LoopInv, PhaseInv, ToldInv, AnswersTrue
  <2>5. Rankings' = Rankings /\ Linked' = Linked
    BY <2>1 DEF Rankings, Linked
  <2>6. Settled' = Settled
    BY <2>5 DEF Settled
  <2>7. IsSettled' = IsSettled /\ Returnable' = Returnable
    BY <2>1, <2>6 DEF IsSettled, Returnable
  <2>8. ReturnInv'
    BY <2>1, <2>2, <2>5, <2>7 DEF ReturnInv, Returned
  <2> QED
    BY <2>3, <2>4, <2>8 DEF LoopInv
<1> QED
  BY <1>1, <1>2, <1>3, <1>4, <1>5, <1>6, <1>7, <1>8 DEF Next

\* The invariant of BuiltinLoops: where the loops are, what sort_by has been
\* told, and the ways a command returns.
THEOREM LoopInvariant == Spec => [](LoopInv /\ ReturnInv)
<1>1. Init => LoopInv /\ ReturnInv
  BY InitInv
<1>2. LoopInv /\ ReturnInv /\ [Next]_vars => LoopInv' /\ ReturnInv'
  BY StepInv
<1> QED
  BY <1>1, <1>2, PTL DEF Spec

-----------------------------------------------------------------------------
(***************************************************************************)
(* What holds of every run.                                                *)
(***************************************************************************)

\* What sort_by was given by the closure as its error is none of two keys.
LEMMA ErrorIsKept ==
  ASSUME LoopInv, Keyed, lazy_error # <<>>
  PROVE  Len(lazy_error) = 1 /\ lazy_error[1].res = "err" /\ ~ IsOk(lazy_error[1])
<1>1. PICK p \in Clashes(keys) : lazy_error = <<Compare(keys, p[1], p[2])>>
  BY DEF LoopInv, ToldInv
<1>2. PICK ord : ord = Compare(keys, p[1], p[2])
  OBVIOUS
<1>3. ord.res \in {"ok", "err"} /\ ~ IsOk(ord)
  <2>1. PICK n : AreKeys(keys, n)
    BY KeyedKeys
  <2>2. IsValue(keys[p[1]]) /\ IsValue(keys[p[2]]) /\ ~ IsOk(ord)
    BY <1>1, <1>2, <2>1 DEF Clashes, AreKeys
  <2> QED
    BY <1>2, <2>2, CompareFacts DEF Compare
<1>4. Len(lazy_error) = 1 /\ lazy_error[1] = ord
  BY <1>1, <1>2
<1> QED
  BY <1>3, <1>4 DEF IsOk

\* The variables have their types.
LEMMA TypesHold ==
  ASSUME LoopInv, ReturnInv
  PROVE  TypeOK
<1>1. phase \in {"items", "sorting", "done"}
  BY DEF LoopInv, ItemsInv
<1>2. ASSUME IsVec(input)
      PROVE  at \in 1..(Len(Items) + 1) /\ Len(keys) < at /\ Len(kept) < at
  <2>1. IsTask(cmd, input)
    BY <1>2 DEF LoopInv, ItemsInv, IsTask
  <2>2. PICK n \in Nat : n = Len(Items)
    BY <2>1, TaskItems DEF Items
  <2>3. PICK k \in 1..(n + 1) : k = at
    BY <1>2, <2>2 DEF LoopInv, ItemsInv
  <2>4. PICK m \in Nat : m = k - 1 /\ m < k
    BY <2>3
  <2>5. StayPlaces(cmd, Items, k) \subseteq 1..m /\ FreshPlaces(cmd, Items, k) \subseteq 1..m
    BY <2>4 DEF StayPlaces, FreshPlaces
  <2>6. \A list : /\ Len(Picked(list, StayPlaces(cmd, Items, k))) < k
                  /\ Len(Picked(list, FreshPlaces(cmd, Items, k))) < k
    <3> SUFFICES ASSUME NEW list
                 PROVE  /\ Len(Picked(list, StayPlaces(cmd, Items, k))) < k
                        /\ Len(Picked(list, FreshPlaces(cmd, Items, k))) < k
      OBVIOUS
    <3>1. /\ Len(Picked(list, StayPlaces(cmd, Items, k))) \in 0..m
          /\ Len(Picked(list, FreshPlaces(cmd, Items, k))) \in 0..m
      BY <2>5, PickedLen
    <3> QED
      BY <2>4, <3>1
  <2>7. Len(<<>>) = 0 /\ 0 < k
    BY <2>3
  <2> DEFINE short == Len(keys) < k /\ Len(kept) < k
  <2>8. ASSUME cmd.op = "filter"
        PROVE  short
    BY <1>2, <2>3, <2>6, <2>7, <2>8 DEF LoopInv, KeptInv
  <2>9. ASSUME cmd.op = "unique"
        PROVE  short
    BY <1>2, <2>3, <2>6, <2>9 DEF LoopInv, KeptInv
  <2>10. ASSUME cmd.op = "sort"
         PROVE  short
    <3>1. kept = <<>> /\ Len(keys) = k - 1
      BY <1>2, <2>3, <2>10 DEF LoopInv, KeptInv
    <3> QED
      BY <2>3, <2>4, <2>7, <3>1
  <2>11. ASSUME cmd.op \notin Loops
         PROVE  short
    BY <1>2, <2>3, <2>7, <2>11 DEF LoopInv, KeptInv
  <2>12. short /\ k \in 1..(n + 1)
    BY <2>3, <2>8, <2>9, <2>10, <2>11 DEF Loops
  <2> QED
    BY <2>2, <2>3, <2>12
<1>3. \A p \in DOMAIN told : told[p] \in {-1, 0, 1} /\ p \in (DOMAIN keys) \X (DOMAIN keys)
  BY DEF LoopInv, ToldInv
<1>4. lazy_error # <<>> => Len(lazy_error) = 1 /\ ~ IsOk(lazy_error[1])
  <2> SUFFICES ASSUME lazy_error # <<>>
               PROVE  Len(lazy_error) = 1 /\ ~ IsOk(lazy_error[1])
    OBVIOUS
  <2>1. PICK p \in Clashes(keys) : lazy_error = <<Compare(keys, p[1], p[2])>>
    BY DEF LoopInv, ToldInv
  <2>2. ~ IsOk(Compare(keys, p[1], p[2]))
    BY DEF Clashes
  <2> QED
    BY <2>1, <2>2
<1>5. outcome.res \in {"ok", "err", "panic"}
  <2>1. CASE phase # "done"
    BY <2>1 DEF LoopInv, PhaseInv, Running, Err
  <2>2. CASE phase = "done" /\ ~ IsVec(input)
    <3>1. outcome = expect_vector(input)
      BY <2>2 DEF ReturnInv, Returned
    <3> QED
      BY <2>2, <3>1 DEF expect_vector, TypeMismatch, Err
  <2>3. CASE phase = "done" /\ IsVec(input)
    <3>1. IsTask(cmd, input)
      BY <2>3 DEF LoopInv, ItemsInv, IsTask
    <3>2. Returned
      BY <2>3 DEF ReturnInv
    <3>3. CASE cmd.op \in Loops /\ at \in DOMAIN Items /\ outcome = KeyIn(cmd, Items[at])
      BY <3>1, <3>3, KeyFacts DEF Items
    <3>4. CASE cmd.op = "sort" /\ at = Len(Items) + 1 /\ lazy_error # <<>> /\ outcome = lazy_error[1]
      BY <2>3, <3>4, AllAreKeyed, ErrorIsKept
    <3>5. CASE \/ outcome = Ok(VecV(kept)) \/ outcome = eval_limit(Items, cmd.n)
               \/ outcome = Ok(IntV(Len(Items))) \/ outcome = Disorder
               \/ \E o \in Returnable : outcome = Ok(VecV(Arranged(Items, o)))
      <4>1. \A x : Ok(x).res = "ok" /\ Panic(x).res = "panic"
        BY DEF Ok, Panic
      <4> QED
        BY <3>5, <4>1 DEF eval_limit, Disorder
    <3> QED
      BY <2>3, <3>2, <3>3, <3>4, <3>5 DEF Returned
  <2> QED
    BY <2>1, <2>2, <2>3
<1> QED
  BY <1>1, <1>2, <1>3, <1>4, <1>5 DEF TypeOK

\* Where the loops and the sort are, and what they hold, has its type.
THEOREM TypeCorrect == Spec => []TypeOK
<1>1. LoopInv /\ ReturnInv => TypeOK
  BY TypesHold
<1> QED
  BY <1>1, LoopInvariant, PTL

\* A command that has returned came to what it comes to as a whole.
LEMMA ReturnedAgrees ==
  ASSUME LoopInv, Returned
  PROVE  outcome \in eval_builtin(cmd, input)
<1>1. CASE ~ IsVec(input)
  <2>1. outcome = expect_vector(input)
    BY <1>1 DEF Returned
  <2>2. ~ IsOk(expect_vector(input))
    BY <1>1 DEF expect_vector, TypeMismatch, Err, IsOk
  <2> QED
    BY <2>1, <2>2 DEF eval_builtin
<1>2. CASE IsVec(input)
  <2>1. IsTask(cmd, input)
    BY <1>2 DEF LoopInv, ItemsInv, IsTask
  <2>2. Len(Items) \in Nat /\ DOMAIN Items = 1..Len(Items)
    BY <2>1, TaskItems DEF Items
  <2>3. /\ cmd.op = "take" => eval_builtin(cmd, input) = {eval_limit(Items, cmd.n)}
        /\ cmd.op = "count" => eval_builtin(cmd, input) = {Ok(IntV(Len(Items)))}
    BY <1>2 DEF eval_builtin, expect_vector, Ok, IsOk, Items
  <2>4. CASE /\ cmd.op \in Loops /\ at \in DOMAIN Items
             /\ ~ IsOk(KeyIn(cmd, Items[at])) /\ outcome = KeyIn(cmd, Items[at])
    <3>1. \A i \in 1..(at - 1) : IsOk(KeyIn(cmd, Items[i]))
      BY <1>2 DEF LoopInv, ItemsInv
    <3> QED
      BY <2>1, <2>4, <3>1, ItemFailure DEF Items
  <2>5. ASSUME cmd.op \in Loops, at = Len(Items) + 1
        PROVE  \A i \in DOMAIN Items : IsOk(KeyIn(cmd, Items[i]))
    <3>1. PICK n \in Nat : n = Len(Items)
      BY <2>2
    <3>2. at - 1 = n
      BY <2>5, <3>1
    <3> QED
      BY <1>2, <2>2, <3>1, <3>2 DEF LoopInv, ItemsInv
  <2>6. CASE cmd.op = "filter" /\ at = Len(Items) + 1 /\ outcome = Ok(VecV(kept))
    <3>1. kept = Picked(Items, StayPlaces(cmd, Items, Len(Items) + 1))
      BY <1>2, <2>6 DEF LoopInv, KeptInv
    <3>2. cmd.op \in Loops
      BY <2>6 DEF Loops
    <3> QED
      BY <2>1, <2>5, <2>6, <3>1, <3>2, NoItemFailure DEF Items
  <2>7. CASE cmd.op = "unique" /\ at = Len(Items) + 1 /\ outcome = Ok(VecV(kept))
    <3>1. kept = Picked(Items, FreshPlaces(cmd, Items, Len(Items) + 1))
      BY <1>2, <2>7 DEF LoopInv, KeptInv
    <3>2. cmd.op \in Loops
      BY <2>7 DEF Loops
    <3> QED
      BY <2>1, <2>5, <2>7, <3>1, <3>2, NoItemFailure DEF Items
  <2>8. CASE cmd.op = "sort" /\ at = Len(Items) + 1
    <3>1. Keyed /\ ToldInv
      BY <1>2, <2>8, AllAreKeyed DEF LoopInv
    <3>2. /\ lazy_error # <<>> => lazy_error[1] \in eval_builtin(cmd, input)
          /\ lazy_error = <<>> /\ Linked /\ IsSettled =>
               \A o \in Returnable : Ok(VecV(Arranged(Items, o))) \in eval_builtin(cmd, input)
          /\ Rankings = {} => Disorder \in eval_builtin(cmd, input)
      BY <3>1, SortAgrees
    <3>3. CASE at \in DOMAIN Items
      <4>1. PICK n \in Nat : n = Len(Items)
        BY <2>2
      <4> QED
        BY <2>2, <2>8, <3>3, <4>1
    <3> QED
      BY <1>2, <2>8, <3>2, <3>3 DEF Returned
  <2> QED
    BY <1>2, <2>3, <2>4, <2>6, <2>7, <2>8 DEF Returned
<1> QED
  BY <1>1, <1>2

\* However a loop ends, and whatever pairs of keys sort_by asks about in
\* whatever order, the command comes to what it comes to as a whole.
THEOREM LoopsAlwaysAgree == Spec => []LoopsAgree
<1>1. LoopInv /\ ReturnInv => LoopsAgree
  BY ReturnedAgrees DEF ReturnInv, LoopsAgree
<1> QED
  BY <1>1, LoopInvariant, PTL

\* What a sort that returned a list had: comparable keys, and an order of the
\* places that is the stable one if the keys can be trusted.
LEMMA ReturnedList ==
  ASSUME LoopInv, ReturnInv, SortedItems
  PROVE  /\ Keyed /\ ToldInv /\ lazy_error = <<>> /\ Linked /\ IsSettled
         /\ \E o \in Returnable : outcome = Ok(VecV(Arranged(Items, o)))
<1>1. phase = "done" /\ cmd.op = "sort" /\ IsOk(outcome) /\ Returned
  BY DEF SortedItems, ReturnInv
<1>2. IsVec(input)
  BY <1>1 DEF Returned, expect_vector, TypeMismatch, Err, IsOk
<1>3. /\ at = Len(Items) + 1
      /\ \/ lazy_error # <<>> /\ outcome = lazy_error[1]
         \/ /\ lazy_error = <<>> /\ Linked /\ IsSettled
            /\ \E o \in Returnable : outcome = Ok(VecV(Arranged(Items, o)))
         \/ Rankings = {} /\ outcome = Disorder
  BY <1>1, <1>2 DEF Returned
<1>4. Keyed /\ ToldInv
  BY <1>1, <1>2, <1>3, AllAreKeyed DEF LoopInv
<1>5. ~ IsOk(Disorder)
  BY DEF Disorder, Panic, IsOk
<1> QED
  BY <1>1, <1>3, <1>4, <1>5, ErrorIsKept

\* It is sorted.
LEMMA SortHolds ==
  ASSUME LoopInv, ReturnInv
  PROVE  SortIsSound
<1> DEFINE dir == cmd.dir
           n == Len(Items)
           key(i) == ValueAt(cmd.expr, Items[i]).val
           rising == IF cmd.dir = "Asc" THEN -1 ELSE 1
           trusted == \/ \A i \in DOMAIN keys : Integral(keys[i])
                      \/ \A i \in DOMAIN keys : InExact(keys[i])
<1> SUFFICES ASSUME SortedItems
             PROVE  \E o \in Orderings(DOMAIN Items) :
                      /\ Payload(outcome.val) = [m \in DOMAIN Items |-> Items[o[m]]]
                      /\ \A m, k \in DOMAIN Items : m < k =>
                           LET ord == compare_values(key(o[m]), key(o[k])) IN
                           /\ IsOk(ord)
                           /\ trusted => ord.val = rising \/ (ord.val = 0 /\ o[m] < o[k])
  BY DEF SortIsSound
<1>1. PICK o \in Returnable :
        /\ Keyed /\ ToldInv /\ lazy_error = <<>> /\ Linked /\ IsSettled
        /\ outcome = Ok(VecV(Arranged(Items, o)))
  BY ReturnedList
<1>2. AreKeys(keys, n) /\ IsDir(dir) /\ DOMAIN Items = 1..n /\ DOMAIN keys = 1..n /\ n \in Nat
  BY <1>1, KeyedKeys DEF AreKeys
<1>3. \A i \in 1..n : keys[i] = key(i)
  BY <1>1, <1>2 DEF Keyed, KeyVals, KeyIn
<1> HIDE DEF n, key, dir
<1>4. o \in Orderings(1..n) /\ (IsWeakOrder(keys, dir) => o = Ordered(TrueRanks(keys, dir)))
  BY <1>1, <1>2, ReturnedOrder DEF dir
<1>5. /\ o \in [1..n -> 1..n]
      /\ \A i, j \in 1..n : o[i] = o[j] => i = j
  BY <1>4 DEF Orderings
<1>6. \A i, j \in 1..n : i # j => IsOk(Compare(keys, i, j))
  BY <1>1, <1>2, LinkedKeysCompare
<1>7. Payload(outcome.val) = [m \in DOMAIN Items |-> Items[o[m]]]
  BY <1>1, <1>2, <1>5 DEF Payload, Ok, VecV, Arranged
<1>8. ASSUME NEW m \in 1..n, NEW k \in 1..n, m < k
      PROVE  LET ord == compare_values(key(o[m]), key(o[k])) IN
             /\ IsOk(ord)
             /\ trusted => ord.val = rising \/ (ord.val = 0 /\ o[m] < o[k])
  <2>1. PICK i \in 1..n, j \in 1..n : i = o[m] /\ j = o[k] /\ i # j
    BY <1>5, <1>8
  <2>2. PICK ord : ord = compare_values(key(o[m]), key(o[k])) /\ ord = Compare(keys, i, j)
    BY <1>3, <2>1 DEF Compare
  <2>3. IsOk(ord)
    BY <1>6, <2>1, <2>2
  <2>4. ASSUME trusted
        PROVE  ord.val = rising \/ (ord.val = 0 /\ o[m] < o[k])
    <3> DEFINE r == TrueRanks(keys, dir)
    <3>1. \/ \A x \in 1..n : Integral(keys[x])
          \/ \A x \in 1..n : InExact(keys[x])
      BY <1>2, <2>4
    <3>2. IsWeakOrder(keys, dir)
      BY <1>2, <1>6, <3>1, TrustedIsWeakOrder
    <3>3. /\ r \in [1..n -> 1..n]
          /\ r[i] < r[j] <=> Before(keys, dir, i, j)
          /\ r[i] = r[j] <=> ~ Before(keys, dir, i, j) /\ ~ Before(keys, dir, j, i)
      BY <1>2, <3>2, TrueRanksTell
    <3> HIDE DEF r
    <3>4. o = Ordered(r)
      BY <1>4, <3>2 DEF r
    <3>5. r[o[m]] < r[o[k]] \/ (r[o[m]] = r[o[k]] /\ o[m] < o[k])
      BY <1>2, <1>8, <3>3, <3>4, OrderedRises
    <3>6. \/ Before(keys, dir, i, j)
          \/ ~ Before(keys, dir, i, j) /\ ~ Before(keys, dir, j, i) /\ o[m] < o[k]
      BY <2>1, <3>3, <3>5
    <3>7. /\ ord.val \in {-1, 0, 1} /\ IsOk(Compare(keys, j, i))
          /\ Compare(keys, j, i).val = -ord.val
      BY <1>2, <2>1, <2>2, <2>3, CompareFacts DEF AreKeys, Compare
    <3>8. /\ Before(keys, dir, i, j) <=> ord.val = rising
          /\ Before(keys, dir, j, i) <=> -ord.val = rising
      BY <2>2, <2>3, <3>7 DEF Before, dir
    <3> QED
      BY <3>6, <3>7, <3>8
  <2> QED
    BY <2>2, <2>3, <2>4
<1> QED
  BY <1>2, <1>4, <1>7, <1>8

\* However sort_by asks, a list that sort returns has every item once, and if
\* the keys are integers, or those that are go into a decimal exactly, it is in
\* the stable order.
THEOREM SortAlwaysSound == Spec => []SortIsSound
<1>1. LoopInv /\ ReturnInv => SortIsSound
  BY SortHolds
<1> QED
  BY <1>1, LoopInvariant, PTL

\* What `in` says of a list.
LEMMA InAList ==
  ASSUME NEW v, NEW list, vec_contains(list, v)
  PROVE  eval_binary("In", v, VecV(list)) = Ok(BoolV(TRUE))
<1>1. IsVec(VecV(list)) /\ Payload(VecV(list)) = list /\ Tag(VecV(list)) # "str"
  BY DEF IsVec, VecV, Tag, Payload
<1>2. vec_contains(Payload(VecV(list)), v) = TRUE
  BY <1>1 DEF vec_contains
<1>3. membership(VecV(list), v, VecV(list)) = Ok(BoolV(vec_contains(Payload(VecV(list)), v)))
  BY <1>1 DEF membership
<1>4. eval_binary("In", v, VecV(list)) = membership(VecV(list), v, VecV(list))
  BY DEF eval_binary, Orders
<1> QED
  BY <1>2, <1>3, <1>4

\* unique keeps the first item of every key.
LEMMA UniqueHolds ==
  ASSUME LoopInv, ReturnInv
  PROVE  UniqueCovers
<1> DEFINE list == Payload(outcome.val)
           key(i) == KeyOf(Items[i]).val
<1> SUFFICES ASSUME phase = "done", cmd.op = "unique", IsOk(outcome)
             PROVE  \E o \in [DOMAIN list -> DOMAIN Items] :
                      /\ \A m \in DOMAIN list : list[m] = Items[o[m]]
                      /\ \A m, k \in DOMAIN list :
                           m < k => o[m] < o[k] /\ ~ ValueEq(key(o[m]), key(o[k]))
                      /\ \A i \in DOMAIN Items :
                           IF HoldsNaN(key(i)) THEN \E m \in DOMAIN list : o[m] = i
                           ELSE eval_binary("In", key(i), VecV([m \in DOMAIN list |-> key(o[m])]))
                                  = Ok(BoolV(TRUE))
  BY DEF UniqueCovers
<1>1. Returned
  BY DEF ReturnInv
<1>2. IsVec(input)
  BY <1>1 DEF Returned, expect_vector, TypeMismatch, Err, IsOk
<1>3. at = Len(Items) + 1 /\ outcome = Ok(VecV(kept))
  BY <1>1, <1>2 DEF Returned
<1>4. IsTask(cmd, input)
  BY <1>2 DEF LoopInv, ItemsInv, IsTask
<1>5. PICK n \in Nat : n = Len(Items) /\ DOMAIN Items = 1..n /\ at - 1 = n
  <2>1. PICK n \in Nat : n = Len(Items) /\ DOMAIN Items = 1..n
    BY <1>4, TaskItems DEF Items
  <2>2. at - 1 = n
    BY <1>3, <2>1
  <2> QED
    BY <2>1, <2>2
<1> DEFINE S == FreshPlaces(cmd, Items, at)
<1>6. list = kept
  BY <1>3 DEF Payload, Ok, VecV
<1>7. kept = Picked(Items, S) /\ Covered(cmd, Items, at)
  BY <1>2 DEF LoopInv, KeptInv
<1>8. \A i : key(i) = KeyIn(cmd, Items[i]).val
  BY DEF KeyOf, KeyIn
<1> HIDE DEF list, key
<1>9. /\ S \subseteq 1..n
      /\ \A i \in 1..n : i \in S <=> \A j \in 1..(i - 1) : ~ ValueEq(key(j), key(i))
  BY <1>5, <1>8 DEF FreshPlaces, Fresh
<1>10. \A i \in 1..n : ~ HoldsNaN(key(i)) => \E j \in S : ValueEq(key(j), key(i))
  BY <1>5, <1>7, <1>8 DEF Covered
<1> HIDE DEF S
<1>11. PICK o : Enumerates(o, S) /\ HasItemsAt(list, Items, o)
  BY <1>6, <1>7, <1>9, PickedFacts
<1> DEFINE N == Cardinality(S)
<1>12. /\ DOMAIN list = 1..N
       /\ o \in [1..N -> S]
       /\ \A m, k \in 1..N : m < k => o[m] < o[k]
       /\ \A i \in S : \E m \in 1..N : o[m] = i
       /\ \A m \in 1..N : list[m] = Items[o[m]]
  BY <1>11 DEF Enumerates, HasItemsAt
<1>13. o \in [DOMAIN list -> DOMAIN Items]
  BY <1>5, <1>9, <1>12
<1>14. ASSUME NEW m \in DOMAIN list, NEW k \in DOMAIN list, m < k
       PROVE  o[m] < o[k] /\ ~ ValueEq(key(o[m]), key(o[k]))
  <2>1. PICK i \in 1..n, j \in 1..n : i = o[m] /\ j = o[k] /\ i < j /\ j \in S
    BY <1>9, <1>12, <1>14
  <2>2. i \in 1..(j - 1)
    BY <2>1
  <2> QED
    BY <1>9, <2>1, <2>2
<1>15. ASSUME NEW i \in DOMAIN Items, HoldsNaN(key(i))
       PROVE  \E m \in DOMAIN list : o[m] = i
  <2>1. \A j \in 1..(i - 1) : ~ ValueEq(key(j), key(i))
    BY <1>15 DEF ValueEq
  <2>2. i \in S
    BY <1>5, <1>9, <2>1
  <2> QED
    BY <1>12, <2>2
<1>16. ASSUME NEW i \in DOMAIN Items, ~ HoldsNaN(key(i))
       PROVE  eval_binary("In", key(i), VecV([m \in DOMAIN list |-> key(o[m])]))
                = Ok(BoolV(TRUE))
  <2> DEFINE L == [m \in DOMAIN list |-> key(o[m])]
  <2>1. PICK j \in S : ValueEq(key(j), key(i))
    BY <1>5, <1>10, <1>16
  <2>2. PICK m \in DOMAIN list : o[m] = j
    BY <1>12
  <2>3. m \in DOMAIN L /\ L[m] = key(j)
    BY <2>2
  <2> HIDE DEF L
  <2>4. vec_contains(L, key(i))
    BY <2>1, <2>3 DEF vec_contains
  <2>5. eval_binary("In", key(i), VecV(L)) = Ok(BoolV(TRUE))
    BY <2>4, InAList
  <2> QED
    BY <2>5 DEF L
<1> QED
  BY <1>12, <1>13, <1>14, <1>15, <1>16

\* unique returns the first item of every key, in their order, and every key of
\* the input is `in` the keys of what it returns.
THEOREM UniqueAlwaysCovers == Spec => []UniqueCovers
<1>1. LoopInv /\ ReturnInv => UniqueCovers
  BY UniqueHolds
<1> QED
  BY <1>1, LoopInvariant, PTL

-----------------------------------------------------------------------------
(***************************************************************************)
(* Laws of the operators.                                                  *)
(***************************************************************************)

\* The items at hand are values.
LEMMA PairsAreValues ==
  ASSUME LoopInv, NEW p \in Pairs
  PROVE  p = <<p[1], p[2]>> /\ IsValue(p[1]) /\ IsValue(p[2])
<1>1. IsVec(input) /\ \E i, j \in DOMAIN Items : p = <<Items[i], Items[j]>>
  BY DEF Pairs
<1>2. IsTask(cmd, input)
  BY <1>1 DEF LoopInv, ItemsInv, IsTask
<1>3. \A i \in DOMAIN Items : IsValue(Items[i])
  BY <1>2, TaskItems DEF Items
<1> QED
  BY <1>1, <1>3

\* What the comparing operators make of an order.
LEMMA OrderedIs ==
  ASSUME NEW l, NEW r, IsValue(l), IsValue(r)
  PROVE  LET ord == compare_values(l, r) IN
         /\ \A op \in {"Lt", "Gt", "Le", "Ge"} : IsOk(eval_binary(op, l, r)) <=> IsOk(ord)
         /\ IsOk(ord) =>
              /\ True("Lt", <<l, r>>) <=> ord.val = -1
              /\ True("Gt", <<l, r>>) <=> ord.val = 1
              /\ True("Le", <<l, r>>) <=> ord.val \in {-1, 0}
              /\ True("Ge", <<l, r>>) <=> ord.val \in {0, 1}
         /\ True("Eq", <<l, r>>) <=> ValueEq(l, r)
         /\ True("Ne", <<l, r>>) <=> ~ ValueEq(l, r)
<1>1. PICK ord : ord = compare_values(l, r)
  OBVIOUS
<1>2. \A op \in {"Lt", "Gt", "Le", "Ge"} :
        eval_binary(op, l, r) = IF IsOk(ord) THEN Ok(BoolV(ord.val \in Orders[op])) ELSE ord
  BY <1>1 DEF eval_binary, ordered, Orders
<1>3. \A x : IsOk(Ok(x))
  BY DEF Ok, IsOk
<1>4. \A op \in {"Lt", "Gt", "Le", "Ge"} : IsOk(eval_binary(op, l, r)) <=> IsOk(ord)
  BY <1>2, <1>3
<1>5. ASSUME NEW a \in BOOLEAN
      PROVE  Ok(BoolV(a)) = Ok(BoolV(TRUE)) <=> a
  BY DEF Ok, BoolV
<1>6. ASSUME IsOk(ord), NEW op \in {"Lt", "Gt", "Le", "Ge"}
      PROVE  True(op, <<l, r>>) <=> ord.val \in Orders[op]
  <2>1. PICK a \in BOOLEAN : a <=> ord.val \in Orders[op]
    OBVIOUS
  <2>2. eval_binary(op, l, r) = Ok(BoolV(a))
    BY <1>2, <1>6, <2>1
  <2> QED
    BY <1>5, <2>1, <2>2 DEF True
<1>7. /\ Orders["Lt"] = {-1} /\ Orders["Gt"] = {1}
      /\ Orders["Le"] = {-1, 0} /\ Orders["Ge"] = {0, 1}
  BY DEF Orders
<1>8. /\ eval_binary("Eq", l, r) = Ok(BoolV(ValueEq(l, r)))
      /\ eval_binary("Ne", l, r) = Ok(BoolV(~ ValueEq(l, r)))
  BY DEF eval_binary, Orders
<1>9. ValueEq(l, r) \in BOOLEAN
  BY DEF ValueEq
<1>10. /\ True("Eq", <<l, r>>) <=> ValueEq(l, r)
       /\ True("Ne", <<l, r>>) <=> ~ ValueEq(l, r)
  BY <1>5, <1>8, <1>9 DEF True
<1> QED
  BY <1>1, <1>4, <1>6, <1>7, <1>10

\* A tie between values that are not equal is between an integer and a decimal;
\* equal values that can be compared tie.
LEMMA TiesAndEquals ==
  ASSUME NEW l, NEW r, IsValue(l), IsValue(r), IsOk(compare_values(l, r))
  PROVE  /\ ValueEq(l, r) => compare_values(l, r).val = 0
         /\ compare_values(l, r).val = 0 /\ ~ ValueEq(l, r) =>
              {Tag(l), Tag(r)} = {"int", "float"}
<1>1. Comparable(l, r)
  BY CompareFacts
<1>2. compare_values(l, r).val = 0 <=> SameRank(l, r)
  BY DEF SameRank
<1>3. CASE IsStr(l) /\ IsStr(r)
  <2>1. SameRank(l, r) <=> l[2] = r[2]
    BY <1>3, StrOrder
  <2>2. l = StrV(l[2]) /\ r = StrV(r[2])
    BY <1>3, ValueShapes
  <2>3. ~ HoldsNaN(l)
    <3>1. l # NaNV
      BY <1>3 DEF IsStr, NaNV, Tag
    <3> QED
      BY <1>3, <3>1 DEF IsValue, IsStr
  <2> QED
    BY <1>2, <2>1, <2>2, <2>3 DEF ValueEq
<1>4. CASE IsReal(l) /\ IsReal(r)
  <2>1. ~ HoldsNaN(l)
    BY <1>4 DEF IsValue, IsReal, IsNum
  <2>2. CASE Tag(l) = "int" /\ Tag(r) = "int"
    <3>1. SameRank(l, r) <=> l[2] = r[2]
      BY <1>4, <2>2, RealOrder
    <3>2. l = IntV(l[2]) /\ r = IntV(r[2])
      BY <2>2, ValueShapes
    <3> QED
      BY <1>2, <2>1, <3>1, <3>2 DEF ValueEq
  <2>3. CASE Tag(l) # "int" /\ Tag(r) # "int"
    <3>1. SameRank(l, r) <=> Halves(l) = Halves(r)
      BY <1>4, <2>3, RealOrder
    <3>2. Halves(l) = l[3] /\ Halves(r) = r[3] /\ l = DecV(l[3]) /\ r = DecV(r[3])
      BY <1>4, <2>3, ValueShapes DEF Halves
    <3> QED
      BY <1>2, <2>1, <3>1, <3>2 DEF ValueEq
  <2>4. CASE ~ (Tag(l) = "int" <=> Tag(r) = "int")
    <3>1. {Tag(l), Tag(r)} = {"int", "float"} /\ l # r
      BY <1>4, <2>4 DEF IsReal, IsNum
    <3> QED
      BY <3>1 DEF ValueEq
  <2> QED
    BY <2>2, <2>3, <2>4
<1> QED
  BY <1>1, <1>3, <1>4 DEF Comparable

\* == does not contradict the order of the values at hand.
LEMMA OrderHolds ==
  ASSUME LoopInv
  PROVE  OrderAgainstEquality
<1> SUFFICES ASSUME NEW p \in Pairs
             PROVE  LET back == <<p[2], p[1]>>
                        tie  == True("Le", p) /\ True("Ge", p)
                    IN  IF IsOk(eval_binary("Lt", p[1], p[2]))
                          THEN /\ Cardinality({o \in {"lt", "gt", "tie"} :
                                     \/ o = "lt" /\ True("Lt", p) /\ True("Gt", back) /\ ~ True("Ge", p)
                                     \/ o = "gt" /\ True("Gt", p) /\ True("Lt", back) /\ ~ True("Le", p)
                                     \/ o = "tie" /\ tie}) = 1
                               /\ True("Eq", p) => tie
                               /\ tie /\ True("Ne", p) => {Tag(p[1]), Tag(p[2])} = {"int", "float"}
                          ELSE ~ IsOk(eval_binary("Gt", p[2], p[1]))
  BY DEF OrderAgainstEquality
<1>1. PICK l, r : p = <<l, r>> /\ l = p[1] /\ r = p[2] /\ IsValue(l) /\ IsValue(r)
  BY PairsAreValues
<1> DEFINE v == compare_values(l, r).val
           back == <<r, l>>
           holds(o) == \/ o = "lt" /\ True("Lt", p) /\ True("Gt", back) /\ ~ True("Ge", p)
                       \/ o = "gt" /\ True("Gt", p) /\ True("Lt", back) /\ ~ True("Le", p)
                       \/ o = "tie" /\ True("Le", p) /\ True("Ge", p)
           found == {o \in {"lt", "gt", "tie"} : holds(o)}
<1>2. /\ IsOk(eval_binary("Lt", l, r)) <=> IsOk(compare_values(l, r))
      /\ IsOk(eval_binary("Gt", r, l)) <=> IsOk(compare_values(r, l))
      /\ IsOk(compare_values(l, r)) <=> IsOk(compare_values(r, l))
  BY <1>1, OrderedIs, CompareFacts
<1>3. ASSUME IsOk(compare_values(l, r))
      PROVE  /\ Cardinality(found) = 1
             /\ True("Eq", p) => True("Le", p) /\ True("Ge", p)
             /\ True("Le", p) /\ True("Ge", p) /\ True("Ne", p) =>
                  {Tag(l), Tag(r)} = {"int", "float"}
  <2>1. PICK x \in {-1, 0, 1} :
          x = v /\ IsOk(compare_values(r, l)) /\ compare_values(r, l).val = -x
    BY <1>1, <1>3, CompareFacts
  <2>2. /\ True("Lt", p) <=> x = -1
        /\ True("Gt", p) <=> x = 1
        /\ True("Le", p) <=> x \in {-1, 0}
        /\ True("Ge", p) <=> x \in {0, 1}
        /\ True("Eq", p) <=> ValueEq(l, r)
        /\ True("Ne", p) <=> ~ ValueEq(l, r)
    BY <1>1, <1>3, <2>1, OrderedIs
  <2>3. True("Lt", back) <=> x = 1
    BY <1>1, <2>1, OrderedIs
  <2>4. True("Gt", back) <=> x = -1
    BY <1>1, <2>1, OrderedIs
  <2>5. /\ holds("lt") <=> x = -1
        /\ holds("gt") <=> x = 1
        /\ holds("tie") <=> x = 0
    BY <2>2, <2>3, <2>4
  <2> HIDE DEF holds
  <2>6. \E o : found = {o}
    <3>1. CASE x = -1
      BY <2>5, <3>1
    <3>2. CASE x = 1
      BY <2>5, <3>2
    <3>3. CASE x = 0
      BY <2>5, <3>3
    <3> QED
      BY <3>1, <3>2, <3>3
  <2>7. Cardinality(found) = 1
    BY <2>6, FS_Singleton
  <2> HIDE DEF found
  <2> QED
    BY <1>1, <1>3, <2>1, <2>2, <2>7, TiesAndEquals
<1> QED
  BY <1>1, <1>2, <1>3

\* Of comparable values exactly one of <, > and "neither" holds; equal values
\* tie, and values that tie without being equal are an integer and a decimal.
THEOREM OrderAlwaysAgrees == Spec => []OrderAgainstEquality
<1>1. LoopInv /\ ReturnInv => OrderAgainstEquality
  BY OrderHolds
<1> QED
  BY <1>1, LoopInvariant, PTL

\* Truncating division gives its dividend back; of integers that have a width
\* the parts have it too.
LEMMA QuotRem ==
  ASSUME NEW a \in Int, NEW b \in Int, b # 0
  PROVE  /\ Quot(a, b) \in Int /\ Rem(a, b) \in Int
         /\ Quot(a, b) * b + Rem(a, b) = a
         /\ IF a < 0 THEN Quot(a, b) * b \in a..0 ELSE Quot(a, b) * b \in 0..a
         /\ AbsOf(Rem(a, b)) < AbsOf(b)
         /\ SignOf(Rem(a, b)) \in {0, SignOf(a)}
<1> DEFINE A == AbsOf(a)
           B == AbsOf(b)
<1>1. A \in Nat /\ B \in Nat \ {0}
  BY DEF AbsOf
<1>2. PICK k \in Nat, m \in Nat : k = A \div B /\ m = A % B
  BY <1>1
<1>3. A = B * k + m /\ m < B
  <2> HIDE DEF A, B
  <2>1. A = B * (A \div B) + (A % B)
    BY <1>1
  <2>2. A % B < B
    BY <1>1
  <2> QED
    BY <1>2, <2>1, <2>2
<1>4. PICK c \in Nat : c = B * k
  BY <1>1
<1>5. A = c + m /\ c \in 0..A
  BY <1>1, <1>3, <1>4
<1>6. Quot(a, b) = SignOf(a) * SignOf(b) * k
  BY <1>2 DEF Quot
<1>7. CASE a = 0
  <2>1. A = 0 /\ c = 0 /\ m = 0
    BY <1>5, <1>7 DEF AbsOf
  <2>2. Quot(a, b) = 0
    BY <1>6, <1>7 DEF SignOf
  <2>3. Rem(a, b) = 0
    BY <1>7, <2>2 DEF Rem
  <2> QED
    BY <1>1, <1>7, <2>2, <2>3 DEF SignOf, AbsOf
<1>8. CASE a > 0 /\ b > 0
  <2>1. A = a /\ B = b /\ Quot(a, b) = k /\ c = b * k /\ c = k * b
    BY <1>4, <1>6, <1>8 DEF AbsOf, SignOf
  <2>2. Rem(a, b) = m
    BY <1>5, <2>1 DEF Rem
  <2> QED
    BY <1>3, <1>5, <1>8, <2>1, <2>2 DEF SignOf, AbsOf
<1>9. CASE a > 0 /\ b < 0
  <2>1. A = a /\ B = -b /\ Quot(a, b) = -k /\ c = (-b) * k
    BY <1>4, <1>6, <1>9 DEF AbsOf, SignOf
  <2>2. c = b * (-k) /\ c = (-k) * b
    BY <2>1
  <2>3. Rem(a, b) = m
    BY <1>5, <2>1, <2>2 DEF Rem
  <2> QED
    BY <1>3, <1>5, <1>9, <2>1, <2>2, <2>3 DEF SignOf, AbsOf
<1>10. CASE a < 0 /\ b > 0
  <2>1. A = -a /\ B = b /\ Quot(a, b) = -k /\ c = b * k
    BY <1>4, <1>6, <1>10 DEF AbsOf, SignOf
  <2>2. -c = b * (-k) /\ -c = (-k) * b
    BY <2>1
  <2>3. Rem(a, b) = -m
    BY <1>5, <2>1, <2>2 DEF Rem
  <2> QED
    BY <1>3, <1>5, <1>10, <2>1, <2>2, <2>3 DEF SignOf, AbsOf
<1>11. CASE a < 0 /\ b < 0
  <2>1. A = -a /\ B = -b /\ Quot(a, b) = k /\ c = (-b) * k
    BY <1>4, <1>6, <1>11 DEF AbsOf, SignOf
  <2>2. -c = b * k /\ -c = k * b
    BY <2>1
  <2>3. Rem(a, b) = -m
    BY <1>5, <2>1, <2>2 DEF Rem
  <2> QED
    BY <1>3, <1>5, <1>11, <2>1, <2>2, <2>3 DEF SignOf, AbsOf
<1> QED
  BY <1>7, <1>8, <1>9, <1>10, <1>11

\* Integers at hand divide as the law says.
LEMMA IntsDivide ==
  ASSUME NEW l, NEW r, IsValue(l), IsValue(r), Tag(l) = "int", Tag(r) = "int",
         IsOk(eval_binary("Div", l, r))
  PROVE  LET q == eval_binary("Div", l, r).val
             m == eval_binary("Mod", l, r).val
             product == eval_binary("Mul", q, r)
         IN  /\ eval_binary("DivDiv", l, r) = Ok(q)
             /\ IsOk(product) /\ eval_binary("Add", product.val, m) = Ok(l)
             /\ AbsOf(m[2]) < AbsOf(r[2])
             /\ SignOf(m[2]) \in {0, SignOf(l[2])}
<1>1. PICK low \in Int, high \in Int : /\ low = MinInt /\ high = MaxInt
                                       /\ low < 0 /\ high >= 0
  BY NumbersAssumption DEF MinInt, MaxInt
<1>2. PICK a \in low..high, b \in low..high : l = IntV(a) /\ r = IntV(b)
  BY <1>1 DEF IsValue
<1>3. a \in Int /\ b \in Int
  OBVIOUS
<1>4. \A x : Tag(IntV(x)) = "int" /\ IntV(x)[2] = x
  BY DEF Tag, IntV
<1>5. \A x : IsOk(Ok(x)) /\ Ok(x).val = x /\ ~ IsOk(Panic(x))
  BY DEF IsOk, Ok, Panic
<1>6. \A op \in {"Add", "Mul", "Div", "DivDiv", "Mod"} : \A x, y :
        eval_binary(op, IntV(x), IntV(y)) = int_op(op, x, y)
  BY <1>4 DEF eval_binary, Orders, numeric_op, IsNum
<1>7. b # 0 /\ ~ (a = MinInt /\ b = -1)
  <2>1. IsOk(int_op("Div", a, b))
    BY <1>2, <1>6
  <2> QED
    BY <1>5, <2>1 DEF int_op
<1> DEFINE k == Quot(a, b)
           m == Rem(a, b)
<1>8. /\ int_op("Div", a, b) = Ok(IntV(k))
      /\ int_op("DivDiv", a, b) = Ok(IntV(k))
      /\ int_op("Mod", a, b) = Ok(IntV(m))
  BY <1>7 DEF int_op
<1>9. /\ k \in Int /\ m \in Int
      /\ k * b + m = a
      /\ IF a < 0 THEN k * b \in a..0 ELSE k * b \in 0..a
      /\ AbsOf(m) < AbsOf(b)
      /\ SignOf(m) \in {0, SignOf(a)}
  BY <1>3, <1>7, QuotRem
<1> HIDE DEF k, m
<1>10. PICK c \in Int : c = k * b
  BY <1>3, <1>9
<1>11. c \in low..high /\ c + m = a
  BY <1>1, <1>9, <1>10
<1>12. \A x \in low..high : Fit(x) = Ok(IntV(x))
  BY <1>1 DEF Fit
<1>13. int_op("Mul", k, b) = Ok(IntV(c)) /\ int_op("Add", c, m) = Ok(IntV(a))
  BY <1>10, <1>11, <1>12 DEF int_op
<1>14. /\ eval_binary("Div", l, r) = Ok(IntV(k))
       /\ eval_binary("DivDiv", l, r) = Ok(IntV(k))
       /\ eval_binary("Mod", l, r) = Ok(IntV(m))
       /\ eval_binary("Mul", IntV(k), r) = Ok(IntV(c))
       /\ eval_binary("Add", IntV(c), IntV(m)) = Ok(l)
  BY <1>2, <1>6, <1>8, <1>13
<1> QED
  BY <1>2, <1>4, <1>5, <1>9, <1>14

\* Quotient and remainder of two integers at hand, when there are any, rebuild
\* the dividend without an overflow, in every build and at any width.
THEOREM DivisionAlwaysRebuilds == Spec => []DivisionRebuilds
<1>1. LoopInv => DivisionRebuilds
  BY PairsAreValues, IntsDivide DEF DivisionRebuilds
<1> QED
  BY <1>1, LoopInvariant, PTL
=============================================================================

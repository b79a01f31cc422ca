---------------------------- MODULE ListsProofs ----------------------------
(***************************************************************************)
(* Facts about the list operators of Lists, for sequences of every length. *)
(***************************************************************************)
EXTENDS Lists, FiniteSetTheorems, SequenceTheorems, WellFoundedInduction, TLAPS

\* A nonempty set of naturals has a least element: what holds of no least one
\* holds of none.
LEMMA LeastNatural ==
  ASSUME NEW S \in SUBSET Nat, S # {}
  PROVE  \E x \in S : \A y \in S : x <= y
<1>1. PICK x \in S : \A y \in S : ~(<<y, x>> \in OpToRel(<, Nat))
  BY NatLessThanWellFounded, WFMin, Zenon
<1>2. \A y \in S : ~(y < x)
  BY <1>1 DEF OpToRel
<1>3. \A y \in S : x <= y
  BY <1>2
<1>. QED
  BY <1>3

\* The size of an interval of list positions.
LEMMA IntervalSize ==
  ASSUME NEW n \in Nat
  PROVE  IsFiniteSet(1..n) /\ Cardinality(1..n) = n
  BY FS_Interval

\* The positions a walk over a C list selects are finitely many, between 1 and
\* the length of the list.
LEMMA PositionsFinite ==
  ASSUME NEW X, NEW q \in Seq(X), NEW S
  PROVE  /\ Positions(q, S) \subseteq 1..Len(q)
         /\ Positions(q, S) \subseteq Nat
         /\ IsFiniteSet(Positions(q, S))
         /\ Cardinality(Positions(q, S)) \in Nat
         /\ Cardinality(Positions(q, S)) <= Len(q)
<1>1. Len(q) \in Nat
  OBVIOUS
<1>2. Positions(q, S) \subseteq 1..Len(q) /\ Positions(q, S) \subseteq Nat
  BY <1>1 DEF Positions
<1>3. IsFiniteSet(1..Len(q)) /\ Cardinality(1..Len(q)) = Len(q)
  BY <1>1, FS_Interval, SMTT(30)
<1>4. /\ IsFiniteSet(Positions(q, S))
      /\ Cardinality(Positions(q, S)) <= Cardinality(1..Len(q))
  BY <1>2, <1>3, FS_Subset
<1> QED
  BY <1>1, <1>2, <1>3, <1>4, FS_CardinalityType

\* Among the members of a finite set of numbers, a larger one has a larger rank.
LEMMA RankMonotonic ==
  ASSUME NEW I \in SUBSET Nat, IsFiniteSet(I), NEW i \in I, NEW j \in I, i < j
  PROVE  Rank(I, i) < Rank(I, j)
<1> DEFINE A == {m \in I : m <= i}
           B == {m \in I : m <= j}
<1>1. IsFiniteSet(B) /\ Cardinality(B) \in Nat
  BY FS_Subset, FS_CardinalityType
<1>2. A \subseteq B /\ j \in B /\ j \notin A
  <2>1. i \in Nat /\ j \in Nat /\ \A m \in I : m \in Nat
    OBVIOUS
  <2>2. \A m \in I : m <= i => m <= j
    BY <2>1
  <2>3. j <= j /\ ~(j <= i)
    BY <2>1
  <2> QED
    BY <2>2, <2>3
<1>3. /\ IsFiniteSet(A)
      /\ Cardinality(A) <= Cardinality(B)
      /\ Cardinality(B) = Cardinality(A) => B = A
  BY <1>1, <1>2, FS_Subset
<1>4. Cardinality(A) \in Nat
  BY <1>3, FS_CardinalityType
<1>5. Cardinality(A) # Cardinality(B)
  BY <1>2, <1>3
<1> QED
  BY <1>1, <1>3, <1>4, <1>5 DEF Rank

\* Every rank from 1 to the size of the set is taken, so Nth is well defined.
LEMMA NthExists ==
  ASSUME NEW I \in SUBSET Nat, IsFiniteSet(I), NEW k \in 1..Cardinality(I)
  PROVE  Nth(I, k) \in I /\ Rank(I, Nth(I, k)) = k
<1> DEFINE n == Cardinality(I)
           f == [i \in I |-> Rank(I, i)]
<1>1. n \in Nat
  BY FS_CardinalityType
<1>2. \A i \in I : Rank(I, i) \in 1..n
  <2> SUFFICES ASSUME NEW i \in I PROVE Rank(I, i) \in 1..n
    OBVIOUS
  <2> DEFINE A == {m \in I : m <= i}
  <2>1. IsFiniteSet(A) /\ Cardinality(A) <= n /\ i \in A
    BY FS_Subset
  <2>2. Cardinality(A) \in Nat /\ Cardinality(A) # 0
    BY <2>1, FS_CardinalityType, FS_EmptySet
  <2> QED
    BY <2>1, <2>2, <1>1 DEF Rank
<1>3. \A i, j \in I : Rank(I, i) = Rank(I, j) => i = j
  <2> SUFFICES ASSUME NEW i \in I, NEW j \in I, i # j
               PROVE  Rank(I, i) # Rank(I, j)
    OBVIOUS
  <2>1. i < j \/ j < i
    OBVIOUS
  <2>2. Rank(I, i) < Rank(I, j) \/ Rank(I, j) < Rank(I, i)
    BY <2>1, RankMonotonic
  <2> QED
    BY <2>2, <1>2
<1>4. f \in Injection(I, 1..n)
  <2>1. f \in [I -> 1..n]
    BY <1>2
  <2>2. \A a, b \in I : f[a] = f[b] => a = b
    BY <1>3
  <2> HIDE DEF f
  <2> QED
    BY <2>1, <2>2 DEF Injection, IsInjective
<1>5. IsFiniteSet(1..n) /\ Cardinality(1..n) = n
  BY <1>1, FS_Interval
<1>6. f \in Surjection(I, 1..n)
  <2> HIDE DEF f
  <2> QED BY <1>4, <1>5, FS_Injection
<1>7. \E i \in I : f[i] = k
  <2> HIDE DEF f
  <2> QED BY <1>6 DEF Surjection
<1>8. \E i \in I : Rank(I, i) = k
  BY <1>7
<1> QED
  BY <1>8 DEF Nth

\* A filtered list is a list of the same type, as long as the number of
\* selected positions, and keeps the order of the list it came from.
LEMMA FilterProperties ==
  ASSUME NEW X, NEW q \in Seq(X), NEW S
  PROVE  /\ Filter(q, S) \in Seq(X)
         /\ Len(Filter(q, S)) = Cardinality(Positions(q, S))
         /\ \A k \in 1..Len(Filter(q, S)) :
              /\ Nth(Positions(q, S), k) \in Positions(q, S)
              /\ Filter(q, S)[k] = q[Nth(Positions(q, S), k)]
         /\ \A k, m \in 1..Len(Filter(q, S)) :
              k < m => Nth(Positions(q, S), k) < Nth(Positions(q, S), m)
<1> DEFINE I == Positions(q, S)
           n == Cardinality(I)
<1>1. I \subseteq 1..Len(q) /\ I \in SUBSET Nat /\ IsFiniteSet(I) /\ n \in Nat
  BY PositionsFinite
<1>2. \A k \in 1..n : Nth(I, k) \in I /\ Rank(I, Nth(I, k)) = k
  BY <1>1, NthExists
<1>3. \A k \in 1..n : q[Nth(I, k)] \in X
  BY <1>1, <1>2
<1>4. Filter(q, S) = [k \in 1..n |-> q[Nth(I, k)]]
  BY DEF Filter
<1> HIDE DEF I, n
<1>5. Filter(q, S) \in Seq(X) /\ Len(Filter(q, S)) = n
  BY <1>1, <1>3, <1>4
<1>6. \A k, m \in 1..n : k < m => Nth(I, k) < Nth(I, m)
  <2> SUFFICES ASSUME NEW k \in 1..n, NEW m \in 1..n, k < m, ~(Nth(I, k) < Nth(I, m))
               PROVE  FALSE
    OBVIOUS
  <2>1. Nth(I, k) \in I /\ Nth(I, m) \in I /\ Rank(I, Nth(I, k)) = k /\ Rank(I, Nth(I, m)) = m
    BY <1>2
  <2>2. Nth(I, k) # Nth(I, m)
    BY <2>1
  <2>3. Nth(I, m) < Nth(I, k)
    <3>1. Nth(I, m) \in Nat /\ Nth(I, k) \in Nat
      BY <1>1, <2>1
    <3> QED
      BY <2>2, <3>1
  <2>4. Rank(I, Nth(I, m)) < Rank(I, Nth(I, k))
    BY <1>1, <2>1, <2>3, RankMonotonic
  <2> QED
    BY <2>1, <2>4, <1>1
<1> QED
  BY <1>2, <1>4, <1>5, <1>6 DEF I, n

\* Where a selected node is found in the filtered list.
LEMMA FilterPlaces ==
  ASSUME NEW X, NEW q \in Seq(X), NEW S, NEW i \in Positions(q, S)
  PROVE  /\ Rank(Positions(q, S), i) \in 1..Len(Filter(q, S))
         /\ Filter(q, S)[Rank(Positions(q, S), i)] = q[i]
<1> DEFINE I == Positions(q, S)
           n == Cardinality(I)
           A == {m \in I : m <= i}
<1>1. I \subseteq 1..Len(q) /\ I \in SUBSET Nat /\ IsFiniteSet(I) /\ n \in Nat
  BY PositionsFinite
<1>2. Len(Filter(q, S)) = n
  BY FilterProperties
<1>3. i \in Nat /\ i \in A /\ A \subseteq I
  BY <1>1
<1>4. IsFiniteSet(A) /\ Cardinality(A) <= n
  BY <1>1, <1>3, FS_Subset
<1>5. Cardinality(A) \in Nat /\ Cardinality(A) # 0
  BY <1>3, <1>4, FS_CardinalityType, FS_EmptySet
<1>6. Rank(I, i) \in 1..n
  BY <1>1, <1>4, <1>5 DEF Rank
<1> DEFINE p == Nth(I, Rank(I, i))
<1>7. p \in I /\ Rank(I, p) = Rank(I, i)
  BY <1>1, <1>6, NthExists
<1>8. p = i
  <2> SUFFICES ASSUME p # i PROVE FALSE
    OBVIOUS
  <2>1. p < i \/ i < p
    BY <1>1, <1>7
  <2>2. Rank(I, p) < Rank(I, i) \/ Rank(I, i) < Rank(I, p)
    BY <1>1, <1>7, <2>1, RankMonotonic
  <2> QED
    BY <1>1, <1>6, <1>7, <2>2
<1>9. Filter(q, S)[Rank(I, i)] = q[p]
  BY <1>2, <1>6, FilterProperties
<1> QED
  BY <1>2, <1>6, <1>8, <1>9

\* A filtered list holds exactly the selected elements.
LEMMA FilterElems ==
  ASSUME NEW X, NEW q \in Seq(X), NEW S
  PROVE  Elems(Filter(q, S)) = Elems(q) \cap S
<1> DEFINE I == Positions(q, S)
           f == Filter(q, S)
<1>1. \A k \in 1..Len(f) : Nth(I, k) \in I /\ f[k] = q[Nth(I, k)]
  BY FilterProperties
<1>2. \A i \in I : Rank(I, i) \in 1..Len(f) /\ f[Rank(I, i)] = q[i]
  BY FilterPlaces
<1>3. I \subseteq 1..Len(q) /\ \A i \in 1..Len(q) : i \in I <=> q[i] \in S
  BY DEF Positions
<1> HIDE DEF I, f
<1>4. Elems(f) \subseteq Elems(q) \cap S
  BY <1>1, <1>3 DEF Elems
<1>5. Elems(q) \cap S \subseteq Elems(f)
  BY <1>2, <1>3 DEF Elems
<1> QED
  BY <1>4, <1>5 DEF f

\* Unlinking nodes loses none: what a walk takes out and what it leaves add up
\* to the list it started from.
LEMMA FilterWithoutLen ==
  ASSUME NEW X, NEW q \in Seq(X), NEW S
  PROVE  Len(Filter(q, S)) + Len(Without(q, S)) = Len(q)
<1> DEFINE A == Positions(q, S)
           B == Positions(q, Elems(q) \ S)
<1>1. IsFiniteSet(A) /\ Cardinality(A) \in Nat /\ IsFiniteSet(B) /\ Cardinality(B) \in Nat
  BY PositionsFinite
<1>2. A \cup B = 1..Len(q) /\ A \cap B = {}
  BY DEF Positions, Elems
<1>3. Cardinality(A \cup B) = Cardinality(A) + Cardinality(B) - Cardinality(A \cap B)
  BY <1>1, FS_Union
<1>4. Len(q) \in Nat /\ Cardinality(1..Len(q)) = Len(q)
  <2>1. Len(q) \in Nat
    OBVIOUS
  <2> QED
    BY <2>1, IntervalSize
<1>5. Cardinality(A \cap B) = 0
  BY <1>2, FS_EmptySet
<1>6. Len(Filter(q, S)) = Cardinality(A) /\ Len(Without(q, S)) = Cardinality(B)
  BY FilterProperties DEF Without
<1>7. Cardinality(A) + Cardinality(B) = Len(q)
  <2>1. Len(q) = Cardinality(A) + Cardinality(B) - 0
    BY <1>2, <1>3, <1>4, <1>5
  <2> QED
    BY <1>1, <2>1
<1> QED
  BY <1>6, <1>7

\* What is left after unlinking S: a list of the same type without S.
LEMMA WithoutProperties ==
  ASSUME NEW X, NEW q \in Seq(X), NEW S
  PROVE  /\ Without(q, S) \in Seq(X)
         /\ Elems(Without(q, S)) = Elems(q) \ S
         /\ Len(Without(q, S)) \in Nat
         /\ Len(Without(q, S)) <= Len(q)
<1>1. Without(q, S) \in Seq(X)
  BY FilterProperties DEF Without
<1>2. Elems(Without(q, S)) = Elems(q) \ S
  BY FilterElems DEF Without
<1>3. Len(Without(q, S)) = Cardinality(Positions(q, Elems(q) \ S))
  BY FilterProperties DEF Without
<1> QED
  BY <1>1, <1>2, <1>3, PositionsFinite

\* The first node of a list and the rest of it.
LEMMA TailElems ==
  ASSUME NEW X, NEW q \in Seq(X), q # <<>>
  PROVE  /\ Tail(q) \in Seq(X) /\ Head(q) \in X /\ Head(q) = q[1]
         /\ Len(q) \in Nat \ {0} /\ Len(Tail(q)) = Len(q) - 1
         /\ \A i \in 1..Len(Tail(q)) : Tail(q)[i] = q[i + 1] /\ i + 1 \in 1..Len(q)
         /\ Elems(q) = Elems(Tail(q)) \cup {Head(q)}
<1> DEFINE t == Tail(q)
<1>1. /\ t \in Seq(X) /\ Len(t) = Len(q) - 1 /\ Len(q) \in Nat /\ Len(q) # 0
      /\ \A i \in 1..Len(t) : t[i] = q[i + 1]
      /\ Head(q) = q[1] /\ Head(q) \in X
  BY HeadTailProperties
<1> HIDE DEF t
<1>2. \A i \in 1..Len(t) : t[i] = q[i + 1] /\ i + 1 \in 1..Len(q)
  BY <1>1
<1>3. Elems(t) \cup {q[1]} \subseteq Elems(q)
  BY <1>1, <1>2 DEF Elems
<1>4. ASSUME NEW i \in 1..Len(q) PROVE q[i] \in Elems(t) \cup {q[1]}
  <2>1. CASE i = 1
    BY <2>1
  <2>2. CASE i # 1
    <3>1. i - 1 \in 1..Len(t) /\ t[i - 1] = q[i]
      BY <1>1, <2>2
    <3> QED
      BY <3>1 DEF Elems
  <2> QED
    BY <2>1, <2>2
<1>5. Elems(q) \subseteq Elems(t) \cup {q[1]}
  BY <1>4 DEF Elems
<1> QED
  BY <1>1, <1>2, <1>3, <1>5 DEF t

\* The nodes of two lists put together.
LEMMA ConcatElems ==
  ASSUME NEW X, NEW q \in Seq(X), NEW r \in Seq(X)
  PROVE  /\ q \o r \in Seq(X) /\ Len(q \o r) = Len(q) + Len(r)
         /\ Len(q) \in Nat /\ Len(r) \in Nat
         /\ \A i \in 1..(Len(q) + Len(r)) :
              (q \o r)[i] = IF i <= Len(q) THEN q[i] ELSE r[i - Len(q)]
         /\ Elems(q \o r) = Elems(q) \cup Elems(r)
<1> DEFINE t == q \o r
<1>1. /\ t \in Seq(X) /\ Len(t) = Len(q) + Len(r)
      /\ \A i \in 1..(Len(q) + Len(r)) :
           t[i] = IF i <= Len(q) THEN q[i] ELSE r[i - Len(q)]
  BY ConcatProperties
<1>2. Len(q) \in Nat /\ Len(r) \in Nat
  OBVIOUS
<1> HIDE DEF t
<1>3. ASSUME NEW i \in 1..Len(t) PROVE t[i] \in Elems(q) \cup Elems(r)
  <2>1. CASE i <= Len(q)
    <3>1. t[i] = q[i] /\ i \in 1..Len(q)
      BY <1>1, <1>2, <2>1
    <3> QED
      BY <3>1 DEF Elems
  <2>2. CASE ~(i <= Len(q))
    <3>1. t[i] = r[i - Len(q)] /\ i - Len(q) \in 1..Len(r)
      BY <1>1, <1>2, <2>2
    <3> QED
      BY <3>1 DEF Elems
  <2> QED
    BY <2>1, <2>2
<1>4. ASSUME NEW i \in 1..Len(q) PROVE q[i] \in Elems(t)
  <2>1. t[i] = q[i] /\ i \in 1..Len(t)
    BY <1>1, <1>2
  <2> QED
    BY <2>1 DEF Elems
<1>5. ASSUME NEW i \in 1..Len(r) PROVE r[i] \in Elems(t)
  <2>1. t[i + Len(q)] = r[i] /\ i + Len(q) \in 1..Len(t)
    BY <1>1, <1>2
  <2> QED
    BY <2>1 DEF Elems
<1>6. Elems(t) = Elems(q) \cup Elems(r)
  BY <1>3, <1>4, <1>5 DEF Elems
<1> QED
  BY <1>1, <1>2, <1>6 DEF t

\* A node put at the end of a list.
LEMMA AppendElems ==
  ASSUME NEW X, NEW q \in Seq(X), NEW x \in X
  PROVE  /\ Append(q, x) \in Seq(X) /\ Len(Append(q, x)) = Len(q) + 1 /\ Len(q) \in Nat
         /\ \A i \in 1..Len(q) : Append(q, x)[i] = q[i]
         /\ Append(q, x)[Len(q) + 1] = x
         /\ Elems(Append(q, x)) = Elems(q) \cup {x}
<1> DEFINE t == Append(q, x)
<1>1. /\ t \in Seq(X) /\ Len(t) = Len(q) + 1 /\ Len(q) \in Nat
      /\ \A i \in 1..Len(q) : t[i] = q[i]
      /\ t[Len(q) + 1] = x
  BY AppendProperties
<1> HIDE DEF t
<1>2. /\ \A i \in 1..Len(t) : i \in 1..Len(q) \/ i = Len(q) + 1
      /\ Len(q) + 1 \in 1..Len(t) /\ \A i \in 1..Len(q) : i \in 1..Len(t)
  BY <1>1
<1>3. Elems(t) \subseteq Elems(q) \cup {x}
  BY <1>1, <1>2 DEF Elems
<1>4. Elems(q) \cup {x} \subseteq Elems(t)
  BY <1>1, <1>2 DEF Elems
<1> QED
  BY <1>1, <1>3, <1>4 DEF t

\* A node put in front of a list.
LEMMA PushElems ==
  ASSUME NEW X, NEW q \in Seq(X), NEW x \in X
  PROVE  LET t == <<x>> \o q
         IN  /\ t \in Seq(X) /\ Len(t) = Len(q) + 1 /\ Len(q) \in Nat
             /\ t[1] = x /\ 1 \in 1..Len(t)
             /\ \A i \in 1..Len(q) : t[i + 1] = q[i] /\ i + 1 \in 1..Len(t)
             /\ \A i \in 1..Len(t) : i = 1 \/ (i - 1 \in 1..Len(q) /\ t[i] = q[i - 1])
             /\ Elems(t) = Elems(q) \cup {x}
<1> DEFINE o == <<x>>
           t == o \o q
<1>1. o \in Seq(X) /\ Len(o) = 1 /\ o[1] = x /\ Len(q) \in Nat
  OBVIOUS
<1> HIDE DEF o
<1>0. /\ t \in Seq(X) /\ Len(t) = Len(o) + Len(q)
      /\ \A i \in 1..(Len(o) + Len(q)) : t[i] = IF i <= Len(o) THEN o[i] ELSE q[i - Len(o)]
      /\ Elems(t) = Elems(o) \cup Elems(q)
  BY <1>1, ConcatElems, ZenonT(60)
<1>2. /\ t \in Seq(X) /\ Len(t) = 1 + Len(q)
      /\ \A i \in 1..(1 + Len(q)) : t[i] = IF i <= 1 THEN o[i] ELSE q[i - 1]
      /\ Elems(t) = Elems(o) \cup Elems(q)
  BY <1>0, <1>1
<1> HIDE DEF t
<1>3. Elems(o) = {x}
  BY <1>1 DEF Elems
<1>4. t[1] = x /\ 1 \in 1..Len(t)
  BY <1>1, <1>2
<1>5. ASSUME NEW i \in 1..Len(q) PROVE t[i + 1] = q[i] /\ i + 1 \in 1..Len(t)
  <2>1. i + 1 \in 1..(1 + Len(q)) /\ ~(i + 1 <= 1) /\ (i + 1) - 1 = i
    BY <1>1
  <2> QED
    BY <1>2, <2>1
<1>6. ASSUME NEW i \in 1..Len(t), i # 1 PROVE i - 1 \in 1..Len(q) /\ t[i] = q[i - 1]
  BY <1>1, <1>2, <1>6
<1> QED
  BY <1>1, <1>2, <1>3, <1>4, <1>5, <1>6 DEF t, o

\* Unlinking nodes does not change the order of those that are left, and
\* brings none together that were not in this order before.
LEMMA WithoutOrder ==
  ASSUME NEW X, NEW q \in Seq(X), NEW S
  PROVE  LET w == Without(q, S)
         IN  /\ \A i, j \in 1..Len(q) : i < j /\ q[i] \notin S /\ q[j] \notin S =>
                  \E a, b \in 1..Len(w) : a < b /\ w[a] = q[i] /\ w[b] = q[j]
             /\ \A a, b \in 1..Len(w) : a < b =>
                  \E i, j \in 1..Len(q) : /\ i < j /\ w[a] = q[i] /\ w[b] = q[j]
                                          /\ q[i] \notin S /\ q[j] \notin S
<1> DEFINE w == Without(q, S)
           T == Elems(q) \ S
           P == Positions(q, T)
<1>0. w = Filter(q, T)
  BY DEF Without
<1>1. /\ \A k \in 1..Len(w) : Nth(P, k) \in P /\ w[k] = q[Nth(P, k)]
      /\ \A k, m \in 1..Len(w) : k < m => Nth(P, k) < Nth(P, m)
  BY <1>0, FilterProperties
<1>2. P \subseteq 1..Len(q) /\ P \in SUBSET Nat /\ IsFiniteSet(P)
  BY PositionsFinite
<1>3. \A i \in P : Rank(P, i) \in 1..Len(w) /\ w[Rank(P, i)] = q[i]
  BY <1>0, FilterPlaces
<1>4. \A i \in 1..Len(q) : i \in P <=> q[i] \notin S
  BY DEF Positions, Elems
<1>5. \A i, j \in P : i < j => Rank(P, i) < Rank(P, j)
  BY <1>2, RankMonotonic
<1> HIDE DEF w, T, P
<1>6. ASSUME NEW i \in 1..Len(q), NEW j \in 1..Len(q), i < j, q[i] \notin S, q[j] \notin S
      PROVE  \E a, b \in 1..Len(w) : a < b /\ w[a] = q[i] /\ w[b] = q[j]
  BY <1>3, <1>4, <1>5, <1>6
<1>7. ASSUME NEW a \in 1..Len(w), NEW b \in 1..Len(w), a < b
      PROVE  \E i, j \in 1..Len(q) : /\ i < j /\ w[a] = q[i] /\ w[b] = q[j]
                                     /\ q[i] \notin S /\ q[j] \notin S
  BY <1>1, <1>2, <1>4, <1>7
<1> QED
  BY <1>6, <1>7 DEF w

\* List w holds the elements of q other than p, in the order of q.
OrderKept(q, p, w) ==
  /\ \A i, j \in 1..Len(q) : i < j /\ q[i] # p /\ q[j] # p =>
       \E a, b \in 1..Len(w) : a < b /\ w[a] = q[i] /\ w[b] = q[j]
  /\ \A a, b \in 1..Len(w) : a < b =>
       \E i, j \in 1..Len(q) : i < j /\ w[a] = q[i] /\ w[b] = q[j]

\* The same for a walk that unlinks one node.
LEMMA WithoutOne ==
  ASSUME NEW X, NEW q \in Seq(X), NEW p
  PROVE  OrderKept(q, p, Without(q, {p}))
<1> DEFINE S == {p}
           w == Without(q, S)
<1>1. \A x : x # p => x \notin S
  OBVIOUS
<1> HIDE DEF S
<1>2. /\ \A i, j \in 1..Len(q) : i < j /\ q[i] \notin S /\ q[j] \notin S =>
           \E a, b \in 1..Len(w) : a < b /\ w[a] = q[i] /\ w[b] = q[j]
      /\ \A a, b \in 1..Len(w) : a < b =>
           \E i, j \in 1..Len(q) : /\ i < j /\ w[a] = q[i] /\ w[b] = q[j]
                                   /\ q[i] \notin S /\ q[j] \notin S
  BY ZenonT(40), WithoutOrder
<1> HIDE DEF w
<1>3. ASSUME NEW i \in 1..Len(q), NEW j \in 1..Len(q), i < j, q[i] # p, q[j] # p
      PROVE  \E a, b \in 1..Len(w) : a < b /\ w[a] = q[i] /\ w[b] = q[j]
  <2>1. q[i] \notin S /\ q[j] \notin S
    BY <1>1, <1>3
  <2> QED
    BY <1>2, <1>3, <2>1, Zenon
<1>4. ASSUME NEW a \in 1..Len(w), NEW b \in 1..Len(w), a < b
      PROVE  \E i, j \in 1..Len(q) : i < j /\ w[a] = q[i] /\ w[b] = q[j]
  BY <1>2, <1>4
<1>5. OrderKept(q, p, w)
  BY <1>3, <1>4 DEF OrderKept
<1> QED
  BY <1>5 DEF w, S

\* The same for the nodes that were unlinked.
LEMMA FilterOrder ==
  ASSUME NEW X, NEW q \in Seq(X), NEW S
  PROVE  LET g == Filter(q, S)
         IN  /\ g \in Seq(X) /\ Len(g) \in Nat /\ Elems(g) = Elems(q) \cap S
             /\ \A a, b \in 1..Len(g) : a < b =>
                  \E i, j \in 1..Len(q) : i < j /\ g[a] = q[i] /\ g[b] = q[j]
<1> DEFINE g == Filter(q, S)
           P == Positions(q, S)
<1>1. /\ g \in Seq(X)
      /\ \A k \in 1..Len(g) : Nth(P, k) \in P /\ g[k] = q[Nth(P, k)]
      /\ \A k, m \in 1..Len(g) : k < m => Nth(P, k) < Nth(P, m)
  BY FilterProperties
<1>2. P \subseteq 1..Len(q)
  BY PositionsFinite
<1>3. Elems(g) = Elems(q) \cap S
  BY FilterElems
<1> HIDE DEF g, P
<1>4. Len(g) \in Nat
  BY <1>1
<1>5. \A a, b \in 1..Len(g) : a < b =>
        \E i, j \in 1..Len(q) : i < j /\ g[a] = q[i] /\ g[b] = q[j]
  BY <1>1, <1>2
<1> QED
  BY <1>1, <1>3, <1>4, <1>5 DEF g
============================================================================

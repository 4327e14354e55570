----------------------------- MODULE DataLemmas ------------------------------
(***************************************************************************)
(* Lemmas about sets and sequences that the proofs share.                  *)
(***************************************************************************)
EXTENDS Integers, Sequences, FiniteSetsExt, FiniteSetTheorems, WellFoundedInduction, TLAPS

-------------------------------------------------------------------------------
(* The largest of some rows is one of them: behind every                   *)
(* `ORDER BY id DESC LIMIT 1` and MAX(sort_order)                          *)

\* A non-empty set of integers with a bound has a largest member, so Max picks
\* one: by well-foundedness of < on the distances from the bound.
LEMMA MaxIsLargest ==
    ASSUME NEW n \in Int, NEW S \in SUBSET Int, S # {}, \A x \in S : x <= n
    PROVE  Max(S) \in S /\ \A y \in S : Max(S) >= y
<1> DEFINE D == {d \in Nat : n - d \in S}
<1>1. D # {}
  <2>1. PICK x \in S : TRUE
    OBVIOUS
  <2>2. n - x \in Nat /\ n - (n - x) = x
    OBVIOUS
  <2> QED
    BY <2>1, <2>2
<1>2. PICK d \in D : \A e \in D : ~(<<e, d>> \in OpToRel(<, Nat))
  <2> HIDE DEF D
  <2>1. D \subseteq Nat
    BY DEF D
  <2> QED
    BY <1>1, <2>1, WFMin, NatLessThanWellFounded
<1>3. \A e \in D : ~(e < d)
  BY <1>2 DEF OpToRel
<1>4. n - d \in S /\ \A y \in S : n - d >= y
  <2>1. n - d \in S
    OBVIOUS
  <2>2. ASSUME NEW y \in S PROVE n - d >= y
    <3>1. n - y \in D
      OBVIOUS
    <3>2. ~(n - y < d)
      BY <1>3, <3>1
    <3> QED
      BY <3>2
  <2> QED
    BY <2>1, <2>2
<1>5. Max(S) \in S
  BY <1>4 DEF Max
<1>6. \A y \in S : Max(S) >= y
  BY <1>4 DEF Max
<1> QED
  BY <1>5, <1>6

LEMMA MaxOfBounded ==
    ASSUME NEW n \in Nat, NEW S \in SUBSET (1..n), S # {}
    PROVE  Max(S) \in S
<1>1. n \in Int /\ S \in SUBSET Int /\ \A x \in S : x <= n
  OBVIOUS
<1> QED
  BY <1>1, MaxIsLargest

\* A non-empty set of naturals has a least element: the lowest tier that carries a weight.
LEMMA MinIsLeast ==
    ASSUME NEW S \in SUBSET Nat, S # {}
    PROVE  Min(S) \in S /\ \A y \in S : Min(S) <= y
<1>1. PICK m \in S : \A y \in S : ~(<<y, m>> \in OpToRel(<, Nat))
  <2>1. S \subseteq Nat
    OBVIOUS
  <2> QED
    BY <2>1, WFMin, NatLessThanWellFounded
<1>2. \A y \in S : ~(y < m)
  BY <1>1 DEF OpToRel
<1>3. \A y \in S : m <= y
  BY <1>2
<1>4. Min(S) \in S
  BY <1>3 DEF Min
<1>5. \A y \in S : Min(S) <= y
  BY <1>3 DEF Min
<1> QED
  BY <1>4, <1>5

-------------------------------------------------------------------------------
(* How often something occurs in a sequence: for channels and queues       *)

Positions(s, x) == {i \in 1..Len(s) : s[i] = x}
Occurs(s, x) == Cardinality(Positions(s, x))

\* Only finitely many positions hold it.
LEMMA OccursType ==
    ASSUME NEW T, NEW s \in Seq(T), NEW x
    PROVE  IsFiniteSet(Positions(s, x)) /\ Occurs(s, x) \in Nat
<1>1. Len(s) \in Nat
  OBVIOUS
<1>2. IsFiniteSet(1..Len(s)) /\ Positions(s, x) \in SUBSET (1..Len(s))
  BY <1>1, FS_Interval DEF Positions
<1>3. IsFiniteSet(Positions(s, x))
  BY <1>2, FS_Subset
<1> QED
  BY <1>3, FS_CardinalityType DEF Occurs

\* Nothing occurs in the empty sequence.
LEMMA OccursEmpty == \A x : Occurs(<< >>, x) = 0
<1>1. \A x : Positions(<< >>, x) = {}
  BY DEF Positions
<1> QED
  BY <1>1, FS_EmptySet DEF Occurs

\* Appending y adds an occurrence of y and of nothing else.
LEMMA OccursAppend ==
    ASSUME NEW T, NEW s \in Seq(T), NEW y \in T, NEW x
    PROVE  Occurs(Append(s, y), x) = Occurs(s, x) + (IF y = x THEN 1 ELSE 0)
<1> DEFINE t == Append(s, y)
<1> DEFINE k == Len(s) + 1
<1>1. /\ Len(s) \in Nat /\ Len(t) = k /\ t[k] = y
      /\ \A i \in 1..Len(s) : t[i] = s[i]
  OBVIOUS
<1>2. IsFiniteSet(Positions(s, x)) /\ Occurs(s, x) \in Nat
  BY OccursType
<1>5. k \notin Positions(s, x)
  BY <1>1 DEF Positions
<1> HIDE DEF t, k
<1>3. CASE y = x
  <2>1. Positions(t, x) = Positions(s, x) \cup {k}
    BY <1>1, <1>3 DEF Positions, k
  <2>2. Occurs(t, x) = Occurs(s, x) + 1
    BY <1>2, <1>5, <2>1, FS_AddElement DEF Occurs
  <2> QED
    BY <1>3, <2>2 DEF t
<1>4. CASE y # x
  <2>1. Positions(t, x) = Positions(s, x)
    BY <1>1, <1>4 DEF Positions, k
  <2> QED
    BY <1>2, <1>4, <2>1 DEF Occurs, t
<1> QED
  BY <1>3, <1>4

\* A concatenation has the occurrences of both parts.
LEMMA OccursConcat ==
    ASSUME NEW T, NEW s \in Seq(T), NEW t \in Seq(T), NEW x
    PROVE  Occurs(s \o t, x) = Occurs(s, x) + Occurs(t, x)
<1> DEFINE m == Len(s)
<1> DEFINE u == s \o t
<1> DEFINE P == {i \in (m + 1)..(m + Len(t)) : u[i] = x}
<1> DEFINE f == [i \in Positions(t, x) |-> m + i]
<1>1. /\ m \in Nat /\ Len(t) \in Nat /\ Len(u) = m + Len(t)
      /\ \A i \in 1..m : u[i] = s[i]
      /\ \A i \in 1..Len(t) : u[m + i] = t[i]
  OBVIOUS
<1> HIDE DEF u, m
<1>2. IsFiniteSet(Positions(s, x)) /\ IsFiniteSet(Positions(t, x))
  BY OccursType
<1>3. f \in Bijection(Positions(t, x), P)
  <2>1. f \in [Positions(t, x) -> P]
    BY <1>1 DEF Positions
  <2>2. \A i, j \in Positions(t, x) : f[i] = f[j] => i = j
    BY <1>1 DEF Positions
  <2>3. \A k \in P : \E i \in Positions(t, x) : f[i] = k
    <3> SUFFICES ASSUME NEW k \in P PROVE \E i \in Positions(t, x) : f[i] = k
      OBVIOUS
    <3>1. k - m \in 1..Len(t) /\ m + (k - m) = k
      BY <1>1
    <3>2. k - m \in Positions(t, x)
      BY <1>1, <3>1 DEF Positions
    <3> QED
      BY <3>1, <3>2
  <2> QED
    BY <2>1, <2>2, <2>3 DEF Bijection, Injection, Surjection, IsInjective
<1>4. IsFiniteSet(P) /\ Cardinality(P) = Occurs(t, x)
  BY <1>2, <1>3, FS_Bijection DEF ExistsBijection, Occurs
<1>5. Positions(u, x) = Positions(s, x) \cup P /\ Positions(s, x) \cap P = {}
  <2>1. Positions(s, x) = {i \in 1..m : u[i] = x}
    BY <1>1 DEF Positions, m
  <2>2. Positions(u, x) = {i \in 1..(m + Len(t)) : u[i] = x}
    BY <1>1 DEF Positions
  <2> QED
    BY <1>1, <2>1, <2>2
<1>6. Cardinality(Positions(u, x)) = Occurs(s, x) + Cardinality(P) - Cardinality({})
  BY <1>2, <1>4, <1>5, FS_Union DEF Occurs
<1>7. Occurs(s, x) \in Nat /\ Occurs(t, x) \in Nat
  BY OccursType
<1>8. Occurs(u, x) = Cardinality(Positions(u, x)) /\ Cardinality({}) = 0
  BY FS_EmptySet DEF Occurs
<1>9. Occurs(u, x) = Occurs(s, x) + Occurs(t, x)
  BY <1>4, <1>6, <1>7, <1>8
<1> QED
  BY <1>9 DEF u

\* Taking the head away takes its occurrence.
LEMMA OccursTail ==
    ASSUME NEW T, NEW s \in Seq(T), s # << >>, NEW x
    PROVE  Occurs(s, x) = Occurs(Tail(s), x) + (IF Head(s) = x THEN 1 ELSE 0)
<1> DEFINE one == << Head(s) >>
<1>1. /\ Head(s) \in T /\ Tail(s) \in Seq(T) /\ << >> \in Seq(T)
      /\ one = Append(<< >>, Head(s)) /\ one \in Seq(T)
  OBVIOUS
<1>2. s = one \o Tail(s)
  OBVIOUS
<1>3. Occurs(one, x) = (IF Head(s) = x THEN 1 ELSE 0)
  <2> DEFINE e == << >>
  <2> DEFINE y == Head(s)
  <2>0. e \in Seq(T) /\ y \in T /\ one = Append(e, y)
    BY <1>1
  <2>1. Occurs(e, x) = 0
    BY OccursEmpty
  <2> HIDE DEF e, y, one
  <2>2. Occurs(Append(e, y), x) = Occurs(e, x) + (IF y = x THEN 1 ELSE 0)
    BY <2>0, OccursAppend
  <2>3. Occurs(one, x) = IF y = x THEN 1 ELSE 0
    BY <2>0, <2>1, <2>2
  <2> QED
    BY <2>3 DEF y
<1>4. Occurs(s, x) = Occurs(one, x) + Occurs(Tail(s), x)
  <2> HIDE DEF one
  <2>1. Occurs(one \o Tail(s), x) = Occurs(one, x) + Occurs(Tail(s), x)
    BY <1>1, OccursConcat
  <2> QED
    BY <1>2, <2>1
<1>5. Occurs(Tail(s), x) \in Nat
  BY <1>1, OccursType
<1> QED
  BY <1>3, <1>4, <1>5

-------------------------------------------------------------------------------
(* Counting members of a set: for requests in flight                       *)

\* Two sets that differ in one element differ in number by whether they have it.
LEMMA CountMoves ==
    ASSUME NEW S, NEW T, NEW x, IsFiniteSet(S), IsFiniteSet(T), S \ {x} = T \ {x}
    PROVE  /\ Cardinality(S) \in Nat /\ Cardinality(T) \in Nat
           /\ Cardinality(T) + (IF x \in S THEN 1 ELSE 0)
                  = Cardinality(S) + (IF x \in T THEN 1 ELSE 0)
<1>1. Cardinality(S) \in Nat /\ Cardinality(T) \in Nat
  BY FS_CardinalityType
<1>2. Cardinality(S \ {x}) = IF x \in S THEN Cardinality(S) - 1 ELSE Cardinality(S)
  BY FS_RemoveElement
<1>3. Cardinality(T \ {x}) = IF x \in T THEN Cardinality(T) - 1 ELSE Cardinality(T)
  BY FS_RemoveElement
<1>4. Cardinality(S \ {x}) = Cardinality(T \ {x})
  OBVIOUS
<1> QED
  BY <1>1, <1>2, <1>3, <1>4

\* Disjoint subsets have together at most as many elements as the whole.
LEMMA CountThree ==
    ASSUME NEW U, IsFiniteSet(U), NEW A \in SUBSET U, NEW B \in SUBSET U, NEW C \in SUBSET U,
           A \cap B = {}, A \cap C = {}, B \cap C = {}
    PROVE  /\ IsFiniteSet(A) /\ IsFiniteSet(B) /\ IsFiniteSet(C)
           /\ Cardinality(A) \in Nat /\ Cardinality(B) \in Nat /\ Cardinality(C) \in Nat
           /\ Cardinality(U) \in Nat
           /\ Cardinality(A) + Cardinality(B) + Cardinality(C) <= Cardinality(U)
<1>1. IsFiniteSet(A) /\ IsFiniteSet(B) /\ IsFiniteSet(C)
  BY FS_Subset
<1>2. /\ Cardinality(A) \in Nat /\ Cardinality(B) \in Nat /\ Cardinality(C) \in Nat
      /\ Cardinality(U) \in Nat
  BY <1>1, FS_CardinalityType
<1>3. IsFiniteSet(A \cup B) /\ Cardinality(A \cup B) = Cardinality(A) + Cardinality(B)
  <2>1. Cardinality(A \cap B) = 0
    BY FS_EmptySet
  <2>2. /\ IsFiniteSet(A \cup B)
        /\ Cardinality(A \cup B) = Cardinality(A) + Cardinality(B) - Cardinality(A \cap B)
    BY <1>1, FS_Union
  <2> QED
    BY <1>2, <2>1, <2>2
<1>4. Cardinality((A \cup B) \cup C) = Cardinality(A) + Cardinality(B) + Cardinality(C)
  <2>1. (A \cup B) \cap C = {}
    OBVIOUS
  <2>2. Cardinality((A \cup B) \cap C) = 0
    BY <2>1, FS_EmptySet
  <2>3. Cardinality((A \cup B) \cup C)
            = Cardinality(A \cup B) + Cardinality(C) - Cardinality((A \cup B) \cap C)
    BY <1>1, <1>3, FS_Union
  <2> QED
    BY <1>2, <1>3, <2>2, <2>3
<1>5. Cardinality((A \cup B) \cup C) <= Cardinality(U)
  <2>1. (A \cup B) \cup C \in SUBSET U
    OBVIOUS
  <2> QED
    BY <2>1, FS_Subset
<1> QED
  BY <1>1, <1>2, <1>4, <1>5
===============================================================================

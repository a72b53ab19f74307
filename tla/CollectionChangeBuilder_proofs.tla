-------------------- MODULE CollectionChangeBuilder_proofs --------------------
(***************************************************************************)
(* Proofs about the operators that change sets are made of, for lists and  *)
(* changes of any size.                                                    *)
(***************************************************************************)
EXTENDS CollectionChangeBuilder, FiniteSetTheorems, SequenceTheorems, TLAPS

-----------------------------------------------------------------------------
(* Counting the indices below one.                                         *)

(* An IndexSet holds finitely many indices.                                *)
IndexSets == {S \in SUBSET Nat : IsFiniteSet(S)}

Below(S, i) == {s \in S : s < i}

Count(S, i) == Cardinality(Below(S, i))

LEMMA SetsAreFinite ==
    ASSUME NEW S \in IndexSets
    PROVE  S \subseteq Nat /\ IsFiniteSet(S) /\ Cardinality(S) \in Nat
BY FS_CardinalityType DEF IndexSets

LEMMA PartOfSet ==
    ASSUME NEW S \in IndexSets, NEW T \in SUBSET S
    PROVE  T \in IndexSets /\ Cardinality(T) \in Nat /\ Cardinality(T) <= Cardinality(S)
BY SetsAreFinite, FS_Subset, FS_CardinalityType DEF IndexSets

LEMMA BelowIs ==
    ASSUME NEW S \in IndexSets, NEW i \in Nat
    PROVE  Below(S, i) \in IndexSets /\ Count(S, i) \in Nat /\ Count(S, i) <= Cardinality(S)
  <1>1. Below(S, i) \in SUBSET S
    BY DEF Below
  <1> QED BY <1>1, PartOfSet DEF Count

(* The indices from i to below j.                                          *)
LEMMA CountBetween ==
    ASSUME NEW S \in IndexSets, NEW i \in Nat, NEW j \in Nat, i <= j
    PROVE  /\ Count(S, i) <= Count(S, j)
           /\ Count(S, j) - Count(S, i) <= j - i
           /\ i < j /\ i \notin S => Count(S, j) - Count(S, i) < j - i
  <1> DEFINE T == {s \in S : i <= s /\ s < j}
             n == Cardinality(T)
             B == Below(S, i)
  <1>1. T \in SUBSET S /\ S \subseteq Nat
    BY SetsAreFinite
  <1>2. IsFiniteSet(T) /\ n \in Nat
    BY <1>1, PartOfSet, SetsAreFinite
  <1>3. IsFiniteSet(B) /\ Cardinality(B) \in Nat
    BY BelowIs, SetsAreFinite
  <1>4. Below(S, j) = B \cup T /\ B \cap T = {}
    <2>1. \A s \in S : (s < j <=> s < i \/ (i <= s /\ s < j)) /\ ~(s < i /\ i <= s)
      BY <1>1
    <2> QED BY <2>1, Zenon DEF Below
  <1>5. Count(S, j) = Count(S, i) + n
    <2> HIDE DEF T, B
    <2>1. Cardinality(B \cup T) = Cardinality(B) + Cardinality(T) - Cardinality(B \cap T)
      BY <1>2, <1>3, FS_Union
    <2>2. Count(S, j) = Cardinality(B \cup T) /\ Count(S, i) = Cardinality(B)
      BY <1>4 DEF Count, B
    <2>3. Cardinality(B \cap T) = 0
      BY <1>4, FS_EmptySet
    <2> QED BY <1>2, <1>3, <2>1, <2>2, <2>3
  <1>6. n <= j - i
    <2>1. T \in SUBSET (i..(j - 1))
      <3>1. \A s \in S : i <= s /\ s < j => s \in i..(j - 1)
        BY <1>1
      <3> QED BY <3>1, Zenon
    <2>2. IsFiniteSet(i..(j - 1)) /\ Cardinality(i..(j - 1)) = j - i
      <3>1. /\ IsFiniteSet(i..(j - 1))
            /\ Cardinality(i..(j - 1)) = IF i > j - 1 THEN 0 ELSE (j - 1) - i + 1
        BY FS_Interval
      <3> QED BY <3>1
    <2> HIDE DEF T
    <2>3. Cardinality(T) <= Cardinality(i..(j - 1))
      BY <2>1, <2>2, FS_Subset
    <2> QED BY <2>2, <2>3
  <1>7. ASSUME i < j, i \notin S PROVE n < j - i
    <2>1. T \in SUBSET ((i + 1)..(j - 1))
      <3>1. \A s \in S : i <= s /\ s < j => s \in (i + 1)..(j - 1)
        <4> SUFFICES ASSUME NEW s \in S, i <= s, s < j PROVE s \in (i + 1)..(j - 1)
          OBVIOUS
        <4>1. s \in Nat /\ s # i
          BY <1>1, <1>7
        <4> QED BY <4>1
      <3> QED BY <3>1, Zenon
    <2>2. IsFiniteSet((i + 1)..(j - 1)) /\ Cardinality((i + 1)..(j - 1)) = j - i - 1
      <3>1. /\ IsFiniteSet((i + 1)..(j - 1))
            /\ Cardinality((i + 1)..(j - 1)) =
                  IF i + 1 > j - 1 THEN 0 ELSE (j - 1) - (i + 1) + 1
        BY FS_Interval
      <3> QED BY <1>7, <3>1
    <2> HIDE DEF T
    <2>3. Cardinality(T) <= Cardinality((i + 1)..(j - 1))
      BY <2>1, <2>2, FS_Subset
    <2> QED BY <1>2, <2>2, <2>3
  <1> HIDE DEF n
  <1>8. Count(S, i) \in Nat /\ Count(S, j) \in Nat
    BY BelowIs
  <1> QED BY <1>2, <1>5, <1>6, <1>7, <1>8

LEMMA CountNone ==
    ASSUME NEW S \in IndexSets
    PROVE  Count(S, 0) = 0
  <1>1. Below(S, 0) = {}
    BY SetsAreFinite DEF Below
  <1> QED BY <1>1, FS_EmptySet DEF Count

(* unshift() keeps the order of the indices, and of those outside of the   *)
(* set strictly.                                                           *)
LEMMA UnshiftIs ==
    ASSUME NEW S \in IndexSets, NEW i \in Nat
    PROVE  /\ unshift(S, i) \in Nat /\ unshift(S, i) = i - Count(S, i)
           /\ unshift(S, i) <= i /\ i <= unshift(S, i) + Cardinality(S)
  <1>1. unshift(S, i) = i - Count(S, i)
    BY DEF unshift, Count, Below
  <1>2. Count(S, i) \in Nat /\ Count(S, i) <= Cardinality(S) /\ Cardinality(S) \in Nat
    BY BelowIs, SetsAreFinite
  <1>3. Count(S, i) <= i
    <2>1. Count(S, i) - Count(S, 0) <= i - 0
      BY CountBetween
    <2> QED BY <1>2, <2>1, CountNone
  <1> QED BY <1>1, <1>2, <1>3

LEMMA UnshiftOrder ==
    ASSUME NEW S \in IndexSets, NEW i \in Nat, NEW j \in Nat
    PROVE  /\ i <= j => unshift(S, i) <= unshift(S, j)
           /\ i < j /\ i \notin S => unshift(S, i) < unshift(S, j)
  <1>1. /\ unshift(S, i) = i - Count(S, i) /\ unshift(S, j) = j - Count(S, j)
        /\ Count(S, i) \in Nat /\ Count(S, j) \in Nat
    BY UnshiftIs, BelowIs
  <1> QED BY <1>1, CountBetween

LEMMA UnshiftNext ==
    ASSUME NEW S \in IndexSets, NEW i \in Nat
    PROVE  unshift(S, i + 1) = IF i \in S THEN unshift(S, i) ELSE unshift(S, i) + 1
  <1>1. i + 1 \in Nat /\ S \subseteq Nat
    BY SetsAreFinite
  <1>2. Below(S, i + 1) = IF i \in S THEN Below(S, i) \cup {i} ELSE Below(S, i)
    <2>1. \A s \in S : s < i + 1 <=> s < i \/ s = i
      BY <1>1
    <2> QED BY <2>1, Zenon DEF Below
  <1>3. i \notin Below(S, i) /\ IsFiniteSet(Below(S, i)) /\ Count(S, i) \in Nat
    BY BelowIs, SetsAreFinite DEF Below
  <1>4. Cardinality(Below(S, i) \cup {i}) = Cardinality(Below(S, i)) + 1
    BY <1>3, FS_AddElement
  <1>5. Count(S, i + 1) = IF i \in S THEN Count(S, i) + 1 ELSE Count(S, i)
    BY <1>2, <1>4 DEF Count
  <1>6. unshift(S, i + 1) = (i + 1) - Count(S, i + 1) /\ unshift(S, i) = i - Count(S, i)
    <2>1. \A j \in Nat : unshift(S, j) = j - Count(S, j)
      BY UnshiftIs
    <2> QED BY <1>1, <2>1
  <1> QED BY <1>3, <1>5, <1>6

LEMMA LeastOf ==
    ASSUME NEW T \in SUBSET Nat, T # {}
    PROVE  \E m \in T : \A n \in T : m <= n
  <1>1. PICK m \in T : \A n \in T : ~ (<<n, m>> \in OpToRel(<, Nat))
    BY NatLessThanWellFounded, WFMin
  <1>2. \A n \in T : ~(n < m)
    BY <1>1 DEF OpToRel
  <1> QED BY <1>2

(* shift() has the value it is to have.                                    *)
LEMMA ShiftExists ==
    ASSUME NEW S \in IndexSets, NEW i \in Nat
    PROVE  \E j \in i..(i + Cardinality(S)) : j \notin S /\ unshift(S, j) = i
  <1> DEFINE T == {j \in Nat : i < unshift(S, j + 1)}
             c == Cardinality(S)
  <1>1. c \in Nat /\ i + c \in Nat /\ i + c + 1 \in Nat
    BY SetsAreFinite
  <1>2. \A j \in Nat : unshift(S, j) \in Nat /\ unshift(S, j) <= j /\ j <= unshift(S, j) + c
    BY UnshiftIs
  <1> HIDE DEF c
  <1>3. i + c \in T
    <2>1. unshift(S, i + c + 1) \in Nat /\ i + c + 1 <= unshift(S, i + c + 1) + c
      BY <1>1, <1>2
    <2> QED BY <1>1, <2>1
  <1>4. PICK j \in T : \A k \in T : j <= k
    BY <1>3, LeastOf
  <1>5. j \in Nat /\ i < unshift(S, j + 1) /\ j <= i + c
    BY <1>3, <1>4
  <1>6. unshift(S, j) <= i
    <2>1. CASE j = 0
      <3>1. unshift(S, 0) \in Nat /\ unshift(S, 0) <= 0
        BY <1>2
      <3> QED BY <2>1, <3>1
    <2>2. CASE j # 0
      <3>1. j - 1 \in Nat /\ (j - 1) + 1 = j
        BY <1>5, <2>2
      <3>2. j - 1 \notin T
        <4>1. ~(j <= j - 1)
          BY <1>5
        <4> QED BY <1>4, <4>1
      <3>3. ~(i < unshift(S, (j - 1) + 1))
        BY <3>1, <3>2
      <3>4. unshift(S, j) \in Nat /\ ~(i < unshift(S, j))
        BY <1>2, <1>5, <3>1, <3>3
      <3> QED BY <3>4
    <2> QED BY <2>1, <2>2
  <1>7. unshift(S, j + 1) = IF j \in S THEN unshift(S, j) ELSE unshift(S, j) + 1
    BY <1>5, UnshiftNext
  <1>8. unshift(S, j) \in Nat /\ unshift(S, j) <= j
    BY <1>2, <1>5
  <1>9. j \notin S
    BY <1>5, <1>6, <1>7, <1>8
  <1>10. unshift(S, j) = i
    BY <1>5, <1>6, <1>7, <1>8, <1>9
  <1>11. j \in i..(i + c)
    BY <1>1, <1>5, <1>8, <1>10
  <1> QED BY <1>9, <1>10, <1>11 DEF c

LEMMA ShiftIs ==
    ASSUME NEW S \in IndexSets, NEW i \in Nat
    PROVE  /\ shift(S, i) \in Nat /\ shift(S, i) \notin S /\ unshift(S, shift(S, i)) = i
           /\ i <= shift(S, i)
  <1> DEFINE c == Cardinality(S)
             j == shift(S, i)
  <1>1. j \in i..(i + c) /\ j \notin S /\ unshift(S, j) = i
    BY ShiftExists DEF shift
  <1>2. c \in Nat
    BY SetsAreFinite
  <1> HIDE DEF c, j
  <1>3. j \in Nat /\ i <= j
    BY <1>1, <1>2
  <1> QED BY <1>1, <1>3 DEF j

(* No two indices outside of the set are unshifted to the same one.        *)
LEMMA UnshiftInjective ==
    ASSUME NEW S \in IndexSets, NEW i \in Nat \ S, NEW j \in Nat \ S,
           unshift(S, i) = unshift(S, j)
    PROVE  i = j
  <1>1. unshift(S, i) \in Nat
    BY UnshiftIs
  <1>2. ~(i < j) /\ ~(j < i)
    BY <1>1, UnshiftOrder
  <1> QED BY <1>2

(* The insertion of indices and their deletion are inverse: an index       *)
(* shifted by IndexSet::shift() is outside of the set and unshifted to     *)
(* what it was, an index outside of the set is what shift() makes of its   *)
(* unshifted one, and both keep the order of the indices.                  *)
THEOREM ShiftInverse ==
    ASSUME NEW S \in IndexSets, NEW i \in Nat, NEW j \in Nat
    PROVE  /\ shift(S, i) \in Nat \ S /\ unshift(S, shift(S, i)) = i
           /\ unshift(S, i) \in Nat
           /\ i \notin S => shift(S, unshift(S, i)) = i
           /\ i < j => shift(S, i) < shift(S, j)
           /\ i < j /\ i \notin S => unshift(S, i) < unshift(S, j)
  <1>1. /\ shift(S, i) \in Nat \ S /\ unshift(S, shift(S, i)) = i
        /\ shift(S, j) \in Nat \ S /\ unshift(S, shift(S, j)) = j
    BY ShiftIs
  <1>2. unshift(S, i) \in Nat
    BY UnshiftIs
  <1>3. ASSUME i \notin S PROVE shift(S, unshift(S, i)) = i
    <2> DEFINE k == shift(S, unshift(S, i))
    <2>1. k \in Nat \ S /\ unshift(S, k) = unshift(S, i)
      BY <1>2, ShiftIs
    <2> HIDE DEF k
    <2>2. k = i
      BY <1>3, <2>1, UnshiftInjective
    <2> QED BY <2>2 DEF k
  <1>4. ASSUME i < j PROVE shift(S, i) < shift(S, j)
    <2>1. shift(S, j) <= shift(S, i) => unshift(S, shift(S, j)) <= unshift(S, shift(S, i))
      BY <1>1, UnshiftOrder
    <2>2. ~(shift(S, j) <= shift(S, i))
      BY <1>1, <1>4, <2>1
    <2> QED BY <1>1, <2>2
  <1>5. i < j /\ i \notin S => unshift(S, i) < unshift(S, j)
    BY UnshiftOrder
  <1> QED BY <1>1, <1>2, <1>3, <1>4, <1>5

-----------------------------------------------------------------------------
(* Sets that are shifted and unshifted.                                    *)

(* The members of S are moved one by one.                                  *)
LEMMA MovedSet ==
    ASSUME NEW S \in IndexSets, NEW f \in [S -> Nat],
           \A a, b \in S : f[a] = f[b] => a = b
    PROVE  {f[s] : s \in S} \in IndexSets /\ Cardinality({f[s] : s \in S}) = Cardinality(S)
  <1> DEFINE T == {f[s] : s \in S}
  <1>1. f \in [S -> T] /\ \A t \in T : \E s \in S : f[s] = t
    OBVIOUS
  <1>2. T \subseteq Nat
    OBVIOUS
  <1> HIDE DEF T
  <1>3. f \in Bijection(S, T)
    BY <1>1 DEF Bijection, Injection, Surjection, IsInjective
  <1>4. IsFiniteSet(T) /\ Cardinality(T) = Cardinality(S)
    BY <1>3, SetsAreFinite, FS_Bijection DEF ExistsBijection
  <1>5. T \in IndexSets
    BY <1>2, <1>4 DEF IndexSets
  <1> QED BY <1>4, <1>5 DEF T

LEMMA ShiftedSet ==
    ASSUME NEW S \in IndexSets, NEW P \in IndexSets
    PROVE  /\ shift_for_insert_at(S, P) \in IndexSets
           /\ shift_for_insert_at(S, P) \cap P = {}
           /\ Cardinality(shift_for_insert_at(S, P)) = Cardinality(S)
  <1> DEFINE f == [s \in S |-> shift(P, s)]
  <1>1. S \subseteq Nat
    BY SetsAreFinite
  <1>2. \A s \in S : shift(P, s) \in Nat \ P /\ unshift(P, shift(P, s)) = s
    BY <1>1, ShiftIs
  <1>3. f \in [S -> Nat] /\ \A s \in S : f[s] = shift(P, s)
    BY <1>2
  <1>4. \A a, b \in S : f[a] = f[b] => a = b
    BY <1>2, <1>3
  <1>5. shift_for_insert_at(S, P) = {f[s] : s \in S}
    BY <1>3 DEF shift_for_insert_at
  <1> HIDE DEF f
  <1>6. shift_for_insert_at(S, P) \cap P = {}
    BY <1>2 DEF shift_for_insert_at
  <1> QED BY <1>3, <1>4, <1>5, <1>6, MovedSet

LEMMA ErasedSet ==
    ASSUME NEW S \in IndexSets, NEW P \in IndexSets
    PROVE  /\ erase_at(S, P) \in IndexSets
           /\ Cardinality(erase_at(S, P)) = Cardinality(S \ P)
  <1> DEFINE R == S \ P
             f == [s \in R |-> unshift(P, s)]
  <1>1. R \in IndexSets /\ R \subseteq Nat \ P
    BY SetsAreFinite, PartOfSet
  <1>2. \A s \in R : unshift(P, s) \in Nat
    BY <1>1, UnshiftIs
  <1>3. erase_at(S, P) = {unshift(P, s) : s \in R}
    BY DEF erase_at
  <1> HIDE DEF R
  <1>4. f \in [R -> Nat] /\ \A s \in R : f[s] = unshift(P, s)
    BY <1>2
  <1>5. \A a, b \in R : f[a] = f[b] => a = b
    BY <1>1, <1>4, UnshiftInjective
  <1>6. erase_at(S, P) = {f[s] : s \in R}
    BY <1>3, <1>4
  <1> HIDE DEF f
  <1> QED BY <1>1, <1>4, <1>5, <1>6, MovedSet DEF R

LEMMA InsertedSet ==
    ASSUME NEW S \in IndexSets, NEW P \in IndexSets
    PROVE  /\ insert_at(S, P) \in IndexSets
           /\ Cardinality(insert_at(S, P)) = Cardinality(S) + Cardinality(P)
  <1> DEFINE T == shift_for_insert_at(S, P)
  <1>1. T \in IndexSets /\ T \cap P = {} /\ Cardinality(T) = Cardinality(S)
    BY ShiftedSet
  <1>2. insert_at(S, P) = T \cup P
    BY DEF insert_at
  <1> HIDE DEF T
  <1>3. IsFiniteSet(T) /\ IsFiniteSet(P) /\ T \cup P \subseteq Nat /\ Cardinality(P) \in Nat
        /\ Cardinality(S) \in Nat
    BY <1>1, SetsAreFinite
  <1>4. /\ IsFiniteSet(T \cup P)
        /\ Cardinality(T \cup P) = Cardinality(T) + Cardinality(P) - Cardinality(T \cap P)
    BY <1>3, FS_Union
  <1>5. Cardinality(T \cap P) = 0
    BY <1>1, FS_EmptySet
  <1>6. Cardinality(T \cup P) = Cardinality(S) + Cardinality(P)
    BY <1>1, <1>3, <1>4, <1>5
  <1> QED BY <1>2, <1>3, <1>4, <1>6 DEF IndexSets

(* What is in the sets.                                                    *)
LEMMA InErased ==
    ASSUME NEW S \in IndexSets, NEW P \in IndexSets, NEW i \in Nat
    PROVE  i \in erase_at(S, P) <=> shift(P, i) \in S
  <1>1. shift(P, i) \in Nat \ P /\ unshift(P, shift(P, i)) = i
    BY ShiftIs
  <1>2. \A s \in S \ P : shift(P, unshift(P, s)) = s
    BY SetsAreFinite, ShiftInverse
  <1> QED BY <1>1, <1>2 DEF erase_at

LEMMA InShifted ==
    ASSUME NEW S \in IndexSets, NEW P \in IndexSets, NEW j \in Nat
    PROVE  j \in shift_for_insert_at(S, P) <=> j \notin P /\ unshift(P, j) \in S
  <1>1. \A s \in S : shift(P, s) \notin P /\ unshift(P, shift(P, s)) = s
    BY SetsAreFinite, ShiftIs
  <1>2. j \notin P => shift(P, unshift(P, j)) = j
    BY ShiftInverse
  <1> QED BY <1>1, <1>2 DEF shift_for_insert_at

LEMMA InInserted ==
    ASSUME NEW S \in IndexSets, NEW P \in IndexSets, NEW j \in Nat
    PROVE  j \in insert_at(S, P) <=> j \in P \/ unshift(P, j) \in S
BY InShifted DEF insert_at

(* Insertions into a set: it shifts as P does after S.                     *)
LEMMA UnshiftInserted ==
    ASSUME NEW S \in IndexSets, NEW P \in IndexSets, NEW j \in Nat \ P
    PROVE  unshift(insert_at(S, P), j) = unshift(S, unshift(P, j))
  <1> DEFINE x == unshift(P, j)
             A == Below(S, x)
             T == shift_for_insert_at(A, P)
             B == Below(P, j)
             I == insert_at(S, P)
  <1>1. x \in Nat /\ shift(P, x) = j /\ x = j - Count(P, j)
    BY ShiftInverse, UnshiftIs
  <1>2. A \in IndexSets /\ B \in IndexSets /\ I \in IndexSets
    BY <1>1, BelowIs, InsertedSet
  <1>3. T \in IndexSets /\ T \cap P = {} /\ Cardinality(T) = Cardinality(A)
    BY <1>2, ShiftedSet
  <1>4. \A s \in S : shift(P, s) < j <=> s < x
    <2> SUFFICES ASSUME NEW s \in S PROVE shift(P, s) < j <=> s < x
      OBVIOUS
    <2>1. s \in Nat /\ shift(P, s) \in Nat
      BY SetsAreFinite, ShiftIs
    <2>2. /\ s < x => shift(P, s) < shift(P, x)
          /\ x < s => shift(P, x) < shift(P, s)
      BY <1>1, <2>1, ShiftInverse
    <2>3. s = x => shift(P, s) = j
      BY <1>1
    <2> QED BY <1>1, <2>1, <2>2, <2>3
  <1>5. Below(I, j) = T \cup B
    BY <1>4 DEF Below, insert_at, shift_for_insert_at
  <1>6. T \cap B = {}
    BY <1>3 DEF Below
  <1>7. Count(I, j) = Count(S, x) + Count(P, j)
    <2>1. Cardinality(T) = Count(S, x) /\ Cardinality(B) = Count(P, j)
      BY <1>3 DEF Count
    <2>2. Count(I, j) = Cardinality(T \cup B)
      BY <1>5 DEF Count
    <2>3. IsFiniteSet(T) /\ IsFiniteSet(B) /\ Cardinality(T) \in Nat /\ Cardinality(B) \in Nat
      BY <1>2, <1>3, SetsAreFinite
    <2> HIDE DEF T, B
    <2>4. Cardinality(T \cup B) = Cardinality(T) + Cardinality(B) - Cardinality(T \cap B)
      BY <2>3, FS_Union
    <2>5. Cardinality(T \cap B) = 0
      BY <1>6, FS_EmptySet
    <2> QED BY <2>1, <2>2, <2>3, <2>4, <2>5
  <1> HIDE DEF x, I
  <1>8. unshift(I, j) = j - Count(I, j) /\ unshift(S, x) = x - Count(S, x)
    BY <1>1, <1>2, UnshiftIs
  <1>9. Count(S, x) \in Nat /\ Count(P, j) \in Nat
    BY <1>1, BelowIs
  <1>10. unshift(I, j) = unshift(S, x)
    BY <1>1, <1>7, <1>8, <1>9
  <1> QED BY <1>10 DEF x, I

LEMMA ShiftInserted ==
    ASSUME NEW S \in IndexSets, NEW P \in IndexSets, NEW i \in Nat
    PROVE  shift(insert_at(S, P), i) = shift(P, shift(S, i))
  <1> DEFINE I == insert_at(S, P)
             x == shift(S, i)
             j == shift(P, x)
             k == shift(I, i)
  <1>1. I \in IndexSets
    BY InsertedSet
  <1>2. x \in Nat \ S /\ unshift(S, x) = i
    BY ShiftIs
  <1>3. j \in Nat \ P /\ unshift(P, j) = x
    BY <1>2, ShiftIs
  <1>4. k \in Nat \ I /\ unshift(I, k) = i
    BY <1>1, ShiftIs
  <1>5. j \notin I
    BY <1>2, <1>3, InInserted
  <1>6. unshift(I, j) = i
    BY <1>2, <1>3, UnshiftInserted
  <1> HIDE DEF I, j, k
  <1>7. j = k
    BY <1>1, <1>3, <1>4, <1>5, <1>6, UnshiftInjective
  <1> QED BY <1>7 DEF I, j, k

(* Deleting P and inserting it again leaves the union.                     *)
LEMMA EraseInsert ==
    ASSUME NEW S \in IndexSets, NEW P \in IndexSets
    PROVE  insert_at(erase_at(S, P), P) = S \cup P
  <1> DEFINE E == erase_at(S, P)
             I == insert_at(E, P)
  <1>1. E \in IndexSets /\ I \in IndexSets
    BY ErasedSet, InsertedSet
  <1>2. ASSUME NEW j \in Nat PROVE j \in I <=> j \in S \cup P
    <2>1. unshift(P, j) \in Nat /\ (j \notin P => shift(P, unshift(P, j)) = j)
      BY ShiftInverse
    <2>2. j \in I <=> j \in P \/ unshift(P, j) \in E
      BY <1>1, InInserted
    <2>3. unshift(P, j) \in E <=> shift(P, unshift(P, j)) \in S
      BY <2>1, InErased
    <2> QED BY <2>1, <2>2, <2>3
  <1>3. I \subseteq Nat /\ S \cup P \subseteq Nat
    BY <1>1, SetsAreFinite
  <1> HIDE DEF I
  <1>4. I = S \cup P
    BY <1>2, <1>3
  <1> QED BY <1>4 DEF I

(* It does not matter which of two sets is deleted first.                  *)
LEMMA EraseBoth ==
    ASSUME NEW S \in IndexSets, NEW P \in IndexSets, NEW j \in Nat \ (S \cup P)
    PROVE  unshift(erase_at(S, P), unshift(P, j)) = unshift(erase_at(P, S), unshift(S, j))
  <1>1. erase_at(S, P) \in IndexSets /\ erase_at(P, S) \in IndexSets
    BY ErasedSet
  <1>2. unshift(insert_at(erase_at(S, P), P), j) = unshift(erase_at(S, P), unshift(P, j))
    BY <1>1, UnshiftInserted
  <1>3. unshift(insert_at(erase_at(P, S), S), j) = unshift(erase_at(P, S), unshift(S, j))
    BY <1>1, UnshiftInserted
  <1>4. insert_at(erase_at(S, P), P) = insert_at(erase_at(P, S), S)
    <2>1. /\ insert_at(erase_at(S, P), P) = S \cup P
          /\ insert_at(erase_at(P, S), S) = P \cup S
      BY EraseInsert
    <2> QED BY <2>1
  <1> QED BY <1>2, <1>3, <1>4

LEMMA AddedIs ==
    ASSUME NEW S, NEW P, NEW V
    PROVE  add_shifted_by(S, P, V) = insert_at(erase_at(V, P), S)
BY DEF add_shifted_by, insert_at, shift_for_insert_at, erase_at

-----------------------------------------------------------------------------
(* Changes in a row.                                                       *)

IsChange(c) == c.deletions \in IndexSets /\ c.insertions \in IndexSets

(* Where a row that is not deleted is after a change.                      *)
Follow(c, i) == shift(c.insertions, unshift(c.deletions, i))

(* What merge() makes of two changes, before it drops stale moves.         *)
MergedChange(b, c) == [deletions |-> NewDeletions(b, c), insertions |-> NewInsertions(b, c)]

LEMMA FollowIs ==
    ASSUME NEW c, IsChange(c), NEW i \in Nat
    PROVE  /\ Follow(c, i) \in Nat \ c.insertions
           /\ unshift(c.insertions, Follow(c, i)) = unshift(c.deletions, i)
  <1>1. unshift(c.deletions, i) \in Nat
    BY UnshiftIs DEF IsChange
  <1> QED BY <1>1, ShiftIs DEF Follow, IsChange

LEMMA MergedIs ==
    ASSUME NEW b, NEW c, IsChange(b), IsChange(c)
    PROVE  /\ IsChange(MergedChange(b, c))
           /\ MergedChange(b, c).deletions = insert_at(erase_at(c.deletions, b.insertions), b.deletions)
           /\ MergedChange(b, c).insertions = insert_at(erase_at(b.insertions, c.deletions), c.insertions)
  <1> DEFINE E == erase_at(c.deletions, b.insertions)
             F == erase_at(b.insertions, c.deletions)
  <1>1. E \in IndexSets /\ F \in IndexSets
    BY ErasedSet DEF IsChange
  <1>2. insert_at(E, b.deletions) \in IndexSets /\ insert_at(F, c.insertions) \in IndexSets
    BY <1>1, InsertedSet DEF IsChange
  <1>3. /\ MergedChange(b, c).deletions = insert_at(E, b.deletions)
        /\ MergedChange(b, c).insertions = insert_at(F, c.insertions)
    BY AddedIs DEF MergedChange, NewDeletions, NewInsertions
  <1> QED BY <1>2, <1>3 DEF IsChange

LEMMA MergedDeletions ==
    ASSUME NEW b, NEW c, IsChange(b), IsChange(c), NEW i \in Nat
    PROVE  i \in MergedChange(b, c).deletions <=> i \in b.deletions \/ Follow(b, i) \in c.deletions
  <1> DEFINE E == erase_at(c.deletions, b.insertions)
  <1>1. E \in IndexSets
    BY ErasedSet DEF IsChange
  <1>2. i \in insert_at(E, b.deletions) <=> i \in b.deletions \/ unshift(b.deletions, i) \in E
    BY <1>1, InInserted DEF IsChange
  <1>3. unshift(b.deletions, i) \in Nat
    BY UnshiftIs DEF IsChange
  <1>4. unshift(b.deletions, i) \in E <=> Follow(b, i) \in c.deletions
    BY <1>3, InErased DEF IsChange, Follow
  <1> QED BY <1>2, <1>4, MergedIs

LEMMA MergedFollow ==
    ASSUME NEW b, NEW c, IsChange(b), IsChange(c), NEW i \in Nat, i \notin MergedChange(b, c).deletions
    PROVE  Follow(MergedChange(b, c), i) = Follow(c, Follow(b, i))
  <1> DEFINE E == erase_at(c.deletions, b.insertions)
             F == erase_at(b.insertions, c.deletions)
             j == Follow(b, i)
             u == unshift(b.deletions, i)
             w == unshift(c.deletions, j)
  <1>1. i \notin b.deletions /\ j \notin c.deletions
    BY MergedDeletions
  <1>2. j \in Nat \ b.insertions /\ unshift(b.insertions, j) = u
    BY FollowIs
  <1>3. E \in IndexSets /\ F \in IndexSets
    BY ErasedSet DEF IsChange
  <1>4. w \in Nat /\ shift(c.deletions, w) = j
    BY <1>1, <1>2, ShiftInverse DEF IsChange
  <1>5. w \notin F
    BY <1>2, <1>4, InErased DEF IsChange
  <1>6. unshift(MergedChange(b, c).deletions, i) = unshift(E, u)
    <2>1. unshift(insert_at(E, b.deletions), i) = unshift(E, u)
      BY <1>1, <1>3, UnshiftInserted DEF IsChange
    <2> QED BY <2>1, MergedIs
  <1>7. unshift(E, u) = unshift(F, w)
    BY <1>1, <1>2, EraseBoth DEF IsChange
  <1>8. unshift(F, w) \in Nat /\ shift(F, unshift(F, w)) = w
    BY <1>3, <1>4, <1>5, ShiftInverse
  <1>9. shift(insert_at(F, c.insertions), unshift(F, w)) = shift(c.insertions, w)
    BY <1>3, <1>8, ShiftInserted DEF IsChange
  <1>10. Follow(MergedChange(b, c), i) = shift(insert_at(F, c.insertions), unshift(F, w))
    BY <1>6, <1>7, MergedIs DEF Follow
  <1>11. Follow(c, j) = shift(c.insertions, w)
    BY DEF Follow
  <1> QED BY <1>9, <1>10, <1>11

LEMMA MergedInsertions ==
    ASSUME NEW b, NEW c, IsChange(b), IsChange(c), NEW k \in Nat
    PROVE  k \in MergedChange(b, c).insertions <=>
              \/ k \in c.insertions
              \/ \E j \in b.insertions \ c.deletions : k = Follow(c, j)
  <1> DEFINE F == erase_at(b.insertions, c.deletions)
             x == unshift(c.insertions, k)
             j == shift(c.deletions, x)
  <1>1. F \in IndexSets
    BY ErasedSet DEF IsChange
  <1>2. k \in MergedChange(b, c).insertions <=> k \in c.insertions \/ x \in F
    BY <1>1, MergedIs, InInserted DEF IsChange
  <1>3. x \in Nat /\ (k \notin c.insertions => shift(c.insertions, x) = k)
    BY ShiftInverse DEF IsChange
  <1>4. x \in F <=> j \in b.insertions
    BY <1>3, InErased DEF IsChange
  <1>5. j \in Nat \ c.deletions /\ unshift(c.deletions, j) = x
    BY <1>3, ShiftIs DEF IsChange
  <1>6. k \notin c.insertions => k = Follow(c, j)
    BY <1>3, <1>5 DEF Follow
  <1>7. ASSUME NEW m \in b.insertions \ c.deletions, k = Follow(c, m) PROVE m = j
    <2>1. m \in Nat /\ unshift(c.insertions, k) = unshift(c.deletions, m)
      BY <1>7, SetsAreFinite, FollowIs DEF IsChange
    <2>2. shift(c.deletions, unshift(c.deletions, m)) = m
      BY <1>7, <2>1, ShiftInverse DEF IsChange
    <2> QED BY <2>1, <2>2
  <1> HIDE DEF j
  <1> QED BY <1>2, <1>4, <1>5, <1>6, <1>7

(* merge() joins two changes: a row is deleted by the merged change when   *)
(* one of the two deletes it; a row that neither deletes is where the      *)
(* second change puts it after the first; what the merged change inserts   *)
(* is what the second inserts and what it keeps of the first's.  It is so  *)
(* for any deletions and insertions, interleaved in any way.               *)
THEOREM MergeFollowsRows ==
    ASSUME NEW b, NEW c, IsChange(b), IsChange(c)
    PROVE  LET m == MergedChange(b, c)
           IN  /\ IsChange(m)
               /\ \A i \in Nat :
                     i \in m.deletions <=> i \in b.deletions \/ Follow(b, i) \in c.deletions
               /\ \A i \in Nat \ m.deletions : Follow(m, i) = Follow(c, Follow(b, i))
               /\ \A k \in Nat : k \in m.insertions <=>
                     \/ k \in c.insertions
                     \/ \E j \in b.insertions \ c.deletions : k = Follow(c, j)
BY MergedIs, MergedDeletions, MergedFollow, MergedInsertions

-----------------------------------------------------------------------------
(* Changes of lists.                                                       *)

(* All of S is below n.                                                    *)
LEMMA UnshiftAll ==
    ASSUME NEW S \in IndexSets, NEW n \in Nat, S \subseteq 0..(n - 1)
    PROVE  unshift(S, n) = n - Cardinality(S) /\ n - Cardinality(S) \in Nat
  <1>1. \A s \in S : s < n
    OBVIOUS
  <1>2. Below(S, n) = S
    BY <1>1, Zenon DEF Below
  <1>3. Count(S, n) = Cardinality(S)
    BY <1>2 DEF Count
  <1> QED BY <1>3, UnshiftIs

LEMMA ShiftBelow ==
    ASSUME NEW S \in IndexSets, NEW n \in Nat, NEW i \in Nat, i < unshift(S, n)
    PROVE  shift(S, i) < n
  <1>1. shift(S, i) \in Nat /\ unshift(S, shift(S, i)) = i
    BY ShiftIs
  <1>2. n <= shift(S, i) => unshift(S, n) <= unshift(S, shift(S, i))
    BY <1>1, UnshiftOrder
  <1>3. unshift(S, n) \in Nat
    BY UnshiftIs
  <1> QED BY <1>1, <1>2, <1>3

(* The members of 0..(n - 1) that are not in S.                            *)
LEMMA KeptCount ==
    ASSUME NEW S \in IndexSets, NEW n \in Nat, S \subseteq 0..(n - 1)
    PROVE  Cardinality(0..(n - 1) \ S) = n - Cardinality(S)
  <1>1. IsFiniteSet(0..(n - 1)) /\ Cardinality(0..(n - 1)) = n
    <2>1. /\ IsFiniteSet(0..(n - 1))
          /\ Cardinality(0..(n - 1)) = IF 0 > n - 1 THEN 0 ELSE (n - 1) - 0 + 1
      BY FS_Interval
    <2> QED BY <2>1
  <1>2. 0..(n - 1) \cap S = S
    OBVIOUS
  <1>3. Cardinality(0..(n - 1) \ S) = Cardinality(0..(n - 1)) - Cardinality(0..(n - 1) \cap S)
    BY <1>1, FS_Difference
  <1> QED BY <1>1, <1>2, <1>3

LEMMA KeptBelow ==
    ASSUME NEW S \in IndexSets, NEW n \in Nat, NEW i \in 0..(n - 1)
    PROVE  Cardinality({j \in 0..(n - 1) \ S : j < i}) = unshift(S, i)
  <1> DEFINE B == Below(S, i)
  <1>1. i \in Nat /\ B \in IndexSets /\ S \subseteq Nat
    <2>1. i \in Nat
      OBVIOUS
    <2> QED BY <2>1, BelowIs, SetsAreFinite
  <1>2. B \subseteq 0..(i - 1)
    <2>1. \A s \in S : s < i => s \in 0..(i - 1)
      BY <1>1
    <2> QED BY <2>1, Zenon DEF Below
  <1>3. {j \in 0..(n - 1) \ S : j < i} = 0..(i - 1) \ B
    <2>1. \A j : j \in 0..(i - 1) <=> j \in 0..(n - 1) /\ j < i
      BY <1>1
    <2>2. \A j : j \in 0..(i - 1) \ B <=> j \in 0..(i - 1) /\ ~(j \in S /\ j < i)
      BY Zenon DEF Below
    <2> QED BY <2>1, <2>2, Zenon
  <1>4. Cardinality(0..(i - 1) \ B) = i - Cardinality(B)
    BY <1>1, <1>2, KeptCount
  <1> QED BY <1>1, <1>3, <1>4, UnshiftIs DEF Count

LEMMA WithoutIs ==
    ASSUME NEW E, NEW s \in Seq(E), NEW S \in IndexSets, S \subseteq Indices(s)
    PROVE  /\ Len(s) - Cardinality(S) \in Nat
           /\ Without(s, S) = [k \in 1..(Len(s) - Cardinality(S)) |-> At(s, shift(S, k - 1))]
  <1> DEFINE K == Indices(s) \ S
  <1>0. PICK n \in Nat : n = Len(s)
    BY LenProperties
  <1>1. Indices(s) = 0..(n - 1) /\ S \subseteq 0..(n - 1)
    BY <1>0 DEF Indices
  <1>2. n - Cardinality(S) \in Nat /\ unshift(S, n) = n - Cardinality(S)
    BY <1>1, UnshiftAll
  <1>3. Cardinality(K) = n - Cardinality(S)
    BY <1>1, KeptCount
  <1>4. ASSUME NEW k \in 1..(n - Cardinality(S))
        PROVE  (CHOOSE i \in K : Cardinality({j \in K : j < i}) = k - 1) = shift(S, k - 1)
    <2>1. k - 1 \in Nat /\ k - 1 < unshift(S, n)
      BY <1>2
    <2>2. shift(S, k - 1) \in Nat \ S /\ unshift(S, shift(S, k - 1)) = k - 1
      BY <2>1, ShiftIs
    <2>3. shift(S, k - 1) < n
      BY <2>1, ShiftBelow
    <2>4. shift(S, k - 1) \in K
      <3>1. shift(S, k - 1) \in 0..(n - 1)
        BY <2>2, <2>3
      <3> QED BY <1>1, <2>2, <3>1
    <2>5. \A i \in K : Cardinality({j \in K : j < i}) = unshift(S, i)
      BY <1>1, KeptBelow
    <2>6. \A i \in K : i \in Nat \ S
      BY <1>1
    <2>7. \A i \in K : unshift(S, i) = k - 1 => i = shift(S, k - 1)
      BY <2>2, <2>6, UnshiftInjective
    <2> HIDE DEF K
    <2> QED BY <2>2, <2>4, <2>5, <2>7
  <1>5. Without(s, S) = [k \in 1..(n - Cardinality(S)) |-> At(s, shift(S, k - 1))]
    <2>1. Without(s, S) = [k \in 1..Cardinality(K) |->
             At(s, CHOOSE i \in K : Cardinality({j \in K : j < i}) = k - 1)]
      BY DEF Without
    <2> HIDE DEF K
    <2> QED BY <1>3, <1>4, <2>1
  <1> QED BY <1>0, <1>2, <1>5

(* As many entries are kept in the two lists, and a kept one is where it   *)
(* is followed to.                                                         *)
Carries(c, pre, post) ==
    /\ c.deletions \subseteq Indices(pre) /\ c.insertions \subseteq Indices(post)
    /\ Len(pre) - Cardinality(c.deletions) = Len(post) - Cardinality(c.insertions)
    /\ \A i \in Indices(pre) \ c.deletions : At(post, Follow(c, i)) = At(pre, i)

LEMMA IndexIs ==
    ASSUME NEW E, NEW s \in Seq(E)
    PROVE  Len(s) \in Nat /\ \A i : i \in Indices(s) <=> i \in Nat /\ i < Len(s)
  <1>1. PICK n \in Nat : n = Len(s)
    BY LenProperties
  <1>2. \A i : i \in 0..(n - 1) <=> i \in Nat /\ i < n
    OBVIOUS
  <1> QED BY <1>1, <1>2 DEF Indices

LEMMA ReplaysIs ==
    ASSUME NEW E, NEW pre \in Seq(E), NEW post \in Seq(E), NEW c, IsChange(c)
    PROVE  Replays(c, pre, post) <=> Carries(c, pre, post)
  <1> DEFINE D == c.deletions
             I == c.insertions
             m == Len(pre) - Cardinality(D)
             n == Len(post) - Cardinality(I)
  <1> SUFFICES ASSUME D \subseteq Indices(pre), I \subseteq Indices(post)
               PROVE  Without(pre, D) = Without(post, I) <=>
                         m = n /\ \A i \in Indices(pre) \ D : At(post, Follow(c, i)) = At(pre, i)
    BY DEF Replays, Carries
  <1>1. D \in IndexSets /\ I \in IndexSets
    BY DEF IsChange
  <1>2. /\ m \in Nat /\ Without(pre, D) = [k \in 1..m |-> At(pre, shift(D, k - 1))]
        /\ n \in Nat /\ Without(post, I) = [k \in 1..n |-> At(post, shift(I, k - 1))]
    BY <1>1, WithoutIs
  <1>3. Len(pre) \in Nat /\ unshift(D, Len(pre)) = m
    <2>1. PICK l \in Nat : l = Len(pre)
      BY LenProperties
    <2>2. D \subseteq 0..(l - 1)
      BY <2>1 DEF Indices
    <2>3. unshift(D, l) = l - Cardinality(D)
      BY <1>1, <2>2, UnshiftAll
    <2> QED BY <2>1, <2>3
  <1>4. ASSUME NEW i \in Indices(pre) \ D
        PROVE  unshift(D, i) \in Nat /\ unshift(D, i) < m /\ shift(D, unshift(D, i)) = i
    <2>1. i \in Nat \ D /\ i < Len(pre)
      BY IndexIs
    <2>2. unshift(D, i) < unshift(D, Len(pre))
      BY <1>1, <1>3, <2>1, UnshiftOrder
    <2> QED BY <1>1, <1>3, <2>1, <2>2, ShiftInverse
  <1>5. ASSUME NEW k \in 1..m
        PROVE  /\ k - 1 \in Nat /\ shift(D, k - 1) \in Indices(pre) \ D
               /\ Follow(c, shift(D, k - 1)) = shift(I, k - 1)
    <2>1. k - 1 \in Nat /\ k - 1 < m
      BY <1>2
    <2>2. shift(D, k - 1) \in Nat \ D /\ unshift(D, shift(D, k - 1)) = k - 1
      BY <1>1, <2>1, ShiftIs
    <2>3. shift(D, k - 1) < Len(pre)
      BY <1>1, <1>3, <2>1, ShiftBelow
    <2> QED BY <2>1, <2>2, <2>3, IndexIs DEF Follow
  <1> HIDE DEF m, n, D, I
  <1>6. ASSUME Without(pre, D) = Without(post, I), NEW i \in Indices(pre) \ D
        PROVE  m = n /\ At(post, Follow(c, i)) = At(pre, i)
    <2>1. 1..m = 1..n
      BY <1>2, <1>6
    <2>2. m = n
      BY <1>2, <2>1
    <2>3. PICK k \in 1..m : k - 1 = unshift(D, i)
      <3>1. unshift(D, i) + 1 \in 1..m /\ (unshift(D, i) + 1) - 1 = unshift(D, i)
        BY <1>2, <1>4
      <3> QED BY <3>1
    <2>4. At(pre, shift(D, k - 1)) = At(post, shift(I, k - 1))
      <3>1. Without(pre, D)[k] = At(pre, shift(D, k - 1))
        BY <1>2
      <3>2. Without(post, I)[k] = At(post, shift(I, k - 1))
        BY <1>2, <2>1
      <3> QED BY <1>6, <3>1, <3>2
    <2> QED BY <1>4, <2>2, <2>3, <2>4 DEF Follow, D, I
  <1>7. ASSUME Without(pre, D) = Without(post, I) PROVE m = n
    <2>1. 1..m = 1..n
      BY <1>2, <1>7
    <2> QED BY <1>2, <2>1
  <1>8. ASSUME m = n, \A i \in Indices(pre) \ D : At(post, Follow(c, i)) = At(pre, i)
        PROVE  Without(pre, D) = Without(post, I)
    <2>1. \A k \in 1..m : At(pre, shift(D, k - 1)) = At(post, shift(I, k - 1))
      BY <1>5, <1>8
    <2> QED BY <1>2, <1>8, <2>1
  <1> QED BY <1>6, <1>7, <1>8

LEMMA ListBounds ==
    ASSUME NEW E, NEW s \in Seq(E), NEW S \in IndexSets, S \subseteq Indices(s)
    PROVE  /\ Len(s) \in Nat /\ Len(s) - Cardinality(S) \in Nat
           /\ unshift(S, Len(s)) = Len(s) - Cardinality(S)
  <1>1. PICK n \in Nat : n = Len(s)
    BY LenProperties
  <1>2. S \subseteq 0..(n - 1)
    BY <1>1 DEF Indices
  <1> QED BY <1>1, <1>2, UnshiftAll

(* A row is in the old list when the one it is followed to is in the new.  *)
LEMMA FollowBound ==
    ASSUME NEW E, NEW pre \in Seq(E), NEW post \in Seq(E), NEW c, IsChange(c),
           Carries(c, pre, post), NEW i \in Nat \ c.deletions
    PROVE  i \in Indices(pre) <=> Follow(c, i) \in Indices(post)
  <1> DEFINE j == Follow(c, i)
             D == c.deletions
             I == c.insertions
  <1>1. D \in IndexSets /\ I \in IndexSets /\ D \subseteq Indices(pre) /\ I \subseteq Indices(post)
    BY DEF IsChange, Carries
  <1>2. j \in Nat \ I /\ unshift(I, j) = unshift(D, i)
    BY FollowIs
  <1>3. PICK m \in Nat, n \in Nat : m = Len(pre) /\ n = Len(post)
    BY LenProperties
  <1>4. unshift(D, m) = unshift(I, n)
    BY <1>1, <1>3, ListBounds DEF Carries
  <1>5. /\ unshift(D, i) \in Nat /\ unshift(D, m) \in Nat
        /\ i < m => unshift(D, i) < unshift(D, m)
        /\ m <= i => unshift(D, m) <= unshift(D, i)
    BY <1>1, UnshiftIs, UnshiftOrder
  <1> HIDE DEF j
  <1>6. /\ j < n => unshift(I, j) < unshift(I, n)
        /\ n <= j => unshift(I, n) <= unshift(I, j)
    BY <1>1, <1>2, UnshiftOrder
  <1>7. i < m <=> j < n
    BY <1>2, <1>4, <1>5, <1>6
  <1>8. (i \in Indices(pre) <=> i < m) /\ (j \in Indices(post) <=> j < n)
    BY <1>2, <1>3, IndexIs
  <1> QED BY <1>7, <1>8 DEF j

(* How many entries the merged change deletes and inserts.                 *)
LEMMA MergedCounts ==
    ASSUME NEW b, NEW c, IsChange(b), IsChange(c)
    PROVE  LET n == Cardinality(b.insertions \cup c.deletions)
           IN  /\ n \in Nat
               /\ Cardinality(MergedChange(b, c).deletions) =
                     Cardinality(b.deletions) + (n - Cardinality(b.insertions))
               /\ Cardinality(MergedChange(b, c).insertions) =
                     Cardinality(c.insertions) + (n - Cardinality(c.deletions))
  <1> DEFINE I == b.insertions
             D == c.deletions
             n == Cardinality(I \cup D)
  <1>1. I \in IndexSets /\ D \in IndexSets /\ b.deletions \in IndexSets /\ c.insertions \in IndexSets
    BY DEF IsChange
  <1>2. /\ Cardinality(erase_at(D, I)) = Cardinality(D \ I) /\ erase_at(D, I) \in IndexSets
        /\ Cardinality(erase_at(I, D)) = Cardinality(I \ D) /\ erase_at(I, D) \in IndexSets
    BY <1>1, ErasedSet
  <1>3. /\ Cardinality(insert_at(erase_at(D, I), b.deletions)) =
              Cardinality(erase_at(D, I)) + Cardinality(b.deletions)
        /\ Cardinality(insert_at(erase_at(I, D), c.insertions)) =
              Cardinality(erase_at(I, D)) + Cardinality(c.insertions)
    BY <1>1, <1>2, InsertedSet
  <1>4. /\ Cardinality(b.deletions) \in Nat /\ Cardinality(c.insertions) \in Nat
        /\ IsFiniteSet(I) /\ Cardinality(I) \in Nat
        /\ IsFiniteSet(D) /\ Cardinality(D) \in Nat
    BY <1>1, SetsAreFinite
  <1>5. /\ Cardinality(D \ I) = Cardinality(D) - Cardinality(D \cap I)
        /\ Cardinality(I \ D) = Cardinality(I) - Cardinality(I \cap D)
    BY <1>4, FS_Difference
  <1>6. n = Cardinality(I) + Cardinality(D) - Cardinality(I \cap D)
    BY <1>4, FS_Union
  <1>7. Cardinality(I \cap D) \in Nat /\ n \in Nat
    <2>1. IsFiniteSet(I \cap D) /\ IsFiniteSet(I \cup D)
      BY <1>4, FS_Intersection, FS_Union
    <2> QED BY <2>1, FS_CardinalityType
  <1>8. D \cap I = I \cap D
    OBVIOUS
  <1>9. Cardinality(D \ I) = n - Cardinality(I) /\ Cardinality(I \ D) = n - Cardinality(D)
    <2>1. PICK d \in Nat, i \in Nat, x \in Nat :
             d = Cardinality(D) /\ i = Cardinality(I) /\ x = Cardinality(I \cap D)
      BY <1>4, <1>7
    <2> HIDE DEF D, I, n
    <2>2. Cardinality(D \ I) = d - x /\ Cardinality(I \ D) = i - x /\ n = i + (d - x)
      BY <1>5, <1>6, <1>8, <2>1
    <2> QED BY <2>1, <2>2
  <1> HIDE DEF n
  <1>10. /\ Cardinality(MergedChange(b, c).deletions) = Cardinality(erase_at(D, I)) + Cardinality(b.deletions)
         /\ Cardinality(MergedChange(b, c).insertions) = Cardinality(erase_at(I, D)) + Cardinality(c.insertions)
    BY <1>3, MergedIs
  <1>11. /\ Cardinality(MergedChange(b, c).deletions) = Cardinality(b.deletions) + (n - Cardinality(I))
         /\ Cardinality(MergedChange(b, c).insertions) = Cardinality(c.insertions) + (n - Cardinality(D))
    BY <1>2, <1>4, <1>7, <1>9, <1>10
  <1> QED BY <1>7, <1>11 DEF n

LEMMA MergedCarries ==
    ASSUME NEW E, NEW pre \in Seq(E), NEW mid \in Seq(E), NEW post \in Seq(E),
           NEW b, NEW c, IsChange(b), IsChange(c), Carries(b, pre, mid), Carries(c, mid, post)
    PROVE  Carries(MergedChange(b, c), pre, post)
  <1> DEFINE m == MergedChange(b, c)
  <1>1. IsChange(m) /\ m.deletions \subseteq Nat /\ m.insertions \subseteq Nat
    <2>1. IsChange(m)
      BY MergedIs
    <2> QED BY <2>1, SetsAreFinite DEF IsChange
  <1> HIDE DEF m
  <1>2. ASSUME NEW i \in m.deletions PROVE i \in Indices(pre)
    <2>1. i \in Nat /\ (i \in b.deletions \/ Follow(b, i) \in c.deletions)
      BY <1>1, MergedDeletions DEF m
    <2>2. CASE i \in b.deletions
      BY <2>2 DEF Carries
    <2>3. CASE i \notin b.deletions /\ Follow(b, i) \in c.deletions
      <3>1. Follow(b, i) \in Indices(mid)
        BY <2>3 DEF Carries
      <3> QED BY <2>1, <2>3, <3>1, FollowBound
    <2> QED BY <2>1, <2>2, <2>3
  <1>3. ASSUME NEW k \in m.insertions PROVE k \in Indices(post)
    <2>1. k \in Nat
      BY <1>1
    <2>2. k \in c.insertions \/ \E j \in b.insertions \ c.deletions : k = Follow(c, j)
      BY <2>1, MergedInsertions DEF m
    <2>3. CASE k \in c.insertions
      BY <2>3 DEF Carries
    <2>4. ASSUME NEW j \in b.insertions \ c.deletions, k = Follow(c, j) PROVE k \in Indices(post)
      <3>1. j \in Indices(mid)
        BY DEF Carries
      <3>2. j \in Nat \ c.deletions
        BY <3>1, IndexIs
      <3> QED BY <2>4, <3>1, <3>2, FollowBound
    <2> QED BY <2>2, <2>3, <2>4
  <1>4. Len(pre) - Cardinality(m.deletions) = Len(post) - Cardinality(m.insertions)
    <2>1. PICK n \in Nat : /\ Cardinality(m.deletions) =
                                 Cardinality(b.deletions) + (n - Cardinality(b.insertions))
                           /\ Cardinality(m.insertions) =
                                 Cardinality(c.insertions) + (n - Cardinality(c.deletions))
      BY MergedCounts DEF m
    <2>2. /\ Cardinality(b.deletions) \in Nat /\ Cardinality(b.insertions) \in Nat
          /\ Cardinality(c.deletions) \in Nat /\ Cardinality(c.insertions) \in Nat
      BY SetsAreFinite DEF IsChange
    <2>3. PICK x \in Nat, y \in Nat, z \in Nat : x = Len(pre) /\ y = Len(mid) /\ z = Len(post)
      BY LenProperties
    <2>4. PICK p \in Nat, q \in Nat, r \in Nat, t \in Nat :
             /\ p = Cardinality(b.deletions) /\ q = Cardinality(b.insertions)
             /\ r = Cardinality(c.deletions) /\ t = Cardinality(c.insertions)
      BY <2>2
    <2>5. x - p = y - q /\ y - r = z - t
      BY <2>3, <2>4 DEF Carries
    <2>6. Cardinality(m.deletions) = p + (n - q) /\ Cardinality(m.insertions) = t + (n - r)
      BY <2>1, <2>4
    <2>7. x - (p + (n - q)) = z - (t + (n - r))
      BY <2>5
    <2> QED BY <2>3, <2>6, <2>7
  <1>5. ASSUME NEW i \in Indices(pre) \ m.deletions PROVE At(post, Follow(m, i)) = At(pre, i)
    <2>1. i \in Nat /\ i \notin m.deletions
      BY IndexIs
    <2>2. i \notin b.deletions /\ Follow(b, i) \notin c.deletions
      BY <2>1, MergedDeletions DEF m
    <2>3. Follow(m, i) = Follow(c, Follow(b, i))
      BY <2>1, MergedFollow DEF m
    <2>4. Follow(b, i) \in Indices(mid)
      BY <2>1, <2>2, FollowBound
    <2>5. At(mid, Follow(b, i)) = At(pre, i)
      BY <2>2 DEF Carries
    <2>6. At(post, Follow(c, Follow(b, i))) = At(mid, Follow(b, i))
      BY <2>2, <2>4 DEF Carries
    <2> QED BY <2>3, <2>5, <2>6
  <1>6. Carries(m, pre, post)
    BY <1>2, <1>3, <1>4, <1>5 DEF Carries
  <1> QED BY <1>6 DEF m

(* Merging keeps what a callback relies on: if one change replays from a   *)
(* list to a second and the other from there to a third, what merge()      *)
(* makes of their deletions and insertions replays from the first to the   *)
(* third, whatever the lists and the changes are.                          *)
THEOREM MergeReplays ==
    ASSUME NEW E, NEW pre \in Seq(E), NEW mid \in Seq(E), NEW post \in Seq(E),
           NEW b, NEW c, IsChange(b), IsChange(c), Replays(b, pre, mid), Replays(c, mid, post)
    PROVE  Replays(MergedChange(b, c), pre, post)
  <1>1. Carries(b, pre, mid) /\ Carries(c, mid, post)
    BY ReplaysIs
  <1>2. Carries(MergedChange(b, c), pre, post)
    BY <1>1, MergedCarries
  <1> QED BY <1>2, MergedIs, ReplaysIs

-----------------------------------------------------------------------------
(* The entries of the log, each of which is a change by itself.            *)

LEMMA NoneShifts ==
    /\ {} \in IndexSets /\ Cardinality({}) = 0
    /\ \A i \in Nat : unshift({}, i) = i /\ shift({}, i) = i
    /\ \A S \in IndexSets : insert_at({}, S) = S /\ insert_at(S, {}) = S /\ erase_at(S, {}) = S
    /\ \A S : erase_at({}, S) = {}
  <1>1. {} \in IndexSets /\ Cardinality({}) = 0
    BY FS_EmptySet DEF IndexSets
  <1>2. ASSUME NEW i \in Nat PROVE unshift({}, i) = i
    <2>1. Below({}, i) = {}
      BY DEF Below
    <2>2. Count({}, i) = 0
      BY <1>1, <2>1 DEF Count
    <2> QED BY <1>1, <2>2, UnshiftIs
  <1>3. ASSUME NEW i \in Nat PROVE shift({}, i) = i
    BY <1>1, <1>2, ShiftIs
  <1>4. ASSUME NEW S \in IndexSets
        PROVE  insert_at({}, S) = S /\ insert_at(S, {}) = S /\ erase_at(S, {}) = S
    <2>1. \A s \in S : unshift({}, s) = s /\ shift({}, s) = s
      BY <1>2, <1>3, SetsAreFinite
    <2> QED BY <2>1 DEF insert_at, shift_for_insert_at, erase_at
  <1>5. \A S : erase_at({}, S) = {}
    BY DEF erase_at
  <1> QED BY <1>1, <1>2, <1>3, <1>4, <1>5

LEMMA SpanIs ==
    ASSUME NEW i \in Nat, NEW n \in Nat
    PROVE  /\ SpanOf(i, n) \in IndexSets /\ Cardinality(SpanOf(i, n)) = n
           /\ \A j \in Nat : shift(SpanOf(i, n), j) = IF j < i THEN j ELSE j + n
           /\ \A j \in Nat : unshift(SpanOf(i, n), IF j < i THEN j ELSE j + n) = j
  <1> DEFINE S == SpanOf(i, n)
             Up(j) == IF j < i THEN j ELSE j + n
  <1>1. S \in IndexSets /\ Cardinality(S) = n
    <2>1. /\ IsFiniteSet(i..(i + n - 1))
          /\ Cardinality(i..(i + n - 1)) = IF i > i + n - 1 THEN 0 ELSE (i + n - 1) - i + 1
      BY FS_Interval
    <2>2. i..(i + n - 1) \subseteq Nat
      OBVIOUS
    <2> QED BY <2>1, <2>2 DEF SpanOf, IndexSets
  <1>2. ASSUME NEW j \in Nat PROVE Up(j) \in Nat \ S /\ unshift(S, Up(j)) = j
    <2>1. CASE j < i
      <3>1. \A s \in S : ~(s < j)
        BY <2>1 DEF SpanOf
      <3>2. Below(S, j) = {}
        BY <3>1, Zenon DEF Below
      <3>3. Count(S, j) = 0
        BY <3>2, FS_EmptySet DEF Count
      <3>4. j \notin S
        BY <2>1 DEF SpanOf
      <3> QED BY <1>1, <2>1, <3>3, <3>4, UnshiftIs
    <2>2. CASE ~(j < i)
      <3>1. j + n \in Nat /\ S \subseteq 0..((j + n) - 1)
        BY <2>2 DEF SpanOf
      <3>2. unshift(S, j + n) = (j + n) - n
        BY <1>1, <3>1, UnshiftAll
      <3>3. j + n \notin S
        BY <2>2 DEF SpanOf
      <3> QED BY <2>2, <3>1, <3>2, <3>3
    <2> QED BY <2>1, <2>2
  <1>3. ASSUME NEW j \in Nat PROVE shift(S, j) = Up(j)
    <2>1. shift(S, j) \in Nat \ S /\ unshift(S, shift(S, j)) = j
      BY <1>1, ShiftIs
    <2> QED BY <1>1, <1>2, <2>1, UnshiftInjective
  <1> QED BY <1>1, <1>2, <1>3

(* new is old with count entries more at index, or without the one there.  *)
Inserts(pre, post, index, count) ==
    /\ Len(post) = Len(pre) + count
    /\ \A j \in Indices(pre) : At(post, IF j < index THEN j ELSE j + count) = At(pre, j)

Erases(pre, post, index) ==
    /\ Len(post) = Len(pre) - 1
    /\ \A j \in Indices(pre) \ {index} : At(post, IF j < index THEN j ELSE j - 1) = At(pre, j)

Insertion(index, count) == [deletions |-> {}, insertions |-> SpanOf(index, count)]

Deletion(index) == [deletions |-> {index}, insertions |-> {}]

LEMMA InsertionCarries ==
    ASSUME NEW E, NEW pre \in Seq(E), NEW post \in Seq(E), NEW index \in Nat, NEW count \in Nat,
           index <= Len(pre), Inserts(pre, post, index, count)
    PROVE  IsChange(Insertion(index, count)) /\ Carries(Insertion(index, count), pre, post)
  <1> DEFINE c == Insertion(index, count)
             S == SpanOf(index, count)
  <1>1. c.deletions = {} /\ c.insertions = S
    BY DEF Insertion
  <1>2. IsChange(c)
    BY <1>1, SpanIs, NoneShifts DEF IsChange
  <1>3. PICK m \in Nat, n \in Nat : m = Len(pre) /\ n = Len(post)
    BY LenProperties
  <1>4. n = m + count
    BY <1>3 DEF Inserts
  <1>5. S \subseteq Indices(post)
    BY <1>3, <1>4 DEF Indices, SpanOf
  <1>6. Len(pre) - Cardinality(c.deletions) = Len(post) - Cardinality(c.insertions)
    <2>1. Cardinality(c.deletions) = 0 /\ Cardinality(c.insertions) = count
      BY <1>1, SpanIs, NoneShifts
    <2> HIDE DEF c
    <2> QED BY <1>3, <1>4, <2>1
  <1>7. ASSUME NEW i \in Indices(pre) PROVE At(post, Follow(c, i)) = At(pre, i)
    <2>1. i \in Nat
      BY IndexIs
    <2>2. Follow(c, i) = IF i < index THEN i ELSE i + count
      <3>1. unshift({}, i) = i
        BY <2>1, NoneShifts
      <3>2. shift(S, i) = IF i < index THEN i ELSE i + count
        BY <2>1, SpanIs
      <3> HIDE DEF c, S
      <3> QED BY <1>1, <3>1, <3>2 DEF Follow
    <2> QED BY <2>2 DEF Inserts
  <1> HIDE DEF c
  <1>8. Carries(c, pre, post)
    BY <1>1, <1>5, <1>6, <1>7 DEF Carries
  <1> QED BY <1>2, <1>8 DEF c

LEMMA DeletionCarries ==
    ASSUME NEW E, NEW pre \in Seq(E), NEW post \in Seq(E), NEW index \in Indices(pre),
           Erases(pre, post, index)
    PROVE  IsChange(Deletion(index)) /\ Carries(Deletion(index), pre, post)
  <1> DEFINE c == Deletion(index)
             S == SpanOf(index, 1)
  <1>0. index \in Nat
    BY IndexIs
  <1>1. c.deletions = {index} /\ c.insertions = {}
    BY DEF Deletion
  <1>2. {index} = S
    BY <1>0 DEF SpanOf
  <1>3. IsChange(c)
    <2>1. S \in IndexSets
      BY <1>0, SpanIs
    <2> QED BY <1>1, <1>2, <2>1, NoneShifts DEF IsChange
  <1>4. Cardinality({index}) = 1
    BY FS_Singleton
  <1>5. PICK m \in Nat, n \in Nat : m = Len(pre) /\ n = Len(post)
    BY LenProperties
  <1>6. Len(pre) - Cardinality(c.deletions) = Len(post) - Cardinality(c.insertions)
    BY <1>1, <1>4, <1>5, NoneShifts DEF Erases
  <1>7. ASSUME NEW i \in Indices(pre) \ {index} PROVE At(post, Follow(c, i)) = At(pre, i)
    <2>1. i \in Nat /\ i # index
      BY IndexIs
    <2>2. unshift(S, i) = IF i < index THEN i ELSE i - 1
      <3>1. \A j \in Nat : unshift(S, IF j < index THEN j ELSE j + 1) = j
        BY <1>0, SpanIs
      <3>2. CASE i < index
        BY <2>1, <3>1, <3>2
      <3>3. CASE ~(i < index)
        <4>1. i - 1 \in Nat /\ ~(i - 1 < index) /\ (i - 1) + 1 = i
          BY <1>0, <2>1, <3>3
        <4>2. unshift(S, (i - 1) + 1) = i - 1
          BY <3>1, <4>1
        <4> QED BY <3>3, <4>1, <4>2
      <3> QED BY <3>2, <3>3
    <2>3. unshift(S, i) \in Nat
      BY <1>0, <2>1, <2>2
    <2>4. Follow(c, i) = IF i < index THEN i ELSE i - 1
      BY <1>1, <1>2, <2>2, <2>3, NoneShifts DEF Follow
    <2> QED BY <2>4 DEF Erases
  <1> HIDE DEF c
  <1>8. Carries(c, pre, post)
    BY <1>1, <1>6, <1>7 DEF Carries
  <1> QED BY <1>3, <1>8 DEF c

(* A builder; nothing is said of its mapping and columns.                  *)
Moves == [from : Nat, to : Nat]

IsBuilder(c) ==
    c \in [deletions : IndexSets, insertions : IndexSets, moves : Seq(Moves),
           mapping : {c.mapping}, cols : {c.cols}]

(* Only the deletions and the insertions matter.                           *)
LEMMA SameCarries ==
    ASSUME NEW b, NEW c, b.deletions = c.deletions, b.insertions = c.insertions,
           NEW pre, NEW post
    PROVE  (IsChange(b) <=> IsChange(c)) /\ (Carries(b, pre, post) <=> Carries(c, pre, post))
BY DEF IsChange, Carries, Follow

(* A row that is erased, as a change that is merged.                       *)
LEMMA ErasedRow ==
    ASSUME NEW D \in IndexSets, NEW I \in IndexSets, NEW i \in Nat
    PROVE  /\ erase_or_unshift(I, i) = npos <=> i \in I
           /\ insert_at(erase_at({i}, I), D) =
                 IF i \in I THEN D ELSE add_shifted(D, erase_or_unshift(I, i))
  <1>1. unshift(I, i) \in Nat
    BY UnshiftIs
  <1>2. erase_or_unshift(I, i) = npos <=> i \in I
    BY <1>1 DEF erase_or_unshift, npos
  <1>3. CASE i \in I
    <2>1. erase_at({i}, I) = {}
      BY <1>3 DEF erase_at
    <2> QED BY <1>2, <1>3, <2>1, NoneShifts
  <1>4. CASE i \notin I
    <2>1. erase_at({i}, I) = {unshift(I, i)}
      BY <1>4 DEF erase_at
    <2>2. insert_at({unshift(I, i)}, D) = {shift(D, unshift(I, i))} \cup D
      BY DEF insert_at, shift_for_insert_at
    <2> QED BY <1>2, <1>4, <2>1, <2>2 DEF add_shifted, erase_or_unshift
  <1> QED BY <1>3, <1>4

(* clear(): after all of the list is cleared the change deletes all of the *)
(* old one, whose size it knows from what was inserted and deleted.        *)
LEMMA ClearCarries ==
    ASSUME NEW E, NEW pre \in Seq(E), NEW l \in Seq(E), NEW all,
           NEW c, IsBuilder(c), Carries(c, pre, l)
    PROVE  IsChange(clear(c, Len(l), all)) /\ Carries(clear(c, Len(l), all), pre, <<>>)
  <1> DEFINE r == clear(c, Len(l), all)
  <1>1. IsChange(c) /\ Carries(c, pre, l)
    BY DEF IsBuilder, IsChange
  <1>2. PICK m \in Nat, n \in Nat : m = Len(pre) /\ n = Len(l)
    BY LenProperties
  <1>3. n + (Cardinality(c.deletions) - Cardinality(c.insertions)) = m
    <2>1. PICK p \in Nat, q \in Nat : p = Cardinality(c.deletions) /\ q = Cardinality(c.insertions)
      BY <1>1, SetsAreFinite DEF IsChange
    <2>2. m - p = n - q
      BY <1>1, <1>2, <2>1 DEF Carries
    <2>3. n + (p - q) = m
      BY <2>2
    <2> QED BY <2>1, <2>3
  <1>4. r.deletions = SpanOf(0, m) /\ r.insertions = {}
    <2>1. n # npos
      BY DEF npos
    <2>2. r = [NoChange(DOMAIN c.cols) EXCEPT !.deletions = SpanOf(0, m)]
      BY <1>2, <1>3, <2>1 DEF clear
    <2> HIDE DEF r
    <2> QED BY <2>2 DEF NoChange
  <1> HIDE DEF r
  <1>5. SpanOf(0, m) = Indices(pre)
    BY <1>2 DEF SpanOf, Indices
  <1>6. SpanOf(0, m) \in IndexSets /\ Cardinality(SpanOf(0, m)) = m
    BY SpanIs
  <1>7. IsChange(r)
    BY <1>4, <1>6, NoneShifts DEF IsChange
  <1>8. Carries(r, pre, <<>>)
    <2>1. Len(pre) - Cardinality(r.deletions) = 0
      BY <1>2, <1>4, <1>6
    <2>2. Len(<<>>) - Cardinality(r.insertions) = 0
      BY <1>4, NoneShifts
    <2> QED BY <1>4, <1>5, <2>1, <2>2 DEF Carries
  <1> QED BY <1>7, <1>8 DEF r

-----------------------------------------------------------------------------
(* Moves that are dropped.                                                 *)

LEMMA RemoveOne ==
    ASSUME NEW S \in IndexSets, NEW f \in S
    PROVE  /\ S \ {f} \in IndexSets /\ Cardinality(S \ {f}) = Cardinality(S) - 1
           /\ \A i \in Nat :
                 unshift(S \ {f}, i) = IF f < i THEN unshift(S, i) + 1 ELSE unshift(S, i)
  <1>1. f \in Nat /\ IsFiniteSet(S) /\ S \subseteq Nat
    BY SetsAreFinite
  <1>2. S \ {f} \in IndexSets
    BY PartOfSet
  <1>3. Cardinality(S \ {f}) = Cardinality(S) - 1
    BY <1>1, FS_RemoveElement
  <1>4. ASSUME NEW i \in Nat
        PROVE  unshift(S \ {f}, i) = IF f < i THEN unshift(S, i) + 1 ELSE unshift(S, i)
    <2>1. Below(S \ {f}, i) = Below(S, i) \ {f}
      BY DEF Below
    <2>2. IsFiniteSet(Below(S, i)) /\ Count(S, i) \in Nat
      BY BelowIs, SetsAreFinite
    <2>3. f \in Below(S, i) <=> f < i
      BY DEF Below
    <2>4. Cardinality(Below(S, i) \ {f}) =
             IF f \in Below(S, i) THEN Cardinality(Below(S, i)) - 1 ELSE Cardinality(Below(S, i))
      BY <2>2, FS_RemoveElement
    <2>5. Count(S \ {f}, i) = IF f < i THEN Count(S, i) - 1 ELSE Count(S, i)
      BY <2>1, <2>3, <2>4 DEF Count
    <2>6. unshift(S, i) = i - Count(S, i) /\ unshift(S \ {f}, i) = i - Count(S \ {f}, i)
      BY <1>2, UnshiftIs
    <2> QED BY <2>2, <2>5, <2>6
  <1> QED BY <1>2, <1>3, <1>4

(* shift() is where unshift() comes from.                                  *)
LEMMA ShiftEquals ==
    ASSUME NEW S \in IndexSets, NEW j \in Nat \ S, NEW i \in Nat, unshift(S, j) = i
    PROVE  shift(S, i) = j
  <1>1. shift(S, i) \in Nat \ S /\ unshift(S, shift(S, i)) = i
    BY ShiftIs
  <1> QED BY <1>1, UnshiftInjective

(* A deletion f and an insertion t of the same entry, with as many kept    *)
(* entries before them, can go.                                            *)
LEMMA DroppedCarries ==
    ASSUME NEW E, NEW pre \in Seq(E), NEW post \in Seq(E), NEW c, IsChange(c),
           Carries(c, pre, post), NEW f \in c.deletions, NEW t \in c.insertions,
           At(pre, f) = At(post, t), unshift(c.deletions, f) = unshift(c.insertions, t),
           NEW d, d.deletions = c.deletions \ {f}, d.insertions = c.insertions \ {t}
    PROVE  IsChange(d) /\ Carries(d, pre, post)
  <1> DEFINE D == c.deletions
             I == c.insertions
             D1 == D \ {f}
             I1 == I \ {t}
  <1>1. D \in IndexSets /\ I \in IndexSets /\ f \in Nat /\ t \in Nat
    BY SetsAreFinite DEF IsChange
  <1>2. /\ D1 \in IndexSets /\ Cardinality(D1) = Cardinality(D) - 1
        /\ \A i \in Nat : unshift(D1, i) = IF f < i THEN unshift(D, i) + 1 ELSE unshift(D, i)
    BY <1>1, RemoveOne
  <1>3. /\ I1 \in IndexSets /\ Cardinality(I1) = Cardinality(I) - 1
        /\ \A j \in Nat : unshift(I1, j) = IF t < j THEN unshift(I, j) + 1 ELSE unshift(I, j)
    BY <1>1, RemoveOne
  <1>4. IsChange(d)
    BY <1>2, <1>3 DEF IsChange
  <1>5. Len(pre) - Cardinality(D1) = Len(post) - Cardinality(I1)
    <2>1. PICK m \in Nat, n \in Nat : m = Len(pre) /\ n = Len(post)
      BY LenProperties
    <2>2. PICK p \in Nat, q \in Nat : p = Cardinality(D) /\ q = Cardinality(I)
      BY <1>1, SetsAreFinite
    <2>3. m - p = n - q
      BY <2>1, <2>2 DEF Carries
    <2>4. m - (p - 1) = n - (q - 1)
      BY <2>3
    <2> HIDE DEF D1, I1, D, I
    <2> QED BY <1>2, <1>3, <2>1, <2>2, <2>4
  <1>6. unshift(I, t) \in Nat /\ unshift(D, f) = unshift(I, t)
    BY <1>1, UnshiftIs
  <1>7. ASSUME NEW i \in Indices(pre) \ D1 PROVE At(post, shift(I1, unshift(D1, i))) = At(pre, i)
    <2>0. i \in Nat
      BY IndexIs
    <2>1. CASE i = f
      <3>1. unshift(D1, f) = unshift(D, f) /\ unshift(I1, t) = unshift(I, t) /\ t \notin I1
        <4>1. t \notin I1 /\ ~(f < f) /\ ~(t < t)
          BY <1>1
        <4> HIDE DEF D, I, D1, I1
        <4> QED BY <1>1, <1>2, <1>3, <4>1
      <3>2. shift(I1, unshift(D1, f)) = t
        BY <1>1, <1>3, <1>6, <3>1, ShiftEquals
      <3> QED BY <2>1, <3>2
    <2>2. CASE i # f
      <3> DEFINE j == Follow(c, i)
      <3>1. i \notin D /\ i \in Indices(pre)
        BY <2>2
      <3>2. At(post, j) = At(pre, i)
        BY <3>1 DEF Carries
      <3>3. j \in Nat \ I /\ unshift(I, j) = unshift(D, i) /\ unshift(D, i) \in Nat
        BY <1>1, <2>0, FollowIs, UnshiftIs
      <3>4. j # t
        BY <3>3
      <3> HIDE DEF j
      <3>5. j < t <=> i < f
        <4>1. /\ i < f => unshift(D, i) < unshift(D, f)
              /\ f <= i => unshift(D, f) <= unshift(D, i)
          BY <1>1, <2>0, <3>1, UnshiftOrder
        <4>2. /\ j < t => unshift(I, j) < unshift(I, t)
              /\ t <= j => unshift(I, t) <= unshift(I, j)
          BY <1>1, <3>3, UnshiftOrder
        <4> QED BY <1>1, <1>6, <2>0, <3>3, <4>1, <4>2
      <3>6. f < i <=> t < j
        BY <1>1, <2>0, <2>2, <3>3, <3>4, <3>5
      <3>7. unshift(I1, j) = unshift(D1, i) /\ unshift(D1, i) \in Nat /\ j \in Nat \ I1
        <4>1. j \in Nat \ I1
          BY <3>3
        <4> HIDE DEF D, I, D1, I1
        <4>2. /\ unshift(D1, i) = IF f < i THEN unshift(D, i) + 1 ELSE unshift(D, i)
              /\ unshift(I1, j) = IF t < j THEN unshift(I, j) + 1 ELSE unshift(I, j)
          BY <1>2, <1>3, <2>0, <3>3
        <4> QED BY <3>3, <3>6, <4>1, <4>2
      <3>8. shift(I1, unshift(D1, i)) = j
        BY <1>3, <3>7, ShiftEquals
      <3> QED BY <3>2, <3>8
    <2> QED BY <2>1, <2>2
  <1>8. Carries(d, pre, post)
    BY <1>5, <1>7 DEF Carries, Follow
  <1> QED BY <1>4, <1>8

(* clean_up_stale_moves() after the first k moves, as a function of k.     *)
Drops(g, base, ms, n) ==
    g = [k \in 0..n |-> IF k = 0 THEN base ELSE DropStale(g[k - 1], ms[k])]

LEMMA DropsExist ==
    ASSUME NEW base, NEW ms
    PROVE  \A n \in Nat : \E g : Drops(g, base, ms, n)
  <1> DEFINE T == {n \in Nat : ~\E g : Drops(g, base, ms, n)}
  <1> SUFFICES ASSUME T # {} PROVE FALSE
    OBVIOUS
  <1>1. PICK n \in T : \A m \in T : n <= m
    BY LeastOf
  <1>2. n \in Nat /\ ~\E g : Drops(g, base, ms, n)
    BY <1>1
  <1>3. CASE n = 0
    <2> DEFINE g == [k \in 0..0 |-> base]
    <2>1. Drops(g, base, ms, 0)
      BY DEF Drops
    <2> QED BY <1>2, <1>3, <2>1
  <1>4. CASE n # 0
    <2>1. n - 1 \in Nat /\ ~(n <= n - 1)
      BY <1>2, <1>4
    <2>2. n - 1 \notin T
      BY <1>1, <2>1
    <2>3. PICK g : Drops(g, base, ms, n - 1)
      BY <2>1, <2>2
    <2> DEFINE h == [k \in 0..n |-> IF k = n THEN DropStale(g[n - 1], ms[n]) ELSE g[k]]
    <2>4. \A k \in 0..(n - 1) : g[k] = IF k = 0 THEN base ELSE DropStale(g[k - 1], ms[k])
      BY <2>3 DEF Drops
    <2>5. ASSUME NEW k \in 0..n
          PROVE  h[k] = IF k = 0 THEN base ELSE DropStale(h[k - 1], ms[k])
      <3>1. CASE k = n
        <4>1. k # 0 /\ k - 1 \in 0..n /\ k - 1 # n
          BY <1>2, <1>4, <3>1
        <4>2. h[k] = DropStale(g[n - 1], ms[n]) /\ h[k - 1] = g[n - 1]
          BY <3>1, <4>1
        <4> HIDE DEF h
        <4> QED BY <3>1, <4>1, <4>2
      <3>2. CASE k # n
        <4>1. k \in 0..(n - 1) /\ h[k] = g[k]
          BY <1>2, <3>2
        <4>2. CASE k = 0
          BY <2>4, <4>1, <4>2
        <4>3. CASE k # 0
          <5>1. k - 1 \in 0..n /\ k - 1 # n
            BY <1>2, <4>1, <4>3
          <5>2. h[k - 1] = g[k - 1]
            BY <5>1
          <5> HIDE DEF h
          <5> QED BY <2>4, <4>1, <4>3, <5>2
        <4> QED BY <4>2, <4>3
      <3> QED BY <3>1, <3>2
    <2>6. h = [k \in 0..n |-> h[k]]
      OBVIOUS
    <2> HIDE DEF h
    <2>7. Drops(h, base, ms, n)
      BY <2>5, <2>6 DEF Drops
    <2> QED BY <1>2, <2>7
  <1> QED BY <1>3, <1>4

(* The moves of a change join a deletion and an insertion of the same      *)
(* entry, no row is moved twice, and an entry of K that is deleted is      *)
(* moved.                                                                  *)
Joins(c, pre, post) ==
    \A k \in DOMAIN c.moves :
        /\ c.moves[k].from \in c.deletions /\ c.moves[k].to \in c.insertions
        /\ At(pre, c.moves[k].from) = At(post, c.moves[k].to)

Distinct(ms) ==
    \A j, k \in DOMAIN ms : j # k => ms[j].from # ms[k].from /\ ms[j].to # ms[k].to

Tracks(c, pre, K) ==
    \A i \in c.deletions : At(pre, i) \in K =>
        \E k \in DOMAIN c.moves : c.moves[k].from = i

Describes(c, pre, post, K) ==
    /\ IsBuilder(c) /\ Carries(c, pre, post)
    /\ Joins(c, pre, post) /\ Distinct(c.moves) /\ Tracks(c, pre, K)

LEMMA JoinsIs ==
    ASSUME NEW c, NEW pre, NEW post
    PROVE  MovesJoin(c, pre, post) <=> Joins(c, pre, post)
BY DEF MovesJoin, Joins, ToSet

(* A builder by its parts.                                                 *)
LEMMA BuilderIs ==
    ASSUME NEW c, NEW D \in IndexSets, NEW I \in IndexSets, NEW ms \in Seq(Moves), NEW f, NEW cols,
           c = [deletions |-> D, insertions |-> I, moves |-> ms, mapping |-> f, cols |-> cols]
    PROVE  IsBuilder(c) /\ IsChange(c) /\ c.deletions = D /\ c.insertions = I /\ c.moves = ms
BY DEF IsBuilder, IsChange

LEMMA BuilderParts ==
    ASSUME NEW c, IsBuilder(c)
    PROVE  /\ IsChange(c) /\ c.moves \in Seq(Moves)
           /\ c.deletions \in IndexSets /\ c.insertions \in IndexSets
           /\ c = [deletions |-> c.deletions, insertions |-> c.insertions,
                   moves |-> c.moves, mapping |-> c.mapping, cols |-> c.cols]
BY DEF IsBuilder, IsChange

(* A builder in which parts are replaced.                                  *)
PutMoves(c, ms)     == [c EXCEPT !.moves = ms]
PutCols(c, cols)    == [c EXCEPT !.cols = cols]
PutSets(c, D, I)    == [c EXCEPT !.deletions = D, !.insertions = I]
PutAll(c, ms, D, I) == [c EXCEPT !.moves = ms, !.deletions = D, !.insertions = I]

LEMMA WithMoves ==
    ASSUME NEW c, IsBuilder(c), NEW ms \in Seq(Moves),
           NEW r, r = PutMoves(c, ms)
    PROVE  /\ IsBuilder(r) /\ IsChange(r)
           /\ r.deletions = c.deletions /\ r.insertions = c.insertions /\ r.moves = ms
  <1>1. PICK F, C : c \in [deletions : IndexSets, insertions : IndexSets, moves : Seq(Moves),
                            mapping : F, cols : C]
    BY DEF IsBuilder
  <1>2. /\ r \in [deletions : IndexSets, insertions : IndexSets, moves : Seq(Moves),
                   mapping : F, cols : C]
        /\ r.deletions = c.deletions /\ r.insertions = c.insertions /\ r.moves = ms
    BY <1>1 DEF PutMoves
  <1> QED BY <1>2 DEF IsBuilder, IsChange

LEMMA WithCols ==
    ASSUME NEW c, IsBuilder(c), NEW cols,
           NEW r, r = PutCols(c, cols)
    PROVE  /\ IsBuilder(r) /\ IsChange(r)
           /\ r.deletions = c.deletions /\ r.insertions = c.insertions /\ r.moves = c.moves
  <1>1. PICK F, C : c \in [deletions : IndexSets, insertions : IndexSets, moves : Seq(Moves),
                            mapping : F, cols : C]
    BY DEF IsBuilder
  <1>2. /\ r \in [deletions : IndexSets, insertions : IndexSets, moves : Seq(Moves),
                   mapping : F, cols : {cols}]
        /\ r.deletions = c.deletions /\ r.insertions = c.insertions /\ r.moves = c.moves
    BY <1>1 DEF PutCols
  <1> QED BY <1>2 DEF IsBuilder, IsChange

LEMMA WithSets ==
    ASSUME NEW c, IsBuilder(c), NEW D \in IndexSets, NEW I \in IndexSets,
           NEW r, r = PutSets(c, D, I)
    PROVE  /\ IsBuilder(r) /\ IsChange(r)
           /\ r.deletions = D /\ r.insertions = I /\ r.moves = c.moves
  <1>1. PICK F, C : c \in [deletions : IndexSets, insertions : IndexSets, moves : Seq(Moves),
                            mapping : F, cols : C]
    BY DEF IsBuilder
  <1>2. /\ r \in [deletions : IndexSets, insertions : IndexSets, moves : Seq(Moves),
                   mapping : F, cols : C]
        /\ r.deletions = D /\ r.insertions = I /\ r.moves = c.moves
    BY <1>1 DEF PutSets
  <1> QED BY <1>2 DEF IsBuilder, IsChange

LEMMA WithAll ==
    ASSUME NEW c, IsBuilder(c), NEW ms \in Seq(Moves), NEW D \in IndexSets, NEW I \in IndexSets,
           NEW r, r = PutAll(c, ms, D, I)
    PROVE  /\ IsBuilder(r) /\ IsChange(r)
           /\ r.deletions = D /\ r.insertions = I /\ r.moves = ms
  <1>1. PICK F, C : c \in [deletions : IndexSets, insertions : IndexSets, moves : Seq(Moves),
                            mapping : F, cols : C]
    BY DEF IsBuilder
  <1>2. /\ r \in [deletions : IndexSets, insertions : IndexSets, moves : Seq(Moves),
                   mapping : F, cols : C]
        /\ r.deletions = D /\ r.insertions = I /\ r.moves = ms
    BY <1>1 DEF PutAll
  <1> QED BY <1>2 DEF IsBuilder, IsChange

(* a is what is left when k of the moves ms are done.                      *)
Left(a, ms, k, pre, post, K) ==
    /\ IsBuilder(a) /\ Carries(a, pre, post) /\ Distinct(a.moves)
    /\ \A j \in DOMAIN ms : j > k => ms[j].from \in a.deletions /\ ms[j].to \in a.insertions
    /\ \A x \in DOMAIN a.moves :
          /\ a.moves[x].from \in a.deletions /\ a.moves[x].to \in a.insertions
          /\ \E j \in DOMAIN ms : j <= k /\ a.moves[x] = ms[j]
    /\ \A i \in a.deletions : At(pre, i) \in K =>
          \/ \E x \in DOMAIN a.moves : a.moves[x].from = i
          \/ \E j \in DOMAIN ms : j > k /\ ms[j].from = i

LEMMA AppendIs ==
    ASSUME NEW E, NEW s \in Seq(E), NEW e \in E
    PROVE  /\ Append(s, e) \in Seq(E)
           /\ \A x : x \in DOMAIN Append(s, e) <=> x \in DOMAIN s \/ x = Len(s) + 1
           /\ \A x \in DOMAIN s : Append(s, e)[x] = s[x] /\ x # Len(s) + 1
           /\ Append(s, e)[Len(s) + 1] = e
  <1>1. PICK n \in Nat : n = Len(s) /\ DOMAIN s = 1..n
    BY LenProperties
  <1>2. /\ Append(s, e) \in Seq(E) /\ DOMAIN Append(s, e) = 1..(n + 1)
        /\ \A x \in 1..n : Append(s, e)[x] = s[x]
        /\ Append(s, e)[n + 1] = e
    BY <1>1, AppendProperties
  <1>3. (\A x : x \in 1..(n + 1) <=> x \in 1..n \/ x = n + 1) /\ \A x \in 1..n : x # n + 1
    OBVIOUS
  <1> QED BY <1>1, <1>2, <1>3

LEMMA DropKept ==
    ASSUME NEW ms \in Seq(Moves), Distinct(ms), NEW k \in Nat, k + 1 \in DOMAIN ms,
           NEW pre, NEW post, NEW K, NEW a, Left(a, ms, k, pre, post, K),
           NEW r, r = PutMoves(a, Append(a.moves, ms[k + 1]))
    PROVE  Left(r, ms, k + 1, pre, post, K)
  <1> DEFINE m == ms[k + 1]
             q == Append(a.moves, m)
             n == Len(a.moves) + 1
  <1>1. m \in Moves /\ m.from \in a.deletions /\ m.to \in a.insertions
    BY DEF Left
  <1>2. IsBuilder(a) /\ Carries(a, pre, post) /\ IsChange(a) /\ a.moves \in Seq(Moves)
    BY BuilderParts DEF Left
  <1>3. \A j \in DOMAIN ms : (j <= k + 1 <=> j <= k \/ j = k + 1) /\ (j > k <=> j > k + 1 \/ j = k + 1)
    <2>1. DOMAIN ms \subseteq Nat
      OBVIOUS
    <2> QED BY <2>1
  <1>4. /\ q \in Seq(Moves) /\ \A x : x \in DOMAIN q <=> x \in DOMAIN a.moves \/ x = n
        /\ \A x \in DOMAIN a.moves : q[x] = a.moves[x] /\ x # n
        /\ q[n] = m
    BY <1>1, <1>2, AppendIs
  <1> HIDE DEF q, n
  <1>5. /\ IsBuilder(r) /\ r.deletions = a.deletions /\ r.insertions = a.insertions /\ r.moves = q
    <2>1. r = PutMoves(a, q) /\ q \in Seq(Moves)
      BY <1>4 DEF q
    <2> QED BY <1>2, <2>1, WithMoves
  <1>6. Carries(r, pre, post)
    BY <1>2, <1>5, SameCarries
  <1>7. \A x \in DOMAIN a.moves : \E j \in DOMAIN ms : j <= k /\ j # k + 1 /\ a.moves[x] = ms[j]
    <2>1. \A j \in DOMAIN ms : j <= k => j # k + 1
      <3>1. DOMAIN ms \subseteq Nat
        OBVIOUS
      <3> QED BY <3>1
    <2> QED BY <2>1 DEF Left
  <1>8. Distinct(q)
    <2>1. \A x \in DOMAIN a.moves : a.moves[x].from # m.from /\ a.moves[x].to # m.to
      BY <1>7 DEF Distinct
    <2>2. Distinct(a.moves)
      BY DEF Left
    <2> HIDE DEF m
    <2> QED BY <1>4, <2>1, <2>2 DEF Distinct
  <1>9. \A j \in DOMAIN ms : j > k + 1 => ms[j].from \in r.deletions /\ ms[j].to \in r.insertions
    BY <1>3, <1>5 DEF Left
  <1>10. ASSUME NEW x \in DOMAIN q
         PROVE  /\ q[x].from \in r.deletions /\ q[x].to \in r.insertions
                /\ \E j \in DOMAIN ms : j <= k + 1 /\ q[x] = ms[j]
    <2>1. CASE x \in DOMAIN a.moves
      BY <1>3, <1>4, <1>5, <2>1 DEF Left
    <2>2. CASE x = n
      <3>1. k + 1 <= k + 1
        OBVIOUS
      <3> QED BY <1>1, <1>4, <1>5, <2>2, <3>1
    <2> QED BY <1>4, <2>1, <2>2
  <1>11. ASSUME NEW i \in r.deletions, At(pre, i) \in K
         PROVE  \/ \E x \in DOMAIN q : q[x].from = i
                \/ \E j \in DOMAIN ms : j > k + 1 /\ ms[j].from = i
    <2>1. CASE \E x \in DOMAIN a.moves : a.moves[x].from = i
      BY <1>4, <2>1
    <2>2. CASE \E j \in DOMAIN ms : j > k /\ ms[j].from = i
      BY <1>3, <1>4, <2>2
    <2> QED BY <1>5, <1>11, <2>1, <2>2 DEF Left
  <1> QED BY <1>5, <1>6, <1>8, <1>9, <1>10, <1>11 DEF Left

LEMMA DropGone ==
    ASSUME NEW E, NEW pre \in Seq(E), NEW post \in Seq(E),
           NEW ms \in Seq(Moves), Distinct(ms), NEW k \in Nat, k + 1 \in DOMAIN ms,
           At(pre, ms[k + 1].from) = At(post, ms[k + 1].to),
           NEW K, NEW a, Left(a, ms, k, pre, post, K),
           unshift(a.deletions, ms[k + 1].from) = unshift(a.insertions, ms[k + 1].to),
           NEW r, r = PutSets(a, a.deletions \ {ms[k + 1].from}, a.insertions \ {ms[k + 1].to})
    PROVE  Left(r, ms, k + 1, pre, post, K)
  <1> DEFINE m == ms[k + 1]
             D == a.deletions \ {m.from}
             I == a.insertions \ {m.to}
  <1>1. m \in Moves /\ m.from \in a.deletions /\ m.to \in a.insertions
    BY DEF Left
  <1>2. IsBuilder(a) /\ Carries(a, pre, post) /\ IsChange(a) /\ a.moves \in Seq(Moves)
    BY BuilderParts DEF Left
  <1>3. \A j \in DOMAIN ms : /\ (j <= k => j # k + 1 /\ j <= k + 1)
                             /\ (j > k <=> j > k + 1 \/ j = k + 1) /\ (j > k + 1 => j # k + 1)
    <2>1. DOMAIN ms \subseteq Nat
      OBVIOUS
    <2> QED BY <2>1
  <1>4. D \in IndexSets /\ I \in IndexSets
    BY <1>2, PartOfSet DEF IsChange
  <1>5. \A j \in DOMAIN ms : j # k + 1 => ms[j].from # m.from /\ ms[j].to # m.to
    BY DEF Distinct
  <1> HIDE DEF D, I
  <1>6. IsBuilder(r) /\ r.deletions = D /\ r.insertions = I /\ r.moves = a.moves
    <2>1. r = PutSets(a, D, I)
      BY DEF D, I
    <2> QED BY <1>2, <1>4, <2>1, WithSets
  <1>7. Carries(r, pre, post)
    <2>1. r.deletions = a.deletions \ {m.from} /\ r.insertions = a.insertions \ {m.to}
      BY <1>6 DEF D, I
    <2> QED BY <1>1, <1>2, <2>1, DroppedCarries
  <1>8. \A j \in DOMAIN ms : j > k + 1 => ms[j].from \in D /\ ms[j].to \in I
    BY <1>3, <1>5 DEF Left, D, I
  <1>9. ASSUME NEW x \in DOMAIN a.moves
        PROVE  /\ a.moves[x].from \in D /\ a.moves[x].to \in I
               /\ \E j \in DOMAIN ms : j <= k + 1 /\ a.moves[x] = ms[j]
    <2>1. PICK j \in DOMAIN ms : j <= k /\ a.moves[x] = ms[j]
      BY DEF Left
    <2>2. j # k + 1 /\ j <= k + 1
      BY <1>3, <2>1
    <2>3. a.moves[x].from \in a.deletions /\ a.moves[x].to \in a.insertions
      BY DEF Left
    <2> QED BY <1>5, <2>1, <2>2, <2>3 DEF D, I
  <1>10. ASSUME NEW i \in D, At(pre, i) \in K
         PROVE  \/ \E x \in DOMAIN a.moves : a.moves[x].from = i
                \/ \E j \in DOMAIN ms : j > k + 1 /\ ms[j].from = i
    <2>1. i \in a.deletions /\ i # m.from
      BY DEF D
    <2> QED BY <1>3, <1>10, <2>1 DEF Left
  <1>11. Distinct(r.moves)
    BY <1>6 DEF Left
  <1>12. \A x \in DOMAIN r.moves :
            /\ r.moves[x].from \in r.deletions /\ r.moves[x].to \in r.insertions
            /\ \E j \in DOMAIN ms : j <= k + 1 /\ r.moves[x] = ms[j]
    BY <1>6, <1>9
  <1>13. \A j \in DOMAIN ms : j > k + 1 => ms[j].from \in r.deletions /\ ms[j].to \in r.insertions
    BY <1>6, <1>8
  <1>14. \A i \in r.deletions : At(pre, i) \in K =>
            \/ \E x \in DOMAIN r.moves : r.moves[x].from = i
            \/ \E j \in DOMAIN ms : j > k + 1 /\ ms[j].from = i
    BY <1>6, <1>10
  <1> QED BY <1>6, <1>7, <1>11, <1>12, <1>13, <1>14, Zenon DEF Left

LEMMA LeftStep ==
    ASSUME NEW E, NEW pre \in Seq(E), NEW post \in Seq(E),
           NEW ms \in Seq(Moves), Distinct(ms), NEW k \in Nat, k + 1 \in DOMAIN ms,
           At(pre, ms[k + 1].from) = At(post, ms[k + 1].to),
           NEW K, NEW a, Left(a, ms, k, pre, post, K)
    PROVE  Left(DropStale(a, ms[k + 1]), ms, k + 1, pre, post, K)
  <1> DEFINE m == ms[k + 1]
             r == DropStale(a, m)
  <1>1. CASE unshift(a.deletions, m.from) # unshift(a.insertions, m.to)
    <2>1. r = PutMoves(a, Append(a.moves, m))
      BY <1>1 DEF DropStale, PutMoves, PutSets
    <2> QED BY <2>1, DropKept
  <1>2. CASE unshift(a.deletions, m.from) = unshift(a.insertions, m.to)
    <2>1. r = PutSets(a, a.deletions \ {m.from}, a.insertions \ {m.to})
      BY <1>2 DEF DropStale, PutMoves, PutSets
    <2> QED BY <1>2, <2>1, DropGone
  <1> QED BY <1>1, <1>2

(* clean_up_stale_moves() keeps what a change says.                        *)
LEMMA CleanUpDescribes ==
    ASSUME NEW E, NEW pre \in Seq(E), NEW post \in Seq(E), NEW K,
           NEW c, Describes(c, pre, post, K)
    PROVE  Describes(clean_up_stale_moves(c), pre, post, K)
  <1> DEFINE ms == c.moves
             n == Len(ms)
             base == [c EXCEPT !.moves = <<>>]
             after == CHOOSE g : Drops(g, base, ms, n)
  <1>0. /\ IsBuilder(c) /\ Carries(c, pre, post) /\ Joins(c, pre, post)
        /\ Distinct(c.moves) /\ Tracks(c, pre, K)
    BY DEF Describes
  <1>1. /\ ms \in Seq(Moves) /\ n \in Nat /\ DOMAIN ms = 1..n /\ Distinct(ms)
        /\ \A i \in DOMAIN ms : At(pre, ms[i].from) = At(post, ms[i].to)
    <2>1. ms \in Seq(Moves)
      BY <1>0, BuilderParts
    <2>2. n \in Nat /\ DOMAIN ms = 1..n
      BY <2>1, LenProperties
    <2> QED BY <1>0, <2>1, <2>2 DEF Joins
  <1>2. clean_up_stale_moves(c) = after[n]
    BY DEF clean_up_stale_moves, Drops
  <1>3. Drops(after, base, ms, n)
    BY <1>1, DropsExist
  <1>4. Left(base, ms, 0, pre, post, K)
    <2>1. /\ base.deletions = c.deletions /\ base.insertions = c.insertions
          /\ base.moves = <<>> /\ IsBuilder(base)
      <3>1. <<>> \in Seq(Moves) /\ base = PutMoves(c, <<>>)
        BY DEF PutMoves
      <3> HIDE DEF base
      <3> QED BY <1>0, <3>1, WithMoves
    <2> HIDE DEF base
    <2>2. Carries(base, pre, post)
      BY <1>0, <2>1, SameCarries
    <2>3. \A j \in DOMAIN ms : ms[j].from \in base.deletions /\ ms[j].to \in base.insertions /\ j > 0
      BY <1>0, <1>1, <2>1 DEF Joins
    <2>4. DOMAIN base.moves = {}
      BY <2>1
    <2>5. Distinct(base.moves)
      BY <2>4 DEF Distinct
    <2>6. \A i \in base.deletions : At(pre, i) \in K => \E j \in DOMAIN ms : j > 0 /\ ms[j].from = i
      BY <1>0, <2>1, <2>3 DEF Tracks
    <2> QED BY <2>1, <2>2, <2>3, <2>4, <2>5, <2>6 DEF Left
  <1> HIDE DEF base, after
  <1>5. \A k \in 0..n : after[k] = IF k = 0 THEN base ELSE DropStale(after[k - 1], ms[k])
    BY <1>3 DEF Drops
  <1> DEFINE T == {k \in 0..n : ~Left(after[k], ms, k, pre, post, K)}
  <1>6. T = {}
    <2> SUFFICES ASSUME T # {} PROVE FALSE
      OBVIOUS
    <2>1. T \in SUBSET Nat
      BY <1>1
    <2>2. PICK k \in T : \A j \in T : k <= j
      BY <2>1, LeastOf
    <2>3. k \in 0..n /\ ~Left(after[k], ms, k, pre, post, K)
      BY <2>2
    <2>4. CASE k = 0
      BY <1>4, <1>5, <2>3, <2>4
    <2>5. CASE k # 0
      <3>1. PICK j \in Nat : k = j + 1
        <4>1. k - 1 \in Nat /\ k = (k - 1) + 1
          BY <1>1, <2>3, <2>5
        <4> QED BY <4>1
      <3>2. j \in 0..n /\ j + 1 \in DOMAIN ms /\ k - 1 = j /\ ~(k <= j)
        BY <1>1, <2>3, <3>1
      <3>3. j \notin T
        BY <2>2, <3>2
      <3>4. Left(after[j], ms, j, pre, post, K)
        BY <3>2, <3>3
      <3> HIDE DEF ms, T
      <3>6. Left(DropStale(after[j], ms[j + 1]), ms, j + 1, pre, post, K)
        BY <1>1, <3>2, <3>4, LeftStep
      <3>7. after[k] = DropStale(after[j], ms[j + 1])
        BY <1>5, <2>3, <2>5, <3>1, <3>2
      <3> QED BY <2>3, <3>1, <3>6, <3>7
    <2> QED BY <2>4, <2>5
  <1>7. n \in 0..n /\ \A j \in DOMAIN ms : ~(j > n)
    BY <1>1
  <1>8. Left(after[n], ms, n, pre, post, K)
    BY <1>6, <1>7
  <1> DEFINE r == after[n]
  <1> HIDE DEF T, ms, n, r
  <1>9. /\ IsBuilder(r) /\ Carries(r, pre, post) /\ Distinct(r.moves) /\ Left(r, ms, n, pre, post, K)
    BY <1>8 DEF r, Left
  <1>10. Joins(r, pre, post)
    <2> SUFFICES ASSUME NEW x \in DOMAIN r.moves
                 PROVE  /\ r.moves[x].from \in r.deletions /\ r.moves[x].to \in r.insertions
                        /\ At(pre, r.moves[x].from) = At(post, r.moves[x].to)
      BY DEF Joins
    <2>1. PICK j \in DOMAIN ms : r.moves[x] = ms[j]
      BY <1>9 DEF Left
    <2>2. At(pre, ms[j].from) = At(post, ms[j].to)
      BY <1>1
    <2>3. r.moves[x].from \in r.deletions /\ r.moves[x].to \in r.insertions
      BY <1>9 DEF Left
    <2> QED BY <2>1, <2>2, <2>3
  <1>11. Tracks(r, pre, K)
    BY <1>7, <1>9 DEF Tracks, Left
  <1> QED BY <1>2, <1>9, <1>10, <1>11 DEF r, Describes

-----------------------------------------------------------------------------
(* Sequences that are filtered, shortened or joined.                       *)

LEMMA FunctionIsSeq ==
    ASSUME NEW E, NEW n \in Nat, NEW f \in [1..n -> E]
    PROVE  f \in Seq(E) /\ Len(f) = n /\ DOMAIN f = 1..n
  <1>1. f \in Seq(E)
    BY SeqDef
  <1> QED BY <1>1, LenProperties

LEMMA Filtered ==
    ASSUME NEW E, NEW s \in Seq(E), NEW S \in SUBSET Indices(s), NEW q, q = Without(s, S)
    PROVE  /\ q \in Seq(E)
           /\ \A x \in DOMAIN q : \E y \in DOMAIN s : y - 1 \notin S /\ q[x] = s[y]
           /\ \A x, z \in DOMAIN q : x # z =>
                 \E y, w \in DOMAIN s : y # w /\ q[x] = s[y] /\ q[z] = s[w]
           /\ \A y \in DOMAIN s : y - 1 \notin S => \E x \in DOMAIN q : q[x] = s[y]
  <1>1. S \in IndexSets
    <2>1. Indices(s) \in IndexSets
      <3>1. Len(s) \in Nat
        OBVIOUS
      <3> QED BY <3>1, FS_Interval DEF Indices, IndexSets
    <2> QED BY <2>1, PartOfSet
  <1>2. PICK n \in Nat, p \in Nat :
          /\ n = Len(s) /\ DOMAIN s = 1..n /\ p = n - Cardinality(S) /\ p = unshift(S, n)
          /\ q = [k \in 1..p |-> At(s, shift(S, k - 1))]
    <2>1. Len(s) - Cardinality(S) \in Nat /\ unshift(S, Len(s)) = Len(s) - Cardinality(S)
      BY <1>1, ListBounds
    <2>2. q = [k \in 1..(Len(s) - Cardinality(S)) |-> At(s, shift(S, k - 1))]
      BY <1>1, WithoutIs
    <2> QED BY <2>1, <2>2, LenProperties
  <1>3. ASSUME NEW k \in 1..p
        PROVE  /\ k - 1 \in Nat /\ shift(S, k - 1) + 1 \in DOMAIN s
               /\ (shift(S, k - 1) + 1) - 1 \notin S
               /\ q[k] = s[shift(S, k - 1) + 1]
    <2>1. k - 1 \in Nat /\ k - 1 < unshift(S, n)
      BY <1>2
    <2>2. shift(S, k - 1) \in Nat \ S /\ shift(S, k - 1) < n
      BY <1>1, <2>1, ShiftBelow, ShiftInverse
    <2>3. shift(S, k - 1) + 1 \in 1..n /\ (shift(S, k - 1) + 1) - 1 = shift(S, k - 1)
      BY <2>2
    <2>4. q[k] = s[shift(S, k - 1) + 1]
      BY <1>2 DEF At
    <2> QED BY <1>2, <2>1, <2>2, <2>3, <2>4
  <1>4. q \in Seq(E) /\ DOMAIN q = 1..p
    <2>1. \A k \in 1..p : At(s, shift(S, k - 1)) \in E
      <3> SUFFICES ASSUME NEW k \in 1..p PROVE s[shift(S, k - 1) + 1] \in E
        BY DEF At
      <3> QED BY <1>3, ElementOfSeq, LenProperties
    <2>2. q \in [1..p -> E]
      BY <1>2, <2>1
    <2> QED BY <2>2, FunctionIsSeq
  <1>5. ASSUME NEW x \in 1..p, NEW z \in 1..p, x # z
        PROVE  shift(S, x - 1) + 1 # shift(S, z - 1) + 1
    <2>1. x - 1 \in Nat /\ z - 1 \in Nat /\ (x - 1 < z - 1 \/ z - 1 < x - 1)
      BY <1>5
    <2>2. PICK i \in Nat, j \in Nat : i = x - 1 /\ j = z - 1 /\ (i < j \/ j < i)
      BY <2>1
    <2>3. shift(S, i) \in Nat /\ shift(S, j) \in Nat /\ (shift(S, i) < shift(S, j) \/ shift(S, j) < shift(S, i))
      BY <1>1, <2>2, ShiftInverse
    <2> QED BY <2>2, <2>3
  <1>6. ASSUME NEW y \in 1..n, y - 1 \notin S
        PROVE  \E x \in 1..p : q[x] = s[y]
    <2>1. PICK j \in Nat : y - 1 = j /\ j < n /\ j \notin S /\ y = j + 1
      <3>1. y - 1 \in Nat /\ y - 1 < n /\ y = (y - 1) + 1
        BY <1>2
      <3> QED BY <1>6, <3>1
    <2>2. PICK i \in Nat : i = unshift(S, j) /\ i < p /\ shift(S, i) = j
      BY <1>1, <1>2, <2>1, ShiftInverse
    <2>3. i + 1 \in 1..p /\ (i + 1) - 1 = i
      BY <1>2, <2>2
    <2>4. q[i + 1] = s[shift(S, i) + 1]
      BY <1>3, <2>3
    <2> QED BY <2>1, <2>2, <2>3, <2>4
  <1>7. \A x \in DOMAIN q : \E y \in DOMAIN s : y - 1 \notin S /\ q[x] = s[y]
    BY <1>3, <1>4
  <1>8. ASSUME NEW x \in DOMAIN q, NEW z \in DOMAIN q, x # z
        PROVE  \E y, w \in DOMAIN s : y # w /\ q[x] = s[y] /\ q[z] = s[w]
    <2>1. shift(S, x - 1) + 1 # shift(S, z - 1) + 1
      BY <1>4, <1>5, <1>8
    <2>2. shift(S, x - 1) + 1 \in DOMAIN s /\ q[x] = s[shift(S, x - 1) + 1]
      BY <1>3, <1>4
    <2>3. shift(S, z - 1) + 1 \in DOMAIN s /\ q[z] = s[shift(S, z - 1) + 1]
      BY <1>3, <1>4
    <2> QED BY <2>1, <2>2, <2>3, Zenon
  <1>9. \A y \in DOMAIN s : y - 1 \notin S => \E x \in DOMAIN q : q[x] = s[y]
    BY <1>2, <1>4, <1>6
  <1> QED BY <1>4, <1>7, <1>8, <1>9

(* The moves that are left without those from, or to, an index in X.       *)
FilteredBy(s, S, q) ==
    /\ q \in Seq(Moves)
    /\ Distinct(s) => Distinct(q)
    /\ \A x \in DOMAIN q : \E y \in DOMAIN s : y - 1 \notin S /\ q[x] = s[y]
    /\ \A y \in DOMAIN s : y - 1 \notin S => \E x \in DOMAIN q : q[x] = s[y]

LEMMA FilteredMoves ==
    ASSUME NEW s \in Seq(Moves), NEW S \in SUBSET Indices(s)
    PROVE  FilteredBy(s, S, Without(s, S))
  <1> DEFINE q == Without(s, S)
  <1>1. /\ q \in Seq(Moves)
        /\ \A x \in DOMAIN q : \E y \in DOMAIN s : y - 1 \notin S /\ q[x] = s[y]
        /\ \A x, z \in DOMAIN q : x # z =>
              \E y, w \in DOMAIN s : y # w /\ q[x] = s[y] /\ q[z] = s[w]
        /\ \A y \in DOMAIN s : y - 1 \notin S => \E x \in DOMAIN q : q[x] = s[y]
    BY Filtered
  <1> HIDE DEF q
  <1>2. ASSUME Distinct(s) PROVE Distinct(q)
    <2> SUFFICES ASSUME NEW x \in DOMAIN q, NEW z \in DOMAIN q, x # z
                 PROVE  q[x].from # q[z].from /\ q[x].to # q[z].to
      BY DEF Distinct
    <2>1. PICK y \in DOMAIN s, w \in DOMAIN s : y # w /\ q[x] = s[y] /\ q[z] = s[w]
      BY <1>1
    <2> QED BY <1>2, <2>1 DEF Distinct
  <1> QED BY <1>1, <1>2 DEF FilteredBy, q

LEMMA EntryIndex ==
    ASSUME NEW E, NEW s \in Seq(E), NEW y \in DOMAIN s
    PROVE  y - 1 \in Indices(s) /\ At(s, y - 1) = s[y] /\ s[y] \in E
  <1>1. PICK n \in Nat : n = Len(s) /\ DOMAIN s = 1..n
    BY LenProperties
  <1>2. y - 1 \in 0..(n - 1) /\ (y - 1) + 1 = y
    BY <1>1
  <1>3. s[y] \in E
    BY <1>1, ElementOfSeq
  <1> QED BY <1>1, <1>2, <1>3 DEF Indices, At

FromLeft(s, X, q) ==
    /\ q \in Seq(Moves)
    /\ Distinct(s) => Distinct(q)
    /\ \A x \in DOMAIN q : \E y \in DOMAIN s : s[y].from \notin X /\ q[x] = s[y]
    /\ \A y \in DOMAIN s : s[y].from \notin X => \E x \in DOMAIN q : q[x] = s[y]

LEMMA FilteredFrom ==
    ASSUME NEW s \in Seq(Moves), NEW X
    PROVE  FromLeft(s, X, Without(s, {k \in Indices(s) : At(s, k).from \in X}))
  <1> DEFINE q == Without(s, {k \in Indices(s) : At(s, k).from \in X})
  <1>1. PICK S \in SUBSET Indices(s) : S = {k \in Indices(s) : At(s, k).from \in X}
    OBVIOUS
  <1>2. q = Without(s, S)
    BY <1>1
  <1>4. \A y \in DOMAIN s : y - 1 \in S <=> s[y].from \in X
    BY <1>1, EntryIndex
  <1> HIDE DEF q
  <1>3. /\ q \in Seq(Moves)
        /\ Distinct(s) => Distinct(q)
        /\ \A x \in DOMAIN q : \E y \in DOMAIN s : y - 1 \notin S /\ q[x] = s[y]
        /\ \A y \in DOMAIN s : y - 1 \notin S => \E x \in DOMAIN q : q[x] = s[y]
    <2>1. FilteredBy(s, S, q)
      BY <1>2, FilteredMoves
    <2> QED BY <2>1 DEF FilteredBy
  <1>5. FromLeft(s, X, q)
    BY <1>3, <1>4, Zenon DEF FromLeft
  <1> QED BY <1>5 DEF q

ToLeft(s, i, q) ==
    /\ q \in Seq(Moves)
    /\ Distinct(s) => Distinct(q)
    /\ \A x \in DOMAIN q : \E y \in DOMAIN s : s[y].to # i /\ q[x] = s[y]
    /\ \A y \in DOMAIN s : s[y].to # i => \E x \in DOMAIN q : q[x] = s[y]

LEMMA FilteredTo ==
    ASSUME NEW s \in Seq(Moves), NEW i
    PROVE  ToLeft(s, i, Without(s, {k \in Indices(s) : At(s, k).to = i}))
  <1> DEFINE q == Without(s, {k \in Indices(s) : At(s, k).to = i})
  <1>1. PICK S \in SUBSET Indices(s) : S = {k \in Indices(s) : At(s, k).to = i}
    OBVIOUS
  <1>2. q = Without(s, S)
    BY <1>1
  <1>4. \A y \in DOMAIN s : y - 1 \in S <=> s[y].to = i
    BY <1>1, EntryIndex
  <1> HIDE DEF q
  <1>3. /\ q \in Seq(Moves)
        /\ Distinct(s) => Distinct(q)
        /\ \A x \in DOMAIN q : \E y \in DOMAIN s : y - 1 \notin S /\ q[x] = s[y]
        /\ \A y \in DOMAIN s : y - 1 \notin S => \E x \in DOMAIN q : q[x] = s[y]
    <2>1. FilteredBy(s, S, q)
      BY <1>2, FilteredMoves
    <2> QED BY <2>1 DEF FilteredBy
  <1>5. ToLeft(s, i, q)
    BY <1>3, <1>4, Zenon DEF ToLeft
  <1> QED BY <1>5 DEF q

IsFront(E, t, n, q) ==
    /\ q \in Seq(E) /\ Len(q) = n - 1
    /\ \A j \in 1..(n - 1) : q[j] = t[j] /\ j \in 1..n

LEMMA FrontIs ==
    ASSUME NEW E, NEW t \in Seq(E), NEW n \in Nat, Len(t) = n, n > 0
    PROVE  IsFront(E, t, n, Front(t))
BY DEF Front, IsFront

(* The moves but one, whose place the last takes.                          *)
WithoutOne(s, k, q) ==
    /\ q \in Seq(Moves)
    /\ Distinct(s) => Distinct(q)
    /\ \A x \in DOMAIN q : \E y \in DOMAIN s : q[x] = s[y]
    /\ \A y \in DOMAIN s : y # k => \E x \in DOMAIN q : q[x] = s[y]

LEMMA SwapOut ==
    ASSUME NEW s \in Seq(Moves), NEW k \in DOMAIN s
    PROVE  WithoutOne(s, k, Front([s EXCEPT ![k] = Last(s)]))
  <1> DEFINE q == Front([s EXCEPT ![k] = Last(s)])
  <1>1. PICK n \in Nat : n = Len(s) /\ DOMAIN s = 1..n
    BY LenProperties
  <1>2. n \in 1..n /\ \A y \in 1..n : s[y] \in Moves
    <2>1. \A y \in 1..n : s[y] \in Moves
      BY <1>1, ElementOfSeq
    <2>2. n \in 1..n
      BY <1>1
    <2> QED BY <2>1, <2>2
  <1> DEFINE t == [s EXCEPT ![k] = s[n]]
  <1>3. /\ t \in Seq(Moves) /\ Len(t) = n
        /\ \A j \in 1..n : t[j] = IF j = k THEN s[n] ELSE s[j]
    BY <1>1, <1>2, ExceptSeq
  <1>4. q = Front(t)
    BY <1>1 DEF Last
  <1> HIDE DEF t, q
  <1>5. /\ q \in Seq(Moves) /\ Len(q) = n - 1
        /\ \A j \in 1..(n - 1) : q[j] = IF j = k THEN s[n] ELSE s[j]
    <2>1. t \in Seq(Moves) /\ Len(t) = n /\ n > 0
      BY <1>2, <1>3
    <2>2. IsFront(Moves, t, n, q)
      BY <1>4, <2>1, FrontIs
    <2> QED BY <1>3, <2>2 DEF IsFront
  <1>6. DOMAIN q = 1..(n - 1)
    BY <1>5, LenProperties
  <1>7. \A j \in 1..(n - 1) : j \in 1..n /\ j # n
    BY <1>1
  <1>8. ASSUME Distinct(s) PROVE Distinct(q)
    <2> SUFFICES ASSUME NEW x \in 1..(n - 1), NEW z \in 1..(n - 1), x # z
                 PROVE  q[x].from # q[z].from /\ q[x].to # q[z].to
      BY <1>6 DEF Distinct
    <2>1. PICK y \in DOMAIN s : q[x] = s[y] /\ y = IF x = k THEN n ELSE x
      BY <1>1, <1>2, <1>5, <1>7
    <2>2. PICK w \in DOMAIN s : q[z] = s[w] /\ w = IF z = k THEN n ELSE z
      BY <1>1, <1>2, <1>5, <1>7
    <2>3. y # w
      BY <1>7, <2>1, <2>2
    <2> QED BY <1>8, <2>1, <2>2, <2>3 DEF Distinct
  <1>9. ASSUME NEW y \in DOMAIN s, y # k PROVE \E x \in DOMAIN q : q[x] = s[y]
    <2>1. CASE y = n
      <3>1. k \in 1..(n - 1)
        BY <1>1, <1>9, <2>1
      <3> QED BY <1>5, <1>6, <2>1, <3>1
    <2>2. CASE y # n
      <3>1. y \in 1..(n - 1)
        BY <1>1, <2>2
      <3> QED BY <1>5, <1>6, <1>9, <3>1
    <2> QED BY <2>1, <2>2
  <1>10. \A x \in DOMAIN q : \E y \in DOMAIN s : q[x] = s[y]
    BY <1>1, <1>2, <1>5, <1>6, <1>7
  <1>11. WithoutOne(s, k, q)
    BY <1>5, <1>8, <1>9, <1>10 DEF WithoutOne
  <1> QED BY <1>11 DEF q

(* Moves one after the other.                                              *)
Joined(s, t, q) ==
    /\ q \in Seq(Moves)
    /\ \A x \in DOMAIN q : \/ \E y \in DOMAIN s : q[x] = s[y]
                           \/ \E y \in DOMAIN t : q[x] = t[y]
    /\ \A y \in DOMAIN s : \E x \in DOMAIN q : q[x] = s[y]
    /\ \A y \in DOMAIN t : \E x \in DOMAIN q : q[x] = t[y]
    /\ Distinct(s) /\ Distinct(t)
       /\ (\A y \in DOMAIN s, z \in DOMAIN t : s[y].from # t[z].from /\ s[y].to # t[z].to)
          => Distinct(q)

LEMMA JoinedMoves ==
    ASSUME NEW s \in Seq(Moves), NEW t \in Seq(Moves)
    PROVE  Joined(s, t, s \o t)
  <1> DEFINE q == s \o t
  <1>1. PICK m \in Nat, n \in Nat :
          m = Len(s) /\ DOMAIN s = 1..m /\ n = Len(t) /\ DOMAIN t = 1..n
    BY LenProperties
  <1>2. /\ q \in Seq(Moves) /\ Len(q) = m + n
        /\ \A i \in 1..(m + n) : q[i] = IF i <= m THEN s[i] ELSE t[i - m]
    BY <1>1, ConcatProperties
  <1> HIDE DEF q
  <1>3. DOMAIN q = 1..(m + n)
    BY <1>2, LenProperties
  <1>4. \A i \in 1..(m + n) : \/ i <= m /\ i \in 1..m
                              \/ ~(i <= m) /\ i - m \in 1..n
    BY <1>1
  <1>5. \A i \in 1..m : i <= m /\ i \in 1..(m + n)
    BY <1>1
  <1>6. \A i \in 1..n : ~(m + i <= m) /\ m + i \in 1..(m + n) /\ (m + i) - m = i
    BY <1>1
  <1>7. \A x \in DOMAIN q : (\E y \in DOMAIN s : q[x] = s[y]) \/ (\E y \in DOMAIN t : q[x] = t[y])
    BY <1>1, <1>2, <1>3, <1>4
  <1>8. \A y \in DOMAIN s : \E x \in DOMAIN q : q[x] = s[y]
    BY <1>1, <1>2, <1>3, <1>5
  <1>9. \A y \in DOMAIN t : \E x \in DOMAIN q : q[x] = t[y]
    <2> SUFFICES ASSUME NEW y \in 1..n PROVE \E x \in DOMAIN q : q[x] = t[y]
      BY <1>1
    <2>1. m + y \in 1..(m + n) /\ q[m + y] = t[y]
      BY <1>2, <1>6
    <2> QED BY <1>3, <2>1
  <1>10. ASSUME Distinct(s), Distinct(t),
                \A y \in DOMAIN s, z \in DOMAIN t : s[y].from # t[z].from /\ s[y].to # t[z].to
         PROVE  Distinct(q)
    <2> SUFFICES ASSUME NEW x \in DOMAIN q, NEW z \in DOMAIN q, x # z
                 PROVE  q[x].from # q[z].from /\ q[x].to # q[z].to
      BY DEF Distinct
    <2>1. \A i, j \in 1..(m + n) : i # j /\ ~(i <= m) /\ ~(j <= m) => i - m # j - m
      BY <1>1
    <2>2. CASE x <= m /\ z <= m
      BY <1>1, <1>2, <1>3, <1>4, <1>10, <2>2 DEF Distinct
    <2>3. CASE ~(x <= m) /\ ~(z <= m)
      <3>1. x - m # z - m /\ x - m \in DOMAIN t /\ z - m \in DOMAIN t
        BY <1>1, <1>3, <1>4, <2>1, <2>3
      <3>2. q[x] = t[x - m] /\ q[z] = t[z - m]
        BY <1>2, <1>3, <2>3
      <3> QED BY <1>10, <3>1, <3>2 DEF Distinct
    <2>4. CASE x <= m /\ ~(z <= m)
      <3>1. x \in DOMAIN s /\ z - m \in DOMAIN t /\ q[x] = s[x] /\ q[z] = t[z - m]
        BY <1>1, <1>2, <1>3, <1>4, <2>4
      <3> QED BY <1>10, <3>1
    <2>5. CASE ~(x <= m) /\ z <= m
      <3>1. z \in DOMAIN s /\ x - m \in DOMAIN t /\ q[z] = s[z] /\ q[x] = t[x - m]
        BY <1>1, <1>2, <1>3, <1>4, <2>5
      <3>2. s[z].from # t[x - m].from /\ s[z].to # t[x - m].to
        BY <1>10, <3>1
      <3> QED BY <3>1, <3>2
    <2> QED BY <2>2, <2>3, <2>4, <2>5
  <1>11. Joined(s, t, q)
    BY <1>2, <1>7, <1>8, <1>9, <1>10 DEF Joined
  <1> QED BY <1>11 DEF q

-----------------------------------------------------------------------------
(* What merge() makes of the older moves.                                  *)

(* The entry at i of the list before c is at t after c, or is there at all.*)
Goes(c, i, t) ==
    \/ \E y \in DOMAIN c.moves : c.moves[y].from = i /\ c.moves[y].to = t
    \/ i \notin c.deletions /\ t = Follow(c, i)

Stays(c, i) == i \notin c.deletions \/ \E y \in DOMAIN c.moves : c.moves[y].from = i

LEMMA GoesApart ==
    ASSUME NEW c, IsBuilder(c), Distinct(c.moves),
           \A y \in DOMAIN c.moves : c.moves[y].to \in c.insertions,
           NEW i \in Nat, NEW j \in Nat, i # j, NEW s, NEW t, Goes(c, i, s), Goes(c, j, t)
    PROVE  s # t
  <1>1. IsChange(c) /\ c.deletions \in IndexSets /\ c.insertions \in IndexSets
    BY BuilderParts
  <1>2. Follow(c, i) \notin c.insertions /\ Follow(c, j) \notin c.insertions
    BY <1>1, FollowIs
  <1>3. i \notin c.deletions /\ j \notin c.deletions => Follow(c, i) # Follow(c, j)
    <2>1. unshift(c.insertions, Follow(c, i)) = unshift(c.deletions, i)
      BY <1>1, FollowIs
    <2>2. unshift(c.insertions, Follow(c, j)) = unshift(c.deletions, j)
      BY <1>1, FollowIs
    <2>3. i \notin c.deletions /\ j \notin c.deletions => unshift(c.deletions, i) # unshift(c.deletions, j)
      BY <1>1, UnshiftInjective
    <2> QED BY <2>1, <2>2, <2>3
  <1>4. CASE \E y \in DOMAIN c.moves : c.moves[y].from = i /\ c.moves[y].to = s
    <2>1. CASE \E y \in DOMAIN c.moves : c.moves[y].from = j /\ c.moves[y].to = t
      BY <1>4, <2>1 DEF Distinct
    <2>2. CASE t = Follow(c, j)
      BY <1>2, <1>4, <2>2
    <2> QED BY <2>1, <2>2 DEF Goes
  <1>5. CASE i \notin c.deletions /\ s = Follow(c, i)
    <2>1. CASE \E y \in DOMAIN c.moves : c.moves[y].from = j /\ c.moves[y].to = t
      BY <1>2, <1>5, <2>1
    <2>2. CASE j \notin c.deletions /\ t = Follow(c, j)
      BY <1>3, <1>5, <2>2
    <2> QED BY <2>1, <2>2 DEF Goes
  <1> QED BY <1>4, <1>5 DEF Goes

(* a is what UpdateOldMoves(b, c) has after k older moves.                 *)
Updated(a, b, c, k) ==
    /\ a \in [old : Seq(Moves), moves : Seq(Moves), cols : {a.cols}]
    /\ Distinct(a.old) /\ Distinct(a.moves)
    /\ \A x \in DOMAIN a.moves : \E y \in DOMAIN c.moves : a.moves[x] = c.moves[y]
    /\ \A x \in DOMAIN a.old : \E j \in DOMAIN b.moves :
          j <= k /\ a.old[x].from = b.moves[j].from /\ Goes(c, b.moves[j].to, a.old[x].to)
    /\ \A j \in DOMAIN b.moves : j <= k /\ Stays(c, b.moves[j].to) =>
          \E x \in DOMAIN a.old : a.old[x].from = b.moves[j].from
    /\ \A y \in DOMAIN c.moves :
          \/ \E x \in DOMAIN a.moves : a.moves[x] = c.moves[y]
          \/ \E j \in DOMAIN b.moves : j <= k /\ b.moves[j].to = c.moves[y].from

(* Two changes whose moves merge() can follow.                             *)
MovesMerge(b, c) ==
    /\ IsBuilder(b) /\ Distinct(b.moves)
    /\ IsBuilder(c) /\ Distinct(c.moves)
    /\ \A y \in DOMAIN c.moves : c.moves[y].to \in c.insertions

(* What is left of the older moves, of which k are done.                   *)
OldMoves(q, b, c, k) ==
    /\ q \in Seq(Moves) /\ Distinct(q)
    /\ \A x \in DOMAIN q : \E j \in DOMAIN b.moves :
          j <= k /\ q[x].from = b.moves[j].from /\ Goes(c, b.moves[j].to, q[x].to)
    /\ \A j \in DOMAIN b.moves : j <= k /\ Stays(c, b.moves[j].to) =>
          \E x \in DOMAIN q : q[x].from = b.moves[j].from

LEMMA UpdatedOld ==
    ASSUME NEW b, NEW c, MovesMerge(b, c), NEW k \in Nat, k + 1 \in DOMAIN b.moves,
           NEW a, Updated(a, b, c, k), NEW t \in Nat, Goes(c, b.moves[k + 1].to, t),
           NEW f, f = b.moves[k + 1].from
    PROVE  OldMoves(Append(a.old, Move(f, t)), b, c, k + 1)
  <1> DEFINE q == Append(a.old, Move(f, t))
             n == Len(a.old) + 1
             m == Move(f, t)
  <1>1. /\ b.moves \in Seq(Moves) /\ DOMAIN b.moves \subseteq Nat
        /\ \A j \in DOMAIN b.moves : b.moves[j].from \in Nat /\ b.moves[j].to \in Nat
    <2>1. b.moves \in Seq(Moves)
      BY BuilderParts DEF MovesMerge
    <2>2. \A j \in DOMAIN b.moves : b.moves[j] \in Moves
      BY <2>1, EntryIndex
    <2> QED BY <2>1, <2>2 DEF Moves
  <1>2. m \in Moves /\ m.from = f /\ m.to = t
    BY <1>1 DEF Move, Moves
  <1>3. a.old \in Seq(Moves)
    BY DEF Updated
  <1>4. \A j \in DOMAIN b.moves : (j <= k + 1 <=> j <= k \/ j = k + 1) /\ (j <= k => j # k + 1)
    BY <1>1
  <1> HIDE DEF m
  <1>5. /\ q \in Seq(Moves) /\ \A x : x \in DOMAIN q <=> x \in DOMAIN a.old \/ x = n
        /\ \A x \in DOMAIN a.old : q[x] = a.old[x] /\ x # n
        /\ q[n] = m
    <2>1. q = Append(a.old, m)
      BY DEF m
    <2> QED BY <1>2, <1>3, <2>1, AppendIs
  <1> HIDE DEF n, q
  <1>6. \A x \in DOMAIN a.old : a.old[x].from # f /\ a.old[x].to # t
    <2> SUFFICES ASSUME NEW x \in DOMAIN a.old PROVE a.old[x].from # f /\ a.old[x].to # t
      OBVIOUS
    <2>1. PICK j \in DOMAIN b.moves :
            j <= k /\ a.old[x].from = b.moves[j].from /\ Goes(c, b.moves[j].to, a.old[x].to)
      BY DEF Updated
    <2>2. b.moves[j].from # f /\ b.moves[j].to # b.moves[k + 1].to
      BY <1>4, <2>1 DEF MovesMerge, Distinct
    <2>3. a.old[x].to # t
      <3>1. /\ IsBuilder(c) /\ Distinct(c.moves)
            /\ \A y \in DOMAIN c.moves : c.moves[y].to \in c.insertions
        BY DEF MovesMerge
      <3>2. b.moves[j].to \in Nat /\ b.moves[k + 1].to \in Nat
        BY <1>1
      <3> QED BY <2>1, <2>2, <3>1, <3>2, GoesApart
    <2> QED BY <2>1, <2>2, <2>3
  <1>7. Distinct(q)
    <2>1. Distinct(a.old)
      BY DEF Updated
    <2> QED BY <1>2, <1>5, <1>6, <2>1 DEF Distinct
  <1>8. ASSUME NEW x \in DOMAIN q
        PROVE  \E j \in DOMAIN b.moves :
                 j <= k + 1 /\ q[x].from = b.moves[j].from /\ Goes(c, b.moves[j].to, q[x].to)
    <2>1. CASE x = n
      <3>1. k + 1 <= k + 1
        OBVIOUS
      <3> QED BY <1>2, <1>5, <2>1, <3>1
    <2>2. CASE x \in DOMAIN a.old
      <3>1. PICK j \in DOMAIN b.moves :
              j <= k /\ a.old[x].from = b.moves[j].from /\ Goes(c, b.moves[j].to, a.old[x].to)
        BY <2>2 DEF Updated
      <3> QED BY <1>4, <1>5, <2>2, <3>1
    <2> QED BY <1>5, <2>1, <2>2
  <1>9. ASSUME NEW j \in DOMAIN b.moves, j <= k + 1, Stays(c, b.moves[j].to)
        PROVE  \E x \in DOMAIN q : q[x].from = b.moves[j].from
    <2>1. CASE j <= k
      <3>1. PICK x \in DOMAIN a.old : a.old[x].from = b.moves[j].from
        BY <1>9, <2>1 DEF Updated
      <3> QED BY <1>5, <3>1
    <2>2. CASE j = k + 1
      BY <1>2, <1>5, <2>2
    <2> QED BY <1>4, <1>9, <2>1, <2>2
  <1>10. OldMoves(q, b, c, k + 1)
    BY <1>5, <1>7, <1>8, <1>9 DEF OldMoves
  <1> QED BY <1>10 DEF q

LEMMA MinIs ==
    ASSUME NEW S \in SUBSET Nat, S # {}
    PROVE  Min(S) \in S
BY LeastOf DEF Min

LEMMA UpdatedStep ==
    ASSUME NEW b, NEW c, MovesMerge(b, c), NEW k \in Nat, k + 1 \in DOMAIN b.moves,
           NEW a, Updated(a, b, c, k)
    PROVE  Updated(UpdateOldMove(b, c, b.moves[k + 1], a), b, c, k + 1)
  <1> DEFINE m == b.moves[k + 1]
             hits == {x \in DOMAIN a.moves : a.moves[x].from = m.to}
             h == Min(hits)
             t == a.moves[h].to
             r == UpdateOldMove(b, c, m, a)
  <1>1. /\ b.moves \in Seq(Moves) /\ DOMAIN b.moves \subseteq Nat
        /\ m.from \in Nat /\ m.to \in Nat
    <2>1. b.moves \in Seq(Moves)
      BY BuilderParts DEF MovesMerge
    <2>2. m \in Moves
      BY <2>1, EntryIndex
    <2> QED BY <2>1, <2>2 DEF Moves
  <1>2. \A j \in DOMAIN b.moves : (j <= k + 1 <=> j <= k \/ j = k + 1) /\ (j <= k => j # k + 1)
    BY <1>1
  <1>3. /\ a.old \in Seq(Moves) /\ a.moves \in Seq(Moves)
        /\ \A x \in DOMAIN a.moves : a.moves[x].to \in Nat
    <2>1. a.old \in Seq(Moves) /\ a.moves \in Seq(Moves)
      BY DEF Updated
    <2>2. \A x \in DOMAIN a.moves : a.moves[x] \in Moves
      BY <2>1, EntryIndex
    <2> QED BY <2>1, <2>2 DEF Moves
  <1>4. CASE hits # {}
    <2> DEFINE q == Front([a.moves EXCEPT ![h] = Last(a.moves)])
               p == Append(a.old, Move(m.from, t))
    <2>1. h \in DOMAIN a.moves /\ a.moves[h].from = m.to /\ t \in Nat
      <3>1. hits \in SUBSET Nat
        BY <1>3
      <3>2. h \in hits
        <4> HIDE DEF hits
        <4> QED BY <1>4, <3>1, MinIs
      <3> QED BY <1>3, <3>2
    <2>2. r.old = p /\ r.moves = q /\ r = [old |-> p, moves |-> q, cols |-> r.cols]
      <3>1. r = [old |-> p, moves |-> q, cols |-> [n \in DOMAIN a.cols |->
                           IF m.to \in b.cols[n] THEN a.cols[n] \cup {t} ELSE a.cols[n]]]
        BY <1>4, Zenon DEF UpdateOldMove
      <3> HIDE DEF p, q, r, t
      <3> QED BY <3>1
    <2>3. PICK y \in DOMAIN c.moves : a.moves[h] = c.moves[y]
      BY <2>1 DEF Updated
    <2>4. Goes(c, m.to, t)
      BY <2>1, <2>3 DEF Goes
    <2> HIDE DEF h
    <2>5. /\ q \in Seq(Moves) /\ (Distinct(a.moves) => Distinct(q))
          /\ \A x \in DOMAIN q : \E z \in DOMAIN a.moves : q[x] = a.moves[z]
          /\ \A z \in DOMAIN a.moves : z # h => \E x \in DOMAIN q : q[x] = a.moves[z]
      <3>1. WithoutOne(a.moves, h, q)
        BY <1>3, <2>1, SwapOut
      <3> QED BY <3>1 DEF WithoutOne
    <2>6. OldMoves(p, b, c, k + 1)
      <3> HIDE DEF t
      <3> QED BY <2>1, <2>4, UpdatedOld
    <2> HIDE DEF p, q, r, m
    <2>7. r \in [old : Seq(Moves), moves : Seq(Moves), cols : {r.cols}]
      BY <2>2, <2>5, <2>6 DEF OldMoves
    <2>8. Distinct(r.moves) /\ \A x \in DOMAIN r.moves : \E z \in DOMAIN c.moves : r.moves[x] = c.moves[z]
      <3>1. /\ Distinct(a.moves)
            /\ \A x \in DOMAIN a.moves : \E z \in DOMAIN c.moves : a.moves[x] = c.moves[z]
        BY DEF Updated
      <3> QED BY <2>2, <2>5, <3>1
    <2>9. ASSUME NEW z \in DOMAIN c.moves
          PROVE  \/ \E x \in DOMAIN r.moves : r.moves[x] = c.moves[z]
                 \/ \E j \in DOMAIN b.moves : j <= k + 1 /\ b.moves[j].to = c.moves[z].from
      <3>1. CASE \E j \in DOMAIN b.moves : j <= k /\ b.moves[j].to = c.moves[z].from
        BY <1>2, <3>1
      <3>2. CASE \E x \in DOMAIN a.moves : a.moves[x] = c.moves[z]
        <4>1. PICK x \in DOMAIN a.moves : a.moves[x] = c.moves[z]
          BY <3>2
        <4>2. CASE x = h
          <5>1. c.moves[z].from = b.moves[k + 1].to /\ k + 1 <= k + 1
            BY <2>1, <4>1, <4>2 DEF m
          <5> QED BY <5>1
        <4>3. CASE x # h
          BY <2>2, <2>5, <4>1, <4>3
        <4> QED BY <4>2, <4>3
      <3> QED BY <3>1, <3>2 DEF Updated
    <2>10. Updated(r, b, c, k + 1)
      BY <2>2, <2>6, <2>7, <2>8, <2>9 DEF Updated, OldMoves
    <2> QED BY <2>10 DEF r, m
  <1>5. ASSUME hits = {}
        PROVE  \A y \in DOMAIN c.moves : c.moves[y].from # m.to
    <2> SUFFICES ASSUME NEW y \in DOMAIN c.moves, c.moves[y].from = m.to PROVE FALSE
      OBVIOUS
    <2>1. ~\E x \in DOMAIN a.moves : a.moves[x] = c.moves[y]
      BY <1>5
    <2>2. PICK j \in DOMAIN b.moves : j <= k /\ b.moves[j].to = m.to
      BY <2>1 DEF Updated
    <2> QED BY <1>2, <2>2 DEF MovesMerge, Distinct
  <1>6. CASE hits = {} /\ m.to \in c.deletions
    <2>1. r = a
      BY <1>6 DEF UpdateOldMove
    <2>2. ~Stays(c, m.to)
      BY <1>5, <1>6 DEF Stays
    <2>3. \A j \in DOMAIN b.moves : j <= k + 1 /\ Stays(c, b.moves[j].to) => j <= k
      BY <1>2, <2>2
    <2> HIDE DEF r, m
    <2>4. Updated(r, b, c, k + 1)
      BY <1>2, <2>1, <2>3 DEF Updated
    <2> QED BY <2>4 DEF r, m
  <1>7. CASE hits = {} /\ m.to \notin c.deletions
    <2> DEFINE s == Follow(c, m.to)
               p == Append(a.old, Move(m.from, s))
    <2>1. r = [a EXCEPT !.old = p]
      BY <1>7, Zenon DEF UpdateOldMove, Follow
    <2>2. s \in Nat /\ Goes(c, m.to, s)
      <3>1. IsChange(c)
        BY BuilderParts DEF MovesMerge
      <3> QED BY <1>1, <1>7, <3>1, FollowIs DEF Goes
    <2> HIDE DEF s
    <2>3. OldMoves(p, b, c, k + 1)
      BY <2>2, UpdatedOld
    <2> HIDE DEF p, r, m
    <2>4. r.old = p /\ r.moves = a.moves /\ r \in [old : Seq(Moves), moves : Seq(Moves), cols : {r.cols}]
      <3>1. PICK C : a \in [old : Seq(Moves), moves : Seq(Moves), cols : C]
        BY DEF Updated
      <3>2. r.old = p /\ r.moves = a.moves /\ r \in [old : Seq(Moves), moves : Seq(Moves), cols : C]
        BY <2>1, <2>3, <3>1 DEF OldMoves
      <3> QED BY <3>2
    <2>5. Distinct(r.moves) /\ \A x \in DOMAIN r.moves : \E z \in DOMAIN c.moves : r.moves[x] = c.moves[z]
      BY <2>4 DEF Updated
    <2>6. \A y \in DOMAIN c.moves :
            \/ \E x \in DOMAIN r.moves : r.moves[x] = c.moves[y]
            \/ \E j \in DOMAIN b.moves : j <= k + 1 /\ b.moves[j].to = c.moves[y].from
      BY <1>2, <2>4 DEF Updated
    <2>7. Updated(r, b, c, k + 1)
      BY <2>3, <2>4, <2>5, <2>6 DEF Updated, OldMoves
    <2> QED BY <2>7 DEF r, m
  <1> QED BY <1>4, <1>6, <1>7

(* UpdateOldMoves(b, c) after k older moves, as a function of k.           *)
NoneUpdated(c) == [old |-> <<>>, moves |-> c.moves, cols |-> c.cols]

Updates(g, b, c, n) ==
    g = [k \in 0..n |-> IF k = 0 THEN NoneUpdated(c) ELSE UpdateOldMove(b, c, b.moves[k], g[k - 1])]

LEMMA UpdatesExist ==
    ASSUME NEW b, NEW c
    PROVE  \A n \in Nat : \E g : Updates(g, b, c, n)
  <1> DEFINE T == {n \in Nat : ~\E g : Updates(g, b, c, n)}
  <1> SUFFICES ASSUME T # {} PROVE FALSE
    OBVIOUS
  <1>1. PICK n \in T : \A m \in T : n <= m
    BY LeastOf
  <1>2. n \in Nat /\ ~\E g : Updates(g, b, c, n)
    BY <1>1
  <1>3. CASE n = 0
    <2> DEFINE g == [k \in 0..0 |-> NoneUpdated(c)]
    <2>1. Updates(g, b, c, 0)
      BY DEF Updates
    <2> QED BY <1>2, <1>3, <2>1
  <1>4. CASE n # 0
    <2>1. n - 1 \in Nat /\ ~(n <= n - 1)
      BY <1>2, <1>4
    <2>2. n - 1 \notin T
      BY <1>1, <2>1
    <2>3. PICK g : Updates(g, b, c, n - 1)
      BY <2>1, <2>2
    <2> DEFINE h == [k \in 0..n |-> IF k = n THEN UpdateOldMove(b, c, b.moves[n], g[n - 1]) ELSE g[k]]
    <2>4. \A k \in 0..(n - 1) : g[k] = IF k = 0 THEN NoneUpdated(c) ELSE UpdateOldMove(b, c, b.moves[k], g[k - 1])
      BY <2>3 DEF Updates
    <2>5. ASSUME NEW k \in 0..n
          PROVE  h[k] = IF k = 0 THEN NoneUpdated(c) ELSE UpdateOldMove(b, c, b.moves[k], h[k - 1])
      <3>1. CASE k = n
        <4>1. k # 0 /\ k - 1 \in 0..n /\ k - 1 # n
          BY <1>2, <1>4, <3>1
        <4>2. h[k] = UpdateOldMove(b, c, b.moves[n], g[n - 1]) /\ h[k - 1] = g[n - 1]
          BY <3>1, <4>1
        <4> HIDE DEF h
        <4> QED BY <3>1, <4>1, <4>2
      <3>2. CASE k # n
        <4>1. k \in 0..(n - 1) /\ h[k] = g[k]
          BY <1>2, <3>2
        <4>2. CASE k = 0
          BY <2>4, <4>1, <4>2
        <4>3. CASE k # 0
          <5>1. k - 1 \in 0..n /\ k - 1 # n
            BY <1>2, <4>1, <4>3
          <5>2. h[k - 1] = g[k - 1]
            BY <5>1
          <5> HIDE DEF h
          <5> QED BY <2>4, <4>1, <4>3, <5>2
        <4> QED BY <4>2, <4>3
      <3> QED BY <3>1, <3>2
    <2>6. h = [k \in 0..n |-> h[k]]
      OBVIOUS
    <2> HIDE DEF h
    <2>7. Updates(h, b, c, n)
      BY <2>5, <2>6 DEF Updates
    <2> QED BY <1>2, <2>7
  <1> QED BY <1>3, <1>4


LEMMA NoneUpdatedIs ==
    ASSUME NEW b, NEW c, MovesMerge(b, c)
    PROVE  Updated(NoneUpdated(c), b, c, 0)
  <1> DEFINE base == NoneUpdated(c)
  <1>1. b.moves \in Seq(Moves) /\ c.moves \in Seq(Moves) /\ DOMAIN b.moves = 1..Len(b.moves)
    <2>1. b.moves \in Seq(Moves) /\ c.moves \in Seq(Moves)
      BY BuilderParts DEF MovesMerge
    <2> QED BY <2>1, LenProperties
  <1>2. /\ base.old = <<>> /\ base.moves = c.moves
        /\ base \in [old : Seq(Moves), moves : Seq(Moves), cols : {base.cols}]
    <2>1. <<>> \in Seq(Moves)
      OBVIOUS
    <2>2. PICK e \in Seq(Moves) : e = <<>>
      BY <2>1
    <2>3. base = [old |-> e, moves |-> c.moves, cols |-> c.cols]
      BY <2>2 DEF NoneUpdated
    <2> HIDE DEF base
    <2> QED BY <1>1, <2>2, <2>3
  <1> HIDE DEF base
  <1>3. DOMAIN base.old = {}
    BY <1>2
  <1>4. Distinct(base.old) /\ Distinct(base.moves)
    BY <1>2, <1>3 DEF Distinct, MovesMerge
  <1>5. \A j \in DOMAIN b.moves : ~(j <= 0)
    BY <1>1
  <1>6. Updated(base, b, c, 0)
    BY <1>2, <1>3, <1>4, <1>5 DEF Updated
  <1> QED BY <1>6 DEF base

LEMMA AllUpdated ==
    ASSUME NEW b, NEW c, MovesMerge(b, c)
    PROVE  Updated(UpdateOldMoves(b, c), b, c, Len(b.moves))
  <1> DEFINE ms == b.moves
             n == Len(ms)
             after == CHOOSE g : Updates(g, b, c, n)
             base == NoneUpdated(c)
  <1>1. ms \in Seq(Moves) /\ n \in Nat /\ DOMAIN ms = 1..n /\ c.moves \in Seq(Moves)
    <2>1. ms \in Seq(Moves) /\ c.moves \in Seq(Moves)
      BY BuilderParts DEF MovesMerge
    <2> QED BY <2>1, LenProperties
  <1>2. UpdateOldMoves(b, c) = after[n]
    BY DEF UpdateOldMoves, Updates, NoneUpdated
  <1>3. Updates(after, b, c, n)
    BY <1>1, UpdatesExist
  <1>4. Updated(base, b, c, 0)
    BY NoneUpdatedIs
  <1> HIDE DEF base, after
  <1>5. \A k \in 0..n : after[k] = IF k = 0 THEN base ELSE UpdateOldMove(b, c, ms[k], after[k - 1])
    BY <1>3 DEF Updates, base
  <1> DEFINE T == {k \in 0..n : ~Updated(after[k], b, c, k)}
  <1>6. T = {}
    <2> SUFFICES ASSUME T # {} PROVE FALSE
      OBVIOUS
    <2>1. T \in SUBSET Nat
      BY <1>1
    <2>2. PICK k \in T : \A j \in T : k <= j
      BY <2>1, LeastOf
    <2>3. k \in 0..n /\ ~Updated(after[k], b, c, k)
      BY <2>2
    <2>4. CASE k = 0
      BY <1>4, <1>5, <2>3, <2>4
    <2>5. CASE k # 0
      <3>1. PICK j \in Nat : k = j + 1
        <4>1. k - 1 \in Nat /\ k = (k - 1) + 1
          BY <1>1, <2>3, <2>5
        <4> QED BY <4>1
      <3>2. j \in 0..n /\ j + 1 \in DOMAIN ms /\ k - 1 = j /\ ~(k <= j)
        BY <1>1, <2>3, <3>1
      <3>3. j \notin T
        BY <2>2, <3>2
      <3>4. Updated(after[j], b, c, j)
        BY <3>2, <3>3
      <3> HIDE DEF T
      <3>6. Updated(UpdateOldMove(b, c, ms[j + 1], after[j]), b, c, j + 1)
        BY <1>1, <3>2, <3>4, UpdatedStep
      <3>7. after[k] = UpdateOldMove(b, c, ms[j + 1], after[j])
        BY <1>5, <2>3, <2>5, <3>1, <3>2
      <3> QED BY <2>3, <3>1, <3>6, <3>7
    <2> QED BY <2>4, <2>5
  <1>7. n \in 0..n
    BY <1>1
  <1> QED BY <1>2, <1>6, <1>7

(* The newer moves of rows that b does not touch, from where they were     *)
(* before b.                                                               *)
Back(b, f) == shift(b.deletions, unshift(b.insertions, f))

BackMoves(b, ms) == [k \in DOMAIN ms |-> [ms[k] EXCEPT !.from = Back(b, @)]]

LEMMA BackIs ==
    ASSUME NEW b, IsChange(b)
    PROVE  /\ \A f \in Nat \ b.insertions : Back(b, f) \in Nat \ b.deletions /\ Follow(b, Back(b, f)) = f
           /\ \A i \in Nat \ b.deletions : Back(b, Follow(b, i)) = i /\ Follow(b, i) \in Nat \ b.insertions
  <1>1. b.deletions \in IndexSets /\ b.insertions \in IndexSets
    BY DEF IsChange
  <1>2. ASSUME NEW f \in Nat \ b.insertions
        PROVE  Back(b, f) \in Nat \ b.deletions /\ Follow(b, Back(b, f)) = f
    <2>1. PICK i \in Nat : i = unshift(b.insertions, f) /\ shift(b.insertions, i) = f
      BY <1>1, ShiftInverse
    <2>2. shift(b.deletions, i) \in Nat \ b.deletions /\ unshift(b.deletions, shift(b.deletions, i)) = i
      BY <1>1, ShiftInverse
    <2> QED BY <2>1, <2>2 DEF Back, Follow
  <1>3. ASSUME NEW i \in Nat \ b.deletions
        PROVE  Back(b, Follow(b, i)) = i /\ Follow(b, i) \in Nat \ b.insertions
    <2>1. Follow(b, i) \in Nat \ b.insertions /\ unshift(b.insertions, Follow(b, i)) = unshift(b.deletions, i)
      BY FollowIs
    <2>2. shift(b.deletions, unshift(b.deletions, i)) = i
      BY <1>1, ShiftInverse
    <2> QED BY <2>1, <2>2 DEF Back
  <1> QED BY <1>2, <1>3

LEMMA BackMovesAre ==
    ASSUME NEW b, IsChange(b), NEW ms \in Seq(Moves), NEW q, q = BackMoves(b, ms)
    PROVE  /\ q \in Seq(Moves) /\ DOMAIN q = DOMAIN ms
           /\ \A x \in DOMAIN ms : q[x].from = Back(b, ms[x].from) /\ q[x].to = ms[x].to
  <1>1. PICK n \in Nat : n = Len(ms) /\ DOMAIN ms = 1..n
    BY LenProperties
  <1>2. ASSUME NEW x \in DOMAIN ms
        PROVE  /\ q[x] \in Moves /\ ms[x].from \in Nat
               /\ q[x].from = Back(b, ms[x].from) /\ q[x].to = ms[x].to
    <2>1. ms[x] \in Moves /\ ms[x].from \in Nat
      <3>1. ms[x] \in Moves
        BY EntryIndex
      <3> QED BY <3>1 DEF Moves
    <2>2. Back(b, ms[x].from) \in Nat
      <3>1. b.deletions \in IndexSets /\ b.insertions \in IndexSets
        BY DEF IsChange
      <3>2. unshift(b.insertions, ms[x].from) \in Nat
        BY <2>1, <3>1, ShiftInverse
      <3>3. shift(b.deletions, unshift(b.insertions, ms[x].from)) \in Nat
        BY <3>1, <3>2, ShiftIs
      <3> QED BY <3>3 DEF Back
    <2>3. q[x] = [ms[x] EXCEPT !.from = Back(b, ms[x].from)]
      BY DEF BackMoves
    <2> QED BY <2>1, <2>2, <2>3 DEF Moves
  <1>3. q \in [1..n -> Moves] /\ DOMAIN q = DOMAIN ms
    <2>1. DOMAIN q = DOMAIN ms /\ q = [x \in DOMAIN ms |-> q[x]]
      BY DEF BackMoves
    <2> QED BY <1>1, <1>2, <2>1
  <1> QED BY <1>2, <1>3, FunctionIsSeq

(* The moves of both changes, as merge() joins them.                       *)
KeptMoves(b, u) ==
    Without(u.moves, {k \in Indices(u.moves) : At(u.moves, k).from \in b.insertions})

BothMoves(b, u) == u.old \o BackMoves(b, KeptMoves(b, u))

(* The moves of two changes in a row, and where they come from.            *)
AreBoth(q, b, c) ==
    /\ q \in Seq(Moves) /\ Distinct(q)
    /\ \A x \in DOMAIN q :
          \/ \E j \in DOMAIN b.moves : q[x].from = b.moves[j].from /\ Goes(c, b.moves[j].to, q[x].to)
          \/ \E y \in DOMAIN c.moves : /\ c.moves[y].from \notin b.insertions
                                       /\ q[x].from = Back(b, c.moves[y].from)
                                       /\ q[x].to = c.moves[y].to
    /\ \A j \in DOMAIN b.moves : Stays(c, b.moves[j].to) =>
          \E x \in DOMAIN q : q[x].from = b.moves[j].from
    /\ \A y \in DOMAIN c.moves : c.moves[y].from \notin b.insertions =>
          \E x \in DOMAIN q : q[x].from = Back(b, c.moves[y].from)

LEMMA BothMovesAre ==
    ASSUME NEW b, NEW c, MovesMerge(b, c), NEW n, NEW u, Updated(u, b, c, n),
           \A y \in DOMAIN b.moves : b.moves[y].from \in b.deletions /\ b.moves[y].to \in b.insertions,
           \A j \in DOMAIN b.moves : j <= n,
           NEW q, q = BothMoves(b, u)
    PROVE  AreBoth(q, b, c)
  <1> DEFINE k == KeptMoves(b, u)
             r == BackMoves(b, k)
  <1>1. IsChange(b) /\ IsChange(c) /\ c.moves \in Seq(Moves) /\ IsBuilder(c)
    BY BuilderParts DEF MovesMerge
  <1>2. u.old \in Seq(Moves) /\ u.moves \in Seq(Moves) /\ Distinct(u.old) /\ Distinct(u.moves)
    BY DEF Updated
  <1>3. /\ k \in Seq(Moves) /\ Distinct(k)
        /\ \A x \in DOMAIN k : \E y \in DOMAIN u.moves : u.moves[y].from \notin b.insertions /\ k[x] = u.moves[y]
        /\ \A y \in DOMAIN u.moves : u.moves[y].from \notin b.insertions => \E x \in DOMAIN k : k[x] = u.moves[y]
    <2>1. FromLeft(u.moves, b.insertions, k)
      BY <1>2, FilteredFrom DEF KeptMoves
    <2> QED BY <1>2, <2>1 DEF FromLeft
  <1> HIDE DEF k
  <1>4. /\ r \in Seq(Moves) /\ DOMAIN r = DOMAIN k
        /\ \A x \in DOMAIN k : r[x].from = Back(b, k[x].from) /\ r[x].to = k[x].to
    BY <1>1, <1>3, BackMovesAre
  <1> HIDE DEF r
  <1>5. ASSUME NEW x \in DOMAIN k
        PROVE  \E y \in DOMAIN c.moves : /\ c.moves[y].from \notin b.insertions /\ k[x] = c.moves[y]
                                         /\ r[x].from = Back(b, c.moves[y].from)
                                         /\ r[x].to = c.moves[y].to
                                         /\ c.moves[y].from \in Nat
    <2>1. PICK z \in DOMAIN u.moves : u.moves[z].from \notin b.insertions /\ k[x] = u.moves[z]
      BY <1>3
    <2>2. PICK y \in DOMAIN c.moves : u.moves[z] = c.moves[y]
      BY DEF Updated
    <2>3. c.moves[y].from \in Nat
      <3>1. c.moves[y] \in Moves
        BY <1>1, EntryIndex
      <3> QED BY <3>1 DEF Moves
    <2> QED BY <1>4, <2>1, <2>2, <2>3
  <1>6. Distinct(r)
    <2> SUFFICES ASSUME NEW x \in DOMAIN k, NEW z \in DOMAIN k, x # z
                 PROVE  r[x].from # r[z].from /\ r[x].to # r[z].to
      BY <1>4 DEF Distinct
    <2>1. k[x].from # k[z].from /\ k[x].to # k[z].to
      BY <1>3 DEF Distinct
    <2>2. k[x].from \in Nat \ b.insertions /\ k[z].from \in Nat \ b.insertions
      BY <1>5
    <2>3. Follow(b, r[x].from) = k[x].from /\ Follow(b, r[z].from) = k[z].from
      BY <1>1, <1>4, <2>2, BackIs
    <2> QED BY <1>4, <2>1, <2>3
  <1>7. ASSUME NEW y \in DOMAIN u.old, NEW z \in DOMAIN r
        PROVE  u.old[y].from # r[z].from /\ u.old[y].to # r[z].to
    <2>1. PICK j \in DOMAIN b.moves : u.old[y].from = b.moves[j].from /\ Goes(c, b.moves[j].to, u.old[y].to)
      BY DEF Updated
    <2>2. PICK x \in DOMAIN c.moves : /\ c.moves[x].from \in Nat \ b.insertions
                                      /\ r[z].from = Back(b, c.moves[x].from) /\ r[z].to = c.moves[x].to
      BY <1>4, <1>5
    <2>3. u.old[y].from \in b.deletions /\ r[z].from \notin b.deletions
      BY <1>1, <2>1, <2>2, BackIs
    <2>4. Goes(c, c.moves[x].from, r[z].to)
      BY <2>2 DEF Goes
    <2>5. b.moves[j].to \in Nat /\ b.moves[j].to # c.moves[x].from
      <3>1. b.insertions \subseteq Nat
        BY <1>1 DEF IsChange, IndexSets
      <3> QED BY <2>2, <3>1
    <2>6. u.old[y].to # r[z].to
      <3>1. /\ IsBuilder(c) /\ Distinct(c.moves)
            /\ \A i \in DOMAIN c.moves : c.moves[i].to \in c.insertions
        BY DEF MovesMerge
      <3> QED BY <2>1, <2>2, <2>4, <2>5, <3>1, GoesApart
    <2> QED BY <2>3, <2>6
  <1>8. q = u.old \o r
    BY DEF BothMoves, r, k
  <1>9. /\ q \in Seq(Moves)
        /\ \A x \in DOMAIN q : \/ \E y \in DOMAIN u.old : q[x] = u.old[y]
                               \/ \E y \in DOMAIN r : q[x] = r[y]
        /\ \A y \in DOMAIN u.old : \E x \in DOMAIN q : q[x] = u.old[y]
        /\ \A y \in DOMAIN r : \E x \in DOMAIN q : q[x] = r[y]
        /\ Distinct(q)
    <2>1. Joined(u.old, r, q)
      BY <1>2, <1>4, <1>8, JoinedMoves
    <2> QED BY <1>2, <1>6, <1>7, <2>1 DEF Joined
  <1>10. ASSUME NEW x \in DOMAIN q
         PROVE  \/ \E j \in DOMAIN b.moves : q[x].from = b.moves[j].from /\ Goes(c, b.moves[j].to, q[x].to)
                \/ \E y \in DOMAIN c.moves : /\ c.moves[y].from \notin b.insertions
                                             /\ q[x].from = Back(b, c.moves[y].from)
                                             /\ q[x].to = c.moves[y].to
    <2>1. CASE \E y \in DOMAIN u.old : q[x] = u.old[y]
      BY <2>1 DEF Updated
    <2>2. CASE \E y \in DOMAIN r : q[x] = r[y]
      BY <1>4, <1>5, <2>2
    <2> QED BY <1>9, <2>1, <2>2
  <1>11. ASSUME NEW j \in DOMAIN b.moves, Stays(c, b.moves[j].to)
         PROVE  \E x \in DOMAIN q : q[x].from = b.moves[j].from
    <2>1. PICK y \in DOMAIN u.old : u.old[y].from = b.moves[j].from
      BY <1>11 DEF Updated
    <2> QED BY <1>9, <2>1
  <1>12. ASSUME NEW y \in DOMAIN c.moves, c.moves[y].from \notin b.insertions
         PROVE  \E x \in DOMAIN q : q[x].from = Back(b, c.moves[y].from)
    <2>1. PICK z \in DOMAIN u.moves : u.moves[z] = c.moves[y]
      BY <1>12 DEF Updated
    <2>2. PICK x \in DOMAIN k : k[x] = c.moves[y]
      BY <1>3, <1>12, <2>1
    <2>3. x \in DOMAIN r /\ r[x].from = Back(b, c.moves[y].from)
      BY <1>4, <2>2
    <2> QED BY <1>9, <2>3
  <1> QED BY <1>9, <1>10, <1>11, <1>12 DEF AreBoth

LEMMA InToSet ==
    ASSUME NEW E, NEW s \in Seq(E), NEW i \in Indices(s)
    PROVE  At(s, i) \in ToSet(s) /\ i \in Nat
  <1>1. PICK n \in Nat : n = Len(s) /\ DOMAIN s = 1..n
    BY LenProperties
  <1>2. i + 1 \in DOMAIN s /\ i \in Nat
    BY <1>1 DEF Indices
  <1> QED BY <1>2 DEF ToSet, At

(* Where the entries of a list are after a change that carries it.         *)
LEMMA GoesJoins ==
    ASSUME NEW E, NEW pre \in Seq(E), NEW post \in Seq(E), NEW c,
           IsBuilder(c), Carries(c, pre, post), Joins(c, pre, post),
           NEW i \in Indices(pre), NEW t, Goes(c, i, t)
    PROVE  At(pre, i) = At(post, t)
  <1>1. CASE \E y \in DOMAIN c.moves : c.moves[y].from = i /\ c.moves[y].to = t
    BY <1>1 DEF Joins
  <1>2. CASE i \notin c.deletions /\ t = Follow(c, i)
    BY <1>2 DEF Carries
  <1> QED BY <1>1, <1>2 DEF Goes

(* A change that has the index sets and the moves of two changes in a row  *)
(* says what they say, of the entries in K.                                *)
LEMMA BothDescribe ==
    ASSUME NEW E, NEW pre \in Seq(E), NEW mid \in Seq(E), NEW post \in Seq(E),
           NEW b, NEW c, NEW K1, NEW K2, NEW K,
           Describes(b, pre, mid, K1), Describes(c, mid, post, K2),
           ToSet(pre) \cap K \subseteq K1 \cap K2,
           NEW m, IsBuilder(m), m.deletions = MergedChange(b, c).deletions,
           m.insertions = MergedChange(b, c).insertions, AreBoth(m.moves, b, c)
    PROVE  Describes(m, pre, post, K)
  <1> DEFINE q == m.moves
  <1>1. /\ IsBuilder(b) /\ IsChange(b) /\ Carries(b, pre, mid) /\ Joins(b, pre, mid)
        /\ Distinct(b.moves) /\ Tracks(b, pre, K1) /\ b.moves \in Seq(Moves)
        /\ b.deletions \in IndexSets /\ b.insertions \in IndexSets
    BY BuilderParts DEF Describes
  <1>2. /\ IsBuilder(c) /\ IsChange(c) /\ Carries(c, mid, post) /\ Joins(c, mid, post)
        /\ Distinct(c.moves) /\ Tracks(c, mid, K2) /\ c.moves \in Seq(Moves)
    BY BuilderParts DEF Describes
  <1>4. /\ q \in Seq(Moves) /\ Distinct(q)
        /\ \A x \in DOMAIN q :
              \/ \E j \in DOMAIN b.moves : q[x].from = b.moves[j].from /\ Goes(c, b.moves[j].to, q[x].to)
              \/ \E y \in DOMAIN c.moves : /\ c.moves[y].from \notin b.insertions
                                           /\ q[x].from = Back(b, c.moves[y].from)
                                           /\ q[x].to = c.moves[y].to
        /\ \A j \in DOMAIN b.moves : Stays(c, b.moves[j].to) =>
              \E x \in DOMAIN q : q[x].from = b.moves[j].from
        /\ \A y \in DOMAIN c.moves : c.moves[y].from \notin b.insertions =>
              \E x \in DOMAIN q : q[x].from = Back(b, c.moves[y].from)
    BY DEF AreBoth
  <1>5. Carries(MergedChange(b, c), pre, post)
    BY <1>1, <1>2, MergedCarries
  <1>6. /\ IsBuilder(m) /\ m.deletions = MergedChange(b, c).deletions
        /\ m.insertions = MergedChange(b, c).insertions /\ m.moves = q
    OBVIOUS
  <1> HIDE DEF q
  <1>7. Carries(m, pre, post)
    BY <1>5, <1>6, SameCarries
  <1>8. /\ b.deletions \subseteq Indices(pre) /\ b.insertions \subseteq Indices(mid)
        /\ c.deletions \subseteq Indices(mid) /\ m.deletions \subseteq Indices(pre)
        /\ Indices(pre) \subseteq Nat /\ Indices(mid) \subseteq Nat /\ c.insertions \subseteq Nat
    <2>1. Indices(pre) \subseteq Nat /\ Indices(mid) \subseteq Nat /\ Indices(post) \subseteq Nat
      BY IndexIs
    <2> QED BY <1>1, <1>2, <1>7, <2>1 DEF Carries
  <1>9. \A i \in Nat : i \in m.deletions <=> i \in b.deletions \/ Follow(b, i) \in c.deletions
    BY <1>1, <1>2, <1>6, MergedDeletions
  <1>10. \A k \in Nat : k \in m.insertions <=>
            \/ k \in c.insertions
            \/ \E j \in b.insertions \ c.deletions : k = Follow(c, j)
    BY <1>1, <1>2, <1>6, MergedInsertions
  <1>11. ASSUME NEW x \in DOMAIN q
         PROVE  /\ q[x].from \in m.deletions /\ q[x].to \in m.insertions
                /\ At(pre, q[x].from) = At(post, q[x].to)
    <2>1. CASE \E j \in DOMAIN b.moves : q[x].from = b.moves[j].from /\ Goes(c, b.moves[j].to, q[x].to)
      <3>1. PICK j \in DOMAIN b.moves : q[x].from = b.moves[j].from /\ Goes(c, b.moves[j].to, q[x].to)
        BY <2>1
      <3>2. /\ b.moves[j].from \in b.deletions /\ b.moves[j].to \in b.insertions
            /\ At(pre, b.moves[j].from) = At(mid, b.moves[j].to)
        BY <1>1 DEF Joins
      <3>3. q[x].from \in m.deletions
        BY <1>8, <1>9, <3>1, <3>2
      <3>4. At(mid, b.moves[j].to) = At(post, q[x].to)
        BY <1>2, <1>8, <3>1, <3>2, GoesJoins
      <3>5. q[x].to \in m.insertions
        <4>1. CASE \E y \in DOMAIN c.moves : c.moves[y].from = b.moves[j].to /\ c.moves[y].to = q[x].to
          <5>1. q[x].to \in c.insertions
            BY <1>2, <4>1 DEF Joins
          <5> QED BY <1>8, <1>10, <5>1
        <4>2. CASE b.moves[j].to \notin c.deletions /\ q[x].to = Follow(c, b.moves[j].to)
          <5>1. Follow(c, b.moves[j].to) \in Nat
            BY <1>2, <1>8, <3>2, FollowIs
          <5> QED BY <1>10, <3>2, <4>2, <5>1
        <4> QED BY <3>1, <4>1, <4>2 DEF Goes
      <3> QED BY <3>1, <3>2, <3>3, <3>4, <3>5
    <2>2. CASE \E y \in DOMAIN c.moves : /\ c.moves[y].from \notin b.insertions
                                         /\ q[x].from = Back(b, c.moves[y].from)
                                         /\ q[x].to = c.moves[y].to
      <3>1. PICK y \in DOMAIN c.moves : /\ c.moves[y].from \notin b.insertions
                                        /\ q[x].from = Back(b, c.moves[y].from)
                                        /\ q[x].to = c.moves[y].to
        BY <2>2
      <3>2. /\ c.moves[y].from \in c.deletions /\ c.moves[y].to \in c.insertions
            /\ At(mid, c.moves[y].from) = At(post, c.moves[y].to)
        BY <1>2 DEF Joins
      <3>3. c.moves[y].from \in Nat \ b.insertions
        BY <1>8, <3>1, <3>2
      <3>4. q[x].from \in Nat \ b.deletions /\ Follow(b, q[x].from) = c.moves[y].from
        BY <1>1, <3>1, <3>3, BackIs
      <3>5. q[x].from \in Indices(pre)
        BY <1>1, <1>8, <3>2, <3>4, FollowBound
      <3>6. At(pre, q[x].from) = At(mid, c.moves[y].from)
        BY <1>1, <3>4, <3>5 DEF Carries
      <3>7. q[x].from \in m.deletions
        BY <1>9, <3>2, <3>4
      <3>8. q[x].to \in m.insertions
        BY <1>8, <1>10, <3>1, <3>2
      <3> QED BY <3>1, <3>2, <3>6, <3>7, <3>8
    <2> QED BY <1>4, <2>1, <2>2
  <1>12. Joins(m, pre, post)
    BY <1>6, <1>11 DEF Joins
  <1>13. ASSUME NEW i \in m.deletions, At(pre, i) \in K
         PROVE  \E x \in DOMAIN q : q[x].from = i
    <2>1. i \in Nat /\ i \in Indices(pre) /\ At(pre, i) \in ToSet(pre) \cap K
      <3>1. i \in Indices(pre)
        BY <1>8
      <3>2. At(pre, i) \in ToSet(pre) /\ i \in Nat
        BY <3>1, InToSet
      <3> QED BY <1>13, <3>1, <3>2
    <2>2. CASE i \in b.deletions
      <3>1. PICK j \in DOMAIN b.moves : b.moves[j].from = i
        BY <1>1, <2>1, <2>2 DEF Tracks
      <3>2. b.moves[j].to \in b.insertions /\ At(mid, b.moves[j].to) = At(pre, i)
        BY <1>1, <3>1 DEF Joins
      <3>3. Stays(c, b.moves[j].to)
        BY <1>2, <2>1, <3>2 DEF Stays, Tracks
      <3> QED BY <1>4, <3>1, <3>3
    <2>3. CASE i \notin b.deletions
      <3>1. Follow(b, i) \in c.deletions
        BY <1>9, <2>1, <2>3
      <3>2. At(mid, Follow(b, i)) = At(pre, i)
        BY <1>1, <2>1, <2>3 DEF Carries
      <3>3. PICK y \in DOMAIN c.moves : c.moves[y].from = Follow(b, i)
        BY <1>2, <2>1, <3>1, <3>2 DEF Tracks
      <3>4. Back(b, Follow(b, i)) = i /\ Follow(b, i) \notin b.insertions
        BY <1>1, <2>1, <2>3, BackIs
      <3> QED BY <1>4, <3>3, <3>4
    <2> QED BY <2>2, <2>3
  <1>14. Tracks(m, pre, K)
    BY <1>6, <1>13 DEF Tracks
  <1> QED BY <1>4, <1>6, <1>7, <1>12, <1>14 DEF Describes

(* merge() before it drops stale moves.                                    *)
LEMMA MergedDescribes ==
    ASSUME NEW E, NEW pre \in Seq(E), NEW mid \in Seq(E), NEW post \in Seq(E),
           NEW b, NEW c, Describes(b, pre, mid, ToSet(mid)),
           Describes(c, mid, post, ToSet(pre) \cap ToSet(post)),
           ToSet(pre) \cap ToSet(post) \subseteq ToSet(mid),
           NEW q, q = BothMoves(b, UpdateOldMoves(b, c)),
           NEW m, m = PutAll(b, q, NewDeletions(b, c), NewInsertions(b, c))
    PROVE  Describes(m, pre, post, ToSet(post))
  <1>1. /\ IsBuilder(b) /\ IsChange(b) /\ Carries(b, pre, mid) /\ Joins(b, pre, mid)
        /\ Distinct(b.moves) /\ b.moves \in Seq(Moves)
    BY BuilderParts DEF Describes
  <1>2. /\ IsBuilder(c) /\ IsChange(c) /\ Carries(c, mid, post) /\ Joins(c, mid, post)
        /\ Distinct(c.moves)
    BY BuilderParts DEF Describes
  <1>3. MovesMerge(b, c)
    BY <1>1, <1>2 DEF MovesMerge, Joins
  <1>4. AreBoth(q, b, c)
    <2>1. PICK u : u = UpdateOldMoves(b, c)
      OBVIOUS
    <2>2. PICK n : n = Len(b.moves)
      OBVIOUS
    <2>3. Updated(u, b, c, n)
      BY <1>3, <2>1, <2>2, AllUpdated
    <2>4. \A j \in DOMAIN b.moves : j <= n
      <3>1. n \in Nat /\ DOMAIN b.moves = 1..n
        BY <1>1, <2>2, LenProperties
      <3> QED BY <3>1
    <2>5. \A y \in DOMAIN b.moves : b.moves[y].from \in b.deletions /\ b.moves[y].to \in b.insertions
      BY <1>1 DEF Joins
    <2>6. q = BothMoves(b, u)
      BY <2>1
    <2> QED BY <1>3, <2>3, <2>4, <2>5, <2>6, BothMovesAre
  <1>5. /\ IsChange(MergedChange(b, c)) /\ Carries(MergedChange(b, c), pre, post)
        /\ MergedChange(b, c).deletions = NewDeletions(b, c) /\ MergedChange(b, c).insertions = NewInsertions(b, c)
    BY <1>1, <1>2, MergedIs, MergedCarries DEF MergedChange
  <1>6. /\ IsBuilder(m) /\ m.deletions = MergedChange(b, c).deletions
        /\ m.insertions = MergedChange(b, c).insertions /\ m.moves = q
    <2>1. NewDeletions(b, c) \in IndexSets /\ NewInsertions(b, c) \in IndexSets
      BY <1>5 DEF IsChange
    <2>2. PICK D \in IndexSets, I \in IndexSets : D = NewDeletions(b, c) /\ I = NewInsertions(b, c)
      BY <2>1
    <2>3. m = PutAll(b, q, D, I)
      BY <2>2
    <2>4. IsBuilder(m) /\ m.deletions = D /\ m.insertions = I /\ m.moves = q
      <3>1. q \in Seq(Moves) /\ IsBuilder(b)
        BY <1>1, <1>4 DEF AreBoth
      <3> QED BY <2>3, <3>1, WithAll
    <2> QED BY <1>5, <2>2, <2>4
  <1> QED BY <1>4, <1>6, BothDescribe

(* A change that says nothing.                                             *)
LEMMA NothingChanged ==
    ASSUME NEW E, NEW pre \in Seq(E), NEW post \in Seq(E), NEW c,
           c.deletions = {}, c.insertions = {}, Carries(c, pre, post)
    PROVE  pre = post
  <1>1. PICK m \in Nat, n \in Nat :
          m = Len(pre) /\ n = Len(post) /\ DOMAIN pre = 1..m /\ DOMAIN post = 1..n
    BY LenProperties
  <1>2. Cardinality({}) = 0 /\ {} \in IndexSets /\ \A i \in Nat : shift({}, unshift({}, i)) = i
    BY NoneShifts
  <1>3. m = n
    BY <1>1, <1>2 DEF Carries
  <1>4. \A i \in Indices(pre) : At(post, i) = At(pre, i)
    <2> SUFFICES ASSUME NEW i \in Indices(pre) PROVE At(post, i) = At(pre, i)
      OBVIOUS
    <2>1. i \in Nat
      BY IndexIs
    <2>2. Follow(c, i) = i
      BY <1>2, <2>1 DEF Follow
    <2>3. At(post, Follow(c, i)) = At(pre, i)
      BY DEF Carries
    <2> QED BY <2>2, <2>3
  <1>5. \A x \in 1..m : post[x] = pre[x]
    <2> SUFFICES ASSUME NEW x \in 1..m PROVE post[x] = pre[x]
      OBVIOUS
    <2>1. x - 1 \in Indices(pre) /\ At(pre, x - 1) = pre[x] /\ At(post, x - 1) = post[x]
      BY <1>1, <1>3, EntryIndex
    <2> QED BY <1>4, <2>1
  <1> QED BY <1>1, <1>3, <1>5, SeqEqual

LEMMA ColsDescribe ==
    ASSUME NEW c, NEW pre, NEW post, NEW K, Describes(c, pre, post, K), NEW cols,
           NEW d, d = PutCols(c, cols)
    PROVE  Describes(d, pre, post, K)
  <1>1. /\ IsBuilder(d) /\ d.deletions = c.deletions /\ d.insertions = c.insertions /\ d.moves = c.moves
    BY WithCols DEF Describes
  <1>2. Carries(d, pre, post)
    BY <1>1, SameCarries DEF Describes
  <1> QED BY <1>1, <1>2 DEF Describes, Joins, Tracks

(* merge() of two changes in a row says what both say together.            *)
LEMMA MergeDescribes ==
    ASSUME NEW E, NEW pre \in Seq(E), NEW mid \in Seq(E), NEW post \in Seq(E),
           NEW b, NEW c, Describes(b, pre, mid, ToSet(mid)),
           Describes(c, mid, post, ToSet(pre) \cap ToSet(post)),
           ToSet(pre) \cap ToSet(post) \subseteq ToSet(mid)
    PROVE  Describes(merge(b, c), pre, post, ToSet(post))
  <1>1. CASE empty(c)
    <2>1. Carries(c, mid, post) /\ c.deletions = {} /\ c.insertions = {}
      BY <1>1 DEF Describes, empty
    <2>2. mid = post
      BY <2>1, NothingChanged
    <2>3. merge(b, c) = b
      BY <1>1 DEF merge
    <2> QED BY <2>2, <2>3
  <1>2. CASE ~empty(c) /\ empty(b)
    <2>1. Carries(b, pre, mid) /\ b.deletions = {} /\ b.insertions = {}
      BY <1>2 DEF Describes, empty
    <2>2. pre = mid
      BY <2>1, NothingChanged
    <2>3. merge(b, c) = c
      BY <1>2 DEF merge
    <2>4. Tracks(c, mid, ToSet(post))
      <3> SUFFICES ASSUME NEW i \in c.deletions, At(mid, i) \in ToSet(post)
                   PROVE  \E k \in DOMAIN c.moves : c.moves[k].from = i
        BY DEF Tracks
      <3>1. i \in Indices(mid)
        BY DEF Describes, Carries
      <3>2. At(mid, i) \in ToSet(mid)
        BY <3>1, InToSet
      <3> QED BY <2>2, <3>2 DEF Describes, Tracks
    <2> QED BY <2>2, <2>3, <2>4 DEF Describes
  <1>3. CASE ~empty(c) /\ ~empty(b)
    <2> DEFINE q == BothMoves(b, UpdateOldMoves(b, c))
               m == PutAll(b, q, NewDeletions(b, c), NewInsertions(b, c))
    <2>1. Describes(m, pre, post, ToSet(post))
      BY MergedDescribes
    <2> HIDE DEF m
    <2>2. Describes(clean_up_stale_moves(m), pre, post, ToSet(post))
      BY <2>1, CleanUpDescribes
    <2>3. \E cols : merge(b, c) = PutCols(clean_up_stale_moves(m), cols)
      BY <1>3 DEF merge, m, PutCols, PutAll, BothMoves, BackMoves, Back, KeptMoves
    <2> QED BY <2>2, <2>3, ColsDescribe
  <1> QED BY <1>1, <1>2, <1>3

-----------------------------------------------------------------------------
(* The entries of a log, each as a change of its own that is added.        *)

StepChange(D, I, ms) ==
    [deletions |-> D, insertions |-> I, moves |-> ms, mapping |-> <<>>, cols |-> <<>>]

LEMMA StepIs ==
    ASSUME NEW D \in IndexSets, NEW I \in IndexSets, NEW ms \in Seq(Moves),
           NEW d, d = StepChange(D, I, ms)
    PROVE  IsBuilder(d) /\ IsChange(d) /\ d.deletions = D /\ d.insertions = I /\ d.moves = ms
BY BuilderIs DEF StepChange

LEMMA StepStill ==
    ASSUME NEW D \in IndexSets, NEW I \in IndexSets, NEW d, d = StepChange(D, I, <<>>)
    PROVE  /\ IsBuilder(d) /\ IsChange(d) /\ d.deletions = D /\ d.insertions = I
           /\ d.moves = <<>> /\ DOMAIN d.moves = {}
  <1>1. <<>> \in Seq(Moves) /\ DOMAIN <<>> = {}
    OBVIOUS
  <1>2. PICK e \in Seq(Moves) : e = <<>> /\ DOMAIN e = {}
    BY <1>1
  <1>3. d = StepChange(D, I, e)
    BY <1>2
  <1>4. IsBuilder(d) /\ IsChange(d) /\ d.deletions = D /\ d.insertions = I /\ d.moves = e
    BY <1>3, StepIs
  <1> QED BY <1>2, <1>4

LEMMA MappedMoves ==
    ASSUME NEW ms \in Seq(Moves), NEW q, q = [k \in DOMAIN ms |-> q[k]],
           \A k \in DOMAIN ms : q[k] \in Moves
    PROVE  q \in Seq(Moves) /\ DOMAIN q = DOMAIN ms
  <1>1. PICK n \in Nat : DOMAIN ms = 1..n
    BY LenProperties
  <1>2. q \in [1..n -> Moves]
    BY <1>1
  <1> QED BY <1>1, <1>2, FunctionIsSeq

(* Moves that go on with a change stay distinct.                           *)
LEMMA MappedDistinct ==
    ASSUME NEW d, IsBuilder(d), Distinct(d.moves),
           \A y \in DOMAIN d.moves : d.moves[y].to \in d.insertions,
           NEW ms \in Seq(Moves), Distinct(ms), NEW q, DOMAIN q = DOMAIN ms,
           \A k \in DOMAIN ms : q[k].from = ms[k].from /\ Goes(d, ms[k].to, q[k].to)
    PROVE  Distinct(q)
  <1> SUFFICES ASSUME NEW x \in DOMAIN ms, NEW z \in DOMAIN ms, x # z
               PROVE  q[x].from # q[z].from /\ q[x].to # q[z].to
    BY DEF Distinct
  <1>1. ms[x].from # ms[z].from /\ ms[x].to # ms[z].to
    BY DEF Distinct
  <1>2. ms[x].to \in Nat /\ ms[z].to \in Nat
    <2>1. ms[x] \in Moves /\ ms[z] \in Moves
      BY EntryIndex
    <2> QED BY <2>1 DEF Moves
  <1>3. Goes(d, ms[x].to, q[x].to) /\ Goes(d, ms[z].to, q[z].to)
    OBVIOUS
  <1>4. q[x].to # q[z].to
    BY <1>1, <1>2, <1>3, GoesApart
  <1> QED BY <1>1, <1>4

(* The fields that insert(), erase() and move() replace.                   *)
PutInsert(c, cols, I, ms, f) ==
    [c EXCEPT !.cols = cols, !.insertions = I, !.moves = ms, !.mapping = f]
PutMove(c, I, D, ms, cols) ==
    [c EXCEPT !.insertions = I, !.deletions = D, !.moves = ms, !.cols = cols]
PutErase(c, I, D, cols, ms) ==
    [[c EXCEPT !.insertions = I, !.deletions = D] EXCEPT !.cols = cols, !.moves = ms]

LEMMA WithInsert ==
    ASSUME NEW c, IsBuilder(c), NEW I \in IndexSets, NEW ms \in Seq(Moves), NEW cols, NEW f,
           NEW r, r = PutInsert(c, cols, I, ms, f)
    PROVE  IsBuilder(r) /\ r.deletions = c.deletions /\ r.insertions = I /\ r.moves = ms
  <1>1. PICK F, C : c \in [deletions : IndexSets, insertions : IndexSets, moves : Seq(Moves),
                            mapping : F, cols : C]
    BY DEF IsBuilder
  <1>2. /\ r \in [deletions : IndexSets, insertions : IndexSets, moves : Seq(Moves),
                   mapping : {f}, cols : {cols}]
        /\ r.deletions = c.deletions /\ r.insertions = I /\ r.moves = ms
    BY <1>1 DEF PutInsert
  <1> QED BY <1>2 DEF IsBuilder

LEMMA WithMove ==
    ASSUME NEW c, IsBuilder(c), NEW I \in IndexSets, NEW D \in IndexSets, NEW ms \in Seq(Moves),
           NEW cols, NEW r, r = PutMove(c, I, D, ms, cols)
    PROVE  IsBuilder(r) /\ r.deletions = D /\ r.insertions = I /\ r.moves = ms
  <1>1. PICK F, C : c \in [deletions : IndexSets, insertions : IndexSets, moves : Seq(Moves),
                            mapping : F, cols : C]
    BY DEF IsBuilder
  <1>2. /\ r \in [deletions : IndexSets, insertions : IndexSets, moves : Seq(Moves),
                   mapping : F, cols : {cols}]
        /\ r.deletions = D /\ r.insertions = I /\ r.moves = ms
    BY <1>1 DEF PutMove
  <1> QED BY <1>2 DEF IsBuilder

LEMMA WithErase ==
    ASSUME NEW c, IsBuilder(c), NEW I \in IndexSets, NEW D \in IndexSets, NEW ms \in Seq(Moves),
           NEW cols, NEW r, r = PutErase(c, I, D, cols, ms)
    PROVE  IsBuilder(r) /\ r.deletions = D /\ r.insertions = I /\ r.moves = ms
  <1>1. PICK F, C : c \in [deletions : IndexSets, insertions : IndexSets, moves : Seq(Moves),
                            mapping : F, cols : C]
    BY DEF IsBuilder
  <1>2. /\ r \in [deletions : IndexSets, insertions : IndexSets, moves : Seq(Moves),
                   mapping : F, cols : {cols}]
        /\ r.deletions = D /\ r.insertions = I /\ r.moves = ms
    BY <1>1 DEF PutErase
  <1> QED BY <1>2 DEF IsBuilder

LEMMA MergedKeeps ==
    ASSUME NEW b, NEW c, IsChange(b), IsChange(c)
    PROVE  b.deletions \subseteq MergedChange(b, c).deletions
  <1>1. b.deletions \subseteq Nat
    BY DEF IsChange, IndexSets
  <1> QED BY <1>1, MergedDeletions

(* insert(): an entry that was not there is inserted.                      *)
InsertedMoves(ms, i) ==
    [k \in DOMAIN ms |-> Move(ms[k].from, IF ms[k].to >= i THEN ms[k].to + 1 ELSE ms[k].to)]

LEMMA InsertDescribes ==
    ASSUME NEW E, NEW pre \in Seq(E), NEW l \in Seq(E), NEW post \in Seq(E),
           NEW K1, NEW K, ToSet(pre) \cap K \subseteq K1,
           NEW c, Describes(c, pre, l, K1),
           NEW index \in Nat, index <= Len(l), Inserts(l, post, index, 1)
    PROVE  /\ Describes(insert(c, index, 1, TRUE), pre, post, K)
           /\ c.deletions \subseteq insert(c, index, 1, TRUE).deletions
  <1> DEFINE r == insert(c, index, 1, TRUE)
             S == SpanOf(index, 1)
             d == StepChange({}, S, <<>>)
             q == InsertedMoves(c.moves, index)
             I == insert_at(c.insertions, S)
             Up(i) == IF i >= index THEN i + 1 ELSE i
             cols == [k \in DOMAIN c.cols |-> shift_for_insert_at(c.cols[k], S)]
             f == [k \in {Up(x) : x \in DOMAIN c.mapping} |->
                     c.mapping[CHOOSE o \in DOMAIN c.mapping : Up(o) = k]]
  <1>1. /\ IsBuilder(c) /\ IsChange(c) /\ Carries(c, pre, l) /\ Joins(c, pre, l)
        /\ Distinct(c.moves) /\ c.moves \in Seq(Moves)
        /\ c.deletions \in IndexSets /\ c.insertions \in IndexSets
    BY BuilderParts DEF Describes
  <1>2. /\ S \in IndexSets /\ {} \in IndexSets /\ I \in IndexSets
        /\ \A j \in Nat : shift(S, j) = IF j < index THEN j ELSE j + 1
        /\ \A j \in Nat : unshift({}, j) = j
    BY <1>1, SpanIs, NoneShifts, InsertedSet
  <1>3. r = PutInsert(c, cols, I, q, f)
    BY DEF insert, PutInsert, InsertedMoves
  <1> HIDE DEF S, I, r, cols, f
  <1>4. IsBuilder(d) /\ IsChange(d) /\ d.deletions = {} /\ d.insertions = S /\ d.moves = <<>> /\ DOMAIN d.moves = {}
    BY <1>2, StepStill
  <1> HIDE DEF d
  <1>5. ASSUME NEW k \in DOMAIN c.moves
        PROVE  /\ q[k] \in Moves /\ q[k].from = c.moves[k].from
               /\ Goes(d, c.moves[k].to, q[k].to)
    <2>1. c.moves[k] \in Moves /\ c.moves[k].from \in Nat /\ c.moves[k].to \in Nat
      <3>1. c.moves[k] \in Moves
        BY <1>1, EntryIndex
      <3> QED BY <3>1 DEF Moves
    <2>2. PICK t \in Nat : t = c.moves[k].to
      BY <2>1
    <2>3. q[k] = Move(c.moves[k].from, IF t >= index THEN t + 1 ELSE t)
      BY <2>2 DEF InsertedMoves
    <2>4. /\ q[k] \in Moves /\ q[k].from = c.moves[k].from
          /\ q[k].to = IF t < index THEN t ELSE t + 1
      <3>1. PICK s \in Nat : s = (IF t >= index THEN t + 1 ELSE t) /\ s = IF t < index THEN t ELSE t + 1
        OBVIOUS
      <3>2. q[k] = Move(c.moves[k].from, s)
        BY <2>3, <3>1
      <3> HIDE DEF q
      <3>3. q[k] \in Moves /\ q[k].from = c.moves[k].from /\ q[k].to = s
        BY <2>1, <3>2 DEF Moves, Move
      <3> QED BY <3>1, <3>3
    <2>5. Follow(d, t) = IF t < index THEN t ELSE t + 1
      BY <1>2, <1>4 DEF Follow
    <2> QED BY <1>4, <2>2, <2>4, <2>5 DEF Goes
  <1>6. q \in Seq(Moves) /\ DOMAIN q = DOMAIN c.moves
    <2>1. q = [k \in DOMAIN c.moves |-> q[k]]
      BY DEF InsertedMoves
    <2> HIDE DEF q
    <2> QED BY <1>1, <1>5, <2>1, MappedMoves
  <1> HIDE DEF q
  <1>7. Distinct(q)
    <2>1. Distinct(d.moves) /\ \A y \in DOMAIN d.moves : d.moves[y].to \in d.insertions
      BY <1>4 DEF Distinct
    <2> QED BY <1>1, <1>4, <1>5, <1>6, <2>1, MappedDistinct
  <1>8. IsBuilder(r) /\ r.deletions = c.deletions /\ r.insertions = I /\ r.moves = q
    BY <1>1, <1>2, <1>3, <1>6, WithInsert
  <1>9. AreBoth(r.moves, c, d)
    BY <1>4, <1>5, <1>6, <1>7, <1>8 DEF AreBoth
  <1>10. r.deletions = MergedChange(c, d).deletions /\ r.insertions = MergedChange(c, d).insertions
    <2>1. /\ MergedChange(c, d).deletions = insert_at(erase_at({}, c.insertions), c.deletions)
          /\ MergedChange(c, d).insertions = insert_at(erase_at(c.insertions, {}), S)
      BY <1>1, <1>4, MergedIs
    <2> QED BY <1>1, <1>8, <2>1, NoneShifts DEF I
  <1>11. Describes(d, l, post, K)
    <2>1. Carries(Insertion(index, 1), l, post) /\ Insertion(index, 1).deletions = {}
          /\ Insertion(index, 1).insertions = S
      BY InsertionCarries DEF Insertion, S
    <2>2. Carries(d, l, post)
      BY <1>4, <2>1, SameCarries
    <2> QED BY <1>4, <2>2 DEF Describes, Joins, Tracks, Distinct
  <1>12. Describes(r, pre, post, K)
    BY <1>8, <1>9, <1>10, <1>11, BothDescribe
  <1> QED BY <1>8, <1>12 DEF r

LEMMA OneIndex ==
    ASSUME NEW i \in Nat
    PROVE  /\ {i} \in IndexSets
           /\ \A j \in Nat : shift({i}, j) = IF j < i THEN j ELSE j + 1
           /\ \A j \in Nat : j # i => unshift({i}, j) = IF j > i THEN j - 1 ELSE j
  <1>1. SpanOf(i, 1) = {i}
    BY DEF SpanOf
  <1>2. /\ {i} \in IndexSets
        /\ \A j \in Nat : shift({i}, j) = IF j < i THEN j ELSE j + 1
        /\ \A j \in Nat : unshift({i}, IF j < i THEN j ELSE j + 1) = j
    <2>1. PICK n \in Nat : n = 1
      OBVIOUS
    <2>2. /\ SpanOf(i, n) \in IndexSets
          /\ \A j \in Nat : shift(SpanOf(i, n), j) = IF j < i THEN j ELSE j + n
          /\ \A j \in Nat : unshift(SpanOf(i, n), IF j < i THEN j ELSE j + n) = j
      BY SpanIs
    <2>3. SpanOf(i, n) = {i}
      BY <1>1, <2>1
    <2> QED BY <2>1, <2>2, <2>3
  <1>3. ASSUME NEW j \in Nat, j # i
        PROVE  unshift({i}, j) = IF j > i THEN j - 1 ELSE j
    <2>1. CASE j > i
      <3>1. PICK k \in Nat : k = j - 1 /\ ~(k < i) /\ k + 1 = j
        <4>1. j - 1 \in Nat /\ ~(j - 1 < i) /\ (j - 1) + 1 = j
          BY <2>1
        <4> QED BY <4>1
      <3>2. unshift({i}, k + 1) = k
        BY <1>2, <3>1
      <3> QED BY <2>1, <3>1, <3>2
    <2>2. CASE ~(j > i)
      <3>1. j < i
        BY <1>3, <2>2
      <3>2. unshift({i}, j) = j
        BY <1>2, <3>1
      <3> QED BY <2>2, <3>2
    <2> QED BY <2>1, <2>2
  <1> QED BY <1>2, <1>3

(* erase(): an entry goes, and with it the move that had put it there.     *)
ErasedMoves(kept, i) ==
    [k \in DOMAIN kept |-> Move(kept[k].from, IF kept[k].to > i THEN kept[k].to - 1 ELSE kept[k].to)]

LEMMA EraseDescribes ==
    ASSUME NEW E, NEW pre \in Seq(E), NEW l \in Seq(E), NEW post \in Seq(E),
           NEW K1, NEW K, ToSet(pre) \cap K \subseteq K1,
           NEW c, Describes(c, pre, l, K1),
           NEW index \in Indices(l), Erases(l, post, index), At(l, index) \notin K
    PROVE  /\ Describes(erase(c, index), pre, post, K)
           /\ c.deletions \subseteq erase(c, index).deletions
  <1> DEFINE r == erase(c, index)
             d == StepChange({index}, {}, <<>>)
             kept == Without(c.moves, {k \in Indices(c.moves) : At(c.moves, k).to = index})
             q == ErasedMoves(kept, index)
             I == erase_at(c.insertions, {index})
             u == erase_or_unshift(c.insertions, index)
             D == IF u = npos THEN c.deletions ELSE add_shifted(c.deletions, u)
             cols == [k \in DOMAIN EraseRow(c, index).cols |-> erase_at(EraseRow(c, index).cols[k], {index})]
  <1>0. index \in Nat
    BY IndexIs
  <1>1. /\ IsBuilder(c) /\ IsChange(c) /\ Carries(c, pre, l) /\ Joins(c, pre, l)
        /\ Distinct(c.moves) /\ c.moves \in Seq(Moves)
        /\ c.deletions \in IndexSets /\ c.insertions \in IndexSets
    BY BuilderParts DEF Describes
  <1>2. /\ {index} \in IndexSets /\ {} \in IndexSets /\ I \in IndexSets
        /\ \A j \in Nat : j # index => unshift({index}, j) = IF j > index THEN j - 1 ELSE j
        /\ \A j \in Nat : shift({}, j) = j
    BY <1>0, <1>1, OneIndex, NoneShifts, ErasedSet
  <1>3. r = PutErase(c, I, D, cols, q)
    BY DEF erase, EraseRow, PutErase, ErasedMoves
  <1> HIDE DEF I, r, cols
  <1>4. IsBuilder(d) /\ IsChange(d) /\ d.deletions = {index} /\ d.insertions = {} /\ d.moves = <<>> /\ DOMAIN d.moves = {}
    BY <1>2, StepStill
  <1> HIDE DEF d
  <1>5. /\ kept \in Seq(Moves) /\ Distinct(kept)
        /\ \A x \in DOMAIN kept : \E y \in DOMAIN c.moves : c.moves[y].to # index /\ kept[x] = c.moves[y]
        /\ \A y \in DOMAIN c.moves : c.moves[y].to # index => \E x \in DOMAIN kept : kept[x] = c.moves[y]
    <2>1. ToLeft(c.moves, index, kept)
      BY <1>1, FilteredTo
    <2> QED BY <1>1, <2>1 DEF ToLeft
  <1> HIDE DEF kept
  <1>6. ASSUME NEW k \in DOMAIN kept
        PROVE  /\ q[k] \in Moves /\ q[k].from = kept[k].from /\ Goes(d, kept[k].to, q[k].to)
    <2>1. kept[k] \in Moves /\ kept[k].from \in Nat /\ kept[k].to \in Nat
      <3>1. kept[k] \in Moves
        BY <1>5, EntryIndex
      <3> QED BY <3>1 DEF Moves
    <2>2. PICK t \in Nat : t = kept[k].to /\ t # index
      BY <1>5, <2>1
    <2>3. q[k] = Move(kept[k].from, IF t > index THEN t - 1 ELSE t)
      BY <2>2 DEF ErasedMoves
    <2>4. /\ q[k] \in Moves /\ q[k].from = kept[k].from
          /\ q[k].to = IF t > index THEN t - 1 ELSE t
      <3>1. PICK s \in Nat : s = IF t > index THEN t - 1 ELSE t
        BY <1>0
      <3>2. q[k] = Move(kept[k].from, s)
        BY <2>3, <3>1
      <3> HIDE DEF q
      <3>3. q[k] \in Moves /\ q[k].from = kept[k].from /\ q[k].to = s
        BY <2>1, <3>2 DEF Moves, Move
      <3> QED BY <3>1, <3>3
    <2>5. Follow(d, t) = IF t > index THEN t - 1 ELSE t
      <3>1. unshift({index}, t) \in Nat
        BY <1>2, UnshiftIs
      <3> QED BY <1>2, <1>4, <2>2, <3>1 DEF Follow
    <2> QED BY <1>4, <2>2, <2>4, <2>5 DEF Goes
  <1>7. q \in Seq(Moves) /\ DOMAIN q = DOMAIN kept
    <2>1. q = [k \in DOMAIN kept |-> q[k]]
      BY DEF ErasedMoves
    <2> HIDE DEF q
    <2> QED BY <1>5, <1>6, <2>1, MappedMoves
  <1> HIDE DEF q
  <1>8. Distinct(q)
    <2>1. Distinct(d.moves) /\ \A y \in DOMAIN d.moves : d.moves[y].to \in d.insertions
      BY <1>4 DEF Distinct
    <2> QED BY <1>4, <1>5, <1>6, <1>7, <2>1, MappedDistinct
  <1>9. D = MergedChange(c, d).deletions /\ I = MergedChange(c, d).insertions /\ D \in IndexSets
    <2>1. /\ MergedChange(c, d).deletions = insert_at(erase_at({index}, c.insertions), c.deletions)
          /\ MergedChange(c, d).insertions = insert_at(erase_at(c.insertions, {index}), {})
          /\ IsChange(MergedChange(c, d))
      BY <1>1, <1>4, MergedIs
    <2>2. D = MergedChange(c, d).deletions
      BY <1>0, <1>1, <2>1, ErasedRow
    <2>3. I = MergedChange(c, d).insertions
      BY <1>2, <2>1, NoneShifts DEF I
    <2> HIDE DEF D
    <2> QED BY <2>1, <2>2, <2>3 DEF IsChange
  <1> HIDE DEF D
  <1>10. IsBuilder(r) /\ r.deletions = D /\ r.insertions = I /\ r.moves = q
    BY <1>1, <1>2, <1>3, <1>7, <1>9, WithErase
  <1>11. AreBoth(r.moves, c, d)
    <2>1. \A x \in DOMAIN q : \E j \in DOMAIN c.moves :
             q[x].from = c.moves[j].from /\ Goes(d, c.moves[j].to, q[x].to)
      <3> SUFFICES ASSUME NEW x \in DOMAIN kept
                   PROVE  \E j \in DOMAIN c.moves :
                            q[x].from = c.moves[j].from /\ Goes(d, c.moves[j].to, q[x].to)
        BY <1>7
      <3>1. PICK j \in DOMAIN c.moves : kept[x] = c.moves[j]
        BY <1>5
      <3>2. q[x].from = kept[x].from /\ Goes(d, kept[x].to, q[x].to)
        BY <1>6
      <3> QED BY <3>1, <3>2
    <2>2. \A j \in DOMAIN c.moves : Stays(d, c.moves[j].to) =>
             \E x \in DOMAIN q : q[x].from = c.moves[j].from
      <3> SUFFICES ASSUME NEW j \in DOMAIN c.moves, Stays(d, c.moves[j].to)
                   PROVE  \E x \in DOMAIN q : q[x].from = c.moves[j].from
        OBVIOUS
      <3>1. c.moves[j].to # index
        BY <1>4 DEF Stays
      <3>2. PICK x \in DOMAIN kept : kept[x] = c.moves[j]
        BY <1>5, <3>1
      <3> QED BY <1>6, <1>7, <3>2
    <2> QED BY <1>4, <1>7, <1>8, <1>10, <2>1, <2>2 DEF AreBoth
  <1>12. Describes(d, l, post, K)
    <2>1. Carries(Deletion(index), l, post) /\ Deletion(index).deletions = {index}
          /\ Deletion(index).insertions = {}
      BY DeletionCarries DEF Deletion
    <2>2. Carries(d, l, post)
      BY <1>4, <2>1, SameCarries
    <2> QED BY <1>4, <2>2 DEF Describes, Joins, Tracks, Distinct
  <1>13. Describes(r, pre, post, K)
    BY <1>9, <1>10, <1>11, <1>12, BothDescribe
  <1>14. c.deletions \subseteq r.deletions
    BY <1>1, <1>4, <1>9, <1>10, MergedKeeps
  <1> QED BY <1>13, <1>14 DEF r

(* move(): an entry is taken out and put back, and a move remembers where  *)
(* it was at first.                                                        *)
MovedTo(i, from, to) ==
    IF i = from THEN to
    ELSE IF to <= i /\ i < from THEN i + 1
    ELSE IF from < i /\ i <= to THEN i - 1 ELSE i

MovedMoves(ms, from, to) == [k \in DOMAIN ms |-> Move(ms[k].from, MovedTo(ms[k].to, from, to))]

LEMMA MovedToIs ==
    ASSUME NEW i \in Nat, NEW from \in Nat, NEW to \in Nat
    PROVE  /\ MovedTo(i, from, to) \in Nat
           /\ i # from => shift({to}, unshift({from}, i)) = MovedTo(i, from, to)
  <1>1. MovedTo(i, from, to) \in Nat
    BY DEF MovedTo
  <1>2. ASSUME i # from PROVE shift({to}, unshift({from}, i)) = MovedTo(i, from, to)
    <2>1. PICK j \in Nat : j = (IF i > from THEN i - 1 ELSE i) /\ unshift({from}, i) = j
      <3>1. (IF i > from THEN i - 1 ELSE i) \in Nat
        OBVIOUS
      <3> QED BY <1>2, <3>1, OneIndex
    <2>2. shift({to}, j) = IF j < to THEN j ELSE j + 1
      BY OneIndex
    <2>3. (IF j < to THEN j ELSE j + 1) = MovedTo(i, from, to)
      BY <1>2, <2>1 DEF MovedTo
    <2> QED BY <2>1, <2>2, <2>3
  <1> QED BY <1>1, <1>2

LEMMA MoveDescribes ==
    ASSUME NEW E, NEW pre \in Seq(E), NEW l \in Seq(E), NEW mid \in Seq(E), NEW post \in Seq(E),
           NEW K1, NEW K, ToSet(pre) \cap K \subseteq K1,
           NEW c, Describes(c, pre, l, K1),
           NEW from \in Indices(l), Erases(l, mid, from),
           NEW to \in 0..Len(mid), Inserts(mid, post, to, 1), At(post, to) = At(l, from)
    PROVE  /\ Describes(move(c, from, to), pre, post, K)
           /\ c.deletions \subseteq move(c, from, to).deletions
  <1> DEFINE r == move(c, from, to)
             one == Move(from, to)
             d == StepChange({from}, {to}, <<one>>)
             ms == MovedMoves(c.moves, from, to)
             u == erase_or_unshift(c.insertions, from)
             again == \E k \in DOMAIN c.moves : c.moves[k].to = from
             fresh == ~again /\ u # npos
             q == IF fresh THEN Append(ms, Move(shift(c.deletions, u), to)) ELSE ms
             I == insert_at(erase_at(c.insertions, {from}), {to})
             D == IF fresh THEN add_shifted(c.deletions, u) ELSE c.deletions
  <1>0. from \in Nat /\ to \in Nat /\ to <= Len(mid)
    BY IndexIs
  <1>1. /\ IsBuilder(c) /\ IsChange(c) /\ Carries(c, pre, l) /\ Joins(c, pre, l)
        /\ Distinct(c.moves) /\ c.moves \in Seq(Moves)
        /\ c.deletions \in IndexSets /\ c.insertions \in IndexSets
    BY BuilderParts DEF Describes
  <1>2. {from} \in IndexSets /\ {to} \in IndexSets /\ I \in IndexSets
    <2>1. {from} \in IndexSets /\ {to} \in IndexSets
      BY <1>0, OneIndex
    <2>2. erase_at(c.insertions, {from}) \in IndexSets
      BY <1>1, <2>1, ErasedSet
    <2> QED BY <2>1, <2>2, InsertedSet
  <1>3. \E cols : r = PutMove(c, I, D, q, cols)
    BY DEF move, PutMove, MovedMoves, MovedTo
  <1> HIDE DEF I, r
  <1>4. /\ IsBuilder(d) /\ IsChange(d) /\ d.deletions = {from} /\ d.insertions = {to}
        /\ DOMAIN d.moves = {1} /\ d.moves[1].from = from /\ d.moves[1].to = to
    <2>1. one \in Moves /\ one.from = from /\ one.to = to
      BY <1>0 DEF Moves, Move
    <2> HIDE DEF one
    <2>2. <<one>> \in Seq(Moves) /\ DOMAIN <<one>> = {1} /\ <<one>>[1] = one
      BY <2>1
    <2>3. PICK e \in Seq(Moves) : e = <<one>> /\ DOMAIN e = {1} /\ e[1] = one
      BY <2>2
    <2>4. d = StepChange({from}, {to}, e)
      BY <2>3
    <2> HIDE DEF d
    <2>5. IsBuilder(d) /\ IsChange(d) /\ d.deletions = {from} /\ d.insertions = {to} /\ d.moves = e
      <3>1. PICK X \in IndexSets, Y \in IndexSets : X = {from} /\ Y = {to}
        BY <1>2
      <3>2. d = StepChange(X, Y, e)
        BY <2>4, <3>1
      <3>3. IsBuilder(d) /\ IsChange(d) /\ d.deletions = X /\ d.insertions = Y /\ d.moves = e
        BY <3>2, StepIs
      <3> QED BY <3>1, <3>3
    <2> QED BY <2>1, <2>3, <2>5
  <1> HIDE DEF d
  <1>5. ASSUME NEW k \in DOMAIN c.moves
        PROVE  /\ ms[k] \in Moves /\ ms[k].from = c.moves[k].from
               /\ Goes(d, c.moves[k].to, ms[k].to)
    <2>1. c.moves[k] \in Moves /\ c.moves[k].from \in Nat /\ c.moves[k].to \in Nat
      <3>1. c.moves[k] \in Moves
        BY <1>1, EntryIndex
      <3> QED BY <3>1 DEF Moves
    <2>2. PICK t \in Nat : t = c.moves[k].to
      BY <2>1
    <2>3. PICK s \in Nat : s = MovedTo(t, from, to)
      BY <1>0, MovedToIs
    <2>4. ms[k] = Move(c.moves[k].from, s)
      BY <2>2, <2>3 DEF MovedMoves
    <2> HIDE DEF ms
    <2>5. ms[k] \in Moves /\ ms[k].from = c.moves[k].from /\ ms[k].to = s
      BY <2>1, <2>4 DEF Moves, Move
    <2>6. CASE t = from
      <3>1. s = to
        BY <2>3, <2>6 DEF MovedTo
      <3> QED BY <1>4, <2>2, <2>5, <2>6, <3>1 DEF Goes
    <2>7. CASE t # from
      <3>1. Follow(d, t) = s
        BY <1>0, <1>4, <2>3, <2>7, MovedToIs DEF Follow
      <3> QED BY <1>4, <2>2, <2>5, <2>7, <3>1 DEF Goes
    <2> QED BY <2>6, <2>7
  <1>6. ms \in Seq(Moves) /\ DOMAIN ms = DOMAIN c.moves
    <2>1. ms = [k \in DOMAIN c.moves |-> ms[k]]
      BY DEF MovedMoves
    <2> HIDE DEF ms
    <2> QED BY <1>1, <1>5, <2>1, MappedMoves
  <1> HIDE DEF ms
  <1>7. Distinct(d.moves) /\ \A y \in DOMAIN d.moves : d.moves[y].to \in d.insertions
    BY <1>4 DEF Distinct
  <1>8. Distinct(ms)
    BY <1>1, <1>4, <1>5, <1>6, <1>7, MappedDistinct
  <1>9. again => from \in c.insertions
    BY <1>1 DEF Joins
  <1>10. fresh <=> from \notin c.insertions
    <2>1. u = npos <=> from \in c.insertions
      BY <1>0, <1>1, ErasedRow
    <2> QED BY <1>9, <2>1
  <1>11. D = MergedChange(c, d).deletions /\ I = MergedChange(c, d).insertions /\ D \in IndexSets
    <2>1. /\ MergedChange(c, d).deletions = insert_at(erase_at({from}, c.insertions), c.deletions)
          /\ MergedChange(c, d).insertions = insert_at(erase_at(c.insertions, {from}), {to})
          /\ IsChange(MergedChange(c, d))
      <3>1. IsChange(c) /\ IsChange(d) /\ d.deletions = {from} /\ d.insertions = {to}
        BY <1>1, <1>4
      <3>2. /\ MergedChange(c, d).deletions = insert_at(erase_at(d.deletions, c.insertions), c.deletions)
            /\ MergedChange(c, d).insertions = insert_at(erase_at(c.insertions, d.deletions), d.insertions)
            /\ IsChange(MergedChange(c, d))
        BY <3>1, MergedIs
      <3> QED BY <3>1, <3>2
    <2>2. insert_at(erase_at({from}, c.insertions), c.deletions) =
             IF from \in c.insertions THEN c.deletions ELSE add_shifted(c.deletions, u)
      BY <1>0, <1>1, ErasedRow
    <2> HIDE DEF fresh
    <2>3. D = MergedChange(c, d).deletions
      BY <1>10, <2>1, <2>2
    <2> HIDE DEF D
    <2> QED BY <2>1, <2>3 DEF IsChange, I
  <1> HIDE DEF D
  <1>12. AreBoth(q, c, d)
    <2>1. CASE fresh
      <3> DEFINE g == Back(c, from)
                 m == Move(g, to)
                 n == Len(ms) + 1
      <3>0. from \in Nat \ c.insertions /\ g \in Nat /\ g \notin c.deletions
        BY <1>0, <1>1, <1>10, <2>1, BackIs
      <3>1. q = Append(ms, m)
        <4>1. u = unshift(c.insertions, from)
          BY <3>0 DEF erase_or_unshift
        <4> QED BY <2>1, <4>1 DEF Back
      <3>2. m \in Moves /\ m.from = g /\ m.to = to
        BY <1>0, <3>0 DEF Moves, Move
      <3> HIDE DEF m, q, fresh, again
      <3>3. /\ q \in Seq(Moves) /\ \A x : x \in DOMAIN q <=> x \in DOMAIN ms \/ x = n
            /\ \A x \in DOMAIN ms : q[x] = ms[x] /\ x # n
            /\ q[n] = m
        BY <1>6, <3>1, <3>2, AppendIs
      <3> HIDE DEF n, g
      <3>4. \A k \in DOMAIN ms : ms[k].from # g /\ ms[k].to # to
        <4> SUFFICES ASSUME NEW k \in DOMAIN c.moves PROVE ms[k].from # g /\ ms[k].to # to
          BY <1>6
        <4>1. c.moves[k].from \in c.deletions /\ c.moves[k].to \in c.insertions
          BY <1>1 DEF Joins
        <4>2. ms[k].from # g
          BY <1>5, <3>0, <4>1
        <4>3. Goes(d, c.moves[k].to, ms[k].to) /\ Goes(d, from, to)
          BY <1>4, <1>5 DEF Goes
        <4>4. c.moves[k].to \in Nat /\ c.moves[k].to # from
          BY <1>1, <3>0, <4>1, SetsAreFinite
        <4>5. ms[k].to # to
          BY <1>0, <1>4, <1>7, <4>3, <4>4, GoesApart
        <4> QED BY <4>2, <4>5
      <3>5. Distinct(q)
        BY <1>8, <3>2, <3>3, <3>4 DEF Distinct
      <3>6. ASSUME NEW x \in DOMAIN q
            PROVE  \/ \E j \in DOMAIN c.moves : q[x].from = c.moves[j].from /\ Goes(d, c.moves[j].to, q[x].to)
                   \/ \E y \in DOMAIN d.moves : /\ d.moves[y].from \notin c.insertions
                                                /\ q[x].from = Back(c, d.moves[y].from)
                                                /\ q[x].to = d.moves[y].to
        <4>1. CASE x \in DOMAIN ms
          BY <1>5, <1>6, <3>3, <4>1
        <4>2. CASE x = n
          BY <1>4, <3>0, <3>2, <3>3, <4>2 DEF g
        <4> QED BY <3>3, <4>1, <4>2
      <3>7. \A j \in DOMAIN c.moves : \E x \in DOMAIN q : q[x].from = c.moves[j].from
        BY <1>5, <1>6, <3>3
      <3>8. \A y \in DOMAIN d.moves : \E x \in DOMAIN q : q[x].from = Back(c, d.moves[y].from)
        BY <1>4, <3>2, <3>3 DEF g
      <3> QED BY <3>3, <3>5, <3>6, <3>7, <3>8 DEF AreBoth
    <2>2. CASE ~fresh
      <3>1. q = ms
        BY <2>2
      <3>2. from \in c.insertions
        BY <1>10, <2>2
      <3> HIDE DEF q, fresh, again
      <3>3. \A y \in DOMAIN d.moves : d.moves[y].from \in c.insertions
        BY <1>4, <3>2
      <3> QED BY <1>5, <1>6, <1>8, <3>1, <3>3 DEF AreBoth
    <2> QED BY <2>1, <2>2
  <1> HIDE DEF q
  <1>13. IsBuilder(r) /\ r.deletions = D /\ r.insertions = I /\ r.moves = q
    <2>1. q \in Seq(Moves)
      BY <1>12 DEF AreBoth
    <2> QED BY <1>1, <1>2, <1>3, <1>11, <2>1, WithMove
  <1>14. Describes(d, l, post, K)
    <2> DEFINE f == MergedChange(Deletion(from), Insertion(to, 1))
    <2>1. /\ IsChange(Deletion(from)) /\ Carries(Deletion(from), l, mid)
          /\ IsChange(Insertion(to, 1)) /\ Carries(Insertion(to, 1), mid, post)
      BY <1>0, DeletionCarries, InsertionCarries
    <2>2. Carries(f, l, post)
      BY <2>1, MergedCarries
    <2>3. f.deletions = {from} /\ f.insertions = {to}
      <3>1. /\ Deletion(from).deletions = {from} /\ Deletion(from).insertions = {}
            /\ Insertion(to, 1).deletions = {} /\ Insertion(to, 1).insertions = {to}
        BY <1>0 DEF Deletion, Insertion, SpanOf
      <3>2. /\ f.deletions = insert_at(erase_at({}, {}), {from})
            /\ f.insertions = insert_at(erase_at({}, {}), {to})
        BY <2>1, <3>1, MergedIs
      <3> QED BY <1>2, <3>2, NoneShifts
    <2> HIDE DEF f
    <2>4. Carries(d, l, post)
      BY <1>4, <2>2, <2>3, SameCarries
    <2>5. Joins(d, l, post) /\ Tracks(d, l, K)
      BY <1>4 DEF Joins, Tracks
    <2> QED BY <1>4, <1>7, <2>4, <2>5 DEF Describes
  <1>15. Describes(r, pre, post, K)
    BY <1>11, <1>12, <1>13, <1>14, BothDescribe
  <1>16. c.deletions \subseteq r.deletions
    BY <1>1, <1>4, <1>11, <1>13, MergedKeeps
  <1> QED BY <1>15, <1>16 DEF r

-----------------------------------------------------------------------------
(* Lists with an entry put in or taken out.                                *)

LEMMA EntriesAre ==
    ASSUME NEW E, NEW s \in Seq(E)
    PROVE  \A x : x \in ToSet(s) <=> \E i \in Indices(s) : At(s, i) = x
  <1>1. ASSUME NEW x \in ToSet(s) PROVE \E i \in Indices(s) : At(s, i) = x
    <2>1. PICK y \in DOMAIN s : x = s[y]
      BY DEF ToSet
    <2> QED BY <2>1, EntryIndex
  <1>2. \A i \in Indices(s) : At(s, i) \in ToSet(s)
    BY InToSet
  <1> QED BY <1>1, <1>2

(* r is s with e at i, or s without the entry at i.                        *)
PutIn(E, s, i, e, r) ==
    r \in Seq(E) /\ Inserts(s, r, i, 1) /\ At(r, i) = e

TakenOut(E, s, i, r) ==
    r \in Seq(E) /\ Erases(s, r, i)

IsConcat(E, a, b, m, n, r) ==
    /\ r \in Seq(E) /\ Len(r) = m + n
    /\ \A k \in 1..(m + n) : r[k] = IF k <= m THEN a[k] ELSE b[k - m]

LEMMA ConcatIs ==
    ASSUME NEW E, NEW a \in Seq(E), NEW b \in Seq(E), NEW m, NEW n, m = Len(a), n = Len(b)
    PROVE  IsConcat(E, a, b, m, n, a \o b)
BY ConcatProperties DEF IsConcat

LEMMA InsertAtIs ==
    ASSUME NEW E, NEW s \in Seq(E), NEW i \in 0..Len(s), NEW e \in E
    PROVE  PutIn(E, s, i, e, InsertAt(s, i + 1, e))
  <1> DEFINE a == SubSeq(s, 1, i)
             b == SubSeq(s, i + 1, Len(s))
             one == <<e>>
             r == a \o one \o b
  <1>1. PICK n \in Nat : n = Len(s) /\ DOMAIN s = 1..n /\ \A k \in 1..n : s[k] \in E
    BY LenProperties
  <1>2. i \in Nat /\ i <= n
    BY <1>1
  <1>3. a \in Seq(E) /\ Len(a) = i /\ \A k \in 1..i : a[k] = s[k]
    BY <1>1, <1>2
  <1>4. b \in Seq(E) /\ Len(b) = n - i /\ \A k \in 1..(n - i) : b[k] = s[i + k]
    BY <1>1, <1>2
  <1>5. one \in Seq(E) /\ Len(one) = 1 /\ one[1] = e
    OBVIOUS
  <1>6. InsertAt(s, i + 1, e) = r
    <2>1. (i + 1) - 1 = i
      BY <1>2
    <2> QED BY <2>1 DEF InsertAt
  <1> HIDE DEF a, b, one
  <1> DEFINE h == a \o one
  <1>7. h \in Seq(E) /\ Len(h) = i + 1 /\ \A k \in 1..(i + 1) : h[k] = IF k <= i THEN a[k] ELSE one[k - i]
    <2>1. IsConcat(E, a, one, i, 1, h)
      BY <1>3, <1>5, ConcatIs
    <2> HIDE DEF h
    <2> QED BY <2>1 DEF IsConcat
  <1> HIDE DEF h
  <1>8. /\ r \in Seq(E) /\ Len(r) = (i + 1) + (n - i)
        /\ \A k \in 1..((i + 1) + (n - i)) : r[k] = IF k <= i + 1 THEN h[k] ELSE b[k - (i + 1)]
    <2>1. IsConcat(E, h, b, i + 1, n - i, h \o b) /\ r = h \o b
      BY <1>4, <1>7, ConcatIs DEF h
    <2> HIDE DEF r
    <2> QED BY <2>1 DEF IsConcat
  <1> HIDE DEF r
  <1>9. Len(r) = n + 1
    BY <1>1, <1>2, <1>8
  <1>10. At(r, i) = e
    <2>1. i + 1 \in 1..((i + 1) + (n - i)) /\ i + 1 \in 1..(i + 1) /\ ~(i + 1 <= i) /\ (i + 1) - i = 1
      BY <1>1, <1>2
    <2>2. r[i + 1] = h[i + 1] /\ h[i + 1] = one[1]
      BY <1>2, <1>7, <1>8, <2>1
    <2> QED BY <1>5, <2>2 DEF At
  <1>11. ASSUME NEW j \in Indices(s) PROVE At(r, IF j < i THEN j ELSE j + 1) = At(s, j)
    <2>1. j \in Nat /\ j < n
      BY <1>1, IndexIs
    <2>2. CASE j < i
      <3>1. j + 1 \in 1..((i + 1) + (n - i)) /\ j + 1 <= i + 1 /\ j + 1 \in 1..(i + 1) /\ j + 1 <= i /\ j + 1 \in 1..i
        BY <1>1, <1>2, <2>1, <2>2
      <3>2. r[j + 1] = h[j + 1] /\ h[j + 1] = a[j + 1] /\ a[j + 1] = s[j + 1]
        BY <1>3, <1>7, <1>8, <3>1
      <3> QED BY <2>2, <3>2 DEF At
    <2>3. CASE ~(j < i)
      <3> DEFINE k == (j + 1) + 1
      <3>1. /\ k \in 1..((i + 1) + (n - i)) /\ ~(k <= i + 1)
            /\ k - (i + 1) \in 1..(n - i) /\ i + (k - (i + 1)) = j + 1
        BY <1>1, <1>2, <2>1, <2>3
      <3>2. r[k] = b[k - (i + 1)] /\ b[k - (i + 1)] = s[j + 1]
        BY <1>4, <1>8, <3>1
      <3> QED BY <2>3, <3>2 DEF At
    <2> QED BY <2>2, <2>3
  <1> QED BY <1>1, <1>6, <1>8, <1>9, <1>10, <1>11 DEF PutIn, Inserts

LEMMA RemoveAtIs ==
    ASSUME NEW E, NEW s \in Seq(E), NEW i \in Indices(s)
    PROVE  TakenOut(E, s, i, RemoveAt(s, i + 1))
  <1> DEFINE a == SubSeq(s, 1, i)
             b == SubSeq(s, i + 2, Len(s))
             r == a \o b
  <1>1. PICK n \in Nat : n = Len(s) /\ DOMAIN s = 1..n /\ \A k \in 1..n : s[k] \in E
    BY LenProperties
  <1>2. i \in Nat /\ i < n
    BY <1>1, IndexIs
  <1>3. a \in Seq(E) /\ Len(a) = i /\ \A k \in 1..i : a[k] = s[k]
    BY <1>1, <1>2
  <1>4. b \in Seq(E) /\ Len(b) = (n - i) - 1 /\ \A k \in 1..((n - i) - 1) : b[k] = s[(i + 1) + k]
    BY <1>1, <1>2
  <1>5. RemoveAt(s, i + 1) = r
    <2>1. (i + 1) - 1 = i /\ (i + 1) + 1 = i + 2
      BY <1>2
    <2> QED BY <2>1 DEF RemoveAt
  <1> HIDE DEF a, b
  <1>6. /\ r \in Seq(E) /\ Len(r) = i + ((n - i) - 1)
        /\ \A k \in 1..(i + ((n - i) - 1)) : r[k] = IF k <= i THEN a[k] ELSE b[k - i]
    <2>1. IsConcat(E, a, b, i, (n - i) - 1, r)
      BY <1>3, <1>4, ConcatIs
    <2> HIDE DEF r
    <2> QED BY <2>1 DEF IsConcat
  <1> HIDE DEF r
  <1>7. Len(r) = n - 1
    BY <1>1, <1>2, <1>6
  <1>8. ASSUME NEW j \in Indices(s) \ {i} PROVE At(r, IF j < i THEN j ELSE j - 1) = At(s, j)
    <2>1. j \in Nat /\ j < n /\ j # i
      BY <1>1, IndexIs
    <2>2. CASE j < i
      <3>1. j + 1 \in 1..(i + ((n - i) - 1)) /\ j + 1 <= i /\ j + 1 \in 1..i
        BY <1>1, <1>2, <2>1, <2>2
      <3>2. r[j + 1] = a[j + 1] /\ a[j + 1] = s[j + 1]
        BY <1>3, <1>6, <3>1
      <3> QED BY <2>2, <3>2 DEF At
    <2>3. CASE ~(j < i)
      <3>1. /\ j \in 1..(i + ((n - i) - 1)) /\ ~(j <= i)
            /\ j - i \in 1..((n - i) - 1) /\ (i + 1) + (j - i) = j + 1 /\ (j - 1) + 1 = j
        BY <1>1, <1>2, <2>1, <2>3
      <3>2. r[j] = b[j - i] /\ b[j - i] = s[j + 1]
        BY <1>4, <1>6, <3>1
      <3> QED BY <2>3, <3>1, <3>2 DEF At
    <2> QED BY <2>2, <2>3
  <1> QED BY <1>1, <1>5, <1>6, <1>7, <1>8 DEF TakenOut, Erases

(* No entry is in the list twice.                                          *)
Unique(s) == \A i, j \in Indices(s) : At(s, i) = At(s, j) => i = j

LEMMA InsertsOne ==
    ASSUME NEW E, NEW s \in Seq(E), NEW r \in Seq(E), NEW i \in 0..Len(s), NEW e,
           Inserts(s, r, i, 1), At(r, i) = e
    PROVE  /\ ToSet(r) = ToSet(s) \cup {e}
           /\ Unique(s) /\ e \notin ToSet(s) => Unique(r)
           /\ Len(r) = Len(s) + 1
  <1>1. PICK n \in Nat : n = Len(s)
    BY LenProperties
  <1>2. i \in Nat /\ i <= n /\ Len(r) = n + 1
    BY <1>1 DEF Inserts
  <1> DEFINE Was(j) == IF j < i THEN j ELSE j - 1
  <1>3. ASSUME NEW j \in Indices(r), j # i PROVE Was(j) \in Indices(s) /\ At(r, j) = At(s, Was(j))
    <2>1. j \in Nat /\ j < n + 1 /\ j # i
      BY <1>2, <1>3, IndexIs
    <2>2. PICK k \in Nat : k = Was(j) /\ k < n /\ (IF k < i THEN k ELSE k + 1) = j
      <3>1. Was(j) \in Nat /\ Was(j) < n /\ (IF Was(j) < i THEN Was(j) ELSE Was(j) + 1) = j
        BY <1>2, <2>1
      <3> QED BY <3>1
    <2> HIDE DEF Was
    <2>3. k \in Indices(s)
      BY <1>1, <2>2, IndexIs
    <2>4. At(r, IF k < i THEN k ELSE k + 1) = At(s, k)
      BY <2>3 DEF Inserts
    <2> QED BY <2>2, <2>3, <2>4
  <1>4. ASSUME NEW k \in Indices(s) PROVE \E j \in Indices(r) : At(r, j) = At(s, k)
    <2>1. k \in Nat /\ k < n
      BY <1>1, IndexIs
    <2>2. PICK j \in Nat : j = (IF k < i THEN k ELSE k + 1) /\ j < n + 1
      BY <1>2, <2>1
    <2>3. j \in Indices(r)
      BY <1>2, <2>2, IndexIs
    <2>4. At(r, j) = At(s, k)
      BY <2>2 DEF Inserts
    <2> QED BY <2>3, <2>4
  <1>5. i \in Indices(r)
    BY <1>2, IndexIs
  <1>6. \A j, k \in Indices(r) : j # i /\ k # i /\ Was(j) = Was(k) => j = k
    <2>1. \A j, k \in Nat : j # i /\ k # i /\ Was(j) = Was(k) => j = k
      BY <1>2
    <2>2. Indices(r) \subseteq Nat
      BY IndexIs
    <2> QED BY <2>1, <2>2
  <1> HIDE DEF Was
  <1>7. ToSet(r) = ToSet(s) \cup {e}
    <2>1. \A x : x \in ToSet(s) <=> \E j \in Indices(s) : At(s, j) = x
      BY EntriesAre
    <2>2. \A x : x \in ToSet(r) <=> \E j \in Indices(r) : At(r, j) = x
      BY EntriesAre
    <2>3. ASSUME NEW x \in ToSet(r) PROVE x \in ToSet(s) \/ x = e
      BY <1>3, <2>1, <2>2
    <2>4. ASSUME NEW x \in ToSet(s) PROVE x \in ToSet(r)
      BY <1>4, <2>1, <2>2
    <2>5. e \in ToSet(r)
      BY <1>5, <2>2
    <2> QED BY <2>3, <2>4, <2>5
  <1>8. ASSUME Unique(s), e \notin ToSet(s) PROVE Unique(r)
    <2> SUFFICES ASSUME NEW j \in Indices(r), NEW k \in Indices(r), At(r, j) = At(r, k)
                 PROVE  j = k
      BY DEF Unique
    <2>1. \A x \in Indices(r) : x # i => At(r, x) # e
      BY <1>3, <1>8, InToSet
    <2>2. CASE j # i /\ k # i
      <3>1. Was(j) = Was(k)
        BY <1>3, <1>8, <2>2 DEF Unique
      <3> QED BY <1>6, <2>2, <3>1
    <2> QED BY <2>1, <2>2
  <1> QED BY <1>1, <1>2, <1>7, <1>8

LEMMA ErasesOne ==
    ASSUME NEW E, NEW s \in Seq(E), NEW r \in Seq(E), NEW i \in Indices(s), Erases(s, r, i),
           Unique(s)
    PROVE  ToSet(r) = ToSet(s) \ {At(s, i)} /\ Unique(r) /\ Len(r) = Len(s) - 1
  <1>1. PICK n \in Nat : n = Len(s)
    BY LenProperties
  <1>2. i \in Nat /\ i < n /\ Len(r) = n - 1
    BY <1>1, IndexIs DEF Erases
  <1> DEFINE Was(j) == IF j < i THEN j ELSE j + 1
  <1>3. ASSUME NEW j \in Indices(r)
        PROVE  Was(j) \in Indices(s) /\ Was(j) # i /\ At(r, j) = At(s, Was(j))
    <2>1. j \in Nat /\ j < n - 1
      BY <1>2, IndexIs
    <2>2. PICK k \in Nat : k = Was(j) /\ k < n /\ k # i /\ (IF k < i THEN k ELSE k - 1) = j
      <3>1. Was(j) \in Nat /\ Was(j) < n /\ Was(j) # i /\ (IF Was(j) < i THEN Was(j) ELSE Was(j) - 1) = j
        BY <1>2, <2>1
      <3> QED BY <3>1
    <2> HIDE DEF Was
    <2>3. k \in Indices(s)
      BY <1>1, <2>2, IndexIs
    <2>4. At(r, IF k < i THEN k ELSE k - 1) = At(s, k)
      BY <2>2, <2>3 DEF Erases
    <2> QED BY <2>2, <2>3, <2>4
  <1>4. ASSUME NEW k \in Indices(s), k # i PROVE \E j \in Indices(r) : At(r, j) = At(s, k)
    <2>1. k \in Nat /\ k < n /\ k # i
      BY <1>1, <1>4, IndexIs
    <2>2. PICK j \in Nat : j = (IF k < i THEN k ELSE k - 1) /\ j < n - 1
      <3>1. (IF k < i THEN k ELSE k - 1) \in Nat /\ (IF k < i THEN k ELSE k - 1) < n - 1
        BY <1>2, <2>1
      <3> QED BY <3>1
    <2>3. j \in Indices(r)
      BY <1>2, <2>2, IndexIs
    <2>4. At(r, j) = At(s, k)
      BY <2>1, <2>2 DEF Erases
    <2> QED BY <2>3, <2>4
  <1>5. \A j, k \in Indices(r) : Was(j) = Was(k) => j = k
    <2>1. \A j, k \in Nat : Was(j) = Was(k) => j = k
      BY <1>2
    <2>2. Indices(r) \subseteq Nat
      BY IndexIs
    <2> QED BY <2>1, <2>2
  <1> HIDE DEF Was
  <1>6. ToSet(r) = ToSet(s) \ {At(s, i)}
    <2>1. \A x : x \in ToSet(s) <=> \E j \in Indices(s) : At(s, j) = x
      BY EntriesAre
    <2>2. \A x : x \in ToSet(r) <=> \E j \in Indices(r) : At(r, j) = x
      BY EntriesAre
    <2>3. ASSUME NEW x \in ToSet(r) PROVE x \in ToSet(s) /\ x # At(s, i)
      <3>1. PICK j \in Indices(r) : At(r, j) = x
        BY <2>2
      <3>2. Was(j) \in Indices(s) /\ Was(j) # i /\ x = At(s, Was(j))
        BY <1>3, <3>1
      <3> QED BY <2>1, <3>2 DEF Unique
    <2>4. ASSUME NEW x \in ToSet(s), x # At(s, i) PROVE x \in ToSet(r)
      BY <1>4, <2>1, <2>2, <2>4
    <2> QED BY <2>3, <2>4
  <1>7. Unique(r)
    <2> SUFFICES ASSUME NEW j \in Indices(r), NEW k \in Indices(r), At(r, j) = At(r, k)
                 PROVE  j = k
      BY DEF Unique
    <2>1. Was(j) = Was(k)
      BY <1>3 DEF Unique
    <2> QED BY <1>5, <2>1
  <1> QED BY <1>1, <1>2, <1>6, <1>7

-----------------------------------------------------------------------------
(* Changes of a whole list.                                                *)

LEMMA IndicesAre ==
    ASSUME NEW E, NEW s \in Seq(E)
    PROVE  /\ Indices(s) = SpanOf(0, Len(s)) /\ Indices(s) \in IndexSets
           /\ Cardinality(Indices(s)) = Len(s) /\ Len(s) \in Nat
  <1>1. PICK n \in Nat : n = Len(s)
    BY LenProperties
  <1>2. Indices(s) = SpanOf(0, n)
    BY <1>1 DEF Indices, SpanOf
  <1>3. SpanOf(0, n) \in IndexSets /\ Cardinality(SpanOf(0, n)) = n
    BY SpanIs
  <1> QED BY <1>1, <1>2, <1>3

(* Every entry goes, and every entry is new.                               *)
LEMMA AllDescribes ==
    ASSUME NEW E, NEW pre \in Seq(E), NEW post \in Seq(E), NEW c, IsBuilder(c),
           c.deletions = Indices(pre), c.insertions = Indices(post), DOMAIN c.moves = {}
    PROVE  Describes(c, pre, post, {})
  <1>1. /\ Cardinality(Indices(pre)) = Len(pre) /\ Len(pre) \in Nat
        /\ Cardinality(Indices(post)) = Len(post) /\ Len(post) \in Nat
    BY IndicesAre
  <1>2. Len(pre) - Cardinality(c.deletions) = Len(post) - Cardinality(c.insertions)
    BY <1>1
  <1>3. Carries(c, pre, post)
    BY <1>2 DEF Carries
  <1> QED BY <1>3 DEF Describes, Joins, Distinct, Tracks

LEMMA NoChangeIs ==
    ASSUME NEW columns
    PROVE  /\ IsBuilder(NoChange(columns)) /\ NoChange(columns).deletions = {}
           /\ NoChange(columns).insertions = {} /\ DOMAIN NoChange(columns).moves = {}
  <1> DEFINE c == NoChange(columns)
  <1>1. {} \in IndexSets /\ <<>> \in Seq(Moves) /\ DOMAIN <<>> = {}
    BY NoneShifts
  <1>2. PICK D \in IndexSets, e \in Seq(Moves) : D = {} /\ e = <<>> /\ DOMAIN e = {}
    BY <1>1
  <1>3. PICK f, cols : f = <<>> /\ cols = [k \in columns \cup {0} |-> {}]
    OBVIOUS
  <1>4. c = [deletions |-> D, insertions |-> D, moves |-> e, mapping |-> f, cols |-> cols]
    BY <1>2, <1>3 DEF NoChange
  <1> HIDE DEF c
  <1>5. IsBuilder(c) /\ c.deletions = D /\ c.insertions = D /\ c.moves = e
    BY <1>4, BuilderIs
  <1> QED BY <1>2, <1>5 DEF c

(* Nothing is changed.                                                     *)
LEMMA NoneDescribes ==
    ASSUME NEW E, NEW s \in Seq(E), NEW K, NEW c, IsBuilder(c), c.deletions = {}, c.insertions = {},
           DOMAIN c.moves = {}
    PROVE  Describes(c, s, s, K)
  <1>1. \A i \in Indices(s) : Follow(c, i) = i
    BY IndexIs, NoneShifts DEF Follow
  <1>2. Carries(c, s, s)
    BY <1>1 DEF Carries
  <1> QED BY <1>2 DEF Describes, Joins, Distinct, Tracks

PutDeletions(c, D) == [c EXCEPT !.deletions = D]

LEMMA WithDeletions ==
    ASSUME NEW c, IsBuilder(c), NEW D \in IndexSets, NEW r, r = PutDeletions(c, D)
    PROVE  IsBuilder(r) /\ r.deletions = D /\ r.insertions = c.insertions /\ r.moves = c.moves
  <1>1. PICK F, C : c \in [deletions : IndexSets, insertions : IndexSets, moves : Seq(Moves),
                            mapping : F, cols : C]
    BY DEF IsBuilder
  <1>2. /\ r \in [deletions : IndexSets, insertions : IndexSets, moves : Seq(Moves),
                   mapping : F, cols : C]
        /\ r.deletions = D /\ r.insertions = c.insertions /\ r.moves = c.moves
    BY <1>1 DEF PutDeletions
  <1> QED BY <1>2 DEF IsBuilder

(* clear(): the list had as many entries as the change says, or any number.*)
LEMMA ClearDescribes ==
    ASSUME NEW E, NEW pre \in Seq(E), NEW l \in Seq(E), NEW K, NEW all,
           NEW c, Describes(c, pre, l, K)
    PROVE  Describes(clear(c, Len(l), all), pre, <<>>, {})
  <1> DEFINE r == clear(c, Len(l), all)
  <1>1. IsChange(r) /\ Carries(r, pre, <<>>)
    BY ClearCarries DEF Describes
  <1>2. \E columns, D : r = PutDeletions(NoChange(columns), D)
    BY DEF clear, PutDeletions
  <1> HIDE DEF r
  <1>3. PICK columns, D : r = PutDeletions(NoChange(columns), D)
    BY <1>2
  <1>4. D \in IndexSets
    <2>1. r.deletions = D
      BY <1>3 DEF PutDeletions, NoChange
    <2> QED BY <1>1, <2>1 DEF IsChange
  <1>5. IsBuilder(r) /\ r.moves = NoChange(columns).moves
    BY <1>3, <1>4, NoChangeIs, WithDeletions
  <1>6. DOMAIN r.moves = {}
    BY <1>5, NoChangeIs
  <1>7. Describes(r, pre, <<>>, {})
    BY <1>1, <1>5, <1>6 DEF Describes, Joins, Distinct, Tracks
  <1> QED BY <1>7 DEF r

LEMMA ClearAllDescribes ==
    ASSUME NEW E, NEW pre \in Seq(E), NEW c
    PROVE  Describes(clear(c, npos, Len(pre)), pre, <<>>, {})
  <1> DEFINE r == clear(c, npos, Len(pre))
  <1>1. Indices(pre) = SpanOf(0, Len(pre)) /\ Indices(pre) \in IndexSets
    BY IndicesAre
  <1>2. \E columns : r = PutDeletions(NoChange(columns), SpanOf(0, Len(pre)))
    BY DEF clear, PutDeletions
  <1> HIDE DEF r
  <1>3. PICK columns : r = PutDeletions(NoChange(columns), SpanOf(0, Len(pre)))
    BY <1>2
  <1>4. /\ IsBuilder(r) /\ r.deletions = SpanOf(0, Len(pre))
        /\ r.insertions = NoChange(columns).insertions /\ r.moves = NoChange(columns).moves
    BY <1>1, <1>3, NoChangeIs, WithDeletions
  <1>5. r.insertions = {} /\ DOMAIN r.moves = {}
    BY <1>4, NoChangeIs
  <1>6. <<>> \in Seq(E) /\ Indices(<<>>) = {}
    BY DEF Indices
  <1>7. PICK post \in Seq(E) : post = <<>> /\ Indices(post) = {}
    BY <1>6
  <1>8. Describes(r, pre, post, {})
    BY <1>1, <1>4, <1>5, <1>7, AllDescribes
  <1> QED BY <1>7, <1>8 DEF r

(* modify() changes the columns only.                                      *)
LEMMA ModifyDescribes ==
    ASSUME NEW c, NEW pre, NEW post, NEW K, Describes(c, pre, post, K), NEW ndx, NEW col
    PROVE  Describes(modify(c, ndx, col), pre, post, K)
  <1>1. \E cols : modify(c, ndx, col) = PutCols(c, cols)
    BY DEF modify, PutCols
  <1> QED BY <1>1, ColsDescribe

(* Entries that are not in the new list cannot have stayed.                *)
LEMMA AllReplaced ==
    ASSUME NEW E, NEW pre \in Seq(E), NEW post \in Seq(E), NEW c, NEW K, Describes(c, pre, post, K),
           ToSet(pre) \cap ToSet(post) = {}
    PROVE  c.deletions = Indices(pre) /\ c.insertions = Indices(post) /\ DOMAIN c.moves = {}
  <1>1. /\ IsBuilder(c) /\ IsChange(c) /\ Carries(c, pre, post) /\ Joins(c, pre, post)
        /\ c.deletions \in IndexSets /\ c.insertions \in IndexSets
        /\ c.deletions \subseteq Indices(pre) /\ c.insertions \subseteq Indices(post)
    BY BuilderParts DEF Describes, Carries
  <1>2. ASSUME NEW i \in Indices(pre), i \notin c.deletions PROVE FALSE
    <2>1. i \in Nat \ c.deletions
      BY <1>2, IndexIs
    <2>2. Follow(c, i) \in Indices(post)
      BY <1>1, <2>1, FollowBound
    <2>3. At(post, Follow(c, i)) = At(pre, i)
      BY <1>1, <1>2 DEF Carries
    <2>4. At(post, Follow(c, i)) \in ToSet(post) /\ At(pre, i) \in ToSet(pre)
      BY <2>2, InToSet
    <2> QED BY <2>3, <2>4
  <1>3. c.deletions = Indices(pre)
    BY <1>1, <1>2
  <1>4. c.insertions = Indices(post)
    <2>1. /\ Cardinality(Indices(pre)) = Len(pre) /\ Len(pre) \in Nat /\ Indices(post) \in IndexSets
          /\ Cardinality(Indices(post)) = Len(post) /\ Len(post) \in Nat
      BY IndicesAre
    <2>2. Cardinality(c.insertions) \in Nat
      BY <1>1, SetsAreFinite
    <2>3. Len(pre) - Cardinality(c.deletions) = Len(post) - Cardinality(c.insertions)
      BY <1>1 DEF Carries
    <2>4. Cardinality(c.insertions) = Cardinality(Indices(post))
      BY <1>3, <2>1, <2>2, <2>3
    <2>5. IsFiniteSet(Indices(post))
      BY <2>1, SetsAreFinite
    <2> QED BY <1>1, <2>4, <2>5, FS_Subset
  <1>5. ASSUME NEW k \in DOMAIN c.moves PROVE FALSE
    <2>1. /\ c.moves[k].from \in Indices(pre) /\ c.moves[k].to \in Indices(post)
          /\ At(pre, c.moves[k].from) = At(post, c.moves[k].to)
      BY <1>1 DEF Joins
    <2>2. At(pre, c.moves[k].from) \in ToSet(pre) /\ At(post, c.moves[k].to) \in ToSet(post)
      BY <2>1, InToSet
    <2> QED BY <2>1, <2>2
  <1> QED BY <1>3, <1>4, <1>5

-----------------------------------------------------------------------------
(* The names of the entries.                                               *)

LEMMA FewEntries ==
    ASSUME NEW E, NEW s \in Seq(E)
    PROVE  IsFiniteSet(ToSet(s)) /\ Cardinality(ToSet(s)) \in Nat /\ Cardinality(ToSet(s)) <= Len(s)
  <1>1. PICK n \in Nat : n = Len(s) /\ DOMAIN s = 1..n /\ s \in [1..n -> E]
    BY LenProperties
  <1>2. IsFiniteSet(1..n) /\ Cardinality(1..n) = n
    <2>1. IsFiniteSet(1..n) /\ Cardinality(1..n) = IF 1 > n THEN 0 ELSE n - 1 + 1
      BY FS_Interval
    <2> QED BY <2>1
  <1>3. s \in Surjection(1..n, ToSet(s))
    BY <1>1 DEF ToSet, Surjection
  <1>4. IsFiniteSet(ToSet(s)) /\ Cardinality(ToSet(s)) <= Cardinality(1..n)
    BY <1>2, <1>3, FS_Surjection
  <1> QED BY <1>1, <1>2, <1>4, FS_CardinalityType

-----------------------------------------------------------------------------
(* The modified entries.                                                   *)

(* The entries of s that c says are modified.                              *)
Named(c, s) == {At(s, i) : i \in c.cols[0]}

MarksIn(c, s) == DOMAIN c.cols = {0} /\ c.cols[0] \subseteq Indices(s)

(* r says of post what c says of l, but for the entries in X.              *)
SameMarks(c, l, r, post, X) ==
    MarksIn(r, post) /\ Named(r, post) = Named(c, l) \ X

LEMMA ColsOf ==
    ASSUME NEW c, IsBuilder(c), NEW cols, NEW D, NEW I, NEW ms, NEW f
    PROVE  /\ PutCols(c, cols).cols = cols
           /\ PutInsert(c, cols, I, ms, f).cols = cols
           /\ PutErase(c, I, D, cols, ms).cols = cols
           /\ PutMove(c, I, D, ms, cols).cols = cols
           /\ PutAll(c, ms, D, I).cols = c.cols
           /\ PutDeletions(c, D).cols = c.cols
  <1>1. PICK F, C : c \in [deletions : IndexSets, insertions : IndexSets, moves : Seq(Moves),
                            mapping : F, cols : C]
    BY DEF IsBuilder
  <1> QED BY <1>1 DEF PutCols, PutInsert, PutErase, PutMove, PutAll, PutDeletions

LEMMA InsertMarks ==
    ASSUME NEW E, NEW l \in Seq(E), NEW post \in Seq(E), NEW c, IsBuilder(c), MarksIn(c, l),
           NEW index \in Nat, index <= Len(l), Inserts(l, post, index, 1)
    PROVE  SameMarks(c, l, insert(c, index, 1, TRUE), post, {})
  <1> DEFINE r == insert(c, index, 1, TRUE)
             S == SpanOf(index, 1)
             cols == [k \in DOMAIN c.cols |-> shift_for_insert_at(c.cols[k], S)]
             Up(j) == IF j < index THEN j ELSE j + 1
  <1>1. \E I, ms, f : r = PutInsert(c, cols, I, ms, f)
    BY DEF insert, PutInsert
  <1> HIDE DEF r
  <1>2. DOMAIN r.cols = {0} /\ r.cols[0] = {shift(S, j) : j \in c.cols[0]}
    <2>1. r.cols = cols
      <3> HIDE DEF cols
      <3> QED BY <1>1, ColsOf
    <2> QED BY <2>1 DEF MarksIn, shift_for_insert_at
  <1>3. ASSUME NEW j \in c.cols[0]
        PROVE  shift(S, j) \in Indices(post) /\ At(post, shift(S, j)) = At(l, j)
    <2>1. j \in Indices(l) /\ j \in Nat /\ j < Len(l)
      BY IndexIs DEF MarksIn
    <2>2. shift(S, j) = Up(j)
      BY <2>1, SpanIs
    <2>3. At(post, Up(j)) = At(l, j)
      BY <2>1 DEF Inserts
    <2>4. Up(j) \in Indices(post)
      <3>1. PICK n \in Nat : n = Len(l) /\ Len(post) = n + 1
        BY LenProperties DEF Inserts
      <3>2. Up(j) \in Nat /\ Up(j) < n + 1
        BY <2>1, <3>1
      <3> QED BY <3>1, <3>2, IndexIs
    <2> QED BY <2>2, <2>3, <2>4
  <1> HIDE DEF S
  <1>4. Named(r, post) = Named(c, l)
    BY <1>2, <1>3 DEF Named
  <1>5. MarksIn(r, post)
    BY <1>2, <1>3 DEF MarksIn
  <1> QED BY <1>4, <1>5 DEF SameMarks, r

LEMMA EraseMarks ==
    ASSUME NEW E, NEW l \in Seq(E), NEW post \in Seq(E), NEW c, IsBuilder(c), MarksIn(c, l),
           NEW index \in Indices(l), Erases(l, post, index), Unique(l)
    PROVE  SameMarks(c, l, erase(c, index), post, {At(l, index)})
  <1> DEFINE r == erase(c, index)
             cols == [k \in DOMAIN c.cols |-> erase_at(c.cols[k], {index})]
             Down(j) == IF j < index THEN j ELSE j - 1
  <1>1. \E I, D, ms : r = PutErase(c, I, D, cols, ms)
    <2>1. EraseRow(c, index).cols = c.cols
      <3>1. \E I, D : EraseRow(c, index) = PutSets(c, D, I)
        BY DEF EraseRow, PutSets
      <3>2. PICK F, C : c \in [deletions : IndexSets, insertions : IndexSets, moves : Seq(Moves),
                                mapping : F, cols : C]
        BY DEF IsBuilder
      <3> QED BY <3>1, <3>2 DEF PutSets
    <2>2. \E I, D, ms : r = PutErase(c, I, D, [k \in DOMAIN EraseRow(c, index).cols |->
                                               erase_at(EraseRow(c, index).cols[k], {index})], ms)
      BY DEF erase, EraseRow, PutErase
    <2> QED BY <2>1, <2>2
  <1> HIDE DEF r
  <1>2. DOMAIN r.cols = {0} /\ r.cols[0] = {unshift({index}, j) : j \in c.cols[0] \ {index}}
    <2>1. r.cols = cols
      <3> HIDE DEF cols
      <3> QED BY <1>1, ColsOf
    <2> QED BY <2>1 DEF MarksIn, erase_at
  <1>3. ASSUME NEW j \in c.cols[0], j # index
        PROVE  /\ unshift({index}, j) \in Indices(post) /\ At(post, unshift({index}, j)) = At(l, j)
               /\ At(l, j) # At(l, index)
    <2>1. j \in Indices(l) /\ j \in Nat /\ j < Len(l) /\ index \in Nat /\ index < Len(l)
      BY IndexIs DEF MarksIn
    <2>2. unshift({index}, j) = Down(j)
      <3>1. unshift({index}, j) = IF j > index THEN j - 1 ELSE j
        BY <1>3, <2>1, OneIndex
      <3> QED BY <1>3, <2>1, <3>1
    <2>3. At(post, Down(j)) = At(l, j)
      BY <1>3, <2>1 DEF Erases
    <2>4. Down(j) \in Indices(post)
      <3>1. PICK n \in Nat : n = Len(l) /\ Len(post) = n - 1
        BY LenProperties DEF Erases
      <3>2. Down(j) \in Nat /\ Down(j) < n - 1
        BY <1>3, <2>1, <3>1
      <3> QED BY <3>1, <3>2, IndexIs
    <2>5. At(l, j) # At(l, index)
      BY <1>3, <2>1 DEF Unique
    <2> QED BY <2>2, <2>3, <2>4, <2>5
  <1>4. Named(r, post) = Named(c, l) \ {At(l, index)}
    <2>1. \A j \in c.cols[0] : At(l, j) # At(l, index) => j # index
      OBVIOUS
    <2>2. ASSUME NEW x \in Named(r, post) PROVE x \in Named(c, l) \ {At(l, index)}
      BY <1>2, <1>3 DEF Named
    <2>3. ASSUME NEW x \in Named(c, l) \ {At(l, index)} PROVE x \in Named(r, post)
      <3>1. PICK j \in c.cols[0] : x = At(l, j)
        BY DEF Named
      <3>2. unshift({index}, j) \in r.cols[0] /\ At(post, unshift({index}, j)) = x
        BY <1>2, <1>3, <2>1, <3>1
      <3> QED BY <3>2 DEF Named
    <2> QED BY <2>2, <2>3
  <1>5. MarksIn(r, post)
    BY <1>2, <1>3 DEF MarksIn
  <1> QED BY <1>4, <1>5 DEF SameMarks, r

MovedMarks(S, from, to) ==
    IF from \in S THEN insert_at(erase_at(S, {from}), {to})
                  ELSE shift_for_insert_at(erase_at(S, {from}), {to})

LEMMA MoveMarks ==
    ASSUME NEW E, NEW l \in Seq(E), NEW mid \in Seq(E), NEW post \in Seq(E),
           NEW c, IsBuilder(c), MarksIn(c, l),
           NEW from \in Indices(l), Erases(l, mid, from),
           NEW to \in 0..Len(mid), Inserts(mid, post, to, 1), At(post, to) = At(l, from)
    PROVE  SameMarks(c, l, move(c, from, to), post, {})
  <1> DEFINE r == move(c, from, to)
             cols == [k \in DOMAIN c.cols |-> MovedMarks(c.cols[k], from, to)]
             Way(j) == shift({to}, unshift({from}, j))
             M == c.cols[0]
  <1>1. \E I, D, ms : r = PutMove(c, I, D, ms, cols)
    BY DEF move, PutMove, MovedMarks
  <1> HIDE DEF r
  <1>2. DOMAIN r.cols = {0} /\ r.cols[0] = MovedMarks(M, from, to)
    <2>1. r.cols = cols
      <3> HIDE DEF cols
      <3> QED BY <1>1, ColsOf
    <2> QED BY <2>1 DEF MarksIn
  <1>3. MovedMarks(M, from, to) = {Way(j) : j \in M \ {from}} \cup (IF from \in M THEN {to} ELSE {})
    BY DEF MovedMarks, insert_at, shift_for_insert_at, erase_at
  <1>4. PICK n \in Nat : /\ n = Len(l) /\ Len(mid) = n - 1 /\ Len(post) = n
                         /\ from \in Nat /\ from < n /\ to \in Nat /\ to < n
    <2>1. PICK n \in Nat : n = Len(l) /\ Len(mid) = n - 1 /\ from \in Nat /\ from < n
      BY IndexIs DEF Erases
    <2>2. to \in Nat /\ to < n /\ Len(post) = n
      BY <2>1 DEF Inserts
    <2> QED BY <2>1, <2>2
  <1>5. ASSUME NEW j \in M, j # from
        PROVE  Way(j) \in Indices(post) /\ At(post, Way(j)) = At(l, j)
    <2>1. j \in Indices(l) /\ j \in Nat /\ j < n
      BY <1>4, IndexIs DEF MarksIn
    <2>2. PICK k \in Nat : k = unshift({from}, j) /\ k = (IF j < from THEN j ELSE j - 1) /\ k < n - 1
      <3>1. unshift({from}, j) = IF j > from THEN j - 1 ELSE j
        BY <1>4, <1>5, <2>1, OneIndex
      <3>2. LET k == IF j > from THEN j - 1 ELSE j
            IN  k \in Nat /\ k = (IF j < from THEN j ELSE j - 1) /\ k < n - 1
        BY <1>4, <1>5, <2>1
      <3> QED BY <3>1, <3>2
    <2>3. k \in Indices(mid) /\ At(mid, k) = At(l, j)
      <3>1. k \in Indices(mid)
        BY <1>4, <2>2, IndexIs
      <3> QED BY <1>5, <2>1, <2>2, <3>1 DEF Erases
    <2>4. PICK t \in Nat : t = shift({to}, k) /\ t = (IF k < to THEN k ELSE k + 1) /\ t < n
      <3>1. shift({to}, k) = IF k < to THEN k ELSE k + 1
        BY <1>4, OneIndex
      <3>2. LET t == IF k < to THEN k ELSE k + 1 IN t \in Nat /\ t < n
        BY <1>4, <2>2
      <3> QED BY <3>1, <3>2
    <2>5. At(post, t) = At(mid, k)
      BY <2>3, <2>4 DEF Inserts
    <2>6. t \in Indices(post)
      BY <1>4, <2>4, IndexIs
    <2> QED BY <2>2, <2>3, <2>4, <2>5, <2>6
  <1>6. to \in Indices(post)
    BY <1>4, IndexIs
  <1> HIDE DEF Way
  <1>7. MarksIn(r, post)
    BY <1>2, <1>3, <1>5, <1>6 DEF MarksIn
  <1>8. Named(r, post) = Named(c, l)
    <2>1. ASSUME NEW x \in Named(r, post) PROVE x \in Named(c, l)
      <3>1. PICK t \in r.cols[0] : x = At(post, t)
        BY DEF Named
      <3>2. CASE \E j \in M \ {from} : t = Way(j)
        BY <1>5, <3>1, <3>2 DEF Named
      <3>3. CASE from \in M /\ t = to
        BY <3>1, <3>3 DEF Named
      <3> QED BY <1>2, <1>3, <3>2, <3>3
    <2>2. ASSUME NEW x \in Named(c, l) PROVE x \in Named(r, post)
      <3>1. PICK j \in M : x = At(l, j)
        BY DEF Named
      <3>2. CASE j # from
        <4>1. Way(j) \in r.cols[0] /\ At(post, Way(j)) = x
          BY <1>2, <1>3, <1>5, <3>1, <3>2
        <4> QED BY <4>1 DEF Named
      <3>3. CASE j = from
        <4>1. to \in r.cols[0] /\ At(post, to) = x
          BY <1>2, <1>3, <3>1, <3>3
        <4> QED BY <4>1 DEF Named
      <3> QED BY <3>2, <3>3
    <2> QED BY <2>1, <2>2
  <1> QED BY <1>7, <1>8 DEF SameMarks, r

LEMMA ModifyMarks ==
    ASSUME NEW E, NEW l \in Seq(E), NEW c, IsBuilder(c), MarksIn(c, l), NEW i \in Indices(l)
    PROVE  /\ MarksIn(modify(c, i, npos), l)
           /\ Named(modify(c, i, npos), l) = Named(c, l) \cup {At(l, i)}
  <1> DEFINE r == modify(c, i, npos)
             cols == [k \in DOMAIN c.cols |-> IF k \in {0, npos} THEN c.cols[k] \cup {i} ELSE c.cols[k]]
  <1>1. r = PutCols(c, cols)
    BY DEF modify, PutCols
  <1> HIDE DEF r
  <1>2. DOMAIN r.cols = {0} /\ r.cols[0] = c.cols[0] \cup {i}
    <2>1. r.cols = cols
      <3> HIDE DEF cols
      <3> QED BY <1>1, ColsOf
    <2> QED BY <2>1 DEF MarksIn
  <1>3. MarksIn(r, l)
    BY <1>2 DEF MarksIn
  <1>4. Named(r, l) = Named(c, l) \cup {At(l, i)}
    BY <1>2 DEF Named
  <1> QED BY <1>3, <1>4 DEF r

LEMMA NoMarks ==
    ASSUME NEW c, DOMAIN c.cols = {0}, c.cols[0] = {}, NEW s
    PROVE  MarksIn(c, s) /\ Named(c, s) = {}
BY DEF MarksIn, Named

LEMMA ClearMarks ==
    ASSUME NEW c, DOMAIN c.cols = {0}, NEW size, NEW all, NEW s
    PROVE  MarksIn(clear(c, size, all), s) /\ Named(clear(c, size, all), s) = {}
  <1> DEFINE r == clear(c, size, all)
  <1>1. \E D : r = PutDeletions(NoChange({0}), D)
    BY DEF clear, PutDeletions
  <1>2. NoChange({0}).cols = [k \in {0} |-> {}]
    BY DEF NoChange
  <1> HIDE DEF r
  <1>3. r.cols = NoChange({0}).cols
    BY <1>1, NoChangeIs, ColsOf
  <1> QED BY <1>2, <1>3, NoMarks DEF r

-----------------------------------------------------------------------------
(* The marks that merge() keeps.                                           *)

Record(D, I, ms, f, cols) ==
    [deletions |-> D, insertions |-> I, moves |-> ms, mapping |-> f, cols |-> cols]

(* a has the columns of c.                                                 *)
HasCols(a, cols) == \E D, I, ms, f : a = Record(D, I, ms, f, cols)

LEMMA DropKeepsCols ==
    ASSUME NEW a, NEW cols, HasCols(a, cols), NEW m
    PROVE  HasCols(DropStale(a, m), cols)
  <1>1. PICK D, I, ms, f : a = Record(D, I, ms, f, cols)
    BY DEF HasCols
  <1>2. CASE unshift(a.deletions, m.from) # unshift(a.insertions, m.to)
    <2>1. DropStale(a, m) = [a EXCEPT !.moves = Append(@, m)]
      BY <1>2 DEF DropStale
    <2>2. DropStale(a, m) = Record(D, I, Append(ms, m), f, cols)
      BY <1>1, <2>1 DEF Record
    <2> QED BY <2>2 DEF HasCols
  <1>3. CASE ~(unshift(a.deletions, m.from) # unshift(a.insertions, m.to))
    <2>1. DropStale(a, m) = [a EXCEPT !.deletions = @ \ {m.from}, !.insertions = @ \ {m.to}]
      BY <1>3 DEF DropStale
    <2>2. DropStale(a, m) = Record(D \ {m.from}, I \ {m.to}, ms, f, cols)
      BY <1>1, <2>1 DEF Record
    <2> QED BY <2>2 DEF HasCols
  <1> QED BY <1>2, <1>3

LEMMA CleanUpCols ==
    ASSUME NEW c, IsBuilder(c)
    PROVE  HasCols(clean_up_stale_moves(c), c.cols)
  <1> DEFINE ms == c.moves
             n == Len(ms)
             base == [c EXCEPT !.moves = <<>>]
             after == CHOOSE g : Drops(g, base, ms, n)
  <1>1. n \in Nat
    <2>1. ms \in Seq(Moves)
      BY BuilderParts
    <2> QED BY <2>1, LenProperties
  <1>2. clean_up_stale_moves(c) = after[n]
    BY DEF clean_up_stale_moves, Drops
  <1>3. Drops(after, base, ms, n)
    BY <1>1, DropsExist
  <1>4. HasCols(base, c.cols)
    <2>1. PICK F, C : c \in [deletions : IndexSets, insertions : IndexSets, moves : Seq(Moves),
                              mapping : F, cols : C]
      BY DEF IsBuilder
    <2>2. base = Record(c.deletions, c.insertions, <<>>, c.mapping, c.cols)
      BY <2>1 DEF Record
    <2> QED BY <2>2 DEF HasCols
  <1> HIDE DEF base, after
  <1>5. \A k \in 0..n : after[k] = IF k = 0 THEN base ELSE DropStale(after[k - 1], ms[k])
    BY <1>3 DEF Drops
  <1> DEFINE T == {k \in 0..n : ~HasCols(after[k], c.cols)}
  <1>6. T = {}
    <2> SUFFICES ASSUME T # {} PROVE FALSE
      OBVIOUS
    <2>1. T \in SUBSET Nat
      BY <1>1
    <2>2. PICK k \in T : \A j \in T : k <= j
      BY <2>1, LeastOf
    <2>3. k \in 0..n /\ ~HasCols(after[k], c.cols)
      BY <2>2
    <2>4. CASE k = 0
      BY <1>4, <1>5, <2>3, <2>4
    <2>5. CASE k # 0
      <3>1. k - 1 \in 0..n /\ ~(k <= k - 1)
        BY <1>1, <2>3, <2>5
      <3>2. HasCols(after[k - 1], c.cols)
        BY <2>2, <3>1
      <3> HIDE DEF ms, n, T
      <3>3. HasCols(DropStale(after[k - 1], ms[k]), c.cols)
        BY <3>2, DropKeepsCols
      <3> QED BY <1>5, <2>3, <2>5, <3>3
    <2> QED BY <2>4, <2>5
  <1>7. n \in 0..n
    BY <1>1
  <1>8. HasCols(after[n], c.cols)
    BY <1>6, <1>7
  <1> QED BY <1>2, <1>8

LEMMA ColsAre ==
    ASSUME NEW a, NEW cols, HasCols(a, cols), NEW new
    PROVE  a.cols = cols /\ PutCols(a, new).cols = new
BY DEF HasCols, Record, PutCols

(* The marks of the newer change, and of the rows it moves again.          *)
Marked(a, b, c, k) ==
    /\ DOMAIN a.cols = {0} /\ c.cols[0] \subseteq a.cols[0]
    /\ \A t \in a.cols[0] : \/ t \in c.cols[0]
                            \/ \E y \in DOMAIN c.moves : c.moves[y].from \in b.cols[0] /\ c.moves[y].to = t
    /\ \A j \in DOMAIN b.moves, y \in DOMAIN c.moves :
          j <= k /\ b.moves[j].to = c.moves[y].from /\ c.moves[y].from \in b.cols[0]
          => c.moves[y].to \in a.cols[0]

LEMMA MarkedStep ==
    ASSUME NEW b, NEW c, MovesMerge(b, c), NEW k \in Nat, k + 1 \in DOMAIN b.moves,
           NEW a, Updated(a, b, c, k), Marked(a, b, c, k)
    PROVE  Marked(UpdateOldMove(b, c, b.moves[k + 1], a), b, c, k + 1)
  <1> DEFINE m == b.moves[k + 1]
             hits == {x \in DOMAIN a.moves : a.moves[x].from = m.to}
             h == Min(hits)
             t == a.moves[h].to
             r == UpdateOldMove(b, c, m, a)
  <1>1. DOMAIN b.moves \subseteq Nat /\ a.moves \in Seq(Moves) /\ DOMAIN a.moves \subseteq Nat
    <2>1. b.moves \in Seq(Moves) /\ a.moves \in Seq(Moves)
      BY BuilderParts DEF MovesMerge, Updated
    <2> QED BY <2>1
  <1>2. \A j \in DOMAIN b.moves : j <= k + 1 <=> j <= k \/ j = k + 1
    BY <1>1
  <1>3. CASE hits # {}
    <2>1. h \in DOMAIN a.moves /\ a.moves[h].from = m.to
      <3>1. hits \in SUBSET Nat
        BY <1>1
      <3>2. h \in hits
        <4> HIDE DEF hits
        <4> QED BY <1>3, <3>1, MinIs
      <3> QED BY <3>2
    <2>2. PICK x \in DOMAIN c.moves : a.moves[h] = c.moves[x]
      BY <2>1 DEF Updated
    <2>3. c.moves[x].from = m.to /\ c.moves[x].to = t
      BY <2>1, <2>2
    <2>4. PICK cols : cols = [n \in DOMAIN a.cols |-> IF m.to \in b.cols[n] THEN a.cols[n] \cup {t} ELSE a.cols[n]]
      OBVIOUS
    <2>5. \E p, q : r = [old |-> p, moves |-> q, cols |-> cols]
      BY <1>3, <2>4, Zenon DEF UpdateOldMove
    <2>6. r.cols = cols
      <3> HIDE DEF r
      <3> QED BY <2>5
    <2>7. DOMAIN r.cols = {0} /\ r.cols[0] = a.cols[0] \cup (IF m.to \in b.cols[0] THEN {t} ELSE {})
      BY <2>4, <2>6 DEF Marked
    <2>8. \A y \in DOMAIN c.moves : c.moves[y].from = m.to => c.moves[y].to = t
      BY <2>3 DEF MovesMerge, Distinct
    <2> HIDE DEF r, t, h, hits
    <2>9. \A y \in DOMAIN c.moves :
             m.to = c.moves[y].from /\ c.moves[y].from \in b.cols[0] => c.moves[y].to \in r.cols[0]
      BY <2>7, <2>8
    <2>10. \A j \in DOMAIN b.moves, y \in DOMAIN c.moves :
              j <= k + 1 /\ b.moves[j].to = c.moves[y].from /\ c.moves[y].from \in b.cols[0]
              => c.moves[y].to \in r.cols[0]
      BY <1>2, <2>7, <2>9 DEF Marked
    <2>11. \A s \in r.cols[0] : \/ s \in c.cols[0]
                \/ \E y \in DOMAIN c.moves : c.moves[y].from \in b.cols[0] /\ c.moves[y].to = s
      BY <2>3, <2>7 DEF Marked
    <2>12. c.cols[0] \subseteq r.cols[0]
      BY <2>7 DEF Marked
    <2>13. Marked(r, b, c, k + 1)
      BY <2>7, <2>10, <2>11, <2>12 DEF Marked
    <2> QED BY <2>13 DEF r
  <1>4. CASE hits = {}
    <2>1. \A y \in DOMAIN c.moves : c.moves[y].from # m.to \/ \E j \in DOMAIN b.moves : j <= k /\ b.moves[j].to = m.to
      BY <1>4 DEF Updated
    <2>2. r.cols = a.cols
      <3>1. r = a \/ \E p : r = [a EXCEPT !.old = p]
        BY <1>4, Zenon DEF UpdateOldMove
      <3>2. PICK C : a \in [old : Seq(Moves), moves : Seq(Moves), cols : C]
        BY DEF Updated
      <3> HIDE DEF r
      <3> QED BY <3>1, <3>2
    <2> HIDE DEF r, hits
    <2>3. \A j \in DOMAIN b.moves, y \in DOMAIN c.moves :
              j <= k + 1 /\ b.moves[j].to = c.moves[y].from /\ c.moves[y].from \in b.cols[0]
              => c.moves[y].to \in r.cols[0]
      BY <1>2, <2>1, <2>2 DEF Marked
    <2>4. Marked(r, b, c, k + 1)
      BY <2>2, <2>3 DEF Marked
    <2> QED BY <2>4 DEF r
  <1> QED BY <1>3, <1>4

LEMMA AllMarked ==
    ASSUME NEW b, NEW c, MovesMerge(b, c), DOMAIN c.cols = {0}
    PROVE  Marked(UpdateOldMoves(b, c), b, c, Len(b.moves)) /\ Updated(UpdateOldMoves(b, c), b, c, Len(b.moves))
  <1> DEFINE ms == b.moves
             n == Len(ms)
             after == CHOOSE g : Updates(g, b, c, n)
             base == NoneUpdated(c)
             Good(a, k) == Marked(a, b, c, k) /\ Updated(a, b, c, k)
  <1>1. ms \in Seq(Moves) /\ n \in Nat /\ DOMAIN ms = 1..n
    <2>1. ms \in Seq(Moves)
      BY BuilderParts DEF MovesMerge
    <2> QED BY <2>1, LenProperties
  <1>2. UpdateOldMoves(b, c) = after[n]
    BY DEF UpdateOldMoves, Updates, NoneUpdated
  <1>3. Updates(after, b, c, n)
    BY <1>1, UpdatesExist
  <1>4. Good(base, 0)
    <2>1. base.cols = c.cols
      BY DEF NoneUpdated
    <2>2. \A j \in DOMAIN b.moves : ~(j <= 0)
      BY <1>1
    <2>3. Updated(base, b, c, 0)
      BY NoneUpdatedIs
    <2> HIDE DEF base
    <2> QED BY <2>1, <2>2, <2>3 DEF Marked
  <1> HIDE DEF base, after
  <1>5. \A k \in 0..n : after[k] = IF k = 0 THEN base ELSE UpdateOldMove(b, c, ms[k], after[k - 1])
    BY <1>3 DEF Updates, base
  <1> DEFINE T == {k \in 0..n : ~Good(after[k], k)}
  <1>6. T = {}
    <2> SUFFICES ASSUME T # {} PROVE FALSE
      OBVIOUS
    <2>1. T \in SUBSET Nat
      BY <1>1
    <2>2. PICK k \in T : \A j \in T : k <= j
      BY <2>1, LeastOf
    <2>3. k \in 0..n /\ ~Good(after[k], k)
      BY <2>2
    <2>4. CASE k = 0
      BY <1>4, <1>5, <2>3, <2>4
    <2>5. CASE k # 0
      <3>1. PICK j \in Nat : k = j + 1
        <4>1. k - 1 \in Nat /\ k = (k - 1) + 1
          BY <1>1, <2>3, <2>5
        <4> QED BY <4>1
      <3>2. j \in 0..n /\ j + 1 \in DOMAIN ms /\ k - 1 = j /\ ~(k <= j)
        BY <1>1, <2>3, <3>1
      <3>3. Good(after[j], j)
        BY <2>2, <3>2
      <3> HIDE DEF T
      <3>4. Good(UpdateOldMove(b, c, ms[j + 1], after[j]), j + 1)
        BY <1>1, <3>2, <3>3, UpdatedStep, MarkedStep
      <3>5. after[k] = UpdateOldMove(b, c, ms[j + 1], after[j])
        BY <1>5, <2>3, <2>5, <3>1, <3>2
      <3> QED BY <2>3, <3>1, <3>4, <3>5
    <2> QED BY <2>4, <2>5
  <1>7. n \in 0..n
    BY <1>1
  <1> QED BY <1>2, <1>6, <1>7

(* The marks of a merged change: those of c, and those of b where their    *)
(* rows are after c.                                                       *)
AreMarks(M, b, c) ==
    /\ \A t \in M : t \in c.cols[0] \/ \E i \in b.cols[0] : Goes(c, i, t)
    /\ c.cols[0] \subseteq M
    /\ \A i \in b.cols[0] \ c.deletions : Follow(c, i) \in M
    /\ \A y \in DOMAIN c.moves : c.moves[y].from \in b.cols[0] =>
          \/ c.moves[y].to \in M
          \/ c.moves[y].from \in b.insertions /\ ~\E j \in DOMAIN b.moves : b.moves[j].to = c.moves[y].from

NewMarks(b, c, u) ==
    shift_for_insert_at(erase_at(b.cols[0], c.deletions), c.insertions)
      \cup KeepModified(b, KeptMoves(b, u), u.cols)[0]

HasMarks(r, M) == r.cols = [n \in {0} |-> M]

LEMMA MergedCols ==
    ASSUME NEW b, NEW c, ~empty(b), ~empty(c), IsBuilder(b), DOMAIN b.cols = {0},
           NEW ms, ms = BothMoves(b, UpdateOldMoves(b, c)), ms \in Seq(Moves),
           NewDeletions(b, c) \in IndexSets, NewInsertions(b, c) \in IndexSets
    PROVE  HasMarks(merge(b, c), NewMarks(b, c, UpdateOldMoves(b, c)))
  <1> DEFINE u    == UpdateOldMoves(b, c)
             keep == KeepModified(b, KeptMoves(b, u), u.cols)
             m    == PutAll(b, ms, NewDeletions(b, c), NewInsertions(b, c))
             d    == clean_up_stale_moves(m)
             new  == [n \in DOMAIN d.cols |->
                        shift_for_insert_at(erase_at(d.cols[n], c.deletions), c.insertions) \cup keep[n]]
  <1>1. merge(b, c) = PutCols(d, new)
    BY DEF merge, PutCols, PutAll, BothMoves, BackMoves, Back, KeptMoves
  <1>2. IsBuilder(m) /\ m.cols = b.cols
    <2>1. PICK D \in IndexSets, I \in IndexSets : D = NewDeletions(b, c) /\ I = NewInsertions(b, c)
      OBVIOUS
    <2>2. m = PutAll(b, ms, D, I)
      BY <2>1
    <2> HIDE DEF m
    <2>3. IsBuilder(m)
      BY ONLY <2>2, WithAll, IsBuilder(b), ms \in Seq(Moves), D \in IndexSets, I \in IndexSets
    <2>4. m.cols = b.cols
      BY <2>2, ColsOf
    <2> QED BY <2>3, <2>4
  <1> HIDE DEF m
  <1>3. HasCols(d, b.cols)
    BY <1>2, CleanUpCols
  <1>4. d.cols = b.cols
    <2> HIDE DEF d
    <2> QED BY <1>3, ColsAre
  <1>5. merge(b, c).cols = new
    <2> HIDE DEF new, d
    <2> QED BY <1>1, <1>3, ColsAre
  <1>6. new = [n \in {0} |-> shift_for_insert_at(erase_at(b.cols[0], c.deletions), c.insertions) \cup keep[0]]
    <2> HIDE DEF keep, d
    <2> QED BY <1>4
  <1> QED BY <1>5, <1>6 DEF HasMarks, NewMarks

LEMMA InSomeIndex ==
    ASSUME NEW E, NEW s \in Seq(E), NEW x \in ToSet(s)
    PROVE  \E i \in Indices(s) : At(s, i) = x
  <1>1. PICK y \in DOMAIN s : s[y] = x
    BY DEF ToSet
  <1> QED BY <1>1, EntryIndex

LEMMA MergedMarks ==
    ASSUME NEW b, NEW c, ~empty(b), ~empty(c), MovesMerge(b, c),
           \A y \in DOMAIN b.moves : b.moves[y].from \in b.deletions /\ b.moves[y].to \in b.insertions,
           DOMAIN b.cols = {0}, DOMAIN c.cols = {0}
    PROVE  DOMAIN merge(b, c).cols = {0} /\ AreMarks(merge(b, c).cols[0], b, c)
  <1>1. /\ IsBuilder(b) /\ IsChange(b) /\ IsChange(c) /\ b.moves \in Seq(Moves)
    BY BuilderParts DEF MovesMerge
  <1>2. PICK u : u = UpdateOldMoves(b, c)
    OBVIOUS
  <1>3. PICK n \in Nat : n = Len(b.moves) /\ \A j \in DOMAIN b.moves : j <= n
    <2>1. PICK n \in Nat : n = Len(b.moves) /\ DOMAIN b.moves = 1..n
      BY <1>1, LenProperties
    <2> QED BY <2>1
  <1>4. Updated(u, b, c, n) /\ Marked(u, b, c, n)
    BY <1>2, <1>3, AllMarked
  <1>5. PICK ms \in Seq(Moves) : ms = BothMoves(b, UpdateOldMoves(b, c))
    <2>1. PICK q : q = BothMoves(b, u)
      OBVIOUS
    <2>2. AreBoth(q, b, c)
      BY <1>3, <1>4, <2>1, BothMovesAre
    <2> QED BY <1>2, <2>1, <2>2 DEF AreBoth
  <1>6. NewDeletions(b, c) \in IndexSets /\ NewInsertions(b, c) \in IndexSets
    <2>1. IsChange(MergedChange(b, c))
      BY <1>1, MergedIs
    <2>2. MergedChange(b, c).deletions = NewDeletions(b, c) /\ MergedChange(b, c).insertions = NewInsertions(b, c)
      BY DEF MergedChange
    <2> QED BY <2>1, <2>2 DEF IsChange
  <1> DEFINE kept == KeptMoves(b, u)
             keep == KeepModified(b, kept, u.cols)
             shifted == shift_for_insert_at(erase_at(b.cols[0], c.deletions), c.insertions)
             M == merge(b, c).cols[0]
  <1>7. merge(b, c).cols = [k \in {0} |-> shifted \cup keep[0]]
    <2>1. HasMarks(merge(b, c), NewMarks(b, c, UpdateOldMoves(b, c)))
      BY <1>1, <1>5, <1>6, MergedCols
    <2> QED BY <1>2, <2>1 DEF HasMarks, NewMarks
  <1>8. DOMAIN merge(b, c).cols = {0} /\ M = shifted \cup keep[0]
    <2> HIDE DEF shifted, keep
    <2> QED BY <1>7
  <1>9. /\ \A x \in DOMAIN kept : \E y \in DOMAIN u.moves : u.moves[y].from \notin b.insertions /\ kept[x] = u.moves[y]
        /\ \A y \in DOMAIN u.moves : u.moves[y].from \notin b.insertions => \E x \in DOMAIN kept : kept[x] = u.moves[y]
    <2>1. u.moves \in Seq(Moves)
      BY <1>4 DEF Updated
    <2>2. FromLeft(u.moves, b.insertions, kept)
      BY <2>1, FilteredFrom DEF KeptMoves
    <2> QED BY <2>2 DEF FromLeft
  <1> HIDE DEF kept
  <1>10. keep[0] = u.cols[0] \cup {kept[x].to : x \in {x \in DOMAIN kept : kept[x].from \in b.cols[0]}}
    BY <1>4 DEF Marked, KeepModified, ToSet
  <1>11. shifted = {Follow(c, i) : i \in b.cols[0] \ c.deletions}
    BY DEF shift_for_insert_at, erase_at, Follow
  <1> HIDE DEF keep, shifted, M
  <1>12. ASSUME NEW t \in M PROVE t \in c.cols[0] \/ \E i \in b.cols[0] : Goes(c, i, t)
    <2>1. CASE t \in shifted
      BY <1>11, <2>1 DEF Goes
    <2>2. CASE t \in u.cols[0]
      BY <1>4, <2>2 DEF Marked, Goes
    <2>3. CASE \E x \in DOMAIN kept : kept[x].from \in b.cols[0] /\ kept[x].to = t
      <3>1. PICK x \in DOMAIN kept : kept[x].from \in b.cols[0] /\ kept[x].to = t
        BY <2>3
      <3>2. PICK y \in DOMAIN u.moves : kept[x] = u.moves[y]
        BY <1>9, <3>1
      <3>3. PICK z \in DOMAIN c.moves : u.moves[y] = c.moves[z]
        BY <1>4 DEF Updated
      <3> QED BY <3>1, <3>2, <3>3 DEF Goes
    <2> QED BY <1>8, <1>10, <2>1, <2>2, <2>3
  <1>13. c.cols[0] \subseteq M
    BY <1>4, <1>8, <1>10 DEF Marked
  <1>14. \A i \in b.cols[0] \ c.deletions : Follow(c, i) \in M
    BY <1>8, <1>11
  <1>15. ASSUME NEW y \in DOMAIN c.moves, c.moves[y].from \in b.cols[0], c.moves[y].to \notin M
         PROVE  c.moves[y].from \in b.insertions /\ ~\E j \in DOMAIN b.moves : b.moves[j].to = c.moves[y].from
    <2>1. ~\E j \in DOMAIN b.moves : b.moves[j].to = c.moves[y].from
      BY <1>3, <1>4, <1>8, <1>10, <1>15 DEF Marked
    <2>2. PICK x \in DOMAIN u.moves : u.moves[x] = c.moves[y]
      BY <1>4, <2>1 DEF Updated
    <2>3. c.moves[y].from \in b.insertions
      <3> SUFFICES ASSUME c.moves[y].from \notin b.insertions PROVE FALSE
        OBVIOUS
      <3>1. PICK z \in DOMAIN kept : kept[z] = c.moves[y]
        BY <1>9, <2>2
      <3> QED BY <1>8, <1>10, <1>15, <3>1
    <2> QED BY <2>1, <2>3
  <1>16. AreMarks(M, b, c)
    BY <1>12, <1>13, <1>14, <1>15 DEF AreMarks
  <1> QED BY <1>8, <1>16 DEF M

(* The entries that merge() names are those that either change names, of   *)
(* those in K, which are in all three lists.                               *)
LEMMA MergeMarks ==
    ASSUME NEW E, NEW pre \in Seq(E), NEW mid \in Seq(E), NEW post \in Seq(E), NEW K,
           NEW b, NEW c, Describes(b, pre, mid, ToSet(mid)), Describes(c, mid, post, K),
           K \subseteq ToSet(pre) \cap ToSet(mid), Unique(mid), MarksIn(b, mid), MarksIn(c, post)
    PROVE  /\ MarksIn(merge(b, c), post)
           /\ Named(merge(b, c), post) \cap K = (Named(b, mid) \cup Named(c, post)) \cap K
  <1>1. /\ IsBuilder(b) /\ IsChange(b) /\ Carries(b, pre, mid) /\ Joins(b, pre, mid)
        /\ Distinct(b.moves) /\ Tracks(b, pre, ToSet(mid))
    BY BuilderParts DEF Describes
  <1>2. /\ IsBuilder(c) /\ IsChange(c) /\ Carries(c, mid, post) /\ Joins(c, mid, post)
        /\ Distinct(c.moves) /\ Tracks(c, mid, K)
    BY BuilderParts DEF Describes
  <1>3. CASE empty(c)
    <2>1. c.deletions = {} /\ c.insertions = {} /\ c.cols[0] = {}
      BY <1>3 DEF empty
    <2>2. mid = post
      BY <1>2, <2>1, NothingChanged
    <2>3. merge(b, c) = b
      BY <1>3 DEF merge
    <2>4. Named(c, post) = {}
      BY <2>1 DEF Named
    <2> QED BY <2>2, <2>3, <2>4
  <1>4. CASE ~empty(c) /\ empty(b)
    <2>1. merge(b, c) = c
      BY <1>4 DEF merge
    <2>2. Named(b, mid) = {}
      BY <1>4 DEF Named, empty
    <2> QED BY <2>1, <2>2
  <1>5. CASE ~empty(c) /\ ~empty(b)
    <2> DEFINE r == merge(b, c)
               M == r.cols[0]
    <2>1. DOMAIN r.cols = {0} /\ AreMarks(M, b, c)
      <3>1. MovesMerge(b, c)
        BY <1>1, <1>2 DEF MovesMerge, Joins
      <3>2. \A y \in DOMAIN b.moves : b.moves[y].from \in b.deletions /\ b.moves[y].to \in b.insertions
        BY <1>1 DEF Joins
      <3> QED BY <1>5, <3>1, <3>2, MergedMarks DEF MarksIn
    <2> HIDE DEF r
    <2>2. ASSUME NEW i \in b.cols[0], NEW t, Goes(c, i, t)
          PROVE  t \in Indices(post) /\ At(post, t) = At(mid, i)
      <3>1. i \in Indices(mid) /\ i \in Nat
        BY InToSet DEF MarksIn
      <3>2. At(mid, i) = At(post, t)
        BY <1>2, <2>2, <3>1, GoesJoins
      <3>3. t \in Indices(post)
        <4>1. CASE \E y \in DOMAIN c.moves : c.moves[y].from = i /\ c.moves[y].to = t
          BY <1>2, <4>1 DEF Joins, Carries
        <4>2. CASE i \notin c.deletions /\ t = Follow(c, i)
          BY <1>2, <3>1, <4>2, FollowBound
        <4> QED BY <2>2, <4>1, <4>2 DEF Goes
      <3> QED BY <3>2, <3>3
    <2>3. M \subseteq Indices(post)
      BY <2>1, <2>2 DEF AreMarks, MarksIn
    <2>4. ASSUME NEW t \in M PROVE At(post, t) \in Named(b, mid) \cup Named(c, post)
      BY <2>1, <2>2 DEF AreMarks, Named
    <2>5. ASSUME NEW x \in K \cap Named(b, mid) PROVE x \in Named(r, post)
      <3>1. PICK i \in b.cols[0] : x = At(mid, i)
        BY DEF Named
      <3>2. i \in Indices(mid)
        BY DEF MarksIn
      <3>3. CASE i \notin c.deletions
        <4>1. Follow(c, i) \in M /\ Goes(c, i, Follow(c, i))
          BY <2>1, <3>3 DEF AreMarks, Goes
        <4> QED BY <2>2, <3>1, <4>1 DEF Named
      <3>4. CASE i \in c.deletions
        <4>1. PICK y \in DOMAIN c.moves : c.moves[y].from = i
          BY <1>2, <3>1, <3>4 DEF Tracks
        <4>2. Goes(c, i, c.moves[y].to)
          BY <4>1 DEF Goes
        <4>3. ASSUME i \in b.insertions PROVE \E j \in DOMAIN b.moves : b.moves[j].to = i
          <5>1. PICK k \in Indices(pre) : At(pre, k) = x
            BY InSomeIndex
          <5>2. k \in Nat
            BY InToSet
          <5>3. k \in b.deletions
            <6> SUFFICES ASSUME k \notin b.deletions PROVE FALSE
              OBVIOUS
            <6>1. At(mid, Follow(b, k)) = x /\ Follow(b, k) \in Indices(mid)
              BY <1>1, <5>1, <5>2, FollowBound DEF Carries
            <6>2. Follow(b, k) \notin b.insertions
              BY <1>1, <5>2, FollowIs
            <6> QED BY <3>1, <3>2, <4>3, <6>1, <6>2 DEF Unique
          <5>4. PICK j \in DOMAIN b.moves : b.moves[j].from = k
            BY <1>1, <5>1, <5>3 DEF Tracks
          <5>5. b.moves[j].to \in Indices(mid) /\ At(mid, b.moves[j].to) = x
            BY <1>1, <5>1, <5>4 DEF Joins, Carries
          <5> QED BY <3>1, <3>2, <5>5 DEF Unique
        <4>4. c.moves[y].to \in M
          BY <2>1, <4>1, <4>3 DEF AreMarks
        <4> QED BY <2>2, <3>1, <4>2, <4>4 DEF Named
      <3> QED BY <3>3, <3>4
    <2>6. Named(c, post) \subseteq Named(r, post)
      BY <2>1 DEF AreMarks, Named
    <2>7. Named(r, post) \subseteq Named(b, mid) \cup Named(c, post)
      BY <2>4 DEF Named
    <2>8. MarksIn(r, post)
      BY <2>1, <2>3 DEF MarksIn
    <2> QED BY <2>5, <2>6, <2>7, <2>8 DEF r
  <1> QED BY <1>3, <1>4, <1>5

=============================================================================

------------------------ MODULE ResultsChanges_proofs ------------------------
(***************************************************************************)
(* Proofs about the rows that TransactLogObserver follows and the columns  *)
(* it marks, for tables of any size and any number of log entries.  The    *)
(* rows of a table never shift: a row that was not moved is where it was,  *)
(* so the deletions and the insertions are the same set below it.          *)
(***************************************************************************)
EXTENDS ResultsChanges, CollectionChangeBuilder_proofs

-----------------------------------------------------------------------------
(* The members of a finite set by rank.                                    *)

(* R orders S strictly and totally.                                        *)
Orders(R, S) ==
    /\ \A a \in S : <<a, a>> \notin R
    /\ \A a, b \in S : a # b => <<a, b>> \in R \/ <<b, a>> \in R
    /\ \A a, b, c \in S : <<a, b>> \in R /\ <<b, c>> \in R => <<a, c>> \in R

Lower(R, S, a) == {b \in S : <<b, a>> \in R}

LEMMA LowerIs ==
    ASSUME NEW S, IsFiniteSet(S), NEW R, Orders(R, S), NEW a \in S
    PROVE  /\ IsFiniteSet(Lower(R, S, a)) /\ Cardinality(Lower(R, S, a)) \in Nat
           /\ Cardinality(Lower(R, S, a)) < Cardinality(S)
           /\ \A b \in S : <<b, a>> \in R =>
                 Cardinality(Lower(R, S, b)) < Cardinality(Lower(R, S, a))
  <1>1. \A b \in S : IsFiniteSet(Lower(R, S, b)) /\ Cardinality(Lower(R, S, b)) \in Nat
    <2> TAKE b \in S
    <2>1. Lower(R, S, b) \in SUBSET S
      BY DEF Lower
    <2> QED BY <2>1, FS_Subset, FS_CardinalityType
  <1>2. Cardinality(Lower(R, S, a)) < Cardinality(S)
    <2>1. Lower(R, S, a) \in SUBSET (S \ {a})
      BY DEF Lower, Orders
    <2>2. IsFiniteSet(S \ {a}) /\ Cardinality(S \ {a}) = Cardinality(S) - 1
      BY FS_RemoveElement
    <2>3. Cardinality(Lower(R, S, a)) <= Cardinality(S \ {a})
      BY <2>1, <2>2, FS_Subset
    <2>4. Cardinality(S) \in Nat
      BY FS_CardinalityType
    <2> QED BY <1>1, <2>2, <2>3, <2>4
  <1>3. ASSUME NEW b \in S, <<b, a>> \in R
        PROVE  Cardinality(Lower(R, S, b)) < Cardinality(Lower(R, S, a))
    <2>1. b \in Lower(R, S, a) /\ Lower(R, S, b) \in SUBSET (Lower(R, S, a) \ {b})
      BY <1>3 DEF Lower, Orders
    <2>2. /\ IsFiniteSet(Lower(R, S, a) \ {b})
          /\ Cardinality(Lower(R, S, a) \ {b}) = Cardinality(Lower(R, S, a)) - 1
      BY <1>1, <2>1, FS_RemoveElement
    <2>3. Cardinality(Lower(R, S, b)) <= Cardinality(Lower(R, S, a) \ {b})
      BY <2>1, <2>2, FS_Subset
    <2> QED BY <1>1, <2>2, <2>3
  <1> QED BY <1>1, <1>2, <1>3

(* There is a member of every rank.                                        *)
LEMMA Ranked ==
    ASSUME NEW S, IsFiniteSet(S), NEW R, Orders(R, S), NEW n \in 1..Cardinality(S)
    PROVE  \E a \in S : Cardinality(Lower(R, S, a)) = n - 1
  <1>1. PICK m \in Nat : m = Cardinality(S)
    BY FS_CardinalityType
  <1> DEFINE T == 0..(m - 1)
             f == [a \in S |-> Cardinality(Lower(R, S, a))]
  <1>2. IsFiniteSet(T) /\ Cardinality(T) = m
    <2>1. IsFiniteSet(T) /\ Cardinality(T) = IF 0 > m - 1 THEN 0 ELSE m - 1 - 0 + 1
      BY FS_Interval
    <2> QED BY <2>1
  <1>3. \A a \in S : f[a] \in Nat /\ f[a] < m
    BY <1>1, LowerIs
  <1>4. f \in [S -> T]
    BY <1>3
  <1>5. \A a, b \in S : f[a] = f[b] => a = b
    <2> SUFFICES ASSUME NEW a \in S, NEW b \in S, a # b PROVE f[a] # f[b]
      OBVIOUS
    <2>1. CASE <<a, b>> \in R
      <3>1. f[a] < f[b]
        BY <2>1, LowerIs
      <3> QED BY <3>1, <1>3
    <2>2. CASE <<b, a>> \in R
      <3>1. f[b] < f[a]
        BY <2>2, LowerIs
      <3> QED BY <3>1, <1>3
    <2> QED BY <2>1, <2>2 DEF Orders
  <1>6. n - 1 \in T
    BY <1>1
  <1> HIDE DEF T
  <1>7. f \in Injection(S, T)
    <2> HIDE DEF f
    <2> QED BY <1>4, <1>5 DEF Injection, IsInjective
  <1>8. f \in Surjection(S, T)
    <2> HIDE DEF f
    <2> QED BY <1>1, <1>2, <1>7, FS_Injection
  <1>9. PICK a \in S : f[a] = n - 1
    <2> HIDE DEF f
    <2> QED BY <1>6, <1>8 DEF Surjection
  <1> QED BY <1>9

-----------------------------------------------------------------------------
(* Tables.                                                                 *)

IsTable(t) == t \in Seq(Names) /\ Len(t) <= MaxRows /\ Unique(t)

(* The index of a row.                                                     *)
LEMMA IndexFound ==
    ASSUME NEW E, NEW s \in Seq(E), Unique(s), NEW i \in Indices(s)
    PROVE  IndexOf(s, At(s, i)) = i
  <1>1. PICK n \in Nat : n = Len(s) /\ DOMAIN s = 1..n
    BY LenProperties
  <1>2. i \in Nat /\ i < n
    BY <1>1, IndexIs
  <1>3. i + 1 \in DOMAIN s
    BY <1>1, <1>2
  <1> DEFINE x == CHOOSE x \in DOMAIN s : s[x] = At(s, i)
  <1>4. x \in DOMAIN s /\ s[x] = At(s, i)
    BY <1>3 DEF At
  <1> HIDE DEF x
  <1>5. x - 1 \in Indices(s) /\ At(s, x - 1) = At(s, i)
    <2>1. x \in Nat /\ x - 1 \in Nat /\ x - 1 < n /\ (x - 1) + 1 = x
      BY <1>1, <1>4
    <2> QED BY <1>1, <1>4, <2>1, IndexIs DEF At
  <1>6. x - 1 = i
    BY <1>5 DEF Unique
  <1> QED BY <1>6 DEF IndexOf, x

(* The results of a query are rows of the table.                           *)
LEMMA ResultsFound ==
    ASSUME NEW t, IsTable(t), NEW ms, NEW k \in [Names -> Nat], in_table_order \in BOOLEAN,
           NEW n \in DOMAIN ResultsOf(t, ms, k)
    PROVE  ResultsOf(t, ms, k)[n] \in ToSet(t)
  <1> DEFINE found == {i \in Indices(t) : At(t, i) \in ms}
             Before(i, j) == \/ ~in_table_order /\ k[At(t, i)] < k[At(t, j)]
                             \/ (in_table_order \/ k[At(t, i)] = k[At(t, j)]) /\ i < j
             R == {p \in found \X found : Before(p[1], p[2])}
             r == CHOOSE i \in found : Cardinality({j \in found : Before(j, i)}) = n - 1
  <1>1. /\ DOMAIN ResultsOf(t, ms, k) = 1..Cardinality(found)
        /\ ResultsOf(t, ms, k)[n] = At(t, r)
    BY DEF ResultsOf
  <1>2. t \in Seq(Names) /\ Indices(t) \in IndexSets
    BY IndicesAre DEF IsTable
  <1>3. found \in SUBSET Indices(t) /\ IsFiniteSet(found)
    BY <1>2, SetsAreFinite, FS_Subset
  <1>4. \A i \in found : i \in Nat /\ k[At(t, i)] \in Nat
    <2> TAKE i \in found
    <2>1. i \in Indices(t)
      BY <1>3
    <2>2. At(t, i) \in ToSet(t) /\ i \in Nat
      BY <1>2, <2>1, InToSet
    <2>3. ToSet(t) \subseteq Names
      BY <1>2 DEF ToSet
    <2> QED BY <2>2, <2>3
  <1> HIDE DEF found
  <1>5. /\ \A i \in found : ~Before(i, i)
        /\ \A i, j \in found : i # j => Before(i, j) \/ Before(j, i)
        /\ \A i, j, l \in found : Before(i, j) /\ Before(j, l) => Before(i, l)
    BY <1>4
  <1>6. \A i, j \in found : <<i, j>> \in R <=> Before(i, j)
    OBVIOUS
  <1> HIDE DEF Before, R
  <1>7. Orders(R, found)
    BY <1>5, <1>6 DEF Orders
  <1>8. PICK a \in found : Cardinality(Lower(R, found, a)) = n - 1
    BY <1>1, <1>3, <1>7, Ranked
  <1>9. Lower(R, found, a) = {j \in found : Before(j, a)}
    BY <1>6 DEF Lower
  <1>10. r \in found
    BY <1>8, <1>9
  <1> HIDE DEF r
  <1> QED BY <1>1, <1>2, <1>3, <1>10, InToSet

(* So the notifier finds their indices.                                    *)
LEMMA RowsFound ==
    ASSUME NEW t, IsTable(t), NEW ms, NEW k \in [Names -> Nat], in_table_order \in BOOLEAN
    PROVE  \A n \in DOMAIN ResultsOf(t, ms, k) : IndexOf(t, ResultsOf(t, ms, k)[n]) \in Indices(t)
  <1> TAKE n \in DOMAIN ResultsOf(t, ms, k)
  <1>1. ResultsOf(t, ms, k)[n] \in ToSet(t) /\ t \in Seq(Names)
    BY ResultsFound DEF IsTable
  <1>2. PICK i \in Indices(t) : At(t, i) = ResultsOf(t, ms, k)[n]
    BY <1>1, EntriesAre
  <1> QED BY <1>1, <1>2, IndexFound DEF IsTable

-----------------------------------------------------------------------------
(* The rows of a table stay at their indices.                              *)

LEMMA StillThere ==
    ASSUME NEW D \in IndexSets, NEW I \in IndexSets, NEW i \in Nat \ D,
           \A x \in Nat : x < i => (x \in D <=> x \in I)
    PROVE  shift(D, unshift(I, i)) = i
  <1>1. D \subseteq Nat /\ I \subseteq Nat
    BY SetsAreFinite
  <1>2. {s \in D : s < i} = {s \in I : s < i}
    BY <1>1
  <1>3. unshift(I, i) = unshift(D, i)
    BY <1>2 DEF unshift
  <1> QED BY <1>3, ShiftInverse

LEMMA AddIndex ==
    ASSUME NEW S \in IndexSets, NEW i \in Nat
    PROVE  S \cup {i} \in IndexSets /\ S \ {i} \in IndexSets
  <1>1. S \subseteq Nat /\ IsFiniteSet(S)
    BY SetsAreFinite
  <1>2. IsFiniteSet(S \cup {i}) /\ IsFiniteSet(S \ {i})
    BY <1>1, FS_AddElement, FS_RemoveElement
  <1> QED BY <1>1, <1>2 DEF IndexSets

(* An index behind all others.                                             *)
LEMMA LastIndex ==
    ASSUME NEW S \in IndexSets, NEW n \in Nat, \A s \in S : s <= n
    PROVE  /\ erase_at(S, {n}) = S \ {n}
           /\ n \notin S => /\ shift_for_insert_at(S, {n}) = S
                            /\ insert_at(S, {n}) = S \cup {n}
  <1>1. S \subseteq Nat
    BY SetsAreFinite
  <1>2. /\ \A j \in Nat : shift({n}, j) = IF j < n THEN j ELSE j + 1
        /\ \A j \in Nat : j # n => unshift({n}, j) = IF j > n THEN j - 1 ELSE j
    BY OneIndex
  <1>3. \A s \in S \ {n} : s < n /\ unshift({n}, s) = s /\ shift({n}, s) = s
    BY <1>1, <1>2
  <1>4. erase_at(S, {n}) = S \ {n}
    BY <1>3 DEF erase_at
  <1>5. ASSUME n \notin S PROVE shift_for_insert_at(S, {n}) = S
    BY <1>3, <1>5 DEF shift_for_insert_at
  <1> QED BY <1>4, <1>5 DEF insert_at

(* The mapping without one row.                                            *)
LEMMA ForgetIs ==
    ASSUME NEW f, NEW k
    PROVE  /\ DOMAIN Forget(f, k) = DOMAIN f \ {k}
           /\ \A x \in DOMAIN f : x # k => Forget(f, k)[x] = f[x]
BY DEF Forget, Restrict

(* The deletions D, the insertions I and the mapping f of a builder lead   *)
(* from the rows b that were there before the log to the rows t.           *)
Stayed(D, I, b, t) ==
    /\ \A x : x \in Indices(t) \ I <=> x \in Indices(b) \ D
    /\ \A x \in Indices(t) \ I : At(t, x) = At(b, x)

Mapped(D, I, f, b, t) ==
    \A k \in DOMAIN f : k \in I /\ f[k] \in D \cap Indices(b) /\ At(t, k) = At(b, f[k])

Follows(D, I, f, b, t) ==
    /\ D \in IndexSets /\ I \in IndexSets /\ I \subseteq Indices(t)
    /\ Stayed(D, I, b, t)
    /\ Mapped(D, I, f, b, t)
    /\ \A i \in I \ DOMAIN f : At(t, i) \notin ToSet(b)

(* A row that was neither deleted nor inserted is followed to itself, also *)
(* while others behind it change.                                          *)
LEMMA FollowedStill ==
    ASSUME NEW E, NEW b \in Seq(E), NEW t \in Seq(E), NEW D, NEW I, NEW f, Follows(D, I, f, b, t),
           NEW i \in Indices(t) \ I,
           NEW D1 \in IndexSets, NEW I1 \in IndexSets, i \notin D1,
           \A x \in Nat : x < i => (x \in D1 <=> x \in D) /\ (x \in I1 <=> x \in I)
    PROVE  shift(D1, unshift(I1, i)) = i
  <1>1. i \in Nat /\ i < Len(t) /\ i < Len(b) /\ Len(t) \in Nat /\ Len(b) \in Nat
    BY IndexIs DEF Follows, Stayed
  <1>2. ASSUME NEW x \in Nat, x < i PROVE x \in D <=> x \in I
    <2>1. x \in Indices(t) /\ x \in Indices(b)
      BY <1>1, <1>2, IndexIs
    <2> QED BY <2>1 DEF Follows, Stayed
  <1> QED BY <1>1, <1>2, StillThere

LEMMA FollowedIs ==
    ASSUME NEW E, NEW b \in Seq(E), NEW t \in Seq(E), NEW D, NEW I, NEW f, Follows(D, I, f, b, t),
           NEW i \in Indices(t) \ I
    PROVE  shift(D, unshift(I, i)) = i /\ i \in Indices(b) \ D /\ i \in Nat
  <1>1. i \in Indices(b) \ D /\ D \in IndexSets /\ I \in IndexSets /\ i \in Nat
    BY IndexIs DEF Follows, Stayed
  <1> QED BY <1>1, FollowedStill

(* A row is added behind the others.                                       *)
LEMMA InsertFollows ==
    ASSUME NEW E, NEW b \in Seq(E), NEW t \in Seq(E), NEW D, NEW I, NEW f, Follows(D, I, f, b, t),
           NEW n, n = Len(t), NEW post \in Seq(E), Len(post) = n + 1,
           \A x \in Indices(t) : At(post, x) = At(t, x),
           At(post, n) \notin ToSet(b),
           NEW g, DOMAIN g = DOMAIN f, \A k \in DOMAIN f : g[k] = f[k]
    PROVE  Follows(D, I \cup {n}, g, b, post)
  <1>1. /\ n \in Nat /\ \A x : x \in Indices(t) <=> x \in Nat /\ x < n
        /\ \A x : x \in Indices(post) <=> x \in Nat /\ x < n + 1
    BY IndexIs
  <1>2. \A x : x \in Indices(post) <=> x \in Indices(t) \/ x = n
    BY <1>1
  <1>3. n \notin Indices(t)
    BY <1>1
  <1>4. /\ D \in IndexSets /\ I \in IndexSets /\ I \subseteq Indices(t)
        /\ Stayed(D, I, b, t) /\ Mapped(D, I, f, b, t)
        /\ \A i \in I \ DOMAIN f : At(t, i) \notin ToSet(b)
    BY DEF Follows
  <1>5. I \cup {n} \in IndexSets /\ I \cup {n} \subseteq Indices(post)
    BY <1>1, <1>2, <1>4, AddIndex
  <1>6. Stayed(D, I \cup {n}, b, post)
    <2>1. \A x : x \in Indices(post) \ (I \cup {n}) <=> x \in Indices(t) \ I
      BY <1>2, <1>3
    <2> QED BY <1>4, <2>1 DEF Stayed
  <1>7. Mapped(D, I \cup {n}, g, b, post)
    BY <1>4 DEF Mapped
  <1>8. \A i \in (I \cup {n}) \ DOMAIN g : At(post, i) \notin ToSet(b)
    BY <1>4
  <1> QED BY <1>4, <1>5, <1>6, <1>7, <1>8 DEF Follows

(* Rows change places: the row at x was at src[x].                         *)
Rearranges(src, D, I, f, b, t, D1, I1, g, post) ==
    /\ src \in [Indices(post) -> Indices(t)]
    /\ \A x \in Indices(post) : At(post, x) = At(t, src[x])
    /\ D1 \in IndexSets /\ I1 \in IndexSets /\ I1 \subseteq Indices(post) /\ D \subseteq D1
    /\ \A x \in Indices(post) \ I1 : src[x] = x /\ x \notin I /\ x \notin D1
    /\ \A x \in Indices(b) \ D1 : x \in Indices(post) \ I1
    /\ \A k \in DOMAIN g :
          /\ k \in I1 /\ g[k] \in D1
          /\ \/ src[k] \in DOMAIN f /\ g[k] = f[src[k]]
             \/ src[k] \notin I /\ g[k] = src[k]
    /\ \A i \in I1 \ DOMAIN g : src[i] \in I \ DOMAIN f

LEMMA RearrangedFollows ==
    ASSUME NEW E, NEW b \in Seq(E), NEW t \in Seq(E), NEW D, NEW I, NEW f, Follows(D, I, f, b, t),
           NEW post \in Seq(E), NEW src, NEW D1, NEW I1, NEW g,
           Rearranges(src, D, I, f, b, t, D1, I1, g, post)
    PROVE  Follows(D1, I1, g, b, post)
  <1>1. /\ Stayed(D, I, b, t) /\ Mapped(D, I, f, b, t)
        /\ \A i \in I \ DOMAIN f : At(t, i) \notin ToSet(b)
    BY DEF Follows
  <1>2. /\ src \in [Indices(post) -> Indices(t)]
        /\ \A x \in Indices(post) : At(post, x) = At(t, src[x])
        /\ I1 \subseteq Indices(post) /\ D1 \in IndexSets /\ I1 \in IndexSets
    BY DEF Rearranges
  <1>3. \A x \in Indices(post) \ I1 : src[x] = x /\ x \in Indices(t) \ I /\ x \notin D1
    BY <1>2 DEF Rearranges
  <1>4. Stayed(D1, I1, b, post)
    <2>1. \A x \in Indices(post) \ I1 : x \in Indices(b) \ D1 /\ At(post, x) = At(b, x)
      BY <1>1, <1>2, <1>3 DEF Stayed
    <2>2. \A x \in Indices(b) \ D1 : x \in Indices(post) \ I1
      BY DEF Rearranges
    <2> QED BY <2>1, <2>2 DEF Stayed
  <1>5. Mapped(D1, I1, g, b, post)
    <2> SUFFICES ASSUME NEW k \in DOMAIN g
                 PROVE  k \in I1 /\ g[k] \in D1 \cap Indices(b) /\ At(post, k) = At(b, g[k])
      BY DEF Mapped
    <2>1. k \in I1 /\ g[k] \in D1 /\ k \in Indices(post)
      BY <1>2 DEF Rearranges
    <2>2. src[k] \in Indices(t) /\ At(post, k) = At(t, src[k])
      BY <1>2, <2>1
    <2>3. CASE src[k] \in DOMAIN f /\ g[k] = f[src[k]]
      BY <1>1, <2>1, <2>2, <2>3 DEF Mapped
    <2>4. CASE src[k] \notin I /\ g[k] = src[k]
      BY <1>1, <2>1, <2>2, <2>4 DEF Stayed
    <2> QED BY <2>1, <2>3, <2>4 DEF Rearranges
  <1>6. \A i \in I1 \ DOMAIN g : At(post, i) \notin ToSet(b)
    <2> TAKE i \in I1 \ DOMAIN g
    <2>1. src[i] \in I \ DOMAIN f /\ i \in Indices(post)
      BY <1>2 DEF Rearranges
    <2> QED BY <1>1, <1>2, <2>1
  <1> QED BY <1>2, <1>4, <1>5, <1>6 DEF Follows

-----------------------------------------------------------------------------
(* What the operations make of the builder that follows the rows.          *)

(* c leads from the rows b to the rows t.                                  *)
Tracked(c, b, t) ==
    /\ \E C : c = Record(c.deletions, c.insertions, <<>>, c.mapping, C)
    /\ Follows(c.deletions, c.insertions, c.mapping, b, t)

LEMMA RecordIs ==
    ASSUME NEW D, NEW I, NEW ms, NEW f, NEW C, NEW c, c = Record(D, I, ms, f, C)
    PROVE  /\ c.deletions = D /\ c.insertions = I /\ c.moves = ms /\ c.mapping = f /\ c.cols = C
BY DEF Record

LEMMA TrackedIs ==
    ASSUME NEW D, NEW I, NEW f, NEW C, NEW c, c = Record(D, I, <<>>, f, C), NEW b, NEW t
    PROVE  Tracked(c, b, t) <=> Follows(D, I, f, b, t)
BY RecordIs DEF Tracked

LEMMA TrackedParts ==
    ASSUME NEW c, NEW b, NEW t, Tracked(c, b, t)
    PROVE  \E D, I, f, C : c = Record(D, I, <<>>, f, C) /\ Follows(D, I, f, b, t)
BY DEF Tracked

LEMMA NoneFollows ==
    ASSUME NEW E, NEW t \in Seq(E)
    PROVE  Tracked(None, t, t)
  <1>1. None = Record({}, {}, <<>>, <<>>, [k \in Columns \cup {0} |-> {}])
    BY DEF None, NoChange, Record
  <1>2. Follows({}, {}, <<>>, t, t)
    BY NoneShifts DEF Follows, Stayed, Mapped
  <1> QED BY <1>1, <1>2, TrackedIs

LEMMA ModifyTracked ==
    ASSUME NEW c, NEW b, NEW t, Tracked(c, b, t), NEW i, NEW col
    PROVE  Tracked(modify(c, i, col), b, t)
  <1>1. PICK D, I, f, C : c = Record(D, I, <<>>, f, C) /\ Follows(D, I, f, b, t)
    BY TrackedParts
  <1>2. \E C1 : modify(c, i, col) = Record(D, I, <<>>, f, C1)
    <2> DEFINE C1 == [k \in DOMAIN c.cols |-> IF k \in {0, col} THEN c.cols[k] \cup {i} ELSE c.cols[k]]
    <2>1. modify(c, i, col) = [c EXCEPT !.cols = C1]
      BY DEF modify
    <2> HIDE DEF C1
    <2>2. modify(c, i, col) = Record(D, I, <<>>, f, C1)
      BY <1>1, <2>1 DEF Record
    <2> QED BY <2>2
  <1> QED BY <1>1, <1>2, TrackedIs

(* insert() of the row n behind the others.                                *)
IsInserted(r, D, I, f) ==
    \E g, C : /\ r = Record(D, I, <<>>, g, C)
              /\ DOMAIN g = DOMAIN f /\ \A k \in DOMAIN f : g[k] = f[k]

LEMMA InsertIs ==
    ASSUME NEW D, NEW I \in IndexSets, NEW f, NEW C, NEW c, c = Record(D, I, <<>>, f, C),
           NEW n \in Nat, \A i \in I : i < n, DOMAIN f \subseteq I
    PROVE  IsInserted(insert(c, n, 1, TRUE), D, I \cup {n}, f)
  <1> DEFINE r == insert(c, n, 1, TRUE)
             Up(i) == IF i >= n THEN i + 1 ELSE i
             q == InsertedMoves(c.moves, n)
             S == SpanOf(n, 1)
             cols == [k \in DOMAIN c.cols |-> shift_for_insert_at(c.cols[k], S)]
             g == [k \in {Up(x) : x \in DOMAIN c.mapping} |->
                     c.mapping[CHOOSE o \in DOMAIN c.mapping : Up(o) = k]]
  <1>1. r = PutInsert(c, cols, insert_at(c.insertions, S), q, g)
    BY DEF insert, PutInsert, InsertedMoves
  <1>2. c.mapping = f /\ c.insertions = I /\ c.moves = <<>>
    BY RecordIs
  <1>3. S = {n}
    BY DEF SpanOf
  <1>4. I \subseteq Nat
    BY SetsAreFinite
  <1>5. \A x \in DOMAIN f : Up(x) = x
    <2>1. \A x \in DOMAIN f : x \in Nat /\ x < n
      BY <1>4
    <2> QED BY <2>1
  <1>6. DOMAIN g = DOMAIN f /\ \A k \in DOMAIN f : g[k] = f[k]
    <2>1. {Up(x) : x \in DOMAIN f} = DOMAIN f
      BY <1>5
    <2>2. \A k \in DOMAIN f : (CHOOSE o \in DOMAIN f : Up(o) = k) = k
      BY <1>5
    <2> HIDE DEF Up
    <2> QED BY <1>2, <2>1, <2>2
  <1>7. q = <<>>
    BY <1>2 DEF InsertedMoves
  <1>8. insert_at(c.insertions, S) = I \cup {n}
    <2>1. \A s \in I : s <= n /\ s # n
      BY <1>4
    <2> QED BY <1>2, <1>3, <2>1, LastIndex
  <1> HIDE DEF r, g, q, cols
  <1>9. r = Record(D, I \cup {n}, <<>>, g, cols)
    BY <1>1, <1>7, <1>8 DEF PutInsert, Record
  <1> QED BY <1>6, <1>9 DEF r, IsInserted

LEMMA InsertTracked ==
    ASSUME NEW E, NEW b \in Seq(E), NEW t \in Seq(E), NEW c, Tracked(c, b, t),
           NEW post \in Seq(E), Len(post) = Len(t) + 1,
           \A x \in Indices(t) : At(post, x) = At(t, x), At(post, Len(t)) \notin ToSet(b)
    PROVE  Tracked(insert(c, Len(t), 1, TRUE), b, post)
  <1>1. PICK D, I, f, C : c = Record(D, I, <<>>, f, C) /\ Follows(D, I, f, b, t)
    BY TrackedParts
  <1>2. PICK n \in Nat : n = Len(t)
    BY LenProperties
  <1>3. I \in IndexSets /\ (\A i \in I : i < n) /\ DOMAIN f \subseteq I
    BY <1>1, <1>2, IndexIs DEF Follows, Mapped
  <1>4. PICK g, C1 : /\ insert(c, n, 1, TRUE) = Record(D, I \cup {n}, <<>>, g, C1)
                     /\ DOMAIN g = DOMAIN f /\ \A k \in DOMAIN f : g[k] = f[k]
    <2>1. IsInserted(insert(c, n, 1, TRUE), D, I \cup {n}, f)
      BY <1>1, <1>3, InsertIs
    <2> QED BY <2>1 DEF IsInserted
  <1>5. Follows(D, I \cup {n}, g, b, post)
    BY <1>1, <1>2, <1>4, InsertFollows
  <1> QED BY <1>2, <1>4, <1>5, TrackedIs

HasParts(r, D, I, f) == \E C : r = Record(D, I, <<>>, f, C)

LEMMA PartsTracked ==
    ASSUME NEW D, NEW I, NEW f, NEW c, HasParts(c, D, I, f), NEW b, NEW t, Follows(D, I, f, b, t)
    PROVE  Tracked(c, b, t)
  <1>1. PICK C : c = Record(D, I, <<>>, f, C)
    BY DEF HasParts
  <1> QED BY <1>1, TrackedIs

(* move_over() of the last row: it is erased.                              *)
LEMMA EraseLastIs ==
    ASSUME NEW E, NEW b \in Seq(E), NEW t \in Seq(E), NEW D, NEW I, NEW f, Follows(D, I, f, b, t),
           NEW C, NEW c, c = Record(D, I, <<>>, f, C), NEW n \in Nat, Len(t) = n + 1
    PROVE  HasParts(move_over(c, n, n, TRUE), IF n \in I THEN D ELSE D \cup {n}, I \ {n}, Forget(f, n))
  <1> DEFINE u == erase_or_unshift(I, n)
             d == EraseRow(c, n)
             D1 == IF u = npos THEN D ELSE add_shifted(D, u)
             cols == [k \in DOMAIN d.cols |-> d.cols[k] \ {n}]
  <1>1. D \in IndexSets /\ I \in IndexSets /\ I \subseteq Indices(t) /\ n \in Indices(t)
    BY IndexIs DEF Follows
  <1>2. erase_at(I, {n}) = I \ {n}
    <2>1. \A i \in I : i <= n
      BY <1>1, IndexIs
    <2> QED BY <1>1, <2>1, LastIndex
  <1>3. D1 = IF n \in I THEN D ELSE D \cup {n}
    <2>1. u = npos <=> n \in I
      BY <1>1, ErasedRow
    <2>2. CASE n \in I
      BY <2>1, <2>2
    <2>3. CASE n \notin I
      <3>1. u = unshift(I, n) /\ shift(D, unshift(I, n)) = n
        BY <1>1, <2>3, FollowedIs DEF erase_or_unshift
      <3> QED BY <2>1, <2>3, <3>1 DEF add_shifted
    <2> QED BY <2>2, <2>3
  <1>4. d = Record(D1, I \ {n}, <<>>, f, C)
    <2>1. d = [c EXCEPT !.insertions = erase_at(I, {n}), !.deletions = D1]
      <3>1. c.insertions = I /\ c.deletions = D
        BY RecordIs
      <3> QED BY <3>1, Zenon DEF EraseRow
    <2> HIDE DEF d, D1
    <2> QED BY <1>2, <2>1 DEF Record
  <1>5. move_over(c, n, n, TRUE) = [d EXCEPT !.cols = cols, !.mapping = Forget(d.mapping, n)]
    BY DEF move_over
  <1> HIDE DEF d, D1, cols
  <1>6. d.mapping = f
    BY <1>4, RecordIs
  <1>7. move_over(c, n, n, TRUE) = Record(D1, I \ {n}, <<>>, Forget(f, n), cols)
    BY <1>4, <1>5, <1>6 DEF Record
  <1> QED BY <1>3, <1>7 DEF HasParts

LEMMA EraseLastTracked ==
    ASSUME NEW E, NEW b \in Seq(E), NEW t \in Seq(E), NEW c, Tracked(c, b, t),
           NEW n \in Nat, Len(t) = n + 1,
           NEW post \in Seq(E), Len(post) = n, \A x \in Indices(post) : At(post, x) = At(t, x)
    PROVE  Tracked(move_over(c, n, n, TRUE), b, post)
  <1>1. PICK D, I, f, C : c = Record(D, I, <<>>, f, C) /\ Follows(D, I, f, b, t)
    BY TrackedParts
  <1> DEFINE D1 == IF n \in I THEN D ELSE D \cup {n}
             I1 == I \ {n}
             g == Forget(f, n)
             src == [x \in Indices(post) |-> x]
  <1>2. HasParts(move_over(c, n, n, TRUE), D1, I1, g)
    BY <1>1, EraseLastIs
  <1>3. /\ \A x : x \in Indices(t) <=> x \in Nat /\ x < n + 1
        /\ \A x : x \in Indices(post) <=> x \in Nat /\ x < n
    BY IndexIs
  <1>4. \A x : x \in Indices(post) <=> x \in Indices(t) /\ x # n
    BY <1>3
  <1>5. D \in IndexSets /\ I \in IndexSets /\ I \subseteq Indices(t) /\ Stayed(D, I, b, t) /\ Mapped(D, I, f, b, t)
    BY <1>1 DEF Follows
  <1>6. D1 \in IndexSets /\ I1 \in IndexSets
    BY <1>5, AddIndex
  <1>7. DOMAIN g = DOMAIN f \ {n} /\ \A k \in DOMAIN g : g[k] = f[k]
    <2>1. /\ DOMAIN g = DOMAIN f \ {n}
          /\ \A x \in DOMAIN f : x # n => g[x] = f[x]
      BY ForgetIs, Zenon
    <2> HIDE DEF g
    <2> QED BY <2>1
  <1>8. \A x \in Indices(post) \ I1 : x \notin I /\ x \notin D1
    BY <1>4, <1>5 DEF Stayed
  <1>9. \A x \in Indices(b) \ D1 : x \in Indices(post) \ I1
    <2> TAKE x \in Indices(b) \ D1
    <2>1. x \in Indices(t) \ I
      BY <1>5 DEF Stayed
    <2>2. x # n
      BY <2>1
    <2> QED BY <1>4, <2>1, <2>2
  <1>10. \A k \in DOMAIN g : k \in I1 /\ g[k] \in D1 /\ k \in DOMAIN f /\ g[k] = f[k]
    BY <1>5, <1>7 DEF Mapped
  <1>11. I1 \subseteq Indices(post) /\ D \subseteq D1
    BY <1>4, <1>5
  <1>12. \A i \in I1 \ DOMAIN g : i \in I \ DOMAIN f
    BY <1>7
  <1> HIDE DEF D1, I1, g
  <1>13. Rearranges(src, D, I, f, b, t, D1, I1, g, post)
    BY <1>4, <1>6, <1>8, <1>9, <1>10, <1>11, <1>12 DEF Rearranges
  <1>14. Follows(D1, I1, g, b, post)
    BY <1>1, <1>13, RearrangedFollows
  <1> QED BY <1>2, <1>14, PartsTracked

(* move_over() of another row: the last row takes its place.               *)
MovedMap(g, f, I, row, last) ==
    /\ \A x \in DOMAIN g : x = row \/ (x \in DOMAIN f /\ x # last /\ g[x] = f[x])
    /\ \A x \in DOMAIN f : x \in DOMAIN g \/ x = row \/ x = last
    /\ row \in DOMAIN g <=> last \in DOMAIN f \/ last \notin I
    /\ last \in DOMAIN f => g[row] = f[last]
    /\ last \notin I => g[row] = last

LEMMA MapMovedAgain ==
    ASSUME NEW f, NEW I, NEW row, NEW last, row # last, last \in DOMAIN f, DOMAIN f \subseteq I
    PROVE  MovedMap(Put(Forget(f, last), row, f[last]), f, I, row, last)
BY DEF MovedMap, Put, Forget, Restrict

LEMMA MapDropped ==
    ASSUME NEW f, NEW I, NEW row, NEW last, row # last, last \in I \ DOMAIN f, DOMAIN f \subseteq I
    PROVE  MovedMap(Forget(f, row), f, I, row, last)
BY DEF MovedMap, Forget, Restrict

LEMMA MapMoved ==
    ASSUME NEW f, NEW I, NEW row, NEW last, row # last, last \notin I, DOMAIN f \subseteq I
    PROVE  /\ MovedMap(Put(f, row, last), f, I, row, last)
           /\ MovedMap(Put(Forget(f, row), row, last), f, I, row, last)
BY DEF MovedMap, Put, Forget, Restrict

IsMovedOver(r, D, I, f, row, last) ==
    LET D1 == IF last \in I THEN D ELSE D \cup {last}
        D2 == IF row \in I THEN D1 ELSE D1 \cup {row}
    IN  \E g : MovedMap(g, f, I, row, last) /\ HasParts(r, D2, (I \ {last}) \cup {row}, g)

LEMMA MoveOverIs ==
    ASSUME NEW E, NEW b \in Seq(E), NEW t \in Seq(E), NEW D, NEW I, NEW f, Follows(D, I, f, b, t),
           NEW C, NEW c, c = Record(D, I, <<>>, f, C), NEW last \in Nat, Len(t) = last + 1,
           NEW row \in Nat, row < last
    PROVE  IsMovedOver(move_over(c, row, last, TRUE), D, I, f, row, last)
  <1>1. /\ D \in IndexSets /\ I \in IndexSets /\ DOMAIN f \subseteq I
        /\ row \in Indices(t) /\ last \in Indices(t) /\ row # last
    BY IndexIs DEF Follows, Mapped
  <1> DEFINE cols == [k \in DOMAIN c.cols |->
                        IF last \in c.cols[k] THEN (c.cols[k] \ {last}) \cup {row}
                                              ELSE c.cols[k] \ {row}]
             again == last \in I /\ last \in DOMAIN f
             from == unshift(I, last)
             source == shift(D, from)
             dropped == IF row \in I /\ ~again THEN Forget(f, row) ELSE f
             g == IF again THEN Put(Forget(dropped, last), row, dropped[last])
                  ELSE IF last \in I THEN dropped
                  ELSE Put(dropped, row, source)
             ins == I \ {last}
             del == IF last \in I THEN D ELSE add_shifted(D, from)
             D2 == IF row \in I THEN del ELSE add_shifted(del, unshift(ins, row))
  <1>2. move_over(c, row, last, TRUE) =
           [c EXCEPT !.cols = cols, !.mapping = g, !.deletions = D2, !.insertions = ins \cup {row}]
    <2>1. c.insertions = I /\ c.deletions = D /\ c.mapping = f
      BY RecordIs
    <2> QED BY <1>1, <2>1, Zenon DEF move_over
  <1>3. last \notin I => source = last /\ last \notin D
    BY <1>1, FollowedIs
  <1>4. del = IF last \in I THEN D ELSE D \cup {last}
    BY <1>3 DEF add_shifted
  <1>5. D2 = IF row \in I THEN del ELSE del \cup {row}
    <2> SUFFICES ASSUME row \notin I PROVE shift(del, unshift(ins, row)) = row
      BY DEF add_shifted
    <2>1. del \in IndexSets /\ ins \in IndexSets
      BY <1>1, <1>4, AddIndex
    <2>2. row \notin del
      <3>1. row \notin D
        BY <1>1, FollowedIs
      <3> QED BY <1>1, <1>4, <3>1
    <2>3. \A x \in Nat : x < row => (x \in del <=> x \in D) /\ (x \in ins <=> x \in I)
      <3>1. \A x \in Nat : x < row => x # last
        OBVIOUS
      <3> QED BY <1>4, <3>1
    <2> HIDE DEF del, ins
    <2> QED BY <1>1, <2>1, <2>2, <2>3, FollowedStill
  <1> HIDE DEF cols, D2, del, from, source
  <1>6. MovedMap(g, f, I, row, last)
    <2>1. CASE again
      <3>1. g = Put(Forget(f, last), row, f[last])
        BY <2>1
      <3> QED BY <1>1, <2>1, <3>1, MapMovedAgain
    <2>2. CASE ~again /\ last \in I
      <3>1. CASE row \in I
        <4>1. g = Forget(f, row)
          BY <2>2, <3>1
        <4> QED BY <1>1, <2>2, <4>1, MapDropped
      <3>2. CASE row \notin I
        <4>1. g = f
          BY <2>2, <3>2
        <4> QED BY <1>1, <2>2, <3>2, <4>1 DEF MovedMap
      <3> QED BY <3>1, <3>2
    <2>3. CASE last \notin I
      <3>1. CASE row \in I
        <4>1. g = Put(Forget(f, row), row, last)
          BY <1>3, <2>3, <3>1
        <4> QED BY <1>1, <2>3, <4>1, MapMoved
      <3>2. CASE row \notin I
        <4>1. g = Put(f, row, last)
          BY <1>3, <2>3, <3>2
        <4> QED BY <1>1, <2>3, <4>1, MapMoved
      <3> QED BY <3>1, <3>2
    <2> QED BY <2>1, <2>2, <2>3
  <1> HIDE DEF g, ins
  <1>7. HasParts(move_over(c, row, last, TRUE), D2, ins \cup {row}, g)
    <2>1. move_over(c, row, last, TRUE) = Record(D2, ins \cup {row}, <<>>, g, cols)
      BY <1>2 DEF Record
    <2> QED BY <2>1 DEF HasParts
  <1> QED BY <1>4, <1>5, <1>6, <1>7 DEF IsMovedOver, ins

LEMMA MoveOverTracked ==
    ASSUME NEW E, NEW b \in Seq(E), NEW t \in Seq(E), NEW c, Tracked(c, b, t),
           NEW last \in Nat, Len(t) = last + 1, NEW row \in Nat, row < last,
           NEW post \in Seq(E), Len(post) = last,
           \A x \in Indices(post) : At(post, x) = IF x = row THEN At(t, last) ELSE At(t, x)
    PROVE  Tracked(move_over(c, row, last, TRUE), b, post)
  <1>1. PICK D, I, f, C : c = Record(D, I, <<>>, f, C) /\ Follows(D, I, f, b, t)
    BY TrackedParts
  <1> DEFINE D1 == IF last \in I THEN D ELSE D \cup {last}
             D2 == IF row \in I THEN D1 ELSE D1 \cup {row}
             I1 == (I \ {last}) \cup {row}
             src == [x \in Indices(post) |-> IF x = row THEN last ELSE x]
  <1>2. PICK g : MovedMap(g, f, I, row, last) /\ HasParts(move_over(c, row, last, TRUE), D2, I1, g)
    <2>1. IsMovedOver(move_over(c, row, last, TRUE), D, I, f, row, last)
      BY <1>1, MoveOverIs
    <2> QED BY <2>1 DEF IsMovedOver
  <1>3. /\ \A x : x \in Indices(t) <=> x \in Nat /\ x < last + 1
        /\ \A x : x \in Indices(post) <=> x \in Nat /\ x < last
    BY IndexIs
  <1>4. /\ \A x : x \in Indices(post) <=> x \in Indices(t) /\ x # last
        /\ row \in Indices(post) /\ last \in Indices(t) /\ row # last
    BY <1>3
  <1>5. /\ D \in IndexSets /\ I \in IndexSets /\ I \subseteq Indices(t)
        /\ Stayed(D, I, b, t) /\ Mapped(D, I, f, b, t)
    BY <1>1 DEF Follows
  <1>6. D2 \in IndexSets /\ I1 \in IndexSets
    <2>1. D1 \in IndexSets /\ I \ {last} \in IndexSets
      BY <1>5, AddIndex
    <2> HIDE DEF D1
    <2> QED BY <2>1, AddIndex
  <1>7. /\ D \subseteq D2 /\ \A x \in D2 : x \in D \/ (x = last /\ last \notin I) \/ (x = row /\ row \notin I)
        /\ last \notin I => last \in D2
        /\ row \notin I => row \in D2
    OBVIOUS
  <1>8. \A x : x \in I1 <=> (x \in I /\ x # last) \/ x = row
    BY <1>4
  <1>9. /\ src \in [Indices(post) -> Indices(t)]
        /\ \A x \in Indices(post) : src[x] = IF x = row THEN last ELSE x
    BY <1>4
  <1> HIDE DEF D1, D2, I1, src
  <1>10. \A x \in Indices(post) \ I1 : src[x] = x /\ x \notin I /\ x \notin D2
    BY <1>4, <1>5, <1>7, <1>8, <1>9 DEF Stayed
  <1>11. \A x \in Indices(b) \ D2 : x \in Indices(post) \ I1
    <2> TAKE x \in Indices(b) \ D2
    <2>1. x \in Indices(t) \ I
      BY <1>5, <1>7 DEF Stayed
    <2>2. x # last /\ x # row
      BY <1>7, <2>1
    <2> QED BY <1>4, <1>8, <2>1, <2>2
  <1>12. ASSUME NEW k \in DOMAIN g
         PROVE  /\ k \in I1 /\ g[k] \in D2
                /\ \/ src[k] \in DOMAIN f /\ g[k] = f[src[k]]
                   \/ src[k] \notin I /\ g[k] = src[k]
    <2>1. CASE k = row
      <3>1. src[k] = last
        BY <1>4, <1>9, <2>1
      <3>2. CASE last \in DOMAIN f
        <4>1. g[k] = f[last] /\ f[last] \in D
          BY <1>2, <1>5, <2>1, <3>2 DEF MovedMap, Mapped
        <4> QED BY <1>7, <1>8, <2>1, <3>1, <3>2, <4>1
      <3>3. CASE last \notin I
        <4>1. g[k] = last
          BY <1>2, <2>1, <3>3 DEF MovedMap
        <4> QED BY <1>7, <1>8, <2>1, <3>1, <3>3, <4>1
      <3> QED BY <1>2, <1>12, <2>1, <3>2, <3>3 DEF MovedMap
    <2>2. CASE k # row
      <3>1. k \in DOMAIN f /\ k # last /\ g[k] = f[k]
        BY <1>2, <1>12, <2>2 DEF MovedMap
      <3>2. k \in I /\ f[k] \in D
        BY <1>5, <3>1 DEF Mapped
      <3>3. k \in Indices(post) /\ src[k] = k
        BY <1>4, <1>5, <1>9, <2>2, <3>1, <3>2
      <3> QED BY <1>7, <1>8, <3>1, <3>2, <3>3
    <2> QED BY <2>1, <2>2
  <1>13. I1 \subseteq Indices(post)
    BY <1>4, <1>5, <1>8
  <1>14. ASSUME NEW i \in I1 \ DOMAIN g PROVE src[i] \in I \ DOMAIN f
    <2>1. CASE i = row
      <3>1. src[i] = last /\ last \in I /\ last \notin DOMAIN f
        BY <1>2, <1>4, <1>9, <1>14, <2>1 DEF MovedMap
      <3> QED BY <3>1
    <2>2. CASE i # row
      <3>1. i \in I /\ i # last /\ i \in Indices(post) /\ src[i] = i
        BY <1>8, <1>9, <1>13, <1>14, <2>2
      <3>2. i \notin DOMAIN f
        BY <1>2, <1>14, <2>2, <3>1 DEF MovedMap
      <3> QED BY <3>1, <3>2
    <2> QED BY <2>1, <2>2
  <1>15. \A x \in Indices(post) : At(post, x) = At(t, src[x])
    BY <1>9
  <1>16. Rearranges(src, D, I, f, b, t, D2, I1, g, post)
    BY <1>6, <1>7, <1>9, <1>10, <1>11, <1>12, <1>13, <1>14, <1>15 DEF Rearranges
  <1>17. Follows(D2, I1, g, b, post)
    BY <1>1, <1>16, RearrangedFollows
  <1> QED BY <1>2, <1>17, PartsTracked

(* swap(): each of two rows takes the place of the other.                  *)
SwapMap(g, f, I, one, two) ==
    /\ \A x \in DOMAIN g : x = one \/ x = two \/ (x \in DOMAIN f /\ g[x] = f[x])
    /\ \A x \in DOMAIN f : x \in DOMAIN g \/ x = one \/ x = two
    /\ one \in DOMAIN g <=> two \in DOMAIN f \/ two \notin I
    /\ two \in DOMAIN g <=> one \in DOMAIN f \/ one \notin I
    /\ (two \in DOMAIN f => g[one] = f[two]) /\ (two \notin I => g[one] = two)
    /\ (one \in DOMAIN f => g[two] = f[one]) /\ (one \notin I => g[two] = one)

IsSwapped(r, D, I, f, one, two) ==
    \E g : SwapMap(g, f, I, one, two) /\ HasParts(r, D \cup ({one, two} \ I), I \cup {one, two}, g)

LEMMA MapSwapped ==
    ASSUME NEW f, NEW I, NEW one, NEW two, one # two, DOMAIN f \subseteq I,
           one \in DOMAIN f, two \in DOMAIN f
    PROVE  SwapMap([f EXCEPT ![one] = f[two], ![two] = f[one]], f, I, one, two)
BY DEF SwapMap

LEMMA MapUpdated ==
    ASSUME NEW f, NEW I, NEW one, NEW two, one # two, DOMAIN f \subseteq I,
           one \notin DOMAIN f, two \in DOMAIN f
    PROVE  /\ one \in I => SwapMap(Put(Forget(f, two), one, f[two]), f, I, one, two)
           /\ one \notin I => SwapMap(Put(Put(Forget(f, two), one, f[two]), two, one), f, I, one, two)
BY DEF SwapMap, Put, Forget, Restrict

LEMMA MapBoth ==
    ASSUME NEW f, NEW I, NEW one, NEW two, one # two, DOMAIN f \subseteq I,
           one \notin DOMAIN f, two \notin DOMAIN f
    PROVE  /\ one \in I /\ two \in I => SwapMap(f, f, I, one, two)
           /\ one \in I /\ two \notin I => SwapMap(Put(f, one, two), f, I, one, two)
           /\ one \notin I /\ two \in I => SwapMap(Put(f, two, one), f, I, one, two)
           /\ one \notin I /\ two \notin I => SwapMap(Put(Put(f, one, two), two, one), f, I, one, two)
BY DEF SwapMap, Put

LEMMA SwapMapSides ==
    ASSUME NEW f, NEW I, NEW one, NEW two, NEW g, SwapMap(g, f, I, one, two)
    PROVE  SwapMap(g, f, I, two, one)
BY DEF SwapMap

LEMMA UpdateMoveIs ==
    ASSUME NEW E, NEW b \in Seq(E), NEW t \in Seq(E), NEW D, NEW I, NEW f, Follows(D, I, f, b, t),
           NEW C, NEW c, c = Record(D, I, <<>>, f, C),
           NEW one \in Indices(t), NEW two \in Indices(t), one # two,
           one \notin DOMAIN f, two \in DOMAIN f
    PROVE  IsSwapped(update_move(c, one, two), D, I, f, one, two)
  <1>1. D \in IndexSets /\ I \in IndexSets /\ DOMAIN f \subseteq I /\ two \in I
    BY DEF Follows, Mapped
  <1>2. c.insertions = I /\ c.deletions = D /\ c.mapping = f
    BY RecordIs
  <1> DEFINE moved == Put(Forget(f, two), one, f[two])
             from == shift(D, unshift(I, one))
             both == Put(moved, two, one)
  <1>3. CASE one \in I
    <2>1. update_move(c, one, two) = [c EXCEPT !.mapping = moved]
      BY <1>2, <1>3 DEF update_move
    <2>2. SwapMap(moved, f, I, one, two)
      BY <1>1, <1>3, MapUpdated
    <2> HIDE DEF moved
    <2>3. update_move(c, one, two) = Record(D, I, <<>>, moved, C)
      BY <2>1 DEF Record
    <2>4. D \cup ({one, two} \ I) = D /\ I \cup {one, two} = I
      BY <1>1, <1>3
    <2> QED BY <2>2, <2>3, <2>4 DEF IsSwapped, HasParts
  <1>4. CASE one \notin I
    <2>1. from = one
      BY <1>4, FollowedIs
    <2>2. update_move(c, one, two) =
             [c EXCEPT !.mapping = both, !.deletions = D \cup {one}, !.insertions = I \cup {one}]
      BY <1>2, <1>4, <2>1 DEF update_move
    <2>3. SwapMap(both, f, I, one, two)
      BY <1>1, <1>4, MapUpdated
    <2> HIDE DEF both
    <2>4. update_move(c, one, two) = Record(D \cup {one}, I \cup {one}, <<>>, both, C)
      BY <2>2 DEF Record
    <2>5. D \cup ({one, two} \ I) = D \cup {one} /\ I \cup {one, two} = I \cup {one}
      BY <1>1, <1>4
    <2> QED BY <2>3, <2>4, <2>5 DEF IsSwapped, HasParts
  <1> QED BY <1>3, <1>4

LEMMA MoveBothIs ==
    ASSUME NEW E, NEW b \in Seq(E), NEW t \in Seq(E), NEW D, NEW I, NEW f, Follows(D, I, f, b, t),
           NEW C, NEW c, c = Record(D, I, <<>>, f, C),
           NEW one \in Indices(t), NEW two \in Indices(t), one < two,
           one \notin DOMAIN f, two \notin DOMAIN f
    PROVE  IsSwapped(MoveTo(MoveTo(c, two, one), one, two), D, I, f, one, two)
  <1>1. /\ D \in IndexSets /\ I \in IndexSets /\ DOMAIN f \subseteq I
        /\ one \in Nat /\ two \in Nat /\ one # two
    BY IndexIs DEF Follows, Mapped
  <1> DEFINE d == MoveTo(c, two, one)
             r == MoveTo(d, one, two)
             D1 == IF two \in I THEN D ELSE D \cup {two}
             I1 == I \cup {two}
             f1 == IF two \in I THEN f ELSE Put(f, one, two)
             D2 == IF one \in I THEN D1 ELSE D1 \cup {one}
             I2 == I1 \cup {one}
             f2 == IF one \in I THEN f1 ELSE Put(f1, two, one)
  <1>2. d = Record(D1, I1, <<>>, f1, C)
    <2>1. c.insertions = I /\ c.deletions = D /\ c.mapping = f
      BY RecordIs
    <2>2. CASE two \in I
      <3>1. d = c
        BY <2>1, <2>2 DEF MoveTo
      <3>2. I1 = I /\ D1 = D /\ f1 = f
        BY <2>2
      <3> QED BY <3>1, <3>2
    <2>3. CASE two \notin I
      <3>1. shift(D, unshift(I, two)) = two
        BY <2>3, FollowedIs
      <3>2. d = [c EXCEPT !.mapping = Put(f, one, two), !.deletions = D \cup {two}, !.insertions = I \cup {two}]
        BY <2>1, <2>3, <3>1 DEF MoveTo
      <3> QED BY <2>3, <3>2 DEF Record
    <2> QED BY <2>2, <2>3
  <1>3. one \in I1 <=> one \in I
    BY <1>1
  <1>4. ASSUME one \notin I PROVE shift(D1, unshift(I1, one)) = one
    <2>1. D1 \in IndexSets /\ I1 \in IndexSets
      BY <1>1, AddIndex
    <2>2. one \notin D
      BY <1>4, FollowedIs
    <2>3. one \notin D1
      BY <1>1, <2>2
    <2>4. \A x \in Nat : x < one => (x \in D1 <=> x \in D) /\ (x \in I1 <=> x \in I)
      <3>1. \A x \in Nat : x < one => x # two
        BY <1>1
      <3> QED BY <3>1
    <2> HIDE DEF D1, I1
    <2> QED BY <1>4, <2>1, <2>3, <2>4, FollowedStill
  <1> HIDE DEF D1, I1, f1, d
  <1>5. r = Record(D2, I2, <<>>, f2, C)
    <2>1. d.insertions = I1 /\ d.deletions = D1 /\ d.mapping = f1
      BY <1>2, RecordIs
    <2>2. CASE one \in I
      <3>1. r = d
        BY <1>3, <2>1, <2>2 DEF MoveTo
      <3>2. I2 = I1 /\ D2 = D1 /\ f2 = f1
        BY <1>3, <2>2
      <3> QED BY <1>2, <3>1, <3>2
    <2>3. CASE one \notin I
      <3>1. r = [d EXCEPT !.mapping = Put(f1, two, one), !.deletions = D1 \cup {one}, !.insertions = I1 \cup {one}]
        BY <1>3, <1>4, <2>1, <2>3 DEF MoveTo
      <3> QED BY <1>2, <2>3, <3>1 DEF Record
    <2> QED BY <2>2, <2>3
  <1>6. D2 = D \cup ({one, two} \ I) /\ I2 = I \cup {one, two}
    BY <1>1 DEF D1, I1
  <1>7. SwapMap(f2, f, I, one, two)
    <2>1. CASE one \in I /\ two \in I
      BY <1>1, <2>1, MapBoth DEF f1
    <2>2. CASE one \in I /\ two \notin I
      BY <1>1, <2>2, MapBoth DEF f1
    <2>3. CASE one \notin I /\ two \in I
      BY <1>1, <2>3, MapBoth DEF f1
    <2>4. CASE one \notin I /\ two \notin I
      BY <1>1, <2>4, MapBoth DEF f1
    <2> QED BY <2>1, <2>2, <2>3, <2>4
  <1> HIDE DEF r, D2, I2, f2
  <1>8. HasParts(r, D2, I2, f2)
    BY <1>5 DEF HasParts
  <1>9. IsSwapped(r, D, I, f, one, two)
    BY <1>6, <1>7, <1>8 DEF IsSwapped
  <1> QED BY <1>9 DEF r, d

LEMMA SwapIs ==
    ASSUME NEW E, NEW b \in Seq(E), NEW t \in Seq(E), NEW D, NEW I, NEW f, Follows(D, I, f, b, t),
           NEW C, NEW c, c = Record(D, I, <<>>, f, C),
           NEW one \in Indices(t), NEW two \in Indices(t), one < two
    PROVE  IsSwapped(swap(c, one, two, TRUE), D, I, f, one, two)
  <1>1. one # two /\ DOMAIN f \subseteq I
    <2>1. one \in Nat /\ two \in Nat
      BY IndexIs
    <2> QED BY <2>1 DEF Follows, Mapped
  <1> DEFINE Swapped(S) == IF (one \in S) = (two \in S) THEN S
                           ELSE (S \ {one, two}) \cup ({one, two} \ S)
             cols == [k \in DOMAIN c.cols |-> Swapped(c.cols[k])]
             d == [c EXCEPT !.cols = cols]
             r == swap(c, one, two, TRUE)
  <1>2. r = IF one \in DOMAIN d.mapping /\ two \in DOMAIN d.mapping
            THEN [d EXCEPT !.mapping = [d.mapping EXCEPT ![one] = d.mapping[two], ![two] = d.mapping[one]]]
            ELSE IF one \in DOMAIN d.mapping THEN update_move(d, two, one)
            ELSE IF two \in DOMAIN d.mapping THEN update_move(d, one, two)
            ELSE MoveTo(MoveTo(d, two, one), one, two)
    BY DEF swap
  <1> HIDE DEF r, cols
  <1>3. d = Record(D, I, <<>>, f, cols)
    BY DEF Record
  <1> HIDE DEF d
  <1>4. d.mapping = f
    BY <1>3, RecordIs
  <1>5. CASE one \in DOMAIN f /\ two \in DOMAIN f
    <2> DEFINE g == [f EXCEPT ![one] = f[two], ![two] = f[one]]
    <2>1. r = [d EXCEPT !.mapping = g]
      BY <1>2, <1>4, <1>5
    <2>2. SwapMap(g, f, I, one, two)
      BY <1>1, <1>5, MapSwapped
    <2> HIDE DEF g
    <2>3. r = Record(D, I, <<>>, g, cols)
      BY <1>3, <2>1 DEF Record
    <2>4. D \cup ({one, two} \ I) = D /\ I \cup {one, two} = I
      BY <1>1, <1>5
    <2>5. IsSwapped(r, D, I, f, one, two)
      BY <2>2, <2>3, <2>4 DEF IsSwapped, HasParts
    <2> QED BY <2>5 DEF r
  <1>6. CASE one \in DOMAIN f /\ two \notin DOMAIN f
    <2>1. r = update_move(d, two, one)
      BY <1>2, <1>4, <1>6
    <2>2. IsSwapped(r, D, I, f, two, one)
      BY <1>1, <1>3, <1>6, <2>1, UpdateMoveIs
    <2>3. PICK g : SwapMap(g, f, I, two, one) /\ HasParts(r, D \cup ({two, one} \ I), I \cup {two, one}, g)
      BY <2>2 DEF IsSwapped
    <2>4. SwapMap(g, f, I, one, two)
      BY <2>3, SwapMapSides
    <2>5. {two, one} = {one, two}
      OBVIOUS
    <2>6. IsSwapped(r, D, I, f, one, two)
      BY <2>3, <2>4, <2>5 DEF IsSwapped
    <2> QED BY <2>6 DEF r
  <1>7. CASE one \notin DOMAIN f /\ two \in DOMAIN f
    <2>1. r = update_move(d, one, two)
      BY <1>2, <1>4, <1>7
    <2>2. IsSwapped(r, D, I, f, one, two)
      BY <1>1, <1>3, <1>7, <2>1, UpdateMoveIs
    <2> QED BY <2>2 DEF r
  <1>8. CASE one \notin DOMAIN f /\ two \notin DOMAIN f
    <2>1. r = MoveTo(MoveTo(d, two, one), one, two)
      BY <1>2, <1>4, <1>8
    <2>2. IsSwapped(r, D, I, f, one, two)
      BY <1>1, <1>3, <1>8, <2>1, MoveBothIs
    <2> QED BY <2>2 DEF r
  <1> QED BY <1>5, <1>6, <1>7, <1>8

LEMMA SwapTracked ==
    ASSUME NEW E, NEW b \in Seq(E), NEW t \in Seq(E), NEW c, Tracked(c, b, t),
           NEW one \in Indices(t), NEW two \in Indices(t), one < two,
           NEW post \in Seq(E), Len(post) = Len(t),
           \A x \in Indices(t) : At(post, x) = IF x = one THEN At(t, two)
                                               ELSE IF x = two THEN At(t, one) ELSE At(t, x)
    PROVE  Tracked(swap(c, one, two, TRUE), b, post)
  <1>1. PICK D, I, f, C : c = Record(D, I, <<>>, f, C) /\ Follows(D, I, f, b, t)
    BY TrackedParts
  <1> DEFINE D1 == D \cup ({one, two} \ I)
             I1 == I \cup {one, two}
             src == [x \in Indices(post) |-> IF x = one THEN two ELSE IF x = two THEN one ELSE x]
  <1>2. PICK g : SwapMap(g, f, I, one, two) /\ HasParts(swap(c, one, two, TRUE), D1, I1, g)
    <2>1. IsSwapped(swap(c, one, two, TRUE), D, I, f, one, two)
      BY <1>1, SwapIs
    <2> QED BY <2>1 DEF IsSwapped
  <1>3. Indices(post) = Indices(t) /\ one \in Nat /\ two \in Nat /\ one # two
    BY IndexIs DEF Indices
  <1>4. /\ D \in IndexSets /\ I \in IndexSets /\ I \subseteq Indices(t)
        /\ Stayed(D, I, b, t) /\ Mapped(D, I, f, b, t)
    BY <1>1 DEF Follows
  <1>5. D1 \in IndexSets /\ I1 \in IndexSets
    <2>1. I1 = (I \cup {one}) \cup {two}
      OBVIOUS
    <2>2. D1 = IF one \in I THEN IF two \in I THEN D ELSE D \cup {two}
               ELSE IF two \in I THEN D \cup {one} ELSE (D \cup {one}) \cup {two}
      OBVIOUS
    <2>3. /\ I \cup {one} \in IndexSets /\ D \cup {one} \in IndexSets /\ D \cup {two} \in IndexSets
      BY <1>3, <1>4, AddIndex
    <2>4. (I \cup {one}) \cup {two} \in IndexSets /\ (D \cup {one}) \cup {two} \in IndexSets
      BY <1>3, <2>3, AddIndex
    <2> HIDE DEF D1, I1
    <2> QED BY <1>4, <2>1, <2>2, <2>3, <2>4
  <1>6. /\ D \subseteq D1 /\ \A x \in D1 : x \in D \/ x \in {one, two}
        /\ one \notin I => one \in D1
        /\ two \notin I => two \in D1
        /\ \A x : x \in I1 <=> x \in I \/ x \in {one, two}
    OBVIOUS
  <1>7. /\ src \in [Indices(post) -> Indices(t)]
        /\ src[one] = two /\ src[two] = one
        /\ \A x \in Indices(t) : x # one /\ x # two => src[x] = x
        /\ \A x \in Indices(post) : At(post, x) = At(t, src[x])
    BY <1>3
  <1> HIDE DEF D1, I1, src
  <1>8. \A x \in Indices(post) \ I1 : src[x] = x /\ x \notin I /\ x \notin D1
    BY <1>3, <1>4, <1>6, <1>7 DEF Stayed
  <1>9. \A x \in Indices(b) \ D1 : x \in Indices(post) \ I1
    <2> TAKE x \in Indices(b) \ D1
    <2>1. x \in Indices(t) \ I
      BY <1>4, <1>6 DEF Stayed
    <2> QED BY <1>3, <1>6, <2>1
  <1>10. ASSUME NEW k \in DOMAIN g
         PROVE  /\ k \in I1 /\ g[k] \in D1
                /\ \/ src[k] \in DOMAIN f /\ g[k] = f[src[k]]
                   \/ src[k] \notin I /\ g[k] = src[k]
    <2>1. CASE k = one
      <3>1. (two \in DOMAIN f /\ g[k] = f[two] /\ f[two] \in D) \/ (two \notin I /\ g[k] = two)
        BY <1>2, <1>4, <1>10, <2>1 DEF SwapMap, Mapped
      <3> QED BY <1>6, <1>7, <2>1, <3>1
    <2>2. CASE k = two
      <3>1. (one \in DOMAIN f /\ g[k] = f[one] /\ f[one] \in D) \/ (one \notin I /\ g[k] = one)
        BY <1>2, <1>4, <1>10, <2>2 DEF SwapMap, Mapped
      <3> QED BY <1>6, <1>7, <2>2, <3>1
    <2>3. CASE k # one /\ k # two
      <3>1. k \in DOMAIN f /\ g[k] = f[k]
        BY <1>2, <1>10, <2>3 DEF SwapMap
      <3>2. k \in I /\ f[k] \in D
        BY <1>4, <3>1 DEF Mapped
      <3>3. src[k] = k
        BY <1>4, <1>7, <2>3, <3>2
      <3> QED BY <1>6, <3>1, <3>2, <3>3
    <2> QED BY <2>1, <2>2, <2>3
  <1>11. I1 \subseteq Indices(post)
    BY <1>3, <1>4, <1>6
  <1>12. ASSUME NEW i \in I1 \ DOMAIN g PROVE src[i] \in I \ DOMAIN f
    <2>1. CASE i = one
      <3>1. two \in I /\ two \notin DOMAIN f
        BY <1>2, <1>12, <2>1 DEF SwapMap
      <3> QED BY <1>7, <2>1, <3>1
    <2>2. CASE i = two
      <3>1. one \in I /\ one \notin DOMAIN f
        BY <1>2, <1>12, <2>2 DEF SwapMap
      <3> QED BY <1>7, <2>2, <3>1
    <2>3. CASE i # one /\ i # two
      <3>1. i \in I /\ src[i] = i
        BY <1>3, <1>4, <1>6, <1>7, <1>12, <2>3
      <3>2. i \notin DOMAIN f
        BY <1>2, <1>12, <2>3 DEF SwapMap
      <3> QED BY <3>1, <3>2
    <2> QED BY <2>1, <2>2, <2>3
  <1>13. Rearranges(src, D, I, f, b, t, D1, I1, g, post)
    BY <1>5, <1>6, <1>7, <1>8, <1>9, <1>10, <1>11, <1>12 DEF Rearranges
  <1>14. Follows(D1, I1, g, b, post)
    BY <1>1, <1>13, RearrangedFollows
  <1> QED BY <1>2, <1>14, PartsTracked

(* A row n is added, row i is subsumed by it and n takes the place of i:   *)
(* it is where it was, but as a row that was deleted and inserted.         *)
MergeMap(h, f, I, i) ==
    /\ \A x \in DOMAIN h : (x \in DOMAIN f /\ h[x] = f[x]) \/ (x = i /\ i \notin I /\ h[x] = i)
    /\ DOMAIN f \subseteq DOMAIN h
    /\ i \in DOMAIN h <=> i \in DOMAIN f \/ i \notin I

LEMMA MapMerged ==
    ASSUME NEW f, NEW I, NEW i, NEW n, i # n, DOMAIN f \subseteq I, n \notin I
    PROVE  /\ i \in DOMAIN f =>
                 LET g == Put(Forget(f, i), n, f[i])
                 IN  n \in DOMAIN g /\ MergeMap(Put(Forget(g, n), i, g[n]), f, I, i)
           /\ i \in I \ DOMAIN f => n \notin DOMAIN f /\ MergeMap(Forget(f, i), f, I, i)
           /\ i \notin I =>
                 LET g == Put(f, n, i)
                 IN  n \in DOMAIN g /\ MergeMap(Put(Forget(g, n), i, g[n]), f, I, i)
BY DEF MergeMap, Put, Forget, Restrict

(* The new row takes the place of another.                                 *)
LEMMA TakePlaceIs ==
    ASSUME NEW D, NEW I, NEW f, NEW C, NEW c, c = Record(D, I, <<>>, f, C),
           NEW i, NEW n, i # n, n \in I
    PROVE  HasParts(move_over(c, i, n, TRUE),
                    IF i \in I THEN D ELSE add_shifted(D, unshift(I \ {n}, i)),
                    (I \ {n}) \cup {i},
                    IF n \in DOMAIN f THEN Put(Forget(f, n), i, f[n])
                    ELSE IF i \in I THEN Forget(f, i) ELSE f)
  <1> DEFINE cols == [k \in DOMAIN c.cols |->
                        IF n \in c.cols[k] THEN (c.cols[k] \ {n}) \cup {i} ELSE c.cols[k] \ {i}]
             g == IF n \in DOMAIN f THEN Put(Forget(f, n), i, f[n])
                  ELSE IF i \in I THEN Forget(f, i) ELSE f
             D2 == IF i \in I THEN D ELSE add_shifted(D, unshift(I \ {n}, i))
  <1>1. c.insertions = I /\ c.deletions = D /\ c.mapping = f
    BY RecordIs
  <1>2. move_over(c, i, n, TRUE) =
           [c EXCEPT !.cols = cols, !.mapping = g, !.deletions = D2, !.insertions = (I \ {n}) \cup {i}]
    BY <1>1 DEF move_over
  <1> HIDE DEF cols, g, D2
  <1>3. move_over(c, i, n, TRUE) = Record(D2, (I \ {n}) \cup {i}, <<>>, g, cols)
    BY <1>2 DEF Record
  <1> QED BY <1>3 DEF HasParts, g, D2

LEMMA SubsumeIs ==
    ASSUME NEW D, NEW I, NEW f, NEW C, NEW c, c = Record(D, I, <<>>, f, C), NEW i, NEW n
    PROVE  HasParts(subsume(c, i, n, TRUE), D, I,
                    IF i \in DOMAIN f THEN Put(Forget(f, i), n, f[i])
                    ELSE IF i \in I THEN f ELSE Put(f, n, shift(D, unshift(I, i))))
  <1> DEFINE cols == [k \in DOMAIN c.cols |->
                        IF i \in c.cols[k] THEN c.cols[k] \cup {n} ELSE c.cols[k]]
             d == [c EXCEPT !.cols = cols]
  <1>1. subsume(c, i, n, TRUE) =
           IF i \in DOMAIN d.mapping
           THEN [d EXCEPT !.mapping = Put(Forget(d.mapping, i), n, d.mapping[i])]
           ELSE IF i \in d.insertions THEN d
           ELSE [d EXCEPT !.mapping = Put(d.mapping, n, shift(d.deletions, unshift(d.insertions, i)))]
    BY DEF subsume
  <1> HIDE DEF cols
  <1>2. d = Record(D, I, <<>>, f, cols)
    BY DEF Record
  <1> HIDE DEF d
  <1>3. d.mapping = f /\ d.insertions = I /\ d.deletions = D
    BY <1>2, RecordIs
  <1>4. ASSUME NEW h PROVE [d EXCEPT !.mapping = h] = Record(D, I, <<>>, h, cols)
    BY <1>2 DEF Record
  <1> QED BY <1>1, <1>2, <1>3, <1>4 DEF HasParts

LEMMA MergeTracked ==
    ASSUME NEW E, NEW b \in Seq(E), NEW t \in Seq(E), NEW c, Tracked(c, b, t),
           NEW n \in Nat, n = Len(t), NEW i \in Indices(t)
    PROVE  Tracked(move_over(subsume(insert(c, n, 1, TRUE), i, n, TRUE), i, n, TRUE), b, t)
  <1>1. PICK D, I, f, C : c = Record(D, I, <<>>, f, C) /\ Follows(D, I, f, b, t)
    BY TrackedParts
  <1>2. /\ D \in IndexSets /\ I \in IndexSets /\ I \subseteq Indices(t) /\ DOMAIN f \subseteq I
        /\ Stayed(D, I, b, t) /\ Mapped(D, I, f, b, t)
    BY <1>1 DEF Follows, Mapped
  <1>3. /\ \A x : x \in Indices(t) <=> x \in Nat /\ x < n
        /\ i \in Nat /\ i < n /\ i # n /\ n \notin I
    BY <1>2, IndexIs
  <1> DEFINE d == insert(c, n, 1, TRUE)
             s == subsume(d, i, n, TRUE)
             r == move_over(s, i, n, TRUE)
             J == I \cup {n}
  <1>4. PICK g, C1 : /\ d = Record(D, J, <<>>, g, C1)
                     /\ DOMAIN g = DOMAIN f /\ \A k \in DOMAIN f : g[k] = f[k]
    <2>1. IsInserted(insert(c, n, 1, TRUE), D, I \cup {n}, f)
      BY <1>1, <1>2, <1>3, InsertIs
    <2> QED BY <2>1 DEF IsInserted
  <1> HIDE DEF d, J
  <1>5. i \in J <=> i \in I
    BY <1>3 DEF J
  <1>6. i \notin I => shift(D, unshift(J, i)) = i /\ shift(D, unshift(I, i)) = i
    <2> SUFFICES ASSUME i \notin I PROVE shift(D, unshift(J, i)) = i /\ shift(D, unshift(I, i)) = i
      OBVIOUS
    <2>1. J \in IndexSets
      BY <1>2, AddIndex DEF J
    <2>2. i \notin D /\ shift(D, unshift(I, i)) = i
      BY <1>1, FollowedIs
    <2>3. \A x \in Nat : x < i => (x \in J <=> x \in I)
      BY <1>3 DEF J
    <2>4. shift(D, unshift(J, i)) = i
      BY <1>1, <1>2, <2>1, <2>2, <2>3, FollowedStill
    <2> QED BY <2>2, <2>4
  <1> DEFINE h == IF i \in DOMAIN g THEN Put(Forget(g, i), n, g[i])
                  ELSE IF i \in I THEN g ELSE Put(g, n, i)
  <1>7. HasParts(s, D, J, h)
    <2>1. HasParts(s, D, J, IF i \in DOMAIN g THEN Put(Forget(g, i), n, g[i])
                            ELSE IF i \in J THEN g ELSE Put(g, n, shift(D, unshift(J, i))))
      BY <1>4, SubsumeIs
    <2> QED BY <1>5, <1>6, <2>1
  <1> DEFINE D2 == IF i \in I THEN D ELSE D \cup {i}
             I2 == I \cup {i}
             k == IF n \in DOMAIN h THEN Put(Forget(h, n), i, h[n])
                  ELSE IF i \in I THEN Forget(h, i) ELSE h
  <1>8. MergeMap(k, g, I, i)
    <2>1. DOMAIN g \subseteq I
      BY <1>2, <1>4
    <2>2. CASE i \in DOMAIN g
      <3>1. h = Put(Forget(g, i), n, g[i])
        BY <2>2
      <3> HIDE DEF h
      <3>2. n \in DOMAIN h /\ MergeMap(Put(Forget(h, n), i, h[n]), g, I, i)
        BY <1>3, <2>1, <2>2, <3>1, MapMerged
      <3> QED BY <3>2
    <2>3. CASE i \in I \ DOMAIN g
      <3>1. h = g
        BY <2>3
      <3> HIDE DEF h
      <3>2. n \notin DOMAIN h /\ MergeMap(Forget(h, i), g, I, i)
        BY <1>3, <2>1, <2>3, <3>1, MapMerged
      <3> QED BY <2>3, <3>2
    <2>4. CASE i \notin I
      <3>1. h = Put(g, n, i)
        BY <2>1, <2>4
      <3> HIDE DEF h
      <3>2. n \in DOMAIN h /\ MergeMap(Put(Forget(h, n), i, h[n]), g, I, i)
        BY <1>3, <2>1, <2>4, <3>1, MapMerged
      <3> QED BY <3>2
    <2> QED BY <2>2, <2>3, <2>4
  <1> HIDE DEF s, h
  <1>9. HasParts(r, D2, I2, k)
    <2>1. PICK C2 : s = Record(D, J, <<>>, h, C2)
      BY <1>7 DEF HasParts
    <2>2. n \in J /\ J \ {n} = I
      BY <1>3 DEF J
    <2>3. HasParts(r, IF i \in J THEN D ELSE add_shifted(D, unshift(J \ {n}, i)), (J \ {n}) \cup {i},
                   IF n \in DOMAIN h THEN Put(Forget(h, n), i, h[n])
                   ELSE IF i \in J THEN Forget(h, i) ELSE h)
      BY <1>3, <2>1, <2>2, TakePlaceIs
    <2> QED BY <1>5, <1>6, <2>2, <2>3 DEF add_shifted
  <1> HIDE DEF r, k
  <1>10. MergeMap(k, f, I, i)
    BY <1>4, <1>8 DEF MergeMap
  <1> DEFINE src == [x \in Indices(t) |-> x]
  <1>11. D2 \in IndexSets /\ I2 \in IndexSets /\ I2 \subseteq Indices(t) /\ D \subseteq D2
    BY <1>2, <1>3, AddIndex
  <1>12. \A x \in Indices(t) \ I2 : x \notin I /\ x \notin D2
    BY <1>2 DEF Stayed
  <1>13. \A x \in Indices(b) \ D2 : x \in Indices(t) \ I2
    BY <1>2 DEF Stayed
  <1>14. \A x \in DOMAIN k :
           /\ x \in I2 /\ k[x] \in D2 /\ x \in Indices(t)
           /\ (x \in DOMAIN f /\ k[x] = f[x]) \/ (x \notin I /\ k[x] = x)
    BY <1>2, <1>10 DEF MergeMap, Mapped
  <1>15. \A x \in I2 \ DOMAIN k : x \in I \ DOMAIN f
    BY <1>10 DEF MergeMap
  <1> HIDE DEF D2, I2
  <1>16. Rearranges(src, D, I, f, b, t, D2, I2, k, t)
    BY <1>11, <1>12, <1>13, <1>14, <1>15 DEF Rearranges
  <1>17. Follows(D2, I2, k, b, t)
    BY <1>1, <1>16, RearrangedFollows
  <1>18. Tracked(r, b, t)
    BY <1>9, <1>17, PartsTracked
  <1> QED BY <1>18 DEF r, s, d

(* clear() deletes every row there may have been.                          *)
LEMMA ClearTracked ==
    ASSUME NEW E, NEW b \in Seq(E), NEW c, NEW all \in Nat, Len(b) <= all
    PROVE  Tracked(clear(c, npos, all), b, <<>>)
  <1> DEFINE C == [k \in (DOMAIN c.cols) \cup {0} |-> {}]
             S == SpanOf(0, all)
  <1>1. clear(c, npos, all) = [NoChange(DOMAIN c.cols) EXCEPT !.deletions = S]
    BY DEF clear
  <1>2. clear(c, npos, all) = Record(S, {}, <<>>, <<>>, C)
    BY <1>1 DEF NoChange, Record
  <1>3. S \in IndexSets /\ {} \in IndexSets
    BY SpanIs, NoneShifts
  <1>4. Indices(<<>>) = {}
    BY DEF Indices
  <1>5. Indices(b) \subseteq S
    BY IndexIs DEF SpanOf
  <1> HIDE DEF S
  <1>6. Follows(S, {}, <<>>, b, <<>>)
    BY <1>3, <1>4, <1>5 DEF Follows, Stayed, Mapped
  <1> QED BY <1>2, <1>6, TrackedIs

-----------------------------------------------------------------------------
(* The end of the log.                                                     *)

(* parse_complete() sorts the moves by where they are from.                *)
Sorted(ms) ==
    [n \in 1..Cardinality(ms) |->
       CHOOSE m \in ms : Cardinality({o \in ms : o.from < m.from}) = n - 1]

LEMMA SortedIs ==
    ASSUME NEW ms \in SUBSET Moves, IsFiniteSet(ms), \A a, b \in ms : a.from = b.from => a = b
    PROVE  ToSet(Sorted(ms)) = ms
  <1> DEFINE R == {p \in ms \X ms : p[1].from < p[2].from}
             N == Cardinality(ms)
  <1>1. \A m \in ms : m.from \in Nat
    BY DEF Moves
  <1>2. \A a, b \in ms : <<a, b>> \in R <=> a.from < b.from
    OBVIOUS
  <1> HIDE DEF R
  <1>3. Orders(R, ms)
    BY <1>1, <1>2 DEF Orders
  <1>4. \A m \in ms : {o \in ms : o.from < m.from} = Lower(R, ms, m)
    BY <1>2 DEF Lower
  <1>5. N \in Nat
    BY FS_CardinalityType
  <1>6. /\ DOMAIN Sorted(ms) = 1..N
        /\ \A n \in 1..N : Sorted(ms)[n] = CHOOSE m \in ms : Cardinality({o \in ms : o.from < m.from}) = n - 1
    BY DEF Sorted
  <1>7. ASSUME NEW n \in 1..N
        PROVE  Sorted(ms)[n] \in ms /\ Cardinality(Lower(R, ms, Sorted(ms)[n])) = n - 1
    <2>1. \E a \in ms : Cardinality(Lower(R, ms, a)) = n - 1
      BY <1>3, Ranked
    <2> DEFINE x == CHOOSE m \in ms : Cardinality({o \in ms : o.from < m.from}) = n - 1
    <2>2. x \in ms /\ Cardinality({o \in ms : o.from < x.from}) = n - 1
      BY <1>4, <2>1
    <2>3. Sorted(ms)[n] = x
      BY <1>6
    <2> HIDE DEF x
    <2> QED BY <1>4, <2>2, <2>3
  <1>8. ASSUME NEW m \in ms PROVE m \in ToSet(Sorted(ms))
    <2> DEFINE l == Cardinality(Lower(R, ms, m))
               s == Sorted(ms)[l + 1]
    <2>1. l \in Nat /\ l < N
      BY <1>3, LowerIs
    <2> HIDE DEF l
    <2>2. l + 1 \in 1..N /\ (l + 1) - 1 = l
      BY <1>5, <2>1
    <2> HIDE DEF N
    <2>3. s \in ms /\ Cardinality(Lower(R, ms, s)) = l
      BY <1>7, <2>2
    <2> HIDE DEF s
    <2>4. s = m
      <3>1. ASSUME <<s, m>> \in R PROVE FALSE
        <4>1. Cardinality(Lower(R, ms, s)) < Cardinality(Lower(R, ms, m))
          BY <1>3, <2>3, <3>1, LowerIs
        <4> QED BY <2>1, <2>3, <4>1 DEF l
      <3>2. ASSUME <<m, s>> \in R PROVE FALSE
        <4>1. Cardinality(Lower(R, ms, m)) < Cardinality(Lower(R, ms, s))
          BY <1>3, <2>3, <3>2, LowerIs
        <4> QED BY <2>1, <2>3, <4>1 DEF l
      <3> QED BY <1>3, <2>3, <3>1, <3>2 DEF Orders
    <2> QED BY <1>6, <2>2, <2>4 DEF ToSet, s
  <1>9. \A m \in ToSet(Sorted(ms)) : m \in ms
    BY <1>6, <1>7 DEF ToSet
  <1> QED BY <1>8, <1>9

(* No two rows come from one.                                              *)
LEMMA MapInjective ==
    ASSUME NEW E, NEW b \in Seq(E), NEW t \in Seq(E), Unique(t), NEW D, NEW I, NEW f, Follows(D, I, f, b, t)
    PROVE  \A k, l \in DOMAIN f : f[k] = f[l] => k = l
  <1>1. \A k \in DOMAIN f : k \in Indices(t) /\ At(t, k) = At(b, f[k])
    BY DEF Follows, Mapped
  <1> QED BY <1>1 DEF Unique

(* Where the rows are that were there before the log.                      *)
LEMMA RowIsLeft ==
    ASSUME NEW E, NEW b \in Seq(E), NEW t \in Seq(E), Unique(b), NEW D, NEW I, NEW f, Follows(D, I, f, b, t),
           NEW i \in Indices(b) \cap D, At(b, i) \in ToSet(t)
    PROVE  \E k \in DOMAIN f : f[k] = i
  <1>1. PICK x \in Indices(t) : At(t, x) = At(b, i)
    BY EntriesAre
  <1>2. At(b, i) \in ToSet(b)
    BY InToSet
  <1>3. x \in I
    <2> SUFFICES ASSUME x \notin I PROVE FALSE
      OBVIOUS
    <2>1. x \in Indices(b) \ D /\ At(b, x) = At(b, i)
      BY <1>1 DEF Follows, Stayed
    <2> QED BY <2>1 DEF Unique
  <1>4. x \in DOMAIN f
    BY <1>1, <1>2, <1>3 DEF Follows
  <1>5. f[x] \in Indices(b) /\ At(b, f[x]) = At(b, i)
    BY <1>1, <1>4 DEF Follows, Mapped
  <1> QED BY <1>4, <1>5 DEF Unique

LEMMA ParsedIs ==
    ASSUME NEW E, NEW b \in Seq(E), NEW t \in Seq(E), Unique(t), NEW D, NEW I, NEW f,
           Follows(D, I, f, b, t), NEW C, NEW c, c = Record(D, I, <<>>, f, C)
    PROVE  LET p == parse_complete(c)
               S == {k \in DOMAIN f : f[k] = k}
           IN  /\ p.deletions = D \ S /\ p.insertions = I \ S
               /\ ToSet(p.moves) = {Move(f[k], k) : k \in DOMAIN f \ S}
  <1> DEFINE p == parse_complete(c)
             S == {k \in DOMAIN f : f[k] = k}
             ms == {Move(f[k], k) : k \in DOMAIN f \ S}
  <1>1. c.deletions = D /\ c.insertions = I /\ c.mapping = f /\ c.moves = <<>>
    BY RecordIs
  <1>2. ToSet(c.moves) \cup ms = ms
    <2>1. ToSet(c.moves) = {}
      BY <1>1 DEF ToSet
    <2> QED BY <2>1
  <1>3. p = [c EXCEPT !.deletions = D \ S, !.insertions = I \ S, !.mapping = <<>>, !.moves = Sorted(ms)]
    <2> DEFINE same == {k \in DOMAIN c.mapping : c.mapping[k] = k}
               moved == {Move(c.mapping[k], k) : k \in DOMAIN c.mapping \ same}
    <2>1. p = [c EXCEPT !.deletions = c.deletions \ same, !.insertions = c.insertions \ same,
                        !.mapping = <<>>, !.moves = Sorted(ToSet(c.moves) \cup moved)]
      BY Zenon DEF parse_complete, Sorted
    <2>2. same = S /\ moved = ms
      BY <1>1
    <2> HIDE DEF p, same, moved, S, ms
    <2>3. ToSet(c.moves) \cup moved = ms
      BY <1>2, <2>2
    <2> QED BY <1>1, <2>1, <2>2, <2>3
  <1>4. D \in IndexSets /\ I \in IndexSets /\ DOMAIN f \subseteq I
    BY DEF Follows, Mapped
  <1>5. \A k \in DOMAIN f : k \in Nat /\ f[k] \in Nat
    <2>1. D \subseteq Nat /\ I \subseteq Nat
      BY <1>4, SetsAreFinite
    <2> QED BY <1>4, <2>1 DEF Follows, Mapped
  <1>6. ms \in SUBSET Moves /\ \A x, y \in ms : x.from = y.from => x = y
    BY <1>5, MapInjective DEF Move, Moves
  <1>7. IsFiniteSet(ms)
    <2> DEFINE h == [k \in DOMAIN f \ S |-> Move(f[k], k)]
    <2>1. IsFiniteSet(DOMAIN f \ S)
      BY <1>4, SetsAreFinite, FS_Subset
    <2>2. h \in Surjection(DOMAIN f \ S, ms)
      BY DEF Surjection
    <2> QED BY <2>1, <2>2, FS_Surjection
  <1>8. ToSet(Sorted(ms)) = ms
    BY <1>6, <1>7, SortedIs
  <1> HIDE DEF ms, S
  <1>9. p.deletions = D \ S /\ p.insertions = I \ S /\ p.moves = Sorted(ms)
    BY <1>3 DEF Record
  <1> HIDE DEF p
  <1> QED BY <1>8, <1>9 DEF p, S, ms

LEMMA ParseFollows ==
    ASSUME NEW E, NEW b \in Seq(E), NEW t \in Seq(E), Unique(b), Unique(t),
           NEW c, Tracked(c, b, t), NEW i \in Indices(b)
    PROVE  NewIndex(parse_complete(c), i) =
              IF At(b, i) \in ToSet(t) THEN IndexOf(t, At(b, i)) ELSE npos
  <1>1. PICK D, I, f, C : c = Record(D, I, <<>>, f, C) /\ Follows(D, I, f, b, t)
    BY TrackedParts
  <1> DEFINE p == parse_complete(c)
             S == {k \in DOMAIN f : f[k] = k}
             hits == {m \in ToSet(p.moves) : m.from = i}
  <1>2. /\ p.deletions = D \ S /\ p.insertions = I \ S
        /\ ToSet(p.moves) = {Move(f[k], k) : k \in DOMAIN f \ S}
    BY <1>1, ParsedIs
  <1> HIDE DEF p
  <1>3. /\ D \in IndexSets /\ I \in IndexSets /\ I \subseteq Indices(t)
        /\ Stayed(D, I, b, t) /\ Mapped(D, I, f, b, t)
    BY <1>1 DEF Follows
  <1>4. \A k \in DOMAIN f : /\ k \in I /\ k \in Indices(t) /\ f[k] \in D \cap Indices(b)
                            /\ At(t, k) = At(b, f[k])
    BY <1>3 DEF Mapped
  <1>5. CASE i \in D \ S
    <2>1. NewIndex(p, i) = IF hits = {} THEN npos ELSE (CHOOSE m \in hits : TRUE).to
      BY <1>2, <1>5 DEF NewIndex
    <2>2. CASE \E k \in DOMAIN f : f[k] = i
      <3>1. PICK k \in DOMAIN f : f[k] = i
        BY <2>2
      <3>2. k \notin S
        BY <1>5, <3>1
      <3>3. Move(f[k], k) \in hits
        BY <1>2, <3>1, <3>2 DEF Move
      <3>4. ASSUME NEW m \in hits PROVE m.to \in DOMAIN f /\ f[m.to] = i
        BY <1>2, <3>4 DEF Move
      <3> DEFINE x == (CHOOSE m \in hits : TRUE).to
      <3>5. x \in DOMAIN f /\ f[x] = i
        <4>1. (CHOOSE m \in hits : TRUE) \in hits
          BY <3>3
        <4> QED BY <3>4, <4>1
      <3>6. NewIndex(p, i) = x
        BY <2>1, <3>3
      <3> HIDE DEF x
      <3>7. x \in Indices(t) /\ At(t, x) = At(b, i)
        BY <1>4, <3>5
      <3>8. At(b, i) \in ToSet(t) /\ IndexOf(t, At(b, i)) = x
        BY <3>7, InToSet, IndexFound
      <3> QED BY <3>6, <3>8 DEF p
    <2>3. CASE ~ \E k \in DOMAIN f : f[k] = i
      <3>1. hits = {}
        BY <1>2, <2>3 DEF Move
      <3>2. At(b, i) \notin ToSet(t)
        BY <1>1, <1>5, <2>3, RowIsLeft
      <3> QED BY <2>1, <3>1, <3>2 DEF p
    <2> QED BY <2>2, <2>3
  <1>6. CASE i \notin D \ S
    <2>1. NewIndex(p, i) = shift(I \ S, unshift(D \ S, i))
      BY <1>2, <1>6 DEF NewIndex
    <2>2. i \in Indices(t) /\ i \notin I \ S /\ At(t, i) = At(b, i)
      <3>1. CASE i \in S
        BY <1>4, <3>1
      <3>2. CASE i \notin S
        BY <1>3, <1>6, <3>2 DEF Stayed
      <3> QED BY <3>1, <3>2
    <2>3. i \in Nat /\ i < Len(t) /\ i < Len(b) /\ Len(t) \in Nat /\ Len(b) \in Nat
      BY <2>2, IndexIs
    <2>4. ASSUME NEW x \in Nat, x < i PROVE x \in D \ S <=> x \in I \ S
      <3>1. x \in Indices(t) /\ x \in Indices(b)
        BY <2>3, <2>4, IndexIs
      <3> QED BY <1>3, <3>1 DEF Stayed
    <2>5. D \ S \in IndexSets /\ I \ S \in IndexSets
      <3>1. D \ S \in SUBSET D /\ I \ S \in SUBSET I
        OBVIOUS
      <3> QED BY <1>3, <3>1, PartOfSet
    <2> HIDE DEF S
    <2>6. shift(I \ S, unshift(D \ S, i)) = i
      BY <2>2, <2>3, <2>4, <2>5, StillThere
    <2>7. At(b, i) \in ToSet(t) /\ IndexOf(t, At(b, i)) = i
      BY <2>2, InToSet, IndexFound
    <2> QED BY <2>1, <2>6, <2>7 DEF p
  <1> QED BY <1>5, <1>6

-----------------------------------------------------------------------------
(* What the operations make of the columns, without the moves.             *)

AllColumns == Columns \cup {0}

(* The rows that were modified in a column, or in any.                     *)
RowsIn(fr, k) == {p[1] : p \in {q \in fr : k = 0 \/ q[2] = k}}

(* The columns C mark the rows in fr, of the rows t.                       *)
Marks(C, t, fr) ==
    /\ DOMAIN C = AllColumns
    /\ \A k \in AllColumns : \A x : x \in C[k] <=> x \in Indices(t) /\ At(t, x) \in RowsIn(fr, k)

Colored(c, t, fr) == \E C : HasCols(c, C) /\ Marks(C, t, fr)

LEMMA ColsIs ==
    ASSUME NEW c, NEW C, HasCols(c, C)
    PROVE  c.cols = C
BY DEF HasCols, Record

LEMMA PutColsIs ==
    ASSUME NEW c, NEW C, HasCols(c, C), NEW C1
    PROVE  HasCols([c EXCEPT !.cols = C1], C1)
  <1>1. PICK D, I, ms, f : c = Record(D, I, ms, f, C)
    BY DEF HasCols
  <1>2. [c EXCEPT !.cols = C1] = Record(D, I, ms, f, C1)
    BY <1>1 DEF Record
  <1> QED BY <1>2 DEF HasCols

KeepsCols(r, C) ==
    \E C1 : HasCols(r, C1) /\ DOMAIN C1 = DOMAIN C /\ \A k \in DOMAIN C : C1[k] = C[k]

MovedCols(C, row, last) ==
    [k \in DOMAIN C |-> IF row # last /\ last \in C[k] THEN (C[k] \ {last}) \cup {row}
                        ELSE C[k] \ {row}]

SwappedCols(C, one, two) ==
    [k \in DOMAIN C |-> IF (one \in C[k]) = (two \in C[k]) THEN C[k]
                        ELSE (C[k] \ {one, two}) \cup ({one, two} \ C[k])]

SubsumedCols(C, i, n) == [k \in DOMAIN C |-> IF i \in C[k] THEN C[k] \cup {n} ELSE C[k]]

ModifiedCols(C, i, col) == [k \in DOMAIN C |-> IF k \in {0, col} THEN C[k] \cup {i} ELSE C[k]]

LEMMA InsertCols ==
    ASSUME NEW c, NEW C, HasCols(c, C), NEW n \in Nat,
           \A k \in DOMAIN C : C[k] \in IndexSets /\ \A x \in C[k] : x < n
    PROVE  KeepsCols(insert(c, n, 1, FALSE), C)
  <1> DEFINE C1 == [k \in DOMAIN c.cols |-> shift_for_insert_at(c.cols[k], SpanOf(n, 1))]
  <1>1. insert(c, n, 1, FALSE) = [c EXCEPT !.cols = C1]
    BY DEF insert
  <1>2. c.cols = C
    BY ColsIs
  <1>3. SpanOf(n, 1) = {n}
    BY DEF SpanOf
  <1>4. ASSUME NEW k \in DOMAIN C PROVE shift_for_insert_at(C[k], {n}) = C[k]
    <2>1. C[k] \in IndexSets /\ C[k] \subseteq Nat /\ \A x \in C[k] : x < n
      BY SetsAreFinite
    <2>2. \A x \in C[k] : x <= n /\ x # n
      BY <2>1
    <2> QED BY <2>1, <2>2, LastIndex
  <1>5. DOMAIN C1 = DOMAIN C /\ \A k \in DOMAIN C : C1[k] = C[k]
    BY <1>2, <1>3, <1>4
  <1> HIDE DEF C1
  <1>6. HasCols(insert(c, n, 1, FALSE), C1)
    BY <1>1, PutColsIs
  <1> QED BY <1>5, <1>6 DEF KeepsCols

LEMMA ModifyCols ==
    ASSUME NEW c, NEW C, HasCols(c, C), NEW i, NEW col
    PROVE  HasCols(modify(c, i, col), ModifiedCols(C, i, col))
  <1>1. c.cols = C
    BY ColsIs
  <1>2. modify(c, i, col) =
           [c EXCEPT !.cols = [k \in DOMAIN c.cols |->
                                 IF k \in {0, col} THEN c.cols[k] \cup {i} ELSE c.cols[k]]]
    BY DEF modify
  <1>3. modify(c, i, col) = [c EXCEPT !.cols = ModifiedCols(C, i, col)]
    BY <1>1, <1>2 DEF ModifiedCols
  <1> QED BY <1>3, PutColsIs

LEMMA MoveOverCols ==
    ASSUME NEW c, NEW C, HasCols(c, C), NEW row, NEW last
    PROVE  HasCols(move_over(c, row, last, FALSE), MovedCols(C, row, last))
  <1> DEFINE C1 == [k \in DOMAIN C |-> IF last \in C[k] THEN (C[k] \ {last}) \cup {row} ELSE C[k] \ {row}]
             C2 == [k \in DOMAIN C |-> C[k] \ {row}]
             C3 == MovedCols(C, row, last)
  <1>1. c.cols = C
    BY ColsIs
  <1>2. CASE row = last
    <2>1. move_over(c, row, last, FALSE) = [c EXCEPT !.cols = C2, !.mapping = c.mapping]
      BY <1>1, <1>2 DEF move_over
    <2>2. C3 = C2
      BY <1>2 DEF MovedCols
    <2>3. PICK D, I, ms, f : c = Record(D, I, ms, f, C)
      BY DEF HasCols
    <2> HIDE DEF C2, C3
    <2>4. move_over(c, row, last, FALSE) = Record(D, I, ms, f, C3)
      BY <2>1, <2>2, <2>3 DEF Record
    <2> QED BY <2>4 DEF HasCols, C3
  <1>3. CASE row # last
    <2>1. move_over(c, row, last, FALSE) = [c EXCEPT !.cols = C1]
      BY <1>1, <1>3 DEF move_over
    <2>2. C3 = C1
      BY <1>3 DEF MovedCols
    <2> HIDE DEF C1, C3
    <2>3. HasCols(move_over(c, row, last, FALSE), C3)
      BY <2>1, <2>2, PutColsIs
    <2> QED BY <2>3 DEF C3
  <1> QED BY <1>2, <1>3

LEMMA SwapCols ==
    ASSUME NEW c, NEW C, HasCols(c, C), NEW one, NEW two
    PROVE  HasCols(swap(c, one, two, FALSE), SwappedCols(C, one, two))
  <1>1. c.cols = C
    BY ColsIs
  <1>2. swap(c, one, two, FALSE) =
           [c EXCEPT !.cols = [k \in DOMAIN c.cols |->
              IF (one \in c.cols[k]) = (two \in c.cols[k]) THEN c.cols[k]
              ELSE (c.cols[k] \ {one, two}) \cup ({one, two} \ c.cols[k])]]
    BY DEF swap
  <1>3. swap(c, one, two, FALSE) = [c EXCEPT !.cols = SwappedCols(C, one, two)]
    BY <1>1, <1>2 DEF SwappedCols
  <1> QED BY <1>3, PutColsIs

LEMMA SubsumeCols ==
    ASSUME NEW c, NEW C, HasCols(c, C), NEW i, NEW n
    PROVE  HasCols(subsume(c, i, n, FALSE), SubsumedCols(C, i, n))
  <1>1. c.cols = C
    BY ColsIs
  <1>2. subsume(c, i, n, FALSE) =
           [c EXCEPT !.cols = [k \in DOMAIN c.cols |->
                                 IF i \in c.cols[k] THEN c.cols[k] \cup {n} ELSE c.cols[k]]]
    BY DEF subsume
  <1>3. subsume(c, i, n, FALSE) = [c EXCEPT !.cols = SubsumedCols(C, i, n)]
    BY <1>1, <1>2 DEF SubsumedCols
  <1> QED BY <1>3, PutColsIs

(* The columns go on marking the modified rows.                            *)
LEMMA InRows ==
    ASSUME NEW fr, NEW k, NEW y
    PROVE  y \in RowsIn(fr, k) <=> \E p \in fr : p[1] = y /\ (k = 0 \/ p[2] = k)
BY DEF RowsIn

LEMMA NoneColored ==
    ASSUME NEW t
    PROVE  Colored(None, t, {})
  <1> DEFINE C == [k \in AllColumns |-> {}]
  <1>1. None = Record({}, {}, <<>>, <<>>, C)
    BY DEF None, NoChange, Record, AllColumns
  <1>2. Marks(C, t, {})
    BY InRows DEF Marks
  <1> HIDE DEF C
  <1> QED BY <1>1, <1>2 DEF Colored, HasCols

LEMMA ClearColored ==
    ASSUME NEW c, NEW t, NEW fr, Colored(c, t, fr), NEW all
    PROVE  Colored(clear(c, npos, all), <<>>, {})
  <1>1. PICK C0 : HasCols(c, C0) /\ Marks(C0, t, fr)
    BY DEF Colored
  <1> DEFINE C == [k \in (DOMAIN c.cols) \cup {0} |-> {}]
             S == SpanOf(0, all)
  <1>2. clear(c, npos, all) = [NoChange(DOMAIN c.cols) EXCEPT !.deletions = S]
    BY DEF clear
  <1>3. clear(c, npos, all) = Record(S, {}, <<>>, <<>>, C)
    BY <1>2 DEF NoChange, Record
  <1>4. DOMAIN c.cols = AllColumns
    BY <1>1, ColsIs DEF Marks
  <1>5. Marks(C, <<>>, {})
    BY <1>4, InRows DEF Marks, Indices, AllColumns
  <1> HIDE DEF C, S
  <1> QED BY <1>3, <1>5 DEF Colored, HasCols

LEMMA MarksFinite ==
    ASSUME NEW E, NEW t \in Seq(E), NEW fr, NEW C, Marks(C, t, fr), NEW n \in Nat, n = Len(t)
    PROVE  \A k \in DOMAIN C : C[k] \in IndexSets /\ \A x \in C[k] : x < n
  <1> TAKE k \in DOMAIN C
  <1>1. C[k] \in SUBSET Indices(t)
    BY DEF Marks
  <1>2. Indices(t) \in IndexSets /\ \A x \in Indices(t) : x < n
    BY IndicesAre, IndexIs
  <1> QED BY <1>1, <1>2, PartOfSet

LEMMA ModifyColored ==
    ASSUME NEW E, NEW t \in Seq(E), Unique(t), NEW c, NEW fr, Colored(c, t, fr),
           NEW i \in Indices(t), NEW col \in Columns
    PROVE  Colored(modify(c, i, col), t, fr \cup {<<At(t, i), col>>})
  <1>1. PICK C : HasCols(c, C) /\ Marks(C, t, fr)
    BY DEF Colored
  <1> DEFINE C1 == ModifiedCols(C, i, col)
             e == At(t, i)
             fr1 == fr \cup {<<e, col>>}
  <1>2. HasCols(modify(c, i, col), C1)
    BY <1>1, ModifyCols
  <1>3. ASSUME NEW k, NEW y
        PROVE  y \in RowsIn(fr1, k) <=> y \in RowsIn(fr, k) \/ (y = e /\ k \in {0, col})
    <2>1. /\ y \in RowsIn(fr1, k) <=> \E p \in fr1 : p[1] = y /\ (k = 0 \/ p[2] = k)
          /\ y \in RowsIn(fr, k) <=> \E p \in fr : p[1] = y /\ (k = 0 \/ p[2] = k)
      BY InRows
    <2>2. /\ \A p : p \in fr1 <=> p \in fr \/ p = <<e, col>>
          /\ <<e, col>>[1] = e /\ <<e, col>>[2] = col
      OBVIOUS
    <2>3. k \in {0, col} <=> k = 0 \/ col = k
      OBVIOUS
    <2> DEFINE q == <<e, col>>
    <2>4. q[1] = e /\ q[2] = col /\ \A p : p \in fr1 <=> p \in fr \/ p = q
      BY <2>2
    <2> HIDE DEF e, fr1, q
    <2> QED BY <2>1, <2>3, <2>4
  <1>4. \A x \in Indices(t) : At(t, x) = e <=> x = i
    BY DEF Unique
  <1>5. DOMAIN C = AllColumns
    BY <1>1 DEF Marks
  <1>6. ASSUME NEW k \in AllColumns, NEW x
        PROVE  x \in C1[k] <=> x \in Indices(t) /\ At(t, x) \in RowsIn(fr1, k)
    <2>1. x \in C[k] <=> x \in Indices(t) /\ At(t, x) \in RowsIn(fr, k)
      BY <1>1 DEF Marks
    <2>2. x \in C1[k] <=> x \in C[k] \/ (x = i /\ k \in {0, col})
      BY <1>5 DEF ModifiedCols
    <2> HIDE DEF C1, e, fr1
    <2> QED BY <1>3, <1>4, <2>1, <2>2
  <1>7. Marks(C1, t, fr1)
    <2>1. DOMAIN C1 = AllColumns
      BY <1>5 DEF ModifiedCols
    <2> HIDE DEF C1, fr1
    <2> QED BY <2>1, <1>6 DEF Marks
  <1> HIDE DEF C1
  <1> QED BY <1>2, <1>7 DEF Colored

LEMMA InsertColored ==
    ASSUME NEW E, NEW t \in Seq(E), NEW c, NEW fr, Colored(c, t, fr),
           NEW post \in Seq(E), NEW n \in Nat, n = Len(t), Len(post) = n + 1,
           \A x \in Indices(t) : At(post, x) = At(t, x),
           \A p \in fr : p[1] # At(post, n)
    PROVE  Colored(insert(c, n, 1, FALSE), post, fr)
  <1>1. PICK C : HasCols(c, C) /\ Marks(C, t, fr)
    BY DEF Colored
  <1>2. PICK C1 : /\ HasCols(insert(c, n, 1, FALSE), C1) /\ DOMAIN C1 = DOMAIN C
                  /\ \A k \in DOMAIN C : C1[k] = C[k]
    <2>1. \A k \in DOMAIN C : C[k] \in IndexSets /\ \A x \in C[k] : x < n
      BY <1>1, MarksFinite
    <2>2. KeepsCols(insert(c, n, 1, FALSE), C)
      BY <1>1, <2>1, InsertCols
    <2> QED BY <2>2 DEF KeepsCols
  <1>3. \A x : x \in Indices(post) <=> x \in Indices(t) \/ x = n
    <2>1. /\ \A x : x \in Indices(t) <=> x \in Nat /\ x < n
          /\ \A x : x \in Indices(post) <=> x \in Nat /\ x < n + 1
      BY IndexIs
    <2> QED BY <2>1
  <1>4. \A k : At(post, n) \notin RowsIn(fr, k)
    BY InRows
  <1>5. Marks(C1, post, fr)
    <2>1. DOMAIN C = AllColumns
      BY <1>1 DEF Marks
    <2>2. ASSUME NEW k \in AllColumns, NEW x
          PROVE  x \in C1[k] <=> x \in Indices(post) /\ At(post, x) \in RowsIn(fr, k)
      <3>1. x \in C1[k] <=> x \in Indices(t) /\ At(t, x) \in RowsIn(fr, k)
        BY <1>1, <1>2, <2>1 DEF Marks
      <3> QED BY <1>3, <1>4, <3>1
    <2> QED BY <1>2, <2>1, <2>2 DEF Marks
  <1> QED BY <1>2, <1>5 DEF Colored

LEMMA MoveOverColored ==
    ASSUME NEW E, NEW t \in Seq(E), NEW c, NEW fr, Colored(c, t, fr),
           NEW last \in Nat, Len(t) = last + 1, NEW row \in Nat, row <= last,
           NEW post \in Seq(E), Len(post) = last,
           \A x \in Indices(post) : At(post, x) = IF x = row THEN At(t, last) ELSE At(t, x)
    PROVE  Colored(move_over(c, row, last, FALSE), post, Keep(fr, post))
  <1>1. PICK C : HasCols(c, C) /\ Marks(C, t, fr)
    BY DEF Colored
  <1> DEFINE C1 == MovedCols(C, row, last)
  <1>2. HasCols(move_over(c, row, last, FALSE), C1)
    BY <1>1, MoveOverCols
  <1>3. /\ \A x : x \in Indices(post) <=> x \in Indices(t) /\ x # last
        /\ last \in Indices(t) /\ row \in Indices(t)
    <2>1. /\ \A x : x \in Indices(t) <=> x \in Nat /\ x < last + 1
          /\ \A x : x \in Indices(post) <=> x \in Nat /\ x < last
      BY IndexIs
    <2> QED BY <2>1
  <1>4. DOMAIN C = AllColumns
    BY <1>1 DEF Marks
  <1>5. ASSUME NEW k, NEW x \in Indices(post)
        PROVE  At(post, x) \in RowsIn(Keep(fr, post), k) <=> At(post, x) \in RowsIn(fr, k)
    <2>1. At(post, x) \in ToSet(post)
      BY InToSet
    <2>2. \A p : p \in Keep(fr, post) <=> p \in fr /\ p[1] \in ToSet(post)
      BY DEF Keep
    <2> QED BY <2>1, <2>2, InRows
  <1>6. ASSUME NEW k \in AllColumns, NEW x
        PROVE  x \in C1[k] <=> x \in Indices(post) /\ At(post, x) \in RowsIn(Keep(fr, post), k)
    <2>1. \A y : y \in C[k] <=> y \in Indices(t) /\ At(t, y) \in RowsIn(fr, k)
      BY <1>1 DEF Marks
    <2>2. C1[k] = IF row # last /\ last \in C[k] THEN (C[k] \ {last}) \cup {row} ELSE C[k] \ {row}
      BY <1>4 DEF MovedCols
    <2> HIDE DEF C1
    <2>3. CASE x = row
      BY <1>3, <1>5, <2>1, <2>2, <2>3
    <2>4. CASE x # row
      <3>1. x \in C1[k] <=> x \in C[k] /\ x # last
        <4>1. CASE row = last
          <5>1. C1[k] = C[k] \ {row}
            BY <2>2, <4>1
          <5> QED BY <2>4, <4>1, <5>1
        <4>2. CASE row # last
          BY <2>2, <2>4, <4>2
        <4> QED BY <4>1, <4>2
      <3> QED BY <1>3, <1>5, <2>1, <2>4, <3>1
    <2> QED BY <2>3, <2>4
  <1>7. Marks(C1, post, Keep(fr, post))
    <2>1. DOMAIN C1 = AllColumns
      BY <1>4 DEF MovedCols
    <2> HIDE DEF C1
    <2> QED BY <2>1, <1>6 DEF Marks
  <1> HIDE DEF C1
  <1> QED BY <1>2, <1>7 DEF Colored

LEMMA SwapColored ==
    ASSUME NEW E, NEW t \in Seq(E), NEW c, NEW fr, Colored(c, t, fr),
           NEW one \in Indices(t), NEW two \in Indices(t),
           NEW post, Indices(post) = Indices(t),
           \A x \in Indices(t) : At(post, x) = IF x = one THEN At(t, two)
                                               ELSE IF x = two THEN At(t, one) ELSE At(t, x)
    PROVE  Colored(swap(c, one, two, FALSE), post, fr)
  <1>1. PICK C : HasCols(c, C) /\ Marks(C, t, fr)
    BY DEF Colored
  <1> DEFINE C1 == SwappedCols(C, one, two)
  <1>2. HasCols(swap(c, one, two, FALSE), C1)
    BY <1>1, SwapCols
  <1>3. DOMAIN C = AllColumns /\ DOMAIN C1 = AllColumns
    BY <1>1 DEF Marks, SwappedCols
  <1>4. ASSUME NEW k \in AllColumns, NEW x
        PROVE  x \in C1[k] <=> x \in Indices(post) /\ At(post, x) \in RowsIn(fr, k)
    <2>1. \A y : y \in C[k] <=> y \in Indices(t) /\ At(t, y) \in RowsIn(fr, k)
      BY <1>1 DEF Marks
    <2>2. C1[k] = IF (one \in C[k]) = (two \in C[k]) THEN C[k]
                  ELSE (C[k] \ {one, two}) \cup ({one, two} \ C[k])
      BY <1>3 DEF SwappedCols
    <2> HIDE DEF C1
    <2>3. CASE (one \in C[k]) = (two \in C[k])
      <3>1. C1[k] = C[k]
        BY <2>2, <2>3
      <3> QED BY <2>1, <2>3, <3>1
    <2>4. CASE (one \in C[k]) # (two \in C[k])
      <3>1. C1[k] = (C[k] \ {one, two}) \cup ({one, two} \ C[k])
        BY <2>2, <2>4
      <3>2. x \in C1[k] <=> IF x = one THEN two \in C[k] ELSE IF x = two THEN one \in C[k] ELSE x \in C[k]
        BY <2>4, <3>1
      <3> QED BY <2>1, <3>2
    <2> QED BY <2>3, <2>4
  <1> HIDE DEF C1
  <1>5. Marks(C1, post, fr)
    BY <1>3, <1>4 DEF Marks
  <1> QED BY <1>2, <1>5 DEF Colored

LEMMA MergeColored ==
    ASSUME NEW E, NEW t \in Seq(E), NEW c, NEW fr, Colored(c, t, fr),
           NEW n \in Nat, n = Len(t), NEW i \in Indices(t)
    PROVE  Colored(move_over(subsume(insert(c, n, 1, FALSE), i, n, FALSE), i, n, FALSE), t, fr)
  <1>1. PICK C : HasCols(c, C) /\ Marks(C, t, fr)
    BY DEF Colored
  <1>2. \A k \in DOMAIN C : C[k] \in IndexSets /\ \A x \in C[k] : x < n
    BY <1>1, MarksFinite
  <1>3. PICK C1 : /\ HasCols(insert(c, n, 1, FALSE), C1) /\ DOMAIN C1 = DOMAIN C
                  /\ \A k \in DOMAIN C : C1[k] = C[k]
    <2>1. KeepsCols(insert(c, n, 1, FALSE), C)
      BY <1>1, <1>2, InsertCols
    <2> QED BY <2>1 DEF KeepsCols
  <1> DEFINE C2 == SubsumedCols(C1, i, n)
             C3 == MovedCols(C2, i, n)
             c1 == insert(c, n, 1, FALSE)
             c2 == subsume(c1, i, n, FALSE)
             c3 == move_over(c2, i, n, FALSE)
  <1>4. HasCols(c2, C2)
    <2> HIDE DEF c1
    <2> QED BY <1>3, SubsumeCols DEF c1
  <1>5. HasCols(c3, C3)
    <2> HIDE DEF c2, C2
    <2> QED BY <1>4, MoveOverCols
  <1>6. DOMAIN C = AllColumns /\ DOMAIN C1 = AllColumns /\ DOMAIN C2 = AllColumns /\ DOMAIN C3 = AllColumns
    BY <1>1, <1>3 DEF Marks, SubsumedCols, MovedCols
  <1>7. i # n /\ \A k \in AllColumns : n \notin C[k]
    <2>1. i \in Nat /\ i < n
      BY IndexIs
    <2>2. \A k \in AllColumns : C[k] \subseteq Nat
      BY <1>2, <1>6, SetsAreFinite
    <2> QED BY <1>2, <1>6, <2>1, <2>2
  <1>8. ASSUME NEW k \in AllColumns, NEW x PROVE x \in C3[k] <=> x \in C[k]
    <2>1. C1[k] = C[k]
      BY <1>3, <1>6
    <2>2. C2[k] = IF i \in C[k] THEN C[k] \cup {n} ELSE C[k]
      BY <1>6, <2>1 DEF SubsumedCols
    <2>3. C3[k] = IF n \in C2[k] THEN (C2[k] \ {n}) \cup {i} ELSE C2[k] \ {i}
      BY <1>6, <1>7 DEF MovedCols
    <2> HIDE DEF C2, C3
    <2> QED BY <1>7, <2>2, <2>3
  <1>9. Marks(C3, t, fr)
    <2> HIDE DEF C3
    <2> QED BY <1>1, <1>6, <1>8 DEF Marks
  <1> HIDE DEF C3
  <1> QED BY <1>5, <1>9 DEF Colored

(* A row is added, with its columns.                                       *)
LEMMA AddedColored ==
    ASSUME NEW E, NEW t \in Seq(E), NEW c, NEW fr, Colored(c, t, fr),
           NEW post \in Seq(E), Unique(post), NEW n \in Nat, n = Len(t), Len(post) = n + 1,
           \A x \in Indices(t) : At(post, x) = At(t, x),
           NEW e, At(post, n) = e, \A p \in fr : p[1] # e,
           NEW all, all = fr \cup {e} \X Columns
    PROVE  Colored(modify(modify(insert(c, n, 1, FALSE), n, 1), n, 2), post, all)
  <1> DEFINE c1 == insert(c, n, 1, FALSE)
             c2 == modify(c1, n, 1)
             fr1 == fr \cup {<<e, 1>>}
             fr2 == fr1 \cup {<<e, 2>>}
  <1>1. Colored(c1, post, fr)
    BY InsertColored
  <1>2. n \in Indices(post)
    BY IndexIs
  <1>3. 1 \in Columns /\ 2 \in Columns
    BY DEF Columns
  <1>4. Colored(c2, post, fr1)
    <2> HIDE DEF c1
    <2> QED BY <1>1, <1>2, <1>3, ModifyColored
  <1>5. Colored(modify(c2, n, 2), post, fr2)
    <2> HIDE DEF c2, fr1
    <2> QED BY <1>2, <1>3, <1>4, ModifyColored
  <1>6. fr2 = all
    <2>1. {e} \X Columns = {<<e, 1>>, <<e, 2>>}
      BY DEF Columns
    <2> QED BY <2>1
  <1> QED BY <1>5, <1>6

-----------------------------------------------------------------------------
(* The rows after each operation.                                          *)

LEMMA RowLeft ==
    ASSUME NEW s, NEW t, IsTable(s), IsTable(t)
    PROVE  LET U == (1..MaxRows \cup ToSet(s)) \cup ToSet(t)
           IN  Min(Names \ U) \in Names \ U
  <1> DEFINE V == 1..MaxRows \cup ToSet(s)
             U == V \cup ToSet(t)
  <1>1. MaxRows \in Nat
    BY ResultsAssumption
  <1>2. IsFiniteSet(Names) /\ Cardinality(Names) = 3 * MaxRows + 1 /\ Names \subseteq Nat
    <2>1. PICK n \in Nat : n = 3 * MaxRows + 1
      BY <1>1
    <2>2. IsFiniteSet(1..n) /\ Cardinality(1..n) = IF 1 > n THEN 0 ELSE n - 1 + 1
      BY FS_Interval
    <2>3. Cardinality(1..n) = n /\ 1..n \subseteq Nat
      BY <2>2
    <2> QED BY <2>1, <2>2, <2>3 DEF Names
  <1>3. IsFiniteSet(1..MaxRows) /\ Cardinality(1..MaxRows) = MaxRows
    <2>1. IsFiniteSet(1..MaxRows) /\ Cardinality(1..MaxRows) = IF 1 > MaxRows THEN 0 ELSE MaxRows - 1 + 1
      BY <1>1, FS_Interval
    <2> QED BY <1>1, <2>1
  <1>4. /\ IsFiniteSet(ToSet(s)) /\ Cardinality(ToSet(s)) \in Nat /\ Cardinality(ToSet(s)) <= MaxRows
        /\ IsFiniteSet(ToSet(t)) /\ Cardinality(ToSet(t)) \in Nat /\ Cardinality(ToSet(t)) <= MaxRows
    <2>1. s \in Seq(Names) /\ t \in Seq(Names) /\ Len(s) <= MaxRows /\ Len(t) <= MaxRows
      BY DEF IsTable
    <2>2. PICK m \in Nat, n \in Nat : m = Len(s) /\ n = Len(t)
      BY <2>1, LenProperties
    <2>3. /\ IsFiniteSet(ToSet(s)) /\ Cardinality(ToSet(s)) \in Nat /\ Cardinality(ToSet(s)) <= m
          /\ IsFiniteSet(ToSet(t)) /\ Cardinality(ToSet(t)) \in Nat /\ Cardinality(ToSet(t)) <= n
      BY <2>1, <2>2, FewEntries
    <2> QED BY <1>1, <2>1, <2>2, <2>3
  <1>5. IsFiniteSet(V) /\ Cardinality(V) \in Nat /\ Cardinality(V) <= 2 * MaxRows
    <2>1. IsFiniteSet(1..MaxRows \cap ToSet(s)) /\ Cardinality(1..MaxRows \cap ToSet(s)) \in Nat
      BY <1>4, FS_Subset, FS_CardinalityType
    <2>2. /\ IsFiniteSet(V)
          /\ Cardinality(V) = Cardinality(1..MaxRows) + Cardinality(ToSet(s)) - Cardinality(1..MaxRows \cap ToSet(s))
      BY <1>3, <1>4, FS_Union
    <2>3. Cardinality(V) \in Nat
      BY <2>2, FS_CardinalityType
    <2> HIDE DEF V
    <2> QED BY <1>1, <1>3, <1>4, <2>1, <2>2, <2>3
  <1> HIDE DEF V
  <1>6. IsFiniteSet(U) /\ Cardinality(U) \in Nat /\ Cardinality(U) <= 3 * MaxRows
    <2>1. IsFiniteSet(V \cap ToSet(t)) /\ Cardinality(V \cap ToSet(t)) \in Nat
      BY <1>4, FS_Subset, FS_CardinalityType
    <2>2. /\ IsFiniteSet(U)
          /\ Cardinality(U) = Cardinality(V) + Cardinality(ToSet(t)) - Cardinality(V \cap ToSet(t))
      BY <1>4, <1>5, FS_Union
    <2>3. Cardinality(U) \in Nat
      BY <2>2, FS_CardinalityType
    <2> HIDE DEF U
    <2> QED BY <1>1, <1>4, <1>5, <2>1, <2>2, <2>3
  <1> HIDE DEF U
  <1>7. Names \ U # {}
    <2> SUFFICES ASSUME Names \ U = {} PROVE FALSE
      OBVIOUS
    <2>1. Names \subseteq U
      OBVIOUS
    <2>2. Cardinality(Names) <= Cardinality(U)
      BY <1>6, <2>1, FS_Subset
    <2> QED BY <1>1, <1>2, <1>6, <2>2
  <1>8. Names \ U \in SUBSET Nat
    BY <1>2
  <1> QED BY <1>7, <1>8, MinIs DEF U, V

LEMMA TableParts ==
    ASSUME NEW t, IsTable(t)
    PROVE  t \in Seq(Names) /\ Unique(t) /\ Len(t) \in Nat /\ Len(t) <= MaxRows /\ ToSet(t) \subseteq Names
  <1>1. t \in Seq(Names) /\ Unique(t) /\ Len(t) <= MaxRows
    BY DEF IsTable
  <1> QED BY <1>1, LenProperties DEF ToSet

AppendedTo(t, n, e, post) ==
    /\ IsTable(post) /\ Len(post) = n + 1 /\ At(post, n) = e
    /\ \A x \in Indices(t) : At(post, x) = At(t, x)
    /\ ToSet(post) = ToSet(t) \cup {e}

LEMMA AppendTable ==
    ASSUME NEW t, IsTable(t), NEW n \in Nat, n = Len(t), n < MaxRows, NEW e \in Names, e \notin ToSet(t),
           NEW post, post = Append(t, e)
    PROVE  AppendedTo(t, n, e, post)
  <1>1. t \in Seq(Names) /\ Unique(t)
    BY DEF IsTable
  <1>2. /\ post \in Seq(Names) /\ Len(post) = n + 1 /\ post[n + 1] = e
        /\ \A i \in 1..n : post[i] = t[i]
    BY <1>1
  <1>3. /\ \A x : x \in Indices(t) <=> x \in Nat /\ x < n
        /\ \A x : x \in Indices(post) <=> x \in Nat /\ x < n + 1
    BY <1>1, <1>2, IndexIs
  <1>4. At(post, n) = e /\ \A x \in Indices(t) : At(post, x) = At(t, x)
    BY <1>2, <1>3 DEF At
  <1>5. \A x : x \in Indices(post) <=> x \in Indices(t) \/ x = n
    BY <1>3
  <1>6. \A x \in Indices(t) : At(t, x) # e
    BY <1>1, InToSet
  <1>7. Unique(post)
    BY <1>1, <1>4, <1>5, <1>6 DEF Unique
  <1>8. /\ \A y : y \in ToSet(t) <=> \E x \in Indices(t) : At(t, x) = y
        /\ \A y : y \in ToSet(post) <=> \E x \in Indices(post) : At(post, x) = y
    BY <1>1, <1>2, EntriesAre
  <1>9. \A y : y \in ToSet(post) <=> y \in ToSet(t) \cup {e}
    BY <1>4, <1>5, <1>8
  <1>10. MaxRows \in Nat
    BY ResultsAssumption
  <1> QED BY <1>2, <1>4, <1>7, <1>9, <1>10 DEF IsTable, AppendedTo

MovedInto(t, last, row, post) ==
    /\ IsTable(post) /\ Len(post) = last
    /\ \A x \in Indices(post) : At(post, x) = IF x = row THEN At(t, last) ELSE At(t, x)

LEMMA LastOverTable ==
    ASSUME NEW t, IsTable(t), NEW last \in Nat, Len(t) = last + 1, NEW row \in Nat, row <= last,
           NEW post, post = LastOver(t, row)
    PROVE  MovedInto(t, last, row, post)
  <1>1. t \in Seq(Names) /\ Unique(t) /\ last + 1 <= MaxRows /\ MaxRows \in Nat
    BY ResultsAssumption DEF IsTable
  <1> DEFINE u == [t EXCEPT ![row + 1] = Last(t)]
  <1>2. Last(t) = t[last + 1] /\ DOMAIN t = 1..(last + 1) /\ Last(t) \in Names
    BY <1>1, LenProperties DEF Last
  <1>3. u \in Seq(Names) /\ Len(u) = last + 1
    BY <1>1, <1>2
  <1>4. \A j \in 1..(last + 1) : u[j] = IF j = row + 1 THEN t[last + 1] ELSE t[j]
    BY <1>2
  <1>5. post = Front(u)
    BY DEF LastOver
  <1> HIDE DEF u
  <1>6. post \in Seq(Names) /\ Len(post) = last /\ \A j \in 1..last : post[j] = u[j]
    <2>1. IsFront(Names, u, last + 1, Front(u))
      BY <1>3, FrontIs
    <2>2. (last + 1) - 1 = last
      OBVIOUS
    <2> QED BY <1>5, <2>1, <2>2 DEF IsFront
  <1>7. /\ \A x : x \in Indices(t) <=> x \in Nat /\ x < last + 1
        /\ \A x : x \in Indices(post) <=> x \in Nat /\ x < last
    BY <1>1, <1>6, IndexIs
  <1>8. ASSUME NEW x \in Indices(post)
        PROVE  At(post, x) = IF x = row THEN At(t, last) ELSE At(t, x)
    <2>1. x \in Nat /\ x < last
      BY <1>7
    <2>2. x + 1 \in 1..last /\ x + 1 \in 1..(last + 1) /\ (x + 1 = row + 1 <=> x = row)
      BY <2>1
    <2> QED BY <1>4, <1>6, <2>2 DEF At
  <1>9. Unique(post)
    <2> SUFFICES ASSUME NEW x \in Indices(post), NEW y \in Indices(post), At(post, x) = At(post, y)
                 PROVE  x = y
      BY DEF Unique
    <2> DEFINE X == IF x = row THEN last ELSE x
               Y == IF y = row THEN last ELSE y
    <2>1. X \in Indices(t) /\ Y \in Indices(t) /\ At(t, X) = At(t, Y)
      BY <1>7, <1>8
    <2>2. X = Y
      BY <1>1, <2>1 DEF Unique
    <2>3. x < last /\ y < last /\ x \in Nat /\ y \in Nat
      BY <1>7
    <2> QED BY <2>2, <2>3
  <1> QED BY <1>1, <1>6, <1>8, <1>9 DEF IsTable, MovedInto

LEMMA SequenceOf ==
    ASSUME NEW S, NEW n \in Nat, NEW f \in [1..n -> S]
    PROVE  f \in Seq(S) /\ Len(f) = n
OBVIOUS

SwappedIn(t, i, j, post) ==
    /\ IsTable(post) /\ Len(post) = Len(t) /\ Indices(post) = Indices(t) /\ ToSet(post) = ToSet(t)
    /\ \A x \in Indices(t) : At(post, x) = IF x = i THEN At(t, j) ELSE IF x = j THEN At(t, i) ELSE At(t, x)

LEMMA SwapTable ==
    ASSUME NEW t, IsTable(t), NEW i \in Indices(t), NEW j \in Indices(t), i < j,
           NEW post, post = [t EXCEPT ![i + 1] = At(t, j), ![j + 1] = At(t, i)]
    PROVE  SwappedIn(t, i, j, post)
  <1>1. t \in Seq(Names) /\ Unique(t)
    BY DEF IsTable
  <1>2. PICK n \in Nat : n = Len(t) /\ DOMAIN t = 1..n
    BY <1>1, LenProperties
  <1>3. \A x : x \in Indices(t) <=> x \in Nat /\ x < n
    BY <1>1, <1>2, IndexIs
  <1>4. At(t, i) \in Names /\ At(t, j) \in Names
    <2>1. i + 1 \in 1..n /\ j + 1 \in 1..n
      BY <1>3
    <2> QED BY <1>1, <1>2, <2>1 DEF At
  <1>5. post \in Seq(Names) /\ Len(post) = n
    <2> DEFINE a == At(t, i)
               b == At(t, j)
               k == i + 1
               l == j + 1
               u == [t EXCEPT ![k] = b]
    <2>1. t \in [1..n -> Names] /\ a \in Names /\ b \in Names
      BY <1>1, <1>2, <1>4
    <2>2. post = [u EXCEPT ![l] = a]
      OBVIOUS
    <2> HIDE DEF a, b, k, l
    <2>3. u \in [1..n -> Names]
      BY <2>1
    <2> HIDE DEF u
    <2>4. post \in [1..n -> Names]
      BY <2>1, <2>2, <2>3
    <2> QED BY <2>4, SequenceOf
  <1>6. Indices(post) = Indices(t)
    BY <1>2, <1>5 DEF Indices
  <1>7. ASSUME NEW x \in Indices(t)
        PROVE  At(post, x) = IF x = i THEN At(t, j) ELSE IF x = j THEN At(t, i) ELSE At(t, x)
    <2>1. x \in Nat /\ i \in Nat /\ j \in Nat /\ x + 1 \in DOMAIN t
      BY <1>2, <1>3
    <2>2. (x + 1 = i + 1 <=> x = i) /\ (x + 1 = j + 1 <=> x = j)
      BY <2>1
    <2>3. post[x + 1] = IF x + 1 = j + 1 THEN At(t, i) ELSE IF x + 1 = i + 1 THEN At(t, j) ELSE t[x + 1]
      BY <2>1
    <2>4. i # j
      BY <2>1
    <2> QED BY <2>2, <2>3, <2>4 DEF At
  <1>8. Unique(post)
    <2> SUFFICES ASSUME NEW x \in Indices(t), NEW y \in Indices(t), At(post, x) = At(post, y)
                 PROVE  x = y
      BY <1>6 DEF Unique
    <2> DEFINE S(z) == IF z = i THEN j ELSE IF z = j THEN i ELSE z
    <2>1. At(post, x) = At(t, S(x)) /\ At(post, y) = At(t, S(y))
      BY <1>7
    <2>2. S(x) = S(y)
      BY <1>1, <2>1 DEF Unique
    <2> QED BY <2>2
  <1>9. \A y : y \in ToSet(post) <=> y \in ToSet(t)
    <2>1. /\ \A y : y \in ToSet(t) <=> \E x \in Indices(t) : At(t, x) = y
          /\ \A y : y \in ToSet(post) <=> \E x \in Indices(t) : At(post, x) = y
      BY <1>1, <1>5, <1>6, EntriesAre
    <2> QED BY <1>7, <2>1
  <1> QED BY <1>1, <1>2, <1>5, <1>6, <1>7, <1>8, <1>9 DEF IsTable, SwappedIn

(* The names start over.                                                   *)
LEMMA NamedTable ==
    ASSUME NEW n \in Nat, n <= MaxRows, NEW t, t = [i \in 1..n |-> i]
    PROVE  IsTable(t) /\ Len(t) = n
  <1>1. MaxRows \in Nat
    BY ResultsAssumption
  <1>2. \A i \in 1..n : i \in 1..(3 * MaxRows + 1)
    BY <1>1
  <1>3. t \in Seq(Names) /\ Len(t) = n
    BY <1>2 DEF Names
  <1>4. Unique(t)
    <2>1. \A x \in Indices(t) : At(t, x) = x + 1 /\ x \in Nat
      BY <1>3 DEF At, Indices
    <2> QED BY <2>1 DEF Unique
  <1> QED BY <1>3, <1>4 DEF IsTable

-----------------------------------------------------------------------------
(* The inductive invariant.  parsed is the table as the log began; the     *)
(* builder leads from it to the table, and the columns mark the rows of    *)
(* the log that are still there.                                           *)
RInv ==
    /\ IsTable(table) /\ IsTable(parsed)
    /\ key \in [Names -> Keys] /\ in_table_order \in BOOLEAN
    /\ ~logged => parsed = table /\ tables = None /\ untracked = None /\ fresh = {}
    /\ Tracked(tables, parsed, table)
    /\ fresh \subseteq ToSet(table) \X Columns
    /\ Colored(untracked, table, fresh)
    /\ ToSet(m_previous_rows) \subseteq Indices(parsed)

LEMMA LoggedStep ==
    ASSUME RInv, Logged, IsTable(table'), key' \in [Names -> Keys],
           Tracked(tables', parsed, table'), fresh' \subseteq ToSet(table') \X Columns,
           Colored(untracked', table', fresh')
    PROVE  RInv'
  <1>1. logged' = TRUE /\ parsed' = parsed /\ in_table_order' = in_table_order
        /\ m_previous_rows' = m_previous_rows
    BY DEF Logged
  <1> QED BY <1>1 DEF RInv

LEMMA LeastKey ==
    ASSUME key \in [Names -> Keys]
    PROVE  Min(Keys) \in Keys /\ key \in [Names -> Nat]
  <1>1. Keys \in SUBSET Nat /\ MaxRows \in Nat
    BY ResultsAssumption
  <1>2. 1 \in Names
    BY <1>1 DEF Names
  <1>3. Keys # {}
    BY <1>2
  <1> QED BY <1>1, <1>3, MinIs

LEMMA ForgottenKeys ==
    ASSUME key \in [Names -> Keys], NEW t, Forgotten(t)
    PROVE  key' \in [Names -> Keys]
BY LeastKey DEF Forgotten

LEMMA PreviousFound ==
    ASSUME IsTable(table), key \in [Names -> Keys], in_table_order \in BOOLEAN
    PROVE  ToSet(RowsOf(Results)) \subseteq Indices(table)
  <1>1. key \in [Names -> Nat]
    BY LeastKey
  <1>2. \A n \in DOMAIN Results : IndexOf(table, Results[n]) \in Indices(table)
    BY <1>1, RowsFound DEF Results
  <1> QED BY <1>2 DEF RowsOf, ToSet

LEMMA ResultsInit == Init => RInv
  <1> SUFFICES ASSUME Init PROVE RInv
    OBVIOUS
  <1>1. Length \in Nat /\ Length <= MaxRows
    BY ResultsAssumption
  <1>2. /\ table = [i \in 1..Length |-> i] /\ parsed = table /\ in_table_order \in BOOLEAN
        /\ key \in [Names -> Keys] /\ tables = None /\ untracked = None /\ fresh = {}
        /\ old = Results /\ m_previous_rows = RowsOf(old)
    BY DEF Init
  <1>3. IsTable(table)
    BY <1>1, <1>2, NamedTable
  <1>4. Tracked(tables, parsed, table)
    BY <1>2, <1>3, NoneFollows DEF IsTable
  <1>5. Colored(untracked, table, fresh)
    BY <1>2, NoneColored
  <1>6. ToSet(m_previous_rows) \subseteq Indices(parsed)
    BY <1>2, <1>3, PreviousFound
  <1> QED BY <1>2, <1>3, <1>4, <1>5, <1>6 DEF RInv

LEMMA InsertStep == RInv /\ insert_empty_rows => RInv'
  <1> SUFFICES ASSUME RInv, insert_empty_rows PROVE RInv'
    OBVIOUS
  <1>1. /\ IsTable(table) /\ IsTable(parsed) /\ key \in [Names -> Keys]
        /\ Tracked(tables, parsed, table) /\ Colored(untracked, table, fresh)
        /\ fresh \subseteq ToSet(table) \X Columns
    BY DEF RInv
  <1> DEFINE e == NewRow
  <1>2. e \in Names /\ e \notin ToSet(table) /\ e \notin ToSet(parsed)
    <2>1. LET U == (1..MaxRows \cup ToSet(table)) \cup ToSet(parsed)
          IN  Min(Names \ U) \in Names \ U
      BY <1>1, RowLeft
    <2> QED BY <2>1 DEF NewRow
  <1>3. PICK n \in Nat : n = Len(table)
    BY <1>1, TableParts
  <1>4. /\ n < MaxRows /\ table' = Append(table, e)
        /\ tables' = modify(modify(insert(tables, n, 1, TRUE), n, 1), n, 2)
        /\ untracked' = modify(modify(insert(untracked, n, 1, FALSE), n, 1), n, 2)
        /\ key' \in IF in_table_order THEN {key} ELSE {[key EXCEPT ![e] = v] : v \in Keys}
        /\ fresh' = fresh \cup {e} \X Columns
        /\ Logged
    BY <1>3 DEF insert_empty_rows, Inserted
  <1> HIDE DEF e
  <1>5. key' \in [Names -> Keys]
    BY <1>1, <1>4
  <1>6. /\ IsTable(table') /\ Len(table') = n + 1 /\ At(table', n) = e
        /\ \A x \in Indices(table) : At(table', x) = At(table, x)
        /\ ToSet(table') = ToSet(table) \cup {e}
    <2>1. AppendedTo(table, n, e, table')
      BY <1>1, <1>2, <1>3, <1>4, AppendTable
    <2> QED BY <2>1 DEF AppendedTo
  <1>7. /\ table \in Seq(Names) /\ parsed \in Seq(Names) /\ table' \in Seq(Names) /\ Unique(table')
    BY <1>1, <1>6 DEF IsTable
  <1>8. Tracked(tables', parsed, table')
    <2>1. Tracked(insert(tables, n, 1, TRUE), parsed, table')
      BY <1>1, <1>2, <1>3, <1>6, <1>7, InsertTracked
    <2> QED BY <1>4, <2>1, ModifyTracked
  <1>9. \A p \in fresh : p[1] # e
    BY <1>1, <1>2
  <1>10. Colored(untracked', table', fresh')
    <2> DEFINE u == modify(modify(insert(untracked, n, 1, FALSE), n, 1), n, 2)
    <2>1. untracked' = u /\ fresh' = fresh \cup {e} \X Columns
      BY <1>4
    <2>2. /\ table \in Seq(Names) /\ Colored(untracked, table, fresh) /\ table' \in Seq(Names)
          /\ Unique(table') /\ n = Len(table) /\ Len(table') = n + 1
          /\ \A x \in Indices(table) : At(table', x) = At(table, x)
          /\ At(table', n) = e
      BY <1>1, <1>3, <1>6, <1>7
    <2>3. Colored(u, table', fresh')
      BY <1>9, <2>1, <2>2, AddedColored, Zenon
    <2> QED BY <2>1, <2>3
  <1>11. fresh' \subseteq ToSet(table') \X Columns
    BY <1>1, <1>4, <1>6
  <1> QED BY <1>4, <1>5, <1>6, <1>8, <1>10, <1>11, LoggedStep

LEMMA EraseStep == RInv /\ erase_rows => RInv'
  <1> SUFFICES ASSUME RInv, erase_rows PROVE RInv'
    OBVIOUS
  <1>1. /\ IsTable(table) /\ IsTable(parsed) /\ key \in [Names -> Keys]
        /\ Tracked(tables, parsed, table) /\ Colored(untracked, table, fresh)
        /\ fresh \subseteq ToSet(table) \X Columns
    BY DEF RInv
  <1>2. PICK i \in Indices(table) :
          /\ table' = LastOver(table, i)
          /\ tables' = move_over(tables, i, Len(table) - 1, TRUE)
          /\ untracked' = move_over(untracked, i, Len(table) - 1, FALSE)
          /\ fresh' = Keep(fresh, table')
          /\ Forgotten(table')
          /\ Logged
    BY DEF erase_rows
  <1>3. table \in Seq(Names) /\ parsed \in Seq(Names)
    BY <1>1 DEF IsTable
  <1>4. PICK last \in Nat : Len(table) = last + 1 /\ i \in Nat /\ i <= last
    <2>1. Len(table) \in Nat /\ i \in Nat /\ i < Len(table)
      BY <1>3, IndexIs
    <2>2. Len(table) - 1 \in Nat /\ Len(table) = (Len(table) - 1) + 1 /\ i <= Len(table) - 1
      BY <2>1
    <2> QED BY <2>1, <2>2
  <1>5. Len(table) - 1 = last
    BY <1>4
  <1>6. /\ IsTable(table') /\ Len(table') = last
        /\ \A x \in Indices(table') : At(table', x) = IF x = i THEN At(table, last) ELSE At(table, x)
    <2>1. MovedInto(table, last, i, table')
      BY <1>1, <1>2, <1>4, LastOverTable
    <2> QED BY <2>1 DEF MovedInto
  <1>7. table' \in Seq(Names)
    BY <1>6 DEF IsTable
  <1>8. Tracked(tables', parsed, table')
    <2>1. CASE i = last
      <3>1. \A x \in Indices(table') : At(table', x) = At(table, x)
        <4>1. \A x \in Indices(table') : x \in Nat /\ x < last
          BY <1>6, <1>7, IndexIs
        <4> QED BY <1>6, <2>1, <4>1
      <3>2. Tracked(move_over(tables, last, last, TRUE), parsed, table')
        BY <1>1, <1>3, <1>4, <1>6, <1>7, <3>1, EraseLastTracked
      <3> QED BY <1>2, <1>5, <2>1, <3>2
    <2>2. CASE i < last
      <3>1. Tracked(move_over(tables, i, last, TRUE), parsed, table')
        BY <1>1, <1>3, <1>4, <1>6, <1>7, <2>2, MoveOverTracked
      <3> QED BY <1>2, <1>5, <3>1
    <2> QED BY <1>4, <2>1, <2>2
  <1>9. Colored(untracked', table', fresh')
    <2>1. Colored(move_over(untracked, i, last, FALSE), table', Keep(fresh, table'))
      BY <1>1, <1>3, <1>4, <1>6, <1>7, MoveOverColored
    <2> QED BY <1>2, <1>5, <2>1
  <1>10. fresh' \subseteq ToSet(table') \X Columns
    BY <1>1, <1>2 DEF Keep
  <1>11. key' \in [Names -> Keys]
    BY <1>1, <1>2, ForgottenKeys
  <1> QED BY <1>2, <1>6, <1>8, <1>9, <1>10, <1>11, LoggedStep

LEMMA SwapStep == RInv /\ swap_rows => RInv'
  <1> SUFFICES ASSUME RInv, swap_rows PROVE RInv'
    OBVIOUS
  <1>1. /\ IsTable(table) /\ IsTable(parsed) /\ key \in [Names -> Keys]
        /\ Tracked(tables, parsed, table) /\ Colored(untracked, table, fresh)
        /\ fresh \subseteq ToSet(table) \X Columns
    BY DEF RInv
  <1>2. PICK i \in Indices(table), j \in Indices(table) :
          /\ i < j
          /\ table' = [table EXCEPT ![i + 1] = At(table, j), ![j + 1] = At(table, i)]
          /\ tables' = swap(tables, i, j, TRUE)
          /\ untracked' = swap(untracked, i, j, FALSE)
          /\ UNCHANGED <<matching, key, dirty, fresh>>
          /\ Logged
    BY DEF swap_rows
  <1>3. /\ IsTable(table') /\ Len(table') = Len(table) /\ Indices(table') = Indices(table)
        /\ ToSet(table') = ToSet(table)
        /\ \A x \in Indices(table) : At(table', x) = IF x = i THEN At(table, j)
                                                     ELSE IF x = j THEN At(table, i) ELSE At(table, x)
    <2>1. SwappedIn(table, i, j, table')
      BY <1>1, <1>2, SwapTable
    <2> QED BY <2>1 DEF SwappedIn
  <1>4. table \in Seq(Names) /\ parsed \in Seq(Names) /\ table' \in Seq(Names)
    BY <1>1, <1>3 DEF IsTable
  <1>5. Tracked(tables', parsed, table')
    BY <1>1, <1>2, <1>3, <1>4, SwapTracked
  <1>6. Colored(untracked', table', fresh')
    BY <1>1, <1>2, <1>3, <1>4, SwapColored
  <1> QED BY <1>1, <1>2, <1>3, <1>5, <1>6, LoggedStep

LEMMA MergeStep == RInv /\ merge_rows => RInv'
  <1> SUFFICES ASSUME RInv, merge_rows PROVE RInv'
    OBVIOUS
  <1>1. /\ IsTable(table) /\ IsTable(parsed) /\ key \in [Names -> Keys]
        /\ Tracked(tables, parsed, table) /\ Colored(untracked, table, fresh)
        /\ fresh \subseteq ToSet(table) \X Columns
    BY DEF RInv
  <1>2. PICK n \in Nat : n = Len(table)
    BY <1>1, TableParts
  <1>3. PICK i \in Indices(table) :
          /\ tables' = move_over(subsume(insert(tables, n, 1, TRUE), i, n, TRUE), i, n, TRUE)
          /\ untracked' = move_over(subsume(insert(untracked, n, 1, FALSE), i, n, FALSE), i, n, FALSE)
    BY <1>2 DEF merge_rows, Merged
  <1>4. UNCHANGED <<table, matching, key, dirty, fresh>> /\ Logged
    BY DEF merge_rows
  <1>5. table \in Seq(Names) /\ parsed \in Seq(Names)
    BY <1>1 DEF IsTable
  <1>6. Tracked(tables', parsed, table)
    BY <1>1, <1>2, <1>3, <1>5, MergeTracked
  <1>7. Colored(untracked', table, fresh)
    BY <1>1, <1>2, <1>3, <1>5, MergeColored
  <1> QED BY <1>1, <1>4, <1>6, <1>7, LoggedStep

LEMMA SetStep ==
    ASSUME RInv, key' \in [Names -> Keys], NEW i \in Indices(table), NEW col \in Columns, SetColumn(i, col)
    PROVE  RInv'
  <1>1. /\ IsTable(table) /\ IsTable(parsed)
        /\ Tracked(tables, parsed, table) /\ Colored(untracked, table, fresh)
        /\ fresh \subseteq ToSet(table) \X Columns
    BY DEF RInv
  <1>2. /\ tables' = modify(tables, i, col) /\ untracked' = modify(untracked, i, col)
        /\ fresh' = fresh \cup {<<At(table, i), col>>} /\ table' = table /\ Logged
    BY DEF SetColumn
  <1>3. table \in Seq(Names) /\ Unique(table)
    BY <1>1 DEF IsTable
  <1>4. Tracked(tables', parsed, table)
    BY <1>1, <1>2, ModifyTracked
  <1>5. Colored(untracked', table, fresh')
    BY <1>1, <1>2, <1>3, ModifyColored
  <1>6. fresh' \subseteq ToSet(table) \X Columns
    <2>1. At(table, i) \in ToSet(table)
      BY <1>3, InToSet
    <2> QED BY <1>1, <1>2, <2>1
  <1> QED BY <1>1, <1>2, <1>4, <1>5, <1>6, LoggedStep

LEMMA ClearStep == RInv /\ clear_table => RInv'
  <1> SUFFICES ASSUME RInv, clear_table PROVE RInv'
    OBVIOUS
  <1>1. /\ IsTable(table) /\ IsTable(parsed) /\ key \in [Names -> Keys]
        /\ Colored(untracked, table, fresh)
    BY DEF RInv
  <1>2. /\ table' = <<>> /\ tables' = clear(tables, npos, AllRows)
        /\ untracked' = clear(untracked, npos, AllRows) /\ fresh' = {}
        /\ Forgotten(<<>>) /\ Logged
    BY DEF clear_table
  <1>3. MaxRows \in Nat /\ AllRows \in Nat /\ Len(parsed) <= AllRows /\ parsed \in Seq(Names)
    <2>1. MaxRows \in Nat
      BY ResultsAssumption
    <2>2. parsed \in Seq(Names) /\ Len(parsed) \in Nat /\ Len(parsed) <= MaxRows
      BY <1>1, TableParts
    <2> QED BY <2>1, <2>2 DEF AllRows
  <1>4. IsTable(<<>>)
    <2>1. <<>> \in Seq(Names) /\ Len(<<>>) = 0
      OBVIOUS
    <2>2. Indices(<<>>) = {}
      BY DEF Indices
    <2> QED BY <1>3, <2>1, <2>2 DEF IsTable, Unique
  <1>5. Tracked(tables', parsed, <<>>)
    BY <1>2, <1>3, ClearTracked
  <1>6. Colored(untracked', <<>>, {})
    BY <1>1, <1>2, ClearColored
  <1>7. key' \in [Names -> Keys]
    BY <1>1, <1>2, ForgottenKeys
  <1> QED BY <1>2, <1>4, <1>5, <1>6, <1>7, LoggedStep

LEMMA RunStep == RInv /\ RunNotifier => RInv'
  <1> SUFFICES ASSUME RInv, RunNotifier PROVE RInv'
    OBVIOUS
  <1>1. IsTable(table) /\ key \in [Names -> Keys] /\ in_table_order \in BOOLEAN
    BY DEF RInv
  <1>2. /\ m_previous_rows' = RowsOf(Results) /\ tables' = None /\ untracked' = None /\ fresh' = {}
        /\ parsed' = table /\ table' = table /\ key' = key /\ in_table_order' = in_table_order
    BY DEF RunNotifier
  <1>3. ToSet(RowsOf(Results)) \subseteq Indices(table)
    BY <1>1, PreviousFound
  <1>4. Tracked(None, table, table) /\ Colored(None, table, {})
    BY <1>1, NoneFollows, NoneColored DEF IsTable
  <1> QED BY <1>1, <1>2, <1>3, <1>4 DEF RInv

LEMMA DeliverStep == RInv /\ Deliver => RInv'
  <1> SUFFICES ASSUME RInv, Deliver PROVE RInv'
    OBVIOUS
  <1>1. /\ IsTable(table) /\ key \in [Names -> Keys] /\ in_table_order \in BOOLEAN
        /\ parsed = table /\ tables = None /\ untracked = None /\ fresh = {}
        /\ ToSet(m_previous_rows) \subseteq Indices(table)
    BY DEF RInv, Deliver
  <1>2. /\ table' = [i \in DOMAIN table |-> i] /\ parsed' = table'
        /\ key' = [r \in Names |-> IF r \in DOMAIN table THEN key[table[r]] ELSE Min(Keys)]
        /\ UNCHANGED <<in_table_order, fresh, tables, untracked, m_previous_rows, logged>>
    BY DEF Deliver
  <1>3. PICK n \in Nat : n = Len(table) /\ DOMAIN table = 1..n /\ table \in [1..n -> Names] /\ n <= MaxRows
    <2>1. table \in Seq(Names) /\ Len(table) <= MaxRows
      BY <1>1 DEF IsTable
    <2> QED BY <2>1, LenProperties
  <1>4. IsTable(table') /\ Len(table') = n
    BY <1>2, <1>3, NamedTable
  <1>5. Indices(table') = Indices(table)
    BY <1>3, <1>4 DEF Indices
  <1>6. key' \in [Names -> Keys]
    <2>1. Min(Keys) \in Keys
      BY <1>1, LeastKey
    <2> QED BY <1>1, <1>2, <1>3, <2>1
  <1>7. Tracked(None, table', table') /\ Colored(None, table', {})
    BY <1>4, NoneFollows, NoneColored DEF IsTable
  <1> QED BY <1>1, <1>2, <1>4, <1>5, <1>6, <1>7 DEF RInv

LEMMA ResultsStep == RInv /\ [Next]_vars => RInv'
  <1> SUFFICES ASSUME RInv, [Next]_vars PROVE RInv'
    OBVIOUS
  <1>1. CASE insert_empty_rows BY <1>1, InsertStep
  <1>2. CASE erase_rows BY <1>2, EraseStep
  <1>3. CASE swap_rows BY <1>3, SwapStep
  <1>4. CASE merge_rows BY <1>4, MergeStep
  <1>5. CASE set_matching
    <2>1. PICK i \in Indices(table) : key' = key /\ SetColumn(i, 1)
      BY <1>5 DEF set_matching
    <2>2. 1 \in Columns /\ key' \in [Names -> Keys]
      BY <2>1 DEF Columns, RInv
    <2> QED BY <2>1, <2>2, SetStep
  <1>6. CASE set_key
    <2>1. PICK i \in Indices(table), v \in Keys :
            key' = [key EXCEPT ![At(table, i)] = v] /\ SetColumn(i, 2)
      BY <1>6 DEF set_key
    <2>2. 2 \in Columns /\ key' \in [Names -> Keys]
      BY <2>1 DEF Columns, RInv
    <2> QED BY <2>1, <2>2, SetStep
  <1>7. CASE clear_table BY <1>7, ClearStep
  <1>8. CASE RunNotifier BY <1>8, RunStep
  <1>9. CASE Deliver BY <1>9, DeliverStep
  <1>10. CASE UNCHANGED vars
    BY <1>10 DEF RInv, vars
  <1> QED BY <1>1, <1>2, <1>3, <1>4, <1>5, <1>6, <1>7, <1>8, <1>9, <1>10 DEF Next

LEMMA ResultsInvariant == Spec => []RInv
BY ResultsInit, ResultsStep, PTL DEF Spec

-----------------------------------------------------------------------------
(* The mapping of a builder that leads from one table to another.          *)
LEMMA InvariantMapped == RInv => MappedRowsMoved
  <1> SUFFICES ASSUME RInv PROVE MappedRowsMoved
    OBVIOUS
  <1>1. /\ table \in Seq(Names) /\ parsed \in Seq(Names) /\ Unique(table)
        /\ Follows(tables.deletions, tables.insertions, tables.mapping, parsed, table)
    BY DEF RInv, IsTable, Tracked
  <1> DEFINE f == tables.mapping
  <1>2. \A k, l \in DOMAIN f : f[k] = f[l] => k = l
    BY <1>1, MapInjective
  <1>3. \A k \in DOMAIN f : k \in tables.insertions /\ f[k] \in tables.deletions
    BY <1>1 DEF Follows, Mapped
  <1> QED BY <1>2, <1>3 DEF MappedRowsMoved

(* The assertions of parse_complete() never fail: the mapping the          *)
(* operations of the builder keep has only rows that are deleted where     *)
(* they were and inserted where they are, and no row twice.                *)
THEOREM MappedRowsAlwaysMoved == Spec => []MappedRowsMoved
BY InvariantMapped, ResultsInvariant, PTL

(* However many log entries of whatever kind one transaction makes, and    *)
(* for tables of any size: NewIndex(), which is what calculate_changes()   *)
(* uses to find the rows of the last results, gives for every row of the   *)
(* table as it was the index where that row is now, or says that it is     *)
(* deleted.                                                                *)
THEOREM RowsAlwaysFollowed == Spec => []RowsAreFollowed
  <1>1. RInv => RowsAreFollowed
    <2> SUFFICES ASSUME RInv PROVE RowsAreFollowed
      OBVIOUS
    <2>1. /\ table \in Seq(Names) /\ parsed \in Seq(Names) /\ Unique(table) /\ Unique(parsed)
          /\ Tracked(tables, parsed, table) /\ ToSet(m_previous_rows) \subseteq Indices(parsed)
      BY DEF RInv, IsTable
    <2>2. \A i \in Indices(parsed) :
             NewIndex(parse_complete(tables), i)
               = IF At(parsed, i) \in ToSet(table) THEN IndexOf(table, At(parsed, i)) ELSE npos
      BY <2>1, ParseFollows
    <2> QED BY <2>1, <2>2, InvariantMapped DEF RowsAreFollowed
  <1> QED BY <1>1, ResultsInvariant, PTL

(* Where the moves are not followed, the rows an ObjectNotifier finds      *)
(* modified, in any column and in each, are exactly those that the log     *)
(* modified and that are still there, at the indices where they are now.   *)
THEOREM ObjectChangesAlwaysExact == Spec => []ObjectChangesAreExact
  <1>1. RInv => ObjectChangesAreExact
    <2> SUFFICES ASSUME RInv PROVE ObjectChangesAreExact
      OBVIOUS
    <2>1. /\ table \in Seq(Names) /\ Unique(table) /\ fresh \subseteq ToSet(table) \X Columns
          /\ Colored(untracked, table, fresh)
      BY DEF RInv, IsTable
    <2>2. PICK C : HasCols(untracked, C) /\ Marks(C, table, fresh)
      BY <2>1 DEF Colored
    <2>3. untracked.cols = C
      BY <2>2, ColsIs
    <2>4. ASSUME NEW k \in AllColumns
          PROVE  C[k] = {IndexOf(table, p[1]) : p \in {q \in fresh : k = 0 \/ q[2] = k}}
      <3>1. \A x : x \in C[k] <=> x \in Indices(table) /\ At(table, x) \in RowsIn(fresh, k)
        BY <2>2, <2>4 DEF Marks
      <3>2. ASSUME NEW x \in C[k]
            PROVE  \E p \in fresh : (k = 0 \/ p[2] = k) /\ x = IndexOf(table, p[1])
        <4>1. x \in Indices(table) /\ At(table, x) \in RowsIn(fresh, k)
          BY <3>1, <3>2
        <4>2. PICK p \in fresh : p[1] = At(table, x) /\ (k = 0 \/ p[2] = k)
          BY <4>1, InRows
        <4>3. IndexOf(table, At(table, x)) = x
          BY <2>1, <4>1, IndexFound
        <4> QED BY <4>2, <4>3
      <3>3. ASSUME NEW p \in fresh, k = 0 \/ p[2] = k
            PROVE  IndexOf(table, p[1]) \in C[k]
        <4>1. p[1] \in ToSet(table)
          BY <2>1
        <4>2. PICK x \in Indices(table) : At(table, x) = p[1]
          BY <2>1, <4>1, EntriesAre
        <4>3. IndexOf(table, p[1]) = x
          BY <2>1, <4>2, IndexFound
        <4>4. p[1] \in RowsIn(fresh, k)
          BY <3>3, InRows
        <4> QED BY <3>1, <4>2, <4>3, <4>4
      <3> QED BY <3>2, <3>3
    <2>5. C[0] = {IndexOf(table, p[1]) : p \in fresh}
      BY <2>4 DEF AllColumns
    <2>6. \A col \in Columns : C[col] = {IndexOf(table, p[1]) : p \in {p \in fresh : p[2] = col}}
      <3> TAKE col \in Columns
      <3>1. col \in AllColumns /\ col # 0
        BY DEF AllColumns, Columns
      <3> QED BY <2>4, <3>1
    <2> QED BY <2>3, <2>5, <2>6 DEF ObjectChangesAreExact
  <1> QED BY <1>1, ResultsInvariant, PTL

=============================================================================

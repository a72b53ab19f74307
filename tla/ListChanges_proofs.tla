------------------------- MODULE ListChanges_proofs -------------------------
(***************************************************************************)
(* Proofs about the changes of a list, for lists of any length and any     *)
(* number of log entries, from what CollectionChangeBuilder_proofs says of *)
(* the operations of a builder.                                            *)
(***************************************************************************)
EXTENDS ListChanges, CollectionChangeBuilder_proofs

-----------------------------------------------------------------------------
(* The names of the entries.                                               *)

LEMMA NameLeft ==
    ASSUME NEW E, NEW s \in Seq(E), NEW t \in Seq(E), Len(s) <= MaxLen, Len(t) <= MaxLen
    PROVE  Min(Names \ (ToSet(s) \cup ToSet(t))) \in Names \ (ToSet(s) \cup ToSet(t))
  <1> DEFINE U == ToSet(s) \cup ToSet(t)
  <1>1. MaxLen \in Nat
    BY ListAssumption
  <1>2. IsFiniteSet(Names) /\ Cardinality(Names) = 2 * MaxLen + 1 /\ Names \subseteq Nat
    <2>1. PICK n \in Nat : n = 2 * MaxLen + 1
      BY <1>1
    <2>2. IsFiniteSet(1..n) /\ Cardinality(1..n) = IF 1 > n THEN 0 ELSE n - 1 + 1
      BY FS_Interval
    <2>3. Cardinality(1..n) = n /\ 1..n \subseteq Nat
      BY <2>2
    <2> QED BY <2>1, <2>2, <2>3 DEF Names
  <1>3. IsFiniteSet(U) /\ Cardinality(U) \in Nat /\ Cardinality(U) <= 2 * MaxLen
    <2>1. PICK m \in Nat, n \in Nat : m = Len(s) /\ n = Len(t)
      BY LenProperties
    <2>2. /\ IsFiniteSet(ToSet(s)) /\ Cardinality(ToSet(s)) \in Nat /\ Cardinality(ToSet(s)) <= m
          /\ IsFiniteSet(ToSet(t)) /\ Cardinality(ToSet(t)) \in Nat /\ Cardinality(ToSet(t)) <= n
      BY <2>1, FewEntries
    <2>3. IsFiniteSet(ToSet(s) \cap ToSet(t)) /\ Cardinality(ToSet(s) \cap ToSet(t)) \in Nat
      BY <2>2, FS_Subset, FS_CardinalityType
    <2>4. /\ IsFiniteSet(U)
          /\ Cardinality(U) = Cardinality(ToSet(s)) + Cardinality(ToSet(t)) - Cardinality(ToSet(s) \cap ToSet(t))
      BY <2>2, FS_Union
    <2>5. Cardinality(U) \in Nat
      BY <2>4, FS_CardinalityType
    <2> HIDE DEF U
    <2> QED BY <1>1, <2>1, <2>2, <2>3, <2>4, <2>5
  <1> HIDE DEF U
  <1>4. Names \ U # {}
    <2> SUFFICES ASSUME Names \ U = {} PROVE FALSE
      OBVIOUS
    <2>1. Names \subseteq U
      OBVIOUS
    <2>2. Cardinality(Names) <= Cardinality(U)
      BY <1>3, <2>1, FS_Subset
    <2> QED BY <1>1, <1>2, <1>3, <2>2
  <1>5. Names \ U \in SUBSET Nat
    BY <1>2
  <1> QED BY <1>4, <1>5, MinIs DEF U

-----------------------------------------------------------------------------
(* Moved(): an entry is taken out and put back in.                         *)
IsMoved(E, s, from, to, mid, r) ==
    /\ TakenOut(E, s, from, mid)
    /\ to \in 0..Len(mid)
    /\ PutIn(E, mid, to, At(s, from), r)

LEMMA MovedIs ==
    ASSUME NEW E, NEW s \in Seq(E), NEW from \in Indices(s), NEW to \in Indices(s)
    PROVE  IsMoved(E, s, from, to, RemoveAt(s, from + 1), Moved(s, from, to))
  <1> DEFINE mid == RemoveAt(s, from + 1)
  <1>1. TakenOut(E, s, from, mid)
    BY RemoveAtIs
  <1>2. Moved(s, from, to) = InsertAt(mid, to + 1, At(s, from))
    BY DEF Moved
  <1> HIDE DEF mid
  <1>3. mid \in Seq(E) /\ to \in 0..Len(mid)
    <2>1. PICK n \in Nat : n = Len(s) /\ Len(mid) = n - 1 /\ to \in Nat /\ to < n
      BY <1>1, IndexIs DEF TakenOut, Erases
    <2> QED BY <1>1, <2>1 DEF TakenOut
  <1>4. At(s, from) \in E
    BY IndexIs, LenProperties DEF At
  <1>5. PutIn(E, mid, to, At(s, from), Moved(s, from, to))
    BY <1>2, <1>3, <1>4, InsertAtIs
  <1> QED BY <1>1, <1>3, <1>5 DEF IsMoved, mid

LEMMA MovedKeeps ==
    ASSUME NEW E, NEW s \in Seq(E), NEW from \in Indices(s), NEW to \in Indices(s), Unique(s),
           NEW r, r = Moved(s, from, to)
    PROVE  r \in Seq(E) /\ ToSet(r) = ToSet(s) /\ Unique(r) /\ Len(r) = Len(s)
  <1>1. PICK mid : IsMoved(E, s, from, to, mid, r)
    BY MovedIs
  <1>2. /\ mid \in Seq(E) /\ Erases(s, mid, from) /\ to \in 0..Len(mid)
        /\ r \in Seq(E) /\ Inserts(mid, r, to, 1) /\ At(r, to) = At(s, from)
    BY <1>1 DEF IsMoved, TakenOut, PutIn
  <1>3. ToSet(mid) = ToSet(s) \ {At(s, from)} /\ Unique(mid) /\ Len(mid) = Len(s) - 1
    BY <1>2, ErasesOne
  <1>4. /\ ToSet(r) = ToSet(mid) \cup {At(s, from)} /\ Len(r) = Len(mid) + 1
        /\ Unique(mid) /\ At(s, from) \notin ToSet(mid) => Unique(r)
    BY <1>2, InsertsOne
  <1>5. At(s, from) \in ToSet(s)
    BY InToSet
  <1>6. Len(r) = Len(s)
    <2>1. PICK n \in Nat : n = Len(s)
      BY LenProperties
    <2> QED BY <1>3, <1>4, <2>1
  <1>7. ToSet(r) = ToSet(s)
    BY <1>3, <1>4, <1>5, Zenon
  <1> QED BY <1>2, <1>3, <1>4, <1>6, <1>7

LEMMA MovedNowhere ==
    ASSUME NEW E, NEW s \in Seq(E), NEW i \in Indices(s)
    PROVE  Moved(s, i, i) = s
  <1> DEFINE r == Moved(s, i, i)
  <1>1. PICK mid : IsMoved(E, s, i, i, mid, r)
    BY MovedIs
  <1> HIDE DEF r
  <1>2. /\ mid \in Seq(E) /\ Erases(s, mid, i) /\ i \in 0..Len(mid)
        /\ r \in Seq(E) /\ Inserts(mid, r, i, 1) /\ At(r, i) = At(s, i)
    BY <1>1 DEF IsMoved, TakenOut, PutIn
  <1>3. PICK n \in Nat : n = Len(s) /\ i \in Nat /\ i < n
    BY IndexIs
  <1>4. Len(mid) = n - 1 /\ Len(r) = n
    BY <1>2, <1>3 DEF Erases, Inserts
  <1>5. ASSUME NEW x \in 1..n PROVE r[x] = s[x]
    <2>1. PICK j \in Nat : j + 1 = x /\ j < n
      <3>1. x - 1 \in Nat /\ (x - 1) + 1 = x /\ x - 1 < n
        BY <1>3
      <3> QED BY <3>1
    <2>2. At(r, j) = At(s, j)
      <3>1. CASE j = i
        BY <1>2, <3>1
      <3>2. CASE j # i
        <4>1. j \in Indices(s) \ {i}
          BY <1>3, <2>1, <3>2, IndexIs
        <4>2. PICK k \in Nat : k = (IF j < i THEN j ELSE j - 1) /\ k < n - 1 /\ (IF k < i THEN k ELSE k + 1) = j
          <5>1. LET k == IF j < i THEN j ELSE j - 1
                IN  k \in Nat /\ k < n - 1 /\ (IF k < i THEN k ELSE k + 1) = j
            BY <1>3, <2>1, <3>2
          <5> QED BY <5>1
        <4>3. At(mid, k) = At(s, j)
          BY <1>2, <4>1, <4>2 DEF Erases
        <4>4. k \in Indices(mid)
          BY <1>2, <1>4, <4>2, IndexIs
        <4>5. At(r, IF k < i THEN k ELSE k + 1) = At(mid, k)
          BY <1>2, <4>4 DEF Inserts
        <4> QED BY <4>2, <4>3, <4>5
      <3> QED BY <3>1, <3>2
    <2> QED BY <2>1, <2>2 DEF At
  <1> QED BY <1>2, <1>3, <1>4, <1>5, SeqEqual DEF r

-----------------------------------------------------------------------------
(* The notifier of a list.                                                 *)

(* What a cleared subtable is taken for: more rows than it can have had,   *)
(* and none of them an entry.                                              *)
Blank == [i \in 1..AllRows |-> 0]

Both(o, l) == ToSet(o) \cap ToSet(l)

Lists(o, l) ==
    /\ o \in Seq(Nat) /\ Len(o) <= MaxLen
    /\ l \in Seq(Nat) /\ Len(l) <= MaxLen /\ Unique(l) /\ 0 \notin ToSet(l)

(* mid is the list as it was when the notifier last ran.                   *)
Ran(mid, a, o, l, size) ==
    /\ mid \in Seq(Nat) /\ Len(mid) = size /\ Len(mid) <= MaxLen
    /\ Describes(a, o, mid, ToSet(mid))
    /\ Both(o, l) \subseteq ToSet(mid)

(* The log was parsed from mid, or since the subtable was cleared.         *)
Parsed(from, mid, c, o, l, cleared) ==
    /\ from \in Seq(Nat)
    /\ Describes(c, from, l, Both(o, l))
    /\ from = mid \/ (cleared /\ from = Blank /\ Both(o, l) = {})

(* Of the entries that the callback knows and that are still there, those  *)
(* that were modified are marked in one of the two changes, or touched.    *)
Remembers(mid, a, c, o, l, d, t) ==
    /\ Unique(mid) /\ MarksIn(a, mid) /\ MarksIn(c, l)
    /\ d \cap Both(o, l) = (Named(a, mid) \cup Named(c, l) \cup t) \cap Both(o, l)

(* The accumulated changes lead from what the callback knows to the list   *)
(* the notifier last saw, and the log of the present transaction leads     *)
(* from there to the list.                                                 *)
LInv ==
    /\ Lists(old, list)
    /\ logged \in BOOLEAN /\ is_attached \in BOOLEAN /\ primitive \in BOOLEAN
    /\ ~is_attached => list = <<>> /\ m_change = None
    /\ primitive => touched = {}
    /\ \E mid : /\ Ran(mid, accumulated, old, list, m_prev_size)
                /\ ~logged => mid = list /\ m_change = None
                /\ is_attached => \E from : Parsed(from, mid, m_change, old, list, primitive)
                /\ Remembers(mid, accumulated, m_change, old, list, dirty, touched)

LEMMA EntriesOf ==
    ASSUME NEW n \in Nat, n <= MaxLen
    PROVE  Entries(n) \in Seq(Nat) /\ Len(Entries(n)) = n /\ Lists(Entries(n), Entries(n))
  <1> DEFINE s == Entries(n)
  <1>1. s \in [1..n -> Nat] /\ \A i \in 1..n : s[i] = i
    BY DEF Entries
  <1>2. s \in Seq(Nat) /\ Len(s) = n /\ DOMAIN s = 1..n
    BY <1>1, FunctionIsSeq
  <1> HIDE DEF s
  <1>3. Unique(s)
    <2> SUFFICES ASSUME NEW i \in Indices(s), NEW j \in Indices(s), At(s, i) = At(s, j)
                 PROVE  i = j
      BY DEF Unique
    <2>1. i \in Nat /\ i < n /\ j \in Nat /\ j < n
      BY <1>2, IndexIs
    <2>2. At(s, i) = i + 1 /\ At(s, j) = j + 1
      BY <1>1, <2>1 DEF At
    <2>3. i + 1 = j + 1
      BY <2>2
    <2> QED BY <2>1, <2>3
  <1>4. 0 \notin ToSet(s)
    BY <1>1, <1>2 DEF ToSet
  <1> QED BY <1>2, <1>3, <1>4 DEF Lists, s

LEMMA NoneIs ==
    /\ IsBuilder(None) /\ None.deletions = {} /\ None.insertions = {} /\ DOMAIN None.moves = {}
    /\ \A s \in Seq(Nat) : \A K : Describes(None, s, s, K)
  <1>1. /\ IsBuilder(None) /\ None.deletions = {} /\ None.insertions = {} /\ DOMAIN None.moves = {}
    BY NoChangeIs DEF None
  <1> QED BY <1>1, NoneDescribes

LEMMA NoneMarks ==
    ASSUME NEW s
    PROVE  MarksIn(None, s) /\ Named(None, s) = {}
  <1>1. None.cols = [k \in {0} |-> {}]
    BY DEF None, NoChange
  <1> QED BY <1>1, NoMarks

(* Nothing happened since the callback was told.                           *)
LEMMA StartsOver ==
    ASSUME NEW s, Lists(s, s), NEW size, Len(s) = size, NEW cleared
    PROVE  /\ Ran(s, None, s, s, size) /\ Parsed(s, s, None, s, s, cleared)
           /\ Remembers(s, None, None, s, s, {}, {})
  <1>1. s \in Seq(Nat)
    BY DEF Lists
  <1>2. Describes(None, s, s, ToSet(s)) /\ Describes(None, s, s, Both(s, s))
    BY <1>1, NoneIs
  <1>3. Remembers(s, None, None, s, s, {}, {})
    BY NoneMarks DEF Lists, Remembers
  <1> QED BY <1>1, <1>2, <1>3 DEF Lists, Ran, Parsed, Both

LEMMA ListInit == Init => LInv
  <1> SUFFICES ASSUME Init PROVE LInv
    OBVIOUS
  <1>1. Length \in Nat /\ Length <= MaxLen
    BY ListAssumption
  <1>2. old = Entries(Length) /\ list = old /\ m_prev_size = Length
    BY DEF Init
  <1>3. Lists(list, list) /\ Len(list) = Length
    BY <1>1, <1>2, EntriesOf
  <1>4. /\ Ran(list, None, list, list, Length) /\ Parsed(list, list, None, list, list, primitive)
        /\ Remembers(list, None, None, list, list, {}, {})
    BY <1>3, StartsOver
  <1> QED BY <1>2, <1>3, <1>4 DEF Init, LInv

(* What is parsed while the owner of the list is there.                    *)
LEMMA LogIsParsed ==
    ASSUME LInv, is_attached
    PROVE  /\ MarksIn(m_change, list) /\ IsBuilder(m_change)
           /\ \E from \in Seq(Nat) : Describes(m_change, from, list, Both(old, list))
BY DEF LInv, Parsed, Remembers, Describes

(* An entry of the log that marks the entries in X.                        *)
MarksGoOn(l, d, c) ==
    /\ MarksIn(c, l)
    /\ \E X : \A x \in Both(old, l) :
          /\ x \in d <=> x \in dirty \cup X
          /\ x \in Named(c, l) <=> x \in Named(m_change, list) \cup X

LEMMA SameGoesOn ==
    ASSUME NEW l, NEW c, NEW X, SameMarks(m_change, list, c, l, X), X \cap Both(old, l) = {}
    PROVE  MarksGoOn(l, dirty, c)
  <1>1. MarksIn(c, l)
    BY DEF SameMarks
  <1>2. \A x \in Both(old, l) : /\ x \in dirty <=> x \in dirty \cup {}
                                /\ x \in Named(c, l) <=> x \in Named(m_change, list) \cup {}
    BY DEF SameMarks
  <1> QED BY <1>1, <1>2 DEF MarksGoOn

LEMMA MarksRemembered ==
    ASSUME NEW mid, Remembers(mid, accumulated, m_change, old, list, dirty, touched),
           NEW l, NEW d, NEW c, MarksGoOn(l, d, c), Both(old, l) \subseteq Both(old, list)
    PROVE  Remembers(mid, accumulated, c, old, l, d \cap ToSet(l), touched \cap ToSet(l))
  <1>1. PICK X : \A x \in Both(old, l) : /\ x \in d <=> x \in dirty \cup X
                                         /\ x \in Named(c, l) <=> x \in Named(m_change, list) \cup X
    BY DEF MarksGoOn
  <1>2. \A x \in Both(old, l) :
           x \in dirty <=> x \in Named(accumulated, mid) \cup Named(m_change, list) \cup touched
    BY DEF Remembers
  <1>3. \A x \in Both(old, l) : x \in ToSet(l)
    BY DEF Both
  <1>4. \A x \in Both(old, l) :
           x \in d \cap ToSet(l) <=>
           x \in Named(accumulated, mid) \cup Named(c, l) \cup (touched \cap ToSet(l))
    BY <1>1, <1>2, <1>3
  <1>5. MarksIn(c, l) /\ Unique(mid) /\ MarksIn(accumulated, mid)
    BY DEF MarksGoOn, Remembers
  <1> QED BY <1>4, <1>5 DEF Remembers

(* An entry of the log that goes on with what was parsed.                  *)
LEMMA LogGoesOn ==
    ASSUME LInv, NEW l, NEW d, NEW c, Log(l, d, c), Lists(old, l), Both(old, l) \subseteq Both(old, list),
           \A from \in Seq(Nat) : Describes(m_change, from, list, Both(old, list)) =>
                                     Describes(c, from, l, Both(old, l)),
           MarksGoOn(l, d, c)
    PROVE  LInv'
  <1>1. /\ is_attached /\ list' = l /\ m_change' = c /\ logged' = TRUE
        /\ primitive' = primitive /\ old' = old /\ is_attached' = is_attached
        /\ m_prev_size' = m_prev_size /\ accumulated' = accumulated
        /\ dirty' = d \cap ToSet(l) /\ touched' = touched \cap ToSet(l)
    BY DEF Log
  <1>2. PICK mid, from : /\ Ran(mid, accumulated, old, list, m_prev_size)
                         /\ Parsed(from, mid, m_change, old, list, primitive)
                         /\ Remembers(mid, accumulated, m_change, old, list, dirty, touched)
    BY <1>1 DEF LInv
  <1>5. Remembers(mid, accumulated, c, old, l, d \cap ToSet(l), touched \cap ToSet(l))
    BY <1>2, MarksRemembered
  <1>3. Ran(mid, accumulated, old, l, m_prev_size)
    BY <1>2 DEF Ran
  <1>4. Parsed(from, mid, c, old, l, primitive)
    BY <1>2 DEF Parsed
  <1>6. primitive => touched' = {}
    BY <1>1 DEF LInv
  <1>7. Lists(old, list)' /\ (~is_attached => list' = <<>> /\ m_change' = None)
    BY <1>1
  <1>8. is_attached \in BOOLEAN /\ primitive \in BOOLEAN
    BY DEF LInv
  <1> QED BY <1>1, <1>3, <1>4, <1>5, <1>6, <1>7, <1>8 DEF LInv

LEMMA InsertStep == LInv /\ link_list_insert => LInv'
  <1> SUFFICES ASSUME LInv, link_list_insert PROVE LInv'
    OBVIOUS
  <1> DEFINE fresh == Min(Names \ (ToSet(old) \cup ToSet(list)))
  <1>1. /\ old \in Seq(Nat) /\ list \in Seq(Nat) /\ Len(old) <= MaxLen /\ Len(list) <= MaxLen
        /\ Unique(list) /\ 0 \notin ToSet(list)
    BY DEF LInv, Lists
  <1>2. fresh \in Names \ (ToSet(old) \cup ToSet(list))
    BY <1>1, NameLeft
  <1>3. PICK i \in 0..Len(list) :
          Log(InsertAt(list, i + 1, fresh), dirty, insert(m_change, i, 1, TRUE))
    BY DEF link_list_insert
  <1> DEFINE l == InsertAt(list, i + 1, fresh)
             c == insert(m_change, i, 1, TRUE)
  <1> HIDE DEF fresh
  <1>4. fresh \in Nat /\ fresh # 0 /\ fresh \notin ToSet(old) /\ fresh \notin ToSet(list)
    BY <1>2 DEF Names
  <1>5. l \in Seq(Nat) /\ Inserts(list, l, i, 1) /\ At(l, i) = fresh
    <2>1. PutIn(Nat, list, i, fresh, l)
      BY <1>1, <1>4, InsertAtIs
    <2> HIDE DEF l
    <2> QED BY <2>1 DEF PutIn
  <1>6. Log(l, dirty, c)
    BY <1>3
  <1> HIDE DEF l, c
  <1>7. ToSet(l) = ToSet(list) \cup {fresh} /\ Unique(l)
    BY <1>1, <1>4, <1>5, InsertsOne
  <1>8. Lists(old, l)
    BY <1>1, <1>4, <1>5, <1>6, <1>7 DEF Lists, Log
  <1>9. Both(old, l) = Both(old, list)
    BY <1>4, <1>7 DEF Both
  <1>10. ASSUME NEW from \in Seq(Nat), Describes(m_change, from, list, Both(old, list))
         PROVE  Describes(c, from, l, Both(old, l))
    <2>1. i \in Nat /\ i <= Len(list)
      BY <1>1, LenProperties
    <2> QED BY <1>1, <1>5, <1>9, <1>10, <2>1, InsertDescribes DEF c
  <1>11. MarksGoOn(l, dirty, c)
    <2>1. i \in Nat /\ i <= Len(list)
      BY <1>1, LenProperties
    <2>2. MarksIn(m_change, list) /\ IsBuilder(m_change)
      BY <1>6, LogIsParsed DEF Log
    <2>3. SameMarks(m_change, list, c, l, {})
      BY <1>1, <1>5, <2>1, <2>2, InsertMarks DEF c
    <2> QED BY <2>3, SameGoesOn
  <1> QED BY <1>6, <1>8, <1>9, <1>10, <1>11, LogGoesOn

LEMMA EraseStep == LInv /\ link_list_erase => LInv'
  <1> SUFFICES ASSUME LInv, link_list_erase PROVE LInv'
    OBVIOUS
  <1>1. /\ old \in Seq(Nat) /\ list \in Seq(Nat) /\ Len(old) <= MaxLen /\ Len(list) <= MaxLen
        /\ Unique(list) /\ 0 \notin ToSet(list)
    BY DEF LInv, Lists
  <1>2. PICK i \in Indices(list) : Log(RemoveAt(list, i + 1), dirty, erase(m_change, i))
    BY DEF link_list_erase
  <1> DEFINE l == RemoveAt(list, i + 1)
             c == erase(m_change, i)
  <1>3. l \in Seq(Nat) /\ Erases(list, l, i)
    <2>1. TakenOut(Nat, list, i, l)
      BY <1>1, RemoveAtIs
    <2> HIDE DEF l
    <2> QED BY <2>1 DEF TakenOut
  <1>4. Log(l, dirty, c)
    BY <1>2
  <1> HIDE DEF l, c
  <1>5. ToSet(l) = ToSet(list) \ {At(list, i)} /\ Unique(l)
    BY <1>1, <1>3, ErasesOne
  <1>6. Lists(old, l)
    BY <1>1, <1>3, <1>4, <1>5 DEF Lists, Log
  <1>7. Both(old, l) \subseteq Both(old, list) /\ At(list, i) \notin Both(old, l)
    BY <1>5 DEF Both
  <1>8. ASSUME NEW from \in Seq(Nat), Describes(m_change, from, list, Both(old, list))
        PROVE  Describes(c, from, l, Both(old, l))
    <2>1. ToSet(from) \cap Both(old, l) \subseteq Both(old, list)
      BY <1>7
    <2> QED BY <1>1, <1>3, <1>7, <1>8, <2>1, EraseDescribes DEF c
  <1>9. MarksGoOn(l, dirty, c)
    <2>1. MarksIn(m_change, list) /\ IsBuilder(m_change)
      BY <1>4, LogIsParsed DEF Log
    <2>2. SameMarks(m_change, list, c, l, {At(list, i)})
      BY <1>1, <1>3, <2>1, EraseMarks DEF c
    <2>3. {At(list, i)} \cap Both(old, l) = {}
      BY <1>7
    <2> QED BY <2>2, <2>3, SameGoesOn
  <1> QED BY <1>4, <1>6, <1>7, <1>8, <1>9, LogGoesOn

(* One move of an entry, in the list and in the change.                    *)
LEMMA MoveGoesOn ==
    ASSUME NEW l, l \in Seq(Nat), Unique(l), NEW from \in Indices(l), NEW to \in Indices(l),
           NEW r, r = Moved(l, from, to), NEW o,
           NEW c, NEW pre \in Seq(Nat), Describes(c, pre, l, Both(o, l))
    PROVE  Both(o, r) = Both(o, l) /\ Describes(move(c, from, to), pre, r, Both(o, r))
  <1>1. r \in Seq(Nat) /\ ToSet(r) = ToSet(l)
    BY MovedKeeps
  <1>2. PICK mid : IsMoved(Nat, l, from, to, mid, r)
    BY MovedIs
  <1>3. /\ mid \in Seq(Nat) /\ Erases(l, mid, from) /\ to \in 0..Len(mid)
        /\ Inserts(mid, r, to, 1) /\ At(r, to) = At(l, from)
    BY <1>2 DEF IsMoved, TakenOut, PutIn
  <1>4. Both(o, r) = Both(o, l)
    BY <1>1 DEF Both
  <1>5. ToSet(pre) \cap Both(o, r) \subseteq Both(o, l)
    BY <1>4
  <1>6. Describes(move(c, from, to), pre, r, Both(o, r))
    BY <1>1, <1>3, <1>5, MoveDescribes
  <1> QED BY <1>4, <1>6

LEMMA MoveMarksOn ==
    ASSUME NEW l, l \in Seq(Nat), Unique(l), NEW from \in Indices(l), NEW to \in Indices(l),
           NEW r, r = Moved(l, from, to), NEW c, IsBuilder(c), MarksIn(c, l)
    PROVE  SameMarks(c, l, move(c, from, to), r, {})
  <1>1. r \in Seq(Nat)
    BY MovedKeeps
  <1>2. PICK mid : IsMoved(Nat, l, from, to, mid, r)
    BY MovedIs
  <1>3. /\ mid \in Seq(Nat) /\ Erases(l, mid, from) /\ to \in 0..Len(mid)
        /\ Inserts(mid, r, to, 1) /\ At(r, to) = At(l, from)
    BY <1>2 DEF IsMoved, TakenOut, PutIn
  <1> QED BY <1>1, <1>3, MoveMarks

LEMMA MoveStep == LInv /\ link_list_move => LInv'
  <1> SUFFICES ASSUME LInv, link_list_move PROVE LInv'
    OBVIOUS
  <1>1. /\ old \in Seq(Nat) /\ list \in Seq(Nat) /\ Len(old) <= MaxLen /\ Len(list) <= MaxLen
        /\ Unique(list) /\ 0 \notin ToSet(list)
    BY DEF LInv, Lists
  <1>2. PICK from \in Indices(list), to \in Indices(list) :
          Log(Moved(list, from, to), dirty, move(m_change, from, to))
    BY DEF link_list_move
  <1> DEFINE l == Moved(list, from, to)
             c == move(m_change, from, to)
  <1>3. l \in Seq(Nat) /\ ToSet(l) = ToSet(list) /\ Unique(l)
    BY <1>1, MovedKeeps
  <1>4. Log(l, dirty, c)
    BY <1>2
  <1>5. ASSUME NEW pre \in Seq(Nat), Describes(m_change, pre, list, Both(old, list))
        PROVE  Describes(c, pre, l, Both(old, l))
    BY <1>1, <1>5, MoveGoesOn
  <1>8. MarksGoOn(l, dirty, c)
    <2>1. MarksIn(m_change, list) /\ IsBuilder(m_change)
      BY <1>4, LogIsParsed DEF Log
    <2>2. SameMarks(m_change, list, c, l, {})
      BY <1>1, <2>1, MoveMarksOn
    <2> HIDE DEF l, c
    <2> QED BY <2>2, SameGoesOn
  <1> HIDE DEF l, c
  <1>6. Lists(old, l)
    BY <1>1, <1>3, <1>4 DEF Lists, Log
  <1>7. Both(old, l) \subseteq Both(old, list)
    BY <1>3 DEF Both
  <1> QED BY <1>4, <1>5, <1>6, <1>7, <1>8, LogGoesOn

LEMMA SwapRowsStep == LInv /\ swap_rows => LInv'
  <1> SUFFICES ASSUME LInv, swap_rows PROVE LInv'
    OBVIOUS
  <1>1. /\ old \in Seq(Nat) /\ list \in Seq(Nat) /\ Len(old) <= MaxLen /\ Len(list) <= MaxLen
        /\ Unique(list) /\ 0 \notin ToSet(list)
    BY DEF LInv, Lists
  <1>2. PICK i \in Indices(list), j \in Indices(list) :
          /\ i < j
          /\ Log(Moved(Moved(list, i, j), j - 1, i), dirty,
                 IF i + 1 # j THEN move(move(m_change, i, j), j - 1, i) ELSE move(m_change, i, j))
    BY DEF swap_rows
  <1> DEFINE s == Moved(list, i, j)
             f == move(m_change, i, j)
             l == Moved(s, j - 1, i)
             c == IF i + 1 # j THEN move(f, j - 1, i) ELSE f
  <1>3. Log(l, dirty, c)
    BY <1>2
  <1>4. s \in Seq(Nat) /\ ToSet(s) = ToSet(list) /\ Unique(s) /\ Len(s) = Len(list)
    BY <1>1, MovedKeeps
  <1>5. ASSUME NEW pre \in Seq(Nat), Describes(m_change, pre, list, Both(old, list))
        PROVE  Describes(f, pre, s, Both(old, s))
    BY <1>1, <1>5, MoveGoesOn
  <1>12. MarksIn(m_change, list) /\ IsBuilder(m_change) /\ IsBuilder(f)
    <2>1. is_attached
      BY <1>2 DEF Log
    <2> HIDE DEF f, s
    <2> QED BY <1>5, <2>1, LogIsParsed DEF Describes
  <1>13. SameMarks(m_change, list, f, s, {})
    BY <1>1, <1>12, MoveMarksOn
  <1> HIDE DEF s, f
  <1>6. PICK k \in Nat : k = j - 1 /\ k \in Indices(s) /\ i \in Indices(s) /\ (i + 1 = j => k = i)
    <2>1. PICK n \in Nat : n = Len(list) /\ i \in Nat /\ i < n /\ j \in Nat /\ j < n
      BY <1>1, IndexIs
    <2>2. PICK k \in Nat : k = j - 1 /\ k < n /\ (i + 1 = j => k = i)
      <3>1. j - 1 \in Nat /\ j - 1 < n /\ (i + 1 = j => j - 1 = i)
        BY <1>2, <2>1
      <3> QED BY <3>1
    <2> QED BY <1>4, <2>1, <2>2, IndexIs
  <1>7. l = Moved(s, k, i) /\ c = IF i + 1 # j THEN move(f, k, i) ELSE f
    BY <1>6
  <1> HIDE DEF l, c
  <1>8. l \in Seq(Nat) /\ ToSet(l) = ToSet(s) /\ Unique(l)
    BY <1>4, <1>6, <1>7, MovedKeeps
  <1>9. ASSUME NEW pre \in Seq(Nat), Describes(m_change, pre, list, Both(old, list))
        PROVE  Describes(c, pre, l, Both(old, l))
    <2>1. Describes(f, pre, s, Both(old, s))
      BY <1>5, <1>9
    <2>2. CASE i + 1 # j
      <3>1. Describes(move(f, k, i), pre, l, Both(old, l))
        BY <1>4, <1>6, <1>7, <2>1, MoveGoesOn
      <3> QED BY <1>7, <2>2, <3>1
    <2>3. CASE i + 1 = j
      <3>1. l = s
        BY <1>4, <1>6, <1>7, <2>3, MovedNowhere
      <3> QED BY <1>7, <2>1, <2>3, <3>1
    <2> QED BY <2>2, <2>3
  <1>10. Lists(old, l)
    BY <1>1, <1>3, <1>4, <1>8 DEF Lists, Log
  <1>11. Both(old, l) \subseteq Both(old, list)
    BY <1>4, <1>8 DEF Both
  <1>14. SameMarks(m_change, list, c, l, {})
    <2>1. CASE i + 1 # j
      <3>1. SameMarks(f, s, move(f, k, i), l, {})
        BY <1>4, <1>6, <1>7, <1>12, <1>13, MoveMarksOn DEF SameMarks
      <3> QED BY <1>7, <1>13, <2>1, <3>1 DEF SameMarks
    <2>2. CASE i + 1 = j
      <3>1. l = s
        BY <1>4, <1>6, <1>7, <2>2, MovedNowhere
      <3> QED BY <1>7, <1>13, <2>2, <3>1
    <2> QED BY <2>1, <2>2
  <1>15. MarksGoOn(l, dirty, c)
    BY <1>14, SameGoesOn
  <1> QED BY <1>3, <1>9, <1>10, <1>11, <1>15, LogGoesOn

LEMMA ModifyStep == LInv /\ (link_list_set \/ link_list_swap) => LInv'
  <1> SUFFICES ASSUME LInv, link_list_set \/ link_list_swap PROVE LInv'
    OBVIOUS
  <1>1. Lists(old, list)
    BY DEF LInv
  <1>2. CASE link_list_set
    <2>0. PICK i \in Indices(list) : Log(list, dirty \cup {At(list, i)}, modify(m_change, i, npos))
      BY <1>2 DEF link_list_set
    <2>1. PICK d : Log(list, d, modify(m_change, i, npos)) /\ d = dirty \cup {At(list, i)}
      BY <2>0
    <2>2. \A from \in Seq(Nat) : Describes(m_change, from, list, Both(old, list)) =>
             Describes(modify(m_change, i, npos), from, list, Both(old, list))
      BY ModifyDescribes
    <2>3. MarksGoOn(list, d, modify(m_change, i, npos))
      <3>1. MarksIn(m_change, list) /\ IsBuilder(m_change)
        BY <2>1, LogIsParsed DEF Log
      <3>2. /\ MarksIn(modify(m_change, i, npos), list)
            /\ Named(modify(m_change, i, npos), list) = Named(m_change, list) \cup {At(list, i)}
        BY <1>1, <3>1, ModifyMarks DEF Lists
      <3> QED BY <2>1, <3>2 DEF MarksGoOn
    <2> QED BY <1>1, <2>1, <2>2, <2>3, LogGoesOn
  <1>3. CASE link_list_swap
    <2>0. PICK i \in Indices(list), j \in Indices(list) :
            Log(list, dirty \cup {At(list, i), At(list, j)}, modify(modify(m_change, i, npos), j, npos))
      BY <1>3 DEF link_list_swap
    <2>1. PICK d : /\ Log(list, d, modify(modify(m_change, i, npos), j, npos))
                   /\ d = dirty \cup {At(list, i), At(list, j)}
      BY <2>0
    <2>2. \A from \in Seq(Nat) : Describes(m_change, from, list, Both(old, list)) =>
             Describes(modify(modify(m_change, i, npos), j, npos), from, list, Both(old, list))
      BY ModifyDescribes
    <2>3. MarksGoOn(list, d, modify(modify(m_change, i, npos), j, npos))
      <3>1. PICK f : f = modify(m_change, i, npos)
        OBVIOUS
      <3>2. MarksIn(m_change, list) /\ IsBuilder(m_change) /\ IsBuilder(f)
        <4>1. is_attached
          BY <2>1 DEF Log
        <4> QED BY <3>1, <4>1, LogIsParsed, ModifyDescribes DEF Describes
      <3>3. MarksIn(f, list) /\ Named(f, list) = Named(m_change, list) \cup {At(list, i)}
        BY <1>1, <3>1, <3>2, ModifyMarks DEF Lists
      <3>4. /\ MarksIn(modify(f, j, npos), list)
            /\ Named(modify(f, j, npos), list) = Named(f, list) \cup {At(list, j)}
        BY <1>1, <3>2, <3>3, ModifyMarks DEF Lists
      <3>5. Named(modify(f, j, npos), list) = Named(m_change, list) \cup {At(list, i), At(list, j)}
        BY <3>3, <3>4
      <3> QED BY <2>1, <3>1, <3>4, <3>5 DEF MarksGoOn
    <2> QED BY <1>1, <2>1, <2>2, <2>3, LogGoesOn
  <1> QED BY <1>2, <1>3

LEMMA BlankIs == Blank \in Seq(Nat) /\ Len(Blank) = AllRows /\ AllRows \in Nat /\ ToSet(Blank) \subseteq {0}
  <1>1. AllRows \in Nat
    BY ListAssumption DEF AllRows
  <1>2. Blank \in [1..AllRows -> Nat] /\ \A i \in 1..AllRows : Blank[i] = 0
    BY DEF Blank
  <1>3. Blank \in Seq(Nat) /\ Len(Blank) = AllRows /\ DOMAIN Blank = 1..AllRows
    BY <1>1, <1>2, FunctionIsSeq
  <1> QED BY <1>1, <1>2, <1>3 DEF ToSet

LEMMA NoEntries ==
    ASSUME NEW o, NEW l, Lists(o, l)
    PROVE  Lists(o, <<>>) /\ Both(o, <<>>) = {} /\ <<>> \in Seq(Nat) /\ Len(<<>>) = 0
  <1>1. <<>> \in Seq(Nat) /\ Len(<<>>) = 0 /\ ToSet(<<>>) = {} /\ Indices(<<>>) = {}
    BY DEF ToSet, Indices
  <1>2. Unique(<<>>)
    BY <1>1 DEF Unique
  <1>3. 0 <= MaxLen
    BY ListAssumption
  <1> QED BY <1>1, <1>2, <1>3 DEF Lists, Both

LEMMA ClearStep == LInv /\ link_list_clear => LInv'
  <1> SUFFICES ASSUME LInv, link_list_clear PROVE LInv'
    OBVIOUS
  <1>1. Lists(old, list) /\ list \in Seq(Nat)
    BY DEF LInv, Lists
  <1>2. Lists(old, <<>>) /\ Both(old, <<>>) = {}
    BY <1>1, NoEntries
  <1>3. CASE ~primitive
    <2>1. Log(<<>>, {}, clear(m_change, Len(list), AllRows))
      BY <1>3 DEF link_list_clear
    <2>2. \A from \in Seq(Nat) : Describes(m_change, from, list, Both(old, list)) =>
             Describes(clear(m_change, Len(list), AllRows), from, <<>>, {})
      BY <1>1, ClearDescribes
    <2>3. MarksGoOn(<<>>, {}, clear(m_change, Len(list), AllRows))
      <3>1. DOMAIN m_change.cols = {0}
        BY <2>1, LogIsParsed DEF Log, MarksIn
      <3>2. MarksIn(clear(m_change, Len(list), AllRows), <<>>)
        BY <3>1, ClearMarks
      <3> QED BY <1>2, <3>2 DEF MarksGoOn
    <2> QED BY <1>2, <2>1, <2>2, <2>3, LogGoesOn
  <1>4. CASE primitive
    <2> DEFINE c == clear(m_change, npos, AllRows)
    <2>1. Log(<<>>, {}, c)
      BY <1>4 DEF link_list_clear
    <2>2. Describes(c, Blank, <<>>, {}) /\ Blank \in Seq(Nat)
      <3>1. Describes(clear(m_change, npos, Len(Blank)), Blank, <<>>, {})
        BY BlankIs, ClearAllDescribes
      <3> QED BY <3>1, BlankIs
    <2>8. MarksIn(c, <<>>)
      <3>1. DOMAIN m_change.cols = {0}
        BY <2>1, LogIsParsed DEF Log, MarksIn
      <3> QED BY <3>1, ClearMarks
    <2> HIDE DEF c
    <2>3. /\ is_attached /\ list' = <<>> /\ m_change' = c /\ logged' = TRUE
          /\ primitive' = primitive /\ old' = old /\ is_attached' = is_attached
          /\ m_prev_size' = m_prev_size /\ accumulated' = accumulated
          /\ dirty' = {} \cap ToSet(<<>>) /\ touched' = touched \cap ToSet(<<>>)
      BY <2>1 DEF Log
    <2>4. PICK mid : /\ Ran(mid, accumulated, old, list, m_prev_size)
                     /\ Remembers(mid, accumulated, m_change, old, list, dirty, touched)
      BY DEF LInv
    <2>9. Remembers(mid, accumulated, c, old, <<>>, dirty', touched')
      BY <1>2, <2>4, <2>8 DEF Remembers
    <2>5. Ran(mid, accumulated, old, <<>>, m_prev_size)
      BY <1>2, <2>4 DEF Ran
    <2>6. Parsed(Blank, mid, c, old, <<>>, primitive)
      BY <1>2, <1>4, <2>2 DEF Parsed
    <2>7. primitive \in BOOLEAN /\ is_attached \in BOOLEAN /\ touched' = {}
      BY <1>4, <2>3 DEF LInv
    <2> QED BY <1>2, <2>3, <2>5, <2>6, <2>7, <2>9 DEF LInv
  <1> QED BY <1>3, <1>4

LEMMA TargetStep == LInv /\ ModifyTarget => LInv'
  <1> SUFFICES ASSUME LInv, ModifyTarget PROVE LInv'
    OBVIOUS
  <1>1. PICK x : touched' = touched \cup {x} /\ dirty' = dirty \cup {x}
    BY DEF ModifyTarget
  <1>2. /\ ~primitive
        /\ UNCHANGED <<primitive, old, list, is_attached, m_change, m_prev_size, accumulated, logged>>
    BY DEF ModifyTarget
  <1>3. \A mid : Remembers(mid, accumulated, m_change, old, list, dirty, touched) =>
                   Remembers(mid, accumulated, m_change, old, list, dirty \cup {x}, touched \cup {x})
    BY DEF Remembers
  <1> QED BY <1>1, <1>2, <1>3 DEF LInv

LEMMA DeletedStep == LInv /\ DeleteAfterChanges = FALSE /\ erase_rows => LInv'
  <1> SUFFICES ASSUME LInv, DeleteAfterChanges = FALSE, erase_rows PROVE LInv'
    OBVIOUS
  <1>1. /\ ~logged /\ list' = <<>> /\ m_change' = m_change /\ logged' = TRUE
        /\ primitive' = primitive /\ old' = old /\ is_attached' = FALSE
        /\ m_prev_size' = m_prev_size /\ accumulated' = accumulated
        /\ dirty' = {} /\ touched' = {}
    BY DEF erase_rows
  <1>2. PICK mid : /\ Ran(mid, accumulated, old, list, m_prev_size)
                   /\ ~logged => mid = list /\ m_change = None
                   /\ Remembers(mid, accumulated, m_change, old, list, dirty, touched)
    BY DEF LInv
  <1>3. Lists(old, <<>>) /\ Both(old, <<>>) = {}
    BY NoEntries DEF LInv
  <1>4. Ran(mid, accumulated, old, <<>>, m_prev_size)
    BY <1>2, <1>3 DEF Ran
  <1>5. primitive \in BOOLEAN
    BY DEF LInv
  <1>6. Remembers(mid, accumulated, None, old, <<>>, {}, {})
    BY <1>2, <1>3, NoneMarks DEF Remembers
  <1> QED BY <1>1, <1>2, <1>3, <1>4, <1>5, <1>6 DEF LInv

(* The notifier runs.                                                      *)

LEMMA AttachedDescribes ==
    ASSUME LInv, NEW mid, NEW from, Ran(mid, accumulated, old, list, m_prev_size),
           NEW c, Parsed(from, mid, c, old, list, primitive)
    PROVE  Describes(Attached(c), mid, list, Both(old, list))
  <1>1. /\ mid \in Seq(Nat) /\ Len(mid) = m_prev_size /\ Len(mid) <= MaxLen
        /\ from \in Seq(Nat) /\ Describes(c, from, list, Both(old, list))
        /\ list \in Seq(Nat) /\ 0 \notin ToSet(list) /\ Len(list) <= MaxLen
    BY DEF LInv, Lists, Ran, Parsed
  <1>2. CASE ~primitive
    <2>1. from = mid
      BY <1>2 DEF Parsed
    <2>2. \E cols : Attached(c) = PutCols(c, cols)
      BY <1>2 DEF Attached, PutCols
    <2> QED BY <1>1, <2>1, <2>2, ColsDescribe
  <1>3. CASE primitive
    <2> DEFINE D == SpanOf(0, m_prev_size)
    <2>1. Attached(c) = IF c.deletions = SpanOf(0, AllRows) THEN PutDeletions(c, D) ELSE c
      BY <1>3 DEF Attached, PutDeletions
    <2>2. D = Indices(mid) /\ D \in IndexSets
      BY <1>1, IndicesAre
    <2>3. IsBuilder(c) /\ Carries(c, from, list)
      BY <1>1 DEF Describes
    <2> HIDE DEF D
    <2>4. CASE from = mid /\ c.deletions = SpanOf(0, AllRows)
      <3>1. c.deletions = D
        <4>1. PICK n \in Nat, a \in Nat : n = m_prev_size /\ a = AllRows /\ n <= MaxLen /\ a = 2 * MaxLen
          BY <1>1, BlankIs, LenProperties DEF AllRows
        <4>2. 0..(a - 1) \subseteq 0..(n - 1)
          BY <1>1, <2>2, <2>3, <2>4, <4>1 DEF Carries, SpanOf, Indices
        <4>3. MaxLen \in Nat
          BY ListAssumption
        <4>4. a <= n
          <5>1. CASE a = 0
            BY <5>1, <4>1
          <5>2. CASE a # 0
            <6>1. a - 1 \in 0..(a - 1)
              BY <4>1, <5>2
            <6>2. a - 1 \in 0..(n - 1)
              BY <4>2, <6>1
            <6> QED BY <4>1, <6>2
          <5> QED BY <5>1, <5>2
        <4>5. a = n
          BY <4>1, <4>3, <4>4
        <4> QED BY <2>4, <4>1, <4>5 DEF D
      <3>2. PICK r : r = PutDeletions(c, D) /\ r = Attached(c)
        BY <2>1, <2>4
      <3>3. IsBuilder(r) /\ r.deletions = D /\ r.insertions = c.insertions /\ r.moves = c.moves
        <4>1. r = PutDeletions(c, D)
          BY <3>2
        <4> QED BY ONLY <2>2, <2>3, <4>1, WithDeletions
      <3>4. Carries(r, mid, list)
        BY <2>3, <2>4, <3>1, <3>3, SameCarries
      <3> QED BY <1>1, <2>4, <3>1, <3>2, <3>3, <3>4 DEF Describes, Joins, Tracks
    <2>5. CASE from = mid /\ c.deletions # SpanOf(0, AllRows)
      BY <1>1, <2>1, <2>5
    <2>6. CASE from = Blank /\ Both(old, list) = {}
      <3>1. ToSet(Blank) \cap ToSet(list) = {}
        BY <1>1, BlankIs
      <3>2. c.deletions = Indices(Blank) /\ c.insertions = Indices(list) /\ DOMAIN c.moves = {}
        BY <1>1, <2>6, <3>1, AllReplaced
      <3>3. Indices(Blank) = SpanOf(0, AllRows)
        BY BlankIs, IndicesAre
      <3>4. PICK r : r = PutDeletions(c, D) /\ r = Attached(c)
        BY <2>1, <3>2, <3>3
      <3>5. IsBuilder(r) /\ r.deletions = D /\ r.insertions = c.insertions /\ r.moves = c.moves
        <4>1. r = PutDeletions(c, D)
          BY <3>4
        <4> QED BY ONLY <2>2, <2>3, <4>1, WithDeletions
      <3>6. Describes(r, mid, list, {})
        BY <1>1, <2>2, <3>2, <3>5, AllDescribes
      <3> QED BY <2>6, <3>4, <3>6
    <2> QED BY <2>4, <2>5, <2>6 DEF Parsed
  <1> QED BY <1>2, <1>3

(* run() marks the entries whose target was modified.                      *)
LEMMA RunMarks ==
    ASSUME LInv
    PROVE  /\ MarksIn(run, list)
           /\ Named(run, list) \cap Both(old, list) =
              (Named(m_change, list) \cup touched) \cap Both(old, list)
  <1>1. list \in Seq(Nat) /\ MarksIn(m_change, list)
    BY DEF LInv, Lists, Remembers
  <1>2. CASE is_attached
    <2> DEFINE c == clean_up_stale_moves(m_change)
               T == {i \in Indices(list) : At(list, i) \in touched}
    <2>1. HasCols(c, m_change.cols)
      BY <1>2, LogIsParsed, CleanUpCols
    <2>2. run = Attached(c)
      BY <1>2 DEF run
    <2> HIDE DEF c
    <2>3. CASE ~primitive
      <3> DEFINE cols == [c.cols EXCEPT ![0] = @ \cup T]
      <3>1. run = PutCols(c, cols)
        BY <2>2, <2>3 DEF Attached, PutCols
      <3>2. run.cols = cols /\ c.cols = m_change.cols
        <4> HIDE DEF cols
        <4> QED BY <2>1, <3>1, ColsAre
      <3>3. DOMAIN run.cols = {0} /\ run.cols[0] = m_change.cols[0] \cup T
        BY <1>1, <3>2 DEF MarksIn
      <3>4. MarksIn(run, list)
        BY <1>1, <3>3 DEF MarksIn
      <3>5. Named(run, list) = Named(m_change, list) \cup {At(list, i) : i \in T}
        BY <3>3 DEF Named
      <3>6. \A x \in Both(old, list) : x \in touched <=> x \in {At(list, i) : i \in T}
        <4>1. \A x \in Both(old, list) : \E i \in Indices(list) : At(list, i) = x
          BY <1>1, InSomeIndex DEF Both
        <4> QED BY <4>1
      <3> QED BY <3>4, <3>5, <3>6
    <2>4. CASE primitive
      <3>1. touched = {}
        BY <2>4 DEF LInv
      <3>2. run = c \/ run = PutDeletions(c, SpanOf(0, m_prev_size))
        BY <2>2, <2>4 DEF Attached, PutDeletions
      <3>3. run.cols = m_change.cols
        BY <2>1, <3>2 DEF HasCols, Record, PutDeletions
      <3>4. MarksIn(run, list) /\ Named(run, list) = Named(m_change, list)
        BY <1>1, <3>3 DEF MarksIn, Named
      <3> QED BY <3>1, <3>4
    <2> QED BY <2>3, <2>4
  <1>3. CASE ~is_attached
    <2>1. Both(old, list) = {} /\ m_change = None
      BY <1>3, NoEntries DEF LInv
    <2>2. run = None \/ run = PutDeletions(None, SpanOf(0, m_prev_size))
      BY <1>3, <2>1 DEF run, PutDeletions
    <2>3. run.cols = None.cols
      BY <2>2, NoneIs, ColsOf
    <2>4. MarksIn(run, list)
      BY <1>1, <2>1, <2>3 DEF MarksIn
    <2> QED BY <2>1, <2>4
  <1> QED BY <1>2, <1>3 DEF LInv

LEMMA RunDescribes ==
    ASSUME LInv
    PROVE  \E mid : /\ Ran(mid, accumulated, old, list, m_prev_size)
                    /\ Describes(run, mid, list, Both(old, list))
                    /\ Remembers(mid, accumulated, m_change, old, list, dirty, touched)
  <1>1. PICK mid : /\ Ran(mid, accumulated, old, list, m_prev_size)
                   /\ ~logged => mid = list /\ m_change = None
                   /\ is_attached => \E from : Parsed(from, mid, m_change, old, list, primitive)
                   /\ Remembers(mid, accumulated, m_change, old, list, dirty, touched)
    BY DEF LInv
  <1>2. mid \in Seq(Nat) /\ Len(mid) = m_prev_size /\ list \in Seq(Nat)
    BY <1>1 DEF LInv, Lists, Ran
  <1>3. CASE is_attached
    <2>1. PICK from : Parsed(from, mid, m_change, old, list, primitive)
      BY <1>1, <1>3
    <2> DEFINE c == clean_up_stale_moves(m_change)
    <2>2. Describes(c, from, list, Both(old, list))
      BY <1>2, <2>1, CleanUpDescribes DEF Parsed
    <2> HIDE DEF c
    <2>3. Parsed(from, mid, c, old, list, primitive)
      BY <2>1, <2>2 DEF Parsed
    <2>4. Describes(Attached(c), mid, list, Both(old, list))
      BY <1>1, <2>3, AttachedDescribes
    <2>5. run = Attached(c)
      BY <1>3 DEF run, c
    <2> QED BY <1>1, <2>4, <2>5
  <1>4. CASE ~is_attached
    <2>1. list = <<>> /\ m_change = None /\ Lists(old, list)
      BY <1>4 DEF LInv
    <2>2. Both(old, list) = {} /\ Indices(list) = {}
      <3>1. Indices(<<>>) = {}
        BY DEF Indices
      <3> QED BY <2>1, <3>1, NoEntries
    <2>3. CASE m_prev_size = 0
      <3>1. run = None
        BY <1>4, <2>3 DEF run
      <3>2. mid = <<>>
        BY <1>2, <2>3, EmptySeq
      <3>3. Describes(None, mid, mid, Both(old, list))
        BY <1>2, NoneIs
      <3> QED BY <1>1, <2>1, <3>1, <3>2, <3>3
    <2>4. CASE m_prev_size # 0
      <3>1. run = PutDeletions(None, SpanOf(0, m_prev_size))
        BY <1>4, <2>1, <2>4 DEF run, PutDeletions
      <3>2. SpanOf(0, m_prev_size) = Indices(mid) /\ Indices(mid) \in IndexSets
        BY <1>2, IndicesAre
      <3>3. PICK r : r = run
        OBVIOUS
      <3>4. IsBuilder(r) /\ r.deletions = Indices(mid) /\ r.insertions = None.insertions /\ r.moves = None.moves
        BY <3>1, <3>2, <3>3, NoneIs, WithDeletions
      <3>5. Describes(r, mid, list, {})
        BY <1>2, <2>2, <3>4, NoneIs, AllDescribes
      <3> QED BY <1>1, <2>2, <3>3, <3>5
    <2> QED BY <2>3, <2>4
  <1> QED BY <1>3, <1>4

LEMMA RunStep == LInv /\ RunNotifier => LInv'
  <1> SUFFICES ASSUME LInv, RunNotifier PROVE LInv'
    OBVIOUS
  <1>1. /\ m_prev_size' = Len(list) /\ accumulated' = merge(accumulated, run)
        /\ m_change' = None /\ logged' = FALSE /\ touched' = {} /\ dirty' = dirty
        /\ primitive' = primitive /\ old' = old /\ list' = list /\ is_attached' = is_attached
    BY DEF RunNotifier
  <1>2. PICK mid : /\ Ran(mid, accumulated, old, list, m_prev_size)
                   /\ Describes(run, mid, list, Both(old, list))
                   /\ Remembers(mid, accumulated, m_change, old, list, dirty, touched)
    BY RunDescribes
  <1>3. Lists(old, list) /\ old \in Seq(Nat) /\ list \in Seq(Nat) /\ Len(list) <= MaxLen
    BY DEF LInv, Lists
  <1>4. Describes(merge(accumulated, run), old, list, ToSet(list))
    <2>1. /\ mid \in Seq(Nat) /\ Describes(accumulated, old, mid, ToSet(mid))
          /\ Describes(run, mid, list, ToSet(old) \cap ToSet(list))
          /\ ToSet(old) \cap ToSet(list) \subseteq ToSet(mid)
      BY <1>2 DEF Ran, Both
    <2> QED BY <1>3, <2>1, MergeDescribes
  <1>5. Ran(list, merge(accumulated, run), old, list, Len(list))
    BY <1>3, <1>4 DEF Ran, Both
  <1>6. Parsed(list, list, None, old, list, primitive)
    BY <1>3, NoneIs DEF Parsed
  <1>7. is_attached \in BOOLEAN /\ primitive \in BOOLEAN /\ (~is_attached => list = <<>>)
    BY DEF LInv
  <1>8. Remembers(list, merge(accumulated, run), None, old, list, dirty, {})
    <2>1. PICK r, K : r = run /\ K = Both(old, list)
      OBVIOUS
    <2>2. MarksIn(r, list) /\ Named(r, list) \cap K = (Named(m_change, list) \cup touched) \cap K
      BY <2>1, RunMarks
    <2>3. /\ mid \in Seq(Nat) /\ Describes(accumulated, old, mid, ToSet(mid)) /\ Describes(r, mid, list, K)
          /\ K \subseteq ToSet(old) \cap ToSet(mid) /\ Unique(mid) /\ MarksIn(accumulated, mid)
      BY <1>2, <2>1 DEF Ran, Both, Remembers
    <2>4. /\ MarksIn(merge(accumulated, r), list)
          /\ Named(merge(accumulated, r), list) \cap K = (Named(accumulated, mid) \cup Named(r, list)) \cap K
      BY <1>3, <2>2, <2>3, MergeMarks
    <2>5. dirty \cap K = (Named(accumulated, mid) \cup Named(m_change, list) \cup touched) \cap K
      BY <1>2, <2>1 DEF Remembers
    <2>6. MarksIn(None, list) /\ Named(None, list) = {}
      BY NoneMarks
    <2>7. dirty \cap K = (Named(merge(accumulated, r), list) \cup Named(None, list) \cup {}) \cap K
      BY <2>2, <2>4, <2>5, <2>6
    <2>8. Unique(list)
      BY <1>3 DEF Lists
    <2> QED BY <2>1, <2>4, <2>6, <2>7, <2>8 DEF Remembers
  <1> QED BY <1>1, <1>3, <1>5, <1>6, <1>7, <1>8 DEF LInv

LEMMA DeliverStep == LInv /\ Deliver => LInv'
  <1> SUFFICES ASSUME LInv, Deliver PROVE LInv'
    OBVIOUS
  <1>1. /\ ~logged /\ accumulated' = None /\ old' = Entries(Len(list)) /\ list' = old'
        /\ primitive' = primitive /\ is_attached' = is_attached /\ m_change' = m_change
        /\ m_prev_size' = m_prev_size /\ logged' = logged /\ dirty' = {} /\ touched' = {}
    BY DEF Deliver
  <1>2. /\ Len(list) \in Nat /\ Len(list) <= MaxLen /\ m_prev_size = Len(list) /\ m_change = None
        /\ is_attached \in BOOLEAN /\ primitive \in BOOLEAN /\ (~is_attached => list = <<>>)
    BY <1>1, LenProperties DEF LInv, Lists, Ran
  <1> DEFINE s == Entries(Len(list))
  <1>3. Lists(s, s) /\ Len(s) = Len(list) /\ s \in Seq(Nat)
    BY <1>2, EntriesOf
  <1> HIDE DEF s
  <1>4. /\ Ran(s, None, s, s, m_prev_size) /\ Parsed(s, s, None, s, s, primitive)
        /\ Remembers(s, None, None, s, s, {}, {})
    BY <1>2, <1>3, StartsOver
  <1>5. ~is_attached => s = <<>>
    <2>1. Len(<<>>) = 0
      OBVIOUS
    <2> QED BY <1>2, <1>3, <2>1, EmptySeq
  <1>6. list' = s /\ old' = s
    BY <1>1 DEF s
  <1> QED BY <1>1, <1>2, <1>3, <1>4, <1>5, <1>6 DEF LInv

LEMMA ListStep ==
    ASSUME LInv, DeleteAfterChanges = FALSE, [Next]_vars
    PROVE  LInv'
  <1>1. CASE UNCHANGED vars
    BY <1>1 DEF vars, LInv
  <1> QED BY <1>1, InsertStep, EraseStep, MoveStep, SwapRowsStep, ModifyStep, ClearStep, TargetStep,
             DeletedStep, RunStep, DeliverStep DEF Next

(* Whatever a sequence of transactions does to a list of any length, as    *)
(* long as none of them changes it and then deletes its owner: the changes *)
(* merge() has gathered when the notifier has run turn the list that the   *)
(* callback knows into the list there is, their moves join the two indices *)
(* of an entry, and every entry that is deleted and still there is moved.  *)
THEOREM ChangesAreReplayed ==
    ASSUME DeleteAfterChanges = FALSE
    PROVE  Spec => []ChangesReplay
  <1>1. Init => LInv
    BY ListInit
  <1>2. LInv /\ [Next]_vars => LInv'
    BY ListStep
  <1>3. LInv => ChangesReplay
    <2> SUFFICES ASSUME LInv, Settled PROVE ChangesReplay
      BY DEF ChangesReplay
    <2>1. /\ Describes(accumulated, old, list, ToSet(list))
          /\ old \in Seq(Nat) /\ list \in Seq(Nat)
      BY DEF LInv, Ran, Settled, Lists
    <2>2. /\ IsBuilder(accumulated) /\ IsChange(accumulated) /\ Carries(accumulated, old, list)
          /\ Joins(accumulated, old, list) /\ Tracks(accumulated, old, ToSet(list))
      BY <2>1, BuilderParts DEF Describes
    <2>3. Replays(accumulated, old, list)
      BY <2>1, <2>2, ReplaysIs
    <2>4. MovesJoin(accumulated, old, list)
      BY <2>2, JoinsIs
    <2>5. \A i \in accumulated.deletions : At(old, i) \in ToSet(list) =>
             \E m \in ToSet(accumulated.moves) : m.from = i
      BY <2>2 DEF Tracks, ToSet
    <2> QED BY <2>3, <2>4, <2>5 DEF ChangesReplay
  <1> QED BY <1>1, <1>2, <1>3, PTL DEF Spec

(* The modified entries that stayed, by their indices.                     *)
LEMMA ModifiedIndices ==
    ASSUME NEW E, NEW o \in Seq(E), NEW l \in Seq(E), NEW c, IsChange(c), Carries(c, o, l),
           Unique(l), MarksIn(c, l),
           NEW d, d \cap Both(o, l) = Named(c, l) \cap Both(o, l)
    PROVE  ModifiedStayed(c, o, l, d)
  <1> DEFINE stayed == {At(o, i) : i \in Indices(o) \ c.deletions}
             M == c.cols[0]
  <1>1. c.deletions \in IndexSets /\ c.insertions \in IndexSets /\ M \subseteq Indices(l)
    BY DEF IsChange, MarksIn
  <1>2. ASSUME NEW i \in Indices(o) \ c.deletions
        PROVE  /\ Follow(c, i) \in Indices(l) \ c.insertions /\ At(l, Follow(c, i)) = At(o, i)
               /\ Back(c, Follow(c, i)) = i /\ At(o, i) \in Both(o, l)
    <2>1. i \in Nat \ c.deletions /\ At(o, i) \in ToSet(o)
      BY InToSet
    <2>2. Follow(c, i) \in Indices(l) /\ At(l, Follow(c, i)) = At(o, i)
      BY <2>1, FollowBound DEF Carries
    <2>3. Back(c, Follow(c, i)) = i /\ Follow(c, i) \notin c.insertions
      BY <2>1, BackIs
    <2>4. At(l, Follow(c, i)) \in ToSet(l)
      BY <2>2, InToSet
    <2> QED BY <2>1, <2>2, <2>3, <2>4 DEF Both
  <1>3. ASSUME NEW t \in M \ c.insertions
        PROVE  Back(c, t) \in Indices(o) \ c.deletions /\ Follow(c, Back(c, t)) = t
    <2>1. t \in Nat \ c.insertions /\ t \in Indices(l)
      BY <1>1, InToSet
    <2>2. Back(c, t) \in Nat \ c.deletions /\ Follow(c, Back(c, t)) = t
      BY <2>1, BackIs
    <2> QED BY <2>1, <2>2, FollowBound
  <1>4. modifications_in_old(c) = {Back(c, t) : t \in M \ c.insertions}
    BY DEF modifications_in_old, shift_for_insert_at, erase_at, Back
  <1>5. modifications_new(c) = M \ c.insertions
    BY DEF modifications_new
  <1>6. ASSUME NEW t \in M \ c.insertions
        PROVE  At(l, t) = At(o, Back(c, t)) /\ At(l, t) \in d \cap stayed
    <2>1. PICK i \in Indices(o) \ c.deletions : i = Back(c, t) /\ Follow(c, i) = t
      BY <1>3
    <2>2. At(l, t) = At(o, i) /\ At(o, i) \in Both(o, l)
      BY <1>2, <2>1
    <2>3. At(l, t) \in Named(c, l)
      BY DEF Named
    <2> QED BY <2>1, <2>2, <2>3
  <1>7. ASSUME NEW x \in d \cap stayed
        PROVE  \E t \in M \ c.insertions : x = At(l, t)
    <2>1. PICK i \in Indices(o) \ c.deletions : x = At(o, i)
      OBVIOUS
    <2>2. /\ Follow(c, i) \in Indices(l) \ c.insertions /\ At(l, Follow(c, i)) = x
          /\ x \in Both(o, l)
      BY <1>2, <2>1
    <2>3. PICK t \in M : At(l, t) = x
      BY <2>2 DEF Named
    <2>4. t = Follow(c, i)
      BY <1>1, <2>2, <2>3 DEF Unique
    <2> QED BY <2>2, <2>3, <2>4
  <1> HIDE DEF stayed
  <1>8. {At(l, i) : i \in modifications_new(c)} = d \cap stayed
    BY <1>5, <1>6, <1>7
  <1>9. {At(o, i) : i \in modifications_in_old(c)} = d \cap stayed
    <2>1. {At(o, i) : i \in modifications_in_old(c)} = {At(o, Back(c, t)) : t \in M \ c.insertions}
      BY <1>4
    <2>2. {At(o, Back(c, t)) : t \in M \ c.insertions} = {At(l, t) : t \in M \ c.insertions}
      BY <1>6
    <2> QED BY <1>5, <1>8, <2>1, <2>2
  <1> QED BY <1>8, <1>9 DEF ModifiedStayed, stayed

(* Under the same hypothesis, and for lists of links and of values: the    *)
(* indices that finalize() reports as modified, in the list the callback   *)
(* knows and in the list there is, are those of the entries that were set, *)
(* swapped or whose target object was modified since, in any transaction,  *)
(* and that stayed in place; merge() loses no mark of an entry that moves. *)
THEOREM ModifiedEntriesAreExact ==
    ASSUME DeleteAfterChanges = FALSE
    PROVE  Spec => []ModifiedAreExact
  <1>1. Init => LInv
    BY ListInit
  <1>2. LInv /\ [Next]_vars => LInv'
    BY ListStep
  <1>3. LInv => ModifiedAreExact
    <2> SUFFICES ASSUME LInv, Settled PROVE ModifiedAreExact
      BY DEF ModifiedAreExact
    <2>1. PICK mid : /\ Ran(mid, accumulated, old, list, m_prev_size)
                     /\ mid = list /\ m_change = None
                     /\ Remembers(mid, accumulated, m_change, old, list, dirty, touched)
      BY DEF LInv, Settled
    <2>2. old \in Seq(Nat) /\ list \in Seq(Nat) /\ Unique(list)
      BY DEF LInv, Lists
    <2>3. /\ IsChange(accumulated) /\ Carries(accumulated, old, list) /\ Joins(accumulated, old, list)
      BY <2>1, BuilderParts DEF Ran, Describes
    <2>4. /\ MarksIn(accumulated, list)
          /\ dirty \cap Both(old, list) = Named(accumulated, list) \cap Both(old, list)
      BY <2>1, NoneMarks DEF Remembers, Settled
    <2>5. ModifiedStayed(accumulated, old, list, dirty)
      BY <2>2, <2>3, <2>4, ModifiedIndices
    <2>6. ASSUME NEW k \in DOMAIN accumulated.moves, At(list, accumulated.moves[k].to) \in dirty
          PROVE  accumulated.moves[k].to \in accumulated.cols[0]
      <3>1. PICK f \in Indices(old), t \in Indices(list) :
              f = accumulated.moves[k].from /\ t = accumulated.moves[k].to /\ At(old, f) = At(list, t)
        BY <2>3 DEF Joins, Carries
      <3>2. At(list, t) \in Both(old, list)
        BY <2>2, <3>1, InToSet DEF Both
      <3>3. PICK i \in accumulated.cols[0] : At(list, i) = At(list, t)
        BY <2>4, <2>6, <3>1, <3>2 DEF Named
      <3> QED BY <2>2, <2>4, <3>1, <3>3 DEF MarksIn, Unique
    <2>7. \A m \in ToSet(accumulated.moves) : At(list, m.to) \in dirty => m.to \in accumulated.cols[0]
      BY <2>6 DEF ToSet
    <2> QED BY <2>5, <2>7 DEF ModifiedAreExact
  <1> QED BY <1>1, <1>2, <1>3, PTL DEF Spec

=============================================================================

------------------------------ MODULE IndexSet ------------------------------
(***************************************************************************)
(* realm::IndexSet as it is stored: a vector of chunks, each with at most  *)
(* max_size ranges [first, second), the bounds of the chunk, and a cached  *)
(* count of its indices.  An iterator is a pair <<outer, inner>>; end() is *)
(* the first position of the chunk behind the last.                        *)
(***************************************************************************)
EXTENDS Integers, FiniteSets, SequencesExt

CONSTANTS
    max_size,   \* ranges per chunk: 4 in debug builds, 256 in others
    MaxIndex,   \* bound: no index is larger
    MaxArg,     \* bound: no index of a set argument is larger,
    MaxPair,    \* nor one of the two of add_shifted_by,
    MaxStart,   \* nor the start of a count
    LateChunks  \* whether add_shifted_by outgrows the chunks made beforehand

ASSUME IndexSetAssumption ==
    /\ max_size \in Nat /\ max_size > 0 /\ max_size % 2 = 0
    /\ {MaxIndex, MaxArg, MaxPair, MaxStart} \subseteq Nat
    /\ LateChunks \in BOOLEAN

VARIABLES m_data, call, ret

vars == <<m_data, call, ret>>

npos == -1
Size(r) == r[2] - r[1]
SumSizes(data) == FoldLeft(LAMBDA n, r : n + Size(r), 0, data)

-----------------------------------------------------------------------------
(* Iterators.                                                              *)
Begin     == <<1, 1>>
End(m)    == <<Len(m) + 1, 1>>
At(m, p)  == m[p[1]].data[p[2]]
Succ(m, p) == IF p[2] < Len(m[p[1]].data) THEN <<p[1], p[2] + 1>>
                                          ELSE <<p[1] + 1, 1>>
Prev(m, p) == IF p[2] > 1 THEN <<p[1], p[2] - 1>>
                          ELSE <<p[1] - 1, Len(m[p[1] - 1].data)>>

(* set(): the range at p becomes r; the chunk's bounds and count follow.   *)
SetRange(m, p, r) ==
    LET c == m[p[1]]
    IN  [m EXCEPT ![p[1]] =
           [data  |-> [c.data EXCEPT ![p[2]] = r],
            begin |-> IF p[2] = 1 THEN r[1] ELSE c.begin,
            end   |-> IF p[2] = Len(c.data) THEN r[2] ELSE c.end,
            count |-> c.count - Size(c.data[p[2]]) + Size(r)]]

adjust(m, p, front, back) ==
    SetRange(m, p, <<At(m, p)[1] + front, At(m, p)[2] + back>>)

(* shift() of every range from p to the end.                               *)
ShiftChunk(c, k, d) ==
    LET rest == SubSeq(c.data, k, Len(c.data))
    IN  [c EXCEPT !.data  = SubSeq(@, 1, k - 1)
                              \o [i \in DOMAIN rest |-> <<rest[i][1] + d,
                                                          rest[i][2] + d>>],
                  !.begin = IF k = 1 THEN @ + d ELSE @,
                  !.end   = @ + d]

ShiftFrom(m, p, d) ==
    SubSeq(m, 1, p[1] - 1)
      \o [k \in 1..(Len(m) - p[1] + 1) |->
            ShiftChunk(m[p[1] + k - 1], IF k = 1 THEN p[2] ELSE 1, d)]

-----------------------------------------------------------------------------
(* ChunkedRangeVector.                                                     *)
NewChunk(r) == [data |-> <<r>>, begin |-> r[1], end |-> r[2],
                count |-> Size(r)]

push_back(m, r) ==
    IF m # <<>> /\ Len(Last(m).data) < max_size
    THEN [m EXCEPT ![Len(m)] = [@ EXCEPT !.data = Append(@, r),
                                         !.count = @ + Size(r),
                                         !.end = r[2]]]
    ELSE Append(m, NewChunk(r))

(* A full chunk is split in half; the iterator follows its range.          *)
Split(m, o) ==
    LET c    == m[o]
        half == max_size \div 2
        keep == SubSeq(c.data, 1, Len(c.data) - half)
        move == SubSeq(c.data, Len(c.data) - half + 1, Len(c.data))
    IN  InsertAt([m EXCEPT ![o] = [data |-> keep, begin |-> c.begin,
                                   end |-> Last(keep)[2],
                                   count |-> c.count - SumSizes(move)]],
                 o + 1,
                 [data |-> move, begin |-> move[1][1], end |-> Last(move)[2],
                  count |-> SumSizes(move)])

(* Mutant: the count stays with the first half.                            *)
M_ensure_space(m, p) ==
    IF Len(m[p[1]].data) + 1 <= max_size
    THEN [m |-> m, p |-> p]
    ELSE LET half == max_size \div 2
         IN  [m |-> [Split(m, p[1]) EXCEPT ![p[1]].count = m[p[1]].count],
              p |-> IF p[2] > half THEN <<p[1] + 1, p[2] - half>> ELSE p]

ensure_space(m, p) ==
    IF Len(m[p[1]].data) + 1 <= max_size
    THEN [m |-> m, p |-> p]
    ELSE LET half == max_size \div 2
         IN  [m |-> Split(m, p[1]),
              p |-> IF p[2] > half THEN <<p[1] + 1, p[2] - half>> ELSE p]

(* insert() returns the vector and the position of the new range.          *)
insert(m, p, r) ==
    IF p = End(m)
    THEN LET n == push_back(m, r) IN [m |-> n, p |-> Prev(n, End(n))]
    ELSE LET e == ensure_space(m, p)
             o == e.p[1]
         IN  [m |-> [e.m EXCEPT ![o] =
                       [data  |-> InsertAt(@.data, e.p[2], r),
                        begin |-> IF r[1] < @.begin THEN r[1] ELSE @.begin,
                        end   |-> IF r[2] > @.end THEN r[2] ELSE @.end,
                        count |-> @.count + Size(r)]],
              p |-> e.p]

(* erase() returns the vector and the position of the next range.          *)
erase(m, p) ==
    LET c == m[p[1]]
        d == RemoveAt(c.data, p[2])
    IN  IF d = <<>>
        THEN [m |-> RemoveAt(m, p[1]), p |-> <<p[1], 1>>]
        ELSE [m |-> [m EXCEPT ![p[1]] =
                       [data |-> d, begin |-> d[1][1], end |-> Last(d)[2],
                        count |-> c.count - Size(At(m, p))]],
              p |-> IF p[2] <= Len(d) THEN p ELSE <<p[1] + 1, 1>>]

-----------------------------------------------------------------------------
(* ChunkedRangeVectorBuilder: chunks for as many ranges as `expected` has  *)
(* are made beforehand; one that is made later starts with the count 1.    *)
ExpectedChunks(m) ==
    FoldLeft(LAMBDA n, c : n + Len(c.data), 0, m) \div max_size + 1

BuilderPush(expected, m, r) ==
    IF m = <<>> THEN <<NewChunk(r)>>
    ELSE LET c == Last(m) IN
         IF r[1] = Last(c.data)[2]
         THEN [m EXCEPT ![Len(m)] =
                 [@ EXCEPT !.data = [@ EXCEPT ![Len(c.data)] = <<@[1], r[2]>>],
                           !.count = @ + Size(r), !.end = r[2]]]
         ELSE IF Len(c.data) < max_size
         THEN push_back(m, r)
         ELSE Append(m, IF Len(m) < expected
                        THEN NewChunk(r)
                        ELSE [NewChunk(r) EXCEPT !.count = 1])

Build(expected, ranges) ==
    FoldLeft(LAMBDA m, r : BuilderPush(ExpectedChunks(expected), m, r),
             <<>>, ranges)

Unit(i)      == <<i, i + 1>>
RangesOf(m)  == FlattenSeq([o \in DOMAIN m |-> m[o].data])
as_indexes(m) ==
    FlattenSeq([k \in DOMAIN RangesOf(m) |->
                  LET r == RangesOf(m)[k]
                  IN  [j \in 1..Size(r) |-> r[1] + j - 1]])
Indexes(m) == ToSet(as_indexes(m))

-----------------------------------------------------------------------------
(* IndexSet: lookups.                                                      *)

(* find(): the range that holds the index, or the first one behind it,     *)
(* looked for from an iterator on.                                         *)
find(m, index, from) ==
    LET outers == {o \in from[1]..Len(m) : m[o].end > index}
    IN  IF outers = {} THEN End(m)
        ELSE LET o     == Min(outers)
                 start == IF o = from[1] THEN from[2] ELSE 1
                 inner == {i \in start..Len(m[o].data) :
                             m[o].data[i][2] > index}
             IN  <<o, IF index < m[o].begin THEN 1 ELSE Min(inner)>>

contains(m, index) ==
    LET p == find(m, index, Begin) IN p # End(m) /\ At(m, p)[1] <= index

(* count(): ranges to the end of the chunk, then whole chunks by their     *)
(* cached counts, then ranges, then a part of one.                         *)
RECURSIVE CountChunk(_, _, _, _), CountChunks(_, _, _, _),
          CountRanges(_, _, _, _)
CountRanges(m, p, e, n) ==
    IF p = End(m) THEN n
    ELSE IF At(m, p)[2] <= e
    THEN CountRanges(m, Succ(m, p), e, n + Size(At(m, p)))
    ELSE IF At(m, p)[1] < e THEN n + e - At(m, p)[1] ELSE n
CountChunks(m, p, e, n) ==
    IF p # End(m) /\ m[p[1]].end <= e
    THEN CountChunks(m, <<p[1] + 1, 1>>, e, n + m[p[1]].count)
    ELSE CountRanges(m, p, e, n)
CountChunk(m, p, e, n) ==
    IF p # End(m) /\ At(m, p)[2] < e /\ p[2] # 1
    THEN CountChunk(m, Succ(m, p), e, n + Size(At(m, p)))
    ELSE LET k == IF p # End(m) /\ At(m, p)[1] < e /\ p[2] # 1
                  THEN n + e - At(m, p)[1] ELSE n
         IN  IF p = End(m) \/ At(m, p)[2] >= e THEN k
             ELSE CountChunks(m, p, e, k)

count(m, s, e) ==
    LET p   == find(m, s, Begin)
        r   == At(m, p)
        low == IF r[1] > s THEN r[1] ELSE s
    IN  IF p = End(m) \/ r[1] >= e THEN 0
        ELSE IF r[2] >= e THEN e - low
        ELSE IF s > r[1] \/ p[2] # 1
        THEN CountChunk(m, Succ(m, p), e, r[2] - low)
        ELSE CountChunks(m, p, e, 0)

(* Mutant: a range that starts at the index does not shift it.             *)
M_shift(m, index) ==
    FoldLeft(LAMBDA i, r : IF r[1] >= i THEN i ELSE i + Size(r),
             index, RangesOf(m))

shift(m, index) ==
    FoldLeft(LAMBDA i, r : IF r[1] > i THEN i ELSE i + Size(r),
             index, RangesOf(m))
unshift(m, index) == index - count(m, 0, index)

-----------------------------------------------------------------------------
(* IndexSet: updates.  Those that return an iterator give a record of the  *)
(* vector and the iterator.                                                *)

do_add(m, p, index) ==
    LET before == p # Begin
        valid  == p # End(m)
        prev   == Prev(m, p)
        grown  == adjust(m, prev, 0, 1)
        joined == erase(adjust(grown, prev, 0, Size(At(m, p))), p)
    IN  IF valid /\ At(m, p)[1] <= index /\ At(m, p)[2] > index
        THEN [m |-> m, p |-> p]
        ELSE IF before /\ At(m, prev)[2] = index
        THEN IF valid /\ At(grown, prev)[2] = At(m, p)[1]
             THEN [m |-> joined.m, p |-> Prev(joined.m, joined.p)]
             ELSE [m |-> grown, p |-> prev]
        ELSE IF valid /\ At(m, p)[1] = index + 1
        THEN [m |-> adjust(m, p, -1, 0), p |-> p]
        ELSE insert(m, p, Unit(index))

add(m, index) == do_add(m, find(m, index, Begin), index).m

add_all(m, indexes) ==
    FoldLeft(LAMBDA a, i : do_add(a.m, find(a.m, i, a.p), i),
             [m |-> m, p |-> Begin], indexes).m

(* An index set that is passed as an argument.                             *)
Sorted(S)  == SetToSortSeq(S, LAMBDA x, y : x < y)
FromSet(S) == add_all(<<>>, Sorted(S))

(* add_shifted(): whole chunks first, by their cached counts; the index    *)
(* grows as the loops go.                                                  *)
RECURSIVE PassChunks(_, _, _), PassRanges(_, _, _)
PassChunks(m, p, i) ==
    IF p # End(m) /\ m[p[1]].end <= i
    THEN PassChunks(m, <<p[1] + 1, 1>>, i + m[p[1]].count)
    ELSE PassRanges(m, p, i)
PassRanges(m, p, i) ==
    IF p # End(m) /\ At(m, p)[1] <= i
    THEN PassRanges(m, Succ(m, p), i + Size(At(m, p)))
    ELSE [p |-> p, index |-> i]

add_shifted(m, index) ==
    LET at == PassChunks(m, Begin, index)
    IN  [m |-> do_add(m, at.p, at.index).m, ret |-> at.index]

(* add_shifted_by(): the old ranges that start at or before the shifted    *)
(* value go first, index by index; the rest is copied range by range.      *)
RECURSIVE ShiftedBy(_, _, _, _, _, _, _)
ShiftedBy(vals, by, old, skip, oldShift, newShift, out) ==
    IF vals = <<>> THEN out \o old
    ELSE LET i == Head(vals) IN
         IF by # <<>> /\ Head(by)[1] <= i
         THEN ShiftedBy(vals, Tail(by), old, Head(by)[2], oldShift,
                        newShift + Size(Head(by)), out)
         ELSE IF i < skip
         THEN ShiftedBy(Tail(vals), by, old, skip, oldShift, newShift, out)
         ELSE IF old # <<>> /\ Head(old)[1] <= i - newShift + oldShift
         THEN ShiftedBy(vals, by, Tail(old), skip,
                        oldShift + Size(Head(old)), newShift,
                        out \o [k \in 1..Size(Head(old)) |->
                                  Unit(Head(old)[1] + k - 1)])
         ELSE ShiftedBy(Tail(vals), by, old, skip, oldShift, newShift,
                        Append(out, Unit(i - newShift + oldShift)))

add_shifted_by(m, by, values) ==
    IF values = <<>> THEN m
    ELSE Build(m, ShiftedBy(as_indexes(values), RangesOf(by), RangesOf(m),
                            0, 0, 0, <<>>))

set(len) == IF len = 0 THEN <<>> ELSE push_back(<<>>, <<0, len>>)

insert_at(m, index, n) ==
    LET p        == find(m, index, Begin)
        existing == p # End(m) /\ At(m, p)[1] <= index
        shifted  == ShiftFrom(m, p, n)
    IN  IF existing
        THEN ShiftFrom(adjust(m, p, 0, n), Succ(m, p), n)
        ELSE FoldLeft(LAMBDA a, i :
                        LET d == do_add(a.m, a.p, i)
                        IN  [m |-> d.m, p |-> Succ(d.m, d.p)],
                      [m |-> shifted, p |-> p],
                      [k \in 1..n |-> index + k - 1]).m

(* The merges of two ascending index sequences behind insert_at(set) and   *)
(* shift_for_insert_at(set), which differ in whether the new indices stay. *)
RECURSIVE MergeShift(_, _, _, _)
MergeShift(a, b, n, keep) ==
    IF a = <<>> THEN IF keep THEN [k \in DOMAIN b |-> Unit(b[k])] ELSE <<>>
    ELSE IF b = <<>> \/ Head(a) + n < Head(b)
    THEN <<Unit(Head(a) + n)>> \o MergeShift(Tail(a), b, n, keep)
    ELSE (IF keep THEN <<Unit(Head(b))>> ELSE <<>>)
            \o MergeShift(a, Tail(b), n + 1, keep)

insert_at_all(m, positions) ==
    IF positions = <<>> THEN m
    ELSE IF m = <<>> THEN positions
    ELSE Build(m, MergeShift(as_indexes(m), as_indexes(positions), 0, TRUE))

shift_for_insert_at(m, index, n) ==
    LET p == find(m, index, Begin)
        s == ShiftFrom(m, p, n)
        r == At(s, p)
        t == SetRange(s, p, <<r[1] - n, index>>)
    IN  IF p = End(m) THEN m
        ELSE IF r[1] < index + n
        THEN insert(t, Succ(t, p), <<index + n, r[2]>>).m
        ELSE s

shift_for_insert_at_all(m, values) ==
    IF m = <<>> \/ values = <<>> THEN m
    ELSE IF values[1].begin >= Last(m).end THEN m
    ELSE Build(m, MergeShift(as_indexes(m), as_indexes(values), 0, FALSE))

do_erase(m, p, index) ==
    LET r    == At(m, p)
        prev == Prev(m, p)
        e    == IF r[1] <= index
                THEN IF r[1] + 1 = r[2] THEN erase(m, p)
                     ELSE [m |-> adjust(m, p, 0, -1), p |-> Succ(m, p)]
                ELSE IF p # Begin /\ At(m, prev)[2] + 1 = r[1]
                THEN erase(adjust(m, prev, 0, Size(r)), p)
                ELSE [m |-> m, p |-> p]
    IN  ShiftFrom(e.m, e.p, -1)

erase_at(m, index) ==
    LET p == find(m, index, Begin)
    IN  IF p = End(m) THEN m ELSE do_erase(m, p, index)

RECURSIVE MergeErase(_, _, _)
MergeErase(a, b, n) ==
    IF a = <<>> THEN <<>>
    ELSE IF b = <<>> \/ Head(a) < Head(b)
    THEN <<Unit(Head(a) - n)>> \o MergeErase(Tail(a), b, n)
    ELSE MergeErase(IF Head(a) = Head(b) THEN Tail(a) ELSE a, Tail(b), n + 1)

erase_at_all(m, positions) ==
    IF m = <<>> \/ positions = <<>> THEN m
    ELSE Build(m, MergeErase(as_indexes(m), as_indexes(positions), 0))

RECURSIVE DropChunks(_, _, _, _), DropRanges(_, _, _, _)
DropChunks(m, p, index, n) ==
    IF p # End(m) /\ m[p[1]].end <= index
    THEN DropChunks(m, <<p[1] + 1, 1>>, index, n - m[p[1]].count)
    ELSE DropRanges(m, p, index, n)
DropRanges(m, p, index, n) ==
    IF p # End(m) /\ At(m, p)[2] <= index
    THEN DropRanges(m, Succ(m, p), index, n - Size(At(m, p)))
    ELSE [p |-> p, index |-> n]

erase_or_unshift(m, index) ==
    LET at == DropChunks(m, Begin, index, index)
    IN  IF at.p = End(m) THEN [m |-> m, ret |-> at.index]
        ELSE [m   |-> do_erase(m, at.p, index),
              ret |-> IF At(m, at.p)[1] <= index THEN npos ELSE at.index]

RECURSIVE do_remove(_, _, _, _)
do_remove(m, from, b0, e) ==
    LET p     == find(m, b0, from)
        r     == At(m, p)
        b     == IF r[1] > b0 THEN r[1] ELSE b0
        left  == SetRange(m, p, <<r[1], b>>)
        split == insert(left, Succ(left, p), <<e, r[2]>>)
        gone  == erase(m, p)
    IN  IF p = End(m) \/ r[1] >= e THEN [m |-> m, p |-> p]
        ELSE IF r[1] < b /\ r[2] > e
        THEN do_remove(split.m, Prev(split.m, split.p), b, e)
        ELSE IF b = r[1] /\ e >= r[2] THEN do_remove(gone.m, gone.p, b, e)
        ELSE IF b = r[1] THEN do_remove(SetRange(m, p, <<e, r[2]>>), p, b, e)
        ELSE do_remove(left, p, b, e)

remove(m, index, n) == do_remove(m, find(m, index, Begin), index, index + n).m

remove_all(m, values) ==
    FoldLeft(LAMBDA a, r : IF a.done THEN a
                           ELSE LET d == do_remove(a.m, a.p, r[1], r[2])
                                IN  [m |-> d.m, p |-> d.p,
                                     done |-> d.p = End(d.m)],
             [m |-> m, p |-> Begin, done |-> FALSE], RangesOf(values)).m

-----------------------------------------------------------------------------
(* The calls: a set argument is an IndexSet, or, with "range" behind it,   *)
(* an index and a count.                                                   *)
Ranges == {i..j : i, j \in 0..MaxIndex} \ {{}}
Sets   == SUBSET (0..MaxArg)

Calls ==
    {<<"add", {i}, "range">> : i \in 0..MaxIndex}
    \cup {<<"add_shifted", i>> : i \in 0..MaxIndex}
    \cup {<<"erase_or_unshift", i>> : i \in 0..MaxIndex}
    \cup {<<f, i>> : f \in {"shift", "unshift"}, i \in 0..MaxIndex}
    \cup {<<"count", i, i + n>> : i \in 0..MaxStart, n \in 0..(MaxIndex + 1)}
    \cup {<<"set", i>> : i \in 0..MaxIndex}
    \cup {<<f, S>> : f \in {"add", "insert_at", "shift_for_insert_at",
                            "erase_at", "remove"}, S \in Sets}
    \cup {<<f, S, "range">> : f \in {"insert_at", "shift_for_insert_at",
                                     "remove"}, S \in Ranges}
    \cup {<<"erase_at", {i}, "range">> : i \in 0..MaxIndex}
    \cup {<<"add_shifted_by", S, T>> :
             S \in SUBSET (0..MaxPair), T \in SUBSET (0..MaxPair)}

IsRange(c) == Len(c) = 3
Low(c)     == Min(c[2])
Num(c)     == Cardinality(c[2])

(* What a call makes of the vector, and what it returns.                   *)
Run(c, m) ==
    CASE c[1] = "add" -> IF IsRange(c) THEN add(m, Low(c))
                                       ELSE add_all(m, Sorted(c[2]))
      [] c[1] = "add_shifted"    -> add_shifted(m, c[2]).m
      [] c[1] = "add_shifted_by" ->
            add_shifted_by(m, FromSet(c[2]), FromSet(c[3]))
      [] c[1] = "set"            -> set(c[2])
      [] c[1] = "insert_at"      ->
            IF IsRange(c) THEN insert_at(m, Low(c), Num(c))
                          ELSE insert_at_all(m, FromSet(c[2]))
      [] c[1] = "shift_for_insert_at" ->
            IF IsRange(c) THEN shift_for_insert_at(m, Low(c), Num(c))
                          ELSE shift_for_insert_at_all(m, FromSet(c[2]))
      [] c[1] = "erase_at"       ->
            IF IsRange(c) THEN erase_at(m, Low(c))
                          ELSE erase_at_all(m, FromSet(c[2]))
      [] c[1] = "remove"         ->
            IF IsRange(c) THEN remove(m, Low(c), Num(c))
                          ELSE remove_all(m, FromSet(c[2]))
      [] c[1] = "erase_or_unshift" -> erase_or_unshift(m, c[2]).m
      [] OTHER                     -> m

Returned(c, m) ==
    CASE c[1] = "add_shifted"      -> add_shifted(m, c[2]).ret
      [] c[1] = "erase_or_unshift" -> erase_or_unshift(m, c[2]).ret
      [] c[1] = "shift"            -> shift(m, c[2])
      [] c[1] = "unshift"          -> IF contains(m, c[2]) THEN npos
                                      ELSE unshift(m, c[2])
      [] c[1] = "count"            -> count(m, c[2], c[3])
      [] OTHER                     -> npos

NoCall == <<"none">>

Init == m_data = <<>> /\ call = NoCall /\ ret = npos

Call(c) ==
    /\ call = NoCall
    /\ call' = c
    /\ m_data' = Run(c, m_data)
    /\ m_data' # <<>> => Last(m_data').end <= MaxIndex + 1
    /\ c[1] = "add_shifted_by" =>
          LateChunks \/ Len(m_data') <= ExpectedChunks(m_data)
    /\ ret' = Returned(c, m_data)

Return ==
    /\ call # NoCall
    /\ call' = NoCall /\ ret' = npos
    /\ UNCHANGED m_data

Next == Return \/ \E c \in Calls : Call(c)

Spec == Init /\ [][Next]_vars

-----------------------------------------------------------------------------
(* Every assertion of ChunkedRangeVector::verify() holds after every call: *)
(* ranges are not empty, ascend and are not adjacent, and what each chunk  *)
(* caches of them is exact.  No chunk is over its size.                    *)
Verified ==
    LET rs == RangesOf(m_data)
    IN  /\ \A k \in DOMAIN rs : rs[k][1] < rs[k][2]
        /\ \A k \in 2..Len(rs) : rs[k][1] > rs[k - 1][2]
        /\ \A o \in DOMAIN m_data :
              LET c == m_data[o]
              IN  /\ c.data # <<>> /\ Len(c.data) <= max_size
                  /\ c.begin = c.data[1][1] /\ c.end = Last(c.data)[2]
                  /\ c.count = SumSizes(c.data)

Abstract == INSTANCE IndexSetSpec WITH indexes <- Indexes(m_data)

(* The chunked vector implements the set: each call changes the indices as *)
(* the set operation does and returns what it returns.                     *)
IsASet == Abstract!Spec

=============================================================================

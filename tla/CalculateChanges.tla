-------------------------- MODULE CalculateChanges --------------------------
(***************************************************************************)
(* CollectionChangeBuilder::calculate(): the difference of two lists of    *)
(* rows; a row of the old one that is deleted is npos there.  No row is    *)
(* twice in a list.                                                        *)
(***************************************************************************)
EXTENDS CollectionChangeBuilder

(* new_rows: the rows that are in both lists.                              *)
RowInfos(prev, next) ==
    LET Info(j) == LET i == CHOOSE i \in DOMAIN prev : prev[i] = next[j]
                   IN  [row |-> next[j], prev |-> i - 1, tv |-> j - 1,
                        shifted |-> Cardinality({k \in 1..(i - 1) : prev[k] # npos})]
        kept == SelectSeq([j \in DOMAIN next |-> j],
                          LAMBDA j : next[j] \in ToSet(prev))
    IN  [k \in DOMAIN kept |-> Info(kept[k])]

(* A row that is not the expected one and may have moved is a move, unless *)
(* the removals before it explain where it is.                             *)
UnsortedStep(candidates, a, r) ==
    LET calc == r.tv - Cardinality({i \in a.insertions : i < r.tv})
                     + Cardinality({i \in a.removed : i < r.prev})
    IN  IF r.shifted = a.expected THEN [a EXCEPT !.expected = @ + 1]
        ELSE IF r.row \notin candidates THEN [a EXCEPT !.expected = r.shifted + 1]
        ELSE IF r.shifted = calc THEN [a EXCEPT !.expected = calc + 1]
        ELSE [a EXCEPT !.moves = Append(@, Move(r.prev, r.tv)),
                       !.insertions = @ \cup {r.tv},
                       !.removed = @ \cup {r.prev}]

(* find_longest_match(): the longest block of rows that follow each other  *)
(* in both a[b1..e1) and b[b2..e2); of two, the one with fewer modified    *)
(* rows as the code counts them.  An index below 0 wraps and counts none.  *)
(* count() from inside a chunk leaves a part out where a range ends inside *)
(* the next chunk (index_set.cpp:295), and is exact while one chunk holds  *)
(* all ranges, as with the few rows of the runs; the count breaks ties     *)
(* only, so a smaller one takes another match and not a wrong one.         *)
CountModified(mods, from, to) ==
    IF from < 0 THEN 0 ELSE Cardinality(mods \cap from..(to - 1))

(* Mutant: a block goes on behind a gap in the new rows.                   *)
M_MatchStep(mods, j, i, acc) ==
    LET size == IF acc.j < j THEN acc.len + 1 ELSE 1
    IN  [j |-> j, len |-> size,
         best |-> IF size <= acc.best.size THEN acc.best
                  ELSE [i |-> i - size + 1, j |-> j - size + 1, size |-> size,
                        modified |-> npos]]

MatchStep(mods, j, i, acc) ==
    LET size  == IF acc.j + 1 = j THEN acc.len + 1 ELSE 1
        best  == acc.best
        known == IF best.modified # npos THEN best.modified
                 ELSE CountModified(mods, best.j - size + 1, best.j + 1)
        n     == CountModified(mods, j - size + 1, j + 1)
        found == [i |-> i - size + 1, j |-> j - size + 1, size |-> size]
    IN  [j |-> j, len |-> size,
         best |-> IF size > best.size THEN found @@ [modified |-> npos]
                  ELSE IF size < best.size THEN best
                  ELSE IF n < known THEN found @@ [modified |-> n]
                  ELSE [best EXCEPT !.modified = known]]

find_longest_match(a, b, mods, b1, e1, b2, e2) ==
    FoldLeft(LAMBDA acc, k :
               LET i  == b1 + k - 1
                   js == {j \in b2..(e2 - 1) : b[j + 1] = a[i + 1]}
               IN  IF js = {} THEN [acc EXCEPT !.j = npos - 1]
                   ELSE MatchStep(mods, Min(js), i, acc),
             [j |-> npos - 1, len |-> 0,
              best |-> [i |-> b1, j |-> b2, size |-> 0, modified |-> 0]],
             [k \in 1..(e1 - b1) |-> k]).best

find_longest_matches(a, b, mods, first, n) ==
    LET matches[b1, e1, b2, e2 \in 0..n] ==
          LET m == find_longest_match(a, b, mods, b1, e1, b2, e2)
          IN  IF m.size = 0 THEN <<>>
              ELSE (IF m.i > b1 /\ m.j > b2 THEN matches[b1, m.i, b2, m.j] ELSE <<>>)
                   \o <<m>>
                   \o (IF m.i + m.size < e2 /\ m.j + m.size < e2
                       THEN matches[m.i + m.size, e1, m.j + m.size, e2] ELSE <<>>)
    IN  matches[first, n, first, n]

(* calculate_moves_sorted(): rows outside the matches are deleted and      *)
(* inserted again.                                                         *)
calculate_moves_sorted(rows, c) ==
    LET n    == Len(rows)
        a    == SortSeq(rows, LAMBDA x, y : x.prev < y.prev)
        Row(s) == [k \in DOMAIN s |-> s[k].row]
        diff == {k \in 1..n : a[k].row # rows[k].row}
        ms   == find_longest_matches(Row(a), Row(rows), c.cols[0], Min(diff) - 1, n)
        InA(i) == \E m \in ToSet(ms) : m.i <= i /\ i < m.i + m.size
        InB(j) == \E m \in ToSet(ms) : m.j <= j /\ j < m.j + m.size
    IN  IF diff = {} THEN c
        ELSE [c EXCEPT
                !.deletions = @ \cup {a[k].prev : k \in {k \in Min(diff)..n : ~InA(k - 1)}},
                !.insertions = @ \cup {rows[k].tv : k \in {k \in Min(diff)..n : ~InB(k - 1)}}]

calculate(prev, next, changed, in_order, candidates) ==
    LET rows    == RowInfos(prev, next)
        dead    == {i \in 0..(Len(prev) - 1) : prev[i + 1] = npos}
        removed == {i \in 0..(Len(prev) - 1) : prev[i + 1] \notin ToSet(next)} \ dead
        base    == [NoChange({}) EXCEPT
                      !.deletions = dead,
                      !.insertions = {j \in 0..(Len(next) - 1) :
                                        next[j + 1] \notin ToSet(prev)},
                      !.cols = [k \in {0} |-> {rows[n].tv : n \in
                                  {n \in DOMAIN rows : rows[n].row \in changed}}]]
        un == FoldLeft(LAMBDA a, r : UnsortedStep(candidates, a, r),
                       [expected |-> 0, insertions |-> base.insertions,
                        removed |-> removed, moves |-> <<>>], rows)
        sorted == calculate_moves_sorted(rows, base)
    IN  IF in_order
        THEN [base EXCEPT !.deletions = @ \cup un.removed,
                          !.insertions = un.insertions, !.moves = un.moves]
        ELSE [sorted EXCEPT !.deletions = @ \cup removed]

=============================================================================

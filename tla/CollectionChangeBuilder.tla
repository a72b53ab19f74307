----------------------- MODULE CollectionChangeBuilder -----------------------
(***************************************************************************)
(* CollectionChangeBuilder: what changed between two versions of a         *)
(* collection.  A builder is a record of                                   *)
(*   deletions   indices in the old collection,                            *)
(*   insertions  indices in the new one,                                   *)
(*   cols        the modifications (column 0) and, for each tracked        *)
(*               column, the indices modified in it,                       *)
(*   moves       pairs of a deletion and the insertion of the same row,    *)
(*   mapping     m_move_mapping, the moves of the log that is being        *)
(*               parsed, as a function from new to old indices.            *)
(* Indices start at 0, sequences at 1.                                     *)
(***************************************************************************)
EXTENDS IndexSetOps, SequencesExt

Move(f, t) == [from |-> f, to |-> t]
SpanOf(i, n) == i..(i + n - 1)

NoChange(columns) ==
    [deletions |-> {}, insertions |-> {}, moves |-> <<>>, mapping |-> <<>>,
     cols |-> [k \in columns \cup {0} |-> {}]]

empty(c) == c.deletions = {} /\ c.insertions = {} /\ c.cols[0] = {}
            /\ c.moves = <<>>

(* Lists by index, and a list without the entries at the indices in S.     *)
At(s, i)   == s[i + 1]
Indices(s) == 0..(Len(s) - 1)
Without(s, S) ==
    LET kept == Indices(s) \ S
    IN  [k \in 1..Cardinality(kept) |->
           At(s, CHOOSE i \in kept : Cardinality({j \in kept : j < i}) = k - 1)]

(* Mapping updates: forget a key, or set one.                              *)
Forget(f, k)  == Restrict(f, DOMAIN f \ {k})
Put(f, k, v)  == [x \in DOMAIN f \cup {k} |-> IF x = k THEN v ELSE f[x]]

-----------------------------------------------------------------------------
(* Changes as the transaction log reports them.                            *)

modify(c, ndx, col) ==
    [c EXCEPT !.cols = [k \in DOMAIN @ |-> IF k \in {0, col} THEN @[k] \cup {ndx}
                                                             ELSE @[k]]]

insert(c, index, count, track_moves) ==
    LET new  == SpanOf(index, count)
        Up(i) == IF i >= index THEN i + count ELSE i
        cols == [k \in DOMAIN c.cols |-> shift_for_insert_at(c.cols[k], new)]
        moves == [k \in DOMAIN c.moves |-> Move(c.moves[k].from, Up(c.moves[k].to))]
        keys == {Up(k) : k \in DOMAIN c.mapping}
    IN  IF ~track_moves THEN [c EXCEPT !.cols = cols]
        ELSE [c EXCEPT !.cols = cols,
                !.insertions = insert_at(@, new),
                !.moves = moves,
                !.mapping = [k \in keys |-> @[CHOOSE o \in DOMAIN @ :
                                                Up(o) = k]]]

EraseRow(c, index) ==
    LET unshifted == erase_or_unshift(c.insertions, index)
    IN  [c EXCEPT !.insertions = erase_at(@, {index}),
                  !.deletions = IF unshifted = npos THEN @
                                ELSE add_shifted(@, unshifted)]

erase(c, index) ==
    LET Down(i) == IF i > index THEN i - 1 ELSE i
        kept == Without(c.moves, {k \in Indices(c.moves) : At(c.moves, k).to = index})
    IN  [EraseRow(c, index) EXCEPT
           !.cols = [k \in DOMAIN @ |-> erase_at(@[k], {index})],
           !.moves = [k \in DOMAIN kept |-> Move(kept[k].from, Down(kept[k].to))]]

(* clear(): a table is cleared with the size npos, which stands for every  *)
(* row it may have had.                                                    *)
clear(c, old_size, all) ==
    LET size == IF old_size = npos THEN all
                ELSE old_size + Cardinality(c.deletions)
                              - Cardinality(c.insertions)
    IN  [NoChange(DOMAIN c.cols) EXCEPT !.deletions = SpanOf(0, size)]

move(c, from, to) ==
    LET Follow(i) == IF i = from THEN to
                     ELSE IF to <= i /\ i < from THEN i + 1
                     ELSE IF from < i /\ i <= to THEN i - 1 ELSE i
        again == \E k \in DOMAIN c.moves : c.moves[k].to = from
        shifted == erase_or_unshift(c.insertions, from)
        moves == [k \in DOMAIN c.moves |-> Move(c.moves[k].from, Follow(c.moves[k].to))]
        fresh == ~again /\ shifted # npos
        MoveIn(S) == LET rest == erase_at(S, {from})
                     IN  IF from \in S THEN insert_at(rest, {to})
                                       ELSE shift_for_insert_at(rest, {to})
    IN  [c EXCEPT
           !.insertions = insert_at(erase_at(@, {from}), {to}),
           !.deletions = IF fresh THEN add_shifted(@, shifted) ELSE @,
           !.moves = IF fresh THEN Append(moves, Move(shift(c.deletions, shifted), to))
                              ELSE moves,
           !.cols = [k \in DOMAIN @ |-> MoveIn(@[k])]]

(* The last row of a table takes the place of one that is deleted.         *)
move_over(c, row, last, track_moves) ==
    LET cols == [k \in DOMAIN c.cols |->
                   IF last \in c.cols[k]
                   THEN (c.cols[k] \ {last}) \cup {row}
                   ELSE c.cols[k] \ {row}]
        row_is_ins  == row \in c.insertions
        last_is_ins == last \in c.insertions
        moved_again == last_is_ins /\ last \in DOMAIN c.mapping
        from     == unshift(c.insertions, last)
        source   == shift(c.deletions, from)
        dropped  == IF row_is_ins /\ ~moved_again THEN Forget(c.mapping, row)
                                                  ELSE c.mapping
        mapping  == IF moved_again
                    THEN Put(Forget(dropped, last), row, dropped[last])
                    ELSE IF last_is_ins THEN dropped
                    ELSE Put(dropped, row, source)
        ins == c.insertions \ {last}
        del == IF last_is_ins THEN c.deletions ELSE add_shifted(c.deletions, from)
    IN  IF row = last
        THEN [(IF track_moves THEN EraseRow(c, row) ELSE c) EXCEPT
                !.cols = [k \in DOMAIN @ |-> @[k] \ {row}],
                !.mapping = IF track_moves THEN Forget(@, row) ELSE @]
        ELSE IF ~track_moves THEN [c EXCEPT !.cols = cols]
        ELSE [c EXCEPT
                !.cols = cols,
                !.mapping = mapping,
                !.deletions = IF row_is_ins THEN del
                              ELSE add_shifted(del, unshift(ins, row)),
                !.insertions = ins \cup {row}]

(* swap() of two rows: each is a move, unless it was inserted.             *)
update_move(c, one, two) ==
    LET moved == Put(Forget(c.mapping, two), one, c.mapping[two])
        from  == shift(c.deletions, unshift(c.insertions, one))
    IN  IF one \in c.insertions THEN [c EXCEPT !.mapping = moved]
        ELSE [c EXCEPT !.mapping = Put(moved, two, from),
                       !.deletions = @ \cup {from},
                       !.insertions = @ \cup {one}]

MoveTo(c, src, dst) ==
    LET from == shift(c.deletions, unshift(c.insertions, src))
    IN  IF src \in c.insertions THEN c
        ELSE [c EXCEPT !.mapping = Put(@, dst, from),
                       !.deletions = @ \cup {from},
                       !.insertions = @ \cup {src}]

(* Mutant: the modifications stay at their indices.                        *)
M_swap(c, one, two, track_moves) ==
    IF track_moves THEN MoveTo(MoveTo(c, two, one), one, two) ELSE c

swap(c0, one, two, track_moves) ==
    LET Swapped(S) == IF (one \in S) = (two \in S) THEN S
                      ELSE (S \ {one, two}) \cup ({one, two} \ S)
        c  == [c0 EXCEPT !.cols = [k \in DOMAIN @ |-> Swapped(@[k])]]
        m1 == one \in DOMAIN c.mapping
        m2 == two \in DOMAIN c.mapping
    IN  IF ~track_moves THEN c
        ELSE IF m1 /\ m2
        THEN [c EXCEPT !.mapping = [@ EXCEPT ![one] = c.mapping[two],
                                             ![two] = c.mapping[one]]]
        ELSE IF m1 THEN update_move(c, two, one)
        ELSE IF m2 THEN update_move(c, one, two)
        ELSE MoveTo(MoveTo(c, two, one), one, two)

subsume(c0, old, new, track_moves) ==
    LET c == [c0 EXCEPT !.cols = [k \in DOMAIN @ |->
                IF old \in @[k] THEN @[k] \cup {new} ELSE @[k]]]
    IN  IF ~track_moves THEN c
        ELSE IF old \in DOMAIN c.mapping
        THEN [c EXCEPT !.mapping = Put(Forget(@, old), new, @[old])]
        ELSE IF old \in c.insertions THEN c
        ELSE [c EXCEPT !.mapping = Put(@, new, shift(c.deletions,
                                             unshift(c.insertions, old)))]

-----------------------------------------------------------------------------
(* The end of a transaction log, and the merge of two changes in a row.    *)

(* Moves that other changes turned into no-ops go, one after the other,    *)
(* with their deletion and insertion.                                      *)
DropStale(c, m) ==
    IF unshift(c.deletions, m.from) # unshift(c.insertions, m.to)
    THEN [c EXCEPT !.moves = Append(@, m)]
    ELSE [c EXCEPT !.deletions = @ \ {m.from}, !.insertions = @ \ {m.to}]

clean_up_stale_moves(c) ==
    LET after[k \in 0..Len(c.moves)] ==
          IF k = 0 THEN [c EXCEPT !.moves = <<>>] ELSE DropStale(after[k - 1], c.moves[k])
    IN  after[Len(c.moves)]

parse_complete(c) ==
    LET same  == {k \in DOMAIN c.mapping : c.mapping[k] = k}
        moves == ToSet(c.moves) \cup {Move(c.mapping[k], k) : k \in DOMAIN c.mapping \ same}
    IN  [c EXCEPT !.deletions = @ \ same, !.insertions = @ \ same,
                  !.mapping = <<>>,
                  !.moves = [n \in 1..Cardinality(moves) |->
                               CHOOSE m \in moves :
                                 Cardinality({o \in moves : o.from < m.from}) = n - 1]]

(* What is left of an older move m, and of the newer moves and columns.    *)
UpdateOldMove(b, c, m, acc) ==
    LET hits == {k \in DOMAIN acc.moves : acc.moves[k].from = m.to}
        k    == Min(hits)
        t    == acc.moves[k].to
    IN  IF hits # {}
        THEN [old   |-> Append(acc.old, Move(m.from, t)),
              moves |-> Front([acc.moves EXCEPT ![k] = Last(acc.moves)]),
              cols  |-> [n \in DOMAIN acc.cols |->
                           IF m.to \in b.cols[n] THEN acc.cols[n] \cup {t}
                                                 ELSE acc.cols[n]]]
        ELSE IF m.to \in c.deletions THEN acc
        ELSE [acc EXCEPT !.old =
                Append(@, Move(m.from, shift(c.insertions,
                                             unshift(c.deletions, m.to))))]

UpdateOldMoves(b, c) ==
    LET after[k \in 0..Len(b.moves)] ==
          IF k = 0 THEN [old |-> <<>>, moves |-> c.moves, cols |-> c.cols]
                   ELSE UpdateOldMove(b, c, b.moves[k], after[k - 1])
    IN  after[Len(b.moves)]

(* Mutant: new deletions are added as if no row had been inserted.         *)
M_NewDeletions(b, c) == b.deletions \cup c.deletions

NewDeletions(b, c) == add_shifted_by(b.deletions, b.insertions, c.deletions)

NewInsertions(b, c) == insert_at(erase_at(b.insertions, c.deletions), c.insertions)

(* Mutant: rows that moved are not looked up among the modified ones.      *)
M_KeepModified(b, moves, cols) == cols

KeepModified(b, moves, cols) ==
    [n \in DOMAIN cols |->
       cols[n] \cup IF b.cols[0] = {} THEN {}
                    ELSE {m.to : m \in {m \in ToSet(moves) : m.from \in b.cols[n]}}]

merge(b, c) ==
    LET upd   == UpdateOldMoves(b, c)
        moves == Without(upd.moves,
                         {k \in Indices(upd.moves) : At(upd.moves, k).from \in b.insertions})
        cols  == KeepModified(b, moves, upd.cols)
        back  == [k \in DOMAIN moves |->
                    [moves[k] EXCEPT !.from = shift(b.deletions,
                                                unshift(b.insertions, @))]]
        clean == clean_up_stale_moves(
                   [b EXCEPT !.moves = upd.old \o back,
                             !.deletions = NewDeletions(b, c),
                             !.insertions = NewInsertions(b, c)])
    IN  IF empty(c) THEN b
        ELSE IF empty(b) THEN c
        ELSE [clean EXCEPT !.cols = [n \in DOMAIN @ |->
                shift_for_insert_at(erase_at(@[n], c.deletions), c.insertions)
                  \cup cols[n]]]

(* finalize(): the modified indices in the old and in the new collection.  *)
modifications_in_old(c) ==
    shift_for_insert_at(erase_at(c.cols[0], c.insertions), c.deletions)
modifications_new(c) == c.cols[0] \ c.insertions

-----------------------------------------------------------------------------
(* What a change c from the list old to the list new has to say, where the *)
(* lists hold what identifies an entry.                                    *)
(* Without the deleted entries, the old list is the new one without the    *)
(* inserted entries, and no index is outside its list.                     *)
Replays(c, old, new) ==
    /\ c.deletions \subseteq Indices(old)
    /\ c.insertions \subseteq Indices(new)
    /\ Without(old, c.deletions) = Without(new, c.insertions)

(* A move joins a deletion and an insertion of the same entry.             *)
MovesJoin(c, old, new) ==
    \A m \in ToSet(c.moves) :
        /\ m.from \in c.deletions /\ m.to \in c.insertions
        /\ At(old, m.from) = At(new, m.to)

(* The entries reported as modified, by their new and by their old index,  *)
(* are those of dirty that are neither deleted nor inserted.               *)
ModifiedStayed(c, old, new, dirty) ==
    LET stayed == {At(old, i) : i \in Indices(old) \ c.deletions}
    IN  /\ {At(new, i) : i \in modifications_new(c)} = dirty \cap stayed
        /\ {At(old, i) : i \in modifications_in_old(c)} = dirty \cap stayed

=============================================================================

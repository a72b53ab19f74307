--------------------------- MODULE ResultsChanges ---------------------------
(***************************************************************************)
(* How the changes of a query's results, and of a single object, reach     *)
(* their callbacks.  TransactLogObserver follows the rows of the table     *)
(* while the log of a transaction is parsed: with their moves for a        *)
(* ResultsNotifier, without for an ObjectNotifier.  run() then finds where *)
(* the rows of the last results are now, evaluates the query again and     *)
(* calculates the difference.  The rows have identities, which the code    *)
(* does not see; it works with row indices.                                *)
(***************************************************************************)
EXTENDS CalculateChanges

CONSTANTS
    Length,    \* how many rows the table starts with
    MaxRows,   \* bound: the table does not get longer
    Keys,      \* the values results may be sorted by
    MaxOps     \* bound: log entries before the callback is called

ASSUME ResultsAssumption ==
    /\ Length \in Nat /\ MaxRows \in Nat /\ MaxOps \in Nat
    /\ Length <= MaxRows /\ Keys \subseteq Nat

VARIABLES
    table,             \* the rows
    matching,          \* those the query finds
    key,               \* what the results are sorted by
    in_table_order,    \* whether they are not sorted
    dirty,             \* <<row, column>> modified since the callback was called
    fresh,             \* those of the log that is being parsed
    tables,            \* m_info->tables[table_ndx]
    untracked,         \* the same where only an ObjectNotifier needs it
    m_previous_rows,   \* row indices of the last results
    accumulated,       \* accumulated_changes of the callback
    old,               \* the results as the callback knows them
    parsed,            \* the rows when the log that is being parsed began
    logged, ops

vars == <<table, matching, key, in_table_order, dirty, fresh, tables,
          untracked, m_previous_rows, accumulated, old, parsed, logged, ops>>

Columns  == {1, 2}              \* 1: what the query reads; 2: the sort key
None     == NoChange(Columns)
AllRows  == 2 * MaxRows         \* the size npos of a cleared table
Names    == 1..(3 * MaxRows + 1)
IndexOf(s, r) == (CHOOSE i \in DOMAIN s : s[i] = r) - 1

(* The query: matching rows in table order, or sorted.                     *)
ResultsOf(t, ms, k) ==
    LET found == {i \in Indices(t) : At(t, i) \in ms}
        Before(i, j) == \/ ~in_table_order /\ k[At(t, i)] < k[At(t, j)]
                        \/ (in_table_order \/ k[At(t, i)] = k[At(t, j)]) /\ i < j
    IN  [n \in 1..Cardinality(found) |->
           At(t, CHOOSE i \in found : Cardinality({j \in found : Before(j, i)}) = n - 1)]
Results == ResultsOf(table, matching, key)
RowsOf(res) == [i \in DOMAIN res |-> IndexOf(table, res[i])]

Init ==
    /\ table = [i \in 1..Length |-> i]
    /\ matching \in SUBSET ToSet(table)
    /\ in_table_order \in BOOLEAN
    /\ key \in {k \in [Names -> Keys] :
                  \A r \in Names : in_table_order \/ r > Length => k[r] = Min(Keys)}
    /\ dirty = {} /\ fresh = {}
    /\ tables = None /\ untracked = None /\ accumulated = None
    /\ old = Results
    /\ m_previous_rows = RowsOf(old)
    /\ parsed = table
    /\ logged = FALSE
    /\ ops = 0

-----------------------------------------------------------------------------
(* Entries of the log.                                                     *)
Logged ==
    /\ ops < MaxOps /\ ops' = ops + 1
    /\ logged' = TRUE
    /\ UNCHANGED <<in_table_order, m_previous_rows, accumulated, old, parsed>>

(* A name that no row has or had; those the callback may know are the      *)
(* first.                                                                  *)
NewRow == Min(Names \ (1..MaxRows \cup ToSet(table) \cup ToSet(parsed)))

(* A row is added at the end.  Creating an object sets its columns.        *)
Inserted(c, track) ==
    LET i == Len(table)
    IN  modify(modify(insert(c, i, 1, track), i, 1), i, 2)

insert_empty_rows ==
    /\ Len(table) < MaxRows
    /\ table' = Append(table, NewRow)
    /\ tables' = Inserted(tables, TRUE)
    /\ untracked' = Inserted(untracked, FALSE)
    /\ matching' \in {matching \ {NewRow}, matching \cup {NewRow}}
    /\ key' \in IF in_table_order THEN {key} ELSE {[key EXCEPT ![NewRow] = v] : v \in Keys}
    /\ dirty' = dirty \cup {NewRow} \X Columns
    /\ fresh' = fresh \cup {NewRow} \X Columns
    /\ Logged

(* move_last_over(): the last row takes the place of row i.                *)
LastOver(t, i) == Front([t EXCEPT ![i + 1] = Last(t)])
Keep(pairs, t) == {p \in pairs : p[1] \in ToSet(t)}
Forgotten(t)   ==
    /\ matching' = matching \cap ToSet(t)
    /\ key' = [r \in Names |-> IF r \in ToSet(t) THEN key[r] ELSE Min(Keys)]

erase_rows ==
    \E i \in Indices(table) :
        LET last == Len(table) - 1
        IN  /\ table' = LastOver(table, i)
            /\ tables' = move_over(tables, i, last, TRUE)
            /\ untracked' = move_over(untracked, i, last, FALSE)
            /\ dirty' = Keep(dirty, table')
            /\ fresh' = Keep(fresh, table')
            /\ Forgotten(table')
            /\ Logged

swap_rows ==
    \E i, j \in Indices(table) :
        /\ i < j
        /\ table' = [table EXCEPT ![i + 1] = At(table, j), ![j + 1] = At(table, i)]
        /\ tables' = swap(tables, i, j, TRUE)
        /\ untracked' = swap(untracked, i, j, FALSE)
        /\ UNCHANGED <<matching, key, dirty, fresh>>
        /\ Logged

(* An object replaces another: a row is added, the old row i is merged     *)
(* into it and then removed, so that the new row takes its place.          *)
Merged(c, i, track) ==
    LET n == Len(table)
    IN  move_over(subsume(insert(c, n, 1, track), i, n, track), i, n, track)

merge_rows ==
    /\ Len(table) < MaxRows
    /\ \E i \in Indices(table) :
          /\ tables' = Merged(tables, i, TRUE)
          /\ untracked' = Merged(untracked, i, FALSE)
    /\ UNCHANGED <<table, matching, key, dirty, fresh>>
    /\ Logged

SetColumn(i, col) ==
    /\ tables' = modify(tables, i, col)
    /\ untracked' = modify(untracked, i, col)
    /\ dirty' = dirty \cup {<<At(table, i), col>>}
    /\ fresh' = fresh \cup {<<At(table, i), col>>}
    /\ UNCHANGED table
    /\ Logged

set_matching ==
    \E i \in Indices(table) :
        LET r == At(table, i)
        IN  /\ matching' \in {matching \ {r}, matching \cup {r}}
            /\ UNCHANGED key
            /\ SetColumn(i, 1)

set_key ==
    /\ ~in_table_order
    /\ \E i \in Indices(table), v \in Keys :
          /\ key' = [key EXCEPT ![At(table, i)] = v]
          /\ UNCHANGED matching
          /\ SetColumn(i, 2)

clear_table ==
    /\ table' = <<>>
    /\ tables' = clear(tables, npos, AllRows)
    /\ untracked' = clear(untracked, npos, AllRows)
    /\ dirty' = {} /\ fresh' = {}
    /\ Forgotten(<<>>)
    /\ Logged

-----------------------------------------------------------------------------
(* calculate_changes(): where a row of the last results is now.            *)

(* Mutant: rows that moved are taken for deleted.                          *)
M_NewIndex(c, idx) ==
    IF idx \in c.deletions THEN npos
    ELSE shift(c.insertions, unshift(c.deletions, idx))

NewIndex(c, idx) ==
    IF idx \in c.deletions
    THEN LET hits == {m \in ToSet(c.moves) : m.from = idx}
         IN  IF hits = {} THEN npos ELSE (CHOOSE m \in hits : TRUE).to
    ELSE shift(c.insertions, unshift(c.deletions, idx))

Followed(c) ==
    [k \in DOMAIN m_previous_rows |-> NewIndex(c, m_previous_rows[k])]

calculate_changes ==
    LET c == parse_complete(tables)
    IN  calculate(Followed(c), RowsOf(Results), c.cols[0], in_table_order,
                  c.insertions)

RunNotifier ==
    /\ logged /\ logged' = FALSE
    /\ accumulated' = merge(accumulated, calculate_changes)
    /\ m_previous_rows' = RowsOf(Results)
    /\ tables' = None /\ untracked' = None /\ fresh' = {}
    /\ parsed' = table
    /\ UNCHANGED <<table, matching, key, in_table_order, dirty, old, ops>>

(* The callback is given the changes.  The names of the rows start over.   *)
Deliver ==
    /\ ~logged
    /\ accumulated' = None
    /\ table' = [i \in DOMAIN table |-> i]
    /\ matching' = {i \in DOMAIN table : table[i] \in matching}
    /\ key' = [r \in Names |-> IF r \in DOMAIN table THEN key[table[r]] ELSE Min(Keys)]
    /\ parsed' = table'
    /\ old' = ResultsOf(table', matching', key')
    /\ dirty' = {}
    /\ ops' = 0
    /\ UNCHANGED <<in_table_order, fresh, tables, untracked, m_previous_rows, logged>>

Next ==
    \/ insert_empty_rows \/ erase_rows \/ swap_rows \/ merge_rows
    \/ set_matching \/ set_key \/ clear_table
    \/ RunNotifier \/ Deliver

Spec == Init /\ [][Next]_vars

-----------------------------------------------------------------------------
(* The assertions of parse_complete(): a row that the log moved is among   *)
(* the deletions where it was and among the insertions where it is, and no *)
(* two rows come from one.                                                 *)
MappedRowsMoved ==
    LET mapping == tables.mapping
    IN  \A k \in DOMAIN mapping :
           /\ mapping[k] \in tables.deletions /\ k \in tables.insertions
           /\ \A l \in DOMAIN mapping : mapping[k] = mapping[l] => k = l

(* Whatever the log did to the table, every row that was there before it   *)
(* is found at the index where it is now, or found to be deleted, and the  *)
(* assertions hold on the way.  The rows of the last results are some of   *)
(* them.                                                                   *)
RowsAreFollowed ==
    /\ MappedRowsMoved
    /\ \A i \in Indices(parsed) :
          NewIndex(parse_complete(tables), i)
            = IF At(parsed, i) \in ToSet(table) THEN IndexOf(table, At(parsed, i))
                                                ELSE npos
    /\ ToSet(m_previous_rows) \subseteq Indices(parsed)

(* Without the moves, the modified rows, and for each column those         *)
(* modified in it, are still exactly the ones an ObjectNotifier reports.   *)
ObjectChangesAreExact ==
    /\ untracked.cols[0] = {IndexOf(table, p[1]) : p \in fresh}
    /\ \A col \in Columns :
          untracked.cols[col] = {IndexOf(table, p[1]) : p \in {p \in fresh : p[2] = col}}

(* After any number of runs, what calculate() found and merge() joined     *)
(* turns the results the callback knows into the results there are; each   *)
(* of the moves joins the two indices of one row; and the rows finalize()  *)
(* reports as modified, in the old results and in the new, are those that  *)
(* were modified since the last call and stayed.                           *)
ResultsReplay ==
    ~logged =>
      /\ Replays(accumulated, old, Results)
      /\ MovesJoin(accumulated, old, Results)
      /\ ModifiedStayed(accumulated, old, Results, {p[1] : p \in dirty})

=============================================================================

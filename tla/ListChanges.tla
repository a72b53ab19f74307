----------------------------- MODULE ListChanges -----------------------------
(***************************************************************************)
(* How the changes of a list reach its callback: the log of a write        *)
(* transaction is parsed by TransactLogObserver into the m_change of a     *)
(* ListNotifier (links) or a PrimitiveListNotifier (values in a subtable), *)
(* run() completes it, and add_changes() merges it into what the callback  *)
(* has not been given yet.  The entries of the list have identities, which *)
(* the code does not see.                                                  *)
(***************************************************************************)
EXTENDS CollectionChangeBuilder

CONSTANTS
    Length,              \* how many entries the list starts with
    MaxLen,              \* bound: the list does not get longer
    MaxOps,              \* bound: log entries before the callback is called
    DeleteAfterChanges   \* whether a transaction that changes the list may
                         \* also delete the object that owns it

ASSUME ListAssumption ==
    /\ DeleteAfterChanges \in BOOLEAN
    /\ Length \in Nat /\ MaxLen \in Nat /\ MaxOps \in Nat
    /\ Length <= MaxLen

VARIABLES
    primitive,     \* whether the list is a subtable of values
    old,           \* the list as the callback knows it
    list,          \* the list
    dirty,         \* the entries modified since
    touched,       \* the entries whose target object the log modified
    is_attached,   \* whether the object that owns the list exists
    m_change,      \* changes of the log that is being parsed
    m_prev_size,   \* size of the list when the notifier last ran
    accumulated,   \* accumulated_changes of the callback
    logged,        \* whether the log has an entry for the list
    ops

vars == <<primitive, old, list, dirty, touched, is_attached, m_change, m_prev_size,
          accumulated, logged, ops>>

None    == NoChange({})
AllRows == 2 * MaxLen        \* the size npos of a cleared subtable
Names   == 1..(2 * MaxLen + 1)
Entries(n) == [i \in 1..n |-> i]

Moved(s, from, to) == InsertAt(RemoveAt(s, from + 1), to + 1, At(s, from))

Init ==
    /\ primitive \in BOOLEAN
    /\ old = Entries(Length) /\ list = old
    /\ dirty = {} /\ touched = {}
    /\ is_attached = TRUE
    /\ m_change = None /\ accumulated = None
    /\ m_prev_size = Length
    /\ logged = FALSE
    /\ ops = 0

-----------------------------------------------------------------------------
(* Entries of the log: the list, its modified entries, and the builder.    *)
Log(l, d, c) ==
    /\ is_attached
    /\ ops < MaxOps /\ ops' = ops + 1
    /\ list' = l /\ Len(l) <= MaxLen
    /\ dirty' = d \cap ToSet(l)
    /\ touched' = touched \cap ToSet(l)
    /\ m_change' = c
    /\ logged' = TRUE
    /\ UNCHANGED <<primitive, old, is_attached, m_prev_size, accumulated>>

link_list_insert ==
    \E i \in 0..Len(list) :
        LET fresh == Min(Names \ (ToSet(old) \cup ToSet(list)))
        IN  Log(InsertAt(list, i + 1, fresh), dirty, insert(m_change, i, 1, TRUE))

(* link_list_erase and link_list_nullify.                                  *)
link_list_erase ==
    \E i \in Indices(list) : Log(RemoveAt(list, i + 1), dirty, erase(m_change, i))

link_list_set ==
    \E i \in Indices(list) :
        Log(list, dirty \cup {At(list, i)}, modify(m_change, i, npos))

link_list_move ==
    \E from, to \in Indices(list) :
        from # to /\ Log(Moved(list, from, to), dirty, move(m_change, from, to))

(* A swap of links modifies both entries; of subtable rows, it moves them. *)
link_list_swap ==
    /\ ~primitive
    /\ \E i, j \in Indices(list) :
          i < j /\ Log(list, dirty \cup {At(list, i), At(list, j)},
                       modify(modify(m_change, i, npos), j, npos))

swap_rows ==
    /\ primitive
    /\ \E i, j \in Indices(list) :
          LET first == move(m_change, i, j)
          IN  i < j /\ Log(Moved(Moved(list, i, j), j - 1, i), dirty,
                           IF i + 1 # j THEN move(first, j - 1, i) ELSE first)

link_list_clear ==
    Log(<<>>, {}, clear(m_change, IF primitive THEN npos ELSE Len(list), AllRows))

(* The target object of an entry is modified: not an entry for the list.   *)
ModifyTarget ==
    /\ ~primitive /\ is_attached
    /\ ops < MaxOps /\ ops' = ops + 1
    /\ \E i \in Indices(list) : /\ touched' = touched \cup {At(list, i)}
                                /\ dirty' = dirty \cup {At(list, i)}
    /\ UNCHANGED <<primitive, old, list, is_attached, m_change, m_prev_size, accumulated,
                   logged>>

(* The object that owns the list is deleted: the list is not in the list   *)
(* of tracked ones any more, and m_change stays as it is.                  *)
erase_rows ==
    /\ is_attached
    /\ logged => DeleteAfterChanges
    /\ ops < MaxOps /\ ops' = ops + 1
    /\ is_attached' = FALSE
    /\ list' = <<>> /\ dirty' = {} /\ touched' = {}
    /\ logged' = TRUE
    /\ UNCHANGED <<primitive, old, m_change, m_prev_size, accumulated>>

-----------------------------------------------------------------------------
(* The end of the log, run() and prepare_handover().                       *)

(* ListNotifier: entries whose target was modified.  A subtable that was   *)
(* cleared is given the size it had.                                       *)
Attached(c) ==
    IF primitive
    THEN IF c.deletions = SpanOf(0, AllRows)
         THEN [c EXCEPT !.deletions = SpanOf(0, m_prev_size)] ELSE c
    ELSE [c EXCEPT !.cols[0] = @ \cup {i \in Indices(list) : At(list, i) \in touched}]

run ==
    IF is_attached THEN Attached(clean_up_stale_moves(m_change))
    ELSE IF m_prev_size = 0 THEN None
    ELSE [m_change EXCEPT !.deletions = SpanOf(0, m_prev_size)]

RunNotifier ==
    /\ logged \/ touched # {}
    /\ m_prev_size' = Len(list)
    /\ accumulated' = merge(accumulated, run)
    /\ m_change' = None
    /\ touched' = {} /\ logged' = FALSE
    /\ UNCHANGED <<primitive, old, list, dirty, is_attached, ops>>

(* The callback is given the changes.  The names of the entries start over.*)
Deliver ==
    /\ ~logged /\ touched = {}
    /\ accumulated' = None
    /\ old' = Entries(Len(list)) /\ list' = old'
    /\ dirty' = {}
    /\ ops' = 0
    /\ UNCHANGED <<primitive, touched, is_attached, m_change, m_prev_size, logged>>

Next ==
    \/ link_list_insert \/ link_list_erase \/ link_list_set
    \/ link_list_move \/ link_list_swap \/ swap_rows \/ link_list_clear
    \/ ModifyTarget \/ erase_rows \/ RunNotifier \/ Deliver

Spec == Init /\ [][Next]_vars

-----------------------------------------------------------------------------
Settled == ~logged /\ touched = {}

(* After any number of transactions, what the callback is going to be told *)
(* turns the list it knows into the list there is.  Moves join the two     *)
(* indices of an entry, and every entry that is still there but among the  *)
(* deletions is moved.                                                     *)
ChangesReplay ==
    Settled =>
      /\ Replays(accumulated, old, list)
      /\ MovesJoin(accumulated, old, list)
      /\ \A i \in accumulated.deletions :
            At(old, i) \in ToSet(list) =>
              \E m \in ToSet(accumulated.moves) : m.from = i

(* The entries reported as modified are exactly the modified ones that     *)
(* stayed, whatever the transactions did around them; a modified entry     *)
(* that was moved is still marked.                                         *)
ModifiedAreExact ==
    Settled =>
      /\ ModifiedStayed(accumulated, old, list, dirty)
      /\ \A m \in ToSet(accumulated.moves) :
            At(list, m.to) \in dirty => m.to \in accumulated.cols[0]

=============================================================================

---------------------------- MODULE IndexSetSpec ----------------------------
(***************************************************************************)
(* What an IndexSet object promises its caller: every call has the effect  *)
(* and the result of an operation on sets.  Module IndexSet implements it. *)
(***************************************************************************)
EXTENDS IndexSetOps

CONSTANTS
    Calls,     \* the calls that are made: a name and its arguments
    MaxIndex   \* bound: no index is larger

VARIABLES
    indexes,   \* the set
    call,      \* the call that took effect, or NoCall
    ret        \* what it returns

NoCall == <<"none">>

Effect(c, S) ==
    CASE c[1] = "add"                 -> S \cup c[2]
      [] c[1] = "add_shifted"         -> add_shifted(S, c[2])
      [] c[1] = "add_shifted_by"      -> add_shifted_by(S, c[2], c[3])
      [] c[1] = "set"                 -> 0..(c[2] - 1)
      [] c[1] = "insert_at"           -> insert_at(S, c[2])
      [] c[1] = "shift_for_insert_at" -> shift_for_insert_at(S, c[2])
      [] c[1] = "erase_at"            -> erase_at(S, c[2])
      [] c[1] = "erase_or_unshift"    -> erase_at(S, {c[2]})
      [] c[1] = "remove"              -> S \ c[2]
      [] OTHER                        -> S

Result(c, S) ==
    CASE c[1] = "add_shifted"      -> shift(S, c[2])
      [] c[1] = "erase_or_unshift" -> erase_or_unshift(S, c[2])
      [] c[1] = "shift"            -> shift(S, c[2])
      [] c[1] = "unshift"          -> erase_or_unshift(S, c[2])
      [] c[1] = "count"            -> Cardinality(S \cap c[2]..(c[3] - 1))
      [] OTHER                     -> npos

Init == indexes = {} /\ call = NoCall /\ ret = npos

Call(c) ==
    /\ call = NoCall
    /\ call' = c
    /\ indexes' = Effect(c, indexes)
    /\ indexes' \subseteq 0..MaxIndex
    /\ ret' = Result(c, indexes)

Return ==
    /\ call # NoCall
    /\ call' = NoCall /\ ret' = npos
    /\ UNCHANGED indexes

Next == Return \/ \E c \in Calls : Call(c)

Spec == Init /\ [][Next]_<<indexes, call, ret>>

=============================================================================

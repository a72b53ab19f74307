----------------------------- MODULE IndexSetOps -----------------------------
(***************************************************************************)
(* realm::IndexSet as its users see it: a set of indices into a collection *)
(* and the operations that keep it in step with insertions into and        *)
(* deletions from the collection.                                          *)
(***************************************************************************)
EXTENDS Integers, FiniteSets

npos == -1

(* unshift(i): where i is once the indices in S are deleted.               *)
unshift(S, i) == i - Cardinality({s \in S : s < i})

(* shift(i): where i is once the indices in S are inserted, which is the   *)
(* one index outside S that unshifts to i.                                 *)
shift(S, i) ==
    CHOOSE j \in i..(i + Cardinality(S)) : j \notin S /\ unshift(S, j) = i

erase_at(S, P)            == {unshift(P, s) : s \in S \ P}
shift_for_insert_at(S, P) == {shift(P, s) : s \in S}
insert_at(S, P)           == shift_for_insert_at(S, P) \cup P

add_shifted(S, i)         == S \cup {shift(S, i)}
add_shifted_by(S, by, V)  == S \cup {shift(S, unshift(by, v)) : v \in V \ by}
erase_or_unshift(S, i)    == IF i \in S THEN npos ELSE unshift(S, i)

=============================================================================

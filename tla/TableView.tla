------------------------------ MODULE TableView ----------------------------
(***************************************************************************)
(* A QTableView on one of the table models.  The models of downloads and   *)
(* of search results take every snapshot whole: when it lists the same     *)
(* keys in the same order they keep the rows and change their values,      *)
(* otherwise they reset, and Qt's selection model then forgets selection   *)
(* and current row WITHOUT the signal a user's selection sends.            *)
(*                                                                         *)
(* A view is the keys (hashes) of its rows, in the model's order, the      *)
(* selected ones of them, and the current row (0: none).                   *)
(***************************************************************************)
EXTENDS Naturals, Sequences

Views(Key) == [keys : Seq(Key), selected : SUBSET (Nat \ {0}), current : Nat]

Rows(v) == 1..Len(v.keys)

Consistent(v) == v.selected \subseteq Rows(v) /\ v.current \in Rows(v) \cup {0}

\* Seeded fault: the layout is the same when there are as many rows.
SameLayoutBySize(v, keys) == Len(v.keys) = Len(keys)

\* The rows are the same ones: values change in place, nothing is reset.
SameLayout(v, keys) == v.keys = keys /\ keys # <<>>

Empty(keys) == [keys |-> keys, selected |-> {}, current |-> 0]

\* setDownloads, setResults.
Filled(v, keys) == IF SameLayout(v, keys) THEN [v EXCEPT !.keys = keys] ELSE Empty(keys)

\* The mouse, Ctrl, Shift and Ctrl+A: any rows selected, any row current.
Chosen(v, S, r) == [v EXCEPT !.selected = S, !.current = r]

(* What is left of a list when any of its rows are taken out. *)

Increasing(n, k) == {m \in [1..n -> 1..k] : \A i, j \in 1..n : i < j => m[i] < m[j]}

Parts(list) ==
  UNION {{[i \in 1..n |-> list[m[i]]] : m \in Increasing(n, Len(list))} : n \in 0..Len(list)}

=============================================================================

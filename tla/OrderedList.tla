----------------------------- MODULE OrderedList ------------------------------
(***************************************************************************)
(* What the calls of w_rbt.h promise: a list of nodes, ordered by key, with *)
(* equal keys in the order of their insertion.  RedBlackTree implements it. *)
(***************************************************************************)
EXTENDS Integers, FiniteSets, Sequences, SequencesExt

CONSTANT Entries   \* what may be inserted: records of an id and a key
VARIABLE list

Init == list = <<>>

(* An entry goes behind all those whose key is not greater.                *)
Insert(e) ==
  LET before == {i \in DOMAIN list : list[i].key <= e.key}
  IN  /\ \A i \in DOMAIN list : list[i].id # e.id
      /\ list' = InsertAt(list, Cardinality(before) + 1, e)

Delete(i) == list' = RemoveAt(list, i)

Destroy == list' = <<>>

Next ==
  \/ \E i \in DOMAIN list : Delete(i)
  \/ \E e \in Entries : Insert(e)
  \/ Destroy

Spec == Init /\ [][Next]_list
==============================================================================

------------------------------- MODULE BkvDoc --------------------------------
(***************************************************************************)
(* What the calls of bkv.h promise, with no bytes in it: a client builds a *)
(* tree.  A node is a scalar, a map or an array; it goes under the         *)
(* innermost container that is still open, and there it stays.  The root   *)
(* is a map, an array is always the child of a map, and the document is    *)
(* finished when the root is closed.  BkvWriter implements this: it reads  *)
(* the tree back from the lengths its buffer holds.                        *)
(***************************************************************************)
EXTENDS Integers, Sequences

CONSTANT Ids          \* the names a node may be given
NoParent == -1        \* the parent of the root

VARIABLES
  kind,    \* node -> "leaf", "map" or "array"
  parent,  \* node -> the container it was added to
  path     \* the open containers, innermost last

vars == <<kind, parent, path>>

Top == IF path = <<>> THEN NoParent ELSE path[Len(path)]
Put(f, i, v) == [x \in DOMAIN f \cup {i} |-> IF x = i THEN v ELSE f[x]]

Init ==
  /\ kind = [i \in {} |-> "leaf"]
  /\ parent = [i \in {} |-> NoParent]
  /\ path = <<>>

(* The name that a step gives away: Attach admits no other.                *)
New == DOMAIN kind' \ DOMAIN kind

(* Adds node i of kind k under the innermost open container.               *)
Attach(i, k) ==
  /\ i \notin DOMAIN kind
  /\ kind' = Put(kind, i, k)
  /\ parent' = Put(parent, i, Top)

Add(i) ==
  /\ path # <<>>
  /\ UNCHANGED path
  /\ Attach(i, "leaf")

OpenMap(i) ==
  /\ path = <<>> => DOMAIN kind = {}
  /\ Attach(i, "map")
  /\ path' = Append(path, i)

OpenArray(i) ==
  /\ path # <<>> /\ kind[Top] = "map"
  /\ Attach(i, "array")
  /\ path' = Append(path, i)

Close ==
  /\ path # <<>>
  /\ path' = SubSeq(path, 1, Len(path) - 1)
  /\ UNCHANGED <<kind, parent>>

Next ==
  \/ \E i \in Ids \cap New : Add(i) \/ OpenMap(i) \/ OpenArray(i)
  \/ Close

Spec == Init /\ [][Next]_vars
==============================================================================

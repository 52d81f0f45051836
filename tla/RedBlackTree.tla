----------------------------- MODULE RedBlackTree -----------------------------
(***************************************************************************)
(* The red-black tree of red_black_tree.c: insertion and deletion with     *)
(* their repairs, the queries, and the release of the tree.  An iteration  *)
(* of a repair loop is an action, so that what holds between rotations can *)
(* be stated; the calls themselves do not interleave.                      *)
(*                                                                         *)
(* The code that has left and right switched is the same action with the   *)
(* side `a` as a parameter.                                                *)
(***************************************************************************)
EXTENDS Integers, FiniteSets, Sequences, SequencesExt

CONSTANTS
  Nodes,      \* what malloc returns
  nil, root,  \* the two sentinels
  Adds        \* the insertions: <<what malloc returns, key>>

ASSUME NodesAssumption == nil # root /\ nil \notin Nodes /\ root \notin Nodes
ASSUME AddsAssumption == Adds \subseteq Nodes \X Int

All == Nodes \cup {nil, root}
Keys == {add[2] : add \in Adds}
Sides == {"left", "right"}
Other(a) == IF a = "left" THEN "right" ELSE "left"

VARIABLES
  tree,   \* the fields of all nodes: left, right, parent, red, key
  live,   \* allocated nodes
  pc,     \* "idle", or where in a call: "insert", "fixup", "replace", "destroyed"
  x,      \* the node a repair loop has come to
  y,      \* the node RBDelete splices out
  z,      \* the node RBDelete deletes
  top     \* `root` in RBDeleteFixUp: the root of the tree when it was called

vars == <<tree, live, pc, x, y, z, top>>
locals == <<y, z, top>>

Greater(k, l) == k > l          \* 1 == Compare(k, l)

(***************************************************************************)
(* Changing the links.                                                     *)
(***************************************************************************)
SideOf(t, n) == IF n = t.left[t.parent[n]] THEN "left" ELSE "right"

(* Whatever p has for old, it has new instead.                             *)
Relink_Left(t, p, old, new) == [t EXCEPT !.left[p] = new]   \* mutant: no test
Relink(t, p, old, new) ==
  IF t.left[p] = old THEN [t EXCEPT !.left[p] = new] ELSE [t EXCEPT !.right[p] = new]

Rotate_MovesNil(t, a, n) ==     \* mutant: the parent of nil is not spared
  LET b == Other(a)
      m == t[b][n]
      u == [t EXCEPT ![b][n] = t[a][m], !.parent[t[a][m]] = n, !.parent[m] = t.parent[n]]
      v == Relink(u, t.parent[n], n, m)
  IN  [v EXCEPT ![a][m] = n, !.parent[n] = m]
(* LeftRotate for a = "left", RightRotate for a = "right".                 *)
Rotate(t, a, n) ==
  LET b == Other(a)
      m == t[b][n]
      u == [t EXCEPT ![b][n] = t[a][m],
                     !.parent[t[a][m]] = IF t[a][m] = nil THEN @ ELSE n,
                     !.parent[m] = t.parent[n]]
      v == Relink(u, t.parent[n], n, m)
  IN  [v EXCEPT ![a][m] = n, !.parent[n] = m]

(***************************************************************************)
(* Queries.                                                                *)
(***************************************************************************)
First(t) == t.left[root]

(* The last node on side a below n.                                        *)
Extreme(t, a, n) ==
  LET down[m \in Nodes] == IF t[a][m] = nil THEN m ELSE down[t[a][m]] IN down[n]

TreeSuccessor_Root(t, n) ==     \* mutant: forgets the sentinel
  LET up[m \in Nodes] == LET p == t.parent[m] IN IF m = t.right[p] THEN up[p] ELSE p
  IN  IF t.right[n] # nil THEN Extreme(t, "left", t.right[n]) ELSE up[n]
TreeSuccessor(t, n) ==
  LET up[m \in Nodes] ==
        LET p == t.parent[m]
        IN  IF m = t.right[p] THEN up[p] ELSE IF p = root THEN nil ELSE p
  IN  IF t.right[n] # nil THEN Extreme(t, "left", t.right[n]) ELSE up[n]

TreePredecessor(t, n) ==
  LET up[m \in Nodes] ==
        LET p == t.parent[m]
        IN  IF m # t.left[p] THEN p ELSE IF p = root THEN nil ELSE up[p]
  IN  IF t.left[n] # nil THEN Extreme(t, "right", t.left[n]) ELSE up[n]

(* nil stands for the null pointer the code returns.                       *)
RBExactQuery(t, k) ==
  LET go[m \in Nodes \cup {nil}] ==
        IF m = nil \/ t.key[m] = k THEN m
        ELSE IF Greater(t.key[m], k) THEN go[t.left[m]] ELSE go[t.right[m]]
  IN  go[First(t)]

(***************************************************************************)
(* RBTreeInsert.                                                           *)
(***************************************************************************)
Below_EqualLeft(t, m, k) == IF t.key[m] >= k THEN "left" ELSE "right"   \* mutant
Below(t, m, k) == IF Greater(t.key[m], k) THEN "left" ELSE "right"

(* Where TreeInsertHelp puts a node with key k: its parent.                *)
InsertPlace(t, k) ==
  LET go[m \in Nodes] ==
        LET c == t[Below(t, m, k)][m] IN IF c = nil THEN m ELSE go[c]
  IN  IF First(t) = nil THEN root ELSE go[First(t)]

RBTreeInsert(n, k) ==
  LET p == InsertPlace(tree, k)
      a == IF p = root THEN "left" ELSE Below(tree, p, k)
  IN  /\ pc = "idle" /\ n \notin live
      /\ tree' = [tree EXCEPT ![a][p] = n, !.left[n] = nil, !.right[n] = nil,
                              !.parent[n] = p, !.red[n] = TRUE, !.key[n] = k]
      /\ live' = live \cup {n}
      /\ x' = n
      /\ pc' = "insert"
      /\ UNCHANGED locals

(* Two reds above each other, and the uncle as well.                       *)
InsertRecolour ==
  LET p == tree.parent[x]
      g == tree.parent[p]
      uncle == tree[Other(SideOf(tree, p))][g]
  IN  /\ pc = "insert" /\ tree.red[p] /\ tree.red[uncle]
      /\ tree' = [tree EXCEPT !.red[p] = FALSE, !.red[uncle] = FALSE, !.red[g] = TRUE]
      /\ x' = g
      /\ UNCHANGED <<live, pc, locals>>

(* The uncle is black: x is first made an outer grandchild.                *)
Outward_Not(t, a, n) == [tree |-> t, x |-> n]   \* mutant: forgets the inner case
Outward(t, a, n) ==
  IF SideOf(t, n) = a THEN [tree |-> t, x |-> n]
  ELSE [tree |-> Rotate(t, a, t.parent[n]), x |-> t.parent[n]]
InsertRotate ==
  LET p == tree.parent[x]
      g == tree.parent[p]
      a == SideOf(tree, p)
      s == Outward(tree, a, x)
      q == s.tree.parent[s.x]
      h == s.tree.parent[q]
  IN  /\ pc = "insert" /\ tree.red[p] /\ ~tree.red[tree[Other(a)][g]]
      /\ tree' = Rotate([s.tree EXCEPT !.red[q] = FALSE, !.red[h] = TRUE], Other(a), h)
      /\ x' = s.x
      /\ UNCHANGED <<live, pc, locals>>

InsertDone ==
  /\ pc = "insert" /\ ~tree.red[tree.parent[x]]
  /\ tree' = [tree EXCEPT !.red[First(tree)] = FALSE]
  /\ pc' = "idle" /\ x' = nil
  /\ UNCHANGED <<live, locals>>

(***************************************************************************)
(* RBDelete.                                                               *)
(***************************************************************************)
Spliced_Either(t, n) ==         \* mutant: takes a node with one child for one with two
  IF t.left[n] = nil /\ t.right[n] = nil THEN n ELSE TreeSuccessor(t, n)
(* The node that is taken out of the links when n is deleted.              *)
Spliced(t, n) ==
  IF t.left[n] = nil \/ t.right[n] = nil THEN n ELSE TreeSuccessor(t, n)

RBDelete(n) ==
  LET s == Spliced(tree, n)
      c == IF tree.left[s] = nil THEN tree.right[s] ELSE tree.left[s]
      t == Relink([tree EXCEPT !.parent[c] = tree.parent[s]], tree.parent[s], s, c)
  IN  /\ pc = "idle" /\ n \in live
      /\ tree' = t
      /\ x' = c /\ y' = s /\ z' = n
      /\ top' = First(t)
      /\ pc' = IF tree.red[s] THEN "replace" ELSE "fixup"
      /\ UNCHANGED live

(* The loop of RBDeleteFixUp, at a node that is short of a black one.      *)
Climbing == pc = "fixup" /\ ~tree.red[x] /\ x # top

(* A red sibling is turned into the grandparent.                           *)
RedSiblingUp(t, a, p) ==
  LET w == t[Other(a)][p]
  IN  IF t.red[w] THEN Rotate([t EXCEPT !.red[w] = FALSE, !.red[p] = TRUE], a, p)
      ELSE t

(* The child of w that is away from x is made red.                         *)
RedOutside(t, a, w) ==
  LET b == Other(a)
  IN  IF t.red[t[b][w]] THEN t
      ELSE Rotate([t EXCEPT !.red[t[a][w]] = FALSE, !.red[w] = TRUE], b, w)

FixUpSibling ==
  LET a == SideOf(tree, x)
      t == RedSiblingUp(tree, a, tree.parent[x])
      w == t[Other(a)][t.parent[x]]
  IN  /\ Climbing
      /\ ~t.red[t.left[w]] /\ ~t.red[t.right[w]]
      /\ tree' = [t EXCEPT !.red[w] = TRUE]
      /\ x' = t.parent[x]
      /\ UNCHANGED <<live, pc, locals>>

(* The parent of x is read anew after every rotation, though x be nil.     *)
FixUpRotate ==
  LET a == SideOf(tree, x)
      b == Other(a)
      t == RedSiblingUp(tree, a, tree.parent[x])
      w == t[b][t.parent[x]]
      u == RedOutside(t, a, w)
      p == u.parent[x]
      v == u[b][p]
  IN  /\ Climbing
      /\ t.red[t.left[w]] \/ t.red[t.right[w]]
      /\ tree' = Rotate([u EXCEPT !.red[v] = u.red[p], !.red[p] = FALSE,
                                  !.red[u[b][v]] = FALSE], a, p)
      /\ x' = top
      /\ UNCHANGED <<live, pc, locals>>

FixUpDone ==
  /\ pc = "fixup" /\ (tree.red[x] \/ x = top)
  /\ tree' = [tree EXCEPT !.red[x] = FALSE]
  /\ pc' = "replace"
  /\ UNCHANGED <<live, x, locals>>

(* y takes the place of z, which is released; the links of z are read only *)
(* now, after the repair.                                                  *)
InPlaceOf_OwnRed(t, n, m) ==      \* mutant: y keeps its colour
  Relink([t EXCEPT !.left[m] = t.left[n], !.right[m] = t.right[n],
                   !.parent[m] = t.parent[n],
                   !.parent[t.left[n]] = m, !.parent[t.right[n]] = m],
         t.parent[n], n, m)
InPlaceOf_OwnRight(t, n, m) ==    \* mutant: y keeps its right subtree
  Relink([t EXCEPT !.left[m] = t.left[n], !.parent[m] = t.parent[n],
                   !.red[m] = t.red[n],
                   !.parent[t.left[n]] = m, !.parent[t.right[n]] = m],
         t.parent[n], n, m)
InPlaceOf(t, n, m) ==
  Relink([t EXCEPT !.left[m] = t.left[n], !.right[m] = t.right[n],
                   !.parent[m] = t.parent[n], !.red[m] = t.red[n],
                   !.parent[t.left[n]] = m, !.parent[t.right[n]] = m],
         t.parent[n], n, m)

Unused(t, n) ==     \* freed memory is not read again
  [t EXCEPT !.left[n] = nil, !.right[n] = nil, !.parent[n] = nil,
            !.red[n] = FALSE, !.key[n] = 0]

DeleteDone ==
  /\ pc = "replace"
  /\ tree' = Unused(IF y = z THEN tree ELSE InPlaceOf(tree, z, y), z)
  /\ live' = live \ {z}
  /\ pc' = "idle" /\ x' = nil /\ y' = nil /\ z' = nil /\ top' = nil

(***************************************************************************)
(* TreeDestHelper releases what it comes by from the root.                 *)
(***************************************************************************)
Walk(t, shown) ==
  LET walk[n \in Nodes \cup {nil}] ==
        IF n = nil THEN <<>> ELSE walk[t.left[n]] \o <<shown[n]>> \o walk[t.right[n]]
  IN  walk[First(t)]
InOrder(t) == Walk(t, [n \in Nodes |-> n])

RBTreeDestroy ==
  /\ pc = "idle"
  /\ live' = live \ Range(InOrder(tree))
  /\ pc' = "destroyed"
  /\ UNCHANGED <<tree, x, locals>>

(* RBTreeCreate.                                                           *)
Init ==
  /\ tree = [left |-> [n \in All |-> nil], right |-> [n \in All |-> nil],
             parent |-> [n \in All |-> nil], red |-> [n \in All |-> FALSE],
             key |-> [n \in All |-> 0]]
  /\ live = {}
  /\ pc = "idle"
  /\ x = nil /\ y = nil /\ z = nil /\ top = nil

Next ==
  \/ \E add \in Adds : RBTreeInsert(add[1], add[2])
  \/ InsertRecolour \/ InsertRotate \/ InsertDone
  \/ \E n \in Nodes : RBDelete(n)
  \/ FixUpSibling \/ FixUpRotate \/ FixUpDone \/ DeleteDone
  \/ RBTreeDestroy

Spec == Init /\ [][Next]_vars

(***************************************************************************)
(* Vocabulary of the properties.                                           *)
(***************************************************************************)
Deleting == pc \in {"fixup", "replace"}
Linked == IF Deleting THEN live \ {y} ELSE live

(* x is about to be given the black that RBDelete took out above it.       *)
Short(p, a) ==
  /\ pc = "fixup" /\ (tree.red[x] \/ x # top)
  /\ x = tree[a][p] /\ p = tree.parent[x]

(* The black nodes on every path down from n; negative if paths differ.    *)
BlackHeight(n) ==
  LET bh[m \in Nodes \cup {nil}] ==
        LET below(a) == bh[tree[a][m]] + IF Short(m, a) THEN 1 ELSE 0
            l == below("left")
            r == below("right")
        IN  IF m = nil THEN 0
            ELSE IF l # r \/ l < 0 THEN -2
            ELSE IF tree.red[m] THEN l ELSE l + 1
  IN  bh[n]

Depth(t, n) ==
  LET up[m \in Linked \cup {root}] == IF m = root THEN 0 ELSE up[t.parent[m]] + 1
  IN  IF n = nil THEN up[t.parent[nil]] + 1 ELSE up[n]

RbtTypeOK ==
  /\ tree \in [left : [All -> Nodes \cup {nil}], right : [All -> Nodes \cup {nil}],
               parent : [All -> All], red : [All -> BOOLEAN], key : [All -> Int]]
  /\ live \subseteq Nodes
  /\ pc \in {"idle", "insert", "fixup", "replace", "destroyed"}
  /\ x \in All /\ top \in Nodes \cup {nil}
  /\ IF Deleting THEN y \in live /\ z \in live ELSE y = nil /\ z = nil

(* Child and parent links (red_black_tree.c:86-99, 608-615) agree, also    *)
(* between two rotations and while the spliced node is out of the tree.    *)
LinksBothWays ==
  \A n \in Linked :
    /\ tree.parent[n] \in Linked \cup {root}
    /\ Cardinality({a \in Sides : tree[a][tree.parent[n]] = n}) = 1
    /\ \A a \in Sides :
         tree[a][n] # nil => tree[a][n] \in Linked /\ tree.parent[tree[a][n]] = n

(* Each path from the root to a leaf has the same number of black nodes,   *)
(* if the one that RBDeleteFixUp still owes is counted where it is owed:   *)
(* a stale `root` (line 504) that ended the loop early would lose it.      *)
BlackHeightsEqual == BlackHeight(First(tree)) >= 0

(* No red node has a red parent but where the loop under way is to repair  *)
(* it, and the sentinels are never red (the Asserts at lines 102, 201,     *)
(* 276, 561, 628): nil, whose parent every deletion changes, included.     *)
NoRedPair ==
  /\ \A n \in Linked :
       tree.red[n] /\ tree.red[tree.parent[n]]
         => \/ pc = "insert" /\ n = x
            \/ pc = "fixup" /\ x \in {n, tree.parent[n]}
  /\ pc = "idle" => ~tree.red[First(tree)]
  /\ ~tree.red[nil] /\ ~tree.red[root]

(* TreeSuccessor and TreePredecessor step through the list one node at a   *)
(* time and end with nil; RBExactQuery finds a key if it is there, and of  *)
(* several nodes with it "the one highest in the tree" (line 462).         *)
QueriesAgree ==
  pc = "idle" =>
    LET list == InOrder(tree)
    IN  /\ \A i \in 1..Len(list) :
             /\ TreeSuccessor(tree, list[i]) = IF i = Len(list) THEN nil ELSE list[i + 1]
             /\ TreePredecessor(tree, list[i]) = IF i = 1 THEN nil ELSE list[i - 1]
        /\ \A k \in Keys :
             LET n == RBExactQuery(tree, k)
                 with == {m \in live : tree.key[m] = k}
             IN  IF with = {} THEN n = nil
                 ELSE n \in with /\ \A m \in with \ {n} : Depth(tree, m) > Depth(tree, n)

(* What RBTreeDestroy walks over is all there is, whatever went before.    *)
NothingLeaks == pc = "destroyed" => live = {}

(* Each iteration of a repair loop comes nearer to the root or is the last.*)
LoopEnds ==
  \/ pc = "insert" /\ ~tree.red[tree.parent[x]]
  \/ pc = "fixup" /\ (tree.red[x] \/ x = top)
Climbs ==
  [][pc = pc' /\ pc \in {"insert", "fixup"}
       => Depth(tree', x') < Depth(tree, x) \/ LoopEnds']_vars

(* The list that the tree stands for.  A deletion takes effect when y is   *)
(* spliced out: from then on y stands where z still is.                    *)
Entry(n) == [id |-> n, key |-> tree.key[n]]
Shown ==
  IF pc = "destroyed" THEN <<>>
  ELSE Walk(tree, [n \in Nodes |-> Entry(IF Deleting /\ n = z THEN y ELSE n)])

List == INSTANCE OrderedList
          WITH list <- Shown,
               Entries <- {[id |-> add[1], key |-> add[2]] : add \in Adds}

(* Inserting and deleting do to the tree what they do to a sorted list in  *)
(* which equal keys keep the order of insertion; the repairs do nothing.   *)
RefinesList == List!Spec
==============================================================================

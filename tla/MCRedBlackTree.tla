---------------------------- MODULE MCRedBlackTree ----------------------------
(* Small instances of RedBlackTree for TLC.  A node is named for its key:  *)
(* what malloc returns does not matter, so one name for each key and one   *)
(* more for each node that may have the same key stand for all.            *)
EXTENDS RedBlackTree

MCNodes == 1..10
MCKeys == <<1, 2, 3, 4, 4, 5, 6, 7, 8, 9>>
MCAdds == {<<n, MCKeys[n]>> : n \in MCNodes}

(* Nothing reads the parent of nil but the repair of a deletion at nil.    *)
View ==
  <<IF pc = "fixup" /\ x = nil THEN tree ELSE [tree EXCEPT !.parent[nil] = nil],
    live, pc, x, y, z, top>>
==============================================================================

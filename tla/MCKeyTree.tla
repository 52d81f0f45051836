------------------------------ MODULE MCKeyTree ------------------------------
(* Small instances of KeyTree for TLC: words over the letters a, b and A,   *)
(* the digit 0, - and ! (which are kept as other characters), _ (left out). *)
EXTENDS KeyTree

Word(w, d) == [w |-> w, udata |-> d]
MCElems ==
  {Word(<<>>, 1), Word(<<97>>, 1), Word(<<97>>, 2), Word(<<97, 98>>, 3),
   Word(<<65>>, 4), Word(<<98, 48>>, 5), Word(<<97, 98, 65>>, 6),
   Word(<<97, 45, 98>>, 7), Word(<<97, 33>>, 8), Word(<<97, 95>>, 9),
   Word(<<95>>, 10)}
MCWordlists ==
  {<<>>, <<Word(<<98>>, 1), Word(<<97, 48>>, 2)>>, <<Word(<<97>>, 1), Word(<<97>>, 2)>>}

(* A word that begins another.                                             *)
Beginnings == {Word(<<97, 98>>, 1), Word(<<97>>, 2)}
NoWords == {<<>>}
==============================================================================

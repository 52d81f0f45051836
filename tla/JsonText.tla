------------------------------ MODULE JsonText -------------------------------
(***************************************************************************)
(* A JSON text as the tokens that the yajl library reports to its          *)
(* callbacks or is asked to generate.  Of a scalar its kind is kept, of a  *)
(* name its characters.  A place is a stack of what may come next at each  *)
(* level: "start" of the text, a "key" or the value of a "member" of a     *)
(* map, an "element" of an array, the "end" of the text.                   *)
(***************************************************************************)
EXTENDS Integers, Sequences, SequencesExt

Piece(t, name, kind) == [t |-> t, name |-> name, kind |-> kind]
MapStart     == Piece("{", <<>>, "")
MapEnd       == Piece("}", <<>>, "")
ArrayStart   == Piece("[", <<>>, "")
ArrayEnd     == Piece("]", <<>>, "")
Key(name)    == Piece("key", name, "")
Scalar(kind) == Piece("scalar", <<>>, kind)
Str(name)    == Piece("string", name, "string")   \* for the generator only

Start == <<"start">>
Complete == <<"end">>
At(place, S) == Last(place) \in S

(* After a key, or after a whole value.                                    *)
Following(p) == CASE p = "start" -> "end" [] p = "key" -> "member"
              [] p = "member" -> "key" [] OTHER -> p
After(place) == [place EXCEPT ![Len(place)] = Following(@)]

(* The place after piece x of a correct text.                              *)
Moved(place, x) ==
  CASE x.t = "{"        -> Append(place, "key")
    [] x.t = "["        -> Append(place, "element")
    [] x.t \in {"}", "]"} -> After(Front(place))
    [] OTHER            -> After(place)

(* What may come at a place of a correct text.                             *)
Admits(place, x) ==
  CASE x.t = "key" -> At(place, {"key"})
    [] x.t = "}"   -> At(place, {"key"})
    [] x.t = "]"   -> At(place, {"element"})
    [] OTHER       -> At(place, {"start", "member", "element"})

(* The fewest pieces that complete a text.                                 *)
Missing(place) == Len(place) - 1 + (IF At(place, {"start", "member"}) THEN 1 ELSE 0)

(***************************************************************************)
(* The generator, yajl_gen.  It accepts anything until the text is         *)
(* complete, but only a string for a key; it does not check that a close   *)
(* fits what is open.  A string is a key or a value by its place.          *)
(***************************************************************************)
Empty == [at |-> Start, out |-> <<>>, ok |-> TRUE]

Accepts(g, x) ==
  /\ ~At(g.at, {"end"})
  /\ x.t \in {"{", "[", "scalar"} => ~At(g.at, {"key"})
  /\ x.t \in {"}", "]"} => Len(g.at) > 1

Put(g, x) ==
  LET y == IF x.t # "string" THEN x
           ELSE IF At(g.at, {"key"}) THEN Key(x.name) ELSE Scalar("string")
  IN  IF Accepts(g, x)
      THEN [at |-> Moved(g.at, x), out |-> Append(g.out, y), ok |-> TRUE]
      ELSE [g EXCEPT !.ok = FALSE]

(* One after the other, up to the first that is refused.                   *)
PutAll(g, s) ==
  FoldLeft(LAMBDA h, x : IF h.ok THEN Put(h, x) ELSE h, [g EXCEPT !.ok = TRUE], s)
==============================================================================

------------------------------- MODULE KeyTree -------------------------------
(***************************************************************************)
(* The keytree of keytree.c: a trie of words with a pointer of the client  *)
(* for each.  A node is named by the slots that lead to it from the head,  *)
(* a slot is a list of children and an index in it.  Characters are their  *)
(* codes.                                                                  *)
(***************************************************************************)
EXTENDS Integers, FiniteSets, Sequences, SequencesExt, FiniteSetsExt, TLC

CONSTANTS
  Elems,         \* what the client adds: words with their udata
  Wordlists,     \* what it creates a tree from: sequences of Elems
  Types,         \* create_flags: whether upper case is folded
  AllocMayFail,  \* any malloc may fail
  MaxAdds,       \* bound: words added
  NULL

IsElem(e) == DOMAIN e = {"w", "udata"} /\ e.w \in Seq(0..255) /\ e.udata # NULL

ASSUME AllocAssumption == AllocMayFail \in BOOLEAN /\ MaxAdds \in Nat
ASSUME ElemsAssumption == \A e \in Elems : IsElem(e)
ASSUME WordlistsAssumption ==
  \A list \in Wordlists : list \in Seq(Range(list)) /\ \A e \in Range(list) : IsElem(e)
ASSUME TypesAssumption == Types \subseteq BOOLEAN

VARIABLES
  status,  \* "none", "up", "released", "dangling" (the head points at freed
           \* memory), "undefined" (the program has read or written such)
  tree,    \* nodes: udata, end_of_word; child lists: nb_keys
  fold,    \* type: KT_WEAK_TYPE_CASE_SENSITIVE
  ret,     \* what the last call returned, and what it stored in *udata
  added,   \* history: what was added, in order
  failed   \* history: a malloc has failed

vars == <<status, tree, fold, ret, added, failed>>

key_head == <<>>
NoNodes == [udata |-> [p \in {} |-> NULL], end_of_word |-> {}, nb_keys |-> [l \in {} |-> 0]]
Size(l) == IF l = "number" THEN 10 ELSE 26

(***************************************************************************)
(* Characters.                                                             *)
(***************************************************************************)
Digit == 48..57
Upper == 65..90
Lower == 97..122
isspace == 9..13 \cup {32}
iscntrl == 0..31 \cup {127}
isalnum == Digit \cup Upper \cup Lower
ispunct == (33..126) \ isalnum

word_type(c) ==
  CASE c \in Digit -> <<"number", c - 48>>
    [] c \in Upper -> <<"upper", c - 65>>
    [] c \in Lower -> <<"lower", c - 97>>
    [] OTHER       -> <<"other", c - 33>>

(* ret_c of word_weak_type.                                                *)
Plain(f, c) ==
  CASE f /\ c \in Upper              -> c + 32
    [] c \in {195} \cup 232..235     -> 101
    [] OTHER                         -> c
word_weak_type(f, c) ==
  IF c \in {10, 32, 63} THEN <<"none", 0>> ELSE word_type(Plain(f, c))

(***************************************************************************)
(* parse_file_create_key: t is the tree with the locals of the call, of    *)
(* which `at` is the node that l_key points to (none yet for the head),    *)
(* `new` l_new_elem, `mallocs` the number of allocations so far, those in  *)
(* F failing, and `out` how it ends.                                       *)
(***************************************************************************)
Ends(t, out) == [t EXCEPT !.out = out]
Extended(f, x, v) == [q \in DOMAIN f \cup {x} |-> IF q = x THEN v ELSE f[q]]

(* Nothing is done with the character and l_key is used again; there is    *)
(* nothing in it yet at the first one.                                     *)
Skip(t) == IF t.at = key_head THEN Ends(t, "undefined") ELSE [t EXCEPT !.new = FALSE]

HasList(t, l) == <<t.at, l>> \in DOMAIN t.nb_keys
WithList(t, l) ==
  IF HasList(t, l) THEN t
  ELSE [t EXCEPT !.nb_keys = Extended(@, <<t.at, l>>, 0), !.mallocs = @ + 1]

NewNode_NotCounted(t, p, l) ==    \* mutant: nb_keys is left alone
  [t EXCEPT !.udata = Extended(@, p, NULL), !.at = p, !.new = TRUE, !.mallocs = @ + 1]
NewNode(t, p, l) ==
  [t EXCEPT !.udata = Extended(@, p, NULL), !.nb_keys[<<t.at, l>>] = @ + 1,
            !.at = p, !.new = TRUE, !.mallocs = @ + 1]

(* A failure in kt_key_add goes unnoticed: without a list, l_key is what it*)
(* was; without a node, it is the null pointer, which the call goes on from*)
Unnoticed(l) == l \in {"upper", "lower"}

InList(s) == s[2] \in 0..Size(s[1]) - 1
OutOfRange(s) == s[1] = "other" /\ s[2] \notin 0..26

NextCharacter(F, f, t, c) ==
  LET s == word_weak_type(f, c)
      l == s[1]
      u == WithList(t, l)
      p == Append(t.at, s)
      fails == t.mallocs + 1 \in F
  IN  CASE t.out # "going"                    -> t
        [] t.out = "going" /\ l = "none"      -> Skip(t)
        [] t.out = "going" /\ l # "none" /\ ~HasList(t, l) /\ fails ->
             IF Unnoticed(l) THEN Skip([t EXCEPT !.mallocs = @ + 1])
             ELSE Ends(t, "W_E_NO_MEMORY")
        [] OTHER ->
             CASE OutOfRange(s)                      -> Skip(u)
               [] s = <<"other", 26>>                -> Ends(u, "undefined")
               [] InList(s) /\ p \in DOMAIN t.udata  -> [u EXCEPT !.at = p, !.new = FALSE]
               [] OTHER ->
                    IF u.mallocs + 1 \notin F THEN NewNode(u, p, l)
                    ELSE Ends(u, IF Unnoticed(l) THEN "undefined" ELSE "W_E_NO_MEMORY")

(* The end of the word; what was there keeps its udata.                    *)
Marked_Overwrites(t, d) ==        \* mutant: the udata is always the new one
  [t EXCEPT !.end_of_word = @ \cup {t.at}, !.udata[t.at] = d,
            !.out = IF t.new THEN "W_NO_ERROR" ELSE "W_E_EXISTS"]
Marked_KeepsMark(t, d) ==         \* mutant: only a new node is marked
  IF t.new THEN [t EXCEPT !.end_of_word = @ \cup {t.at}, !.udata[t.at] = d,
                          !.out = "W_NO_ERROR"]
  ELSE Ends(t, "W_E_EXISTS")
Marked(t, d) ==
  [t EXCEPT !.end_of_word = @ \cup {t.at},
            !.udata[t.at] = IF t.new THEN d ELSE @,
            !.out = IF t.new THEN "W_NO_ERROR" ELSE "W_E_EXISTS"]

Followed(F, f, t, w) == FoldLeft(LAMBDA v, c : NextCharacter(F, f, v, c), t, w)

parse_file_create_key(F, f, t, e) ==
  LET u == Followed(F, f, [t EXCEPT !.at = key_head, !.new = FALSE, !.out = "going"], e.w)
  IN  IF e.w = <<>> THEN Ends(t, "W_E_BAD_PARAMETER")
      ELSE IF u.out = "going" THEN Marked(u, e.udata)
      ELSE u

WithLocals(nodes) ==
  [udata |-> nodes.udata, end_of_word |-> nodes.end_of_word, nb_keys |-> nodes.nb_keys,
   at |-> key_head, new |-> FALSE, mallocs |-> 0, out |-> "W_NO_ERROR"]
TreeOf(t) == [udata |-> t.udata, end_of_word |-> t.end_of_word, nb_keys |-> t.nb_keys]
Failures(n) == IF AllocMayFail THEN SUBSET (1..n) ELSE {{}}

(***************************************************************************)
(* The calls.                                                              *)
(***************************************************************************)

(* wg_keytree_create.  Any error of a word, W_E_EXISTS included, gives up  *)
(* the tree (its nodes are not released); a failure to allocate the head   *)
(* is answered with W_NO_ERROR and no tree.                                *)
LoadAll(F, f, list) ==
  FoldLeft(LAMBDA t, e : IF t.out = "W_NO_ERROR" THEN parse_file_create_key(F, f, t, e)
                         ELSE t,
           WithLocals(NoNodes), list)

Create(list, f) ==
  /\ status = "none" /\ fold' = f
  /\ \/ \E F \in Failures(4) :
          LET t == LoadAll(F, f, list)
          IN  /\ status' = CASE t.out = "W_NO_ERROR" -> "up"
                             [] t.out = "undefined"  -> "undefined"
                             [] OTHER                -> "none"
              /\ tree' = IF t.out = "W_NO_ERROR" THEN TreeOf(t) ELSE NoNodes
              /\ ret' = [error |-> t.out, udata |-> NULL]
              /\ added' = IF t.out = "W_NO_ERROR" THEN list ELSE <<>>
              /\ failed' = (failed \/ F # {})
     \/ /\ AllocMayFail
        /\ ret' = [error |-> "W_NO_ERROR", udata |-> NULL]
        /\ failed' = TRUE
        /\ UNCHANGED <<status, tree, added>>

(* wg_keytree_add.  Out of memory, everything is released but the head,    *)
(* which keeps its pointers.                                               *)
Add(e) ==
  /\ status = "up" /\ Len(added) < MaxAdds
  /\ \E F \in Failures(2 * Len(e.w)) :
       LET t == parse_file_create_key(F, fold, WithLocals(tree), e)
       IN  /\ ret' = [error |-> t.out,
                      udata |-> IF t.out = "W_E_EXISTS" THEN t.udata[t.at] ELSE NULL]
           /\ failed' = (failed \/ F # {})
           /\ added' = IF t.out \in {"W_NO_ERROR", "W_E_EXISTS"} THEN Append(added, e)
                       ELSE added
           /\ tree' = IF t.out = "W_E_NO_MEMORY" THEN NoNodes ELSE TreeOf(t)
           /\ status' = CASE t.out = "undefined" -> "undefined"
                          [] t.out = "W_E_NO_MEMORY" /\ t.nb_keys # NoNodes.nb_keys -> "dangling"
                          [] OTHER -> "up"
  /\ UNCHANGED fold

(* wg_keytree_release.                                                     *)
Release ==
  /\ status \in {"up", "dangling"}
  /\ status' = IF status = "up" THEN "released" ELSE "undefined"
  /\ tree' = NoNodes
  /\ ret' = [error |-> "W_NO_ERROR", udata |-> NULL]
  /\ UNCHANGED <<fold, added, failed>>

Init ==
  /\ status = "none" /\ tree = NoNodes /\ fold = FALSE
  /\ ret = [error |-> "W_NO_ERROR", udata |-> NULL]
  /\ added = <<>> /\ failed = FALSE

Next ==
  \/ \E list \in Wordlists, f \in Types : Create(list, f)
  \/ \E e \in Elems : Add(e)
  \/ Release

Spec == Init /\ [][Next]_vars

(***************************************************************************)
(* The lookups, which change nothing.  Following a string that ends with 0,*)
(* slot by slot, they come as far as the tree goes with it.                *)
(***************************************************************************)
Nodes == DOMAIN tree.udata

Reached(slots) ==
  Max({i \in 0..Len(slots) : SubSeq(slots, 1, i) \in Nodes \cup {key_head}})
(* The next slot is then read: outside of its list, C defines nothing.     *)
ReadsOutside(slots) ==
  LET n == Reached(slots)
      s == slots[n + 1]
  IN  <<SubSeq(slots, 1, n), s[1]>> \in DOMAIN tree.nb_keys /\ ~InList(s)

(* How many characters the words take at which a lookup may stop.          *)
WordsIn(str, slots, stop) ==
  {i \in 1..Reached(slots) : SubSeq(slots, 1, i) \in tree.end_of_word /\ str[i + 1] \in stop}

Plainly(str) ==
  [i \in DOMAIN str |->
     IF word_type(str[i])[1] = "other" THEN <<"none", 0>> ELSE word_type(str[i])]

wg_keytree_keyget(str) ==
  LET found == WordsIn(str, Plainly(str), isspace \cup iscntrl \cup ispunct)
  IN  IF found = {} THEN <<"W_E_OPERATION_FAILED", NULL>>
      ELSE <<"W_NO_ERROR", tree.udata[SubSeq(Plainly(str), 1, Min(found))]>>

wg_keytree_strcmp(str) ==
  IF WordsIn(str, Plainly(str), isspace \cup iscntrl) = {} THEN "W_E_OPERATION_FAILED"
  ELSE "W_NO_ERROR"

(* These two are defined unless the string ends where the tree goes on with*)
(* a list of the kind they look for its last character, the 0, in.         *)
Lowered(str) ==
  [i \in DOMAIN str |-> IF str[i] \in Digit THEN word_type(str[i])
                       ELSE <<"lower", Plain(fold, str[i]) - 97>>]
wg_keytree_weakcmp(str) ==
  IF WordsIn(str, Lowered(str), isspace \cup iscntrl) = {} THEN "W_E_OPERATION_FAILED"
  ELSE "W_NO_ERROR"

AllSlots(str) == [i \in DOMAIN str |-> word_type(str[i])]
wg_keytree_strcmp_isalnum(str) ==
  LET found == WordsIn(str, AllSlots(str), (0..255) \ isalnum)
  IN  IF found = {} THEN -1 ELSE Max(found)

(* The nodes wg_keytree_foreach calls its function for, in order.  The last*)
(* list is gone through as far as it has children, not as far as they are. *)
(* Its string is of 128 characters, which no word here comes near to; what *)
(* the function answers is not looked at (keytree.c:95).                   *)
Visited_StopsEarly(p, l) ==     \* mutant: an index is counted for a child
  SelectSeq(SetToSortSeq({o \in 0..25 : Append(p, <<l, o>>) \in Nodes}, <),
            LAMBDA o : o < tree.nb_keys[<<p, l>>])
Visited(p, l) ==
  LET nb_keys == tree.nb_keys[<<p, l>>]
      offsets == SetToSortSeq({o \in 0..25 : Append(p, <<l, o>>) \in Nodes}, <)
  IN  IF l = "other" THEN SelectSeq(offsets, LAMBDA o : o < nb_keys)
      ELSE SubSeq(offsets, 1, Min({nb_keys, Len(offsets)}))

wg_keytree_foreach ==
  LET visit[p \in Nodes \cup {key_head}] ==
        LET Below(l) ==
              IF <<p, l>> \notin DOMAIN tree.nb_keys THEN <<>>
              ELSE FlattenSeq([i \in DOMAIN Visited(p, l) |->
                     LET q == Append(p, <<l, Visited(p, l)[i]>>) IN <<q>> \o visit[q]])
        IN  Below("lower") \o Below("upper") \o Below("number") \o Below("other")
  IN  visit[key_head]

(* The string the function is given with a node.                           *)
Letter(s) ==
  s[2] + CASE s[1] = "upper" -> 65 [] s[1] = "number" -> 48 [] OTHER -> 97
p_str(p) == [i \in DOMAIN p |-> Letter(p[i])]

(***************************************************************************)
(* Vocabulary of the properties.                                           *)
(***************************************************************************)
Intact == status = "up" /\ ~failed

(* The slots of a word, without the characters that have none.             *)
PlacedIn(f, c) ==
  LET s == word_weak_type(f, c) IN s[1] # "none" /\ ~OutOfRange(s)
Path(f, w) ==
  FoldLeft(LAMBDA p, c : IF PlacedIn(f, c) THEN Append(p, word_weak_type(f, c)) ELSE p,
           key_head, w)
PathOf(w) == Path(fold, w)

Words == {e.w : e \in Elems} \ {<<>>}
Alphanumeric(w) == Range(w) \subseteq isalnum
IsAdded(w) == \E i \in DOMAIN added : PathOf(added[i].w) = PathOf(w)

KeyTreeTypeOK ==
  /\ status \in {"none", "up", "released", "dangling", "undefined"}
  /\ fold \in BOOLEAN /\ failed \in BOOLEAN
  /\ tree.end_of_word \subseteq Nodes
  /\ \A p \in Nodes : <<Front(p), Last(p)[1]>> \in DOMAIN tree.nb_keys
  /\ \A h \in DOMAIN tree.nb_keys :
       /\ h[1] \in Nodes \cup {key_head}
       /\ tree.nb_keys[h] = Cardinality({p \in Nodes : Front(p) = h[1] /\ Last(p)[1] = h[2]})

(* wg_keytree_add leaves every word in the tree with its udata             *)
(* (keytree.c:310-320), or answers W_E_NO_MEMORY and releases them all     *)
(* (keytree.c:325-327): it never loses some of them, and never any behind a*)
(* success, whichever mallocs fail.  Calls that go on from a null pointer  *)
(* are left out: nothing can be said of them.                              *)
WordsKept ==
  [][status = "up" /\ status' \in {"up", "dangling"} =>
       \/ /\ tree.end_of_word \subseteq tree'.end_of_word
          /\ \A p \in tree.end_of_word : tree'.udata[p] = tree.udata[p]
       \/ ret'.error = "W_E_NO_MEMORY" /\ tree'.end_of_word = {}]_vars

(* Of the words of letters and digits, wg_keytree_strcmp and _keyget find  *)
(* those that were added to a tree that does not fold, keyget with the data*)
(* of the node, and no others (keytree.h:157, 190): beginnings and         *)
(* continuations of added words are told from them.  A word that was added *)
(* with characters the tree leaves out counts as the word without them.    *)
(* What they answer otherwise is left open: keytree.h:158, 167 and 191 say *)
(* W_E_BAD_PARAMETER, the code W_E_OPERATION_FAILED.                       *)
ExactLookupsAgree ==
  Intact /\ ~fold =>
    \A w \in {v \in Words : Alphanumeric(v)} :
      LET str == Append(w, 0)
          got == wg_keytree_keyget(str)
      IN  /\ (wg_keytree_strcmp(str) = "W_NO_ERROR") <=> IsAdded(w)
          /\ (got[1] = "W_NO_ERROR") <=> IsAdded(w)
          /\ IsAdded(w) => got[2] = tree.udata[PathOf(w)]

(* So do wg_keytree_weakcmp, in a tree that folds, and _strcmp_isalnum, in *)
(* one that does not, as long as they read no array out of its bounds.     *)
(* They do when the word itself goes on in the tree with a child of the    *)
(* kind they look for the final 0 in: a lower case letter for weakcmp,     *)
(* another character for isalnum.  Nothing is claimed of such words,       *)
(* although keytree.h:166 means words that were added to be found.         *)
WeakLookupsAgree ==
  Intact =>
    \A w \in {v \in Words : Alphanumeric(v)} :
      LET str == Append(w, 0)
      IN  /\ fold /\ ~ReadsOutside(Lowered(str)) =>
               ((wg_keytree_weakcmp(str) = "W_NO_ERROR") <=> IsAdded(w))
          /\ ~fold /\ ~ReadsOutside(AllSlots(str)) =>
               wg_keytree_strcmp_isalnum(str) = IF IsAdded(w) THEN Len(w) ELSE -1

(* The four lookups find what was added.                                   *)
LookupsAgree == ExactLookupsAgree /\ WeakLookupsAgree

(* The words of the tree are those that were added, and each has the data  *)
(* it was first added with (keytree.c:318), however many times it was added*)
(* and whatever was added around it, if that first addition made its node: *)
(* the word did not begin one that was there, and did not end in a         *)
(* character that the tree leaves out.  ExistsHasData is about those.      *)
FirstAddition(p) == Min({j \in DOMAIN added : PathOf(added[j].w) = p})
MadeItsNode(i) ==
  /\ \A j \in 1..i - 1 : ~IsPrefix(PathOf(added[i].w), PathOf(added[j].w))
  /\ PlacedIn(fold, Last(added[i].w))
DataOfFirst ==
  Intact =>
    /\ tree.end_of_word = {PathOf(added[i].w) : i \in DOMAIN added}
    /\ \A p \in tree.end_of_word :
         LET i == FirstAddition(p) IN MadeItsNode(i) => tree.udata[p] = added[i].udata

(* wg_keytree_foreach provides each word once, with the string it was      *)
(* added with, if they are all of letters and digits.  keytree.h:176 says  *)
(* so of every word; the list of other characters is gone through up to    *)
(* its number of children only (keytree.c:127).                            *)
ForeachComplete ==
  Intact /\ (\A i \in DOMAIN added : Alphanumeric(added[i].w)) =>
    LET words == SelectSeq(wg_keytree_foreach, LAMBDA p : p \in tree.end_of_word)
        Folded(w) == [i \in DOMAIN w |-> Plain(fold, w[i])]
    IN  /\ Len(words) = Cardinality(tree.end_of_word)
        /\ {p_str(words[i]) : i \in DOMAIN words} = {Folded(added[i].w) : i \in DOMAIN added}

(* keytree.h:146: when the given string already exists, udata is the       *)
(* private data of the existing element; so there is one that was added    *)
(* before, with that data.                                                 *)
ExistsHasData ==
  Intact /\ ret.error = "W_E_EXISTS" =>
    \E i \in 1..Len(added) - 1 :
      PathOf(added[i].w) = PathOf(Last(added).w) /\ ret.udata = added[i].udata
==============================================================================

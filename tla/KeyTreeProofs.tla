---------------------------- MODULE KeyTreeProofs ----------------------------
(***************************************************************************)
(* Proofs about the keytree, for any words and any failing allocations.    *)
(*                                                                         *)
(* A word is followed character by character by a fold.  A fold is first   *)
(* shown to be a walk: a table of the states it goes through, each one     *)
(* made of the one before.  What every step keeps then holds all along.    *)
(***************************************************************************)
EXTENDS KeyTree, TLAPS, WellFoundedInduction, SequenceTheorems, FiniteSetTheorems

Char == 0..255
Kinds == {"number", "upper", "lower", "other"}
Slots == Kinds \X Int

(***************************************************************************)
(* Folds.                                                                  *)
(***************************************************************************)
(* A set of numbers has a first one.                                       *)
LEMMA FirstOf ==
  ASSUME NEW E \in SUBSET Nat, E # {}
  PROVE  \E m \in E : \A q \in E : m <= q
<1>1. PICK m \in E : \A q \in E : ~(<<q, m>> \in OpToRel(<, Nat))
  BY NatLessThanWellFounded, WFMin, Zenon
<1>2. \A q \in E : ~(q < m)
  BY <1>1 DEF OpToRel
<1>3. QED
  BY <1>2

(* What holds of 0 and goes from one number to the next holds up to n.     *)
LEMMA UpTo ==
  ASSUME NEW n \in Nat, NEW S, 0 \in S, \A i \in 1..n : i - 1 \in S => i \in S
  PROVE  0..n \subseteq S
<1> DEFINE E == (0..n) \ S
<1>1. SUFFICES ASSUME E # {} PROVE FALSE
  OBVIOUS
<1>2. PICK m \in E : \A q \in E : m <= q
  <2>1. E \in SUBSET Nat
    OBVIOUS
  <2> HIDE DEF E
  <2>2. QED
    BY <1>1, <2>1, FirstOf
<1>3. m \in 1..n /\ m - 1 \in 0..n /\ m - 1 < m
  OBVIOUS
<1>4. m - 1 \notin E
  BY <1>2, <1>3
<1>5. QED
  BY <1>3, <1>4

(* The last of the numbers up to m.                                        *)
LEMMA LastNumber ==
  ASSUME NEW m \in Nat, NEW s \in SUBSET (1..m), m \in s
  PROVE  Max(s) = m
<1>1. \A k \in s : (\A q \in s : k >= q) <=> k = m
  OBVIOUS
<1>2. QED
  BY <1>1, Zenon DEF Max


(* One step of each of the three folds: over the characters of a word, for *)
(* the tree and for the path of the word, and over the words of a list.    *)
Step(k, F, f, v, c) ==
  CASE k = "characters" -> NextCharacter(F, f, v, c)
    [] k = "words"      -> IF v.out = "W_NO_ERROR" THEN parse_file_create_key(F, f, v, c) ELSE v
    [] k = "slots"      -> IF PlacedIn(f, c) THEN Append(v, word_weak_type(f, c)) ELSE v

(* The function by which a fold is defined, on the sets of positions.      *)
Iterate(k, F, f, t, w, h, s) ==
  IF s = {} THEN t ELSE Step(k, F, f, h[s \ {Max(s)}], w[Max(s)])

Iterator(k, F, f, t, w, n, e) ==
  e = [s \in SUBSET (1..n) |-> Iterate(k, F, f, t, w, e, s)]

(* g lists what the fold has come to after 0, 1, ... steps.                *)
Walk(k, F, f, t, w, g) ==
  g[0] = t /\ \A i \in 1..Len(w) : g[i] = Step(k, F, f, g[i - 1], w[i])

LEMMA IterateExists ==
  ASSUME NEW k, NEW F, NEW f, NEW t, NEW w, NEW n \in Nat
  PROVE  \E e : Iterator(k, F, f, t, w, n, e)
<1> DEFINE Body(h, s) == Iterate(k, F, f, t, w, h, s)
           Right(h, m) == \A s \in SUBSET (1..m) : h[s] = Body(h, s)
           S == {m \in 0..n : \E h : Right(h, m)}
<1>1. 0 \in S
  <2>1. PICK h : h = [s \in {{}} |-> t]
    OBVIOUS
  <2>2. \A s \in SUBSET (1..0) : s = {}
    OBVIOUS
  <2>3. Right(h, 0)
    BY <2>1, <2>2 DEF Iterate
  <2> HIDE DEF Right
  <2>4. QED
    BY <2>3
<1>2. ASSUME NEW m \in 1..n, m - 1 \in S PROVE m \in S
  <2>1. PICK h : Right(h, m - 1)
    BY <1>2
  <2> DEFINE u == [s \in SUBSET (1..m) |->
                     IF s \subseteq 1..(m - 1) THEN h[s]
                     ELSE Step(k, F, f, h[s \ {m}], w[m])]
  <2>2. ASSUME NEW s \in SUBSET (1..m) PROVE u[s] = Body(u, s)
    <3>1. CASE s = {}
      <4>1. s \in SUBSET (1..(m - 1))
        BY <3>1
      <4>2. QED
        BY <2>1, <3>1, <4>1 DEF Iterate
    <3>2. CASE s # {} /\ m \notin s
      <4>1. s \in SUBSET (1..(m - 1))
        BY <3>2
      <4>2. s \ {Max(s)} \in SUBSET (1..m) /\ s \ {Max(s)} \subseteq 1..(m - 1)
        BY <4>1
      <4>3. u[s] = h[s] /\ u[s \ {Max(s)}] = h[s \ {Max(s)}]
        BY <4>1, <4>2
      <4>4. h[s] = Body(h, s)
        BY <2>1, <4>1
      <4> HIDE DEF u
      <4>5. QED
        BY <3>2, <4>3, <4>4 DEF Iterate
    <3>3. CASE s # {} /\ m \in s
      <4>1. Max(s) = m /\ ~(s \subseteq 1..(m - 1))
        BY <3>3, LastNumber
      <4>2. s \ {m} \in SUBSET (1..m) /\ s \ {m} \subseteq 1..(m - 1)
        OBVIOUS
      <4>3. u[s] = Step(k, F, f, h[s \ {m}], w[m]) /\ u[s \ {m}] = h[s \ {m}]
        BY <4>1, <4>2
      <4> HIDE DEF u
      <4>4. QED
        BY <3>3, <4>1, <4>3 DEF Iterate
    <3>4. QED
      BY <3>1, <3>2, <3>3
  <2>3. Right(u, m)
    BY <2>2
  <2> HIDE DEF u, Right
  <2>4. QED
    BY <2>3
<1>3. n \in S
  <2> HIDE DEF S
  <2>1. 0..n \subseteq S
    BY <1>1, <1>2, UpTo
  <2>2. QED
    BY <2>1
<1>4. PICK h : Right(h, n)
  BY <1>3
<1>5. PICK e : e = [s \in SUBSET (1..n) |-> h[s]]
  OBVIOUS
<1>6. ASSUME NEW s \in SUBSET (1..n) PROVE e[s] = Body(e, s)
  <2>1. s \ {Max(s)} \in SUBSET (1..n)
    OBVIOUS
  <2>2. QED
    BY <1>4, <1>5, <2>1 DEF Iterate
<1> HIDE DEF Body
<1>7. e = [s \in SUBSET (1..n) |-> Body(e, s)]
  BY <1>5, <1>6
<1>8. QED
  BY <1>7, Zenon DEF Body, Iterator

LEMMA WalkExists ==
  ASSUME NEW k, NEW F, NEW f, NEW t, NEW C, NEW w \in Seq(C),
         NEW up, Iterator(k, F, f, t, w, Len(w), up)
  PROVE  \E g : Walk(k, F, f, t, w, g) /\ g[Len(w)] = up[1..Len(w)]
<1>1. PICK n \in Nat : n = Len(w)
  OBVIOUS
<1>2. \A s \in SUBSET (1..n) : up[s] = Iterate(k, F, f, t, w, up, s)
  BY <1>1 DEF Iterator
<1> DEFINE g == [i \in 0..n |-> up[1..i]]
<1>3. g[0] = t
  <2>1. 1..0 = {} /\ 1..0 \in SUBSET (1..n)
    OBVIOUS
  <2>2. up[1..0] = t
    BY <1>2, <2>1 DEF Iterate
  <2>3. \A i \in 0..n : g[i] = up[1..i]
    OBVIOUS
  <2>4. QED
    BY <2>2, <2>3
<1>4. ASSUME NEW i \in 1..n PROVE g[i] = Step(k, F, f, g[i - 1], w[i])
  <2>1. /\ 1..i \in SUBSET (1..n) /\ 1..i \in SUBSET (1..i) /\ 1..i # {}
        /\ (1..i) \ {i} = 1..(i - 1) /\ i \in 1..i /\ i \in Nat
    OBVIOUS
  <2>2. Max(1..i) = i
    BY <2>1, LastNumber
  <2>3. up[1..i] = Step(k, F, f, up[1..(i - 1)], w[i])
    BY <1>2, <2>1, <2>2 DEF Iterate
  <2>4. i \in 0..n /\ i - 1 \in 0..n
    OBVIOUS
  <2>5. QED
    BY <2>3, <2>4
<1>5. g[n] = up[1..n]
  OBVIOUS
<1> HIDE DEF g
<1>6. Walk(k, F, f, t, w, g)
  BY <1>1, <1>3, <1>4 DEF Walk
<1>7. QED
  BY <1>1, <1>5, <1>6

LEMMA FollowedWalk ==
  ASSUME NEW F, NEW f, NEW t, NEW C, NEW w \in Seq(C)
  PROVE  \E g : Walk("characters", F, f, t, w, g) /\ Followed(F, f, t, w) = g[Len(w)]
<1> DEFINE Body(h, s) == IF s = {} THEN t
                         ELSE NextCharacter(F, f, h[s \ {Max(s)}], w[Max(s)])
           up == CHOOSE up : up = [s \in SUBSET (1..Len(w)) |-> Body(up, s)]
<1>1. PICK n \in Nat : n = Len(w) /\ DOMAIN w = 1..n
  OBVIOUS
<1>2. Followed(F, f, t, w) = up[1..n]
  BY <1>1 DEF Followed, FoldLeft, MapThenFoldSet
<1>3. \A h, s : Body(h, s) = Iterate("characters", F, f, t, w, h, s)
  BY DEF Iterate, Step
<1> HIDE DEF Body
<1>4. up = [s \in SUBSET (1..n) |-> Body(up, s)]
  <2>1. PICK e : Iterator("characters", F, f, t, w, n, e)
    BY IterateExists
  <2>2. e = [s \in SUBSET (1..n) |-> Body(e, s)]
    BY <1>3, <2>1 DEF Iterator
  <2>3. QED
    BY <1>1, <2>2, Zenon
<1> HIDE DEF up
<1>5. Iterator("characters", F, f, t, w, n, up)
  BY <1>3, <1>4 DEF Iterator
<1>6. QED
  BY <1>1, <1>2, <1>5, WalkExists

(***************************************************************************)
(* What every character keeps.                                             *)
(***************************************************************************)
Fields == {"udata", "end_of_word", "nb_keys", "at", "new", "mallocs", "out"}
Children(ud, h) == {p \in DOMAIN ud : Front(p) = h[1] /\ Last(p)[1] = h[2]}

(* A tree: every node is in a list of a node or of the head, and nb_keys   *)
(* counts the children in each list.                                       *)
SoundTree(ud, ew, nb) ==
  /\ IsFiniteSet(DOMAIN ud)
  /\ DOMAIN ud \subseteq Seq(Slots) \ {key_head} /\ \A p \in DOMAIN ud : InList(Last(p))
  /\ ew \subseteq DOMAIN ud
  /\ DOMAIN nb \subseteq (DOMAIN ud \cup {key_head}) \X Kinds
  /\ \A p \in DOMAIN ud : <<Front(p), Last(p)[1]>> \in DOMAIN nb
  /\ \A h \in DOMAIN nb : nb[h] = Cardinality(Children(ud, h))

(* Nothing is taken from t0 or changed in it, and `new` is of a new node.  *)
Grown(t0, t) ==
  /\ t.end_of_word = t0.end_of_word
  /\ DOMAIN t0.udata \subseteq DOMAIN t.udata
  /\ \A p \in DOMAIN t0.udata : t.udata[p] = t0.udata[p]
  /\ DOMAIN t0.nb_keys \subseteq DOMAIN t.nb_keys
  /\ t.new => t.at \in DOMAIN t.udata \ DOMAIN t0.udata

During(t0, t) ==
  /\ DOMAIN t = Fields
  /\ SoundTree(t.udata, t.end_of_word, t.nb_keys)
  /\ t.at \in DOMAIN t.udata \cup {key_head}
  /\ t.new \in BOOLEAN
  /\ Grown(t0, t)

(* u has the tree of t and its node.                                       *)
Alike(t, u) ==
  /\ DOMAIN u = Fields /\ u.udata = t.udata /\ u.end_of_word = t.end_of_word
  /\ u.nb_keys = t.nb_keys

Counted(nb, h) == [nb EXCEPT ![h] = @ + 1]
Moved(t, p) == [t EXCEPT !.at = p, !.new = FALSE]

(* u is t with the node p, which was not there.                            *)
WithNode(t, p, l, u) ==
  /\ DOMAIN u = Fields /\ u.end_of_word = t.end_of_word
  /\ u.at = p /\ u.new = TRUE /\ u.out = t.out
  /\ u.udata = Extended(t.udata, p, NULL)
  /\ u.nb_keys = Counted(t.nb_keys, <<t.at, l>>)

LEMMA EndsEffect ==
  ASSUME NEW t, DOMAIN t = Fields, NEW o
  PROVE  LET u == Ends(t, o)
         IN  Alike(t, u) /\ u.at = t.at /\ u.new = t.new /\ u.out = o
BY DEF Ends, Alike, Fields

LEMMA MallocEffect ==
  ASSUME NEW t, DOMAIN t = Fields
  PROVE  LET u == [t EXCEPT !.mallocs = @ + 1]
         IN  Alike(t, u) /\ u.at = t.at /\ u.new = t.new /\ u.out = t.out
BY DEF Alike, Fields

LEMMA SkipEffect ==
  ASSUME NEW t, DOMAIN t = Fields
  PROVE  LET u == Skip(t)
         IN  /\ Alike(t, u) /\ u.at = t.at
             /\ IF t.at = key_head THEN u.new = t.new /\ u.out = "undefined"
                ELSE u.new = FALSE /\ u.out = t.out
<1>1. CASE t.at = key_head
  BY <1>1, EndsEffect DEF Skip
<1>2. CASE t.at # key_head
  <2>1. Skip(t) = [t EXCEPT !.new = FALSE]
    BY <1>2 DEF Skip
  <2> HIDE DEF key_head
  <2>2. QED
    BY <1>2, <2>1 DEF Alike, Fields
<1>3. QED
  BY <1>1, <1>2

LEMMA MoveEffect ==
  ASSUME NEW t, DOMAIN t = Fields, NEW p
  PROVE  LET u == Moved(t, p)
         IN  Alike(t, u) /\ u.at = p /\ u.new = FALSE /\ u.out = t.out
BY DEF Alike, Fields, Moved

LEMMA ListEffect ==
  ASSUME NEW t, DOMAIN t = Fields, NEW l
  PROVE  LET u == WithList(t, l)
         IN  /\ DOMAIN u = Fields /\ u.udata = t.udata /\ u.end_of_word = t.end_of_word
             /\ u.at = t.at /\ u.new = t.new /\ u.out = t.out
             /\ u.nb_keys = IF HasList(t, l) THEN t.nb_keys
                            ELSE Extended(t.nb_keys, <<t.at, l>>, 0)
<1>1. CASE HasList(t, l)
  BY <1>1 DEF WithList
<1>2. CASE ~HasList(t, l)
  <2>1. PICK nb : nb = Extended(t.nb_keys, <<t.at, l>>, 0)
    OBVIOUS
  <2>2. WithList(t, l) = [t EXCEPT !.nb_keys = nb, !.mallocs = @ + 1]
    BY <1>2, <2>1 DEF WithList
  <2>3. QED
    BY <1>2, <2>1, <2>2 DEF Fields
<1>3. QED
  BY <1>1, <1>2

LEMMA NodeEffect ==
  ASSUME NEW t, DOMAIN t = Fields, NEW p, NEW l
  PROVE  WithNode(t, p, l, NewNode(t, p, l))
<1>1. PICK ud : ud = Extended(t.udata, p, NULL)
  OBVIOUS
<1>2. PICK nb : nb = Counted(t.nb_keys, <<t.at, l>>)
  OBVIOUS
<1>3. NewNode(t, p, l) =
        [t EXCEPT !.udata = ud, !.nb_keys = nb, !.at = p, !.new = TRUE, !.mallocs = @ + 1]
  BY <1>1, <1>2 DEF NewNode, Counted
<1>4. QED
  BY <1>1, <1>2, <1>3 DEF Fields, WithNode

(***************************************************************************)
(* Lists and nodes.                                                        *)
(***************************************************************************)
LEMMA Appended ==
  ASSUME NEW S, NEW p \in Seq(S), NEW e \in S
  PROVE  LET q == Append(p, e)
         IN  /\ q \in Seq(S) /\ q # key_head /\ Len(q) = Len(p) + 1
             /\ Front(q) = p /\ Last(q) = e
<1> DEFINE q == Append(p, e)
<1>1. q \in Seq(S) /\ Len(q) = Len(p) + 1 /\ q[Len(p) + 1] = e
      /\ \A i \in 1..Len(p) : q[i] = p[i]
  OBVIOUS
<1> HIDE DEF q
<1>2. Front(q) = p
  <2>1. Front(q) = SubSeq(q, 1, Len(p))
    BY <1>1 DEF Front
  <2>2. SubSeq(q, 1, Len(p)) = [i \in 1..Len(p) |-> q[i]]
    BY <1>1
  <2>3. p = [i \in 1..Len(p) |-> p[i]]
    OBVIOUS
  <2>4. QED
    BY <1>1, <2>1, <2>2, <2>3
<1>3. Last(q) = e
  BY <1>1 DEF Last
<1>4. q # key_head
  BY <1>1 DEF key_head
<1>5. QED
  BY <1>1, <1>2, <1>3, <1>4 DEF q

(* An empty list more.                                                     *)
LEMMA ListSound ==
  ASSUME NEW ud, NEW ew, NEW nb, SoundTree(ud, ew, nb),
         NEW at \in DOMAIN ud \cup {key_head}, NEW l \in Kinds, <<at, l>> \notin DOMAIN nb
  PROVE  SoundTree(ud, ew, Extended(nb, <<at, l>>, 0))
<1> DEFINE h0 == <<at, l>>
           m == Extended(nb, h0, 0)
<1>1. DOMAIN m = DOMAIN nb \cup {h0} /\ m[h0] = 0 /\ \A h \in DOMAIN nb : h # h0 => m[h] = nb[h]
  BY DEF Extended
<1>2. Children(ud, h0) = {}
  <2>1. SUFFICES ASSUME NEW p \in DOMAIN ud, Front(p) = at, Last(p)[1] = l PROVE FALSE
    BY DEF Children
  <2>2. QED
    BY <2>1 DEF SoundTree
<1>3. Cardinality(Children(ud, h0)) = 0
  BY <1>2, FS_EmptySet
<1> HIDE DEF m
<1>4. \A h \in DOMAIN m : m[h] = Cardinality(Children(ud, h))
  BY <1>1, <1>3 DEF SoundTree
<1>5. DOMAIN m \subseteq (DOMAIN ud \cup {key_head}) \X Kinds
  BY <1>1 DEF SoundTree
<1>6. SoundTree(ud, ew, m)
  BY <1>1, <1>4, <1>5 DEF SoundTree
<1>7. QED
  BY <1>6 DEF m

(* A new node at the end of a list.                                        *)
LEMMA NodeSound ==
  ASSUME NEW ud, NEW ew, NEW nb, SoundTree(ud, ew, nb),
         NEW at, NEW l \in Kinds, <<at, l>> \in DOMAIN nb,
         NEW n \in Int, InList(<<l, n>>), NEW p, p = Append(at, <<l, n>>), p \notin DOMAIN ud
  PROVE  SoundTree(Extended(ud, p, NULL), ew, Counted(nb, <<at, l>>))
<1> DEFINE h0 == <<at, l>>
           vd == Extended(ud, p, NULL)
           m == Counted(nb, h0)
<1>1. at \in Seq(Slots) /\ <<l, n>> \in Slots
  <2>1. at \in DOMAIN ud \cup {key_head} /\ DOMAIN ud \subseteq Seq(Slots)
    BY Zenon DEF SoundTree
  <2>2. key_head \in Seq(Slots)
    BY DEF key_head
  <2>3. QED
    BY <2>1, <2>2 DEF Slots
<1>2. p \in Seq(Slots) \ {key_head} /\ Front(p) = at /\ Last(p) = <<l, n>>
  BY <1>1, Appended
<1>3. DOMAIN vd = DOMAIN ud \cup {p} /\ DOMAIN m = DOMAIN nb
  BY DEF Extended, Counted
<1>4. m[h0] = nb[h0] + 1 /\ \A h \in DOMAIN nb : h # h0 => m[h] = nb[h]
  BY DEF Counted
<1>5. Children(vd, h0) = Children(ud, h0) \cup {p} /\ p \notin Children(ud, h0)
  <2>1. h0[1] = at /\ h0[2] = l /\ Last(p)[1] = l
    BY <1>2
  <2>2. \A q : q \in Children(vd, h0) <=> q \in Children(ud, h0) \/ q = p
    <3> HIDE DEF h0, vd
    <3>1. QED
      BY <1>2, <1>3, <2>1, Zenon DEF Children
  <2>3. p \notin Children(ud, h0)
    BY DEF Children
  <2>4. QED
    BY <2>2, <2>3
<1>6. \A h \in DOMAIN nb : h # h0 => Children(vd, h) = Children(ud, h)
  <2>1. SUFFICES ASSUME NEW h \in DOMAIN nb, h # h0
                 PROVE  ~(Front(p) = h[1] /\ Last(p)[1] = h[2])
    BY <1>3 DEF Children
  <2>2. h = <<h[1], h[2]>>
    BY DEF SoundTree
  <2>3. QED
    BY <1>2, <2>1, <2>2
<1>7. Cardinality(Children(vd, h0)) = Cardinality(Children(ud, h0)) + 1
  <2>1. IsFiniteSet(Children(ud, h0))
    <3>1. Children(ud, h0) \in SUBSET DOMAIN ud
      BY DEF Children
    <3>2. QED
      BY <3>1, FS_Subset DEF SoundTree
  <2>2. QED
    BY <1>5, <2>1, FS_AddElement
<1>8. IsFiniteSet(DOMAIN vd)
  <2>1. IsFiniteSet(DOMAIN ud)
    BY DEF SoundTree
  <2> HIDE DEF vd
  <2>2. IsFiniteSet(DOMAIN ud \cup {p})
    BY <2>1, FS_AddElement
  <2>3. QED
    BY <1>3, <2>2
<1> HIDE DEF vd, m
<1>9. \A h \in DOMAIN m : m[h] = Cardinality(Children(vd, h))
  BY <1>3, <1>4, <1>6, <1>7 DEF SoundTree
<1>10. \A q \in DOMAIN vd : <<Front(q), Last(q)[1]>> \in DOMAIN m
  <2>1. \A q \in DOMAIN ud : <<Front(q), Last(q)[1]>> \in DOMAIN nb
    BY DEF SoundTree
  <2>2. <<Front(p), Last(p)[1]>> = <<at, l>>
    BY <1>2
  <2>3. QED
    BY <1>3, <2>1, <2>2
<1>10a. \A q \in DOMAIN vd : InList(Last(q))
  BY <1>2, <1>3 DEF SoundTree
<1>11. /\ DOMAIN vd \subseteq Seq(Slots) \ {key_head} /\ ew \subseteq DOMAIN vd
       /\ DOMAIN m \subseteq (DOMAIN vd \cup {key_head}) \X Kinds
  <2>1. /\ DOMAIN ud \subseteq Seq(Slots) \ {key_head} /\ ew \subseteq DOMAIN ud
        /\ DOMAIN nb \subseteq (DOMAIN ud \cup {key_head}) \X Kinds
    BY DEF SoundTree
  <2>2. \A h \in DOMAIN nb : h \in (DOMAIN vd \cup {key_head}) \X Kinds
    BY <1>3, <2>1
  <2>3. QED
    BY <1>2, <1>3, <2>1, <2>2
<1>12. SoundTree(vd, ew, m)
  BY <1>8, <1>9, <1>10, <1>10a, <1>11 DEF SoundTree
<1>13. QED
  BY <1>12 DEF vd, m

(* The kinds of characters.                                                *)
LEMMA WeakType ==
  ASSUME NEW f, NEW c \in Int
  PROVE  LET s == word_weak_type(f, c)
         IN  s = <<s[1], s[2]>> /\ s[2] \in Int /\ (s[1] = "none" \/ s[1] \in Kinds)
<1>1. Plain(f, c) \in Int
  BY DEF Plain, Upper
<1>2. ASSUME NEW k \in Int
      PROVE  word_type(k) \in {<<"number", k - 48>>, <<"upper", k - 65>>,
                               <<"lower", k - 97>>, <<"other", k - 33>>}
  BY DEF word_type
<1>3. QED
  BY <1>1, <1>2 DEF word_weak_type, Kinds

(* A state with the tree of one of the call's, and its node or none.       *)
LEMMA DuringAlike ==
  ASSUME NEW t0, NEW t, During(t0, t), NEW u, Alike(t, u),
         u.at \in DOMAIN t.udata \cup {key_head},
         u.new = FALSE \/ (u.new = t.new /\ u.at = t.at)
  PROVE  During(t0, u)
BY DEF During, Alike, Grown

LEMMA SkipKeeps ==
  ASSUME NEW t0, NEW t, During(t0, t)
  PROVE  LET u == Skip(t) IN During(t0, u) /\ (u.out = "going" => u.at # key_head)
<1> DEFINE u == Skip(t)
<1>1. DOMAIN t = Fields /\ t.at \in DOMAIN t.udata \cup {key_head}
  BY DEF During
<1>2. /\ Alike(t, u) /\ u.at = t.at
      /\ IF t.at = key_head THEN u.new = t.new /\ u.out = "undefined"
         ELSE u.new = FALSE /\ u.out = t.out
  BY <1>1, SkipEffect
<1> HIDE DEF u
<1>3. During(t0, u)
  BY <1>1, <1>2, DuringAlike
<1>4. u.out = "going" => u.at # key_head
  BY <1>2
<1>5. QED
  BY <1>3, <1>4 DEF u

LEMMA EndsKeeps ==
  ASSUME NEW t0, NEW t, During(t0, t), NEW o
  PROVE  LET u == Ends(t, o) IN During(t0, u) /\ u.out = o
<1> DEFINE u == Ends(t, o)
<1>1. DOMAIN t = Fields /\ t.at \in DOMAIN t.udata \cup {key_head}
  BY DEF During
<1>2. Alike(t, u) /\ u.at = t.at /\ u.new = t.new /\ u.out = o
  BY <1>1, EndsEffect
<1> HIDE DEF u
<1>3. During(t0, u)
  BY <1>1, <1>2, DuringAlike
<1>4. QED
  BY <1>2, <1>3 DEF u

LEMMA ListKeeps ==
  ASSUME NEW t0, NEW t, During(t0, t), NEW l \in Kinds
  PROVE  LET u == WithList(t, l)
         IN  During(t0, u) /\ <<t.at, l>> \in DOMAIN u.nb_keys /\ u.at = t.at /\ u.udata = t.udata
<1> DEFINE u == WithList(t, l)
<1>1. DOMAIN t = Fields /\ t.at \in DOMAIN t.udata \cup {key_head}
  BY DEF During
<1>2. /\ DOMAIN u = Fields /\ u.udata = t.udata /\ u.end_of_word = t.end_of_word
      /\ u.at = t.at /\ u.new = t.new
      /\ u.nb_keys = IF HasList(t, l) THEN t.nb_keys ELSE Extended(t.nb_keys, <<t.at, l>>, 0)
  BY <1>1, ListEffect
<1> HIDE DEF u
<1>3. SoundTree(u.udata, u.end_of_word, u.nb_keys)
  <2>1. SoundTree(t.udata, t.end_of_word, t.nb_keys)
    BY DEF During
  <2>2. QED
    BY <1>1, <1>2, <2>1, ListSound DEF HasList
<1>4. DOMAIN t.nb_keys \subseteq DOMAIN u.nb_keys /\ <<t.at, l>> \in DOMAIN u.nb_keys
  BY <1>2 DEF HasList, Extended
<1>5. During(t0, u)
  BY <1>1, <1>2, <1>3, <1>4 DEF During, Grown
<1>6. QED
  BY <1>2, <1>4, <1>5 DEF u

LEMMA NodeKeeps ==
  ASSUME NEW t0, NEW t, During(t0, t), NEW l \in Kinds, NEW n \in Int, InList(<<l, n>>),
         <<t.at, l>> \in DOMAIN t.nb_keys,
         NEW p, p = Append(t.at, <<l, n>>), p \notin DOMAIN t.udata
  PROVE  LET u == NewNode(t, p, l) IN During(t0, u) /\ u.at # key_head
<1> DEFINE u == NewNode(t, p, l)
<1>1. DOMAIN t = Fields /\ t.at \in DOMAIN t.udata \cup {key_head}
  BY DEF During
<1>2. WithNode(t, p, l, u)
  BY <1>1, NodeEffect
<1> HIDE DEF u
<1>3. SoundTree(u.udata, u.end_of_word, u.nb_keys)
  <2>1. SoundTree(t.udata, t.end_of_word, t.nb_keys)
    BY DEF During
  <2>2. SoundTree(Extended(t.udata, p, NULL), t.end_of_word, Counted(t.nb_keys, <<t.at, l>>))
    BY <2>1, NodeSound
  <2>3. QED
    BY <1>2, <2>2, Zenon DEF WithNode
<1>4. /\ DOMAIN u.udata = DOMAIN t.udata \cup {p}
      /\ \A q \in DOMAIN t.udata : u.udata[q] = t.udata[q]
      /\ DOMAIN u.nb_keys = DOMAIN t.nb_keys
  <2>1. PICK ud, nb : ud = t.udata /\ nb = t.nb_keys
    OBVIOUS
  <2>2. u.udata = Extended(ud, p, NULL) /\ u.nb_keys = Counted(nb, <<t.at, l>>)
    BY <1>2, <2>1 DEF WithNode
  <2>3. p \notin DOMAIN ud
    BY <2>1
  <2>4. QED
    BY <2>1, <2>2, <2>3 DEF Extended, Counted
<1>5. Grown(t0, u)
  <2>1. Grown(t0, t)
    BY DEF During
  <2>2. QED
    BY <1>2, <1>4, <2>1 DEF Grown, WithNode
<1>6. p # key_head
  BY <1>2, <1>3, <1>4 DEF SoundTree, WithNode
<1>7. During(t0, u)
  BY <1>2, <1>3, <1>4, <1>5 DEF During, WithNode
<1>8. QED
  BY <1>2, <1>6, <1>7 DEF u, WithNode

(* How a character is dealt with.                                          *)
Handled(F, f, t, c, r) ==
  LET s == word_weak_type(f, c)
      l == s[1]
      u == WithList(t, l)
      p == Append(t.at, s)
  IN  \/ r = Skip(t)
      \/ r = Skip([t EXCEPT !.mallocs = @ + 1])
      \/ \E o : o # "going" /\ r = Ends(t, o)
      \/ /\ l # "none"
         /\ \/ r = Skip(u)
            \/ \E o : o # "going" /\ r = Ends(u, o)
            \/ p \in DOMAIN t.udata /\ r = Moved(u, p)
            \/ InList(s) /\ p \notin DOMAIN t.udata /\ r = NewNode(u, p, l)

(* A character is in its list, or it is one that has none.                 *)
LEMMA Placement ==
  ASSUME NEW f, NEW c \in Char
  PROVE  LET s == word_weak_type(f, c)
         IN  s[1] = "none" \/ OutOfRange(s) \/ s = <<"other", 26>> \/ InList(s)
<1> DEFINE k == Plain(f, c)
<1>1. k \in Int /\ k \in Char
  BY DEF Plain, Upper, Char
<1> HIDE DEF k
<1>2. /\ k \in 48..57 => word_type(k) = <<"number", k - 48>>
      /\ k \in 65..90 => word_type(k) = <<"upper", k - 65>>
      /\ k \in 97..122 => word_type(k) = <<"lower", k - 97>>
      /\ k \notin 48..57 \cup 65..90 \cup 97..122 => word_type(k) = <<"other", k - 33>>
  BY <1>1 DEF word_type, Digit, Upper, Lower
<1>3. OutOfRange(word_type(k)) \/ word_type(k) = <<"other", 26>> \/ InList(word_type(k))
  BY <1>1, <1>2 DEF OutOfRange, InList, Size
<1>4. QED
  BY <1>3 DEF word_weak_type, k

LEMMA CharacterHandled ==
  ASSUME NEW F, NEW f, NEW t, t.out = "going", NEW c \in Char
  PROVE  Handled(F, f, t, c, NextCharacter(F, f, t, c))
<1> DEFINE s == word_weak_type(f, c)
           l == s[1]
           u == WithList(t, l)
           p == Append(t.at, s)
           r == NextCharacter(F, f, t, c)
           bad == "W_E_NO_MEMORY"
           und == "undefined"
<1>0. bad # "going" /\ und # "going"
  OBVIOUS
<1>1. CASE l = "none"
  <2>1. r = Skip(t)
    BY <1>1 DEF NextCharacter
  <2>2. QED
    BY <2>1 DEF Handled
<1>2. CASE l # "none" /\ ~HasList(t, l) /\ t.mallocs + 1 \in F
  <2>1. r = IF Unnoticed(l) THEN Skip([t EXCEPT !.mallocs = @ + 1]) ELSE Ends(t, bad)
    BY <1>2 DEF NextCharacter
  <2> HIDE DEF r, bad
  <2>2. QED
    BY <1>0, <2>1, Zenon DEF Handled, r
<1>3. CASE l # "none" /\ ~(~HasList(t, l) /\ t.mallocs + 1 \in F)
  <2>1. r = CASE OutOfRange(s) -> Skip(u)
              [] s = <<"other", 26>> -> Ends(u, und)
              [] InList(s) /\ p \in DOMAIN t.udata -> Moved(u, p)
              [] OTHER -> IF u.mallocs + 1 \notin F THEN NewNode(u, p, l)
                          ELSE Ends(u, IF Unnoticed(l) THEN und ELSE bad)
    BY <1>3 DEF NextCharacter, Moved
  <2>2. \/ r = Skip(u) \/ r = Ends(u, und) \/ r = Ends(u, bad)
        \/ p \in DOMAIN t.udata /\ r = Moved(u, p)
        \/ InList(s) /\ p \notin DOMAIN t.udata /\ r = NewNode(u, p, l)
    <3>1. OutOfRange(s) \/ s = <<"other", 26>> \/ InList(s)
      BY <1>3, Placement
    <3> HIDE DEF r, u, p, s
    <3>2. QED
      BY <2>1, <3>1
  <2> HIDE DEF r, bad, und
  <2>3. QED
    BY <1>0, <1>3, <2>2, Zenon DEF Handled, r
<1>4. QED
  BY <1>1, <1>2, <1>3

(* Every character keeps the tree sound, and there is a node after it.     *)
LEMMA CharacterKeeps ==
  ASSUME NEW F, NEW f, NEW t0, NEW t, During(t0, t), NEW c \in Char
  PROVE  LET u == NextCharacter(F, f, t, c)
         IN  During(t0, u) /\ (t.out = "going" /\ u.out = "going" => u.at # key_head)
<1> DEFINE r == NextCharacter(F, f, t, c)
<1>1. CASE t.out # "going"
  BY <1>1 DEF NextCharacter
<1>2. CASE t.out = "going"
  <2> DEFINE s == word_weak_type(f, c)
             l == s[1]
             u == WithList(t, l)
             p == Append(t.at, s)
  <2>1. Handled(F, f, t, c, r)
    BY <1>2, CharacterHandled
  <2> DEFINE Fine(v) == During(t0, v) /\ (v.out = "going" => v.at # key_head)
  <2>2. \/ r = Skip(t)
        \/ r = Skip([t EXCEPT !.mallocs = @ + 1])
        \/ \E o : o # "going" /\ r = Ends(t, o)
        \/ l # "none" /\ r = Skip(u)
        \/ l # "none" /\ \E o : o # "going" /\ r = Ends(u, o)
        \/ l # "none" /\ p \in DOMAIN t.udata /\ r = Moved(u, p)
        \/ l # "none" /\ InList(s) /\ p \notin DOMAIN t.udata /\ r = NewNode(u, p, l)
    <3> HIDE DEF r
    <3>1. QED
      BY <2>1, Zenon DEF Handled
  <2>3. ASSUME NEW v, During(t0, v), r = Skip(v) PROVE Fine(r)
    BY <2>3, SkipKeeps
  <2>4. ASSUME NEW v, During(t0, v), NEW o, o # "going", r = Ends(v, o) PROVE Fine(r)
    BY <2>4, EndsKeeps
  <2>5. During(t0, [t EXCEPT !.mallocs = @ + 1])
    <3> DEFINE v == [t EXCEPT !.mallocs = @ + 1]
    <3>1. DOMAIN t = Fields /\ t.at \in DOMAIN t.udata \cup {key_head}
      BY DEF During
    <3>2. Alike(t, v) /\ v.at = t.at /\ v.new = t.new
      BY <3>1, MallocEffect
    <3> HIDE DEF v
    <3>3. During(t0, v)
      BY <3>1, <3>2, DuringAlike
    <3>4. QED
      BY <3>3 DEF v
  <2>6. l # "none" => /\ During(t0, u) /\ <<t.at, l>> \in DOMAIN u.nb_keys
                      /\ u.at = t.at /\ u.udata = t.udata
    <3> HIDE DEF r, p
    <3>1. l \in Kinds \/ l = "none"
      BY WeakType DEF Char
    <3>2. QED
      BY <3>1, ListKeeps
  <2>7. ASSUME l # "none", p \in DOMAIN t.udata, r = Moved(u, p)
        PROVE  Fine(r)
    <3>1. DOMAIN u = Fields /\ p \in DOMAIN u.udata /\ p # key_head
      BY <2>6, <2>7 DEF During, SoundTree
    <3> HIDE DEF r, u, p, l, s
    <3>2. Alike(u, r) /\ r.at = p /\ r.new = FALSE
      BY <2>7, <3>1, MoveEffect
    <3>3. During(t0, r)
      BY <2>6, <2>7, <3>1, <3>2, DuringAlike
    <3>4. QED
      BY <3>1, <3>2, <3>3
  <2>8. ASSUME l # "none", InList(s), p \notin DOMAIN t.udata, r = NewNode(u, p, l)
        PROVE  Fine(r)
    <3>1. l \in Kinds /\ s = <<l, s[2]>> /\ s[2] \in Int
      BY <2>8, WeakType DEF Char
    <3>2. p = Append(u.at, <<l, s[2]>>) /\ p \notin DOMAIN u.udata /\ InList(<<l, s[2]>>)
      BY <2>6, <2>8, <3>1
    <3> HIDE DEF r, u, p, l, s
    <3>3. During(t0, NewNode(u, p, l)) /\ NewNode(u, p, l).at # key_head
      BY <2>6, <2>8, <3>1, <3>2, NodeKeeps
    <3>4. QED
      BY <2>8, <3>3
  <2>9. Fine(r)
    <3> HIDE DEF r, u, p, l, s, Fine
    <3>1. QED
      BY <2>2, <2>3, <2>4, <2>5, <2>6, <2>7, <2>8
  <2>10. QED
    BY <1>2, <2>9
<1>3. QED
  BY <1>1, <1>2

(***************************************************************************)
(* A word.                                                                 *)
(***************************************************************************)
Start(t) == [t EXCEPT !.at = key_head, !.new = FALSE, !.out = "going"]

(* A state of the call between two words.                                  *)
Called(t) == DOMAIN t = Fields /\ SoundTree(t.udata, t.end_of_word, t.nb_keys)

LEMMA StartKeeps ==
  ASSUME NEW t, Called(t)
  PROVE  /\ During(t, Start(t)) /\ Start(t).at = key_head /\ Start(t).out = "going"
         /\ Start(t).new = FALSE /\ Alike(t, Start(t))
<1> DEFINE u == Start(t)
<1>1. Alike(t, u) /\ u.at = key_head /\ u.new = FALSE /\ u.out = "going"
  BY DEF Called, Start, Alike, Fields
<1> HIDE DEF u
<1>2. During(t, u)
  BY <1>1 DEF Called, During, Alike, Grown
<1>3. QED
  BY <1>1, <1>2 DEF u

(* All characters keep what each does.                                     *)
LEMMA WordKeeps ==
  ASSUME NEW F, NEW f, NEW t, Called(t), NEW w \in Seq(Char), NEW g,
         Walk("characters", F, f, Start(t), w, g)
  PROVE  /\ \A i \in 0..Len(w) : During(t, g[i])
         /\ \A i \in 1..Len(w) : g[i].out = "going" => g[i].at # key_head
<1> DEFINE S == {i \in 0..Len(w) : During(t, g[i])}
<1>1. PICK n \in Nat : n = Len(w)
  OBVIOUS
<1>2. ASSUME NEW i \in 1..n
      PROVE  g[i] = NextCharacter(F, f, g[i - 1], w[i]) /\ w[i] \in Char
  BY <1>1 DEF Walk, Step
<1>3. 0 \in S
  <2>1. g[0] = Start(t)
    BY DEF Walk
  <2>2. During(t, g[0])
    BY <2>1, StartKeeps
  <2>3. QED
    BY <1>1, <2>2
<1>4. ASSUME NEW i \in 1..n, i - 1 \in S PROVE i \in S
  <2>1. During(t, g[i - 1])
    BY <1>4
  <2>2. During(t, g[i])
    BY <1>2, <2>1, CharacterKeeps
  <2>3. QED
    BY <1>1, <2>2
<1>5. 0..n \subseteq S
  <2> HIDE DEF S
  <2>1. QED
    BY <1>3, <1>4, UpTo
<1>6. \A i \in 0..n : During(t, g[i])
  BY <1>5
<1>7. ASSUME NEW i \in 1..n, g[i].out = "going" PROVE g[i].at # key_head
  <2>1. During(t, g[i - 1])
    BY <1>6
  <2>2. g[i - 1].out = "going"
    BY <1>2, <1>7 DEF NextCharacter
  <2>3. QED
    BY <1>2, <1>7, <2>1, <2>2, CharacterKeeps
<1>8. QED
  BY <1>1, <1>6, <1>7

LEMMA MarkedEffect ==
  ASSUME NEW t, DOMAIN t = Fields, NEW d
  PROVE  LET u == Marked(t, d)
         IN  /\ DOMAIN u = Fields /\ u.nb_keys = t.nb_keys /\ u.at = t.at /\ u.new = t.new
             /\ u.end_of_word = t.end_of_word \cup {t.at}
             /\ u.udata = [t.udata EXCEPT ![t.at] = IF t.new THEN d ELSE @]
             /\ u.out = IF t.new THEN "W_NO_ERROR" ELSE "W_E_EXISTS"
BY DEF Marked, Fields

(* r is the call's state after the word: nothing of t is lost.             *)
Parsed(t, r) ==
  /\ Called(r)
  /\ t.end_of_word \subseteq r.end_of_word
  /\ \A p \in t.end_of_word : r.udata[p] = t.udata[p]
  /\ DOMAIN t.nb_keys \subseteq DOMAIN r.nb_keys

LEMMA MarkedKeeps ==
  ASSUME NEW t0, Called(t0), NEW t, During(t0, t), t.at # key_head, NEW d
  PROVE  Parsed(t0, Marked(t, d))
<1> DEFINE u == Marked(t, d)
<1>1. DOMAIN t = Fields /\ t.at \in DOMAIN t.udata
  BY DEF During
<1>2. /\ DOMAIN u = Fields /\ u.nb_keys = t.nb_keys
      /\ u.end_of_word = t.end_of_word \cup {t.at}
      /\ u.udata = [t.udata EXCEPT ![t.at] = IF t.new THEN d ELSE @]
  BY <1>1, MarkedEffect
<1> HIDE DEF u
<1>3. DOMAIN u.udata = DOMAIN t.udata
  BY <1>2
<1>4. SoundTree(u.udata, u.end_of_word, u.nb_keys)
  <2>1. \A h : Children(u.udata, h) = Children(t.udata, h)
    BY <1>3 DEF Children
  <2>2. u.end_of_word \subseteq DOMAIN t.udata
    BY <1>1, <1>2 DEF During, SoundTree
  <2>3. QED
    BY <1>2, <1>3, <2>1, <2>2 DEF During, SoundTree
<1>5. ASSUME NEW p \in t0.end_of_word PROVE u.udata[p] = t0.udata[p]
  <2>1. p \in DOMAIN t0.udata
    BY DEF Called, SoundTree
  <2>2. Grown(t0, t)
    BY DEF During
  <2>3. p \in DOMAIN t.udata /\ t.udata[p] = t0.udata[p] /\ (t.new => t.at # p)
    BY <2>1, <2>2 DEF Grown
  <2>4. QED
    BY <1>2, <2>3
<1>6. t0.end_of_word \subseteq u.end_of_word /\ DOMAIN t0.nb_keys \subseteq DOMAIN u.nb_keys
  BY <1>2 DEF During, Grown
<1>7. Parsed(t0, u)
  BY <1>2, <1>4, <1>5, <1>6 DEF Parsed, Called
<1>8. QED
  BY <1>7 DEF u

(* How parse_file_create_key ends, in terms of the walk along the word.    *)
WordWalk(F, f, t, e, g) ==
  /\ Walk("characters", F, f, Start(t), e.w, g)
  /\ parse_file_create_key(F, f, t, e) =
       IF g[Len(e.w)].out = "going" THEN Marked(g[Len(e.w)], e.udata) ELSE g[Len(e.w)]

LEMMA WordParsed ==
  ASSUME NEW F, NEW f, NEW t, NEW e, e.w \in Seq(Char)
  PROVE  /\ e.w = <<>> => parse_file_create_key(F, f, t, e) = Ends(t, "W_E_BAD_PARAMETER")
         /\ e.w # <<>> => \E g : WordWalk(F, f, t, e, g)
<1>1. PICK u : u = Followed(F, f, Start(t), e.w)
  OBVIOUS
<1>2. /\ e.w = <<>> => parse_file_create_key(F, f, t, e) = Ends(t, "W_E_BAD_PARAMETER")
      /\ e.w # <<>> => parse_file_create_key(F, f, t, e) =
                         IF u.out = "going" THEN Marked(u, e.udata) ELSE u
  BY <1>1, Zenon DEF parse_file_create_key, Start
<1>3. PICK g : Walk("characters", F, f, Start(t), e.w, g) /\ u = g[Len(e.w)]
  BY <1>1, FollowedWalk
<1>4. e.w # <<>> => WordWalk(F, f, t, e, g)
  BY <1>2, <1>3, Zenon DEF WordWalk
<1>5. QED
  BY <1>2, <1>4

LEMMA ParseKeeps ==
  ASSUME NEW F, NEW f, NEW t, Called(t), NEW e, IsElem(e)
  PROVE  Parsed(t, parse_file_create_key(F, f, t, e))
<1> DEFINE r == parse_file_create_key(F, f, t, e)
<1>1. e.w \in Seq(Char)
  BY DEF IsElem, Char
<1>2. CASE e.w = <<>>
  <2>1. r = Ends(t, "W_E_BAD_PARAMETER")
    BY <1>1, <1>2, WordParsed
  <2>2. Alike(t, Ends(t, "W_E_BAD_PARAMETER"))
    BY EndsEffect DEF Called
  <2> HIDE DEF r
  <2>3. Parsed(t, r)
    BY <2>1, <2>2 DEF Parsed, Called, Alike
  <2>4. QED
    BY <2>3 DEF r
<1>3. CASE e.w # <<>>
  <2>1. PICK g : WordWalk(F, f, t, e, g)
    BY <1>1, <1>3, WordParsed
  <2>2. PICK n : n = Len(e.w) /\ n \in 1..Len(e.w)
    BY <1>1, <1>3
  <2>2a. /\ Walk("characters", F, f, Start(t), e.w, g)
         /\ r = IF g[n].out = "going" THEN Marked(g[n], e.udata) ELSE g[n]
    BY <2>1, <2>2, Zenon DEF WordWalk
  <2> HIDE DEF r
  <2>3. During(t, g[n]) /\ (g[n].out = "going" => g[n].at # key_head)
    <3>1. /\ \A i \in 0..Len(e.w) : During(t, g[i])
          /\ \A i \in 1..Len(e.w) : g[i].out = "going" => g[i].at # key_head
      BY <1>1, <2>2a, WordKeeps
    <3>2. QED
      BY <2>2, <3>1
  <2>4. CASE g[n].out = "going"
    <3>1. r = Marked(g[n], e.udata)
      BY <2>2a, <2>4
    <3>2. PICK v, d : v = g[n] /\ d = e.udata
      OBVIOUS
    <3>3. During(t, v) /\ v.at # key_head /\ r = Marked(v, d)
      BY <2>3, <2>4, <3>1, <3>2
    <3>4. QED
      BY <3>3, MarkedKeeps DEF r
  <2>5. CASE g[n].out # "going"
    <3>1. r = g[n]
      BY <2>2a, <2>5
    <3>2. \A p \in t.end_of_word : p \in DOMAIN t.udata
      BY DEF Called, SoundTree
    <3>3. Called(r) /\ Grown(t, r)
      BY <2>3, <3>1 DEF Called, During
    <3>4. /\ t.end_of_word \subseteq r.end_of_word /\ DOMAIN t.nb_keys \subseteq DOMAIN r.nb_keys
          /\ \A p \in t.end_of_word : r.udata[p] = t.udata[p]
      BY <3>2, <3>3 DEF Grown
    <3>5. QED
      BY <3>3, <3>4 DEF Parsed, r
  <2>6. QED
    BY <2>4, <2>5 DEF r
<1>4. QED
  BY <1>2, <1>3

(***************************************************************************)
(* The calls.                                                              *)
(***************************************************************************)
LEMMA LoadWalk ==
  ASSUME NEW F, NEW f, NEW C, NEW list \in Seq(C)
  PROVE  \E g : Walk("words", F, f, WithLocals(NoNodes), list, g)
                /\ LoadAll(F, f, list) = g[Len(list)]
<1> DEFINE t == WithLocals(NoNodes)
           Body(h, s) ==
             IF s = {} THEN t
             ELSE IF h[s \ {Max(s)}].out = "W_NO_ERROR"
                  THEN parse_file_create_key(F, f, h[s \ {Max(s)}], list[Max(s)])
                  ELSE h[s \ {Max(s)}]
           up == CHOOSE up : up = [s \in SUBSET (1..Len(list)) |-> Body(up, s)]
<1>1. PICK n \in Nat : n = Len(list) /\ DOMAIN list = 1..n
  OBVIOUS
<1>2. LoadAll(F, f, list) = up[1..n]
  BY <1>1 DEF LoadAll, FoldLeft, MapThenFoldSet
<1>3. \A h, s : Body(h, s) = Iterate("words", F, f, t, list, h, s)
  BY DEF Iterate, Step
<1> HIDE DEF Body, t
<1>4. up = [s \in SUBSET (1..n) |-> Body(up, s)]
  <2>1. PICK e : Iterator("words", F, f, t, list, n, e)
    BY IterateExists
  <2>2. e = [s \in SUBSET (1..n) |-> Body(e, s)]
    BY <1>3, <2>1 DEF Iterator
  <2>3. QED
    BY <1>1, <2>2, Zenon
<1> HIDE DEF up
<1>5. Iterator("words", F, f, t, list, n, up)
  BY <1>3, <1>4 DEF Iterator
<1>6. PICK g : Walk("words", F, f, t, list, g) /\ g[Len(list)] = up[1..Len(list)]
  BY <1>1, <1>5, WalkExists
<1>7. QED
  BY <1>1, <1>2, <1>6 DEF t

LEMMA CalledWithLocals ==
  ASSUME NEW nodes, SoundTree(nodes.udata, nodes.end_of_word, nodes.nb_keys)
  PROVE  Called(WithLocals(nodes))
BY DEF Called, WithLocals, Fields

LEMMA NoNodesSound == SoundTree(NoNodes.udata, NoNodes.end_of_word, NoNodes.nb_keys)
<1>1. DOMAIN NoNodes.udata = {} /\ NoNodes.end_of_word = {} /\ DOMAIN NoNodes.nb_keys = {}
  BY DEF NoNodes
<1>2. IsFiniteSet({})
  BY FS_EmptySet
<1>3. QED
  BY <1>1, <1>2 DEF SoundTree

(* The words of a list of the client are words.                            *)
LEMMA ListWords ==
  ASSUME NEW list \in Wordlists
  PROVE  /\ list \in Seq(Range(list))
         /\ \A i \in 1..Len(list) : IsElem(list[i])
<1>1. list \in Seq(Range(list)) /\ \A e \in Range(list) : IsElem(e)
  BY WordlistsAssumption
<1>2. \A i \in 1..Len(list) : list[i] \in Range(list)
  BY <1>1
<1>3. QED
  BY <1>1, <1>2

LEMMA LoadCalled ==
  ASSUME NEW F, NEW f, NEW list \in Wordlists, NEW g,
         Walk("words", F, f, WithLocals(NoNodes), list, g)
  PROVE  \A i \in 0..Len(list) : Called(g[i])
<1>1. PICK n \in Nat : n = Len(list)
  BY ListWords
<1> DEFINE S == {i \in 0..n : Called(g[i])}
<1>2. 0 \in S
  <2>1. g[0] = WithLocals(NoNodes)
    BY DEF Walk
  <2>2. Called(g[0])
    BY <2>1, NoNodesSound, CalledWithLocals
  <2>3. QED
    BY <2>2
<1>3. ASSUME NEW i \in 1..n, i - 1 \in S PROVE i \in S
  <2>1. PICK v, e : v = g[i - 1] /\ e = list[i]
    OBVIOUS
  <2>2. g[i] = IF v.out = "W_NO_ERROR" THEN parse_file_create_key(F, f, v, e) ELSE v
    BY <1>1, <2>1 DEF Walk, Step
  <2>3. Called(v) /\ IsElem(e)
    BY <1>1, <1>3, <2>1, ListWords
  <2>4. Parsed(v, parse_file_create_key(F, f, v, e))
    BY <2>3, ParseKeeps
  <2>5. Called(g[i])
    BY <2>2, <2>3, <2>4 DEF Parsed
  <2>6. QED
    BY <2>5
<1>4. 0..n \subseteq S
  <2> HIDE DEF S
  <2>1. QED
    BY <1>2, <1>3, UpTo
<1>5. QED
  BY <1>1, <1>4

LEMMA LoadKeeps ==
  ASSUME NEW F, NEW f, NEW list \in Wordlists
  PROVE  Called(LoadAll(F, f, list))
<1>1. PICK g : Walk("words", F, f, WithLocals(NoNodes), list, g)
               /\ LoadAll(F, f, list) = g[Len(list)]
  BY ListWords, LoadWalk
<1>2. \A i \in 0..Len(list) : Called(g[i])
  BY <1>1, LoadCalled
<1>3. Len(list) \in 0..Len(list)
  BY ListWords
<1>4. QED
  BY <1>1, <1>2, <1>3

(* The invariant: in every state the tree is sound, also one that a failed *)
(* allocation has left behind.                                             *)
KeyTreeInv ==
  /\ status \in {"none", "up", "released", "dangling", "undefined"}
  /\ fold \in BOOLEAN /\ failed \in BOOLEAN
  /\ SoundTree(tree.udata, tree.end_of_word, tree.nb_keys)

LEMMA InitKeyTree == Init => KeyTreeInv
BY NoNodesSound DEF Init, KeyTreeInv

LEMMA CreateKeeps ==
  ASSUME KeyTreeInv, NEW list \in Wordlists, NEW f \in Types, Create(list, f)
  PROVE  KeyTreeInv'
<1>1. status' \in {"none", "up", "undefined"} /\ fold' \in BOOLEAN /\ failed' \in BOOLEAN
  BY TypesAssumption DEF Create, KeyTreeInv
<1>2. SoundTree(tree.udata, tree.end_of_word, tree.nb_keys)'
  <2>1. CASE tree' = NoNodes \/ tree' = tree
    BY <2>1, NoNodesSound DEF KeyTreeInv
  <2>2. CASE \E F : tree' = TreeOf(LoadAll(F, f, list))
    <3>1. PICK t : Called(t) /\ tree' = TreeOf(t)
      BY <2>2, LoadKeeps
    <3>2. QED
      BY <3>1 DEF Called, TreeOf
  <2>3. QED
    BY <2>1, <2>2 DEF Create
<1>3. QED
  BY <1>1, <1>2 DEF KeyTreeInv

(* The tree of the state and the call after wg_keytree_add.                *)
LEMMA AddParses ==
  ASSUME KeyTreeInv, NEW e \in Elems, NEW F
  PROVE  LET t == parse_file_create_key(F, fold, WithLocals(tree), e)
         IN  Called(t) /\ Parsed(WithLocals(tree), t)
<1>1. Called(WithLocals(tree))
  BY CalledWithLocals DEF KeyTreeInv
<1>2. IsElem(e)
  BY ElemsAssumption
<1>3. QED
  BY <1>1, <1>2, ParseKeeps DEF Parsed

LEMMA AddKeeps ==
  ASSUME KeyTreeInv, NEW e \in Elems, Add(e)
  PROVE  KeyTreeInv'
<1>1. PICK F : LET t == parse_file_create_key(F, fold, WithLocals(tree), e)
               IN  /\ failed' = (failed \/ F # {})
                   /\ tree' = IF t.out = "W_E_NO_MEMORY" THEN NoNodes ELSE TreeOf(t)
                   /\ status' \in {"undefined", "dangling", "up"}
  BY DEF Add
<1>2. PICK t : /\ Called(t)
               /\ tree' = IF t.out = "W_E_NO_MEMORY" THEN NoNodes ELSE TreeOf(t)
  BY <1>1, AddParses
<1>3. SoundTree(tree.udata, tree.end_of_word, tree.nb_keys)'
  <2>1. CASE tree' = NoNodes
    BY <2>1, NoNodesSound
  <2>2. CASE tree' = TreeOf(t)
    BY <1>2, <2>2 DEF Called, TreeOf
  <2>3. QED
    BY <1>2, <2>1, <2>2
<1>4. failed' \in BOOLEAN /\ fold' = fold
  BY <1>1 DEF Add, KeyTreeInv
<1>5. QED
  BY <1>1, <1>3, <1>4 DEF KeyTreeInv

LEMMA NextKeyTree == KeyTreeInv /\ [Next]_vars => KeyTreeInv'
<1> SUFFICES ASSUME KeyTreeInv, [Next]_vars PROVE KeyTreeInv'
  OBVIOUS
<1>1. CASE Release
  BY <1>1, NoNodesSound DEF Release, KeyTreeInv
<1>2. CASE UNCHANGED vars
  BY <1>2 DEF vars, KeyTreeInv
<1>3. QED
  BY <1>1, <1>2, CreateKeeps, AddKeeps DEF Next

(* Between two calls, the nodes and lists of the keytree form a tree, and  *)
(* nb_keys counts the children of each list, whatever allocations fail.    *)
THEOREM KeyTreeTypes == Spec => []KeyTreeTypeOK
<1>1. KeyTreeInv => KeyTreeTypeOK
  <2>1. SUFFICES ASSUME KeyTreeInv PROVE KeyTreeTypeOK
    OBVIOUS
  <2>2. SoundTree(tree.udata, tree.end_of_word, tree.nb_keys)
    BY <2>1 DEF KeyTreeInv
  <2>3. \A h \in DOMAIN tree.nb_keys : h[1] \in Nodes \cup {key_head}
    BY <2>2 DEF SoundTree, Nodes
  <2>4. QED
    BY <2>1, <2>2, <2>3 DEF KeyTreeInv, SoundTree, KeyTreeTypeOK, Nodes, Children
<1>2. Spec => []KeyTreeInv
  BY InitKeyTree, NextKeyTree, PTL DEF Spec
<1>3. QED
  BY <1>1, <1>2, PTL

(* wg_keytree_add leaves every word with its data, whatever allocations    *)
(* fail, or releases them all and says W_E_NO_MEMORY.                      *)
THEOREM WordsStay == Spec => WordsKept
<1> DEFINE Stay == /\ tree.end_of_word \subseteq tree'.end_of_word
                   /\ \A p \in tree.end_of_word : tree'.udata[p] = tree.udata[p]
           Gone == ret'.error = "W_E_NO_MEMORY" /\ tree'.end_of_word = {}
           Kept == status = "up" /\ status' \in {"up", "dangling"} => Stay \/ Gone
<1>1. KeyTreeInv /\ [Next]_vars => [Kept]_vars
  <2>1. SUFFICES ASSUME KeyTreeInv, Next, status = "up", status' \in {"up", "dangling"}
                 PROVE  Stay \/ Gone
    BY DEF vars
  <2>2. PICK e \in Elems : Add(e)
    BY <2>1 DEF Next, Create, Release
  <2>3. PICK F : LET t == parse_file_create_key(F, fold, WithLocals(tree), e)
                 IN  /\ tree' = IF t.out = "W_E_NO_MEMORY" THEN NoNodes ELSE TreeOf(t)
                     /\ ret'.error = t.out
    BY <2>2 DEF Add
  <2>4. PICK t : /\ Parsed(WithLocals(tree), t)
                 /\ tree' = IF t.out = "W_E_NO_MEMORY" THEN NoNodes ELSE TreeOf(t)
                 /\ ret'.error = t.out
    BY <2>1, <2>3, AddParses
  <2>5. CASE t.out = "W_E_NO_MEMORY"
    BY <2>4, <2>5 DEF NoNodes
  <2>6. CASE t.out # "W_E_NO_MEMORY"
    <3>1. /\ tree.end_of_word \subseteq t.end_of_word
          /\ \A p \in tree.end_of_word : t.udata[p] = tree.udata[p]
      BY <2>4 DEF Parsed, WithLocals
    <3>2. QED
      BY <2>4, <2>6, <3>1 DEF TreeOf
  <2>7. QED
    BY <2>5, <2>6
<1>2. Spec => []KeyTreeInv
  BY InitKeyTree, NextKeyTree, PTL DEF Spec
<1>3. QED
  BY <1>1, <1>2, PTL DEF Spec, WordsKept

(***************************************************************************)
(* The path of a word.                                                     *)
(***************************************************************************)
LEMMA PathWalk ==
  ASSUME NEW f, NEW C, NEW w \in Seq(C)
  PROVE  \E g : Walk("slots", {}, f, key_head, w, g) /\ Path(f, w) = g[Len(w)]
<1> DEFINE Body(h, s) ==
             IF s = {} THEN key_head
             ELSE IF PlacedIn(f, w[Max(s)])
                  THEN Append(h[s \ {Max(s)}], word_weak_type(f, w[Max(s)]))
                  ELSE h[s \ {Max(s)}]
           up == CHOOSE up : up = [s \in SUBSET (1..Len(w)) |-> Body(up, s)]
<1>1. PICK n \in Nat : n = Len(w) /\ DOMAIN w = 1..n
  OBVIOUS
<1>2. Path(f, w) = up[1..n]
  BY <1>1 DEF Path, FoldLeft, MapThenFoldSet
<1>3. \A h, s : Body(h, s) = Iterate("slots", {}, f, key_head, w, h, s)
  BY DEF Iterate, Step
<1> HIDE DEF Body
<1>4. up = [s \in SUBSET (1..n) |-> Body(up, s)]
  <2>1. PICK e : Iterator("slots", {}, f, key_head, w, n, e)
    BY IterateExists
  <2>2. e = [s \in SUBSET (1..n) |-> Body(e, s)]
    BY <1>3, <2>1 DEF Iterator
  <2>3. QED
    BY <1>1, <2>2, Zenon
<1> HIDE DEF up
<1>5. Iterator("slots", {}, f, key_head, w, n, up)
  BY <1>3, <1>4 DEF Iterator
<1>6. QED
  BY <1>1, <1>2, <1>5, WalkExists

LEMMA PrefixOfNone ==
  ASSUME NEW S, NEW p \in Seq(S)
  PROVE  IsPrefix(p, key_head) <=> p = key_head
BY DEF IsPrefix, key_head

LEMMA PrefixOfMore ==
  ASSUME NEW S, NEW p \in Seq(S), NEW q \in Seq(S), NEW e \in S
  PROVE  IsPrefix(p, Append(q, e)) <=> IsPrefix(p, q) \/ p = Append(q, e)
<1> DEFINE r == Append(q, e)
<1>1. r \in Seq(S) /\ Len(r) = Len(q) + 1 /\ r[Len(q) + 1] = e /\ \A i \in 1..Len(q) : r[i] = q[i]
  OBVIOUS
<1> HIDE DEF r
<1>2. ASSUME NEW t \in Seq(S)
      PROVE  IsPrefix(p, t) <=> Len(p) <= Len(t) /\ \A i \in 1..Len(p) : p[i] = t[i]
  <2>1. CASE Len(p) <= Len(t)
    <3>1. SubSeq(p, 1, Len(p)) = [i \in 1..Len(p) |-> p[i]]
      OBVIOUS
    <3>2. SubSeq(t, 1, Len(p)) = [i \in 1..Len(p) |-> t[i]]
      BY <2>1
    <3>3. QED
      BY <2>1, <3>1, <3>2 DEF IsPrefix
  <2>2. CASE ~(Len(p) <= Len(t))
    BY <2>2 DEF IsPrefix
  <2>3. QED
    BY <2>1, <2>2
<1>3. p = r <=> Len(p) = Len(r) /\ \A i \in 1..Len(p) : p[i] = r[i]
  BY <1>1
<1>4. QED
  <2>1. IsPrefix(p, r) <=> IsPrefix(p, q) \/ p = r
    <3>1. /\ IsPrefix(p, r) <=> Len(p) <= Len(r) /\ \A i \in 1..Len(p) : p[i] = r[i]
          /\ IsPrefix(p, q) <=> Len(p) <= Len(q) /\ \A i \in 1..Len(p) : p[i] = q[i]
      BY <1>1, <1>2
    <3>2. CASE Len(p) <= Len(q)
      <4>1. \A i \in 1..Len(p) : r[i] = q[i]
        BY <1>1, <3>2
      <4>2. p # r
        BY <1>1, <3>2
      <4>3. QED
        BY <1>1, <3>1, <3>2, <4>1, <4>2
    <3>3. CASE Len(p) = Len(r)
      BY <1>1, <1>3, <3>1, <3>3
    <3>4. CASE Len(p) > Len(r)
      BY <1>1, <1>3, <3>1, <3>4
    <3>5. QED
      BY <1>1, <3>2, <3>3, <3>4
  <2>2. QED
    BY <2>1 DEF r

ThroughPrefixes(f, w, q) ==
  /\ \A i \in 0..Len(w) : q[i] \in Seq(Slots)
  /\ \A i \in 0..Len(w), p \in Seq(Slots) :
       IsPrefix(p, q[i]) <=> \E j \in 0..i : p = q[j]
  /\ \A i \in 1..Len(w) :
       /\ PlacedIn(f, w[i]) =>
            /\ q[i] = Append(q[i - 1], word_weak_type(f, w[i]))
            /\ q[i] # key_head /\ \A j \in 0..i - 1 : q[j] # q[i]
       /\ ~PlacedIn(f, w[i]) => q[i] = q[i - 1]

(* A path is a path of slots; what it goes through are its prefixes, and a *)
(* character that has a place leads to a node it has not gone through.     *)
LEMMA PathFacts ==
  ASSUME NEW f, NEW w \in Seq(Char), NEW q, Walk("slots", {}, f, key_head, w, q)
  PROVE  ThroughPrefixes(f, w, q)
<1>1. PICK n \in Nat : n = Len(w)
  OBVIOUS
<1>2. ASSUME NEW i \in 1..n
      PROVE  q[i] = IF PlacedIn(f, w[i]) THEN Append(q[i - 1], word_weak_type(f, w[i])) ELSE q[i - 1]
  BY <1>1 DEF Walk, Step
<1>3. ASSUME NEW i \in 1..n, PlacedIn(f, w[i]) PROVE word_weak_type(f, w[i]) \in Slots
  <2>1. w[i] \in Char /\ Char \subseteq Int
    <3>1. i \in 1..Len(w)
      BY <1>1
    <3>2. w[i] \in Char
      BY <3>1
    <3>3. QED
      BY <3>2 DEF Char
  <2>2. QED
    BY <1>3, <2>1, WeakType DEF PlacedIn, Slots
<1> DEFINE Reach(i) == q[i] \in Seq(Slots)
           Listed(i) == \A p \in Seq(Slots) : IsPrefix(p, q[i]) <=> \E j \in 0..i : p = q[j]
           S == {i \in 0..n : Reach(i) /\ Listed(i)}
<1>4. 0 \in S
  <2>1. q[0] = key_head /\ key_head \in Seq(Slots)
    BY DEF Walk, key_head
  <2>2. Listed(0)
    BY <2>1, PrefixOfNone
  <2> HIDE DEF Listed
  <2>3. QED
    BY <2>1, <2>2
<1>5. ASSUME NEW i \in 1..n, i - 1 \in S PROVE i \in S
  <2>1. Reach(i - 1) /\ Listed(i - 1)
    BY <1>5
  <2>2. CASE PlacedIn(f, w[i])
    <3>1. PICK e : e = word_weak_type(f, w[i]) /\ e \in Slots
      BY <1>3, <2>2
    <3>2. q[i] = Append(q[i - 1], e)
      BY <1>2, <2>2, <3>1
    <3>3. q[i] \in Seq(Slots)
      BY <2>1, <3>1, <3>2
    <3>4. ASSUME NEW p \in Seq(Slots)
          PROVE  IsPrefix(p, q[i]) <=> \E j \in 0..i : p = q[j]
      <4>1. IsPrefix(p, q[i]) <=> IsPrefix(p, q[i - 1]) \/ p = q[i]
        BY <2>1, <3>1, <3>2, PrefixOfMore
      <4>2. IsPrefix(p, q[i - 1]) <=> \E j \in 0..(i - 1) : p = q[j]
        BY <2>1
      <4>3. \A j : j \in 0..i <=> j \in 0..(i - 1) \/ j = i
        OBVIOUS
      <4>4. QED
        BY <4>1, <4>2, <4>3
    <3> HIDE DEF Listed
    <3>5. QED
      BY <3>3, <3>4 DEF Listed
  <2>3. CASE ~PlacedIn(f, w[i])
    <3>1. q[i] = q[i - 1]
      BY <1>2, <2>3
    <3>2. \A j : j \in 0..i <=> j \in 0..(i - 1) \/ j = i
      OBVIOUS
    <3>3. i - 1 \in 0..(i - 1)
      OBVIOUS
    <3>4. ASSUME NEW p \in Seq(Slots)
          PROVE  IsPrefix(p, q[i]) <=> \E j \in 0..i : p = q[j]
      BY <2>1, <3>1, <3>2, <3>3
    <3> HIDE DEF Listed
    <3>5. QED
      BY <2>1, <3>1, <3>4 DEF Listed
  <2>4. QED
    BY <2>2, <2>3
<1>6. 0..n \subseteq S
  <2> HIDE DEF S
  <2>1. QED
    BY <1>4, <1>5, UpTo
<1>7. \A i \in 0..n : Reach(i) /\ Listed(i)
  BY <1>6
<1>8. ASSUME NEW i \in 1..n, PlacedIn(f, w[i])
      PROVE  /\ q[i] = Append(q[i - 1], word_weak_type(f, w[i]))
             /\ q[i] # key_head /\ \A j \in 0..i - 1 : q[j] # q[i]
  <2>1. PICK e : e = word_weak_type(f, w[i]) /\ e \in Slots
    BY <1>3, <1>8
  <2>2. q[i] = Append(q[i - 1], e) /\ q[i - 1] \in Seq(Slots)
    <3>1. i - 1 \in 0..n
      OBVIOUS
    <3>2. Reach(i - 1)
      BY <1>7, <3>1
    <3>3. QED
      BY <1>2, <1>8, <2>1, <3>2
  <2>3. q[i] # key_head /\ Len(q[i]) = Len(q[i - 1]) + 1
    BY <2>1, <2>2, Appended
  <2>4. ASSUME NEW j \in 0..(i - 1) PROVE q[j] # q[i]
    <3>1. q[j] \in Seq(Slots) /\ Listed(i - 1) /\ j \in 0..n /\ i - 1 \in 0..n
      BY <1>7
    <3>2. IsPrefix(q[j], q[i - 1])
      BY <3>1
    <3>3. Len(q[j]) <= Len(q[i - 1])
      BY <3>2 DEF IsPrefix
    <3>4. QED
      BY <2>2, <2>3, <3>1, <3>3
  <2>5. QED
    BY <2>1, <2>2, <2>3, <2>4
<1>9. \A i \in 1..n : ~PlacedIn(f, w[i]) => q[i] = q[i - 1]
  BY <1>2
<1>10. QED
  BY <1>1, <1>7, <1>8, <1>9 DEF ThroughPrefixes

(***************************************************************************)
(* The data of the words, while memory does not run out.                   *)
(***************************************************************************)
(* What a character does if every allocation succeeds.                     *)
Moves(f, t, c, r) ==
  IF PlacedIn(f, c)
  THEN LET p == Append(t.at, word_weak_type(f, c))
       IN  /\ r.at = p /\ (r.new <=> p \notin DOMAIN t.udata)
           /\ DOMAIN r.udata = DOMAIN t.udata \cup {p}
           /\ \A q \in DOMAIN t.udata : r.udata[q] = t.udata[q]
           /\ p \notin DOMAIN t.udata => r.udata[p] = NULL
  ELSE r.at = t.at /\ r.udata = t.udata /\ r.new = FALSE

LEMMA CharacterMoves ==
  ASSUME NEW f, NEW t, DOMAIN t = Fields, t.out = "going", NEW c \in Char
  PROVE  LET r == NextCharacter({}, f, t, c)
         IN  r.out = "undefined" \/ (r.out = "going" /\ Moves(f, t, c, r))
<1> DEFINE s == word_weak_type(f, c)
           l == s[1]
           u == WithList(t, l)
           p == Append(t.at, s)
           r == NextCharacter({}, f, t, c)
           und == "undefined"
           Fine == r.out = und \/ (r.out = "going" /\ Moves(f, t, c, r))
<1>1. CASE l = "none"
  <2>1. r = Skip(t)
    BY <1>1 DEF NextCharacter
  <2>2. ~PlacedIn(f, c)
    BY <1>1 DEF PlacedIn
  <2> HIDE DEF r
  <2>3. Fine
    BY <2>1, <2>2, SkipEffect DEF Alike, Moves
  <2>4. QED
    BY <2>3 DEF r
<1>2. CASE l # "none"
  <2>1. r = CASE OutOfRange(s) -> Skip(u)
              [] s = <<"other", 26>> -> Ends(u, und)
              [] InList(s) /\ p \in DOMAIN t.udata -> Moved(u, p)
              [] OTHER -> NewNode(u, p, l)
    BY <1>2 DEF NextCharacter, Moved
  <2>2. /\ DOMAIN u = Fields /\ u.udata = t.udata /\ u.at = t.at
        /\ u.new = t.new /\ u.out = t.out
    BY ListEffect
  <2> HIDE DEF r, u
  <2>3. CASE OutOfRange(s)
    <3>1. r = Skip(u) /\ ~PlacedIn(f, c)
      BY <2>1, <2>3 DEF PlacedIn, OutOfRange, InList, Size
    <3>2. Fine
      BY <2>2, <3>1, SkipEffect DEF Alike, Moves
    <3>3. QED
      BY <3>2 DEF r
  <2>4. CASE s = <<"other", 26>>
    <3>1. r = Ends(u, und)
      BY <2>1, <2>4 DEF OutOfRange, InList, Size
    <3>2. r.out = und
      BY <2>2, <3>1, EndsEffect
    <3>3. QED
      BY <3>2 DEF r
  <2>5. CASE ~OutOfRange(s) /\ s # <<"other", 26>> /\ p \in DOMAIN t.udata
    <3>1. InList(s) /\ PlacedIn(f, c)
      BY <1>2, <2>5, Placement DEF PlacedIn
    <3>2. r = Moved(u, p)
      BY <2>1, <2>5, <3>1
    <3> HIDE DEF p, l, s
    <3>3. Alike(u, r) /\ r.at = p /\ r.new = FALSE /\ r.out = t.out
      <4>1. DOMAIN u = Fields /\ u.out = t.out
        BY <2>2
      <4>2. Alike(u, Moved(u, p)) /\ Moved(u, p).at = p /\ Moved(u, p).new = FALSE
            /\ Moved(u, p).out = u.out
        BY <4>1, MoveEffect
      <4>3. QED
        BY <3>2, <4>1, <4>2, Zenon
    <3>4. r.udata = t.udata
      BY <2>2, <3>3 DEF Alike
    <3>5. Moves(f, t, c, r)
      BY <2>5, <3>1, <3>3, <3>4 DEF Moves, p, s
    <3>6. QED
      BY <3>3, <3>5 DEF r
  <2>6. CASE ~OutOfRange(s) /\ s # <<"other", 26>> /\ p \notin DOMAIN t.udata
    <3>1. PlacedIn(f, c)
      BY <1>2, <2>6 DEF PlacedIn
    <3>2. r = NewNode(u, p, l)
      BY <2>1, <2>6
    <3>3. WithNode(u, p, l, r)
      BY <2>2, <3>2, NodeEffect
    <3> HIDE DEF p
    <3>4. PICK ud : ud = t.udata
      OBVIOUS
    <3>5. r.udata = Extended(ud, p, NULL) /\ r.at = p /\ r.new = TRUE /\ r.out = t.out
      BY <2>2, <3>3, <3>4 DEF WithNode
    <3>6. /\ DOMAIN r.udata = DOMAIN ud \cup {p} /\ r.udata[p] = NULL
          /\ \A q \in DOMAIN ud : r.udata[q] = ud[q]
      BY <2>6, <3>4, <3>5 DEF Extended
    <3>7. Moves(f, t, c, r)
      BY <2>6, <3>1, <3>4, <3>5, <3>6 DEF Moves, p
    <3>8. QED
      BY <3>5, <3>7 DEF r
  <2>7. QED
    BY <2>3, <2>4, <2>5, <2>6
<1>3. QED
  BY <1>1, <1>2

(* u is the state after i characters of w: the call is at the end of the   *)
(* path so far, whose nodes are those of t and new ones without data.      *)
Along(f, t, w, q, u, i) ==
  /\ u.at = q[i]
  /\ DOMAIN u.udata = DOMAIN t.udata \cup ({q[j] : j \in 0..i} \ {key_head})
  /\ \A p \in DOMAIN t.udata : u.udata[p] = t.udata[p]
  /\ \A p \in DOMAIN u.udata \ DOMAIN t.udata : u.udata[p] = NULL
  /\ i # 0 => (u.new <=> PlacedIn(f, w[i]) /\ q[i] \notin DOMAIN t.udata)

LEMMA WordMoves ==
  ASSUME NEW f, NEW t, Called(t), NEW w \in Seq(Char),
         NEW g, Walk("characters", {}, f, Start(t), w, g),
         NEW q, Walk("slots", {}, f, key_head, w, q)
  PROVE  \A i \in 0..Len(w) :
           g[i].out = "undefined" \/ (g[i].out = "going" /\ Along(f, t, w, q, g[i], i))
<1>1. PICK n \in Nat : n = Len(w)
  OBVIOUS
<1> DEFINE Fine(i) == g[i].out = "undefined"
                      \/ (g[i].out = "going" /\ Along(f, t, w, q, g[i], i))
           S == {i \in 0..n : Fine(i)}
<1>2. \A i \in 0..n : During(t, g[i])
  BY <1>1, WordKeeps
<1>3. ASSUME NEW i \in 1..n
      PROVE  /\ g[i] = NextCharacter({}, f, g[i - 1], w[i]) /\ w[i] \in Char
             /\ PlacedIn(f, w[i]) =>
                  /\ q[i] = Append(q[i - 1], word_weak_type(f, w[i]))
                  /\ q[i] # key_head /\ \A j \in 0..(i - 1) : q[j] # q[i]
             /\ ~PlacedIn(f, w[i]) => q[i] = q[i - 1]
  <2>1. i \in 1..Len(w) /\ w[i] \in Char
    BY <1>1
  <2>2. g[i] = NextCharacter({}, f, g[i - 1], w[i])
    BY <2>1 DEF Walk, Step
  <2>3. /\ PlacedIn(f, w[i]) =>
             /\ q[i] = Append(q[i - 1], word_weak_type(f, w[i]))
             /\ q[i] # key_head /\ \A j \in 0..(i - 1) : q[j] # q[i]
        /\ ~PlacedIn(f, w[i]) => q[i] = q[i - 1]
    <3>1. ThroughPrefixes(f, w, q)
      BY PathFacts
    <3>2. QED
      BY <2>1, <3>1 DEF ThroughPrefixes
  <2>4. QED
    BY <2>1, <2>2, <2>3
<1>4. 0 \in S
  <2>1. g[0] = Start(t) /\ q[0] = key_head
    BY DEF Walk
  <2>2. g[0].out = "going" /\ g[0].at = key_head /\ g[0].udata = t.udata
    BY <2>1, StartKeeps DEF Alike
  <2>3. {q[j] : j \in 0..0} = {key_head}
    BY <2>1
  <2>4. Along(f, t, w, q, g[0], 0)
    BY <2>1, <2>2, <2>3 DEF Along
  <2>5. QED
    BY <2>2, <2>4
<1>5. ASSUME NEW i \in 1..n, i - 1 \in S PROVE i \in S
  <2>1. PICK u, v, c : u = g[i - 1] /\ v = g[i] /\ c = w[i]
    OBVIOUS
  <2>2. CASE u.out = "undefined"
    <3>1. v = u
      BY <1>3, <2>1, <2>2 DEF NextCharacter
    <3>2. Fine(i)
      BY <2>1, <2>2, <3>1
    <3> HIDE DEF Fine
    <3>3. QED
      BY <3>2
  <2>3. CASE u.out = "going" /\ Along(f, t, w, q, u, i - 1)
    <3>1. DOMAIN u = Fields
      BY <1>2, <2>1 DEF During
    <3>2. v.out = "undefined" \/ (v.out = "going" /\ Moves(f, u, c, v))
      BY <1>3, <2>1, <2>3, <3>1, CharacterMoves
    <3>3. {q[j] : j \in 0..i} = {q[j] : j \in 0..(i - 1)} \cup {q[i]}
      <4>1. \A j : j \in 0..i <=> j \in 0..(i - 1) \/ j = i
        OBVIOUS
      <4>2. QED
        BY <4>1
    <3>4. ASSUME Moves(f, u, c, v), PlacedIn(f, c) PROVE Along(f, t, w, q, v, i)
      <4>1. PICK p : p = q[i]
        OBVIOUS
      <4>2. p = Append(u.at, word_weak_type(f, c)) /\ p # key_head
            /\ p \notin {q[j] : j \in 0..(i - 1)}
        BY <1>3, <2>1, <2>3, <3>4, <4>1 DEF Along
      <4>3. /\ v.at = p /\ (v.new <=> p \notin DOMAIN u.udata)
            /\ DOMAIN v.udata = DOMAIN u.udata \cup {p}
            /\ \A r \in DOMAIN u.udata : v.udata[r] = u.udata[r]
            /\ p \notin DOMAIN u.udata => v.udata[p] = NULL
        BY <3>4, <4>2, Zenon DEF Moves
      <4>4. p \in DOMAIN u.udata <=> p \in DOMAIN t.udata
        BY <2>3, <4>2 DEF Along
      <4>5. DOMAIN v.udata = DOMAIN t.udata \cup ({q[j] : j \in 0..i} \ {key_head})
        BY <2>3, <3>3, <4>1, <4>2, <4>3 DEF Along
      <4>6. \A r \in DOMAIN t.udata : v.udata[r] = t.udata[r]
        BY <2>3, <4>3 DEF Along
      <4>7. \A r \in DOMAIN v.udata \ DOMAIN t.udata : v.udata[r] = NULL
        BY <2>3, <4>3, <4>4 DEF Along
      <4>8. v.new <=> PlacedIn(f, w[i]) /\ q[i] \notin DOMAIN t.udata
        BY <2>1, <3>4, <4>1, <4>3, <4>4
      <4>9. QED
        BY <4>1, <4>3, <4>5, <4>6, <4>7, <4>8 DEF Along
    <3>5. ASSUME Moves(f, u, c, v), ~PlacedIn(f, c) PROVE Along(f, t, w, q, v, i)
      <4>1. v.at = u.at /\ v.udata = u.udata /\ v.new = FALSE
        BY <3>5 DEF Moves
      <4>2. q[i] = q[i - 1] /\ i - 1 \in 0..(i - 1)
        BY <1>3, <2>1, <3>5
      <4>3. {q[j] : j \in 0..i} = {q[j] : j \in 0..(i - 1)}
        BY <3>3, <4>2
      <4>4. QED
        BY <2>1, <2>3, <3>5, <4>1, <4>2, <4>3 DEF Along
    <3>6. Fine(i)
      BY <2>1, <3>2, <3>4, <3>5
    <3> HIDE DEF Fine
    <3>7. QED
      BY <3>6
  <2>4. QED
    BY <1>5, <2>1, <2>2, <2>3
<1>6. 0..n \subseteq S
  <2> HIDE DEF S
  <2>1. QED
    BY <1>4, <1>5, UpTo
<1>7. \A i \in 0..n : Fine(i)
  BY <1>6
<1>8. QED
  BY <1>1, <1>7

(* The tree of udata and end_of_word holds the first m words of l, with the*)
(* data that each was given when it was added for the first time.          *)
DataFor(f, l, i) ==
  IF \/ \E j \in 1..i - 1 : IsPrefix(Path(f, l[i].w), Path(f, l[j].w))
     \/ ~PlacedIn(f, Last(l[i].w))
  THEN NULL ELSE l[i].udata

Holds(f, ud, ew, l, m) ==
  /\ ew = {Path(f, l[i].w) : i \in 1..m}
  /\ DOMAIN ud = {p \in Seq(Slots) \ {key_head} : \E i \in 1..m : IsPrefix(p, Path(f, l[i].w))}
  /\ \A p \in DOMAIN ud \ ew : ud[p] = NULL
  /\ \A i \in 1..m : (\A j \in 1..i - 1 : Path(f, l[j].w) # Path(f, l[i].w)) =>
                       ud[Path(f, l[i].w)] = DataFor(f, l, i)

(* The word e makes the tree r of the tree t: P is its path.               *)
Enters(f, t, e, P, r) ==
  /\ P \in Seq(Slots) \ {key_head} /\ P = Path(f, e.w)
  /\ r.end_of_word = t.end_of_word \cup {P}
  /\ DOMAIN r.udata = DOMAIN t.udata \cup {p \in Seq(Slots) \ {key_head} : IsPrefix(p, P)}
  /\ \A p \in DOMAIN t.udata : r.udata[p] = t.udata[p]
  /\ \A p \in DOMAIN r.udata \ DOMAIN t.udata :
       r.udata[p] = IF p = P /\ PlacedIn(f, Last(e.w)) THEN e.udata ELSE NULL

LEMMA WordEnters ==
  ASSUME NEW f, NEW t, Called(t), NEW e, IsElem(e), e.w # <<>>,
         NEW r, r = parse_file_create_key({}, f, t, e), r.out # "undefined"
  PROVE  /\ r.out \in {"W_NO_ERROR", "W_E_EXISTS"}
         /\ Enters(f, t, e, Path(f, e.w), r)
<1> DEFINE w == e.w
<1>1. w \in Seq(Char)
  BY DEF IsElem, Char
<1>2. PICK n : n = Len(w) /\ n \in 1..Len(w) /\ n # 0
  BY <1>1
<1>3. PICK g : /\ Walk("characters", {}, f, Start(t), w, g)
               /\ r = IF g[n].out = "going" THEN Marked(g[n], e.udata) ELSE g[n]
  <2>1. PICK g : WordWalk({}, f, t, e, g)
    BY <1>1, WordParsed
  <2>2. QED
    BY <1>2, <2>1, Zenon DEF WordWalk
<1>4. PICK q : Walk("slots", {}, f, key_head, w, q) /\ Path(f, w) = q[n]
  BY <1>1, <1>2, PathWalk
<1>5. PICK u, d : u = g[n] /\ d = e.udata
  OBVIOUS
<1>6. During(t, u) /\ (u.out = "going" => u.at # key_head)
  <2>1. /\ \A i \in 0..Len(w) : During(t, g[i])
        /\ \A i \in 1..Len(w) : g[i].out = "going" => g[i].at # key_head
    BY <1>1, <1>3, WordKeeps
  <2>2. QED
    BY <1>2, <1>5, <2>1
<1>7. u.out = "undefined" \/ (u.out = "going" /\ Along(f, t, w, q, u, n))
  <2>1. \A i \in 0..Len(w) :
          g[i].out = "undefined" \/ (g[i].out = "going" /\ Along(f, t, w, q, g[i], i))
    BY <1>1, <1>3, <1>4, WordMoves
  <2>2. QED
    BY <1>2, <1>5, <2>1
<1>8. u.out = "going" /\ r = Marked(u, d) /\ Along(f, t, w, q, u, n)
  BY <1>3, <1>5, <1>7
<1>9. PICK P : P = q[n] /\ P = Path(f, e.w) /\ P = u.at /\ P # key_head
  BY <1>4, <1>6, <1>8 DEF Along
<1>10. ThroughPrefixes(f, w, q)
  BY <1>1, <1>4, PathFacts
<1>11. P \in Seq(Slots) /\ {q[j] : j \in 0..n} = {p \in Seq(Slots) : IsPrefix(p, P)}
  <2>1. /\ \A j \in 0..n : q[j] \in Seq(Slots)
        /\ \A p \in Seq(Slots) : IsPrefix(p, q[n]) <=> \E j \in 0..n : p = q[j]
    <3>1. n \in 0..Len(w)
      BY <1>2
    <3>2. /\ \A j \in 0..Len(w) : q[j] \in Seq(Slots)
          /\ \A i \in 0..Len(w), p \in Seq(Slots) :
               IsPrefix(p, q[i]) <=> \E j \in 0..i : p = q[j]
      BY <1>10 DEF ThroughPrefixes
    <3> HIDE DEF w
    <3>3. \A p \in Seq(Slots) : IsPrefix(p, q[n]) <=> \E j \in 0..n : p = q[j]
      BY <3>1, <3>2
    <3>4. QED
      BY <1>2, <3>2, <3>3
  <2>2. n \in 0..n
    BY <1>2
  <2>3. \A p : p \in {q[j] : j \in 0..n} <=> p \in Seq(Slots) /\ IsPrefix(p, P)
    BY <1>9, <2>1
  <2>4. QED
    BY <1>9, <2>1, <2>2, <2>3
<1>12. DOMAIN u = Fields /\ u.end_of_word = t.end_of_word
  BY <1>6 DEF During, Grown
<1>13. /\ r.end_of_word = u.end_of_word \cup {P}
       /\ r.udata = [u.udata EXCEPT ![P] = IF u.new THEN d ELSE @]
       /\ r.out = IF u.new THEN "W_NO_ERROR" ELSE "W_E_EXISTS"
  BY <1>8, <1>9, <1>12, MarkedEffect
<1>14. u.new <=> PlacedIn(f, Last(w)) /\ P \notin DOMAIN t.udata
  BY <1>2, <1>8, <1>9 DEF Along, Last
<1>15. /\ DOMAIN u.udata = DOMAIN t.udata \cup {p \in Seq(Slots) \ {key_head} : IsPrefix(p, P)}
       /\ \A p \in DOMAIN t.udata : u.udata[p] = t.udata[p]
       /\ \A p \in DOMAIN u.udata \ DOMAIN t.udata : u.udata[p] = NULL
  BY <1>8, <1>11 DEF Along
<1>16. DOMAIN r.udata = DOMAIN u.udata
  BY <1>13
<1>17. \A p \in DOMAIN t.udata : r.udata[p] = t.udata[p]
  BY <1>13, <1>14, <1>15
<1>18. ASSUME NEW p \in DOMAIN r.udata \ DOMAIN t.udata
       PROVE  r.udata[p] = IF p = P /\ PlacedIn(f, Last(w)) THEN d ELSE NULL
  BY <1>13, <1>14, <1>15, <1>16
<1>19. Enters(f, t, e, P, r)
  BY <1>5, <1>9, <1>11, <1>12, <1>13, <1>15, <1>16, <1>17, <1>18 DEF Enters
<1>20. QED
  BY <1>9, <1>13, <1>19

LEMMA WordHeld ==
  ASSUME NEW f, NEW t, NEW l, NEW m \in Nat, Holds(f, t.udata, t.end_of_word, l, m),
         NEW e, e = l[m + 1], NEW P, NEW r, Enters(f, t, e, P, r),
         t.end_of_word \subseteq DOMAIN t.udata
  PROVE  Holds(f, r.udata, r.end_of_word, l, m + 1)
<1>0. \A i : i \in 1..(m + 1) <=> i \in 1..m \/ i = m + 1
  OBVIOUS
<1>1. P = Path(f, l[m + 1].w)
  BY DEF Enters
<1>2. r.end_of_word = {Path(f, l[i].w) : i \in 1..(m + 1)}
  BY <1>0, <1>1 DEF Enters, Holds
<1>3. DOMAIN r.udata =
        {p \in Seq(Slots) \ {key_head} : \E i \in 1..(m + 1) : IsPrefix(p, Path(f, l[i].w))}
  BY <1>0, <1>1 DEF Enters, Holds
<1>4. ASSUME NEW p \in DOMAIN r.udata \ r.end_of_word PROVE r.udata[p] = NULL
  <2>1. p # P /\ p \notin t.end_of_word
    BY <1>4 DEF Enters
  <2>2. CASE p \in DOMAIN t.udata
    BY <2>1, <2>2 DEF Enters, Holds
  <2>3. CASE p \notin DOMAIN t.udata
    BY <2>1, <2>3 DEF Enters
  <2>4. QED
    BY <2>2, <2>3
<1>5. ASSUME NEW i \in 1..(m + 1), \A j \in 1..(i - 1) : Path(f, l[j].w) # Path(f, l[i].w)
      PROVE  r.udata[Path(f, l[i].w)] = DataFor(f, l, i)
  <2>1. CASE i \in 1..m
    <3>1. PICK p : p = Path(f, l[i].w)
      OBVIOUS
    <3>2. p \in t.end_of_word /\ t.udata[p] = DataFor(f, l, i)
      BY <1>5, <2>1, <3>1 DEF Holds
    <3>3. QED
      BY <3>1, <3>2 DEF Enters
  <2>2. CASE i = m + 1
    <3>1. P \notin t.end_of_word
      <4>1. \A j \in 1..m : Path(f, l[j].w) # P
        BY <1>1, <1>5, <2>2
      <4>2. QED
        BY <4>1 DEF Holds
    <3>2. P \in DOMAIN t.udata <=> \E j \in 1..i - 1 : IsPrefix(P, Path(f, l[j].w))
      BY <2>2 DEF Enters, Holds
    <3>3. P \in DOMAIN r.udata
      <4>1. P \in Seq(Slots) \ {key_head}
        BY DEF Enters
      <4>2. IsPrefix(P, P)
        BY <4>1 DEF IsPrefix
      <4>3. QED
        BY <4>1, <4>2 DEF Enters
    <3>4. CASE P \in DOMAIN t.udata
      <4>1. r.udata[P] = NULL
        BY <3>1, <3>4 DEF Enters, Holds
      <4>2. QED
        BY <1>1, <2>2, <3>2, <3>4, <4>1 DEF DataFor
    <3>5. CASE P \notin DOMAIN t.udata
      <4>1. r.udata[P] = IF PlacedIn(f, Last(e.w)) THEN e.udata ELSE NULL
        BY <3>3, <3>5 DEF Enters
      <4>2. QED
        BY <1>1, <2>2, <3>2, <3>5, <4>1 DEF DataFor
    <3>6. QED
      BY <3>4, <3>5
  <2>3. QED
    BY <1>0, <2>1, <2>2
<1>6. QED
  BY <1>2, <1>3, <1>4, <1>5 DEF Holds

(* Only the first m words of the list matter.                              *)
LEMMA HoldsSame ==
  ASSUME NEW f, NEW ud, NEW ew, NEW l, NEW k, NEW m \in Nat, Holds(f, ud, ew, l, m),
         \A i \in 1..m : k[i] = l[i]
  PROVE  Holds(f, ud, ew, k, m)
<1>1. \A i \in 1..m : DataFor(f, k, i) = DataFor(f, l, i)
  <2>1. SUFFICES ASSUME NEW i \in 1..m PROVE DataFor(f, k, i) = DataFor(f, l, i)
    OBVIOUS
  <2>2. \A j \in 1..i - 1 : k[j] = l[j]
    OBVIOUS
  <2>3. QED
    BY <2>2 DEF DataFor
<1>2. \A i \in 1..m : \A j \in 1..i - 1 : k[j] = l[j]
  OBVIOUS
<1>3. QED
  BY <1>1, <1>2 DEF Holds

LEMMA HoldsNone ==
  ASSUME NEW f, NEW l
  PROVE  Holds(f, NoNodes.udata, NoNodes.end_of_word, l, 0)
BY DEF Holds, NoNodes

LEMMA LoadHolds ==
  ASSUME NEW f, NEW list \in Wordlists, NEW t, t = LoadAll({}, f, list), t.out = "W_NO_ERROR"
  PROVE  Holds(f, t.udata, t.end_of_word, list, Len(list))
<1>1. PICK n \in Nat : n = Len(list)
  BY ListWords
<1>2. PICK g : Walk("words", {}, f, WithLocals(NoNodes), list, g) /\ t = g[n]
  BY <1>1, ListWords, LoadWalk
<1> DEFINE Held(i) == g[i].out = "W_NO_ERROR" => Holds(f, g[i].udata, g[i].end_of_word, list, i)
           S == {i \in 0..n : Held(i)}
<1>3. 0 \in S
  <2>1. g[0] = WithLocals(NoNodes)
    BY <1>2 DEF Walk
  <2>2. Held(0)
    BY <2>1, HoldsNone DEF WithLocals
  <2> HIDE DEF Held
  <2>3. QED
    BY <2>2
<1>4. ASSUME NEW i \in 1..n, i - 1 \in S PROVE i \in S
  <2>1. PICK v, e, r : v = g[i - 1] /\ e = list[i] /\ r = parse_file_create_key({}, f, v, e)
    OBVIOUS
  <2>2. g[i] = IF v.out = "W_NO_ERROR" THEN r ELSE v
    BY <1>1, <1>2, <2>1 DEF Walk, Step
  <2>3. Called(v) /\ IsElem(e)
    <3>1. \A k \in 0..Len(list) : Called(g[k])
      BY <1>2, LoadCalled
    <3>2. QED
      BY <1>1, <2>1, <3>1, ListWords
  <2>4. ASSUME g[i].out = "W_NO_ERROR" PROVE Holds(f, g[i].udata, g[i].end_of_word, list, i)
    <3>1. v.out = "W_NO_ERROR" /\ g[i] = r /\ r.out = "W_NO_ERROR"
      BY <2>2, <2>4
    <3>2. PICK m \in Nat : m = i - 1 /\ i = m + 1
      OBVIOUS
    <3>3. Holds(f, v.udata, v.end_of_word, list, m)
      BY <1>4, <2>1, <3>1, <3>2
    <3>4. e.w # <<>>
      <4>1. SUFFICES ASSUME e.w = <<>> PROVE FALSE
        OBVIOUS
      <4>2. r = Ends(v, "W_E_BAD_PARAMETER")
        BY <2>1, <4>1, Zenon DEF parse_file_create_key
      <4>3. r.out = "W_E_BAD_PARAMETER"
        BY <2>3, <4>2, EndsEffect DEF Called
      <4>4. QED
        BY <3>1, <4>3
    <3>5. PICK P : Enters(f, v, e, P, r)
      BY <2>1, <2>3, <3>1, <3>4, WordEnters
    <3>6. v.end_of_word \subseteq DOMAIN v.udata
      BY <2>3 DEF Called, SoundTree
    <3>7. e = list[m + 1]
      BY <2>1, <3>2
    <3>8. Holds(f, r.udata, r.end_of_word, list, m + 1)
      BY <3>3, <3>5, <3>6, <3>7, WordHeld
    <3>9. QED
      BY <3>1, <3>2, <3>8
  <2>5. Held(i)
    BY <2>4
  <2> HIDE DEF Held
  <2>6. QED
    BY <2>5
<1>5. n \in S
  <2> HIDE DEF S
  <2>1. 0..n \subseteq S
    BY <1>3, <1>4, UpTo
  <2>2. QED
    BY <2>1
<1>6. QED
  BY <1>1, <1>2, <1>5

AllElems == Elems \cup UNION {Range(list) : list \in Wordlists}

(* The invariant: while memory has not run out, the tree holds what was    *)
(* added and nothing else.                                                 *)
HeldInv ==
  /\ KeyTreeInv
  /\ added \in Seq(AllElems)
  /\ Intact => Holds(fold, tree.udata, tree.end_of_word, added, Len(added))

LEMMA InitHeld == Init => HeldInv
<1> SUFFICES ASSUME Init PROVE HeldInv
  OBVIOUS
<1>1. KeyTreeInv
  BY InitKeyTree
<1>2. added \in Seq(AllElems) /\ ~Intact
  BY DEF Init, Intact
<1>3. QED
  BY <1>1, <1>2 DEF HeldInv

LEMMA CreateHolds ==
  ASSUME HeldInv, NEW list \in Wordlists, NEW f \in Types, Create(list, f)
  PROVE  HeldInv'
<1>1. KeyTreeInv'
  BY CreateKeeps DEF HeldInv
<1>2. list \in Seq(AllElems)
  <2>1. list \in Seq(Range(list)) /\ Range(list) \subseteq AllElems
    BY ListWords DEF AllElems
  <2>2. QED
    BY <2>1
<1>3. added' \in Seq(AllElems)
  <2>1. added' = list \/ added' = <<>> \/ added' = added
    BY DEF Create
  <2>2. added \in Seq(AllElems)
    BY DEF HeldInv
  <2>3. <<>> \in Seq(AllElems)
    OBVIOUS
  <2>4. QED
    BY <1>2, <2>1, <2>2, <2>3, Zenon
<1>4. ASSUME Intact' PROVE Holds(fold, tree.udata, tree.end_of_word, added, Len(added))'
  <2>1. status' = "up" /\ failed' = FALSE
    BY <1>1, <1>4 DEF Intact, KeyTreeInv
  <2>2. PICK t : /\ t = LoadAll({}, f, list) /\ t.out = "W_NO_ERROR"
                 /\ tree' = TreeOf(t) /\ added' = list /\ fold' = f
    BY <2>1 DEF Create
  <2>3. Holds(f, t.udata, t.end_of_word, list, Len(list))
    BY <2>2, LoadHolds
  <2>4. QED
    BY <2>2, <2>3 DEF TreeOf
<1>5. QED
  BY <1>1, <1>3, <1>4 DEF HeldInv

LEMMA AddHolds ==
  ASSUME HeldInv, NEW e \in Elems, Add(e)
  PROVE  HeldInv'
<1>1. KeyTreeInv'
  BY AddKeeps DEF HeldInv
<1>2. added' \in Seq(AllElems)
  <2>1. e \in AllElems
    BY DEF AllElems
  <2>2. added' = added \/ added' = Append(added, e)
    BY DEF Add
  <2>3. QED
    BY <2>1, <2>2 DEF HeldInv
<1>3. ASSUME Intact' PROVE Holds(fold, tree.udata, tree.end_of_word, added, Len(added))'
  <2>1. status' = "up" /\ failed' = FALSE /\ failed \in BOOLEAN
    BY <1>1, <1>3 DEF Intact, KeyTreeInv, HeldInv
  <2>2. PICK r : /\ r = parse_file_create_key({}, fold, WithLocals(tree), e)
                 /\ added' = IF r.out \in {"W_NO_ERROR", "W_E_EXISTS"} THEN Append(added, e)
                             ELSE added
                 /\ tree' = IF r.out = "W_E_NO_MEMORY" THEN NoNodes ELSE TreeOf(r)
                 /\ r.out # "undefined" /\ fold' = fold /\ failed = FALSE /\ status = "up"
    BY <2>1 DEF Add
  <2>3. PICK m \in Nat : m = Len(added) /\ Holds(fold, tree.udata, tree.end_of_word, added, m)
    BY <2>2 DEF HeldInv, Intact
  <2>4. PICK t : t = WithLocals(tree) /\ Called(t) /\ t.udata = tree.udata
                 /\ t.end_of_word = tree.end_of_word
    <3>1. Called(WithLocals(tree))
      BY CalledWithLocals DEF HeldInv, KeyTreeInv
    <3>2. WithLocals(tree).udata = tree.udata /\ WithLocals(tree).end_of_word = tree.end_of_word
      BY DEF WithLocals
    <3>3. QED
      BY <3>1, <3>2
  <2>5. IsElem(e)
    BY ElemsAssumption
  <2>6. CASE e.w = <<>>
    <3>1. r = Ends(t, "W_E_BAD_PARAMETER")
      BY <2>2, <2>4, <2>6, Zenon DEF parse_file_create_key
    <3>2. r.out = "W_E_BAD_PARAMETER" /\ Alike(t, r)
      BY <2>4, <3>1, EndsEffect DEF Called
    <3>3. added' = added /\ tree' = TreeOf(r)
      BY <2>2, <3>2
    <3>4. QED
      BY <2>2, <2>3, <2>4, <3>2, <3>3 DEF TreeOf, Alike
  <2>7. CASE e.w # <<>>
    <3>1. r.out \in {"W_NO_ERROR", "W_E_EXISTS"} /\ Enters(fold, t, e, Path(fold, e.w), r)
      BY <2>2, <2>4, <2>5, <2>7, WordEnters
    <3>2. added' = Append(added, e) /\ tree' = TreeOf(r)
      BY <2>2, <3>1
    <3>3. PICK l : l = added' /\ Len(l) = m + 1 /\ l[m + 1] = e /\ \A i \in 1..m : l[i] = added[i]
      BY <2>3, <3>2 DEF HeldInv
    <3>4. Holds(fold, t.udata, t.end_of_word, l, m)
      BY <2>3, <2>4, <3>3, HoldsSame
    <3>5. t.end_of_word \subseteq DOMAIN t.udata
      BY <2>4 DEF Called, SoundTree
    <3>6. Holds(fold, r.udata, r.end_of_word, l, m + 1)
      BY <3>1, <3>3, <3>4, <3>5, WordHeld
    <3>7. QED
      BY <2>2, <3>2, <3>3, <3>6 DEF TreeOf
  <2>8. QED
    BY <2>6, <2>7
<1>4. QED
  BY <1>1, <1>2, <1>3 DEF HeldInv

LEMMA NextHeld == HeldInv /\ [Next]_vars => HeldInv'
<1> SUFFICES ASSUME HeldInv, [Next]_vars PROVE HeldInv'
  OBVIOUS
<1>1. CASE Release
  <2>1. KeyTreeInv'
    BY NextKeyTree DEF HeldInv
  <2>2. ~Intact' /\ added' = added
    BY <1>1 DEF Release, Intact
  <2>3. QED
    BY <2>1, <2>2 DEF HeldInv
<1>2. CASE UNCHANGED vars
  BY <1>2 DEF vars, HeldInv, KeyTreeInv, Intact
<1>3. QED
  BY <1>1, <1>2, CreateHolds, AddHolds DEF Next

(* A word has the data it was first added with, if it did not begin a word *)
(* that was there nor end in a character that the tree leaves out, however *)
(* often it is added and whatever is added around it (keytree.c:310-320).  *)
THEOREM FirstData == Spec => []DataOfFirst
<1>1. HeldInv => DataOfFirst
  <2> SUFFICES ASSUME HeldInv, Intact PROVE DataOfFirst
    BY DEF DataOfFirst
  <2>1. Holds(fold, tree.udata, tree.end_of_word, added, Len(added))
    BY DEF HeldInv
  <2>2. DOMAIN added = 1..Len(added) /\ Len(added) \in Nat
    BY DEF HeldInv
  <2>3. tree.end_of_word = {PathOf(added[i].w) : i \in DOMAIN added}
    BY <2>1, <2>2 DEF Holds, PathOf
  <2>4. ASSUME NEW p \in tree.end_of_word
        PROVE  MadeItsNode(FirstAddition(p)) => tree.udata[p] = added[FirstAddition(p)].udata
    <3> DEFINE E == {j \in DOMAIN added : PathOf(added[j].w) = p}
    <3>1. E \in SUBSET Nat /\ E # {}
      BY <2>2, <2>3
    <3>2. PICK i : i \in E /\ i = Min(E) /\ \A j \in E : i <= j
      <4> HIDE DEF E
      <4>1. PICK k \in E : \A j \in E : k <= j
        BY <3>1, FirstOf
      <4>2. QED
        BY <4>1, Zenon DEF Min
    <3>3. i \in 1..Len(added) /\ Path(fold, added[i].w) = p
      BY <2>2, <3>2 DEF PathOf
    <3>4. \A j \in 1..i - 1 : Path(fold, added[j].w) # p
      <4>1. SUFFICES ASSUME NEW j \in 1..i - 1, Path(fold, added[j].w) = p PROVE FALSE
        OBVIOUS
      <4>2. j \in E /\ j < i
        BY <2>2, <3>3, <4>1 DEF PathOf
      <4>3. QED
        BY <3>1, <3>2, <4>2
    <3>5. tree.udata[p] = DataFor(fold, added, i)
      BY <2>1, <3>3, <3>4 DEF Holds
    <3> HIDE DEF E
    <3>6. tree.udata[p] =
            IF (\E j \in 1..i - 1 : IsPrefix(p, PathOf(added[j].w)))
               \/ ~PlacedIn(fold, Last(added[i].w)) THEN NULL ELSE added[i].udata
      BY <3>3, <3>5 DEF DataFor, PathOf
    <3>7. MadeItsNode(i) => tree.udata[p] = added[i].udata
      BY <3>3, <3>6 DEF MadeItsNode, PathOf
    <3>8. FirstAddition(p) = i
      BY <3>2, Zenon DEF E, FirstAddition
    <3>9. QED
      BY <3>7, <3>8
  <2>5. QED
    BY <2>3, <2>4, Zenon DEF DataOfFirst
<1>2. Spec => []HeldInv
  BY InitHeld, NextHeld, PTL DEF Spec
<1>3. QED
  BY <1>1, <1>2, PTL

(***************************************************************************)
(* The lookups.                                                            *)
(***************************************************************************)
(* A bounded set of numbers has a last one.                                *)
LEMMA LastOf ==
  ASSUME NEW m \in Nat, NEW R \in SUBSET (0..m), R # {}
  PROVE  Max(R) \in R /\ \A i \in R : i <= Max(R)
<1>1. \E r \in R : \A i \in R : i <= r
  <2> DEFINE E == {m - i : i \in R}
  <2>1. E \in SUBSET Nat
    <3>1. \A i \in 0..m : m - i \in Nat
      OBVIOUS
    <3>2. QED
      BY <3>1
  <2>2. \A i \in R : m - i \in E
    OBVIOUS
  <2>2a. E # {}
    BY <2>2
  <2>3. \A q \in E : q \in Int /\ m - q \in R
    OBVIOUS
  <2> HIDE DEF E
  <2>4. PICK q \in E : \A k \in E : q <= k
    BY <2>1, <2>2a, FirstOf
  <2>5. ASSUME NEW i \in R PROVE i <= m - q
    BY <2>2, <2>3, <2>4
  <2>6. QED
    BY <2>3, <2>4, <2>5
<1>2. QED
  BY <1>1, Zenon DEF Max

LEMMA OnlyNumber ==
  ASSUME NEW n \in Nat
  PROVE  Max({n}) = n /\ Min({n}) = n
<1>1. \A i, j \in {n} : i <= j
  OBVIOUS
<1>2. Max({n}) \in {n} /\ Min({n}) \in {n}
  BY <1>1, Zenon DEF Max, Min
<1>3. QED
  BY <1>2

LEMMA AlnumCases ==
  ASSUME NEW c \in isalnum
  PROVE  /\ c \in 48..57 \/ c \in 65..90 \/ c \in 97..122
         /\ c \in Char /\ c \notin isspace \cup iscntrl \cup ispunct
BY DEF isalnum, isspace, iscntrl, ispunct, Digit, Upper, Lower, Char

(* A letter or digit has a place, the one that a lookup follows.           *)
LEMMA AlnumPlaced ==
  ASSUME NEW f \in BOOLEAN, NEW c \in isalnum
  PROVE  /\ PlacedIn(f, c)
         /\ ~f => word_type(c) = word_weak_type(f, c) /\ word_type(c)[1] # "other"
         /\ f => word_weak_type(f, c) = IF c \in Digit THEN word_type(c)
                                        ELSE <<"lower", Plain(f, c) - 97>>
<1>1. /\ c \in 48..57 \/ c \in 65..90 \/ c \in 97..122
      /\ c \in Int
  BY AlnumCases DEF Char
<1>2. Plain(f, c) = IF f /\ c \in 65..90 THEN c + 32 ELSE c
  BY <1>1 DEF Plain, Upper
<1>3. word_weak_type(f, c) = word_type(Plain(f, c))
  BY <1>1 DEF word_weak_type
<1>4. ASSUME NEW k \in Int
      PROVE  /\ k \in 48..57 => word_type(k) = <<"number", k - 48>>
             /\ k \in 65..90 => word_type(k) = <<"upper", k - 65>>
             /\ k \in 97..122 => word_type(k) = <<"lower", k - 97>>
  BY DEF word_type, Digit, Upper, Lower
<1>5. CASE ~f
  <2>1. word_weak_type(f, c) = word_type(c)
    BY <1>2, <1>3, <1>5
  <2>2. word_type(c)[1] \in {"number", "upper", "lower"}
    BY <1>1, <1>4
  <2>3. QED
    BY <1>5, <2>1, <2>2 DEF PlacedIn, OutOfRange
<1>6. CASE f
  <2>1. CASE c \in 48..57
    <3>1. word_weak_type(f, c) = word_type(c) /\ word_type(c)[1] = "number"
      BY <1>1, <1>2, <1>3, <1>4, <2>1
    <3>2. QED
      BY <1>6, <2>1, <3>1 DEF PlacedIn, OutOfRange, Digit
  <2>2. CASE c \notin 48..57
    <3>1. Plain(f, c) \in 97..122
      BY <1>1, <1>2, <1>6, <2>2
    <3>2. word_weak_type(f, c) = <<"lower", Plain(f, c) - 97>>
      BY <1>3, <1>4, <3>1
    <3>3. PlacedIn(f, c)
      BY <3>2 DEF PlacedIn, OutOfRange
    <3>4. QED
      BY <1>6, <2>2, <3>2, <3>3 DEF Digit
  <2>3. QED
    BY <2>1, <2>2
<1>7. QED
  BY <1>5, <1>6

(* P has a slot for every character of w.                                  *)
Spells(f, w, P) ==
  /\ P \in Seq(Slots) /\ Len(P) = Len(w)
  /\ \A i \in 1..Len(w) : P[i] = word_weak_type(f, w[i])

LEMMA SpelledOut ==
  ASSUME NEW f \in BOOLEAN, NEW w \in Seq(Char), \A i \in 1..Len(w) : w[i] \in isalnum
  PROVE  Spells(f, w, Path(f, w))
<1>1. PICK q : Walk("slots", {}, f, key_head, w, q) /\ Path(f, w) = q[Len(w)]
  BY PathWalk
<1>2. ThroughPrefixes(f, w, q)
  BY <1>1, PathFacts
<1> DEFINE n == Len(w)
           Fine(i) == Len(q[i]) = i /\ \A j \in 1..i : q[i][j] = word_weak_type(f, w[j])
           S == {i \in 0..n : Fine(i)}
<1>3. n \in Nat
  OBVIOUS
<1>4. Fine(0)
  <2>1. q[0] = <<>>
    BY <1>1 DEF Walk, key_head
  <2>2. QED
    BY <2>1
<1>5. ASSUME NEW i \in 1..n, Fine(i - 1) PROVE Fine(i)
  <2>1. PlacedIn(f, w[i])
    BY AlnumPlaced
  <2>2. q[i] = Append(q[i - 1], word_weak_type(f, w[i]))
    BY <1>2, <2>1 DEF ThroughPrefixes
  <2>3. i - 1 \in 0..n
    OBVIOUS
  <2>4. q[i - 1] \in Seq(Slots)
    BY <1>2, <2>3, Zenon DEF ThroughPrefixes
  <2>5. PICK p, s : p \in Seq(Slots) /\ p = q[i - 1] /\ s = word_weak_type(f, w[i])
    BY <2>4
  <2>6. Len(p) = i - 1 /\ \A j \in 1..i - 1 : p[j] = word_weak_type(f, w[j])
    BY <1>5, <2>5
  <2>7. q[i] = Append(p, s)
    BY <2>2, <2>5
  <2>8. Len(q[i]) = i
    BY <2>5, <2>6, <2>7
  <2>9. ASSUME NEW j \in 1..i PROVE q[i][j] = word_weak_type(f, w[j])
    <3>1. CASE j = i
      BY <2>5, <2>6, <2>7, <3>1
    <3>2. CASE j # i
      <4>1. j \in 1..i - 1 /\ j \in 1..Len(p)
        BY <2>6, <3>2
      <4>2. q[i][j] = p[j]
        BY <2>5, <2>7, <4>1
      <4>3. QED
        BY <2>6, <4>1, <4>2
    <3>3. QED
      BY <3>1, <3>2
  <2>10. QED
    BY <2>8, <2>9
<1> HIDE DEF Fine
<1>6. 0 \in S /\ \A i \in 1..n : i - 1 \in S => i \in S
  BY <1>3, <1>4, <1>5
<1> HIDE DEF S
<1>7. 0..n \subseteq S
  BY <1>3, <1>6, UpTo
<1>8. Fine(n) /\ q[n] \in Seq(Slots)
  BY <1>2, <1>3, <1>7 DEF S, ThroughPrefixes
<1>9. QED
  BY <1>1, <1>8 DEF Spells, Fine

(* The slots a lookup follows: those of P, and one that leads nowhere.     *)
Leads(slots, P, n) ==
  /\ slots \in Seq((Kinds \cup {"none"}) \X Int) /\ Len(slots) = n + 1
  /\ \A i \in 1..n : slots[i] = P[i]
  /\ ~(slots[n + 1] \in Slots /\ InList(slots[n + 1]))

(* It may stop after the n characters of the word and not before.          *)
StopsAfter(str, stop, n) == str[n + 1] \in stop /\ \A i \in 1..n : str[i] \notin stop

(* A lookup that follows all slots of a word finds it and no other.        *)
LEMMA LookupFinds ==
  ASSUME SoundTree(tree.udata, tree.end_of_word, tree.nb_keys),
         NEW n \in Nat, n # 0, NEW P \in Seq(Slots), Len(P) = n,
         NEW slots, Leads(slots, P, n), NEW str, NEW stop, StopsAfter(str, stop, n)
  PROVE  WordsIn(str, slots, stop) = IF P \in tree.end_of_word THEN {n} ELSE {}
<1> DEFINE R == {i \in 0..n + 1 : SubSeq(slots, 1, i) \in Nodes \cup {key_head}}
           m == Max(R)
<1>1. /\ slots \in Seq((Kinds \cup {"none"}) \X Int) /\ Len(slots) = n + 1
      /\ \A i \in 1..n : slots[i] = P[i]
  BY DEF Leads
<1>2. Reached(slots) = m
  BY <1>1 DEF Reached
<1>3. 0 \in R
  <2>1. SubSeq(slots, 1, 0) = <<>>
    BY <1>1
  <2>2. QED
    BY <2>1 DEF key_head
<1>4. n + 1 \notin R
  <2>1. SubSeq(slots, 1, n + 1) = slots
    BY <1>1
  <2>2. slots # key_head
    BY <1>1 DEF key_head
  <2>3. SUFFICES ASSUME slots \in Nodes PROVE FALSE
    BY <2>1, <2>2
  <2>4. slots \in Seq(Slots) /\ InList(Last(slots))
    BY <2>3, Zenon DEF SoundTree, Nodes
  <2>5. Last(slots) = slots[n + 1] /\ slots[n + 1] \in Slots
    BY <1>1, <2>4 DEF Last
  <2>6. QED
    BY <2>4, <2>5 DEF Leads
<1>5. SubSeq(slots, 1, n) = P
  <2>1. SubSeq(slots, 1, n) = [i \in 1..n |-> slots[i]]
    BY <1>1
  <2>2. P = [i \in 1..n |-> P[i]]
    OBVIOUS
  <2>3. QED
    BY <1>1, <2>1, <2>2
<1>6. P \in Nodes => n \in R
  <2>1. n \in 0..n + 1
    OBVIOUS
  <2>2. QED
    BY <1>5, <2>1
<1>7. R \in SUBSET (0..n)
  BY <1>4
<1> HIDE DEF R
<1>8. m \in 0..n /\ (P \in Nodes => m = n)
  <2>1. m \in R /\ \A i \in R : i <= m
    BY <1>3, <1>7, LastOf
  <2> HIDE DEF m
  <2>2. m \in 0..n
    BY <1>7, <2>1
  <2>3. QED
    BY <1>6, <2>1, <2>2
<1> HIDE DEF m
<1>9. ASSUME NEW i \in 1..m, str[i + 1] \in stop PROVE i = n
  <2>1. i + 1 \in 1..n \/ i = n
    BY <1>8
  <2>2. QED
    BY <1>9, <2>1 DEF StopsAfter
<1>10. WordsIn(str, slots, stop) =
         {i \in 1..m : SubSeq(slots, 1, i) \in tree.end_of_word /\ str[i + 1] \in stop}
  BY <1>2 DEF WordsIn
<1>11. tree.end_of_word \subseteq Nodes
  BY DEF SoundTree, Nodes
<1>12. CASE P \in tree.end_of_word
  <2>1. n \in 1..m
    BY <1>8, <1>11, <1>12
  <2>2. n \in WordsIn(str, slots, stop)
    BY <1>5, <1>10, <1>12, <2>1 DEF StopsAfter
  <2>3. QED
    BY <1>9, <1>10, <1>12, <2>2
<1>13. CASE P \notin tree.end_of_word
  <2>1. ASSUME NEW i \in WordsIn(str, slots, stop) PROVE FALSE
    <3>1. i \in 1..m /\ SubSeq(slots, 1, i) \in tree.end_of_word /\ str[i + 1] \in stop
      BY <1>10, <2>1
    <3>2. i = n
      BY <1>9, <3>1
    <3>3. QED
      BY <1>5, <1>13, <3>1, <3>2
  <2>2. QED
    BY <1>13, <2>1
<1>14. QED
  BY <1>12, <1>13

(* A word of letters and digits, as it is looked up.                       *)
Spelt(w, str) ==
  /\ w \in Seq(Char) /\ w # <<>> /\ \A i \in 1..Len(w) : w[i] \in isalnum
  /\ str = Append(w, 0)

LEMMA StringFacts ==
  ASSUME NEW w, NEW str, Spelt(w, str)
  PROVE  /\ str \in Seq(Char) /\ DOMAIN str = 1..Len(w) + 1 /\ Len(w) \in Nat /\ Len(w) # 0
         /\ \A i \in 1..Len(w) : str[i] = w[i] /\ str[i] \in isalnum
         /\ str[Len(w) + 1] = 0
BY DEF Spelt, Char

LEMMA StringStops ==
  ASSUME NEW w, NEW str, Spelt(w, str),
         NEW stop, stop \in {isspace \cup iscntrl \cup ispunct, isspace \cup iscntrl,
                             (0..255) \ isalnum}
  PROVE  StopsAfter(str, stop, Len(w))
<1>1. \A i \in 1..Len(w) : str[i] \in isalnum
  BY StringFacts
<1>2. str[Len(w) + 1] = 0
  BY StringFacts
<1>3. 0 \in stop
  BY DEF iscntrl, isalnum, Digit, Upper, Lower
<1>4. \A c \in isalnum : c \notin stop
  BY AlnumCases
<1>5. QED
  BY <1>1, <1>2, <1>3, <1>4 DEF StopsAfter

(* The slots of a string, if those of the characters and of the 0 are.     *)
LEMMA StringLeads ==
  ASSUME NEW f, NEW w, NEW str, Spelt(w, str), NEW P, Spells(f, w, P),
         NEW slots, DOMAIN slots = DOMAIN str, slots = [i \in DOMAIN str |-> slots[i]],
         \A i \in 1..Len(w) : slots[i] = word_weak_type(f, w[i]),
         slots[Len(w) + 1] \in {<<"none", 0>>, <<"other", -33>>, <<"lower", -97>>}
  PROVE  Leads(slots, P, Len(w))
<1>1. DOMAIN str = 1..Len(w) + 1 /\ Len(w) \in Nat
  BY StringFacts
<1>2. P \in Seq(Slots) /\ Len(P) = Len(w) /\ \A i \in 1..Len(w) : slots[i] = P[i]
  BY DEF Spells
<1> DEFINE T == (Kinds \cup {"none"}) \X Int
<1>3. ASSUME NEW i \in DOMAIN str PROVE slots[i] \in T
  <2>1. CASE i = Len(w) + 1
    BY <2>1 DEF Kinds
  <2>2. CASE i # Len(w) + 1
    <3>1. i \in 1..Len(w) /\ i \in 1..Len(P)
      BY <1>1, <1>2, <2>2
    <3>2. slots[i] = P[i]
      BY <1>2, <3>1
    <3>3. P[i] \in Slots
      BY <1>2, <3>1
    <3>4. QED
      BY <3>2, <3>3 DEF Slots, T
  <2>3. QED
    BY <2>1, <2>2
<1> HIDE DEF T
<1>4. slots \in Seq(T) /\ Len(slots) = Len(w) + 1
  BY <1>1, <1>3
<1>5. ~(slots[Len(w) + 1] \in Slots /\ InList(slots[Len(w) + 1]))
  BY DEF Slots, Kinds, InList, Size
<1>6. QED
  BY <1>2, <1>4, <1>5 DEF Leads, T

LEMMA PlainlyLeads ==
  ASSUME NEW w, NEW str, Spelt(w, str), NEW P, Spells(FALSE, w, P)
  PROVE  Leads(Plainly(str), P, Len(w)) /\ Leads(AllSlots(str), P, Len(w))
<1>1. DOMAIN str = 1..Len(w) + 1 /\ Len(w) \in Nat
  BY StringFacts
<1>2. word_type(0) = <<"other", -33>>
  BY DEF word_type, Digit, Upper, Lower
<1>3. ASSUME NEW i \in 1..Len(w)
      PROVE  Plainly(str)[i] = word_weak_type(FALSE, w[i]) /\ AllSlots(str)[i] = word_weak_type(FALSE, w[i])
  <2>1. str[i] = w[i] /\ w[i] \in isalnum /\ i \in DOMAIN str
    BY <1>1, StringFacts
  <2>2. word_type(w[i]) = word_weak_type(FALSE, w[i]) /\ word_type(w[i])[1] # "other"
    BY <2>1, AlnumPlaced
  <2>3. QED
    BY <2>1, <2>2 DEF Plainly, AllSlots
<1>4. Len(w) + 1 \in DOMAIN str /\ str[Len(w) + 1] = 0
  BY <1>1, StringFacts
<1>5. Plainly(str)[Len(w) + 1] = <<"none", 0>>
  BY <1>2, <1>4 DEF Plainly
<1>6. AllSlots(str)[Len(w) + 1] = <<"other", -33>>
  BY <1>2, <1>4 DEF AllSlots
<1>7. /\ DOMAIN Plainly(str) = DOMAIN str /\ DOMAIN AllSlots(str) = DOMAIN str
      /\ Plainly(str) = [i \in DOMAIN str |-> Plainly(str)[i]]
      /\ AllSlots(str) = [i \in DOMAIN str |-> AllSlots(str)[i]]
  BY DEF Plainly, AllSlots
<1>8. PICK a, b : a = Plainly(str) /\ b = AllSlots(str)
  OBVIOUS
<1>9. Leads(a, P, Len(w))
  BY <1>3, <1>5, <1>7, <1>8, StringLeads
<1>10. Leads(b, P, Len(w))
  BY <1>3, <1>6, <1>7, <1>8, StringLeads
<1>11. QED
  BY <1>8, <1>9, <1>10

LEMMA LoweredLeads ==
  ASSUME fold = TRUE, NEW w, NEW str, Spelt(w, str), NEW P, Spells(TRUE, w, P)
  PROVE  Leads(Lowered(str), P, Len(w))
<1>1. DOMAIN str = 1..Len(w) + 1 /\ Len(w) \in Nat
  BY StringFacts
<1>2. ASSUME NEW i \in 1..Len(w) PROVE Lowered(str)[i] = word_weak_type(TRUE, w[i])
  <2>1. str[i] = w[i] /\ w[i] \in isalnum /\ i \in DOMAIN str
    BY <1>1, StringFacts
  <2>2. word_weak_type(TRUE, w[i]) = IF w[i] \in Digit THEN word_type(w[i])
                                     ELSE <<"lower", Plain(TRUE, w[i]) - 97>>
    BY <2>1, AlnumPlaced
  <2>3. QED
    BY <2>1, <2>2 DEF Lowered
<1>3. Len(w) + 1 \in DOMAIN str /\ str[Len(w) + 1] = 0
  BY <1>1, StringFacts
<1>4. Plain(fold, 0) = 0 /\ 0 \notin Digit
  BY DEF Plain, Upper, Digit
<1>5. Lowered(str)[Len(w) + 1] = <<"lower", -97>>
  <2>1. Lowered(str)[Len(w) + 1] = <<"lower", Plain(fold, 0) - 97>>
    BY <1>3, <1>4, Zenon DEF Lowered
  <2>2. 0 - 97 = -97
    OBVIOUS
  <2>3. QED
    BY <1>4, <2>1, <2>2, Zenon
<1>6. DOMAIN Lowered(str) = DOMAIN str /\ Lowered(str) = [i \in DOMAIN str |-> Lowered(str)[i]]
  BY DEF Lowered
<1>7. PICK a : a = Lowered(str)
  OBVIOUS
<1>8. Leads(a, P, Len(w))
  BY <1>2, <1>5, <1>6, <1>7, StringLeads
<1>9. QED
  BY <1>7, <1>8

LEMMA WordSpelt ==
  ASSUME NEW w \in {v \in Words : Alphanumeric(v)}
  PROVE  Spelt(w, Append(w, 0))
<1>1. PICK e \in Elems : w = e.w
  BY DEF Words
<1>2. w \in Seq(Char) /\ w # <<>>
  BY <1>1, ElemsAssumption DEF IsElem, Words, Char
<1>3. ASSUME NEW i \in 1..Len(w) PROVE w[i] \in isalnum
  <2>1. i \in DOMAIN w
    BY <1>2
  <2>2. w[i] \in Range(w)
    BY <2>1 DEF Range
  <2>3. QED
    BY <2>2 DEF Alphanumeric
<1>4. QED
  BY <1>2, <1>3 DEF Spelt

(* What each lookup answers for the word of str, whose path is P.          *)
LEMMA LookupAnswers ==
  ASSUME KeyTreeInv, NEW w, NEW str, Spelt(w, str), NEW P, Spells(fold, w, P)
  PROVE  LET there == P \in tree.end_of_word
             found == IF there THEN "W_NO_ERROR" ELSE "W_E_OPERATION_FAILED"
         IN  IF fold THEN wg_keytree_weakcmp(str) = found
             ELSE /\ wg_keytree_keyget(str) = <<found, IF there THEN tree.udata[P] ELSE NULL>>
                  /\ wg_keytree_strcmp(str) = found
                  /\ wg_keytree_strcmp_isalnum(str) = IF there THEN Len(w) ELSE -1
<1> DEFINE n == Len(w)
           there == P \in tree.end_of_word
           blank == isspace \cup iscntrl
           punct == isspace \cup iscntrl \cup ispunct
           rest == (0..255) \ isalnum
<1>1. n \in Nat /\ n # 0
  BY StringFacts
<1>2. P \in Seq(Slots) /\ Len(P) = n
  BY DEF Spells
<1>3. SoundTree(tree.udata, tree.end_of_word, tree.nb_keys)
  BY DEF KeyTreeInv
<1>4. StopsAfter(str, blank, n) /\ StopsAfter(str, punct, n) /\ StopsAfter(str, rest, n)
  BY StringStops
<1>5. Max({n}) = n /\ Min({n}) = n
  BY <1>1, OnlyNumber
<1> HIDE DEF n, blank, punct, rest
<1>6. ASSUME NEW slots, Leads(slots, P, n), NEW stop, StopsAfter(str, stop, n)
      PROVE  WordsIn(str, slots, stop) = IF there THEN {n} ELSE {}
  BY <1>1, <1>2, <1>3, <1>6, LookupFinds
<1>7. CASE fold
  <2>1. fold = TRUE
    BY <1>7 DEF KeyTreeInv
  <2>2. Leads(Lowered(str), P, n)
    BY <2>1, LoweredLeads DEF n
  <2>3. WordsIn(str, Lowered(str), blank) = IF there THEN {n} ELSE {}
    BY <1>4, <1>6, <2>2
  <2>4. QED
    BY <1>7, <2>3 DEF wg_keytree_weakcmp, blank
<1>8. CASE ~fold
  <2>1. fold = FALSE
    BY <1>8 DEF KeyTreeInv
  <2>2. Leads(Plainly(str), P, n) /\ Leads(AllSlots(str), P, n)
    BY <2>1, PlainlyLeads DEF n
  <2>3. /\ WordsIn(str, Plainly(str), blank) = IF there THEN {n} ELSE {}
        /\ WordsIn(str, Plainly(str), punct) = IF there THEN {n} ELSE {}
        /\ WordsIn(str, AllSlots(str), rest) = IF there THEN {n} ELSE {}
    BY <1>4, <1>6, <2>2
  <2>4. wg_keytree_strcmp(str) = IF there THEN "W_NO_ERROR" ELSE "W_E_OPERATION_FAILED"
    BY <2>3 DEF wg_keytree_strcmp, blank
  <2>5. wg_keytree_strcmp_isalnum(str) = IF there THEN n ELSE -1
    BY <1>5, <2>3 DEF wg_keytree_strcmp_isalnum, rest
  <2>6. SubSeq(Plainly(str), 1, n) = P
    <3>1. PICK s : s = Plainly(str) /\ Leads(s, P, n)
      BY <2>2
    <3>2. SubSeq(s, 1, n) = [i \in 1..n |-> s[i]]
      BY <1>1, <3>1 DEF Leads
    <3>3. P = [i \in 1..n |-> P[i]]
      BY <1>2
    <3>4. \A i \in 1..n : s[i] = P[i]
      BY <3>1 DEF Leads
    <3>5. QED
      BY <3>1, <3>2, <3>3, <3>4
  <2>7. wg_keytree_keyget(str) = IF there THEN <<"W_NO_ERROR", tree.udata[P]>>
                                 ELSE <<"W_E_OPERATION_FAILED", NULL>>
    BY <1>5, <2>3, <2>6 DEF wg_keytree_keyget, punct
  <2>8. QED
    BY <1>8, <2>4, <2>5, <2>7 DEF n
<1>9. QED
  BY <1>7, <1>8

(* What the lookups answer, in terms of what was added.                    *)
LEMMA AddedAnswers ==
  ASSUME HeldInv, Intact, NEW w \in {v \in Words : Alphanumeric(v)},
         NEW str, str = Append(w, 0)
  PROVE  LET found == IF IsAdded(w) THEN "W_NO_ERROR" ELSE "W_E_OPERATION_FAILED"
         IN  IF fold THEN wg_keytree_weakcmp(str) = found
             ELSE /\ wg_keytree_keyget(str) =
                       <<found, IF IsAdded(w) THEN tree.udata[PathOf(w)] ELSE NULL>>
                  /\ wg_keytree_strcmp(str) = found
                  /\ wg_keytree_strcmp_isalnum(str) = IF IsAdded(w) THEN Len(w) ELSE -1
<1>1. Spelt(w, str)
  BY WordSpelt
<1>2. Spells(fold, w, PathOf(w))
  BY <1>1, SpelledOut DEF Spelt, PathOf, HeldInv, KeyTreeInv
<1>3. Holds(fold, tree.udata, tree.end_of_word, added, Len(added)) /\ DOMAIN added = 1..Len(added)
  BY DEF HeldInv
<1>4. IsAdded(w) <=> PathOf(w) \in tree.end_of_word
  BY <1>3 DEF IsAdded, PathOf, Holds
<1>5. PICK P : P = PathOf(w)
  OBVIOUS
<1>6. KeyTreeInv /\ Spells(fold, w, P) /\ (IsAdded(w) <=> P \in tree.end_of_word)
  BY <1>2, <1>4, <1>5 DEF HeldInv
<1>7. LET there == P \in tree.end_of_word
          found == IF there THEN "W_NO_ERROR" ELSE "W_E_OPERATION_FAILED"
      IN  IF fold THEN wg_keytree_weakcmp(str) = found
          ELSE /\ wg_keytree_keyget(str) = <<found, IF there THEN tree.udata[P] ELSE NULL>>
               /\ wg_keytree_strcmp(str) = found
               /\ wg_keytree_strcmp_isalnum(str) = IF there THEN Len(w) ELSE -1
  BY <1>1, <1>6, LookupAnswers
<1>8. QED
  BY <1>5, <1>6, <1>7

(* Of words of letters and digits, strcmp and keyget find those that were  *)
(* added, keyget with the data of the node, and no others, as long as      *)
(* memory does not run out: a word that begins or continues one that was   *)
(* added is told from it.                                                  *)
LEMMA ExactLookupsRight ==
  ASSUME HeldInv PROVE ExactLookupsAgree
<1>1. SUFFICES ASSUME Intact, ~fold, NEW w \in {v \in Words : Alphanumeric(v)}
      PROVE  LET str == Append(w, 0)
                 got == wg_keytree_keyget(str)
             IN  /\ (wg_keytree_strcmp(str) = "W_NO_ERROR") <=> IsAdded(w)
                 /\ (got[1] = "W_NO_ERROR") <=> IsAdded(w)
                 /\ IsAdded(w) => got[2] = tree.udata[PathOf(w)]
  BY DEF ExactLookupsAgree
<1>2. PICK str : str = Append(w, 0)
  OBVIOUS
<1>3. LET found == IF IsAdded(w) THEN "W_NO_ERROR" ELSE "W_E_OPERATION_FAILED"
      IN  /\ wg_keytree_keyget(str) =
               <<found, IF IsAdded(w) THEN tree.udata[PathOf(w)] ELSE NULL>>
          /\ wg_keytree_strcmp(str) = found
  BY <1>1, <1>2, AddedAnswers
<1>4. QED
  BY <1>2, <1>3

(* So do weakcmp and strcmp_isalnum, of the words whose search reads no    *)
(* array out of its bounds.                                                *)
LEMMA WeakLookupsRight ==
  ASSUME HeldInv PROVE WeakLookupsAgree
<1>1. SUFFICES ASSUME Intact, NEW w \in {v \in Words : Alphanumeric(v)}
      PROVE  LET str == Append(w, 0)
             IN  /\ fold /\ ~ReadsOutside(Lowered(str)) =>
                      ((wg_keytree_weakcmp(str) = "W_NO_ERROR") <=> IsAdded(w))
                 /\ ~fold /\ ~ReadsOutside(AllSlots(str)) =>
                      wg_keytree_strcmp_isalnum(str) = IF IsAdded(w) THEN Len(w) ELSE -1
  BY DEF WeakLookupsAgree
<1>2. PICK str : str = Append(w, 0)
  OBVIOUS
<1>3. /\ fold => wg_keytree_weakcmp(str) =
                   IF IsAdded(w) THEN "W_NO_ERROR" ELSE "W_E_OPERATION_FAILED"
      /\ ~fold => wg_keytree_strcmp_isalnum(str) = IF IsAdded(w) THEN Len(w) ELSE -1
  BY <1>1, <1>2, AddedAnswers
<1>4. QED
  BY <1>2, <1>3

(* Whatever is added, and whatever else is in the tree, the lookups tell   *)
(* the words that were added from all others, but for searches that read   *)
(* outside of a list.                                                      *)
THEOREM LookupsRight == Spec => []LookupsAgree
<1>1. HeldInv => LookupsAgree
  BY ExactLookupsRight, WeakLookupsRight DEF LookupsAgree
<1>2. Spec => []HeldInv
  BY InitHeld, NextHeld, PTL DEF Spec
<1>3. QED
  BY <1>1, <1>2, PTL
==============================================================================

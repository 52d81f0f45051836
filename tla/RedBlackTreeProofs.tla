-------------------------- MODULE RedBlackTreeProofs --------------------------
(***************************************************************************)
(* Proofs about the red-black tree, for any set of nodes and of keys.      *)
(*                                                                         *)
(* The invariant RbtInv says of the tree between any two steps that it has *)
(* a shape (links that agree, and ranks that grow upwards, so that no path *)
(* is a circle), that there are heights for all of its nodes which count   *)
(* the blacks below but for the one that a deletion owes, and that red     *)
(* pairs are only next to x.  What is proved is first about trees: what a  *)
(* rotation, a new leaf or a cut does to them; then the steps of each call *)
(* are put together from that.                                             *)
(***************************************************************************)
EXTENDS RedBlackTree, TLAPS, WellFoundedInduction, SequenceTheorems, FiniteSetTheorems

Tree == [left : [All -> Nodes \cup {nil}], right : [All -> Nodes \cup {nil}],
         parent : [All -> All], red : [All -> BOOLEAN], key : [All -> Int]]

(***************************************************************************)
(* The shape of a tree t with the nodes L.                                 *)
(***************************************************************************)
(* Whatever a node in L has below it has the node for its parent.          *)
Wired(t, L) ==
  /\ t.right[root] = nil
  /\ \A n \in L :
       /\ t.parent[n] \in L \cup {root}
       /\ \E s \in Sides : t[s][t.parent[n]] = n /\ t[Other(s)][t.parent[n]] # n
  /\ \A n \in L \cup {root}, s \in Sides :
       t[s][n] # nil => t[s][n] \in L /\ t.parent[t[s][n]] = n

(* The numbers e grow towards the root: there is no way round in a circle. *)
Ranked(t, L, e) ==
  /\ e \in [All -> Nat]
  /\ \A n \in L : e[n] < e[t.parent[n]] /\ e[n] < e[root]

(* The black nodes on every way down from n are h[n] in number, if one is  *)
(* counted on side a of p that is not there.                               *)
Weight(t, n) == IF t.red[n] THEN 0 ELSE 1
Owed(n, s, p, a) == IF n = p /\ s = a THEN 1 ELSE 0
Heights(t, L, h, p, a) ==
  /\ h \in [All -> Nat] /\ h[nil] = 0
  /\ \A n \in L, s \in Sides : h[n] = h[t[s][n]] + Weight(t, n) + Owed(n, s, p, a)

Shaped(t, L) == t \in Tree /\ Wired(t, L) /\ \E e : Ranked(t, L, e)
Balanced(t, L, p, a) == \E h : Heights(t, L, h, p, a)

(***************************************************************************)
(* Changing the links.                                                     *)
(***************************************************************************)
(* Relink changes the one link of p that leads to old.                     *)
LEMMA RelinkEffect ==
  ASSUME NEW t \in Tree, NEW p \in All, NEW a \in Sides, NEW old,
         NEW new \in Nodes \cup {nil}, t[a][p] = old, t[Other(a)][p] # old
  PROVE  LET u == Relink(t, p, old, new)
         IN  /\ u \in Tree
             /\ u.parent = t.parent /\ u.red = t.red /\ u.key = t.key
             /\ u[a] = [t[a] EXCEPT ![p] = new]
             /\ u[Other(a)] = t[Other(a)]
BY DEF Tree, Relink, Sides, Other

(* u is t after a rotation that takes n down to side a.                    *)
Turned(t, u, a, s, n, m) ==
  /\ u \in Tree /\ u.red = t.red /\ u.key = t.key
  /\ \A q \in All : u.parent[q] =
       IF q = n THEN m ELSE IF q = m THEN t.parent[n]
       ELSE IF q = t[a][m] /\ t[a][m] # nil THEN n ELSE t.parent[q]
  /\ \A q \in All, d \in Sides : u[d][q] =
       IF q = n /\ d = Other(a) THEN t[a][m]
       ELSE IF q = m /\ d = a THEN n
       ELSE IF q = t.parent[n] /\ d = s THEN m ELSE t[d][q]

(* What a rotation does to each link.                                      *)
LEMMA RotateEffect ==
  ASSUME NEW t \in Tree, NEW a \in Sides, NEW n \in Nodes, NEW m \in Nodes,
         m = t[Other(a)][n], m # n, t.parent[n] # n, t.parent[n] # m,
         NEW s \in Sides, t[s][t.parent[n]] = n, t[Other(s)][t.parent[n]] # n
  PROVE  Turned(t, Rotate(t, a, n), a, s, n, m)
<1> DEFINE b == Other(a)
           c == t[a][m]
           p == t.parent[n]
           u == [t EXCEPT ![b][n] = c,
                          !.parent[c] = IF c = nil THEN @ ELSE n,
                          !.parent[m] = t.parent[n]]
           v == Relink(u, p, n, m)
           w == [v EXCEPT ![a][m] = n, !.parent[n] = m]
<1>0. /\ b \in Sides /\ b # a /\ c \in Nodes \cup {nil} /\ p \in All
      /\ Nodes \subseteq All /\ nil \in All
      /\ c \in All /\ n \in All /\ m \in All
  BY DEF Tree, Sides, Other, All
<1>1. /\ u \in Tree /\ u.red = t.red /\ u.key = t.key
      /\ u[a] = t[a] /\ u[b] = [t[b] EXCEPT ![n] = c]
      /\ u.parent = [[t.parent EXCEPT ![c] = IF c = nil THEN t.parent[c] ELSE n]
                     EXCEPT ![m] = p]
  <2> DEFINE k == IF c = nil THEN t.parent[c] ELSE n
             u1 == [t EXCEPT ![b][n] = c]
             u2 == [u1 EXCEPT !.parent[c] = k]
             u3 == [u2 EXCEPT !.parent[m] = p]
  <2>0. k \in All
    BY <1>0 DEF Tree
  <2>1. /\ u1 \in Tree /\ u1.red = t.red /\ u1.key = t.key
        /\ u1[a] = t[a] /\ u1[b] = [t[b] EXCEPT ![n] = c] /\ u1.parent = t.parent
    <3>1. CASE a = "left"
      BY <1>0, <3>1 DEF Tree, Other
    <3>2. CASE a = "right"
      BY SMTT(30), <1>0, <3>2 DEF Tree, Other
    <3>3. QED
      BY <3>1, <3>2 DEF Sides
  <2> HIDE DEF u1, k
  <2>2. /\ u2 \in Tree /\ u2.red = t.red /\ u2.key = t.key
        /\ u2[a] = u1[a] /\ u2[b] = u1[b] /\ u2.parent = [t.parent EXCEPT ![c] = k]
    BY <1>0, <2>0, <2>1 DEF Tree, Sides
  <2> HIDE DEF u2
  <2>3. /\ u3 \in Tree /\ u3.red = t.red /\ u3.key = t.key
        /\ u3[a] = u2[a] /\ u3[b] = u2[b] /\ u3.parent = [u2.parent EXCEPT ![m] = p]
    BY <1>0, <2>2 DEF Tree, Sides
  <2>4. u = u3
    BY DEF u1, u2, u3, k
  <2> HIDE DEF u3
  <2>5. QED
    BY <2>1, <2>2, <2>3, <2>4, Zenon DEF k
<1> HIDE DEF u
<1>2. u[s][p] = n /\ u[Other(s)][p] # n
  BY SMTT(30), <1>0, <1>1 DEF Sides, Other, Tree
<1>3. /\ v \in Tree /\ v.red = t.red /\ v.key = t.key /\ v.parent = u.parent
      /\ v[s] = [u[s] EXCEPT ![p] = m] /\ v[Other(s)] = u[Other(s)]
  <2>1. m \in Nodes \cup {nil}
    OBVIOUS
  <2>2. QED
    BY SMTT(30), <1>0, <1>1, <1>2, <2>1, RelinkEffect
<1> HIDE DEF v
<1>4. /\ w \in Tree /\ w.red = v.red /\ w.key = v.key
      /\ w[a] = [v[a] EXCEPT ![m] = n] /\ w[b] = v[b]
      /\ w.parent = [v.parent EXCEPT ![n] = m]
  <2>1. CASE a = "left"
    BY <1>0, <1>3, <2>1, ZenonT(40) DEF Tree, Other
  <2>2. CASE a = "right"
    BY <1>0, <1>3, <2>2, ZenonT(40) DEF Tree, Other
  <2>3. QED
    BY <2>1, <2>2, Zenon DEF Sides
<1>5. Rotate(t, a, n) = w
  BY SMTT(30) DEF Rotate, u, v
<1> HIDE DEF w
<1>6. \A q \in All : w.parent[q] =
        IF q = n THEN m ELSE IF q = m THEN p
        ELSE IF q = c /\ c # nil THEN n ELSE t.parent[q]
  <2>1. w.parent = [u.parent EXCEPT ![n] = m]
    BY <1>3, <1>4
  <2>2. t.parent \in [All -> All]
    BY DEF Tree
  <2> DEFINE up == [t.parent EXCEPT ![c] = IF c = nil THEN t.parent[c] ELSE n]
  <2>2a. /\ up \in [All -> All]
         /\ \A q \in All : up[q] = IF q = c /\ c # nil THEN n ELSE t.parent[q]
    BY <1>0, <2>2
  <2>2b. u.parent = [up EXCEPT ![m] = p]
    BY <1>1
  <2> HIDE DEF up
  <2>3. /\ u.parent \in [All -> All]
        /\ \A q \in All : u.parent[q] = IF q = m THEN p
             ELSE IF q = c /\ c # nil THEN n ELSE t.parent[q]
    BY <1>0, <2>2a, <2>2b
  <2>4. QED
    BY <1>0, <2>1, <2>3
<1>7. \A q \in All, d \in Sides : w[d][q] =
        IF q = n /\ d = Other(a) THEN c
        ELSE IF q = m /\ d = a THEN n
        ELSE IF q = p /\ d = s THEN m ELSE t[d][q]
  <2>0. \A s0 \in Tree, d \in Sides : DOMAIN s0[d] = All
    BY <1>0 DEF Tree, Sides
  <2>1. u \in Tree /\ v \in Tree
    BY <1>1, <1>3
  <2>2. \A d \in Sides : (d = a \/ d = b) /\ (d = s \/ d = Other(s))
    BY DEF Sides, Other
  <2>3. \A q \in All, d \in Sides : u[d][q] = IF q = n /\ d = b THEN c ELSE t[d][q]
    BY <1>0, <1>1, <2>0, <2>2
  <2>4. \A q \in All, d \in Sides : v[d][q] = IF q = p /\ d = s THEN m ELSE u[d][q]
    <3>1. s # Other(s)
      BY DEF Sides, Other
    <3>2. v[s] = [u[s] EXCEPT ![p] = m] /\ v[Other(s)] = u[Other(s)]
      BY <1>3
    <3>3. QED
      BY <1>0, <2>0, <2>1, <2>2, <3>1, <3>2
  <2>5. \A q \in All, d \in Sides : w[d][q] = IF q = m /\ d = a THEN n ELSE v[d][q]
    BY <1>0, <1>4, <2>0, <2>1, <2>2
  <2>6. QED
    BY <2>3, <2>4, <2>5
<1>8. Turned(t, w, a, s, n, m)
  BY <1>1, <1>3, <1>4, <1>6, <1>7, Zenon DEF Turned
<1>9. QED
  BY <1>5, <1>8

(* Every node has a place of its own, and none is its own grandchild.      *)
LEMMA WiredFacts ==
  ASSUME NEW t, NEW L \in SUBSET Nodes, Shaped(t, L)
  PROVE  /\ L \subseteq All /\ nil \in All /\ root \in All
         /\ nil \notin L /\ root \notin L /\ nil # root
         /\ \A n \in L : t.parent[n] # n /\ t.parent[n] \in All
         /\ \A n \in L \cup {root}, s \in Sides :
              /\ t[s][n] # n /\ t[s][n] \in L \cup {nil}
              /\ t[s][n] \in L => t.parent[n] # t[s][n] \/ n = root
         /\ \A n, q \in L \cup {root}, s, d \in Sides :
              t[s][n] # nil /\ t[s][n] = t[d][q] => n = q /\ s = d
<1>1. PICK e : Ranked(t, L, e)
  BY DEF Shaped
<1>2. /\ L \subseteq All /\ nil \in All /\ root \in All
      /\ nil \notin L /\ root \notin L /\ nil # root
  BY NodesAssumption DEF All
<1>3. \A n \in L : t.parent[n] # n /\ t.parent[n] \in All
  BY <1>1, <1>2 DEF Ranked, Shaped, Tree
<1>4. \A n \in L \cup {root}, s \in Sides :
        /\ t[s][n] # n /\ t[s][n] \in L \cup {nil}
        /\ t[s][n] \in L => t.parent[n] # t[s][n] \/ n = root
  <2>1. \A n \in L \cup {root}, s \in Sides : t[s][n] \in L \cup {nil}
    BY DEF Shaped, Wired
  <2>2. \A n \in L \cup {root}, s \in Sides :
          t[s][n] \in L => t.parent[t[s][n]] = n /\ e[t[s][n]] < e[n]
    BY <1>1, <1>2 DEF Shaped, Wired, Ranked
  <2>3. \A n \in L : e[n] < e[t.parent[n]] /\ e[n] \in Nat /\ e[t.parent[n]] \in Nat
    BY <1>1, <1>2, <1>3 DEF Ranked
  <2>4. QED
    BY <1>2, <1>3, <2>1, <2>2, <2>3
<1>5. \A n, q \in L \cup {root}, s, d \in Sides :
        t[s][n] # nil /\ t[s][n] = t[d][q] => n = q /\ s = d
  <2> SUFFICES ASSUME NEW n \in L \cup {root}, NEW q \in L \cup {root},
                      NEW s \in Sides, NEW d \in Sides,
                      t[s][n] # nil, t[s][n] = t[d][q]
               PROVE  n = q /\ s = d
    OBVIOUS
  <2>1. n = q /\ t[s][n] \in L /\ t.parent[t[s][n]] = n
    BY DEF Shaped, Wired
  <2>2. PICK r \in Sides : t[r][n] = t[s][n] /\ t[Other(r)][n] # t[s][n]
    BY <2>1 DEF Shaped, Wired
  <2>3. s = r /\ d = r
    BY <2>1, <2>2 DEF Sides, Other
  <2>4. QED
    BY <2>1, <2>3
<1>6. QED
  BY <1>2, <1>3, <1>4, <1>5

(* What a rotation of a tree keeps: each link is where it was, but for     *)
(* those between n, the node m that comes up, what is above and between.   *)
Rotated(t, u, L, a, n, m) ==
  /\ u.red = t.red /\ u.key = t.key
  /\ \A q \in L \cup {root}, d \in Sides : u[d][q] =
       IF q = n THEN IF d = a THEN t[a][n] ELSE t[a][m]
       ELSE IF q = m THEN IF d = a THEN n ELSE t[d][m]
       ELSE IF t[d][q] = n THEN m ELSE t[d][q]
  /\ \A q \in Nodes \ L, d \in Sides : u[d][q] = t[d][q]
  /\ \A q \in L : u.parent[q] =
       IF q = n THEN m ELSE IF q = m THEN t.parent[n]
       ELSE IF q = t[a][m] THEN n ELSE t.parent[q]
  /\ u.parent[nil] = t.parent[nil]

(* A rotation keeps the shape of the tree.                                 *)
LEMMA RotateKeeps ==
  ASSUME NEW t, NEW L \in SUBSET Nodes, Shaped(t, L), NEW a \in Sides,
         NEW n \in L, NEW m \in L, m = t[Other(a)][n]
  PROVE  Shaped(Rotate(t, a, n), L) /\ Rotated(t, Rotate(t, a, n), L, a, n, m)
<1> DEFINE u == Rotate(t, a, n)
           p == t.parent[n]
           c == t[a][m]
<1>1. /\ L \subseteq All /\ nil \in All /\ root \in All
      /\ nil \notin L /\ root \notin L /\ nil # root
      /\ p # n /\ p \in L \cup {root} /\ p \in All
      /\ m # n /\ p # m /\ c \in L \cup {nil} /\ c # m /\ c # n
      /\ Other(a) \in Sides /\ Other(a) # a
  <2>1. Other(a) \in Sides /\ Other(a) # a
    BY DEF Sides, Other
  <2>2. Wired(t, L)
    BY DEF Shaped
  <2>3. p \in L \cup {root} /\ t.parent[m] = n
    BY <2>1, <2>2, NodesAssumption DEF Wired
  <2>4. /\ L \subseteq All /\ nil \in All /\ root \in All
        /\ nil \notin L /\ root \notin L /\ nil # root
        /\ p # n /\ p \in All
        /\ \A q \in L, s \in Sides :
             /\ t[s][q] # q /\ t[s][q] \in L \cup {nil}
             /\ t[s][q] \in L => t.parent[q] # t[s][q] \/ q = root
    BY WiredFacts
  <2>5. m # n /\ p # m
    BY <2>1, <2>4
  <2>6. c \in L \cup {nil} /\ c # m /\ c # n
    BY <2>3, <2>4
  <2>7. QED
    BY <2>1, <2>3, <2>4, <2>5, <2>6
<1>2. \A x1, q \in L \cup {root}, s, d \in Sides :
        t[s][x1] # nil /\ t[s][x1] = t[d][q] => x1 = q /\ s = d
  BY WiredFacts
<1>3. PICK s \in Sides : t[s][p] = n /\ t[Other(s)][p] # n
  BY DEF Shaped, Wired
<1>4. Turned(t, u, a, s, n, m)
  BY <1>1, <1>3, RotateEffect DEF Shaped
<1> HIDE DEF u
<1>5. Rotated(t, u, L, a, n, m)
  <2>1. u.red = t.red /\ u.key = t.key
    BY SMTT(30), <1>4 DEF Turned
  <2>2. \A q \in L \cup {root}, d \in Sides : u[d][q] =
          IF q = n THEN IF d = a THEN t[a][n] ELSE t[a][m]
          ELSE IF q = m THEN IF d = a THEN n ELSE t[d][m]
          ELSE IF t[d][q] = n THEN m ELSE t[d][q]
    BY <1>1, <1>2, <1>3, <1>4 DEF Turned, Sides, Other
  <2>3. \A q \in Nodes \ L, d \in Sides : u[d][q] = t[d][q]
    BY <1>1, <1>4, NodesAssumption DEF Turned, All
  <2>4. \A q \in L : u.parent[q] =
          IF q = n THEN m ELSE IF q = m THEN t.parent[n]
          ELSE IF q = t[a][m] THEN n ELSE t.parent[q]
    BY <1>1, <1>4 DEF Turned
  <2>5. u.parent[nil] = t.parent[nil]
    BY <1>1, <1>4 DEF Turned
  <2>6. QED
    BY <2>1, <2>2, <2>3, <2>4, <2>5 DEF Rotated
<1>6. Wired(u, L)
  <2>1. u.right[root] = nil
    BY SMTT(30), <1>1, <1>5 DEF Rotated, Shaped, Wired, Sides
  <2>2. \A q \in L \cup {root}, d \in Sides :
          u[d][q] # nil => u[d][q] \in L /\ u.parent[u[d][q]] = q
    BY SMTT(30), <1>1, <1>2, <1>5 DEF Rotated, Shaped, Wired, Sides, Other
  <2>3. ASSUME NEW q \in L
        PROVE  /\ u.parent[q] \in L \cup {root}
               /\ \E d \in Sides : u[d][u.parent[q]] = q /\ u[Other(d)][u.parent[q]] # q
    BY SMTT(30), <1>1, <1>2, <1>5 DEF Rotated, Shaped, Wired, Sides, Other
  <2>4. QED
    BY <2>1, <2>2, <2>3 DEF Wired
<1>7. \E e : Ranked(u, L, e)
  <2>1. PICK e : Ranked(t, L, e)
    BY DEF Shaped
  <2> DEFINE f == [q \in All |-> IF q = m THEN 2 * e[n] + 3 ELSE 2 * e[q] + 2]
  <2>2. f \in [All -> Nat]
    BY <1>1, <2>1 DEF Ranked
  <2>3. ASSUME NEW q \in L PROVE f[q] < f[u.parent[q]] /\ f[q] < f[root]
    <3>1. /\ e[q] \in Nat /\ e[n] \in Nat /\ e[m] \in Nat /\ e[root] \in Nat
          /\ t.parent[q] \in All /\ e[t.parent[q]] \in Nat /\ e[p] \in Nat
          /\ q \in All /\ n \in All /\ m \in All
      BY <1>1, <2>1, WiredFacts DEF Ranked
    <3>2. /\ e[q] < e[t.parent[q]] /\ e[q] < e[root] /\ e[n] < e[root]
          /\ e[m] < e[n] /\ e[n] < e[p]
          /\ c # nil => e[c] < e[m] /\ e[c] \in Nat
      BY <1>1, <2>1 DEF Ranked, Shaped, Wired
    <3>3. f[q] = IF q = m THEN 2 * e[n] + 3 ELSE 2 * e[q] + 2
      BY <3>1
    <3>4. f[root] = 2 * e[root] + 2 /\ f[n] = 2 * e[n] + 2 /\ f[p] = 2 * e[p] + 2
          /\ f[m] = 2 * e[n] + 3
      BY <1>1, <3>1
    <3>5. f[t.parent[q]] = IF t.parent[q] = m THEN 2 * e[n] + 3 ELSE 2 * e[t.parent[q]] + 2
      BY <3>1
    <3> HIDE DEF f
    <3>6. u.parent[q] = IF q = n THEN m ELSE IF q = m THEN p
                        ELSE IF q = c THEN n ELSE t.parent[q]
      BY <1>5 DEF Rotated
    <3>7. CASE q = n
      BY <3>1, <3>2, <3>4, <3>6, <3>7
    <3>8. CASE q = m
      BY <1>1, <3>1, <3>2, <3>4, <3>6, <3>8
    <3>9. CASE q \notin {n, m} /\ q = c
      <4>1. u.parent[q] = n /\ f[q] = 2 * e[q] + 2 /\ c # nil
        BY <1>1, <3>3, <3>6, <3>9
      <4>2. e[q] < e[m]
        BY <3>2, <3>9, <4>1, Zenon
      <4>3. QED
        BY <3>1, <3>2, <3>4, <4>1, <4>2
    <3>10. CASE q \notin {n, m, c}
      <4>1. u.parent[q] = t.parent[q] /\ f[q] = 2 * e[q] + 2
        BY <3>3, <3>6, <3>10
      <4>2. t.parent[q] = m => f[t.parent[q]] = 2 * e[n] + 3 /\ e[q] < e[n]
        BY <3>1, <3>2, <3>5
      <4>3. t.parent[q] # m => f[t.parent[q]] = 2 * e[t.parent[q]] + 2
        BY <3>5
      <4>4. QED
        BY <3>1, <3>2, <3>4, <4>1, <4>2, <4>3
    <3>11. QED
      BY <3>7, <3>8, <3>9, <3>10
  <2>4. QED
    BY <2>2, <2>3 DEF Ranked
<1>8. QED
  BY <1>4, <1>5, <1>6, <1>7 DEF Shaped, Turned, u

(* Colours do not matter to the shape.                                     *)
Painted(t, u) ==
  /\ u \in Tree /\ u.parent = t.parent /\ u.key = t.key
  /\ u.left = t.left /\ u.right = t.right
  /\ \A d \in Sides : u[d] = t[d]

(* Colours do not matter to the shape.                                     *)
LEMMA PaintKeeps ==
  ASSUME NEW t, NEW u, NEW L, Shaped(t, L), Painted(t, u) PROVE Shaped(u, L)
<1>1. Wired(u, L)
  <2>1. \A d \in Sides : u[d] = t[d] /\ Other(d) \in Sides
    BY DEF Painted, Sides, Other
  <2>2. u.parent = t.parent /\ u.right = t.right
    BY DEF Painted
  <2>3. QED
    BY <2>1, <2>2 DEF Shaped, Wired
<1>2. \E e : Ranked(u, L, e)
  BY DEF Shaped, Painted, Ranked
<1>3. QED
  BY <1>1, <1>2 DEF Shaped, Painted

(***************************************************************************)
(* The repair of RBDeleteFixUp.                                            *)
(***************************************************************************)
NoPairs(t, L) == \A n \in L : t.red[n] => ~t.red[t.parent[n]]
Sentinels(t) == ~t.red[nil] /\ ~t.red[root]

(* The black node k, on side a of p, is short of one black.                *)
Owes(t, L, p, a, k) ==
  /\ Shaped(t, L) /\ Balanced(t, L, p, a) /\ NoPairs(t, L) /\ Sentinels(t)
  /\ p \in L /\ t[a][p] = k /\ t.parent[k] = p /\ ~t.red[k]

(* Then there is a node on the other side.                                 *)
LEMMA SiblingExists ==
  ASSUME NEW t, NEW L \in SUBSET Nodes, NEW p, NEW a \in Sides, NEW k, Owes(t, L, p, a, k)
  PROVE  t[Other(a)][p] \in L
<1>1. PICK h : Heights(t, L, h, p, a)
  BY DEF Owes, Balanced
<1>2. Other(a) \in Sides /\ Other(a) # a /\ p \in L /\ k \in L \cup {nil}
  BY WiredFacts DEF Owes, Sides, Other
<1>3. /\ h[p] = h[k] + Weight(t, p) + 1
      /\ h[p] = h[t[Other(a)][p]] + Weight(t, p) + 0
  BY <1>1, <1>2 DEF Heights, Owed, Owes
<1>4. h[k] \in Nat /\ Weight(t, p) \in Nat
  BY <1>1, <1>2, WiredFacts DEF Heights, Weight, Owes
<1>5. t[Other(a)][p] \in L \cup {nil}
  BY <1>2, WiredFacts DEF Owes
<1>6. h[nil] = 0
  BY <1>1 DEF Heights
<1>7. QED
  BY <1>3, <1>4, <1>5, <1>6

(* A red sibling gives way to a black one; nothing is repaired by it.      *)
BlackSibling(t, u, L, p, a, k) ==
  /\ Owes(u, L, p, a, k)
  /\ u[Other(a)][p] \in L /\ ~u.red[u[Other(a)][p]]
  /\ \A q \in Nodes \ L, d \in Sides : u[d][q] = t[d][q]
  /\ p # First(t) => First(u) = First(t) /\ u.red[First(t)] = t.red[First(t)]
  /\ u = t \/ (~u.red[u.parent[p]] /\ u.red[p] /\ u.parent[p] \in L
               /\ (p = First(t) => First(u) = u.parent[p]))

(* RedSiblingUp gives x a black sibling, and owes what was owed.           *)
LEMMA SiblingUp ==
  ASSUME NEW t, NEW L \in SUBSET Nodes, NEW p, NEW a \in Sides, NEW k, Owes(t, L, p, a, k),
         NEW u, u = RedSiblingUp(t, a, p)
  PROVE  BlackSibling(t, u, L, p, a, k)
<1> DEFINE b == Other(a)
           w == t[b][p]
           c == t[a][w]
           v == [t EXCEPT !.red[w] = FALSE, !.red[p] = TRUE]
<1>1. w \in L
  BY SiblingExists
<1>2. CASE ~t.red[w]
  BY <1>1, <1>2 DEF RedSiblingUp, BlackSibling
<1>3. CASE t.red[w]
  <2>1. /\ L \subseteq All /\ nil \in All /\ root \in All
        /\ nil \notin L /\ root \notin L /\ nil # root
        /\ b \in Sides /\ b # a /\ \A d \in Sides : d = a \/ d = b
        /\ p # w /\ k # w /\ k # p /\ p \in L /\ t.parent[w] = p
        /\ c \in L \cup {nil} /\ c # p /\ c # w /\ k \in L \cup {nil}
        /\ t \in Tree /\ (k = c => k = nil)
    <3>1. Shaped(t, L) /\ p \in L /\ t[a][p] = k /\ b \in Sides /\ b # a
      BY DEF Owes, Sides, Other
    <3>2. t.parent[w] = p /\ t \in Tree
      BY ZenonT(40), <1>1, <3>1, WiredFacts DEF Shaped, Wired
    <3>3. p # w /\ k # p /\ c # w /\ c # p /\ c \in L \cup {nil} /\ k \in L \cup {nil}
      BY <1>1, <3>1, <3>2, WiredFacts
    <3>4. k # w /\ (k = c => k = nil)
      BY <1>1, <3>1, <3>3, WiredFacts
    <3>5. QED
      BY <3>1, <3>2, <3>3, <3>4, WiredFacts DEF Sides
  <2>2. ~t.red[p] /\ (c # nil => ~t.red[c]) /\ ~t.red[t[b][w]]
    BY <1>1, <1>3, <2>1 DEF Owes, NoPairs, Shaped, Wired, Sentinels
  <2>3. /\ Painted(t, v)
        /\ v.red = [[t.red EXCEPT ![w] = FALSE] EXCEPT ![p] = TRUE]
    BY <1>1, <2>1 DEF Painted, Tree, Sides
  <2>4. Shaped(v, L)
    BY <2>3, PaintKeeps DEF Owes
  <2>5. u = Rotate(v, a, p)
    BY <1>3 DEF RedSiblingUp
  <2> HIDE DEF v
  <2>6. Shaped(u, L) /\ Rotated(v, u, L, a, p, w)
    BY <1>1, <2>1, <2>3, <2>4, <2>5, RotateKeeps DEF Painted
  <2>7. /\ \A q \in L \cup {root}, d \in Sides : u[d][q] =
             IF q = p THEN IF d = a THEN k ELSE c
             ELSE IF q = w THEN IF d = a THEN p ELSE t[d][w]
             ELSE IF t[d][q] = p THEN w ELSE t[d][q]
        /\ \A q \in Nodes \ L, d \in Sides : u[d][q] = t[d][q]
        /\ \A q \in L : u.parent[q] =
             IF q = p THEN w ELSE IF q = w THEN t.parent[p]
             ELSE IF q = c THEN p ELSE t.parent[q]
        /\ u.parent[nil] = t.parent[nil]
        /\ u.red[p] /\ ~u.red[w]
        /\ \A q \in All : q # p /\ q # w => u.red[q] = t.red[q]
    <3>1. v.parent = t.parent /\ \A d \in Sides : v[d] = t[d]
      BY <2>3 DEF Painted
    <3>2. /\ v[a][p] = k /\ v[a][w] = c /\ v[b][p] = w /\ v.parent[p] = t.parent[p]
      BY <2>1, <3>1 DEF Owes
    <3>3. /\ v.red[p] /\ ~v.red[w]
          /\ \A q \in All : q # p /\ q # w => v.red[q] = t.red[q]
      <4>1. t.red \in [All -> BOOLEAN] /\ w \in All /\ p \in All
        BY <1>1, <2>1 DEF Tree
      <4>2. QED
        BY <2>1, <2>3, <4>1
    <3>4. /\ u.red[p] /\ ~u.red[w]
          /\ \A q \in All : q # p /\ q # w => u.red[q] = t.red[q]
      BY <2>6, <3>3 DEF Rotated
    <3> HIDE DEF w, c
    <3>5. QED
      BY <2>6, <3>1, <3>2, <3>4 DEF Rotated
  <2>8. Balanced(u, L, p, a)
    <3>1. PICK h : Heights(t, L, h, p, a)
      BY DEF Owes, Balanced
    <3> DEFINE g == [h EXCEPT ![w] = h[p], ![p] = h[w]]
    <3>2. /\ h[p] = h[k] + 1 + 1 /\ h[p] = h[w] + 1 + 0
          /\ h[w] = h[c] + 0 + 0 /\ h[w] = h[t[b][w]] + 0 + 0
      BY <1>1, <1>3, <2>1, <2>2, <3>1 DEF Heights, Weight, Owed, Owes
    <3>3. /\ \A q \in All : h[q] \in Nat
          /\ \A q \in L, d \in Sides : t[d][q] \in All
          /\ \A q \in L \ {p}, d \in Sides : t[d][q] # w
      BY <1>1, <2>1, <3>1, WiredFacts DEF Heights, Owes
    <3>4. g \in [All -> Nat] /\ g[nil] = 0
      BY <1>1, <2>1, <3>1, <3>3 DEF Heights
    <3>5. \A q \in All : g[q] = IF q = p THEN h[w] ELSE IF q = w THEN h[p] ELSE h[q]
      BY <1>1, <2>1, <3>1 DEF Heights
    <3> HIDE DEF g
    <3>6. ASSUME NEW q \in L, NEW d \in Sides
          PROVE  g[q] = g[u[d][q]] + Weight(u, q) + Owed(q, d, p, a)
      <4>1. CASE q = p
        BY SMTT(30), <1>1, <2>1, <2>7, <3>2, <3>3, <3>5, <4>1 DEF Weight, Owed
      <4>2. CASE q = w
        <5>1. t[b][w] \in All /\ t[b][w] # p /\ t[b][w] # w
          BY <1>1, <2>1, <3>3, WiredFacts DEF Owes
        <5>2. QED
          BY <1>1, <2>1, <2>7, <3>2, <3>3, <3>5, <4>2, <5>1 DEF Weight, Owed
      <4>3. CASE q # p /\ q # w
        <5>1. h[q] = h[t[d][q]] + Weight(t, q) + 0
          BY <3>1, <4>3 DEF Heights, Owed
        <5>2. g[u[d][q]] = h[t[d][q]] /\ g[q] = h[q]
          BY <1>1, <2>1, <2>7, <3>3, <3>5, <4>3
        <5>3. Weight(u, q) = Weight(t, q) /\ Owed(q, d, p, a) = 0
          BY <2>1, <2>7, <4>3 DEF Weight, Owed
        <5>4. QED
          BY <5>1, <5>2, <5>3
      <4>4. QED
        BY SMTT(30), <4>1, <4>2, <4>3
    <3>7. QED
      BY <3>4, <3>6 DEF Balanced, Heights
  <2>9. NoPairs(u, L)
    <3>1. \A q \in L : t.parent[q] \in All
      BY <2>1, WiredFacts DEF Owes
    <3>2. \A q \in L : t.parent[q] = p => q \in {k, w}
      BY <2>1 DEF Owes, Shaped, Wired
    <3>3. QED
      BY <1>1, <2>1, <2>2, <2>7, <3>1, <3>2 DEF NoPairs, Owes
  <2>10. Owes(u, L, p, a, k)
    <3>1. u[a][p] = k /\ u.parent[k] = p /\ ~u.red[k] /\ Sentinels(u)
      BY <1>1, <2>1, <2>7 DEF Owes, Sentinels
    <3>2. QED
      BY <2>1, <2>6, <2>8, <2>9, <3>1 DEF Owes
  <2>11. u[b][p] \in L /\ ~u.red[u[b][p]]
    <3>1. u[b][p] \in L
      BY <2>10, SiblingExists
    <3>2. QED
      BY <2>1, <2>2, <2>7, <3>1
  <2>12. p # First(t) => First(u) = First(t) /\ u.red[First(t)] = t.red[First(t)]
    <3>1. First(t) \in All /\ First(t) # w
      BY <1>1, <2>1, WiredFacts DEF Owes, First, Sides
    <3>2. root # p /\ root # w
      BY <1>1, <2>1
    <3>3. QED
      BY <2>1, <2>7, <3>1, <3>2 DEF First, Sides
  <2>13. ~u.red[u.parent[p]] /\ u.red[p] /\ u.parent[p] \in L
         /\ (p = First(t) => First(u) = u.parent[p])
    BY <1>1, <2>1, <2>7 DEF First, Sides
  <2>14. QED
    BY <2>7, <2>10, <2>11, <2>12, <2>13 DEF BlackSibling
<1>4. QED
  BY <1>2, <1>3

(* The outer nephew of the black k is made red.                            *)
RedNephew(t, u, L, p, a, k) ==
  /\ Owes(u, L, p, a, k)
  /\ u[Other(a)][p] \in L /\ ~u.red[u[Other(a)][p]]
  /\ u[Other(a)][u[Other(a)][p]] \in L /\ u.red[u[Other(a)][u[Other(a)][p]]]
  /\ \A q \in Nodes \ L, d \in Sides : u[d][q] = t[d][q]
  /\ First(u) = First(t) /\ u.red[First(t)] = t.red[First(t)]
  /\ u.parent[p] = t.parent[p] /\ u.red[p] = t.red[p]

(* RedOutside makes the outer nephew red if one of the two is.             *)
LEMMA OutsideRed ==
  ASSUME NEW t, NEW L \in SUBSET Nodes, NEW p, NEW a \in Sides, NEW k, Owes(t, L, p, a, k),
         NEW w, w = t[Other(a)][p], w \in L, ~t.red[w],
         t.red[t.left[w]] \/ t.red[t.right[w]],
         NEW u, u = RedOutside(t, a, w)
  PROVE  RedNephew(t, u, L, p, a, k)
<1> DEFINE b == Other(a)
           m == t[a][w]
           c == t[b][m]
           v == [t EXCEPT !.red[m] = FALSE, !.red[w] = TRUE]
<1>0. /\ t \in Tree /\ Shaped(t, L) /\ p \in L /\ t[a][p] = k
      /\ b \in Sides /\ b # a /\ \A d \in Sides : d = a \/ d = b
      /\ Other(b) = a /\ t.parent[w] = p /\ p # w
  BY WiredFacts DEF Owes, Shaped, Sides, Other, Wired
<1>0b. /\ L \subseteq All /\ nil \in All /\ root \in All
       /\ nil \notin L /\ root \notin L /\ nil # root
       /\ \A q \in L, d \in Sides : t[d][q] \in L \cup {nil}
       /\ \A q \in L : t.parent[q] \in L \cup {root}
       /\ \A q \in L, d \in Sides : t[d][q] # nil => t.parent[t[d][q]] = q
  <2>1. Shaped(t, L)
    BY <1>0
  <2>2. QED
    BY <2>1, WiredFacts DEF Shaped, Wired
<1>1. CASE t.red[t[b][w]]
  <2>1. u = t
    BY <1>1 DEF RedOutside
  <2>2. t[b][w] \in L
    BY SMTT(30), <1>0, <1>1, WiredFacts DEF Owes, Sentinels
  <2>3. QED
    BY <1>1, <2>1, <2>2 DEF RedNephew
<1>2. CASE ~t.red[t[b][w]]
  <2>1. t.red[m] /\ m \in L
    <3>1. t.red[t[a][w]] \/ t.red[t[b][w]]
      BY SMTT(30) DEF Sides, Other
    <3>2. QED
      BY <1>0, <1>2, <3>1, WiredFacts DEF Owes, Sentinels
  <2>2. /\ L \subseteq All /\ nil \in All /\ root \in All
        /\ nil \notin L /\ root \notin L /\ nil # root
        /\ t.parent[m] = w /\ m # w /\ m # p /\ m # k /\ k # w /\ k # p
        /\ c \in L \cup {nil} /\ c # m /\ c # w /\ k \in L \cup {nil}
        /\ (k = c => k = nil) /\ t[a][m] # p /\ t[a][m] # w /\ c # p
        /\ t.parent[p] \in All /\ t.parent[p] # w /\ t.parent[p] # m
        /\ root # m /\ root # w
    <3>0. PICK e : Ranked(t, L, e)
      BY SMTT(30), <1>0 DEF Shaped
    <3>0a. \A q \in L : e[q] \in Nat /\ e[t.parent[q]] \in Nat /\ e[q] < e[t.parent[q]]
      <4>1. e \in [All -> Nat] /\ \A q \in L : e[q] < e[t.parent[q]]
        BY <3>0 DEF Ranked
      <4>2. \A q \in L : q \in All /\ t.parent[q] \in All
        BY <1>0b
      <4>3. QED
        BY <4>1, <4>2
    <3>1. t.parent[m] = w /\ t.parent[w] = p /\ m # nil
      BY <1>0, <1>0b, <2>1
    <3>2. e[m] < e[w] /\ e[w] < e[p] /\ e[p] < e[t.parent[p]]
      BY <1>0, <2>1, <3>0a, <3>1
    <3>3. m # w /\ m # p
      BY <1>0, <2>1, <3>0a, <3>2
    <3>4. t.parent[p] \in All /\ t.parent[p] \notin {p, w, m}
      BY <1>0, <1>0b, <2>1, <3>0a, <3>2
    <3>5. k \in L \cup {nil} /\ (k # nil => t.parent[k] = p)
      BY <1>0, <1>0b
    <3>6. k # m /\ k # p
      BY <1>0, <1>0b, <3>1, <3>4, <3>5
    <3>7. k # w
      <4>1. PICK d \in Sides : t[d][p] = w /\ t[Other(d)][p] # w
        BY <1>0 DEF Shaped, Wired
      <4>2. QED
        BY <1>0, <4>1
    <3>8. \A d \in Sides : t[d][m] \in L \cup {nil} /\ (t[d][m] # nil => t.parent[t[d][m]] = m)
      BY <1>0b, <2>1
    <3>9. \A d \in Sides : t[d][m] \notin {m, w, p}
      <4>1. SUFFICES ASSUME NEW d \in Sides PROVE t[d][m] \notin {m, w, p}
        OBVIOUS
      <4>2. t[d][m] # nil => t.parent[t[d][m]] = m
        BY <3>8
      <4>3. w # nil /\ p # nil
        BY <1>0, <1>0b
      <4>4. QED
        BY <3>1, <3>3, <3>4, <4>2, <4>3
    <3>10. k = c => k = nil
      BY <1>0, <3>3, <3>5, <3>8
    <3>11. c \in L \cup {nil} /\ c \notin {m, w, p} /\ t[a][m] \notin {m, w, p}
      BY <1>0, <3>8, <3>9
    <3>12. QED
      BY <1>0b, <2>1, <3>1, <3>3, <3>4, <3>5, <3>6, <3>7, <3>10, <3>11
  <2>3. (c # nil => ~t.red[c]) /\ (t[a][m] # nil => ~t.red[t[a][m]])
    <3>1. \A d \in Sides : t[d][m] # nil => t[d][m] \in L /\ t.parent[t[d][m]] = m
      BY <1>0b, <2>1
    <3>2. \A q \in L : t.red[q] => ~t.red[t.parent[q]]
      BY DEF Owes, NoPairs
    <3>3. \A d \in Sides : t[d][m] # nil => ~t.red[t[d][m]]
      BY <2>1, <3>1, <3>2
    <3>4. QED
      BY <1>0, <3>3
  <2>4. /\ Painted(t, v)
        /\ v.red = [[t.red EXCEPT ![m] = FALSE] EXCEPT ![w] = TRUE]
    BY <1>0, <2>1, <2>2, Zenon DEF Painted, Tree, Sides
  <2>5. Shaped(v, L)
    BY <1>0, <2>4, PaintKeeps
  <2>6. u = Rotate(v, b, w)
    BY <1>2 DEF RedOutside
  <2>6a. m = t[a][w] /\ c = t[b][m]
    OBVIOUS
  <2> HIDE DEF v, m, c
  <2>7. Shaped(u, L) /\ Rotated(v, u, L, b, w, m)
    BY SMTT(30), <1>0, <2>1, <2>4, <2>5, <2>6, <2>6a, RotateKeeps DEF Painted
  <2>8. /\ \A q \in L \cup {root}, d \in Sides : u[d][q] =
             IF q = w THEN IF d = b THEN t[b][w] ELSE c
             ELSE IF q = m THEN IF d = b THEN w ELSE t[d][m]
             ELSE IF t[d][q] = w THEN m ELSE t[d][q]
        /\ \A q \in Nodes \ L, d \in Sides : u[d][q] = t[d][q]
        /\ \A q \in L : u.parent[q] =
             IF q = w THEN m ELSE IF q = m THEN p
             ELSE IF q = c THEN w ELSE t.parent[q]
        /\ u.parent[nil] = t.parent[nil]
        /\ u.red[w] /\ ~u.red[m]
        /\ \A q \in All : q # w /\ q # m => u.red[q] = t.red[q]
    <3>1. v.parent = t.parent /\ \A d \in Sides : v[d] = t[d]
      BY <2>4 DEF Painted
    <3>2. /\ v[b][m] = c /\ v[a][w] = m /\ v[b][w] = t[b][w] /\ v.parent[w] = p
      BY <1>0, <2>1, <2>6a, <3>1
    <3>3. /\ v.red[w] /\ ~v.red[m]
          /\ \A q \in All : q # w /\ q # m => v.red[q] = t.red[q]
      <4>1. t.red \in [All -> BOOLEAN] /\ w \in All /\ m \in All
        BY <1>0, <2>1, <2>2 DEF Tree
      <4>2. QED
        BY <2>2, <2>4, <4>1
    <3>4. /\ u.red[w] /\ ~u.red[m]
          /\ \A q \in All : q # w /\ q # m => u.red[q] = t.red[q]
      BY <2>7, <3>3 DEF Rotated
    <3>5. \A q \in L \cup {root}, d \in Sides : u[d][q] =
             IF q = w THEN IF d = b THEN t[b][w] ELSE c
             ELSE IF q = m THEN IF d = b THEN w ELSE t[d][m]
             ELSE IF t[d][q] = w THEN m ELSE t[d][q]
      BY <2>7, <3>1, <3>2 DEF Rotated
    <3>6. \A q \in Nodes \ L, d \in Sides : u[d][q] = t[d][q]
      BY <2>7, <3>1 DEF Rotated
    <3>7. \A q \in L : u.parent[q] =
             IF q = w THEN m ELSE IF q = m THEN p
             ELSE IF q = c THEN w ELSE t.parent[q]
      BY <2>7, <3>1, <3>2 DEF Rotated
    <3>8. u.parent[nil] = t.parent[nil]
      BY <2>7, <3>1 DEF Rotated
    <3>9. QED
      BY <3>4, <3>5, <3>6, <3>7, <3>8, Zenon
  <2>9. Balanced(u, L, p, a)
    <3>1. PICK h : Heights(t, L, h, p, a)
      BY SMTT(30) DEF Owes, Balanced
    <3> DEFINE g == [h EXCEPT ![m] = h[w], ![w] = h[m]]
    <3>2. /\ h[w] = h[m] + 1 + 0 /\ h[w] = h[t[b][w]] + 1 + 0
          /\ h[m] = h[c] + 0 + 0 /\ h[m] = h[t[a][m]] + 0 + 0
      <4>1. /\ h \in [All -> Nat]
            /\ \A q \in L, d \in Sides : h[q] = h[t[d][q]] + Weight(t, q) + Owed(q, d, p, a)
        BY <3>1 DEF Heights
      <4>2. \A d \in Sides : Owed(w, d, p, a) = 0 /\ Owed(m, d, p, a) = 0
        BY <1>0, <2>2 DEF Owed
      <4>3. Weight(t, w) = 1 /\ Weight(t, m) = 0
        BY <2>1 DEF Weight
      <4>4. \A d \in Sides : h[w] = h[t[d][w]] + 1 + 0
        BY <4>1, <4>2, <4>3
      <4>5. \A d \in Sides : h[m] = h[t[d][m]] + 0 + 0
        BY <2>1, <4>1, <4>2, <4>3
      <4>6. t[a][w] = m /\ t[b][m] = c /\ b \in Sides
        BY <1>0, <2>6a
      <4>7. QED
        BY <4>4, <4>5, <4>6
    <3>3. /\ \A q \in All : h[q] \in Nat
          /\ \A q \in L, d \in Sides : t[d][q] \in All
          /\ \A q \in L \ {w}, d \in Sides : t[d][q] # m
      <4>1. \A q \in All : h[q] \in Nat
        BY <3>1 DEF Heights
      <4>2. \A q \in L, d \in Sides : t[d][q] \in All /\ (t[d][q] # nil => t.parent[t[d][q]] = q)
        BY <1>0b
      <4>3. m # nil /\ t.parent[m] = w
        BY <2>1, <2>2
      <4>4. \A q \in L \ {w}, d \in Sides : t[d][q] # m
        BY <4>2, <4>3
      <4>5. QED
        BY <4>1, <4>2, <4>4
    <3>4. g \in [All -> Nat] /\ g[nil] = 0
      BY <2>1, <2>2, <3>1, <3>3 DEF Heights
    <3>5. \A q \in All : g[q] = IF q = w THEN h[m] ELSE IF q = m THEN h[w] ELSE h[q]
      BY <2>1, <2>2, <3>1 DEF Heights
    <3> HIDE DEF g
    <3>6. ASSUME NEW q \in L, NEW d \in Sides
          PROVE  g[q] = g[u[d][q]] + Weight(u, q) + Owed(q, d, p, a)
      <4>1. CASE q = w
        <5>1. t[b][w] \in All /\ t[b][w] # m /\ t[b][w] # w
          <6>1. t[b][w] \in All /\ (t[b][w] # nil => t.parent[t[b][w]] = w)
            BY <1>0, <1>0b
          <6>2. PICK s \in Sides : t[s][w] = m /\ t[Other(s)][w] # m
            BY <1>0, <2>1, <2>2 DEF Shaped, Wired
          <6>3. t[b][w] # m
            BY <1>0, <2>6a, <6>2
          <6>4. t[b][w] # w
            BY <1>0, <2>2, <6>1
          <6>5. QED
            BY <6>1, <6>3, <6>4
        <5>2. u[d][q] = IF d = b THEN t[b][w] ELSE c
          BY SMTT(30), <2>8, <4>1
        <5>3. /\ g[w] = h[m] /\ g[c] = h[c] /\ g[t[b][w]] = h[t[b][w]]
              /\ Weight(u, q) = 0 /\ Owed(q, d, p, a) = 0
          BY <1>0, <2>1, <2>2, <2>8, <3>5, <4>1, <5>1 DEF Weight, Owed
        <5>4. h[c] \in Nat /\ h[w] \in Nat /\ h[m] \in Nat /\ h[t[b][w]] \in Nat
          BY <2>1, <2>2, <3>3, <5>1
        <5>5. QED
          BY SMTT(30), <3>2, <4>1, <5>2, <5>3, <5>4
      <4>2. CASE q = m
        <5>1. t[a][m] \in All /\ t[a][m] # w /\ t[a][m] # m
          BY SMTT(30), <1>0, <2>1, <2>2, <3>3, WiredFacts
        <5>2. u[d][q] = IF d = b THEN w ELSE t[a][m]
          BY SMTT(30), <1>0, <2>1, <2>2, <2>8, <4>2
        <5>3. /\ g[w] = h[m] /\ g[m] = h[w] /\ g[t[a][m]] = h[t[a][m]]
              /\ Weight(u, q) = 1 /\ Owed(q, d, p, a) = 0
          BY <1>0, <2>1, <2>2, <2>8, <3>5, <4>2, <5>1 DEF Weight, Owed
        <5>4. h[w] \in Nat /\ h[m] \in Nat /\ h[t[a][m]] \in Nat
          BY <2>1, <2>2, <3>3, <5>1
        <5>5. QED
          BY <3>2, <4>2, <5>2, <5>3, <5>4
      <4>3. CASE q # w /\ q # m
        <5>1. h[q] = h[t[d][q]] + Weight(t, q) + Owed(q, d, p, a)
          BY <3>1, <4>3 DEF Heights
        <5>0. u[d][q] = IF t[d][q] = w THEN m ELSE t[d][q]
          BY <2>8, <4>3
        <5>2. g[u[d][q]] = h[t[d][q]] /\ g[q] = h[q]
          BY <2>1, <2>2, <3>3, <3>5, <4>3, <5>0
        <5>3. Weight(u, q) = Weight(t, q)
          BY SMTT(30), <2>2, <2>8, <4>3 DEF Weight
        <5>4. QED
          BY <5>1, <5>2, <5>3
      <4>4. QED
        BY <4>1, <4>2, <4>3
    <3>7. QED
      BY <3>4, <3>6 DEF Balanced, Heights
  <2>10. NoPairs(u, L)
    <3>1. \A q \in L : t.parent[q] \in All
      BY <1>0, WiredFacts
    <3>2. \A q \in L : t.parent[q] = w => q \in {m, t[b][w]}
      BY <1>0, <2>6a DEF Shaped, Wired
    <3>3. \A q \in L : t.red[q] => ~t.red[t.parent[q]]
      BY DEF Owes, NoPairs
    <3>4. SUFFICES ASSUME NEW q \in L, u.red[q] PROVE ~u.red[u.parent[q]]
      BY DEF NoPairs
    <3>5. q # m /\ q \in All /\ w \in All
      BY SMTT(30), <2>2, <2>8, <3>4
    <3>6. CASE q = w
      BY SMTT(30), <2>8, <3>6
    <3>7. CASE q = c
      BY SMTT(30), <2>2, <2>3, <2>8, <3>4, <3>5, <3>7
    <3>8. CASE q # w /\ q # c
      <4>1. u.parent[q] = t.parent[q] /\ t.red[q]
        BY <2>8, <3>4, <3>5, <3>8
      <4>2. t.parent[q] # w
        BY <1>2, <3>2, <3>5, <4>1
      <4>3. QED
        BY <2>8, <3>1, <3>3, <4>1, <4>2
    <3>9. QED
      BY <3>6, <3>7, <3>8
  <2>11. Owes(u, L, p, a, k)
    <3>1. u[a][p] = k /\ u.parent[k] = p /\ ~u.red[k] /\ Sentinels(u)
      <4>1. u[a][p] = k
        BY <1>0, <2>2, <2>8
      <4>2. u.parent[k] = p
        <5>1. t.parent[k] = p
          BY DEF Owes
        <5>2. QED
          BY <2>2, <2>8, <5>1
      <4>3. u.red[k] = t.red[k] /\ u.red[nil] = t.red[nil] /\ u.red[root] = t.red[root]
        BY <2>1, <2>2, <2>8
      <4>4. QED
        BY <4>1, <4>2, <4>3 DEF Owes, Sentinels
    <3>2. QED
      BY <1>0, <2>7, <2>9, <2>10, <3>1 DEF Owes
  <2>12. u[b][p] = m /\ u[b][m] = w
    BY <1>0, <2>1, <2>2, <2>6a, <2>8, ZenonT(40)
  <2>13. First(u) = First(t) /\ u.red[First(t)] = t.red[First(t)]
    <3>1. First(t) \in All /\ First(t) # w /\ First(t) # m
      <4>1. t["left"][root] # nil => t["left"][root] \in L /\ t.parent[t["left"][root]] = root
        BY <1>0 DEF Shaped, Wired, Sides
      <4>2. t.parent[w] = p /\ t.parent[m] = w /\ root \notin {p, w} /\ w # nil /\ m # nil
        BY <1>0, <1>0b, <2>1, <2>2
      <4>3. t["left"][root] \in All /\ t["left"][root] # w /\ t["left"][root] # m
        BY <1>0b, <4>1, <4>2
      <4>4. QED
        BY <4>3 DEF First
    <3>2. QED
      BY <2>2, <2>8, <3>1 DEF First, Sides
  <2>14. u.parent[p] = t.parent[p] /\ u.red[p] = t.red[p]
    BY SMTT(30), <1>0, <2>2, <2>8
  <2>15. QED
    <3>1. u.red[w] /\ ~u.red[m] /\ \A q \in Nodes \ L, d \in Sides : u[d][q] = t[d][q]
      BY <2>8
    <3>2. QED
      BY <2>1, <2>11, <2>12, <2>13, <2>14, <3>1, Zenon DEF RedNephew
<1>3. QED
  BY SMTT(30), <1>1, <1>2

Repaid(t, p, w, o) ==
  [t EXCEPT !.red[w] = t.red[p], !.red[p] = FALSE, !.red[o] = FALSE]

(* The last rotation gives k the black that it is short of.                *)
Whole(t, u, L, p, w) ==
  /\ Shaped(u, L) /\ Balanced(u, L, nil, "left") /\ NoPairs(u, L) /\ Sentinels(u)
  /\ ~u.red[p] /\ u.parent[p] \in L
  /\ \A q \in Nodes \ L, d \in Sides : u[d][q] = t[d][q]
  /\ First(u) = (IF p = First(t) THEN w ELSE First(t))
  /\ (u.red[First(u)] <=> t.red[First(t)])

(* The rotation at the end of FixUpRotate pays the debt.                   *)
LEMMA LastTurn ==
  ASSUME NEW t, NEW L \in SUBSET Nodes, NEW p, NEW a \in Sides, NEW k, Owes(t, L, p, a, k),
         NEW w, w = t[Other(a)][p], w \in L, ~t.red[w],
         NEW o, o = t[Other(a)][w], o \in L, t.red[o],
         NEW u, u = Rotate(Repaid(t, p, w, o), a, p)
  PROVE  Whole(t, u, L, p, w)
<1> DEFINE b == Other(a)
           c == t[a][w]
           v == Repaid(t, p, w, o)
<1>0. Shaped(t, L) /\ p \in L /\ t[a][p] = k
  BY DEF Owes
<1>0a. b \in Sides /\ b # a /\ \A d \in Sides : d = a \/ d = b
  BY DEF Sides, Other
<1>0b. /\ t \in Tree /\ L \subseteq All /\ nil \in All /\ root \in All
       /\ nil \notin L /\ root \notin L /\ nil # root
       /\ \A q \in L, d \in Sides : t[d][q] \in L \cup {nil}
       /\ \A q \in L : t.parent[q] \in L \cup {root}
       /\ \A q \in L, d \in Sides : t[d][q] # nil => t.parent[t[d][q]] = q
  BY <1>0, WiredFacts DEF Shaped, Wired
<1>0c. PICK e : Ranked(t, L, e)
  BY <1>0 DEF Shaped
<1>0d. \A q \in L : e[q] \in Nat /\ e[t.parent[q]] \in Nat /\ e[q] < e[t.parent[q]]
  <2>1. e \in [All -> Nat] /\ \A q \in L : e[q] < e[t.parent[q]]
    BY <1>0c DEF Ranked
  <2>2. \A q \in L : q \in All /\ t.parent[q] \in All
    BY <1>0b
  <2>3. QED
    BY <2>1, <2>2
<1>1. t.parent[w] = p /\ t.parent[o] = w /\ t[b][p] = w /\ t[b][w] = o
  BY <1>0, <1>0a, <1>0b
<1>1a. e[w] < e[p] /\ e[o] < e[w] /\ e[p] < e[t.parent[p]]
  BY <1>0, <1>0d, <1>1
<1>1b. p # w /\ o # w /\ o # p
  BY <1>0, <1>0d, <1>1a
<1>1c. t.parent[p] \notin {w, p, o} /\ t.parent[p] \in All
  BY <1>0, <1>0b, <1>0d, <1>1a
<1>1d. (k # nil => t.parent[k] = p) /\ k \in L \cup {nil}
  BY <1>0, <1>0b
<1>1e. (c # nil => t.parent[c] = w) /\ c \in L \cup {nil}
  BY <1>0b
<1>1f. k # w /\ c # o
  <2>1. PICK d \in Sides : t[d][p] = w /\ t[Other(d)][p] # w
    BY <1>0, <1>1 DEF Shaped, Wired
  <2>2. PICK s \in Sides : t[s][w] = o /\ t[Other(s)][w] # o
    BY <1>0, <1>1 DEF Shaped, Wired
  <2>3. QED
    BY <1>0, <1>0a, <2>1, <2>2 DEF Sides, Other
<1>1g. k # p /\ c # w /\ c # p /\ o # k /\ (k = c => k = nil)
  <2>1. k # p
    BY <1>0b, <1>0d, <1>1d, <1>0
  <2>2. c # w
    BY <1>0b, <1>0d, <1>1e
  <2>3. c # p
    BY <1>0, <1>0b, <1>1c, <1>1e
  <2>4. o # k
    BY <1>0b, <1>1, <1>1b, <1>1d
  <2>5. QED
    BY <1>1b, <1>1d, <1>1e, <2>1, <2>2, <2>3, <2>4
<1>2a. p \in L /\ w \in L /\ o \in L /\ L \subseteq All
  BY <1>0, <1>0b
<1>2b. k \in All /\ c \in All /\ nil \in All
  BY <1>0b, <1>1d, <1>1e
<1>2c. p # w /\ o # w /\ o # p /\ o # k /\ k # w /\ k # p /\ c # w /\ c # p /\ c # o
  BY <1>1b, <1>1f, <1>1g
<1>2d. t[a][p] = k /\ t[b][p] = w /\ t[a][w] = c /\ t[b][w] = o
  BY <1>0, <1>1
<1>2e. a \in Sides /\ b \in Sides /\ b # a
  BY <1>0a
<1>2f. nil \notin {p, w, o} /\ nil \notin L /\ root \notin L /\ nil # root /\ root \in All
  BY <1>0b, <1>2a
<1>4. /\ Painted(t, v)
      /\ v.red = [[[t.red EXCEPT ![w] = t.red[p]] EXCEPT ![p] = FALSE] EXCEPT ![o] = FALSE]
  BY <1>0b, <1>2a DEF Painted, Tree, Sides, Repaid
<1>5. Shaped(v, L)
  BY <1>0, <1>4, PaintKeeps
<1>6. u = Rotate(v, a, p)
  OBVIOUS
<1> HIDE DEF v, c
<1>7. Shaped(u, L) /\ Rotated(v, u, L, a, p, w)
  <2>1. v[b][p] = w
    BY <1>2d, <1>0a, <1>4 DEF Painted
  <2>2. QED
    BY <1>2a, <1>5, <1>6, <2>1, RotateKeeps
<1>8. /\ \A q \in L \cup {root}, d \in Sides : u[d][q] =
           IF q = p THEN IF d = a THEN k ELSE c
           ELSE IF q = w THEN IF d = a THEN p ELSE t[d][w]
           ELSE IF t[d][q] = p THEN w ELSE t[d][q]
      /\ \A q \in Nodes \ L, d \in Sides : u[d][q] = t[d][q]
      /\ \A q \in L : u.parent[q] =
           IF q = p THEN w ELSE IF q = w THEN t.parent[p]
           ELSE IF q = c THEN p ELSE t.parent[q]
  <2>1. v.parent = t.parent /\ \A d \in Sides : v[d] = t[d]
    BY <1>4 DEF Painted
  <2>2. v[a][p] = k /\ v[a][w] = c
    BY <1>2d, <1>2e, <2>1
  <2>3. \A q \in L \cup {root}, d \in Sides : u[d][q] =
              IF q = p THEN IF d = a THEN v[a][p] ELSE v[a][w]
              ELSE IF q = w THEN IF d = a THEN p ELSE v[d][w]
              ELSE IF v[d][q] = p THEN w ELSE v[d][q]
    BY <1>7 DEF Rotated
  <2>4. \A q \in Nodes \ L, d \in Sides : u[d][q] = v[d][q]
    BY <1>7 DEF Rotated
  <2>5. \A q \in L : u.parent[q] =
              IF q = p THEN w ELSE IF q = w THEN v.parent[p]
              ELSE IF q = v[a][w] THEN p ELSE v.parent[q]
    BY <1>7 DEF Rotated
  <2>6. \A q \in L \cup {root}, d \in Sides : u[d][q] =
              IF q = p THEN IF d = a THEN k ELSE c
              ELSE IF q = w THEN IF d = a THEN p ELSE t[d][w]
              ELSE IF t[d][q] = p THEN w ELSE t[d][q]
    BY <2>1, <2>2, <2>3
  <2>7. \A q \in Nodes \ L, d \in Sides : u[d][q] = t[d][q]
    BY <2>1, <2>4
  <2>8. \A q \in L : u.parent[q] =
              IF q = p THEN w ELSE IF q = w THEN t.parent[p]
              ELSE IF q = c THEN p ELSE t.parent[q]
    BY <2>1, <2>2, <2>5
  <2>9. QED
    BY <2>6, <2>7, <2>8, Zenon
<1>8a. \A d \in Sides : u[d][p] = IF d = a THEN k ELSE c
  BY <1>2a, <1>8
<1>8b. \A d \in Sides : u[d][w] = IF d = a THEN p ELSE o
  <2>1. w \in L \cup {root} /\ w # p /\ t[b][w] = o /\ \A d \in Sides : d # a => d = b
    BY <1>0a, <1>2a, <1>2c, <1>2d
  <2>2. \A d \in Sides : u[d][w] = IF d = a THEN p ELSE t[d][w]
    BY <1>8, <2>1
  <2>3. QED
    BY <2>1, <2>2
<1>8d. \A q \in L \cup {root}, d \in Sides :
         q # p /\ q # w => u[d][q] = IF t[d][q] = p THEN w ELSE t[d][q]
  BY <1>8
<1>8f. u.parent[p] = w /\ u.parent[w] = t.parent[p] /\ (c # nil => u.parent[c] = p)
  <2>1. \A q \in L : u.parent[q] =
              IF q = p THEN w ELSE IF q = w THEN t.parent[p]
              ELSE IF q = c THEN p ELSE t.parent[q]
    BY <1>8, Zenon
  <2>2. c # nil => c \in L
    BY <1>1e
  <2>3. QED
    BY <1>2a, <1>2c, <2>1, <2>2
<1>8g. \A q \in L : q \notin {p, w, c} => u.parent[q] = t.parent[q]
  BY <1>8, Zenon
<1>8h. \A q \in Nodes \ L, d \in Sides : u[d][q] = t[d][q]
  BY <1>8
<1>8c. /\ ~u.red[p] /\ ~u.red[o] /\ (u.red[w] <=> t.red[p])
       /\ \A q \in All : q # p /\ q # w /\ q # o => (u.red[q] <=> t.red[q])
  <2>1. t.red \in [All -> BOOLEAN] /\ w \in All /\ p \in All /\ o \in All
    BY <1>0b, <1>2a DEF Tree
  <2>2. u.red = v.red
    BY <1>7 DEF Rotated
  <2> DEFINE r == [t.red EXCEPT ![w] = t.red[p]]
             r2 == [r EXCEPT ![p] = FALSE]
             r3 == [r2 EXCEPT ![o] = FALSE]
  <2>3. /\ r \in [All -> BOOLEAN] /\ (r[w] <=> t.red[p])
        /\ \A q \in All : q # w => (r[q] <=> t.red[q])
    BY <1>2a, <1>2c, <2>1
  <2>4. u.red = r3
    BY <1>4, <2>2
  <2> HIDE DEF r
  <2>5. /\ r2 \in [All -> BOOLEAN] /\ ~r2[p]
        /\ \A q \in All : q # p => (r2[q] <=> r[q])
    BY <2>1, <2>3
  <2> HIDE DEF r2
  <2>6. ~r3[o] /\ \A q \in All : q # o => (r3[q] <=> r2[q])
    BY SMTT(30), <2>1, <2>5
  <2> HIDE DEF r3
  <2>7. QED
    BY <1>2a, <1>2c, <2>1, <2>3, <2>4, <2>5, <2>6
<1>8p. ~u.red[p] /\ ~u.red[o]
  BY <1>8c
<1>8w. u.red[w] <=> t.red[p]
  BY <1>8c
<1>8q. \A q \in All : q # p /\ q # w /\ q # o => (u.red[q] <=> t.red[q])
  BY <1>8c
<1>8o. \A d \in Sides : t[d][o] \in All /\ t[d][o] \notin {p, w, o} /\ u[d][o] = t[d][o]
  <2>1. SUFFICES ASSUME NEW d \in Sides
                 PROVE  t[d][o] \in All /\ t[d][o] \notin {p, w, o} /\ u[d][o] = t[d][o]
    OBVIOUS
  <2>2. t[d][o] \in L \cup {nil} /\ (t[d][o] # nil => t.parent[t[d][o]] = o)
    BY <1>0b
  <2>3. t[d][o] \notin {p, w, o}
    BY <1>1, <1>1c, <1>2c, <1>2f, <2>2
  <2>4. u[d][o] = t[d][o]
    BY <1>2a, <1>2c, <1>8d, <2>3
  <2>5. QED
    BY <1>2a, <1>2b, <2>2, <2>3, <2>4
<1>9. Balanced(u, L, nil, "left")
  <2>1. PICK h : Heights(t, L, h, p, a)
    BY SMTT(30) DEF Owes, Balanced
  <2> DEFINE g == [h EXCEPT ![p] = h[w], ![w] = h[p], ![o] = h[w]]
  <2>0. /\ h \in [All -> Nat] /\ h[nil] = 0 /\ \A q \in All : h[q] \in Nat
        /\ \A q \in L, d \in Sides : h[q] = h[t[d][q]] + Weight(t, q) + Owed(q, d, p, a)
    BY <2>1 DEF Heights
  <2>0a. /\ Owed(p, a, p, a) = 1 /\ Owed(p, b, p, a) = 0
         /\ \A q \in L, d \in Sides : q # p => Owed(q, d, p, a) = 0
    BY <1>2e DEF Owed
  <2>0b. Weight(t, w) = 1 /\ Weight(t, o) = 0 /\ Weight(t, p) \in Nat
    BY DEF Weight
  <2>0c. \A q \in L : Owed(q, "left", nil, "left") = 0 /\ Owed(q, "right", nil, "left") = 0
    BY <1>2f DEF Owed
  <2>2. h[p] = h[k] + Weight(t, p) + 1 /\ h[p] = h[w] + Weight(t, p)
    <3>1. h[p] = h[t[a][p]] + Weight(t, p) + 1
      BY <1>2a, <1>2e, <2>0, <2>0a
    <3>2. h[p] = h[t[b][p]] + Weight(t, p) + 0
      BY <1>2a, <1>2e, <2>0, <2>0a
    <3>3. QED
      BY <1>2a, <1>2d, <2>0, <2>0b, <3>1, <3>2
  <2>2w. h[w] = h[c] + 1 /\ h[w] = h[o] + 1
    <3>1. h[w] = h[t[a][w]] + 1 + 0
      BY <1>2a, <1>2c, <1>2e, <2>0, <2>0a, <2>0b
    <3>2. h[w] = h[t[b][w]] + 1 + 0
      BY <1>2a, <1>2c, <1>2e, <2>0, <2>0a, <2>0b
    <3>3. QED
      BY <1>2a, <1>2b, <1>2d, <2>0, <3>1, <3>2
  <2>2o. \A d \in Sides : h[o] = h[t[d][o]] + 0 + 0
    BY <1>2a, <1>2c, <2>0, <2>0a, <2>0b
  <2>3. /\ \A q \in L, d \in Sides : t[d][q] \in All
        /\ \A q \in L \ {p}, d \in Sides : t[d][q] # w
        /\ \A q \in L \ {w}, d \in Sides : t[d][q] # o
        /\ \A d \in Sides : t[d][o] \notin {p, w, o}
    <3>2. \A q \in L, d \in Sides : t[d][q] \in All /\ (t[d][q] # nil => t.parent[t[d][q]] = q)
      BY <1>0b
    <3>3. t.parent[w] = p /\ t.parent[o] = w /\ t.parent[p] \notin {w, p, o}
      BY <1>1, <1>1c
    <3>4. w # nil /\ o # nil /\ p # nil
      BY <1>2f
    <3>5. \A q \in L \ {p}, d \in Sides : t[d][q] # w
      BY <3>2, <3>3, <3>4
    <3>6. \A q \in L \ {w}, d \in Sides : t[d][q] # o
      BY <3>2, <3>3, <3>4
    <3>7. \A d \in Sides : t[d][o] \notin {p, w, o}
      BY <1>8o
    <3>8. QED
      BY <3>2, <3>5, <3>6, <3>7
  <2>4. Weight(u, w) = Weight(t, p)
    BY <1>8w DEF Weight
  <2>5. g \in [All -> Nat]
    BY <1>2a, <2>0
  <2>6. \A q \in All : g[q] = IF q = p \/ q = o THEN h[w] ELSE IF q = w THEN h[p] ELSE h[q]
    BY <1>2a, <1>2c, <2>0
  <2> HIDE DEF g
  <2>6a. g[nil] = 0
    <3>1. nil \in All /\ nil # p /\ nil # o /\ nil # w /\ h[nil] = 0
      BY <1>2b, <1>2f, <2>0
    <3>2. QED
      BY <2>6, <3>1
  <2>7. ASSUME NEW q \in L, NEW d \in Sides
        PROVE  g[q] = g[u[d][q]] + Weight(u, q) + Owed(q, d, nil, "left")
    <3>0. Owed(q, d, nil, "left") = 0
      BY <2>0c DEF Sides
    <3>1. CASE q = p
      <4>1. u[d][q] = IF d = a THEN k ELSE c
        BY <1>8a, <3>1
      <4>2. g[q] = h[w] /\ g[k] = h[k] /\ g[c] = h[c]
        BY <1>2a, <1>2b, <1>2c, <2>6, <3>1
      <4>3. Weight(u, q) = 1
        BY <1>8p, <3>1 DEF Weight
      <4>4. g[u[d][q]] = h[k] \/ g[u[d][q]] = h[c]
        BY <4>1, <4>2
      <4>5. h[k] \in Nat /\ h[c] \in Nat /\ h[w] \in Nat /\ Weight(t, p) \in Nat
        BY <1>2a, <1>2b, <2>0, <2>0b
      <4>6. h[w] = h[k] + 1 /\ h[w] = h[c] + 1
        BY <2>2, <2>2w, <4>5
      <4>7. QED
        BY <3>0, <4>2, <4>3, <4>4, <4>5, <4>6
    <3>2. CASE q = w
      <4>1. u[d][q] = p \/ u[d][q] = o
        BY <1>8b, <3>2
      <4>2. g[q] = h[p] /\ g[p] = h[w] /\ g[o] = h[w]
        BY <1>2a, <1>2c, <2>6, <3>2
      <4>3. g[u[d][q]] = h[w]
        BY <4>1, <4>2
      <4>4. h[w] \in Nat /\ h[p] \in Nat /\ Weight(t, p) \in Nat
        BY <1>2a, <2>0, <2>0b
      <4>5. h[p] = h[w] + Weight(u, q)
        BY <2>2, <2>4, <3>2, <4>4
      <4>6. QED
        BY <3>0, <4>2, <4>3, <4>4, <4>5
    <3>3. CASE q = o
      <4>1. u[d][q] = t[d][o] /\ t[d][o] \in All /\ t[d][o] \notin {p, w, o}
        BY <1>2a, <1>8o, <2>3, <3>3
      <4>2. g[q] = h[w] /\ g[t[d][o]] = h[t[d][o]]
        BY <1>2a, <1>2c, <2>6, <3>3, <4>1
      <4>3. Weight(u, q) = 1
        BY <1>8p, <3>3 DEF Weight
      <4>4. h[w] \in Nat /\ h[o] \in Nat /\ h[t[d][o]] \in Nat
        BY <1>2a, <2>0, <4>1
      <4>5. g[u[d][q]] = h[o]
        <5>1. h[o] = h[t[d][o]] + 0 + 0
          BY <2>2o
        <5>2. g[u[d][q]] = h[t[d][o]]
          BY <4>1, <4>2
        <5>3. \A i \in Nat : i + 0 + 0 = i
          OBVIOUS
        <5>4. h[o] = h[t[d][o]]
          BY <4>4, <5>1, <5>3, Zenon
        <5>5. QED
          BY <5>2, <5>4, Zenon
      <4>6. QED
        BY <2>2w, <3>0, <4>2, <4>3, <4>4, <4>5
    <3>4. CASE q # p /\ q # w /\ q # o
      <4>1. h[q] = h[t[d][q]] + Weight(t, q) + 0
        BY <2>0, <2>0a, <3>4
      <4>2. u[d][q] = IF t[d][q] = p THEN w ELSE t[d][q]
        BY <1>8d, <3>4
      <4>3. t[d][q] \in All /\ t[d][q] # w /\ t[d][q] # o
        BY <2>3, <3>4
      <4>4. g[u[d][q]] = h[t[d][q]] /\ g[q] = h[q]
        BY <1>2a, <1>2c, <2>6, <3>4, <4>2, <4>3
      <4>5. Weight(u, q) = Weight(t, q)
        BY <1>2a, <1>8q, <3>4 DEF Weight
      <4>6. QED
        BY <3>0, <4>1, <4>4, <4>5
    <3>5. QED
      BY <3>1, <3>2, <3>3, <3>4
  <2>8. Heights(u, L, g, nil, "left")
    BY <2>5, <2>6a, <2>7, Zenon DEF Heights
  <2>9. QED
    BY <2>8 DEF Balanced
<1>10. NoPairs(u, L)
  <2>1. \A q \in L : t.red[q] => ~t.red[t.parent[q]]
    BY DEF Owes, NoPairs
  <2>2. \A q \in L : t.parent[q] \in All
    BY <1>0b
  <2>3. SUFFICES ASSUME NEW q \in L, u.red[q] PROVE ~u.red[u.parent[q]]
    BY DEF NoPairs
  <2>4. q # p /\ q # o
    BY <1>8p, <2>3
  <2>5. CASE q = w
    <3>1. u.parent[q] = t.parent[p] /\ t.red[p]
      BY <1>8f, <1>8w, <2>3, <2>5
    <3>2. ~t.red[t.parent[p]]
      BY <1>2a, <2>1, <3>1
    <3>3. u.red[t.parent[p]] <=> t.red[t.parent[p]]
      BY <1>1c, <1>8q
    <3>4. QED
      BY <3>1, <3>2, <3>3
  <2>6. CASE q = c
    BY <1>2f, <1>8f, <1>8p, <2>6
  <2>7. CASE q \notin {w, c}
    <3>1. u.parent[q] = t.parent[q]
      BY <1>8g, <2>4, <2>7
    <3>2. t.red[q]
      BY <1>2a, <1>8q, <2>3, <2>4, <2>7
    <3>3. ~t.red[t.parent[q]]
      BY <2>1, <3>2
    <3>4. t.parent[q] # w
      <4>1. PICK s \in Sides : t[s][t.parent[q]] = q
        BY <1>0 DEF Shaped, Wired
      <4>2. QED
        BY <1>0a, <1>2d, <2>4, <2>7, <4>1
    <3>5. t.parent[q] \in {p, o} \/ (u.red[t.parent[q]] <=> t.red[t.parent[q]])
      BY <1>8q, <2>2, <3>4
    <3>6. QED
      BY <1>8p, <3>1, <3>3, <3>5
  <2>8. QED
    BY <2>5, <2>6, <2>7
<1>11. Sentinels(u)
  <2>1. ~t.red[nil] /\ ~t.red[root]
    BY DEF Owes, Sentinels
  <2>2. root \notin {p, w, o} /\ nil \notin {p, w, o}
    BY <1>2a, <1>2f
  <2>3. QED
    BY <1>2b, <1>2f, <1>8q, <2>1, <2>2 DEF Sentinels
<1>12. /\ First(u) = (IF p = First(t) THEN w ELSE First(t))
       /\ (u.red[First(u)] <=> t.red[First(t)])
  <2>1. root # p /\ root # w
    BY <1>2a, <1>2f
  <2>2. u["left"][root] = (IF p = t["left"][root] THEN w ELSE t["left"][root])
    BY <1>8d, <2>1 DEF Sides
  <2>3. First(u) = u["left"][root] /\ First(t) = t["left"][root]
    BY DEF First
  <2>4. First(t) \in L \cup {nil} /\ (First(t) # nil => t.parent[First(t)] = root)
    <3>1. /\ t["left"][root] # nil
             => t["left"][root] \in L /\ t.parent[t["left"][root]] = root
      BY <1>0 DEF Shaped, Wired, Sides
    <3>2. QED
      BY <2>3, <3>1
  <2>5. First(t) # w /\ First(t) # o /\ First(t) \in All
    BY <1>1, <1>2a, <1>2b, <1>2f, <2>4
  <2>6. First(u) = (IF p = First(t) THEN w ELSE First(t))
    BY <2>2, <2>3
  <2>7. u.red[First(u)] <=> t.red[First(t)]
    <3>1. CASE p = First(t)
      BY <1>8w, <2>6, <3>1
    <3>2. CASE p # First(t)
      BY <1>8q, <2>5, <2>6, <3>2
    <3>3. QED
      BY <3>1, <3>2
  <2>8. QED
    BY <2>6, <2>7
<1>13. ~u.red[p] /\ u.parent[p] \in L /\ \A q \in Nodes \ L, d \in Sides : u[d][q] = t[d][q]
  BY <1>2a, <1>8f, <1>8h, <1>8p
<1>14. QED
  BY <1>7, <1>9, <1>10, <1>11, <1>12, <1>13, Zenon DEF Whole

(***************************************************************************)
(* Recursion over the tree.                                                *)
(***************************************************************************)
(* A set of numbers has a first one.                                       *)
LEMMA FirstExists ==
  ASSUME NEW E \in SUBSET Nat, E # {}
  PROVE  \E m \in E : \A q \in E : m <= q
<1>1. PICK m \in E : \A q \in E : ~(<<q, m>> \in OpToRel(<, Nat))
  BY NatLessThanWellFounded, WFMin, Zenon
<1>2. \A q \in E : ~(q < m)
  BY <1>1 DEF OpToRel
<1>3. QED
  BY <1>2

(* A property of nodes that every node has if those below it do.           *)
LEMMA FromBelow ==
  ASSUME NEW t, NEW L \in SUBSET Nodes, Shaped(t, L), NEW G,
         \A n \in L : (\A s \in Sides : t[s][n] \in L => t[s][n] \in G) => n \in G
  PROVE  L \subseteq G
<1>1. PICK e : Ranked(t, L, e)
  BY DEF Shaped
<1> DEFINE E == {e[n] : n \in L \ G}
<1>2. SUFFICES ASSUME E # {} PROVE FALSE
  OBVIOUS
<1>3. E \in SUBSET Nat
  BY <1>1, WiredFacts DEF Ranked
<1>4. PICK n \in L \ G : \A q \in L \ G : e[n] <= e[q]
  <2>1. PICK m \in E : \A q \in E : m <= q
    BY <1>2, <1>3, FirstExists
  <2>2. QED
    BY <2>1
<1>5. ASSUME NEW s \in Sides, t[s][n] \in L PROVE t[s][n] \in G
  <2>1. t.parent[t[s][n]] = n
    BY <1>4, <1>5, WiredFacts DEF Shaped, Wired
  <2>2. e[t[s][n]] < e[n] /\ e[n] \in Nat /\ e[t[s][n]] \in Nat
    BY <1>1, <1>4, <1>5, <2>1, WiredFacts DEF Ranked
  <2>3. QED
    BY <1>4, <1>5, <2>2
<1>6. QED
  BY <1>4, <1>5

(* The way down on the sides dir.                                          *)
Down(t, dir, g) ==
  g = [m \in Nodes |-> IF t[dir[m]][m] = nil THEN m ELSE g[t[dir[m]][m]]]

(* The recursive way down is defined: it comes to an end.                  *)
LEMMA DownExists ==
  ASSUME NEW t, NEW L \in SUBSET Nodes, Shaped(t, L), NEW dir \in [Nodes -> Sides],
         \A q \in Nodes \ L, d \in Sides : t[d][q] = nil
  PROVE  \E g : Down(t, dir, g)
<1>1. PICK e : Ranked(t, L, e)
  BY DEF Shaped
<1> DEFINE c(m) == t[dir[m]][m]
           Good(k, f) == \A m \in Nodes : m \notin L \/ e[m] < k =>
                           f[m] = IF c(m) = nil THEN m ELSE f[c(m)]
           E == {k \in Nat : ~\E f \in [Nodes -> Nodes] : Good(k, f)}
<1>2. \A m \in Nodes : c(m) # nil => m \in L /\ c(m) \in L /\ e[c(m)] < e[m]
  <2> SUFFICES ASSUME NEW m \in Nodes, c(m) # nil
               PROVE  m \in L /\ c(m) \in L /\ e[c(m)] < e[m]
    OBVIOUS
  <2>1. dir[m] \in Sides /\ m \in L
    OBVIOUS
  <2>2. c(m) \in L /\ t.parent[c(m)] = m
    BY <2>1 DEF Shaped, Wired
  <2>3. QED
    BY <1>1, <2>1, <2>2 DEF Ranked
<1>3. \A m \in L : e[m] \in Nat
  BY <1>1, WiredFacts DEF Ranked
<1> HIDE DEF c
<1>4. E = {}
  <2>1. SUFFICES ASSUME E # {} PROVE FALSE
    OBVIOUS
  <2>2. PICK k \in E : \A j \in E : k <= j
    BY <2>1, FirstExists
  <2>3. k # 0
    <3> DEFINE f == [m \in Nodes |-> m]
    <3>1. f \in [Nodes -> Nodes] /\ Good(0, f)
      BY <1>2, <1>3
    <3> HIDE DEF f
    <3>2. QED
      BY <3>1, Zenon
  <2>4. k - 1 \in Nat /\ k - 1 \notin E
    <3>1. k \in Nat
      OBVIOUS
    <3> HIDE DEF E
    <3>2. QED
      BY <2>2, <2>3, <3>1
  <2>5. PICK f \in [Nodes -> Nodes] : Good(k - 1, f)
    BY <2>4
  <2> DEFINE g == [m \in Nodes |-> IF c(m) = nil THEN m ELSE f[c(m)]]
  <2>6. g \in [Nodes -> Nodes]
    BY <1>2
  <2>7. Good(k, g)
    <3> SUFFICES ASSUME NEW m \in Nodes, m \notin L \/ e[m] < k
                 PROVE  g[m] = IF c(m) = nil THEN m ELSE g[c(m)]
      OBVIOUS
    <3>1. CASE c(m) = nil
      BY <3>1
    <3>2. CASE c(m) # nil
      <4>1. c(m) \in L /\ e[c(m)] < k - 1 /\ c(m) \in Nodes
        BY <1>2, <1>3, <2>4, <3>2
      <4>2. f[c(m)] = IF c(c(m)) = nil THEN c(m) ELSE f[c(c(m))]
        BY <2>5, <4>1
      <4>3. g[c(m)] = IF c(c(m)) = nil THEN c(m) ELSE f[c(c(m))]
        BY <4>1
      <4>4. QED
        BY <3>2, <4>2, <4>3
    <3>3. QED
      BY <3>1, <3>2
  <2>8. QED
    BY <2>2, <2>6, <2>7
<1>5. e[root] \in Nat
  BY <1>1, WiredFacts DEF Ranked
<1>6. PICK f \in [Nodes -> Nodes] : Good(e[root], f)
  BY <1>4, <1>5
<1>7. \A m \in Nodes : f[m] = IF c(m) = nil THEN m ELSE f[c(m)]
  BY <1>1, <1>6 DEF Ranked
<1>8. Down(t, dir, f)
  BY <1>6, <1>7 DEF Down, c
<1>9. QED
  BY <1>8

(* It ends at a node of the tree that has nothing on that side.            *)
LEMMA DownEnds ==
  ASSUME NEW t, NEW L \in SUBSET Nodes, Shaped(t, L), NEW dir \in [Nodes -> Sides],
         NEW g, Down(t, dir, g)
  PROVE  \A m \in L : g[m] \in L /\ t[dir[g[m]]][g[m]] = nil
<1> DEFINE G == {m \in L : g[m] \in L /\ t[dir[g[m]]][g[m]] = nil}
<1>1. ASSUME NEW n \in L, \A s \in Sides : t[s][n] \in L => t[s][n] \in G
      PROVE  n \in G
  <2>1. n \in Nodes /\ dir[n] \in Sides
    OBVIOUS
  <2>2. g[n] = IF t[dir[n]][n] = nil THEN n ELSE g[t[dir[n]][n]]
    BY <2>1, Zenon DEF Down
  <2>3. t[dir[n]][n] \in L \cup {nil}
    BY <2>1, WiredFacts
  <2>4. QED
    BY <1>1, <2>1, <2>2, <2>3
<1> HIDE DEF G
<1>2. L \subseteq G
  BY <1>1, FromBelow
<1>3. QED
  BY <1>2 DEF G

(***************************************************************************)
(* The invariant.                                                          *)
(***************************************************************************)
Debtor == IF pc = "fixup" /\ (tree.red[x] \/ x # top) THEN tree.parent[x] ELSE nil

(* The nodes in the tree, and those outside, which lead to nothing, but    *)
(* that y still leads to what was below it.                                *)
Tidy ==
  \A d \in Sides :
    /\ \A q \in Nodes \ live : tree[d][q] = nil
    /\ Deleting => tree[d][y] \in Linked \cup {nil}

(* RBTreeDestroy leaves the fields of what it has released.                *)
Remains ==
  \E L \in SUBSET Nodes :
    /\ Shaped(tree, L) /\ Balanced(tree, L, nil, "left")
    /\ \A q \in Nodes \ L, d \in Sides : tree[d][q] = nil

Sound ==
  IF pc = "destroyed" THEN live = {} /\ Remains
  ELSE /\ Shaped(tree, Linked)
       /\ Balanced(tree, Linked, Debtor, SideOf(tree, x))
       /\ Tidy

(* Two reds above each other are next to x, and the first node is black    *)
(* but for x.                                                              *)
Colours ==
  /\ Sentinels(tree)
  /\ tree.red[First(tree)] => pc \in {"insert", "fixup"} /\ x = First(tree)
  /\ \A n \in Linked :
       tree.red[n] /\ tree.red[tree.parent[n]]
         => \/ pc = "insert" /\ n = x
            \/ pc = "fixup" /\ x \in {n, tree.parent[n]}

(* The locals of the repairs; nil has the parent that RBDelete gave it.    *)
Locals ==
  /\ pc = "insert" => x \in live /\ tree.red[x]
  /\ pc = "fixup" =>
       /\ x \in Linked \cup {nil}
       /\ IF tree.parent[x] = root THEN x = First(tree)
          ELSE tree.parent[x] \in Linked /\ \E s \in Sides : tree[s][tree.parent[x]] = x
       /\ x # top => First(tree) = top /\ ~tree.red[top]

RbtInv == RbtTypeOK /\ Sound /\ Colours /\ Locals

(* Who owes nothing is no debtor, whoever is named.                        *)
LEMMA NoDebt ==
  ASSUME NEW t, NEW L, NEW p, NEW a, NEW q, NEW d, p \notin L, q \notin L,
         Balanced(t, L, p, a)
  PROVE  Balanced(t, L, q, d)
<1>1. PICK h : Heights(t, L, h, p, a)
  BY DEF Balanced
<1>2. Heights(t, L, h, q, d)
  BY <1>1 DEF Heights, Owed
<1>3. QED
  BY <1>2 DEF Balanced

(***************************************************************************)
(* Insertion.                                                              *)
(***************************************************************************)
(* TreeInsertHelp finds a free place.                                      *)
LEMMA PlaceIsFree ==
  ASSUME NEW t, NEW L \in SUBSET Nodes, Shaped(t, L),
         \A q \in Nodes \ L, d \in Sides : t[d][q] = nil, NEW k, NEW p, p = InsertPlace(t, k)
  PROVE  \/ p = root /\ First(t) = nil
         \/ p \in L /\ t[Below(t, p, k)][p] = nil
<1>1. CASE First(t) = nil
  BY <1>1 DEF InsertPlace
<1>2. CASE First(t) # nil
  <2> DEFINE dir == [m \in Nodes |-> Below(t, m, k)]
  <2>1. dir \in [Nodes -> Sides]
    BY DEF Below, Sides
  <2> DEFINE go[m \in Nodes] ==
               LET c == t[Below(t, m, k)][m] IN IF c = nil THEN m ELSE go[c]
  <2>2. \E g : Down(t, dir, g)
    BY <2>1, DownExists
  <2>3. Down(t, dir, go)
    <3>1. PICK g : Down(t, dir, g)
      BY SMTT(30), <2>2
    <3>2. g = [m \in Nodes |-> LET c == t[Below(t, m, k)][m] IN IF c = nil THEN m ELSE g[c]]
      BY SMTT(30), <3>1 DEF Down
    <3>3. go = [m \in Nodes |-> LET c == t[Below(t, m, k)][m] IN IF c = nil THEN m ELSE go[c]]
      BY <3>2
    <3> HIDE DEF go
    <3>4. QED
      BY <3>3 DEF Down
  <2> HIDE DEF go
  <2>4. First(t) \in L
    BY <1>2, WiredFacts DEF First, Sides
  <2>5. p = go[First(t)]
    BY <1>2 DEF InsertPlace, go
  <2>6. p \in L /\ t[dir[p]][p] = nil
    BY <2>1, <2>3, <2>4, <2>5, DownEnds
  <2>7. QED
    BY <2>6
<1>3. QED
  BY <1>1, <1>2

(* A new red leaf.                                                         *)
Leaf(t, a, p, n, k) ==
  [t EXCEPT ![a][p] = n, !.left[n] = nil, !.right[n] = nil,
            !.parent[n] = p, !.red[n] = TRUE, !.key[n] = k]

(* The fields of every node after TreeInsertHelp.                          *)
LEMMA LeafEffect ==
  ASSUME NEW t \in Tree, NEW a \in Sides, NEW p \in All, NEW n \in Nodes, NEW k \in Int,
         p # n, NEW u, u = Leaf(t, a, p, n, k)
  PROVE  /\ u \in Tree
         /\ \A q \in All, d \in Sides : u[d][q] =
              IF q = n THEN nil ELSE IF q = p /\ d = a THEN n ELSE t[d][q]
         /\ \A q \in All : u.parent[q] = IF q = n THEN p ELSE t.parent[q]
         /\ u.red[n] /\ \A q \in All : q # n => (u.red[q] <=> t.red[q])
<1> DEFINE b == Other(a)
           u1 == [t EXCEPT ![a][p] = n]
           u2 == [u1 EXCEPT !.left[n] = nil, !.right[n] = nil]
           u3 == [u2 EXCEPT !.parent[n] = p, !.red[n] = TRUE, !.key[n] = k]
<1>0. b \in Sides /\ n \in All /\ nil \in All /\ \A d \in Sides : d = a \/ d = b
  BY DEF Sides, Other, All
<1>1. /\ u1 \in Tree /\ u1.parent = t.parent /\ u1.red = t.red /\ u1.key = t.key
      /\ u1[a] = [t[a] EXCEPT ![p] = n] /\ u1[b] = t[b]
  <2>1. CASE a = "left"
    BY <1>0, <2>1 DEF Tree, Other
  <2>2. CASE a = "right"
    BY <1>0, <2>2 DEF Tree, Other
  <2>3. QED
    BY <2>1, <2>2 DEF Sides
<1>2. u = u3
  BY Zenon DEF Leaf
<1> HIDE DEF u1
<1>3. /\ u2 \in Tree /\ u2.parent = t.parent /\ u2.red = t.red /\ u2.key = t.key
      /\ \A d \in Sides : u2[d] = [u1[d] EXCEPT ![n] = nil]
  BY <1>0, <1>1 DEF Tree, Sides
<1> HIDE DEF u2
<1>4. /\ u3 \in Tree /\ u3.parent = [t.parent EXCEPT ![n] = p]
      /\ u3.red = [t.red EXCEPT ![n] = TRUE] /\ \A d \in Sides : u3[d] = u2[d]
  BY <1>0, <1>3 DEF Tree, Sides
<1> HIDE DEF u3
<1>5. \A q \in All, d \in Sides : u3[d][q] =
        IF q = n THEN nil ELSE IF q = p /\ d = a THEN n ELSE t[d][q]
  BY <1>0, <1>1, <1>3, <1>4 DEF Tree, Sides, Other
<1>6. \A q \in All : u3.parent[q] = IF q = n THEN p ELSE t.parent[q]
  BY <1>0, <1>4 DEF Tree
<1>7. u3.red[n] /\ \A q \in All : q # n => (u3.red[q] <=> t.red[q])
  BY <1>0, <1>4 DEF Tree
<1>8. QED
  BY <1>2, <1>4, <1>5, <1>6, <1>7

(* The tree with the leaf is shaped and balanced.                          *)
LEMMA LeafKeeps ==
  ASSUME NEW t, NEW L \in SUBSET Nodes, Shaped(t, L), Balanced(t, L, nil, "left"),
         NEW n \in Nodes \ L, NEW k \in Int, NEW p \in L \cup {root}, NEW a \in Sides,
         p = root => a = "left", t[a][p] = nil,
         NEW u, u = Leaf(t, a, p, n, k)
  PROVE  Shaped(u, L \cup {n}) /\ Balanced(u, L \cup {n}, nil, "left")
<1>1. /\ L \subseteq All /\ nil \in All /\ root \in All /\ p \in All /\ n \in All
      /\ nil \notin L /\ root \notin L /\ nil # root /\ n # nil /\ n # root /\ p # n /\ p # nil
      /\ t \in Tree /\ \A q \in L : t.parent[q] \in L \cup {root}
  BY WiredFacts, NodesAssumption DEF Shaped, Wired, All
<1>2. /\ u \in Tree
      /\ \A q \in All, d \in Sides : u[d][q] =
           IF q = n THEN nil ELSE IF q = p /\ d = a THEN n ELSE t[d][q]
      /\ \A q \in All : u.parent[q] = IF q = n THEN p ELSE t.parent[q]
      /\ u.red[n] /\ \A q \in All : q # n => (u.red[q] <=> t.red[q])
  BY SMTT(30), <1>1, LeafEffect
<1>3. Wired(u, L \cup {n})
  <2>1. u.right[root] = nil
    BY <1>1, <1>2 DEF Shaped, Wired, Sides
  <2>2. \A q \in L \cup {n, root}, d \in Sides :
          u[d][q] # nil => u[d][q] \in L \cup {n} /\ u.parent[u[d][q]] = q
    BY <1>1, <1>2 DEF Shaped, Wired
  <2>3. ASSUME NEW q \in L \cup {n}
        PROVE  /\ u.parent[q] \in L \cup {n, root}
               /\ \E d \in Sides : u[d][u.parent[q]] = q /\ u[Other(d)][u.parent[q]] # q
    <3>1. CASE q = n
      <4>1. u.parent[q] = p /\ u[a][p] = n /\ u[Other(a)][p] = t[Other(a)][p]
        BY <1>1, <1>2, <3>1 DEF Sides, Other
      <4>2. t[Other(a)][p] # n /\ Other(a) \in Sides
        BY WiredFacts, <1>1 DEF Sides, Other
      <4>3. QED
        BY <3>1, <4>1, <4>2
    <3>2. CASE q # n
      <4>1. u.parent[q] = t.parent[q] /\ t.parent[q] \in L \cup {root}
        BY <1>1, <1>2, <3>2
      <4>2. PICK d \in Sides : t[d][t.parent[q]] = q /\ t[Other(d)][t.parent[q]] # q
        BY <3>2 DEF Shaped, Wired
      <4>3. Other(d) \in Sides /\ q # nil
        BY <1>1, <3>2 DEF Sides, Other
      <4>4. u[d][t.parent[q]] = q /\ u[Other(d)][t.parent[q]] # q
        BY <1>1, <1>2, <3>2, <4>1, <4>2, <4>3
      <4>5. QED
        BY <4>1, <4>2, <4>4
    <3>3. QED
      BY <3>1, <3>2
  <2>4. QED
    BY <2>1, <2>2, <2>3 DEF Wired
<1>4. \E e : Ranked(u, L \cup {n}, e)
  <2>1. PICK e : Ranked(t, L, e)
    BY DEF Shaped
  <2> DEFINE f == [q \in All |-> IF q = n THEN 0 ELSE e[q] + 1]
  <2>2. f \in [All -> Nat] /\ \A q \in All : f[q] = IF q = n THEN 0 ELSE e[q] + 1
    BY <2>1 DEF Ranked
  <2>3. \A q \in All : e[q] \in Nat
    BY <2>1 DEF Ranked
  <2> HIDE DEF f
  <2>4. ASSUME NEW q \in L \cup {n} PROVE f[q] < f[u.parent[q]] /\ f[q] < f[root]
    <3>1. CASE q = n
      BY <1>1, <1>2, <2>2, <2>3, <3>1
    <3>2. CASE q # n
      <4>1. u.parent[q] = t.parent[q] /\ t.parent[q] \in All /\ t.parent[q] # n
        BY <1>1, <1>2, <3>2
      <4>2. e[q] < e[t.parent[q]] /\ e[q] < e[root]
        BY <2>1, <3>2 DEF Ranked
      <4>3. QED
        BY <1>1, <2>2, <2>3, <3>2, <4>1, <4>2
    <3>3. QED
      BY <3>1, <3>2
  <2>5. QED
    BY <2>2, <2>4 DEF Ranked
<1>5. Balanced(u, L \cup {n}, nil, "left")
  <2>1. PICK h : Heights(t, L, h, nil, "left")
    BY DEF Balanced
  <2> DEFINE g == [h EXCEPT ![n] = 0]
  <2>2. /\ g \in [All -> Nat] /\ g[nil] = 0
        /\ \A q \in All : g[q] = IF q = n THEN 0 ELSE h[q]
    BY <1>1, <2>1 DEF Heights
  <2>3. h[nil] = 0 /\ \A q \in All : h[q] \in Nat
    BY <2>1 DEF Heights
  <2> HIDE DEF g
  <2>4. ASSUME NEW q \in L \cup {n}, NEW d \in Sides
        PROVE  g[q] = g[u[d][q]] + Weight(u, q) + Owed(q, d, nil, "left")
    <3>0. Owed(q, d, nil, "left") = 0
      BY <1>1 DEF Owed
    <3>1. CASE q = n
      <4>1. u[d][q] = nil /\ Weight(u, q) = 0
        BY <1>1, <1>2, <3>1 DEF Weight
      <4>2. QED
        BY <1>1, <2>2, <3>0, <3>1, <4>1
    <3>2. CASE q # n
      <4>1. h[q] = h[t[d][q]] + Weight(t, q) + 0
        BY <1>1, <2>1, <3>2 DEF Heights, Owed
      <4>2. Weight(u, q) = Weight(t, q)
        BY <1>1, <1>2, <3>2 DEF Weight
      <4>3. t[d][q] \in All /\ t[d][q] # n
        BY <1>1, <3>2, WiredFacts
      <4>4. g[u[d][q]] = h[t[d][q]] /\ g[q] = h[q]
        BY <1>1, <1>2, <2>2, <2>3, <3>2, <4>3
      <4>5. QED
        BY <3>0, <4>1, <4>2, <4>4
    <3>3. QED
      BY <3>1, <3>2
  <2>5. QED
    BY <2>2, <2>4 DEF Balanced, Heights
<1>6. QED
  BY <1>2, <1>3, <1>4, <1>5 DEF Shaped

(* Where no call is under way.                                             *)
LEMMA IdleFacts ==
  ASSUME RbtInv, pc \in {"idle", "insert"}
  PROVE  /\ Linked = live /\ live \in SUBSET Nodes /\ ~Deleting
         /\ Shaped(tree, live) /\ Balanced(tree, live, nil, "left")
         /\ \A q \in Nodes \ live, d \in Sides : tree[d][q] = nil
         /\ Sentinels(tree)
<1>1. Linked = live /\ live \in SUBSET Nodes /\ ~Deleting /\ Debtor = nil
  BY DEF Linked, Deleting, Debtor, RbtInv, RbtTypeOK
<1>2. Shaped(tree, live) /\ Balanced(tree, live, nil, SideOf(tree, x)) /\ Tidy /\ Sentinels(tree)
  BY <1>1 DEF RbtInv, Sound, Colours
<1>3. nil \notin live
  BY <1>1, NodesAssumption
<1>4. QED
  BY <1>1, <1>2, <1>3, NoDebt DEF Tidy

(* RBTreeInsert up to its loop keeps the invariant.                        *)
LEMMA InsertKeeps ==
  ASSUME RbtInv, NEW add \in Adds, RBTreeInsert(add[1], add[2]) PROVE RbtInv'
<1> DEFINE n == add[1]
           k == add[2]
           p == InsertPlace(tree, k)
           a == IF p = root THEN "left" ELSE Below(tree, p, k)
<1>1. n \in Nodes /\ k \in Int
  BY AddsAssumption
<1>2. /\ pc = "idle" /\ n \notin live /\ live' = live \cup {n} /\ x' = n /\ pc' = "insert"
      /\ y' = y /\ z' = z /\ top' = top
      /\ tree' = Leaf(tree, a, p, n, k)
  BY Zenon DEF RBTreeInsert, Leaf, locals
<1> HIDE DEF n, k
<1>3. /\ Linked = live /\ live \in SUBSET Nodes
      /\ Shaped(tree, live) /\ Balanced(tree, live, nil, "left")
      /\ \A q \in Nodes \ live, d \in Sides : tree[d][q] = nil
      /\ Sentinels(tree) /\ tree \in Tree
  BY <1>2, IdleFacts DEF Shaped
<1>4. \/ p = root /\ First(tree) = nil
      \/ p \in live /\ tree[Below(tree, p, k)][p] = nil
  BY <1>3, PlaceIsFree
<1>5. /\ p \in live \cup {root} /\ a \in Sides /\ (p = root => a = "left") /\ tree[a][p] = nil
  BY <1>3, <1>4, NodesAssumption DEF Below, Sides, First
<1> HIDE DEF p, a
<1>6. Shaped(tree', live') /\ Balanced(tree', live', nil, "left")
  BY <1>1, <1>2, <1>3, <1>5, LeafKeeps
<1>7. /\ live \subseteq All /\ nil \in All /\ root \in All /\ p \in All /\ n \in All
      /\ nil \notin live /\ root \notin live /\ nil # root /\ n # nil /\ n # root
      /\ p # n /\ p # nil
  BY <1>1, <1>2, <1>3, <1>5, WiredFacts, NodesAssumption DEF All
<1>8. /\ tree' \in Tree
      /\ \A q \in All, d \in Sides : tree'[d][q] =
           IF q = n THEN nil ELSE IF q = p /\ d = a THEN n ELSE tree[d][q]
      /\ \A q \in All : tree'.parent[q] = IF q = n THEN p ELSE tree.parent[q]
      /\ tree'.red[n] /\ \A q \in All : q # n => (tree'.red[q] <=> tree.red[q])
  <2>1. PICK u : u = tree'
    OBVIOUS
  <2>2. u = Leaf(tree, a, p, n, k)
    BY <1>2, <2>1
  <2>3. p # n /\ tree \in Tree /\ a \in Sides /\ p \in All /\ n \in Nodes /\ k \in Int
    BY <1>1, <1>3, <1>5, <1>7
  <2>4. /\ u \in Tree
        /\ \A q \in All, d \in Sides : u[d][q] =
             IF q = n THEN nil ELSE IF q = p /\ d = a THEN n ELSE tree[d][q]
        /\ \A q \in All : u.parent[q] = IF q = n THEN p ELSE tree.parent[q]
        /\ u.red[n] /\ \A q \in All : q # n => (u.red[q] <=> tree.red[q])
    BY <2>2, <2>3, LeafEffect
  <2>5. QED
    BY <2>1, <2>4
<1>9. live' \in SUBSET Nodes /\ Linked' = live' /\ ~Deleting' /\ Debtor' = nil
  BY <1>1, <1>2, <1>3 DEF Linked, Deleting, Debtor
<1>10. RbtTypeOK'
  BY <1>1, <1>2, <1>7, <1>8, <1>9 DEF RbtTypeOK, Tree, RbtInv, Deleting
<1>11. Sound'
  <2>1. Balanced(tree', Linked', Debtor', SideOf(tree, x)')
    BY <1>1, <1>2, <1>6, <1>7, <1>9, NoDebt
  <2>2. Tidy'
    <3>1. \A q \in Nodes : q \in All
      BY DEF All
    <3>2. \A d \in Sides, q \in Nodes \ live' : tree'[d][q] = nil
      <4> SUFFICES ASSUME NEW d \in Sides, NEW q \in Nodes \ live' PROVE tree'[d][q] = nil
        OBVIOUS
      <4>1. q \in All /\ q # n /\ q \notin live /\ tree[d][q] = nil
        BY <1>2, <1>3, <3>1
      <4>2. q # p
        BY <1>5, <4>1, NodesAssumption
      <4>3. QED
        BY <1>8, <4>1, <4>2
    <3>3. QED
      BY <1>9, <3>2 DEF Tidy
  <2>3. QED
    BY <1>2, <1>6, <1>9, <2>1, <2>2 DEF Sound
<1>12. Colours'
  <2>1. Sentinels(tree')
    BY <1>3, <1>7, <1>8 DEF Sentinels
  <2>2. tree'.red[First(tree')] => First(tree') = n
    <3>1. CASE p = root
      BY <1>5, <1>7, <1>8, <3>1 DEF First, Sides
    <3>2. CASE p # root
      <4>1. First(tree') = First(tree) /\ First(tree) \in All
        BY <1>3, <1>7, <1>8, <3>2, WiredFacts DEF First, Sides
      <4>2. ~tree.red[First(tree)]
        BY <1>2 DEF RbtInv, Colours
      <4>3. QED
        BY <1>8, <4>1, <4>2
    <3>3. QED
      BY <3>1, <3>2
  <2>3. ASSUME NEW q \in live', q # n PROVE ~(tree'.red[q] /\ tree'.red[tree'.parent[q]])
    <3>1. q \in live /\ tree'.parent[q] = tree.parent[q] /\ tree.parent[q] \in live \cup {root}
      BY <1>2, <1>3, <1>7, <1>8, <2>3 DEF Shaped, Wired
    <3>2. ~(tree.red[q] /\ tree.red[tree.parent[q]])
      BY <1>2, <1>3, <3>1 DEF RbtInv, Colours
    <3>3. QED
      BY <1>2, <1>7, <1>8, <2>3, <3>1, <3>2
  <2>4. QED
    BY <1>2, <1>9, <2>1, <2>2, <2>3 DEF Colours
<1>13. Locals'
  BY <1>2, <1>8 DEF Locals
<1>14. QED
  BY <1>10, <1>11, <1>12, <1>13 DEF RbtInv

(* The parts of the invariant that matter where no deletion is under way:  *)
(* m is the node that may be red below a red one, if any may be.           *)
Settled(u, L, m, inserting) ==
  /\ Shaped(u, L) /\ Balanced(u, L, nil, "left") /\ Sentinels(u)
  /\ \A q \in Nodes \ L, d \in Sides : u[d][q] = nil
  /\ u.red[First(u)] => inserting /\ m = First(u)
  /\ \A n \in L : u.red[n] /\ u.red[u.parent[n]] => inserting /\ n = m
  /\ inserting => m \in L /\ u.red[m]

(* A settled tree makes RbtInv true of the next state.                     *)
LEMMA AtRest ==
  ASSUME NEW u, NEW L \in SUBSET Nodes, NEW m \in All, Settled(u, L, m, pc' = "insert"),
         tree' = u, live' = L, x' = m, y' = nil, z' = nil, top' \in Nodes \cup {nil},
         pc' \in {"idle", "insert"}
  PROVE  RbtInv'
<1>1. Linked' = L /\ ~Deleting' /\ Debtor' = nil
  BY DEF Linked, Deleting, Debtor
<1>2. nil \notin L
  BY NodesAssumption
<1>3. RbtTypeOK'
  BY <1>1 DEF RbtTypeOK, Shaped, Tree, Deleting, Settled
<1>4. Sound'
  <2>1. Balanced(u, L, nil, SideOf(tree, x)')
    BY <1>2, NoDebt DEF Settled
  <2>2. Tidy'
    BY <1>1 DEF Tidy, Settled
  <2>3. QED
    BY <1>1, <2>1, <2>2 DEF Sound, Settled
<1>5. Colours'
  BY <1>1 DEF Colours, Settled
<1>6. Locals'
  BY DEF Locals, Settled
<1>7. QED
  BY <1>3, <1>4, <1>5, <1>6 DEF RbtInv

(* Where a node is below its parent.                                       *)
LEMMA SideOfFacts ==
  ASSUME NEW t, NEW L, Wired(t, L), NEW n \in L
  PROVE  SideOf(t, n) \in Sides /\ t[SideOf(t, n)][t.parent[n]] = n
BY DEF Wired, SideOf, Sides, Other

(* The red m has a red parent p, on side a of the black g.                 *)
Rising(t, L, a, m, p, g) ==
  /\ Shaped(t, L) /\ Balanced(t, L, nil, "left") /\ Sentinels(t) /\ ~t.red[First(t)]
  /\ a \in Sides /\ m \in L /\ p \in L /\ g \in L
  /\ t.parent[m] = p /\ t.parent[p] = g /\ t[a][g] = p
  /\ t.red[m] /\ t.red[p] /\ ~t.red[g]
  /\ \A n \in L : t.red[n] /\ t.red[t.parent[n]] => n = m

(* What the loop of the insertion finds above a red pair.                  *)
LEMMA InsertFacts ==
  ASSUME RbtInv, pc = "insert", tree.red[tree.parent[x]],
         NEW p, p = tree.parent[x]
  PROVE  Rising(tree, live, SideOf(tree, p), x, p, tree.parent[p])
<1> DEFINE g == tree.parent[p]
           a == SideOf(tree, p)
<1>1. /\ Linked = live /\ live \in SUBSET Nodes
      /\ Shaped(tree, live) /\ Balanced(tree, live, nil, "left") /\ Sentinels(tree)
  BY IdleFacts
<1>2. x \in live /\ tree.red[x]
  BY DEF RbtInv, Locals
<1>3. /\ tree.red[First(tree)] => x = First(tree)
      /\ \A n \in live : tree.red[n] /\ tree.red[tree.parent[n]] => n = x
  BY <1>1 DEF RbtInv, Colours
<1>4. p \in live /\ p # x
  <2>1. p \in live \cup {root}
    BY <1>1, <1>2 DEF Shaped, Wired
  <2>2. p # root
    BY <1>1 DEF Sentinels
  <2>3. p # x
    BY <1>1, <1>2, WiredFacts
  <2>4. QED
    BY <2>1, <2>2, <2>3
<1>5. a \in Sides /\ tree[a][g] = p /\ g \in live \cup {root}
  <2>1. Wired(tree, live)
    BY <1>1 DEF Shaped
  <2>2. QED
    BY SMTT(30), <1>4, <2>1, SideOfFacts DEF Wired
<1>6. tree.parent[First(tree)] = root \/ First(tree) = nil
  BY <1>1 DEF Shaped, Wired, First, Sides
<1>7. ~tree.red[First(tree)]
  BY <1>1, <1>2, <1>3, <1>4, <1>6 DEF Sentinels
<1>8. g # root
  <2>1. SUFFICES ASSUME g = root PROVE FALSE
    OBVIOUS
  <2>2. a = "left"
    BY <1>1, <1>4, <1>5, <2>1, NodesAssumption DEF Shaped, Wired, Sides
  <2>3. QED
    BY <1>5, <1>7, <2>1, <2>2 DEF First
<1>9. ~tree.red[g]
  BY <1>3, <1>4
<1>10. QED
  BY <1>1, <1>2, <1>3, <1>4, <1>5, <1>7, <1>8, <1>9 DEF Rising

(* Two red siblings give their black to the node above them.               *)
Recoloured(t, p, w, g) == [t EXCEPT !.red[p] = FALSE, !.red[w] = FALSE, !.red[g] = TRUE]

Risen(t, L, g, u) ==
  /\ Shaped(u, L) /\ Balanced(u, L, nil, "left") /\ Sentinels(u)
  /\ \A q \in Nodes \ L, d \in Sides : u[d][q] = t[d][q]
  /\ u.red[First(u)] => g = First(u)
  /\ u.red[g] /\ \A n \in L : u.red[n] /\ u.red[u.parent[n]] => n = g

(* A pair of reds moves up two levels, or is gone.                         *)
LEMMA RecolourKeeps ==
  ASSUME NEW t, NEW L \in SUBSET Nodes, NEW a, NEW m, NEW p, NEW g, Rising(t, L, a, m, p, g),
         NEW w, w = t[Other(a)][g], t.red[w] = TRUE, NEW u, u = Recoloured(t, p, w, g)
  PROVE  Risen(t, L, g, u)
<1> DEFINE b == Other(a)
<1>1. /\ a \in Sides /\ b \in Sides /\ b # a /\ \A d \in Sides : d = a \/ d = b
      /\ Shaped(t, L) /\ t \in Tree /\ m \in L /\ p \in L /\ g \in L
  BY DEF Rising, Sides, Other, Shaped
<1>2. /\ L \subseteq All /\ nil \in All /\ root \in All
      /\ nil \notin L /\ root \notin L /\ nil # root
  BY <1>1, WiredFacts
<1>3. w \in L /\ t.parent[w] = g
  <2>1. w \in L \cup {nil}
    BY <1>1, WiredFacts
  <2>2. w # nil
    BY DEF Rising, Sentinels
  <2>3. QED
    BY <1>1, <2>1, <2>2 DEF Shaped, Wired
<1>4. p # g /\ w # g /\ p # w
  <2>1. p # g /\ w # g
    BY <1>3 DEF Rising
  <2>2. p # w
    BY <1>1, <1>2, WiredFacts DEF Rising
  <2>3. QED
    BY <2>1, <2>2
<1>5. /\ Painted(t, u)
      /\ u.red = [[[t.red EXCEPT ![p] = FALSE] EXCEPT ![w] = FALSE] EXCEPT ![g] = TRUE]
  BY <1>1, <1>2 DEF Painted, Tree, Sides, Recoloured
<1>6. Shaped(u, L)
  BY <1>1, <1>5, PaintKeeps
<1>7. /\ ~u.red[p] /\ ~u.red[w] /\ u.red[g]
      /\ \A q \in All : q # p /\ q # w /\ q # g => (u.red[q] <=> t.red[q])
  <2>1. t.red \in [All -> BOOLEAN] /\ p \in All /\ w \in All /\ g \in All
    BY <1>1, <1>2, <1>3 DEF Tree
  <2>2. QED
    BY <1>4, <1>5, <2>1
<1>8. Balanced(u, L, nil, "left")
  <2>1. PICK h : Heights(t, L, h, nil, "left")
    BY DEF Rising, Balanced
  <2> DEFINE e == [h EXCEPT ![p] = h[p] + 1, ![w] = h[w] + 1]
  <2>2. \A q \in All : h[q] \in Nat
    BY <2>1 DEF Heights
  <2>3. e \in [All -> Nat] /\ \A q \in All : e[q] = IF q = p \/ q = w THEN h[q] + 1 ELSE h[q]
    BY <1>2, <1>3, <1>4, <2>1, <2>2 DEF Heights
  <2> HIDE DEF e
  <2>4. \A q \in L, d \in Sides : h[q] = h[t[d][q]] + Weight(t, q)
    <3>1. \A q \in L, d \in Sides : h[q] = h[t[d][q]] + Weight(t, q) + 0 /\ t[d][q] \in All
      BY <1>1, <1>2, <2>1, WiredFacts DEF Heights, Owed
    <3>2. \A q \in L : Weight(t, q) \in Nat
      BY DEF Weight
    <3>3. QED
      BY <2>2, <3>1, <3>2
  <2>5. ASSUME NEW q \in L, NEW d \in Sides
        PROVE  e[q] = e[t[d][q]] + Weight(u, q) + Owed(q, d, nil, "left")
    <3>0. Owed(q, d, nil, "left") = 0 /\ t[d][q] \in All /\ q \in All
      BY <1>1, <1>2, WiredFacts DEF Owed
    <3>1. t[d][q] \in L => t.parent[t[d][q]] = q
      BY <1>1, <1>2 DEF Shaped, Wired
    <3>2. CASE q = g
      <4>1. t[d][q] \in {p, w} /\ Weight(t, q) = 1 /\ Weight(u, q) = 0
        BY <1>1, <1>7, <3>2 DEF Rising, Weight
      <4>2. e[q] = h[q] /\ e[t[d][q]] = h[t[d][q]] + 1
        BY <1>4, <2>3, <3>0, <3>2, <4>1
      <4>3. QED
        BY <2>2, <2>4, <3>0, <4>1, <4>2
    <3>3. CASE q \in {p, w}
      <4>1. t[d][q] \notin {p, w}
        BY <1>1, <1>3, <1>4, <3>1, <3>3 DEF Rising
      <4>2. Weight(t, q) = 0 /\ Weight(u, q) = 1
        BY <1>7, <3>3 DEF Rising, Weight
      <4>3. e[q] = h[q] + 1 /\ e[t[d][q]] = h[t[d][q]]
        BY <2>3, <3>0, <3>3, <4>1
      <4>4. QED
        BY <2>2, <2>4, <3>0, <4>2, <4>3
    <3>4. CASE q \notin {p, w, g}
      <4>1. t[d][q] \notin {p, w}
        BY <1>1, <1>3, <3>1, <3>4 DEF Rising
      <4>2. Weight(t, q) = Weight(u, q) /\ Weight(t, q) \in Nat
        BY <1>7, <3>0, <3>4 DEF Weight
      <4>3. e[q] = h[q] /\ e[t[d][q]] = h[t[d][q]]
        BY <2>3, <3>0, <3>4, <4>1
      <4>4. QED
        BY <2>2, <2>4, <3>0, <4>2, <4>3
    <3>5. QED
      BY <3>2, <3>3, <3>4
  <2>6. u.parent = t.parent /\ \A d \in Sides : u[d] = t[d]
    BY <1>5 DEF Painted
  <2>7. e[nil] = 0
    BY <1>1, <1>2, <1>3, <2>1, <2>3 DEF Heights
  <2>8. QED
    BY <2>3, <2>5, <2>6, <2>7 DEF Balanced, Heights
<1>9. u.parent = t.parent /\ (\A d \in Sides : u[d] = t[d]) /\ First(u) = First(t)
  BY <1>5 DEF Painted, First
<1>10. Sentinels(u)
  BY <1>2, <1>3, <1>7 DEF Rising, Sentinels
<1>11. u.red[First(u)] => g = First(u)
  <2>1. First(t) \in All
    BY <1>1, <1>2, WiredFacts DEF First, Sides
  <2>2. QED
    BY <1>7, <1>9, <2>1 DEF Rising
<1>12. ASSUME NEW n \in L, u.red[n], u.red[u.parent[n]] PROVE n = g
  <2>1. SUFFICES ASSUME n # g PROVE FALSE
    OBVIOUS
  <2>2. t.red[n] /\ n \notin {p, w}
    BY <1>2, <1>7, <1>12, <2>1
  <2>3. t.parent[n] \in L \cup {root}
    BY <1>1 DEF Shaped, Wired
  <2>4. t.parent[n] # p /\ t.parent[n] # w
    BY <1>7, <1>9, <1>12
  <2>5. CASE t.parent[n] = g
    <3>1. PICK d \in Sides : t[d][t.parent[n]] = n
      BY <1>1 DEF Shaped, Wired
    <3>2. n = p \/ n = w
      BY <1>1, <2>5, <3>1 DEF Rising
    <3>3. QED
      BY <2>2, <3>2
  <2>6. CASE t.parent[n] # g
    <3>1. t.red[t.parent[n]]
      BY <1>2, <1>7, <1>9, <1>12, <2>3, <2>4, <2>6
    <3>2. n = m
      BY <2>2, <3>1 DEF Rising
    <3>3. QED
      BY <2>4, <3>2 DEF Rising
  <2>7. QED
    BY <2>5, <2>6
<1>13. QED
  BY <1>6, <1>7, <1>8, <1>9, <1>10, <1>11, <1>12 DEF Risen

(* An iteration with a red uncle keeps the invariant.                      *)
LEMMA RecolourStep == ASSUME RbtInv, InsertRecolour PROVE RbtInv'
<1> DEFINE p == tree.parent[x]
           g == tree.parent[p]
           w == tree[Other(SideOf(tree, p))][g]
<1>1. /\ pc = "insert" /\ tree.red[p] /\ tree.red[w] /\ tree' = Recoloured(tree, p, w, g)
      /\ x' = g /\ live' = live /\ pc' = pc /\ y' = y /\ z' = z /\ top' = top
  BY Zenon DEF InsertRecolour, Recoloured, locals
<1>2. Rising(tree, live, SideOf(tree, p), x, p, g)
  BY <1>1, InsertFacts
<1> HIDE DEF p, g
<1>3. /\ live \in SUBSET Nodes /\ y = nil /\ z = nil /\ top \in Nodes \cup {nil}
      /\ \A q \in Nodes \ live, d \in Sides : tree[d][q] = nil
  BY <1>1, IdleFacts DEF RbtInv, RbtTypeOK
<1>4. PICK u : u = tree'
  OBVIOUS
<1>5. /\ Shaped(u, live) /\ Balanced(u, live, nil, "left") /\ Sentinels(u)
      /\ \A q \in Nodes \ live, d \in Sides : u[d][q] = tree[d][q]
      /\ u.red[First(u)] => g = First(u)
      /\ u.red[g] /\ \A n \in live : u.red[n] /\ u.red[u.parent[n]] => n = g
  <2>1. w = tree[Other(SideOf(tree, p))][g] /\ u = Recoloured(tree, p, w, g) /\ tree.red[w]
    BY <1>1, <1>4
  <2> HIDE DEF w
  <2>2. PICK t : t = tree
    OBVIOUS
  <2>3. PICK a : a = SideOf(tree, p)
    OBVIOUS
  <2>4. /\ Rising(t, live, a, x, p, g) /\ w = t[Other(a)][g] /\ t.red[w] = TRUE
        /\ u = Recoloured(t, p, w, g)
    <3>1. t \in Tree /\ w \in All
      BY <1>2, <1>3, <2>1, <2>2, WiredFacts DEF Rising, Shaped, Sides, Other
    <3>2. t.red[w] \in BOOLEAN
      BY <3>1 DEF Tree
    <3>3. QED
      BY <1>2, <2>1, <2>2, <2>3, <3>2
  <2>5. Risen(t, live, g, u)
    BY <1>3, <2>4, RecolourKeeps
  <2>6. QED
    BY <2>2, <2>5 DEF Risen
<1>6. g \in live /\ g \in All
  BY <1>2, <1>3 DEF Rising, All
<1>7. Settled(u, live, g, pc' = "insert")
  BY <1>1, <1>3, <1>5, <1>6 DEF Settled
<1>8. QED
  BY SMTT(30), <1>1, <1>3, <1>4, <1>6, <1>7, AtRest

(* A node is painted black: the first one, or a red one below a debt.      *)
Blackened(t, L, k, u) ==
  /\ Shaped(u, L) /\ Balanced(u, L, nil, "left") /\ Sentinels(u)
  /\ \A q \in Nodes \ L, d \in Sides : u[d][q] = t[d][q]
  /\ u.parent = t.parent /\ First(u) = First(t)
  /\ ~u.red[k] /\ \A q \in All : q # k => (u.red[q] <=> t.red[q])

(* Making the first node black, or the red node that is short of one.      *)
LEMMA BlackenKeeps ==
  ASSUME NEW t, NEW L \in SUBSET Nodes, Shaped(t, L), Sentinels(t),
         NEW p \in L \cup {root}, NEW a \in Sides, Balanced(t, L, p, a),
         NEW k, k = t[a][p], p \in L => t.red[k] = TRUE,
         NEW u, u = [t EXCEPT !.red[k] = FALSE]
  PROVE  Blackened(t, L, k, u)
<1>1. /\ t \in Tree /\ L \subseteq All /\ nil \in All /\ root \in All
      /\ nil \notin L /\ root \notin L /\ nil # root /\ k \in L \cup {nil} /\ k # p /\ k # root
  BY WiredFacts DEF Shaped
<1>2. Painted(t, u) /\ u.red = [t.red EXCEPT ![k] = FALSE]
  BY <1>1 DEF Painted, Tree, Sides
<1>3. ~u.red[k] /\ \A q \in All : q # k => (u.red[q] <=> t.red[q])
  <2>1. t.red \in [All -> BOOLEAN] /\ k \in All
    BY <1>1 DEF Tree
  <2>2. QED
    BY <1>2, <2>1
<1>4. Shaped(u, L)
  BY <1>2, PaintKeeps
<1>5. u.parent = t.parent /\ (\A d \in Sides : u[d] = t[d]) /\ First(u) = First(t)
  BY <1>2 DEF Painted, First
<1>6. Sentinels(u)
  BY <1>1, <1>3 DEF Sentinels
<1>7. Balanced(u, L, nil, "left")
  <2>1. PICK h : Heights(t, L, h, p, a)
    BY DEF Balanced
  <2> DEFINE e == [q \in All |-> IF q = k /\ t.red[k] THEN h[q] + 1 ELSE h[q]]
  <2>2. h[nil] = 0 /\ \A q \in All : h[q] \in Nat
    BY <2>1 DEF Heights
  <2>3. e \in [All -> Nat] /\ \A q \in All : e[q] = IF q = k /\ t.red[k] THEN h[q] + 1 ELSE h[q]
    BY <2>2
  <2> HIDE DEF e
  <2>4. e[nil] = 0
    BY <1>1, <2>2, <2>3 DEF Sentinels
  <2>5. ASSUME NEW q \in L, NEW d \in Sides
        PROVE  e[q] = e[t[d][q]] + Weight(u, q) + Owed(q, d, nil, "left")
    <3>1. h[q] = h[t[d][q]] + Weight(t, q) + Owed(q, d, p, a)
      BY <2>1 DEF Heights
    <3>2. t[d][q] \in All /\ t[d][q] # q /\ Owed(q, d, nil, "left") = 0 /\ q \in All
      BY <1>1, WiredFacts DEF Owed
    <3>3. CASE q = k
      <4>1. h[q] = h[t[d][q]] + Weight(t, q) /\ Weight(u, q) = 1
        BY <1>1, <1>3, <2>2, <3>1, <3>2, <3>3 DEF Owed, Weight
      <4>2. Weight(t, q) = IF t.red[k] THEN 0 ELSE 1
        BY <3>3 DEF Weight
      <4>3. e[t[d][q]] = h[t[d][q]]
        BY <2>3, <3>2, <3>3
      <4>4. e[q] = IF t.red[k] THEN h[q] + 1 ELSE h[q]
        BY <2>3, <3>2, <3>3
      <4>5. QED
        BY <2>2, <3>2, <4>1, <4>2, <4>3, <4>4
    <3>4. CASE q = p /\ d = a
      <4>1. t.red[k] /\ t[d][q] = k /\ Owed(q, d, p, a) = 1
        BY <3>4 DEF Owed
      <4>2. Weight(u, q) = Weight(t, q) /\ Weight(t, q) \in Nat
        BY <1>1, <1>3, <3>2, <3>4 DEF Weight
      <4>3. e[q] = h[q] /\ e[t[d][q]] = h[t[d][q]] + 1
        BY <1>1, <2>3, <3>2, <3>4, <4>1
      <4>4. QED
        BY <2>2, <3>1, <3>2, <4>1, <4>2, <4>3
    <3>5. CASE q # k /\ ~(q = p /\ d = a)
      <4>1. t[d][q] = k => k = nil
        BY <3>5, WiredFacts
      <4>2. t[d][q] # k \/ ~t.red[k]
        BY <4>1 DEF Sentinels
      <4>3. Weight(u, q) = Weight(t, q) /\ Owed(q, d, p, a) = 0 /\ Weight(t, q) \in Nat
        BY <1>3, <3>2, <3>5 DEF Weight, Owed
      <4>4. e[q] = h[q] /\ e[t[d][q]] = h[t[d][q]]
        BY <2>3, <3>2, <3>5, <4>2
      <4>5. QED
        BY <2>2, <3>1, <3>2, <4>3, <4>4
    <3>6. QED
      BY <3>3, <3>4, <3>5
  <2> HIDE DEF e
  <2>6. \A q \in L, d \in Sides : e[q] = e[u[d][q]] + Weight(u, q) + Owed(q, d, nil, "left")
    <3> SUFFICES ASSUME NEW q \in L, NEW d \in Sides
                 PROVE  e[q] = e[u[d][q]] + Weight(u, q) + Owed(q, d, nil, "left")
      OBVIOUS
    <3>1. u[d] = t[d]
      BY <1>5
    <3>2. e[q] = e[t[d][q]] + Weight(u, q) + Owed(q, d, nil, "left")
      BY <2>5
    <3>3. QED
      BY <3>1, <3>2, Zenon
  <2>7. Heights(u, L, e, nil, "left")
    BY <2>3, <2>4, <2>6 DEF Heights
  <2>8. QED
    BY <2>7 DEF Balanced
<1>8. \A q \in Nodes \ L, d \in Sides : u[d][q] = t[d][q]
  BY <1>5
<1>9. QED
  BY <1>3, <1>4, <1>5, <1>6, <1>7, <1>8 DEF Blackened

(* The end of RBTreeInsert keeps the invariant.                            *)
LEMMA InsertDoneStep == ASSUME RbtInv, InsertDone PROVE RbtInv'
<1>1. /\ pc = "insert" /\ ~tree.red[tree.parent[x]]
      /\ tree' = [tree EXCEPT !.red[First(tree)] = FALSE]
      /\ x' = nil /\ live' = live /\ pc' = "idle" /\ y' = y /\ z' = z /\ top' = top
  BY DEF InsertDone, locals
<1>2. /\ live \in SUBSET Nodes /\ y = nil /\ z = nil /\ top \in Nodes \cup {nil}
      /\ Shaped(tree, live) /\ Balanced(tree, live, nil, "left") /\ Sentinels(tree)
      /\ \A q \in Nodes \ live, d \in Sides : tree[d][q] = nil
      /\ nil \notin live /\ root \notin live /\ nil \in All /\ Linked = live
  BY <1>1, IdleFacts, WiredFacts DEF RbtInv, RbtTypeOK
<1>3. PICK u : u = tree'
  OBVIOUS
<1>4. Blackened(tree, live, First(tree), u)
  <2>1. PICK t : t = tree
    OBVIOUS
  <2>2. Balanced(t, live, root, "left")
    BY <1>2, <2>1, NoDebt
  <2>3. First(t) = t["left"][root] /\ "left" \in Sides /\ root \in live \cup {root}
    BY DEF First, Sides
  <2>4. u = [t EXCEPT !.red[First(t)] = FALSE]
    BY <1>1, <1>3, <2>1
  <2>5. Blackened(t, live, First(t), u)
    BY <1>2, <2>1, <2>2, <2>3, <2>4, BlackenKeeps
  <2>6. QED
    BY <2>1, <2>5
<1>5. \A n \in live : ~(u.red[n] /\ u.red[u.parent[n]])
  <2>1. SUFFICES ASSUME NEW n \in live, u.red[n], u.red[u.parent[n]] PROVE FALSE
    OBVIOUS
  <2>2. n \in All /\ u.parent[n] = tree.parent[n] /\ tree.parent[n] \in All
    BY <1>2, <1>4, WiredFacts DEF Blackened
  <2>3. tree.red[n] /\ tree.red[tree.parent[n]]
    BY <1>4, <2>1, <2>2 DEF Blackened
  <2>4. n = x
    BY <1>1, <1>2, <2>3 DEF RbtInv, Colours
  <2>5. QED
    BY <1>1, <2>3, <2>4
<1>6. /\ Shaped(u, live) /\ Balanced(u, live, nil, "left") /\ Sentinels(u)
      /\ \A q \in Nodes \ live, d \in Sides : u[d][q] = nil
      /\ ~u.red[First(u)]
  BY <1>2, <1>4 DEF Blackened
<1>7. Settled(u, live, nil, pc' = "insert")
  BY <1>1, <1>5, <1>6 DEF Settled
<1>8. QED
  BY <1>1, <1>2, <1>3, <1>7, AtRest

(* The last rotation of an insertion: the red p comes up, and takes the    *)
(* black of g, which it pushes down on the other side.                     *)
Turn(t, b, p, g) == Rotate([t EXCEPT !.red[p] = FALSE, !.red[g] = TRUE], b, g)

(* The rotation at the grandparent leaves no red pair.                     *)
LEMMA LastInsertTurn ==
  ASSUME NEW t, NEW L \in SUBSET Nodes, NEW a, NEW m, NEW p, NEW g, Rising(t, L, a, m, p, g),
         t[a][p] = m, t.red[t[Other(a)][g]] = FALSE,
         \A q \in Nodes \ L, d \in Sides : t[d][q] = nil,
         NEW u, u = Turn(t, Other(a), p, g)
  PROVE  Settled(u, L, m, TRUE)
<1> DEFINE b == Other(a)
           w == t[b][g]
           c == t[b][p]
           v == [t EXCEPT !.red[p] = FALSE, !.red[g] = TRUE]
<1>1. /\ a \in Sides /\ b \in Sides /\ b # a /\ \A d \in Sides : d = a \/ d = b
      /\ Shaped(t, L) /\ t \in Tree /\ m \in L /\ p \in L /\ g \in L /\ Other(b) = a
      /\ t[a][p] = m /\ t[a][g] = p /\ t.parent[m] = p /\ t.parent[p] = g
      /\ t.red[m] /\ t.red[p] /\ ~t.red[g] /\ ~t.red[w]
  BY DEF Rising, Sides, Other, Shaped
<1>2. /\ L \subseteq All /\ nil \in All /\ root \in All
      /\ nil \notin L /\ root \notin L /\ nil # root
      /\ p # g /\ m # p /\ m # g
      /\ w \in L \cup {nil} /\ w # g /\ w # p
      /\ c \in L \cup {nil} /\ c # p /\ c # m /\ c # g
      /\ w # m /\ (w = c => w = nil)
      /\ t.parent[g] \in All /\ t.parent[g] \notin {p, m, g}
  <2>1. p # g /\ m # p /\ w \in L \cup {nil} /\ w # g /\ c \in L \cup {nil} /\ c # p
    BY <1>1, WiredFacts
  <2>2. w # p /\ c # m /\ (w = c => w = nil) /\ w # m
    BY <1>1, <2>1, WiredFacts
  <2>3. PICK e : Ranked(t, L, e)
    BY <1>1 DEF Shaped
  <2>4. /\ e[m] \in Nat /\ e[p] \in Nat /\ e[g] \in Nat /\ e[t.parent[g]] \in Nat
        /\ e[m] < e[p] /\ e[p] < e[g] /\ e[g] < e[t.parent[g]] /\ t.parent[g] \in All
    BY <1>1, <2>3, WiredFacts DEF Ranked
  <2>5. c # nil => t.parent[c] = p
    BY <1>1 DEF Shaped, Wired
  <2>6. t.parent[g] \notin {p, m, g} /\ m # g /\ c # g
    <3>1. t.parent[g] \notin {p, m, g} /\ m # g
      BY <2>4
    <3>2. c = g => c # nil
      BY <1>1, NodesAssumption
    <3>3. QED
      BY <2>5, <3>1, <3>2
  <2>7. QED
    BY <1>1, <2>1, <2>2, <2>4, <2>6, WiredFacts
<1>3. w = t[b][g] /\ c = t[b][p] /\ (c # nil => t.parent[c] = p) /\ (w # nil => t.parent[w] = g)
  BY <1>1 DEF Shaped, Wired
<1>4. Painted(t, v) /\ v.red = [[t.red EXCEPT ![p] = FALSE] EXCEPT ![g] = TRUE]
  BY <1>1, <1>2 DEF Painted, Tree, Sides
<1>5. Shaped(v, L)
  BY <1>1, <1>4, PaintKeeps
<1>6. u = Rotate(v, b, g)
  BY DEF Turn
<1> HIDE DEF v, c, w
<1>7. v[Other(b)][g] = p
  BY <1>1, <1>4 DEF Painted
<1>8. Shaped(u, L) /\ Rotated(v, u, L, b, g, p)
  BY <1>1, <1>5, <1>6, <1>7, RotateKeeps
<1>9. /\ \A q \in L \cup {root}, d \in Sides : u[d][q] =
           IF q = g THEN IF d = b THEN w ELSE c
           ELSE IF q = p THEN IF d = b THEN g ELSE t[d][p]
           ELSE IF t[d][q] = g THEN p ELSE t[d][q]
      /\ \A q \in Nodes \ L, d \in Sides : u[d][q] = t[d][q]
      /\ \A q \in L : u.parent[q] =
           IF q = g THEN p ELSE IF q = p THEN t.parent[g]
           ELSE IF q = c THEN g ELSE t.parent[q]
  <2>1. v.parent = t.parent /\ \A d \in Sides : v[d] = t[d]
    BY <1>4 DEF Painted
  <2>2. v[b][g] = w /\ v[b][p] = c /\ v.parent[g] = t.parent[g]
    BY <1>1, <1>3, <2>1
  <2>3. QED
    BY <1>8, <2>1, <2>2 DEF Rotated
<1>10. ~u.red[p] /\ u.red[g] /\ \A q \in All : q # p /\ q # g => (u.red[q] <=> t.red[q])
  <2>1. t.red \in [All -> BOOLEAN] /\ p \in All /\ g \in All
    BY <1>1, <1>2 DEF Tree
  <2>2. ~v.red[p] /\ v.red[g] /\ \A q \in All : q # p /\ q # g => (v.red[q] <=> t.red[q])
    BY <1>2, <1>4, <2>1
  <2>3. u.red = v.red
    BY <1>8 DEF Rotated
  <2>4. QED
    BY <2>2, <2>3
<1>11. \A q \in L : t.red[q] /\ t.red[t.parent[q]] => q = m
  BY DEF Rising
<1>12. Balanced(u, L, nil, "left")
  <2>1. PICK h : Heights(t, L, h, nil, "left")
    BY DEF Rising, Balanced
  <2> DEFINE e == [h EXCEPT ![g] = h[p], ![p] = h[g]]
  <2>2. h[nil] = 0 /\ \A q \in All : h[q] \in Nat
    BY <2>1 DEF Heights
  <2>3. /\ e \in [All -> Nat]
        /\ \A q \in All : e[q] = IF q = g THEN h[p] ELSE IF q = p THEN h[g] ELSE h[q]
    BY <1>1, <1>2, <2>1, <2>2 DEF Heights
  <2> HIDE DEF e
  <2>4. e[nil] = 0
    BY <1>1, <1>2, <2>2, <2>3
  <2>5. \A q \in L, d \in Sides : h[q] = h[t[d][q]] + Weight(t, q)
    <3>1. \A q \in L, d \in Sides : h[q] = h[t[d][q]] + Weight(t, q) + 0 /\ t[d][q] \in All
      BY <1>1, <1>2, <2>1, WiredFacts DEF Heights, Owed
    <3>2. \A q \in L : Weight(t, q) \in Nat
      BY DEF Weight
    <3>3. QED
      BY <2>2, <3>1, <3>2
  <2>6. /\ h[g] = h[p] + 1 /\ h[g] = h[w] + 1 /\ h[p] = h[m] /\ h[p] = h[c]
    <3>1. Weight(t, g) = 1 /\ Weight(t, p) = 0
      BY <1>1 DEF Weight
    <3>2. h[w] \in Nat /\ h[p] \in Nat /\ h[m] \in Nat /\ h[c] \in Nat
      BY <1>1, <1>2, <2>2
    <3>3. h[g] = h[p] + 1 /\ h[g] = h[w] + 1 /\ h[p] = h[m] + 0 /\ h[p] = h[c] + 0
      BY <1>1, <1>3, <2>5, <3>1
    <3>4. QED
      BY <3>2, <3>3
  <2>7. ASSUME NEW q \in L, NEW d \in Sides
        PROVE  e[q] = e[u[d][q]] + Weight(u, q) + Owed(q, d, nil, "left")
    <3>1. Owed(q, d, nil, "left") = 0
      BY <1>2 DEF Owed
    <3>2. CASE q = g
      <4>1. u[d][q] = (IF d = b THEN w ELSE c) /\ Weight(u, q) = 0
        BY <1>9, <1>10, <3>2 DEF Weight
      <4>2. e[q] = h[p] /\ e[w] = h[w] /\ e[c] = h[c]
        BY <1>1, <1>2, <2>3, <3>2
      <4>3. h[w] \in Nat /\ h[p] \in Nat /\ h[c] \in Nat
        BY <1>1, <1>2, <2>2
      <4>4. QED
        BY <2>6, <3>1, <4>1, <4>2, <4>3
    <3>3. CASE q = p
      <4>1. u[d][q] = (IF d = b THEN g ELSE m) /\ Weight(u, q) = 1
        BY <1>1, <1>2, <1>9, <1>10, <3>3 DEF Weight
      <4>2. e[q] = h[g] /\ e[g] = h[p] /\ e[m] = h[m]
        BY <1>1, <1>2, <2>3, <3>3
      <4>3. h[g] \in Nat /\ h[p] \in Nat /\ h[m] \in Nat
        BY <1>1, <1>2, <2>2
      <4>4. QED
        BY <2>6, <3>1, <4>1, <4>2, <4>3
    <3>4. CASE q # g /\ q # p
      <4>1. t[d][q] \in All /\ t[d][q] # p /\ q \in All
        <5>1. t[d][q] = p => q = g
          BY <1>1, <1>2, <3>4, WiredFacts
        <5>2. QED
          BY <1>2, <3>4, <5>1, <1>1, WiredFacts
      <4>2. u[d][q] = IF t[d][q] = g THEN p ELSE t[d][q]
        BY <1>9, <3>4
      <4>3. e[u[d][q]] = h[t[d][q]] /\ e[q] = h[q]
        BY <1>1, <1>2, <2>3, <3>4, <4>1, <4>2
      <4>4. Weight(u, q) = Weight(t, q) /\ Weight(t, q) \in Nat
        BY <1>10, <3>4, <4>1 DEF Weight
      <4>5. QED
        BY <2>2, <2>5, <3>1, <4>1, <4>3, <4>4
    <3>5. QED
      BY <3>2, <3>3, <3>4
  <2>8. Heights(u, L, e, nil, "left")
    BY <2>3, <2>4, <2>7 DEF Heights
  <2>9. QED
    BY <2>8 DEF Balanced
<1>13. ASSUME NEW q \in L, u.red[q] PROVE ~u.red[u.parent[q]]
  <2>1. q # p /\ q \in All
    BY <1>2, <1>10, <1>13
  <2>2. CASE q = g
    BY <1>1, <1>2, <1>9, <1>10, <2>2
  <2>3. CASE q = c
    <3>1. q \in L /\ t.parent[q] = p /\ t.red[q]
      BY <1>1, <1>2, <1>3, <1>10, <1>13, <2>1, <2>3
    <3>2. q = m
      BY <1>1, <1>11, <3>1
    <3>3. QED
      BY <1>2, <2>3, <3>2
  <2>4. CASE q # g /\ q # c
    <3>1. u.parent[q] = t.parent[q] /\ t.red[q] /\ t.parent[q] \in All
      BY <1>1, <1>9, <1>10, <1>13, <2>1, <2>4, WiredFacts
    <3>2. CASE t.parent[q] = p
      BY <1>10, <3>1, <3>2
    <3>3. CASE t.parent[q] = g
      <4>1. PICK d \in Sides : t[d][t.parent[q]] = q
        BY <1>1 DEF Shaped, Wired
      <4>2. q = w
        BY <1>1, <1>3, <2>1, <3>3, <4>1
      <4>3. QED
        BY <1>1, <3>1, <4>2
    <3>4. CASE t.parent[q] \notin {p, g}
      <4>1. q # m
        BY <1>1, <3>4
      <4>2. QED
        BY <1>10, <1>11, <3>1, <3>4, <4>1
    <3>5. QED
      BY <3>2, <3>3, <3>4
  <2>5. QED
    BY <2>2, <2>3, <2>4
<1>14. Sentinels(u)
  BY <1>1, <1>2, <1>10 DEF Rising, Sentinels
<1>15. ~u.red[First(u)]
  <2>1. First(u) = IF First(t) = g THEN p ELSE First(t)
    BY <1>1, <1>2, <1>9 DEF First, Sides
  <2>2. First(t) \in All /\ ~t.red[First(t)]
    BY <1>1, <1>2, WiredFacts DEF First, Sides, Rising
  <2>3. QED
    BY <1>10, <2>1, <2>2
<1>16. u.red[m]
  BY <1>1, <1>2, <1>10
<1>17. QED
  BY <1>1, <1>8, <1>9, <1>12, <1>13, <1>14, <1>15, <1>16 DEF Settled

(* If the red m is on the other side of p, they change places first.       *)
LEMMA OutwardKeeps ==
  ASSUME NEW t, NEW L \in SUBSET Nodes, NEW a, NEW m, NEW p, NEW g, Rising(t, L, a, m, p, g),
         NEW u, u = Rotate(t, a, p), t[Other(a)][p] = m
  PROVE  /\ Rising(u, L, a, p, m, g) /\ u[a][m] = p
         /\ u[Other(a)][g] = t[Other(a)][g] /\ u.red = t.red
         /\ \A q \in Nodes \ L, d \in Sides : u[d][q] = t[d][q]
<1> DEFINE b == Other(a)
           c == t[a][m]
<1>1. /\ a \in Sides /\ b \in Sides /\ b # a /\ \A d \in Sides : d = a \/ d = b
      /\ Shaped(t, L) /\ t \in Tree /\ m \in L /\ p \in L /\ g \in L /\ Other(b) = a
      /\ t[b][p] = m /\ t[a][g] = p /\ t.parent[m] = p /\ t.parent[p] = g
      /\ t.red[m] /\ t.red[p] /\ ~t.red[g] /\ Sentinels(t) /\ ~t.red[First(t)]
  BY DEF Rising, Sides, Other, Shaped
<1>2. Shaped(u, L) /\ Rotated(t, u, L, a, p, m)
  BY <1>1, RotateKeeps
<1>3. /\ L \subseteq All /\ nil \in All /\ root \in All
      /\ nil \notin L /\ root \notin L /\ nil # root
      /\ p # g /\ m # p /\ m # g
      /\ c \in L \cup {nil} /\ c # m /\ c # p
      /\ (c # nil => t.parent[c] = m)
      /\ t[b][g] # p
  <2>1. m # p /\ p # g /\ c \in L \cup {nil} /\ c # m
    BY <1>1, WiredFacts
  <2>2. c # nil => t.parent[c] = m
    BY <1>1 DEF Shaped, Wired
  <2>3. m # g
    BY <1>1
  <2>4. t[b][g] # p /\ t.parent[m] # c
    BY <1>1, <2>1, WiredFacts
  <2>5. QED
    BY <1>1, <2>1, <2>2, <2>3, <2>4, WiredFacts
<1>4. /\ \A q \in L \cup {root}, d \in Sides : u[d][q] =
           IF q = p THEN IF d = a THEN t[a][p] ELSE c
           ELSE IF q = m THEN IF d = a THEN p ELSE t[d][m]
           ELSE IF t[d][q] = p THEN m ELSE t[d][q]
      /\ \A q \in Nodes \ L, d \in Sides : u[d][q] = t[d][q]
      /\ \A q \in L : u.parent[q] =
           IF q = p THEN m ELSE IF q = m THEN t.parent[p]
           ELSE IF q = c THEN p ELSE t.parent[q]
      /\ u.red = t.red
  BY <1>2 DEF Rotated
<1> HIDE DEF c
<1>5. /\ u.parent[p] = m /\ u.parent[m] = g /\ u[a][g] = m /\ u[a][m] = p
      /\ u[b][g] = t[b][g]
  BY <1>1, <1>3, <1>4
<1>6. \A q \in L : t.red[q] /\ t.red[t.parent[q]] => q = m
  BY DEF Rising
<1>7. Balanced(u, L, nil, "left")
  <2>1. PICK h : Heights(t, L, h, nil, "left")
    BY DEF Rising, Balanced
  <2>2. h[nil] = 0 /\ h \in [All -> Nat] /\ \A q \in All : h[q] \in Nat
    BY <2>1 DEF Heights
  <2>3. \A q \in L, d \in Sides : h[q] = h[t[d][q]] + Weight(t, q) /\ t[d][q] \in All
    <3>1. \A q \in L, d \in Sides : h[q] = h[t[d][q]] + Weight(t, q) + 0 /\ t[d][q] \in All
      BY <1>1, <1>3, <2>1, WiredFacts DEF Heights, Owed
    <3>2. \A q \in L : Weight(t, q) \in Nat
      BY DEF Weight
    <3>3. QED
      BY <2>2, <3>1, <3>2
  <2>4. h[p] = h[t[a][p]] /\ h[p] = h[m] /\ h[m] = h[c] /\ h[m] = h[t[b][m]]
    <3>1. Weight(t, p) = 0 /\ Weight(t, m) = 0
      BY <1>1 DEF Weight
    <3>2. /\ h[p] = h[t[a][p]] + 0 /\ h[p] = h[m] + 0 /\ h[m] = h[c] + 0
          /\ h[m] = h[t[b][m]] + 0 /\ t[a][p] \in All /\ t[b][m] \in All
      BY <1>1, <2>3, <3>1 DEF c
    <3>3. h[m] \in Nat /\ h[c] \in Nat /\ h[t[a][p]] \in Nat /\ h[t[b][m]] \in Nat
      BY <1>1, <1>3, <2>2, <3>2
    <3>4. QED
      BY <3>2, <3>3
  <2>5. ASSUME NEW q \in L, NEW d \in Sides
        PROVE  h[q] = h[u[d][q]] + Weight(u, q) + Owed(q, d, nil, "left")
    <3>1. Owed(q, d, nil, "left") = 0 /\ Weight(u, q) = Weight(t, q)
      BY <1>3, <1>4 DEF Owed, Weight
    <3>2. h[u[d][q]] = h[t[d][q]]
      <4>1. CASE q = p
        <5>1. u[d][q] = IF d = a THEN t[a][p] ELSE c
          BY <1>4, <4>1
        <5>2. t[d][q] = IF d = a THEN t[a][p] ELSE m
          BY <1>1, <4>1
        <5>3. QED
          BY <2>4, <5>1, <5>2
      <4>2. CASE q = m
        <5>1. h[t[d][m]] = h[m]
          BY <1>1, <2>4 DEF c
        <5>2. u[d][q] = IF d = a THEN p ELSE t[d][m]
          BY <1>3, <1>4, <4>2
        <5>3. QED
          BY <2>4, <4>2, <5>1, <5>2
      <4>3. CASE q # p /\ q # m
        BY <1>4, <2>4, <4>3
      <4>4. QED
        BY <4>1, <4>2, <4>3
    <3>3. t[d][q] \in All /\ h[q] = h[t[d][q]] + Weight(t, q)
      BY <2>3
    <3>4. h[t[d][q]] \in Nat /\ Weight(t, q) \in Nat
      BY <2>2, <3>3 DEF Weight
    <3>5. QED
      BY <3>1, <3>2, <3>3, <3>4
  <2>6. Heights(u, L, h, nil, "left")
    BY <2>2, <2>5 DEF Heights
  <2>7. QED
    BY <2>6 DEF Balanced
<1>8. ASSUME NEW q \in L, u.red[q], u.red[u.parent[q]] PROVE q = p
  <2>1. SUFFICES ASSUME q # p PROVE FALSE
    OBVIOUS
  <2>2. CASE q = m
    BY <1>1, <1>4, <1>5, <1>8, <2>2
  <2>3. CASE q = c
    <3>1. t.parent[q] = m /\ t.red[q]
      BY <1>3, <1>4, <1>8, <2>3
    <3>2. QED
      BY <1>1, <1>3, <1>6, <2>3, <3>1
  <2>4. CASE q # m /\ q # c
    <3>1. u.parent[q] = t.parent[q]
      BY <1>4, <2>1, <2>4
    <3>2. QED
      BY <1>4, <1>6, <1>8, <2>4, <3>1
  <2>5. QED
    BY <2>2, <2>3, <2>4
<1>9. Sentinels(u) /\ ~u.red[First(u)]
  <2>1. First(u) = First(t)
    <3>1. First(t) # p
      BY <1>1
    <3>2. QED
      BY <1>1, <1>3, <1>4, <3>1 DEF First, Sides
  <2>2. QED
    BY <1>1, <1>4, <2>1 DEF Sentinels
<1>10. Rising(u, L, a, p, m, g)
  BY <1>1, <1>2, <1>4, <1>5, <1>7, <1>8, <1>9 DEF Rising
<1>11. QED
  BY <1>4, <1>5, <1>10

(* An iteration with a black uncle keeps the invariant.                    *)
LEMMA InsertRotateStep == ASSUME RbtInv, InsertRotate PROVE RbtInv'
<1> DEFINE p == tree.parent[x]
           g == tree.parent[p]
           a == SideOf(tree, p)
           s == Outward(tree, a, x)
           q == s.tree.parent[s.x]
           h == s.tree.parent[q]
<1>1. /\ pc = "insert" /\ tree.red[p] /\ ~tree.red[tree[Other(a)][g]]
      /\ tree' = Turn(s.tree, Other(a), q, h)
      /\ x' = s.x /\ live' = live /\ pc' = "insert" /\ y' = y /\ z' = z /\ top' = top
  BY Zenon DEF InsertRotate, locals, Turn
<1>2. Rising(tree, live, a, x, p, g)
  BY <1>1, InsertFacts, Zenon
<1>3. /\ live \in SUBSET Nodes /\ y = nil /\ z = nil /\ top \in Nodes \cup {nil}
      /\ \A n \in Nodes \ live, d \in Sides : tree[d][n] = nil
      /\ tree \in Tree /\ \A n \in live : n \in All
  BY <1>1, IdleFacts, WiredFacts, Zenon DEF RbtInv, RbtTypeOK, Shaped
<1>4. PICK t : t = s.tree
  OBVIOUS
<1>5. PICK m : m = s.x
  OBVIOUS
<1>6. /\ Rising(t, live, a, m, q, h) /\ t[a][q] = m
      /\ t.red[t[Other(a)][h]] = FALSE
      /\ \A n \in Nodes \ live, d \in Sides : t[d][n] = nil
  <2>1. tree.red[tree[Other(a)][g]] = FALSE
    <3>1. tree[Other(a)][g] \in All
      BY <1>2, <1>3 DEF Rising, Tree, Sides, Other, All
    <3>2. QED
      BY <1>1, <1>3, <3>1, Zenon DEF Tree
  <2>2. SideOf(tree, x) \in Sides /\ tree[SideOf(tree, x)][p] = x
    <3>1. Wired(tree, live) /\ x \in live
      BY <1>2 DEF Rising, Shaped
    <3>2. QED
      BY <3>1, SideOfFacts
  <2>3. CASE SideOf(tree, x) = a
    <3>1. s = [tree |-> tree, x |-> x]
      BY <2>3 DEF Outward
    <3>2. t = tree /\ m = x
      BY <1>4, <1>5, <3>1
    <3>3. q = p /\ h = g
      BY <1>2, <1>4, <1>5, <3>2 DEF Rising
    <3> HIDE DEF s, q, h, p, g, a
    <3>4. QED
      BY <1>2, <1>3, <2>1, <2>2, <2>3, <3>2, <3>3
  <2>4. CASE SideOf(tree, x) # a
    <3>1. s = [tree |-> Rotate(tree, a, p), x |-> p]
      BY <2>4 DEF Outward
    <3>2. t = Rotate(tree, a, p) /\ m = p
      BY <1>4, <1>5, <3>1
    <3>3. q = t.parent[m] /\ h = t.parent[q]
      BY <1>4, <1>5
    <3> HIDE DEF s, q, h, p, g, a
    <3>4. tree[Other(a)][p] = x
      BY <1>2, <2>2, <2>4 DEF Rising, Sides, Other
    <3>5. /\ Rising(t, live, a, p, x, g) /\ t[a][x] = p
          /\ t[Other(a)][g] = tree[Other(a)][g] /\ t.red = tree.red
          /\ \A n \in Nodes \ live, d \in Sides : t[d][n] = tree[d][n]
      BY <1>2, <1>3, <3>2, <3>4, OutwardKeeps
    <3>6. q = x /\ h = g
      BY <3>2, <3>3, <3>5 DEF Rising
    <3>7. QED
      BY <1>3, <2>1, <3>2, <3>5, <3>6
  <2>5. QED
    BY <2>3, <2>4, Zenon
<1>7. PICK u : u = tree'
  OBVIOUS
<1>8. u = Turn(t, Other(a), q, h)
  BY <1>1, <1>4, <1>7, Zenon
<1>9. x' = m
  BY <1>1, <1>5, Zenon
<1> HIDE DEF s, q, h, p, g, a
<1>10. Settled(u, live, m, TRUE)
  BY <1>3, <1>6, <1>8, LastInsertTurn
<1>11. Settled(u, live, m, pc' = "insert")
  BY <1>1, <1>10
<1>12. m \in All
  BY <1>3, <1>6 DEF Rising
<1>13. QED
  BY <1>1, <1>3, <1>7, <1>9, <1>11, <1>12, AtRest

(***************************************************************************)
(* Deletion.                                                               *)
(***************************************************************************)
(* A property of nodes that a node has if the one above it does.           *)
LEMMA FromAbove ==
  ASSUME NEW t, NEW L \in SUBSET Nodes, Shaped(t, L), NEW G,
         \A n \in L : t.parent[n] = root \/ t.parent[n] \in G => n \in G
  PROVE  L \subseteq G
<1>1. PICK e : Ranked(t, L, e)
  BY DEF Shaped
<1> DEFINE E == {e[root] - e[n] : n \in L \ G}
<1>2. SUFFICES ASSUME E # {} PROVE FALSE
  OBVIOUS
<1>3. e[root] \in Nat /\ \A n \in L : e[n] \in Nat /\ e[n] < e[root]
  BY <1>1, WiredFacts DEF Ranked
<1>4. E \in SUBSET Nat
  BY <1>3
<1>5. PICK n \in L \ G : \A q \in L \ G : e[root] - e[n] <= e[root] - e[q]
  <2>1. PICK m \in E : \A q \in E : m <= q
    BY <1>2, <1>4, FirstExists
  <2>2. QED
    BY <2>1
<1>6. t.parent[n] \in L \ G
  BY <1>5 DEF Shaped, Wired
<1>7. e[n] < e[t.parent[n]]
  BY <1>1 DEF Ranked
<1>8. QED
  BY <1>3, <1>5, <1>6, <1>7

(* There is a first node if there is any.                                  *)
LEMMA NotEmpty ==
  ASSUME NEW t, NEW L \in SUBSET Nodes, Shaped(t, L), First(t) = nil PROVE L = {}
<1>1. ASSUME NEW n \in L PROVE t.parent[n] # root
  <2>1. SUFFICES ASSUME t.parent[n] = root PROVE FALSE
    OBVIOUS
  <2>2. PICK s \in Sides : t[s][root] = n
    BY <2>1 DEF Shaped, Wired
  <2>3. n # nil /\ t.right[root] = nil
    BY NodesAssumption DEF Shaped, Wired
  <2>4. QED
    BY <2>2, <2>3 DEF First, Sides
<1>2. PICK G : G = {}
  OBVIOUS
<1>3. \A n \in L : t.parent[n] = root \/ t.parent[n] \in G => n \in G
  BY <1>1, <1>2
<1>4. L \subseteq G
  BY <1>3, FromAbove
<1>5. QED
  BY <1>2, <1>4

(* TreeSuccessor goes to a node that has no left child.                    *)
LEMMA SplicedFacts ==
  ASSUME NEW t, NEW L \in SUBSET Nodes, Shaped(t, L),
         \A q \in Nodes \ L, d \in Sides : t[d][q] = nil,
         NEW n \in L, NEW s, s = Spliced(t, n)
  PROVE  s \in L /\ (t.left[s] = nil \/ t.right[s] = nil)
<1>1. CASE t.left[n] = nil \/ t.right[n] = nil
  BY <1>1 DEF Spliced
<1>2. CASE t.left[n] # nil /\ t.right[n] # nil
  <2> DEFINE dir == [m \in Nodes |-> "left"]
             down[m \in Nodes] == IF t["left"][m] = nil THEN m ELSE down[t["left"][m]]
  <2>1. dir \in [Nodes -> Sides]
    BY DEF Sides
  <2>2. \E g : Down(t, dir, g)
    BY <2>1, DownExists
  <2>3. Down(t, dir, down)
    <3>1. PICK g : Down(t, dir, g)
      BY <2>2
    <3>2. g = [m \in Nodes |-> IF t["left"][m] = nil THEN m ELSE g[t["left"][m]]]
      BY <3>1 DEF Down
    <3>3. down = [m \in Nodes |-> IF t["left"][m] = nil THEN m ELSE down[t["left"][m]]]
      BY <3>2
    <3> HIDE DEF down
    <3>4. QED
      BY <3>3 DEF Down
  <2>4. s = down[t.right[n]]
    BY <1>2 DEF Spliced, TreeSuccessor, Extreme
  <2> HIDE DEF down
  <2>5. t.right[n] \in L
    BY <1>2 DEF Shaped, Wired, Sides
  <2>6. s \in L /\ t[dir[s]][s] = nil
    BY <2>1, <2>3, <2>4, <2>5, DownEnds
  <2>7. t["left"] = t.left
    BY SMTT(30)
  <2>8. QED
    BY <2>6, <2>7
<1>3. QED
  BY <1>1, <1>2

(* The node s is taken out, and its one child c comes up in its place.     *)
CutOut(t, s, c) == Relink([t EXCEPT !.parent[c] = t.parent[s]], t.parent[s], s, c)
Remaining(t, L, a, s, c, u) ==
  /\ Shaped(u, L \ {s}) /\ u.red = t.red
  /\ \A q \in All, d \in Sides : u[d][q] = IF q = t.parent[s] /\ d = a THEN c ELSE t[d][q]
  /\ \A q \in All : u.parent[q] = IF q = c THEN t.parent[s] ELSE t.parent[q]
  /\ Balanced(u, L \ {s}, IF t.red[s] THEN nil ELSE t.parent[s], a)

(* What is left of the tree is shaped, and short only above c.             *)
LEMMA CutOutKeeps ==
  ASSUME NEW t, NEW L \in SUBSET Nodes, Shaped(t, L), Balanced(t, L, nil, "left"),
         NEW s \in L, t.left[s] = nil \/ t.right[s] = nil,
         NEW c, c = (IF t.left[s] = nil THEN t.right[s] ELSE t.left[s]),
         NEW a, a = SideOf(t, s), NEW u, u = CutOut(t, s, c)
  PROVE  a \in Sides /\ t[a][t.parent[s]] = s /\ Remaining(t, L, a, s, c, u)
<1> DEFINE p == t.parent[s]
           v == [t EXCEPT !.parent[c] = p]
<1>1. /\ t \in Tree /\ L \subseteq All /\ nil \in All /\ root \in All
      /\ nil \notin L /\ root \notin L /\ nil # root
      /\ p \in L \cup {root} /\ p # s /\ p \in All /\ s \in All
      /\ c \in L \cup {nil} /\ c # s /\ c # p /\ c \in All /\ c \in Nodes \cup {nil}
      /\ (c \in L => t.parent[c] = s) /\ \E r \in Sides : t[r][s] = c
      /\ \A r \in Sides : t[r][s] \in {nil, c}
  <2>1. \E r \in Sides : t[r][s] = c
    BY DEF Sides
  <2>2. \A r \in Sides : t[r][s] \in {nil, c}
    BY DEF Sides
  <2>3. p \in L \cup {root} /\ t \in Tree
    BY DEF Shaped, Wired
  <2>4. c \in L \cup {nil} /\ c # s /\ (c \in L => t.parent[c] = s)
    BY SMTT(30), <2>1, WiredFacts DEF Shaped, Wired
  <2>5. c # p
    BY <2>1, <2>3, <2>4, WiredFacts
  <2>6. QED
    BY <2>1, <2>2, <2>3, <2>4, <2>5, WiredFacts
<1>2. a \in Sides /\ t[a][p] = s /\ t[Other(a)][p] # s
  <2>1. a \in Sides /\ t[a][p] = s
    BY SideOfFacts DEF Shaped
  <2>2. Other(a) \in Sides /\ Other(a) # a
    BY <2>1 DEF Sides, Other
  <2>3. QED
    BY <1>1, <2>1, <2>2, WiredFacts
<1>3. /\ v \in Tree /\ v.red = t.red /\ v.left = t.left /\ v.right = t.right /\ v.key = t.key
      /\ v.parent = [t.parent EXCEPT ![c] = p]
  BY <1>1 DEF Tree
<1>4. \A d \in Sides : v[d] = t[d]
  BY <1>3 DEF Sides
<1>5. u = Relink(v, p, s, c)
  BY DEF CutOut
<1> HIDE DEF v
<1>6. /\ u \in Tree /\ u.parent = v.parent /\ u.red = v.red
      /\ u[a] = [v[a] EXCEPT ![p] = c] /\ u[Other(a)] = v[Other(a)]
  <2>1. v[a][p] = s /\ v[Other(a)][p] # s
    BY <1>2, <1>4 DEF Sides, Other
  <2>2. p \in All /\ a \in Sides /\ v \in Tree /\ c \in Nodes \cup {nil}
    BY SMTT(30), <1>1, <1>2, <1>3
  <2> HIDE DEF p
  <2>3. QED
    BY <1>5, <2>1, <2>2, RelinkEffect
<1>7. /\ \A q \in All, d \in Sides : u[d][q] = IF q = p /\ d = a THEN c ELSE t[d][q]
      /\ \A q \in All : u.parent[q] = IF q = c THEN p ELSE t.parent[q]
      /\ u.red = t.red
  <2>1. \A d \in Sides : d = a \/ d = Other(a)
    BY <1>2 DEF Sides, Other
  <2>2. Other(a) # a
    BY <1>2 DEF Sides, Other
  <2>3. t[a] \in [All -> Nodes \cup {nil}] /\ t.parent \in [All -> All]
    BY <1>1, <1>2 DEF Tree, Sides
  <2>4. u[a] = [t[a] EXCEPT ![p] = c] /\ u[Other(a)] = t[Other(a)]
    BY <1>2, <1>4, <1>6 DEF Sides, Other
  <2>5. QED
    BY <1>1, <1>3, <1>6, <2>1, <2>2, <2>3, <2>4
<1> HIDE DEF p
<1>8. Wired(u, L \ {s})
  <2>1. u.right[root] = nil
    <3>1. t.right[root] = nil
      BY DEF Shaped, Wired
    <3>2. p = root => a = "left"
      BY SMTT(30), <1>1, <1>2, <3>1 DEF Sides
    <3>3. QED
      BY <1>1, <1>7, <3>1, <3>2 DEF Sides
  <2>2. \A q \in (L \ {s}) \cup {root}, d \in Sides :
          u[d][q] # nil => u[d][q] \in L \ {s} /\ u.parent[u[d][q]] = q
    <3> SUFFICES ASSUME NEW q \in (L \ {s}) \cup {root}, NEW d \in Sides, u[d][q] # nil
                 PROVE  u[d][q] \in L \ {s} /\ u.parent[u[d][q]] = q
      OBVIOUS
    <3>1. q \in All
      BY SMTT(30), <1>1
    <3>2. CASE q = p /\ d = a
      BY SMTT(30), <1>1, <1>7, <3>1, <3>2
    <3>3. CASE ~(q = p /\ d = a)
      <4>1. u[d][q] = t[d][q] /\ t[d][q] \in L /\ t.parent[t[d][q]] = q
        BY <1>1, <1>7, <3>1, <3>3 DEF Shaped, Wired
      <4>2. t[d][q] # s
        BY <1>2, <3>1, <3>3, <1>1, WiredFacts
      <4>3. t[d][q] # c
        BY <1>1, <4>1, <3>1
      <4>4. QED
        BY SMTT(30), <1>1, <1>7, <4>1, <4>2, <4>3
    <3>4. QED
      BY SMTT(30), <3>2, <3>3
  <2>3. ASSUME NEW q \in L \ {s}
        PROVE  /\ u.parent[q] \in (L \ {s}) \cup {root}
               /\ \E d \in Sides : u[d][u.parent[q]] = q /\ u[Other(d)][u.parent[q]] # q
    <3>1. CASE q = c
      <4>1. u.parent[q] = p /\ u[a][p] = q /\ Other(a) \in Sides /\ Other(a) # a
        BY SMTT(30), <1>1, <1>2, <1>7, <3>1 DEF Sides, Other
      <4>2. u[Other(a)][p] = t[Other(a)][p] /\ t[Other(a)][p] # q
        <5>1. t[Other(a)][p] # nil => t.parent[t[Other(a)][p]] = p
          BY <1>1, <4>1 DEF Shaped, Wired
        <5>2. QED
          BY <1>1, <1>7, <3>1, <4>1, <5>1
      <4>3. QED
        BY <1>1, <1>2, <4>1, <4>2, ZenonT(40)
    <3>2. CASE q # c
      <4>1. u.parent[q] = t.parent[q] /\ t.parent[q] \in L \cup {root} /\ t.parent[q] \in All
        BY <1>1, <1>7, <3>2 DEF Shaped, Wired
      <4>2. PICK d \in Sides : t[d][t.parent[q]] = q /\ t[Other(d)][t.parent[q]] # q
        BY DEF Shaped, Wired
      <4>3. t.parent[q] # s
        BY <1>1, <3>2, <4>2
      <4>4. u[d][t.parent[q]] = q
        BY SMTT(30), <1>2, <1>7, <4>1, <4>2
      <4>5. u[Other(d)][t.parent[q]] # q
        BY <1>7, <3>2, <4>1, <4>2 DEF Sides, Other
      <4>6. QED
        BY <4>1, <4>2, <4>3, <4>4, <4>5, ZenonT(40)
    <3>3. QED
      BY <3>1, <3>2, Zenon
  <2>4. QED
    BY <2>1, <2>2, <2>3, Zenon DEF Wired
<1>9. \E e : Ranked(u, L \ {s}, e)
  <2>1. PICK e : Ranked(t, L, e)
    BY DEF Shaped
  <2>2. ASSUME NEW q \in L \ {s} PROVE e[q] < e[u.parent[q]] /\ e[q] < e[root]
    <3>1. e[q] < e[t.parent[q]] /\ e[q] < e[root] /\ e[s] < e[p]
      BY <2>1 DEF Ranked, p
    <3>2. e[q] \in Nat /\ e[s] \in Nat /\ e[p] \in Nat
      BY SMTT(30), <1>1, <2>1 DEF Ranked
    <3>3. CASE q = c
      <4>1. t.parent[q] = s /\ u.parent[q] = p
        BY <1>1, <1>7, <3>3
      <4>2. e[q] < e[s] /\ e[s] < e[p] /\ e[q] < e[root]
        BY <3>1, <4>1, Zenon
      <4>3. e[q] < e[p]
        BY <3>2, <4>2
      <4>4. QED
        BY <4>1, <4>2, <4>3, Zenon
    <3>4. CASE q # c
      BY <1>1, <1>7, <3>1, <3>4
    <3>5. QED
      BY <3>3, <3>4
  <2>3. QED
    BY <2>1, <2>2 DEF Ranked
<1>10. Balanced(u, L \ {s}, IF t.red[s] THEN nil ELSE p, a)
  <2>1. PICK h : Heights(t, L, h, nil, "left")
    BY DEF Balanced
  <2>2. h[nil] = 0 /\ h \in [All -> Nat] /\ \A q \in All : h[q] \in Nat
    BY <2>1 DEF Heights
  <2>3. \A q \in L, d \in Sides : h[q] = h[t[d][q]] + Weight(t, q) /\ t[d][q] \in All
    <3>1. \A q \in L, d \in Sides : h[q] = h[t[d][q]] + Weight(t, q) + 0 /\ t[d][q] \in All
      BY <1>1, <2>1, WiredFacts DEF Heights, Owed
    <3>2. \A q \in L : Weight(t, q) \in Nat
      BY DEF Weight
    <3>3. QED
      BY <2>2, <3>1, <3>2
  <2>4. h[s] = h[c] + Weight(t, s)
    BY <1>1, <2>3
  <2> DEFINE o == IF t.red[s] THEN nil ELSE p
  <2>5. \A d \in Sides, q \in L : Owed(q, d, o, a) = IF q = p /\ d = a THEN Weight(t, s) ELSE 0
    BY <1>1 DEF Owed, Weight
  <2> HIDE DEF o
  <2>6. ASSUME NEW q \in L \ {s}, NEW d \in Sides
        PROVE  h[q] = h[u[d][q]] + Weight(u, q) + Owed(q, d, o, a)
    <3>1. Weight(u, q) = Weight(t, q) /\ Weight(t, q) \in Nat /\ Weight(t, s) \in Nat
      BY <1>7 DEF Weight
    <3>2. q \in All /\ t[d][q] \in All /\ h[q] = h[t[d][q]] + Weight(t, q)
      BY <1>1, <2>3
    <3>3. CASE q = p /\ d = a
      <4>1. u[d][q] = c /\ t[d][q] = s /\ Owed(q, d, o, a) = Weight(t, s)
        BY <1>2, <1>7, <2>5, <3>2, <3>3
      <4>2. QED
        BY <1>1, <2>2, <2>4, <3>1, <3>2, <4>1
    <3>4. CASE ~(q = p /\ d = a)
      <4>1. u[d][q] = t[d][q] /\ Owed(q, d, o, a) = 0
        BY SMTT(30), <1>7, <2>5, <3>2, <3>4
      <4>2. QED
        BY <2>2, <3>1, <3>2, <4>1
    <3>5. QED
      BY <3>3, <3>4
  <2>7. Heights(u, L \ {s}, h, o, a)
    BY <2>2, <2>6 DEF Heights
  <2>8. QED
    BY <2>7 DEF Balanced, o
<1>11. QED
  BY <1>2, <1>6, <1>7, <1>8, <1>9, <1>10 DEF Remaining, Shaped, p

(* The nodes M are allocated, m is the one that is not in the tree.        *)
Outside(t, M, L, m) ==
  \A d \in Sides : (\A q \in Nodes \ M : t[d][q] = nil) /\ t[d][m] \in L \cup {nil}

(* A tree that needs no repair.                                            *)
Standing(t, L) ==
  /\ Shaped(t, L) /\ Balanced(t, L, nil, "left") /\ Sentinels(t)
  /\ NoPairs(t, L) /\ ~t.red[First(t)]

(* A standing tree makes RbtInv true where y is about to replace z.        *)
LEMMA AtReplace ==
  ASSUME NEW u, NEW M \in SUBSET Nodes, NEW m \in M, Standing(u, M \ {m}),
         Outside(u, M, M \ {m}, m), tree' = u, live' = M, y' = m, z' \in M,
         pc' = "replace", x' \in All, top' \in Nodes \cup {nil}
  PROVE  RbtInv'
<1>1. Linked' = M \ {m} /\ Deleting' /\ Debtor' = nil
  BY DEF Linked, Deleting, Debtor
<1>2. RbtTypeOK'
  BY <1>1 DEF RbtTypeOK, Shaped, Tree, Deleting, Standing
<1>3. Sound'
  <2>1. Balanced(u, M \ {m}, nil, SideOf(tree, x)')
    BY NoDebt, NodesAssumption DEF Standing
  <2>2. Tidy'
    BY <1>1 DEF Tidy, Outside
  <2>3. QED
    BY <1>1, <2>1, <2>2 DEF Sound, Standing
<1>4. Colours'
  BY <1>1 DEF Colours, Standing, NoPairs
<1>5. Locals'
  BY DEF Locals
<1>6. QED
  BY <1>2, <1>3, <1>4, <1>5 DEF RbtInv

(* The child k of p may be short of a black; f was first when the repair   *)
(* began.                                                                  *)
Mending(t, L, k, p, f) ==
  /\ Shaped(t, L) /\ Sentinels(t) /\ p = t.parent[k] /\ k \in L \cup {nil}
  /\ IF t.red[k] \/ k # f THEN Balanced(t, L, p, SideOf(t, k)) ELSE Balanced(t, L, nil, "left")
  /\ IF p = root THEN k = First(t) ELSE p \in L /\ \E s \in Sides : t[s][p] = k
  /\ k # f => First(t) = f /\ ~t.red[f]
  /\ t.red[First(t)] => k = First(t)
  /\ \A n \in L : t.red[n] /\ t.red[t.parent[n]] => k \in {n, t.parent[n]}

(* A mending tree makes RbtInv true in the loop of RBDeleteFixUp.          *)
LEMMA AtRepair ==
  ASSUME NEW u, NEW M \in SUBSET Nodes, NEW m \in M, NEW k, NEW p, NEW f \in Nodes \cup {nil},
         Mending(u, M \ {m}, k, p, f), Outside(u, M, M \ {m}, m),
         tree' = u, live' = M, y' = m, z' \in M, pc' = "fixup", x' = k, top' = f
  PROVE  RbtInv'
<1>1. Linked' = M \ {m} /\ Deleting' /\ Debtor' = (IF u.red[k] \/ k # f THEN p ELSE nil)
  BY DEF Linked, Deleting, Debtor, Mending
<1>2. k \in All
  BY DEF Mending, All
<1>3. RbtTypeOK'
  BY <1>1, <1>2 DEF RbtTypeOK, Shaped, Tree, Deleting, Mending
<1>4. Sound'
  <2>1. Balanced(u, M \ {m}, Debtor', SideOf(tree, x)')
    <3>1. SideOf(tree, x)' = SideOf(u, k)
      BY DEF SideOf
    <3>2. CASE u.red[k] \/ k # f
      BY <1>1, <3>1, <3>2 DEF Mending
    <3>3. CASE ~(u.red[k] \/ k # f)
      BY <1>1, <3>3, NoDebt, NodesAssumption DEF Mending
    <3>4. QED
      BY <3>2, <3>3
  <2>2. Tidy'
    BY <1>1 DEF Tidy, Outside
  <2>3. QED
    BY <1>1, <2>1, <2>2 DEF Sound, Mending
<1>5. Colours'
  BY <1>1 DEF Colours, Mending
<1>6. Locals'
  BY <1>1 DEF Locals, Mending
<1>7. QED
  BY <1>3, <1>4, <1>5, <1>6 DEF RbtInv

(* Without a red node the tree is whole; without a black one it is short   *)
(* of one where the node was.                                              *)
LEMMA CutOutMends ==
  ASSUME NEW t, NEW L \in SUBSET Nodes, Standing(t, L),
         \A q \in Nodes \ L, d \in Sides : t[d][q] = nil,
         NEW s \in L, t.left[s] = nil \/ t.right[s] = nil,
         NEW c, c = (IF t.left[s] = nil THEN t.right[s] ELSE t.left[s]),
         NEW u, u = CutOut(t, s, c)
  PROVE  /\ Outside(u, L, L \ {s}, s)
         /\ t.red[s] => Standing(u, L \ {s})
         /\ ~t.red[s] => Mending(u, L \ {s}, c, t.parent[s], First(u))
<1> DEFINE p == t.parent[s]
           a == SideOf(t, s)
<1>1. a \in Sides /\ t[a][p] = s /\ Remaining(t, L, a, s, c, u)
  BY CutOutKeeps DEF Standing
<1>2. /\ t \in Tree /\ L \subseteq All /\ nil \in All /\ root \in All
      /\ nil \notin L /\ root \notin L /\ nil # root
      /\ p \in L \cup {root} /\ p # s /\ p \in All /\ s \in All
      /\ c \in L \cup {nil} /\ c # s /\ c # p /\ c \in All
      /\ (c \in L => t.parent[c] = s) /\ \A r \in Sides : t[r][s] \in {nil, c}
  <2>1. \E r \in Sides : t[r][s] = c
    BY DEF Sides
  <2>2. \A r \in Sides : t[r][s] \in {nil, c}
    BY DEF Sides
  <2>3. p \in L \cup {root} /\ t \in Tree /\ Shaped(t, L)
    BY DEF Shaped, Wired, Standing
  <2>4. c \in L \cup {nil} /\ c # s /\ (c \in L => t.parent[c] = s)
    BY SMTT(30), <2>1, <2>3, WiredFacts DEF Shaped, Wired
  <2>5. c # p
    BY <2>1, <2>3, <2>4, WiredFacts
  <2>6. QED
    BY <2>1, <2>2, <2>3, <2>4, <2>5, WiredFacts
<1>3. /\ Shaped(u, L \ {s}) /\ u.red = t.red
      /\ \A q \in All, d \in Sides : u[d][q] = IF q = p /\ d = a THEN c ELSE t[d][q]
      /\ \A q \in All : u.parent[q] = IF q = c THEN p ELSE t.parent[q]
      /\ Balanced(u, L \ {s}, IF t.red[s] THEN nil ELSE p, a)
  BY <1>1 DEF Remaining
<1> HIDE DEF p, a
<1>4. Outside(u, L, L \ {s}, s)
  <2>1. ASSUME NEW d \in Sides, NEW q \in Nodes \ L PROVE u[d][q] = nil
    <3>1. q \in All /\ q # p
      BY SMTT(30), <1>2, NodesAssumption DEF All
    <3>2. QED
      BY <1>3, <2>1, <3>1
  <2>2. ASSUME NEW d \in Sides PROVE u[d][s] \in (L \ {s}) \cup {nil}
    BY <1>2, <1>3
  <2>3. QED
    BY <2>1, <2>2 DEF Outside
<1>5. Sentinels(u)
  BY <1>3 DEF Standing, Sentinels
<1>6. First(u) = IF p = root THEN c ELSE First(t)
  <2>1. p = root => a = "left"
    BY SMTT(30), <1>1, <1>2, NodesAssumption DEF Standing, Shaped, Wired, Sides, p
  <2>2. u["left"][root] = IF root = p /\ "left" = a THEN c ELSE t["left"][root]
    BY SMTT(30), <1>2, <1>3 DEF Sides
  <2>3. QED
    BY <2>1, <2>2 DEF First
<1>7. ASSUME NEW q \in L \ {s}, u.red[q], u.red[u.parent[q]]
      PROVE  q = c /\ ~t.red[s]
  <2>1. \A n \in L : t.red[n] => ~t.red[t.parent[n]]
    BY SMTT(30) DEF Standing, NoPairs
  <2>2. q = c
    BY <1>2, <1>3, <1>7, <2>1
  <2>3. t.parent[q] = s
    BY <1>2, <2>2
  <2>4. QED
    BY <1>3, <1>7, <2>1, <2>2, <2>3
<1>8. ~t.red[First(t)]
  BY DEF Standing
<1>9. p = root => s = First(t)
  BY SMTT(30), <1>1, <1>2, NodesAssumption DEF Standing, Shaped, Wired, Sides, p, First
<1>10. ASSUME t.red[s] PROVE Standing(u, L \ {s})
  <2>1. Balanced(u, L \ {s}, nil, "left")
    BY SMTT(30), <1>2, <1>3, <1>10, NoDebt
  <2>2. NoPairs(u, L \ {s})
    BY <1>7, <1>10 DEF NoPairs
  <2>3. ~u.red[First(u)]
    BY <1>3, <1>6, <1>8, <1>9, <1>10
  <2>4. QED
    BY SMTT(30), <1>3, <1>5, <2>1, <2>2, <2>3 DEF Standing
<1>11. ASSUME ~t.red[s] PROVE Mending(u, L \ {s}, c, p, First(u))
  <2>1. p = u.parent[c] /\ c \in (L \ {s}) \cup {nil}
    BY <1>2, <1>3
  <2>2. Balanced(u, L \ {s}, p, a)
    BY SMTT(30), <1>3, <1>11
  <2>3. u[a][p] = c
    BY SMTT(30), <1>1, <1>2, <1>3
  <2>4. IF p = root THEN c = First(u) ELSE p \in L \ {s} /\ \E r \in Sides : u[r][p] = c
    BY SMTT(30), <1>1, <1>2, <1>6, <2>3
  <2>5. c # First(u) => ~u.red[First(u)]
    BY <1>3, <1>6, <1>8
  <2>6. u.red[First(u)] => c = First(u)
    BY SMTT(30), <2>5
  <2>7. \A n \in L \ {s} : u.red[n] /\ u.red[u.parent[n]] => c \in {n, u.parent[n]}
    BY <1>7
  <2>8. p # root => SideOf(u, c) = a
    <3>1. SUFFICES ASSUME p # root PROVE SideOf(u, c) = a
      OBVIOUS
    <3>2. Other(a) \in Sides /\ Other(a) # a /\ p \in L \ {s}
      BY <1>1, <1>2, <3>1 DEF Sides, Other
    <3>3. u[Other(a)][p] # c
      <4>1. CASE c = nil
        <5>1. PICK h : Heights(u, L \ {s}, h, p, a)
          BY SMTT(30), <2>2 DEF Balanced
        <5>2. /\ h[p] = h[nil] + Weight(u, p) + 1
              /\ h[p] = h[u[Other(a)][p]] + Weight(u, p) + 0
          BY <1>1, <2>3, <3>2, <4>1, <5>1 DEF Heights, Owed
        <5>3. h[nil] = 0 /\ Weight(u, p) \in Nat
          BY SMTT(30), <5>1 DEF Heights, Weight
        <5>4. QED
          BY <4>1, <5>2, <5>3
      <4>2. CASE c # nil
        BY <1>1, <1>3, <2>3, <3>2, <4>2, WiredFacts
      <4>3. QED
        BY <4>1, <4>2
    <3>4. QED
      BY <1>1, <2>1, <2>3, <3>2, <3>3, Zenon DEF SideOf, Sides, Other
  <2>9. IF u.red[c] \/ c # First(u) THEN Balanced(u, L \ {s}, p, SideOf(u, c))
        ELSE Balanced(u, L \ {s}, nil, "left")
    <3>1. CASE p # root
      <4>1. Balanced(u, L \ {s}, p, SideOf(u, c))
        BY <2>2, <2>8, <3>1
      <4>2. ASSUME c = First(u) PROVE FALSE
        <5>1. CASE c = nil
          BY SMTT(30), <1>2, <1>3, <2>4, <3>1, <4>2, <5>1, NotEmpty
        <5>2. CASE c # nil
          <6>1. u["left"][root] = c /\ "left" \in Sides
            BY <4>2 DEF First, Sides
          <6>2. u["left"][root] # nil => u.parent[u["left"][root]] = root
            <7>1. PICK K : K = L \ {s}
              OBVIOUS
            <7>2. Shaped(u, K)
              BY <1>3, <7>1, Zenon
            <7>3. \A q \in K \cup {root}, d \in Sides : u[d][q] # nil => u.parent[u[d][q]] = q
              BY <7>2, Zenon DEF Shaped, Wired
            <7>4. QED
              BY <6>1, <7>3
          <6>3. QED
            BY <2>1, <3>1, <5>2, <6>1, <6>2
        <5>3. QED
          BY SMTT(30), <5>1, <5>2
      <4>3. QED
        BY <4>1, <4>2
    <3>2. CASE p = root
      <4>1. p \notin L \ {s} /\ nil \notin L \ {s}
        BY <1>2, <3>2
      <4>2. Balanced(u, L \ {s}, nil, "left") /\ Balanced(u, L \ {s}, p, SideOf(u, c))
        BY <2>2, <4>1, NoDebt
      <4>3. QED
        BY <4>2
    <3>3. QED
      BY <3>1, <3>2
  <2>10. QED
    BY <1>3, <1>5, <2>1, <2>4, <2>5, <2>6, <2>7, <2>9, ZenonT(40) DEF Mending
<1>12. QED
  BY <1>4, <1>10, <1>11 DEF p

(* RBDelete up to the repair keeps the invariant.                          *)
LEMMA DeleteStep == ASSUME RbtInv, NEW n \in Nodes, RBDelete(n) PROVE RbtInv'
<1> DEFINE s == Spliced(tree, n)
           c == IF tree.left[s] = nil THEN tree.right[s] ELSE tree.left[s]
<1>1. /\ pc = "idle" /\ n \in live /\ tree' = CutOut(tree, s, c)
      /\ x' = c /\ y' = s /\ z' = n /\ top' = First(tree') /\ live' = live
      /\ pc' = IF tree.red[s] THEN "replace" ELSE "fixup"
  BY DEF RBDelete, CutOut
<1>2. PICK t : t = tree
  OBVIOUS
<1>3. PICK u : u = tree'
  OBVIOUS
<1>4. /\ live \in SUBSET Nodes /\ Standing(t, live)
      /\ \A q \in Nodes \ live, d \in Sides : t[d][q] = nil
  <2>1. /\ Linked = live /\ live \in SUBSET Nodes /\ Shaped(t, live)
        /\ Balanced(t, live, nil, "left") /\ Sentinels(t)
        /\ \A q \in Nodes \ live, d \in Sides : t[d][q] = nil
    BY <1>1, <1>2, IdleFacts
  <2>2. NoPairs(t, live) /\ ~t.red[First(t)]
    BY <1>1, <1>2, <2>1 DEF RbtInv, Colours, NoPairs
  <2>3. QED
    BY <2>1, <2>2 DEF Standing
<1>5. s \in live /\ (t.left[s] = nil \/ t.right[s] = nil)
  <2>1. s = Spliced(t, n) /\ Shaped(t, live)
    BY <1>2, <1>4 DEF Standing
  <2> HIDE DEF s
  <2>2. QED
    BY <1>1, <1>4, <2>1, SplicedFacts
<1>6. c = (IF t.left[s] = nil THEN t.right[s] ELSE t.left[s]) /\ u = CutOut(t, s, c)
  BY <1>1, <1>2, <1>3
<1> HIDE DEF s, c
<1>7. /\ Outside(u, live, live \ {s}, s)
      /\ t.red[s] => Standing(u, live \ {s})
      /\ ~t.red[s] => Mending(u, live \ {s}, c, t.parent[s], First(u))
  BY <1>4, <1>5, <1>6, CutOutMends
<1>8. x' \in All /\ top' \in Nodes \cup {nil}
  <2>1. c \in live \cup {nil}
    BY <1>4, <1>5, <1>6, WiredFacts DEF Standing, Sides
  <2>2. Shaped(u, live \ {s})
    BY <1>7 DEF Standing, Mending
  <2>3. First(u) \in (live \ {s}) \cup {nil}
    BY <1>4, <2>2, WiredFacts DEF First, Sides
  <2>4. QED
    BY <1>1, <1>3, <1>4, <2>1, <2>3 DEF All
<1>9. CASE tree.red[s]
  BY <1>1, <1>2, <1>3, <1>4, <1>5, <1>7, <1>8, <1>9, AtReplace
<1>10. CASE ~tree.red[s]
  <2>1. PICK p : p = t.parent[s]
    OBVIOUS
  <2>2. PICK f : f = First(u)
    OBVIOUS
  <2>3. Mending(u, live \ {s}, c, p, f) /\ f \in Nodes \cup {nil} /\ top' = f
    BY <1>1, <1>2, <1>3, <1>7, <1>8, <1>10, <2>1, <2>2
  <2>4. /\ tree' = u /\ live' = live /\ y' = s /\ z' \in live /\ pc' = "fixup" /\ x' = c
        /\ Outside(u, live, live \ {s}, s)
    BY <1>1, <1>3, <1>7, <1>10
  <2>5. QED
    BY <1>4, <1>5, <2>3, <2>4, AtRepair
<1>11. QED
  BY <1>9, <1>10

(* What holds when the loop of RBDeleteFixUp goes on.                      *)
LEMMA ClimbFacts ==
  ASSUME RbtInv, Climbing
  PROVE  /\ Owes(tree, Linked, tree.parent[x], SideOf(tree, x), x)
         /\ Linked = live \ {y} /\ live \in SUBSET Nodes /\ y \in live /\ z \in live
         /\ Outside(tree, live, Linked, y)
         /\ First(tree) = top /\ ~tree.red[top] /\ top \in Linked
<1>1. /\ pc = "fixup" /\ ~tree.red[x] /\ x # top /\ Deleting
      /\ Linked = live \ {y} /\ live \in SUBSET Nodes /\ y \in live /\ z \in live
  BY DEF Climbing, RbtInv, RbtTypeOK, Linked, Deleting
<1>2. /\ x \in Linked \cup {nil} /\ First(tree) = top /\ ~tree.red[top]
      /\ tree.parent[x] \in Linked /\ \E s \in Sides : tree[s][tree.parent[x]] = x
  BY <1>1 DEF RbtInv, Locals
<1>3. /\ Shaped(tree, Linked) /\ Balanced(tree, Linked, tree.parent[x], SideOf(tree, x))
      /\ Outside(tree, live, Linked, y)
  BY <1>1 DEF RbtInv, Sound, Debtor, Tidy, Outside
<1>4. NoPairs(tree, Linked) /\ Sentinels(tree)
  BY <1>1 DEF RbtInv, Colours, NoPairs
<1>5. tree[SideOf(tree, x)][tree.parent[x]] = x
  BY <1>2 DEF SideOf, Sides
<1>6. top \in Linked
  <2>1. Linked \in SUBSET Nodes
    BY <1>1
  <2>2. First(tree) # nil
    BY <1>2, <1>3, <2>1, NotEmpty
  <2>3. QED
    BY <1>2, <1>3, <2>1, <2>2, WiredFacts DEF First, Sides
<1>7. QED
  BY <1>1, <1>2, <1>3, <1>4, <1>5, <1>6 DEF Owes

(* A black sibling without a red child becomes red itself: now all of what *)
(* is below p is short of a black.                                         *)
MovedUp(t, v, L, p, r, f) ==
  Mending(v, L, p, r, f) /\ \A q \in Nodes \ L, d \in Sides : v[d][q] = t[d][q]

(* With two black nephews the debt moves up to the parent.                 *)
LEMMA SiblingMends ==
  ASSUME NEW t, NEW L \in SUBSET Nodes, NEW p, NEW a \in Sides, NEW k, Owes(t, L, p, a, k),
         NEW f \in L, First(t) = f, t.red[f] = FALSE,
         NEW u, u = RedSiblingUp(t, a, p), NEW w, w = u[Other(a)][p],
         u.red[u.left[w]] = FALSE, u.red[u.right[w]] = FALSE,
         NEW v, v = [u EXCEPT !.red[w] = TRUE]
  PROVE  MovedUp(t, v, L, p, u.parent[p], f)
<1>1. /\ Owes(u, L, p, a, k) /\ w \in L /\ ~u.red[w]
      /\ \A q \in Nodes \ L, d \in Sides : u[d][q] = t[d][q]
      /\ p # f => First(u) = f /\ ~u.red[f]
      /\ u = t \/ (~u.red[u.parent[p]] /\ u.red[p] /\ u.parent[p] \in L
                   /\ (p = f => First(u) = u.parent[p]))
  <2>1. /\ Owes(u, L, p, a, k)
        /\ u[Other(a)][p] \in L /\ ~u.red[u[Other(a)][p]]
        /\ \A q \in Nodes \ L, d \in Sides : u[d][q] = t[d][q]
        /\ p # First(t) => First(u) = First(t) /\ u.red[First(t)] = t.red[First(t)]
        /\ u = t \/ (~u.red[u.parent[p]] /\ u.red[p] /\ u.parent[p] \in L
                     /\ (p = First(t) => First(u) = u.parent[p]))
    <3>1. BlackSibling(t, u, L, p, a, k)
      BY SiblingUp
    <3>2. QED
      BY <3>1, Zenon DEF BlackSibling
  <2>2. p # f => u.red[f] = FALSE
    BY <2>1
  <2>3. QED
    BY <2>1, <2>2
<1> DEFINE b == Other(a)
           r == u.parent[p]
<1>2. /\ u \in Tree /\ L \subseteq All /\ nil \in All /\ root \in All
      /\ nil \notin L /\ root \notin L /\ nil # root
      /\ b \in Sides /\ b # a /\ \A d \in Sides : d = a \/ d = b
      /\ p \in L /\ u[a][p] = k /\ u[b][p] = w /\ u.parent[w] = p /\ Shaped(u, L)
      /\ r \in L \cup {root} /\ r # p /\ w # p /\ r # w
      /\ k \in L \cup {nil} /\ k # w /\ k # p
  <2>1. /\ u \in Tree /\ p \in L /\ u[a][p] = k /\ u[b][p] = w /\ Shaped(u, L)
        /\ b \in Sides /\ b # a /\ \A d \in Sides : d = a \/ d = b
    BY <1>1 DEF Owes, Shaped, Sides, Other
  <2>2. r \in L \cup {root} /\ r # p /\ u.parent[w] = p
    <3>1. r \in L \cup {root}
      BY <2>1 DEF Shaped, Wired
    <3>2. r # p
      BY <2>1, WiredFacts
    <3>3. w # nil
      BY <1>1, NodesAssumption
    <3>4. u.parent[w] = p
      BY <2>1, <3>3 DEF Shaped, Wired
    <3>5. QED
      BY <3>1, <3>2, <3>4
  <2>3. w # p /\ r # w /\ k # p /\ k \in L \cup {nil}
    BY <1>1, <2>1, WiredFacts
  <2>4. k # w
    BY SMTT(30), <1>1, <2>1, <2>3, WiredFacts
  <2>5. QED
    BY <2>1, <2>2, <2>3, <2>4, WiredFacts
<1>3. Painted(u, v) /\ v.red = [u.red EXCEPT ![w] = TRUE]
  BY <1>1, <1>2 DEF Painted, Tree, Sides
<1>4. v.red[w] /\ \A q \in All : q # w => (v.red[q] <=> u.red[q])
  <2>1. u.red \in [All -> BOOLEAN] /\ w \in All
    BY <1>1, <1>2 DEF Tree
  <2>2. QED
    BY <1>3, <2>1
<1>5. Shaped(v, L) /\ v.parent = u.parent /\ (\A d \in Sides : v[d] = u[d]) /\ First(v) = First(u)
  <2>1. Shaped(v, L)
    BY <1>2, <1>3, PaintKeeps
  <2>2. QED
    BY <1>3, <2>1 DEF Painted, First
<1>6. \A d \in Sides : ~u.red[u[d][w]]
  BY DEF Sides
<1> HIDE DEF r
<1>7. Sentinels(v)
  BY <1>1, <1>2, <1>4 DEF Owes, Sentinels
<1>8. SideOf(u, p) \in Sides /\ u[SideOf(u, p)][r] = p
  BY <1>2, SideOfFacts DEF r, Shaped
<1>9. Balanced(v, L, r, SideOf(u, p))
  <2>1. PICK h : Heights(u, L, h, p, a)
    BY <1>1 DEF Owes, Balanced
  <2> DEFINE e == [h EXCEPT ![p] = h[p] - 1, ![w] = h[w] - 1]
             c == SideOf(u, p)
  <2>2. h[nil] = 0 /\ \A q \in All : h[q] \in Nat
    BY <2>1 DEF Heights
  <2>3. /\ h[p] = h[k] + Weight(u, p) + 1 /\ h[p] = h[w] + Weight(u, p)
        /\ \A d \in Sides : h[w] = h[u[d][w]] + 1
    <3>1. Weight(u, w) = 1 /\ Weight(u, p) \in Nat
      BY <1>1 DEF Weight
    <3>2. h[w] \in Nat /\ h[k] \in Nat /\ \A d \in Sides : h[u[d][w]] \in Nat
      BY <1>1, <1>2, <2>2, WiredFacts
    <3>3. /\ h[p] = h[k] + Weight(u, p) + 1 /\ h[p] = h[w] + Weight(u, p) + 0
          /\ \A d \in Sides : h[w] = h[u[d][w]] + 1 + 0
      BY <1>1, <1>2, <2>1, <3>1 DEF Heights, Owed
    <3>4. QED
      BY <3>1, <3>2, <3>3
  <2>4. h[p] - 1 \in Nat /\ h[w] - 1 \in Nat /\ h[w] - 1 = h[k]
    <3>1. Weight(u, p) \in Nat /\ h[k] \in Nat /\ h[w] \in Nat /\ h[p] \in Nat
      BY SMTT(30), <1>1, <1>2, <2>2 DEF Weight
    <3>2. QED
      BY <2>3, <3>1
  <2>5. e \in [All -> Nat] /\ \A q \in All : e[q] = IF q = p \/ q = w THEN h[q] - 1 ELSE h[q]
    <3>1. h \in [All -> Nat]
      BY <2>1 DEF Heights
    <3>2. QED
      BY <1>1, <1>2, <2>4, <3>1
  <2> HIDE DEF e
  <2>6. e[nil] = 0
    BY <1>1, <1>2, <2>2, <2>5
  <2> HIDE DEF c
  <2>7. c \in Sides /\ u[c][r] = p
    BY <1>8 DEF c
  <2>8. ASSUME NEW q \in L, NEW d \in Sides
        PROVE  e[q] = e[u[d][q]] + Weight(v, q) + Owed(q, d, r, c)
    <3>1. h[q] = h[u[d][q]] + Weight(u, q) + Owed(q, d, p, a) /\ u[d][q] \in All /\ q \in All
      BY <1>1, <1>2, <2>1, WiredFacts DEF Heights
    <3>2. CASE q = p
      <4>1. Owed(q, d, r, c) = 0 /\ Weight(v, q) = Weight(u, q) /\ Weight(u, q) \in Nat
        BY <1>2, <1>4, <3>1, <3>2 DEF Owed, Weight
      <4>2. e[u[d][q]] = h[k]
        BY <1>2, <2>4, <2>5, <3>1, <3>2
      <4>3. e[q] = h[p] - 1 /\ h[k] \in Nat
        BY SMTT(30), <1>2, <2>2, <2>5, <3>1, <3>2
      <4>4. QED
        BY <2>3, <3>2, <4>1, <4>2, <4>3
    <3>3. CASE q = w
      <4>1. Owed(q, d, r, c) = 0 /\ Weight(v, q) = 0
        BY <1>2, <1>4, <3>3 DEF Owed, Weight
      <4>2. u[d][w] # p /\ u[d][w] # w
        BY SMTT(30), <1>1, <1>2, WiredFacts
      <4>3. e[u[d][q]] = h[u[d][q]] /\ e[q] = h[w] - 1 /\ h[u[d][q]] \in Nat
        BY <2>2, <2>5, <3>1, <3>3, <4>2
      <4>4. QED
        BY <2>3, <3>3, <4>1, <4>3
    <3>4. CASE q # p /\ q # w
      <4>1. Weight(v, q) = Weight(u, q) /\ Weight(u, q) \in Nat /\ Owed(q, d, p, a) = 0
        BY <1>4, <3>1, <3>4 DEF Owed, Weight
      <4>2. u[d][q] # w
        BY <1>1, <1>2, <3>4, WiredFacts
      <4>3. e[q] = h[q] /\ h[q] \in Nat
        BY <2>2, <2>5, <3>1, <3>4
      <4>4. CASE u[d][q] = p
        <5>1. q = r /\ d = c
          BY <1>2, <2>7, <4>4, WiredFacts
        <5>2. e[u[d][q]] = h[u[d][q]] - 1 /\ Owed(q, d, r, c) = 1
          BY <2>5, <3>1, <4>4, <5>1 DEF Owed
        <5>3. QED
          BY <2>2, <3>1, <4>1, <4>3, <5>2
      <4>5. CASE u[d][q] # p
        <5>1. ~(q = r /\ d = c)
          BY <2>7, <4>5
        <5>2. e[u[d][q]] = h[u[d][q]] /\ Owed(q, d, r, c) = 0
          BY <2>5, <3>1, <4>2, <4>5, <5>1 DEF Owed
        <5>3. QED
          BY <2>2, <3>1, <4>1, <4>3, <5>2
      <4>6. QED
        BY <4>4, <4>5
    <3>5. QED
      BY <3>2, <3>3, <3>4
  <2> HIDE DEF e
  <2>9. \A q \in L, d \in Sides : e[q] = e[v[d][q]] + Weight(v, q) + Owed(q, d, r, c)
    <3>1. \A d \in Sides : v[d] = u[d]
      BY <1>5
    <3>2. QED
      BY <2>8, <3>1, ZenonT(40)
  <2>10. Heights(v, L, e, r, c)
    BY <2>5, <2>6, <2>9 DEF Heights
  <2>11. QED
    BY <2>10 DEF Balanced, c
<1>10. r = root <=> p = First(u)
  <2>1. r = root => p = First(u)
    BY <1>2, <1>8, NodesAssumption DEF Shaped, Wired, Sides, First
  <2>2. p = First(u) => r = root
    <3>1. p # nil /\ root \in L \cup {root} /\ "left" \in Sides
      BY <1>2 DEF Sides
    <3>2. p = First(u) => u["left"][root] = p
      BY Zenon DEF First
    <3>3. u["left"][root] = p => u.parent[p] = root
      BY <1>2, <3>1 DEF Shaped, Wired
    <3>4. QED
      BY <3>2, <3>3 DEF r
  <2>3. QED
    BY <2>1, <2>2
<1>11. v.red[p] \/ p # f \/ r \notin L
  <2>1. SUFFICES ASSUME ~v.red[p], p = f PROVE r \notin L
    OBVIOUS
  <2>2. ~u.red[p]
    BY <1>2, <1>4, <2>1
  <2>3. u = t
    BY <1>1, <2>2
  <2>4. QED
    BY <1>2, <1>10, <2>1, <2>3
<1>12. IF v.red[p] \/ p # f THEN Balanced(v, L, r, SideOf(v, p)) ELSE Balanced(v, L, nil, "left")
  <2>1. SideOf(v, p) = SideOf(u, p)
    BY <1>5 DEF SideOf, Sides
  <2>2. Balanced(v, L, r, SideOf(v, p))
    BY <1>9, <2>1
  <2>3. CASE v.red[p] \/ p # f
    BY <2>2, <2>3
  <2>4. CASE ~(v.red[p] \/ p # f)
    <3>1. r \notin L
      BY <1>11, <2>4
    <3>2. QED
      BY <1>2, <2>2, <2>4, <3>1, NoDebt
  <2>5. QED
    BY <2>3, <2>4
<1>13. IF r = root THEN p = First(v) ELSE r \in L /\ \E s \in Sides : v[s][r] = p
  BY <1>2, <1>5, <1>8, <1>10
<1>14. p # f => First(v) = f /\ ~v.red[f]
  <2>1. SUFFICES ASSUME p # f PROVE First(v) = f /\ ~v.red[f]
    OBVIOUS
  <2>2. First(u) = f /\ ~u.red[f] /\ f \in All
    BY <1>1, <1>2, <2>1
  <2>3. f # w
    BY <1>2, <2>2 DEF Shaped, Wired, First, Sides
  <2>4. QED
    BY <1>4, <1>5, <2>2, <2>3
<1>15. v.red[First(v)] => p = First(v)
  <2>1. CASE p # f
    BY <1>14, <2>1
  <2>2. CASE p = f /\ u = t
    BY <1>5, <2>2
  <2>3. CASE p = f /\ u # t
    <3>1. First(u) = r /\ ~u.red[r]
      BY <1>1, <2>3 DEF r
    <3>2. r \in All
      BY <1>2
    <3>3. QED
      BY <1>2, <1>4, <1>5, <3>1, <3>2
  <2>4. QED
    BY <2>1, <2>2, <2>3
<1>16. ASSUME NEW n \in L, v.red[n], v.red[v.parent[n]] PROVE p \in {n, v.parent[n]}
  <2>1. n \in All /\ u.parent[n] \in All
    BY <1>2, WiredFacts
  <2>2. \A q \in L : u.red[q] => ~u.red[u.parent[q]]
    BY <1>1 DEF Owes, NoPairs
  <2>3. CASE n = w
    BY <1>2, <1>5, <2>3
  <2>4. CASE n # w
    <3>1. u.red[n] /\ v.parent[n] = u.parent[n]
      BY <1>4, <1>5, <1>16, <2>1, <2>4
    <3>2. u.parent[n] # w
      <4>1. PICK d \in Sides : u[d][u.parent[n]] = n
        BY <1>2 DEF Shaped, Wired
      <4>2. QED
        BY <1>6, <3>1, <4>1
    <3>3. QED
      BY <1>4, <1>16, <2>1, <2>2, <3>1, <3>2
  <2>5. QED
    BY <2>3, <2>4
<1>17. r = v.parent[p] /\ p \in L \cup {nil}
  BY SMTT(30), <1>2, <1>5 DEF r
<1>18. Mending(v, L, p, r, f)
  BY <1>5, <1>7, <1>12, <1>13, <1>14, <1>15, <1>16, <1>17 DEF Mending
<1>19. ASSUME NEW q \in Nodes \ L, NEW d \in Sides PROVE v[d][q] = t[d][q]
  <2>1. u[d][q] = t[d][q] /\ v[d] = u[d]
    BY <1>1, <1>5
  <2>2. QED
    BY <2>1
<1>20. QED
  BY <1>18, <1>19 DEF r, MovedUp

(* What lies outside the tree stays as it was.                             *)
LEMMA OutsideStays ==
  ASSUME NEW t, NEW v, NEW M \in SUBSET Nodes, NEW m \in M, NEW L, L = M \ {m},
         Outside(t, M, L, m), \A q \in Nodes \ L, d \in Sides : v[d][q] = t[d][q]
  PROVE  Outside(v, M, L, m)
<1>1. ASSUME NEW d \in Sides, NEW q \in Nodes \ M PROVE v[d][q] = nil
  BY <1>1 DEF Outside
<1>2. ASSUME NEW d \in Sides PROVE v[d][m] \in L \cup {nil}
  BY DEF Outside
<1>3. QED
  BY <1>1, <1>2 DEF Outside

(* An iteration with two black nephews keeps the invariant.                *)
LEMMA FixUpSiblingStep == ASSUME RbtInv, FixUpSibling PROVE RbtInv'
<1> DEFINE a == SideOf(tree, x)
           u == RedSiblingUp(tree, a, tree.parent[x])
           w == u[Other(a)][u.parent[x]]
<1>1. /\ Climbing /\ pc = "fixup" /\ ~u.red[u.left[w]] /\ ~u.red[u.right[w]]
      /\ tree' = [u EXCEPT !.red[w] = TRUE] /\ x' = u.parent[x]
      /\ live' = live /\ pc' = "fixup" /\ y' = y /\ z' = z /\ top' = top
  BY Zenon DEF FixUpSibling, Climbing, locals
<1>2. PICK t : t = tree
  OBVIOUS
<1>3. PICK p : p = tree.parent[x]
  OBVIOUS
<1>4. PICK L : L = Linked
  OBVIOUS
<1>5. PICK k : k = x
  OBVIOUS
<1>6. /\ Owes(t, L, p, a, k) /\ L = live \ {y} /\ live \in SUBSET Nodes /\ y \in live /\ z \in live
      /\ Outside(t, live, L, y) /\ First(t) = top /\ ~t.red[top] /\ top \in L
  BY <1>1, <1>2, <1>3, <1>4, <1>5, ClimbFacts, Zenon
<1>7. L \in SUBSET Nodes /\ a \in Sides
  BY <1>6 DEF SideOf, Sides
<1>8. PICK v : v = tree'
  OBVIOUS
<1>9. u = RedSiblingUp(t, a, p)
  BY <1>2, <1>3
<1> HIDE DEF a, u
<1>10. Owes(u, L, p, a, k) /\ u[Other(a)][p] \in L
  <2>1. BlackSibling(t, u, L, p, a, k)
    BY <1>6, <1>7, <1>9, SiblingUp
  <2>2. QED
    BY <2>1, Zenon DEF BlackSibling
<1>11. w = u[Other(a)][p] /\ x' = p /\ w \in L
  BY SMTT(30), <1>1, <1>5, <1>10 DEF Owes
<1>12. v = [u EXCEPT !.red[w] = TRUE] /\ ~u.red[u.left[w]] /\ ~u.red[u.right[w]]
  BY <1>1, <1>8
<1> HIDE DEF w
<1>13. /\ u.red[u.left[w]] = FALSE /\ u.red[u.right[w]] = FALSE /\ t.red[top] = FALSE
  <2>1. u \in Tree /\ t \in Tree
    BY <1>6, <1>10 DEF Owes, Shaped
  <2>2. u.left[w] \in All /\ u.right[w] \in All /\ top \in All
    BY <1>6, <1>7, <1>11, <2>1 DEF Tree, All
  <2>3. QED
    BY <1>6, <1>12, <2>1, <2>2 DEF Tree
<1>14. /\ Mending(v, L, p, u.parent[p], top)
       /\ \A q \in Nodes \ L, d \in Sides : v[d][q] = t[d][q]
  <2>1. PICK f : f = top
    OBVIOUS
  <2>2. f \in L /\ First(t) = f /\ t.red[f] = FALSE
    BY SMTT(30), <1>6, <1>13, <2>1
  <2>3. MovedUp(t, v, L, p, u.parent[p], f)
    BY <1>6, <1>7, <1>9, <1>11, <1>12, <1>13, <2>2, SiblingMends
  <2>4. QED
    BY <2>1, <2>3 DEF MovedUp
<1>15. Outside(v, live, L, y)
  BY <1>6, <1>14, OutsideStays
<1>16. PICK r : r = u.parent[p]
  OBVIOUS
<1>17. /\ Mending(v, live \ {y}, p, r, top) /\ Outside(v, live, live \ {y}, y)
       /\ tree' = v /\ live' = live /\ y' = y /\ z' \in live /\ pc' = "fixup" /\ x' = p
       /\ top' = top /\ top \in Nodes \cup {nil}
  BY <1>1, <1>6, <1>7, <1>8, <1>11, <1>14, <1>15, <1>16
<1>18. QED
  BY <1>6, <1>17, AtRepair

(* The other way round the loop is the last: nothing is short any more.    *)
HasRedNephew(t, a, p) ==
  LET t1 == RedSiblingUp(t, a, p)
      w == t1[Other(a)][p]
  IN  t1.red[t1.left[w]] \/ t1.red[t1.right[w]]
RepaidTree(t, a, p) ==
  LET t1 == RedSiblingUp(t, a, p)
      u == RedOutside(t1, a, t1[Other(a)][p])
      v == u[Other(a)][p]
  IN  Rotate(Repaid(u, p, v, u[Other(a)][v]), a, p)

(* With a red nephew the tree is whole again.                              *)
LEMMA TurnMends ==
  ASSUME NEW t, NEW L \in SUBSET Nodes, NEW p, NEW a \in Sides, NEW k, Owes(t, L, p, a, k),
         NEW f \in L, First(t) = f, t.red[f] = FALSE, HasRedNephew(t, a, p),
         NEW s, s = RepaidTree(t, a, p)
  PROVE  MovedUp(t, s, L, f, s.parent[f], f)
<1>0a. PICK t1 : t1 = RedSiblingUp(t, a, p)
  OBVIOUS
<1>0b. PICK w : w = t1[Other(a)][p]
  OBVIOUS
<1>0c. PICK u : u = RedOutside(t1, a, w)
  OBVIOUS
<1>0d. PICK v : v = u[Other(a)][p]
  OBVIOUS
<1>0e. PICK o : o = u[Other(a)][v]
  BY SMTT(30)
<1>0. /\ t1.red[t1.left[w]] \/ t1.red[t1.right[w]]
      /\ s = Rotate(Repaid(u, p, v, o), a, p)
  BY ZenonT(40), <1>0a, <1>0b, <1>0c, <1>0d, <1>0e DEF HasRedNephew, RepaidTree
<1>1. /\ Owes(t1, L, p, a, k) /\ w \in L /\ ~t1.red[w]
      /\ \A q \in Nodes \ L, d \in Sides : t1[d][q] = t[d][q]
      /\ p # f => First(t1) = f /\ t1.red[f] = FALSE
      /\ t1 = t \/ (~t1.red[t1.parent[p]] /\ (p = f => First(t1) = t1.parent[p]))
  <2>1. BlackSibling(t, t1, L, p, a, k)
    BY <1>0a, SiblingUp
  <2>2. /\ Owes(t1, L, p, a, k)
        /\ t1[Other(a)][p] \in L /\ ~t1.red[t1[Other(a)][p]]
        /\ \A q \in Nodes \ L, d \in Sides : t1[d][q] = t[d][q]
        /\ p # First(t) => First(t1) = First(t) /\ t1.red[First(t)] = t.red[First(t)]
        /\ t1 = t \/ (~t1.red[t1.parent[p]] /\ t1.red[p] /\ t1.parent[p] \in L
                     /\ (p = First(t) => First(t1) = t1.parent[p]))
    BY <2>1, Zenon DEF BlackSibling
  <2>3. p # f => t1.red[f] = FALSE
    BY <2>2
  <2>4. QED
    BY <1>0b, <2>2, <2>3
<1>2. /\ Owes(u, L, p, a, k) /\ v \in L /\ ~u.red[v] /\ o \in L /\ u.red[o]
      /\ \A q \in Nodes \ L, d \in Sides : u[d][q] = t1[d][q]
      /\ First(u) = First(t1) /\ u.red[First(t1)] = t1.red[First(t1)]
  <2>1. RedNephew(t1, u, L, p, a, k)
    BY <1>0, <1>0b, <1>0c, <1>1, OutsideRed
  <2>2. /\ Owes(u, L, p, a, k)
        /\ u[Other(a)][p] \in L /\ ~u.red[u[Other(a)][p]]
        /\ u[Other(a)][u[Other(a)][p]] \in L /\ u.red[u[Other(a)][u[Other(a)][p]]]
        /\ \A q \in Nodes \ L, d \in Sides : u[d][q] = t1[d][q]
        /\ First(u) = First(t1) /\ u.red[First(t1)] = t1.red[First(t1)]
    BY <2>1, Zenon DEF RedNephew
  <2>3. QED
    BY <1>0d, <1>0e, <2>2
<1>3. Whole(u, s, L, p, v)
  BY <1>0, <1>0d, <1>0e, <1>2, LastTurn
<1>4. /\ Shaped(s, L) /\ Balanced(s, L, nil, "left") /\ NoPairs(s, L) /\ Sentinels(s)
      /\ ~s.red[p]
      /\ \A q \in Nodes \ L, d \in Sides : s[d][q] = u[d][q]
      /\ First(s) = (IF p = First(u) THEN v ELSE First(u))
      /\ (s.red[First(s)] <=> u.red[First(u)])
  BY <1>3, Zenon DEF Whole
<1>5. ~t1.red[First(t1)]
  <2>1. CASE p # f
    BY <1>1, <2>1
  <2>2. CASE p = f /\ t1 = t
    BY <2>2
  <2>3. CASE p = f /\ t1 # t
    BY <1>1, <2>3
  <2>4. QED
    BY <2>1, <2>2, <2>3
<1>6. ~u.red[First(u)]
  <2>1. u.red[First(u)] = t1.red[First(t1)]
    BY <1>2
  <2>2. QED
    BY <1>5, <2>1
<1>7. ~s.red[First(s)]
  BY <1>4, <1>6
<1>8. ~s.red[f]
  <2>1. CASE p = f
    BY <1>4, <2>1
  <2>2. CASE p # f
    <3>1. First(s) = f
      BY <1>1, <1>2, <1>4, <2>2
    <3>2. QED
      BY <1>7, <3>1
  <2>3. QED
    BY <2>1, <2>2
<1>9. IF s.parent[f] = root THEN f = First(s)
      ELSE s.parent[f] \in L /\ \E d \in Sides : s[d][s.parent[f]] = f
  <2>0. Wired(s, L)
    BY <1>4, Zenon DEF Shaped
  <2>1. s.parent[f] \in L \cup {root} /\ \E d \in Sides : s[d][s.parent[f]] = f
    BY <2>0 DEF Wired
  <2>2. s.right[root] = nil /\ f # nil
    BY <2>0, NodesAssumption DEF Wired
  <2>3. QED
    BY <2>1, <2>2 DEF Sides, First
<1>10. Mending(s, L, f, s.parent[f], f)
  <2>1. \A n \in L : ~(s.red[n] /\ s.red[s.parent[n]])
    BY <1>4 DEF NoPairs
  <2>2. QED
    BY <1>4, <1>7, <1>8, <1>9, <2>1 DEF Mending
<1>11. ASSUME NEW q \in Nodes \ L, NEW d \in Sides PROVE s[d][q] = t[d][q]
  <2>1. s[d][q] = u[d][q]
    BY <1>4
  <2>2. u[d][q] = t1[d][q]
    BY <1>2
  <2>3. t1[d][q] = t[d][q]
    BY <1>1
  <2>4. QED
    BY <2>1, <2>2, <2>3
<1>12. QED
  BY <1>10, <1>11 DEF MovedUp

(* An iteration with a red nephew keeps the invariant.                     *)
LEMMA FixUpRotateStep == ASSUME RbtInv, FixUpRotate PROVE RbtInv'
<1> DEFINE a == SideOf(tree, x)
           t1 == RedSiblingUp(tree, a, tree.parent[x])
           w == t1[Other(a)][t1.parent[x]]
           u == RedOutside(t1, a, w)
           v == u[Other(a)][u.parent[x]]
           o == u[Other(a)][v]
<1>1. /\ Climbing /\ pc = "fixup" /\ (t1.red[t1.left[w]] \/ t1.red[t1.right[w]])
      /\ tree' = Rotate(Repaid(u, u.parent[x], v, o), a, u.parent[x]) /\ x' = top
      /\ live' = live /\ pc' = "fixup" /\ y' = y /\ z' = z /\ top' = top
  BY Zenon DEF FixUpRotate, Climbing, locals, Repaid
<1>2. PICK t : t = tree
  OBVIOUS
<1>3. PICK p : p = tree.parent[x]
  OBVIOUS
<1>4. PICK L : L = Linked
  OBVIOUS
<1>5. PICK k : k = x
  OBVIOUS
<1>6. /\ Owes(t, L, p, a, k) /\ L = live \ {y} /\ live \in SUBSET Nodes /\ y \in live /\ z \in live
      /\ Outside(t, live, L, y) /\ First(t) = top /\ ~t.red[top] /\ top \in L
  BY <1>1, <1>2, <1>3, <1>4, <1>5, ClimbFacts, Zenon
<1>7. L \in SUBSET Nodes /\ a \in Sides
  BY <1>6 DEF SideOf, Sides
<1>8. PICK s : s = tree'
  OBVIOUS
<1>9. t1 = RedSiblingUp(t, a, p)
  BY <1>2, <1>3
<1>10. u = RedOutside(t1, a, w)
  OBVIOUS
<1>11. /\ s = Rotate(Repaid(u, u.parent[x], v, o), a, u.parent[x])
       /\ t1.red[t1.left[w]] \/ t1.red[t1.right[w]]
  BY <1>1, <1>8, Zenon
<1> HIDE DEF a, t1, u
<1>12. Owes(t1, L, p, a, k) /\ t1[Other(a)][p] \in L /\ ~t1.red[t1[Other(a)][p]]
  <2>1. BlackSibling(t, t1, L, p, a, k)
    BY <1>6, <1>7, <1>9, SiblingUp
  <2>2. QED
    BY <2>1, Zenon DEF BlackSibling
<1>13. w = t1[Other(a)][p]
  BY <1>5, <1>12 DEF Owes
<1> HIDE DEF w
<1>14. Owes(u, L, p, a, k)
  <2>1. w \in L /\ ~t1.red[w]
    BY <1>12, <1>13
  <2>2. RedNephew(t1, u, L, p, a, k)
    BY <1>7, <1>10, <1>11, <1>12, <1>13, <2>1, OutsideRed, Zenon
  <2>3. QED
    BY <2>2, Zenon DEF RedNephew
<1>15. u.parent[x] = p
  BY <1>5, <1>14 DEF Owes
<1>16. v = u[Other(a)][p] /\ o = u[Other(a)][v]
  BY SMTT(30), <1>15
<1> HIDE DEF v, o
<1>17. s = RepaidTree(t, a, p) /\ HasRedNephew(t, a, p)
  BY <1>9, <1>10, <1>11, <1>13, <1>15, <1>16 DEF RepaidTree, HasRedNephew
<1>18. PICK f : f = top
  OBVIOUS
<1>19. f \in L /\ First(t) = f /\ t.red[f] = FALSE
  <2>1. t \in Tree /\ top \in All
    BY <1>6, <1>7 DEF Owes, Shaped, All
  <2>2. t.red[top] \in BOOLEAN
    BY <2>1 DEF Tree
  <2>3. QED
    BY <1>6, <1>18, <2>2
<1>20. MovedUp(t, s, L, f, s.parent[f], f)
  BY <1>6, <1>7, <1>17, <1>19, TurnMends
<1>21. /\ Mending(s, L, f, s.parent[f], f)
       /\ \A q \in Nodes \ L, d \in Sides : s[d][q] = t[d][q]
  BY <1>20, Zenon DEF MovedUp
<1>22. Outside(s, live, L, y)
  BY <1>6, <1>21, OutsideStays
<1>23. PICK r : r = s.parent[f]
  OBVIOUS
<1>24. /\ Mending(s, live \ {y}, f, r, f) /\ Outside(s, live, live \ {y}, y)
       /\ tree' = s /\ live' = live /\ y' = y /\ z' \in live /\ pc' = "fixup" /\ x' = f
       /\ top' = f /\ f \in Nodes \cup {nil}
  BY <1>1, <1>6, <1>7, <1>8, <1>18, <1>19, <1>21, <1>22, <1>23
<1>25. QED
  BY <1>6, <1>24, AtRepair

(* The end of RBDeleteFixUp keeps the invariant.                           *)
LEMMA FixUpDoneStep == ASSUME RbtInv, FixUpDone PROVE RbtInv'
<1>1. /\ pc = "fixup" /\ (tree.red[x] \/ x = top)
      /\ tree' = [tree EXCEPT !.red[x] = FALSE]
      /\ live' = live /\ pc' = "replace" /\ x' = x /\ y' = y /\ z' = z /\ top' = top
  BY DEF FixUpDone, locals
<1>2. PICK t : t = tree
  OBVIOUS
<1>3. PICK u : u = tree'
  OBVIOUS
<1>4. PICK L : L = Linked
  OBVIOUS
<1>5. PICK p : p = tree.parent[x]
  OBVIOUS
<1>6. /\ L = live \ {y} /\ live \in SUBSET Nodes /\ L \in SUBSET Nodes /\ y \in live /\ z \in live
      /\ top \in Nodes \cup {nil} /\ x \in All
  BY <1>1, <1>4 DEF RbtInv, RbtTypeOK, Linked, Deleting
<1>7. /\ Shaped(t, L) /\ Sentinels(t) /\ Outside(t, live, L, y)
      /\ Balanced(t, L, IF t.red[x] \/ x # top THEN p ELSE nil, SideOf(t, x))
  BY <1>1, <1>2, <1>4, <1>5 DEF RbtInv, Sound, Colours, Tidy, Outside, Debtor, Deleting
<1>8. /\ x \in L \cup {nil}
      /\ IF p = root THEN x = First(t) ELSE p \in L /\ \E s \in Sides : t[s][p] = x
  BY <1>1, <1>2, <1>4, <1>5 DEF RbtInv, Locals
<1>9. /\ t.red[First(t)] => x = First(t)
      /\ \A n \in L : t.red[n] /\ t.red[t.parent[n]] => x \in {n, t.parent[n]}
  BY <1>1, <1>2, <1>4 DEF RbtInv, Colours
<1>10. u = [t EXCEPT !.red[x] = FALSE]
  BY <1>1, <1>2, <1>3
<1>11. t \in Tree /\ L \subseteq All /\ nil \notin L /\ root \notin L
  BY <1>6, <1>7, WiredFacts DEF Shaped
<1>12. Blackened(t, L, x, u)
  <2>1. CASE p = root
    <3>1. PICK k : k = x
      OBVIOUS
    <3>2. Balanced(t, L, root, "left")
      BY <1>7, <1>11, <2>1, NoDebt
    <3>3. k = t["left"][root] /\ "left" \in Sides /\ root \in L \cup {root}
      BY <1>8, <2>1, <3>1 DEF First, Sides
    <3>4. u = [t EXCEPT !.red[k] = FALSE]
      BY <1>10, <3>1
    <3>5. Blackened(t, L, k, u)
      BY <1>6, <1>7, <1>11, <3>2, <3>3, <3>4, BlackenKeeps
    <3>6. QED
      BY <3>1, <3>5
  <2>2. CASE p # root /\ t.red[x]
    <3>1. PICK k : k = x
      OBVIOUS
    <3>2. PICK a : a = SideOf(t, x)
      OBVIOUS
    <3>3. p \in L /\ t.parent[x] = p /\ \E s \in Sides : t[s][p] = x
      BY <1>2, <1>5, <1>8, <2>2
    <3>4. a \in Sides /\ k = t[a][p]
      BY <3>1, <3>2, <3>3 DEF SideOf, Sides
    <3>5. Balanced(t, L, p, a) /\ p \in L \cup {root}
      BY <1>7, <2>2, <3>2, <3>3
    <3>6. t.red[k] = TRUE
      <4>1. t.red[k] \in BOOLEAN
        BY <1>6, <1>11, <3>1 DEF Tree
      <4>2. QED
        BY <2>2, <3>1, <4>1
    <3>7. u = [t EXCEPT !.red[k] = FALSE]
      BY <1>10, <3>1
    <3>8. Blackened(t, L, k, u)
      BY <1>6, <1>7, <3>4, <3>5, <3>6, <3>7, BlackenKeeps
    <3>9. QED
      BY <3>1, <3>8
  <2>3. CASE p # root /\ ~t.red[x]
    <3>1. t.red[x] = FALSE /\ t.red \in [All -> BOOLEAN]
      BY <1>6, <1>11, <2>3 DEF Tree
    <3>2. u = t
      BY <1>6, <1>10, <1>11, <3>1 DEF Tree
    <3>3. Balanced(t, L, nil, "left")
      BY <1>1, <1>2, <1>7, <1>11, <2>3, NoDebt
    <3>4. QED
      BY <1>7, <2>3, <3>2, <3>3 DEF Blackened
  <2>4. QED
    BY <2>1, <2>2, <2>3
<1>13. /\ Shaped(u, L) /\ Balanced(u, L, nil, "left") /\ Sentinels(u)
       /\ \A q \in Nodes \ L, d \in Sides : u[d][q] = t[d][q]
       /\ u.parent = t.parent /\ First(u) = First(t)
       /\ ~u.red[x] /\ \A q \in All : q # x => (u.red[q] <=> t.red[q])
  BY <1>12, Zenon DEF Blackened
<1>14. NoPairs(u, L)
  <2>1. SUFFICES ASSUME NEW n \in L, u.red[n], u.red[u.parent[n]] PROVE FALSE
    BY DEF NoPairs
  <2>2. n \in All /\ t.parent[n] \in All
    BY <1>6, <1>7, WiredFacts
  <2>3. n # x /\ t.parent[n] # x
    BY <1>13, <2>1
  <2>4. t.red[n] /\ t.red[t.parent[n]]
    BY <1>13, <2>1, <2>2, <2>3
  <2>5. QED
    BY <1>9, <2>3, <2>4
<1>15. ~u.red[First(u)]
  <2>1. First(t) \in All
    BY <1>6, <1>7, WiredFacts DEF First, Sides
  <2>2. QED
    BY <1>9, <1>13, <2>1
<1>16. Standing(u, L)
  BY <1>13, <1>14, <1>15 DEF Standing
<1>17. Outside(u, live, L, y)
  BY <1>6, <1>7, <1>13, OutsideStays
<1>18. QED
  BY <1>1, <1>3, <1>6, <1>16, <1>17, AtReplace

(* What is done to a node outside the tree does not matter to the tree.    *)
Cleared(t, u, n) ==
  /\ u \in Tree
  /\ \A q \in All, d \in Sides : u[d][q] = IF q = n THEN nil ELSE t[d][q]
  /\ \A q \in All : q # n => u.parent[q] = t.parent[q] /\ (u.red[q] <=> t.red[q])

(* The fields of a node that is released are cleared.                      *)
LEMMA UnusedEffect ==
  ASSUME NEW t \in Tree, NEW n \in Nodes, NEW u, u = Unused(t, n)
  PROVE  Cleared(t, u, n)
<1>1. n \in All /\ nil \in All
  BY DEF All
<1>2. u \in Tree
  <2> DEFINE v == [t EXCEPT !.left[n] = nil, !.right[n] = nil]
             w == [v EXCEPT !.parent[n] = nil]
             r == [w EXCEPT !.red[n] = FALSE]
             k == [r EXCEPT !.key[n] = 0]
  <2>1. v \in Tree
    BY <1>1 DEF Tree
  <2>2. u = k
    BY DEF Unused
  <2> HIDE DEF v
  <2>3. w \in Tree
    BY <1>1, <2>1 DEF Tree
  <2> HIDE DEF w
  <2>4. r \in Tree
    BY <1>1, <2>3 DEF Tree
  <2> HIDE DEF r
  <2>5. k \in Tree
    BY SMTT(30), <1>1, <2>4 DEF Tree
  <2>6. QED
    BY <2>2, <2>5
<1>3. /\ u.left = [t.left EXCEPT ![n] = nil] /\ u.right = [t.right EXCEPT ![n] = nil]
      /\ u.parent = [t.parent EXCEPT ![n] = nil] /\ u.red = [t.red EXCEPT ![n] = FALSE]
  BY <1>1 DEF Unused, Tree
<1>4. \A q \in All, d \in Sides : u[d][q] = IF q = n THEN nil ELSE t[d][q]
  <2>1. \A q \in All : /\ u.left[q] = IF q = n THEN nil ELSE t.left[q]
                       /\ u.right[q] = IF q = n THEN nil ELSE t.right[q]
    BY <1>1, <1>3 DEF Tree
  <2>2. QED
    BY <2>1 DEF Sides
<1>5. \A q \in All : q # n => u.parent[q] = t.parent[q] /\ (u.red[q] <=> t.red[q])
  BY <1>1, <1>3 DEF Tree
<1>6. QED
  BY <1>2, <1>4, <1>5 DEF Cleared

(* The release of a node outside the tree leaves the tree standing.        *)
LEMMA ClearedStands ==
  ASSUME NEW t, NEW L \in SUBSET Nodes, Standing(t, L), NEW n \in Nodes \ L,
         NEW u, Cleared(t, u, n)
  PROVE  Standing(u, L)
<1>1. /\ Shaped(t, L) /\ t \in Tree /\ L \subseteq All /\ nil \in All /\ root \in All
      /\ nil \notin L /\ root \notin L /\ nil # root /\ n # nil /\ n # root
      /\ Wired(t, L)
  BY WiredFacts, NodesAssumption DEF Standing, Shaped
<1>2. /\ u \in Tree
      /\ \A q \in L \cup {root}, d \in Sides : u[d][q] = t[d][q]
      /\ \A q \in L : u.parent[q] = t.parent[q]
      /\ \A q \in L \cup {nil, root} : (u.red[q] <=> t.red[q])
  <2>1. \A q \in L \cup {nil, root} : q \in All /\ q # n
    BY <1>1
  <2>2. QED
    BY <2>1 DEF Cleared
<1>3. Wired(u, L)
  <2>1. u.right[root] = nil
    BY <1>1, <1>2 DEF Wired, Sides
  <2>2. ASSUME NEW q \in L
        PROVE  /\ u.parent[q] \in L \cup {root}
               /\ \E d \in Sides : u[d][u.parent[q]] = q /\ u[Other(d)][u.parent[q]] # q
    <3>1. PICK d \in Sides : t[d][t.parent[q]] = q /\ t[Other(d)][t.parent[q]] # q
      BY <1>1 DEF Wired
    <3>2. u.parent[q] = t.parent[q] /\ t.parent[q] \in L \cup {root} /\ Other(d) \in Sides
      BY <1>1, <1>2 DEF Wired, Sides, Other
    <3>3. QED
      BY <1>2, <3>1, <3>2
  <2>3. \A q \in L \cup {root}, d \in Sides :
          u[d][q] # nil => u[d][q] \in L /\ u.parent[u[d][q]] = q
    BY <1>1, <1>2 DEF Wired
  <2>4. QED
    BY <2>1, <2>2, <2>3 DEF Wired
<1>4. \E e : Ranked(u, L, e)
  <2>1. PICK e : Ranked(t, L, e)
    BY <1>1 DEF Shaped
  <2>2. Ranked(u, L, e)
    BY <1>2, <2>1 DEF Ranked
  <2>3. QED
    BY <2>2
<1>5. Balanced(u, L, nil, "left")
  <2>1. PICK h : Heights(t, L, h, nil, "left")
    BY DEF Standing, Balanced
  <2>2. \A q \in L : Weight(u, q) = Weight(t, q)
    BY <1>2 DEF Weight
  <2>3. Heights(u, L, h, nil, "left")
    BY <1>2, <2>1, <2>2 DEF Heights
  <2>4. QED
    BY <2>3 DEF Balanced
<1>6. Sentinels(u)
  BY <1>2 DEF Standing, Sentinels
<1>7. NoPairs(u, L)
  <2>1. \A q \in L : t.parent[q] \in L \cup {root} /\ (t.red[q] => ~t.red[t.parent[q]])
    BY <1>1 DEF Standing, NoPairs, Wired
  <2>2. QED
    BY <1>2, <2>1 DEF NoPairs
<1>8. ~u.red[First(u)]
  <2>1. First(u) = First(t) /\ First(t) \in L \cup {nil}
    BY <1>1, <1>2, WiredFacts DEF First, Sides
  <2>2. QED
    BY <1>2, <2>1 DEF Standing
<1>9. QED
  BY <1>2, <1>3, <1>4, <1>5, <1>6, <1>7, <1>8 DEF Standing, Shaped

(* Node m takes over the links and the colour of n.                        *)
Taken(t, u, s, n, m) ==
  /\ u \in Tree
  /\ \A q \in All, d \in Sides : u[d][q] =
       IF q = m THEN t[d][n] ELSE IF q = t.parent[n] /\ d = s THEN m ELSE t[d][q]
  /\ \A q \in All : u.parent[q] =
       IF q = t.left[n] \/ q = t.right[n] THEN m
       ELSE IF q = m THEN t.parent[n] ELSE t.parent[q]
  /\ (u.red[m] <=> t.red[n]) /\ \A q \in All : q # m => (u.red[q] <=> t.red[q])

(* The fields of every node after y took the place of z.                   *)
LEMMA InPlaceEffect ==
  ASSUME NEW t \in Tree, NEW n \in Nodes, NEW m \in Nodes,
         NEW s \in Sides, t[s][t.parent[n]] = n, t[Other(s)][t.parent[n]] # n,
         t.parent[n] # m, NEW u, u = InPlaceOf(t, n, m)
  PROVE  Taken(t, u, s, n, m)
<1> DEFINE l == t.left[n]
           r == t.right[n]
           p == t.parent[n]
           o == t.red[n]
           t1 == [t EXCEPT !.left[m] = l, !.right[m] = r]
           t2 == [t1 EXCEPT !.parent[m] = p]
           t3 == [t2 EXCEPT !.red[m] = o]
           t4 == [t3 EXCEPT !.parent[l] = m]
           t5 == [t4 EXCEPT !.parent[r] = m]
<1>1. /\ n \in All /\ m \in All /\ l \in Nodes \cup {nil} /\ r \in Nodes \cup {nil}
      /\ l \in All /\ r \in All /\ p \in All /\ o \in BOOLEAN
  <2>1. n \in All /\ m \in All
    BY DEF All
  <2>2. l \in Nodes \cup {nil} /\ r \in Nodes \cup {nil} /\ p \in All /\ o \in BOOLEAN
    BY <2>1 DEF Tree
  <2>3. QED
    BY <2>1, <2>2 DEF All
<1>2. u = Relink(t5, p, n, m)
  BY DEF InPlaceOf
<1>3. t["left"][n] = l /\ t["right"][n] = r
  OBVIOUS
<1> HIDE DEF l, r, p, o
<1>4. /\ t1 \in Tree /\ t1.parent = t.parent /\ t1.red = t.red
      /\ t1.left = [t.left EXCEPT ![m] = l] /\ t1.right = [t.right EXCEPT ![m] = r]
  BY <1>1 DEF Tree
<1> HIDE DEF t1
<1>5. /\ t2 \in Tree /\ t2.parent = [t1.parent EXCEPT ![m] = p] /\ t2.red = t1.red
      /\ t2.left = t1.left /\ t2.right = t1.right
  BY <1>1, <1>4 DEF Tree
<1> HIDE DEF t2
<1>6. /\ t3 \in Tree /\ t3.parent = t2.parent /\ t3.red = [t2.red EXCEPT ![m] = o]
      /\ t3.left = t2.left /\ t3.right = t2.right
  BY <1>1, <1>5 DEF Tree
<1> HIDE DEF t3
<1>7. /\ t4 \in Tree /\ t4.parent = [t3.parent EXCEPT ![l] = m] /\ t4.red = t3.red
      /\ t4.left = t3.left /\ t4.right = t3.right
  BY <1>1, <1>6 DEF Tree
<1> HIDE DEF t4
<1>8. /\ t5 \in Tree /\ t5.parent = [t4.parent EXCEPT ![r] = m] /\ t5.red = t4.red
      /\ t5.left = t4.left /\ t5.right = t4.right
  BY <1>1, <1>7 DEF Tree
<1> HIDE DEF t5
<1>9. \A q \in All, d \in Sides : t5[d][q] = IF q = m THEN t[d][n] ELSE t[d][q]
  <2>1. t5.left = [t.left EXCEPT ![m] = l] /\ t5.right = [t.right EXCEPT ![m] = r]
    BY <1>4, <1>5, <1>6, <1>7, <1>8
  <2>2. \A q \in All : /\ t5.left[q] = IF q = m THEN l ELSE t.left[q]
                       /\ t5.right[q] = IF q = m THEN r ELSE t.right[q]
    BY <1>1, <2>1 DEF Tree
  <2>3. QED
    BY <1>3, <2>2 DEF Sides
<1>10. \A q \in All : t5.parent[q] =
         IF q = l \/ q = r THEN m ELSE IF q = m THEN p ELSE t.parent[q]
  <2>1. t.parent \in [All -> All]
    BY DEF Tree
  <2>2. t5.parent = [[[t.parent EXCEPT ![m] = p] EXCEPT ![l] = m] EXCEPT ![r] = m]
    BY <1>4, <1>5, <1>6, <1>7, <1>8
  <2>3. QED
    BY <1>1, <2>1, <2>2
<1>11. (t5.red[m] <=> o) /\ \A q \in All : q # m => (t5.red[q] <=> t.red[q])
  <2>1. t.red \in [All -> BOOLEAN]
    BY DEF Tree
  <2>2. t5.red = [t.red EXCEPT ![m] = o]
    BY <1>4, <1>5, <1>6, <1>7, <1>8
  <2>3. QED
    BY <1>1, <2>1, <2>2
<1>12. p # m /\ t[s][p] = n /\ t[Other(s)][p] # n /\ Other(s) \in Sides /\ Other(s) # s
  BY DEF p, Sides, Other
<1>13. t5[s][p] = n /\ t5[Other(s)][p] # n
  BY <1>1, <1>9, <1>12
<1>14. /\ u \in Tree /\ u.parent = t5.parent /\ u.red = t5.red
       /\ u[s] = [t5[s] EXCEPT ![p] = m] /\ u[Other(s)] = t5[Other(s)]
  <2>1. m \in Nodes \cup {nil}
    OBVIOUS
  <2>2. QED
    BY <1>1, <1>2, <1>8, <1>13, <2>1, RelinkEffect
<1>15. \A q \in All, d \in Sides : u[d][q] =
         IF q = m THEN t[d][n] ELSE IF q = p /\ d = s THEN m ELSE t[d][q]
  <2>1. \A d \in Sides : d = s \/ d = Other(s)
    BY DEF Sides, Other
  <2>2. \A q \in All : u[s][q] = IF q = p THEN m ELSE t5[s][q]
    BY <1>1, <1>8, <1>14 DEF Tree, Sides
  <2>3. SUFFICES ASSUME NEW q \in All, NEW d \in Sides
                 PROVE  u[d][q] = IF q = m THEN t[d][n] ELSE IF q = p /\ d = s THEN m ELSE t[d][q]
    OBVIOUS
  <2>4. t5[d][q] = IF q = m THEN t[d][n] ELSE t[d][q]
    BY <1>9
  <2>5. CASE d = s
    BY <1>12, <2>2, <2>4, <2>5
  <2>6. CASE d # s
    <3>1. u[d] = t5[d]
      BY <1>14, <2>1, <2>6
    <3>2. QED
      BY <2>4, <2>6, <3>1
  <2>7. QED
    BY <2>5, <2>6
<1>16. QED
  BY <1>10, <1>11, <1>14, <1>15 DEF Taken, l, r, p, o

(* The tree stands with y in the place of z.                               *)
LEMMA TakenStands ==
  ASSUME NEW t, NEW L \in SUBSET Nodes, Standing(t, L), NEW n \in L, NEW m \in Nodes \ L,
         NEW s \in Sides, t[s][t.parent[n]] = n, NEW u, Taken(t, u, s, n, m)
  PROVE  Standing(u, (L \ {n}) \cup {m})
<1> DEFINE l == t.left[n]
           r == t.right[n]
           p == t.parent[n]
           K == (L \ {n}) \cup {m}
<1>1. /\ Shaped(t, L) /\ Wired(t, L) /\ t \in Tree /\ L \subseteq All /\ nil \in All /\ root \in All
      /\ nil \notin L /\ root \notin L /\ nil # root
      /\ n \in All /\ m \in All /\ m # nil /\ m # root /\ m \notin L /\ m # n
      /\ p \in L \cup {root} /\ p # n /\ p # m
      /\ t["left"][n] = l /\ t["right"][n] = r
  BY WiredFacts, NodesAssumption DEF Standing, Shaped, Wired, All
<1>2. /\ l \in (L \ {n}) \cup {nil} /\ r \in (L \ {n}) \cup {nil}
      /\ \A q \in L : t.parent[q] = n <=> q \in {l, r}
  <2>1. l \in (L \ {n}) \cup {nil} /\ r \in (L \ {n}) \cup {nil}
    BY <1>1, WiredFacts DEF Sides
  <2>2. \A q \in L : t.parent[q] = n => q \in {l, r}
    <3>1. \A q \in L : \E d \in Sides : t[d][t.parent[q]] = q
      BY <1>1 DEF Wired
    <3>2. QED
      BY <1>1, <3>1 DEF Sides
  <2>3. \A q \in L : q \in {l, r} => t.parent[q] = n
    <3>1. \A d \in Sides : t[d][n] # nil => t.parent[t[d][n]] = n
      BY <1>1 DEF Wired
    <3>2. QED
      BY <1>1, <3>1 DEF Sides
  <2>4. QED
    BY <2>1, <2>2, <2>3
<1>3. /\ u \in Tree
      /\ \A q \in All, d \in Sides : u[d][q] =
           IF q = m THEN t[d][n] ELSE IF q = p /\ d = s THEN m ELSE t[d][q]
      /\ \A q \in All : u.parent[q] =
           IF q = l \/ q = r THEN m ELSE IF q = m THEN p ELSE t.parent[q]
      /\ (u.red[m] <=> t.red[n]) /\ \A q \in All : q # m => (u.red[q] <=> t.red[q])
  BY DEF Taken
<1> HIDE DEF l, r
<1>4. /\ \A q \in L \ {n} : u.parent[q] = IF t.parent[q] = n THEN m ELSE t.parent[q]
      /\ u.parent[m] = p
  BY <1>1, <1>2, <1>3
<1>5. \A q \in (L \ {n}) \cup {root}, d \in Sides :
        u[d][q] = IF t[d][q] = n THEN m ELSE t[d][q]
  <2>1. ASSUME NEW q \in (L \ {n}) \cup {root}, NEW d \in Sides
        PROVE  t[d][q] = n <=> q = p /\ d = s
    BY <1>1, WiredFacts
  <2>2. ASSUME NEW q \in (L \ {n}) \cup {root} PROVE q \in All /\ q # m
    BY <1>1
  <2>3. QED
    BY <1>3, <2>1, <2>2
<1>6. \A d \in Sides : u[d][m] = t[d][n] /\ t[d][n] \in (L \ {n}) \cup {nil}
  BY <1>1, <1>3, WiredFacts
<1> HIDE DEF p
<1>7. Wired(u, K)
  <2>1. u.right[root] = nil
    BY <1>1, <1>5 DEF Wired, Sides
  <2>2. ASSUME NEW q \in K
        PROVE  /\ u.parent[q] \in K \cup {root}
               /\ \E d \in Sides : u[d][u.parent[q]] = q /\ u[Other(d)][u.parent[q]] # q
    <3>1. CASE q = m
      <4>1. u.parent[q] = p /\ p \in (L \ {n}) \cup {root}
        BY <1>1, <1>4, <3>1
      <4>2. PICK d \in Sides : t[d][p] = n /\ t[Other(d)][p] # n
        BY <1>1 DEF Wired, p
      <4>3. Other(d) \in Sides /\ t[Other(d)][p] # m
        <5>1. Other(d) \in Sides
          BY DEF Sides, Other
        <5>2. t[Other(d)][p] \in L \cup {nil}
          BY <1>1, <4>1, <5>1, WiredFacts
        <5>3. QED
          BY <1>1, <5>1, <5>2
      <4>4. u[d][p] = m /\ u[Other(d)][p] # m
        BY <1>5, <4>1, <4>2, <4>3
      <4>5. QED
        BY <3>1, <4>1, <4>4
    <3>2. CASE q # m
      <4>1. q \in L \ {n}
        BY <3>2
      <4>2. PICK d \in Sides : t[d][t.parent[q]] = q /\ t[Other(d)][t.parent[q]] # q
        BY <1>1, <4>1 DEF Wired
      <4>3. t.parent[q] \in L \cup {root} /\ Other(d) \in Sides
        BY <1>1, <4>1 DEF Wired, Sides, Other
      <4>4. CASE t.parent[q] = n
        <5>1. u.parent[q] = m /\ u[d][m] = q /\ u[Other(d)][m] # q
          BY <1>4, <1>6, <4>1, <4>2, <4>3, <4>4
        <5>2. QED
          BY <5>1
      <4>5. CASE t.parent[q] # n
        <5>1. u.parent[q] = t.parent[q] /\ t.parent[q] \in (L \ {n}) \cup {root}
          BY <1>4, <4>1, <4>3, <4>5
        <5>2. u[d][t.parent[q]] = q /\ u[Other(d)][t.parent[q]] # q
          BY <1>1, <1>5, <3>2, <4>1, <4>2, <4>3, <5>1
        <5>3. QED
          BY <5>1, <5>2
      <4>6. QED
        BY <4>4, <4>5
    <3>3. QED
      BY <3>1, <3>2
  <2>3. ASSUME NEW q \in K \cup {root}, NEW d \in Sides, u[d][q] # nil
        PROVE  u[d][q] \in K /\ u.parent[u[d][q]] = q
    <3>1. CASE q = m
      <4>1. u[d][q] = t[d][n] /\ t[d][n] \in L \ {n}
        BY <1>6, <2>3, <3>1
      <4>2. t.parent[t[d][n]] = n
        BY <1>1, <2>3, <4>1 DEF Wired
      <4>3. QED
        BY <1>4, <3>1, <4>1, <4>2
    <3>2. CASE q # m
      <4>1. q \in (L \ {n}) \cup {root} /\ q # n
        BY <1>1, <3>2
      <4>2. CASE t[d][q] = n
        <5>1. u[d][q] = m /\ t.parent[n] = q
          BY <1>1, <1>5, <4>1, <4>2 DEF Wired
        <5>2. QED
          BY <1>4, <5>1 DEF p
      <4>3. CASE t[d][q] # n
        <5>1. u[d][q] = t[d][q] /\ t[d][q] \in L /\ t.parent[t[d][q]] = q
          BY <1>1, <1>5, <2>3, <4>1, <4>3 DEF Wired
        <5>2. QED
          BY <1>4, <4>1, <4>3, <5>1
      <4>4. QED
        BY <4>2, <4>3
    <3>3. QED
      BY <3>1, <3>2
  <2>4. QED
    BY <2>1, <2>2, <2>3 DEF Wired
<1>8. \E e : Ranked(u, K, e)
  <2>1. PICK e : Ranked(t, L, e)
    BY <1>1 DEF Shaped
  <2> DEFINE f == [e EXCEPT ![m] = e[n]]
  <2>2. f \in [All -> Nat] /\ \A q \in All : f[q] = IF q = m THEN e[n] ELSE e[q]
    BY <1>1, <2>1 DEF Ranked
  <2> HIDE DEF f
  <2>3. ASSUME NEW q \in K PROVE f[q] < f[u.parent[q]] /\ f[q] < f[root]
    <3>1. CASE q = m
      <4>1. e[n] < e[p] /\ e[n] < e[root] /\ p \in All
        BY <1>1, <2>1 DEF Ranked, p
      <4>2. f[q] = e[n] /\ u.parent[q] = p /\ f[p] = e[p] /\ f[root] = e[root]
        BY <1>1, <1>4, <2>2, <3>1, <4>1
      <4>3. QED
        BY <4>1, <4>2
    <3>2. CASE q # m
      <4>1. q \in L /\ q # n /\ q \in All /\ t.parent[q] \in All /\ t.parent[q] # m
        <5>1. q \in L /\ q # n /\ t.parent[q] \in L \cup {root}
          BY <1>1, <3>2 DEF Wired
        <5>2. QED
          BY <1>1, <5>1
      <4>2. e[q] < e[t.parent[q]] /\ e[q] < e[root]
        BY <2>1, <4>1 DEF Ranked
      <4>3. f[q] = e[q] /\ f[u.parent[q]] = e[t.parent[q]] /\ f[root] = e[root]
        BY <1>1, <1>4, <2>2, <3>2, <4>1
      <4>4. QED
        BY <4>2, <4>3
    <3>3. QED
      BY <3>1, <3>2
  <2>4. QED
    BY <2>2, <2>3 DEF Ranked
<1>9. Balanced(u, K, nil, "left")
  <2>1. PICK h : Heights(t, L, h, nil, "left")
    BY DEF Standing, Balanced
  <2> DEFINE g == [h EXCEPT ![m] = h[n]]
  <2>2. /\ g \in [All -> Nat] /\ g[nil] = 0
        /\ \A q \in All : g[q] = IF q = m THEN h[n] ELSE h[q]
    BY <1>1, <2>1 DEF Heights
  <2> HIDE DEF g
  <2>3. ASSUME NEW q \in K, NEW d \in Sides
        PROVE  g[q] = g[u[d][q]] + Weight(u, q) + Owed(q, d, nil, "left")
    <3>0. q # nil
      BY <1>1
    <3>1. CASE q = m
      <4>1. h[n] = h[t[d][n]] + Weight(t, n) + 0
        BY <1>1, <2>1 DEF Heights, Owed
      <4>2. Weight(u, q) = Weight(t, n) /\ Owed(q, d, nil, "left") = 0
        BY <1>3, <3>0, <3>1 DEF Weight, Owed
      <4>3. g[q] = h[n] /\ g[u[d][q]] = h[t[d][n]]
        BY <1>1, <1>6, <2>2, <3>1
      <4>4. QED
        BY <4>1, <4>2, <4>3
    <3>2. CASE q # m
      <4>1. q \in L /\ q # n /\ q \in All /\ t[d][q] \in All /\ t[d][q] # m
        <5>1. q \in L /\ q # n /\ t[d][q] \in L \cup {nil}
          BY <1>1, <3>2, WiredFacts
        <5>2. QED
          BY <1>1, <5>1
      <4>2. h[q] = h[t[d][q]] + Weight(t, q) + 0
        BY <2>1, <3>0, <4>1 DEF Heights, Owed
      <4>3. Weight(u, q) = Weight(t, q) /\ Owed(q, d, nil, "left") = 0
        BY <1>3, <3>0, <3>2, <4>1 DEF Weight, Owed
      <4>4. g[q] = h[q] /\ g[u[d][q]] = h[t[d][q]]
        BY <1>1, <1>5, <2>2, <3>2, <4>1
      <4>5. QED
        BY <4>2, <4>3, <4>4
    <3>3. QED
      BY <3>1, <3>2
  <2>4. Heights(u, K, g, nil, "left")
    BY <2>2, <2>3 DEF Heights
  <2>5. QED
    BY <2>4 DEF Balanced
<1>10. Sentinels(u)
  BY <1>1, <1>3 DEF Standing, Sentinels
<1>11. \A q \in L \ {n} : (u.red[q] <=> t.red[q]) /\ q # m
  BY <1>1, <1>3
<1>12. u.red[root] <=> t.red[root]
  BY <1>1, <1>3
<1>13. NoPairs(u, K)
  <2>1. \A q \in L : t.parent[q] \in L \cup {root} /\ (t.red[q] => ~t.red[t.parent[q]])
    BY <1>1 DEF Standing, NoPairs, Wired
  <2>2. SUFFICES ASSUME NEW q \in K, u.red[q] PROVE ~u.red[u.parent[q]]
    BY DEF NoPairs
  <2>3. CASE q = m
    <3>1. ~t.red[p]
      BY <1>3, <2>1, <2>2, <2>3 DEF p
    <3>2. QED
      BY <1>1, <1>4, <1>11, <1>12, <2>3, <3>1
  <2>4. CASE q # m
    <3>1. t.red[q] /\ ~t.red[t.parent[q]] /\ t.parent[q] \in L \cup {root} /\ q \in L \ {n}
      BY <1>11, <2>1, <2>2, <2>4
    <3>2. QED
      BY <1>3, <1>4, <1>11, <1>12, <3>1
  <2>5. QED
    BY <2>3, <2>4
<1>14. ~u.red[First(u)]
  <2>1. First(u) = IF First(t) = n THEN m ELSE First(t)
    BY <1>5 DEF First, Sides
  <2>2. First(t) \in All /\ First(t) # m
    <3>1. First(t) \in L \cup {nil}
      BY <1>1, WiredFacts DEF First, Sides
    <3>2. QED
      BY <1>1, <3>1
  <2>3. ~t.red[First(t)]
    BY DEF Standing
  <2>4. QED
    BY <1>3, <2>1, <2>2, <2>3
<1>15. QED
  BY <1>3, <1>7, <1>8, <1>9, <1>10, <1>13, <1>14 DEF Standing, Shaped

(* The node that was spliced out takes the place of the one deleted.       *)
LEMMA DeleteDoneStep == ASSUME RbtInv, DeleteDone PROVE RbtInv'
<1>1. /\ pc = "replace"
      /\ tree' = Unused(IF y = z THEN tree ELSE InPlaceOf(tree, z, y), z)
      /\ live' = live \ {z}
      /\ pc' = "idle" /\ x' = nil /\ y' = nil /\ z' = nil /\ top' = nil
  BY DEF DeleteDone
<1>2. PICK t : t = tree
  OBVIOUS
<1>3. PICK u : u = tree'
  OBVIOUS
<1>4. PICK L : L = live \ {y}
  OBVIOUS
<1>5. PICK n : n = z
  OBVIOUS
<1>6. PICK m : m = y
  OBVIOUS
<1>7. /\ Linked = L /\ Deleting /\ Debtor = nil
      /\ live \in SUBSET Nodes /\ L \in SUBSET Nodes /\ m \in live /\ n \in live
      /\ m \in Nodes \ L /\ n \in Nodes
  BY <1>1, <1>4, <1>5, <1>6 DEF RbtInv, RbtTypeOK, Linked, Deleting, Debtor
<1>8. Standing(t, L) /\ t \in Tree
  <2>1. Shaped(t, L) /\ Balanced(t, L, nil, SideOf(tree, x)) /\ Sentinels(t)
    BY <1>1, <1>2, <1>7 DEF RbtInv, Sound, Colours
  <2>2. Balanced(t, L, nil, "left")
    BY <1>7, <2>1, NoDebt, NodesAssumption
  <2>3. NoPairs(t, L) /\ ~t.red[First(t)]
    BY <1>1, <1>2, <1>7 DEF RbtInv, Colours, NoPairs
  <2>4. QED
    BY <2>1, <2>2, <2>3 DEF Standing, Shaped
<1>9. \A q \in Nodes \ live, d \in Sides : t[d][q] = nil
  BY <1>1, <1>2 DEF RbtInv, Sound, Tidy
<1>10. \E w : /\ Standing(w, live \ {n}) /\ w \in Tree /\ u = Unused(w, n)
              /\ \A q \in Nodes \ live, d \in Sides : w[d][q] = nil
  <2>1. CASE m = n
    BY <1>1, <1>2, <1>3, <1>4, <1>5, <1>6, <1>8, <1>9, <2>1
  <2>2. CASE m # n
    <3>1. n \in L /\ (L \ {n}) \cup {m} = live \ {n}
      BY <1>4, <1>6, <1>7, <2>2
    <3>2. Wired(t, L)
      BY <1>8 DEF Standing, Shaped
    <3>3. t.parent[n] \in L \cup {root}
      BY <3>1, <3>2 DEF Wired
    <3>4. PICK s \in Sides : t[s][t.parent[n]] = n /\ t[Other(s)][t.parent[n]] # n
      BY <3>1, <3>2 DEF Wired
    <3>5. t.parent[n] # m
      BY <1>7, <3>3, NodesAssumption
    <3>6. PICK w : w = InPlaceOf(t, n, m)
      OBVIOUS
    <3>7. Taken(t, w, s, n, m)
      BY <1>7, <1>8, <3>4, <3>5, <3>6, InPlaceEffect
    <3>8. Standing(w, (L \ {n}) \cup {m})
      BY <1>7, <1>8, <3>1, <3>4, <3>7, TakenStands
    <3>9. w \in Tree
      BY <3>7 DEF Taken
    <3>10. ASSUME NEW q \in Nodes \ live, NEW d \in Sides PROVE w[d][q] = nil
      <4>1. q \in All /\ q # m /\ q # t.parent[n]
        BY <1>4, <1>7, <3>3, NodesAssumption DEF All
      <4>2. w[d][q] = t[d][q]
        BY <3>7, <4>1 DEF Taken
      <4>3. QED
        BY <1>9, <4>2
    <3>11. u = Unused(w, n)
      BY <1>1, <1>2, <1>3, <1>5, <1>6, <2>2, <3>6
    <3>12. QED
      BY <3>1, <3>8, <3>9, <3>10, <3>11
  <2>3. QED
    BY <2>1, <2>2
<1>11. PICK w : /\ Standing(w, live \ {n}) /\ w \in Tree /\ u = Unused(w, n)
                /\ \A q \in Nodes \ live, d \in Sides : w[d][q] = nil
  BY <1>10
<1>12. PICK K : K = live \ {n}
  OBVIOUS
<1>13. Cleared(w, u, n)
  BY <1>7, <1>11, UnusedEffect
<1>14. Standing(u, K)
  BY <1>7, <1>11, <1>12, <1>13, ClearedStands
<1>15. \A q \in Nodes \ K, d \in Sides : u[d][q] = nil
  <2>1. SUFFICES ASSUME NEW q \in Nodes \ K, NEW d \in Sides PROVE u[d][q] = nil
    OBVIOUS
  <2>2. q \in All /\ (q = n \/ q \in Nodes \ live)
    BY <1>12 DEF All
  <2>3. u[d][q] = IF q = n THEN nil ELSE w[d][q]
    BY <1>13, <2>2 DEF Cleared
  <2>4. QED
    BY <1>11, <2>2, <2>3
<1>16. Settled(u, K, nil, pc' = "insert")
  BY <1>1, <1>14, <1>15 DEF Settled, Standing, NoPairs
<1>17. nil \in All /\ K \in SUBSET Nodes /\ live' = K
  BY <1>1, <1>5, <1>7, <1>12 DEF All
<1>18. QED
  BY <1>1, <1>3, <1>16, <1>17, AtRest

(***************************************************************************)
(* The walk over the tree.                                                 *)
(***************************************************************************)
Walks(t, f) ==
  f = [n \in Nodes \cup {nil} |->
         IF n = nil THEN <<>> ELSE f[t.left[n]] \o <<n>> \o f[t.right[n]]]

(* There is such a function: by induction over how far up a node is.       *)
LEMMA WalkExists ==
  ASSUME NEW t, NEW L \in SUBSET Nodes, Shaped(t, L),
         \A q \in Nodes \ L, d \in Sides : t[d][q] = nil
  PROVE  \E f \in [Nodes \cup {nil} -> Seq(Nodes)] : Walks(t, f)
<1>1. PICK e : Ranked(t, L, e)
  BY DEF Shaped
<1> DEFINE l(m) == t.left[m]
           r(m) == t.right[m]
           Fs == [Nodes \cup {nil} -> Seq(Nodes)]
           Good(k, f) ==
             /\ f[nil] = <<>>
             /\ \A m \in Nodes : m \notin L \/ e[m] < k =>
                  f[m] = f[l(m)] \o <<m>> \o f[r(m)]
           E == {k \in Nat : ~\E f \in Fs : Good(k, f)}
<1>2. /\ nil \notin Nodes
      /\ \A m \in Nodes : l(m) \in L \cup {nil} /\ r(m) \in L \cup {nil}
  BY NodesAssumption, WiredFacts DEF Sides
<1>3. \A m \in Nodes : /\ m \notin L => l(m) = nil /\ r(m) = nil
                       /\ l(m) \in L => e[l(m)] < e[m]
                       /\ r(m) \in L => e[r(m)] < e[m]
  <2>1. Wired(t, L) /\ nil \notin L
    BY WiredFacts DEF Shaped
  <2>2. \A m \in Nodes \ L : l(m) = nil /\ r(m) = nil
    BY DEF Sides
  <2>3. \A m \in L : /\ l(m) \in L => t.parent[l(m)] = m
                     /\ r(m) \in L => t.parent[r(m)] = m
    BY <2>1 DEF Wired, Sides
  <2>4. QED
    BY <1>1, <2>1, <2>2, <2>3 DEF Ranked
<1>4. /\ \A m \in L : e[m] \in Nat /\ e[m] < e[root]
      /\ e[root] \in Nat
  BY <1>1, WiredFacts DEF Ranked
<1> HIDE DEF l, r
<1>5. E = {}
  <2>1. SUFFICES ASSUME E # {} PROVE FALSE
    OBVIOUS
  <2>2. PICK k \in E : \A j \in E : k <= j
    BY <2>1, FirstExists
  <2>3. k # 0
    <3> DEFINE f == [m \in Nodes \cup {nil} |-> IF m = nil THEN <<>> ELSE <<m>>]
    <3>1. f \in Fs
      OBVIOUS
    <3>2. f[nil] = <<>>
      OBVIOUS
    <3>3. \A m \in Nodes : f[m] = <<m>>
      BY <1>2
    <3> HIDE DEF f
    <3>4. Good(0, f)
      <4>1. ASSUME NEW m \in Nodes, m \notin L \/ e[m] < 0
            PROVE  f[m] = f[l(m)] \o <<m>> \o f[r(m)]
        <5>1. l(m) = nil /\ r(m) = nil
          BY <1>3, <1>4, <4>1
        <5>2. f[l(m)] = <<>> /\ f[r(m)] = <<>> /\ f[m] = <<m>>
          BY <3>2, <3>3, <5>1
        <5>3. QED
          BY <5>2
      <4>2. QED
        BY <3>2, <4>1
    <3>5. QED
      BY <3>1, <3>4
  <2>4. k - 1 \in Nat /\ k - 1 \notin E
    <3>1. k \in Nat
      BY SMTT(30)
    <3> HIDE DEF E
    <3>2. QED
      BY <2>2, <2>3, <3>1
  <2>5. PICK f \in Fs : Good(k - 1, f)
    BY <2>4
  <2> DEFINE g == [m \in Nodes \cup {nil} |->
                     IF m = nil THEN <<>> ELSE f[l(m)] \o <<m>> \o f[r(m)]]
  <2>6. g \in Fs
    <3>1. \A m \in Nodes : f[l(m)] \o <<m>> \o f[r(m)] \in Seq(Nodes)
      <4> SUFFICES ASSUME NEW m \in Nodes
                   PROVE  f[l(m)] \o <<m>> \o f[r(m)] \in Seq(Nodes)
        OBVIOUS
      <4>1. l(m) \in Nodes \cup {nil} /\ r(m) \in Nodes \cup {nil}
        BY <1>2
      <4>2. f[l(m)] \in Seq(Nodes) /\ f[r(m)] \in Seq(Nodes) /\ <<m>> \in Seq(Nodes)
        BY SMTT(30), <2>5, <4>1
      <4>3. QED
        BY <4>2
    <3>2. QED
      BY <3>1
  <2>7. g[nil] = <<>> /\ \A m \in Nodes : g[m] = f[l(m)] \o <<m>> \o f[r(m)]
    BY <1>2
  <2> HIDE DEF g
  <2>8. Good(k, g)
    <3> SUFFICES ASSUME NEW m \in Nodes, m \notin L \/ e[m] < k
                 PROVE  g[m] = g[l(m)] \o <<m>> \o g[r(m)]
      BY <2>7
    <3>1. ASSUME NEW c, c \in L \cup {nil}, c \in L => m \in L /\ e[c] < e[m]
          PROVE  g[c] = f[c]
      <4>1. CASE c = nil
        BY SMTT(30), <2>5, <2>7, <4>1
      <4>2. CASE c # nil
        <5>1. c \in L /\ e[c] < k - 1 /\ c \in Nodes
          BY <1>4, <2>4, <3>1, <4>2
        <5>2. f[c] = f[l(c)] \o <<c>> \o f[r(c)]
          BY <2>5, <5>1
        <5>3. QED
          BY <2>7, <5>1, <5>2
      <4>3. QED
        BY <4>1, <4>2
    <3>2. nil \notin L
      BY <1>2
    <3>3. g[l(m)] = f[l(m)]
      BY <1>2, <1>3, <3>1, <3>2
    <3>4. g[r(m)] = f[r(m)]
      BY SMTT(30), <1>2, <1>3, <3>1, <3>2
    <3>5. g[m] = f[l(m)] \o <<m>> \o f[r(m)]
      BY <2>7
    <3>6. QED
      BY <3>3, <3>4, <3>5
  <2>9. QED
    BY <2>2, <2>6, <2>8
<1>6. PICK f \in Fs : Good(e[root], f)
  BY <1>4, <1>5
<1>7. \A m \in Nodes : f[m] = f[l(m)] \o <<m>> \o f[r(m)]
  BY <1>4, <1>6
<1>8. f = [n \in Nodes \cup {nil} |->
             IF n = nil THEN <<>> ELSE f[l(n)] \o <<n>> \o f[r(n)]]
  BY <1>6, <1>7
<1>9. Walks(t, f)
  BY <1>8, Zenon DEF Walks, l, r
<1>10. QED
  BY <1>9

(* What the walk comes by is every node of the tree.                       *)
LEMMA WalkCovers ==
  ASSUME NEW t, NEW L \in SUBSET Nodes, Shaped(t, L),
         \A q \in Nodes \ L, d \in Sides : t[d][q] = nil
  PROVE  L \subseteq Range(InOrder(t))
<1> DEFINE shown == [n \in Nodes |-> n]
           walk[n \in Nodes \cup {nil}] ==
             IF n = nil THEN <<>>
             ELSE walk[t.left[n]] \o <<shown[n]>> \o walk[t.right[n]]
<1>1. PICK f \in [Nodes \cup {nil} -> Seq(Nodes)] : Walks(t, f)
  BY WalkExists
<1>2. f = [n \in Nodes \cup {nil} |->
             IF n = nil THEN <<>> ELSE f[t.left[n]] \o <<shown[n]>> \o f[t.right[n]]]
  BY <1>1, Zenon DEF Walks
<1>3. walk = [n \in Nodes \cup {nil} |->
                IF n = nil THEN <<>>
                ELSE walk[t.left[n]] \o <<shown[n]>> \o walk[t.right[n]]]
  BY <1>2, Zenon
<1>4. InOrder(t) = walk[First(t)]
  BY DEF InOrder, Walk
<1> HIDE DEF walk
<1>5. \A n \in Nodes : walk[n] = walk[t.left[n]] \o <<n>> \o walk[t.right[n]]
  BY <1>3, NodesAssumption, Zenon
<1>6. walk[nil] \in Seq(Nodes)
  <2>1. walk[nil] = <<>>
    BY <1>3
  <2>2. <<>> \in Seq(Nodes)
    OBVIOUS
  <2>3. QED
    BY <2>1, <2>2, Zenon
<1> HIDE DEF shown
<1>7. /\ nil \notin L /\ Wired(t, L)
      /\ \A n \in Nodes : t.left[n] \in L \cup {nil} /\ t.right[n] \in L \cup {nil}
  BY WiredFacts DEF Sides, Shaped
<1>8. \A n \in L : walk[n] \in Seq(Nodes)
  <2> DEFINE G == {n \in L : walk[n] \in Seq(Nodes)}
  <2>1. ASSUME NEW n \in L, \A s \in Sides : t[s][n] \in L => t[s][n] \in G
        PROVE  n \in G
    <3>1. t["left"][n] = t.left[n] /\ t["right"][n] = t.right[n] /\ n \in Nodes
      OBVIOUS
    <3>2. t.left[n] \in G \cup {nil} /\ t.right[n] \in G \cup {nil}
      BY <1>7, <2>1, <3>1 DEF Sides
    <3>3. PICK a : a = walk[t.left[n]]
      OBVIOUS
    <3>4. PICK b : b = walk[t.right[n]]
      OBVIOUS
    <3>5. \A q \in G \cup {nil} : walk[q] \in Seq(Nodes)
      BY <1>6, Zenon DEF G
    <3>6. a \o <<n>> \o b \in Seq(Nodes)
      <4>1. a \in Seq(Nodes) /\ b \in Seq(Nodes)
        BY <3>2, <3>3, <3>4, <3>5, Zenon
      <4>2. QED
        BY <4>1
    <3>7. walk[n] \in Seq(Nodes)
      BY <1>5, <3>3, <3>4, <3>6, Zenon
    <3>8. QED
      BY <3>7
  <2> HIDE DEF G
  <2>2. L \subseteq G
    BY <2>1, FromBelow
  <2>3. QED
    BY <2>2 DEF G
<1>9. \A n \in L \cup {nil} : walk[n] \in Seq(Nodes)
  BY <1>6, <1>8, Zenon
<1>10a. \A s1 \in Seq(Nodes), s2 \in Seq(Nodes) : Range(s1 \o s2) = Range(s1) \cup Range(s2)
  BY RangeConcatenation, Zenon
<1>10. \A n \in L : /\ n \in Range(walk[n])
                    /\ \A s \in Sides : Range(walk[t[s][n]]) \subseteq Range(walk[n])
  <2> SUFFICES ASSUME NEW n \in L
               PROVE  /\ n \in Range(walk[n])
                      /\ \A s \in Sides : Range(walk[t[s][n]]) \subseteq Range(walk[n])
    OBVIOUS
  <2>1. PICK a : a = walk[t.left[n]]
    OBVIOUS
  <2>2. PICK b : b = walk[t.right[n]]
    OBVIOUS
  <2>3. a \in Seq(Nodes) /\ b \in Seq(Nodes) /\ <<n>> \in Seq(Nodes)
    <3>1. a \in Seq(Nodes) /\ b \in Seq(Nodes)
      BY <1>7, <1>9, <2>1, <2>2
    <3>2. <<n>> \in Seq(Nodes)
      BY SMTT(30)
    <3>3. QED
      BY <3>1, <3>2, Zenon
  <2>4. walk[n] = a \o <<n>> \o b
    BY <1>5, <2>1, <2>2
  <2>5. a \o <<n>> \in Seq(Nodes)
    BY <2>3
  <2>6. Range(walk[n]) = Range(a \o <<n>>) \cup Range(b)
    BY <1>10a, <2>3, <2>4, <2>5, Zenon
  <2>7. Range(a \o <<n>>) = Range(a) \cup Range(<<n>>)
    BY <1>10a, <2>3, Zenon
  <2>8. n \in Range(<<n>>)
    BY DEF Range
  <2>9. QED
    BY <2>1, <2>2, <2>6, <2>7, <2>8, Zenon DEF Sides
<1> DEFINE G == {n \in L : Range(walk[n]) \subseteq Range(walk[First(t)])}
<1>11. ASSUME NEW n \in L, t.parent[n] = root \/ t.parent[n] \in G PROVE n \in G
  <2>1. PICK s \in Sides : t[s][t.parent[n]] = n
    BY <1>7 DEF Wired
  <2>2. CASE t.parent[n] = root
    <3>1. n = First(t)
      BY <1>7, <2>1, <2>2 DEF Wired, First, Sides
    <3>2. QED
      BY <3>1
  <2>3. CASE t.parent[n] \in G
    <3>1. Range(walk[n]) \subseteq Range(walk[t.parent[n]])
      BY <1>10, <2>1, <2>3
    <3>2. QED
      BY <2>3, <3>1
  <2>4. QED
    BY <1>11, <2>2, <2>3
<1> HIDE DEF G
<1>12. L \subseteq G
  BY <1>11, FromAbove
<1>13. QED
  BY <1>4, <1>10, <1>12 DEF G

(* All of it is released.                                                  *)
LEMMA DestroyStep == ASSUME RbtInv, RBTreeDestroy PROVE RbtInv'
<1>1. /\ pc = "idle" /\ pc' = "destroyed" /\ live' = live \ Range(InOrder(tree))
      /\ tree' = tree /\ x' = x /\ y' = y /\ z' = z /\ top' = top
  BY DEF RBTreeDestroy, locals
<1>2. /\ Linked = live /\ live \in SUBSET Nodes
      /\ Shaped(tree, live) /\ Balanced(tree, live, nil, "left")
      /\ \A q \in Nodes \ live, d \in Sides : tree[d][q] = nil
      /\ Sentinels(tree)
  BY <1>1, IdleFacts
<1>3. live' = {}
  BY <1>1, <1>2, WalkCovers
<1>4. RbtTypeOK'
  BY <1>1, <1>3 DEF RbtInv, RbtTypeOK, Deleting
<1>5. Linked' = {}
  BY <1>1, <1>3 DEF Linked, Deleting
<1>6. Remains'
  BY <1>1, <1>2 DEF Remains
<1>7. Sound'
  BY <1>1, <1>3, <1>6 DEF Sound
<1>8. Colours'
  BY <1>1, <1>5 DEF RbtInv, Colours, First
<1>9. Locals'
  BY <1>1 DEF Locals
<1>10. QED
  BY <1>4, <1>7, <1>8, <1>9 DEF RbtInv

(* RBTreeCreate makes the invariant true.                                  *)
LEMMA InitHolds == Init => RbtInv
<1> SUFFICES ASSUME Init PROVE RbtInv
  OBVIOUS
<1>1. /\ pc = "idle" /\ live = {} /\ x = nil /\ y = nil /\ z = nil /\ top = nil
      /\ nil \in All /\ root \in All /\ nil \notin Nodes /\ \A q \in Nodes : q \in All
  BY NodesAssumption DEF Init, All
<1>2. RbtTypeOK
  BY <1>1 DEF Init, RbtTypeOK, Deleting
<1>3. Linked = {} /\ ~Deleting /\ Debtor = nil
  BY <1>1 DEF Linked, Deleting, Debtor
<1>4. /\ tree \in Tree
      /\ \A q \in All, d \in Sides : tree[d][q] = nil
      /\ \A q \in All : ~tree.red[q]
  BY <1>1 DEF Init, Tree, Sides
<1>5. Shaped(tree, {})
  <2>1. Wired(tree, {})
    BY <1>1, <1>4 DEF Wired, Sides
  <2>2. Ranked(tree, {}, [q \in All |-> 0])
    BY DEF Ranked
  <2>3. QED
    BY <1>4, <2>1, <2>2 DEF Shaped
<1>6. ASSUME NEW p, NEW a PROVE Balanced(tree, {}, p, a)
  <2>1. Heights(tree, {}, [q \in All |-> 0], p, a)
    BY <1>1 DEF Heights
  <2>2. QED
    BY <2>1 DEF Balanced
<1>7. Sound
  BY <1>1, <1>3, <1>4, <1>5, <1>6 DEF Sound, Tidy
<1>8. Colours
  <2>1. First(tree) \in All
    BY <1>1, <1>4 DEF First, Sides
  <2>2. QED
    BY <1>1, <1>3, <1>4, <2>1 DEF Colours, Sentinels
<1>9. QED
  BY <1>1, <1>2, <1>7, <1>8 DEF RbtInv, Locals

(***************************************************************************)
(* What the invariant says of every behaviour.                             *)
(***************************************************************************)
(* Every step of the program keeps the invariant.                          *)
LEMMA NextKeeps == RbtInv /\ [Next]_vars => RbtInv'
<1> SUFFICES ASSUME RbtInv, [Next]_vars PROVE RbtInv'
  OBVIOUS
<1>1. CASE \E add \in Adds : RBTreeInsert(add[1], add[2])
  BY <1>1, InsertKeeps
<1>2. CASE InsertRecolour
  BY <1>2, RecolourStep
<1>3. CASE InsertRotate
  BY <1>3, InsertRotateStep
<1>4. CASE InsertDone
  BY <1>4, InsertDoneStep
<1>5. CASE \E n \in Nodes : RBDelete(n)
  BY <1>5, DeleteStep
<1>6. CASE FixUpSibling
  BY <1>6, FixUpSiblingStep
<1>7. CASE FixUpRotate
  BY <1>7, FixUpRotateStep
<1>8. CASE FixUpDone
  BY <1>8, FixUpDoneStep
<1>9. CASE DeleteDone
  BY <1>9, DeleteDoneStep
<1>10. CASE RBTreeDestroy
  BY <1>10, DestroyStep
<1>11. CASE UNCHANGED vars
  BY <1>11 DEF vars, RbtInv, RbtTypeOK, Deleting, Sound, Remains, Linked, Debtor,
               Tidy, Colours, Locals, SideOf, First
<1>12. QED
  BY <1>1, <1>2, <1>3, <1>4, <1>5, <1>6, <1>7, <1>8, <1>9, <1>10, <1>11 DEF Next

(* RbtInv holds of the tree always, also between the rotations of a repair.*)
THEOREM TreeInvariant == Spec => []RbtInv
<1>1. QED
  BY InitHolds, NextKeeps, PTL DEF Spec

(* The fields of the nodes and the locals of the calls keep their types.   *)
THEOREM TreeTypes == Spec => []RbtTypeOK
<1>1. RbtInv => RbtTypeOK
  BY DEF RbtInv
<1>2. QED
  BY <1>1, TreeInvariant, PTL

(* The links up and down agree in a shaped tree, and no node hangs twice.  *)
LEMMA ShapedLinks ==
  ASSUME NEW t, NEW L \in SUBSET Nodes, Shaped(t, L), NEW n \in L
  PROVE  /\ t.parent[n] \in L \cup {root}
         /\ Cardinality({a \in Sides : t[a][t.parent[n]] = n}) = 1
         /\ \A a \in Sides : t[a][n] # nil => t[a][n] \in L /\ t.parent[t[a][n]] = n
<1>1. PICK s \in Sides : t[s][t.parent[n]] = n /\ t[Other(s)][t.parent[n]] # n
  BY DEF Shaped, Wired
<1>2. {a \in Sides : t[a][t.parent[n]] = n} = {s}
  BY <1>1 DEF Sides, Other
<1>3. Cardinality({s}) = 1
  BY FS_Singleton
<1>4. QED
  BY <1>2, <1>3 DEF Shaped, Wired

(* Child and parent links agree (red_black_tree.c:86-99), also between two *)
(* rotations and while the spliced node is out of the tree.                *)
THEOREM LinksAgree == Spec => []LinksBothWays
<1>1. RbtInv => LinksBothWays
  <2> SUFFICES ASSUME RbtInv PROVE LinksBothWays
    OBVIOUS
  <2>1. CASE pc = "destroyed"
    BY <2>1 DEF RbtInv, Sound, Linked, Deleting, LinksBothWays
  <2>2. CASE pc # "destroyed"
    <3>1. Linked \in SUBSET Nodes
      BY DEF RbtInv, RbtTypeOK, Linked
    <3>2. Shaped(tree, Linked)
      BY <2>2 DEF RbtInv, Sound
    <3>3. QED
      BY <3>1, <3>2, ShapedLinks DEF LinksBothWays
  <2>3. QED
    BY <2>1, <2>2
<1>2. QED
  BY <1>1, TreeInvariant, PTL

(* No red node has a red parent but where a repair is to see to it, and    *)
(* the sentinels are black (the Asserts at red_black_tree.c:102, 201, 276).*)
THEOREM RedsApart == Spec => []NoRedPair
<1>1. RbtInv => NoRedPair
  BY DEF RbtInv, Colours, Sentinels, NoRedPair
<1>2. QED
  BY <1>1, TreeInvariant, PTL

(* RBTreeDestroy releases every node that was inserted and not deleted.    *)
THEOREM AllReleased == Spec => []NothingLeaks
<1>1. RbtInv => NothingLeaks
  BY DEF RbtInv, Sound, NothingLeaks
<1>2. QED
  BY <1>1, TreeInvariant, PTL

(* Heights that satisfy the equations are what BlackHeight computes.       *)
LEMMA HeightsCounted ==
  ASSUME NEW L \in SUBSET Nodes, NEW h, NEW p, NEW a, Heights(tree, L, h, p, a),
         Shaped(tree, L),
         \A q \in Nodes, d \in Sides : tree[d][q] \in L \cup {nil},
         \A m \in L, s \in Sides : Short(m, s) <=> m = p /\ s = a
  PROVE  BlackHeightsEqual
<1> DEFINE below(f, m, d) == f[tree[d][m]] + IF Short(m, d) THEN 1 ELSE 0
           body(f, m) == IF m = nil THEN 0
                         ELSE IF below(f, m, "left") # below(f, m, "right")
                                 \/ below(f, m, "left") < 0 THEN -2
                         ELSE IF tree.red[m] THEN below(f, m, "left")
                         ELSE below(f, m, "left") + 1
           g == [m \in Nodes \cup {nil} |-> IF m \in L \cup {nil} THEN h[m] ELSE body(h, m)]
           bh[m \in Nodes \cup {nil}] ==
             LET under(d) == bh[tree[d][m]] + IF Short(m, d) THEN 1 ELSE 0
                 l == under("left")
                 r == under("right")
             IN  IF m = nil THEN 0
                 ELSE IF l # r \/ l < 0 THEN -2
                 ELSE IF tree.red[m] THEN l ELSE l + 1
<1>1. /\ h[nil] = 0 /\ \A q \in L \cup {nil} : h[q] \in Nat
      /\ nil \notin L
      /\ \A n \in L, s \in Sides : h[n] = h[tree[s][n]] + Weight(tree, n) + Owed(n, s, p, a)
  BY NodesAssumption DEF Heights, All
<1>2. \A m \in L \cup {nil} : body(h, m) = h[m]
  <2> SUFFICES ASSUME NEW m \in L PROVE body(h, m) = h[m]
    BY <1>1
  <2>1. /\ "left" \in Sides /\ "right" \in Sides
        /\ h[tree["left"][m]] \in Nat /\ h[tree["right"][m]] \in Nat /\ h[m] \in Nat
    BY <1>1 DEF Sides
  <2>2. /\ h[m] = below(h, m, "left") + Weight(tree, m)
        /\ h[m] = below(h, m, "right") + Weight(tree, m)
    BY <1>1, <2>1 DEF Owed, Weight
  <2>3. below(h, m, "left") \in Nat /\ below(h, m, "right") \in Nat
    BY <2>1
  <2> HIDE DEF below
  <2>4. QED
    BY <1>1, <2>1, <2>2, <2>3 DEF Weight
<1>3. \A q \in L \cup {nil} : g[q] = h[q]
  OBVIOUS
<1> HIDE DEF body
<1>4. \A m \in Nodes \cup {nil} : g[m] = body(h, m)
  BY <1>2
<1> HIDE DEF g
<1>5. \A m \in Nodes \cup {nil} : body(g, m) = body(h, m)
  <2> SUFFICES ASSUME NEW m \in Nodes PROVE body(g, m) = body(h, m)
    BY DEF body
  <2>1. /\ g[tree["left"][m]] = h[tree["left"][m]]
        /\ g[tree["right"][m]] = h[tree["right"][m]]
    BY <1>3 DEF Sides
  <2>2. QED
    BY <2>1 DEF body
<1>6. g = [m \in Nodes \cup {nil} |-> body(g, m)]
  BY <1>4, <1>5 DEF g
<1>7. bh = [m \in Nodes \cup {nil} |-> body(bh, m)]
  BY <1>6, Zenon DEF body
<1>8. \A n : BlackHeight(n) = bh[n]
  BY DEF BlackHeight
<1> HIDE DEF bh
<1>9. \A m \in Nodes \cup {nil} : bh[m] = body(bh, m)
  BY <1>7
<1>10. bh[nil] = h[nil]
  BY <1>1, <1>9 DEF body
<1> DEFINE G == {m \in L : bh[m] = h[m]}
<1>11. ASSUME NEW n \in L, \A s \in Sides : tree[s][n] \in L => tree[s][n] \in G
       PROVE  n \in G
  <2>1. bh[tree["left"][n]] = h[tree["left"][n]] /\ bh[tree["right"][n]] = h[tree["right"][n]]
    BY <1>10, <1>11 DEF Sides
  <2>2. body(bh, n) = body(h, n)
    BY <2>1 DEF body
  <2>3. QED
    BY <1>2, <1>9, <2>2
<1> HIDE DEF G
<1>12. L \subseteq G
  BY <1>11, FromBelow
<1>13. First(tree) \in L \cup {nil}
  BY WiredFacts DEF First, Sides
<1>14. bh[First(tree)] \in Nat
  BY <1>1, <1>10, <1>12, <1>13 DEF G
<1>15. QED
  BY <1>8, <1>14 DEF BlackHeightsEqual

(* The place that RBDeleteFixUp finds by way of x and its parent is the    *)
(* one where the black node is missing.                                    *)
LEMMA DebtFound ==
  ASSUME RbtInv, pc = "fixup", tree.red[x] \/ x # top, NEW h,
         Heights(tree, Linked, h, Debtor, SideOf(tree, x)),
         NEW m \in Linked, NEW s \in Sides
  PROVE  Short(m, s) <=> m = Debtor /\ s = SideOf(tree, x)
<1> DEFINE p == tree.parent[x]
<1>1. Debtor = p /\ (Short(m, s) <=> x = tree[s][m] /\ m = p)
  BY DEF Debtor, Short
<1>2. /\ Linked \in SUBSET Nodes /\ Shaped(tree, Linked) /\ x \in Linked \cup {nil}
      /\ nil \notin Linked /\ root \notin Linked
  BY NodesAssumption DEF RbtInv, RbtTypeOK, Linked, Sound, Locals
<1>3. CASE m # p
  BY <1>1, <1>3
<1>4. CASE m = p
  <2>1. PICK d \in Sides : tree[d][m] = x
    BY <1>2, <1>4 DEF RbtInv, Locals
  <2>2. ~(tree["left"][m] = x /\ tree["right"][m] = x)
    <3>1. SUFFICES ASSUME tree["left"][m] = x, tree["right"][m] = x PROVE FALSE
      OBVIOUS
    <3>2. "left" \in Sides /\ "right" \in Sides /\ m \in Linked \cup {root}
      BY DEF Sides
    <3>3. CASE x = nil
      <4>1. h[m] = h[x] + Weight(tree, m) + Owed(m, "left", p, SideOf(tree, x))
        BY <1>1, <3>1, <3>2 DEF Heights
      <4>2. h[m] = h[x] + Weight(tree, m) + Owed(m, "right", p, SideOf(tree, x))
        BY <1>1, <3>1, <3>2 DEF Heights
      <4>3. SideOf(tree, x) = "left"
        BY <1>4, <3>1 DEF SideOf
      <4>4. Owed(m, "left", p, "left") = 1 /\ Owed(m, "right", p, "left") = 0
        BY <1>4 DEF Owed
      <4>5. h[x] \in Nat /\ Weight(tree, m) \in Nat
        BY <3>3 DEF Heights, Weight
      <4>6. QED
        BY <4>1, <4>2, <4>3, <4>4, <4>5
    <3>4. CASE x # nil
      BY <1>2, <3>1, <3>2, <3>4, WiredFacts
    <3>5. QED
      BY <3>3, <3>4
  <2>3. SideOf(tree, x) = IF x = tree["left"][m] THEN "left" ELSE "right"
    BY <1>4 DEF SideOf
  <2>4. QED
    BY <1>1, <1>4, <2>1, <2>2, <2>3 DEF Sides
<1>5. QED
  BY <1>3, <1>4

(* Every path from the root to a leaf has as many black nodes as any other,*)
(* if the one that RBDeleteFixUp still owes is counted where it is owed.   *)
THEOREM BlacksEqual == Spec => []BlackHeightsEqual
<1>1. ASSUME RbtInv PROVE BlackHeightsEqual
  <2>1. CASE pc = "destroyed"
    <3>1. PICK L \in SUBSET Nodes :
            /\ Shaped(tree, L) /\ Balanced(tree, L, nil, "left")
            /\ \A q \in Nodes \ L, d \in Sides : tree[d][q] = nil
      BY <1>1, <2>1 DEF RbtInv, Sound, Remains
    <3>2. PICK h : Heights(tree, L, h, nil, "left")
      BY <3>1 DEF Balanced
    <3>3. \A q \in Nodes, d \in Sides : tree[d][q] \in L \cup {nil}
      BY <3>1, WiredFacts
    <3>4. \A m \in L, s \in Sides : Short(m, s) <=> m = nil /\ s = "left"
      BY <2>1, NodesAssumption DEF Short
    <3>5. QED
      BY <3>1, <3>2, <3>3, <3>4, HeightsCounted
  <2>2. CASE pc # "destroyed"
    <3>1. PICK L : L = Linked
      OBVIOUS
    <3>2. /\ L \in SUBSET Nodes /\ Shaped(tree, L) /\ nil \notin L /\ Tidy
          /\ Balanced(tree, L, Debtor, SideOf(tree, x))
      BY <1>1, <2>2, <3>1, NodesAssumption DEF RbtInv, RbtTypeOK, Linked, Sound
    <3>3. PICK h : Heights(tree, L, h, Debtor, SideOf(tree, x))
      BY <3>2 DEF Balanced
    <3>4. \A q \in Nodes, d \in Sides : tree[d][q] \in L \cup {nil}
      <4>1. SUFFICES ASSUME NEW q \in Nodes, NEW d \in Sides PROVE tree[d][q] \in L \cup {nil}
        OBVIOUS
      <4>2. CASE q \in L
        BY <3>2, <4>2, WiredFacts
      <4>3. CASE q \notin live
        BY <3>2, <4>3 DEF Tidy
      <4>4. CASE q \in live \ L
        BY <3>1, <3>2, <4>4 DEF Tidy, Linked
      <4>5. QED
        BY <4>2, <4>3, <4>4
    <3>5. \A m \in L, s \in Sides : Short(m, s) <=> m = Debtor /\ s = SideOf(tree, x)
      <4>1. CASE pc = "fixup" /\ (tree.red[x] \/ x # top)
        BY <1>1, <3>1, <3>3, <4>1, DebtFound
      <4>2. CASE ~(pc = "fixup" /\ (tree.red[x] \/ x # top))
        BY <3>2, <4>2 DEF Debtor, Short
      <4>3. QED
        BY <4>1, <4>2
    <3>6. QED
      BY <3>2, <3>3, <3>4, <3>5, HeightsCounted
  <2>3. QED
    BY <2>1, <2>2
<1>2. QED
  BY <1>1, TreeInvariant, PTL
==============================================================================

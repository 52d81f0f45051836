------------------------ MODULE RedBlackTreeListProofs ------------------------
(***************************************************************************)
(* Proofs about the list that the red-black tree stands for: it is sorted  *)
(* (ListSorted), the tree implements OrderedList (TreeImplementsList), the *)
(* queries read it (QueriesRightAlways), and the repair loops climb        *)
(* (LoopsClimb).                                                           *)
(*                                                                         *)
(* What a recursive walk yields cannot be proved by induction over the tree*)
(* at once, and a rotation would disturb it everywhere.  So each node has  *)
(* a position in the list and a reach, tied to those of its children only  *)
(* (Placed): a rotation changes two reaches and no position, a leaf opens a*)
(* gap, a splice closes one, and the node that replaces another takes over *)
(* its numbers.  The walk is read off the numbers once (WalkListed), and so*)
(* are the queries.  ListInv says that there are such numbers and that the *)
(* keys ascend along them.                                                 *)
(***************************************************************************)
EXTENDS RedBlackTreeProofs

(***************************************************************************)
(* Where the nodes of a tree stand in its list.  Node n has position o[n], *)
(* and what is below n, with n itself, reaches from w["left"][n] to        *)
(* w["right"][n].  All that is asked of the numbers is local, so that a    *)
(* step of the program has to be followed around the nodes it touches only.*)
(***************************************************************************)
Step(d) == IF d = "left" THEN -1 ELSE 1

(* On side d of n is k: nothing, or what stands next to n on that side.    *)
Fits(o, w, n, d, k) ==
  IF k = nil THEN w[d][n] = o[n]
  ELSE w[d][k] = w[d][n] /\ w[Other(d)][k] = o[n] + Step(d)

Placed(t, L, o, w, N) ==
  /\ o \in [Nodes -> Int] /\ w \in [Sides -> [Nodes -> Int]]
  /\ \A n \in L, d \in Sides : Fits(o, w, n, d, t[d][n])
  /\ IF First(t) = nil THEN N = 0
     ELSE w["left"][First(t)] = 1 /\ w["right"][First(t)] = N

(* A rotation leaves every node where it is in the list.                   *)
LEMMA TurnPlaces ==
  ASSUME NEW t, NEW u, NEW L \in SUBSET Nodes, Shaped(t, L), NEW a \in Sides,
         NEW n \in L, NEW m \in L, m = t[Other(a)][n], Rotated(t, u, L, a, n, m),
         NEW o, NEW w, NEW N, Placed(t, L, o, w, N)
  PROVE  \E v : Placed(u, L, o, v, N)
<1> DEFINE b == Other(a)
           c == t[a][m]
           v == [d \in Sides |-> [q \in Nodes |->
                   IF d = a /\ q = m THEN w[a][n]
                   ELSE IF d = b /\ q = n THEN o[m] + Step(a) ELSE w[d][q]]]
<1>1. /\ o \in [Nodes -> Int] /\ w \in [Sides -> [Nodes -> Int]]
      /\ n \in Nodes /\ m \in Nodes /\ L \subseteq Nodes
  BY DEF Placed
<1>2. /\ b \in Sides /\ a # b /\ Other(b) = a /\ \A d \in Sides : d = a \/ d = b
      /\ Step(a) \in Int /\ Step(b) = -Step(a)
  BY DEF Sides, Other, Step
<1>3. v \in [Sides -> [Nodes -> Int]]
  BY <1>1, <1>2
<1>4. \A d \in Sides, q \in Nodes :
        v[d][q] = IF d = a /\ q = m THEN w[a][n]
                  ELSE IF d = b /\ q = n THEN o[m] + Step(a) ELSE w[d][q]
  OBVIOUS
<1> HIDE DEF v
<1>5. /\ nil \notin L /\ root \notin L /\ n # m /\ t[b][n] = m
      /\ c # n /\ c # m /\ c \in L \cup {nil}
  <2>1. nil \notin L /\ root \notin L /\ t[b][n] = m
    BY WiredFacts
  <2>2. \A q \in L, d \in Sides :
          t[d][q] # q /\ t[d][q] \in L \cup {nil} /\ (t[d][q] \in L => t.parent[q] # t[d][q])
    BY <2>1, WiredFacts
  <2>3. t.parent[m] = n
    BY <1>2, <2>1 DEF Shaped, Wired
  <2>4. QED
    BY <1>2, <2>1, <2>2, <2>3
<1>5a. /\ \A d \in Sides, q \in L : t[d][q] \in L \cup {nil}
       /\ \A d \in Sides : t[d][n] # n /\ t[d][m] # m /\ t[d][m] # n
       /\ t[a][n] # m
       /\ \A d \in Sides, q \in L \cup {root} : q # n => t[d][q] # m
       /\ \A d \in Sides, q \in L \cup {root} : q # m => t[d][q] # c \/ c = nil
  <2>1. \A d \in Sides, q \in L : t[d][q] \in L \cup {nil}
    BY WiredFacts
  <2>2. \A d \in Sides : t[d][n] # n /\ t[d][m] # m /\ t[d][m] # n
    <3>1. \A q \in L, d \in Sides :
            t[d][q] # q /\ (t[d][q] \in L => t.parent[q] # t[d][q])
      BY <1>5, WiredFacts
    <3>2. t.parent[m] = n
      BY <1>2, <1>5 DEF Shaped, Wired
    <3>3. QED
      BY <3>1, <3>2
  <2>3. \A q1, q2 \in L \cup {root}, s, d \in Sides :
          t[s][q1] # nil /\ t[s][q1] = t[d][q2] => q1 = q2 /\ s = d
    BY WiredFacts
  <2>4. t[a][n] # m /\ \A d \in Sides, q \in L \cup {root} : q # n => t[d][q] # m
    BY <1>2, <1>5, <2>3
  <2>5. \A d \in Sides, q \in L \cup {root} : q # m => t[d][q] # c \/ c = nil
    BY <2>3
  <2>6. QED
    BY <2>1, <2>2, <2>4, <2>5
<1>6. w[b][m] = w[b][n] /\ w[a][m] = o[n] + Step(b)
  <2>1. Fits(o, w, n, b, m)
    BY <1>2, <1>5 DEF Placed
  <2>2. QED
    BY <1>2, <1>5, <2>1 DEF Fits
<1>7. IF c = nil THEN w[a][m] = o[m] ELSE w[a][c] = w[a][m] /\ w[b][c] = o[m] + Step(a)
  BY DEF Placed, Fits
<1>8. /\ \A q \in L, d \in Sides : u[d][q] =
           IF q = n THEN IF d = a THEN t[a][n] ELSE c
           ELSE IF q = m THEN IF d = a THEN n ELSE t[d][m]
           ELSE IF t[d][q] = n THEN m ELSE t[d][q]
      /\ First(u) = IF First(t) = n THEN m ELSE First(t)
  <2>1. root # n /\ root # m
    BY <1>5
  <2>2. QED
    BY <2>1 DEF Rotated, First, Sides
<1>9. \A q \in L, d \in Sides : Fits(o, w, q, d, t[d][q])
  BY DEF Placed
<1>10. \A q \in Nodes : /\ q # m => v[a][q] = w[a][q]
                        /\ q # n => v[b][q] = w[b][q]
  BY <1>2, <1>4
<1>11. v[a][m] = w[a][n] /\ v[b][n] = o[m] + Step(a)
  BY <1>1, <1>2, <1>4
<1>12. o[n] \in Int /\ o[m] \in Int
  BY <1>1
<1> HIDE DEF c, b
<1>13. ASSUME NEW q \in L, NEW d \in Sides PROVE Fits(o, v, q, d, u[d][q])
  <2>1. CASE q = n /\ d = a
    <3>1. u[d][q] = t[a][n] /\ t[a][n] # m /\ t[a][n] # n /\ t[a][n] \in L \cup {nil}
      BY <1>5a, <1>8, <2>1
    <3>2. v[a][n] = w[a][n]
      BY <1>1, <1>5, <1>10
    <3>3. t[a][n] # nil => v[a][t[a][n]] = w[a][t[a][n]] /\ v[b][t[a][n]] = w[b][t[a][n]]
      BY <1>1, <1>10, <3>1
    <3>4. Fits(o, w, n, a, t[a][n])
      BY <1>9
    <3>5. QED
      BY <2>1, <3>1, <3>2, <3>3, <3>4 DEF Fits, b
  <2>2. CASE q = n /\ d = b
    <3>1. u[d][q] = c
      BY <1>2, <1>8, <2>2
    <3>2. CASE c = nil
      <4>1. o[m] = o[n] + Step(b)
        BY <1>6, <1>7, <3>2
      <4>2. o[m] + Step(a) = o[n]
        BY <1>2, <1>12, <4>1
      <4>3. QED
        BY <1>11, <2>2, <3>1, <3>2, <4>2 DEF Fits
    <3>3. CASE c # nil
      <4>1. v[a][c] = w[a][c] /\ v[b][c] = w[b][c]
        BY <1>1, <1>5, <1>10, <3>3
      <4>2. v[b][c] = v[b][n] /\ v[a][c] = o[n] + Step(b)
        BY <1>6, <1>7, <1>11, <3>3, <4>1
      <4>3. QED
        BY <1>2, <2>2, <3>1, <3>3, <4>2 DEF Fits
    <3>4. QED
      BY <3>2, <3>3
  <2>3. CASE q = m /\ d = a
    <3>1. u[d][q] = n /\ n # nil
      BY <1>5, <1>8, <2>3
    <3>2. v[a][n] = w[a][n]
      BY <1>1, <1>5, <1>10
    <3>3. QED
      BY <1>11, <2>3, <3>1, <3>2 DEF Fits, b
  <2>4. CASE q = m /\ d = b
    <3>1. u[d][q] = t[b][m] /\ t[b][m] # m /\ t[b][m] # n /\ t[b][m] \in L \cup {nil}
      BY <1>2, <1>5, <1>5a, <1>8, <2>4
    <3>2. v[b][m] = w[b][m]
      BY <1>1, <1>5, <1>10
    <3>3. t[b][m] # nil => v[a][t[b][m]] = w[a][t[b][m]] /\ v[b][t[b][m]] = w[b][t[b][m]]
      BY <1>1, <1>10, <3>1
    <3>4. Fits(o, w, m, b, t[b][m])
      BY <1>2, <1>9
    <3>5. QED
      BY <1>2, <2>4, <3>1, <3>2, <3>3, <3>4 DEF Fits
  <2>5. CASE q # n /\ q # m
    <3>1. v[a][q] = w[a][q] /\ v[b][q] = w[b][q]
      BY <1>1, <1>10, <2>5
    <3>2. v[d][q] = w[d][q]
      BY <1>2, <3>1
    <3>3. Fits(o, w, q, d, t[d][q])
      BY <1>9
    <3>4. CASE t[d][q] = n
      <4>1. u[d][q] = m /\ m # nil /\ n # nil
        BY <1>5, <1>8, <2>5, <3>4
      <4>2. w[d][n] = w[d][q] /\ w[Other(d)][n] = o[q] + Step(d)
        BY <3>3, <3>4, <4>1 DEF Fits
      <4>3. v[a][m] = w[a][n] /\ v[b][m] = w[b][n]
        BY <1>1, <1>5, <1>6, <1>10, <1>11
      <4>4. v[d][m] = w[d][n] /\ v[Other(d)][m] = w[Other(d)][n]
        BY <1>2, <4>3 DEF b
      <4>5. QED
        BY <3>2, <4>1, <4>2, <4>4 DEF Fits
    <3>5. CASE t[d][q] # n
      <4>1. u[d][q] = t[d][q] /\ t[d][q] # m /\ t[d][q] \in L \cup {nil}
        BY <1>5a, <1>8, <2>5, <3>5
      <4>2. t[d][q] # nil => v[a][t[d][q]] = w[a][t[d][q]] /\ v[b][t[d][q]] = w[b][t[d][q]]
        BY <1>1, <1>10, <3>5, <4>1
      <4>3. t[d][q] # nil => /\ v[d][t[d][q]] = w[d][t[d][q]]
                             /\ v[Other(d)][t[d][q]] = w[Other(d)][t[d][q]]
        BY <1>2, <4>2 DEF b
      <4>4. QED
        BY <3>2, <3>3, <4>1, <4>3 DEF Fits
    <3>6. QED
      BY <3>4, <3>5
  <2>6. QED
    BY <1>2, <2>1, <2>2, <2>3, <2>4, <2>5
<1>14. IF First(u) = nil THEN N = 0
       ELSE v["left"][First(u)] = 1 /\ v["right"][First(u)] = N
  <2>1. First(t) # m /\ First(t) \in L \cup {nil}
    <3>1. First(t) # m
      BY <1>5, <1>5a DEF First, Sides
    <3>2. First(t) \in L \cup {nil}
      BY WiredFacts DEF First, Sides
    <3>3. QED
      BY <3>1, <3>2
  <2>2. IF First(t) = nil THEN N = 0
        ELSE w["left"][First(t)] = 1 /\ w["right"][First(t)] = N
    BY DEF Placed
  <2>3. "left" \in Sides /\ "right" \in Sides
    BY DEF Sides
  <2>4. CASE First(t) = n
    <3>1. First(u) = m /\ m # nil /\ n # nil
      BY <1>5, <1>8, <2>4
    <3>2. v[a][m] = w[a][n] /\ v[b][m] = w[b][n]
      BY <1>1, <1>5, <1>6, <1>10, <1>11
    <3>3. \A d \in Sides : v[d][m] = w[d][n]
      BY <1>2, <3>2
    <3>4. QED
      BY <2>2, <2>3, <2>4, <3>1, <3>3
  <2>5. CASE First(t) # n /\ First(t) # nil
    <3>1. First(u) = First(t)
      BY <1>8, <2>5
    <3>2. \A d \in Sides : v[d][First(t)] = w[d][First(t)]
      BY <1>1, <1>2, <1>10, <2>1, <2>5
    <3>3. QED
      BY <2>2, <2>3, <2>5, <3>1, <3>2
  <2>6. CASE First(t) # n /\ First(t) = nil
    BY <1>8, <2>2, <2>6
  <2>7. QED
    BY <2>4, <2>5, <2>6
<1>15. Placed(u, L, o, v, N)
  BY <1>1, <1>3, <1>13, <1>14 DEF Placed
<1>16. QED
  BY <1>15

(* The sequence s has the nodes of L, each once, n at position o[n].       *)
Numbered(L, s, o) ==
  /\ s \in Seq(L)
  /\ \A i \in 1..Len(s) : o[s[i]] = i
  /\ \A n \in L : o[n] \in 1..Len(s) /\ s[o[n]] = n

(* Positions from i on move up by one.                                     *)
Up(i, k) == IF k >= i THEN k + 1 ELSE k

Raised(o, n, i) == [q \in Nodes |-> IF q = n THEN i ELSE Up(i, o[q])]

(* A new leaf on side a of p comes to the position next to p.              *)
Gap(o, p, a) == IF p = root THEN 1 ELSE IF a = "left" THEN o[p] ELSE o[p] + 1

Makes(i, pos, a, b) ==
  /\ Up(i, pos + Step(a)) - Step(a) = i /\ Up(i, pos) + Step(a) = i
  /\ \A k \in Int :
       /\ Up(i, k) \in Int /\ Up(i, k + Step(a)) - Step(a) \in Int
       /\ k # pos => Up(i, k + Step(a)) - Step(a) = Up(i, k)
       /\ k # pos => Up(i, k + Step(a)) = Up(i, k) + Step(a)
       /\ Up(i, (k + Step(b)) + Step(a)) - Step(a) = Up(i, k) + Step(b)

(* Moving positions up keeps a step a step, but for the one into the gap.  *)
LEMMA UpFacts ==
  ASSUME NEW a \in Sides, NEW pos \in Int, NEW i, i = (IF a = "left" THEN pos ELSE pos + 1)
  PROVE  Makes(i, pos, a, Other(a))
<1>1. CASE a = "left"
  BY <1>1 DEF Makes, Up, Step, Other
<1>2. CASE a = "right"
  BY <1>2 DEF Makes, Up, Step, Other
<1>3. QED
  BY <1>1, <1>2 DEF Sides

LeafAt(t, u, a, p, n) ==
  \A q \in All, d \in Sides :
    u[d][q] = IF q = n THEN nil ELSE IF q = p /\ d = a THEN n ELSE t[d][q]

(* The positions and the reaches after it.                                 *)
LEMMA LeafPlaces ==
  ASSUME NEW t, NEW u, NEW L \in SUBSET Nodes, Shaped(t, L), NEW n \in Nodes \ L,
         NEW p \in L, NEW a \in Sides, t[a][p] = nil, LeafAt(t, u, a, p, n),
         NEW o, NEW w, NEW N \in Nat, Placed(t, L, o, w, N),
         \A q \in L : o[q] \in 1..N /\ (o[q] = o[p] => q = p),
         NEW i, i = Gap(o, p, a),
         NEW o2, o2 = Raised(o, n, i)
  PROVE  \E v : Placed(u, L \cup {n}, o2, v, N + 1)
<1>0. o2 = [q \in Nodes |-> IF q = n THEN i ELSE Up(i, o[q])]
  BY Zenon DEF Raised
<1> DEFINE b == Other(a)
           v == [d \in Sides |-> [q \in Nodes |->
                   IF q = n THEN i
                   ELSE IF d = a THEN Up(i, w[d][q] + Step(d)) - Step(d)
                   ELSE Up(i, w[d][q])]]
<1>1. /\ o \in [Nodes -> Int] /\ w \in [Sides -> [Nodes -> Int]]
      /\ n \in Nodes /\ p \in Nodes /\ L \subseteq Nodes /\ n \notin L /\ n # p
  BY DEF Placed
<1>1a. o[p] \in Int /\ \A q \in Nodes : o[q] \in Int /\ \A d \in Sides : w[d][q] \in Int
  BY <1>1
<1>2. /\ b \in Sides /\ a # b /\ Other(b) = a /\ \A d \in Sides : d = a \/ d = b
      /\ Step(a) \in Int /\ Step(b) = -Step(a)
  BY DEF Sides, Other, Step
<1>3. /\ nil \notin L /\ root \notin L /\ p # root /\ n # nil
      /\ \A q \in L, d \in Sides : t[d][q] \in L \cup {nil}
  BY WiredFacts, NodesAssumption
<1>4. i = (IF a = "left" THEN o[p] ELSE o[p] + 1) /\ i \in Int
  BY <1>1a, <1>3 DEF Gap
<1>5. /\ Up(i, o[p] + Step(a)) - Step(a) = i /\ Up(i, o[p]) + Step(a) = i
      /\ \A k \in Int :
           /\ Up(i, k) \in Int /\ Up(i, k + Step(a)) - Step(a) \in Int
           /\ k # o[p] => Up(i, k + Step(a)) - Step(a) = Up(i, k)
           /\ k # o[p] => Up(i, k + Step(a)) = Up(i, k) + Step(a)
           /\ Up(i, (k + Step(b)) + Step(a)) - Step(a) = Up(i, k) + Step(b)
  <2>1. Makes(i, o[p], a, b)
    BY <1>1a, <1>4, UpFacts
  <2>2. QED
    BY <2>1, Zenon DEF Makes
<1>6. o2 \in [Nodes -> Int] /\ o2[n] = i /\ \A q \in L : o2[q] = Up(i, o[q])
  BY <1>0, <1>1, <1>1a, <1>4, <1>5
<1>7. v \in [Sides -> [Nodes -> Int]]
  <2>1. \A d \in Sides, q \in Nodes :
          (IF q = n THEN i ELSE IF d = a THEN Up(i, w[d][q] + Step(d)) - Step(d)
           ELSE Up(i, w[d][q])) \in Int
    BY <1>1a, <1>4, <1>5
  <2>2. QED
    BY <2>1
<1>8. /\ \A d \in Sides : v[d][n] = i
      /\ \A q \in L : /\ v[a][q] = Up(i, w[a][q] + Step(a)) - Step(a)
                      /\ v[b][q] = Up(i, w[b][q])
  BY <1>1, <1>2
<1> HIDE DEF v
<1>9. \A q \in L, d \in Sides : Fits(o, w, q, d, t[d][q])
  BY DEF Placed
<1>10. /\ \A d \in Sides : u[d][n] = nil
       /\ \A q \in L, d \in Sides : u[d][q] = IF q = p /\ d = a THEN n ELSE t[d][q]
       /\ First(u) = First(t)
  <2>1. n \in All /\ root \in All /\ root # n /\ root # p /\ L \subseteq All
    BY <1>1, <1>3, NodesAssumption DEF All
  <2>2. QED
    BY <1>1, <2>1 DEF LeafAt, First, Sides
<1>11. ASSUME NEW d \in Sides PROVE Fits(o2, v, n, d, u[d][n])
  BY <1>6, <1>8, <1>10 DEF Fits
<1> HIDE DEF b
<1>12. ASSUME NEW q \in L, NEW d \in Sides PROVE Fits(o2, v, q, d, u[d][q])
  <2>0. Fits(o, w, q, d, t[d][q])
    BY <1>9
  <2>0a. o[q] \in Int /\ w[a][q] \in Int /\ w[b][q] \in Int /\ (o[q] = o[p] => q = p)
    BY <1>1, <1>1a, <1>2
  <2>1. CASE q = p /\ d = a
    <3>1. u[d][q] = n
      BY <1>10, <2>1
    <3>2. w[a][p] = o[p]
      BY <2>0, <2>1 DEF Fits
    <3>3. v[a][p] = i
      BY <1>5, <1>8, <3>2
    <3>4. o2[p] + Step(a) = i
      BY <1>5, <1>6
    <3>5. QED
      <4>1. v[a][n] = i /\ v[Other(a)][n] = i
        BY <1>2, <1>8 DEF b
      <4>2. QED
        BY <1>3, <2>1, <3>1, <3>3, <3>4, <4>1 DEF Fits
  <2>2. CASE ~(q = p /\ d = a) /\ t[d][q] = nil
    <3>1. u[d][q] = nil /\ w[d][q] = o[q]
      BY <1>10, <2>0, <2>2 DEF Fits
    <3>2. CASE d = a
      <4>1. o[q] # o[p]
        BY <2>0a, <2>2, <3>2
      <4>2. v[a][q] = Up(i, o[q])
        BY <1>5, <1>8, <2>0a, <3>1, <3>2, <4>1
      <4>3. QED
        BY <1>6, <3>1, <3>2, <4>2 DEF Fits
    <3>3. CASE d = b
      BY <1>6, <1>8, <3>1, <3>3 DEF Fits
    <3>4. QED
      BY <1>2, <3>2, <3>3
  <2>3. CASE ~(q = p /\ d = a) /\ t[d][q] # nil
    <3>1. u[d][q] = t[d][q] /\ t[d][q] \in L
      BY <1>3, <1>10, <2>3
    <3>2. w[d][t[d][q]] = w[d][q] /\ w[Other(d)][t[d][q]] = o[q] + Step(d)
      BY <2>0, <2>3 DEF Fits
    <3>3. v[d][t[d][q]] = v[d][q]
      BY <1>2, <1>8, <3>1, <3>2
    <3>4. CASE d = a
      <4>1. o[q] # o[p]
        BY <2>0a, <2>3, <3>4
      <4>2. v[b][t[d][q]] = Up(i, o[q]) + Step(a)
        BY <1>5, <1>8, <2>0a, <3>1, <3>2, <3>4, <4>1 DEF b
      <4>3. QED
        BY <1>6, <2>3, <3>1, <3>3, <3>4, <4>2 DEF Fits, b
    <3>5. CASE d = b
      <4>1. w[a][t[d][q]] = o[q] + Step(b)
        BY <1>2, <3>2, <3>5
      <4>2. v[a][t[d][q]] = Up(i, o[q]) + Step(b)
        BY <1>5, <1>8, <2>0a, <3>1, <4>1
      <4>3. QED
        BY <1>2, <1>6, <2>3, <3>1, <3>3, <3>5, <4>2 DEF Fits
    <3>6. QED
      BY <1>2, <3>4, <3>5
  <2>4. QED
    BY <2>1, <2>2, <2>3
<1>13. v["left"][First(u)] = 1 /\ v["right"][First(u)] = N + 1 /\ First(u) # nil
  <2>1. First(t) # nil /\ First(t) \in L
    BY NotEmpty, WiredFacts DEF First, Sides
  <2>2. w["left"][First(t)] = 1 /\ w["right"][First(t)] = N
    BY <2>1 DEF Placed
  <2>3. i \in 1..(N + 1) /\ (a = "left" => i <= N) /\ (a = "right" => i > 1)
    BY <1>4 DEF Sides
  <2>4. CASE a = "left"
    <3>1. v["left"][First(t)] = Up(i, 1 + (-1)) - (-1) /\ v["right"][First(t)] = Up(i, N)
      BY <1>2, <1>8, <2>1, <2>2, <2>4 DEF Step, Sides
    <3>2. QED
      BY <1>10, <2>1, <2>3, <2>4, <3>1 DEF Up
  <2>5. CASE a = "right"
    <3>1. v["left"][First(t)] = Up(i, 1) /\ v["right"][First(t)] = Up(i, N + 1) - 1
      BY <1>2, <1>8, <2>1, <2>2, <2>5 DEF Step, Sides
    <3>2. QED
      BY <1>10, <2>1, <2>3, <2>5, <3>1 DEF Up
  <2>6. QED
    BY <2>4, <2>5 DEF Sides
<1>14. Placed(u, L \cup {n}, o2, v, N + 1)
  <2>1. \A q \in L \cup {n}, d \in Sides : Fits(o2, v, q, d, u[d][q])
    BY <1>11, <1>12
  <2>2. QED
    BY <1>6, <1>7, <1>13, <2>1, Zenon DEF Placed
<1>15. QED
  BY <1>14

(* The elements of two sequences one after the other.                      *)
IsGlued(S, s, s1, s2, k, l) ==
  /\ s \in Seq(S) /\ Len(s) = k + l
  /\ \A i \in 1..(k + l) : s[i] = IF i <= k THEN s1[i] ELSE s2[i - k]

(* Glued is concatenation with the two ends named.                         *)
LEMMA Glued ==
  ASSUME NEW S, NEW s1 \in Seq(S), NEW s2 \in Seq(S), NEW k \in Nat, Len(s1) = k,
         NEW l \in Nat, Len(s2) = l
  PROVE  IsGlued(S, s1 \o s2, s1, s2, k, l)
BY ConcatProperties DEF IsGlued

(* The elements of a sequence with one more, or one less.                  *)
WithMore(S, s, N, i, e, r) ==
  /\ r \in Seq(S) /\ Len(r) = N + 1
  /\ \A j \in 1..(N + 1) : r[j] = IF j < i THEN s[j] ELSE IF j = i THEN e ELSE s[j - 1]

(* What InsertAt yields, element by element.                               *)
LEMMA InsertedAt ==
  ASSUME NEW S, NEW s \in Seq(S), NEW i \in 1..(Len(s) + 1), NEW e \in S
  PROVE  WithMore(S, s, Len(s), i, e, InsertAt(s, i, e))
<1> DEFINE p == SubSeq(s, 1, i - 1)
           r == SubSeq(s, i, Len(s))
           pe == p \o <<e>>
<1>0. PICK N \in Nat : N = Len(s)
  OBVIOUS
<1>0a. i \in Nat /\ i - 1 \in Nat /\ N - i + 1 \in Nat /\ i >= 1 /\ i <= N + 1
  BY <1>0
<1>1. /\ p \in Seq(S) /\ Len(p) = i - 1 /\ \A j \in 1..(i - 1) : p[j] = s[j]
  OBVIOUS
<1>2. /\ r \in Seq(S) /\ Len(r) = N - i + 1
      /\ \A j \in 1..(N - i + 1) : r[j] = s[i + j - 1]
  BY <1>0
<1>3. InsertAt(s, i, e) = pe \o r
  BY DEF InsertAt
<1>4. <<e>> \in Seq(S) /\ Len(<<e>>) = 1 /\ <<e>>[1] = e
  OBVIOUS
<1> HIDE DEF p, r
<1>5. /\ pe \in Seq(S) /\ Len(pe) = (i - 1) + 1
      /\ \A j \in 1..((i - 1) + 1) : pe[j] = IF j <= i - 1 THEN p[j] ELSE <<e>>[j - (i - 1)]
  <2>1. p \in Seq(S) /\ Len(p) = i - 1
    BY <1>1
  <2>2. i - 1 \in Nat /\ 1 \in Nat /\ <<e>> \in Seq(S) /\ Len(<<e>>) = 1
    BY <1>0a, <1>4
  <2>3. IsGlued(S, pe, p, <<e>>, i - 1, 1)
    BY <2>1, <2>2, Glued
  <2>4. QED
    BY <2>3, Zenon DEF IsGlued
<1>5a. pe \in Seq(S) /\ Len(pe) = i
  BY <1>0a, <1>5
<1>5b. \A j \in 1..i : pe[j] = IF j < i THEN s[j] ELSE e
  <2>1. SUFFICES ASSUME NEW j \in 1..i PROVE pe[j] = IF j < i THEN s[j] ELSE e
    OBVIOUS
  <2>2. CASE j < i
    <3>1. j \in 1..(i - 1) /\ j \in 1..((i - 1) + 1) /\ j <= i - 1
      BY <1>0a, <2>2
    <3>2. QED
      BY <1>1, <1>5, <2>2, <3>1
  <2>3. CASE j = i
    <3>1. j \in 1..((i - 1) + 1) /\ ~(j <= i - 1) /\ j - (i - 1) = 1
      BY <1>0a, <2>3
    <3>2. pe[j] = <<e>>[j - (i - 1)]
      BY <1>5, <3>1
    <3>3. <<e>>[j - (i - 1)] = e
      BY <1>4, <3>1
    <3>4. ~(j < i)
      BY <1>0a, <2>3
    <3>5. QED
      BY <3>2, <3>3, <3>4
  <2>4. j < i \/ j = i
    BY <1>0a
  <2>5. QED
    BY <2>2, <2>3, <2>4, Zenon
<1> HIDE DEF pe
<1>6. /\ pe \o r \in Seq(S) /\ Len(pe \o r) = i + (N - i + 1)
      /\ \A j \in 1..(i + (N - i + 1)) : (pe \o r)[j] = IF j <= i THEN pe[j] ELSE r[j - i]
  <2>1. r \in Seq(S) /\ Len(r) = N - i + 1
    BY <1>2
  <2>2. IsGlued(S, pe \o r, pe, r, i, N - i + 1)
    BY <1>0a, <1>5a, <2>1, Glued
  <2>3. QED
    BY <2>2, Zenon DEF IsGlued
<1>7. i + (N - i + 1) = N + 1
  BY <1>0a
<1>8. ASSUME NEW j \in 1..(N + 1)
      PROVE (pe \o r)[j] = IF j < i THEN s[j] ELSE IF j = i THEN e ELSE s[j - 1]
  <2>0. (pe \o r)[j] = IF j <= i THEN pe[j] ELSE r[j - i]
    BY <1>6, <1>7
  <2>1. CASE j <= i
    <3>1. j \in 1..i
      BY <2>1
    <3>2. pe[j] = IF j < i THEN s[j] ELSE e
      BY <1>5b, <3>1
    <3>3. QED
      BY <1>0a, <2>0, <2>1, <3>2
  <2>2. CASE j > i
    <3>1. j - i \in 1..(N - i + 1) /\ i + (j - i) - 1 = j - 1 /\ ~(j <= i)
      BY <1>0a, <2>2
    <3>2. r[j - i] = s[j - 1]
      BY <1>2, <3>1
    <3>3. QED
      BY <1>0a, <2>0, <2>2, <3>1, <3>2
  <2>3. j <= i \/ j > i
    BY <1>0a
  <2>4. QED
    BY <2>1, <2>2, <2>3, Zenon
<1>9. /\ InsertAt(s, i, e) \in Seq(S) /\ Len(InsertAt(s, i, e)) = Len(s) + 1
      /\ \A j \in 1..(Len(s) + 1) :
           InsertAt(s, i, e)[j] = IF j < i THEN s[j] ELSE IF j = i THEN e ELSE s[j - 1]
  BY <1>0, <1>3, <1>6, <1>7, <1>8
<1>10. QED
  BY <1>9, Zenon DEF WithMore

(* The same, folded into one formula.                                      *)
LEMMA InsertedInto ==
  ASSUME NEW S, NEW s \in Seq(S), NEW N \in Nat, Len(s) = N, NEW i \in 1..(N + 1), NEW e \in S,
         NEW r, r = InsertAt(s, i, e)
  PROVE  WithMore(S, s, N, i, e, r)
<1>1. i \in 1..(Len(s) + 1)
  OBVIOUS
<1>2. WithMore(S, s, Len(s), i, e, InsertAt(s, i, e))
  BY <1>1, InsertedAt, Zenon
<1>3. QED
  BY <1>2, Zenon

WithLess(S, s, N, i, r) ==
  /\ r \in Seq(S) /\ Len(r) = N - 1
  /\ \A j \in 1..(N - 1) : r[j] = IF j < i THEN s[j] ELSE s[j + 1]

(* What RemoveAt yields, element by element.                               *)
LEMMA RemovedAt ==
  ASSUME NEW S, NEW s \in Seq(S), NEW i \in 1..Len(s)
  PROVE  WithLess(S, s, Len(s), i, RemoveAt(s, i))
<1> DEFINE p == SubSeq(s, 1, i - 1)
           r == SubSeq(s, i + 1, Len(s))
<1>0. PICK N \in Nat : N = Len(s)
  OBVIOUS
<1>0a. i \in Nat /\ i - 1 \in Nat /\ N - i \in Nat /\ i >= 1 /\ i <= N
  BY <1>0
<1>1. /\ p \in Seq(S) /\ Len(p) = i - 1 /\ \A j \in 1..(i - 1) : p[j] = s[j]
  OBVIOUS
<1>2. /\ r \in Seq(S) /\ Len(r) = N - i
      /\ \A j \in 1..(N - i) : r[j] = s[i + j]
  BY <1>0
<1>3. RemoveAt(s, i) = p \o r
  BY DEF RemoveAt
<1> HIDE DEF p, r
<1>4. /\ p \o r \in Seq(S) /\ Len(p \o r) = (i - 1) + (N - i)
      /\ \A j \in 1..((i - 1) + (N - i)) :
           (p \o r)[j] = IF j <= i - 1 THEN p[j] ELSE r[j - (i - 1)]
  <2>1. p \in Seq(S) /\ Len(p) = i - 1 /\ r \in Seq(S) /\ Len(r) = N - i
    BY <1>1, <1>2
  <2>2. IsGlued(S, p \o r, p, r, i - 1, N - i)
    BY <1>0a, <2>1, Glued
  <2>3. QED
    BY <2>2, Zenon DEF IsGlued
<1>5. (i - 1) + (N - i) = N - 1
  BY <1>0a
<1>6. ASSUME NEW j \in 1..(N - 1)
      PROVE (p \o r)[j] = IF j < i THEN s[j] ELSE s[j + 1]
  <2>0. (p \o r)[j] = IF j <= i - 1 THEN p[j] ELSE r[j - (i - 1)]
    BY <1>4, <1>5
  <2>1. CASE j < i
    <3>1. j \in 1..(i - 1) /\ j <= i - 1
      BY <1>0a, <2>1
    <3>2. QED
      BY <1>1, <2>0, <2>1, <3>1
  <2>2. CASE j >= i
    <3>1. j - (i - 1) \in 1..(N - i) /\ i + (j - (i - 1)) = j + 1 /\ ~(j <= i - 1)
      BY <1>0a, <2>2
    <3>2. r[j - (i - 1)] = s[j + 1]
      BY <1>2, <3>1
    <3>3. QED
      BY <1>0a, <2>0, <2>2, <3>1, <3>2
  <2>3. j < i \/ j >= i
    BY <1>0a
  <2>4. QED
    BY <2>1, <2>2, <2>3, Zenon
<1>7. /\ RemoveAt(s, i) \in Seq(S) /\ Len(RemoveAt(s, i)) = Len(s) - 1
      /\ \A j \in 1..(Len(s) - 1) :
           RemoveAt(s, i)[j] = IF j < i THEN s[j] ELSE s[j + 1]
  BY <1>0, <1>3, <1>4, <1>5, <1>6
<1>8. QED
  BY <1>7, Zenon DEF WithLess

(* The same, folded into one formula.                                      *)
LEMMA RemovedFrom ==
  ASSUME NEW S, NEW s \in Seq(S), NEW N \in Nat, Len(s) = N, NEW i \in 1..N,
         NEW r, r = RemoveAt(s, i)
  PROVE  WithLess(S, s, N, i, r)
<1>1. i \in 1..Len(s)
  OBVIOUS
<1>2. WithLess(S, s, Len(s), i, RemoveAt(s, i))
  BY <1>1, RemovedAt, Zenon
<1>3. QED
  BY <1>2, Zenon

(* The sequence with the leaf.                                             *)
LEMMA LeafNumbers ==
  ASSUME NEW L \in SUBSET Nodes, NEW s, NEW o, Numbered(L, s, o), o \in [Nodes -> Int],
         NEW n \in Nodes \ L, NEW i \in 1..(Len(s) + 1),
         NEW o2, o2 = Raised(o, n, i)
  PROVE  Numbered(L \cup {n}, InsertAt(s, i, n), o2)
<1>0u. o2 = [q \in Nodes |-> IF q = n THEN i ELSE Up(i, o[q])]
  BY Zenon DEF Raised
<1>0. s \in Seq(L) /\ Len(s) \in Nat /\ \A j \in 1..Len(s) : s[j] \in L
  BY DEF Numbered
<1>0a. i \in Int /\ i >= 1 /\ i <= Len(s) + 1
  BY <1>0
<1>1. s \in Seq(L \cup {n}) /\ Len(s) \in Nat /\ \A j \in 1..Len(s) : s[j] \in L
  BY <1>0
<1> DEFINE r == InsertAt(s, i, n)
<1>2. /\ r \in Seq(L \cup {n}) /\ Len(r) = Len(s) + 1
      /\ \A j \in 1..(Len(s) + 1) : r[j] = IF j < i THEN s[j] ELSE IF j = i THEN n ELSE s[j - 1]
  <2>1. s \in Seq(L \cup {n}) /\ n \in L \cup {n}
    BY <1>1
  <2>2. WithMore(L \cup {n}, s, Len(s), i, n, InsertAt(s, i, n))
    BY <2>1, InsertedAt, Zenon
  <2>3. QED
    BY <2>2, Zenon DEF WithMore
<1> HIDE DEF r
<1>3. o2[n] = i /\ \A q \in L : o2[q] = (IF o[q] >= i THEN o[q] + 1 ELSE o[q]) /\ o[q] \in Int
  BY <1>0u DEF Up
<1>4. ASSUME NEW j \in 1..(Len(s) + 1) PROVE o2[r[j]] = j
  <2>1. CASE j < i
    <3>0. j \in 1..Len(s)
      BY <1>0, <1>0a, <2>1
    <3>1. r[j] = s[j] /\ s[j] \in L /\ o[s[j]] = j
      BY <1>1, <1>2, <2>1, <3>0 DEF Numbered
    <3>2. ~(o[s[j]] >= i)
      BY <1>0a, <2>1, <3>1
    <3>3. o2[s[j]] = o[s[j]]
      BY <1>3, <3>1, <3>2
    <3>4. QED
      BY <3>1, <3>3
  <2>2. CASE j = i
    BY <1>2, <1>3, <2>2
  <2>3. CASE j > i
    <3>1. j - 1 \in 1..Len(s)
      BY <1>0, <1>0a, <2>3
    <3>2. r[j] = s[j - 1] /\ s[j - 1] \in L /\ o[s[j - 1]] = j - 1
      BY <1>1, <1>2, <2>3, <3>1 DEF Numbered
    <3>3. o[s[j - 1]] >= i /\ (j - 1) + 1 = j
      BY <1>0a, <2>3, <3>2
    <3>4. o2[s[j - 1]] = o[s[j - 1]] + 1
      BY <1>3, <3>2, <3>3
    <3>5. QED
      BY <3>2, <3>3, <3>4
  <2>4. QED
    BY <1>0a, <2>1, <2>2, <2>3
<1>5. ASSUME NEW q \in L PROVE o2[q] \in 1..(Len(s) + 1) /\ r[o2[q]] = q
  <2>1. o[q] \in 1..Len(s) /\ s[o[q]] = q
    BY DEF Numbered
  <2>2. CASE o[q] >= i
    <3>0. o2[q] = o[q] + 1
      BY <1>3, <2>2
    <3>1. /\ o[q] + 1 \in 1..(Len(s) + 1) /\ (o[q] + 1) - 1 = o[q]
          /\ ~(o[q] + 1 < i) /\ o[q] + 1 # i
      BY <1>0, <1>0a, <2>1, <2>2
    <3>2. r[o[q] + 1] = s[o[q]]
      BY <1>2, <3>1
    <3>3. QED
      BY <2>1, <3>0, <3>1, <3>2
  <2>3. CASE o[q] < i
    <3>1. ~(o[q] >= i) /\ o[q] \in 1..(Len(s) + 1)
      BY <1>0, <1>0a, <2>1, <2>3
    <3>2. o2[q] = o[q] /\ r[o[q]] = s[o[q]]
      BY <1>2, <1>3, <2>3, <3>1
    <3>3. QED
      BY <2>1, <3>1, <3>2
  <2>4. QED
    BY <1>0a, <1>3, <2>2, <2>3
<1>6. o2[n] \in 1..(Len(s) + 1) /\ r[o2[n]] = n
  BY <1>0a, <1>2, <1>3
<1>7. QED
  BY <1>2, <1>4, <1>5, <1>6 DEF Numbered, r

(* Positions behind i move down by one.                                    *)
Un(i, k) == IF k > i THEN k - 1 ELSE k
Lowered(o, i) == [q \in Nodes |-> Un(i, o[q])]

(* The new ends of what reaches to k on side d, when position i is gone.   *)
Reach(i, d, k) == IF d = "left" THEN Un(i, k) ELSE Un(i, k + 1) - 1

(* Moving positions down keeps a step a step, but for the one over i.      *)
LEMMA UnFacts ==
  ASSUME NEW i \in Int, NEW d \in Sides
  PROVE  /\ \A k \in Int :
              /\ Un(i, k) \in Int /\ Reach(i, d, k) \in Int
              /\ k # i => Reach(i, d, k) = Un(i, k)
              /\ k # i => Reach(i, Other(d), k + Step(d)) = Un(i, k) + Step(d)
              /\ k = i + Step(Other(d)) => Reach(i, d, i) = Un(i, k)
         /\ Reach(i, Other(d), i + Step(d)) = Reach(i, Other(d), i)
<1>1. CASE d = "left"
  BY <1>1 DEF Un, Reach, Step, Other
<1>2. CASE d = "right"
  BY <1>2 DEF Un, Reach, Step, Other
<1>3. QED
  BY <1>1, <1>2 DEF Sides

(* Node m has come out of the links, and its one child c up in its place.  *)
CutAt(t, u, a, m, c) ==
  \A q \in All, d \in Sides : u[d][q] = IF q = t.parent[m] /\ d = a THEN c ELSE t[d][q]

(* The positions and the reaches without m.                                *)
LEMMA CutPlaces ==
  ASSUME NEW t, NEW u, NEW L \in SUBSET Nodes, Shaped(t, L), NEW m \in L,
         NEW e \in Sides, t[Other(e)][m] = nil, NEW c, c = t[e][m],
         NEW a \in Sides, t[a][t.parent[m]] = m, CutAt(t, u, a, m, c),
         NEW o, NEW w, NEW N, Placed(t, L, o, w, N),
         \A q \in L : o[q] = o[m] => q = m, o[m] \in 1..N, N \in Nat,
         NEW o2, o2 = Lowered(o, o[m])
  PROVE  \E v : Placed(u, L \ {m}, o2, v, N - 1)
<1>0. o2 = [q \in Nodes |-> Un(o[m], o[q])]
  BY Zenon DEF Lowered
<1> DEFINE i == o[m]
           p == t.parent[m]
           v == [d \in Sides |-> [q \in Nodes |-> Reach(i, d, w[d][q])]]
<1>1. /\ o \in [Nodes -> Int] /\ w \in [Sides -> [Nodes -> Int]]
      /\ m \in Nodes /\ L \subseteq Nodes /\ i \in Int
  BY DEF Placed
<1>1a. \A q \in Nodes : o[q] \in Int /\ \A d \in Sides : w[d][q] \in Int
  BY <1>1
<1>2. /\ Other(e) \in Sides /\ e # Other(e) /\ Other(Other(e)) = e
      /\ \A d \in Sides : (d = e \/ d = Other(e)) /\ Other(d) \in Sides /\ Other(Other(d)) = d
  BY DEF Sides, Other
<1>3. /\ nil \notin L /\ root \notin L /\ m # nil /\ c \in L \cup {nil} /\ c # m
      /\ \A q \in L, d \in Sides : t[d][q] \in L \cup {nil}
  BY WiredFacts
<1>4. \A d \in Sides, k \in Int :
        /\ Un(i, k) \in Int /\ Reach(i, d, k) \in Int
        /\ k # i => Reach(i, d, k) = Un(i, k)
        /\ k # i => Reach(i, Other(d), k + Step(d)) = Un(i, k) + Step(d)
        /\ k = i + Step(Other(d)) => Reach(i, d, i) = Un(i, k)
  BY <1>1, UnFacts
<1>4a. \A d \in Sides : Reach(i, Other(d), i + Step(d)) = Reach(i, Other(d), i)
  BY <1>1, UnFacts
<1>5. o2 \in [Nodes -> Int] /\ \A q \in Nodes : o2[q] = Un(i, o[q])
  BY <1>0, <1>1a, <1>4
<1>6. v \in [Sides -> [Nodes -> Int]] /\ \A d \in Sides, q \in Nodes : v[d][q] = Reach(i, d, w[d][q])
  <2>1. \A d \in Sides, q \in Nodes : Reach(i, d, w[d][q]) \in Int
    BY <1>1a, <1>4
  <2>2. QED
    BY <2>1
<1> HIDE DEF v
<1>7. \A q \in L, d \in Sides : Fits(o, w, q, d, t[d][q])
  BY DEF Placed
<1>8. c # nil => \A d \in Sides : v[d][c] = v[d][m]
  <2>1. SUFFICES ASSUME c # nil PROVE v[e][c] = v[e][m] /\ v[Other(e)][c] = v[Other(e)][m]
    BY <1>2
  <2>2. w[e][c] = w[e][m] /\ w[Other(e)][c] = i + Step(e) /\ w[Other(e)][m] = i
    BY <1>2, <1>7, <2>1 DEF Fits
  <2>3. Reach(i, Other(e), w[Other(e)][c]) = Reach(i, Other(e), w[Other(e)][m])
    BY <1>4a, <2>2
  <2>4. c \in Nodes
    BY <1>1, <1>3, <2>1
  <2>5. QED
    BY <1>1, <1>2, <1>6, <2>2, <2>3, <2>4
<1>8a. c = nil => \A d \in Sides : w[d][m] = i
  <2>1. SUFFICES ASSUME c = nil PROVE w[e][m] = i /\ w[Other(e)][m] = i
    BY <1>2
  <2>2. Fits(o, w, m, e, nil) /\ Fits(o, w, m, Other(e), nil)
    BY <1>2, <1>7, <2>1
  <2>3. QED
    BY <2>2 DEF Fits
<1>9. /\ p \in L \cup {root} /\ p # m
      /\ \A q \in L \cup {root}, d \in Sides : ~(q = p /\ d = a) => t[d][q] # m
  <2>1. p \in L \cup {root} /\ p # m
    <3>1. p \in L \cup {root}
      BY DEF Shaped, Wired
    <3>2. p # m
      BY WiredFacts
    <3>3. QED
      BY <3>1, <3>2
  <2>2. \A q1, q2 \in L \cup {root}, s, d \in Sides :
          t[s][q1] # nil /\ t[s][q1] = t[d][q2] => q1 = q2 /\ s = d
    BY WiredFacts
  <2>3. QED
    BY <1>3, <2>1, <2>2
<1>10. \A q \in L \cup {root}, d \in Sides : u[d][q] = IF q = p /\ d = a THEN c ELSE t[d][q]
  BY WiredFacts DEF CutAt
<1> HIDE DEF i, p
<1>11. ASSUME NEW q \in L \ {m}, NEW d \in Sides PROVE Fits(o2, v, q, d, u[d][q])
  <2>0. Fits(o, w, q, d, t[d][q])
    BY <1>7
  <2>1. o[q] \in Int /\ o[q] # i /\ q \in Nodes
    BY <1>1, <1>1a DEF i
  <2>2. \A k \in L : k \in Nodes /\ w[d][k] = w[d][q] /\ w[Other(d)][k] = o[q] + Step(d)
              => v[d][k] = v[d][q] /\ v[Other(d)][k] = o2[q] + Step(d)
    <3>1. Reach(i, Other(d), o[q] + Step(d)) = Un(i, o[q]) + Step(d)
      BY <1>4, <2>1
    <3>2. QED
      BY <1>2, <1>5, <1>6, <2>1, <3>1
  <2>3. CASE q = p /\ d = a
    <3>1. u[d][q] = c /\ t[d][q] = m
      BY <1>10, <2>3 DEF p
    <3>2. w[d][m] = w[d][q] /\ w[Other(d)][m] = o[q] + Step(d)
      BY <1>3, <2>0, <3>1 DEF Fits
    <3>3. v[d][m] = v[d][q] /\ v[Other(d)][m] = o2[q] + Step(d)
      BY <1>1, <2>2, <3>2
    <3>4. CASE c # nil
      <4>1. v[d][c] = v[d][m] /\ v[Other(d)][c] = v[Other(d)][m]
        BY <1>2, <1>8, <3>4
      <4>2. QED
        BY <3>1, <3>3, <3>4, <4>1 DEF Fits
    <3>5. CASE c = nil
      <4>1. w[d][q] = i /\ i = o[q] + Step(d)
        BY <1>2, <1>8a, <3>2, <3>5
      <4>2. o[q] = i + Step(Other(d))
        BY <1>1, <2>1, <4>1 DEF Step, Other, Sides
      <4>3. Reach(i, d, i) = Un(i, o[q])
        BY <1>4, <2>1, <4>2
      <4>4. v[d][q] = o2[q]
        BY <1>5, <1>6, <2>1, <4>1, <4>3
      <4>5. QED
        BY <3>1, <3>5, <4>4 DEF Fits
    <3>6. QED
      BY <3>4, <3>5
  <2>4. CASE ~(q = p /\ d = a)
    <3>1. u[d][q] = t[d][q] /\ t[d][q] \in L \cup {nil}
      BY <1>3, <1>10, <2>4
    <3>2. CASE t[d][q] = nil
      <4>1. w[d][q] = o[q]
        BY <2>0, <3>2 DEF Fits
      <4>2. v[d][q] = o2[q]
        BY <1>4, <1>5, <1>6, <2>1, <4>1
      <4>3. QED
        BY <3>1, <3>2, <4>2 DEF Fits
    <3>3. CASE t[d][q] # nil
      <4>1. w[d][t[d][q]] = w[d][q] /\ w[Other(d)][t[d][q]] = o[q] + Step(d)
        BY <2>0, <3>3 DEF Fits
      <4>2. QED
        BY <1>1, <2>2, <3>1, <3>3, <4>1 DEF Fits
    <3>4. QED
      BY <3>2, <3>3
  <2>5. QED
    BY <2>3, <2>4
<1>12. IF First(u) = nil THEN N - 1 = 0
       ELSE v["left"][First(u)] = 1 /\ v["right"][First(u)] = N - 1
  <2>1. First(t) \in L /\ "left" \in Sides /\ "right" \in Sides
    <3>1. First(t) # nil
      BY NotEmpty
    <3>2. QED
      BY <3>1, WiredFacts DEF First, Sides
  <2>2. w["left"][First(t)] = 1 /\ w["right"][First(t)] = N
    BY <1>3, <2>1 DEF Placed
  <2>3. i \in Int /\ 1 <= i /\ i <= N /\ N \in Int
    BY DEF i
  <2>4. Reach(i, "left", 1) = 1 /\ Reach(i, "right", N) = N - 1
    BY <2>3 DEF Reach, Un
  <2>5. v["left"][First(t)] = 1 /\ v["right"][First(t)] = N - 1
    BY <1>1, <1>6, <2>1, <2>2, <2>4
  <2>6. CASE p = root /\ a = "left"
    <3>1. First(u) = c /\ First(t) = m
      BY <1>10, <2>1, <2>6 DEF First, p
    <3>2. CASE c = nil
      BY <1>8a, <2>1, <2>2, <2>3, <3>1, <3>2
    <3>3. CASE c # nil
      BY <1>8, <2>1, <2>5, <3>1, <3>3
    <3>4. QED
      BY <3>2, <3>3
  <2>7. CASE ~(p = root /\ a = "left")
    <3>1. First(u) = First(t)
      BY <1>10, <2>1, <2>7 DEF First
    <3>2. QED
      BY <1>3, <2>1, <2>5, <3>1
  <2>8. QED
    BY <2>6, <2>7
<1>13. Placed(u, L \ {m}, o2, v, N - 1)
  BY <1>5, <1>6, <1>11, <1>12, Zenon DEF Placed
<1>14. QED
  BY <1>13

(* The sequence without m.                                                 *)
LEMMA CutNumbers ==
  ASSUME NEW L \in SUBSET Nodes, NEW s, NEW o, Numbered(L, s, o), o \in [Nodes -> Int],
         NEW m \in L, NEW o2, o2 = Lowered(o, o[m])
  PROVE  Numbered(L \ {m}, RemoveAt(s, o[m]), o2)
<1>0u. o2 = [q \in Nodes |-> Un(o[m], o[q])]
  BY Zenon DEF Lowered
<1> DEFINE i == o[m]
           r == RemoveAt(s, i)
<1>0. PICK N \in Nat : N = Len(s)
  BY DEF Numbered
<1>1. /\ s \in Seq(L) /\ i \in 1..N /\ s[i] = m
      /\ \A j \in 1..N : s[j] \in L /\ o[s[j]] = j
      /\ \A q \in L : o[q] \in 1..N /\ s[o[q]] = q
  BY <1>0 DEF Numbered
<1>2. r \in Seq(L) /\ Len(r) = N - 1
      /\ \A j \in 1..(N - 1) : r[j] = IF j < i THEN s[j] ELSE s[j + 1]
  <2>1. WithLess(L, s, N, i, r)
    BY <1>0, <1>1, RemovedFrom
  <2>2. QED
    BY <2>1, Zenon DEF WithLess
<1>3. \A q \in L : o2[q] = IF o[q] > i THEN o[q] - 1 ELSE o[q]
  BY <1>0u DEF Un
<1>4. \A q \in L : o[q] = i => q = m
  BY <1>1
<1> HIDE DEF r, i
<1>5. ASSUME NEW j \in 1..(N - 1) PROVE o2[r[j]] = j /\ r[j] \in L \ {m}
  <2>1. CASE j < i
    <3>1. j \in 1..N /\ ~(j > i) /\ j # i
      BY <1>0, <1>1, <2>1
    <3>2. r[j] = s[j] /\ s[j] \in L /\ o[s[j]] = j
      BY <1>1, <1>2, <2>1, <3>1
    <3>3. s[j] # m
      BY <3>1, <3>2 DEF i
    <3>4. QED
      BY <1>3, <3>1, <3>2, <3>3
  <2>2. CASE j >= i
    <3>1. j + 1 \in 1..N /\ j + 1 > i /\ j + 1 # i /\ (j + 1) - 1 = j /\ ~(j < i)
      BY <1>0, <1>1, <2>2
    <3>2. r[j] = s[j + 1] /\ s[j + 1] \in L /\ o[s[j + 1]] = j + 1
      BY <1>1, <1>2, <3>1
    <3>3. s[j + 1] # m
      BY <3>1, <3>2 DEF i
    <3>4. QED
      BY <1>3, <3>1, <3>2, <3>3
  <2>3. j < i \/ j >= i
    BY <1>1
  <2>4. QED
    BY <2>1, <2>2, <2>3, Zenon
<1>6. ASSUME NEW q \in L \ {m} PROVE o2[q] \in 1..(N - 1) /\ r[o2[q]] = q
  <2>1. o[q] \in 1..N /\ s[o[q]] = q /\ o[q] # i
    BY <1>1, <1>4
  <2>2. CASE o[q] > i
    <3>1. o2[q] = o[q] - 1
      BY <1>3, <2>2
    <3>2. o[q] - 1 \in 1..(N - 1) /\ ~(o[q] - 1 < i) /\ (o[q] - 1) + 1 = o[q]
      BY <1>0, <1>1, <2>1, <2>2
    <3>3. r[o[q] - 1] = s[o[q]]
      BY <1>2, <3>2
    <3>4. QED
      BY <2>1, <3>1, <3>2, <3>3
  <2>3. CASE o[q] < i
    <3>0. ~(o[q] > i)
      BY <1>1, <2>1, <2>3
    <3>1. o2[q] = o[q]
      BY <1>3, <3>0
    <3>2. o[q] \in 1..(N - 1)
      BY <1>0, <1>1, <2>1, <2>3
    <3>3. r[o[q]] = s[o[q]]
      BY <1>2, <2>3, <3>2
    <3>4. QED
      BY <2>1, <3>1, <3>2, <3>3
  <2>4. o[q] > i \/ o[q] < i
    BY <1>1, <2>1
  <2>5. QED
    BY <2>2, <2>3, <2>4, Zenon
<1>7. r \in Seq(L \ {m})
  <2>1. \A j \in 1..Len(r) : r[j] \in L \ {m}
    BY <1>2, <1>5
  <2>2. DOMAIN r = 1..Len(r) /\ Len(r) \in Nat /\ r = [j \in 1..Len(r) |-> r[j]]
    BY <1>2
  <2>3. r \in [1..Len(r) -> L \ {m}]
    BY <2>1, <2>2
  <2>4. QED
    BY <2>2, <2>3
<1>8. \A j \in 1..Len(r) : o2[r[j]] = j
  BY <1>2, <1>5
<1>9. \A q \in L \ {m} : o2[q] \in 1..Len(r) /\ r[o2[q]] = q
  BY <1>2, <1>6
<1>10. Numbered(L \ {m}, r, o2)
  BY <1>7, <1>8, <1>9, Zenon DEF Numbered
<1>11. QED
  BY <1>10 DEF r, i

(***************************************************************************)
(* The walk over the tree.                                                 *)
(***************************************************************************)
(* The reaches of a node and of those beside it.                           *)
LEMMA ReachFacts ==
  ASSUME NEW t, NEW L \in SUBSET Nodes, Shaped(t, L), NEW o, NEW w, NEW N, Placed(t, L, o, w, N)
  PROVE  \A n \in L :
           /\ o[n] \in Int /\ w["left"][n] \in Int /\ w["right"][n] \in Int
           /\ t.left[n] \in L \cup {nil} /\ t.right[n] \in L \cup {nil}
           /\ IF t.left[n] = nil THEN w["left"][n] = o[n]
              ELSE /\ w["left"][t.left[n]] = w["left"][n]
                   /\ w["right"][t.left[n]] = o[n] - 1
           /\ IF t.right[n] = nil THEN w["right"][n] = o[n]
              ELSE /\ w["right"][t.right[n]] = w["right"][n]
                   /\ w["left"][t.right[n]] = o[n] + 1
<1>1. SUFFICES ASSUME NEW n \in L
               PROVE /\ o[n] \in Int /\ w["left"][n] \in Int /\ w["right"][n] \in Int
                     /\ t.left[n] \in L \cup {nil} /\ t.right[n] \in L \cup {nil}
                     /\ IF t.left[n] = nil THEN w["left"][n] = o[n]
                        ELSE /\ w["left"][t.left[n]] = w["left"][n]
                             /\ w["right"][t.left[n]] = o[n] - 1
                     /\ IF t.right[n] = nil THEN w["right"][n] = o[n]
                        ELSE /\ w["right"][t.right[n]] = w["right"][n]
                             /\ w["left"][t.right[n]] = o[n] + 1
  OBVIOUS
<1>2. "left" \in Sides /\ "right" \in Sides
  BY DEF Sides
<1>3. o[n] \in Int /\ w["left"][n] \in Int /\ w["right"][n] \in Int
  BY <1>2 DEF Placed
<1>4. t["left"][n] \in L \cup {nil} /\ t["right"][n] \in L \cup {nil}
  BY <1>2, WiredFacts
<1>5. Fits(o, w, n, "left", t["left"][n]) /\ Fits(o, w, n, "right", t["right"][n])
  BY <1>2 DEF Placed
<1>6. Other("left") = "right" /\ Other("right") = "left" /\ Step("left") = -1 /\ Step("right") = 1
  BY DEF Other, Step
<1>7. t.left[n] = t["left"][n] /\ t.right[n] = t["right"][n]
  OBVIOUS
<1>8. /\ IF t.left[n] = nil THEN w["left"][n] = o[n]
         ELSE w["left"][t.left[n]] = w["left"][n] /\ w["right"][t.left[n]] = o[n] - 1
  BY <1>3, <1>5, <1>6, <1>7 DEF Fits
<1>9. IF t.right[n] = nil THEN w["right"][n] = o[n]
      ELSE w["right"][t.right[n]] = w["right"][n] /\ w["left"][t.right[n]] = o[n] + 1
  BY <1>3, <1>5, <1>6, <1>7 DEF Fits
<1>10. QED
  BY <1>3, <1>4, <1>7, <1>8, <1>9

(* Each node is within its reach, and that is within the list.             *)
LEMMA ReachBounds ==
  ASSUME NEW t, NEW L \in SUBSET Nodes, Shaped(t, L), NEW o, NEW w, NEW N \in Nat,
         Placed(t, L, o, w, N), \A q \in L : o[q] \in 1..N
  PROVE  \A n \in L : /\ 1 <= w["left"][n] /\ w["left"][n] <= o[n]
                      /\ o[n] <= w["right"][n] /\ w["right"][n] <= N
<1> DEFINE lo(n) == w["left"][n]
           hi(n) == w["right"][n]
           G == {n \in L : lo(n) <= o[n] /\ o[n] <= hi(n)}
           H == {n \in L : 1 <= lo(n) /\ hi(n) <= N}
<1>1. \A n \in L :
        /\ o[n] \in Int /\ lo(n) \in Int /\ hi(n) \in Int
        /\ t.left[n] \in L \cup {nil} /\ t.right[n] \in L \cup {nil}
        /\ IF t.left[n] = nil THEN lo(n) = o[n]
           ELSE lo(t.left[n]) = lo(n) /\ hi(t.left[n]) = o[n] - 1
        /\ IF t.right[n] = nil THEN hi(n) = o[n]
           ELSE hi(t.right[n]) = hi(n) /\ lo(t.right[n]) = o[n] + 1
  BY ReachFacts
<1> HIDE DEF lo, hi
<1>2. nil \notin L /\ \A x1 : t["left"][x1] = t.left[x1] /\ t["right"][x1] = t.right[x1]
  BY WiredFacts
<1>3. L \subseteq G
  <2>1. ASSUME NEW n \in L, \A s \in Sides : t[s][n] \in L => t[s][n] \in G PROVE n \in G
    <3>1. /\ t.left[n] \in L => t.left[n] \in G
          /\ t.right[n] \in L => t.right[n] \in G
      BY <1>2, <2>1 DEF Sides
    <3>2. lo(n) <= o[n]
      <4>1. CASE t.left[n] = nil
        BY <1>1, <4>1
      <4>2. CASE t.left[n] # nil
        <5>1. t.left[n] \in L /\ t.left[n] \in G
          BY <1>1, <3>1, <4>2
        <5>2. lo(t.left[n]) <= o[t.left[n]] /\ o[t.left[n]] <= hi(t.left[n])
          BY <5>1
        <5>3. lo(t.left[n]) = lo(n) /\ hi(t.left[n]) = o[n] - 1
          BY <1>1, <4>2
        <5>4. o[t.left[n]] \in Int /\ o[n] \in Int /\ lo(n) \in Int
          BY <1>1, <5>1
        <5>5. QED
          BY <5>2, <5>3, <5>4
      <4>3. QED
        BY <4>1, <4>2
    <3>3. o[n] <= hi(n)
      <4>1. CASE t.right[n] = nil
        BY <1>1, <4>1
      <4>2. CASE t.right[n] # nil
        <5>1. t.right[n] \in L /\ t.right[n] \in G
          BY <1>1, <3>1, <4>2
        <5>2. lo(t.right[n]) <= o[t.right[n]] /\ o[t.right[n]] <= hi(t.right[n])
          BY <5>1
        <5>3. hi(t.right[n]) = hi(n) /\ lo(t.right[n]) = o[n] + 1
          BY <1>1, <4>2
        <5>4. o[t.right[n]] \in Int /\ o[n] \in Int /\ hi(n) \in Int
          BY <1>1, <5>1
        <5>5. QED
          BY <5>2, <5>3, <5>4
      <4>3. QED
        BY <4>1, <4>2
    <3>4. QED
      BY <3>2, <3>3
  <2> HIDE DEF G
  <2>2. QED
    BY <2>1, FromBelow
<1>4. L \subseteq H
  <2>1. ASSUME NEW n \in L, t.parent[n] = root \/ t.parent[n] \in H PROVE n \in H
    <3>0. t.parent[n] \in L \cup {root} /\ \E s \in Sides : t[s][t.parent[n]] = n
      BY DEF Shaped, Wired
    <3>0a. t.left[t.parent[n]] = n \/ t.right[t.parent[n]] = n
      BY <1>2, <3>0 DEF Sides
    <3>0b. n # nil /\ n \in L
      BY <1>2
    <3>1. CASE t.parent[n] = root
      <4>1. t.right[root] = nil
        BY DEF Shaped, Wired
      <4>2. First(t) = n
        BY <3>0a, <3>0b, <3>1, <4>1 DEF First
      <4>3. lo(n) = 1 /\ hi(n) = N
        BY <3>0b, <4>2 DEF Placed, lo, hi
      <4>4. QED
        BY <4>3
    <3>2. CASE t.parent[n] # root
      <4>1. PICK p \in L : p = t.parent[n]
        BY <3>0, <3>2
      <4>2. 1 <= lo(p) /\ hi(p) <= N /\ o[p] \in 1..N
        BY <2>1, <3>2, <4>1
      <4>3. CASE t.left[p] = n
        <5>1. lo(n) = lo(p) /\ hi(n) = o[p] - 1
          BY <1>1, <3>0b, <4>1, <4>3
        <5>2. lo(p) \in Int /\ o[p] \in Int
          BY <1>1, <4>1
        <5>3. QED
          BY <4>2, <5>1, <5>2
      <4>4. CASE t.right[p] = n
        <5>1. hi(n) = hi(p) /\ lo(n) = o[p] + 1
          BY <1>1, <3>0b, <4>1, <4>4
        <5>2. hi(p) \in Int /\ o[p] \in Int
          BY <1>1, <4>1
        <5>3. QED
          BY <4>2, <5>1, <5>2
      <4>5. QED
        BY <3>0a, <4>1, <4>3, <4>4
    <3>3. QED
      BY <3>1, <3>2
  <2> HIDE DEF H
  <2>2. QED
    BY <2>1, FromAbove
<1>5. QED
  BY <1>3, <1>4 DEF lo, hi

(* A part of a sequence falls into what is before an element and behind it.*)
LEMMA Apart ==
  ASSUME NEW V, NEW q \in Seq(V), NEW N \in Nat, Len(q) = N, NEW lo \in 1..N,
         NEW k \in lo..N, NEW hi \in k..N
  PROVE  /\ SubSeq(q, lo, hi) = SubSeq(q, lo, k - 1) \o <<q[k]>> \o SubSeq(q, k + 1, hi)
         /\ SubSeq(q, lo, k - 1) \in Seq(V) /\ SubSeq(q, k + 1, hi) \in Seq(V) /\ q[k] \in V
<1>1. SubSeq(q, lo, hi) = SubSeq(q, lo, k) \o SubSeq(q, k + 1, hi)
  <2>1. lo \in 1..(Len(q) + 1) /\ k \in (lo - 1)..Len(q) /\ hi \in k..Len(q)
    OBVIOUS
  <2>2. QED
    BY <2>1, ConcatAdjacentSubSeq, Zenon
<1>2. SubSeq(q, lo, k) = SubSeq(q, lo, k - 1) \o <<q[k]>>
  <2>1. lo \in 1..Len(q) /\ k \in lo..Len(q)
    OBVIOUS
  <2>2. QED
    BY <2>1, SubSeqRecursiveSecond, Zenon
<1>3. SubSeq(q, lo, k - 1) \in Seq(V) /\ SubSeq(q, k + 1, hi) \in Seq(V) /\ q[k] \in V
  OBVIOUS
<1>4. QED
  BY <1>1, <1>2, <1>3, Zenon

(* The sequence s is the list of the tree t with the nodes L.              *)
Listed(t, L, s) == \E o, w : Numbered(L, s, o) /\ Placed(t, L, o, w, Len(s))

(* The part of the list q that is below a node.                            *)
PartBelow(q, w, n) == IF n = nil THEN <<>> ELSE SubSeq(q, w["left"][n], w["right"][n])

(* What is below a node is what is below its children, and it between.     *)
LEMMA BelowSplits ==
  ASSUME NEW t, NEW L \in SUBSET Nodes, Shaped(t, L), NEW o, NEW w, NEW N \in Nat,
         Placed(t, L, o, w, N), \A n \in L : o[n] \in 1..N,
         NEW V, NEW q \in Seq(V), Len(q) = N, NEW n \in L
  PROVE  /\ PartBelow(q, w, n) =
              PartBelow(q, w, t.left[n]) \o <<q[o[n]]>> \o PartBelow(q, w, t.right[n])
         /\ PartBelow(q, w, n) \in Seq(V)
<1> DEFINE lo == w["left"][n]
           hi == w["right"][n]
           k == o[n]
           l == t.left[n]
           r == t.right[n]
<1>1. /\ k \in Int /\ lo \in Int /\ hi \in Int
      /\ IF l = nil THEN lo = k ELSE w["left"][l] = lo /\ w["right"][l] = k - 1
      /\ IF r = nil THEN hi = k ELSE w["right"][r] = hi /\ w["left"][r] = k + 1
  BY ReachFacts
<1>2. 1 <= lo /\ lo <= k /\ k <= hi /\ hi <= N
  BY ReachBounds
<1>3. n # nil
  BY WiredFacts
<1> HIDE DEF lo, hi, k, l, r
<1>4. lo \in 1..N /\ k \in lo..N /\ hi \in k..N
  BY <1>1, <1>2
<1>5. /\ SubSeq(q, lo, hi) = SubSeq(q, lo, k - 1) \o <<q[k]>> \o SubSeq(q, k + 1, hi)
      /\ SubSeq(q, lo, k - 1) \in Seq(V) /\ SubSeq(q, k + 1, hi) \in Seq(V) /\ q[k] \in V
  BY <1>4, Apart
<1>6. PartBelow(q, w, n) = SubSeq(q, lo, hi)
  BY <1>3 DEF PartBelow, lo, hi
<1>7. PartBelow(q, w, l) = SubSeq(q, lo, k - 1)
  <2>1. CASE l = nil
    <3>1. k - 1 < lo
      BY <1>1, <2>1
    <3>2. SubSeq(q, lo, k - 1) = <<>>
      BY <1>1, <3>1, SubSeqEmpty
    <3>3. QED
      BY <2>1, <3>2 DEF PartBelow
  <2>2. CASE l # nil
    BY <1>1, <2>2 DEF PartBelow
  <2>3. QED
    BY <2>1, <2>2
<1>8. PartBelow(q, w, r) = SubSeq(q, k + 1, hi)
  <2>1. CASE r = nil
    <3>1. hi < k + 1
      BY <1>1, <2>1
    <3>2. SubSeq(q, k + 1, hi) = <<>>
      BY <1>1, <3>1, SubSeqEmpty
    <3>3. QED
      BY <2>1, <3>2 DEF PartBelow
  <2>2. CASE r # nil
    BY <1>1, <2>2 DEF PartBelow
  <2>3. QED
    BY <2>1, <2>2
<1>9. PartBelow(q, w, n) = PartBelow(q, w, l) \o <<q[k]>> \o PartBelow(q, w, r)
  BY <1>5, <1>6, <1>7, <1>8, Zenon
<1>10. PartBelow(q, w, n) \in Seq(V)
  BY <1>4, <1>6
<1>11. QED
  BY <1>9, <1>10, Zenon DEF l, r, k

(* The walk comes by the nodes in the order of the list.                   *)
WalkIs(t, shown, s) == Walk(t, shown) = [i \in 1..Len(s) |-> shown[s[i]]]

(* That is: Walk collects the entries of the list, whatever is shown.      *)
LEMMA WalkListed ==
  ASSUME NEW t, NEW L \in SUBSET Nodes, Shaped(t, L),
         \A q \in Nodes \ L, d \in Sides : t[d][q] \in L \cup {nil},
         NEW s, Listed(t, L, s), NEW V, NEW shown \in [Nodes -> V]
  PROVE  WalkIs(t, shown, s)
<1> SUFFICES Walk(t, shown) = [i \in 1..Len(s) |-> shown[s[i]]]
  BY Zenon DEF WalkIs
<1>1. PICK o, w : Numbered(L, s, o) /\ Placed(t, L, o, w, Len(s))
  BY DEF Listed
<1>2. PICK N \in Nat : N = Len(s)
  BY <1>1 DEF Numbered
<1>3. /\ Placed(t, L, o, w, N) /\ s \in Seq(L) /\ DOMAIN s = 1..N
      /\ \A n \in L : o[n] \in 1..N /\ s[o[n]] = n
      /\ \A i \in 1..N : s[i] \in L
  BY <1>1, <1>2 DEF Numbered
<1> DEFINE q == [i \in 1..N |-> shown[s[i]]]
           B(n) == PartBelow(q, w, n)
           f == [n \in Nodes \cup {nil} |->
                   IF n = nil THEN <<>>
                   ELSE IF n \in L THEN B(n) ELSE B(t.left[n]) \o <<shown[n]>> \o B(t.right[n])]
           walk[n \in Nodes \cup {nil}] ==
             IF n = nil THEN <<>>
             ELSE walk[t.left[n]] \o <<shown[n]>> \o walk[t.right[n]]
<1>4. q \in Seq(V) /\ Len(q) = N
  <2>1. \A i \in 1..N : shown[s[i]] \in V
    BY <1>3
  <2>2. q \in [1..N -> V]
    BY <2>1
  <2>3. QED
    BY <2>2
<1>5. \A n \in L : q[o[n]] = shown[n]
  BY <1>3
<1>6. /\ nil \notin L /\ nil \notin Nodes
      /\ \A n \in Nodes : t.left[n] \in L \cup {nil} /\ t.right[n] \in L \cup {nil}
  BY WiredFacts, NodesAssumption DEF Sides
<1> HIDE DEF q
<1>7. \A n \in L : B(n) = B(t.left[n]) \o <<shown[n]>> \o B(t.right[n])
  <2>1. SUFFICES ASSUME NEW n \in L
                 PROVE B(n) = B(t.left[n]) \o <<shown[n]>> \o B(t.right[n])
    OBVIOUS
  <2>1a. Placed(t, L, o, w, N) /\ \A m \in L : o[m] \in 1..N
    BY <1>3
  <2>2. PartBelow(q, w, n) =
          PartBelow(q, w, t.left[n]) \o <<q[o[n]]>> \o PartBelow(q, w, t.right[n])
    BY <1>4, <2>1a, BelowSplits
  <2>3. q[o[n]] = shown[n]
    BY <1>5
  <2>4. QED
    BY <2>2, <2>3, Zenon
<1>8. B(nil) = <<>>
  BY DEF PartBelow
<1> HIDE DEF B
<1>9. \A n \in L \cup {nil} : f[n] = B(n)
  BY <1>6, <1>8, Zenon
<1>10. f = [n \in Nodes \cup {nil} |->
              IF n = nil THEN <<>> ELSE f[t.left[n]] \o <<shown[n]>> \o f[t.right[n]]]
  <2>1. \A n \in Nodes : f[n] = f[t.left[n]] \o <<shown[n]>> \o f[t.right[n]]
    <3>1. SUFFICES ASSUME NEW n \in Nodes
                   PROVE f[n] = f[t.left[n]] \o <<shown[n]>> \o f[t.right[n]]
      OBVIOUS
    <3>2. f[t.left[n]] = B(t.left[n]) /\ f[t.right[n]] = B(t.right[n])
      BY <1>6, <1>9, Zenon
    <3>3. f[n] = IF n \in L THEN B(n) ELSE B(t.left[n]) \o <<shown[n]>> \o B(t.right[n])
      BY <1>6, Zenon
    <3>4. QED
      BY <1>7, <3>2, <3>3, Zenon
  <2>2. f[nil] = <<>> /\ f = [n \in Nodes \cup {nil} |-> f[n]]
    BY Zenon
  <2> HIDE DEF f
  <2>3. QED
    BY <1>6, <2>1, <2>2
<1>11. walk = [n \in Nodes \cup {nil} |->
                 IF n = nil THEN <<>>
                 ELSE walk[t.left[n]] \o <<shown[n]>> \o walk[t.right[n]]]
  <2> HIDE DEF f
  <2>1. QED
    BY <1>10, Zenon
<1>12. Walk(t, shown) = walk[First(t)]
  BY DEF Walk
<1> HIDE DEF walk, f
<1>13. walk[nil] = <<>>
  BY <1>11, Zenon
<1>14. \A n \in Nodes : walk[n] = walk[t.left[n]] \o <<shown[n]>> \o walk[t.right[n]]
  BY <1>6, <1>11, Zenon
<1>15. \A n \in L : walk[n] = B(n)
  <2> DEFINE G == {n \in L : walk[n] = B(n)}
  <2>1. ASSUME NEW n \in L, \A d \in Sides : t[d][n] \in L => t[d][n] \in G
        PROVE  n \in G
    <3>1. /\ t.left[n] \in L => t.left[n] \in G
          /\ t.right[n] \in L => t.right[n] \in G
      <4>1. t["left"][n] = t.left[n] /\ t["right"][n] = t.right[n]
        OBVIOUS
      <4>2. QED
        BY <2>1, <4>1 DEF Sides
    <3>2. walk[t.left[n]] = B(t.left[n]) /\ walk[t.right[n]] = B(t.right[n])
      <4>1. \A m \in G \cup {nil} : walk[m] = B(m)
        BY <1>8, <1>13, Zenon
      <4>2. t.left[n] \in G \cup {nil} /\ t.right[n] \in G \cup {nil}
        BY <1>6, <3>1
      <4>3. QED
        BY <4>1, <4>2, Zenon
    <3>3. walk[n] = B(n)
      BY <1>7, <1>14, <3>2, Zenon
    <3>4. QED
      BY <3>3
  <2> HIDE DEF G
  <2>2. L \subseteq G
    BY <2>1, FromBelow
  <2>3. QED
    BY <2>2 DEF G
<1>16. walk[First(t)] = q
  <2>1. CASE First(t) = nil
    <3>1. N = 0
      BY <1>3, <2>1 DEF Placed
    <3>2. q = <<>>
      BY <1>4, <3>1
    <3>3. QED
      BY <1>13, <2>1, <3>2
  <2>2. CASE First(t) # nil
    <3>1. First(t) \in L
      BY <2>2, WiredFacts DEF First, Sides
    <3>2. w["left"][First(t)] = 1 /\ w["right"][First(t)] = N
      BY <1>3, <2>2 DEF Placed
    <3>3. B(First(t)) = SubSeq(q, 1, Len(q))
      BY <1>4, <2>2, <3>2 DEF B, PartBelow
    <3>4. SubSeq(q, 1, Len(q)) = q
      BY <1>4, SubSeqFull
    <3>5. QED
      BY <1>15, <3>1, <3>3, <3>4
  <2>3. QED
    BY <2>1, <2>2
<1>17. QED
  BY <1>2, <1>12, <1>16 DEF q

(***************************************************************************)
(* What the repairs leave alone: keys, and the place of each node.         *)
(***************************************************************************)
Bare(t) == \A d \in Sides : t[d][nil] = nil
Kept(t, u, L) ==
  /\ u.key = t.key
  /\ \A s : Listed(t, L, s) => Listed(u, L, s)
  /\ Bare(t) => Bare(u)

(* Nothing is lost by doing one such change after another.                 *)
LEMMA KeptChain ==
  ASSUME NEW t, NEW u, NEW v, NEW L, Kept(t, u, L), Kept(u, v, L) PROVE Kept(t, v, L)
BY Zenon DEF Kept

(* Doing nothing is such a change.                                         *)
LEMMA KeptSame == ASSUME NEW t, NEW L PROVE Kept(t, t, L)
BY Zenon DEF Kept

(* Colours do not matter to the list.                                      *)
LEMMA PaintKept ==
  ASSUME NEW t, NEW u, NEW L, Painted(t, u) PROVE Kept(t, u, L)
<1>1. /\ u.key = t.key /\ First(u) = First(t) /\ \A d \in Sides : u[d] = t[d]
  BY DEF Painted, First
<1>2. ASSUME NEW s, Listed(t, L, s) PROVE Listed(u, L, s)
  <2>1. PICK o, w : Numbered(L, s, o) /\ Placed(t, L, o, w, Len(s))
    BY <1>2 DEF Listed
  <2>2. Placed(u, L, o, w, Len(s))
    BY <1>1, <2>1, Zenon DEF Placed
  <2>3. QED
    BY <2>1, <2>2 DEF Listed
<1>3. Bare(t) => Bare(u)
  BY <1>1 DEF Bare
<1>4. QED
  BY <1>1, <1>2, <1>3, Zenon DEF Kept

(* A rotation does not touch the links of nil.                             *)
LEMMA RotateBare ==
  ASSUME NEW t, NEW L \in SUBSET Nodes, Shaped(t, L), NEW a \in Sides,
         NEW n \in L, NEW m \in L, m = t[Other(a)][n], NEW u, u = Rotate(t, a, n), Bare(t)
  PROVE  Bare(u)
<1> DEFINE p == t.parent[n]
<1>1. /\ L \subseteq All /\ nil \in All /\ nil \notin L /\ nil # root
      /\ p \in L \cup {root} /\ p # n /\ n # nil /\ m # nil /\ p # nil
      /\ Other(a) \in Sides /\ t \in Tree
  <2>1. Other(a) \in Sides
    BY DEF Sides, Other
  <2>2. t \in Tree /\ Wired(t, L)
    BY DEF Shaped
  <2>3. p \in L \cup {root}
    BY <2>2 DEF Wired
  <2>4. QED
    BY <2>1, <2>2, <2>3, WiredFacts
<1>2. m # n /\ p # m
  BY <1>1, WiredFacts
<1>3. PICK s \in Sides : t[s][p] = n /\ t[Other(s)][p] # n
  BY DEF Shaped, Wired
<1>4. Turned(t, u, a, s, n, m)
  BY <1>1, <1>2, <1>3, RotateEffect
<1>5. \A d \in Sides : u[d][nil] = t[d][nil]
  BY <1>1, <1>4 DEF Turned
<1>6. QED
  BY <1>5 DEF Bare

(* Nor do rotations matter.                                                *)
LEMMA RotateKept ==
  ASSUME NEW t, NEW L \in SUBSET Nodes, Shaped(t, L), NEW a \in Sides,
         NEW n \in L, NEW m \in L, m = t[Other(a)][n], NEW u, u = Rotate(t, a, n)
  PROVE  Kept(t, u, L)
<1>1. Rotated(t, u, L, a, n, m)
  BY RotateKeeps
<1>2. ASSUME NEW s, Listed(t, L, s) PROVE Listed(u, L, s)
  <2>1. PICK o, w : Numbered(L, s, o) /\ Placed(t, L, o, w, Len(s))
    BY <1>2 DEF Listed
  <2>2. PICK N : N = Len(s)
    OBVIOUS
  <2>3. Placed(t, L, o, w, N)
    BY <2>1, <2>2
  <2>4. PICK v : Placed(u, L, o, v, N)
    BY <1>1, <2>3, TurnPlaces
  <2>5. QED
    BY <2>1, <2>2, <2>4 DEF Listed
<1>3. Bare(t) => Bare(u)
  BY RotateBare
<1>4. u.key = t.key
  BY <1>1 DEF Rotated
<1>5. QED
  BY <1>2, <1>3, <1>4, Zenon DEF Kept

(* A rotation after a change of colours.                                   *)
LEMMA PaintRotateKept ==
  ASSUME NEW t, NEW L \in SUBSET Nodes, Shaped(t, L), NEW v, Painted(t, v), NEW a \in Sides,
         NEW n \in L, NEW m \in L, m = t[Other(a)][n], NEW u, u = Rotate(v, a, n)
  PROVE  Kept(t, u, L)
<1>1. Shaped(v, L) /\ Kept(t, v, L)
  BY PaintKeeps, PaintKept
<1>2. m = v[Other(a)][n]
  BY DEF Painted, Sides, Other
<1>3. Kept(v, u, L)
  BY <1>1, <1>2, RotateKept
<1>4. QED
  BY <1>1, <1>3, KeptChain

(* The three turns of RBDeleteFixUp.                                       *)
LEMMA SiblingUpKept ==
  ASSUME NEW t, NEW L \in SUBSET Nodes, NEW p, NEW a \in Sides, NEW k, Owes(t, L, p, a, k),
         NEW u, u = RedSiblingUp(t, a, p)
  PROVE  Kept(t, u, L)
<1> DEFINE w == t[Other(a)][p]
           v == [t EXCEPT !.red[w] = FALSE, !.red[p] = TRUE]
<1>1. /\ w \in L /\ p \in L /\ Shaped(t, L)
  BY SiblingExists DEF Owes
<1>2. CASE t.red[w]
  <2>1. t \in Tree /\ w \in All /\ p \in All
    BY <1>1, WiredFacts DEF Shaped
  <2>2. Painted(t, v)
    BY <2>1 DEF Painted, Tree, Sides
  <2>3. u = Rotate(v, a, p)
    BY <1>2 DEF RedSiblingUp
  <2> HIDE DEF v
  <2>4. QED
    BY <1>1, <2>2, <2>3, PaintRotateKept
<1>3. CASE ~t.red[w]
  BY <1>3, KeptSame DEF RedSiblingUp
<1>4. QED
  BY <1>2, <1>3

(* RedOutside only paints and rotates.                                     *)
LEMMA OutsideRedKept ==
  ASSUME NEW t, NEW L \in SUBSET Nodes, NEW p, NEW a \in Sides, NEW k, Owes(t, L, p, a, k),
         NEW w, w \in L, t.red[t.left[w]] \/ t.red[t.right[w]],
         NEW u, u = RedOutside(t, a, w)
  PROVE  Kept(t, u, L)
<1> DEFINE b == Other(a)
           m == t[a][w]
           v == [t EXCEPT !.red[m] = FALSE, !.red[w] = TRUE]
<1>1. /\ Shaped(t, L) /\ ~t.red[nil] /\ b \in Sides /\ Other(b) = a
      /\ t.left[w] = t["left"][w] /\ t.right[w] = t["right"][w]
  BY DEF Owes, Sentinels, Sides, Other
<1>2. CASE ~t.red[t[b][w]]
  <2>1. t.red[m]
    BY <1>1, <1>2 DEF Sides, Other
  <2>2. m \in L
    <3>1. m \in L \cup {nil}
      BY <1>1, WiredFacts
    <3>2. QED
      BY <1>1, <2>1, <3>1
  <2>3. t \in Tree /\ w \in All /\ m \in All
    BY <1>1, <2>2, WiredFacts DEF Shaped
  <2>4. u = Rotate(v, b, w)
    BY <1>2 DEF RedOutside
  <2>5. m = t[Other(b)][w]
    BY <1>1
  <2> HIDE DEF m, b
  <2>6. Painted(t, v)
    BY <2>3 DEF Painted, Tree, Sides
  <2> HIDE DEF v
  <2>7. QED
    BY <1>1, <2>2, <2>4, <2>5, <2>6, PaintRotateKept
<1>3. CASE t.red[t[b][w]]
  BY <1>3, KeptSame DEF RedOutside
<1>4. QED
  BY <1>2, <1>3

(* So does the last rotation of a deletion's repair.                       *)
LEMMA LastTurnKept ==
  ASSUME NEW t, NEW L \in SUBSET Nodes, NEW p, NEW a \in Sides, NEW k, Owes(t, L, p, a, k),
         NEW w, w = t[Other(a)][p], w \in L, NEW o \in L,
         NEW u, u = Rotate(Repaid(t, p, w, o), a, p)
  PROVE  Kept(t, u, L)
<1> DEFINE v == Repaid(t, p, w, o)
<1>1. Shaped(t, L) /\ p \in L
  BY DEF Owes
<1>2. t \in Tree /\ w \in All /\ p \in All /\ o \in All
  BY <1>1, WiredFacts DEF Shaped
<1>3. Painted(t, v)
  BY <1>2 DEF Painted, Tree, Sides, Repaid
<1> HIDE DEF v
<1>4. u = Rotate(v, a, p)
  BY DEF v
<1>5. QED
  BY <1>1, <1>3, <1>4, PaintRotateKept

(* An iteration of RBDeleteFixUp.                                          *)
LEMMA RepaidKept ==
  ASSUME NEW t, NEW L \in SUBSET Nodes, NEW p, NEW a \in Sides, NEW k, Owes(t, L, p, a, k),
         HasRedNephew(t, a, p), NEW s, s = RepaidTree(t, a, p)
  PROVE  Kept(t, s, L)
<1>1. PICK t1 : t1 = RedSiblingUp(t, a, p)
  OBVIOUS
<1>2. PICK w : w = t1[Other(a)][p]
  OBVIOUS
<1>3. PICK u : u = RedOutside(t1, a, w)
  OBVIOUS
<1>4. PICK v : v = u[Other(a)][p]
  OBVIOUS
<1>5. PICK o : o = u[Other(a)][v]
  OBVIOUS
<1>6. /\ t1.red[t1.left[w]] \/ t1.red[t1.right[w]]
      /\ s = Rotate(Repaid(u, p, v, o), a, p)
  BY ZenonT(40), <1>1, <1>2, <1>3, <1>4, <1>5 DEF HasRedNephew, RepaidTree
<1>7. Owes(t1, L, p, a, k) /\ w \in L /\ ~t1.red[w] /\ Kept(t, t1, L)
  <2>1. BlackSibling(t, t1, L, p, a, k) /\ Kept(t, t1, L)
    BY <1>1, SiblingUp, SiblingUpKept
  <2>2. QED
    BY <1>2, <2>1, Zenon DEF BlackSibling
<1>8. Owes(u, L, p, a, k) /\ v \in L /\ o \in L /\ Kept(t1, u, L)
  <2>1. RedNephew(t1, u, L, p, a, k)
    BY <1>2, <1>3, <1>6, <1>7, OutsideRed
  <2>2. Kept(t1, u, L)
    BY <1>3, <1>6, <1>7, OutsideRedKept
  <2>3. QED
    BY <1>4, <1>5, <2>1, <2>2, Zenon DEF RedNephew
<1>9. Kept(u, s, L)
  BY <1>4, <1>6, <1>8, LastTurnKept
<1>10. Kept(t, u, L)
  BY <1>7, <1>8, KeptChain
<1>11. QED
  BY <1>9, <1>10, KeptChain

(* FixUpSibling paints one node more.                                      *)
LEMMA SiblingKept ==
  ASSUME NEW t, NEW L \in SUBSET Nodes, NEW p, NEW a \in Sides, NEW k, Owes(t, L, p, a, k),
         NEW u, u = RedSiblingUp(t, a, p), NEW w, w = u[Other(a)][p],
         NEW v, v = [u EXCEPT !.red[w] = TRUE]
  PROVE  Kept(t, v, L)
<1>1. BlackSibling(t, u, L, p, a, k) /\ Kept(t, u, L)
  BY SiblingUp, SiblingUpKept
<1>2. Shaped(u, L) /\ w \in L
  BY <1>1 DEF BlackSibling, Owes
<1>3. u \in Tree /\ w \in All
  BY <1>2, WiredFacts DEF Shaped
<1>4. Painted(u, v)
  BY <1>3 DEF Painted, Tree, Sides
<1>5. Kept(u, v, L)
  BY <1>4, PaintKept
<1>6. QED
  BY <1>1, <1>5, KeptChain

(***************************************************************************)
(* What RedBlackTree shows of its tree.                                    *)
(***************************************************************************)
(* The entries of the nodes, that of m for c.                              *)
Seen(t, c, m) ==
  [n \in Nodes |-> LET k == IF n = c THEN m ELSE n IN [id |-> k, key |-> t.key[k]]]
Pictured(t, c, m, s) == [i \in 1..Len(s) |-> Seen(t, c, m)[s[i]]]

(* The list can be read off the positions.                                 *)
LEMMA WalkPictured ==
  ASSUME NEW t, NEW L \in SUBSET Nodes, Shaped(t, L),
         \A q \in Nodes \ L, d \in Sides : t[d][q] \in L \cup {nil},
         NEW s, Listed(t, L, s), NEW c, NEW m
  PROVE  Walk(t, Seen(t, c, m)) = Pictured(t, c, m, s)
<1>1. PICK shown : shown = Seen(t, c, m)
  OBVIOUS
<1>2. PICK V : V = {shown[n] : n \in Nodes}
  OBVIOUS
<1>3. shown \in [Nodes -> V]
  <2>1. shown = [n \in Nodes |-> shown[n]]
    BY <1>1, Zenon DEF Seen
  <2>2. QED
    BY <1>2, <2>1
<1>4. Walk(t, shown) = [i \in 1..Len(s) |-> shown[s[i]]]
  <2>1. WalkIs(t, shown, s)
    BY <1>3, WalkListed
  <2>2. QED
    BY <2>1, Zenon DEF WalkIs
<1>5. QED
  BY <1>1, <1>4, Zenon DEF Pictured

(* What lies outside the tree leads into it or nowhere.                    *)
LEMMA AroundTree ==
  ASSUME RbtInv, pc # "destroyed"
  PROVE  /\ Linked \in SUBSET Nodes /\ Shaped(tree, Linked)
         /\ \A q \in Nodes \ Linked, d \in Sides : tree[d][q] \in Linked \cup {nil}
         /\ z \notin Nodes \/ Deleting
<1>1. live \in SUBSET Nodes /\ Linked \in SUBSET Nodes /\ (z \notin Nodes \/ Deleting)
  BY NodesAssumption DEF RbtInv, RbtTypeOK, Linked
<1>2. Shaped(tree, Linked) /\ Tidy
  BY DEF RbtInv, Sound
<1>3. ASSUME NEW q \in Nodes \ Linked, NEW d \in Sides PROVE tree[d][q] \in Linked \cup {nil}
  <2>1. q \notin live \/ (Deleting /\ q = y)
    BY DEF Linked
  <2>2. CASE q \notin live
    BY <1>2, <2>2 DEF Tidy
  <2>3. CASE Deleting /\ q = y
    BY <1>2, <2>3 DEF Tidy
  <2>4. QED
    BY <2>1, <2>2, <2>3
<1>4. QED
  BY <1>1, <1>2, <1>3

(* Shown is the picture of the tree's list.                                *)
LEMMA ShownNow ==
  ASSUME RbtInv, pc # "destroyed", NEW s, Listed(tree, Linked, s)
  PROVE  Shown = Pictured(tree, z, y, s)
<1>1. Shown = Walk(tree, Seen(tree, z, y))
  <2>1. [n \in Nodes |-> Entry(IF Deleting /\ n = z THEN y ELSE n)] = Seen(tree, z, y)
    BY AroundTree DEF Seen, Entry
  <2>2. QED
    BY <2>1, Zenon DEF Shown
<1>2. PICK t : t = tree
  OBVIOUS
<1>3. PICK L : L = Linked
  OBVIOUS
<1>4. /\ L \in SUBSET Nodes /\ Shaped(t, L) /\ Listed(t, L, s)
      /\ \A q \in Nodes \ L, d \in Sides : t[d][q] \in L \cup {nil}
  BY <1>2, <1>3, AroundTree
<1>5. Walk(t, Seen(t, z, y)) = Pictured(t, z, y, s)
  BY <1>4, WalkPictured
<1>6. QED
  BY <1>1, <1>2, <1>5

(* The same of the next state.                                             *)
LEMMA AroundTreeNext ==
  ASSUME RbtInv', pc' # "destroyed"
  PROVE  /\ Linked' \in SUBSET Nodes /\ Shaped(tree', Linked')
         /\ \A q \in Nodes \ Linked', d \in Sides : tree'[d][q] \in Linked' \cup {nil}
         /\ z' \notin Nodes \/ Deleting'
<1>1. live' \in SUBSET Nodes /\ Linked' \in SUBSET Nodes /\ (z' \notin Nodes \/ Deleting')
  BY NodesAssumption DEF RbtInv, RbtTypeOK, Linked
<1>2. Shaped(tree', Linked') /\ Tidy'
  BY DEF RbtInv, Sound
<1>3. ASSUME NEW q \in Nodes \ Linked', NEW d \in Sides PROVE tree'[d][q] \in Linked' \cup {nil}
  <2>1. q \notin live' \/ (Deleting' /\ q = y')
    BY DEF Linked
  <2>2. CASE q \notin live'
    BY <1>2, <2>2 DEF Tidy
  <2>3. CASE Deleting' /\ q = y'
    BY <1>2, <2>3 DEF Tidy
  <2>4. QED
    BY <2>1, <2>2, <2>3
<1>4. QED
  BY <1>1, <1>2, <1>3

(* And so it is in the next state.                                         *)
LEMMA ShownNext ==
  ASSUME RbtInv', pc' # "destroyed", NEW s, Listed(tree', Linked', s)
  PROVE  Shown' = Pictured(tree', z', y', s)
<1>1. Shown' = Walk(tree', Seen(tree', z', y'))
  <2>1. [n \in Nodes |-> Entry(IF Deleting /\ n = z THEN y ELSE n)]' = Seen(tree', z', y')
    BY AroundTreeNext DEF Seen, Entry
  <2>2. QED
    BY <2>1, Zenon DEF Shown
<1>2. PICK t : t = tree'
  OBVIOUS
<1>3. PICK L : L = Linked'
  OBVIOUS
<1>4. /\ L \in SUBSET Nodes /\ Shaped(t, L) /\ Listed(t, L, s)
      /\ \A q \in Nodes \ L, d \in Sides : t[d][q] \in L \cup {nil}
  BY <1>2, <1>3, AroundTreeNext
<1>5. Walk(t, Seen(t, z', y')) = Pictured(t, z', y', s)
  BY <1>4, WalkPictured
<1>6. QED
  BY <1>1, <1>2, <1>5

(***************************************************************************)
(* The steps that leave the list as it is.                                 *)
(***************************************************************************)
Unseen ==
  /\ \A s : Listed(tree, Linked, s) => Listed(tree', Linked', s) /\ Shown' = Shown
  /\ Bare(tree) => Bare(tree')

(* A step that keeps the places keeps the list.                            *)
LEMMA KeptStep ==
  ASSUME RbtInv, RbtInv', pc # "destroyed", pc' # "destroyed",
         Kept(tree, tree', Linked), Linked' = Linked, z' = z, y' = y
  PROVE  Unseen
<1>1. SUFFICES ASSUME NEW s, Listed(tree, Linked, s)
               PROVE  Listed(tree', Linked', s) /\ Shown' = Shown
  BY Zenon DEF Unseen, Kept
<1>2. Listed(tree', Linked', s) /\ tree'.key = tree.key
  BY <1>1 DEF Kept
<1>3. Shown = Pictured(tree, z, y, s) /\ Shown' = Pictured(tree', z', y', s)
  BY <1>1, <1>2, ShownNow, ShownNext
<1>4. Seen(tree', z, y) = Seen(tree, z, y)
  BY <1>2, Zenon DEF Seen
<1>5. Pictured(tree', z', y', s) = Pictured(tree, z, y, s)
  BY <1>4, Zenon DEF Pictured
<1>6. QED
  BY <1>2, <1>3, <1>5

(* The repairs do not show, one lemma for each of their steps.             *)
LEMMA RecolourUnseen ==
  ASSUME RbtInv, RbtInv', InsertRecolour PROVE Unseen
<1> DEFINE p == tree.parent[x]
           g == tree.parent[p]
           w == tree[Other(SideOf(tree, p))][g]
<1>1. /\ pc = "insert" /\ tree.red[p] /\ tree' = Recoloured(tree, p, w, g)
      /\ live' = live /\ pc' = pc /\ y' = y /\ z' = z
  BY Zenon DEF InsertRecolour, Recoloured, locals
<1>2. Rising(tree, live, SideOf(tree, p), x, p, g)
  BY <1>1, InsertFacts
<1>3. live \in SUBSET Nodes /\ Linked = live
  BY <1>1, IdleFacts
<1>4. tree \in Tree /\ p \in All /\ g \in All /\ w \in All
  BY <1>2, <1>3, WiredFacts DEF Rising, Shaped, Sides, Other
<1>5. PICK a, b, c : a = p /\ b = w /\ c = g
  OBVIOUS
<1> HIDE DEF p, g, w
<1>6. Painted(tree, tree')
  <2>1. tree' = Recoloured(tree, a, b, c) /\ a \in All /\ b \in All /\ c \in All
    BY <1>1, <1>4, <1>5
  <2>2. QED
    BY <1>4, <2>1 DEF Painted, Tree, Sides, Recoloured
<1>7. Linked' = Linked
  BY <1>1 DEF Linked, Deleting
<1>8. QED
  BY <1>1, <1>6, <1>7, PaintKept, KeptStep

LEMMA InsertDoneUnseen ==
  ASSUME RbtInv, RbtInv', InsertDone PROVE Unseen
<1>1. /\ pc = "insert" /\ tree' = [tree EXCEPT !.red[First(tree)] = FALSE]
      /\ live' = live /\ pc' = "idle" /\ y' = y /\ z' = z
  BY DEF InsertDone, locals
<1>2. live \in SUBSET Nodes /\ Linked = live /\ Shaped(tree, live)
  BY <1>1, IdleFacts
<1>3. tree \in Tree /\ First(tree) \in All
  BY <1>2, WiredFacts DEF Shaped, First, Sides
<1>4. Painted(tree, tree')
  BY <1>1, <1>3 DEF Painted, Tree, Sides
<1>5. Linked' = Linked
  BY <1>1 DEF Linked, Deleting
<1>6. QED
  BY <1>1, <1>4, <1>5, PaintKept, KeptStep

LEMMA FixUpDoneUnseen ==
  ASSUME RbtInv, RbtInv', FixUpDone PROVE Unseen
<1>1. /\ pc = "fixup" /\ tree' = [tree EXCEPT !.red[x] = FALSE]
      /\ live' = live /\ pc' = "replace" /\ y' = y /\ z' = z
  BY DEF FixUpDone, locals
<1>2. tree \in Tree /\ x \in All
  BY DEF RbtInv, RbtTypeOK, Tree
<1>3. Painted(tree, tree')
  BY <1>1, <1>2 DEF Painted, Tree, Sides
<1>4. Linked' = Linked
  BY <1>1 DEF Linked, Deleting
<1>5. QED
  BY <1>1, <1>3, <1>4, PaintKept, KeptStep

(* The last rotation of an insertion, and the one before it.               *)
LEMMA TurnKept ==
  ASSUME NEW t, NEW L \in SUBSET Nodes, NEW a, NEW m, NEW p, NEW g, Rising(t, L, a, m, p, g),
         NEW u, u = Turn(t, Other(a), p, g)
  PROVE  Kept(t, u, L)
<1> DEFINE v == [t EXCEPT !.red[p] = FALSE, !.red[g] = TRUE]
<1>1. /\ Shaped(t, L) /\ t[a][g] = p /\ p \in L /\ g \in L
      /\ Other(a) \in Sides /\ Other(Other(a)) = a
  BY DEF Rising, Sides, Other
<1>2. t \in Tree /\ p \in All /\ g \in All
  BY <1>1, WiredFacts DEF Shaped
<1>3. Painted(t, v)
  BY <1>2 DEF Painted, Tree, Sides
<1>4. u = Rotate(v, Other(a), g)
  BY DEF Turn
<1> HIDE DEF v
<1>5. PICK b : b = Other(a)
  OBVIOUS
<1>6. b \in Sides /\ p = t[Other(b)][g] /\ u = Rotate(v, b, g)
  BY <1>1, <1>4, <1>5
<1>7. QED
  BY <1>1, <1>3, <1>6, PaintRotateKept

LEMMA InsertRotateUnseen ==
  ASSUME RbtInv, RbtInv', InsertRotate PROVE Unseen
<1> DEFINE p == tree.parent[x]
           g == tree.parent[p]
           a == SideOf(tree, p)
           s == Outward(tree, a, x)
           q == s.tree.parent[s.x]
           h == s.tree.parent[q]
<1>1. /\ pc = "insert" /\ tree.red[p] /\ tree' = Turn(s.tree, Other(a), q, h)
      /\ live' = live /\ pc' = "insert" /\ y' = y /\ z' = z
  BY Zenon DEF InsertRotate, locals, Turn
<1>2. Rising(tree, live, a, x, p, g)
  BY <1>1, InsertFacts, Zenon
<1>3. /\ live \in SUBSET Nodes /\ Linked = live
  BY <1>1, IdleFacts, Zenon
<1>4. PICK t : t = s.tree
  OBVIOUS
<1>5. PICK m : m = s.x
  OBVIOUS
<1>6. Rising(t, live, a, m, q, h) /\ Kept(tree, t, live)
  <2>1. SideOf(tree, x) \in Sides /\ tree[SideOf(tree, x)][p] = x
    <3>1. Wired(tree, live) /\ x \in live
      BY <1>2 DEF Rising, Shaped
    <3>2. QED
      BY <3>1, SideOfFacts
  <2>2. CASE SideOf(tree, x) = a
    <3>1. s = [tree |-> tree, x |-> x]
      BY <2>2 DEF Outward
    <3>2. t = tree /\ m = x
      BY <1>4, <1>5, <3>1
    <3>3. q = p /\ h = g
      BY <1>2, <1>4, <1>5, <3>2 DEF Rising
    <3> HIDE DEF s, q, h, p, g, a
    <3>4. QED
      BY <1>2, <3>2, <3>3, KeptSame
  <2>3. CASE SideOf(tree, x) # a
    <3>1. s = [tree |-> Rotate(tree, a, p), x |-> p]
      BY <2>3 DEF Outward
    <3>2. t = Rotate(tree, a, p) /\ m = p
      BY <1>4, <1>5, <3>1
    <3>3. q = t.parent[m] /\ h = t.parent[q]
      BY <1>4, <1>5
    <3> HIDE DEF s, q, h, p, g, a
    <3>4. tree[Other(a)][p] = x /\ a \in Sides /\ x \in live /\ p \in live /\ Shaped(tree, live)
      BY <1>2, <2>1, <2>3 DEF Rising, Sides, Other
    <3>5. Rising(t, live, a, p, x, g)
      BY <1>2, <1>3, <3>2, <3>4, OutwardKeeps
    <3>6. q = x /\ h = g
      BY <3>2, <3>3, <3>5 DEF Rising
    <3>7. Kept(tree, t, live)
      BY <1>3, <3>2, <3>4, RotateKept
    <3>8. QED
      BY <3>2, <3>5, <3>6, <3>7
  <2>4. QED
    BY <2>2, <2>3, Zenon
<1>7. tree' = Turn(t, Other(a), q, h)
  BY <1>1, <1>4, Zenon
<1> HIDE DEF s, q, h, p, g, a
<1>8. Kept(t, tree', live)
  BY <1>3, <1>6, <1>7, TurnKept
<1>9. Kept(tree, tree', Linked) /\ Linked' = Linked
  BY <1>1, <1>3, <1>6, <1>8, KeptChain DEF Linked, Deleting
<1>10. QED
  BY <1>1, <1>9, KeptStep

LEMMA FixUpSiblingUnseen ==
  ASSUME RbtInv, RbtInv', FixUpSibling PROVE Unseen
<1> DEFINE a == SideOf(tree, x)
           u == RedSiblingUp(tree, a, tree.parent[x])
           w == u[Other(a)][u.parent[x]]
<1>1. /\ Climbing /\ pc = "fixup" /\ tree' = [u EXCEPT !.red[w] = TRUE]
      /\ live' = live /\ pc' = "fixup" /\ y' = y /\ z' = z
  BY Zenon DEF FixUpSibling, Climbing, locals
<1>2. PICK t : t = tree
  OBVIOUS
<1>3. PICK p : p = tree.parent[x]
  OBVIOUS
<1>4. PICK L : L = Linked
  OBVIOUS
<1>5. PICK k : k = x
  OBVIOUS
<1>6. Owes(t, L, p, a, k) /\ L = live \ {y} /\ live \in SUBSET Nodes
  BY <1>1, <1>2, <1>3, <1>4, <1>5, ClimbFacts, Zenon
<1>7. L \in SUBSET Nodes /\ a \in Sides
  BY <1>6 DEF SideOf, Sides
<1>8. PICK v : v = tree'
  OBVIOUS
<1>9. u = RedSiblingUp(t, a, p)
  BY <1>2, <1>3
<1> HIDE DEF a, u
<1>10. Owes(u, L, p, a, k)
  <2>1. BlackSibling(t, u, L, p, a, k)
    BY <1>6, <1>7, <1>9, SiblingUp
  <2>2. QED
    BY <2>1, Zenon DEF BlackSibling
<1>11. w = u[Other(a)][p]
  BY <1>5, <1>10, Zenon DEF Owes
<1>12. v = [u EXCEPT !.red[w] = TRUE]
  BY <1>1, <1>8
<1> HIDE DEF w
<1>13. Kept(t, v, L)
  BY <1>6, <1>7, <1>9, <1>11, <1>12, SiblingKept
<1>14. Linked' = Linked
  BY <1>1 DEF Linked, Deleting
<1>15. QED
  BY <1>1, <1>2, <1>4, <1>8, <1>13, <1>14, KeptStep

LEMMA FixUpRotateUnseen ==
  ASSUME RbtInv, RbtInv', FixUpRotate PROVE Unseen
<1> DEFINE a == SideOf(tree, x)
           t1 == RedSiblingUp(tree, a, tree.parent[x])
           w == t1[Other(a)][t1.parent[x]]
           u == RedOutside(t1, a, w)
           v == u[Other(a)][u.parent[x]]
           o == u[Other(a)][v]
<1>1. /\ Climbing /\ pc = "fixup" /\ (t1.red[t1.left[w]] \/ t1.red[t1.right[w]])
      /\ tree' = Rotate(Repaid(u, u.parent[x], v, o), a, u.parent[x])
      /\ live' = live /\ pc' = "fixup" /\ y' = y /\ z' = z
  BY Zenon DEF FixUpRotate, Climbing, locals, Repaid
<1>2. PICK t : t = tree
  OBVIOUS
<1>3. PICK p : p = tree.parent[x]
  OBVIOUS
<1>4. PICK L : L = Linked
  OBVIOUS
<1>5. PICK k : k = x
  OBVIOUS
<1>6. Owes(t, L, p, a, k) /\ L = live \ {y} /\ live \in SUBSET Nodes
  BY <1>1, <1>2, <1>3, <1>4, <1>5, ClimbFacts, Zenon
<1>7. L \in SUBSET Nodes /\ a \in Sides
  BY <1>6 DEF SideOf, Sides
<1>8. PICK s : s = tree'
  OBVIOUS
<1>9. t1 = RedSiblingUp(t, a, p)
  BY <1>2, <1>3
<1>10. u = RedOutside(t1, a, w)
  OBVIOUS
<1>11. /\ s = Rotate(Repaid(u, u.parent[x], v, o), a, u.parent[x])
       /\ t1.red[t1.left[w]] \/ t1.red[t1.right[w]]
  BY <1>1, <1>8, Zenon
<1> HIDE DEF a, t1, u
<1>12. Owes(t1, L, p, a, k) /\ t1[Other(a)][p] \in L /\ ~t1.red[t1[Other(a)][p]]
  <2>1. BlackSibling(t, t1, L, p, a, k)
    BY <1>6, <1>7, <1>9, SiblingUp
  <2>2. QED
    BY <2>1, Zenon DEF BlackSibling
<1>13. w = t1[Other(a)][p]
  BY <1>5, <1>12, Zenon DEF Owes
<1> HIDE DEF w
<1>14. Owes(u, L, p, a, k)
  <2>1. w \in L /\ ~t1.red[w]
    BY <1>12, <1>13
  <2>2. RedNephew(t1, u, L, p, a, k)
    BY <1>7, <1>10, <1>11, <1>12, <1>13, <2>1, OutsideRed, Zenon
  <2>3. QED
    BY <2>2, Zenon DEF RedNephew
<1>15. u.parent[x] = p
  BY <1>5, <1>14, Zenon DEF Owes
<1>16. v = u[Other(a)][p] /\ o = u[Other(a)][v]
  BY <1>15, Zenon
<1> HIDE DEF v, o
<1>17. s = RepaidTree(t, a, p) /\ HasRedNephew(t, a, p)
  BY <1>9, <1>10, <1>11, <1>13, <1>15, <1>16, Zenon DEF RepaidTree, HasRedNephew
<1>18. Kept(t, s, L)
  BY <1>6, <1>7, <1>17, RepaidKept
<1>19. Linked' = Linked
  BY <1>1 DEF Linked, Deleting
<1>20. QED
  BY <1>1, <1>2, <1>4, <1>8, <1>18, <1>19, KeptStep

(***************************************************************************)
(* Insertion.                                                              *)
(***************************************************************************)
(* A way down that does not leave G ends in G.                             *)
LEMMA DownStays ==
  ASSUME NEW t, NEW L \in SUBSET Nodes, Shaped(t, L), NEW dir \in [Nodes -> Sides],
         NEW g, Down(t, dir, g), NEW G \in SUBSET L,
         \A m \in G : t[dir[m]][m] # nil => t[dir[m]][m] \in G
  PROVE  \A m \in G : g[m] \in G /\ t[dir[g[m]]][g[m]] = nil
<1> DEFINE H == {m \in L : m \in G => g[m] \in G /\ t[dir[g[m]]][g[m]] = nil}
<1>1. ASSUME NEW n \in L, \A s \in Sides : t[s][n] \in L => t[s][n] \in H
      PROVE  n \in H
  <2>1. SUFFICES ASSUME n \in G PROVE g[n] \in G /\ t[dir[g[n]]][g[n]] = nil
    OBVIOUS
  <2>2. n \in Nodes /\ dir[n] \in Sides
    OBVIOUS
  <2>3. g[n] = IF t[dir[n]][n] = nil THEN n ELSE g[t[dir[n]][n]]
    BY <2>2, Zenon DEF Down
  <2>4. t[dir[n]][n] # nil => t[dir[n]][n] \in G /\ t[dir[n]][n] \in H
    BY <1>1, <2>1, <2>2
  <2>5. QED
    BY <2>1, <2>3, <2>4
<1> HIDE DEF H
<1>2. L \subseteq H
  BY <1>1, FromBelow
<1>3. QED
  BY <1>2 DEF H

(* TreeInsertHelp does not leave G either.                                 *)
LEMMA PlaceStays ==
  ASSUME NEW t, NEW L \in SUBSET Nodes, Shaped(t, L),
         \A q \in Nodes \ L, d \in Sides : t[d][q] = nil, NEW k, NEW p, p = InsertPlace(t, k),
         NEW G \in SUBSET L, First(t) \in G,
         \A m \in G : t[Below(t, m, k)][m] # nil => t[Below(t, m, k)][m] \in G
  PROVE  p \in G /\ t[Below(t, p, k)][p] = nil
<1> DEFINE dir == [m \in Nodes |-> Below(t, m, k)]
           go[m \in Nodes] ==
             LET c == t[Below(t, m, k)][m] IN IF c = nil THEN m ELSE go[c]
<1>1. dir \in [Nodes -> Sides] /\ \A m \in Nodes : dir[m] = Below(t, m, k)
  BY DEF Below, Sides
<1>2. \E g : Down(t, dir, g)
  BY <1>1, DownExists
<1>3. Down(t, dir, go)
  <2>1. PICK g : Down(t, dir, g)
    BY <1>2, Zenon
  <2>2. g = [m \in Nodes |-> LET c == t[Below(t, m, k)][m] IN IF c = nil THEN m ELSE g[c]]
    BY SMTT(30), <2>1 DEF Down
  <2>3. go = [m \in Nodes |-> LET c == t[Below(t, m, k)][m] IN IF c = nil THEN m ELSE go[c]]
    BY <2>2
  <2> HIDE DEF go
  <2>4. QED
    BY <2>3 DEF Down
<1>4. First(t) # nil
  BY WiredFacts
<1>5. p = go[First(t)]
  BY <1>4 DEF InsertPlace
<1> HIDE DEF go, dir
<1>6. \A m \in G : t[dir[m]][m] # nil => t[dir[m]][m] \in G
  BY <1>1
<1>7. p \in G /\ t[dir[p]][p] = nil
  BY <1>1, <1>3, <1>5, <1>6, DownStays
<1>8. QED
  BY <1>1, <1>7

(* The keys of the list s grow.                                            *)
Ascends(t, s, N) == \A i, j \in 1..N : i <= j => t.key[s[i]] <= t.key[s[j]]

(* The free place is behind all whose key is not greater.                  *)
Behind(t, s, k, g, N) == \A j \in 1..N : t.key[s[j]] <= k <=> j < g

(* TreeInsertHelp ends behind all nodes whose key is not greater: it never *)
(* leaves the nodes between whose reaches k belongs.                       *)
LEMMA PlaceInList ==
  ASSUME NEW t, NEW L \in SUBSET Nodes, Shaped(t, L),
         \A q \in Nodes \ L, d \in Sides : t[d][q] = nil,
         NEW o, NEW w, NEW s, NEW N \in Nat, Len(s) = N,
         Numbered(L, s, o), Placed(t, L, o, w, N), Ascends(t, s, N), NEW k \in Int,
         NEW p, p = InsertPlace(t, k), NEW a, a = (IF p = root THEN "left" ELSE Below(t, p, k))
  PROVE  Behind(t, s, k, Gap(o, p, a), N)
<1>1. CASE First(t) = nil
  <2>1. N = 0
    BY <1>1 DEF Placed
  <2>2. QED
    BY <2>1 DEF Behind
<1>2. CASE First(t) # nil
  <2> DEFINE lo(m) == w["left"][m]
             hi(m) == w["right"][m]
             G == {m \in L : \A j \in 1..N : /\ j < lo(m) => t.key[s[j]] <= k
                                             /\ j > hi(m) => ~(t.key[s[j]] <= k)}
  <2>1. \A m \in L : /\ o[m] \in Int /\ lo(m) \in Int /\ hi(m) \in Int
                     /\ IF t.left[m] = nil THEN lo(m) = o[m]
                        ELSE lo(t.left[m]) = lo(m) /\ hi(t.left[m]) = o[m] - 1
                     /\ IF t.right[m] = nil THEN hi(m) = o[m]
                        ELSE hi(t.right[m]) = hi(m) /\ lo(t.right[m]) = o[m] + 1
    BY ReachFacts
  <2>2. First(t) \in L /\ lo(First(t)) = 1 /\ hi(First(t)) = N
    BY <1>2, WiredFacts DEF Placed, First, Sides
  <2>3. First(t) \in G
    BY <2>2
  <2>4. /\ \A m \in L : o[m] \in 1..N /\ s[o[m]] = m /\ t.key[m] \in Int
        /\ \A j \in 1..N : s[j] \in L /\ t.key[s[j]] \in Int
    <3>1. s \in [1..N -> L]
      BY DEF Numbered
    <3>2. \A m \in L : o[m] \in 1..N /\ s[o[m]] = m /\ t.key[m] \in Int
      BY DEF Numbered, Shaped, Tree, All
    <3>3. QED
      BY <3>1, <3>2
  <2>5. \A m \in L, j \in 1..N : /\ j <= o[m] => t.key[s[j]] <= t.key[m]
                                 /\ j >= o[m] => t.key[m] <= t.key[s[j]]
    BY <2>4 DEF Ascends
  <2>6. ASSUME NEW m \in L, t.key[m] > k
        PROVE  Below(t, m, k) = "left" /\ \A j \in 1..N : j >= o[m] => ~(t.key[s[j]] <= k)
    BY <2>4, <2>5, <2>6 DEF Below, Greater
  <2>7. ASSUME NEW m \in L, ~(t.key[m] > k)
        PROVE  Below(t, m, k) = "right" /\ \A j \in 1..N : j <= o[m] => t.key[s[j]] <= k
    BY <2>4, <2>5, <2>7 DEF Below, Greater
  <2>8. \A m \in L, d \in Sides : t[d][m] # nil => t[d][m] \in L
    BY WiredFacts
  <2> HIDE DEF lo, hi
  <2>9. ASSUME NEW m \in G, t[Below(t, m, k)][m] # nil PROVE t[Below(t, m, k)][m] \in G
    <3>0. m \in L /\ \A j \in 1..N : /\ j < lo(m) => t.key[s[j]] <= k
                                     /\ j > hi(m) => ~(t.key[s[j]] <= k)
      OBVIOUS
    <3>1. CASE t.key[m] > k
      <4>1. Below(t, m, k) = "left" /\ \A j \in 1..N : j >= o[m] => ~(t.key[s[j]] <= k)
        BY <2>6, <3>0, <3>1
      <4>2. t.left[m] # nil /\ t.left[m] \in L
        BY <2>8, <2>9, <3>0, <4>1 DEF Sides
      <4>3. lo(t.left[m]) = lo(m) /\ hi(t.left[m]) = o[m] - 1 /\ o[m] \in Int
        BY <2>1, <3>0, <4>2
      <4>4. t.left[m] \in G
        BY <3>0, <4>1, <4>2, <4>3
      <4>5. QED
        BY <4>1, <4>4
    <3>2. CASE ~(t.key[m] > k)
      <4>1. Below(t, m, k) = "right" /\ \A j \in 1..N : j <= o[m] => t.key[s[j]] <= k
        BY <2>7, <3>0, <3>2
      <4>2. t.right[m] # nil /\ t.right[m] \in L
        BY <2>8, <2>9, <3>0, <4>1 DEF Sides
      <4>3. hi(t.right[m]) = hi(m) /\ lo(t.right[m]) = o[m] + 1 /\ o[m] \in Int
        BY <2>1, <3>0, <4>2
      <4>4. t.right[m] \in G
        BY <3>0, <4>1, <4>2, <4>3
      <4>5. QED
        BY <4>1, <4>4
    <3>3. QED
      BY <3>1, <3>2
  <2>10. p \in G /\ t[Below(t, p, k)][p] = nil
    <3>1. G \in SUBSET L
      OBVIOUS
    <3> HIDE DEF G
    <3>2. QED
      BY <2>3, <2>9, <3>1, PlaceStays
  <2>11. /\ p \in L /\ p # root
         /\ \A j \in 1..N : /\ j < lo(p) => t.key[s[j]] <= k
                            /\ j > hi(p) => ~(t.key[s[j]] <= k)
    BY <2>10, WiredFacts
  <2>12. CASE t.key[p] > k
    <3>1. a = "left" /\ \A j \in 1..N : j >= o[p] => ~(t.key[s[j]] <= k)
      BY <2>6, <2>11, <2>12
    <3>2. t.left[p] = nil
      BY <2>6, <2>10, <2>11, <2>12
    <3>3. lo(p) = o[p] /\ o[p] \in Int
      BY <2>1, <2>11, <3>2
    <3>4. Gap(o, p, a) = o[p]
      BY <2>11, <3>1 DEF Gap
    <3>5. \A j \in 1..N : j < o[p] \/ j >= o[p]
      BY <3>3
    <3>6. QED
      BY <2>11, <3>1, <3>3, <3>4, <3>5 DEF Behind
  <2>13. CASE ~(t.key[p] > k)
    <3>1. a = "right" /\ \A j \in 1..N : j <= o[p] => t.key[s[j]] <= k
      BY <2>7, <2>11, <2>13
    <3>2. t.right[p] = nil
      BY <2>7, <2>10, <2>11, <2>13
    <3>3. hi(p) = o[p] /\ o[p] \in Int
      BY <2>1, <2>11, <3>2
    <3>4. Gap(o, p, a) = o[p] + 1
      BY <2>11, <3>1 DEF Gap
    <3>5. \A j \in 1..N : (j > o[p] /\ ~(j < o[p] + 1)) \/ (j <= o[p] /\ j < o[p] + 1)
      BY <3>3
    <3>6. QED
      BY <2>11, <3>1, <3>3, <3>4, <3>5 DEF Behind
  <2>14. QED
    BY <2>12, <2>13
<1>3. QED
  BY <1>1, <1>2

(* The list of the tree with the leaf.                                     *)
LEMMA LeafListed ==
  ASSUME NEW t, NEW u, NEW L \in SUBSET Nodes, Shaped(t, L), NEW n \in Nodes \ L,
         NEW p \in L \cup {root}, NEW a \in Sides, t[a][p] = nil, p = root => a = "left",
         LeafAt(t, u, a, p, n), NEW o, NEW w, NEW s, NEW N \in Nat, Len(s) = N,
         Numbered(L, s, o), Placed(t, L, o, w, N), NEW i, i = Gap(o, p, a)
  PROVE  i \in 1..(N + 1) /\ Listed(u, L \cup {n}, InsertAt(s, i, n))
<1>0. PICK o2 : o2 = Raised(o, n, i)
  OBVIOUS
<1>1. /\ o \in [Nodes -> Int] /\ s \in Seq(L)
      /\ \A q \in L : o[q] \in 1..N /\ s[o[q]] = q
  BY DEF Placed, Numbered
<1>2. i \in 1..(N + 1)
  <2>1. CASE p = root
    BY <2>1 DEF Gap
  <2>2. CASE p # root
    <3>1. o[p] \in 1..N
      BY <1>1, <2>2
    <3>2. QED
      BY <2>2, <3>1 DEF Gap
  <2>3. QED
    BY <2>1, <2>2
<1>3. o2 = [q \in Nodes |-> IF q = n THEN i ELSE Up(i, o[q])]
  BY <1>0, Zenon DEF Raised
<1>4. Numbered(L \cup {n}, InsertAt(s, i, n), o2)
  <2>1. i \in 1..(Len(s) + 1) /\ L \in SUBSET Nodes
    BY <1>2
  <2>2. QED
    BY <1>0, <1>1, <2>1, LeafNumbers
<1>5. Len(InsertAt(s, i, n)) = N + 1
  <2>1. s \in Seq(L \cup {n}) /\ n \in L \cup {n} /\ i \in 1..(Len(s) + 1)
    BY <1>1, <1>2
  <2>2. WithMore(L \cup {n}, s, Len(s), i, n, InsertAt(s, i, n))
    BY <2>1, InsertedAt, Zenon
  <2>3. QED
    BY <2>2 DEF WithMore
<1>6. \E v : Placed(u, L \cup {n}, o2, v, N + 1)
  <2>1. CASE p # root
    <3>1. p \in L /\ \A q \in L : o[q] \in 1..N /\ (o[q] = o[p] => q = p)
      BY <1>1, <2>1
    <3>2. QED
      BY <1>0, <3>1, LeafPlaces
  <2>2. CASE p = root
    <3>1. First(t) = nil /\ a = "left"
      BY <2>2 DEF First
    <3>2. L = {} /\ N = 0 /\ i = 1
      BY <2>2, <3>1, NotEmpty DEF Placed, Gap
    <3> DEFINE v == [d \in Sides |-> [q \in Nodes |-> 1]]
    <3>3. /\ o2 \in [Nodes -> Int] /\ v \in [Sides -> [Nodes -> Int]]
      <4>1. \A q \in Nodes : o[q] \in Int
        BY <1>1
      <4>2. \A q \in Nodes : Up(i, o[q]) \in Int
        BY <3>2, <4>1 DEF Up
      <4>3. QED
        BY <1>3, <3>2, <4>2
    <3>4. \A d \in Sides : u[d][n] = nil /\ v[d][n] = 1 /\ o2[n] = 1
      BY <1>3, <3>2 DEF LeafAt, All
    <3>5. First(u) = n /\ n # nil
      <4>1. u["left"][root] = n /\ n # nil
        BY <2>2, <3>1, NodesAssumption DEF LeafAt, All, Sides
      <4>2. QED
        BY <4>1 DEF First
    <3> HIDE DEF v
    <3>6. \A q \in L \cup {n}, d \in Sides : Fits(o2, v, q, d, u[d][q])
      BY <3>2, <3>4 DEF Fits
    <3>7. v["left"][n] = 1 /\ v["right"][n] = N + 1
      BY <3>2, <3>4 DEF Sides
    <3>8. Placed(u, L \cup {n}, o2, v, N + 1)
      BY <3>3, <3>5, <3>6, <3>7, Zenon DEF Placed
    <3>9. QED
      BY <3>8
  <2>3. QED
    BY <2>1, <2>2
<1>7. Listed(u, L \cup {n}, InsertAt(s, i, n))
  BY <1>4, <1>5, <1>6, Zenon DEF Listed
<1>8. QED
  BY <1>2, <1>7

(* The entry of the leaf comes into the list.                              *)
LEMMA PicturedInsert ==
  ASSUME NEW L \in SUBSET Nodes, NEW s \in Seq(L), NEW N \in Nat, Len(s) = N,
         NEW i \in 1..(N + 1), NEW n \in Nodes, NEW t, NEW u, NEW c, NEW m, NEW e,
         Seen(u, c, m)[n] = e, \A q \in L : Seen(u, c, m)[q] = Seen(t, c, m)[q]
  PROVE  Pictured(u, c, m, InsertAt(s, i, n)) = InsertAt(Pictured(t, c, m, s), i, e)
<1> DEFINE f == Seen(t, c, m)
           g == Seen(u, c, m)
           S == {f[q] : q \in L} \cup {e}
           r == InsertAt(s, i, n)
           P == Pictured(t, c, m, s)
<1>1. /\ r \in Seq(L \cup {n}) /\ Len(r) = N + 1
      /\ \A j \in 1..(N + 1) : r[j] = IF j < i THEN s[j] ELSE IF j = i THEN n ELSE s[j - 1]
  <2>1. s \in Seq(L \cup {n}) /\ n \in L \cup {n} /\ r = InsertAt(s, i, n)
    OBVIOUS
  <2> HIDE DEF r
  <2>2. PICK T : T = L \cup {n}
    OBVIOUS
  <2>3. WithMore(T, s, N, i, n, r)
    BY <2>1, <2>2, InsertedInto
  <2>4. QED
    BY <2>2, <2>3, Zenon DEF WithMore
<1>2. \A j \in 1..N : s[j] \in L
  OBVIOUS
<1>3. /\ P \in Seq(S) /\ Len(P) = N /\ \A j \in 1..N : P[j] = f[s[j]]
  <2>1. P = [j \in 1..N |-> f[s[j]]]
    BY DEF Pictured
  <2>2. \A j \in 1..N : f[s[j]] \in S
    BY <1>2
  <2> HIDE DEF f, S, P
  <2>3. QED
    BY <2>1, <2>2
<1>4. /\ InsertAt(P, i, e) \in Seq(S) /\ Len(InsertAt(P, i, e)) = N + 1
      /\ \A j \in 1..(N + 1) :
           InsertAt(P, i, e)[j] = IF j < i THEN P[j] ELSE IF j = i THEN e ELSE P[j - 1]
  <2>1. e \in S /\ P \in Seq(S) /\ Len(P) = N
    BY <1>3
  <2>2. PICK q : q = InsertAt(P, i, e)
    OBVIOUS
  <2>3. PICK T : T = S
    OBVIOUS
  <2> HIDE DEF f, S, P
  <2>4. WithMore(T, P, N, i, e, q)
    BY <2>1, <2>2, <2>3, InsertedInto
  <2>5. QED
    BY <2>2, <2>3, <2>4, Zenon DEF WithMore
<1>5. Pictured(u, c, m, r) = [j \in 1..(N + 1) |-> g[r[j]]]
  BY <1>1 DEF Pictured
<1>6. \A j \in 1..(N + 1) : g[r[j]] = InsertAt(P, i, e)[j]
  <2>1. SUFFICES ASSUME NEW j \in 1..(N + 1) PROVE g[r[j]] = InsertAt(P, i, e)[j]
    OBVIOUS
  <2>2. j < i \/ j = i \/ (j > i /\ j - 1 \in 1..N /\ ~(j < i) /\ j # i)
    OBVIOUS
  <2>3. CASE j < i
    <3>1. j \in 1..N
      BY <2>3
    <3>2. r[j] = s[j] /\ InsertAt(P, i, e)[j] = f[s[j]] /\ s[j] \in L
      BY <1>1, <1>2, <1>3, <1>4, <2>3, <3>1
    <3>3. QED
      BY <3>2
  <2>4. CASE j = i
    BY <1>1, <1>4, <2>4
  <2>5. CASE j > i /\ j - 1 \in 1..N /\ ~(j < i) /\ j # i
    <3>1. r[j] = s[j - 1] /\ InsertAt(P, i, e)[j] = P[j - 1]
      BY <1>1, <1>4, <2>5
    <3>2. P[j - 1] = f[s[j - 1]] /\ s[j - 1] \in L
      BY <1>2, <1>3, <2>5
    <3>3. QED
      BY <3>1, <3>2
  <2>6. QED
    BY <2>2, <2>3, <2>4, <2>5, Zenon
<1> HIDE DEF f, g, S, r, P
<1>7. InsertAt(P, i, e) = [j \in 1..(N + 1) |-> InsertAt(P, i, e)[j]]
  BY <1>4
<1>8. Pictured(u, c, m, r) = InsertAt(P, i, e)
  BY <1>5, <1>6, <1>7
<1>9. QED
  BY <1>8 DEF r, P

Ascending(q) == \A i, j \in DOMAIN q : i <= j => q[i].key <= q[j].key

(* An entry that goes behind those whose key is not greater leaves the     *)
(* list ascending, and so does one that goes out.                          *)
LEMMA InsertAscends ==
  ASSUME NEW V, \A v \in V : v.key \in Int, NEW q \in Seq(V), NEW N \in Nat, Len(q) = N,
         NEW i \in 1..(N + 1), NEW e \in V, \A j \in 1..N : q[j].key <= e.key <=> j < i,
         Ascending(q), NEW r, r = InsertAt(q, i, e)
  PROVE  Ascending(r)
<1>1. WithMore(V, q, N, i, e, r)
  BY InsertedInto
<1>2. /\ r \in Seq(V) /\ Len(r) = N + 1 /\ DOMAIN r = 1..(N + 1) /\ DOMAIN q = 1..N
      /\ \A j \in 1..(N + 1) : r[j] = IF j < i THEN q[j] ELSE IF j = i THEN e ELSE q[j - 1]
  BY <1>1 DEF WithMore
<1>3. \A j, k \in 1..N : j <= k => q[j].key <= q[k].key
  BY <1>2, Zenon DEF Ascending
<1>4. \A j \in 1..N : q[j].key \in Int
  OBVIOUS
<1>5. e.key \in Int
  OBVIOUS
<1>6. SUFFICES ASSUME NEW j \in 1..(N + 1), NEW k \in 1..(N + 1), j <= k
               PROVE  r[j].key <= r[k].key
  BY <1>2 DEF Ascending
<1>7. CASE k < i
  <2>1. r[j] = q[j] /\ r[k] = q[k] /\ j \in 1..N /\ k \in 1..N
    BY <1>2, <1>6, <1>7
  <2>2. QED
    BY <1>3, <1>6, <2>1
<1>8. CASE k = i
  <2>1. r[k] = e
    BY <1>2, <1>8
  <2>2. CASE j = i
    BY <1>2, <1>5, <2>1, <2>2
  <2>3. CASE j # i
    <3>1. j \in 1..N /\ j < i /\ r[j] = q[j]
      BY <1>2, <1>6, <1>8, <2>3
    <3>2. QED
      BY <2>1, <3>1
  <2>4. QED
    BY <2>2, <2>3
<1>9. CASE k > i
  <2>1. r[k] = q[k - 1] /\ k - 1 \in 1..N /\ ~(k - 1 < i)
    BY <1>2, <1>9
  <2>2. e.key <= q[k - 1].key
    BY <1>4, <1>5, <2>1
  <2>3. CASE j < i
    <3>1. r[j] = q[j] /\ j \in 1..N /\ j <= k - 1
      BY <1>2, <1>9, <2>3
    <3>2. QED
      BY <1>3, <2>1, <3>1
  <2>4. CASE j = i
    BY <1>2, <2>1, <2>2, <2>4
  <2>5. CASE j > i
    <3>1. r[j] = q[j - 1] /\ j - 1 \in 1..N /\ j - 1 <= k - 1
      BY <1>2, <1>6, <2>5
    <3>2. QED
      BY <1>3, <2>1, <3>1
  <2>6. QED
    BY <2>3, <2>4, <2>5
<1>10. QED
  BY <1>7, <1>8, <1>9

(* And what goes out leaves the rest in order.                             *)
LEMMA RemoveAscends ==
  ASSUME NEW V, NEW q \in Seq(V), NEW N \in Nat, Len(q) = N, NEW i \in 1..N,
         Ascending(q), NEW r, r = RemoveAt(q, i)
  PROVE  Ascending(r)
<1>1. WithLess(V, q, N, i, r)
  BY RemovedFrom
<1>2. /\ r \in Seq(V) /\ Len(r) = N - 1 /\ DOMAIN r = 1..(N - 1) /\ DOMAIN q = 1..N
      /\ \A j \in 1..(N - 1) : r[j] = IF j < i THEN q[j] ELSE q[j + 1]
  BY <1>1 DEF WithLess
<1>3. \A j, k \in 1..N : j <= k => q[j].key <= q[k].key
  BY <1>2, Zenon DEF Ascending
<1>4. SUFFICES ASSUME NEW j \in 1..(N - 1), NEW k \in 1..(N - 1), j <= k
               PROVE  r[j].key <= r[k].key
  BY <1>2 DEF Ascending
<1>5. \E b, c \in 1..N : r[j] = q[b] /\ r[k] = q[c] /\ b <= c
  <2>1. j \in 1..N /\ k \in 1..N /\ j + 1 \in 1..N /\ k + 1 \in 1..N
    OBVIOUS
  <2>2. CASE k < i
    BY <1>2, <1>4, <2>1, <2>2
  <2>3. CASE ~(k < i) /\ j < i
    BY <1>2, <1>4, <2>1, <2>3
  <2>4. CASE ~(k < i) /\ ~(j < i)
    BY <1>2, <1>4, <2>1, <2>4
  <2>5. QED
    BY <2>2, <2>3, <2>4
<1>6. QED
  BY <1>3, <1>5

(* The insertion is an Insert of OrderedList.                              *)
LEMMA InsertShows ==
  ASSUME RbtInv, RbtInv', NEW add \in Adds, RBTreeInsert(add[1], add[2]),
         NEW s, Listed(tree, Linked, s), Ascending(Shown)
  PROVE  /\ \E r : Listed(tree', Linked', r)
         /\ Ascending(Shown') /\ List!Next
         /\ Bare(tree) => Bare(tree')
<1> DEFINE n == add[1]
           k == add[2]
           p == InsertPlace(tree, k)
           a == IF p = root THEN "left" ELSE Below(tree, p, k)
           e == [id |-> n, key |-> k]
<1>1. n \in Nodes /\ k \in Int /\ e \in {[id |-> b[1], key |-> b[2]] : b \in Adds}
  BY AddsAssumption
<1>2. /\ pc = "idle" /\ n \notin live /\ live' = live \cup {n} /\ pc' = "insert"
      /\ y' = y /\ z' = z /\ tree' = Leaf(tree, a, p, n, k)
  BY Zenon DEF RBTreeInsert, Leaf, locals
<1> HIDE DEF n, k
<1>3. PICK t : t = tree
  OBVIOUS
<1>4. PICK u : u = tree'
  OBVIOUS
<1>5. PICK L : L = live
  OBVIOUS
<1>6. /\ L \in SUBSET Nodes /\ Shaped(t, L) /\ t \in Tree
      /\ \A q \in Nodes \ L, d \in Sides : t[d][q] = nil
      /\ Linked = L /\ Linked' = L \cup {n} /\ n \in Nodes \ L /\ y = nil /\ z = nil
  BY <1>1, <1>2, <1>3, <1>5, IdleFacts DEF Shaped, Linked, Deleting, RbtInv, RbtTypeOK
<1>7. p = InsertPlace(t, k) /\ a = (IF p = root THEN "left" ELSE Below(t, p, k))
  BY <1>3
<1>8. u = Leaf(t, a, p, n, k)
  BY <1>2, <1>3, <1>4
<1> HIDE DEF p, a
<1>9. \/ p = root /\ First(t) = nil
      \/ p \in L /\ t[Below(t, p, k)][p] = nil
  BY <1>6, <1>7, PlaceIsFree
<1>10. p \in L \cup {root} /\ a \in Sides /\ (p = root => a = "left") /\ t[a][p] = nil
  <2>1. p \in L => p # root
    BY <1>6, WiredFacts
  <2>2. Below(t, p, k) \in Sides /\ "left" \in Sides /\ First(t) = t["left"][root]
    BY DEF Below, Sides, First
  <2>3. CASE p = root
    BY <1>7, <1>9, <2>1, <2>2, <2>3
  <2>4. CASE p # root
    BY <1>7, <1>9, <2>2, <2>4
  <2>5. QED
    BY <2>3, <2>4
<1>11. p # n /\ p \in All /\ L \subseteq All /\ n \in All
  BY <1>1, <1>6, <1>10, WiredFacts, NodesAssumption DEF All
<1>12. LeafAt(t, u, a, p, n)
  <2>1. \A q \in All, d \in Sides :
          u[d][q] = IF q = n THEN nil ELSE IF q = p /\ d = a THEN n ELSE t[d][q]
    BY <1>1, <1>6, <1>8, <1>10, <1>11, LeafEffect
  <2>2. QED
    BY <2>1, Zenon DEF LeafAt
<1>13. u.key = [t.key EXCEPT ![n] = k] /\ t.key \in [All -> Int]
  BY <1>6, <1>8, <1>10 DEF Leaf, Tree, Sides
<1>14. PICK o, w : Numbered(L, s, o) /\ Placed(t, L, o, w, Len(s))
  BY <1>3, <1>6 DEF Listed
<1>15. PICK N \in Nat : N = Len(s)
  BY <1>14 DEF Numbered
<1>16. PICK i : i = Gap(o, p, a)
  OBVIOUS
<1>17. PICK r : r = InsertAt(s, i, n)
  OBVIOUS
<1>18. i \in 1..(N + 1) /\ Listed(u, L \cup {n}, r)
  <2>1. Placed(t, L, o, w, N) /\ Numbered(L, s, o) /\ Len(s) = N
    BY <1>14, <1>15
  <2>2. QED
    BY <1>6, <1>10, <1>12, <1>16, <1>17, <2>1, LeafListed
<1>19. s \in Seq(L) /\ DOMAIN s = 1..N /\ \A j \in 1..N : s[j] \in L
  BY <1>14, <1>15 DEF Numbered
<1>20. /\ Shown = Pictured(t, nil, nil, s)
       /\ Shown' = Pictured(u, nil, nil, r)
  <2>1. Shown = Pictured(tree, z, y, s)
    BY <1>2, ShownNow
  <2>2. Listed(tree', Linked', r)
    BY <1>4, <1>6, <1>18
  <2>3. Shown' = Pictured(tree', z', y', r)
    BY <1>2, <2>2, ShownNext
  <2>4. QED
    BY <1>2, <1>3, <1>4, <1>6, <2>1, <2>3
<1>21. /\ \A q \in L : Seen(t, nil, nil)[q] = [id |-> q, key |-> t.key[q]]
       /\ \A q \in L : Seen(u, nil, nil)[q] = Seen(t, nil, nil)[q]
       /\ Seen(u, nil, nil)[n] = e
  <2>1. \A q \in Nodes : /\ Seen(t, nil, nil)[q] = [id |-> q, key |-> t.key[q]]
                         /\ Seen(u, nil, nil)[q] = [id |-> q, key |-> u.key[q]]
    BY NodesAssumption DEF Seen
  <2>2. u.key[n] = k /\ \A q \in L : u.key[q] = t.key[q]
    BY <1>6, <1>11, <1>13
  <2>3. QED
    BY <1>6, <2>1, <2>2
<1>22. Shown' = InsertAt(Shown, i, e)
  BY <1>6, <1>15, <1>17, <1>18, <1>19, <1>20, <1>21, PicturedInsert
<1>23. DOMAIN Shown = 1..N /\ \A j \in 1..N : Shown[j] = [id |-> s[j], key |-> t.key[s[j]]]
  <2>1. Shown = [j \in 1..N |-> Seen(t, nil, nil)[s[j]]]
    BY <1>15, <1>20, Zenon DEF Pictured
  <2>2. QED
    BY <1>19, <1>21, <2>1
<1>24. Ascends(t, s, N)
  BY <1>23 DEF Ascends, Ascending
<1>25. Behind(t, s, k, i, N)
  <2>1. Placed(t, L, o, w, N) /\ Numbered(L, s, o) /\ Len(s) = N
    BY <1>14, <1>15
  <2>2. QED
    BY <1>1, <1>6, <1>7, <1>16, <1>24, <2>1, PlaceInList
<1>26. Cardinality({j \in DOMAIN Shown : Shown[j].key <= e.key}) + 1 = i
  <2>1. {j \in DOMAIN Shown : Shown[j].key <= e.key} = 1..(i - 1)
    <3>1. \A j \in 1..N : Shown[j].key = t.key[s[j]]
      BY <1>23
    <3>2. e.key = k
      OBVIOUS
    <3>3. \A j \in 1..N : Shown[j].key <= e.key <=> j < i
      BY <1>25, <3>1, <3>2 DEF Behind
    <3>4. QED
      BY <1>18, <1>23, <3>3
  <2>2. Cardinality(1..(i - 1)) = i - 1
    <3>1. Cardinality(1..(i - 1)) = IF 1 > i - 1 THEN 0 ELSE (i - 1) - 1 + 1
      BY <1>18, FS_Interval
    <3>2. QED
      BY <1>18, <3>1
  <2>3. PICK b : b = Cardinality({j \in DOMAIN Shown : Shown[j].key <= e.key})
    OBVIOUS
  <2>4. b = i - 1
    BY <2>1, <2>2, <2>3, Zenon
  <2>5. b + 1 = i
    BY <1>18, <2>4
  <2>6. QED
    BY <2>3, <2>5, Zenon
<1>27. \A j \in DOMAIN Shown : Shown[j].id # e.id
  <2>1. \A j \in 1..N : Shown[j].id = s[j] /\ s[j] # n
    BY <1>6, <1>19, <1>23
  <2>2. QED
    BY <1>23, <2>1
<1>28. List!Next
  <2>1. PICK E : E = e
    OBVIOUS
  <2>2. PICK c : c = Cardinality({j \in DOMAIN Shown : Shown[j].key <= E.key})
    OBVIOUS
  <2>3. /\ Shown' = InsertAt(Shown, c + 1, E) /\ \A j \in DOMAIN Shown : Shown[j].id # E.id
        /\ E \in {[id |-> b[1], key |-> b[2]] : b \in Adds}
    BY <1>1, <1>22, <1>26, <1>27, <2>1, <2>2
  <2> HIDE DEF e
  <2>4. List!Insert(E)
    BY <2>2, <2>3, Zenon DEF List!Insert, List!InsertAt, InsertAt, List!Cardinality, Cardinality
  <2>5. QED
    BY <2>3, <2>4, Zenon DEF List!Next
<1>29. Ascending(Shown')
  <2>1. PICK E : E = e
    OBVIOUS
  <2>2. PICK V : V = [id : Nodes, key : Int]
    OBVIOUS
  <2>3. E \in V /\ E.key = k /\ \A v \in V : v.key \in Int
    BY <1>1, <1>6, <2>1, <2>2
  <2>4. \A q \in Nodes : t.key[q] \in Int
    BY <1>13 DEF All
  <2>5. PICK Q : Q = Shown
    OBVIOUS
  <2>6. /\ Q = [j \in 1..N |-> Q[j]]
        /\ \A j \in 1..N : Q[j] = [id |-> s[j], key |-> t.key[s[j]]] /\ s[j] \in Nodes
    <3>1. Q = [j \in 1..N |-> Seen(t, nil, nil)[s[j]]]
      BY <1>15, <1>20, <2>5, Zenon DEF Pictured
    <3>2. QED
      BY <1>6, <1>19, <1>23, <2>5, <3>1
  <2>7. \A j \in 1..N : Q[j] \in V
    BY <2>2, <2>4, <2>6
  <2>8. Q \in Seq(V) /\ Len(Q) = N
    BY <2>6, <2>7
  <2>9. \A j \in 1..N : Q[j].key <= E.key <=> j < i
    BY <1>25, <2>3, <2>6 DEF Behind
  <2>10. PICK R : R = Shown'
    OBVIOUS
  <2>11. R = InsertAt(Q, i, E) /\ Ascending(Q)
    BY <1>22, <2>1, <2>5, <2>10
  <2>12. Ascending(R)
    BY <1>18, <2>3, <2>8, <2>9, <2>11, InsertAscends
  <2>13. QED
    BY <2>10, <2>12
<1>30. Bare(tree) => Bare(tree')
  <2>1. nil \in All /\ nil # n /\ nil # p
    BY <1>6, <1>10, NodesAssumption DEF All
  <2>2. \A d \in Sides : u[d][nil] = t[d][nil]
    BY <1>12, <2>1 DEF LeafAt
  <2>3. QED
    BY <1>3, <1>4, <2>2 DEF Bare
<1>31. QED
  BY <1>4, <1>6, <1>18, <1>28, <1>29, <1>30

(***************************************************************************)
(* Deletion.                                                               *)
(***************************************************************************)
(* The last node on side a below q is where the reach of q ends.           *)
LEMMA ExtremeAt ==
  ASSUME NEW t, NEW L \in SUBSET Nodes, Shaped(t, L),
         \A q \in Nodes \ L, d \in Sides : t[d][q] = nil,
         NEW o, NEW w, NEW N, Placed(t, L, o, w, N),
         NEW a \in Sides, NEW q \in L, NEW m, m = Extreme(t, a, q)
  PROVE  m \in L /\ o[m] = w[a][q]
<1> DEFINE dir == [r \in Nodes |-> a]
           down[r \in Nodes] == IF t[a][r] = nil THEN r ELSE down[t[a][r]]
           G == {r \in L : w[a][r] = w[a][q]}
<1>1. dir \in [Nodes -> Sides] /\ \A r \in Nodes : dir[r] = a
  OBVIOUS
<1>2. \E g : Down(t, dir, g)
  BY <1>1, DownExists
<1>3. Down(t, dir, down)
  <2>1. PICK g : Down(t, dir, g)
    BY <1>2
  <2>2. g = [r \in Nodes |-> IF t[a][r] = nil THEN r ELSE g[t[a][r]]]
    BY <2>1 DEF Down
  <2>3. down = [r \in Nodes |-> IF t[a][r] = nil THEN r ELSE down[t[a][r]]]
    BY <2>2
  <2> HIDE DEF down
  <2>4. QED
    BY <2>3 DEF Down
<1>4. m = down[q]
  BY DEF Extreme
<1> HIDE DEF down, dir
<1>5. \A r \in L : IF t[a][r] = nil THEN w[a][r] = o[r] ELSE w[a][t[a][r]] = w[a][r]
  <2>1. \A r \in L : Fits(o, w, r, a, t[a][r])
    BY DEF Placed
  <2>2. QED
    BY <2>1 DEF Fits
<1>6. G \in SUBSET L /\ q \in G
  OBVIOUS
<1>7. \A r \in G : t[dir[r]][r] # nil => t[dir[r]][r] \in G
  <2>1. \A r \in L : r \in Nodes /\ t[a][r] \in L \cup {nil}
    BY WiredFacts
  <2>2. QED
    BY <1>1, <1>5, <2>1
<1> HIDE DEF G
<1>8. m \in G /\ t[dir[m]][m] = nil
  BY <1>1, <1>3, <1>4, <1>6, <1>7, DownStays
<1>9. m \in L /\ w[a][m] = w[a][q]
  BY <1>8 DEF G
<1>10. QED
  BY <1>1, <1>5, <1>8, <1>9

(* The node that is spliced out is the one deleted or the next in the list.*)
LEMMA SplicedAt ==
  ASSUME NEW t, NEW L \in SUBSET Nodes, Shaped(t, L),
         \A q \in Nodes \ L, d \in Sides : t[d][q] = nil,
         NEW o, NEW w, NEW N, Placed(t, L, o, w, N),
         NEW n \in L, NEW m, m = Spliced(t, n)
  PROVE  m = n \/ (m \in L /\ o[m] = o[n] + 1)
<1>1. CASE t.left[n] = nil \/ t.right[n] = nil
  BY <1>1 DEF Spliced
<1>2. CASE t.left[n] # nil /\ t.right[n] # nil
  <2>1. m = Extreme(t, "left", t.right[n])
    BY <1>2 DEF Spliced, TreeSuccessor
  <2>2. PICK r : r = t.right[n]
    OBVIOUS
  <2>3. r \in L /\ r # nil
    BY <1>2, <2>2, WiredFacts DEF Sides
  <2>4. w["left"][r] = o[n] + 1
    BY <2>2, <2>3, ReachFacts
  <2>5. "left" \in Sides
    BY DEF Sides
  <2>6. m \in L /\ o[m] = w["left"][r]
    BY <2>1, <2>2, <2>3, <2>5, ExtremeAt
  <2>7. QED
    BY <2>4, <2>6
<1>3. QED
  BY <1>1, <1>2

(* The list of the tree without m.                                         *)
LEMMA CutListed ==
  ASSUME NEW t, NEW u, NEW L \in SUBSET Nodes, Shaped(t, L), NEW m \in L,
         t.left[m] = nil \/ t.right[m] = nil,
         NEW c, c = (IF t.left[m] = nil THEN t.right[m] ELSE t.left[m]),
         NEW a \in Sides, t[a][t.parent[m]] = m, CutAt(t, u, a, m, c),
         NEW o, NEW w, NEW s, NEW N \in Nat, Len(s) = N,
         Numbered(L, s, o), Placed(t, L, o, w, N)
  PROVE  Listed(u, L \ {m}, RemoveAt(s, o[m]))
<1>1. /\ o \in [Nodes -> Int] /\ s \in Seq(L) /\ o[m] \in 1..N
      /\ \A q \in L : o[q] = o[m] => q = m
  BY DEF Placed, Numbered
<1>2. PICK o2 : o2 = Lowered(o, o[m])
  OBVIOUS
<1>3. Numbered(L \ {m}, RemoveAt(s, o[m]), o2)
  BY <1>1, <1>2, CutNumbers
<1>4. \E e \in Sides : t[Other(e)][m] = nil /\ c = t[e][m]
  <2>1. CASE t.left[m] = nil
    <3>1. t[Other("right")][m] = nil /\ c = t["right"][m] /\ "right" \in Sides
      BY <2>1 DEF Other, Sides
    <3>2. QED
      BY <3>1
  <2>2. CASE t.left[m] # nil
    <3>1. t[Other("left")][m] = nil /\ c = t["left"][m] /\ "left" \in Sides
      BY <2>2 DEF Other, Sides
    <3>2. QED
      BY <3>1
  <2>3. QED
    BY <2>1, <2>2
<1>5. \E v : Placed(u, L \ {m}, o2, v, N - 1)
  <2>1. PICK e \in Sides : t[Other(e)][m] = nil /\ c = t[e][m]
    BY <1>4
  <2>2. QED
    BY <1>1, <1>2, <2>1, CutPlaces
<1>6. Len(RemoveAt(s, o[m])) = N - 1
  <2>1. PICK r : r = RemoveAt(s, o[m])
    OBVIOUS
  <2>2. PICK i : i = o[m]
    OBVIOUS
  <2>3. WithLess(L, s, N, i, r)
    BY <1>1, <2>1, <2>2, RemovedFrom
  <2>4. QED
    BY <2>1, <2>3, Zenon DEF WithLess
<1>7. QED
  BY <1>3, <1>5, <1>6, Zenon DEF Listed

(* The entry of n goes out of the list: m is taken out, and shown for n.   *)
Gone(L, s, N, i, k, n, m, t, u) ==
  /\ L \in SUBSET Nodes /\ s \in Seq(L) /\ N \in Nat /\ Len(s) = N
  /\ i \in 1..N /\ k \in 1..N /\ s[i] = n /\ s[k] = m /\ (k = i \/ k = i + 1)
  /\ \A j \in 1..N : s[j] = n => j = i
  /\ Seen(u, n, m)[n] = Seen(t, nil, nil)[m]
  /\ \A q \in L \ {n} : Seen(u, n, m)[q] = Seen(t, nil, nil)[q]

(* The picture of a list with one element less.                            *)
LEMMA PicturedRemove ==
  ASSUME NEW L, NEW s, NEW N, NEW i, NEW k, NEW n, NEW m, NEW t, NEW u,
         Gone(L, s, N, i, k, n, m, t, u)
  PROVE  Pictured(u, n, m, RemoveAt(s, k)) = RemoveAt(Pictured(t, nil, nil, s), i)
<1>0. /\ L \in SUBSET Nodes /\ s \in Seq(L) /\ N \in Nat /\ Len(s) = N
      /\ i \in 1..N /\ k \in 1..N /\ s[i] = n /\ s[k] = m /\ (k = i \/ k = i + 1)
      /\ \A j \in 1..N : s[j] = n => j = i
      /\ Seen(u, n, m)[n] = Seen(t, nil, nil)[m]
      /\ \A q \in L \ {n} : Seen(u, n, m)[q] = Seen(t, nil, nil)[q]
  BY Zenon DEF Gone
<1> DEFINE f == Seen(t, nil, nil)
           g == Seen(u, n, m)
<1>1. PICK r : r = RemoveAt(s, k)
  OBVIOUS
<1>2. PICK P : P = Pictured(t, nil, nil, s)
  OBVIOUS
<1>3. PICK S : S = {f[q] : q \in L}
  OBVIOUS
<1>4. PICK R : R = RemoveAt(P, i)
  OBVIOUS
<1>5. /\ r \in Seq(L) /\ Len(r) = N - 1
      /\ \A j \in 1..(N - 1) : r[j] = IF j < k THEN s[j] ELSE s[j + 1]
  <2>1. WithLess(L, s, N, k, r)
    BY <1>0, <1>1, RemovedFrom
  <2>2. QED
    BY <2>1, Zenon DEF WithLess
<1>6. \A j \in 1..N : s[j] \in L
  BY <1>0
<1> HIDE DEF f, g
<1>7. /\ P \in Seq(S) /\ Len(P) = N /\ \A j \in 1..N : P[j] = f[s[j]]
  <2>1. P = [j \in 1..N |-> f[s[j]]]
    BY <1>0, <1>2 DEF Pictured, f
  <2>2. \A j \in 1..N : f[s[j]] \in S
    BY <1>3, <1>6
  <2>3. QED
    BY <1>0, <2>1, <2>2
<1>8. /\ R \in Seq(S) /\ Len(R) = N - 1
      /\ \A j \in 1..(N - 1) : R[j] = IF j < i THEN P[j] ELSE P[j + 1]
  <2>1. WithLess(S, P, N, i, R)
    BY <1>0, <1>4, <1>7, RemovedFrom
  <2>2. QED
    BY <2>1, Zenon DEF WithLess
<1>9. Pictured(u, n, m, r) = [j \in 1..(N - 1) |-> g[r[j]]]
  BY <1>5 DEF Pictured, g
<1>10. g[n] = f[m] /\ \A q \in L \ {n} : g[q] = f[q]
  BY <1>0 DEF f, g
<1>11. ASSUME NEW j \in 1..(N - 1) PROVE g[r[j]] = R[j]
  <2>1. j < i \/ (j >= i /\ j < k) \/ (j >= k /\ j >= i)
    BY <1>0
  <2>2. j \in 1..N /\ j + 1 \in 1..N
    BY <1>0
  <2>3. CASE j < i
    <3>1. j < k /\ j # i
      BY <1>0, <2>3
    <3>2. r[j] = s[j] /\ R[j] = f[s[j]] /\ s[j] \in L \ {n}
      BY <1>0, <1>5, <1>6, <1>7, <1>8, <2>2, <2>3, <3>1
    <3>3. QED
      BY <1>10, <3>2
  <2>4. CASE j >= i /\ j < k
    <3>1. j = i /\ k = j + 1 /\ ~(j < i)
      BY <1>0, <2>4
    <3>2. r[j] = n /\ R[j] = f[m]
      BY <1>0, <1>5, <1>7, <1>8, <2>2, <2>4, <3>1
    <3>3. QED
      BY <1>10, <3>2
  <2>5. CASE j >= k /\ j >= i
    <3>1. ~(j < k) /\ ~(j < i) /\ j + 1 # i
      BY <1>0, <2>5
    <3>2. r[j] = s[j + 1] /\ R[j] = f[s[j + 1]] /\ s[j + 1] \in L \ {n}
      BY <1>0, <1>5, <1>6, <1>7, <1>8, <2>2, <3>1
    <3>3. QED
      BY <1>10, <3>2
  <2>6. QED
    BY <2>1, <2>3, <2>4, <2>5, Zenon
<1>12. R = [j \in 1..(N - 1) |-> R[j]]
  BY <1>8
<1>13. Pictured(u, n, m, r) = R
  BY <1>9, <1>11, <1>12
<1>14. QED
  BY <1>1, <1>2, <1>4, <1>13

(* The keys do not change when a node is spliced out.                      *)
LEMMA CutOutKey ==
  ASSUME NEW t \in Tree, NEW s, NEW c PROVE CutOut(t, s, c).key = t.key
BY DEF CutOut, Relink, Tree

(* RBDelete is a Delete of OrderedList, at once.                           *)
LEMMA DeleteShows ==
  ASSUME RbtInv, RbtInv', NEW n \in Nodes, RBDelete(n), NEW s, Listed(tree, Linked, s),
         Ascending(Shown)
  PROVE  /\ \E r : Listed(tree', Linked', r)
         /\ Ascending(Shown') /\ List!Next
         /\ Bare(tree) => Bare(tree')
<1> DEFINE m == Spliced(tree, n)
           c == IF tree.left[m] = nil THEN tree.right[m] ELSE tree.left[m]
<1>1. /\ pc = "idle" /\ n \in live /\ tree' = CutOut(tree, m, c)
      /\ y' = m /\ z' = n /\ live' = live
      /\ pc' = IF tree.red[m] THEN "replace" ELSE "fixup"
  BY DEF RBDelete, CutOut
<1>2. PICK t : t = tree
  OBVIOUS
<1>3. PICK u : u = tree'
  OBVIOUS
<1>4. PICK L : L = live
  OBVIOUS
<1>5. /\ L \in SUBSET Nodes /\ Shaped(t, L) /\ Balanced(t, L, nil, "left") /\ t \in Tree
      /\ \A q \in Nodes \ L, d \in Sides : t[d][q] = nil
      /\ Linked = L /\ n \in L /\ y = nil /\ z = nil
  BY <1>1, <1>2, <1>4, IdleFacts DEF Shaped, Deleting, RbtInv, RbtTypeOK
<1>6. /\ m = Spliced(t, n) /\ u = CutOut(t, m, c)
      /\ c = (IF t.left[m] = nil THEN t.right[m] ELSE t.left[m])
  BY <1>1, <1>2, <1>3
<1> HIDE DEF m, c
<1>7. m \in L /\ (t.left[m] = nil \/ t.right[m] = nil)
  BY <1>5, <1>6, SplicedFacts
<1>8. Linked' = L \ {m} /\ pc' # "destroyed"
  BY <1>1, <1>4 DEF Linked, Deleting
<1>9. PICK a : a = SideOf(t, m)
  OBVIOUS
<1>10. a \in Sides /\ t[a][t.parent[m]] = m /\ CutAt(t, u, a, m, c)
  <2>1. a \in Sides /\ t[a][t.parent[m]] = m /\ Remaining(t, L, a, m, c, u)
    BY <1>5, <1>6, <1>7, <1>9, CutOutKeeps
  <2>2. QED
    BY <2>1, Zenon DEF Remaining, CutAt
<1>11. PICK o, w : Numbered(L, s, o) /\ Placed(t, L, o, w, Len(s))
  BY <1>2, <1>5 DEF Listed
<1>12. PICK N \in Nat : N = Len(s)
  BY <1>11 DEF Numbered
<1>13. Placed(t, L, o, w, N) /\ Numbered(L, s, o) /\ Len(s) = N
  BY <1>11, <1>12
<1>14. PICK i : i = o[n]
  OBVIOUS
<1>15. PICK k : k = o[m]
  OBVIOUS
<1>16. PICK r : r = RemoveAt(s, k)
  OBVIOUS
<1>17. Listed(u, L \ {m}, r)
  BY <1>5, <1>6, <1>7, <1>10, <1>13, <1>15, <1>16, CutListed
<1>18. m = n \/ k = i + 1
  BY <1>5, <1>6, <1>13, <1>14, <1>15, SplicedAt
<1>19. /\ s \in Seq(L) /\ DOMAIN s = 1..N /\ i \in 1..N /\ k \in 1..N /\ s[i] = n /\ s[k] = m
       /\ (k = i \/ k = i + 1) /\ \A j \in 1..N : s[j] = n => j = i
  BY <1>5, <1>7, <1>13, <1>14, <1>15, <1>18 DEF Numbered
<1>20. /\ Shown = Pictured(t, nil, nil, s)
       /\ Shown' = Pictured(u, n, m, r)
  <2>1. Shown = Pictured(tree, z, y, s)
    BY <1>1, ShownNow
  <2>2. Listed(tree', Linked', r)
    BY <1>3, <1>8, <1>17
  <2>3. Shown' = Pictured(tree', z', y', r)
    BY <1>8, <2>2, ShownNext
  <2>4. QED
    BY <1>1, <1>2, <1>3, <1>5, <2>1, <2>3
<1>21. /\ Seen(u, n, m)[n] = Seen(t, nil, nil)[m]
       /\ \A q \in L \ {n} : Seen(u, n, m)[q] = Seen(t, nil, nil)[q]
  <2>1. u.key = t.key
    BY <1>5, <1>6, CutOutKey
  <2>2. \A q \in Nodes : /\ Seen(t, nil, nil)[q] = [id |-> q, key |-> t.key[q]]
                         /\ q # n => Seen(u, n, m)[q] = [id |-> q, key |-> t.key[q]]
    BY <2>1, NodesAssumption DEF Seen
  <2>3. Seen(u, n, m)[n] = [id |-> m, key |-> t.key[m]]
    BY <2>1 DEF Seen
  <2>4. QED
    BY <1>5, <1>7, <2>2, <2>3
<1>22. Shown' = RemoveAt(Shown, i)
  <2>1. Pictured(u, n, m, RemoveAt(s, k)) = RemoveAt(Pictured(t, nil, nil, s), i)
    <3>1. Gone(L, s, N, i, k, n, m, t, u)
      BY <1>5, <1>12, <1>19, <1>21, Zenon DEF Gone
    <3>2. QED
      BY <3>1, PicturedRemove
  <2>2. QED
    BY <1>16, <1>20, <2>1, Zenon
<1>23. i \in DOMAIN Shown
  BY <1>12, <1>19, <1>20 DEF Pictured
<1>24. List!Next
  <2>1. List!Delete(i)
    BY <1>22, Zenon DEF List!Delete, List!RemoveAt, RemoveAt
  <2>2. QED
    BY <1>23, <2>1, Zenon DEF List!Next
<1>25. Ascending(Shown')
  <2>1. PICK Q : Q = Shown
    OBVIOUS
  <2>2. PICK R : R = Shown'
    OBVIOUS
  <2>3. PICK V : V = {Q[j] : j \in 1..N}
    OBVIOUS
  <2>4. Q = [j \in 1..N |-> Seen(t, nil, nil)[s[j]]]
    BY <1>12, <1>20, <2>1, Zenon DEF Pictured
  <2>5. Q \in Seq(V) /\ Len(Q) = N
    BY <2>3, <2>4
  <2>6. Ascending(R)
    BY <1>19, <1>22, <2>1, <2>2, <2>5, RemoveAscends
  <2>7. QED
    BY <2>2, <2>6
<1>26. Bare(tree) => Bare(tree')
  <2>1. t.parent[m] \in L \cup {root}
    BY <1>5, <1>7 DEF Shaped, Wired
  <2>2. nil \in All /\ nil # t.parent[m]
    BY <1>5, <2>1, NodesAssumption DEF All
  <2>3. \A d \in Sides : u[d][nil] = t[d][nil]
    BY <1>10, <2>2 DEF CutAt
  <2>4. QED
    BY <1>2, <1>3, <2>3 DEF Bare
<1>27. QED
  BY <1>3, <1>8, <1>17, <1>24, <1>25, <1>26

(* Node m hangs where n hung, with what n had below it.                    *)
SwapAt(t, u, L, a, n, m) ==
  \A q \in (L \ {n}) \cup {m, root}, d \in Sides :
    u[d][q] = IF q = m THEN t[d][n] ELSE IF q = t.parent[n] /\ d = a THEN m ELSE t[d][q]

(* Then m has the place of n in the list.                                  *)
Swapped(s, n, m) == [i \in 1..Len(s) |-> IF s[i] = n THEN m ELSE s[i]]

(* m takes the place of n, with the reaches n had.                         *)
LEMMA SwapPlaces ==
  ASSUME NEW t, NEW u, NEW L \in SUBSET Nodes, Shaped(t, L), NEW n \in L, NEW m \in Nodes \ L,
         NEW a \in Sides, t[a][t.parent[n]] = n, SwapAt(t, u, L, a, n, m),
         NEW o, NEW w, NEW N, Placed(t, L, o, w, N), NEW o2, o2 = [o EXCEPT ![m] = o[n]]
  PROVE  \E v : Placed(u, (L \ {n}) \cup {m}, o2, v, N)
<1> DEFINE v == [d \in Sides |-> [w[d] EXCEPT ![m] = w[d][n]]]
           p == t.parent[n]
           K == (L \ {n}) \cup {m}
<1>1. /\ o \in [Nodes -> Int] /\ w \in [Sides -> [Nodes -> Int]]
      /\ n \in Nodes /\ m \in Nodes /\ m # n /\ L \subseteq Nodes
  BY DEF Placed
<1>2. /\ nil \notin L /\ root \notin L /\ m # nil /\ m # root /\ n # nil /\ n # root
      /\ \A q \in L \cup {root}, d \in Sides : t[d][q] \in L \cup {nil}
      /\ \A q \in L \cup {root}, d \in Sides : t[d][q] = n => q = p /\ d = a
  <2>1. p \in L \cup {root}
    BY DEF Shaped, Wired
  <2>2. n # nil /\ \A q, r \in L \cup {root}, s, d \in Sides :
                     t[s][q] # nil /\ t[s][q] = t[d][r] => q = r /\ s = d
    BY WiredFacts
  <2>3. \A q \in L \cup {root}, d \in Sides : t[d][q] = n => q = p /\ d = a
    BY <2>1, <2>2
  <2>4. QED
    BY <2>3, WiredFacts, NodesAssumption
<1>3. /\ v \in [Sides -> [Nodes -> Int]] /\ o2 \in [Nodes -> Int] /\ o2[m] = o[n]
      /\ \A q \in Nodes : q # m => o2[q] = o[q]
  BY <1>1
<1>4. \A d \in Sides : v[d][m] = w[d][n] /\ \A q \in Nodes : q # m => v[d][q] = w[d][q]
  BY <1>1
<1> HIDE DEF v
<1>5. \A q \in L, d \in Sides : Fits(o, w, q, d, t[d][q])
  BY DEF Placed
<1>6. \A d \in Sides : Other(d) \in Sides
  BY DEF Sides, Other
<1>7. ASSUME NEW d \in Sides PROVE Fits(o2, v, m, d, u[d][m])
  <2>1. u[d][m] = t[d][n]
    BY DEF SwapAt
  <2>2. Fits(o, w, n, d, t[d][n])
    BY <1>5
  <2>3. PICK k : k = t[d][n]
    OBVIOUS
  <2>4. k \in L \cup {nil} /\ k # m
    BY <1>2, <2>3
  <2>5. Other(d) \in Sides
    BY <1>6
  <2>6. k \in L => v[d][k] = w[d][k] /\ v[Other(d)][k] = w[Other(d)][k]
    BY <1>1, <1>4, <2>4, <2>5
  <2>7. v[d][m] = w[d][n] /\ o2[m] = o[n]
    BY <1>3, <1>4
  <2>8. Fits(o2, v, m, d, k)
    <3>1. CASE k = nil
      BY <2>2, <2>3, <2>7, <3>1 DEF Fits
    <3>2. CASE k # nil
      BY <2>2, <2>3, <2>4, <2>6, <2>7, <3>2 DEF Fits
    <3>3. QED
      BY <3>1, <3>2
  <2>9. QED
    BY <2>1, <2>3, <2>8
<1>8. ASSUME NEW q \in L \ {n}, NEW d \in Sides PROVE Fits(o2, v, q, d, u[d][q])
  <2>1. q \in Nodes /\ q # m /\ q # root
    BY <1>1, <1>2
  <2>2. u[d][q] = IF q = p /\ d = a THEN m ELSE t[d][q]
    BY <2>1 DEF SwapAt
  <2>3. Fits(o, w, q, d, t[d][q])
    BY <1>5
  <2>4. v[d][q] = w[d][q] /\ o2[q] = o[q] /\ Other(d) \in Sides
    BY <1>3, <1>4, <1>6, <2>1
  <2>5. CASE q = p /\ d = a
    <3>1. u[d][q] = m /\ t[d][q] = n
      BY <2>2, <2>5
    <3>2. w[d][n] = w[d][q] /\ w[Other(d)][n] = o[q] + Step(d)
      BY <1>2, <2>3, <3>1 DEF Fits
    <3>3. v[d][m] = v[d][q] /\ v[Other(d)][m] = o2[q] + Step(d)
      BY <1>4, <2>4, <3>2
    <3>4. QED
      BY <1>2, <3>1, <3>3 DEF Fits
  <2>6. CASE ~(q = p /\ d = a)
    <3>1. PICK k : k = t[d][q]
      OBVIOUS
    <3>2. u[d][q] = k /\ k \in L \cup {nil} /\ k # m
      BY <1>2, <2>2, <2>6, <3>1
    <3>3. k \in L => v[d][k] = w[d][k] /\ v[Other(d)][k] = w[Other(d)][k]
      BY <1>1, <1>4, <2>4, <3>2
    <3>4. CASE k = nil
      BY <2>3, <2>4, <3>1, <3>2, <3>4 DEF Fits
    <3>5. CASE k # nil
      BY <2>3, <2>4, <3>1, <3>2, <3>3, <3>5 DEF Fits
    <3>6. QED
      BY <3>4, <3>5
  <2>7. QED
    BY <2>5, <2>6
<1>9. IF First(u) = nil THEN N = 0
      ELSE v["left"][First(u)] = 1 /\ v["right"][First(u)] = N
  <2>1. /\ "left" \in Sides /\ "right" \in Sides
        /\ First(t) = t["left"][root] /\ First(u) = u["left"][root]
    BY DEF Sides, First
  <2>2. First(t) # nil /\ First(t) \in L
    BY <1>2, <2>1, NotEmpty
  <2>3. w["left"][First(t)] = 1 /\ w["right"][First(t)] = N
    BY <2>2 DEF Placed
  <2>4. First(u) = IF root = p /\ "left" = a THEN m ELSE First(t)
    BY <1>2, <2>1 DEF SwapAt
  <2>5. CASE root = p /\ "left" = a
    <3>1. First(t) = n /\ First(u) = m
      BY <2>1, <2>4, <2>5
    <3>2. QED
      BY <1>2, <1>4, <2>1, <2>3, <3>1
  <2>6. CASE ~(root = p /\ "left" = a)
    <3>1. First(u) = First(t) /\ First(t) # m /\ First(t) \in Nodes
      BY <1>1, <2>2, <2>4, <2>6
    <3>2. QED
      BY <1>4, <2>1, <2>2, <2>3, <3>1
  <2>7. QED
    BY <2>5, <2>6
<1>10. Placed(u, (L \ {n}) \cup {m}, o2, v, N)
  <2>1. \A q \in (L \ {n}) \cup {m}, d \in Sides : Fits(o2, v, q, d, u[d][q])
    BY <1>7, <1>8
  <2>2. QED
    BY <1>3, <1>9, <2>1, Zenon DEF Placed
<1>11. QED
  BY <1>10

(* So the list has m where it had n.                                       *)
LEMMA SwapListed ==
  ASSUME NEW t, NEW u, NEW L \in SUBSET Nodes, Shaped(t, L), NEW n \in L, NEW m \in Nodes \ L,
         NEW a \in Sides, t[a][t.parent[n]] = n, SwapAt(t, u, L, a, n, m),
         NEW s, Listed(t, L, s)
  PROVE  Listed(u, (L \ {n}) \cup {m}, Swapped(s, n, m))
<1>1. PICK o, w : Numbered(L, s, o) /\ Placed(t, L, o, w, Len(s))
  BY DEF Listed
<1>2. PICK N \in Nat : N = Len(s)
  BY <1>1 DEF Numbered
<1>3. PICK r : r = Swapped(s, n, m)
  OBVIOUS
<1>4. PICK o2 : o2 = [o EXCEPT ![m] = o[n]]
  OBVIOUS
<1>5. PICK K : K = (L \ {n}) \cup {m}
  OBVIOUS
<1>6. /\ s \in Seq(L) /\ DOMAIN s = 1..N /\ o \in [Nodes -> Int]
      /\ \A i \in 1..N : s[i] \in L /\ o[s[i]] = i
      /\ \A q \in L : o[q] \in 1..N /\ s[o[q]] = q
  <2>1. o \in [Nodes -> Int]
    BY <1>1 DEF Placed
  <2>2. /\ s \in Seq(L) /\ \A i \in 1..N : o[s[i]] = i
        /\ \A q \in L : o[q] \in 1..N /\ s[o[q]] = q
    BY <1>1, <1>2 DEF Numbered
  <2>3. DOMAIN s = 1..N /\ \A i \in 1..N : s[i] \in L
    BY <1>2, <2>2
  <2>4. QED
    BY <2>1, <2>2, <2>3
<1>7. r = [i \in 1..N |-> IF s[i] = n THEN m ELSE s[i]]
  BY <1>2, <1>3, Zenon DEF Swapped
<1>8. \A i \in 1..N : r[i] = (IF s[i] = n THEN m ELSE s[i]) /\ r[i] \in K
  BY <1>5, <1>6, <1>7
<1>9. r \in Seq(K) /\ Len(r) = N
  <2>1. r \in [1..N -> K]
    BY <1>7, <1>8
  <2>2. QED
    BY <2>1
<1>10. o2[m] = o[n] /\ \A q \in L : o2[q] = o[q]
  BY <1>4, <1>6
<1>11. \A i \in 1..N : o2[r[i]] = i
  BY <1>6, <1>8, <1>10
<1>12. \A q \in K : o2[q] \in 1..N /\ r[o2[q]] = q
  <2>1. o2[m] \in 1..N /\ r[o2[m]] = m
    BY <1>6, <1>8, <1>10
  <2>2. \A q \in L : q # n => o2[q] \in 1..N /\ r[o2[q]] = q
    BY <1>6, <1>8, <1>10
  <2>3. QED
    BY <1>5, <2>1, <2>2
<1>13. Numbered(K, r, o2)
  BY <1>9, <1>11, <1>12 DEF Numbered
<1>14. \E v : Placed(u, (L \ {n}) \cup {m}, o2, v, N)
  <2>1. Placed(t, L, o, w, N)
    BY <1>1, <1>2
  <2>2. QED
    BY <1>4, <2>1, SwapPlaces
<1>15. QED
  BY <1>3, <1>5, <1>9, <1>13, <1>14, Zenon DEF Listed

(* The list only depends on the links of the linked nodes.                 *)
LEMMA LinksListed ==
  ASSUME NEW t, NEW u, NEW L, \A q \in L \cup {root}, d \in Sides : u[d][q] = t[d][q],
         NEW s, Listed(t, L, s)
  PROVE  Listed(u, L, s)
<1>1. PICK o, w : Numbered(L, s, o) /\ Placed(t, L, o, w, Len(s))
  BY DEF Listed
<1>2. First(u) = First(t)
  BY DEF First, Sides
<1>3. \A q \in L, d \in Sides : u[d][q] = t[d][q]
  OBVIOUS
<1>4. Placed(u, L, o, w, Len(s))
  BY <1>1, <1>2, <1>3, Zenon DEF Placed
<1>5. QED
  BY <1>1, <1>4, Zenon DEF Listed

(* Neither the spliced node's move nor the release changes a key but that  *)
(* of the node released.                                                   *)
LEMMA InPlaceKey ==
  ASSUME NEW t \in Tree, NEW n, NEW m PROVE InPlaceOf(t, n, m).key = t.key
BY DEF InPlaceOf, Relink, Tree

KeysBut(t, u, n) == \A q \in Nodes : q # n => u.key[q] = t.key[q]

(* Releasing n wipes the key of n only.                                    *)
LEMMA UnusedKey ==
  ASSUME NEW t \in Tree, NEW n, NEW u, u = Unused(t, n)
  PROVE  KeysBut(t, u, n)
<1>1. u.key = [t.key EXCEPT ![n] = 0]
  BY DEF Unused, Tree
<1>2. t.key \in [All -> Int] /\ Nodes \subseteq All
  BY DEF Tree, All
<1>3. QED
  BY <1>1, <1>2 DEF KeysBut

(* m stands in the list where n stood, and was shown there already.        *)
LEMMA PicturedSwap ==
  ASSUME NEW L \in SUBSET Nodes, NEW s \in Seq(L), NEW n \in Nodes, NEW m \in Nodes, m # n,
         NEW t, NEW u, KeysBut(t, u, n), NEW r, r = Swapped(s, n, m)
  PROVE  Pictured(u, nil, nil, r) = Pictured(t, n, m, s)
<1>0. \A q \in Nodes : q # n => u.key[q] = t.key[q]
  BY DEF KeysBut
<1>1. PICK N \in Nat : N = Len(s)
  OBVIOUS
<1>3. DOMAIN s = 1..N /\ \A i \in 1..N : s[i] \in L
  BY <1>1
<1>4. r = [i \in 1..N |-> IF s[i] = n THEN m ELSE s[i]]
  BY <1>1, Zenon DEF Swapped
<1>5. Len(r) = N
  BY <1>1, <1>4
<1>6. \A q \in Nodes : q # n => Seen(u, nil, nil)[q] = [id |-> q, key |-> t.key[q]]
  BY <1>0, NodesAssumption DEF Seen
<1>7. /\ Seen(t, n, m)[n] = [id |-> m, key |-> t.key[m]]
      /\ \A q \in Nodes : q # n => Seen(t, n, m)[q] = [id |-> q, key |-> t.key[q]]
  BY DEF Seen
<1> DEFINE f == Seen(u, nil, nil)
           g == Seen(t, n, m)
<1>8. ASSUME NEW i \in 1..N PROVE f[r[i]] = g[s[i]]
  <2>1. r[i] = (IF s[i] = n THEN m ELSE s[i]) /\ s[i] \in Nodes
    BY <1>3, <1>4
  <2>2. QED
    BY <1>6, <1>7, <2>1
<1>9. /\ Pictured(u, nil, nil, r) = [i \in 1..N |-> f[r[i]]]
      /\ Pictured(t, n, m, s) = [i \in 1..N |-> g[s[i]]]
  BY <1>1, <1>5, Zenon DEF Pictured
<1> HIDE DEF f, g
<1>10. QED
  BY <1>8, <1>9

(* Without a move: n is not in the list any more.                          *)
LEMMA PicturedWithout ==
  ASSUME NEW L \in SUBSET Nodes, NEW s \in Seq(L), NEW n, n \notin L,
         NEW t, NEW u, KeysBut(t, u, n)
  PROVE  Pictured(u, nil, nil, s) = Pictured(t, n, n, s)
<1>1. \A q \in L : Seen(u, nil, nil)[q] = Seen(t, n, n)[q]
  <2>1. SUFFICES ASSUME NEW q \in L PROVE Seen(u, nil, nil)[q] = Seen(t, n, n)[q]
    OBVIOUS
  <2>2. q \in Nodes /\ q # n /\ q # nil
    BY NodesAssumption
  <2>3. Seen(u, nil, nil)[q] = [id |-> q, key |-> u.key[q]]
    BY <2>2 DEF Seen
  <2>4. Seen(t, n, n)[q] = [id |-> q, key |-> t.key[q]]
    BY <2>2 DEF Seen
  <2>5. QED
    BY <2>2, <2>3, <2>4 DEF KeysBut
<1>2. \A i \in 1..Len(s) : s[i] \in L
  OBVIOUS
<1> DEFINE f == Seen(u, nil, nil)
           g == Seen(t, n, n)
<1>3. /\ Pictured(u, nil, nil, s) = [i \in 1..Len(s) |-> f[s[i]]]
      /\ Pictured(t, n, n, s) = [i \in 1..Len(s) |-> g[s[i]]]
  BY Zenon DEF Pictured
<1>4. \A i \in 1..Len(s) : f[s[i]] = g[s[i]]
  BY <1>1, <1>2
<1> HIDE DEF f, g
<1>5. QED
  BY <1>3, <1>4

(* The end of RBDelete does not show: the list has its entry gone already. *)
LEMMA DeleteDoneUnseen ==
  ASSUME RbtInv, RbtInv', DeleteDone, NEW s, Listed(tree, Linked, s)
  PROVE  (\E r : Listed(tree', Linked', r)) /\ Shown' = Shown /\ (Bare(tree) => Bare(tree'))
<1>1. /\ pc = "replace"
      /\ tree' = Unused(IF y = z THEN tree ELSE InPlaceOf(tree, z, y), z)
      /\ live' = live \ {z}
      /\ pc' = "idle" /\ y' = nil /\ z' = nil
  BY DEF DeleteDone
<1>2. PICK t : t = tree
  OBVIOUS
<1>3. PICK u : u = tree'
  OBVIOUS
<1>4. PICK L : L = live \ {y}
  OBVIOUS
<1>5. PICK n : n = z
  OBVIOUS
<1>6. PICK m : m = y
  OBVIOUS
<1>7. /\ Linked = L /\ live \in SUBSET Nodes /\ L \in SUBSET Nodes
      /\ m \in Nodes /\ n \in Nodes /\ m \in live /\ n \in live /\ m \notin L
  BY <1>1, <1>4, <1>5, <1>6 DEF RbtInv, RbtTypeOK, Linked, Deleting
<1>8. Linked' = live \ {n} /\ pc' # "destroyed" /\ pc # "destroyed"
  BY <1>1, <1>5 DEF Linked, Deleting
<1>9. t \in Tree /\ Shaped(t, L) /\ Wired(t, L)
  BY <1>2, <1>7, <1>8, AroundTree DEF Shaped
<1>10. Listed(t, L, s) /\ s \in Seq(L)
  BY <1>2, <1>7 DEF Listed, Numbered
<1>11. Shown = Pictured(t, n, m, s)
  BY <1>2, <1>5, <1>6, <1>8, ShownNow
<1>12. \E r : /\ Listed(u, live \ {n}, r)
              /\ Pictured(u, nil, nil, r) = Pictured(t, n, m, s)
              /\ Bare(t) => Bare(u)
  <2>1. CASE m = n
    <3>1. u = Unused(t, n) /\ L = live \ {n}
      BY <1>1, <1>2, <1>3, <1>4, <1>5, <1>6, <2>1
    <3>2. Cleared(t, u, n)
      BY <1>7, <1>9, <3>1, UnusedEffect
    <3>3. \A q \in L \cup {root} : q \in All /\ q # n
      BY <1>5, <1>7, <3>1, NodesAssumption DEF All
    <3>4. \A q \in L \cup {root}, d \in Sides : u[d][q] = t[d][q]
      BY <3>2, <3>3 DEF Cleared
    <3>5. Listed(u, L, s)
      BY <1>10, <3>4, LinksListed
    <3>6. KeysBut(t, u, n)
      BY <1>9, <3>1, UnusedKey
    <3>7. Pictured(u, nil, nil, s) = Pictured(t, n, n, s)
      BY <1>7, <1>10, <3>1, <3>6, PicturedWithout
    <3>8. Bare(t) => Bare(u)
      <4>1. nil \in All /\ nil # n
        BY <1>7, NodesAssumption DEF All
      <4>2. QED
        BY <3>2, <4>1 DEF Cleared, Bare
    <3>9. QED
      BY <2>1, <3>1, <3>5, <3>7, <3>8
  <2>2. CASE m # n
    <3>1. n \in L /\ (L \ {n}) \cup {m} = live \ {n} /\ m \in Nodes \ L
      BY <1>4, <1>6, <1>7, <2>2
    <3>2. t.parent[n] \in L \cup {root}
      BY <1>9, <3>1 DEF Wired
    <3>3. PICK a \in Sides : t[a][t.parent[n]] = n /\ t[Other(a)][t.parent[n]] # n
      BY <1>9, <3>1 DEF Wired
    <3>4. t.parent[n] # m /\ n # root /\ m # root
      BY <1>7, <3>2, NodesAssumption
    <3>5. PICK v : v = InPlaceOf(t, n, m)
      OBVIOUS
    <3>6. Taken(t, v, a, n, m)
      BY <1>7, <1>9, <3>3, <3>4, <3>5, InPlaceEffect
    <3>7. u = Unused(v, n) /\ v \in Tree
      BY <1>1, <1>2, <1>3, <1>5, <1>6, <2>2, <3>5, <3>6 DEF Taken
    <3>8. Cleared(v, u, n)
      BY <1>7, <3>7, UnusedEffect
    <3>9. SwapAt(t, u, L, a, n, m)
      <4>1. SUFFICES ASSUME NEW q \in (L \ {n}) \cup {m, root}, NEW d \in Sides
                     PROVE  u[d][q] = IF q = m THEN t[d][n]
                                      ELSE IF q = t.parent[n] /\ d = a THEN m ELSE t[d][q]
        BY DEF SwapAt
      <4>2. q \in All /\ q # n
        BY <1>7, <2>2, <3>4 DEF All
      <4>3. u[d][q] = v[d][q]
        BY <3>8, <4>2 DEF Cleared
      <4>4. v[d][q] = IF q = m THEN t[d][n]
                      ELSE IF q = t.parent[n] /\ d = a THEN m ELSE t[d][q]
        BY <3>6, <4>2 DEF Taken
      <4>5. QED
        BY <4>3, <4>4
    <3>10. Listed(u, (L \ {n}) \cup {m}, Swapped(s, n, m))
      BY <1>7, <1>9, <1>10, <3>1, <3>3, <3>9, SwapListed
    <3>11. KeysBut(t, u, n)
      <4>1. v.key = t.key
        BY <1>9, <3>5, InPlaceKey
      <4>2. KeysBut(v, u, n)
        BY <3>7, UnusedKey
      <4>3. QED
        BY <4>1, <4>2 DEF KeysBut
    <3>12. PICK r : r = Swapped(s, n, m)
      OBVIOUS
    <3>13. Pictured(u, nil, nil, r) = Pictured(t, n, m, s)
      BY <1>7, <1>10, <2>2, <3>11, <3>12, PicturedSwap
    <3>14. Bare(t) => Bare(u)
      <4>1. nil \in All /\ nil # n /\ nil # m /\ nil # t.parent[n]
        BY <1>7, <3>2, NodesAssumption DEF All
      <4>2. \A d \in Sides : u[d][nil] = v[d][nil] /\ v[d][nil] = t[d][nil]
        BY <3>6, <3>8, <4>1 DEF Cleared, Taken
      <4>3. QED
        BY <4>2 DEF Bare
    <3>15. QED
      BY <3>1, <3>10, <3>12, <3>13, <3>14
  <2>3. QED
    BY <2>1, <2>2
<1>13. PICK r : /\ Listed(u, live \ {n}, r)
                /\ Pictured(u, nil, nil, r) = Pictured(t, n, m, s)
                /\ Bare(t) => Bare(u)
  BY <1>12
<1>14. Listed(tree', Linked', r)
  BY <1>3, <1>8, <1>13
<1>15. Shown' = Pictured(tree', z', y', r)
  BY <1>8, <1>14, ShownNext
<1>16. Shown' = Pictured(u, nil, nil, r)
  BY <1>1, <1>3, <1>15
<1>17. QED
  BY <1>2, <1>3, <1>11, <1>13, <1>14, <1>16

(* The list of an empty tree is empty.                                     *)
LEMMA InitListed ==
  Init => RbtInv /\ Listed(tree, Linked, <<>>) /\ Shown = <<>> /\ Bare(tree)
<1> SUFFICES ASSUME Init
             PROVE  RbtInv /\ Listed(tree, Linked, <<>>) /\ Shown = <<>> /\ Bare(tree)
  OBVIOUS
<1>1. RbtInv
  BY InitHolds
<1>2. pc = "idle" /\ Linked = {} /\ First(tree) = nil
  BY DEF Init, Linked, Deleting, First, All
<1>3. Listed(tree, {}, <<>>)
  <2> DEFINE o == [q \in Nodes |-> 0]
             w == [d \in Sides |-> o]
  <2>1. Numbered({}, <<>>, o)
    BY DEF Numbered
  <2>2. o \in [Nodes -> Int] /\ w \in [Sides -> [Nodes -> Int]]
    OBVIOUS
  <2>3. Len(<<>>) = 0
    OBVIOUS
  <2> HIDE DEF o, w
  <2>4. Placed(tree, {}, o, w, Len(<<>>))
    BY <1>2, <2>2, <2>3 DEF Placed
  <2>5. QED
    BY <2>1, <2>4, Zenon DEF Listed
<1>4. Shown = Pictured(tree, z, y, <<>>)
  BY <1>1, <1>2, <1>3, ShownNow
<1>5. Pictured(tree, z, y, <<>>) = <<>>
  BY DEF Pictured
<1>6. Bare(tree)
  BY DEF Init, Bare, Sides, All
<1>7. QED
  BY <1>1, <1>2, <1>3, <1>4, <1>5, <1>6

(* While the tree is there its nodes are numbered in the order of its walk,*)
(* and the list is sorted: the invariant under which a step of the tree is *)
(* a step of the list.                                                     *)
ListInv ==
  /\ RbtInv
  /\ pc # "destroyed" => \E s : Listed(tree, Linked, s)
  /\ Ascending(Shown)
  /\ Bare(tree)

(* The empty tree stands for the empty list.                               *)
LEMMA InitList == Init => ListInv /\ List!Init
<1> SUFFICES ASSUME Init PROVE ListInv /\ List!Init
  OBVIOUS
<1>1. RbtInv /\ Listed(tree, Linked, <<>>) /\ Shown = <<>> /\ Bare(tree)
  BY InitListed
<1>2. PICK q : q = Shown
  OBVIOUS
<1>3. DOMAIN q = {}
  BY <1>1, <1>2
<1>4. Ascending(q)
  BY <1>3 DEF Ascending
<1>5. ListInv
  BY <1>1, <1>2, <1>4 DEF ListInv
<1>6. List!Init
  BY <1>1, Zenon DEF List!Init
<1>7. QED
  BY <1>5, <1>6

(* Unseen steps leave the list as it is.                                   *)
LEMMA UnseenKeeps ==
  ASSUME RbtInv', pc # "destroyed", ListInv,
         \A s : Listed(tree, Linked, s) =>
                  (\E r : Listed(tree', Linked', r)) /\ Shown' = Shown /\ Bare(tree')
  PROVE  ListInv' /\ Shown' = Shown
<1>1. PICK s : Listed(tree, Linked, s)
  BY DEF ListInv
<1>2. (\E r : Listed(tree', Linked', r)) /\ Shown' = Shown /\ Bare(tree')
  BY <1>1
<1>3. Ascending(Shown')
  <2>1. Ascending(Shown)
    BY DEF ListInv
  <2>2. QED
    BY <1>2, <2>1, Zenon
<1>4. QED
  BY <1>2, <1>3 DEF ListInv

(* The same for the steps that leave the very list alone.                  *)
LEMMA UnseenStep ==
  ASSUME RbtInv', pc # "destroyed", ListInv, Unseen
  PROVE  ListInv' /\ Shown' = Shown
<1>1. \A s : Listed(tree, Linked, s) =>
               (\E r : Listed(tree', Linked', r)) /\ Shown' = Shown /\ Bare(tree')
  BY Zenon DEF Unseen, ListInv
<1>2. QED
  BY <1>1, UnseenKeeps

(* The last step of the tree empties the list.                             *)
LEMMA DestroyShows ==
  ASSUME ListInv, RbtInv', RBTreeDestroy PROVE ListInv' /\ List!Next
<1>1. pc' = "destroyed" /\ Shown' = <<>> /\ Bare(tree')
  BY DEF RBTreeDestroy, Shown, ListInv
<1>2. PICK q : q = Shown'
  OBVIOUS
<1>3. DOMAIN q = {}
  BY <1>1, <1>2
<1>4. Ascending(q)
  BY <1>3 DEF Ascending
<1>5. ListInv'
  BY <1>1, <1>2, <1>4 DEF ListInv
<1>6. List!Next
  BY <1>1, Zenon DEF List!Next, List!Destroy
<1>7. QED
  BY <1>5, <1>6

(* Every step of the tree is a step of the list, or does not show.         *)
LEMMA NextList == ListInv /\ [Next]_vars => ListInv' /\ [List!Next]_Shown
<1> SUFFICES ASSUME ListInv, [Next]_vars PROVE ListInv' /\ [List!Next]_Shown
  OBVIOUS
<1>1. RbtInv /\ RbtInv' /\ Ascending(Shown) /\ Bare(tree)
  BY NextKeeps DEF ListInv
<1>2. ASSUME pc # "destroyed" PROVE \E s : Listed(tree, Linked, s)
  BY <1>2 DEF ListInv
<1>3. CASE \E add \in Adds : RBTreeInsert(add[1], add[2])
  <2>1. PICK add \in Adds : RBTreeInsert(add[1], add[2])
    BY <1>3
  <2>2. pc # "destroyed" /\ pc' # "destroyed"
    BY <2>1 DEF RBTreeInsert
  <2>3. PICK s : Listed(tree, Linked, s)
    BY <1>2, <2>2
  <2>4. (\E r : Listed(tree', Linked', r)) /\ Ascending(Shown') /\ List!Next /\ Bare(tree')
    BY <1>1, <2>1, <2>3, InsertShows
  <2>5. QED
    BY <1>1, <2>4 DEF ListInv
<1>4. CASE \E n \in Nodes : RBDelete(n)
  <2>1. PICK n \in Nodes : RBDelete(n)
    BY <1>4
  <2>2. pc # "destroyed"
    BY <2>1 DEF RBDelete
  <2>3. PICK s : Listed(tree, Linked, s)
    BY <1>2, <2>2
  <2>4. (\E r : Listed(tree', Linked', r)) /\ Ascending(Shown') /\ List!Next /\ Bare(tree')
    BY <1>1, <2>1, <2>3, DeleteShows
  <2>5. QED
    BY <1>1, <2>4 DEF ListInv
<1>5. CASE InsertRecolour
  BY <1>1, <1>5, RecolourUnseen, UnseenStep DEF InsertRecolour
<1>6. CASE InsertRotate
  BY <1>1, <1>6, InsertRotateUnseen, UnseenStep DEF InsertRotate
<1>7. CASE InsertDone
  BY <1>1, <1>7, InsertDoneUnseen, UnseenStep DEF InsertDone
<1>8. CASE FixUpSibling
  BY <1>1, <1>8, FixUpSiblingUnseen, UnseenStep DEF FixUpSibling, Climbing
<1>9. CASE FixUpRotate
  BY <1>1, <1>9, FixUpRotateUnseen, UnseenStep DEF FixUpRotate, Climbing
<1>10. CASE FixUpDone
  BY <1>1, <1>10, FixUpDoneUnseen, UnseenStep DEF FixUpDone
<1>11. CASE DeleteDone
  <2>1. pc # "destroyed"
    BY <1>11 DEF DeleteDone
  <2>2. \A s : Listed(tree, Linked, s) =>
                 (\E r : Listed(tree', Linked', r)) /\ Shown' = Shown /\ Bare(tree')
    BY <1>1, <1>11, DeleteDoneUnseen
  <2>3. QED
    BY <1>1, <2>1, <2>2, UnseenKeeps
<1>12. CASE RBTreeDestroy
  BY <1>1, <1>12, DestroyShows
<1>13. CASE UNCHANGED vars
  <2>1. Shown' = Shown /\ Linked' = Linked /\ pc' = pc /\ tree' = tree
    BY <1>13 DEF vars, Shown, Entry, Linked, Deleting
  <2>2. QED
    BY <1>1, <2>1 DEF ListInv
<1>14. QED
  BY <1>3, <1>4, <1>5, <1>6, <1>7, <1>8, <1>9, <1>10, <1>11, <1>12, <1>13 DEF Next

(* The list is sorted by key at every moment, also between the rotations   *)
(* of a repair and while a spliced node is out of the tree.                *)
THEOREM ListSorted == Spec => []Ascending(Shown)
<1>1. ListInv => Ascending(Shown)
  BY DEF ListInv
<1>2. Spec => []ListInv
  BY InitList, NextList, PTL DEF Spec
<1>3. QED
  BY <1>1, <1>2, PTL

(* RBTreeInsert and RBDelete do to the tree what they do to a sorted list  *)
(* with equal keys in the order of insertion, and the repairs do nothing.  *)
THEOREM TreeImplementsList == Spec => RefinesList
<1>1. Spec => List!Init /\ [][List!Next]_Shown
  BY InitList, NextList, PTL DEF Spec
<1>2. RefinesList <=> List!Spec
  BY DEF RefinesList
<1>3. List!Spec <=> List!Init /\ [][List!Next]_Shown
  BY DEF List!Spec
<1>4. QED
  BY <1>1, <1>2, <1>3

(***************************************************************************)
(* The queries.                                                            *)
(***************************************************************************)
(* A function may be defined by recursion along steps that lower a rank.   *)
Recursion(D, V, step, stop, r, B, base, h) ==
  /\ step \in [D -> D] /\ stop \in SUBSET D
  /\ r \in [D -> Nat] /\ B \in Nat /\ \A m \in D : r[m] < B
  /\ \A m \in D \ stop : r[step[m]] < r[m]
  /\ base \in [D -> V] /\ h \in [V -> V]

(* By induction on the rank, with the functions that are right below it.   *)
LEMMA RecursionExists ==
  ASSUME NEW D, NEW V, NEW step, NEW stop, NEW r, NEW B, NEW base, NEW h,
         Recursion(D, V, step, stop, r, B, base, h)
  PROVE  \E f \in [D -> V] : \A m \in D : f[m] = IF m \in stop THEN base[m] ELSE h[f[step[m]]]
<1>0. /\ step \in [D -> D] /\ stop \in SUBSET D
      /\ r \in [D -> Nat] /\ B \in Nat /\ \A m \in D : r[m] < B
      /\ \A m \in D \ stop : r[step[m]] < r[m]
      /\ base \in [D -> V] /\ h \in [V -> V]
  BY DEF Recursion
<1> USE <1>0
<1> DEFINE Good(k, f) == \A m \in D : m \in stop \/ r[m] < k =>
                           f[m] = IF m \in stop THEN base[m] ELSE h[f[step[m]]]
           E == {k \in Nat : ~\E f \in [D -> V] : Good(k, f)}
<1>1. E = {}
  <2>1. SUFFICES ASSUME E # {} PROVE FALSE
    OBVIOUS
  <2>2. PICK k \in E : \A j \in E : k <= j
    BY <2>1, FirstExists
  <2>3. k # 0
    <3>1. base \in [D -> V] /\ Good(0, base)
      OBVIOUS
    <3>2. QED
      BY <3>1, Zenon
  <2>4. k - 1 \in Nat /\ k - 1 \notin E
    <3>1. k \in Nat
      OBVIOUS
    <3> HIDE DEF E
    <3>2. QED
      BY <2>2, <2>3, <3>1
  <2>5. PICK f \in [D -> V] : Good(k - 1, f)
    BY <2>4
  <2> DEFINE g == [m \in D |-> IF m \in stop THEN base[m] ELSE h[f[step[m]]]]
  <2>6. g \in [D -> V]
    OBVIOUS
  <2>7. Good(k, g)
    <3> SUFFICES ASSUME NEW m \in D, m \in stop \/ r[m] < k
                 PROVE  g[m] = IF m \in stop THEN base[m] ELSE h[g[step[m]]]
      OBVIOUS
    <3>1. CASE m \in stop
      BY <3>1
    <3>2. CASE m \notin stop
      <4>1. PICK c \in D : c = step[m]
        OBVIOUS
      <4>2. r[c] < r[m] /\ r[c] \in Nat /\ r[m] \in Nat /\ k \in Nat
        BY <3>2, <4>1
      <4>3. r[c] < k - 1
        BY <3>2, <4>2
      <4>4. f[c] = IF c \in stop THEN base[c] ELSE h[f[step[c]]]
        BY <2>5, <4>3
      <4>5. g[c] = IF c \in stop THEN base[c] ELSE h[f[step[c]]]
        OBVIOUS
      <4>6. QED
        BY <3>2, <4>1, <4>4, <4>5
    <3>3. QED
      BY <3>1, <3>2
  <2> HIDE DEF g, Good
  <2>8. QED
    BY <2>2, <2>6, <2>7
<1>2. PICK f \in [D -> V] : Good(B, f)
  BY <1>1
<1>3. QED
  BY <1>2

(* What stands behind position i of the list s, and in front of it.        *)
NextIn(s, i) == IF i = Len(s) THEN nil ELSE s[i + 1]
PrevIn(s, i) == IF i = 1 THEN nil ELSE s[i - 1]

(* A tree at rest: nothing outside it points anywhere.                     *)
AtEase(t, L) ==
  /\ L \in SUBSET Nodes /\ Shaped(t, L) /\ Bare(t)
  /\ \A q \in Nodes \ L, d \in Sides : t[d][q] = nil

(* Who is not in the tree is nobody's child.                               *)
LEMMA NobodysChild ==
  ASSUME NEW t, NEW L, AtEase(t, L), NEW q \in Nodes \ L, NEW p \in All, NEW d \in Sides
  PROVE  t[d][p] # q
<1>1. L \in SUBSET Nodes /\ Shaped(t, L) /\ q # nil
  BY NodesAssumption DEF AtEase
<1>2. CASE p \in L \cup {root}
  BY <1>1, <1>2, WiredFacts
<1>3. CASE p \in Nodes \ L
  BY <1>1, <1>3 DEF AtEase
<1>4. CASE p = nil
  BY <1>1, <1>4 DEF AtEase, Bare
<1>5. QED
  BY <1>2, <1>3, <1>4 DEF All

(* A linked node, its parent, and what the numbers say of them.            *)
LEMMA ParentNumbers ==
  ASSUME NEW t, NEW L, AtEase(t, L), NEW o, NEW w, NEW N, Placed(t, L, o, w, N), NEW m \in L,
         NEW p, p = t.parent[m]
  PROVE  /\ p = root => m = t.left[p] /\ m # t.right[p] /\ w["left"][m] = 1 /\ w["right"][m] = N
         /\ p # root => p \in L
         /\ p # root /\ m = t.right[p] => m # t.left[p] /\ w["right"][m] = w["right"][p]
                                          /\ w["left"][m] = o[p] + 1
         /\ p # root /\ m # t.right[p] => m = t.left[p] /\ w["left"][m] = w["left"][p]
                                          /\ w["right"][m] = o[p] - 1
<1>1. /\ L \in SUBSET Nodes /\ Shaped(t, L) /\ p \in L \cup {root} /\ m # nil
      /\ t.right[root] = nil
  BY NodesAssumption DEF AtEase, Shaped, Wired
<1>2. m = t.left[p] \/ m = t.right[p]
  <2>1. \E d \in Sides : t[d][p] = m
    BY DEF AtEase, Shaped, Wired
  <2>2. QED
    BY <2>1 DEF Sides
<1>3. ~(m = t.left[p] /\ m = t.right[p])
  <2>1. \A s, d \in Sides : t[s][p] # nil /\ t[s][p] = t[d][p] => s = d
    BY <1>1, WiredFacts
  <2>2. "left" \in Sides /\ "right" \in Sides
    BY DEF Sides
  <2>3. QED
    BY <1>1, <2>1, <2>2
<1>4. CASE p = root
  <2>1. m = First(t)
    BY <1>1, <1>2, <1>4 DEF First
  <2>2. QED
    BY <1>1, <1>3, <1>4, <2>1 DEF Placed, First
<1>5. CASE p # root
  <2>1. p \in L
    BY <1>1, <1>5
  <2>2. /\ t.left[p] = m => w["left"][m] = w["left"][p] /\ w["right"][m] = o[p] - 1
        /\ t.right[p] = m => w["right"][m] = w["right"][p] /\ w["left"][m] = o[p] + 1
    BY <1>1, <2>1, ReachFacts
  <2>3. QED
    BY <1>2, <1>3, <1>5, <2>1, <2>2
<1>6. QED
  BY <1>4, <1>5

(* TreeSuccessor steps to the node behind, TreePredecessor to the one in   *)
(* front; at the ends of the list to none.                                 *)
LEMMA SuccessorNext ==
  ASSUME NEW t, NEW L, AtEase(t, L), NEW o, NEW w, NEW s, NEW N \in Nat, N = Len(s),
         Numbered(L, s, o), Placed(t, L, o, w, N), NEW n \in L
  PROVE  TreeSuccessor(t, n) = NextIn(s, o[n])
<1> DEFINE up[m \in Nodes] ==
             LET p == t.parent[m]
             IN  IF m = t.right[p] THEN up[p] ELSE IF p = root THEN nil ELSE p
           Nxt(i) == IF i = N THEN nil ELSE s[i + 1]
           body(f, m) == IF m = t.right[t.parent[m]] THEN f[t.parent[m]]
                         ELSE IF t.parent[m] = root THEN nil ELSE t.parent[m]
           f == [m \in Nodes |-> IF m \in L THEN Nxt(w["right"][m])
                                 ELSE IF t.parent[m] = root THEN nil ELSE t.parent[m]]
<1>1. /\ L \in SUBSET Nodes /\ Shaped(t, L) /\ t \in Tree
      /\ \A q \in Nodes \ L, d \in Sides : t[d][q] = nil
      /\ \A m \in L : t.parent[m] \in L \cup {root}
      /\ \A q \in L : o[q] \in 1..N /\ s[o[q]] = q
      /\ Nodes \subseteq All /\ root \notin L
  BY NodesAssumption DEF AtEase, Shaped, Wired, Numbered, All
<1>2. \A m \in L : LET p == t.parent[m] IN
        /\ p = root => m # t.right[p] /\ w["right"][m] = N
        /\ p # root => p \in L
        /\ p # root /\ m = t.right[p] => w["right"][m] = w["right"][p]
        /\ p # root /\ m # t.right[p] => w["right"][m] = o[p] - 1
  BY ParentNumbers
<1>3. \A m \in Nodes \ L : m # t.right[t.parent[m]]
  <2>1. SUFFICES ASSUME NEW m \in Nodes \ L PROVE m # t.right[t.parent[m]]
    OBVIOUS
  <2>2. t.parent[m] \in All
    BY <1>1 DEF Tree
  <2>3. QED
    BY <2>2, NobodysChild DEF Sides
<1>4. \A m \in L : f[m] = Nxt(w["right"][m])
  BY <1>1
<1>5. \A m \in Nodes : f[m] = body(f, m)
  <2>1. ASSUME NEW m \in L PROVE f[m] = body(f, m)
    <3>1. PICK p : p = t.parent[m]
      OBVIOUS
    <3>2. CASE p = root
      <4>1. m # t.right[p] /\ w["right"][m] = N
        BY <1>2, <3>1, <3>2
      <4>2. QED
        BY <1>4, <3>1, <3>2, <4>1
    <3>3. CASE p # root /\ m = t.right[p]
      <4>1. p \in L /\ w["right"][m] = w["right"][p]
        BY <1>2, <3>1, <3>3
      <4>2. f[m] = f[p]
        BY <1>4, <4>1
      <4> HIDE DEF f
      <4>3. body(f, m) = f[p]
        BY <3>1, <3>3
      <4> HIDE DEF body
      <4>4. QED
        BY <4>2, <4>3
    <3>4. CASE p # root /\ m # t.right[p]
      <4>1. p \in L /\ w["right"][m] = o[p] - 1
        BY <1>2, <3>1, <3>4
      <4>2. o[p] \in 1..N /\ s[o[p]] = p
        BY <1>1, <4>1
      <4>3. o[p] - 1 # N /\ (o[p] - 1) + 1 = o[p]
        BY <4>2
      <4>4. Nxt(w["right"][m]) = p
        BY <4>1, <4>2, <4>3
      <4>5. QED
        BY <1>4, <3>1, <3>4, <4>4
    <3>5. QED
      BY <3>2, <3>3, <3>4
  <2>2. ASSUME NEW m \in Nodes \ L PROVE f[m] = body(f, m)
    BY <1>3, <2>2
  <2>3. QED
    BY <2>1, <2>2
<1>6. f = [m \in Nodes |-> body(f, m)]
  <2>1. f = [m \in Nodes |-> f[m]]
    BY Zenon
  <2> HIDE DEF f, body
  <2>2. QED
    BY <1>5, <2>1, Zenon
<1>7. up = [m \in Nodes |-> body(up, m)]
  <2> HIDE DEF f
  <2>1. QED
    BY <1>6, Zenon
<1>8. TreeSuccessor(t, n) =
        IF t.right[n] # nil THEN Extreme(t, "left", t.right[n]) ELSE up[n]
  BY DEF TreeSuccessor
<1> HIDE DEF up, f
<1>9. \A m \in Nodes : up[m] = body(up, m)
  BY <1>7
<1>10. \A m \in L : up[m] = Nxt(w["right"][m])
  <2> DEFINE G == {m \in L : up[m] = Nxt(w["right"][m])}
  <2>1. ASSUME NEW m \in L, t.parent[m] = root \/ t.parent[m] \in G PROVE m \in G
    <3>1. PICK p : p = t.parent[m]
      OBVIOUS
    <3>2. CASE p = root
      <4>1. m # t.right[p] /\ w["right"][m] = N
        BY <1>2, <3>1, <3>2
      <4>2. QED
        BY <1>1, <1>9, <3>1, <3>2, <4>1
    <3>3. CASE p # root /\ m = t.right[p]
      <4>1. p \in L /\ w["right"][m] = w["right"][p]
        BY <1>2, <3>1, <3>3
      <4>2. up[m] = up[p] /\ up[p] = Nxt(w["right"][p])
        BY <1>1, <1>9, <2>1, <3>1, <3>3
      <4>3. QED
        BY <4>1, <4>2
    <3>4. CASE p # root /\ m # t.right[p]
      <4>1. p \in L /\ w["right"][m] = o[p] - 1
        BY <1>2, <3>1, <3>4
      <4>2. o[p] \in 1..N /\ s[o[p]] = p
        BY <1>1, <4>1
      <4>3. o[p] - 1 # N /\ (o[p] - 1) + 1 = o[p]
        BY <4>2
      <4>4. Nxt(w["right"][m]) = p
        BY <4>1, <4>2, <4>3
      <4>5. up[m] = p
        BY <1>1, <1>9, <3>1, <3>4
      <4>6. QED
        BY <4>4, <4>5
    <3>5. QED
      BY <3>2, <3>3, <3>4
  <2> HIDE DEF G
  <2>2. L \subseteq G
    BY <1>1, <2>1, FromAbove
  <2>3. QED
    BY <2>2 DEF G
<1>11. /\ t.right[n] \in L \cup {nil}
       /\ t.right[n] = nil => w["right"][n] = o[n]
       /\ t.right[n] # nil => w["left"][t.right[n]] = o[n] + 1
       /\ t.right[n] \in L => w["right"][t.right[n]] <= N /\ o[n] + 1 <= w["right"][t.right[n]]
  <2>1. /\ t.right[n] \in L \cup {nil}
        /\ t.right[n] = nil => w["right"][n] = o[n]
        /\ t.right[n] # nil => w["left"][t.right[n]] = o[n] + 1
    BY <1>1, ReachFacts
  <2>2. \A q \in L : o[q] \in 1..N
    BY <1>1
  <2>3. \A q \in L : /\ w["left"][q] <= o[q] /\ o[q] <= w["right"][q] /\ w["right"][q] <= N
                     /\ w["left"][q] \in Int /\ w["right"][q] \in Int /\ o[q] \in Int
    BY <1>1, <2>2, ReachBounds, ReachFacts
  <2>4. t.right[n] \in L => t.right[n] # nil
    BY <1>1, WiredFacts
  <2>5. QED
    BY <2>1, <2>3, <2>4
<1>12. CASE t.right[n] = nil
  BY <1>8, <1>10, <1>11, <1>12 DEF NextIn
<1>13. CASE t.right[n] # nil
  <2>1. PICK m : m = Extreme(t, "left", t.right[n])
    OBVIOUS
  <2>2. PICK r : r = t.right[n]
    OBVIOUS
  <2>3. r \in L /\ "left" \in Sides
    BY <1>11, <1>13, <2>2 DEF Sides
  <2>4. m \in L /\ o[m] = w["left"][r]
    BY <1>1, <2>1, <2>2, <2>3, ExtremeAt
  <2>5. o[m] = o[n] + 1 /\ s[o[m]] = m /\ o[m] \in 1..N /\ o[n] \in 1..N
    BY <1>1, <1>11, <1>13, <2>2, <2>4
  <2>6. NextIn(s, o[n]) = m
    BY <2>5 DEF NextIn
  <2>7. QED
    BY <1>8, <1>13, <2>1, <2>6
<1>14. QED
  BY <1>12, <1>13

(* The same from the other side: TreePredecessor.                          *)
LEMMA PredecessorPrev ==
  ASSUME NEW t, NEW L, AtEase(t, L), NEW o, NEW w, NEW s, NEW N \in Nat, N = Len(s),
         Numbered(L, s, o), Placed(t, L, o, w, N), NEW n \in L
  PROVE  TreePredecessor(t, n) = PrevIn(s, o[n])
<1> DEFINE up[m \in Nodes] ==
             LET p == t.parent[m]
             IN  IF m # t.left[p] THEN p ELSE IF p = root THEN nil ELSE up[p]
           Prv(i) == IF i = 1 THEN nil ELSE s[i - 1]
           body(f, m) == IF m # t.left[t.parent[m]] THEN t.parent[m]
                         ELSE IF t.parent[m] = root THEN nil ELSE f[t.parent[m]]
           f == [m \in Nodes |-> IF m \in L THEN Prv(w["left"][m]) ELSE t.parent[m]]
<1>1. /\ L \in SUBSET Nodes /\ Shaped(t, L) /\ t \in Tree
      /\ \A q \in Nodes \ L, d \in Sides : t[d][q] = nil
      /\ \A m \in L : t.parent[m] \in L \cup {root}
      /\ \A q \in L : o[q] \in 1..N /\ s[o[q]] = q
      /\ Nodes \subseteq All /\ root \notin L
  BY NodesAssumption DEF AtEase, Shaped, Wired, Numbered, All
<1>2. \A m \in L : LET p == t.parent[m] IN
        /\ p = root => m = t.left[p] /\ w["left"][m] = 1
        /\ p # root => p \in L
        /\ p # root /\ m = t.left[p] => w["left"][m] = w["left"][p]
        /\ p # root /\ m # t.left[p] => w["left"][m] = o[p] + 1
  BY ParentNumbers
<1>3. \A m \in Nodes \ L : m # t.left[t.parent[m]]
  <2>1. SUFFICES ASSUME NEW m \in Nodes \ L PROVE m # t.left[t.parent[m]]
    OBVIOUS
  <2>2. t.parent[m] \in All
    BY <1>1 DEF Tree
  <2>3. QED
    BY <2>2, NobodysChild DEF Sides
<1>4. \A m \in L : f[m] = Prv(w["left"][m])
  BY <1>1
<1>5. \A m \in Nodes : f[m] = body(f, m)
  <2>1. ASSUME NEW m \in L PROVE f[m] = body(f, m)
    <3>1. PICK p : p = t.parent[m]
      OBVIOUS
    <3>2. CASE p = root
      <4>1. m = t.left[p] /\ w["left"][m] = 1
        BY <1>2, <3>1, <3>2
      <4>2. QED
        BY <1>4, <3>1, <3>2, <4>1
    <3>3. CASE p # root /\ m = t.left[p]
      <4>1. p \in L /\ w["left"][m] = w["left"][p]
        BY <1>2, <3>1, <3>3
      <4>2. f[m] = f[p]
        BY <1>4, <4>1
      <4> HIDE DEF f
      <4>3. body(f, m) = f[p]
        BY <3>1, <3>3
      <4> HIDE DEF body
      <4>4. QED
        BY <4>2, <4>3
    <3>4. CASE p # root /\ m # t.left[p]
      <4>1. p \in L /\ w["left"][m] = o[p] + 1
        BY <1>2, <3>1, <3>4
      <4>2. o[p] \in 1..N /\ s[o[p]] = p
        BY <1>1, <4>1
      <4>3. o[p] + 1 # 1 /\ (o[p] + 1) - 1 = o[p]
        BY <4>2
      <4>4. Prv(w["left"][m]) = p
        BY <4>1, <4>2, <4>3
      <4>5. QED
        BY <1>4, <3>1, <3>4, <4>4
    <3>5. QED
      BY <3>2, <3>3, <3>4
  <2>2. ASSUME NEW m \in Nodes \ L PROVE f[m] = body(f, m)
    BY <1>3, <2>2
  <2>3. QED
    BY <2>1, <2>2
<1>6. f = [m \in Nodes |-> body(f, m)]
  <2>1. f = [m \in Nodes |-> f[m]]
    BY Zenon
  <2> HIDE DEF f, body
  <2>2. QED
    BY <1>5, <2>1, Zenon
<1>7. up = [m \in Nodes |-> body(up, m)]
  <2> HIDE DEF f
  <2>1. QED
    BY <1>6, Zenon
<1>8. TreePredecessor(t, n) =
        IF t.left[n] # nil THEN Extreme(t, "right", t.left[n]) ELSE up[n]
  BY DEF TreePredecessor
<1> HIDE DEF up, f
<1>9. \A m \in Nodes : up[m] = body(up, m)
  BY <1>7
<1>10. \A m \in L : up[m] = Prv(w["left"][m])
  <2> DEFINE G == {m \in L : up[m] = Prv(w["left"][m])}
  <2>1. ASSUME NEW m \in L, t.parent[m] = root \/ t.parent[m] \in G PROVE m \in G
    <3>1. PICK p : p = t.parent[m]
      OBVIOUS
    <3>2. CASE p = root
      <4>1. m = t.left[p] /\ w["left"][m] = 1
        BY <1>2, <3>1, <3>2
      <4>2. QED
        BY <1>1, <1>9, <3>1, <3>2, <4>1
    <3>3. CASE p # root /\ m = t.left[p]
      <4>1. p \in L /\ w["left"][m] = w["left"][p]
        BY <1>2, <3>1, <3>3
      <4>2. up[m] = up[p] /\ up[p] = Prv(w["left"][p])
        BY <1>1, <1>9, <2>1, <3>1, <3>3
      <4>3. QED
        BY <4>1, <4>2
    <3>4. CASE p # root /\ m # t.left[p]
      <4>1. p \in L /\ w["left"][m] = o[p] + 1
        BY <1>2, <3>1, <3>4
      <4>2. o[p] \in 1..N /\ s[o[p]] = p
        BY <1>1, <4>1
      <4>3. o[p] + 1 # 1 /\ (o[p] + 1) - 1 = o[p]
        BY <4>2
      <4>4. Prv(w["left"][m]) = p
        BY <4>1, <4>2, <4>3
      <4>5. up[m] = p
        BY <1>1, <1>9, <3>1, <3>4
      <4>6. QED
        BY <4>4, <4>5
    <3>5. QED
      BY <3>2, <3>3, <3>4
  <2> HIDE DEF G
  <2>2. L \subseteq G
    BY <1>1, <2>1, FromAbove
  <2>3. QED
    BY <2>2 DEF G
<1>11. /\ t.left[n] \in L \cup {nil}
       /\ t.left[n] = nil => w["left"][n] = o[n]
       /\ t.left[n] # nil => w["right"][t.left[n]] = o[n] - 1
  BY <1>1, ReachFacts
<1>12. CASE t.left[n] = nil
  BY <1>8, <1>10, <1>11, <1>12 DEF PrevIn
<1>13. CASE t.left[n] # nil
  <2>1. PICK m : m = Extreme(t, "right", t.left[n])
    OBVIOUS
  <2>2. PICK r : r = t.left[n]
    OBVIOUS
  <2>3. r \in L /\ "right" \in Sides
    BY <1>11, <1>13, <2>2 DEF Sides
  <2>4. m \in L /\ o[m] = w["right"][r]
    BY <1>1, <2>1, <2>2, <2>3, ExtremeAt
  <2>5. o[m] = o[n] - 1 /\ s[o[m]] = m /\ o[m] \in 1..N /\ o[n] \in 1..N
    BY <1>1, <1>11, <1>13, <2>2, <2>4
  <2>6. PrevIn(s, o[n]) = m
    BY <2>5 DEF PrevIn
  <2>7. QED
    BY <1>8, <1>13, <2>1, <2>6
<1>14. QED
  BY <1>12, <1>13

(* RBExactQuery goes down towards the key.                                 *)
Searches(t, k, go) ==
  \A m \in Nodes \cup {nil} :
    go[m] = IF m = nil \/ t.key[m] = k THEN m ELSE go[t[Below(t, m, k)][m]]

(* There is a function that does so, and RBExactQuery is its value.        *)
LEMMA SearchExists ==
  ASSUME NEW t, NEW L, AtEase(t, L), NEW k \in Int
  PROVE  \E go : Searches(t, k, go) /\ RBExactQuery(t, k) = go[First(t)]
<1> DEFINE D == Nodes \cup {nil}
           step == [m \in D |-> IF m = nil THEN nil ELSE t[Below(t, m, k)][m]]
           stop == {m \in D : m = nil \/ t.key[m] = k}
           go[m \in D] ==
             IF m = nil \/ t.key[m] = k THEN m
             ELSE IF Greater(t.key[m], k) THEN go[t.left[m]] ELSE go[t.right[m]]
<1>1. PICK e : Ranked(t, L, e)
  BY DEF AtEase, Shaped
<1>2. /\ L \in SUBSET Nodes /\ Shaped(t, L) /\ t \in Tree /\ nil \notin Nodes
      /\ \A m \in Nodes, d \in Sides : t[d][m] \in D /\ (m \notin L => t[d][m] = nil)
  BY NodesAssumption DEF AtEase, Shaped, Tree, Sides, All
<1>3. \A m \in Nodes : Below(t, m, k) \in Sides
  BY DEF Below, Sides
<1>4. step \in [D -> D]
  BY <1>2, <1>3
<1>5. e[root] \in Nat /\ \A m \in L : e[m] \in Nat /\ e[m] < e[root] /\ m # nil
  BY <1>1, <1>2, WiredFacts DEF Ranked
<1> DEFINE r == [m \in D |-> IF m = nil THEN 0 ELSE IF m \in L THEN e[m] + 1 ELSE 1]
<1>6. r \in [D -> Nat] /\ e[root] + 2 \in Nat /\ \A m \in D : r[m] < e[root] + 2
  BY <1>5
<1>7. ASSUME NEW m \in D \ stop PROVE r[step[m]] < r[m]
  <2>1. m \in Nodes /\ m # nil
    OBVIOUS
  <2>2. PICK c : c = t[Below(t, m, k)][m]
    OBVIOUS
  <2>3. c = step[m] /\ c \in D /\ (m \notin L => c = nil)
    BY <1>2, <1>3, <2>1, <2>2
  <2>4. CASE c = nil
    BY <1>2, <1>5, <2>1, <2>3, <2>4
  <2>5. CASE c # nil
    <3>1. m \in L /\ c \in L
      BY <1>2, <1>3, <2>1, <2>2, <2>3, <2>5, WiredFacts
    <3>2. t.parent[c] = m
      BY <1>2, <1>3, <2>2, <2>5, <3>1 DEF Shaped, Wired
    <3>3. e[c] < e[m] /\ e[c] \in Nat /\ e[m] \in Nat /\ m # nil
      BY <1>1, <1>5, <3>1, <3>2 DEF Ranked
    <3>4. r[c] = e[c] + 1 /\ r[m] = e[m] + 1
      BY <2>3, <2>5, <3>1, <3>3
    <3>5. QED
      BY <2>3, <3>3, <3>4
  <2>6. QED
    BY <2>4, <2>5
<1>8. stop \in SUBSET D
  OBVIOUS
<1>8a. PICK i : i = [m \in D |-> m]
  OBVIOUS
<1>8b. i \in [D -> D]
  BY <1>8a
<1>8c. PICK B \in Nat : B = e[root] + 2
  BY <1>6
<1> HIDE DEF r, step, stop, D
<1>9. \E f \in [D -> D] : \A m \in D : f[m] = IF m \in stop THEN i[m] ELSE i[f[step[m]]]
  <2>1. \A m \in D : r[m] < B
    BY <1>6, <1>8c
  <2>2. \A m \in D \ stop : r[step[m]] < r[m]
    BY <1>7
  <2>3. r \in [D -> Nat]
    BY <1>6
  <2>4. Recursion(D, D, step, stop, r, B, i, i)
    BY <1>4, <1>8, <1>8b, <2>1, <2>2, <2>3 DEF Recursion
  <2>5. QED
    BY <2>4, RecursionExists
<1>10. PICK f \in [D -> D] : \A m \in D : f[m] = IF m \in stop THEN i[m] ELSE i[f[step[m]]]
  BY <1>9
<1>11. \A m \in D : f[m] = IF m \in stop THEN m ELSE f[step[m]]
  <2>1. SUFFICES ASSUME NEW m \in D PROVE f[m] = IF m \in stop THEN m ELSE f[step[m]]
    OBVIOUS
  <2>2. step[m] \in D
    BY <1>4
  <2>3. f[step[m]] \in D
    BY <2>2
  <2>4. \A v \in D : i[v] = v
    BY <1>8a
  <2>5. QED
    BY <1>10, <2>3, <2>4
<1>12. \A m \in Nodes : /\ Below(t, m, k) = "left" => t[Below(t, m, k)][m] = t.left[m]
                        /\ Below(t, m, k) = "right" => t[Below(t, m, k)][m] = t.right[m]
  OBVIOUS
<1>13. ASSUME NEW g
       PROVE  \A m \in D :
                (IF m \in stop THEN m ELSE g[step[m]]) =
                (IF m = nil \/ t.key[m] = k THEN m
                 ELSE IF Greater(t.key[m], k) THEN g[t.left[m]] ELSE g[t.right[m]])
  BY DEF stop, step, D, Below
<1>14. f = [m \in D |-> IF m = nil \/ t.key[m] = k THEN m
                        ELSE IF Greater(t.key[m], k) THEN f[t.left[m]] ELSE f[t.right[m]]]
  <2>1. f = [m \in D |-> f[m]]
    OBVIOUS
  <2>2. \A m \in D : f[m] = IF m = nil \/ t.key[m] = k THEN m
                        ELSE IF Greater(t.key[m], k) THEN f[t.left[m]] ELSE f[t.right[m]]
    BY <1>11, <1>13
  <2>3. QED
    BY <2>1, <2>2, Zenon
<1>15. go = [m \in D |-> IF m = nil \/ t.key[m] = k THEN m
                         ELSE IF Greater(t.key[m], k) THEN go[t.left[m]] ELSE go[t.right[m]]]
  BY <1>14, Zenon
<1>16. RBExactQuery(t, k) = go[First(t)]
  BY DEF RBExactQuery, D
<1> HIDE DEF go
<1>17. Searches(t, k, go)
  <2>1. \A m \in D : go[m] = IF m = nil \/ t.key[m] = k THEN m
                         ELSE IF Greater(t.key[m], k) THEN go[t.left[m]] ELSE go[t.right[m]]
    BY <1>15, Zenon
  <2>2. \A m \in Nodes : go[t[Below(t, m, k)][m]] =
                           IF Greater(t.key[m], k) THEN go[t.left[m]] ELSE go[t.right[m]]
    BY DEF Below
  <2>3. QED
    BY <1>2, <2>1, <2>2 DEF Searches, D
<1>18. QED
  BY <1>16, <1>17

(* The node found has the key, and all that have it are below that node.   *)
Finds(t, L, s, w, k, q, lo, hi) ==
  IF q = nil THEN \A j \in lo..hi : t.key[s[j]] # k
  ELSE /\ q \in L /\ t.key[q] = k
       /\ \A j \in lo..hi : t.key[s[j]] = k => w["left"][q] <= j /\ j <= w["right"][q]

(* Where the reach of a node is searched, the rest of the list is out of   *)
(* the question: its keys are too great or too small.                      *)
LEMMA QueryFinds ==
  ASSUME NEW t, NEW L, AtEase(t, L), NEW o, NEW w, NEW s, NEW N \in Nat, N = Len(s),
         Numbered(L, s, o), Placed(t, L, o, w, N), Ascends(t, s, N), NEW k \in Int,
         NEW q, q = RBExactQuery(t, k)
  PROVE  Finds(t, L, s, w, k, q, 1, N)
<1>1. PICK go : Searches(t, k, go) /\ q = go[First(t)]
  BY SearchExists
<1> DEFINE lo(m) == w["left"][m]
           hi(m) == w["right"][m]
           G == {m \in L : Finds(t, L, s, w, k, go[m], lo(m), hi(m))}
<1>2. L \in SUBSET Nodes /\ Shaped(t, L) /\ nil \notin L /\ nil \notin Nodes
  BY NodesAssumption DEF AtEase
<1>3. \A m \in L : /\ o[m] \in Int /\ lo(m) \in Int /\ hi(m) \in Int
                   /\ t.left[m] \in L \cup {nil} /\ t.right[m] \in L \cup {nil}
                   /\ IF t.left[m] = nil THEN lo(m) = o[m]
                      ELSE lo(t.left[m]) = lo(m) /\ hi(t.left[m]) = o[m] - 1
                   /\ IF t.right[m] = nil THEN hi(m) = o[m]
                      ELSE hi(t.right[m]) = hi(m) /\ lo(t.right[m]) = o[m] + 1
  BY <1>2, ReachFacts
<1>4. /\ \A m \in L : o[m] \in 1..N /\ s[o[m]] = m /\ t.key[m] \in Int
      /\ \A j \in 1..N : s[j] \in L /\ t.key[s[j]] \in Int
  <2>1. s \in [1..N -> L]
    BY DEF Numbered
  <2>2. \A m \in L : o[m] \in 1..N /\ s[o[m]] = m /\ t.key[m] \in Int
    BY <1>2 DEF Numbered, Shaped, Tree, All
  <2>3. QED
    BY <2>1, <2>2
<1>5. \A m \in L : 1 <= lo(m) /\ lo(m) <= o[m] /\ o[m] <= hi(m) /\ hi(m) <= N
  BY <1>2, <1>4, ReachBounds
<1>6. \A m \in L, j \in 1..N : /\ j <= o[m] => t.key[s[j]] <= t.key[m]
                               /\ j >= o[m] => t.key[m] <= t.key[s[j]]
  BY <1>4 DEF Ascends
<1>7. \A m \in L : go[m] = IF t.key[m] = k THEN m
                           ELSE IF t.key[m] > k THEN go[t.left[m]] ELSE go[t.right[m]]
  <2>1. SUFFICES ASSUME NEW m \in L
                 PROVE go[m] = IF t.key[m] = k THEN m
                               ELSE IF t.key[m] > k THEN go[t.left[m]] ELSE go[t.right[m]]
    OBVIOUS
  <2>2. go[m] = IF t.key[m] = k THEN m ELSE go[t[Below(t, m, k)][m]]
    BY <1>1, <1>2 DEF Searches
  <2>3. t[Below(t, m, k)][m] = IF t.key[m] > k THEN t.left[m] ELSE t.right[m]
    BY DEF Below, Greater
  <2>4. QED
    BY <2>2, <2>3
<1>8. go[nil] = nil
  BY <1>1, Zenon DEF Searches
<1> HIDE DEF lo, hi
<1>9. ASSUME NEW m \in L, \A d \in Sides : t[d][m] \in L => t[d][m] \in G PROVE m \in G
  <2>1. /\ t.left[m] \in L => t.left[m] \in G
        /\ t.right[m] \in L => t.right[m] \in G
    <3>1. t["left"][m] = t.left[m] /\ t["right"][m] = t.right[m]
      OBVIOUS
    <3>2. QED
      BY <1>9, <3>1 DEF Sides
  <2>2. /\ o[m] \in 1..N /\ s[o[m]] = m /\ t.key[m] \in Int
        /\ lo(m) \in Int /\ hi(m) \in Int /\ o[m] \in Int
        /\ 1 <= lo(m) /\ lo(m) <= o[m] /\ o[m] <= hi(m) /\ hi(m) <= N
    BY <1>3, <1>4, <1>5
  <2>3. CASE t.key[m] = k
    <3>1. go[m] = m /\ m # nil
      BY <1>2, <1>7, <2>3
    <3>2. Finds(t, L, s, w, k, go[m], lo(m), hi(m))
      BY <2>2, <2>3, <3>1 DEF Finds, lo, hi
    <3>3. QED
      BY <3>2
  <2>4. CASE t.key[m] > k
    <3>1. go[m] = go[t.left[m]]
      BY <1>7, <2>2, <2>4
    <3>2. \A j \in lo(m)..hi(m) : j >= o[m] => t.key[s[j]] # k
      <4>1. SUFFICES ASSUME NEW j \in lo(m)..hi(m), j >= o[m] PROVE t.key[s[j]] # k
        OBVIOUS
      <4>2. j \in 1..N /\ j >= o[m]
        BY <2>2, <4>1
      <4>3. t.key[m] <= t.key[s[j]] /\ t.key[s[j]] \in Int
        BY <1>4, <1>6, <4>2
      <4>4. QED
        BY <2>2, <2>4, <4>3
    <3>3. CASE t.left[m] = nil
      <4>1. lo(m) = o[m] /\ go[m] = nil
        BY <1>3, <1>8, <3>1, <3>3
      <4>2. Finds(t, L, s, w, k, go[m], lo(m), hi(m))
        BY <2>2, <3>2, <4>1 DEF Finds
      <4>3. QED
        BY <4>2
    <3>4. CASE t.left[m] # nil
      <4>1. PICK c \in L : c = t.left[m]
        BY <1>3, <3>4
      <4>2. Finds(t, L, s, w, k, go[c], lo(c), hi(c))
        BY <2>1, <4>1
      <4>3. lo(c) = lo(m) /\ hi(c) = o[m] - 1
        BY <1>3, <3>4, <4>1
      <4>4. \A j \in lo(m)..hi(m) : j >= o[m] \/ j \in lo(c)..hi(c)
        BY <2>2, <4>3
      <4>5. go[m] = go[c]
        BY <3>1, <4>1
      <4>6. Finds(t, L, s, w, k, go[m], lo(m), hi(m))
        BY <3>2, <4>2, <4>4, <4>5 DEF Finds
      <4>7. QED
        BY <4>6
    <3>5. QED
      BY <3>3, <3>4
  <2>5. CASE t.key[m] < k
    <3>1. go[m] = go[t.right[m]]
      BY <1>7, <2>2, <2>5
    <3>2. \A j \in lo(m)..hi(m) : j <= o[m] => t.key[s[j]] # k
      <4>1. SUFFICES ASSUME NEW j \in lo(m)..hi(m), j <= o[m] PROVE t.key[s[j]] # k
        OBVIOUS
      <4>2. j \in 1..N /\ j <= o[m]
        BY <2>2, <4>1
      <4>3. t.key[s[j]] <= t.key[m] /\ t.key[s[j]] \in Int
        BY <1>4, <1>6, <4>2
      <4>4. QED
        BY <2>2, <2>5, <4>3
    <3>3. CASE t.right[m] = nil
      <4>1. hi(m) = o[m] /\ go[m] = nil
        BY <1>3, <1>8, <3>1, <3>3
      <4>2. Finds(t, L, s, w, k, go[m], lo(m), hi(m))
        BY <2>2, <3>2, <4>1 DEF Finds
      <4>3. QED
        BY <4>2
    <3>4. CASE t.right[m] # nil
      <4>1. PICK c \in L : c = t.right[m]
        BY <1>3, <3>4
      <4>2. Finds(t, L, s, w, k, go[c], lo(c), hi(c))
        BY <2>1, <4>1
      <4>3. hi(c) = hi(m) /\ lo(c) = o[m] + 1
        BY <1>3, <3>4, <4>1
      <4>4. \A j \in lo(m)..hi(m) : j <= o[m] \/ j \in lo(c)..hi(c)
        BY <2>2, <4>3
      <4>5. go[m] = go[c]
        BY <3>1, <4>1
      <4>6. Finds(t, L, s, w, k, go[m], lo(m), hi(m))
        BY <3>2, <4>2, <4>4, <4>5 DEF Finds
      <4>7. QED
        BY <4>6
    <3>5. QED
      BY <3>3, <3>4
  <2>6. QED
    BY <2>2, <2>3, <2>4, <2>5
<1> HIDE DEF G
<1>10. L \subseteq G
  BY <1>2, <1>9, FromBelow
<1>11. CASE First(t) = nil
  <2>1. N = 0 /\ q = nil
    BY <1>1, <1>8, <1>11 DEF Placed
  <2>2. QED
    BY <2>1 DEF Finds
<1>12. CASE First(t) # nil
  <2>1. First(t) \in L
    BY <1>2, <1>12, WiredFacts DEF First, Sides
  <2>2. lo(First(t)) = 1 /\ hi(First(t)) = N
    BY <1>12 DEF Placed, lo, hi
  <2>3. Finds(t, L, s, w, k, go[First(t)], lo(First(t)), hi(First(t)))
    BY <1>10, <2>1 DEF G
  <2>4. QED
    BY <1>1, <2>2, <2>3
<1>13. QED
  BY <1>11, <1>12

(* f counts the steps up from the nodes of L to the root.                  *)
Depths(t, L, f) ==
  /\ f \in [L \cup {root} -> Nat] /\ f[root] = 0
  /\ \A m \in L : f[m] = f[t.parent[m]] + 1

(* The parents lead to the root in finitely many steps.                    *)
LEMMA DepthsExist ==
  ASSUME NEW t, NEW L \in SUBSET Nodes, Shaped(t, L)
  PROVE  \E f : Depths(t, L, f)
<1> DEFINE D == L \cup {root}
           step == [m \in D |-> IF m = root THEN root ELSE t.parent[m]]
           base == [m \in D |-> 0]
           h == [v \in Nat |-> v + 1]
<1>1. PICK e : Ranked(t, L, e)
  BY DEF Shaped
<1>2. /\ root \notin L /\ \A m \in L : t.parent[m] \in L \cup {root}
      /\ e[root] \in Nat /\ \A m \in L : e[m] \in Nat /\ e[m] < e[root]
      /\ \A m \in L : e[m] < e[t.parent[m]]
  BY <1>1, WiredFacts DEF Ranked, Shaped, Wired
<1> DEFINE r == [m \in D |-> e[root] - e[m]]
<1>3. Recursion(D, Nat, step, {root}, r, e[root] + 1, base, h)
  <2>1. step \in [D -> D] /\ {root} \in SUBSET D
    BY <1>2
  <2>2. r \in [D -> Nat] /\ e[root] + 1 \in Nat /\ \A m \in D : r[m] < e[root] + 1
    BY <1>2
  <2>3. \A m \in D \ {root} : r[step[m]] < r[m]
    <3>1. SUFFICES ASSUME NEW m \in L PROVE r[step[m]] < r[m]
      OBVIOUS
    <3>2. PICK p : p = t.parent[m]
      OBVIOUS
    <3>3. p \in D /\ e[p] \in Nat /\ e[m] \in Nat /\ e[m] < e[p] /\ step[m] = p
      BY <1>2, <3>2
    <3>4. r[p] = e[root] - e[p] /\ r[m] = e[root] - e[m]
      BY <3>3
    <3>5. QED
      BY <1>2, <3>3, <3>4
  <2>4. base \in [D -> Nat] /\ h \in [Nat -> Nat]
    OBVIOUS
  <2> HIDE DEF r, step, base, h, D
  <2>5. QED
    BY <2>1, <2>2, <2>3, <2>4 DEF Recursion
<1>4. /\ \A m \in D : base[m] = 0 /\ \A v \in Nat : h[v] = v + 1
      /\ \A m \in L : step[m] = t.parent[m]
  BY <1>2
<1> HIDE DEF r, step, base, h
<1>5. PICK f \in [D -> Nat] : \A m \in D : f[m] = IF m \in {root} THEN base[m] ELSE h[f[step[m]]]
  BY <1>3, RecursionExists
<1>6. f[root] = 0
  BY <1>4, <1>5
<1>7. \A m \in L : f[m] = f[t.parent[m]] + 1
  <2>1. SUFFICES ASSUME NEW m \in L PROVE f[m] = f[t.parent[m]] + 1
    OBVIOUS
  <2>2. f[m] = h[f[step[m]]] /\ step[m] = t.parent[m] /\ t.parent[m] \in D
    BY <1>2, <1>4, <1>5
  <2>3. f[t.parent[m]] \in Nat
    BY <1>5, <2>2
  <2>4. QED
    BY <1>4, <2>2, <2>3
<1>8. QED
  BY <1>5, <1>6, <1>7 DEF Depths

DepthIs(t, f) == \A n \in All : Depth(t, n) = IF n = nil THEN f[t.parent[nil]] + 1 ELSE f[n]

(* Depth counts those steps.                                               *)
LEMMA DepthCounts ==
  ASSUME NEW t, Linked \in SUBSET Nodes, Shaped(t, Linked)
  PROVE  \E f : Depths(t, Linked, f) /\ DepthIs(t, f)
<1> DEFINE up[m \in Linked \cup {root}] == IF m = root THEN 0 ELSE up[t.parent[m]] + 1
<1>1. PICK f : Depths(t, Linked, f)
  BY DepthsExist
<1>2. root \notin Linked /\ \A m \in Linked : t.parent[m] \in Linked \cup {root}
  BY WiredFacts DEF Shaped, Wired
<1>3. f = [m \in Linked \cup {root} |-> IF m = root THEN 0 ELSE f[t.parent[m]] + 1]
  BY <1>1, <1>2 DEF Depths
<1>4. up = [m \in Linked \cup {root} |-> IF m = root THEN 0 ELSE up[t.parent[m]] + 1]
  BY <1>3, Zenon
<1>5. DepthIs(t, up)
  BY DEF DepthIs, Depth
<1> HIDE DEF up
<1>6. up[root] = 0 /\ \A m \in Linked : up[m] = up[t.parent[m]] + 1
  BY <1>2, <1>4
<1>7. up \in [Linked \cup {root} -> Nat]
  <2> DEFINE G == {m \in Linked : up[m] \in Nat}
  <2>1. ASSUME NEW m \in Linked, t.parent[m] = root \/ t.parent[m] \in G PROVE m \in G
    BY <1>6, <2>1
  <2> HIDE DEF G
  <2>2. Linked \subseteq G
    BY <2>1, FromAbove
  <2>3. \A m \in Linked \cup {root} : up[m] \in Nat
    BY <1>6, <2>2 DEF G
  <2>4. QED
    BY <1>4, <2>3
<1>8. Depths(t, Linked, up)
  BY <1>6, <1>7 DEF Depths
<1>9. QED
  BY <1>5, <1>8

(* Whoever is below a node is deeper.                                      *)
LEMMA BelowDeeper ==
  ASSUME NEW t, NEW L \in SUBSET Nodes, Shaped(t, L), NEW o, NEW w, NEW s, NEW N \in Nat,
         N = Len(s), Numbered(L, s, o), Placed(t, L, o, w, N), NEW f, Depths(t, L, f)
  PROVE  \A q, n \in L : n # q /\ w["left"][q] <= o[n] /\ o[n] <= w["right"][q] => f[n] > f[q]
<1> DEFINE lo(m) == w["left"][m]
           hi(m) == w["right"][m]
           G == {q \in L : \A n \in L : n # q /\ lo(q) <= o[n] /\ o[n] <= hi(q) => f[n] > f[q]}
<1>1. /\ nil \notin L /\ root \notin L
      /\ \A m \in L : o[m] \in 1..N /\ s[o[m]] = m /\ f[m] \in Nat
  BY WiredFacts DEF Numbered, Depths
<1>2. \A m \in L : /\ o[m] \in Int /\ lo(m) \in Int /\ hi(m) \in Int
                   /\ t.left[m] \in L \cup {nil} /\ t.right[m] \in L \cup {nil}
                   /\ IF t.left[m] = nil THEN lo(m) = o[m]
                      ELSE lo(t.left[m]) = lo(m) /\ hi(t.left[m]) = o[m] - 1
                   /\ IF t.right[m] = nil THEN hi(m) = o[m]
                      ELSE hi(t.right[m]) = hi(m) /\ lo(t.right[m]) = o[m] + 1
  BY ReachFacts
<1>3. \A m \in L : /\ t.left[m] # nil => f[t.left[m]] = f[m] + 1
                   /\ t.right[m] # nil => f[t.right[m]] = f[m] + 1
  <2>1. SUFFICES ASSUME NEW m \in L, NEW d \in Sides, t[d][m] # nil PROVE f[t[d][m]] = f[m] + 1
    BY DEF Sides
  <2>2. t[d][m] \in L /\ t.parent[t[d][m]] = m
    BY <2>1 DEF Shaped, Wired
  <2>3. QED
    BY <2>2 DEF Depths
<1> HIDE DEF lo, hi
<1>4. ASSUME NEW q \in L, \A d \in Sides : t[d][q] \in L => t[d][q] \in G PROVE q \in G
  <2>1. /\ t.left[q] \in L => t.left[q] \in G
        /\ t.right[q] \in L => t.right[q] \in G
    <3>1. t["left"][q] = t.left[q] /\ t["right"][q] = t.right[q]
      OBVIOUS
    <3>2. QED
      BY <1>4, <3>1 DEF Sides
  <2>2. SUFFICES ASSUME NEW n \in L, n # q, lo(q) <= o[n], o[n] <= hi(q) PROVE f[n] > f[q]
    OBVIOUS
  <2>3. o[n] # o[q] /\ o[n] \in Int /\ o[q] \in Int /\ f[n] \in Nat /\ f[q] \in Nat
    BY <1>1, <2>2
  <2>4. CASE o[n] < o[q]
    <3>1. t.left[q] # nil
      BY <1>2, <2>2, <2>3, <2>4
    <3>2. PICK c \in L : c = t.left[q]
      BY <1>2, <3>1
    <3>3. lo(c) = lo(q) /\ hi(c) = o[q] - 1 /\ f[c] = f[q] + 1 /\ c \in G
      BY <1>2, <1>3, <2>1, <3>1, <3>2
    <3>4. lo(c) <= o[n] /\ o[n] <= hi(c)
      BY <2>2, <2>3, <2>4, <3>3
    <3>5. n = c \/ f[n] > f[c]
      BY <3>3, <3>4
    <3>6. QED
      BY <2>3, <3>3, <3>5
  <2>5. CASE o[n] > o[q]
    <3>1. t.right[q] # nil
      BY <1>2, <2>2, <2>3, <2>5
    <3>2. PICK c \in L : c = t.right[q]
      BY <1>2, <3>1
    <3>3. hi(c) = hi(q) /\ lo(c) = o[q] + 1 /\ f[c] = f[q] + 1 /\ c \in G
      BY <1>2, <1>3, <2>1, <3>1, <3>2
    <3>4. lo(c) <= o[n] /\ o[n] <= hi(c)
      BY <2>2, <2>3, <2>5, <3>3
    <3>5. n = c \/ f[n] > f[c]
      BY <3>3, <3>4
    <3>6. QED
      BY <2>3, <3>3, <3>5
  <2>6. QED
    BY <2>3, <2>4, <2>5
<1> HIDE DEF G
<1>5. L \subseteq G
  BY <1>4, FromBelow
<1>6. QED
  BY <1>5 DEF G, lo, hi

(* What QueriesAgree says of a tree t with the nodes L and the list s.     *)
StepsRight(t, s, N) ==
  \A i \in 1..N : /\ TreeSuccessor(t, s[i]) = IF i = N THEN nil ELSE s[i + 1]
                  /\ TreePredecessor(t, s[i]) = IF i = 1 THEN nil ELSE s[i - 1]
FindsRight(t, L, k, n) ==
  LET with == {m \in L : t.key[m] = k}
  IN  IF with = {} THEN n = nil
      ELSE n \in with /\ \A m \in with \ {n} : Depth(t, m) > Depth(t, n)

(* The queries on a tree at rest whose list is sorted.                     *)
LEMMA QueriesRight ==
  ASSUME NEW t, Linked \in SUBSET Nodes, AtEase(t, Linked), NEW s, NEW N \in Nat, N = Len(s),
         Listed(t, Linked, s), Ascends(t, s, N)
  PROVE  /\ InOrder(t) = s /\ StepsRight(t, s, N)
         /\ \A k \in Int : FindsRight(t, Linked, k, RBExactQuery(t, k))
<1>1. PICK L : L = Linked
  OBVIOUS
<1>2. L \in SUBSET Nodes /\ Shaped(t, L) /\ AtEase(t, L) /\ nil \notin L /\ L \subseteq All
  BY <1>1, NodesAssumption DEF AtEase, All
<1>3. PICK o, w : Numbered(L, s, o) /\ Placed(t, L, o, w, N)
  BY <1>1 DEF Listed
<1>4. /\ s \in [1..N -> L]
      /\ \A i \in 1..N : o[s[i]] = i
      /\ \A n \in L : o[n] \in 1..N /\ s[o[n]] = n
  BY <1>3 DEF Numbered
<1>5. InOrder(t) = s
  <2>1. PICK id : id = [n \in Nodes |-> n]
    OBVIOUS
  <2>2. id \in [Nodes -> Nodes] /\ \A n \in L : id[n] = n
    BY <1>2, <2>1
  <2>3. \A q \in Nodes \ L, d \in Sides : t[d][q] \in L \cup {nil}
    BY <1>2 DEF AtEase
  <2>4. Listed(t, L, s)
    BY <1>1
  <2>5. WalkIs(t, id, s)
    BY <1>2, <2>2, <2>3, <2>4, WalkListed
  <2>6. Walk(t, id) = [i \in 1..N |-> id[s[i]]]
    BY <2>5, Zenon DEF WalkIs
  <2>7. \A i \in 1..N : id[s[i]] = s[i]
    BY <1>4, <2>2
  <2>8. Walk(t, id) = s
    BY <1>4, <2>6, <2>7
  <2>9. QED
    BY <2>1, <2>8 DEF InOrder
<1>6. StepsRight(t, s, N)
  <2>1. SUFFICES ASSUME NEW i \in 1..N
                 PROVE /\ TreeSuccessor(t, s[i]) = IF i = N THEN nil ELSE s[i + 1]
                       /\ TreePredecessor(t, s[i]) = IF i = 1 THEN nil ELSE s[i - 1]
    BY DEF StepsRight
  <2>2. PICK n \in L : n = s[i] /\ o[n] = i
    BY <1>4
  <2>3. TreeSuccessor(t, n) = NextIn(s, o[n])
    BY <1>2, <1>3, SuccessorNext
  <2>4. TreePredecessor(t, n) = PrevIn(s, o[n])
    BY <1>2, <1>3, PredecessorPrev
  <2>5. QED
    BY <2>2, <2>3, <2>4 DEF NextIn, PrevIn
<1>7. ASSUME NEW k \in Int PROVE FindsRight(t, L, k, RBExactQuery(t, k))
  <2>1. PICK q : q = RBExactQuery(t, k)
    OBVIOUS
  <2>2. Finds(t, L, s, w, k, q, 1, N)
    BY <1>2, <1>3, <2>1, QueryFinds
  <2>3. PICK f : Depths(t, L, f) /\ DepthIs(t, f)
    BY <1>1, <1>2, DepthCounts
  <2>4. CASE q = nil
    <3>1. \A m \in L : t.key[m] # k
      BY <1>4, <2>2, <2>4 DEF Finds
    <3>2. QED
      BY <2>1, <2>4, <3>1 DEF FindsRight
  <2>5. CASE q # nil
    <3>1. q \in L /\ t.key[q] = k
      BY <2>2, <2>5 DEF Finds
    <3>2. ASSUME NEW m \in L, t.key[m] = k, m # q PROVE Depth(t, m) > Depth(t, q)
      <4>1. o[m] \in 1..N /\ t.key[s[o[m]]] = k
        BY <1>4, <3>2
      <4>2. w["left"][q] <= o[m] /\ o[m] <= w["right"][q]
        BY <2>2, <2>5, <4>1 DEF Finds
      <4>3. f[m] > f[q]
        BY <1>2, <1>3, <2>3, <3>1, <3>2, <4>2, BelowDeeper
      <4>4. Depth(t, m) = f[m] /\ Depth(t, q) = f[q]
        BY <1>2, <2>3, <3>1, <3>2 DEF DepthIs
      <4>5. QED
        BY <4>3, <4>4
    <3>3. QED
      BY <2>1, <3>1, <3>2 DEF FindsRight
  <2>6. QED
    BY <2>4, <2>5
<1>8. QED
  BY <1>1, <1>5, <1>6, <1>7

(* TreeSuccessor and TreePredecessor step through the list one node at a   *)
(* time, and RBExactQuery finds a key if it is there, and of several nodes *)
(* with it the highest in the tree.                                        *)
THEOREM QueriesRightAlways == Spec => []QueriesAgree
<1>1. ListInv => QueriesAgree
  <2>1. SUFFICES ASSUME ListInv, pc = "idle" PROVE QueriesAgree
    BY DEF QueriesAgree
  <2>2. RbtInv /\ Bare(tree) /\ Ascending(Shown)
    BY <2>1 DEF ListInv
  <2>3. /\ Linked = live /\ Linked \in SUBSET Nodes /\ Shaped(tree, Linked)
        /\ \A q \in Nodes \ Linked, d \in Sides : tree[d][q] = nil
    BY <2>1, <2>2, IdleFacts
  <2>4. PICK t : t = tree
    OBVIOUS
  <2>5. AtEase(t, Linked)
    BY <2>2, <2>3, <2>4 DEF AtEase
  <2>6. PICK s : Listed(tree, Linked, s)
    BY <2>1 DEF ListInv
  <2>7. PICK N \in Nat : N = Len(s)
    BY <2>6 DEF Listed, Numbered
  <2>8. Ascends(t, s, N)
    <3>1. Shown = Pictured(tree, z, y, s)
      BY <2>1, <2>2, <2>6, ShownNow
    <3>2. z = nil
      BY <2>1, <2>2 DEF RbtInv, RbtTypeOK, Deleting
    <3>3. PICK Q : Q = Pictured(t, nil, y, s)
      OBVIOUS
    <3>4. Ascending(Q)
      BY <2>2, <2>4, <3>1, <3>2, <3>3
    <3>5. \A i \in 1..N : s[i] \in Nodes
      BY <2>3, <2>6, <2>7 DEF Listed, Numbered
    <3>6. DOMAIN Q = 1..N /\ \A i \in 1..N : Q[i].key = t.key[s[i]]
      BY <2>7, <3>3, <3>5, NodesAssumption DEF Pictured, Seen
    <3>7. QED
      BY <3>4, <3>6 DEF Ascends, Ascending
  <2>9. Listed(t, Linked, s)
    BY <2>4, <2>6
  <2>10. /\ InOrder(t) = s /\ StepsRight(t, s, N)
         /\ \A k \in Int : FindsRight(t, Linked, k, RBExactQuery(t, k))
    BY <2>3, <2>5, <2>7, <2>8, <2>9, QueriesRight
  <2>11. Keys \subseteq Int
    BY AddsAssumption DEF Keys
  <2>12. \A k \in Keys : FindsRight(tree, live, k, RBExactQuery(tree, k))
    BY <2>3, <2>4, <2>10, <2>11
  <2>13. InOrder(tree) = s /\ StepsRight(tree, s, Len(s))
    BY <2>4, <2>7, <2>10
  <2>14. QED
    BY <2>12, <2>13, Zenon DEF QueriesAgree, FindsRight, StepsRight
<1>2. Spec => []ListInv
  BY InitList, NextList, PTL DEF Spec
<1>3. QED
  BY <1>1, <1>2, PTL

(***************************************************************************)
(* The repairs climb.                                                      *)
(***************************************************************************)
(* The depth of a node hangs on the parents alone.                         *)
DepthUp(par, n) ==
  LET up[m \in Linked \cup {root}] == IF m = root THEN 0 ELSE up[par[m]] + 1
  IN  IF n = nil THEN up[par[nil]] + 1 ELSE up[n]

(* So painting changes no depth.                                           *)
LEMMA SameDepth ==
  ASSUME NEW t, NEW u, u.parent = t.parent, NEW n PROVE Depth(u, n) = Depth(t, n)
<1>1. Depth(t, n) = DepthUp(t.parent, n)
  BY Zenon DEF Depth, DepthUp
<1>2. Depth(u, n) = DepthUp(u.parent, n)
  BY Zenon DEF Depth, DepthUp
<1>3. QED
  BY <1>1, <1>2

(* A parent is less deep, also that of nil, if nil has one.                *)
LEMMA ParentHigher ==
  ASSUME NEW t, Linked \in SUBSET Nodes, Shaped(t, Linked), NEW n \in Linked \cup {nil},
         NEW p \in Linked \cup {root}, p = t.parent[n]
  PROVE  Depth(t, p) \in Nat /\ Depth(t, n) = Depth(t, p) + 1
<1>1. PICK f : Depths(t, Linked, f) /\ DepthIs(t, f)
  BY DepthCounts
<1>2. nil \notin Linked \cup {root} /\ Linked \cup {nil, root} \subseteq All
  BY NodesAssumption DEF All
<1>3. Depth(t, p) = f[p] /\ f[p] \in Nat
  BY <1>1, <1>2 DEF Depths, DepthIs
<1>4. CASE n = nil
  <2>1. Depth(t, n) = f[t.parent[nil]] + 1
    BY <1>1, <1>2, <1>4 DEF DepthIs
  <2>2. QED
    BY <1>3, <1>4, <2>1
<1>5. CASE n # nil
  <2>1. n \in Linked /\ Depth(t, n) = f[n]
    BY <1>1, <1>2, <1>5 DEF DepthIs
  <2>2. f[n] = f[t.parent[n]] + 1
    BY <1>1, <2>1 DEF Depths
  <2>3. QED
    BY <1>3, <2>1, <2>2
<1>6. QED
  BY <1>4, <1>5

(* Recolouring goes on two levels up.                                      *)
LEMMA RecolourClimbs ==
  ASSUME RbtInv, InsertRecolour PROVE Depth(tree', x') < Depth(tree, x)
<1> DEFINE p == tree.parent[x]
           g == tree.parent[p]
           w == tree[Other(SideOf(tree, p))][g]
<1>1. pc = "insert" /\ tree.red[p] /\ tree' = Recoloured(tree, p, w, g) /\ x' = g
  BY Zenon DEF InsertRecolour, Recoloured
<1>2. Rising(tree, live, SideOf(tree, p), x, p, g)
  BY <1>1, InsertFacts
<1>3. Linked \in SUBSET Nodes /\ Linked = live /\ Shaped(tree, Linked) /\ tree \in Tree
  BY <1>1, IdleFacts DEF Shaped
<1>4. tree'.parent = tree.parent
  BY <1>1, <1>3 DEF Recoloured, Tree
<1>5. PICK t, m, q, h : t = tree /\ m = x /\ q = p /\ h = g
  OBVIOUS
<1>6. m \in Linked /\ q \in Linked /\ h \in Linked /\ q = t.parent[m] /\ h = t.parent[q]
  BY <1>2, <1>3, <1>5 DEF Rising
<1>7. /\ Depth(t, h) \in Nat /\ Depth(t, q) = Depth(t, h) + 1
      /\ Depth(t, m) = Depth(t, q) + 1
  BY <1>3, <1>5, <1>6, ParentHigher
<1>8. Depth(tree', h) = Depth(t, h)
  BY <1>4, <1>5, SameDepth
<1>9. QED
  BY <1>1, <1>5, <1>7, <1>8

(* The rotation at the grandparent puts a black node above x.              *)
LEMMA TurnEnds ==
  ASSUME NEW t, NEW L \in SUBSET Nodes, NEW a, NEW m, NEW p, NEW g, Rising(t, L, a, m, p, g),
         t[a][p] = m, NEW u, u = Turn(t, Other(a), p, g)
  PROVE  ~u.red[u.parent[m]]
<1> DEFINE v == [t EXCEPT !.red[p] = FALSE, !.red[g] = TRUE]
<1>1. PICK b : b = Other(a)
  OBVIOUS
<1>2. /\ Shaped(t, L) /\ t \in Tree /\ m \in L /\ p \in L /\ g \in L /\ t[Other(b)][g] = p
      /\ a \in Sides /\ b \in Sides /\ a # b /\ t.parent[m] = p /\ t.parent[p] = g
      /\ t[a][p] = m /\ u = Rotate(v, b, g)
  BY <1>1 DEF Rising, Sides, Other, Shaped, Turn
<1>3. p \in All /\ g \in All /\ m \in All /\ m # p /\ p # g /\ m # nil /\ m # g
  <2>1. p \in All /\ g \in All /\ m \in All /\ m # p /\ p # g /\ m # nil
    BY <1>2, WiredFacts
  <2>2. t.red[m] /\ ~t.red[g]
    BY DEF Rising
  <2>3. QED
    BY <2>1, <2>2
<1>4. t[b][p] # m
  BY <1>2, <1>3, WiredFacts
<1>5. Painted(t, v) /\ v.red[p] = FALSE
  BY <1>2, <1>3 DEF Painted, Tree, Sides
<1> HIDE DEF v
<1>6. Shaped(v, L) /\ v[Other(b)][g] = p /\ v[b][p] = t[b][p] /\ v.parent = t.parent
  <2>1. Shaped(v, L)
    BY <1>2, <1>5, PaintKeeps
  <2>2. Other(b) \in Sides
    BY DEF Sides, Other
  <2>3. QED
    BY <1>2, <1>5, <2>1, <2>2 DEF Painted
<1>7. Rotated(v, u, L, b, g, p)
  BY <1>2, <1>6, RotateKeeps
<1>8. u.red = v.red /\ u.parent[m] = p
  BY <1>2, <1>3, <1>4, <1>6, <1>7 DEF Rotated
<1>9. QED
  BY <1>5, <1>8

(* What InsertRotate turns last: x, its parent and its grandparent are in  *)
(* one line by then.                                                       *)
LastTurned(t, L, a, m, p, g) ==
  /\ Rising(t, L, a, m, p, g) /\ t[a][p] = m
  /\ x' = m /\ tree' = Turn(t, Other(a), p, g)

(* Outward has brought x to the outside of its parent.                     *)
LEMMA InsertRotateLast ==
  ASSUME RbtInv, InsertRotate
  PROVE  \E t, a, m, p, g : LastTurned(t, live, a, m, p, g)
<1> DEFINE p == tree.parent[x]
           g == tree.parent[p]
           a == SideOf(tree, p)
           s == Outward(tree, a, x)
           q == s.tree.parent[s.x]
           h == s.tree.parent[q]
<1>1. /\ pc = "insert" /\ tree.red[p] /\ tree' = Turn(s.tree, Other(a), q, h) /\ x' = s.x
  BY Zenon DEF InsertRotate, Turn
<1>2. Rising(tree, live, a, x, p, g)
  BY <1>1, InsertFacts, Zenon
<1>3. live \in SUBSET Nodes
  BY <1>1, IdleFacts, Zenon
<1>4. PICK t : t = s.tree
  OBVIOUS
<1>5. PICK m : m = s.x
  OBVIOUS
<1>6. Rising(t, live, a, m, q, h) /\ t[a][q] = m
  <2>1. SideOf(tree, x) \in Sides /\ tree[SideOf(tree, x)][p] = x
    <3>1. Wired(tree, live) /\ x \in live
      BY <1>2 DEF Rising, Shaped
    <3>2. QED
      BY <3>1, SideOfFacts
  <2>2. CASE SideOf(tree, x) = a
    <3>1. s = [tree |-> tree, x |-> x]
      BY <2>2 DEF Outward
    <3>2. t = tree /\ m = x
      BY <1>4, <1>5, <3>1
    <3>3. q = p /\ h = g
      BY <1>2, <1>4, <1>5, <3>2 DEF Rising
    <3> HIDE DEF s, q, h, p, g, a
    <3>4. QED
      BY <1>2, <2>1, <2>2, <3>2, <3>3
  <2>3. CASE SideOf(tree, x) # a
    <3>1. s = [tree |-> Rotate(tree, a, p), x |-> p]
      BY <2>3 DEF Outward
    <3>2. t = Rotate(tree, a, p) /\ m = p
      BY <1>4, <1>5, <3>1
    <3>3. q = t.parent[m] /\ h = t.parent[q]
      BY <1>4, <1>5
    <3> HIDE DEF s, q, h, p, g, a
    <3>4. tree[Other(a)][p] = x
      BY <1>2, <2>1, <2>3 DEF Rising, Sides, Other
    <3>5. Rising(t, live, a, p, x, g) /\ t[a][x] = p
      BY <1>2, <1>3, <3>2, <3>4, OutwardKeeps
    <3>6. q = x /\ h = g
      BY <3>2, <3>3, <3>5 DEF Rising
    <3>7. QED
      BY <3>2, <3>5, <3>6
  <2>4. QED
    BY <2>2, <2>3, Zenon
<1>7. tree' = Turn(t, Other(a), q, h) /\ x' = m
  BY <1>1, <1>4, <1>5, Zenon
<1> HIDE DEF s, q, h, p, g, a
<1>8. LastTurned(t, live, a, m, q, h)
  BY <1>6, <1>7 DEF LastTurned
<1>9. QED
  BY <1>8

(* A turn of FixUpSibling goes up one level or ends at a red parent.       *)
LEMMA SiblingClimbs ==
  ASSUME RbtInv, FixUpSibling
  PROVE  Depth(tree', x') < Depth(tree, x) \/ tree'.red[x']
<1> DEFINE a == SideOf(tree, x)
           u == RedSiblingUp(tree, a, tree.parent[x])
           w == u[Other(a)][u.parent[x]]
<1>1. Climbing /\ tree' = [u EXCEPT !.red[w] = TRUE] /\ x' = u.parent[x]
  BY Zenon DEF FixUpSibling
<1>2. PICK t : t = tree
  OBVIOUS
<1>3. PICK p : p = tree.parent[x]
  OBVIOUS
<1>4. PICK L : L = Linked
  OBVIOUS
<1>5. PICK k : k = x
  OBVIOUS
<1>6. Owes(t, L, p, a, k) /\ L = live \ {y} /\ live \in SUBSET Nodes
  BY <1>1, <1>2, <1>3, <1>4, <1>5, ClimbFacts, Zenon
<1>7. L \in SUBSET Nodes /\ a \in Sides
  BY <1>6 DEF SideOf, Sides
<1>8. PICK v : v = tree'
  OBVIOUS
<1>9. u = RedSiblingUp(t, a, p)
  BY <1>2, <1>3
<1> HIDE DEF a, u
<1>10. BlackSibling(t, u, L, p, a, k)
  BY <1>6, <1>7, <1>9, SiblingUp
<1>11. /\ Owes(u, L, p, a, k)
       /\ u = t \/ (u.red[p] /\ ~u.red[u[Other(a)][p]])
  BY <1>10, Zenon DEF BlackSibling
<1>12. u.parent[x] = p /\ p \in L /\ u \in Tree /\ Shaped(t, L) /\ t[a][p] = k /\ t.parent[k] = p
  BY <1>5, <1>6, <1>11 DEF Owes, Shaped
<1>13. w = u[Other(a)][p] /\ v = [u EXCEPT !.red[w] = TRUE] /\ x' = p
  BY <1>1, <1>8, <1>12
<1> HIDE DEF w
<1>14. CASE u = t
  <2>1. v.parent = t.parent
    BY <1>12, <1>13, <1>14 DEF Tree
  <2>2. k \in L \cup {nil}
    BY <1>6, <1>7, <1>12, WiredFacts
  <2>3. Depth(t, p) \in Nat /\ Depth(t, k) = Depth(t, p) + 1
    BY <1>4, <1>7, <1>12, <2>2, ParentHigher
  <2>4. Depth(v, p) = Depth(t, p)
    BY <2>1, SameDepth
  <2>5. QED
    BY <1>2, <1>5, <1>8, <1>13, <2>3, <2>4
<1>15. CASE u.red[p] /\ ~u.red[u[Other(a)][p]]
  <2>1. p # w /\ p \in All
    BY <1>7, <1>12, <1>13, <1>15, WiredFacts
  <2>2. v.red[p]
    BY <1>12, <1>13, <1>15, <2>1 DEF Tree
  <2>3. QED
    BY <1>8, <1>13, <2>2
<1>16. QED
  BY <1>11, <1>14, <1>15

(* Each iteration of a repair loop comes nearer to the root or is the last,*)
(* so that no call of RBTreeInsert or RBDelete goes round for ever.        *)
THEOREM LoopsClimb == Spec => Climbs
<1> DEFINE Nearer == Depth(tree', x') < Depth(tree, x) \/ LoopEnds'
<1>1. ASSUME RbtInv, Next, pc = pc', pc \in {"insert", "fixup"} PROVE Nearer
  <2>1. CASE \E add \in Adds : RBTreeInsert(add[1], add[2])
    BY <1>1, <2>1 DEF RBTreeInsert
  <2>2. CASE InsertRecolour
    BY <1>1, <2>2, RecolourClimbs
  <2>3. CASE InsertRotate
    <3>1. PICK t, a, m, p, g : LastTurned(t, live, a, m, p, g)
      BY <1>1, <2>3, InsertRotateLast
    <3>2. pc = "insert" /\ live \in SUBSET Nodes
      BY <1>1, <2>3 DEF InsertRotate, RbtInv, RbtTypeOK
    <3>3. PICK u : u = tree'
      OBVIOUS
    <3>4. Rising(t, live, a, m, p, g) /\ t[a][p] = m /\ x' = m /\ u = Turn(t, Other(a), p, g)
      BY <3>1, <3>3 DEF LastTurned
    <3>5. ~u.red[u.parent[m]]
      BY <3>2, <3>4, TurnEnds
    <3>6. pc' = "insert" /\ ~tree'.red[tree'.parent[x']]
      BY <1>1, <3>2, <3>3, <3>4, <3>5
    <3>7. QED
      BY <3>6 DEF LoopEnds
  <2>4. CASE InsertDone
    BY <1>1, <2>4 DEF InsertDone
  <2>5. CASE \E n \in Nodes : RBDelete(n)
    BY <1>1, <2>5 DEF RBDelete
  <2>6. CASE FixUpSibling
    <3>1. Depth(tree', x') < Depth(tree, x) \/ tree'.red[x']
      BY <1>1, <2>6, SiblingClimbs
    <3>2. pc' = "fixup"
      BY <1>1, <2>6 DEF FixUpSibling, Climbing
    <3>3. QED
      BY <3>1, <3>2 DEF LoopEnds
  <2>7. CASE FixUpRotate
    <3>1. pc' = "fixup" /\ x' = top'
      BY <1>1, <2>7 DEF FixUpRotate, Climbing, locals
    <3>2. QED
      BY <3>1 DEF LoopEnds
  <2>8. CASE FixUpDone
    BY <1>1, <2>8 DEF FixUpDone
  <2>9. CASE DeleteDone
    BY <1>1, <2>9 DEF DeleteDone
  <2>10. CASE RBTreeDestroy
    BY <1>1, <2>10 DEF RBTreeDestroy
  <2>11. QED
    BY <1>1, <2>1, <2>2, <2>3, <2>4, <2>5, <2>6, <2>7, <2>8, <2>9, <2>10 DEF Next
<1>2. RbtInv /\ [Next]_vars =>
        [pc = pc' /\ pc \in {"insert", "fixup"} => Nearer]_vars
  BY <1>1
<1> HIDE DEF Nearer
<1>3. Spec => [][pc = pc' /\ pc \in {"insert", "fixup"} => Nearer]_vars
  BY <1>2, InitHolds, NextKeeps, PTL DEF Spec
<1>4. QED
  BY <1>3 DEF Climbs, Nearer
==============================================================================

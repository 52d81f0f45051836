------------------------- MODULE BkvWriterDocProofs --------------------------
(***************************************************************************)
(* BkvWriter implements BkvDoc: the lengths and the stack of open          *)
(* containers spell, after every call, the tree that the calls built, for  *)
(* every value of the constants with keys of twelve bits and documents     *)
(* whose size fits a 16-bit length.                                        *)
(***************************************************************************)
EXTENDS BkvWriterProofs, SequenceTheorems

(* The innermost of some containers is the last of them.                   *)
LEMMA InnermostIsLast ==
  ASSUME NEW E \in SUBSET Int, NEW m \in E, \A q \in E : q <= m
  PROVE  Innermost(E) = m
<1>1. \A p \in E : (\A q \in E : q <= p) => p = m
  OBVIOUS
<1>2. \E p \in E : \A q \in E : q <= p
  OBVIOUS
<1>3. (CHOOSE p \in E : \A q \in E : q <= p) = m
  BY <1>1, <1>2
<1>4. QED
  BY <1>3 DEF Innermost

(* NodeParent in these terms, before a step and after it.                  *)
LEMMA ParentIsInnermost ==
  /\ NodeParent = [o \in Nodes |-> Innermost(Enclosing(o))]
  /\ NodeParent' = [o \in Nodes' |-> Innermost(Enclosing(o)')]
BY DEF NodeParent

(* A table that is read from its entry 0 on, as a sequence.                *)
LEMMA TableIsSequence ==
  ASSUME NEW n \in Nat, NEW S, NEW f, \A d \in 0 .. n - 1 : f[d] \in S
  PROVE  /\ [i \in 1..n |-> f[i - 1]] \in Seq(S)
         /\ Len([i \in 1..n |-> f[i - 1]]) = n
         /\ \A i \in 1..n : [j \in 1..n |-> f[j - 1]][i] = f[i - 1]
<1> DEFINE s == [i \in 1..n |-> f[i - 1]]
<1>1. \A i \in 1..n : i - 1 \in 0 .. n - 1
  OBVIOUS
<1>2. s \in [1..n -> S]
  BY <1>1
<1>3. \A i \in 1..n : s[i] = f[i - 1]
  OBVIOUS
<1> HIDE DEF s
<1>4. s \in Seq(S)
  BY <1>2, SeqDef
<1>5. Len(s) = n
  BY <1>2, <1>4, LenProperties
<1>6. QED
  BY <1>3, <1>4, <1>5 DEF s

(* The map that Doc calls path, as a sequence.                             *)
LEMMA PathIsSequence ==
  ASSUME IInv
  PROVE  /\ OpenPath \in Seq(0..MaxBytes)
         /\ Len(OpenPath) = deep_offset + 1
         /\ \A i \in 1 .. deep_offset + 1 :
              i - 1 \in 0..deep_offset /\ OpenPath[i] = map_offset[i - 1]
<1>1. PICK n \in Nat : n = deep_offset + 1 /\ n - 1 = deep_offset
  BY OffsetTypes
<1>2. \A i \in 1 .. n : i - 1 \in 0..deep_offset
  BY <1>1
<1>3. \A d \in 0 .. n - 1 : map_offset[d] \in 0..MaxBytes
  BY <1>1, StackTypes
<1>4. OpenPath = [i \in 1..n |-> map_offset[i - 1]]
  BY <1>1 DEF OpenPath
<1>5. /\ OpenPath \in Seq(0..MaxBytes) /\ Len(OpenPath) = n
      /\ \A i \in 1..n : OpenPath[i] = map_offset[i - 1]
  BY <1>3, <1>4, TableIsSequence
<1>6. QED
  BY <1>1, <1>2, <1>5

(* The same after a step.                                                  *)
LEMMA PathIsSequenceNext ==
  ASSUME IInv'
  PROVE  /\ OpenPath' \in Seq(0..MaxBytes)
         /\ Len(OpenPath') = deep_offset' + 1
         /\ \A i \in 1 .. deep_offset' + 1 : OpenPath'[i] = map_offset'[i - 1]
<1>1. /\ deep_offset' \in Int /\ deep_offset' >= -1 /\ deep_offset' <= MaxDepth - 1
      /\ MaxDepth \in Nat
  BY ConstantTypes DEF IInv, TypeOK
<1>2. PICK n \in Nat : n = deep_offset' + 1 /\ n - 1 = deep_offset'
  <2>1. \A d \in Int : d >= -1 => d + 1 \in Nat /\ (d + 1) - 1 = d
    OBVIOUS
  <2>2. QED
    BY <1>1, <2>1
<1>3. \A d \in 0 .. n - 1 : map_offset'[d] \in 0..MaxBytes
  <2>1. \A d \in 0 .. n - 1 : d \in 0 .. MaxDepth - 1
    <3>1. n - 1 <= MaxDepth - 1
      BY <1>1, <1>2
    <3>2. QED
      BY <1>1, <3>1
  <2>2. QED
    BY <2>1 DEF IInv, TypeOK, Depths
<1>4. OpenPath' = [i \in 1..n |-> map_offset'[i - 1]]
  BY <1>2 DEF OpenPath
<1>5. /\ OpenPath' \in Seq(0..MaxBytes) /\ Len(OpenPath') = n
      /\ \A i \in 1..n : OpenPath'[i] = map_offset'[i - 1]
  BY <1>3, <1>4, TableIsSequence
<1>6. QED
  BY <1>2, <1>5

(* What Doc calls the top of the path: the innermost open container.       *)
LEMMA DocTop ==
  ASSUME IInv
  PROVE  /\ OpenPath = <<>> <=> deep_offset = -1
         /\ Doc!Top = IF deep_offset = -1 THEN -1 ELSE OpenHeader
<1>1. /\ OpenPath \in Seq(0..MaxBytes) /\ Len(OpenPath) = deep_offset + 1
      /\ deep_offset \in Int /\ deep_offset >= -1
  BY PathIsSequence, OffsetTypes
<1>2. OpenPath = <<>> <=> deep_offset = -1
  <2>1. OpenPath # <<>> => Len(OpenPath) \in Nat \ {0}
    BY <1>1, EmptySeq
  <2>2. OpenPath = <<>> => Len(OpenPath) = 0
    BY EmptySeq
  <2>3. QED
    BY <1>1, <2>1, <2>2
<1>3. deep_offset # -1 => OpenPath[Len(OpenPath)] = OpenHeader
  BY <1>1, PathIsSequence DEF OpenHeader
<1>4. QED
  BY <1>2, <1>3 DEF Doc!Top, Doc!NoParent

(***************************************************************************)
(* Where a token that is written now goes: all that is closed ends before  *)
(* it, so the open containers enclose it, the top of the stack last.       *)
(***************************************************************************)
OpenOnes == {p \in Containers : IsOpen(p)}

LEMMA OpenOnesEndInTop ==
  ASSUME LInv
  PROVE  Innermost(OpenOnes) = Doc!Top
<1>1. IInv /\ HeadersMatch
  BY DEF LInv
<1>2. \A d \in 0..deep_offset : map_offset[d] \in Nat
  BY <1>1, TokenTypes DEF IInv, StackPointsAtHeaders
<1>3. CASE deep_offset = -1
  <2>1. 0..deep_offset = {}
    BY <1>3
  <2>2. OpenOnes = {}
    BY <2>1 DEF OpenOnes, IsOpen
  <2>3. QED
    BY <1>1, <1>3, <2>2, DocTop DEF Innermost
<1>4. CASE deep_offset # -1
  <2>1. deep_offset >= 0 /\ deep_offset \in 0..deep_offset /\ deep_offset \in Int
    BY <1>1, <1>4, OffsetTypes
  <2>2. OpenHeader \in OpenOnes
    BY <1>1, <2>1, HeaderIsOpen DEF OpenOnes
  <2>3. \A p \in OpenOnes : p \in Nat /\ p <= OpenHeader
    <3>1. SUFFICES ASSUME NEW d \in 0..deep_offset
                   PROVE  map_offset[d] \in Nat /\ map_offset[d] <= OpenHeader
      BY DEF OpenOnes, IsOpen
    <3>2. d = deep_offset \/ d < deep_offset
      BY <2>1
    <3>3. d < deep_offset => map_offset[d] < map_offset[deep_offset]
      BY <1>1, <2>1 DEF IInv, StackPointsAtHeaders
    <3>4. QED
      BY <1>2, <2>1, <3>2, <3>3 DEF OpenHeader
  <2>4. Innermost(OpenOnes) = OpenHeader
    BY <2>2, <2>3, InnermostIsLast
  <2>5. QED
    BY <1>1, <1>4, <2>4, DocTop
<1>5. QED
  BY <1>3, <1>4

(* A closed container ends at or before write_offset: of those written so  *)
(* far, only the open ones reach beyond it.                                *)
LEMMA EnclosingAtEnd ==
  ASSUME LInv PROVE Enclosing(write_offset) = OpenOnes
<1>1. \A p \in Containers : p \in Nat /\ p < write_offset
  <2>1. \A p \in Containers : p \in DOMAIN buf /\ p \in Nat /\ buf[p].size \in Nat
                              /\ buf[p].size > 0 /\ p + buf[p].size <= write_offset
    BY TokenTypes DEF LInv, IInv, TokensInOrder, Containers
  <2>2. QED
    BY <2>1, OffsetTypes DEF LInv
<1>2. \A p \in Containers : ~IsOpen(p) => p + buf[p].len <= write_offset
  BY DEF LInv, LengthsDelimit
<1>3. \A p \in Containers : p + buf[p].len \in Int /\ write_offset \in Nat
  <2>1. \A p \in Containers : buf[p].len \in 0..UINT16_MAX
    BY TokenTypes DEF Containers, Token, LInv
  <2>2. QED
    BY <1>1, <2>1, OffsetTypes, MaximaAreNat DEF LInv
<1>4. QED
  BY <1>1, <1>2, <1>3 DEF Enclosing, OpenOnes

(***************************************************************************)
(* Each shape of a step is a step of Doc, or leaves the tree alone.        *)
(***************************************************************************)
KindOf(type) == IF type = HDR_TYPE_MAP_OPEN THEN "map"
                ELSE IF type = HDR_TYPE_ARRAY_OPEN THEN "array" ELSE "leaf"

(* A token of no closing type, appended to the buffer, attaches a node.    *)
LEMMA AppendAttaches ==
  ASSUME LInv, NEW t \in Token, t.type \notin Closers,
         buf' = Overlay(buf, write_offset, t),
         \A o \in DOMAIN buf : IsOpen(o)' <=> IsOpen(o)
  PROVE  Doc!Attach(write_offset, KindOf(t.type))
<1>0. PICK w \in Nat : w = write_offset
  BY OffsetTypes DEF LInv
<1>1. /\ DOMAIN buf' = DOMAIN buf \cup {write_offset}
      /\ buf'[write_offset] = t /\ write_offset \notin DOMAIN buf
      /\ \A o \in DOMAIN buf : buf'[o] = buf[o] /\ o < write_offset
  BY OverlayAtEnd DEF LInv, IInv
<1>2. Nodes' = Nodes \cup {write_offset} /\ write_offset \notin Nodes
  BY <1>1 DEF Nodes
<1>3. NodeKind' = [o \in Nodes' |-> KindOf(buf'[o].type)]
      /\ NodeKind = [o \in Nodes |-> KindOf(buf[o].type)]
  BY DEF NodeKind, KindOf
<1>4. NodeKind' = Doc!Put(NodeKind, write_offset, KindOf(t.type))
  <2>1. \A o \in Nodes : buf'[o] = buf[o] /\ o # write_offset
    BY <1>1 DEF Nodes
  <2>2. QED
    BY <1>1, <1>2, <1>3, <2>1 DEF Doc!Put
<1>5. \A p \in Containers' : p \in Containers \/ p = write_offset
  BY <1>1 DEF Containers
<1>6. \A p \in Containers : p \in Containers' /\ p \in DOMAIN buf /\ buf'[p] = buf[p]
  BY <1>1 DEF Containers
<1>7. \A o \in Nodes \cup {w} : Enclosing(o)' = Enclosing(o)
  <2>1. \A o \in Nodes \cup {w} : ~(write_offset < o)
    <3>1. \A o \in Nodes : o \in Nat /\ o < write_offset
      BY <1>1, TokenTypes DEF Nodes, LInv
    <3>2. QED
      BY <1>0, <3>1, OffsetTypes DEF LInv
  <2>2. QED
    BY <1>5, <1>6, <2>1 DEF Enclosing
<1>8. Innermost(Enclosing(w)') = Doc!Top
  BY <1>0, <1>7, EnclosingAtEnd, OpenOnesEndInTop
<1>9. NodeParent' = Doc!Put(NodeParent, write_offset, Doc!Top)
  <2>1. NodeParent' = [o \in Nodes' |-> Innermost(Enclosing(o)')]
        /\ NodeParent = [o \in Nodes |-> Innermost(Enclosing(o))]
    BY ParentIsInnermost
  <2>2. \A o \in Nodes : o # write_offset
                         /\ Innermost(Enclosing(o)') = Innermost(Enclosing(o))
    BY <1>0, <1>2, <1>7
  <2>3. QED
    BY <1>0, <1>2, <1>8, <2>1, <2>2 DEF Doc!Put
<1>10. DOMAIN NodeKind = Nodes
  BY <1>3
<1>11. QED
  BY <1>2, <1>4, <1>9, <1>10 DEF Doc!Attach

(* The name that BkvDoc gives to a node is the one that appears.           *)
LEMMA AttachedIsNew ==
  ASSUME NEW i, NEW k, Doc!Attach(i, k) PROVE i \in Doc!New
BY DEF Doc!Attach, Doc!New, Doc!Put

(* A refused call is a stutter.                                            *)
LEMMA QuietStutters ==
  ASSUME Quiet PROVE UNCHANGED <<NodeKind, NodeParent, OpenPath>>
<1>1. UNCHANGED <<buf, deep_offset, map_offset>>
  BY DEF Quiet, nest, mem
<1>2. Containers' = Containers /\ Nodes' = Nodes
  BY <1>1 DEF Containers, Nodes
<1>3. \A o : IsOpen(o)' <=> IsOpen(o)
  BY <1>1 DEF IsOpen
<1>4. \A o : Enclosing(o)' = Enclosing(o)
  BY <1>1, <1>2, <1>3 DEF Enclosing
<1>5. NodeParent' = NodeParent
  BY <1>2, <1>4, ParentIsInnermost
<1>6. NodeKind' = NodeKind /\ OpenPath' = OpenPath
  BY <1>1, <1>2 DEF NodeKind, OpenPath
<1>7. QED
  BY <1>5, <1>6

(* A scalar call adds a leaf.                                              *)
LEMMA AddIsDocAdd ==
  ASSUME LInv, NEW t \in Token, AddShape(t) PROVE Doc!Next
<1>1. /\ t.type \notin Closers /\ t.type \notin Openers
      /\ buf' = Overlay(buf, write_offset, t)
      /\ deep_offset >= 0 /\ UNCHANGED <<deep_offset, map_offset>>
  BY DEF AddShape, nest
<1>2. \A o \in DOMAIN buf : IsOpen(o)' <=> IsOpen(o)
  BY <1>1 DEF IsOpen
<1>3. KindOf(t.type) = "leaf"
  BY <1>1 DEF KindOf, Openers
<1>4. Doc!Attach(write_offset, "leaf")
  BY <1>1, <1>2, <1>3, AppendAttaches
<1>5. OpenPath # <<>>
  BY <1>1, DocTop, OffsetTypes DEF LInv
<1>6. OpenPath' = OpenPath
  BY <1>1 DEF OpenPath
<1>7. Doc!Add(write_offset)
  BY <1>4, <1>5, <1>6 DEF Doc!Add
<1>8. write_offset \in 0..MaxBytes
  BY OffsetTypes DEF LInv
<1>9. QED
  BY <1>4, <1>7, <1>8, AttachedIsNew DEF Doc!Next

(* An opening call makes the path longer by the node it writes.            *)
LEMMA OpenExtendsPath ==
  ASSUME LInv, KeysFit, NEW t \in Token, NEW v \in {"MAP_KEY", "ARRAY_KEY"},
         OpenShape(t, v)
  PROVE  OpenPath' = Append(OpenPath, write_offset)
<1>1. IInv /\ IInv'
  BY OpenPreserves DEF LInv
<1>2. /\ OpenPath \in Seq(0..MaxBytes) /\ Len(OpenPath) = deep_offset + 1
      /\ \A i \in 1 .. deep_offset + 1 :
           i - 1 \in 0..deep_offset /\ OpenPath[i] = map_offset[i - 1]
  BY <1>1, PathIsSequence
<1>3. /\ OpenPath' \in Seq(0..MaxBytes) /\ Len(OpenPath') = deep_offset' + 1
      /\ \A i \in 1 .. deep_offset' + 1 : OpenPath'[i] = map_offset'[i - 1]
  BY <1>1, PathIsSequenceNext
<1>4. /\ deep_offset' = deep_offset + 1 /\ map_offset'[deep_offset + 1] = write_offset
      /\ \A d \in 0..deep_offset : map_offset'[d] = map_offset[d]
  BY <1>1, OpenAddsContainer
<1>5. deep_offset \in Int /\ deep_offset >= -1 /\ write_offset \in 0..MaxBytes
  BY <1>1, OffsetTypes
<1> DEFINE longer == Append(OpenPath, write_offset)
<1>6. /\ longer \in Seq(0..MaxBytes) /\ Len(longer) = deep_offset + 2
      /\ \A i \in 1 .. deep_offset + 1 : longer[i] = OpenPath[i]
      /\ longer[deep_offset + 2] = write_offset
  <2>1. Len(OpenPath) + 1 = deep_offset + 2
    BY <1>2, <1>5
  <2>2. QED
    BY <1>2, <1>5, <2>1, AppendProperties
<1> HIDE DEF longer
<1>7. \A i \in 1 .. deep_offset + 2 : OpenPath'[i] = longer[i]
  <2>1. ASSUME NEW i \in 1 .. deep_offset + 2 PROVE OpenPath'[i] = longer[i]
    <3>1. OpenPath'[i] = map_offset'[i - 1]
      BY <1>3, <1>4, <1>5
    <3>2. CASE i = deep_offset + 2
      BY <1>4, <1>5, <1>6, <3>1, <3>2
    <3>3. CASE i \in 1 .. deep_offset + 1
      BY <1>2, <1>4, <1>6, <3>1, <3>3
    <3>4. QED
      BY <1>5, <3>2, <3>3
  <2>2. QED
    BY <2>1
<1>8. Len(OpenPath') = deep_offset + 2
  BY <1>3, <1>4, <1>5
<1>9. QED
  BY <1>3, <1>6, <1>7, <1>8, SeqEqual DEF longer

(* It adds a map, or an array to a map.                                    *)
LEMMA OpenIsDocOpen ==
  ASSUME LInv, KeysFit, NEW t \in Token, NEW v \in {"MAP_KEY", "ARRAY_KEY"},
         OpenShape(t, v)
  PROVE  Doc!Next
<1>1. IInv /\ HeadersMatch
  BY DEF LInv
<1>2. t.type = OpenerOf(v) /\ buf' = Overlay(buf, write_offset, t)
      /\ t.type \notin Closers
  BY TypesDiffer DEF OpenShape
<1>3. \A o \in DOMAIN buf : IsOpen(o)' <=> IsOpen(o)
  BY <1>1, OpenAddsContainer
<1>4. KindOf(t.type) = IF v = "MAP_KEY" THEN "map" ELSE "array"
  BY <1>2, TypesDiffer DEF KindOf, OpenerOf
<1>5. Doc!Attach(write_offset, KindOf(t.type))
  BY <1>2, <1>3, AppendAttaches
<1>6. OpenPath' = Append(OpenPath, write_offset)
  BY OpenExtendsPath
<1>7. write_offset \in 0..MaxBytes /\ deep_offset \in Int /\ deep_offset >= -1
  BY <1>1, OffsetTypes
<1>8. CASE v = "MAP_KEY"
  <2>1. ASSUME OpenPath = <<>> PROVE DOMAIN NodeKind = {}
    <3>1. deep_offset = -1
      BY <1>1, <2>1, DocTop
    <3>2. write_offset = 0
      BY <1>1, <3>1 DEF OpenShape, IInv, StateMatchesStack
    <3>3. \A o \in DOMAIN buf : o \in Nat /\ o < write_offset
      BY <1>1, OverlayAtEnd, TokenTypes DEF IInv
    <3>4. DOMAIN buf = {}
      <4>1. \A o \in DOMAIN buf : o \in Nat /\ o < 0
        BY <3>2, <3>3
      <4>2. \A o \in DOMAIN buf : FALSE
        BY <4>1
      <4>3. QED
        BY <4>2
    <3>5. QED
      BY <3>4 DEF NodeKind, Nodes
  <2>2. Doc!OpenMap(write_offset)
    BY <1>4, <1>5, <1>6, <1>8, <2>1 DEF Doc!OpenMap
  <2>3. QED
    BY <1>5, <1>7, <2>2, AttachedIsNew DEF Doc!Next
<1>9. CASE v = "ARRAY_KEY"
  <2>1. deep_offset # -1 /\ Top = "MAP_KEY"
    BY <1>9 DEF OpenShape
  <2>2. /\ buf[OpenHeader].type = OpenerOf(Top)
        /\ OpenHeader \in Containers
    BY <1>1, <1>7, <2>1, HeaderIsOpen
  <2>3. OpenPath # <<>> /\ Doc!Top = OpenHeader
    BY <1>1, <2>1, DocTop
  <2>4. buf[OpenHeader].type = HDR_TYPE_MAP_OPEN
    BY <2>1, <2>2 DEF OpenerOf
  <2>5. OpenHeader \in Nodes
    BY <2>2, TypesDiffer DEF Containers, Nodes
  <2>6. NodeKind[Doc!Top] = "map"
    BY <2>3, <2>4, <2>5 DEF NodeKind
  <2>7. Doc!OpenArray(write_offset)
    BY <1>4, <1>5, <1>6, <1>9, <2>3, <2>6 DEF Doc!OpenArray
  <2>8. QED
    BY <1>5, <1>7, <2>7, AttachedIsNew DEF Doc!Next
<1>10. QED
  BY <1>8, <1>9

(* A closing call makes the path shorter by one,                           *)
LEMMA CloseShortensPath ==
  ASSUME LInv, NEW t \in Token, NEW h \in Token, CloseShape(t, h)
  PROVE  OpenPath' = SubSeq(OpenPath, 1, Len(OpenPath) - 1)
<1>1. IInv /\ IInv'
  BY ClosePreserves DEF LInv
<1>2. /\ OpenPath \in Seq(0..MaxBytes) /\ Len(OpenPath) = deep_offset + 1
      /\ \A i \in 1 .. deep_offset + 1 : OpenPath[i] = map_offset[i - 1]
  BY <1>1, PathIsSequence
<1>3. /\ OpenPath' \in Seq(0..MaxBytes) /\ Len(OpenPath') = deep_offset' + 1
      /\ \A i \in 1 .. deep_offset' + 1 : OpenPath'[i] = map_offset'[i - 1]
  BY <1>1, PathIsSequenceNext
<1>4. deep_offset' = deep_offset - 1 /\ map_offset' = map_offset
      /\ deep_offset \in Nat
  BY <1>1, OffsetTypes DEF CloseShape
<1> DEFINE shorter == SubSeq(OpenPath, 1, deep_offset)
<1>5. /\ shorter \in Seq(0..MaxBytes) /\ Len(shorter) = deep_offset
      /\ \A i \in 1..deep_offset : shorter[i] = OpenPath[i]
  <2>1. \A i \in 1..deep_offset : OpenPath[i] \in 0..MaxBytes
    <3>1. \A i \in 1..deep_offset : i \in 1..Len(OpenPath)
      BY <1>2, <1>4
    <3>2. QED
      BY <1>2, <3>1, ElementOfSeq
  <2>2. /\ shorter \in Seq(0..MaxBytes)
        /\ Len(shorter) = IF 1 <= deep_offset THEN deep_offset - 1 + 1 ELSE 0
        /\ \A i \in 1 .. deep_offset - 1 + 1 : shorter[i] = OpenPath[1 + i - 1]
    BY <1>4, <2>1, SubSeqProperties
  <2> HIDE DEF shorter
  <2>3. QED
    BY <1>4, <2>2
<1> HIDE DEF shorter
<1>6. \A i \in 1..deep_offset : OpenPath'[i] = shorter[i]
  BY <1>2, <1>3, <1>4, <1>5
<1>7. Len(OpenPath') = deep_offset /\ Len(OpenPath) - 1 = deep_offset
  BY <1>2, <1>3, <1>4
<1>8. OpenPath' = shorter
  BY <1>3, <1>5, <1>6, <1>7, SeqEqual
<1>9. QED
  BY <1>7, <1>8 DEF shorter

(* and moves no node: the length it patches covers all that was enclosed   *)
(* by the container while it was open.                                     *)
LEMMA CloseMovesNoNode ==
  ASSUME LInv, MaxBytes <= UINT16_MAX, NEW t \in Token, NEW h \in Token,
         CloseShape(t, h)
  PROVE  NodeKind' = NodeKind /\ NodeParent' = NodeParent
<1>1. IInv /\ HeadersMatch /\ t.type \in Closers
  BY DEF LInv, CloseShape
<1>2. /\ DOMAIN buf' = DOMAIN buf \cup {write_offset}
      /\ write_offset \notin DOMAIN buf
      /\ buf'[write_offset] = t /\ buf'[OpenHeader] = h
      /\ \A o \in DOMAIN buf : o # OpenHeader => buf'[o] = buf[o]
      /\ \A o \in DOMAIN buf : buf'[o].type = buf[o].type
  BY <1>1, CloseBuffer
<1>3. Nodes' = Nodes
  BY <1>1, <1>2 DEF Nodes
<1>4. NodeKind' = NodeKind
  <2>1. \A o \in Nodes : buf'[o].type = buf[o].type
    BY <1>2 DEF Nodes
  <2>2. QED
    BY <1>3, <2>1 DEF NodeKind
<1>5. /\ Containers' = Containers
      /\ \A o : IsOpen(o)' <=> IsOpen(o) /\ o # OpenHeader
  BY <1>1, CloseShutsHeader
<1>6. IsOpen(OpenHeader)
  BY <1>1, HeaderIsOpen DEF CloseShape
<1>7. OpenHeader + h.len = write_offset' /\ write_offset' \in Nat
      /\ write_offset' >= write_offset
  BY <1>1, SpanLengthExact
<1>8. \A o \in Nodes : o \in Nat /\ o < write_offset'
  <2>1. \A o \in Nodes : o \in Nat /\ o < write_offset
    BY <1>1, OverlayAtEnd, TokenTypes DEF IInv, Nodes
  <2>2. QED
    BY <1>1, <1>7, <2>1, OffsetTypes
<1>9. ASSUME NEW o \in Nodes, NEW p \in Containers
      PROVE  (IsOpen(p)' \/ o < p + buf'[p].len) <=> (IsOpen(p) \/ o < p + buf[p].len)
  <2>1. CASE p = OpenHeader
    BY <1>2, <1>5, <1>6, <1>7, <1>8, <2>1
  <2>2. CASE p # OpenHeader
    <3>1. buf'[p] = buf[p]
      BY <1>2, <2>2 DEF Containers
    <3>2. QED
      BY <1>5, <2>2, <3>1
  <2>3. QED
    BY <2>1, <2>2
<1>10. \A o \in Nodes : Enclosing(o)' = Enclosing(o)
  BY <1>5, <1>9 DEF Enclosing
<1>11. NodeParent' = NodeParent
  BY <1>3, <1>10, ParentIsInnermost
<1>12. QED
  BY <1>4, <1>11

(* So a closing call is a close of Doc.                                    *)
LEMMA CloseIsDocClose ==
  ASSUME LInv, MaxBytes <= UINT16_MAX, NEW t \in Token, NEW h \in Token,
         CloseShape(t, h)
  PROVE  Doc!Next
<1>1. OpenPath # <<>>
  BY DocTop, OffsetTypes DEF LInv, CloseShape
<1>2. Doc!Close
  BY <1>1, CloseShortensPath, CloseMovesNoNode DEF Doc!Close
<1>3. QED
  BY <1>2 DEF Doc!Next

(* The empty buffer is the empty tree.                                     *)
LEMMA InitIsDocInit ==
  ASSUME Init PROVE Doc!Init
<1>1. DOMAIN buf = {} /\ deep_offset = -1
  BY DEF Init
<1>2. Nodes = {}
  BY <1>1 DEF Nodes
<1>3. NodeKind = [i \in {} |-> "leaf"] /\ NodeParent = [i \in {} |-> -1]
  BY <1>2 DEF NodeKind, NodeParent
<1>4. OpenPath = <<>>
  BY <1>1, InitIInv, DocTop
<1>5. QED
  BY <1>3, <1>4 DEF Doc!Init, Doc!NoParent

(* Every step of the writer is a step of Doc or a stutter.                 *)
LEMMA StepRefines ==
  ASSUME LInv, KeysFit, MaxBytes <= UINT16_MAX, [Next]_vars
  PROVE  [Doc!Next]_(Doc!vars)
<1>1. Shape
  BY StepShape DEF LInv
<1>2. CASE Quiet
  BY <1>2, QuietStutters DEF Doc!vars
<1>3. CASE \E t \in Token : AddShape(t)
  BY <1>3, AddIsDocAdd
<1>4. CASE \E t \in Token, v \in {"MAP_KEY", "ARRAY_KEY"} : OpenShape(t, v)
  BY <1>4, OpenIsDocOpen
<1>5. CASE \E t, h \in Token : CloseShape(t, h)
  BY <1>5, CloseIsDocClose
<1>6. QED
  BY <1>1, <1>2, <1>3, <1>4, <1>5 DEF Shape

(* Every call of bkv.h adds to the document what BkvDoc says and where it  *)
(* says, at any depth and size: what bkv_val.c can read from the headers   *)
(* (bkv.c:549-556, 577-590, 612-617, 734-756) is the tree the client built.*)
THEOREM WriterImplementsDoc ==
  ASSUME KeysFit, MaxBytes <= UINT16_MAX PROVE Spec => RefinesDoc
<1>1. Init => Doc!Init
  BY InitIsDocInit
<1>2. LInv /\ [Next]_vars => [Doc!Next]_(Doc!vars)
  BY StepRefines
<1>3. QED
  BY <1>1, <1>2, LengthInvariant, PTL DEF Spec, RefinesDoc, Doc!Spec
==============================================================================

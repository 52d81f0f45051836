-------------------------- MODULE BkvReadBackProofs --------------------------
(***************************************************************************)
(* Proofs about lookups in a finished document, for every value of the     *)
(* constants with keys of twelve bits, documents whose size fits a 16-bit  *)
(* length, and values of the sizes that the reader knows.                  *)
(***************************************************************************)
EXTENDS BkvReadBack, BkvWriterDocProofs, FiniteSetTheorems, WellFoundedInduction

(* The reader moves over a scalar as far as the writer moved when it wrote *)
(* the scalar: its sizes are those that bkv_val.c has for the types.       *)
SizesKnown == \A a \in KvAdds \cup ArrayAdds : a.size = Advance(a)

Assumptions == SizesKnown /\ MaxBytes <= UINT16_MAX

(***************************************************************************)
(* What the headers of a document look like to the reader.                 *)
(***************************************************************************)
Closed(p) == p \in Containers /\ ~IsOpen(p)

(* Each token ends where the next one starts.                              *)
Contiguous ==
  \A o \in DOMAIN buf :
    /\ buf[o].size = Advance(buf[o])
    /\ o + buf[o].size \in DOMAIN buf \cup {write_offset}

(* A closed container ends with its closing token, behind its header;      *)
ClosedByCloser ==
  \A p \in Containers : Closed(p) =>
    \E c \in DOMAIN buf : /\ p < c /\ c + buf[c].size = End(p)
                          /\ buf[c].type = CloserOf(buf[p].type)

(* and every closing token is the end of one.                              *)
CloserCloses ==
  \A c \in DOMAIN buf : buf[c].type \in Closers =>
    \E p \in Containers : Closed(p) /\ p < c /\ c + buf[c].size = End(p)

(* A container that starts in another one ends in it.                      *)
SpansNest ==
  \A p, q \in Containers :
    Closed(p) /\ Closed(q) /\ p < q /\ q < End(p) => End(q) < End(p)

WInv ==
  /\ LInv
  /\ Contiguous
  /\ ClosedByCloser
  /\ CloserCloses
  /\ SpansNest

(***************************************************************************)
(* The writer keeps them.                                                  *)
(***************************************************************************)
(* What the reader's table of sizes has for the types that delimit.        *)
LEMMA AdvanceOfDelimiters ==
  ASSUME NEW t
  PROVE  /\ t.type = HDR_TYPE_MAP_OPEN => Advance(t) = 4
         /\ t.type = HDR_TYPE_MAP_CLOSE => Advance(t) = 2
         /\ t.type = HDR_TYPE_ARRAY_OPEN => Advance(t) = 6
         /\ t.type = HDR_TYPE_ARRAY_CLOSE => Advance(t) = 5
BY DEF Advance, HDR_TYPE_MAP_OPEN, HDR_TYPE_MAP_CLOSE, HDR_TYPE_ARRAY_OPEN,
       HDR_TYPE_ARRAY_CLOSE, HDR_TYPE_INT16, HDR_TYPE_INT32, HDR_TYPE_INT64,
       HDR_TYPE_STRING, HDR_TYPE_FLOAT, HDR_TYPE_DOUBLE, HDR_TYPE_BOOLEAN,
       HDR_SIZE, MAP_OPEN_VALUE_SIZE, MAP_CLOSE_VALUE_SIZE, ARRAY_OPEN_VALUE_SIZE,
       ARRAY_CLOSE_VALUE_SIZE

(* Sizes of the tokens of the writer.                                      *)
LEMMA AdvanceOfTokens ==
  ASSUME NEW t
  PROVE  /\ \A v \in {"MAP_KEY", "ARRAY_KEY"} :
              t.type = OpenerOf(v) => Advance(t) = OpenerSize(v)
         /\ t.type \in Closers => Advance(t) = CloserSize(t.type)
         /\ \A a : a.type = t.type /\ a.len = t.len => Advance(a) = Advance(t)
<1>1. \A v \in {"MAP_KEY", "ARRAY_KEY"} :
        t.type = OpenerOf(v) => Advance(t) = OpenerSize(v)
  BY AdvanceOfDelimiters DEF OpenerOf, OpenerSize, HDR_SIZE, MAP_OPEN_VALUE_SIZE,
                             ARRAY_OPEN_VALUE_SIZE
<1>2. t.type \in Closers => Advance(t) = CloserSize(t.type)
  <2>1. HDR_TYPE_MAP_CLOSE # HDR_TYPE_ARRAY_CLOSE
    BY DEF HDR_TYPE_MAP_CLOSE, HDR_TYPE_ARRAY_CLOSE
  <2>2. QED
    BY <2>1, AdvanceOfDelimiters DEF Closers, CloserSize, HDR_SIZE,
       MAP_CLOSE_VALUE_SIZE, ARRAY_CLOSE_VALUE_SIZE
<1>3. \A a : a.type = t.type /\ a.len = t.len => Advance(a) = Advance(t)
  BY DEF Advance
<1>4. QED
  BY <1>1, <1>2, <1>3

(* The types of the spans.                                                 *)
LEMMA SpanTypes ==
  ASSUME IInv
  PROVE  \A p \in Containers : /\ p \in DOMAIN buf /\ p \in Nat
                               /\ buf[p].len \in Nat /\ End(p) \in Nat
                               /\ p < write_offset
<1>1. ASSUME NEW p \in Containers
      PROVE  /\ p \in DOMAIN buf /\ p \in Nat
             /\ buf[p].len \in Nat /\ End(p) \in Nat /\ p < write_offset
  <2>1. p \in DOMAIN buf /\ p \in Nat /\ buf[p] \in Token
    BY TokenTypes DEF Containers
  <2>2. buf[p].len \in Nat /\ buf[p].size \in Nat /\ buf[p].size > 0
    BY <2>1, TokenTypes, MaximaAreNat DEF Token
  <2>3. p + buf[p].size <= write_offset /\ write_offset \in Nat
    BY <2>1, OffsetTypes DEF IInv, TokensInOrder
  <2>4. QED
    BY <2>1, <2>2, <2>3 DEF End
<1>2. QED
  BY <1>1

(* A token that closes nothing, appended, disturbs no closed container.    *)
LEMMA AppendKeepsSpans ==
  ASSUME WInv, NEW t \in Token, t.type \notin Closers,
         buf' = Overlay(buf, write_offset, t), write_offset' = write_offset + t.size,
         t.size = Advance(t),
         \A o \in Containers' : ~IsOpen(o)' => o \in Containers /\ ~IsOpen(o),
         \A o \in Containers : o \in Containers' /\ (IsOpen(o)' <=> IsOpen(o))
  PROVE  Contiguous' /\ ClosedByCloser' /\ CloserCloses' /\ SpansNest'
<1>1. /\ DOMAIN buf' = DOMAIN buf \cup {write_offset}
      /\ buf'[write_offset] = t /\ write_offset \notin DOMAIN buf
      /\ \A o \in DOMAIN buf : buf'[o] = buf[o]
  BY OverlayAtEnd DEF WInv, LInv, IInv
<1>2. Contiguous'
  BY <1>1 DEF WInv, Contiguous
<1>3. \A p : Closed(p)' <=> Closed(p)
  BY DEF Closed
<1>4. \A p \in Containers : End(p)' = End(p) /\ buf'[p] = buf[p]
  BY <1>1 DEF End, Containers
<1>5. ClosedByCloser'
  BY <1>1, <1>3, <1>4 DEF WInv, ClosedByCloser, Closed, CloserOf
<1>6. CloserCloses'
  <2>1. ASSUME NEW c \in DOMAIN buf', buf'[c].type \in Closers
        PROVE  c \in DOMAIN buf /\ buf'[c] = buf[c]
    BY <1>1, <2>1
  <2>2. QED
    BY <1>1, <1>3, <1>4, <2>1 DEF WInv, CloserCloses, Closed
<1>7. SpansNest'
  BY <1>3, <1>4 DEF WInv, SpansNest, Closed
<1>8. QED
  BY <1>2, <1>5, <1>6, <1>7

(* A closing token makes its container the outermost of the closed ones.   *)
LEMMA CloseKeepsSpans ==
  ASSUME WInv, MaxBytes <= UINT16_MAX, NEW t \in Token, NEW h \in Token,
         CloseShape(t, h)
  PROVE  Contiguous' /\ ClosedByCloser' /\ CloserCloses' /\ SpansNest'
<1>1. IInv /\ HeadersMatch /\ LengthsDelimit
  BY DEF WInv, LInv
<1>2. /\ DOMAIN buf' = DOMAIN buf \cup {write_offset}
      /\ write_offset \notin DOMAIN buf /\ OpenHeader \in DOMAIN buf
      /\ buf'[write_offset] = t /\ buf'[OpenHeader] = h
      /\ \A o \in DOMAIN buf : o # OpenHeader => buf'[o] = buf[o]
      /\ \A o \in DOMAIN buf : buf'[o].size = buf[o].size
      /\ \A o \in DOMAIN buf : buf'[o].type = buf[o].type
  BY <1>1, CloseBuffer
<1>3. /\ Containers' = Containers
      /\ \A o : IsOpen(o)' <=> IsOpen(o) /\ o # OpenHeader
      /\ \A o \in Containers : IsOpen(o) => o <= OpenHeader
      /\ t.type = CloserOf(buf[OpenHeader].type)
  BY <1>1, CloseShutsHeader
<1>4. /\ IsOpen(OpenHeader) /\ OpenHeader \in Containers
      /\ t.type \in Closers /\ t.size = CloserSize(t.type)
  BY <1>1, HeaderIsOpen DEF CloseShape
<1>5. /\ OpenHeader + h.len = write_offset' /\ write_offset + t.size = write_offset'
      /\ write_offset' \in Nat /\ write_offset \in Nat /\ t.size \in Nat /\ t.size > 0
  BY <1>1, SpanLengthExact, OffsetTypes, TokenTypes
<1>6. /\ \A p : Closed(p)' <=> Closed(p) \/ p = OpenHeader
      /\ ~Closed(OpenHeader)
  BY <1>3, <1>4 DEF Closed
<1>7. /\ \A p \in Containers : p # OpenHeader => End(p)' = End(p) /\ buf'[p] = buf[p]
      /\ \A p : p = OpenHeader => End(p)' = write_offset'
  BY <1>2, <1>5 DEF End, Containers
<1>8. Contiguous'
  <2>1. \A o \in DOMAIN buf : Advance(buf'[o]) = Advance(buf[o])
    <3>1. Advance(buf'[OpenHeader]) = Advance(buf[OpenHeader])
      <4>1. \A a, b : a.type = b.type /\ a.type \in Openers => Advance(a) = Advance(b)
        BY AdvanceOfDelimiters DEF Openers
      <4>2. QED
        BY <1>2, <1>4, <4>1 DEF Containers
    <3>2. QED
      BY <1>2, <3>1
  <2>2. t.size = Advance(t)
    BY <1>4, AdvanceOfTokens
  <2>3. QED
    BY <1>2, <1>5, <2>1, <2>2 DEF WInv, Contiguous
<1>9. ClosedByCloser'
  <2>1. ASSUME NEW p \in Containers', Closed(p)'
        PROVE  \E c \in DOMAIN buf' : /\ p < c /\ c + buf'[c].size = End(p)'
                                      /\ buf'[c].type = CloserOf(buf'[p].type)
    <3>1. CASE p = OpenHeader
      <4>1. p < write_offset
        BY <1>1, <1>4, <3>1, SpanTypes
      <4>2. buf'[write_offset].type = CloserOf(buf'[p].type)
        BY <1>2, <1>3, <3>1
      <4>3. QED
        BY <1>2, <1>5, <1>7, <3>1, <4>1, <4>2
    <3>2. CASE p # OpenHeader
      <4>1. PICK c \in DOMAIN buf : /\ p < c /\ c + buf[c].size = End(p)
                                    /\ buf[c].type = CloserOf(buf[p].type)
        BY <1>3, <1>6, <2>1, <3>2 DEF WInv, ClosedByCloser
      <4>2. QED
        BY <1>2, <1>3, <1>7, <3>2, <4>1
    <3>3. QED
      BY <3>1, <3>2
  <2>2. QED
    BY <2>1 DEF ClosedByCloser, CloserOf
<1>10. CloserCloses'
  <2>1. ASSUME NEW c \in DOMAIN buf', buf'[c].type \in Closers
        PROVE  \E p \in Containers' : Closed(p)' /\ p < c /\ c + buf'[c].size = End(p)'
    <3>1. CASE c = write_offset
      <4>1. OpenHeader < c
        BY <1>1, <1>4, <3>1, SpanTypes
      <4>2. QED
        BY <1>2, <1>3, <1>4, <1>5, <1>6, <1>7, <3>1, <4>1
    <3>2. CASE c # write_offset
      <4>1. PICK p \in Containers : Closed(p) /\ p < c /\ c + buf[c].size = End(p)
        BY <1>2, <2>1, <3>2 DEF WInv, CloserCloses
      <4>2. p # OpenHeader
        BY <1>6, <4>1
      <4>3. QED
        BY <1>2, <1>3, <1>6, <1>7, <3>2, <4>1, <4>2
    <3>3. QED
      BY <3>1, <3>2
  <2>2. QED
    BY <2>1 DEF CloserCloses
<1>11. SpansNest'
  <2>1. ASSUME NEW p \in Containers', NEW q \in Containers',
               Closed(p)', Closed(q)', p < q, q < End(p)'
        PROVE  End(q)' < End(p)'
    <3>1. \A r \in Containers : Closed(r) => End(r) <= write_offset /\ End(r) \in Nat
      BY <1>1, SpanTypes DEF LengthsDelimit, Closed, End
    <3>2. CASE p = OpenHeader
      <4>1. q # OpenHeader /\ Closed(q)
        BY <1>1, <1>3, <1>4, <1>6, <2>1, <3>2, SpanTypes
      <4>2. QED
        BY <1>3, <1>5, <1>7, <3>1, <3>2, <4>1
    <3>3. CASE p # OpenHeader
      <4>1. Closed(p) /\ End(p)' = End(p)
        BY <1>3, <1>6, <1>7, <2>1, <3>3
      <4>2. q # OpenHeader
        <5>1. OpenHeader < p \/ End(p) <= OpenHeader
          BY <1>1, <1>4, <4>1 DEF LengthsDelimit, Closed, End
        <5>2. QED
          BY <1>1, <1>3, <1>4, <2>1, <4>1, <5>1, SpanTypes
      <4>3. QED
        BY <1>3, <1>6, <1>7, <2>1, <4>1, <4>2 DEF WInv, SpansNest
    <3>4. QED
      BY <3>2, <3>3
  <2>2. QED
    BY <2>1 DEF SpansNest
<1>12. QED
  BY <1>8, <1>9, <1>10, <1>11

(* Every step of the writer preserves WInv.                                *)
LEMMA WriterStep ==
  ASSUME WInv, KeysFit, Assumptions, [Next]_vars PROVE WInv'
<1>1. IInv /\ HeadersMatch /\ LInv' /\ Shape
  BY LengthStep, StepShape DEF WInv, LInv, Assumptions
<1>2. CASE Quiet
  <2>1. UNCHANGED <<buf, write_offset, deep_offset, map_offset>>
    BY <1>2 DEF Quiet, nest, mem
  <2>2. QED
    BY <1>1, <2>1 DEF WInv, Contiguous, ClosedByCloser, CloserCloses, SpansNest,
                      Closed, Containers, IsOpen, End
<1>3. ASSUME NEW t \in Token, AddShape(t) PROVE WInv'
  <2>1. t.size = Advance(t)
    <3>1. PICK a \in KvAdds \cup ArrayAdds :
            t.type = a.type /\ t.size = a.size /\ t.len = a.len
      BY <1>3 DEF AddShape
    <3>2. QED
      BY <3>1, AdvanceOfTokens DEF Assumptions, SizesKnown
  <2>2. /\ t.type \notin Closers /\ buf' = Overlay(buf, write_offset, t)
        /\ write_offset' = write_offset + t.size
    BY <1>3 DEF AddShape, Appends
  <2>3. Containers' = Containers /\ \A o : IsOpen(o)' <=> IsOpen(o)
    BY <1>1, <1>3, AddKeepsContainers
  <2>4. QED
    BY <1>1, <2>1, <2>2, <2>3, AppendKeepsSpans DEF WInv
<1>4. ASSUME NEW t \in Token, NEW v \in {"MAP_KEY", "ARRAY_KEY"}, OpenShape(t, v)
      PROVE  WInv'
  <2>1. /\ t.size = OpenerSize(v) /\ buf' = Overlay(buf, write_offset, t)
        /\ write_offset' = write_offset + t.size
    BY <1>4 DEF OpenShape, Appends
  <2>2. /\ t.type = OpenerOf(v)
        /\ Containers' = Containers \cup {write_offset}
        /\ \A o \in DOMAIN buf : IsOpen(o)' <=> IsOpen(o)
        /\ \A o : o = write_offset => IsOpen(o)'
    BY <1>1, <1>4, OpenAddsContainer
  <2>3. t.size = Advance(t) /\ t.type \notin Closers
    BY <2>1, <2>2, AdvanceOfTokens, TypesDiffer
  <2>4. /\ \A o \in Containers' : ~IsOpen(o)' => o \in Containers /\ ~IsOpen(o)
        /\ \A o \in Containers : o \in Containers' /\ (IsOpen(o)' <=> IsOpen(o))
    BY <2>2 DEF Containers
  <2>5. QED
    BY <1>1, <2>1, <2>3, <2>4, AppendKeepsSpans DEF WInv
<1>5. ASSUME NEW t \in Token, NEW h \in Token, CloseShape(t, h) PROVE WInv'
  BY <1>1, <1>5, CloseKeepsSpans DEF WInv, Assumptions
<1>6. QED
  BY <1>1, <1>2, <1>3, <1>4, <1>5 DEF Shape

(***************************************************************************)
(* The spans of a finished document: every container is closed.            *)
(***************************************************************************)
Finished == state = "STATE_TERM"

(* Nothing is left open when the document is finished.                     *)
LEMMA AllClosed ==
  ASSUME WInv, Finished PROVE \A p \in Containers : Closed(p)
<1>1. deep_offset = -1
  BY TopType DEF Finished, WInv, LInv, IInv, StateMatchesStack
<1>2. 0..deep_offset = {}
  BY <1>1
<1>3. QED
  BY <1>2 DEF Closed, IsOpen

(* The types of all that the lemmas below compare.                         *)
LEMMA TreeTypes ==
  ASSUME WInv
  PROVE  /\ \A o \in DOMAIN buf : /\ o \in Nat /\ buf[o].size \in Nat /\ buf[o].size > 0
                                  /\ o + buf[o].size \in Nat
         /\ \A p \in Containers : p \in DOMAIN buf /\ p \in Nat /\ End(p) \in Nat
         /\ \A o, x \in DOMAIN buf : o < x => o + buf[o].size <= x
         /\ \A p \in Containers : buf[p].type \notin Closers
<1>1. IInv
  BY DEF WInv, LInv
<1>2. \A o \in DOMAIN buf : o \in Nat /\ buf[o].size \in Nat /\ buf[o].size > 0
                            /\ o + buf[o].size \in Nat
  BY <1>1, TokenTypes
<1>3. \A o, x \in DOMAIN buf : o < x => o + buf[o].size <= x
  BY <1>1 DEF IInv, TokensInOrder
<1>4. \A p \in Containers : buf[p].type \notin Closers
  BY TypesDiffer DEF Containers
<1>5. QED
  BY <1>1, <1>2, <1>3, <1>4, SpanTypes

(* A token in a container ends in it, at its end only if it closes it.     *)
LEMMA TokenInSpan ==
  ASSUME WInv, Finished, NEW o \in DOMAIN buf, NEW p \in Containers, o < End(p)
  PROVE  /\ o + buf[o].size <= End(p)
         /\ o + buf[o].size = End(p) => buf[o].type = CloserOf(buf[p].type) /\ p < o
<1>1. PICK c \in DOMAIN buf : /\ p < c /\ c + buf[c].size = End(p)
                              /\ buf[c].type = CloserOf(buf[p].type)
  BY AllClosed DEF WInv, ClosedByCloser
<1>2. CASE o < c
  BY <1>1, <1>2, TreeTypes
<1>3. CASE o = c
  BY <1>1, <1>3, TreeTypes
<1>4. CASE c < o
  BY <1>1, <1>4, TreeTypes
<1>5. QED
  BY <1>1, <1>2, <1>3, <1>4, TreeTypes

(* Not closing it, it is followed by another token in it.                  *)
LEMMA NextInSpan ==
  ASSUME WInv, Finished, NEW o \in DOMAIN buf, NEW p \in Containers, o < End(p),
         o + buf[o].size # End(p)
  PROVE  o + buf[o].size \in DOMAIN buf /\ o + buf[o].size < End(p)
<1>1. o + buf[o].size < End(p)
  BY TokenInSpan, TreeTypes
<1>2. End(p) <= write_offset
  BY AllClosed DEF WInv, LInv, LengthsDelimit, Closed, End
<1>3. o + buf[o].size # write_offset
  BY <1>1, <1>2, TreeTypes, OffsetTypes DEF WInv, LInv
<1>4. QED
  BY <1>1, <1>3 DEF WInv, Contiguous

(* A container holds its closing token.                                    *)
LEMMA SpanHasEnd ==
  ASSUME WInv, Finished, NEW p \in Containers
  PROVE  p < End(p) /\ p + buf[p].size < End(p)
<1>1. PICK c \in DOMAIN buf : /\ p < c /\ c + buf[c].size = End(p)
  BY AllClosed DEF WInv, ClosedByCloser
<1>2. QED
  BY <1>1, TreeTypes

(* Two containers do not end with the same token.                          *)
LEMMA EndsDiffer ==
  ASSUME WInv, Finished, NEW p \in Containers, NEW q \in Containers, End(p) = End(q)
  PROVE  p = q
<1>1. p < End(p) /\ q < End(q)
  BY SpanHasEnd
<1>2. ~(p < q) /\ ~(q < p)
  BY <1>1, AllClosed, TreeTypes DEF WInv, SpansNest
<1>3. QED
  BY <1>2, TreeTypes

(***************************************************************************)
(* The containers of v around a place x, and what a hop makes of them.     *)
(***************************************************************************)
Around(x) == {p \in Containers : origin <= p /\ p < x /\ x < End(p)}

(* There are finitely many, and map_deep can count them.                   *)
LEMMA AroundFinite ==
  ASSUME WInv, NEW x PROVE IsFiniteSet(Around(x)) /\ Cardinality(Around(x)) \in Nat
<1>1. Around(x) \in SUBSET (0..MaxBytes)
  BY TokenTypes DEF WInv, LInv, Around, Containers
<1>2. IsFiniteSet(0..MaxBytes)
  <2>1. 0 \in Int /\ MaxBytes \in Int
    BY ConstantTypes
  <2>2. QED
    BY <2>1, FS_Interval
<1>3. IsFiniteSet(Around(x))
  BY <1>1, <1>2, FS_Subset
<1>4. QED
  BY <1>3, FS_CardinalityType

(* Past a scalar: the same.                                                *)
LEMMA AroundPastScalar ==
  ASSUME WInv, Finished, NEW o \in DOMAIN buf, buf[o].type \notin Openers \cup Closers
  PROVE  Around(o + buf[o].size) = Around(o)
<1> DEFINE n == o + buf[o].size
<1>1. \A p \in Containers : p < n <=> p < o
  <2>1. o \notin Containers
    BY DEF Containers
  <2>2. QED
    BY <2>1, TreeTypes
<1>2. \A p \in Containers : n < End(p) <=> o < End(p)
  <2>1. \A p \in Containers : CloserOf(buf[p].type) \in Closers
    BY DEF CloserOf, Closers
  <2>2. \A p \in Containers : o < End(p) => n < End(p)
    BY <2>1, TokenInSpan, TreeTypes
  <2>3. QED
    BY <2>2, TreeTypes
<1>3. QED
  BY <1>1, <1>2 DEF Around

(* Past an opening token: its container as well.                           *)
LEMMA AroundPastOpener ==
  ASSUME WInv, Finished, NEW o \in Containers, origin <= o
  PROVE  /\ Around(o + buf[o].size) = Around(o) \cup {o}
         /\ o \notin Around(o)
<1> DEFINE n == o + buf[o].size
<1>1. o \in DOMAIN buf /\ o \in Nat /\ buf[o].type \notin Closers
  BY TreeTypes
<1>2. \A p \in Containers : p < n <=> p < o \/ p = o
  BY <1>1, TreeTypes
<1>3. \A p \in Containers : n < End(p) <=> o < End(p)
  <2>1. \A p \in Containers : CloserOf(buf[p].type) \in Closers
    BY DEF CloserOf, Closers
  <2>2. \A p \in Containers : o < End(p) => n < End(p)
    BY <1>1, <2>1, TokenInSpan, TreeTypes
  <2>3. QED
    BY <1>1, <2>2, TreeTypes
<1>4. o < End(o) /\ ~(o < o)
  BY <1>1, SpanHasEnd
<1>5. QED
  BY <1>2, <1>3, <1>4 DEF Around

(* Past a closing token: all but its container.                            *)
LEMMA AroundPastCloser ==
  ASSUME WInv, Finished, NEW o \in DOMAIN buf, buf[o].type \in Closers,
         NEW m \in Containers, m = origin, m < o, o < End(m)
  PROVE  \E q \in Around(o) :
           /\ End(q) = o + buf[o].size
           /\ buf[o].type = CloserOf(buf[q].type)
           /\ Around(o + buf[o].size) = Around(o) \ {q}
           /\ q # m => End(q) < End(m)
           /\ q = m => Around(o) = {m}
<1> DEFINE n == o + buf[o].size
<1>1. PICK q \in Containers : Closed(q) /\ q < o /\ End(q) = n
  BY DEF WInv, CloserCloses
<1>2. o \in Nat /\ n \in Nat /\ o < n /\ q \in Nat /\ m \in Nat /\ End(m) \in Nat
  BY <1>1, TreeTypes
<1>3. buf[o].type = CloserOf(buf[q].type)
  BY <1>1, <1>2, TokenInSpan
<1>4. origin <= q
  <2>1. CASE q < m
    <3>1. End(m) < End(q)
      BY <1>1, <1>2, <2>1, AllClosed DEF WInv, SpansNest
    <3>2. n <= End(m)
      BY TokenInSpan
    <3>3. QED
      BY <1>1, <1>2, <3>1, <3>2
  <2>2. QED
    BY <1>2, <2>1
<1>5. q \in Around(o)
  BY <1>1, <1>2, <1>4 DEF Around
<1>6. Around(n) = Around(o) \ {q}
  <2>1. \A p \in Containers : p < n <=> p < o
    <3>1. o \notin Containers
      BY TreeTypes
    <3>2. QED
      BY <3>1, TreeTypes
  <2>2. \A p \in Containers : n < End(p) <=> o < End(p) /\ p # q
    <3>1. ASSUME NEW p \in Containers, o < End(p), p # q PROVE n < End(p)
      BY <1>1, <1>2, <3>1, TokenInSpan, EndsDiffer, TreeTypes
    <3>2. QED
      BY <1>1, <1>2, <3>1, TreeTypes
  <2>3. QED
    BY <2>1, <2>2 DEF Around
<1>7. ASSUME NEW p \in Around(o), p # m PROVE m < p /\ End(p) < End(m)
  <2>1. p \in Containers /\ m < p /\ p < o /\ p \in Nat
    BY <1>2, <1>7, TreeTypes DEF Around
  <2>2. p < End(m)
    BY <1>2, <2>1
  <2>3. QED
    BY <2>1, <2>2, AllClosed DEF WInv, SpansNest
<1>8. q = m => Around(o) = {m}
  <2>1. ASSUME q = m, NEW p \in Around(o), p # m PROVE FALSE
    <3>1. End(p) < n /\ p \in Containers /\ o < End(p)
      BY <1>1, <1>7, <2>1 DEF Around
    <3>2. n <= End(p)
      BY <3>1, TokenInSpan
    <3>3. QED
      BY <1>2, <3>1, <3>2, TreeTypes
  <2>2. QED
    BY <1>5, <2>1
<1>9. QED
  BY <1>1, <1>3, <1>5, <1>6, <1>7, <1>8

(* Past a whole container: the same.                                       *)
LEMMA AroundPastSpan ==
  ASSUME WInv, Finished, NEW o \in Containers, NEW m \in Containers, m = origin,
         m < o, o < End(m)
  PROVE  /\ Around(End(o)) = Around(o)
         /\ End(o) \in DOMAIN buf /\ m < End(o) /\ End(o) < End(m)
<1>1. o < End(o) /\ o \in Nat /\ End(o) \in Nat /\ m \in Nat /\ End(m) \in Nat
  BY SpanHasEnd, TreeTypes
<1>2. \A p, q \in Containers : p < q /\ q < End(p) => End(q) < End(p)
  BY AllClosed DEF WInv, SpansNest
<1>3. \A p \in Containers : p < End(o) /\ End(o) < End(p) <=> p < o /\ o < End(p)
  BY <1>1, <1>2, TreeTypes
<1>4. End(o) < End(m)
  BY <1>2
<1>5. End(o) \in DOMAIN buf
  <2>1. PICK c \in DOMAIN buf : c + buf[c].size = End(o)
    BY AllClosed DEF WInv, ClosedByCloser
  <2>2. c < End(m) /\ c + buf[c].size # End(m)
    BY <1>1, <1>4, <2>1, TreeTypes
  <2>3. QED
    BY <2>1, <2>2, NextInSpan
<1>6. QED
  BY <1>1, <1>3, <1>4, <1>5 DEF Around

(***************************************************************************)
(* The walk of the reader.                                                 *)
(***************************************************************************)
(* The cursor stands at x inside of v, deep containers down, and k keys of *)
(* the path are behind it; k is -1 until it leaves the header of v.        *)
StandsAt(x, deep, k) ==
  /\ x \in DOMAIN buf /\ origin <= x /\ x < End(origin)
  /\ deep = Cardinality(Around(x))
  /\ k = -1 => x = origin
  /\ k # -1 => origin < x

ReaderTypes ==
  /\ pc \in {"idle", "loop", "done", "crash", "lost"}
  /\ origin \in 0..MaxBytes /\ keys \in Paths \cup {<<>>} /\ nb_val \in NbVals \cup {1}
  /\ ptr \in Nat /\ map_deep \in Int
  /\ key_offset \in -1 .. Len(keys)
  /\ val \in Seq(0..MaxBytes)

(* The reader works on a finished document, and holds tokens of it.        *)
HoldsTokens ==
  /\ pc # "idle" => Finished /\ origin \in DOMAIN buf
  /\ val # <<>> => pc # "idle" /\ val[1] \in DOMAIN buf
  /\ pc = "loop" /\ keys # <<>> => key_offset < Len(keys)

WalksMap ==
  FromMap =>
    /\ pc \notin {"crash", "lost"}
    /\ pc = "loop" => keys # <<>> /\ StandsAt(ptr, map_deep, key_offset)

RdInv == WInv /\ ReaderTypes /\ HoldsTokens /\ WalksMap

(* The reader has the table of the writer.                                 *)
LEMMA SameHeader ==
  /\ Reader!HDR_TYPE_MAP_OPEN = HDR_TYPE_MAP_OPEN
  /\ Reader!HDR_TYPE_MAP_CLOSE = HDR_TYPE_MAP_CLOSE
  /\ Reader!HDR_TYPE_ARRAY_OPEN = HDR_TYPE_ARRAY_OPEN
  /\ Reader!HDR_TYPE_ARRAY_CLOSE = HDR_TYPE_ARRAY_CLOSE
  /\ Reader!HDR_TYPE_STRING = HDR_TYPE_STRING
  /\ Reader!HDR_TYPE_BOOLEAN = HDR_TYPE_BOOLEAN
  /\ Reader!HDR_TYPE_DOUBLE = HDR_TYPE_DOUBLE
  /\ Reader!Numbers = Numbers
  /\ Reader!NoKeys = <<>>
  /\ \A t : Reader!Advance(t) = Advance(t)
BY DEF Reader!NoKeys, Reader!Numbers, Numbers, Reader!Advance, Advance,
       Reader!HDR_TYPE_MAP_OPEN, HDR_TYPE_MAP_OPEN,
       Reader!HDR_TYPE_MAP_CLOSE, HDR_TYPE_MAP_CLOSE,
       Reader!HDR_TYPE_ARRAY_OPEN, HDR_TYPE_ARRAY_OPEN,
       Reader!HDR_TYPE_ARRAY_CLOSE, HDR_TYPE_ARRAY_CLOSE,
       Reader!HDR_TYPE_INT16, HDR_TYPE_INT16, Reader!HDR_TYPE_INT32, HDR_TYPE_INT32,
       Reader!HDR_TYPE_INT64, HDR_TYPE_INT64, Reader!HDR_TYPE_STRING, HDR_TYPE_STRING,
       Reader!HDR_TYPE_FLOAT, HDR_TYPE_FLOAT, Reader!HDR_TYPE_DOUBLE, HDR_TYPE_DOUBLE,
       Reader!HDR_TYPE_BOOLEAN, HDR_TYPE_BOOLEAN, Reader!HDR_SIZE, HDR_SIZE,
       Reader!MAP_OPEN_VALUE_SIZE, MAP_OPEN_VALUE_SIZE,
       Reader!MAP_CLOSE_VALUE_SIZE, MAP_CLOSE_VALUE_SIZE,
       Reader!ARRAY_OPEN_VALUE_SIZE, ARRAY_OPEN_VALUE_SIZE,
       Reader!ARRAY_CLOSE_VALUE_SIZE, ARRAY_CLOSE_VALUE_SIZE,
       Reader!STRING_VALUE_SIZE, STRING_VALUE_SIZE

(* The types that the actions of the reader tell apart.                    *)
LEMMA ScalarTypes ==
  \A type \in Numbers \cup {HDR_TYPE_STRING, HDR_TYPE_BOOLEAN, HDR_TYPE_DOUBLE} :
    type \notin Openers \cup Closers
BY DEF Numbers, Openers, Closers, HDR_TYPE_MAP_OPEN, HDR_TYPE_MAP_CLOSE,
       HDR_TYPE_ARRAY_OPEN, HDR_TYPE_ARRAY_CLOSE, HDR_TYPE_INT16, HDR_TYPE_INT32,
       HDR_TYPE_INT64, HDR_TYPE_STRING, HDR_TYPE_FLOAT, HDR_TYPE_DOUBLE,
       HDR_TYPE_BOOLEAN

(***************************************************************************)
(* The types of the reader's variables.                                    *)
(***************************************************************************)
(* What every pass of the loop has in common.                              *)
PassShape ==
  /\ pc = "loop" /\ pc' \in {"loop", "done", "crash", "lost"}
  /\ origin' = origin /\ keys' = keys /\ nb_val' = nb_val
  /\ ptr' \in Nat /\ map_deep' \in Int
  /\ \/ key_offset' = key_offset
     \/ /\ key_offset' = key_offset + 1
        /\ \/ key_offset < 0
           \/ keys # <<>> /\ (pc' = "loop" => key_offset + 1 # Len(keys))
  /\ \/ val' = val
     \/ ptr \in DOMAIN buf /\ (val' = <<ptr>> \/ val' = Append(val, ptr))

(* The cursor moves by natural numbers.                                    *)
LEMMA MoveTypes ==
  ASSUME RdInv, ptr \in DOMAIN buf
  PROVE  /\ Reader!Advance(buf[ptr]) = buf[ptr].size
         /\ ptr + buf[ptr].size \in Nat /\ ptr + buf[ptr].len \in Nat
<1>1. Reader!Advance(buf[ptr]) = buf[ptr].size
  BY SameHeader DEF RdInv, WInv, Contiguous
<1>2. buf[ptr].size \in Nat /\ buf[ptr].len \in Nat /\ ptr \in Nat
  BY TokenTypes, MaximaAreNat DEF RdInv, WInv, LInv, Token
<1>3. QED
  BY <1>1, <1>2

(* Every pass has that shape.                                              *)
LEMMA PassHasShape ==
  ASSUME RdInv, Reader!Step, UNCHANGED vars PROVE PassShape
<1>1. map_deep \in Int /\ key_offset \in Int /\ ptr \in Nat
  BY DEF RdInv, ReaderTypes
<1>2. \A d \in {-1, 0, 1} : map_deep + d \in Int
  BY <1>1
<1>3. ASSUME NEW d \in {-1, 0, 1}, ptr \in DOMAIN buf, Reader!Move(d)
      PROVE  ptr' \in Nat /\ map_deep' \in Int
  BY <1>2, <1>3, MoveTypes DEF Reader!Move, Reader!tok
<1>4. CASE Reader!OnMapOpen
  <2>1. pc = "loop" /\ ptr \in DOMAIN buf
    BY <1>4 DEF Reader!OnMapOpen, Reader!At
  <2>2. CASE key_offset < 0 /\ key_offset' = key_offset + 1 /\ Reader!Move(1)
             /\ Reader!Continue
    BY <1>3, <2>1, <2>2 DEF PassShape, Reader!Continue, Reader!query
  <2>3. CASE key_offset >= 0 /\ keys = Reader!NoKeys /\ Reader!Crash
    BY <1>1, <2>1, <2>3 DEF PassShape, Reader!Crash, Reader!query
  <2>4. CASE /\ key_offset >= 0 /\ keys # Reader!NoKeys
             /\ key_offset' = key_offset + 1 /\ Reader!Move(1)
             /\ IF Reader!LastKey THEN Reader!Found ELSE Reader!Continue
    BY <1>3, <2>1, <2>4, SameHeader
       DEF PassShape, Reader!Found, Reader!Continue, Reader!query, Reader!LastKey
  <2>5. CASE /\ IF Reader!tok.len = 0 THEN Reader!Stop ELSE Reader!Continue
             /\ ptr' = Reader!HopTo
             /\ UNCHANGED <<map_deep, key_offset>>
    BY <1>1, <2>1, <2>5, MoveTypes
       DEF PassShape, Reader!Stop, Reader!Continue, Reader!query, Reader!HopTo, Reader!tok
  <2>6. QED
    BY <1>4, <2>2, <2>3, <2>4, <2>5 DEF Reader!OnMapOpen
<1>5. CASE Reader!OnMapClose
  BY <1>3, <1>5
     DEF PassShape, Reader!OnMapClose, Reader!At, Reader!Stop, Reader!Continue, Reader!query
<1>6. CASE Reader!OnArrayOpen
  BY <1>3, <1>6
     DEF PassShape, Reader!OnArrayOpen, Reader!At, Reader!Found, Reader!Continue, Reader!query
<1>7. CASE Reader!OnArrayClose
  BY <1>3, <1>7
     DEF PassShape, Reader!OnArrayClose, Reader!At, Reader!Continue, Reader!query
<1>8. CASE Reader!OnNumber
  BY <1>3, <1>8
     DEF PassShape, Reader!OnNumber, Reader!At, Reader!Found, Reader!Stop,
         Reader!Continue, Reader!query
<1>9. CASE Reader!OnOther
  BY <1>1, <1>3, <1>9
     DEF PassShape, Reader!OnOther, Reader!At, Reader!Found, Reader!Crash,
         Reader!Continue, Reader!query
<1>10. CASE Reader!OffDocument
  BY <1>1, <1>10 DEF PassShape, Reader!OffDocument, Reader!query
<1>11. QED
  BY <1>4, <1>5, <1>6, <1>7, <1>8, <1>9, <1>10 DEF Reader!Step

(* It keeps the types, and what the reader holds.                          *)
LEMMA PassKeepsTypes ==
  ASSUME RdInv, PassShape, UNCHANGED vars PROVE ReaderTypes' /\ HoldsTokens'
<1>1. buf' = buf /\ state' = state
  BY DEF vars, mem, nest
<1>2. key_offset \in -1 .. Len(keys) /\ keys \in Paths \cup {<<>>}
  BY DEF RdInv, ReaderTypes
<1>3. Len(keys) \in Nat /\ (keys # <<>> => Len(keys) > 0)
  BY <1>2, QueriesAssumption
<1>4. /\ key_offset' \in -1 .. Len(keys)
      /\ pc' = "loop" /\ keys # <<>> => key_offset' < Len(keys)
  <2>1. key_offset \in Int /\ -1 <= key_offset /\ key_offset <= Len(keys)
    BY <1>2, <1>3
  <2>2. keys # <<>> => key_offset < Len(keys)
    BY DEF RdInv, HoldsTokens, PassShape
  <2>3. CASE key_offset' = key_offset
    BY <1>2, <2>2, <2>3
  <2>4. CASE key_offset' = key_offset + 1 /\ key_offset < 0
    BY <1>3, <2>1, <2>4
  <2>5. CASE /\ key_offset' = key_offset + 1 /\ keys # <<>>
             /\ pc' = "loop" => key_offset + 1 # Len(keys)
    BY <1>3, <2>1, <2>2, <2>5
  <2>6. QED
    BY <2>3, <2>4, <2>5 DEF PassShape
<1>5. /\ val' \in Seq(0..MaxBytes)
      /\ val' # <<>> => val'[1] \in DOMAIN buf
  <2>1. val \in Seq(0..MaxBytes) /\ (val # <<>> => val[1] \in DOMAIN buf)
    BY DEF RdInv, ReaderTypes, HoldsTokens
  <2>2. CASE val' = val
    BY <2>1, <2>2
  <2>3. CASE ptr \in DOMAIN buf /\ (val' = <<ptr>> \/ val' = Append(val, ptr))
    <3>1. ptr \in 0..MaxBytes
      BY <2>3, TokenTypes DEF RdInv, WInv, LInv
    <3>2. CASE val' = <<ptr>>
      BY <2>3, <3>1, <3>2
    <3>3. CASE val' = Append(val, ptr)
      <4>1. val # <<>> => Append(val, ptr)[1] = val[1]
        BY <2>1, <3>1
      <4>2. val = <<>> => Append(val, ptr)[1] = ptr
        BY <2>1, <3>1
      <4>3. QED
        <5>1. Append(val, ptr) \in Seq(0..MaxBytes)
          BY <2>1, <3>1
        <5>2. Append(val, ptr)[1] \in DOMAIN buf
          BY <2>1, <2>3, <4>1, <4>2
        <5>3. QED
          BY ONLY <3>3, <5>1, <5>2, Zenon
    <3>4. QED
      BY <2>3, <3>2, <3>3
  <2>4. QED
    BY <2>2, <2>3 DEF PassShape
<1>6. ReaderTypes'
  BY <1>4, <1>5 DEF RdInv, ReaderTypes, PassShape
<1>7. HoldsTokens'
  BY <1>1, <1>4, <1>5 DEF RdInv, HoldsTokens, PassShape, Finished
<1>8. QED
  BY <1>6, <1>7

(***************************************************************************)
(* The walk through a map.                                                 *)
(***************************************************************************)
Walking == FromMap /\ pc = "loop"

(* Where the cursor stands; the container looked into is a finished map.   *)
LEMMA WalkFacts ==
  ASSUME RdInv, Walking
  PROVE  /\ WInv /\ Finished /\ keys # <<>> /\ StandsAt(ptr, map_deep, key_offset)
         /\ origin \in Containers /\ buf[origin].type = HDR_TYPE_MAP_OPEN
         /\ ptr \in DOMAIN buf /\ origin <= ptr /\ ptr < End(origin)
         /\ map_deep = Cardinality(Around(ptr)) /\ map_deep \in Nat
         /\ key_offset \in Int /\ key_offset >= -1
         /\ buf[ptr].type \notin Openers => origin < ptr
<1>1. /\ WInv /\ Finished /\ keys # <<>> /\ StandsAt(ptr, map_deep, key_offset)
      /\ key_offset \in Int /\ key_offset >= -1
  BY DEF RdInv, HoldsTokens, WalksMap, Walking, FromMap, ReaderTypes
<1>2. origin \in DOMAIN buf /\ buf[origin].type = HDR_TYPE_MAP_OPEN
  BY SameHeader DEF RdInv, HoldsTokens, Walking, FromMap, Reader!IsMap
<1>3. HDR_TYPE_MAP_OPEN \in Openers
  BY DEF Openers
<1>4. ptr = origin => buf[ptr].type \in Openers
  BY <1>2, <1>3
<1>5. map_deep = Cardinality(Around(ptr)) /\ Cardinality(Around(ptr)) \in Nat
  BY <1>1, AroundFinite DEF StandsAt
<1>6. QED
  BY <1>1, <1>2, <1>3, <1>4, <1>5 DEF StandsAt, Containers

(* A token that is not the end of v leads to another one in v.             *)
LEMMA MoveStaysInside ==
  ASSUME RdInv, Walking, ptr + buf[ptr].size # End(origin)
  PROVE  /\ ptr + buf[ptr].size \in DOMAIN buf
         /\ origin < ptr + buf[ptr].size /\ ptr + buf[ptr].size < End(origin)
BY WalkFacts, NextInSpan, TreeTypes

(* A token that closes nothing is not the end of v.                        *)
LEMMA OnlyClosersEnd ==
  ASSUME RdInv, Walking, buf[ptr].type \notin Closers
  PROVE  ptr + buf[ptr].size # End(origin)
<1>1. CloserOf(buf[origin].type) \in Closers
  BY DEF CloserOf, Closers
<1>2. QED
  BY <1>1, WalkFacts, TokenInSpan

(* Past an opening token the reader is one container deeper.               *)
LEMMA DeeperPastOpener ==
  ASSUME RdInv, Walking, buf[ptr].type \in Openers, NEW k \in Int, k # -1
  PROVE  StandsAt(ptr + buf[ptr].size, map_deep + 1, k)
<1>1. ptr \in Containers
  BY WalkFacts DEF Containers
<1>2. buf[ptr].type \notin Closers
  BY <1>1, WalkFacts, TreeTypes
<1>3. /\ Around(ptr + buf[ptr].size) = Around(ptr) \cup {ptr}
      /\ ptr \notin Around(ptr)
  BY <1>1, WalkFacts, AroundPastOpener
<1>4. Cardinality(Around(ptr) \cup {ptr}) = Cardinality(Around(ptr)) + 1
  BY <1>3, WalkFacts, AroundFinite, FS_AddElement
<1>5. map_deep + 1 = Cardinality(Around(ptr + buf[ptr].size))
  <2>1. map_deep = Cardinality(Around(ptr))
    BY WalkFacts
  <2>2. QED
    BY ONLY <1>3, <1>4, <2>1
<1>6. /\ ptr + buf[ptr].size \in DOMAIN buf
      /\ origin < ptr + buf[ptr].size /\ ptr + buf[ptr].size < End(origin)
  BY <1>2, OnlyClosersEnd, MoveStaysInside
<1>7. ptr + buf[ptr].size \in Nat /\ origin \in Nat
  BY <1>6, WalkFacts, TreeTypes
<1>8. QED
  BY <1>5, <1>6, <1>7 DEF StandsAt

(* Past a scalar it is as deep as before.                                  *)
LEMMA LevelPastScalar ==
  ASSUME RdInv, Walking, buf[ptr].type \notin Openers \cup Closers
  PROVE  StandsAt(ptr + buf[ptr].size, map_deep, key_offset)
<1>1. Around(ptr + buf[ptr].size) = Around(ptr)
  BY WalkFacts, AroundPastScalar
<1>2. key_offset # -1
  BY WalkFacts, TreeTypes DEF StandsAt
<1>3. QED
  BY <1>1, <1>2, WalkFacts, OnlyClosersEnd, MoveStaysInside, TreeTypes DEF StandsAt

(* Past a closing token it is one container higher, unless v ends there.   *)
LEMMA HigherPastCloser ==
  ASSUME RdInv, Walking, buf[ptr].type \in Closers,
         map_deep # 1 \/ buf[ptr].type # HDR_TYPE_MAP_CLOSE
  PROVE  StandsAt(ptr + buf[ptr].size, map_deep - 1, key_offset)
<1> DEFINE n == ptr + buf[ptr].size
<1>1. origin < ptr /\ key_offset # -1
  BY WalkFacts, TypesDiffer, TreeTypes DEF StandsAt
<1>2. PICK q \in Around(ptr) : /\ End(q) = n
                               /\ buf[ptr].type = CloserOf(buf[q].type)
                               /\ Around(n) = Around(ptr) \ {q}
                               /\ q # origin => End(q) < End(origin)
                               /\ q = origin => Around(ptr) = {origin}
  BY <1>1, WalkFacts, AroundPastCloser
<1>3. q # origin
  <2>1. CASE q = origin
    <3>1. buf[ptr].type = HDR_TYPE_MAP_CLOSE
      BY <1>2, <2>1, WalkFacts DEF CloserOf
    <3>2. Cardinality(Around(ptr)) = 1
      BY <1>2, <2>1, FS_Singleton
    <3>3. QED
      BY <3>1, <3>2, WalkFacts
  <2>2. QED
    BY <2>1
<1>4. Cardinality(Around(ptr) \ {q}) = Cardinality(Around(ptr)) - 1
  BY <1>2, WalkFacts, AroundFinite, FS_RemoveElement
<1>5. n # End(origin)
  BY <1>2, <1>3, WalkFacts, TreeTypes
<1>6. map_deep - 1 = Cardinality(Around(n))
  <2>1. map_deep = Cardinality(Around(ptr))
    BY WalkFacts
  <2>2. QED
    BY ONLY <1>2, <1>4, <2>1
<1>7. n \in DOMAIN buf /\ origin < n /\ n < End(origin)
  BY <1>5, MoveStaysInside
<1>8. n \in Nat /\ origin \in Nat
  BY <1>7, WalkFacts, TreeTypes
<1>9. QED
  BY <1>1, <1>6, <1>7, <1>8 DEF StandsAt

(* What a pass keeps of the walk.                                          *)
WalksOn ==
  /\ pc' \notin {"crash", "lost"}
  /\ pc' = "loop" => StandsAt(ptr', map_deep', key_offset')

(* Entering a map, or hopping over one that is not on the path.            *)
LEMMA MapOpenWalksOn ==
  ASSUME RdInv, Walking, Reader!OnMapOpen PROVE WalksOn
<1>1. /\ ptr \in DOMAIN buf /\ buf[ptr].type = HDR_TYPE_MAP_OPEN
      /\ buf[ptr].type \in Openers
  BY SameHeader DEF Reader!OnMapOpen, Reader!At, Reader!tok, Openers
<1>2. keys # Reader!NoKeys
  BY WalkFacts, SameHeader
<1>3. CASE /\ Reader!Move(1) /\ key_offset' = key_offset + 1
           /\ Reader!Continue \/ Reader!Found
  <2>1. ptr' = ptr + buf[ptr].size /\ map_deep' = map_deep + 1
    BY <1>1, <1>3, MoveTypes DEF Reader!Move, Reader!tok
  <2>2. key_offset' \in Int /\ key_offset' # -1
    BY <1>3, WalkFacts
  <2>3. StandsAt(ptr + buf[ptr].size, map_deep + 1, key_offset')
    BY <1>1, <2>2, DeeperPastOpener
  <2>4. QED
    BY <1>3, <2>1, <2>3 DEF WalksOn, Reader!Continue, Reader!Found
<1>4. CASE /\ key_offset >= 0 /\ ptr' = Reader!HopTo
           /\ Reader!Continue \/ Reader!Stop
           /\ UNCHANGED <<map_deep, key_offset>>
  <2>1. ptr \in Containers /\ ptr' = End(ptr)
    BY <1>1, <1>4 DEF Containers, Reader!HopTo, Reader!tok, End
  <2>2. origin < ptr /\ key_offset # -1
    BY <1>4, WalkFacts DEF StandsAt
  <2>3. /\ Around(End(ptr)) = Around(ptr) /\ End(ptr) \in DOMAIN buf
        /\ origin < End(ptr) /\ End(ptr) < End(origin)
    BY <2>1, <2>2, WalkFacts, AroundPastSpan
  <2>4. StandsAt(End(ptr), map_deep, key_offset)
    BY <2>2, <2>3, WalkFacts, TreeTypes DEF StandsAt
  <2>5. QED
    BY <1>4, <2>1, <2>4 DEF WalksOn, Reader!Continue, Reader!Stop
<1>5. QED
  BY <1>2, <1>3, <1>4 DEF Reader!OnMapOpen

(* Leaving a map: the walk ends when v does.                               *)
LEMMA MapCloseWalksOn ==
  ASSUME RdInv, Walking, Reader!OnMapClose PROVE WalksOn
<1>1. /\ ptr \in DOMAIN buf /\ buf[ptr].type \in Closers
      /\ Reader!Move(-1) /\ key_offset' = key_offset
      /\ IF map_deep = 1 THEN Reader!Stop ELSE Reader!Continue
  BY SameHeader DEF Reader!OnMapClose, Reader!At, Reader!tok, Closers
<1>2. ptr' = ptr + buf[ptr].size /\ map_deep' = map_deep - 1
  BY <1>1, MoveTypes, WalkFacts DEF Reader!Move, Reader!tok
<1>3. QED
  BY <1>1, <1>2, HigherPastCloser DEF WalksOn, Reader!Stop, Reader!Continue

(* Entering an array.                                                      *)
LEMMA ArrayOpenWalksOn ==
  ASSUME RdInv, Walking, Reader!OnArrayOpen PROVE WalksOn
<1>1. /\ ptr \in DOMAIN buf /\ buf[ptr].type = HDR_TYPE_ARRAY_OPEN
      /\ buf[ptr].type \in Openers /\ buf[ptr].type # HDR_TYPE_MAP_OPEN
      /\ Reader!Move(1) /\ key_offset' = key_offset
      /\ Reader!Continue \/ Reader!Found
  BY SameHeader, TypesDiffer DEF Reader!OnArrayOpen, Reader!At, Reader!tok, Openers
<1>2. ptr' = ptr + buf[ptr].size /\ map_deep' = map_deep + 1
  BY <1>1, MoveTypes DEF Reader!Move, Reader!tok
<1>3. key_offset # -1
  BY <1>1, WalkFacts DEF StandsAt
<1>4. StandsAt(ptr + buf[ptr].size, map_deep + 1, key_offset)
  BY <1>1, <1>3, WalkFacts, DeeperPastOpener
<1>5. QED
  BY <1>1, <1>2, <1>4 DEF WalksOn, Reader!Continue, Reader!Found

(* Leaving an array, which v is not.                                       *)
LEMMA ArrayCloseWalksOn ==
  ASSUME RdInv, Walking, Reader!OnArrayClose PROVE WalksOn
<1>1. /\ ptr \in DOMAIN buf /\ buf[ptr].type = HDR_TYPE_ARRAY_CLOSE
      /\ Reader!Move(-1) /\ key_offset' = key_offset /\ Reader!Continue
  BY SameHeader DEF Reader!OnArrayClose, Reader!At, Reader!tok
<1>2. buf[ptr].type \in Closers /\ buf[ptr].type # HDR_TYPE_MAP_CLOSE
  BY <1>1 DEF Closers, HDR_TYPE_ARRAY_CLOSE, HDR_TYPE_MAP_CLOSE
<1>3. ptr' = ptr + buf[ptr].size /\ map_deep' = map_deep - 1
  BY <1>1, MoveTypes, WalkFacts DEF Reader!Move, Reader!tok
<1>4. QED
  BY <1>1, <1>2, <1>3, HigherPastCloser DEF WalksOn, Reader!Continue

(* Passing a scalar.                                                       *)
LEMMA ScalarWalksOn ==
  ASSUME RdInv, Walking, Reader!OnNumber \/ Reader!OnOther PROVE WalksOn
<1>1. /\ ptr \in DOMAIN buf /\ buf[ptr].type \notin Openers \cup Closers
      /\ Reader!Move(0) /\ key_offset' = key_offset
      /\ Reader!Continue \/ Reader!Found \/ Reader!Stop
  BY WalkFacts, SameHeader, ScalarTypes
     DEF Reader!OnNumber, Reader!OnOther, Reader!At, Reader!tok
<1>2. ptr' = ptr + buf[ptr].size /\ map_deep' = map_deep
  BY <1>1, MoveTypes, WalkFacts DEF Reader!Move, Reader!tok
<1>3. StandsAt(ptr + buf[ptr].size, map_deep, key_offset)
  BY <1>1, LevelPastScalar
<1>4. QED
  BY <1>1, <1>2, <1>3 DEF WalksOn, Reader!Continue, Reader!Found, Reader!Stop

(* A pass of the loop keeps the cursor inside v.                           *)
LEMMA PassWalksOn ==
  ASSUME RdInv, Walking, Reader!Step PROVE WalksOn
<1>1. ~Reader!OffDocument
  BY WalkFacts DEF Reader!OffDocument
<1>2. QED
  BY <1>1, MapOpenWalksOn, MapCloseWalksOn, ArrayOpenWalksOn, ArrayCloseWalksOn,
     ScalarWalksOn DEF Reader!Step

(***************************************************************************)
(* The invariant of writer and reader.                                     *)
(***************************************************************************)
(* A state of the writer that does not change keeps its invariant.         *)
LEMMA WriterAtRest ==
  ASSUME WInv, UNCHANGED vars PROVE WInv'
<1>1. UNCHANGED <<backing, mem_chunk_size, state, mem_size, write_offset, deep_offset,
                  deep_value, map_offset, array_nb_elems, buf, lost, short, ret>>
  BY DEF vars, fixed, nest, mem
<1>2. QED
  BY <1>1 DEF WInv, LInv, IInv, TypeOK, StateMatchesStack, Top, ArraysOnlyInMaps,
     TokensInOrder, StackPointsAtHeaders, HeadersMatch, LengthsDelimit, ClosedIsWhole,
     Contiguous, ClosedByCloser, CloserCloses, SpansNest, Closed, Containers, IsOpen, End

(* A pass of the loop preserves it.                                        *)
LEMMA PassPreserves ==
  ASSUME RdInv, Reader!Step, UNCHANGED vars PROVE RdInv'
<1>1. PassShape /\ ReaderTypes' /\ HoldsTokens'
  BY PassHasShape, PassKeepsTypes
<1>2. buf' = buf /\ origin' = origin /\ keys' = keys
  BY <1>1 DEF vars, mem, PassShape
<1>3. WInv'
  BY WriterAtRest DEF RdInv
<1>4. WalksMap'
  <2>1. FromMap' => Walking
    BY <1>1, <1>2 DEF FromMap, Walking, Reader!IsMap, PassShape
  <2>2. WalksOn => (pc' \notin {"crash", "lost"}
                     /\ (pc' = "loop" => StandsAt(ptr, map_deep, key_offset)'))
    BY <1>2 DEF WalksOn, StandsAt, Around, Containers, End
  <2>3. Walking => WalksOn /\ keys # <<>>
    BY PassWalksOn, WalkFacts
  <2>4. QED
    BY <1>2, <2>1, <2>2, <2>3 DEF WalksMap
<1>5. QED
  BY <1>1, <1>3, <1>4 DEF RdInv

(* The client looks only into what it holds.                               *)
LEMMA ValuesAreTokens ==
  ASSUME RdInv, Finished PROVE Reader!Values \subseteq DOMAIN buf
<1>1. 0 \in DOMAIN buf
  BY DEF RdInv, WInv, LInv, ClosedIsWhole, Finished
<1>2. val # <<>> => val[1] \in DOMAIN buf
  BY DEF RdInv, HoldsTokens
<1>3. Reader!NoKeys = <<>>
  BY SameHeader
<1>4. QED
  BY <1>1, <1>2, <1>3 DEF Reader!Values

(* A lookup starts on the header of v.                                     *)
LEMMA LookupStarts ==
  ASSUME RdInv, Finished, UNCHANGED vars, NEW o \in Reader!Values,
         NEW p \in Paths \cup {<<>>}, NEW n \in NbVals, Reader!Get2(o, p, n)
  PROVE  RdInv'
<1>1. o \in DOMAIN buf /\ o \in 0..MaxBytes
  BY ValuesAreTokens, TokenTypes DEF RdInv, WInv, LInv
<1>2. /\ pc' = IF p = Reader!NoKeys /\ ~Reader!IsArray(o) THEN "done" ELSE "loop"
      /\ origin' = o /\ keys' = p /\ nb_val' = n
      /\ ptr' = o /\ map_deep' = 0 /\ key_offset' = -1 /\ val' = <<>>
  BY DEF Reader!Get2
<1>3. buf' = buf /\ state' = state
  BY DEF vars, mem, nest
<1>4. Len(p) \in Nat /\ (p # <<>> => Len(p) > 0)
  BY QueriesAssumption
<1>5. WInv'
  BY WriterAtRest DEF RdInv
<1>6. ReaderTypes'
  BY <1>1, <1>2, <1>4 DEF ReaderTypes
<1>7. HoldsTokens'
  BY <1>1, <1>2, <1>3, <1>4 DEF HoldsTokens, Finished
<1>8. WalksMap'
  <2>1. SUFFICES ASSUME FromMap'
                 PROVE  /\ pc' \notin {"crash", "lost"}
                        /\ pc' = "loop" => p # <<>> /\ StandsAt(ptr, map_deep, key_offset)'
    BY <1>2 DEF WalksMap
  <2>2. o \in Containers /\ ~Reader!IsArray(o)
    <3>1. buf[o].type = HDR_TYPE_MAP_OPEN
      BY <1>2, <1>3, <2>1, SameHeader DEF FromMap, Reader!IsMap
    <3>2. QED
      BY <1>1, <3>1, SameHeader, TypesDiffer DEF Containers, Openers, Reader!IsArray
  <2>3. Around(ptr)' = {}
    <3>1. Around(ptr)' = {q \in Containers : o <= q /\ q < o /\ o < End(q)}
      BY <1>2, <1>3 DEF Around, Containers, End
    <3>2. \A q \in Containers : ~(o <= q /\ q < o)
      BY <1>1, TreeTypes DEF RdInv
    <3>3. QED
      BY <3>1, <3>2
  <2>4. Cardinality(Around(ptr)') = 0
    BY <2>3, FS_EmptySet
  <2>5. o < End(o)
    BY <2>2, SpanHasEnd DEF RdInv
  <2>6. StandsAt(ptr, map_deep, key_offset)'
    BY <1>1, <1>2, <1>3, <2>4, <2>5 DEF StandsAt, End
  <2>7. QED
    BY <1>2, <2>2, <2>6, SameHeader
<1>9. QED
  BY <1>5, <1>6, <1>7, <1>8 DEF RdInv

(* No lookup is under way while the document is written.                   *)
LEMMA WritingPreserves ==
  ASSUME RdInv, Assumptions, Writing PROVE RdInv'
<1>1. WInv'
  BY WriterStep, QueriesAssumption DEF RdInv, Writing, KeysFit
<1>2. pc = "idle" /\ UNCHANGED <<pc, origin, keys, nb_val, ptr, map_deep, key_offset, val>>
  BY DEF Writing, rvars
<1>3. QED
  BY <1>1, <1>2 DEF RdInv, ReaderTypes, HoldsTokens, WalksMap, FromMap

(* A handle that was just made, and a reader that has read nothing.        *)
LEMMA InitRdInv ==
  ASSUME BackInit PROVE RdInv
<1>1. LInv /\ buf = [o \in {} |-> 0]
  BY InitLInv DEF BackInit, Init
<1>2. DOMAIN buf = {} /\ Containers = {}
  BY <1>1 DEF Containers
<1>3. WInv
  BY <1>1, <1>2 DEF WInv, Contiguous, ClosedByCloser, CloserCloses, SpansNest
<1>4. MaxBytes \in Nat
  BY BoundsAssumption
<1>5. /\ pc = "idle" /\ origin = 0 /\ keys = <<>> /\ nb_val = 1
      /\ ptr = 0 /\ map_deep = 0 /\ key_offset = -1 /\ val = <<>>
  BY SameHeader DEF BackInit, Reader!Init
<1>6. QED
  BY <1>3, <1>4, <1>5 DEF RdInv, ReaderTypes, HoldsTokens, WalksMap, FromMap

(* Writer and reader together preserve it.                                 *)
LEMMA BackStep ==
  ASSUME RdInv, Assumptions, [BackNext]_<<vars, rvars>> PROVE RdInv'
<1>1. CASE Writing
  BY <1>1, WritingPreserves
<1>2. CASE Reading
  <2>1. Finished /\ UNCHANGED vars
    BY <1>2 DEF Reading, Finished
  <2>2. CASE Reader!Step
    BY <2>1, <2>2, PassPreserves
  <2>3. ASSUME NEW o \in Reader!Values, NEW p \in Paths \cup {Reader!NoKeys},
               NEW n \in NbVals, Reader!Get2(o, p, n)
        PROVE  RdInv'
    BY <2>1, <2>3, LookupStarts, SameHeader
  <2>4. QED
    BY <1>2, <2>2, <2>3 DEF Reading, Reader!Next
<1>3. CASE UNCHANGED <<vars, rvars>>
  <2>1. WInv' /\ buf' = buf /\ state' = state
    BY <1>3, WriterAtRest DEF RdInv, vars, mem, nest
  <2>2. UNCHANGED <<pc, origin, keys, nb_val, ptr, map_deep, key_offset, val>>
    BY <1>3 DEF rvars
  <2>3. QED
    BY <2>1, <2>2 DEF RdInv, ReaderTypes, HoldsTokens, WalksMap, FromMap, StandsAt,
       Reader!IsMap, Finished, Around, Containers, End
<1>4. QED
  BY <1>1, <1>2, <1>3 DEF BackNext

(***************************************************************************)
(* The theorems.                                                           *)
(***************************************************************************)
(* What a lookup relies on holds throughout: closed containers nest, their *)
(* headers lead past their last token, and the reader's table of sizes     *)
(* leads from each token to the next.                                      *)
THEOREM LookupInvariant ==
  ASSUME Assumptions PROVE BackSpec => []RdInv
<1>1. BackInit => RdInv
  BY InitRdInv
<1>2. RdInv /\ [BackNext]_<<vars, rvars>> => RdInv'
  BY BackStep
<1>3. QED
  BY <1>1, <1>2, PTL DEF BackSpec

(* The variables of writer and reader keep their types.                    *)
THEOREM LookupTypes ==
  ASSUME Assumptions PROVE BackSpec => []ReaderTypeOK
<1>1. RdInv => ReaderTypeOK
  BY DEF RdInv, ReaderTypes, ReaderTypeOK, WInv, LInv, IInv
<1>2. QED
  BY <1>1, LookupInvariant, PTL

(* Looking into a map never reads between tokens or past the end of the    *)
(* map, whatever is nested in it and whatever path is looked for           *)
(* (bkv_val.c:79-176).                                                     *)
THEOREM LookupStaysInside ==
  ASSUME Assumptions PROVE BackSpec => []StaysInside
<1>1. RdInv => StaysInside
  BY DEF RdInv, WalksMap, StandsAt, StaysInside
<1>2. QED
  BY <1>1, LookupInvariant, PTL

(* map_deep, which ends the walk, counts the containers around the cursor  *)
(* (bkv_val.c:98-134).                                                     *)
THEOREM LookupCountsNesting ==
  ASSUME Assumptions PROVE BackSpec => []DepthIsNesting
<1>1. RdInv => DepthIsNesting
  BY DEF RdInv, WalksMap, StandsAt, Around, DepthIsNesting
<1>2. QED
  BY <1>1, LookupInvariant, PTL

(***************************************************************************)
(* Lookups of one key in a map.                                            *)
(***************************************************************************)
(* What is looked for.                                                     *)
OneKey == FromMap /\ Len(keys) = 1 /\ ElementsUnnamed

Answer == IF Named(origin, keys[1]) = {} THEN <<>>
          ELSE <<First(Named(origin, keys[1]))>>

(* Between v and the cursor at x lie arrays only, and no entry of v that   *)
(* was passed bears the key.                                               *)
ArraysAround(x) ==
  \A p \in Around(x) : p = origin \/ buf[p].type = HDR_TYPE_ARRAY_OPEN
NoneBefore(x) == \A o \in Children(origin) : o < x => buf[o].key # keys[1]

OneKeyWalk ==
  OneKey =>
    /\ pc = "loop" => /\ val = <<>> /\ NoneBefore(ptr)
                      /\ key_offset # -1 => ArraysAround(ptr)
    /\ pc = "done" => val = Answer

(* A set of offsets has a last one.                                        *)
LEMMA LastExists ==
  ASSUME NEW n \in Nat, NEW E \in SUBSET (0..n), E # {}
  PROVE  \E m \in E : \A q \in E : q <= m
<1> DEFINE T == {n - q : q \in E}
<1>1. T \in SUBSET Nat /\ T # {}
  <2>1. \A q \in E : n - q \in Nat /\ n - q \in T
    OBVIOUS
  <2>2. PICK e : e \in E
    OBVIOUS
  <2>3. QED
    BY <2>1, <2>2
<1>2. PICK x \in T : \A y \in T : ~(<<y, x>> \in OpToRel(<, Nat))
  BY <1>1, NatLessThanWellFounded, WFMin, Zenon
<1>3. PICK m \in E : x = n - m
  BY <1>2
<1>4. \A q \in E : ~(n - q < n - m)
  BY <1>1, <1>2, <1>3 DEF OpToRel
<1>5. QED
  BY <1>4

(* The parent of a node in v is the last container of v around it.         *)
LEMMA ParentInMap ==
  ASSUME WInv, Finished, origin \in Containers, NEW o \in Nodes, origin < o,
         o < End(origin)
  PROVE  /\ NodeParent[o] \in Around(o)
         /\ \A p \in Around(o) : p <= NodeParent[o]
<1>1. o \in DOMAIN buf /\ o \in Nat /\ origin \in Nat /\ MaxBytes \in Nat
  BY TreeTypes, BoundsAssumption DEF Nodes
<1>2. Enclosing(o) = {p \in Containers : p < o /\ o < End(p)}
  BY AllClosed DEF Enclosing, Closed, End
<1>3. Enclosing(o) \subseteq 0..MaxBytes /\ origin \in Enclosing(o)
  BY <1>2, TokenTypes DEF WInv, LInv, Containers
<1>4. PICK m \in Enclosing(o) : \A q \in Enclosing(o) : q <= m
  BY <1>1, <1>3, LastExists
<1>5. m = NodeParent[o]
  <2>1. Enclosing(o) \in SUBSET Int
    BY <1>3
  <2>2. Innermost(Enclosing(o)) = m
    BY <1>4, <2>1, InnermostIsLast
  <2>3. QED
    BY <2>2, ParentIsInnermost
<1>6. origin <= m
  BY <1>3, <1>4
<1>7. QED
  BY <1>2, <1>4, <1>5, <1>6 DEF Around

(* An entry of a map lies in it, and no other container of the map lies    *)
(* around the entry.                                                       *)
LEMMA EntryInMap ==
  ASSUME WInv, Finished, NEW m \in Containers, NEW o \in Children(m)
  PROVE  /\ o \in DOMAIN buf /\ o \in Nat /\ buf[o].type \notin Closers
         /\ m < o /\ o < End(m)
         /\ \A p \in Containers : m < p /\ p < o => ~(o < End(p))
<1>1. o \in Nodes /\ NodeParent[o] = m
  BY DEF Children
<1>2. o \in DOMAIN buf /\ o \in Nat /\ m \in Nat /\ MaxBytes \in Nat
      /\ buf[o].type \notin Closers
  BY <1>1, TreeTypes, BoundsAssumption DEF Nodes
<1>3. Enclosing(o) = {p \in Containers : p < o /\ o < End(p)}
  BY AllClosed DEF Enclosing, Closed, End
<1>4. Enclosing(o) \in SUBSET (0..MaxBytes)
  BY <1>3, TokenTypes DEF WInv, LInv, Containers
<1>5. m = Innermost(Enclosing(o))
  BY <1>1, ParentIsInnermost
<1>6. Enclosing(o) # {}
  BY <1>2, <1>5 DEF Innermost
<1>7. PICK l \in Enclosing(o) : \A q \in Enclosing(o) : q <= l
  BY <1>2, <1>4, <1>6, LastExists
<1>8. m = l
  <2>1. Enclosing(o) \in SUBSET Int
    BY <1>4
  <2>2. QED
    BY <1>5, <1>7, <2>1, InnermostIsLast
<1>9. \A p \in Enclosing(o) : ~(m < p)
  BY <1>4, <1>7, <1>8
<1>10. QED
  BY <1>2, <1>3, <1>7, <1>8, <1>9

(* A node of v that bears the key looked for, in arrays at most, is an     *)
(* entry of v.                                                             *)
LEMMA MatchIsEntry ==
  ASSUME RdInv, Walking, OneKey, ArraysAround(ptr), buf[ptr].type \notin Closers,
         origin < ptr, buf[ptr].key = keys[1]
  PROVE  ptr \in Children(origin)
<1>1. ptr \in Nodes /\ ptr # 0
  BY WalkFacts, TreeTypes DEF Nodes
<1>2. NodeParent[ptr] \in Around(ptr)
  BY <1>1, WalkFacts, ParentInMap
<1> DEFINE c == NodeParent[ptr]
<1>3. ptr \in Children(c)
  BY <1>1 DEF Children
<1>4. CASE buf[c].type = HDR_TYPE_ARRAY_OPEN
  <2>1. c \in Nodes
    BY <1>2, WalkFacts, TreeTypes DEF Around, Nodes, Containers
  <2>2. Reader!IsArray(c)
    BY <1>4, SameHeader DEF Reader!IsArray
  <2>3. 1 \in 1..Len(keys)
    BY DEF OneKey
  <2>4. buf[ptr].key # keys[1]
    BY <1>3, <2>1, <2>2, <2>3 DEF OneKey, ElementsUnnamed
  <2>5. QED
    BY <2>4
<1>5. CASE c = origin
  BY <1>3, <1>5
<1>6. QED
  BY <1>2, <1>4, <1>5 DEF ArraysAround

(* If no entry before it bears the key, it is the answer.                  *)
LEMMA FirstMatchAnswers ==
  ASSUME RdInv, Walking, OneKey, ArraysAround(ptr), NoneBefore(ptr),
         buf[ptr].type \notin Closers, origin < ptr, buf[ptr].key = keys[1]
  PROVE  Answer = <<ptr>>
<1> DEFINE S == Named(origin, keys[1])
<1>1. ptr \in S
  BY MatchIsEntry DEF Named
<1>2. \A o \in S : o \in Nat /\ ptr <= o
  <2>1. \A o \in S : o \in Children(origin) /\ buf[o].key = keys[1]
    BY DEF Named
  <2>2. \A o \in Children(origin) : o \in Nat
    BY WalkFacts, EntryInMap
  <2>3. QED
    BY <2>1, <2>2, WalkFacts, TreeTypes DEF NoneBefore
<1> HIDE DEF S
<1>3. \A o \in S : (\A p \in S : o <= p) => o = ptr
  BY <1>1, <1>2
<1>4. First(S) = ptr
  BY <1>1, <1>2, <1>3 DEF First
<1>5. QED
  BY <1>1, <1>4 DEF Answer, S

(* The entries passed by a move over the token at the cursor.              *)
LEMMA NonePassed ==
  ASSUME RdInv, Walking, OneKey, NoneBefore(ptr),
         ptr \in Children(origin) => buf[ptr].key # keys[1]
  PROVE  NoneBefore(ptr + buf[ptr].size)
<1>1. \A o \in Children(origin) : o \in DOMAIN buf
  BY WalkFacts, EntryInMap
<1>2. \A o \in Children(origin) : o < ptr + buf[ptr].size => o <= ptr
  BY <1>1, WalkFacts, TreeTypes
<1>3. QED
  BY <1>1, <1>2, WalkFacts, TreeTypes DEF NoneBefore

(* The entries passed by a hop over a map.                                 *)
LEMMA NoneHopped ==
  ASSUME RdInv, Walking, OneKey, NoneBefore(ptr), ptr \in Containers, origin < ptr,
         ptr \in Children(origin) => buf[ptr].key # keys[1]
  PROVE  NoneBefore(End(ptr))
<1>1. \A o \in Children(origin) : o \in DOMAIN buf /\ ~(ptr < o /\ o < End(ptr))
  BY WalkFacts, EntryInMap
<1>2. \A o \in Children(origin) : o < End(ptr) => o <= ptr
  BY <1>1, WalkFacts, TreeTypes
<1>3. QED
  BY <1>1, <1>2, WalkFacts, TreeTypes DEF NoneBefore

(* When all of v was passed, there is no answer.                           *)
LEMMA NoneInMap ==
  ASSUME RdInv, Walking, OneKey, NoneBefore(End(origin)) PROVE Answer = <<>>
<1>1. \A o \in Children(origin) : o < End(origin)
  BY WalkFacts, EntryInMap
<1>2. QED
  BY <1>1 DEF Answer, Named, NoneBefore

(* What a pass keeps of the walk for one key.                              *)
OneKeyOn ==
  /\ pc' = "loop" => val' = <<>> /\ NoneBefore(ptr') /\ ArraysAround(ptr')
  /\ pc' = "done" => val' = Answer

LooksForOne == RdInv /\ Walking /\ OneKey /\ OneKeyWalk

(* Past the header of v, the only key of the path is looked for.           *)
LEMMA OneKeyFacts ==
  ASSUME LooksForOne
  PROVE  /\ RdInv /\ Walking /\ OneKey /\ keys # Reader!NoKeys
         /\ val = <<>> /\ NoneBefore(ptr)
         /\ key_offset = -1 \/ key_offset = 0
         /\ key_offset = -1 => ptr = origin
         /\ key_offset = 0 => /\ ArraysAround(ptr) /\ origin < ptr /\ Reader!LastKey
                              /\ \A k : Reader!Matches(k) = {k = keys[1]}
<1>1. val = <<>> /\ NoneBefore(ptr) /\ (key_offset # -1 => ArraysAround(ptr))
  BY DEF LooksForOne, OneKeyWalk, Walking
<1>2. key_offset < 1 /\ keys # <<>> /\ key_offset \in Int /\ key_offset >= -1
      /\ StandsAt(ptr, map_deep, key_offset)
  BY WalkFacts DEF LooksForOne, RdInv, HoldsTokens, Walking, OneKey
<1>3. key_offset = 0 => Reader!LastKey /\ \A k : Reader!Matches(k) = {k = keys[1]}
  BY DEF Reader!LastKey, Reader!Matches, LooksForOne, OneKey
<1>4. QED
  BY <1>1, <1>2, <1>3, SameHeader DEF LooksForOne, StandsAt

(* The key is found at the cursor.                                         *)
LEMMA FoundAnswers ==
  ASSUME LooksForOne, key_offset = 0, buf[ptr].type \notin Closers,
         TRUE \in Reader!Matches(buf[ptr].key), Reader!Found
  PROVE  OneKeyOn
<1>1. buf[ptr].key = keys[1]
  BY OneKeyFacts
<1>2. Answer = <<ptr>>
  BY <1>1, OneKeyFacts, FirstMatchAnswers
<1>3. QED
  BY <1>2 DEF OneKeyOn, Reader!Found

(* A header is passed: an array is entered, a map is not, but v itself.    *)
LEMMA MapOpenLooksOn ==
  ASSUME LooksForOne, Reader!OnMapOpen PROVE OneKeyOn
<1>1. /\ ptr \in DOMAIN buf /\ buf[ptr].type = HDR_TYPE_MAP_OPEN
      /\ ptr \in Containers /\ buf[ptr].type \notin Closers
  <2>1. ptr \in DOMAIN buf /\ buf[ptr].type = HDR_TYPE_MAP_OPEN
    BY SameHeader DEF Reader!OnMapOpen, Reader!At, Reader!tok
  <2>2. ptr \in Containers
    BY <2>1 DEF Containers, Openers
  <2>3. QED
    BY <2>1, <2>2, TreeTypes DEF LooksForOne, RdInv
<1>2. CASE key_offset = -1
  <2>1. /\ ptr = origin /\ Reader!Move(1) /\ Reader!Continue
    BY <1>2, OneKeyFacts DEF Reader!OnMapOpen
  <2>2. ptr' = ptr + buf[ptr].size
    BY <1>1, <2>1, MoveTypes DEF Reader!Move, Reader!tok, LooksForOne
  <2>3. Around(ptr) = {}
    BY <1>1, <2>1, TreeTypes DEF Around, LooksForOne, RdInv
  <2>4. Around(ptr + buf[ptr].size) = Around(ptr) \cup {ptr}
    BY <1>1, OneKeyFacts, WalkFacts, AroundPastOpener
  <2>5. ArraysAround(ptr + buf[ptr].size)
    BY <2>1, <2>3, <2>4 DEF ArraysAround
  <2>6. ptr \notin Children(origin)
    BY <2>1, OneKeyFacts, WalkFacts, EntryInMap
  <2>7. NoneBefore(ptr + buf[ptr].size)
    BY <2>6, OneKeyFacts, NonePassed
  <2>8. QED
    BY <2>1, <2>2, <2>5, <2>7, OneKeyFacts DEF OneKeyOn, Reader!Continue
<1>3. CASE key_offset = 0
  <2>1. CASE TRUE \in Reader!Matches(buf[ptr].key) /\ Reader!Found
    BY <1>1, <1>3, <2>1, FoundAnswers
  <2>2. CASE /\ FALSE \in Reader!Matches(buf[ptr].key)
             /\ IF buf[ptr].len = 0 THEN Reader!Stop ELSE Reader!Continue
             /\ ptr' = Reader!HopTo
    <3>1. ptr' = End(ptr) /\ buf[ptr].key # keys[1]
      BY <1>3, <2>2, OneKeyFacts DEF Reader!HopTo, Reader!tok, End
    <3>2. Reader!Continue
      BY <1>1, <2>2, OneKeyFacts, WalkFacts, SpanHasEnd, TreeTypes, SpanTypes
         DEF End, WInv, LInv
    <3>3. NoneBefore(End(ptr))
      BY <1>1, <1>3, <3>1, OneKeyFacts, NoneHopped
    <3>4. Around(End(ptr)) = Around(ptr)
      BY <1>1, <1>3, OneKeyFacts, WalkFacts, AroundPastSpan
    <3>5. ArraysAround(End(ptr))
      BY <1>3, <3>4, OneKeyFacts DEF ArraysAround
    <3>6. QED
      BY <3>1, <3>2, <3>3, <3>5, OneKeyFacts DEF OneKeyOn, Reader!Continue
  <2>3. ~(key_offset < 0) /\ keys # Reader!NoKeys /\ Reader!LastKey
    BY <1>3, OneKeyFacts
  <2>4. QED
    BY <2>1, <2>2, <2>3 DEF Reader!OnMapOpen, Reader!tok
<1>4. QED
  BY <1>2, <1>3, OneKeyFacts

(* Past a token that is no closing token nor a map and does not match.     *)
LEMMA PassLooksOn ==
  ASSUME LooksForOne, key_offset = 0, buf[ptr].type \notin Closers,
         buf[ptr].type # HDR_TYPE_MAP_OPEN, buf[ptr].key # keys[1]
  PROVE  NoneBefore(ptr + buf[ptr].size) /\ ArraysAround(ptr + buf[ptr].size)
<1>1. NoneBefore(ptr + buf[ptr].size)
  BY OneKeyFacts, NonePassed
<1>2. CASE buf[ptr].type = HDR_TYPE_ARRAY_OPEN
  <2>1. ptr \in Containers
    BY <1>2, OneKeyFacts, WalkFacts DEF Containers, Openers
  <2>2. Around(ptr + buf[ptr].size) = Around(ptr) \cup {ptr}
    BY <2>1, OneKeyFacts, WalkFacts, AroundPastOpener
  <2>3. QED
    BY <1>1, <1>2, <2>2, OneKeyFacts DEF ArraysAround
<1>3. CASE buf[ptr].type # HDR_TYPE_ARRAY_OPEN
  <2>1. buf[ptr].type \notin Openers \cup Closers
    BY <1>3 DEF Openers
  <2>2. Around(ptr + buf[ptr].size) = Around(ptr)
    BY <2>1, OneKeyFacts, WalkFacts, AroundPastScalar
  <2>3. QED
    BY <1>1, <2>2, OneKeyFacts DEF ArraysAround
<1>4. QED
  BY <1>2, <1>3

(* An array or a scalar is passed.                                         *)
LEMMA EntryLooksOn ==
  ASSUME LooksForOne, Reader!OnArrayOpen \/ Reader!OnNumber \/ Reader!OnOther
  PROVE  OneKeyOn
<1>1. /\ ptr \in DOMAIN buf /\ buf[ptr].type \notin Closers
      /\ buf[ptr].type # HDR_TYPE_MAP_OPEN
  <2>1. ptr \in DOMAIN buf
        /\ buf[ptr].type \in {HDR_TYPE_ARRAY_OPEN} \cup Numbers
             \cup {HDR_TYPE_STRING, HDR_TYPE_BOOLEAN, HDR_TYPE_DOUBLE}
    BY SameHeader DEF Reader!OnArrayOpen, Reader!OnNumber, Reader!OnOther, Reader!At,
                      Reader!tok
  <2>2. HDR_TYPE_MAP_OPEN \in Openers /\ HDR_TYPE_ARRAY_OPEN \in Openers
    BY DEF Openers
  <2>3. QED
    BY <2>1, <2>2, ScalarTypes, TypesDiffer
<1>2. key_offset = 0
  BY <1>1, OneKeyFacts, WalkFacts
<1>3. CASE TRUE \in Reader!Matches(buf[ptr].key) /\ Reader!Found
  BY <1>1, <1>2, <1>3, FoundAnswers
<1>4. CASE /\ FALSE \in Reader!Matches(buf[ptr].key)
           /\ Reader!Continue /\ ptr' = ptr + Reader!Advance(buf[ptr])
  <2>1. buf[ptr].key # keys[1] /\ ptr' = ptr + buf[ptr].size
    BY <1>1, <1>2, <1>4, OneKeyFacts, MoveTypes
  <2>2. QED
    BY <1>1, <1>2, <1>4, <2>1, OneKeyFacts, PassLooksOn DEF OneKeyOn, Reader!Continue
<1>5. QED
  BY <1>2, <1>3, <1>4, OneKeyFacts
     DEF Reader!OnArrayOpen, Reader!OnNumber, Reader!OnOther, Reader!Move, Reader!tok

(* A closing token is passed; with that of v the walk ends, in vain.       *)
LEMMA CloserLooksOn ==
  ASSUME LooksForOne, Reader!OnMapClose \/ Reader!OnArrayClose PROVE OneKeyOn
<1>1. /\ ptr \in DOMAIN buf /\ buf[ptr].type \in Closers /\ Reader!Move(-1)
      /\ Reader!Continue \/ (map_deep = 1 /\ Reader!Stop)
  BY SameHeader DEF Reader!OnMapClose, Reader!OnArrayClose, Reader!At, Reader!tok, Closers
<1>2. ptr' = ptr + buf[ptr].size
  BY <1>1, MoveTypes DEF Reader!Move, Reader!tok, LooksForOne
<1>3. origin < ptr /\ key_offset = 0 /\ origin \in Containers
  BY <1>1, OneKeyFacts, WalkFacts, TypesDiffer
<1>4. PICK q \in Around(ptr) : /\ End(q) = ptr + buf[ptr].size
                               /\ Around(ptr + buf[ptr].size) = Around(ptr) \ {q}
  BY <1>1, <1>3, OneKeyFacts, WalkFacts, AroundPastCloser
<1>5. NoneBefore(ptr + buf[ptr].size)
  <2>1. ptr \notin Children(origin)
    BY <1>1 DEF Children, Nodes
  <2>2. QED
    BY <2>1, OneKeyFacts, NonePassed
<1>6. CASE Reader!Continue
  <2>1. ArraysAround(ptr + buf[ptr].size)
    BY <1>3, <1>4, OneKeyFacts DEF ArraysAround
  <2>2. QED
    BY <1>2, <1>5, <1>6, <2>1, OneKeyFacts DEF OneKeyOn, Reader!Continue
<1>7. CASE map_deep = 1 /\ Reader!Stop
  <2>1. origin \in Around(ptr)
    BY <1>3, OneKeyFacts, WalkFacts, TreeTypes DEF Around
  <2>2. PICK x : Around(ptr) = {x}
    BY <1>7, OneKeyFacts, WalkFacts, AroundFinite, FS_Singleton
  <2>3. End(origin) = ptr + buf[ptr].size
    BY <1>4, <2>1, <2>2
  <2>4. Answer = <<>>
    BY <1>5, <2>3, OneKeyFacts, NoneInMap
  <2>5. QED
    BY <1>7, <2>4, OneKeyFacts DEF OneKeyOn, Reader!Stop
<1>8. QED
  BY <1>1, <1>6, <1>7

(* A pass of the loop keeps the walk for one key.                          *)
LEMMA StepLooksOn ==
  ASSUME LooksForOne, Reader!Step PROVE OneKeyOn
<1>1. ~Reader!OffDocument
  BY OneKeyFacts, WalkFacts DEF Reader!OffDocument
<1>2. QED
  BY <1>1, MapOpenLooksOn, EntryLooksOn, CloserLooksOn DEF Reader!Step

(* The tree and the query are the same after it.                           *)
LEMMA SameTree ==
  ASSUME UNCHANGED <<buf, deep_offset, map_offset, origin, keys>>
  PROVE  /\ Answer' = Answer /\ (ElementsUnnamed' <=> ElementsUnnamed)
         /\ NoneBefore(ptr)' <=> NoneBefore(ptr')
         /\ ArraysAround(ptr)' <=> ArraysAround(ptr')
<1>1. Nodes' = Nodes /\ NodeParent' = NodeParent
  BY DEF Nodes, NodeParent, Enclosing, Containers, IsOpen
<1>2. \A c : Children(c)' = Children(c)
  BY <1>1 DEF Children
<1>3. Named(origin, keys[1])' = Named(origin, keys[1])
  BY <1>1 DEF Named, Children
<1>4. Answer' = Answer
  BY <1>3 DEF Answer, First
<1>5. ElementsUnnamed' <=> ElementsUnnamed
  BY <1>1, <1>2 DEF ElementsUnnamed, Reader!IsArray
<1>6. NoneBefore(ptr)' <=> NoneBefore(ptr')
  BY <1>1 DEF NoneBefore, Children
<1>7. ArraysAround(ptr)' <=> ArraysAround(ptr')
  BY DEF ArraysAround, Around, Containers, End
<1>8. QED
  BY <1>4, <1>5, <1>6, <1>7

(* Writer and reader together preserve it.                                 *)
LEMMA OneKeyStep ==
  ASSUME RdInv, OneKeyWalk, [BackNext]_<<vars, rvars>> PROVE OneKeyWalk'
<1>1. CASE Writing
  BY <1>1 DEF Writing, rvars, OneKeyWalk, OneKey, FromMap
<1>2. CASE UNCHANGED vars /\ Reader!Step
  <2>1. PassShape /\ UNCHANGED <<buf, deep_offset, map_offset>>
    BY <1>2, PassHasShape DEF vars, mem, nest
  <2>2. UNCHANGED <<buf, deep_offset, map_offset, origin, keys>>
    BY <2>1 DEF PassShape
  <2>3. OneKey' => LooksForOne
    BY <2>1, <2>2, SameTree
       DEF LooksForOne, Walking, OneKey, FromMap, Reader!IsMap, PassShape
  <2>4. LooksForOne => OneKeyOn
    BY <1>2, StepLooksOn
  <2>5. QED
    BY <2>2, <2>3, <2>4, SameTree DEF OneKeyOn, OneKeyWalk
<1>3. ASSUME NEW o \in Reader!Values, NEW p \in Paths \cup {Reader!NoKeys},
             NEW n \in NbVals, Reader!Get2(o, p, n), UNCHANGED vars, Finished
      PROVE  OneKeyWalk'
  <2>1. /\ pc' = IF p = Reader!NoKeys /\ ~Reader!IsArray(o) THEN "done" ELSE "loop"
        /\ origin' = o /\ keys' = p /\ ptr' = o /\ key_offset' = -1 /\ val' = <<>>
    BY <1>3 DEF Reader!Get2
  <2>2. RdInv'
    BY <1>3, LookupStarts, SameHeader
  <2>3. SUFFICES ASSUME OneKey' PROVE pc' = "loop" /\ NoneBefore(ptr)'
    BY <2>1 DEF OneKeyWalk
  <2>4. pc' = "loop"
    <3>1. Len(p) = 1
      BY <2>1, <2>3 DEF OneKey
    <3>2. p # <<>>
      BY <3>1
    <3>3. QED
      BY <2>1, <3>2, SameHeader
  <2>5. UNCHANGED <<buf, deep_offset, map_offset>>
    BY <1>3 DEF vars, mem, nest
  <2>6. o \in Containers
    <3>1. o \in DOMAIN buf
      BY <1>3, ValuesAreTokens
    <3>2. buf[o].type = HDR_TYPE_MAP_OPEN
      BY <2>1, <2>3, <2>5, SameHeader DEF OneKey, FromMap, Reader!IsMap
    <3>3. QED
      BY <3>1, <3>2 DEF Containers, Openers
  <2>7. Children(origin)' = Children(o)
    BY <2>1, <2>5 DEF Children, Nodes, NodeParent, Enclosing, Containers, IsOpen
  <2>8. \A c \in Children(o) : ~(c < o)
    BY <1>3, <2>6, EntryInMap, TreeTypes DEF RdInv
  <2>9. QED
    BY <2>1, <2>4, <2>7, <2>8 DEF NoneBefore
<1>4. CASE UNCHANGED <<vars, rvars>>
  <2>1. UNCHANGED <<buf, deep_offset, map_offset, origin, keys>>
        /\ UNCHANGED <<pc, ptr, key_offset, val>>
    BY <1>4 DEF vars, mem, nest, rvars
  <2>2. QED
    BY <2>1, SameTree DEF OneKeyWalk, OneKey, FromMap, Reader!IsMap
<1>5. QED
  BY <1>1, <1>2, <1>3, <1>4
     DEF BackNext, Reading, Reader!Next, Finished

(* A lookup of one key in a map yields the first entry of the map with     *)
(* that key, or nothing if there is none: neither the maps that are        *)
(* skipped nor the arrays that are walked through hide or stand in for it. *)
THEOREM SingleKeyFound ==
  ASSUME Assumptions PROVE BackSpec => []SingleKeyExact
<1>1. BackInit => RdInv /\ OneKeyWalk
  <2>1. BackInit => pc = "idle"
    BY DEF BackInit, Reader!Init
  <2>2. QED
    BY <2>1, InitRdInv DEF OneKeyWalk, OneKey, FromMap
<1>2. RdInv /\ OneKeyWalk /\ [BackNext]_<<vars, rvars>> => (RdInv /\ OneKeyWalk)'
  BY BackStep, OneKeyStep
<1>3. RdInv /\ OneKeyWalk => SingleKeyExact
  BY DEF OneKeyWalk, OneKey, Answer, Answered, SingleKeyExact
<1>4. QED
  BY <1>1, <1>2, <1>3, PTL DEF BackSpec

(***************************************************************************)
(* Reading an array of numbers.                                            *)
(***************************************************************************)
(* What is read.                                                           *)
ReadsNumbers ==
  /\ FromArray /\ keys = <<>> /\ nb_val <= Cardinality(Children(origin))
  /\ \A o \in Children(origin) : buf[o].type \in Numbers

(* The elements that lie before the cursor were read, in order.            *)
Before(x) == {p \in Children(origin) : p < x}
InOrder == \A i \in 1..Len(val) : val[i] = Element(i)

NumbersWalk ==
  ReadsNumbers =>
    /\ pc \notin {"crash", "lost"}
    /\ InOrder
    /\ pc = "loop" => /\ ptr \in DOMAIN buf /\ origin <= ptr /\ ptr < End(origin)
                      /\ Len(val) = Cardinality(Before(ptr)) /\ Len(val) < nb_val
    /\ pc = "done" => Len(val) = nb_val

(* A set of offsets has a first one.                                       *)
LEMMA FirstExists ==
  ASSUME NEW E \in SUBSET Nat, E # {}
  PROVE  \E m \in E : \A q \in E : m <= q
<1>1. PICK m \in E : \A q \in E : ~(<<q, m>> \in OpToRel(<, Nat))
  BY NatLessThanWellFounded, WFMin, Zenon
<1>2. \A q \in E : ~(q < m)
  BY <1>1 DEF OpToRel
<1>3. QED
  BY <1>2

(* The place of an element tells it from the others.                       *)
LEMMA RankIsUnique ==
  ASSUME NEW S \in SUBSET Int, IsFiniteSet(S), NEW o \in S, NEW q \in S,
         Cardinality({p \in S : p <= o}) = Cardinality({p \in S : p <= q})
  PROVE  o = q
<1> DEFINE To(x) == {p \in S : p <= x}
<1>0. \A p \in S : p \in Int
  OBVIOUS
<1>1. IsFiniteSet(To(o)) /\ IsFiniteSet(To(q))
  BY FS_Subset
<1>2. CASE o < q
  <2>1. To(o) \in SUBSET To(q)
    <3>1. \A p \in S : p <= o => p <= q
      BY <1>0, <1>2
    <3>2. QED
      BY <3>1
  <2>2. To(o) = To(q)
    BY <1>1, <2>1, FS_Subset
  <2>3. q \in To(q) /\ q \notin To(o)
    BY <1>2
  <2>4. QED
    BY <2>2, <2>3
<1>3. CASE q < o
  <2>1. To(q) \in SUBSET To(o)
    <3>1. \A p \in S : p <= q => p <= o
      BY <1>0, <1>3
    <3>2. QED
      BY <3>1
  <2>2. To(q) = To(o)
    BY <1>1, <2>1, FS_Subset
  <2>3. o \in To(o) /\ o \notin To(q)
    BY <1>3
  <2>4. QED
    BY <2>2, <2>3
<1>4. QED
  BY <1>2, <1>3

(* The array is a finished container.                                      *)
LEMMA ArrayFacts ==
  ASSUME RdInv, ReadsNumbers
  PROVE  /\ WInv /\ Finished /\ origin \in Containers /\ origin \in Nat
         /\ buf[origin].type = HDR_TYPE_ARRAY_OPEN
         /\ Children(origin) \in SUBSET (0..MaxBytes) /\ Children(origin) \in SUBSET Nat
         /\ IsFiniteSet(Children(origin))
         /\ Reader!NoKeys = keys
<1>1. WInv /\ Finished /\ origin \in DOMAIN buf
  BY DEF RdInv, HoldsTokens, ReadsNumbers, FromArray
<1>2. buf[origin].type = HDR_TYPE_ARRAY_OPEN
  BY SameHeader DEF ReadsNumbers, FromArray, Reader!IsArray
<1>3. origin \in Containers /\ origin \in Nat
  BY <1>1, <1>2, TreeTypes DEF Containers, Openers
<1>4. Children(origin) \in SUBSET (0..MaxBytes)
  BY <1>1, TokenTypes DEF WInv, LInv, Children, Nodes
<1>5. IsFiniteSet(0..MaxBytes)
  BY FS_Interval, BoundsAssumption
<1>6. IsFiniteSet(Children(origin))
  BY <1>4, <1>5, FS_Subset
<1>7. QED
  BY <1>1, <1>2, <1>3, <1>4, <1>6, SameHeader DEF ReadsNumbers

(* An array whose elements are numbers has no container in it.             *)
LEMMA NoneNested ==
  ASSUME RdInv, ReadsNumbers, NEW p \in Containers, origin < p PROVE ~(p < End(origin))
<1> DEFINE T == {q \in Containers : origin < q /\ q < End(origin)}
<1>1. SUFFICES ASSUME p < End(origin) PROVE FALSE
  OBVIOUS
<1>2. T \in SUBSET Nat /\ T # {}
  BY <1>1, ArrayFacts, TreeTypes
<1>3. PICK m \in T : \A q \in T : m <= q
  BY <1>2, FirstExists
<1>4. m \in Nodes /\ m # 0 /\ m \in Nat
  BY <1>3, ArrayFacts, TreeTypes DEF Nodes
<1>5. NodeParent[m] \in Around(m)
  BY <1>3, <1>4, ArrayFacts, ParentInMap
<1>6. CASE NodeParent[m] = origin
  <2>1. buf[m].type \in Numbers
    BY <1>4, <1>6 DEF ReadsNumbers, Children
  <2>2. QED
    BY <1>3, <2>1, ScalarTypes DEF Containers
<1>7. CASE NodeParent[m] # origin
  <2>1. PICK c \in Around(m) : c = NodeParent[m]
    BY <1>5
  <2>2. c \in Containers /\ origin <= c /\ c < m /\ c \in Nat
    BY ArrayFacts, TreeTypes DEF Around
  <2>3. m < End(origin) /\ End(origin) \in Nat
    BY <1>3, ArrayFacts, TreeTypes
  <2>4. c \in T
    BY <1>4, <1>7, <2>1, <2>2, <2>3, ArrayFacts
  <2>5. QED
    BY <1>3, <1>4, <2>2, <2>4
<1>8. QED
  BY <1>6, <1>7

(* Every node in it is an element of it.                                   *)
LEMMA NodeIsElement ==
  ASSUME RdInv, ReadsNumbers, NEW o \in Nodes, origin < o, o < End(origin)
  PROVE  o \in Children(origin)
<1>1. NodeParent[o] \in Around(o)
  BY ArrayFacts, ParentInMap
<1>2. o \in Nat
  BY ArrayFacts, TreeTypes DEF Nodes
<1>3. NodeParent[o] = origin
  BY <1>1, <1>2, NoneNested, ArrayFacts, TreeTypes DEF Around
<1>4. QED
  BY <1>2, <1>3, ArrayFacts DEF Children

(* While values are missing, the cursor past the header is on an element.  *)
LEMMA CursorOnElement ==
  ASSUME RdInv, ReadsNumbers, NumbersWalk, pc = "loop", origin < ptr
  PROVE  ptr \in Children(origin)
<1>1. /\ ptr \in DOMAIN buf /\ origin <= ptr /\ ptr < End(origin)
      /\ Len(val) = Cardinality(Before(ptr)) /\ Len(val) < nb_val
      /\ nb_val <= Cardinality(Children(origin))
  BY DEF NumbersWalk, ReadsNumbers
<1>2. buf[ptr].type \notin Closers
  <2>1. SUFFICES ASSUME buf[ptr].type \in Closers PROVE FALSE
    OBVIOUS
  <2>2. PICK p \in Containers : Closed(p) /\ p < ptr /\ ptr + buf[ptr].size = End(p)
    BY <1>1, <2>1, ArrayFacts DEF WInv, CloserCloses
  <2>3. p \in Nat /\ ptr \in Nat /\ End(p) \in Nat /\ End(origin) \in Nat /\ ptr < End(p)
    BY <1>1, <2>2, ArrayFacts, TreeTypes
  <2>4. ~(origin < p)
    BY <1>1, <2>2, <2>3, NoneNested
  <2>5. ~(p < origin)
    <3>1. ASSUME p < origin PROVE FALSE
      <4>1. End(origin) < End(p)
        BY <1>1, <2>3, <3>1, ArrayFacts, AllClosed DEF WInv, SpansNest
      <4>2. ptr + buf[ptr].size <= End(origin)
        BY <1>1, ArrayFacts, TokenInSpan
      <4>3. QED
        BY <2>2, <2>3, <4>1, <4>2
    <3>2. QED
      BY <3>1
  <2>6. ptr + buf[ptr].size = End(origin)
    BY <2>2, <2>3, <2>4, <2>5, ArrayFacts
  <2>7. \A c \in Children(origin) : c < ptr
    <3>1. \A c \in Children(origin) : c \in DOMAIN buf /\ c \in Nat /\ c < End(origin)
                                      /\ c # ptr
      BY <2>1, ArrayFacts, EntryInMap
    <3>2. SUFFICES ASSUME NEW c \in Children(origin) PROVE c < ptr
      OBVIOUS
    <3>3. ptr < c => ptr + buf[ptr].size <= c
      BY <1>1, <3>1, ArrayFacts, TreeTypes
    <3>4. QED
      BY <2>3, <2>6, <3>1, <3>3
  <2>8. Before(ptr) = Children(origin)
    BY <2>7 DEF Before
  <2>9. nb_val \in Nat /\ Len(val) \in Nat /\ Cardinality(Children(origin)) \in Nat
    BY ArrayFacts, FS_CardinalityType, QueriesAssumption DEF RdInv, ReaderTypes
  <2>10. QED
    BY <1>1, <2>8, <2>9
<1>3. QED
  BY <1>1, <1>2, NodeIsElement DEF Nodes

(* It is the next one in order.                                            *)
LEMMA NextElement ==
  ASSUME RdInv, ReadsNumbers, NEW o \in Children(origin)
  PROVE  /\ Element(Cardinality(Before(o)) + 1) = o
         /\ Cardinality(Before(o + buf[o].size)) = Cardinality(Before(o)) + 1
<1> DEFINE S == Children(origin)
           To(x) == {p \in S : p <= x}
<1>1. S \in SUBSET Nat /\ IsFiniteSet(S)
  BY ArrayFacts
<1>2. Before(o) \in SUBSET S
  BY DEF Before
<1>3. IsFiniteSet(Before(o)) /\ o \notin Before(o)
  BY <1>1, <1>2, FS_Subset DEF Before
<1>4. To(o) = Before(o) \cup {o}
  BY <1>1 DEF Before
<1>5. Cardinality(To(o)) = Cardinality(Before(o)) + 1
  BY <1>3, <1>4, FS_AddElement
<1>6. Before(o + buf[o].size) = To(o)
  <2>1. \A c \in S : c \in DOMAIN buf /\ c \in Nat
    BY ArrayFacts, EntryInMap
  <2>2. \A c \in S : c < o + buf[o].size <=> c <= o
    BY <2>1, ArrayFacts, TreeTypes
  <2>3. QED
    BY <2>2 DEF Before
<1>7. \A q \in S : Cardinality(To(q)) = Cardinality(To(o)) => q = o
  <2>1. S \in SUBSET Int
    BY <1>1
  <2>2. QED
    BY <1>1, <2>1, RankIsUnique
<1>8. Element(Cardinality(To(o))) = o
  BY <1>7 DEF Element
<1>9. QED
  BY <1>5, <1>6, <1>8

(* What a pass keeps of the read.                                          *)
NumbersOn ==
  /\ pc' \notin {"crash", "lost"}
  /\ \A i \in 1..Len(val') : val'[i] = Element(i)
  /\ pc' = "loop" => /\ ptr' \in DOMAIN buf /\ origin <= ptr' /\ ptr' < End(origin)
                     /\ Len(val') = Cardinality(Before(ptr')) /\ Len(val') < nb_val
  /\ pc' = "done" => Len(val') = nb_val

ReadsOn == RdInv /\ ReadsNumbers /\ NumbersWalk /\ pc = "loop"

(* A token that does not close the array is followed by another in it.     *)
LEMMA MoveStaysInArray ==
  ASSUME ReadsOn, buf[ptr].type \notin Closers
  PROVE  /\ ptr + buf[ptr].size \in DOMAIN buf
         /\ origin <= ptr + buf[ptr].size /\ ptr + buf[ptr].size < End(origin)
<1>1. /\ ptr \in DOMAIN buf /\ origin <= ptr /\ ptr < End(origin) /\ origin \in Containers
      /\ WInv /\ Finished
  BY ArrayFacts DEF ReadsOn, NumbersWalk
<1>2. CloserOf(buf[origin].type) \in Closers
  BY DEF CloserOf, Closers
<1>3. ptr + buf[ptr].size # End(origin)
  BY <1>1, <1>2, TokenInSpan
<1>4. QED
  BY <1>1, <1>3, NextInSpan, TreeTypes

(* The header of the array is passed.                                      *)
LEMMA HeaderReadsOn ==
  ASSUME ReadsOn, Reader!Step, ptr = origin PROVE NumbersOn
<1>1. /\ WInv /\ Finished /\ origin \in Containers /\ origin \in Nat
      /\ buf[ptr].type = HDR_TYPE_ARRAY_OPEN /\ keys = Reader!NoKeys
      /\ ptr \in DOMAIN buf /\ buf[ptr].type \notin Closers
  <2>1. /\ WInv /\ Finished /\ origin \in Containers /\ origin \in Nat
        /\ buf[ptr].type = HDR_TYPE_ARRAY_OPEN /\ keys = Reader!NoKeys
    BY ArrayFacts DEF ReadsOn
  <2>2. QED
    BY <2>1, TreeTypes
<1>2. Reader!OnArrayOpen
  <2>1. HDR_TYPE_ARRAY_OPEN \in Openers /\ HDR_TYPE_ARRAY_OPEN \notin Closers
        /\ HDR_TYPE_MAP_OPEN # HDR_TYPE_ARRAY_OPEN
    BY TypesDiffer DEF Openers
  <2>2. HDR_TYPE_MAP_CLOSE \in Closers /\ HDR_TYPE_ARRAY_CLOSE \in Closers
    BY DEF Closers
  <2>3. HDR_TYPE_ARRAY_OPEN
          \notin Numbers \cup {HDR_TYPE_STRING, HDR_TYPE_BOOLEAN, HDR_TYPE_DOUBLE}
    BY <2>1, ScalarTypes
  <2>4. QED
    BY <1>1, <2>1, <2>2, <2>3, SameHeader
       DEF Reader!Step, Reader!OnMapOpen, Reader!OnMapClose, Reader!OnArrayClose,
           Reader!OnNumber, Reader!OnOther, Reader!OffDocument, Reader!At, Reader!tok
<1>3. Reader!Move(1) /\ Reader!Continue
  BY <1>1, <1>2 DEF Reader!OnArrayOpen
<1>4. ptr' = ptr + buf[ptr].size /\ pc' = "loop" /\ val' = val
  BY <1>1, <1>3, MoveTypes DEF Reader!Move, Reader!Continue, Reader!tok, ReadsOn
<1>5. /\ InOrder /\ Len(val) = Cardinality(Before(ptr)) /\ Len(val) < nb_val
  BY DEF ReadsOn, NumbersWalk
<1>6. Before(ptr + buf[ptr].size) = Before(ptr)
  <2>1. \A c \in Children(origin) : c \in DOMAIN buf /\ c \in Nat /\ ptr < c
    BY <1>1, EntryInMap
  <2>2. \A c \in Children(origin) : c < ptr + buf[ptr].size <=> c < ptr
    BY <1>1, <2>1, TreeTypes
  <2>3. QED
    BY <2>2 DEF Before
<1>7. QED
  BY <1>1, <1>4, <1>5, <1>6, MoveStaysInArray DEF NumbersOn, InOrder

(* An element is read.                                                     *)
LEMMA ElementReadsOn ==
  ASSUME ReadsOn, Reader!Step, ptr # origin PROVE NumbersOn
<1>1. /\ WInv /\ Finished /\ origin \in Containers /\ keys = Reader!NoKeys
      /\ ptr \in DOMAIN buf /\ origin < ptr /\ InOrder
      /\ Len(val) = Cardinality(Before(ptr)) /\ Len(val) < nb_val
  <2>1. /\ WInv /\ Finished /\ origin \in Containers /\ origin \in Nat
        /\ keys = Reader!NoKeys
    BY ArrayFacts DEF ReadsOn
  <2>2. /\ ptr \in DOMAIN buf /\ origin <= ptr /\ InOrder
        /\ Len(val) = Cardinality(Before(ptr)) /\ Len(val) < nb_val
    BY DEF ReadsOn, NumbersWalk
  <2>3. QED
    BY <2>1, <2>2, TreeTypes
<1>2. ptr \in Children(origin) /\ buf[ptr].type \in Numbers
  <2>1. ptr \in Children(origin)
    BY <1>1, CursorOnElement DEF ReadsOn
  <2>2. QED
    BY <2>1 DEF ReadsOn, ReadsNumbers
<1>3. buf[ptr].type \notin Openers \cup Closers
  BY <1>2, ScalarTypes
<1>4. Reader!OnNumber
  <2>1. /\ HDR_TYPE_ARRAY_OPEN \in Openers /\ HDR_TYPE_MAP_OPEN \in Openers
        /\ HDR_TYPE_MAP_CLOSE \in Closers /\ HDR_TYPE_ARRAY_CLOSE \in Closers
    BY DEF Closers, Openers
  <2>2. Numbers \cap {HDR_TYPE_STRING, HDR_TYPE_BOOLEAN, HDR_TYPE_DOUBLE} = {}
    BY DEF Numbers, HDR_TYPE_INT16, HDR_TYPE_INT32, HDR_TYPE_INT64, HDR_TYPE_STRING,
           HDR_TYPE_FLOAT, HDR_TYPE_DOUBLE, HDR_TYPE_BOOLEAN
  <2>3. QED
    BY <1>1, <1>2, <1>3, <2>1, <2>2, SameHeader
       DEF Reader!Step, Reader!OnMapOpen, Reader!OnMapClose, Reader!OnArrayOpen,
           Reader!OnArrayClose, Reader!OnOther, Reader!OffDocument, Reader!At, Reader!tok
<1>5. /\ ptr' = ptr + buf[ptr].size /\ val' = Append(val, ptr)
      /\ pc' = IF Len(val) + 1 >= nb_val THEN "done" ELSE "loop"
  BY <1>1, <1>4, MoveTypes
     DEF Reader!OnNumber, Reader!Move, Reader!tok, Reader!Enough, ReadsOn
<1>6. val \in Seq(0..MaxBytes) /\ ptr \in 0..MaxBytes /\ nb_val \in Nat /\ Len(val) \in Nat
  <2>1. val \in Seq(0..MaxBytes) /\ nb_val \in NbVals \cup {1}
    BY DEF ReadsOn, RdInv, ReaderTypes
  <2>2. ptr \in 0..MaxBytes
    BY <1>1, TokenTypes DEF ReadsOn, RdInv, WInv, LInv
  <2>3. nb_val \in Nat
    BY <2>1, QueriesAssumption
  <2>4. Len(val) \in Nat
    BY <2>1
  <2>5. QED
    BY <2>1, <2>2, <2>3, <2>4
<1>7. /\ Len(val') = Len(val) + 1 /\ val'[Len(val) + 1] = ptr
      /\ \A i \in 1..Len(val) : val'[i] = val[i]
  BY <1>5, <1>6, AppendProperties
<1>8. /\ Element(Len(val) + 1) = ptr
      /\ Cardinality(Before(ptr + buf[ptr].size)) = Len(val) + 1
  BY <1>1, <1>2, NextElement DEF ReadsOn
<1>9. \A i \in 1..Len(val') : val'[i] = Element(i)
  <2>1. \A i \in 1..Len(val') : i = Len(val) + 1 \/ i \in 1..Len(val)
    BY <1>6, <1>7
  <2>2. QED
    BY <1>1, <1>7, <1>8, <2>1 DEF InOrder
<1>10. pc' = "loop" => Len(val') < nb_val
  BY <1>5, <1>6, <1>7
<1>11. pc' = "done" => Len(val') = nb_val
  BY <1>1, <1>5, <1>6, <1>7
<1>12. QED
  BY <1>3, <1>5, <1>7, <1>8, <1>9, <1>10, <1>11, MoveStaysInArray DEF NumbersOn

(* Writer and reader together preserve it.                                 *)
LEMMA NumbersStep ==
  ASSUME RdInv, NumbersWalk, [BackNext]_<<vars, rvars>> PROVE NumbersWalk'
<1>0. ASSUME UNCHANGED <<buf, deep_offset, map_offset, origin>>
      PROVE  /\ Nodes' = Nodes /\ NodeParent' = NodeParent
             /\ Children(origin)' = Children(origin)
             /\ Before(ptr)' = Before(ptr')
             /\ \A i : Element(i)' = Element(i)
  <2>1. Nodes' = Nodes /\ NodeParent' = NodeParent
    BY <1>0 DEF Nodes, NodeParent, Enclosing, Containers, IsOpen
  <2>2. Children(origin)' = Children(origin)
    BY <1>0, <2>1 DEF Children
  <2>3. QED
    BY <1>0, <2>1, <2>2 DEF Before, Element
<1>1. CASE Writing
  BY <1>1 DEF Writing, rvars, NumbersWalk, ReadsNumbers, FromArray
<1>2. CASE UNCHANGED vars /\ Reader!Step
  <2>1. PassShape /\ UNCHANGED <<buf, deep_offset, map_offset>>
    BY <1>2, PassHasShape DEF vars, mem, nest
  <2>2. UNCHANGED <<buf, deep_offset, map_offset, origin, keys, nb_val>>
    BY <2>1 DEF PassShape
  <2>3. ReadsNumbers' => ReadsOn
    BY <1>0, <2>1, <2>2
       DEF ReadsOn, ReadsNumbers, FromArray, Reader!IsArray, PassShape
  <2>4. ReadsOn => NumbersOn
    BY <1>2, HeaderReadsOn, ElementReadsOn
  <2>5. NumbersOn /\ ReadsNumbers' => NumbersWalk'
    BY <1>0, <2>2 DEF NumbersOn, NumbersWalk, InOrder, End
  <2>6. QED
    BY <2>3, <2>4, <2>5 DEF NumbersWalk
<1>3. ASSUME NEW o \in Reader!Values, NEW p \in Paths \cup {Reader!NoKeys},
             NEW n \in NbVals, Reader!Get2(o, p, n), UNCHANGED vars, Finished
      PROVE  NumbersWalk'
  <2>1. /\ pc' = IF p = Reader!NoKeys /\ ~Reader!IsArray(o) THEN "done" ELSE "loop"
        /\ origin' = o /\ keys' = p /\ ptr' = o /\ val' = <<>> /\ nb_val' = n
    BY <1>3 DEF Reader!Get2
  <2>2. UNCHANGED <<buf, deep_offset, map_offset>>
    BY <1>3 DEF vars, mem, nest
  <2>3. SUFFICES ASSUME ReadsNumbers'
                 PROVE  /\ pc' = "loop" /\ o \in DOMAIN buf /\ o <= o /\ o < End(o)
                        /\ Cardinality(Before(ptr)') = 0 /\ 0 < n
    BY <2>1, <2>2 DEF NumbersWalk, InOrder, End
  <2>4. Reader!IsArray(o)
    BY <2>1, <2>2, <2>3 DEF ReadsNumbers, FromArray, Reader!IsArray
  <2>5. o \in DOMAIN buf /\ o \in Containers
    <3>1. o \in DOMAIN buf
      BY <1>3, ValuesAreTokens
    <3>2. QED
      BY <2>4, <3>1, SameHeader DEF Reader!IsArray, Containers, Openers
  <2>6. Children(origin)' = Children(o)
    BY <2>1, <2>2 DEF Children, Nodes, NodeParent, Enclosing, Containers, IsOpen
  <2>7. \A c \in Children(o) : ~(c < o)
    BY <1>3, <2>5, EntryInMap, TreeTypes DEF RdInv
  <2>8. Before(ptr)' = {}
    BY <2>1, <2>6, <2>7 DEF Before
  <2>9. n \in Nat /\ 0 < n
    BY QueriesAssumption
  <2>10. o < End(o) /\ o <= o
    BY <1>3, <2>5, SpanHasEnd, TreeTypes DEF RdInv
  <2>11. QED
    BY <2>1, <2>4, <2>5, <2>8, <2>9, <2>10, FS_EmptySet
<1>4. CASE UNCHANGED <<vars, rvars>>
  <2>1. UNCHANGED <<buf, deep_offset, map_offset, origin>>
        /\ UNCHANGED <<pc, keys, nb_val, ptr, val>>
    BY <1>4 DEF vars, mem, nest, rvars
  <2>2. QED
    BY <1>0, <2>1 DEF NumbersWalk, ReadsNumbers, FromArray, Reader!IsArray, InOrder, End
<1>5. QED
  BY <1>1, <1>2, <1>3, <1>4
     DEF BackNext, Reading, Reader!Next, Finished

(* Reading at most as many values as an array of numbers has elements      *)
(* yields its first elements in order, and never reads keys through NULL   *)
(* or past the array (bkv_val.c:240-345).                                  *)
THEOREM NumbersReadInOrder ==
  ASSUME Assumptions PROVE BackSpec => []NumbersInOrder
<1>1. BackInit => RdInv /\ NumbersWalk
  <2>1. BackInit => pc = "idle"
    BY DEF BackInit, Reader!Init
  <2>2. QED
    BY <2>1, InitRdInv DEF NumbersWalk, ReadsNumbers, FromArray
<1>2. RdInv /\ NumbersWalk /\ [BackNext]_<<vars, rvars>> => (RdInv /\ NumbersWalk)'
  BY BackStep, NumbersStep
<1>3. RdInv /\ NumbersWalk => NumbersInOrder
  <2>1. ASSUME RdInv, NumbersWalk, ReadsNumbers, pc = "done"
        PROVE  val = [i \in 1..nb_val |-> Element(i)]
    <3>1. /\ Len(val) = nb_val /\ \A i \in 1..Len(val) : val[i] = Element(i)
      BY <2>1 DEF NumbersWalk, InOrder
    <3>2. val \in [1..Len(val) -> 0..MaxBytes]
      BY <2>1, LenProperties DEF RdInv, ReaderTypes
    <3>3. QED
      BY <3>1, <3>2
  <2>2. QED
    BY <2>1 DEF NumbersInOrder, NumbersWalk, ReadsNumbers, Answered
<1>4. QED
  BY <1>1, <1>2, <1>3, PTL DEF BackSpec

(***************************************************************************)
(* Lookups of a path in a map.                                             *)
(***************************************************************************)
(* What holds of 0 and goes from one number to the next holds up to n.     *)
LEMMA UpTo ==
  ASSUME NEW n \in Nat, NEW S, 0 \in S, \A i \in 1..n : i - 1 \in S => i \in S
  PROVE  0..n \subseteq S
<1> DEFINE E == (0..n) \ S
<1>1. SUFFICES ASSUME E # {} PROVE FALSE
  OBVIOUS
<1>2. PICK m \in E : \A q \in E : m <= q
  <2>1. E \in SUBSET Nat
    OBVIOUS
  <2> HIDE DEF E
  <2>2. QED
    BY <1>1, <2>1, FirstExists
<1>3. m \in 1..n /\ m - 1 \in 0..n /\ m - 1 < m
  OBVIOUS
<1>4. m - 1 \notin E
  BY <1>2, <1>3
<1>5. QED
  BY <1>3, <1>4

(* The last of the numbers up to m.                                        *)
LEMMA LastNumber ==
  ASSUME NEW m \in Nat, NEW s \in SUBSET (1..m), m \in s
  PROVE  Max(s) = m
<1>1. \A k \in s : (\A q \in s : k >= q) <=> k = m
  OBVIOUS
<1>2. QED
  BY <1>1, Zenon DEF Max

(* One step of the fold by which Resolve descends.                         *)
Descend(at, k) ==
  IF at = NotFound \/ ~Reader!IsMap(at) \/ Named(at, k) = {}
  THEN NotFound ELSE First(Named(at, k))

(* The function by which the fold is defined, on the sets of positions.    *)
Iterate(c, path, h, s) == IF s = {} THEN c ELSE Descend(h[s \ {Max(s)}], path[Max(s)])
Iterator(c, path, n, e) == e = [s \in SUBSET (1..n) |-> Iterate(c, path, e, s)]

(* r lists where it comes to after 0, 1, ... keys.                         *)
Descent(c, path, r) == r[0] = c /\ \A i \in 1..Len(path) : r[i] = Descend(r[i - 1], path[i])

(* There is such a function, by induction on the positions.                *)
LEMMA IterateExists ==
  ASSUME NEW c, NEW path, NEW n \in Nat
  PROVE  \E e : Iterator(c, path, n, e)
<1> DEFINE Body(h, s) == Iterate(c, path, h, s)
           Right(h, m) == \A s \in SUBSET (1..m) : h[s] = Body(h, s)
           S == {m \in 0..n : \E h : Right(h, m)}
<1>1. 0 \in S
  <2>1. PICK h : h = [s \in {{}} |-> c]
    OBVIOUS
  <2>2. \A s \in SUBSET (1..0) : s = {}
    OBVIOUS
  <2>3. Right(h, 0)
    BY <2>1, <2>2 DEF Iterate
  <2> HIDE DEF Right
  <2>4. QED
    BY <2>3
<1>2. ASSUME NEW m \in 1..n, m - 1 \in S PROVE m \in S
  <2>1. PICK h : Right(h, m - 1)
    BY <1>2
  <2> DEFINE u == [s \in SUBSET (1..m) |->
                     IF s \subseteq 1..(m - 1) THEN h[s] ELSE Descend(h[s \ {m}], path[m])]
  <2>2. ASSUME NEW s \in SUBSET (1..m) PROVE u[s] = Body(u, s)
    <3>1. CASE s = {}
      <4>1. s \in SUBSET (1..(m - 1))
        BY <3>1
      <4>2. QED
        BY <2>1, <3>1, <4>1 DEF Iterate
    <3>2. CASE s # {} /\ m \notin s
      <4>1. s \in SUBSET (1..(m - 1))
        BY <3>2
      <4>2. s \ {Max(s)} \in SUBSET (1..m) /\ s \ {Max(s)} \subseteq 1..(m - 1)
        BY <4>1
      <4>3. u[s] = h[s] /\ u[s \ {Max(s)}] = h[s \ {Max(s)}]
        BY <4>1, <4>2
      <4>4. h[s] = Body(h, s)
        BY <2>1, <4>1
      <4> HIDE DEF u
      <4>5. QED
        BY <3>2, <4>3, <4>4 DEF Iterate
    <3>3. CASE s # {} /\ m \in s
      <4>1. Max(s) = m /\ ~(s \subseteq 1..(m - 1))
        BY <3>3, LastNumber
      <4>2. s \ {m} \in SUBSET (1..m) /\ s \ {m} \subseteq 1..(m - 1)
        OBVIOUS
      <4>3. u[s] = Descend(h[s \ {m}], path[m]) /\ u[s \ {m}] = h[s \ {m}]
        BY <4>1, <4>2
      <4> HIDE DEF u
      <4>4. QED
        BY <3>3, <4>1, <4>3 DEF Iterate
    <3>4. QED
      BY <3>1, <3>2, <3>3
  <2>3. Right(u, m)
    BY <2>2
  <2> HIDE DEF u, Right
  <2>4. QED
    BY <2>3
<1>3. n \in S
  <2> HIDE DEF S
  <2>1. 0..n \subseteq S
    BY <1>1, <1>2, UpTo
  <2>2. QED
    BY <2>1
<1>4. PICK h : Right(h, n)
  BY <1>3
<1>5. PICK e : e = [s \in SUBSET (1..n) |-> h[s]]
  OBVIOUS
<1>6. ASSUME NEW s \in SUBSET (1..n) PROVE e[s] = Body(e, s)
  <2>1. s \ {Max(s)} \in SUBSET (1..n)
    OBVIOUS
  <2>2. QED
    BY <1>4, <1>5, <2>1 DEF Iterate
<1> HIDE DEF Body
<1>7. e = [s \in SUBSET (1..n) |-> Body(e, s)]
  BY <1>5, <1>6
<1>8. QED
  BY <1>7, Zenon DEF Body, Iterator

(* Resolve descends.                                                       *)
LEMMA ResolveDescends ==
  ASSUME NEW c, NEW C, NEW path \in Seq(C)
  PROVE  \E r : Descent(c, path, r) /\ Resolve(c, path) = r[Len(path)]
<1> DEFINE Body(h, s) ==
             IF s = {} THEN c
             ELSE IF h[s \ {Max(s)}] = NotFound \/ ~Reader!IsMap(h[s \ {Max(s)}])
                     \/ Named(h[s \ {Max(s)}], path[Max(s)]) = {}
                  THEN NotFound ELSE First(Named(h[s \ {Max(s)}], path[Max(s)]))
           up == CHOOSE up : up = [s \in SUBSET (1..Len(path)) |-> Body(up, s)]
<1>1. PICK n \in Nat : n = Len(path) /\ DOMAIN path = 1..n
  OBVIOUS
<1>2. Resolve(c, path) = up[1..n]
  BY <1>1 DEF Resolve, FoldLeft, MapThenFoldSet
<1>3. \A h, s : Body(h, s) = Iterate(c, path, h, s)
  BY DEF Iterate, Descend
<1> HIDE DEF Body
<1>4. up = [s \in SUBSET (1..n) |-> Body(up, s)]
  <2>1. PICK e : Iterator(c, path, n, e)
    BY IterateExists
  <2>2. e = [s \in SUBSET (1..n) |-> Body(e, s)]
    BY <1>3, <2>1 DEF Iterator
  <2>3. QED
    BY <1>1, <2>2, Zenon
<1> HIDE DEF up
<1>5. \A s \in SUBSET (1..n) : up[s] = Iterate(c, path, up, s)
  BY <1>3, <1>4
<1> DEFINE r == [i \in 0..n |-> up[1..i]]
<1>6. r[0] = c
  <2>1. 1..0 = {} /\ 1..0 \in SUBSET (1..n)
    OBVIOUS
  <2>2. up[1..0] = c
    BY <1>5, <2>1 DEF Iterate
  <2>3. \A i \in 0..n : r[i] = up[1..i]
    OBVIOUS
  <2>4. QED
    BY <2>2, <2>3
<1>7. ASSUME NEW i \in 1..n PROVE r[i] = Descend(r[i - 1], path[i])
  <2>1. i \in Nat /\ i \in 1..i /\ i <= n
    OBVIOUS
  <2>2. Max(1..i) = i
    <3>1. 1..i \in SUBSET (1..i)
      OBVIOUS
    <3>2. QED
      BY <2>1, <3>1, LastNumber
  <2>3. up[1..i] = Descend(up[1..(i - 1)], path[i])
    <3>1. 1..i \in SUBSET (1..n)
      BY <2>1
    <3>2. 1..i # {}
      BY <2>1
    <3>3. (1..i) \ {i} = 1..(i - 1)
      BY <2>1
    <3>4. up[1..i] = Iterate(c, path, up, 1..i)
      BY <1>5, <3>1
    <3>5. QED
      BY <2>2, <3>2, <3>3, <3>4 DEF Iterate
  <2>4. i \in 0..n /\ i - 1 \in 0..n
    OBVIOUS
  <2>5. QED
    BY <2>3, <2>4
<1>8. r[n] = up[1..n]
  OBVIOUS
<1> HIDE DEF r
<1>9. Descent(c, path, r)
  BY <1>1, <1>6, <1>7 DEF Descent
<1>10. QED
  BY <1>1, <1>2, <1>8, <1>9

(* The nodes on the way of a path: maps, but for the last one.             *)
Route(r) ==
  /\ r[0] = origin
  /\ \A i \in 1..Len(keys) : /\ Reader!IsMap(r[i - 1])
                             /\ r[i] \in Children(r[i - 1]) /\ buf[r[i]].key = keys[i]

LEMMA RouteExists ==
  ASSUME WInv, NEW C, keys \in Seq(C), Resolve(origin, keys) # NotFound
  PROVE  \E r : Route(r) /\ Resolve(origin, keys) = r[Len(keys)]
<1>1. PICK r : Descent(origin, keys, r) /\ Resolve(origin, keys) = r[Len(keys)]
  BY ResolveDescends
<1>2. PICK n \in Nat : n = Len(keys)
  OBVIOUS
<1> DEFINE S == {i \in 0..n : r[n - i] # NotFound}
<1>3. ASSUME NEW i \in 1..n, i - 1 \in S PROVE i \in S
  <2>1. r[n - (i - 1)] # NotFound /\ n - (i - 1) \in 1..n /\ (n - (i - 1)) - 1 = n - i
    BY <1>3
  <2>2. r[n - (i - 1)] = Descend(r[n - i], keys[n - (i - 1)])
    BY <1>1, <1>2, <2>1 DEF Descent
  <2>3. r[n - i] # NotFound
    BY <2>1, <2>2 DEF Descend
  <2>4. QED
    BY <2>3
<1>4. 0 \in S
  BY <1>1, <1>2
<1> HIDE DEF S
<1>5. 0..n \subseteq S
  BY <1>3, <1>4, UpTo
<1>6. ASSUME NEW i \in 1..n
      PROVE  /\ Reader!IsMap(r[i - 1])
             /\ r[i] \in Children(r[i - 1]) /\ buf[r[i]].key = keys[i]
  <2>1. n - i \in 0..n /\ n - (n - i) = i
    OBVIOUS
  <2>2. r[i] # NotFound
    BY <1>5, <2>1 DEF S
  <2>3. r[i] = Descend(r[i - 1], keys[i])
    BY <1>1, <1>2 DEF Descent
  <2> DEFINE N == Named(r[i - 1], keys[i])
  <2>4. Reader!IsMap(r[i - 1]) /\ N # {} /\ r[i] = First(N)
    BY <2>2, <2>3 DEF Descend
  <2>5. N \in SUBSET Nat
    BY TreeTypes DEF Named, Children, Nodes
  <2> HIDE DEF N
  <2>6. r[i] \in N
    <3>1. \E m \in N : \A q \in N : m <= q
      BY <2>4, <2>5, FirstExists
    <3>2. QED
      BY <2>4, <3>1, Zenon DEF First
  <2>7. QED
    BY <2>4, <2>6 DEF N, Named
<1>7. r[0] = origin
  BY <1>1 DEF Descent
<1>8. QED
  BY <1>1, <1>2, <1>6, <1>7 DEF Route

(* Every node on the way is a token of v, behind the one that it is in,    *)
(* and no other container of that one lies around it.                      *)
OnTheWay(r, i) == r[i] \in DOMAIN buf /\ r[i] \in Nat /\ origin <= r[i]

EntryOnWay(r, i) ==
  /\ r[i - 1] \in Containers /\ buf[r[i - 1]].type = HDR_TYPE_MAP_OPEN
  /\ r[i] \in Children(r[i - 1]) /\ buf[r[i]].key = keys[i]
  /\ buf[r[i]].type \notin Closers
  /\ r[i - 1] < r[i] /\ r[i] < End(r[i - 1])
  /\ \A p \in Containers : r[i - 1] < p /\ p < r[i] => ~(r[i] < End(p))

LEMMA MapOnWay ==
  ASSUME NEW r, Route(r), NEW i \in 1..Len(keys), OnTheWay(r, i - 1)
  PROVE  r[i - 1] \in Containers /\ buf[r[i - 1]].type = HDR_TYPE_MAP_OPEN
<1>1. Reader!IsMap(r[i - 1])
  BY DEF Route
<1>2. buf[r[i - 1]].type = HDR_TYPE_MAP_OPEN
  BY <1>1, SameHeader DEF Reader!IsMap
<1>3. QED
  BY <1>2 DEF Containers, Openers, OnTheWay

LEMMA RouteHolds ==
  ASSUME WInv, Finished, origin \in DOMAIN buf, NEW r, Route(r), Len(keys) \in Nat
  PROVE  /\ \A i \in 0..Len(keys) : OnTheWay(r, i)
         /\ \A i \in 1..Len(keys) : EntryOnWay(r, i)
<1> DEFINE S == {i \in 0..Len(keys) : OnTheWay(r, i)}
<1>1. 0 \in S
  <2>1. r[0] = origin /\ origin \in Nat
    BY TreeTypes DEF Route
  <2>2. QED
    BY <2>1 DEF OnTheWay
<1>2. ASSUME NEW i \in 1..Len(keys), OnTheWay(r, i - 1)
      PROVE  EntryOnWay(r, i) /\ OnTheWay(r, i)
  <2>1. r[i - 1] \in Containers /\ buf[r[i - 1]].type = HDR_TYPE_MAP_OPEN
    BY <1>2, MapOnWay
  <2>2. r[i] \in Children(r[i - 1]) /\ buf[r[i]].key = keys[i]
    BY DEF Route
  <2>3. /\ r[i] \in DOMAIN buf /\ r[i] \in Nat /\ buf[r[i]].type \notin Closers
        /\ r[i - 1] < r[i] /\ r[i] < End(r[i - 1])
        /\ \A p \in Containers : r[i - 1] < p /\ p < r[i] => ~(r[i] < End(p))
    BY <2>1, <2>2, EntryInMap
  <2>4. EntryOnWay(r, i)
    BY <2>1, <2>2, <2>3 DEF EntryOnWay
  <2>5. origin <= r[i]
    <3>1. r[i - 1] \in Nat /\ origin <= r[i - 1] /\ origin \in Nat
      BY <1>2, TreeTypes DEF OnTheWay
    <3>2. QED
      BY <2>3, <3>1
  <2>6. QED
    BY <2>3, <2>4, <2>5 DEF OnTheWay
<1>3. ASSUME NEW i \in 1..Len(keys), i - 1 \in S PROVE i \in S
  BY <1>2, <1>3
<1>4. 0..Len(keys) \subseteq S
  <2> HIDE DEF S
  <2>1. QED
    BY <1>1, <1>3, UpTo
<1>5. \A i \in 0..Len(keys) : OnTheWay(r, i)
  BY <1>4
<1>6. \A i \in 1..Len(keys) : EntryOnWay(r, i)
  <2>1. \A i \in 1..Len(keys) : i - 1 \in 0..Len(keys)
    OBVIOUS
  <2>2. QED
    BY <1>2, <1>5, <2>1
<1>7. QED
  BY <1>5, <1>6

(* What is looked for, and what holds of the cursor between the k-th node  *)
(* of the way and the next: between the two lie arrays only.               *)
ManyKeys == FromMap /\ keys # <<>> /\ UniqueKeys /\ ElementsUnnamed

OnWay(r, x, k) ==
  /\ r[k] < x /\ x <= r[k + 1]
  /\ \A p \in Around(x) : r[k] < p => buf[p].type = HDR_TYPE_ARRAY_OPEN

KeepsWay(r) ==
  /\ pc = "loop" => val = <<>> /\ (key_offset # -1 => OnWay(r, ptr, key_offset))
  /\ pc = "done" => val = <<r[Len(keys)]>>

PathWalk == ManyKeys => \A r : Route(r) => KeepsWay(r)

(* What a pass keeps of it.                                                *)
WayOn(r) ==
  /\ pc' = "loop" => /\ val' = <<>>
                     /\ key_offset' # -1 => OnWay(r, ptr', key_offset')
  /\ pc' = "done" => val' = <<r[Len(keys)]>>

LooksAlong(r) == RdInv /\ Walking /\ ManyKeys /\ Route(r) /\ KeepsWay(r)

(* The tree, the keys and the nodes of the way.                            *)
LEMMA WayFacts ==
  ASSUME NEW r, LooksAlong(r)
  PROVE  /\ RdInv /\ Walking /\ WInv /\ Finished
         /\ keys \in Seq(0 .. BKV_KEY_INVALID - 1) /\ Len(keys) \in Nat /\ Len(keys) > 0
         /\ keys # Reader!NoKeys
         /\ val = <<>> /\ key_offset \in Int /\ key_offset >= -1 /\ key_offset < Len(keys)
         /\ \A i \in 0..Len(keys) : OnTheWay(r, i)
         /\ \A i \in 1..Len(keys) : EntryOnWay(r, i)
<1>1. /\ RdInv /\ Walking /\ WInv /\ Finished /\ val = <<>>
      /\ origin \in Containers
  BY WalkFacts DEF LooksAlong, KeepsWay, Walking
<1>2. keys \in Seq(0 .. BKV_KEY_INVALID - 1) /\ keys # <<>>
  BY <1>1, QueriesAssumption DEF LooksAlong, ManyKeys, RdInv, ReaderTypes
<1>3. Len(keys) \in Nat /\ Len(keys) > 0
  BY <1>2
<1>4. key_offset \in Int /\ key_offset >= -1 /\ key_offset < Len(keys)
  <2>1. key_offset < Len(keys)
    BY <1>1, <1>2 DEF RdInv, HoldsTokens, Walking
  <2>2. QED
    BY <1>1, <2>1, WalkFacts
<1>5. keys # Reader!NoKeys
  BY <1>2, SameHeader
<1>6. origin \in DOMAIN buf
  BY <1>1, TreeTypes
<1>7. QED
  BY <1>1, <1>2, <1>3, <1>4, <1>5, <1>6, RouteHolds DEF LooksAlong

(* Past the header of v: the cursor is on the way from r[k] to the next    *)
(* node, in r[k] with arrays in between, and the next key is looked for.   *)
LEMMA CursorOnWay ==
  ASSUME NEW r, LooksAlong(r), NEW k, k = key_offset, k # -1
  PROVE  /\ k + 1 \in 1..Len(keys) /\ (k + 1) - 1 = k /\ k \in 0..Len(keys)
         /\ OnWay(r, ptr, k) /\ r[k] \in Around(ptr)
         /\ r[k] \in Nat /\ r[k + 1] \in Nat /\ r[k + 1] \in DOMAIN buf
         /\ EntryOnWay(r, k + 1)
         /\ ptr \in Nat /\ origin < ptr
         /\ Reader!LastKey <=> k + 1 = Len(keys)
<1>1. k + 1 \in 1..Len(keys) /\ (k + 1) - 1 = k /\ k \in 0..Len(keys)
      /\ k + 1 \in 0..Len(keys) /\ ~(key_offset < 0)
  BY WayFacts
<1>2. OnWay(r, ptr, k)
  BY DEF LooksAlong, KeepsWay, Walking
<1>3. OnTheWay(r, k) /\ OnTheWay(r, k + 1) /\ EntryOnWay(r, k + 1)
  BY <1>1, WayFacts
<1>4. r[k] \in Nat /\ r[k + 1] \in Nat /\ r[k + 1] \in DOMAIN buf /\ origin <= r[k]
  BY <1>3 DEF OnTheWay
<1>5. ptr \in DOMAIN buf /\ ptr \in Nat /\ origin \in Nat
  BY WayFacts, WalkFacts, TreeTypes
<1>6. r[k] \in Containers /\ r[k + 1] < End(r[k])
  BY <1>1, <1>3 DEF EntryOnWay
<1>7. r[k] < ptr /\ ptr <= r[k + 1]
  BY <1>2 DEF OnWay
<1>8. End(r[k]) \in Nat
  BY <1>6, WayFacts, TreeTypes
<1>9. ptr < End(r[k]) /\ origin < ptr
  BY <1>4, <1>5, <1>6, <1>7, <1>8
<1>10. r[k] \in Around(ptr)
  BY <1>4, <1>6, <1>7, <1>9 DEF Around
<1>12. Reader!LastKey <=> k + 1 = Len(keys)
  BY DEF Reader!LastKey
<1>13. QED
  BY <1>1, <1>2, <1>3, <1>4, <1>5, <1>9, <1>10, <1>12

(* What a comparison with the next key tells.                              *)
LEMMA ComparesNext ==
  ASSUME NEW k, k = key_offset, ~(key_offset < 0), NEW key
  PROVE  /\ TRUE \in Reader!Matches(key) => key = keys[k + 1]
         /\ FALSE \in Reader!Matches(key) => key # keys[k + 1]
<1>1. Reader!Matches(key) = {key = keys[k + 1]}
  BY DEF Reader!Matches
<1>2. QED
  BY <1>1, Zenon

(* The next node of the way is the first that bears its key.               *)
LEMMA AheadDiffers ==
  ASSUME NEW r, LooksAlong(r), NEW k, k = key_offset, k # -1,
         buf[ptr].type \notin Closers, buf[ptr].key = keys[k + 1]
  PROVE  ptr = r[k + 1]
<1>1. ptr \in Nodes /\ ptr # 0
  BY WayFacts, WalkFacts, CursorOnWay, TreeTypes DEF Nodes
<1> DEFINE c == NodeParent[ptr]
<1>2. c \in Around(ptr) /\ r[k] <= c
  BY <1>1, WayFacts, WalkFacts, CursorOnWay, ParentInMap
<1>3. ptr \in Children(c)
  BY <1>1 DEF Children
<1>4. c \in Nodes /\ c \in Nat
  BY <1>2, WayFacts, TreeTypes DEF Around, Nodes, Containers
<1> HIDE DEF c
<1>5. c = r[k]
  <2>1. SUFFICES ASSUME r[k] < c PROVE FALSE
    BY <1>2, <1>4, CursorOnWay
  <2>2. buf[c].type = HDR_TYPE_ARRAY_OPEN
    BY <1>2, <2>1, CursorOnWay DEF OnWay
  <2>3. Reader!IsArray(c)
    BY <2>2, SameHeader DEF Reader!IsArray
  <2>4. k + 1 \in 1..Len(keys)
    BY CursorOnWay
  <2>5. buf[ptr].key # keys[k + 1]
    BY <1>3, <1>4, <2>3, <2>4 DEF LooksAlong, ManyKeys, ElementsUnnamed
  <2>6. QED
    BY <2>5
<1>6. r[k] \in Maps
  <2>1. buf[r[k]].type = HDR_TYPE_MAP_OPEN
    BY CursorOnWay DEF EntryOnWay
  <2>2. QED
    BY <1>4, <1>5, <2>1, SameHeader DEF Maps, Reader!IsMap
<1>7. r[k + 1] \in Children(r[k]) /\ buf[r[k + 1]].key = keys[k + 1]
  BY CursorOnWay DEF EntryOnWay
<1>8. QED
  BY <1>3, <1>5, <1>6, <1>7 DEF LooksAlong, ManyKeys, UniqueKeys

(* The key is found at the cursor.                                         *)
LEMMA FoundOnWay ==
  ASSUME NEW r, LooksAlong(r), key_offset # -1, buf[ptr].type \notin Closers,
         TRUE \in Reader!Matches(buf[ptr].key), Reader!LastKey, Reader!Found
  PROVE  WayOn(r)
<1>1. PICK k : k = key_offset
  OBVIOUS
<1>2. k + 1 = Len(keys) /\ ~(key_offset < 0)
  BY <1>1, WayFacts, CursorOnWay
<1>3. buf[ptr].key = keys[k + 1]
  BY <1>1, <1>2, ComparesNext, Zenon
<1>4. ptr = r[Len(keys)]
  BY <1>1, <1>2, <1>3, AheadDiffers
<1>5. QED
  BY <1>4 DEF WayOn, Reader!Found

(* A match that is not the last is the next map of the way.                *)
LEMMA MatchOnWay ==
  ASSUME NEW r, LooksAlong(r), NEW k, k = key_offset, k # -1,
         buf[ptr].type \notin Closers, buf[ptr].key = keys[k + 1], ~Reader!LastKey
  PROVE  ptr = r[k + 1] /\ k + 1 < Len(keys) /\ buf[ptr].type = HDR_TYPE_MAP_OPEN
<1>1. k + 1 # Len(keys)
  BY CursorOnWay
<1>2. ptr = r[k + 1]
  BY <1>1, AheadDiffers
<1>3. k + 1 < Len(keys) /\ k + 2 \in 1..Len(keys) /\ (k + 2) - 1 = k + 1
  BY <1>1, WayFacts, CursorOnWay
<1>4. EntryOnWay(r, k + 2)
  BY <1>3, WayFacts
<1>5. buf[r[k + 1]].type = HDR_TYPE_MAP_OPEN
  BY <1>3, <1>4 DEF EntryOnWay
<1>6. QED
  BY <1>2, <1>3, <1>5

(* A node that is not the next of the way lies before it.                  *)
LEMMA TokenBeforeNext ==
  ASSUME NEW r, LooksAlong(r), NEW k, k = key_offset, k # -1, ptr # r[k + 1]
  PROVE  ptr \in DOMAIN buf /\ ptr < r[k + 1] /\ ptr + buf[ptr].size <= r[k + 1]
<1>1. ptr \in DOMAIN buf /\ ptr < r[k + 1]
  BY WayFacts, WalkFacts, CursorOnWay DEF OnWay
<1>2. QED
  BY <1>1, WayFacts, CursorOnWay, TreeTypes

(* A move over such a node, if it is no map, goes on on the way, and so    *)
(* does a hop over a map.                                                  *)
LEMMA PassOnWay ==
  ASSUME NEW r, LooksAlong(r), NEW k, k = key_offset, k # -1, ptr # r[k + 1],
         buf[ptr].type \notin Closers, buf[ptr].type # HDR_TYPE_MAP_OPEN
  PROVE  OnWay(r, ptr + buf[ptr].size, k)
<1>1. /\ ptr + buf[ptr].size <= r[k + 1]
      /\ r[k] < ptr + buf[ptr].size
  <2>1. ptr \in DOMAIN buf /\ ptr + buf[ptr].size <= r[k + 1]
    BY TokenBeforeNext
  <2>2. r[k] < ptr /\ r[k] \in Nat
    BY CursorOnWay DEF OnWay
  <2>3. QED
    BY <2>1, <2>2, WayFacts, TreeTypes
<1>2. \A p \in Around(ptr) : r[k] < p => buf[p].type = HDR_TYPE_ARRAY_OPEN
  BY CursorOnWay DEF OnWay
<1>3. CASE buf[ptr].type = HDR_TYPE_ARRAY_OPEN
  <2>1. ptr \in Containers
    BY <1>3, TokenBeforeNext DEF Containers, Openers
  <2>2. Around(ptr + buf[ptr].size) = Around(ptr) \cup {ptr}
    BY <2>1, WayFacts, WalkFacts, AroundPastOpener
  <2>3. QED
    BY <1>1, <1>2, <1>3, <2>2 DEF OnWay
<1>4. CASE buf[ptr].type # HDR_TYPE_ARRAY_OPEN
  <2>1. buf[ptr].type \notin Openers \cup Closers
    BY <1>4 DEF Openers
  <2>2. Around(ptr + buf[ptr].size) = Around(ptr)
    BY <2>1, TokenBeforeNext, WayFacts, AroundPastScalar
  <2>3. QED
    BY <1>1, <1>2, <2>2 DEF OnWay
<1>5. QED
  BY <1>3, <1>4

LEMMA HopOnWay ==
  ASSUME NEW r, LooksAlong(r), NEW k, k = key_offset, k # -1, ptr # r[k + 1],
         ptr \in Containers
  PROVE  OnWay(r, End(ptr), k) /\ buf[ptr].len # 0
<1>1. ptr < r[k + 1] /\ r[k] < ptr /\ r[k] \in Nat /\ r[k + 1] \in Nat
  BY TokenBeforeNext, CursorOnWay DEF OnWay
<1>2. ptr < End(ptr) /\ End(ptr) \in Nat /\ ptr \in Nat /\ buf[ptr].len \in Nat
  BY WayFacts, SpanHasEnd, TreeTypes, SpanTypes DEF WInv, LInv
<1>3. ~(r[k + 1] < End(ptr))
  BY <1>1, CursorOnWay DEF EntryOnWay
<1>4. Around(End(ptr)) = Around(ptr)
  BY WayFacts, WalkFacts, CursorOnWay, AroundPastSpan
<1>5. r[k] < End(ptr) /\ End(ptr) <= r[k + 1]
  BY <1>1, <1>2, <1>3
<1>6. \A p \in Around(ptr) : r[k] < p => buf[p].type = HDR_TYPE_ARRAY_OPEN
  BY CursorOnWay DEF OnWay
<1>7. buf[ptr].len # 0
  BY <1>2 DEF End
<1>8. QED
  BY <1>4, <1>5, <1>6, <1>7 DEF OnWay

(* Into the i-th map of the way.                                           *)
LEMMA EnterOnWay ==
  ASSUME NEW r, LooksAlong(r), NEW i \in Nat, i < Len(keys), ptr = r[i]
  PROVE  OnWay(r, ptr + buf[ptr].size, i)
<1>1. i + 1 \in 1..Len(keys) /\ (i + 1) - 1 = i /\ i + 1 \in 0..Len(keys)
  BY WayFacts
<1>2. EntryOnWay(r, i + 1) /\ OnTheWay(r, i + 1)
  BY <1>1, WayFacts
<1>3. ptr \in Containers /\ ptr < r[i + 1] /\ r[i + 1] \in DOMAIN buf
  BY <1>1, <1>2 DEF EntryOnWay, OnTheWay
<1>4. /\ ptr \in DOMAIN buf /\ ptr \in Nat
      /\ ptr + buf[ptr].size <= r[i + 1] /\ ptr < ptr + buf[ptr].size
  BY <1>3, WayFacts, TreeTypes
<1>5. Around(ptr + buf[ptr].size) = Around(ptr) \cup {ptr}
  BY <1>3, WayFacts, WalkFacts, AroundPastOpener
<1>6. \A p \in Around(ptr + buf[ptr].size) : ~(ptr < p)
  <2>1. \A p \in Around(ptr) : p < ptr /\ p \in Nat
    BY WayFacts, TreeTypes DEF Around
  <2>2. QED
    BY <1>4, <1>5, <2>1
<1>7. QED
  BY <1>4, <1>6 DEF OnWay

(* On the way only arrays are left: the end of a map of the way comes      *)
(* behind its next node.                                                   *)
LEMMA LeaveOnWay ==
  ASSUME NEW r, LooksAlong(r), NEW k, k = key_offset, k # -1,
         buf[ptr].type \in Closers
  PROVE  OnWay(r, ptr + buf[ptr].size, k) /\ buf[ptr].type = HDR_TYPE_ARRAY_CLOSE
<1>1. ptr # r[k + 1]
  <2>1. buf[r[k + 1]].type \notin Closers
    BY CursorOnWay DEF EntryOnWay
  <2>2. QED
    BY <2>1
<1>2. ptr \in DOMAIN buf /\ ptr + buf[ptr].size <= r[k + 1] /\ ptr \in Nat
      /\ ptr + buf[ptr].size \in Nat /\ ptr < ptr + buf[ptr].size
  BY <1>1, TokenBeforeNext, WayFacts, TreeTypes
<1>3. PICK q \in Around(ptr) :
        /\ End(q) = ptr + buf[ptr].size
        /\ buf[ptr].type = CloserOf(buf[q].type)
        /\ Around(ptr + buf[ptr].size) = Around(ptr) \ {q}
  BY <1>2, WayFacts, WalkFacts, CursorOnWay, AroundPastCloser
<1>4. q \in Containers /\ q \in Nat
  BY <1>3, WayFacts, TreeTypes DEF Around
<1>5. /\ r[k] \in Containers /\ r[k + 1] < End(r[k]) /\ End(r[k]) \in Nat
      /\ r[k] \in Nat /\ r[k + 1] \in Nat
  <2>1. r[k] \in Containers /\ r[k + 1] < End(r[k])
    BY CursorOnWay DEF EntryOnWay
  <2>2. QED
    BY <2>1, CursorOnWay, WayFacts, TreeTypes
<1>6. End(q) < End(r[k])
  BY <1>2, <1>3, <1>5
<1>7. r[k] < ptr
  BY CursorOnWay DEF OnWay
<1>8. r[k] < q
  <2>1. q # r[k]
    BY <1>5, <1>6
  <2>2. ~(q < r[k])
    <3>1. SUFFICES ASSUME q < r[k] PROVE FALSE
      OBVIOUS
    <3>2. r[k] < End(q)
      BY <1>2, <1>3, <1>5, <1>7
    <3>3. Closed(q) /\ Closed(r[k])
      BY <1>4, <1>5, WayFacts, AllClosed
    <3>4. End(r[k]) < End(q)
      BY <1>4, <1>5, <3>1, <3>2, <3>3, WayFacts DEF WInv, SpansNest
    <3>5. QED
      BY <1>2, <1>3, <1>5, <1>6, <3>4
  <2>3. QED
    BY <1>4, <1>5, <2>1, <2>2
<1>9. buf[q].type = HDR_TYPE_ARRAY_OPEN
  BY <1>3, <1>8, CursorOnWay DEF OnWay
<1>10. buf[ptr].type = HDR_TYPE_ARRAY_CLOSE
  <2>1. HDR_TYPE_ARRAY_OPEN # HDR_TYPE_MAP_OPEN
    BY TypesDiffer
  <2>2. QED
    BY <1>3, <1>9, <2>1 DEF CloserOf
<1>11. r[k] < ptr + buf[ptr].size
  BY <1>2, <1>5, <1>7
<1>12. \A p \in Around(ptr) : r[k] < p => buf[p].type = HDR_TYPE_ARRAY_OPEN
  BY CursorOnWay DEF OnWay
<1>13. QED
  BY <1>2, <1>3, <1>10, <1>11, <1>12 DEF OnWay

(***************************************************************************)
(* What each pass of the loop keeps of the way.                            *)
(***************************************************************************)
LEMMA MapOpenKeepsWay ==
  ASSUME NEW r, LooksAlong(r), Reader!OnMapOpen PROVE WayOn(r)
<1>1. /\ ptr \in DOMAIN buf /\ buf[ptr].type = HDR_TYPE_MAP_OPEN
      /\ ptr \in Containers /\ buf[ptr].type \notin Closers
  <2>1. ptr \in DOMAIN buf /\ buf[ptr].type = HDR_TYPE_MAP_OPEN
    BY SameHeader DEF Reader!OnMapOpen, Reader!At, Reader!tok
  <2>2. ptr \in Containers
    BY <2>1 DEF Containers, Openers
  <2>3. QED
    BY <2>1, <2>2, WayFacts, TreeTypes
<1>2. Reader!Move(1) => ptr' = ptr + buf[ptr].size
  BY <1>1, WayFacts, MoveTypes DEF Reader!Move, Reader!tok
<1>3. CASE key_offset = -1
  <2>1. /\ Reader!Move(1) /\ Reader!Continue /\ key_offset' = 0
    BY <1>3, WayFacts DEF Reader!OnMapOpen
  <2>2. ptr = r[0] /\ 0 < Len(keys)
    BY <1>3, WayFacts, WalkFacts DEF StandsAt, LooksAlong, Route
  <2>3. OnWay(r, ptr', key_offset')
    BY <1>2, <2>1, <2>2, EnterOnWay
  <2>4. QED
    BY <2>1, <2>3, WayFacts DEF WayOn, Reader!Continue
<1>4. CASE key_offset # -1
  <2>1. PICK k : k = key_offset
    OBVIOUS
  <2>2. ~(key_offset < 0) /\ k # -1 /\ keys # Reader!NoKeys
    BY <1>4, <2>1, WayFacts
  <2>3. CASE /\ TRUE \in Reader!Matches(buf[ptr].key)
             /\ Reader!LastKey /\ Reader!Found
    BY <1>1, <1>4, <2>3, FoundOnWay
  <2>4. CASE /\ TRUE \in Reader!Matches(buf[ptr].key)
             /\ ~Reader!LastKey /\ Reader!Continue
             /\ key_offset' = key_offset + 1 /\ Reader!Move(1)
    <3>1. buf[ptr].key = keys[k + 1]
      BY <2>1, <2>2, <2>4, ComparesNext, Zenon
    <3>2. ptr = r[k + 1] /\ k + 1 < Len(keys)
      BY <1>1, <2>1, <2>2, <2>4, <3>1, MatchOnWay
    <3>3. k + 1 \in Nat
      BY <2>1, <2>2, CursorOnWay
    <3>4. OnWay(r, ptr', key_offset')
      BY <1>2, <2>1, <2>4, <3>2, <3>3, EnterOnWay
    <3>5. QED
      BY <2>4, <3>4, WayFacts DEF WayOn, Reader!Continue
  <2>5. CASE /\ FALSE \in Reader!Matches(buf[ptr].key)
             /\ IF buf[ptr].len = 0 THEN Reader!Stop ELSE Reader!Continue
             /\ ptr' = Reader!HopTo /\ key_offset' = key_offset
    <3>1. buf[ptr].key # keys[k + 1]
      BY <2>1, <2>2, <2>5, ComparesNext, Zenon
    <3>2. ptr # r[k + 1]
      BY <2>1, <2>2, <3>1, CursorOnWay DEF EntryOnWay
    <3>3. OnWay(r, End(ptr), k) /\ buf[ptr].len # 0
      BY <1>1, <2>1, <2>2, <3>2, HopOnWay
    <3>4. ptr' = End(ptr)
      BY <2>5 DEF Reader!HopTo, Reader!tok, End
    <3>5. OnWay(r, ptr', key_offset')
      BY <2>1, <2>5, <3>3, <3>4
    <3>6. QED
      BY <2>5, <3>3, <3>5, WayFacts DEF WayOn, Reader!Continue
  <2>6. QED
    BY <2>2, <2>3, <2>4, <2>5 DEF Reader!OnMapOpen, Reader!tok
<1>5. QED
  BY <1>3, <1>4

LEMMA EntryKeepsWay ==
  ASSUME NEW r, LooksAlong(r), Reader!OnArrayOpen \/ Reader!OnNumber \/ Reader!OnOther
  PROVE  WayOn(r)
<1>1. /\ ptr \in DOMAIN buf /\ buf[ptr].type \notin Closers
      /\ buf[ptr].type # HDR_TYPE_MAP_OPEN
  <2>1. ptr \in DOMAIN buf
        /\ buf[ptr].type \in {HDR_TYPE_ARRAY_OPEN} \cup Numbers
             \cup {HDR_TYPE_STRING, HDR_TYPE_BOOLEAN, HDR_TYPE_DOUBLE}
    BY SameHeader DEF Reader!OnArrayOpen, Reader!OnNumber, Reader!OnOther, Reader!At,
                      Reader!tok
  <2>2. HDR_TYPE_MAP_OPEN \in Openers /\ HDR_TYPE_ARRAY_OPEN \in Openers
    BY DEF Openers
  <2>3. QED
    BY <2>1, <2>2, ScalarTypes, TypesDiffer
<1>2. PICK k : k = key_offset
  OBVIOUS
<1>3. k # -1 /\ ~(key_offset < 0) /\ keys # Reader!NoKeys
  <2>1. buf[origin].type = HDR_TYPE_MAP_OPEN
    BY WayFacts, WalkFacts
  <2>2. key_offset # -1
    BY <1>1, <2>1, WayFacts, WalkFacts DEF StandsAt
  <2>3. QED
    BY <1>2, <2>2, WayFacts
<1>4. CASE TRUE \in Reader!Matches(buf[ptr].key) /\ Reader!LastKey /\ Reader!Found
  BY <1>1, <1>2, <1>3, <1>4, FoundOnWay
<1>5. CASE TRUE \in Reader!Matches(buf[ptr].key) /\ ~Reader!LastKey
  <2>1. buf[ptr].key = keys[k + 1]
    BY <1>2, <1>3, <1>5, ComparesNext, Zenon
  <2>2. ptr = r[k + 1] /\ buf[ptr].type = HDR_TYPE_MAP_OPEN
    BY <1>1, <1>2, <1>3, <1>5, <2>1, MatchOnWay
  <2>3. QED
    BY <1>1, <2>2
<1>6. CASE /\ FALSE \in Reader!Matches(buf[ptr].key) /\ Reader!Continue
           /\ ptr' = ptr + Reader!Advance(buf[ptr]) /\ key_offset' = key_offset
  <2>1. buf[ptr].key # keys[k + 1]
    BY <1>2, <1>3, <1>6, ComparesNext, Zenon
  <2>2. ptr # r[k + 1]
    BY <1>2, <1>3, <2>1, CursorOnWay DEF EntryOnWay
  <2>3. OnWay(r, ptr + buf[ptr].size, k)
    BY <1>1, <1>2, <1>3, <2>2, PassOnWay
  <2>4. ptr' = ptr + buf[ptr].size
    BY <1>1, <1>6, WayFacts, MoveTypes
  <2>5. OnWay(r, ptr', key_offset')
    BY <1>2, <1>6, <2>3, <2>4
  <2>6. QED
    BY <1>6, <2>5, WayFacts DEF WayOn, Reader!Continue
<1>7. QED
  BY <1>3, <1>4, <1>5, <1>6
     DEF Reader!OnArrayOpen, Reader!OnNumber, Reader!OnOther, Reader!Move, Reader!tok

LEMMA CloserKeepsWay ==
  ASSUME NEW r, LooksAlong(r), Reader!OnMapClose \/ Reader!OnArrayClose PROVE WayOn(r)
<1>1. /\ ptr \in DOMAIN buf /\ buf[ptr].type \in Closers /\ Reader!Move(-1)
      /\ key_offset' = key_offset
  BY SameHeader DEF Reader!OnMapClose, Reader!OnArrayClose, Reader!At, Reader!tok, Closers
<1>2. PICK k : k = key_offset
  OBVIOUS
<1>3. k # -1
  <2>1. buf[origin].type \notin Closers
    BY WayFacts, WalkFacts, TreeTypes
  <2>2. QED
    BY <1>1, <1>2, <2>1, WayFacts, WalkFacts DEF StandsAt
<1>4. OnWay(r, ptr + buf[ptr].size, k) /\ buf[ptr].type = HDR_TYPE_ARRAY_CLOSE
  BY <1>1, <1>2, <1>3, LeaveOnWay
<1>5. Reader!Continue
  <2>1. HDR_TYPE_ARRAY_CLOSE # HDR_TYPE_MAP_CLOSE
    BY DEF HDR_TYPE_ARRAY_CLOSE, HDR_TYPE_MAP_CLOSE
  <2>2. ~Reader!OnMapClose
    BY <1>4, <2>1, SameHeader DEF Reader!OnMapClose, Reader!At, Reader!tok
  <2>3. QED
    BY <2>2 DEF Reader!OnArrayClose
<1>6. ptr' = ptr + buf[ptr].size
  BY <1>1, WayFacts, MoveTypes DEF Reader!Move, Reader!tok
<1>7. OnWay(r, ptr', key_offset')
  BY <1>1, <1>2, <1>4, <1>6
<1>8. QED
  BY <1>5, <1>7, WayFacts DEF WayOn, Reader!Continue

LEMMA StepKeepsWay ==
  ASSUME NEW r, LooksAlong(r), Reader!Step PROVE WayOn(r)
<1>1. ~Reader!OffDocument
  BY WayFacts, WalkFacts DEF Reader!OffDocument
<1>2. QED
  BY <1>1, MapOpenKeepsWay, EntryKeepsWay, CloserKeepsWay DEF Reader!Step

(* The tree, the query and the way are the same after it.                  *)
LEMMA SameWay ==
  ASSUME UNCHANGED <<buf, deep_offset, map_offset, origin, keys>>, NEW r
  PROVE  /\ UniqueKeys' <=> UniqueKeys
         /\ ElementsUnnamed' <=> ElementsUnnamed
         /\ Route(r)' <=> Route(r)
         /\ OnWay(r, ptr, key_offset)' <=> OnWay(r, ptr', key_offset')
<1>1. Nodes' = Nodes /\ NodeParent' = NodeParent
  BY DEF Nodes, NodeParent, Enclosing, Containers, IsOpen
<1>2. \A c : Children(c)' = Children(c)
  BY <1>1 DEF Children
<1>3. \A c : Reader!IsMap(c)' <=> Reader!IsMap(c)
  BY DEF Reader!IsMap
<1>4. UniqueKeys' <=> UniqueKeys
  <2>1. Maps' = Maps
    BY <1>1, <1>3 DEF Maps
  <2>2. QED
    BY <1>2, <2>1 DEF UniqueKeys
<1>5. ElementsUnnamed' <=> ElementsUnnamed
  BY SameTree
<1>6. Route(r)' <=> Route(r)
  BY <1>2, <1>3 DEF Route
<1>7. OnWay(r, ptr, key_offset)' <=> OnWay(r, ptr', key_offset')
  BY DEF OnWay, Around, Containers, End
<1>8. QED
  BY <1>4, <1>5, <1>6, <1>7

(* A pass of the loop keeps the walk.                                      *)
LEMMA PassKeepsWalk ==
  ASSUME RdInv, PathWalk, Reader!Step, UNCHANGED vars PROVE PathWalk'
<1>1. PassShape /\ UNCHANGED <<buf, deep_offset, map_offset>>
  BY PassHasShape DEF vars, mem, nest
<1>2. UNCHANGED <<buf, deep_offset, map_offset, origin, keys>>
  BY <1>1 DEF PassShape
<1>3. SUFFICES ASSUME ManyKeys', NEW r, Route(r)' PROVE KeepsWay(r)'
  BY DEF PathWalk
<1>4. Route(r)
  BY <1>2, <1>3, SameWay
<1>5. ManyKeys /\ Walking
  <2>1. UniqueKeys /\ ElementsUnnamed
    BY <1>2, <1>3, SameWay DEF ManyKeys
  <2>2. QED
    BY <1>1, <1>2, <1>3, <2>1
       DEF ManyKeys, Walking, FromMap, Reader!IsMap, PassShape
<1>6. WayOn(r)
  <2>1. KeepsWay(r)
    BY <1>4, <1>5 DEF PathWalk
  <2>2. LooksAlong(r)
    BY <1>4, <1>5, <2>1 DEF LooksAlong
  <2>3. QED
    BY <2>2, StepKeepsWay
<1>7. OnWay(r, ptr, key_offset)' <=> OnWay(r, ptr', key_offset')
  BY <1>2, SameWay
<1>8. QED
  BY <1>2, <1>6, <1>7 DEF WayOn, KeepsWay

(* Writer and reader together preserve it.                                 *)
LEMMA PathStep ==
  ASSUME RdInv, PathWalk, [BackNext]_<<vars, rvars>> PROVE PathWalk'
<1>1. CASE Writing
  BY <1>1 DEF Writing, rvars, PathWalk, ManyKeys, FromMap
<1>2. CASE UNCHANGED vars /\ Reader!Step
  BY <1>2, PassKeepsWalk
<1>3. ASSUME NEW o \in Reader!Values, NEW p \in Paths \cup {Reader!NoKeys},
             NEW n \in NbVals, Reader!Get2(o, p, n), UNCHANGED vars, Finished
      PROVE  PathWalk'
  <2>1. /\ pc' = IF p = Reader!NoKeys /\ ~Reader!IsArray(o) THEN "done" ELSE "loop"
        /\ keys' = p /\ key_offset' = -1 /\ val' = <<>>
    BY <1>3 DEF Reader!Get2
  <2>2. SUFFICES ASSUME ManyKeys', NEW r PROVE KeepsWay(r)'
    BY DEF PathWalk
  <2>3. pc' = "loop"
    BY <2>1, <2>2, SameHeader DEF ManyKeys
  <2>4. QED
    BY <2>1, <2>3 DEF KeepsWay
<1>4. CASE UNCHANGED <<vars, rvars>>
  <2>1. UNCHANGED <<buf, deep_offset, map_offset, origin, keys>>
        /\ UNCHANGED <<pc, ptr, key_offset, val>>
    BY <1>4 DEF vars, mem, nest, rvars
  <2>2. SUFFICES ASSUME ManyKeys', NEW r, Route(r)' PROVE KeepsWay(r)'
    BY DEF PathWalk
  <2>3. ManyKeys
    BY <2>1, <2>2, SameWay DEF ManyKeys, FromMap, Reader!IsMap
  <2>4. KeepsWay(r)
    BY <2>1, <2>2, <2>3, SameWay DEF PathWalk
  <2>5. QED
    BY <2>1, <2>4, SameWay DEF KeepsWay
<1>5. QED
  BY <1>1, <1>2, <1>3, <1>4
     DEF BackNext, Reading, Reader!Next, Finished

(* A path of keys that leads to a value finds that value, through any      *)
(* number of maps: the maps that are hopped over, and the arrays that are  *)
(* walked through with all that is in them, do not lead the lookup astray. *)
THEOREM PathsFound ==
  ASSUME Assumptions PROVE BackSpec => []PathFound
<1>1. BackInit => RdInv /\ PathWalk
  <2>1. BackInit => pc = "idle"
    BY DEF BackInit, Reader!Init
  <2>2. QED
    BY <2>1, InitRdInv DEF PathWalk, ManyKeys, FromMap
<1>2. RdInv /\ PathWalk /\ [BackNext]_<<vars, rvars>> => (RdInv /\ PathWalk)'
  BY BackStep, PathStep
<1>3. RdInv /\ PathWalk => PathFound
  <2>1. SUFFICES ASSUME RdInv, PathWalk, ManyKeys, Answered,
                        Resolve(origin, keys) # NotFound
                 PROVE  val = <<Resolve(origin, keys)>>
    BY DEF PathFound, ManyKeys
  <2>2. keys \in Seq(0 .. BKV_KEY_INVALID - 1)
    BY <2>1, QueriesAssumption DEF ManyKeys, RdInv, ReaderTypes
  <2>3. PICK r : Route(r) /\ Resolve(origin, keys) = r[Len(keys)]
    BY <2>1, <2>2, RouteExists DEF RdInv
  <2>4. QED
    BY <2>1, <2>3 DEF PathWalk, KeepsWay, Answered
<1>4. QED
  BY <1>1, <1>2, <1>3, PTL DEF BackSpec
==============================================================================

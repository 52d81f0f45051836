--------------------------- MODULE BkvWriterProofs ---------------------------
(***************************************************************************)
(* Proofs about BkvWriter, for every value of its constants: types, the    *)
(* state and the stack, and the lengths of the containers.                 *)
(***************************************************************************)
EXTENDS BkvWriter, TLAPS

(* The tokens of the buffer follow each other and end at write_offset.     *)
TokensInOrder ==
  /\ \A o \in DOMAIN buf : o + buf[o].size <= write_offset
  /\ \A o, p \in DOMAIN buf : o < p => o + buf[o].size <= p

(* The stack of open containers points at their headers, outermost first.  *)
StackPointsAtHeaders ==
  /\ \A d \in 0..deep_offset : map_offset[d] \in DOMAIN buf
  /\ \A d, e \in 0..deep_offset : d < e => map_offset[d] < map_offset[e]
  /\ deep_offset >= 0 => map_offset[0] = 0

IInv ==
  /\ TypeOK
  /\ StateMatchesStack
  /\ ArraysOnlyInMaps
  /\ TokensInOrder
  /\ StackPointsAtHeaders

(***************************************************************************)
(* Arithmetic.                                                             *)
(***************************************************************************)
LEMMA DivNat ==
  ASSUME NEW m \in Nat, NEW c \in Nat \ {0}
  PROVE  m \div c \in Nat /\ (m \div c + 1) * c \in Nat
<1>1. m \div c \in Nat
  OBVIOUS
<1>2. QED
  BY <1>1

(* The two maxima are numbers; the provers need not know which.            *)
LEMMA MaximaAreNat == UINT16_MAX \in Nat /\ MAX_KEY \in Nat /\ MAX_KEY >= 2
BY SMT DEF UINT16_MAX, MAX_KEY

(* A value that fits a 16-bit field is stored as it is.                    *)
LEMMA U16Identity ==
  ASSUME NEW n \in 0..UINT16_MAX PROVE U16(n) = n
BY MaximaAreNat, SMT DEF U16

(* Whatever is stored in a 16-bit field fits it.                           *)
LEMMA U16Range ==
  ASSUME NEW n \in Nat PROVE U16(n) \in 0..UINT16_MAX
<1>1. \A c \in Nat \ {0} : n % c \in 0 .. c - 1
  OBVIOUS
<1>2. UINT16_MAX + 1 \in Nat \ {0} /\ (UINT16_MAX + 1) - 1 = UINT16_MAX
  BY MaximaAreNat
<1>3. QED
  BY <1>1, <1>2 DEF U16

(* The twelve key bits of a header.                                        *)
LEMMA HdrKeyRange ==
  ASSUME NEW key \in Nat PROVE HdrKey(key) \in 0..MAX_KEY
<1>1. \A c \in Nat \ {0} : key % c \in 0 .. c - 1
  OBVIOUS
<1>2. MAX_KEY + 1 \in Nat \ {0} /\ (MAX_KEY + 1) - 1 = MAX_KEY
  BY MaximaAreNat
<1>3. QED
  BY <1>1, <1>2 DEF HdrKey

(* The types of the constants the steps below use.                         *)
LEMMA ConstantTypes ==
  /\ MaxBytes \in Nat
  /\ MaxDepth \in Nat \ {0}
  /\ Stale \in 0..UINT16_MAX
  /\ DefaultChunk \in Nat \ {0}
BY MaximaAreNat, BoundsAssumption, ChunkAssumption

(***************************************************************************)
(* Types of the pieces an action is made of.                               *)
(***************************************************************************)
LEMMA GrownSizeType ==
  ASSUME TypeOK PROVE Chunk \in Nat \ {0} /\ GrownSize \in Nat
<1>1. Chunk \in Nat \ {0}
  BY ChunkAssumption DEF TypeOK, Chunk
<1>2. mem_size \in Nat
  BY DEF TypeOK
<1>3. QED
  BY <1>1, <1>2, DivNat DEF GrownSize

(* bkv_prepare keeps the types, granted or refused.                        *)
LEMMA ReserveType ==
  ASSUME TypeOK, NEW bits \in Nat, NEW written, Reserve(bits, written)
  PROVE  mem_size' \in Nat /\ lost' \subseteq 0..MaxBytes /\ short' \in BOOLEAN
<1>1. mem_size \in Nat /\ lost \subseteq 0..MaxBytes /\ write_offset \in 0..MaxBytes
  BY DEF TypeOK
<1>2. Overrun \subseteq 0..MaxBytes
  BY <1>1, ConstantTypes DEF Overrun
<1>3. lost \cup Overrun \subseteq 0..MaxBytes
  BY <1>1, <1>2
<1>4. GrownSize \in Nat
  BY GrownSizeType
<1>5. short' \in BOOLEAN
  BY DEF TypeOK, Reserve
<1>6. QED
  BY <1>1, <1>3, <1>4, <1>5 DEF Reserve

(* So does a write that stays below the bound.                             *)
LEMMA WriteType ==
  ASSUME TypeOK, NEW bits \in Nat, NEW t \in Token, NEW b, NEW patched,
         Write(bits, t, b, patched), write_offset + t.size <= MaxBytes
  PROVE  /\ backing' \in HandleKinds
         /\ mem_chunk_size' \in ChunkSizes
         /\ mem_size' \in Nat
         /\ lost' \subseteq 0..MaxBytes
         /\ short' \in BOOLEAN
         /\ write_offset' = write_offset + t.size
         /\ write_offset' \in 0..MaxBytes
         /\ write_offset' > write_offset
         /\ buf' = b
         /\ ret' \in Codes
<1>1. write_offset \in 0..MaxBytes /\ backing \in HandleKinds
      /\ mem_chunk_size \in ChunkSizes
  BY DEF TypeOK
<1>2. t.size \in Nat \ {0}
  BY DEF Token
<1>3. Reserve(bits, Span(write_offset, t.size) \cup patched)
  BY DEF Write
<1>4. mem_size' \in Nat /\ lost' \subseteq 0..MaxBytes /\ short' \in BOOLEAN
  BY <1>3, ReserveType
<1>5. QED
  BY <1>1, <1>2, <1>4, ConstantTypes DEF Write, fixed, Codes

(***************************************************************************)
(* A token written at write_offset covers no other.                        *)
(***************************************************************************)
LEMMA OverlayAtEnd ==
  ASSUME TypeOK, TokensInOrder, NEW t \in Token
  PROVE  /\ DOMAIN Overlay(buf, write_offset, t) = DOMAIN buf \cup {write_offset}
         /\ Overlay(buf, write_offset, t)[write_offset] = t
         /\ write_offset \notin DOMAIN buf
         /\ \A o \in DOMAIN buf :
              o < write_offset /\ Overlay(buf, write_offset, t)[o] = buf[o]
         /\ Overlay(buf, write_offset, t) \in [DOMAIN buf \cup {write_offset} -> Token]
<1>1. write_offset \in Nat /\ \A o \in DOMAIN buf : o \in Nat
  <2>1. write_offset \in 0..MaxBytes /\ DOMAIN buf \subseteq 0..MaxBytes
    BY DEF TypeOK
  <2>2. QED
    BY <2>1, ConstantTypes
<1>2. \A o \in DOMAIN buf : buf[o] \in Token
  BY DEF TypeOK
<1>3. \A o \in DOMAIN buf : buf[o].size \in Nat \ {0}
  BY <1>2 DEF Token
<1>4. \A o \in DOMAIN buf : o + buf[o].size <= write_offset
  BY DEF TokensInOrder
<1>5. \A o \in DOMAIN buf : o < write_offset
  BY <1>1, <1>3, <1>4
<1>6. {y \in DOMAIN buf : y + buf[y].size <= write_offset \/ y >= write_offset + t.size}
      \cup {write_offset} = DOMAIN buf \cup {write_offset}
  BY <1>4
<1>7. write_offset \notin DOMAIN buf
  BY <1>1, <1>5
<1>8. Overlay(buf, write_offset, t)
      = [x \in DOMAIN buf \cup {write_offset} |-> IF x = write_offset THEN t ELSE buf[x]]
  BY <1>6 DEF Overlay
<1>9. QED
  BY <1>2, <1>5, <1>7, <1>8

(***************************************************************************)
(* The shapes a step of the writer takes.  All proofs below go by shape:   *)
(* a call that returns early, an add, an open and a close.                 *)
(***************************************************************************)
Quiet == ret' \in Codes /\ UNCHANGED <<fixed, nest, array_nb_elems, mem>>

Appends(t) ==
  /\ t \in Token
  /\ backing' \in HandleKinds
  /\ mem_chunk_size' \in ChunkSizes
  /\ mem_size' \in Nat
  /\ lost' \subseteq 0..MaxBytes
  /\ short' \in BOOLEAN
  /\ write_offset' = write_offset + t.size
  /\ write_offset' \in 0..MaxBytes
  /\ array_nb_elems' \in [Depths -> Nat]
  /\ ret' \in Codes

AddShape(t) ==
  /\ Appends(t)
  /\ t.type \notin Openers \cup Closers
  /\ \E a \in KvAdds \cup ArrayAdds :
       t.type = a.type /\ t.size = a.size /\ t.len = a.len
  /\ deep_offset >= 0
  /\ buf' = Overlay(buf, write_offset, t)
  /\ UNCHANGED nest

(* The client gives map_open and array_open keys of twelve bits only.      *)
KeysFit == OpenKeys \subseteq 0..MAX_KEY
OpenerOf(v) == IF v = "MAP_KEY" THEN HDR_TYPE_MAP_OPEN ELSE HDR_TYPE_ARRAY_OPEN
OpenerSize(v) ==
  HDR_SIZE + IF v = "MAP_KEY" THEN MAP_OPEN_VALUE_SIZE ELSE ARRAY_OPEN_VALUE_SIZE
CloserSize(type) ==
  HDR_SIZE + IF type = HDR_TYPE_MAP_CLOSE THEN MAP_CLOSE_VALUE_SIZE
             ELSE ARRAY_CLOSE_VALUE_SIZE

OpenShape(t, v) ==
  /\ Appends(t)
  /\ KeysFit => t.type = OpenerOf(v)
  /\ t.size = OpenerSize(v) /\ t.len \in Uninit(write_offset)
  /\ v \in {"MAP_KEY", "ARRAY_KEY"}
  /\ deep_offset = -1 => v = "MAP_KEY" /\ state = "STATE_INIT"
  /\ v = "ARRAY_KEY" => Top = "MAP_KEY"
  /\ deep_offset + 1 < MaxDepth
  /\ buf' = Overlay(buf, write_offset, t)
  /\ Push(v, IF v = "MAP_KEY" THEN "STATE_IN_MAP" ELSE "STATE_IN_ARRAY")

CloseShape(t, h) ==
  /\ Appends(t)
  /\ t.type \in Closers
  /\ t.size = CloserSize(t.type)
  /\ deep_offset >= 0
  /\ Top = IF t.type = HDR_TYPE_MAP_CLOSE THEN "MAP_KEY" ELSE "ARRAY_KEY"
  /\ buf' = [Overlay(buf, write_offset, t) EXCEPT ![OpenHeader] = h]
  /\ h \in Token
  /\ h.type = buf[OpenHeader].type
  /\ h.size = buf[OpenHeader].size
  /\ h.len = SpanLength(t.size)
  /\ map_offset' = map_offset
  /\ deep_offset' = deep_offset - 1
  /\ deep_value' \in [Depths -> {"MAP_KEY", "ARRAY_KEY", "0"}]
  /\ \A d \in Depths : d < deep_offset => deep_value'[d] = deep_value[d]
  /\ state' = Resumed

Shape ==
  \/ Quiet
  \/ \E t \in Token : AddShape(t)
  \/ \E t \in Token, v \in {"MAP_KEY", "ARRAY_KEY"} : OpenShape(t, v)
  \/ \E t, h \in Token : CloseShape(t, h)

(* The stack is empty or its top is an open container.                     *)
LEMMA TopType ==
  ASSUME TypeOK, ArraysOnlyInMaps
  PROVE  /\ deep_offset \in Int
         /\ deep_offset = -1 \/ deep_offset \in Depths
         /\ deep_offset \in Depths => deep_offset >= 0
         /\ deep_offset = -1 <=> Top \notin {"MAP_KEY", "ARRAY_KEY"}
         /\ deep_offset \in Depths => Top = deep_value[deep_offset]
<1>1. deep_offset \in -1 .. MaxDepth - 1 /\ MaxDepth \in Nat
  BY ConstantTypes DEF TypeOK
<1>2. deep_offset = -1 \/ deep_offset \in Depths
  BY <1>1 DEF Depths
<1>3. deep_offset \in Depths => deep_offset \in 0..deep_offset
  BY <1>1 DEF Depths
<1>4. CASE deep_offset = -1
  BY <1>4 DEF Top, NoTop, Depths
<1>5. CASE deep_offset \in Depths
  <2>1. deep_offset # -1 /\ deep_offset >= 0
    BY <1>5, <1>1 DEF Depths
  <2>2. deep_value[deep_offset] \in {"MAP_KEY", "ARRAY_KEY"}
    BY <1>3, <1>5 DEF ArraysOnlyInMaps
  <2>3. Top = deep_value[deep_offset]
    BY <2>1 DEF Top
  <2>4. deep_offset \in Int
    BY <1>1
  <2>5. Top \in {"MAP_KEY", "ARRAY_KEY"}
    BY <2>2, <2>3
  <2>6. QED
    BY <1>5, <2>1, <2>3, <2>4, <2>5
<1>6. QED
  BY <1>2, <1>4, <1>5

(* The token of a scalar call is never a container or its end.             *)
LEMMA ScalarTokenType ==
  ASSUME NEW a, a \in KvAdds \/ a \in ArrayAdds, NEW key \in 0..MAX_KEY
  PROVE  /\ ScalarToken(a, key) \in Token
         /\ ScalarToken(a, key).type \notin Openers \cup Closers
         /\ ScalarToken(a, key).type = a.type
         /\ ScalarToken(a, key).size = a.size
         /\ ScalarToken(a, key).len = a.len
         /\ a.bits \in Nat
<1>1. /\ a.type \in Nat /\ a.bits \in Nat
      /\ a.size \in Nat \ {0} /\ a.len \in 0..UINT16_MAX
      /\ a.type \notin Openers \cup Closers
  BY AddsAssumption DEF KvAddType, ArrayAddType
<1>2. key <= MAX_KEY /\ 0 \in 0..UINT16_MAX
  BY MaximaAreNat
<1>3. HdrType(a.type, key) = a.type /\ HdrKey(key) \in 0..MAX_KEY
  BY <1>2, HdrKeyRange DEF HdrType
<1>4. QED
  BY <1>1, <1>2, <1>3 DEF ScalarToken, Token

(* A refused call changes nothing but ret.                                 *)
LEMMA RejectedIsQuiet ==
  ASSUME NEW a, NEW bits, Rejected(a, bits) PROVE Quiet
BY DEF Rejected, Refuse, Quiet, Codes

(* bkv_kv_*_add is refused or adds a scalar.                               *)
LEMMA KvAddShape ==
  ASSUME IInv, NEW a \in KvAdds, NEW key \in Keys, KvAdd(a, key)
  PROVE  Shape
<1>1. TypeOK /\ TokensInOrder /\ ArraysOnlyInMaps /\ StateMatchesStack
  BY DEF IInv
<1>2. CASE key > MAX_KEY /\ Refuse("BKV_KEY_OUT_OF_RANGE")
  BY <1>2 DEF Refuse, Quiet, Codes, Shape
<1>3. CASE key <= MAX_KEY /\ Rejected("SET_KEY", a.bits)
  BY <1>3, RejectedIsQuiet DEF Shape
<1>4. ASSUME key <= MAX_KEY, Accepted("SET_KEY", a.size),
             NEW t, t = ScalarToken(a, key),
             Write(a.bits, t, Overlay(buf, write_offset, t), {}),
             UNCHANGED <<nest, array_nb_elems>>
      PROVE  \E u \in Token : AddShape(u)
  <2>1. key \in 0..MAX_KEY
    BY <1>4, KeysAssumption, MaximaAreNat
  <2>2. /\ t \in Token /\ t.type \notin Openers \cup Closers
        /\ t.type = a.type /\ t.size = a.size /\ t.len = a.len /\ a.bits \in Nat
    BY <1>4, <2>1, ScalarTokenType
  <2>3. write_offset + t.size <= MaxBytes
    BY <1>4, <2>2 DEF Accepted
  <2>4. array_nb_elems' \in [Depths -> Nat]
    BY <1>1, <1>4 DEF TypeOK
  <2>5. Appends(t) /\ buf' = Overlay(buf, write_offset, t)
    BY <1>1, <1>4, <2>2, <2>3, <2>4, WriteType DEF Appends
  <2>6. state = "STATE_IN_MAP"
    BY <1>4 DEF Accepted, CheckState
  <2>7. deep_offset >= 0
    BY <1>1, <2>6, TopType DEF StateMatchesStack
  <2>8. QED
    BY <1>4, <2>2, <2>5, <2>7 DEF AddShape
<1>5. QED
  BY <1>2, <1>3, <1>4 DEF KvAdd, Shape

(* bkv_kv_array_*_add is refused or adds a scalar.                         *)
LEMMA ArrayAddShape ==
  ASSUME IInv, NEW a \in ArrayAdds, ArrayAdd(a)
  PROVE  Shape
<1>1. TypeOK /\ TokensInOrder /\ ArraysOnlyInMaps /\ StateMatchesStack
  BY DEF IInv
<1>2. CASE Rejected("SET_ARRAY_KEY", a.bits)
  BY <1>2, RejectedIsQuiet DEF Shape
<1>3. ASSUME Accepted("SET_ARRAY_KEY", a.size),
             NEW t, t = ScalarToken(a, BKV_ARRAY_KEY),
             Write(a.bits, t, Overlay(buf, write_offset, t), {}),
             array_nb_elems' = IF a.counted
                               THEN [array_nb_elems EXCEPT ![deep_offset] = @ + 1]
                               ELSE array_nb_elems,
             UNCHANGED nest
      PROVE  \E u \in Token : AddShape(u)
  <2>1. BKV_ARRAY_KEY \in 0..MAX_KEY
    BY MaximaAreNat DEF BKV_ARRAY_KEY
  <2>2. /\ t \in Token /\ t.type \notin Openers \cup Closers
        /\ t.type = a.type /\ t.size = a.size /\ t.len = a.len /\ a.bits \in Nat
    BY <1>3, <2>1, ScalarTokenType
  <2>3. write_offset + t.size <= MaxBytes
    BY <1>3, <2>2 DEF Accepted
  <2>4. array_nb_elems' \in [Depths -> Nat]
    <3>1. array_nb_elems \in [Depths -> Nat]
      BY <1>1 DEF TypeOK
    <3>2. [array_nb_elems EXCEPT ![deep_offset] = @ + 1] \in [Depths -> Nat]
      <4>1. deep_offset \in Depths => array_nb_elems[deep_offset] + 1 \in Nat
        BY <3>1
      <4> DEFINE n == array_nb_elems[deep_offset] + 1
      <4> HIDE DEF n
      <4>2. [array_nb_elems EXCEPT ![deep_offset] = n] \in [Depths -> Nat]
        BY <3>1, <4>1 DEF n
      <4>3. QED
        BY <4>2 DEF n
    <3>3. CASE a.counted
      BY <1>3, <3>2, <3>3
    <3>4. CASE ~a.counted
      BY <1>3, <3>1, <3>4
    <3>5. QED
      BY <3>3, <3>4
  <2>5. Appends(t) /\ buf' = Overlay(buf, write_offset, t)
    BY <1>1, <1>3, <2>2, <2>3, <2>4, WriteType DEF Appends
  <2>6. state = "STATE_IN_ARRAY"
    BY <1>3 DEF Accepted, CheckState
  <2>7. deep_offset >= 0
    BY <1>1, <2>6, TopType DEF StateMatchesStack
  <2>8. QED
    BY <1>3, <2>2, <2>5, <2>7 DEF AddShape
<1>4. QED
  BY <1>2, <1>3 DEF ArrayAdd, Shape

(* A key of twelve bits leaves the type nibble alone.                      *)
LEMMA HdrTypeKept ==
  ASSUME KeysFit, NEW type, NEW key \in OpenKeys PROVE HdrType(type, key) = type
<1>1. key <= MAX_KEY
  BY MaximaAreNat DEF KeysFit
<1>2. QED
  BY <1>1 DEF HdrType

(* The token of an opening call.                                           *)
LEMMA OpenTokenType ==
  ASSUME NEW type \in {HDR_TYPE_MAP_OPEN, HDR_TYPE_ARRAY_OPEN}, NEW key \in OpenKeys,
         NEW size \in Nat \ {0}, NEW len \in 0..UINT16_MAX, NEW nb \in 0..UINT16_MAX
  PROVE  [type |-> HdrType(type, key), key |-> HdrKey(key), size |-> size,
          len |-> len, nb |-> nb] \in Token
<1>1. key \in Nat /\ key >= 0
  BY KeysAssumption, MaximaAreNat
<1>2. HdrKey(key) \in 0..MAX_KEY
  BY <1>1, HdrKeyRange
<1>3. OrNibble(type, key \div (MAX_KEY + 1)) \in Nat
  BY DEF OrNibble
<1>4. HdrType(type, key) \in Nat
  BY <1>3 DEF HdrType, HDR_TYPE_MAP_OPEN, HDR_TYPE_ARRAY_OPEN
<1>5. QED
  BY <1>2, <1>4 DEF Token

(* Uninitialised header fields are 16-bit values.                          *)
LEMMA UninitType ==
  ASSUME NEW len \in Uninit(write_offset) PROVE len \in 0..UINT16_MAX
BY ConstantTypes, MaximaAreNat DEF Uninit

(* bkv_kv_map_open is refused or opens a map.                              *)
LEMMA MapOpenShape ==
  ASSUME IInv, NEW key \in OpenKeys, MapOpen(key)
  PROVE  Shape
<1>1. TypeOK /\ TokensInOrder /\ ArraysOnlyInMaps /\ StateMatchesStack
  BY DEF IInv
<1>2. CASE Rejected("OPEN_MAP", 32)
  BY <1>2, RejectedIsQuiet DEF Shape
<1>3. ASSUME NEW len \in Uninit(write_offset),
             NEW t, t = [type |-> HdrType(HDR_TYPE_MAP_OPEN, key), key |-> HdrKey(key),
                         size |-> HDR_SIZE + MAP_OPEN_VALUE_SIZE, len |-> len, nb |-> 0],
             Accepted("OPEN_MAP", t.size), RoomToPush,
             Write(32, t, Overlay(buf, write_offset, t), {}),
             Push("MAP_KEY", "STATE_IN_MAP"), UNCHANGED array_nb_elems
      PROVE  \E u \in Token, v \in {"MAP_KEY", "ARRAY_KEY"} : OpenShape(u, v)
  <2>1. len \in 0..UINT16_MAX /\ 0 \in 0..UINT16_MAX
    BY UninitType, MaximaAreNat
  <2>2. HDR_SIZE + MAP_OPEN_VALUE_SIZE \in Nat \ {0}
    BY DEF HDR_SIZE, MAP_OPEN_VALUE_SIZE
  <2>3. t \in Token
    BY <1>3, <2>1, <2>2, OpenTokenType
  <2>4. write_offset + t.size <= MaxBytes
    BY <1>3 DEF Accepted
  <2>5. array_nb_elems' \in [Depths -> Nat]
    BY <1>1, <1>3 DEF TypeOK
  <2>6. Appends(t) /\ buf' = Overlay(buf, write_offset, t)
    BY <1>1, <1>3, <2>3, <2>4, <2>5, WriteType DEF Appends
  <2>7. deep_offset = -1 => state = "STATE_INIT"
    BY <1>1, <1>3, TopType DEF Accepted, CheckState, StateMatchesStack
  <2>8. KeysFit => t.type = OpenerOf("MAP_KEY")
    BY <1>3, HdrTypeKept DEF OpenerOf
  <2>9. OpenShape(t, "MAP_KEY")
    BY <1>3, <2>6, <2>7, <2>8 DEF OpenShape, RoomToPush, OpenerSize
  <2>10. QED
    BY <2>3, <2>9
<1>4. QED
  BY <1>2, <1>3 DEF MapOpen, Shape

(* bkv_kv_array_open is refused or opens an array.                         *)
LEMMA ArrayOpenShape ==
  ASSUME IInv, NEW key \in OpenKeys, ArrayOpen(key)
  PROVE  Shape
<1>1. TypeOK /\ TokensInOrder /\ ArraysOnlyInMaps /\ StateMatchesStack
  BY DEF IInv
<1>2. CASE Rejected("OPEN_ARRAY", 16)
  BY <1>2, RejectedIsQuiet DEF Shape
<1>3. ASSUME NEW len \in Uninit(write_offset),
             NEW t, t = [type |-> HdrType(HDR_TYPE_ARRAY_OPEN, key), key |-> HdrKey(key),
                         size |-> HDR_SIZE + ARRAY_OPEN_VALUE_SIZE, len |-> len,
                         nb |-> len],
             Accepted("OPEN_ARRAY", t.size), RoomToPush,
             Write(16, t, Overlay(buf, write_offset, t), {}),
             Push("ARRAY_KEY", "STATE_IN_ARRAY"), UNCHANGED array_nb_elems
      PROVE  \E u \in Token, v \in {"MAP_KEY", "ARRAY_KEY"} : OpenShape(u, v)
  <2>1. len \in 0..UINT16_MAX
    BY UninitType
  <2>2. HDR_SIZE + ARRAY_OPEN_VALUE_SIZE \in Nat \ {0}
    BY DEF HDR_SIZE, ARRAY_OPEN_VALUE_SIZE
  <2>3. t \in Token
    BY <1>3, <2>1, <2>2, OpenTokenType
  <2>4. write_offset + t.size <= MaxBytes
    BY <1>3 DEF Accepted
  <2>5. array_nb_elems' \in [Depths -> Nat]
    BY <1>1, <1>3 DEF TypeOK
  <2>6. Appends(t) /\ buf' = Overlay(buf, write_offset, t)
    BY <1>1, <1>3, <2>3, <2>4, <2>5, WriteType DEF Appends
  <2>7. Top = "MAP_KEY" /\ deep_offset # -1
    BY <1>1, <1>3, TopType DEF Accepted, CheckState, StateMatchesStack
  <2>8. KeysFit => t.type = OpenerOf("ARRAY_KEY")
    BY <1>3, HdrTypeKept DEF OpenerOf
  <2>9. OpenShape(t, "ARRAY_KEY")
    BY <1>3, <2>6, <2>7, <2>8 DEF OpenShape, RoomToPush, OpenerSize
  <2>10. QED
    BY <2>3, <2>9
<1>4. QED
  BY <1>2, <1>3 DEF ArrayOpen, Shape

(* A close patches the header the stack points at, which is in the buffer. *)
LEMMA OpenHeaderWritten ==
  ASSUME IInv, deep_offset >= 0
  PROVE  /\ OpenHeader \in DOMAIN buf
         /\ buf[OpenHeader] \in Token
         /\ OpenHeader \in 0..MaxBytes
<1>1. TypeOK /\ ArraysOnlyInMaps /\ StackPointsAtHeaders
  BY DEF IInv
<1>2. deep_offset \in 0..deep_offset
  <2>1. deep_offset \in Int
    BY <1>1, TopType
  <2>2. QED
    BY <2>1
<1>3. OpenHeader \in DOMAIN buf
  BY <1>1, <1>2 DEF StackPointsAtHeaders, OpenHeader
<1>4. QED
  BY <1>1, <1>3 DEF TypeOK

(* The length that a close stores fits its field.                          *)
LEMMA SpanLengthType ==
  ASSUME IInv, deep_offset >= 0, NEW n \in Nat
  PROVE  SpanLength(n) \in 0..UINT16_MAX
<1>1. write_offset \in Nat /\ OpenHeader \in Nat /\ OpenHeader \in DOMAIN buf
  <2>1. write_offset \in 0..MaxBytes
    BY DEF IInv, TypeOK
  <2>2. QED
    BY <2>1, OpenHeaderWritten, ConstantTypes
<1>2. buf[OpenHeader] \in Token /\ OpenHeader + buf[OpenHeader].size <= write_offset
  BY <1>1, OpenHeaderWritten DEF IInv, TokensInOrder
<1>3. buf[OpenHeader].size \in Nat
  BY <1>2 DEF Token
<1>4. write_offset + n - OpenHeader \in Nat
  BY <1>1, <1>2, <1>3
<1>5. QED
  BY <1>4, U16Range DEF SpanLength, OpenHeader

(* bkv_kv_map_close is refused or closes the innermost map.                *)
LEMMA MapCloseShape ==
  ASSUME IInv, MapClose
  PROVE  Shape
<1>1. TypeOK /\ ArraysOnlyInMaps /\ StateMatchesStack
  BY DEF IInv
<1>2. CASE Rejected("CLOSE_MAP", 64)
  BY <1>2, RejectedIsQuiet DEF Shape
<1>3. ASSUME NEW t, t = MapCloseToken, Accepted("CLOSE_MAP", t.size),
             Write(64, t,
                   [Overlay(buf, write_offset, t) EXCEPT
                      ![OpenHeader].len = SpanLength(t.size)],
                   Span(OpenHeader + HDR_SIZE, 2)),
             deep_offset' = deep_offset - 1, state' = Resumed,
             UNCHANGED <<deep_value, map_offset, array_nb_elems>>
      PROVE  \E u, h \in Token : CloseShape(u, h)
  <2>1. t \in Token /\ t.type = HDR_TYPE_MAP_CLOSE /\ t.size = CloserSize(t.type)
    <3>1. 0 \in 0..UINT16_MAX /\ BKV_NO_KEY \in 0..MAX_KEY
      BY MaximaAreNat DEF BKV_NO_KEY
    <3>2. HDR_SIZE + MAP_CLOSE_VALUE_SIZE \in Nat \ {0} /\ HDR_TYPE_MAP_CLOSE \in Nat
      BY DEF HDR_SIZE, MAP_CLOSE_VALUE_SIZE, HDR_TYPE_MAP_CLOSE
    <3>3. QED
      BY <1>3, <3>1, <3>2 DEF MapCloseToken, Token, CloserSize
  <2>2. state = "STATE_IN_MAP" /\ Top = "MAP_KEY"
    BY <1>3 DEF Accepted, CheckState
  <2>3. deep_offset >= 0
    BY <1>1, <2>2, TopType
  <2>4. /\ OpenHeader \in DOMAIN Overlay(buf, write_offset, t)
        /\ Overlay(buf, write_offset, t)[OpenHeader] = buf[OpenHeader]
    BY <2>1, <2>3, OpenHeaderWritten, OverlayAtEnd DEF IInv
  <2>5. t.size \in Nat /\ SpanLength(t.size) \in 0..UINT16_MAX
    BY <2>1, <2>3, SpanLengthType DEF Token
  <2> DEFINE h == [buf[OpenHeader] EXCEPT !.len = SpanLength(t.size)]
  <2>6. /\ h \in Token /\ h.type = buf[OpenHeader].type
        /\ h.size = buf[OpenHeader].size /\ h.len = SpanLength(t.size)
    BY <2>3, <2>5, OpenHeaderWritten DEF Token
  <2>7. write_offset + t.size <= MaxBytes
    BY <1>3 DEF Accepted
  <2>8. array_nb_elems' \in [Depths -> Nat]
    BY <1>1, <1>3 DEF TypeOK
  <2>9. Appends(t)
    BY <1>1, <1>3, <2>1, <2>7, <2>8, WriteType DEF Appends
  <2>10. buf' = [Overlay(buf, write_offset, t) EXCEPT ![OpenHeader] = h]
    <3>1. buf' = [Overlay(buf, write_offset, t) EXCEPT
                    ![OpenHeader].len = SpanLength(t.size)]
      BY <1>3 DEF Write
    <3>2. QED
      BY <2>4, <3>1
  <2>11. deep_value' \in [Depths -> {"MAP_KEY", "ARRAY_KEY", "0"}]
    BY <1>1, <1>3 DEF TypeOK
  <2> HIDE DEF h
  <2>12. CloseShape(t, h)
    BY <1>3, <2>1, <2>2, <2>3, <2>6, <2>9, <2>10, <2>11 DEF CloseShape, Closers
  <2>13. QED
    BY <2>1, <2>6, <2>12
<1>4. QED
  BY <1>2, <1>3 DEF MapClose, Shape

(* bkv_kv_array_close is refused or closes the innermost array.            *)
LEMMA ArrayCloseShape ==
  ASSUME IInv, ArrayClose
  PROVE  Shape
<1>1. TypeOK /\ ArraysOnlyInMaps /\ StateMatchesStack
  BY DEF IInv
<1>2. CASE Rejected("CLOSE_ARRAY", 16)
  BY <1>2, RejectedIsQuiet DEF Shape
<1>3. ASSUME NEW t, t = ArrayCloseToken, Accepted("CLOSE_ARRAY", t.size),
             Write(16, t,
                   [Overlay(buf, write_offset, t) EXCEPT
                      ![OpenHeader].len = SpanLength(t.size),
                      ![OpenHeader].nb = U16(array_nb_elems[deep_offset])],
                   Span(OpenHeader + HDR_SIZE, 4)),
             deep_value' = [deep_value EXCEPT ![deep_offset] = "0"],
             deep_offset' = deep_offset - 1,
             state' = IF deep_offset = 0 THEN state ELSE Resumed,
             UNCHANGED <<map_offset, array_nb_elems>>
      PROVE  \E u, h \in Token : CloseShape(u, h)
  <2>1. t \in Token /\ t.type = HDR_TYPE_ARRAY_CLOSE /\ t.size = CloserSize(t.type)
    <3>1. 0 \in 0..UINT16_MAX /\ BKV_NO_KEY \in 0..MAX_KEY
      BY MaximaAreNat DEF BKV_NO_KEY
    <3>2. HDR_SIZE + ARRAY_CLOSE_VALUE_SIZE \in Nat \ {0} /\ HDR_TYPE_ARRAY_CLOSE \in Nat
      BY DEF HDR_SIZE, ARRAY_CLOSE_VALUE_SIZE, HDR_TYPE_ARRAY_CLOSE
    <3>3. HDR_TYPE_ARRAY_CLOSE # HDR_TYPE_MAP_CLOSE
      BY DEF HDR_TYPE_ARRAY_CLOSE, HDR_TYPE_MAP_CLOSE
    <3>4. QED
      BY <1>3, <3>1, <3>2, <3>3 DEF ArrayCloseToken, Token, CloserSize
  <2>2. state = "STATE_IN_ARRAY" /\ Top = "ARRAY_KEY"
    BY <1>1, <1>3 DEF Accepted, CheckState, StateMatchesStack
  <2>3. deep_offset >= 0 /\ deep_offset \in Depths /\ deep_offset \in 0..deep_offset
    BY <1>1, <2>2, TopType
  <2>4. deep_value[deep_offset] = "ARRAY_KEY"
    BY <1>1, <2>2, <2>3, TopType
  <2>5. deep_offset # 0
    <3>1. deep_value[deep_offset] = "ARRAY_KEY" => deep_offset > 0
      BY <1>1, <2>3 DEF ArraysOnlyInMaps
    <3>2. QED
      BY <2>4, <3>1
  <2>6. /\ OpenHeader \in DOMAIN Overlay(buf, write_offset, t)
        /\ Overlay(buf, write_offset, t)[OpenHeader] = buf[OpenHeader]
    BY <2>1, <2>3, OpenHeaderWritten, OverlayAtEnd DEF IInv
  <2>7. t.size \in Nat /\ SpanLength(t.size) \in 0..UINT16_MAX
    BY <2>1, <2>3, SpanLengthType DEF Token
  <2> DEFINE count == U16(array_nb_elems[deep_offset])
             h == [buf[OpenHeader] EXCEPT !.len = SpanLength(t.size), !.nb = count]
  <2>8. count \in 0..UINT16_MAX
    <3>1. array_nb_elems[deep_offset] \in Nat
      BY <1>1, <2>3 DEF TypeOK
    <3>2. QED
      BY <3>1, U16Range
  <2>9. buf' = [Overlay(buf, write_offset, t) EXCEPT ![OpenHeader] = h]
    <3>1. buf' = [Overlay(buf, write_offset, t) EXCEPT
                    ![OpenHeader].len = SpanLength(t.size),
                    ![OpenHeader].nb = count]
      BY <1>3 DEF Write
    <3>2. QED
      BY <2>6, <3>1
  <2> HIDE DEF count
  <2>10. /\ h \in Token /\ h.type = buf[OpenHeader].type
         /\ h.size = buf[OpenHeader].size /\ h.len = SpanLength(t.size)
    BY <2>3, <2>7, <2>8, OpenHeaderWritten DEF Token
  <2>11. write_offset + t.size <= MaxBytes
    BY <1>3 DEF Accepted
  <2>12. array_nb_elems' \in [Depths -> Nat]
    BY <1>1, <1>3 DEF TypeOK
  <2>13. Appends(t)
    BY <1>1, <1>3, <2>1, <2>11, <2>12, WriteType DEF Appends
  <2>14. deep_value' \in [Depths -> {"MAP_KEY", "ARRAY_KEY", "0"}]
         /\ \A d \in Depths : d < deep_offset => deep_value'[d] = deep_value[d]
    <3>1. deep_value \in [Depths -> {"MAP_KEY", "ARRAY_KEY", "0"}]
      BY <1>1 DEF TypeOK
    <3>2. \A d \in Depths : d < deep_offset => d # deep_offset
      BY <2>3 DEF Depths
    <3>3. QED
      BY <1>3, <3>1, <3>2
  <2> HIDE DEF h
  <2>15. CloseShape(t, h)
    <3>1. HDR_TYPE_ARRAY_CLOSE # HDR_TYPE_MAP_CLOSE
      BY DEF HDR_TYPE_ARRAY_CLOSE, HDR_TYPE_MAP_CLOSE
    <3>2. QED
      BY <1>3, <2>1, <2>2, <2>3, <2>5, <2>9, <2>10, <2>13, <2>14, <3>1
         DEF CloseShape, Closers
  <2>16. QED
    BY <2>1, <2>10, <2>15
<1>4. QED
  BY <1>2, <1>3 DEF ArrayClose, Shape

(* Every step of the writer has one of the four shapes.                    *)
LEMMA StepShape ==
  ASSUME IInv, [Next]_vars PROVE Shape
<1>1. CASE Next
  BY <1>1, KvAddShape, ArrayAddShape, MapOpenShape, ArrayOpenShape,
     MapCloseShape, ArrayCloseShape DEF Next
<1>2. CASE UNCHANGED vars
  <2>1. ret' \in Codes
    BY <1>2 DEF vars, IInv, TypeOK
  <2>2. QED
    BY <1>2, <2>1 DEF vars, Quiet, Shape
<1>3. QED
  BY <1>1, <1>2

(***************************************************************************)
(* IInv is inductive.                                                      *)
(***************************************************************************)
(* Types every step needs, one lemma for each kind.                        *)
LEMMA OffsetTypes ==
  ASSUME IInv
  PROVE  /\ write_offset \in Nat /\ write_offset \in 0..MaxBytes
         /\ deep_offset \in Int /\ deep_offset >= -1 /\ deep_offset < MaxDepth
         /\ MaxDepth \in Nat
<1>1. write_offset \in 0..MaxBytes /\ deep_offset \in -1 .. MaxDepth - 1
  BY DEF IInv, TypeOK
<1>2. MaxBytes \in Nat /\ MaxDepth \in Nat
  BY ConstantTypes
<1>3. QED
  BY <1>1, <1>2

(* The types of the stack, out of the invariant.                           *)
LEMMA StackTypes ==
  ASSUME IInv
  PROVE  /\ deep_value \in [Depths -> {"MAP_KEY", "ARRAY_KEY", "0"}]
         /\ map_offset \in [Depths -> 0..MaxBytes]
         /\ \A d \in 0..deep_offset : d \in Depths /\ d \in Nat
<1>1. /\ deep_value \in [Depths -> {"MAP_KEY", "ARRAY_KEY", "0"}]
      /\ map_offset \in [Depths -> 0..MaxBytes]
  BY DEF IInv, TypeOK
<1>2. \A d \in 0..deep_offset : d \in Depths /\ d \in Nat
  BY OffsetTypes DEF Depths
<1>3. QED
  BY <1>1, <1>2

(* The types of the buffer, out of the invariant.                          *)
LEMMA TokenTypes ==
  ASSUME IInv
  PROVE  /\ DOMAIN buf \subseteq 0..MaxBytes /\ DOMAIN buf \subseteq Nat
         /\ \A o \in DOMAIN buf : buf[o] \in Token
         /\ \A t \in Token : t.size \in Nat /\ t.size > 0
<1>1. DOMAIN buf \subseteq 0..MaxBytes /\ buf \in [DOMAIN buf -> Token]
  BY DEF IInv, TypeOK
<1>2. DOMAIN buf \subseteq Nat
  BY <1>1, ConstantTypes
<1>3. \A t \in Token : t.size \in Nat /\ t.size > 0
  BY DEF Token
<1>4. QED
  BY <1>1, <1>2, <1>3

(* bkv_create establishes the invariant.                                   *)
LEMMA InitIInv ==
  ASSUME Init PROVE IInv
<1>1. MaxBytes \in Nat /\ MaxDepth \in Nat \ {0} /\ DefaultChunk \in Nat
  BY ConstantTypes
<1>2. TypeOK
  <2>1. 0 \in 0..MaxBytes /\ -1 \in -1 .. MaxDepth - 1 /\ mem_size \in Nat
    BY <1>1 DEF Init
  <2>2. QED
    BY <1>1, <2>1 DEF Init, TypeOK, Codes
<1>3. DOMAIN buf = {} /\ deep_offset = -1 /\ 0..deep_offset = {}
  BY DEF Init
<1>4. StateMatchesStack
  BY DEF Init, StateMatchesStack, Top, NoTop
<1>5. QED
  BY <1>2, <1>3, <1>4 DEF IInv, ArraysOnlyInMaps, TokensInOrder, StackPointsAtHeaders

(* A refused call preserves the invariant.                                 *)
LEMMA QuietPreserves ==
  ASSUME IInv, Quiet PROVE IInv'
<1>1. TypeOK'
  BY DEF IInv, TypeOK, Quiet, fixed, nest, mem
<1>2. StateMatchesStack' /\ ArraysOnlyInMaps'
  BY DEF IInv, StateMatchesStack, ArraysOnlyInMaps, Quiet, nest, mem, Top
<1>3. TokensInOrder' /\ StackPointsAtHeaders'
  BY DEF IInv, TokensInOrder, StackPointsAtHeaders, Quiet, nest, mem
<1>4. QED
  BY <1>1, <1>2, <1>3 DEF IInv

(* A token appended to a buffer in order leaves it in order, also when a   *)
(* token of the same size replaces one of the old.                         *)
LEMMA AppendKeepsOrder ==
  ASSUME IInv, NEW t \in Token, write_offset' = write_offset + t.size,
         DOMAIN buf' = DOMAIN buf \cup {write_offset},
         \A o \in DOMAIN buf : buf'[o].size = buf[o].size,
         buf'[write_offset].size = t.size
  PROVE  TokensInOrder'
<1>1. write_offset \in Nat /\ t.size \in Nat
      /\ \A o \in DOMAIN buf : o \in Nat /\ buf[o].size \in Nat /\ buf[o].size > 0
  BY OffsetTypes, TokenTypes
<1>2. /\ \A o \in DOMAIN buf : o + buf[o].size <= write_offset
      /\ \A o, p \in DOMAIN buf : o < p => o + buf[o].size <= p
  BY DEF IInv, TokensInOrder
<1>3. \A o \in DOMAIN buf' : o + buf'[o].size <= write_offset'
  BY <1>1, <1>2
<1>4. ASSUME NEW o \in DOMAIN buf', NEW p \in DOMAIN buf', o < p
      PROVE  o + buf'[o].size <= p
  <2>1. CASE o = write_offset
    <3>1. p \in DOMAIN buf
      BY <1>1, <1>4, <2>1
    <3>2. QED
      BY <1>1, <1>2, <1>4, <2>1, <3>1
  <2>2. CASE o # write_offset
    <3>1. o \in DOMAIN buf /\ buf'[o].size = buf[o].size
      BY <2>2
    <3>2. QED
      BY <1>1, <1>2, <1>4, <3>1
  <2>3. QED
    BY <2>1, <2>2
<1>5. QED
  BY <1>3, <1>4 DEF TokensInOrder

(* So does a scalar,                                                       *)
LEMMA AddPreserves ==
  ASSUME IInv, NEW t \in Token, AddShape(t) PROVE IInv'
<1>1. TypeOK /\ TokensInOrder
  BY DEF IInv
<1>2. /\ DOMAIN buf' = DOMAIN buf \cup {write_offset}
      /\ buf'[write_offset] = t
      /\ \A o \in DOMAIN buf : buf'[o] = buf[o]
      /\ buf' \in [DOMAIN buf' -> Token]
  BY <1>1, OverlayAtEnd DEF AddShape
<1>3. UNCHANGED nest /\ Appends(t)
  BY DEF AddShape
<1>4. TypeOK'
  <2>1. DOMAIN buf' \subseteq 0..MaxBytes
    BY <1>2, OffsetTypes, TokenTypes
  <2>2. QED
    BY <1>1, <1>2, <1>3, <2>1 DEF TypeOK, Appends, nest
<1>5. StateMatchesStack'
  <2>1. deep_offset # -1
    BY DEF AddShape
  <2>2. QED
    BY <1>3, <2>1 DEF IInv, StateMatchesStack, nest, Top
<1>6. ArraysOnlyInMaps'
  BY <1>3 DEF IInv, ArraysOnlyInMaps, nest
<1>7. TokensInOrder'
  <2>1. write_offset' = write_offset + t.size
    BY <1>3 DEF Appends
  <2>2. QED
    BY <1>2, <2>1, AppendKeepsOrder
<1>8. StackPointsAtHeaders'
  BY <1>2, <1>3 DEF IInv, StackPointsAtHeaders, nest
<1>9. QED
  BY <1>4, <1>5, <1>6, <1>7, <1>8 DEF IInv

(* an opening token, which makes the stack one deeper,                     *)
LEMMA OpenPreserves ==
  ASSUME IInv, NEW t \in Token, NEW v \in {"MAP_KEY", "ARRAY_KEY"}, OpenShape(t, v) PROVE IInv'
<1>1. TypeOK /\ TokensInOrder /\ ArraysOnlyInMaps /\ StackPointsAtHeaders
      /\ StateMatchesStack
  BY DEF IInv
<1>2. /\ DOMAIN buf' = DOMAIN buf \cup {write_offset}
      /\ buf'[write_offset] = t
      /\ \A o \in DOMAIN buf : buf'[o] = buf[o] /\ o < write_offset
      /\ buf' \in [DOMAIN buf' -> Token]
  BY <1>1, OverlayAtEnd DEF OpenShape
<1>3. Appends(t) /\ write_offset' = write_offset + t.size
  BY DEF OpenShape, Appends
<1> DEFINE top == deep_offset + 1
<1>4. top \in Depths /\ top >= 0 /\ top \in Int /\ top # -1 /\ top < MaxDepth
  BY OffsetTypes DEF OpenShape, Depths
<1>5. /\ deep_offset' = top
      /\ map_offset' = [map_offset EXCEPT ![top] = write_offset]
      /\ deep_value' = [deep_value EXCEPT ![top] = v]
      /\ state' = IF v = "MAP_KEY" THEN "STATE_IN_MAP" ELSE "STATE_IN_ARRAY"
  BY DEF OpenShape, Push
<1>6. deep_value'[top] = v /\ map_offset'[top] = write_offset
  BY <1>4, <1>5, StackTypes
<1>7. \A d \in 0..top : d = top \/ d \in 0..deep_offset
  BY <1>4, OffsetTypes
<1>8. \A d \in 0..deep_offset : /\ d \in Depths /\ d < top /\ d \in 0..top
                                /\ deep_value'[d] = deep_value[d]
                                /\ map_offset'[d] = map_offset[d]
  <2>1. \A d \in 0..deep_offset : d < top /\ d # top /\ d \in 0..top
    BY <1>4, OffsetTypes
  <2>2. QED
    BY <1>5, <2>1, StackTypes
<1>9. TypeOK'
  <2>1. DOMAIN buf' \subseteq 0..MaxBytes
    BY <1>2, OffsetTypes, TokenTypes
  <2>2. deep_value' \in [Depths -> {"MAP_KEY", "ARRAY_KEY", "0"}]
    BY <1>5, StackTypes
  <2>3. map_offset' \in [Depths -> 0..MaxBytes]
    BY <1>5, StackTypes, OffsetTypes
  <2>4. deep_offset' \in -1 .. MaxDepth - 1
    BY <1>4, <1>5, OffsetTypes
  <2>5. state' \in {"STATE_IN_MAP", "STATE_IN_ARRAY"}
    BY <1>5
  <2>6. QED
    BY <1>2, <1>3, <2>1, <2>2, <2>3, <2>4, <2>5 DEF TypeOK, Appends
<1>10. StateMatchesStack'
  <2>1. Top' = v
    BY <1>4, <1>5, <1>6 DEF Top
  <2>2. deep_offset' # -1
    BY <1>4, <1>5
  <2>3. QED
    BY <1>5, <2>1, <2>2 DEF StateMatchesStack
<1>11. ArraysOnlyInMaps'
  <2>1. ASSUME NEW d \in 0..deep_offset', d = top
        PROVE  /\ deep_value'[d] \in {"MAP_KEY", "ARRAY_KEY"}
               /\ deep_value'[d] = "ARRAY_KEY" => d > 0 /\ deep_value'[d - 1] = "MAP_KEY"
    <3>1. CASE v = "MAP_KEY"
      BY <1>6, <2>1, <3>1
    <3>2. CASE v = "ARRAY_KEY"
      <4>1. deep_offset # -1 /\ Top = "MAP_KEY"
        BY <3>2 DEF OpenShape
      <4>2. deep_offset \in 0..deep_offset /\ deep_value[deep_offset] = "MAP_KEY"
        BY <4>1, OffsetTypes DEF Top
      <4>3. d > 0 /\ d - 1 = deep_offset
        BY <2>1, <4>1, OffsetTypes
      <4>4. QED
        BY <1>6, <1>8, <2>1, <3>2, <4>2, <4>3
    <3>3. QED
      BY <3>1, <3>2
  <2>2. ASSUME NEW d \in 0..deep_offset', d # top
        PROVE  /\ deep_value'[d] \in {"MAP_KEY", "ARRAY_KEY"}
               /\ deep_value'[d] = "ARRAY_KEY" => d > 0 /\ deep_value'[d - 1] = "MAP_KEY"
    <3>1. d \in 0..deep_offset
      BY <1>5, <1>7, <2>2
    <3>2. d > 0 => d - 1 \in 0..deep_offset
      BY <3>1, OffsetTypes
    <3>3. /\ deep_value[d] \in {"MAP_KEY", "ARRAY_KEY"}
          /\ deep_value[d] = "ARRAY_KEY" => d > 0 /\ deep_value[d - 1] = "MAP_KEY"
      BY <1>1, <3>1 DEF ArraysOnlyInMaps
    <3>4. QED
      BY <1>8, <3>1, <3>2, <3>3
  <2>3. QED
    BY <2>1, <2>2 DEF ArraysOnlyInMaps
<1>12. TokensInOrder'
  BY <1>2, <1>3, AppendKeepsOrder
<1>13. StackPointsAtHeaders'
  <2>1. \A d \in 0..deep_offset' : map_offset'[d] \in DOMAIN buf'
    BY <1>1, <1>2, <1>5, <1>6, <1>7, <1>8 DEF StackPointsAtHeaders
  <2>2. ASSUME NEW d \in 0..deep_offset', NEW e \in 0..deep_offset', d < e
        PROVE  map_offset'[d] < map_offset'[e]
    <3>1. d \in 0..deep_offset
      BY <1>4, <1>5, <1>7, <2>2
    <3>2. map_offset[d] \in DOMAIN buf
      BY <1>1, <3>1 DEF StackPointsAtHeaders
    <3>3. CASE e = top
      BY <1>2, <1>6, <1>8, <3>1, <3>2, <3>3
    <3>4. CASE e \in 0..deep_offset
      BY <1>1, <1>8, <2>2, <3>1, <3>4 DEF StackPointsAtHeaders
    <3>5. QED
      BY <1>5, <1>7, <3>3, <3>4
  <2>3. map_offset'[0] = 0
    <3>1. CASE deep_offset = -1
      <4>1. write_offset = 0 /\ top = 0
        BY <1>1, <3>1 DEF OpenShape, StateMatchesStack
      <4>2. QED
        BY <1>6, <4>1
    <3>2. CASE deep_offset # -1
      <4>1. 0 \in 0..deep_offset
        BY <3>2, OffsetTypes
      <4>2. QED
        BY <1>1, <1>8, <4>1, OffsetTypes, <3>2 DEF StackPointsAtHeaders
    <3>3. QED
      BY <3>1, <3>2
  <2>4. QED
    BY <2>1, <2>2, <2>3 DEF StackPointsAtHeaders
<1>14. QED
  BY <1>9, <1>10, <1>11, <1>12, <1>13 DEF IInv

(* A close appends its token and replaces one header, by one of its size.  *)
LEMMA CloseBuffer ==
  ASSUME IInv, NEW t \in Token, NEW h \in Token, CloseShape(t, h)
  PROVE  /\ DOMAIN buf' = DOMAIN buf \cup {write_offset}
         /\ write_offset \notin DOMAIN buf
         /\ OpenHeader \in DOMAIN buf
         /\ buf'[write_offset] = t
         /\ buf'[OpenHeader] = h
         /\ \A o \in DOMAIN buf : o # OpenHeader => buf'[o] = buf[o]
         /\ \A o \in DOMAIN buf : buf'[o].size = buf[o].size
         /\ \A o \in DOMAIN buf : buf'[o].type = buf[o].type
         /\ buf' \in [DOMAIN buf' -> Token]
<1> DEFINE b == Overlay(buf, write_offset, t)
<1>1. OpenHeader \in DOMAIN buf
  BY OpenHeaderWritten DEF CloseShape
<1>2. /\ DOMAIN b = DOMAIN buf \cup {write_offset}
      /\ b[write_offset] = t
      /\ write_offset \notin DOMAIN buf
      /\ \A o \in DOMAIN buf : b[o] = buf[o]
      /\ b \in [DOMAIN b -> Token]
  BY OverlayAtEnd DEF IInv
<1>3. /\ buf' = [b EXCEPT ![OpenHeader] = h]
      /\ h.size = buf[OpenHeader].size /\ h.type = buf[OpenHeader].type
  BY DEF CloseShape
<1> HIDE DEF b
<1>4. DOMAIN buf' = DOMAIN b /\ buf'[OpenHeader] = h
      /\ \A o \in DOMAIN b : o # OpenHeader => buf'[o] = b[o]
  BY <1>1, <1>2, <1>3
<1>5. QED
  BY <1>1, <1>2, <1>3, <1>4

(* and a closing token, which patches the innermost header.                *)
LEMMA ClosePreserves ==
  ASSUME IInv, NEW t \in Token, NEW h \in Token, CloseShape(t, h) PROVE IInv'
<1>1. TypeOK /\ TokensInOrder /\ ArraysOnlyInMaps /\ StackPointsAtHeaders
      /\ StateMatchesStack
  BY DEF IInv
<1>2. Appends(t) /\ write_offset' = write_offset + t.size /\ deep_offset >= 0
  BY DEF CloseShape, Appends
<1>4. /\ DOMAIN buf' = DOMAIN buf \cup {write_offset}
      /\ buf'[write_offset] = t
      /\ \A o \in DOMAIN buf : buf'[o].size = buf[o].size
      /\ buf' \in [DOMAIN buf' -> Token]
  BY CloseBuffer
<1>5. deep_offset' = deep_offset - 1 /\ deep_offset' \in Int /\ map_offset' = map_offset
      /\ state' = Resumed
  BY OffsetTypes DEF CloseShape
<1>6. \A d \in 0..deep_offset' : /\ d \in 0..deep_offset /\ d - 1 < deep_offset
                                 /\ d \in Depths /\ deep_value'[d] = deep_value[d]
  <2>1. \A d \in 0..deep_offset' : d \in 0..deep_offset /\ d < deep_offset
                                   /\ d - 1 < deep_offset
    BY <1>5, OffsetTypes
  <2>2. QED
    BY <2>1, StackTypes DEF CloseShape
<1>7. TypeOK'
  <2>1. DOMAIN buf' \subseteq 0..MaxBytes
    BY <1>4, OffsetTypes, TokenTypes
  <2>2. deep_value' \in [Depths -> {"MAP_KEY", "ARRAY_KEY", "0"}]
    BY DEF CloseShape
  <2>3. map_offset' \in [Depths -> 0..MaxBytes]
    BY <1>5, StackTypes
  <2>4. deep_offset' \in -1 .. MaxDepth - 1
    BY <1>2, <1>5, OffsetTypes
  <2>5. state' \in {"STATE_TERM", "STATE_IN_MAP", "STATE_IN_ARRAY"}
    BY <1>5 DEF Resumed
  <2>6. QED
    BY <1>2, <1>4, <2>1, <2>2, <2>3, <2>4, <2>5 DEF TypeOK, Appends
<1>8. StateMatchesStack'
  <2>1. write_offset' # 0
    BY <1>2, OffsetTypes, TokenTypes
  <2>2. CASE deep_offset = 0
    BY <1>5, <2>1, <2>2 DEF StateMatchesStack, Top, NoTop, Resumed
  <2>3. CASE deep_offset # 0
    <3>1. deep_offset' # -1 /\ deep_offset' \in 0..deep_offset'
      BY <1>2, <1>5, <2>3, OffsetTypes
    <3>2. Top' = deep_value[deep_offset - 1]
      BY <1>5, <1>6, <3>1 DEF Top
    <3>3. deep_value[deep_offset - 1] \in {"MAP_KEY", "ARRAY_KEY"}
      BY <1>1, <1>5, <1>6, <3>1 DEF ArraysOnlyInMaps
    <3>4. QED
      BY <1>5, <2>1, <2>3, <3>1, <3>2, <3>3 DEF StateMatchesStack, Resumed
  <2>4. QED
    BY <2>2, <2>3
<1>9. ArraysOnlyInMaps'
  <2>1. ASSUME NEW d \in 0..deep_offset'
        PROVE  /\ deep_value'[d] \in {"MAP_KEY", "ARRAY_KEY"}
               /\ deep_value'[d] = "ARRAY_KEY" => d > 0 /\ deep_value'[d - 1] = "MAP_KEY"
    <3>1. /\ deep_value[d] \in {"MAP_KEY", "ARRAY_KEY"}
          /\ deep_value[d] = "ARRAY_KEY" => d > 0 /\ deep_value[d - 1] = "MAP_KEY"
      BY <1>1, <1>6, <2>1 DEF ArraysOnlyInMaps
    <3>2. d > 0 => d - 1 \in 0..deep_offset'
      BY <1>5, <2>1
    <3>3. QED
      BY <1>6, <2>1, <3>1, <3>2
  <2>2. QED
    BY <2>1 DEF ArraysOnlyInMaps
<1>10. TokensInOrder'
  BY <1>2, <1>4, AppendKeepsOrder
<1>11. StackPointsAtHeaders'
  <2>1. deep_offset' >= 0 => deep_offset >= 0
    BY <1>2
  <2>2. QED
    BY <1>1, <1>4, <1>5, <1>6, <2>1 DEF StackPointsAtHeaders
<1>12. QED
  BY <1>7, <1>8, <1>9, <1>10, <1>11 DEF IInv

(* IInv is an invariant: the first calls establish it, every call keeps it.*)
THEOREM Inductive == Spec => []IInv
<1>1. Init => IInv
  BY InitIInv
<1>2. IInv /\ [Next]_vars => IInv'
  BY StepShape, QuietPreserves, AddPreserves, OpenPreserves, ClosePreserves DEF Shape
<1>3. QED
  BY <1>1, <1>2, PTL DEF Spec

(* Whatever the client calls in whatever order, with whatever chunk sizes, *)
(* keys and allocation failures, the fields of the handle keep their types *)
(* and bounds (bkv.c:40-57).                                               *)
THEOREM TypeCorrect == Spec => []TypeOK
<1>1. IInv => TypeOK
  BY DEF IInv
<1>2. QED
  BY <1>1, Inductive, PTL

(* The state that admits calls and the stack that closes resume agree in   *)
(* every reachable handle.                                                 *)
THEOREM StateFollowsStack == Spec => []StateMatchesStack
<1>1. IInv => StateMatchesStack
  BY DEF IInv
<1>2. QED
  BY <1>1, Inductive, PTL

(* The assert(-1) of bkv_kv_array_close (bkv.c:752) is never reached: no   *)
(* array is outermost, and an array is always directly inside a map.       *)
THEOREM NoOutermostArray == Spec => []ArraysOnlyInMaps
<1>1. IInv => ArraysOnlyInMaps
  BY DEF IInv
<1>2. QED
  BY <1>1, Inductive, PTL

(***************************************************************************)
(* The lengths that a close patches into the header of its container, for  *)
(* keys of twelve bits and documents whose size fits a 16-bit length.      *)
(***************************************************************************)

(* The header on the stack is of the kind that deep_value[] remembers.     *)
HeadersMatch ==
  \A d \in 0..deep_offset : buf[map_offset[d]].type = OpenerOf(deep_value[d])

LInv ==
  /\ IInv
  /\ HeadersMatch
  /\ LengthsDelimit
  /\ ClosedIsWhole

(***************************************************************************)
(* Which containers are open before and after each shape.                  *)
(***************************************************************************)
LEMMA TypesDiffer ==
  /\ \A type \in Openers : type \notin Closers
  /\ HDR_TYPE_MAP_OPEN # HDR_TYPE_ARRAY_OPEN
  /\ OpenerOf("MAP_KEY") \in Openers /\ OpenerOf("ARRAY_KEY") \in Openers
BY DEF Openers, Closers, OpenerOf, HDR_TYPE_MAP_OPEN, HDR_TYPE_MAP_CLOSE,
       HDR_TYPE_ARRAY_OPEN, HDR_TYPE_ARRAY_CLOSE

(* The top of the stack is open.                                           *)
LEMMA HeaderIsOpen ==
  ASSUME IInv, HeadersMatch, deep_offset >= 0
  PROVE  /\ IsOpen(OpenHeader)
         /\ OpenHeader \in Containers
         /\ buf[OpenHeader].type = OpenerOf(Top)
         /\ Top \in {"MAP_KEY", "ARRAY_KEY"}
<1>1. deep_offset \in 0..deep_offset /\ deep_offset # -1
  BY OffsetTypes
<1>2. Top = deep_value[deep_offset]
  BY <1>1 DEF Top
<1>3. Top \in {"MAP_KEY", "ARRAY_KEY"}
  BY <1>1, <1>2 DEF IInv, ArraysOnlyInMaps
<1>4. buf[OpenHeader].type = OpenerOf(Top)
  BY <1>1, <1>2 DEF HeadersMatch, OpenHeader
<1>5. OpenerOf(Top) \in Openers
  BY <1>3, TypesDiffer
<1>6. OpenHeader \in Containers
  BY <1>4, <1>5, OpenHeaderWritten DEF Containers
<1>7. IsOpen(OpenHeader)
  BY <1>1 DEF IsOpen, OpenHeader
<1>8. QED
  BY <1>3, <1>4, <1>6, <1>7

(* A scalar opens and closes nothing.                                      *)
LEMMA AddKeepsContainers ==
  ASSUME IInv, NEW t \in Token, AddShape(t)
  PROVE  /\ Containers' = Containers
         /\ \A o \in DOMAIN buf : o \in DOMAIN buf' /\ buf'[o] = buf[o]
         /\ \A o : IsOpen(o)' <=> IsOpen(o)
         /\ write_offset' >= write_offset
<1>1. /\ DOMAIN buf' = DOMAIN buf \cup {write_offset}
      /\ buf'[write_offset] = t /\ write_offset \notin DOMAIN buf
      /\ \A o \in DOMAIN buf : buf'[o] = buf[o]
  BY OverlayAtEnd DEF IInv, AddShape
<1>2. Containers' = Containers
  BY <1>1 DEF Containers, AddShape
<1>3. \A o : IsOpen(o)' <=> IsOpen(o)
  BY DEF IsOpen, AddShape, nest
<1>4. write_offset' = write_offset + t.size
  BY DEF AddShape, Appends
<1>5. write_offset' >= write_offset
  BY <1>4, OffsetTypes, TokenTypes
<1>6. QED
  BY <1>1, <1>2, <1>3, <1>5

(* An opening token adds one container, open, at the end.                  *)
LEMMA OpenAddsContainer ==
  ASSUME IInv, KeysFit, NEW t \in Token, NEW v \in {"MAP_KEY", "ARRAY_KEY"},
         OpenShape(t, v)
  PROVE  /\ Containers' = Containers \cup {write_offset}
         /\ \A o \in DOMAIN buf :
              o \in DOMAIN buf' /\ buf'[o] = buf[o] /\ o < write_offset
         /\ \A o \in DOMAIN buf : IsOpen(o)' <=> IsOpen(o)
         /\ \A o : o = write_offset => IsOpen(o)'
         /\ buf'[write_offset] = t /\ t.type = OpenerOf(v)
         /\ deep_offset' = deep_offset + 1
         /\ map_offset'[deep_offset'] = write_offset
         /\ deep_value'[deep_offset'] = v
         /\ \A d \in 0..deep_offset : /\ d \in 0..deep_offset'
                                      /\ map_offset'[d] = map_offset[d]
                                      /\ deep_value'[d] = deep_value[d]
         /\ \A d \in 0..deep_offset' : d = deep_offset' \/ d \in 0..deep_offset
         /\ write_offset' >= write_offset
<1>1. /\ DOMAIN buf' = DOMAIN buf \cup {write_offset}
      /\ buf'[write_offset] = t /\ write_offset \notin DOMAIN buf
      /\ \A o \in DOMAIN buf : buf'[o] = buf[o] /\ o < write_offset
  BY OverlayAtEnd DEF IInv, OpenShape
<1>2. t.type = OpenerOf(v) /\ t.type \in Openers
  BY TypesDiffer DEF OpenShape
<1>3. Containers' = Containers \cup {write_offset}
  BY <1>1, <1>2 DEF Containers
<1> DEFINE top == deep_offset + 1
<1>4. /\ top \in Depths /\ top \in Int /\ top >= 0
      /\ \A d \in 0..deep_offset : d # top /\ d \in 0..top
      /\ \A d \in 0..top : d = top \/ d \in 0..deep_offset
  BY OffsetTypes DEF OpenShape, Depths
<1>5. /\ deep_offset' = top
      /\ map_offset' = [map_offset EXCEPT ![top] = write_offset]
      /\ deep_value' = [deep_value EXCEPT ![top] = v]
  BY DEF OpenShape, Push
<1>6. /\ map_offset'[top] = write_offset /\ deep_value'[top] = v
      /\ \A d \in 0..deep_offset :
           map_offset'[d] = map_offset[d] /\ deep_value'[d] = deep_value[d]
  BY <1>4, <1>5, StackTypes
<1>7. top \in 0..top
  BY <1>4
<1>8. \A o : o = write_offset => IsOpen(o)'
  BY <1>5, <1>6, <1>7 DEF IsOpen
<1>9. \A o \in DOMAIN buf : IsOpen(o)' <=> IsOpen(o)
  BY <1>1, <1>4, <1>5, <1>6 DEF IsOpen
<1>10. write_offset' = write_offset + t.size
  BY DEF OpenShape, Appends
<1>11. write_offset' >= write_offset
  BY <1>10, OffsetTypes, TokenTypes
<1>12. QED
  BY <1>1, <1>2, <1>3, <1>4, <1>5, <1>6, <1>8, <1>9, <1>11

(* A closing token shuts the innermost container only.                     *)
LEMMA CloseShutsHeader ==
  ASSUME IInv, HeadersMatch, NEW t \in Token, NEW h \in Token, CloseShape(t, h)
  PROVE  /\ Containers' = Containers
         /\ \A o : IsOpen(o)' <=> IsOpen(o) /\ o # OpenHeader
         /\ \A o \in Containers : IsOpen(o) => o <= OpenHeader
         /\ t.type = CloserOf(buf[OpenHeader].type)
         /\ \A d \in 0..deep_offset' :
              /\ d \in 0..deep_offset /\ map_offset'[d] = map_offset[d]
              /\ deep_value'[d] = deep_value[d]
              /\ map_offset[d] # OpenHeader
<1>1. deep_offset >= 0 /\ deep_offset' = deep_offset - 1 /\ map_offset' = map_offset
      /\ t.type \in Closers
  BY DEF CloseShape
<1>2. /\ \A d \in 0..deep_offset' : d \in 0..deep_offset /\ d < deep_offset
      /\ \A d \in 0..deep_offset : d = deep_offset \/ d \in 0..deep_offset'
      /\ deep_offset \in 0..deep_offset
  BY <1>1, OffsetTypes
<1>3. \A d, e \in 0..deep_offset :
        /\ map_offset[d] \in DOMAIN buf
        /\ d < e => map_offset[d] < map_offset[e]
  BY DEF IInv, StackPointsAtHeaders
<1>4. \A d \in 0..deep_offset : map_offset[d] \in Nat
  BY <1>3, TokenTypes
<1>5. \A d \in 0..deep_offset' : map_offset[d] < OpenHeader /\ map_offset[d] # OpenHeader
  BY <1>2, <1>3, <1>4 DEF OpenHeader
<1>6. \A d \in 0..deep_offset' : deep_value'[d] = deep_value[d]
  <2>1. \A d \in 0..deep_offset' : d \in Depths
    BY <1>2, StackTypes
  <2>2. QED
    BY <1>2, <2>1 DEF CloseShape
<1>7. \A o : IsOpen(o)' <=> IsOpen(o) /\ o # OpenHeader
  BY <1>1, <1>2, <1>5 DEF IsOpen, OpenHeader
<1>8. \A o \in Containers : IsOpen(o) => o <= OpenHeader
  <2>1. SUFFICES ASSUME NEW d \in 0..deep_offset PROVE map_offset[d] <= OpenHeader
    BY DEF IsOpen
  <2>2. CASE d = deep_offset
    BY <1>4, <2>2 DEF OpenHeader
  <2>3. CASE d \in 0..deep_offset'
    BY <1>2, <1>4, <1>5, <2>3 DEF OpenHeader
  <2>4. QED
    BY <1>2, <2>2, <2>3
<1>9. Containers' = Containers
  <2>1. /\ DOMAIN buf' = DOMAIN buf \cup {write_offset}
        /\ buf'[write_offset] = t /\ write_offset \notin DOMAIN buf
        /\ \A o \in DOMAIN buf : buf'[o].type = buf[o].type
    BY CloseBuffer
  <2>2. t.type \notin Openers
    BY <1>1, TypesDiffer
  <2>3. QED
    BY <2>1, <2>2 DEF Containers
<1>10. t.type = CloserOf(buf[OpenHeader].type)
  <2>1. buf[OpenHeader].type = OpenerOf(Top) /\ Top \in {"MAP_KEY", "ARRAY_KEY"}
    BY <1>1, HeaderIsOpen
  <2>2. Top = IF t.type = HDR_TYPE_MAP_CLOSE THEN "MAP_KEY" ELSE "ARRAY_KEY"
    BY DEF CloseShape
  <2>3. QED
    BY <1>1, <2>1, <2>2, TypesDiffer DEF Closers, CloserOf, OpenerOf
<1>11. QED
  BY <1>1, <1>2, <1>5, <1>6, <1>7, <1>8, <1>9, <1>10

(***************************************************************************)
(* LInv is inductive.                                                      *)
(***************************************************************************)
(* What LengthsDelimit says of one closed container.                       *)
Delimits(o) ==
  /\ o + buf[o].len <= write_offset
  /\ \E c \in DOMAIN buf :
       /\ buf[c].type = CloserOf(buf[o].type)
       /\ c + buf[c].size = o + buf[o].len
  /\ \A p \in Containers : IsOpen(p) => p < o \/ o + buf[o].len <= p

(* LengthsDelimit, one container at a time.                                *)
LEMMA LengthsByContainer ==
  LengthsDelimit <=> \A o \in Containers : ~IsOpen(o) => Delimits(o)
BY DEF LengthsDelimit, Delimits

(* A closed container whose header is untouched stays delimited, if the    *)
(* containers opened since start past what was written.                    *)
LEMMA DelimitsKept ==
  ASSUME IInv, NEW o \in Containers, Delimits(o),
         buf'[o] = buf[o], write_offset' \in Nat, write_offset' >= write_offset,
         \A c \in DOMAIN buf : /\ c \in DOMAIN buf'
                               /\ buf'[c].type = buf[c].type
                               /\ buf'[c].size = buf[c].size,
         \A p \in Containers' :
           IsOpen(p)' => (p \in Containers /\ IsOpen(p)) \/ p = write_offset
  PROVE  Delimits(o)'
<1>1. o \in Nat /\ buf[o].len \in Nat /\ write_offset \in Nat
  <2>1. o \in DOMAIN buf
    BY DEF Containers
  <2>2. buf[o].len \in 0..UINT16_MAX
    BY <2>1, TokenTypes DEF Token
  <2>3. QED
    BY <2>1, <2>2, TokenTypes, OffsetTypes, MaximaAreNat
<1>2. o + buf'[o].len <= write_offset'
  BY <1>1 DEF Delimits
<1>3. \E c \in DOMAIN buf' : /\ buf'[c].type = CloserOf(buf'[o].type)
                             /\ c + buf'[c].size = o + buf'[o].len
  BY DEF Delimits
<1>4. \A p \in Containers' : IsOpen(p)' => p < o \/ o + buf'[o].len <= p
  BY <1>1 DEF Delimits
<1>5. QED
  BY <1>2, <1>3, <1>4 DEF Delimits, CloserOf

(* The empty document satisfies the invariant.                             *)
LEMMA InitLInv ==
  ASSUME Init PROVE LInv
<1>1. DOMAIN buf = {} /\ deep_offset = -1 /\ 0..deep_offset = {}
  BY DEF Init
<1>2. HeadersMatch /\ LengthsDelimit
  BY <1>1 DEF HeadersMatch, LengthsDelimit, Containers
<1>3. ClosedIsWhole
  BY DEF Init, ClosedIsWhole
<1>4. QED
  BY <1>2, <1>3, InitIInv DEF LInv

(* A refused call keeps the lengths.                                       *)
LEMMA QuietKeepsLengths ==
  ASSUME LInv, Quiet PROVE HeadersMatch' /\ LengthsDelimit' /\ ClosedIsWhole'
<1>1. HeadersMatch'
  BY DEF LInv, HeadersMatch, Quiet, nest, mem
<1>2. LengthsDelimit'
  BY DEF LInv, LengthsDelimit, Containers, IsOpen, Quiet, nest, mem
<1>3. ClosedIsWhole'
  BY DEF LInv, ClosedIsWhole, Quiet, nest, mem
<1>4. QED
  BY <1>1, <1>2, <1>3

(* A scalar keeps them: it lies past every closed container.               *)
LEMMA AddKeepsLengths ==
  ASSUME LInv, NEW t \in Token, AddShape(t)
  PROVE  HeadersMatch' /\ LengthsDelimit' /\ ClosedIsWhole'
<1>1. IInv /\ IInv'
  BY AddPreserves DEF LInv
<1>2. /\ Containers' = Containers
      /\ \A o \in DOMAIN buf : o \in DOMAIN buf' /\ buf'[o] = buf[o]
      /\ \A o : IsOpen(o)' <=> IsOpen(o)
      /\ write_offset' >= write_offset
  BY <1>1, AddKeepsContainers
<1>3. HeadersMatch'
  BY <1>1, <1>2 DEF LInv, HeadersMatch, IInv, StackPointsAtHeaders, AddShape, nest
<1>4. LengthsDelimit'
  <2>1. ASSUME NEW o \in Containers', ~IsOpen(o)' PROVE Delimits(o)'
    <3>1. o \in Containers /\ Delimits(o) /\ buf'[o] = buf[o]
      BY <1>2, <2>1, LengthsByContainer DEF LInv, Containers
    <3>2. write_offset' \in Nat
      BY <1>1 DEF IInv, TypeOK
    <3>3. QED
      BY <1>1, <1>2, <3>1, <3>2, DelimitsKept
  <2>2. QED
    BY <2>1 DEF LengthsDelimit, Delimits
<1>5. ClosedIsWhole'
  <2>1. deep_offset # -1 /\ deep_offset' = deep_offset /\ state' = state
    BY DEF AddShape, nest
  <2>2. state # "STATE_TERM"
    <3>1. Top \in {"MAP_KEY", "ARRAY_KEY"}
      BY <1>1, HeaderIsOpen DEF AddShape, LInv
    <3>2. QED
      BY <1>1, <3>1 DEF IInv, StateMatchesStack
  <2>3. QED
    BY <2>1, <2>2 DEF ClosedIsWhole
<1>6. QED
  BY <1>3, <1>4, <1>5

(* So does an opening token.                                               *)
LEMMA OpenKeepsLengths ==
  ASSUME LInv, KeysFit, NEW t \in Token, NEW v \in {"MAP_KEY", "ARRAY_KEY"},
         OpenShape(t, v)
  PROVE  HeadersMatch' /\ LengthsDelimit' /\ ClosedIsWhole'
<1>1. IInv /\ IInv'
  BY OpenPreserves DEF LInv
<1>2. /\ Containers' = Containers \cup {write_offset}
      /\ \A o \in DOMAIN buf :
           o \in DOMAIN buf' /\ buf'[o] = buf[o] /\ o < write_offset
      /\ \A o \in DOMAIN buf : IsOpen(o)' <=> IsOpen(o)
      /\ \A o : o = write_offset => IsOpen(o)'
      /\ write_offset' >= write_offset
  BY <1>1, OpenAddsContainer
<1>3. HeadersMatch'
  <2>1. ASSUME NEW d \in 0..deep_offset'
        PROVE  buf'[map_offset'[d]].type = OpenerOf(deep_value'[d])
    <3>1. CASE d = deep_offset'
      BY <1>1, <3>1, OpenAddsContainer
    <3>2. CASE d \in 0..deep_offset
      <4>1. map_offset'[d] = map_offset[d] /\ deep_value'[d] = deep_value[d]
        BY <1>1, <3>2, OpenAddsContainer
      <4>2. map_offset[d] \in DOMAIN buf
        BY <1>1, <3>2 DEF IInv, StackPointsAtHeaders
      <4>3. QED
        BY <1>2, <3>2, <4>1, <4>2 DEF LInv, HeadersMatch
    <3>3. QED
      BY <1>1, <2>1, <3>1, <3>2, OpenAddsContainer
  <2>2. QED
    BY <2>1 DEF HeadersMatch
<1>4. LengthsDelimit'
  <2>1. ASSUME NEW o \in Containers', ~IsOpen(o)' PROVE Delimits(o)'
    <3>1. o \in Containers /\ o \in DOMAIN buf
      BY <1>2, <2>1 DEF Containers
    <3>2. Delimits(o) /\ buf'[o] = buf[o]
      BY <1>2, <2>1, <3>1, LengthsByContainer DEF LInv
    <3>3. write_offset' \in Nat
      BY <1>1 DEF IInv, TypeOK
    <3>4. \A p \in Containers' :
            IsOpen(p)' => (p \in Containers /\ IsOpen(p)) \/ p = write_offset
      BY <1>2 DEF Containers
    <3>5. QED
      BY <1>1, <1>2, <3>1, <3>2, <3>3, <3>4, DelimitsKept
  <2>2. QED
    BY <2>1 DEF LengthsDelimit, Delimits
<1>5. ClosedIsWhole'
  BY DEF ClosedIsWhole, OpenShape, Push
<1>6. QED
  BY <1>3, <1>4, <1>5

(* The length a close stores reaches exactly to the end of its token.      *)
LEMMA SpanLengthExact ==
  ASSUME IInv, MaxBytes <= UINT16_MAX, NEW t \in Token, NEW h \in Token,
         CloseShape(t, h)
  PROVE  /\ h.len \in Nat
         /\ OpenHeader \in Nat
         /\ OpenHeader + h.len = write_offset'
         /\ write_offset + t.size = write_offset'
         /\ write_offset' \in Nat /\ write_offset' >= write_offset
<1>1. /\ write_offset' = write_offset + t.size /\ write_offset' \in 0..MaxBytes
      /\ h.len = SpanLength(t.size) /\ deep_offset >= 0
  BY DEF CloseShape, Appends
<1>2. OpenHeader \in DOMAIN buf /\ OpenHeader \in Nat /\ write_offset \in Nat
      /\ t.size \in Nat /\ t.size > 0
  BY <1>1, OpenHeaderWritten, TokenTypes, OffsetTypes
<1>3. OpenHeader + buf[OpenHeader].size <= write_offset /\ buf[OpenHeader].size \in Nat
  BY <1>2, TokenTypes DEF IInv, TokensInOrder
<1> DEFINE n == write_offset + t.size - OpenHeader
<1>4. MaxBytes \in Nat /\ write_offset' <= MaxBytes
  BY <1>1, ConstantTypes
<1>5. n \in Nat /\ n <= UINT16_MAX
  BY <1>1, <1>2, <1>3, <1>4, MaximaAreNat
<1>6. h.len = n
  <2>1. U16(n) = n
    BY <1>5, MaximaAreNat, U16Identity
  <2>2. QED
    BY <1>1, <2>1 DEF SpanLength, OpenHeader
<1>7. QED
  BY <1>1, <1>2, <1>5, <1>6

(* A closing token makes the header it patches lead past itself.           *)
LEMMA CloseKeepsLengths ==
  ASSUME LInv, MaxBytes <= UINT16_MAX, NEW t \in Token, NEW h \in Token,
         CloseShape(t, h)
  PROVE  HeadersMatch' /\ LengthsDelimit' /\ ClosedIsWhole'
<1>1. IInv /\ IInv' /\ HeadersMatch /\ deep_offset >= 0
  BY ClosePreserves DEF LInv, CloseShape
<1>2. /\ Containers' = Containers
      /\ \A o : IsOpen(o)' <=> IsOpen(o) /\ o # OpenHeader
      /\ \A o \in Containers : IsOpen(o) => o <= OpenHeader
      /\ t.type = CloserOf(buf[OpenHeader].type)
  BY <1>1, CloseShutsHeader
<1>3. /\ DOMAIN buf' = DOMAIN buf \cup {write_offset}
      /\ OpenHeader \in DOMAIN buf
      /\ buf'[write_offset] = t /\ buf'[OpenHeader] = h
      /\ \A o \in DOMAIN buf : o # OpenHeader => buf'[o] = buf[o]
      /\ \A o \in DOMAIN buf : buf'[o].size = buf[o].size
      /\ \A o \in DOMAIN buf : buf'[o].type = buf[o].type
  BY <1>1, CloseBuffer
<1>4. /\ h.len \in Nat /\ OpenHeader \in Nat
      /\ OpenHeader + h.len = write_offset'
      /\ write_offset + t.size = write_offset'
      /\ write_offset' \in Nat /\ write_offset' >= write_offset
  BY <1>1, SpanLengthExact
<1>5. HeadersMatch'
  <2>1. ASSUME NEW d \in 0..deep_offset'
        PROVE  buf'[map_offset'[d]].type = OpenerOf(deep_value'[d])
    <3>1. /\ d \in 0..deep_offset /\ map_offset'[d] = map_offset[d]
          /\ deep_value'[d] = deep_value[d]
      BY <1>1, <2>1, CloseShutsHeader
    <3>2. map_offset[d] \in DOMAIN buf
      BY <1>1, <3>1 DEF IInv, StackPointsAtHeaders
    <3>3. QED
      BY <1>1, <1>3, <3>1, <3>2 DEF HeadersMatch
  <2>2. QED
    BY <2>1 DEF HeadersMatch
<1>6. LengthsDelimit'
  <2>1. ASSUME NEW o \in Containers', ~IsOpen(o)', o = OpenHeader PROVE Delimits(o)'
    <3>1. o + buf'[o].len = write_offset'
      BY <1>3, <1>4, <2>1
    <3>2. /\ write_offset \in DOMAIN buf'
          /\ buf'[write_offset].type = CloserOf(buf'[o].type)
          /\ write_offset + buf'[write_offset].size = o + buf'[o].len
      BY <1>2, <1>3, <1>4, <2>1, <3>1 DEF CloserOf
    <3>3. \A p \in Containers' : IsOpen(p)' => p < o
      <4>1. \A p \in Containers : p \in Nat
        BY <1>1, TokenTypes DEF Containers
      <4>2. QED
        BY <1>2, <1>4, <2>1, <4>1
    <3>4. o + buf'[o].len <= write_offset'
      BY <1>4, <3>1
    <3>5. QED
      BY <3>2, <3>3, <3>4 DEF Delimits, CloserOf
  <2>2. ASSUME NEW o \in Containers', ~IsOpen(o)', o # OpenHeader PROVE Delimits(o)'
    <3>1. o \in Containers /\ o \in DOMAIN buf
      BY <1>2, <2>2 DEF Containers
    <3>2. Delimits(o) /\ buf'[o] = buf[o]
      BY <1>2, <1>3, <2>2, <3>1, LengthsByContainer DEF LInv
    <3>3. \A p \in Containers' :
            IsOpen(p)' => (p \in Containers /\ IsOpen(p)) \/ p = write_offset
      BY <1>2
    <3>4. QED
      BY <1>1, <1>3, <1>4, <3>1, <3>2, <3>3, DelimitsKept
  <2>3. QED
    BY <2>1, <2>2 DEF LengthsDelimit, Delimits
<1>7. ClosedIsWhole'
  <2>1. ASSUME state' = "STATE_TERM" PROVE 0 \in DOMAIN buf' /\ buf'[0].len = write_offset'
    <3>1. deep_offset = 0
      BY <2>1 DEF CloseShape, Resumed
    <3>2. OpenHeader = 0
      BY <1>1, <3>1 DEF IInv, StackPointsAtHeaders, OpenHeader
    <3>3. QED
      BY <1>3, <1>4, <3>2
  <2>2. QED
    BY <2>1 DEF ClosedIsWhole
<1>8. QED
  BY <1>5, <1>6, <1>7

(* Every step preserves the invariant.                                     *)
LEMMA LengthStep ==
  ASSUME LInv, KeysFit, MaxBytes <= UINT16_MAX, [Next]_vars PROVE LInv'
<1>1. IInv /\ IInv'
  BY StepShape, QuietPreserves, AddPreserves, OpenPreserves, ClosePreserves
     DEF LInv, Shape
<1>2. HeadersMatch' /\ LengthsDelimit' /\ ClosedIsWhole'
  BY <1>1, StepShape, QuietKeepsLengths, AddKeepsLengths, OpenKeepsLengths,
     CloseKeepsLengths DEF Shape
<1>3. QED
  BY <1>1, <1>2 DEF LInv

(* The inductive invariant of the lengths holds throughout: each entry of  *)
(* the stack is of the type its header has (bkv.c:549-556, 612-617), closed*)
(* containers are delimited (bkv.c:577-583, 734-745) and a finished document*)
(* is one whole map.                                                       *)
THEOREM LengthInvariant ==
  ASSUME KeysFit, MaxBytes <= UINT16_MAX PROVE Spec => []LInv
<1>1. Init => LInv
  BY InitLInv
<1>2. LInv /\ [Next]_vars => LInv'
  BY LengthStep
<1>3. QED
  BY <1>1, <1>2, PTL DEF Spec

(* The length in the header of every closed container leads exactly past   *)
(* its closing token (bkv.c:577-583, 734-745), so bkv_val.c can hop over   *)
(* it: for every nesting, call order, chunk size and failed allocation, if *)
(* keys have twelve bits and the document fits 65535 bytes.                *)
THEOREM ClosedContainersDelimited ==
  ASSUME KeysFit, MaxBytes <= UINT16_MAX PROVE Spec => []LengthsDelimit
<1>1. LInv => LengthsDelimit
  BY DEF LInv
<1>2. QED
  BY <1>1, LengthInvariant, PTL

(* When bkv_kv_closed says the document is closed (bkv.c:243), the length  *)
(* in its first header is the length of all that was written.              *)
THEOREM ClosedDocumentIsWhole ==
  ASSUME KeysFit, MaxBytes <= UINT16_MAX PROVE Spec => []ClosedIsWhole
<1>1. LInv => ClosedIsWhole
  BY DEF LInv
<1>2. QED
  BY <1>1, LengthInvariant, PTL

(* No call alters a token that is already written, but for the header of   *)
(* the container it closes (bkv.c:580, 739, 743).                          *)
THEOREM TokensAreFinal ==
  ASSUME KeysFit, MaxBytes <= UINT16_MAX PROVE Spec => AppendOnly
<1> DEFINE Kept == \A o \in DOMAIN buf :
              /\ o \in DOMAIN buf'
              /\ buf'[o] # buf[o] => o \in Containers /\ IsOpen(o) /\ ~IsOpen(o)'
<1>1. ASSUME LInv, Quiet PROVE Kept
  BY <1>1 DEF Quiet, mem
<1>2. ASSUME LInv, NEW t \in Token, AddShape(t) PROVE Kept
  BY <1>2, AddKeepsContainers DEF LInv
<1>3. ASSUME LInv, NEW t \in Token, NEW v \in {"MAP_KEY", "ARRAY_KEY"},
             OpenShape(t, v)
      PROVE  Kept
  BY <1>3, OpenAddsContainer DEF LInv
<1>4. ASSUME LInv, NEW t \in Token, NEW h \in Token, CloseShape(t, h) PROVE Kept
  <2>1. /\ IsOpen(OpenHeader) /\ OpenHeader \in Containers
    BY <1>4, HeaderIsOpen DEF LInv, CloseShape
  <2>2. \A o : IsOpen(o)' <=> IsOpen(o) /\ o # OpenHeader
    BY <1>4, CloseShutsHeader DEF LInv
  <2>3. \A o \in DOMAIN buf :
          o \in DOMAIN buf' /\ (o # OpenHeader => buf'[o] = buf[o])
    BY <1>4, CloseBuffer DEF LInv
  <2>4. QED
    BY <2>1, <2>2, <2>3
<1>5. LInv /\ [Next]_vars => [Kept]_vars
  BY <1>1, <1>2, <1>3, <1>4, StepShape DEF LInv, Shape
<1>6. QED
  BY <1>5, LengthInvariant, PTL DEF Spec, AppendOnly
==============================================================================

------------------------ MODULE BkvWriterMemoryProofs ------------------------
(***************************************************************************)
(* What bkv_prepare reserves and what the calls write, for every size of a *)
(* chunk, every length of a string, and whichever allocations fail: what   *)
(* holds of the block as long as ChunkSuffices.                            *)
(***************************************************************************)
EXTENDS BkvWriterProofs

(* array_open asks for 2 bytes and writes 6.  As many bytes begin a string.*)
Slack == 4
Need(bits) == bits \div 8

(* What the scalar calls ask for: their header at least, and what asks for *)
(* less than four bytes is four bytes short at most.                       *)
CallsReserve ==
  \A a \in KvAdds \cup ArrayAdds :
    /\ HDR_SIZE <= Need(a.bits)
    /\ Slack <= Need(a.bits) \/ a.size <= Need(a.bits) + Slack

(* The block is a whole number of chunks.                                  *)
Aligned == (mem_size \div Chunk) * Chunk = mem_size

(* One more chunk has room for what sticks out and the start of a string.  *)
Within == write_offset + Slack <= mem_size + Chunk

MInv ==
  /\ IInv
  /\ ChunkSuffices => Aligned /\ Within
  /\ OnlyLastTokenOverruns
  /\ FinishedFits

(* A step before and after which a chunk suffices.                         *)
Sufficing ==
  /\ ChunkSuffices
  /\ ~short'
  /\ write_offset' - write_offset <= Chunk
  /\ UNCHANGED fixed

(* Dividing a multiple.                                                    *)
LEMMA Multiples ==
  ASSUME NEW c \in Nat \ {0}, NEW q \in Nat PROVE (q * c) \div c = q
<1>1. q * c \in Nat
  OBVIOUS
<1> DEFINE d == (q * c) \div c
           r == (q * c) % c
<1>2. d \in Int /\ r \in 0 .. c - 1 /\ q * c = c * d + r
  BY <1>1
<1> HIDE DEF d, r
<1>3. c * (q - d) = r
  BY <1>2
<1>4. CASE q - d >= 1
  <2>1. c * (q - d) >= c
    BY <1>2, <1>4
  <2>2. QED
    BY <1>2, <1>3, <2>1
<1>5. CASE q - d <= -1
  <2>1. c * (q - d) <= -c
    BY <1>2, <1>5
  <2>2. QED
    BY <1>2, <1>3, <2>1
<1>6. QED
  BY <1>2, <1>4, <1>5 DEF d

(* The types of the block.                                                 *)
LEMMA BlockTypes ==
  ASSUME IInv
  PROVE  /\ mem_size \in Nat /\ write_offset \in Nat
         /\ Chunk \in Nat \ {0}
         /\ ChunkSuffices => Chunk >= 8
<1>1. TypeOK
  BY DEF IInv
<1>2. mem_size \in Nat /\ write_offset \in Nat
  BY <1>1, ConstantTypes DEF TypeOK
<1>3. Chunk \in Nat \ {0}
  BY <1>1, GrownSizeType
<1>4. ChunkSuffices => Chunk >= 8
  BY <1>3 DEF ChunkSuffices, ARRAY_OPEN_VALUE_SIZE, HDR_SIZE, STRING_VALUE_SIZE
<1>5. QED
  BY <1>2, <1>3, <1>4

(* What one growth of bkv_prepare makes of the block.                      *)
LEMMA GrownByOneChunk ==
  ASSUME MInv, ChunkSuffices
  PROVE  /\ GrownSize = mem_size + Chunk
         /\ (GrownSize \div Chunk) * Chunk = GrownSize
<1> DEFINE q == mem_size \div Chunk
<1>1. Chunk \in Nat \ {0} /\ mem_size \in Nat
  BY BlockTypes DEF MInv
<1>2. q \in Nat
  BY <1>1, DivNat
<1>3. q * Chunk = mem_size
  BY DEF MInv, Aligned
<1>4. GrownSize = (q + 1) * Chunk
  BY DEF GrownSize
<1> HIDE DEF q
<1>5. (q + 1) * Chunk = q * Chunk + Chunk
  BY <1>1, <1>2
<1>6. ((q + 1) * Chunk) \div Chunk = q + 1
  <2>1. q + 1 \in Nat
    BY <1>2
  <2>2. QED
    BY <1>1, <2>1, Multiples
<1>7. QED
  BY <1>3, <1>4, <1>5, <1>6

(* A call gets the room it asks for, or one chunk more than there was.     *)
LEMMA Room ==
  ASSUME MInv, Sufficing, NEW bits \in Nat, NEW written, Reserve(bits, written)
  PROVE  /\ Need(bits) \in Nat
         /\ mem_size' \in Nat
         /\ Aligned'
         /\ \/ mem_size' = mem_size /\ mem_size' >= write_offset + Need(bits)
            \/ mem_size' = mem_size + Chunk /\ mem_size' >= write_offset + Slack
<1>1. /\ mem_size \in Nat /\ write_offset \in Nat /\ Chunk \in Nat
      /\ write_offset + Slack <= mem_size + Chunk
      /\ Chunk' = Chunk
  BY BlockTypes DEF MInv, Sufficing, Within, fixed, Chunk
<1>2. Need(bits) \in Nat
  BY DivNat DEF Need
<1>3. CASE mem_size' = mem_size /\ ~MustGrow(bits)
  <2>1. mem_size >= write_offset + Need(bits)
    BY <1>1, <1>2, <1>3 DEF MustGrow, Need
  <2>2. Aligned'
    BY <1>1, <1>3 DEF MInv, Sufficing, Aligned
  <2>3. QED
    BY <1>1, <1>2, <1>3, <2>1, <2>2
<1>4. CASE mem_size' = GrownSize
  <2>1. mem_size' = mem_size + Chunk
    BY <1>4, GrownByOneChunk DEF Sufficing
  <2>2. Aligned'
    BY <1>1, <1>4, GrownByOneChunk DEF Aligned, Sufficing
  <2>3. QED
    BY <1>1, <1>2, <2>1, <2>2 DEF Slack
<1>5. QED
  BY <1>3, <1>4 DEF Reserve, Sufficing

(***************************************************************************)
(* The shape of a step as the memory sees it: there is room for r bytes,   *)
(* at least a header, and for the start of a string one chunk further.     *)
(***************************************************************************)
Reserves(r) ==
  /\ HDR_SIZE <= r
  /\ mem_size' \in Nat
  /\ mem_size' >= write_offset + r
  /\ Aligned'
  /\ Within'
  /\ state' = "STATE_TERM" => write_offset' <= mem_size'

MemShape == Quiet \/ \E r \in Nat : Reserves(r)

(* How far a token reaches, in a block that had room or that grew.         *)
LEMMA StillWithin ==
  ASSUME NEW w \in Nat, NEW m \in Nat, NEW c \in Nat, NEW s \in Nat, NEW n \in Nat,
         c >= 8, s <= c, 4 <= n \/ s <= n + 4
  PROVE  /\ m >= w + n => (w + s) + 4 <= m + c
         /\ w + 4 <= m + c => (w + s) + 4 <= (m + c) + c
OBVIOUS

(* A call that writes a token.                                             *)
LEMMA WriteReserves ==
  ASSUME MInv, Sufficing, NEW bits \in Nat, NEW t \in Token, NEW b, NEW patched,
         Write(bits, t, b, patched),
         HDR_SIZE <= Need(bits), Slack <= Need(bits) \/ t.size <= Need(bits) + Slack,
         state' = "STATE_TERM" => t.size <= Need(bits) /\ t.size <= Slack
  PROVE  MemShape
<1>1. Reserve(bits, Span(write_offset, t.size) \cup patched)
      /\ write_offset' = write_offset + t.size
  BY DEF Write
<1>2. /\ Need(bits) \in Nat /\ mem_size' \in Nat /\ Aligned'
      /\ \/ mem_size' = mem_size /\ mem_size' >= write_offset + Need(bits)
         \/ mem_size' = mem_size + Chunk /\ mem_size' >= write_offset + Slack
  BY <1>1, Room
<1>3. /\ write_offset \in Nat /\ mem_size \in Nat /\ t.size \in Nat
      /\ Chunk \in Nat /\ Chunk >= 8
  BY BlockTypes DEF MInv, Sufficing, Token
<1>4. t.size <= Chunk /\ Chunk' = Chunk
  BY <1>1, <1>3 DEF Sufficing, fixed, Chunk
<1>5. write_offset + 4 <= mem_size + Chunk
  BY DEF MInv, Sufficing, Within, Slack
<1>6. 4 <= Need(bits) \/ t.size <= Need(bits) + 4
  BY DEF Slack
<1>7. CASE mem_size' = mem_size /\ mem_size' >= write_offset + Need(bits)
  <2>1. (write_offset + t.size) + 4 <= mem_size + Chunk
    BY <1>2, <1>3, <1>4, <1>6, <1>7, StillWithin
  <2>2. Within'
    BY <1>1, <1>4, <1>7, <2>1 DEF Within, Slack
  <2>3. state' = "STATE_TERM" => write_offset' <= mem_size'
    BY <1>1, <1>2, <1>3, <1>7
  <2>4. Reserves(Need(bits))
    BY <1>2, <1>7, <2>2, <2>3 DEF Reserves
  <2>5. QED
    BY <1>2, <2>4 DEF MemShape
<1>8. CASE mem_size' = mem_size + Chunk /\ mem_size' >= write_offset + Slack
  <2>1. (write_offset + t.size) + 4 <= (mem_size + Chunk) + Chunk
    BY <1>2, <1>3, <1>4, <1>5, <1>6, StillWithin
  <2>2. Within'
    BY <1>1, <1>4, <1>8, <2>1 DEF Within, Slack
  <2>3. state' = "STATE_TERM" => write_offset' <= mem_size'
    BY <1>1, <1>2, <1>3, <1>8 DEF Slack
  <2>4. Reserves(Slack)
    BY <1>2, <1>8, <2>2, <2>3 DEF Reserves, Slack, HDR_SIZE
  <2>5. QED
    BY <2>4 DEF MemShape, Slack
<1>9. QED
  BY <1>2, <1>7, <1>8

(***************************************************************************)
(* Each call has that shape.                                               *)
(***************************************************************************)
LEMMA KvAddReserves ==
  ASSUME MInv, CallsReserve, Sufficing, NEW a \in KvAdds, NEW key \in Keys, KvAdd(a, key)
  PROVE  MemShape
<1>1. CASE key > MAX_KEY /\ Refuse("BKV_KEY_OUT_OF_RANGE")
  BY <1>1 DEF Refuse, Quiet, Codes, MemShape
<1>2. CASE Rejected("SET_KEY", a.bits)
  BY <1>2, RejectedIsQuiet DEF MemShape
<1>3. ASSUME key <= MAX_KEY, Accepted("SET_KEY", a.size),
             NEW t, t = ScalarToken(a, key),
             Write(a.bits, t, Overlay(buf, write_offset, t), {}),
             UNCHANGED nest
      PROVE  MemShape
  <2>1. key \in 0..MAX_KEY
    BY <1>3, KeysAssumption, MaximaAreNat
  <2>2. t \in Token /\ t.size = a.size /\ a.bits \in Nat
    BY <1>3, <2>1, ScalarTokenType
  <2>3. /\ HDR_SIZE <= Need(a.bits)
        /\ Slack <= Need(a.bits) \/ a.size <= Need(a.bits) + Slack
    BY DEF CallsReserve
  <2>4. state' # "STATE_TERM"
    BY <1>3 DEF Accepted, CheckState, nest
  <2>5. QED
    BY <1>3, <2>2, <2>3, <2>4, WriteReserves
<1>4. QED
  BY <1>1, <1>2, <1>3 DEF KvAdd

(* An element of an array.                                                 *)
LEMMA ArrayAddReserves ==
  ASSUME MInv, CallsReserve, Sufficing, NEW a \in ArrayAdds, ArrayAdd(a)
  PROVE  MemShape
<1>1. CASE Rejected("SET_ARRAY_KEY", a.bits)
  BY <1>1, RejectedIsQuiet DEF MemShape
<1>2. ASSUME Accepted("SET_ARRAY_KEY", a.size),
             NEW t, t = ScalarToken(a, BKV_ARRAY_KEY),
             Write(a.bits, t, Overlay(buf, write_offset, t), {}),
             UNCHANGED nest
      PROVE  MemShape
  <2>1. BKV_ARRAY_KEY \in 0..MAX_KEY
    BY MaximaAreNat DEF BKV_ARRAY_KEY
  <2>2. t \in Token /\ t.size = a.size /\ a.bits \in Nat
    BY <1>2, <2>1, ScalarTokenType
  <2>3. /\ HDR_SIZE <= Need(a.bits)
        /\ Slack <= Need(a.bits) \/ a.size <= Need(a.bits) + Slack
    BY DEF CallsReserve
  <2>4. state' # "STATE_TERM"
    BY <1>2 DEF Accepted, CheckState, nest
  <2>5. QED
    BY <1>2, <2>2, <2>3, <2>4, WriteReserves
<1>3. QED
  BY <1>1, <1>2 DEF ArrayAdd

(* The needs of the other calls are written in them.                       *)
LEMMA FixedNeeds ==
  Need(16) = 2 /\ Need(32) = 4 /\ Need(64) = 8
BY DEF Need

(* map_open asks for what it writes.                                       *)
LEMMA MapOpenReserves ==
  ASSUME MInv, Sufficing, NEW key \in OpenKeys, MapOpen(key)
  PROVE  MemShape
<1>1. CASE Rejected("OPEN_MAP", 32)
  BY <1>1, RejectedIsQuiet DEF MemShape
<1>2. ASSUME NEW len \in Uninit(write_offset),
             NEW t, t = [type |-> HdrType(HDR_TYPE_MAP_OPEN, key), key |-> HdrKey(key),
                         size |-> HDR_SIZE + MAP_OPEN_VALUE_SIZE, len |-> len, nb |-> 0],
             Write(32, t, Overlay(buf, write_offset, t), {}),
             Push("MAP_KEY", "STATE_IN_MAP")
      PROVE  MemShape
  <2>1. /\ HDR_SIZE + MAP_OPEN_VALUE_SIZE = 4
        /\ 4 \in Nat \ {0} /\ 0 \in 0..UINT16_MAX /\ len \in 0..UINT16_MAX
    BY UninitType, MaximaAreNat DEF HDR_SIZE, MAP_OPEN_VALUE_SIZE
  <2>2. t \in Token /\ t.size = 4
    BY <1>2, <2>1, OpenTokenType
  <2>3. state' # "STATE_TERM"
    BY <1>2 DEF Push
  <2>4. HDR_SIZE <= 4 /\ Slack <= 4
    BY DEF HDR_SIZE, Slack
  <2>5. QED
    BY <1>2, <2>2, <2>3, <2>4, FixedNeeds, WriteReserves
<1>3. QED
  BY <1>1, <1>2 DEF MapOpen

(* array_open writes Slack bytes more than it asks for.                    *)
LEMMA ArrayOpenReserves ==
  ASSUME MInv, Sufficing, NEW key \in OpenKeys, ArrayOpen(key)
  PROVE  MemShape
<1>1. CASE Rejected("OPEN_ARRAY", 16)
  BY <1>1, RejectedIsQuiet DEF MemShape
<1>2. ASSUME NEW len \in Uninit(write_offset),
             NEW t, t = [type |-> HdrType(HDR_TYPE_ARRAY_OPEN, key),
                         key |-> HdrKey(key),
                         size |-> HDR_SIZE + ARRAY_OPEN_VALUE_SIZE, len |-> len,
                         nb |-> len],
             Write(16, t, Overlay(buf, write_offset, t), {}),
             Push("ARRAY_KEY", "STATE_IN_ARRAY")
      PROVE  MemShape
  <2>1. /\ HDR_SIZE + ARRAY_OPEN_VALUE_SIZE = 6
        /\ 6 \in Nat \ {0} /\ len \in 0..UINT16_MAX
    BY UninitType, MaximaAreNat DEF HDR_SIZE, ARRAY_OPEN_VALUE_SIZE
  <2>2. t \in Token /\ t.size = 6
    BY <1>2, <2>1, OpenTokenType
  <2>3. state' # "STATE_TERM"
    BY <1>2 DEF Push
  <2>4. HDR_SIZE <= 2 /\ 6 <= 2 + Slack
    BY DEF HDR_SIZE, Slack
  <2>5. QED
    BY <1>2, <2>2, <2>3, <2>4, FixedNeeds, WriteReserves
<1>3. QED
  BY <1>1, <1>2 DEF ArrayOpen

(* The tokens that end a container.                                        *)
LEMMA CloseTokenTypes ==
  /\ MapCloseToken \in Token /\ MapCloseToken.size = 2
  /\ ArrayCloseToken \in Token /\ ArrayCloseToken.size = 5
<1>1. 0 \in 0..UINT16_MAX /\ BKV_NO_KEY \in 0..MAX_KEY
  BY MaximaAreNat DEF BKV_NO_KEY
<1>2. /\ HDR_SIZE + MAP_CLOSE_VALUE_SIZE = 2
      /\ HDR_SIZE + ARRAY_CLOSE_VALUE_SIZE = 5
      /\ HDR_TYPE_MAP_CLOSE \in Nat /\ HDR_TYPE_ARRAY_CLOSE \in Nat
  BY DEF HDR_SIZE, MAP_CLOSE_VALUE_SIZE, ARRAY_CLOSE_VALUE_SIZE,
         HDR_TYPE_MAP_CLOSE, HDR_TYPE_ARRAY_CLOSE
<1>3. QED
  BY <1>1, <1>2 DEF MapCloseToken, ArrayCloseToken, Token

(* map_close asks for more than it writes,                                 *)
LEMMA MapCloseReserves ==
  ASSUME MInv, Sufficing, MapClose PROVE MemShape
<1>1. CASE Rejected("CLOSE_MAP", 64)
  BY <1>1, RejectedIsQuiet DEF MemShape
<1>2. ASSUME NEW t, t = MapCloseToken, NEW b, NEW patched, Write(64, t, b, patched)
      PROVE  MemShape
  <2>1. t \in Token /\ t.size = 2
    BY <1>2, CloseTokenTypes
  <2>2. HDR_SIZE <= 8 /\ Slack <= 8 /\ 2 <= 8 /\ 2 <= Slack
    BY DEF HDR_SIZE, Slack
  <2>3. QED
    BY <1>2, <2>1, <2>2, FixedNeeds, WriteReserves
<1>3. QED
  BY <1>1, <1>2 DEF MapClose

(* and array_close for less; but it never closes the document.             *)
LEMMA ArrayCloseReserves ==
  ASSUME MInv, Sufficing, ArrayClose PROVE MemShape
<1>1. CASE Rejected("CLOSE_ARRAY", 16)
  BY <1>1, RejectedIsQuiet DEF MemShape
<1>2. ASSUME NEW t, t = ArrayCloseToken, NEW b, NEW patched, Write(16, t, b, patched),
             Accepted("CLOSE_ARRAY", t.size),
             state' = IF deep_offset = 0 THEN state ELSE Resumed
      PROVE  MemShape
  <2>1. t \in Token /\ t.size = 5
    BY <1>2, CloseTokenTypes
  <2>2. HDR_SIZE <= 2 /\ 5 <= 2 + Slack
    BY DEF HDR_SIZE, Slack
  <2>3. state' # "STATE_TERM"
    BY <1>2 DEF Accepted, CheckState, Resumed
  <2>4. QED
    BY <1>2, <2>1, <2>2, <2>3, FixedNeeds, WriteReserves
<1>3. QED
  BY <1>1, <1>2 DEF ArrayClose

(* So every step has it.                                                   *)
LEMMA StepMemShape ==
  ASSUME MInv, CallsReserve, Sufficing, [Next]_vars PROVE MemShape
<1>1. CASE UNCHANGED vars
  BY <1>1 DEF MInv, IInv, TypeOK, vars, MemShape, Quiet
<1>2. QED
  BY <1>1, KvAddReserves, ArrayAddReserves, MapOpenReserves, ArrayOpenReserves,
     MapCloseReserves, ArrayCloseReserves DEF Next

(***************************************************************************)
(* MInv is inductive.                                                      *)
(***************************************************************************)
(* A step that writes keeps every token where it ends, and adds one that   *)
(* ends last.                                                              *)
Grows ==
  /\ \A o \in DOMAIN buf : o \in DOMAIN buf' /\ buf'[o].size = buf[o].size
  /\ DOMAIN buf' = DOMAIN buf \cup {write_offset}
  /\ write_offset + buf'[write_offset].size = write_offset'

LEMMA StepGrows ==
  ASSUME IInv, Shape PROVE Quiet \/ Grows
<1>1. ASSUME NEW t \in Token, Appends(t), buf' = Overlay(buf, write_offset, t)
      PROVE  Grows
  BY <1>1, OverlayAtEnd DEF IInv, Appends, Grows
<1>2. ASSUME NEW t \in Token, NEW h \in Token, CloseShape(t, h) PROVE Grows
  <2>1. write_offset' = write_offset + t.size
    BY <1>2 DEF CloseShape, Appends
  <2>2. /\ DOMAIN buf' = DOMAIN buf \cup {write_offset}
        /\ buf'[write_offset] = t
        /\ \A o \in DOMAIN buf : buf'[o].size = buf[o].size
    BY <1>2, CloseBuffer
  <2>3. QED
    BY <2>1, <2>2 DEF Grows
<1>3. QED
  BY <1>1, <1>2 DEF Shape, AddShape, OpenShape

(* No step changes the chunk, and a refusal is not forgotten.              *)
LEMMA StepKeeps ==
  ASSUME [Next]_vars PROVE UNCHANGED fixed /\ (~short' => ~short)
<1>1. ASSUME NEW code, Refuse(code) PROVE UNCHANGED fixed /\ (~short' => ~short)
  BY <1>1 DEF Refuse, mem
<1>2. ASSUME NEW a, NEW bits, Rejected(a, bits)
      PROVE  UNCHANGED fixed /\ (~short' => ~short)
  BY <1>1, <1>2 DEF Rejected
<1>3. ASSUME NEW bits, NEW t, NEW b, NEW patched, Write(bits, t, b, patched)
      PROVE  UNCHANGED fixed /\ (~short' => ~short)
  BY <1>3 DEF Write, Reserve
<1>4. CASE UNCHANGED vars
  BY <1>4 DEF vars, mem
<1>5. ASSUME NEW a, NEW key, KvAdd(a, key) PROVE UNCHANGED fixed /\ (~short' => ~short)
  BY <1>1, <1>2, <1>3, <1>5 DEF KvAdd
<1>6. ASSUME NEW a, ArrayAdd(a) PROVE UNCHANGED fixed /\ (~short' => ~short)
  BY <1>2, <1>3, <1>6 DEF ArrayAdd
<1>7. ASSUME NEW key, MapOpen(key) PROVE UNCHANGED fixed /\ (~short' => ~short)
  BY <1>2, <1>3, <1>7 DEF MapOpen
<1>8. ASSUME NEW key, ArrayOpen(key) PROVE UNCHANGED fixed /\ (~short' => ~short)
  BY <1>2, <1>3, <1>8 DEF ArrayOpen
<1>9. ASSUME MapClose \/ ArrayClose PROVE UNCHANGED fixed /\ (~short' => ~short)
  BY <1>2, <1>3, <1>9 DEF MapClose, ArrayClose
<1>10. QED
  BY <1>4, <1>5, <1>6, <1>7, <1>8, <1>9 DEF Next

(* If a chunk suffices after a step that writes, it did so before.         *)
LEMMA SufficedBefore ==
  ASSUME IInv, IInv', Grows, [Next]_vars, ChunkSuffices' PROVE Sufficing
<1>1. UNCHANGED fixed /\ ~short' /\ ~short
  BY StepKeeps DEF ChunkSuffices
<1>2. backing' = backing /\ Chunk' = Chunk
  BY <1>1 DEF fixed, Chunk
<1>3. \A o \in DOMAIN buf' : buf'[o].size <= Chunk
  BY <1>2 DEF ChunkSuffices
<1>4. \A o \in DOMAIN buf : buf[o].size <= Chunk
  BY <1>3 DEF Grows
<1>5. ChunkSuffices
  BY <1>1, <1>2, <1>4 DEF ChunkSuffices
<1>6. write_offset' - write_offset <= Chunk
  <2>1. buf'[write_offset].size <= Chunk
    BY <1>3 DEF Grows
  <2>2. write_offset \in Nat /\ buf'[write_offset].size \in Int
    <3>1. buf'[write_offset] \in Token
      BY DEF Grows, IInv, TypeOK
    <3>2. QED
      BY <3>1, OffsetTypes DEF Token
  <2>3. write_offset' = write_offset + buf'[write_offset].size
    BY DEF Grows
  <2>4. QED
    BY <2>1, <2>2, <2>3
<1>7. QED
  BY <1>1, <1>5, <1>6 DEF Sufficing

(* A call that reserves keeps the document inside the block but for the    *)
(* end of the token it writes.                                             *)
LEMMA ReservesKeepsFit ==
  ASSUME MInv, IInv', Grows, NEW r \in Nat, Reserves(r)
  PROVE  OnlyLastTokenOverruns' /\ FinishedFits'
<1>1. /\ write_offset \in Nat /\ write_offset' \in Nat /\ mem_size' \in Nat
      /\ \A o \in DOMAIN buf : o \in Nat /\ buf[o].size \in Nat
  BY OffsetTypes, TokenTypes, ConstantTypes DEF MInv, IInv, TypeOK
<1>2. ASSUME NEW o \in DOMAIN buf', o + buf'[o].size > mem_size'
      PROVE  o + buf'[o].size = write_offset' /\ o + HDR_SIZE <= mem_size'
  <2>1. CASE o \in DOMAIN buf
    <3>1. o + buf[o].size <= write_offset
      BY <2>1 DEF MInv, IInv, TokensInOrder
    <3>2. buf'[o].size = buf[o].size
      BY <2>1 DEF Grows
    <3>3. QED
      BY <1>1, <1>2, <2>1, <3>1, <3>2 DEF Reserves
  <2>2. CASE o = write_offset
    BY <1>1, <2>2 DEF Grows, Reserves, HDR_SIZE
  <2>3. QED
    BY <2>1, <2>2 DEF Grows
<1>3. FinishedFits'
  BY DEF Reserves, FinishedFits
<1>4. QED
  BY <1>2, <1>3 DEF OnlyLastTokenOverruns

(* The empty block is a whole number of chunks, or none for a file.        *)
LEMMA InitMInv ==
  ASSUME Init PROVE MInv
<1>1. IInv
  BY InitIInv
<1>2. /\ write_offset = 0 /\ DOMAIN buf = {} /\ state = "STATE_INIT"
      /\ mem_size = IF backing = "ram" THEN DefaultChunk ELSE 0
  BY DEF Init
<1>3. Chunk \in Nat \ {0} /\ mem_size \in Nat
  BY <1>1, BlockTypes
<1>4. ASSUME ChunkSuffices PROVE Aligned /\ Within
  <2>1. ASSUME backing = "ram" PROVE Aligned
    <3>1. mem_size = DefaultChunk
      BY <1>2, <2>1
    <3>2. (DefaultChunk \div Chunk) * Chunk = DefaultChunk
      BY <1>4, <2>1 DEF ChunkSuffices
    <3>3. QED
      BY <3>1, <3>2 DEF Aligned
  <2>2. ASSUME backing # "ram" PROVE Aligned
    <3>1. (0 * Chunk) \div Chunk = 0 /\ 0 * Chunk = 0
      <4>1. 0 \in Nat
        OBVIOUS
      <4>2. QED
        BY <1>3, <4>1, Multiples
    <3>2. 0 \div Chunk = 0
      BY <3>1
    <3>3. mem_size = 0
      BY <1>2, <2>2
    <3>4. QED
      BY <3>1, <3>2, <3>3 DEF Aligned
  <2>3. Within
    <3>1. Chunk >= 8 /\ Chunk \in Nat
      BY <1>1, <1>4, BlockTypes
    <3>2. write_offset = 0
      BY <1>2
    <3>3. \A m, c \in Nat : c >= 8 => 0 + 4 <= m + c
      OBVIOUS
    <3>4. QED
      BY <1>3, <3>1, <3>2, <3>3 DEF Within, Slack
  <2>4. QED
    BY <2>1, <2>2, <2>3
<1>5. OnlyLastTokenOverruns /\ FinishedFits
  BY <1>2 DEF OnlyLastTokenOverruns, FinishedFits
<1>6. QED
  BY <1>1, <1>4, <1>5 DEF MInv

(* Every step preserves it.                                                *)
LEMMA MemoryStep ==
  ASSUME MInv, CallsReserve, [Next]_vars PROVE MInv'
<1>1. IInv /\ Shape
  BY StepShape DEF MInv
<1>2. IInv'
  BY <1>1, QuietPreserves, AddPreserves, OpenPreserves, ClosePreserves DEF Shape
<1>3. CASE Quiet
  <2>1. UNCHANGED <<mem_chunk_size, backing, state, mem_size, write_offset, buf, short>>
    BY <1>3 DEF Quiet, mem, nest, fixed
  <2>2. (ChunkSuffices' <=> ChunkSuffices) /\ Chunk' = Chunk
    BY <2>1 DEF ChunkSuffices, Chunk
  <2>3. QED
    BY <1>2, <2>1, <2>2 DEF MInv, Aligned, Within, OnlyLastTokenOverruns, FinishedFits
<1>4. CASE ~Quiet /\ ~ChunkSuffices'
  BY <1>2, <1>4 DEF MInv, OnlyLastTokenOverruns, FinishedFits
<1>5. CASE ~Quiet /\ ChunkSuffices'
  <2>1. Grows
    BY <1>1, <1>5, StepGrows
  <2>2. Sufficing
    BY <1>1, <1>2, <1>5, <2>1, SufficedBefore
  <2>3. PICK r \in Nat : Reserves(r)
    BY <1>5, <2>2, StepMemShape DEF MemShape
  <2>4. OnlyLastTokenOverruns' /\ FinishedFits'
    BY <1>2, <2>1, <2>3, ReservesKeepsFit
  <2>5. Aligned' /\ Within'
    BY <2>3 DEF Reserves
  <2>6. QED
    BY <1>2, <2>4, <2>5 DEF MInv
<1>6. QED
  BY <1>3, <1>4, <1>5

(* The invariant of the memory holds throughout: as long as a chunk is     *)
(* enough, bkv_prepare (bkv.c:291-294) keeps the block a whole number of   *)
(* chunks, and what sticks out of it leaves room in one more chunk.        *)
THEOREM MemoryInvariant ==
  ASSUME CallsReserve PROVE Spec => []MInv
<1>1. Init => MInv
  BY InitMInv
<1>2. MInv /\ [Next]_vars => MInv'
  BY MemoryStep
<1>3. QED
  BY <1>1, <1>2, PTL DEF Spec

(* A short reservation (bkv.c:392, 412, 515, 605, 723) is made good by the *)
(* next call that writes: until a growth is refused without the call       *)
(* noticing or a token is longer than a chunk (ChunkSuffices), only the    *)
(* last token reaches past the block, and never its header.                *)
THEOREM OnlyTheLastOverruns ==
  ASSUME CallsReserve PROVE Spec => []OnlyLastTokenOverruns
<1>1. MInv => OnlyLastTokenOverruns
  BY DEF MInv
<1>2. QED
  BY <1>1, MemoryInvariant, PTL

(* Under the same condition a finished document lies inside its block, so  *)
(* bkv_finalize, which cuts a file to mem_size (bkv.c:220), keeps all of it.*)
THEOREM FinishedDocumentFits ==
  ASSUME CallsReserve PROVE Spec => []FinishedFits
<1>1. MInv => FinishedFits
  BY DEF MInv
<1>2. QED
  BY <1>1, MemoryInvariant, PTL

(***************************************************************************)
(* What a move of the block may drop: never a byte that a reader needs to  *)
(* step from token to token.                                               *)
(***************************************************************************)

(* A call that adds a string asks at least for its header and its length.  *)
StringsReserve ==
  \A a \in KvAdds \cup ArrayAdds :
    a.type = HDR_TYPE_STRING => HDR_SIZE + STRING_VALUE_SIZE <= Need(a.bits)

(* The size of an open header tells how many bytes its close will patch.   *)
OpenHeadersSized ==
  \A d \in 0..deep_offset : buf[map_offset[d]].size = OpenerSize(deep_value[d])

(* The skeleton ends inside the block.                                     *)
SkeletonFits == \A o \in DOMAIN buf : \A x \in Skeleton(o) : x < mem_size

(* What is lost was written.                                               *)
LostIsBehind == \A x \in lost : x < write_offset

SInv ==
  /\ MInv
  /\ HeadersMatch
  /\ OpenHeadersSized
  /\ ChunkSuffices => SkeletonFits /\ LostIsBehind
  /\ SkeletonSurvives

(***************************************************************************)
(* What a step may lose: what stuck out of the block, but for the header   *)
(* that a close patches.                                                   *)
(***************************************************************************)
Patched == Span(OpenHeader + HDR_SIZE, buf[OpenHeader].size - HDR_SIZE)

Drops(r) ==
  /\ HDR_SIZE <= r
  /\ mem_size' \in Nat
  /\ mem_size' >= mem_size
  /\ mem_size' >= write_offset + r
  /\ lost' \subseteq lost \cup Overrun
  /\ deep_offset' < deep_offset => lost' \cap Patched = {}
  /\ buf'[write_offset].type = HDR_TYPE_STRING => HDR_SIZE + STRING_VALUE_SIZE <= r

LossShape == Quiet \/ \E r \in Nat : Drops(r)

(* The bytes of a span are those of its first part and those of the rest,  *)
(* which end where it ends.                                                *)
LEMMA SpanSplits ==
  ASSUME NEW o \in Nat, NEW h \in Nat, NEW n \in Nat
  PROVE  /\ \A x \in Span(o, n) : x \in Span(o, h) \/ x \in Span(o + h, n - h)
         /\ \A x \in Span(o + h, n - h) : x < o + n
BY DEF Span

(* Any call that writes, given the room it asks for or a new chunk.        *)
LEMMA WriteDrops ==
  ASSUME MInv, Sufficing, NEW bits \in Nat, NEW t, NEW b, NEW patched,
         Write(bits, t, b, patched)
  PROVE  /\ mem_size' \in Nat
         /\ mem_size' >= mem_size
         /\ lost' \subseteq lost \cup Overrun
         /\ lost' \cap patched = {}
         /\ \E r \in Nat : (r = Need(bits) \/ r = Slack) /\ mem_size' >= write_offset + r
<1> DEFINE written == Span(write_offset, t.size) \cup patched
<1>1. Reserve(bits, written)
  BY DEF Write
<1> HIDE DEF written
<1>2. /\ Need(bits) \in Nat /\ mem_size' \in Nat
      /\ \/ mem_size' = mem_size /\ mem_size' >= write_offset + Need(bits)
         \/ mem_size' = mem_size + Chunk /\ mem_size' >= write_offset + Slack
  BY <1>1, Room
<1>3. mem_size' >= mem_size
  BY <1>2, BlockTypes DEF MInv
<1>4. lost' \subseteq lost \cup Overrun /\ lost' \cap written = {}
  BY <1>1 DEF Reserve
<1>5. \E r \in Nat : (r = Need(bits) \/ r = Slack) /\ mem_size' >= write_offset + r
  BY <1>2 DEF Slack
<1>6. QED
  BY <1>2, <1>3, <1>4, <1>5 DEF written

(* A keyed scalar,                                                         *)
LEMMA KvAddDrops ==
  ASSUME SInv, CallsReserve, StringsReserve, Sufficing, NEW a \in KvAdds, NEW key \in Keys,
         KvAdd(a, key)
  PROVE  LossShape
<1>1. CASE key > MAX_KEY /\ Refuse("BKV_KEY_OUT_OF_RANGE")
  BY <1>1 DEF Refuse, Quiet, Codes, LossShape
<1>2. CASE Rejected("SET_KEY", a.bits)
  BY <1>2, RejectedIsQuiet DEF LossShape
<1>3. ASSUME key <= MAX_KEY, NEW t, t = ScalarToken(a, key),
             Write(a.bits, t, Overlay(buf, write_offset, t), {}), UNCHANGED nest
      PROVE  LossShape
  <2>1. key \in 0..MAX_KEY
    BY <1>3, KeysAssumption, MaximaAreNat
  <2>2. t \in Token /\ t.type = a.type /\ a.bits \in Nat
    BY <1>3, <2>1, ScalarTokenType
  <2>3. /\ HDR_SIZE <= Need(a.bits) /\ HDR_SIZE <= Slack
        /\ a.type = HDR_TYPE_STRING => HDR_SIZE + STRING_VALUE_SIZE <= Need(a.bits)
        /\ HDR_SIZE + STRING_VALUE_SIZE <= Slack
    BY DEF CallsReserve, StringsReserve, HDR_SIZE, STRING_VALUE_SIZE, Slack
  <2>4. buf'[write_offset] = t /\ ~(deep_offset' < deep_offset)
    BY <1>3, <2>2, OverlayAtEnd, OffsetTypes DEF Write, nest, SInv, MInv, IInv
  <2>5. PICK r \in Nat :
          (r = Need(a.bits) \/ r = Slack) /\ mem_size' >= write_offset + r
    BY <1>3, <2>2, WriteDrops DEF SInv
  <2>6. Drops(r)
    BY <1>3, <2>2, <2>3, <2>4, <2>5, WriteDrops DEF Drops, SInv
  <2>7. QED
    BY <2>6 DEF LossShape
<1>4. QED
  BY <1>1, <1>2, <1>3 DEF KvAdd

(* an element of an array,                                                 *)
LEMMA ArrayAddDrops ==
  ASSUME SInv, CallsReserve, StringsReserve, Sufficing, NEW a \in ArrayAdds, ArrayAdd(a)
  PROVE  LossShape
<1>1. CASE Rejected("SET_ARRAY_KEY", a.bits)
  BY <1>1, RejectedIsQuiet DEF LossShape
<1>2. ASSUME NEW t, t = ScalarToken(a, BKV_ARRAY_KEY),
             Write(a.bits, t, Overlay(buf, write_offset, t), {}), UNCHANGED nest
      PROVE  LossShape
  <2>1. BKV_ARRAY_KEY \in 0..MAX_KEY
    BY MaximaAreNat DEF BKV_ARRAY_KEY
  <2>2. t \in Token /\ t.type = a.type /\ a.bits \in Nat
    BY <1>2, <2>1, ScalarTokenType
  <2>3. /\ HDR_SIZE <= Need(a.bits) /\ HDR_SIZE <= Slack
        /\ a.type = HDR_TYPE_STRING => HDR_SIZE + STRING_VALUE_SIZE <= Need(a.bits)
        /\ HDR_SIZE + STRING_VALUE_SIZE <= Slack
    BY DEF CallsReserve, StringsReserve, HDR_SIZE, STRING_VALUE_SIZE, Slack
  <2>4. buf'[write_offset] = t /\ ~(deep_offset' < deep_offset)
    BY <1>2, <2>2, OverlayAtEnd, OffsetTypes DEF Write, nest, SInv, MInv, IInv
  <2>5. PICK r \in Nat :
          (r = Need(a.bits) \/ r = Slack) /\ mem_size' >= write_offset + r
    BY <1>2, <2>2, WriteDrops DEF SInv
  <2>6. Drops(r)
    BY <1>2, <2>2, <2>3, <2>4, <2>5, WriteDrops DEF Drops, SInv
  <2>7. QED
    BY <2>6 DEF LossShape
<1>3. QED
  BY <1>1, <1>2 DEF ArrayAdd

(* a container, whose token is no string and which deepens the stack,      *)
LEMMA OpenDrops ==
  ASSUME SInv, Sufficing, NEW bits \in {16, 32}, NEW t \in Token, NEW v, NEW s,
         t.type \in Openers, Write(bits, t, Overlay(buf, write_offset, t), {}), Push(v, s)
  PROVE  LossShape
<1>1. bits \in Nat /\ HDR_SIZE <= Need(bits) /\ HDR_SIZE <= Slack
  BY FixedNeeds DEF HDR_SIZE, Slack
<1>2. buf'[write_offset] = t /\ ~(deep_offset' < deep_offset)
  BY OverlayAtEnd, OffsetTypes DEF Write, Push, SInv, MInv, IInv
<1>3. t.type # HDR_TYPE_STRING
  BY DEF Openers, HDR_TYPE_STRING, HDR_TYPE_MAP_OPEN, HDR_TYPE_ARRAY_OPEN
<1>4. PICK r \in Nat : (r = Need(bits) \/ r = Slack) /\ mem_size' >= write_offset + r
  BY <1>1, WriteDrops DEF SInv
<1>5. Drops(r)
  BY <1>1, <1>2, <1>3, <1>4, WriteDrops DEF Drops, SInv
<1>6. QED
  BY <1>5 DEF LossShape

(* be it a map                                                             *)
LEMMA MapOpenDrops ==
  ASSUME SInv, Sufficing, KeysFit, NEW key \in OpenKeys, MapOpen(key)
  PROVE  LossShape
<1>1. CASE Rejected("OPEN_MAP", 32)
  BY <1>1, RejectedIsQuiet DEF LossShape
<1>2. ASSUME NEW len \in Uninit(write_offset),
             NEW t, t = [type |-> HdrType(HDR_TYPE_MAP_OPEN, key), key |-> HdrKey(key),
                         size |-> HDR_SIZE + MAP_OPEN_VALUE_SIZE, len |-> len, nb |-> 0],
             Write(32, t, Overlay(buf, write_offset, t), {}),
             Push("MAP_KEY", "STATE_IN_MAP")
      PROVE  LossShape
  <2>1. /\ HDR_SIZE + MAP_OPEN_VALUE_SIZE \in Nat \ {0}
        /\ 0 \in 0..UINT16_MAX /\ len \in 0..UINT16_MAX
    BY UninitType, MaximaAreNat DEF HDR_SIZE, MAP_OPEN_VALUE_SIZE
  <2>2. t \in Token /\ t.type \in Openers
    BY <1>2, <2>1, OpenTokenType, HdrTypeKept DEF Openers
  <2>3. QED
    BY <1>2, <2>2, OpenDrops
<1>3. QED
  BY <1>1, <1>2 DEF MapOpen

(* or an array,                                                            *)
LEMMA ArrayOpenDrops ==
  ASSUME SInv, Sufficing, KeysFit, NEW key \in OpenKeys, ArrayOpen(key)
  PROVE  LossShape
<1>1. CASE Rejected("OPEN_ARRAY", 16)
  BY <1>1, RejectedIsQuiet DEF LossShape
<1>2. ASSUME NEW len \in Uninit(write_offset),
             NEW t, t = [type |-> HdrType(HDR_TYPE_ARRAY_OPEN, key),
                         key |-> HdrKey(key),
                         size |-> HDR_SIZE + ARRAY_OPEN_VALUE_SIZE, len |-> len,
                         nb |-> len],
             Write(16, t, Overlay(buf, write_offset, t), {}),
             Push("ARRAY_KEY", "STATE_IN_ARRAY")
      PROVE  LossShape
  <2>1. /\ HDR_SIZE + ARRAY_OPEN_VALUE_SIZE \in Nat \ {0} /\ len \in 0..UINT16_MAX
    BY UninitType DEF HDR_SIZE, ARRAY_OPEN_VALUE_SIZE
  <2>2. t \in Token /\ t.type \in Openers
    BY <1>2, <2>1, OpenTokenType, HdrTypeKept DEF Openers
  <2>3. QED
    BY <1>2, <2>2, OpenDrops
<1>3. QED
  BY <1>1, <1>2 DEF ArrayOpen

(* and a close, which writes anew what it patches.                         *)
LEMMA CloseDrops ==
  ASSUME SInv, Sufficing, NEW bits \in {16, 64}, NEW t \in Token, NEW b,
         NEW n \in Nat, Write(bits, t, b, Span(OpenHeader + HDR_SIZE, n)),
         b[write_offset].type \in Closers, deep_offset >= 0,
         deep_offset' = deep_offset - 1,
         n = buf[OpenHeader].size - HDR_SIZE
  PROVE  LossShape
<1>1. bits \in Nat /\ HDR_SIZE <= Need(bits) /\ HDR_SIZE <= Slack
  BY FixedNeeds DEF HDR_SIZE, Slack
<1>2. buf'[write_offset].type # HDR_TYPE_STRING
  BY DEF Write, Closers, HDR_TYPE_STRING, HDR_TYPE_MAP_CLOSE, HDR_TYPE_ARRAY_CLOSE
<1>3. PICK r \in Nat : (r = Need(bits) \/ r = Slack) /\ mem_size' >= write_offset + r
  BY <1>1, WriteDrops DEF SInv
<1>4. Drops(r)
  BY <1>1, <1>2, <1>3, WriteDrops DEF Drops, SInv, Patched
<1>5. QED
  BY <1>4 DEF LossShape

(* The header on the top of the stack has the size of its kind.            *)
LEMMA TopHeaderSized ==
  ASSUME SInv, deep_offset >= 0
  PROVE  /\ buf[OpenHeader].size = OpenerSize(Top)
         /\ OpenHeader # write_offset
<1>1. deep_offset \in 0..deep_offset /\ deep_offset # -1
  BY OffsetTypes DEF SInv, MInv
<1>2. buf[OpenHeader].size = OpenerSize(deep_value[deep_offset])
  BY <1>1 DEF SInv, OpenHeadersSized, OpenHeader
<1>3. OpenHeader \in DOMAIN buf
  BY OpenHeaderWritten DEF SInv, MInv
<1>4. write_offset \notin DOMAIN buf
  BY CloseTokenTypes, OverlayAtEnd DEF SInv, MInv, IInv
<1>5. QED
  BY <1>1, <1>2, <1>3, <1>4 DEF Top

(* The close of a map patches two bytes,                                   *)
LEMMA MapCloseDrops ==
  ASSUME SInv, Sufficing, MapClose PROVE LossShape
<1>1. CASE Rejected("CLOSE_MAP", 64)
  BY <1>1, RejectedIsQuiet DEF LossShape
<1>2. ASSUME NEW t, t = MapCloseToken, Accepted("CLOSE_MAP", t.size),
             NEW b, b = [Overlay(buf, write_offset, t) EXCEPT
                           ![OpenHeader].len = SpanLength(t.size)],
             Write(64, t, b, Span(OpenHeader + HDR_SIZE, 2)),
             deep_offset' = deep_offset - 1
      PROVE  LossShape
  <2>1. Top = "MAP_KEY" /\ deep_offset >= 0
    BY <1>2, TopType DEF Accepted, CheckState, SInv, MInv, IInv, StateMatchesStack
  <2>2. buf[OpenHeader].size = OpenerSize(Top) /\ OpenHeader # write_offset
    BY <2>1, TopHeaderSized
  <2>3. buf[OpenHeader].size - HDR_SIZE = 2 /\ 2 \in Nat
    BY <2>1, <2>2 DEF OpenerSize, HDR_SIZE, MAP_OPEN_VALUE_SIZE
  <2>4. t \in Token /\ t.type \in Closers
    BY <1>2, CloseTokenTypes DEF MapCloseToken, Closers
  <2>5. b[write_offset] = t
    BY <1>2, <2>2, <2>4, OverlayAtEnd DEF SInv, MInv, IInv
  <2>6. QED
    BY <1>2, <2>1, <2>3, <2>4, <2>5, CloseDrops
<1>3. QED
  BY <1>1, <1>2 DEF MapClose

(* that of an array four.                                                  *)
LEMMA ArrayCloseDrops ==
  ASSUME SInv, Sufficing, ArrayClose PROVE LossShape
<1>1. CASE Rejected("CLOSE_ARRAY", 16)
  BY <1>1, RejectedIsQuiet DEF LossShape
<1>2. ASSUME NEW t, t = ArrayCloseToken, Accepted("CLOSE_ARRAY", t.size),
             NEW b, b = [Overlay(buf, write_offset, t) EXCEPT
                           ![OpenHeader].len = SpanLength(t.size),
                           ![OpenHeader].nb = U16(array_nb_elems[deep_offset])],
             Write(16, t, b, Span(OpenHeader + HDR_SIZE, 4)),
             deep_offset' = deep_offset - 1
      PROVE  LossShape
  <2>1. Top = "ARRAY_KEY" /\ deep_offset >= 0
    BY <1>2, TopType DEF Accepted, CheckState, SInv, MInv, IInv, StateMatchesStack
  <2>2. buf[OpenHeader].size = OpenerSize(Top) /\ OpenHeader # write_offset
    BY <2>1, TopHeaderSized
  <2>3. buf[OpenHeader].size - HDR_SIZE = 4 /\ 4 \in Nat
    BY <2>1, <2>2 DEF OpenerSize, HDR_SIZE, ARRAY_OPEN_VALUE_SIZE
  <2>4. t \in Token /\ t.type \in Closers
    BY <1>2, CloseTokenTypes DEF ArrayCloseToken, Closers
  <2>5. b[write_offset] = t
    BY <1>2, <2>2, <2>4, OverlayAtEnd DEF SInv, MInv, IInv
  <2>6. QED
    BY <1>2, <2>1, <2>3, <2>4, <2>5, CloseDrops
<1>3. QED
  BY <1>1, <1>2 DEF ArrayClose

(* So every step loses no more than that.                                  *)
LEMMA StepLossShape ==
  ASSUME SInv, CallsReserve, StringsReserve, KeysFit, Sufficing, [Next]_vars
  PROVE  LossShape
<1>1. CASE UNCHANGED vars
  BY <1>1 DEF SInv, MInv, IInv, TypeOK, vars, LossShape, Quiet
<1>2. QED
  BY <1>1, KvAddDrops, ArrayAddDrops, MapOpenDrops, ArrayOpenDrops,
     MapCloseDrops, ArrayCloseDrops DEF Next

(***************************************************************************)
(* SInv is inductive.                                                      *)
(***************************************************************************)
(* The stack keeps what it says of the headers it points at.               *)
LEMMA HeadersStayMatched ==
  ASSUME IInv, HeadersMatch, OpenHeadersSized, KeysFit, Shape
  PROVE  HeadersMatch' /\ OpenHeadersSized'
<1>1. \A d \in 0..deep_offset : map_offset[d] \in DOMAIN buf
  BY DEF IInv, StackPointsAtHeaders
<1>2. CASE Quiet
  BY <1>2 DEF HeadersMatch, OpenHeadersSized, Quiet, nest, mem
<1>3. ASSUME NEW t \in Token, AddShape(t) PROVE HeadersMatch' /\ OpenHeadersSized'
  <2>1. UNCHANGED nest /\ \A o \in DOMAIN buf : buf'[o] = buf[o]
    BY <1>3, AddKeepsContainers DEF AddShape
  <2>2. QED
    BY <1>1, <2>1 DEF HeadersMatch, OpenHeadersSized, nest
<1>4. ASSUME NEW t \in Token, NEW v \in {"MAP_KEY", "ARRAY_KEY"}, OpenShape(t, v)
      PROVE  HeadersMatch' /\ OpenHeadersSized'
  <2>1. /\ \A o \in DOMAIN buf : buf'[o] = buf[o]
        /\ buf'[write_offset] = t /\ t.type = OpenerOf(v)
        /\ map_offset'[deep_offset'] = write_offset /\ deep_value'[deep_offset'] = v
        /\ \A d \in 0..deep_offset : /\ map_offset'[d] = map_offset[d]
                                     /\ deep_value'[d] = deep_value[d]
        /\ \A d \in 0..deep_offset' : d = deep_offset' \/ d \in 0..deep_offset
    BY <1>4, OpenAddsContainer
  <2>2. t.size = OpenerSize(v)
    BY <1>4 DEF OpenShape
  <2>3. QED
    BY <1>1, <2>1, <2>2 DEF HeadersMatch, OpenHeadersSized
<1>5. ASSUME NEW t \in Token, NEW h \in Token, CloseShape(t, h)
      PROVE  HeadersMatch' /\ OpenHeadersSized'
  <2>1. /\ \A d \in 0..deep_offset' :
             /\ d \in 0..deep_offset /\ map_offset'[d] = map_offset[d]
             /\ deep_value'[d] = deep_value[d] /\ map_offset[d] # OpenHeader
    BY <1>5, CloseShutsHeader
  <2>2. \A o \in DOMAIN buf : o # OpenHeader => buf'[o] = buf[o]
    BY <1>5, CloseBuffer
  <2>3. QED
    BY <1>1, <2>1, <2>2 DEF HeadersMatch, OpenHeadersSized
<1>6. QED
  BY <1>2, <1>3, <1>4, <1>5 DEF Shape

(* A token that is no header that a close patches keeps its skeleton.      *)
SkeletonKept(o) == o \in DOMAIN buf /\ Skeleton(o)' = Skeleton(o)
(* One that is written now needs no more than is reserved.                 *)
SkeletonNew(o) ==
  /\ o = write_offset
  /\ \A x \in Skeleton(o)' : o <= x
  /\ \A r \in Nat : Drops(r) => \A x \in Skeleton(o)' : x < o + r
(* The header of what is closed now is written to the end.                 *)
SkeletonPatched(o) ==
  /\ o \in DOMAIN buf /\ deep_offset' < deep_offset
  /\ \A x \in Skeleton(o)' : x \in Skeleton(o) \/ x \in Patched
  /\ \A x \in Patched : x < write_offset

(* A skeleton depends on the token's type and size and on whether it is a  *)
(* closed container.                                                       *)
LEMMA SameSkeleton ==
  ASSUME NEW o, buf'[o].type = buf[o].type, buf'[o].size = buf[o].size,
         o \in Containers' /\ ~IsOpen(o)' <=> o \in Containers /\ ~IsOpen(o)
  PROVE  Skeleton(o)' = Skeleton(o)
BY DEF Skeleton

(* The token that a step appends, which is no closed container.            *)
LEMMA AppendedSkeleton ==
  ASSUME IInv, NEW o, o = write_offset,
         ~(o \in Containers' /\ ~IsOpen(o)')
  PROVE  SkeletonNew(o)
<1>1. write_offset \in Nat
  BY OffsetTypes
<1>2. CASE buf'[o].type = HDR_TYPE_STRING
  <2>1. Skeleton(o)' = Span(o, HDR_SIZE + STRING_VALUE_SIZE)
    BY <1>2 DEF Skeleton
  <2>2. \A r \in Nat : Drops(r) => HDR_SIZE + STRING_VALUE_SIZE <= r
    BY <1>2 DEF Drops
  <2>3. QED
    BY <1>1, <2>1, <2>2 DEF SkeletonNew, Span, HDR_SIZE, STRING_VALUE_SIZE
<1>3. CASE buf'[o].type # HDR_TYPE_STRING
  <2>1. Skeleton(o)' = Span(o, HDR_SIZE)
    BY <1>3 DEF Skeleton
  <2>2. \A r \in Nat : Drops(r) => HDR_SIZE <= r
    BY DEF Drops
  <2>3. QED
    BY <1>1, <2>1, <2>2 DEF SkeletonNew, Span, HDR_SIZE
<1>4. QED
  BY <1>2, <1>3

(* Every token after a step is one of the three.                           *)
LEMMA StepSkeletons ==
  ASSUME SInv, KeysFit, Shape
  PROVE  \/ Quiet
         \/ \A o \in DOMAIN buf' :
              SkeletonKept(o) \/ SkeletonNew(o) \/ SkeletonPatched(o)
<1>1. IInv /\ HeadersMatch
  BY DEF SInv, MInv
<1>2. ASSUME NEW t \in Token, AddShape(t), NEW o \in DOMAIN buf'
      PROVE  SkeletonKept(o) \/ SkeletonNew(o)
  <2>1. /\ Containers' = Containers
        /\ \A p \in DOMAIN buf : buf'[p] = buf[p]
        /\ \A p : IsOpen(p)' <=> IsOpen(p)
    BY <1>1, <1>2, AddKeepsContainers
  <2>2. /\ DOMAIN buf' = DOMAIN buf \cup {write_offset}
        /\ write_offset \notin DOMAIN buf
    BY <1>1, <1>2, OverlayAtEnd DEF IInv, AddShape
  <2>3. CASE o \in DOMAIN buf
    BY <2>1, <2>3, SameSkeleton DEF SkeletonKept
  <2>4. CASE o = write_offset
    <3>1. o \notin Containers'
      BY <2>1, <2>2, <2>4 DEF Containers
    <3>2. QED
      BY <1>1, <2>4, <3>1, AppendedSkeleton
  <2>5. QED
    BY <2>2, <2>3, <2>4
<1>3. ASSUME NEW t \in Token, NEW v \in {"MAP_KEY", "ARRAY_KEY"}, OpenShape(t, v),
             NEW o \in DOMAIN buf'
      PROVE  SkeletonKept(o) \/ SkeletonNew(o)
  <2>1. /\ Containers' = Containers \cup {write_offset}
        /\ \A p \in DOMAIN buf : buf'[p] = buf[p] /\ p < write_offset
        /\ \A p \in DOMAIN buf : IsOpen(p)' <=> IsOpen(p)
        /\ \A p : p = write_offset => IsOpen(p)'
    BY <1>1, <1>3, OpenAddsContainer
  <2>2. /\ DOMAIN buf' = DOMAIN buf \cup {write_offset}
        /\ write_offset \notin DOMAIN buf
    BY <1>1, <1>3, OverlayAtEnd DEF IInv, OpenShape
  <2>3. CASE o \in DOMAIN buf
    <3>1. o \in Containers' <=> o \in Containers
      BY <2>1, <2>2, <2>3
    <3>2. QED
      BY <2>1, <2>3, <3>1, SameSkeleton DEF SkeletonKept
  <2>4. CASE o = write_offset
    BY <1>1, <2>1, <2>4, AppendedSkeleton
  <2>5. QED
    BY <2>2, <2>3, <2>4
<1>4. ASSUME NEW t \in Token, NEW h \in Token, CloseShape(t, h), NEW o \in DOMAIN buf'
      PROVE  SkeletonKept(o) \/ SkeletonNew(o) \/ SkeletonPatched(o)
  <2>1. /\ DOMAIN buf' = DOMAIN buf \cup {write_offset}
        /\ write_offset \notin DOMAIN buf /\ OpenHeader \in DOMAIN buf
        /\ \A p \in DOMAIN buf : buf'[p].size = buf[p].size /\ buf'[p].type = buf[p].type
    BY <1>1, <1>4, CloseBuffer
  <2>2. /\ Containers' = Containers
        /\ \A p : IsOpen(p)' <=> IsOpen(p) /\ p # OpenHeader
    BY <1>1, <1>4, CloseShutsHeader
  <2>3. CASE o \in DOMAIN buf /\ o # OpenHeader
    BY <2>1, <2>2, <2>3, SameSkeleton DEF SkeletonKept
  <2>4. CASE o = write_offset
    <3>1. o \notin Containers'
      BY <2>1, <2>2, <2>4 DEF Containers
    <3>2. QED
      BY <1>1, <2>4, <3>1, AppendedSkeleton
  <2>5. CASE o = OpenHeader
    <3>1. /\ deep_offset >= 0 /\ deep_offset' < deep_offset /\ deep_offset \in Int
      BY <1>1, <1>4, OffsetTypes DEF CloseShape
    <3>2. /\ IsOpen(o) /\ o \in Containers /\ o \in Nat
          /\ buf[o].size \in Nat /\ buf[o].size >= HDR_SIZE
          /\ o + buf[o].size <= write_offset
      <4>1. IsOpen(o) /\ o \in Containers
        BY <1>1, <2>5, <3>1, HeaderIsOpen
      <4>2. buf[o].size = OpenerSize(Top)
        BY <2>5, <3>1, TopHeaderSized
      <4>3. buf[o].size \in Nat /\ buf[o].size >= HDR_SIZE
        BY <4>2 DEF OpenerSize, HDR_SIZE, MAP_OPEN_VALUE_SIZE, ARRAY_OPEN_VALUE_SIZE
      <4>4. QED
        BY <1>1, <4>1, <4>3, TokenTypes DEF IInv, TokensInOrder, Containers
    <3>3. buf[o].type # HDR_TYPE_STRING
      BY <3>2 DEF Containers, Openers, HDR_TYPE_STRING, HDR_TYPE_MAP_OPEN,
                  HDR_TYPE_ARRAY_OPEN
    <3>4. Skeleton(o) = Span(o, HDR_SIZE)
      BY <3>2, <3>3 DEF Skeleton
    <3>5. Skeleton(o)' = Span(o, buf[o].size)
      BY <2>1, <2>2, <2>5, <3>2, <3>3 DEF Skeleton
    <3>6. Patched = Span(o + HDR_SIZE, buf[o].size - HDR_SIZE)
      BY <2>5 DEF Patched
    <3>7. \A x \in Skeleton(o)' : x \in Skeleton(o) \/ x \in Patched
      <4>1. \A x \in Span(o, buf[o].size) :
              x \in Span(o, HDR_SIZE) \/ x \in Span(o + HDR_SIZE, buf[o].size - HDR_SIZE)
        BY <3>2, SpanSplits DEF HDR_SIZE
      <4>2. QED
        BY <3>4, <3>5, <3>6, <4>1
    <3>8. \A x \in Patched : x < write_offset
      <4>1. \A x \in Span(o + HDR_SIZE, buf[o].size - HDR_SIZE) : x < o + buf[o].size
        BY <3>2, SpanSplits DEF HDR_SIZE
      <4>2. \A x \in Patched : x \in Int
        BY <3>6 DEF Span
      <4>3. write_offset \in Int /\ o + buf[o].size \in Int
        BY <1>1, <3>2, OffsetTypes
      <4>4. QED
        BY <3>2, <3>6, <4>1, <4>2, <4>3
    <3>9. QED
      BY <2>1, <2>5, <3>1, <3>7, <3>8 DEF SkeletonPatched
  <2>6. QED
    BY <2>1, <2>3, <2>4, <2>5
<1>5. QED
  BY <1>2, <1>3, <1>4 DEF Shape

(* What a step loses is in no skeleton.                                    *)
LEMMA DropsKeepSkeletons ==
  ASSUME SInv, ChunkSuffices, NEW r \in Nat, Drops(r),
         \A o \in DOMAIN buf' :
           SkeletonKept(o) \/ SkeletonNew(o) \/ SkeletonPatched(o)
  PROVE  SkeletonFits' /\ SkeletonSurvives'
<1>1. /\ write_offset \in Nat /\ mem_size \in Nat /\ mem_size' \in Nat
      /\ mem_size' >= mem_size /\ mem_size' >= write_offset + r
      /\ lost' \subseteq lost \cup Overrun
  BY OffsetTypes DEF SInv, MInv, IInv, TypeOK, Drops
<1>2. \A x \in lost' : x \in lost \/ (x \in Int /\ mem_size <= x /\ x < write_offset)
  BY <1>1 DEF Overrun
<1>3. ASSUME NEW o \in DOMAIN buf', SkeletonKept(o)
      PROVE  \A x \in Skeleton(o)' : x < mem_size' /\ x \notin lost'
  <2>1. \A x \in Skeleton(o) : x < mem_size /\ x \notin lost /\ x \in Int
    <3>1. \A x \in Skeleton(o) : x \in Int
      BY DEF Skeleton, Span
    <3>2. QED
      BY <1>3, <3>1 DEF SkeletonKept, SInv, SkeletonFits, SkeletonSurvives
  <2>2. QED
    BY <1>1, <1>2, <1>3, <2>1 DEF SkeletonKept
<1>4. ASSUME NEW o \in DOMAIN buf', SkeletonNew(o)
      PROVE  \A x \in Skeleton(o)' : x < mem_size' /\ x \notin lost'
  <2>1. \A x \in Skeleton(o)' : x \in Int /\ write_offset <= x /\ x < write_offset + r
    <3>1. \A x \in Skeleton(o)' : x \in Int
      BY DEF Skeleton, Span
    <3>2. QED
      BY <1>4, <3>1 DEF SkeletonNew
  <2>2. \A x \in lost : x < write_offset /\ x \in Int
    BY DEF SInv, MInv, IInv, TypeOK, LostIsBehind
  <2>3. QED
    BY <1>1, <1>2, <2>1, <2>2
<1>5. ASSUME NEW o \in DOMAIN buf', SkeletonPatched(o)
      PROVE  \A x \in Skeleton(o)' : x < mem_size' /\ x \notin lost'
  <2>1. lost' \cap Patched = {}
    BY <1>5 DEF SkeletonPatched, Drops
  <2>2. \A x \in Patched : x < mem_size' /\ x \notin lost'
    <3>1. \A x \in Patched : x \in Int /\ x < write_offset
      BY <1>5 DEF SkeletonPatched, Patched, Span
    <3>2. QED
      BY <1>1, <2>1, <3>1
  <2>3. \A x \in Skeleton(o) : x < mem_size' /\ x \notin lost'
    <3>1. \A x \in Skeleton(o) : x \in Int
      BY DEF Skeleton, Span
    <3>2. \A x \in Skeleton(o) : x < mem_size /\ x \notin lost
      BY <1>5 DEF SkeletonPatched, SInv, SkeletonFits, SkeletonSurvives
    <3>3. QED
      BY <1>1, <1>2, <3>1, <3>2
  <2>4. QED
    BY <1>5, <2>2, <2>3 DEF SkeletonPatched
<1>6. QED
  BY <1>3, <1>4, <1>5 DEF SkeletonFits, SkeletonSurvives

(* No step moves write_offset back.                                        *)
LEMMA StepAdvances ==
  ASSUME IInv, Shape PROVE write_offset' >= write_offset
<1>1. write_offset \in Nat /\ \A t \in Token : t.size \in Nat
  BY OffsetTypes, TokenTypes
<1>2. CASE Quiet
  BY <1>1, <1>2 DEF Quiet, mem
<1>3. ASSUME NEW t \in Token, Appends(t) PROVE write_offset' >= write_offset
  BY <1>1, <1>3 DEF Appends
<1>4. QED
  BY <1>2, <1>3 DEF Shape, AddShape, OpenShape, CloseShape

(* Every step preserves the invariant,                                     *)
LEMMA SkeletonStep ==
  ASSUME SInv, CallsReserve, StringsReserve, KeysFit, [Next]_vars PROVE SInv'
<1>1. IInv /\ MInv /\ Shape
  BY StepShape DEF SInv, MInv
<1>2. MInv'
  BY <1>1, MemoryStep
<1>3. HeadersMatch' /\ OpenHeadersSized'
  BY <1>1, HeadersStayMatched DEF SInv
<1>4. CASE Quiet
  <2>1. UNCHANGED <<fixed, buf, mem_size, lost, write_offset, deep_offset, map_offset, short>>
    BY <1>4 DEF Quiet, mem, nest
  <2>2. \A o \in DOMAIN buf : Skeleton(o)' = Skeleton(o)
    BY <2>1 DEF Skeleton, Containers, IsOpen
  <2>3. ChunkSuffices' <=> ChunkSuffices
    BY <2>1 DEF ChunkSuffices, Chunk, fixed
  <2>4. QED
    BY <1>2, <1>3, <2>1, <2>2, <2>3 DEF SInv, SkeletonFits, LostIsBehind, SkeletonSurvives
<1>5. CASE ~Quiet /\ ~ChunkSuffices'
  BY <1>2, <1>3, <1>5 DEF SInv, SkeletonSurvives
<1>6. CASE ~Quiet /\ ChunkSuffices'
  <2>1. Sufficing /\ ChunkSuffices
    BY <1>1, <1>2, <1>6, StepGrows, SufficedBefore DEF Sufficing, MInv
  <2>2. PICK r \in Nat : Drops(r)
    BY <1>6, <2>1, StepLossShape DEF LossShape
  <2>3. SkeletonFits' /\ SkeletonSurvives'
    BY <1>1, <1>6, <2>1, <2>2, StepSkeletons, DropsKeepSkeletons
  <2>4. write_offset' >= write_offset
    BY <1>1, StepAdvances
  <2>5. LostIsBehind'
    <3>1. lost' \subseteq lost \cup Overrun /\ lost \subseteq Int
      BY <1>1, <2>2 DEF Drops, IInv, TypeOK
    <3>2. write_offset \in Nat /\ write_offset' \in Int /\ mem_size \in Nat
      BY <1>2, OffsetTypes DEF SInv, MInv, IInv, TypeOK
    <3>3. \A x \in Overrun : x \in Int /\ x < write_offset
      BY <3>2 DEF Overrun
    <3>4. \A x \in lost : x < write_offset
      BY <2>1 DEF SInv, LostIsBehind
    <3>5. QED
      BY <2>4, <3>1, <3>2, <3>3, <3>4 DEF LostIsBehind
  <2>6. QED
    BY <1>2, <1>3, <2>3, <2>5 DEF SInv
<1>7. QED
  BY <1>4, <1>5, <1>6

(* and bkv_create, which loses nothing, establishes it.                    *)
LEMMA InitSInv ==
  ASSUME Init PROVE SInv
<1>1. DOMAIN buf = {} /\ lost = {} /\ 0..deep_offset = {}
  BY DEF Init
<1>2. QED
  BY <1>1, InitMInv DEF SInv, HeadersMatch, OpenHeadersSized, SkeletonFits,
                        LostIsBehind, SkeletonSurvives

(* A move of the block may drop the bytes that a short reservation left    *)
(* past its end (bkv.c:392, 412, 515, 605, 723).  Whatever it drops, a     *)
(* reader can still step from token to token as long as ChunkSuffices: no  *)
(* header, string length or container length is lost, only values of       *)
(* scalars.                                                                *)
THEOREM OnlyValuesAreLost ==
  ASSUME CallsReserve, StringsReserve, KeysFit PROVE Spec => []SkeletonSurvives
<1>1. Init => SInv
  BY InitSInv
<1>2. SInv /\ [Next]_vars => SInv'
  BY SkeletonStep
<1>3. SInv => SkeletonSurvives
  BY DEF SInv
<1>4. QED
  BY <1>1, <1>2, <1>3, PTL DEF Spec
==============================================================================

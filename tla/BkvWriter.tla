------------------------------ MODULE BkvWriter ------------------------------
(***************************************************************************)
(* A bkv handle that is being written, bkv.c: bkv_create in its two        *)
(* writing modes (RAM and a new file), every bkv_kv_* call and the memory  *)
(* growth of bkv_prepare.  A call of the API is one action; each action    *)
(* covers the accepted call and every early return.                        *)
(***************************************************************************)
EXTENDS BkvHeader, FiniteSets

CONSTANTS
  DefaultChunk,  \* BKV_DEFAULT_MEM_CHUNK_SIZE: 128 in the code
  ChunkSizes,    \* the mem_chunk_size values given to bkv_create; -1 = default
  HandleKinds,   \* what bkv_create makes: a subset of {"ram", "file"}
  KvAdds,        \* the keyed scalar adds the client calls (see BkvHeader)
  ArrayAdds,     \* the array element adds the client calls
  Keys,          \* the keys given to the keyed adds
  OpenKeys,      \* the keys given to map_open and array_open
  Stale,         \* a 16-bit value that uninitialised heap memory may hold
  AllocMayFail,  \* whether realloc, ftruncate and mmap may fail
  MaxDepth,      \* entries of deep_value[], map_offset[]: 32 in the code
  MaxBytes       \* bound: no call takes write_offset past it

ASSUME ChunkAssumption ==
  /\ DefaultChunk \in Nat \ {0}
  /\ ChunkSizes \subseteq (Nat \ {0}) \cup {-1}
  /\ HandleKinds \subseteq {"ram", "file"}
ASSUME AddsAssumption ==
  /\ KvAdds \subseteq KvAddType
  /\ ArrayAdds \subseteq ArrayAddType
  /\ \A a \in KvAdds \cup ArrayAdds : a.type \notin Openers \cup Closers
ASSUME KeysAssumption ==
  /\ Keys \subseteq 0..UINT16_MAX
  /\ OpenKeys \subseteq 0..UINT16_MAX
ASSUME BoundsAssumption ==
  /\ Stale \in 0..UINT16_MAX
  /\ AllocMayFail \in BOOLEAN
  /\ MaxDepth \in 1..32
  /\ MaxBytes \in Nat

VARIABLES
  backing,         \* "ram" or "file" (fd = -1 or not)
  mem_chunk_size,
  state,           \* STATE_*
  mem_size,        \* bytes allocated (ram) or mapped (file)
  write_offset,
  deep_offset,     \* index of the innermost open container; -1: none
  deep_value,      \* "MAP_KEY", "ARRAY_KEY" or "0" for each depth
  map_offset,      \* where the container open at each depth starts
  array_nb_elems,  \* elements counted at each depth
  buf,             \* offset -> the token that starts there
  lost,            \* bytes written past mem_size and dropped by a move
  short,           \* history: a call went on without the room it asked for
  ret              \* what the last call returned

fixed == <<backing, mem_chunk_size>>
nest  == <<state, deep_offset, deep_value, map_offset>>
mem   == <<mem_size, write_offset, buf, lost, short>>
vars  == <<fixed, nest, array_nb_elems, mem, ret>>

Depths == 0 .. MaxDepth - 1
NoTop == "none"
Codes == {"BKV_OK", "BKV_KO", "BKV_HDL_INV", "BKV_HDL_ERR", "BKV_HDL_MEM", "BKV_INV_ARG",
          "BKV_INV_STATE", "BKV_KEY_OUT_OF_RANGE"}

(***************************************************************************)
(* Reading the handle.                                                     *)
(***************************************************************************)
Top == IF deep_offset = -1 THEN NoTop ELSE deep_value[deep_offset]

CheckState_NestedArrays(s, t, a) ==    \* mutant: an array opens in an array
  \/ s = "STATE_INIT" /\ a = "OPEN_MAP"
  \/ s = "STATE_IN_MAP" /\ a \in {"SET_KEY", "CLOSE_MAP", "OPEN_MAP", "OPEN_ARRAY"}
  \/ s = "STATE_IN_ARRAY"
     /\ a \in {"OPEN_MAP", "OPEN_ARRAY", "SET_ARRAY_KEY", "CLOSE_ARRAY"}
CheckState(s, t, a) ==
  \/ s = "STATE_INIT" /\ a = "OPEN_MAP"
  \/ /\ s = "STATE_IN_MAP"
     /\ \/ t = "MAP_KEY" /\ a \in {"SET_KEY", "CLOSE_MAP", "OPEN_MAP", "OPEN_ARRAY"}
        \/ t = "ARRAY_KEY" /\ a \in {"OPEN_MAP", "OPEN_ARRAY"}
  \/ s = "STATE_IN_ARRAY" /\ a \in {"OPEN_MAP", "SET_ARRAY_KEY", "CLOSE_ARRAY"}

Chunk == IF mem_chunk_size = -1 THEN DefaultChunk ELSE mem_chunk_size
MustGrow_Late(bits) == mem_size < write_offset   \* mutant: forgets the need
MustGrow(bits) == mem_size < write_offset + bits \div 8
GrownSize_Rounded == (mem_size \div Chunk) * Chunk   \* mutant: adds no chunk
GrownSize == (mem_size \div Chunk + 1) * Chunk

(***************************************************************************)
(* bkv_prepare.  It adds one chunk, whatever the need.  A refused realloc  *)
(* or mmap is reported by a code that no caller tests, so the call goes on *)
(* with the old block (a file's first mmap is another matter: there is no  *)
(* old block, and the process stops).  Bytes that were written past        *)
(* mem_size may or may not follow the block when it moves.                 *)
(***************************************************************************)
Overrun == mem_size .. write_offset - 1

Reserve(bits, written) ==
  \/ /\ ~MustGrow(bits)
     /\ mem_size' = mem_size
     /\ lost' = lost \ written
     /\ short' = short
  \/ /\ MustGrow(bits)
     /\ mem_size' = GrownSize
     /\ lost' \in {lost \ written, (lost \cup Overrun) \ written}
     /\ short' = short
  \/ /\ MustGrow(bits) /\ AllocMayFail /\ (backing = "file" => mem_size > 0)
     /\ mem_size' = mem_size
     /\ lost' = lost \ written
     /\ short' = TRUE

(* Only a refused ftruncate is seen by the callers.                        *)
PrepareRefused(bits) == AllocMayFail /\ backing = "file" /\ MustGrow(bits)

(***************************************************************************)
(* Writing.                                                                *)
(***************************************************************************)
Span(o, n) == o .. o + n - 1

(* b with token t written at o, over whatever was there.                   *)
Overlay(b, o, t) ==
  [x \in {y \in DOMAIN b : y + b[y].size <= o \/ y >= o + t.size} \cup {o} |->
     IF x = o THEN t ELSE b[x]]

(* What the header fields of a container read as before they are patched:  *)
(* only a file and the first chunk of a RAM handle are zeroed.             *)
Uninit(o) ==
  IF (backing = "file" \/ o + HDR_SIZE + ARRAY_OPEN_VALUE_SIZE <= DefaultChunk)
     /\ \A x \in DOMAIN buf : x < o
  THEN {0} ELSE {0, Stale}

Refuse(code) == ret' = code /\ UNCHANGED <<fixed, nest, array_nb_elems, mem>>

(* The early returns every call has.                                       *)
Rejected(a, bits) ==
  \/ ~CheckState(state, Top, a) /\ Refuse("BKV_HDL_INV")
  \/ /\ CheckState(state, Top, a) /\ PrepareRefused(bits)
     /\ Refuse("BKV_INV_STATE")

Accepted(a, size) ==
  /\ CheckState(state, Top, a)
  /\ write_offset + size <= MaxBytes      \* bound

(* Reserves, writes token t at write_offset and stores b as the buffer.    *)
Write(bits, t, b, patched) ==
  /\ Reserve(bits, Span(write_offset, t.size) \cup patched)
  /\ buf' = b
  /\ write_offset' = write_offset + t.size
  /\ ret' = "BKV_OK"
  /\ UNCHANGED fixed

ScalarToken(a, key) ==
  [type |-> HdrType(a.type, key), key |-> HdrKey(key), size |-> a.size,
   len |-> a.len, nb |-> 0]

(***************************************************************************)
(* The calls.                                                              *)
(***************************************************************************)
KvAdd(a, key) ==
  \/ key > MAX_KEY /\ Refuse("BKV_KEY_OUT_OF_RANGE")
  \/ key <= MAX_KEY /\ Rejected("SET_KEY", a.bits)
  \/ LET t == ScalarToken(a, key)
     IN  /\ key <= MAX_KEY
         /\ Accepted("SET_KEY", a.size)
         /\ Write(a.bits, t, Overlay(buf, write_offset, t), {})
         /\ UNCHANGED <<nest, array_nb_elems>>

ArrayAdd(a) ==
  \/ Rejected("SET_ARRAY_KEY", a.bits)
  \/ LET t == ScalarToken(a, BKV_ARRAY_KEY)
     IN  /\ Accepted("SET_ARRAY_KEY", a.size)
         /\ Write(a.bits, t, Overlay(buf, write_offset, t), {})
         /\ array_nb_elems' = IF a.counted
                              THEN [array_nb_elems EXCEPT ![deep_offset] = @ + 1]
                              ELSE array_nb_elems
         /\ UNCHANGED nest

(* Enters the container written at write_offset.                           *)
Push(value, newState) ==
  /\ map_offset' = [map_offset EXCEPT ![deep_offset + 1] = write_offset]
  /\ deep_offset' = deep_offset + 1
  /\ deep_value' = [deep_value EXCEPT ![deep_offset + 1] = value]
  /\ state' = newState

RoomToPush_OffByOne == deep_offset < MaxDepth        \* mutant
RoomToPush == deep_offset + 1 < MaxDepth   \* bound: the code does not test it

MapOpen(key) ==
  \/ Rejected("OPEN_MAP", 32)
  \/ \E len \in Uninit(write_offset) :
       LET t == [type |-> HdrType(HDR_TYPE_MAP_OPEN, key), key |-> HdrKey(key),
                 size |-> HDR_SIZE + MAP_OPEN_VALUE_SIZE, len |-> len, nb |-> 0]
       IN  /\ Accepted("OPEN_MAP", t.size) /\ RoomToPush
           /\ Write(32, t, Overlay(buf, write_offset, t), {})
           /\ Push("MAP_KEY", "STATE_IN_MAP")
           /\ UNCHANGED array_nb_elems

ArrayOpen(key) ==
  \/ Rejected("OPEN_ARRAY", 16)
  \/ \E len \in Uninit(write_offset) :
       LET t == [type |-> HdrType(HDR_TYPE_ARRAY_OPEN, key), key |-> HdrKey(key),
                 size |-> HDR_SIZE + ARRAY_OPEN_VALUE_SIZE, len |-> len, nb |-> len]
       IN  /\ Accepted("OPEN_ARRAY", t.size) /\ RoomToPush
           /\ Write(16, t, Overlay(buf, write_offset, t), {})
           /\ Push("ARRAY_KEY", "STATE_IN_ARRAY")
           /\ UNCHANGED array_nb_elems

(* The length a closing token of n bytes puts in the container's header.   *)
SpanLength_BeforeToken(n) ==           \* mutant: taken before the token
  U16(write_offset - map_offset[deep_offset])
SpanLength(n) == U16(write_offset + n - map_offset[deep_offset])

(* The state after the innermost container is closed.                      *)
Resumed_FromClosed ==                  \* mutant: looks at what it closed
  IF deep_offset = 0 THEN "STATE_TERM"
  ELSE IF deep_value[deep_offset] = "MAP_KEY" THEN "STATE_IN_MAP"
  ELSE "STATE_IN_ARRAY"
Resumed ==
  IF deep_offset = 0 THEN "STATE_TERM"
  ELSE IF deep_value[deep_offset - 1] = "MAP_KEY" THEN "STATE_IN_MAP"
  ELSE "STATE_IN_ARRAY"

(* The second header byte of a closing token, which ends its key, is left  *)
(* as it was (bkv.c:577, 731).  Nothing reads the key of a closer.         *)
MapCloseToken ==
  [type |-> HDR_TYPE_MAP_CLOSE, key |-> BKV_NO_KEY,
   size |-> HDR_SIZE + MAP_CLOSE_VALUE_SIZE, len |-> 0, nb |-> 0]
ArrayCloseToken ==
  [type |-> HDR_TYPE_ARRAY_CLOSE, key |-> BKV_NO_KEY,
   size |-> HDR_SIZE + ARRAY_CLOSE_VALUE_SIZE, len |-> 0, nb |-> 0]

(* The header that a close patches: that of the innermost open container.  *)
OpenHeader_Root == map_offset[0]       \* mutant: always the outermost
OpenHeader == map_offset[deep_offset]

MapClose ==
  \/ Rejected("CLOSE_MAP", 64)
  \/ LET t == MapCloseToken
     IN  /\ Accepted("CLOSE_MAP", t.size)
         /\ Write(64, t,
                  [Overlay(buf, write_offset, t) EXCEPT
                     ![OpenHeader].len = SpanLength(t.size)],
                  Span(OpenHeader + HDR_SIZE, 2))
         /\ deep_offset' = deep_offset - 1
         /\ state' = Resumed
         /\ UNCHANGED <<deep_value, map_offset, array_nb_elems>>

(* assert(-1) at depth -1 does nothing: the state is then left alone.      *)
ArrayClose ==
  \/ Rejected("CLOSE_ARRAY", 16)
  \/ LET t == ArrayCloseToken
     IN  /\ Accepted("CLOSE_ARRAY", t.size)
         /\ Write(16, t,
                  [Overlay(buf, write_offset, t) EXCEPT
                     ![OpenHeader].len = SpanLength(t.size),
                     ![OpenHeader].nb = U16(array_nb_elems[deep_offset])],
                  Span(OpenHeader + HDR_SIZE, 4))
         /\ deep_value' = [deep_value EXCEPT ![deep_offset] = "0"]
         /\ deep_offset' = deep_offset - 1
         /\ state' = IF deep_offset = 0 THEN state ELSE Resumed
         /\ UNCHANGED <<map_offset, array_nb_elems>>

(* bkv_append of handle a: its bytes are put behind the last token, and the*)
(* block is made as long as that takes, and no longer.                     *)
Joined(a) ==
  [o \in {x \in DOMAIN buf : x < write_offset}
         \cup {write_offset + y : y \in DOMAIN a.buf} |->
     IF o < write_offset THEN buf[o] ELSE a.buf[o - write_offset]]

AppendHandle(a) ==
  LET size == write_offset + a.size
  IN  /\ mem_size' = IF size > mem_size THEN size ELSE mem_size
      /\ buf' = Joined(a)
      /\ write_offset' = size
      /\ \E moved \in {{}, IF size > mem_size THEN Overrun ELSE {}} :
           lost' = (lost \cup moved) \ Span(write_offset, a.size)
      /\ short' = short

(* bkv_create in a writing mode.                                           *)
Init ==
  /\ backing \in HandleKinds
  /\ mem_chunk_size \in ChunkSizes
  /\ state = "STATE_INIT"
  /\ mem_size = IF backing = "ram" THEN DefaultChunk ELSE 0
  /\ write_offset = 0
  /\ deep_offset = -1
  /\ deep_value = [d \in Depths |-> "0"]
  /\ map_offset = [d \in Depths |-> 0]
  /\ array_nb_elems = [d \in Depths |-> 0]
  /\ buf = [o \in {} |-> 0]
  /\ lost = {}
  /\ short = FALSE
  /\ ret = "BKV_OK"

Next ==
  \/ \E a \in KvAdds, k \in Keys : KvAdd(a, k)
  \/ \E a \in ArrayAdds : ArrayAdd(a)
  \/ \E k \in OpenKeys : MapOpen(k)
  \/ \E k \in OpenKeys : ArrayOpen(k)
  \/ MapClose
  \/ ArrayClose

Spec == Init /\ [][Next]_vars

(***************************************************************************)
(* Vocabulary of the properties.                                           *)
(***************************************************************************)
Containers == {o \in DOMAIN buf : buf[o].type \in Openers}
IsOpen(o) == \E d \in 0..deep_offset : map_offset[d] = o
CloserOf(type) == IF type = HDR_TYPE_MAP_OPEN THEN HDR_TYPE_MAP_CLOSE
                  ELSE HDR_TYPE_ARRAY_CLOSE

TypeOK ==
  /\ backing \in HandleKinds
  /\ mem_chunk_size \in ChunkSizes
  /\ state \in {"STATE_INIT", "STATE_IN_MAP", "STATE_IN_ARRAY", "STATE_TERM"}
  /\ mem_size \in Nat
  /\ write_offset \in 0..MaxBytes
  /\ deep_offset \in -1 .. MaxDepth - 1
  /\ deep_value \in [Depths -> {"MAP_KEY", "ARRAY_KEY", "0"}]
  /\ map_offset \in [Depths -> 0..MaxBytes]
  /\ array_nb_elems \in [Depths -> Nat]
  /\ DOMAIN buf \subseteq 0..MaxBytes
  /\ buf \in [DOMAIN buf -> Token]
  /\ lost \subseteq 0..MaxBytes
  /\ short \in BOOLEAN
  /\ ret \in Codes

(* `state`, which admits the calls, and the stack deep_value[], which says  *)
(* what the next close resumes, are kept apart by every call (bkv.c:556,   *)
(* 585-590, 617, 750-756).  They always tell the same story.               *)
StateMatchesStack ==
  /\ state = "STATE_IN_MAP" <=> Top = "MAP_KEY"
  /\ state = "STATE_IN_ARRAY" <=> Top = "ARRAY_KEY"
  /\ state = "STATE_INIT" <=> (deep_offset = -1 /\ write_offset = 0)

(* The outermost container is a map and an array is opened in a map only,  *)
(* so bkv_kv_array_close never comes to assert(-1) at bkv.c:752, where the *)
(* handle would be left in STATE_IN_ARRAY with an empty stack.             *)
ArraysOnlyInMaps ==
  \A d \in 0..deep_offset :
    /\ deep_value[d] \in {"MAP_KEY", "ARRAY_KEY"}
    /\ deep_value[d] = "ARRAY_KEY" => d > 0 /\ deep_value[d - 1] = "MAP_KEY"

(* bkv_val.c hops over a map by the length in its header.  The header of a *)
(* closed container leads exactly past the token that closed it, and the   *)
(* span it delimits holds no container that is still open.                 *)
LengthsDelimit ==
  \A o \in Containers :
    ~IsOpen(o) =>
      /\ o + buf[o].len <= write_offset
      /\ \E c \in DOMAIN buf :
           /\ buf[c].type = CloserOf(buf[o].type)
           /\ c + buf[c].size = o + buf[o].len
      /\ \A p \in Containers : IsOpen(p) => p < o \/ o + buf[o].len <= p

(* bkv_kv_closed answers true (bkv.c:243) only for one whole map: the root *)
(* header's length is the length bkv_get_head returns.                     *)
ClosedIsWhole ==
  state = "STATE_TERM" => 0 \in DOMAIN buf /\ buf[0].len = write_offset

(* bkv_prepare adds one chunk whatever the need.  That is room enough in a *)
(* block of whole chunks, none of them too small for the end of an array's *)
(* header and the start of a string, as long as no growth was refused      *)
(* without the call noticing and no token is longer than a chunk.  Where   *)
(* one is (bkv.c:294), or a call went on after a refusal (bkv.c:392), what *)
(* comes next is written past the block, headers included; nothing is said *)
(* of such documents.                                                      *)
ChunkSuffices ==
  /\ ~short
  /\ ARRAY_OPEN_VALUE_SIZE + HDR_SIZE + STRING_VALUE_SIZE <= Chunk
  /\ backing = "ram" => (DefaultChunk \div Chunk) * Chunk = DefaultChunk
  /\ \A o \in DOMAIN buf : buf[o].size <= Chunk

(* Calls may also ask for less than they write (bkv.c:392, 412, 515, 605,  *)
(* 723).  While a chunk is enough, only the token written last sticks out  *)
(* of the block, and its header does not.                                  *)
OnlyLastTokenOverruns ==
  ChunkSuffices =>
    \A o \in DOMAIN buf :
      o + buf[o].size > mem_size =>
        /\ o + buf[o].size = write_offset
        /\ o + HDR_SIZE <= mem_size

(* bkv_finalize cuts a file to mem_size (bkv.c:220): while a chunk is      *)
(* enough, that keeps all of a document that is closed.                    *)
FinishedFits == ChunkSuffices /\ state = "STATE_TERM" => write_offset <= mem_size

(* The bytes a reader needs to step from token to token: every header, the *)
(* length of a string, the length and count of a closed container.         *)
Skeleton(o) ==
  Span(o, IF buf[o].type = HDR_TYPE_STRING
          THEN HDR_SIZE + STRING_VALUE_SIZE
          ELSE IF o \in Containers /\ ~IsOpen(o) THEN buf[o].size
          ELSE HDR_SIZE)

(* Whatever a move of the block drops of the bytes written past its end,   *)
(* the document can still be walked: while a chunk is enough, only scalar  *)
(* values are ever lost.                                                   *)
SkeletonSurvives ==
  ChunkSuffices => \A o \in DOMAIN buf : Skeleton(o) \cap lost = {}

(* Only a container that was open can change once written; every other     *)
(* token stays as it is, and none is overwritten.                          *)
AppendOnly ==
  [][\A o \in DOMAIN buf :
       /\ o \in DOMAIN buf'
       /\ buf'[o] # buf[o] => o \in Containers /\ IsOpen(o) /\ ~IsOpen(o)']_vars

(* bkv.c:738 "set the number of elements of the array in its header":      *)
(* the count of a closed array is the number of scalars added to it.       *)
Elements(o) ==
  {e \in DOMAIN buf :
     /\ buf[e].type \notin Openers \cup Closers
     /\ o < e /\ e < o + buf[o].len
     /\ ~ \E p \in Containers : o < p /\ p < e /\ e < p + buf[p].len}
ArrayCountsExact ==
  \A o \in Containers :
    buf[o].type = HDR_TYPE_ARRAY_OPEN /\ ~IsOpen(o)
      => buf[o].nb = Cardinality(Elements(o))

(***************************************************************************)
(* The tree of BkvDoc, read back from the buffer: a node's parent is the   *)
(* innermost container whose span, or open end, covers it.                 *)
(***************************************************************************)
Nodes == {o \in DOMAIN buf : buf[o].type \notin Closers}
NodeKind ==
  [o \in Nodes |-> IF buf[o].type = HDR_TYPE_MAP_OPEN THEN "map"
                   ELSE IF buf[o].type = HDR_TYPE_ARRAY_OPEN THEN "array"
                   ELSE "leaf"]
Enclosing(o) ==
  {p \in Containers : p < o /\ (IsOpen(p) \/ o < p + buf[p].len)}
Innermost(E) == IF E = {} THEN -1 ELSE CHOOSE p \in E : \A q \in E : q <= p
NodeParent == [o \in Nodes |-> Innermost(Enclosing(o))]
OpenPath == [i \in 1 .. deep_offset + 1 |-> map_offset[i - 1]]

Doc == INSTANCE BkvDoc
         WITH Ids <- 0..MaxBytes, kind <- NodeKind, parent <- NodeParent,
              path <- OpenPath

(* Every call of the writer adds what BkvDoc says, where it says: the      *)
(* lengths patched into the headers always spell the tree the calls built. *)
RefinesDoc == Doc!Spec
==============================================================================

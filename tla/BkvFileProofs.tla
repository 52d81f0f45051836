---------------------------- MODULE BkvFileProofs ----------------------------
(***************************************************************************)
(* Proofs about documents in files, for every value of the constants with  *)
(* keys of twelve bits and documents whose size fits a 16-bit length.      *)
(***************************************************************************)
EXTENDS BkvFile, BkvWriterProofs

Assumptions == KeysFit /\ MaxBytes <= UINT16_MAX

(***************************************************************************)
(* The writer, before any insertion.                                       *)
(***************************************************************************)
(* A file is zeroed where nothing was written: the length of a container   *)
(* reads 0 until the container is closed.                                  *)
OpenLengthsZero == \A o \in Containers : IsOpen(o) => buf[o].len = 0

WritesFile ==
  /\ LInv
  /\ backing = "file" => OpenLengthsZero

(* The value a client inserts after is in the buffer, or past it.          *)
HoldsValue == /\ val.priv \in Int
              /\ val = [priv |-> val.priv, deep_offset |-> val.deep_offset]

(* The containers of b are closed, or read as not.                         *)
ShowsUnclosed(b) ==
  \A o \in DOMAIN b : b[o].type \in Openers =>
    \/ b[o].len = 0
    \/ \E c \in DOMAIN b : /\ b[c].type = CloserOf(b[o].type)
                           /\ c + b[c].size = o + b[o].len

FInv ==
  /\ mode \in {"ram", "write", "update", "readonly"}
  /\ mode = "ram" => file = NoFile
  /\ mode = "write" => backing = "file"
  /\ mode = "write" /\ live =>
       /\ file = Mirror
       /\ ~bkv_is_inertion_mode_active => WritesFile /\ HoldsValue
  /\ ~(mode = "write" /\ live) /\ ~made.inserting => ShowsUnclosed(file.buf)
  /\ mode = "readonly" /\ live =>
       \A o \in DOMAIN buf : o \in DOMAIN file.buf /\ buf[o] = file.buf[o]

(* What the handle holds shows which containers are closed.                *)
LEMMA WriterShowsUnclosed ==
  ASSUME LInv, OpenLengthsZero PROVE ShowsUnclosed(buf)
BY DEF LInv, LengthsDelimit, OpenLengthsZero, ShowsUnclosed, Containers

(* A call keeps the lengths of open containers at 0.                       *)
LEMMA CallKeepsZero ==
  ASSUME LInv, OpenLengthsZero, backing = "file", Assumptions, Next
  PROVE  OpenLengthsZero'
<1>1. IInv /\ HeadersMatch /\ Shape
  BY StepShape DEF LInv
<1>2. CASE Quiet
  BY <1>2 DEF Quiet, nest, mem, OpenLengthsZero, Containers, IsOpen
<1>3. ASSUME NEW t \in Token, AddShape(t) PROVE OpenLengthsZero'
  <2>1. /\ Containers' = Containers
        /\ \A o \in DOMAIN buf : o \in DOMAIN buf' /\ buf'[o] = buf[o]
        /\ \A o : IsOpen(o)' <=> IsOpen(o)
    BY <1>1, <1>3, AddKeepsContainers
  <2>2. QED
    BY <2>1 DEF OpenLengthsZero, Containers
<1>4. ASSUME NEW t \in Token, NEW v \in {"MAP_KEY", "ARRAY_KEY"}, OpenShape(t, v)
      PROVE  OpenLengthsZero'
  <2>1. /\ Containers' = Containers \cup {write_offset}
        /\ \A o \in DOMAIN buf :
             o \in DOMAIN buf' /\ buf'[o] = buf[o] /\ o < write_offset
        /\ \A o \in DOMAIN buf : IsOpen(o)' <=> IsOpen(o)
        /\ buf'[write_offset] = t
    BY <1>1, <1>4, OpenAddsContainer DEF Assumptions
  <2>2. t.len = 0
    BY <1>4, <2>1 DEF OpenShape, Uninit
  <2>3. QED
    BY <2>1, <2>2 DEF OpenLengthsZero, Containers
<1>5. ASSUME NEW t \in Token, NEW h \in Token, CloseShape(t, h) PROVE OpenLengthsZero'
  <2>1. /\ Containers' = Containers
        /\ \A o : IsOpen(o)' <=> IsOpen(o) /\ o # OpenHeader
    BY <1>1, <1>5, CloseShutsHeader
  <2>2. \A o \in DOMAIN buf : o # OpenHeader => buf'[o] = buf[o]
    BY <1>1, <1>5, CloseBuffer
  <2>3. QED
    BY <2>1, <2>2 DEF OpenLengthsZero, Containers
<1>6. QED
  BY <1>1, <1>2, <1>3, <1>4, <1>5 DEF Shape

(* What a call returns tells the writer's invariant nothing.               *)
LEMMA OnlyRetChanges ==
  ASSUME WritesFile, UNCHANGED <<fixed, nest, array_nb_elems, mem>>, ret' \in Codes
  PROVE  WritesFile'
<1>1. UNCHANGED <<backing, mem_chunk_size, state, mem_size, write_offset, deep_offset,
                  deep_value, map_offset, array_nb_elems, buf, lost, short>>
  BY DEF fixed, nest, mem
<1>2. QED
  BY <1>1 DEF WritesFile, OpenLengthsZero, LInv, IInv, TypeOK, StateMatchesStack, Top,
     ArraysOnlyInMaps, TokensInOrder, StackPointsAtHeaders, HeadersMatch, LengthsDelimit,
     ClosedIsWhole, Containers, IsOpen

(***************************************************************************)
(* Every step preserves the invariant.                                     *)
(***************************************************************************)
(* A client's call on a handle that writes a file.                         *)
LEMMA ClientWrites ==
  ASSUME FInv, Assumptions, Client, mode = "write" PROVE FInv'
<1>1. /\ live /\ mode' = mode /\ made' = made /\ file' = Mirror'
      /\ backing = "file" /\ InsertNext
      /\ ~bkv_is_inertion_mode_active => WritesFile /\ HoldsValue
  BY DEF Client, Written, FInv, InsertNext, Call, Lookup, WriteOffsetSet, Finalize
<1>2. backing' = backing /\ live'
  <2>1. CASE Call
    <3>1. backing' = backing
      BY <2>1 DEF Call, Next, KvAdd, ArrayAdd, MapOpen, ArrayOpen, MapClose, ArrayClose,
                  Rejected, Refuse, Write, fixed
    <3>2. QED
      BY <1>1, <2>1, <3>1 DEF Call
  <2>2. CASE \E o \in Found : Lookup(o)
    BY <1>1, <2>2 DEF Lookup, vars, fixed
  <2>3. CASE WriteOffsetSet
    BY <1>1, <2>3 DEF WriteOffsetSet, SetRefused, SetDone, fixed
  <2>4. CASE Finalize
    BY <1>1, <2>4 DEF Finalize, fixed
  <2>5. QED
    BY <1>1, <2>1, <2>2, <2>3, <2>4 DEF InsertNext
<1>3. ASSUME ~bkv_is_inertion_mode_active' PROVE WritesFile'
  <2>1. CASE Call
    <3>1. Next /\ WritesFile
      BY <1>1, <1>3, <2>1 DEF Call, bkv_is_inertion_mode_active
    <3>2. LInv' /\ OpenLengthsZero'
      BY <1>1, <3>1, LengthStep, CallKeepsZero DEF WritesFile, Assumptions
    <3>3. QED
      BY <3>2 DEF WritesFile
  <2>2. CASE \E o \in Found : Lookup(o)
    <3>1. WritesFile /\ UNCHANGED <<fixed, nest, array_nb_elems, mem>> /\ ret' = ret
      BY <1>1, <1>3, <2>2 DEF Lookup, vars, bkv_is_inertion_mode_active
    <3>2. ret \in Codes
      BY <3>1 DEF WritesFile, LInv, IInv, TypeOK
    <3>3. QED
      BY <3>1, <3>2, OnlyRetChanges
  <2>3. CASE WriteOffsetSet
    <3>1. SetRefused
      <4>1. SUFFICES ASSUME SetDone PROVE bkv_is_inertion_mode_active'
        BY <1>3, <2>3 DEF WriteOffsetSet
      <4>2. InsertPoint \in Int /\ mem_size \in Nat /\ InsertPoint <= mem_size
        BY <1>1, <4>1 DEF SetDone, HoldsValue, InsertPoint, bkv_key_length, WritesFile,
                          LInv, IInv, TypeOK
      <4>3. mem_size - InsertPoint # -1
        BY <4>2
      <4>4. end_hdl'.size # -1
        BY <4>1, <4>3 DEF SetDone, RestOfBlock, NoCopy
      <4>5. QED
        BY <4>4 DEF bkv_is_inertion_mode_active, BKV_INVALID
    <3>2. QED
      BY <1>1, <1>3, <3>1, OnlyRetChanges
         DEF SetRefused, Codes, bkv_is_inertion_mode_active
  <2>4. CASE Finalize
    <3>1. UNCHANGED <<fixed, nest, array_nb_elems, mem>> /\ ret' \in {"BKV_OK", "BKV_KO"}
      BY <1>1, <1>3, <2>4 DEF Finalize, bkv_is_inertion_mode_active
    <3>2. WritesFile
      BY <1>1, <1>3, <2>4 DEF Finalize, bkv_is_inertion_mode_active
    <3>3. QED
      BY <3>1, <3>2, OnlyRetChanges DEF Codes
  <2>5. QED
    BY <1>1, <2>1, <2>2, <2>3, <2>4 DEF InsertNext
<1>4. ASSUME ~bkv_is_inertion_mode_active' PROVE HoldsValue'
  <2>1. HoldsValue \/ bkv_is_inertion_mode_active
    BY <1>1
  <2>2. ~bkv_is_inertion_mode_active
    BY <1>1, <1>4 DEF InsertNext, Call, Lookup, WriteOffsetSet, SetRefused, SetDone,
                      Finalize, bkv_is_inertion_mode_active
  <2>3. CASE val' = val
    BY <2>1, <2>2, <2>3 DEF HoldsValue
  <2>4. CASE \E o \in Found : Lookup(o)
    <3>1. Found \subseteq Nat
      BY <1>1, <2>2, TokenTypes DEF WritesFile, LInv, Found, Nodes
    <3>2. QED
      BY <2>4, <3>1 DEF Lookup, HoldsValue
  <2>5. CASE WriteOffsetSet
    <3>1. SetRefused \/ SetDone
      BY <2>5 DEF WriteOffsetSet
    <3>2. val' = val \/ val' = [val EXCEPT !.priv = InsertPoint]
      BY <3>1 DEF SetRefused, SetDone
    <3>3. InsertPoint \in Int
      BY <2>1, <2>2 DEF HoldsValue, InsertPoint, bkv_key_length
    <3>4. QED
      BY <2>1, <2>2, <3>2, <3>3 DEF HoldsValue
  <2>6. QED
    BY <1>1, <2>3, <2>4, <2>5 DEF InsertNext, Call, Finalize
<1>5. QED
  BY <1>1, <1>2, <1>3, <1>4 DEF FInv

(* Other handles leave the file's bytes alone, or have none.               *)
LEMMA ClientElsewhere ==
  ASSUME FInv, Client, mode # "write" PROVE FInv'
BY DEF FInv, Client, Written

(* The handle is destroyed.                                                *)
LEMMA DestroyKeeps ==
  ASSUME FInv, Destroy PROVE FInv'
<1>1. /\ live /\ ~live' /\ file' = file /\ mode' = mode /\ backing' = backing
  BY DEF Destroy, fixed
<1>2. CASE mode = "write"
  <2>1. /\ file.buf = buf /\ made'.inserting = bkv_is_inertion_mode_active
        /\ ~bkv_is_inertion_mode_active => WritesFile
    BY <1>1, <1>2 DEF FInv, Mirror, Destroy
  <2>2. ~made'.inserting => ShowsUnclosed(file.buf)
    BY <1>2, <2>1, WriterShowsUnclosed DEF WritesFile, FInv
  <2>3. QED
    BY <1>1, <1>2, <2>2 DEF FInv, ShowsUnclosed
<1>3. CASE mode # "write"
  <2>1. made'.inserting = made.inserting
    BY <1>3 DEF Destroy
  <2>2. QED
    BY <1>1, <1>3, <2>1 DEF FInv, ShowsUnclosed
<1>4. QED
  BY <1>2, <1>3

(* The file is opened again, to be read or to be updated.                  *)
LEMMA OpenAgainKeeps ==
  ASSUME FInv, NEW m \in {"update", "readonly"}, OpenAgain(m) PROVE FInv'
<1>1. /\ ~live /\ file # NoFile /\ file' = file /\ made' = made
      /\ mode # "ram" /\ backing' = backing
  BY DEF OpenAgain, FInv, fixed
<1>2. ~made.inserting => ShowsUnclosed(file.buf)
  BY <1>1 DEF FInv
<1>3. CASE mode' = mode /\ live' = live
  BY <1>1, <1>2, <1>3 DEF FInv, ShowsUnclosed
<1>4. CASE mode' = m /\ buf' = [o \in Held |-> file.buf[o]]
  BY <1>1, <1>2, <1>4 DEF FInv, ShowsUnclosed, Held
<1>5. QED
  BY <1>1, <1>3, <1>4 DEF OpenAgain, ivars

(* The handle is made.                                                     *)
LEMMA InitFInv ==
  ASSUME FileInit PROVE FInv
<1>1. LInv /\ buf = [o \in {} |-> 0]
  BY InitLInv DEF FileInit, InsertInit, Init
<1>2. Containers = {}
  BY <1>1 DEF Containers
<1>3. WritesFile
  BY <1>1, <1>2 DEF WritesFile, OpenLengthsZero
<1>4. backing \in {"ram", "file"}
  BY ChunkAssumption DEF FileInit, InsertInit, Init
<1>5. HoldsValue
  BY DEF FileInit, InsertInit, NoVal, HoldsValue
<1>6. CASE backing = "ram"
  BY <1>6 DEF FileInit, FInv, NoFile, ShowsUnclosed
<1>7. CASE backing = "file"
  BY <1>3, <1>5, <1>7 DEF FileInit, InsertInit, FInv
<1>8. QED
  BY <1>4, <1>6, <1>7

(* Every step of clients and of the file keeps the invariant.              *)
LEMMA FileStep ==
  ASSUME FInv, Assumptions, [FileNext]_<<vars, ivars, fvars>> PROVE FInv'
<1>1. CASE Client
  BY <1>1, ClientWrites, ClientElsewhere
<1>2. CASE Destroy
  BY <1>2, DestroyKeeps
<1>3. CASE \E m \in {"update", "readonly"} : OpenAgain(m)
  BY <1>3, OpenAgainKeeps
<1>4. CASE UNCHANGED <<vars, ivars, fvars>>
  <2>1. UNCHANGED <<backing, buf, mem_size, lost, live, end_hdl, val, mode, file, made>>
    BY <1>4 DEF vars, fixed, mem, ivars, fvars
  <2>2. WritesFile => WritesFile'
    <3>1. UNCHANGED <<fixed, nest, array_nb_elems, mem, ret>>
      BY <1>4 DEF vars
    <3>2. WritesFile => ret \in Codes
      BY DEF WritesFile, LInv, IInv, TypeOK
    <3>3. QED
      BY <3>1, <3>2, OnlyRetChanges
  <2>3. QED
    BY <2>1, <2>2 DEF FInv, Mirror, HoldsValue, ShowsUnclosed, bkv_is_inertion_mode_active
<1>5. QED
  BY <1>1, <1>2, <1>3, <1>4 DEF FileNext

(***************************************************************************)
(* The theorem.                                                            *)
(***************************************************************************)
(* Whenever the writer of a file stops, whoever opens the file to read it  *)
(* finds each container closed by its closing token, or of length 0        *)
(* (bkv.c:209-226, bkv_val.c:93-97), unless an insertion was under way.    *)
THEOREM StoppedWriterShows ==
  ASSUME Assumptions PROVE FileSpec => []UnclosedShows
<1>1. FileInit => FInv
  BY InitFInv
<1>2. FInv /\ [FileNext]_<<vars, ivars, fvars>> => FInv'
  BY FileStep
<1>3. FInv => UnclosedShows
  BY DEF FInv, UnclosedShows, Reopened, ShowsUnclosed, Containers
<1>4. QED
  BY <1>1, <1>2, <1>3, PTL DEF FileSpec
==============================================================================

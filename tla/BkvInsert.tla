------------------------------ MODULE BkvInsert ------------------------------
(***************************************************************************)
(* Insertion into a finished document, bkv.c: a client looks up a number,  *)
(* calls bkv_write_offset_set to go on writing right after it, makes calls *)
(* of BkvWriter, and calls bkv_finalize, which puts the rest of the        *)
(* document back with bkv_append.                                          *)
(***************************************************************************)
EXTENDS BkvWriter, Sequences, SequencesExt

CONSTANTS
  InsertAfter,   \* the types of the values the client inserts after
  InsertDepths,  \* how many containers are around them
  EndMayFail,    \* whether saving the end and putting it back may fail
  PageSize       \* bound: a file's mapping ends with its page

ASSUME InsertAssumption ==
  /\ InsertAfter \subseteq {HDR_TYPE_INT16, HDR_TYPE_INT32, HDR_TYPE_INT64}
  /\ InsertDepths \subseteq 1..MaxDepth
  /\ EndMayFail \in BOOLEAN /\ PageSize \in Nat

VARIABLES
  val,      \* the value the client holds: priv, deep_offset
  end_hdl,  \* the saved rest of the document, as a handle: size and tokens
  live,     \* the handle has not been freed
  spliced,  \* how often bkv_finalize has put the rest back
  failed,   \* history: saving the end has failed
  text      \* history: the tokens the client means the document to have

ivars == <<val, end_hdl, live, spliced, failed, text>>

NoVal == [priv |-> -1, deep_offset |-> 0]
BKV_INVALID == [size |-> -1, buf |-> [o \in {} |-> 0]]
bkv_is_inertion_mode_active == end_hdl # BKV_INVALID

(* What is compared of a token: a close patches the rest of it.            *)
Face(t) == [type |-> t.type, key |-> t.key, size |-> t.size]
Text == text.before \o text.added \o text.after

(***************************************************************************)
(* What a lookup returns for the number at o.  Its depth is that of the    *)
(* reader, which counts the containers around it (BkvReadBack checks that) *)
(* where the writer's deep_offset counts them less one; bkv_key_length is  *)
(* 4, whatever the number's width.                                         *)
(***************************************************************************)
bkv_key_length == 4
Before(o) == {x \in DOMAIN buf : x < o}
DepthOf(o) == Cardinality(Before(o) \cap Containers)
              - Cardinality({x \in Before(o) : buf[x].type \in Closers})
InMap(o) ==
  \E p \in Before(o) \cap Containers :
    /\ buf[p].type = HDR_TYPE_MAP_OPEN /\ DepthOf(p) = DepthOf(o) - 1
    /\ \A q \in Before(o) \cap Containers : DepthOf(q) = DepthOf(p) => q <= p

(* A second bkv_finalize leaves tokens behind the document's end.          *)
Rank(o) == Cardinality(Before(o)) + 1
Found ==
  {o \in Nodes :
     /\ buf[o].type \in InsertAfter /\ DepthOf(o) \in InsertDepths /\ InMap(o)
     /\ Rank(o) < Len(Text)}

Lookup(o) ==
  /\ live /\ state = "STATE_TERM" /\ val = NoVal
  /\ val' = [priv |-> o, deep_offset |-> DepthOf(o)]
  /\ text' = [before |-> SubSeq(Text, 1, Rank(o)), added |-> <<>>,
              after |-> SubSeq(Text, Rank(o) + 1, Len(Text))]
  /\ UNCHANGED <<vars, end_hdl, live, spliced, failed>>

(***************************************************************************)
(* bkv_write_offset_set.  It moves val->priv before it can refuse, so a    *)
(* client that tries again after a failure is four bytes further.  The     *)
(* rest of the block is copied by bkv_create; when the malloc of the copy  *)
(* fails bkv_create succeeds all the same, with nothing in it.             *)
(***************************************************************************)
InsertPoint_AtValue == val.priv              \* mutant: forgets the value
InsertPoint == val.priv + bkv_key_length
RestOfBlock ==
  [size |-> mem_size - InsertPoint,
   buf  |-> [x \in {y - InsertPoint : y \in {z \in DOMAIN buf :
                       z >= InsertPoint /\ z + buf[z].size <= mem_size}} |->
               buf[x + InsertPoint]]]
NoCopy == [size |-> 0, buf |-> [o \in {} |-> 0]]

SetRefused ==
  /\ \/ /\ bkv_is_inertion_mode_active
        /\ UNCHANGED <<val, failed>>
     \/ /\ ~bkv_is_inertion_mode_active
        /\ InsertPoint > mem_size \/ EndMayFail
        /\ val' = [val EXCEPT !.priv = InsertPoint]
        /\ failed' = TRUE
  /\ ret' = "BKV_INV_ARG"
  /\ UNCHANGED <<fixed, nest, array_nb_elems, mem, end_hdl, live, spliced, text>>

SetDone ==
  /\ ~bkv_is_inertion_mode_active /\ InsertPoint <= mem_size
  /\ \/ end_hdl' = RestOfBlock /\ UNCHANGED failed
     \/ EndMayFail /\ end_hdl' = NoCopy /\ failed' = TRUE
  /\ write_offset' = InsertPoint
  /\ val' = [val EXCEPT !.priv = InsertPoint]
  /\ deep_offset' = val.deep_offset
  /\ deep_value' = [deep_value EXCEPT ![val.deep_offset] = "MAP_KEY"]
  /\ state' = "STATE_IN_MAP"
  /\ ret' = "BKV_OK"
  /\ UNCHANGED <<fixed, map_offset, array_nb_elems, mem_size, buf, lost, short,
                 live, spliced, text>>

WriteOffsetSet ==
  /\ live /\ val # NoVal /\ val.deep_offset < MaxDepth
  /\ val.priv <= MaxBytes                    \* bound: tries after failures
  /\ SetRefused \/ SetDone

(***************************************************************************)
(* bkv_append on a file: it is made longer without being mapped again;     *)
(* past the page, the copy would run off the mapping and the process stops.*)
(***************************************************************************)
Mapped(size) == backing = "file" => size <= PageSize

(* What bkv_append returns is not looked at; a second bkv_finalize is then *)
(* a second try, and otherwise appends the rest once more.  This is the    *)
(* build with file access: without it the else of bkv.c:222 belongs to     *)
(* another if.                                                             *)
Finalize ==
  /\ live /\ spliced < 2                     \* bound
  /\ \/ /\ ~bkv_is_inertion_mode_active
        /\ UNCHANGED <<mem, spliced>>
     \/ /\ bkv_is_inertion_mode_active
        /\ Mapped(write_offset + end_hdl.size) /\ AppendHandle(end_hdl)
        /\ spliced' = spliced + 1
     \/ /\ bkv_is_inertion_mode_active
        /\ EndMayFail /\ write_offset + end_hdl.size > mem_size
        /\ UNCHANGED <<mem, spliced>>
  /\ live' = (backing = "file")
  /\ \/ backing = "file" /\ ret' = "BKV_OK"
     \/ backing = "file" /\ EndMayFail /\ ret' = "BKV_KO"
     \/ backing = "ram" /\ ret' = "0"
  /\ UNCHANGED <<fixed, nest, array_nb_elems, val, end_hdl, failed, text>>

(***************************************************************************)
(* The client.  It closes in the insertion what it opened there, no more,  *)
(* and makes no calls on the handle after the insertion.                   *)
(***************************************************************************)
Balanced == bkv_is_inertion_mode_active => deep_offset' >= val.deep_offset
Level == bkv_is_inertion_mode_active => deep_offset = val.deep_offset

Call ==
  /\ live /\ spliced = 0 /\ (val = NoVal \/ bkv_is_inertion_mode_active)
  /\ Next /\ Balanced
  /\ text' = IF write_offset' = write_offset THEN text
             ELSE [text EXCEPT !.added = Append(@, Face(buf'[write_offset]))]
  /\ UNCHANGED <<val, end_hdl, live, spliced, failed>>

InsertInit ==
  /\ Init
  /\ val = NoVal /\ end_hdl = BKV_INVALID /\ live = TRUE /\ spliced = 0
  /\ failed = FALSE
  /\ text = [before |-> <<>>, added |-> <<>>, after |-> <<>>]

InsertNext ==
  \/ Call
  \/ \E o \in Found : Lookup(o)
  \/ WriteOffsetSet
  \/ Level /\ Finalize

InsertSpec == InsertInit /\ [][InsertNext]_<<vars, ivars>>

(***************************************************************************)
(* Reading the document from its root.                                     *)
(***************************************************************************)
Off == [type |-> -1, key |-> 0, size |-> 0]

(* The tokens that val_foreach comes by from the root, up to the close of  *)
(* the root; with `skim`, maps inside the root are hopped over.            *)
Visited(skim) ==
  LET visit[o \in 0..PageSize, d \in 0..PageSize] ==
        IF o \notin DOMAIN buf \/ Span(o, HDR_SIZE) \cap lost # {} THEN <<Off>>
        ELSE LET t == buf[o]
                 hop == skim /\ d > 0 /\ t.type = HDR_TYPE_MAP_OPEN
                 e == IF hop THEN d
                      ELSE IF t.type \in Openers THEN d + 1
                      ELSE IF t.type \in Closers THEN d - 1 ELSE d
                 n == o + IF hop THEN t.len ELSE Advance(t)
             IN  IF e = 0 THEN <<Face(t)>>
                 ELSE IF n > PageSize \/ n = o THEN <<Off>>
                 ELSE <<Face(t)>> \o visit[n, e]
  IN  visit[0, 0]

(* No insertion is under way, and none was spoiled by a failed allocation. *)
Readable ==
  /\ live /\ ~failed
  /\ state = "STATE_TERM" \/ spliced > 0

InsertTypeOK ==
  /\ deep_offset \in -1 .. MaxDepth - 1 /\ map_offset \in [Depths -> Nat]
  /\ val.priv \in -1 .. PageSize + bkv_key_length
  /\ val.deep_offset \in 0..MaxDepth
  /\ end_hdl.size \in -1 .. PageSize
  /\ spliced \in 0..2 /\ live \in BOOLEAN /\ failed \in BOOLEAN

(* After an insertion the document is the old one with the new tokens in   *)
(* it, right after the value the client looked up, whatever was written    *)
(* over the old tokens meanwhile (bkv.c:346-358, 763-792), and however     *)
(* often bkv_finalize is called.                                           *)
DocumentAsMeant == Readable => Visited(FALSE) = Text

(* test_bkv_uc04.c:130 "look for the key after the insertion": a lookup of *)
(* any key from the root comes to the end of the root, hopping over every  *)
(* map that is not on its path.                                            *)
SkipsLand == Readable => Off \notin Range(Visited(TRUE))
==============================================================================

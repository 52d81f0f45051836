------------------------------ MODULE BkvReader ------------------------------
(***************************************************************************)
(* bkv_val_get2 of bkv_val.c: walks a written buffer token by token, from  *)
(* the header of a container (the value v), and looks for the node that a  *)
(* path of keys names; with no keys, v being an array, it collects numbers.*)
(* One pass of the loop of val_foreach, with the callback it calls, is one *)
(* action.                                                                 *)
(***************************************************************************)
EXTENDS BkvHeader, Sequences

CONSTANTS
  Paths,   \* the p_keys a client passes, without the final BKV_KEY_INVALID
  NbVals   \* the nb_val a client passes

NoKeys == <<>>   \* p_keys = NULL

VARIABLES
  buf,         \* the buffer: offset -> the token that starts there
  pc,          \* "idle", "loop", "done"; "crash": keys read through NULL;
               \* "lost": a read outside of the tokens written
  origin,      \* the offset of v, 0 after bkv_val_init on the whole buffer
  keys, nb_val,
  ptr,         \* l_ptr
  map_deep,    \* l_ctx.map_deep
  key_offset,  \* counts from -1: keys[key_offset + 1] is looked for
  val          \* the offsets of the tokens returned, in order

query == <<origin, keys, nb_val>>
rvars == <<pc, query, ptr, map_deep, key_offset, val>>

IsMap(o) == buf[o].type = HDR_TYPE_MAP_OPEN
IsArray(o) == buf[o].type = HDR_TYPE_ARRAY_OPEN
tok == buf[ptr]

(***************************************************************************)
(* The path.  Until the first map is entered, key_offset is -1 and the     *)
(* callbacks would compare a key to the memory in front of p_keys.         *)
(***************************************************************************)
Matches(key) == IF key_offset < 0 THEN BOOLEAN ELSE {key = keys[key_offset + 1]}
LastKey == key_offset + 1 = Len(keys)

(***************************************************************************)
(* What a pass of the loop does to the cursor.                             *)
(***************************************************************************)
Continue == pc' = "loop" /\ UNCHANGED <<query, val>>
Stop     == pc' = "done" /\ UNCHANGED <<query, val>>
Found_GoesOn == pc' = "loop" /\ val' = <<ptr>> /\ UNCHANGED query   \* mutant
Found    == pc' = "done" /\ val' = <<ptr>> /\ UNCHANGED query
Crash    == pc' = "crash" /\ UNCHANGED <<query, val, ptr, map_deep, key_offset>>

Move(deep) ==
  ptr' = ptr + Advance(tok) /\ map_deep' = map_deep + deep

(* A map that is not on the path is hopped over by its stored length.      *)
HopTo == ptr + tok.len

(* An array read has as many values as the client has room for.            *)
Enough_OffByOne == Len(val) >= nb_val    \* mutant
Enough == Len(val) + 1 >= nb_val

At(types) == pc = "loop" /\ ptr \in DOMAIN buf /\ tok.type \in types

OnMapOpen ==
  /\ At({HDR_TYPE_MAP_OPEN})
  /\ \/ key_offset < 0 /\ key_offset' = key_offset + 1 /\ Move(1) /\ Continue
     \/ key_offset >= 0 /\ keys = NoKeys /\ Crash
     \/ /\ key_offset >= 0 /\ keys # NoKeys /\ TRUE \in Matches(tok.key)
        /\ key_offset' = key_offset + 1
        /\ Move(1)
        /\ IF LastKey THEN Found ELSE Continue
     \/ /\ key_offset >= 0 /\ keys # NoKeys /\ FALSE \in Matches(tok.key)
        /\ IF tok.len = 0 THEN Stop ELSE Continue      \* GOTO_END_MAP
        /\ ptr' = HopTo
        /\ UNCHANGED <<map_deep, key_offset>>

OnMapClose ==
  /\ At({HDR_TYPE_MAP_CLOSE})
  /\ Move(-1)
  /\ IF map_deep = 1 THEN Stop ELSE Continue
  /\ UNCHANGED key_offset

(* An array that is not the one looked for is entered all the same.        *)
OnArrayOpen ==
  /\ At({HDR_TYPE_ARRAY_OPEN})
  /\ Move(1)
  /\ \/ keys = NoKeys /\ Continue
     \/ keys # NoKeys /\ TRUE \in Matches(tok.key) /\ LastKey /\ Found
     \/ keys # NoKeys /\ TRUE \in Matches(tok.key) /\ ~LastKey /\ Continue
     \/ keys # NoKeys /\ FALSE \in Matches(tok.key) /\ Continue
  /\ UNCHANGED key_offset

OnArrayClose_KeepsDepth ==    \* mutant: forgets map_deep--
  At({HDR_TYPE_ARRAY_CLOSE}) /\ Move(0) /\ Continue /\ UNCHANGED key_offset
OnArrayClose_Stops ==         \* mutant: takes it for the end of v
  At({HDR_TYPE_ARRAY_CLOSE}) /\ Move(-1) /\ Stop /\ UNCHANGED key_offset
OnArrayClose ==
  At({HDR_TYPE_ARRAY_CLOSE}) /\ Move(-1) /\ Continue /\ UNCHANGED key_offset

OnNumber ==
  /\ At(Numbers)
  /\ Move(0)
  /\ \/ /\ keys = NoKeys
        /\ val' = Append(val, ptr)
        /\ pc' = IF Enough THEN "done" ELSE "loop"
        /\ UNCHANGED query
     \/ keys # NoKeys /\ TRUE \in Matches(tok.key) /\ LastKey /\ Found
     \/ keys # NoKeys /\ TRUE \in Matches(tok.key) /\ ~LastKey /\ Stop
     \/ keys # NoKeys /\ FALSE \in Matches(tok.key) /\ Continue
  /\ UNCHANGED key_offset

(* The callbacks for strings, booleans and doubles do not test for NULL.   *)
OnOther ==
  /\ At({HDR_TYPE_STRING, HDR_TYPE_BOOLEAN, HDR_TYPE_DOUBLE})
  /\ \/ keys = NoKeys /\ Crash
     \/ /\ keys # NoKeys
        /\ Move(0)
        /\ \/ TRUE \in Matches(tok.key) /\ LastKey /\ Found
           \/ TRUE \in Matches(tok.key) /\ ~LastKey /\ Continue
           \/ FALSE \in Matches(tok.key) /\ Continue
        /\ UNCHANGED key_offset

OffDocument ==
  /\ pc = "loop" /\ ptr \notin DOMAIN buf
  /\ pc' = "lost"
  /\ UNCHANGED <<query, ptr, map_deep, key_offset, val>>

Step ==
  OnMapOpen \/ OnMapClose \/ OnArrayOpen \/ OnArrayClose \/ OnNumber
    \/ OnOther \/ OffDocument

(* bkv_val_get2 is called on value o with keys p; it refuses to go without *)
(* keys through anything but an array.                                     *)
Get2_TooEarly(o, p, n) ==     \* mutant: key_offset starts one too low
  /\ pc \in {"idle", "done"}
  /\ pc' = IF p = NoKeys /\ ~IsArray(o) THEN "done" ELSE "loop"
  /\ origin' = o /\ keys' = p /\ nb_val' = n
  /\ ptr' = o /\ map_deep' = 0 /\ key_offset' = -2 /\ val' = <<>>
Get2(o, p, n) ==
  /\ pc \in {"idle", "done"}
  /\ pc' = IF p = NoKeys /\ ~IsArray(o) THEN "done" ELSE "loop"
  /\ origin' = o /\ keys' = p /\ nb_val' = n
  /\ ptr' = o /\ map_deep' = 0 /\ key_offset' = -1 /\ val' = <<>>

(* The values a client can hold: the whole buffer, and the container that  *)
(* its last lookup returned.                                               *)
Values ==
  {0} \cup IF pc = "done" /\ keys # NoKeys /\ val # <<>>
           THEN {o \in {val[1]} : IsMap(o) \/ IsArray(o)} ELSE {}

Init ==
  /\ pc = "idle" /\ origin = 0 /\ keys = NoKeys /\ nb_val = 1
  /\ ptr = 0 /\ map_deep = 0 /\ key_offset = -1 /\ val = <<>>

Next ==
  \/ \E o \in Values, p \in Paths \cup {NoKeys}, n \in NbVals : Get2(o, p, n)
  \/ Step
==============================================================================

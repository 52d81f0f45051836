------------------------------ MODULE BkvHeader ------------------------------
(***************************************************************************)
(* The byte layout shared by the writer (bkv.c) and the reader (bkv_val.c) *)
(* of a bkv buffer.  A buffer is a run of tokens.  A token starts with a   *)
(* two-byte header: four bits of type, twelve bits of key.  What follows   *)
(* the header depends on the type.                                         *)
(*                                                                         *)
(* A token is modelled by what the code reads back from it, not byte by    *)
(* byte:                                                                   *)
(*   type  the type nibble        key  the twelve key bits                 *)
(*   size  bytes written          len  the 16-bit length field             *)
(*   nb    the element count of an array header                            *)
(* The value of a scalar is not kept: nothing in bkv.c depends on it.      *)
(***************************************************************************)
EXTENDS Integers

HDR_TYPE_MAP_OPEN    == 1
HDR_TYPE_MAP_CLOSE   == 2
HDR_TYPE_ARRAY_OPEN  == 3
HDR_TYPE_ARRAY_CLOSE == 4
HDR_TYPE_INT16       == 5
HDR_TYPE_INT32       == 6
HDR_TYPE_INT64       == 7
HDR_TYPE_STRING      == 8
HDR_TYPE_FLOAT       == 9
HDR_TYPE_DOUBLE      == 10
HDR_TYPE_BOOLEAN     == 11

HDR_SIZE               == 2
MAP_OPEN_VALUE_SIZE    == 2
MAP_CLOSE_VALUE_SIZE   == 0
STRING_VALUE_SIZE      == 2
ARRAY_OPEN_VALUE_SIZE  == 4
ARRAY_CLOSE_VALUE_SIZE == 3

SIZEOF_WCHAR == 4

(* The largest uint16_t, and the largest key the keyed adds accept.        *)
UINT16_MAX == 65535
MAX_KEY    == 4095

BKV_NO_KEY      == 0
BKV_ARRAY_KEY   == MAX_KEY - 2   \* 0xFFD
BKV_DICO_KEY    == MAX_KEY - 1   \* 0xFFE
BKV_KEY_INVALID == MAX_KEY       \* 0xFFF

Openers == {HDR_TYPE_MAP_OPEN, HDR_TYPE_ARRAY_OPEN}
Closers == {HDR_TYPE_MAP_CLOSE, HDR_TYPE_ARRAY_CLOSE}
Numbers == {HDR_TYPE_INT16, HDR_TYPE_INT32, HDR_TYPE_INT64, HDR_TYPE_FLOAT}

(* A 16-bit field of the buffer, as cpu_to_le16 stores it.                 *)
U16(n) == n % (UINT16_MAX + 1)

(***************************************************************************)
(* set_key ORs the high byte of the key over the shifted type, so the four *)
(* bits of a key above 0xFFF land in the type nibble.                      *)
(***************************************************************************)
OrNibble(a, b) ==
  LET Bit(w) == IF (a \div w) % 2 = 1 \/ (b \div w) % 2 = 1 THEN w ELSE 0
  IN  Bit(1) + Bit(2) + Bit(4) + Bit(8)

HdrType(type, key) ==
  IF key <= MAX_KEY THEN type ELSE OrNibble(type, key \div (MAX_KEY + 1))
HdrKey(key) == key % (MAX_KEY + 1)

(***************************************************************************)
(* The scalar adds.  `bits` is what the function asks bkv_prepare for,     *)
(* `size` is how far it moves write_offset, `len` is the length field it   *)
(* stores (strings only), `counted` tells whether an array add bumps       *)
(* array_nb_elems.                                                         *)
(***************************************************************************)
KvU16     == [type |-> HDR_TYPE_INT16,   bits |-> 16, size |-> 4,  len |-> 0]
KvU32     == [type |-> HDR_TYPE_INT32,   bits |-> 32, size |-> 6,  len |-> 0]
KvFloat   == [type |-> HDR_TYPE_FLOAT,   bits |-> 48, size |-> 6,  len |-> 0]
KvBoolean == [type |-> HDR_TYPE_BOOLEAN, bits |-> 48, size |-> 3,  len |-> 0]
KvDouble  == [type |-> HDR_TYPE_DOUBLE,  bits |-> 80, size |-> 10, len |-> 0]
KvU64     == [type |-> HDR_TYPE_INT64,   bits |-> 80, size |-> 10, len |-> 0]
KvStr(n)  ==
  [type |-> HDR_TYPE_STRING, bits |-> (HDR_SIZE + STRING_VALUE_SIZE + n) * 8,
   size |-> HDR_SIZE + STRING_VALUE_SIZE + n, len |-> U16(n)]
KvWchar(n) ==
  [type |-> HDR_TYPE_STRING, bits |-> (HDR_SIZE + STRING_VALUE_SIZE + n) * 8,
   size |-> HDR_SIZE + STRING_VALUE_SIZE + n * SIZEOF_WCHAR,
   len |-> U16(n * SIZEOF_WCHAR)]

Counted(a, c) ==
  [type |-> a.type, bits |-> a.bits, size |-> a.size, len |-> a.len, counted |-> c]

ArrayU64     == Counted(KvU64, FALSE)
ArrayFloat   == Counted(KvFloat, TRUE)
ArrayBoolean == Counted(KvBoolean, TRUE)
ArrayU16     == Counted([KvU16 EXCEPT !.bits = 32], TRUE)
ArrayStr(n)  == Counted(KvStr(n), TRUE)

KvAddType ==
  [type : Nat, bits : Nat, size : Nat \ {0}, len : 0..UINT16_MAX]
ArrayAddType ==
  [type : Nat, bits : Nat, size : Nat \ {0}, len : 0..UINT16_MAX, counted : BOOLEAN]
Token ==
  [type : Nat, key : 0..MAX_KEY, size : Nat \ {0}, len : 0..UINT16_MAX, nb : 0..UINT16_MAX]

(***************************************************************************)
(* How far the reader moves over a token: bkv_val.c takes it from the type *)
(* and, for a string, from the stored length.                              *)
(***************************************************************************)
Advance_NoCount(tok) ==      \* mutant: forgets the element count of an array
  IF tok.type = HDR_TYPE_ARRAY_OPEN THEN HDR_SIZE + 2 ELSE tok.size
Advance_NoBoolean(tok) ==    \* mutant: forgets the case of booleans
  IF tok.type = HDR_TYPE_BOOLEAN THEN 0 ELSE tok.size
Advance(tok) ==
  CASE tok.type = HDR_TYPE_MAP_OPEN    -> HDR_SIZE + MAP_OPEN_VALUE_SIZE
    [] tok.type = HDR_TYPE_MAP_CLOSE   -> HDR_SIZE + MAP_CLOSE_VALUE_SIZE
    [] tok.type = HDR_TYPE_ARRAY_OPEN  -> HDR_SIZE + ARRAY_OPEN_VALUE_SIZE
    [] tok.type = HDR_TYPE_ARRAY_CLOSE -> HDR_SIZE + ARRAY_CLOSE_VALUE_SIZE
    [] tok.type = HDR_TYPE_INT16       -> HDR_SIZE + 2
    [] tok.type = HDR_TYPE_INT32       -> HDR_SIZE + 4
    [] tok.type = HDR_TYPE_INT64       -> HDR_SIZE + 8
    [] tok.type = HDR_TYPE_STRING      -> HDR_SIZE + STRING_VALUE_SIZE + tok.len
    [] tok.type = HDR_TYPE_FLOAT       -> HDR_SIZE + 4
    [] tok.type = HDR_TYPE_DOUBLE      -> HDR_SIZE + 8
    [] tok.type = HDR_TYPE_BOOLEAN     -> HDR_SIZE + 1
    [] OTHER                           -> 0
==============================================================================

----------------------------- MODULE BkvFromJson -----------------------------
(***************************************************************************)
(* bkv_from_json: a JSON text made into a bkv document.  The yajl parser   *)
(* calls back for every token of the text, and each callback makes at most *)
(* one call of the writer (BkvWriter) on the document; names go into the   *)
(* dictionary (BkvDico), which is put at the end of the document.          *)
(* The parser ignores what is missing at the end of a text: an incomplete  *)
(* text is parsed with success.  Text that cannot go on like that is       *)
(* refused, and the import given up with it.                               *)
(***************************************************************************)
EXTENDS BkvWriter, BkvDico, JsonText, FiniteSetsExt

CONSTANTS
  Names,      \* the names of members: sequences of character codes
  Kinds,      \* the scalars of the texts
  MaxPieces,  \* bound: tokens of a text, completed
  MaxKinds,   \* bound: different kinds of scalars in one text
  MaxCut      \* bound: tokens of a text that ends too soon or is refused

ASSUME TextsAssumption ==
  /\ DicoTypes \subseteq {"direct", "cached"}
  /\ Kinds \subseteq {"null", "boolean", "u16", "u32", "u64", "negative",
                      "float", "double", "string"}
  /\ MaxPieces \in Nat /\ MaxKinds \in Nat /\ MaxCut \in 0..MaxPieces
  /\ ~AllocMayFail       \* memory does not run out in these modules

VARIABLES
  pc,      \* "parse", "append", "close", "imported"; "refused": given up;
           \* "undefined": the program has used a pointer that was never set
  deep, in_array, key_index, existing_key_index,   \* of the callbacks' ctx
  text,    \* the tokens reported so far
  place    \* where the parser is in the text

ctx   == <<deep, in_array, key_index, existing_key_index>>
jvars == <<vars, dvars, pc, ctx, text, place>>

(***************************************************************************)
(* The callbacks.  What a scalar call answers is not looked at, and the    *)
(* others only test for -1, which no call of the writer returns.           *)
(***************************************************************************)
Succeeded_OnlyOK == ret' = "BKV_OK"      \* mutant
Succeeded == ret' # "BKV_KO"

Index == IF existing_key_index # BKV_NO_KEY THEN existing_key_index ELSE key_index

KindsOf(s) == {s[i].kind : i \in {j \in DOMAIN s : s[j].t = "scalar"}}

Reported(x) ==
  /\ pc = "parse" /\ Admits(place, x)
  /\ text' = Append(text, x)
  /\ place' = Moved(place, x)
  /\ Len(text') + Missing(place') <= MaxPieces
  /\ Cardinality(KindsOf(text')) <= MaxKinds

Others == <<dvars, pc, key_index, existing_key_index>>

bkv_json_start_map ==
  /\ Reported(MapStart)
  /\ MapOpen(IF deep > 0 THEN Index ELSE BKV_NO_KEY)
  /\ deep' = IF Succeeded THEN deep + 1 ELSE deep
  /\ UNCHANGED <<Others, in_array>>

(* The outermost map stays open for the dictionary.                        *)
bkv_json_end_map_ClosesRoot ==     \* mutant
  /\ Reported(MapEnd)
  /\ deep' = deep - 1
  /\ MapClose
  /\ UNCHANGED <<Others, in_array>>
bkv_json_end_map ==
  /\ Reported(MapEnd)
  /\ deep' = deep - 1
  /\ IF deep > 1 THEN MapClose ELSE UNCHANGED vars
  /\ UNCHANGED <<Others, in_array>>

bkv_json_start_array ==
  /\ Reported(ArrayStart)
  /\ ArrayOpen(IF deep > 0 THEN Index ELSE BKV_NO_KEY)
  /\ deep' = IF Succeeded THEN deep + 1 ELSE deep
  /\ in_array' = IF Succeeded THEN TRUE ELSE in_array
  /\ UNCHANGED Others

(* in_array is not what it was before the array was opened.                *)
bkv_json_end_array ==
  /\ Reported(ArrayEnd)
  /\ deep' = deep - 1
  /\ IF deep > 1
     THEN ArrayClose /\ in_array' = IF Succeeded THEN FALSE ELSE in_array
     ELSE UNCHANGED <<vars, in_array>>
  /\ UNCHANGED Others

(* Names are numbered from 2 on, one for every occurrence.                 *)
bkv_json_map_keys_InArray(name) ==   \* mutant: in_array is left alone
  /\ Reported(Key(name))
  /\ key_index' = key_index + 1
  /\ bkv_dico_key_add(key_index + 1, name)
  /\ existing_key_index' = FinalKey(key_index + 1, name)
  /\ UNCHANGED <<vars, pc, deep, in_array>>
bkv_json_map_keys(name) ==
  /\ Reported(Key(name))
  /\ key_index' = key_index + 1
  /\ bkv_dico_key_add(key_index + 1, name)
  /\ existing_key_index' = FinalKey(key_index + 1, name)
  /\ in_array' = FALSE
  /\ UNCHANGED <<vars, pc, deep>>

MapKeyUndefined(name) ==
  /\ Reported(Key(name))
  /\ bkv_dico_undefined(key_index + 1, name)
  /\ pc' = "undefined"
  /\ UNCHANGED <<vars, dvars, ctx>>

(***************************************************************************)
(* The scalars.  There is no callback for null.  get_number adds up the    *)
(* characters of a number: a sign makes it one of 64 bits.  64-bit numbers *)
(* and long fractions are dropped, in arrays 32-bit numbers too.           *)
(***************************************************************************)
Parsed(kind) == IF kind = "negative" THEN "u64" ELSE kind

MapScalars == {"boolean", "u16", "u32", "float", "string"}
KvCall(kind) ==
  CASE kind = "boolean" -> KvBoolean [] kind = "u16" -> KvU16
    [] kind = "u32" -> KvU32 [] kind = "float" -> KvFloat
    [] kind = "string" -> KvStr(1)
ArrayScalars == {"boolean", "u16", "float", "string"}
ArrayCall(kind) ==
  CASE kind = "boolean" -> ArrayBoolean [] kind = "u16" -> ArrayU16
    [] kind = "float" -> ArrayFloat [] kind = "string" -> ArrayStr(1)

bkv_json_get_scalar(kind) ==
  /\ Reported(Scalar(kind))
  /\ CASE in_array /\ Parsed(kind) \in ArrayScalars -> ArrayAdd(ArrayCall(kind))
       [] ~in_array /\ Parsed(kind) \in MapScalars  -> KvAdd(KvCall(kind), Index)
       [] OTHER                                     -> UNCHANGED vars
  /\ UNCHANGED <<Others, deep, in_array>>

(***************************************************************************)
(* bkv_from_json after the parser: the dictionary is destroyed, appended,  *)
(* and the outermost map closed.  The result is that of the last call.     *)
(***************************************************************************)
EndOfText ==
  /\ pc = "parse" /\ (place = Complete \/ Len(text) <= MaxCut)
  /\ pc' = "append"
  /\ UNCHANGED <<vars, dvars, ctx, text, place>>

(* The next characters are no token that may come here: the parse fails,   *)
(* and bkv_from_json returns with no handle for the client; the document   *)
(* and the dictionary stay allocated.                                      *)
Refused ==
  /\ pc = "parse" /\ Len(text) <= MaxCut
  /\ pc' = "refused"
  /\ UNCHANGED <<vars, dvars, ctx, text, place>>

AppendDico ==
  /\ pc = "append" /\ pc' = "close"
  /\ bkv_dico_destroy
  /\ AppendHandle(DicoHandle(entries'))
  /\ ret' = "BKV_OK"
  /\ UNCHANGED <<fixed, nest, array_nb_elems, ctx, text, place>>

CloseRoot ==
  /\ pc = "close" /\ pc' = "imported"
  /\ MapClose
  /\ UNCHANGED <<dvars, ctx, text, place>>

(* key_index is set by the parser, existing_key_index is not.              *)
ImportInit ==
  /\ Init
  /\ bkv_dico_create
  /\ pc = "parse" /\ deep = 0 /\ in_array = FALSE
  /\ key_index = 1 /\ existing_key_index \in {BKV_NO_KEY, Stale}
  /\ text = <<>> /\ place = Start

ImportNext ==
  \/ bkv_json_start_map
  \/ bkv_json_end_map
  \/ bkv_json_start_array
  \/ bkv_json_end_array
  \/ \E name \in Names : bkv_json_map_keys(name) \/ MapKeyUndefined(name)
  \/ \E kind \in Kinds : bkv_json_get_scalar(kind)
  \/ EndOfText
  \/ Refused
  \/ AppendDico
  \/ CloseRoot

ImportSpec == ImportInit /\ [][ImportNext]_jvars

(***************************************************************************)
(* The text: the place before and after each token, and what of it a       *)
(* document can hold.                                                      *)
(***************************************************************************)
InOrder(S) == SelectSeq([i \in 1 .. Max(S \cup {0}) + 1 |-> i - 1], LAMBDA i : i \in S)

Places ==
  LET at[i \in 0..Len(text)] == IF i = 0 THEN Start ELSE Moved(at[i - 1], text[i])
  IN  at
Within(i) == Last(Places[i - 1])
Is(i, t) == text[i].t = t

Dropped(i) ==
  /\ Is(i, "scalar")
  /\ Parsed(text[i].kind) \notin IF Within(i) = "element" THEN ArrayScalars ELSE MapScalars
(* Without the scalars that are dropped, and their names.                  *)
Kept ==
  LET lost_(i) == Dropped(i) \/ (Is(i, "key") /\ i < Len(text) /\ Dropped(i + 1))
      s == InOrder({i \in DOMAIN text : ~lost_(i)})
  IN  [i \in DOMAIN s |-> text[s[i]]]

Whole == place = Complete /\ Is(1, "{")

(* i and j are in the same array, and i comes first.                       *)
SameArray(i, j) ==
  /\ i < j /\ Within(j) = "element"
  /\ \A k \in i .. j - 1 : Len(Places[k]) >= Len(Places[j - 1])
  /\ Len(Places[i]) = Len(Places[j - 1])
ArraysFlat == \A i \in DOMAIN text : Is(i, "[") => Within(i) # "element"
MapsLast ==
  \A i, j \in DOMAIN text : Is(i, "}") /\ Is(j, "scalar") => ~SameArray(i, j)

(* Names that the cached dictionary tells apart and gives back.            *)
KeysOfText == {i \in DOMAIN text : Is(i, "key")}
NamesFit ==
  dico_type = "cached" =>
    \A i \in KeysOfText :
      /\ text[i].name # <<>> /\ KT!Alphanumeric(text[i].name)
      /\ \A j \in KeysOfText : j < i /\ IsPrefix(text[i].name, text[j].name)
                                 => text[i].name = text[j].name

(***************************************************************************)
(* The document, read by the tree its lengths spell (BkvWriter): the text  *)
(* it stands for, up to the dictionary.                                    *)
(***************************************************************************)
DicoAt ==
  CHOOSE o \in Nodes : buf[o].key = BKV_DICO_KEY /\ NodeParent[o] = 0
HasDico ==
  \E o \in Nodes : /\ buf[o].type = HDR_TYPE_MAP_OPEN /\ buf[o].key = BKV_DICO_KEY
                   /\ NodeParent[o] = 0

KindOf(type) ==
  CASE type = HDR_TYPE_INT16 -> "u16" [] type = HDR_TYPE_INT32 -> "u32"
    [] type = HDR_TYPE_FLOAT -> "float" [] type = HDR_TYPE_BOOLEAN -> "boolean"
    [] type = HDR_TYPE_STRING -> "string"
PieceAt(o) ==
  CASE buf[o].type = HDR_TYPE_MAP_OPEN    -> MapStart
    [] buf[o].type = HDR_TYPE_MAP_CLOSE   -> MapEnd
    [] buf[o].type = HDR_TYPE_ARRAY_OPEN  -> ArrayStart
    [] buf[o].type = HDR_TYPE_ARRAY_CLOSE -> ArrayEnd
    [] OTHER -> Scalar(KindOf(buf[o].type))
NameAt(o) ==
  IF /\ o \in Nodes /\ o # 0 /\ buf[NodeParent[o]].type = HDR_TYPE_MAP_OPEN
     /\ HasName(buf[o].key)
  THEN <<Key(NameOf(buf[o].key))>> ELSE <<>>

Content ==
  LET s == InOrder({o \in DOMAIN buf : o < DicoAt \/ o >= DicoAt + buf[DicoAt].len})
  IN  FlattenSeq([i \in DOMAIN s |-> NameAt(s[i]) \o <<PieceAt(s[i])>>])

(***************************************************************************)
(* Properties.                                                             *)
(***************************************************************************)
Imported == pc = "imported"

ImportTypeOK ==
  /\ TypeOK
  /\ dico_type \in DicoTypes
  /\ entries \in Seq([key : 0..MAX_KEY, name : Seq(Nat)])
  /\ deep \in Nat /\ in_array \in BOOLEAN
  /\ key_index \in Nat /\ existing_key_index \in 0..UINT16_MAX

(* However a complete text nests its maps and arrays, and although the     *)
(* callbacks count depths on their own and go on after a refused call      *)
(* (bkv_json_yajl.c:331, 345, 379, 395), they close what they opened: the  *)
(* last call of bkv_from_json finishes the document, and the dictionary is *)
(* where bkv_to_json looks for it, in the outermost map.                   *)
ImportFinishes ==
  Imported /\ Whole => ret = "BKV_OK" /\ state = "STATE_TERM" /\ HasDico

(* The document stands for the text, less the scalars that are dropped, if *)
(* no array is the element of an array and no scalar comes after a map in  *)
(* one, and if the dictionary tells the names apart (NamesFit): every      *)
(* value lies where it lay in the text, and the key it has in the document *)
(* leads to its name in the dictionary, whether the name was new or not    *)
(* (bkv_json_yajl.c:104, 442, 450).                                        *)
ImportFaithful ==
  Imported /\ Whole /\ ArraysFlat /\ MapsLast /\ NamesFit => Content = Kept

(* The cached dictionary names each name of the text once, by the number   *)
(* of its first occurrence (bkv_dico_cached.c:61-64, 80); the direct one   *)
(* has an entry for every occurrence.                                      *)
Occurrence(i) == 1 + Cardinality({j \in KeysOfText : j <= i})
DicoExact ==
  pc \in {"close", "imported"} /\ NamesFit =>
    LET first == {i \in KeysOfText :
                    dico_type = "direct" \/ \A j \in KeysOfText :
                      j < i => text[j].name # text[i].name}
    IN  /\ ToSet(entries) = {[key |-> Occurrence(i), name |-> text[i].name] : i \in first}
        /\ Len(entries) = Cardinality(first)
==============================================================================

------------------------------ MODULE BkvToJson ------------------------------
(***************************************************************************)
(* bkv_to_json: an imported document made into a JSON text again.  The     *)
(* loop of val_foreach (see BkvReader) walks the document; its callbacks   *)
(* (bkv_json.c) look up names in the dictionary and have yajl generate the *)
(* text.  One pass of the loop is one action.  That a lookup in a map of   *)
(* strings yields the first of the key is what BkvReadBack checks.         *)
(***************************************************************************)
EXTENDS BkvFromJson

VARIABLES
  stage,     \* "none", "loop", "rendered"; "failed": no dictionary found;
             \* "astray": the lookup has read memory that was never written
  ptr, map_deep,
  gen,       \* the generator
  cut        \* history: an uninitialised l_ret has ended the loop

tvars == <<jvars, stage, ptr, map_deep, gen, cut>>

tok == buf[ptr]
Meet(types) == stage = "loop" /\ tok.type \in types
Move(n, deep_) == ptr' = ptr + n /\ map_deep' = map_deep + deep_
Loop(stop) == stage' = IF stop THEN "rendered" ELSE "loop"
Asks(s) == gen' = PutAll(gen, s)

(* The lookup of the dictionary: it enters the outermost map and hops over *)
(* those in it by the lengths stored, of which one may still be missing;   *)
(* the first map that it sees close is the outermost one.                  *)
Opens(o) == buf[o].type = HDR_TYPE_MAP_OPEN /\ o # 0
Hop_Enters(o) == o + Advance(buf[o])     \* mutant: it looks into every map
Hop(o) == o + IF Opens(o) THEN buf[o].len ELSE Advance(buf[o])
DicoLookup ==
  LET from[o \in 0..write_offset] ==
        CASE o \notin DOMAIN buf                        -> "astray"
          [] o \in DOMAIN buf /\ buf[o].type = HDR_TYPE_MAP_CLOSE -> "failed"
          [] OTHER ->
               CASE Opens(o) /\ buf[o].key = BKV_DICO_KEY -> "loop"
                 [] Hop(o) = o                            -> "failed"
                 [] OTHER                                 -> from[Hop(o)]
  IN  from[0]

(* A client renders what it has been told is imported.                     *)
bkv_to_json ==
  /\ stage = "none" /\ Imported /\ ret = "BKV_OK"
  /\ stage' = DicoLookup
  /\ ptr' = 0 /\ map_deep' = 0 /\ gen' = Empty /\ cut' = FALSE
  /\ UNCHANGED jvars

(* The dictionary is hopped over; a map without a name in it is entered,   *)
(* but not opened in the text; a name that is refused goes unnoticed.      *)
bkv_to_json_map_open_ShowsDico ==     \* mutant: the dictionary is rendered
  /\ Meet({HDR_TYPE_MAP_OPEN})
  /\ Move(Advance(tok), 1)
  /\ \/ tok.key = BKV_NO_KEY /\ Asks(<<MapStart>>) /\ Loop(~gen'.ok)
     \/ tok.key # BKV_NO_KEY /\ ~HasName(tok.key) /\ Loop(FALSE) /\ UNCHANGED gen
     \/ /\ tok.key # BKV_NO_KEY /\ HasName(tok.key)
        /\ Asks(<<Str(NameOf(tok.key)), MapStart>>) /\ Loop(~gen'.ok)
  /\ UNCHANGED <<jvars, cut>>
bkv_to_json_map_open ==
  /\ Meet({HDR_TYPE_MAP_OPEN})
  /\ IF tok.key = BKV_DICO_KEY THEN Move(tok.len, 0) ELSE Move(Advance(tok), 1)
  /\ \/ tok.key = BKV_DICO_KEY /\ Loop(FALSE) /\ UNCHANGED gen
     \/ tok.key = BKV_NO_KEY /\ Asks(<<MapStart>>) /\ Loop(~gen'.ok)
     \/ /\ tok.key \notin {BKV_DICO_KEY, BKV_NO_KEY} /\ ~HasName(tok.key)
        /\ Loop(FALSE) /\ UNCHANGED gen
     \/ /\ tok.key \notin {BKV_DICO_KEY, BKV_NO_KEY} /\ HasName(tok.key)
        /\ LET name == NameOf(tok.key)
               named == IF name = <<>> THEN gen ELSE Put(gen, Str(name))
           IN  gen' = PutAll(named, <<MapStart>>)
        /\ Loop(~gen'.ok)
  /\ UNCHANGED <<jvars, cut>>

bkv_to_json_map_close ==
  /\ Meet({HDR_TYPE_MAP_CLOSE})
  /\ Move(Advance(tok), -1)
  /\ Asks(<<MapEnd>>)
  /\ Loop(~gen'.ok \/ map_deep' = 0)
  /\ UNCHANGED <<jvars, cut>>

bkv_to_json_array_open ==
  /\ Meet({HDR_TYPE_ARRAY_OPEN})
  /\ Move(Advance(tok), 1)
  /\ IF HasName(tok.key)
     THEN Asks(<<Str(NameOf(tok.key)), ArrayStart>>) /\ Loop(~gen'.ok)
     ELSE Loop(FALSE) /\ UNCHANGED gen
  /\ UNCHANGED <<jvars, cut>>

bkv_to_json_array_close ==
  /\ Meet({HDR_TYPE_ARRAY_CLOSE})
  /\ Move(Advance(tok), -1)
  /\ Asks(<<ArrayEnd>>)
  /\ Loop(~gen'.ok)
  /\ UNCHANGED <<jvars, cut>>

(* The callbacks for integers return an l_ret that they set on errors only.*)
Unset(type) == type \in {HDR_TYPE_INT16, HDR_TYPE_INT32}
Answer(type) ==
  \E stop \in IF Unset(type) /\ gen'.ok THEN BOOLEAN ELSE {~gen'.ok} :
    Loop(stop) /\ cut' = (cut \/ (stop /\ gen'.ok))

(* Of the elements of an array there are no 32-bit numbers.                *)
bkv_to_json_scalar ==
  /\ Meet({HDR_TYPE_INT16, HDR_TYPE_INT32, HDR_TYPE_FLOAT, HDR_TYPE_BOOLEAN,
           HDR_TYPE_STRING})
  /\ Move(Advance(tok), 0)
  /\ LET value == IF tok.type = HDR_TYPE_STRING THEN Str(<<>>)
                  ELSE Scalar(KindOf(tok.type))
     IN  \/ /\ tok.key = BKV_ARRAY_KEY
            /\ Asks(<<value>>) /\ Answer(tok.type)
         \/ /\ tok.key # BKV_ARRAY_KEY /\ HasName(tok.key)
            /\ Asks(<<Str(NameOf(tok.key)), value>>) /\ Answer(tok.type)
         \/ /\ tok.key # BKV_ARRAY_KEY /\ ~HasName(tok.key)
            /\ Loop(TRUE) /\ UNCHANGED <<gen, cut>>
  /\ UNCHANGED jvars

Render ==
  \/ bkv_to_json_map_open
  \/ bkv_to_json_map_close
  \/ bkv_to_json_array_open
  \/ bkv_to_json_array_close
  \/ bkv_to_json_scalar

JsonInit ==
  /\ ImportInit
  /\ stage = "none" /\ ptr = 0 /\ map_deep = 0 /\ gen = Empty /\ cut = FALSE

Import == stage = "none" /\ ImportNext /\ UNCHANGED <<stage, ptr, map_deep, gen, cut>>

JsonNext == Import \/ bkv_to_json \/ Render

JsonSpec == JsonInit /\ [][JsonNext]_tvars

(***************************************************************************)
(* Properties.                                                             *)
(***************************************************************************)
JsonTypeOK ==
  /\ ImportTypeOK
  /\ stage \in {"none", "loop", "rendered", "failed", "astray"}
  /\ stage = "loop" => ptr \in DOMAIN buf
  /\ map_deep \in Nat /\ gen.ok \in BOOLEAN /\ cut \in BOOLEAN

Rendered == stage = "rendered"
NoMapsInArrays ==
  \A i \in DOMAIN text : Is(i, "{") => Within(i) # "element"

(* What is rendered is a finished document: one that bkv_from_json left    *)
(* unfinished, although it answered BKV_OK, never has its dictionary found *)
(* (bkv_json.c:357), as the dictionary then is in a map that the lookup    *)
(* hops over, or behind one that was never closed.                         *)
OnlyFinishedRendered == stage \in {"loop", "rendered"} => state = "STATE_TERM"

(* A text that keeps all its scalars, and whose arrays hold scalars only,  *)
(* comes back from the document as it was: the walk meets every value      *)
(* once, in order and under its name, and no trace of the dictionary       *)
(* (bkv_json.c:85-98, 131-141, 203-219).  An integer's callback may end it *)
(* early; then what there is is the beginning of the text.  Texts that do  *)
(* not keep all scalars are left out: test_bkv_json_uc01.c:319 expects one *)
(* with long fractions (line 313) back, which the import drops.            *)
NothingDropped == \A i \in DOMAIN text : ~Dropped(i)
RoundTrip ==
  stage # "none" /\ Whole /\ NothingDropped /\ ArraysFlat /\ NoMapsInArrays /\ NamesFit =>
    /\ IsPrefix(gen.out, text)
    /\ Rendered /\ ~cut => gen.out = text

(* test_bkv_json_uc01.c:149 has a text with maps in an array made into a   *)
(* document and back, and expects the same text (its str3, line 127).      *)
TextComesBack == Rendered /\ ~cut /\ Whole /\ ArraysFlat /\ MapsLast => gen.out = text
==============================================================================

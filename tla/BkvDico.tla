------------------------------- MODULE BkvDico -------------------------------
(***************************************************************************)
(* The dictionary of an imported document: the names of its keys.  The     *)
(* direct plug (bkv_dico_direct.c) is a document of its own that takes     *)
(* every name it is given; the cached plug (bkv_dico_cached.c) keeps the   *)
(* names in a keytree and writes them when it is destroyed.                *)
(* Memory does not run out here; KeyTree has a run for that.               *)
(***************************************************************************)
EXTENDS BkvHeader, Sequences, SequencesExt

CONSTANT DicoTypes    \* a subset of {"direct", "cached"}

VARIABLES
  dico_type,
  entries,   \* the strings of the dictionary's document, in order
  tree       \* the keytree of the cached plug

dvars == <<dico_type, entries, tree>>

KT == INSTANCE KeyTree
        WITH Elems <- {}, Wordlists <- {}, Types <- {FALSE}, MaxAdds <- 0,
             AllocMayFail <- FALSE, NULL <- BKV_NO_KEY, status <- "up",
             fold <- FALSE, ret <- "", added <- <<>>, failed <- FALSE

(* wg_keytree_add of a name, with its key as the udata.                    *)
Added(key, name) ==
  KT!parse_file_create_key({}, FALSE, KT!WithLocals(tree), [w |-> name, udata |-> key])

(* A name whose first character has no place in the tree.                  *)
bkv_dico_undefined(key, name) ==
  dico_type = "cached" /\ Added(key, name).out = "undefined"

(* *p_final_key of bkv_dico_key_add: the key a name already has.           *)
FinalKey_Forgotten(key, name) == BKV_NO_KEY   \* mutant
FinalKey(key, name) ==
  IF dico_type = "cached" /\ Added(key, name).out = "W_E_EXISTS"
  THEN Added(key, name).udata[Added(key, name).at]
  ELSE BKV_NO_KEY

bkv_dico_key_add(key, name) ==
  /\ ~bkv_dico_undefined(key, name)
  /\ IF dico_type = "direct"
     THEN entries' = Append(entries, [key |-> key, name |-> name]) /\ UNCHANGED tree
     ELSE tree' = KT!TreeOf(Added(key, name)) /\ UNCHANGED entries
  /\ UNCHANGED dico_type

(* dico_cached_elem, for the nodes of the tree in order.                   *)
Collected_Prefixes ==      \* mutant: every node is taken for a word
  LET words == KT!wg_keytree_foreach
  IN  [i \in DOMAIN words |-> [key |-> tree.udata[words[i]], name |-> KT!p_str(words[i])]]
Collected ==
  LET words == SelectSeq(KT!wg_keytree_foreach, LAMBDA p : p \in tree.end_of_word)
  IN  [i \in DOMAIN words |-> [key |-> tree.udata[words[i]], name |-> KT!p_str(words[i])]]

bkv_dico_destroy ==
  /\ entries' = IF dico_type = "direct" THEN entries ELSE Collected
  /\ tree' = KT!NoNodes
  /\ UNCHANGED dico_type

bkv_dico_create ==
  /\ dico_type \in DicoTypes
  /\ entries = <<>>
  /\ tree = KT!NoNodes

(***************************************************************************)
(* The finished dictionary as a handle: a map of strings.                  *)
(***************************************************************************)
Bare(type, key, size, len) ==
  [type |-> type, key |-> key, size |-> size, len |-> len, nb |-> 0]
StrSize(e) == KvStr(Len(e.name)).size

DicoHandle(es) ==
  LET open  == HDR_SIZE + MAP_OPEN_VALUE_SIZE
      at[i \in 1 .. Len(es) + 1] ==
        IF i = 1 THEN open ELSE at[i - 1] + StrSize(es[i - 1])
      close == at[Len(es) + 1]
      size  == close + HDR_SIZE + MAP_CLOSE_VALUE_SIZE
      Str(e) == Bare(HDR_TYPE_STRING, e.key, StrSize(e), Len(e.name))
  IN  [size |-> size,
       buf  |-> [o \in {0, close} \cup {at[i] : i \in DOMAIN es} |->
                   CASE o = 0     -> Bare(HDR_TYPE_MAP_OPEN, BKV_DICO_KEY, open, size)
                     [] o = close -> Bare(HDR_TYPE_MAP_CLOSE, BKV_NO_KEY, size - close, 0)
                     [] OTHER     -> Str(es[CHOOSE i \in DOMAIN es : at[i] = o])]]

(* The name a key has: that of the first string that bears the key.        *)
HasName(key) == \E i \in DOMAIN entries : entries[i].key = key
NameOf(key) ==
  entries[CHOOSE i \in DOMAIN entries :
            entries[i].key = key /\ \A j \in 1..i - 1 : entries[j].key # key].name
==============================================================================

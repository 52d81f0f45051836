# A TLA+ model of wtools

wtools is a C library around *bkv*, a binary key-value document: a buffer of
tokens (maps, arrays, scalars) that a client writes call by call, in RAM or in
a memory-mapped file, and looks values up in. Around it stand a dictionary of
key names, an import of JSON, a keytree (a trie), a red-black tree and a small
logging table. Everything is sequential code called by one client; the only
lock (`bkv.c:60`) guards an initialisation flag. What makes it hard is not
concurrency but long sequences of legal calls over several records of the same
fact: the nesting is kept in a state, a stack and the bytes; the lengths in the
headers are patched long after the header was written; memory is reserved by
one rule and used by another; the reader trusts every length the writer left.

## Inventory

| Component | State | Operations | What makes it correct |
|---|---|---|---|
| Document writer, `bkv/src/bkv.c` | `state`, `deep_offset`, `deep_value[]`, `map_offset[]`, `array_nb_elems[]`, `write_offset`, `mem_size`, the bytes | `bkv_kv_*_add`, `bkv_kv_array_*_add`, `map_open/close`, `array_open/close`, `bkv_prepare` under all of them | the state and the stack agree; lengths delimit; the bytes spell the tree that the calls built; nothing written is lost |
| Tokens, `bkv_header.h`, `bkv_byteorder.c` | none | `set_key`, `cpu_to_le*`, `le*_to_cpu` | what the reader moves over a token by is what the writer moved |
| Value lookup, `bkv/src/bkv_val.c` | a cursor, the depth, the position in the path, the values found | `bkv_val_init`, `bkv_val_get2`, `bkv_val_foreach` | the cursor stays on tokens of the value; the answer is the node of the path; it ends |
| Handle and files, `bkv.c`, `bkv_file.c`, `bkv_mem.c` | descriptor, mapping, block | `bkv_create` (6 modes), `finalize`, `destroy`, `sync` | what was written is what the file holds, whenever the client stops |
| Insertion, `bkv.c` | `end_hdl`, the saved end of the document | `bkv_write_offset_set`, `bkv_append`, `bkv_finalize` | the document after is the one before plus the insertion |
| Dictionary, `bkv/dico/src` | a keytree, the next key, a list of names | create, add key, add element, destroy | a name has one key and a key one name |
| JSON import and export, `bkv/json/src` | parser context: in array or not, current key, depth; generator | one callback per JSON event, one per token of a document | the document has the shape of the text, its keys the names; the text comes back |
| Keytree, `kt/src/keytree.c` | nodes by character class, end-of-word marks, user data | create, create_key, keyget, foreach, release, strcmp, weakcmp | the words and data are those added, no other |
| Red-black tree, `rbt/src` | nodes, parents, colours | insert, delete, exact query, successor, predecessor, destroy | order, colours, black height, links both ways |
| Stack, misc, `rbt/src` | a linked list with head and tail | push, pop, join | order; head and tail agree |
| Logging, `lg/src/lg.c` | an array of registered libraries | init, term, add, print | every registered library stays reachable |
| Printing, JSON tools | none | output | not modelled: output only |

The writer and the reader interact through the buffer alone. Insertion composes
them: a value returned by a lookup gives the place and the depth at which the
writer goes on. The JSON import drives the writer and the dictionary; the
dictionary is a keytree in memory, and at the end a second map appended to the
document. The red-black tree and the keytree have no client in the library
except the dictionary (keytree).

## Modules

`BkvHeader` is the layout both sides of the buffer share. A token is a record of
what the code reads back of it: its type, its key, the bytes it takes, its
16-bit length field and its element count. Values of scalars are left out, no
step of the code depends on them. Each scalar call is a record of what it asks
`bkv_prepare` for, what it moves `write_offset` by and, in an array, whether it
counts: these three differ from call to call in the code and are the point.

`BkvWriter` is a handle open for writing. Its variables are the fields of
`struct bkv_s`, and four of the model: `buf` (offset to token), `lost` (bytes
written past the end of the block that a move of the block dropped), `short` (a
call went on without the room it asked for) and `ret`.
One action is one call with its early returns: `KvAdd`, `ArrayAdd`, `MapOpen`,
`ArrayOpen`, `MapClose`, `ArrayClose`. `Reserve` is `bkv_prepare`: enough room,
growth by one chunk, or, when `AllocMayFail`, a refusal. A refused `realloc` is
`BKV_HDL_MEM` (-4), a refused `mmap` 0, and the callers test for -1, so the call
goes on; only a refused `ftruncate` is seen. Bytes past the block may or may not
survive its move: that is undefined in C and a choice in the model. So are the
header fields a container has before its close patches them (`Uninit`): only
the first RAM chunk and files are zeroed. Two details of the code are
simpler in the model: the closing tokens, of which `bkv.c:577` and `731` write
the first byte only, have no key (nothing reads one), and a handle that is 32
containers deep opens no more (`RoomToPush`; see *Not modelled*).

`BkvDoc` is the abstract specification: no bytes, only a client that builds a
tree of maps, arrays and leaves. `BkvWriter` maps to it by reading the tree back
from the lengths in `buf` (`NodeKind`, `NodeParent`, `OpenPath`); `RefinesDoc`
says every call adds the right node at the right place and never moves another.

`BkvReader` is `bkv_val_get2`. One pass of the loop of `val_foreach`, with the
callback it calls, is one action: `OnMapOpen`, `OnMapClose`, `OnArrayOpen`,
`OnArrayClose`, `OnNumber` (16, 32, 64 bits and float: they can be elements of a
whole-array read), `OnOther` (string, boolean, double: they cannot). Reading
keys through NULL is the state `crash`, standing where no token starts is
`lost`; comparing a key to the memory in front of the path is a choice.

`BkvReadBack` composes them: a document is written, closed, then looked into,
first at its root and then from containers that lookups returned. Its `Resolve`
is the reference: the node a path of keys leads to in the tree.

`BkvInsert` adds insertion to the writer: `val` is the `bkv_val_t` the client
holds, `end_hdl` the saved rest of the document, `live` whether the handle is
still allocated (`bkv_finalize` frees a RAM handle), `spliced` how often the rest
was put back, `failed` whether saving it ever failed, `text` the tokens the
client means the document to have. `Lookup` takes a number out of a finished
document (what the reader's `DepthIsNesting` says of its depth is used here);
`WriteOffsetSet` is `bkv_write_offset_set`, which advances `val->priv` by
`bkv_key_length`, 4, before it can refuse, and saves the rest through
`bkv_create`, whose failed `malloc` leaves an empty copy and no error; `Call` is
any call of the writer; `Finalize` is `bkv_finalize` with `bkv_append`, as built
with access to files: without it, the `else` of `bkv.c:222` binds to another `if`.
The client is `Balanced`: in the insertion it closes what it opened there. It
inserts after 16-bit numbers, since 4 is the length of no other. `end_hdl` is
never cleared, so a second `bkv_finalize` appends the rest again, and the
document still reads the same, since the reader stops at the root's close.
A file grown by `bkv_append` is not mapped again; beyond its page (`PageSize`)
the process would stop, and the model does.

`BkvFile` is the life of a document in a file, on top of both. `mode` is how the
handle was created, `file` what the file holds, `made` what its writers left in
it and whether they finished. A file opened to be written is a shared mapping:
whatever changes `buf` or `mem_size` changes the file (`Mirror`), and since a
process that dies leaves the same file as one that calls `bkv_destroy`,
`Destroy` may come at any moment and stands for both. `OpenAgain` is `bkv_create`
for updating or reading: state `STATE_TERM`, `write_offset` 0 and the bytes of
the file (`Held`), whatever they are; an empty file is refused by `mmap`. A file
opened to be updated is mapped privately, so of what is done through such a
handle only the length reaches the file (`Written`).

`JsonText` is the external part of the JSON modules: a text as a sequence of
tokens, what yajl's parser may report next (`Admits`) and what its generator
accepts (`Put`), modelled from how the callbacks use them. `BkvDico` is the
dictionary with both plugs; the cached one is an instance of `KeyTree`, so its
peculiarities (prefixes, characters without a place) are the keytree's own; that
the direct one refuses keys above 0xFFF is left out with the thousands of names
it takes. `BkvFromJson` is the import: each callback of the parser is an action
that makes its call of `BkvWriter`, with the context it keeps (`deep`,
`in_array`, `key_index`, `existing_key_index`, which is not initialised); after
them come `AppendDico` (`bkv_append` of the dictionary's document) and
`CloseRoot`. The parser is never told that the text is over, so a text may end
anywhere (`EndOfText`); one that cannot go on is refused and the import given up
(`Refused`). `BkvToJson` is the way back. `bkv_to_json` first looks the
dictionary up (`DicoLookup`) in whatever document the import left, finished or
not: the lookup hops over maps, which takes it nowhere (`failed`) or out of what
was written (`astray`) if a length is missing. Then comes the loop of
`val_foreach` with the callbacks of `bkv_json.c`, which have the generator put
together `gen`. The callbacks for integers return a variable they did not set;
that is a choice, and `cut` remembers it. In these modules memory does not run
out.

`RedBlackTree` is the tree over a heap of nodes: `tree` holds the fields of all
nodes (both sentinels included), `live` the allocated ones, `pc`, `x`, `y`, `z`
and `top` the locals of the call under way. One iteration of a repair loop is
one action (`InsertRecolour`, `InsertRotate`, `FixUpSibling`, `FixUpRotate`), so
that the properties see the tree between rotations, when the spliced node `y` is
out of the tree and `z` still in it. The code's mirrored halves are one action
with the side as a parameter; the parent of `nil` is a field like any other, as
`RBDeleteFixUp` relies on it. `OrderedList` is the abstract specification: a
list sorted by key, equal keys in the order of their insertion. The refinement
mapping is the walk in order, in which `y` stands where `z` is while a deletion
is under way.

`KeyTree` is the trie. `tree` holds, for each node, its `udata`, whether it is
an `end_of_word`, and the `nb_keys` of each list of children that exists; a node
is named by its path, the slots from the head to it, which is sound since
nothing moves a node. `Add` runs `parse_file_create_key` over the word as a
fold, `NextCharacter` being one turn of its loop with every `malloc` that may
fail, and `Create` and `Release` are the other calls that change state. What a
caller can see of failures is kept: a failed `malloc` for a letter goes
unnoticed, one for a digit releases everything but the head (`status` is
`dangling`), and what C does not define ends the behaviour (`undefined`): a
first character without a place in the tree, the character `;`, whose slot is
one past the list, a null `l_key`. The lookups and `foreach` are operators.
`wg_keytree_weakcmp` and `wg_keytree_strcmp_isalnum` read in front of a list
when the string ends where the tree goes on with the kind of character they look
for (`ReadsOutside`): they have no answer then, and `WeakLookupsAgree` leaves
those words out. The client's callback of `foreach` answers that the walk goes
on, and no word outgrows the walk's buffer of 128 characters. Memory that
nothing points to any more is not tracked.

The modules whose name ends in `Proofs` hold the theorems: three about the
writer (`BkvWriterProofs`, `BkvWriterMemoryProofs`, `BkvWriterDocProofs`), and
`BkvReadBackProofs`, `BkvFileProofs`, `RedBlackTreeProofs`,
`RedBlackTreeListProofs` and `KeyTreeProofs`. Those whose name begins with `MC`
are the instances for TLC.

## Runs

| Run | What it checks | Bounds |
|---|---|---|
| `writer` | the stack and the state agree, no outermost array, lengths delimit, a closed document is whole, tokens are final, `RefinesDoc`; while a chunk is enough (`ChunkSuffices`): only the last token overruns the block, a finished document fits in it, the skeleton survives its moves | 24 bytes, RAM and file, chunks of 12, strings of a chunk and of more, any allocation refused, depth 4 |
| `writer_counts` | violated: the count of an array is the number of its elements (`bkv.c:738`) | 30 bytes, depth 3 |
| `read_back` | the cursor stays inside, depth is nesting, single keys, paths, whole arrays, the walk ends | 25 bytes, two keys, paths of one and two keys |
| `read_path` | violated: a path that leads nowhere yields nothing (`bkv_val.h:132`) | 20 bytes |
| `insert` | after an insertion into the root map the document is the old one with the new tokens in it, and lookups from its root end at its close; a file that is opened again shows whether its containers were closed | 22 bytes, RAM and file, saving the rest may fail, two calls of `bkv_finalize`, a file opened again once |
| `insert_inner` | violated: the same for an insertion into an inner map (`test_bkv_uc04.c:130`) | 20 bytes |
| `update_lost` | violated: what is inserted through a handle for updating is in the file (`bkv.h:124`, `bkv.h:139`) | 14 bytes, a file opened again twice |
| `json` | the callbacks close what they opened; the document stands for the text, its keys for the names; the dictionary has each name once; only finished documents are rendered; the text comes back | texts of nine tokens, cut short or refused after at most five; three names, two at a time of six kinds of scalars, both dictionaries |
| `json_maps` | violated: a text with maps in an array comes back (`test_bkv_json_uc01.c:149`) | as `json`, two names |
| `rbt` | links, colours and black heights between the rotations, the queries, nothing leaks, the repairs climb, `RefinesList` | ten nodes, two with the same key |
| `keytree` | words of letters and digits are found by all lookups and by `foreach` if and only if they were added; which udata a word has; an addition keeps all words or, out of memory, none | eleven words, up to three additions (after a list of two at most), every set of failing mallocs |
| `keytree_exists` | violated: `W_E_EXISTS` is for a word that exists and comes with its data (`keytree.h:148`) | two words of which one begins the other |

*Why the bounds are enough.* A map takes 6 bytes and an array 11 with nothing in
them, so 24 bytes hold three levels (a map, an array in it, a map in the array
with a scalar, and the closes of the inner two); `writer_counts` has 30 to put
two arrays side by side. The interesting cases of the stack (resume a map from
an array, an array from a map, patch an outer header after an inner one) all
need no more. The chunk is scaled from 128 bytes to 12 so that a document
crosses one or two block ends and every token can straddle one. `KvWchar(2)`
fills a chunk of 12 exactly, and is six bytes longer than it asks for;
`KvStr(9)` is one byte more than a chunk: tokens lie on both sides of
`ChunkSuffices`. Chunks that a client sets, and all other calls, are the matter
of the theorems. The reader's runs use a block that never grows: memory plays no
part in a lookup. 22 bytes hold a root map with a number and a map in it and an
insertion of one or two more tokens, whose bytes lie over old ones that end
elsewhere. One opening again (`MaxOpens`) meets a file that was left at any
point; a second one meets nothing new except through an updating handle, which
is what `update_lost` is for. A client updates only files that were finished,
and an updating handle does not outgrow its mapping in the model (`Client`).
Nine tokens (`MaxPieces`) hold a map in a map, two arrays in a map, a map in an
array with a member, and a name that comes twice; the names are one that begins
another and one that the keytree has no place for. Texts that end too soon
(`MaxCut`) need few tokens: what matters is what is still open, and five leave
three maps open, one more than the lookup of the dictionary tells apart. The
kinds of scalars matter one by one, or where one is dropped next to one that is
not, so a text has two of them (`MaxKinds`). Of red-black trees, seven black
nodes, in which the repair of a deletion climbs twice, take ten nodes to build;
only which key a node has matters, so each node is named for its key and may
come and go any number of times. In the keytree, what an addition does depends
on the path of its word alone, so two words that begin each other, in both
orders, and a repetition are the interesting cases; the list that may be given
at creation makes it five. `View` leaves out the parent of `nil` where no step
will read it.

*Deadlock* is checked in the writer's runs (a refused call is always a step) and
not in the others: `crash` and `lost` are final in the reader, a RAM handle
is freed by `bkv_finalize`, a file is opened again so many times, an import and
its rendering end, and a destroyed or released tree takes no more calls.

*Fairness.* Only `LookupEnds` needs any: weak fairness of `Reader!Step`. The
loop of `val_foreach` runs in the caller's thread and waits for nothing. The
writer is driven by its client, and nothing is assumed of the client.

### What the violated runs show

* `bkv_kv_array_open` does not reset `array_nb_elems` of the depth it enters: the
  second array at a depth is stored with the elements of the first counted in.
  `bkv_kv_array_u64_add` and containers inside arrays do not count at all.
* `key_offset` never goes back when a map on the path closes: for the path 1/2,
  the document {1:{}, 2:x} answers x.
* `bkv_append` puts the rest back without touching the lengths of the containers
  around the insertion. In the root map, which is all the tests insert into, no
  lookup ever hops over a length that changed; in an inner map, the lookup of a
  key behind that map hops by its old length into the middle of it.
* A file opened to be updated is mapped `MAP_PRIVATE`: an insertion changes the
  copy of the process, and of the file only its length.
* A map that is an element of an array is written with the key of the array, or
  of whatever name came last; on the way back that name is put into the text in
  front of the map, as one more element.
* A new word that begins an older one is answered with `W_E_EXISTS` and no data,
  and its own is dropped. So is one that ends in a character without a place in
  the tree.

Other differences were met while modelling and have no run of their own; the
modules follow the code, and the properties leave them out, each saying so.

* `bkv_prepare` adds one chunk whatever it is asked for: a string longer than that
  is written past the end of the block, and the call answers `BKV_OK`. What comes
  next lies there too, headers included, and may be lost when the block moves.
* The callers of `bkv_prepare` test for -1. A refused `realloc` is -4 and a refused
  `mmap` 0, so the call writes where there is no room and answers `BKV_OK`, which
  `bkv.h` has for success.
* A fraction of eight characters or more becomes a `double`, for which the import
  has no case (`bkv_json_yajl.c:250`): it is dropped, in maps and in arrays.
  `test_bkv_json_uc01.c:313-319` makes arrays of such fractions (yajl writes them
  with 17 digits) and expects all of the text back.
* The lookups of the keytree answer `W_E_OPERATION_FAILED` for what they do not
  find; `keytree.h:158`, `167` and `191` have `W_E_BAD_PARAMETER`.
* `wg_keytree_weakcmp` looks for the final 0 of a string among the lower case
  letters, at `keys[-97]`, when the word begins a longer one, added itself or not.
* `foreach` goes through the list of other characters up to their number: the name
  `a-b` is not visited, and one that is, is spelt with a letter in place of its
  `!`. `keytree.h:176` promises each element; a dictionary of names is written
  from this walk.

What the passing runs have to be careful about is as telling. The properties
about memory have the condition `ChunkSuffices`: no growth was refused
unnoticed, no token is longer than a chunk, and the chunk, if the client set it,
has 8 bytes at least and divides the first block of a handle in RAM. Under it,
several calls still ask for less than they write, and `writer` shows how far
that goes: only the last token sticks out, its header never does, and a closed
document fits its block, because `bkv_kv_map_close` asks for 8 bytes and writes
2. Without it none of the three properties holds. `read_back` reads arrays of
numbers and has a state `crash` for strings, booleans and doubles, whose
callbacks read a path that is not there. `UnclosedShows` says nothing of a file
that an insertion was under way in. `ImportFaithful` leaves out texts with an
array in an array (which the writer refuses), with a scalar after a map in an
array (the flag `in_array` is lost with the map's names), and names that the
keytree takes for others (`NamesFit`: of those no doc says what a document
should make of them). Scalars that the import drops (null, negative and 64-bit
numbers, fractions of eight or more characters, 32-bit numbers in arrays) are
left out of the text with their names before it is compared with the document;
`RoundTrip` is about texts that have none of them. In the keytree, `DataOfFirst`
says what data a word has if its first addition made its node, which leaves the
words of `ExistsHasData` out; `ForeachComplete` and the lookups are about words
of letters and digits.

## Proofs

For every value of the constants:

* `TypeCorrect`, `StateFollowsStack`, `NoOutermostArray` (`BkvWriterProofs`),
  from the inductive `IInv`: types, the two properties themselves, tokens that
  follow each other without overlap and end at `write_offset`, and a stack whose
  entries point at headers, outermost first. The last two are what makes the
  buffer's domain and the patching of headers well typed; no property by itself
  is inductive. Each action is first reduced to one of four shapes (`Quiet`,
  `AddShape`, `OpenShape`, `CloseShape`) and each shape shown to keep each part.
* `ClosedContainersDelimited`, `ClosedDocumentIsWhole`, `TokensAreFinal`
  (`BkvWriterProofs`), from `LInv`, which adds that each entry of the
  stack is of the type of its header and that lengths delimit. They assume that
  the keys of containers have twelve bits (`KeysFit`: `map_open` and
  `array_open` do not test it, and a wider key turns the header into another
  type) and, where lengths are involved, a document of at most 65535 bytes
  (beyond it the 16-bit length wraps). Both assumptions are necessary.
* `OnlyTheLastOverruns`, `FinishedDocumentFits` (`BkvWriterMemoryProofs`), from
  `MInv`, which adds that, as long as `ChunkSuffices`, the block is a whole number
  of chunks and `write_offset` at most four bytes (`Slack`) less than a chunk
  beyond it. The first is what makes one more chunk always enough: the division in
  `bkv_prepare` rounds the block down to its last chunk before adding one.
  `ChunkSuffices` is a condition of the properties and reads the state, so
  strings of any length, chunks of any size and failing allocations are all there;
  what is said is about chunks of at least 8 bytes, which in RAM must divide the
  first block, and stops at the first growth that was refused unnoticed or the first
  token longer than a chunk, a string, wide or not, beyond which the overrun has no
  bound. Of the calls only `CallsReserve` is assumed: each asks for a header at
  least, and what asks for less than four bytes is four bytes short at most.
* `OnlyValuesAreLost` (`BkvWriterMemoryProofs`), from `SInv`: `MInv`, that the
  skeleton of every token ends inside the block, that what was lost lies behind
  `write_offset`, and that the stack has the sizes of the headers it points to (a
  close patches as many bytes). It has the same condition, and assumes
  `CallsReserve`, `KeysFit` and that the call for a string asks at least for its
  header and its length (`StringsReserve`), as `bkv_kv_str_add` does.
* `WriterImplementsDoc` (`BkvWriterDocProofs`): `BkvWriter` refines `BkvDoc`,
  under `KeysFit` and documents of at most 65535 bytes. The invariant is `LInv`;
  the rest is that the parent `BkvDoc` assigns to a node is the innermost
  container whose stored length encloses it (`Innermost`), that an added token
  is enclosed by the containers on the stack and no other, and that patching a
  length on a close encloses what its container held before and nothing else.
* `LookupStaysInside`, `LookupCountsNesting`, `LookupTypes`
  (`BkvReadBackProofs`), from `RdInv`. The part about the document (`WInv`) says
  that tokens follow each other without gaps in the reader's table of sizes
  (`Contiguous`), that closed containers and closing tokens correspond one to
  one and that containers nest; the part about the reader (`WalksMap`) that the
  cursor is at a token of the map and the depth counts the containers around it.
  Hopping over a map keeps this since lengths delimit; walking into an array and
  out of it since each closing token belongs to a container that starts before
  it. `SingleKeyFound` adds `OneKeyWalk`: only arrays lie between the map and
  the cursor, and no entry that was passed has the key. `PathsFound` is about
  paths of any length. The reference descends by a fold, so that the way it
  takes is made a function `r` first, `r[0]` the map looked into and `r[i]`
  where the i-th key leads (`ResolveDescends`, `RouteExists`). `PathWalk` says
  that the cursor is between `r[key_offset]` and the next node of the way, with
  arrays only around it in between (`OnWay`). That is why a key that matches is
  the next node (`AheadDiffers`), why a map that does not match ends before it
  (`HopOnWay`), and why the end of a map of the way is not reached before it
  (`LeaveOnWay`). `NumbersReadInOrder` adds `NumbersWalk`: as many values were
  read as elements lie before the cursor, each at its index. They assume
  documents of at most 65535 bytes and that values have the sizes `bkv_val.c`
  has for their types (`SizesKnown`); that keys of containers fit follows from
  the keys that are looked for (`QueriesAssumption`).
* `StoppedWriterShows` (`BkvFileProofs`), from `FInv`: what a file holds while it
  is written is the image of the handle, in which the length of an open container
  is 0 since files are zeroed (`OpenLengthsZero`); once the writer is gone, the
  file shows it; what is read later is a part of it. `KeysFit` and documents of
  at most 65535 bytes are assumed.
* `LinksAgree`, `BlacksEqual`, `RedsApart`, `AllReleased`, `TreeTypes`
  (`RedBlackTreeProofs`), from `RbtInv`, for any set of nodes, any keys and any
  sequence of calls; nothing is assumed but that the sentinels differ and are
  no nodes. `RbtInv` has to say more than the properties: that ranks grow upwards
  (`Ranked`), so that no path is a circle and the recursive walks are defined;
  that heights exist for *all* nodes and not only at the root (`Heights`), with
  one black owed on one side of one node; what is outside the tree and where it
  points (`Tidy`), since `y` comes back into the tree with the links of `z`; and
  that the parent of `nil` is the place it hangs in while `RBDeleteFixUp` is at
  `nil` (`Locals`), and that `top` is the root as long as the loop goes on: that
  is why the stale `root` of line 504 does no harm. The lemmas are about trees,
  not states: what `Rotate`, `Relink`, a recolouring, a new leaf, a cut do to
  shape and heights; one lemma for each action puts them together. Heights and
  walks are recursive functions, so what they are is proved from their equations:
  first that some function satisfies them, by well-founded induction on the rank.
* `ListSorted`, `TreeImplementsList`, `QueriesRightAlways`
  (`RedBlackTreeListProofs`), from `ListInv`, under the same assumptions: the
  walk in order is sorted by key at every moment; insertion and deletion do to it
  what `OrderedList` does to a list, and every iteration of a repair is a stutter;
  the queries step through it and find the highest node with a key. The walk is
  recursive and a rotation disturbs it all the way up, so nothing is said of it
  directly: each node has a position `o` in the list and a reach `w`, the
  positions from its leftmost descendant to its rightmost, and all that is asked
  is that they fit between a node and its two children (`Placed`). A rotation then
  changes two reaches and no position (`TurnPlaces`); a new leaf opens a gap next
  to its parent (`LeafPlaces`), which is where `TreeInsertHelp` has it sorted
  (`PlaceInList`); a splice closes the gap of `y`, the neighbour of `z`
  (`SplicedAt`, `CutPlaces`), and `y` takes over the numbers of `z` at the end
  (`SwapPlaces`). `WalkListed` reads the walk off the numbers by induction from
  the leaves up, once and for all. `ListInv` is `RbtInv`, that there are such
  numbers, that keys ascend along them, and that `nil` has no children (`Bare`),
  without which a query could come out of `nil` again.
* `LoopsClimb` (`RedBlackTreeListProofs`), from `RbtInv`: an iteration of a
  repair loop that is not the last one brings `x` nearer to the root, that of a
  deletion at `nil` included. Recolouring goes two levels up and paints only;
  a red sibling makes the parent red, which ends the loop; the other iterations
  with a rotation are the last.
* `KeyTreeTypes`, `WordsStay` (`KeyTreeProofs`), from `KeyTreeInv`: every node is
  in a list of a node or of the head, the lists hold the kinds of characters they
  are for, and `nb_keys` counts what is in them (`SoundTree`), whichever
  allocations fail, since a call that goes on after one still only adds nodes
  where it stands. An addition is a fold over the characters of a word, and a fold
  is defined by a recursive function on sets of positions: that this function
  exists is proved first (`IterateExists`), then that the fold is a walk, `g[0]`,
  `g[1]`, ..., in which each place follows from the one before (`Walk`), and all
  that is said of a word is said by induction along its walk. `WordsStay` follows
  since a call either grows the tree (`Grown`) and marks a node at most, or has met
  a failure that it noticed: then it answers `W_E_NO_MEMORY` and no word is left.
* `FirstData`, `LookupsRight` (`KeyTreeProofs`), from
  `HeldInv`, which adds that, while memory lasts, the nodes are the beginnings
  of the paths of the words that were added, the marks those paths, and the
  udata what the first addition of each left (`Holds`). The words of a list that
  a tree is created from and the words added later go through the same lemma
  (`WordHeld`). For the lookups, the slots that each of them follows are those
  of the path, up to the 0 that ends the string, for which no list has a place
  (`Leads`): so a lookup comes as far as the tree goes with the word, and finds
  it if it is marked (`LookupFinds`). `WeakLookupsRight` is about the two
  lookups that may read out of their lists, and about the words for which they
  do not (`ReadsOutside`): that is a condition on the tree, not on the word
  alone.

The constants' assumptions are named in `BkvWriter` and `KeyTree` (what the
client adds are words of bytes with udata), those that only some proofs need in
their modules. For the first two groups and `WriterImplementsDoc` nothing is
assumed about chunks, needs or failing allocations, but they are not about
memory either: `buf` is the document as it was written, and what the block holds
of it is the matter of `mem_size`, `lost` and `short` and the theorems of
`BkvWriterMemoryProofs`. The inductive invariants were model-checked before they
were proved, `RbtInv` but for the parts that ask for a function.

Only model-checked: `DocumentAsMeant` and `SkipsLand`, which visit the document
recursively; `FileTypeOK`, whose bounds on sizes in memory relate constants of
the run only; `ForeachComplete`, whose walk over the tree is recursive and
flattens lists of lists; and `LookupEnds`, since liveness and ENABLED are beyond
the proof system. So is everything about the JSON modules: `DicoExact`,
`ImportFaithful`, `OnlyFinishedRendered` and `RoundTrip` compare or look through
documents of any nesting, which is induction over data, while `JsonTypeOK` and
`ImportFinishes` are within the prover's reach and have not been proved; they
need the invariants of the writer, the dictionary and the keytree together, with
the text's open containers matched to the document's.

## Not modelled

* Values of scalars and their byte order: the conversion of `double` at
  `bkv_byteorder.c:102` loses most of it, and `get_number` adds up the characters
  of fractions and exponents, but no control flow depends on either.
* Printing and the command-line tools: output only.
* The logging table: an array that grows by one entry, two functions, nothing to
  relate. `RBEnumerate`, which is compiled out, and with it the stack, which
  nothing else uses. `bkv_init` and `bkv_term`, whose flag nothing tests.
* `bkv_val_foreach` with a client's callbacks, except the two sets the library
  itself has (lookups in `BkvReader`, JSON in `BkvToJson`).
* Input-buffer handles that a client opens: they are read like any other buffer,
  and have no file. `bkv_sync`, which changes nothing a mapping shows.
* An updating handle that outgrows its mapping, which maps the file anew, shared,
  and drops what was inserted until then.
* Nesting deeper than 32, where the code overwrites its own handle and the model
  stops (`RoomToPush`); more names than there are keys in a JSON text.
* Running out of memory in the dictionary and the JSON import; each of the parts
  they are made of has a run for that.
* Comparators of the red-black tree that do not return exactly 1 for greater, as
  `w_rbt.h:32` wants them to (the one in `rbt_test_0.c:25` does not).

## Plan

1. The import's `ImportFinishes`, from `IInv` of the writer and an invariant
   that relates `deep` to `deep_offset` and the place in the text to the stack.
2. `ForeachComplete` of the keytree, from what its recursive walk visits below a
   node.

----------------------------- MODULE BkvReadBack -----------------------------
(***************************************************************************)
(* A client writes a document (BkvWriter) and, once it is closed, looks up *)
(* values in it (BkvReader).  The two share the buffer: the reader finds   *)
(* its way by the types, keys and lengths the writer left there.           *)
(***************************************************************************)
EXTENDS BkvWriter, Sequences, SequencesExt

CONSTANTS Paths, NbVals   \* see BkvReader

(* The containers of the documents looked into bear keys of twelve bits:   *)
(* their headers are not read as another type (see HdrType).               *)
ASSUME QueriesAssumption ==
  /\ OpenKeys \subseteq 0..MAX_KEY
  /\ \A p \in Paths : p \in Seq(0 .. BKV_KEY_INVALID - 1) /\ p # <<>>
  /\ NbVals \subseteq Nat \ {0}

VARIABLES pc, origin, keys, nb_val, ptr, map_deep, key_offset, val

Reader == INSTANCE BkvReader
rvars == <<pc, origin, keys, nb_val, ptr, map_deep, key_offset, val>>

BackInit == Init /\ Reader!Init

(* A refused call changes nothing but `ret` and is left to BkvWriter.      *)
Writing == pc = "idle" /\ Next /\ ret' = "BKV_OK" /\ UNCHANGED rvars
Reading == state = "STATE_TERM" /\ Reader!Next /\ UNCHANGED vars

BackNext == Writing \/ Reading

(* The loop of val_foreach runs on, inside the call, until it returns.     *)
BackSpec ==
  /\ BackInit /\ [][BackNext]_<<vars, rvars>>
  /\ WF_<<vars, rvars>>(Reader!Step /\ UNCHANGED vars)

(***************************************************************************)
(* The document as a tree.                                                 *)
(***************************************************************************)
End(c) == c + buf[c].len
Children(c) == {o \in Nodes : o # 0 /\ NodeParent[o] = c}
Named(c, k) == {o \in Children(c) : buf[o].key = k}
First(S) == CHOOSE o \in S : \A p \in S : o <= p

NotFound == -1
(* The node that a path of keys leads to from map c, first come.           *)
Resolve(c, path) ==
  FoldLeft(LAMBDA at, k :
             IF at = NotFound \/ ~Reader!IsMap(at) \/ Named(at, k) = {}
             THEN NotFound ELSE First(Named(at, k)),
           c, path)

Maps == {o \in Nodes : Reader!IsMap(o)}
(* No map holds two entries of the same key.                               *)
UniqueKeys ==
  \A c \in Maps : \A o, p \in Children(c) : buf[o].key = buf[p].key => o = p
(* The maps that are elements of arrays do not bear a key looked for.      *)
ElementsUnnamed ==
  \A c \in Nodes : Reader!IsArray(c) =>
    \A o \in Children(c), i \in 1..Len(keys) : buf[o].key # keys[i]

FromMap == pc # "idle" /\ Reader!IsMap(origin)
FromArray == pc # "idle" /\ Reader!IsArray(origin)
Answered == pc = "done"

(***************************************************************************)
(* Properties.                                                             *)
(***************************************************************************)
ReaderTypeOK ==
  /\ TypeOK
  /\ pc \in {"idle", "loop", "done", "crash", "lost"}
  /\ origin \in 0..MaxBytes /\ keys \in Paths \cup {<<>>} /\ nb_val \in NbVals \cup {1}
  /\ ptr \in Nat /\ map_deep \in Int
  /\ key_offset \in -1 .. Len(keys)
  /\ val \in Seq(0..MaxBytes)

(* Looking into a map, val_foreach always stands on a token and never past *)
(* the end of that map: every hop, over a skipped map (bkv_val.c:98) or    *)
(* over a value (bkv_val.c:140-174), lands on a header.                    *)
StaysInside ==
  FromMap =>
    /\ pc \notin {"crash", "lost"}
    /\ pc = "loop" => ptr \in DOMAIN buf /\ origin <= ptr /\ ptr < End(origin)

(* map_deep, which decides when the walk is over (bkv_val.c:114), is the   *)
(* number of containers of v around the cursor, although skipped maps and  *)
(* arrays move it in different places (bkv_val.c:98-101, 110, 125, 134).   *)
DepthIsNesting ==
  FromMap /\ pc = "loop" =>
    map_deep = Cardinality({p \in Containers : origin <= p /\ p < ptr /\ ptr < End(p)})

(* A path of one key yields the first entry of that key, or nothing.       *)
SingleKeyExact ==
  FromMap /\ Answered /\ Len(keys) = 1 /\ ElementsUnnamed =>
    val = IF Named(origin, keys[1]) = {} THEN <<>>
          ELSE <<First(Named(origin, keys[1]))>>

(* A path that leads to a node yields that node: whatever lies before it,  *)
(* maps that are skipped and arrays that are walked through, does not lead *)
(* the lookup astray.                                                      *)
PathFound ==
  FromMap /\ Answered /\ keys # <<>> /\ UniqueKeys /\ ElementsUnnamed =>
    (Resolve(origin, keys) # NotFound => val = <<Resolve(origin, keys)>>)

(* The elements a read of an array can return, in order.                   *)
Element(i) == CHOOSE o \in Children(origin) :
                Cardinality({p \in Children(origin) : p <= o}) = i

(* An array of numbers, read without keys and for no more values than it   *)
(* has, yields its first elements in order.                                *)
NumbersInOrder ==
  FromArray /\ keys = <<>> /\ nb_val <= Cardinality(Children(origin))
  /\ (\A o \in Children(origin) : buf[o].type \in Numbers) =>
    /\ pc \notin {"crash", "lost"}
    /\ Answered => val = [i \in 1..nb_val |-> Element(i)]

(* Every lookup comes to an end.                                           *)
LookupEnds == pc = "loop" ~> pc # "loop"

(* bkv_val.h:132 "the xpath like way to get the right value": a path that  *)
(* leads nowhere yields nothing.                                           *)
PathExact ==
  FromMap /\ Answered /\ keys # <<>> /\ UniqueKeys /\ ElementsUnnamed =>
    (Resolve(origin, keys) = NotFound => val = <<>>)
==============================================================================

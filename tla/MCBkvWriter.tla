----------------------------- MODULE MCBkvWriter -----------------------------
(* Small instances of BkvWriter for TLC.                                   *)
EXTENDS BkvWriter

(* Calls that reserve too little, by two bytes and by six, and too much; a *)
(* string that fills a chunk of 12 bytes and one that is a byte longer.    *)
MCKvAdds == {KvU16, KvBoolean, KvWchar(2), KvStr(9)}
MCArrayAdds == {ArrayU16, ArrayBoolean}

BooleanOnly == {ArrayBoolean}
DefaultChunkOnly == {-1}
==============================================================================

----------------------------- MODULE MCBkvInsert -----------------------------
(* Small instances of BkvInsert for TLC.                                   *)
EXTENDS BkvInsert

MCKvAdds == {KvU16, KvBoolean}
MCArrayAdds == {ArrayBoolean}
After16 == {HDR_TYPE_INT16}
DefaultChunkOnly == {-1}
==============================================================================

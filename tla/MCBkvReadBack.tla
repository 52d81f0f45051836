---------------------------- MODULE MCBkvReadBack ----------------------------
(* Small instances of BkvReadBack for TLC.                                 *)
EXTENDS BkvReadBack

MCKvAdds == {KvU16, KvBoolean}
MCArrayAdds == {ArrayU16, ArrayBoolean}

OneOrTwoKeys == {<<1>>, <<2>>, <<1, 2>>, <<1, 1>>}
DefaultChunkOnly == {-1}
==============================================================================

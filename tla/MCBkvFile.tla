----------------------------- MODULE MCBkvFile -------------------------------
(* Small instances of BkvFile for TLC.                                     *)
EXTENDS BkvFile

MCKvAdds == {KvU16}
MCArrayAdds == {ArrayBoolean}
After16 == {HDR_TYPE_INT16}
DefaultChunkOnly == {-1}
==============================================================================

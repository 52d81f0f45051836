------------------------------ MODULE MCBkvJson ------------------------------
(* Small instances of BkvToJson for TLC.                                   *)
EXTENDS BkvToJson

DefaultChunkOnly == {-1}
NoAdds == {}
(* "a" begins "ab"; "_" has no place in the keytree as a first character.  *)
MCNames == {<<97>>, <<97, 98>>, <<95>>}
TwoNames == {<<97>>, <<98>>}
==============================================================================

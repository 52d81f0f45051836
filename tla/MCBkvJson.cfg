\* Texts of a few tokens imported with both dictionaries and rendered again.
SPECIFICATION JsonSpec
CHECK_DEADLOCK FALSE
CONSTANTS
  DefaultChunk = 1024
  ChunkSizes <- DefaultChunkOnly
  HandleKinds = {"ram"}
  KvAdds = {}
  ArrayAdds = {}
  Keys = {}
  OpenKeys = {}
  Stale = 7
  AllocMayFail = FALSE
  MaxDepth = 5
  MaxBytes = 200
  DicoTypes = {"direct", "cached"}
  Names <- MCNames
  Kinds = {"boolean", "u16", "u32", "float", "double", "string"}
  MaxPieces = 9
  MaxKinds = 2
  MaxCut = 5
INVARIANTS
  JsonTypeOK
  ImportFinishes
  ImportFaithful
  DicoExact
  OnlyFinishedRendered
  RoundTrip

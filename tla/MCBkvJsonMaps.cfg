\* A map that is an element of an array does not come back as it was.
SPECIFICATION JsonSpec
CHECK_DEADLOCK FALSE
CONSTANTS
  DefaultChunk = 1024
  ChunkSizes <- DefaultChunkOnly
  HandleKinds = {"ram"}
  KvAdds = {}
  ArrayAdds = {}
  Keys = {}
  OpenKeys = {}
  Stale = 7
  AllocMayFail = FALSE
  MaxDepth = 5
  MaxBytes = 200
  DicoTypes = {"direct"}
  Names <- TwoNames
  Kinds = {"string"}
  MaxPieces = 9
  MaxKinds = 1
  MaxCut = 4
INVARIANT TextComesBack

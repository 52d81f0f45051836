\* Lookups of paths that lead nowhere.
SPECIFICATION BackSpec
CHECK_DEADLOCK FALSE
CONSTANTS
  DefaultChunk = 64
  ChunkSizes <- DefaultChunkOnly
  HandleKinds = {"ram"}
  KvAdds <- MCKvAdds
  ArrayAdds <- MCArrayAdds
  Keys = {1, 2}
  OpenKeys = {0, 1}
  Stale = 0
  AllocMayFail = FALSE
  MaxDepth = 4
  MaxBytes = 20
  Paths <- OneOrTwoKeys
  NbVals = {1, 2}
INVARIANT PathExact

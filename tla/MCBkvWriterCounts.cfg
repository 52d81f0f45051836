\* The element counts of arrays; chunks scaled from 128 to 12 bytes.
SPECIFICATION Spec
CONSTANTS
  DefaultChunk = 12
  ChunkSizes <- DefaultChunkOnly
  HandleKinds = {"ram"}
  KvAdds = {}
  ArrayAdds <- BooleanOnly
  Keys = {1}
  OpenKeys = {1}
  Stale = 7
  AllocMayFail = FALSE
  MaxDepth = 3
  MaxBytes = 30
INVARIANT ArrayCountsExact

\* Insertions into the root map and into the maps in it.
SPECIFICATION InsertSpec
CHECK_DEADLOCK FALSE
CONSTANTS
  DefaultChunk = 12
  ChunkSizes <- DefaultChunkOnly
  HandleKinds = {"ram", "file"}
  KvAdds <- MCKvAdds
  ArrayAdds <- MCArrayAdds
  Keys = {1}
  OpenKeys = {1}
  Stale = 7
  AllocMayFail = FALSE
  MaxDepth = 3
  MaxBytes = 20
  InsertAfter <- After16
  InsertDepths = {1, 2}
  EndMayFail = FALSE
  PageSize = 64
INVARIANT SkipsLand

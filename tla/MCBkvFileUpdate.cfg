\* A finished file is opened to insert into it, then to be read.
SPECIFICATION FileSpec
CHECK_DEADLOCK FALSE
CONSTANTS
  DefaultChunk = 12
  ChunkSizes <- DefaultChunkOnly
  HandleKinds = {"file"}
  KvAdds <- MCKvAdds
  ArrayAdds <- MCArrayAdds
  Keys = {1}
  OpenKeys = {1}
  Stale = 7
  AllocMayFail = FALSE
  MaxDepth = 3
  MaxBytes = 14
  InsertAfter <- After16
  InsertDepths = {1}
  EndMayFail = FALSE
  PageSize = 64
  MaxOpens = 2
INVARIANT UpdatePersists

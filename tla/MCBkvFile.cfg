\* Documents in RAM and in a file that is opened again, insertions included.
SPECIFICATION FileSpec
CHECK_DEADLOCK FALSE
CONSTANTS
  DefaultChunk = 12
  ChunkSizes <- DefaultChunkOnly
  HandleKinds = {"ram", "file"}
  KvAdds <- MCKvAdds
  ArrayAdds <- MCArrayAdds
  Keys = {1}
  OpenKeys = {1}
  Stale = 7
  AllocMayFail = FALSE
  MaxDepth = 3
  MaxBytes = 22
  InsertAfter <- After16
  InsertDepths = {1}
  EndMayFail = TRUE
  PageSize = 64
  MaxOpens = 1
INVARIANTS
  FileTypeOK
  DocumentAsMeant
  SkipsLand
  UnclosedShows

\* Every document of at most 25 bytes with two keys, and every lookup in it.
SPECIFICATION BackSpec
CHECK_DEADLOCK FALSE
CONSTANTS
  DefaultChunk = 64
  ChunkSizes <- DefaultChunkOnly
  HandleKinds = {"ram"}
  KvAdds <- MCKvAdds
  ArrayAdds <- MCArrayAdds
  Keys = {1, 2}
  OpenKeys = {0, 1}
  Stale = 0
  AllocMayFail = FALSE
  MaxDepth = 4
  MaxBytes = 25
  Paths <- OneOrTwoKeys
  NbVals = {1, 2}
INVARIANTS
  ReaderTypeOK
  StaysInside
  DepthIsNesting
  SingleKeyExact
  PathFound
  NumbersInOrder
PROPERTY LookupEnds

SPECIFICATION Spec
CONSTANTS
  DefaultChunk = 12
  ChunkSizes <- DefaultChunkOnly
  HandleKinds = {"ram", "file"}
  KvAdds <- MCKvAdds
  ArrayAdds <- MCArrayAdds
  Keys = {1, 4096}
  OpenKeys = {1}
  Stale = 7
  AllocMayFail = TRUE
  MaxDepth = 4
  MaxBytes = 24
INVARIANTS
  TypeOK
  StateMatchesStack
  ArraysOnlyInMaps
  LengthsDelimit
  ClosedIsWhole
  OnlyLastTokenOverruns
  FinishedFits
  SkeletonSurvives
PROPERTIES
  AppendOnly
  RefinesDoc

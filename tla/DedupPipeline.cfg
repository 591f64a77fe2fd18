SPECIFICATION FairSpec
CONSTANTS
  ca = ca
  cb = cb
  cy = cy
  cx = cx
  NoChunk = NoChunk
  Input <- MCInput
  NThreads = 3
  ThreadsPerQueue = 2
  QueueSize = 4
  Batch = 2
  InitialSlots = 2
INVARIANTS
  TypeOK
  Assertions
  NothingLeftBehind
  FreedChunksAreUnreachable
  BufferLivesAsLongAsItsChunks
  RestoresInput
PROPERTIES
  ImplementsArchive
  EveryStageReturns

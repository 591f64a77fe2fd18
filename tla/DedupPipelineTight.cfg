SPECIFICATION Spec
CONSTANTS
  ca = ca
  cb = cb
  cy = cy
  cx = cx
  NoChunk = NoChunk
  Input <- MCUneven
  NThreads = 2
  ThreadsPerQueue = 1
  QueueSize = 1
  Batch = 2
  InitialSlots = 4
INVARIANTS
  StuckOnlyBehindAFullQueue

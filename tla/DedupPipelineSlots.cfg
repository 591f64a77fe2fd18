SPECIFICATION Spec
CONSTANTS
  ca = ca
  cb = cb
  cy = cy
  cx = cx
  NoChunk = NoChunk
  Input <- MCInput
  NThreads = 3
  ThreadsPerQueue = 2
  QueueSize = 4
  Batch = 2
  InitialSlots = 1
INVARIANT
  EveryAnchorHasASlot

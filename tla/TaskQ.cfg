SPECIFICATION FairSpec
CONSTANTS
  numThreads = 3
  threadsPerTaskQ = 1
  Batches <- MCBatches
  Children <- MCChildren
INVARIANTS
  TypeOK
  OneTaskOnePlace
PROPERTIES
  WaitCompletes
  EveryoneLeaves

SPECIFICATION FairSpec
CONSTANTS
  t1 = t1
  t2 = t2
  Threads = {t1, t2}
  nElements = 3
  moves = 2
  TempSteps <- MCTempSteps
  MaxSteps = 1
INVARIANTS
  TypeOK
  OneOwner
  OnlyConvergenceStrands
PROPERTIES
  ImplementsSwap
  EveryThreadReturns

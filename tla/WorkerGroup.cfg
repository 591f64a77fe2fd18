SPECIFICATION FairSpec
CONSTANTS
  w1 = w1
  w2 = w2
  w3 = w3
  Boss = Boss
  IDLE = IDLE
  SHUTDOWN = SHUTDOWN
  Workers = {w1, w2, w3}
  Scripts <- MCScripts
  Height = 4
  KernelSize = 3
  Particles = 3
  WorkUnit <- MCWorkUnit
INVARIANTS
  TypeOK
  InStep
  TicketsAreForWaiters
  EveryItemOnce
PROPERTIES
  PoolIsJoined

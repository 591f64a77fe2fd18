SPECIFICATION FairSpec
CONSTANTS
  t1 = t1
  t2 = t2
  t3 = t3
  Threads = {t1, t2, t3}
  Uses = 4
  Spin = TRUE
INVARIANTS
  TypeOK
  SleepersHaveAReason
  OneSerialThread
PROPERTIES
  ImplementsBarrier
  EveryUseEnds

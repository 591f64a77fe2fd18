SPECIFICATION FairSpec
CONSTANTS
  p1 = p1
  p2 = p2
  c1 = c1
  c2 = c2
  Producers = {p1, p2}
  Consumers = {c1, c2}
  Quota = 3
  Capacity = 2
  InsertLimit = 2
  FetchLimit = 2
  Nobody = Nobody
  Junk = Junk
INVARIANTS
  TypeOK
  EnqueueOnOpenQueue
  BatchesAreNotEmpty
  NoStrandedElements
  NoStrandedProducer
PROPERTIES
  ImplementsFifo
  EveryThreadReturns

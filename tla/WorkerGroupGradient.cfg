SPECIFICATION Spec
CONSTANTS
  w1 = w1
  w2 = w2
  w3 = w3
  Boss = Boss
  IDLE = IDLE
  SHUTDOWN = SHUTDOWN
  Workers = {w1, w2, w3}
  Scripts <- MCTwoImages
  Height = 4
  KernelSize = 3
  Particles = 3
  WorkUnit <- MCWorkUnit
INVARIANTS
  GradientOfEveryRow

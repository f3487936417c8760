\* One process, two conversations, one or two STOPs, nothing fails.
SPECIFICATION Spec
CONSTANTS
  w1 = w1
  w2 = w2
  t1 = t1
  t2 = t2
  Workers = {w1}
  Threads = {t1, t2}
  MaxLen = 100
  SlowRedis = FALSE
  MaxUsers = 3
  MaxStops = 2
  MaxFaults = 0
  MaxCrashes = 0
SYMMETRY Symmetry
INVARIANTS
  TypeOK
  LossHasCause
CHECK_DEADLOCK FALSE

\* A message waits and no QUEUED event says so.
SPECIFICATION Spec
CONSTANTS
  w1 = w1
  w2 = w2
  t1 = t1
  t2 = t2
  Workers = {w1}
  Threads = {t1}
  MaxLen = 100
  SlowRedis = FALSE
  MaxUsers = 2
  MaxStops = 0
  MaxFaults = 0
  MaxCrashes = 0
INVARIANTS
  WaitingIsAnnounced
CHECK_DEADLOCK FALSE

\* Two processes, one of which may shut down or die, and a STOP; under fairness.
SPECIFICATION FairSpec
CONSTANTS
  w1 = w1
  w2 = w2
  t1 = t1
  Workers = {w1, w2}
  Threads = {t1}
  MaxLen = 100
  SlowRedis = FALSE
  MaxUsers = 2
  MaxStops = 1
  MaxFaults = 0
  MaxCrashes = 1
INVARIANTS
  RunsInOrder
PROPERTIES
  StopReachesRun
  EveryMessageAnswered
  QueuesDrain
\* A worker with nothing to read waits.
CHECK_DEADLOCK FALSE

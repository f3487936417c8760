\* Two processes: STOP is read by the one that does not run the thread.
SPECIFICATION Spec
CONSTANTS
  w1 = w1
  w2 = w2
  t1 = t1
  t2 = t2
  Workers = {w1, w2}
  Threads = {t1}
  MaxLen = 100
  SlowRedis = FALSE
  MaxUsers = 1
  MaxStops = 1
  MaxFaults = 0
  MaxCrashes = 0
PROPERTIES
  StopReachesEveryRun
CHECK_DEADLOCK FALSE

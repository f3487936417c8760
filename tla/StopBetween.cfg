\* A STOP meets a task between two messages, and wait_for drops it.
SPECIFICATION Spec
CONSTANTS
  w1 = w1
  w2 = w2
  t1 = t1
  t2 = t2
  Workers = {w1}
  Threads = {t1}
  MaxLen = 100
  SlowRedis = FALSE
  MaxUsers = 2
  MaxStops = 1
  MaxFaults = 0
  MaxCrashes = 0
PROPERTIES
  StoppedBeforeRun
CHECK_DEADLOCK FALSE

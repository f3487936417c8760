\* One process that Redis fails once and that shuts down or dies once.
SPECIFICATION Spec
CONSTANTS
  w1 = w1
  w2 = w2
  t1 = t1
  t2 = t2
  Workers = {w1}
  Threads = {t1}
  MaxLen = 100
  SlowRedis = FALSE
  MaxUsers = 3
  MaxStops = 1
  MaxFaults = 1
  MaxCrashes = 1
INVARIANTS
  OneTaskPerThread
  DoneMatchesRuns
PROPERTIES
  MailboxSpec
  StopIsFinal
CHECK_DEADLOCK FALSE

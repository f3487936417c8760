\* Two requests at a time, the server and another consumer; a miner with room for
\* one cluster.
SPECIFICATION FairSpec
CONSTANTS
  x = x
  y = y
  r1 = r1
  r2 = r2
  server = server
  other = other
  Templates = {x, y}
  Posts = {r1, r2}
  Batches <- SomeBatches
  Server = server
  Others = {other}
  MaxClusters = 1
  MaxCopies = 2
  MaxLogs = 3
  MaxFaults = 1
  MaxEnds = 1
INVARIANTS
  LossHasCause
  ReportedInOrder
  LearnedAgainForCause
PROPERTIES
  ListDrains
\* Vector may have no more logs.
CHECK_DEADLOCK FALSE

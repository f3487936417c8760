\* One request at a time, `auperator server' with `auperator start', no faults.
SPECIFICATION Spec
CONSTANTS
  x = x
  y = y
  r1 = r1
  server = server
  other = other
  Templates = {x, y}
  Posts = {r1}
  Batches <- SomeBatches
  Server = server
  Others = {other}
  MaxClusters = 2
  MaxCopies = 2
  MaxLogs = 3
  MaxFaults = 0
  MaxEnds = 0
INVARIANT HandledOnce
CHECK_DEADLOCK FALSE

\* One response; the responses share nothing but the container.
SPECIFICATION FairSpec
CONSTANTS
  c1 = c1
  Clients = {c1}
  MaxLines = 5
  MaxFaults = 1
INVARIANTS
  LinesInOrder
PROPERTIES
  EverythingEnds
\* The container may have stopped and everybody left.
CHECK_DEADLOCK FALSE

\* Two pages share the group.
SPECIFICATION Spec
CONSTANTS
  c1 = c1
  c2 = c2
  p1 = p1
  p2 = p2
  t1 = t1
  t2 = t2
  Conns = {c1, c2}
  Pages = {p1, p2}
  Threads = {t1, t2}
  MaxLen = 100
  MaxEvents = 1
  MaxFaults = 0
  MaxLeaves = 0
  MaxCuts = 0
PROPERTIES
  EventsReachTheirReaders
CHECK_DEADLOCK FALSE

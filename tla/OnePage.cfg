\* One page whose connection breaks; the server may still serve it when the page
\* has another one; Redis fails.
SPECIFICATION FairSpec
CONSTANTS
  c1 = c1
  c2 = c2
  p1 = p1
  p2 = p2
  t1 = t1
  t2 = t2
  Conns = {c1, c2}
  Pages = {p1}
  Threads = {t1, t2}
  MaxLen = 100
  MaxEvents = 3
  MaxFaults = 2
  MaxLeaves = 0
  MaxCuts = 2
INVARIANTS
  EventsReachTheirPage
PROPERTIES
  PageCatchesUp
CHECK_DEADLOCK FALSE

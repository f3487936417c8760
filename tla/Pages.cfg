\* Two pages, two conversations, a page that leaves, Redis failures.
SPECIFICATION Spec
CONSTANTS
  c1 = c1
  c2 = c2
  p1 = p1
  p2 = p2
  t1 = t1
  t2 = t2
  Conns = {c1, c2}
  Pages = {p1, p2}
  Threads = {t1, t2}
  MaxLen = 100
  MaxEvents = 3
  MaxFaults = 1
  MaxLeaves = 1
  MaxCuts = 1
SYMMETRY Symmetry
INVARIANTS
  ShownOnceInOrder
CHECK_DEADLOCK FALSE

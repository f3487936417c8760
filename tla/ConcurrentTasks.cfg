\* Two sub-agents at a time, no faults: can their results be merged?
SPECIFICATION Spec
CONSTANTS
  a0 = a0
  s1 = s1
  s2 = s2
  f1 = f1
  None = None
  Main = a0
  Subs = {s1, s2}
  Silent = {s2}
  MainPlans <- TaskPlans
  SubPlans <- SomeSubPlans
  Fields = {f1}
  ErrorLog = f1
  Keep = 1
  CutFrom = 4
  CutKeep = 2
  MaxMade = 9
  MaxFaults = 0
INVARIANT TasksCanBeMerged
CHECK_DEADLOCK FALSE

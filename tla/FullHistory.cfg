\* Is the file of the summary the full history?
SPECIFICATION Spec
CONSTANTS
  a0 = a0
  s1 = s1
  s2 = s2
  f1 = f1
  None = None
  Main = a0
  Subs = {s1, s2}
  Silent = {s2}
  MainPlans <- SomeMainPlans
  SubPlans <- SomeSubPlans
  Fields = {f1}
  ErrorLog = f1
  Keep = 1
  CutFrom = 4
  CutKeep = 2
  MaxMade = 7
  MaxFaults = 0
INVARIANT FullHistorySaved
CHECK_DEADLOCK FALSE

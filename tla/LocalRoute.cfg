\* The composition as it is deployed: its route has no closing slash.
SPECIFICATION Spec
CONSTANTS
  c1 = c1
  c2 = c2
  b1 = b1
  b2 = b2
  NoPath = NoPath
  Nobody = Nobody
  Garbled = Garbled
  Hidden <- HiddenNames
  Ignored = {}
  Setups <- DeployedSetup
  Args <- SomeArgs
  Words <- SomeWords
  Contents <- SomeContents
  Home <- HomeDirectory
  Callers = {c1, c2}
  Boxes = {b1, b2}
  MaxUpdates = 1
  MaxFaults = 1
SYMMETRY Symmetry
INVARIANT PrefixesRestored
CHECK_DEADLOCK FALSE

\* The documented composition, the deployed one, whose route has no closing slash,
\* and one with a directory of the disk under a route; two calls at a time.
SPECIFICATION Spec
CONSTANTS
  c1 = c1
  c2 = c2
  b1 = b1
  b2 = b2
  NoPath = NoPath
  Nobody = Nobody
  Garbled = Garbled
  Hidden <- HiddenNames
  Ignored = {}
  Setups <- ThreeSetups
  Args <- SomeArgs
  Words <- SomeWords
  Contents <- SomeContents
  Home <- HomeDirectory
  Callers = {c1, c2}
  Boxes = {b1, b2}
  MaxUpdates = 3
  MaxFaults = 1
SYMMETRY Symmetry
INVARIANTS
  TypeOK
  PathsLeadBack
  NothingMissed
  RepliesAreTrue
  AcknowledgedStays
PROPERTY FlatSpec
\* The agent may have no more calls to make.
CHECK_DEADLOCK FALSE

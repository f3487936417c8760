\* Two loops of one group on a stream that retains two entries.
SPECIFICATION Spec
CONSTANTS
  c1 = c1
  c2 = c2
  e = e
  Consumers = {c1, c2}
  Events = {e}
  MaxLen = 2
  MaxEvents = 5
  MaxFaults = 2
INVARIANTS
  HeldByOne
  LossIsPending
PROPERTIES
  InStreamOrder

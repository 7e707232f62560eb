CONSTANTS
  Builds = {b1}
  Procs = {p1, p2}
  Slots = {s1}
  MaxAttempts = 2
  MaxFaults = 1
  None = None
  Gone = Gone
  b1 = b1
  p1 = p1
  p2 = p2
  s1 = s1
SPECIFICATION FairSpec
INVARIANTS
  SucceededIsWhole
  ServedIsWritten
  IInv
PROPERTIES
  LeaseIsKept
  Implements
  BuildsEnd

CONSTANTS
  Builds = {b1}
  Procs = {p1, p2}
  Slots = {s1}
  MaxAttempts = 2
  MaxFaults = 0
  None = None
  Gone = Gone
  b1 = b1
  p1 = p1
  p2 = p2
  s1 = s1
SPECIFICATION Spec
PROPERTY LeaseIsRespected
SYMMETRY Symmetry

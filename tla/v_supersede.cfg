CONSTANTS
  Entries = {1, 2, 3, 4}
  Calls = {c1, c2}
  None = None
  c1 = c1
  c2 = c2
SPECIFICATION Spec
INVARIANT NeverCyclic
SYMMETRY Symmetry

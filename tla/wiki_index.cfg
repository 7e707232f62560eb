CONSTANTS
  Builds = {b1, b2}
  Pages = {g1, g2}
  Indexers = {i1, i2}
  MaxErrors = 1
  None = None
  MayFail = TRUE
SPECIFICATION Spec
INVARIANTS
  CalmGapIsVisible
  LoneRunIsWhole
SYMMETRY Symmetry

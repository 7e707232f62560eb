CONSTANTS
  g = g
  l = l
  Packages = {p1, p2, p3}
  Origins <- MCOrigins
  Git <- MCGit
  Metadata <- MCMetadata
  Calls = {c1, c2}
  MaxCommits = 3
  None = None
SPECIFICATION Spec
INVARIANTS
  HistoryOfOneOrigin
  ReplayNeverConflicts
  SyncDescribesActive
SYMMETRY Symmetry

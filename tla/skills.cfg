CONSTANTS
  p0 = p0
  s0 = s0
  Skills <- MCSkills
  Packages <- MCPackages
  NameOf <- MCNameOf
  Compiles <- MCCompiles
  Tree <- MCTree
  Git = {g}
  Local = {l}
  Commits = {k}
  Snapshots = {n}
  Calls = {c1, c2}
  MaxVersions = 2
  None = None
SPECIFICATION FairSpec
INVARIANTS
  IInv
  NeverConflicts
PROPERTY ReindexConverges

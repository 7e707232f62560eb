CONSTANTS
  Keys = {e1, e2}
  Indexers = {c1, c2}
  NoKey = NoKey
  MayFail = TRUE
SPECIFICATION MemorySpec
INVARIANTS
  IInv
  IndexedHasPoint
  ProjectionIsOfEntries
  LeftoversAreKnown
PROPERTY ActiveStaysFound
SYMMETRY Symmetry

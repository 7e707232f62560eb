CONSTANTS
  Entries = {1, 2, 3}
  Calls = {c1, c2, c3}
  None = None
  c1 = c1
  c2 = c2
  c3 = c3
SPECIFICATION FairSpec
INVARIANTS
  IInv
  NoMutualReplacement
  NeverCyclic
PROPERTIES
  ReplacementIsFinal
  CallsEnd

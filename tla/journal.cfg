CONSTANTS
  Contents = {x, y}
  Keys = {k}
  Sessions = {s}
  Calls = {c1, c2}
  Limit = 1
  MaxTime = 2
  MaxEvents = 3
  None = None
SPECIFICATION Spec
INVARIANTS
  JournalOK
  AnswerIsOwn
  CalmResume
SYMMETRY Symmetry

SPECIFICATION Spec
CONSTANTS
  Addr = {a1, a2, a3, a4}
  NULL = NULL
  Ids = {1, 2}
  Dates = {1, 2}
  MaxRunning = 2
  MaxInstalls = 1
INVARIANTS TypeOK LiveUntilUpdate NoLeak LinksCurrent
PROPERTY LoadEnds

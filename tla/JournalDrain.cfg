SPECIFICATION Spec
CONSTANTS
  Producers = {p1, p2}
  Cells = {x, y}
  Values = {0, 1}
  Off = 0
  JOURNAL_MAX_ENTRIES = 2
  Stalls = FALSE
  MaxWrites = 3
  MaxForces = 1
  MaxRuns = 2
SYMMETRY Symmetry
INVARIANTS TypeOK FlushOnLock
PROPERTY Ordered

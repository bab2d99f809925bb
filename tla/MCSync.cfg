SPECIFICATION Spec
CONSTANTS
  Tools = {t1, t2}
  Tasks = {p1, p2}
  Embedders = {e1, e2}
  MaxVersion = 2
  BatchSize = 1
  MaxOps = 3
SYMMETRY Symmetry
INVARIANTS
  
  
  DeletionHolds
CHECK_DEADLOCK FALSE

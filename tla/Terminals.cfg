CONSTANTS
  Block = {b1, b2, b3, b4, b5, b6}
  Terminal = {t1, t2}
  Meaning = {v1, v2}
  Free = Free
  None = None
SYMMETRY MCSymmetry
SPECIFICATION Spec
INVARIANTS
  TerminalsInv
PROPERTIES
  OnlyHoldersInvalidate
CHECK_DEADLOCK FALSE

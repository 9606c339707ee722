SPECIFICATION Spec
CONSTANTS
  Bss = {b1, b2}
  NULL = NULL
  MaxReq = 5
SYMMETRY Symmetry
INVARIANTS ResponseKeepsBss HoldsBalance
CHECK_DEADLOCK FALSE

SPECIFICATION ConfigSpec
CONSTANTS
  u1 = u1
  u2 = u2
  w1 = w1
  w2 = w2
  Users <- UserSet
  Writers <- WriterSet
  MaxVifs = 2
  MaxLoads = 2
  MaxConf = 2
  MaxEvents = 1
SYMMETRY Symmetry
INVARIANTS ProbeAfterInit SlotsAgree NothingLeft FaultHasCause ShadowIsTrue FileHasDevice FirstEventIsWhole
CHECK_DEADLOCK FALSE

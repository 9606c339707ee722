SPECIFICATION MCSpec
CONSTANTS
  MaxReq = 1
  MaxFrames = 0
  MaxConfigs = 0
  MaxMixed = 0
  Rates = {}
  Frames = {}
INVARIANT NoOops
CHECK_DEADLOCK FALSE

SPECIFICATION MCSpec
CONSTANTS
  MaxReq = 1
  MaxFrames = 1
  MaxConfigs = 0
  MaxMixed = 2
  Rates = {55}
  Frames <- MCFrames
INVARIANT MonitorFramesHaveRadiotap
CHECK_DEADLOCK FALSE

SPECIFICATION MCSpec
CONSTANTS
  MaxReq = 3
  MaxFrames = 2
  MaxConfigs = 1
  MaxMixed = 3
  Rates = {11, 55, 60}
  Frames <- MCFrames
INVARIANTS ResultIsOwn ModeAgreement BuffersSafe TypesAgree FramesMatchLink InjectedAsAsked
CHECK_DEADLOCK FALSE

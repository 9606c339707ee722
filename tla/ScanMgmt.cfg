SPECIFICATION MCSpec
CONSTANTS
  MaxScans = 3
  MaxResults = 1
  MaxDowns = 1
  CookieMod = 4
  MaxFrames = 4
  MaxFail = 1
INVARIANTS NeverForgotten ScanDoneIsDue StatusesPaired
PROPERTIES ScanEnds ImplementsStatuses
CHECK_DEADLOCK FALSE

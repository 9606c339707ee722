SPECIFICATION Spec
CONSTANTS
  Inputs <- MCInputs
  Channels = {1, 36, 200}
  MaxWrites = 5
  MaxFail = 1
INVARIANTS HostKnowsTests BufferSafe
CHECK_DEADLOCK FALSE

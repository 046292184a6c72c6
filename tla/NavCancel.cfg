SPECIFICATION NvSpec
CONSTANTS
  NvRequired = 1
  NvMaxFrames = 1
  NvMaxReports = 1
  NvMaxFaults = 0
INVARIANT NvCancelOwn
CHECK_DEADLOCK FALSE

SPECIFICATION IsSpec
CONSTANTS
  IsMaxBoots = 1
  IsMaxMsgs = 2
  IsMaxFaults = 0
INVARIANT IsOfflineStands
CHECK_DEADLOCK FALSE

SPECIFICATION CrSpec
CONSTANTS
  CrSlots = {1, 18, 19, 27, 28, 45, 46}
  CrResumes = 2
  CrTasks = 3
INVARIANT CrInspectsAll
CHECK_DEADLOCK FALSE

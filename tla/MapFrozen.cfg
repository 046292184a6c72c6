SPECIFICATION MvSpec
CONSTANTS
  MvVersions = {v1, v2}
  MvReleased = v1
  MvSlots = {s1, s2}
  MvSeeded = s1
  MvSeedPoints = {p1}
  MvPoints = {p1, p2}
  MvRoutes = {}
  MvPresets = {}
  MvClients = {c1, c2}
  NoVersion = NoVersion
  NoSlot = NoSlot
  MvRequests = 3
INVARIANT MvFrozen
CHECK_DEADLOCK FALSE

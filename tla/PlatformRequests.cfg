SPECIFICATION ComponentsSpec
CONSTANTS
  IsMaxBoots = 2
  IsMaxMsgs = 3
  IsMaxFaults = 1
  MlLeases = {l1, l2}
  MlActors = {a1, a2}
  NoLease = NoLease
  MlMaxFaults = 1
  TkMax = 2
  TkClients = {c1, c2}
  TkKeys = {1, 2}
  NvRequired = 2
  NvMaxFrames = 1
  NvMaxReports = 2
  NvMaxFaults = 1
  PsSlots = 2
  PsEvery = 2
  PsGrace = 1
  PsExpiry = 2
  PsMaxFaults = 1
  Ops = {o1}
  Situations = {"NOT_REQUIRED"}
  Frames = 2
  AckDeadline = 1
  CancelDeadline = 2
  VerifyDeadline = 2
  Freshness = 0
  Period = 1
  Skew = 0
  MaxTime = 2
  MaxMsgs = 3
  MaxBoots = 2
  CrSlots = {1, 18, 19, 27, 28, 45, 46}
  CrResumes = 1
  CrTasks = 3
  MfMsgs = {"m1", "m2", "m3"}
  MfSame = {"m1", "m2"}
  MfKeep = 2
  MfCommits = 4
  MfDrops = 1
  ElThreads = {"a", "b"}
  ElQueueMax = 1
  ElFileMax = 1
  ElKeep = 1
  ElTotalMax = 2
  ElSeenMax = 1
  ElEvents = 3
  ElDiskFaults = 1
  CaPatrols = {"p", "q"}
  CaStops = {"s"}
  MvVersions = {v1, v2}
  MvReleased = v1
  MvSlots = {s1, s2}
  MvSeeded = s1
  MvSeedPoints = {p1}
  MvPoints = {p1, p2}
  MvRoutes = {t1}
  MvPresets = {n1}
  MvClients = {r1, r2}
  NoVersion = NoVersion
  NoSlot = NoSlot
  MvRequests = 6
  Focus = {"stop", "session", "leases", "fire", "patrol", "keys", "navigation", "schedule",
           "cruise", "alarms", "feed", "trail", "disk", "adapter", "maps"}
INVARIANTS ComponentsTypeOK DistinctEvidence EvidenceOfThisBoot IsEndedNeverBack  MlLeaseBacked TkOneTaskPerKey
  TkFireEngaged TkConsumedHasCause PsNoRunForgotten PsOneTask
  ElLossIsCounted ElHistory CrClear CrInspectsAll CaConfirmed MsNoGap FaNoReportLost 
PROPERTIES CaStopHolds
CHECK_DEADLOCK FALSE

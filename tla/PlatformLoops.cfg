SPECIFICATION AllFairSpec
CONSTANTS
  IsMaxBoots = 2
  IsMaxMsgs = 3
  IsMaxFaults = 1
  MlLeases = {l1, l2}
  MlActors = {a1, a2}
  NoLease = NoLease
  MlMaxFaults = 1
  NvRequired = 2
  NvMaxFrames = 1
  NvMaxReports = 2
  NvMaxFaults = 1
  PsSlots = 2
  PsEvery = 2
  PsGrace = 1
  PsExpiry = 2
  PsMaxFaults = 1
  Ops = {o1}
  Situations = {"NOT_REQUIRED", "WAITING_ACK", "UNAVAILABLE"}
  Frames = 1
  AckDeadline = 1
  CancelDeadline = 2
  VerifyDeadline = 2
  Freshness = 0
  Period = 1
  Skew = 0
  MaxTime = 2
  MaxMsgs = 1
  MaxBoots = 1
  Focus = {"silence", "held", "arrival", "queue", "outcome"}
INVARIANT FullSuccess
PROPERTIES IsSilenceShows MlHeldEnds NvSettles PsQueueDrains EventuallyConcluded OutcomeStands
CHECK_DEADLOCK FALSE

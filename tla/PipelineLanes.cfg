SPECIFICATION LaneSpec
CONSTANTS
  Durable = {d1}
  Safety = {}
  WsStop = {w1}
  Business = {d1}
  Dispatchers = {p1, p2}
  NoCmd = NoCmd
  MaxFaults = 2
  DropFaults = 1
INVARIANTS OutboxTruth StreamTruth
PROPERTIES EventuallySettled
CHECK_DEADLOCK FALSE

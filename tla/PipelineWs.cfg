CONSTANTS
  Durable = {}
  Safety = {}
  WsStop = {w1}
  Business = {}
  Dispatchers = {p1}
  NoCmd = NoCmd
  MaxFaults = 1
SPECIFICATION Spec
INVARIANTS PersistBeforeTransmit
CHECK_DEADLOCK FALSE

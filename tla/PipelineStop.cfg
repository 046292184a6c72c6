CONSTANTS
  Durable = {}
  Safety = {s1}
  WsStop = {}
  Business = {}
  Dispatchers = {p1, p2}
  NoCmd = NoCmd
  MaxFaults = 1
  DropFaults = 0
SPECIFICATION StopSpec
INVARIANTS PersistBeforeTransmit
PROPERTIES FirstAnswerWins ImplementsContract StopIsDispatched
CHECK_DEADLOCK FALSE

-------------------------- MODULE MCPipelineLanes --------------------------
(* CommandPipeline for TLC, one command at a time: a durable command on its *)
(* way through the outbox, or the stop that a dropped websocket sends       *)
(* through the safety stream while the durable commands expired long ago.   *)
EXTENDS CommandPipeline

CONSTANT DropFaults  \* bound: faults in the second lane

LaneInit ==
  /\ \/ /\ status = [c \in Cmds |-> "ABSENT"]
        /\ outbox = [c \in Durable |-> "NONE"]
        /\ expired = {}
        /\ api = [c \in WsStop |-> "done"]
        /\ faults = 0
     \/ /\ status = [c \in Cmds |-> IF c \in Durable THEN "EXPIRED" ELSE "ABSENT"]
        /\ outbox = [c \in Durable |-> "EXPIRED"]
        /\ expired = Durable
        /\ api = [c \in WsStop |-> "todo"]
        /\ faults = MaxFaults - DropFaults
  /\ ack = [c \in Cmds |-> NoAck]
  /\ published = {} /\ overdue = {} /\ backoff = {} /\ idle = {} /\ older = {}
  /\ stream = [c \in WsStop |-> "absent"]
  /\ obx = [d \in Dispatchers |-> IdleThread]
  /\ saf = [d \in Dispatchers |-> IdleThread]
  /\ outq = [d \in Dispatchers |-> {}]
  /\ sent = {} /\ wrk = {}
  /\ ing = NoTxn

LaneSpec == LaneInit /\ [][Next]_vars /\ Fairness

\* A stop alone; the vehicle, of which nothing is assumed, knows the command.
StopSpec == Init /\ [][Next /\ ing'.to # "unsupported"]_vars /\ Fairness
=============================================================================

------------------------------ MODULE MCVehicle ------------------------------
(* The two halves of the vehicle bridge that share no variable, side by     *)
(* side for TLC: the command processor, and the manager of the ROS child.   *)
EXTENDS BridgeProcessor, RosChild, FiniteSets

VARIABLE focus  \* which of the two moves, and the part that is explored

AllInit ==
  /\ Init /\ RcInit
  /\ focus \in {"tasks", "once", "child"}
  /\ focus # "child" => ~ rcMaster

\* tasks: the races of two task commands, in no time; once: one command of
\* any kind, redelivered over time and restarts.
ProcessorStep ==
  /\ focus \in {"tasks", "once"} /\ Next
  /\ focus = "tasks" => issued' \subseteq Tasks /\ now' = 0 /\ boot' = 1
  /\ focus = "once" => Cardinality(issued') <= 1
  /\ UNCHANGED <<rcVars, focus>>

\* The battery is handled as the location is; one of them is enough.
ChildStep ==
  /\ focus = "child" /\ RcNext
  /\ \A g \in Gens : rcPipe'[g] # <<"battery">>
  /\ UNCHANGED <<vars, focus>>

\* The manager, the readers and the uplink loops run; a child that starts well
\* gets ready; the clock goes on.
ChildFairness ==
  /\ WF_rcVars(focus = "child" /\ RcManager)
  /\ WF_rcVars(focus = "child" /\ RcLate)
  /\ WF_rcVars(focus = "child" /\ RcBackoffOver)
  /\ \A g \in Gens : /\ WF_rcVars(focus = "child" /\ RcReading(g))
                     /\ WF_rcVars(focus = "child" /\ RcGreet(g))
  /\ \A c \in Expiring : /\ WF_rcVars(focus = "child" /\ RcExpire(c))
                         /\ WF_rcVars(focus = "child" /\ RcAges(c))

ProcessorFairness ==
  /\ WF_vars(focus # "child" /\ MqttThread)
  /\ WF_vars(focus # "child" /\ ReaderThread)
  /\ \A c \in Cmds : WF_vars(focus # "child" /\ TimerThread(c))

AllFairSpec ==
  /\ AllInit /\ [][ProcessorStep \/ ChildStep]_<<vars, rcVars, focus>>
  /\ ChildFairness /\ ProcessorFairness

=============================================================================

------------------------------ MODULE RosChild ------------------------------
(* The ROS child process of the vehicle bridge: the manager thread and the  *)
(* reader threads of RosChildManager (firebot_bridge/ros/lifecycle.py), the *)
(* child itself (ros_adapter.py), and the telemetry cache that the child's  *)
(* events fill and the uplink loops empty (state.py, main.py).              *)
(*                                                                         *)
(* A reader checks that its generation is current for every event, and then *)
(* handles the event without a lock; a reader of a terminated child goes on *)
(* until the end of its pipe. Time is abstracted: a deadline passes when    *)
(* its action is taken.                                                     *)
EXTENDS Integers, Sequences

CONSTANTS
  RcMaxGens,   \* bound: children spawned
  RcMaxFaults  \* bound: lost masters, children that crash, hang or come up in part

ASSUME RcAssumption == RcMaxGens \in Nat \ {0} /\ RcMaxFaults \in Nat

VARIABLES
  rcMaster,  \* the ROS master answers the probe
  rcProc,    \* _proc: the generation of the current child, 0: none
  rcGen,     \* _generation
  rcChild,   \* the processes
  rcPipe,    \* their standard output, one line at a time
  rcReader,  \* their reader threads
  rcMgr,     \* the manager thread
  rcReady,   \* node_ready, and adapter_ready (publisher and feedback)
  rcTel,     \* the telemetry cache by channel
  rcClock,   \* late: READY is overdue; hold: _next_spawn_allowed is ahead
  rcFaults

rcVars == <<rcMaster, rcProc, rcGen, rcChild, rcPipe, rcReader, rcMgr, rcReady,
            rcTel, rcClock, rcFaults>>

Gens == 1 .. RcMaxGens
Expiring == {"location", "battery"}
Channels == Expiring \cup {"status"}
\* half: the node is up, a publisher or a subscriber is missing.
Greetings == {"ready", "half", "failed"}
RcEvents == Greetings \cup Channels

RcTypeOK ==
  /\ rcMaster \in BOOLEAN
  /\ rcProc \in 0 .. RcMaxGens /\ rcGen \in 0 .. RcMaxGens
  /\ rcChild \in [Gens -> {"none", "starting", "up", "hung", "dead"}]
  /\ rcPipe \in [Gens -> {<<>>} \cup {<<e>> : e \in RcEvents}]
  /\ rcReader \in [Gens -> {"none", "wait", "exit", "clear", "done"} \cup RcEvents]
  /\ rcMgr \in [at : {"idle", "spawning", "reaping"}, gen : 0 .. RcMaxGens]
  /\ rcReady \in [node : BOOLEAN, adapter : BOOLEAN]
  /\ rcTel \in [Channels -> {"none", "fresh", "stale"}]
  /\ rcClock \in [late : BOOLEAN, hold : BOOLEAN]
  /\ rcFaults \in 0 .. RcMaxFaults

Idling == [at |-> "idle", gen |-> 0]
NotReady == [node |-> FALSE, adapter |-> FALSE]
NoTelemetry == [c \in Channels |-> "none"]

RcInit ==
  /\ rcMaster \in BOOLEAN
  /\ rcProc = 0 /\ rcGen = 0
  /\ rcChild = [g \in Gens |-> "none"] /\ rcPipe = [g \in Gens |-> <<>>]
  /\ rcReader = [g \in Gens |-> "none"] /\ rcMgr = Idling
  /\ rcReady = NotReady /\ rcTel = NoTelemetry
  /\ rcClock = [late |-> FALSE, hold |-> FALSE] /\ rcFaults = 0

RcFault == rcFaults < RcMaxFaults /\ rcFaults' = rcFaults + 1

-----------------------------------------------------------------------------
(* The ROS master and the children                                         *)

RcMasterLost ==
  /\ rcMaster /\ RcFault /\ rcMaster' = FALSE
  /\ UNCHANGED <<rcProc, rcGen, rcChild, rcPipe, rcReader, rcMgr, rcReady, rcTel,
                 rcClock>>

RcMasterBack ==
  /\ ~ rcMaster /\ rcMaster' = TRUE
  /\ UNCHANGED <<rcProc, rcGen, rcChild, rcPipe, rcReader, rcMgr, rcReady, rcTel,
                 rcClock, rcFaults>>

Emits(g, e) == rcPipe[g] = <<>> /\ rcPipe' = [rcPipe EXCEPT ![g] = <<e>>]

RcGreet(g) ==
  /\ rcChild[g] = "starting"
  /\ Emits(g, "ready")
  /\ rcChild' = [rcChild EXCEPT ![g] = "up"]
  /\ UNCHANGED <<rcMaster, rcProc, rcGen, rcReader, rcMgr, rcReady, rcTel, rcClock,
                 rcFaults>>

\* init_node fails and the child exits, or a component is missing.
RcGreetBadly(g, e) ==
  /\ rcChild[g] = "starting" /\ RcFault
  /\ Emits(g, e)
  /\ rcChild' = [rcChild EXCEPT ![g] = IF e = "failed" THEN "dead" ELSE "up"]
  /\ UNCHANGED <<rcMaster, rcProc, rcGen, rcReader, rcMgr, rcReady, rcTel, rcClock>>

RcBreaks(g, how) ==
  /\ rcChild[g] \in {"starting", "up"} /\ RcFault
  /\ how = "hung" => rcChild[g] = "starting"
  /\ rcChild' = [rcChild EXCEPT ![g] = how]
  /\ UNCHANGED <<rcMaster, rcProc, rcGen, rcPipe, rcReader, rcMgr, rcReady, rcTel,
                 rcClock>>

RcTelemetry(g, c) ==
  /\ rcChild[g] = "up"
  /\ Emits(g, c)
  /\ UNCHANGED <<rcMaster, rcProc, rcGen, rcChild, rcReader, rcMgr, rcReady, rcTel,
                 rcClock, rcFaults>>

-----------------------------------------------------------------------------
(* _run: one branch per round                                              *)

\* _terminate_child: the reference goes first, ...
RcTakeDown(hold) ==
  /\ rcMgr' = [at |-> "reaping", gen |-> rcProc]
  /\ rcProc' = 0
  /\ rcClock' = [rcClock EXCEPT !.hold = @ \/ hold]
  /\ UNCHANGED <<rcMaster, rcGen, rcChild, rcPipe, rcReader, rcReady, rcTel, rcFaults>>

RcLostMaster == rcMgr = Idling /\ ~ rcMaster /\ rcProc # 0 /\ RcTakeDown(FALSE)

\* Variant: a node that is up is not restarted.
NodeOverdue == rcClock.late /\ ~ rcReady.node

\* adapter_ready counts, not node_ready.
ReadyOverdue == rcClock.late /\ ~ rcReady.adapter

RcReadyTimeout ==
  rcMgr = Idling /\ rcMaster /\ rcProc # 0 /\ ReadyOverdue /\ RcTakeDown(TRUE)

\* ... then the process is reaped, readiness and telemetry are cleared.
RcReaped ==
  /\ rcMgr.at = "reaping"
  /\ rcChild' = [rcChild EXCEPT ![rcMgr.gen] = "dead"]
  /\ rcReady' = NotReady
  /\ rcTel' = NoTelemetry
  /\ rcMgr' = Idling
  /\ UNCHANGED <<rcMaster, rcProc, rcGen, rcPipe, rcReader, rcClock, rcFaults>>

RcSpawn ==
  /\ rcMgr = Idling /\ rcMaster /\ rcProc = 0 /\ ~ rcClock.hold
  /\ rcGen < RcMaxGens
  /\ rcGen' = rcGen + 1
  /\ rcProc' = rcGen + 1
  /\ rcChild' = [rcChild EXCEPT ![rcGen + 1] = "starting"]
  /\ rcMgr' = [at |-> "spawning", gen |-> 0]
  /\ UNCHANGED <<rcMaster, rcPipe, rcReader, rcReady, rcTel, rcClock, rcFaults>>

RcSpawned ==
  /\ rcMgr.at = "spawning"
  /\ rcReady' = NotReady
  /\ rcClock' = [late |-> FALSE, hold |-> FALSE]
  /\ rcReader' = [rcReader EXCEPT ![rcGen] = "wait"]
  /\ rcMgr' = Idling
  /\ UNCHANGED <<rcMaster, rcProc, rcGen, rcChild, rcPipe, rcTel, rcFaults>>

\* _READY_TIMEOUT_S after the spawn. A child that starts well says READY, and
\* its own reader handles it, before that.
RcLate ==
  /\ ~ rcClock.late /\ rcProc # 0 /\ rcMgr = Idling
  /\ rcChild[rcProc] # "starting"
  /\ rcPipe[rcProc] # <<"ready">> /\ rcReader[rcProc] # "ready"
  /\ rcClock' = [rcClock EXCEPT !.late = TRUE]
  /\ UNCHANGED <<rcMaster, rcProc, rcGen, rcChild, rcPipe, rcReader, rcMgr, rcReady,
                 rcTel, rcFaults>>

\* The back-off of _next_spawn_allowed is over.
RcBackoffOver ==
  /\ rcClock.hold
  /\ rcClock' = [rcClock EXCEPT !.hold = FALSE]
  /\ UNCHANGED <<rcMaster, rcProc, rcGen, rcChild, rcPipe, rcReader, rcMgr, rcReady,
                 rcTel, rcFaults>>

-----------------------------------------------------------------------------
(* _reader_loop, _handle_event, _on_child_exit                             *)

RcRead(g) ==
  /\ rcReader[g] = "wait" /\ rcPipe[g] # <<>>
  /\ rcPipe' = [rcPipe EXCEPT ![g] = <<>>]
  /\ rcReader' = IF rcProc = g THEN [rcReader EXCEPT ![g] = Head(rcPipe[g])] ELSE rcReader
  /\ UNCHANGED <<rcMaster, rcProc, rcGen, rcChild, rcMgr, rcReady, rcTel, rcClock,
                 rcFaults>>

RcHandle(g) ==
  LET e == rcReader[g] IN
  /\ e \in RcEvents
  /\ rcReady' = IF e \in Greetings
                  THEN [node |-> e # "failed", adapter |-> e = "ready"] ELSE rcReady
  /\ rcTel' = IF e \in Channels THEN [rcTel EXCEPT ![e] = "fresh"] ELSE rcTel
  /\ rcReader' = [rcReader EXCEPT ![g] = "wait"]
  /\ UNCHANGED <<rcMaster, rcProc, rcGen, rcChild, rcPipe, rcMgr, rcClock, rcFaults>>

RcEof(g) ==
  /\ rcReader[g] = "wait" /\ rcPipe[g] = <<>> /\ rcChild[g] = "dead"
  /\ rcReader' = [rcReader EXCEPT ![g] = IF rcProc = g THEN "exit" ELSE "done"]
  /\ UNCHANGED <<rcMaster, rcProc, rcGen, rcChild, rcPipe, rcMgr, rcReady, rcTel,
                 rcClock, rcFaults>>

RcForget(g) ==
  /\ rcReader[g] = "exit"
  /\ rcProc' = IF rcProc = g THEN 0 ELSE rcProc
  /\ rcReader' = [rcReader EXCEPT ![g] = "clear"]
  /\ UNCHANGED <<rcMaster, rcGen, rcChild, rcPipe, rcMgr, rcReady, rcTel, rcClock,
                 rcFaults>>

\* By now there may be another child: its readiness is cleared all the same.
RcClear(g) ==
  /\ rcReader[g] = "clear"
  /\ rcReady' = NotReady /\ rcTel' = NoTelemetry
  /\ rcClock' = [rcClock EXCEPT !.hold = TRUE]
  /\ rcReader' = [rcReader EXCEPT ![g] = "done"]
  /\ UNCHANGED <<rcMaster, rcProc, rcGen, rcChild, rcPipe, rcMgr, rcFaults>>

-----------------------------------------------------------------------------
(* telemetry_loop and location_loop                                        *)

RcAges(c) ==
  /\ rcTel[c] = "fresh"
  /\ rcTel' = [rcTel EXCEPT ![c] = "stale"]
  /\ UNCHANGED <<rcMaster, rcProc, rcGen, rcChild, rcPipe, rcReader, rcMgr, rcReady,
                 rcClock, rcFaults>>


\* expire_stale_location, expire_stale_telemetry.
MayExpire(c) == rcTel[c] = "stale"

RcExpire(c) ==
  /\ MayExpire(c)
  /\ rcTel' = [rcTel EXCEPT ![c] = "none"]
  /\ UNCHANGED <<rcMaster, rcProc, rcGen, rcChild, rcPipe, rcReader, rcMgr, rcReady,
                 rcClock, rcFaults>>

-----------------------------------------------------------------------------

RcManager == RcLostMaster \/ RcReadyTimeout \/ RcReaped \/ RcSpawn \/ RcSpawned
RcReading(g) == RcRead(g) \/ RcHandle(g) \/ RcEof(g) \/ RcForget(g) \/ RcClear(g)

RcNext ==
  \/ RcMasterLost \/ RcMasterBack
  \/ \E g \in Gens : \/ RcGreet(g)
                     \/ \E e \in {"half", "failed"} : RcGreetBadly(g, e)
                     \/ \E how \in {"hung", "dead"} : RcBreaks(g, how)
                     \/ \E c \in Channels : RcTelemetry(g, c)
                     \/ RcReading(g)
  \/ RcManager \/ RcLate \/ RcBackoffOver
  \/ \E c \in Channels : RcAges(c)
  \/ \E c \in Expiring : RcExpire(c)

RcSpec == RcInit /\ [][RcNext]_rcVars

-----------------------------------------------------------------------------
(* Properties                                                              *)

\* While the ROS master stays up, the bridge does not stay without a ready
\* adapter, whatever crashed, hung or came up in part before, and although a
\* late reader may clear the readiness of the next child.
RcRecovers == <>[]rcMaster => []<>(rcProc # 0 /\ rcReady.adapter)

=============================================================================

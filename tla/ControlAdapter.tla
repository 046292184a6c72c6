--------------------------- MODULE ControlAdapter ---------------------------
(* The control adapter of the vehicle between the bridge and the navigation *)
(* stack. One callback thread handles the commands one after the other, a   *)
(* second one the status messages of move_base; both are modelled, with the *)
(* two nodes behind them: pose_navi_server, which turns a published pose    *)
(* into a goal after a while, and move_base, which works on one goal.       *)
EXTENDS Naturals, Sequences

CONSTANTS
  CaPatrols,  \* PATROL_START commands
  CaStops     \* STOP_MOTION commands

ASSUME CaAssumption == CaPatrols \cap CaStops = {} /\ "none" \notin CaPatrols \cup CaStops

VARIABLES
  caTopic,  \* /firebot_bridge/command, not yet handled
  caSent,   \* commands the bridge has published
  caJob,    \* _on_command: the command it handles, how far it is, and (for the
            \* properties) whether nothing else was under way when it acted
  caFresh,  \* _mb_active_marker is later than "before"
  caPose,   \* pose_navi_server: the poses it has not worked on yet
  caGoal,   \* move_base: "none", "active" or "over", per command
  caWire,   \* a status message on its way: the goal it shows as active
  caCancel, \* cancel_all_goals on its way
  caFeed    \* the feedback, per command

caVars == <<caTopic, caSent, caJob, caFresh, caPose, caGoal, caWire, caCancel, caFeed>>

CaCmds == CaPatrols \cup CaStops
CaNone == "none"
CaIdle == [cmd |-> CaNone, step |-> "idle", quiet |-> FALSE]

CaTypeOK ==
  /\ caTopic \in Seq(CaCmds) /\ caSent \subseteq CaCmds
  /\ caJob \in [cmd : CaCmds \cup {CaNone},
                step : {"idle", "ready", "published", "waiting", "cancel", "burst"},
                quiet : BOOLEAN]
  /\ caFresh \in BOOLEAN /\ caCancel \in BOOLEAN
  /\ caPose \in Seq(CaPatrols)
  /\ caGoal \in [CaPatrols -> {"none", "active", "over"}]
  /\ caWire \in CaPatrols \cup {CaNone}
  /\ caFeed \in [CaCmds -> Seq({"REJECTED", "ACCEPTED", "EXECUTING", "FAILED"})]

CaInit ==
  /\ caTopic = <<>> /\ caSent = {} /\ caJob = CaIdle /\ caFresh = FALSE
  /\ caPose = <<>> /\ caGoal = [p \in CaPatrols |-> "none"]
  /\ caWire = CaNone /\ caCancel = FALSE /\ caFeed = [c \in CaCmds |-> <<>>]

ActiveGoals == {p \in CaPatrols : caGoal[p] = "active"}

-----------------------------------------------------------------------------
(* The commands                                                             *)

\* The bridge publishes a command once (BridgeProcessor).
CaSend(c) ==
  /\ c \notin caSent
  /\ caSent' = caSent \cup {c} /\ caTopic' = Append(caTopic, c)
  /\ UNCHANGED <<caJob, caFresh, caPose, caGoal, caWire, caCancel, caFeed>>

\* _feedback, and the callback goes on or returns.
Answer(state, step) ==
  /\ caFeed' = [caFeed EXCEPT ![caJob.cmd] = Append(@, state)]
  /\ caJob' = IF step = "idle" THEN CaIdle ELSE [caJob EXCEPT !.step = step]

\* The callback takes the next command.
CaTake ==
  /\ caJob = CaIdle /\ caTopic # <<>>
  /\ caTopic' = Tail(caTopic)
  /\ caJob' = [CaIdle EXCEPT !.cmd = Head(caTopic),
                             !.step = IF Head(caTopic) \in CaPatrols THEN "ready" ELSE "cancel"]
  /\ UNCHANGED <<caSent, caFresh, caPose, caGoal, caWire, caCancel, caFeed>>

\* The command has expired, navigation is not ready, the trajectory is empty.
CaRejectPatrol ==
  /\ caJob.step = "ready"
  /\ Answer("REJECTED", "idle")
  /\ UNCHANGED <<caTopic, caSent, caFresh, caPose, caGoal, caWire, caCancel>>

\* It has expired, nobody listens to /cmd_vel, or an exception was raised.
CaRejectStop ==
  /\ caJob.step \in {"cancel", "burst"}
  /\ Answer("REJECTED", "idle")
  /\ UNCHANGED <<caTopic, caSent, caFresh, caPose, caGoal, caWire, caCancel>>

\* _start_navigation.
CaPublishPose ==
  /\ caJob.step = "ready"
  /\ caPose' = Append(caPose, caJob.cmd)
  /\ caJob' = [caJob EXCEPT !.step = "published",
                             !.quiet = ActiveGoals = {} /\ caPose = <<>> /\ caWire = CaNone]
  /\ UNCHANGED <<caTopic, caSent, caFresh, caGoal, caWire, caCancel, caFeed>>

\* Variant: any active status that was ever seen will do.
BeforeForgotten == caFresh

\* before = self._mb_active_marker: only later ones count.
Before == FALSE

CaAccept ==
  /\ caJob.step = "published"
  /\ Answer("ACCEPTED", "waiting")
  /\ caFresh' = Before
  /\ UNCHANGED <<caTopic, caSent, caPose, caGoal, caWire, caCancel>>

\* _wait_move_base_active returns True, or the two seconds are over. Nothing
\* is cancelled then.
CaConfirm ==
  /\ caJob.step = "waiting" /\ caFresh
  /\ Answer("EXECUTING", "idle")
  /\ UNCHANGED <<caTopic, caSent, caFresh, caPose, caGoal, caWire, caCancel>>

CaGiveUp ==
  /\ caJob.step = "waiting"
  /\ Answer("FAILED", "idle")
  /\ UNCHANGED <<caTopic, caSent, caFresh, caPose, caGoal, caWire, caCancel>>

\* Variant: cancel_all_goals has raised, and the burst is sent all the same.
CaCancelMayFail ==
  /\ caJob.step = "cancel"
  /\ caCancel' \in BOOLEAN
  /\ caJob' = [caJob EXCEPT !.step = "burst", !.quiet = caPose = <<>>]
  /\ UNCHANGED <<caTopic, caSent, caFresh, caPose, caGoal, caWire, caFeed>>

\* _handle_stop_motion: cancel_all_goals, then the zero velocities.
CaCancelGoals ==
  /\ caJob.step = "cancel"
  /\ caCancel' = TRUE
  /\ caJob' = [caJob EXCEPT !.step = "burst", !.quiet = caPose = <<>>]
  /\ UNCHANGED <<caTopic, caSent, caFresh, caPose, caGoal, caWire, caFeed>>

CaStopped ==
  /\ caJob.step = "burst"
  /\ Answer("ACCEPTED", "idle")
  /\ UNCHANGED <<caTopic, caSent, caFresh, caPose, caGoal, caWire, caCancel>>

\* _on_mb_status: the time of arrival is noted, not that of the message.
CaStatus ==
  /\ caWire # CaNone
  /\ caWire' = CaNone /\ caFresh' = TRUE
  /\ UNCHANGED <<caTopic, caSent, caJob, caPose, caGoal, caCancel, caFeed>>

-----------------------------------------------------------------------------
(* The navigation stack                                                     *)

\* pose_navi_server sends the goal; move_base gives up the one it has.
CaNewGoal ==
  /\ caPose # <<>>
  /\ caPose' = Tail(caPose)
  /\ caGoal' = [p \in CaPatrols |-> IF p = Head(caPose) THEN "active"
                                    ELSE IF caGoal[p] = "active" THEN "over" ELSE caGoal[p]]
  /\ UNCHANGED <<caTopic, caSent, caJob, caFresh, caWire, caCancel, caFeed>>

\* It arrives, or fails.
CaGoalOver(p) ==
  /\ p \in ActiveGoals
  /\ caGoal' = [caGoal EXCEPT ![p] = "over"]
  /\ UNCHANGED <<caTopic, caSent, caJob, caFresh, caPose, caWire, caCancel, caFeed>>

CaGoalsCancelled ==
  /\ caCancel
  /\ caCancel' = FALSE
  /\ caGoal' = [p \in CaPatrols |-> IF caGoal[p] = "active" THEN "over" ELSE caGoal[p]]
  /\ UNCHANGED <<caTopic, caSent, caJob, caFresh, caPose, caWire, caFeed>>

\* /move_base/status, several times a second.
CaShow(p) ==
  /\ caWire = CaNone /\ p \in ActiveGoals
  /\ caWire' = p
  /\ UNCHANGED <<caTopic, caSent, caJob, caFresh, caPose, caGoal, caCancel, caFeed>>

CaNext ==
  \/ \E c \in CaCmds : CaSend(c)
  \/ CaTake \/ CaRejectPatrol \/ CaRejectStop \/ CaPublishPose \/ CaAccept \/ CaConfirm \/ CaGiveUp
  \/ CaCancelGoals \/ CaStopped \/ CaStatus
  \/ CaNewGoal \/ CaGoalsCancelled
  \/ \E p \in CaPatrols : CaGoalOver(p) \/ CaShow(p)

CaSpec == CaInit /\ [][CaNext]_caVars

-----------------------------------------------------------------------------
(* Properties                                                               *)

\* "EXECUTING only when the start of the navigation is confirmed, never
\* because a pose was published": what the adapter is about to confirm is the
\* goal of its own patrol, if no other goal, pose or status message was around
\* when it published the pose. (A patrol that was told FAILED leaves its pose
\* and its goal behind, and would confirm the next one.)
CaConfirmed ==
  caJob.step = "waiting" /\ caJob.quiet /\ caFresh => caGoal[caJob.cmd] # "none"

\* A stop is accepted only when move_base has been told to give up: once the
\* cancellation has arrived no goal is active, unless pose_navi_server still
\* had a pose when it was sent, which becomes a goal after it.
CaStopHolds ==
  [][caJob.cmd \in CaStops /\ caJob.quiet /\ ~ caCancel
       /\ caFeed'[caJob.cmd] = Append(caFeed[caJob.cmd], "ACCEPTED") =>
     ActiveGoals = {}]_caVars

-----------------------------------------------------------------------------
(* The inductive strengthening: the callback works on a command of its own *)
(* kind, and what a quiet start means for the poses, goals and messages     *)
(* that are under way afterwards.                                           *)

CaKindInv ==
  /\ caJob.step = "idle" => caJob.cmd = CaNone
  /\ caJob.step \in {"ready", "published", "waiting"} => caJob.cmd \in CaPatrols
  /\ caJob.step \in {"cancel", "burst"} => caJob.cmd \in CaStops

CaPatrolInv ==
  caJob.step \in {"published", "waiting"} /\ caJob.quiet =>
    /\ \A i \in DOMAIN caPose : caPose[i] = caJob.cmd
    /\ ActiveGoals \subseteq {caJob.cmd}
    /\ caWire # CaNone => caWire = caJob.cmd /\ caGoal[caJob.cmd] # "none"

CaStopInv ==
  caJob.step = "burst" /\ caJob.quiet =>
    caPose = <<>> /\ (~ caCancel => ActiveGoals = {})

CaInv == CaTypeOK /\ CaKindInv /\ CaPatrolInv /\ CaStopInv /\ CaConfirmed
=============================================================================

----------------------- MODULE NavigationVerification -----------------------
(* One NAVIGATE_TO_PRESET task from the moment the vehicle works on it: the *)
(* ingress takes a reported completion only as a request to verify the      *)
(* final pose (services/mqtt-ingress/main.py, handle_task_status), the      *)
(* worker verifies it against the telemetry key (services/task-worker/      *)
(* main.py, reconcile_navigation_verification), and the API may cancel it   *)
(* meanwhile (navigate_to_preset, stop_current_operation, cancel_task).     *)
(*                                                                         *)
(* Every transaction reads first and commits later; a column is written     *)
(* only if its value changed, and parameters_json is one column.            *)
(*                                                                         *)
(* The worker sleeps 1 s between cycles and pose_freshness_ms is 1000: what *)
(* arrives while a cycle runs is fresh for it and for the next one, unless  *)
(* it is renewed.                                                          *)
EXTENDS Integers, Sequences, SequencesExt, FiniteSets

CONSTANTS
  NvRequired,   \* required_verification_frames
  NvMaxFrames,  \* bound: location messages
  NvMaxReports, \* bound: completions the vehicle reports
  NvMaxFaults   \* bound: worker cycles that are rolled back

ASSUME NvAssumption == /\ NvRequired \in Nat \ {0}
                       /\ NvMaxFrames \in Nat \ {0}
                       /\ NvMaxReports \in Nat \ {0}
                       /\ NvMaxFaults \in Nat

VARIABLES
  nvTask,   \* status, phase, and of parameters_json: reported, frames
  nvCmd,    \* lifecycle_status of the patrol and of the cancel command
  nvPose,   \* robot:<id>:latest: which frame, whether at the target, fresh
  nvClock,  \* completions reported, and how many of them are 30 s old
  nvWrk,    \* what the open worker cycle will write
  nvIng,    \* the task_status the ingress is handling
  nvApi,    \* the cancel request has read the task
  nvRun,    \* frames of the good cycles committed in a row
  nvFaults

nvVars == <<nvTask, nvCmd, nvPose, nvClock, nvWrk, nvIng, nvApi, nvRun, nvFaults>>

NvActive == {"QUEUED", "ACCEPTED", "EXECUTING"}
NvEnded == {"SUCCEEDED", "FAILED", "CANCELLED"}
NvStatus == NvActive \cup NvEnded
NvPhases == {"REPORTED", "VERIFYING", "CANCEL_QUEUED", "VERIFIED", "UNVERIFIED"}
NvFrame == 0 .. NvMaxFrames
NvCounts == 0 .. NvRequired
NvIdle == [pc |-> "idle"]

NvTypeOK ==
  /\ nvTask \in [status : NvStatus, phase : NvPhases,
                 reported : 0 .. NvMaxReports, frames : NvCounts]
  /\ nvCmd \in [patrol : NvStatus,
                cancel : {"NONE", "QUEUED", "ACCEPTED", "ACK_REJECTED", "SUCCEEDED"}]
  /\ nvPose \in [frame : NvFrame, good : BOOLEAN, fresh : 0 .. 2]
  /\ nvClock \in [reports : 0 .. NvMaxReports, old : 0 .. NvMaxReports]
  /\ nvWrk \in {NvIdle} \cup [pc : {"open"}, reported : 0 .. NvMaxReports,
                              frames : NvCounts, writes : BOOLEAN, frame : NvFrame,
                              verdict : {"none", "SUCCEEDED", "FAILED"},
                              over : {"patrol", "cancel"}]
  /\ nvIng \in {NvIdle} \cup [pc : {"open"}, seen : NvStatus, seenPhase : NvPhases,
                              to : NvStatus, phase : NvPhases,
                              reported : 0 .. NvMaxReports, frames : NvCounts,
                              writes : BOOLEAN]
  /\ nvApi \in BOOLEAN
  /\ Len(nvRun) <= NvRequired /\ \A i \in DOMAIN nvRun : nvRun[i] \in NvFrame
  /\ nvFaults \in 0 .. NvMaxFaults

NvInit ==
  /\ nvTask = [status |-> "QUEUED", phase |-> "REPORTED", reported |-> 0, frames |-> 0]
  /\ nvCmd = [patrol |-> "QUEUED", cancel |-> "NONE"]
  /\ nvPose = [frame |-> 0, good |-> FALSE, fresh |-> 0]
  /\ nvClock = [reports |-> 0, old |-> 0]
  /\ nvWrk = NvIdle /\ nvIng = NvIdle /\ nvApi = FALSE
  /\ nvRun = <<>> /\ nvFaults = 0

-----------------------------------------------------------------------------
(* Telemetry                                                               *)

\* good: localized, and within both tolerances of the preset.
NvLocation(good) ==
  /\ nvPose.frame < NvMaxFrames
  /\ nvPose' = [frame |-> nvPose.frame + 1, good |-> good, fresh |-> 2]
  /\ UNCHANGED <<nvTask, nvCmd, nvClock, nvWrk, nvIng, nvApi, nvRun, nvFaults>>

\* handle_sensor merges into the same key and renews server_received_at.
NvSensor ==
  /\ nvPose.fresh < 2
  /\ nvPose' = [nvPose EXCEPT !.fresh = 2]
  /\ UNCHANGED <<nvTask, nvCmd, nvClock, nvWrk, nvIng, nvApi, nvRun, nvFaults>>

Older == [nvPose EXCEPT !.fresh = IF @ = 0 THEN 0 ELSE @ - 1]

\* pose_freshness_ms passes.
NvPoseAges ==
  /\ nvPose.fresh > 0
  /\ nvPose' = Older
  /\ UNCHANGED <<nvTask, nvCmd, nvClock, nvWrk, nvIng, nvApi, nvRun, nvFaults>>

\* verification_timeout_seconds have passed since the next oldest report.
NvDeadline ==
  /\ nvClock.old < nvClock.reports
  /\ nvClock' = [nvClock EXCEPT !.old = @ + 1]
  /\ UNCHANGED <<nvTask, nvCmd, nvPose, nvWrk, nvIng, nvApi, nvRun, nvFaults>>

-----------------------------------------------------------------------------
(* handle_task_status for this task                                        *)

\* Variant: a completion does not restart the count.
ReportKeepsFrames(to, cursor) ==
  LET verify == to = "SUCCEEDED" IN
  /\ nvIng = NvIdle
  /\ verify => nvClock.reports < NvMaxReports
  /\ nvClock' = IF verify THEN [nvClock EXCEPT !.reports = @ + 1] ELSE nvClock
  /\ nvIng' = [pc |-> "open", seen |-> nvTask.status, seenPhase |-> nvTask.phase,
               to |-> IF verify THEN "EXECUTING" ELSE to,
               phase |-> IF verify THEN "VERIFYING" ELSE "REPORTED",
               reported |-> IF verify THEN nvClock.reports + 1 ELSE nvTask.reported,
               frames |-> nvTask.frames,
               writes |-> verify \/ cursor]
  /\ UNCHANGED <<nvTask, nvCmd, nvPose, nvWrk, nvApi, nvRun, nvFaults>>

\* cursor: the message carries checkpoint or waypoint fields, which go into
\* parameters_json as it was read.
NvReportRead(to, cursor) ==
  LET verify == to = "SUCCEEDED" IN
  /\ nvIng = NvIdle
  /\ verify => nvClock.reports < NvMaxReports
  /\ nvClock' = IF verify THEN [nvClock EXCEPT !.reports = @ + 1] ELSE nvClock
  /\ nvIng' = [pc |-> "open", seen |-> nvTask.status, seenPhase |-> nvTask.phase,
               to |-> IF verify THEN "EXECUTING" ELSE to,
               phase |-> IF verify THEN "VERIFYING" ELSE "REPORTED",
               reported |-> IF verify THEN nvClock.reports + 1 ELSE nvTask.reported,
               frames |-> IF verify THEN 0 ELSE nvTask.frames,
               writes |-> verify \/ cursor]
  /\ UNCHANGED <<nvTask, nvCmd, nvPose, nvWrk, nvApi, nvRun, nvFaults>>

Changed(seen, new, now) == IF new = seen THEN now ELSE new

\* The initiating command follows the task.
NvReportCommit ==
  LET i == nvIng IN
  /\ i # NvIdle
  /\ nvTask' = [status |-> Changed(i.seen, i.to, nvTask.status),
                phase |-> Changed(i.seenPhase, i.phase, nvTask.phase),
                reported |-> IF i.writes THEN i.reported ELSE nvTask.reported,
                frames |-> IF i.writes THEN i.frames ELSE nvTask.frames]
  /\ nvCmd' = [nvCmd EXCEPT !.patrol = i.to]
  /\ nvIng' = NvIdle
  /\ UNCHANGED <<nvPose, nvClock, nvWrk, nvApi, nvRun, nvFaults>>

-----------------------------------------------------------------------------
(* Cancelling: a second command with the same task_id                      *)

NvCancelRead ==
  /\ ~ nvApi /\ nvCmd.cancel = "NONE"
  /\ nvTask.status \in NvActive
  /\ nvApi' = TRUE
  /\ UNCHANGED <<nvTask, nvCmd, nvPose, nvClock, nvWrk, nvIng, nvRun, nvFaults>>

NvCancelCommit ==
  /\ nvApi
  /\ nvCmd' = [nvCmd EXCEPT !.cancel = "QUEUED"]
  /\ nvTask' = [nvTask EXCEPT !.phase = "CANCEL_QUEUED"]
  /\ nvApi' = FALSE
  /\ UNCHANGED <<nvPose, nvClock, nvWrk, nvIng, nvRun, nvFaults>>

\* handle_ack: the vehicle's answer to the cancel command.
NvCancelAnswered(s) ==
  /\ nvIng = NvIdle
  /\ nvCmd.cancel = "QUEUED"
  /\ nvCmd' = [nvCmd EXCEPT !.cancel = s]
  /\ UNCHANGED <<nvTask, nvPose, nvClock, nvWrk, nvIng, nvApi, nvRun, nvFaults>>

-----------------------------------------------------------------------------
(* reconcile_navigation_verification                                       *)

\* Variant: without a fresh pose the timeout is not looked at.
NvTimedOutIfFresh == nvTask.reported <= nvClock.old /\ nvPose.fresh > 0

Verifying == nvTask.status = "EXECUTING" /\ nvTask.phase = "VERIFYING"
PoseGood == nvPose.fresh > 0 /\ nvPose.good
NvTimedOut == nvTask.reported <= nvClock.old

NvWorkerRead ==
  LET n == IF PoseGood THEN nvTask.frames + 1 ELSE 0 IN
  /\ nvWrk = NvIdle
  /\ Verifying
  /\ nvWrk' = [pc |-> "open", reported |-> nvTask.reported, frames |-> n,
               writes |-> n # nvTask.frames, frame |-> nvPose.frame,
               verdict |-> IF n >= NvRequired THEN "SUCCEEDED"
                           ELSE IF NvTimedOut THEN "FAILED" ELSE "none",
               over |-> IF nvCmd.cancel = "NONE" THEN "patrol" ELSE "cancel"]
  /\ UNCHANGED <<nvTask, nvCmd, nvPose, nvClock, nvIng, nvApi, nvRun, nvFaults>>

\* A verified arrival also ends the newest command of the task.
NvWorkerCommit ==
  LET w == nvWrk IN
  /\ w # NvIdle
  /\ nvTask' = [status |-> IF w.verdict = "none" THEN nvTask.status ELSE w.verdict,
                phase |-> IF w.verdict = "none" THEN nvTask.phase
                          ELSE IF w.verdict = "FAILED" THEN "UNVERIFIED" ELSE "VERIFIED",
                reported |-> IF w.writes THEN w.reported ELSE nvTask.reported,
                frames |-> IF w.writes THEN w.frames ELSE nvTask.frames]
  /\ nvCmd' = IF w.verdict = "SUCCEEDED" THEN [nvCmd EXCEPT ![w.over] = "SUCCEEDED"]
              ELSE nvCmd
  /\ nvRun' = IF w.frames = 0 THEN <<>>
              ELSE IF Len(nvRun) = NvRequired THEN Append(Tail(nvRun), w.frame)
              ELSE Append(nvRun, w.frame)
  /\ nvWrk' = NvIdle
  /\ nvPose' = Older
  /\ UNCHANGED <<nvClock, nvIng, nvApi, nvFaults>>

\* A cycle that does not find the task verifying.
NvWorkerSkips ==
  /\ nvWrk = NvIdle /\ ~ Verifying
  /\ nvRun # <<>>
  /\ nvRun' = <<>>
  /\ nvPose' = Older
  /\ UNCHANGED <<nvTask, nvCmd, nvClock, nvWrk, nvIng, nvApi, nvFaults>>

NvCycleFails ==
  /\ nvWrk # NvIdle
  /\ nvFaults < NvMaxFaults
  /\ nvFaults' = nvFaults + 1
  /\ nvWrk' = NvIdle
  /\ nvPose' = Older
  /\ UNCHANGED <<nvTask, nvCmd, nvClock, nvIng, nvApi, nvRun>>

-----------------------------------------------------------------------------

NvNext ==
  \/ \E good \in BOOLEAN : NvLocation(good)
  \/ NvSensor \/ NvPoseAges \/ NvDeadline
  \/ \E to \in NvStatus \ {"QUEUED"}, cursor \in BOOLEAN : NvReportRead(to, cursor)
  \/ NvReportCommit
  \/ NvCancelRead \/ NvCancelCommit
  \/ \E s \in {"ACCEPTED", "ACK_REJECTED"} : NvCancelAnswered(s)
  \/ NvWorkerRead \/ NvWorkerCommit \/ NvWorkerSkips \/ NvCycleFails

NvSpec == NvInit /\ [][NvNext]_nvVars

-----------------------------------------------------------------------------
(* Properties                                                              *)


\* "A later stop_motion/cancel_task sharing task_id has its own ACK lifecycle
\* and must never be overwritten with the task terminal status."
NvCancelOwn == nvCmd.cancel # "SUCCEEDED"

\* Verification ends, with or without telemetry and whatever is cancelled or
\* reported meanwhile.
NvSettles == Verifying ~> ~ Verifying

=============================================================================

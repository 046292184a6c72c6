--------------------------- MODULE StopOperation ---------------------------
(***************************************************************************)
(* The STOP operation of an operator: the API records it together with a   *)
(* stop command and, if a task is active, a cancel command; the worker     *)
(* then decides, once per cycle, from the answers to these commands, from  *)
(* the task and from the vehicle's telemetry what became of it.            *)
(*                                                                         *)
(* Three processes touch the shared state: the API, the ingress (commands, *)
(* tasks and the Redis key robot:<id>:latest) and the worker, which reads  *)
(* the key at the start of a cycle and may write it back after its commit. *)
(* The rows of stop operations are written by the worker alone once they   *)
(* exist, so its reconciliation is one action.                             *)
(*                                                                         *)
(* Time is counted in ticks. Messages are numbered in the order in which   *)
(* the server receives them; the number stands for server_received_at,     *)
(* which the worker compares to tell observations apart.                   *)
(***************************************************************************)
EXTENDS Naturals, FiniteSets

CONSTANTS Ops,             \* stop operations of one vehicle
          Situations,      \* mission_cancel_states a request may start with
          Frames,          \* stationary frames required (5)
          AckDeadline,     \* stop_ack_deadline_at - requested (5 s)
          CancelDeadline,  \* cancel_deadline_at - requested (10 s)
          VerifyDeadline,  \* stationary_verify_deadline_at - requested (15 s)
          Freshness,       \* telemetry_freshness_ms
          Period,          \* length of a worker cycle
          Skew,            \* how far the vehicle's clock is ahead
          MaxTime,         \* bound: clock
          MaxMsgs,         \* bound: telemetry messages
          MaxBoots         \* bound: boot sessions of the vehicle

ASSUME StopAssumption ==
    /\ Frames \in Nat \ {0} /\ Period \in Nat \ {0}
    /\ AckDeadline \in Nat /\ CancelDeadline \in Nat /\ VerifyDeadline \in Nat
    /\ Situations \subseteq {"NOT_REQUIRED", "WAITING_ACK", "UNAVAILABLE"}
    /\ Freshness \in Nat /\ Skew \in Nat
    /\ MaxTime \in Nat /\ MaxMsgs \in Nat /\ MaxBoots \in Nat

VARIABLES
  now,       \* the clock
  boot,      \* robots.boot_id
  msgs,      \* telemetry messages received so far
  latest,    \* the Redis key robot:<id>:latest
  wrk,       \* cycle of the worker, with the key it will write back
  nextRun,   \* earliest start of the worker's next cycle
  state,     \* stop_operations.state
  motion,    \* stop_operations.motion_stop_state
  mission,   \* stop_operations.mission_cancel_state
  frames,    \* stop_operations.stationary_frames
  last,      \* stop_operations.last_stationary_observation_at
  asked,     \* time of the request
  snapshot,  \* stop_operations.boot_id_snapshot
  endedAt,   \* stop_operations.terminal_at
  stopAck,   \* commands.ack_status of the stop command
  stopLost,  \* stop commands shown as unconfirmed, failed or expired
  cancelAck, \* operations whose cancel command was accepted
  cancelled, \* operations whose task is CANCELLED
  proof      \* the motion frames the worker has counted for an operation

telVars == <<msgs, latest>>
opVars  == <<state, motion, mission, frames, last, endedAt, proof>>
reqVars == <<asked, snapshot>>
cmdVars == <<stopAck, stopLost, cancelAck, cancelled>>
vars == <<now, boot, telVars, wrk, nextRun, opVars, reqVars, cmdVars>>

Terminal == {"VEHICLE_STATIONARY_CONFIRMED", "PARTIAL_UNCONFIRMED",
             "UNCONFIRMED"}
States   == {"NONE", "STOP_REQUESTED", "VERIFYING_STATIONARY",
             "STATIONARY_CONFIRMED_CANCEL_PENDING"} \cup Terminal
Motions  == {"WAITING_ACK", "VERIFYING_STATIONARY", "UNCONFIRMED",
             "STATIONARY_CONFIRMED"}
Missions == {"NOT_REQUIRED", "WAITING_ACK", "UNAVAILABLE", "ACK_ACCEPTED",
             "CANCELLED_CONFIRMED", "UNCONFIRMED"}

\* The fields of the key: number and time of the last message that set
\* server_received_at; the last location, its source_timestamp, its velocity
\* (still or not) and its boot session. frame = 0: no location yet.
Latest == [tok : Nat, rcv : Nat, frame : Nat, src : Nat, still : BOOLEAN,
           boot : Nat]
Empty  == [tok |-> 0, rcv |-> 0, frame |-> 0, src |-> 0, still |-> FALSE,
           boot |-> 0]

IdleWorker == [pc |-> "idle", at |-> 0, dirty |-> FALSE, key |-> Empty]

TypeOK ==
  /\ now \in Nat /\ boot \in Nat /\ msgs \in Nat /\ nextRun \in Nat
  /\ latest \in Latest
  /\ wrk \in [pc : {"idle", "run", "flush"}, at : Nat,
             dirty : BOOLEAN, key : Latest]
  /\ state \in [Ops -> States]
  /\ motion \in [Ops -> Motions]
  /\ mission \in [Ops -> Missions]
  /\ frames \in [Ops -> 0 .. Frames]
  /\ last \in [Ops -> Nat]
  /\ asked \in [Ops -> Nat]
  /\ snapshot \in [Ops -> Nat]
  /\ endedAt \in [Ops -> Nat]
  /\ stopAck \in [Ops -> {"none", "accepted", "rejected"}]
  /\ stopLost \subseteq Ops
  /\ cancelAck \subseteq Ops
  /\ cancelled \subseteq Ops
  /\ \A o \in Ops : proof[o] \subseteq (1 .. msgs) \X (1 .. boot)

Init ==
  /\ now = 0 /\ boot = 1 /\ msgs = 0 /\ nextRun = 0
  /\ latest = Empty
  /\ wrk = IdleWorker
  /\ state = [o \in Ops |-> "NONE"]
  /\ motion = [o \in Ops |-> "WAITING_ACK"]
  /\ mission = [o \in Ops |-> "NOT_REQUIRED"]
  /\ frames = [o \in Ops |-> 0]
  /\ last = [o \in Ops |-> 0]
  /\ asked = [o \in Ops |-> 0]
  /\ snapshot = [o \in Ops |-> 0]
  /\ endedAt = [o \in Ops |-> 0]
  /\ stopAck = [o \in Ops |-> "none"]
  /\ stopLost = {} /\ cancelAck = {} /\ cancelled = {}
  /\ proof = [o \in Ops |-> {}]

-----------------------------------------------------------------------------
(* The API                                                                 *)

\* stop_current_operation: without an active task nothing has to be cancelled;
\* a cancel command that cannot be authorised does not prevent the stop. The
\* stop command of a vehicle that is not ONLINE starts as unconfirmed.
Request(o, m, deliverable) ==
  /\ state[o] = "NONE"
  /\ now + VerifyDeadline <= MaxTime
  /\ state' = [state EXCEPT ![o] = "STOP_REQUESTED"]
  /\ mission' = [mission EXCEPT ![o] = m]
  /\ asked' = [asked EXCEPT ![o] = now]
  /\ snapshot' = [snapshot EXCEPT ![o] = boot]
  /\ stopLost' = IF deliverable THEN stopLost ELSE stopLost \cup {o}
  /\ UNCHANGED <<now, boot, telVars, wrk, nextRun, motion, frames, last,
                 endedAt, proof, stopAck, cancelAck, cancelled>>

-----------------------------------------------------------------------------
(* The ingress and the dispatcher, as far as the operation sees them       *)

\* handle_location replaces the velocity and both timestamps.
Location(still) ==
  /\ msgs < MaxMsgs /\ now < MaxTime
  /\ msgs' = msgs + 1
  /\ latest' = [tok |-> msgs + 1, rcv |-> now, frame |-> msgs + 1,
                src |-> now + Skew, still |-> still, boot |-> boot]
  /\ UNCHANGED <<now, boot, wrk, nextRun, opVars, reqVars, cmdVars>>

\* handle_sensor sets server_received_at and leaves the velocity and the
\* source_timestamp of the last location in place.
Sensor ==
  /\ msgs < MaxMsgs /\ now < MaxTime
  /\ msgs' = msgs + 1
  /\ latest' = [latest EXCEPT !.tok = msgs + 1, !.rcv = now]
  /\ UNCHANGED <<now, boot, wrk, nextRun, opVars, reqVars, cmdVars>>

\* accept_boot_session: a new boot session; the key keeps the old velocity.
Reboot ==
  /\ boot < MaxBoots
  /\ boot' = boot + 1
  /\ UNCHANGED <<now, telVars, wrk, nextRun, opVars, reqVars, cmdVars>>

\* handle_ack: the first answer to the stop command is recorded.
StopAnswered(o, result) ==
  /\ state[o] # "NONE"
  /\ stopAck[o] = "none"
  /\ stopAck' = [stopAck EXCEPT ![o] = result]
  /\ stopLost' = stopLost \ {o}
  /\ UNCHANGED <<now, boot, telVars, wrk, nextRun, opVars, reqVars, cancelAck,
                 cancelled>>

\* The stop command is shown as unconfirmed or expired, which may also happen
\* after its ACK was recorded: OutboxCommit overwrites the lifecycle status.
StopUnconfirmed(o) ==
  /\ state[o] # "NONE"
  /\ o \notin stopLost
  /\ stopLost' = stopLost \cup {o}
  /\ UNCHANGED <<now, boot, telVars, wrk, nextRun, opVars, reqVars, stopAck,
                 cancelAck, cancelled>>

CancelAccepted(o) ==
  /\ mission[o] # "NOT_REQUIRED" /\ mission[o] # "UNAVAILABLE"
  /\ o \notin cancelAck
  /\ cancelAck' = cancelAck \cup {o}
  /\ UNCHANGED <<now, boot, telVars, wrk, nextRun, opVars, reqVars, stopAck,
                 stopLost, cancelled>>

\* handle_task_status: the task is CANCELLED, or reported as active again.
TaskStatus(o) ==
  /\ mission[o] # "NOT_REQUIRED"
  /\ cancelled' = IF o \in cancelled THEN cancelled \ {o}
                  ELSE cancelled \cup {o}
  /\ UNCHANGED <<now, boot, telVars, wrk, nextRun, opVars, reqVars, stopAck,
                 stopLost, cancelAck>>

-----------------------------------------------------------------------------
(* The worker                                                              *)

\* The last tick stands for the rest of time, in which the worker keeps running.
CycleTime == IF nextRun <= now THEN now ELSE nextRun

\* The start of a cycle fixes the time it works with. When the online state
\* of the vehicle changes, reconcile_robot_states reads the key and writes it
\* back after the commit.
CycleStart(changed) ==
  /\ wrk.pc = "idle"
  /\ nextRun <= now \/ now = MaxTime
  /\ wrk' = [pc |-> "run", at |-> CycleTime, dirty |-> changed, key |-> latest]
  /\ UNCHANGED <<now, boot, telVars, nextRun, opVars, reqVars, cmdVars>>

Open == {o \in Ops : state[o] \notin Terminal \cup {"NONE"}}

\* Variant: only server_received_at is looked at.
FreshByReceipt == latest.frame # 0 /\ wrk.at <= latest.rcv + Freshness

\* stationary_observation: both timestamps are recent.
Fresh == /\ latest.frame # 0
         /\ wrk.at <= latest.rcv + Freshness
         /\ wrk.at <= latest.src + Freshness

\* advance_stationary_frames: only an observation newer than the last one
\* counted is looked at.
IsNew(o) == last[o] < latest.tok

CountedFrames(o) ==
  IF ~Fresh THEN 0
  ELSE IF ~IsNew(o) THEN frames[o]
  ELSE IF latest.still THEN frames[o] + 1 ELSE 0

\* Variant: the confirmation is judged anew in every cycle.
StationaryAgain(o) == Frames <= CountedFrames(o)

\* The confirmation of a standstill is never taken back.
Stationary(o) ==
  motion[o] = "STATIONARY_CONFIRMED" \/ Frames <= CountedFrames(o)

\* Variant: a cancel command that was accepted is not timed out.
MissionPatient(o) ==
  IF mission[o] \in {"NOT_REQUIRED", "CANCELLED_CONFIRMED", "UNCONFIRMED",
                    "UNAVAILABLE"} THEN mission[o]
  ELSE IF o \in cancelled THEN "CANCELLED_CONFIRMED"
  ELSE IF o \in cancelAck THEN "ACK_ACCEPTED"
  ELSE IF asked[o] + CancelDeadline <= wrk.at THEN "UNCONFIRMED"
  ELSE mission[o]

\* The truth about the mission: confirmed by the task, not by the ACK, and
\* given up at the deadline.
Mission(o) ==
  IF mission[o] \in {"NOT_REQUIRED", "CANCELLED_CONFIRMED", "UNCONFIRMED",
                    "UNAVAILABLE"} THEN mission[o]
  ELSE IF o \in cancelled THEN "CANCELLED_CONFIRMED"
  ELSE IF asked[o] + CancelDeadline <= wrk.at THEN "UNCONFIRMED"
  ELSE IF o \in cancelAck THEN "ACK_ACCEPTED" ELSE mission[o]

StopConfirmed(o)   == stopAck[o] = "accepted"
StopUnanswered(o) ==
  \/ o \in stopLost
  \/ asked[o] + AckDeadline <= wrk.at /\ ~StopConfirmed(o)

GivenUp(o) ==
  \/ ~Fresh /\ StopUnanswered(o)
  \/ asked[o] + VerifyDeadline <= wrk.at

\* Variant: a standstill without ACK is a full success.
VerdictLenient(o) ==
  IF Stationary(o)
  THEN IF Mission(o) \in {"WAITING_ACK", "ACK_ACCEPTED"}
       THEN "STATIONARY_CONFIRMED_CANCEL_PENDING"
       ELSE IF Mission(o) \in {"NOT_REQUIRED", "CANCELLED_CONFIRMED"}
       THEN "VEHICLE_STATIONARY_CONFIRMED" ELSE "PARTIAL_UNCONFIRMED"
  ELSE IF GivenUp(o) THEN "UNCONFIRMED" ELSE "VERIFYING_STATIONARY"

\* reconcile_stop_operations: the state of an open operation
Verdict(o) ==
  IF Stationary(o)
  THEN IF Mission(o) \in {"WAITING_ACK", "ACK_ACCEPTED"}
       THEN "STATIONARY_CONFIRMED_CANCEL_PENDING"
       ELSE IF /\ Mission(o) \in {"NOT_REQUIRED", "CANCELLED_CONFIRMED"}
               /\ StopConfirmed(o)
       THEN "VEHICLE_STATIONARY_CONFIRMED" ELSE "PARTIAL_UNCONFIRMED"
  ELSE IF GivenUp(o) THEN "UNCONFIRMED" ELSE "VERIFYING_STATIONARY"

\* ... and its motion_stop_state
MotionOf(o) ==
  IF Stationary(o) THEN "STATIONARY_CONFIRMED"
  ELSE IF GivenUp(o) THEN "UNCONFIRMED"
  ELSE IF StopConfirmed(o) THEN "VERIFYING_STATIONARY"
  ELSE IF StopUnanswered(o) THEN "UNCONFIRMED" ELSE "WAITING_ACK"

\* The velocity is looked at until the standstill is confirmed.
Watched == {o \in Open : motion[o] # "STATIONARY_CONFIRMED"}

\* The worker sleeps after each cycle.
NextRun == now + Period

CycleEnd ==
  IF wrk.dirty
  THEN wrk' = [wrk EXCEPT !.pc = "flush"] /\ UNCHANGED nextRun
  ELSE wrk' = IdleWorker /\ nextRun' = NextRun

Reconcile ==
  /\ wrk.pc = "run"
  /\ mission' = [o \in Ops |-> IF o \in Open THEN Mission(o) ELSE mission[o]]
  /\ frames' = [o \in Ops |-> IF o \in Watched THEN CountedFrames(o)
                               ELSE frames[o]]
  /\ last' = [o \in Ops |-> IF o \in Watched /\ Fresh /\ IsNew(o)
                             THEN latest.tok ELSE last[o]]
  /\ proof' = [o \in Ops |->
                 IF o \notin Watched THEN proof[o]
                 ELSE IF CountedFrames(o) = 0 THEN {}
                 ELSE IF CountedFrames(o) = frames[o] THEN proof[o]
                 ELSE proof[o] \cup {<<latest.frame, latest.boot>>}]
  /\ state' = [o \in Ops |-> IF o \in Open THEN Verdict(o) ELSE state[o]]
  /\ motion' = [o \in Ops |-> IF o \in Open THEN MotionOf(o) ELSE motion[o]]
  /\ endedAt' = [o \in Ops |-> IF o \in Open /\ Verdict(o) \in Terminal
                                THEN wrk.at ELSE endedAt[o]]
  /\ CycleEnd
  /\ UNCHANGED <<now, boot, telVars, reqVars, cmdVars>>

\* The transaction of the cycle is rolled back; nothing is written.
CycleFails ==
  /\ wrk.pc = "run"
  /\ wrk' = IdleWorker
  /\ nextRun' = NextRun
  /\ UNCHANGED <<now, boot, telVars, opVars, reqVars, cmdVars>>

\* The key is written back, over whatever the ingress stored meanwhile.
Flush ==
  /\ wrk.pc = "flush"
  /\ latest' = wrk.key
  /\ wrk' = IdleWorker
  /\ nextRun' = NextRun
  /\ UNCHANGED <<now, boot, msgs, opVars, reqVars, cmdVars>>

Tick ==
  /\ now < MaxTime
  /\ now' = now + 1
  /\ UNCHANGED <<boot, telVars, wrk, nextRun, opVars, reqVars, cmdVars>>

Next ==
  \/ \E o \in Ops, m \in Situations, b \in BOOLEAN : Request(o, m, b)
  \/ \E b \in BOOLEAN : Location(b) \/ CycleStart(b)
  \/ Sensor \/ Reboot
  \/ \E o \in Ops : \/ \E r \in {"accepted", "rejected"} : StopAnswered(o, r)
                    \/ StopUnconfirmed(o) \/ CancelAccepted(o) \/ TaskStatus(o)
  \/ Reconcile \/ CycleFails \/ Flush \/ Tick

Spec == Init /\ [][Next]_vars

\* The clock runs, the worker loops, and not every transaction of it fails.
Fairness == /\ WF_vars(Tick)
            /\ WF_vars(\E b \in BOOLEAN : CycleStart(b)) /\ WF_vars(Flush)
            /\ WF_vars(Reconcile \/ CycleFails) /\ SF_vars(Reconcile)
FairSpec == Spec /\ Fairness

-----------------------------------------------------------------------------
(* Properties                                                              *)

\* advance_stationary_frames: a standstill is confirmed by as many different
\* motion observations as required, all of them after the last one that was
\* stale or moving, however often the worker looked at each of them and
\* although it may write an old key back.
DistinctEvidence ==
  \A o \in Ops : motion[o] = "STATIONARY_CONFIRMED" =>
                    Cardinality(proof[o]) >= Frames

\* reconcile_stop_operations: a confirmed standstill is never taken back, and
\* a concluded operation never changes again, whatever arrives late.
OutcomeStands ==
  [][\A o \in Ops :
       /\ motion[o] = "STATIONARY_CONFIRMED" => motion'[o] = motion[o]
       /\ state[o] \in Terminal =>
            /\ state'[o] = state[o] /\ mission'[o] = mission[o]
            /\ motion'[o] = motion[o] /\ endedAt'[o] = endedAt[o]]_vars

\* Full success is only claimed for a stop command the vehicle accepted, a
\* standstill that was observed and a mission that does not go on.
FullSuccess ==
  \A o \in Ops : state[o] = "VEHICLE_STATIONARY_CONFIRMED" =>
    /\ stopAck[o] = "accepted"
    /\ motion[o] = "STATIONARY_CONFIRMED"
    /\ mission[o] \in {"NOT_REQUIRED", "CANCELLED_CONFIRMED"}

\* Variant: any confirmed operation counts.
FieldVerifiedOnce(o) ==
  motion[o] = "STATIONARY_CONFIRMED" /\ Frames <= frames[o]

\* build_robot_assignment: the newest confirmed operation counts as field
\* verification if it was requested in the current boot session.
FieldVerified(o) ==
  /\ motion[o] = "STATIONARY_CONFIRMED" /\ Frames <= frames[o]
  /\ snapshot[o] = boot
  /\ \A p \in Ops : motion[p] = "STATIONARY_CONFIRMED" => endedAt[p] <= endedAt[o]

\* models.py, boot_id_snapshot: the frames behind a field verification are of
\* the current boot session, but for one that was on record at the request.
EvidenceOfThisBoot ==
  \A o \in Ops : FieldVerified(o) =>
    Cardinality({e \in proof[o] : e[2] = boot}) >= Frames - 1

\* Every operation is concluded: neither a lost ACK nor lost telemetry, a lost
\* cancel answer or failing cycles leave it open.
EventuallyConcluded ==
  \A o \in Ops : (state[o] = "STOP_REQUESTED") ~> (state[o] \in Terminal)

-----------------------------------------------------------------------------
(* The inductive strengthening                                             *)

\* The key and the copy that the worker will write back.
Keys == {latest, wrk.key}

\* What a key says of its last location has happened.
KeysKnown ==
  \A k \in Keys : k.frame # 0 =>
    k.frame \in 1 .. msgs /\ k.boot \in 1 .. boot /\ k.src <= now + Skew

\* The count reaches the frames required exactly when the standstill is
\* confirmed, in an operation that was requested.
CountStops ==
  \A o \in Ops :
    /\ motion[o] = "STATIONARY_CONFIRMED" <=> frames[o] = Frames
    /\ state[o] = "NONE" => proof[o] = {} /\ snapshot[o] = 0
    /\ snapshot[o] <= boot

StopInv == TypeOK /\ boot # 0 /\ KeysKnown /\ CountStops /\ FullSuccess

\* time.sleep(1) after each cycle, telemetry_freshness_ms = 1000: what a cycle
\* has seen is stale for the next one, on a vehicle whose clock is right.
Paced == Freshness + Skew < Period

\* The least time the next look at the key can work with.
NextLook == IF wrk.pc = "run" THEN wrk.at
            ELSE IF wrk.pc = "idle" THEN nextRun ELSE now + Period

Gone(k) == k.frame # 0 => k.src + Freshness < NextLook

\* Every frame that is counted is one more, and cannot be counted again.
CountedOnce ==
  \A o \in Ops :
    /\ IsFiniteSet(proof[o]) /\ frames[o] <= Cardinality(proof[o])
    /\ \A k \in Keys, e \in proof[o] : k.frame = e[1] => Gone(k)

\* Once a frame is counted for a request of this boot session, no other of an
\* older one can be.
OldCountedOnce ==
  \A o \in Ops : snapshot[o] = boot =>
    /\ \A k \in Keys : proof[o] # {} /\ k.boot # boot => Gone(k)
    /\ \A e, f \in proof[o] : e[2] # boot /\ f[2] # boot => e = f

EvidenceInv == CountedOnce /\ OldCountedOnce
=============================================================================

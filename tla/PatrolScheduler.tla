--------------------------- MODULE PatrolScheduler ---------------------------
(* One patrol schedule: run_patrol_scheduler and                            *)
(* _dispatch_schedule_occurrence of services/task-worker/main.py with       *)
(* build_patrol_task (modules/tasks/patrol.py), the tasks they create and   *)
(* the occurrences they keep.                                               *)
(*                                                                         *)
(* A worker cycle is one transaction: it reads the clock, the queued        *)
(* occurrences, the due schedule and the robot, and commits everything or,  *)
(* when any part of the cycle raises, nothing. Whatever refuses a dispatch  *)
(* changes at any moment.                                                   *)
EXTENDS Integers, FiniteSets

CONSTANTS
  PsSlots,  \* bound: runs the cron expression names
  PsEvery,  \* ticks from one run to the next; a run one tick late is misfired
  PsGrace,  \* misfire_grace_seconds, in ticks
  PsExpiry, \* queue_expiry_seconds, in ticks
  PsMaxFaults

ASSUME PsAssumption == /\ PsSlots \in Nat \ {0} /\ PsEvery \in Nat \ {0}
                       /\ PsGrace \in Nat /\ PsExpiry \in Nat
                       /\ PsMaxFaults \in Nat

VARIABLES
  psPolicy, \* misfire_policy and overlap_policy of the schedule
  psNow,    \* the clock
  psNextRun,\* next_run_at: a slot; PsSlots + 1 is beyond the model
  psOcc,    \* patrol_schedule_occurrences by slot
  psTask,   \* the task created for a slot
  psOther,  \* another task of the robot is active
  psEnv,    \* what the checks of the dispatch find
  psTxn,    \* what the open cycle will commit
  psFaults

psVars == <<psPolicy, psNow, psNextRun, psOcc, psTask, psOther, psEnv, psTxn,
            psFaults>>

Slots == 1 .. PsSlots
TimeOf(k) == k * PsEvery
PsMaxNow == TimeOf(PsSlots) + PsExpiry + 1
OccStates == {"NONE", "QUEUED", "SKIPPED", "REJECTED", "DISPATCHED"}
\* uncommanded: the row is CREATED, and no command was written for it.
TaskStates == {"none", "active", "ended", "uncommanded"}
PsIdle == [pc |-> "idle"]

PsTypeOK ==
  /\ psPolicy \in [windowed : BOOLEAN, overlap : {"SKIP", "QUEUE", "REJECT"}]
  /\ psNow \in 0 .. PsMaxNow /\ psNextRun \in 1 .. PsSlots + 1
  /\ psOcc \in [Slots -> OccStates] /\ psTask \in [Slots -> TaskStates]
  /\ psOther \in BOOLEAN
  /\ psEnv \in [plan : BOOLEAN, ready : BOOLEAN, points : BOOLEAN, lease : BOOLEAN]
  /\ psTxn \in {PsIdle} \cup [pc : {"queue", "due", "commit"}, now : 0 .. PsMaxNow,
                              next : 1 .. PsSlots + 1, left : SUBSET Slots,
                              occ : [Slots -> OccStates], new : [Slots -> TaskStates]]
  /\ psFaults \in 0 .. PsMaxFaults

PsInit ==
  /\ psPolicy \in [windowed : BOOLEAN, overlap : {"SKIP", "QUEUE", "REJECT"}]
  /\ psNow = 0 /\ psNextRun = 1
  /\ psOcc = [k \in Slots |-> "NONE"] /\ psTask = [k \in Slots |-> "none"]
  /\ psOther = FALSE
  /\ psEnv = [plan |-> TRUE, ready |-> TRUE, points |-> TRUE, lease |-> FALSE]
  /\ psTxn = PsIdle
  /\ psFaults = 0

-----------------------------------------------------------------------------
(* The robot, the plan and the clock                                       *)

PsTick ==
  /\ psNow < PsMaxNow
  /\ psNow' = psNow + 1
  /\ UNCHANGED <<psPolicy, psNextRun, psOcc, psTask, psOther, psEnv, psTxn,
                 psFaults>>

\* The plan or one of its presets is disabled; the robot goes offline, loses a
\* contract, a capability or its map; an operator takes the lease; and back.
PsEnvChanges(f) ==
  /\ psEnv' = [psEnv EXCEPT ![f] = ~ @]
  /\ UNCHANGED <<psPolicy, psNow, psNextRun, psOcc, psTask, psOther, psTxn,
                 psFaults>>

Busy(k) == psTask[k] \in {"active", "uncommanded"}

PsOtherTask ==
  /\ psOther' = ~ psOther
  /\ psOther' => \A k \in Slots : ~ Busy(k)
  /\ UNCHANGED <<psPolicy, psNow, psNextRun, psOcc, psTask, psEnv, psTxn,
                 psFaults>>

PsTaskEnds(k) ==
  /\ psTask[k] = "active"
  /\ psTask' = [psTask EXCEPT ![k] = "ended"]
  /\ UNCHANGED <<psPolicy, psNow, psNextRun, psOcc, psOther, psEnv, psTxn,
                 psFaults>>

-----------------------------------------------------------------------------
(* _dispatch_schedule_occurrence, inside the transaction                    *)

\* Variant: the tasks of this cycle are not looked at.
ActiveCommitted == psOther \/ \E k \in Slots : Busy(k)

\* Tasks that were committed and those this cycle has flushed.
ActiveTask == \/ psOther
              \/ \E k \in Slots : Busy(k) \/ psTxn.new[k] # "none"

\* Variant: a queued occurrence never expires.
ExpiredNever(k, now) == FALSE

ExpiredAt(k, now) == psOcc[k] = "QUEUED" /\ now - TimeOf(k) > PsExpiry

\* State of the occurrence and the task that is left behind for it. The task
\* is flushed before create_durable_command checks the lease; the exception is
\* caught, and the cycle goes on to commit the row.
Outcome(k) ==
  IF ~ psEnv.plan THEN <<"REJECTED", "none">>
  ELSE IF ExpiredAt(k, psTxn.now) \/ ~ psEnv.ready THEN <<"SKIPPED", "none">>
  ELSE IF ActiveTask
    THEN <<IF psPolicy.overlap = "QUEUE" THEN "QUEUED"
           ELSE IF psPolicy.overlap = "REJECT" THEN "REJECTED" ELSE "SKIPPED", "none">>
  ELSE IF ~ psEnv.points THEN <<"REJECTED", "none">>
  ELSE IF psEnv.lease THEN <<"REJECTED", "uncommanded">>
  ELSE <<"DISPATCHED", "active">>

Decide(k, o) == [psTxn EXCEPT !.occ[k] = o[1], !.new[k] = o[2],
                              !.left = @ \ {k}]

-----------------------------------------------------------------------------
(* run_patrol_scheduler                                                    *)

Due == {k \in Slots : k = psNextRun /\ TimeOf(k) <= psNow}

PsBegin ==
  LET queued == {k \in Slots : psOcc[k] = "QUEUED"} IN
  /\ psTxn = PsIdle
  /\ queued # {} \/ Due # {}
  /\ psTxn' = [pc |-> "queue", now |-> psNow, next |-> psNextRun, left |-> queued,
               occ |-> psOcc, new |-> [k \in Slots |-> "none"]]
  /\ UNCHANGED <<psPolicy, psNow, psNextRun, psOcc, psTask, psOther, psEnv,
                 psFaults>>

\* The queued occurrences, in no particular order.
PsQueued(k) ==
  /\ psTxn.pc = "queue"
  /\ k \in psTxn.left
  /\ psTxn' = Decide(k, Outcome(k))
  /\ UNCHANGED <<psPolicy, psNow, psNextRun, psOcc, psTask, psOther, psEnv,
                 psFaults>>

\* Variant: it continues from now.
NextAfterNow(k, now) ==
  IF \E n \in Slots : TimeOf(n) > now
    THEN CHOOSE n \in Slots : TimeOf(n) > now /\ \A m \in Slots : TimeOf(m) > now => n <= m
    ELSE PsSlots + 1

\* next_schedule_run continues from the run it handles, not from now.
NextAfter(k, now) == k + 1

Misfired(k) == LET delay == psTxn.now - TimeOf(k)
               IN delay > 0 /\ ~ (psPolicy.windowed /\ delay <= PsGrace)

\* At most one run of the schedule per cycle, however many are due.
PsDue ==
  LET k == psTxn.next IN
  /\ psTxn.pc = "queue" /\ psTxn.left = {}
  /\ psTxn' = IF k \in Slots /\ TimeOf(k) <= psTxn.now
                THEN [Decide(k, IF Misfired(k) THEN <<"SKIPPED", "none">> ELSE Outcome(k))
                        EXCEPT !.pc = "commit", !.next = NextAfter(k, psTxn.now)]
                ELSE [psTxn EXCEPT !.pc = "commit"]
  /\ UNCHANGED <<psPolicy, psNow, psNextRun, psOcc, psTask, psOther, psEnv,
                 psFaults>>

PsCommit ==
  /\ psTxn.pc = "commit"
  /\ psOcc' = psTxn.occ
  /\ psNextRun' = psTxn.next
  /\ psTask' = [k \in Slots |-> IF psTxn.new[k] = "none" THEN psTask[k] ELSE psTxn.new[k]]
  /\ psTxn' = PsIdle
  /\ UNCHANGED <<psPolicy, psNow, psOther, psEnv, psFaults>>

PsCycleFails ==
  /\ psTxn # PsIdle /\ psFaults < PsMaxFaults
  /\ psFaults' = psFaults + 1
  /\ psTxn' = PsIdle
  /\ UNCHANGED <<psPolicy, psNow, psNextRun, psOcc, psTask, psOther, psEnv>>

-----------------------------------------------------------------------------

PsNext ==
  \/ PsTick
  \/ \E f \in {"plan", "ready", "points", "lease"} : PsEnvChanges(f)
  \/ PsOtherTask
  \/ \E k \in Slots : PsTaskEnds(k) \/ PsQueued(k)
  \/ PsBegin \/ PsDue \/ PsCommit \/ PsCycleFails

PsSpec == PsInit /\ [][PsNext]_psVars

-----------------------------------------------------------------------------
(* Properties                                                              *)

\* Every run the schedule has passed has its occurrence, also when the worker
\* was down for several of them and when cycles were rolled back.
PsNoRunForgotten ==
  \A k \in Slots : k < psNextRun => psOcc[k] # "NONE"

\* The scheduler alone never has two tasks of the robot active at once.
PsOneTask == Cardinality({k \in Slots : Busy(k)}) <= 1

\* A queued occurrence is decided.
PsQueueDrains == \A k \in Slots : psOcc[k] = "QUEUED" ~> psOcc[k] # "QUEUED"

-----------------------------------------------------------------------------
(* The inductive strengthening                                             *)

\* The occurrences an open cycle will commit are complete as well.
PsCycleComplete ==
  psTxn # PsIdle => \A k \in Slots : k < psTxn.next => psTxn.occ[k] # "NONE"

\* A run has a task, or will have one when the open cycle commits.
Taken(k) == Busy(k) \/ (psTxn # PsIdle /\ psTxn.new[k] # "none")

PsTakenOnce == \A j, k \in Slots : Taken(j) /\ Taken(k) => j = k

PsInv == PsTypeOK /\ PsNoRunForgotten /\ PsCycleComplete /\ PsTakenOnce
=============================================================================

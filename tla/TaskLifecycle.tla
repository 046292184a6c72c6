---------------------------- MODULE TaskLifecycle ----------------------------
(* The tasks of one robot and the fire event they serve: the task requests  *)
(* of the API (modules/tasks/router.py, patrol.py, return_dock.py), the     *)
(* transitions of a fire event (modules/alarms/router.py), the idempotency  *)
(* records (core/idempotency.py), the checks of assert_robot_can_execute    *)
(* (modules/commands/service.py) and handle_task_status of the ingress.     *)
(*                                                                         *)
(* Every request reads, decides and commits; other requests and the ingress *)
(* commit in between (READ COMMITTED, no row is locked). A column that is   *)
(* assigned the value it was read with is not written (SQLAlchemy). What a  *)
(* command goes through after its commit is CommandPipeline's.              *)
(*                                                                         *)
(* Whether the robot is enabled, online, free of e-stop and of a manual     *)
(* lease, verified, capable and at the waiting area changes at any moment   *)
(* and only decides whether a request is refused: a refused request changes *)
(* nothing and is no step.                                                  *)
EXTENDS Integers, FiniteSets

CONSTANTS
  TkMax,     \* bound: tasks, numbered in the order of created_at
  TkClients, \* requests that can be open at the same time
  TkKeys     \* values of the Idempotency-Key header

ASSUME TkAssumption == TkMax \in Nat \ {0}

VARIABLES
  tkTask,   \* rows of tasks
  tkFire,   \* the fire event: state and assigned_task_id
  tkKey,    \* idempotency_records: key -> the task it answers with, or 0
  tkReq,    \* open API requests
  tkIng     \* the task_status the ingress is handling

tkVars == <<tkTask, tkFire, tkKey, tkReq, tkIng>>

TkIds == 1 .. TkMax
TaskTypes == {"EXTINGUISH", "PATROL", "RETURN_DOCK"}
ActiveTaskStates == {"CREATED", "QUEUED", "ACCEPTED", "EXECUTING"}
TerminalStates == {"SUCCEEDED", "FAILED", "CANCELLED"}
Reports == {"ACCEPTED", "EXECUTING"} \cup TerminalStates
FireStates == {"NEW", "ACKNOWLEDGED", "CONFIRMED", "DISPATCHED", "IN_PROGRESS",
               "RESOLVED", "DISMISSED"}
ResumeStates == {"NONE", "AVAILABLE", "CONSUMED_BY_RESUME", "CONSUMED_BY_RETURN"}
Creates == {"extinguish", "alarm", "patrol", "plan", "resume", "return"}
Commanded == [o \in Creates |->
                IF o \in {"extinguish", "alarm"} THEN "EXTINGUISH"
                ELSE IF o = "return" THEN "RETURN_DOCK" ELSE "PATROL"]

\* cursor and resume are the two entries of parameters_json that matter.
Row(type, key, fire, from) ==
  [type |-> type, status |-> "QUEUED", key |-> key, fire |-> fire, from |-> from,
   cursor |-> FALSE, resume |-> "NONE", ended |-> FALSE]
NoRow == [Row("PATROL", 0, FALSE, 0) EXCEPT !.status = "NONE"]

Idle == [op |-> "idle"]
Quiet == [task |-> 0]

TkTypeOK ==
  /\ tkTask \in [TkIds -> [type : TaskTypes,
                           status : {"NONE"} \cup ActiveTaskStates \cup TerminalStates,
                           key : {0} \cup TkKeys, fire : BOOLEAN,
                           from : 0 .. TkMax, cursor : BOOLEAN,
                           resume : ResumeStates, ended : BOOLEAN]]
  /\ tkFire \in [state : FireStates, task : 0 .. TkMax]
  /\ tkKey \in [TkKeys -> 0 .. TkMax]
  /\ tkReq \in [TkClients ->
                  {Idle} \cup [op : Creates, key : TkKeys, from : 0 .. TkMax,
                               seen : FireStates]
                         \cup [op : {"transition"}, to : FireStates]
                         \cup [op : {"cancel"}, key : TkKeys, task : TkIds]]
  /\ tkIng \in {Quiet} \cup [task : TkIds, to : Reports, json : ResumeStates,
                             cursor : BOOLEAN, writes : BOOLEAN,
                             prev : 0 .. TkMax, seen : FireStates]

TkInit ==
  /\ tkTask = [t \in TkIds |-> NoRow]
  /\ tkFire = [state |-> "NEW", task |-> 0]
  /\ tkKey = [k \in TkKeys |-> 0]
  /\ tkReq = [c \in TkClients |-> Idle]
  /\ tkIng = Quiet

-----------------------------------------------------------------------------
(* What a request reads                                                    *)

Rows == {t \in TkIds : tkTask[t].status # "NONE"}
Active == {t \in Rows : tkTask[t].status \in ActiveTaskStates}
Unused == Cardinality(Rows) + 1

\* The newest cancelled patrol, 0 if there is none.
Interrupted ==
  LET P == {t \in Rows : tkTask[t].type = "PATROL" /\ tkTask[t].status = "CANCELLED"}
  IN IF P = {} THEN 0 ELSE CHOOSE t \in P : \A u \in P : u <= t

Resumable == \E t \in Rows : t = Interrupted /\ tkTask[t].resume = "AVAILABLE"

\* assert_robot_can_execute: with several active tasks the query returns any.
CanExecute(type) ==
  \/ Active = {}
  \/ type = "RETURN_DOCK" /\ \E t \in Active : tkTask[t].type # "EXTINGUISH"

\* lookup: the key has no record yet (otherwise the stored answer returns).
NewKey(k) == tkKey[k] = 0

MayStart(op, from) ==
  /\ op = "alarm" => tkFire.state \in {"NEW", "ACKNOWLEDGED", "CONFIRMED"}
  /\ op = "plan" => ~ Resumable
  /\ op = "resume" => /\ from \in Rows
                      /\ tkTask[from].type = "PATROL"
                      /\ tkTask[from].status = "CANCELLED"
  /\ op # "resume" => from = 0

Serves(op) == op \in {"extinguish", "alarm"}
SeenBy(op) == IF Serves(op) THEN tkFire.state ELSE "NEW"

TkOpen(c, op, k, from) ==
  /\ tkReq[c] = Idle
  /\ NewKey(k)
  /\ MayStart(op, from)
  /\ CanExecute(Commanded[op])
  /\ tkReq' = [tkReq EXCEPT ![c] = [op |-> op, key |-> k, from |-> from,
                                    seen |-> SeenBy(op)]]
  /\ UNCHANGED <<tkTask, tkFire, tkKey, tkIng>>

\* The handlers that create a task; extinguish and alarm serve the fire event.
Patrol(c, k) == TkOpen(c, "patrol", k, 0)
PatrolPlan(c, k) == TkOpen(c, "plan", k, 0) \/ \E t \in TkIds : TkOpen(c, "resume", k, t)
ReturnDock(c, k) == TkOpen(c, "return", k, 0)
Extinguish(c, k) == TkOpen(c, "extinguish", k, 0)
AlarmCreateTask(c, k) == TkOpen(c, "alarm", k, 0)

Assign(seen, new, now) == IF new = seen THEN now ELSE new

-----------------------------------------------------------------------------
(* What a request commits                                                  *)

\* uq_idempotency_scope: of two transactions that store the same key the
\* second fails at its commit, with everything it did.
KeyAlwaysFree(k) == TRUE \* variant: the records have no unique constraint
KeyIsFree(k) == tkKey[k] = 0

\* store: the record is written in the transaction of the task.
StoreKey(k, t) == tkKey' = [tkKey EXCEPT ![k] = t]

TkCreate(c) ==
  LET r == tkReq[c]
      t == Unused IN
  /\ r.op \in Creates
  /\ t \in TkIds
  /\ KeyIsFree(r.key)
  /\ tkTask' = [u \in TkIds |->
       IF u = t THEN Row(Commanded[r.op], r.key, Serves(r.op), r.from)
       ELSE IF u = r.from THEN [tkTask[u] EXCEPT !.resume = "CONSUMED_BY_RESUME"]
       ELSE tkTask[u]]
  /\ tkFire' = IF Serves(r.op) THEN [state |-> Assign(r.seen, "DISPATCHED", tkFire.state),
                               task |-> t]
               ELSE tkFire
  /\ StoreKey(r.key, t)
  /\ tkReq' = [tkReq EXCEPT ![c] = Idle]
  /\ UNCHANGED <<tkIng>>

\* Variant: build_resumed_patrol_task has marked the previous task when it
\* finds that the pose is unknown, and the session is committed all the same.
AbortKeepsMark(c) ==
  /\ tkReq[c] # Idle
  /\ tkTask' = [u \in TkIds |->
       IF tkReq[c].op = "resume" /\ u = tkReq[c].from
         THEN [tkTask[u] EXCEPT !.resume = "CONSUMED_BY_RESUME"] ELSE tkTask[u]]
  /\ tkReq' = [tkReq EXCEPT ![c] = Idle]
  /\ UNCHANGED <<tkFire, tkKey, tkIng>>

\* The commit fails (the key was stored meanwhile, the database refuses), or
\* a later check raises: nothing of the request remains.
TkAbort(c) ==
  /\ tkReq[c] # Idle
  /\ tkReq' = [tkReq EXCEPT ![c] = Idle]
  /\ UNCHANGED <<tkTask, tkFire, tkKey, tkIng>>

\* cancel_task queues a command and names it in phase; the status stays.
TkCancelRead(c, t, k) ==
  /\ tkReq[c] = Idle
  /\ NewKey(k)
  /\ t \in Active
  /\ tkReq' = [tkReq EXCEPT ![c] = [op |-> "cancel", key |-> k, task |-> t]]
  /\ UNCHANGED <<tkTask, tkFire, tkKey, tkIng>>

TkCancelCommit(c) ==
  /\ tkReq[c].op = "cancel"
  /\ KeyIsFree(tkReq[c].key)
  /\ StoreKey(tkReq[c].key, tkReq[c].task)
  /\ tkReq' = [tkReq EXCEPT ![c] = Idle]
  /\ UNCHANGED <<tkTask, tkFire, tkIng>>

\* transition() of the alarm router, reached by acknowledge, confirm, dismiss
\* and resolve.
Allowed(from) ==
  IF from = "NEW" THEN {"ACKNOWLEDGED", "CONFIRMED", "DISMISSED"}
  ELSE IF from = "ACKNOWLEDGED" THEN {"CONFIRMED", "DISMISSED"}
  ELSE IF from = "CONFIRMED" THEN {"RESOLVED", "DISMISSED"}
  ELSE IF from \in {"DISPATCHED", "IN_PROGRESS"} THEN {"RESOLVED"} ELSE {}

TkTransitionRead(c, to) ==
  /\ tkReq[c] = Idle
  /\ to \in Allowed(tkFire.state)
  /\ tkReq' = [tkReq EXCEPT ![c] = [op |-> "transition", to |-> to]]
  /\ UNCHANGED <<tkTask, tkFire, tkKey, tkIng>>

TkTransitionCommit(c) ==
  /\ tkReq[c].op = "transition"
  /\ tkFire' = [tkFire EXCEPT !.state = tkReq[c].to]
  /\ tkReq' = [tkReq EXCEPT ![c] = Idle]
  /\ UNCHANGED <<tkTask, tkKey, tkIng>>

-----------------------------------------------------------------------------
(* handle_task_status: any status of any task, in any order                 *)

\* What the report makes of parameters_json of its own task.
ResumeAfter(type, to, cursor, resume) ==
  IF to = "CANCELLED" /\ (type = "RETURN_DOCK" \/ (type = "PATROL" /\ cursor))
    THEN "AVAILABLE" ELSE resume

Writes(row, to, cursor) ==
  \/ cursor
  \/ ResumeAfter(row.type, to, row.cursor, row.resume) # row.resume

TkReportRead(t, to, cursor) ==
  LET row == tkTask[t] IN
  /\ tkIng = Quiet
  /\ t \in Rows
  /\ tkIng' = [task |-> t, to |-> to, cursor |-> row.cursor \/ cursor,
               json |-> ResumeAfter(row.type, to, row.cursor \/ cursor, row.resume),
               writes |-> Writes(row, to, cursor),
               prev |-> IF to = "SUCCEEDED" /\ row.type = "RETURN_DOCK" /\ Resumable
                          THEN Interrupted ELSE 0,
               seen |-> IF row.fire THEN tkFire.state ELSE "NEW"]
  /\ UNCHANGED <<tkTask, tkFire, tkKey, tkReq>>

\* Variant: a task that fails or is cancelled leaves the fire event alone.
FireAfterSuccessOnly(to) == IF to = "EXECUTING" THEN "IN_PROGRESS"
                            ELSE IF to = "ACCEPTED" THEN "DISPATCHED"
                            ELSE IF to = "SUCCEEDED" THEN "RESOLVED" ELSE tkFire.state

FireAfter(to) == IF to = "EXECUTING" THEN "IN_PROGRESS"
                 ELSE IF to = "ACCEPTED" THEN "DISPATCHED"
                 ELSE IF to = "SUCCEEDED" THEN "RESOLVED" ELSE "CONFIRMED"

TkReportCommit ==
  LET i == tkIng IN
  /\ i # Quiet
  /\ tkTask' = [u \in TkIds |->
       IF u = i.task
         THEN [tkTask[u] EXCEPT !.status = i.to, !.cursor = @ \/ i.cursor,
                                !.resume = IF i.writes THEN i.json ELSE @,
                                !.ended = @ \/ i.to \in TerminalStates]
       ELSE IF u = i.prev THEN [tkTask[u] EXCEPT !.resume = "CONSUMED_BY_RETURN"]
       ELSE tkTask[u]]
  /\ tkFire' = IF tkTask[i.task].fire
                 THEN [tkFire EXCEPT !.state = Assign(i.seen, FireAfter(i.to), @)]
                 ELSE tkFire
  /\ tkIng' = Quiet
  /\ UNCHANGED <<tkKey, tkReq>>

TkReportFails ==
  /\ tkIng # Quiet
  /\ tkIng' = Quiet
  /\ UNCHANGED <<tkTask, tkFire, tkKey, tkReq>>

-----------------------------------------------------------------------------

TkClient(c) ==
  \/ \E k \in TkKeys : \/ Patrol(c, k) \/ PatrolPlan(c, k) \/ ReturnDock(c, k)
                        \/ Extinguish(c, k) \/ AlarmCreateTask(c, k)
  \/ \E t \in TkIds, k \in TkKeys : TkCancelRead(c, t, k)
  \/ \E to \in FireStates : TkTransitionRead(c, to)
  \/ TkCreate(c) \/ TkAbort(c) \/ TkCancelCommit(c) \/ TkTransitionCommit(c)

TkNext ==
  \/ \E c \in TkClients : TkClient(c)
  \/ \E t \in TkIds, to \in Reports, cursor \in BOOLEAN : TkReportRead(t, to, cursor)
  \/ TkReportCommit \/ TkReportFails

TkSpec == TkInit /\ [][TkNext]_tkVars

-----------------------------------------------------------------------------
(* Properties                                                              *)

\* Idempotency: a key starts at most one task, also when two requests with it
\* are open at the same time and both found no record.
TkOneTaskPerKey ==
  \A t, u \in Rows : tkTask[t].key = tkTask[u].key => t = u

\* A fire event is shown as being dealt with only while one of its tasks is
\* active, whatever order requests, transitions and reports commit in.
TkFireEngaged ==
  tkFire.state \in {"DISPATCHED", "IN_PROGRESS"} =>
    \E t \in Active : tkTask[t].fire

\* An interrupted patrol loses its resumability only to a patrol that was
\* really created from it, or to a return that really ended.
TkConsumedHasCause ==
  \A t \in Rows :
    /\ tkTask[t].resume = "CONSUMED_BY_RESUME" =>
         \E u \in Rows : tkTask[u].from = t
    /\ tkTask[t].resume = "CONSUMED_BY_RETURN" =>
         \E u \in Rows : tkTask[u].type = "RETURN_DOCK" /\ tkTask[u].ended

-----------------------------------------------------------------------------
(* The inductive strengthening                                             *)

Engaged == {"DISPATCHED", "IN_PROGRESS"}

\* The rows are numbered without gaps, and the key of each is on record.
TkRowsKept ==
  /\ \E n \in 0 .. TkMax : Rows = 1 .. n
  /\ \A t \in Rows : tkTask[t].key \in TkKeys /\ tkKey[tkTask[t].key] # 0

\* What a request has read stays possible: the patrol it resumes is a row, and
\* no operator can declare the fire event dispatched.
TkRequestsKnown ==
  \A c \in TkClients :
    /\ tkReq[c].op \in Creates => tkReq[c].from \in Rows \cup {0}
    /\ tkReq[c].op = "transition" => tkReq[c].to \notin Engaged

\* What the ingress has read is stale only in ways that do no harm: a fire
\* event engaged since then is so for another task, and the mark it may write
\* back has its cause.
TkReportKnown ==
  tkIng # Quiet =>
    /\ tkIng.task \in Rows
    /\ tkTask[tkIng.task].fire /\ tkIng.seen \notin Engaged /\ tkFire.state \in Engaged =>
         \E t \in Active \ {tkIng.task} : tkTask[t].fire
    /\ tkIng.json = "CONSUMED_BY_RESUME" => \E u \in Rows : tkTask[u].from = tkIng.task
    /\ tkIng.json = "CONSUMED_BY_RETURN" =>
         \E u \in Rows : tkTask[u].type = "RETURN_DOCK" /\ tkTask[u].ended
    /\ tkIng.prev # 0 => /\ tkIng.to = "SUCCEEDED"
                         /\ tkTask[tkIng.task].type = "RETURN_DOCK"

TkInv == /\ TkTypeOK /\ TkRowsKept /\ TkRequestsKnown /\ TkReportKnown
         /\ TkOneTaskPerKey /\ TkFireEngaged /\ TkConsumedHasCause
=============================================================================

------------------------------ MODULE TaskProofs ------------------------------
(***************************************************************************)
(* Proofs about the tasks of a robot (TaskLifecycle) and about the schedule*)
(* that creates some of them (PatrolScheduler): for any number of tasks,   *)
(* requests and keys, and any number of runs, expiry and grace.            *)
(***************************************************************************)
EXTENDS TaskLifecycle, PatrolScheduler, FiniteSetTheorems, TLAPS

-----------------------------------------------------------------------------
(* The patrol scheduler                                                    *)

Cycles == [pc : {"queue", "due", "commit"}, now : 0 .. PsMaxNow,
           next : 1 .. PsSlots + 1, left : SUBSET Slots,
           occ : [Slots -> OccStates], new : [Slots -> TaskStates]]

LEMMA PsTimes == PsMaxNow \in Nat /\ \A k \in Slots : TimeOf(k) \in Nat
BY PsAssumption DEF PsMaxNow, TimeOf, Slots

\* _dispatch_schedule_occurrence decides every occurrence it is given, and
\* creates a task only while the robot has none.
LEMMA OutcomeRange ==
  ASSUME PsTypeOK, NEW k \in Slots
  PROVE  /\ Outcome(k) = <<Outcome(k)[1], Outcome(k)[2]>>
         /\ Outcome(k)[1] \in OccStates \ {"NONE"}
         /\ Outcome(k)[2] \in TaskStates
         /\ Outcome(k)[2] # "none" => ~ ActiveTask
BY DEF Outcome, OccStates, TaskStates, PsTypeOK

\* A decision changes one occurrence of the open cycle.
LEMMA DecideStep ==
  ASSUME psTxn \in Cycles, NEW k \in Slots, NEW s \in OccStates \ {"NONE"}, NEW t \in TaskStates
  PROVE  /\ Decide(k, <<s, t>>) \in Cycles
         /\ Decide(k, <<s, t>>).pc = psTxn.pc
         /\ Decide(k, <<s, t>>).next = psTxn.next
         /\ Decide(k, <<s, t>>).occ = [psTxn.occ EXCEPT ![k] = s]
         /\ Decide(k, <<s, t>>).new = [psTxn.new EXCEPT ![k] = t]
<1> DEFINE x == [psTxn EXCEPT !.occ[k] = s]
           y == [x EXCEPT !.new[k] = t]
           z == [y EXCEPT !.left = @ \ {k}]
<1>1. x = [psTxn EXCEPT !.occ = [psTxn.occ EXCEPT ![k] = s]]
  BY DEF Cycles
<1>2. /\ x \in Cycles /\ x.pc = psTxn.pc /\ x.next = psTxn.next /\ x.new = psTxn.new
      /\ x.occ = [psTxn.occ EXCEPT ![k] = s]
  BY <1>1 DEF Cycles
<1>3. y \in Cycles /\ y.pc = x.pc /\ y.next = x.next /\ y.occ = x.occ /\ y.new = [x.new EXCEPT ![k] = t]
  <2> HIDE DEF x
  <2> QED BY <1>2 DEF Cycles
<1>4. z \in Cycles /\ z.pc = y.pc /\ z.next = y.next /\ z.occ = y.occ /\ z.new = y.new
  <2> HIDE DEF y
  <2> QED BY <1>3 DEF Cycles
<1>5. Decide(k, <<s, t>>) = z
  BY DEF Decide
<1> HIDE DEF x, y, z
<1> QED BY <1>2, <1>3, <1>4, <1>5

LEMMA PsInitInv == PsInit => PsInv
<1> SUFFICES ASSUME PsInit PROVE PsInv
  OBVIOUS
<1> USE PsAssumption DEF PsInit
<1>1. PsTypeOK
  <2>1. psNow \in 0 .. PsMaxNow /\ psNextRun \in 1 .. PsSlots + 1 /\ psFaults \in 0 .. PsMaxFaults
    BY PsTimes
  <2>2. psOcc \in [Slots -> OccStates] /\ psTask \in [Slots -> TaskStates]
    BY DEF OccStates, TaskStates
  <2>3. psEnv \in [plan : BOOLEAN, ready : BOOLEAN, points : BOOLEAN, lease : BOOLEAN]
    OBVIOUS
  <2> QED BY <2>1, <2>2, <2>3 DEF PsTypeOK
<1>2. PsNoRunForgotten /\ PsCycleComplete /\ PsTakenOnce
  BY DEF PsNoRunForgotten, PsCycleComplete, PsTakenOnce, Taken, Busy, Slots
<1> QED BY <1>1, <1>2 DEF PsInv

LEMMA CycleOpen ==
  ASSUME PsTypeOK, psTxn.pc # "idle"
  PROVE  psTxn \in Cycles /\ psTxn # PsIdle
BY DEF PsTypeOK, Cycles, PsIdle

\* What goes on around the worker creates no task for a run.
LEMMA PsOutsideStep ==
  ASSUME PsInv,
         \/ PsTick \/ PsOtherTask
         \/ \E f \in {"plan", "ready", "points", "lease"} : PsEnvChanges(f)
         \/ \E k \in Slots : PsTaskEnds(k)
  PROVE  PsInv'
<1> USE PsAssumption, PsTimes
<1>1. UNCHANGED <<psPolicy, psNextRun, psOcc, psTxn, psFaults>>
  BY DEF PsTick, PsOtherTask, PsEnvChanges, PsTaskEnds
<1>2. /\ psTask' \in [Slots -> TaskStates]
      /\ \A k \in Slots : psTask'[k] # psTask[k] => psTask'[k] = "ended"
  BY DEF PsTick, PsOtherTask, PsEnvChanges, PsTaskEnds, PsInv, PsTypeOK, TaskStates
<1>3. psEnv' \in [plan : BOOLEAN, ready : BOOLEAN, points : BOOLEAN, lease : BOOLEAN]
  <2>1. CASE \E f \in {"plan", "ready", "points", "lease"} : PsEnvChanges(f)
    BY <2>1 DEF PsEnvChanges, PsInv, PsTypeOK
  <2>2. CASE UNCHANGED psEnv
    BY <2>2 DEF PsInv, PsTypeOK
  <2> QED BY <2>1, <2>2 DEF PsTick, PsOtherTask, PsTaskEnds
<1>4. psNow' \in 0 .. PsMaxNow /\ psOther' \in BOOLEAN
  <2>1. psNow' \in 0 .. PsMaxNow
    BY DEF PsTick, PsOtherTask, PsEnvChanges, PsTaskEnds, PsInv, PsTypeOK
  <2>2. psOther' = psOther \/ psOther' = ~ psOther
    BY DEF PsTick, PsOtherTask, PsEnvChanges, PsTaskEnds
  <2>3. psOther' \in BOOLEAN
    BY <2>2 DEF PsInv, PsTypeOK
  <2> QED BY <2>1, <2>3
<1>5. PsTypeOK'
  BY <1>1, <1>2, <1>3, <1>4 DEF PsInv, PsTypeOK
<1>6. PsNoRunForgotten' /\ PsCycleComplete'
  BY <1>1 DEF PsInv, PsNoRunForgotten, PsCycleComplete
<1>7. PsTakenOnce'
  BY <1>1, <1>2 DEF PsInv, PsTakenOnce, Taken, Busy
<1> QED BY <1>5, <1>6, <1>7 DEF PsInv

\* A decision keeps the open cycle complete and gives at most one run a task.
LEMMA DecisionKeeps ==
  ASSUME PsInv, NEW k \in Slots, psTxn.pc # "idle",
         NEW s \in OccStates \ {"NONE"}, NEW t \in TaskStates, t # "none" => ~ ActiveTask,
         psTxn'.occ = [psTxn.occ EXCEPT ![k] = s],
         psTxn'.new = [psTxn.new EXCEPT ![k] = t]
  PROVE  /\ \A j \in Slots : j < psTxn.next => psTxn'.occ[j] # "NONE"
         /\ \A i, j \in Slots : (Busy(i) \/ psTxn'.new[i] # "none")
                               /\ (Busy(j) \/ psTxn'.new[j] # "none")
                               => i = j
<1>1. psTxn \in Cycles /\ psTxn # PsIdle
  BY CycleOpen DEF PsInv
<1>2. \A j \in Slots : /\ psTxn'.occ[j] = IF j = k THEN s ELSE psTxn.occ[j]
                       /\ psTxn'.new[j] = IF j = k THEN t ELSE psTxn.new[j]
  BY <1>1 DEF Cycles
<1>3. \A i, j \in Slots : (Busy(i) \/ psTxn.new[i] # "none") /\ (Busy(j) \/ psTxn.new[j] # "none")
                         => i = j
  BY <1>1 DEF PsInv, PsTakenOnce, Taken
<1>4. t # "none" => \A j \in Slots : ~ Busy(j) /\ psTxn.new[j] = "none"
  BY DEF ActiveTask
<1>5. \A j \in Slots : j < psTxn.next => psTxn'.occ[j] # "NONE"
  BY <1>1, <1>2 DEF PsInv, PsCycleComplete
<1>6. \A i, j \in Slots : (Busy(i) \/ psTxn'.new[i] # "none")
                               /\ (Busy(j) \/ psTxn'.new[j] # "none") => i = j
  <2>1. CASE t = "none"
    BY <1>2, <1>3, <2>1
  <2>2. CASE t # "none"
    BY <1>2, <1>4, <2>2
  <2> QED BY <2>1, <2>2
<1> QED BY <1>5, <1>6

\* A step of the open cycle that leaves the committed rows alone.
LEMMA CycleKeeps ==
  ASSUME PsInv, UNCHANGED <<psPolicy, psNow, psNextRun, psOcc, psTask, psOther, psEnv, psFaults>>,
         psTxn' \in Cycles,
         \A j \in Slots : j < psTxn'.next => psTxn'.occ[j] # "NONE",
         \A i, j \in Slots : (Busy(i) \/ psTxn'.new[i] # "none")
                             /\ (Busy(j) \/ psTxn'.new[j] # "none") => i = j
  PROVE  PsInv'
<1>1. PsTypeOK'
  BY DEF PsInv, PsTypeOK, Cycles
<1>2. PsNoRunForgotten' /\ PsCycleComplete'
  BY DEF PsInv, PsNoRunForgotten, PsCycleComplete
<1>3. PsTakenOnce'
  BY DEF PsTakenOnce, Taken, Busy
<1> QED BY <1>1, <1>2, <1>3 DEF PsInv

LEMMA PsBeginStep == ASSUME PsInv, PsBegin PROVE PsInv'
<1>1. /\ psTxn' \in Cycles
      /\ psTxn'.next = psNextRun /\ psTxn'.occ = psOcc
      /\ \A k \in Slots : psTxn'.new[k] = "none"
  BY DEF PsBegin, Cycles, PsInv, PsTypeOK, TaskStates
<1>2. \A j \in Slots : j < psTxn'.next => psTxn'.occ[j] # "NONE"
  BY <1>1 DEF PsInv, PsNoRunForgotten
<1>3. \A i, j \in Slots : Busy(i) /\ Busy(j) => i = j
  BY DEF PsInv, PsTakenOnce, Taken
<1> QED BY <1>1, <1>2, <1>3, CycleKeeps DEF PsBegin

LEMMA PsQueuedStep == ASSUME PsInv, NEW k \in Slots, PsQueued(k) PROVE PsInv'
<1> DEFINE s == Outcome(k)[1]
           t == Outcome(k)[2]
<1>1. psTxn.pc # "idle" /\ psTxn \in Cycles
  BY CycleOpen DEF PsQueued, PsInv
<1>2. /\ Outcome(k) = <<s, t>> /\ s \in OccStates \ {"NONE"} /\ t \in TaskStates
      /\ t # "none" => ~ ActiveTask
  BY OutcomeRange DEF PsInv
<1>3. psTxn' = Decide(k, <<s, t>>)
  BY <1>2 DEF PsQueued
<1> HIDE DEF s, t
<1>4. /\ psTxn' \in Cycles /\ psTxn'.next = psTxn.next
      /\ psTxn'.occ = [psTxn.occ EXCEPT ![k] = s]
      /\ psTxn'.new = [psTxn.new EXCEPT ![k] = t]
  BY <1>1, <1>2, <1>3, DecideStep
<1>5. /\ \A j \in Slots : j < psTxn.next => psTxn'.occ[j] # "NONE"
      /\ \A i, j \in Slots : (Busy(i) \/ psTxn'.new[i] # "none")
                             /\ (Busy(j) \/ psTxn'.new[j] # "none") => i = j
  BY <1>1, <1>2, <1>4, DecisionKeeps
<1> QED BY <1>4, <1>5, CycleKeeps DEF PsQueued

\* The due run: it gets its occurrence before next_run_at moves past it.
LEMMA PsDueStep == ASSUME PsInv, PsDue PROVE PsInv'
<1> USE PsAssumption
<1> DEFINE k == psTxn.next
           o == IF Misfired(k) THEN <<"SKIPPED", "none">> ELSE Outcome(k)
           s == o[1]
           t == o[2]
<1>1. psTxn.pc # "idle" /\ psTxn \in Cycles /\ psTxn # PsIdle
  BY CycleOpen DEF PsDue, PsInv
<1>2. CASE k \in Slots /\ TimeOf(k) <= psTxn.now
  <2>1. /\ o = <<s, t>> /\ s \in OccStates \ {"NONE"} /\ t \in TaskStates
        /\ t # "none" => ~ ActiveTask
    <3>1. CASE Misfired(k)
      BY <3>1 DEF OccStates, TaskStates
    <3>2. CASE ~ Misfired(k)
      <4>1. o = Outcome(k)
        BY <3>2
      <4> QED BY <1>2, <4>1, OutcomeRange DEF PsInv
    <3> QED BY <3>1, <3>2
  <2>2. psTxn' = [Decide(k, o) EXCEPT !.pc = "commit", !.next = NextAfter(k, psTxn.now)]
    BY <1>2 DEF PsDue
  <2> HIDE DEF s, t, o
  <2> DEFINE d == Decide(k, <<s, t>>)
             e == [d EXCEPT !.pc = "commit"]
  <2>3. /\ d \in Cycles /\ d.occ = [psTxn.occ EXCEPT ![k] = s]
        /\ d.new = [psTxn.new EXCEPT ![k] = t]
    BY <1>1, <1>2, <2>1, DecideStep
  <2>4. psTxn' = [e EXCEPT !.next = k + 1]
    BY <2>1, <2>2 DEF NextAfter
  <2> HIDE DEF d
  <2>5. e \in Cycles /\ e.occ = d.occ /\ e.new = d.new
    BY <2>3 DEF Cycles
  <2>6. k + 1 \in 1 .. PsSlots + 1 /\ k \in Nat
    BY <1>2 DEF Slots
  <2> HIDE DEF e
  <2>7. psTxn' \in Cycles /\ psTxn'.occ = d.occ /\ psTxn'.new = d.new /\ psTxn'.next = k + 1
    BY <2>4, <2>5, <2>6 DEF Cycles
  <2>8. /\ \A j \in Slots : j < k => psTxn'.occ[j] # "NONE"
        /\ \A i, j \in Slots : (Busy(i) \/ psTxn'.new[i] # "none")
                               /\ (Busy(j) \/ psTxn'.new[j] # "none") => i = j
    BY <1>1, <1>2, <2>1, <2>3, <2>7, DecisionKeeps
  <2>9. \A j \in Slots : j < psTxn'.next => psTxn'.occ[j] # "NONE"
    <3>1. psTxn'.occ[k] = s
      BY <1>1, <1>2, <2>3, <2>7 DEF Cycles
    <3> QED BY <2>1, <2>6, <2>7, <2>8, <3>1 DEF Slots
  <2> QED BY <2>7, <2>8, <2>9, CycleKeeps DEF PsDue
<1>3. CASE ~ (k \in Slots /\ TimeOf(k) <= psTxn.now)
  <2>1. psTxn' = [psTxn EXCEPT !.pc = "commit"]
    BY <1>3 DEF PsDue
  <2>2. /\ psTxn' \in Cycles /\ psTxn'.occ = psTxn.occ /\ psTxn'.new = psTxn.new
        /\ psTxn'.next = psTxn.next
    BY <1>1, <2>1 DEF Cycles
  <2>3. /\ \A j \in Slots : j < psTxn.next => psTxn.occ[j] # "NONE"
        /\ \A i, j \in Slots : (Busy(i) \/ psTxn.new[i] # "none")
                               /\ (Busy(j) \/ psTxn.new[j] # "none") => i = j
    BY <1>1 DEF PsInv, PsCycleComplete, PsTakenOnce, Taken
  <2> QED BY <2>2, <2>3, CycleKeeps DEF PsDue
<1> QED BY <1>2, <1>3

\* The commit, or the rollback, of the cycle.
LEMMA PsEndStep == ASSUME PsInv, PsCommit \/ PsCycleFails PROVE PsInv'
<1> USE PsAssumption
<1>1. psTxn' = PsIdle
  BY DEF PsCommit, PsCycleFails
<1>2. CASE PsCommit
  <2>1. psTxn \in Cycles /\ psTxn # PsIdle
    BY <1>2, CycleOpen DEF PsCommit, PsInv
  <2>2. \A k \in Slots : psTask'[k] = IF psTxn.new[k] = "none" THEN psTask[k] ELSE psTxn.new[k]
    BY <1>2 DEF PsCommit
  <2>3. PsTypeOK'
    BY <1>1, <1>2, <2>1 DEF PsCommit, PsInv, PsTypeOK, Cycles
  <2>4. PsNoRunForgotten' /\ PsCycleComplete'
    BY <1>1, <1>2, <2>1 DEF PsCommit, PsInv, PsNoRunForgotten, PsCycleComplete
  <2>5. PsTakenOnce'
    BY <1>1, <2>1, <2>2 DEF PsInv, PsTakenOnce, Taken, Busy
  <2> QED BY <2>3, <2>4, <2>5 DEF PsInv
<1>3. CASE PsCycleFails
  BY <1>1, <1>3 DEF PsCycleFails, PsInv, PsTypeOK, PsNoRunForgotten, PsCycleComplete,
                    PsTakenOnce, Taken, Busy
<1> QED BY <1>2, <1>3

\* run_patrol_scheduler: types, the runs passed and the tasks, in the rows and
\* in the transaction that is open.
THEOREM ScheduleInvariance == PsSpec => []PsInv
<1>1. ASSUME PsInv, [PsNext]_psVars PROVE PsInv'
  <2>1. CASE \/ PsTick \/ PsOtherTask
             \/ \E f \in {"plan", "ready", "points", "lease"} : PsEnvChanges(f)
             \/ \E k \in Slots : PsTaskEnds(k)
    BY <1>1, <2>1, PsOutsideStep
  <2>2. ASSUME NEW k \in Slots, PsQueued(k) PROVE PsInv'
    BY <1>1, <2>2, PsQueuedStep
  <2>3. CASE PsBegin
    BY <1>1, <2>3, PsBeginStep
  <2>4. CASE PsDue
    BY <1>1, <2>4, PsDueStep
  <2>5. CASE PsCommit \/ PsCycleFails
    BY <1>1, <2>5, PsEndStep
  <2>6. CASE UNCHANGED psVars
    BY <1>1, <2>6 DEF PsInv, PsTypeOK, PsNoRunForgotten, PsCycleComplete, PsTakenOnce, Taken,
                      Busy, psVars
  <2> QED BY <1>1, <2>1, <2>2, <2>3, <2>4, <2>5, <2>6 DEF PsNext
<1> QED BY <1>1, PsInitInv, PTL DEF PsSpec

\* Every run the schedule has passed has its occurrence, also when the worker
\* was down for several of them and when cycles were rolled back.
THEOREM NoRunIsForgotten == PsSpec => []PsNoRunForgotten
<1>1. PsInv => PsNoRunForgotten
  BY DEF PsInv
<1> QED BY <1>1, ScheduleInvariance, PTL

\* The scheduler alone never has two tasks of the robot active at once.
THEOREM OneTaskAtATime == PsSpec => []PsOneTask
<1>1. ASSUME PsInv PROVE PsOneTask
  <2> DEFINE B == {k \in Slots : Busy(k)}
  <2>1. \A j, k \in B : j = k
    BY <1>1 DEF PsInv, PsTakenOnce, Taken
  <2>2. CASE B = {}
    <3>1. Cardinality(B) = 0
      BY <2>2, FS_EmptySet
    <3> QED BY <3>1 DEF PsOneTask
  <2>3. CASE B # {}
    <3>1. PICK k \in B : TRUE
      BY <2>3
    <3>2. B = {k}
      BY <2>1, <3>1
    <3>3. Cardinality(B) = 1
      BY <3>2, FS_Singleton
    <3> QED BY <3>3 DEF PsOneTask
  <2> QED BY <2>2, <2>3
<1> QED BY <1>1, ScheduleInvariance, PTL

-----------------------------------------------------------------------------
(* The tasks of a robot: rows                                              *)

TaskRows == [type : TaskTypes, status : {"NONE"} \cup ActiveTaskStates \cup TerminalStates,
             key : {0} \cup TkKeys, fire : BOOLEAN, from : 0 .. TkMax, cursor : BOOLEAN,
             resume : ResumeStates, ended : BOOLEAN]
Creating == [op : Creates, key : TkKeys, from : 0 .. TkMax, seen : FireStates]
Cancelling == [op : {"cancel"}, key : TkKeys, task : TkIds]
Transition == [op : {"transition"}, to : FireStates]
Handled == [task : TkIds, to : Reports, json : ResumeStates, cursor : BOOLEAN,
            writes : BOOLEAN, prev : 0 .. TkMax, seen : FireStates]

LEMMA TkTypes ==
  TkTypeOK <=> /\ tkTask \in [TkIds -> TaskRows]
               /\ tkFire \in [state : FireStates, task : 0 .. TkMax]
               /\ tkKey \in [TkKeys -> 0 .. TkMax]
               /\ tkReq \in [TkClients -> {Idle} \cup Creating \cup Transition \cup Cancelling]
               /\ tkIng \in {Quiet} \cup Handled
BY DEF TkTypeOK, TaskRows, Creating, Cancelling, Transition, Handled

LEMMA TkTypesNext ==
  TkTypeOK' <=> /\ tkTask' \in [TkIds -> TaskRows]
                /\ tkFire' \in [state : FireStates, task : 0 .. TkMax]
                /\ tkKey' \in [TkKeys -> 0 .. TkMax]
                /\ tkReq' \in [TkClients -> {Idle} \cup Creating \cup Transition \cup Cancelling]
                /\ tkIng' \in {Quiet} \cup Handled
BY DEF TkTypeOK, TaskRows, Creating, Cancelling, Transition, Handled

\* The number a new task gets: the rows are 1 .. n, so it is n + 1.
LEMMA UnusedIsNext ==
  ASSUME TkRowsKept, TkAssumption
  PROVE  /\ Unused \in Nat \ {0} /\ Unused \notin Rows
         /\ Rows \cup {Unused} = 1 .. Unused
<1>1. PICK n \in 0 .. TkMax : Rows = 1 .. n
  BY DEF TkRowsKept
<1>2. n \in Nat
  BY TkAssumption
<1>3. Cardinality(Rows) = n
  BY <1>1, <1>2, FS_Interval
<1>4. Unused = n + 1
  BY <1>3 DEF Unused
<1> QED BY <1>1, <1>2, <1>4

\* The row that TkCreate inserts.
LEMMA NewRow ==
  ASSUME NEW type \in TaskTypes, NEW key \in {0} \cup TkKeys, NEW fire \in BOOLEAN,
         NEW from \in 0 .. TkMax
  PROVE  /\ Row(type, key, fire, from) \in TaskRows
         /\ Row(type, key, fire, from).status = "QUEUED"
         /\ Row(type, key, fire, from).key = key
         /\ Row(type, key, fire, from).fire = fire
         /\ Row(type, key, fire, from).from = from
         /\ Row(type, key, fire, from).resume = "NONE"
BY DEF Row, TaskRows, ActiveTaskStates, ResumeStates

\* The row after a report.
Reported(row, to, cursor, json, over) ==
  [row EXCEPT !.status = to, !.cursor = @ \/ cursor, !.resume = json, !.ended = @ \/ over]

LEMMA ReportedRow ==
  ASSUME NEW row \in TaskRows, NEW to \in Reports, NEW cursor \in BOOLEAN,
         NEW json \in ResumeStates, NEW over \in BOOLEAN
  PROVE  LET new == Reported(row, to, cursor, json, over) IN
         /\ new \in TaskRows /\ new.status = to /\ new.resume = json
         /\ new.type = row.type /\ new.key = row.key /\ new.fire = row.fire
         /\ new.from = row.from /\ (row.ended \/ over => new.ended)
<1> DEFINE x == [row EXCEPT !.status = to]
           y == [x EXCEPT !.cursor = row.cursor \/ cursor]
           z == [y EXCEPT !.resume = json]
           w == [z EXCEPT !.ended = row.ended \/ over]
<1>1. /\ x \in TaskRows /\ x.status = to
      /\ x.type = row.type /\ x.key = row.key /\ x.fire = row.fire /\ x.from = row.from
      /\ x.ended = row.ended
  BY DEF TaskRows, Reports, ActiveTaskStates, TerminalStates
<1>2. /\ y \in TaskRows /\ y.status = x.status
      /\ y.type = x.type /\ y.key = x.key /\ y.fire = x.fire /\ y.from = x.from
      /\ y.ended = x.ended
  <2> HIDE DEF x
  <2>1. (row.cursor \/ cursor) \in BOOLEAN
    BY DEF TaskRows
  <2> QED BY <1>1, <2>1 DEF TaskRows
<1>3. /\ z \in TaskRows /\ z.status = y.status /\ z.resume = json
      /\ z.type = y.type /\ z.key = y.key /\ z.fire = y.fire /\ z.from = y.from
      /\ z.ended = y.ended
  <2> HIDE DEF y
  <2> QED BY <1>2 DEF TaskRows
<1>4. /\ w \in TaskRows /\ w.status = z.status /\ w.resume = z.resume
      /\ w.type = z.type /\ w.key = z.key /\ w.fire = z.fire /\ w.from = z.from
      /\ (row.ended \/ over => w.ended)
  <2> HIDE DEF z
  <2>1. (row.ended \/ over) \in BOOLEAN
    BY DEF TaskRows
  <2>2. w.ended = (row.ended \/ over)
    BY <1>3 DEF TaskRows
  <2> QED BY <1>3, <2>1, <2>2 DEF TaskRows
<1>5. Reported(row, to, cursor, json, over) = w
  BY DEF Reported
<1> HIDE DEF x, y, z, w
<1>6. /\ w.status = to /\ w.resume = json
      /\ w.type = row.type /\ w.key = row.key /\ w.fire = row.fire /\ w.from = row.from
  BY <1>1, <1>2, <1>3, <1>4
<1>7. w \in TaskRows /\ (row.ended \/ over => w.ended)
  BY <1>4
<1> QED BY <1>5, <1>6, <1>7

\* The causes of a mark stay: no task is deleted and none of these columns of
\* it is ever changed.
LEMMA CausesStay ==
  ASSUME Rows \subseteq Rows',
         \A u \in Rows : /\ tkTask'[u].type = tkTask[u].type /\ tkTask'[u].from = tkTask[u].from
                         /\ tkTask[u].ended => tkTask'[u].ended
  PROVE  /\ \A t : (\E u \in Rows : tkTask[u].from = t) => \E u \in Rows' : tkTask'[u].from = t
         /\ (\E u \in Rows : tkTask[u].type = "RETURN_DOCK" /\ tkTask[u].ended)
              => \E u \in Rows' : tkTask'[u].type = "RETURN_DOCK" /\ tkTask'[u].ended
<1>1. ASSUME NEW t, NEW u \in Rows, tkTask[u].from = t
      PROVE  \E v \in Rows' : tkTask'[v].from = t
  BY <1>1
<1>2. ASSUME NEW u \in Rows, tkTask[u].type = "RETURN_DOCK", tkTask[u].ended
      PROVE  \E v \in Rows' : tkTask'[v].type = "RETURN_DOCK" /\ tkTask'[v].ended
  BY <1>2
<1> QED BY <1>1, <1>2

LEMMA TkInitInv == TkInit => TkInv
<1> SUFFICES ASSUME TkInit PROVE TkInv
  OBVIOUS
<1> USE TkAssumption
<1>1. NoRow \in TaskRows /\ NoRow.status = "NONE"
  <2>1. Row("PATROL", 0, FALSE, 0) \in TaskRows
    <3>1. "PATROL" \in TaskTypes /\ 0 \in {0} \cup TkKeys /\ FALSE \in BOOLEAN /\ 0 \in 0 .. TkMax
      BY DEF TaskTypes
    <3> QED BY <3>1, NewRow, Zenon
  <2> QED BY <2>1 DEF NoRow, TaskRows
<1>2. TkTypeOK
  BY <1>1, TkTypes DEF TkInit, FireStates
<1>3. Rows = {}
  BY <1>1 DEF TkInit, Rows
<1>4. TkRowsKept
  <2>1. Rows = 1 .. 0 /\ 0 \in 0 .. TkMax
    BY <1>3
  <2> QED BY <1>3, <2>1 DEF TkRowsKept
<1>5. TkRequestsKnown /\ TkReportKnown
  BY DEF TkInit, TkRequestsKnown, TkReportKnown, Idle, Creates
<1>6. TkOneTaskPerKey /\ TkFireEngaged /\ TkConsumedHasCause
  BY <1>3 DEF TkInit, TkOneTaskPerKey, TkFireEngaged, TkConsumedHasCause
<1> QED BY <1>2, <1>4, <1>5, <1>6 DEF TkInv

-----------------------------------------------------------------------------
(* The tasks of a robot: requests                                          *)

\* A request that is opened or given up, or commits no task: the rows and what
\* the ingress holds stay.
LEMMA RequestKeeps ==
  ASSUME TkInv, UNCHANGED <<tkTask, tkIng>>,
         tkReq' \in [TkClients -> {Idle} \cup Creating \cup Transition \cup Cancelling],
         TkRequestsKnown',
         tkKey' \in [TkKeys -> 0 .. TkMax],
         \A k \in TkKeys : tkKey[k] # 0 => tkKey'[k] # 0,
         tkFire' \in [state : FireStates, task : 0 .. TkMax],
         tkFire'.state # tkFire.state => tkFire'.state \notin Engaged
  PROVE  TkInv'
<1>1. Rows' = Rows /\ Active' = Active
  BY DEF Rows, Active
<1>2. TkTypeOK'
  BY TkTypes, TkTypesNext DEF TkInv
<1>3. TkRowsKept'
  BY <1>1 DEF TkInv, TkRowsKept
<1>4. TkReportKnown'
  BY <1>1 DEF TkInv, TkReportKnown
<1>5. TkFireEngaged'
  BY <1>1 DEF TkInv, TkFireEngaged, Engaged
<1>6. TkOneTaskPerKey' /\ TkConsumedHasCause'
  BY <1>1 DEF TkInv, TkOneTaskPerKey, TkConsumedHasCause
<1> QED BY <1>2, <1>3, <1>4, <1>5, <1>6 DEF TkInv

\* One request changes.
LEMMA RequestSet ==
  ASSUME TkInv, NEW c \in TkClients, UNCHANGED tkTask,
         NEW r \in {Idle} \cup Creating \cup Transition \cup Cancelling,
         r.op \in Creates => r.from \in Rows \cup {0},
         r.op = "transition" => r.to \notin Engaged,
         tkReq' = [tkReq EXCEPT ![c] = r]
  PROVE  /\ tkReq' \in [TkClients -> {Idle} \cup Creating \cup Transition \cup Cancelling]
         /\ TkRequestsKnown'
<1>1. tkReq \in [TkClients -> {Idle} \cup Creating \cup Transition \cup Cancelling]
  BY TkTypes DEF TkInv
<1>2. \A d \in TkClients : tkReq'[d] = IF d = c THEN r ELSE tkReq[d]
  BY <1>1
<1>3. Rows' = Rows
  BY DEF Rows
<1>4. TkRequestsKnown'
  BY <1>2, <1>3 DEF TkInv, TkRequestsKnown
<1> QED BY <1>1, <1>4

\* A request reads and stays open.
LEMMA OpenStep ==
  ASSUME TkInv, NEW c \in TkClients,
         \/ \E k \in TkKeys : \/ Patrol(c, k) \/ PatrolPlan(c, k) \/ ReturnDock(c, k)
                              \/ Extinguish(c, k) \/ AlarmCreateTask(c, k)
         \/ \E t \in TkIds, k \in TkKeys : TkCancelRead(c, t, k)
         \/ \E to \in FireStates : TkTransitionRead(c, to)
  PROVE  TkInv'
<1> USE TkAssumption
<1>1. UNCHANGED <<tkTask, tkFire, tkKey, tkIng>>
  BY DEF Patrol, PatrolPlan, ReturnDock, Extinguish, AlarmCreateTask, TkOpen, TkCancelRead,
         TkTransitionRead
<1>2. tkFire \in [state : FireStates, task : 0 .. TkMax] /\ tkKey \in [TkKeys -> 0 .. TkMax]
  BY TkTypes DEF TkInv
<1>3. PICK r \in {Idle} \cup Creating \cup Transition \cup Cancelling :
        /\ r.op \in Creates => r.from \in Rows \cup {0}
        /\ r.op = "transition" => r.to \notin Engaged
        /\ tkReq' = [tkReq EXCEPT ![c] = r]
  <2>1. ASSUME NEW op \in Creates, NEW k \in TkKeys, NEW t, TkOpen(c, op, k, t)
        PROVE  \E r \in Creating : /\ r.from \in Rows \cup {0} /\ r.op \in Creates
                                   /\ tkReq' = [tkReq EXCEPT ![c] = r]
    <3> DEFINE r == [op |-> op, key |-> k, from |-> t, seen |-> SeenBy(op)]
    <3>1. t \in Rows \cup {0}
      BY <2>1 DEF TkOpen, MayStart
    <3>2. t \in 0 .. TkMax
      BY <3>1 DEF Rows, TkIds
    <3>3. SeenBy(op) \in FireStates
      BY <1>2 DEF SeenBy, FireStates
    <3>4. r \in Creating /\ r.from = t /\ r.op = op
      BY <3>2, <3>3 DEF Creating
    <3>5. tkReq' = [tkReq EXCEPT ![c] = r]
      BY <2>1 DEF TkOpen
    <3> HIDE DEF r
    <3> QED BY <3>1, <3>4, <3>5
  <2>2. CASE \E k \in TkKeys : \/ Patrol(c, k) \/ PatrolPlan(c, k) \/ ReturnDock(c, k)
                              \/ Extinguish(c, k) \/ AlarmCreateTask(c, k)
    <3>1. \E op \in Creates, k \in TkKeys : \E t : TkOpen(c, op, k, t)
      BY <2>2 DEF Patrol, PatrolPlan, ReturnDock, Extinguish, AlarmCreateTask, Creates
    <3>2. \A r \in Creating : r.op # "transition"
      BY DEF Creating, Creates
    <3> QED BY <2>1, <3>1, <3>2
  <2>3. ASSUME NEW t \in TkIds, NEW k \in TkKeys, TkCancelRead(c, t, k)
        PROVE  \E r \in Cancelling : r.op = "cancel" /\ tkReq' = [tkReq EXCEPT ![c] = r]
    BY <2>3 DEF TkCancelRead, Cancelling
  <2>4. ASSUME NEW to \in FireStates, TkTransitionRead(c, to)
        PROVE  \E r \in Transition : /\ r.op = "transition" /\ r.to \notin Engaged
                                     /\ tkReq' = [tkReq EXCEPT ![c] = r]
    <3>1. to \notin Engaged
      BY <2>4 DEF TkTransitionRead, Allowed, Engaged
    <3> QED BY <2>4, <3>1 DEF TkTransitionRead, Transition
  <2>5. "transition" \notin Creates /\ "cancel" \notin Creates
    BY DEF Creates
  <2> QED BY <2>2, <2>3, <2>4, <2>5
<1>4. /\ tkReq' \in [TkClients -> {Idle} \cup Creating \cup Transition \cup Cancelling]
      /\ TkRequestsKnown'
  BY <1>1, <1>3, RequestSet
<1> QED BY <1>1, <1>2, <1>4, RequestKeeps

\* A request ends without a task: it is given up, a cancel command or a
\* transition of the fire event is committed.
LEMMA CloseStep ==
  ASSUME TkInv, NEW c \in TkClients, TkAbort(c) \/ TkCancelCommit(c) \/ TkTransitionCommit(c)
  PROVE  TkInv'
<1> USE TkAssumption
<1>1. UNCHANGED <<tkTask, tkIng>> /\ tkReq' = [tkReq EXCEPT ![c] = Idle]
  BY DEF TkAbort, TkCancelCommit, TkTransitionCommit
<1>2. tkFire \in [state : FireStates, task : 0 .. TkMax] /\ tkKey \in [TkKeys -> 0 .. TkMax]
      /\ tkReq[c] \in {Idle} \cup Creating \cup Transition \cup Cancelling
  BY TkTypes DEF TkInv
<1>3. /\ tkReq' \in [TkClients -> {Idle} \cup Creating \cup Transition \cup Cancelling]
      /\ TkRequestsKnown'
  <2>1. Idle.op \notin Creates /\ Idle.op # "transition"
    BY DEF Idle, Creates
  <2> QED BY <1>1, <2>1, RequestSet
<1>4. /\ tkKey' \in [TkKeys -> 0 .. TkMax]
      /\ \A k \in TkKeys : tkKey[k] # 0 => tkKey'[k] # 0
  <2>1. CASE TkCancelCommit(c)
    <3>1. tkReq[c].op = "cancel" /\ tkKey' = [tkKey EXCEPT ![tkReq[c].key] = tkReq[c].task]
      BY <2>1 DEF TkCancelCommit, StoreKey
    <3>2. tkReq[c] \in Cancelling
      BY <1>2, <3>1 DEF Idle, Creating, Creates, Transition
    <3>3. tkReq[c].key \in TkKeys /\ tkReq[c].task \in 1 .. TkMax
      BY <3>2 DEF Cancelling, TkIds
    <3> QED BY <1>2, <3>1, <3>3
  <2>2. CASE UNCHANGED tkKey
    BY <1>2, <2>2
  <2> QED BY <2>1, <2>2 DEF TkAbort, TkTransitionCommit
<1>5. /\ tkFire' \in [state : FireStates, task : 0 .. TkMax]
      /\ tkFire'.state # tkFire.state => tkFire'.state \notin Engaged
  <2>1. CASE TkTransitionCommit(c)
    <3>1. tkReq[c].op = "transition" /\ tkFire' = [tkFire EXCEPT !.state = tkReq[c].to]
      BY <2>1 DEF TkTransitionCommit
    <3>2. tkReq[c] \in Transition
      BY <1>2, <3>1 DEF Idle, Creating, Creates, Cancelling
    <3>3. tkReq[c].to \in FireStates \ Engaged
      BY <3>1, <3>2 DEF Transition, TkInv, TkRequestsKnown
    <3> QED BY <1>2, <3>1, <3>3
  <2>2. CASE UNCHANGED tkFire
    BY <1>2, <2>2
  <2> QED BY <2>1, <2>2 DEF TkAbort, TkCancelCommit
<1> QED BY <1>1, <1>3, <1>4, <1>5, RequestKeeps

\* A request creates its task: the key was free, so no row has it.
LEMMA CreateStep ==
  ASSUME TkInv, NEW c \in TkClients, TkCreate(c)
  PROVE  TkInv'
<1> USE TkAssumption
<1> DEFINE r == tkReq[c]
           t == Unused
           new == Row(Commanded[r.op], r.key, Serves(r.op), r.from)
<1>1. /\ tkTask \in [TkIds -> TaskRows] /\ tkFire \in [state : FireStates, task : 0 .. TkMax]
      /\ tkKey \in [TkKeys -> 0 .. TkMax] /\ tkIng \in {Quiet} \cup Handled
      /\ r \in {Idle} \cup Creating \cup Transition \cup Cancelling
  BY TkTypes DEF TkInv
<1>2. r \in Creating /\ r.op \in Creates
  BY <1>1 DEF TkCreate, Idle, Transition, Cancelling, Creates
<1>3. /\ t \in TkIds /\ t \in Nat \ {0} /\ t \notin Rows /\ Rows \cup {t} = 1 .. t
  BY UnusedIsNext DEF TkCreate, TkInv
<1>4. r.from \in Rows \cup {0} /\ r.from \in 0 .. TkMax /\ r.key \in TkKeys
  BY <1>2 DEF TkInv, TkRequestsKnown, Creating
<1>5. Commanded[r.op] \in TaskTypes /\ Serves(r.op) \in BOOLEAN
  BY <1>2 DEF Commanded, TaskTypes, Serves
<1>6. /\ new \in TaskRows /\ new.status = "QUEUED" /\ new.key = r.key
      /\ new.fire = Serves(r.op) /\ new.from = r.from /\ new.resume = "NONE"
  BY <1>4, <1>5, NewRow
<1>7. tkTask' = [u \in TkIds |-> IF u = t THEN new
                                 ELSE IF u = r.from THEN [tkTask[u] EXCEPT !.resume = "CONSUMED_BY_RESUME"]
                                 ELSE tkTask[u]]
  BY DEF TkCreate
<1>8. tkKey[r.key] = 0 /\ tkKey' = [tkKey EXCEPT ![r.key] = t]
  BY DEF TkCreate, KeyIsFree, StoreKey
<1>9. tkReq' = [tkReq EXCEPT ![c] = Idle] /\ tkIng' = tkIng
  BY DEF TkCreate
<1>10. /\ Serves(r.op) => tkFire' = [state |-> Assign(r.seen, "DISPATCHED", tkFire.state), task |-> t]
       /\ ~ Serves(r.op) => tkFire' = tkFire
  BY DEF TkCreate
<1> HIDE DEF r, t, new
<1>11. tkTask'[t] = new
  BY <1>3, <1>7
<1>12. ASSUME NEW u \in TkIds, u # t
       PROVE  /\ tkTask'[u] \in TaskRows /\ tkTask'[u].status = tkTask[u].status
              /\ tkTask'[u].type = tkTask[u].type /\ tkTask'[u].key = tkTask[u].key
              /\ tkTask'[u].fire = tkTask[u].fire /\ tkTask'[u].from = tkTask[u].from
              /\ tkTask'[u].ended = tkTask[u].ended
              /\ \/ tkTask'[u].resume = tkTask[u].resume
                 \/ u = r.from /\ tkTask'[u].resume = "CONSUMED_BY_RESUME"
  BY <1>1, <1>7, <1>12 DEF TaskRows, ResumeStates
<1>13. Rows' = Rows \cup {t}
  BY <1>3, <1>6, <1>11, <1>12 DEF Rows
<1>14. \A u \in Rows : u \in TkIds /\ u # t
  BY <1>3 DEF Rows
<1>15. /\ \A x : (\E u \in Rows : tkTask[u].from = x) => \E u \in Rows' : tkTask'[u].from = x
       /\ (\E u \in Rows : tkTask[u].type = "RETURN_DOCK" /\ tkTask[u].ended)
            => \E u \in Rows' : tkTask'[u].type = "RETURN_DOCK" /\ tkTask'[u].ended
  <2>1. Rows \subseteq Rows'
    BY <1>13
  <2>2. \A u \in Rows : /\ tkTask'[u].type = tkTask[u].type /\ tkTask'[u].from = tkTask[u].from
                        /\ tkTask[u].ended => tkTask'[u].ended
    BY <1>12, <1>14
  <2> QED BY <2>1, <2>2, CausesStay
<1>16. TkTypeOK'
  <2>1. tkTask' \in [TkIds -> TaskRows]
    BY <1>6, <1>7, <1>11, <1>12
  <2>2. tkFire' \in [state : FireStates, task : 0 .. TkMax]
    BY <1>1, <1>3, <1>10 DEF Assign, FireStates, TkIds
  <2>3. tkKey' \in [TkKeys -> 0 .. TkMax]
    BY <1>1, <1>3, <1>4, <1>8 DEF TkIds
  <2>4. tkReq' \in [TkClients -> {Idle} \cup Creating \cup Transition \cup Cancelling]
    BY <1>9, TkTypes DEF TkInv
  <2> QED BY <1>1, <1>9, <2>1, <2>2, <2>3, <2>4, TkTypesNext
<1>17. TkRowsKept'
  <2>1. t \in 0 .. TkMax /\ Rows' = 1 .. t
    BY <1>3, <1>13 DEF TkIds
  <2>2. ASSUME NEW u \in Rows'
        PROVE  tkTask'[u].key \in TkKeys /\ tkKey'[tkTask'[u].key] # 0
    <3>1. CASE u = t
      BY <1>1, <1>3, <1>4, <1>6, <1>8, <1>11, <3>1
    <3>2. CASE u \in Rows
      <4>1. tkTask'[u].key = tkTask[u].key /\ tkTask[u].key \in TkKeys /\ tkKey[tkTask[u].key] # 0
        BY <1>12, <1>14, <3>2 DEF TkInv, TkRowsKept
      <4> QED BY <1>1, <1>3, <1>8, <4>1
    <3> QED BY <1>13, <3>1, <3>2
  <2> QED BY <2>1, <2>2 DEF TkRowsKept
<1>18. TkRequestsKnown'
  <2>1. \A d \in TkClients : tkReq'[d] = Idle \/ tkReq'[d] = tkReq[d]
    BY <1>9, TkTypes DEF TkInv
  <2>2. Idle.op \notin Creates /\ Idle.op # "transition"
    BY DEF Idle, Creates
  <2> QED BY <1>13, <2>1, <2>2 DEF TkInv, TkRequestsKnown
<1>19. /\ t \in Active' /\ tkTask'[t].fire = Serves(r.op)
       /\ \A u \in Active : u \in Active' /\ tkTask'[u].fire = tkTask[u].fire /\ u # t
  BY <1>6, <1>11, <1>12, <1>13, <1>14 DEF Active, ActiveTaskStates
<1>20. TkFireEngaged'
  <2>1. CASE Serves(r.op)
    BY <1>19, <2>1 DEF TkFireEngaged
  <2>2. CASE ~ Serves(r.op)
    BY <1>10, <1>19, <2>2 DEF TkInv, TkFireEngaged
  <2> QED BY <2>1, <2>2
<1>21. TkReportKnown'
  <2> SUFFICES ASSUME tkIng # Quiet
               PROVE  TkReportKnown'
    BY <1>9 DEF TkReportKnown
  <2>1. tkIng.task \in Rows /\ tkIng.task \in Rows' /\ tkIng.task # t
    BY <1>13, <1>14 DEF TkInv, TkReportKnown
  <2>2. /\ tkTask'[tkIng.task].fire = tkTask[tkIng.task].fire
        /\ tkTask'[tkIng.task].type = tkTask[tkIng.task].type
    BY <1>12, <1>14, <2>1
  <2>3. ASSUME tkTask[tkIng.task].fire, tkIng.seen \notin Engaged, tkFire'.state \in Engaged
        PROVE  \E u \in Active' \ {tkIng.task} : tkTask'[u].fire
    <3>1. CASE Serves(r.op)
      BY <1>19, <2>1, <3>1
    <3>2. CASE ~ Serves(r.op)
      <4>1. PICK u \in Active \ {tkIng.task} : tkTask[u].fire
        BY <1>10, <2>3, <3>2 DEF TkInv, TkReportKnown
      <4> QED BY <1>19, <4>1
    <3> QED BY <3>1, <3>2
  <2>4. /\ tkIng.json = "CONSUMED_BY_RESUME" => \E u \in Rows' : tkTask'[u].from = tkIng.task
        /\ tkIng.json = "CONSUMED_BY_RETURN" =>
             \E u \in Rows' : tkTask'[u].type = "RETURN_DOCK" /\ tkTask'[u].ended
        /\ tkIng.prev # 0 => tkIng.to = "SUCCEEDED" /\ tkTask'[tkIng.task].type = "RETURN_DOCK"
    BY <1>15, <2>2 DEF TkInv, TkReportKnown
  <2> QED BY <1>9, <2>1, <2>2, <2>3, <2>4 DEF TkReportKnown
<1>22. TkOneTaskPerKey'
  <2>1. \A u \in Rows : tkTask'[u].key = tkTask[u].key /\ tkTask[u].key # r.key
    BY <1>8, <1>12, <1>14 DEF TkInv, TkRowsKept
  <2> QED BY <1>6, <1>11, <1>13, <2>1 DEF TkInv, TkOneTaskPerKey
<1>23. TkConsumedHasCause'
  <2> SUFFICES ASSUME NEW u \in Rows'
               PROVE  /\ tkTask'[u].resume = "CONSUMED_BY_RESUME" => \E v \in Rows' : tkTask'[v].from = u
                      /\ tkTask'[u].resume = "CONSUMED_BY_RETURN" =>
                           \E v \in Rows' : tkTask'[v].type = "RETURN_DOCK" /\ tkTask'[v].ended
    BY DEF TkConsumedHasCause
  <2>1. CASE u = t
    BY <1>6, <1>11, <2>1
  <2>2. CASE u \in Rows
    <3>1. /\ tkTask[u].resume = "CONSUMED_BY_RESUME" => \E v \in Rows : tkTask[v].from = u
          /\ tkTask[u].resume = "CONSUMED_BY_RETURN" =>
               \E v \in Rows : tkTask[v].type = "RETURN_DOCK" /\ tkTask[v].ended
      BY <2>2 DEF TkInv, TkConsumedHasCause
    <3>2. CASE tkTask'[u].resume = tkTask[u].resume
      BY <1>15, <3>1, <3>2
    <3>3. CASE u = r.from /\ tkTask'[u].resume = "CONSUMED_BY_RESUME"
      BY <1>6, <1>11, <1>13, <3>3
    <3> QED BY <1>12, <1>14, <2>2, <3>2, <3>3
  <2> QED BY <1>13, <2>1, <2>2
<1> QED BY <1>16, <1>17, <1>18, <1>20, <1>21, <1>22, <1>23 DEF TkInv

-----------------------------------------------------------------------------
(* The tasks of a robot: reports                                           *)

\* The ingress reads the row of the task, the fire event and, for a return
\* that ended, the patrol it interrupted.
LEMMA ReportReadStep ==
  ASSUME TkInv, NEW t \in TkIds, NEW to \in Reports, NEW cursor \in BOOLEAN,
         TkReportRead(t, to, cursor)
  PROVE  TkInv'
<1> USE TkAssumption
<1> DEFINE row == tkTask[t]
           json == ResumeAfter(row.type, to, row.cursor \/ cursor, row.resume)
           prev == IF to = "SUCCEEDED" /\ row.type = "RETURN_DOCK" /\ Resumable THEN Interrupted ELSE 0
           seen == IF row.fire THEN tkFire.state ELSE "NEW"
           i == [task |-> t, to |-> to, cursor |-> row.cursor \/ cursor, json |-> json,
                 writes |-> Writes(row, to, cursor), prev |-> prev, seen |-> seen]
<1>1. UNCHANGED <<tkTask, tkFire, tkKey, tkReq>> /\ tkIng' = i /\ t \in Rows
  BY DEF TkReportRead
<1>2. row \in TaskRows /\ tkFire \in [state : FireStates, task : 0 .. TkMax]
  BY TkTypes DEF TkInv
<1>3. json \in ResumeStates /\ json \in {"AVAILABLE", row.resume}
  BY <1>2 DEF ResumeAfter, ResumeStates, TaskRows
<1>4. prev \in 0 .. TkMax /\ (prev # 0 => to = "SUCCEEDED" /\ row.type = "RETURN_DOCK")
  <2>1. Resumable => Interrupted \in 1 .. TkMax
    BY DEF Resumable, Rows, TkIds
  <2> QED BY <2>1
<1>5. seen \in FireStates /\ (row.fire => seen = tkFire.state)
  BY <1>2 DEF FireStates
<1>6. (row.cursor \/ cursor) \in BOOLEAN /\ Writes(row, to, cursor) \in BOOLEAN
  BY <1>2 DEF Writes, TaskRows
<1>7. /\ i \in Handled /\ i.task = t /\ i.to = to /\ i.json = json /\ i.prev = prev
      /\ i.seen = seen
  <2> HIDE DEF json, prev, seen
  <2> QED BY <1>3, <1>4, <1>5, <1>6 DEF Handled
<1> HIDE DEF json, prev, seen, i
<1>8. Rows' = Rows /\ Active' = Active
  BY <1>1 DEF Rows, Active
<1>9. TkTypeOK'
  BY <1>1, <1>7, TkTypes, TkTypesNext DEF TkInv
<1>10. TkReportKnown'
  <2>1. /\ json = "CONSUMED_BY_RESUME" => \E u \in Rows : tkTask[u].from = t
        /\ json = "CONSUMED_BY_RETURN" =>
             \E u \in Rows : tkTask[u].type = "RETURN_DOCK" /\ tkTask[u].ended
    BY <1>1, <1>3 DEF TkInv, TkConsumedHasCause
  <2> QED BY <1>1, <1>4, <1>5, <1>7, <1>8, <2>1 DEF TkReportKnown
<1>11. TkRowsKept' /\ TkRequestsKnown'
  BY <1>1, <1>8 DEF TkInv, TkRowsKept, TkRequestsKnown
<1>12. TkOneTaskPerKey' /\ TkFireEngaged' /\ TkConsumedHasCause'
  BY <1>1, <1>8 DEF TkInv, TkOneTaskPerKey, TkFireEngaged, TkConsumedHasCause
<1> QED BY <1>9, <1>10, <1>11, <1>12 DEF TkInv

\* The report is committed over what requests have committed meanwhile.
LEMMA ReportCommitStep == ASSUME TkInv, TkReportCommit PROVE TkInv'
<1> USE TkAssumption
<1> DEFINE i == tkIng
           t == i.task
           json == IF i.writes THEN i.json ELSE tkTask[t].resume
<1>1. /\ tkTask \in [TkIds -> TaskRows] /\ tkFire \in [state : FireStates, task : 0 .. TkMax]
      /\ tkKey \in [TkKeys -> 0 .. TkMax]
      /\ i \in Handled /\ tkIng # Quiet
  BY TkTypes DEF TkInv, TkReportCommit
<1>2. /\ t \in TkIds /\ t \in Rows /\ tkTask[t] \in TaskRows /\ i.to \in Reports
      /\ i.cursor \in BOOLEAN /\ i.json \in ResumeStates /\ i.writes \in BOOLEAN
  BY <1>1 DEF Handled, TkInv, TkReportKnown
<1>3. UNCHANGED <<tkKey, tkReq>> /\ tkIng' = Quiet
  BY DEF TkReportCommit
<1>4. /\ tkTask[t].fire => tkFire' = [tkFire EXCEPT !.state = Assign(i.seen, FireAfter(i.to), @)]
      /\ ~ tkTask[t].fire => tkFire' = tkFire
  BY DEF TkReportCommit
<1>5. json \in ResumeStates /\ (json = tkTask[t].resume \/ json = i.json)
  BY <1>2 DEF TaskRows
<1>6. /\ tkTask'[t] \in TaskRows /\ tkTask'[t].status = i.to /\ tkTask'[t].resume = json
      /\ tkTask'[t].type = tkTask[t].type /\ tkTask'[t].key = tkTask[t].key
      /\ tkTask'[t].fire = tkTask[t].fire /\ tkTask'[t].from = tkTask[t].from
      /\ tkTask[t].ended \/ i.to \in TerminalStates => tkTask'[t].ended
  <2> DEFINE over == i.to \in TerminalStates
  <2>1. tkTask'[t] = Reported(tkTask[t], i.to, i.cursor, json, over)
    BY <1>2 DEF TkReportCommit, Reported
  <2>2. over \in BOOLEAN /\ (i.to \in TerminalStates => over)
    OBVIOUS
  <2> HIDE DEF i, t, json, over
  <2>3. /\ tkTask'[t] \in TaskRows /\ tkTask'[t].status = i.to /\ tkTask'[t].resume = json
        /\ tkTask'[t].type = tkTask[t].type /\ tkTask'[t].key = tkTask[t].key
        /\ tkTask'[t].fire = tkTask[t].fire /\ tkTask'[t].from = tkTask[t].from
        /\ (tkTask[t].ended \/ over => tkTask'[t].ended)
    BY <1>2, <1>5, <2>1, <2>2, ReportedRow
  <2> QED BY <2>2, <2>3
<1>7. ASSUME NEW u \in TkIds, u # t
      PROVE  /\ tkTask'[u] \in TaskRows /\ tkTask'[u].status = tkTask[u].status
             /\ tkTask'[u].type = tkTask[u].type /\ tkTask'[u].key = tkTask[u].key
             /\ tkTask'[u].fire = tkTask[u].fire /\ tkTask'[u].from = tkTask[u].from
             /\ tkTask'[u].ended = tkTask[u].ended
             /\ \/ tkTask'[u].resume = tkTask[u].resume
                \/ i.prev # 0 /\ tkTask'[u].resume = "CONSUMED_BY_RETURN"
  <2>1. tkTask'[u] = IF u = i.prev THEN [tkTask[u] EXCEPT !.resume = "CONSUMED_BY_RETURN"]
                     ELSE tkTask[u]
    BY <1>7 DEF TkReportCommit
  <2>2. u # 0
    BY DEF TkIds
  <2> HIDE DEF i, t
  <2> QED BY <1>1, <2>1, <2>2 DEF TaskRows, ResumeStates
<1> HIDE DEF json
<1>8. i.to # "NONE" /\ Rows' = Rows
  <2>1. i.to # "NONE"
    BY <1>2 DEF Reports, TerminalStates
  <2>2. \A u \in TkIds : u \in Rows' <=> u \in Rows
    <3> HIDE DEF i
    <3> QED BY <1>2, <1>6, <1>7, <2>1 DEF Rows
  <2> QED BY <2>1, <2>2 DEF Rows
<1>9. \A u \in Rows : /\ u \in TkIds /\ tkTask'[u].type = tkTask[u].type
                      /\ tkTask'[u].key = tkTask[u].key /\ tkTask'[u].fire = tkTask[u].fire
                      /\ tkTask'[u].from = tkTask[u].from
                      /\ tkTask[u].ended => tkTask'[u].ended
  <2> TAKE u \in Rows
  <2>1. u \in TkIds
    BY DEF Rows
  <2>2. CASE u = t
    BY <1>6, <2>1, <2>2
  <2>3. CASE u # t
    BY <1>7, <2>1, <2>3
  <2> QED BY <2>2, <2>3
<1>10. /\ \A x : (\E u \in Rows : tkTask[u].from = x) => \E u \in Rows' : tkTask'[u].from = x
       /\ (\E u \in Rows : tkTask[u].type = "RETURN_DOCK" /\ tkTask[u].ended)
            => \E u \in Rows' : tkTask'[u].type = "RETURN_DOCK" /\ tkTask'[u].ended
  <2>1. Rows \subseteq Rows'
    BY <1>8
  <2>2. \A u \in Rows : /\ tkTask'[u].type = tkTask[u].type /\ tkTask'[u].from = tkTask[u].from
                        /\ tkTask[u].ended => tkTask'[u].ended
    BY <1>9
  <2> QED BY <2>1, <2>2, CausesStay
<1>11. TkTypeOK'
  <2>1. tkTask' \in [TkIds -> TaskRows]
    <3>1. \A u \in TkIds : tkTask'[u] \in TaskRows
      BY <1>6, <1>7
    <3>2. tkTask' = [u \in TkIds |-> tkTask'[u]]
      BY DEF TkReportCommit
    <3> HIDE DEF i, t
    <3> QED BY <3>1, <3>2
  <2>2. tkFire' \in [state : FireStates, task : 0 .. TkMax]
    BY <1>1, <1>4 DEF Assign, FireAfter, FireStates
  <2> QED BY <1>1, <1>3, <2>1, <2>2, TkTypes, TkTypesNext DEF TkInv
<1>12. TkRowsKept' /\ TkRequestsKnown' /\ TkOneTaskPerKey'
  BY <1>3, <1>8, <1>9 DEF TkInv, TkRowsKept, TkRequestsKnown, TkOneTaskPerKey
<1>13. TkReportKnown'
  BY <1>3 DEF TkReportKnown
<1>14. \A u \in Active \ {t} : u \in Active' /\ tkTask'[u].fire = tkTask[u].fire
  <2> TAKE u \in Active \ {t}
  <2>1. u \in Rows /\ u \in TkIds /\ u # t /\ tkTask[u].status \in ActiveTaskStates
    BY DEF Active, Rows
  <2>2. tkTask'[u].status = tkTask[u].status
    BY <1>7, <2>1
  <2> QED BY <1>8, <1>9, <2>1, <2>2 DEF Active
<1>15. TkFireEngaged'
  <2> SUFFICES ASSUME tkFire'.state \in Engaged
               PROVE  \E u \in Active' : tkTask'[u].fire
    BY DEF TkFireEngaged, Engaged
  <2>1. CASE tkTask[t].fire /\ i.to \in {"ACCEPTED", "EXECUTING"}
    <3>1. t \in Active'
      BY <1>2, <1>6, <1>8, <2>1 DEF Active, ActiveTaskStates
    <3> QED BY <1>6, <2>1, <3>1
  <2>2. CASE tkTask[t].fire /\ i.to \notin {"ACCEPTED", "EXECUTING"}
    <3>1. FireAfter(i.to) \in FireStates \ Engaged
      BY <2>2 DEF FireAfter, FireStates, Engaged
    <3>2. tkFire'.state = Assign(i.seen, FireAfter(i.to), tkFire.state)
      BY <1>1, <1>4, <2>2
    <3>3. i.seen \notin Engaged /\ tkFire.state \in Engaged
      BY <3>1, <3>2 DEF Assign
    <3>4. PICK u \in Active \ {t} : tkTask[u].fire
      BY <1>1, <2>2, <3>3 DEF TkInv, TkReportKnown
    <3> QED BY <1>14, <3>4
  <2>3. CASE ~ tkTask[t].fire
    <3>1. PICK u \in Active : tkTask[u].fire
      BY <1>4, <2>3 DEF TkInv, TkFireEngaged, Engaged
    <3>2. u # t
      BY <2>3, <3>1
    <3> QED BY <1>14, <3>1, <3>2
  <2> QED BY <2>1, <2>2, <2>3
<1>16. TkConsumedHasCause'
  <2> SUFFICES ASSUME NEW u \in Rows
               PROVE  /\ tkTask'[u].resume = "CONSUMED_BY_RESUME" => \E v \in Rows' : tkTask'[v].from = u
                      /\ tkTask'[u].resume = "CONSUMED_BY_RETURN" =>
                           \E v \in Rows' : tkTask'[v].type = "RETURN_DOCK" /\ tkTask'[v].ended
    BY <1>8 DEF TkConsumedHasCause
  <2>1. /\ tkTask[u].resume = "CONSUMED_BY_RESUME" => \E v \in Rows : tkTask[v].from = u
        /\ tkTask[u].resume = "CONSUMED_BY_RETURN" =>
             \E v \in Rows : tkTask[v].type = "RETURN_DOCK" /\ tkTask[v].ended
    BY DEF TkInv, TkConsumedHasCause
  <2>2. /\ i.json = "CONSUMED_BY_RESUME" => \E v \in Rows : tkTask[v].from = t
        /\ i.json = "CONSUMED_BY_RETURN" =>
             \E v \in Rows : tkTask[v].type = "RETURN_DOCK" /\ tkTask[v].ended
        /\ i.prev # 0 => i.to = "SUCCEEDED" /\ tkTask[t].type = "RETURN_DOCK"
    BY <1>1 DEF TkInv, TkReportKnown
  <2>3. i.prev # 0 => tkTask'[t].type = "RETURN_DOCK" /\ tkTask'[t].ended
    BY <1>6, <2>2 DEF TerminalStates
  <2>4. CASE u = t
    <3>1. tkTask'[u].resume = tkTask[u].resume \/ tkTask'[u].resume = i.json
      BY <1>5, <1>6, <2>4
    <3> QED BY <1>10, <2>1, <2>2, <2>4, <3>1
  <2>5. CASE u # t
    <3>1. \/ tkTask'[u].resume = tkTask[u].resume
          \/ i.prev # 0 /\ tkTask'[u].resume = "CONSUMED_BY_RETURN"
      BY <1>7, <1>9, <2>5
    <3> QED BY <1>2, <1>8, <1>10, <2>1, <2>3, <3>1
  <2> QED BY <2>4, <2>5
<1> QED BY <1>11, <1>12, <1>13, <1>15, <1>16 DEF TkInv

LEMMA ReportFailsStep == ASSUME TkInv, TkReportFails PROVE TkInv'
<1>1. UNCHANGED <<tkTask, tkFire, tkKey, tkReq>> /\ tkIng' = Quiet
  BY DEF TkReportFails
<1>2. Rows' = Rows /\ Active' = Active
  BY <1>1 DEF Rows, Active
<1>3. TkTypeOK'
  BY <1>1, TkTypes, TkTypesNext DEF TkInv
<1>4. TkRowsKept' /\ TkRequestsKnown' /\ TkReportKnown'
  BY <1>1, <1>2 DEF TkInv, TkRowsKept, TkRequestsKnown, TkReportKnown
<1>5. TkOneTaskPerKey' /\ TkFireEngaged' /\ TkConsumedHasCause'
  BY <1>1, <1>2 DEF TkInv, TkOneTaskPerKey, TkFireEngaged, TkConsumedHasCause
<1> QED BY <1>3, <1>4, <1>5 DEF TkInv

-----------------------------------------------------------------------------

\* The rows, the idempotency records, the open requests and the report that is
\* being handled, whatever order they commit in.
THEOREM TaskInvariance == TkSpec => []TkInv
<1>1. ASSUME TkInv, [TkNext]_tkVars PROVE TkInv'
  <2>1. ASSUME NEW c \in TkClients, TkClient(c) PROVE TkInv'
    <3>1. CASE \/ \E k \in TkKeys : \/ Patrol(c, k) \/ PatrolPlan(c, k) \/ ReturnDock(c, k)
                                    \/ Extinguish(c, k) \/ AlarmCreateTask(c, k)
               \/ \E t \in TkIds, k \in TkKeys : TkCancelRead(c, t, k)
               \/ \E to \in FireStates : TkTransitionRead(c, to)
      BY <1>1, <3>1, OpenStep
    <3>2. CASE TkCreate(c)
      BY <1>1, <3>2, CreateStep
    <3>3. CASE TkAbort(c) \/ TkCancelCommit(c) \/ TkTransitionCommit(c)
      BY <1>1, <3>3, CloseStep
    <3> QED BY <2>1, <3>1, <3>2, <3>3 DEF TkClient
  <2>2. ASSUME NEW t \in TkIds, NEW to \in Reports, NEW cursor \in BOOLEAN,
               TkReportRead(t, to, cursor)
        PROVE  TkInv'
    BY <1>1, <2>2, ReportReadStep
  <2>3. CASE TkReportCommit
    BY <1>1, <2>3, ReportCommitStep
  <2>4. CASE TkReportFails
    BY <1>1, <2>4, ReportFailsStep
  <2>5. CASE UNCHANGED tkVars
    <3>1. UNCHANGED <<tkTask, tkFire, tkKey, tkReq, tkIng>>
      BY <2>5 DEF tkVars
    <3>2. Rows' = Rows /\ Active' = Active
      BY <3>1 DEF Rows, Active
    <3>3. TkTypeOK'
      BY <1>1, <3>1, TkTypes, TkTypesNext DEF TkInv
    <3>4. TkRowsKept' /\ TkRequestsKnown' /\ TkReportKnown'
      BY <1>1, <3>1, <3>2 DEF TkInv, TkRowsKept, TkRequestsKnown, TkReportKnown
    <3>5. TkOneTaskPerKey' /\ TkFireEngaged' /\ TkConsumedHasCause'
      BY <1>1, <3>1, <3>2 DEF TkInv, TkOneTaskPerKey, TkFireEngaged, TkConsumedHasCause
    <3> QED BY <3>3, <3>4, <3>5 DEF TkInv
  <2> QED BY <1>1, <2>1, <2>2, <2>3, <2>4, <2>5 DEF TkNext
<1> QED BY <1>1, TkInitInv, PTL DEF TkSpec

\* Idempotency: a key starts at most one task, also when two requests with it
\* are open at the same time and both found no record.
THEOREM OneTaskPerKey == TkSpec => []TkOneTaskPerKey
<1>1. TkInv => TkOneTaskPerKey
  BY DEF TkInv
<1> QED BY <1>1, TaskInvariance, PTL

\* A fire event is shown as being dealt with only while one of its tasks is
\* active, whatever order requests, transitions and reports commit in.
THEOREM EngagedHasTask == TkSpec => []TkFireEngaged
<1>1. TkInv => TkFireEngaged
  BY DEF TkInv
<1> QED BY <1>1, TaskInvariance, PTL

\* An interrupted patrol loses its resumability only to a patrol that was
\* really created from it, or to a return that really ended.
THEOREM ConsumedHasCause == TkSpec => []TkConsumedHasCause
<1>1. TkInv => TkConsumedHasCause
  BY DEF TkInv
<1> QED BY <1>1, TaskInvariance, PTL
=============================================================================

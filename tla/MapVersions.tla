----------------------------- MODULE MapVersions -----------------------------
(* The versions of one map, their content and the tasks made from them:      *)
(* modules/maps/router.py, the presets and patrol plans of                   *)
(* modules/operations/router.py, target_snapshot of modules/tasks/router.py. *)
(*                                                                         *)
(* Requests run in parallel, each in a transaction (READ COMMITTED, no row   *)
(* locks): it reads and checks the status of a version, and writes at its    *)
(* commit, when the status may be another one. Geometry is left out: each    *)
(* update changes the content of its row.                                    *)
EXTENDS Integers

CONSTANTS
  MvVersions,   \* versions of the map
  MvReleased,   \* the one published by db/seed.py
  MvSlots,      \* parking slots
  MvSeeded,     \* the slot made by db/seed.py
  MvSeedPoints, \* and its points
  MvPoints,     \* inspection and extinguish points, each of a slot
  MvRoutes,     \* trajectories
  MvPresets,    \* navigation presets
  MvClients,    \* requests at the same time
  NoVersion,
  NoSlot,
  MvRequests    \* bound: requests ever made

ASSUME MvAssumption ==
  /\ MvReleased \in MvVersions /\ NoVersion \notin MvVersions
  /\ NoSlot \notin MvSlots /\ MvSeeded \in MvSlots /\ MvSeedPoints \subseteq MvPoints
  /\ MvRequests \in Nat
  /\ MvPresets \cap (MvSlots \cup MvPoints \cup MvRoutes) = {}

VARIABLES
  mvStatus,   \* map_versions.status
  mvActive,   \* maps.active_version_id
  mvRow,      \* the rows of each table, by id
  mvTasks,    \* versions of the snapshots in tasks, with their target
  mvPlans,    \* patrol_plans with a preset each
  mvReq,      \* what a request has checked and will write
  mvMade,     \* requests made
  mvTouched   \* versions whose content changed after they were released

mvVars == <<mvStatus, mvActive, mvRow, mvTasks, mvPlans, mvReq, mvMade, mvTouched>>

VersionStatuses == {"NONE", "DRAFT", "PUBLISHED", "ARCHIVED"}
ReleasedStatuses == {"PUBLISHED", "ARCHIVED"}
MapRows == MvSlots \cup MvPoints \cup MvRoutes \cup MvPresets
RowAt(v, s) == [ver |-> v, slot |-> s]
NoMapRow == RowAt(NoVersion, NoSlot)
MvRowSet == [ver : MvVersions \cup {NoVersion}, slot : MvSlots \cup {NoSlot}]
RowExists(r) == mvRow[r].ver # NoVersion
SlotExists(s) == s # NoSlot => RowExists(s)
NoRequest == [op |-> "idle"]

MvTypeOK ==
  /\ mvStatus \in [MvVersions -> VersionStatuses]
  /\ mvActive \in MvVersions
  /\ mvRow \in [MapRows -> MvRowSet]
  /\ mvTasks \subseteq [ver : MvVersions, slot : MvSlots]
  /\ mvPlans \subseteq [ver : MvVersions, preset : MvPresets]
  /\ mvReq \in [MvClients -> {NoRequest}
        \cup [op : {"publish", "archive"}, ver : MvVersions]
        \cup [op : {"create"}, row : MapRows, to : MvRowSet]
        \cup [op : {"update"}, row : MapRows, was : MvRowSet, to : MvRowSet]
        \cup [op : {"delete"}, row : MvSlots]
        \cup [op : {"task"}, ver : MvVersions, slot : MvSlots]
        \cup [op : {"plan"}, ver : MvVersions, preset : MvPresets]]
  /\ mvMade \in 0 .. MvRequests
  /\ mvTouched \subseteq MvVersions

\* seed.py: one published version with its slots and points.
MvInit ==
  /\ mvStatus = [v \in MvVersions |-> IF v = MvReleased THEN "PUBLISHED" ELSE "NONE"]
  /\ mvActive = MvReleased
  /\ mvRow = [r \in MapRows |-> IF r = MvSeeded THEN RowAt(MvReleased, NoSlot)
                               ELSE IF r \in MvSeedPoints THEN RowAt(MvReleased, MvSeeded)
                               ELSE NoMapRow]
  /\ mvTasks = {} /\ mvPlans = {} /\ mvTouched = {} /\ mvMade = 0
  /\ mvReq = [c \in MvClients |-> NoRequest]

-----------------------------------------------------------------------------
(* The reads and checks of a request                                       *)

CheckedRequest(c, request) ==
  /\ mvReq[c] = NoRequest
  /\ mvMade < MvRequests
  /\ mvMade' = mvMade + 1
  /\ mvReq' = [mvReq EXCEPT ![c] = request]
  /\ UNCHANGED <<mvStatus, mvActive, mvRow, mvTasks, mvPlans, mvTouched>>

IsDraft(v) == mvStatus[v] = "DRAFT"
HasSlot(v) == \E s \in MvSlots : mvRow[s].ver = v

PublishVersion(c, v) == IsDraft(v) /\ HasSlot(v) /\ CheckedRequest(c, [op |-> "publish", ver |-> v])

ArchiveVersion(c, v) == mvStatus[v] = "PUBLISHED" /\ CheckedRequest(c, [op |-> "archive", ver |-> v])

\* The id is a fresh uuid: nobody else creates the row.
CreateRow(c, r, v, s) ==
  /\ ~RowExists(r)
  /\ \A d \in MvClients : mvReq[d].op = "create" => mvReq[d].row # r
  /\ IsDraft(v)
  /\ CheckedRequest(c, [op |-> "create", row |-> r, to |-> RowAt(v, s)])

\* The check is of the version the row has, not of the one the payload names.
UpdateRow(c, r, v, s) ==
  /\ RowExists(r)
  /\ IsDraft(mvRow[r].ver)
  /\ CheckedRequest(c, [op |-> "update", row |-> r, was |-> mvRow[r], to |-> RowAt(v, s)])

CreateSlot(c, r, v) == r \in MvSlots /\ CreateRow(c, r, v, NoSlot)
UpdateSlot(c, r, v) == r \in MvSlots /\ UpdateRow(c, r, v, NoSlot)
CreatePoint(c, r, v, s) == r \in MvPoints /\ CreateRow(c, r, v, s)
UpdatePoint(c, r, v, s) == r \in MvPoints /\ UpdateRow(c, r, v, s)
CreateTrajectory(c, r, v) == r \in MvRoutes /\ CreateRow(c, r, v, NoSlot)
UpdateTrajectory(c, r, v) == r \in MvRoutes /\ UpdateRow(c, r, v, NoSlot)
CreatePreset(c, r, v) == r \in MvPresets /\ CreateRow(c, r, v, NoSlot)

DeleteSlot(c, s) ==
  /\ RowExists(s)
  /\ IsDraft(mvRow[s].ver)
  /\ CheckedRequest(c, [op |-> "delete", row |-> s])

\* As it would be if a version were usable until it is archived.
IsUsableUnlessArchived(v) == mvStatus[v] # "ARCHIVED"

IsUsable(v) == mvStatus[v] = "PUBLISHED"

\* target_snapshot of an extinguishing task: the operation point is found by
\* its slot alone, whatever version it belongs to.
TargetSnapshot(c, s) ==
  /\ RowExists(s)
  /\ IsUsable(mvRow[s].ver)
  /\ \E p \in MvPoints : mvRow[p].slot = s
  /\ CheckedRequest(c, [op |-> "task", ver |-> mvRow[s].ver, slot |-> s])

\* A plan may be made for a version of any status.
CreatePlan(c, v, p) ==
  /\ mvStatus[v] # "NONE"
  /\ mvRow[p].ver = v
  /\ CheckedRequest(c, [op |-> "plan", ver |-> v, preset |-> p])

-----------------------------------------------------------------------------
(* The commits                                                             *)

CommitOf(c, op) == mvReq[c].op = op /\ mvReq' = [mvReq EXCEPT ![c] = NoRequest]
Touches(vs) == mvTouched' = mvTouched \cup {v \in MvVersions \cap vs : mvStatus[v] \in ReleasedStatuses}

\* One transaction: the insert checks nothing.
CreateVersion(v) ==
  /\ mvStatus[v] = "NONE"
  /\ mvStatus' = [mvStatus EXCEPT ![v] = "DRAFT"]
  /\ UNCHANGED <<mvActive, mvRow, mvTasks, mvPlans, mvReq, mvMade, mvTouched>>

PublishCommit(c) ==
  /\ CommitOf(c, "publish")
  /\ mvStatus' = [mvStatus EXCEPT ![mvReq[c].ver] = "PUBLISHED"]
  /\ mvActive' = mvReq[c].ver
  /\ UNCHANGED <<mvRow, mvTasks, mvPlans, mvMade, mvTouched>>

\* active_version_id stays.
ArchiveCommit(c) ==
  /\ CommitOf(c, "archive")
  /\ mvStatus' = [mvStatus EXCEPT ![mvReq[c].ver] = "ARCHIVED"]
  /\ UNCHANGED <<mvActive, mvRow, mvTasks, mvPlans, mvMade, mvTouched>>

\* The slot a point names must exist.
WriteRow(r, row) ==
  /\ SlotExists(row.slot)
  /\ mvRow' = [mvRow EXCEPT ![r] = row]
  /\ Touches({row.ver, mvRow[r].ver})
  /\ UNCHANGED <<mvStatus, mvActive, mvTasks, mvPlans, mvMade>>

CommitCreate(c) == CommitOf(c, "create") /\ WriteRow(mvReq[c].row, mvReq[c].to)

\* The row must still be there; columns that are what was read are not written.
CommitUpdate(c) ==
  LET was == mvReq[c].was  to == mvReq[c].to  now == mvRow[mvReq[c].row] IN
  /\ CommitOf(c, "update")
  /\ RowExists(mvReq[c].row)
  /\ WriteRow(mvReq[c].row, RowAt(IF to.ver = was.ver THEN now.ver ELSE to.ver,
                               IF to.slot = was.slot THEN now.slot ELSE to.slot))

\* The points of the slot go with it; a task that refers to it forbids it.
CommitDelete(c) ==
  LET s == mvReq[c].row IN
  /\ CommitOf(c, "delete")
  /\ \A t \in mvTasks : t.slot # s
  /\ mvRow' = [r \in MapRows |-> IF r = s \/ (r \in MvPoints /\ mvRow[r].slot = s)
                                  THEN NoMapRow ELSE mvRow[r]]
  /\ Touches({mvRow[s].ver})
  /\ UNCHANGED <<mvStatus, mvActive, mvTasks, mvPlans, mvMade>>

CommitTask(c) ==
  /\ CommitOf(c, "task")
  /\ RowExists(mvReq[c].slot)
  /\ mvTasks' = mvTasks \cup {[ver |-> mvReq[c].ver, slot |-> mvReq[c].slot]}
  /\ UNCHANGED <<mvStatus, mvActive, mvRow, mvPlans, mvMade, mvTouched>>

CommitPlan(c) ==
  /\ CommitOf(c, "plan")
  /\ mvPlans' = mvPlans \cup {[ver |-> mvReq[c].ver, preset |-> mvReq[c].preset]}
  /\ UNCHANGED <<mvStatus, mvActive, mvRow, mvTasks, mvMade, mvTouched>>

\* The commit raises (a foreign key, a row that is gone, the connection) or
\* the request is abandoned.
MvFail(c) ==
  /\ mvReq[c] # NoRequest
  /\ mvReq' = [mvReq EXCEPT ![c] = NoRequest]
  /\ UNCHANGED <<mvStatus, mvActive, mvRow, mvTasks, mvPlans, mvMade, mvTouched>>

MvNext ==
  \/ \E v \in MvVersions : CreateVersion(v)
  \/ \E c \in MvClients :
       \/ \E v \in MvVersions :
            \/ PublishVersion(c, v) \/ ArchiveVersion(c, v)
            \/ \E r \in MvSlots : CreateSlot(c, r, v) \/ UpdateSlot(c, r, v)
            \/ \E r \in MvPoints, s \in MvSlots : CreatePoint(c, r, v, s) \/ UpdatePoint(c, r, v, s)
            \/ \E r \in MvRoutes : CreateTrajectory(c, r, v) \/ UpdateTrajectory(c, r, v)
            \/ \E r \in MvPresets : CreatePreset(c, r, v) \/ CreatePlan(c, v, r)
       \/ \E s \in MvSlots : DeleteSlot(c, s) \/ TargetSnapshot(c, s)
       \/ PublishCommit(c) \/ ArchiveCommit(c)
       \/ CommitCreate(c) \/ CommitUpdate(c) \/ CommitDelete(c)
       \/ CommitTask(c) \/ CommitPlan(c) \/ MvFail(c)

MvSpec == MvInit /\ [][MvNext]_mvVars

-----------------------------------------------------------------------------
(* Properties                                                              *)

\* Nothing that robots work from is a draft, although every check is made
\* before its commit: neither the active version, which is read without a look
\* at its status (robots and system routers, ingress), nor the version of a
\* task's snapshot; and the presets of a plan belong to the plan's version.
MvNoDraftInUse ==
  /\ mvStatus[mvActive] \in ReleasedStatuses
  /\ \A t \in mvTasks : mvStatus[t.ver] \in ReleasedStatuses
  /\ \A p \in mvPlans : mvRow[p.preset].ver = p.ver

\* A released version is never changed in place (maps/router.py:71). An edit
\* can be checked while its version is a draft and committed after the
\* publication, or move a row of a draft into a released version.
MvFrozen == mvTouched = {}

-----------------------------------------------------------------------------
(* The inductive strengthening: what an open request knows about the rows  *)
(* and versions it will write.                                             *)

\* What was released stays so, the presets of a plan are not edited, and
\* nobody else makes the row of a creation.
MvReqInv ==
  \A c \in MvClients :
    /\ mvReq[c].op = "task" => mvStatus[mvReq[c].ver] \in ReleasedStatuses
    /\ mvReq[c].op = "plan" => mvRow[mvReq[c].preset].ver = mvReq[c].ver
    /\ mvReq[c].op = "update" => mvReq[c].row \notin MvPresets
    /\ mvReq[c].op = "create" =>
         /\ ~ RowExists(mvReq[c].row)
         /\ \A d \in MvClients \ {c} : mvReq[d].op = "create" => mvReq[d].row # mvReq[c].row

MvInv == MvTypeOK /\ MvReqInv /\ MvNoDraftInUse
=============================================================================

-------------------------- MODULE MapVersionsProofs --------------------------
(***************************************************************************)
(* Proofs about MapVersions: no interleaving of edits, publications and    *)
(* uses lets robots work from a draft.                                     *)
(***************************************************************************)
EXTENDS MapVersions, TLAPS

\* The seeded map satisfies the inductive invariant.
LEMMA MvInitInv == MvInit => MvInv
<1> SUFFICES ASSUME MvInit PROVE MvInv
  OBVIOUS
<1> USE MvAssumption DEF MvInit
<1>1. mvStatus \in [MvVersions -> VersionStatuses] /\ mvStatus[mvActive] \in ReleasedStatuses
  BY DEF VersionStatuses, ReleasedStatuses
<1>2. mvRow \in [MapRows -> MvRowSet]
  BY DEF MapRows, MvRowSet, RowAt, NoMapRow
<1>3. \A c \in MvClients : mvReq[c] = NoRequest
  OBVIOUS
<1>4. MvTypeOK
  BY <1>1, <1>2 DEF MvTypeOK
<1>5. MvReqInv
  BY <1>3 DEF MvReqInv, NoRequest
<1> QED BY <1>1, <1>4, <1>5 DEF MvInv, MvNoDraftInUse

\* A request that has passed its checks keeps the invariant, if what it will
\* write is well typed and knows what MvReqInv says of it.
LEMMA CheckedKeepsInv ==
  ASSUME MvInv, NEW c \in MvClients, NEW request, CheckedRequest(c, request),
         MvTypeOK', MvReqInv'
  PROVE  MvInv'
  BY DEF MvInv, MvNoDraftInUse, CheckedRequest

\* The checks of publication and archiving.
LEMMA CheckedVersions ==
  ASSUME MvInv, NEW c \in MvClients, NEW v \in MvVersions,
         PublishVersion(c, v) \/ ArchiveVersion(c, v)
  PROVE  MvInv'
<1>1. PICK o \in {"publish", "archive"} : CheckedRequest(c, [op |-> o, ver |-> v])
  BY DEF PublishVersion, ArchiveVersion
<1>2. MvTypeOK'
  BY <1>1, MvAssumption DEF MvInv, MvTypeOK, CheckedRequest
<1>3. MvReqInv'
  BY <1>1 DEF MvInv, MvTypeOK, MvReqInv, CheckedRequest, RowExists
<1> QED BY <1>1, <1>2, <1>3, CheckedKeepsInv

\* The check of a creation: the id is fresh, the version a draft.
LEMMA CheckedCreate ==
  ASSUME MvInv, NEW c \in MvClients, NEW r \in MapRows, NEW v \in MvVersions,
         NEW s \in MvSlots \cup {NoSlot}, CreateRow(c, r, v, s)
  PROVE  MvInv'
<1>1. CheckedRequest(c, [op |-> "create", row |-> r, to |-> RowAt(v, s)])
  BY DEF CreateRow
<1>2. MvTypeOK'
  BY <1>1, MvAssumption DEF MvInv, MvTypeOK, CheckedRequest, MvRowSet, RowAt
<1>3. ~ RowExists(r) /\ \A d \in MvClients : mvReq[d].op = "create" => mvReq[d].row # r
  BY DEF CreateRow
<1>4. MvReqInv'
  BY <1>1, <1>3 DEF MvInv, MvTypeOK, MvReqInv, CheckedRequest, RowExists
<1> QED BY <1>1, <1>2, <1>4, CheckedKeepsInv

\* The check of an update: of a slot, a point or a trajectory.
LEMMA CheckedUpdate ==
  ASSUME MvInv, NEW c \in MvClients, NEW r \in MapRows \ MvPresets, NEW v \in MvVersions,
         NEW s \in MvSlots \cup {NoSlot}, UpdateRow(c, r, v, s)
  PROVE  MvInv'
<1>1. CheckedRequest(c, [op |-> "update", row |-> r, was |-> mvRow[r], to |-> RowAt(v, s)])
  BY DEF UpdateRow
<1>2. mvRow[r] \in MvRowSet /\ RowAt(v, s) \in MvRowSet
  BY DEF MvInv, MvTypeOK, MvRowSet, RowAt
<1>3. MvTypeOK'
  BY <1>1, <1>2, MvAssumption DEF MvInv, MvTypeOK, CheckedRequest
<1>4. MvReqInv'
  BY <1>1 DEF MvInv, MvTypeOK, MvReqInv, CheckedRequest, RowExists
<1> QED BY <1>1, <1>3, <1>4, CheckedKeepsInv

\* The checks of a deletion, a target snapshot and a plan.
LEMMA CheckedUses ==
  ASSUME MvInv, NEW c \in MvClients,
         \/ \E s \in MvSlots : DeleteSlot(c, s) \/ TargetSnapshot(c, s)
         \/ \E v \in MvVersions, p \in MvPresets : CreatePlan(c, v, p)
  PROVE  MvInv'
<1>1. ASSUME NEW s \in MvSlots, DeleteSlot(c, s) PROVE MvInv'
  <2>1. CheckedRequest(c, [op |-> "delete", row |-> s])
    BY <1>1 DEF DeleteSlot
  <2>2. MvTypeOK'
    BY <2>1, MvAssumption DEF MvInv, MvTypeOK, CheckedRequest
  <2>3. MvReqInv'
    BY <2>1 DEF MvInv, MvTypeOK, MvReqInv, CheckedRequest, RowExists
  <2> QED BY <2>1, <2>2, <2>3, CheckedKeepsInv
<1>2. ASSUME NEW s \in MvSlots, TargetSnapshot(c, s) PROVE MvInv'
  <2>1. CheckedRequest(c, [op |-> "task", ver |-> mvRow[s].ver, slot |-> s])
    BY <1>2 DEF TargetSnapshot
  <2>2. mvRow[s].ver \in MvVersions /\ mvStatus[mvRow[s].ver] = "PUBLISHED"
    BY <1>2 DEF TargetSnapshot, RowExists, IsUsable, MvInv, MvTypeOK, MvRowSet, MapRows
  <2>3. MvTypeOK'
    BY <2>1, <2>2, MvAssumption DEF MvInv, MvTypeOK, CheckedRequest
  <2>4. MvReqInv'
    BY <2>1, <2>2 DEF MvInv, MvTypeOK, MvReqInv, CheckedRequest, RowExists, ReleasedStatuses
  <2> QED BY <2>1, <2>3, <2>4, CheckedKeepsInv
<1>3. ASSUME NEW v \in MvVersions, NEW p \in MvPresets, CreatePlan(c, v, p) PROVE MvInv'
  <2>1. CheckedRequest(c, [op |-> "plan", ver |-> v, preset |-> p])
    BY <1>3 DEF CreatePlan
  <2>2. MvTypeOK'
    BY <2>1, MvAssumption DEF MvInv, MvTypeOK, CheckedRequest
  <2>3. MvReqInv'
    BY <1>3, <2>1 DEF MvInv, MvTypeOK, MvReqInv, CheckedRequest, RowExists, CreatePlan
  <2> QED BY <2>1, <2>2, <2>3, CheckedKeepsInv
<1> QED BY <1>1, <1>2, <1>3

\* A commit that changes no request but its own, and whose statuses and rows
\* respect the others, keeps what they know.
LEMMA CommitKeepsReqInv ==
  ASSUME MvInv, NEW c \in MvClients, mvReq' = [mvReq EXCEPT ![c] = NoRequest],
         \A v \in MvVersions : mvStatus[v] \in ReleasedStatuses => mvStatus'[v] \in ReleasedStatuses,
         \A p \in MvPresets : mvRow[p].ver # NoVersion => mvRow'[p].ver = mvRow[p].ver,
         \A d \in MvClients \ {c} : mvReq[d].op = "create" /\ mvRow[mvReq[d].row].ver = NoVersion
                                    => mvRow'[mvReq[d].row].ver = NoVersion
  PROVE  MvReqInv'
<1> SUFFICES ASSUME NEW d \in MvClients, d # c, mvReq'[d] = mvReq[d]
             PROVE  MvReqInv!(d)'
  BY DEF MvReqInv, NoRequest, MvInv, MvTypeOK
<1>1. mvReq[d].op = "task" => mvReq[d].ver \in MvVersions
  BY DEF MvInv, MvTypeOK, NoRequest
<1>2. mvReq[d].op = "plan" => mvReq[d].ver \in MvVersions /\ mvReq[d].preset \in MvPresets
  BY DEF MvInv, MvTypeOK, NoRequest
<1>3. mvReq[d].op = "task" => mvStatus'[mvReq'[d].ver] \in ReleasedStatuses
  BY <1>1 DEF MvInv, MvReqInv
<1>4. mvReq[d].op = "plan" => mvRow'[mvReq'[d].preset].ver = mvReq'[d].ver
  BY <1>2, MvAssumption DEF MvInv, MvReqInv
<1>5. mvReq[d].op = "create" => mvRow'[mvReq'[d].row].ver = NoVersion
  BY DEF MvInv, MvReqInv, RowExists
<1>6. mvReq[d].op = "create" =>
        \A e \in MvClients \ {d} : mvReq'[e].op = "create" => mvReq'[e].row # mvReq'[d].row
  BY DEF MvInv, MvReqInv, MvTypeOK, NoRequest
<1> QED BY <1>3, <1>4, <1>5, <1>6 DEF MvInv, MvReqInv, RowExists

\* The commits that change a status.
LEMMA StatusCommits ==
  ASSUME MvInv, \/ \E v \in MvVersions : CreateVersion(v)
                \/ \E c \in MvClients : PublishCommit(c) \/ ArchiveCommit(c)
  PROVE  MvInv'
<1>1. ASSUME NEW v \in MvVersions, CreateVersion(v) PROVE MvInv'
  <2>1. MvTypeOK'
    BY <1>1 DEF CreateVersion, MvInv, MvTypeOK, VersionStatuses
  <2>2. \A w \in MvVersions : mvStatus[w] \in ReleasedStatuses => mvStatus'[w] \in ReleasedStatuses
    BY <1>1 DEF CreateVersion, MvInv, MvTypeOK, ReleasedStatuses
  <2>3. \A c \in MvClients : mvReq[c].op = "task" => mvReq[c].ver \in MvVersions
    BY DEF MvInv, MvTypeOK, NoRequest
  <2>4. MvReqInv'
    BY <1>1, <2>2, <2>3 DEF CreateVersion, MvInv, MvReqInv, RowExists
  <2>5. MvNoDraftInUse'
    BY <1>1, <2>2 DEF CreateVersion, MvInv, MvTypeOK, MvNoDraftInUse
  <2> QED BY <2>1, <2>4, <2>5 DEF MvInv
<1>2. ASSUME NEW c \in MvClients, PublishCommit(c) PROVE MvInv'
  <2>1. mvReq[c].ver \in MvVersions
    BY <1>2 DEF PublishCommit, CommitOf, MvInv, MvTypeOK, NoRequest
  <2>2. MvTypeOK'
    BY <1>2, <2>1 DEF PublishCommit, CommitOf, MvInv, MvTypeOK, VersionStatuses
  <2>3. \A w \in MvVersions : mvStatus[w] \in ReleasedStatuses => mvStatus'[w] \in ReleasedStatuses
    BY <1>2 DEF PublishCommit, MvInv, MvTypeOK, ReleasedStatuses
  <2>4. MvReqInv'
    BY <1>2, <2>3, CommitKeepsReqInv DEF PublishCommit, CommitOf
  <2>5. MvNoDraftInUse'
    BY <1>2, <2>1, <2>3 DEF PublishCommit, MvInv, MvTypeOK, MvNoDraftInUse, ReleasedStatuses
  <2> QED BY <2>2, <2>4, <2>5 DEF MvInv
<1>3. ASSUME NEW c \in MvClients, ArchiveCommit(c) PROVE MvInv'
  <2>1. mvReq[c].ver \in MvVersions
    BY <1>3 DEF ArchiveCommit, CommitOf, MvInv, MvTypeOK, NoRequest
  <2>2. MvTypeOK'
    BY <1>3, <2>1 DEF ArchiveCommit, CommitOf, MvInv, MvTypeOK, VersionStatuses
  <2>3. \A w \in MvVersions : mvStatus[w] \in ReleasedStatuses => mvStatus'[w] \in ReleasedStatuses
    BY <1>3 DEF ArchiveCommit, MvInv, MvTypeOK, ReleasedStatuses
  <2>4. MvReqInv'
    BY <1>3, <2>3, CommitKeepsReqInv DEF ArchiveCommit, CommitOf
  <2>5. MvNoDraftInUse'
    BY <1>3, <2>3 DEF ArchiveCommit, MvInv, MvTypeOK, MvNoDraftInUse
  <2> QED BY <2>2, <2>4, <2>5 DEF MvInv
<1> QED BY <1>1, <1>2, <1>3

\* The commits of a creation and of an update: the first writes a row that was
\* not there, the second no preset and no row that is gone.
LEMMA RowCommits ==
  ASSUME MvInv, NEW c \in MvClients, CommitCreate(c) \/ CommitUpdate(c)
  PROVE  MvInv'
<1> DEFINE r == mvReq[c].row
<1>1. PICK row \in MvRowSet : /\ r \in MapRows /\ WriteRow(r, row)
                             /\ mvReq' = [mvReq EXCEPT ![c] = NoRequest]
                             /\ \/ mvReq[c].op = "create"
                                \/ mvReq[c].op = "update" /\ RowExists(r)
  <2>1. CASE CommitCreate(c)
    <3>1. mvReq[c].to \in MvRowSet /\ r \in MapRows
      BY <2>1 DEF CommitCreate, CommitOf, MvInv, MvTypeOK, NoRequest
    <3> QED BY <2>1, <3>1 DEF CommitCreate, CommitOf
  <2>2. CASE CommitUpdate(c)
    <3>1. mvReq[c].to \in MvRowSet /\ mvReq[c].was \in MvRowSet /\ r \in MapRows
      BY <2>2 DEF CommitUpdate, CommitOf, MvInv, MvTypeOK, NoRequest
    <3>2. mvRow[r] \in MvRowSet
      BY <3>1 DEF MvInv, MvTypeOK
    <3>3. RowAt(IF mvReq[c].to.ver = mvReq[c].was.ver THEN mvRow[r].ver ELSE mvReq[c].to.ver,
                IF mvReq[c].to.slot = mvReq[c].was.slot THEN mvRow[r].slot ELSE mvReq[c].to.slot)
            \in MvRowSet
      BY <3>1, <3>2 DEF MvRowSet, RowAt
    <3> QED BY <2>2, <3>1, <3>3 DEF CommitUpdate, CommitOf
  <2> QED BY <2>1, <2>2
<1>2. mvRow' = [mvRow EXCEPT ![r] = row] /\ UNCHANGED <<mvStatus, mvActive, mvTasks, mvPlans, mvMade>>
  BY <1>1 DEF WriteRow
<1>3. mvTouched' \subseteq MvVersions
  BY <1>1 DEF WriteRow, Touches, MvInv, MvTypeOK
<1>4. MvTypeOK'
  BY <1>1, <1>2, <1>3 DEF MvInv, MvTypeOK
<1>5. \A p \in MvPresets : mvRow[p].ver # NoVersion => mvRow'[p].ver = mvRow[p].ver
  <2>1. mvReq[c].op = "create" => mvRow[r].ver = NoVersion
    BY DEF MvInv, MvReqInv, RowExists
  <2>2. mvReq[c].op = "update" => r \notin MvPresets
    BY DEF MvInv, MvReqInv
  <2> QED BY <1>1, <1>2, <2>1, <2>2 DEF MvInv, MvTypeOK, MapRows
<1>6. ASSUME NEW d \in MvClients \ {c}, mvReq[d].op = "create", mvRow[mvReq[d].row].ver = NoVersion
      PROVE  mvRow'[mvReq[d].row].ver = NoVersion
  <2>1. mvReq[d].row \in MapRows
    BY <1>6 DEF MvInv, MvTypeOK, NoRequest
  <2>2. mvReq[d].row # r
    BY <1>1, <1>6 DEF MvInv, MvReqInv, RowExists
  <2> QED BY <1>2, <1>6, <2>1, <2>2 DEF MvInv, MvTypeOK
<1>7. MvReqInv'
  BY <1>1, <1>2, <1>5, <1>6, CommitKeepsReqInv
<1>8. MvNoDraftInUse'
  <2>1. \A p \in mvPlans : p.preset \in MvPresets /\ p.ver \in MvVersions
    BY DEF MvInv, MvTypeOK
  <2> QED BY <1>2, <1>5, <2>1, MvAssumption DEF MvInv, MvNoDraftInUse
<1> QED BY <1>4, <1>7, <1>8 DEF MvInv

\* The commit of a deletion: slots and points, of which no plan has any.
LEMMA DeleteCommits ==
  ASSUME MvInv, NEW c \in MvClients, CommitDelete(c)
  PROVE  MvInv'
<1>1. mvReq' = [mvReq EXCEPT ![c] = NoRequest]
      /\ UNCHANGED <<mvStatus, mvActive, mvTasks, mvPlans, mvMade>>
  BY DEF CommitDelete, CommitOf
<1>2. mvReq[c].row \in MvSlots
  BY DEF CommitDelete, CommitOf, MvInv, MvTypeOK, NoRequest
<1>3. mvRow' \in [MapRows -> MvRowSet] /\ mvTouched' \subseteq MvVersions
  BY DEF CommitDelete, Touches, NoMapRow, RowAt, MvRowSet, MvInv, MvTypeOK
<1>4. MvTypeOK'
  BY <1>1, <1>3 DEF MvInv, MvTypeOK
<1>5. \A p \in MvPresets : mvRow'[p] = mvRow[p]
  BY <1>2, MvAssumption DEF CommitDelete, MapRows
<1>6. \A q \in MapRows : mvRow[q].ver = NoVersion => mvRow'[q].ver = NoVersion
  BY DEF CommitDelete, NoMapRow, RowAt
<1>7. \A d \in MvClients : mvReq[d].op = "create" => mvReq[d].row \in MapRows
  BY DEF MvInv, MvTypeOK, NoRequest
<1>8. MvReqInv'
  BY <1>1, <1>5, <1>6, <1>7, CommitKeepsReqInv
<1>9. MvNoDraftInUse'
  BY <1>1, <1>5 DEF MvInv, MvTypeOK, MvNoDraftInUse
<1> QED BY <1>4, <1>8, <1>9 DEF MvInv

\* The commits of a task and of a plan, and requests that fail.
LEMMA UseCommits ==
  ASSUME MvInv, NEW c \in MvClients, CommitTask(c) \/ CommitPlan(c) \/ MvFail(c)
  PROVE  MvInv'
<1>1. mvReq' = [mvReq EXCEPT ![c] = NoRequest]
      /\ UNCHANGED <<mvStatus, mvActive, mvRow, mvMade, mvTouched>>
  BY DEF CommitTask, CommitPlan, MvFail, CommitOf
<1>2. MvReqInv'
  BY <1>1, CommitKeepsReqInv
<1>3. CASE CommitTask(c)
  <2>1. mvReq[c].ver \in MvVersions /\ mvReq[c].slot \in MvSlots
    BY <1>3 DEF CommitTask, CommitOf, MvInv, MvTypeOK, NoRequest
  <2>2. MvTypeOK'
    BY <1>1, <1>3, <2>1 DEF CommitTask, MvInv, MvTypeOK
  <2>3. mvStatus[mvReq[c].ver] \in ReleasedStatuses
    BY <1>3 DEF CommitTask, CommitOf, MvInv, MvReqInv
  <2>4. MvNoDraftInUse'
    BY <1>1, <1>3, <2>3 DEF CommitTask, MvInv, MvNoDraftInUse
  <2> QED BY <1>2, <2>2, <2>4 DEF MvInv
<1>4. CASE CommitPlan(c)
  <2>1. mvReq[c].ver \in MvVersions /\ mvReq[c].preset \in MvPresets
    BY <1>4 DEF CommitPlan, CommitOf, MvInv, MvTypeOK, NoRequest
  <2>2. MvTypeOK'
    BY <1>1, <1>4, <2>1 DEF CommitPlan, MvInv, MvTypeOK
  <2>3. mvRow[mvReq[c].preset].ver = mvReq[c].ver
    BY <1>4 DEF CommitPlan, CommitOf, MvInv, MvReqInv
  <2>4. MvNoDraftInUse'
    BY <1>1, <1>4, <2>3 DEF CommitPlan, MvInv, MvNoDraftInUse
  <2> QED BY <1>2, <2>2, <2>4 DEF MvInv
<1>5. CASE MvFail(c)
  <2>1. UNCHANGED <<mvTasks, mvPlans>>
    BY <1>5 DEF MvFail
  <2>2. MvTypeOK' /\ MvNoDraftInUse'
    BY <1>1, <2>1 DEF MvInv, MvTypeOK, MvNoDraftInUse
  <2> QED BY <1>2, <2>2 DEF MvInv
<1> QED BY <1>3, <1>4, <1>5

\* The invariant holds however the requests interleave.
THEOREM MapInvariance == MvSpec => []MvInv
<1>1. MvInv /\ [MvNext]_mvVars => MvInv'
  <2> SUFFICES ASSUME MvInv, [MvNext]_mvVars PROVE MvInv'
    OBVIOUS
  <2>1. CASE UNCHANGED mvVars
    BY <2>1 DEF mvVars, MvInv, MvTypeOK, MvReqInv, MvNoDraftInUse, RowExists
  <2>2. CASE MvNext
    <3>1. CASE \E v \in MvVersions : CreateVersion(v)
      BY <3>1, StatusCommits
    <3>2. ASSUME NEW c \in MvClients, NEW v \in MvVersions,
                 \/ PublishVersion(c, v) \/ ArchiveVersion(c, v)
                 \/ \E r \in MvSlots : CreateSlot(c, r, v) \/ UpdateSlot(c, r, v)
                 \/ \E r \in MvPoints, s \in MvSlots : CreatePoint(c, r, v, s) \/ UpdatePoint(c, r, v, s)
                 \/ \E r \in MvRoutes : CreateTrajectory(c, r, v) \/ UpdateTrajectory(c, r, v)
                 \/ \E r \in MvPresets : CreatePreset(c, r, v) \/ CreatePlan(c, v, r)
          PROVE  MvInv'
      <4>1. CASE PublishVersion(c, v) \/ ArchiveVersion(c, v)
        BY <4>1, CheckedVersions
      <4>2. ASSUME NEW r \in MapRows, NEW s \in MvSlots \cup {NoSlot}, CreateRow(c, r, v, s)
            PROVE  MvInv'
        BY <4>2, CheckedCreate
      <4>3. ASSUME NEW r \in MapRows \ MvPresets, NEW s \in MvSlots \cup {NoSlot}, UpdateRow(c, r, v, s)
            PROVE  MvInv'
        BY <4>3, CheckedUpdate
      <4>4. MvSlots \cup MvPoints \cup MvRoutes \subseteq MapRows \ MvPresets /\ MvPresets \subseteq MapRows
        BY MvAssumption DEF MapRows
      <4>5. CASE \E r \in MvPresets : CreatePlan(c, v, r)
        BY <4>5, CheckedUses
      <4> QED BY <3>2, <4>1, <4>2, <4>3, <4>4, <4>5
              DEF CreateSlot, UpdateSlot, CreatePoint, UpdatePoint, CreateTrajectory,
                  UpdateTrajectory, CreatePreset
    <3>3. ASSUME NEW c \in MvClients, \E s \in MvSlots : DeleteSlot(c, s) \/ TargetSnapshot(c, s)
          PROVE  MvInv'
      BY <3>3, CheckedUses
    <3>4. ASSUME NEW c \in MvClients, PublishCommit(c) \/ ArchiveCommit(c) PROVE MvInv'
      BY <3>4, StatusCommits
    <3>5. ASSUME NEW c \in MvClients, CommitCreate(c) \/ CommitUpdate(c) PROVE MvInv'
      BY <3>5, RowCommits
    <3>6. ASSUME NEW c \in MvClients, CommitDelete(c) PROVE MvInv'
      BY <3>6, DeleteCommits
    <3>7. ASSUME NEW c \in MvClients, CommitTask(c) \/ CommitPlan(c) \/ MvFail(c) PROVE MvInv'
      BY <3>7, UseCommits
    <3> QED BY <2>2, <3>1, <3>2, <3>3, <3>4, <3>5, <3>6, <3>7 DEF MvNext
  <2> QED BY <2>1, <2>2
<1> QED BY <1>1, MvInitInv, PTL DEF MvSpec

\* Robots never work from a draft: the active version and those of the tasks'
\* snapshots are released, and the presets of a plan stay in its version, for
\* any numbers of versions, rows and parallel requests.
THEOREM NoDraftIsUsed == MvSpec => []MvNoDraftInUse
<1>1. MvInv => MvNoDraftInUse
  BY DEF MvInv
<1> QED BY <1>1, MapInvariance, PTL
=============================================================================

---------------------------- MODULE CruiseRoute ----------------------------
(* The inspection cruise of the demonstration car park: how route_builder   *)
(* lays it out, how the vehicle works through it, and how the platform      *)
(* resumes it or plans the way back after an interruption. Lengths are      *)
(* centimetres and a heading is the unit vector <<cos, sin>>, so that every *)
(* number of the source is an integer; distances are compared squared.      *)
EXTENDS Integers, Sequences, SequencesExt, FiniteSetsExt

CONSTANTS
  CrSlots,     \* numbers of the slots that the plan inspects
  CrResumes,   \* bound: resumed patrols
  CrTasks      \* bound: tasks

ASSUME CrAssumption ==
  /\ CrSlots \subseteq 1 .. 54
  /\ \A group \in {1 .. 18, 19 .. 27, 28 .. 36, 37 .. 45, 46 .. 54} : group \cap CrSlots # {}
  /\ {CrResumes, CrTasks} \subseteq Nat

VARIABLES
  crPose,  \* where the vehicle is
  crRun,   \* simulate_task: the path it follows and how far it is
  crTask,  \* the tasks, oldest first
  crSeen   \* sequence numbers inspected since the cruise was started

crVars == <<crPose, crRun, crTask, crSeen>>

-----------------------------------------------------------------------------
(* The slots and the cruise                                                 *)

Abs(a) == IF a < 0 THEN -a ELSE a
Clamp(v, low, high) == Min({high, Max({low, v})})
Dist2(p, q) == (p[1] - q[1]) * (p[1] - q[1]) + (p[2] - q[2]) * (p[2] - q[2])

Remote == <<120, 120>>
North == 2700  \* NORTH_TRANSFER_Y
South == 150   \* the transverse between the columns

Group(n) == IF n <= 18 THEN 5 ELSE 1 + (n - 19) \div 9

Center(n) ==
  IF n <= 9 THEN <<250 + (n - 1) * 215, 3150>>
  ELSE IF n <= 18 THEN <<2700 + (n - 10) * 215, 3150>>
  ELSE <<(<<500, 1700, 2900, 4300>>)[Group(n)], 300 + ((n - 19) % 9) * 280>>

\* inspection_pose: beside the slot, which is on the right of the vehicle.
InspectionPose(n) ==
  LET c == Center(n) IN
  CASE Group(n) = 5        -> [at |-> <<c[1], c[2] - 280>>, heading |-> <<-1, 0>>]
    [] Group(n) \in {1, 3} -> [at |-> <<c[1] + 300, c[2]>>, heading |-> <<0, -1>>]
    [] Group(n) \in {2, 4} -> [at |-> <<c[1] - 300, c[2]>>, heading |-> <<0, 1>>]

SlotIsOnVehicleRight(pose, n) ==
  LET c == Center(n) IN
  (c[1] - pose.at[1]) * pose.heading[2] - (c[2] - pose.at[2]) * pose.heading[1] > 0

\* ordered_groups: column 1 down, 2 up, 3 down, 4 up, the top row west.
OrderedGroups ==
  LET down(a, b) == Center(a)[2] > Center(b)[2]
      up(a, b) == Center(a)[2] < Center(b)[2]
      west(a, b) == Center(a)[1] > Center(b)[1]
      of(g) == {n \in CrSlots : Group(n) = g} IN
  <<SetToSortSeq(of(1), down), SetToSortSeq(of(2), up), SetToSortSeq(of(3), down),
    SetToSortSeq(of(4), up), SetToSortSeq(of(5), west)>>

Way(at) == [at |-> at, slot |-> 0, seq |-> 0]

\* The inspections of group g, then the turn to the next group.
GroupWaypoints(g) ==
  LET group == OrderedGroups[g]
      before == Len(FlattenSeq(SubSeq(OrderedGroups, 1, g - 1)))
      end == InspectionPose(Last(group)).at
      next == InspectionPose(Head(OrderedGroups[g + 1])).at IN
  [i \in 1 .. Len(group) |-> [at |-> InspectionPose(group[i]).at,
                              slot |-> group[i], seq |-> before + i]] \o
  (IF g = 5 THEN <<>>
   ELSE IF g = 4 THEN <<Way(<<end[1], next[2]>>)>>
   ELSE LET y == IF g = 2 THEN North ELSE South IN
        <<Way(<<end[1], y>>), Way(<<next[1], y>>)>>)

BuildCruiseWaypoints ==
  LET first == InspectionPose(Head(OrderedGroups[1])).at
      last == InspectionPose(Last(OrderedGroups[5])).at IN
  <<Way(Remote), Way(<<Remote[1], North>>), Way(<<first[1], North>>)>>
  \o FlattenSeq([g \in 1 .. 5 |-> GroupWaypoints(g)])
  \o <<Way(<<Remote[1], last[2]>>), Way(Remote)>>

-----------------------------------------------------------------------------
(* The corridor graph and the way back                                      *)

\* The five verticals, then the three horizontals, as their two ends.
Corridors ==
  <<[a |-> <<120, 100>>, b |-> <<120, 2870>>], [a |-> <<800, 100>>, b |-> <<800, 2700>>],
    [a |-> <<1400, 100>>, b |-> <<1400, 2700>>], [a |-> <<3200, 100>>, b |-> <<3200, 2700>>],
    [a |-> <<4000, 100>>, b |-> <<4000, 2870>>],
    [a |-> <<120, 100>>, b |-> <<4000, 100>>], [a |-> <<120, 2700>>, b |-> <<4000, 2700>>],
    [a |-> <<120, 2870>>, b |-> <<4420, 2870>>]>>

Steps(p, q) == Abs(p[1] - q[1]) + Abs(p[2] - q[2])
OnLane(p, i) == Steps(Corridors[i].a, p) + Steps(p, Corridors[i].b) = Steps(Corridors[i].a, Corridors[i].b)

\* _corridor_graph: the ends of the lanes, their crossings and the waiting
\* area, which hangs on the south end of the west corridor.
Crossings == {p \in {<<Corridors[v].a[1], Corridors[h].a[2]>> : v \in 1 .. 5, h \in 6 .. 8} :
                \E v \in 1 .. 5, h \in 6 .. 8 : OnLane(p, v) /\ OnLane(p, h)}
Nodes == Crossings \cup UNION {{Corridors[i].a, Corridors[i].b} : i \in 1 .. 8} \cup {Remote}

Linked(p, q) ==
  \/ {p, q} = {Remote, <<120, 100>>}
  \/ /\ p # q /\ Remote \notin {p, q}
     /\ \E i \in 1 .. 8 :
          /\ OnLane(p, i) /\ OnLane(q, i)
          /\ ~ \E r \in Nodes \ {p, q, Remote} :
                 OnLane(r, i) /\ Steps(p, r) + Steps(r, q) = Steps(p, q)
Neighbours == [p \in Nodes |-> {q \in Nodes : Linked(p, q)}]

\* _dijkstra, from the waiting area: the nodes whose distance is settled,
\* after k steps.
Settled[k \in Nat] ==
  IF k = 0 THEN {[node |-> Remote, dist |-> 0]}
  ELSE LET settled == Settled[k - 1]
           nodes == {s.node : s \in settled}
           queue == {[node |-> e[2], dist |-> e[1].dist + Steps(e[1].node, e[2])] :
                       e \in {e \in settled \X (Nodes \ nodes) : Linked(e[1].node, e[2])}} IN
       settled \cup {CHOOSE q \in queue : \A r \in queue : q.dist <= r.dist}
AllSettled == Settled[Cardinality(Nodes) - 1]
ToRemote == [p \in Nodes |-> (CHOOSE s \in AllSettled : s.node = p).dist]

NextNode(from, nodes) ==
  CHOOSE q \in nodes : \A r \in nodes : Steps(from, q) + ToRemote[q] <= Steps(from, r) + ToRemote[r]
PathFrom[p \in Nodes] ==
  IF p = Remote THEN <<p>> ELSE <<p>> \o PathFrom[NextNode(p, Neighbours[p])]

\* The nearest point of an axis-parallel segment.
Project(p, a, b) ==
  <<Clamp(p[1], Min({a[1], b[1]}), Max({a[1], b[1]})),
    Clamp(p[2], Min({a[2], b[2]}), Max({a[2], b[2]}))>>

\* The first of the corridors that is nearest to p.
Nearest(p) ==
  LET d(i) == Dist2(p, Project(p, Corridors[i].a, Corridors[i].b)) IN
  Min({i \in 1 .. 8 : \A j \in 1 .. 8 : d(i) <= d(j)})

\* _fallback_return: to the nearest vertical, south along it, west.
FallbackReturn(p) ==
  LET near(i) == Abs(Corridors[i].a[1] - p[1])
      x == Corridors[Min({i \in 1 .. 5 : \A j \in 1 .. 5 : near(i) <= near(j)})].a[1] IN
  <<p, <<x, p[2]>>, <<x, 100>>, <<Remote[1], 100>>, Remote>>

\* The points of a return path, without repetitions.
Ways(path) ==
  LET kept == SelectSeq([i \in DOMAIN path |-> i], LAMBDA i : i = 1 \/ path[i] # path[i - 1]) IN
  [i \in DOMAIN kept |-> Way(path[kept[i]])]

\* Variant: the place on the corridors is linked to all their nodes.
BuildReturnDirect(p) ==
  LET near == Nearest(p)
      proj == Project(p, Corridors[near].a, Corridors[near].b) IN
  Ways(IF Dist2(p, proj) > 200 * 200 THEN FallbackReturn(p)
       ELSE IF proj = Remote THEN <<p, Remote>>
       ELSE <<p, proj>> \o PathFrom[NextNode(proj, Nodes \ {proj})])

\* build_return_waypoints: to the nearest point of the corridors, from there
\* to an end of its lane, then along the graph.
BuildReturnWaypoints(p) ==
  LET near == Nearest(p)
      proj == Project(p, Corridors[near].a, Corridors[near].b)
      lane == Corridors[Min({i \in 1 .. 8 : OnLane(proj, i)})]
      onward == ({lane.a, lane.b} \cup (IF proj \in Nodes THEN Neighbours[proj] ELSE {})) \ {proj} IN
  Ways(IF Dist2(p, proj) > 200 * 200 THEN FallbackReturn(p)
       ELSE IF proj = Remote THEN <<p, Remote>>
       ELSE <<p, proj>> \o PathFrom[NextNode(proj, onward)])

-----------------------------------------------------------------------------
(* A task from its creation to its end                                      *)

NoCursor == -1
Offered == {"none", "AVAILABLE", "CONSUMED_BY_RESUME", "CONSUMED_BY_RETURN"}
CrIdle == [k |-> 0, phase |-> "off"]

CrTypeOK ==
  /\ crPose \in (0 .. 4800) \X (0 .. 3400)
  /\ crRun \in [k : 0 .. 100, phase : {"off", "begun", "set", "mid", "there"}]
  /\ \A i \in DOMAIN crTask :
       /\ crTask[i].type \in {"PATROL", "RETURN_DOCK"}
       /\ crTask[i].status \in {"ACTIVE", "SUCCEEDED", "FAILED", "CANCELLED"}
       /\ crTask[i].resume \in Offered /\ crTask[i].cursor \in NoCursor .. 100
       /\ crTask[i].from \in 0 .. i - 1
       /\ crTask[i].status = "ACTIVE" <=> i = Len(crTask) /\ crRun # CrIdle
  /\ \A i \in DOMAIN crSeen : crSeen[i] \in 1 .. Cardinality(CrSlots)

\* The vehicle is in the waiting area, or was left between two columns.
CrInit ==
  /\ crPose \in {Remote, <<2300, 1460>>}
  /\ crRun = CrIdle /\ crTask = <<>> /\ crSeen = <<>>

CrPath == Last(crTask).path
CrWaypoint == CrPath[crRun.k]

\* The latest cancelled patrol, which is the one that can be resumed.
Cancelled == {i \in DOMAIN crTask : crTask[i].type = "PATROL" /\ crTask[i].status = "CANCELLED"}
CrResumable == {i \in Cancelled : i = Max(Cancelled) /\ crTask[i].resume = "AVAILABLE"}

\* One task at a time; the vehicle accepts its command and starts its thread.
NewTask(tasks, type, path, from) ==
  /\ crRun = CrIdle
  /\ Len(crTask) < CrTasks
  /\ crTask' = Append(tasks, [type |-> type, status |-> "ACTIVE", resume |-> "none",
                              cursor |-> NoCursor, path |-> path, from |-> from])
  /\ crRun' = [k |-> 0, phase |-> "begun"]
  /\ UNCHANGED crPose

\* patrol_plan_task, from the start.
CrStart ==
  /\ CrResumable = {}
  /\ Dist2(crPose, Remote) <= 80 * 80
  /\ NewTask(crTask, "PATROL", BuildCruiseWaypoints, 0)
  /\ crSeen' = <<>>

\* Variant: it continues with the waypoint after the cursor.
BuildResumedNext(pose, full, cursor) ==
  LET remaining == SubSeq(full, Min({cursor + 1, Len(full) - 1}) + 1, Len(full)) IN
  IF Head(remaining).at = pose THEN remaining ELSE <<Way(pose)>> \o remaining

\* build_resumed_cruise_waypoints: the cursor is an index into the waypoints
\* of the plan, counted from 0.
BuildResumed(pose, full, cursor) ==
  LET remaining == SubSeq(full, Min({cursor, Len(full) - 1}) + 1, Len(full)) IN
  IF Head(remaining).at = pose THEN remaining ELSE <<Way(pose)>> \o remaining

\* patrol_plan_task with resume_task_id, as build_operation_context offers it.
CrResume ==
  /\ Cardinality({i \in DOMAIN crTask : crTask[i].from # 0}) < CrResumes
  /\ \E i \in CrResumable :
       NewTask([crTask EXCEPT ![i].resume = "CONSUMED_BY_RESUME"], "PATROL",
               BuildResumed(crPose, BuildCruiseWaypoints, crTask[i].cursor), i)
  /\ UNCHANGED crSeen

\* return_dock, from wherever the vehicle is.
CrReturn ==
  /\ NewTask(crTask, "RETURN_DOCK", BuildReturnWaypoints(crPose), 0)
  /\ UNCHANGED crSeen

\* simulate_task: the next waypoint becomes the target.
CrTarget ==
  /\ crRun.phase \in {"begun", "there"} /\ crRun.k < Len(CrPath)
  /\ crRun' = [k |-> crRun.k + 1, phase |-> "set"]
  /\ UNCHANGED <<crPose, crTask, crSeen>>

\* Half of the way, as a place where the vehicle can be stopped.
CrDrive ==
  /\ crRun.phase = "set"
  /\ crPose' = <<(crPose[1] + CrWaypoint.at[1]) \div 2, (crPose[2] + CrWaypoint.at[2]) \div 2>>
  /\ crRun' = [crRun EXCEPT !.phase = "mid"]
  /\ UNCHANGED <<crTask, crSeen>>

\* The waypoint is reached; at an inspection the cursor is reported.
CrArrive ==
  /\ crRun.phase \in {"set", "mid"}
  /\ crPose' = CrWaypoint.at
  /\ crRun' = [crRun EXCEPT !.phase = "there"]
  /\ IF CrWaypoint.slot = 0 THEN UNCHANGED <<crTask, crSeen>>
     ELSE /\ crSeen' = Append(crSeen, CrWaypoint.seq)
          /\ crTask' = [crTask EXCEPT ![Len(crTask)].cursor = crRun.k - 1]

TaskEnded(status) == [crTask EXCEPT ![Len(crTask)].status = status]

\* A completed return consumes the patrol that could have been resumed.
CrComplete ==
  /\ crRun.phase = "there" /\ crRun.k = Len(CrPath)
  /\ crTask' = IF Last(crTask).type = "PATROL" THEN TaskEnded("SUCCEEDED")
               ELSE [i \in DOMAIN crTask |->
                       IF i \in CrResumable THEN [crTask[i] EXCEPT !.resume = "CONSUMED_BY_RETURN"]
                       ELSE TaskEnded("SUCCEEDED")[i]]
  /\ crRun' = CrIdle
  /\ UNCHANGED <<crPose, crSeen>>

\* _stall: no progress in turning or in distance for too long.
CrStall ==
  /\ crRun.phase \in {"set", "mid"}
  /\ crTask' = TaskEnded("FAILED")
  /\ crRun' = CrIdle
  /\ UNCHANGED <<crPose, crSeen>>

\* cancel_task or emergency_stop: the cancelled report carries the index of
\* the target, if there is one, and makes the mission resumable.
CrInterrupt ==
  /\ crRun # CrIdle
  /\ LET last == Last(crTask)
         cursor == IF crRun.phase = "begun" THEN last.cursor ELSE crRun.k - 1
         again == last.type = "RETURN_DOCK" \/ cursor # NoCursor IN
     crTask' = [crTask EXCEPT ![Len(crTask)] =
                  [last EXCEPT !.status = "CANCELLED", !.cursor = cursor,
                               !.resume = IF again THEN "AVAILABLE" ELSE @]]
  /\ crRun' = CrIdle
  /\ UNCHANGED <<crPose, crSeen>>

CrNext ==
  \/ CrStart \/ CrResume \/ CrReturn
  \/ CrTarget \/ CrDrive \/ CrArrive
  \/ CrComplete \/ CrStall \/ CrInterrupt

CrSpec == CrInit /\ [][CrNext]_crVars

-----------------------------------------------------------------------------
(* Properties                                                               *)

\* segment_intersects_slot: the bounds of slot n, with CLEARANCE_M around it.
Bounds(n) ==
  LET c == Center(n)
      w == (IF Group(n) = 5 THEN 98 ELSE 200) + 30
      h == (IF Group(n) = 5 THEN 200 ELSE 123) + 30 IN
  [low |-> <<c[1] - w, c[2] - h>>, high |-> <<c[1] + w, c[2] + h>>]

Cross(o, a, b) == (a[1] - o[1]) * (b[2] - o[2]) - (a[2] - o[2]) * (b[1] - o[1])
Opposite(d, e) == (d > 0 /\ e < 0) \/ (d < 0 /\ e > 0)
SegmentIntersectsSlot(a, b, n) ==
  LET r == Bounds(n)
      inside(p) == \A i \in 1 .. 2 : r.low[i] <= p[i] /\ p[i] <= r.high[i]
      corner == <<r.low, <<r.high[1], r.low[2]>>, r.high, <<r.low[1], r.high[2]>>, r.low>> IN
  \/ inside(a) \/ inside(b)
  \/ \E i \in 1 .. 4 :
       /\ Opposite(Cross(a, b, corner[i]), Cross(a, b, corner[i + 1]))
       /\ Opposite(Cross(corner[i], corner[i + 1], a), Cross(corner[i], corner[i + 1], b))

\* A vehicle that stands on a corridor or on the cruise.
OnCourse(p) ==
  \/ \E i \in 1 .. 8 : OnLane(p, i)
  \/ LET w == BuildCruiseWaypoints IN
     \E i \in 1 .. Len(w) - 1 : Project(p, w[i].at, w[i + 1].at) = p

\* "Safe corridor graph: explicit axis-aligned lanes a robot may occupy": the
\* vehicle never drives through a slot, on the cruise, on the way back from
\* any place where it was interrupted, or back onto the cruise. Left out are
\* the first stretch of a patrol that is resumed after a way back was
\* interrupted, which goes straight across, and vehicles that were left off
\* the corridors.
CrClear ==
  LET resumed == Last(crTask).from
      across == resumed # 0 /\ resumed # Len(crTask) - 1 /\ crRun.k <= 2 IN
  crRun.phase = "set" /\ OnCourse(crPose) /\ ~ across =>
    \A n \in 1 .. 54 : ~ SegmentIntersectsSlot(crPose, CrWaypoint.at, n)

\* "Continue a cancelled cruise from its live route cursor": over all the
\* interruptions, stalls, ways back and resumptions of a cruise, each slot is
\* inspected in its turn, from a pose that has it on the right, none is left
\* out, at most the slot of the interruption is inspected again, and a cruise
\* that succeeds has inspected them all.
CrInspectsAll ==
  /\ \A i \in DOMAIN crSeen : crSeen[i] - (IF i = 1 THEN 0 ELSE crSeen[i - 1]) \in {0, 1}
  /\ crRun.phase = "there" /\ CrWaypoint.slot # 0 =>
       SlotIsOnVehicleRight(InspectionPose(CrWaypoint.slot), CrWaypoint.slot)
  /\ crTask # <<>> /\ Last(crTask).type = "PATROL" /\ Last(crTask).status = "SUCCEEDED" =>
       Last(crSeen) = Cardinality(CrSlots)
=============================================================================

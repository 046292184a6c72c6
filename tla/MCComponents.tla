---------------------------- MODULE MCComponents ----------------------------
(* The remaining components of platform and vehicle beside those of         *)
(* MCPlatform, one lane or two each.                                        *)
EXTENDS MCPlatform, TaskLifecycle, CruiseRoute, MonitorFeed, EventLog, ControlAdapter,
        MapVersions

otherVars == <<tkVars, crVars, mfVars, elVars, caVars, mvVars>>
componentVars == <<allVars, otherVars>>

TaskLanes == {"fire", "patrol", "keys"}
FeedLanes == {"alarms", "feed"}
TrailLanes == {"trail", "disk"}

ASSUME Focus \subseteq PlatformLanes \cup TaskLanes \cup FeedLanes \cup TrailLanes
                \cup {"cruise", "adapter", "maps"}

ComponentsInit ==
  /\ AllInit /\ TkInit /\ CrInit /\ MfInit /\ ElInit /\ CaInit /\ MvInit
  /\ focus # "cruise" => crPose = Remote

-----------------------------------------------------------------------------

\* fire: the requests of the alarm page; patrol: one operator, patrols and
\* returns; keys: everything, before the vehicle reports.
OneClient == CHOOSE c \in TkClients : TRUE

TaskStep ==
  /\ focus \in TaskLanes /\ TkNext
  /\ focus = "fire" => /\ \A c \in TkClients : tkReq'[c].op \in {"idle", "alarm", "transition"}
                       /\ \E c \in TkClients : tkReq'[c].op # "transition"
                       /\ tkIng' # Quiet => ~ tkIng'.cursor
  /\ focus = "patrol" => /\ tkReq'[OneClient].op \in {"idle", "plan", "resume", "return"}
                         /\ \A c \in TkClients \ {OneClient} : tkReq'[c] = Idle
  /\ focus = "keys" => /\ tkIng' = Quiet
                       /\ \A c \in TkClients : tkReq'[c].op # "transition"
  /\ UNCHANGED <<allVars, crVars, mfVars, elVars, caVars, mvVars>>

\* A third task follows two that did not stall.
CruiseStep ==
  /\ focus = "cruise" /\ CrNext
  /\ Len(crTask') = 3 => \A i \in 1 .. 2 : crTask'[i].status # "FAILED"
  /\ UNCHANGED <<allVars, tkVars, mfVars, elVars, caVars, mvVars>>

\* alarms: without the page that shows them; feed: alarms that do not change,
\* for one message and the operator's own.
FeedStep ==
  /\ focus \in FeedLanes /\ MfNext
  /\ focus = "alarms" => mfPage' = mfPage /\ mfStream' = mfStream /\ mfCommit' < MfCommits
  /\ focus = "feed" => /\ mfActor'["user"].pc # "read"
                       /\ mfActor'["ingress"].msg \in {"m1", Nobody}
                       /\ \A i \in DOMAIN mfRows : mfRows'[i].fresh
  /\ UNCHANGED <<allVars, tkVars, crVars, elVars, caVars, mvVars>>

\* trail: the threads, on a good disk; disk: failures of the disk and the end
\* of the bridge, for the values and the telemetry of one thread.
TrailStep ==
  /\ focus \in TrailLanes /\ ElNext
  /\ focus = "trail" => /\ elDisk'.faults = 0 /\ elJob'["main"].pc = "off"
                        /\ elTrace'.cool /\ elTrace'.seen \in {<<>>, <<"c1">>}
                        /\ elTrace'.last["level"] = Missing
  /\ focus = "disk" => /\ elHand'["b"] = NoRecord
                       /\ elHand'["a"].kind = "events" => elHand'["a"].key = "level"
                       /\ elTrace'.last["state"] = Missing
                       /\ elTrace'.seen = <<>> /\ elTrace'.last["level"] # 1
  /\ UNCHANGED <<allVars, tkVars, crVars, mfVars, caVars, mvVars>>

AdapterStep ==
  /\ focus = "adapter" /\ CaNext
  /\ UNCHANGED <<allVars, tkVars, crVars, mfVars, elVars, mvVars>>

MapStep ==
  /\ focus = "maps" /\ MvNext
  /\ UNCHANGED <<allVars, tkVars, crVars, mfVars, elVars, caVars>>

ComponentsNext == \/ AllNext /\ UNCHANGED otherVars
                  \/ TaskStep \/ CruiseStep \/ FeedStep \/ TrailStep \/ AdapterStep \/ MapStep

ComponentsSpec == ComponentsInit /\ [][ComponentsNext]_componentVars

\* The variables have the values they are meant to have; those of a component
\* that does not move keep those of its initial state.
ComponentsTypeOK ==
  /\ focus \in SessionLanes => IsTypeOK
  /\ focus \in LeaseLanes => MlTypeOK
  /\ focus \in TaskLanes => TkInv
  /\ focus \in NavigationLanes => NvTypeOK
  /\ focus \in ScheduleLanes => PsInv
  /\ focus \in StopLanes => StopInv /\ (Paced => EvidenceInv)
  /\ focus = "cruise" => CrTypeOK
  /\ focus \in FeedLanes => MfInv
  /\ focus \in TrailLanes => ElTypeOK /\ ElInv
  /\ focus = "adapter" => CaTypeOK
  /\ focus = "maps" => MvTypeOK
=============================================================================

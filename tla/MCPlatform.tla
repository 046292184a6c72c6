----------------------------- MODULE MCPlatform -----------------------------
(* The components of the platform that share no variable, side by side for  *)
(* TLC: focus names the one that moves, and the part of it that is explored. *)
EXTENDS IngressSession, ManualLease, NavigationVerification, PatrolScheduler,
        StopOperation

CONSTANT Focus  \* the lanes of this run

VARIABLE focus

platformVars == <<isVars, mlVars, nvVars, psVars, vars>>
allVars == <<platformVars, focus>>

\* The second lane of a component is the smaller one, for liveness.
SessionLanes == {"session", "silence"}
LeaseLanes == {"leases", "held"}
NavigationLanes == {"navigation", "arrival"}
ScheduleLanes == {"schedule", "queue"}
StopLanes == {"stop", "outcome"}

PlatformLanes == StopLanes \cup SessionLanes \cup LeaseLanes
                           \cup NavigationLanes \cup ScheduleLanes

AllInit ==
  /\ focus \in Focus
  /\ IsInit /\ MlInit /\ NvInit /\ PsInit /\ Init
  /\ focus # "schedule" => psPolicy = [windowed |-> FALSE, overlap |-> "QUEUE"]

-----------------------------------------------------------------------------

\* session: without the worker, which does not touch it.
SessionStep ==
  /\ focus \in SessionLanes /\ IsNext
  /\ focus = "session" => isWrk' = "none" /\ isSeen' \notin {"stale", "old"}
  /\ focus = "silence" => isVehicle'.boot = 1 /\ Cardinality(isNet') <= 2
  /\ UNCHANGED <<mlVars, nvVars, psVars, vars, focus>>

OneActor == CHOOSE a \in MlActors : TRUE

LeaseStep ==
  /\ focus \in LeaseLanes /\ MlNext
  /\ focus = "held" => \A a \in MlActors \ {OneActor} : mlEnd'[a] = NoEnd
  /\ UNCHANGED <<isVars, nvVars, psVars, vars, focus>>

\* navigation: nobody cancels; arrival: one completion, and no failed cycle.
NavigationStep ==
  /\ focus \in NavigationLanes /\ NvNext
  /\ focus = "navigation" => ~ nvApi'
  /\ nvIng' # NvIdle /\ nvIng'.writes => nvIng'.to = "EXECUTING"
  /\ focus = "arrival" => nvClock'.reports <= 1 /\ nvFaults' = 0
  /\ UNCHANGED <<isVars, mlVars, psVars, vars, focus>>

\* schedule: one obstacle at a time.
ScheduleStep ==
  /\ focus \in ScheduleLanes /\ PsNext
  /\ focus = "schedule" => Cardinality({f \in DOMAIN psEnv : psEnv'[f] # (f # "lease")}) <= 1
  /\ focus = "queue" => psEnv'.plan /\ psEnv'.points /\ psFaults' = 0
  /\ UNCHANGED <<isVars, mlVars, nvVars, vars, focus>>

\* stop: the stop command reaches the vehicle, which accepts it or is silent.
StopStep ==
  /\ focus \in StopLanes /\ Next
  /\ focus = "stop" => stopLost' = {} /\ \A o \in Ops : stopAck'[o] # "rejected"
  /\ UNCHANGED <<isVars, mlVars, nvVars, psVars, focus>>

AllNext == \/ SessionStep \/ LeaseStep
           \/ NavigationStep \/ ScheduleStep \/ StopStep

AllSpec == AllInit /\ [][AllNext]_allVars

-----------------------------------------------------------------------------
(* Fairness: the worker loops, the requests that are open and the clock      *)

SilenceFairness ==
  /\ WF_isVars(focus = "silence" /\ IsReconcileRead)
  /\ WF_isVars(focus = "silence" /\ IsReconcileCommit)

LeaseFairness ==
  /\ \A l \in MlLeases : /\ WF_mlVars(focus = "held" /\ MlCommit(l))
                         /\ WF_mlVars(focus = "held" /\ MlUndo(l))
  /\ \A a \in MlActors : /\ WF_mlVars(focus = "held" /\ MlEndCommit(a))
                         /\ WF_mlVars(focus = "held" /\ MlEndDelete(a))
                         /\ \A l \in MlLeases : WF_mlVars(focus = "held" /\ MlExpireRead(a, l))
  /\ WF_mlVars(focus = "held" /\ MlTtl)

NavigationFairness ==
  /\ WF_nvVars(focus = "arrival" /\ NvWorkerRead)
  /\ WF_nvVars(focus = "arrival" /\ NvWorkerCommit)
  /\ WF_nvVars(focus = "arrival" /\ NvDeadline)
  /\ WF_nvVars(focus = "arrival" /\ NvReportCommit)
  /\ WF_nvVars(focus = "arrival" /\ NvCancelCommit)

ScheduleFairness ==
  /\ WF_psVars(focus = "queue" /\ PsBegin)
  /\ WF_psVars(focus = "queue" /\ PsDue)
  /\ WF_psVars(focus = "queue" /\ PsCommit)
  /\ WF_psVars(focus = "queue" /\ PsTick)
  /\ \A k \in Slots : WF_psVars(focus = "queue" /\ PsQueued(k))

\* Not every transaction of the worker fails.
StopFairness ==
  /\ WF_vars(focus = "outcome" /\ Tick)
  /\ WF_vars(focus = "outcome" /\ \E b \in BOOLEAN : CycleStart(b))
  /\ WF_vars(focus = "outcome" /\ Flush)
  /\ WF_vars(focus = "outcome" /\ (Reconcile \/ CycleFails))
  /\ SF_vars(focus = "outcome" /\ Reconcile)

AllFairSpec ==
  /\ AllSpec
  /\ SilenceFairness /\ LeaseFairness /\ NavigationFairness
  /\ ScheduleFairness /\ StopFairness
=============================================================================

------------------------- MODULE ControlAdapterProofs -------------------------
(***************************************************************************)
(* Proofs about ControlAdapter: what it confirms is its own patrol, and a  *)
(* stop it accepts leaves no goal, for any number of commands.             *)
(***************************************************************************)
EXTENDS ControlAdapter, SequenceTheorems, TLAPS

\* The adapter starts with nothing under way.
LEMMA CaInitInv == CaInit => CaInv
<1> SUFFICES ASSUME CaInit PROVE CaInv
  OBVIOUS
<1>1. caJob.step = "idle" /\ caJob.cmd = CaNone
  BY DEF CaInit, CaIdle
<1>2. CaTypeOK
  <2>1. caFeed \in [CaCmds -> Seq({"REJECTED", "ACCEPTED", "EXECUTING", "FAILED"})]
    <3>1. <<>> \in Seq({"REJECTED", "ACCEPTED", "EXECUTING", "FAILED"})
      OBVIOUS
    <3> QED BY <3>1 DEF CaInit
  <2>2. caTopic \in Seq(CaCmds) /\ caPose \in Seq(CaPatrols)
    BY DEF CaInit
  <2>3. caJob \in [cmd : CaCmds \cup {CaNone},
                   step : {"idle", "ready", "published", "waiting", "cancel", "burst"},
                   quiet : BOOLEAN]
    BY DEF CaInit, CaIdle
  <2> QED BY <2>1, <2>2, <2>3 DEF CaInit, CaTypeOK
<1> QED BY <1>1, <1>2 DEF CaInv, CaKindInv, CaPatrolInv, CaStopInv, CaConfirmed

\* The type of every variable is kept.
LEMMA CaTypeStep == CaInv /\ [CaNext]_caVars => CaTypeOK'
<1> SUFFICES ASSUME CaInv, [CaNext]_caVars PROVE CaTypeOK'
  OBVIOUS
<1> USE CaAssumption DEF CaCmds, CaInv
<1>1. ASSUME NEW c \in CaCmds, CaSend(c) PROVE CaTypeOK'
  BY <1>1 DEF CaSend, CaTypeOK
<1>2. CASE CaTake
  <2>1. Head(caTopic) \in CaCmds /\ Tail(caTopic) \in Seq(CaCmds)
    BY <1>2 DEF CaTake, CaTypeOK
  <2> QED BY <1>2, <2>1 DEF CaTake, CaTypeOK, CaIdle
<1>3. ASSUME NEW state \in {"REJECTED", "ACCEPTED", "EXECUTING", "FAILED"},
             NEW step \in {"idle", "waiting"}, Answer(state, step), caJob.cmd \in CaCmds,
             UNCHANGED <<caTopic, caSent, caPose, caGoal, caWire, caCancel>>, caFresh' \in BOOLEAN
      PROVE  CaTypeOK'
  <2>1. caJob' \in [cmd : CaCmds \cup {CaNone},
                    step : {"idle", "ready", "published", "waiting", "cancel", "burst"},
                    quiet : BOOLEAN]
    BY <1>3 DEF Answer, CaTypeOK, CaIdle
  <2>2. Append(caFeed[caJob.cmd], state) \in Seq({"REJECTED", "ACCEPTED", "EXECUTING", "FAILED"})
    BY <1>3 DEF CaTypeOK
  <2>3. caFeed' \in [CaCmds -> Seq({"REJECTED", "ACCEPTED", "EXECUTING", "FAILED"})]
    BY <1>3, <2>2 DEF Answer, CaTypeOK
  <2> QED BY <1>3, <2>1, <2>3 DEF CaTypeOK
<1>4. caJob.step \in {"ready", "published", "waiting", "cancel", "burst"} => caJob.cmd \in CaCmds
  BY DEF CaKindInv
<1>5. CASE CaRejectPatrol \/ CaRejectStop \/ CaAccept \/ CaConfirm \/ CaGiveUp \/ CaStopped
  <2>1. caFresh' \in BOOLEAN /\ UNCHANGED <<caTopic, caSent, caPose, caGoal, caWire, caCancel>>
    BY <1>5 DEF CaRejectPatrol, CaRejectStop, CaAccept, CaConfirm, CaGiveUp, CaStopped, Before, CaTypeOK
  <2>2. \E state \in {"REJECTED", "ACCEPTED", "EXECUTING", "FAILED"}, step \in {"idle", "waiting"} :
           Answer(state, step)
    BY <1>5 DEF CaRejectPatrol, CaRejectStop, CaAccept, CaConfirm, CaGiveUp, CaStopped
  <2>3. caJob.cmd \in CaCmds
    BY <1>4, <1>5 DEF CaRejectPatrol, CaRejectStop, CaAccept, CaConfirm, CaGiveUp, CaStopped
  <2> QED BY <1>3, <2>1, <2>2, <2>3
<1>6. CASE CaPublishPose
  <2>1. caJob.cmd \in CaPatrols
    BY <1>6 DEF CaPublishPose, CaKindInv
  <2>2. caPose' \in Seq(CaPatrols)
    BY <1>6, <2>1 DEF CaPublishPose, CaTypeOK
  <2>3. (ActiveGoals = {} /\ caPose = <<>> /\ caWire = CaNone) \in BOOLEAN
    OBVIOUS
  <2>4. caJob' \in [cmd : CaCmds \cup {CaNone},
                    step : {"idle", "ready", "published", "waiting", "cancel", "burst"},
                    quiet : BOOLEAN]
    BY <1>6, <2>3, Zenon DEF CaPublishPose, CaTypeOK
  <2> QED BY <1>6, <2>2, <2>4 DEF CaPublishPose, CaTypeOK
<1>7. CASE CaCancelGoals
  BY <1>7 DEF CaCancelGoals, CaTypeOK
<1>8. CASE CaStatus
  BY <1>8 DEF CaStatus, CaTypeOK
<1>9. CASE CaNewGoal
  BY <1>9 DEF CaNewGoal, CaTypeOK
<1>10. CASE CaGoalsCancelled
  BY <1>10 DEF CaGoalsCancelled, CaTypeOK
<1>11. ASSUME NEW p \in CaPatrols, CaGoalOver(p) \/ CaShow(p) PROVE CaTypeOK'
  BY <1>11 DEF CaGoalOver, CaShow, CaTypeOK
<1>12. CASE UNCHANGED caVars
  BY <1>12 DEF caVars, CaTypeOK
<1> QED BY <1>1, <1>2, <1>5, <1>6, <1>7, <1>8, <1>9, <1>10, <1>11, <1>12 DEF CaNext

\* The callback works on commands of the kind it was started for.
LEMMA CaKindStep == CaInv /\ [CaNext]_caVars => CaKindInv'
<1> SUFFICES ASSUME CaInv, [CaNext]_caVars PROVE CaKindInv'
  OBVIOUS
<1> USE DEF CaInv, CaKindInv
<1>1. CASE CaTake
  <2>1. Head(caTopic) \in CaPatrols \cup CaStops
    BY <1>1 DEF CaTake, CaTypeOK, CaCmds
  <2> QED BY <1>1, <2>1, CaAssumption DEF CaTake, CaIdle
<1>2. CASE CaRejectPatrol \/ CaRejectStop \/ CaAccept \/ CaConfirm \/ CaGiveUp \/ CaStopped
  BY <1>2 DEF CaRejectPatrol, CaRejectStop, CaAccept, CaConfirm, CaGiveUp, CaStopped, Answer, CaIdle,
              CaTypeOK
<1>3. CASE CaPublishPose \/ CaCancelGoals
  BY <1>3 DEF CaPublishPose, CaCancelGoals, CaTypeOK
<1>4. CASE UNCHANGED caJob
  BY <1>4
<1> QED BY <1>1, <1>2, <1>3, <1>4
        DEF CaNext, caVars, CaSend, CaStatus, CaNewGoal, CaGoalsCancelled, CaGoalOver, CaShow

\* Poses and active goals come from the poses and goals before, and a goal
\* that was known stays known.
LEMMA CaGoalsKeep ==
  ASSUME CaInv, UNCHANGED <<caJob, caFresh, caWire>>,
         \A i \in DOMAIN caPose' : \E k \in DOMAIN caPose : caPose'[i] = caPose[k],
         \A p \in CaPatrols : caGoal'[p] = "active" =>
            caGoal[p] = "active" \/ \E k \in DOMAIN caPose : caPose[k] = p,
         \A p \in CaPatrols : caGoal[p] # "none" => caGoal'[p] # "none"
  PROVE  CaPatrolInv' /\ CaConfirmed'
<1>1. caJob.step \in {"published", "waiting"} => caJob.cmd \in CaPatrols
  BY DEF CaInv, CaKindInv
<1>2. CaConfirmed'
  BY <1>1 DEF CaInv, CaConfirmed
<1>3. ASSUME caJob.step \in {"published", "waiting"}, caJob.quiet
      PROVE  /\ \A i \in DOMAIN caPose' : caPose'[i] = caJob.cmd
             /\ \A p \in CaPatrols : caGoal'[p] = "active" => p = caJob.cmd
             /\ caWire # CaNone => caWire = caJob.cmd /\ caGoal'[caJob.cmd] # "none"
  BY <1>1, <1>3 DEF CaInv, CaPatrolInv, ActiveGoals
<1> QED BY <1>2, <1>3 DEF CaPatrolInv, ActiveGoals

\* After a quiet start only the poses, goals and messages of the patrol that
\* was started are under way, and a fresh status is one of its goal.
LEMMA CaPatrolStep == CaInv /\ [CaNext]_caVars => CaPatrolInv' /\ CaConfirmed'
<1> SUFFICES ASSUME CaInv, [CaNext]_caVars PROVE CaPatrolInv' /\ CaConfirmed'
  OBVIOUS
<1> USE CaAssumption DEF CaInv, CaPatrolInv, CaConfirmed, ActiveGoals
<1>1. ASSUME NEW c \in CaCmds, CaSend(c) PROVE CaPatrolInv' /\ CaConfirmed'
  BY <1>1 DEF CaSend
<1>2. CASE CaTake
  BY <1>2 DEF CaTake, CaIdle
<1>3. CASE CaRejectPatrol \/ CaRejectStop \/ CaConfirm \/ CaGiveUp \/ CaStopped
  BY <1>3 DEF CaRejectPatrol, CaRejectStop, CaConfirm, CaGiveUp, CaStopped, Answer, CaIdle
<1>4. CASE CaAccept
  <2>1. caJob'.step = "waiting" /\ caJob'.cmd = caJob.cmd /\ caJob'.quiet = caJob.quiet
    BY <1>4 DEF CaAccept, Answer, CaTypeOK
  <2> QED BY <1>4, <2>1 DEF CaAccept, Before
<1>5. CASE CaPublishPose
  <2>1. caJob.cmd \in CaPatrols /\ caJob'.step = "published" /\ caJob'.cmd = caJob.cmd
    BY <1>5 DEF CaPublishPose, CaTypeOK, CaKindInv
  <2>2. caJob'.quiet => ActiveGoals = {} /\ caPose = <<>> /\ caWire = CaNone
    BY <1>5, Zenon DEF CaPublishPose, CaTypeOK
  <2>3. caPose = <<>> => \A i \in DOMAIN caPose' : caPose'[i] = caJob.cmd
    BY <1>5, <2>1 DEF CaPublishPose
  <2> QED BY <1>5, <2>1, <2>2, <2>3 DEF CaPublishPose
<1>6. CASE CaCancelGoals
  BY <1>6 DEF CaCancelGoals, CaTypeOK
<1>7. CASE CaStatus
  BY <1>7 DEF CaStatus
<1>8. CASE CaNewGoal
  <2>1. 1 \in DOMAIN caPose /\ Head(caPose) = caPose[1]
    BY <1>8 DEF CaNewGoal, CaTypeOK
  <2>2. \A i \in DOMAIN caPose' : i + 1 \in DOMAIN caPose /\ caPose'[i] = caPose[i + 1]
    BY <1>8 DEF CaNewGoal, CaTypeOK
  <2>3. \A p \in CaPatrols : /\ caGoal'[p] = "active" => p = Head(caPose)
                            /\ caGoal[p] # "none" => caGoal'[p] # "none"
    BY <1>8 DEF CaNewGoal, CaTypeOK
  <2> QED BY <1>8, <2>1, <2>2, <2>3, CaGoalsKeep DEF CaNewGoal
<1>9. CASE CaGoalsCancelled
  <2>1. \A p \in CaPatrols : /\ caGoal'[p] # "active"
                            /\ caGoal[p] # "none" => caGoal'[p] # "none"
    BY <1>9 DEF CaGoalsCancelled, CaTypeOK
  <2> QED BY <1>9, <2>1, CaGoalsKeep DEF CaGoalsCancelled
<1>10. ASSUME NEW p \in CaPatrols, CaGoalOver(p) PROVE CaPatrolInv' /\ CaConfirmed'
  <2>1. \A q \in CaPatrols : /\ caGoal'[q] = "active" => caGoal[q] = "active"
                            /\ caGoal[q] # "none" => caGoal'[q] # "none"
    BY <1>10 DEF CaGoalOver, CaTypeOK
  <2> QED BY <1>10, <2>1, CaGoalsKeep DEF CaGoalOver
<1>11. ASSUME NEW p \in CaPatrols, CaShow(p) PROVE CaPatrolInv' /\ CaConfirmed'
  BY <1>11 DEF CaShow, CaTypeOK
<1>12. CASE UNCHANGED caVars
  BY <1>12 DEF caVars
<1> QED BY <1>1, <1>2, <1>3, <1>4, <1>5, <1>6, <1>7, <1>8, <1>9, <1>10, <1>11, <1>12 DEF CaNext

\* After a quiet cancellation no pose is left that could become a goal, and
\* none is active once the cancellation has arrived.
LEMMA CaStopStep == CaInv /\ [CaNext]_caVars => CaStopInv'
<1> SUFFICES ASSUME CaInv, [CaNext]_caVars PROVE CaStopInv'
  OBVIOUS
<1> USE DEF CaInv, CaStopInv, ActiveGoals
<1>1. CASE CaTake \/ CaRejectPatrol \/ CaRejectStop \/ CaAccept \/ CaConfirm \/ CaGiveUp \/ CaStopped
  <2>1. CASE CaTake
    BY <2>1 DEF CaTake, CaIdle
  <2>2. CASE CaAccept
    BY <2>2 DEF CaAccept, Answer, CaTypeOK
  <2>3. CASE CaRejectPatrol \/ CaRejectStop \/ CaConfirm \/ CaGiveUp \/ CaStopped
    BY <2>3 DEF CaRejectPatrol, CaRejectStop, CaConfirm, CaGiveUp, CaStopped, Answer, CaIdle
  <2> QED BY <1>1, <2>1, <2>2, <2>3
<1>2. CASE CaPublishPose
  BY <1>2 DEF CaPublishPose, CaTypeOK
<1>3. CASE CaCancelGoals
  BY <1>3, Zenon DEF CaCancelGoals, CaTypeOK
<1>4. CASE CaNewGoal
  BY <1>4 DEF CaNewGoal
<1>5. CASE CaGoalsCancelled
  <2>1. \A p \in CaPatrols : caGoal'[p] # "active"
    BY <1>5 DEF CaGoalsCancelled, CaTypeOK
  <2> QED BY <1>5, <2>1 DEF CaGoalsCancelled
<1>6. ASSUME NEW p \in CaPatrols, CaGoalOver(p) \/ CaShow(p) PROVE CaStopInv'
  BY <1>6 DEF CaGoalOver, CaShow, CaTypeOK
<1>7. CASE UNCHANGED <<caJob, caPose, caCancel, caGoal>>
  BY <1>7
<1> QED BY <1>1, <1>2, <1>3, <1>4, <1>5, <1>6, <1>7 DEF CaNext, caVars, CaSend, CaStatus

\* The inductive invariant holds in every reachable state.
THEOREM AdapterInvariance == CaSpec => []CaInv
<1>1. CaInv /\ [CaNext]_caVars => CaInv'
  BY CaTypeStep, CaKindStep, CaPatrolStep, CaStopStep DEF CaInv
<1> QED BY <1>1, CaInitInv, PTL DEF CaSpec

\* A patrol that nothing else was under way with is confirmed by its own goal.
THEOREM ConfirmsItsOwn == CaSpec => []CaConfirmed
<1>1. CaInv => CaConfirmed
  BY DEF CaInv
<1> QED BY <1>1, AdapterInvariance, PTL

\* A stop is accepted with no goal active, once the cancellation has arrived
\* and if no pose was left when it was sent.
THEOREM StopLeavesNoGoal == CaSpec => CaStopHolds
<1>1. ASSUME CaInv, [CaNext]_caVars,
             caJob.cmd \in CaStops, caJob.quiet, ~ caCancel,
             caFeed'[caJob.cmd] = Append(caFeed[caJob.cmd], "ACCEPTED")
      PROVE  ActiveGoals = {}
  <2>1. caJob.cmd \in CaCmds /\ caFeed[caJob.cmd] \in Seq({"REJECTED", "ACCEPTED", "EXECUTING", "FAILED"})
    BY <1>1 DEF CaInv, CaTypeOK, CaCmds
  <2>2. caFeed' # caFeed
    <3>1. Len(Append(caFeed[caJob.cmd], "ACCEPTED")) = Len(caFeed[caJob.cmd]) + 1
      BY <2>1
    <3>2. Len(caFeed[caJob.cmd]) \in Nat
      BY <2>1
    <3> QED BY <1>1, <3>1, <3>2
  <2>3. caJob.step \in {"cancel", "burst"}
    BY <1>1, CaAssumption DEF CaInv, CaTypeOK, CaKindInv, CaNone
  <2>4. ~ CaRejectStop
    <3> SUFFICES ASSUME CaRejectStop PROVE FALSE
      OBVIOUS
    <3>1. caFeed'[caJob.cmd] = Append(caFeed[caJob.cmd], "REJECTED")
      BY <1>1, <2>1 DEF CaRejectStop, Answer, CaInv, CaTypeOK
    <3>2. ASSUME NEW e \in {"REJECTED", "ACCEPTED", "EXECUTING", "FAILED"}
          PROVE  Append(caFeed[caJob.cmd], e)[Len(caFeed[caJob.cmd]) + 1] = e
      BY <2>1, AppendProperties
    <3> QED BY <1>1, <3>1, <3>2
  <2>5. caJob.step = "burst"
    BY <1>1, <2>2, <2>3, <2>4
    DEF CaNext, caVars, CaSend, CaTake, CaRejectPatrol, CaPublishPose, CaAccept, CaConfirm, CaGiveUp,
        CaCancelGoals, CaStopped, CaStatus, CaNewGoal, CaGoalsCancelled, CaGoalOver, CaShow
  <2> QED BY <1>1, <2>5 DEF CaInv, CaStopInv
<1> QED BY <1>1, AdapterInvariance, PTL DEF CaSpec, CaStopHolds
=============================================================================

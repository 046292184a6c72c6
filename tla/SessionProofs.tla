---------------------------- MODULE SessionProofs ----------------------------
(***************************************************************************)
(* Proofs about the sessions a vehicle is part of: the boot sessions of the*)
(* vehicle (IngressSession), for any numbers of boots, messages and faults,*)
(* and the manual lease of its operator (ManualLease), whatever ends, fails*)
(* or crashes at the same time.                                            *)
(***************************************************************************)
EXTENDS IngressSession, ManualLease, TLAPS

-----------------------------------------------------------------------------
(* The boot sessions of the vehicle                                        *)


\* Nothing has been sent, handled or ended.
LEMMA IsInitInv == IsInit => IsInv
<1> SUFFICES ASSUME IsInit PROVE IsInv
  OBVIOUS
<1> USE IsAssumption DEF IsInit
<1>1. 1 \in IsBoots
  BY DEF IsBoots
<1>2. IsData
  BY <1>1 DEF IsData
<1>3. IsAhead
  BY DEF IsAhead, NoMsg
<1>4. IsMarked
  BY DEF IsMarked
<1>5. IsInOrder /\ IsEndedNeverBack
  BY <1>1 DEF IsInOrder, IsEndedNeverBack
<1> QED BY <1>2, <1>3, <1>4, <1>5 DEF IsInv

\* The message in processing, and where its lane is.
LEMMA TxnTyped ==
  ASSUME IsData, isTxn.pc # "idle"
  PROVE  /\ isTxn \in [pc : {"open", "committed"}, m : AnyMsgs, accepted : BOOLEAN]
         /\ isTxn.m.kind \in Sequenced => LaneOf(isTxn.m) \in Lanes /\ isTxn.m.seq \in Nat
<1>1. isTxn # NoMsg
  BY DEF NoMsg
<1>2. isTxn \in [pc : {"open", "committed"}, m : AnyMsgs, accepted : BOOLEAN]
  BY <1>1 DEF IsData
<1>3. isTxn.m \in AnyMsgs
  BY <1>2
<1>4. isTxn.m.kind \in Sequenced => isTxn.m \in [boot : IsBoots, kind : Sequenced, seq : Nat]
  BY <1>3 DEF AnyMsgs, Availability, Sequenced
<1> QED BY <1>2, <1>4 DEF LaneOf, Lanes

\* The vehicle and the broker only add messages.
LEMMA VehicleSteps ==
  ASSUME IsInv,
         \/ \E k \in Sequenced : IsSend(k)
         \/ \E k \in Availability : IsAnnounce(k)
         \/ IsReboot
  PROVE  IsInv'
<1> USE IsAssumption DEF IsInv
<1>1. UNCHANGED <<sessVars, isSeq, isTxn, isTop, isRepeats, isHit>>
  BY DEF IsSend, IsAnnounce, IsReboot, keyVars, histVars
<1>2. IsAhead' /\ IsMarked' /\ IsInOrder' /\ IsEndedNeverBack'
  BY <1>1 DEF IsAhead, IsMarked, Unmarked, IsInOrder, IsEndedNeverBack, sessVars
<1>3. isVehicle.boot \in IsBoots /\ isVehicle.seq \in [Sequenced -> Nat]
  BY DEF IsData
<1>4. ASSUME NEW k \in Sequenced, IsSend(k) PROVE IsData'
  <2>1. isVehicle.seq[k] + 1 \in Nat
    BY <1>3
  <2>2. [boot |-> isVehicle.boot, kind |-> k, seq |-> isVehicle.seq[k] + 1] \in AnyMsgs
    BY <1>3, <2>1 DEF AnyMsgs
  <2>3. isNet' \subseteq AnyMsgs
    BY <1>4, <2>2 DEF IsSend, IsData
  <2>4. isVehicle' \in [boot : IsBoots, seq : [Sequenced -> Nat]]
    BY <1>4, <1>3, <2>1 DEF IsSend, IsData
  <2> QED BY <1>1, <2>3, <2>4 DEF IsData
<1>5. ASSUME NEW k \in Availability, IsAnnounce(k) PROVE IsData'
  <2>1. [boot |-> isVehicle.boot, kind |-> k, seq |-> 0] \in AnyMsgs
    BY <1>3 DEF AnyMsgs
  <2> QED BY <1>1, <1>5, <2>1 DEF IsAnnounce, IsData
<1>6. CASE IsReboot
  <2>1. isVehicle.boot + 1 \in IsBoots
    BY <1>3, <1>6 DEF IsReboot, IsBoots
  <2>2. isVehicle' \in [boot : IsBoots, seq : [Sequenced -> Nat]] /\ isNet' = isNet
    BY <1>6, <2>1 DEF IsReboot
  <2>3. IsData'
    BY <1>1, <2>2 DEF IsData
  <2> QED BY <1>2, <2>3
<1> QED BY <1>2, <1>4, <1>5, <1>6

\* What is accepted for processing is ahead of the stored seq.
LEMMA ReceiveStep ==
  ASSUME IsInv, NEW m \in isNet, IsReceive(m)
  PROVE  IsInv'
<1> USE IsAssumption DEF IsInv
<1>1. UNCHANGED <<isVehicle, isNet, sessVars, isSeq, isTop, isRepeats, isHit>> /\ isTxn = NoMsg
  BY DEF IsReceive, netVars, histVars
<1>2. m \in AnyMsgs
  BY DEF IsData
<1>3. CASE OutOfOrder(m)
  <2>1. isTxn' = isTxn
    BY <1>3 DEF IsReceive
  <2> QED BY <1>1, <2>1 DEF IsData, IsAhead, IsMarked, Unmarked, IsInOrder, IsEndedNeverBack, sessVars
<1>4. CASE ~ OutOfOrder(m)
  <2>1. isTxn' = [pc |-> "open", m |-> m, accepted |-> FALSE]
    BY <1>4 DEF IsReceive
  <2>2. IsData'
    BY <1>1, <1>2, <2>1 DEF IsData
  <2>3. m.kind \in Sequenced => m \in [boot : IsBoots, kind : Sequenced, seq : Nat]
    BY <1>2 DEF AnyMsgs, Availability, Sequenced
  <2>4. m.kind \in Sequenced => m.seq > isSeq[LaneOf(m)]
    BY <1>4, <2>3 DEF OutOfOrder, LaneOf, Lanes, IsData
  <2>5. IsAhead'
    BY <1>1, <2>1, <2>4 DEF IsAhead, LaneOf
  <2>6. IsMarked'
    BY <1>1, <2>1 DEF IsMarked, Unmarked, NoMsg
  <2>7. IsInOrder' /\ IsEndedNeverBack'
    BY <1>1 DEF IsInOrder, IsEndedNeverBack, sessVars
  <2> QED BY <2>2, <2>5, <2>6, <2>7
<1> QED BY <1>3, <1>4

\* The commit handles what is ahead of everything handled in its lane, unless
\* a crash has hit the lane, and ends no boot session but the one it replaces.
LEMMA CommitStep == ASSUME IsInv, IsCommit PROVE IsInv'
<1> USE IsAssumption DEF IsInv
<1> DEFINE m == isTxn.m
           ok == AcceptsBoot(m)
           lane == LaneOf(m)
<1>1. /\ isTxn \in [pc : {"open", "committed"}, m : AnyMsgs, accepted : BOOLEAN]
      /\ m.kind \in Sequenced => lane \in Lanes /\ m.seq \in Nat
  BY TxnTyped DEF IsCommit
<1>2. ok \in BOOLEAN
  BY DEF AcceptsBoot
<1>3. isTxn.pc = "open" /\ isTxn' = [pc |-> "committed", m |-> m, accepted |-> ok]
  BY DEF IsCommit
<1>4. UNCHANGED <<isVehicle, isNet, isSeq, isHit>>
  BY DEF IsCommit, netVars, keyVars
<1>5. IsEndedNeverBack'
  <2>1. CASE ok
    BY <2>1 DEF IsCommit, EndedBy, AcceptsBoot, IsEndedNeverBack
  <2>2. CASE ~ ok
    BY <2>2 DEF IsCommit, IsEndedNeverBack, sessVars
  <2> QED BY <2>1, <2>2
<1>6. IsAhead'
  BY <1>3, <1>4 DEF IsAhead
<1>7. CASE ok /\ m.kind \in Sequenced
  <2>1. m.kind \notin Availability
    BY <1>7 DEF Sequenced, Availability
  <2>2. isSeq[lane] \in Nat /\ isTop[lane] \in Nat /\ m.seq > isSeq[lane]
    BY <1>1, <1>3, <1>7 DEF IsData, IsAhead
  <2>3. IF m.seq > isTop[lane]
          THEN isTop' = [isTop EXCEPT ![lane] = m.seq] /\ isRepeats' = isRepeats
          ELSE isRepeats' = isRepeats \cup {lane} /\ isTop' = isTop
    BY <1>7, <2>1 DEF IsCommit, Handle, LaneOf
  <2>4. isTop' \in [Lanes -> Nat] /\ \A l \in Lanes \ {lane} : isTop'[l] = isTop[l]
    BY <1>1, <1>7, <2>3 DEF IsData
  <2>5. \A l \in Lanes \ isHit : isTop[l] <= isSeq[l]
    BY <1>3 DEF IsMarked, Unmarked
  <2>6. lane \notin isHit => m.seq > isTop[lane]
    BY <1>1, <1>7, <2>2, <2>5
  <2>7. IsInOrder'
    BY <1>4, <2>3, <2>6 DEF IsInOrder
  <2>8. lane \notin isHit => isTop'[lane] = m.seq
    BY <1>1, <1>7, <2>3, <2>6 DEF IsData
  <2>9. ASSUME NEW l \in Lanes \ isHit
        PROVE  isTop'[l] <= isSeq'[l] \/ Unmarked(l)'
    <3>1. CASE l = lane
      <4>1. isTop'[l] <= isTxn'.m.seq
        BY <1>1, <1>3, <1>7, <2>8, <3>1
      <4> QED BY <1>3, <1>7, <3>1, <4>1 DEF Unmarked
    <3>2. CASE l # lane
      BY <1>4, <2>4, <2>5, <3>2
    <3> QED BY <3>1, <3>2
  <2>10. IsMarked'
    BY <1>4, <2>9 DEF IsMarked
  <2>11. IsData'
    BY <1>1, <1>2, <1>3, <1>4, <2>4 DEF IsData
  <2> QED BY <1>5, <1>6, <2>7, <2>10, <2>11
<1>8. CASE ~ ok \/ m.kind \notin Sequenced
  <2>1. m.kind \in Sequenced \cup Availability
    BY <1>1 DEF AnyMsgs
  <2>2. isTop' = isTop /\ isRepeats' = isRepeats
    BY <1>8, <2>1 DEF IsCommit, Handle
  <2>3. IsData'
    BY <1>1, <1>2, <1>3, <1>4, <2>2 DEF IsData
  <2>4. IsMarked' /\ IsInOrder'
    BY <1>3, <1>4, <2>2 DEF IsMarked, Unmarked, IsInOrder
  <2> QED BY <1>5, <1>6, <2>3, <2>4
<1> QED BY <1>7, <1>8

\* The marks close what the commit has left open.
LEMMA FinishStep == ASSUME IsInv, IsFinish PROVE IsInv'
<1> USE IsAssumption DEF IsInv
<1> DEFINE m == isTxn.m
           lane == LaneOf(m)
<1>1. /\ isTxn \in [pc : {"open", "committed"}, m : AnyMsgs, accepted : BOOLEAN]
      /\ m.kind \in Sequenced => lane \in Lanes /\ m.seq \in Nat
  BY TxnTyped DEF IsFinish
<1>2. UNCHANGED <<isVehicle, isNet, sessVars, isTop, isRepeats, isHit>> /\ isTxn' = NoMsg
  BY DEF IsFinish, netVars, histVars
<1>3. IsInOrder' /\ IsEndedNeverBack' /\ IsAhead'
  BY <1>2 DEF IsInOrder, IsEndedNeverBack, IsAhead, NoMsg, sessVars
<1>4. CASE isTxn.accepted /\ m.kind \in Sequenced
  <2>1. isSeq' = [isSeq EXCEPT ![lane] = m.seq]
    BY <1>4 DEF IsFinish, LaneOf
  <2>2. IsData'
    BY <1>1, <1>2, <1>4, <2>1 DEF IsData
  <2>3. isSeq'[lane] = m.seq /\ \A l \in Lanes \ {lane} : isSeq'[l] = isSeq[l]
    BY <1>1, <1>4, <2>1 DEF IsData
  <2>4. isSeq[lane] < m.seq /\ isSeq[lane] \in Nat /\ isTop[lane] \in Nat
    BY <1>1, <1>4 DEF IsAhead, IsData, IsFinish
  <2>5. ASSUME NEW l \in Lanes \ isHit PROVE isTop[l] <= isSeq'[l]
    <3>1. isTop[l] <= isSeq[l] \/ (l = lane /\ isTop[l] <= m.seq)
      BY DEF IsMarked, Unmarked
    <3> QED BY <1>1, <1>4, <2>3, <2>4, <3>1
  <2>6. IsMarked'
    BY <1>2, <2>5 DEF IsMarked
  <2> QED BY <1>3, <2>2, <2>6
<1>5. CASE ~ (isTxn.accepted /\ m.kind \in Sequenced)
  <2>1. isSeq' = isSeq
    BY <1>5 DEF IsFinish
  <2> QED BY <1>2, <1>3, <1>5, <2>1 DEF IsData, IsMarked, Unmarked
<1> QED BY <1>4, <1>5

\* A message that is given up: before the commit, or with its lane hit.
LEMMA LostSteps == ASSUME IsInv, IsTxnFails \/ IsCrash PROVE IsInv'
<1> USE IsAssumption DEF IsInv
<1>1. UNCHANGED <<isVehicle, isNet, sessVars, isSeq, isTop, isRepeats>> /\ isTxn' = NoMsg
  BY DEF IsTxnFails, IsCrash, netVars, keyVars, histVars
<1>2. IsData' /\ IsAhead' /\ IsEndedNeverBack'
  BY <1>1 DEF IsData, IsAhead, IsEndedNeverBack, NoMsg, sessVars
<1>3. isHit \subseteq isHit' /\ \A l \in Lanes : Unmarked(l) => l \in isHit'
  BY DEF IsTxnFails, IsCrash, histVars, Unmarked, LaneOf
<1>4. IsInOrder'
  BY <1>1, <1>3 DEF IsInOrder
<1>5. IsMarked'
  BY <1>1, <1>3 DEF IsMarked
<1> QED BY <1>2, <1>4, <1>5

\* IsInv is inductive.
THEOREM IngressInvariance == IsSpec => []IsInv
<1>1. IsInv /\ [IsNext]_isVars => IsInv'
  <2> SUFFICES ASSUME IsInv, [IsNext]_isVars PROVE IsInv'
    OBVIOUS
  <2>1. ASSUME UNCHANGED <<isVehicle, isNet, sessVars, isSeq, isTxn, isTop, isRepeats, isHit>>
        PROVE  IsInv'
    BY <2>1 DEF IsInv, IsData, IsAhead, IsMarked, Unmarked, IsInOrder, IsEndedNeverBack, sessVars
  <2>2. CASE UNCHANGED isVars
    BY <2>1, <2>2 DEF isVars, sessVars
  <2>3. CASE \/ IsReconcileRead \/ IsReconcileCommit \/ IsReconcileFails \/ IsAges
             \/ \E m \in isNet : IsKeyExpires(m)
    BY <2>1, <2>3 DEF IsReconcileRead, IsReconcileCommit, IsReconcileFails, IsAges,
                      IsKeyExpires, netVars, keyVars, histVars
  <2>4. CASE IsNext
    BY <2>3, <2>4, VehicleSteps, ReceiveStep, CommitStep, FinishStep, LostSteps DEF IsNext
  <2> QED BY <2>2, <2>4
<1> QED BY <1>1, IsInitInv, PTL DEF IsSpec

\* A boot session that has ended never becomes the robot's session again,
\* for any number of boots and messages.
THEOREM EndedNeverBack == IsSpec => []IsEndedNeverBack
<1>1. IsInv => IsEndedNeverBack
  BY DEF IsInv
<1> QED BY <1>1, IngressInvariance, PTL

\* Reports are handled in the order of their seq, except in a lane where the
\* process died between a commit and its marks.
THEOREM HandledInOrder == IsSpec => []IsInOrder
<1>1. IsInv => IsInOrder
  BY DEF IsInv
<1> QED BY <1>1, IngressInvariance, PTL

-----------------------------------------------------------------------------
(* The manual lease                                                        *)

\* No lease, no session, nobody at work.
LEMMA MlInitInv == MlInit => MlInv
  BY MlAssumption
  DEF MlInit, MlInv, MlTypeOK, MlSetFirst, MlDropped, MlWitness, NoEnd, Ended

\* The opening of a lease.
LEMMA MlOpenStep ==
  ASSUME MlInv, NEW l \in MlLeases,
         MlSet(l) \/ MlCommit(l) \/ MlCommitFails(l) \/ MlUndo(l) \/ MlAcquireCrash(l)
  PROVE  MlInv'
<1> USE MlAssumption DEF MlInv, Opening
<1>1. CASE MlSet(l)
  <2>1. MlTypeOK'
    BY <1>1 DEF MlSet, MlTypeOK
  <2>2. MlSetFirst'
    BY <1>1 DEF MlSet, MlTypeOK, MlSetFirst
  <2>3. \A a \in MlActors : mlEnd[a].pc = "drop" => mlEnd[a].lease \in MlLeases
    BY DEF MlTypeOK, NoEnd
  <2>4. MlDropped'
    BY <1>1, <2>3 DEF MlSet, MlTypeOK, MlDropped
  <2>5. MlWitness'
    BY <1>1 DEF MlSet, MlTypeOK, MlWitness
  <2> QED BY <2>1, <2>2, <2>4, <2>5
<1>2. CASE MlCommit(l)
  <2>1. MlTypeOK'
    BY <1>2 DEF MlCommit, MlTypeOK
  <2>2. MlSetFirst'
    BY <1>2 DEF MlCommit, MlTypeOK, MlSetFirst
  <2>3. MlDropped'
    BY <1>2 DEF MlCommit, MlTypeOK, MlDropped
  <2>4. MlWitness'
    BY <1>2 DEF MlCommit, MlTypeOK, MlWitness
  <2> QED BY <2>1, <2>2, <2>3, <2>4
<1>3. CASE MlCommitFails(l)
  <2>1. MlTypeOK'
    BY <1>3 DEF MlCommitFails, Fault, MlTypeOK
  <2>2. MlSetFirst'
    BY <1>3 DEF MlCommitFails, MlTypeOK, MlSetFirst
  <2>3. MlDropped'
    BY <1>3 DEF MlCommitFails, MlTypeOK, MlDropped
  <2>4. MlWitness'
    BY <1>3 DEF MlCommitFails, MlTypeOK, MlWitness
  <2> QED BY <2>1, <2>2, <2>3, <2>4
<1>4. CASE MlUndo(l)
  <2>1. MlTypeOK'
    BY <1>4 DEF MlUndo, MlTypeOK
  <2>2. MlSetFirst'
    BY <1>4 DEF MlUndo, MlTypeOK, MlSetFirst
  <2>3. \A a \in MlActors : mlEnd[a].pc = "drop" => mlEnd[a].lease \in MlLeases
    BY DEF MlTypeOK, NoEnd
  <2>4. MlDropped'
    BY <1>4, <2>3 DEF MlUndo, MlTypeOK, MlDropped
  <2>5. MlWitness'
    BY <1>4 DEF MlUndo, MlWitness
  <2> QED BY <2>1, <2>2, <2>4, <2>5
<1>5. CASE MlAcquireCrash(l)
  <2>1. MlTypeOK'
    BY <1>5 DEF MlAcquireCrash, Fault, MlTypeOK
  <2>2. MlSetFirst'
    BY <1>5 DEF MlAcquireCrash, MlTypeOK, MlSetFirst
  <2>3. MlDropped'
    BY <1>5 DEF MlAcquireCrash, MlTypeOK, MlDropped
  <2>4. MlWitness'
    BY <1>5 DEF MlAcquireCrash, MlTypeOK, MlWitness
  <2> QED BY <2>1, <2>2, <2>3, <2>4
<1> QED BY <1>1, <1>2, <1>3, <1>4, <1>5

\* What an actor has read.
LEMMA MlReadTyped ==
  ASSUME MlInv, NEW a \in MlActors, mlEnd[a].pc # "idle"
  PROVE  /\ mlEnd[a].lease \in MlLeases /\ mlEnd[a].held \in BOOLEAN /\ mlEnd[a].to \in Ended
         /\ mlEnd[a] \in [pc : {"read", "drop", "delete"}, lease : MlLeases,
                          held : BOOLEAN, to : Ended]
  BY DEF MlInv, MlTypeOK, NoEnd

\* The reads with which an actor starts to end a lease.
LEMMA MlReadStep ==
  ASSUME MlInv, NEW a \in MlActors,
         \/ \E to \in Ended : MlEndRead(a, to)
         \/ \E l \in MlLeases : MlExpireRead(a, l)
         \/ MlDropRead(a)
  PROVE  MlInv'
<1> USE MlAssumption DEF MlInv, Opening
<1>1. ASSUME NEW to \in Ended, MlEndRead(a, to) PROVE MlInv'
  <2>1. (mlSession[mlKey] = "HELD") \in BOOLEAN
    OBVIOUS
  <2>2. MlTypeOK'
    BY <1>1, <2>1 DEF MlEndRead, MlTypeOK
  <2>3. MlSetFirst'
    BY <1>1 DEF MlEndRead, MlSetFirst
  <2>4. MlDropped'
    BY <1>1 DEF MlEndRead, MlDropped, MlTypeOK
  <2>5. MlWitness'
    BY <1>1 DEF MlEndRead, MlWitness, MlTypeOK, NoEnd
  <2> QED BY <2>2, <2>3, <2>4, <2>5
<1>2. ASSUME NEW l \in MlLeases, MlExpireRead(a, l) PROVE MlInv'
  <2>1. MlTypeOK'
    BY <1>2 DEF MlExpireRead, MlTypeOK, Ended
  <2>2. MlSetFirst'
    BY <1>2 DEF MlExpireRead, MlSetFirst
  <2>3. MlDropped'
    BY <1>2 DEF MlExpireRead, MlDropped, MlTypeOK, MlSetFirst
  <2>4. MlWitness'
    BY <1>2 DEF MlExpireRead, MlWitness
  <2> QED BY <2>1, <2>2, <2>3, <2>4
<1>3. CASE MlDropRead(a)
  <2>1. (mlSession[mlKey] = "HELD") \in BOOLEAN
    OBVIOUS
  <2>2. MlTypeOK'
    BY <1>3, <2>1 DEF MlDropRead, MlTypeOK, Ended
  <2>3. MlSetFirst'
    BY <1>3 DEF MlDropRead, MlSetFirst
  <2>4. \A b \in MlActors : mlEnd[b].pc = "drop" => mlEnd[b].lease \in MlLeases
    BY DEF MlTypeOK, NoEnd
  <2>5. MlDropped'
    BY <1>3, <2>4 DEF MlDropRead, MlDropped, MlTypeOK, MlSetFirst
  <2>6. MlWitness'
    BY <1>3 DEF MlDropRead, MlWitness
  <2> QED BY <2>2, <2>3, <2>5, <2>6
<1> QED BY <1>1, <1>2, <1>3

\* The commit, the deletion and what may go wrong with them.
LEMMA MlEndStep ==
  ASSUME MlInv, NEW a \in MlActors,
         MlEndCommit(a) \/ MlEndDelete(a) \/ MlEndFails(a) \/ MlDeleteLost(a)
  PROVE  MlInv'
<1> USE MlAssumption DEF MlInv, Opening
<1>1. CASE MlEndCommit(a)
  <2>1. /\ mlEnd[a].pc \in {"read", "drop"} /\ mlEnd[a].lease \in MlLeases
        /\ mlEnd[a].to \in Ended /\ UNCHANGED <<mlKey, mlAcq, mlLost, mlFaults>>
    BY <1>1, MlReadTyped DEF MlEndCommit
  <2>2. mlSession' \in [MlLeases -> {"NONE", "HELD"} \cup Ended]
    BY <1>1, <2>1 DEF MlEndCommit, MlTypeOK
  <2>3. [mlEnd[a] EXCEPT !.pc = "delete"] \in [pc : {"read", "drop", "delete"}, lease : MlLeases,
                                              held : BOOLEAN, to : Ended]
    BY <2>1, MlReadTyped
  <2>4. mlEnd' = [mlEnd EXCEPT ![a] = IF mlEnd[a].pc = "drop" THEN NoEnd
                                      ELSE [mlEnd[a] EXCEPT !.pc = "delete"]]
    BY <1>1 DEF MlEndCommit, MlTypeOK
  <2>5. MlTypeOK'
    BY <2>1, <2>2, <2>3, <2>4 DEF MlTypeOK
  <2>6. \A l \in MlLeases : /\ mlSession'[l] = "HELD" => mlSession[l] = "HELD"
                            /\ l # mlEnd[a].lease => mlSession'[l] = mlSession[l]
    BY <1>1, <2>1 DEF MlEndCommit, MlTypeOK, Ended
  <2>7. MlSetFirst'
    <3>1. mlKey' = mlKey /\ mlAcq' = mlAcq
      BY <2>1
    <3>2. ASSUME NEW l \in MlLeases, mlSession'[l] = "HELD" PROVE mlAcq[l] # "new"
      <4>1. mlSession[l] = "HELD"
        BY <2>6, <3>2
      <4> QED BY <4>1 DEF MlSetFirst
    <3> QED BY <3>1, <3>2 DEF MlSetFirst
  <2>8. MlDropped'
    BY <2>1, <2>4 DEF MlDropped, MlTypeOK, NoEnd
  <2>9. mlEnd[a].pc = "read" => mlEnd'[a].pc = "delete" /\ mlEnd'[a].lease = mlEnd[a].lease
    BY <2>3, <2>4, MlReadTyped DEF MlTypeOK
  <2>10. \A b \in MlActors : mlEnd[b].pc = "delete" => mlEnd'[b] = mlEnd[b]
    BY <2>1, <2>4 DEF MlTypeOK
  <2>11. MlWitness'
    BY <2>1, <2>6, <2>9, <2>10 DEF MlWitness, MlTypeOK, MlDropped
  <2> QED BY <2>5, <2>7, <2>8, <2>11
<1>2. CASE MlEndDelete(a)
  <2>1. MlTypeOK'
    BY <1>2 DEF MlEndDelete, MlTypeOK
  <2>2. MlSetFirst'
    BY <1>2 DEF MlEndDelete, MlSetFirst
  <2>3. \A b \in MlActors : mlEnd[b].pc = "drop" => mlEnd[b].lease \in MlLeases
    BY DEF MlTypeOK, NoEnd
  <2>4. MlDropped'
    BY <1>2, <2>3 DEF MlEndDelete, MlDropped, MlTypeOK, NoEnd
  <2>5. MlWitness'
    BY <1>2 DEF MlEndDelete, MlWitness
  <2> QED BY <2>1, <2>2, <2>4, <2>5
<1>3. CASE MlEndFails(a)
  <2>1. MlTypeOK'
    BY <1>3 DEF MlEndFails, Fault, MlTypeOK
  <2>2. MlSetFirst'
    BY <1>3 DEF MlEndFails, MlSetFirst
  <2>3. MlDropped'
    BY <1>3 DEF MlEndFails, MlDropped, MlTypeOK, NoEnd
  <2>4. MlWitness'
    BY <1>3 DEF MlEndFails, MlWitness, MlTypeOK
  <2> QED BY <2>1, <2>2, <2>3, <2>4
<1>4. CASE MlDeleteLost(a)
  <2>1. mlEnd[a].lease \in MlLeases
    BY <1>4, MlReadTyped DEF MlDeleteLost
  <2>2. MlTypeOK'
    BY <1>4, <2>1 DEF MlDeleteLost, Fault, MlTypeOK
  <2>3. MlSetFirst'
    BY <1>4 DEF MlDeleteLost, MlSetFirst
  <2>4. MlDropped'
    BY <1>4 DEF MlDeleteLost, MlDropped, MlTypeOK, NoEnd
  <2>5. MlWitness'
    BY <1>4 DEF MlDeleteLost, MlWitness, MlTypeOK
  <2> QED BY <2>2, <2>3, <2>4, <2>5
<1> QED BY <1>1, <1>2, <1>3, <1>4

\* The invariant holds in every reachable state.
THEOREM LeaseInvariance == MlSpec => []MlInv
<1>1. MlInv /\ [MlNext]_mlVars => MlInv'
  <2> SUFFICES ASSUME MlInv, [MlNext]_mlVars PROVE MlInv'
    OBVIOUS
  <2>1. CASE MlTtl
    <3>1. \A b \in MlActors : mlEnd[b].pc = "drop" => mlEnd[b].lease \in MlLeases
      BY DEF MlInv, MlTypeOK, NoEnd
    <3> QED BY <2>1, <3>1, MlAssumption
            DEF MlTtl, MlInv, MlTypeOK, MlSetFirst, MlDropped, MlWitness, Opening
  <2>2. CASE UNCHANGED mlVars
    BY <2>2 DEF mlVars, MlInv, MlTypeOK, MlSetFirst, MlDropped, MlWitness, Opening
  <2> QED BY <2>1, <2>2, MlOpenStep, MlReadStep, MlEndStep DEF MlNext, MlActor
<1> QED BY <1>1, MlInitInv, PTL DEF MlSpec

\* A lease that can drive the robot has a session that says HELD, but for
\* requests that are under way or were cut off.
THEOREM LeaseIsBacked == MlSpec => []MlLeaseBacked
<1>1. MlInv => MlLeaseBacked
  <2> SUFFICES ASSUME MlInv, NEW a \in MlActors, mlEnd[a].pc = "delete", mlEnd[a].lease = mlKey
               PROVE  mlKey \in Closing
    BY DEF MlInv, MlWitness, MlLeaseBacked
  <2> QED BY DEF Closing
<1> QED BY <1>1, LeaseInvariance, PTL
=============================================================================

-------------------------- MODULE StopOperationProofs --------------------------
(***************************************************************************)
(* Proofs about StopOperation: what a confirmed standstill and a concluded *)
(* stop rest on, for any operations, deadlines, numbers of frames, messages*)
(* and boot sessions.                                                      *)
(***************************************************************************)
EXTENDS StopOperation, FiniteSetTheorems, TLAPS

-----------------------------------------------------------------------------
(* What a cycle makes of an operation                                      *)

\* advance_stationary_frames counts on by one, keeps the count or starts over.
LEMMA CountedRange ==
  ASSUME TypeOK, NEW o \in Ops
  PROVE  /\ CountedFrames(o) \in {0, frames[o], frames[o] + 1}
         /\ CountedFrames(o) \in Nat
BY StopAssumption DEF TypeOK, CountedFrames

\* The states a cycle gives to an open operation.
LEMMA VerdictRange ==
  ASSUME TypeOK, NEW o \in Ops
  PROVE  /\ Mission(o) \in Missions
         /\ MotionOf(o) \in Motions
         /\ Verdict(o) \in States \ {"NONE"}
<1>1. Mission(o) \in Missions
  BY DEF TypeOK, Mission, Missions
<1>2. MotionOf(o) \in Motions
  BY DEF MotionOf, Motions
<1>3. Verdict(o) \in States \ {"NONE"}
  BY DEF Verdict, States, Terminal
<1> QED BY <1>1, <1>2, <1>3

\* Whatever ends a cycle, the next one starts a period later.
LEMMA EndOfCycle ==
  ASSUME TypeOK, CycleEnd \/ (wrk' = IdleWorker /\ nextRun' = NextRun)
  PROVE  /\ wrk' \in [pc : {"idle", "run", "flush"}, at : Nat, dirty : BOOLEAN, key : Latest]
         /\ nextRun' \in Nat
         /\ wrk'.key \in {wrk.key, Empty}
         /\ \/ wrk'.pc = "flush"
            \/ wrk'.pc = "idle" /\ nextRun' = now + Period
<1> USE StopAssumption DEF TypeOK
<1>1. IdleWorker \in [pc : {"idle", "run", "flush"}, at : Nat, dirty : BOOLEAN, key : Latest]
  BY DEF IdleWorker, Empty, Latest
<1>2. now + Period \in Nat
  OBVIOUS
<1>3. CASE wrk' = [wrk EXCEPT !.pc = "flush"] /\ UNCHANGED nextRun
  BY <1>3
<1>4. CASE wrk' = IdleWorker /\ nextRun' = NextRun
  BY <1>1, <1>2, <1>4 DEF IdleWorker, NextRun
<1> QED BY <1>3, <1>4 DEF CycleEnd

-----------------------------------------------------------------------------
(* Types, counts and full success                                          *)

LEMMA StopInitInv == Init => StopInv
<1> SUFFICES ASSUME Init PROVE StopInv
  OBVIOUS
<1> USE StopAssumption DEF Init
<1>1. Empty \in Latest
  BY DEF Empty, Latest
<1>2. IdleWorker \in [pc : {"idle", "run", "flush"}, at : Nat, dirty : BOOLEAN, key : Latest]
  BY <1>1 DEF IdleWorker
<1>3. TypeOK
  BY <1>1, <1>2 DEF TypeOK, States, Motions, Missions
<1>4. KeysKnown
  BY DEF KeysKnown, Keys, IdleWorker, Empty
<1>5. CountStops /\ FullSuccess
  BY DEF CountStops, FullSuccess
<1> QED BY <1>3, <1>4, <1>5 DEF StopInv

\* A request: a new operation of the current boot session.
LEMMA RequestStep ==
  ASSUME StopInv, NEW o \in Ops, NEW m \in Situations, NEW b \in BOOLEAN, Request(o, m, b)
  PROVE  StopInv'
<1> USE StopAssumption DEF StopInv
<1>1. TypeOK'
  BY DEF Request, TypeOK, States, Missions, telVars
<1>2. KeysKnown'
  BY DEF Request, KeysKnown, Keys, telVars
<1>3. CountStops'
  BY DEF Request, CountStops, TypeOK
<1>4. FullSuccess'
  BY DEF Request, FullSuccess, TypeOK
<1> QED BY <1>1, <1>2, <1>3, <1>4 DEF Request

\* Messages, a reboot and the clock leave every operation alone.
LEMMA OutsideStep ==
  ASSUME StopInv, (\E b \in BOOLEAN : Location(b)) \/ Sensor \/ Reboot \/ Tick
  PROVE  StopInv'
<1> USE StopAssumption DEF StopInv
<1>1. UNCHANGED <<wrk, nextRun, opVars, reqVars, cmdVars>>
  BY DEF Location, Sensor, Reboot, Tick
<1>2. now' \in Nat /\ boot' \in Nat /\ msgs' \in Nat /\ now' >= now /\ boot' >= boot /\ msgs' >= msgs
  BY DEF Location, Sensor, Reboot, Tick, TypeOK, telVars
<1>3. /\ latest' \in Latest
      /\ \/ latest'.frame = latest.frame /\ latest'.src = latest.src /\ latest'.boot = latest.boot
         \/ latest'.frame = msgs' /\ latest'.boot = boot' /\ latest'.src = now' + Skew
  <2> USE DEF TypeOK, Latest
  <2>1. CASE \E b \in BOOLEAN : Location(b)
    <3>1. PICK b \in BOOLEAN : Location(b)
      BY <2>1
    <3>2. /\ now' = now /\ boot' = boot /\ msgs' = msgs + 1
          /\ latest' = [tok |-> msgs + 1, rcv |-> now, frame |-> msgs + 1,
                        src |-> now + Skew, still |-> b, boot |-> boot]
      BY <3>1 DEF Location
    <3> QED BY <3>2
  <2>2. CASE Sensor
    <3> DEFINE numbered == [latest EXCEPT !.tok = msgs + 1]
    <3>1. latest' = [numbered EXCEPT !.rcv = now]
      BY <2>2 DEF Sensor
    <3>2. /\ numbered \in Latest /\ numbered.frame = latest.frame
          /\ numbered.src = latest.src /\ numbered.boot = latest.boot
      OBVIOUS
    <3> HIDE DEF numbered
    <3> QED BY <3>1, <3>2
  <2>3. CASE Reboot \/ Tick
    BY <2>3 DEF Reboot, Tick, telVars
  <2> QED BY <2>1, <2>2, <2>3
<1>4. TypeOK'
  BY <1>1, <1>2, <1>3 DEF TypeOK, opVars, reqVars, cmdVars
<1>5. KeysKnown'
  <2>2. latest \in Latest /\ wrk.key \in Latest
    BY DEF TypeOK
  <2>3. latest'.frame # 0 =>
          latest'.frame \in 1 .. msgs' /\ latest'.boot \in 1 .. boot' /\ latest'.src <= now' + Skew
    BY <1>2, <1>3, <2>2 DEF KeysKnown, Keys, TypeOK, Latest
  <2>4. wrk'.key.frame # 0 =>
          wrk'.key.frame \in 1 .. msgs' /\ wrk'.key.boot \in 1 .. boot' /\ wrk'.key.src <= now' + Skew
    BY <1>1, <1>2, <2>2 DEF KeysKnown, Keys, TypeOK, Latest
  <2> QED BY <2>3, <2>4 DEF KeysKnown, Keys
<1>6. CountStops'
  BY <1>1, <1>2 DEF CountStops, opVars, reqVars, TypeOK
<1>7. FullSuccess'
  BY <1>1 DEF FullSuccess, opVars, cmdVars
<1> QED BY <1>2, <1>4, <1>5, <1>6, <1>7 DEF TypeOK

\* The answers to the commands: the first answer of a stop stays.
LEMMA AnswerStep ==
  ASSUME StopInv, NEW o \in Ops,
         \/ \E r \in {"accepted", "rejected"} : StopAnswered(o, r)
         \/ StopUnconfirmed(o) \/ CancelAccepted(o) \/ TaskStatus(o)
  PROVE  StopInv'
<1> USE StopAssumption DEF StopInv
<1>1. UNCHANGED <<now, boot, telVars, wrk, nextRun, opVars, reqVars>>
  BY DEF StopAnswered, StopUnconfirmed, CancelAccepted, TaskStatus
<1>2. /\ stopAck' \in [Ops -> {"none", "accepted", "rejected"}]
      /\ \A p \in Ops : stopAck[p] = "accepted" => stopAck'[p] = "accepted"
  BY DEF StopAnswered, StopUnconfirmed, CancelAccepted, TaskStatus, TypeOK
<1>3. stopLost' \subseteq Ops /\ cancelAck' \subseteq Ops /\ cancelled' \subseteq Ops
  BY DEF StopAnswered, StopUnconfirmed, CancelAccepted, TaskStatus, TypeOK
<1>4. TypeOK'
  BY <1>1, <1>2, <1>3 DEF TypeOK, telVars, opVars, reqVars
<1>5. KeysKnown' /\ CountStops'
  BY <1>1 DEF KeysKnown, Keys, CountStops, telVars, opVars, reqVars
<1>6. FullSuccess'
  BY <1>1, <1>2 DEF FullSuccess, opVars
<1> QED BY <1>1, <1>4, <1>5, <1>6

\* The worker outside its transaction.
LEMMA CycleSteps ==
  ASSUME StopInv, (\E b \in BOOLEAN : CycleStart(b)) \/ CycleFails \/ Flush
  PROVE  StopInv'
<1> USE StopAssumption DEF StopInv
<1>1. UNCHANGED <<now, boot, msgs, opVars, reqVars, cmdVars>>
  BY DEF CycleStart, CycleFails, Flush, telVars
<1>2. latest' \in {latest, wrk.key} /\ wrk'.key \in {latest, wrk.key, Empty}
  <2>1. CASE \E b \in BOOLEAN : CycleStart(b)
    BY <2>1 DEF CycleStart, telVars
  <2>2. CASE CycleFails \/ Flush
    BY <2>2 DEF CycleFails, Flush, IdleWorker, telVars
  <2> QED BY <2>1, <2>2
<1>3. /\ wrk' \in [pc : {"idle", "run", "flush"}, at : Nat, dirty : BOOLEAN, key : Latest]
      /\ nextRun' \in Nat /\ latest' \in Latest
  <2>1. CASE \E b \in BOOLEAN : CycleStart(b)
    <3>1. CycleTime \in Nat
      BY DEF CycleTime, TypeOK
    <3> QED BY <2>1, <3>1 DEF CycleStart, telVars, TypeOK
  <2>2. CASE CycleFails \/ Flush
    BY <2>2, EndOfCycle DEF CycleFails, Flush, telVars, TypeOK
  <2> QED BY <2>1, <2>2
<1>4. TypeOK'
  BY <1>1, <1>3 DEF TypeOK, opVars, reqVars, cmdVars
<1>5. KeysKnown'
  BY <1>1, <1>2 DEF KeysKnown, Keys, Empty
<1>6. CountStops' /\ FullSuccess'
  BY <1>1 DEF CountStops, FullSuccess, opVars, reqVars, cmdVars
<1> QED BY <1>1, <1>4, <1>5, <1>6

\* The counts a cycle writes are in range, and a frame counted is known.
LEMMA ReconcileCounts ==
  ASSUME StopInv, Reconcile
  PROVE  /\ frames' \in [Ops -> 0 .. Frames] /\ last' \in [Ops -> Nat]
         /\ endedAt' \in [Ops -> Nat]
         /\ \A o \in Ops : proof'[o] \subseteq (1 .. msgs) \X (1 .. boot)
<1> USE StopAssumption DEF StopInv
<1>1. \A o \in Watched : o \in Ops /\ frames[o] \in 0 .. Frames /\ frames[o] # Frames
  BY DEF Watched, Open, CountStops, TypeOK
<1>2. \A o \in Watched : CountedFrames(o) \in 0 .. Frames
  BY <1>1, CountedRange
<1>3. frames' \in [Ops -> 0 .. Frames]
  BY <1>2 DEF Reconcile, TypeOK
<1>4. last' \in [Ops -> Nat] /\ endedAt' \in [Ops -> Nat]
  BY DEF Reconcile, TypeOK, Latest
<1>5. \A o \in Ops : proof'[o] \subseteq (1 .. msgs) \X (1 .. boot)
  <2> TAKE o \in Ops
  <2>1. proof[o] \subseteq (1 .. msgs) \X (1 .. boot)
    BY DEF TypeOK
  <2>2. CASE proof'[o] \subseteq proof[o]
    BY <2>1, <2>2
  <2>3. CASE ~(proof'[o] \subseteq proof[o])
    <3>1. /\ proof'[o] = proof[o] \cup {<<latest.frame, latest.boot>>}
          /\ CountedFrames(o) # 0 /\ CountedFrames(o) # frames[o]
      BY <2>3 DEF Reconcile
    <3>2. latest.frame # 0
      BY <3>1 DEF CountedFrames, Fresh
    <3>3. <<latest.frame, latest.boot>> \in (1 .. msgs) \X (1 .. boot)
      BY <3>2 DEF KeysKnown, Keys
    <3> QED BY <2>1, <3>1, <3>3
  <2> QED BY <2>2, <2>3
<1> QED BY <1>3, <1>4, <1>5

\* The reconciliation of a cycle.
LEMMA ReconcileStep ==
  ASSUME StopInv, Reconcile
  PROVE  StopInv'
<1> USE StopAssumption DEF StopInv
<1>1. UNCHANGED <<now, boot, telVars, reqVars, cmdVars>> /\ CycleEnd
  BY DEF Reconcile
<1>2. /\ state' \in [Ops -> States] /\ motion' \in [Ops -> Motions]
      /\ mission' \in [Ops -> Missions]
  BY VerdictRange DEF Reconcile, TypeOK
<1>3. TypeOK'
  BY <1>1, <1>2, ReconcileCounts, EndOfCycle DEF TypeOK, telVars, reqVars, cmdVars
<1>4. KeysKnown'
  <2>1. latest' = latest /\ wrk'.key \in {wrk.key, Empty}
    BY <1>1, EndOfCycle DEF telVars
  <2> QED BY <1>1, <2>1 DEF KeysKnown, Keys, Empty, telVars
<1>5. CountStops'
  <2> SUFFICES ASSUME NEW o \in Ops
               PROVE  /\ motion'[o] = "STATIONARY_CONFIRMED" <=> frames'[o] = Frames
                      /\ state'[o] = "NONE" => proof'[o] = {} /\ snapshot'[o] = 0
                      /\ snapshot'[o] <= boot'
    BY DEF CountStops
  <2>1. snapshot'[o] = snapshot[o] /\ boot' = boot
    BY <1>1 DEF reqVars
  <2>2. CASE o \in Watched
    <3>1. frames'[o] = CountedFrames(o) /\ motion'[o] = MotionOf(o)
      BY <2>2 DEF Reconcile, Watched, TypeOK
    <3>2. CountedFrames(o) \in 0 .. Frames
      BY <3>1, ReconcileCounts
    <3>3. Stationary(o) <=> CountedFrames(o) = Frames
      BY <2>2, <3>2 DEF Stationary, Watched
    <3>4. MotionOf(o) = "STATIONARY_CONFIRMED" <=> Stationary(o)
      BY DEF MotionOf
    <3>5. state'[o] # "NONE"
      BY <2>2, VerdictRange DEF Reconcile, Watched, TypeOK
    <3> QED BY <2>1, <3>1, <3>3, <3>4, <3>5 DEF CountStops
  <2>3. CASE o \in Open \ Watched
    <3>1. frames'[o] = frames[o] /\ motion[o] = "STATIONARY_CONFIRMED" /\ motion'[o] = MotionOf(o)
      BY <2>3 DEF Reconcile, Watched, TypeOK
    <3>2. MotionOf(o) = "STATIONARY_CONFIRMED"
      BY <3>1 DEF MotionOf, Stationary
    <3>3. state'[o] # "NONE"
      BY <2>3, VerdictRange DEF Reconcile, TypeOK
    <3> QED BY <2>1, <3>1, <3>2, <3>3 DEF CountStops
  <2>4. CASE o \notin Open
    <3>1. /\ frames'[o] = frames[o] /\ motion'[o] = motion[o] /\ state'[o] = state[o]
          /\ proof'[o] = proof[o]
      BY <2>4 DEF Reconcile, Watched, TypeOK
    <3> QED BY <2>1, <3>1 DEF CountStops
  <2> QED BY <2>2, <2>3, <2>4
<1>6. FullSuccess'
  <2> SUFFICES ASSUME NEW o \in Ops, state'[o] = "VEHICLE_STATIONARY_CONFIRMED"
               PROVE  /\ stopAck[o] = "accepted"
                      /\ motion'[o] = "STATIONARY_CONFIRMED"
                      /\ mission'[o] \in {"NOT_REQUIRED", "CANCELLED_CONFIRMED"}
    BY <1>1 DEF FullSuccess, cmdVars
  <2>1. CASE o \in Open
    <3>1. /\ Verdict(o) = "VEHICLE_STATIONARY_CONFIRMED" /\ motion'[o] = MotionOf(o)
          /\ mission'[o] = Mission(o)
      BY <2>1 DEF Reconcile, TypeOK
    <3> QED BY <3>1 DEF Verdict, MotionOf, StopConfirmed
  <2>2. CASE o \notin Open
    <3>1. motion'[o] = motion[o] /\ state'[o] = state[o] /\ mission'[o] = mission[o]
      BY <2>2 DEF Reconcile, TypeOK
    <3> QED BY <3>1 DEF FullSuccess
  <2> QED BY <2>1, <2>2
<1> QED BY <1>1, <1>3, <1>4, <1>5, <1>6

LEMMA StopStepInv ==
  ASSUME StopInv, [Next]_vars
  PROVE  StopInv'
<1>1. ASSUME NEW o \in Ops, NEW m \in Situations, NEW b \in BOOLEAN, Request(o, m, b)
      PROVE  StopInv'
  BY <1>1, RequestStep
<1>2. CASE (\E b \in BOOLEAN : Location(b)) \/ Sensor \/ Reboot \/ Tick
  BY <1>2, OutsideStep
<1>3. ASSUME NEW o \in Ops,
             \/ \E r \in {"accepted", "rejected"} : StopAnswered(o, r)
             \/ StopUnconfirmed(o) \/ CancelAccepted(o) \/ TaskStatus(o)
      PROVE  StopInv'
  BY <1>3, AnswerStep
<1>4. CASE (\E b \in BOOLEAN : CycleStart(b)) \/ CycleFails \/ Flush
  BY <1>4, CycleSteps
<1>5. CASE Reconcile
  BY <1>5, ReconcileStep
<1>6. CASE UNCHANGED vars
  BY <1>6 DEF StopInv, TypeOK, KeysKnown, Keys, CountStops, FullSuccess, vars, telVars,
              opVars, reqVars, cmdVars
<1> QED BY <1>1, <1>2, <1>3, <1>4, <1>5, <1>6 DEF Next

\* reconcile_stop_operations, task-worker main.py: the rows of the operations,
\* the key and the worker's copy of it stay in their domains, and the count of
\* frames reaches the number required exactly when a standstill is confirmed.
THEOREM StopInvariance == Spec => []StopInv
BY StopInitInv, StopStepInv, PTL DEF Spec

\* Full success is only claimed for an accepted stop command, an observed
\* standstill and a mission that does not go on.
THEOREM FullSuccessHolds == Spec => []FullSuccess
<1>1. StopInv => FullSuccess
  BY DEF StopInv
<1> QED BY <1>1, StopInvariance, PTL

\* A confirmed standstill is never taken back and a concluded operation never
\* changes again, whatever arrives late.
THEOREM OutcomeStandsHolds == Spec => OutcomeStands
<1> DEFINE Stands(o) ==
       /\ motion[o] = "STATIONARY_CONFIRMED" => motion'[o] = motion[o]
       /\ state[o] \in Terminal =>
            /\ state'[o] = state[o] /\ mission'[o] = mission[o]
            /\ motion'[o] = motion[o] /\ endedAt'[o] = endedAt[o]
<1>1. ASSUME StopInv, [Next]_vars, NEW o \in Ops
      PROVE  Stands(o)
  <2>1. ASSUME NEW p \in Ops, NEW m \in Situations, NEW b \in BOOLEAN, Request(p, m, b)
        PROVE  Stands(o)
    <3>1. state[p] \notin Terminal /\ motion' = motion /\ endedAt' = endedAt
      BY <2>1 DEF Request, Terminal
    <3>2. p # o => state'[o] = state[o] /\ mission'[o] = mission[o]
      BY <1>1, <2>1 DEF Request, StopInv, TypeOK
    <3> QED BY <3>1, <3>2
  <2>2. CASE Reconcile
    <3>1. CASE o \notin Open
      BY <1>1, <2>2, <3>1 DEF Reconcile
    <3>2. CASE o \in Open
      <4>1. state[o] \notin Terminal /\ motion'[o] = MotionOf(o)
        BY <2>2, <3>2 DEF Reconcile, Open
      <4> QED BY <4>1 DEF MotionOf, Stationary
    <3> QED BY <3>1, <3>2
  <2>3. CASE UNCHANGED opVars
    BY <2>3 DEF opVars
  <2>4. UNCHANGED opVars \/ Reconcile \/ \E p \in Ops, m \in Situations, b \in BOOLEAN : Request(p, m, b)
    BY <1>1 DEF Next, Location, CycleStart, Sensor, Reboot, StopAnswered, StopUnconfirmed,
                CancelAccepted, TaskStatus, CycleFails, Flush, Tick, vars
  <2> QED BY <2>1, <2>2, <2>3, <2>4
<1>2. StopInv /\ [Next]_vars => [\A o \in Ops : Stands(o)]_vars
  BY <1>1
<1> QED BY <1>2, StopInvariance, PTL DEF Spec, OutcomeStands

-----------------------------------------------------------------------------
(* The evidence behind a standstill                                        *)

\* At the start every count is 0 and nothing was counted.
LEMMA EvidenceInit == Init => EvidenceInv
<1> SUFFICES ASSUME Init PROVE EvidenceInv
  OBVIOUS
<1>1. \A o \in Ops : proof[o] = {} /\ frames[o] = 0 /\ snapshot[o] # boot
  BY DEF Init
<1>2. CountedOnce
  BY <1>1, FS_EmptySet DEF CountedOnce
<1>3. OldCountedOnce
  BY <1>1 DEF OldCountedOnce
<1> QED BY <1>2, <1>3 DEF EvidenceInv

\* Within a boot session the evidence stands as long as no frame is counted,
\* what is gone stays gone, and a frame in the key is known, gone or new.
LEMMA EvidenceKept ==
  ASSUME StopInv, EvidenceInv,
         UNCHANGED <<boot, frames, proof>>,
         \A o \in Ops : snapshot'[o] = snapshot[o] \/ proof[o] = {},
         \A k \in Keys : Gone(k) => Gone(k)',
         \A k \in Keys' : \/ k \in Keys
                          \/ Gone(k)'
                          \/ k.frame \notin 1 .. msgs /\ k.boot = boot
                          \/ \E j \in Keys : /\ k.frame = j.frame /\ k.src = j.src
                                             /\ k.boot = j.boot
  PROVE  EvidenceInv'
<1>1. \A j \in Keys : \A k : k.frame = j.frame /\ k.src = j.src /\ Gone(j)' => Gone(k)'
  BY DEF Gone
<1>2. CountedOnce'
  <2> SUFFICES ASSUME NEW o \in Ops, NEW k \in Keys', NEW e \in proof[o], k.frame = e[1]
               PROVE  Gone(k)'
    BY DEF EvidenceInv, CountedOnce
  <2>1. e[1] \in 1 .. msgs
    BY DEF StopInv, TypeOK
  <2>2. \A j \in Keys : j.frame = e[1] => Gone(j)'
    BY DEF EvidenceInv, CountedOnce
  <2> QED BY <1>1, <2>1, <2>2
<1>3. OldCountedOnce'
  <2> SUFFICES ASSUME NEW o \in Ops, snapshot'[o] = boot, proof[o] # {}
               PROVE  /\ \A k \in Keys' : k.boot # boot => Gone(k)'
                      /\ \A e, f \in proof[o] : e[2] # boot /\ f[2] # boot => e = f
    BY DEF OldCountedOnce
  <2>1. snapshot[o] = boot
    OBVIOUS
  <2>2. \A k \in Keys : k.boot # boot => Gone(k)'
    BY <2>1 DEF EvidenceInv, OldCountedOnce
  <2>3. \A e, f \in proof[o] : e[2] # boot /\ f[2] # boot => e = f
    BY <2>1 DEF EvidenceInv, OldCountedOnce
  <2> QED BY <1>1, <2>2, <2>3
<1> QED BY <1>2, <1>3 DEF EvidenceInv

\* Requests, messages, answers and the clock. A reboot leaves no operation of
\* the boot session that begins.
LEMMA EvidenceOutside ==
  ASSUME StopInv, EvidenceInv,
         \/ \E o \in Ops, m \in Situations, b \in BOOLEAN : Request(o, m, b)
         \/ \E b \in BOOLEAN : Location(b)
         \/ Sensor \/ Reboot \/ Tick
         \/ \E o \in Ops : \/ \E r \in {"accepted", "rejected"} : StopAnswered(o, r)
                           \/ StopUnconfirmed(o) \/ CancelAccepted(o) \/ TaskStatus(o)
  PROVE  EvidenceInv'
<1> USE StopAssumption
<1>1. UNCHANGED <<wrk, nextRun, frames, proof>>
  BY DEF Request, Location, Sensor, Reboot, Tick, StopAnswered, StopUnconfirmed,
         CancelAccepted, TaskStatus, opVars
<1>2. now' \in Nat /\ now' >= now /\ now \in Nat
  BY DEF Request, Location, Sensor, Reboot, Tick, StopAnswered, StopUnconfirmed,
         CancelAccepted, TaskStatus, StopInv, TypeOK
<1>3. \A k \in Keys : Gone(k) => Gone(k)'
  <2> SUFFICES ASSUME NEW k \in Keys, Gone(k), k.frame # 0 PROVE k.src + Freshness < NextLook'
    BY DEF Gone
  <2>1. k.src + Freshness \in Nat /\ NextLook \in Nat /\ k.src + Freshness < NextLook
    BY DEF Gone, NextLook, Keys, StopInv, TypeOK, Latest
  <2>2. NextLook' \in Nat /\ NextLook' >= NextLook
    <3>1. wrk.at \in Nat /\ nextRun \in Nat /\ Period \in Nat
      BY DEF StopInv, TypeOK
    <3>2. NextLook = (IF wrk.pc = "run" THEN wrk.at ELSE IF wrk.pc = "idle" THEN nextRun ELSE now + Period)
      BY DEF NextLook
    <3>3. NextLook' = (IF wrk.pc = "run" THEN wrk.at ELSE IF wrk.pc = "idle" THEN nextRun ELSE now' + Period)
      BY <1>1 DEF NextLook
    <3>4. NextLook' = NextLook \/ (NextLook = now + Period /\ NextLook' = now' + Period)
      BY <3>2, <3>3
    <3>5. NextLook \in Nat
      BY <1>2, <3>1, <3>2
    <3> QED BY <1>2, <3>1, <3>4, <3>5
  <2> QED BY <2>1, <2>2
<1>4. CASE Reboot
  <2>1. /\ \A o \in Ops : snapshot'[o] # boot'
        /\ Keys' = Keys
    BY <1>4 DEF Reboot, StopInv, CountStops, TypeOK, Keys, reqVars, telVars
  <2>2. CountedOnce'
    BY <1>1, <1>3, <2>1 DEF EvidenceInv, CountedOnce
  <2>3. OldCountedOnce'
    BY <2>1 DEF OldCountedOnce
  <2> QED BY <2>2, <2>3 DEF EvidenceInv
<1>5. CASE ~Reboot
  <2>1. boot' = boot
    BY <1>5 DEF Request, Location, Sensor, Tick, StopAnswered, StopUnconfirmed,
                CancelAccepted, TaskStatus
  <2>2. \A o \in Ops : snapshot'[o] = snapshot[o] \/ proof[o] = {}
    <3>1. CASE UNCHANGED reqVars
      BY <3>1 DEF reqVars
    <3>2. CASE \E o \in Ops, m \in Situations, b \in BOOLEAN : Request(o, m, b)
      BY <3>2 DEF Request, StopInv, CountStops, TypeOK
    <3> QED BY <1>5, <3>1, <3>2 DEF Location, Sensor, Tick, StopAnswered, StopUnconfirmed,
                                    CancelAccepted, TaskStatus
  <2>3. \/ latest' = latest
        \/ latest'.frame \notin 1 .. msgs /\ latest'.boot = boot
        \/ latest'.frame = latest.frame /\ latest'.src = latest.src /\ latest'.boot = latest.boot
    <3>1. CASE \E b \in BOOLEAN : Location(b)
      BY <3>1 DEF Location, StopInv, TypeOK
    <3>2. CASE Sensor
      <4> DEFINE numbered == [latest EXCEPT !.tok = msgs + 1]
      <4>1. latest' = [numbered EXCEPT !.rcv = now]
        BY <3>2 DEF Sensor
      <4>2. /\ numbered \in Latest /\ numbered.frame = latest.frame
            /\ numbered.src = latest.src /\ numbered.boot = latest.boot
        BY DEF StopInv, TypeOK, Latest
      <4> HIDE DEF numbered
      <4> QED BY <4>1, <4>2 DEF Latest
    <3>3. CASE UNCHANGED telVars
      BY <3>3 DEF telVars
    <3> QED BY <1>5, <3>1, <3>2, <3>3 DEF Request, Tick, StopAnswered, StopUnconfirmed,
                                          CancelAccepted, TaskStatus
  <2>4. \A k \in Keys' : \/ k \in Keys
                         \/ Gone(k)'
                         \/ k.frame \notin 1 .. msgs /\ k.boot = boot
                         \/ \E j \in Keys : /\ k.frame = j.frame /\ k.src = j.src
                                            /\ k.boot = j.boot
    BY <1>1, <2>3 DEF Keys
  <2> QED BY <1>1, <1>3, <2>1, <2>2, <2>4, EvidenceKept
<1> QED BY <1>4, <1>5

\* When a cycle has ended, what it saw is stale for the next one.
LEMMA SeenIsGone ==
  ASSUME StopInv, Paced, UNCHANGED now, latest' \in Keys,
         CycleEnd \/ (wrk' = IdleWorker /\ nextRun' = NextRun)
  PROVE  \A k \in Keys' : Gone(k)'
<1> USE StopAssumption
<1>1. /\ wrk'.key \in {wrk.key, Empty}
      /\ \/ wrk'.pc = "flush"
         \/ wrk'.pc = "idle" /\ nextRun' = now + Period
  BY EndOfCycle DEF StopInv
<1>2. NextLook' = now + Period
  BY <1>1 DEF NextLook
<1> TAKE k \in Keys'
<1>3. k \in Keys \/ k = Empty
  BY <1>1 DEF Keys
<1>4. CASE k \in Keys
  <2>1. k.frame # 0 => k.src \in Nat /\ k.src <= now + Skew /\ now \in Nat
    BY <1>4 DEF StopInv, KeysKnown, Keys, TypeOK, Latest
  <2> QED BY <1>2, <2>1 DEF Gone, Paced
<1>5. CASE k = Empty
  BY <1>5 DEF Empty, Gone
<1> QED BY <1>3, <1>4, <1>5

\* The worker outside its reconciliation counts nothing.
LEMMA EvidenceCycle ==
  ASSUME StopInv, EvidenceInv, Paced,
         (\E b \in BOOLEAN : CycleStart(b)) \/ CycleFails \/ Flush
  PROVE  EvidenceInv'
<1> USE StopAssumption
<1>1. UNCHANGED <<now, boot, snapshot, frames, proof>>
  BY DEF CycleStart, CycleFails, Flush, opVars, reqVars
<1>2. CASE \E b \in BOOLEAN : CycleStart(b)
  <2>1. Keys' = {latest} /\ NextLook = nextRun /\ NextLook' = CycleTime
    BY <1>2 DEF CycleStart, Keys, NextLook, telVars
  <2>2. CycleTime >= nextRun /\ CycleTime \in Nat /\ nextRun \in Nat
    BY DEF CycleTime, StopInv, TypeOK
  <2>3. \A k \in Keys : Gone(k) => Gone(k)'
    <3> SUFFICES ASSUME NEW k \in Keys, Gone(k), k.frame # 0 PROVE k.src + Freshness < NextLook'
      BY DEF Gone
    <3>1. k.src + Freshness \in Nat
      BY DEF Keys, StopInv, TypeOK, Latest
    <3> QED BY <2>1, <2>2, <3>1 DEF Gone
  <2> QED BY <1>1, <2>1, <2>3, EvidenceKept DEF Keys
<1>3. CASE CycleFails \/ Flush
  <2>1. latest' \in Keys /\ wrk' = IdleWorker /\ nextRun' = NextRun
    BY <1>3 DEF CycleFails, Flush, Keys, telVars
  <2>2. \A k \in Keys' : Gone(k)'
    BY <1>1, <2>1, SeenIsGone
  <2>3. CountedOnce'
    BY <1>1, <2>2 DEF EvidenceInv, CountedOnce
  <2>4. OldCountedOnce'
    BY <1>1, <2>2 DEF EvidenceInv, OldCountedOnce
  <2> QED BY <2>3, <2>4 DEF EvidenceInv
<1> QED BY <1>2, <1>3

\* A frame that a cycle counts is recent, so it was not counted before; and if
\* it is of an older boot session, it is the only one.
LEMMA EvidenceReconcile ==
  ASSUME StopInv, EvidenceInv, Paced, Reconcile
  PROVE  EvidenceInv'
<1> USE StopAssumption
<1>1. UNCHANGED <<now, boot, snapshot, latest>> /\ CycleEnd
  BY DEF Reconcile, reqVars, telVars
<1>2. \A k \in Keys' : Gone(k)'
  BY <1>1, SeenIsGone DEF Keys
<1> DEFINE e == <<latest.frame, latest.boot>>
<1>3. ASSUME NEW o \in Ops
      PROVE  \/ proof'[o] = {} /\ frames'[o] = 0
             \/ proof'[o] = proof[o] /\ frames'[o] = frames[o]
             \/ proof'[o] = proof[o] \cup {e} /\ frames'[o] = frames[o] + 1 /\ Fresh
  <2>1. CASE o \in Watched
    <3>1. frames'[o] = CountedFrames(o)
      BY <2>1 DEF Reconcile
    <3>2. frames[o] \in Nat
      BY DEF StopInv, TypeOK
    <3>3. CASE CountedFrames(o) = 0
      BY <2>1, <3>1, <3>3 DEF Reconcile
    <3>4. CASE CountedFrames(o) # 0 /\ CountedFrames(o) = frames[o]
      BY <2>1, <3>1, <3>4 DEF Reconcile
    <3>5. CASE CountedFrames(o) # 0 /\ CountedFrames(o) # frames[o]
      <4>1. Fresh /\ CountedFrames(o) = frames[o] + 1
        BY <3>2, <3>5 DEF CountedFrames
      <4>2. proof'[o] = proof[o] \cup {e}
        BY <2>1, <3>5 DEF Reconcile
      <4> QED BY <3>1, <4>1, <4>2
    <3> QED BY <3>3, <3>4, <3>5
  <2>2. CASE o \notin Watched
    BY <2>2 DEF Reconcile
  <2> QED BY <2>1, <2>2
<1>4. Fresh => latest.frame # 0 /\ ~Gone(latest)
  <2>1. NextLook = wrk.at
    BY DEF Reconcile, NextLook
  <2>2. latest.src \in Nat /\ wrk.at \in Nat
    BY DEF StopInv, TypeOK, Latest
  <2> QED BY <2>1, <2>2 DEF Fresh, Gone
<1>5. CountedOnce'
  <2> SUFFICES ASSUME NEW o \in Ops
               PROVE  IsFiniteSet(proof'[o]) /\ frames'[o] <= Cardinality(proof'[o])
    BY <1>2 DEF CountedOnce
  <2>1. IsFiniteSet(proof[o]) /\ frames[o] <= Cardinality(proof[o]) /\ frames[o] \in Nat
    BY DEF EvidenceInv, CountedOnce, StopInv, TypeOK
  <2>2. CASE proof'[o] = {} /\ frames'[o] = 0
    BY <2>2, FS_EmptySet
  <2>3. CASE proof'[o] = proof[o] \cup {e} /\ frames'[o] = frames[o] + 1 /\ Fresh
    <3>1. e \notin proof[o]
      <4> SUFFICES ASSUME e \in proof[o] PROVE FALSE
        OBVIOUS
      <4>1. latest \in Keys /\ latest.frame = e[1]
        BY DEF Keys
      <4>2. Gone(latest)
        BY <4>1 DEF EvidenceInv, CountedOnce
      <4> QED BY <1>4, <2>3, <4>2
    <3>2. Cardinality(proof[o]) \in Nat
      BY <2>1, FS_CardinalityType
    <3>3. IsFiniteSet(proof'[o]) /\ Cardinality(proof'[o]) = Cardinality(proof[o]) + 1
      BY <2>1, <2>3, <3>1, FS_AddElement
    <3> QED BY <2>1, <2>3, <3>2, <3>3
  <2> QED BY <1>3, <2>1, <2>2, <2>3
<1>6. OldCountedOnce'
  <2> SUFFICES ASSUME NEW o \in Ops, snapshot[o] = boot
               PROVE  \A f, g \in proof'[o] : f[2] # boot /\ g[2] # boot => f = g
    BY <1>1, <1>2 DEF OldCountedOnce
  <2>1. /\ proof[o] # {} /\ latest.boot # boot => Gone(latest)
        /\ \A f, g \in proof[o] : f[2] # boot /\ g[2] # boot => f = g
    BY DEF EvidenceInv, OldCountedOnce, Keys
  <2>2. CASE proof'[o] = proof[o] \cup {e} /\ Fresh
    <3>1. proof[o] = {} \/ e[2] = boot
      BY <1>4, <2>1, <2>2
    <3> HIDE DEF e
    <3> QED BY <2>1, <2>2, <3>1
  <2> QED BY <1>3, <2>1, <2>2
<1> QED BY <1>5, <1>6 DEF EvidenceInv

LEMMA EvidenceStep ==
  ASSUME StopInv, EvidenceInv, Paced, [Next]_vars
  PROVE  EvidenceInv'
<1>1. CASE \/ \E o \in Ops, m \in Situations, b \in BOOLEAN : Request(o, m, b)
           \/ \E b \in BOOLEAN : Location(b)
           \/ Sensor \/ Reboot \/ Tick
           \/ \E o \in Ops : \/ \E r \in {"accepted", "rejected"} : StopAnswered(o, r)
                             \/ StopUnconfirmed(o) \/ CancelAccepted(o) \/ TaskStatus(o)
  BY <1>1, EvidenceOutside
<1>2. CASE (\E b \in BOOLEAN : CycleStart(b)) \/ CycleFails \/ Flush
  BY <1>2, EvidenceCycle
<1>3. CASE Reconcile
  BY <1>3, EvidenceReconcile
<1>4. CASE UNCHANGED vars
  BY <1>4 DEF EvidenceInv, CountedOnce, OldCountedOnce, Keys, Gone, NextLook, vars, telVars,
              opVars, reqVars
<1> QED BY <1>1, <1>2, <1>3, <1>4 DEF Next

\* The counting of advance_stationary_frames on a vehicle whose clock is right:
\* every frame counted is a different one.
THEOREM EvidenceInvariance ==
  ASSUME Paced
  PROVE  Spec => []EvidenceInv
<1>1. StopInv /\ EvidenceInv /\ [Next]_vars => EvidenceInv'
  BY EvidenceStep
<1> QED BY <1>1, EvidenceInit, StopInvariance, PTL DEF Spec

\* A standstill is confirmed by as many different motion observations as are
\* required, however often the worker looked at each of them and although it
\* may write an old key back.
THEOREM EvidenceIsDistinct ==
  ASSUME Paced
  PROVE  Spec => []DistinctEvidence
<1>1. StopInv /\ EvidenceInv => DistinctEvidence
  BY DEF StopInv, EvidenceInv, CountedOnce, CountStops, DistinctEvidence
<1> QED BY <1>1, StopInvariance, EvidenceInvariance, PTL

\* The frames behind a field verification are of the boot session it is claimed
\* for, but for one that was on record at the request.
THEOREM EvidenceIsOfThisBoot ==
  ASSUME Paced
  PROVE  Spec => []EvidenceOfThisBoot
<1> USE StopAssumption
<1>1. ASSUME StopInv, EvidenceInv, NEW o \in Ops, FieldVerified(o)
      PROVE  Cardinality({e \in proof[o] : e[2] = boot}) >= Frames - 1
  <2> DEFINE here == {e \in proof[o] : e[2] = boot}
             others == {e \in proof[o] : e[2] # boot}
  <2>1. /\ IsFiniteSet(proof[o]) /\ frames[o] \in Nat /\ Frames <= frames[o]
        /\ frames[o] <= Cardinality(proof[o])
    BY <1>1 DEF StopInv, TypeOK, EvidenceInv, CountedOnce, FieldVerified
  <2>2. \A e, f \in others : e = f
    BY <1>1 DEF EvidenceInv, OldCountedOnce, FieldVerified
  <2>3. Cardinality(proof[o]) \in Nat
    BY <2>1, FS_CardinalityType
  <2>4. CASE others = {}
    <3>1. here = proof[o]
      BY <2>4
    <3>2. Cardinality(here) = Cardinality(proof[o])
      BY <3>1
    <3> HIDE DEF here
    <3>3. Cardinality(here) >= Frames - 1
      BY <2>1, <2>3, <3>2
    <3> QED BY <3>3 DEF here
  <2>5. CASE others # {}
    <3>1. PICK e \in others : TRUE
      BY <2>5
    <3>2. here = proof[o] \ {e} /\ e \in proof[o]
      BY <2>2, <3>1
    <3>3. Cardinality(here) = Cardinality(proof[o]) - 1
      BY <2>1, <3>2, FS_RemoveElement
    <3> HIDE DEF here
    <3>4. Cardinality(here) >= Frames - 1
      BY <2>1, <2>3, <3>3
    <3> QED BY <3>4 DEF here
  <2> QED BY <2>4, <2>5
<1>2. StopInv /\ EvidenceInv => EvidenceOfThisBoot
  BY <1>1 DEF EvidenceOfThisBoot
<1> QED BY <1>2, StopInvariance, EvidenceInvariance, PTL

=============================================================================

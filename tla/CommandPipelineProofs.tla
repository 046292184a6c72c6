------------------------ MODULE CommandPipelineProofs ------------------------
(***************************************************************************)
(* Proofs about CommandPipeline for any sets of commands and dispatchers   *)
(* and any number of faults.                                               *)
(***************************************************************************)
EXTENDS CommandPipeline, TLAPS

\* Every step of the specification is a step of one of its actions.
LEMMA StepCases ==
  ASSUME Next
  PROVE
    \/ \E c \in Durable : CreateDurable(c)
    \/ \E c \in Durable : BackoffOver(c)
    \/ \E d \in Dispatchers, c \in Durable : OutboxTake(d, c)
    \/ \E c \in Safety, b \in BOOLEAN : CreateSafety(c, b)
    \/ \E c \in Safety : EnqueueSafety(c)
    \/ \E c \in Safety : EnqueueFailed(c)
    \/ \E c \in WsStop, b \in BOOLEAN : WsOpen(c, b)
    \/ \E c \in WsStop : WsEnqueue(c)
    \/ \E c \in WsStop : WsCommit(c)
    \/ \E c \in Safety \cup WsStop : ApiCrash(c)
    \/ \E c \in Safety \cup WsStop : IdlePasses(c)
    \/ \E d \in Dispatchers, c \in Safety \cup WsStop : SafetyTake(d, c)
    \/ \E d \in Dispatchers : OutboxPublish(d)
    \/ \E d \in Dispatchers : OutboxCommit(d)
    \/ \E d \in Dispatchers : SafetyPublish(d)
    \/ \E d \in Dispatchers : SafetyCommit(d)
    \/ \E d \in Dispatchers : SafetyXack(d)
    \/ \E d \in Dispatchers : TxnFails(d)
    \/ \E d \in Dispatchers : DispatcherCrash(d)
    \/ \E d \in Dispatchers, c \in Cmds : MqttFlush(d, c)
    \/ \E c \in Cmds, s \in AckKinds : IngressReadAck(c, s)
    \/ \E c \in Cmds, s \in TaskKinds : IngressReadTask(c, s)
    \/ \E c \in Cmds : Expire(c)
    \/ \E c \in Cmds : AckDeadline(c)
    \/ IngressCommit
    \/ IngressFails
    \/ WorkerRead
    \/ WorkerCommit
    \/ WorkerFails
  BY DEF Next, DurableStep, SafetyStep, WsStep, StreamStep, DispatcherStep,
         AnyStep, Cmds

\* PipelineInv is preserved by every action: the thread that carries a command
\* through the dispatcher, the ingress or the worker keeps what it relies on.
LEMMA PipelineStep == PipelineInv /\ [Next]_vars => PipelineInv'
<1> SUFFICES ASSUME PipelineInv, [Next]_vars PROVE PipelineInv'
  OBVIOUS
<1> USE CmdsAssumption
<1>a. TypeOK /\ RowInv /\ CarriedInv /\ ThreadInv /\ OutboxTruth /\ StreamTruth
  BY DEF PipelineInv
<1>1. ASSUME NEW c \in Durable, CreateDurable(c) PROVE PipelineInv'
  BY <1>a, <1>1 DEF CreateDurable, rowVars, outVars, strVars, clkVars,
      dspVars, netVars, obsVars, PipelineInv, RowInv, CarriedInv, ThreadInv,
      OutboxTruth, StreamTruth, Persisted, Found, TypeOK, Cmds, Threads, NoTxn,
      IdleThread, Lifecycle, AckKinds, TaskKinds, NoAck
<1>2. ASSUME NEW c \in Durable, BackoffOver(c) PROVE PipelineInv'
  BY <1>a, <1>2 DEF BackoffOver, rowVars, outVars, strVars, clkVars,
      dspVars, netVars, obsVars, PipelineInv, RowInv, CarriedInv, ThreadInv,
      OutboxTruth, StreamTruth, Persisted, Found, TypeOK, Cmds, Threads, NoTxn,
      IdleThread, Lifecycle, AckKinds, TaskKinds, NoAck
<1>3. ASSUME NEW d \in Dispatchers, NEW c \in Durable, OutboxTake(d, c)
      PROVE PipelineInv'
  BY <1>a, <1>3 DEF OutboxTake, Eligible, rowVars, outVars, strVars,
      clkVars, dspVars, netVars, obsVars, PipelineInv, RowInv, CarriedInv,
      ThreadInv, OutboxTruth, StreamTruth, Persisted, Found, TypeOK, Cmds,
      Threads, NoTxn, IdleThread, Lifecycle, AckKinds, TaskKinds, NoAck
<1>4. ASSUME NEW c \in Safety, NEW b \in BOOLEAN, CreateSafety(c, b)
      PROVE PipelineInv'
  BY <1>a, <1>4 DEF CreateSafety, rowVars, outVars, strVars, clkVars,
      dspVars, netVars, obsVars, PipelineInv, RowInv, CarriedInv, ThreadInv,
      OutboxTruth, StreamTruth, Persisted, Found, TypeOK, Cmds, Threads, NoTxn,
      IdleThread, Lifecycle, AckKinds, TaskKinds, NoAck
<1>5. ASSUME NEW c \in Safety, EnqueueSafety(c) PROVE PipelineInv'
  BY <1>a, <1>5 DEF EnqueueSafety, rowVars, outVars, strVars, clkVars,
      dspVars, netVars, obsVars, PipelineInv, RowInv, CarriedInv, ThreadInv,
      OutboxTruth, StreamTruth, Persisted, Found, TypeOK, Cmds, Threads, NoTxn,
      IdleThread, Lifecycle, AckKinds, TaskKinds, NoAck
<1>6. ASSUME NEW c \in Safety, EnqueueFailed(c) PROVE PipelineInv'
  BY <1>a, <1>6 DEF EnqueueFailed, rowVars, outVars, strVars, clkVars,
      dspVars, netVars, obsVars, PipelineInv, RowInv, CarriedInv, ThreadInv,
      OutboxTruth, StreamTruth, Persisted, Found, TypeOK, Cmds, Threads, NoTxn,
      IdleThread, Lifecycle, AckKinds, TaskKinds, NoAck
<1>7. ASSUME NEW c \in WsStop, NEW b \in BOOLEAN, WsOpen(c, b)
      PROVE PipelineInv'
  BY <1>a, <1>7 DEF WsOpen, rowVars, outVars, strVars, clkVars, dspVars,
      netVars, obsVars, PipelineInv, RowInv, CarriedInv, ThreadInv, OutboxTruth,
      StreamTruth, Persisted, Found, TypeOK, Cmds, Threads, NoTxn, IdleThread,
      Lifecycle, AckKinds, TaskKinds, NoAck
<1>8. ASSUME NEW c \in WsStop, WsEnqueue(c) PROVE PipelineInv'
  <2>1. TypeOK'
    <3>1. CASE UNCHANGED stream
      BY <1>a, <1>8, <3>1 DEF WsEnqueue, rowVars, outVars, strVars, clkVars,
          dspVars, netVars, obsVars, TypeOK, Cmds, Threads, NoTxn, IdleThread,
          Lifecycle, AckKinds, TaskKinds, NoAck, ThreadInv
    <3>2. CASE stream' = [stream EXCEPT ![c] = "new"]
      BY <1>a, <1>8, <3>2 DEF WsEnqueue, rowVars, outVars, strVars, clkVars,
          dspVars, netVars, obsVars, TypeOK, Cmds, Threads, NoTxn, IdleThread,
          Lifecycle, AckKinds, TaskKinds, NoAck, ThreadInv
    <3> QED
      BY <1>8, <3>1, <3>2 DEF WsEnqueue
  <2>2. RowInv'
    BY <1>a, <1>8 DEF WsEnqueue, rowVars, outVars, strVars, clkVars,
        dspVars, netVars, obsVars, TypeOK, Cmds, Threads, NoTxn, IdleThread,
        Lifecycle, AckKinds, TaskKinds, NoAck, RowInv, CarriedInv, ThreadInv,
        Persisted, Found
  <2>3. CarriedInv'
    BY <1>a, <1>8 DEF WsEnqueue, rowVars, outVars, strVars, clkVars,
        dspVars, netVars, obsVars, TypeOK, Cmds, Threads, NoTxn, IdleThread,
        Lifecycle, AckKinds, TaskKinds, NoAck, RowInv, CarriedInv, ThreadInv,
        Persisted, Found
  <2>4. ThreadInv'
    BY <1>a, <1>8 DEF WsEnqueue, rowVars, outVars, strVars, clkVars,
        dspVars, netVars, obsVars, TypeOK, Cmds, Threads, NoTxn, IdleThread,
        Lifecycle, AckKinds, TaskKinds, NoAck, RowInv, CarriedInv, ThreadInv,
        Persisted, Found
  <2>5. OutboxTruth'
    BY <1>a, <1>8 DEF WsEnqueue, rowVars, outVars, strVars, clkVars,
        dspVars, netVars, obsVars, TypeOK, Cmds, Threads, NoTxn, IdleThread,
        Lifecycle, AckKinds, TaskKinds, NoAck, ThreadInv, OutboxTruth
  <2>6. StreamTruth'
    BY <1>a, <1>8 DEF WsEnqueue, rowVars, outVars, strVars, clkVars,
        dspVars, netVars, obsVars, TypeOK, Cmds, Threads, NoTxn, IdleThread,
        Lifecycle, AckKinds, TaskKinds, NoAck, ThreadInv, StreamTruth
  <2> QED
    BY <2>1, <2>2, <2>3, <2>4, <2>5, <2>6 DEF PipelineInv
<1>9. ASSUME NEW c \in WsStop, WsCommit(c) PROVE PipelineInv'
  BY <1>a, <1>9 DEF WsCommit, rowVars, outVars, strVars, clkVars, dspVars,
      netVars, obsVars, PipelineInv, RowInv, CarriedInv, ThreadInv, OutboxTruth,
      StreamTruth, Persisted, Found, TypeOK, Cmds, Threads, NoTxn, IdleThread,
      Lifecycle, AckKinds, TaskKinds, NoAck
<1>10. ASSUME NEW c \in Safety \cup WsStop, ApiCrash(c) PROVE PipelineInv'
  BY <1>a, <1>10 DEF ApiCrash, rowVars, outVars, strVars, clkVars, dspVars,
      netVars, obsVars, PipelineInv, RowInv, CarriedInv, ThreadInv, OutboxTruth,
      StreamTruth, Persisted, Found, TypeOK, Cmds, Threads, NoTxn, IdleThread,
      Lifecycle, AckKinds, TaskKinds, NoAck
<1>11. ASSUME NEW c \in Safety \cup WsStop, IdlePasses(c) PROVE PipelineInv'
  BY <1>a, <1>11 DEF IdlePasses, rowVars, outVars, strVars, clkVars,
      dspVars, netVars, obsVars, PipelineInv, RowInv, CarriedInv, ThreadInv,
      OutboxTruth, StreamTruth, Persisted, Found, TypeOK, Cmds, Threads, NoTxn,
      IdleThread, Lifecycle, AckKinds, TaskKinds, NoAck
<1>12. ASSUME NEW d \in Dispatchers, NEW c \in Safety \cup WsStop, SafetyTake(d, c)
      PROVE PipelineInv'
  BY <1>a, <1>12 DEF SafetyTake, rowVars, outVars, strVars, clkVars,
      dspVars, netVars, obsVars, PipelineInv, RowInv, CarriedInv, ThreadInv,
      OutboxTruth, StreamTruth, Persisted, Found, TypeOK, Cmds, Threads, NoTxn,
      IdleThread, Lifecycle, AckKinds, TaskKinds, NoAck
<1>13. ASSUME NEW d \in Dispatchers, OutboxPublish(d) PROVE PipelineInv'
  <2>1. TypeOK'
    BY <1>a, <1>13 DEF OutboxPublish, PublishCommand, At, rowVars, outVars,
        strVars, clkVars, dspVars, netVars, obsVars, TypeOK, Cmds, Threads,
        NoTxn, IdleThread, Lifecycle, AckKinds, TaskKinds, NoAck, ThreadInv
  <2>2. RowInv'
    BY <1>a, <1>13 DEF OutboxPublish, PublishCommand, At, rowVars, outVars,
        strVars, clkVars, dspVars, netVars, obsVars, TypeOK, Cmds, Threads,
        NoTxn, IdleThread, Lifecycle, AckKinds, TaskKinds, NoAck, RowInv,
        CarriedInv, ThreadInv, Persisted, Found
  <2>3. CarriedInv'
    BY <1>a, <1>13 DEF OutboxPublish, PublishCommand, At, rowVars, outVars,
        strVars, clkVars, dspVars, netVars, obsVars, TypeOK, Cmds, Threads,
        NoTxn, IdleThread, Lifecycle, AckKinds, TaskKinds, NoAck, RowInv,
        CarriedInv, ThreadInv, Persisted, Found
  <2>4. ThreadInv'
    BY <1>a, <1>13 DEF OutboxPublish, PublishCommand, At, rowVars, outVars,
        strVars, clkVars, dspVars, netVars, obsVars, TypeOK, Cmds, Threads,
        NoTxn, IdleThread, Lifecycle, AckKinds, TaskKinds, NoAck, RowInv,
        CarriedInv, ThreadInv, Persisted, Found
  <2>5. OutboxTruth'
    BY <1>a, <1>13 DEF OutboxPublish, PublishCommand, At, rowVars, outVars,
        strVars, clkVars, dspVars, netVars, obsVars, TypeOK, Cmds, Threads,
        NoTxn, IdleThread, Lifecycle, AckKinds, TaskKinds, NoAck, ThreadInv,
        OutboxTruth
  <2>6. StreamTruth'
    BY <1>a, <1>13 DEF OutboxPublish, PublishCommand, At, rowVars, outVars,
        strVars, clkVars, dspVars, netVars, obsVars, TypeOK, Cmds, Threads,
        NoTxn, IdleThread, Lifecycle, AckKinds, TaskKinds, NoAck, ThreadInv,
        StreamTruth
  <2> QED
    BY <2>1, <2>2, <2>3, <2>4, <2>5, <2>6 DEF PipelineInv
<1>14. ASSUME NEW d \in Dispatchers, OutboxCommit(d) PROVE PipelineInv'
  <2> DEFINE k == obx[d].c
  <2>1. /\ k \in Durable /\ k \in Cmds /\ Persisted(k)
        /\ obx' = [obx EXCEPT ![d] = IdleThread]
        /\ ack' = ack
        /\ UNCHANGED <<strVars, netVars, obsVars, older, expired, api, saf, faults>>
    BY <1>a, <1>14 DEF OutboxCommit, MarkPublished, MarkExpired, ThreadInv,
       rowVars, Cmds
  <2>2. /\ status' \in [Cmds -> Lifecycle]
        /\ \A c \in Cmds : (status'[c] = "ABSENT") <=> (status[c] = "ABSENT")
    <3>1. CASE status' = [status EXCEPT ![k] = Assign(obx[d].seen, "PUBLISHED", @)]
      BY <1>a, <2>1, <3>1 DEF Assign, TypeOK, Lifecycle, Persisted
    <3>2. CASE status' = [status EXCEPT ![k] = Assign(obx[d].seen, "EXPIRED", @)]
      BY <1>a, <2>1, <3>2 DEF Assign, TypeOK, Lifecycle, Persisted
    <3>3. CASE status' = status
      BY <1>a, <3>3 DEF TypeOK
    <3> QED
      BY <1>14, <3>1, <3>2, <3>3 DEF OutboxCommit, MarkPublished, MarkExpired,
         rowVars
  <2>3. /\ outbox' \in [Durable -> {"NONE", "PENDING", "PUBLISHED", "EXPIRED"}]
        /\ \A c \in Durable : (outbox'[c] = "NONE") <=> (outbox[c] = "NONE")
        /\ OutboxTruth'
    BY <1>a, <1>14, <2>1 DEF OutboxCommit, TypeOK, RowInv, ThreadInv, OutboxTruth,
       netVars
  <2>4. published' \subseteq sent /\ overdue' \subseteq Cmds /\ backoff' \subseteq Durable
    BY <1>a, <1>14, <2>1 DEF OutboxCommit, MarkPublished, MarkExpired, TypeOK,
       CarriedInv, ThreadInv, rowVars
  <2>5. TypeOK'
    BY <1>a, <2>1, <2>2, <2>3, <2>4 DEF TypeOK, strVars, netVars, obsVars,
       Threads, IdleThread, Lifecycle, CarriedInv
  <2>6. RowInv' /\ CarriedInv' /\ StreamTruth'
    BY <1>a, <2>1, <2>2, <2>3, <2>4 DEF TypeOK, RowInv, CarriedInv, StreamTruth,
       Persisted, strVars, netVars, Cmds
  <2>7. ThreadInv'
    BY <1>a, <2>1, <2>2 DEF TypeOK, ThreadInv, Found, Persisted, IdleThread,
       netVars, obsVars, Cmds
  <2> QED
    BY <2>3, <2>5, <2>6, <2>7 DEF PipelineInv
<1>15. ASSUME NEW d \in Dispatchers, SafetyPublish(d) PROVE PipelineInv'
  <2>1. TypeOK'
    BY <1>a, <1>15 DEF SafetyPublish, PublishCommand, At, rowVars, outVars,
        strVars, clkVars, dspVars, netVars, obsVars, TypeOK, Cmds, Threads,
        NoTxn, IdleThread, Lifecycle, AckKinds, TaskKinds, NoAck, ThreadInv
  <2>2. RowInv'
    BY <1>a, <1>15 DEF SafetyPublish, PublishCommand, At, rowVars, outVars,
        strVars, clkVars, dspVars, netVars, obsVars, TypeOK, Cmds, Threads,
        NoTxn, IdleThread, Lifecycle, AckKinds, TaskKinds, NoAck, RowInv,
        CarriedInv, ThreadInv, Persisted, Found
  <2>3. CarriedInv'
    BY <1>a, <1>15 DEF SafetyPublish, PublishCommand, At, rowVars, outVars,
        strVars, clkVars, dspVars, netVars, obsVars, TypeOK, Cmds, Threads,
        NoTxn, IdleThread, Lifecycle, AckKinds, TaskKinds, NoAck, RowInv,
        CarriedInv, ThreadInv, Persisted, Found
  <2>4. ThreadInv'
    BY <1>a, <1>15 DEF SafetyPublish, PublishCommand, At, rowVars, outVars,
        strVars, clkVars, dspVars, netVars, obsVars, TypeOK, Cmds, Threads,
        NoTxn, IdleThread, Lifecycle, AckKinds, TaskKinds, NoAck, RowInv,
        CarriedInv, ThreadInv, Persisted, Found
  <2>5. OutboxTruth'
    BY <1>a, <1>15 DEF SafetyPublish, PublishCommand, At, rowVars, outVars,
        strVars, clkVars, dspVars, netVars, obsVars, TypeOK, Cmds, Threads,
        NoTxn, IdleThread, Lifecycle, AckKinds, TaskKinds, NoAck, ThreadInv,
        OutboxTruth
  <2>6. StreamTruth'
    BY <1>a, <1>15 DEF SafetyPublish, PublishCommand, At, rowVars, outVars,
        strVars, clkVars, dspVars, netVars, obsVars, TypeOK, Cmds, Threads,
        NoTxn, IdleThread, Lifecycle, AckKinds, TaskKinds, NoAck, ThreadInv,
        StreamTruth
  <2> QED
    BY <2>1, <2>2, <2>3, <2>4, <2>5, <2>6 DEF PipelineInv
<1>16. ASSUME NEW d \in Dispatchers, SafetyCommit(d) PROVE PipelineInv'
  <2>1. TypeOK'
    BY <1>a, <1>16 DEF SafetyCommit, MarkPublished, MarkExpired, Assign,
        Found, At, rowVars, outVars, strVars, clkVars, dspVars, netVars,
        obsVars, TypeOK, Cmds, Threads, NoTxn, IdleThread, Lifecycle, AckKinds,
        TaskKinds, NoAck, ThreadInv
  <2>2. RowInv'
    BY <1>a, <1>16 DEF SafetyCommit, MarkPublished, MarkExpired, Assign,
        Found, At, rowVars, outVars, strVars, clkVars, dspVars, netVars,
        obsVars, TypeOK, Cmds, Threads, NoTxn, IdleThread, Lifecycle, AckKinds,
        TaskKinds, NoAck, RowInv, CarriedInv, ThreadInv, Persisted
  <2>3. CarriedInv'
    BY <1>a, <1>16 DEF SafetyCommit, MarkPublished, MarkExpired, Assign,
        Found, At, rowVars, outVars, strVars, clkVars, dspVars, netVars,
        obsVars, TypeOK, Cmds, Threads, NoTxn, IdleThread, Lifecycle, AckKinds,
        TaskKinds, NoAck, RowInv, CarriedInv, ThreadInv, Persisted
  <2>4. ThreadInv'
    BY <1>a, <1>16 DEF SafetyCommit, MarkPublished, MarkExpired, Assign,
        Found, At, rowVars, outVars, strVars, clkVars, dspVars, netVars,
        obsVars, TypeOK, Cmds, Threads, NoTxn, IdleThread, Lifecycle, AckKinds,
        TaskKinds, NoAck, RowInv, CarriedInv, ThreadInv, Persisted
  <2>5. OutboxTruth'
    BY <1>a, <1>16 DEF SafetyCommit, MarkPublished, MarkExpired, Assign,
        Found, At, rowVars, outVars, strVars, clkVars, dspVars, netVars,
        obsVars, TypeOK, Cmds, Threads, NoTxn, IdleThread, Lifecycle, AckKinds,
        TaskKinds, NoAck, ThreadInv, OutboxTruth
  <2>6. StreamTruth'
    BY <1>a, <1>16 DEF SafetyCommit, MarkPublished, MarkExpired, Assign,
        Found, At, rowVars, outVars, strVars, clkVars, dspVars, netVars,
        obsVars, TypeOK, Cmds, Threads, NoTxn, IdleThread, Lifecycle, AckKinds,
        TaskKinds, NoAck, ThreadInv, StreamTruth
  <2> QED
    BY <2>1, <2>2, <2>3, <2>4, <2>5, <2>6 DEF PipelineInv
<1>17. ASSUME NEW d \in Dispatchers, SafetyXack(d) PROVE PipelineInv'
  BY <1>a, <1>17 DEF SafetyXack, rowVars, outVars, strVars, clkVars,
      dspVars, netVars, obsVars, PipelineInv, RowInv, CarriedInv, ThreadInv,
      OutboxTruth, StreamTruth, Persisted, Found, TypeOK, Cmds, Threads, NoTxn,
      IdleThread, Lifecycle, AckKinds, TaskKinds, NoAck
<1>18. ASSUME NEW d \in Dispatchers, TxnFails(d) PROVE PipelineInv'
  <2>1. TypeOK'
    <3>1. CASE obx[d].pc \in {"sent", "expired", "failed"} /\ UNCHANGED saf
      BY <1>a, <1>18, <3>1 DEF TxnFails, rowVars, outVars, strVars, clkVars,
          dspVars, netVars, obsVars, TypeOK, Cmds, Threads, NoTxn, IdleThread,
          Lifecycle, AckKinds, TaskKinds, NoAck, ThreadInv
    <3>2. CASE saf[d].pc \in {"sent", "expired", "failed"} /\ UNCHANGED obx
      BY <1>a, <1>18, <3>2 DEF TxnFails, rowVars, outVars, strVars, clkVars,
          dspVars, netVars, obsVars, TypeOK, Cmds, Threads, NoTxn, IdleThread,
          Lifecycle, AckKinds, TaskKinds, NoAck, ThreadInv
    <3> QED
      BY <1>18, <3>1, <3>2 DEF TxnFails
  <2>2. RowInv'
    BY <1>a, <1>18 DEF TxnFails, rowVars, outVars, strVars, clkVars,
        dspVars, netVars, obsVars, TypeOK, Cmds, Threads, NoTxn, IdleThread,
        Lifecycle, AckKinds, TaskKinds, NoAck, RowInv, CarriedInv, ThreadInv,
        Persisted, Found
  <2>3. CarriedInv'
    BY <1>a, <1>18 DEF TxnFails, rowVars, outVars, strVars, clkVars,
        dspVars, netVars, obsVars, TypeOK, Cmds, Threads, NoTxn, IdleThread,
        Lifecycle, AckKinds, TaskKinds, NoAck, RowInv, CarriedInv, ThreadInv,
        Persisted, Found
  <2>4. ThreadInv'
    BY <1>a, <1>18 DEF TxnFails, rowVars, outVars, strVars, clkVars,
        dspVars, netVars, obsVars, TypeOK, Cmds, Threads, NoTxn, IdleThread,
        Lifecycle, AckKinds, TaskKinds, NoAck, RowInv, CarriedInv, ThreadInv,
        Persisted, Found
  <2>5. OutboxTruth'
    BY <1>a, <1>18 DEF TxnFails, rowVars, outVars, strVars, clkVars,
        dspVars, netVars, obsVars, TypeOK, Cmds, Threads, NoTxn, IdleThread,
        Lifecycle, AckKinds, TaskKinds, NoAck, ThreadInv, OutboxTruth
  <2>6. StreamTruth'
    BY <1>a, <1>18 DEF TxnFails, rowVars, outVars, strVars, clkVars,
        dspVars, netVars, obsVars, TypeOK, Cmds, Threads, NoTxn, IdleThread,
        Lifecycle, AckKinds, TaskKinds, NoAck, ThreadInv, StreamTruth
  <2> QED
    BY <2>1, <2>2, <2>3, <2>4, <2>5, <2>6 DEF PipelineInv
<1>19. ASSUME NEW d \in Dispatchers, DispatcherCrash(d) PROVE PipelineInv'
  BY <1>a, <1>19 DEF DispatcherCrash, rowVars, outVars, strVars, clkVars,
      dspVars, netVars, obsVars, PipelineInv, RowInv, CarriedInv, ThreadInv,
      OutboxTruth, StreamTruth, Persisted, Found, TypeOK, Cmds, Threads, NoTxn,
      IdleThread, Lifecycle, AckKinds, TaskKinds, NoAck
<1>20. ASSUME NEW d \in Dispatchers, NEW c \in Cmds, MqttFlush(d, c)
      PROVE PipelineInv'
  BY <1>a, <1>20 DEF MqttFlush, rowVars, outVars, strVars, clkVars, dspVars,
      netVars, obsVars, PipelineInv, RowInv, CarriedInv, ThreadInv, OutboxTruth,
      StreamTruth, Persisted, Found, TypeOK, Cmds, Threads, NoTxn, IdleThread,
      Lifecycle, AckKinds, TaskKinds, NoAck
<1>21. ASSUME NEW c \in Cmds, NEW s \in AckKinds, IngressReadAck(c, s)
      PROVE PipelineInv'
  BY <1>a, <1>21 DEF IngressReadAck, rowVars, outVars, strVars, clkVars,
      dspVars, netVars, obsVars, PipelineInv, RowInv, CarriedInv, ThreadInv,
      OutboxTruth, StreamTruth, Persisted, Found, TypeOK, Cmds, Threads, NoTxn,
      IdleThread, Lifecycle, AckKinds, TaskKinds, NoAck
<1>22. ASSUME NEW c \in Cmds, NEW s \in TaskKinds, IngressReadTask(c, s)
      PROVE PipelineInv'
  BY <1>a, <1>22 DEF IngressReadTask, rowVars, outVars, strVars, clkVars,
      dspVars, netVars, obsVars, PipelineInv, RowInv, CarriedInv, ThreadInv,
      OutboxTruth, StreamTruth, Persisted, Found, TypeOK, Cmds, Threads, NoTxn,
      IdleThread, Lifecycle, AckKinds, TaskKinds, NoAck
<1>23. ASSUME NEW c \in Cmds, Expire(c) PROVE PipelineInv'
  BY <1>a, <1>23 DEF Expire, rowVars, outVars, strVars, clkVars, dspVars,
      netVars, obsVars, PipelineInv, RowInv, CarriedInv, ThreadInv, OutboxTruth,
      StreamTruth, Persisted, Found, TypeOK, Cmds, Threads, NoTxn, IdleThread,
      Lifecycle, AckKinds, TaskKinds, NoAck
<1>24. ASSUME NEW c \in Cmds, AckDeadline(c) PROVE PipelineInv'
  BY <1>a, <1>24 DEF AckDeadline, rowVars, outVars, strVars, clkVars,
      dspVars, netVars, obsVars, PipelineInv, RowInv, CarriedInv, ThreadInv,
      OutboxTruth, StreamTruth, Persisted, Found, TypeOK, Cmds, Threads, NoTxn,
      IdleThread, Lifecycle, AckKinds, TaskKinds, NoAck
<1>25. ASSUME IngressCommit PROVE PipelineInv'
  <2>1. /\ ing.kind # "idle" /\ ing.c \in Cmds /\ ing.c \in sent
        /\ status[ing.c] # "ABSENT" /\ status[ing.c] \in Lifecycle
        /\ ing.kind = "ack" => ing.to \in AckKinds
        /\ ing.kind = "task" => ing.to \in TaskKinds
    BY <1>a, <1>25 DEF IngressCommit, PipelineInv, ThreadInv, TypeOK, Persisted
  <2>2. ing' = NoTxn /\ UNCHANGED <<outbox, backoff, older, stream, idle, expired, overdue,
                                   obx, saf, outq, sent, published, api, wrk, faults>>
    BY <1>25 DEF IngressCommit, outVars, strVars, clkVars, dspVars, netVars
  <2>3. PICK s \in Lifecycle \ {"ABSENT"} : status' = [status EXCEPT ![ing.c] = s]
    BY <2>1, <1>25 DEF IngressCommit, Assign, AckStatus, Lifecycle, AckKinds, TaskKinds
  <2>4. /\ status' \in [Cmds -> Lifecycle]
        /\ \A x \in Cmds : status'[x] = "ABSENT" <=> status[x] = "ABSENT"
    BY <1>a, <2>1, <2>3 DEF PipelineInv, TypeOK
  <2>5. /\ ack' \in [Cmds -> AckKinds \cup {NoAck}]
        /\ \A x \in Cmds : ack'[x] # NoAck => ack[x] # NoAck \/ x = ing.c
    BY <1>a, <1>25, <2>1 DEF IngressCommit, PipelineInv, TypeOK
  <2>6. TypeOK'
    BY <1>a, <2>2, <2>4, <2>5 DEF PipelineInv, TypeOK, NoTxn, Lifecycle
  <2>7. RowInv'
    BY <1>a, <2>1, <2>2, <2>4, <2>5 DEF PipelineInv, RowInv, Persisted, Cmds
  <2>8. CarriedInv'
    BY <1>a, <2>2, <2>4 DEF PipelineInv, TypeOK, CarriedInv, Persisted, Cmds
  <2>9. ThreadInv'
    BY <1>a, <2>2, <2>4 DEF PipelineInv, TypeOK, ThreadInv, Persisted, Found, Cmds, NoTxn, Threads
  <2>10. OutboxTruth' /\ StreamTruth'
    BY <1>a, <2>2 DEF PipelineInv, OutboxTruth, StreamTruth
  <2> QED BY <2>6, <2>7, <2>8, <2>9, <2>10 DEF PipelineInv
<1>26. ASSUME IngressFails PROVE PipelineInv'
  BY <1>a, <1>26 DEF IngressFails, rowVars, outVars, strVars, clkVars,
      dspVars, netVars, obsVars, PipelineInv, RowInv, CarriedInv, ThreadInv,
      OutboxTruth, StreamTruth, Persisted, Found, TypeOK, Cmds, Threads, NoTxn,
      IdleThread, Lifecycle, AckKinds, TaskKinds, NoAck
<1>27. ASSUME WorkerRead PROVE PipelineInv'
  BY <1>a, <1>27 DEF WorkerRead, Overdue, rowVars, outVars, strVars,
      clkVars, dspVars, netVars, obsVars, PipelineInv, RowInv, CarriedInv,
      ThreadInv, OutboxTruth, StreamTruth, Persisted, Found, TypeOK, Cmds,
      Threads, NoTxn, IdleThread, Lifecycle, AckKinds, TaskKinds, NoAck
<1>28. ASSUME WorkerCommit PROVE PipelineInv'
  BY <1>a, <1>28 DEF WorkerCommit, rowVars, outVars, strVars, clkVars,
      dspVars, netVars, obsVars, PipelineInv, RowInv, CarriedInv, ThreadInv,
      OutboxTruth, StreamTruth, Persisted, Found, TypeOK, Cmds, Threads, NoTxn,
      IdleThread, Lifecycle, AckKinds, TaskKinds, NoAck
<1>29. ASSUME WorkerFails PROVE PipelineInv'
  BY <1>a, <1>29 DEF WorkerFails, rowVars, outVars, strVars, clkVars,
      dspVars, netVars, obsVars, PipelineInv, RowInv, CarriedInv, ThreadInv,
      OutboxTruth, StreamTruth, Persisted, Found, TypeOK, Cmds, Threads, NoTxn,
      IdleThread, Lifecycle, AckKinds, TaskKinds, NoAck
<1>30. ASSUME UNCHANGED vars PROVE PipelineInv'
  BY <1>a, <1>30 DEF vars, rowVars, outVars, strVars, clkVars, dspVars,
      netVars, obsVars, PipelineInv, RowInv, CarriedInv, ThreadInv, OutboxTruth,
      StreamTruth, Persisted, Found, TypeOK, Cmds, Threads, NoTxn, IdleThread,
      Lifecycle, AckKinds, TaskKinds, NoAck
<1>31. QED
  BY <1>1, <1>2, <1>3, <1>4, <1>5, <1>6, <1>7, <1>8, <1>9, <1>10, <1>11,
      <1>12, <1>13, <1>14, <1>15, <1>16, <1>17, <1>18, <1>19, <1>20, <1>21,
      <1>22, <1>23, <1>24, <1>25, <1>26, <1>27, <1>28, <1>29, <1>30, StepCases
     

\* PipelineInv holds in the initial state: nothing is created, queued or sent.
LEMMA PipelineInit == Init => PipelineInv
  BY CmdsAssumption DEF Init, PipelineInv, TypeOK, RowInv, CarriedInv, ThreadInv,
     OutboxTruth, StreamTruth, Persisted, Found, Cmds, Threads, NoTxn,
     IdleThread, Lifecycle, AckKinds, TaskKinds, NoAck

\* PipelineInv is an invariant of the command pipeline.
THEOREM PipelineInvariance == Spec => []PipelineInv
  BY PipelineInit, PipelineStep, PTL DEF Spec

\* Type correctness of the rows, queues, threads and transactions of the
\* command pipeline.
THEOREM TypeCorrect == Spec => []TypeOK
<1>1. PipelineInv => TypeOK
  BY DEF PipelineInv
<1> QED
  BY <1>1, PipelineInvariance, PTL

\* The outbox loop never loses an event: PUBLISHED means that the broker has
\* the command, EXPIRED that it could no longer be sent, for any number of
\* dispatchers, crashes and rolled back transactions.
THEOREM OutboxNeverLies == Spec => []OutboxTruth
<1>1. PipelineInv => OutboxTruth
  BY DEF PipelineInv
<1> QED
  BY <1>1, PipelineInvariance, PTL

\* The safety loop acknowledges a stream entry only when the command is on the
\* broker or has expired.
THEOREM StreamNeverLies == Spec => []StreamTruth
<1>1. PipelineInv => StreamTruth
  BY DEF PipelineInv
<1> QED
  BY <1>1, PipelineInvariance, PTL

\* Without the stops of dropped websockets, every command that reaches the
\* broker has a committed row.
THEOREM CommittedFirst == ASSUME WsStop = {} PROVE Spec => []PersistBeforeTransmit
<1>1. PipelineInv => PersistBeforeTransmit
  BY DEF PipelineInv, CarriedInv, PersistBeforeTransmit
<1> QED
  BY <1>1, PipelineInvariance, PTL

\* The recorded answer of a command never changes: handle_ack looks at ack_at
\* in the only thread that writes it.
THEOREM FirstAnswerIsFinal == Spec => FirstAnswerWins
<1> DEFINE Kept == \A c \in Cmds : ack[c] # NoAck => ack'[c] = ack[c]
<1>1. ASSUME PipelineInv, [Next]_vars PROVE [Kept]_vars
  <2>1. CASE ack' = ack
    BY <2>1
  <2>2. CASE IngressCommit /\ ing.kind = "ack"
    BY <1>1, <2>2 DEF IngressCommit, PipelineInv, ThreadInv, TypeOK, NoAck
  <2>3. ack' = ack \/ (IngressCommit /\ ing.kind = "ack")
    BY <1>1, StepCases DEF vars, rowVars, CreateDurable, BackoffOver, OutboxTake,
       CreateSafety, EnqueueSafety, EnqueueFailed, WsOpen, WsEnqueue, WsCommit,
       ApiCrash, IdlePasses, SafetyTake, OutboxPublish, OutboxCommit,
       SafetyPublish, SafetyCommit, SafetyXack, TxnFails, DispatcherCrash,
       MqttFlush, IngressReadAck, IngressReadTask, Expire, AckDeadline,
       IngressCommit, IngressFails, WorkerRead, WorkerCommit, WorkerFails,
       MarkPublished, MarkExpired
  <2> QED
    BY <2>1, <2>2, <2>3
<1> QED
  BY <1>1, PipelineInvariance, PTL DEF Spec, FirstAnswerWins

\* Every step of the pipeline is a step of the command contract or leaves its
\* variables alone, when no websocket drops.
LEMMA ContractStep ==
  ASSUME WsStop = {}, PipelineInv, [Next]_vars
  PROVE [Contract!CNext]_(Contract!cvars)
<1> DEFINE P == {c \in Cmds : Persisted(c)}
           Silent == UNCHANGED <<P, sent, published, ack>>
           Goal == Contract!CNext \/ Silent
<1> USE CmdsAssumption
<1>a. TypeOK /\ RowInv /\ CarriedInv /\ ThreadInv
  BY DEF PipelineInv
<1>s. SUFFICES Goal
  BY DEF Contract!cvars
<1>1. ASSUME UNCHANGED <<rowVars, sent>> PROVE Goal
  BY <1>1 DEF rowVars, Persisted
<1>2. ASSUME NEW c \in Durable, CreateDurable(c) PROVE Goal
  <2>1. Contract!Persist(c)
    BY <1>a, <1>2 DEF CreateDurable, Contract!Persist, TypeOK, Persisted, Cmds,
       netVars
  <2> QED
    BY <2>1 DEF Contract!CNext, Cmds
<1>3. ASSUME NEW c \in Safety, NEW b \in BOOLEAN, CreateSafety(c, b) PROVE Goal
  <2>1. Contract!Persist(c)
    BY <1>a, <1>3 DEF CreateSafety, Contract!Persist, TypeOK, RowInv, Persisted,
       Cmds, netVars
  <2> QED
    BY <2>1 DEF Contract!CNext, Cmds
<1>4. ASSUME NEW c \in Safety, EnqueueFailed(c) PROVE Goal
  <2>1. Silent
    BY <1>a, <1>4 DEF EnqueueFailed, TypeOK, RowInv, Persisted, Cmds, netVars
  <2> QED
    BY <2>1
<1>5. ASSUME NEW c \in P, sent' = sent \cup {c}, UNCHANGED rowVars PROVE Goal
  <2>1. Contract!Transmit(c)
    BY <1>5 DEF Contract!Transmit, rowVars, Persisted
  <2> QED
    BY <2>1 DEF Contract!CNext
<1>6. ASSUME NEW d \in Dispatchers, OutboxPublish(d) PROVE Goal
  <2>1. obx[d].c \in P /\ UNCHANGED rowVars
    BY <1>a, <1>6 DEF OutboxPublish, ThreadInv, Cmds
  <2>2. sent' = sent \/ sent' = sent \cup {obx[d].c}
    BY <1>6 DEF OutboxPublish, PublishCommand
  <2> QED
    BY <1>1, <1>5, <2>1, <2>2
<1>7. ASSUME NEW d \in Dispatchers, SafetyPublish(d) PROVE Goal
  <2>1. saf[d].c \in P /\ UNCHANGED rowVars
    BY <1>a, <1>7 DEF SafetyPublish, ThreadInv, Cmds
  <2>2. sent' = sent \/ sent' = sent \cup {saf[d].c}
    BY <1>7 DEF SafetyPublish, PublishCommand
  <2> QED
    BY <1>1, <1>5, <2>1, <2>2
<1>8. ASSUME NEW d \in Dispatchers, NEW c \in Cmds, MqttFlush(d, c) PROVE Goal
  <2>1. c \in P /\ UNCHANGED rowVars /\ sent' = sent \cup {c}
    BY <1>a, <1>8 DEF MqttFlush, CarriedInv
  <2> QED
    BY <1>5, <2>1
<1>9. ASSUME NEW c \in P \cap sent, NEW seen, MarkPublished(c, seen), sent' = sent
      PROVE Goal
  <2>1. P' = P
    BY <1>a, <1>9 DEF MarkPublished, Assign, Persisted, TypeOK
  <2>2. Contract!Claim(c)
    BY <1>9, <2>1 DEF Contract!Claim, MarkPublished
  <2> QED
    BY <2>2 DEF Contract!CNext
<1>10. ASSUME NEW c \in P, NEW seen, MarkExpired(c, seen), sent' = sent
       PROVE Goal
  <2>1. P' = P
    BY <1>a, <1>10 DEF MarkExpired, Assign, Persisted, TypeOK
  <2> QED
    BY <1>10, <2>1 DEF MarkExpired
<1>11. ASSUME NEW d \in Dispatchers, OutboxCommit(d) PROVE Goal
  <2>1. obx[d].c \in P /\ sent' = sent
    BY <1>a, <1>11 DEF OutboxCommit, ThreadInv, Cmds, netVars
  <2>2. CASE obx[d].pc = "sent"
    BY <1>a, <1>9, <1>11, <2>1, <2>2 DEF OutboxCommit, ThreadInv
  <2>3. CASE obx[d].pc = "expired"
    BY <1>10, <1>11, <2>1, <2>3 DEF OutboxCommit
  <2>4. CASE obx[d].pc = "failed"
    BY <1>1, <1>11, <2>1, <2>4 DEF OutboxCommit, rowVars
  <2> QED
    BY <1>11, <2>2, <2>3, <2>4 DEF OutboxCommit
<1>12. ASSUME NEW d \in Dispatchers, SafetyCommit(d) PROVE Goal
  <2>1. saf[d].c \in P /\ sent' = sent
    BY <1>a, <1>12 DEF SafetyCommit, ThreadInv, Cmds, netVars
  <2>2. CASE UNCHANGED rowVars
    BY <1>1, <2>1, <2>2
  <2>3. CASE saf[d].pc = "sent" /\ MarkPublished(saf[d].c, saf[d].seen)
    BY <1>a, <1>9, <2>1, <2>3 DEF ThreadInv
  <2>4. CASE MarkExpired(saf[d].c, saf[d].seen)
    BY <1>10, <2>1, <2>4
  <2> QED
    BY <1>12, <2>2, <2>3, <2>4 DEF SafetyCommit
<1>13. ASSUME IngressCommit PROVE Goal
  <2>1. /\ ing.c \in P \cap sent
        /\ UNCHANGED <<sent, published>>
    BY <1>a, <1>13 DEF IngressCommit, ThreadInv, TypeOK, netVars
  <2>2. P' = P
    BY <1>a, <1>13, <2>1 DEF IngressCommit, Assign, AckStatus, Persisted, TypeOK,
       ThreadInv, TaskKinds
  <2>3. CASE ing.kind = "ack"
    <3>1. Contract!Answer(ing.c, ing.to)
      BY <1>a, <1>13, <2>1, <2>2, <2>3 DEF IngressCommit, Contract!Answer, ThreadInv
    <3> QED
      BY <1>a, <2>1, <2>3, <3>1 DEF Contract!CNext, ThreadInv
  <2>4. CASE ing.kind = "task"
    BY <1>13, <2>1, <2>2, <2>4 DEF IngressCommit
  <2> QED
    BY <1>13, <2>3, <2>4 DEF IngressCommit
<1>14. ASSUME WorkerCommit PROVE Goal
  <2>1. P' = P
    BY <1>a, <1>14 DEF WorkerCommit, Persisted, TypeOK, ThreadInv
  <2> QED
    BY <1>14, <2>1 DEF WorkerCommit, netVars
<1>15. UNCHANGED <<rowVars, sent>> \/ ~ Next \/
       \/ \E c \in Durable : CreateDurable(c)
       \/ \E c \in Safety, b \in BOOLEAN : CreateSafety(c, b)
       \/ \E c \in Safety : EnqueueFailed(c)
       \/ \E d \in Dispatchers : OutboxPublish(d) \/ SafetyPublish(d)
                                 \/ OutboxCommit(d) \/ SafetyCommit(d)
       \/ \E d \in Dispatchers, c \in Cmds : MqttFlush(d, c)
       \/ IngressCommit \/ WorkerCommit
  BY StepCases DEF BackoffOver, OutboxTake, EnqueueSafety, ApiCrash, IdlePasses,
     SafetyTake, SafetyXack, TxnFails, DispatcherCrash, IngressReadAck,
     IngressReadTask, Expire, AckDeadline, IngressFails, WorkerRead, WorkerFails,
     netVars
<1> QED
  BY <1>1, <1>2, <1>3, <1>4, <1>6, <1>7, <1>8, <1>11, <1>12, <1>13, <1>14, <1>15
     DEF vars, rowVars, netVars

\* Without the stops of dropped websockets, the pipeline implements the command
\* contract: nothing reaches the broker before its commit, nothing is called
\* published that was not, and the first answer is final.
THEOREM PipelineImplementsContract ==
  ASSUME WsStop = {} PROVE Spec => ImplementsContract
<1>1. Init => Contract!CInit
  BY DEF Init, Contract!CInit, Persisted
<1>2. PipelineInv /\ [Next]_vars => [Contract!CNext]_(Contract!cvars)
  BY ContractStep
<1> QED
  BY <1>1, <1>2, PipelineInvariance, PTL DEF Spec, ImplementsContract, Contract!CSpec

=============================================================================

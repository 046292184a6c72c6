------------------------ MODULE BridgeProcessorProofs ------------------------
(***************************************************************************)
(* Proofs about BridgeProcessor: BridgeInv is inductive, and the safety    *)
(* properties of the module follow from it.                                *)
(***************************************************************************)
EXTENDS BridgeProcessor, TLAPS

\* Every initial state satisfies the inductive invariant.
LEMMA BridgeInit == Init => BridgeInv
  BY BridgeAssumption
  DEF Init, BridgeInv, TypeOK, ClockInv, OnceInv, ThreadInv, LockInv,
      FreeWhenTold, WordInv, Quota, Cmds, IdleMq, IdleFb, Results, Final,
      Feedback, Acceptance

\* Every step of a thread, of the process and of the clock preserves it.
LEMMA BridgeStep == BridgeInv /\ [Next]_vars => BridgeInv'
<1> SUFFICES ASSUME BridgeInv, [Next]_vars PROVE BridgeInv'
  OBVIOUS
<1> USE BridgeAssumption, TTLAssumption
<1> USE DEF BridgeInv, Cmds, Results, Final, Feedback, IdleMq, IdleFb,
            cmdVars, recVars, waitVars, rosVars, outVars
<1>1. ASSUME NEW c \in Cmds, Issue(c) PROVE BridgeInv'
  <2>1. TypeOK'
    BY <1>1 DEF Issue, TypeOK, ThreadInv
  <2>2. ClockInv'
    BY <1>1 DEF Issue, TypeOK, ClockInv
  <2>3. OnceInv'
    BY <1>1 DEF Issue, TypeOK, ClockInv, OnceInv, ThreadInv, Quota, Expired
  <2>4. ThreadInv'
    BY <1>1 DEF Issue, TypeOK, ClockInv, OnceInv, ThreadInv, LockInv, Quota
  <2>5. LockInv'
    BY <1>1 DEF Issue, TypeOK, OnceInv, ThreadInv, LockInv, Quota
  <2>6. FreeWhenTold'
    BY <1>1 DEF Issue, TypeOK, OnceInv, ThreadInv, LockInv, FreeWhenTold, Quota
  <2>7. WordInv'
    BY <1>1 DEF Issue, TypeOK, ClockInv, OnceInv, ThreadInv, WordInv, Quota,
                Acceptance
  <2> QED BY <2>1, <2>2, <2>3, <2>4, <2>5, <2>6, <2>7 DEF BridgeInv
<1>2. ASSUME NEW c \in Cmds, Receive(c) PROVE BridgeInv'
  <2>1. TypeOK'
    BY <1>2 DEF Receive, Valid, Expired, Remembered, TypeOK, ThreadInv
  <2>2. ClockInv'
    BY <1>2 DEF Receive, Valid, Expired, Remembered, TypeOK, ClockInv
  <2>3. OnceInv'
    BY <1>2 DEF Receive, Valid, Expired, Remembered, TypeOK, ClockInv, OnceInv,
                ThreadInv, Quota
  <2>4. ThreadInv'
    BY <1>2 DEF Receive, Valid, Expired, Remembered, TypeOK, ClockInv, OnceInv,
                ThreadInv, LockInv, Quota
  <2>5. LockInv'
    BY <1>2 DEF Receive, Valid, Expired, Remembered, TypeOK, OnceInv, ThreadInv,
                LockInv, Quota
  <2>6. FreeWhenTold'
    BY <1>2 DEF Receive, Valid, Expired, Remembered, TypeOK, OnceInv, ThreadInv,
                LockInv, FreeWhenTold, Quota
  <2>7. WordInv'
    BY <1>2 DEF Receive, Valid, Expired, Remembered, TypeOK, ClockInv, OnceInv,
                ThreadInv, WordInv, Quota, Acceptance
  <2> QED BY <2>1, <2>2, <2>3, <2>4, <2>5, <2>6, <2>7 DEF BridgeInv
<1>3. ASSUME NEW c \in Cmds, TimerFires(c) PROVE BridgeInv'
  <2>1. TypeOK'
    BY <1>3 DEF TimerFires, TypeOK, ThreadInv
  <2>2. ClockInv'
    BY <1>3 DEF TimerFires, TypeOK, ClockInv
  <2>3. OnceInv'
    BY <1>3 DEF TimerFires, TypeOK, ClockInv, OnceInv, ThreadInv, Quota, Expired
  <2>4. ThreadInv'
    BY <1>3 DEF TimerFires, TypeOK, ClockInv, OnceInv, ThreadInv, LockInv, Quota
  <2>5. LockInv'
    BY <1>3 DEF TimerFires, TypeOK, OnceInv, ThreadInv, LockInv, Quota
  <2>6. FreeWhenTold'
    BY <1>3 DEF TimerFires, TypeOK, OnceInv, ThreadInv, LockInv, FreeWhenTold,
                Quota
  <2>7. WordInv'
    BY <1>3 DEF TimerFires, TypeOK, ClockInv, OnceInv, ThreadInv, WordInv, Quota,
                Acceptance
  <2> QED BY <2>1, <2>2, <2>3, <2>4, <2>5, <2>6, <2>7 DEF BridgeInv
<1>4. ASSUME NEW c \in Cmds, TimeoutRelease(c) PROVE BridgeInv'
  <2>1. TypeOK'
    BY <1>4 DEF TimeoutRelease, ReleaseTask, TypeOK, ThreadInv
  <2>2. ClockInv'
    BY <1>4 DEF TimeoutRelease, ReleaseTask, TypeOK, ClockInv
  <2>3. OnceInv'
    BY <1>4 DEF TimeoutRelease, ReleaseTask, TypeOK, ClockInv, OnceInv, ThreadInv,
                Quota, Expired
  <2>4. ThreadInv'
    BY <1>4 DEF TimeoutRelease, ReleaseTask, TypeOK, ClockInv, OnceInv, ThreadInv,
                LockInv, Quota
  <2>5. LockInv'
    BY <1>4 DEF TimeoutRelease, ReleaseTask, TypeOK, OnceInv, ThreadInv, LockInv,
                Quota
  <2>6. FreeWhenTold'
    BY <1>4 DEF TimeoutRelease, ReleaseTask, TypeOK, OnceInv, ThreadInv, LockInv,
                FreeWhenTold, Quota
  <2>7. WordInv'
    BY <1>4 DEF TimeoutRelease, ReleaseTask, TypeOK, ClockInv, OnceInv, ThreadInv,
                WordInv, Quota, Acceptance
  <2> QED BY <2>1, <2>2, <2>3, <2>4, <2>5, <2>6, <2>7 DEF BridgeInv
<1>5. ASSUME NEW c \in Cmds, TimeoutAnswer(c) PROVE BridgeInv'
  <2>1. TypeOK'
    BY <1>5 DEF TimeoutAnswer, Ack, TypeOK, ThreadInv
  <2>2. ClockInv'
    BY <1>5 DEF TimeoutAnswer, Ack, TypeOK, ClockInv
  <2>3. OnceInv'
    BY <1>5 DEF TimeoutAnswer, Ack, TypeOK, ClockInv, OnceInv, ThreadInv, Quota,
                Expired
  <2>4. ThreadInv'
    BY <1>5 DEF TimeoutAnswer, Ack, TypeOK, ClockInv, OnceInv, ThreadInv, LockInv,
                Quota
  <2>5. LockInv'
    BY <1>5 DEF TimeoutAnswer, Ack, TypeOK, OnceInv, ThreadInv, LockInv, Quota
  <2>6. FreeWhenTold'
    BY <1>5 DEF TimeoutAnswer, Ack, TypeOK, OnceInv, ThreadInv, LockInv,
                FreeWhenTold, Quota
  <2>7. WordInv'
    BY <1>5 DEF TimeoutAnswer, Ack, TypeOK, ClockInv, OnceInv, ThreadInv, WordInv,
                Quota, Acceptance
  <2> QED BY <2>1, <2>2, <2>3, <2>4, <2>5, <2>6, <2>7 DEF BridgeInv
<1>6. ASSUME NEW c \in Cmds, TimeoutFinal(c) PROVE BridgeInv'
  <2>1. TypeOK'
    BY <1>6 DEF TimeoutFinal, Finalize, TypeOK, ThreadInv
  <2>2. ClockInv'
    BY <1>6 DEF TimeoutFinal, Finalize, TypeOK, ClockInv
  <2>3. OnceInv'
    BY <1>6 DEF TimeoutFinal, Finalize, TypeOK, ClockInv, OnceInv, ThreadInv,
                Quota, Expired
  <2>4. ThreadInv'
    BY <1>6 DEF TimeoutFinal, Finalize, TypeOK, ClockInv, OnceInv, ThreadInv,
                LockInv, Quota
  <2>5. LockInv'
    BY <1>6 DEF TimeoutFinal, Finalize, TypeOK, OnceInv, ThreadInv, LockInv, Quota
  <2>6. FreeWhenTold'
    BY <1>6 DEF TimeoutFinal, Finalize, TypeOK, OnceInv, ThreadInv, LockInv,
                FreeWhenTold, Quota
  <2>7. WordInv'
    BY <1>6 DEF TimeoutFinal, Finalize, TypeOK, ClockInv, OnceInv, ThreadInv,
                WordInv, Quota, Acceptance
  <2> QED BY <2>1, <2>2, <2>3, <2>4, <2>5, <2>6, <2>7 DEF BridgeInv
<1>7. ASSUME NEW c \in Cmds, NEW st \in Feedback, ReadFeedback(c, st)
      PROVE  BridgeInv'
  <2>1. TypeOK'
    BY <1>7 DEF ReadFeedback, Reportable, TypeOK, ThreadInv
  <2>2. ClockInv'
    BY <1>7 DEF ReadFeedback, Reportable, TypeOK, ClockInv
  <2>3. OnceInv'
    BY <1>7 DEF ReadFeedback, Reportable, TypeOK, ClockInv, OnceInv, ThreadInv,
                Quota, Expired
  <2>4. ThreadInv'
    BY <1>7 DEF ReadFeedback, Reportable, TypeOK, ClockInv, OnceInv, ThreadInv,
                LockInv, Quota
  <2>5. LockInv'
    BY <1>7 DEF ReadFeedback, Reportable, TypeOK, OnceInv, ThreadInv, LockInv,
                Quota
  <2>6. FreeWhenTold'
    BY <1>7 DEF ReadFeedback, Reportable, TypeOK, OnceInv, ThreadInv, LockInv,
                FreeWhenTold, Quota
  <2>7. WordInv'
    BY <1>7 DEF ReadFeedback, Reportable, TypeOK, ClockInv, OnceInv, ThreadInv,
                WordInv, Quota, Acceptance
  <2> QED BY <2>1, <2>2, <2>3, <2>4, <2>5, <2>6, <2>7 DEF BridgeInv
<1>8. CASE AcquireTask
  <2>1. TypeOK'
    BY <1>8 DEF AcquireTask, TypeOK, ThreadInv
  <2>2. ClockInv'
    BY <1>8 DEF AcquireTask, TypeOK, ClockInv
  <2>3. OnceInv'
    BY <1>8 DEF AcquireTask, TypeOK, ClockInv, OnceInv, ThreadInv, Quota, Expired
  <2>4. ThreadInv'
    BY <1>8 DEF AcquireTask, TypeOK, ClockInv, OnceInv, ThreadInv, LockInv, Quota
  <2>5. LockInv'
    BY <1>8 DEF AcquireTask, TypeOK, OnceInv, ThreadInv, LockInv, Quota
  <2>6. FreeWhenTold'
    BY <1>8 DEF AcquireTask, TypeOK, OnceInv, ThreadInv, LockInv, FreeWhenTold,
                Quota
  <2>7. WordInv'
    BY <1>8 DEF AcquireTask, TypeOK, ClockInv, OnceInv, ThreadInv, WordInv, Quota,
                Acceptance
  <2> QED BY <2>1, <2>2, <2>3, <2>4, <2>5, <2>6, <2>7 DEF BridgeInv
<1>9. CASE PublishCommand
  <2>1. TypeOK'
    BY <1>9 DEF PublishCommand, TypeOK, ThreadInv
  <2>2. ClockInv'
    BY <1>9 DEF PublishCommand, TypeOK, ClockInv
  <2>3. OnceInv'
    BY <1>9 DEF PublishCommand, TypeOK, ClockInv, OnceInv, ThreadInv, Quota,
                Expired
  <2>4. ThreadInv'
    BY <1>9 DEF PublishCommand, TypeOK, ClockInv, OnceInv, ThreadInv, LockInv,
                Quota
  <2>5. LockInv'
    BY <1>9 DEF PublishCommand, TypeOK, OnceInv, ThreadInv, LockInv, Quota
  <2>6. FreeWhenTold'
    BY <1>9 DEF PublishCommand, TypeOK, OnceInv, ThreadInv, LockInv, FreeWhenTold,
                Quota
  <2>7. WordInv'
    BY <1>9 DEF PublishCommand, TypeOK, ClockInv, OnceInv, ThreadInv, WordInv,
                Quota, Acceptance
  <2> QED BY <2>1, <2>2, <2>3, <2>4, <2>5, <2>6, <2>7 DEF BridgeInv
<1>10. CASE UndoAcquire
  <2>1. TypeOK'
    BY <1>10 DEF UndoAcquire, ReleaseTask, TypeOK, ThreadInv
  <2>2. ClockInv'
    BY <1>10 DEF UndoAcquire, ReleaseTask, TypeOK, ClockInv
  <2>3. OnceInv'
    BY <1>10 DEF UndoAcquire, ReleaseTask, TypeOK, ClockInv, OnceInv, ThreadInv,
                 Quota, Expired
  <2>4. ThreadInv'
    BY <1>10 DEF UndoAcquire, ReleaseTask, TypeOK, ClockInv, OnceInv, ThreadInv,
                 LockInv, Quota
  <2>5. LockInv'
    BY <1>10 DEF UndoAcquire, ReleaseTask, TypeOK, OnceInv, ThreadInv, LockInv,
                 Quota
  <2>6. FreeWhenTold'
    BY <1>10 DEF UndoAcquire, ReleaseTask, TypeOK, OnceInv, ThreadInv, LockInv,
                 FreeWhenTold, Quota
  <2>7. WordInv'
    BY <1>10 DEF UndoAcquire, ReleaseTask, TypeOK, ClockInv, OnceInv, ThreadInv,
                 WordInv, Quota, Acceptance
  <2> QED BY <2>1, <2>2, <2>3, <2>4, <2>5, <2>6, <2>7 DEF BridgeInv
<1>11. CASE Reject
  <2>1. TypeOK'
    BY <1>11 DEF Reject, Ack, TypeOK, ThreadInv
  <2>2. ClockInv'
    BY <1>11 DEF Reject, Ack, TypeOK, ClockInv
  <2>3. OnceInv'
    BY <1>11 DEF Reject, Ack, TypeOK, ClockInv, OnceInv, ThreadInv, Quota, Expired
  <2>4. ThreadInv'
    BY <1>11 DEF Reject, Ack, TypeOK, ClockInv, OnceInv, ThreadInv, LockInv, Quota
  <2>5. LockInv'
    BY <1>11 DEF Reject, Ack, TypeOK, OnceInv, ThreadInv, LockInv, Quota
  <2>6. FreeWhenTold'
    BY <1>11 DEF Reject, Ack, TypeOK, OnceInv, ThreadInv, LockInv, FreeWhenTold,
                 Quota
  <2>7. WordInv'
    BY <1>11 DEF Reject, Ack, TypeOK, ClockInv, OnceInv, ThreadInv, WordInv, Quota,
                 Acceptance
  <2> QED BY <2>1, <2>2, <2>3, <2>4, <2>5, <2>6, <2>7 DEF BridgeInv
<1>12. CASE Arm
  <2>1. TypeOK'
    BY <1>12 DEF Arm, TypeOK, ThreadInv
  <2>2. ClockInv'
    BY <1>12 DEF Arm, TypeOK, ClockInv
  <2>3. OnceInv'
    BY <1>12 DEF Arm, TypeOK, ClockInv, OnceInv, ThreadInv, Quota, Expired
  <2>4. ThreadInv'
    BY <1>12 DEF Arm, TypeOK, ClockInv, OnceInv, ThreadInv, LockInv, Quota
  <2>5. LockInv'
    BY <1>12 DEF Arm, TypeOK, OnceInv, ThreadInv, LockInv, Quota
  <2>6. FreeWhenTold'
    BY <1>12 DEF Arm, TypeOK, OnceInv, ThreadInv, LockInv, FreeWhenTold, Quota
  <2>7. WordInv'
    BY <1>12 DEF Arm, TypeOK, ClockInv, OnceInv, ThreadInv, WordInv, Quota,
                 Acceptance
  <2> QED BY <2>1, <2>2, <2>3, <2>4, <2>5, <2>6, <2>7 DEF BridgeInv
<1>13. CASE FeedbackAccept
  <2>1. TypeOK'
    BY <1>13 DEF FeedbackAccept, CancelTimer, FeedbackAt, TypeOK, ThreadInv
  <2>2. ClockInv'
    BY <1>13 DEF FeedbackAccept, CancelTimer, FeedbackAt, TypeOK, ClockInv
  <2>3. OnceInv'
    BY <1>13 DEF FeedbackAccept, CancelTimer, FeedbackAt, TypeOK, ClockInv,
                 OnceInv, ThreadInv, Quota, Expired
  <2>4. ThreadInv'
    BY <1>13 DEF FeedbackAccept, CancelTimer, FeedbackAt, TypeOK, ClockInv,
                 OnceInv, ThreadInv, LockInv, Quota
  <2>5. LockInv'
    BY <1>13 DEF FeedbackAccept, CancelTimer, FeedbackAt, TypeOK, OnceInv,
                 ThreadInv, LockInv, Quota
  <2>6. FreeWhenTold'
    BY <1>13 DEF FeedbackAccept, CancelTimer, FeedbackAt, TypeOK, OnceInv,
                 ThreadInv, LockInv, FreeWhenTold, Quota
  <2>7. WordInv'
    BY <1>13 DEF FeedbackAccept, CancelTimer, FeedbackAt, TypeOK, ClockInv,
                 OnceInv, ThreadInv, WordInv, Quota, Acceptance
  <2> QED BY <2>1, <2>2, <2>3, <2>4, <2>5, <2>6, <2>7 DEF BridgeInv
<1>14. CASE FeedbackRelease
  <2>1. TypeOK'
    BY <1>14 DEF FeedbackRelease, ReleaseTask, FeedbackAt, TypeOK, ThreadInv
  <2>2. ClockInv'
    BY <1>14 DEF FeedbackRelease, ReleaseTask, FeedbackAt, TypeOK, ClockInv
  <2>3. OnceInv'
    BY <1>14 DEF FeedbackRelease, ReleaseTask, FeedbackAt, TypeOK, ClockInv,
                 OnceInv, ThreadInv, Quota, Expired
  <2>4. ThreadInv'
    BY <1>14 DEF FeedbackRelease, ReleaseTask, FeedbackAt, TypeOK, ClockInv,
                 OnceInv, ThreadInv, LockInv, Quota
  <2>5. LockInv'
    BY <1>14 DEF FeedbackRelease, ReleaseTask, FeedbackAt, TypeOK, OnceInv,
                 ThreadInv, LockInv, Quota
  <2>6. FreeWhenTold'
    BY <1>14 DEF FeedbackRelease, ReleaseTask, FeedbackAt, TypeOK, OnceInv,
                 ThreadInv, LockInv, FreeWhenTold, Quota
  <2>7. WordInv'
    BY <1>14 DEF FeedbackRelease, ReleaseTask, FeedbackAt, TypeOK, ClockInv,
                 OnceInv, ThreadInv, WordInv, Quota, Acceptance
  <2> QED BY <2>1, <2>2, <2>3, <2>4, <2>5, <2>6, <2>7 DEF BridgeInv
<1>15. CASE FeedbackAnswer
  <2>1. TypeOK'
    BY <1>15 DEF FeedbackAnswer, Ack, FeedbackAt, TypeOK, ThreadInv
  <2>2. ClockInv'
    BY <1>15 DEF FeedbackAnswer, Ack, FeedbackAt, TypeOK, ClockInv
  <2>3. OnceInv'
    BY <1>15 DEF FeedbackAnswer, Ack, FeedbackAt, TypeOK, ClockInv, OnceInv,
                 ThreadInv, Quota, Expired
  <2>4. ThreadInv'
    BY <1>15 DEF FeedbackAnswer, Ack, FeedbackAt, TypeOK, ClockInv, OnceInv,
                 ThreadInv, LockInv, Quota
  <2>5. LockInv'
    BY <1>15 DEF FeedbackAnswer, Ack, FeedbackAt, TypeOK, OnceInv, ThreadInv,
                 LockInv, Quota
  <2>6. FreeWhenTold'
    BY <1>15 DEF FeedbackAnswer, Ack, FeedbackAt, TypeOK, OnceInv, ThreadInv,
                 LockInv, FreeWhenTold, Quota
  <2>7. WordInv'
    BY <1>15 DEF FeedbackAnswer, Ack, FeedbackAt, TypeOK, ClockInv, OnceInv,
                 ThreadInv, WordInv, Quota, Acceptance
  <2> QED BY <2>1, <2>2, <2>3, <2>4, <2>5, <2>6, <2>7 DEF BridgeInv
<1>16. CASE FeedbackReport
  <2>1. TypeOK'
    BY <1>16 DEF FeedbackReport, Report, FeedbackAt, TypeOK, ThreadInv
  <2>2. ClockInv'
    BY <1>16 DEF FeedbackReport, Report, FeedbackAt, TypeOK, ClockInv
  <2>3. OnceInv'
    BY <1>16 DEF FeedbackReport, Report, FeedbackAt, TypeOK, ClockInv, OnceInv,
                 ThreadInv, Quota, Expired
  <2>4. ThreadInv'
    BY <1>16 DEF FeedbackReport, Report, FeedbackAt, TypeOK, ClockInv, OnceInv,
                 ThreadInv, LockInv, Quota
  <2>5. LockInv'
    BY <1>16 DEF FeedbackReport, Report, FeedbackAt, TypeOK, OnceInv, ThreadInv,
                 LockInv, Quota
  <2>6. FreeWhenTold'
    BY <1>16 DEF FeedbackReport, Report, FeedbackAt, TypeOK, OnceInv, ThreadInv,
                 LockInv, FreeWhenTold, Quota
  <2>7. WordInv'
    BY <1>16 DEF FeedbackReport, Report, FeedbackAt, TypeOK, ClockInv, OnceInv,
                 ThreadInv, WordInv, Quota, Acceptance
  <2> QED BY <2>1, <2>2, <2>3, <2>4, <2>5, <2>6, <2>7 DEF BridgeInv
<1>17. CASE FeedbackFinal
  <2>1. TypeOK'
    BY <1>17 DEF FeedbackFinal, Finalize, CancelTimer, TypeOK, ThreadInv
  <2>2. ClockInv'
    BY <1>17 DEF FeedbackFinal, Finalize, CancelTimer, TypeOK, ClockInv
  <2>3. OnceInv'
    BY <1>17 DEF FeedbackFinal, Finalize, CancelTimer, TypeOK, ClockInv, OnceInv,
                 ThreadInv, Quota, Expired
  <2>4. ThreadInv'
    BY <1>17 DEF FeedbackFinal, Finalize, CancelTimer, TypeOK, ClockInv, OnceInv,
                 ThreadInv, LockInv, Quota
  <2>5. LockInv'
    BY <1>17 DEF FeedbackFinal, Finalize, CancelTimer, TypeOK, OnceInv, ThreadInv,
                 LockInv, Quota
  <2>6. FreeWhenTold'
    BY <1>17 DEF FeedbackFinal, Finalize, CancelTimer, TypeOK, OnceInv, ThreadInv,
                 LockInv, FreeWhenTold, Quota
  <2>7. WordInv'
    BY <1>17 DEF FeedbackFinal, Finalize, CancelTimer, TypeOK, ClockInv, OnceInv,
                 ThreadInv, WordInv, Quota, Acceptance
  <2> QED BY <2>1, <2>2, <2>3, <2>4, <2>5, <2>6, <2>7 DEF BridgeInv
<1>18. CASE Restart
  <2>1. TypeOK'
    BY <1>18 DEF Restart, TypeOK, ThreadInv
  <2>2. ClockInv'
    BY <1>18 DEF Restart, TypeOK, ClockInv
  <2>3. OnceInv'
    BY <1>18 DEF Restart, TypeOK, ClockInv, OnceInv, ThreadInv, Quota, Expired
  <2>4. ThreadInv'
    BY <1>18 DEF Restart, TypeOK, ClockInv, OnceInv, ThreadInv, LockInv, Quota
  <2>5. LockInv'
    BY <1>18 DEF Restart, TypeOK, OnceInv, ThreadInv, LockInv, Quota
  <2>6. FreeWhenTold'
    BY <1>18 DEF Restart, TypeOK, OnceInv, ThreadInv, LockInv, FreeWhenTold, Quota
  <2>7. WordInv'
    BY <1>18 DEF Restart, TypeOK, ClockInv, OnceInv, ThreadInv, WordInv, Quota,
                 Acceptance
  <2> QED BY <2>1, <2>2, <2>3, <2>4, <2>5, <2>6, <2>7 DEF BridgeInv
<1>19. CASE Tick
  <2>1. TypeOK'
    BY <1>19 DEF Tick, TypeOK, ThreadInv
  <2>2. ClockInv'
    BY <1>19 DEF Tick, TypeOK, ClockInv
  <2>3. OnceInv'
    BY <1>19 DEF Tick, TypeOK, ClockInv, OnceInv, ThreadInv, Quota, Expired
  <2>4. ThreadInv'
    BY <1>19 DEF Tick, TypeOK, ClockInv, OnceInv, ThreadInv, LockInv, Quota
  <2>5. LockInv'
    BY <1>19 DEF Tick, TypeOK, OnceInv, ThreadInv, LockInv, Quota
  <2>6. FreeWhenTold'
    BY <1>19 DEF Tick, TypeOK, OnceInv, ThreadInv, LockInv, FreeWhenTold, Quota
  <2>7. WordInv'
    BY <1>19 DEF Tick, TypeOK, ClockInv, OnceInv, ThreadInv, WordInv, Quota,
                 Acceptance
  <2> QED BY <2>1, <2>2, <2>3, <2>4, <2>5, <2>6, <2>7 DEF BridgeInv
<1>20. CASE UNCHANGED vars
  BY <1>20 DEF vars, TypeOK,
     ClockInv, OnceInv, ThreadInv, LockInv, FreeWhenTold, WordInv, Quota,
     Expired, Acceptance
<1> QED
  BY <1>1, <1>2, <1>3, <1>4, <1>5, <1>6, <1>7, <1>8, <1>9, <1>10,
     <1>11, <1>12, <1>13, <1>14, <1>15, <1>16, <1>17, <1>18, <1>19,
     <1>20
  DEF Next, MqttThread, ReaderThread, TimerThread

\* BridgeInv holds in every reachable state, for every set of commands, every
\* pair of TTLs the bridge is configured for and any number of restarts.
THEOREM BridgeInvariance == Spec => []BridgeInv
  BY BridgeInit, BridgeStep, PTL DEF Spec

\* A command reaches the ROS side once (an e-stop without boot once per
\* process), however often it is delivered.
THEOREM NeverForwardedTwice == Spec => []ForwardedOnce
<1>1. BridgeInv => ForwardedOnce
  BY DEF BridgeInv, OnceInv, Quota, ForwardedOnce
<1> QED
  BY <1>1, BridgeInvariance, PTL

\* The task lock is never leaked by the three kinds of threads.
THEOREM LockNeverLeaks == Spec => []LockHasOwner
<1>1. BridgeInv => LockHasOwner
  BY DEF BridgeInv, LockInv, LockHasOwner
<1> QED
  BY <1>1, BridgeInvariance, PTL

\* The lock of a task is free before the platform is told that it ended.
THEOREM FreedBeforeTold == Spec => []FreeWhenTold
<1>1. BridgeInv => FreeWhenTold
  BY DEF BridgeInv
<1> QED
  BY <1>1, BridgeInvariance, PTL

\* The bridge answers accepted only on the word of the ROS side.
THEOREM NeverAcceptsAlone == Spec => []AcceptedByRos
<1>1. BridgeInv => AcceptedByRos
  BY DEF BridgeInv, WordInv, Acceptance, AcceptedByRos
<1> QED
  BY <1>1, BridgeInvariance, PTL
=============================================================================

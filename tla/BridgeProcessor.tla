--------------------------- MODULE BridgeProcessor ---------------------------
(***************************************************************************)
(* The command processor of the vehicle bridge.  Three kinds of threads    *)
(* run it: the MQTT thread (on_command), the reader of the ROS child       *)
(* process (on_feedback) and one timer thread per waiting command          *)
(* (_on_timeout).  They share the task lock, the pending table and the     *)
(* de-duplication records; each of these is guarded by a lock for a single *)
(* access only, so a handler is one action per access.                     *)
(*                                                                         *)
(* The broker and the dispatcher may deliver a command any number of       *)
(* times.  The clock advances in ticks; a command carries its expiry, a    *)
(* de-duplication record the time it was last touched.  Clocks of platform *)
(* and vehicle agree.  The feedback timer may fire any time after it was   *)
(* armed, the ROS side may answer late or never.                           *)
(*                                                                         *)
(* The stub mode of the bridge (feedback simulated for integration tests)  *)
(* is not modelled: production runs with BRIDGE_STUB_MODE=false.           *)
(***************************************************************************)
EXTENDS Naturals

CONSTANTS Tasks,       \* patrol / return_dock / extinguish commands
          Plain,       \* stop, reset, cancel and manual commands
          AnyBoot,     \* plain commands without target_boot_id (e-stop)
          NoCmd,       \* "no command"
          CommandTTL,  \* expires_at - issued_at
          DedupTTL,    \* _DEDUP_TTL_SECONDS
          MaxTime,     \* bound: clock
          MaxBoots     \* bound: starts of the bridge process

Cmds == Tasks \cup Plain

ASSUME BridgeAssumption ==
    /\ Tasks \cap Plain = {}
    /\ AnyBoot \subseteq Plain
    /\ NoCmd \notin Cmds
    /\ CommandTTL \in Nat /\ DedupTTL \in Nat
    /\ MaxTime \in Nat /\ MaxBoots \in Nat

\* Every TTL the platform hands out (3 to 30 s) is below the 300 s for which
\* the bridge remembers a command.
ASSUME TTLAssumption == CommandTTL <= DedupTTL

VARIABLES
  now,       \* the clock
  boot,      \* number of the bridge process, which stands for its boot_id
  issued,    \* commands the platform has issued
  born,      \* time a command was issued
  target,    \* boot a command was issued for
  known,     \* command_ids with a de-duplication record
  ackOf,     \* record: the last ACK
  reportOf,  \* record: the last task_status
  ts,        \* record: time of the last touch
  lock,      \* BridgeState.task_lock_id
  pending,   \* CommandProcessor._pending
  acked,     \* pending commands with the flag acked
  mq,        \* MQTT thread
  fb,        \* reader thread of the ROS child
  timer,     \* timer thread of each command
  veh,       \* what the ROS side has done with a command
  forwards,  \* how often a command was handed to the ROS side
  answers,   \* command_ack results published for a command
  ended      \* tasks for which a final task_status was published

cmdVars  == <<issued, born, target>>
recVars  == <<known, ackOf, reportOf, ts>>
waitVars == <<pending, acked>>
rosVars  == <<veh, forwards>>
outVars  == <<answers, ended>>
vars == <<now, boot, cmdVars, recVars, lock, waitVars, mq, fb, timer, rosVars,
          outVars>>

Results  == {"accepted", "rejected"}
Final    == {"COMPLETED", "FAILED", "CANCELLED"}
Feedback == {"ACCEPTED", "REJECTED", "EXECUTING"} \cup Final

IdleMq == [pc |-> "idle", c |-> NoCmd]
IdleFb == [pc |-> "idle", c |-> NoCmd, st |-> "ACCEPTED"]

TypeOK ==
  /\ now \in Nat /\ boot \in Nat
  /\ issued \subseteq Cmds
  /\ born \in [Cmds -> Nat]
  /\ target \in [Cmds -> Nat]
  /\ known \subseteq Cmds
  /\ ackOf \in [Cmds -> Results \cup {"none"}]
  /\ reportOf \in [Cmds -> Feedback \cup {"none"}]
  /\ ts \in [Cmds -> Nat]
  /\ lock \in Tasks \cup {NoCmd}
  /\ pending \subseteq Cmds
  /\ acked \subseteq Cmds
  /\ mq \in [pc : {"idle", "acquire", "publish", "undo", "arm", "reject"},
             c : Cmds \cup {NoCmd}]
  /\ fb \in [pc : {"idle", "accept", "release", "answer", "report", "final"},
             c : Cmds \cup {NoCmd}, st : Feedback]
  /\ timer \in [Cmds -> {"off", "armed", "release", "answer", "final"}]
  /\ veh \in [Cmds -> Feedback \cup {"none", "got"}]
  /\ forwards \in [Cmds -> Nat]
  /\ answers \in [Cmds -> SUBSET Results]
  /\ ended \subseteq Tasks

Init ==
  /\ now = 0 /\ boot = 1
  /\ issued = {}
  /\ born = [c \in Cmds |-> 0]
  /\ target = [c \in Cmds |-> 0]
  /\ known = {}
  /\ ackOf = [c \in Cmds |-> "none"]
  /\ reportOf = [c \in Cmds |-> "none"]
  /\ ts = [c \in Cmds |-> 0]
  /\ lock = NoCmd
  /\ pending = {} /\ acked = {}
  /\ mq = IdleMq /\ fb = IdleFb
  /\ timer = [c \in Cmds |-> "off"]
  /\ veh = [c \in Cmds |-> "none"]
  /\ forwards = [c \in Cmds |-> 0]
  /\ answers = [c \in Cmds |-> {}]
  /\ ended = {}

-----------------------------------------------------------------------------
(* Shared operations                                                       *)

\* The platform issues a command for the boot session it knows.
Issue(c) ==
  /\ c \notin issued
  /\ issued' = issued \cup {c}
  /\ born' = [born EXCEPT ![c] = now]
  /\ target' = [target EXCEPT ![c] = boot]
  /\ UNCHANGED <<now, boot, recVars, lock, waitVars, mq, fb, timer, rosVars,
                 outVars>>

Expired(c) == born[c] + CommandTTL <= now

\* Variant: no expiry check.
ValidLate(c) == c \in AnyBoot \/ target[c] = boot

\* validate_received_command for well-formed, supported commands.
Valid(c) == ~Expired(c) /\ (c \in AnyBoot \/ target[c] = boot)

\* _cleanup_locked: the records that are kept.
Remembered == {c \in known : now <= ts[c] + DedupTTL}

\* _ack: remember_ack touches a record only if there is one.
Ack(c, result) ==
  /\ ackOf' = IF c \in known THEN [ackOf EXCEPT ![c] = result] ELSE ackOf
  /\ ts' = IF c \in known THEN [ts EXCEPT ![c] = now] ELSE ts
  /\ answers' = [answers EXCEPT ![c] = @ \cup {result}]
  /\ UNCHANGED <<known, reportOf, ended>>

\* _report_task
Report(c, st) ==
  /\ reportOf' = IF c \in known THEN [reportOf EXCEPT ![c] = st] ELSE reportOf
  /\ ts' = IF c \in known THEN [ts EXCEPT ![c] = now] ELSE ts
  /\ ended' = IF st \in Final THEN ended \cup {c} ELSE ended
  /\ UNCHANGED <<known, ackOf, answers>>

\* _finalize, with mark_terminal
Finalize(c) ==
  /\ pending' = pending \ {c}
  /\ ts' = IF c \in known THEN [ts EXCEPT ![c] = now] ELSE ts
  /\ UNCHANGED <<known, ackOf, reportOf, acked>>

\* release_task frees the lock whoever holds it.
ReleaseTask == lock' = NoCmd

\* Timer.cancel does nothing once the timer thread has passed its wait.
CancelTimer(c) ==
  timer' = IF timer[c] = "armed" THEN [timer EXCEPT ![c] = "off"] ELSE timer

-----------------------------------------------------------------------------
(* The MQTT thread: on_command                                             *)

\* Validation, then the lookup of the record, which drops the old records.
\* A known command gets its recorded ACK and task_status again.
Receive(c) ==
  /\ mq.pc = "idle"
  /\ c \in issued
  /\ \/ /\ ~Valid(c)
        /\ mq' = [pc |-> "reject", c |-> c]
        /\ UNCHANGED <<recVars, outVars>>
     \/ /\ Valid(c)
        /\ c \in Remembered
        /\ known' = Remembered
        /\ answers' = [answers EXCEPT ![c] = @ \cup ({ackOf[c]} \ {"none"})]
        /\ ended' = IF reportOf[c] \in Final THEN ended \cup {c} ELSE ended
        /\ UNCHANGED <<mq, ackOf, reportOf, ts>>
     \/ /\ Valid(c)
        /\ c \notin Remembered
        /\ known' = Remembered \cup {c}
        /\ ackOf' = [ackOf EXCEPT ![c] = "none"]
        /\ reportOf' = [reportOf EXCEPT ![c] = "none"]
        /\ ts' = [ts EXCEPT ![c] = now]
        /\ mq' = [pc |-> IF c \in Tasks THEN "acquire" ELSE "publish", c |-> c]
        /\ UNCHANGED outVars
  /\ UNCHANGED <<now, boot, cmdVars, lock, waitVars, fb, timer, rosVars>>

AcquireTask ==
  /\ mq.pc = "acquire"
  /\ \/ /\ lock = NoCmd
        /\ lock' = mq.c
        /\ mq' = [pc |-> "publish", c |-> mq.c]
     \/ /\ lock # NoCmd
        /\ mq' = [pc |-> "reject", c |-> mq.c]
        /\ UNCHANGED lock
  /\ UNCHANGED <<now, boot, cmdVars, recVars, waitVars, fb, timer, rosVars,
                 outVars>>

\* publish_command: written to the child's stdin, or the child is not ready
\* (or the pipe is broken) and nothing is delivered.
PublishCommand ==
  /\ mq.pc = "publish"
  /\ \/ /\ forwards' = [forwards EXCEPT ![mq.c] = @ + 1]
        /\ veh' = [veh EXCEPT ![mq.c] = "got"]
        /\ mq' = [pc |-> "arm", c |-> mq.c]
     \/ /\ mq' = [pc |-> IF mq.c \in Tasks THEN "undo" ELSE "reject",
                  c |-> mq.c]
        /\ UNCHANGED rosVars
  /\ UNCHANGED <<now, boot, cmdVars, recVars, lock, waitVars, fb, timer,
                 outVars>>

\* Variant: the lock is kept when the command was not delivered.
UndoAcquireKeeps ==
  /\ mq.pc = "undo"
  /\ mq' = [pc |-> "reject", c |-> mq.c]
  /\ UNCHANGED <<now, boot, cmdVars, recVars, lock, waitVars, fb, timer,
                 rosVars, outVars>>

UndoAcquire ==
  /\ mq.pc = "undo"
  /\ ReleaseTask
  /\ mq' = [pc |-> "reject", c |-> mq.c]
  /\ UNCHANGED <<now, boot, cmdVars, recVars, waitVars, fb, timer, rosVars,
                 outVars>>

Reject ==
  /\ mq.pc = "reject"
  /\ Ack(mq.c, "rejected")
  /\ mq' = IdleMq
  /\ UNCHANGED <<now, boot, cmdVars, lock, waitVars, fb, timer, rosVars>>

\* Variant: the timer is not started.
ArmWithoutTimer ==
  /\ mq.pc = "arm"
  /\ pending' = pending \cup {mq.c}
  /\ mq' = IdleMq
  /\ UNCHANGED <<now, boot, cmdVars, recVars, lock, acked, timer, fb, rosVars,
                 outVars>>

\* The command becomes pending, and its timer starts, after the publication.
Arm ==
  /\ mq.pc = "arm"
  /\ pending' = pending \cup {mq.c}
  /\ acked' = acked \ {mq.c}
  /\ timer' = [timer EXCEPT ![mq.c] = "armed"]
  /\ mq' = IdleMq
  /\ UNCHANGED <<now, boot, cmdVars, recVars, lock, fb, rosVars, outVars>>

-----------------------------------------------------------------------------
(* The reader thread: on_feedback                                          *)

\* What the ROS side may report about a command, given what it did so far.
Reportable(c) ==
  IF veh[c] = "got" THEN {"ACCEPTED", "REJECTED"}
  ELSE IF veh[c] = "ACCEPTED" THEN {"EXECUTING"} \cup Final
  ELSE IF veh[c] = "EXECUTING" THEN Final ELSE {}

\* The pending entry is looked up once; feedback without one is dropped, and
\* so is anything but an ACK for a command that is not a task.
ReadFeedback(c, st) ==
  /\ fb.pc = "idle"
  /\ st \in Reportable(c)
  /\ veh' = [veh EXCEPT ![c] = st]
  /\ \/ /\ c \in pending
        /\ c \in Tasks \/ st \in {"ACCEPTED", "REJECTED"}
        /\ fb' = [pc |-> IF st = "ACCEPTED" THEN "accept"
                         ELSE IF st = "EXECUTING" THEN "report"
                         ELSE IF c \in Tasks THEN "release" ELSE "answer",
                  c |-> c, st |-> st]
     \/ /\ c \notin pending \/ (c \in Plain /\ st \notin {"ACCEPTED", "REJECTED"})
        /\ UNCHANGED fb
  /\ UNCHANGED <<now, boot, cmdVars, recVars, lock, waitVars, mq, timer,
                 forwards, outVars>>

FeedbackAt(pc) == [pc |-> pc, c |-> fb.c, st |-> fb.st]

\* Variant: the outcome of a task is reported before the lock is released.
FeedbackReleaseLate ==
  /\ fb.pc = "release"
  /\ Report(fb.c, fb.st)
  /\ fb' = FeedbackAt("final")
  /\ UNCHANGED <<now, boot, cmdVars, lock, waitVars, mq, timer, rosVars>>

FeedbackAccept ==
  /\ fb.pc = "accept"
  /\ CancelTimer(fb.c)
  /\ acked' = acked \cup {fb.c}
  /\ fb' = FeedbackAt("answer")
  /\ UNCHANGED <<now, boot, cmdVars, recVars, lock, pending, mq, rosVars,
                 outVars>>

FeedbackRelease ==
  /\ fb.pc = "release"
  /\ ReleaseTask
  /\ fb' = FeedbackAt(IF fb.st = "REJECTED" THEN "answer" ELSE "report")
  /\ UNCHANGED <<now, boot, cmdVars, recVars, waitVars, mq, timer, rosVars,
                 outVars>>

FeedbackAnswer ==
  /\ fb.pc = "answer"
  /\ Ack(fb.c, IF fb.st = "ACCEPTED" THEN "accepted" ELSE "rejected")
  /\ fb' = FeedbackAt(IF fb.st = "ACCEPTED" /\ fb.c \in Tasks THEN "report"
                      ELSE "final")
  /\ UNCHANGED <<now, boot, cmdVars, lock, waitVars, mq, timer, rosVars>>

FeedbackReport ==
  /\ fb.pc = "report"
  /\ Report(fb.c, fb.st)
  /\ fb' = IF fb.st \in Final THEN FeedbackAt("final") ELSE IdleFb
  /\ UNCHANGED <<now, boot, cmdVars, lock, waitVars, mq, timer, rosVars>>

FeedbackFinal ==
  /\ fb.pc = "final"
  /\ CancelTimer(fb.c)
  /\ Finalize(fb.c)
  /\ fb' = IdleFb
  /\ UNCHANGED <<now, boot, cmdVars, lock, mq, rosVars, outVars>>

-----------------------------------------------------------------------------
(* The timer threads: _on_timeout                                          *)

\* The timer fires and looks at the pending entry and its flag.
TimerFires(c) ==
  /\ timer[c] = "armed"
  /\ timer' = [timer EXCEPT ![c] =
                 IF c \notin pending \/ c \in acked THEN "off"
                 ELSE IF c \in Tasks THEN "release" ELSE "answer"]
  /\ UNCHANGED <<now, boot, cmdVars, recVars, lock, waitVars, mq, fb, rosVars,
                 outVars>>

TimeoutRelease(c) ==
  /\ timer[c] = "release"
  /\ ReleaseTask
  /\ timer' = [timer EXCEPT ![c] = "answer"]
  /\ UNCHANGED <<now, boot, cmdVars, recVars, waitVars, mq, fb, rosVars,
                 outVars>>

TimeoutAnswer(c) ==
  /\ timer[c] = "answer"
  /\ Ack(c, "rejected")
  /\ timer' = [timer EXCEPT ![c] = "final"]
  /\ UNCHANGED <<now, boot, cmdVars, lock, waitVars, mq, fb, rosVars>>

TimeoutFinal(c) ==
  /\ timer[c] = "final"
  /\ Finalize(c)
  /\ timer' = [timer EXCEPT ![c] = "off"]
  /\ UNCHANGED <<now, boot, cmdVars, lock, mq, fb, rosVars, outVars>>

-----------------------------------------------------------------------------
(* The process and the clock                                               *)

\* The bridge process dies and starts with a new boot_id; all of the state
\* above is in memory.
Restart ==
  /\ boot < MaxBoots
  /\ boot' = boot + 1
  /\ known' = {} /\ pending' = {} /\ acked' = {}
  /\ lock' = NoCmd
  /\ mq' = IdleMq /\ fb' = IdleFb
  /\ timer' = [c \in Cmds |-> "off"]
  /\ UNCHANGED <<now, cmdVars, ackOf, reportOf, ts, rosVars, outVars>>

Tick ==
  /\ now < MaxTime
  /\ now' = now + 1
  /\ UNCHANGED <<boot, cmdVars, recVars, lock, waitVars, mq, fb, timer,
                 rosVars, outVars>>

MqttThread  == AcquireTask \/ PublishCommand \/ UndoAcquire \/ Reject \/ Arm
ReaderThread == \/ FeedbackAccept \/ FeedbackRelease \/ FeedbackAnswer
                \/ FeedbackReport \/ FeedbackFinal
TimerThread(c) == \/ TimerFires(c) \/ TimeoutRelease(c)
                  \/ TimeoutAnswer(c) \/ TimeoutFinal(c)

Next ==
  \/ \E c \in Cmds : Issue(c) \/ Receive(c) \/ TimerThread(c)
  \/ \E c \in Cmds, st \in Feedback : ReadFeedback(c, st)
  \/ MqttThread \/ ReaderThread
  \/ Restart \/ Tick

Spec == Init /\ [][Next]_vars

\* The threads of the bridge run whenever they have a step to take. Nothing
\* is assumed of the broker, of the ROS side or of the clock.
Fairness == /\ WF_vars(MqttThread) /\ WF_vars(ReaderThread)
            /\ \A c \in Cmds : WF_vars(TimerThread(c))
FairSpec == Spec /\ Fairness

-----------------------------------------------------------------------------
(* Properties                                                              *)

\* Contract 1.3 section 5, command_id idempotence: however often a command is
\* delivered, and although records are dropped after their TTL and lost with
\* the process, it reaches the ROS side once; an e-stop that names no boot
\* session reaches it at most once per bridge process.
ForwardedOnce ==
  \A c \in Cmds : forwards[c] <= IF c \in AnyBoot THEN boot ELSE 1

\* The task lock is never leaked: its holder is a task on_command is still
\* working on or a pending one, and no thread that has already freed it for
\* this task is about to forget the task.
LockHasOwner ==
  lock # NoCmd =>
    \/ mq.c = lock /\ mq.pc \in {"publish", "undo", "arm"}
    \/ /\ lock \in pending
       /\ timer[lock] \notin {"answer", "final"}
       /\ ~(fb.c = lock /\ fb.pc = "final")

\* When the platform is told that a task ended, the bridge is already free to
\* take the next one: on_feedback releases the lock before it reports.
FreeWhenTold == lock \notin ended

\* Contract 1.3 section 3.5: the bridge never answers accepted on its own; an
\* accepted command_ack, first or replayed, follows an ACCEPTED of the ROS side.
AcceptedByRos ==
  \A c \in Cmds \ AnyBoot :
    "accepted" \in answers[c] => veh[c] \in {"ACCEPTED", "EXECUTING"} \cup Final

\* Whatever the ROS side does, the platform hears of every command the bridge
\* registers: a command_ack, or a final task_status, unless it loses the record
\* before, with its process or because of its age.
Concluded ==
  \A c \in Cmds :
    (c \in known) ~> (answers[c] # {} \/ c \in ended \/ c \notin known)

\* command_receiver.py, task lock: task commands need exclusivity, so the
\* bridge never has two tasks that it accepted and that still run.
TaskExclusive ==
  \A c, d \in Tasks :
    /\ "accepted" \in answers[c] /\ veh[c] \in {"ACCEPTED", "EXECUTING"}
    /\ "accepted" \in answers[d] /\ veh[d] \in {"ACCEPTED", "EXECUTING"}
    => c = d

-----------------------------------------------------------------------------
(* The inductive invariant                                                 *)

Acceptance == {"ACCEPTED", "EXECUTING"} \cup Final

\* How often this process and its predecessors may have forwarded a command.
Quota(c) == IF c \in AnyBoot THEN boot ELSE 1

\* Times and boots are in the past; a record is never older than its command.
ClockInv ==
  /\ boot # 0
  /\ \A c \in issued : born[c] <= now /\ target[c] <= boot
  /\ \A c \in known : c \in issued /\ born[c] <= ts[c]

\* A command that has used up its quota is remembered, or is refused for its
\* age or its boot. One that on_command is about to forward has quota left.
OnceInv ==
  /\ \A c \in Cmds : forwards[c] <= Quota(c)
  /\ \A c \in Cmds : forwards[c] # 0 => c \in issued
  /\ \A c \in Cmds : forwards[c] = Quota(c) =>
       c \in known \/ Expired(c) \/ (c \notin AnyBoot /\ target[c] # boot)
  /\ mq.pc \in {"acquire", "publish", "undo"} =>
       mq.c \in known /\ forwards[mq.c] < Quota(mq.c)

\* Where the threads are: only a forwarded task is pending, timed or reported,
\* and on_command works on a task no other thread has seen.
ThreadInv ==
  /\ (mq.pc = "idle") = (mq.c = NoCmd)
  /\ (fb.pc = "idle") = (fb.c = NoCmd)
  /\ mq.pc \in {"acquire", "undo"} => mq.c \in Tasks
  /\ fb.pc \in {"release", "report"} => fb.c \in Tasks
  /\ fb.pc = "accept" => fb.st = "ACCEPTED"
  /\ fb.pc = "answer" => fb.st \in {"ACCEPTED", "REJECTED"}
  /\ fb.pc = "final" /\ fb.st = "ACCEPTED" => fb.c \in Plain
  /\ \A c \in Tasks :
       c \in pending \/ timer[c] # "off" \/ fb.c = c \/ c \in ended =>
         forwards[c] # 0
  /\ mq.pc = "arm" => forwards[mq.c] # 0
  /\ mq.pc = "arm" /\ mq.c \in Tasks =>
       mq.c \notin pending /\ timer[mq.c] = "off" /\ fb.c # mq.c
  /\ \A c \in Cmds : reportOf[c] \in Final => c \in ended

\* The holder of the lock is still to be released by the thread it waits for.
LockInv ==
  lock # NoCmd =>
    \/ mq.c = lock /\ mq.pc \in {"publish", "undo", "arm"}
    \/ /\ lock \in pending
       /\ timer[lock] \notin {"answer", "final"}
       /\ fb.c = lock =>
            \/ fb.pc \in {"accept", "release"}
            \/ fb.pc = "answer" /\ fb.st = "ACCEPTED"
            \/ fb.pc = "report" /\ fb.st \notin Final

\* Whoever is about to answer accepted, or to replay it, has the ROS side's word.
WordInv ==
  /\ \A c \in Cmds : veh[c] # "none" => forwards[c] # 0
  /\ \A c \in Cmds \ AnyBoot :
       "accepted" \in answers[c] \/ ackOf[c] = "accepted" =>
         veh[c] \in Acceptance
  /\ fb.pc \in {"accept", "answer"} /\ fb.st = "ACCEPTED" /\ fb.c \notin AnyBoot =>
       veh[fb.c] \in Acceptance

BridgeInv == /\ TypeOK /\ ClockInv /\ OnceInv /\ ThreadInv /\ LockInv
             /\ FreeWhenTold /\ WordInv
=============================================================================

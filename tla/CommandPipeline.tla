--------------------------- MODULE CommandPipeline ---------------------------
(***************************************************************************)
(* The life of a command on the platform side: the API that creates it,    *)
(* the outbox table and the Redis safety stream that carry it, the         *)
(* dispatcher threads that publish it, the ingress that records the        *)
(* vehicle's answer and the worker that gives up waiting.                  *)
(*                                                                         *)
(* Every service runs its own READ COMMITTED transaction: it reads the     *)
(* command row in one step and overwrites the columns it assigned in a     *)
(* later one, so a transaction is two actions here (Take/Read and Commit). *)
(*                                                                         *)
(* Time is abstracted to what the code compares: expires_at has passed     *)
(* (expired), published_at is older than the ACK timeout (overdue), the    *)
(* outbox back-off is over (backoff), a pending stream entry has been idle *)
(* for a second (idle).                                                    *)
(*                                                                         *)
(* The broker may deliver a published command any number of times, at any  *)
(* later moment or never; the same holds for the vehicle's answers.        *)
(***************************************************************************)
EXTENDS Naturals, FiniteSets

CONSTANTS Durable,     \* commands created with an outbox row
          Safety,      \* stop / e-stop / reset commands of the HTTP API
          WsStop,      \* stop commands sent when a websocket drops
          Business,    \* durable commands that start a task
          Dispatchers, \* dispatcher processes
          NoCmd,       \* "no command" of an idle thread
          MaxFaults    \* bound: process crashes and failed transactions

Cmds == Durable \cup Safety \cup WsStop

ASSUME CmdsAssumption ==
    /\ Durable \cap Safety = {} /\ Durable \cap WsStop = {}
    /\ Safety \cap WsStop = {}
    /\ Business \subseteq Durable
    /\ NoCmd \notin Cmds
    /\ MaxFaults \in Nat

VARIABLES
  status,     \* commands.lifecycle_status ("ABSENT": no committed row)
  ack,        \* commands.ack_at / ack_status
  published,  \* commands with published_at set
  expired,    \* commands whose expires_at has passed
  overdue,    \* commands whose published_at is older than the ACK timeout
  outbox,     \* outbox_events.status
  backoff,    \* outbox rows whose available_at is in the future
  older,      \* <<a, b>>: the outbox row of a was created before that of b
  stream,     \* the entry of a command in firebot:safety_commands
  idle,       \* pending stream entries idle for at least one second
  api,        \* progress of the request that creates the command
  obx,        \* outbox thread of each dispatcher
  saf,        \* safety thread of each dispatcher
  outq,       \* messages the MQTT client of a dispatcher has yet to deliver
  sent,       \* commands the MQTT broker received at least once
  ing,        \* open transaction of the ingress
  wrk,        \* rows read by the open transaction of the worker
  faults      \* crashes and failed transactions so far

rowVars == <<status, ack, published>>
outVars == <<outbox, backoff, older>>
strVars == <<stream, idle>>
clkVars == <<expired, overdue>>
dspVars == <<obx, saf>>
obsVars == <<ing, wrk>>
netVars == <<outq, sent>>
vars == <<rowVars, outVars, strVars, clkVars, dspVars, netVars, obsVars, api,
          faults>>

NoAck     == "none"
AckKinds  == {"accepted", "rejected", "unsupported"}
TaskKinds == {"ACCEPTED", "EXECUTING", "SUCCEEDED", "FAILED", "CANCELLED"}
Lifecycle == {"ABSENT", "CREATED", "QUEUED", "PUBLISHED",
              "PUBLISHED_UNCONFIRMED", "EXPIRED", "ACK_ACCEPTED",
              "ACK_REJECTED", "ACK_UNSUPPORTED"} \cup TaskKinds

IdleThread == [pc |-> "idle", c |-> NoCmd, seen |-> "ABSENT", held |-> {}]
Threads    == [pc : {"idle", "read", "sent", "expired", "failed", "xack"},
               c : Cmds \cup {NoCmd}, seen : Lifecycle, held : SUBSET Durable]
At(t, pc)  == [pc |-> pc, c |-> t.c, seen |-> t.seen, held |-> t.held]
NoTxn      == [kind |-> "idle", c |-> NoCmd, to |-> "none", seen |-> "ABSENT"]

Persisted(c) == status[c] # "ABSENT"

TypeOK ==
  /\ status \in [Cmds -> Lifecycle]
  /\ ack \in [Cmds -> AckKinds \cup {NoAck}]
  /\ published \subseteq Cmds
  /\ expired \subseteq Cmds
  /\ overdue \subseteq Cmds
  /\ outbox \in [Durable -> {"NONE", "PENDING", "PUBLISHED", "EXPIRED"}]
  /\ backoff \subseteq Durable
  /\ older \subseteq Durable \X Durable
  /\ stream \in [Safety \cup WsStop -> {"absent", "new", "pending", "acked"}]
  /\ idle \subseteq Safety \cup WsStop
  /\ api \in [Safety \cup WsStop ->
                {"todo", "enqueue", "failed", "open", "added", "offline",
                 "crashed", "done"}]
  /\ obx \in [Dispatchers -> Threads]
  /\ saf \in [Dispatchers -> Threads]
  /\ outq \in [Dispatchers -> SUBSET Cmds]
  /\ sent \subseteq Cmds
  /\ ing \in [kind : {"idle", "ack", "task"}, c : Cmds \cup {NoCmd},
              to : AckKinds \cup TaskKinds \cup {"none"}, seen : Lifecycle]
  /\ wrk \subseteq Cmds
  /\ faults \in 0 .. MaxFaults

Init ==
  /\ status = [c \in Cmds |-> "ABSENT"]
  /\ ack = [c \in Cmds |-> NoAck]
  /\ published = {}
  /\ expired = {} /\ overdue = {} /\ backoff = {} /\ idle = {}
  /\ outbox = [c \in Durable |-> "NONE"]
  /\ older = {}
  /\ stream = [c \in Safety \cup WsStop |-> "absent"]
  /\ api = [c \in Safety \cup WsStop |-> "todo"]
  /\ obx = [d \in Dispatchers |-> IdleThread]
  /\ saf = [d \in Dispatchers |-> IdleThread]
  /\ outq = [d \in Dispatchers |-> {}]
  /\ sent = {}
  /\ ing = NoTxn
  /\ wrk = {}
  /\ faults = 0

-----------------------------------------------------------------------------
(* The API                                                                 *)

\* create_durable_command: the row and its outbox event in one transaction.
CreateDurable(c) ==
  /\ status[c] = "ABSENT"
  /\ status' = [status EXCEPT ![c] = "QUEUED"]
  /\ outbox' = [outbox EXCEPT ![c] = "PENDING"]
  /\ older' = older \cup {<<b, c>> : b \in {b \in Durable : outbox[b] # "NONE"}}
  /\ UNCHANGED <<strVars, clkVars, dspVars, netVars, obsVars, ack, published,
                 backoff, api, faults>>

\* Variant: the entry is added to the stream before the commit.
CreateSafetyEarly(c, deliverable) ==
  /\ api[c] = "todo"
  /\ deliverable
  /\ stream' = [stream EXCEPT ![c] = "new"]
  /\ api' = [api EXCEPT ![c] = "failed"]
  /\ UNCHANGED <<rowVars, outVars, clkVars, dspVars, netVars, obsVars, idle,
                 faults>>

\* create_safety_command and the commit of its caller; the entry is added to
\* the stream afterwards, and only for a vehicle that is not STALE / OFFLINE.
CreateSafety(c, deliverable) ==
  /\ api[c] = "todo"
  /\ status' = [status EXCEPT ![c] = IF deliverable THEN "CREATED"
                                     ELSE "PUBLISHED_UNCONFIRMED"]
  /\ api' = [api EXCEPT ![c] = IF deliverable THEN "enqueue" ELSE "done"]
  /\ UNCHANGED <<outVars, strVars, clkVars, dspVars, netVars, obsVars, ack,
                 published, faults>>

\* enqueue_safety_command after the commit. When it raises, the entry may or
\* may not have reached the stream.
EnqueueSafety(c) ==
  /\ api[c] = "enqueue"
  /\ \/ /\ stream' = [stream EXCEPT ![c] = "new"]
        /\ \E next \in {"done", "failed"} : api' = [api EXCEPT ![c] = next]
     \/ /\ api' = [api EXCEPT ![c] = "failed"]
        /\ UNCHANGED stream
  /\ UNCHANGED <<rowVars, outVars, clkVars, dspVars, netVars, obsVars, idle,
                 faults>>

\* The except branch: the row is overwritten and committed again.
EnqueueFailed(c) ==
  /\ api[c] = "failed"
  /\ status' = [status EXCEPT ![c] = "PUBLISHED_UNCONFIRMED"]
  /\ api' = [api EXCEPT ![c] = "done"]
  /\ UNCHANGED <<outVars, strVars, clkVars, dspVars, netVars, obsVars, ack,
                 published, faults>>

\* The API process dies with the row committed and the entry not yet added.
ApiCrash(c) ==
  /\ api[c] \in {"enqueue", "failed", "open", "added", "offline"}
  /\ faults < MaxFaults
  /\ faults' = faults + 1
  /\ api' = [api EXCEPT ![c] = "crashed"]
  /\ UNCHANGED <<rowVars, outVars, strVars, clkVars, dspVars, netVars,
                 obsVars>>

\* release_user_leases: the transaction is open while the stop is enqueued.
WsOpen(c, deliverable) ==
  /\ api[c] = "todo"
  /\ api' = [api EXCEPT ![c] = IF deliverable THEN "open" ELSE "offline"]
  /\ UNCHANGED <<rowVars, outVars, strVars, clkVars, dspVars, netVars, obsVars,
                 faults>>

\* enqueue_safety_command inside the transaction; when it raises, the
\* transaction is rolled back.
WsEnqueue(c) ==
  /\ api[c] = "open"
  /\ \/ /\ stream' = [stream EXCEPT ![c] = "new"]
        /\ \E next \in {"added", "done"} : api' = [api EXCEPT ![c] = next]
     \/ /\ api' = [api EXCEPT ![c] = "done"]
        /\ UNCHANGED stream
  /\ UNCHANGED <<rowVars, outVars, clkVars, dspVars, netVars, obsVars, idle,
                 faults>>

WsCommit(c) ==
  /\ api[c] \in {"added", "offline"}
  /\ status' = [status EXCEPT ![c] = IF api[c] = "added" THEN "CREATED"
                                     ELSE "PUBLISHED_UNCONFIRMED"]
  /\ api' = [api EXCEPT ![c] = "done"]
  /\ UNCHANGED <<outVars, strVars, clkVars, dspVars, netVars, obsVars, ack,
                 published, faults>>

-----------------------------------------------------------------------------
(* The dispatcher                                                          *)

\* Outbox rows the query of outbox_loop can lock: SKIP LOCKED leaves out the
\* rows another dispatcher holds.
Eligible(d) ==
  {c \in Durable : /\ outbox[c] = "PENDING"
                   /\ c \notin backoff
                   /\ \A e \in Dispatchers \ {d} : c \notin obx[e].held}

\* The query locks every eligible row and the loop takes the oldest.
OutboxTake(d, c) ==
  /\ obx[d].pc = "idle"
  /\ c \in Eligible(d)
  /\ \A b \in Eligible(d) : <<b, c>> \notin older
  /\ obx' = [obx EXCEPT ![d] = [pc |-> "read", c |-> c, seen |-> status[c],
                                held |-> Eligible(d)]]
  /\ UNCHANGED <<rowVars, outVars, strVars, clkVars, netVars, obsVars, api,
                 saf, faults>>

\* Variant: the publication is not waited for.
PublishUnconfirmed(d, c, pc) ==
  IF c \in expired
  THEN pc = "expired" /\ UNCHANGED <<sent, outq>>
  ELSE pc = "sent" /\ outq' = [outq EXCEPT ![d] = @ \cup {c}] /\ UNCHANGED sent

\* publish_command by dispatcher d: the next pc of its thread. A publication
\* that is not confirmed within 3 s raises, but the MQTT client keeps it and
\* delivers it when it can, however late.
PublishCommand(d, c, pc) ==
  \/ c \in expired /\ pc = "expired" /\ UNCHANGED <<sent, outq>>
  \/ c \notin expired /\ pc = "sent" /\ sent' = sent \cup {c} /\ UNCHANGED outq
  \/ c \notin expired /\ pc = "failed"
     /\ outq' = [outq EXCEPT ![d] = @ \cup {c}] /\ UNCHANGED sent

MqttFlush(d, c) ==
  /\ c \in outq[d]
  /\ sent' = sent \cup {c}
  /\ outq' = [outq EXCEPT ![d] = @ \ {c}]
  /\ UNCHANGED <<rowVars, outVars, strVars, clkVars, dspVars, obsVars, api,
                 faults>>

OutboxPublish(d) ==
  /\ obx[d].pc = "read"
  /\ \E pc \in {"sent", "expired", "failed"} :
        /\ PublishCommand(d, obx[d].c, pc)
        /\ obx' = [obx EXCEPT ![d] = At(@, pc)]
  /\ UNCHANGED <<rowVars, outVars, strVars, clkVars, obsVars, api, saf,
                 faults>>

\* The UPDATE of a session sets the columns whose value differs from the one
\* it read, whatever the committed value is by now.
Assign(seen, new, committed) == IF seen = new THEN committed ELSE new

MarkPublished(c, seen) ==
  /\ status' = [status EXCEPT ![c] = Assign(seen, "PUBLISHED", @)]
  /\ published' = published \cup {c}
  /\ overdue' = overdue \ {c}
  /\ UNCHANGED ack

MarkExpired(c, seen) ==
  /\ status' = [status EXCEPT ![c] = Assign(seen, "EXPIRED", @)]
  /\ UNCHANGED <<ack, published, overdue>>

\* Variant: the command row is forgotten when the event expires.
OutboxCommitRowForgotten(d) ==
  LET c == obx[d].c IN
  /\ \/ /\ obx[d].pc = "sent"
        /\ outbox' = [outbox EXCEPT ![c] = "PUBLISHED"]
        /\ MarkPublished(c, obx[d].seen)
        /\ UNCHANGED backoff
     \/ /\ obx[d].pc = "expired"
        /\ outbox' = [outbox EXCEPT ![c] = "EXPIRED"]
        /\ UNCHANGED <<rowVars, overdue, backoff>>
     \/ /\ obx[d].pc = "failed"
        /\ backoff' = backoff \cup {c}
        /\ UNCHANGED <<rowVars, outbox, overdue>>
  /\ obx' = [obx EXCEPT ![d] = IdleThread]
  /\ UNCHANGED <<strVars, netVars, obsVars, older, expired, api, saf, faults>>

OutboxCommit(d) ==
  LET c == obx[d].c IN
  /\ \/ /\ obx[d].pc = "sent"
        /\ outbox' = [outbox EXCEPT ![c] = "PUBLISHED"]
        /\ MarkPublished(c, obx[d].seen)
        /\ UNCHANGED backoff
     \/ /\ obx[d].pc = "expired"
        /\ outbox' = [outbox EXCEPT ![c] = "EXPIRED"]
        /\ MarkExpired(c, obx[d].seen)
        /\ UNCHANGED backoff
     \/ /\ obx[d].pc = "failed"
        /\ backoff' = backoff \cup {c}
        /\ UNCHANGED <<rowVars, outbox, overdue>>
  /\ obx' = [obx EXCEPT ![d] = IdleThread]
  /\ UNCHANGED <<strVars, netVars, obsVars, older, expired, api, saf, faults>>

\* xreadgroup hands out a new entry, xautoclaim one that has been pending for
\* a second. The row is looked up in the transaction of process_safety_events.
SafetyTake(d, c) ==
  /\ saf[d].pc = "idle"
  /\ stream[c] = "new" \/ (stream[c] = "pending" /\ c \in idle)
  /\ stream' = [stream EXCEPT ![c] = "pending"]
  /\ idle' = idle \ {c}
  /\ saf' = [saf EXCEPT ![d] = [pc |-> "read", c |-> c,
                                seen |-> status[c], held |-> {}]]
  /\ UNCHANGED <<rowVars, outVars, clkVars, netVars, obsVars, api, obx,
                 faults>>

SafetyPublish(d) ==
  /\ saf[d].pc = "read"
  /\ \E pc \in {"sent", "expired", "failed"} :
        /\ PublishCommand(d, saf[d].c, pc)
        /\ saf' = [saf EXCEPT ![d] = At(@, pc)]
  /\ UNCHANGED <<rowVars, outVars, strVars, clkVars, obsVars, api, obx,
                 faults>>

\* The end of the transaction; the row is updated only if it was found.
Found(d) == saf[d].seen # "ABSENT"

\* Variant: the entry is acknowledged whatever became of the publication.
SafetyCommitAlwaysAcks(d) ==
  LET c == saf[d].c IN
  /\ saf[d].pc \in {"sent", "expired", "failed"}
  /\ IF saf[d].pc = "sent" /\ Found(d) THEN MarkPublished(c, saf[d].seen)
                                        ELSE UNCHANGED <<rowVars, overdue>>
  /\ saf' = [saf EXCEPT ![d] = At(@, "xack")]
  /\ UNCHANGED <<outVars, strVars, netVars, obsVars, expired, api, obx, faults>>

\* Variant: published_at is set although the publication failed.
SafetyCommitClaimsAll(d) ==
  LET c == saf[d].c IN
  /\ saf[d].pc \in {"sent", "expired", "failed"}
  /\ IF Found(d) THEN MarkPublished(c, saf[d].seen)
                 ELSE UNCHANGED <<rowVars, overdue>>
  /\ saf' = [saf EXCEPT ![d] = At(@, "xack")]
  /\ UNCHANGED <<outVars, strVars, netVars, obsVars, expired, api, obx, faults>>

SafetyCommit(d) ==
  LET c == saf[d].c IN
  /\ \/ /\ saf[d].pc = "sent"
        /\ IF Found(d) THEN MarkPublished(c, saf[d].seen)
                       ELSE UNCHANGED <<rowVars, overdue>>
     \/ /\ saf[d].pc = "expired"
        /\ IF Found(d) THEN MarkExpired(c, saf[d].seen)
                       ELSE UNCHANGED <<rowVars, overdue>>
     \/ /\ saf[d].pc = "failed"
        /\ UNCHANGED <<rowVars, overdue>>
  /\ saf' = [saf EXCEPT ![d] = IF saf[d].pc = "failed" THEN IdleThread
                               ELSE At(@, "xack")]
  /\ UNCHANGED <<outVars, strVars, netVars, obsVars, expired, api, obx,
                 faults>>

\* xack after the commit.
SafetyXack(d) ==
  /\ saf[d].pc = "xack"
  /\ stream' = [stream EXCEPT ![saf[d].c] = "acked"]
  /\ idle' = idle \ {saf[d].c}
  /\ saf' = [saf EXCEPT ![d] = IdleThread]
  /\ UNCHANGED <<rowVars, outVars, clkVars, netVars, obsVars, api, obx,
                 faults>>

\* A transaction that cannot be committed is rolled back: the outbox row and
\* the stream entry stay pending.
TxnFails(d) ==
  /\ faults < MaxFaults
  /\ faults' = faults + 1
  /\ \/ /\ obx[d].pc \in {"sent", "expired", "failed"}
        /\ obx' = [obx EXCEPT ![d] = IdleThread]
        /\ UNCHANGED saf
     \/ /\ saf[d].pc \in {"sent", "expired", "failed"}
        /\ saf' = [saf EXCEPT ![d] = IdleThread]
        /\ UNCHANGED obx
  /\ UNCHANGED <<rowVars, outVars, strVars, clkVars, netVars, obsVars, api>>

\* The process dies; a new one reads the outbox and claims the pending
\* stream entries.
DispatcherCrash(d) ==
  /\ obx[d].pc # "idle" \/ saf[d].pc # "idle" \/ outq[d] # {}
  /\ faults < MaxFaults
  /\ faults' = faults + 1
  /\ obx' = [obx EXCEPT ![d] = IdleThread]
  /\ saf' = [saf EXCEPT ![d] = IdleThread]
  /\ outq' = [outq EXCEPT ![d] = {}]
  /\ UNCHANGED <<rowVars, outVars, strVars, clkVars, obsVars, api, sent>>

-----------------------------------------------------------------------------
(* The vehicle, the ingress and the worker                                 *)

\* Variant: a later answer replaces the recorded one.
IngressReadAckAgain(c, s) ==
  /\ ing.kind = "idle"
  /\ c \in sent
  /\ Persisted(c)
  /\ ing' = [kind |-> "ack", c |-> c, to |-> s, seen |-> status[c]]
  /\ UNCHANGED <<rowVars, outVars, strVars, clkVars, dspVars, netVars, api, wrk,
                 faults>>

\* The vehicle may answer a command it received at any time, more than once
\* and differently (accepted first, expired when it is redelivered), and the
\* broker may delay, repeat or lose the answer: any answer to a command that
\* was on the broker can arrive at any time. An answer to an unknown command
\* and one to a command that has an answer are dropped by handle_ack.
IngressReadAck(c, s) ==
  /\ ing.kind = "idle"
  /\ c \in sent
  /\ Persisted(c)
  /\ ack[c] = NoAck
  /\ ing' = [kind |-> "ack", c |-> c, to |-> s, seen |-> status[c]]
  /\ UNCHANGED <<rowVars, outVars, strVars, clkVars, dspVars, netVars, api,
                 wrk, faults>>

\* handle_task_status finds the command that started the task.
IngressReadTask(c, s) ==
  /\ ing.kind = "idle"
  /\ c \in sent \cap Business
  /\ ing' = [kind |-> "task", c |-> c, to |-> s, seen |-> status[c]]
  /\ UNCHANGED <<rowVars, outVars, strVars, clkVars, dspVars, netVars, api,
                 wrk, faults>>

AckStatus(s) == IF s = "accepted" THEN "ACK_ACCEPTED"
                ELSE IF s = "unsupported" THEN "ACK_UNSUPPORTED"
                ELSE "ACK_REJECTED"

IngressCommit ==
  LET c == ing.c IN
  /\ \/ /\ ing.kind = "ack"
        /\ ack' = [ack EXCEPT ![c] = ing.to]
        /\ status' = [status EXCEPT ![c] = Assign(ing.seen, AckStatus(ing.to), @)]
     \/ /\ ing.kind = "task"
        /\ status' = [status EXCEPT ![c] = Assign(ing.seen, ing.to, @)]
        /\ UNCHANGED ack
  /\ ing' = NoTxn
  /\ UNCHANGED <<outVars, strVars, clkVars, dspVars, netVars, published, api,
                 wrk, faults>>

IngressFails ==
  /\ ing.kind # "idle"
  /\ faults < MaxFaults
  /\ faults' = faults + 1
  /\ ing' = NoTxn
  /\ UNCHANGED <<rowVars, outVars, strVars, clkVars, dspVars, netVars, api,
                 wrk>>

Overdue == {c \in overdue : status[c] = "PUBLISHED"}

\* expire_sessions_and_commands reads the overdue rows ...
WorkerRead ==
  /\ wrk = {}
  /\ Overdue # {}
  /\ wrk' = Overdue
  /\ UNCHANGED <<rowVars, outVars, strVars, clkVars, dspVars, netVars, api,
                 ing, faults>>

\* ... and overwrites them when the transaction of the cycle commits.
WorkerCommit ==
  /\ wrk # {}
  /\ status' = [c \in Cmds |-> IF c \in wrk THEN "PUBLISHED_UNCONFIRMED"
                               ELSE status[c]]
  /\ wrk' = {}
  /\ UNCHANGED <<outVars, strVars, clkVars, dspVars, netVars, ack, published,
                 api, ing, faults>>

WorkerFails ==
  /\ wrk # {}
  /\ faults < MaxFaults
  /\ faults' = faults + 1
  /\ wrk' = {}
  /\ UNCHANGED <<rowVars, outVars, strVars, clkVars, dspVars, netVars, api,
                 ing>>

-----------------------------------------------------------------------------
(* The passing of time                                                     *)

\* The payload exists (its TTL runs) from the moment it is built.
Built(c) == IF c \in Durable THEN outbox[c] # "NONE" ELSE api[c] # "todo"

Expire(c) ==
  /\ c \notin expired
  /\ Built(c)
  /\ expired' = expired \cup {c}
  /\ UNCHANGED <<rowVars, outVars, strVars, dspVars, netVars, obsVars, overdue,
                 api, faults>>

AckDeadline(c) ==
  /\ c \in published \ overdue
  /\ overdue' = overdue \cup {c}
  /\ UNCHANGED <<rowVars, outVars, strVars, dspVars, netVars, obsVars, expired,
                 api, faults>>

BackoffOver(c) ==
  /\ c \in backoff
  /\ backoff' = backoff \ {c}
  /\ UNCHANGED <<rowVars, strVars, clkVars, dspVars, netVars, obsVars, outbox,
                 older, api, faults>>

IdlePasses(c) ==
  /\ stream[c] = "pending"
  /\ c \notin idle
  /\ idle' = idle \cup {c}
  /\ UNCHANGED <<rowVars, outVars, clkVars, dspVars, netVars, obsVars, stream,
                 api, faults>>

-----------------------------------------------------------------------------

DurableStep(c) == CreateDurable(c) \/ BackoffOver(c)
                  \/ \E d \in Dispatchers : OutboxTake(d, c)

SafetyStep(c) ==
  \/ \E deliverable \in BOOLEAN : CreateSafety(c, deliverable)
  \/ EnqueueSafety(c)
  \/ EnqueueFailed(c)

WsStep(c) ==
  \/ \E deliverable \in BOOLEAN : WsOpen(c, deliverable)
  \/ WsEnqueue(c)
  \/ WsCommit(c)

StreamStep(c) == ApiCrash(c) \/ IdlePasses(c)
                 \/ \E d \in Dispatchers : SafetyTake(d, c)

DispatcherStep(d) ==
  \/ OutboxPublish(d) \/ OutboxCommit(d)
  \/ SafetyPublish(d) \/ SafetyCommit(d) \/ SafetyXack(d)
  \/ TxnFails(d) \/ DispatcherCrash(d)
  \/ \E c \in Cmds : MqttFlush(d, c)

AnyStep(c) ==
  \/ \E s \in AckKinds : IngressReadAck(c, s)
  \/ \E s \in TaskKinds : IngressReadTask(c, s)
  \/ Expire(c) \/ AckDeadline(c)

Next ==
  \/ \E c \in Durable : DurableStep(c)
  \/ \E c \in Safety : SafetyStep(c)
  \/ \E c \in WsStop : WsStep(c)
  \/ \E c \in Safety \cup WsStop : StreamStep(c)
  \/ \E d \in Dispatchers : DispatcherStep(d)
  \/ \E c \in Cmds : AnyStep(c)
  \/ IngressCommit \/ IngressFails
  \/ WorkerRead \/ WorkerCommit \/ WorkerFails

Spec == Init /\ [][Next]_vars

-----------------------------------------------------------------------------
(* Fairness: every loop of every service keeps running, an API request that *)
(* was started ends, time passes. Nothing is assumed of the vehicle, the    *)
(* broker or the users.                                                     *)

Fairness ==
  /\ \A d \in Dispatchers :
       /\ WF_vars(\E c \in Durable : OutboxTake(d, c))
       /\ WF_vars(OutboxPublish(d))
       /\ WF_vars(OutboxCommit(d))
       /\ \A c \in Safety \cup WsStop : WF_vars(SafetyTake(d, c))
       /\ WF_vars(SafetyPublish(d))
       /\ WF_vars(SafetyCommit(d))
       /\ WF_vars(SafetyXack(d))
  /\ \A c \in Safety : WF_vars(EnqueueSafety(c)) /\ WF_vars(EnqueueFailed(c))
  /\ \A c \in WsStop : WF_vars(WsEnqueue(c)) /\ WF_vars(WsCommit(c))
  /\ WF_vars(IngressCommit)
  /\ WF_vars(WorkerRead) /\ WF_vars(WorkerCommit)
  /\ \A c \in Cmds : WF_vars(Expire(c)) /\ WF_vars(AckDeadline(c))
  /\ \A c \in Durable : WF_vars(BackoffOver(c))
  /\ \A c \in Safety \cup WsStop : WF_vars(IdlePasses(c))

FairSpec == Spec /\ Fairness

-----------------------------------------------------------------------------
(* Properties                                                              *)

\* "Stop and e-stop use a stream of their own, but the database fact is
\* committed first": what the broker received has a committed row.
PersistBeforeTransmit == \A c \in sent : Persisted(c)

\* The outbox never loses an event: it is marked PUBLISHED only if the broker
\* has the command and EXPIRED only if the command can no longer be sent,
\* whatever crashes and roll-backs happened between publish and commit.
OutboxTruth ==
  \A c \in Durable : /\ outbox[c] = "PUBLISHED" => c \in sent
                     /\ outbox[c] = "EXPIRED" => c \in expired

\* A safety stream entry is acknowledged only when the command is on the
\* broker or has expired: a crash between publish, commit and xack leaves it
\* claimable.
StreamTruth ==
  \A c \in Safety \cup WsStop : stream[c] = "acked" => c \in sent \cup expired

\* handle_ack keeps the first answer: no later answer, retry, time-out or
\* republication changes ack_at / ack_status.
FirstAnswerWins ==
  [][\A c \in Cmds : ack[c] # NoAck => ack'[c] = ack[c]]_vars

\* The dispatcher and the worker bring every command to a verdict: none stays
\* QUEUED or PUBLISHED for ever.
EventuallySettled ==
  \A c \in Cmds : <>[](status[c] \notin {"QUEUED", "PUBLISHED"})

\* A stop that was created for a reachable vehicle is dispatched, unless the
\* API process died between its commit and the enqueue.
StopIsDispatched ==
  \A c \in Safety :
     status[c] = "CREATED" ~> (status[c] # "CREATED" \/ api[c] = "crashed")

-----------------------------------------------------------------------------
(* The inductive strengthening behind these properties: what every thread, *)
(* queue entry and open transaction knows about the command it carries.    *)

\* A row exists exactly from the commit of the request that creates it.
RowInv ==
  /\ \A c \in Durable : Persisted(c) <=> outbox[c] # "NONE"
  /\ \A c \in Safety : Persisted(c) <=> api[c] # "todo"
  /\ \A c \in Cmds : ack[c] # NoAck => Persisted(c) /\ c \in sent

\* Nothing but a stop of a dropped websocket is on its way to the broker
\* without a committed row.
CarriedInv ==
  /\ \A c \in sent : Persisted(c) \/ c \in WsStop
  /\ \A d \in Dispatchers : \A c \in outq[d] : Persisted(c) \/ c \in WsStop
  /\ \A c \in Safety : stream[c] # "absent" => Persisted(c)
  /\ published \subseteq sent

\* What an outbox thread, a safety thread, the ingress and the worker may
\* rely on in the middle of a transaction.
ThreadInv ==
  /\ \A d \in Dispatchers :
       /\ obx[d].pc # "idle" => obx[d].c \in Durable /\ Persisted(obx[d].c)
       /\ obx[d].pc = "sent" => obx[d].c \in sent
       /\ obx[d].pc = "expired" => obx[d].c \in expired
       /\ saf[d].pc # "idle" =>
            saf[d].c \in WsStop \/ (saf[d].c \in Safety /\ Persisted(saf[d].c))
       /\ saf[d].pc # "idle" /\ Found(d) => Persisted(saf[d].c)
       /\ saf[d].pc = "sent" => saf[d].c \in sent
       /\ saf[d].pc = "expired" => saf[d].c \in expired
       /\ saf[d].pc = "xack" => saf[d].c \in sent \cup expired
  /\ ing.kind # "idle" => ing.c \in sent /\ Persisted(ing.c)
  /\ ing.kind = "ack" => ack[ing.c] = NoAck /\ ing.to \in AckKinds
  /\ ing.kind = "task" => ing.to \in TaskKinds
  /\ \A c \in wrk : Persisted(c)

PipelineInv == TypeOK /\ RowInv /\ CarriedInv /\ ThreadInv
               /\ OutboxTruth /\ StreamTruth

Contract == INSTANCE CommandContract WITH
  persisted   <- {c \in Cmds : Persisted(c)},
  transmitted <- sent,
  claimed     <- published,
  answer      <- ack

\* The pipeline implements the command contract.
ImplementsContract == Contract!CSpec

=============================================================================

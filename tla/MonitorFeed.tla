----------------------------- MODULE MonitorFeed -----------------------------
(* Fire alarms on their way to the operator. The ingress raises and merges  *)
(* them, the alarm page moves them on, both publish an event after their    *)
(* commit on one bounded stream, and a monitor page joins that stream after *)
(* a snapshot, loses its connection and comes back.                         *)
EXTENDS Naturals, Sequences, SequencesExt, FiniteSetsExt

CONSTANTS
  MfMsgs,    \* alarm messages, by message_id
  MfSame,    \* those of one and the same event_id
  MfKeep,    \* event_stream_maxlen
  MfCommits, \* bound: commits
  MfDrops    \* bound: lost connections

ASSUME MfAssumption ==
  /\ MfKeep \in Nat \ {0} /\ {MfCommits, MfDrops} \subseteq Nat
  /\ MfSame \subseteq MfMsgs

VARIABLES
  mfRows,    \* fire_events
  mfHandled, \* messages whose transaction has been committed
  mfActor,   \* "ingress", "user" -> where it is in its transaction
  mfCommit,  \* commits so far
  mfStream,  \* firebot:events: the number of the commit that each event tells
  mfFirst,   \* position of the oldest event that is kept
  mfPage     \* the monitor page and the socket that serves it

mfVars == <<mfRows, mfHandled, mfActor, mfCommit, mfStream, mfFirst, mfPage>>

AlarmStates == {"NEW", "ACKNOWLEDGED", "CONFIRMED", "RESOLVED", "CLOSED", "DISMISSED"}
Nobody == "none"
EventOf(m) == IF m \in MfSame THEN "e" ELSE m
Waiting == [pc |-> "idle", row |-> 0, copy |-> 0, to |-> "none", msg |-> Nobody]

MfTypeOK ==
  /\ mfRows \in Seq([state : AlarmStates, count : 1 .. MfCommits,
                     msg : MfMsgs \cup {Nobody}, fresh : BOOLEAN])
  /\ mfHandled \subseteq MfMsgs
  /\ mfActor \in [{"ingress", "user"} ->
       [pc : {"idle", "read", "publish"}, row : 0 .. Len(mfRows), copy : 0 .. MfCommits,
        to : AlarmStates \cup {"none"}, msg : MfMsgs \cup {Nobody}]]
  /\ mfCommit \in 0 .. MfCommits
  /\ mfStream \in Seq(0 .. mfCommit) /\ mfFirst \in 1 .. Len(mfStream)
  /\ mfPage \in [phase : {"off", "rows", "marked", "open"}, rows : 0 .. MfCommits,
                 mark : 0 .. Len(mfStream), cursor : 0 .. Len(mfStream),
                 upto : 0 .. Len(mfStream), got : SUBSET (1 .. Len(mfStream)),
                 overtaken : 0 .. Len(mfStream), drops : 0 .. MfDrops]

\* A platform on which something has happened before: 0-0 is no cursor then.
MfInit ==
  /\ mfRows = <<>> /\ mfHandled = {} /\ mfCommit = 0
  /\ mfActor = [a \in {"ingress", "user"} |-> Waiting]
  /\ mfStream = <<0>> /\ mfFirst = 1
  /\ mfPage = [phase |-> "off", rows |-> 0, mark |-> 0, cursor |-> 0, upto |-> 0,
               got |-> {}, overtaken |-> 0, drops |-> 0]

-----------------------------------------------------------------------------
(* Alarms                                                                   *)

\* The row that handle_alarm takes a message for: the one of its event, or
\* else one of the same fire (one vehicle, slot and type here) that was seen
\* within five minutes, whatever its state.
Matching(m) ==
  LET sameEvent == {i \in DOMAIN mfRows : EventOf(mfRows[i].msg) = EventOf(m)} IN
  IF sameEvent # {} THEN sameEvent
  ELSE {i \in DOMAIN mfRows : mfRows[i].msg # Nobody /\ mfRows[i].fresh}

\* A message whose id is on a row is done with; one that was merged into a
\* row is not recognised again.
AlreadyRow(m) == \E i \in DOMAIN mfRows : mfRows[i].msg = m

FaRead(m) ==
  /\ mfActor["ingress"].pc = "idle" /\ ~ AlreadyRow(m)
  /\ \E i \in (IF Matching(m) = {} THEN {0} ELSE Matching(m)) :
       mfActor' = [mfActor EXCEPT !["ingress"] =
                     [pc |-> "read", row |-> i, to |-> "none", msg |-> m,
                      copy |-> IF i = 0 THEN 0 ELSE mfRows[i].count]]
  /\ UNCHANGED <<mfRows, mfHandled, mfCommit, mfStream, mfFirst, mfPage>>

\* A transaction is committed, its event is published by the hook after it.
Committed(actor) ==
  /\ mfCommit < MfCommits
  /\ mfCommit' = mfCommit + 1
  /\ mfActor' = [mfActor EXCEPT ![actor] = [Waiting EXCEPT !.pc = "publish", !.copy = mfCommit + 1]]
  /\ UNCHANGED <<mfStream, mfFirst, mfPage>>

FaCommit ==
  LET a == mfActor["ingress"] IN
  /\ a.pc = "read"
  /\ mfRows' = IF a.row = 0
               THEN Append(mfRows, [state |-> "NEW", count |-> 1, msg |-> a.msg, fresh |-> TRUE])
               ELSE [mfRows EXCEPT ![a.row].count = a.copy + 1, ![a.row].fresh = TRUE]
  /\ mfHandled' = mfHandled \cup {a.msg}
  /\ Committed("ingress")

\* manual_alarm: always a row of its own.
FaManual ==
  /\ mfActor["user"].pc = "idle"
  /\ mfRows' = Append(mfRows, [state |-> "NEW", count |-> 1, msg |-> Nobody, fresh |-> TRUE])
  /\ UNCHANGED mfHandled
  /\ Committed("user")

\* transition.allowed; DISPATCHED and IN_PROGRESS belong to the tasks.
AlarmAllowed(from) ==
  CASE from = "NEW" -> {"ACKNOWLEDGED", "CONFIRMED", "DISMISSED"}
    [] from = "ACKNOWLEDGED" -> {"CONFIRMED", "DISMISSED"}
    [] from = "CONFIRMED" -> {"RESOLVED", "DISMISSED"}
    [] from = "RESOLVED" -> {"CLOSED"}
    [] OTHER -> {}

FaTransitionRead(i, to) ==
  /\ mfActor["user"].pc = "idle" /\ to \in AlarmAllowed(mfRows[i].state)
  /\ mfActor' = [mfActor EXCEPT !["user"] =
                   [Waiting EXCEPT !.pc = "read", !.row = i, !.to = to, !.copy = mfRows[i].count]]
  /\ UNCHANGED <<mfRows, mfHandled, mfCommit, mfStream, mfFirst, mfPage>>

\* Variant: the whole row is written back as it was read.
WrittenWhole(row, a) == [row EXCEPT !.state = a.to, !.count = a.copy]

\* The session writes the columns that were changed.
Written(row, a) == [row EXCEPT !.state = a.to]

FaTransitionCommit ==
  LET a == mfActor["user"] IN
  /\ a.pc = "read"
  /\ mfRows' = [mfRows EXCEPT ![a.row] = Written(@, a)]
  /\ UNCHANGED mfHandled
  /\ Committed("user")

\* The transaction fails; a message of the ingress is lost with it.
FaFails(actor) ==
  /\ mfActor[actor].pc = "read"
  /\ mfActor' = [mfActor EXCEPT ![actor] = Waiting]
  /\ UNCHANGED <<mfRows, mfHandled, mfCommit, mfStream, mfFirst, mfPage>>

FaFiveMinutes(i) ==
  /\ mfRows[i].fresh
  /\ mfRows' = [mfRows EXCEPT ![i].fresh = FALSE]
  /\ UNCHANGED <<mfHandled, mfActor, mfCommit, mfStream, mfFirst, mfPage>>

-----------------------------------------------------------------------------
(* The stream                                                               *)

\* append_event; old events may be trimmed with it.
FaPublish(actor) ==
  /\ mfActor[actor].pc = "publish"
  /\ mfStream' = Append(mfStream, mfActor[actor].copy)
  /\ \E f \in mfFirst .. Max({mfFirst, Len(mfStream) + 2 - MfKeep}) :
       /\ mfFirst' = f
       /\ mfPage' = IF mfPage.phase = "open" /\ f > mfPage.upto + 1
                    THEN [mfPage EXCEPT !.overtaken = f - 1] ELSE mfPage
  /\ mfActor' = [mfActor EXCEPT ![actor] = Waiting]
  /\ UNCHANGED <<mfRows, mfHandled, mfCommit>>

\* Redis fails or the process dies: the commit stands, nobody is told.
FaUntold(actor) ==
  /\ mfActor[actor].pc = "publish"
  /\ mfActor' = [mfActor EXCEPT ![actor] = Waiting]
  /\ UNCHANGED <<mfRows, mfHandled, mfCommit, mfStream, mfFirst, mfPage>>

-----------------------------------------------------------------------------
(* The page                                                                 *)

Page(change) ==
  /\ mfPage' = change
  /\ UNCHANGED <<mfRows, mfHandled, mfActor, mfCommit, mfStream, mfFirst>>

\* loadSnapshot and monitor_snapshot: the rows are read first.
MsRows ==
  /\ mfPage.phase = "off" /\ mfPage.mark = 0
  /\ Page([mfPage EXCEPT !.phase = "rows", !.rows = mfCommit])

\* current_watermark, when the answer is put together.
MsMark ==
  /\ mfPage.phase = "rows"
  /\ Page([mfPage EXCEPT !.phase = "marked", !.mark = Len(mfStream), !.cursor = Len(mfStream),
                         !.upto = Len(mfStream), !.got = {}, !.overtaken = 0])

\* Variant: only a cursor that the stream has never had is refused.
NeedsResyncNever(cursor) == cursor > Len(mfStream)

\* The cursor is older than the oldest event of the stream.
NeedsResync(cursor) == cursor < mfFirst

\* connect and monitor_socket: the page joins at its cursor, or is sent back
\* to the snapshot.
MsConnect ==
  /\ mfPage.phase \in {"marked", "off"} /\ mfPage.mark # 0
  /\ Page(IF NeedsResync(mfPage.cursor) THEN [mfPage EXCEPT !.phase = "off", !.mark = 0]
          ELSE [mfPage EXCEPT !.phase = "open", !.upto = mfPage.cursor])

\* xread: the events after the cursor that are still there (up to 100).
MsReadStream ==
  /\ mfPage.phase = "open" /\ mfPage.upto = mfPage.cursor /\ mfPage.cursor < Len(mfStream)
  /\ Page([mfPage EXCEPT !.upto = Len(mfStream), !.cursor = Max({@, mfFirst - 1})])

\* One event is sent, applied by the page and becomes the cursor.
MsSend ==
  /\ mfPage.phase = "open" /\ mfPage.cursor < mfPage.upto
  /\ Page([mfPage EXCEPT !.cursor = @ + 1, !.got = @ \cup {mfPage.cursor + 1}])

\* The connection is lost; the page comes back with its last cursor.
MsDrop ==
  /\ mfPage.phase = "open" /\ mfPage.drops < MfDrops
  /\ Page([mfPage EXCEPT !.phase = "off", !.drops = @ + 1])

MfNext ==
  \/ \E m \in MfMsgs : FaRead(m)
  \/ \E i \in DOMAIN mfRows : FaFiveMinutes(i) \/ \E to \in AlarmStates : FaTransitionRead(i, to)
  \/ \E a \in {"ingress", "user"} : FaFails(a) \/ FaPublish(a) \/ FaUntold(a)
  \/ FaCommit \/ FaManual \/ FaTransitionCommit
  \/ MsRows \/ MsMark \/ MsConnect \/ MsReadStream \/ MsSend \/ MsDrop

MfSpec == MfInit /\ [][MfNext]_mfVars

-----------------------------------------------------------------------------
(* Properties                                                               *)

\* Every report of a fire that was handled is counted on a row, however the
\* ingress, the alarm page and redeliveries interleave; nothing that the
\* operator does to an alarm takes a report away.
FaNoReportLost ==
  LET reported == {i \in DOMAIN mfRows : mfRows[i].msg # Nobody}
      total == MapThenSumSet(LAMBDA i : mfRows[i].count, reported) IN
  total >= Cardinality(mfHandled)

\* Of the events after its snapshot the page has had every one up to its
\* cursor, over any number of reconnections and resynchronisations; the one
\* exception are events that were trimmed while its socket was open.
MsNoGap ==
  mfPage.phase = "open" =>
    \A i \in mfPage.mark + 1 .. mfPage.cursor : i \in mfPage.got \/ i <= mfPage.overtaken

-----------------------------------------------------------------------------
(* The inductive strengthening                                             *)

\* No row and no transaction has counted a commit that has not happened, and a
\* transaction that is open knows what it will write.
MfKnown ==
  /\ \A i \in DOMAIN mfRows : mfRows[i].count <= mfCommit
  /\ \A a \in {"ingress", "user"} : mfActor[a].copy <= mfCommit
  /\ mfActor["ingress"].pc = "read" => mfActor["ingress"].msg \in MfMsgs
  /\ mfActor["user"].pc = "read" => /\ mfActor["user"].row # 0
                                    /\ mfActor["user"].to \in AlarmStates

\* An event that the open socket will miss has been noted as overtaken.
MsNoted ==
  /\ mfPage.overtaken < mfFirst
  /\ mfPage.phase = "open" =>
       /\ mfPage.mark # 0 /\ mfPage.cursor <= mfPage.upto
       /\ mfFirst <= mfPage.upto + 1 \/ mfPage.overtaken = mfFirst - 1

\* A page that may come back with its cursor has had the events up to it.
MsUpToCursor ==
  mfPage.phase # "rows" /\ mfPage.mark # 0 =>
    \A i \in mfPage.mark + 1 .. mfPage.cursor : i \in mfPage.got \/ i <= mfPage.overtaken

MfInv == MfTypeOK /\ MfKnown /\ MsNoted /\ MsUpToCursor
=============================================================================

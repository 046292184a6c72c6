------------------------------ MODULE TrailProofs ------------------------------
(***************************************************************************)
(* Proofs about what is told to those who watch: the alarms on their way to*)
(* the monitor page (MonitorFeed), for any number of alarms, reconnections *)
(* and any length of the stream; and the audit trail of the vehicle bridge *)
(* (EventLog), for any number of threads and events, any sizes of queues   *)
(* and files and any faults of the disk.                                   *)
(***************************************************************************)
EXTENDS MonitorFeed, EventLog, FiniteSetTheorems, WellFoundedInduction, SequenceTheorems, TLAPS

-----------------------------------------------------------------------------
(* The alarms                                                              *)

Actors == {"ingress", "user"}
Rows == [state : AlarmStates, count : 1 .. MfCommits, msg : MfMsgs \cup {Nobody}, fresh : BOOLEAN]
Doing == [pc : {"idle", "read", "publish"}, row : 0 .. Len(mfRows), copy : 0 .. MfCommits,
          to : AlarmStates \cup {"none"}, msg : MfMsgs \cup {Nobody}]
Pages == [phase : {"off", "rows", "marked", "open"}, rows : 0 .. MfCommits,
          mark : 0 .. Len(mfStream), cursor : 0 .. Len(mfStream),
          upto : 0 .. Len(mfStream), got : SUBSET (1 .. Len(mfStream)),
          overtaken : 0 .. Len(mfStream), drops : 0 .. MfDrops]

\* The two halves of the type invariant: the rows with their transactions,
\* the stream with the page that reads it.
AlarmTypes ==
  /\ mfRows \in Seq(Rows) /\ mfHandled \subseteq MfMsgs
  /\ mfActor \in [Actors -> Doing] /\ mfCommit \in 0 .. MfCommits

FeedTypes ==
  /\ mfStream \in Seq(0 .. mfCommit) /\ mfFirst \in 1 .. Len(mfStream)
  /\ mfPage \in Pages

AlarmPart == AlarmTypes /\ MfKnown
FeedPart == FeedTypes /\ MsNoted /\ MsUpToCursor

LEMMA MfParts == MfInv <=> AlarmPart /\ FeedPart
BY DEF MfInv, MfTypeOK, AlarmPart, FeedPart, AlarmTypes, FeedTypes, Actors, Rows, Doing, Pages

LEMMA MfInitInv == MfInit => MfInv
<1> SUFFICES ASSUME MfInit PROVE MfInv
  OBVIOUS
<1> USE MfAssumption DEF MfInit
<1>1. AlarmPart
  BY DEF AlarmPart, AlarmTypes, MfKnown, Waiting, Doing, Rows, Actors, Nobody
<1>2. FeedPart
  BY DEF FeedPart, FeedTypes, Pages, MsNoted, MsUpToCursor
<1> QED BY <1>1, <1>2, MfParts

\* What leaves the stream and the page alone leaves their half alone.
LEMMA FeedKept ==
  ASSUME FeedPart, mfCommit \in Nat, mfCommit' \in Nat, mfCommit <= mfCommit',
         UNCHANGED <<mfStream, mfFirst, mfPage>>
  PROVE  FeedPart'
<1>1. mfStream \in Seq(0 .. mfCommit')
  BY DEF FeedPart, FeedTypes
<1> QED BY <1>1 DEF FeedPart, FeedTypes, Pages, MsNoted, MsUpToCursor

LEMMA AlarmsKept ==
  ASSUME AlarmPart, UNCHANGED <<mfRows, mfHandled, mfActor, mfCommit>>
  PROVE  AlarmPart'
BY DEF AlarmPart, AlarmTypes, MfKnown, Doing

\* A transaction that has read nothing new cannot know too much.
LEMMA ActorStep ==
  ASSUME AlarmPart, NEW a \in Actors, NEW d \in Doing,
         UNCHANGED <<mfRows, mfHandled, mfCommit>>,
         mfActor' = [mfActor EXCEPT ![a] = d],
         d.copy <= mfCommit,
         d.pc = "read" => \/ a = "ingress" /\ d.msg \in MfMsgs
                          \/ a = "user" /\ d.row # 0 /\ d.to \in AlarmStates
  PROVE  AlarmPart'
<1>1. mfActor' \in [Actors -> Doing'] /\ \A b \in Actors : mfActor'[b] = IF b = a THEN d ELSE mfActor[b]
  BY DEF AlarmPart, AlarmTypes, Doing
<1> QED BY <1>1 DEF AlarmPart, AlarmTypes, MfKnown, Actors

LEMMA IdleDoing == ASSUME AlarmTypes PROVE Waiting \in Doing
BY MfAssumption DEF AlarmTypes, Waiting, Doing, Nobody

\* A commit: the rows have changed, none of them counts more than there were
\* commits, and the actor goes on to publish.
LEMMA CommitStep ==
  ASSUME AlarmPart, NEW a \in Actors, Committed(a),
         mfRows' \in Seq(Rows), Len(mfRows') >= Len(mfRows),
         \A i \in DOMAIN mfRows' : mfRows'[i].count <= mfCommit + 1,
         mfHandled' \subseteq MfMsgs
  PROVE  AlarmPart'
<1> USE MfAssumption
<1> DEFINE d == [Waiting EXCEPT !.pc = "publish", !.copy = mfCommit + 1]
<1>1. d.pc = "publish" /\ d.copy = mfCommit' /\ d \in Doing'
  <2>1. d = [pc |-> "publish", row |-> 0, copy |-> mfCommit + 1, to |-> "none", msg |-> Nobody]
    <3> DEFINE x == [Waiting EXCEPT !.pc = "publish"]
    <3>1. x = [pc |-> "publish", row |-> 0, copy |-> 0, to |-> "none", msg |-> Nobody]
      BY DEF Waiting
    <3>2. d = [x EXCEPT !.copy = mfCommit + 1]
      OBVIOUS
    <3> HIDE DEF x, d
    <3> QED BY <3>1, <3>2
  <2>2. mfCommit + 1 \in 0 .. MfCommits /\ mfCommit' = mfCommit + 1
    BY DEF Committed, AlarmPart, AlarmTypes
  <2>3. Len(mfRows') \in Nat
    OBVIOUS
  <2> HIDE DEF d
  <2> QED BY <2>1, <2>2, <2>3 DEF Doing, Nobody
<1>2. mfActor' = [mfActor EXCEPT ![a] = d]
  BY DEF Committed
<1> HIDE DEF d
<1>3. \A b \in Actors : mfActor[b] \in Doing'
  BY DEF AlarmPart, AlarmTypes, Doing
<1>4. mfActor' \in [Actors -> Doing'] /\ \A b \in Actors : mfActor'[b] = IF b = a THEN d ELSE mfActor[b]
  BY <1>1, <1>2, <1>3 DEF AlarmPart, AlarmTypes
<1>5. mfCommit' = mfCommit + 1 /\ mfCommit' \in 0 .. MfCommits /\ mfCommit \in Nat
  BY DEF Committed, AlarmPart, AlarmTypes
<1>6. MfKnown'
  <2>1. \A b \in Actors : mfActor'[b].copy <= mfCommit'
    BY <1>1, <1>4, <1>5 DEF AlarmPart, AlarmTypes, MfKnown, Doing, Actors
  <2> QED BY <1>1, <1>4, <1>5, <2>1 DEF AlarmPart, MfKnown, Actors
<1> QED BY <1>4, <1>5, <1>6 DEF AlarmPart, AlarmTypes

\* The row that a transaction writes exists.
LEMMA RowRange ==
  ASSUME AlarmPart, NEW a \in Actors
  PROVE  /\ mfActor[a].row \in 0 .. Len(mfRows) /\ mfActor[a].copy \in Nat
         /\ mfActor[a].copy <= mfCommit
         /\ mfActor[a].msg \in MfMsgs \cup {Nobody}
         /\ Len(mfRows) \in Nat /\ DOMAIN mfRows = 1 .. Len(mfRows)
         /\ \A i \in DOMAIN mfRows : mfRows[i] \in Rows /\ mfRows[i].count <= mfCommit
BY DEF AlarmPart, AlarmTypes, MfKnown, Doing, Actors

LEMMA AppendRow ==
  ASSUME AlarmPart, NEW m \in MfMsgs \cup {Nobody}, mfCommit < MfCommits,
         mfRows' = Append(mfRows, [state |-> "NEW", count |-> 1, msg |-> m, fresh |-> TRUE])
  PROVE  /\ mfRows' \in Seq(Rows) /\ Len(mfRows') >= Len(mfRows)
         /\ \A i \in DOMAIN mfRows' : mfRows'[i].count <= mfCommit + 1
<1> USE MfAssumption
<1> DEFINE r == [state |-> "NEW", count |-> 1, msg |-> m, fresh |-> TRUE]
<1>1. mfCommit \in Nat /\ mfRows \in Seq(Rows) /\ \A i \in DOMAIN mfRows : mfRows[i].count <= mfCommit
  BY DEF AlarmPart, AlarmTypes, MfKnown
<1>2. r \in Rows /\ r.count = 1
  BY <1>1 DEF Rows, AlarmStates
<1> HIDE DEF r
<1>3. mfRows' \in Seq(Rows) /\ Len(mfRows') = Len(mfRows) + 1
      /\ \A i \in 1 .. Len(mfRows') : mfRows'[i] = IF i <= Len(mfRows) THEN mfRows[i] ELSE r
  BY <1>1, <1>2 DEF r
<1>4. \A i \in 1 .. Len(mfRows) : mfRows[i] \in Rows /\ mfRows[i].count <= mfCommit
  BY <1>1
<1>5. \A i \in 1 .. Len(mfRows') : mfRows'[i].count <= mfCommit + 1
  BY <1>1, <1>2, <1>3, <1>4 DEF Rows
<1> QED BY <1>1, <1>3, <1>5

\* A row is replaced by one that counts no more than the commits so far.
LEMMA ReplaceRow ==
  ASSUME AlarmPart, NEW i \in DOMAIN mfRows, NEW r \in Rows, r.count <= mfCommit + 1,
         mfRows' = [mfRows EXCEPT ![i] = r]
  PROVE  /\ mfRows' \in Seq(Rows) /\ Len(mfRows') = Len(mfRows) /\ Len(mfRows') >= Len(mfRows)
         /\ \A j \in DOMAIN mfRows' : mfRows'[j] = IF j = i THEN r ELSE mfRows[j]
         /\ \A j \in DOMAIN mfRows' : mfRows'[j].count <= mfCommit + 1
<1>1. /\ mfCommit \in Nat /\ mfRows \in Seq(Rows) /\ Len(mfRows) \in Nat
      /\ \A j \in DOMAIN mfRows : mfRows[j].count <= mfCommit /\ mfRows[j].count \in Nat
  <2>1. mfCommit \in Nat /\ mfRows \in Seq(Rows)
    BY MfAssumption DEF AlarmPart, AlarmTypes
  <2>2. \A j \in DOMAIN mfRows : mfRows[j].count \in Nat
    BY RowRange DEF Rows, Actors
  <2> QED BY <2>1, <2>2 DEF AlarmPart, MfKnown
<1>2. mfRows' \in Seq(Rows) /\ Len(mfRows') = Len(mfRows) /\ DOMAIN mfRows' = DOMAIN mfRows
      /\ \A j \in DOMAIN mfRows' : mfRows'[j] = IF j = i THEN r ELSE mfRows[j]
  BY <1>1
<1>3. \A j \in DOMAIN mfRows' : mfRows'[j].count <= mfCommit + 1
  BY <1>1, <1>2
<1> QED BY <1>1, <1>2, <1>3

LEMMA FaReadStep ==
  ASSUME AlarmPart, NEW m \in MfMsgs, FaRead(m)
  PROVE  AlarmPart'
<1> USE MfAssumption
<1>1. PICK i \in (IF Matching(m) = {} THEN {0} ELSE Matching(m)) :
        mfActor' = [mfActor EXCEPT !["ingress"] =
                     [pc |-> "read", row |-> i, to |-> "none", msg |-> m,
                      copy |-> IF i = 0 THEN 0 ELSE mfRows[i].count]]
  BY DEF FaRead
<1>2. Matching(m) \subseteq DOMAIN mfRows
  BY DEF Matching
<1>3. i = 0 \/ i \in DOMAIN mfRows
  BY <1>2
<1> DEFINE c == IF i = 0 THEN 0 ELSE mfRows[i].count
           d == [pc |-> "read", row |-> i, to |-> "none", msg |-> m, copy |-> c]
<1>4. c \in 0 .. MfCommits /\ c <= mfCommit /\ i \in 0 .. Len(mfRows)
  <2>1. mfCommit \in 0 .. MfCommits
    BY DEF AlarmPart, AlarmTypes
  <2> QED BY <1>3, <2>1, RowRange DEF Rows, Actors
<1> HIDE DEF c
<1>5. d \in Doing /\ d.pc = "read" /\ d.copy = c /\ d.msg = m
  BY <1>4 DEF Doing
<1>6. mfActor' = [mfActor EXCEPT !["ingress"] = d]
  BY <1>1 DEF c
<1> HIDE DEF d
<1> QED BY <1>4, <1>5, <1>6, ActorStep DEF FaRead, Actors

LEMMA FaCommitStep ==
  ASSUME AlarmPart, FaCommit
  PROVE  AlarmPart'
<1> USE MfAssumption
<1> DEFINE a == mfActor["ingress"]
           x == [mfRows EXCEPT ![a.row].count = a.copy + 1]
<1>1. /\ a.msg \in MfMsgs /\ a.row \in 0 .. Len(mfRows) /\ a.copy \in Nat /\ a.copy <= mfCommit
      /\ mfCommit < MfCommits /\ mfCommit \in Nat
  BY RowRange DEF FaCommit, Committed, AlarmPart, AlarmTypes, MfKnown, Actors
<1>2. mfHandled' \subseteq MfMsgs
  BY <1>1 DEF FaCommit, AlarmPart, AlarmTypes
<1>3. CASE a.row = 0
  <2>1. mfRows' = Append(mfRows, [state |-> "NEW", count |-> 1, msg |-> a.msg, fresh |-> TRUE])
    BY <1>3 DEF FaCommit
  <2> QED BY <1>1, <1>2, <2>1, AppendRow, CommitStep DEF FaCommit, Actors
<1>4. CASE a.row # 0
  <2> DEFINE row == mfRows[a.row]
             r == [row EXCEPT !.count = a.copy + 1, !.fresh = TRUE]
  <2>1. a.row \in DOMAIN mfRows /\ row \in Rows
    BY <1>1, <1>4, RowRange DEF Actors
  <2>2. mfRows' = [mfRows EXCEPT ![a.row].count = a.copy + 1, ![a.row].fresh = TRUE]
    BY <1>4 DEF FaCommit
  <2>3. mfRows' = [mfRows EXCEPT ![a.row] = r]
    BY <2>1, <2>2
  <2>4. r \in Rows /\ r.count = a.copy + 1
    <3>1. a.copy + 1 \in 1 .. MfCommits
      BY <1>1
    <3> HIDE DEF a, row
    <3> QED BY <2>1, <3>1 DEF Rows
  <2> HIDE DEF r
  <2>5. r.count <= mfCommit + 1
    BY <1>1, <2>4
  <2>6. /\ mfRows' \in Seq(Rows) /\ Len(mfRows') >= Len(mfRows)
        /\ \A j \in DOMAIN mfRows' : mfRows'[j].count <= mfCommit + 1
    BY <2>1, <2>3, <2>4, <2>5, ReplaceRow
  <2> QED BY <1>2, <2>6, CommitStep DEF FaCommit, Actors
<1> QED BY <1>3, <1>4

LEMMA FaManualStep ==
  ASSUME AlarmPart, FaManual
  PROVE  AlarmPart'
<1>1. mfCommit < MfCommits /\ mfHandled' \subseteq MfMsgs
  BY DEF FaManual, Committed, AlarmPart, AlarmTypes
<1>2. mfRows' = Append(mfRows, [state |-> "NEW", count |-> 1, msg |-> Nobody, fresh |-> TRUE])
  BY DEF FaManual
<1> QED BY <1>1, <1>2, AppendRow, CommitStep DEF FaManual, Actors

LEMMA FaTransitionReadStep ==
  ASSUME AlarmPart, NEW i \in DOMAIN mfRows, NEW to \in AlarmStates, FaTransitionRead(i, to)
  PROVE  AlarmPart'
<1> USE MfAssumption
<1> DEFINE d == [pc |-> "read", row |-> i, copy |-> mfRows[i].count, to |-> to, msg |-> Nobody]
<1>1. mfActor' = [mfActor EXCEPT !["user"] = d]
  <2> DEFINE x == [Waiting EXCEPT !.pc = "read", !.row = i, !.to = to, !.copy = mfRows[i].count]
             u == [Waiting EXCEPT !.pc = "read"]
             v == [u EXCEPT !.row = i]
             w == [v EXCEPT !.to = to]
  <2>1. u = [pc |-> "read", row |-> 0, copy |-> 0, to |-> "none", msg |-> Nobody]
    BY DEF Waiting
  <2>2. v = [pc |-> "read", row |-> i, copy |-> 0, to |-> "none", msg |-> Nobody]
    <3> HIDE DEF u
    <3> QED BY <2>1
  <2>3. w = [pc |-> "read", row |-> i, copy |-> 0, to |-> to, msg |-> Nobody]
    <3> HIDE DEF v
    <3> QED BY <2>2
  <2>4. x = [w EXCEPT !.copy = mfRows[i].count]
    OBVIOUS
  <2>5. x = d
    <3> HIDE DEF w, x
    <3> QED BY <2>3, <2>4
  <2>6. mfActor' = [mfActor EXCEPT !["user"] = x]
    BY DEF FaTransitionRead
  <2> HIDE DEF x, d
  <2> QED BY <2>5, <2>6
<1>2. mfRows[i].count \in 0 .. MfCommits /\ mfRows[i].count <= mfCommit /\ i \in 1 .. Len(mfRows)
  BY RowRange DEF Rows, Actors
<1>3. d \in Doing /\ d.copy <= mfCommit /\ d.row # 0 /\ d.to \in AlarmStates
  BY <1>2 DEF Doing
<1> HIDE DEF d
<1> QED BY <1>1, <1>3, ActorStep DEF FaTransitionRead, Actors

LEMMA FaTransitionCommitStep ==
  ASSUME AlarmPart, FaTransitionCommit
  PROVE  AlarmPart'
<1> DEFINE a == mfActor["user"]
           row == mfRows[a.row]
           r == Written(row, a)
<1>1. /\ a.row \in DOMAIN mfRows /\ a.to \in AlarmStates /\ row \in Rows
      /\ row.count <= mfCommit /\ row.count \in Nat /\ mfCommit \in Nat
  BY RowRange DEF FaTransitionCommit, AlarmPart, AlarmTypes, MfKnown, Actors, Rows
<1>2. r \in Rows /\ r.count = row.count
  <2> HIDE DEF a, row
  <2> QED BY <1>1 DEF Written, Rows
<1>3. mfRows' = [mfRows EXCEPT ![a.row] = r]
  BY <1>1 DEF FaTransitionCommit
<1> HIDE DEF r
<1>4. r.count <= mfCommit + 1
  BY <1>1, <1>2
<1>5. /\ mfRows' \in Seq(Rows) /\ Len(mfRows') >= Len(mfRows)
      /\ \A j \in DOMAIN mfRows' : mfRows'[j].count <= mfCommit + 1
  BY <1>1, <1>2, <1>3, <1>4, ReplaceRow
<1> QED BY <1>5, CommitStep DEF FaTransitionCommit, AlarmPart, AlarmTypes, Actors

LEMMA FaFiveMinutesStep ==
  ASSUME AlarmPart, NEW i \in DOMAIN mfRows, FaFiveMinutes(i)
  PROVE  AlarmPart'
<1> DEFINE r == [mfRows[i] EXCEPT !.fresh = FALSE]
<1>1. /\ mfRows[i] \in Rows /\ mfRows[i].count <= mfCommit /\ mfCommit \in Nat
      /\ \A j \in DOMAIN mfRows : mfRows[j].count <= mfCommit
  BY RowRange DEF Actors, AlarmPart, AlarmTypes
<1>2. r \in Rows /\ r.count = mfRows[i].count
  BY <1>1 DEF Rows
<1>3. mfRows' = [mfRows EXCEPT ![i] = r]
  BY DEF FaFiveMinutes
<1> HIDE DEF r
<1>4. r.count <= mfCommit + 1
  BY <1>1, <1>2 DEF Rows
<1>5. /\ mfRows' \in Seq(Rows) /\ Len(mfRows') = Len(mfRows)
      /\ \A j \in DOMAIN mfRows' : mfRows'[j] = IF j = i THEN r ELSE mfRows[j]
  BY <1>2, <1>3, <1>4, ReplaceRow
<1>6. DOMAIN mfRows' = DOMAIN mfRows
  BY <1>3
<1>7. \A j \in DOMAIN mfRows' : mfRows'[j].count <= mfCommit
  BY <1>1, <1>2, <1>5, <1>6
<1>8. UNCHANGED <<mfHandled, mfActor, mfCommit>>
  BY DEF FaFiveMinutes
<1> QED BY <1>5, <1>7, <1>8 DEF AlarmPart, AlarmTypes, MfKnown, Doing

\* A transaction ends without a commit, or after what followed it.
LEMMA EndStep ==
  ASSUME AlarmPart, NEW a \in Actors, UNCHANGED <<mfRows, mfHandled, mfCommit>>,
         mfActor' = [mfActor EXCEPT ![a] = Waiting]
  PROVE  AlarmPart'
<1>1. Waiting.copy = 0 /\ Waiting.pc = "idle" /\ mfCommit \in Nat
  BY MfAssumption DEF AlarmPart, AlarmTypes, Waiting
<1>2. Waiting \in Doing /\ Waiting.copy <= mfCommit /\ Waiting.pc # "read"
  BY <1>1, IdleDoing DEF AlarmPart
<1> QED BY <1>2, ActorStep

-----------------------------------------------------------------------------
(* The stream and the page                                                 *)

LEMMA MaxOfTwo ==
  ASSUME NEW a \in Int, NEW b \in Int
  PROVE  Max({a, b}) = IF a >= b THEN a ELSE b
BY DEF Max

LEMMA FeedRange ==
  ASSUME FeedPart
  PROVE  /\ Len(mfStream) \in Nat /\ mfFirst \in 1 .. Len(mfStream)
         /\ mfPage.mark \in 0 .. Len(mfStream) /\ mfPage.cursor \in 0 .. Len(mfStream)
         /\ mfPage.upto \in 0 .. Len(mfStream) /\ mfPage.overtaken \in 0 .. Len(mfStream)
         /\ mfPage.got \subseteq 1 .. Len(mfStream)
BY DEF FeedPart, FeedTypes, Pages

\* The stream grows by one event and may be trimmed. A socket that has not
\* yet read what is trimmed is overtaken, and that is noted.
LEMMA FaPublishFeed ==
  ASSUME MfInv, NEW a \in Actors, FaPublish(a)
  PROVE  FeedPart'
<1> USE MfAssumption
<1>1. FeedPart /\ AlarmPart
  BY MfParts
<1>2. mfActor[a].copy \in 0 .. mfCommit /\ mfCommit' = mfCommit
  BY <1>1, RowRange DEF FaPublish, AlarmPart, AlarmTypes
<1>3. mfStream \in Seq(0 .. mfCommit) /\ Len(mfStream) \in Nat
  BY <1>1 DEF FeedPart, FeedTypes
<1>4. mfStream' \in Seq(0 .. mfCommit') /\ Len(mfStream') = Len(mfStream) + 1
  BY <1>2, <1>3 DEF FaPublish
<1>5. PICK f \in mfFirst .. Max({mfFirst, Len(mfStream) + 2 - MfKeep}) :
        /\ mfFirst' = f
        /\ mfPage' = IF mfPage.phase = "open" /\ f > mfPage.upto + 1
                     THEN [mfPage EXCEPT !.overtaken = f - 1] ELSE mfPage
  BY DEF FaPublish
<1>6. mfFirst' \in 1 .. Len(mfStream') /\ mfFirst <= mfFirst' /\ mfFirst' \in Nat /\ f \in Nat
  <2>1. mfFirst \in 1 .. Len(mfStream) /\ Len(mfStream) + 2 - MfKeep \in Int
    BY <1>1, <1>3, FeedRange
  <2>2. Max({mfFirst, Len(mfStream) + 2 - MfKeep}) =
          IF mfFirst >= Len(mfStream) + 2 - MfKeep THEN mfFirst ELSE Len(mfStream) + 2 - MfKeep
    BY <2>1, MaxOfTwo
  <2> QED BY <1>3, <1>4, <1>5, <2>1, <2>2
<1>7. mfPage \in Pages /\ mfPage \in Pages'
  <2>1. 0 .. Len(mfStream) \subseteq 0 .. Len(mfStream') /\ 1 .. Len(mfStream) \subseteq 1 .. Len(mfStream')
    BY <1>3, <1>4
  <2> QED BY <1>1, <2>1 DEF FeedPart, FeedTypes, Pages
<1>8. CASE mfPage.phase = "open" /\ f > mfPage.upto + 1
  <2>1. mfPage' = [mfPage EXCEPT !.overtaken = f - 1]
    BY <1>5, <1>8
  <2>2. f - 1 \in 0 .. Len(mfStream')
    BY <1>4, <1>5, <1>6
  <2>3. /\ mfPage' \in Pages' /\ mfPage'.overtaken = mfFirst' - 1
        /\ mfPage'.phase = mfPage.phase /\ mfPage'.mark = mfPage.mark
        /\ mfPage'.cursor = mfPage.cursor /\ mfPage'.upto = mfPage.upto /\ mfPage'.got = mfPage.got
    BY <1>5, <1>7, <2>1, <2>2 DEF Pages
  <2>4. mfPage.overtaken < mfFirst
    BY <1>1 DEF FeedPart, MsNoted
  <2>5. mfPage.overtaken <= mfPage'.overtaken
    BY <1>1, <1>6, <2>3, <2>4, FeedRange
  <2>6. MsNoted'
    <3>1. mfFirst' \in Int /\ mfPage'.overtaken < mfFirst'
      <4>1. mfFirst' \in Int /\ mfPage'.overtaken = mfFirst' - 1
        BY <1>6, <2>3
      <4>2. \A x, y \in Int : x = y - 1 => x < y
        OBVIOUS
      <4>3. mfPage'.overtaken \in Int
        BY <4>1
      <4> QED BY <4>1, <4>2, <4>3
    <3>2. mfPage'.phase = "open" => mfPage'.mark # 0 /\ mfPage'.cursor <= mfPage'.upto
      BY <1>1, <2>3 DEF FeedPart, MsNoted
    <3> QED BY <2>3, <3>1, <3>2 DEF MsNoted
  <2>7. MsUpToCursor'
    <3>1. /\ mfPage.mark \in Int /\ mfPage.cursor \in Int
          /\ mfPage.overtaken \in Int /\ mfPage'.overtaken \in Int
      BY <1>1, <1>6, <2>3, FeedRange
    <3>2. \A i \in mfPage.mark + 1 .. mfPage.cursor : i <= mfPage.overtaken => i <= mfPage'.overtaken
      BY <2>5, <3>1
    <3> QED BY <1>1, <2>3, <3>2 DEF FeedPart, MsUpToCursor
  <2> QED BY <1>4, <1>6, <2>3, <2>6, <2>7 DEF FeedPart, FeedTypes
<1>9. CASE ~ (mfPage.phase = "open" /\ f > mfPage.upto + 1)
  <2>1. mfPage' = mfPage
    BY <1>5, <1>9
  <2>2. MsNoted'
    BY <1>1, <1>5, <1>6, <1>9, <2>1, FeedRange DEF FeedPart, MsNoted
  <2> QED BY <1>1, <1>4, <1>6, <1>7, <2>1, <2>2 DEF FeedPart, FeedTypes, MsUpToCursor
<1> QED BY <1>8, <1>9

\* The steps of the page. What it has is only ever forgotten with a new
\* snapshot, and its cursor passes an event it has or one that is noted.
LEMMA PageStep ==
  ASSUME MfInv, MsRows \/ MsMark \/ MsConnect \/ MsReadStream \/ MsSend \/ MsDrop
  PROVE  FeedPart'
<1> USE MfAssumption
<1>0. FeedPart /\ AlarmPart
  BY MfParts
<1>1. UNCHANGED <<mfRows, mfHandled, mfActor, mfCommit, mfStream, mfFirst>>
  BY DEF MsRows, MsMark, MsConnect, MsReadStream, MsSend, MsDrop, Page
<1>2. mfStream' \in Seq(0 .. mfCommit') /\ mfFirst' \in 1 .. Len(mfStream') /\ Pages' = Pages
  BY <1>0, <1>1 DEF FeedPart, FeedTypes, Pages
<1>3. /\ mfPage \in Pages /\ MsNoted /\ MsUpToCursor
      /\ mfCommit \in 0 .. MfCommits /\ Len(mfStream) \in Nat
  BY <1>0 DEF FeedPart, FeedTypes, AlarmPart, AlarmTypes
<1> SUFFICES mfPage' \in Pages /\ MsNoted' /\ MsUpToCursor'
  BY <1>2 DEF FeedPart, FeedTypes
<1>4. CASE MsRows
  <2>1. mfPage' = [mfPage EXCEPT !.phase = "rows", !.rows = mfCommit]
    BY <1>4 DEF MsRows, Page
  <2>2. mfPage' \in Pages /\ mfPage'.phase = "rows" /\ mfPage'.overtaken = mfPage.overtaken
    BY <1>3, <2>1 DEF Pages
  <2> QED BY <1>1, <1>3, <2>2 DEF MsNoted, MsUpToCursor
<1>5. CASE MsMark
  <2> DEFINE n == Len(mfStream)
             p == [mfPage EXCEPT !.phase = "marked", !.mark = n, !.cursor = n]
  <2>1. mfPage' = [p EXCEPT !.upto = n, !.got = {}, !.overtaken = 0]
    BY <1>5 DEF MsMark, Page
  <2>2. n \in Nat /\ n \in 0 .. Len(mfStream) /\ 0 \in 0 .. Len(mfStream)
    BY <1>3
  <2> HIDE DEF n
  <2>3. p \in Pages /\ p.phase = "marked" /\ p.mark = n /\ p.cursor = n
    BY <1>3, <2>2 DEF Pages
  <2> HIDE DEF p
  <2>4. /\ mfPage' \in Pages /\ mfPage'.overtaken = 0
        /\ mfPage'.phase = "marked" /\ mfPage'.mark = mfPage'.cursor /\ mfPage'.mark \in Nat
    BY <2>1, <2>2, <2>3 DEF Pages
  <2>5. mfFirst \in Nat /\ mfFirst >= 1
    BY <1>0, FeedRange
  <2> QED BY <1>1, <2>4, <2>5 DEF MsNoted, MsUpToCursor
<1>6. CASE MsConnect /\ NeedsResync(mfPage.cursor)
  <2>1. mfPage' = [mfPage EXCEPT !.phase = "off", !.mark = 0]
    BY <1>6 DEF MsConnect, Page
  <2>2. 0 \in 0 .. Len(mfStream)
    BY <1>3
  <2>3. mfPage' \in Pages /\ mfPage'.phase = "off" /\ mfPage'.mark = 0 /\ mfPage'.overtaken = mfPage.overtaken
    BY <1>3, <2>1, <2>2 DEF Pages
  <2> QED BY <1>1, <1>3, <2>3 DEF MsNoted, MsUpToCursor
<1>7. CASE MsConnect /\ ~ NeedsResync(mfPage.cursor)
  <2>1. mfPage' = [mfPage EXCEPT !.phase = "open", !.upto = mfPage.cursor]
    BY <1>7 DEF MsConnect, Page
  <2>2. /\ mfPage.phase \in {"marked", "off"} /\ mfPage.mark # 0 /\ mfPage.cursor >= mfFirst
    BY <1>0, <1>7, FeedRange DEF MsConnect, NeedsResync
  <2>3. /\ mfPage' \in Pages /\ mfPage'.phase = "open" /\ mfPage'.upto = mfPage'.cursor
        /\ mfPage'.mark = mfPage.mark /\ mfPage'.cursor = mfPage.cursor
        /\ mfPage'.got = mfPage.got /\ mfPage'.overtaken = mfPage.overtaken
    BY <1>3, <2>1 DEF Pages
  <2> QED BY <1>0, <1>1, <1>3, <2>2, <2>3, FeedRange DEF MsNoted, MsUpToCursor
<1>8. CASE MsReadStream
  <2> DEFINE c == Max({mfPage.cursor, mfFirst - 1})
  <2>1. mfPage' = [mfPage EXCEPT !.upto = Len(mfStream), !.cursor = c]
    BY <1>8 DEF MsReadStream, Page
  <2>2. c = IF mfPage.cursor >= mfFirst - 1 THEN mfPage.cursor ELSE mfFirst - 1
    BY <1>0, FeedRange, MaxOfTwo
  <2> HIDE DEF c
  <2>3. c \in 0 .. Len(mfStream) /\ Len(mfStream) \in 0 .. Len(mfStream)
    BY <1>0, <2>2, FeedRange
  <2>4. /\ mfPage' \in Pages /\ mfPage'.upto = Len(mfStream) /\ mfPage'.cursor = c
        /\ mfPage'.phase = mfPage.phase /\ mfPage'.mark = mfPage.mark
        /\ mfPage'.got = mfPage.got /\ mfPage'.overtaken = mfPage.overtaken
    BY <1>3, <2>1, <2>3 DEF Pages
  <2>5. /\ mfPage.phase = "open" /\ mfPage.upto = mfPage.cursor /\ mfPage.mark # 0
        /\ c = mfPage.cursor \/ c = mfPage.overtaken
    BY <1>0, <1>3, <1>8, <2>2, FeedRange DEF MsReadStream, MsNoted
  <2>6. MsNoted'
    BY <1>0, <1>1, <1>3, <2>3, <2>4, <2>5, FeedRange DEF MsNoted
  <2>7. MsUpToCursor'
    BY <1>0, <1>1, <1>3, <2>3, <2>4, <2>5, FeedRange DEF MsUpToCursor
  <2> QED BY <2>4, <2>6, <2>7
<1>9. CASE MsSend
  <2> DEFINE c == mfPage.cursor + 1
  <2>1. mfPage' = [mfPage EXCEPT !.cursor = c, !.got = mfPage.got \cup {c}]
    BY <1>3, <1>9 DEF MsSend, Page, Pages
  <2>2. /\ mfPage.phase = "open" /\ c <= mfPage.upto
        /\ c \in 1 .. Len(mfStream) /\ c \in 0 .. Len(mfStream)
    BY <1>0, <1>9, FeedRange DEF MsSend
  <2>3. /\ mfPage' \in Pages /\ mfPage'.cursor = c /\ mfPage'.got = mfPage.got \cup {c}
        /\ mfPage'.phase = mfPage.phase /\ mfPage'.mark = mfPage.mark
        /\ mfPage'.upto = mfPage.upto /\ mfPage'.overtaken = mfPage.overtaken
    <3> HIDE DEF c
    <3> QED BY <1>3, <2>1, <2>2 DEF Pages
  <2>4. MsNoted'
    BY <1>0, <1>1, <1>3, <2>2, <2>3, FeedRange DEF MsNoted
  <2>5. MsUpToCursor'
    BY <1>0, <1>1, <1>3, <2>2, <2>3, FeedRange DEF MsUpToCursor, MsNoted
  <2> QED BY <2>3, <2>4, <2>5
<1>10. CASE MsDrop
  <2>1. mfPage' = [mfPage EXCEPT !.phase = "off", !.drops = mfPage.drops + 1]
    BY <1>3, <1>10 DEF MsDrop, Page, Pages
  <2>2. mfPage.phase = "open" /\ mfPage.drops + 1 \in 0 .. MfDrops
    BY <1>3, <1>10 DEF MsDrop, Pages
  <2>3. /\ mfPage' \in Pages /\ mfPage'.phase = "off" /\ mfPage'.mark = mfPage.mark
        /\ mfPage'.cursor = mfPage.cursor /\ mfPage'.got = mfPage.got
        /\ mfPage'.overtaken = mfPage.overtaken
    BY <1>3, <2>1, <2>2 DEF Pages
  <2> QED BY <1>1, <1>3, <2>2, <2>3 DEF MsNoted, MsUpToCursor
<1> QED BY <1>4, <1>5, <1>6, <1>7, <1>8, <1>9, <1>10

LEMMA MfStep == MfInv /\ [MfNext]_mfVars => MfInv'
<1> SUFFICES ASSUME MfInv, [MfNext]_mfVars PROVE AlarmPart' /\ FeedPart'
  BY DEF MfInv, MfTypeOK, AlarmPart, FeedPart, AlarmTypes, FeedTypes, Actors, Rows, Doing, Pages
<1> USE MfAssumption
<1>1. AlarmPart /\ FeedPart
  BY MfParts
<1>2. mfCommit \in 0 .. MfCommits /\ mfCommit \in Nat
  BY <1>1 DEF AlarmPart, AlarmTypes
<1>3. CASE \E m \in MfMsgs : FaRead(m)
  <2>1. UNCHANGED <<mfCommit, mfStream, mfFirst, mfPage>>
    BY <1>3 DEF FaRead
  <2> QED BY <1>1, <1>2, <1>3, <2>1, FaReadStep, FeedKept
<1>4. CASE \E i \in DOMAIN mfRows : FaFiveMinutes(i)
  <2>1. UNCHANGED <<mfCommit, mfStream, mfFirst, mfPage>>
    BY <1>4 DEF FaFiveMinutes
  <2> QED BY <1>1, <1>2, <1>4, <2>1, FaFiveMinutesStep, FeedKept
<1>5. CASE \E i \in DOMAIN mfRows : \E to \in AlarmStates : FaTransitionRead(i, to)
  <2>1. UNCHANGED <<mfCommit, mfStream, mfFirst, mfPage>>
    BY <1>5 DEF FaTransitionRead
  <2> QED BY <1>1, <1>2, <1>5, <2>1, FaTransitionReadStep, FeedKept
<1>6. CASE \E a \in Actors : FaFails(a) \/ FaUntold(a)
  <2>1. UNCHANGED <<mfCommit, mfStream, mfFirst, mfPage>>
    BY <1>6 DEF FaFails, FaUntold
  <2>2. AlarmPart'
    BY <1>1, <1>6, EndStep DEF FaFails, FaUntold
  <2> QED BY <1>1, <1>2, <2>1, <2>2, FeedKept
<1>7. CASE \E a \in Actors : FaPublish(a)
  <2>1. AlarmPart'
    BY <1>1, <1>7, EndStep DEF FaPublish
  <2> QED BY <1>7, <2>1, FaPublishFeed
<1>8. CASE FaCommit \/ FaManual \/ FaTransitionCommit
  <2>1. UNCHANGED <<mfStream, mfFirst, mfPage>> /\ mfCommit' = mfCommit + 1
    BY <1>8 DEF FaCommit, FaManual, FaTransitionCommit, Committed
  <2>2. mfCommit' \in Nat /\ mfCommit <= mfCommit'
    BY <1>2, <2>1
  <2> QED BY <1>1, <1>2, <1>8, <2>1, <2>2, FaCommitStep, FaManualStep, FaTransitionCommitStep, FeedKept
<1>9. CASE MsRows \/ MsMark \/ MsConnect \/ MsReadStream \/ MsSend \/ MsDrop
  <2>1. UNCHANGED <<mfRows, mfHandled, mfActor, mfCommit>>
    BY <1>9 DEF MsRows, MsMark, MsConnect, MsReadStream, MsSend, MsDrop, Page
  <2> QED BY <1>1, <1>9, <2>1, AlarmsKept, PageStep
<1>10. CASE UNCHANGED mfVars
  BY <1>1, <1>2, <1>10, AlarmsKept, FeedKept DEF mfVars
<1> QED BY <1>3, <1>4, <1>5, <1>6, <1>7, <1>8, <1>9, <1>10 DEF MfNext, Actors

\* In every reachable state the alarms, the stream and the page have their
\* types, no transaction knows more than was committed, an open socket that
\* has fallen behind the stream is noted as overtaken, and a page that may come
\* back with its cursor has had the events up to it.
THEOREM FeedInvariance == MfSpec => []MfInv
<1> QED BY MfInitInv, MfStep, PTL DEF MfSpec

\* monitor_socket, needs_resync and the page: of the events after its snapshot
\* the page has had every one up to its cursor, except those that were
\* trimmed while its socket was open.
THEOREM NoGap == MfSpec => []MsNoGap
<1>1. MfInv => MsNoGap
  BY DEF MfInv, MsNoGap, MsNoted, MsUpToCursor
<1> QED BY <1>1, FeedInvariance, PTL

-----------------------------------------------------------------------------
(* The event recorder                                                      *)

Jobs == {"writer", "main"}
JobStates == {"off", "events", "telemetry", "write", "done"}
Held == Logged \cup {NoRecord}
Files == [open : BOOLEAN, active : Seq(Logged), old : Seq(Seq(Logged))]
Trace(seen) ==
  [seq : 0 .. ElEvents, lock : ElThreads \cup {"free"}, cool : BOOLEAN,
   last : [{"state", "level"} -> Values \cup {Missing}], seen : {seen}]

\* The types, but for the list of commands seen, which no step reads.
ElShape ==
  /\ elTrace \in Trace(elTrace.seen)
  /\ elHand \in [ElThreads -> Held] /\ elQueue \in [Kinds -> Seq(Logged)]
  /\ elFile \in [Kinds -> Files]
  /\ elRec \in [ready : BOOLEAN, stop : BOOLEAN, degraded : BOOLEAN, disk : BOOLEAN]
  /\ elJob \in [Jobs -> [pc : JobStates, rec : Held]]
  /\ elCount \in [dropped : SUBSET (1 .. ElEvents), errors : SUBSET (1 .. ElEvents),
                  deleted : SUBSET (1 .. ElEvents)]
  /\ elDisk \in [good : BOOLEAN, roomy : BOOLEAN, faults : 0 .. ElDiskFaults]

\* A job holds a record exactly while it is about to write it.
JobsHold == \A j \in Jobs : IF elJob[j].pc = "write" THEN elJob[j].rec \in Logged
                                                     ELSE elJob[j].rec = NoRecord

\* While the recorder counts: before the writer has started, or with both
\* files open.
Counting ==
  /\ elRec.ready /\ ~ elRec.stop
  /\ elJob["writer"].pc = "off" \/ \A k \in Kinds : elFile[k].open

LEMMA NumberedParts == ASSUME ElShape, JobsHold PROVE ElNumbered
BY DEF ElShape, JobsHold, ElNumbered, Jobs, Held, Files

\* The numbers in a queue or a file follow the records.
LEMMA NumbersOfAppend ==
  ASSUME NEW s \in Seq(Logged), NEW r \in Logged
  PROVE  Numbers(Append(s, r)) = Numbers(s) \cup {r.n}
<1> DEFINE x == Append(s, r)
<1>1. x \in Seq(Logged) /\ Len(x) = Len(s) + 1 /\ Len(s) \in Nat
      /\ \A i \in 1 .. Len(x) : x[i] = IF i <= Len(s) THEN s[i] ELSE r
  OBVIOUS
<1>2. DOMAIN x = 1 .. Len(s) + 1 /\ DOMAIN s = 1 .. Len(s)
  BY <1>1
<1> HIDE DEF x
<1>3. {x[i].n : i \in 1 .. Len(s) + 1} = {s[i].n : i \in 1 .. Len(s)} \cup {r.n}
  <2>1. ASSUME NEW i \in 1 .. Len(s) + 1
        PROVE  x[i].n \in {s[k].n : k \in 1 .. Len(s)} \cup {r.n}
    BY <1>1
  <2>2. ASSUME NEW i \in 1 .. Len(s)
        PROVE  s[i].n \in {x[k].n : k \in 1 .. Len(s) + 1}
    <3>1. i \in 1 .. Len(s) + 1 /\ x[i] = s[i]
      BY <1>1
    <3> QED BY <3>1
  <2>3. r.n \in {x[k].n : k \in 1 .. Len(s) + 1}
    <3>1. Len(s) + 1 \in 1 .. Len(s) + 1 /\ x[Len(s) + 1] = r
      BY <1>1
    <3> QED BY <3>1
  <2> QED BY <2>1, <2>2, <2>3
<1> QED BY <1>2, <1>3 DEF Numbers, x

LEMMA NumbersOfTail ==
  ASSUME NEW s \in Seq(Logged), s # <<>>
  PROVE  /\ Head(s) \in Logged /\ Tail(s) \in Seq(Logged)
         /\ Numbers(s) \subseteq {Head(s).n} \cup Numbers(Tail(s))
<1> DEFINE x == Tail(s)
<1>1. /\ Head(s) \in Logged /\ Head(s) = s[1] /\ x \in Seq(Logged)
      /\ Len(s) \in Nat /\ Len(x) = Len(s) - 1
      /\ \A i \in 1 .. Len(x) : x[i] = s[i + 1]
  OBVIOUS
<1>2. DOMAIN x = 1 .. Len(s) - 1 /\ DOMAIN s = 1 .. Len(s)
  BY <1>1
<1> HIDE DEF x
<1>3. ASSUME NEW i \in 1 .. Len(s)
      PROVE  s[i].n = s[1].n \/ s[i].n \in {x[k].n : k \in 1 .. Len(s) - 1}
  <2>1. CASE i # 1
    <3>1. i - 1 \in 1 .. Len(s) - 1 /\ x[i - 1] = s[i]
      BY <1>1, <2>1
    <3> QED BY <3>1
  <2> QED BY <2>1
<1> QED BY <1>1, <1>2, <1>3 DEF Numbers, x

ElIndInv == ElShape /\ JobsHold /\ ElCounted

LEMMA ElInitInv == ElInit => ElIndInv
<1> SUFFICES ASSUME ElInit PROVE ElIndInv
  OBVIOUS
<1> USE ElAssumption DEF ElInit
<1>1. ElShape
  <2>1. elTrace \in Trace(elTrace.seen)
    BY DEF Trace, Missing
  <2>2. \A k \in Kinds : elFile[k] \in Files
    BY DEF Files
  <2>3. <<>> \in Seq(Logged) /\ NoRecord \in Held
    BY DEF Held
  <2>4. elJob \in [Jobs -> [pc : JobStates, rec : Held]]
    BY <2>3 DEF Jobs, JobStates
  <2>5. elDisk \in [good : BOOLEAN, roomy : BOOLEAN, faults : 0 .. ElDiskFaults]
    OBVIOUS
  <2>6. elFile \in [Kinds -> Files]
    BY <2>2
  <2>7. elCount \in [dropped : SUBSET (1 .. ElEvents), errors : SUBSET (1 .. ElEvents),
                     deleted : SUBSET (1 .. ElEvents)]
    OBVIOUS
  <2> QED BY <2>1, <2>3, <2>4, <2>5, <2>6, <2>7 DEF ElShape
<1>2. JobsHold
  BY DEF JobsHold, Jobs
<1>3. ElCounted
  BY DEF ElCounted, Missed
<1> QED BY <1>1, <1>2, <1>3 DEF ElIndInv

\* What a step must show to keep every event counted.
LEMMA CountingStep ==
  ASSUME ElCounted,
         Counting' => Counting,
         Counting' => \A n \in 1 .. elTrace'.seq :
                       Located(n)' \/ (n \in 1 .. elTrace.seq /\ ~ Located(n)),
         elJob'["main"].pc # "off" => elRec'.stop
  PROVE  ElCounted'
BY DEF ElCounted, Counting, Missed

\* An event gets its number in the hands of a thread that had none.
LEMMA NumberedStep ==
  ASSUME ElIndInv, NEW t \in ElThreads, NEW kind \in Kinds,
         NEW key \in {"none", "state", "level"}, NEW val \in Values, NEW prev \in Values \cup {Missing},
         Numbered(t, kind, key, val, prev),
         elTrace' \in Trace(elTrace'.seen), elTrace'.seq = elTrace.seq + 1
  PROVE  ElIndInv'
<1> USE ElAssumption
<1> DEFINE r == [n |-> elTrace.seq + 1, kind |-> kind, key |-> key, val |-> val, prev |-> prev]
<1>1. elTrace.seq \in Nat /\ elTrace.seq < ElEvents /\ elTrace.seq + 1 \in 1 .. ElEvents
  BY DEF ElIndInv, ElShape, Trace, Numbered
<1>2. r \in Logged /\ r.n = elTrace.seq + 1
  BY <1>1 DEF Logged
<1>3. elHand' = [elHand EXCEPT ![t] = r] /\ elHand[t] = NoRecord
      /\ UNCHANGED <<elQueue, elFile, elRec, elJob, elCount, elDisk>>
  BY DEF Numbered
<1> HIDE DEF r
<1>4. elHand' \in [ElThreads -> Held]
      /\ \A u \in ElThreads : elHand'[u] = IF u = t THEN r ELSE elHand[u]
  BY <1>2, <1>3 DEF ElIndInv, ElShape, Held
<1>5. ElShape' /\ JobsHold'
  BY <1>3, <1>4 DEF ElIndInv, ElShape, JobsHold, Trace
<1>6. ASSUME NEW n \in 1 .. elTrace'.seq, Located(n) \/ n = elTrace.seq + 1
      PROVE  Located(n)'
  <2>1. n # 0
    BY <1>1
  <2>2. NoRecord.n = 0
    BY DEF NoRecord
  <2>3. (\E u \in ElThreads : elHand[u].n = n) \/ n = elTrace.seq + 1 => \E u \in ElThreads : elHand'[u].n = n
    BY <1>2, <1>3, <1>4, <2>1, <2>2
  <2> QED BY <1>3, <1>6, <2>3 DEF Located
<1>7. \A n \in 1 .. elTrace'.seq : n \in 1 .. elTrace.seq \/ n = elTrace.seq + 1
  BY <1>1
<1>8. Counting' = Counting /\ (elJob'["main"].pc # "off" => elRec'.stop)
  BY <1>3 DEF ElIndInv, ElCounted, Counting
<1> QED BY <1>5, <1>6, <1>7, <1>8, CountingStep DEF ElIndInv

\* The next state of the trace: one number more.
LEMMA TraceStep ==
  ASSUME ElShape, elTrace.seq < ElEvents,
         NEW cool \in BOOLEAN, NEW lock \in ElThreads \cup {"free"},
         NEW last \in [{"state", "level"} -> Values \cup {Missing}], NEW seen,
         elTrace' = [seq |-> elTrace.seq + 1, lock |-> lock, cool |-> cool, last |-> last, seen |-> seen]
  PROVE  elTrace' \in Trace(elTrace'.seen) /\ elTrace'.seq = elTrace.seq + 1
<1>1. elTrace.seq + 1 \in 0 .. ElEvents
  BY ElAssumption DEF ElShape, Trace
<1> QED BY <1>1 DEF Trace

LEMMA TraceFields ==
  ASSUME ElShape
  PROVE  /\ elTrace = [seq |-> elTrace.seq, lock |-> elTrace.lock, cool |-> elTrace.cool,
                       last |-> elTrace.last, seen |-> elTrace.seen]
         /\ elTrace.cool \in BOOLEAN /\ elTrace.lock \in ElThreads \cup {"free"}
         /\ elTrace.last \in [{"state", "level"} -> Values \cup {Missing}]
BY DEF ElShape, Trace

\* emit, command_received, throttle, transition and changed.
LEMMA TraceEvents ==
  ASSUME ElIndInv, NEW t \in ElThreads,
         \/ ElEmit(t) \/ ElThrottle(t) \/ \E c \in {"c1", "c2"} : ElCommand(t, c)
         \/ \E v \in Values : ElTransition(t, v) \/ ElChanged(t, v)
  PROVE  ElIndInv'
<1> DEFINE s == elTrace.seq + 1
<1>1. ElShape /\ elTrace.seq < ElEvents
  BY DEF ElIndInv, ElEmit, ElThrottle, ElCommand, ElTransition, ElChanged, Numbered
<1>2. CASE ElEmit(t)
  <2>1. elTrace' = [seq |-> s, lock |-> elTrace.lock, cool |-> elTrace.cool,
                    last |-> elTrace.last, seen |-> elTrace.seen]
    BY <1>1, <1>2, TraceFields DEF ElEmit
  <2>2. elTrace' \in Trace(elTrace'.seen) /\ elTrace'.seq = s
    BY <1>1, <2>1, TraceFields, TraceStep
  <2> QED BY <1>2, <2>2, NumberedStep DEF ElEmit, Kinds, Values
<1>3. CASE ElThrottle(t)
  <2>1. elTrace' = [seq |-> s, lock |-> elTrace.lock, cool |-> FALSE,
                    last |-> elTrace.last, seen |-> elTrace.seen]
    BY <1>1, <1>3, TraceFields DEF ElThrottle
  <2>2. elTrace' \in Trace(elTrace'.seen) /\ elTrace'.seq = s
    BY <1>1, <2>1, TraceFields, TraceStep
  <2> QED BY <1>3, <2>2, NumberedStep DEF ElThrottle, Kinds, Values
<1>4. ASSUME NEW c \in {"c1", "c2"}, ElCommand(t, c) PROVE ElIndInv'
  <2> DEFINE a == Append(SelectSeq(elTrace.seen, LAMBDA d : d # c), c)
             x == IF Len(a) > ElSeenMax THEN Tail(a) ELSE a
  <2>1. elTrace' = [elTrace EXCEPT !.seq = @ + 1, !.seen = x]
    BY <1>4 DEF ElCommand
  <2> HIDE DEF x
  <2>2. elTrace' = [seq |-> s, lock |-> elTrace.lock, cool |-> elTrace.cool,
                    last |-> elTrace.last, seen |-> x]
    BY <1>1, <2>1, TraceFields
  <2>3. elTrace' \in Trace(elTrace'.seen) /\ elTrace'.seq = s
    BY <1>1, <2>2, TraceFields, TraceStep
  <2>4. Numbered(t, "events", "none", 0, 0)
    BY <1>4 DEF ElCommand
  <2> QED BY <2>3, <2>4, NumberedStep DEF Kinds, Values
<1>5. ASSUME NEW v \in Values, ElTransition(t, v) PROVE ElIndInv'
  <2> DEFINE x == [elTrace.last EXCEPT !["state"] = v]
  <2>1. x \in [{"state", "level"} -> Values \cup {Missing}]
    BY <1>1, TraceFields
  <2>2. elTrace' = [seq |-> s, lock |-> t, cool |-> elTrace.cool, last |-> x, seen |-> elTrace.seen]
    BY <1>1, <1>5, TraceFields DEF ElTransition
  <2> HIDE DEF x
  <2>3. elTrace' \in Trace(elTrace'.seen) /\ elTrace'.seq = s
    BY <1>1, <2>1, <2>2, TraceFields, TraceStep
  <2>4. elTrace.last["state"] \in Values \cup {Missing}
    BY <1>1, TraceFields
  <2> QED BY <1>5, <2>3, <2>4, NumberedStep DEF ElTransition, Kinds
<1>6. ASSUME NEW v \in Values, ElChanged(t, v) PROVE ElIndInv'
  <2> DEFINE x == [elTrace.last EXCEPT !["level"] = v]
  <2>1. x \in [{"state", "level"} -> Values \cup {Missing}]
    BY <1>1, TraceFields
  <2>2. elTrace' = [seq |-> s, lock |-> t, cool |-> elTrace.cool, last |-> x, seen |-> elTrace.seen]
    BY <1>1, <1>6, TraceFields DEF ElChanged
  <2> HIDE DEF x
  <2>3. elTrace' \in Trace(elTrace'.seen) /\ elTrace'.seq = s
    BY <1>1, <2>1, <2>2, TraceFields, TraceStep
  <2>4. elTrace.last["level"] \in Values \cup {Missing}
    BY <1>1, TraceFields
  <2> QED BY <1>6, <2>3, <2>4, NumberedStep DEF ElChanged, Kinds
<1> QED BY <1>2, <1>3, <1>4, <1>5, <1>6

\* enqueue: the event goes from the thread to a queue, or is counted.
LEMMA EnqueueStep ==
  ASSUME ElIndInv, NEW t \in ElThreads, ElEnqueue(t)
  PROVE  ElIndInv'
<1> USE ElAssumption
<1> DEFINE r == elHand[t]
           full == Len(elQueue[r.kind]) >= ElQueueMax
           drop == full \/ (r.kind = "telemetry" /\ elRec.degraded)
<1>1. r \in Logged /\ r.n \in 1 .. ElEvents /\ r.kind \in Kinds
  BY DEF ElEnqueue, ElIndInv, ElShape, Held, Logged
<1>2. elQueue' = IF elRec.ready /\ ~ drop THEN [elQueue EXCEPT ![r.kind] = Append(@, r)] ELSE elQueue
  BY DEF ElEnqueue
<1>3. elCount' = IF elRec.ready /\ drop THEN [elCount EXCEPT !.dropped = @ \cup {r.n}] ELSE elCount
  BY DEF ElEnqueue
<1>4. /\ elHand' = [elHand EXCEPT ![t] = NoRecord]
      /\ elTrace' = IF elTrace.lock = t THEN [elTrace EXCEPT !.lock = "free"] ELSE elTrace
      /\ UNCHANGED <<elFile, elRec, elJob, elDisk>>
  BY DEF ElEnqueue
<1> HIDE DEF r, drop
<1>5. /\ elHand' \in [ElThreads -> Held]
      /\ \A u \in ElThreads : u # t => elHand'[u] = elHand[u]
  BY <1>4 DEF ElIndInv, ElShape, Held
<1>6. elTrace' \in Trace(elTrace'.seen) /\ elTrace'.seq = elTrace.seq
  BY <1>4 DEF ElIndInv, ElShape, Trace
<1>7. /\ elQueue' \in [Kinds -> Seq(Logged)]
      /\ \A k \in Kinds : Numbers(elQueue[k]) \subseteq Numbers(elQueue'[k])
      /\ elRec.ready /\ ~ drop => r.n \in Numbers(elQueue'[r.kind])
  <2>1. \A k \in Kinds : elQueue[k] \in Seq(Logged)
    BY DEF ElIndInv, ElShape
  <2>2. /\ Append(elQueue[r.kind], r) \in Seq(Logged)
        /\ Numbers(Append(elQueue[r.kind], r)) = Numbers(elQueue[r.kind]) \cup {r.n}
    BY <1>1, <2>1, NumbersOfAppend
  <2>3. CASE elRec.ready /\ ~ drop
    <3>1. /\ elQueue' \in [Kinds -> Seq(Logged)]
          /\ \A k \in Kinds : elQueue'[k] = IF k = r.kind THEN Append(elQueue[r.kind], r) ELSE elQueue[k]
      BY <1>1, <1>2, <2>2, <2>3 DEF ElIndInv, ElShape
    <3> QED BY <1>1, <2>2, <3>1
  <2>4. CASE ~ (elRec.ready /\ ~ drop)
    BY <1>2, <2>4 DEF ElIndInv, ElShape
  <2> QED BY <2>3, <2>4
<1>8. /\ elCount' \in [dropped : SUBSET (1 .. ElEvents), errors : SUBSET (1 .. ElEvents),
                       deleted : SUBSET (1 .. ElEvents)]
      /\ elCount.dropped \subseteq elCount'.dropped
      /\ elCount'.errors = elCount.errors /\ elCount'.deleted = elCount.deleted
      /\ elRec.ready /\ drop => r.n \in elCount'.dropped
  BY <1>1, <1>3 DEF ElIndInv, ElShape
<1>9. ElShape' /\ JobsHold'
  BY <1>4, <1>5, <1>6, <1>7, <1>8 DEF ElIndInv, ElShape, JobsHold
<1>10. ASSUME elRec.ready, NEW n, Located(n)
       PROVE  Located(n)'
  <2>1. CASE elHand[t].n = n
    <3>1. n = r.n
      BY <2>1 DEF r
    <3> QED BY <1>1, <1>7, <1>8, <1>10, <3>1 DEF Located
  <2>2. CASE elHand[t].n # n
    BY <1>4, <1>5, <1>7, <1>8, <1>10, <2>2 DEF Located
  <2> QED BY <2>1, <2>2
<1>11. Counting' = Counting /\ (Counting => elRec.ready) /\ (elJob'["main"].pc # "off" => elRec'.stop)
  BY <1>4 DEF ElIndInv, ElCounted, Counting
<1> QED BY <1>6, <1>9, <1>10, <1>11, CountingStep DEF ElIndInv

\* start: with both files open, or the recorder is off for good.
LEMMA StartStep == ASSUME ElIndInv, ElStart PROVE ElIndInv'
<1>1. /\ elJob["writer"].pc = "off" /\ elRec.ready
      /\ UNCHANGED <<elTrace, elHand, elQueue, elCount, elDisk>>
  BY DEF ElStart
<1>2. ASSUME NEW p \in {"events", "done"}, elJob' = [elJob EXCEPT !["writer"].pc = p]
      PROVE  /\ elJob' \in [Jobs -> [pc : JobStates, rec : Held]] /\ JobsHold'
             /\ elJob'["writer"].pc = p /\ elJob'["main"] = elJob["main"]
             /\ \A j \in Jobs : elJob'[j].rec = elJob[j].rec
  BY <1>1, <1>2 DEF ElIndInv, ElShape, JobsHold, Jobs, JobStates
<1>3. CASE elDisk.good
  <2>1. /\ elFile' = [k \in Kinds |-> [elFile[k] EXCEPT !.open = TRUE]]
        /\ elJob' = [elJob EXCEPT !["writer"].pc = "events"] /\ UNCHANGED elRec
    BY <1>3 DEF ElStart
  <2>2. /\ elFile' \in [Kinds -> Files]
        /\ \A k \in Kinds : elFile'[k].active = elFile[k].active /\ elFile'[k].old = elFile[k].old
    BY <2>1 DEF ElIndInv, ElShape, Files
  <2>3. \A k \in Kinds : Stored(elFile'[k]) = Stored(elFile[k])
    BY <2>2 DEF Stored
  <2>4. ElShape' /\ JobsHold'
    BY <1>1, <1>2, <2>1, <2>2 DEF ElIndInv, ElShape
  <2>5. \A n : Located(n) => Located(n)'
    BY <1>1, <1>2, <2>1, <2>3 DEF Located, Jobs
  <2>6. (Counting' => Counting) /\ (elJob'["main"].pc # "off" => elRec'.stop)
    BY <1>1, <1>2, <2>1 DEF ElIndInv, ElCounted, Counting
  <2> QED BY <1>1, <2>4, <2>5, <2>6, CountingStep DEF ElIndInv
<1>4. CASE ~ elDisk.good
  <2>1. /\ elRec' = [elRec EXCEPT !.ready = FALSE, !.disk = FALSE]
        /\ elJob' = [elJob EXCEPT !["writer"].pc = "done"] /\ UNCHANGED elFile
    BY <1>4 DEF ElStart
  <2>2. /\ elRec' \in [ready : BOOLEAN, stop : BOOLEAN, degraded : BOOLEAN, disk : BOOLEAN]
        /\ ~ elRec'.ready /\ elRec'.stop = elRec.stop
    BY <2>1 DEF ElIndInv, ElShape
  <2>3. ElShape' /\ JobsHold'
    BY <1>1, <1>2, <2>1, <2>2 DEF ElIndInv, ElShape
  <2>4. ~ Counting' /\ (elJob'["main"].pc # "off" => elRec'.stop)
    BY <1>1, <1>2, <2>1, <2>2 DEF ElIndInv, ElCounted, Counting
  <2> QED BY <2>3, <2>4 DEF ElIndInv, ElCounted, Counting
<1> QED BY <1>3, <1>4

\* get: the event goes from the queue to the job.
LEMMA GetStep == ASSUME ElIndInv, NEW j \in Jobs, ElGet(j) PROVE ElIndInv'
<1> DEFINE k == elJob[j].pc
           q == elQueue[k]
           d == [pc |-> "write", rec |-> Head(q)]
<1>1. /\ k \in Kinds /\ q # <<>> /\ q \in Seq(Logged)
      /\ UNCHANGED <<elTrace, elHand, elFile, elRec, elCount, elDisk>>
  BY DEF ElGet, ElIndInv, ElShape
<1>2. Head(q) \in Logged /\ Tail(q) \in Seq(Logged) /\ Numbers(q) \subseteq {Head(q).n} \cup Numbers(Tail(q))
  BY <1>1, NumbersOfTail
<1>3. elJob' = [elJob EXCEPT ![j] = d] /\ elQueue' = [elQueue EXCEPT ![k] = Tail(q)]
  BY DEF ElGet
<1>4. d.pc = "write" /\ d.rec = Head(q) /\ d \in [pc : JobStates, rec : Held]
  BY <1>2 DEF JobStates, Held
<1>5. elJob[j].rec = NoRecord /\ elJob[j].pc \notin {"write", "off"}
  BY <1>1 DEF ElIndInv, JobsHold, Kinds
<1> HIDE DEF d
<1>6. /\ elJob' \in [Jobs -> [pc : JobStates, rec : Held]]
      /\ \A i \in Jobs : elJob'[i] = IF i = j THEN d ELSE elJob[i]
  BY <1>3, <1>4 DEF ElIndInv, ElShape
<1>7. /\ elQueue' \in [Kinds -> Seq(Logged)]
      /\ \A i \in Kinds : elQueue'[i] = IF i = k THEN Tail(q) ELSE elQueue[i]
  BY <1>1, <1>2, <1>3 DEF ElIndInv, ElShape
<1> HIDE DEF k, q
<1>8. ElShape' /\ JobsHold'
  <2>1. ElShape'
    BY <1>1, <1>6, <1>7 DEF ElIndInv, ElShape
  <2>2. JobsHold'
    BY <1>2, <1>4, <1>6 DEF ElIndInv, JobsHold
  <2> QED BY <2>1, <2>2
<1>9. ASSUME NEW n \in 1 .. elTrace.seq, Located(n)
      PROVE  Located(n)'
  <2>1. n # NoRecord.n
    BY DEF NoRecord
  <2>2. CASE \E i \in Jobs : elJob[i].rec.n = n
    <3>1. PICK i \in Jobs : elJob[i].rec.n = n
      BY <2>2
    <3>2. elJob'[i].rec.n = n
      BY <1>5, <1>6, <2>1, <3>1
    <3> QED BY <3>2 DEF Located, Jobs
  <2>3. CASE n \in Numbers(q)
    <3>1. elJob'[j].rec.n = n \/ n \in Numbers(elQueue'[k])
      BY <1>1, <1>2, <1>4, <1>6, <1>7, <2>3
    <3> QED BY <1>1, <3>1 DEF Located, Jobs
  <2>4. CASE \E i \in Kinds : i # k /\ n \in Numbers(elQueue[i])
    BY <1>7, <2>4 DEF Located
  <2>5. CASE \/ \E t \in ElThreads : elHand[t].n = n
             \/ \E i \in Kinds : n \in Stored(elFile[i])
             \/ n \in elCount.dropped \/ n \in elCount.errors \/ n \in elCount.deleted
    BY <1>1, <2>5 DEF Located
  <2> QED BY <1>1, <1>9, <2>2, <2>3, <2>4, <2>5 DEF Located, Jobs, q
<1>10. (Counting' => Counting) /\ (elJob'["main"].pc # "off" => elRec'.stop)
  BY <1>1, <1>4, <1>5, <1>6 DEF ElIndInv, ElCounted, Counting, Jobs, k
<1> QED BY <1>1, <1>8, <1>9, <1>10, CountingStep DEF ElIndInv

\* What moves a job on without a record, and changes nothing that is stored.
LEMMA JobMoves ==
  ASSUME ElIndInv, NEW j \in Jobs, NEW p \in JobStates \ {"write", "off"},
         elJob[j].pc # "write", elJob' = [elJob EXCEPT ![j].pc = p],
         j = "writer" => elJob[j].pc # "off",
         elRec' \in [ready : BOOLEAN, stop : BOOLEAN, degraded : BOOLEAN, disk : BOOLEAN],
         Counting' => Counting,
         elJob'["main"].pc # "off" => elRec'.stop,
         UNCHANGED <<elTrace, elHand, elQueue, elFile, elCount, elDisk>>
  PROVE  ElIndInv'
<1>1. /\ elJob' \in [Jobs -> [pc : JobStates, rec : Held]] /\ JobsHold'
      /\ \A i \in Jobs : elJob'[i].rec = elJob[i].rec
  BY DEF ElIndInv, ElShape, JobsHold
<1>2. ElShape'
  BY <1>1 DEF ElIndInv, ElShape
<1>3. \A n : Located(n) => Located(n)'
  BY <1>1 DEF Located, Jobs
<1> QED BY <1>1, <1>2, <1>3, CountingStep DEF ElIndInv

LEMMA EmptyStep == ASSUME ElIndInv, NEW j \in Jobs, ElEmpty(j) PROVE ElIndInv'
<1>1. PICK p \in {"telemetry", "events", "done"} : elJob' = [elJob EXCEPT ![j].pc = p]
  <2> DEFINE p == IF elJob[j].pc = "events" THEN "telemetry" ELSE IF j = "writer" THEN Round ELSE "done"
  <2>1. p \in {"telemetry", "events", "done"}
    BY DEF Round
  <2>2. elJob' = [elJob EXCEPT ![j].pc = p]
    BY DEF ElEmpty
  <2> QED BY <2>1, <2>2
<1>2. /\ elJob[j].pc \in Kinds
      /\ UNCHANGED <<elTrace, elHand, elQueue, elFile, elRec, elCount, elDisk>>
  BY DEF ElEmpty
<1>3. /\ \A i \in Jobs : i # j => elJob'[i] = elJob[i]
      /\ elJob'[j].pc = p
  BY <1>1 DEF ElIndInv, ElShape
<1>4. elJob["writer"].pc = "off" <=> elJob'["writer"].pc = "off"
  BY <1>2, <1>3 DEF Jobs, Kinds
<1>5. elJob'["main"].pc # "off" => elRec'.stop
  BY <1>2, <1>3 DEF Jobs, Kinds, ElIndInv, ElCounted
<1>6. Counting' => Counting
  BY <1>2, <1>4 DEF Counting
<1>7. p \in JobStates \ {"write", "off"} /\ elJob[j].pc \notin {"write", "off"}
  BY <1>2 DEF JobStates, Kinds
<1> QED BY <1>1, <1>2, <1>5, <1>6, <1>7, JobMoves DEF ElIndInv, ElShape

\* stop: from now on the recorder no longer promises to count.
LEMMA StopStep == ASSUME ElIndInv, ElStop PROVE ElIndInv'
<1>1. /\ elRec' = [elRec EXCEPT !.stop = TRUE] /\ elJob' = [elJob EXCEPT !["main"].pc = "events"]
      /\ elJob["main"].pc = "off"
      /\ UNCHANGED <<elTrace, elHand, elQueue, elFile, elCount, elDisk>>
  BY DEF ElStop
<1>2. /\ elRec' \in [ready : BOOLEAN, stop : BOOLEAN, degraded : BOOLEAN, disk : BOOLEAN]
      /\ elRec'.stop
  BY <1>1 DEF ElIndInv, ElShape
<1> QED BY <1>1, <1>2, JobMoves DEF Jobs, JobStates, Counting

LEMMA CloseStep == ASSUME ElIndInv, ElClose PROVE ElIndInv'
<1>1. /\ elJob["main"].pc = "done" /\ elRec' = [elRec EXCEPT !.ready = FALSE]
      /\ elFile' = [k \in Kinds |-> [elFile[k] EXCEPT !.open = FALSE]]
      /\ UNCHANGED <<elTrace, elHand, elQueue, elJob, elCount, elDisk>>
  BY DEF ElClose
<1>2. elFile' \in [Kinds -> Files]
  BY <1>1 DEF ElIndInv, ElShape, Files
<1>3. /\ elRec' \in [ready : BOOLEAN, stop : BOOLEAN, degraded : BOOLEAN, disk : BOOLEAN]
      /\ ~ elRec'.ready /\ elRec'.stop = elRec.stop
  BY <1>1 DEF ElIndInv, ElShape
<1>4. ElShape' /\ JobsHold'
  BY <1>1, <1>2, <1>3 DEF ElIndInv, ElShape, JobsHold
<1> QED BY <1>1, <1>3, <1>4 DEF ElIndInv, ElCounted

\* The disk and the interval of throttle.
LEMMA OutsideStep ==
  ASSUME ElIndInv, ElDiskBad \/ ElDiskHeals \/ ElIntervalPasses \/ UNCHANGED elVars
  PROVE  ElIndInv'
<1> USE ElAssumption
<1>1. UNCHANGED <<elHand, elQueue, elFile, elRec, elJob, elCount>>
  BY DEF ElDiskBad, ElDiskHeals, ElIntervalPasses, elVars
<1>2. /\ elTrace'.seq = elTrace.seq /\ elTrace' \in Trace(elTrace'.seen)
      /\ elDisk' \in [good : BOOLEAN, roomy : BOOLEAN, faults : 0 .. ElDiskFaults]
  <2>1. elTrace \in Trace(elTrace.seen) /\ elDisk \in [good : BOOLEAN, roomy : BOOLEAN, faults : 0 .. ElDiskFaults]
    BY DEF ElIndInv, ElShape
  <2>2. CASE ElDiskBad
    <3>1. elDisk.faults + 1 \in 0 .. ElDiskFaults /\ UNCHANGED elTrace
      BY <2>1, <2>2 DEF ElDiskBad
    <3> QED BY <2>1, <2>2, <3>1 DEF ElDiskBad
  <2>3. CASE ElDiskHeals
    BY <2>1, <2>3 DEF ElDiskHeals
  <2>4. CASE ElIntervalPasses
    <3>1. elTrace' = [elTrace EXCEPT !.cool = TRUE] /\ UNCHANGED elDisk
      BY <2>4 DEF ElIntervalPasses
    <3> QED BY <2>1, <3>1 DEF Trace
  <2>5. CASE UNCHANGED elVars
    BY <2>1, <2>5 DEF elVars
  <2> QED BY <2>2, <2>3, <2>4, <2>5
<1>3. ElShape' /\ JobsHold'
  BY <1>1, <1>2 DEF ElIndInv, ElShape, JobsHold
<1>4. (\A n : Located(n) => Located(n)') /\ Counting' = Counting
  BY <1>1 DEF Located, Counting
<1>5. elJob'["main"].pc # "off" => elRec'.stop
  BY <1>1 DEF ElIndInv, ElCounted
<1> QED BY <1>2, <1>3, <1>4, <1>5, CountingStep DEF ElIndInv

\* g has less of f, and what it has in the same order.
Smaller(g, f) ==
  /\ g \in Files /\ Kept(g) \subseteq Kept(f)
  /\ InOrder(f) => InOrder(g)

LEMMA SmallerTwice ==
  ASSUME NEW f, NEW g, NEW h, Smaller(g, f), Smaller(h, g) PROVE Smaller(h, f)
BY DEF Smaller

LEMMA AheadLess ==
  ASSUME NEW S, NEW T, NEW U, NEW V, Ahead(S, T), U \subseteq S, V \subseteq T
  PROVE  Ahead(U, V)
BY DEF Ahead

LEMMA KeptParts ==
  ASSUME NEW f, NEW r
  PROVE  r \in Kept(f) <=> r \in Range(f.active) \/ \E g \in DOMAIN f.old : r \in Range(f.old[g])
BY DEF Kept

\* A file with the same contents.
LEMMA SameFile ==
  ASSUME NEW f, NEW g \in Files, g.active = f.active, g.old = f.old
  PROVE  Smaller(g, f)
BY DEF Smaller, InOrder, Kept

\* The oldest rotated files are removed.
LEMMA SuffixOfFile ==
  ASSUME NEW f \in Files, NEW n \in 1 .. Len(f.old) + 1,
         NEW g \in Files, g.active = f.active, g.old = SubSeq(f.old, n, Len(f.old))
  PROVE  Smaller(g, f)
<1>1. /\ Len(f.old) \in Nat /\ DOMAIN f.old = 1 .. Len(f.old)
      /\ DOMAIN g.old = 1 .. Len(f.old) - n + 1
      /\ \A i \in DOMAIN g.old : i + n - 1 \in DOMAIN f.old /\ g.old[i] = f.old[i + n - 1]
  BY DEF Files
<1>2. ASSUME NEW r \in Kept(g) PROVE r \in Kept(f)
  <2>1. CASE r \in Range(g.active)
    BY <2>1, KeptParts
  <2>2. CASE \E i \in DOMAIN g.old : r \in Range(g.old[i])
    BY <1>1, <2>2, KeptParts
  <2> QED BY <2>1, <2>2, KeptParts
<1>3. ASSUME InOrder(f) PROVE InOrder(g)
  <2>1. \A i \in DOMAIN g.old : Ascending(g.old[i]) /\ Ahead(Range(g.old[i]), Range(g.active))
    BY <1>1, <1>3 DEF InOrder
  <2>2. ASSUME NEW i \in DOMAIN g.old, NEW j \in DOMAIN g.old, i < j
        PROVE  Ahead(Range(g.old[i]), Range(g.old[j]))
    <3>1. i + n - 1 < j + n - 1
      BY <1>1, <2>2
    <3> QED BY <1>1, <1>3, <3>1 DEF InOrder
  <2> QED BY <1>3, <2>1, <2>2 DEF InOrder
<1> QED BY <1>2, <1>3 DEF Smaller

\* The file is rotated: what was active is the newest of the old.
LEMMA RenamedFile ==
  ASSUME NEW f \in Files, NEW g \in Files, g.active = <<>>, g.old = Append(f.old, f.active)
  PROVE  Smaller(g, f)
<1>1. /\ Len(f.old) \in Nat /\ DOMAIN f.old = 1 .. Len(f.old)
      /\ DOMAIN g.old = 1 .. Len(f.old) + 1
      /\ \A i \in DOMAIN f.old : g.old[i] = f.old[i]
      /\ g.old[Len(f.old) + 1] = f.active
  BY DEF Files
<1>2. Range(g.active) = {} /\ Ascending(g.active)
  BY DEF Range, Ascending
<1>3. \A i \in DOMAIN g.old : i \in DOMAIN f.old \/ i = Len(f.old) + 1
  BY <1>1
<1>4. ASSUME NEW r \in Kept(g) PROVE r \in Kept(f)
  <2>1. PICK i \in DOMAIN g.old : r \in Range(g.old[i])
    BY <1>2, KeptParts
  <2>2. CASE i \in DOMAIN f.old
    BY <1>1, <2>1, <2>2, KeptParts
  <2>3. CASE i = Len(f.old) + 1
    BY <1>1, <2>1, <2>3, KeptParts
  <2> QED BY <1>3, <2>2, <2>3
<1>5. ASSUME InOrder(f) PROVE InOrder(g)
  <2>1. \A i \in DOMAIN g.old : Ascending(g.old[i]) /\ Ahead(Range(g.old[i]), Range(g.active))
    BY <1>1, <1>2, <1>3, <1>5 DEF InOrder, Ahead
  <2>2. ASSUME NEW i \in DOMAIN g.old, NEW j \in DOMAIN g.old, i < j
        PROVE  Ahead(Range(g.old[i]), Range(g.old[j]))
    <3>1. i \in DOMAIN f.old
      BY <1>1, <2>2
    <3> QED BY <1>1, <1>3, <1>5, <2>2, <3>1 DEF InOrder
  <2> QED BY <1>2, <2>1, <2>2 DEF InOrder
<1> QED BY <1>4, <1>5 DEF Smaller

\* A sequence with one more record that comes after the others.
LEMMA OneMore ==
  ASSUME NEW s \in Seq(Logged), NEW r \in Logged
  PROVE  /\ Range(Append(s, r)) = Range(s) \cup {r}
         /\ Ascending(s) /\ Ahead(Range(s), {r}) => Ascending(Append(s, r))
<1> DEFINE x == Append(s, r)
<1>1. /\ Len(s) \in Nat /\ DOMAIN s = 1 .. Len(s) /\ DOMAIN x = 1 .. Len(s) + 1
      /\ \A i \in DOMAIN s : x[i] = s[i] /\ s[i] \in Logged
      /\ x[Len(s) + 1] = r
  OBVIOUS
<1>2. \A i \in DOMAIN x : i \in DOMAIN s \/ i = Len(s) + 1
  BY <1>1
<1> HIDE DEF x
<1>3. Range(x) = Range(s) \cup {r}
  <2>1. Len(s) + 1 \in DOMAIN x /\ DOMAIN s \subseteq DOMAIN x
    BY <1>1
  <2> QED BY <1>1, <1>2, <2>1 DEF Range
<1>4. ASSUME Ascending(s), Ahead(Range(s), {r}), NEW i \in DOMAIN x, NEW j \in DOMAIN x,
             i < j, x[i].key = x[j].key, x[i].key # "none"
      PROVE  x[i].n < x[j].n
  <2>1. i \in DOMAIN s /\ s[i] \in Range(s)
    BY <1>1, <1>4 DEF Range
  <2>2. CASE j \in DOMAIN s
    BY <1>1, <1>4, <2>1, <2>2 DEF Ascending
  <2>3. CASE j = Len(s) + 1
    BY <1>1, <1>4, <2>1, <2>3 DEF Ahead
  <2> QED BY <1>2, <2>2, <2>3
<1> QED BY <1>3, <1>4 DEF x, Ascending

\* The first record comes before the rest.
LEMMA OneLess ==
  ASSUME NEW s \in Seq(Logged), s # <<>>
  PROVE  /\ Head(s) \in Range(s) /\ Range(Tail(s)) \subseteq Range(s)
         /\ Ascending(s) => Ascending(Tail(s)) /\ Ahead({Head(s)}, Range(Tail(s)))
<1> DEFINE x == Tail(s)
<1>1. /\ Len(s) \in Nat /\ DOMAIN s = 1 .. Len(s) /\ DOMAIN x = 1 .. Len(s) - 1
      /\ \A i \in DOMAIN x : i + 1 \in DOMAIN s /\ x[i] = s[i + 1]
      /\ 1 \in DOMAIN s /\ Head(s) = s[1]
  OBVIOUS
<1> HIDE DEF x
<1>2. Head(s) \in Range(s) /\ Range(x) \subseteq Range(s)
  BY <1>1 DEF Range
<1>3. ASSUME Ascending(s) PROVE Ascending(x)
  BY <1>1, <1>3 DEF Ascending
<1>4. ASSUME Ascending(s) PROVE Ahead({Head(s)}, Range(x))
  <2>1. ASSUME NEW i \in DOMAIN x, s[1].key = x[i].key, s[1].key # "none" PROVE s[1].n < x[i].n
    <3>1. 1 < i + 1
      BY <1>1
    <3> QED BY <1>1, <1>4, <2>1, <3>1 DEF Ascending
  <2> QED BY <1>1, <2>1 DEF Ahead, Range
<1> QED BY <1>2, <1>3, <1>4 DEF x

\* A record is appended to the file.
LEMMA GrownFile ==
  ASSUME NEW f \in Files, NEW r \in Logged,
         NEW g \in Files, g.active = Append(f.active, r), g.old = f.old
  PROVE  /\ Kept(g) \subseteq Kept(f) \cup {r}
         /\ InOrder(f) /\ Ahead(Kept(f), {r}) => InOrder(g)
<1>1. f.active \in Seq(Logged)
  BY DEF Files
<1>2. Range(g.active) = Range(f.active) \cup {r}
  BY <1>1, OneMore
<1>3. Kept(g) \subseteq Kept(f) \cup {r}
  BY <1>2, KeptParts
<1>4. ASSUME InOrder(f), Ahead(Kept(f), {r}) PROVE InOrder(g)
  <2>1. Ascending(g.active)
    <3>1. Range(f.active) \subseteq Kept(f)
      BY KeptParts
    <3>2. Ahead(Range(f.active), {r})
      BY <1>4, <3>1, AheadLess
    <3> QED BY <1>1, <1>4, <3>2, OneMore DEF InOrder
  <2>2. ASSUME NEW i \in DOMAIN f.old PROVE Ahead(Range(f.old[i]), Range(g.active))
    <3>1. Range(f.old[i]) \subseteq Kept(f)
      BY KeptParts
    <3>2. Ahead(Range(f.old[i]), {r}) /\ Ahead(Range(f.old[i]), Range(f.active))
      BY <1>4, <3>1, AheadLess DEF InOrder
    <3> QED BY <1>2, <3>2 DEF Ahead
  <2> QED BY <1>4, <2>1, <2>2 DEF InOrder
<1> QED BY <1>3, <1>4

LEMMA SmallestOf ==
  ASSUME NEW S \in SUBSET Nat, S # {}
  PROVE  Min(S) \in S
<1>1. \E n \in S : \A m \in S : n <= m
  <2> DEFINE T == {1 .. n : n \in S}
  <2>1. T \subseteq FiniteSubsetsOf(Nat) /\ T # {}
    <3>1. \A n \in S : 1 .. n \subseteq Nat /\ IsFiniteSet(1 .. n)
      BY FS_Interval
    <3> QED BY <3>1 DEF FiniteSubsetsOf
  <2>2. PICK x \in T : \A y \in T : <<y, x>> \notin StrictSubsetOrdering(Nat)
    <3> HIDE DEF T
    <3>1. IsWellFoundedOn(StrictSubsetOrdering(Nat), FiniteSubsetsOf(Nat))
      BY FS_StrictSubsetOrderingWellFounded
    <3> QED BY <2>1, <3>1, WFMin
  <2>3. PICK n \in S : x = 1 .. n
    OBVIOUS
  <2>4. ASSUME NEW m \in S, m < n PROVE FALSE
    <3>1. 1 .. m \subseteq 1 .. n /\ n \in 1 .. n /\ n \notin 1 .. m /\ 1 .. n \subseteq Nat
      BY <2>4
    <3>2. <<1 .. m, x>> \in StrictSubsetOrdering(Nat)
      BY <2>3, <3>1 DEF StrictSubsetOrdering
    <3> QED BY <2>2, <3>2
  <2> QED BY <2>4
<1> QED BY <1>1 DEF Min

LEMMA MinOfTwo ==
  ASSUME NEW a \in Int, NEW b \in Int
  PROVE  Min({a, b}) = IF a <= b THEN a ELSE b
BY DEF Min

\* Removing rotated files changes neither file that is being written, nor the
\* order of what is left.
LEMMA ShedStep ==
  ASSUME NEW fs \in [Kinds -> Files],
         NEW j \in 0 .. Len(fs["telemetry"].old) + Len(fs["events"].old)
  PROVE  /\ Shed(fs, j) \in [Kinds -> Files]
         /\ \A k \in Kinds : /\ Shed(fs, j)[k].open = fs[k].open
                             /\ Shed(fs, j)[k].active = fs[k].active
                             /\ Smaller(Shed(fs, j)[k], fs[k])
<1> DEFINE a == Len(fs["telemetry"].old)
           b == Len(fs["events"].old)
           t == Min({j, a})
           first == [telemetry |-> t, events |-> j - t]
<1>1. a \in Nat /\ b \in Nat
  BY DEF Files, Kinds
<1>2. j \in Nat /\ j <= a + b /\ t = IF j <= a THEN j ELSE a
  <2>1. j \in 0 .. a + b
    OBVIOUS
  <2> HIDE DEF a, b
  <2>2. j \in Nat /\ j <= a + b
    BY <1>1, <2>1
  <2> QED BY <1>1, <2>2, MinOfTwo
<1> HIDE DEF t, a, b
<1>3. first["telemetry"] \in 0 .. a /\ first["events"] \in 0 .. b
  BY <1>1, <1>2
<1> HIDE DEF first
<1>4. ASSUME NEW k \in Kinds
      PROVE  SubSeq(fs[k].old, first[k] + 1, Len(fs[k].old)) \in Seq(Seq(Logged))
  <2>1. fs[k].old \in Seq(Seq(Logged)) /\ first[k] \in 0 .. Len(fs[k].old)
    BY <1>3 DEF Files, Kinds, a, b
  <2>2. first[k] + 1 \in 1 .. Len(fs[k].old) + 1 /\ Len(fs[k].old) \in first[k] + 1 - 1 .. Len(fs[k].old)
    BY <2>1
  <2> QED BY <2>1, <2>2, SubSeqProperties
<1>5. Shed(fs, j) = [k \in Kinds |-> [fs[k] EXCEPT !.old = SubSeq(@, first[k] + 1, Len(@))]]
  BY DEF Shed, first, t, a
<1>6. ASSUME NEW k \in Kinds
      PROVE  /\ Shed(fs, j)[k] \in Files /\ Shed(fs, j)[k].open = fs[k].open
             /\ Shed(fs, j)[k].active = fs[k].active
             /\ Shed(fs, j)[k].old = SubSeq(fs[k].old, first[k] + 1, Len(fs[k].old))
  BY <1>4, <1>5 DEF Files
<1>7. ASSUME NEW k \in Kinds PROVE Smaller(Shed(fs, j)[k], fs[k])
  <2>1. fs[k] \in Files /\ first[k] + 1 \in 1 .. Len(fs[k].old) + 1
    BY <1>3 DEF Files, Kinds, a, b
  <2> QED BY <1>6, <2>1, SuffixOfFile
<1>8. Shed(fs, j) \in [Kinds -> Files]
  BY <1>4, <1>5 DEF Files
<1> QED BY <1>6, <1>7, <1>8

LEMMA TrimmedStep ==
  ASSUME NEW fs \in [Kinds -> Files]
  PROVE  /\ Trimmed(fs) \in [Kinds -> Files]
         /\ \A k \in Kinds : /\ Trimmed(fs)[k].open = fs[k].open
                             /\ Trimmed(fs)[k].active = fs[k].active
                             /\ Smaller(Trimmed(fs)[k], fs[k])
<1> DEFINE all == Len(fs["telemetry"].old) + Len(fs["events"].old)
           enough == {j \in 0 .. all : LET g == Shed(fs, j) IN
                        Len(Recs(g["events"])) + Len(Recs(g["telemetry"])) <= ElTotalMax}
           least == IF enough = {} THEN all ELSE Min(enough)
<1>1. all \in Nat
  <2>1. Len(fs["telemetry"].old) \in Nat /\ Len(fs["events"].old) \in Nat
    BY DEF Files, Kinds
  <2>2. \A x, y \in Nat : x + y \in Nat
    OBVIOUS
  <2> QED BY <2>1, <2>2
<1>2. enough \subseteq 0 .. all
  OBVIOUS
<1>3. Trimmed(fs) = Shed(fs, least)
  BY DEF Trimmed
<1> HIDE DEF enough, all
<1>4. least \in 0 .. all
  <2>1. enough \in SUBSET Nat
    BY <1>1, <1>2
  <2>2. enough # {} => Min(enough) \in 0 .. all
    BY <1>2, <2>1, SmallestOf
  <2> QED BY <1>1, <2>2
<1> HIDE DEF least
<1> QED BY <1>3, <1>4, ShedStep DEF all

\* A rotation, whatever becomes of it.
LEMMA RotationsStep ==
  ASSUME NEW f \in Files, NEW g \in Rotations(f)
  PROVE  g \in Files /\ Smaller(g, f)
<1> USE ElAssumption
<1> DEFINE old == Append(f.old, f.active)
           renamed == [f EXCEPT !.old = old, !.active = <<>>]
<1>1. old \in Seq(Seq(Logged)) /\ Len(old) \in Nat /\ <<>> \in Seq(Logged)
  BY DEF Files
<1>2. renamed \in Files /\ renamed.old = old /\ renamed.active = <<>>
  <2> HIDE DEF old
  <2> QED BY <1>1 DEF Files
<1>3. Pruned(renamed) \in Files /\ Smaller(Pruned(renamed), renamed)
  <2> DEFINE n == Len(old) - Min({ElKeep, Len(old)}) + 1
  <2>1. Min({ElKeep, Len(old)}) \in 0 .. Len(old)
    <3> HIDE DEF old
    <3> QED BY <1>1, MinOfTwo
  <2>2. n \in 1 .. Len(old) + 1 /\ Len(old) \in n - 1 .. Len(old)
    BY <1>1, <2>1
  <2>3. SubSeq(old, n, Len(old)) \in Seq(Seq(Logged))
    <3> HIDE DEF old, n
    <3>1. \A i \in n .. Len(old) : old[i] \in Seq(Logged)
      BY <1>1, <2>2
    <3> QED BY <1>1, <2>2, <3>1, SubSeqProperties
  <2>4. Pruned(renamed) = [renamed EXCEPT !.old = SubSeq(old, n, Len(old))]
    BY <1>2 DEF Pruned, Files
  <2> HIDE DEF renamed, n, old
  <2>5. /\ Pruned(renamed) \in Files /\ Pruned(renamed).active = renamed.active
        /\ Pruned(renamed).old = SubSeq(renamed.old, n, Len(renamed.old))
    BY <1>2, <2>3, <2>4 DEF Files
  <2> QED BY <1>2, <2>2, <2>5, SuffixOfFile
<1> HIDE DEF renamed
<1>4. Smaller(renamed, f)
  BY <1>2, RenamedFile DEF old
<1>5. /\ [renamed EXCEPT !.open = FALSE] \in Files
      /\ Smaller([renamed EXCEPT !.open = FALSE], renamed)
  BY <1>2, SameFile DEF Files
<1>6. [f EXCEPT !.open = FALSE] \in Files /\ Smaller([f EXCEPT !.open = FALSE], f) /\ Smaller(f, f)
  BY SameFile DEF Files
<1>7. g \in {Pruned(renamed), f, [renamed EXCEPT !.open = FALSE], [f EXCEPT !.open = FALSE]}
  BY DEF Rotations, renamed, old
<1> HIDE DEF old
<1>8. Smaller(Pruned(renamed), f) /\ Smaller([renamed EXCEPT !.open = FALSE], f)
  BY <1>3, <1>4, <1>5, SmallerTwice
<1> QED BY <1>6, <1>7, <1>8 DEF Smaller

\* What a write leaves: a record is in the file, unless the write has failed
\* or the file was closed; it is never opened again.
LEMMA WriteStepOutcome ==
  ASSUME NEW f \in Files, NEW r \in Logged, NEW w \in WriteOutcomes(f, r)
  PROVE  /\ w.file \in Files /\ w.ok \in BOOLEAN
         /\ w.file.open => f.open
         /\ w.ok /\ w.file.open => r.n \in Numbers(w.file.active)
         /\ Kept(w.file) \subseteq Kept(f) \cup {r}
         /\ InOrder(f) /\ Ahead(Kept(f), {r}) => InOrder(w.file)
<1>1. CASE ~ f.open
  <2>1. w = [file |-> f, ok |-> TRUE]
    BY <1>1 DEF WriteOutcomes
  <2> QED BY <1>1, <2>1
<1>2. CASE f.open
  <2>1. PICK g \in IF Len(f.active) >= ElFileMax THEN Rotations(f) ELSE {f} :
          \/ w = [file |-> g, ok |-> FALSE]
          \/ g.open /\ w = [file |-> [g EXCEPT !.active = Append(@, r)], ok |-> TRUE]
    BY <1>2 DEF WriteOutcomes, Failed
  <2>2. g \in Files /\ Smaller(g, f)
    <3>1. Smaller(f, f)
      BY SameFile
    <3> QED BY <2>1, <3>1, RotationsStep
  <2>3. CASE w = [file |-> g, ok |-> FALSE]
    <3>1. w.file = g /\ w.ok = FALSE
      BY <2>3
    <3> QED BY <1>2, <2>2, <3>1 DEF Smaller
  <2>4. CASE w = [file |-> [g EXCEPT !.active = Append(@, r)], ok |-> TRUE]
    <3>1. w.ok = TRUE /\ w.file = [g EXCEPT !.active = Append(g.active, r)]
      BY <2>2, <2>4 DEF Files
    <3>2. Append(g.active, r) \in Seq(Logged) /\ r.n \in Numbers(Append(g.active, r))
      BY <2>2, NumbersOfAppend DEF Files
    <3>3. w.file \in Files /\ w.file.active = Append(g.active, r) /\ w.file.old = g.old
      BY <2>2, <3>1, <3>2 DEF Files
    <3>4. /\ Kept(w.file) \subseteq Kept(g) \cup {r}
          /\ InOrder(g) /\ Ahead(Kept(g), {r}) => InOrder(w.file)
      BY <2>2, <3>3, GrownFile
    <3>5. Ahead(Kept(f), {r}) => Ahead(Kept(g), {r})
      BY <2>2, AheadLess DEF Smaller
    <3>6. Kept(w.file) \subseteq Kept(f) \cup {r}
      BY <2>2, <3>4 DEF Smaller
    <3>7. InOrder(f) /\ Ahead(Kept(f), {r}) => InOrder(w.file)
      BY <2>2, <3>4, <3>5 DEF Smaller
    <3>8. w.ok \in BOOLEAN
      BY <3>1
    <3> QED BY <1>2, <3>2, <3>3, <3>6, <3>7, <3>8
  <2> QED BY <2>1, <2>3, <2>4
<1> QED BY <1>1, <1>2

LEMMA StoredRange == ASSUME NEW f \in Files PROVE Stored(f) \subseteq 1 .. ElEvents
<1>1. ASSUME NEW q \in Seq(Logged) PROVE Numbers(q) \subseteq 1 .. ElEvents
  <2>1. \A i \in DOMAIN q : q[i] \in Logged
    OBVIOUS
  <2> QED BY <2>1 DEF Numbers, Logged
<1>2. f.active \in Seq(Logged) /\ \A i \in DOMAIN f.old : f.old[i] \in Seq(Logged)
  BY DEF Files
<1> QED BY <1>1, <1>2 DEF Stored

\* _write: the event goes from the job to the file or is counted as an error;
\* what the retention removes is counted as deleted.
LEMMA WriteStep == ASSUME ElIndInv, NEW j \in Jobs, ElWrite(j) PROVE ElIndInv'
<1> DEFINE r == elJob[j].rec
           f == elFile[r.kind]
<1>1. /\ elJob[j].pc = "write" /\ r \in Logged /\ r.kind \in Kinds /\ r.n \in 1 .. ElEvents
      /\ UNCHANGED <<elTrace, elHand, elQueue, elDisk>>
  BY DEF ElWrite, ElIndInv, JobsHold, Logged
<1>2. PICK w \in WriteOutcomes(f, r) :
        LET fs == [elFile EXCEPT ![r.kind] = w.file]
            after == IF w.ok THEN Trimmed(fs) ELSE fs
            gone == UNION {Stored(elFile[k]) \ Stored(after[k]) : k \in Kinds} IN
        /\ elFile' = after
        /\ elCount' = [elCount EXCEPT !.deleted = @ \cup gone,
                                      !.errors = IF w.ok THEN @ ELSE @ \cup {r.n}]
        /\ elRec' = IF ~ w.ok THEN [elRec EXCEPT !.degraded = TRUE, !.disk = FALSE]
                    ELSE IF ~ elRec.degraded \/ elDisk.roomy
                    THEN [elRec EXCEPT !.degraded = FALSE, !.disk = TRUE]
                    ELSE elRec
  BY DEF ElWrite
<1>3. PICK p \in {"events", "telemetry", "done"} :
        elJob' = [elJob EXCEPT ![j] = [pc |-> p, rec |-> NoRecord]]
  <2> DEFINE p == IF r.kind = "events" THEN "events" ELSE IF j = "writer" THEN Round ELSE "telemetry"
  <2>1. p \in {"events", "telemetry", "done"}
    BY DEF Round
  <2>2. elJob' = [elJob EXCEPT ![j] = [pc |-> p, rec |-> NoRecord]]
    BY DEF ElWrite
  <2> HIDE DEF p
  <2> QED BY <2>1, <2>2
<1> HIDE DEF r
<1>4. f \in Files /\ \A k \in Kinds : elFile[k] \in Files
  BY <1>1 DEF ElIndInv, ElShape
<1>5. /\ w.file \in Files /\ w.ok \in BOOLEAN
      /\ w.file.open => f.open
      /\ w.ok /\ w.file.open => r.n \in Numbers(w.file.active)
  BY <1>1, <1>2, <1>4, WriteStepOutcome
<1> DEFINE fs == [elFile EXCEPT ![r.kind] = w.file]
           gone == UNION {Stored(elFile[k]) \ Stored(elFile'[k]) : k \in Kinds}
<1>6. /\ fs \in [Kinds -> Files]
      /\ \A k \in Kinds : fs[k] = IF k = r.kind THEN w.file ELSE elFile[k]
  BY <1>1, <1>5 DEF ElIndInv, ElShape
<1>7. elFile' = IF w.ok THEN Trimmed(fs) ELSE fs
  BY <1>2
<1> HIDE DEF f, fs
<1>8. /\ elFile' \in [Kinds -> Files]
      /\ \A k \in Kinds : elFile'[k].open = fs[k].open /\ elFile'[k].active = fs[k].active
  BY <1>6, <1>7, TrimmedStep
<1>9. elCount' = [elCount EXCEPT !.deleted = @ \cup gone,
                                 !.errors = IF w.ok THEN @ ELSE @ \cup {r.n}]
  BY <1>2 DEF fs
<1>10. gone \subseteq 1 .. ElEvents
  BY <1>4, StoredRange
<1>11. \A k \in Kinds : \A n \in Stored(elFile[k]) : n \in Stored(elFile'[k]) \/ n \in gone
  OBVIOUS
<1> HIDE DEF gone
<1>12. /\ elCount' \in [dropped : SUBSET (1 .. ElEvents), errors : SUBSET (1 .. ElEvents),
                        deleted : SUBSET (1 .. ElEvents)]
       /\ elCount'.dropped = elCount.dropped /\ elCount'.deleted = elCount.deleted \cup gone
       /\ elCount.errors \subseteq elCount'.errors /\ (~ w.ok => r.n \in elCount'.errors)
  <2> DEFINE e == IF w.ok THEN elCount.errors ELSE elCount.errors \cup {r.n}
             d == elCount.deleted \cup gone
  <2>1. elCount \in [dropped : SUBSET (1 .. ElEvents), errors : SUBSET (1 .. ElEvents),
                     deleted : SUBSET (1 .. ElEvents)]
    BY DEF ElIndInv, ElShape
  <2>2. e \subseteq 1 .. ElEvents /\ elCount.errors \subseteq e /\ (~ w.ok => r.n \in e)
    BY <1>1, <2>1
  <2>3. d \subseteq 1 .. ElEvents
    BY <1>10, <2>1
  <2>4. elCount' = [elCount EXCEPT !.deleted = d, !.errors = e]
    BY <1>9, <2>1
  <2> HIDE DEF d, e
  <2>5. /\ elCount' \in [dropped : SUBSET (1 .. ElEvents), errors : SUBSET (1 .. ElEvents),
                         deleted : SUBSET (1 .. ElEvents)]
        /\ elCount'.dropped = elCount.dropped /\ elCount'.deleted = d /\ elCount'.errors = e
    BY <2>1, <2>2, <2>3, <2>4
  <2> QED BY <2>2, <2>5 DEF d
<1>13. /\ elRec' \in [ready : BOOLEAN, stop : BOOLEAN, degraded : BOOLEAN, disk : BOOLEAN]
       /\ elRec'.ready = elRec.ready /\ elRec'.stop = elRec.stop
  <2>1. elRec \in [ready : BOOLEAN, stop : BOOLEAN, degraded : BOOLEAN, disk : BOOLEAN]
    BY DEF ElIndInv, ElShape
  <2>2. \/ elRec' = [elRec EXCEPT !.degraded = TRUE, !.disk = FALSE]
        \/ elRec' = [elRec EXCEPT !.degraded = FALSE, !.disk = TRUE]
        \/ elRec' = elRec
    BY <1>2
  <2> QED BY <2>1, <2>2
<1>14. /\ elJob' \in [Jobs -> [pc : JobStates, rec : Held]]
       /\ \A i \in Jobs : elJob'[i] = IF i = j THEN [pc |-> p, rec |-> NoRecord] ELSE elJob[i]
  BY <1>3 DEF ElIndInv, ElShape, JobStates, Held
<1>15. ElShape' /\ JobsHold'
  <2>1. ElShape'
    BY <1>1, <1>8, <1>12, <1>13, <1>14 DEF ElIndInv, ElShape
  <2>2. JobsHold'
    BY <1>14 DEF ElIndInv, JobsHold
  <2> QED BY <2>1, <2>2
<1>16. elJob'["main"].pc # "off" => elRec'.stop
  BY <1>1, <1>13, <1>14 DEF ElIndInv, ElCounted, Jobs
<1>17. Counting' => Counting
  <2>1. elJob'["writer"].pc = "off" => elJob["writer"].pc = "off"
    BY <1>14 DEF Jobs
  <2>2. \A k \in Kinds : elFile'[k].open => elFile[k].open
    BY <1>5, <1>6, <1>8 DEF f
  <2> QED BY <1>13, <2>1, <2>2 DEF Counting
<1>18. ASSUME Counting', NEW n, Located(n)
       PROVE  Located(n)'
  <2>1. j = "writer" /\ \A k \in Kinds : elFile'[k].open
    <3>1. ~ elRec.stop
      BY <1>13, <1>18 DEF Counting
    <3>2. j = "writer"
      BY <1>1, <3>1 DEF ElIndInv, ElCounted, Jobs
    <3> QED BY <1>14, <1>18, <3>2 DEF Counting, Jobs
  <2>2. CASE n = r.n
    <3>1. CASE w.ok
      <4>1. r.n \in Numbers(elFile'[r.kind].active)
        BY <1>1, <1>5, <1>6, <1>8, <2>1, <3>1
      <4> QED BY <1>1, <2>2, <4>1 DEF Located, Stored
    <3>2. CASE ~ w.ok
      BY <1>12, <2>2, <3>2 DEF Located
    <3> QED BY <3>1, <3>2
  <2>3. CASE \E i \in Jobs : i # j /\ elJob[i].rec.n = n
    <3>1. PICK i \in Jobs : i # j /\ elJob[i].rec.n = n
      BY <2>3
    <3>2. elJob'[i].rec.n = n
      BY <1>14, <3>1
    <3> QED BY <3>2 DEF Located, Jobs
  <2>4. CASE \E k \in Kinds : n \in Stored(elFile[k])
    BY <1>11, <1>12, <2>4 DEF Located
  <2>5. CASE \/ \E t \in ElThreads : elHand[t].n = n
             \/ \E k \in Kinds : n \in Numbers(elQueue[k])
             \/ n \in elCount.dropped \/ n \in elCount.errors \/ n \in elCount.deleted
    BY <1>1, <1>12, <2>5 DEF Located
  <2> QED BY <1>18, <2>2, <2>3, <2>4, <2>5 DEF Located, Jobs, r
<1> QED BY <1>1, <1>15, <1>16, <1>17, <1>18, CountingStep DEF ElIndInv

LEMMA ElStep == ElIndInv /\ [ElNext]_elVars => ElIndInv'
<1> SUFFICES ASSUME ElIndInv, [ElNext]_elVars PROVE ElIndInv'
  OBVIOUS
<1>1. CASE \E t \in ElThreads : ElThread(t)
  BY <1>1, TraceEvents, EnqueueStep DEF ElThread
<1>2. CASE \E j \in Jobs : ElDrainer(j)
  BY <1>2, GetStep, EmptyStep, WriteStep DEF ElDrainer
<1>3. CASE ElStart \/ ElStop \/ ElClose
  BY <1>3, StartStep, StopStep, CloseStep
<1>4. CASE ElDiskBad \/ ElDiskHeals \/ ElIntervalPasses \/ UNCHANGED elVars
  BY <1>4, OutsideStep
<1> QED BY <1>1, <1>2, <1>3, <1>4 DEF ElNext, Jobs

Counted == elCount.dropped \cup elCount.errors \cup elCount.deleted

\* A number has a place if a record has it, or it is counted.
PlacesKnown ==
  \A n \in Nat \ {0} : Located(n) <=> (\E r \in Carried : r.n = n) \/ n \in Counted

LEMMA LocatedCarried == ElShape => PlacesKnown
<1> SUFFICES ASSUME ElShape, NEW n \in Nat \ {0}
             PROVE  Located(n) <=> (\E r \in Carried : r.n = n) \/ n \in Counted
  BY DEF PlacesKnown
<1>1. NoRecord.n # n
  BY DEF NoRecord
<1>2. \A s : n \in Numbers(s) <=> \E r \in Range(s) : r.n = n
  BY DEF Numbers, Range
<1>3. \A f : n \in Stored(f) <=> \E r \in Kept(f) : r.n = n
  <2> SUFFICES ASSUME NEW f PROVE n \in Stored(f) <=> \E r \in Kept(f) : r.n = n
    OBVIOUS
  <2>1. n \in Stored(f) <=> n \in Numbers(f.active) \/ \E g \in DOMAIN f.old : n \in Numbers(f.old[g])
    BY DEF Stored
  <2>2. \A r : r \in Kept(f) <=> r \in Range(f.active) \/ \E g \in DOMAIN f.old : r \in Range(f.old[g])
    BY DEF Kept
  <2> QED BY <1>2, <2>1, <2>2
<1>4. \A r : r \in Carried <=>
        /\ r # NoRecord
        /\ \/ \E t \in ElThreads : r = elHand[t]
           \/ \E j \in {"writer", "main"} : r = elJob[j].rec
           \/ \E k \in Kinds : r \in Range(elQueue[k]) \/ r \in Kept(elFile[k])
  BY DEF Carried
<1>5. Located(n) <=>
        \/ \E t \in ElThreads : elHand[t].n = n
        \/ \E j \in {"writer", "main"} : elJob[j].rec.n = n
        \/ \E k \in Kinds : \E r \in Range(elQueue[k]) \cup Kept(elFile[k]) : r.n = n
        \/ n \in Counted
  <2>1. Located(n) <=>
          \/ \E t \in ElThreads : elHand[t].n = n
          \/ \E j \in {"writer", "main"} : elJob[j].rec.n = n
          \/ \E k \in Kinds : n \in Numbers(elQueue[k]) \/ n \in Stored(elFile[k])
          \/ n \in Counted
    BY DEF Located, Counted
  <2> QED BY <1>2, <1>3, <2>1
<1> QED BY <1>1, <1>4, <1>5

\* Records are typed wherever they are.
CarriedTyped == \A r \in Carried : r \in Logged

LEMMA CarriedTypes == ElShape => CarriedTyped
<1> SUFFICES ASSUME ElShape, NEW r \in Carried PROVE r \in Logged
  BY DEF CarriedTyped
<1>1. \A s \in Seq(Logged) : \A x \in Range(s) : x \in Logged
  BY DEF Range
<1>2. \A f \in Files : \A x \in Kept(f) : x \in Logged
  <2> SUFFICES ASSUME NEW f \in Files, NEW x \in Kept(f) PROVE x \in Logged
    OBVIOUS
  <2>1. f.active \in Seq(Logged) /\ \A g \in DOMAIN f.old : f.old[g] \in Seq(Logged)
    BY DEF Files
  <2>2. x \in Range(f.active) \/ \E g \in DOMAIN f.old : x \in Range(f.old[g])
    BY DEF Kept
  <2> QED BY <1>1, <2>1, <2>2
<1>3. /\ \A t \in ElThreads : elHand[t] \in Held
      /\ elJob["writer"].rec \in Held /\ elJob["main"].rec \in Held
      /\ \A k \in Kinds : elQueue[k] \in Seq(Logged) /\ elFile[k] \in Files
  BY DEF ElShape, Jobs
<1>4. /\ r # NoRecord
      /\ \/ \E t \in ElThreads : r = elHand[t]
         \/ \E j \in {"writer", "main"} : r = elJob[j].rec
         \/ \E k \in Kinds : r \in Range(elQueue[k]) \/ r \in Kept(elFile[k])
  BY DEF Carried
<1>5. CASE r \in Held
  BY <1>4, <1>5 DEF Held
<1>6. CASE \E k \in Kinds : r \in Range(elQueue[k]) \/ r \in Kept(elFile[k])
  BY <1>1, <1>2, <1>3, <1>6
<1>7. CASE \E t \in ElThreads : r = elHand[t]
  BY <1>3, <1>5, <1>7
<1>8. CASE r = elJob["writer"].rec \/ r = elJob["main"].rec
  BY <1>3, <1>5, <1>8
<1> QED BY <1>4, <1>6, <1>7, <1>8

\* What a step must show to keep the events of a key linked: it numbers at
\* most one event, and brings back none.
LEMMA LinkStep ==
  ASSUME ElShape, ElShape', ElLinked,
         elTrace'.seq >= elTrace.seq,
         elCount.dropped \subseteq elCount'.dropped, elCount.errors \subseteq elCount'.errors,
         elCount.deleted \subseteq elCount'.deleted,
         \A r \in Carried' : r \in Carried \/
            /\ r.n = elTrace.seq + 1 /\ elTrace'.seq = r.n
            /\ r.key # "none" => r.prev = elTrace.last[r.key] /\ elTrace'.last[r.key] = r.val,
         \A r, s \in Carried' : r \notin Carried /\ s \notin Carried => r = s,
         \A k \in {"state", "level"} :
            elTrace'.last[k] = elTrace.last[k] \/ \E r \in Carried' : r \notin Carried /\ r.key = k
  PROVE  ElLinked'
<1> DEFINE s == elTrace.seq
           Gap(k, m, n) == \E i \in m + 1 .. n - 1 : i \in Lost' \/ \E c \in Carried' : c.n = i /\ c.key = k
<1>1. s \in Nat /\ s' \in Nat /\ s' >= s /\ Counted \subseteq Counted'
  BY DEF ElShape, Trace, Counted
<1>2. \A r \in Carried : r.n \in 1 .. s /\ r.key \in {"none", "state", "level"}
  BY CarriedTypes, <1>1 DEF CarriedTyped, ElLinked, Logged
<1>3. \A r \in Carried' : r \in Logged
  <2>1. CarriedTyped'
    BY CarriedTypes, PTL
  <2>2. Logged' = Logged
    BY DEF Logged, Kinds, Values, Missing
  <2> QED BY <2>1, <2>2 DEF CarriedTyped
<1>4. \A r \in Carried' : r.n \in Nat \ {0} /\ r.key \in {"none", "state", "level"} /\ r.n <= s'
  BY <1>1, <1>2, <1>3 DEF Logged
<1>5. \A n \in Nat \ {0} :
        Located(n)' <=> (\E r \in Carried' : r.n = n) \/ n \in Counted'
  <2>1. PlacesKnown'
    BY LocatedCarried, PTL
  <2> QED BY <2>1 DEF PlacesKnown
<1>6. \A n \in Nat \ {0} : n \in Lost' <=> n \in Counted' \/ (n <= s' /\ ~ \E r \in Carried' : r.n = n)
  BY <1>1, <1>5 DEF Lost, Missed, Counted
<1>7. \A n \in Nat \ {0} : n \in Lost <=> n \in Counted \/ (n <= s /\ ~ \E r \in Carried : r.n = n)
  BY <1>1, LocatedCarried DEF PlacesKnown, Lost, Missed, Counted
<1>8. \A n \in Nat \ {0} : n \in Lost => n \in Lost'
  BY <1>1, <1>6, <1>7
<1>9. \A c \in Carried : c \in Carried' \/ c.n \in Lost'
  <2> SUFFICES ASSUME NEW c \in Carried, c.n \notin Lost' PROVE c \in Carried'
    OBVIOUS
  <2>1. c.n \in Nat \ {0} /\ c.n <= s /\ c.n <= s'
    BY <1>1, <1>2
  <2>2. PICK r \in Carried' : r.n = c.n
    BY <1>6, <2>1
  <2>3. r \in Carried
    BY <1>1, <2>1, <2>2
  <2> QED BY <2>2, <2>3 DEF ElLinked
<1>10. ASSUME NEW k, NEW m \in Nat, NEW n \in Nat, NEW q \in Nat, n <= q, Gapped(k, m, n, Carried)
       PROVE  Gap(k, m, q)
  <2>1. PICK i \in m + 1 .. n - 1 : i \in Lost \/ \E c \in Carried : c.n = i /\ c.key = k
    BY <1>10 DEF Gapped
  <2>2. i \in Nat \ {0} /\ i \in m + 1 .. q - 1
    BY <1>10
  <2>3. i \in Lost' \/ \E c \in Carried' : c.n = i /\ c.key = k
    BY <1>8, <1>9, <2>1, <2>2
  <2> QED BY <2>2, <2>3
<1> HIDE DEF Gap
<1>11. ASSUME NEW a \in Carried', NEW b \in Carried', Precedes(a, b)
       PROVE  b.prev = a.val \/ Gap(a.key, a.n, b.n)
  <2>1. a.key = b.key /\ a.key # "none" /\ a.n < b.n /\ a.n \in Nat /\ b.n \in Nat
    BY <1>4, <1>11 DEF Precedes
  <2>2. a \in Carried
    BY <1>1, <1>4, <2>1
  <2>3. CASE b \in Carried
    BY <1>10, <1>11, <2>1, <2>2, <2>3 DEF ElLinked
  <2>4. CASE b \notin Carried
    <3>1. b.n = s + 1 /\ b.prev = elTrace.last[a.key]
      BY <2>1, <2>4
    <3>2. elTrace.last[a.key] = a.val \/ Gapped(a.key, a.n, s + 1, Carried)
      BY <2>1, <2>2 DEF ElLinked
    <3> QED BY <1>1, <1>10, <2>1, <3>1, <3>2
  <2> QED BY <2>3, <2>4
<1>12. ASSUME NEW a \in Carried', a.key # "none"
       PROVE  elTrace'.last[a.key] = a.val \/ Gap(a.key, a.n, s' + 1)
  <2>1. CASE a \notin Carried
    BY <1>12, <2>1
  <2>2. CASE a \in Carried /\ elTrace'.last[a.key] = elTrace.last[a.key]
    BY <1>1, <1>2, <1>10, <1>12, <2>2 DEF ElLinked
  <2>3. CASE a \in Carried /\ elTrace'.last[a.key] # elTrace.last[a.key]
    <3>1. PICK r \in Carried' : r \notin Carried /\ r.key = a.key
      BY <1>4, <1>12, <2>3
    <3>2. r.n = s + 1 /\ s' = s + 1
      BY <3>1
    <3>3. r.n \in a.n + 1 .. s' + 1 - 1
      BY <1>1, <1>2, <2>3, <3>2
    <3> QED BY <3>1, <3>3 DEF Gap
  <2> QED BY <2>1, <2>2, <2>3
<1>13. ASSUME NEW a \in Carried', NEW b \in Carried', a.n = b.n PROVE a = b
  BY <1>1, <1>2, <1>13 DEF ElLinked
<1> QED BY <1>4, <1>11, <1>12, <1>13 DEF ElLinked, Gapped, Gap

\* A thread holds another record, newer than those of its key elsewhere.
LEMMA InTurnHeld ==
  ASSUME NEW f, NEW w, NEW q, NEW h, InTurn(f, w, q, h), NEW h2,
         \A x \in h2 : x \in h \/ Ahead(Kept(f) \cup w \cup Range(q), {x})
  PROVE  InTurn(f, w, q, h2)
BY DEF InTurn, Ahead

\* The record that was held is queued; nobody holds another one of its key.
LEMMA InTurnQueued ==
  ASSUME NEW f, NEW w, NEW q \in Seq(Logged), NEW h, InTurn(f, w, q, h),
         NEW r \in Logged, r \in h, NEW h2,
         \A x \in h2 : x.key = "none" \/ (x \in h /\ x.key # r.key)
  PROVE  InTurn(f, w, Append(q, r), h2)
<1>1. Range(Append(q, r)) = Range(q) \cup {r}
  BY OneMore
<1>2. Ascending(Append(q, r))
  <2>1. Ahead(Range(q), {r})
    BY AheadLess DEF InTurn
  <2> QED BY <2>1, OneMore DEF InTurn
<1>3. Ahead(Kept(f), w \cup (Range(q) \cup {r}) \cup h2)
  BY DEF InTurn, Ahead
<1>4. Ahead(w, (Range(q) \cup {r}) \cup h2)
  BY DEF InTurn, Ahead
<1>5. Ahead(Range(q) \cup {r}, h2)
  BY DEF InTurn, Ahead
<1> QED BY <1>1, <1>2, <1>3, <1>4, <1>5 DEF InTurn

\* The writer takes the first record of the queue.
LEMMA InTurnTaken ==
  ASSUME NEW f, NEW w, NEW q \in Seq(Logged), q # <<>>, NEW h, InTurn(f, w, q, h)
  PROVE  InTurn(f, {Head(q)}, Tail(q), h)
<1>1. Head(q) \in Range(q) /\ Range(Tail(q)) \subseteq Range(q)
  BY OneLess
<1>2. Ascending(Tail(q)) /\ Ahead({Head(q)}, Range(Tail(q)))
  BY OneLess DEF InTurn
<1> HIDE DEF Tail, Head
<1>3. Ahead(Kept(f), {Head(q)} \cup Range(Tail(q)) \cup h)
  BY <1>1 DEF InTurn, Ahead
<1>4. Ahead({Head(q)}, Range(Tail(q)) \cup h) /\ Ahead(Range(Tail(q)), h)
  BY <1>1, <1>2 DEF InTurn, Ahead
<1> QED BY <1>2, <1>3, <1>4 DEF InTurn

\* The writer holds a record without a key, or none.
LEMMA InTurnKeyless ==
  ASSUME NEW f, NEW w, NEW q, NEW h, InTurn(f, w, q, h), NEW x, x.key = "none"
  PROVE  InTurn(f, {x}, q, h)
BY DEF InTurn, Ahead

\* The record of the writer is written, or lost.
LEMMA InTurnWritten ==
  ASSUME NEW f, NEW g, NEW r, NEW q, NEW h, InTurn(f, {r}, q, h),
         Kept(g) \subseteq Kept(f) \cup {r},
         InOrder(f) /\ Ahead(Kept(f), {r}) => InOrder(g)
  PROVE  InTurn(g, {NoRecord}, q, h)
<1>1. InOrder(g)
  BY DEF InTurn, Ahead
<1>2. Ahead(Kept(g), Range(q) \cup h)
  BY DEF InTurn, Ahead
<1>3. NoRecord.key = "none"
  BY DEF NoRecord
<1> HIDE DEF NoRecord
<1> QED BY <1>1, <1>2, <1>3 DEF InTurn, Ahead

Chained == ElLinked /\ ElSorted /\ ElInTurn

LEMMA CarriedParts ==
  ASSUME NEW r
  PROVE  r \in Carried <=>
           /\ r # NoRecord
           /\ \/ \E t \in ElThreads : r = elHand[t]
              \/ r = elJob["writer"].rec \/ r = elJob["main"].rec
              \/ \E k \in Kinds : r \in Range(elQueue[k]) \/ r \in Kept(elFile[k])
BY DEF Carried

\* A step that moves no record.
LEMMA ChainKept ==
  ASSUME ElIndInv, ElIndInv', Chained, UNCHANGED <<elHand, elQueue, elCount>>,
         \A j \in Jobs : elJob'[j].rec = elJob[j].rec,
         \A k \in Kinds : elFile'[k].active = elFile[k].active /\ elFile'[k].old = elFile[k].old,
         elTrace'.seq = elTrace.seq, elTrace'.lock = elTrace.lock, elTrace'.last = elTrace.last,
         elRec.stop => elRec'.stop
  PROVE  Chained'
<1>1. \A k \in Kinds : Kept(elFile'[k]) = Kept(elFile[k]) /\ (InOrder(elFile[k]) => InOrder(elFile'[k]))
  BY DEF Kept, InOrder
<1>2. elJob'["writer"].rec = elJob["writer"].rec /\ elJob'["main"].rec = elJob["main"].rec
  BY DEF Jobs
<1>3. Carried' = Carried
  BY <1>1, <1>2 DEF Carried
<1>4. ElLinked'
  <2>1. elTrace'.seq >= elTrace.seq
    BY DEF ElIndInv, ElShape, Trace
  <2> QED BY <1>3, <2>1, LinkStep DEF ElIndInv, Chained
<1>5. ElSorted'
  BY <1>1, <1>3 DEF Chained, ElSorted
<1>6. ElInTurn'
  BY <1>1, <1>2 DEF Chained, ElInTurn, InTurn, Kinds
<1> QED BY <1>4, <1>5, <1>6 DEF Chained

\* The place of a record of the audit trail, and its number.
LEMMA NumbersBelow ==
  ASSUME ElIndInv, Chained
  PROVE  \A x \in Kept(elFile["events"]) \cup {elJob["writer"].rec} \cup Range(elQueue["events"])
                   \cup {elHand[t] : t \in ElThreads} :
           x = NoRecord \/ (x \in Carried /\ x.n <= elTrace.seq)
<1>1. \A x \in Carried : x.n <= elTrace.seq
  BY DEF Chained, ElLinked
<1> QED BY <1>1, CarriedParts DEF Kinds

\* An event gets its number in the hands of a thread that had none.
LEMMA ChainNumbered ==
  ASSUME ElIndInv, ElIndInv', Chained, NEW t \in ElThreads, NEW kind \in Kinds,
         NEW key \in {"none", "state", "level"}, NEW val \in Values, NEW prev \in Values \cup {Missing},
         Numbered(t, kind, key, val, prev), elTrace'.seq = elTrace.seq + 1,
         key # "none" => /\ kind = "events" /\ elTrace.lock = "free" /\ elTrace'.lock = t
                         /\ prev = elTrace.last[key]
                         /\ elTrace'.last = [elTrace.last EXCEPT ![key] = val],
         key = "none" => elTrace'.lock = elTrace.lock /\ elTrace'.last = elTrace.last
  PROVE  Chained'
<1> DEFINE r == [n |-> elTrace.seq + 1, kind |-> kind, key |-> key, val |-> val, prev |-> prev]
           s == elTrace.seq
<1>1. s \in Nat /\ r.n = s + 1 /\ r.kind = kind /\ r.key = key /\ r.val = val /\ r.prev = prev
  BY DEF ElIndInv, ElShape, Trace
<1>2. /\ elHand' = [elHand EXCEPT ![t] = r] /\ elHand[t] = NoRecord
      /\ UNCHANGED <<elQueue, elFile, elRec, elJob, elCount>>
  BY DEF Numbered
<1>3. r # NoRecord
  BY <1>1 DEF NoRecord
<1> HIDE DEF r
<1>4. \A u \in ElThreads : elHand'[u] = IF u = t THEN r ELSE elHand[u]
  BY <1>2 DEF ElIndInv, ElShape
<1>5. \A x \in Carried' : x \in Carried \/ x = r
  BY <1>2, <1>4 DEF Carried
<1>6. r \in Carried'
  BY <1>3, <1>4 DEF Carried
<1>7. r \notin Carried /\ \A x \in Carried : x.n < r.n
  BY <1>1, CarriedTypes DEF Chained, ElLinked, ElIndInv, CarriedTyped, Logged
<1>8. ElLinked'
  <2>1. elTrace.last \in [{"state", "level"} -> Values \cup {Missing}]
    BY DEF ElIndInv, ElShape, Trace
  <2>2. \A k \in {"state", "level"} :
          elTrace'.last[k] = elTrace.last[k] \/ \E x \in Carried' : x \notin Carried /\ x.key = k
    BY <1>1, <1>6, <1>7, <2>1
  <2>3. \A x \in Carried' : x \in Carried \/
            /\ x.n = s + 1 /\ elTrace'.seq = x.n
            /\ x.key # "none" => x.prev = elTrace.last[x.key] /\ elTrace'.last[x.key] = x.val
    BY <1>1, <1>5, <2>1
  <2>4. elTrace'.seq >= s
    BY <1>1
  <2> QED BY <1>2, <1>5, <2>2, <2>3, <2>4, LinkStep DEF ElIndInv, Chained
<1>9. ElSorted'
  BY <1>1, <1>2, <1>5 DEF Chained, ElSorted
<1>10. ASSUME ~ elRec'.stop
       PROVE  /\ InTurn(elFile["events"], {elJob["writer"].rec}, elQueue["events"],
                        {elHand'[u] : u \in ElThreads})
              /\ \A u \in ElThreads : elHand'[u].key # "none" => elTrace'.lock = u
  <2> DEFINE f == elFile["events"] w == {elJob["writer"].rec} q == elQueue["events"]
             h == {elHand[u] : u \in ElThreads} h2 == {elHand'[u] : u \in ElThreads}
  <2>1. /\ InTurn(f, w, q, h)
        /\ \A u \in ElThreads : elHand[u].key # "none" => elTrace.lock = u
    BY <1>2, <1>10 DEF Chained, ElInTurn
  <2>2. Ahead(Kept(f) \cup w \cup Range(q), {r})
    <3>1. NoRecord.key = "none"
      BY DEF NoRecord
    <3> HIDE DEF NoRecord
    <3> QED BY <1>7, <3>1, NumbersBelow DEF Ahead
  <2>3. \A x \in h2 : x \in h \/ x = r
    BY <1>4
  <2> HIDE DEF f, w, q, h, h2
  <2>4. InTurn(f, w, q, h2)
    BY <2>1, <2>2, <2>3, InTurnHeld
  <2>5. \A u \in ElThreads : elHand'[u].key # "none" => elTrace'.lock = u
    <3>1. "free" \notin ElThreads
      BY ElAssumption
    <3> QED BY <1>1, <1>4, <2>1, <3>1
  <2> QED BY <2>4, <2>5 DEF f, w, q, h2
<1> QED BY <1>2, <1>8, <1>9, <1>10 DEF Chained, ElInTurn

\* emit, command_received, throttle, transition and changed.
LEMMA ChainTrace ==
  ASSUME ElIndInv, ElIndInv', Chained, NEW t \in ElThreads,
         \/ ElEmit(t) \/ ElThrottle(t) \/ \E c \in {"c1", "c2"} : ElCommand(t, c)
         \/ \E v \in Values : ElTransition(t, v) \/ ElChanged(t, v)
  PROVE  Chained'
<1>1. ElShape
  BY DEF ElIndInv
<1>2. CASE ElEmit(t)
  <2>1. /\ elTrace'.seq = elTrace.seq + 1 /\ elTrace'.lock = elTrace.lock
        /\ elTrace'.last = elTrace.last
    BY <1>1, <1>2, TraceFields DEF ElEmit
  <2> QED BY <1>2, <2>1, ChainNumbered DEF ElEmit, Kinds, Values
<1>3. CASE ElThrottle(t)
  <2>1. /\ elTrace'.seq = elTrace.seq + 1 /\ elTrace'.lock = elTrace.lock
        /\ elTrace'.last = elTrace.last
    BY <1>1, <1>3, TraceFields DEF ElThrottle
  <2> QED BY <1>3, <2>1, ChainNumbered DEF ElThrottle, Kinds, Values
<1>4. ASSUME NEW c \in {"c1", "c2"}, ElCommand(t, c) PROVE Chained'
  <2> DEFINE a == Append(SelectSeq(elTrace.seen, LAMBDA d : d # c), c)
             x == IF Len(a) > ElSeenMax THEN Tail(a) ELSE a
  <2>1. elTrace' = [elTrace EXCEPT !.seq = @ + 1, !.seen = x]
    BY <1>4 DEF ElCommand
  <2> HIDE DEF x
  <2>2. /\ elTrace'.seq = elTrace.seq + 1 /\ elTrace'.lock = elTrace.lock
        /\ elTrace'.last = elTrace.last
    BY <1>1, <2>1, TraceFields
  <2>3. Numbered(t, "events", "none", 0, 0)
    BY <1>4 DEF ElCommand
  <2> QED BY <2>2, <2>3, ChainNumbered DEF Kinds, Values
<1>5. ASSUME NEW v \in Values, ElTransition(t, v) PROVE Chained'
  <2>1. /\ elTrace'.seq = elTrace.seq + 1 /\ elTrace'.lock = t /\ elTrace.lock = "free"
        /\ elTrace'.last = [elTrace.last EXCEPT !["state"] = v]
        /\ elTrace.last["state"] \in Values \cup {Missing}
    BY <1>1, <1>5, TraceFields DEF ElTransition
  <2>2. Numbered(t, "events", "state", v, elTrace.last["state"])
    BY <1>5 DEF ElTransition
  <2> QED BY <2>1, <2>2, ChainNumbered DEF Kinds
<1>6. ASSUME NEW v \in Values, ElChanged(t, v) PROVE Chained'
  <2>1. /\ elTrace'.seq = elTrace.seq + 1 /\ elTrace'.lock = t /\ elTrace.lock = "free"
        /\ elTrace'.last = [elTrace.last EXCEPT !["level"] = v]
        /\ elTrace.last["level"] \in Values \cup {Missing}
    BY <1>1, <1>6, TraceFields DEF ElChanged
  <2>2. Numbered(t, "events", "level", v, elTrace.last["level"])
    BY <1>6 DEF ElChanged
  <2> QED BY <2>1, <2>2, ChainNumbered DEF Kinds
<1> QED BY <1>2, <1>3, <1>4, <1>5, <1>6

\* enqueue: the record goes to the end of its queue, or is gone.
LEMMA ChainEnqueue ==
  ASSUME ElIndInv, ElIndInv', Chained, NEW t \in ElThreads, ElEnqueue(t)
  PROVE  Chained'
<1> DEFINE r == elHand[t]
<1>1. r \in Logged /\ r.kind \in Kinds /\ r # NoRecord
  BY DEF ElEnqueue, ElIndInv, ElShape, Held, Logged
<1>2. /\ elHand' = [elHand EXCEPT ![t] = NoRecord]
      /\ elTrace' = IF elTrace.lock = t THEN [elTrace EXCEPT !.lock = "free"] ELSE elTrace
      /\ UNCHANGED <<elFile, elRec, elJob>>
  BY DEF ElEnqueue
<1>3. elQueue' = [elQueue EXCEPT ![r.kind] = Append(@, r)] \/ elQueue' = elQueue
  BY DEF ElEnqueue
<1>4. elCount' = elCount \/ elCount' = [elCount EXCEPT !.dropped = @ \cup {r.n}]
  BY DEF ElEnqueue
<1>5. \A u \in ElThreads : elHand'[u] = IF u = t THEN NoRecord ELSE elHand[u]
  BY <1>2 DEF ElIndInv, ElShape
<1>6. \A k \in Kinds : elQueue'[k] = elQueue[k] \/ (k = r.kind /\ elQueue'[k] = Append(elQueue[k], r))
  BY <1>1, <1>3 DEF ElIndInv, ElShape
<1>7. \A k \in Kinds : \A x \in Range(elQueue'[k]) : x \in Range(elQueue[k]) \/ (x = r /\ k = r.kind)
  <2> HIDE DEF r
  <2>1. ASSUME NEW k \in Kinds PROVE Range(Append(elQueue[k], r)) = Range(elQueue[k]) \cup {r}
    <3>1. elQueue[k] \in Seq(Logged)
      BY DEF ElIndInv, ElShape
    <3> QED BY <1>1, <3>1, OneMore
  <2> SUFFICES ASSUME NEW k \in Kinds, NEW x \in Range(elQueue'[k])
               PROVE  x \in Range(elQueue[k]) \/ (x = r /\ k = r.kind)
    OBVIOUS
  <2>2. CASE elQueue'[k] = elQueue[k]
    BY <2>2
  <2>3. CASE k = r.kind /\ elQueue'[k] = Append(elQueue[k], r)
    <3>1. x \in Range(Append(elQueue[k], r))
      BY <2>3
    <3>2. x \in Range(elQueue[k]) \cup {r}
      BY <2>1, <3>1
    <3> QED BY <2>3, <3>2
  <2> QED BY <1>6, <2>2, <2>3
<1> HIDE DEF r
<1>8. r \in Carried
  BY <1>1, CarriedParts DEF r
<1>9. Carried' \subseteq Carried
  <2> SUFFICES ASSUME NEW x \in Carried' PROVE x \in Carried
    OBVIOUS
  <2>1. /\ x # NoRecord
        /\ \/ \E u \in ElThreads : x = elHand'[u]
           \/ x = elJob["writer"].rec \/ x = elJob["main"].rec
           \/ \E k \in Kinds : x \in Range(elQueue'[k]) \/ x \in Kept(elFile[k])
    BY <1>2 DEF Carried
  <2>2. CASE \E u \in ElThreads : x = elHand'[u]
    BY <1>5, <2>1, <2>2, CarriedParts
  <2>3. CASE \E k \in Kinds : x \in Range(elQueue'[k])
    BY <1>7, <1>8, <2>1, <2>3, CarriedParts
  <2> QED BY <2>1, <2>2, <2>3, CarriedParts
<1>10. elTrace'.seq = elTrace.seq /\ elTrace'.last = elTrace.last
       /\ elTrace'.lock = IF elTrace.lock = t THEN "free" ELSE elTrace.lock
  BY <1>2 DEF ElIndInv, ElShape, Trace
<1>11. ElLinked'
  <2>1. elTrace'.seq >= elTrace.seq
    BY <1>10 DEF ElIndInv, ElShape, Trace
  <2>2. /\ elCount.dropped \subseteq elCount'.dropped /\ elCount.errors \subseteq elCount'.errors
        /\ elCount.deleted \subseteq elCount'.deleted
    BY <1>4 DEF ElIndInv, ElShape
  <2> QED BY <1>9, <1>10, <2>1, <2>2, LinkStep DEF ElIndInv, Chained
<1>12. ElSorted'
  BY <1>2, <1>7, <1>9 DEF Chained, ElSorted
<1>13. ASSUME ~ elRec'.stop
       PROVE  /\ InTurn(elFile["events"], {elJob["writer"].rec}, elQueue'["events"],
                        {elHand'[u] : u \in ElThreads})
              /\ \A u \in ElThreads : elHand'[u].key # "none" => elTrace'.lock = u
  <2> DEFINE f == elFile["events"] w == {elJob["writer"].rec} q == elQueue["events"]
             h == {elHand[u] : u \in ElThreads} h2 == {elHand'[u] : u \in ElThreads}
  <2>1. /\ InTurn(f, w, q, h)
        /\ \A u \in ElThreads : elHand[u].key # "none" => elTrace.lock = u
    BY <1>2, <1>13 DEF Chained, ElInTurn
  <2>2. NoRecord.key = "none"
    BY DEF NoRecord
  <2>3. \A x \in h2 : x.key = "none" \/ (x \in h /\ x.key # r.key)
    <3> SUFFICES ASSUME NEW u \in ElThreads, elHand'[u].key # "none"
                 PROVE  elHand'[u] \in h /\ elHand'[u].key # r.key
      OBVIOUS
    <3>1. u # t /\ elHand'[u] = elHand[u]
      BY <1>5, <2>2
    <3>2. elTrace.lock = u
      BY <2>1, <3>1
    <3>3. r.key = "none"
      BY <2>1, <3>1, <3>2 DEF r
    <3> QED BY <3>1, <3>3
  <2>4. q \in Seq(Logged) /\ r \in h
    BY DEF ElIndInv, ElShape, Kinds, r
  <2>5. elQueue'["events"] = q \/ elQueue'["events"] = Append(q, r)
    BY <1>6 DEF Kinds
  <2> HIDE DEF f, w, q, h, h2, NoRecord
  <2>6. InTurn(f, w, Append(q, r), h2)
    BY <1>1, <2>1, <2>3, <2>4, InTurnQueued
  <2>7. InTurn(f, w, q, h2)
    <3>1. \A x \in h2 : x \in h \/ Ahead(Kept(f) \cup w \cup Range(q), {x})
      BY <2>3 DEF Ahead
    <3> QED BY <2>1, <3>1, InTurnHeld
  <2>8. \A u \in ElThreads : elHand'[u].key # "none" => elTrace'.lock = u
    BY <1>5, <1>10, <2>1, <2>2
  <2> QED BY <2>5, <2>6, <2>7, <2>8 DEF f, w, q, h2
<1> QED BY <1>2, <1>11, <1>12, <1>13 DEF Chained, ElInTurn

\* get: the record goes from the queue to the one who drains it.
LEMMA ChainGet ==
  ASSUME ElIndInv, ElIndInv', Chained, NEW j \in Jobs, ElGet(j)
  PROVE  Chained'
<1> DEFINE k == elJob[j].pc
           q == elQueue[k]
<1>1. /\ k \in Kinds /\ q # <<>> /\ q \in Seq(Logged)
      /\ UNCHANGED <<elTrace, elHand, elFile, elRec, elCount>>
  BY DEF ElGet, ElIndInv, ElShape
<1>2. /\ elJob' = [elJob EXCEPT ![j] = [pc |-> "write", rec |-> Head(q)]]
      /\ elQueue' = [elQueue EXCEPT ![k] = Tail(q)]
  BY DEF ElGet
<1>3. Head(q) \in Range(q) /\ Range(Tail(q)) \subseteq Range(q) /\ Head(q) \in Logged
  <2>1. Head(q) \in Logged
    BY <1>1
  <2> HIDE DEF q
  <2> QED BY <1>1, <2>1, OneLess
<1> HIDE DEF q
<1>4. \A i \in Jobs : elJob'[i].rec = IF i = j THEN Head(q) ELSE elJob[i].rec
  BY <1>2 DEF ElIndInv, ElShape
<1>5. \A i \in Kinds : elQueue'[i] = IF i = k THEN Tail(q) ELSE elQueue[i]
  BY <1>1, <1>2 DEF ElIndInv, ElShape
<1>6. \A i \in Kinds : Range(elQueue'[i]) \subseteq Range(elQueue[i])
  BY <1>3, <1>5 DEF q
<1>7. Carried' \subseteq Carried
  <2> SUFFICES ASSUME NEW x \in Carried' PROVE x \in Carried
    OBVIOUS
  <2>1. /\ x # NoRecord
        /\ \/ \E u \in ElThreads : x = elHand[u]
           \/ x = elJob'["writer"].rec \/ x = elJob'["main"].rec
           \/ \E i \in Kinds : x \in Range(elQueue'[i]) \/ x \in Kept(elFile[i])
    BY <1>1 DEF Carried
  <2>2. CASE x = elJob'["writer"].rec \/ x = elJob'["main"].rec
    <3>1. x = Head(q) \/ x = elJob["writer"].rec \/ x = elJob["main"].rec
      BY <1>4, <2>2 DEF Jobs
    <3>2. x = Head(q) => x \in Range(elQueue[k])
      BY <1>3 DEF q
    <3> QED BY <1>1, <2>1, <3>1, <3>2, CarriedParts
  <2>3. CASE \E i \in Kinds : x \in Range(elQueue'[i])
    BY <1>6, <2>1, <2>3, CarriedParts
  <2> QED BY <2>1, <2>2, <2>3, CarriedParts
<1>8. ElLinked'
  <2>1. elTrace'.seq >= elTrace.seq
    BY <1>1 DEF ElIndInv, ElShape, Trace
  <2> QED BY <1>1, <1>7, <2>1, LinkStep DEF ElIndInv, Chained
<1>9. ElSorted'
  BY <1>1, <1>6, <1>7 DEF Chained, ElSorted
<1>10. ASSUME ~ elRec'.stop
       PROVE  InTurn(elFile["events"], {elJob'["writer"].rec}, elQueue'["events"],
                     {elHand[u] : u \in ElThreads})
  <2>1. InTurn(elFile["events"], {elJob["writer"].rec}, elQueue["events"], {elHand[u] : u \in ElThreads})
    BY <1>1, <1>10 DEF Chained, ElInTurn
  <2>2. j = "writer"
    BY <1>1, <1>10 DEF ElIndInv, ElCounted, Jobs, Kinds
  <2>3. elJob'["writer"].rec = Head(q)
    BY <1>4, <2>2
  <2>4. CASE k = "events"
    <3>1. elQueue["events"] = q /\ elQueue'["events"] = Tail(q)
      BY <1>1, <1>5, <2>4 DEF q
    <3> QED BY <1>1, <2>1, <2>3, <3>1, InTurnTaken DEF q
  <2>5. CASE k = "telemetry"
    <3>1. elQueue'["events"] = elQueue["events"]
      BY <1>5, <2>5 DEF Kinds
    <3>2. Head(q).kind = "telemetry" /\ Head(q) \in Carried
      <4>1. Head(q) # NoRecord
        BY <1>3 DEF Logged, NoRecord
      <4> QED BY <1>1, <1>3, <2>5, <4>1, CarriedParts DEF Chained, ElSorted, q
    <3>3. Head(q).key = "none"
      BY <3>2 DEF Chained, ElSorted
    <3> QED BY <2>1, <2>3, <3>1, <3>3, InTurnKeyless
  <2> QED BY <1>1, <2>4, <2>5 DEF Kinds
<1> QED BY <1>1, <1>8, <1>9, <1>10 DEF Chained, ElInTurn

\* _write: the record goes to the end of its file, or is gone.
LEMMA ChainWrite ==
  ASSUME ElIndInv, ElIndInv', Chained, NEW j \in Jobs, ElWrite(j)
  PROVE  Chained'
<1> DEFINE r == elJob[j].rec
           f == elFile[r.kind]
<1>1. /\ elJob[j].pc = "write" /\ r \in Logged /\ r.kind \in Kinds
      /\ UNCHANGED <<elTrace, elHand, elQueue>>
  BY DEF ElWrite, ElIndInv, JobsHold, Logged
<1>2. PICK w \in WriteOutcomes(f, r) :
        LET fs == [elFile EXCEPT ![r.kind] = w.file]
            after == IF w.ok THEN Trimmed(fs) ELSE fs
            gone == UNION {Stored(elFile[k]) \ Stored(after[k]) : k \in Kinds} IN
        /\ elFile' = after
        /\ elCount' = [elCount EXCEPT !.deleted = @ \cup gone,
                                      !.errors = IF w.ok THEN @ ELSE @ \cup {r.n}]
        /\ elRec' = IF ~ w.ok THEN [elRec EXCEPT !.degraded = TRUE, !.disk = FALSE]
                    ELSE IF ~ elRec.degraded \/ elDisk.roomy
                    THEN [elRec EXCEPT !.degraded = FALSE, !.disk = TRUE]
                    ELSE elRec
  BY DEF ElWrite
<1>3. \A i \in Jobs : elJob'[i].rec = IF i = j THEN NoRecord ELSE elJob[i].rec
  BY DEF ElWrite, ElIndInv, ElShape
<1> HIDE DEF r
<1>4. f \in Files /\ \A k \in Kinds : elFile[k] \in Files
  BY <1>1 DEF ElIndInv, ElShape
<1>5. /\ w.file \in Files /\ Kept(w.file) \subseteq Kept(f) \cup {r}
      /\ InOrder(f) /\ Ahead(Kept(f), {r}) => InOrder(w.file)
  BY <1>1, <1>2, <1>4, WriteStepOutcome
<1> DEFINE fs == [elFile EXCEPT ![r.kind] = w.file]
<1>6. /\ fs \in [Kinds -> Files]
      /\ \A k \in Kinds : fs[k] = IF k = r.kind THEN w.file ELSE elFile[k]
  BY <1>1, <1>5 DEF ElIndInv, ElShape
<1>7. elFile' = IF w.ok THEN Trimmed(fs) ELSE fs
  BY <1>2
<1>8. /\ elCount.dropped \subseteq elCount'.dropped /\ elCount.errors \subseteq elCount'.errors
      /\ elCount.deleted \subseteq elCount'.deleted
  <2> DEFINE gone == UNION {Stored(elFile[k]) \ Stored(elFile'[k]) : k \in Kinds}
  <2>1. elCount' = [elCount EXCEPT !.deleted = @ \cup gone,
                                   !.errors = IF w.ok THEN @ ELSE @ \cup {r.n}]
    BY <1>2 DEF fs
  <2> HIDE DEF gone
  <2> QED BY <2>1 DEF ElIndInv, ElShape
<1> HIDE DEF f, fs
<1>9. \A k \in Kinds : Smaller(elFile'[k], fs[k])
  <2>1. \A k \in Kinds : Smaller(fs[k], fs[k])
    BY <1>6, SameFile
  <2> QED BY <1>6, <1>7, <2>1, TrimmedStep
<1>10. ASSUME NEW k \in Kinds
       PROVE  /\ Kept(elFile'[k]) \subseteq Kept(elFile[k]) \cup {r}
              /\ k # r.kind => Kept(elFile'[k]) \subseteq Kept(elFile[k])
              /\ InOrder(elFile[k]) /\ Ahead(Kept(elFile[k]), {r}) => InOrder(elFile'[k])
  BY <1>5, <1>6, <1>9 DEF Smaller, f
<1>11. elRec'.stop = elRec.stop
  <2>1. \/ elRec' = [elRec EXCEPT !.degraded = TRUE, !.disk = FALSE]
        \/ elRec' = [elRec EXCEPT !.degraded = FALSE, !.disk = TRUE]
        \/ elRec' = elRec
    BY <1>2
  <2> QED BY <2>1 DEF ElIndInv, ElShape
<1>12. r \in Carried
  <2>1. r # NoRecord
    BY <1>1 DEF Logged, NoRecord
  <2> QED BY <2>1, CarriedParts DEF r, Jobs
<1>13. Carried' \subseteq Carried
  <2> SUFFICES ASSUME NEW x \in Carried' PROVE x \in Carried
    OBVIOUS
  <2>1. /\ x # NoRecord
        /\ \/ \E u \in ElThreads : x = elHand[u]
           \/ x = elJob'["writer"].rec \/ x = elJob'["main"].rec
           \/ \E i \in Kinds : x \in Range(elQueue[i]) \/ x \in Kept(elFile'[i])
    BY <1>1 DEF Carried
  <2>2. CASE x = elJob'["writer"].rec \/ x = elJob'["main"].rec
    BY <1>3, <2>1, <2>2, CarriedParts DEF Jobs
  <2>3. CASE \E i \in Kinds : x \in Kept(elFile'[i])
    <3>1. (\E i \in Kinds : x \in Kept(elFile[i])) \/ x = r
      BY <1>10, <2>3
    <3> QED BY <1>12, <2>1, <3>1, CarriedParts
  <2> QED BY <2>1, <2>2, <2>3, CarriedParts
<1>14. ElLinked'
  <2>1. elTrace'.seq >= elTrace.seq
    BY <1>1 DEF ElIndInv, ElShape, Trace
  <2> QED BY <1>1, <1>8, <1>13, <2>1, LinkStep DEF ElIndInv, Chained
<1>15. ElSorted'
  BY <1>1, <1>10, <1>13 DEF Chained, ElSorted
<1>16. ASSUME ~ elRec'.stop
       PROVE  InTurn(elFile'["events"], {elJob'["writer"].rec}, elQueue["events"],
                     {elHand[u] : u \in ElThreads})
  <2>1. InTurn(elFile["events"], {elJob["writer"].rec}, elQueue["events"], {elHand[u] : u \in ElThreads})
    BY <1>11, <1>16 DEF Chained, ElInTurn
  <2>2. j = "writer"
    BY <1>1, <1>11, <1>16 DEF ElIndInv, ElCounted, Jobs
  <2>3. elJob["writer"].rec = r /\ elJob'["writer"].rec = NoRecord
    BY <1>3, <2>2 DEF r
  <2>4. /\ Kept(elFile'["events"]) \subseteq Kept(elFile["events"]) \cup {r}
        /\ InOrder(elFile["events"]) /\ Ahead(Kept(elFile["events"]), {r}) => InOrder(elFile'["events"])
    BY <1>10 DEF Kinds
  <2> QED BY <2>1, <2>3, <2>4, InTurnWritten
<1> QED BY <1>1, <1>11, <1>14, <1>15, <1>16 DEF Chained, ElInTurn

LEMMA ChainInit == ElInit => Chained
<1> SUFFICES ASSUME ElInit PROVE Chained
  OBVIOUS
<1>1. \A k \in Kinds : Range(elQueue[k]) = {} /\ Kept(elFile[k]) = {}
  BY DEF ElInit, Range, Kept
<1>2. Carried = {}
  BY <1>1 DEF ElInit, Carried
<1>3. InOrder(elFile["events"]) /\ Ascending(elQueue["events"])
  BY DEF ElInit, InOrder, Ascending, Kinds
<1>4. NoRecord.key = "none" /\ \A t \in ElThreads : elHand[t] = NoRecord
  BY DEF ElInit, NoRecord
<1>5. elJob["writer"].rec = NoRecord
  BY DEF ElInit
<1> HIDE DEF NoRecord
<1>6. ElInTurn
  BY <1>1, <1>3, <1>4, <1>5 DEF ElInTurn, InTurn, Ahead, Kinds
<1> QED BY <1>1, <1>2, <1>6 DEF Chained, ElLinked, ElSorted

LEMMA ChainStep == ElIndInv /\ ElIndInv' /\ Chained /\ [ElNext]_elVars => Chained'
<1> SUFFICES ASSUME ElIndInv, ElIndInv', Chained, [ElNext]_elVars PROVE Chained'
  OBVIOUS
<1>1. CASE \E t \in ElThreads : ElThread(t)
  BY <1>1, ChainTrace, ChainEnqueue DEF ElThread
<1>2. CASE \E j \in Jobs : ElGet(j) \/ ElWrite(j)
  BY <1>2, ChainGet, ChainWrite
<1>3. ASSUME NEW j \in Jobs, ElEmpty(j) PROVE Chained'
  <2>1. /\ \A i \in Jobs : elJob'[i].rec = elJob[i].rec
        /\ UNCHANGED <<elTrace, elHand, elQueue, elFile, elRec, elCount>>
    BY <1>3 DEF ElEmpty, ElIndInv, ElShape
  <2> QED BY <2>1, ChainKept
<1>4. CASE ElStart
  <2>4. \E p \in {"events", "done"} : elJob' = [elJob EXCEPT !["writer"].pc = p]
    BY <1>4 DEF ElStart
  <2>1. \A i \in Jobs : elJob'[i].rec = elJob[i].rec
    BY <2>4 DEF ElIndInv, ElShape, Jobs
  <2>3. elRec'.stop = elRec.stop /\ UNCHANGED <<elTrace, elHand, elQueue, elCount>>
    BY <1>4 DEF ElStart, ElIndInv, ElShape
  <2>2. \A k \in Kinds : elFile'[k].active = elFile[k].active /\ elFile'[k].old = elFile[k].old
    BY <1>4 DEF ElStart, ElIndInv, ElShape, Files
  <2> QED BY <2>1, <2>2, <2>3, ChainKept
<1>5. CASE ElStop
  <2>1. /\ \A i \in Jobs : elJob'[i].rec = elJob[i].rec
        /\ elRec'.stop /\ UNCHANGED <<elTrace, elHand, elQueue, elFile, elCount>>
    BY <1>5 DEF ElStop, ElIndInv, ElShape
  <2> QED BY <2>1, ChainKept
<1>6. CASE ElClose
  <2>1. elRec'.stop = elRec.stop /\ UNCHANGED <<elTrace, elHand, elQueue, elJob, elCount>>
    BY <1>6 DEF ElClose, ElIndInv, ElShape
  <2>2. \A k \in Kinds : elFile'[k].active = elFile[k].active /\ elFile'[k].old = elFile[k].old
    BY <1>6 DEF ElClose, ElIndInv, ElShape, Files
  <2> QED BY <2>1, <2>2, ChainKept
<1>7. CASE ElDiskBad \/ ElDiskHeals \/ UNCHANGED elVars
  <2>1. UNCHANGED <<elTrace, elHand, elQueue, elFile, elRec, elJob, elCount>>
    BY <1>7 DEF ElDiskBad, ElDiskHeals, elVars
  <2> QED BY <2>1, ChainKept
<1>8. CASE ElIntervalPasses
  <2>1. /\ elTrace'.seq = elTrace.seq /\ elTrace'.lock = elTrace.lock /\ elTrace'.last = elTrace.last
        /\ UNCHANGED <<elHand, elQueue, elFile, elRec, elJob, elCount>>
    BY <1>8 DEF ElIntervalPasses, ElIndInv, ElShape, Trace
  <2> QED BY <2>1, ChainKept
<1> QED BY <1>1, <1>2, <1>3, <1>4, <1>5, <1>6, <1>7, <1>8 DEF ElNext, ElDrainer, Jobs

LEMMA HistoryOfChain == ElIndInv /\ Chained => ElHistory
<1> SUFFICES ASSUME ElIndInv, Chained, ~ elRec.stop PROVE
      LET trail == elFile["events"] IN
      /\ InOrder(trail)
      /\ \A a, b \in Kept(trail) :
           Precedes(a, b) => b.prev = a.val \/ Gapped(a.key, a.n, b.n, Kept(trail))
  BY DEF ElHistory
<1> DEFINE trail == elFile["events"]
           others == {elJob["writer"].rec} \cup Range(elQueue["events"]) \cup {elHand[t] : t \in ElThreads}
<1>1. InOrder(trail) /\ Ahead(Kept(trail), others)
  BY DEF Chained, ElInTurn, InTurn
<1>2. Kept(trail) \subseteq Carried
  <2>1. \A x \in Kept(trail) : x.kind = "events"
    BY DEF Chained, ElSorted, Kinds
  <2>2. NoRecord.kind # "events"
    BY DEF NoRecord
  <2> QED BY <2>1, <2>2, CarriedParts DEF Kinds
<1>3. ASSUME NEW c \in Carried, c.key # "none" PROVE c \in Kept(trail) \cup others
  <2>1. elJob["main"].rec = NoRecord
    BY DEF ElIndInv, ElCounted, JobsHold, Jobs
  <2>2. c.kind = "events"
    BY <1>3 DEF Chained, ElSorted
  <2>3. c \notin Range(elQueue["telemetry"]) \cup Kept(elFile["telemetry"])
    BY <2>2 DEF Chained, ElSorted, Kinds
  <2> QED BY <2>1, <2>3, CarriedParts DEF Kinds
<1>4. ASSUME NEW a \in Kept(trail), NEW b \in Kept(trail), Precedes(a, b), b.prev # a.val
      PROVE  Gapped(a.key, a.n, b.n, Kept(trail))
  <2>1. PICK i \in a.n + 1 .. b.n - 1 : i \in Lost \/ \E c \in Carried : c.n = i /\ c.key = a.key
    BY <1>2, <1>4 DEF Chained, ElLinked, Gapped
  <2>2. CASE i \in Lost
    BY <2>2 DEF Gapped
  <2>3. CASE \E c \in Carried : c.n = i /\ c.key = a.key
    <3>1. PICK c \in Carried : c.n = i /\ c.key = a.key
      BY <2>3
    <3>2. a.key # "none" /\ a.key = b.key
      BY <1>4 DEF Precedes
    <3>3. b.n \in Nat /\ i < b.n
      BY <1>2, <2>1, CarriedTypes DEF CarriedTyped, ElIndInv, Logged
    <3>4. c \notin others
      BY <1>1, <3>1, <3>2, <3>3 DEF Ahead
    <3>5. c \in Kept(trail)
      BY <1>3, <3>1, <3>2, <3>4
    <3> QED BY <3>1, <3>5 DEF Gapped
  <2> QED BY <2>1, <2>2, <2>3
<1> QED BY <1>1, <1>4

LEMMA TrailReached == ElSpec => [](ElIndInv /\ Chained)
BY ElInitInv, ElStep, ChainInit, ChainStep, PTL DEF ElSpec

\* In every reachable state whatever is queued, stored or in somebody's hands
\* has been numbered, no event is missed while the recorder counts, and the
\* events of a key are a chain in the order in which they were accepted.
THEOREM RecorderInvariance == ElSpec => []ElInv
<1>1. ElIndInv /\ Chained => ElInv
  BY NumberedParts DEF ElIndInv, Chained, ElInv
<1> QED BY <1>1, TrailReached, PTL

\* FieldTrace and EventRecorder: until the recorder is stopped, an event that
\* is neither queued nor on disk has been counted, but for a file that a
\* failed rotation has left closed.
THEOREM LossIsCounted == ElSpec => []ElLossIsCounted
<1>1. ElInv => ElLossIsCounted
  BY DEF ElInv, ElCounted, ElLossIsCounted
<1> QED BY <1>1, RecorderInvariance, PTL

\* FieldTrace.transition writes a value and the one it follows, and until the
\* recorder is stopped the files on disk can be read with it: the records of a
\* key stand in the order in which they were accepted, and one that does not
\* continue the value before it has a lost event in between.
THEOREM HistoryIsReadable == ElSpec => []ElHistory
BY TrailReached, HistoryOfChain, PTL
=============================================================================

------------------------------ MODULE EventLog ------------------------------
(* The audit trail of the vehicle bridge. FieldTrace numbers the events of  *)
(* every thread and hands them to EventRecorder, which queues them and lets *)
(* one writer thread append them to two rotating files; control threads are *)
(* never blocked, so every way to lose an event has to be counted instead.  *)
(* bridge_main stops the recorder while the other threads still run.        *)
EXTENDS Naturals, Sequences, SequencesExt, FiniteSetsExt

CONSTANTS
  ElThreads,   \* threads of the bridge that emit events
  ElQueueMax,  \* maxsize of the queues
  ElFileMax,   \* records in a file, for max_bytes
  ElKeep,      \* rotated files that are kept
  ElTotalMax,  \* records in the directory, for max_total_bytes
  ElSeenMax,   \* _MAX_COMMAND_SEEN
  ElEvents,    \* bound: events that are numbered
  ElDiskFaults \* bound: times the disk goes bad

ASSUME ElAssumption ==
  /\ ElQueueMax \in Nat \ {0} /\ ElFileMax \in Nat \ {0} /\ ElKeep \in Nat \ {0}
  /\ {ElTotalMax, ElSeenMax, ElEvents, ElDiskFaults} \subseteq Nat
  /\ "free" \notin ElThreads

VARIABLES
  elTrace,  \* FieldTrace: seq, last value per key, lock, commands seen
  elHand,   \* thread -> the record between its number and the queue
  elQueue,  \* "events", "telemetry" -> the queue
  elFile,   \* "events", "telemetry" -> the file being written and the rotated ones
  elRec,    \* EventRecorder: ready, stop, degraded, disk_available
  elJob,    \* "writer", "main" -> what the thread that drains is doing
  elCount,  \* the counters, by the numbers of the records they count
  elDisk    \* the file system: writable, roomy, faults so far

elVars == <<elTrace, elHand, elQueue, elFile, elRec, elJob, elCount, elDisk>>

Kinds == {"events", "telemetry"}
Values == 0 .. 2
Missing == 9
NoRecord == [n |-> 0, kind |-> "none", key |-> "none", val |-> 0, prev |-> 0]
Record == [n : 0 .. ElEvents, kind : Kinds \cup {"none"},
           key : {"none", "state", "level"}, val : Values, prev : Values \cup {Missing}]
File == [open : BOOLEAN, active : Seq(Record), old : Seq(Seq(Record))]

ElTypeOK ==
  /\ elTrace \in [seq : 0 .. ElEvents, lock : ElThreads \cup {"free"}, cool : BOOLEAN,
                  last : [{"state", "level"} -> Values \cup {Missing}], seen : Seq({"c1", "c2"})]
  /\ elHand \in [ElThreads -> Record]
  /\ elQueue \in [Kinds -> Seq(Record)] /\ \A k \in Kinds : Len(elQueue[k]) <= ElQueueMax
  /\ elFile \in [Kinds -> File]
  /\ elRec \in [ready : BOOLEAN, stop : BOOLEAN, degraded : BOOLEAN, disk : BOOLEAN]
  /\ elJob \in [{"writer", "main"} -> [pc : {"off", "events", "telemetry", "write", "done"}, rec : Record]]
  /\ elCount \in [dropped : SUBSET (1 .. ElEvents), errors : SUBSET (1 .. ElEvents),
                  deleted : SUBSET (1 .. ElEvents)]
  /\ elDisk \in [good : BOOLEAN, roomy : BOOLEAN, faults : 0 .. ElDiskFaults]

ElInit ==
  /\ elTrace = [seq |-> 0, lock |-> "free", cool |-> TRUE, seen |-> <<>>,
                last |-> [k \in {"state", "level"} |-> Missing]]
  /\ elHand = [t \in ElThreads |-> NoRecord]
  /\ elQueue = [k \in Kinds |-> <<>>]
  /\ elFile = [k \in Kinds |-> [open |-> FALSE, active |-> <<>>, old |-> <<>>]]
  /\ elRec = [ready |-> TRUE, stop |-> FALSE, degraded |-> FALSE, disk |-> TRUE]
  /\ elJob = [j \in {"writer", "main"} |-> [pc |-> "off", rec |-> NoRecord]]
  /\ elCount = [dropped |-> {}, errors |-> {}, deleted |-> {}]
  /\ elDisk = [good |-> TRUE, roomy |-> TRUE, faults |-> 0]

-----------------------------------------------------------------------------
(* FieldTrace                                                               *)

\* The record of thread t gets the next number.
Numbered(t, kind, key, val, prev) ==
  /\ elHand[t] = NoRecord
  /\ elTrace.seq < ElEvents
  /\ elHand' = [elHand EXCEPT ![t] = [n |-> elTrace.seq + 1, kind |-> kind,
                                      key |-> key, val |-> val, prev |-> prev]]
  /\ UNCHANGED <<elQueue, elFile, elRec, elJob, elCount, elDisk>>

\* emit: _seq_lock is held for the number only.
ElEmit(t) ==
  /\ Numbered(t, "events", "none", 0, 0)
  /\ elTrace' = [elTrace EXCEPT !.seq = @ + 1]

\* command_received: the times of the last commands, then an event.
ElCommand(t, c) ==
  /\ elTrace.lock = "free"
  /\ Numbered(t, "events", "none", 0, 0)
  /\ LET seen == Append(SelectSeq(elTrace.seen, LAMBDA d : d # c), c) IN
     elTrace' = [elTrace EXCEPT !.seq = @ + 1,
                   !.seen = IF Len(seen) > ElSeenMax THEN Tail(seen) ELSE seen]

\* throttle: one telemetry event per interval; the lock is free again when
\* the event is numbered.
ElThrottle(t) ==
  /\ elTrace.lock = "free" /\ elTrace.cool
  /\ Numbered(t, "telemetry", "none", 0, 0)
  /\ elTrace' = [elTrace EXCEPT !.seq = @ + 1, !.cool = FALSE]

\* Variant: the value is remembered under the lock and announced after it.
ElTransitionUnlocked(t, v) ==
  /\ elTrace.lock = "free" /\ elTrace.last["state"] # v
  /\ Numbered(t, "events", "state", v, elTrace.last["state"])
  /\ elTrace' = [elTrace EXCEPT !.seq = @ + 1, !.last["state"] = v]

\* transition: the lock is held until the event is in the queue.
ElTransition(t, v) ==
  /\ elTrace.lock = "free" /\ elTrace.last["state"] # v
  /\ Numbered(t, "events", "state", v, elTrace.last["state"])
  /\ elTrace' = [elTrace EXCEPT !.seq = @ + 1, !.last["state"] = v, !.lock = t]

\* changed, with a tolerance of 2: a smaller step is not remembered either.
ElChanged(t, v) ==
  LET old == elTrace.last["level"] IN
  /\ elTrace.lock = "free"
  /\ old = Missing \/ v >= old + 2 \/ old >= v + 2
  /\ Numbered(t, "events", "level", v, old)
  /\ elTrace' = [elTrace EXCEPT !.seq = @ + 1, !.last["level"] = v, !.lock = t]

\* enqueue: a full queue and a degraded disk drop the event and count it; a
\* recorder that is not ready ignores it.
ElEnqueue(t) ==
  LET r == elHand[t]
      full == Len(elQueue[r.kind]) >= ElQueueMax
      drop == full \/ (r.kind = "telemetry" /\ elRec.degraded) IN
  /\ r # NoRecord
  /\ elHand' = [elHand EXCEPT ![t] = NoRecord]
  /\ elTrace' = IF elTrace.lock = t THEN [elTrace EXCEPT !.lock = "free"] ELSE elTrace
  /\ elQueue' = IF elRec.ready /\ ~ drop THEN [elQueue EXCEPT ![r.kind] = Append(@, r)] ELSE elQueue
  /\ elCount' = IF elRec.ready /\ drop THEN [elCount EXCEPT !.dropped = @ \cup {r.n}] ELSE elCount
  /\ UNCHANGED <<elFile, elRec, elJob, elDisk>>

-----------------------------------------------------------------------------
(* EventRecorder                                                            *)

\* start: both files are opened, or the recorder is off for good.
ElStart ==
  /\ elJob["writer"].pc = "off" /\ elRec.ready
  /\ IF elDisk.good
     THEN /\ elFile' = [k \in Kinds |-> [elFile[k] EXCEPT !.open = TRUE]]
          /\ elJob' = [elJob EXCEPT !["writer"].pc = "events"]
          /\ UNCHANGED elRec
     ELSE /\ elRec' = [elRec EXCEPT !.ready = FALSE, !.disk = FALSE]
          /\ elJob' = [elJob EXCEPT !["writer"].pc = "done"]
          /\ UNCHANGED elFile
  /\ UNCHANGED <<elTrace, elHand, elQueue, elCount, elDisk>>

\* get: the writer drains the events, then takes one record of telemetry; the
\* main thread drains both when it stops.
ElGet(j) ==
  LET k == elJob[j].pc IN
  /\ k \in Kinds /\ elQueue[k] # <<>>
  /\ elJob' = [elJob EXCEPT ![j] = [pc |-> "write", rec |-> Head(elQueue[k])]]
  /\ elQueue' = [elQueue EXCEPT ![k] = Tail(@)]
  /\ UNCHANGED <<elTrace, elHand, elFile, elRec, elCount, elDisk>>

\* The head of _writer_loop: stop is looked at once a round.
Round == IF elRec.stop THEN "done" ELSE "events"

\* get raises Empty, or has waited for half a second.
ElEmpty(j) ==
  LET k == elJob[j].pc IN
  /\ k \in Kinds /\ elQueue[k] = <<>>
  /\ elJob' = [elJob EXCEPT ![j].pc = IF k = "events" THEN "telemetry"
                                      ELSE IF j = "writer" THEN Round ELSE "done"]
  /\ UNCHANGED <<elTrace, elHand, elQueue, elFile, elRec, elCount, elDisk>>

Numbers(s) == {s[i].n : i \in DOMAIN s}

\* The records that one kind of file holds, oldest first, and their numbers.
Recs(f) == FlattenSeq(Append(f.old, f.active))
Stored(f) == Numbers(f.active) \cup UNION {Numbers(f.old[i]) : i \in DOMAIN f.old}

\* _prune: the oldest rotated files, beyond keep, are removed.
Pruned(f) == [f EXCEPT !.old = SubSeq(@, Len(@) - Min({ElKeep, Len(@)}) + 1, Len(@))]

\* _rotate: when the rename fails the same file is opened again; when the
\* open fails the exception leaves the file closed.
Rotations(f) ==
  LET renamed == [f EXCEPT !.old = Append(@, f.active), !.active = <<>>] IN
  {Pruned(renamed)} \cup
  (IF elDisk.good THEN {} ELSE {f, [renamed EXCEPT !.open = FALSE], [f EXCEPT !.open = FALSE]})

\* Variant: the exception is swallowed where it occurs.
FailedQuietly(g) == {[file |-> g, ok |-> TRUE]}

\* The exception of a failed write reaches _write.
Failed(g) == {[file |-> g, ok |-> FALSE]}

\* write: nothing happens, and nothing is raised, when the file is closed.
\* (The age of a file is one more cause of the same rotation.)
WriteOutcomes(f, r) ==
  LET appended(g) == {[file |-> [g EXCEPT !.active = Append(@, r)], ok |-> TRUE]} IN
  IF ~ f.open THEN {[file |-> f, ok |-> TRUE]}
  ELSE UNION {IF ~ g.open THEN Failed(g)
              ELSE appended(g) \cup (IF elDisk.good THEN {} ELSE Failed(g)) :
              g \in IF Len(f.active) >= ElFileMax THEN Rotations(f) ELSE {f}}

\* What is left when the first j rotated files are removed: those of the
\* telemetry first, then those of the events, oldest first.
Shed(fs, j) ==
  LET t == Min({j, Len(fs["telemetry"].old)})
      first == [telemetry |-> t, events |-> j - t] IN
  [k \in Kinds |-> [fs[k] EXCEPT !.old = SubSeq(@, first[k] + 1, Len(@))]]

\* _check_total_bytes: no more is removed than it takes to respect the total;
\* the active files stay.
Trimmed(fs) ==
  LET all == Len(fs["telemetry"].old) + Len(fs["events"].old)
      enough == {j \in 0 .. all : LET g == Shed(fs, j) IN
                   Len(Recs(g["events"])) + Len(Recs(g["telemetry"])) <= ElTotalMax} IN
  Shed(fs, IF enough = {} THEN all ELSE Min(enough))

\* _write by the writer or, at the end, the main thread: an error degrades the
\* recorder until a write succeeds on a roomy disk.
ElWrite(j) ==
  LET r == elJob[j].rec IN
  /\ elJob[j].pc = "write"
  /\ \E w \in WriteOutcomes(elFile[r.kind], r) :
       LET fs == [elFile EXCEPT ![r.kind] = w.file]
           after == IF w.ok THEN Trimmed(fs) ELSE fs
           gone == UNION {Stored(elFile[k]) \ Stored(after[k]) : k \in Kinds} IN
       /\ elFile' = after
       /\ elCount' = [elCount EXCEPT !.deleted = @ \cup gone,
                                     !.errors = IF w.ok THEN @ ELSE @ \cup {r.n}]
       /\ elRec' = IF ~ w.ok THEN [elRec EXCEPT !.degraded = TRUE, !.disk = FALSE]
                   ELSE IF ~ elRec.degraded \/ elDisk.roomy
                   THEN [elRec EXCEPT !.degraded = FALSE, !.disk = TRUE]
                   ELSE elRec
  /\ elJob' = [elJob EXCEPT ![j] = [pc |-> IF r.kind = "events" THEN "events"
                                           ELSE IF j = "writer" THEN Round ELSE "telemetry",
                                    rec |-> NoRecord]]
  /\ UNCHANGED <<elTrace, elHand, elQueue, elDisk>>

\* stop, called by the main thread when the uplinks are shut down.
ElStop ==
  /\ elJob["main"].pc = "off" /\ elJob["writer"].pc # "off"
  /\ elRec' = [elRec EXCEPT !.stop = TRUE]
  /\ elJob' = [elJob EXCEPT !["main"].pc = "events"]
  /\ UNCHANGED <<elTrace, elHand, elQueue, elFile, elCount, elDisk>>

ElClose ==
  /\ elJob["main"].pc = "done" /\ elRec.ready
  /\ elFile' = [k \in Kinds |-> [elFile[k] EXCEPT !.open = FALSE]]
  /\ elRec' = [elRec EXCEPT !.ready = FALSE]
  /\ UNCHANGED <<elTrace, elHand, elQueue, elJob, elCount, elDisk>>

\* The disk is read-only or full for a while; room comes back after that.
ElDiskBad ==
  /\ elDisk.good /\ elDisk.faults < ElDiskFaults
  /\ elDisk' = [good |-> FALSE, roomy |-> FALSE, faults |-> elDisk.faults + 1]
  /\ UNCHANGED <<elTrace, elHand, elQueue, elFile, elRec, elJob, elCount>>

ElDiskHeals ==
  /\ ~ (elDisk.good /\ elDisk.roomy)
  /\ elDisk' = [elDisk EXCEPT !.good = TRUE, !.roomy = elDisk.good]
  /\ UNCHANGED <<elTrace, elHand, elQueue, elFile, elRec, elJob, elCount>>

ElIntervalPasses ==
  /\ ~ elTrace.cool
  /\ elTrace' = [elTrace EXCEPT !.cool = TRUE]
  /\ UNCHANGED <<elHand, elQueue, elFile, elRec, elJob, elCount, elDisk>>

ElThread(t) ==
  \/ ElEmit(t) \/ ElThrottle(t) \/ ElEnqueue(t)
  \/ \E c \in {"c1", "c2"} : ElCommand(t, c)
  \/ \E v \in Values : ElTransition(t, v) \/ ElChanged(t, v)

ElDrainer(j) == ElGet(j) \/ ElEmpty(j) \/ ElWrite(j)

ElNext ==
  \/ \E t \in ElThreads : ElThread(t)
  \/ \E j \in {"writer", "main"} : ElDrainer(j)
  \/ ElStart \/ ElStop \/ ElClose
  \/ ElDiskBad \/ ElDiskHeals \/ ElIntervalPasses

ElSpec == ElInit /\ [][ElNext]_elVars

-----------------------------------------------------------------------------
(* Properties                                                               *)

\* Where an event can be found, or is known not to be.
Located(n) ==
  \/ \E t \in ElThreads : elHand[t].n = n
  \/ \E j \in {"writer", "main"} : elJob[j].rec.n = n
  \/ \E k \in Kinds : n \in Numbers(elQueue[k]) \/ n \in Stored(elFile[k])
  \/ n \in elCount.dropped \/ n \in elCount.errors \/ n \in elCount.deleted

Missed == {n \in 1 .. elTrace.seq : ~ Located(n)}

\* "Any mkdir, permission, read-only disk or write failure degrades": until
\* the recorder is stopped, an event that is neither queued nor on disk has
\* been counted as dropped, as a write error or as deleted by the retention,
\* through every interleaving of threads, writer, rotation and disk failures;
\* the one exception is a file that a failed rotation has left closed.
ElLossIsCounted ==
  elRec.ready /\ ~ elRec.stop /\ (\A k \in Kinds : elFile[k].open) => Missed = {}

\* What is on disk of one kind of file.
Kept(f) == Range(f.active) \cup UNION {Range(f.old[g]) : g \in DOMAIN f.old}

\* Numbers whose events are on no way to the disk, and not on it.
Lost == elCount.dropped \cup elCount.errors \cup elCount.deleted \cup Missed

\* Two events of one key, the first with the smaller number.
Precedes(a, b) == a.key = b.key /\ a.key # "none" /\ a.n < b.n

\* Between the numbers m and n an event was lost, or key has one in records.
Gapped(key, m, n, records) ==
  \E i \in m + 1 .. n - 1 : i \in Lost \/ \E c \in records : c.n = i /\ c.key = key

\* The events of a key have ascending numbers, within a sequence and from one
\* set of records to another.
Ascending(s) == \A i, j \in DOMAIN s :
                  i < j /\ s[i].key = s[j].key /\ s[i].key # "none" => s[i].n < s[j].n
Ahead(S, T) == \A a \in S : \A b \in T : a.key = b.key /\ a.key # "none" => a.n < b.n

InOrder(f) ==
  /\ Ascending(f.active)
  /\ \A g \in DOMAIN f.old : Ascending(f.old[g]) /\ Ahead(Range(f.old[g]), Range(f.active))
  /\ \A g, h \in DOMAIN f.old : g < h => Ahead(Range(f.old[g]), Range(f.old[h]))

\* The trail of a key on disk can be read as a history: its events are there
\* in the order in which they happened, and each names as its predecessor the
\* value of the event before it, unless an event between the two is lost. It
\* takes the lock of transition and changed to be held until the event is
\* queued, one writer, and first-in first-out queues.
ElHistory ==
  LET trail == elFile["events"] IN
  ~ elRec.stop =>
    /\ InOrder(trail)
    /\ \A a, b \in Kept(trail) :
         Precedes(a, b) => b.prev = a.val \/ Gapped(a.key, a.n, b.n, Kept(trail))

-----------------------------------------------------------------------------
(* The inductive strengthening                                             *)

\* An event that has been numbered.
Logged == [n : 1 .. ElEvents, kind : Kinds, key : {"none", "state", "level"},
           val : Values, prev : Values \cup {Missing}]

\* Whatever is queued, stored or in somebody's hands has been numbered, and
\* only a thread that is about to write holds a record.
ElNumbered ==
  /\ \A t \in ElThreads : elHand[t] \in Logged \cup {NoRecord}
  /\ \A k \in Kinds : elQueue[k] \in Seq(Logged) /\ elFile[k].active \in Seq(Logged)
                      /\ elFile[k].old \in Seq(Seq(Logged))
  /\ \A j \in {"writer", "main"} :
       IF elJob[j].pc = "write" THEN elJob[j].rec \in Logged ELSE elJob[j].rec = NoRecord

\* Nothing is missed before the writer has started, and then until the
\* recorder is stopped or a rotation has left a file closed; the main thread
\* drains the queues only after it has stopped the recorder.
ElCounted ==
  /\ elRec.ready /\ ~ elRec.stop
     /\ (elJob["writer"].pc = "off" \/ \A k \in Kinds : elFile[k].open) => Missed = {}
  /\ elJob["main"].pc # "off" => elRec.stop

\* The records on their way to the disk or on it.
Carried ==
  ({elHand[t] : t \in ElThreads} \cup {elJob[j].rec : j \in {"writer", "main"}}
   \cup UNION {Range(elQueue[k]) \cup Kept(elFile[k]) : k \in Kinds}) \ {NoRecord}

\* A number is given once, and the events of a key are a chain with gaps only
\* where one is lost; its end is the value that FieldTrace remembers.
ElLinked ==
  /\ \A r \in Carried : r.n <= elTrace.seq
  /\ \A r, s \in Carried : r.n = s.n => r = s
  /\ \A a, b \in Carried :
       Precedes(a, b) => b.prev = a.val \/ Gapped(a.key, a.n, b.n, Carried)
  /\ \A a \in Carried :
       a.key # "none" => \/ elTrace.last[a.key] = a.val
                         \/ Gapped(a.key, a.n, elTrace.seq + 1, Carried)

\* Only events have a key, and they are not mixed with telemetry.
ElSorted ==
  /\ \A k \in Kinds : \A r \in Range(elQueue[k]) \cup Kept(elFile[k]) : r.kind = k
  /\ \A r \in Carried : r.key # "none" => r.kind = "events"

\* The events of a key are on disk, written, queued and held in this order.
InTurn(trail, written, queue, held) ==
  /\ InOrder(trail) /\ Ascending(queue)
  /\ Ahead(Kept(trail), written \cup Range(queue) \cup held)
  /\ Ahead(written, Range(queue) \cup held) /\ Ahead(Range(queue), held)

\* They are so as long as only the writer drains the queues; and it is the
\* thread with the lock that holds one.
ElInTurn ==
  ~ elRec.stop =>
    /\ InTurn(elFile["events"], {elJob["writer"].rec}, elQueue["events"],
              {elHand[t] : t \in ElThreads})
    /\ \A t \in ElThreads : elHand[t].key # "none" => elTrace.lock = t

ElInv == ElNumbered /\ ElCounted /\ ElLinked /\ ElSorted /\ ElInTurn
=============================================================================

--------------------------- MODULE IngressSession ---------------------------
(* The MQTT ingress as the guard of the boot session, of the sequence and   *)
(* of the online state of one robot, and the worker loop that ages that     *)
(* state: services/mqtt-ingress/main.py (process, accept_boot_session,      *)
(* update_online) and services/task-worker/main.py (reconcile_robot_states).*)
(*                                                                         *)
(* Boots are numbered in the order the vehicle starts them; the platform    *)
(* sees opaque identifiers and never compares them.                         *)
EXTENDS Integers, FiniteSets

CONSTANTS
  IsMaxBoots,  \* bound: starts of the vehicle process
  IsMaxMsgs,   \* bound: messages the vehicle sends
  IsMaxFaults  \* bound: ingress crashes and failed transactions

ASSUME IsAssumption == /\ IsMaxBoots \in Nat \ {0}
                       /\ IsMaxMsgs \in Nat \ {0}
                       /\ IsMaxFaults \in Nat

VARIABLES
  isVehicle,  \* the boot the vehicle runs and the last seq it used per kind
  isNet,      \* messages the broker may still deliver, late or again
  isBoot,     \* robots.boot_id (0: null)
  isRows,     \* boots with a row in robot_boot_sessions
  isEnded,    \* boots whose row has ended_at
  isOnline,   \* robots.online_state
  isSeen,     \* age of robots.last_seen_at
  isDedup,    \* dedup:message:* keys in Redis
  isPending,  \* dedup:pending:* keys in Redis
  isSeq,      \* seq:* keys in Redis
  isTxn,      \* the message on_message is processing
  isWrk,      \* what the open transaction of the worker will write
  isWord,     \* the last liveness message that was handled
  isTop,      \* highest seq handled per boot and kind
  isRepeats,  \* lanes where a message was handled after it or a later one
  isHit,      \* lanes where the process died between commit and marks
  isFaults

isVars == <<isVehicle, isNet, isBoot, isRows, isEnded, isOnline, isSeen, isDedup,
            isPending, isSeq, isTxn, isWrk, isWord, isTop, isRepeats, isHit,
            isFaults>>

netVars == <<isVehicle, isNet>>
sessVars == <<isBoot, isRows, isEnded>>
keyVars == <<isDedup, isPending, isSeq>>
histVars == <<isWord, isTop, isRepeats, isHit>>

IsBoots == 1 .. IsMaxBoots
Sequenced == {"heartbeat", "report"}   \* report: location, status, task_status, ...
Availability == {"online", "offline"}
Lanes == IsBoots \X Sequenced

IsMsgs == [boot : IsBoots, kind : Sequenced, seq : 1 .. IsMaxMsgs]
          \cup [boot : IsBoots, kind : Availability, seq : {0}]

Ages == {"never", "fresh", "stale", "old"}
OnlineStates == {"ONLINE", "STALE", "OFFLINE"}
NoMsg == [pc |-> "idle"]

IsTypeOK ==
  /\ isVehicle \in [boot : IsBoots, seq : [Sequenced -> 0 .. IsMaxMsgs]]
  /\ isNet \subseteq IsMsgs
  /\ isBoot \in {0} \cup IsBoots
  /\ isRows \subseteq IsBoots /\ isEnded \subseteq isRows
  /\ isOnline \in OnlineStates /\ isSeen \in Ages
  /\ isDedup \subseteq IsMsgs /\ isPending \subseteq IsMsgs
  /\ isSeq \in [Lanes -> 0 .. IsMaxMsgs]
  /\ isTxn \in {NoMsg} \cup [pc : {"open", "committed"}, m : IsMsgs,
                              accepted : BOOLEAN]
  /\ isWrk \in {"none"} \cup OnlineStates
  /\ isWord \in {"none"} \cup Availability \cup {"heartbeat"}
  /\ isTop \in [Lanes -> 0 .. IsMaxMsgs]
  /\ isRepeats \subseteq Lanes /\ isHit \subseteq Lanes
  /\ isFaults \in 0 .. IsMaxFaults

IsInit ==
  /\ isVehicle = [boot |-> 1, seq |-> [k \in Sequenced |-> 0]]
  /\ isNet = {}
  /\ isBoot = 0 /\ isRows = {} /\ isEnded = {}
  /\ isOnline = "OFFLINE" /\ isSeen = "never"
  /\ isDedup = {} /\ isPending = {}
  /\ isSeq = [l \in Lanes |-> 0]
  /\ isTxn = NoMsg /\ isWrk = "none"
  /\ isWord = "none" /\ isTop = [l \in Lanes |-> 0]
  /\ isRepeats = {} /\ isHit = {}
  /\ isFaults = 0

-----------------------------------------------------------------------------
(* The vehicle and the broker. A message stays in isNet: the broker may     *)
(* repeat it, deliver it after later ones or never.                         *)

IsSend(k) ==
  /\ Cardinality(isNet) < IsMaxMsgs
  /\ isVehicle' = [isVehicle EXCEPT !.seq[k] = @ + 1]
  /\ isNet' = isNet \cup {[boot |-> isVehicle.boot, kind |-> k,
                           seq |-> isVehicle.seq[k] + 1]}
  /\ UNCHANGED <<sessVars, isOnline, isSeen, keyVars, isTxn, isWrk, histVars,
                 isFaults>>

\* The availability messages of a boot are fixed before it connects.
IsAnnounce(k) ==
  LET m == [boot |-> isVehicle.boot, kind |-> k, seq |-> 0] IN
  /\ m \notin isNet /\ Cardinality(isNet) < IsMaxMsgs
  /\ isNet' = isNet \cup {m}
  /\ UNCHANGED <<isVehicle, sessVars, isOnline, isSeen, keyVars, isTxn, isWrk,
                 histVars, isFaults>>

IsReboot ==
  /\ isVehicle.boot < IsMaxBoots
  /\ isVehicle' = [boot |-> isVehicle.boot + 1, seq |-> [k \in Sequenced |-> 0]]
  /\ UNCHANGED <<isNet, sessVars, isOnline, isSeen, keyVars, isTxn, isWrk,
                 histVars, isFaults>>

-----------------------------------------------------------------------------
(* process(): the Redis checks, the transaction, the Redis marks            *)

\* availability is neither ordered by seq nor remembered by message_id.
Remembered(m) == m.kind \in Sequenced /\ m \in isDedup
OutOfOrder(m) == m.kind \in Sequenced /\ m.seq <= isSeq[<<m.boot, m.kind>>]

IsReceive(m) ==
  /\ isTxn = NoMsg
  /\ m \in isNet
  /\ ~ Remembered(m) /\ m \notin isPending
  /\ IF OutOfOrder(m)
       THEN isDedup' = isDedup \cup {m} /\ UNCHANGED <<isPending, isTxn>>
       ELSE /\ isPending' = isPending \cup {m}
            /\ isTxn' = [pc |-> "open", m |-> m, accepted |-> FALSE]
            /\ UNCHANGED isDedup
  /\ UNCHANGED <<netVars, sessVars, isOnline, isSeen, isSeq, isWrk, histVars,
                 isFaults>>

Establishes(m) == m.kind \in {"online", "offline", "heartbeat"}

\* Variant: any message of a boot that has not ended establishes it again.
AcceptsAnyBoot(m) == m.boot = isBoot \/ Establishes(m)

AcceptsBoot(m) == \/ m.boot = isBoot
                  \/ m.boot \notin isEnded /\ Establishes(m)

\* accept_boot_session: the new boot ends the session row of the current one.
EndedBy(m) == IF isBoot # 0 /\ m.boot # isBoot THEN isRows \cap {isBoot} ELSE {}

\* update_online, for a heartbeat and an availability message.
Handle(m) ==
  /\ IF m.kind = "report" THEN UNCHANGED <<isOnline, isSeen, isWord>>
     ELSE /\ isOnline' = IF m.kind = "offline" THEN "OFFLINE" ELSE "ONLINE"
          /\ isSeen' = "fresh"
          /\ isWord' = m.kind
  /\ IF m.kind \in Availability THEN UNCHANGED <<isTop, isRepeats>>
     ELSE LET l == <<m.boot, m.kind>> IN
          IF m.seq > isTop[l]
            THEN isTop' = [isTop EXCEPT ![l] = m.seq] /\ UNCHANGED isRepeats
            ELSE isRepeats' = isRepeats \cup {l} /\ UNCHANGED isTop

IsCommit ==
  /\ isTxn.pc = "open"
  /\ LET m == isTxn.m  ok == AcceptsBoot(m) IN
     /\ isTxn' = [pc |-> "committed", m |-> m, accepted |-> ok]
     /\ IF ok
          THEN /\ isEnded' = isEnded \cup EndedBy(m)
               /\ isRows' = isRows \cup {m.boot}
               /\ isBoot' = m.boot
               /\ Handle(m)
          ELSE UNCHANGED <<sessVars, isOnline, isSeen, isWord, isTop, isRepeats>>
  /\ UNCHANGED <<netVars, keyVars, isWrk, isHit, isFaults>>

\* Variant: the seq of the message is not stored.
FinishWithoutSeq ==
  /\ isTxn.pc = "committed"
  /\ isDedup' = IF isTxn.m.kind \in Sequenced THEN isDedup \cup {isTxn.m}
                                              ELSE isDedup
  /\ isPending' = isPending \ {isTxn.m}
  /\ isTxn' = NoMsg
  /\ UNCHANGED <<netVars, sessVars, isOnline, isSeen, isSeq, isWrk, histVars,
                 isFaults>>

\* The marks that make a redelivery recognisable, after the commit.
IsFinish ==
  /\ isTxn.pc = "committed"
  /\ isDedup' = IF isTxn.m.kind \in Sequenced THEN isDedup \cup {isTxn.m}
                                              ELSE isDedup
  /\ isSeq' = IF isTxn.accepted /\ isTxn.m.kind \in Sequenced
                THEN [isSeq EXCEPT ![<<isTxn.m.boot, isTxn.m.kind>>] = isTxn.m.seq]
                ELSE isSeq
  /\ isPending' = isPending \ {isTxn.m}
  /\ isTxn' = NoMsg
  /\ UNCHANGED <<netVars, sessVars, isOnline, isSeen, isWrk, histVars, isFaults>>

\* The transaction fails: the pending mark goes, the message may be retried.
IsTxnFails ==
  /\ isTxn.pc = "open" /\ isFaults < IsMaxFaults
  /\ isFaults' = isFaults + 1
  /\ isPending' = isPending \ {isTxn.m}
  /\ isTxn' = NoMsg
  /\ UNCHANGED <<netVars, sessVars, isOnline, isSeen, isDedup, isSeq, isWrk,
                 histVars>>

\* The process dies before or after the commit: the pending mark stays.
IsCrash ==
  /\ isTxn # NoMsg /\ isFaults < IsMaxFaults
  /\ isFaults' = isFaults + 1
  /\ isTxn' = NoMsg
  /\ isHit' = IF isTxn.pc = "committed" /\ isTxn.m.kind \in Sequenced
                THEN isHit \cup {<<isTxn.m.boot, isTxn.m.kind>>} ELSE isHit
  /\ UNCHANGED <<netVars, sessVars, isOnline, isSeen, keyVars, isWrk, isWord,
                 isTop, isRepeats>>

\* Redis keys expire (pending after 30 s, dedup after DEDUP_TTL_SECONDS).
IsKeyExpires(m) ==
  /\ \/ m \in isPending /\ isTxn = NoMsg /\ isPending' = isPending \ {m}
        /\ UNCHANGED isDedup
     \/ m \in isDedup /\ isDedup' = isDedup \ {m} /\ UNCHANGED isPending
  /\ UNCHANGED <<netVars, sessVars, isOnline, isSeen, isSeq, isTxn, isWrk,
                 histVars, isFaults>>

-----------------------------------------------------------------------------
(* reconcile_robot_states                                                  *)

StateOfAge(a) == IF a = "fresh" THEN "ONLINE"
                 ELSE IF a = "stale" THEN "STALE" ELSE "OFFLINE"

\* Variant: only a robot shown ONLINE is reconciled.
ReconcileOnlineOnly ==
  /\ isWrk = "none"
  /\ isOnline = "ONLINE" /\ StateOfAge(isSeen) # isOnline
  /\ isWrk' = StateOfAge(isSeen)
  /\ UNCHANGED <<netVars, sessVars, isOnline, isSeen, keyVars, isTxn, histVars,
                 isFaults>>

\* The worker reads last_seen_at and decides ...
IsReconcileRead ==
  /\ isWrk = "none"
  /\ StateOfAge(isSeen) # isOnline
  /\ isWrk' = StateOfAge(isSeen)
  /\ UNCHANGED <<netVars, sessVars, isOnline, isSeen, keyVars, isTxn, histVars,
                 isFaults>>

\* ... and commits what it decided, over what the ingress wrote meanwhile.
IsReconcileCommit ==
  /\ isWrk # "none"
  /\ isOnline' = isWrk
  /\ isWrk' = "none"
  /\ UNCHANGED <<netVars, sessVars, isSeen, keyVars, isTxn, histVars, isFaults>>

IsReconcileFails ==
  /\ isWrk # "none" /\ isFaults < IsMaxFaults
  /\ isFaults' = isFaults + 1
  /\ isWrk' = "none"
  /\ UNCHANGED <<netVars, sessVars, isOnline, isSeen, keyVars, isTxn, histVars>>

\* last_seen_at passes stale_seconds, then offline_seconds.
IsAges ==
  /\ isSeen \in {"fresh", "stale"}
  /\ isSeen' = IF isSeen = "fresh" THEN "stale" ELSE "old"
  /\ UNCHANGED <<netVars, sessVars, isOnline, keyVars, isTxn, isWrk, histVars,
                 isFaults>>

-----------------------------------------------------------------------------

IsNext ==
  \/ \E k \in Sequenced : IsSend(k)
  \/ \E k \in Availability : IsAnnounce(k)
  \/ IsReboot
  \/ \E m \in isNet : IsReceive(m) \/ IsKeyExpires(m)
  \/ IsCommit \/ IsFinish \/ IsTxnFails \/ IsCrash
  \/ IsReconcileRead \/ IsReconcileCommit \/ IsReconcileFails
  \/ IsAges

IsSpec == IsInit /\ [][IsNext]_isVars

-----------------------------------------------------------------------------
(* Properties                                                              *)

\* "Mock reboot changes boot_id": a boot session that accept_boot_session has
\* ended never becomes the session of the robot again, whatever the broker
\* repeats or delays.
IsEndedNeverBack == isBoot \notin isEnded

\* seq is monotonic within boot and topic: a message that is late, repeated
\* or whose dedup key expired is not handled after a later one; only a crash
\* between the commit and the marks of that topic lets one through.
IsInOrder == isRepeats \subseteq isHit

\* A robot that falls silent is in the end shown STALE, then OFFLINE, and
\* stays so, against every transaction that overwrites the state meanwhile.
IsSilenceShows ==
  /\ <>[](isSeen = "stale") => <>[](isOnline = "STALE")
  /\ <>[](isSeen = "old") => <>[](isOnline = "OFFLINE")

\* "Every offline must take effect": a robot whose last word was offline is
\* not shown ONLINE.
IsOfflineStands == isWord = "offline" => isOnline # "ONLINE"

-----------------------------------------------------------------------------
(* The inductive strengthening, without the bounds of the runs             *)

LaneOf(m) == <<m.boot, m.kind>>
AnyMsgs == [boot : IsBoots, kind : Sequenced, seq : Nat]
           \cup [boot : IsBoots, kind : Availability, seq : {0}]

IsData ==
  /\ isVehicle \in [boot : IsBoots, seq : [Sequenced -> Nat]]
  /\ isNet \subseteq AnyMsgs
  /\ isSeq \in [Lanes -> Nat]
  /\ isTop \in [Lanes -> Nat]
  /\ isTxn \in {NoMsg} \cup [pc : {"open", "committed"}, m : AnyMsgs,
                              accepted : BOOLEAN]

\* What is processed was ahead of the stored seq, and still is.
IsAhead ==
  isTxn.pc # "idle" /\ isTxn.m.kind \in Sequenced =>
    isTxn.m.seq > isSeq[LaneOf(isTxn.m)]

\* Committed, and on its way to the marks.
Unmarked(l) == /\ isTxn.pc = "committed" /\ isTxn.accepted
               /\ isTxn.m.kind \in Sequenced /\ l = LaneOf(isTxn.m)
               /\ isTop[l] <= isTxn.m.seq

\* Nothing that was handled is above the stored seq, but what is not marked.
IsMarked == \A l \in Lanes \ isHit : isTop[l] <= isSeq[l] \/ Unmarked(l)

IsInv == IsData /\ IsAhead /\ IsMarked /\ IsInOrder /\ IsEndedNeverBack

=============================================================================

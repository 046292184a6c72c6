----------------------------- MODULE ManualLease -----------------------------
(* The manual control lease of one robot: a key in Redis with a TTL and a   *)
(* row of manual_control_sessions in PostgreSQL that must tell the same     *)
(* story. Modelled: acquire, release and force release of                   *)
(* modules/robots/router.py, the emergency stop of modules/commands/        *)
(* router.py, release_user_leases of core/websocket.py, the reboot of       *)
(* mqtt-ingress and the two worker loops that end sessions.                 *)
(*                                                                         *)
(* queue_redis_delete deletes the KEY after the commit, whatever lease it    *)
(* holds by then; Redis may fail in that moment (core/events.py swallows    *)
(* the error) and the process may die.                                      *)
EXTENDS Integers, FiniteSets

CONSTANTS
  MlLeases,    \* bound: leases ever requested; the id is a fresh uuid
  MlActors,    \* requests and loops that end leases, at the same time
  NoLease,     \* the key does not exist
  MlMaxFaults  \* bound: crashes, failed commits, Redis errors

ASSUME MlAssumption == NoLease \notin MlLeases /\ MlMaxFaults \in Nat

VARIABLES
  mlKey,      \* manual:lease:<robot>
  mlSession,  \* manual_control_sessions.state by lease
  mlAcq,      \* acquire_lease: how far the request for the lease is
  mlEnd,      \* what each ending actor read and where it is
  mlLost,     \* leases whose deletion was lost after the commit
  mlFaults

mlVars == <<mlKey, mlSession, mlAcq, mlEnd, mlLost, mlFaults>>

Ended == {"RELEASED", "FORCE_RELEASED", "EXPIRED"}
NoEnd == [pc |-> "idle"]

MlTypeOK ==
  /\ mlKey \in {NoLease} \cup MlLeases
  /\ mlSession \in [MlLeases -> {"NONE", "HELD"} \cup Ended]
  /\ mlAcq \in [MlLeases -> {"new", "set", "undo", "done"}]
  /\ mlEnd \in [MlActors -> {NoEnd} \cup
                  [pc : {"read", "drop", "delete"}, lease : MlLeases,
                   held : BOOLEAN, to : Ended]]
  /\ mlLost \subseteq MlLeases
  /\ mlFaults \in 0 .. MlMaxFaults

MlInit ==
  /\ mlKey = NoLease
  /\ mlSession = [l \in MlLeases |-> "NONE"]
  /\ mlAcq = [l \in MlLeases |-> "new"]
  /\ mlEnd = [a \in MlActors |-> NoEnd]
  /\ mlLost = {} /\ mlFaults = 0

Fault == mlFaults < MlMaxFaults /\ mlFaults' = mlFaults + 1

-----------------------------------------------------------------------------
(* acquire_lease                                                           *)

\* SET NX EX: the conflict answer leaves nothing behind.
MlSet(l) ==
  /\ mlAcq[l] = "new"
  /\ mlKey = NoLease
  /\ mlKey' = l
  /\ mlAcq' = [mlAcq EXCEPT ![l] = "set"]
  /\ UNCHANGED <<mlSession, mlEnd, mlLost, mlFaults>>

MlCommit(l) ==
  /\ mlAcq[l] = "set"
  /\ mlSession' = [mlSession EXCEPT ![l] = "HELD"]
  /\ mlAcq' = [mlAcq EXCEPT ![l] = "done"]
  /\ UNCHANGED <<mlKey, mlEnd, mlLost, mlFaults>>

\* The commit raises: the handler deletes the key, by now perhaps of another.
MlCommitFails(l) ==
  /\ mlAcq[l] = "set"
  /\ Fault
  /\ mlAcq' = [mlAcq EXCEPT ![l] = "undo"]
  /\ UNCHANGED <<mlKey, mlSession, mlEnd, mlLost>>

MlUndo(l) ==
  /\ mlAcq[l] = "undo"
  /\ mlKey' = NoLease
  /\ mlAcq' = [mlAcq EXCEPT ![l] = "done"]
  /\ UNCHANGED <<mlSession, mlEnd, mlLost, mlFaults>>

\* The API process dies between SET and commit: a key without a session.
MlAcquireCrash(l) ==
  /\ mlAcq[l] \in {"set", "undo"}
  /\ Fault
  /\ mlAcq' = [mlAcq EXCEPT ![l] = "done"]
  /\ mlLost' = mlLost \cup {l}
  /\ UNCHANGED <<mlKey, mlSession, mlEnd>>

-----------------------------------------------------------------------------
(* Ending a lease                                                          *)

\* Every way reads the key and the session row of the lease it names:
\* release_lease (RELEASED), force_release_lease, the emergency stop and a
\* reboot (FORCE_RELEASED), a robot that went STALE or OFFLINE (EXPIRED).
MlEndRead(a, to) ==
  /\ mlEnd[a] = NoEnd
  /\ mlKey # NoLease
  /\ mlEnd' = [mlEnd EXCEPT ![a] = [pc |-> "read", lease |-> mlKey, to |-> to,
                                    held |-> mlSession[mlKey] = "HELD"]]
  /\ UNCHANGED <<mlKey, mlSession, mlAcq, mlLost, mlFaults>>

\* release_user_leases deletes the key before it has committed anything.
MlDropRead(a) ==
  /\ mlEnd[a] = NoEnd
  /\ mlKey # NoLease
  /\ mlKey' = NoLease
  /\ mlEnd' = [mlEnd EXCEPT ![a] = [pc |-> "drop", lease |-> mlKey,
                                    to |-> "FORCE_RELEASED",
                                    held |-> mlSession[mlKey] = "HELD"]]
  /\ UNCHANGED <<mlSession, mlAcq, mlLost, mlFaults>>

\* The commit, in which the session ends if it was read HELD, ...
MlEndCommit(a) ==
  LET e == mlEnd[a] IN
  /\ e.pc \in {"read", "drop"}
  /\ mlSession' = IF e.held THEN [mlSession EXCEPT ![e.lease] = e.to] ELSE mlSession
  /\ mlEnd' = [mlEnd EXCEPT ![a] = IF e.pc = "drop" THEN NoEnd
                                   ELSE [@ EXCEPT !.pc = "delete"]]
  /\ UNCHANGED <<mlKey, mlAcq, mlLost, mlFaults>>

\* Variant: the key is deleted only while its session is still HELD.
DeleteOnlyHeld(a) ==
  /\ mlEnd[a].pc = "delete"
  /\ mlKey' = IF mlKey # NoLease /\ mlSession[mlKey] # "HELD" THEN mlKey ELSE NoLease
  /\ mlEnd' = [mlEnd EXCEPT ![a] = NoEnd]
  /\ UNCHANGED <<mlSession, mlAcq, mlLost, mlFaults>>

\* ... and the queued deletion after it.
MlEndDelete(a) ==
  /\ mlEnd[a].pc = "delete"
  /\ mlKey' = NoLease
  /\ mlEnd' = [mlEnd EXCEPT ![a] = NoEnd]
  /\ UNCHANGED <<mlSession, mlAcq, mlLost, mlFaults>>

\* The transaction fails; nothing that was queued happens.
MlEndFails(a) ==
  /\ mlEnd[a].pc \in {"read", "drop"}
  /\ Fault
  /\ mlEnd' = [mlEnd EXCEPT ![a] = NoEnd]
  /\ UNCHANGED <<mlKey, mlSession, mlAcq, mlLost>>

\* Redis is away, or the process dies, after the commit.
MlDeleteLost(a) ==
  /\ mlEnd[a].pc = "delete"
  /\ Fault
  /\ mlLost' = mlLost \cup {mlEnd[a].lease}
  /\ mlEnd' = [mlEnd EXCEPT ![a] = NoEnd]
  /\ UNCHANGED <<mlKey, mlSession, mlAcq>>

\* The TTL runs out: no pulse has renewed the key.
MlTtl ==
  /\ mlKey # NoLease
  /\ mlKey' = NoLease
  /\ UNCHANGED <<mlSession, mlAcq, mlEnd, mlLost, mlFaults>>

\* Variant: the test for the key is inverted.
ExpireWithKey(a, l) ==
  /\ mlEnd[a] = NoEnd
  /\ mlSession[l] = "HELD"
  /\ mlKey # NoLease
  /\ mlEnd' = [mlEnd EXCEPT ![a] = [pc |-> "drop", lease |-> l, to |-> "EXPIRED",
                                    held |-> TRUE]]
  /\ UNCHANGED <<mlKey, mlSession, mlAcq, mlLost, mlFaults>>

\* expire_sessions_and_commands: expires_at is never moved by a renewal, so
\* the existence of the key, of whichever lease, decides.
MlExpireRead(a, l) ==
  /\ mlEnd[a] = NoEnd
  /\ mlSession[l] = "HELD"
  /\ mlKey = NoLease
  /\ mlEnd' = [mlEnd EXCEPT ![a] = [pc |-> "drop", lease |-> l, to |-> "EXPIRED",
                                    held |-> TRUE]]
  /\ UNCHANGED <<mlKey, mlSession, mlAcq, mlLost, mlFaults>>

-----------------------------------------------------------------------------

MlActor(a) ==
  \/ \E to \in Ended : MlEndRead(a, to)
  \/ \E l \in MlLeases : MlExpireRead(a, l)
  \/ MlDropRead(a) \/ MlEndCommit(a) \/ MlEndDelete(a)
  \/ MlEndFails(a) \/ MlDeleteLost(a)

MlNext ==
  \/ \E l \in MlLeases : MlSet(l) \/ MlCommit(l) \/ MlCommitFails(l)
                         \/ MlUndo(l) \/ MlAcquireCrash(l)
  \/ \E a \in MlActors : MlActor(a)
  \/ MlTtl

MlSpec == MlInit /\ [][MlNext]_mlVars

-----------------------------------------------------------------------------
(* Properties                                                              *)

Opening == {l \in MlLeases : mlAcq[l] \in {"set", "undo"}}
Closing == {mlEnd[a].lease : a \in {b \in MlActors : mlEnd[b].pc # "idle"}}

\* A lease that can drive the robot has a session row that says HELD, except
\* for the moment a request that opens or ends it takes, or when such a
\* request was cut off by a fault. Nothing else leaves a live lease behind an
\* ended session.
MlLeaseBacked ==
  mlKey # NoLease => \/ mlSession[mlKey] = "HELD"
                     \/ mlKey \in Opening \cup Closing \cup mlLost

\* A session whose lease is gone does not stay HELD for ever.
MlHeldEnds ==
  \A l \in MlLeases :
    (mlSession[l] = "HELD" /\ mlKey # l) ~> mlSession[l] # "HELD"

-----------------------------------------------------------------------------
(* The inductive strengthening                                             *)

\* A lease has the key or a session only after its SET.
MlSetFirst ==
  /\ mlKey # NoLease => mlAcq[mlKey] # "new"
  /\ \A l \in MlLeases : mlSession[l] = "HELD" => mlAcq[l] # "new"

\* Who ends a session before, or without, a deletion has taken the key away.
MlDropped ==
  \A a \in MlActors : mlEnd[a].pc = "drop" =>
    mlEnd[a].lease # mlKey /\ mlAcq[mlEnd[a].lease] # "new"

\* It takes a committed end to leave the key without a session.
MlWitness ==
  mlKey # NoLease => \/ mlSession[mlKey] = "HELD"
                     \/ mlKey \in Opening \cup mlLost
                     \/ \E a \in MlActors : mlEnd[a].pc = "delete" /\ mlEnd[a].lease = mlKey

MlInv == MlTypeOK /\ MlSetFirst /\ MlDropped /\ MlWitness
=============================================================================

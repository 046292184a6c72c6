--------------------------- MODULE CommandContract ---------------------------
(***************************************************************************)
(* What the command path of the platform promises, whatever its queues,    *)
(* threads and restarts do in between:                                     *)
(*   - a command reaches the broker only after its row is committed;       *)
(*   - the platform says "published" only of a command it really put on    *)
(*     the broker;                                                         *)
(*   - an answer is recorded only for a command that was on the broker,    *)
(*     and the first recorded answer is final.                             *)
(* CommandPipeline is shown to implement this specification.               *)
(***************************************************************************)

CONSTANTS Cmds,        \* command ids
          AckKinds,    \* answers a vehicle can give
          NoAck        \* no answer recorded

VARIABLES persisted,   \* commands whose row is committed
          transmitted, \* commands the broker received at least once
          claimed,     \* commands with published_at set
          answer       \* the recorded answer of each command

cvars == <<persisted, transmitted, claimed, answer>>

CInit == /\ persisted = {}
         /\ transmitted = {}
         /\ claimed = {}
         /\ answer = [c \in Cmds |-> NoAck]

Persist(c) == /\ c \notin persisted
              /\ persisted' = persisted \cup {c}
              /\ UNCHANGED <<transmitted, claimed, answer>>

\* A retransmission of a command already sent is a stuttering step.
Transmit(c) == /\ c \in persisted
               /\ transmitted' = transmitted \cup {c}
               /\ UNCHANGED <<persisted, claimed, answer>>

Claim(c) == /\ c \in transmitted
            /\ claimed' = claimed \cup {c}
            /\ UNCHANGED <<persisted, transmitted, answer>>

Answer(c, s) == /\ c \in transmitted \cap persisted
                /\ answer[c] = NoAck
                /\ answer' = [answer EXCEPT ![c] = s]
                /\ UNCHANGED <<persisted, transmitted, claimed>>

CNext == \E c \in Cmds : \/ Persist(c)
                         \/ Transmit(c)
                         \/ Claim(c)
                         \/ \E s \in AckKinds : Answer(c, s)

CSpec == CInit /\ [][CNext]_cvars

=============================================================================

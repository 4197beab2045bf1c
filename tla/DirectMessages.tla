---------------------------- MODULE DirectMessages ----------------------------
(***************************************************************************)
(* Sending direct messages: sendDmText, the retries of sendDmTextWithRetry, *)
(* and the states a message goes through as frames arrive.                 *)
(*                                                                         *)
(* Every attempt at a message is one write, named by its write-order stamp.*)
(* The radio answers it RESP_SENT, with a hash by which the recipient's    *)
(* confirmation will be known, or RESP_ERR.  The session holds a slot with *)
(* the message's id, the same for all its attempts, in dmSendQueue until   *)
(* the answer, and the hash in pendingDmAcks until the confirmation.  As in*)
(* ReplyRouting a FIFO is the set of the stamps in it.                     *)
(***************************************************************************)
EXTENDS Naturals

CONSTANTS
  Messages,           \* the messages sent
  KnownAttempts,      \* sendDmTextWithRetry: attempts along a known path,
  FloodAttempts,      \*   then attempts by flood,
  FloodOnlyAttempts,  \*   or attempts if there is no path
  MaxSends            \* bound on the attempts at all messages

ASSUME NoneAssumption == "none" \notin Messages

ASSUME AttemptsAssumption ==
  /\ KnownAttempts \in Nat /\ FloodAttempts \in Nat /\ FloodOnlyAttempts \in Nat
  /\ MaxSends \in Nat

Sends == 1..MaxSends

\* How a message is sent: once, or with retries, with a known path or without.
Plans == {"once", "path", "flood"}

\* Message.state, as far as an outgoing DM goes.
States == {"sending", "sent", "ack", "failed"}

\* Where the call that sends a message is: about to write the next attempt,
\* waiting for its write, in awaitDmOutcome, resetting the path, or returned.
Places == {"ready", "writing", "awaiting", "resetting", "returned"}

VARIABLES
  plan,           \* plan[m]: how m is sent, "none" before
  place,          \* place[m]: where its call is, "none" before
  tries,          \* tries[m]: the attempts made
  last,           \* last[m]: the stamp of the last attempt
  result,         \* result[m]: what the call returned: "none" yet, "ok" or "notOk"
  state,          \* state[m]: Message.state, "none" before
  issued,         \* the last stamp taken
  budget,         \* attempts that calls yet to come may make
  of,             \* of[c]: the message of attempt c
  dmSendQueue,    \* attempts with a slot in rt.dm.dmSendQueue
  pendingDmAcks,  \* rt.dm.pendingDmAcks: <<hash, message>>, the attempt standing for its hash
  inflight,       \* attempts the radio has yet to answer
  answered,       \* attempts it has answered, or whose answer was lost
  accepted,       \* attempts it took to the mesh
  delivered,      \* attempts the recipient has confirmed
  linkUp,         \* the transport reports 'connected'
  connected,      \* MeshCoreSession.connected
  slipped         \* a slot and the answer it waits for have parted (history of the link)

calls == <<plan, place, tries, last, result>>
session == <<linkUp, connected>>
radio == <<inflight, answered, accepted, delivered>>
vars == <<calls, state, issued, budget, of, dmSendQueue, pendingDmAcks, radio, session,
          slipped>>

Oldest(S) == {c \in S : \A d \in S : c <= d}

\* The attempts of a plan, none of a message not sent.
Attempts(p) == CASE p = "path"  -> KnownAttempts + FloodAttempts
                 [] p = "flood" -> FloodOnlyAttempts
                 [] p = "once"  -> 1
                 [] OTHER       -> 0

TypeOK ==
  /\ plan \in [Messages -> Plans \cup {"none"}]
  /\ place \in [Messages -> Places \cup {"none"}]
  /\ tries \in [Messages -> Nat]
  /\ \A m \in Messages : tries[m] <=
       (CASE plan[m] = "none"  -> 0
          [] plan[m] = "once"  -> 1
          [] plan[m] = "path"  -> KnownAttempts + FloodAttempts
          [] plan[m] = "flood" -> FloodOnlyAttempts)
  /\ last \in [Messages -> Sends \cup {0}]
  /\ result \in [Messages -> {"none", "ok", "notOk"}]
  /\ state \in [Messages -> States \cup {"none"}]
  /\ issued \in 0..MaxSends /\ budget \in Nat
  /\ of \in [Sends -> Messages \cup {"none"}]
  /\ dmSendQueue \subseteq Sends
  /\ pendingDmAcks \subseteq Sends \X Messages
  /\ inflight \subseteq Sends /\ answered \subseteq Sends
  /\ accepted \subseteq Sends /\ delivered \subseteq Sends
  /\ linkUp \in BOOLEAN /\ connected \in BOOLEAN /\ slipped \in BOOLEAN

Init ==
  /\ plan = [m \in Messages |-> "none"]
  /\ place = [m \in Messages |-> "none"]
  /\ tries = [m \in Messages |-> 0]
  /\ last = [m \in Messages |-> 0]
  /\ result = [m \in Messages |-> "none"]
  /\ state = [m \in Messages |-> "none"]
  /\ issued = 0 /\ budget = MaxSends
  /\ of = [c \in Sends |-> "none"]
  /\ dmSendQueue = {} /\ pendingDmAcks = {}
  /\ inflight = {} /\ answered = {} /\ accepted = {} /\ delivered = {}
  /\ linkUp = FALSE /\ connected = FALSE /\ slipped = FALSE

-----------------------------------------------------------------------------
(* The states of a message and the call that waits for them.               *)

\* Where a call goes when an attempt has come to nothing: on to the next one,
\* over the path reset if that was the last along the known path.
NextPlace(m) ==
  IF plan[m] = "path" /\ tries[m] = KnownAttempts THEN "resetting" ELSE "ready"

\* emitSendState for the messages of S, and what awaitDmOutcome makes of it.  A
\* call that is not in awaitDmOutcome does not hear it.
EmitSendState(S, to) ==
  /\ state' = [m \in Messages |-> IF m \in S THEN to ELSE state[m]]
  /\ place' = [m \in Messages |->
       IF m \in S /\ place[m] = "awaiting" /\ to \in {"ack", "failed"}
       THEN IF to = "ack" THEN "returned" ELSE NextPlace(m)
       ELSE place[m]]
  /\ result' = [m \in Messages |->
       IF m \in S /\ place[m] = "awaiting" /\ to = "ack" THEN "ok" ELSE result[m]]

\* The messages that attempts of S belong to.
MessagesOf(S) == {of[c] : c \in S}

-----------------------------------------------------------------------------
(* The calls.                                                              *)

\* sendDmText ("once") or sendDmTextWithRetry is called for a stored message.
Call(m, p) ==
  /\ plan[m] = "none" /\ Attempts(p) <= budget
  /\ budget' = budget - Attempts(p)
  /\ plan' = [plan EXCEPT ![m] = p]
  /\ place' = [place EXCEPT ![m] =
       IF p = "path" /\ KnownAttempts = 0 THEN "resetting" ELSE "ready"]
  /\ state' = [state EXCEPT ![m] = "sending"]
  /\ UNCHANGED <<tries, last, result, issued, of, dmSendQueue, pendingDmAcks, radio,
                 session, slipped>>

\* What becomes of a call whose write was rejected.
AfterRejection(m, n) ==
  IF plan[m] = "once" THEN "returned"
  ELSE IF plan[m] = "path" /\ n = KnownAttempts THEN "resetting" ELSE "ready"

\* sendDmText: enqueue and write.  On a closed link the write rejects in the
\* same turn and the slot goes again.
Attempt(m) ==
  /\ place[m] = "ready" /\ tries[m] < Attempts(plan[m])
  /\ tries' = [tries EXCEPT ![m] = @ + 1]
  /\ \/ /\ linkUp /\ issued < MaxSends
        /\ issued' = issued + 1
        /\ of' = [of EXCEPT ![issued + 1] = m]
        /\ last' = [last EXCEPT ![m] = issued + 1]
        /\ dmSendQueue' = dmSendQueue \cup {issued + 1}
        /\ inflight' = inflight \cup {issued + 1}
        /\ place' = [place EXCEPT ![m] = "writing"]
        /\ UNCHANGED <<result, slipped>>
     \/ /\ ~linkUp
        /\ place' = [place EXCEPT ![m] = AfterRejection(m, tries[m] + 1)]
        /\ result' = [result EXCEPT ![m] = IF plan[m] = "once" THEN "notOk" ELSE @]
        /\ UNCHANGED <<issued, of, last, dmSendQueue, inflight, slipped>>
  /\ UNCHANGED <<plan, state, budget, pendingDmAcks, answered, accepted, delivered, session>>

\* The write resolves: sendDmText returns; with retries awaitDmOutcome begins.
Written(m) ==
  /\ place[m] = "writing"
  /\ place' = [place EXCEPT ![m] = IF plan[m] = "once" THEN "returned" ELSE "awaiting"]
  /\ result' = [result EXCEPT ![m] = IF plan[m] = "once" THEN "ok" ELSE @]
  /\ UNCHANGED <<plan, tries, last, state, issued, budget, of, dmSendQueue, pendingDmAcks, radio,
                 session, slipped>>

\* dequeueDmSend: the oldest slot with the message's id, whichever attempt's.
Dequeued(m) == Oldest({c \in dmSendQueue : of[c] = m})

\* Mutant: a rejected write leaves its slot queued.
WriteFailsKeepsSlot(m) ==
  /\ place[m] = "writing" /\ last[m] \notin answered
  /\ inflight' = inflight \ {last[m]}
  /\ place' = [place EXCEPT ![m] = AfterRejection(m, tries[m])]
  /\ result' = [result EXCEPT ![m] = IF plan[m] = "once" THEN "notOk" ELSE @]
  /\ UNCHANGED <<plan, tries, last, state, issued, budget, of, dmSendQueue, pendingDmAcks, answered,
                 accepted, delivered, session, slipped>>

\* The write rejects: the radio never sees the attempt.
WriteFails(m) ==
  /\ place[m] = "writing" /\ last[m] \notin answered
  /\ inflight' = inflight \ {last[m]}
  /\ dmSendQueue' = dmSendQueue \ Dequeued(m)
  /\ slipped' = (slipped \/ Dequeued(m) # dmSendQueue \cap {last[m]})
  /\ place' = [place EXCEPT ![m] = AfterRejection(m, tries[m])]
  /\ result' = [result EXCEPT ![m] = IF plan[m] = "once" THEN "notOk" ELSE @]
  /\ UNCHANGED <<plan, tries, last, state, issued, budget, of, pendingDmAcks, answered, accepted,
                 delivered, session>>

\* Mutant: only an attempt along the known path has a time limit.
AttemptTimesOutOnPath(m) ==
  /\ place[m] = "awaiting" /\ plan[m] = "path" /\ tries[m] <= KnownAttempts
  /\ place' = [place EXCEPT ![m] = NextPlace(m)]
  /\ UNCHANGED <<plan, tries, last, result, state, issued, budget, of, dmSendQueue, pendingDmAcks,
                 radio, session, slipped>>

\* PER_ATTEMPT_TIMEOUT_MS: the attempt is given up, its slot and hash are not.
AttemptTimesOut(m) ==
  /\ place[m] = "awaiting"
  /\ place' = [place EXCEPT ![m] = NextPlace(m)]
  /\ UNCHANGED <<plan, tries, last, result, state, issued, budget, of, dmSendQueue, pendingDmAcks,
                 radio, session, slipped>>

\* CMD_RESET_PATH is written, or fails to be: the flood attempts follow.
ResetPath(m) ==
  /\ place[m] = "resetting"
  /\ place' = [place EXCEPT ![m] = "ready"]
  /\ UNCHANGED <<plan, tries, last, result, state, issued, budget, of, dmSendQueue, pendingDmAcks,
                 radio, session, slipped>>

\* All attempts are used up.
GiveUp(m) ==
  /\ place[m] = "ready" /\ tries[m] >= Attempts(plan[m])
  /\ place' = [place EXCEPT ![m] = "returned"]
  /\ result' = [result EXCEPT ![m] = "notOk"]
  /\ state' = [state EXCEPT ![m] = "failed"]
  /\ UNCHANGED <<plan, tries, last, issued, budget, of, dmSendQueue, pendingDmAcks, radio, session,
                 slipped>>

-----------------------------------------------------------------------------
(* Frames.                                                                 *)

\* The radio's answer to attempt c reaches the session, or is lost on the way.
Answer(c) ==
  /\ c \in Oldest(inflight)
  /\ inflight' = inflight \ {c}
  /\ answered' = answered \cup {c}

\* Mutant: the slot of the newest attempt takes the RESP_SENT.
HandleSentNewest(c) ==
  /\ Answer(c)
  /\ accepted' = accepted \cup {c}
  /\ LET head == {d \in dmSendQueue : \A e \in dmSendQueue : e <= d}
     IN  /\ dmSendQueue' = dmSendQueue \ head
         /\ EmitSendState(MessagesOf(head), "sent")
         /\ pendingDmAcks' = pendingDmAcks \cup ({c} \X MessagesOf(head))
  /\ UNCHANGED <<plan, tries, last, issued, budget, of, delivered, session, slipped>>

\* handleSent: the oldest slot goes, its message is 'sent', and the hash is kept
\* for its message.
HandleSent(c) ==
  /\ Answer(c)
  /\ accepted' = accepted \cup {c}
  /\ LET head == Oldest(dmSendQueue)
     IN  /\ dmSendQueue' = dmSendQueue \ head
         /\ EmitSendState(MessagesOf(head), "sent")
         /\ pendingDmAcks' = pendingDmAcks \cup ({c} \X MessagesOf(head))
  /\ UNCHANGED <<plan, tries, last, issued, budget, of, delivered, session, slipped>>

\* failOldestDmSend, for a RESP_ERR.
HandleErr(c) ==
  /\ Answer(c)
  /\ LET head == Oldest(dmSendQueue)
     IN  /\ dmSendQueue' = dmSendQueue \ head
         /\ EmitSendState(MessagesOf(head), "failed")
  /\ UNCHANGED <<plan, tries, last, issued, budget, of, pendingDmAcks, accepted, delivered, session,
                 slipped>>

\* The answer is lost: nothing takes the slot away.
LoseAnswer(c) ==
  /\ Answer(c)
  /\ accepted' = accepted \cup {c}
  /\ slipped' = TRUE
  /\ UNCHANGED <<calls, state, issued, budget, of, dmSendQueue, pendingDmAcks, delivered, session>>

\* handleSendConfirmed: PUSH_SEND_CONFIRMED with the hash of attempt c.
HandleSendConfirmed(c) ==
  /\ linkUp /\ c \in accepted \ delivered
  /\ delivered' = delivered \cup {c}
  /\ LET entries == {e \in pendingDmAcks : e[1] = c}
     IN  /\ pendingDmAcks' = pendingDmAcks \ entries
         /\ EmitSendState({e[2] : e \in entries}, "ack")
  /\ UNCHANGED <<plan, tries, last, issued, budget, of, dmSendQueue, inflight, answered, accepted,
                 session, slipped>>

\* ACK_RETENTION_MS: the hash is forgotten.
ForgetAck(e) ==
  /\ e \in pendingDmAcks
  /\ pendingDmAcks' = pendingDmAcks \ {e}
  /\ UNCHANGED <<calls, state, issued, budget, of, dmSendQueue, radio, session, slipped>>

-----------------------------------------------------------------------------
(* The session.                                                            *)

\* Mutant: the queue is dropped without a word.
ResetDmStateSilently ==
  /\ dmSendQueue' = {} /\ pendingDmAcks' = {}
  /\ UNCHANGED <<state, place, result>>

\* resetDmState: every slot fails, hashes are forgotten.
ResetDmState ==
  /\ EmitSendState(MessagesOf(dmSendQueue), "failed")
  /\ dmSendQueue' = {} /\ pendingDmAcks' = {}

Connect ==
  /\ ~connected
  /\ linkUp' = TRUE /\ connected' = TRUE
  /\ UNCHANGED <<calls, state, issued, budget, of, dmSendQueue, pendingDmAcks, radio, slipped>>

\* The link drops.  A stopped session does not notice.
Disconnect ==
  /\ linkUp
  /\ linkUp' = FALSE /\ connected' = FALSE
  /\ inflight' = {}
  /\ \/ connected /\ ResetDmState /\ slipped' = FALSE
     \/ /\ ~connected
        /\ slipped' = (slipped \/ dmSendQueue # {})
        /\ UNCHANGED <<place, result, state, dmSendQueue, pendingDmAcks>>
  /\ UNCHANGED <<plan, tries, last, issued, budget, of, answered, accepted, delivered>>

\* stop(): what the radio was sent, it still answers.
Stop ==
  /\ connected' = FALSE
  /\ ResetDmState
  /\ slipped' = (slipped \/ inflight # {})
  /\ UNCHANGED <<plan, tries, last, issued, budget, of, radio, linkUp>>

CallStep(m) ==
  \/ Attempt(m) \/ Written(m) \/ WriteFails(m) \/ AttemptTimesOut(m) \/ ResetPath(m)
  \/ GiveUp(m)

Next ==
  \/ \E m \in Messages, p \in Plans : Call(m, p)
  \/ \E m \in Messages : CallStep(m)
  \/ \E c \in Sends : \/ HandleSent(c) \/ HandleErr(c) \/ LoseAnswer(c)
                      \/ HandleSendConfirmed(c)
  \/ \E e \in pendingDmAcks : ForgetAck(e)
  \/ Connect \/ Disconnect \/ Stop

Spec == Init /\ [][Next]_vars

\* Writes settle, timers fire and the retry loop goes on.
FairSpec == Spec /\ \A m \in Messages : WF_vars(CallStep(m))

-----------------------------------------------------------------------------
(* Properties.                                                             *)

\* While no slot has slipped, the slots queued are those of the attempts the
\* radio has yet to answer: each RESP_SENT and RESP_ERR finds its own.
SlotsMatchAnswers == ~slipped => dmSendQueue = inflight

\* While no slot has slipped, only a message one of whose attempts the recipient
\* confirmed turns 'ack'.
AckIsDelivery ==
  [][\A m \in Messages :
       state[m] # "ack" /\ state'[m] = "ack" /\ ~slipped
         => \E c \in delivered' : of[c] = m]_vars

\* No message is left 'sending' that nothing will move on: it has a slot, or its
\* call goes on, or its caller was told that the write failed.
SendingIsLive ==
  \A m \in Messages : state[m] = "sending" =>
    \/ \E c \in dmSendQueue : of[c] = m
    \/ place[m] \in {"ready", "writing", "resetting"}
    \/ result[m] = "notOk"

\* A call returns, though the radio may never answer and the link may flap.
CallReturns == \A m \in Messages : plan[m] # "none" ~> place[m] = "returned"

\* What awaitDmOutcome's comment says: 'ack' is a terminal state.
AckIsTerminal == [][\A m \in Messages : state[m] = "ack" => state'[m] = "ack"]_vars

\* The FIFO, the hashes and the retry loop together implement Delivery: the
\* attempts owed an answer are those in flight, and a message is retried if
\* sendDmTextWithRetry sends it.
Promise == INSTANCE Delivery WITH
  Ids <- Sends, owed <- inflight, taken <- accepted, confirmed <- delivered,
  parted <- slipped, retried <- [m \in Messages |-> plan[m] \in {"path", "flood"}]

\* Every answer and confirmation moves the message of its own attempt, and a
\* call returns once, within the limit Delivery states.
ImplementsDelivery == Promise!Spec

=============================================================================

------------------------ MODULE DirectMessages_proofs ------------------------
(***************************************************************************)
(* Proofs about DirectMessages, for any messages, numbers of attempts and  *)
(* numbers of sends.                                                       *)
(*                                                                         *)
(* The argument: while no slot has slipped, the slots queued are those of  *)
(* the attempts whose answer is owed, so the answer to the oldest of these *)
(* finds its own slot at the head, and the hash it brings is kept for the  *)
(* message of that attempt.                                                *)
(* With where each call may be (Course) and that a hash is kept for one     *)
(* message, this makes every step one that Delivery allows, or one it does *)
(* not see.                                                                *)
(***************************************************************************)
EXTENDS DirectMessages, TLAPS

\* The stamps taken so far.
Issued == 1..issued

\* Nothing refers to an attempt yet to be made, and each belongs to a message.
Known ==
  /\ \A c \in Issued : of[c] \in Messages
  /\ dmSendQueue \subseteq Issued
  /\ inflight \subseteq Issued
  /\ accepted \subseteq Issued
  /\ \A e \in pendingDmAcks : e[1] \in Issued

\* While no slot has slipped, a hash is kept for the message of its attempt.
HashesAreOwn == ~slipped => \A e \in pendingDmAcks : of[e[1]] = e[2]

\* SendingIsLive, and more: a call that waits for its write has a slot.
SendingHasSlot ==
  \A m \in Messages : state[m] = "sending" =>
    \/ \E c \in dmSendQueue : of[c] = m
    \/ place[m] \in {"ready", "resetting"}
    \/ place[m] = "returned" /\ result[m] = "notOk"

\* The inductive invariant.
IInv ==
  /\ TypeOK
  /\ Known
  /\ SlotsMatchAnswers
  /\ HashesAreOwn
  /\ SendingHasSlot

-----------------------------------------------------------------------------
(* Lemmas.                                                                 *)

\* The head of the FIFO is in it, and is alone.
LEMMA OldestIsOne ==
  ASSUME NEW Q \in SUBSET Nat
  PROVE  /\ Oldest(Q) \subseteq Q
         /\ \A c, d \in Oldest(Q) : c = d
BY DEF Oldest

\* The attempts of slots that are queued have messages.
LEMMA MessagesTyped ==
  ASSUME TypeOK, Known, NEW Q \in SUBSET dmSendQueue
  PROVE  MessagesOf(Q) \subseteq Messages
BY DEF Known, MessagesOf

\* emitSendState keeps types and tries.
LEMMA EmitTyped ==
  ASSUME TypeOK, NEW S, NEW to \in States, EmitSendState(S, to)
  PROVE  /\ state' \in [Messages -> States \cup {"none"}]
         /\ place' \in [Messages -> Places \cup {"none"}]
         /\ result' \in [Messages -> {"none", "ok", "notOk"}]
BY DEF TypeOK, EmitSendState, NextPlace, Places, States

\* emitSendState leaves no message of S 'sending', and the others alone.
LEMMA EmitMoves ==
  ASSUME TypeOK, NEW S, NEW to \in States \ {"sending"}, EmitSendState(S, to)
  PROVE  \A m \in Messages :
           /\ m \in S => state'[m] = to
           /\ m \notin S => state'[m] = state[m] /\ place'[m] = place[m]
                            /\ result'[m] = result[m]
BY DEF TypeOK, EmitSendState, States

-----------------------------------------------------------------------------
(* Types.                                                                  *)

\* The plan bounds the attempts.
Bounded ==
  \A m \in Messages : tries[m] <=
    (CASE plan[m] = "none"  -> 0
       [] plan[m] = "once"  -> 1
       [] plan[m] = "path"  -> KnownAttempts + FloodAttempts
       [] plan[m] = "flood" -> FloodOnlyAttempts)

\* What a call does to its variables.
LEMMA CallsTyped ==
  ASSUME TypeOK, Known, NEW m \in Messages,
         CallStep(m) \/ \E p \in Plans : Call(m, p)
  PROVE  TypeOK'
<1> USE AttemptsAssumption
<1>1. ASSUME NEW p \in Plans, Call(m, p)
      PROVE  TypeOK'
  <2>1. Bounded'
    BY <1>1 DEF Call, TypeOK, Bounded, Plans
  <2>2. budget' \in Nat
    BY <1>1 DEF Call, TypeOK, Attempts
  <2> QED
    BY <1>1, <2>1, <2>2 DEF Call, TypeOK, Bounded, Plans, Places, States, radio, session
<1>2. CASE Attempt(m)
  <2>1. tries' \in [Messages -> Nat] /\ Bounded'
    <3>1. tries[m] + 1 <= Attempts(plan[m]) /\ plan' = plan
      BY <1>2 DEF Attempt, TypeOK, Attempts
    <3>2. tries' = [tries EXCEPT ![m] = tries[m] + 1] /\ tries' \in [Messages -> Nat]
      BY <1>2 DEF Attempt, TypeOK
    <3>3. ASSUME NEW n \in Messages
          PROVE  tries'[n] <= Attempts(plan[n]) \/ tries'[n] = tries[n]
      BY <3>1, <3>2 DEF TypeOK
    <3>4. \A n \in Messages : plan[n] \in Plans \cup {"none"} /\ tries'[n] \in Nat
      BY <3>2 DEF TypeOK
    <3>5. \A n \in Messages : tries[n] <= Attempts(plan[n])
      BY DEF TypeOK, Attempts, Plans
    <3>6. \A n \in Messages : tries'[n] <= Attempts(plan[n])
      BY <3>3, <3>5
    <3> QED
      BY <3>1, <3>2, <3>4, <3>6 DEF Bounded, Attempts, Plans
  <2>2. /\ place' \in [Messages -> Places \cup {"none"}]
        /\ result' \in [Messages -> {"none", "ok", "notOk"}]
    BY <1>2 DEF Attempt, TypeOK, AfterRejection, Places
  <2>3. /\ issued' \in 0..MaxSends /\ last' \in [Messages -> Sends \cup {0}]
        /\ of' \in [Sends -> Messages \cup {"none"}]
        /\ dmSendQueue' \subseteq Sends /\ inflight' \subseteq Sends
    <3>1. CASE linkUp /\ issued < MaxSends
      <4>1. issued + 1 \in Sends
        BY <3>1 DEF TypeOK, Sends
      <4>2. /\ issued' = issued + 1
            /\ of' = [of EXCEPT ![issued + 1] = m]
            /\ last' = [last EXCEPT ![m] = issued + 1]
            /\ dmSendQueue' = dmSendQueue \cup {issued + 1}
            /\ inflight' = inflight \cup {issued + 1}
        BY <1>2, <3>1 DEF Attempt
      <4>3. issued' \in 0..MaxSends
        BY <3>1, <4>2 DEF TypeOK
      <4> QED
        BY <4>1, <4>2, <4>3 DEF TypeOK
    <3>2. CASE ~linkUp
      BY <1>2, <3>2 DEF Attempt, TypeOK
    <3> QED
      BY <1>2, <3>1, <3>2 DEF Attempt
  <2>4. /\ slipped' \in BOOLEAN
        /\ UNCHANGED <<plan, state, budget, pendingDmAcks, answered, accepted, delivered,
                       linkUp, connected>>
    BY <1>2 DEF Attempt, TypeOK, session
  <2> QED
    BY <2>1, <2>2, <2>3, <2>4 DEF TypeOK, Bounded
<1>3. CASE Written(m) \/ AttemptTimesOut(m) \/ ResetPath(m) \/ GiveUp(m)
  <2>1. /\ place' \in [Messages -> Places \cup {"none"}]
        /\ result' \in [Messages -> {"none", "ok", "notOk"}]
        /\ state' \in [Messages -> States \cup {"none"}]
    BY <1>3 DEF Written, AttemptTimesOut, ResetPath, GiveUp, NextPlace, TypeOK, Places, States
  <2>2. UNCHANGED <<plan, tries, last, issued, budget, of, dmSendQueue, pendingDmAcks, inflight,
                    answered, accepted, delivered, linkUp, connected, slipped>>
    BY <1>3 DEF Written, AttemptTimesOut, ResetPath, GiveUp, radio, session
  <2> QED
    BY <2>1, <2>2 DEF TypeOK
<1>4. CASE WriteFails(m)
  <2>1. /\ place' \in [Messages -> Places \cup {"none"}]
        /\ result' \in [Messages -> {"none", "ok", "notOk"}]
    BY <1>4 DEF WriteFails, AfterRejection, TypeOK, Places
  <2>2. dmSendQueue' \subseteq Sends /\ inflight' \subseteq Sends
    BY <1>4 DEF WriteFails, TypeOK
  <2>3. slipped' \in BOOLEAN
    BY <1>4 DEF WriteFails, TypeOK
  <2>4. UNCHANGED <<plan, tries, last, state, issued, budget, of, pendingDmAcks, answered,
                    accepted, delivered, linkUp, connected>>
    BY <1>4 DEF WriteFails, session
  <2> QED
    BY <2>1, <2>2, <2>3, <2>4 DEF TypeOK
<1> QED
  BY <1>1, <1>2, <1>3, <1>4 DEF CallStep

\* Frames and the session's own steps keep the types.
LEMMA FramesTyped ==
  ASSUME TypeOK, Known,
         \/ \E c \in Sends : HandleSent(c) \/ HandleErr(c) \/ LoseAnswer(c)
                             \/ HandleSendConfirmed(c)
         \/ \E e \in pendingDmAcks : ForgetAck(e)
         \/ Connect \/ Disconnect \/ Stop
  PROVE  TypeOK'
<1>1. ASSUME NEW c \in Sends, HandleSent(c)
      PROVE  TypeOK'
  <2> DEFINE head == Oldest(dmSendQueue)
  <2>1. head \subseteq dmSendQueue /\ MessagesOf(head) \subseteq Messages
    BY MessagesTyped, OldestIsOne DEF Oldest
  <2>2. EmitSendState(MessagesOf(head), "sent") /\ "sent" \in States
    BY <1>1 DEF HandleSent, States
  <2>3. /\ state' \in [Messages -> States \cup {"none"}]
        /\ place' \in [Messages -> Places \cup {"none"}]
        /\ result' \in [Messages -> {"none", "ok", "notOk"}]
    BY <2>2, EmitTyped
  <2>4. /\ pendingDmAcks' \subseteq Sends \X Messages
        /\ dmSendQueue' \subseteq Sends /\ inflight' \subseteq Sends
        /\ answered' \subseteq Sends /\ accepted' \subseteq Sends
    BY <1>1, <2>1 DEF HandleSent, Answer, TypeOK
  <2> QED
    BY <1>1, <2>3, <2>4 DEF HandleSent, TypeOK, session
<1>2. ASSUME NEW c \in Sends, HandleErr(c)
      PROVE  TypeOK'
  <2>1. \E S : EmitSendState(S, "failed")
    BY <1>2 DEF HandleErr
  <2>2. /\ state' \in [Messages -> States \cup {"none"}]
        /\ place' \in [Messages -> Places \cup {"none"}]
        /\ result' \in [Messages -> {"none", "ok", "notOk"}]
    BY <2>1, EmitTyped DEF States
  <2>3. dmSendQueue' \subseteq Sends /\ inflight' \subseteq Sends /\ answered' \subseteq Sends
    BY <1>2 DEF HandleErr, Answer, TypeOK
  <2> QED
    BY <1>2, <2>2, <2>3 DEF HandleErr, TypeOK, session
<1>3. ASSUME NEW c \in Sends, LoseAnswer(c)
      PROVE  TypeOK'
  BY <1>3 DEF LoseAnswer, Answer, TypeOK, calls, session
<1>4. ASSUME NEW c \in Sends, HandleSendConfirmed(c)
      PROVE  TypeOK'
  <2>1. \E S : EmitSendState(S, "ack")
    BY <1>4 DEF HandleSendConfirmed
  <2>2. /\ state' \in [Messages -> States \cup {"none"}]
        /\ place' \in [Messages -> Places \cup {"none"}]
        /\ result' \in [Messages -> {"none", "ok", "notOk"}]
    BY <2>1, EmitTyped DEF States
  <2>3. pendingDmAcks' \subseteq Sends \X Messages /\ delivered' \subseteq Sends
    BY <1>4 DEF HandleSendConfirmed, TypeOK
  <2> QED
    BY <1>4, <2>2, <2>3 DEF HandleSendConfirmed, TypeOK, session
<1>5. CASE \E e \in pendingDmAcks : ForgetAck(e)
  BY <1>5 DEF ForgetAck, TypeOK, calls, radio, session
<1>6. CASE Connect
  BY <1>6 DEF Connect, TypeOK, calls, radio
<1>7. CASE Disconnect \/ Stop
  <2>1. /\ state' \in [Messages -> States \cup {"none"}]
        /\ place' \in [Messages -> Places \cup {"none"}]
        /\ result' \in [Messages -> {"none", "ok", "notOk"}]
    <3>1. CASE ResetDmState
      BY <3>1, EmitTyped DEF ResetDmState, States
    <3>2. CASE UNCHANGED <<place, result, state>>
      BY <3>2 DEF TypeOK
    <3> QED
      BY <1>7, <3>1, <3>2 DEF Disconnect, Stop
  <2>2. /\ dmSendQueue' \subseteq Sends /\ pendingDmAcks' \subseteq Sends \X Messages
        /\ inflight' \subseteq Sends
    BY <1>7 DEF Disconnect, Stop, ResetDmState, TypeOK, radio
  <2>3. linkUp' \in BOOLEAN /\ connected' \in BOOLEAN /\ slipped' \in BOOLEAN
    BY <1>7 DEF Disconnect, Stop, TypeOK
  <2> QED
    <3>1. UNCHANGED <<plan, tries, last, issued, budget, of, answered, accepted, delivered>>
      BY <1>7 DEF Disconnect, Stop, radio
    <3>2. Bounded'
      BY <3>1, Zenon DEF TypeOK, Bounded
    <3> QED
      BY <2>1, <2>2, <2>3, <3>1, <3>2 DEF TypeOK, Bounded
<1> QED
  BY <1>1, <1>2, <1>3, <1>4, <1>5, <1>6, <1>7

LEMMA NextType ==
  ASSUME TypeOK, Known, [Next]_vars
  PROVE  TypeOK'
<1>1. CASE UNCHANGED vars
  BY <1>1 DEF vars, calls, session, radio, TypeOK
<1> QED
  BY <1>1, CallsTyped, FramesTyped DEF Next

-----------------------------------------------------------------------------
(* Slots and hashes.                                                       *)

\* Every step but an attempt leaves the stamps and their messages alone.
LEMMA StampsStay ==
  ASSUME [Next]_vars, \A m \in Messages : ~Attempt(m)
  PROVE  UNCHANGED <<issued, of>>
<1>1. CASE UNCHANGED vars
  BY <1>1 DEF vars
<1>2. CASE \E m \in Messages, p \in Plans : Call(m, p)
  BY <1>2 DEF Call
<1>3. CASE \E m \in Messages : CallStep(m)
  BY <1>3 DEF CallStep, Written, WriteFails, AttemptTimesOut, ResetPath, GiveUp
<1>4. CASE \E c \in Sends : HandleSent(c) \/ HandleErr(c) \/ LoseAnswer(c)
                             \/ HandleSendConfirmed(c)
  BY <1>4 DEF HandleSent, HandleErr, LoseAnswer, HandleSendConfirmed
<1>5. CASE (\E e \in pendingDmAcks : ForgetAck(e)) \/ Connect \/ Disconnect \/ Stop
  BY <1>5 DEF ForgetAck, Connect, Disconnect, Stop
<1> QED
  BY <1>1, <1>2, <1>3, <1>4, <1>5 DEF Next

\* The invariant on slots and hashes.
Slots == Known /\ SlotsMatchAnswers /\ HashesAreOwn

LEMMA AttemptSlots ==
  ASSUME TypeOK, Slots, NEW m \in Messages, Attempt(m)
  PROVE  Slots'
<1>1. CASE linkUp /\ issued < MaxSends
  <2> DEFINE new == issued + 1
  <2>1. /\ issued' = new /\ of' = [of EXCEPT ![new] = m]
        /\ dmSendQueue' = dmSendQueue \cup {new} /\ inflight' = inflight \cup {new}
        /\ UNCHANGED <<slipped, pendingDmAcks, accepted>>
    BY <1>1 DEF Attempt
  <2>2. /\ Issued' = Issued \cup {new} /\ new \notin Issued /\ new \in Sends
        /\ Issued \subseteq Sends
    BY <1>1, <2>1, AttemptsAssumption DEF Issued, TypeOK, Sends
  <2>3. of'[new] = m /\ \A c \in Issued : of'[c] = of[c]
    BY <2>1, <2>2 DEF TypeOK
  <2>4. Known'
    BY <2>1, <2>2, <2>3 DEF Known, Slots
  <2>5. SlotsMatchAnswers'
    BY <2>1 DEF SlotsMatchAnswers, Slots
  <2>6. HashesAreOwn'
    BY <2>1, <2>3 DEF HashesAreOwn, Slots, Known
  <2> QED
    BY <2>4, <2>5, <2>6 DEF Slots
<1>2. CASE ~linkUp
  <2>1. UNCHANGED <<issued, of, dmSendQueue, inflight, slipped, pendingDmAcks, accepted>>
    BY <1>2 DEF Attempt
  <2> QED
    BY <2>1 DEF Slots, Known, Issued, SlotsMatchAnswers, HashesAreOwn
<1> QED
  BY <1>1, <1>2 DEF Attempt

\* RESP_SENT and RESP_ERR: with the queues in step, the head is the slot of the
\* attempt answered.
LEMMA HeadIsAnswered ==
  ASSUME TypeOK, Slots, ~slipped, NEW c \in Sends, Answer(c)
  PROVE  Oldest(dmSendQueue) = {c} /\ dmSendQueue \ {c} = inflight'
<1>1. c \in Oldest(dmSendQueue)
  BY DEF Slots, SlotsMatchAnswers, Answer
<1>2. dmSendQueue \in SUBSET Nat
  BY AttemptsAssumption DEF TypeOK, Sends
<1>3. \A d \in Oldest(dmSendQueue) : d = c
  BY <1>1, <1>2, OldestIsOne
<1> QED
  BY <1>1, <1>3 DEF Slots, SlotsMatchAnswers, Answer

LEMMA NextSlots ==
  ASSUME TypeOK, Slots, [Next]_vars
  PROVE  Slots'
<1>0. CASE \E m \in Messages : Attempt(m)
  BY <1>0, AttemptSlots
<1> SUFFICES ASSUME \A m \in Messages : ~Attempt(m)
             PROVE  Slots'
  BY <1>0
<1>a. UNCHANGED <<issued, of, Issued>>
  BY StampsStay DEF Issued
<1>1. CASE UNCHANGED <<dmSendQueue, pendingDmAcks, inflight, accepted, slipped>>
  BY <1>1, <1>a DEF Slots, Known, SlotsMatchAnswers, HashesAreOwn
<1>2. ASSUME NEW m \in Messages, WriteFails(m)
      PROVE  Slots'
  <2>1. /\ inflight' = inflight \ {last[m]} /\ dmSendQueue' = dmSendQueue \ Dequeued(m)
        /\ slipped' = (slipped \/ Dequeued(m) # dmSendQueue \cap {last[m]})
        /\ UNCHANGED <<pendingDmAcks, accepted>>
    BY <1>2 DEF WriteFails
  <2>2. SlotsMatchAnswers'
    BY <2>1 DEF Slots, SlotsMatchAnswers
  <2>3. Known' /\ HashesAreOwn'
    BY <2>1, <1>a DEF Slots, Known, HashesAreOwn
  <2> QED
    BY <2>2, <2>3 DEF Slots
<1>3. ASSUME NEW c \in Sends, HandleSent(c)
      PROVE  Slots'
  <2> DEFINE head == Oldest(dmSendQueue)
  <2>1. /\ Answer(c) /\ accepted' = accepted \cup {c} /\ slipped' = slipped
        /\ dmSendQueue' = dmSendQueue \ head
        /\ pendingDmAcks' = pendingDmAcks \cup ({c} \X MessagesOf(head))
    BY <1>3 DEF HandleSent
  <2>2. c \in inflight /\ c \in Issued /\ inflight' \subseteq inflight
    BY <2>1 DEF Answer, Oldest, Slots, Known
  <2>3. Known'
    BY <2>1, <2>2, <1>a DEF Slots, Known
  <2>4. CASE slipped
    BY <2>1, <2>3, <2>4 DEF Slots, SlotsMatchAnswers, HashesAreOwn
  <2>5. CASE ~slipped
    <3>1. head = {c} /\ dmSendQueue \ {c} = inflight'
      BY <2>1, <2>5, HeadIsAnswered
    <3>2. \A e \in {c} \X MessagesOf(head) : of[e[1]] = e[2]
      BY <3>1 DEF MessagesOf
    <3>3. SlotsMatchAnswers'
      BY <2>1, <3>1 DEF SlotsMatchAnswers
    <3>4. HashesAreOwn'
      BY <2>1, <2>5, <3>2, <1>a DEF Slots, HashesAreOwn
    <3> QED
      BY <2>3, <3>3, <3>4 DEF Slots
  <2> QED
    BY <2>4, <2>5
<1>4. ASSUME NEW c \in Sends, HandleErr(c)
      PROVE  Slots'
  <2>1. /\ Answer(c) /\ dmSendQueue' = dmSendQueue \ Oldest(dmSendQueue)
        /\ UNCHANGED <<slipped, pendingDmAcks, accepted>>
    BY <1>4 DEF HandleErr
  <2>2. inflight' \subseteq inflight
    BY <2>1 DEF Answer
  <2>3. Known' /\ HashesAreOwn'
    BY <2>1, <2>2, <1>a DEF Slots, Known, HashesAreOwn
  <2>4. SlotsMatchAnswers'
    <3>1. CASE slipped
      BY <2>1, <3>1 DEF SlotsMatchAnswers
    <3>2. CASE ~slipped
      BY <2>1, <3>2, HeadIsAnswered DEF SlotsMatchAnswers
    <3> QED
      BY <3>1, <3>2
  <2> QED
    BY <2>3, <2>4 DEF Slots
<1>5. ASSUME NEW c \in Sends, LoseAnswer(c)
      PROVE  Slots'
  <2>1. /\ c \in inflight /\ inflight' = inflight \ {c} /\ accepted' = accepted \cup {c}
        /\ slipped' = TRUE /\ UNCHANGED <<dmSendQueue, pendingDmAcks>>
    BY <1>5 DEF LoseAnswer, Answer, Oldest
  <2> QED
    BY <2>1, <1>a DEF Slots, Known, SlotsMatchAnswers, HashesAreOwn
<1>6. ASSUME NEW c \in Sends, HandleSendConfirmed(c)
      PROVE  Slots'
  <2>1. /\ pendingDmAcks' \subseteq pendingDmAcks
        /\ UNCHANGED <<dmSendQueue, inflight, accepted, slipped>>
    BY <1>6 DEF HandleSendConfirmed
  <2> QED
    BY <2>1, <1>a DEF Slots, Known, SlotsMatchAnswers, HashesAreOwn
<1>7. CASE \E e \in pendingDmAcks : ForgetAck(e)
  <2>1. /\ pendingDmAcks' \subseteq pendingDmAcks
        /\ UNCHANGED <<dmSendQueue, inflight, accepted, slipped>>
    BY <1>7 DEF ForgetAck, radio
  <2> QED
    BY <2>1, <1>a DEF Slots, Known, SlotsMatchAnswers, HashesAreOwn
<1>8. CASE Disconnect
  <2>1. accepted' = accepted /\ inflight' = {}
    BY <1>8 DEF Disconnect
  <2>2. CASE ResetDmState
    BY <2>1, <2>2, <1>a DEF ResetDmState, Slots, Known, SlotsMatchAnswers, HashesAreOwn
  <2>3. CASE /\ slipped' = (slipped \/ dmSendQueue # {})
             /\ UNCHANGED <<dmSendQueue, pendingDmAcks>>
    BY <2>1, <2>3, <1>a DEF Slots, Known, SlotsMatchAnswers, HashesAreOwn
  <2> QED
    BY <1>8, <2>2, <2>3 DEF Disconnect
<1>9. CASE Stop
  <2>1. /\ dmSendQueue' = {} /\ pendingDmAcks' = {}
        /\ slipped' = (slipped \/ inflight # {}) /\ UNCHANGED <<inflight, accepted>>
    BY <1>9 DEF Stop, ResetDmState, radio
  <2> QED
    BY <2>1, <1>a DEF Slots, Known, SlotsMatchAnswers, HashesAreOwn
<1>10. ASSUME NEW m \in Messages,
              \/ Written(m) \/ AttemptTimesOut(m) \/ ResetPath(m) \/ GiveUp(m)
              \/ \E p \in Plans : Call(m, p)
       PROVE  Slots'
  BY <1>10, <1>1 DEF Written, AttemptTimesOut, ResetPath, GiveUp, Call, radio
<1>11. CASE Connect
  BY <1>11, <1>1 DEF Connect, radio
<1>12. CASE UNCHANGED vars
  BY <1>12, <1>1 DEF vars, radio
<1> QED
  BY <1>2, <1>3, <1>4, <1>5, <1>6, <1>7, <1>8, <1>9, <1>10, <1>11, <1>12 DEF Next, CallStep

-----------------------------------------------------------------------------
(* Messages in 'sending'.                                                  *)

\* A frame or a reset that takes slots away moves their messages on.
LEMMA EmitKeepsSending ==
  ASSUME TypeOK, Slots, SendingHasSlot,
         NEW S, NEW to \in States \ {"sending"}, EmitSendState(S, to),
         \A c \in dmSendQueue : c \notin dmSendQueue' => of[c] \in S,
         of' = of
  PROVE  SendingHasSlot'
<1> SUFFICES ASSUME NEW m \in Messages, state'[m] = "sending"
             PROVE  \/ \E c \in dmSendQueue' : of[c] = m
                    \/ place'[m] \in {"ready", "resetting"}
                    \/ place'[m] = "returned" /\ result'[m] = "notOk"
  BY DEF SendingHasSlot
<1>1. m \notin S /\ state[m] = "sending" /\ place'[m] = place[m] /\ result'[m] = result[m]
  BY EmitMoves
<1>2. CASE \E c \in dmSendQueue : of[c] = m
  BY <1>1, <1>2
<1> QED
  BY <1>1, <1>2 DEF SendingHasSlot

\* The steps of a call.
LEMMA CallKeepsSending ==
  ASSUME TypeOK, Slots, SendingHasSlot, NEW m \in Messages,
         CallStep(m) \/ \E p \in Plans : Call(m, p)
  PROVE  SendingHasSlot'
<1> SUFFICES ASSUME NEW n \in Messages, state'[n] = "sending"
             PROVE  \/ \E c \in dmSendQueue' : of'[c] = n
                    \/ place'[n] \in {"ready", "resetting"}
                    \/ place'[n] = "returned" /\ result'[n] = "notOk"
  BY DEF SendingHasSlot
<1>1. ASSUME NEW p \in Plans, Call(m, p)
      PROVE  SendingHasSlot'
  <2>1. /\ place'[m] \in {"ready", "resetting"} /\ UNCHANGED <<dmSendQueue, of, result>>
        /\ \A k \in Messages \ {m} : state'[k] = state[k] /\ place'[k] = place[k]
    BY <1>1 DEF Call, TypeOK
  <2> QED
    BY <2>1 DEF SendingHasSlot
<1>2. CASE Attempt(m)
  <2>1. /\ state' = state
        /\ \A k \in Messages \ {m} : place'[k] = place[k] /\ result'[k] = result[k]
    BY <1>2 DEF Attempt, TypeOK
  <2>2. \A c \in dmSendQueue : c \in dmSendQueue' /\ of'[c] = of[c]
    <3>1. \A c \in dmSendQueue : c # issued + 1 /\ c \in Sends
      BY AttemptsAssumption DEF Slots, Known, Issued, TypeOK
    <3> QED
      BY <1>2, <3>1 DEF Attempt, TypeOK
  <2>3. CASE n # m
    BY <2>1, <2>2, <2>3 DEF SendingHasSlot
  <2>4. CASE n = m
    <3>1. CASE linkUp /\ issued < MaxSends
      <4>1. issued + 1 \in dmSendQueue' /\ of' = [of EXCEPT ![issued + 1] = m]
        BY <1>2, <3>1 DEF Attempt
      <4>2. issued + 1 \in Sends
        BY <3>1, AttemptsAssumption DEF TypeOK, Sends
      <4> QED
        BY <2>4, <4>1, <4>2 DEF TypeOK
    <3>2. CASE ~linkUp
      <4>1. /\ place'[m] = AfterRejection(m, tries[m] + 1)
            /\ plan[m] = "once" => result'[m] = "notOk"
        BY <1>2, <3>2 DEF Attempt, TypeOK
      <4> QED
        BY <2>4, <4>1 DEF AfterRejection
    <3> QED
      BY <1>2, <3>1, <3>2 DEF Attempt
  <2> QED
    BY <2>3, <2>4
<1>3. CASE Written(m)
  <2>1. /\ UNCHANGED <<state, dmSendQueue, of>> /\ place[m] = "writing"
        /\ \A k \in Messages \ {m} : place'[k] = place[k] /\ result'[k] = result[k]
    BY <1>3 DEF Written, TypeOK
  <2> QED
    BY <2>1 DEF SendingHasSlot
<1>4. CASE WriteFails(m)
  <2>1. /\ UNCHANGED <<state, of>>
        /\ \A k \in Messages \ {m} : place'[k] = place[k] /\ result'[k] = result[k]
        /\ place'[m] = AfterRejection(m, tries[m])
        /\ plan[m] = "once" => result'[m] = "notOk"
    BY <1>4 DEF WriteFails, TypeOK
  <2>2. \A c \in dmSendQueue : of[c] # m => c \in dmSendQueue'
    BY <1>4 DEF WriteFails, Dequeued, Oldest
  <2>3. CASE n # m
    BY <2>1, <2>2, <2>3 DEF SendingHasSlot
  <2>4. CASE n = m
    BY <2>1, <2>4 DEF AfterRejection
  <2> QED
    BY <2>3, <2>4
<1>5. CASE AttemptTimesOut(m)
  <2>1. /\ UNCHANGED <<state, dmSendQueue, of, result>>
        /\ \A k \in Messages \ {m} : place'[k] = place[k]
        /\ place'[m] \in {"ready", "resetting"}
    BY <1>5 DEF AttemptTimesOut, NextPlace, TypeOK
  <2> QED
    BY <2>1 DEF SendingHasSlot
<1>6. CASE ResetPath(m)
  <2>1. /\ UNCHANGED <<state, dmSendQueue, of, result>>
        /\ \A k \in Messages \ {m} : place'[k] = place[k]
        /\ place'[m] = "ready"
    BY <1>6 DEF ResetPath, TypeOK
  <2> QED
    BY <2>1 DEF SendingHasSlot
<1>7. CASE GiveUp(m)
  <2>1. /\ UNCHANGED <<dmSendQueue, of>>
        /\ \A k \in Messages \ {m} :
             state'[k] = state[k] /\ place'[k] = place[k] /\ result'[k] = result[k]
        /\ state'[m] = "failed"
    BY <1>7 DEF GiveUp, TypeOK
  <2> QED
    BY <2>1 DEF SendingHasSlot
<1> QED
  BY <1>1, <1>2, <1>3, <1>4, <1>5, <1>6, <1>7 DEF CallStep, SendingHasSlot

LEMMA NextSending ==
  ASSUME TypeOK, Slots, SendingHasSlot, [Next]_vars
  PROVE  SendingHasSlot'
<1>1. CASE UNCHANGED <<state, place, result, dmSendQueue, of>>
  BY <1>1 DEF SendingHasSlot
<1>2. ASSUME NEW c \in Sends, HandleSent(c)
      PROVE  SendingHasSlot'
  <2>1. /\ EmitSendState(MessagesOf(Oldest(dmSendQueue)), "sent") /\ of' = of
        /\ dmSendQueue' = dmSendQueue \ Oldest(dmSendQueue)
    BY <1>2 DEF HandleSent
  <2> QED
    BY <2>1, EmitKeepsSending DEF MessagesOf, States
<1>3. ASSUME NEW c \in Sends, HandleErr(c)
      PROVE  SendingHasSlot'
  <2>1. /\ EmitSendState(MessagesOf(Oldest(dmSendQueue)), "failed") /\ of' = of
        /\ dmSendQueue' = dmSendQueue \ Oldest(dmSendQueue)
    BY <1>3 DEF HandleErr
  <2> QED
    BY <2>1, EmitKeepsSending DEF MessagesOf, States
<1>4. ASSUME NEW c \in Sends, HandleSendConfirmed(c)
      PROVE  SendingHasSlot'
  <2>1. /\ \E S : EmitSendState(S, "ack")
        /\ UNCHANGED <<of, dmSendQueue>>
    BY <1>4 DEF HandleSendConfirmed
  <2> QED
    BY <2>1, EmitKeepsSending DEF States
<1>5. CASE ResetDmState /\ of' = of
  BY <1>5, EmitKeepsSending DEF ResetDmState, MessagesOf, States
<1>6. CASE Disconnect \/ Stop
  BY <1>1, <1>5, <1>6 DEF Disconnect, Stop
<1>7. ASSUME NEW c \in Sends, LoseAnswer(c)
      PROVE  SendingHasSlot'
  BY <1>7, <1>1 DEF LoseAnswer, calls
<1>8. CASE (\E e \in pendingDmAcks : ForgetAck(e)) \/ Connect \/ UNCHANGED vars
  BY <1>8, <1>1 DEF ForgetAck, Connect, vars, calls
<1> QED
  BY <1>2, <1>3, <1>4, <1>6, <1>7, <1>8, CallKeepsSending DEF Next

-----------------------------------------------------------------------------
(* Theorems.                                                               *)

\* The inductive invariant holds of every behaviour.
THEOREM Invariance == Spec => []IInv
<1>1. Init => IInv
  <2> SUFFICES ASSUME Init
               PROVE  IInv
    OBVIOUS
  <2>1. issued \in 0..MaxSends /\ budget \in Nat
    BY AttemptsAssumption DEF Init
  <2>2. \A m \in Messages : plan[m] = "none" /\ tries[m] = 0
    BY DEF Init
  <2>3. TypeOK
    <3>1. Bounded
      <4> SUFFICES ASSUME NEW m \in Messages
                   PROVE  tries[m] <= (CASE plan[m] = "none"  -> 0
                                         [] plan[m] = "once"  -> 1
                                         [] plan[m] = "path"  -> KnownAttempts + FloodAttempts
                                         [] plan[m] = "flood" -> FloodOnlyAttempts)
        BY DEF Bounded
      <4>1. plan[m] = "none" /\ tries[m] = 0
        BY <2>2
      <4>2. (CASE plan[m] = "none"  -> 0
              [] plan[m] = "once"  -> 1
              [] plan[m] = "path"  -> KnownAttempts + FloodAttempts
              [] plan[m] = "flood" -> FloodOnlyAttempts) = 0
        BY <4>1
      <4> QED
        BY <4>1, <4>2
    <3>2. /\ plan \in [Messages -> Plans \cup {"none"}]
          /\ place \in [Messages -> Places \cup {"none"}]
          /\ state \in [Messages -> States \cup {"none"}]
          /\ of \in [Sends -> Messages \cup {"none"}]
          /\ result \in [Messages -> {"none", "ok", "notOk"}]
      BY DEF Init
    <3>3. tries \in [Messages -> Nat] /\ last \in [Messages -> Sends \cup {0}]
      BY DEF Init
    <3> QED
      BY <2>1, <3>1, <3>2, <3>3 DEF Init, TypeOK, Bounded
  <2>4. Slots
    BY DEF Init, Slots, Known, Issued, SlotsMatchAnswers, HashesAreOwn
  <2>5. SendingHasSlot
    BY DEF Init, SendingHasSlot
  <2> QED
    BY <2>3, <2>4, <2>5 DEF IInv, Slots
<1>2. IInv /\ [Next]_vars => IInv'
  BY NextType, NextSlots, NextSending DEF IInv, Slots
<1> QED
  BY <1>1, <1>2, PTL DEF Spec

\* Calls, slots and hashes keep their types, and no plan makes more attempts
\* than it has (sendDmTextWithRetry's loops).
THEOREM TypeCorrect == Spec => []TypeOK
<1>1. IInv => TypeOK
  BY DEF IInv
<1> QED
  BY <1>1, Invariance, PTL

\* Until a slot slips, the FIFO and the radio agree on whose answer is next
\* (sendDmText, handleSent, failOldestDmSend, resetDmState).
THEOREM SlotsInStep == Spec => []SlotsMatchAnswers
<1>1. IInv => SlotsMatchAnswers
  BY DEF IInv
<1> QED
  BY <1>1, Invariance, PTL

\* No message is stuck in 'sending', whatever the link, the radio and the timers
\* do (emitSendState, resetDmState).
THEOREM NothingStuckSending == Spec => []SendingIsLive
<1>1. IInv => SendingIsLive
  BY DEF IInv, SendingHasSlot, SendingIsLive
<1> QED
  BY <1>1, Invariance, PTL

\* emitSendState makes a message 'ack' only if it was told to.
LEMMA EmitAck ==
  ASSUME TypeOK, NEW S, NEW to \in States, EmitSendState(S, to),
         NEW m \in Messages, state[m] # "ack", state'[m] = "ack"
  PROVE  m \in S /\ to = "ack"
BY DEF TypeOK, EmitSendState, States

\* Until a slot slips, a message turns 'ack' only when the recipient confirmed
\* one of its own attempts (handleSendConfirmed).
THEOREM AckMeansDelivered == Spec => AckIsDelivery
<1>1. IInv /\ [Next]_vars =>
        [\A m \in Messages :
           state[m] # "ack" /\ state'[m] = "ack" /\ ~slipped
             => \E c \in delivered' : of[c] = m]_vars
  <2> SUFFICES ASSUME IInv, [Next]_vars, NEW m \in Messages,
                      state[m] # "ack", state'[m] = "ack", ~slipped
               PROVE  \E c \in delivered' : of[c] = m
    OBVIOUS
  <2>1. TypeOK
    BY DEF IInv
  <2>2. ASSUME NEW c \in Sends, HandleSendConfirmed(c)
        PROVE  \E d \in delivered' : of[d] = m
    <3>1. /\ c \in delivered'
          /\ EmitSendState({e[2] : e \in {f \in pendingDmAcks : f[1] = c}}, "ack")
      BY <2>2 DEF HandleSendConfirmed
    <3>2. m \in {e[2] : e \in {f \in pendingDmAcks : f[1] = c}}
      BY <2>1, <3>1, EmitAck DEF States
    <3> QED
      BY <3>1, <3>2 DEF IInv, HashesAreOwn
  <2>3. ASSUME NEW c \in Sends, HandleSent(c) \/ HandleErr(c)
        PROVE  FALSE
    <3>1. \E S : EmitSendState(S, "sent") \/ EmitSendState(S, "failed")
      BY <2>3 DEF HandleSent, HandleErr
    <3> QED
      BY <2>1, <3>1, EmitAck DEF States
  <2>4. ASSUME NEW c \in Sends, LoseAnswer(c)
        PROVE  FALSE
    BY <2>4 DEF LoseAnswer
  <2>5. CASE Disconnect \/ Stop
    <3>1. (\E S : EmitSendState(S, "failed")) \/ UNCHANGED state
      BY <2>5 DEF Disconnect, Stop, ResetDmState
    <3> QED
      BY <2>1, <3>1, EmitAck DEF States
  <2>6. ASSUME NEW k \in Messages, CallStep(k) \/ \E p \in Plans : Call(k, p)
        PROVE  FALSE
    BY <2>1, <2>6 DEF TypeOK, CallStep, Call, Attempt, Written, WriteFails, AttemptTimesOut,
                      ResetPath, GiveUp
  <2>7. CASE (\E e \in pendingDmAcks : ForgetAck(e)) \/ Connect \/ UNCHANGED vars
    BY <2>7 DEF ForgetAck, Connect, vars
  <2> QED
    BY <2>2, <2>3, <2>4, <2>5, <2>6, <2>7 DEF Next
<1> QED
  BY <1>1, Invariance, PTL DEF Spec, AckIsDelivery

-----------------------------------------------------------------------------
(* DirectMessages implements Delivery.                                     *)

\* Where the call that sends m may be: it returns once, and without retries makes one
\* attempt.  A call that waits for its write made the last attempt.
Course(m) ==
  /\ plan[m] = "none" <=> state[m] = "none"
  /\ plan[m] = "none" => place[m] = "none"
  /\ place[m] # "returned" => result[m] = "none"
  /\ plan[m] = "once" => place[m] \in {"ready", "writing", "returned"}
  /\ plan[m] = "once" /\ place[m] = "ready" =>
       tries[m] = 0 /\ \A c \in Issued : of[c] # m
  /\ place[m] = "writing" => last[m] \in Issued /\ of[last[m]] = m

\* Attempts belong to messages whose call was made, and the radio takes what it answers.
Begins ==
  /\ \A c \in Issued : plan[of[c]] # "none"
  /\ \A c \in Sends \ Issued : of[c] = "none"
  /\ accepted \subseteq answered

Courses == Begins /\ \A m \in Messages : Course(m)

\* A hash is that of an attempt answered, and is kept for one message.
HashesAreOne ==
  /\ \A e \in pendingDmAcks : e[1] \notin inflight /\ plan[e[2]] # "none"
  /\ \A e, f \in pendingDmAcks : e[1] = f[1] => e[2] = f[2]

\* emitSendState leaves a call where it may be.
LEMMA EmitCourses ==
  ASSUME TypeOK, Courses, NEW S, NEW to \in States, EmitSendState(S, to),
         \A m \in Messages \cap S : plan[m] # "none",
         UNCHANGED <<plan, tries, last, issued, of>>
  PROVE  \A m \in Messages : Course(m)'
<1> SUFFICES ASSUME NEW m \in Messages
             PROVE  Course(m)'
  OBVIOUS
<1>1. Course(m) /\ Issued' = Issued
  BY DEF Courses, Issued
<1>2. CASE m \notin S
  <2>1. state'[m] = state[m] /\ place'[m] = place[m] /\ result'[m] = result[m]
    BY <1>2 DEF EmitSendState
  <2> QED
    BY <1>1, <2>1 DEF Course
<1>3. CASE m \in S
  <2>1. state'[m] # "none" /\ plan[m] # "none"
    BY <1>3 DEF EmitSendState, States
  <2>2. CASE place[m] # "awaiting" \/ to \notin {"ack", "failed"}
    <3>1. place'[m] = place[m] /\ result'[m] = result[m]
      BY <2>2 DEF EmitSendState
    <3> QED
      BY <1>1, <2>1, <3>1 DEF Course
  <2>3. CASE place[m] = "awaiting" /\ to = "ack"
    <3>1. place'[m] = "returned"
      BY <1>3, <2>3 DEF EmitSendState
    <3> QED
      BY <1>1, <2>1, <2>3, <3>1 DEF Course
  <2>4. CASE place[m] = "awaiting" /\ to = "failed"
    <3>1. place'[m] \in {"resetting", "ready"} /\ result'[m] = result[m]
      BY <1>3, <2>4 DEF EmitSendState, NextPlace
    <3> QED
      BY <1>1, <2>1, <2>4, <3>1 DEF Course
  <2> QED
    BY <2>2, <2>3, <2>4
<1> QED
  BY <1>2, <1>3

\* The slots are those of messages whose call was made.
LEMMA SlotsAreBegun ==
  ASSUME TypeOK, Known, Begins, NEW Q \in SUBSET dmSendQueue
  PROVE  \A m \in MessagesOf(Q) : m \in Messages /\ plan[m] # "none"
BY DEF Known, Begins, MessagesOf

\* The steps of a call keep calls where they may be.
LEMMA CallKeepsCourses ==
  ASSUME TypeOK, Known, Courses, NEW m \in Messages,
         CallStep(m) \/ \E p \in Plans : Call(m, p)
  PROVE  Courses'
<1>1. ASSUME NEW p \in Plans, Call(m, p)
      PROVE  Courses'
  <2>1. /\ plan[m] = "none" /\ tries[m] <= 0 /\ tries[m] \in Nat
        /\ plan'[m] = p /\ p # "none" /\ state'[m] = "sending"
        /\ place'[m] = (IF p = "path" /\ KnownAttempts = 0 THEN "resetting" ELSE "ready")
        /\ \A k \in Messages \ {m} :
             plan'[k] = plan[k] /\ state'[k] = state[k] /\ place'[k] = place[k]
        /\ UNCHANGED <<tries, last, result, issued, of, accepted, answered>>
    <3>1. plan[m] = "none" /\ Call(m, p)
      BY <1>1 DEF Call
    <3>2. tries[m] <= 0 /\ tries[m] \in Nat
      BY <3>1 DEF TypeOK
    <3> QED
      BY <3>1, <3>2 DEF Call, TypeOK, Plans, radio
  <2>2. Issued' = Issued /\ \A c \in Issued : of[c] \in Messages \ {m}
    BY <2>1 DEF Issued, Known, Courses, Begins
  <2>3. Begins'
    BY <2>1, <2>2 DEF Courses, Begins
  <2>4. Course(m)'
    BY <2>1, <2>2 DEF Courses, Course
  <2>5. \A k \in Messages \ {m} : Course(k)'
    BY <2>1, <2>2 DEF Courses, Course
  <2> QED
    BY <2>3, <2>4, <2>5 DEF Courses
<1>2. CASE Attempt(m)
  <2>1. /\ place[m] = "ready" /\ tries[m] < Attempts(plan[m])
        /\ UNCHANGED <<plan, state, accepted, answered>>
        /\ \A k \in Messages \ {m} :
             tries'[k] = tries[k] /\ place'[k] = place[k] /\ result'[k] = result[k]
    BY <1>2 DEF Attempt, TypeOK
  <2>2. CASE linkUp /\ issued < MaxSends
    <3> DEFINE new == issued + 1
    <3>1. /\ Issued' = Issued \cup {new} /\ new \notin Issued /\ new \in Sends
          /\ Issued \subseteq Sends /\ of'[new] = m /\ \A c \in Sends \ {new} : of'[c] = of[c]
      BY <1>2, <2>2, AttemptsAssumption DEF Attempt, Issued, TypeOK, Sends
    <3>2. /\ last'[m] = new /\ \A k \in Messages \ {m} : last'[k] = last[k]
          /\ place'[m] = "writing" /\ result' = result
      BY <1>2, <2>2 DEF Attempt, TypeOK
    <3> HIDE DEF new
    <3>3. plan[m] # "none"
      BY <2>1 DEF Courses, Course
    <3>4. Begins'
      BY <2>1, <3>1, <3>3 DEF Courses, Begins
    <3>5. Course(m)'
      BY <2>1, <3>1, <3>2, <3>3 DEF Courses, Course
    <3>6. \A k \in Messages \ {m} : Course(k)'
      BY <2>1, <3>1, <3>2 DEF Courses, Course
    <3> QED
      BY <3>4, <3>5, <3>6 DEF Courses
  <2>3. CASE ~linkUp
    <3>1. /\ UNCHANGED <<issued, of, last>> /\ Issued' = Issued
          /\ place'[m] = AfterRejection(m, tries[m] + 1)
          /\ result'[m] = IF plan[m] = "once" THEN "notOk" ELSE result[m]
      BY <1>2, <2>3 DEF Attempt, TypeOK, Issued
    <3>2. Begins'
      BY <2>1, <3>1 DEF Courses, Begins
    <3>3. Course(m)'
      BY <2>1, <3>1 DEF Courses, Course, AfterRejection
    <3>4. \A k \in Messages \ {m} : Course(k)'
      BY <2>1, <3>1 DEF Courses, Course
    <3> QED
      BY <3>2, <3>3, <3>4 DEF Courses
  <2> QED
    BY <1>2, <2>2, <2>3 DEF Attempt
<1>3. ASSUME UNCHANGED <<plan, tries, last, issued, of, accepted, answered>>,
             \A k \in Messages \ {m} :
               state'[k] = state[k] /\ place'[k] = place[k] /\ result'[k] = result[k],
             Course(m)'
      PROVE  Courses'
  <2>1. Issued' = Issued
    BY <1>3 DEF Issued
  <2>2. Begins'
    BY <1>3, <2>1 DEF Courses, Begins
  <2>3. \A k \in Messages \ {m} : Course(k)'
    BY <1>3, <2>1 DEF Courses, Course
  <2> QED
    BY <1>3, <2>2, <2>3 DEF Courses
<1>4. CASE Written(m)
  <2>1. /\ UNCHANGED <<plan, tries, last, state, issued, of, accepted, answered>>
        /\ Issued' = Issued /\ place[m] = "writing"
        /\ place'[m] = (IF plan[m] = "once" THEN "returned" ELSE "awaiting")
        /\ result'[m] = (IF plan[m] = "once" THEN "ok" ELSE result[m])
        /\ \A k \in Messages \ {m} : place'[k] = place[k] /\ result'[k] = result[k]
    BY <1>4 DEF Written, TypeOK, Issued, radio
  <2>2. Course(m)'
    BY <2>1 DEF Courses, Course
  <2> QED
    BY <1>3, <2>1, <2>2
<1>5. CASE WriteFails(m)
  <2>1. /\ UNCHANGED <<plan, tries, last, state, issued, of, accepted, answered>>
        /\ Issued' = Issued /\ place[m] = "writing"
        /\ place'[m] = AfterRejection(m, tries[m])
        /\ result'[m] = (IF plan[m] = "once" THEN "notOk" ELSE result[m])
        /\ \A k \in Messages \ {m} : place'[k] = place[k] /\ result'[k] = result[k]
    BY <1>5 DEF WriteFails, TypeOK, Issued
  <2>2. Course(m)'
    BY <2>1 DEF Courses, Course, AfterRejection
  <2> QED
    BY <1>3, <2>1, <2>2
<1>6. CASE AttemptTimesOut(m) \/ ResetPath(m)
  <2>1. /\ UNCHANGED <<plan, tries, last, state, result, issued, of, accepted, answered>>
        /\ Issued' = Issued /\ place[m] \in {"awaiting", "resetting"}
        /\ place'[m] \in {"ready", "resetting"}
        /\ \A k \in Messages \ {m} : place'[k] = place[k]
    BY <1>6 DEF AttemptTimesOut, ResetPath, NextPlace, TypeOK, Issued, radio
  <2>2. Course(m)'
    BY <2>1 DEF Courses, Course
  <2> QED
    BY <1>3, <2>1, <2>2
<1>7. CASE GiveUp(m)
  <2>1. /\ UNCHANGED <<plan, tries, last, issued, of, accepted, answered>>
        /\ Issued' = Issued /\ place[m] = "ready"
        /\ place'[m] = "returned" /\ state'[m] = "failed"
        /\ \A k \in Messages \ {m} :
             state'[k] = state[k] /\ place'[k] = place[k] /\ result'[k] = result[k]
    BY <1>7 DEF GiveUp, TypeOK, Issued, radio
  <2>2. Course(m)'
    BY <2>1 DEF Courses, Course
  <2> QED
    BY <1>3, <2>1, <2>2
<1> QED
  BY <1>1, <1>2, <1>4, <1>5, <1>6, <1>7 DEF CallStep

LEMMA NextCourses ==
  ASSUME TypeOK, Known, Courses, HashesAreOne, [Next]_vars
  PROVE  Courses'
<1>1. CASE UNCHANGED <<calls, state, issued, of, accepted, answered>>
  BY <1>1 DEF Courses, Begins, Course, Issued, calls
<1>2. ASSUME UNCHANGED <<plan, tries, last, issued, of>>,
             accepted' \subseteq answered', \A m \in Messages : Course(m)'
      PROVE  Courses'
  BY <1>2 DEF Courses, Begins, Issued
<1>3. ASSUME NEW c \in Sends, HandleSent(c) \/ HandleErr(c)
      PROVE  Courses'
  <2> DEFINE S == MessagesOf(Oldest(dmSendQueue))
  <2>1. /\ UNCHANGED <<plan, tries, last, issued, of>>
        /\ EmitSendState(S, "sent") \/ EmitSendState(S, "failed")
        /\ accepted' \subseteq answered'
    BY <1>3 DEF HandleSent, HandleErr, Answer, Courses, Begins
  <2>2. Oldest(dmSendQueue) \in SUBSET dmSendQueue
    BY DEF Oldest
  <2>3. \A m \in Messages \cap S : plan[m] # "none"
    BY <2>2, SlotsAreBegun DEF Courses
  <2> HIDE DEF S
  <2> QED
    BY <1>2, <2>1, <2>3, EmitCourses DEF States
<1>4. ASSUME NEW c \in Sends, LoseAnswer(c)
      PROVE  Courses'
  BY <1>4 DEF LoseAnswer, Answer, Courses, Begins, Course, Issued, calls
<1>5. ASSUME NEW c \in Sends, HandleSendConfirmed(c)
      PROVE  Courses'
  <2> DEFINE S == {e[2] : e \in {f \in pendingDmAcks : f[1] = c}}
  <2>1. /\ UNCHANGED <<plan, tries, last, issued, of, accepted, answered>>
        /\ EmitSendState(S, "ack")
    BY <1>5 DEF HandleSendConfirmed
  <2>2. \A m \in Messages \cap S : plan[m] # "none"
    BY DEF HashesAreOne
  <2> HIDE DEF S
  <2>3. accepted' \subseteq answered'
    BY <2>1 DEF Courses, Begins
  <2> QED
    BY <1>2, <2>1, <2>2, <2>3, EmitCourses DEF States
<1>6. CASE Disconnect \/ Stop
  <2>1. UNCHANGED <<plan, tries, last, issued, of, accepted, answered>>
    BY <1>6 DEF Disconnect, Stop, radio
  <2>2. CASE ResetDmState
    <3>1. \A m \in Messages \cap MessagesOf(dmSendQueue) : plan[m] # "none"
      BY SlotsAreBegun DEF Courses
    <3>2. accepted' \subseteq answered'
      BY <2>1 DEF Courses, Begins
    <3> QED
      BY <1>2, <2>1, <2>2, <3>1, <3>2, EmitCourses DEF ResetDmState, States
  <2>3. CASE UNCHANGED <<place, result, state>>
    BY <2>1, <2>3, <1>1 DEF calls
  <2> QED
    BY <1>6, <2>2, <2>3 DEF Disconnect, Stop
<1>7. CASE (\E e \in pendingDmAcks : ForgetAck(e)) \/ Connect \/ UNCHANGED vars
  BY <1>1, <1>7 DEF ForgetAck, Connect, vars, radio
<1> QED
  BY <1>3, <1>4, <1>5, <1>6, <1>7, CallKeepsCourses DEF Next

\* What is known of the hashes is kept while none is added, and none of an attempt
\* made anew.
LEMMA HashesStay ==
  ASSUME HashesAreOne, Known, pendingDmAcks' \subseteq pendingDmAcks,
         inflight' \subseteq inflight \cup {issued + 1}, issued \in Nat,
         \A m : plan[m] # "none" => plan'[m] # "none"
  PROVE  HashesAreOne'
<1>1. \A e \in pendingDmAcks : e[1] # issued + 1
  BY DEF Known, Issued
<1> QED
  BY <1>1 DEF HashesAreOne

LEMMA NextHashes ==
  ASSUME TypeOK, Known, Begins, HashesAreOne, [Next]_vars
  PROVE  HashesAreOne'
<1>1. issued \in Nat /\ dmSendQueue \in SUBSET Nat
  BY AttemptsAssumption DEF TypeOK, Sends
<1>2. ASSUME pendingDmAcks' \subseteq pendingDmAcks,
             inflight' \subseteq inflight \cup {issued + 1}, plan' = plan
      PROVE  HashesAreOne'
  BY <1>1, <1>2, HashesStay
<1>3. ASSUME NEW m \in Messages, NEW p \in Plans, Call(m, p)
      PROVE  HashesAreOne'
  <2>1. plan' = [plan EXCEPT ![m] = p] /\ p # "none" /\ UNCHANGED <<pendingDmAcks, inflight>>
    BY <1>3 DEF Call, Plans, radio
  <2>2. \A e \in pendingDmAcks : e[2] \in Messages
    BY DEF TypeOK
  <2>3. \A k \in Messages : plan[k] # "none" => plan'[k] # "none"
    BY <2>1 DEF TypeOK
  <2> QED
    BY <2>1, <2>2, <2>3 DEF HashesAreOne
<1>4. ASSUME NEW m \in Messages, CallStep(m)
      PROVE  HashesAreOne'
  <2>1. /\ pendingDmAcks' = pendingDmAcks /\ plan' = plan
        /\ inflight' \subseteq inflight \cup {issued + 1}
    BY <1>4 DEF CallStep, Attempt, Written, WriteFails, AttemptTimesOut, ResetPath, GiveUp, radio
  <2> QED
    BY <1>2, <2>1
<1>5. ASSUME NEW c \in Sends, HandleSent(c)
      PROVE  HashesAreOne'
  <2> DEFINE head == Oldest(dmSendQueue)
             new  == {c} \X MessagesOf(head)
  <2>1. /\ c \in inflight /\ inflight' = inflight \ {c} /\ plan' = plan
        /\ pendingDmAcks' = pendingDmAcks \cup new
    BY <1>5 DEF HandleSent, Answer, Oldest
  <2>2. \A e \in pendingDmAcks : e[1] # c
    BY <2>1 DEF HashesAreOne
  <2>3. /\ \A k, l \in MessagesOf(head) : k = l
        /\ \A k \in MessagesOf(head) : plan[k] # "none"
    <3>1. head \in SUBSET dmSendQueue /\ \A d, e \in head : d = e
      BY <1>1, OldestIsOne DEF Oldest
    <3> HIDE DEF head
    <3> QED
      BY <3>1, SlotsAreBegun DEF MessagesOf
  <2>4. \A e \in new : e[1] = c /\ e[2] \in MessagesOf(head)
    OBVIOUS
  <2> HIDE DEF new, head
  <2>5. \A e \in pendingDmAcks' : e[1] \notin inflight' /\ plan'[e[2]] # "none"
    BY <2>1, <2>3, <2>4 DEF HashesAreOne
  <2>6. ASSUME NEW e \in pendingDmAcks', NEW f \in pendingDmAcks', e[1] = f[1]
        PROVE  e[2] = f[2]
    <3>1. CASE e \in new /\ f \in new
      BY <2>3, <2>4, <3>1
    <3>2. CASE e \in pendingDmAcks /\ f \in pendingDmAcks
      BY <2>6, <3>2 DEF HashesAreOne
    <3> QED
      BY <2>1, <2>2, <2>4, <2>6, <3>1, <3>2
  <2> QED
    BY <2>5, <2>6 DEF HashesAreOne
<1>6. ASSUME NEW c \in Sends, HandleErr(c) \/ LoseAnswer(c) \/ HandleSendConfirmed(c)
      PROVE  HashesAreOne'
  <2>1. pendingDmAcks' \subseteq pendingDmAcks /\ plan' = plan /\ inflight' \subseteq inflight
    BY <1>6 DEF HandleErr, LoseAnswer, HandleSendConfirmed, Answer, calls
  <2> QED
    BY <1>2, <2>1
<1>7. CASE (\E e \in pendingDmAcks : ForgetAck(e)) \/ Connect \/ UNCHANGED vars
  <2>1. pendingDmAcks' \subseteq pendingDmAcks /\ plan' = plan /\ inflight' = inflight
    BY <1>7 DEF ForgetAck, Connect, vars, calls, radio
  <2> QED
    BY <1>2, <2>1
<1>8. CASE Disconnect \/ Stop
  <2>1. pendingDmAcks' \subseteq pendingDmAcks /\ plan' = plan /\ inflight' \subseteq inflight
    BY <1>8 DEF Disconnect, Stop, ResetDmState, radio
  <2> QED
    BY <1>2, <2>1
<1> QED
  BY <1>3, <1>4, <1>5, <1>6, <1>7, <1>8 DEF Next

\* Calls stay where they may be and hashes stay their own, of every behaviour.
THEOREM CoursesHold == Spec => [](IInv /\ Courses /\ HashesAreOne)
<1>1. Init => Courses /\ HashesAreOne
  BY DEF Init, Courses, Begins, Course, HashesAreOne, Issued
<1>2. IInv /\ Courses /\ HashesAreOne /\ [Next]_vars => Courses' /\ HashesAreOne'
  BY NextCourses, NextHashes DEF IInv, Courses
<1> QED
  BY <1>1, <1>2, Invariance, PTL DEF Spec

\* sendDmTextWithRetry sends m.
Retried == [m \in Messages |-> plan[m] \in {"path", "flood"}]

\* A message whose call was made is one that Delivery has begun.
LEMMA BegunIs ==
  ASSUME Courses, TypeOK
  PROVE  /\ Promise!Begun = {m \in Messages : plan[m] # "none"}
         /\ \A m \in Messages : plan[m] # "none" => (plan[m] = "once" <=> ~Retried[m])
<1>1. \A m \in Messages : plan[m] = "none" <=> state[m] = "none"
  BY DEF Courses, Course
<1>2. \A m \in Messages : plan[m] \in {"none", "once", "path", "flood"}
  BY DEF TypeOK, Plans
<1>3. \A m \in Messages : Retried[m] <=> plan[m] \in {"path", "flood"}
  BY DEF Retried
<1> QED
  BY <1>1, <1>2, <1>3 DEF Promise!Begun

\* What emitSendState does to states is a Move; it returns a call only with 'ack'.
LEMMA EmitPromise ==
  ASSUME TypeOK, Courses, NEW S, NEW to \in States, EmitSendState(S, to),
         S \subseteq Messages, \A m \in S : plan[m] # "none"
  PROVE  Promise!Move(S, to) /\ (to # "ack" => UNCHANGED result)
<1>1. Promise!Move(S, to)
  BY BegunIs DEF EmitSendState, Promise!Move
<1>2. to # "ack" => UNCHANGED result
  BY DEF EmitSendState, TypeOK
<1> QED
  BY <1>1, <1>2

LEMMA CallPromise ==
  ASSUME TypeOK, Courses, NEW m \in Messages, NEW p \in Plans, Call(m, p)
  PROVE  Promise!Next
<1>1. /\ plan[m] = "none" /\ plan' = [plan EXCEPT ![m] = p]
      /\ state' = [state EXCEPT ![m] = "sending"]
      /\ UNCHANGED <<result, of, inflight, accepted, delivered, slipped>>
  BY DEF Call, radio
<1>2. state[m] = "none"
  BY <1>1 DEF Courses, Course
<1>3. Retried' = [Retried EXCEPT ![m] = p \in {"path", "flood"}]
  BY <1>1 DEF Retried, TypeOK
<1>4. CASE p \in {"path", "flood"}
  <2>1. Retried' = [Retried EXCEPT ![m] = TRUE]
    BY <1>3, <1>4
  <2>2. Promise!Begin(m, TRUE)
    BY <1>1, <1>2, <2>1 DEF Promise!Begin, Retried
  <2> QED
    BY <2>2 DEF Promise!Next
<1>5. CASE p \notin {"path", "flood"}
  <2>1. Retried' = [Retried EXCEPT ![m] = FALSE]
    <3>1. (p \in {"path", "flood"}) = FALSE
      BY <1>5
    <3> QED
      BY <1>3, <3>1
  <2>2. Promise!Begin(m, FALSE)
    BY <1>1, <1>2, <2>1 DEF Promise!Begin, Retried
  <2> QED
    BY <2>2 DEF Promise!Next
<1> QED
  BY <1>4, <1>5

\* The write of an attempt, or its rejection on a closed link.
LEMMA AttemptPromise ==
  ASSUME TypeOK, Known, Courses, NEW m \in Messages, Attempt(m)
  PROVE  Promise!Next \/ UNCHANGED Promise!vars
<1>1. /\ place[m] = "ready" /\ tries[m] < Attempts(plan[m])
      /\ UNCHANGED <<plan, state, accepted, delivered, slipped>>
  BY DEF Attempt
<1>2. plan[m] # "none" /\ result[m] = "none" /\ m \in Promise!Begun /\ Retried' = Retried
  BY <1>1, BegunIs DEF Courses, Course, Retried
<1>3. CASE linkUp /\ issued < MaxSends
  <2> DEFINE new == issued + 1
  <2>1. /\ new \in Sends \ Issued /\ of' = [of EXCEPT ![new] = m]
        /\ inflight' = inflight \cup {new} /\ result' = result
    BY <1>3, AttemptsAssumption DEF Attempt, TypeOK, Sends, Issued
  <2> HIDE DEF new
  <2>2. of[new] = "none"
    BY <2>1 DEF Courses, Begins
  <2>3. Retried[m] \/ \A d \in Sends : of[d] # m
    <3>1. CASE plan[m] = "once"
      <4>1. \A d \in Issued : of[d] # m
        BY <1>1, <3>1 DEF Courses, Course
      <4>2. \A d \in Sends \ Issued : of[d] # m
        BY NoneAssumption DEF Courses, Begins
      <4> QED
        BY <4>1, <4>2
    <3> QED
      BY <1>2, <3>1, BegunIs
  <2>4. Promise!Issue(m, new)
    BY <1>1, <1>2, <2>1, <2>2, <2>3 DEF Promise!Issue, Retried
  <2> QED
    BY <2>1, <2>4 DEF Promise!Next
<1>4. CASE ~linkUp
  <2>1. /\ UNCHANGED <<of, inflight>>
        /\ result' = [result EXCEPT ![m] = IF plan[m] = "once" THEN "notOk" ELSE result[m]]
    BY <1>4 DEF Attempt
  <2>2. CASE plan[m] = "once"
    <3>1. ~Retried[m]
      BY <1>2, <2>2, BegunIs
    <3>2. Promise!Refused(m)
      BY <1>1, <1>2, <2>1, <2>2, <3>1 DEF Promise!Refused, Promise!Return, Retried
    <3> QED
      BY <3>2 DEF Promise!Next
  <2>3. CASE plan[m] # "once"
    <3>1. result' = result
      BY <2>1, <2>3 DEF TypeOK
    <3> QED
      BY <1>1, <1>2, <2>1, <3>1 DEF Promise!vars, Retried
  <2> QED
    BY <2>2, <2>3
<1> QED
  BY <1>3, <1>4 DEF Attempt

\* A write that resolves returns the call, or begins awaitDmOutcome.
LEMMA WrittenPromise ==
  ASSUME TypeOK, Courses, NEW m \in Messages, Written(m)
  PROVE  Promise!Next \/ UNCHANGED Promise!vars
<1>1. /\ place[m] = "writing"
      /\ result' = [result EXCEPT ![m] = IF plan[m] = "once" THEN "ok" ELSE result[m]]
      /\ UNCHANGED <<plan, state, of, inflight, accepted, delivered, slipped>>
  BY DEF Written, radio
<1>2. /\ plan[m] # "none" /\ result[m] = "none" /\ Retried' = Retried
      /\ last[m] \in Issued /\ of[last[m]] = m
  BY <1>1 DEF Courses, Course, Retried
<1>3. CASE plan[m] = "once"
  <2>1. ~Retried[m]
    BY <1>2, <1>3, BegunIs
  <2>2. last[m] \in Sends
    BY <1>2, AttemptsAssumption DEF Issued, Sends, TypeOK
  <2>3. Promise!Written(m)
    BY <1>1, <1>2, <1>3, <2>1, <2>2 DEF Promise!Written, Promise!Return, Retried
  <2> QED
    BY <2>3 DEF Promise!Next
<1>4. CASE plan[m] # "once"
  <2>1. result' = result
    BY <1>1, <1>4 DEF TypeOK
  <2> QED
    BY <1>1, <1>2, <2>1 DEF Promise!vars, Retried
<1> QED
  BY <1>3, <1>4

\* A write that fails takes the oldest slot of its message: its own, unless an
\* earlier attempt is still to be answered.
LEMMA WriteFailsPromise ==
  ASSUME IInv, Courses, NEW m \in Messages, WriteFails(m)
  PROVE  Promise!Next
<1> DEFINE c == last[m]
<1>1. /\ place[m] = "writing" /\ c \notin answered
      /\ inflight' = inflight \ {c}
      /\ slipped' = (slipped \/ Dequeued(m) # dmSendQueue \cap {c})
      /\ result' = [result EXCEPT ![m] = IF plan[m] = "once" THEN "notOk" ELSE result[m]]
      /\ UNCHANGED <<plan, state, of, accepted, delivered>>
  BY DEF WriteFails
<1>2. /\ plan[m] # "none" /\ result[m] = "none" /\ Retried' = Retried
      /\ c \in Issued /\ of[c] = m
  BY <1>1 DEF Courses, Course, Retried
<1>3. c \in Sends /\ c \notin accepted
  BY <1>1, <1>2, AttemptsAssumption DEF Issued, Sends, IInv, TypeOK, Courses, Begins
<1> HIDE DEF c
<1>4. slipped \in BOOLEAN /\ slipped' \in BOOLEAN
  BY <1>1 DEF IInv, TypeOK
<1>5. ASSUME slipped', ~slipped
      PROVE  \E d \in inflight' : of[d] = m
  <2>1. dmSendQueue = inflight /\ inflight \in SUBSET Nat
    BY <1>5, AttemptsAssumption DEF IInv, SlotsMatchAnswers, TypeOK, Sends
  <2>2. Dequeued(m) # dmSendQueue \cap {c}
    BY <1>1, <1>5
  <2>3. SUFFICES ASSUME \A d \in inflight : of[d] = m => d = c
                 PROVE  FALSE
    BY <1>1
  <2>4. {d \in dmSendQueue : of[d] = m} = dmSendQueue \cap {c}
    BY <1>2, <2>1, <2>3
  <2>5. Oldest(dmSendQueue \cap {c}) = dmSendQueue \cap {c}
    BY <2>1 DEF Oldest
  <2> QED
    BY <2>2, <2>4, <2>5 DEF Dequeued
<1>6. IF Retried[m] THEN UNCHANGED result ELSE Promise!Return(m, "notOk")
  <2>1. TypeOK
    BY DEF IInv
  <2>2. plan[m] = "once" <=> ~Retried[m]
    BY <1>2, <2>1, BegunIs
  <2>3. CASE plan[m] = "once"
    BY <1>1, <1>2, <2>2, <2>3 DEF Promise!Return
  <2>4. CASE plan[m] # "once"
    BY <1>1, <2>1, <2>2, <2>4 DEF TypeOK
  <2> QED
    BY <2>3, <2>4
<1>7. slipped => slipped'
  BY <1>1
<1>8. Promise!Withdraw(c)
  BY <1>1, <1>2, <1>3, <1>4, <1>5, <1>6, <1>7 DEF Promise!Withdraw, Retried
<1> QED
  BY <1>3, <1>8 DEF Promise!Next

LEMMA GiveUpPromise ==
  ASSUME TypeOK, Courses, NEW m \in Messages, GiveUp(m)
  PROVE  Promise!Next
<1>1. /\ place[m] = "ready" /\ tries[m] >= Attempts(plan[m])
      /\ result' = [result EXCEPT ![m] = "notOk"]
      /\ state' = [state EXCEPT ![m] = "failed"]
      /\ UNCHANGED <<plan, of, inflight, accepted, delivered, slipped>>
  BY DEF GiveUp, radio
<1>2. plan[m] # "none" /\ result[m] = "none" /\ plan[m] # "once" /\ Retried' = Retried
  BY <1>1 DEF Courses, Course, Retried, Attempts
<1>3. Retried[m] /\ m \in Promise!Begun
  BY <1>2, BegunIs
<1>4. Promise!Move({m}, "failed")
  BY <1>1, <1>3 DEF Promise!Move, TypeOK
<1>5. Promise!GiveUp(m)
  BY <1>1, <1>2, <1>3, <1>4 DEF Promise!GiveUp, Promise!Return, Retried
<1> QED
  BY <1>5 DEF Promise!Next

\* RESP_SENT and RESP_ERR: the head is the slot of the attempt answered, or they parted.
LEMMA AnswerPromise ==
  ASSUME IInv, Courses, NEW c \in Sends, HandleSent(c) \/ HandleErr(c)
  PROVE  Promise!Next
<1> DEFINE head == Oldest(dmSendQueue)
           S    == MessagesOf(head)
<1>1. /\ Answer(c) /\ c \in inflight /\ inflight' = inflight \ {c}
      /\ UNCHANGED <<plan, of, delivered, slipped>> /\ Retried' = Retried
      /\ \/ EmitSendState(S, "sent") /\ accepted' = accepted \cup {c}
         \/ EmitSendState(S, "failed") /\ accepted' = accepted
  BY DEF HandleSent, HandleErr, Answer, Oldest, Retried
<1>2. TypeOK /\ Known /\ Begins /\ Slots
  BY DEF IInv, Courses, Slots
<1>3. head \in SUBSET dmSendQueue /\ \A d, e \in head : d = e
  <2>1. dmSendQueue \in SUBSET Nat
    BY <1>2, AttemptsAssumption DEF TypeOK, Sends
  <2> QED
    BY <2>1, OldestIsOne DEF Oldest
<1>4. ~slipped => head = {c}
  BY <1>1, <1>2, HeadIsAnswered
<1> HIDE DEF head
<1>5. S \subseteq Messages /\ \A m \in S : plan[m] # "none"
  BY <1>2, <1>3, SlotsAreBegun
<1>6. S \in {{}} \cup {{m} : m \in Messages}
  <2>1. \A k, l \in S : k = l
    BY <1>3 DEF MessagesOf
  <2> HIDE DEF S
  <2>2. CASE S # {}
    <3>1. PICK k : k \in S
      BY <2>2
    <3>2. S = {k} /\ k \in Messages
      BY <1>5, <2>1, <3>1
    <3> QED
      BY <3>2
  <2> QED
    BY <2>2
<1>7. ~slipped => S = {of[c]}
  BY <1>4 DEF MessagesOf
<1> HIDE DEF S
<1>8. /\ UNCHANGED result
      /\ \/ Promise!Move(S, "sent") /\ accepted' = accepted \cup {c}
         \/ Promise!Move(S, "failed") /\ accepted' = accepted
  BY <1>1, <1>2, <1>5, EmitPromise DEF States
<1>9. Promise!Answer(c)
  BY <1>1, <1>6, <1>7, <1>8 DEF Promise!Answer, Retried
<1> QED
  BY <1>9 DEF Promise!Next

LEMMA LosePromise ==
  ASSUME NEW c \in Sends, LoseAnswer(c)
  PROVE  Promise!Next
<1>1. /\ c \in inflight /\ inflight' = inflight \ {c} /\ accepted' = accepted \cup {c}
      /\ slipped' = TRUE /\ UNCHANGED <<state, result, plan, of, delivered>>
  BY DEF LoseAnswer, Answer, Oldest, calls
<1>2. Promise!Lose(c)
  BY <1>1 DEF Promise!Lose
<1> QED
  BY <1>2 DEF Promise!Next

\* A confirmation finds at most one message by its hash: its own, until a slot slips.
LEMMA ConfirmPromise ==
  ASSUME IInv, Courses, HashesAreOne, NEW c \in Sends, HandleSendConfirmed(c)
  PROVE  Promise!Next
<1> DEFINE S == {e[2] : e \in {f \in pendingDmAcks : f[1] = c}}
<1>1. /\ c \in accepted \ delivered /\ delivered' = delivered \cup {c}
      /\ EmitSendState(S, "ack")
      /\ UNCHANGED <<plan, of, inflight, accepted, slipped>> /\ Retried' = Retried
  BY DEF HandleSendConfirmed, Retried
<1>2. TypeOK
  BY DEF IInv
<1>3. S \subseteq Messages /\ \A m \in S : plan[m] # "none"
  BY <1>2 DEF HashesAreOne, TypeOK
<1>4. \A k, l \in S : k = l
  BY DEF HashesAreOne
<1>5. ~slipped => S \subseteq {of[c]}
  BY DEF IInv, HashesAreOwn
<1> HIDE DEF S
<1>6. S \in {{}} \cup {{m} : m \in Messages}
  <2>1. CASE S # {}
    <3>1. PICK k : k \in S
      BY <2>1
    <3>2. S = {k} /\ k \in Messages
      BY <1>3, <1>4, <3>1
    <3> QED
      BY <3>2
  <2> QED
    BY <2>1
<1>7. Promise!Move(S, "ack")
  BY <1>1, <1>2, <1>3, EmitPromise DEF States
<1>8. \/ UNCHANGED result
      \/ \E m \in S : Retried[m] /\ Promise!Return(m, "ok")
  <2>1. CASE \E m \in S : place[m] = "awaiting"
    <3>1. PICK m \in S : place[m] = "awaiting"
      BY <2>1
    <3>2. Course(m) /\ m \in Messages
      BY <1>3, <3>1 DEF Courses
    <3>3. result[m] = "none" /\ plan[m] # "once" /\ plan[m] # "none"
      BY <3>1, <3>2 DEF Course
    <3>4. Retried[m]
      BY <1>2, <3>2, <3>3, BegunIs
    <3>5. \A k \in Messages : result'[k] = IF k = m THEN "ok" ELSE result[k]
      BY <1>1, <1>4, <3>1 DEF EmitSendState
    <3>6. result' = [k \in Messages |-> result'[k]]
      BY <1>1 DEF EmitSendState
    <3>7. result' = [result EXCEPT ![m] = "ok"]
      BY <1>2, <3>5, <3>6 DEF TypeOK
    <3> QED
      BY <3>1, <3>3, <3>4, <3>7 DEF Promise!Return
  <2>2. CASE \A m \in S : place[m] # "awaiting"
    BY <1>1, <1>2, <2>2 DEF EmitSendState, TypeOK
  <2> QED
    BY <2>1, <2>2
<1>9. Promise!Confirm(c)
  BY <1>1, <1>5, <1>6, <1>7, <1>8 DEF Promise!Confirm, Retried
<1> QED
  BY <1>9 DEF Promise!Next

\* resetDmState fails the messages whose answers are owed, until a slot slips.
LEMMA ResetPromise ==
  ASSUME IInv, Courses, ResetDmState
  PROVE  Promise!FailWaiting /\ UNCHANGED result
<1> DEFINE S == MessagesOf(dmSendQueue)
<1>1. TypeOK /\ Known /\ Begins /\ EmitSendState(S, "failed")
  BY DEF IInv, Courses, ResetDmState
<1>2. S \subseteq Messages /\ \A m \in S : plan[m] # "none"
  BY <1>1, SlotsAreBegun
<1>3. ~slipped => S = Promise!MessagesOf(inflight)
  BY DEF IInv, SlotsMatchAnswers, MessagesOf, Promise!MessagesOf
<1> HIDE DEF S
<1>4. Promise!Move(S, "failed") /\ UNCHANGED result
  BY <1>1, <1>2, EmitPromise DEF States
<1> QED
  BY <1>2, <1>3, <1>4 DEF Promise!FailWaiting

LEMMA LinkPromise ==
  ASSUME IInv, Courses, Disconnect \/ Stop
  PROVE  Promise!Next
<1>1. CASE Disconnect
  <2>1. inflight' = {} /\ UNCHANGED <<plan, of, accepted, delivered>> /\ Retried' = Retried
    BY <1>1 DEF Disconnect, Retried
  <2>2. CASE ResetDmState /\ slipped' = FALSE
    BY <2>1, <2>2, ResetPromise DEF Promise!Close, Promise!Next, Retried
  <2>3. CASE slipped' = (slipped \/ dmSendQueue # {}) /\ UNCHANGED <<state, result>>
    <3>1. slipped' = (slipped \/ inflight # {})
      BY <2>3 DEF IInv, SlotsMatchAnswers
    <3> QED
      BY <2>1, <2>3, <3>1 DEF Promise!Close, Promise!Next, Retried
  <2> QED
    BY <1>1, <2>2, <2>3 DEF Disconnect
<1>2. CASE Stop
  <2>1. /\ ResetDmState /\ slipped' = (slipped \/ inflight # {})
        /\ UNCHANGED <<plan, of, inflight, accepted, delivered>> /\ Retried' = Retried
    BY <1>2 DEF Stop, Retried, radio
  <2> QED
    BY <2>1, ResetPromise DEF Promise!Stop, Promise!Next, Retried
<1> QED
  BY <1>1, <1>2

\* sendDmText, the retry loop, the FIFO of slots and the table of hashes together do
\* what Delivery promises: every answer and every confirmation moves the message of
\* its own attempt, and a call returns once, until an answer is lost or a slot slips.
THEOREM DeliveryIsImplemented == Spec => ImplementsDelivery
<1>1. Init => Promise!Init
  <2> SUFFICES ASSUME Init
               PROVE  Promise!Init
    OBVIOUS
  <2>1. [m \in Messages |-> plan[m] \in {"path", "flood"}] = [m \in Messages |-> FALSE]
    <3>1. \A m \in Messages : plan[m] \notin {"path", "flood"}
      BY DEF Init
    <3>2. ASSUME NEW m \in Messages
          PROVE  (plan[m] \in {"path", "flood"}) = FALSE
      <4>1. plan[m] \notin {"path", "flood"}
        BY <3>1
      <4> QED
        BY <4>1
    <3> QED
      BY <3>2
  <2> QED
    BY <2>1 DEF Init, Promise!Init
<1>2. IInv /\ Courses /\ HashesAreOne /\ [Next]_vars => [Promise!Next]_(Promise!vars)
  <2> SUFFICES ASSUME IInv, Courses, HashesAreOne, [Next]_vars
               PROVE  Promise!Next \/ UNCHANGED Promise!vars
    OBVIOUS
  <2>1. TypeOK /\ Known
    BY DEF IInv
  <2>2. ASSUME NEW m \in Messages, CallStep(m)
        PROVE  Promise!Next \/ UNCHANGED Promise!vars
    <3>1. CASE AttemptTimesOut(m) \/ ResetPath(m)
      BY <3>1 DEF AttemptTimesOut, ResetPath, radio, Promise!vars
    <3> QED
      BY <2>1, <2>2, <3>1, AttemptPromise, WrittenPromise, WriteFailsPromise, GiveUpPromise
         DEF CallStep
  <2>3. ASSUME NEW m \in Messages, NEW p \in Plans, Call(m, p)
        PROVE  Promise!Next
    BY <2>1, <2>3, CallPromise
  <2>4. ASSUME NEW c \in Sends,
               HandleSent(c) \/ HandleErr(c) \/ LoseAnswer(c) \/ HandleSendConfirmed(c)
        PROVE  Promise!Next
    BY <2>4, AnswerPromise, LosePromise, ConfirmPromise
  <2>5. CASE (\E e \in pendingDmAcks : ForgetAck(e)) \/ Connect \/ UNCHANGED vars
    BY <2>5 DEF ForgetAck, Connect, vars, calls, radio, Promise!vars
  <2>6. CASE Disconnect \/ Stop
    BY <2>6, LinkPromise
  <2> QED
    BY <2>2, <2>3, <2>4, <2>5, <2>6 DEF Next
<1> QED
  BY <1>1, <1>2, CoursesHold, PTL DEF Spec, ImplementsDelivery, Promise!Spec

=============================================================================

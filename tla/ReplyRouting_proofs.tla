------------------------- MODULE ReplyRouting_proofs -------------------------
(***************************************************************************)
(* Proofs about ReplyRouting for every number of commands.                 *)
(*                                                                         *)
(* The argument: every queued slot belongs to a command of the queue's     *)
(* kind whose answer is still owed (WaitersAreOwed), so when the oldest    *)
(* owed answer arrives and its command still waits, that command is at the *)
(* head of each queue it is in and older than every other head; each       *)
(* routing rule then picks exactly it.                                     *)
(***************************************************************************)
EXTENDS ReplyRouting, TLAPS

USE MaxCmdsAssumption

AckKinds == TypedKinds \cup {"ack", "import", "expect"}

\* Each queue holds commands of its own kinds, and a waiter's command exists.
QueueKinds ==
  /\ \A c \in pendingAcks : kind[c] \in AckKinds
  /\ \A code \in TypedCodes : \A c \in pendingTyped[code] :
       kind[c] \in TypedKinds /\ ExpectOf(kind[c]) = code
  /\ \A c \in adminSentQueue : kind[c] = "admin"
  /\ \A c \in dmSendQueue : kind[c] = "dm"
  /\ \A c \in pendingContactByKey : kind[c] = "lookup"
  /\ \A c \in pendingExports : kind[c] = "export"

\* No trace of a stamp that has not been taken.
Unissued ==
  \A c \in Ids : c > issued => /\ c \notin Waiting
                               /\ c \notin inflight
                               /\ kind[c] = "none"
                               /\ outcome[c] = "none"

\* The inductive invariant.
IInv ==
  /\ TypeOK
  /\ QueueKinds
  /\ Unissued
  /\ TwinsTogether
  /\ WaitersAreOwed
  /\ OwedAreWaiting
  /\ PendingIsQueued
  /\ CutOffIsNotRefused

-----------------------------------------------------------------------------
(* The head of a queue.                                                    *)

\* The oldest stamp of a set is unique (oldestSeq has one answer).
LEMMA OldestUnique ==
  ASSUME NEW S \in SUBSET Nat, NEW c \in Oldest(S), NEW d \in Oldest(S)
  PROVE  c = d
BY DEF Oldest

\* The oldest owed command is the head of every queue it is in.
LEMMA OldestOfPart ==
  ASSUME NEW S \in SUBSET Nat, NEW c \in Oldest(S),
         NEW Q \in SUBSET S, c \in Q
  PROVE  Oldest(Q) = {c}
<1>1. c \in S /\ \A d \in S : c <= d
  BY DEF Oldest
<1>2. c \in Oldest(Q)
  BY <1>1 DEF Oldest
<1>3. \A d \in Oldest(Q) : d \in Nat /\ d <= c /\ c <= d
  BY <1>1 DEF Oldest
<1>4. \A d \in Oldest(Q) : d = c
  BY <1>1, <1>3
<1> QED
  BY <1>2, <1>4

\* A queue's head is in the queue.
LEMMA OldestInside ==
  ASSUME NEW S
  PROVE  Oldest(S) \subseteq S
BY DEF Oldest

\* Every frame settles only commands that wait.
LEMMA RouteWaits ==
  ASSUME NEW code \in Codes
  PROVE  Route(code) \subseteq Waiting
BY DEF Route, RouteOk, RouteErr, RouteSent, RouteDisabled, HandleSent,
       AnsweredSlot, Oldest, Waiting, FeatureWaiting, TypedOwnsSent

\* The answer to the oldest owed command, if it still waits and every waiter's
\* answer is owed, is routed to that command alone.
LEMMA RouteOwn ==
  ASSUME TypeOK, QueueKinds, TwinsTogether, Waiting \subseteq inflight,
         NEW c \in Oldest(inflight), c \in Waiting,
         NEW code \in Answers(kind[c])
  PROVE  Route(code) = {c}
<1>1. /\ inflight \in SUBSET Nat
      /\ c \in Ids
  BY DEF TypeOK, Ids, Oldest
<1>2. \A Q \in SUBSET inflight : c \in Q => Oldest(Q) = {c}
  BY <1>1, OldestOfPart
<1>3. \A d \in Waiting : c <= d
  BY DEF Oldest
<1>4. /\ pendingAcks \subseteq inflight
      /\ pendingTyped["TYPED"] \subseteq inflight
      /\ pendingTyped["SENT"] \subseteq inflight
      /\ adminSentQueue \subseteq inflight
      /\ dmSendQueue \subseteq inflight
      /\ pendingContactByKey \subseteq inflight
      /\ pendingExports \subseteq inflight
  BY DEF Waiting, FeatureWaiting
<1>5. kind[c] \in Kinds \cup {"none"}
  BY <1>1 DEF TypeOK
<1>6. kind[c] \in Kinds \ {"bare"}
  BY <1>5 DEF QueueKinds, AckKinds, TypedKinds, TypedCodes, Waiting, FeatureWaiting, Kinds
<1>7. /\ c \in pendingAcks <=> kind[c] \in AckKinds
      /\ c \in pendingTyped["TYPED"] <=> kind[c] = "typed"
      /\ c \in pendingTyped["SENT"] <=> kind[c] = "path"
      /\ c \in adminSentQueue <=> kind[c] = "admin"
      /\ c \in dmSendQueue <=> kind[c] = "dm"
      /\ c \in pendingContactByKey <=> kind[c] = "lookup"
      /\ c \in pendingExports <=> kind[c] = "export"
  BY <1>1, <1>6 DEF QueueKinds, AckKinds, TypedKinds, TypedCodes, Waiting, FeatureWaiting, Kinds,
     TwinsTogether, ExpectOf
<1>8. \A Q \in SUBSET Waiting : c \notin Q => \A d \in Q : c < d
  BY <1>1, <1>3 DEF Oldest, TypeOK, Ids, Waiting, FeatureWaiting
<1>9. CASE code = "ERR"
  <2> DEFINE Heads == Oldest(pendingAcks) \cup Oldest(adminSentQueue)
                      \cup Oldest(dmSendQueue) \cup Oldest(pendingContactByKey)
  <2>1. kind[c] \in AckKinds \cup {"admin", "dm", "lookup"}
    BY <1>6, <1>9 DEF Answers, AckKinds, TypedKinds, Kinds
  <2>2. c \in Heads
    BY <2>1, <1>2, <1>4, <1>7
  <2>3. Heads \subseteq inflight
    BY <1>4, OldestInside
  <2>4. Oldest(Heads) = {c}
    BY <2>2, <2>3, <1>2
  <2> QED
    BY <2>4, <1>9 DEF Route, RouteErr
<1>10. CASE code = "OK"
  <2> DEFINE Slots == {a \in pendingAcks : ~ErrOnly(a)}
  <2>1. kind[c] \in {"ack", "import"}
    BY <1>6, <1>10 DEF Answers, Kinds
  <2>2. c \in Slots
    BY <2>1, <1>7 DEF AckKinds, ErrOnly, TypedKinds
  <2>3. Oldest(Slots) = {c}
    BY <2>2, <1>2, <1>4
  <2> QED
    BY <2>3, <1>10 DEF Route, RouteOk
<1>11. CASE code = "DISABLED"
  <2> DEFINE Slots == {a \in pendingAcks : AnsweredBy(a, code)}
  <2>1. kind[c] \in {"import", "export"}
    BY <1>6, <1>11 DEF Answers, Kinds
  <2>2. CASE kind[c] = "import"
    <3>1. c \in Slots
      BY <2>2, <1>7, <1>11 DEF AckKinds, AnsweredBy
    <3>2. Oldest(Slots) = {c}
      BY <3>1, <1>2, <1>4
    <3>3. \A e \in Oldest(pendingExports) : c < e
      BY <2>2, <1>7, <1>8, OldestInside DEF Waiting, FeatureWaiting
    <3>4. AnsweredSlot(code) = {c}
      BY <3>2, <3>3 DEF AnsweredSlot
    <3> QED
      BY <3>4, <1>11 DEF Route, RouteDisabled
  <2>3. CASE kind[c] = "export"
    <3>1. Oldest(pendingExports) = {c}
      BY <2>3, <1>7, <1>2, <1>4
    <3>2. \A a \in pendingAcks : a \in Nat /\ c <= a
      BY <1>1, <1>3, <1>4 DEF Waiting, FeatureWaiting
    <3>3. AnsweredSlot(code) = {}
      BY <3>1, <3>2, <1>1, <1>11 DEF AnsweredSlot, Oldest
    <3> QED
      BY <3>1, <3>3, <1>11 DEF Route, RouteDisabled
  <2> QED
    BY <2>1, <2>2, <2>3
<1>12. CASE code = "SENT"
  <2>1. kind[c] \in {"path", "admin", "dm"}
    BY <1>6, <1>12 DEF Answers, Kinds
  <2>2. \A d \in Waiting : d \in Nat /\ c <= d /\ c \in Nat
    BY <1>1, <1>3
  <2>3. CASE kind[c] = "path"
    <3>1. Oldest(pendingTyped["SENT"]) = {c}
      BY <2>3, <1>7, <1>2, <1>4
    <3>2. TypedOwnsSent(c)
      BY <2>3, <1>7, <1>8, OldestInside DEF TypedOwnsSent, Waiting, FeatureWaiting
    <3> QED
      BY <3>1, <3>2, <1>12 DEF Route, RouteSent
  <2>4. CASE kind[c] = "admin"
    <3>1. Oldest(adminSentQueue) = {c}
      BY <2>4, <1>7, <1>2, <1>4
    <3>2. \A d \in Oldest(pendingTyped["SENT"]) : ~TypedOwnsSent(d)
      BY <3>1, <2>2, OldestInside DEF TypedOwnsSent, Waiting, FeatureWaiting
    <3>3. \A d \in Oldest(dmSendQueue) : c < d
      BY <2>4, <1>7, <1>8, OldestInside DEF Waiting, FeatureWaiting
    <3>4. HandleSent = {c}
      BY <3>1, <3>3 DEF HandleSent
    <3> QED
      BY <3>2, <3>4, <1>12 DEF Route, RouteSent
  <2>5. CASE kind[c] = "dm"
    <3>1. Oldest(dmSendQueue) = {c}
      BY <2>5, <1>7, <1>2, <1>4
    <3>2. \A d \in Oldest(pendingTyped["SENT"]) : ~TypedOwnsSent(d)
      BY <3>1, <2>2, OldestInside DEF TypedOwnsSent, Waiting, FeatureWaiting
    <3>3. \A d \in Oldest(adminSentQueue) : ~(d < c)
      BY <2>2, OldestInside DEF Waiting, FeatureWaiting
    <3>4. HandleSent = {c}
      BY <3>1, <3>3 DEF HandleSent
    <3> QED
      BY <3>2, <3>4, <1>12 DEF Route, RouteSent
  <2> QED
    BY <2>1, <2>3, <2>4, <2>5
<1>13. CASE code = "TYPED"
  <2>1. kind[c] = "typed"
    BY <1>6, <1>13 DEF Answers, Kinds
  <2> QED
    BY <2>1, <1>2, <1>4, <1>7, <1>13 DEF Route
<1>14. CASE code = "STREAM"
  <2> DEFINE Slots == {a \in pendingAcks : AnsweredBy(a, code)}
  <2>1. kind[c] = "expect"
    BY <1>6, <1>14 DEF Answers, Kinds
  <2>2. c \in Slots
    BY <2>1, <1>7, <1>14 DEF AckKinds, AnsweredBy
  <2>3. Oldest(Slots) = {c}
    BY <2>2, <1>2, <1>4
  <2> QED
    BY <2>3, <1>14 DEF Route, AnsweredSlot
<1>15. CASE code = "CONTACT"
  <2>1. kind[c] = "lookup"
    BY <1>6, <1>15 DEF Answers, Kinds
  <2> QED
    BY <2>1, <1>2, <1>4, <1>7, <1>15 DEF Route
<1>16. CASE code = "PRIVATE_KEY"
  <2>1. kind[c] = "export"
    BY <1>6, <1>16 DEF Answers, Kinds
  <2> QED
    BY <2>1, <1>2, <1>4, <1>7, <1>16 DEF Route
<1>17. code \in Codes \ {"INFO"}
  BY <1>6 DEF Answers, Kinds, Codes
<1> QED
  BY <1>9, <1>10, <1>11, <1>12, <1>13, <1>14, <1>15, <1>16, <1>17 DEF Codes

-----------------------------------------------------------------------------
(* The queues.                                                             *)

\* Taking S off the queues leaves the other waiters where they were.
LEMMA UnqueueWaiting ==
  ASSUME NEW S, Unqueue(S)
  PROVE  Waiting' = Waiting \ S
BY DEF Unqueue, Waiting, FeatureWaiting, TypedCodes

\* Queueing a command adds it, and no other, to the waiters.
LEMMA EnqueueWaiting ==
  ASSUME NEW c, NEW k \in Kinds, Enqueue(c, k)
  PROVE  Waiting' = Waiting \cup {x \in {c} : k # "bare"}
BY DEF Enqueue, Waiting, FeatureWaiting, TypedCodes, TypedKinds, Kinds, ExpectOf

\* Taking commands off the queues keeps the queues of their own kinds and typed.
LEMMA UnqueueKeeps ==
  ASSUME TypeOK, QueueKinds, TwinsTogether, NEW S, Unqueue(S), UNCHANGED kind
  PROVE  /\ QueueKinds'
         /\ TwinsTogether'
         /\ pendingAcks' \subseteq Ids
         /\ pendingTyped' \in [TypedCodes -> SUBSET Ids]
         /\ adminSentQueue' \subseteq Ids
         /\ dmSendQueue' \subseteq Ids
         /\ pendingContactByKey' \subseteq Ids
         /\ pendingExports' \subseteq Ids
<1>1. QueueKinds'
  BY DEF TypeOK, QueueKinds, Unqueue
<1>2. TwinsTogether'
  BY DEF TypeOK, TwinsTogether, Unqueue, ExpectOf, TypedCodes
<1> QED
  BY <1>1, <1>2 DEF TypeOK, Unqueue

\* Settling callers keeps their outcomes well typed; only a caller that was
\* pending changes.
LEMMA SettleKeeps ==
  ASSUME TypeOK, NEW S, NEW how \in Outcomes \ {"none", "pending"}, Settle(S, how)
  PROVE  /\ outcome' \in [Ids -> Outcomes]
         /\ \A c \in Ids : outcome[c] # "pending" => outcome'[c] = outcome[c]
         /\ \A c \in Ids : outcome'[c] = "pending" => outcome[c] = "pending" /\ c \notin S
         /\ \A c \in Ids : outcome'[c] # outcome[c] => outcome'[c] = how
BY DEF TypeOK, Settle

-----------------------------------------------------------------------------
(* The invariant is inductive: one lemma per step of the host and the link.*)

\* The session starts with nothing issued, queued or owed.
LEMMA InitInv == Init => IInv
<1> SUFFICES ASSUME Init PROVE IInv
  OBVIOUS
<1>1. TypeOK
  <2>1. /\ kind \in [Ids -> Kinds \cup {"none"}]
        /\ outcome \in [Ids -> Outcomes]
    BY DEF Init, Outcomes
  <2>2. pendingTyped \in [TypedCodes -> SUBSET Ids]
    BY DEF Init
  <2>3. issued \in 0..MaxCmds
    BY DEF Init
  <2> QED
    BY <2>1, <2>2, <2>3 DEF Init, TypeOK
<1>2. Waiting = {}
  BY DEF Init, Waiting, FeatureWaiting, TypedCodes
<1>3. QueueKinds /\ Unissued
  BY <1>2 DEF Init, QueueKinds, Unissued
<1>4. TwinsTogether
  BY DEF Init, TwinsTogether, TypedKinds
<1>5. WaitersAreOwed /\ OwedAreWaiting /\ PendingIsQueued /\ CutOffIsNotRefused
  BY <1>2 DEF Init, WaitersAreOwed, OwedAreWaiting, PendingIsQueued, CutOffIsNotRefused
<1> QED
  BY <1>1, <1>3, <1>4, <1>5 DEF IInv

\* A command is queued in the turn that stamps and writes it, on the queues of
\* its kind: its waiter and its owed answer appear together.
LEMMA IssueInv ==
  ASSUME IInv, NEW k \in Kinds, Issue(k)
  PROVE  IInv'
<1> DEFINE n == issued + 1
<1> USE DEF IInv, Issue, NextReplySeq
<1>1. /\ n \in Ids
      /\ n \notin Waiting /\ n \notin inflight /\ kind[n] = "none" /\ outcome[n] = "none"
      /\ issued' = n /\ issued \in Nat
  BY DEF TypeOK, Ids, Unissued
<1>2. Waiting' = Waiting \cup {x \in {n} : k # "bare"}
  BY EnqueueWaiting
<1>3. /\ kind'[n] = k
      /\ outcome'[n] = IF k = "bare" THEN "none" ELSE "pending"
      /\ \A c \in Ids : c # n => kind'[c] = kind[c] /\ outcome'[c] = outcome[c]
      /\ kind' \in [Ids -> Kinds \cup {"none"}]
      /\ outcome' \in [Ids -> Outcomes]
  BY <1>1 DEF TypeOK, Outcomes
<1>4. TypeOK'
  <2>1. issued' \in 0..MaxCmds /\ inflight' \subseteq Ids
    BY <1>1 DEF TypeOK, Ids
  <2>2. /\ pendingAcks' \subseteq Ids /\ adminSentQueue' \subseteq Ids
        /\ dmSendQueue' \subseteq Ids /\ pendingContactByKey' \subseteq Ids
        /\ pendingExports' \subseteq Ids
        /\ pendingTyped' \in [TypedCodes -> SUBSET Ids]
    BY <1>1 DEF TypeOK, Enqueue
  <2> QED
    BY <1>3, <2>1, <2>2 DEF TypeOK, session
<1>5. QueueKinds'
  <2>1. /\ n \notin pendingAcks /\ n \notin adminSentQueue /\ n \notin dmSendQueue
        /\ n \notin pendingContactByKey /\ n \notin pendingExports
        /\ n \notin pendingTyped["TYPED"] /\ n \notin pendingTyped["SENT"]
    BY <1>1 DEF Waiting, FeatureWaiting
  <2>2. /\ \A c \in pendingAcks' : kind'[c] \in AckKinds
        /\ \A c \in adminSentQueue' : kind'[c] = "admin"
        /\ \A c \in dmSendQueue' : kind'[c] = "dm"
        /\ \A c \in pendingContactByKey' : kind'[c] = "lookup"
        /\ \A c \in pendingExports' : kind'[c] = "export"
    BY <2>1, <1>3 DEF QueueKinds, Enqueue, TypeOK, AckKinds
  <2>3. \A code \in TypedCodes : \A c \in pendingTyped'[code] :
          kind'[c] \in TypedKinds /\ ExpectOf(kind'[c]) = code
    BY <2>1, <1>3 DEF QueueKinds, Enqueue, TypeOK, TypedCodes
  <2> QED
    BY <2>2, <2>3 DEF QueueKinds
<1>6. Unissued'
  BY <1>1, <1>2, <1>3 DEF Unissued, TypeOK, Ids
<1>7. TwinsTogether'
  <2>1. SUFFICES ASSUME NEW c \in Ids, kind'[c] \in TypedKinds
                 PROVE  c \in pendingAcks' <=> c \in pendingTyped'[ExpectOf(kind'[c])]
    BY DEF TwinsTogether
  <2>2. CASE c = n
    BY <2>1, <2>2, <1>3 DEF Enqueue, TypedKinds, TypedCodes, ExpectOf
  <2>3. CASE c # n
    BY <2>1, <2>3, <1>3 DEF Enqueue, TypedKinds, TypedCodes, ExpectOf, TwinsTogether
  <2> QED
    BY <2>2, <2>3
<1>8. WaitersAreOwed' /\ OwedAreWaiting'
  BY <1>1, <1>2, <1>3 DEF WaitersAreOwed, OwedAreWaiting, TypeOK
<1>9. PendingIsQueued' /\ CutOffIsNotRefused'
  BY <1>1, <1>2, <1>3 DEF PendingIsQueued, CutOffIsNotRefused
<1> QED
  BY <1>4, <1>5, <1>6, <1>7, <1>8, <1>9

\* A rejected write takes the waiter and the owed answer away together.
LEMMA WriteFailInv ==
  ASSUME IInv, NEW c \in Ids, WriteFail(c)
  PROVE  IInv'
<1> USE DEF IInv, WriteFail
<1>1. Waiting' = Waiting \ {c}
  BY UnqueueWaiting
<1>2. TypeOK' /\ QueueKinds' /\ TwinsTogether'
  BY UnqueueKeeps, SettleKeeps DEF TypeOK, Outcomes, session
<1>3. \A d \in Ids : outcome'[d] = "pending" => outcome[d] = "pending" /\ d \notin Waiting \cap {c}
  BY SettleKeeps DEF Outcomes
<1>4. Unissued'
  BY <1>1, SettleKeeps DEF Unissued, Outcomes
<1>5. WaitersAreOwed' /\ OwedAreWaiting'
  BY <1>1 DEF WaitersAreOwed, OwedAreWaiting
<1>6. PendingIsQueued'
  BY <1>1, <1>3 DEF PendingIsQueued
<1>7. CutOffIsNotRefused'
  BY SettleKeeps DEF CutOffIsNotRefused, Outcomes
<1> QED
  BY <1>2, <1>4, <1>5, <1>6, <1>7

\* A timer takes the waiter only: from then on an owed answer may have no waiter,
\* which gaveUp records.
LEMMA ExpireInv ==
  ASSUME IInv, NEW c \in Ids, Expire(c)
  PROVE  IInv'
<1> USE DEF IInv, Expire
<1>1. Waiting' = Waiting \ {c}
  BY UnqueueWaiting
<1>2. TypeOK' /\ QueueKinds' /\ TwinsTogether'
  BY UnqueueKeeps, SettleKeeps DEF TypeOK, Outcomes, session
<1>3. \A d \in Ids : outcome'[d] = "pending" => outcome[d] = "pending" /\ d # c
  BY SettleKeeps DEF Outcomes
<1>4. Unissued'
  BY <1>1, SettleKeeps DEF Unissued, Outcomes
<1>5. WaitersAreOwed' /\ OwedAreWaiting'
  BY <1>1 DEF WaitersAreOwed, OwedAreWaiting
<1>6. PendingIsQueued'
  BY <1>1, <1>3 DEF PendingIsQueued
<1>7. CutOffIsNotRefused'
  BY SettleKeeps DEF CutOffIsNotRefused, Outcomes
<1> QED
  BY <1>2, <1>4, <1>5, <1>6, <1>7

\* An abort settles the caller and leaves its slot parked.
LEMMA AbortInv ==
  ASSUME IInv, NEW c \in Ids, Abort(c)
  PROVE  IInv'
<1> USE DEF IInv, Abort
<1>1. Waiting' = Waiting /\ UNCHANGED queues
  BY DEF Waiting, FeatureWaiting, queues
<1>2. TypeOK' /\ QueueKinds' /\ TwinsTogether'
  BY <1>1, SettleKeeps DEF TypeOK, Outcomes, queues, session, QueueKinds, TwinsTogether
<1>3. Unissued' /\ WaitersAreOwed' /\ OwedAreWaiting'
  BY <1>1, SettleKeeps DEF Unissued, WaitersAreOwed, OwedAreWaiting, Outcomes
<1>4. PendingIsQueued' /\ CutOffIsNotRefused'
  BY <1>1, SettleKeeps DEF PendingIsQueued, CutOffIsNotRefused, Outcomes
<1> QED
  BY <1>2, <1>3, <1>4

\* The oldest owed answer settles its own command if that one still waits, so no
\* waiter is left behind without an answer coming.
LEMMA ReplyInv ==
  ASSUME IInv, NEW c \in Ids, NEW code \in Codes, Reply(c, code)
  PROVE  IInv'
<1> USE DEF IInv, Reply
<1> DEFINE R == Route(code)
<1>1. Waiting' = Waiting \ R
  BY UnqueueWaiting
<1>2. TypeOK' /\ QueueKinds' /\ TwinsTogether'
  BY UnqueueKeeps, SettleKeeps DEF TypeOK, Outcomes, session
<1>3. c \in inflight /\ inflight' = inflight \ {c}
  BY OldestInside
<1>4. ~lost => Waiting \subseteq inflight
  BY DEF WaitersAreOwed
<1>5. ~lost /\ c \in Waiting => R = {c}
  BY <1>4, RouteOwn
<1>6. WaitersAreOwed'
  BY <1>1, <1>3, <1>4, <1>5 DEF WaitersAreOwed
<1>7. ASSUME ~gaveUp, ~lost
      PROVE  R \subseteq {c}
  <2>1. \A d \in inflight : kind[d] = "bare" \/ d \in Waiting
    BY <1>7 DEF OwedAreWaiting
  <2>2. CASE c \in Waiting
    BY <1>5, <1>7, <2>2
  <2>3. CASE kind[c] = "bare"
    BY <2>3 DEF Answers, Route, Kinds
  <2> QED
    BY <1>3, <2>1, <2>2, <2>3
<1>8. OwedAreWaiting'
  BY <1>1, <1>3, <1>7 DEF OwedAreWaiting
<1>9. Unissued'
  BY <1>1, <1>3, SettleKeeps DEF Unissued, Outcomes
<1>10. PendingIsQueued' /\ CutOffIsNotRefused'
  BY <1>1, SettleKeeps DEF PendingIsQueued, CutOffIsNotRefused, Outcomes
<1> QED
  BY <1>2, <1>6, <1>8, <1>9, <1>10

\* A lost answer changes no queue; lost records it.
LEMMA DropReplyInv ==
  ASSUME IInv, NEW c \in Ids, DropReply(c)
  PROVE  IInv'
BY DEF DropReply, IInv, queues, TypeOK, QueueKinds, Unissued, TwinsTogether,
       WaitersAreOwed, OwedAreWaiting, PendingIsQueued, CutOffIsNotRefused, Waiting,
       FeatureWaiting, session

\* A teardown, whichever edge runs it, empties the queues and settles every
\* caller, a typed one always with the reason.
LEMMA TearDownSettles ==
  ASSUME IInv, TearDownConnection, UNCHANGED kind
  PROVE  /\ Waiting' = {}
         /\ outcome' \in [Ids -> Outcomes]
         /\ \A c \in Ids : outcome'[c] # "pending"
         /\ \A c \in Ids : outcome[c] = "none" => outcome'[c] = "none"
         /\ CutOffIsNotRefused'
<1> USE DEF IInv, TearDownConnection
<1>1. Waiting' = {}
  BY UnqueueWaiting
<1>2. \A c \in Ids : outcome'[c] = IF c \in Waiting /\ outcome[c] = "pending"
                                   THEN TearDownOutcome(c) ELSE outcome[c]
  OBVIOUS
<1>3. \A c \in Ids : TearDownOutcome(c) \in {"notOk", "closed"}
  BY DEF TearDownOutcome
<1>4. /\ outcome' \in [Ids -> Outcomes]
      /\ \A c \in Ids : outcome'[c] # "pending"
      /\ \A c \in Ids : outcome[c] = "none" => outcome'[c] = "none"
  BY <1>2, <1>3 DEF TypeOK, Outcomes, PendingIsQueued
<1>5. CutOffIsNotRefused'
  <2>1. SUFFICES ASSUME NEW c \in Ids, kind[c] \in TypedKinds
                 PROVE  outcome'[c] # "notOk"
    BY DEF CutOffIsNotRefused
  <2>2. c \in pendingAcks => c \in pendingTyped["TYPED"] \cup pendingTyped["SENT"]
    BY <2>1 DEF TwinsTogether, ExpectOf
  <2>3. TearDownOutcome(c) = "closed"
    BY <2>2 DEF TearDownOutcome
  <2> QED
    BY <2>1, <2>3, <1>2 DEF CutOffIsNotRefused
<1> QED
  BY <1>1, <1>4, <1>5

\* A lost link empties the queues and the link together, if the session saw it
\* open; else the slots left behind are recorded in lost.
LEMMA DisconnectInv ==
  ASSUME IInv, Disconnect
  PROVE  IInv'
<1> USE DEF IInv, Disconnect
<1>1. CASE connected /\ TearDownConnection
  <2>1. /\ Waiting' = {}
        /\ outcome' \in [Ids -> Outcomes]
        /\ \A c \in Ids : outcome'[c] # "pending"
        /\ \A c \in Ids : outcome[c] = "none" => outcome'[c] = "none"
        /\ CutOffIsNotRefused'
    BY <1>1, TearDownSettles
  <2>2. TypeOK' /\ QueueKinds' /\ TwinsTogether'
    BY <1>1, <2>1, UnqueueKeeps DEF TypeOK, TearDownConnection
  <2>3. Unissued' /\ WaitersAreOwed' /\ OwedAreWaiting' /\ PendingIsQueued'
    BY <2>1 DEF Unissued, WaitersAreOwed, OwedAreWaiting, PendingIsQueued
  <2> QED
    BY <2>1, <2>2, <2>3
<1>2. CASE ~connected /\ UNCHANGED <<outcome, queues>>
  <2>1. Waiting' = Waiting
    BY <1>2 DEF Waiting, FeatureWaiting, queues
  <2>2. TypeOK' /\ QueueKinds' /\ TwinsTogether'
    BY <1>2 DEF TypeOK, QueueKinds, TwinsTogether, queues
  <2>3. Unissued' /\ OwedAreWaiting' /\ PendingIsQueued' /\ CutOffIsNotRefused'
    BY <1>2, <2>1 DEF Unissued, OwedAreWaiting, PendingIsQueued, CutOffIsNotRefused
  <2>4. WaitersAreOwed'
    BY <2>1 DEF WaitersAreOwed
  <2> QED
    BY <2>2, <2>3, <2>4
<1> QED
  BY <1>1, <1>2

\* stop() empties the queues it reaches; the answers still owed are recorded in
\* gaveUp.
LEMMA StopInv ==
  ASSUME IInv, Stop
  PROVE  IInv'
<1> USE DEF IInv, Stop
<1>1. CASE connected /\ TearDownConnection
  <2>1. /\ Waiting' = {}
        /\ outcome' \in [Ids -> Outcomes]
        /\ \A c \in Ids : outcome'[c] # "pending"
        /\ \A c \in Ids : outcome[c] = "none" => outcome'[c] = "none"
        /\ CutOffIsNotRefused'
    BY <1>1, TearDownSettles
  <2>2. TypeOK' /\ QueueKinds' /\ TwinsTogether'
    BY <1>1, <2>1, UnqueueKeeps DEF TypeOK, TearDownConnection
  <2>3. Unissued' /\ WaitersAreOwed' /\ PendingIsQueued'
    BY <2>1 DEF Unissued, WaitersAreOwed, PendingIsQueued
  <2>4. OwedAreWaiting'
    BY <2>1 DEF OwedAreWaiting
  <2> QED
    BY <2>1, <2>2, <2>3, <2>4
<1>2. CASE ~connected /\ ResetFeatures
  <2> USE <1>2 DEF ResetFeatures
  <2>1. Waiting' = Waiting \ FeatureWaiting
    BY UnqueueWaiting
  <2>2. /\ outcome' \in [Ids -> Outcomes]
        /\ \A c \in Ids : outcome[c] # "pending" => outcome'[c] = outcome[c]
        /\ \A c \in Ids : outcome'[c] = "pending" => outcome[c] = "pending" /\ c \notin FeatureWaiting
        /\ \A c \in Ids : outcome'[c] # outcome[c] => outcome'[c] = "closed"
    BY SettleKeeps DEF Outcomes
  <2>3. TypeOK' /\ QueueKinds' /\ TwinsTogether'
    BY <2>2, UnqueueKeeps DEF TypeOK
  <2>4. Unissued' /\ WaitersAreOwed' /\ PendingIsQueued' /\ CutOffIsNotRefused'
    BY <2>1, <2>2 DEF Unissued, WaitersAreOwed, PendingIsQueued, CutOffIsNotRefused
  <2>5. OwedAreWaiting'
    BY <2>1 DEF OwedAreWaiting
  <2> QED
    BY <2>3, <2>4, <2>5
<1> QED
  BY <1>1, <1>2

\* Connect, Start and Drive change neither the queues nor a caller.
LEMMA OpenInv ==
  ASSUME IInv, Connect \/ Start \/ Drive \/ UNCHANGED vars
  PROVE  IInv'
<1> USE DEF IInv
<1>1. /\ UNCHANGED <<kind, outcome, issued, inflight, queues, gaveUp, lost>>
      /\ started' \in BOOLEAN /\ linkUp' \in BOOLEAN /\ connected' \in BOOLEAN
  BY DEF Connect, Start, Drive, vars, session, TypeOK
<1>2. Waiting' = Waiting
  BY <1>1 DEF Waiting, FeatureWaiting, queues
<1>3. TypeOK' /\ QueueKinds' /\ TwinsTogether'
  BY <1>1 DEF TypeOK, QueueKinds, TwinsTogether, queues
<1>4. Unissued' /\ WaitersAreOwed' /\ OwedAreWaiting' /\ CutOffIsNotRefused'
  BY <1>1, <1>2 DEF Unissued, WaitersAreOwed, OwedAreWaiting, CutOffIsNotRefused
<1>5. PendingIsQueued'
  BY <1>1, <1>2 DEF PendingIsQueued
<1> QED
  BY <1>3, <1>4, <1>5

\* Every step preserves the invariant.
LEMMA NextInv ==
  ASSUME IInv, [Next]_vars
  PROVE  IInv'
BY IssueInv, WriteFailInv, ExpireInv, AbortInv, ReplyInv, DropReplyInv,
   DisconnectInv, StopInv, OpenInv DEF Next

-----------------------------------------------------------------------------
(* The theorems.                                                           *)

\* The inductive invariant holds of every behaviour.
THEOREM Invariance == Spec => []IInv
<1>1. Init => IInv
  BY InitInv
<1>2. IInv /\ [Next]_vars => IInv'
  BY NextInv
<1> QED
  BY <1>1, <1>2, PTL DEF Spec

\* Type correctness of the reply queues.
THEOREM TypeCorrect == Spec => []TypeOK
<1>1. IInv => TypeOK
  BY DEF IInv
<1> QED
  BY <1>1, Invariance, PTL

\* While no answer was lost every queued slot's answer is still coming, for any
\* number of commands: no slot is left behind to take another command's answer.
THEOREM WaitersOwed == Spec => []WaitersAreOwed
<1>1. IInv => WaitersAreOwed
  BY DEF IInv
<1> QED
  BY <1>1, Invariance, PTL

\* No caller is left pending without a slot that can still settle it.
THEOREM NoOrphanCaller == Spec => []PendingIsQueued
<1>1. IInv => PendingIsQueued
  BY DEF IInv
<1> QED
  BY <1>1, Invariance, PTL

\* A typed request cut off by a teardown is never reported as refused.
THEOREM TeardownNamesReason == Spec => []CutOffIsNotRefused
<1>1. IInv => CutOffIsNotRefused
  BY DEF IInv
<1> QED
  BY <1>1, Invariance, PTL

\* Every edge that forgets a connection empties the queues.
THEOREM TeardownIsComplete == Spec => NothingOutlivesTheLink
<1>1. ASSUME IInv, [Next]_vars, connected, ~connected'
      PROVE  Waiting' = {}
  <2>1. TearDownConnection
    BY <1>1 DEF Next, Issue, WriteFail, Expire, Abort, Reply, DropReply, Disconnect,
       Connect, Start, Drive, Stop, vars, session
  <2> QED
    BY <2>1, UnqueueWaiting DEF TearDownConnection
<1>2. IInv /\ [Next]_vars => [connected /\ ~connected' => Waiting' = {}]_vars
  BY <1>1
<1> QED
  BY <1>2, Invariance, PTL DEF Spec, NothingOutlivesTheLink

\* Which steps end an owed answer while the link stays up and no answer is lost:
\* its arrival or the rejection of its write.
LEMMA AnswerEnds ==
  ASSUME IInv, [Next]_vars, NEW c \in inflight,
         inflight' = inflight \ {c}, linkUp, linkUp', ~lost'
  PROVE  ~lost /\ c \in Ids /\ (WriteFail(c) \/ \E code \in Codes : Reply(c, code))
<1>0. c \in Ids /\ issued \in Nat
  BY DEF IInv, TypeOK
<1>1. inflight' # inflight
  OBVIOUS
<1>2. ASSUME NEW k \in Kinds, Issue(k)
      PROVE  FALSE
  BY <1>2 DEF Issue, NextReplySeq
<1>3. ASSUME NEW d \in Ids, Expire(d) \/ Abort(d)
      PROVE  FALSE
  BY <1>1, <1>3 DEF Expire, Abort
<1>4. ASSUME NEW d \in Ids, DropReply(d)
      PROVE  FALSE
  BY <1>4 DEF DropReply
<1>5. ASSUME NEW d \in Ids, WriteFail(d)
      PROVE  ~lost /\ d = c
  BY <1>5 DEF WriteFail
<1>6. ASSUME NEW d \in Ids, NEW code \in Codes, Reply(d, code)
      PROVE  ~lost /\ d = c
  BY <1>6, OldestInside DEF Reply
<1>7. CASE Disconnect \/ Connect \/ Start \/ Drive \/ Stop \/ UNCHANGED vars
  BY <1>1, <1>7 DEF Disconnect, Connect, Start, Drive, Stop, vars, session
<1> QED
  BY <1>0, <1>2, <1>3, <1>4, <1>5, <1>6, <1>7 DEF Next

\* The answer to a command that still waits settles that command and no other,
\* whatever has timed out before it.
THEOREM OwnReply == Spec => OwnReplySettles
<1>1. ASSUME IInv, [Next]_vars, NEW c \in inflight, c \in Waiting,
             inflight' = inflight \ {c}, linkUp, linkUp', ~lost'
      PROVE  Waiting' = Waiting \ {c}
  <2>1. ~lost /\ (WriteFail(c) \/ \E code \in Codes : Reply(c, code))
    BY <1>1, AnswerEnds
  <2>2. CASE WriteFail(c)
    BY <2>2, UnqueueWaiting DEF WriteFail
  <2>3. ASSUME NEW code \in Codes, Reply(c, code)
        PROVE  Waiting' = Waiting \ {c}
    <3>1. Route(code) = {c}
      BY <1>1, <2>1, <2>3, RouteOwn DEF IInv, WaitersAreOwed, Reply
    <3> QED
      BY <2>3, <3>1, UnqueueWaiting DEF Reply
  <2> QED
    BY <2>1, <2>2, <2>3
<1>2. IInv /\ [Next]_vars =>
        [\A c \in inflight :
           /\ c \in Waiting /\ inflight' = inflight \ {c}
           /\ linkUp /\ linkUp' /\ ~lost'
           => Waiting' = Waiting \ {c}]_vars
  BY <1>1
<1> QED
  BY <1>2, Invariance, PTL DEF Spec, OwnReplySettles

\* While no waiter has given up and no answer was lost, an answer settles no
\* command but its own, orphaned or not.
THEOREM Exact == Spec => ExactCorrelation
<1>1. ASSUME IInv, [Next]_vars, NEW c \in inflight, inflight' = inflight \ {c},
             linkUp, linkUp', ~gaveUp', ~lost'
      PROVE  Waiting \ Waiting' \subseteq {c}
  <2>1. ~lost /\ (WriteFail(c) \/ \E code \in Codes : Reply(c, code))
    BY <1>1, AnswerEnds
  <2>2. CASE WriteFail(c)
    BY <2>2, UnqueueWaiting DEF WriteFail
  <2>3. ASSUME NEW code \in Codes, Reply(c, code)
        PROVE  Waiting \ Waiting' \subseteq {c}
    <3>1. Waiting' = Waiting \ Route(code) /\ ~gaveUp
      BY <1>1, <2>3, UnqueueWaiting DEF Reply
    <3>2. CASE c \in Waiting
      <4>1. Route(code) = {c}
        BY <1>1, <2>1, <2>3, <3>2, RouteOwn DEF IInv, WaitersAreOwed, Reply
      <4> QED
        BY <3>1, <4>1
    <3>3. CASE kind[c] = "bare"
      <4>1. Route(code) = {}
        BY <2>3, <3>3 DEF Reply, Answers, Route, Kinds
      <4> QED
        BY <3>1, <4>1
    <3> QED
      BY <1>1, <2>1, <3>1, <3>2, <3>3 DEF IInv, OwedAreWaiting
  <2> QED
    BY <2>1, <2>2, <2>3
<1>2. IInv /\ [Next]_vars =>
        [\A c \in inflight :
           /\ inflight' = inflight \ {c} /\ linkUp /\ linkUp'
           /\ ~gaveUp' /\ ~lost'
           => Waiting \ Waiting' \subseteq {c}]_vars
  BY <1>1
<1> QED
  BY <1>2, Invariance, PTL DEF Spec, ExactCorrelation

\* A caller is settled once, by whichever of its answer, timer, abort or
\* teardown comes first.
THEOREM Settled == Spec => SettledOnce
<1>1. ASSUME IInv, [Next]_vars, NEW c \in Ids, outcome[c] \notin {"none", "pending"}
      PROVE  outcome'[c] = outcome[c]
  <2>1. \A S, how : Settle(S, how) => outcome'[c] = outcome[c]
    BY <1>1 DEF Settle
  <2>2. ASSUME NEW k \in Kinds, Issue(k)
        PROVE  outcome'[c] = outcome[c]
    <3>1. outcome[NextReplySeq] = "none" /\ NextReplySeq \in Ids
      BY <1>1, <2>2 DEF IInv, TypeOK, Unissued, Issue, NextReplySeq, Ids
    <3> QED
      BY <1>1, <2>2, <3>1 DEF Issue, IInv, TypeOK
  <2>3. ASSUME NEW d \in Ids, WriteFail(d) \/ Expire(d) \/ Abort(d) \/ DropReply(d)
        PROVE  outcome'[c] = outcome[c]
    BY <2>1, <2>3 DEF WriteFail, Expire, Abort, DropReply
  <2>4. ASSUME NEW d \in Ids, NEW code \in Codes, Reply(d, code)
        PROVE  outcome'[c] = outcome[c]
    BY <2>1, <2>4 DEF Reply
  <2>5. CASE Disconnect \/ Stop
    BY <1>1, <2>1, <2>5 DEF Disconnect, Stop, TearDownConnection, ResetFeatures
  <2>6. CASE Connect \/ Start \/ Drive \/ UNCHANGED vars
    BY <2>6 DEF Connect, Start, Drive, vars
  <2> QED
    BY <1>1, <2>2, <2>3, <2>4, <2>5, <2>6 DEF Next
<1>2. IInv /\ [Next]_vars =>
        [\A c \in Ids : outcome[c] \notin {"none", "pending"} => outcome'[c] = outcome[c]]_vars
  BY <1>1
<1> QED
  BY <1>2, Invariance, PTL DEF Spec, SettledOnce

-----------------------------------------------------------------------------
(* The refinement: each step of the queues is a step of Correlation, where  *)
(* every frame names its command, or changes nothing that Correlation sees. *)

\* Settling with one outcome is settling with one of a set of one.
LEMMA SettleIdeal ==
  ASSUME NEW S, NEW hows, NEW how \in hows, Settle(S, how)
  PROVE  Ideal!Settle(S, hows)
<1> DEFINE h == [c \in S |-> how]
<1>1. h \in [S -> hows]
  OBVIOUS
<1>2. outcome' = [c \in Ids |-> IF c \in S /\ outcome[c] = "pending" THEN h[c] ELSE outcome[c]]
  BY DEF Settle
<1> QED
  BY <1>1, <1>2 DEF Ideal!Settle

\* A teardown settles whoever waits, each with one of the failures.
LEMMA TearDownIdeal ==
  ASSUME TearDownConnection
  PROVE  Waiting' = {} /\ Ideal!Settle(Waiting, Ideal!Failures)
<1> DEFINE h == [c \in Waiting |-> TearDownOutcome(c)]
<1>1. h \in [Waiting -> Ideal!Failures]
  BY DEF TearDownOutcome, Ideal!Failures
<1>2. outcome' = [c \in Ids |-> IF c \in Waiting /\ outcome[c] = "pending"
                                THEN h[c] ELSE outcome[c]]
  BY DEF TearDownConnection
<1>3. Waiting' = {}
  BY UnqueueWaiting DEF TearDownConnection
<1> QED
  BY <1>1, <1>2, <1>3 DEF Ideal!Settle

LEMMA IssueIdeal ==
  ASSUME IInv, NEW k \in Kinds, Issue(k)
  PROVE  \E c \in Ids : Ideal!Issue(c)
<1> DEFINE n == issued + 1
<1>1. /\ n \in Ids /\ n = NextReplySeq
      /\ n \notin Waiting /\ n \notin inflight /\ outcome[n] = "none"
  BY DEF IInv, Issue, NextReplySeq, TypeOK, Ids, Unissued
<1>2. Waiting' = Waiting \cup {x \in {n} : k # "bare"}
  BY <1>1, EnqueueWaiting DEF Issue
<1>3. CASE k = "bare"
  <2>1. outcome' = outcome /\ Waiting' = Waiting
    BY <1>1, <1>2, <1>3 DEF Issue, IInv, TypeOK
  <2> QED
    BY <1>1, <2>1 DEF Ideal!Issue, Issue
<1>4. CASE k # "bare"
  BY <1>1, <1>2, <1>4 DEF Ideal!Issue, Issue
<1> QED
  BY <1>3, <1>4

LEMMA WriteFailIdeal ==
  ASSUME NEW c \in Ids, WriteFail(c)
  PROVE  Ideal!Fail(c)
<1>1. Ideal!Settle(Waiting \cap {c}, {"failed"})
  BY SettleIdeal DEF WriteFail
<1>2. Waiting' = Waiting \ {c}
  BY UnqueueWaiting DEF WriteFail
<1> QED
  BY <1>1, <1>2 DEF WriteFail, Ideal!Fail

LEMMA ExpireIdeal ==
  ASSUME NEW c \in Ids, Expire(c)
  PROVE  Ideal!GiveUp(c)
<1>1. Ideal!Settle({c}, {"failed"})
  BY SettleIdeal DEF Expire
<1>2. Waiting' = Waiting \ {c}
  BY UnqueueWaiting DEF Expire
<1> QED
  BY <1>1, <1>2 DEF Expire, Ideal!GiveUp

LEMMA AbortIdeal ==
  ASSUME NEW c \in Ids, Abort(c)
  PROVE  Ideal!Withdraw(c)
<1>1. Ideal!Settle({c}, {"aborted"})
  BY SettleIdeal DEF Abort
<1>2. Waiting' = Waiting /\ c \in Waiting
  BY DEF Abort, queues, Waiting, FeatureWaiting
<1> QED
  BY <1>1, <1>2 DEF Abort, Ideal!Withdraw

\* A frame settles one waiter or none.
LEMMA RouteOne ==
  ASSUME TypeOK, NEW code \in Codes
  PROVE  Route(code) \in {{}} \cup {{d} : d \in Waiting}
<1> DEFINE R == Route(code)
<1>1. R \subseteq Waiting
  BY RouteWaits
<1>2. Waiting \subseteq Ids /\ Ids \subseteq Nat
  <2>1. Ids \subseteq Nat
    BY DEF Ids
  <2>2. Waiting \subseteq Ids
    BY DEF TypeOK, Waiting, FeatureWaiting, TypedCodes
  <2> QED
    BY <2>1, <2>2
<1>3. \A S \in SUBSET Waiting : \A c, d \in Oldest(S) : c = d
  BY <1>2, OldestUnique
<1>4. \A c, d \in R : c = d
  <2>0. /\ pendingAcks \subseteq Waiting
        /\ pendingTyped["TYPED"] \subseteq Waiting
        /\ pendingTyped["SENT"] \subseteq Waiting
        /\ adminSentQueue \subseteq Waiting
        /\ dmSendQueue \subseteq Waiting
        /\ pendingContactByKey \subseteq Waiting
        /\ pendingExports \subseteq Waiting
    BY DEF Waiting, FeatureWaiting
  <2>1. CASE code = "OK"
    BY <1>3, <2>0, <2>1 DEF Route, RouteOk
  <2>2. CASE code = "ERR"
    BY <1>3, <2>0, <2>2, OldestInside DEF Route, RouteErr
  <2>3. CASE code = "SENT"
    <3>1. \A c, d \in HandleSent : c = d
      BY <1>3, <2>0 DEF HandleSent
    <3> QED
      BY <1>3, <2>0, <2>3, <3>1 DEF Route, RouteSent
  <2>4. \A a \in {"DISABLED", "STREAM"} : \A c, d \in AnsweredSlot(a) : c = d
    BY <1>3, <2>0 DEF AnsweredSlot
  <2>5. CASE code = "DISABLED"
    BY <1>3, <2>0, <2>4, <2>5 DEF Route, RouteDisabled
  <2>6. CASE code = "STREAM"
    BY <2>4, <2>6 DEF Route
  <2>7. CASE code \in {"TYPED", "CONTACT", "PRIVATE_KEY", "INFO"}
    BY <1>3, <2>0, <2>7 DEF Route
  <2> QED
    BY <2>1, <2>2, <2>3, <2>5, <2>6, <2>7 DEF Codes
<1> QED
  BY <1>1, <1>4

\* The queues' choice for an answer is the one Correlation allows: the answer's
\* own command unless that one is gone, and then nobody unless a waiter gave up.
LEMMA ReplyIdeal ==
  ASSUME IInv, NEW c \in Ids, NEW code \in Codes, Reply(c, code)
  PROVE  Ideal!Answer(c)
<1> DEFINE R == Route(code)
<1>1. R \in {{}} \cup {{d} : d \in Waiting}
  BY RouteOne DEF IInv
<1>2. Ideal!Settle(R, {"replied"})
  BY SettleIdeal DEF Reply
<1>3. Waiting' = Waiting \ R
  BY UnqueueWaiting DEF Reply
<1>4. c \in Waiting /\ ~lost => R = {c}
  BY RouteOwn DEF IInv, WaitersAreOwed, Reply
<1>5. ~gaveUp /\ ~lost => R \subseteq {c}
  <2>1. CASE c \in Waiting
    BY <1>4, <2>1
  <2>2. CASE kind[c] = "bare"
    BY <2>2 DEF Reply, Answers, Route, Kinds
  <2> QED
    BY <2>1, <2>2, OldestInside DEF IInv, OwedAreWaiting, Reply
<1>6. c \in inflight /\ inflight' = inflight \ {c} /\ UNCHANGED <<gaveUp, lost>>
  BY OldestInside DEF Reply
<1> QED
  BY <1>1, <1>2, <1>3, <1>4, <1>5, <1>6 DEF Ideal!Answer

LEMMA DropReplyIdeal ==
  ASSUME NEW c \in Ids, DropReply(c)
  PROVE  Ideal!Lose(c)
<1>1. c \in inflight
  BY OldestInside DEF DropReply
<1>2. Waiting' = Waiting
  BY DEF DropReply, queues, Waiting, FeatureWaiting
<1> QED
  BY <1>1, <1>2 DEF DropReply, Ideal!Lose

LEMMA DisconnectIdeal ==
  ASSUME Disconnect
  PROVE  Ideal!Close
<1>1. CASE connected /\ TearDownConnection
  BY <1>1, TearDownIdeal DEF Disconnect, Ideal!Close
<1>2. CASE ~connected /\ UNCHANGED <<outcome, queues>>
  <2>1. Waiting' = Waiting
    BY <1>2 DEF queues, Waiting, FeatureWaiting
  <2> QED
    BY <1>2, <2>1 DEF Disconnect, Ideal!Close
<1> QED
  BY <1>1, <1>2 DEF Disconnect

LEMMA StopIdeal ==
  ASSUME Stop
  PROVE  Ideal!Stop
<1>1. CASE connected /\ TearDownConnection
  <2>1. Waiting' = Waiting \ Waiting /\ Ideal!Settle(Waiting, Ideal!Failures)
    BY <1>1, TearDownIdeal
  <2> QED
    BY <2>1 DEF Stop, Ideal!Stop
<1>2. CASE ~connected /\ ResetFeatures
  <2>1. FeatureWaiting \in SUBSET Waiting
    BY DEF Waiting
  <2>2. Waiting' = Waiting \ FeatureWaiting
    BY <1>2, UnqueueWaiting DEF ResetFeatures
  <2>3. Ideal!Settle(FeatureWaiting, Ideal!Failures)
    BY <1>2, SettleIdeal DEF ResetFeatures, Ideal!Failures
  <2> QED
    BY <2>1, <2>2, <2>3 DEF Stop, Ideal!Stop
<1> QED
  BY <1>1, <1>2 DEF Stop

\* The session implements Correlation: its seven queues and four shared reply
\* codes settle callers as frames that name their command would, for any number
\* of commands.
THEOREM Refinement == Spec => Correlated
<1>1. Init => Ideal!Init
  BY DEF Init, Ideal!Init, Waiting, FeatureWaiting, TypedCodes
<1>2. IInv /\ [Next]_vars => [Ideal!Next]_(Ideal!vars)
  <2> SUFFICES ASSUME IInv, [Next]_vars
               PROVE  Ideal!Next \/ UNCHANGED Ideal!vars
    OBVIOUS
  <2>1. ASSUME NEW k \in Kinds, Issue(k)
        PROVE  Ideal!Next
    BY <2>1, IssueIdeal DEF Ideal!Next
  <2>2. ASSUME NEW c \in Ids, WriteFail(c) \/ Expire(c) \/ Abort(c) \/ DropReply(c)
        PROVE  Ideal!Next
    BY <2>2, WriteFailIdeal, ExpireIdeal, AbortIdeal, DropReplyIdeal DEF Ideal!Next
  <2>3. ASSUME NEW c \in Ids, NEW code \in Codes, Reply(c, code)
        PROVE  Ideal!Next
    BY <2>3, ReplyIdeal DEF Ideal!Next
  <2>4. CASE Disconnect \/ Stop
    BY <2>4, DisconnectIdeal, StopIdeal DEF Ideal!Next
  <2>5. CASE Connect \/ Start \/ Drive \/ UNCHANGED vars
    BY <2>5 DEF Connect, Start, Drive, vars, queues, session, Ideal!vars, Waiting, FeatureWaiting
  <2> QED
    BY <2>1, <2>2, <2>3, <2>4, <2>5 DEF Next
<1> QED
  BY <1>1, <1>2, Invariance, PTL DEF Spec, Correlated, Ideal!Spec

=============================================================================

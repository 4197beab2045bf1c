------------------------------ MODULE Delivery ------------------------------
(***************************************************************************)
(* What the sender of direct messages is promised, as if every answer and  *)
(* every confirmation named the attempt it is about.                       *)
(*                                                                         *)
(* There is no FIFO, no hash and no timer here: an answer moves the message*)
(* of its own attempt, so does a confirmation, and the call that sends a   *)
(* message returns once.  The protocol names no attempt in RESP_SENT, so   *)
(* the promise has a limit, which the specification spells out: after an   *)
(* answer was lost, or a slot went for the wrong attempt, an answer may    *)
(* move some other message, until the link is next seen to end.            *)
(* DirectMessages implements it.                                           *)
(***************************************************************************)
CONSTANTS
  Messages,          \* the messages
  Ids                \* the attempts

VARIABLES
  state,             \* state[m]: what the application is shown, "none" before
  result,            \* result[m]: what the call returned, "none" yet, "ok" or "notOk"
  retried,           \* retried[m]: m is sent with retries
  of,                \* of[c]: the message of attempt c, "none" before it is made
  owed,              \* attempts the radio has yet to answer
  taken,             \* attempts it took to the mesh
  confirmed,         \* attempts the recipient has confirmed
  parted             \* an answer may move another message than its own

vars == <<state, result, retried, of, owed, taken, confirmed, parted>>

Init ==
  /\ state = [m \in Messages |-> "none"]
  /\ result = [m \in Messages |-> "none"]
  /\ retried = [m \in Messages |-> FALSE]
  /\ of = [c \in Ids |-> "none"]
  /\ owed = {} /\ taken = {} /\ confirmed = {}
  /\ parted = FALSE

\* The messages whose call was made, and those of the attempts in S.
Begun == {m \in Messages : state[m] # "none"}
MessagesOf(S) == {of[c] : c \in S}

\* The messages of S, begun before, are shown as `to'.
Move(S, to) ==
  /\ S \subseteq Begun
  /\ state' = [m \in Messages |-> IF m \in S THEN to ELSE state[m]]

\* The call that sends m returns, once.
Return(m, r) ==
  /\ result[m] = "none"
  /\ result' = [result EXCEPT ![m] = r]

-----------------------------------------------------------------------------
(* The caller.                                                             *)

Begin(m, r) ==
  /\ state[m] = "none"
  /\ state' = [state EXCEPT ![m] = "sending"]
  /\ retried' = [retried EXCEPT ![m] = r]
  /\ UNCHANGED <<result, of, owed, taken, confirmed, parted>>

\* An attempt at a message whose call has not returned; a second one only with
\* retries.
Issue(m, c) ==
  /\ of[c] = "none" /\ m \in Begun /\ result[m] = "none"
  /\ retried[m] \/ \A d \in Ids : of[d] # m
  /\ of' = [of EXCEPT ![c] = m]
  /\ owed' = owed \cup {c}
  /\ UNCHANGED <<state, result, retried, taken, confirmed, parted>>

\* Without retries the call returns when its attempt is written, or refused.
Written(m) ==
  /\ ~retried[m] /\ \E c \in Ids : of[c] = m
  /\ Return(m, "ok")
  /\ UNCHANGED <<state, retried, of, owed, taken, confirmed, parted>>

Refused(m) ==
  /\ ~retried[m] /\ m \in Begun
  /\ Return(m, "notOk")
  /\ UNCHANGED <<state, retried, of, owed, taken, confirmed, parted>>

\* The write of an attempt failed, so no answer will come.  An earlier attempt
\* at the same message may lose its place for it.
Withdraw(c) ==
  LET m == of[c]
  IN  /\ m \in Messages /\ c \notin taken
      /\ owed' = owed \ {c}
      /\ IF retried[m] THEN UNCHANGED result ELSE Return(m, "notOk")
      /\ parted => parted'
      /\ parted' => parted \/ \E d \in owed' : of[d] = m
      /\ UNCHANGED <<state, retried, of, taken, confirmed>>

\* With retries the call ends in failure when no attempt is left.
GiveUp(m) ==
  /\ retried[m] /\ Return(m, "notOk")
  /\ Move({m}, "failed")
  /\ UNCHANGED <<retried, of, owed, taken, confirmed, parted>>

-----------------------------------------------------------------------------
(* The radio.                                                              *)

\* An answer moves the message of its attempt; once parted, at most one message.
Answer(c) ==
  /\ c \in owed /\ owed' = owed \ {c}
  /\ \E S \in {{}} \cup {{m} : m \in Messages} :
       /\ ~parted => S = {of[c]}
       /\ \/ Move(S, "sent") /\ taken' = taken \cup {c}
          \/ Move(S, "failed") /\ taken' = taken
  /\ UNCHANGED <<result, retried, of, confirmed, parted>>

\* The answer is lost, and nobody is told.
Lose(c) ==
  /\ c \in owed /\ owed' = owed \ {c}
  /\ taken' = taken \cup {c}
  /\ parted'
  /\ UNCHANGED <<state, result, retried, of, confirmed>>

\* The recipient confirms an attempt.  Its message, unless forgotten, is 'ack',
\* and the call may return.
Confirm(c) ==
  /\ c \in taken \ confirmed /\ confirmed' = confirmed \cup {c}
  /\ \E S \in {{}} \cup {{m} : m \in Messages} :
       /\ ~parted => S \subseteq {of[c]}
       /\ Move(S, "ack")
       /\ \/ UNCHANGED result
          \/ \E m \in S : retried[m] /\ Return(m, "ok")
  /\ UNCHANGED <<retried, of, owed, taken, parted>>

-----------------------------------------------------------------------------
(* The link.                                                               *)

\* What waited for an answer has failed; once parted, some messages have.
FailWaiting ==
  \E S \in SUBSET Messages :
    /\ ~parted => S = MessagesOf(owed)
    /\ Move(S, "failed")

\* The link ends.  A session that sees it starts afresh; a stopped one does not,
\* and what was owed never comes.
Close ==
  /\ owed' = {}
  /\ \/ FailWaiting /\ parted' = FALSE
     \/ UNCHANGED state /\ parted' = (parted \/ owed # {})
  /\ UNCHANGED <<result, retried, of, taken, confirmed>>

\* stop() on an open link: what was owed still comes.
Stop ==
  /\ FailWaiting
  /\ parted' = (parted \/ owed # {})
  /\ UNCHANGED <<result, retried, of, owed, taken, confirmed>>

Next ==
  \/ \E m \in Messages : \/ \E r \in BOOLEAN : Begin(m, r)
                         \/ \E c \in Ids : Issue(m, c)
                         \/ Written(m) \/ Refused(m) \/ GiveUp(m)
  \/ \E c \in Ids : Withdraw(c) \/ Answer(c) \/ Lose(c) \/ Confirm(c)
  \/ Close \/ Stop

Spec == Init /\ [][Next]_vars
=============================================================================

-------------------------------- MODULE Drain --------------------------------
(***************************************************************************)
(* The inbox pump.  The radio queues incoming messages and announces each  *)
(* with PUSH_MSG_WAITING; the host pulls them one by one with              *)
(* CMD_GET_NEXT_MSG until RESP_NO_MORE_MESSAGES.  A round of pulls is a    *)
(* chain of steps that hand over to each other: the 250 ms sleep of        *)
(* scheduleDrain, a write, the radio's answer, the next write.  Nothing    *)
(* but the flags busy and pending says that a round exists, and neither    *)
(* resetDrain nor a new link recalls the steps of an old round.            *)
(***************************************************************************)
EXTENDS Naturals, Sequences

CONSTANTS
  MaxMsgs,        \* bound on the messages that reach the radio
  MaxFails,       \* bound on the writes the transport rejects on an open link
  MaxHandshakes   \* bound on the connect edges the session handles

ASSUME BoundsAssumption ==
  MaxMsgs \in Nat /\ MaxFails \in Nat /\ MaxHandshakes \in Nat

VARIABLES
  busy, pending,  \* DrainRuntime
  sleeping,       \* scheduleDrain calls in their DRAIN_INTERVAL_MS sleep
  writes,         \* GET_NEXT_MSG writes the radio has not answered, by writer
  late,           \* writes of a lost link that have yet to reject, by writer
  handshakes,     \* handshakes running: each ends in a scheduleDrain
  linkUp,         \* the transport reports 'connected'
  connected,      \* MeshCoreSession.connected
  inbox,          \* messages queued in the radio
  tickles,        \* PUSH_MSG_WAITING frames on the link
  replies,        \* answers to GET_NEXT_MSG on the link, oldest first
  budget,         \* what is left of the three bounds
  mishaps         \* what has gone wrong on this link (history)

pump == <<busy, pending>>
link == <<linkUp, connected>>
radio == <<inbox, tickles, replies>>
vars == <<pump, sleeping, writes, late, handshakes, link, radio, budget, mishaps>>

\* Who writes GET_NEXT_MSG: each has its own catch.
Writers == {"scheduleDrain", "pumpAfterRecv"}

\* An answer: a message whose handler pumps on, one whose handler returns early
\* (undecodable, or for a channel slot that is not known), or the end.
Answers == {"message", "skippedMessage", "noMoreMessages"}

Mishaps == {"stale",      \* a reset left a step of a round behind
            "skipped",    \* a handler returned without pumping on
            "failed"}     \* the transport rejected a write

Bounds == [msgs : 0..MaxMsgs, fails : 0..MaxFails, handshakes : 0..MaxHandshakes]

NoWrites == [w \in Writers |-> 0]

Total(f) == f["scheduleDrain"] + f["pumpAfterRecv"]

\* The steps that are to carry a round on.
RoundSteps == sleeping + Total(writes) + Len(replies)

TypeOK ==
  /\ busy \in BOOLEAN /\ pending \in BOOLEAN
  /\ sleeping \in Nat /\ handshakes \in Nat /\ inbox \in Nat /\ tickles \in Nat
  /\ writes \in [Writers -> Nat] /\ late \in [Writers -> Nat]
  /\ linkUp \in BOOLEAN /\ connected \in BOOLEAN
  /\ replies \in Seq(Answers)
  /\ budget \in Bounds
  /\ mishaps \subseteq Mishaps

Init ==
  /\ busy = FALSE /\ pending = FALSE
  /\ sleeping = 0 /\ handshakes = 0 /\ inbox = 0 /\ tickles = 0
  /\ writes = NoWrites /\ late = NoWrites
  /\ linkUp = FALSE /\ connected = FALSE
  /\ replies = <<>>
  /\ budget = [msgs |-> MaxMsgs, fails |-> MaxFails, handshakes |-> MaxHandshakes]
  /\ mishaps = {}

-----------------------------------------------------------------------------
(* The pump.                                                               *)

\* Mutant: a tickle during a round is not remembered.
ScheduleDrainForgets ==
  /\ busy' = TRUE
  /\ sleeping' = sleeping + (IF busy THEN 0 ELSE 1)
  /\ UNCHANGED pending

\* Mutant: a tickle during a round starts a second one.
ScheduleDrainAgain ==
  /\ busy' = TRUE
  /\ sleeping' = sleeping + 1
  /\ UNCHANGED pending

\* scheduleDrain up to its sleep.
ScheduleDrain ==
  \/ /\ busy
     /\ pending' = TRUE
     /\ UNCHANGED <<busy, sleeping>>
  \/ /\ ~busy
     /\ busy' = TRUE
     /\ sleeping' = sleeping + 1
     /\ UNCHANGED pending

\* Mutant: the end of a round leaves busy set when no round follows.
EndRoundStaysBusy ==
  /\ busy' = TRUE
  /\ pending' = FALSE
  /\ sleeping' = sleeping + (IF pending THEN 1 ELSE 0)

\* The end of a round, and the follow-up round if one was asked for meanwhile.
EndRound ==
  /\ busy' = pending
  /\ pending' = FALSE
  /\ sleeping' = sleeping + (IF pending THEN 1 ELSE 0)

\* The catch of a write: only scheduleDrain's re-arms.
Catch(writer) ==
  \/ writer = "scheduleDrain" /\ EndRound
  \/ writer = "pumpAfterRecv" /\ busy' = FALSE /\ UNCHANGED <<pending, sleeping>>

\* The sleep is over: write, unless the link is down, when the write rejects.
Wake ==
  /\ sleeping > 0
  /\ \/ /\ linkUp
        /\ sleeping' = sleeping - 1
        /\ writes' = [writes EXCEPT !["scheduleDrain"] = @ + 1]
        /\ UNCHANGED pump
     \/ /\ ~linkUp
        /\ busy' = pending
        /\ pending' = FALSE
        /\ sleeping' = sleeping - (IF pending THEN 0 ELSE 1)
        /\ UNCHANGED writes
  /\ UNCHANGED <<late, handshakes, link, radio, budget, mishaps>>

\* The transport rejects a write on an open link.
WriteFails(writer) ==
  /\ writes[writer] > 0 /\ budget.fails > 0
  /\ writes' = [writes EXCEPT ![writer] = @ - 1]
  /\ budget' = [budget EXCEPT !.fails = @ - 1]
  /\ Catch(writer)
  /\ mishaps' = mishaps \cup {"failed"}
  /\ UNCHANGED <<late, handshakes, link, radio>>

\* A write of a lost link rejects at last; its catch does not know.
LateFail(writer) ==
  /\ late[writer] > 0
  /\ late' = [late EXCEPT ![writer] = @ - 1]
  /\ Catch(writer)
  /\ UNCHANGED <<writes, handshakes, link, radio, budget, mishaps>>

\* PUSH_MSG_WAITING.
Tickle ==
  /\ tickles > 0
  /\ tickles' = tickles - 1
  /\ ScheduleDrain
  /\ UNCHANGED <<writes, late, handshakes, link, inbox, replies, budget, mishaps>>

\* A message pulled by a round pumps the next one; otherwise it is only stored.
RecvMessage ==
  /\ Head(replies) = "message"
  /\ writes' = [writes EXCEPT !["pumpAfterRecv"] = @ + (IF busy /\ linkUp THEN 1 ELSE 0)]
  /\ UNCHANGED <<pump, sleeping, mishaps>>

\* handleContactMsg or channelMessagesFeature returns before its pump.
RecvSkipped ==
  /\ Head(replies) = "skippedMessage"
  /\ mishaps' = mishaps \cup {"skipped"}
  /\ UNCHANGED <<pump, sleeping, writes>>

\* RESP_NO_MORE_MESSAGES.
RecvNoMore ==
  /\ Head(replies) = "noMoreMessages"
  /\ EndRound
  /\ UNCHANGED <<writes, mishaps>>

Receive ==
  /\ replies # <<>>
  /\ replies' = Tail(replies)
  /\ RecvMessage \/ RecvSkipped \/ RecvNoMore
  /\ UNCHANGED <<late, handshakes, link, inbox, tickles, budget>>

-----------------------------------------------------------------------------
(* The radio.                                                              *)

\* A message reaches the radio, which tickles a host that is there.
MessageArrives ==
  /\ budget.msgs > 0
  /\ budget' = [budget EXCEPT !.msgs = @ - 1]
  /\ inbox' = inbox + 1
  /\ tickles' = tickles + (IF linkUp THEN 1 ELSE 0)
  /\ UNCHANGED <<pump, sleeping, writes, late, handshakes, link, replies, mishaps>>

\* The radio takes one GET_NEXT_MSG and answers it.
RadioAnswers(writer, answer) ==
  /\ writes[writer] > 0
  /\ writes' = [writes EXCEPT ![writer] = @ - 1]
  /\ answer = "noMoreMessages" <=> inbox = 0
  /\ inbox' = inbox - (IF inbox = 0 THEN 0 ELSE 1)
  /\ replies' = Append(replies, answer)
  /\ UNCHANGED <<pump, sleeping, late, handshakes, link, tickles, budget, mishaps>>

-----------------------------------------------------------------------------
(* The session.                                                            *)

\* The connect edge: a handshake starts.
HandleConnect ==
  /\ budget.handshakes > 0
  /\ budget' = [budget EXCEPT !.handshakes = @ - 1]
  /\ connected' = TRUE
  /\ handshakes' = handshakes + 1
  /\ UNCHANGED <<pump, sleeping, writes, late, radio, mishaps>>

\* The transport connects.
Connect ==
  /\ ~linkUp
  /\ linkUp' = TRUE
  /\ HandleConnect

\* start() after stop() on an open link.
Start ==
  /\ linkUp /\ ~connected
  /\ HandleConnect
  /\ UNCHANGED linkUp

\* A handshake comes to its end on a link that is open, the one it began on or
\* not; on a closed one a write rejects and it gives up.
HandshakeEnds ==
  /\ handshakes > 0
  /\ handshakes' = handshakes - 1
  /\ \/ linkUp /\ ScheduleDrain
     \/ ~linkUp /\ UNCHANGED <<pump, sleeping>>
  /\ UNCHANGED <<writes, late, link, radio, budget, mishaps>>

\* resetDrain.
ResetDrain == busy' = FALSE /\ pending' = FALSE

\* The link drops with everything on it; some of its writes may still reject.
\* A session that does not know the link as connected resets nothing.
Disconnect ==
  /\ linkUp
  /\ linkUp' = FALSE
  /\ connected' = FALSE
  /\ \E rest \in [Writers -> 0..MaxMsgs + MaxHandshakes] :
       /\ \A w \in Writers : rest[w] <= writes[w]
       /\ late' = [w \in Writers |-> late[w] + rest[w]]
  /\ writes' = NoWrites
  /\ tickles' = 0
  /\ replies' = <<>>
  /\ \/ connected /\ ResetDrain
     \/ ~connected /\ UNCHANGED pump
  /\ mishaps' = IF sleeping + Total(late') > 0 \/ busy' \/ pending'
                THEN {"stale"} ELSE {}
  /\ UNCHANGED <<sleeping, handshakes, inbox, budget>>

\* stop(), at any time: what a round has on an open link stays there.
Stop ==
  /\ connected' = FALSE
  /\ ResetDrain
  /\ mishaps' = mishaps \cup {m \in {"stale"} : RoundSteps > 0}
  /\ UNCHANGED <<sleeping, writes, late, handshakes, linkUp, radio, budget>>

Next ==
  \/ Wake \/ Tickle \/ Receive \/ MessageArrives \/ HandshakeEnds
  \/ Connect \/ Start \/ Disconnect \/ Stop
  \/ \E writer \in Writers : WriteFails(writer) \/ LateFail(writer)
  \/ \E writer \in Writers, answer \in Answers : RadioAnswers(writer, answer)

Spec == Init /\ [][Next]_vars

\* Timers fire, frames on an open link are handled, the radio answers, and a
\* handshake, each of whose waits has a time limit, ends.
FairSpec ==
  /\ Spec
  /\ WF_vars(Wake) /\ WF_vars(Tickle) /\ WF_vars(Receive) /\ WF_vars(HandshakeEnds)
  /\ WF_vars(\E writer \in Writers, answer \in Answers : RadioAnswers(writer, answer))

-----------------------------------------------------------------------------
(* Properties.                                                             *)

\* Unless a reset left a step of a round behind, rounds never overlap: at most
\* one step is to come, and it belongs to the round busy stands for.
OneRound ==
  "stale" \notin mishaps => RoundSteps <= 1 /\ (RoundSteps = 1 => busy)

\* Unless a reset left a step behind or a handler returned without pumping, busy
\* is not set without a step that will clear it.
BusyIsARound ==
  mishaps \cap {"stale", "skipped"} = {} => (busy => RoundSteps = 1)

\* A follow-up round that was asked for is not forgotten while no write fails.
FollowUpIsDue == mishaps = {} => (pending => busy)

\* A message queued in the radio of an open link is pulled, though its tickle
\* may have come in the middle of a round, unless one of the mishaps happens.
InboxDrains ==
  (inbox > 0 /\ connected) ~> (inbox = 0 \/ ~connected \/ mishaps # {})

=============================================================================

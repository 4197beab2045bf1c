---------------------------- MODULE ReplyRouting ----------------------------
(***************************************************************************)
(* Reply correlation of MeshCoreSession.                                   *)
(*                                                                         *)
(* The companion protocol has no correlation id: the radio answers every   *)
(* command once, in the order the commands reached it, with RESP_OK,       *)
(* RESP_ERR, RESP_SENT, RESP_DISABLED or a reply code of the command's own.*)
(* The session therefore keeps one FIFO of waiters per reply family and    *)
(* picks the FIFO whose head carries the smallest write-order stamp.       *)
(*                                                                         *)
(* A command is named by its write-order stamp.  Every FIFO is pushed in   *)
(* the synchronous turn that takes the stamp, so a FIFO is represented by  *)
(* the set of stamps in it: its head is the least one, a shift removes the *)
(* least one, a splice removes any one.                                    *)
(***************************************************************************)
EXTENDS Naturals

CONSTANT MaxCmds      \* bound on the commands issued in a behaviour

ASSUME MaxCmdsAssumption == MaxCmds \in Nat

Ids == 1..MaxCmds

(***************************************************************************)
(* What a command waits for:                                               *)
(*   ack     a RESP_OK / RESP_ERR slot (request without expect,            *)
(*           writeAckSink, writeAckedFrame)                                *)
(*   import  the same slot, which a RESP_DISABLED also answers             *)
(*   typed   a typed reply with an errOnly slot for the RESP_ERR that can  *)
(*           stand in for it (requestTypedOrAck)                           *)
(*   path    the same, its typed reply being RESP_SENT (path discovery)    *)
(*   expect  an errOnly slot that its typed reply frees on its way to a    *)
(*           feature (writeExpectingReply)                                 *)
(*   admin, dm, lookup, export   the feature queues                        *)
(*   bare    nothing: writeFrame alone, the typed reply is unsolicited     *)
(***************************************************************************)
Kinds == {"ack", "import", "typed", "path", "expect",
          "admin", "dm", "lookup", "export", "bare"}

Codes == {"OK", "ERR", "DISABLED", "SENT", "TYPED", "STREAM",
          "CONTACT", "PRIVATE_KEY", "INFO"}

\* How a caller is settled: by a reply frame, by its timer or a write error, by
\* its AbortSignal, by a teardown that names its reason, or by a teardown that
\* reads like a refusal ({ok: false}).
Outcomes == {"none", "pending", "replied", "failed", "aborted", "closed", "notOk"}

VARIABLES
  kind,                 \* kind[c]: what command c is, "none" before it is issued
  outcome,              \* outcome[c]: how c's caller was settled
  issued,               \* the last stamp taken (replyOrder.next)
  inflight,             \* written commands whose answer has not arrived
  pendingAcks,          \* MeshCoreSession.pendingAcks
  pendingTyped,         \* MeshCoreSession.pendingTyped, per reply code
  adminSentQueue,       \* rt.adminCorr.adminSentQueue
  dmSendQueue,          \* rt.dm.dmSendQueue
  pendingContactByKey,  \* rt.contactsIter.pendingContactByKey
  pendingExports,       \* rt.deviceAdmin.pendingExports
  started,              \* between start() and stop()
  linkUp,               \* the transport reports 'connected'
  connected,            \* MeshCoreSession.connected: the edge of linkUp it has handled
  gaveUp,               \* history of this link: a waiter went while its answer was owed
  lost                  \* history of this link: a queued waiter's answer never arrived

queues == <<pendingAcks, pendingTyped, adminSentQueue, dmSendQueue,
            pendingContactByKey, pendingExports>>

session == <<started, linkUp, connected>>

vars == <<kind, outcome, issued, inflight, queues, session, gaveUp, lost>>

TypedKinds == {"typed", "path"}

TypedCodes == {"TYPED", "SENT"}

\* The reply code a typed waiter is queued under.
ExpectOf(k) == IF k = "path" THEN "SENT" ELSE "TYPED"

\* PendingAck.errOnly: the slot cannot take a RESP_OK.
ErrOnly(c) == kind[c] \in TypedKinds \cup {"expect"}

\* PendingAck.answeredBy: the slot a frame with this code settles.
AnsweredBy(c, code) == \/ kind[c] = "import" /\ code = "DISABLED"
                       \/ kind[c] = "expect" /\ code = "STREAM"

\* The frames the radio may answer a command of kind k with.
Answers(k) == CASE k = "ack"    -> {"OK", "ERR"}
                [] k = "import" -> {"OK", "ERR", "DISABLED"}
                [] k = "typed"  -> {"TYPED", "ERR"}
                [] k = "expect" -> {"STREAM", "ERR"}
                [] k = "lookup" -> {"CONTACT", "ERR"}
                [] k = "export" -> {"PRIVATE_KEY", "DISABLED"}
                [] k = "bare"   -> {"INFO"}
                [] OTHER        -> {"SENT", "ERR"}    \* path, admin, dm

\* Commands some queue still holds a waiter for: the features' queues, all queues.
FeatureWaiting == adminSentQueue \cup dmSendQueue \cup pendingContactByKey
                  \cup pendingExports

Waiting == pendingAcks \cup pendingTyped["TYPED"] \cup pendingTyped["SENT"]
           \cup FeatureWaiting

-----------------------------------------------------------------------------
(* Which waiter a frame settles: {} or a singleton.                        *)

\* The head of a FIFO; of several heads, the one oldestSeq picks.
Oldest(S) == {c \in S : \A d \in S : c <= d}

\* onPacket step 0: the ack slot this code answers, unless an export is older.
AnsweredSlot(code) ==
  {c \in Oldest({a \in pendingAcks : AnsweredBy(a, code)}) :
     code = "DISABLED" => \A e \in Oldest(pendingExports) : c < e}

RouteDisabled == IF AnsweredSlot("DISABLED") # {} THEN AnsweredSlot("DISABLED")
                 ELSE Oldest(pendingExports)

\* typedOwnsSent: the waiter sent an older command than both SENT queues' heads.
TypedOwnsSent(c) == \A d \in Oldest(adminSentQueue) \cup Oldest(dmSendQueue) : c < d

\* handleSent: the admin head if it is older than the DM head, else the DM head.
HandleSent ==
  LET admin == {c \in Oldest(adminSentQueue) : \A d \in Oldest(dmSendQueue) : c < d}
  IN  IF admin # {} THEN admin ELSE Oldest(dmSendQueue)

RouteSent ==
  LET typed == {c \in Oldest(pendingTyped["SENT"]) : TypedOwnsSent(c)}
  IN  IF typed # {} THEN typed ELSE HandleSent

\* resolveNextAck(true): the oldest slot that is not errOnly.
RouteOk == Oldest({c \in pendingAcks : ~ErrOnly(c)})

\* Mutant: a RESP_ERR is never offered to a getContactByKey lookup.
RouteErrIgnoresLookups ==
  Oldest(Oldest(pendingAcks) \cup Oldest(adminSentQueue) \cup Oldest(dmSendQueue))

\* routeErr: the oldest command over the four queues a RESP_ERR can belong to.
RouteErr == Oldest(Oldest(pendingAcks) \cup Oldest(adminSentQueue)
                   \cup Oldest(dmSendQueue) \cup Oldest(pendingContactByKey))

Route(code) == CASE code = "OK"          -> RouteOk
                 [] code = "ERR"         -> RouteErr
                 [] code = "SENT"        -> RouteSent
                 [] code = "DISABLED"    -> RouteDisabled
                 [] code = "TYPED"       -> Oldest(pendingTyped["TYPED"])
                 [] code = "STREAM"      -> AnsweredSlot("STREAM")
                 [] code = "CONTACT"     -> Oldest(pendingContactByKey)
                 [] code = "PRIVATE_KEY" -> Oldest(pendingExports)
                 [] OTHER                -> {}

-----------------------------------------------------------------------------
(* Moving commands in and out of the queues.                               *)

TypeOK ==
  /\ kind \in [Ids -> Kinds \cup {"none"}]
  /\ outcome \in [Ids -> Outcomes]
  /\ issued \in 0..MaxCmds
  /\ inflight \subseteq Ids
  /\ pendingAcks \subseteq Ids
  /\ pendingTyped \in [TypedCodes -> SUBSET Ids]
  /\ adminSentQueue \subseteq Ids
  /\ dmSendQueue \subseteq Ids
  /\ pendingContactByKey \subseteq Ids
  /\ pendingExports \subseteq Ids
  /\ started \in BOOLEAN
  /\ linkUp \in BOOLEAN
  /\ connected \in BOOLEAN
  /\ gaveUp \in BOOLEAN
  /\ lost \in BOOLEAN

Init ==
  /\ kind = [c \in Ids |-> "none"]
  /\ outcome = [c \in Ids |-> "none"]
  /\ issued = 0
  /\ inflight = {}
  /\ pendingAcks = {}
  /\ pendingTyped = [code \in TypedCodes |-> {}]
  /\ adminSentQueue = {}
  /\ dmSendQueue = {}
  /\ pendingContactByKey = {}
  /\ pendingExports = {}
  /\ started = FALSE
  /\ linkUp \in BOOLEAN
  /\ connected = FALSE
  /\ gaveUp = FALSE
  /\ lost = FALSE

\* The queues a command of kind k is pushed on in the turn that writes it.
Enqueue(c, k) ==
  /\ pendingAcks' = pendingAcks \cup
       {x \in {c} : k \in TypedKinds \cup {"ack", "import", "expect"}}
  /\ pendingTyped' = [code \in TypedCodes |->
       pendingTyped[code] \cup {x \in {c} : k \in TypedKinds /\ ExpectOf(k) = code}]
  /\ adminSentQueue' = adminSentQueue \cup {x \in {c} : k = "admin"}
  /\ dmSendQueue' = dmSendQueue \cup {x \in {c} : k = "dm"}
  /\ pendingContactByKey' = pendingContactByKey \cup {x \in {c} : k = "lookup"}
  /\ pendingExports' = pendingExports \cup {x \in {c} : k = "export"}

\* Take the waiters of S off their queues; the two waiters of a typed request
\* go together.
Unqueue(S) ==
  /\ pendingAcks' = pendingAcks \ S
  /\ pendingTyped' = [code \in TypedCodes |-> pendingTyped[code] \ S]
  /\ adminSentQueue' = adminSentQueue \ S
  /\ dmSendQueue' = dmSendQueue \ S
  /\ pendingContactByKey' = pendingContactByKey \ S
  /\ pendingExports' = pendingExports \ S

\* Settle the callers of S that are still waiting: the settle guard.
Settle(S, how) ==
  outcome' = [c \in Ids |-> IF c \in S /\ outcome[c] = "pending" THEN how ELSE outcome[c]]

-----------------------------------------------------------------------------
(* The host's steps.                                                       *)

\* The next write-order stamp.
NextReplySeq == issued + 1

\* A caller issues a command: stamp, queue and write in one synchronous turn.
\* Neither request nor the features ask whether the session is started; on a
\* closed transport the write rejects in the same turn and nothing is left.
Issue(k) ==
  /\ linkUp
  /\ issued < MaxCmds
  /\ issued' = NextReplySeq
  /\ kind' = [kind EXCEPT ![NextReplySeq] = k]
  /\ outcome' = [outcome EXCEPT ![NextReplySeq] = IF k = "bare" THEN "none" ELSE "pending"]
  /\ inflight' = inflight \cup {NextReplySeq}
  /\ Enqueue(NextReplySeq, k)
  /\ UNCHANGED <<session, gaveUp, lost>>

\* Mutant: a write failure rejects the caller but leaves its slot queued.
WriteFailKeepsSlot(c) ==
  /\ c \in inflight
  /\ inflight' = inflight \ {c}
  /\ Settle({c}, "failed")
  /\ UNCHANGED <<kind, issued, queues, session, gaveUp, lost>>

\* transport.send rejects: the radio never sees the command, its waiter goes.
WriteFail(c) ==
  /\ c \in inflight
  /\ inflight' = inflight \ {c}
  /\ Settle(Waiting \cap {c}, "failed")
  /\ Unqueue({c})
  /\ UNCHANGED <<kind, issued, session, gaveUp, lost>>

\* Mutant: an admin slot is parked without a timer.
ExpireSkipsAdmin(c) ==
  /\ c \in Waiting \ (dmSendQueue \cup adminSentQueue)
  /\ Settle({c}, "failed")
  /\ Unqueue({c})
  /\ gaveUp' = (gaveUp \/ c \in inflight)
  /\ UNCHANGED <<kind, issued, inflight, session, lost>>

\* Mutant: the timer of a lookup drops its slot and forgets its caller.
ExpireForgetsLookup(c) ==
  /\ c \in Waiting \ dmSendQueue
  /\ Settle({c} \ pendingContactByKey, "failed")
  /\ Unqueue({c})
  /\ gaveUp' = (gaveUp \/ c \in inflight)
  /\ UNCHANGED <<kind, issued, inflight, session, lost>>

\* The timer of a waiter fires.  A DM slot has none.
Expire(c) ==
  /\ c \in Waiting \ dmSendQueue
  /\ Settle({c}, "failed")
  /\ Unqueue({c})
  /\ gaveUp' = (gaveUp \/ c \in inflight)
  /\ UNCHANGED <<kind, issued, inflight, session, lost>>

\* sendTaggedReq's AbortSignal before RESP_SENT: the caller is settled, the slot
\* stays parked for the RESP_SENT that is still coming.
Abort(c) ==
  /\ c \in adminSentQueue /\ outcome[c] = "pending"
  /\ Settle({c}, "aborted")
  /\ UNCHANGED <<kind, issued, inflight, queues, session, gaveUp, lost>>

-----------------------------------------------------------------------------
(* The link.                                                               *)

\* The answer to the oldest outstanding command arrives with this code.
Reply(c, code) ==
  /\ c \in Oldest(inflight)
  /\ code \in Answers(kind[c])
  /\ inflight' = inflight \ {c}
  /\ Settle(Route(code), "replied")
  /\ Unqueue(Route(code))
  /\ UNCHANGED <<kind, issued, session, gaveUp, lost>>

\* The answer is lost: a frame the deframer discards, a radio that reset.
DropReply(c) ==
  /\ c \in Oldest(inflight)
  /\ inflight' = inflight \ {c}
  /\ lost' = TRUE
  /\ UNCHANGED <<kind, outcome, issued, queues, session, gaveUp>>

\* Mutant: the ack teardown runs before the typed one.
TearDownAcksFirst(c) == IF c \in pendingAcks THEN "notOk" ELSE "closed"

\* How tearDownConnection settles a waiter.  Typed waiters are rejected first,
\* which takes their ack twins along; the acks left resolve {ok: false}.
TearDownOutcome(c) ==
  IF c \in pendingAcks \ (pendingTyped["TYPED"] \cup pendingTyped["SENT"])
  THEN "notOk" ELSE "closed"

\* Mutant: the teardown forgets the getContactByKey lookups.
TearDownKeepsLookups ==
  /\ outcome' = [c \in Ids |-> IF c \in Waiting \ pendingContactByKey /\ outcome[c] = "pending"
                               THEN TearDownOutcome(c) ELSE outcome[c]]
  /\ Unqueue(Waiting \ pendingContactByKey)

\* Every queue is emptied and every waiter settled.
TearDownConnection ==
  /\ outcome' = [c \in Ids |-> IF c \in Waiting /\ outcome[c] = "pending"
                               THEN TearDownOutcome(c) ELSE outcome[c]]
  /\ Unqueue(Waiting)

\* stop() resets the features whether or not the session saw the link.
ResetFeatures == Settle(FeatureWaiting, "closed") /\ Unqueue(FeatureWaiting)

\* The transport leaves 'connected': what was on the link is gone with it.  A
\* session that has not handled the connect edge tears nothing down.
Disconnect ==
  /\ linkUp
  /\ linkUp' = FALSE
  /\ connected' = FALSE
  /\ inflight' = {}
  /\ \/ connected /\ TearDownConnection
     \/ ~connected /\ UNCHANGED <<outcome, queues>>
  /\ gaveUp' = FALSE
  /\ lost' = (Waiting' # {})
  /\ UNCHANGED <<kind, issued, started>>

\* The transport announces 'connected'; a stopped session handles it too.
Connect ==
  /\ ~linkUp
  /\ linkUp' = TRUE
  /\ connected' = TRUE
  /\ UNCHANGED <<kind, outcome, issued, inflight, queues, started, gaveUp, lost>>

Start ==
  /\ ~started
  /\ started' = TRUE
  /\ UNCHANGED <<kind, outcome, issued, inflight, queues, linkUp, connected, gaveUp, lost>>

\* The microtask start() defers on a transport that was already open.
Drive ==
  /\ started /\ linkUp /\ ~connected
  /\ connected' = TRUE
  /\ UNCHANGED <<kind, outcome, issued, inflight, queues, started, linkUp, gaveUp, lost>>

\* stop() on an open transport: the radio still answers what it was sent.
Stop ==
  /\ started
  /\ started' = FALSE
  /\ connected' = FALSE
  /\ \/ connected /\ TearDownConnection
     \/ ~connected /\ ResetFeatures
  /\ gaveUp' = (gaveUp \/ inflight \cap (Waiting \ Waiting') # {})
  /\ UNCHANGED <<kind, issued, inflight, linkUp, lost>>

Next ==
  \/ \E k \in Kinds : Issue(k)
  \/ \E c \in Ids : WriteFail(c) \/ Expire(c) \/ Abort(c) \/ DropReply(c)
  \/ \E c \in Ids, code \in Codes : Reply(c, code)
  \/ Disconnect \/ Connect \/ Start \/ Drive \/ Stop

Spec == Init /\ [][Next]_vars

\* Every armed setTimeout fires unless it is cleared first.
FairSpec == Spec /\ \A c \in Ids : WF_vars(Expire(c))

-----------------------------------------------------------------------------
(* Properties.                                                             *)

\* The two waiters of a typed request (requestTypedOrAck) live and die together,
\* so neither can take an answer after the other has settled the request.
TwinsTogether ==
  \A c \in Ids : kind[c] \in TypedKinds =>
    (c \in pendingAcks <=> c \in pendingTyped[ExpectOf(kind[c])])

\* While the link has lost no answer, every queued slot still has its answer
\* coming: a slot left behind would take the answer to the next command.
WaitersAreOwed == ~lost => Waiting \subseteq inflight

\* Until a waiter gives up on an answer that is still owed, every answer owed
\* has its waiter.
OwedAreWaiting ==
  ~gaveUp /\ ~lost => \A c \in inflight : kind[c] = "bare" \/ c \in Waiting

\* A caller that still waits has a slot on a queue: whatever takes the slot
\* away (a frame, a timer, a write error, a teardown) settles the caller.
PendingIsQueued == \A c \in Ids : outcome[c] = "pending" => c \in Waiting

\* No slot outlives the link it was queued on: its old stamp would claim the
\* first answer after a reconnect.
NothingOutlivesTheLink == [][connected /\ ~connected' => Waiting' = {}]_vars

\* The answer to a command that still waits settles that command and no other,
\* whatever has timed out or was stopped before, while no answer was lost.
OwnReplySettles ==
  [][\A c \in inflight :
       /\ c \in Waiting /\ inflight' = inflight \ {c}
       /\ linkUp /\ linkUp' /\ ~lost'
       => Waiting' = Waiting \ {c}]_vars

\* While no waiter has given up and no answer was lost, an answer settles no
\* command but the one it answers.
ExactCorrelation ==
  [][\A c \in inflight :
       /\ inflight' = inflight \ {c} /\ linkUp /\ linkUp'
       /\ ~gaveUp' /\ ~lost'
       => Waiting \ Waiting' \subseteq {c}]_vars

\* A caller is settled once: a later answer, timer, abort or teardown does not
\* change what it was told.
SettledOnce ==
  [][\A c \in Ids : outcome[c] \notin {"none", "pending"} => outcome'[c] = outcome[c]]_vars

\* A typed request cut off by a lost link or stop() is rejected with the reason,
\* never reported as the radio refusing the command.
CutOffIsNotRefused ==
  \A c \in Ids : kind[c] \in TypedKinds => outcome[c] # "notOk"

\* Every command but a DM is eventually settled, even if nothing ever answers:
\* of the commands of a behaviour, in the end only DMs still wait.
TimersSettle ==
  <>[](\A c \in Ids : outcome[c] = "pending" => kind[c] = "dm")

\* The queues, stamps and routing rules together implement Correlation: the
\* session settles its callers as if every frame named its command, though
\* seven queues share four reply codes and no frame carries an id.
Ideal == INSTANCE Correlation WITH waiting <- Waiting, owed <- inflight
Correlated == Ideal!Spec

=============================================================================

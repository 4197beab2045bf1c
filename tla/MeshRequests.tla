---------------------------- MODULE MeshRequests ----------------------------
(***************************************************************************)
(* Requests over the mesh: tagged requests (sendTaggedReq), repeater       *)
(* logins, status requests and traces.                                     *)
(*                                                                         *)
(* A request waits twice: in adminSentQueue for the radio's RESP_SENT, then*)
(* in AdminSessionStore for the repeater's reply, found by the tag the     *)
(* RESP_SENT brought or, for a login, by the node.  The radio tracks one   *)
(* request at a time (not counting traces); meshRequestSlot follows it, to *)
(* fail the request whose reply can no longer come.  A FIFO is the set of  *)
(* the write-order stamps in it; a request is named by its stamp, and its  *)
(* tag is the same number.                                                 *)
(***************************************************************************)
EXTENDS Naturals, Sequences

CONSTANTS
  Nodes,    \* the repeaters
  MaxReqs   \* bound on the requests

ASSUME RequestsAssumption == MaxReqs \in Nat

Reqs == 1..MaxReqs
NoReq == 0

Kinds == {"tagged", "login", "status", "trace"}

\* The requests that take the radio's one slot.
Claiming == {"tagged", "login", "status"}

\* How a request has ended: "displaced" by a newer holder of the radio's slot,
\* "replaced" by a newer one with the same key, "cutOff" with the link.
Outcomes == {"none", "pending", "ok", "refused", "loginFailed", "displaced", "replaced",
             "timedOut", "aborted", "writeFailed", "cutOff"}

\* Nobody waits for the answer to a status request, only a tagged request can be
\* aborted, and only a login can fail.
OutcomesOf(k) ==
  CASE k = "none"   -> {"none"}
    [] k = "status" -> {"pending", "ok", "writeFailed"}
    [] k = "login"  -> Outcomes \ {"none", "aborted"}
    [] OTHER        -> Outcomes \ {"none", "loginFailed"}

\* What the radio sends: its answers to commands, and what repeaters replied.
Frames == {"sent", "err", "reply", "loginFail"} \X Reqs

VARIABLES
  issued,           \* the last stamp taken
  kind,             \* kind[c], "none" before
  node,             \* node[c]: the repeater, "none" before
  outcome,          \* what the promise of request c was settled with
  writing,          \* requests whose write is outstanding
  adminSentQueue,   \* rt.adminCorr.adminSentQueue, each slot with its timer
  meshRequestSlot,  \* rt.adminCorr.meshRequestSlot: whose cancel it is
  tagOf,            \* tagOf[c]: the tag that c was given, NoReq before
  tags,             \* the store's "tag:" keys: who waits for each tag
  logins,           \* the store's "login:" keys: who waits for each node
  sessions,         \* the store's sessions: the login that opened each node's
  inflight,         \* commands the radio has yet to take
  taken,            \* commands it has taken
  onAir,            \* requests whose reply the radio would pass on
  frames,           \* frames on their way to the session
  linkUp,           \* the transport reports 'connected'
  connected,        \* MeshCoreSession.connected
  slipped,          \* a slot or a waiter and its answer have parted (history of the link)
  mixed,            \* a login was called while the node's answer to another may come
  cut,              \* the last stamp taken before the link last ended
  stray             \* a login's session may be set, or be left, behind the end of its link

store == <<tagOf, tags, logins>>
radio == <<inflight, taken, onAir, frames>>
link == <<linkUp, connected>>
history == <<slipped, mixed, cut, stray>>
vars == <<issued, kind, node, outcome, writing, adminSentQueue, meshRequestSlot, store,
          sessions, radio, link, history>>

Oldest(S) == {c \in S : \A d \in S : c <= d}

\* The requests the frames on the way tell of.
Told(what) == {c \in Reqs : \E i \in DOMAIN frames : frames[i][1] \in what /\ frames[i][2] = c}

\* The commands whose answer the session has yet to handle.
Owed == inflight \cup Told({"sent", "err"})

TypeOK ==
  /\ issued \in 0..MaxReqs
  /\ kind \in [Reqs -> Kinds \cup {"none"}]
  /\ node \in [Reqs -> Nodes \cup {"none"}]
  /\ outcome \in [Reqs -> Outcomes] /\ \A c \in Reqs : outcome[c] \in OutcomesOf(kind[c])
  /\ writing \subseteq Reqs /\ adminSentQueue \subseteq Reqs
  /\ meshRequestSlot \in Reqs \cup {NoReq}
  /\ tagOf \in [Reqs -> Reqs \cup {NoReq}]
  /\ tags \in [Reqs -> Reqs \cup {NoReq}]
  /\ logins \in [Nodes -> Reqs \cup {NoReq}]
  /\ sessions \in [Nodes -> Reqs \cup {NoReq}]
  /\ inflight \subseteq Reqs /\ taken \subseteq Reqs /\ onAir \subseteq Reqs
  /\ frames \in Seq(Frames)
  /\ linkUp \in BOOLEAN /\ connected \in BOOLEAN
  /\ slipped \in BOOLEAN /\ mixed \in BOOLEAN /\ stray \in BOOLEAN
  /\ cut \in 0..MaxReqs

Init ==
  /\ issued = 0
  /\ kind = [c \in Reqs |-> "none"] /\ node = [c \in Reqs |-> "none"]
  /\ outcome = [c \in Reqs |-> "none"]
  /\ writing = {} /\ adminSentQueue = {} /\ meshRequestSlot = NoReq
  /\ tagOf = [c \in Reqs |-> NoReq] /\ tags = [c \in Reqs |-> NoReq]
  /\ logins = [n \in Nodes |-> NoReq]
  /\ sessions = [n \in Nodes |-> NoReq]
  /\ inflight = {} /\ taken = {} /\ onAir = {} /\ frames = <<>>
  /\ linkUp = FALSE /\ connected = FALSE
  /\ slipped = FALSE /\ mixed = FALSE /\ stray = FALSE /\ cut = 0

\* The promises of S are settled, those that are not settled yet.
Settle(S, how, out) ==
  [c \in Reqs |-> IF c \in S /\ out[c] = "pending" THEN how ELSE out[c]]

-----------------------------------------------------------------------------
(* The calls.                                                              *)

\* A request is called on an open link: its slot is parked and its write
\* begins; a login and a trace wait in the store from the start.
Issue(k, n) ==
  /\ linkUp /\ issued < MaxReqs
  /\ LET c == issued + 1
     IN  /\ issued' = c
         /\ kind' = [kind EXCEPT ![c] = k]
         /\ node' = [node EXCEPT ![c] = n]
         /\ writing' = writing \cup {c}
         /\ adminSentQueue' = adminSentQueue \cup {c}
         /\ inflight' = inflight \cup {c}
         /\ \/ /\ k = "login"
               /\ logins' = [logins EXCEPT ![n] = c]
               /\ outcome' = [Settle({logins[n]}, "replaced", outcome) EXCEPT ![c] = "pending"]
               /\ mixed' = (mixed \/ \E d \in inflight \cup onAir \cup Told({"reply", "loginFail"}) :
                                       kind[d] = "login" /\ node[d] = n)
               /\ UNCHANGED tags
            \/ /\ k = "trace"
               /\ tags' = [tags EXCEPT ![c] = c]
               /\ outcome' = [Settle({tags[c]}, "replaced", outcome) EXCEPT ![c] = "pending"]
               /\ UNCHANGED <<logins, mixed>>
            \/ /\ k \in {"tagged", "status"}
               /\ outcome' = [outcome EXCEPT ![c] = "pending"]
               /\ UNCHANGED <<tags, logins, mixed>>
  /\ UNCHANGED <<meshRequestSlot, tagOf, sessions, taken, onAir, frames, link, slipped, cut,
                 stray>>

\* A request is called on a closed link, where the write rejects in the same
\* turn.  A login has taken its node's key by then.
IssueClosed(k, n) ==
  /\ ~linkUp /\ issued < MaxReqs
  /\ issued' = issued + 1
  /\ kind' = [kind EXCEPT ![issued + 1] = k]
  /\ node' = [node EXCEPT ![issued + 1] = n]
  /\ \/ /\ k = "login"
        /\ logins' = [logins EXCEPT ![n] = NoReq]
        /\ outcome' = [Settle({logins[n]}, "replaced", outcome)
                         EXCEPT ![issued + 1] = "writeFailed"]
     \/ /\ k # "login"
        /\ outcome' = [outcome EXCEPT ![issued + 1] = "writeFailed"]
        /\ UNCHANGED logins
  /\ UNCHANGED <<writing, adminSentQueue, meshRequestSlot, tagOf, tags, sessions, radio, link,
                 history>>

\* The write resolves.  A status request is done with that; a login whose answer
\* came first sets its session now.
Written(c) ==
  /\ c \in writing
  /\ writing' = writing \ {c}
  /\ outcome' = Settle({d \in {c} : kind[d] = "status"}, "ok", outcome)
  /\ sessions' = [n \in Nodes |->
       IF kind[c] = "login" /\ outcome[c] = "ok" /\ node[c] = n THEN c ELSE sessions[n]]
  /\ UNCHANGED <<issued, kind, node, adminSentQueue, meshRequestSlot, store, radio, link,
                 history>>

\* The write rejects, and the radio never sees the request.
WriteFails(c) ==
  /\ c \in writing \ taken
  /\ writing' = writing \ {c}
  /\ inflight' = inflight \ {c}
  /\ adminSentQueue' = adminSentQueue \ {c}
  /\ tags' = [tags EXCEPT ![c] = IF kind[c] = "trace" THEN NoReq ELSE @]
  /\ logins' = [n \in Nodes |-> IF logins[n] = c THEN NoReq ELSE logins[n]]
  /\ outcome' = Settle({IF kind[c] = "trace" THEN tags[c] ELSE c}, "writeFailed", outcome)
  /\ UNCHANGED <<issued, kind, node, meshRequestSlot, tagOf, sessions, taken, onAir, frames,
                 link, history>>

\* Mutant: the slot is dropped with the tag.
AbortUnparks(c) ==
  /\ kind[c] = "tagged" /\ outcome[c] = "pending"
  /\ outcome' = [outcome EXCEPT ![c] = "aborted"]
  /\ tags' = [t \in Reqs |-> IF t = tagOf[c] THEN NoReq ELSE tags[t]]
  /\ adminSentQueue' = adminSentQueue \ {c}
  /\ UNCHANGED <<issued, kind, node, writing, meshRequestSlot, tagOf, logins, sessions, radio,
                 link, history>>

\* The caller of a tagged request aborts it: its tag is released, its slot stays
\* parked for the answer still to come.
Abort(c) ==
  /\ kind[c] = "tagged" /\ outcome[c] = "pending"
  /\ outcome' = [outcome EXCEPT ![c] = "aborted"]
  /\ tags' = [t \in Reqs |-> IF t = tagOf[c] THEN NoReq ELSE tags[t]]
  /\ UNCHANGED <<issued, kind, node, writing, adminSentQueue, meshRequestSlot, tagOf, logins,
                 sessions, radio, link, history>>

\* repeaterLogout.
Logout(n) ==
  /\ sessions[n] # NoReq
  /\ sessions' = [sessions EXCEPT ![n] = NoReq]
  /\ UNCHANGED <<issued, kind, node, outcome, writing, adminSentQueue, meshRequestSlot, store,
                 radio, link, history>>

-----------------------------------------------------------------------------
(* Timers.                                                                 *)

\* ADMIN_SENT_TIMEOUT_MS: the slot is dropped.  That fails a tagged request; the
\* others do not hear of it.
SentTimerFires(c) ==
  /\ c \in adminSentQueue
  /\ adminSentQueue' = adminSentQueue \ {c}
  /\ outcome' = Settle({d \in {c} : kind[d] = "tagged"}, "timedOut", outcome)
  /\ slipped' = (slipped \/ c \in Owed)
  /\ UNCHANGED <<issued, kind, node, writing, meshRequestSlot, store, sessions, radio, link,
                 mixed, cut, stray>>

\* The timer of an awaiter in the store.
TagTimerFires(t) ==
  /\ tags[t] # NoReq
  /\ tags' = [tags EXCEPT ![t] = NoReq]
  /\ outcome' = Settle({tags[t]}, "timedOut", outcome)
  /\ UNCHANGED <<issued, kind, node, writing, adminSentQueue, meshRequestSlot, tagOf, logins,
                 sessions, radio, link, history>>

\* Mutant: the key is deleted and the promise is not rejected.
LoginTimerFiresSilently(n) ==
  /\ logins[n] # NoReq
  /\ logins' = [logins EXCEPT ![n] = NoReq]
  /\ UNCHANGED <<issued, kind, node, outcome, writing, adminSentQueue, meshRequestSlot, tagOf,
                 tags, sessions, radio, link, history>>

\* The same, of a login.
LoginTimerFires(n) ==
  /\ logins[n] # NoReq
  /\ logins' = [logins EXCEPT ![n] = NoReq]
  /\ outcome' = Settle({logins[n]}, "timedOut", outcome)
  /\ UNCHANGED <<issued, kind, node, writing, adminSentQueue, meshRequestSlot, tagOf, tags,
                 sessions, radio, link, history>>

-----------------------------------------------------------------------------
(* Frames.                                                                 *)

\* Whose onSent calls claimMeshRequestSlot.
Claims(h) == kind[h] \in Claiming

\* The tag the slot's holder would release, being unsettled.
CancelledTags ==
  {t \in Reqs : /\ meshRequestSlot # NoReq
                /\ kind[meshRequestSlot] = "tagged" /\ outcome[meshRequestSlot] = "pending"
                /\ tagOf[meshRequestSlot] = t}

\* Mutant: whoever waits for the holder's node.
CancelledLoginsByNode ==
  {n \in Nodes : /\ meshRequestSlot # NoReq /\ kind[meshRequestSlot] = "login"
                 /\ node[meshRequestSlot] = n}

\* The login the slot's holder would fail: its own.
CancelledLogins == {n \in Nodes : meshRequestSlot # NoReq /\ logins[n] = meshRequestSlot}

\* Whom the claim fails.
Displaced == {tags[t] : t \in CancelledTags} \cup {logins[n] : n \in CancelledLogins}

\* claimMeshRequestSlot by request h.
ClaimMeshRequestSlot(h) ==
  /\ meshRequestSlot' = h
  /\ logins' = [n \in Nodes |-> IF n \in CancelledLogins THEN NoReq ELSE logins[n]]

Receive(what, c) ==
  /\ frames # <<>> /\ Head(frames) = <<what, c>>
  /\ frames' = Tail(frames)
  /\ UNCHANGED <<issued, kind, node, writing, inflight, taken, onAir, link, history>>

\* RESP_SENT with tag t goes to the oldest slot.
HandleSent(t) ==
  /\ Receive("sent", t)
  /\ adminSentQueue' = adminSentQueue \ Oldest(adminSentQueue)
  /\ \/ adminSentQueue = {} /\ UNCHANGED <<outcome, meshRequestSlot, store>>
     \/ \E h \in Oldest(adminSentQueue) :
          \/ ~Claims(h) /\ UNCHANGED <<outcome, meshRequestSlot, store>>
          \/ /\ Claims(h) /\ ~(kind[h] = "tagged" /\ outcome[h] = "pending")
             /\ ClaimMeshRequestSlot(h)
             /\ tags' = [k \in Reqs |-> IF k \in CancelledTags THEN NoReq ELSE tags[k]]
             /\ outcome' = Settle(Displaced, "displaced", outcome)
             /\ UNCHANGED tagOf
          \/ /\ kind[h] = "tagged" /\ outcome[h] = "pending"
             /\ ClaimMeshRequestSlot(h)
             /\ tagOf' = [tagOf EXCEPT ![h] = t]
             /\ tags' = [k \in Reqs |-> IF k = t THEN h
                                        ELSE IF k \in CancelledTags THEN NoReq ELSE tags[k]]
             /\ outcome' = Settle({tags[t]}, "replaced", Settle(Displaced, "displaced", outcome))
  /\ UNCHANGED sessions

\* failOldestAdminSend, for a RESP_ERR.
HandleErr(c) ==
  /\ Receive("err", c)
  /\ LET head == Oldest(adminSentQueue)
         trace == {h \in head : kind[h] = "trace"}
         login == {n \in Nodes : logins[n] \in head}
     IN  /\ adminSentQueue' = adminSentQueue \ head
         /\ tags' = [t \in Reqs |-> IF t \in trace THEN NoReq ELSE tags[t]]
         /\ logins' = [n \in Nodes |-> IF n \in login THEN NoReq ELSE logins[n]]
         /\ outcome' = Settle({h \in head : kind[h] = "tagged"} \cup {tags[t] : t \in trace}
                                \cup {logins[n] : n \in login}, "refused", outcome)
  /\ UNCHANGED <<meshRequestSlot, tagOf, sessions>>

\* Mutant: the first request in the map is resolved, whatever its tag.
HandleReplyOldest(c) ==
  /\ kind[c] \in {"tagged", "trace"}
  /\ Receive("reply", c)
  /\ LET held == Oldest({t \in Reqs : tags[t] # NoReq})
     IN  /\ tags' = [t \in Reqs |-> IF t \in held THEN NoReq ELSE tags[t]]
         /\ outcome' = Settle({tags[t] : t \in held}, "ok", outcome)
  /\ UNCHANGED <<adminSentQueue, meshRequestSlot, tagOf, logins, sessions>>

\* PUSH_BINARY_RESPONSE and PUSH_TRACE_DATA: resolveTag.
HandleReply(c) ==
  /\ kind[c] \in {"tagged", "trace"}
  /\ Receive("reply", c)
  /\ tags' = [tags EXCEPT ![c] = NoReq]
  /\ outcome' = Settle({tags[c]}, "ok", outcome)
  /\ UNCHANGED <<adminSentQueue, meshRequestSlot, tagOf, logins, sessions>>

\* PUSH_LOGIN_SUCCESS and PUSH_LOGIN_FAIL, which name the node only.  The session
\* is set in the same turn, unless the login's write is still outstanding.
HandleLogin(c) ==
  /\ kind[c] = "login"
  /\ LET n == node[c]
     IN  /\ logins' = [logins EXCEPT ![n] = NoReq]
         /\ \/ /\ Receive("reply", c)
               /\ outcome' = Settle({logins[n]}, "ok", outcome)
               /\ sessions' = [sessions EXCEPT ![n] =
                    IF logins[n] \in writing \cup {NoReq} THEN @ ELSE logins[n]]
            \/ /\ Receive("loginFail", c)
               /\ outcome' = Settle({logins[n]}, "loginFailed", outcome)
               /\ UNCHANGED sessions
  /\ UNCHANGED <<adminSentQueue, meshRequestSlot, tagOf, tags>>

-----------------------------------------------------------------------------
(* The radio.                                                              *)

\* The radio takes the next command.  One that takes its slot ends the wait for
\* any request but a trace.
RadioTakes(c, answer) ==
  /\ c \in Oldest(inflight)
  /\ inflight' = inflight \ {c}
  /\ taken' = taken \cup {c}
  /\ \/ /\ answer = "err"
        /\ frames' = Append(frames, <<"err", c>>)
        /\ UNCHANGED <<onAir, slipped>>
     \/ /\ answer \in {"sent", "lost"}
        /\ onAir' = {c} \cup {d \in onAir : kind[c] = "trace" \/ kind[d] = "trace"}
        /\ frames' = IF answer = "lost" THEN frames ELSE Append(frames, <<"sent", c>>)
        /\ slipped' = (slipped \/ answer = "lost")
  /\ UNCHANGED <<issued, kind, node, outcome, writing, adminSentQueue, meshRequestSlot, store,
                 sessions, link, mixed, cut, stray>>

\* A repeater's reply reaches the radio.  That to a status request wakes nobody.
RadioReplies(c, answer) ==
  /\ linkUp /\ c \in onAir
  /\ answer = "loginFail" => kind[c] = "login"
  /\ onAir' = onAir \ {c}
  /\ frames' = IF kind[c] = "status" THEN frames ELSE Append(frames, <<answer, c>>)
  /\ UNCHANGED <<issued, kind, node, outcome, writing, adminSentQueue, meshRequestSlot, store,
                 sessions, inflight, taken, link, history>>

-----------------------------------------------------------------------------
(* The session.                                                            *)

\* Mutant: awaiters are dropped, sessions are not.
ResetAdminKeepsSessions ==
  /\ adminSentQueue' = {} /\ meshRequestSlot' = NoReq
  /\ tags' = [t \in Reqs |-> NoReq] /\ logins' = [n \in Nodes |-> NoReq]
  /\ outcome' = Settle({c \in adminSentQueue : kind[c] = "tagged"}
                         \cup {tags[t] : t \in Reqs} \cup {logins[n] : n \in Nodes},
                       "cutOff", outcome)
  /\ stray' = \E c \in writing : kind[c] = "login" /\ outcome[c] = "ok"
  /\ UNCHANGED sessions

\* resetAdmin.
ResetAdmin ==
  /\ adminSentQueue' = {} /\ meshRequestSlot' = NoReq
  /\ tags' = [t \in Reqs |-> NoReq] /\ logins' = [n \in Nodes |-> NoReq]
  /\ sessions' = [n \in Nodes |-> NoReq]
  /\ outcome' = Settle({c \in adminSentQueue : kind[c] = "tagged"}
                         \cup {tags[t] : t \in Reqs} \cup {logins[n] : n \in Nodes},
                       "cutOff", outcome)
  /\ stray' = \E c \in writing : kind[c] = "login" /\ outcome[c] = "ok"

Connect ==
  /\ ~connected
  /\ linkUp' = TRUE /\ connected' = TRUE
  /\ UNCHANGED <<issued, kind, node, outcome, writing, adminSentQueue, meshRequestSlot, store,
                 sessions, radio, history>>

\* The link drops with the frames on it.  A stopped session does not notice.
Disconnect ==
  /\ linkUp
  /\ linkUp' = FALSE /\ connected' = FALSE
  /\ inflight' = {} /\ frames' = <<>>
  /\ \/ connected /\ ResetAdmin /\ slipped' = FALSE
     \/ /\ ~connected
        /\ slipped' = (slipped \/ adminSentQueue # {} \/ frames # <<>>)
        /\ stray' = TRUE
        /\ UNCHANGED <<outcome, adminSentQueue, meshRequestSlot, tags, logins, sessions>>
  /\ cut' = issued
  /\ UNCHANGED <<issued, kind, node, writing, tagOf, taken, onAir, mixed>>

\* stop(): what the radio was sent, it still answers.
Stop ==
  /\ connected' = FALSE
  /\ ResetAdmin
  /\ cut' = issued
  /\ slipped' = (slipped \/ Owed # {})
  /\ UNCHANGED <<issued, kind, node, writing, tagOf, radio, linkUp, mixed>>

Timers ==
  \/ \E c \in Reqs : SentTimerFires(c) \/ TagTimerFires(c)
  \/ \E n \in Nodes : LoginTimerFires(n)

Next ==
  \/ \E k \in Kinds, n \in Nodes : Issue(k, n) \/ IssueClosed(k, n)
  \/ \E c \in Reqs : \/ Written(c) \/ WriteFails(c) \/ Abort(c)
                     \/ HandleSent(c) \/ HandleErr(c) \/ HandleReply(c) \/ HandleLogin(c)
  \/ \E c \in Reqs, answer \in {"sent", "err", "lost"} : RadioTakes(c, answer)
  \/ \E c \in Reqs, answer \in {"reply", "loginFail"} : RadioReplies(c, answer)
  \/ \E n \in Nodes : Logout(n)
  \/ Timers
  \/ Connect \/ Disconnect \/ Stop

Spec == Init /\ [][Next]_vars

\* Timers fire and writes settle.
FairSpec ==
  /\ Spec
  /\ \A c \in Reqs : WF_vars(SentTimerFires(c)) /\ WF_vars(TagTimerFires(c)) /\ WF_vars(Written(c))
  /\ \A n \in Nodes : WF_vars(LoginTimerFires(n))

-----------------------------------------------------------------------------
(* Properties.                                                             *)

\* Who waits in the store.
Awaiting == {tags[t] : t \in Reqs} \cup {logins[n] : n \in Nodes}

\* A caller that waits is remembered where a timer, a frame or a teardown will
\* find it: in a slot, in the store or by its write.
PendingIsHeld ==
  \A c \in Reqs : outcome[c] = "pending" =>
    \/ kind[c] = "tagged" /\ c \in adminSentQueue
    \/ kind[c] = "status" /\ c \in writing
    \/ c \in Awaiting

\* Until a slot slips, the slots parked are those whose RESP_SENT or RESP_ERR is
\* still to come.
SlotsMatchAnswers == ~slipped => adminSentQueue = Owed

\* Nobody is lost between the queue, the store and the writes, and the queue is in
\* step with the radio (parkAdminSent, AdminSessionStore).
WaitersAreFound == TypeOK /\ PendingIsHeld /\ SlotsMatchAnswers

\* Until a slot slips, a request of this link was failed for a newer one only if its
\* reply can no longer come: the radio has dropped it and passed nothing on.
DisplacedIsSilent ==
  ~slipped => \A c \in Reqs : outcome[c] = "displaced" /\ c > cut =>
                c \notin onAir \cup Told({"reply", "loginFail"})

\* Until a slot slips, nobody waits out the timer of a reply that the radio will
\* not pass on, once the session has seen the RESP_SENT of the newer request.
HopelessIsFailed ==
  ~slipped => \A c \in Awaiting \cap Reqs :
    \/ c \in Owed \cup onAir \cup Told({"reply", "loginFail"})
    \/ kind[c] # "trace" /\ \E d \in Told({"sent"}) : d > c /\ kind[d] \in Claiming

\* meshRequestSlot tells whom the radio has dropped: those are failed, and no others.
SlotFollowsRadio == DisplacedIsSilent /\ HopelessIsFailed

\* A reply settles the request it answers, until a slot slips, and a login's if no
\* answer to another login to that node was to come when it was called.
ReplyFindsItsOwn ==
  [][\A c \in Reqs :
       /\ frames # <<>> /\ linkUp' /\ ~slipped /\ ~mixed
       /\ frames' = Tail(frames) /\ Head(frames) \in {"reply", "loginFail"} \X {c}
       => \A d \in Reqs : outcome'[d] # outcome[d] <=> d = c /\ outcome[c] = "pending"]_vars

\* A session was opened by a login on this link, unless the login's write resolved
\* after its answer and the end of its link, or a stopped session missed the end.
SessionsEndWithLink == ~stray => \A n \in Nodes : sessions[n] = NoReq \/ sessions[n] > cut

\* Every request is settled, though neither radio nor repeater may answer.
RequestsSettle == \A c \in Reqs : outcome[c] = "pending" ~> outcome[c] # "pending"

=============================================================================

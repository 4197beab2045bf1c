---------------------------- MODULE RemoteCommands ----------------------------
(***************************************************************************)
(* Commands whose answer is awaited in a place for one: a repeater's CLI    *)
(* reply (repeaterSendCli, one place per repeater), the radio's own         *)
(* statistics (repeaterGetLocalStats) and a path discovery                  *)
(* (sendPathDiscoveryReq), with the two sends that share their answers: the *)
(* CLI command nobody answers (expectReply: false) and the status request,  *)
(* which takes the radio's one mesh-request slot from a discovery.          *)
(*                                                                         *)
(* A call is named by its write-order stamp.  Besides the place it awaits   *)
(* its answer in, it holds a slot for the radio's direct answer, RESP_SENT, *)
(* RESP_STATS or RESP_ERR: in dmSendQueue, adminSentQueue or the queues of  *)
(* the session.  The session gives an answer to the oldest slot that can    *)
(* take it, so those queues are one set of stamps here, as in ReplyRouting. *)
(***************************************************************************)
EXTENDS Naturals, TLC

CONSTANTS
  Nodes,     \* repeaters, by public-key prefix
  Kinds,     \* kinds of local statistics
  MaxCalls,  \* bound on the calls
  MaxDrops   \* bound on the link drops

ASSUME TargetsAssumption == Nodes \cap Kinds = {}
ASSUME BoundsAssumption == MaxCalls \in Nat /\ MaxDrops \in Nat

Calls == 1..MaxCalls
Ops == {"cli", "fire", "stats", "discover", "status"}
TargetsOf(o) == IF o = "stats" THEN Kinds ELSE Nodes

\* How a promise ends, with the call whose answer or arrival ended it, 0 if none.
Ends == {"ok", "superseded", "refused", "timeout", "aborted", "write", "link"}
Pending == <<"pending", 0>>
Outcomes == {Pending} \cup (Ends \X (Calls \cup {0}))

VARIABLES
  issued,             \* the last stamp taken
  op,                 \* op[c]: what call c asks
  target,             \* target[c]: of which repeater, or which statistics
  outcome,            \* outcome[c]: the promise of call c
  writing,            \* calls whose write may yet settle
  slots,              \* calls holding a slot for the radio's direct answer
  pendingCli,         \* rt.adminCorr.pendingCli: the call, 0 if none
  pendingLocalStats,  \* rt.adminCorr.pendingLocalStats
  pendingDiscovery,   \* rt.pathDisc.pendingDiscovery
  meshRequestSlot,    \* rt.adminCorr.meshRequestSlot: the call whose cancel it is
  inflight,           \* commands the radio has yet to take
  onAir,              \* CLI commands whose reply may come
  tracked,            \* the mesh request the radio tracks, 0 if none
  linkUp,             \* the transport is connected, and the session knows
  drops,              \* link drops so far
  slipped             \* a slot has gone before its answer came (history of the link)

calls == <<issued, op, target>>
places == <<pendingCli, pendingLocalStats, pendingDiscovery>>
radio == <<inflight, onAir, tracked>>
link == <<linkUp, drops>>
vars == <<calls, outcome, writing, slots, places, meshRequestSlot, radio, link, slipped>>

Oldest(S) == {c \in S : \A d \in S : c <= d}

TypeOK ==
  /\ issued \in 0..MaxCalls
  /\ op \in [Calls -> Ops \cup {"none"}]
  /\ target \in [Calls -> Nodes \cup Kinds \cup {"none"}]
  /\ outcome \in [Calls -> Outcomes]
  /\ writing \subseteq 1..issued /\ slots \subseteq 1..issued
  /\ pendingCli \in [Nodes -> 0..issued]
  /\ pendingLocalStats \in 0..issued /\ pendingDiscovery \in 0..issued
  /\ meshRequestSlot \in 0..issued /\ tracked \in 0..issued
  /\ inflight \subseteq 1..issued /\ onAir \subseteq 1..issued
  /\ linkUp \in BOOLEAN /\ drops \in 0..MaxDrops /\ slipped \in BOOLEAN

Init ==
  /\ issued = 0
  /\ op = [c \in Calls |-> "none"] /\ target = [c \in Calls |-> "none"]
  /\ outcome = [c \in Calls |-> Pending]
  /\ writing = {} /\ slots = {}
  /\ pendingCli = [n \in Nodes |-> 0]
  /\ pendingLocalStats = 0 /\ pendingDiscovery = 0 /\ meshRequestSlot = 0
  /\ inflight = {} /\ onAir = {} /\ tracked = 0
  /\ linkUp = TRUE /\ drops = 0 /\ slipped = FALSE

-----------------------------------------------------------------------------
(* Settling promises.                                                      *)

\* Settling a promise a second time does nothing.
Settled(S, end, by) ==
  [c \in Calls |-> IF c \in S /\ outcome[c] = Pending THEN <<end, by>> ELSE outcome[c]]

\* The calls of S are told their answer, or why there is none.
Resolve(S, by) == outcome' = Settled(S, "ok", by)
Reject(S, end, by) == outcome' = Settled(S, end, by)

\* The call awaited in the place that an answer of call c goes to: a set of one
\* call or none.
Awaited(o, t) ==
  CASE o = "cli"      -> {pendingCli[t]} \ {0}
    [] o = "stats"    -> {pendingLocalStats} \ {0}
    [] o = "discover" -> {pendingDiscovery} \ {0}
    [] OTHER          -> {}

\* The places once the calls of S have left those they hold.
Vacate(S) ==
  /\ pendingCli' = [n \in Nodes |-> IF pendingCli[n] \in S THEN 0 ELSE pendingCli[n]]
  /\ pendingLocalStats' = IF pendingLocalStats \in S THEN 0 ELSE pendingLocalStats
  /\ pendingDiscovery' = IF pendingDiscovery \in S THEN 0 ELSE pendingDiscovery

\* A call fails and leaves its place: cleanup, disarmDiscovery, onErr.  The place
\* of a newer call is left alone, and so is a call that has settled.
Fail(S, end, by) ==
  LET open == {c \in S : outcome[c] = Pending}
  IN  Reject(open, end, by) /\ Vacate(open)

-----------------------------------------------------------------------------
(* The calls.                                                              *)

\* repeaterSendCli, repeaterGetLocalStats, sendPathDiscoveryReq, sendStatusReq: the
\* call takes its place, of the one it supersedes there, and its slot, and writes.
Call(o, t) ==
  /\ issued < MaxCalls
  /\ LET c == issued + 1
     IN  /\ issued' = c
         /\ op' = [op EXCEPT ![c] = o] /\ target' = [target EXCEPT ![c] = t]
         /\ Reject(Awaited(o, t), "superseded", c)
         /\ pendingCli' = [n \in Nodes |-> IF o = "cli" /\ n = t THEN c ELSE pendingCli[n]]
         /\ pendingLocalStats' = IF o = "stats" THEN c ELSE pendingLocalStats
         /\ pendingDiscovery' = IF o = "discover" THEN c ELSE pendingDiscovery
         /\ writing' = writing \cup {c}
         /\ slots' = slots \cup {c}
         /\ inflight' = IF linkUp THEN inflight \cup {c} ELSE inflight
  /\ UNCHANGED <<meshRequestSlot, onAir, tracked, link, slipped>>

\* The write resolves.  Only repeaterGetLocalStats waits for that, so the write of
\* another call counts until the radio has taken the command.
Written(c) ==
  /\ c \in writing /\ linkUp /\ op[c] = "stats"
  /\ writing' = writing \ {c}
  /\ UNCHANGED <<calls, outcome, slots, places, meshRequestSlot, radio, link, slipped>>

\* The write rejects: dequeueDmSend, popPendingAck and the like take the slot and
\* the call fails, but repeaterGetLocalStats throws past the promise it armed.
WriteFails(c) ==
  /\ c \in writing
  /\ linkUp => c \in inflight
  /\ writing' = writing \ {c}
  /\ inflight' = inflight \ {c}
  /\ slots' = slots \ {c}
  /\ IF op[c] = "stats"
     THEN UNCHANGED <<outcome, places>> ELSE Fail({c}, "write", 0)
  /\ UNCHANGED <<calls, meshRequestSlot, onAir, tracked, link, slipped>>

\* Mutant: an aborted command gives its slot up.
AbortDequeues(c) ==
  /\ op[c] \in {"cli", "fire"} /\ outcome[c] = Pending
  /\ Fail({c}, "aborted", 0)
  /\ slots' = slots \ {c}
  /\ UNCHANGED <<calls, writing, meshRequestSlot, radio, link, slipped>>

\* repeaterSendCli: onAbort.  The slot stays: the radio's answer is still to come.
Abort(c) ==
  /\ op[c] \in {"cli", "fire"} /\ outcome[c] = Pending
  /\ Fail({c}, "aborted", 0)
  /\ UNCHANGED <<calls, writing, slots, meshRequestSlot, radio, link, slipped>>

\* The reply's time limit.  That of a discovery or of statistics is longer than
\* the slot's; a CLI command's slot has none.
TimesOut(c) ==
  /\ outcome[c] = Pending
  /\ op[c] \in {"stats", "discover"} => c \notin slots
  /\ op[c] # "status"
  /\ Fail({c}, "timeout", 0)
  /\ UNCHANGED <<calls, writing, slots, meshRequestSlot, radio, link, slipped>>

\* The time limit of a slot: awaitAck, requestTypedOrAck, parkAdminSent.  Only a
\* discovery fails by it.
SlotTimesOut(c) ==
  /\ c \in slots /\ op[c] \in {"stats", "discover", "status"}
  /\ slots' = slots \ {c}
  /\ slipped' = (slipped \/ c \in inflight)
  /\ Fail(IF op[c] = "discover" THEN {c} ELSE {}, "timeout", 0)
  /\ UNCHANGED <<calls, writing, meshRequestSlot, radio, link>>

-----------------------------------------------------------------------------
(* The radio's answers, in the order of the commands.                      *)

\* The radio takes command c.
Takes(c) ==
  /\ linkUp /\ c \in Oldest(inflight)
  /\ inflight' = inflight \ {c}
  /\ writing' = IF op[c] = "stats" THEN writing ELSE writing \ {c}

\* Mutant: the discovery a claim displaces is whichever is awaited.
ConfirmCancelsAny(taker, c) ==
  IF \E d \in taker : op[d] \in {"discover", "status"}
  THEN /\ meshRequestSlot' \in taker
       /\ Fail({pendingDiscovery} \ {0}, "superseded", meshRequestSlot')
  ELSE Resolve({d \in taker : op[d] = "fire"}, c)
       /\ UNCHANGED <<meshRequestSlot, places>>

\* What a RESP_SENT does for the call that takes it: a command without a reply is
\* done, a mesh request claims the radio's slot and cancels the request that held
\* it, if that is a discovery still awaited.
Confirm(taker, c) ==
  IF \E d \in taker : op[d] \in {"discover", "status"}
  THEN /\ meshRequestSlot' \in taker
       /\ Fail(({meshRequestSlot} \cap {pendingDiscovery}) \ {0}, "superseded", meshRequestSlot')
  ELSE Resolve({d \in taker : op[d] = "fire"}, c)
       /\ UNCHANGED <<meshRequestSlot, places>>

\* RESP_SENT: handleSent, or the discovery's typed waiter if that is older.
Sent(c) ==
  /\ op[c] # "stats" /\ Takes(c)
  /\ onAir' = IF op[c] = "cli" THEN onAir \cup {c} ELSE onAir
  /\ tracked' = IF op[c] \in {"discover", "status"} THEN c ELSE tracked
  /\ LET taker == Oldest({d \in slots : op[d] # "stats"})
     IN  slots' = slots \ taker /\ Confirm(taker, c)
  /\ UNCHANGED <<calls, link, slipped>>

\* RESP_ERR: routeErr.  The caller of a CLI command that awaits its reply does not
\* hear of it.
Err(c) ==
  /\ Takes(c)
  /\ LET taker == Oldest(slots)
     IN  /\ slots' = slots \ taker
         /\ Fail({d \in taker : op[d] \notin {"cli", "status"}}, "refused", c)
  /\ UNCHANGED <<calls, meshRequestSlot, onAir, tracked, link, slipped>>

\* Mutant: statistics of whatever kind answer the call that waits.
AnsweredAnyKind(c) == Awaited("stats", target[c])

\* The call that statistics of call c answer: the one that waits, if it wants them.
Answered(c) == {d \in Awaited("stats", target[c]) : target[d] = target[c]}

\* RESP_STATS frees the oldest slot it answers, then goes to the feature.
Stats(c) ==
  /\ op[c] = "stats" /\ Takes(c)
  /\ slots' = slots \ Oldest({d \in slots : op[d] = "stats"})
  /\ Resolve(Answered(c), c) /\ Vacate(Answered(c))
  /\ UNCHANGED <<calls, meshRequestSlot, onAir, tracked, link, slipped>>

\* A repeater's CLI reply, by way of the radio's queue of messages: onCliReply.
CliReply(c) ==
  /\ linkUp /\ c \in onAir
  /\ onAir' = onAir \ {c}
  /\ Resolve(Awaited("cli", target[c]), c) /\ Vacate(Awaited("cli", target[c]))
  /\ UNCHANGED <<calls, writing, slots, meshRequestSlot, inflight, tracked, link, slipped>>

\* The call that the path found for call c answers.
Discovered(c) == {d \in Awaited("discover", target[c]) : target[d] = target[c]}

\* PUSH_PATH_DISCOVERY_RESPONSE, to the request the radio tracks.
DiscoveryReply(c) ==
  /\ linkUp /\ tracked = c /\ op[c] = "discover"
  /\ tracked' = 0
  /\ Resolve(Discovered(c), c) /\ Vacate(Discovered(c))
  /\ UNCHANGED <<calls, writing, slots, meshRequestSlot, inflight, onAir, link, slipped>>

-----------------------------------------------------------------------------
(* The link.                                                               *)

\* Mutant: the commands without a reply are not told.
AwaitedOnDropPlaced ==
  UNION {Awaited(o, t) : o \in {"cli", "stats", "discover"}, t \in Nodes}

\* The calls that tearDownConnection fails: those in their places, and of the
\* slots of dmSendQueue the commands without a reply.
AwaitedOnDrop ==
  (UNION {Awaited(o, t) : o \in {"cli", "stats", "discover"}, t \in Nodes})
    \cup {c \in slots : op[c] = "fire"}

\* tearDownConnection: resetDmState, resetAdmin, resetPathDiagnostics.
LinkDrops ==
  /\ linkUp /\ drops < MaxDrops
  /\ linkUp' = FALSE /\ drops' = drops + 1
  /\ Fail(AwaitedOnDrop, "link", 0)
  /\ slots' = {} /\ inflight' = {} /\ meshRequestSlot' = 0 /\ slipped' = FALSE
  /\ UNCHANGED <<calls, writing, onAir, tracked>>

\* The link comes back once the writes to the old one have settled.
LinkComesUp ==
  /\ ~linkUp /\ writing = {}
  /\ linkUp' = TRUE
  /\ UNCHANGED <<calls, outcome, writing, slots, places, meshRequestSlot, radio, drops,
                 slipped>>

WriteSettles(c) == Written(c) \/ WriteFails(c)

Next ==
  \/ \E o \in Ops : \E t \in TargetsOf(o) : Call(o, t)
  \/ \E c \in 1..issued : \/ WriteSettles(c) \/ Abort(c) \/ TimesOut(c) \/ SlotTimesOut(c)
                          \/ Sent(c) \/ Err(c) \/ Stats(c) \/ CliReply(c) \/ DiscoveryReply(c)
  \/ LinkDrops \/ LinkComesUp

Spec == Init /\ [][Next]_vars

\* Nothing tells two repeaters, or two kinds of statistics, apart.
TargetSymmetry == Permutations(Nodes) \cup Permutations(Kinds)

-----------------------------------------------------------------------------
(* Properties.                                                             *)

\* While no slot has gone early the slots are those of the commands the radio has
\* yet to take, or whose write to a closed link is about to fail, whatever was
\* aborted, timed out, superseded or not written: the next RESP_SENT or RESP_ERR is
\* credited to the command it answers.
SlotsMatchAnswers ==
  /\ TypeOK
  /\ ~slipped => inflight \subseteq slots /\ slots \subseteq inflight \cup writing

\* A call is answered by what it asked: the reply to it, or to an older call of the
\* same thing, each reply at most once.  While no slot has gone early a command
\* without a reply is confirmed by its own RESP_SENT.
AnswersAreOwn ==
  [][\A c \in Calls : outcome[c] = Pending /\ outcome'[c][1] = "ok" =>
       LET b == outcome'[c][2]
       IN  /\ IF op[c] = "fire" THEN ~slipped => b = c
              ELSE op[b] = op[c] /\ target[b] = target[c] /\ b <= c
           /\ \A d \in Calls \ {c} : op[d] = op[c] => outcome'[d] # <<"ok", b>>]_vars

\* No call fails on another's account: it is superseded by a newer command that took
\* its place or, being a discovery, the radio's one mesh-request slot, and while no
\* slot has gone early it is refused by the RESP_ERR to its own command.  Nor does a
\* discovery go on waiting once the radio has given its slot to another.
FailuresAreOwn ==
  [][/\ \A c \in Calls : outcome[c] = Pending /\ outcome'[c][1] \in {"refused", "superseded"} =>
          LET b == outcome'[c][2]
          IN  IF outcome'[c][1] = "refused"
              THEN ~slipped => b = c
              ELSE /\ c < b
                   /\ \/ op'[b] = op[c] /\ (op[c] = "cli" => target'[b] = target[c])
                      \/ op[c] = "discover" /\ op[b] = "status"
     /\ ~slipped' /\ pendingDiscovery' \notin slots' \cup {0} => tracked' = pendingDiscovery']_vars

\* Nobody is forgotten: a call that has not settled is in the place its answer, or
\* the end of the link, will find it in.  A command without a reply has no place, and
\* settles by its slot.
NobodyIsForgotten ==
  \A c \in 1..issued : outcome[c] = Pending /\ op[c] # "status" =>
    c \in IF op[c] = "fire" THEN slots ELSE Awaited(op[c], target[c])

=============================================================================

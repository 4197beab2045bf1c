# TLA+ models of meshcore-ts

meshcore-ts is a TypeScript client for MeshCore companion radios: it drives a
radio over serial, BLE or TCP, mirrors the radio's contacts, channels and
messages, and lets an application send messages and query repeaters over the
mesh. These modules model the parts of it where concurrency, ordering and
failure decide whether it is right, check them with TLC on small instances, and
prove the most important properties with TLAPS for every value of the constants.
Paths below are relative to the repository root, which holds `src/`, `tests/`
and `docs/`.

## 1. The system

Everything runs on one JavaScript thread. What makes it concurrent is that
frames, timers, transport events, resumed promises and the application's calls
interleave at every `await`, that the radio is a second process with queues of
its own, and that the link between the two loses things.

| component | state it keeps | operations | models |
|---|---|---|---|
| reply correlation (`session.ts`, `replyOrder.ts`, `deviceAdmin.ts`) | `pendingAcks`, `pendingTyped`, the heads of the admin, DM, lookup, export and path-discovery queues, the write-order counter | issue, route an answer, timer, abort, write error, teardown | Correlation, ReplyRouting |
| lifecycle, handshake, sync lock (`session.ts`) | `started`, `connected`, `syncLock`, the two contact waiters, `syncProgress` | start, stop, connect and drop edges, handshake, getters | SyncSlots; the edges also in every other module, the settings poll in DeviceSettings |
| inbox pump (`drain.ts`) | `busy`, `pending` | scheduleDrain, pumpAfterRecv, resetDrain | Drain |
| direct messages (`directMessages.ts`) | `dmSendQueue`, `pendingDmAcks`, message states | send, retry plan, RESP_SENT, confirmation, reset | Delivery, DirectMessages |
| mesh requests, admin sessions (`repeaterAdmin.ts`, `adminSessions.ts`) | `adminSentQueue`, tag and login awaiters, `meshRequestSlot`, sessions, `pendingCli`, `pendingLocalStats` | tagged request, login, status, trace, logout, claim and cancel; CLI commands, local statistics, anonymous requests | MeshRequests, RemoteCommands, ContactEdits (the borrowed path) |
| contacts (`contacts.ts`, `discoveredStore.ts`) | the contact map, the discovered pool, `syncSeen`, the bulk window, re-sync and refresh timers, lookups | walk, prune, adverts, evictions, refresh, add, remove | ContactsSync |
| contact edits (`session.ts`, `contacts.ts`) | the radio's record, the discovered row, the list entry | path, reset, favourite, permissions, direct preference, add, remove, merge of a report | ContactEdits |
| channels (`channels.ts`, `channelMessages.ts`) | `channelByIdx`, `devicePresence`, the stored list | enumerate, read, write, mark, upsert, file a message | ChannelSlots; the pump call in Drain |
| relay attribution (`pendingChannelSends.ts`, `meshObservations.ts`) | two bounded buffers with ages | register, observe, attribute, consume, evict | RelayAttribution |
| path diagnostics, signing | `pendingDiscovery`; one signing session | discover, trace; sign in three steps | RemoteCommands, MeshRequests; signing not modelled |
| device settings (`selfInfo.ts`, `autoAdd.ts`, `customVars.ts`, `deviceInfo.ts`) | mirrors of the radio's values, the settings poll | setters of one or two commands, reports, poll | DeviceSettings |
| transports (`transports/`) | socket or port, parser buffer | connect, send, close, deframe | not modelled |
| codecs (`protocol/`) | none | encode, decode | not modelled |

**How they interact.** The transport hands every chunk to `ingest`, which splits
it into frames and gives each, synchronously, to one feature handler or to the
routing of `RESP_OK`, `RESP_ERR` and `RESP_SENT`. Handlers settle promises, whose
awaiters resume in microtasks after the chunk. Features share the session's
queues and its write-order counter: whose answer a frame is depends on the heads
of queues that belong to four modules. `tearDownConnection` and `stop()` empty
all of them in a fixed order. The walk of the contacts is written by the
handshake, a getter or the re-sync timer, received by the contacts feature, and
awaited through two slots of the session.

**Which behaviours are hard.** The protocol has no correlation id, so an answer
is matched by order alone, and a waiter that gives up early, or survives its
link, shifts every later match (ReplyRouting, DirectMessages). Some loops are
chains of callbacks that nothing owns, so a reset cannot recall them (Drain).
Shared single-use slots and detached timers outlive the operation that made them
(SyncSlots). The radio holds one mesh request at a time, and the session has to
know which (MeshRequests). A list is pruned against a stream while pushes,
lookups and the user's edits change both ends (ContactsSync). An edit rewrites a whole
record from a copy taken before an `await` (ContactEdits); a message carries a slot
number that may have changed hands since (ChannelSlots); a packet overheard from a
repeater carries nothing but a hash byte and, sometimes, a readable timestamp
(RelayAttribution); an answer awaited in a place for one meets supersession, aborts and
a slot it shares with others (RemoteCommands); a setter of two commands may be left half
done, and of a chunk's answers the first read may be the last applied (DeviceSettings).
`stop()` leaves the data callback in place: a stopped session goes on parsing an open link.

**What makes each correct.** Reply correlation: an answer settles the command it
answers, and every caller is told exactly once. Lifecycle: no operation hangs,
getters take turns, 'done' is not shown early. Pump: one round at a time, and the
inbox is emptied. DMs: 'ack' only for a confirmed message, nothing stuck in
'sending', every call returns. Mesh requests: a request is failed for a newer one
only when its reply can no longer come, and then it is. Contacts: the list comes
to equal the radio's store, and nothing the radio holds is pruned. Edits: the three
copies of a contact agree again and a borrowed path is given back. Channels: a message
stays in the channel it was sent on. Relays: a credited relay carries the message it is
credited to. Remote commands: no call is answered, refused or displaced on another's
account. Settings: what the session shows is what the radio has, wherever it can know.

`PROJECT.json` lists the components with their status, the runs, one mutant per
property, the source lines each definition stands for, the findings, the hazards
with the properties that would catch them, and the theorems.

## 2. The modules

Conventions. A module has the state as VARIABLES, a TypeOK, one action per
handler, timer, resumed awaiter or call, and properties at the end. History
variables (`lost`, `gaveUp`, `mishaps`, `slipped`, `adrift`, ...) record that
something happened after which the code makes no promise; the properties say
"until then", and section 5 says where the code falls short without that. A
`TypeOK` stands alone or in the first invariant of its module. A
definition whose comment starts with `Mutant:` is a plausible bug; no specification
uses it. The external part of each module is the radio, the link and the
repeaters; it is modelled from what the code sends and expects, as freely as that
allows (it may answer late, never, or refuse).

**ReplyRouting.** A command is its write-order stamp (`replyOrder.ts`), of one of
ten kinds that differ in the queues they enter, the answers they take and what a
timer does. Stamps are taken in the synchronous turn that pushes the slot, so a
FIFO is the set of stamps in it and its head is the least. `Issue` is `request`,
`requestTypedOrAck`, `writeAckedFrame` and the features' sends; `Reply` is
`ingest` with `routeErr`, `resolveNextAck`, `typedOwnsSent` and the typed queues;
`Expire`, `Abort` and `WriteFail` are the timers, the abort signal and the catch
of the write; `Disconnect` and `Stop` run the teardown in the code's order.

**Correlation** is what ReplyRouting implements, with neither queues nor stamps nor
reply codes: callers wait, the radio owes answers, and an answer settles the caller of
its own command. It spells out the two limits of the protocol: once a waiter gave up
on an answer still owed, an answer may settle one caller that is not its own, but a
command that still waits is always settled by its own; once an answer was lost, any may
be. `Correlated` in ReplyRouting is `INSTANCE Correlation WITH waiting <- Waiting, owed <- ...`.

**Drain.** `sleeping`, `writes` and `replies` are the steps of rounds that exist
somewhere: a 250 ms sleep, a pending `writeFrame`, a GET_NEXT_MSG the radio has yet
to answer. Each knows nothing of the others; `busy` and `pending` are all the code
knows. `Receive` covers the four frame handlers that go on with a round or, by an
early return, do not.

**SyncSlots.** An operation is its place in the `syncLock` chain. `armWaiter`'s
timers are separate from the slots they will empty, as in the code. The steps of
a handshake are places: the requests inside each are ReplyRouting's.

**DirectMessages.** Attempts are stamps again; `plan` is what
`sendDmTextWithRetry` still has to try (known path, flood, flood only), `place`
where its loop is. Events a loop does not listen for are missed, as in the code.

**Delivery** is what DirectMessages implements, with neither FIFO nor hashes nor timers: an
answer, and later a confirmation, moves the message of its own attempt; a call without
retries makes one attempt and returns when it is written or refused; a call with retries
returns 'ok' only on a confirmation, and otherwise gives up and shows 'failed'. It spells
out the limit of the protocol: once an answer was lost, or a rejected write took the slot
of an earlier attempt at its message, or what was owed was left behind by a stop or by a
drop a stopped session did not see (`parted`), an answer may move some other message, one
at most. A link whose end is seen ends that too. 'ack' is not promised to last.
`ImplementsDelivery` in DirectMessages maps `owed` to `inflight`, `taken` to `accepted`,
`parted` to `slipped`, and `retried` to the plans of `sendDmTextWithRetry`.

**MeshRequests.** `frames` is the FIFO from radio to session, `onAir` the requests
whose reply the radio would still pass on; the tag of a request is its number.
`meshRequestSlot` is the request whose cancel closure the session holds, and that
closure may run long after its request has settled.

**ContactsSync.** Of a contact only its key. `frames` and `inbox` are the two
directions of the link; the radio walks its store while it changes. A promise
that a frame settles puts its awaiter in `ready`; only frames of the same chunk
may be handled before it runs. The end frame carries, for PrunedWereGone only,
the keys that stayed in the store during its walk. Assumed of the radio: an
enumeration skips no contact that stays in the store, one runs at a time, and
each command is answered once, in order.

**ContactEdits.** One contact in its three copies. A call keeps what it read when it was
made (`contact`, `row`), because the code writes it back after the ack; `Merged` is
`upsertOnRadioContact` and keeps a manual path against a report without one. The
zero-hop path of an anonymous request has its own value, `shim`, so that a leak shows. A
path is set with a preference for direct logins (`Given`) or with the entry's own.

**ChannelSlots.** `byIdx`, `presence` and `list` are the three pictures of the radio's
slots; the handshake enumerates them without waiting, `getChannels` waits for each. A
text is queued under its slot and remembers, for the property only, the channel it was
sent on.

**RelayAttribution.** Two buffers over a clock of half-minute ticks: sends waiting for
their relays, observations waiting for their message. `Match` is the choice
`pendingChannelSends.ts` makes, by decrypted timestamp, by lock, by age; `Consume` and
`EvictedObs` are `meshObservations.ts` with its reordering.

**RemoteCommands.** A call has a slot for the radio's direct answer and a place for the
answer proper (`pendingCli` per repeater, `pendingLocalStats`, `pendingDiscovery`); each
of its timers, the abort, a newer call and the teardown frees one or both.

**DeviceSettings.** The value of a setting is the call that set it, so a stale mirror is
an old number. The session reads a frame in the step in which the radio takes the command,
and applies what it says later: one chunk may carry several frames, which are read in one
turn (`tcpTransport.ts:78`), and the calls they answer are resumed behind them, a setter
after one turn of the microtask queue or two, a getter and the poll after two, and a setter
whose write is unresolved (`writing`) after that. `settled` holds what was read and not
applied, in the order of the frames; `Resumed` applies it in the order of the turns, and
`draining` keeps frames and timers out until the queue is empty. A report nobody awaits is
folded in by its handler at once. `vague` collects the settings the session cannot know:
never reported, lost with an answer, half set, changed at the radio, or said last by an
answer that was `stale`, one older than something applied before it that said otherwise.

The modules do not compose into one state space: each takes from the others what
it needs as an assumption, and the one that owns the matter checks it. ReplyRouting
shows that an answer finds its own command; MeshRequests, DirectMessages and
SyncSlots model their own queues again, because their questions are about what
happens when it does not; ContactsSync takes it for granted.

## 3. What the runs check

Every run is exhaustive. Deadlock is not checked where the bounds let everything
come to an end (CHECK_DEADLOCK FALSE): an idle session with no budget left stops.

| run | instance | shows |
|---|---|---|
| ReplyRouting | 3 commands, 1.5 million states | Correlation is implemented, teardown is complete, and the timers alone settle every command but a DM |
| Drain | 3 messages, 1 rejected write, 2 connect edges | one round, busy is a round, the inbox empties |
| SyncSlots | 2 operations, 2 re-syncs, 1 rejected write | every operation settles, turns are taken, 'done' is true |
| DirectMessages | 2 messages, 3 attempts, 1 of each kind | slots, hashes and states stay in step, Delivery is implemented, every call returns |
| DirectMessagesAckLost (violation) | 1 message | a delivered message ends 'failed' |
| MeshRequests | 2 requests of any kinds, 1 node | nobody is lost, the one-slot bookkeeping follows the radio, sessions end with their link, every request settles |
| ContactsSync | 2 contacts, 3 events, 900 thousand states | the list converges to the store, pruning is right, the views agree |
| ContactEdits | 1 contact, 2 paths, either preference or none given with them, 3 events, 560 thousand states | the copies agree again, local choices survive, a borrowed path is returned |
| ChannelSlots | 2 channels, 2 slots of which the radio has 1, 3 events, 1.6 million states | a confirmed slot is held, a message keeps its channel |
| RelayAttribution | 3 channels, 2 sends, 2 packets, 4 ticks, 3.2 million states | relays credited soundly, nothing fresh is lost |
| RemoteCommands | 3 calls, 2 repeaters, 2 kinds of statistics, 1 drop, 1 million states | slots stay in step, answers and failures find their own call, nobody is forgotten |
| DeviceSettings | 2 calls, 1 upset, 3.1 million states | the mirror agrees when quiet, the manual-add pref is kept, the GPS button is seen |

**Bounds, and why they are enough.** The hazards of the queues need a command, one
that takes or loses its answer, and a third whose match is then shifted: three
commands; every pair of kinds meets. A pump round can overlap at most with one
follow-up and one left behind by a reset, which two connect edges and three
messages reach. Slots are single-use, so two operations and the re-sync walks that
fire the same frames are all that can meet in one. The DM races are between two
attempts of one message and a message beside it. The radio has one request slot:
two requests meet in it; with
three, the invariant of the proof was checked to depth 14 (20 million states), and the proof
is for any number. Three remote commands are one that
is superseded, one that supersedes it and one on another queue or repeater. Edits of a
contact interfere in pairs; the third event is the report, drop or timeout that comes
between. The three properties also held with four events and one given preference (22 million
states), and are proved for any number. A slot changes hands between two channels, and the radio has fewer
slots than the session asks for. Two sends and two packets on colliding channels are the
least for a wrong credit, and the ages span all three limits, of 1, 2 and 3 ticks; the
cap of 2 is reached. Settings interfere in pairs of calls, beside the handshake and the
poll: a stale report needs one command and one report, an overtaken one two. The safety
properties also held with two upsets, GpsIsSeen with one call and three, where drops, lost
answers and turns of the button follow each other. ContactsSync's
events are shared between news, calls, drops, stops and expired timers; three of
them reach every action, and the frames, timers and awaiters they cause are
unbounded. Its safety properties also hold with five events on one
contact (6.3 million states), and no violation was met among the first 29 million states
with four events on two. Every bound is a constant guarded in an action, listed in the module's
header or in its ASSUME. Symmetry is used only where no liveness is checked: over
channel names, paths, listed channels, repeaters and kinds of statistics, which the
modules only compare.

**Fairness.** Weak, and only for what the platform or a timer guarantees: an armed
`setTimeout` fires unless cleared, a microtask runs, an operation whose promise is
settled goes on, a pending write settles. ReplyRouting's TimersSettle, SyncSlots'
SyncSettles, DirectMessages' CallReturns and MeshRequests' RequestsSettle ask
nothing of the radio: it may stay silent for ever. Drain's InboxDrains and
ContactsSync's Converges are about the radio's data, so there the radio answers
what it took and frames on an open link are handled, with escape for drops and
lost answers; DeviceSettings' GpsIsSeen assumes that the poll's timer fires, that the radio takes
what was written, and that a call whose answer was read is resumed. The application and the mesh are never fair.

## 4. What is proved

Eight modules hold proofs, checked to the last leaf. Each starts from an inductive
invariant IInv, which TLC checked on the run's instance first, with Init => IInv, one lemma
per action or family of actions, and the theorem `Spec => []IInv` (`Invariance` in the
first four, `Inductive` in the others). Assumed are the types of the bounds
(BoundsAssumption, RequestsAssumption and the like) and, in ContactEdits, that the listed
routes are none of the values with a name of their own (RoutesAssumption), that a given
preference is a boolean (GivenAssumption) and that Absent is no record (AbsentAssumption); in DirectMessages, that "none" is no message
(NoneAssumption). The theorems hold for any number of commands, messages,
operations, attempts, requests, calls, nodes, contacts and paths.

* **ReplyRouting_proofs.** WaitersAreOwed, PendingIsQueued and CutOffIsNotRefused as
  invariants, NothingOutlivesTheLink, OwnReplySettles, ExactCorrelation and SettledOnce
  as action properties, and `Refinement == Spec => Correlated`. None of the safety
  properties is inductive alone. IInv adds that a queue holds only commands of its
  kinds (QueueKinds), that the two waiters of a typed request live and die together
  (TwinsTogether), and the converse of WaitersAreOwed while nobody gave up
  (OwedAreWaiting). The argument: the oldest owed answer arrives; if its command
  still waits it is the head of its queues and older than every other head, since
  every waiter is owed; each routing rule then picks it. The refinement has one step
  per action: Reply maps to Answer, by that argument and because no routing rule takes
  two commands; Disconnect and Stop map to Close and Stop; Connect, Start and the drive
  of the handshake stutter or issue.
* **Drain_proofs.** OneRound, BusyIsARound, and FollowUpIsDue (a follow-up asked for is
  not forgotten while no write fails). IInv adds that a
  closed link holds no frame and that a write of an old link is marked stale: while
  no step is stale, `busy` is the one permit for a step, and each step hands it on
  or gives it back.
* **SyncSlots_proofs.** AwaitedIsArmed, GettersTakeTurns, DoneMeansSynced.
  IInv adds the shape of the chain, that running timers belong to waiters in slots
  and that there is one handshake while none was overtaken.
* **DirectMessages_proofs.** SlotsMatchAnswers, SendingIsLive, AckIsDelivery (no run checks
  this last one by itself, Delivery implies it), and
  `DeliveryIsImplemented == Spec => ImplementsDelivery`.
  IInv adds that hashes belong to the message of the attempt that got them and that
  a 'sending' message whose call has returned has a slot. The refinement needs two more
  invariants, which TLC checked as well: where a call may be (Courses: it has no result
  before it has returned, without retries it has made no attempt while it is about to make
  one, and a call that waits for its write made the last attempt), and that a hash is of an
  attempt answered and is kept for one message (HashesAreOne). Then an answer is an Answer,
  because the head of the FIFO is one slot, and the slot of the attempt answered until they
  part; a rejected write is a Withdraw, because if the slot it takes is not its own an
  attempt at the same message is still owed; resets are Close and Stop; the timers of the
  loop, the path reset and the retention of hashes are steps Delivery does not see.
* **MeshRequests_proofs.** WaitersAreFound, SlotFollowsRadio, SessionsEndWithLink,
  ReplyFindsItsOwn. Stamps are taken in the order of the writes, the radio takes requests
  in that order and answers each RESP_SENT at once, so every frame before a RESP_SENT is of
  an older request (Stamped, TakenInOrder, FramesInOrder). While nothing slipped the oldest
  slot is therefore that of the RESP_SENT received (SlotsMatchAnswers), the tag a request
  stores is its own (TagsAreOwn), and whoever waits past its RESP_SENT, a trace aside, is the
  one that holds `meshRequestSlot` (OneIsPast, PastAreAlive, DisplacedIsPast). Sessions need
  beside that that a login knows the link it began on (LoginsOfLink, LoginsAreOwn).
* **ContactsSync_proofs.** ViewsAgree, PrunedWereGone, QuietMeansEqual. The argument of the
  second: what the radio has sent of a walk stands among the frames, in order between its
  start and its end, until the session takes it, and then its key is in `syncSeen`; a window
  that is still `whole` has received its walk from the start, on one link (WholeOK,
  StreamOK). So a key in the end frame, one the radio held throughout, is in `syncSeen` when
  END prunes.
  QuietMeansEqual rests on two more invariants, which TLC checked as well. Of every key, the
  last word among the frames is what the radio holds, or its walk has yet to send it (Owing).
  And while nothing was missed, or all that was is behind a walk received whole so far, every
  contact in the store is known to the session with nothing on its way to make it forget, or a
  re-sync, the walk or a frame brings it; and every key that is not in the store is gone from
  the list, or a frame takes it out (Tracked). The difficulty is the lookups: a record that
  one takes for its answer may be the walk's or another's, and one that no refresh asked for
  ingests nothing. So Tracked holds of some matching of the lookups that wait with answers on
  their way, in order (Embeds), which only counts what is left over: a frame that is no
  lookup's answer reaches the list, and when a lookup takes an answer matched with another,
  the one it was matched with is set free.
* **ContactEdits_proofs.** LocalChoicesSurvive, BorrowedPathIsReturned, AgreeWhenQuiet. Until
  a report shows it, the borrowed path is in no row and in no call's copy, and wherever it may
  still reach the radio's record a reset comes behind it or a request under way will send one;
  the preference is the one last set, or a call that overlapped holds an older row (PreferOK).
  AgreeWhenQuiet rests on a second invariant, Agreeing, which TLC checked as well. While no
  edits of different fields overlapped, the frames on their way to the host tell a story
  (Story): what the radio held as it sent each. It ends with what the radio holds and begins
  with what the host shows, or with what the edits answered but not resumed lead to (Leads);
  only an answer changes it, by what its edit asked, or an eviction while nothing is under
  way. Each edit is in it twice, as the command on its way (Sent) and as the call that
  waits, and all are of one field with the other fields of one record (OneField), so that
  the last of them decides for the radio and the host alike. When nothing is under way the
  story has one member, and the copies agree.
* **RemoteCommands_proofs.** SlotsMatchAnswers, NobodyIsForgotten, AnswersAreOwn,
  FailuresAreOwn. While no slot has gone early, the slots are those of the commands the
  radio has yet to take, so its next answer finds its own command's slot (InStep); each place
  holds the latest call of its kind (PlacesOK); an answer once given is nowhere left to be
  given again (AnswersSpent); a supersession names the call that caused it (ClaimsOK).

Each of the eight also proves its TypeOK, alone or as the first part of its IInv.

Three models were changed for the proofs. MeshRequests: the claim that a displaced
request is silent is now made for requests of the present link only. With three requests, a
wrong displacement made while slots had slipped survives the drop that clears `slipped`; two
requests cannot show it. ContactsSync: the refusal of a re-sync whose awaiter the teardown
had rejected is a frame of its own. ContactEdits: a drop leaves a shim under way as an edit
that goes on without effect, where it was filtered out of its queue (a filter is a recursive
definition, of which the prover knows little).

Only model-checked:

* all liveness (TimersSettle, InboxDrains, SyncSettles, CallReturns, RequestsSettle,
  Converges, GpsIsSeen), which the prover does not reach;
* everything about ChannelSlots, RelayAttribution and DeviceSettings, where no proof has been
  written. AgreeWhenQuiet of DeviceSettings needs of every setting what ContactEdits_proofs
  says of one record, through answers applied out of order. RelayAttribution filters and sorts its buffers, and what a filter or a
  sort keeps is an induction over data, out of the prover's reach.

## 5. Where code and comments disagree

One is a run that ends in a counterexample, DirectMessagesAckLost: a confirmation that
comes between two attempts is missed, and the delivered message ends 'failed'
(directMessages.ts:368, against :378). The others were met while modelling. The history
variables mark them, and the properties promise nothing from there on:

* *A late answer* (`gaveUp` in Correlation). The timer of an ack slot (session.ts:847)
  removes a slot whose answer is still owed, and that answer settles the next command;
  feature.ts:41-43 says that a stamped slot cannot settle another command's waiter.
* *Two rounds* (`"stale"` in Drain). `resetDrain` (drain.ts:72) clears `busy` under a round that
  goes on; after stop/start two rounds pull at once, against drain.ts:10-12.
* *A round nothing ends* (`"skipped"`). The message handlers' early returns
  (channelMessages.ts:176, directMessages.ts:448) skip the pump and leave `busy` set for as
  long as the link lasts, against drain.ts:60-62.
* *An operation that waits for ever* (SyncSlots). A waiter's timer (session.ts:984) empties the
  slot whoever is in it; the next operation and the lock can wait for ever, against
  session.ts:99-107.
* *'done' too early.* A handshake cut off by a drop reports 'done' on the new link
  (session.ts:1077, against :1073-1075).
* *A contact that left* (`adrift` in ContactsSync). END flags on-radio a contact that left the
  store after it was streamed; after a stop in mid-walk it prunes what was streamed before.
* *A stale observation.* `evict` shifts from the head only, and `consumeMatching` puts older
  observations behind younger ones: one past its time to live may still be taken
  (meshObservations.ts:49-56 and 69-90, against tests/meshObservations.test.ts:108).
* *Presence.* `devicePresence` keeps a channel whose slot was given to another
  (channels.ts:91-93).
* *A rejection nobody handles.* `repeaterGetLocalStats` arms its promise and then awaits the
  write; a rejection in between, or for good after a failed write, has no handler
  (repeaterAdmin.ts:961-970, which :886-892 takes care to avoid for CLI commands).
* *Manual-add drift.* A setOtherParams whose frame is written and lost with the link leaves a
  byte the radio never had (session.ts:1678-1683); `vague` holds it until the next report.
* *A stale report.* A report that is awaited is applied two turns after its frame, behind the
  ack of a setter that came later in the same chunk: getSelfInfo (session.ts:1461) then undoes
  what setAdvertName recorded (session.ts:1607), as a poll (session.ts:944) does with
  setGpsConfig (session.ts:1736), until the next report. The mark `stale`, and then `vague`,
  holds what was undone.
* *A byte read too early.* A setOtherParams made while another one's write is pending resends
  the byte from before it (session.ts:1660); `calm` leaves such calls out.
* *A slow walk.* When the idle watchdog (contacts.ts:351) has closed the window of a walk that
  is only slow, a record that a lookup takes no longer counts as seen (contacts.ts:808), and
  END prunes the contact. The walk is not `whole` from there on.
* *Edits of different fields.* Each rewrites the whole record from the row it read
  (session.ts:1320), so that the second to reach the radio undoes the first while the host
  shows both, until the next report read in peace makes them `clean` again. A preference
  changed while a path edit is under way is written over with the old one (session.ts:1225):
  `prefer` then admits either until it is set again.
* *A slot that changed hands.* A text queued in the radio under a slot that is given to another
  channel before it is drained is filed under that one, and dropped if the slot is not yet
  read (channelMessages.ts:175-179). `crossed` asks only about texts of confirmed slots that
  did not move.
* *Overlapping setRadioParams.* The first of two calls records the modulation it set although
  the radio has the second's by then (session.ts:1579-1593).

## 6. What is not modelled

* Payloads and layouts, the codecs, logging, and of a contact its name, position and times.
* The transports: the frame parser is a function on bytes, the rest drives Node and Web
  APIs; the modules see 'connected' and a write that resolves or rejects.
* Signing, whose three steps nothing keeps apart, so that there is no property to check;
  sharing, exporting and importing a contact; raw data packets; battery, flood scope,
  tuning and time, each one request with its reply (ReplyRouting).
* In DeviceSettings the radio takes a command and the session reads the frame that answers in
  one step (what the frame says is applied in another), and a write still pending at a drop
  fails. The poll there waits for the handshake and getSelfInfo only, not for the walks of the
  contacts and the channels, which hold it off in the code as well: it is freer than the code.
* In ContactEdits a drop loses both directions in one step.
* A typed waiter's `match` predicate: frames of one code are told apart by order.
* The lengths of timers: any armed timer may fire at any moment. In SyncSlots this
  admits a done timer that fires before the start timer.
* RESP_CONTACT of a walk settling a lookup changes ReplyRouting's match; it is in
  ContactsSync only.
* Hash collisions (equal confirmation hashes of two messages, the hash of zeros) and
  trace-tag collisions.
* A write that rejects although the radio took the frame, but in Drain.
* The effect of a reset path on the mesh: DirectMessages knows a path as known or not.
* The ack timer of a re-sync in ContactsSync, and path-updated pushes, which schedule
  the same refresh for a known contact.

## 7. Plan

Written, in this order: ReplyRouting, Drain, SyncSlots and DirectMessages, each with its
proofs; MeshRequests; ContactsSync; Correlation with the refinement and its proof;
ContactEdits; RelayAttribution; ChannelSlots; RemoteCommands; DeviceSettings; the proofs of
RemoteCommands, ContactsSync, ContactEdits and MeshRequests; Delivery with the refinement
and its proof. What is left:

1. An abstract pump, refined by Drain.
2. ChannelSlots' ConfirmedIsHeld, which rests on the order of the two wires.
3. TcpTransport, if a run is given up for it.

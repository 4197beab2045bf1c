------------------------------ MODULE SyncSlots ------------------------------
(***************************************************************************)
(* The device-sync operations of MeshCoreSession: the handshake every      *)
(* connect edge starts, and the getters that re-read contacts, channels or *)
(* self-info.  They are chained on syncLock, and the ones that walk the    *)
(* radio's contacts wait on two single-use slots, contactsStartWaiter and  *)
(* contactsDoneWaiter, which RESP_CONTACTS_START and RESP_END_OF_CONTACTS  *)
(* resolve, and which a timer resolves otherwise.                          *)
(*                                                                         *)
(* An operation is named by its place in the chain.  A getter starts once  *)
(* every earlier link of the chain has settled; a handshake takes its      *)
(* place too, but starts at once.                                          *)
(***************************************************************************)
EXTENDS Naturals, Sequences

CONSTANTS
  MaxOps,      \* bound on the operations of a behaviour
  MaxResyncs,  \* bound on the contact re-syncs the contacts feature starts
  MaxFails     \* bound on the writes the transport rejects on an open link

ASSUME BoundsAssumption == MaxOps \in Nat /\ MaxResyncs \in Nat /\ MaxFails \in Nat

Ops == 1..MaxOps

NoOp == 0

Slots == {"contactsStart", "contactsDone"}

\* handshake; getContacts; fetch: getSelfInfo, getChannels, getChannel.
Kinds == {"handshake", "getContacts", "fetch"}

\* Where an operation is: waiting for the lock; in the writes before
\* GET_CONTACTS; waiting for a slot; in the channel loop; in the requests of a
\* fetch, or in the writes after the walk; over, either way.
Places == {"queued", "opening", "awaitStart", "channels", "awaitDone",
           "fetching", "closing", "settled"}

VARIABLES
  kind,        \* kind[o]: what operation o is, "none" before it is called
  place,       \* place[o]: how far it has come
  issued,      \* the length of the chain
  slot,        \* slot[s]: the operation whose waiter is in the slot, or NoOp
  timers,      \* <<o, s>>: the timer o armed with its waiter for s is running
  unresolved,  \* <<o, s>>: o is to await its promise for s, which is not resolved
  phase,       \* syncProgress.phase
  linkUp,      \* the transport reports 'connected'
  connected,   \* MeshCoreSession.connected
  walking,     \* the radio is enumerating its contacts
  frames,      \* the frames of its walks on the link, oldest first
  budget,      \* what is left of the two bounds
  mishaps      \* what has gone wrong (history)

ops == <<kind, place, issued>>
waiters == <<slot, timers, unresolved>>
radio == <<walking, frames>>
link == <<linkUp, connected>>
vars == <<ops, waiters, phase, link, radio, budget, mishaps>>

Frames == {"contactsStart", "endOfContacts"}

Mishaps == {"clobbered",   \* a waiter was armed while another's timer ran
            "overtaken"}   \* a handshake began before the last one was over

Unsettled(o) == place[o] \notin {"none", "settled"}

\* A handshake that has not reported phase 'done' yet.
Syncing(o) == kind[o] = "handshake" /\ Unsettled(o) /\ place[o] # "closing"

TypeOK ==
  /\ kind \in [Ops -> Kinds \cup {"none"}]
  /\ place \in [Ops -> Places \cup {"none"}]
  /\ issued \in 0..MaxOps
  /\ slot \in [Slots -> Ops \cup {NoOp}]
  /\ timers \subseteq Ops \X Slots
  /\ unresolved \subseteq Ops \X Slots
  /\ phase \in {"idle", "syncing", "done"}
  /\ linkUp \in BOOLEAN /\ connected \in BOOLEAN /\ walking \in BOOLEAN
  /\ frames \in Seq(Frames)
  /\ budget \in [resyncs : 0..MaxResyncs, fails : 0..MaxFails]
  /\ mishaps \subseteq Mishaps

Init ==
  /\ kind = [o \in Ops |-> "none"]
  /\ place = [o \in Ops |-> "none"]
  /\ issued = 0
  /\ slot = [s \in Slots |-> NoOp]
  /\ timers = {} /\ unresolved = {}
  /\ phase = "idle"
  /\ linkUp = FALSE /\ connected = FALSE /\ walking = FALSE
  /\ frames = <<>>
  /\ budget = [resyncs |-> MaxResyncs, fails |-> MaxFails]
  /\ mishaps = {}

\* The radio takes a GET_CONTACTS: it starts a walk.  During a walk it answers
\* RESP_ERR, which the writers only log.
RadioTakesGetContacts ==
  /\ walking' = TRUE
  /\ frames' = IF walking THEN frames ELSE Append(frames, "contactsStart")

-----------------------------------------------------------------------------
(* The waiter slots.                                                       *)

\* armWaiter, for both slots: whatever waiter is there is overwritten, its timer
\* goes on.
ArmWaiters(o) ==
  /\ slot' = [s \in Slots |-> o]
  /\ timers' = timers \cup ({o} \X Slots)
  /\ mishaps' = mishaps \cup {m \in {"clobbered"} : timers # {}}

\* resolveWaiter, for the slots of S.
ResolveWaiters(S) ==
  /\ slot' = [s \in Slots |-> IF s \in S THEN NoOp ELSE slot[s]]
  /\ timers' = {t \in timers : ~(t[2] \in S /\ slot[t[2]] = t[1])}
  /\ unresolved' = {t \in unresolved : ~(t[2] \in S /\ slot[t[2]] = t[1])}

\* Mutant: the timer empties the slot but does not resolve.
TimerFiresSilently(o, s) ==
  /\ <<o, s>> \in timers
  /\ timers' = timers \ {<<o, s>>}
  /\ slot' = [slot EXCEPT ![s] = NoOp]
  /\ UNCHANGED <<unresolved, ops, phase, link, radio, budget, mishaps>>

\* The timer of a waiter fires.  It resolves its own promise, but only if the
\* slot holds a waiter, and empties the slot whoever's waiter that is.
TimerFires(o, s) ==
  /\ <<o, s>> \in timers
  /\ timers' = timers \ {<<o, s>>}
  /\ slot' = [slot EXCEPT ![s] = NoOp]
  /\ unresolved' = unresolved \ {t \in {<<o, s>>} : slot[s] # NoOp}
  /\ UNCHANGED <<ops, phase, link, radio, budget, mishaps>>

-----------------------------------------------------------------------------
(* The operations.                                                         *)

Advance(o, to) == place' = [place EXCEPT ![o] = to]

\* An operation takes the next place in the chain.
Enter(k, where) ==
  /\ issued < MaxOps
  /\ issued' = issued + 1
  /\ kind' = [kind EXCEPT ![issued + 1] = k]
  /\ place' = [place EXCEPT ![issued + 1] = where]

\* A getter is called: withSyncLock puts it on the chain.
Call(k) ==
  /\ k # "handshake"
  /\ Enter(k, "queued")
  /\ UNCHANGED <<waiters, phase, link, radio, budget, mishaps>>

\* A write of o rejects: on a closed link, or on an open one for once.
WriteRejects ==
  \/ ~linkUp /\ UNCHANGED budget
  \/ linkUp /\ budget.fails > 0 /\ budget' = [budget EXCEPT !.fails = @ - 1]

\* catch: the error settles the operation; a handshake resets the progress.
Fail(o) ==
  /\ Advance(o, "settled")
  /\ phase' = IF kind[o] = "handshake" THEN "idle" ELSE phase

\* The waiters are armed before GET_CONTACTS is written.  If the write rejects
\* nobody awaits them, but they stay armed.
ArmAndWrite(o) ==
  /\ ArmWaiters(o)
  /\ \/ /\ linkUp
        /\ RadioTakesGetContacts
        /\ unresolved' = unresolved \cup ({o} \X Slots)
        /\ Advance(o, "awaitStart")
        /\ UNCHANGED <<phase, budget>>
     \/ /\ WriteRejects
        /\ Fail(o)
        /\ UNCHANGED <<unresolved, radio>>
  /\ UNCHANGED <<kind, issued, link>>

\* Mutant: a getter does not wait for its turn.
LockFreeAtOnce(o) == TRUE

\* Every earlier operation of the chain has settled.
LockFree(o) == \A p \in Ops : p < o => ~Unsettled(p)

\* A getter gets its turn.
Begin(o) ==
  /\ place[o] = "queued"
  /\ LockFree(o)
  /\ \/ kind[o] = "getContacts" /\ ArmAndWrite(o)
     \/ /\ kind[o] = "fetch"
        /\ Advance(o, "fetching")
        /\ UNCHANGED <<kind, issued, waiters, phase, link, radio, budget, mishaps>>

\* The requests of a fetch are over: each has a timer.
FetchEnds(o) ==
  /\ place[o] = "fetching"
  /\ Advance(o, "settled")
  /\ UNCHANGED <<kind, issued, waiters, phase, link, radio, budget, mishaps>>

\* DEVICE_QUERY or APP_START rejects.
OpeningFails(o) ==
  /\ place[o] = "opening"
  /\ WriteRejects
  /\ Fail(o)
  /\ UNCHANGED <<kind, issued, waiters, link, radio, mishaps>>

\* The opening writes are done.
Walk(o) == place[o] = "opening" /\ ArmAndWrite(o)

\* The start waiter is resolved.  The handshake goes on to its channel loop,
\* whose requests it does not await.
Started(o) ==
  /\ place[o] = "awaitStart" /\ <<o, "contactsStart">> \notin unresolved
  /\ Advance(o, IF kind[o] = "handshake" THEN "channels" ELSE "awaitDone")
  /\ UNCHANGED <<kind, issued, waiters, phase, link, radio, budget, mishaps>>

ChannelsEnd(o) ==
  /\ place[o] = "channels"
  /\ Advance(o, "awaitDone")
  /\ UNCHANGED <<kind, issued, waiters, phase, link, radio, budget, mishaps>>

\* Mutant: the handshake reports 'done' before its contact walk is over.
WalkedTooEarly(o) ==
  /\ place[o] \in {"channels", "awaitDone"}
  /\ \/ /\ kind[o] = "handshake"
        /\ Advance(o, IF place[o] = "channels" THEN "awaitDone" ELSE "closing")
        /\ phase' = "done"
     \/ /\ kind[o] = "getContacts"
        /\ <<o, "contactsDone">> \notin unresolved
        /\ Advance(o, "settled")
        /\ UNCHANGED phase
  /\ UNCHANGED <<kind, issued, waiters, link, radio, budget, mishaps>>

\* The done waiter is resolved: getContacts returns, the handshake reports 'done'.
Walked(o) ==
  /\ place[o] = "awaitDone" /\ <<o, "contactsDone">> \notin unresolved
  /\ \/ kind[o] = "handshake" /\ Advance(o, "closing") /\ phase' = "done"
     \/ kind[o] = "getContacts" /\ Advance(o, "settled") /\ UNCHANGED phase
  /\ UNCHANGED <<kind, issued, waiters, link, radio, budget, mishaps>>

\* GET_BATT_AND_STORAGE, the last write, and scheduleDrain.
Close(o) ==
  /\ place[o] = "closing"
  /\ \/ Advance(o, "settled") /\ UNCHANGED <<phase, budget>>
     \/ WriteRejects /\ Fail(o)
  /\ UNCHANGED <<kind, issued, waiters, link, radio, mishaps>>

-----------------------------------------------------------------------------
(* The link.                                                               *)

\* The connect edge: a handshake enters the chain and starts in the same turn.
HandleConnect ==
  /\ connected' = TRUE
  /\ Enter("handshake", "opening")
  /\ phase' = "syncing"
  /\ mishaps' = mishaps \cup
       {m \in {"overtaken"} : \E o \in Ops : kind[o] = "handshake" /\ Unsettled(o)}
  /\ UNCHANGED <<waiters, radio, budget>>

\* The transport connects.
Connect == ~linkUp /\ linkUp' = TRUE /\ HandleConnect

\* start() after stop() on an open link.
Start == linkUp /\ ~connected /\ HandleConnect /\ UNCHANGED linkUp

\* Mutant: the teardown drops the waiters without resolving them.
TearDownDropsWaiters ==
  /\ connected' = FALSE
  /\ slot' = [s \in Slots |-> NoOp]
  /\ timers' = timers \ {<<slot[s], s>> : s \in Slots}
  /\ phase' = "idle"
  /\ UNCHANGED unresolved

\* tearDownConnection: the waiters that are in the slots are resolved.  The
\* operations are not told otherwise.
TearDown ==
  /\ connected' = FALSE
  /\ ResolveWaiters(Slots)
  /\ phase' = "idle"

\* The link drops with everything on it; the radio may go on walking.
Disconnect ==
  /\ linkUp
  /\ linkUp' = FALSE
  /\ \/ connected /\ TearDown
     \/ ~connected /\ UNCHANGED <<connected, waiters, phase>>
  /\ frames' = <<>>
  /\ walking' = FALSE \/ UNCHANGED walking
  /\ UNCHANGED <<ops, budget, mishaps>>

\* stop() on a link that is open: the radio goes on.
Stop ==
  /\ connected
  /\ TearDown
  /\ UNCHANGED <<ops, linkUp, radio, budget, mishaps>>

\* scheduleContactsResync's timer: GET_CONTACTS without lock or waiters.
Resync ==
  /\ linkUp /\ budget.resyncs > 0
  /\ budget' = [budget EXCEPT !.resyncs = @ - 1]
  /\ RadioTakesGetContacts
  /\ UNCHANGED <<ops, waiters, phase, link, mishaps>>

RadioEnds ==
  /\ walking
  /\ walking' = FALSE
  /\ frames' = IF linkUp THEN Append(frames, "endOfContacts") ELSE frames
  /\ UNCHANGED <<ops, waiters, phase, link, budget, mishaps>>

\* contactsSync.
Receive ==
  /\ frames # <<>>
  /\ frames' = Tail(frames)
  /\ ResolveWaiters(IF Head(frames) = "contactsStart" THEN {"contactsStart"}
                                                      ELSE {"contactsDone"})
  /\ UNCHANGED <<ops, phase, link, walking, budget, mishaps>>

OpStep(o) ==
  \/ Begin(o) \/ FetchEnds(o) \/ OpeningFails(o) \/ Walk(o)
  \/ Started(o) \/ ChannelsEnd(o) \/ Walked(o) \/ Close(o)

Next ==
  \/ \E k \in Kinds : Call(k)
  \/ \E o \in Ops : OpStep(o)
  \/ \E o \in Ops, s \in Slots : TimerFires(o, s)
  \/ Connect \/ Start \/ Disconnect \/ Stop
  \/ Resync \/ RadioEnds \/ Receive

Spec == Init /\ [][Next]_vars

\* Timers fire, and an operation whose promises are resolved goes on.  Nothing
\* is asked of the radio.
FairSpec ==
  /\ Spec
  /\ \A o \in Ops : WF_vars(OpStep(o))
  /\ \A o \in Ops, s \in Slots : WF_vars(TimerFires(o, s))

-----------------------------------------------------------------------------
(* Properties.                                                             *)

\* Unless a waiter was armed over another's timer, an operation that waits for a
\* promise is in the slot and its own timer runs: a frame, the timer or a
\* teardown will resolve it.
AwaitedIsArmed ==
  "clobbered" \notin mishaps =>
    \A o \in Ops, s \in Slots :
      Unsettled(o) /\ <<o, s>> \in unresolved => slot[s] = o /\ <<o, s>> \in timers

\* The same for settling: every operation, queued ones too, comes to its end
\* with a silent radio, through link drops and refused walks.
SyncSettles ==
  \A o \in Ops : Unsettled(o) ~> (~Unsettled(o) \/ "clobbered" \in mishaps)

\* Two getters never run at once, and none runs beside the handshake it was
\* called after.
GettersTakeTurns ==
  \A o, p \in Ops : o < p /\ Unsettled(o) /\ kind[p] # "handshake"
                      => place[p] \in {"none", "queued"}

\* Unless a handshake was overtaken by the next, phase 'done' is not shown while
\* a handshake still has channels or contacts to read.
DoneMeansSynced ==
  "overtaken" \notin mishaps => (phase = "done" => \A o \in Ops : ~Syncing(o))

=============================================================================

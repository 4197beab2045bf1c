--------------------------- MODULE SyncSlots_proofs ---------------------------
(***************************************************************************)
(* Proofs about SyncSlots, for any number of operations, re-syncs and      *)
(* rejected writes.                                                        *)
(*                                                                         *)
(* While no waiter was armed over another's timer, timers, slots and       *)
(* promises tell the same story: the running timers are those of the       *)
(* waiters in the slots, and a promise that is awaited is among them.      *)
(* While no handshake was overtaken there is at most one of them.          *)
(***************************************************************************)
EXTENDS SyncSlots, TLAPS

\* The places of the chain are taken in order.
Chain == \A o \in Ops : (place[o] = "none") <=> (o > issued)

\* The running timers belong to the waiters in the slots, and theirs run.
TimersAreWaiters ==
  "clobbered" \notin mishaps =>
    /\ \A o \in Ops, s \in Slots : <<o, s>> \in timers => slot[s] = o
    /\ \A s \in Slots : slot[s] # NoOp => <<slot[s], s>> \in timers

\* What is awaited is in its slot, with its timer.
AwaitedIsWaiter ==
  "clobbered" \notin mishaps =>
    \A o \in Ops, s \in Slots :
      <<o, s>> \in unresolved => slot[s] = o /\ <<o, s>> \in timers

\* Handshakes do not overlap.
OneHandshake ==
  "overtaken" \notin mishaps =>
    \A o, p \in Ops :
      /\ kind[o] = "handshake" /\ Unsettled(o)
      /\ kind[p] = "handshake" /\ Unsettled(p)
      => o = p

\* The inductive invariant.
IInv ==
  /\ TypeOK
  /\ Chain
  /\ TimersAreWaiters
  /\ AwaitedIsWaiter
  /\ GettersTakeTurns
  /\ OneHandshake
  /\ DoneMeansSynced

\* What the waiter slots and their timers add up to.
Waiting == TimersAreWaiters /\ AwaitedIsWaiter

\* What the places in the chain add up to.
Order == Chain /\ GettersTakeTurns /\ OneHandshake /\ DoneMeansSynced

-----------------------------------------------------------------------------
(* Types.                                                                  *)

\* The slots, timers and promises keep their types, whatever touches them.
LEMMA WaitersTyped ==
  ASSUME TypeOK
  PROVE  /\ \A o \in Ops : ArmWaiters(o) =>
              slot' \in [Slots -> Ops \cup {NoOp}] /\ timers' \subseteq Ops \X Slots
         /\ \A S : ResolveWaiters(S) =>
              /\ slot' \in [Slots -> Ops \cup {NoOp}]
              /\ timers' \subseteq Ops \X Slots /\ unresolved' \subseteq Ops \X Slots
  BY DEF TypeOK, ArmWaiters, ResolveWaiters

\* Taking the next place keeps the types of the chain.
LEMMA EnterTyped ==
  ASSUME TypeOK, NEW k \in Kinds, NEW where \in Places, Enter(k, where)
  PROVE  /\ kind' \in [Ops -> Kinds \cup {"none"}]
         /\ place' \in [Ops -> Places \cup {"none"}]
         /\ issued' \in 0..MaxOps
  BY BoundsAssumption DEF TypeOK, Enter, Ops

\* The radio's frames stay frames.
LEMMA RadioTyped ==
  ASSUME TypeOK, RadioTakesGetContacts
  PROVE  walking' \in BOOLEAN /\ frames' \in Seq(Frames)
  BY DEF TypeOK, RadioTakesGetContacts, Frames

\* A rejected write is accounted for.
LEMMA BudgetTyped ==
  ASSUME TypeOK, WriteRejects
  PROVE  budget' \in [resyncs : 0..MaxResyncs, fails : 0..MaxFails]
  BY BoundsAssumption DEF TypeOK, WriteRejects

\* The type invariant survives the write of GET_CONTACTS.
LEMMA ArmAndWriteType ==
  ASSUME TypeOK, NEW o \in Ops, ArmAndWrite(o)
  PROVE  TypeOK'
<1> USE DEF TypeOK, ArmAndWrite, ops, waiters, radio, link
<1>1. slot' \in [Slots -> Ops \cup {NoOp}] /\ timers' \subseteq Ops \X Slots
  BY WaitersTyped
<1>2. unresolved' \subseteq Ops \X Slots
  OBVIOUS
<1>3. place' \in [Ops -> Places \cup {"none"}]
  BY DEF Advance, Fail, Places
<1>4. phase' \in {"idle", "syncing", "done"}
  BY DEF Fail
<1>5. walking' \in BOOLEAN /\ frames' \in Seq(Frames)
  BY RadioTyped
<1>6. budget' \in [resyncs : 0..MaxResyncs, fails : 0..MaxFails]
  BY BudgetTyped
<1>7. mishaps' \subseteq Mishaps
  BY DEF ArmWaiters, Mishaps
<1> QED
  BY <1>1, <1>2, <1>3, <1>4, <1>5, <1>6, <1>7

\* The type invariant survives a step of an operation.
LEMMA OpStepType ==
  ASSUME TypeOK, NEW o \in Ops, OpStep(o)
  PROVE  TypeOK'
<1> USE DEF TypeOK, ops, waiters, radio, link
<1>1. CASE Begin(o)
  <2>1. CASE ArmAndWrite(o)
    BY <2>1, ArmAndWriteType
  <2>2. CASE Advance(o, "fetching") /\ UNCHANGED <<kind, issued, waiters, phase, link, radio, budget, mishaps>>
    BY <2>2 DEF Advance, Places
  <2> QED
    BY <1>1, <2>1, <2>2 DEF Begin
<1>2. CASE FetchEnds(o) \/ Started(o) \/ ChannelsEnd(o) \/ Walked(o)
  BY <1>2 DEF FetchEnds, Started, ChannelsEnd, Walked, Advance, Places
<1>3. CASE OpeningFails(o) \/ Close(o)
  <2>1. budget' \in [resyncs : 0..MaxResyncs, fails : 0..MaxFails]
    BY <1>3, BudgetTyped DEF OpeningFails, Close
  <2>2. place' \in [Ops -> Places \cup {"none"}] /\ phase' \in {"idle", "syncing", "done"}
    BY <1>3 DEF OpeningFails, Close, Fail, Advance, Places
  <2> QED
    BY <1>3, <2>1, <2>2 DEF OpeningFails, Close
<1>4. CASE Walk(o)
  BY <1>4, ArmAndWriteType DEF Walk
<1> QED
  BY <1>1, <1>2, <1>3, <1>4 DEF OpStep

\* The type invariant survives a step of the link.
LEMMA LinkType ==
  ASSUME TypeOK, Connect \/ Start \/ Disconnect \/ Stop \/ Resync \/ RadioEnds \/ Receive
  PROVE  TypeOK'
<1> USE DEF TypeOK, ops, waiters, radio, link
<1>1. CASE Connect \/ Start
  <2>1. kind' \in [Ops -> Kinds \cup {"none"}] /\ place' \in [Ops -> Places \cup {"none"}]
        /\ issued' \in 0..MaxOps
    BY <1>1, EnterTyped DEF Connect, Start, HandleConnect, Kinds, Places
  <2>2. mishaps' \subseteq Mishaps
    BY <1>1 DEF Connect, Start, HandleConnect, Mishaps
  <2> QED
    BY <1>1, <2>1, <2>2 DEF Connect, Start, HandleConnect
<1>2. CASE Disconnect
  <2>1. slot' \in [Slots -> Ops \cup {NoOp}] /\ timers' \subseteq Ops \X Slots
        /\ unresolved' \subseteq Ops \X Slots
    BY <1>2, WaitersTyped DEF Disconnect, TearDown
  <2>2. phase' \in {"idle", "syncing", "done"}
    BY <1>2 DEF Disconnect, TearDown
  <2>3. connected' \in BOOLEAN
    <3>1. CASE connected /\ TearDown
      BY <3>1 DEF TearDown
    <3>2. CASE UNCHANGED connected
      BY <3>2
    <3> QED
      BY <1>2, <3>1, <3>2 DEF Disconnect
  <2>4. walking' \in BOOLEAN
    <3>1. CASE walking' = FALSE
      BY <3>1
    <3>2. CASE UNCHANGED walking
      BY <3>2
    <3> QED
      BY <1>2, <3>1, <3>2 DEF Disconnect
  <2>5. frames' \in Seq(Frames)
    <3>1. frames' = <<>>
      BY <1>2 DEF Disconnect
    <3> QED
      BY <3>1
  <2>6. linkUp' \in BOOLEAN
    BY <1>2 DEF Disconnect
  <2> QED
    BY <1>2, <2>1, <2>2, <2>3, <2>4, <2>5, <2>6 DEF Disconnect
<1>3. CASE Stop
  <2>1. slot' \in [Slots -> Ops \cup {NoOp}] /\ timers' \subseteq Ops \X Slots
        /\ unresolved' \subseteq Ops \X Slots
    BY <1>3, WaitersTyped DEF Stop, TearDown
  <2> QED
    BY <1>3, <2>1 DEF Stop, TearDown
<1>4. CASE Resync
  BY <1>4, RadioTyped, BoundsAssumption DEF Resync
<1>5. CASE RadioEnds
  <2>1. frames' \in Seq(Frames)
    <3>1. CASE frames' = Append(frames, "endOfContacts")
      BY <3>1 DEF Frames
    <3>2. CASE UNCHANGED frames
      BY <3>2
    <3> QED
      BY <1>5, <3>1, <3>2 DEF RadioEnds
  <2> QED
    BY <1>5, <2>1 DEF RadioEnds
<1>6. CASE Receive
  <2>1. slot' \in [Slots -> Ops \cup {NoOp}] /\ timers' \subseteq Ops \X Slots
        /\ unresolved' \subseteq Ops \X Slots
    BY <1>6, WaitersTyped DEF Receive
  <2>2. frames' \in Seq(Frames)
    BY <1>6 DEF Receive
  <2> QED
    BY <1>6, <2>1, <2>2 DEF Receive
<1> QED
  BY <1>1, <1>2, <1>3, <1>4, <1>5, <1>6

\* The type invariant is inductive.
LEMMA NextType ==
  ASSUME TypeOK, [Next]_vars
  PROVE  TypeOK'
<1>1. ASSUME NEW k \in Kinds, Call(k)
      PROVE  TypeOK'
  BY <1>1, EnterTyped DEF Call, TypeOK, waiters, radio, link, Places
<1>2. ASSUME NEW o \in Ops, NEW s \in Slots, TimerFires(o, s)
      PROVE  TypeOK'
  BY <1>2 DEF TimerFires, TypeOK, ops, radio, link
<1>3. CASE UNCHANGED vars
  BY <1>3 DEF vars, TypeOK, ops, waiters, radio, link
<1> QED
  BY <1>1, <1>2, <1>3, OpStepType, LinkType DEF Next

-----------------------------------------------------------------------------
(* Slots, timers and promises.                                             *)

\* Resolving the waiters of some slots, and only theirs, keeps the three in step.
LEMMA ResolveKeeps ==
  ASSUME TypeOK, Waiting, NEW S, ResolveWaiters(S), UNCHANGED mishaps
  PROVE  Waiting'
<1> USE DEF TypeOK, Waiting, TimersAreWaiters, AwaitedIsWaiter, ResolveWaiters
<1>1. TimersAreWaiters'
  <2>1. ASSUME "clobbered" \notin mishaps', NEW o \in Ops, NEW s \in Slots, <<o, s>> \in timers'
        PROVE  slot'[s] = o
    BY <2>1
  <2>2. ASSUME "clobbered" \notin mishaps', NEW s \in Slots, slot'[s] # NoOp
        PROVE  <<slot'[s], s>> \in timers'
    BY <2>2
  <2> QED
    BY <2>1, <2>2
<1>2. AwaitedIsWaiter'
  BY DEF NoOp
<1> QED
  BY <1>1, <1>2

\* Arming both slots while no timer runs puts one operation's waiters in them.
LEMMA ArmKeeps ==
  ASSUME TypeOK, Waiting, NEW o \in Ops, ArmWaiters(o),
         unresolved' = unresolved \/ unresolved' = unresolved \cup ({o} \X Slots)
  PROVE  Waiting'
<1> SUFFICES ASSUME "clobbered" \notin mishaps'
             PROVE  Waiting'
  BY DEF Waiting, TimersAreWaiters, AwaitedIsWaiter
<1>1. timers = {} /\ "clobbered" \notin mishaps
  BY DEF ArmWaiters
<1>2. unresolved = {}
  BY <1>1 DEF TypeOK, Waiting, AwaitedIsWaiter
<1>3. timers' = {o} \X Slots /\ unresolved' \subseteq {o} \X Slots /\ \A s \in Slots : slot'[s] = o
  BY <1>1, <1>2 DEF ArmWaiters
<1> QED
  BY <1>3 DEF Waiting, TimersAreWaiters, AwaitedIsWaiter

\* A step that leaves slots, timers, promises and mishaps alone keeps them in step.
LEMMA SameWaiters ==
  ASSUME Waiting, UNCHANGED <<waiters, mishaps>>
  PROVE  Waiting'
  BY DEF Waiting, TimersAreWaiters, AwaitedIsWaiter, waiters

\* Slots, timers and promises stay in step.
LEMMA NextWaiting ==
  ASSUME TypeOK, Waiting, [Next]_vars
  PROVE  Waiting'
<1>1. ASSUME NEW o \in Ops, NEW s \in Slots, TimerFires(o, s)
      PROVE  Waiting'
  <2> SUFFICES ASSUME "clobbered" \notin mishaps
               PROVE  Waiting'
    BY <1>1 DEF TimerFires, Waiting, TimersAreWaiters, AwaitedIsWaiter
  <2>1. slot[s] = o /\ o # NoOp
    BY <1>1, BoundsAssumption DEF TimerFires, Waiting, TimersAreWaiters, Ops, NoOp
  <2>2. timers' = timers \ {<<o, s>>} /\ unresolved' = unresolved \ {<<o, s>>}
    BY <1>1, <2>1 DEF TimerFires
  <2>3. slot' = [slot EXCEPT ![s] = NoOp] /\ mishaps' = mishaps
    BY <1>1 DEF TimerFires
  <2>4. \A p \in Ops, r \in Slots : <<p, r>> \in timers \ {<<o, s>>} => r # s /\ slot[r] = p
    BY <2>1 DEF Waiting, TimersAreWaiters
  <2>5. \A p \in Ops, r \in Slots : <<p, r>> \in unresolved => <<p, r>> \in timers
    BY DEF Waiting, AwaitedIsWaiter
  <2>6. TimersAreWaiters'
    BY <2>2, <2>3, <2>4 DEF Waiting, TimersAreWaiters, TypeOK
  <2>7. AwaitedIsWaiter'
    BY <2>2, <2>3, <2>4, <2>5 DEF AwaitedIsWaiter, TypeOK
  <2> QED
    BY <2>6, <2>7 DEF Waiting
<1>2. ASSUME NEW o \in Ops, OpStep(o)
      PROVE  Waiting'
  <2>1. CASE ArmAndWrite(o)
    BY <2>1, ArmKeeps DEF ArmAndWrite
  <2>2. CASE UNCHANGED <<waiters, mishaps>>
    BY <2>2, SameWaiters
  <2> QED
    BY <1>2, <2>1, <2>2 DEF OpStep, Begin, FetchEnds, OpeningFails, Walk, Started,
       ChannelsEnd, Walked, Close
<1>3. CASE Connect \/ Start
  BY <1>3 DEF Connect, Start, HandleConnect, Waiting, TimersAreWaiters, AwaitedIsWaiter, waiters
<1>4. CASE Disconnect \/ Stop \/ Receive
  <2>1. CASE UNCHANGED <<waiters, mishaps>>
    BY <2>1, SameWaiters
  <2>2. UNCHANGED mishaps
    BY <1>4 DEF Disconnect, Stop, Receive
  <2>3. UNCHANGED waiters \/ \E S \in SUBSET Slots : ResolveWaiters(S)
    <3>1. {"contactsStart"} \in SUBSET Slots /\ {"contactsDone"} \in SUBSET Slots
      BY DEF Slots
    <3> QED
      BY <1>4, <3>1 DEF Disconnect, Stop, Receive, TearDown, waiters
  <2> QED
    BY <2>1, <2>2, <2>3, ResolveKeeps
<1>5. CASE Resync \/ RadioEnds \/ UNCHANGED vars \/ \E k \in Kinds : Call(k)
  BY <1>5, SameWaiters DEF Resync, RadioEnds, vars, Call
<1> QED
  BY <1>1, <1>2, <1>3, <1>4, <1>5 DEF Next

-----------------------------------------------------------------------------
(* The chain.                                                              *)

\* An operation that moves on, once the lock is free for it or from a place past
\* the queue, keeps the order of the chain.
LEMMA AdvanceKeeps ==
  ASSUME TypeOK, Order, NEW o \in Ops, NEW to \in Places \ {"queued"},
         Advance(o, to), Unsettled(o),
         kind[o] # "handshake" /\ place[o] = "queued" => LockFree(o),
         UNCHANGED <<kind, issued>>,
         phase' = "done" => \/ phase = "done"
                            \/ kind[o] = "handshake" /\ to = "closing",
         mishaps \subseteq mishaps',
         kind[o] = "handshake" /\ place[o] = "closing" => to = "settled"
  PROVE  Order'
<1> USE DEF Order, Unsettled
<1>1. place'[o] = to /\ \A p \in Ops : p # o => place'[p] = place[p]
  BY DEF Advance, TypeOK
<1>2. to # "none" /\ to # "queued"
  BY DEF Places
<1>3. \A p \in Ops : Unsettled(p)' => Unsettled(p)
  BY <1>1
<1>4. Chain'
  BY <1>1, <1>2 DEF Chain
<1>5. GettersTakeTurns'
  <2> SUFFICES ASSUME NEW q \in Ops, NEW p \in Ops, q < p, Unsettled(q)', kind'[p] # "handshake"
               PROVE  place'[p] \in {"none", "queued"}
    BY DEF GettersTakeTurns
  <2>1. place[p] \in {"none", "queued"} /\ Unsettled(q) /\ kind[p] # "handshake"
    BY <1>3 DEF GettersTakeTurns
  <2>2. p # o
    BY <2>1 DEF LockFree
  <2> QED
    BY <1>1, <2>1, <2>2
<1>6. OneHandshake'
  BY <1>3 DEF OneHandshake
<1>7. DoneMeansSynced'
  <2> SUFFICES ASSUME "overtaken" \notin mishaps', phase' = "done", NEW p \in Ops
               PROVE  ~Syncing(p)'
    BY DEF DoneMeansSynced
  <2>1. CASE phase = "done"
    BY <1>1, <1>3, <2>1 DEF DoneMeansSynced, Syncing
  <2>2. CASE kind[o] = "handshake" /\ to = "closing"
    BY <1>1, <1>3, <2>2 DEF OneHandshake, Syncing
  <2> QED
    BY <2>1, <2>2
<1> QED
  BY <1>4, <1>5, <1>6, <1>7

\* A new operation at the end of the chain, queued or a handshake, keeps the order.
LEMMA EnterKeeps ==
  ASSUME TypeOK, Order, NEW k \in Kinds, NEW where \in Places, Enter(k, where),
         \/ k # "handshake" /\ where = "queued" /\ UNCHANGED <<phase, mishaps>>
         \/ /\ k = "handshake" /\ where = "opening" /\ phase' = "syncing"
            /\ mishaps' = mishaps \cup
                 {m \in {"overtaken"} : \E o \in Ops : kind[o] = "handshake" /\ Unsettled(o)}
  PROVE  Order'
<1> USE DEF Order, Unsettled
<1> DEFINE new == issued + 1
<1>1. new \in Ops /\ place[new] = "none"
  BY BoundsAssumption DEF Enter, TypeOK, Chain, Ops
<1>2. /\ kind'[new] = k /\ place'[new] = where /\ issued' = new
      /\ \A p \in Ops : p # new => kind'[p] = kind[p] /\ place'[p] = place[p]
  BY <1>1 DEF Enter, TypeOK
<1>3. where # "none" /\ where \in {"queued", "opening"}
  OBVIOUS
<1>4. Chain'
  <2> SUFFICES ASSUME NEW p \in Ops
               PROVE  (place'[p] = "none") <=> (p > issued')
    BY DEF Chain
  <2>1. CASE p = new
    BY <1>1, <1>2, <1>3, <2>1, BoundsAssumption DEF Ops, TypeOK
  <2>2. CASE p # new
    BY <1>2, <2>2, BoundsAssumption DEF Chain, Ops, TypeOK
  <2> QED
    BY <2>1, <2>2
<1>5. GettersTakeTurns'
  <2> SUFFICES ASSUME NEW q \in Ops, NEW p \in Ops, q < p, Unsettled(q)', kind'[p] # "handshake"
               PROVE  place'[p] \in {"none", "queued"}
    BY DEF GettersTakeTurns
  <2>1. CASE p = new
    BY <1>2, <2>1
  <2>2. CASE q = new
    BY <1>2, <2>2, BoundsAssumption DEF Chain, Ops, TypeOK
  <2>3. CASE p # new /\ q # new
    BY <1>2, <2>3 DEF GettersTakeTurns
  <2> QED
    BY <2>1, <2>2, <2>3
<1>6. OneHandshake'
  <2> SUFFICES ASSUME "overtaken" \notin mishaps', NEW q \in Ops, NEW p \in Ops,
                      kind'[q] = "handshake", Unsettled(q)', kind'[p] = "handshake", Unsettled(p)'
               PROVE  q = p
    BY DEF OneHandshake
  <2>1. CASE q = new /\ p # new
    BY <1>2, <2>1
  <2>2. CASE q # new /\ p = new
    BY <1>2, <2>2
  <2>3. CASE q # new /\ p # new
    BY <1>2, <2>3 DEF OneHandshake
  <2> QED
    BY <2>1, <2>2, <2>3
<1>7. DoneMeansSynced'
  BY <1>1, <1>2 DEF DoneMeansSynced, Syncing
<1> QED
  BY <1>4, <1>5, <1>6, <1>7

\* A step of no operation keeps the order, if it does not report 'done'.
LEMMA SameOrder ==
  ASSUME Order, UNCHANGED <<ops, mishaps>>, phase' = "done" => phase = "done"
  PROVE  Order'
<1> USE DEF Order, ops, Unsettled
<1>1. Chain' /\ GettersTakeTurns'
  BY DEF Chain, GettersTakeTurns
<1>2. OneHandshake'
  BY DEF OneHandshake
<1>3. DoneMeansSynced'
  BY DEF DoneMeansSynced, Syncing
<1> QED
  BY <1>1, <1>2, <1>3

\* An operation that writes GET_CONTACTS moves on or fails.
LEMMA ArmAndWriteOrder ==
  ASSUME TypeOK, Order, NEW o \in Ops, ArmAndWrite(o), place[o] \in {"queued", "opening"},
         place[o] = "queued" => LockFree(o)
  PROVE  Order'
<1>1. Unsettled(o) /\ UNCHANGED <<kind, issued>> /\ mishaps \subseteq mishaps'
  BY DEF ArmAndWrite, ArmWaiters, Unsettled
<1>2. CASE Advance(o, "awaitStart") /\ UNCHANGED phase
  BY <1>1, <1>2, AdvanceKeeps DEF Places
<1>3. CASE Fail(o)
  BY <1>1, <1>3, AdvanceKeeps DEF Fail, Places
<1> QED
  BY <1>2, <1>3 DEF ArmAndWrite

\* The order of the chain survives every step.
LEMMA NextOrder ==
  ASSUME TypeOK, Order, [Next]_vars
  PROVE  Order'
<1>1. ASSUME NEW o \in Ops, OpStep(o)
      PROVE  Order'
  <2>1. CASE Begin(o)
    <3>1. CASE ArmAndWrite(o)
      BY <2>1, <3>1, ArmAndWriteOrder DEF Begin
    <3>2. CASE Advance(o, "fetching") /\ UNCHANGED <<kind, issued, waiters, phase, link, radio, budget, mishaps>>
      BY <2>1, <3>2, AdvanceKeeps DEF Begin, Unsettled, Places
    <3> QED
      BY <2>1, <3>1, <3>2 DEF Begin
  <2>2. CASE FetchEnds(o)
    BY <2>2, AdvanceKeeps DEF FetchEnds, Unsettled, Places
  <2>3. CASE OpeningFails(o)
    BY <2>3, AdvanceKeeps DEF OpeningFails, Fail, Unsettled, Places
  <2>4. CASE Walk(o)
    BY <2>4, ArmAndWriteOrder DEF Walk
  <2>5. CASE Started(o)
    BY <2>5, AdvanceKeeps DEF Started, Unsettled, Places
  <2>6. CASE ChannelsEnd(o)
    BY <2>6, AdvanceKeeps DEF ChannelsEnd, Unsettled, Places
  <2>7. CASE Walked(o)
    BY <2>7, AdvanceKeeps DEF Walked, Unsettled, Places
  <2>8. CASE Close(o)
    BY <2>8, AdvanceKeeps DEF Close, Fail, Unsettled, Places
  <2> QED
    BY <1>1, <2>1, <2>2, <2>3, <2>4, <2>5, <2>6, <2>7, <2>8 DEF OpStep
<1>2. ASSUME NEW k \in Kinds, Call(k)
      PROVE  Order'
  BY <1>2, EnterKeeps DEF Call, Places
<1>3. CASE Connect \/ Start
  BY <1>3, EnterKeeps DEF Connect, Start, HandleConnect, Kinds, Places
<1>4. CASE Disconnect \/ Stop \/ Resync \/ RadioEnds \/ Receive \/ UNCHANGED vars
  BY <1>4, SameOrder DEF Disconnect, Stop, TearDown, Resync, RadioEnds, Receive, vars
<1>5. ASSUME NEW o \in Ops, NEW s \in Slots, TimerFires(o, s)
      PROVE  Order'
  BY <1>5, SameOrder DEF TimerFires
<1> QED
  BY <1>1, <1>2, <1>3, <1>4, <1>5 DEF Next

-----------------------------------------------------------------------------
(* The theorems.                                                           *)

\* The inductive invariant holds of every behaviour.
THEOREM Invariance == Spec => []IInv
<1>1. Init => IInv
  <2> SUFFICES ASSUME Init
               PROVE  IInv
    OBVIOUS
  <2>1. TypeOK
    <3>1. frames \in Seq(Frames)
      BY DEF Init
    <3>2. kind \in [Ops -> Kinds \cup {"none"}] /\ place \in [Ops -> Places \cup {"none"}]
      BY DEF Init
    <3>3. issued \in 0..MaxOps /\ slot \in [Slots -> Ops \cup {NoOp}]
          /\ budget \in [resyncs : 0..MaxResyncs, fails : 0..MaxFails]
      BY BoundsAssumption DEF Init
    <3> QED
      BY <3>1, <3>2, <3>3 DEF Init, TypeOK
  <2>2. Chain
    BY BoundsAssumption DEF Init, Chain, Ops
  <2>3. Waiting
    BY DEF Init, Waiting, TimersAreWaiters, AwaitedIsWaiter
  <2>4. GettersTakeTurns /\ OneHandshake /\ DoneMeansSynced
    BY DEF Init, GettersTakeTurns, OneHandshake, DoneMeansSynced, Unsettled, Syncing
  <2> QED
    BY <2>1, <2>2, <2>3, <2>4 DEF IInv, Waiting
<1>2. IInv /\ [Next]_vars => IInv'
  BY NextType, NextWaiting, NextOrder DEF IInv, Waiting, Order
<1> QED
  BY <1>1, <1>2, PTL DEF Spec

\* Operations, slots, promises and frames keep their types.
THEOREM TypeCorrect == Spec => []TypeOK
<1>1. IInv => TypeOK
  BY DEF IInv
<1> QED
  BY <1>1, Invariance, PTL

\* Unless a waiter was armed over another's timer, nothing waits for a promise
\* that no frame, timer or teardown will resolve (armWaiter).
THEOREM NobodyWaitsInVain == Spec => []AwaitedIsArmed
<1>1. IInv => AwaitedIsArmed
  BY DEF IInv, AwaitedIsWaiter, AwaitedIsArmed
<1> QED
  BY <1>1, Invariance, PTL

\* The lock keeps getters apart from what was called before them (withSyncLock).
THEOREM LockHolds == Spec => []GettersTakeTurns
<1>1. IInv => GettersTakeTurns
  BY DEF IInv
<1> QED
  BY <1>1, Invariance, PTL

\* Unless a handshake was overtaken, phase 'done' means that it has read all.
THEOREM DoneIsDone == Spec => []DoneMeansSynced
<1>1. IInv => DoneMeansSynced
  BY DEF IInv
<1> QED
  BY <1>1, Invariance, PTL

=============================================================================

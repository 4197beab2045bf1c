---------------------------- MODULE ChannelSlots ----------------------------
(***************************************************************************)
(* The channel slots of the radio and what the session knows of them:      *)
(* the dispatch map channelByIdx, the set of keys present on the device    *)
(* and the stored channel list (channels.ts), with the messages that are   *)
(* tagged with a slot instead of a channel (channelMessages.ts).           *)
(*                                                                         *)
(* Slots are read by the handshake, which does not wait for the answers,   *)
(* and by getChannels, which does; they are written by setChannel, after   *)
(* whose acknowledgement the application marks the slot.  A text is        *)
(* queued by the radio under the slot it came in on and may be drained     *)
(* after the slot has changed hands.                                       *)
(*                                                                         *)
(* A reply settles its request, and the function that asked goes on in a   *)
(* microtask: later frames of the same chunk are handled before that, any  *)
(* timer, call or link edge after it.  A channel is its name; a channel's  *)
(* secret and text are left out.  The pump of the inbox is Drain.          *)
(***************************************************************************)
EXTENDS Integers, Sequences, FiniteSets, SequencesExt, FiniteSetsExt

CONSTANTS
  Names,       \* channel names
  Free,        \* an all-zero slot
  Slots,       \* CHANNEL_SLOT_COUNT, the slots the session asks for
  RadioSlots,  \* MAX_GROUP_CHANNELS of the firmware
  MaxEvents    \* calls, texts, timeouts and link edges, together

ASSUME SlotsAssumption == Slots \in Nat \ {0} /\ RadioSlots \in 1 .. Slots
ASSUME EventsAssumption == MaxEvents \in Nat

Slot == 0 .. Slots - 1
OnRadio == 0 .. RadioSlots - 1
Unlisted == -1

VARIABLES
  radio,       \* the radio's slots
  queued,      \* texts in the radio's inbox: slot, channel, moved on since
  byIdx,       \* channelByIdx
  presence,    \* devicePresence
  list,        \* the stored list: the slot of each channel
  link,        \* the transport is connected
  sweep,       \* the slot an enumeration asks for next, Slots when it is over
  paced,       \* it waits for each answer (getChannels)
  waiters,     \* requests whose reply is awaited, in write order
  done,        \* requests settled in this turn, their functions not resumed
  up,          \* commands on their way to the radio
  down,        \* frames on their way to the host
  events,      \* events spent
  confirmed,   \* (history) slots the radio told, or acknowledged, on this link
  crossed      \* (history) a text of a confirmed slot changed its channel

device == <<radio, queued>>
known == <<byIdx, presence, list>>
enumeration == <<sweep, paced>>
requests == <<waiters, done>>
wire == <<up, down>>
history == <<confirmed, crossed>>
vars == <<device, known, link, enumeration, requests, wire, events, history>>

Held == Names \cup {Free}
Requests == [op : {"get", "set", "text"}, slot : Slot, name : Held]

TypeOK ==
  /\ radio \in [OnRadio -> Held]
  /\ \A i \in DOMAIN queued : queued[i] \in [slot : OnRadio, name : Names, moved : BOOLEAN]
  /\ byIdx \in [Slot -> Held]
  /\ presence \subseteq Names
  /\ list \in [Names -> Slot \cup {Unlisted}]
  /\ sweep \in 0 .. Slots /\ {link, paced} \subseteq BOOLEAN
  /\ Range(waiters) \subseteq Requests
  /\ \A i \in DOMAIN up : up[i].op \in {"get", "set", "text"}
  /\ \A i \in DOMAIN down : down[i].code \in {"ok", "err", "info", "msg"}
  /\ events \in 0 .. MaxEvents
  /\ confirmed \subseteq Slot

\* start, on an open link: rebuildIndexes maps what was persisted; of two channels stored under
\* one slot, either may come last.
Init ==
  /\ radio \in [OnRadio -> Held] /\ queued = <<>>
  /\ list \in [Names -> Slot \cup {Unlisted}]
  /\ byIdx \in [Slot -> Held]
  /\ \A i \in Slot : LET stored == {n \in Names : list[n] = i}
                     IN IF stored = {} THEN byIdx[i] = Free ELSE byIdx[i] \in stored
  /\ presence = {}
  /\ link = TRUE /\ sweep = 0 /\ paced = FALSE
  /\ waiters = <<>> /\ done = <<>> /\ up = <<>> /\ down = <<>>
  /\ events = 0
  /\ confirmed = {} /\ crossed = FALSE

Spend == events < MaxEvents /\ events' = events + 1
\* A timer, a call or a link edge comes between two turns of the event loop.
Turn == done = <<>> /\ Spend

\* A write of slot i among these, or somewhere between its call and its mark.
Writes(rs, i) == \E r \in rs : r.op = "set" /\ r.slot = i
OnTheWire == Range(up) \cup Range(down)
Writing(i) == Writes(Range(waiters) \cup Range(done) \cup OnTheWire, i)
\* An answer is due to a request that is no longer awaited.
Astray == Len(up) + Len(SelectSeq(down, LAMBDA f : f.code # "msg")) > Len(waiters)

---------------------------------------------------------------------------
(* What the session records.                                               *)

\* Mutant: an empty slot stays in the dispatch map.
ApplyKeepsEmpty(i, n) ==
  IF n = Free THEN UNCHANGED known
  ELSE /\ byIdx' = [byIdx EXCEPT ![i] = n]
       /\ presence' = presence \cup {n}
       /\ list' = [list EXCEPT ![n] = i]

\* applyChannelInfo.
ApplyChannelInfo(i, n) ==
  IF n = Free
  THEN /\ byIdx' = [byIdx EXCEPT ![i] = Free]
       /\ presence' = presence \ {byIdx[i]}
       /\ UNCHANGED list
  ELSE /\ byIdx' = [byIdx EXCEPT ![i] = n]
       /\ presence' = presence \cup {n}
       /\ list' = [list EXCEPT ![n] = i]

\* Mutant: a renamed channel is marked present only.
MarkLeavesMap(i, n) ==
  /\ IF n = Free
     THEN byIdx' = [byIdx EXCEPT ![i] = Free] /\ presence' = presence \ {byIdx[i]}
     ELSE presence' = presence \cup {n} /\ UNCHANGED byIdx
  /\ UNCHANGED list

\* markChannelPresent, or markChannelAbsent after a zero write; neither
\* touches the list.
Mark(i, n) ==
  /\ byIdx' = [byIdx EXCEPT ![i] = n]
  /\ presence' = IF n = Free THEN presence \ {byIdx[i]} ELSE presence \cup {n}
  /\ UNCHANGED list

---------------------------------------------------------------------------
(* Requests.                                                               *)

Ask(op, i, n) ==
  /\ waiters' = Append(waiters, [op |-> op, slot |-> i, name |-> n])
  /\ up' = Append(up, [op |-> op, slot |-> i, name |-> n,
                       known |-> i \in confirmed /\ byIdx[i] = n /\ ~Writing(i)])
  /\ UNCHANGED <<device, known, link, done, down>>

\* One step of handshakeInner's loop, or of getChannels'.
AskNext ==
  /\ done = <<>> /\ link /\ sweep < Slots
  /\ paced => \A i \in DOMAIN waiters : waiters[i].op # "get"
  /\ Ask("get", sweep, Free)
  /\ sweep' = sweep + 1
  /\ UNCHANGED <<paced, events, history>>

\* getChannels, once the sync lock is free.
GetChannels ==
  /\ Turn /\ link /\ sweep = Slots
  /\ sweep' = 0 /\ paced' = TRUE
  /\ UNCHANGED <<device, known, link, requests, wire, history>>

\* pickFreeSlot.
FreeSlots == {i \in Slot : byIdx[i] = Free}
PickFreeSlot == IF FreeSlots = {} THEN {} ELSE {Min(FreeSlots)}

\* setChannel: an addition goes where pickFreeSlot says, an edit or a deletion
\* to a slot in use.
SetChannel ==
  \E n \in Held, i \in Slot :
    /\ IF n = Free THEN i \notin FreeSlots ELSE i \in PickFreeSlot \cup (Slot \ FreeSlots)
    /\ Turn /\ link
    /\ Ask("set", i, n)
    /\ confirmed' = confirmed \ {i}
    /\ UNCHANGED <<enumeration, crossed>>

\* sendChannelText: the slot in the list, without asking the map.
SendChannelText ==
  \E n \in Names :
    /\ list[n] # Unlisted
    /\ Turn /\ link
    /\ Ask("text", list[n], n)
    /\ UNCHANGED <<enumeration, history>>

---------------------------------------------------------------------------
(* Frames.                                                                 *)

\* The waiter a frame settles: a typed reply its first request, RESP_OK the
\* first that has no typed reply, RESP_ERR the first of all.
Settled(code) ==
  LET answers == {i \in DOMAIN waiters :
                    CASE code = "info" -> waiters[i].op = "get"
                      [] code = "ok" -> waiters[i].op # "get"
                      [] OTHER -> TRUE}
  IN IF answers = {} THEN {} ELSE {Min(answers)}

\* (history) What was read before the write this frame answers tells nothing.
Overtaken(f) ==
  [i \in DOMAIN done |-> [done[i] EXCEPT !.sound = @ /\ ~Writes({f}, done[i].slot)]]

Settle(k, f) ==
  /\ waiters' = RemoveAt(waiters, k)
  /\ done' = IF waiters[k].op = "get" /\ f.code = "info"
             THEN Append(done, [op |-> "get", slot |-> f.slot, name |-> f.name, sound |-> TRUE])
             ELSE IF waiters[k].op = "set" /\ f.code = "ok"
             THEN Append(Overtaken(f), waiters[k] @@ [sound |-> ~Astray])
             ELSE Overtaken(f)

\* A reply to a request.  Without a waiter RESP_CHANNEL_INFO goes to the
\* feature at once, the others nowhere.
GotReply ==
  LET f == Head(down) IN
  /\ f.code # "msg"
  /\ \/ \E k \in Settled(f.code) : Settle(k, f) /\ UNCHANGED <<known, confirmed>>
     \/ /\ Settled(f.code) = {}
        /\ UNCHANGED waiters
        /\ done' = Overtaken(f)
        /\ IF f.code = "info"
           THEN /\ ApplyChannelInfo(f.slot, f.name)
                /\ confirmed' = confirmed \cup ({f.slot} \ {i \in Slot : Writing(i)})
           ELSE UNCHANGED <<known, confirmed>>
  /\ UNCHANGED crossed

\* RESP_CHANNEL_MSG_RECV is filed under what the map has for its slot, or
\* dropped.
GotText ==
  LET f == Head(down) IN
  /\ f.code = "msg"
  /\ crossed' = (crossed \/ (/\ f.slot \in confirmed /\ ~f.moved /\ ~Writing(f.slot)
                             /\ byIdx[f.slot] # f.name))
  /\ UNCHANGED <<known, requests, confirmed>>

Receive ==
  /\ down # <<>>
  /\ GotReply \/ GotText
  /\ down' = Tail(down)
  /\ UNCHANGED <<device, link, enumeration, up, events>>

\* The function that asked goes on: getChannel applies what it got, the
\* application marks what setChannel wrote.
Resume ==
  /\ done # <<>>
  /\ done' = Tail(done)
  /\ LET r == Head(done) IN
     /\ \/ r.op = "get" /\ ApplyChannelInfo(r.slot, r.name)
        \/ r.op = "set" /\ Mark(r.slot, r.name)
     /\ confirmed' = IF r.sound /\ ~Writes(Range(waiters) \cup Range(done') \cup OnTheWire, r.slot)
                     THEN confirmed \cup {r.slot} ELSE confirmed \ {r.slot}
  /\ UNCHANGED <<device, link, enumeration, waiters, wire, events, crossed>>

\* The timer of a request.
TimesOut ==
  \E k \in DOMAIN waiters :
    /\ Turn
    /\ waiters' = RemoveAt(waiters, k)
    /\ confirmed' = confirmed \ {waiters[k].slot}
    /\ UNCHANGED <<device, known, link, enumeration, done, wire, crossed>>

---------------------------------------------------------------------------
(* The link.                                                               *)

\* The connect edge clears the presence and starts the handshake.
Connects ==
  /\ ~link /\ Turn
  /\ link' = TRUE
  /\ presence' = {}
  /\ sweep' = 0 /\ paced' = FALSE
  /\ UNCHANGED <<device, byIdx, list, requests, wire, history>>

\* tearDownConnection keeps the dispatch map.
Drops ==
  /\ link /\ Turn
  /\ link' = FALSE
  /\ presence' = {}
  /\ sweep' = Slots
  /\ waiters' = <<>> /\ up' = <<>> /\ down' = <<>>
  /\ confirmed' = {}
  /\ UNCHANGED <<device, byIdx, list, paced, done, crossed>>

---------------------------------------------------------------------------
(* The radio.                                                              *)

Reply(c, code, n) ==
  down' = Append(down, [code |-> code, op |-> c.op, slot |-> c.slot, name |-> n,
                        moved |-> FALSE])

RadioTakes ==
  /\ up # <<>>
  /\ LET c == Head(up) IN
     \/ /\ c.slot \notin OnRadio
        /\ Reply(c, "err", Free)
        /\ UNCHANGED <<device, crossed>>
     \/ /\ c.slot \in OnRadio /\ c.op = "get"
        /\ Reply(c, "info", radio[c.slot])
        /\ UNCHANGED <<device, crossed>>
     \/ /\ c.slot \in OnRadio /\ c.op = "set"
        /\ Reply(c, "ok", c.name)
        /\ radio' = [radio EXCEPT ![c.slot] = c.name]
        /\ queued' = [i \in DOMAIN queued |->
                        [queued[i] EXCEPT !.moved = @ \/ queued[i].slot = c.slot]]
        /\ UNCHANGED crossed
     \/ /\ c.slot \in OnRadio /\ c.op = "text"
        /\ Reply(c, "ok", c.name)
        /\ crossed' = (crossed \/ (c.known /\ radio[c.slot] # c.name))
        /\ UNCHANGED device
  /\ up' = Tail(up)
  /\ UNCHANGED <<known, link, enumeration, requests, events, confirmed>>

\* A text comes in on a channel, is queued under its slot, and handed over by
\* a drain.  While the link is down the radio may be set up otherwise.
RadioHears ==
  \E i \in OnRadio :
    /\ radio[i] # Free /\ Spend
    /\ queued' = Append(queued, [slot |-> i, name |-> radio[i], moved |-> FALSE])
    /\ UNCHANGED <<radio, known, link, enumeration, requests, wire, history>>
RadioHands ==
  /\ link /\ queued # <<>>
  /\ down' = Append(down, Head(queued) @@ [code |-> "msg", op |-> "push"])
  /\ queued' = Tail(queued)
  /\ UNCHANGED <<radio, known, link, enumeration, requests, up, events, history>>
RadioIsSetUp ==
  \E i \in OnRadio : \E n \in Held \ {radio[i]} :
    /\ ~link /\ Spend
    /\ radio' = [radio EXCEPT ![i] = n]
    /\ queued' = <<>>
    /\ UNCHANGED <<known, link, enumeration, requests, wire, history>>

Next ==
  \/ AskNext \/ GetChannels \/ SetChannel \/ SendChannelText
  \/ Receive \/ Resume \/ TimesOut \/ Connects \/ Drops
  \/ RadioTakes \/ RadioHears \/ RadioHands \/ RadioIsSetUp

Spec == Init /\ [][Next]_vars

\* Channels are only compared with each other.
NameSymmetry == Permutations(Names)

---------------------------------------------------------------------------
(* Properties.                                                             *)

\* A slot that the radio told, or whose write it acknowledged, on this link
\* is in the dispatch map what it is on the radio, however reads, writes,
\* their timeouts and late replies were interleaved: nothing but a write
\* under way may be between them.
ConfirmedIsHeld ==
  TypeOK /\ \A i \in confirmed \cap OnRadio : ~Writing(i) => byIdx[i] = radio[i]

\* Neither a text drained from a confirmed slot, unless the slot was written
\* after the radio queued it, nor one sent to a channel the map has at its
\* slot, ends in another channel.
TextsKeepTheirChannel == ~crossed

=============================================================================

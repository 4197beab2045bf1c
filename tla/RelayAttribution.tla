-------------------------- MODULE RelayAttribution --------------------------
(***************************************************************************)
(* What the session makes of the group-text packets its radio overhears    *)
(* (PUSH_LOG_RX_DATA): each is kept as an observation, out of which an      *)
(* incoming message takes its paths when the inbox is drained later        *)
(* (meshObservations.ts, channelMessages.ts), and each may be a repeater's *)
(* relay of a message of our own (pendingChannelSends.ts).                 *)
(*                                                                         *)
(* Both are buffers with ages, read long after they were filled.  A packet *)
(* is its channel, the timestamp under its encryption and the message it   *)
(* carries; its fingerprint is its place in `air`.  A channel's hash is a  *)
(* byte that others share; a secret verifies for its own channel only.     *)
(* The clock ticks in units of thirty seconds.                             *)
(***************************************************************************)
EXTENDS Integers, Sequences, FiniteSets, SequencesExt, FiniteSetsExt

CONSTANTS
  Channels,      \* every channel on the air
  Listed,        \* those the session knows, with their secrets, at the start
  Colliding,     \* those that share one hash byte
  UnclaimedTtl,  \* UNCLAIMED_TTL_MS
  ObsTtl,        \* TTL_MS of an observation
  ClaimedTtl,    \* CLAIMED_TTL_MS
  Cap,           \* CAP of the observation buffer
  MaxSends, MaxPackets, MaxTime,   \* bounds: own sends, packets, the clock
  MaxEvents                        \* and everything that happens but Register

ASSUME ChannelsAssumption == Listed \subseteq Channels /\ Colliding \subseteq Channels
ASSUME TtlAssumption ==
  /\ {UnclaimedTtl, ObsTtl, ClaimedTtl, Cap} \subseteq Nat \ {0}
  /\ UnclaimedTtl <= ObsTtl /\ ObsTtl <= ClaimedTtl
ASSUME BoundsAssumption ==
  {MaxSends, MaxPackets, MaxTime, MaxEvents} \subseteq Nat

None == 0        \* no timestamp, no fingerprint, no message of ours
Hops == 0 .. 1   \* a packet heard from its sender, or from a repeater

VARIABLES
  now,           \* the clock
  air,           \* the packets transmitted so far
  listed,        \* channels of the list, with their secrets
  unsaid,        \* sends written, not yet passed to registerChannelSend
  pending,       \* PendingChannelSends.pending
  buf,           \* MeshObservations.buf
  inbox,         \* messages the radio decrypted, not yet drained
  events,        \* events spent
  untaken,       \* (history) observations no message took
  overflown,     \* (history) the buffer was once at its cap
  credits        \* (history) relays credited to our messages

seen == <<untaken, overflown>>
vars == <<now, air, listed, unsaid, pending, buf, inbox, events, seen, credits>>

HashOf(c) == IF c \in Colliding THEN Colliding ELSE {c}
Hash(p) == HashOf(air[p].ch)

Observations == [n : 1 .. MaxEvents, at : 0 .. MaxTime, fp : 1 .. MaxPackets, hops : Hops]

TypeOK ==
  /\ now \in 0 .. MaxTime
  /\ \A p \in DOMAIN air : air[p].own \in 0 .. MaxSends
  /\ listed \subseteq Listed
  /\ \A e \in Range(pending) : e.msg \in 1 .. MaxSends /\ e.fp \in 0 .. MaxPackets
  /\ Range(buf) \subseteq Observations /\ untaken \subseteq Observations
  /\ Len(buf) <= Cap + 1
  /\ events \in 0 .. MaxEvents

Init ==
  /\ now = 0 /\ air = <<>> /\ listed = Listed
  /\ unsaid = {} /\ pending = <<>> /\ buf = <<>> /\ inbox = <<>>
  /\ events = 0
  /\ untaken = {} /\ overflown = FALSE /\ credits = {}

\* While nothing is buffered nobody can tell the time.
Tick ==
  /\ now < MaxTime
  /\ unsaid # {} \/ pending # <<>> \/ buf # <<>>
  /\ now' = now + 1
  /\ UNCHANGED <<air, listed, unsaid, pending, buf, inbox, events, seen, credits>>

---------------------------------------------------------------------------
(* Sending.                                                                *)

Spend == events < MaxEvents /\ events' = events + 1
Sent == {air[p].own : p \in DOMAIN air} \ {None}

\* sendChannelText: the timestamp is the UNIX second of the call, which two
\* sends of one tick may share.  The call returns it; registerChannelSend
\* comes after.
Send ==
  \E c \in listed, ts \in {Len(air) + 1} \cup {v.ts : v \in {u \in unsaid : u.at = now}} :
    /\ Cardinality(Sent) < MaxSends /\ Len(air) < MaxPackets
    /\ Spend
    /\ LET m == Cardinality(Sent) + 1 IN
       /\ air' = Append(air, [ch |-> c, ts |-> ts, own |-> m])
       /\ unsaid' = unsaid \cup {[msg |-> m, hash |-> HashOf(c), ts |-> ts, at |-> now]}
    /\ UNCHANGED <<now, listed, pending, buf, inbox, seen, credits>>

\* PendingChannelSends.evict scans the whole buffer.
Ttl(e) == IF e.fp = None THEN UnclaimedTtl ELSE ClaimedTtl
\* Mutant: only the head of the buffer is looked at.
EvictedHead(q, t) ==
  LET live == {i \in DOMAIN q : t - q[i].sentAt <= Ttl(q[i])}
  IN IF live = {} THEN <<>> ELSE SubSeq(q, Min(live), Len(q))
Evicted(q, t) == LET Live(e) == t - e.sentAt <= Ttl(e) IN SelectSeq(q, Live)

\* registerChannelSend: `sentAt` is the time of the call unless the
\* application passes that of the send; the timestamp is optional.
Register ==
  \E u \in unsaid, timed \in BOOLEAN : \E sentAt \in {now, u.at} :
    /\ unsaid' = unsaid \ {u}
    /\ pending' = Append(Evicted(pending, sentAt),
                         [msg |-> u.msg, hash |-> u.hash, sentAt |-> sentAt,
                          ts |-> IF timed THEN u.ts ELSE None, fp |-> None])
    /\ UNCHANGED <<now, air, listed, buf, inbox, events, seen, credits>>

\* A channel leaves the list, or changes its secret (upsertChannel).
Unlist ==
  \E c \in listed :
    /\ Spend
    /\ listed' = listed \ {c}
    /\ UNCHANGED <<now, air, unsaid, pending, buf, inbox, seen, credits>>

---------------------------------------------------------------------------
(* An overheard packet.                                                    *)

\* MeshObservations.evict shifts expired entries off the head, up to the first
\* that is not, and then what is beyond the cap.
EvictedObs(q) ==
  LET fresh == {i \in DOMAIN q : now - q[i].at <= ObsTtl}
  IN IF fresh = {} THEN <<>>
     ELSE SubSeq(q, Max({Min(fresh), Len(q) - Cap + 1}), Len(q))

\* The place in `q` of the send that packet p, with contents k, is taken for,
\* or 0.
\* The timestamp decides when the packet can be read; otherwise an entry
\* locked onto the packet, then the newest one without a lock.
Match(q, p, k) ==
  LET candidates == {i \in DOMAIN q : q[i].hash = HashOf(k.ch)}
      secrets == {c \in listed : HashOf(c) = HashOf(k.ch)}
      sameTs == {i \in candidates : q[i].ts = k.ts}
      pool == IF secrets = {} THEN candidates
              ELSE IF Cardinality(sameTs) > 1 THEN sameTs
              ELSE {i \in candidates : q[i].ts = None}
      locked == {i \in pool : q[i].fp = p}
      open == {i \in pool : q[i].fp = None /\ now >= q[i].sentAt}
      newest == {i \in open : \A j \in open : q[j].sentAt <= q[i].sentAt}
  IN IF candidates = {} \/ (secrets # {} /\ k.ch \notin secrets) THEN 0
     ELSE IF secrets # {} /\ Cardinality(sameTs) = 1 THEN Min(sameTs)
     ELSE IF locked # {} THEN Min(locked)
     ELSE IF open # {} THEN Max(newest)
     ELSE 0

\* attributeObservation: the match locks its send onto the packet.
Attribute(p) ==
  LET q == Evicted(pending, now)
      i == Match(q, p, air'[p])
  IN IF i = 0 THEN pending' = q /\ UNCHANGED credits
     ELSE /\ pending' = [q EXCEPT ![i].fp = IF @ = None THEN p ELSE @]
          /\ credits' = credits \cup
               {[msg |-> q[i].msg, packet |-> p, timed |-> q[i].ts # None,
                 age |-> now - q[i].sentAt, first |-> q[i].fp = None,
                 readable |-> {c \in listed : HashOf(c) = HashOf(air'[p].ch)} # {}]}

\* The log_rx tee of ingest: record, then attribute.
Observe(p, hops) ==
  LET o == [n |-> events + 1, at |-> now, fp |-> p, hops |-> hops] IN
  /\ Spend
  /\ buf' = Append(EvictedObs(buf), o)
  /\ untaken' = untaken \cup {o}
  /\ overflown' = (overflown \/ Len(buf') > Cap)
  /\ IF hops = 0 THEN UNCHANGED <<pending, credits>> ELSE Attribute(p)
  /\ UNCHANGED <<now, listed, unsaid>>

\* A packet heard again; one of ours is heard from a repeater only.
Hear ==
  \E p \in DOMAIN air, hops \in Hops :
    /\ air[p].own # None => hops > 0
    /\ UNCHANGED <<air, inbox>>
    /\ Observe(p, hops)

\* Another node's packet, heard for the first time; its clock may show the
\* second of any other.  A radio that has the channel decrypts the message.
HearStranger ==
  \E c \in Channels, hops \in Hops :
  \E ts \in {Len(air) + 1} \cup {air[p].ts : p \in DOMAIN air} :
    /\ Len(air) < MaxPackets
    /\ c \notin Listed => ts = Len(air) + 1            \* nobody reads it
    /\ air' = Append(air, [ch |-> c, ts |-> ts, own |-> None])
    /\ inbox' = IF c \in Listed THEN Append(inbox, [packet |-> Len(air'), hops |-> hops])
                ELSE inbox
    /\ Observe(Len(air'), hops)

---------------------------------------------------------------------------
(* A message taken out of the inbox.                                       *)

\* Mutant: what the freshest packet did not take is dropped.
ConsumeDropsRest(hash, hops) ==
  LET q == EvictedObs(buf)
      Matches(o) == Hash(o.fp) = hash /\ o.hops = hops
      matches == {i \in DOMAIN q : Matches(q[i])}
      first == CHOOSE i \in matches : \A j \in matches : q[i].at >= q[j].at
      Kept(o) == ~Matches(o)
  IN IF matches = {} THEN [buf |-> q, taken |-> {}]
     ELSE [buf |-> SelectSeq(q, Kept),
           taken |-> {q[i] : i \in {j \in matches : q[j].fp = q[first].fp}}]
\* MeshObservations.consumeMatching: of the observations with this hash and
\* hop count, those of the freshest packet are taken; the others go behind
\* the ones that did not match, newest first.
Consume(hash, hops) ==
  LET q == EvictedObs(buf)
      Matches(o) == Hash(o.fp) = hash /\ o.hops = hops
      matches == {i \in DOMAIN q : Matches(q[i])}
      Before(i, j) == q[i].at > q[j].at \/ (q[i].at = q[j].at /\ i < j)
      first == CHOOSE i \in matches : \A j \in matches \ {i} : Before(i, j)
      taken == {i \in matches : q[i].fp = q[first].fp}
      Kept(o) == ~Matches(o)
      late == SetToSortSeq(matches \ taken, Before)
  IN IF matches = {} THEN [buf |-> q, taken |-> {}]
     ELSE [buf |-> SelectSeq(q, Kept) \o [i \in DOMAIN late |-> q[late[i]]],
           taken |-> {q[i] : i \in taken}]

\* RESP_CHANNEL_MSG_RECV: without a channel for its slot it is dropped.
Deliver ==
  /\ inbox # <<>>
  /\ Spend
  /\ inbox' = Tail(inbox)
  /\ LET m == Head(inbox)
         got == Consume(Hash(m.packet), m.hops)
     IN \/ /\ air[m.packet].ch \notin listed
           /\ UNCHANGED <<buf, untaken>>
        \/ /\ air[m.packet].ch \in listed
           /\ buf' = got.buf
           /\ untaken' = untaken \ got.taken
  /\ UNCHANGED <<now, air, listed, unsaid, pending, overflown, credits>>

\* tearDownConnection and stop clear both buffers; so does, in effect, a radio
\* that is replaced, with its inbox.
Clear ==
  /\ pending # <<>> \/ buf # <<>>
  /\ Spend
  /\ pending' = <<>> /\ buf' = <<>> /\ untaken' = {}
  /\ UNCHANGED <<now, air, listed, unsaid, inbox, overflown, credits>>

Next ==
  \/ Tick \/ Send \/ Register \/ Unlist
  \/ Hear \/ HearStranger \/ Deliver \/ Clear

Spec == Init /\ [][Next]_vars

\* The listed channels are only compared with each other.
ListedSymmetry == Permutations(Listed)

---------------------------------------------------------------------------
(* Properties.                                                             *)

\* A relay is credited to one of our messages only if it carries it, unless
\* the send was registered without its timestamp, no listed channel has the
\* packet's hash, or the packet carries the very timestamp of that send.
CreditIsIdentity ==
  \A k \in credits :
    k.timed /\ k.readable =>
      \/ air[k.packet].own = k.msg
      \/ \E p \in DOMAIN air : air[p].own = k.msg /\ air[p].ts = air[k.packet].ts

\* A packet that is on no listed channel is credited to nothing while some
\* listed channel has its hash, whatever was registered and however long ago.
NoStrangerCredited ==
  \A k \in credits : k.readable => air[k.packet].ch \in Listed

\* A send claims a packet within UNCLAIMED_TTL_MS and keeps the relays of it
\* within CLAIMED_TTL_MS, whatever the order of registrations, locks and times.
CreditsAreTimely ==
  \A k \in credits : k.age >= 0 /\ k.age <= IF k.first THEN UnclaimedTtl ELSE ClaimedTtl

\* The three facts about a credited relay.
CreditsAreSound == CreditIsIdentity /\ NoStrangerCredited /\ CreditsAreTimely

\* Until the buffer overflows, an observation no message has taken is there
\* for its whole time to live, however messages drained meanwhile moved it.
FreshIsKept ==
  /\ TypeOK
  /\ ~overflown => \A o \in untaken : now - o.at <= ObsTtl => o \in Range(buf)

=============================================================================

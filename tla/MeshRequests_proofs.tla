-------------------------- MODULE MeshRequests_proofs --------------------------
(***************************************************************************)
(* Proofs about MeshRequests, for any nodes and any number of requests.    *)
(*                                                                         *)
(* The argument: stamps are taken in the order of writing, the radio takes *)
(* commands in that order and answers each at once, so every frame before  *)
(* a RESP_SENT is of an older request.  While the slots are in step with   *)
(* those answers, the oldest slot is that of the answer received; hence a  *)
(* tag is the request's own, and whoever waits past its RESP_SENT, a trace *)
(* aside, is the holder of meshRequestSlot.                                *)
(***************************************************************************)
EXTENDS MeshRequests, SequenceTheorems, TLAPS

\* Stamps are taken one by one, and the radio has taken what it speaks of.
Stamped ==
  /\ \A c \in Reqs : IF c <= issued THEN kind[c] # "none" /\ node[c] \in Nodes
                                    ELSE kind[c] = "none" /\ tagOf[c] = NoReq
  /\ \A c \in writing \cup adminSentQueue \cup inflight \cup taken : c <= issued
  /\ meshRequestSlot <= issued /\ cut <= issued
  /\ \A n \in Nodes : sessions[n] <= issued

\* The radio takes the requests in the order of their stamps.
TakenInOrder ==
  /\ onAir \subseteq taken
  /\ \A i \in DOMAIN frames : frames[i][2] \in taken
  /\ \A c \in taken, d \in inflight : c < d

\* What comes before an answer to a command is of an older request.
FramesInOrder ==
  \A j \in DOMAIN frames : frames[j][1] \in {"sent", "err"} =>
    \A i \in 1..(j - 1) : frames[i][2] < frames[j][2]

\* Who is in the store is of the kind that waits there, under the key that it was given.
HoldersKnown ==
  /\ \A t \in Reqs : tags[t] # NoReq =>
       \/ kind[tags[t]] = "trace" /\ tags[t] = t
       \/ kind[tags[t]] = "tagged" /\ tagOf[tags[t]] = t
  /\ \A n \in Nodes : logins[n] # NoReq =>
       kind[logins[n]] = "login" /\ node[logins[n]] = n /\ outcome[logins[n]] = "pending"

\* The queue is behind the slot's holder, and its requests have no tag yet.
QueueIsBehind ==
  \A c \in adminSentQueue : meshRequestSlot < c /\ tagOf[c] = NoReq

\* Where each kind of request waits.
Waits ==
  \A c \in Reqs : outcome[c] = "pending" =>
    \/ kind[c] = "tagged" /\ c \in adminSentQueue
    \/ kind[c] = "tagged" /\ tagOf[c] # NoReq /\ tags[tagOf[c]] = c
    \/ kind[c] = "status" /\ c \in writing
    \/ kind[c] = "login" /\ logins[node[c]] = c
    \/ kind[c] = "trace" /\ tags[c] = c

\* Until a slot slips, a tag is held by the request it names, once that has been taken.
TagsAreOwn ==
  ~slipped => \A t \in Reqs : tags[t] # NoReq =>
    tags[t] = t /\ outcome[t] = "pending" /\ (kind[t] = "tagged" => t \in taken)

\* Once the radio has taken a claiming request it passes on no reply of an older one, a
\* trace's aside.
SentDrops ==
  \A i \in DOMAIN frames : frames[i][1] = "sent" /\ kind[frames[i][2]] \in Claiming =>
    /\ \A c \in onAir : kind[c] # "trace" => c >= frames[i][2]
    /\ \A j \in DOMAIN frames :
         j > i /\ frames[j][1] \in {"reply", "loginFail"} /\ kind[frames[j][2]] # "trace"
           => frames[j][2] >= frames[i][2]

\* Whoever waits past its RESP_SENT, a trace aside, holds the slot.
OneIsPast ==
  ~slipped => \A c \in Awaiting \cap Reqs :
    kind[c] # "trace" /\ c \notin Owed => c = meshRequestSlot

\* The reply of c can come, or the frame that ends the wait for it is on its way.
Alive(c) ==
  \/ c \in onAir \cup Told({"reply", "loginFail"})
  \/ kind[c] # "trace" /\ \E d \in Told({"sent"}) : d > c /\ kind[d] \in Claiming

\* Of those past their RESP_SENT, and of those about to be.
PastAreAlive ==
  ~slipped => \A c \in Reqs :
    \/ c \in Awaiting /\ c \notin Owed
    \/ c \in Told({"sent"}) /\ kind[c] # "status"
    => Alive(c)

\* A request failed for a newer one is past the radio.
DisplacedIsPast ==
  ~slipped => \A c \in Reqs : outcome[c] = "displaced" /\ c > cut =>
                c \notin inflight \cup onAir \cup Told({"reply", "loginFail"})

\* The logins that may set a session are of this link.
LoginsOfLink ==
  ~stray =>
    /\ \A n \in Nodes : logins[n] # NoReq => logins[n] > cut
    /\ \A c \in writing : kind[c] = "login" /\ outcome[c] = "ok" => c > cut

\* Until logins to one node overlap, the one that waits for a node is the one whose
\* answer may come.
LoginsAreOwn ==
  ~mixed => \A c \in inflight \cup onAir \cup Told({"reply", "loginFail"}) :
              kind[c] = "login" => logins[node[c]] \in {NoReq, c}

\* The inductive invariant.
IInv ==
  /\ TypeOK /\ Stamped /\ TakenInOrder /\ FramesInOrder /\ HoldersKnown /\ QueueIsBehind
  /\ Waits /\ SlotsMatchAnswers /\ TagsAreOwn /\ SentDrops /\ OneIsPast /\ PastAreAlive
  /\ DisplacedIsPast /\ LoginsOfLink /\ SessionsEndWithLink /\ LoginsAreOwn

-----------------------------------------------------------------------------
(* Operators of the model.                                                 *)

LEMMA OldestIs ==
  ASSUME NEW S, S \subseteq Reqs
  PROVE  /\ Oldest(S) \subseteq S
         /\ \A c \in Oldest(S) : Oldest(S) = {c} /\ \A d \in S : c <= d
         /\ \A c \in S : (\A d \in S : c <= d) => Oldest(S) = {c}
<1>1. \A c \in Reqs, d \in Reqs : c <= d /\ d <= c => c = d
  BY DEF Reqs
<1> QED
  BY <1>1 DEF Oldest

\* A frame more, or the first one less.
LEMMA FrameAdded ==
  ASSUME frames \in Seq(Frames), NEW f \in Frames, frames' = Append(frames, f)
  PROVE  /\ frames' \in Seq(Frames) /\ Len(frames) \in Nat
         /\ DOMAIN frames = 1..Len(frames) /\ DOMAIN frames' = 1..(Len(frames) + 1)
         /\ \A i \in 1..Len(frames) : frames'[i] = frames[i]
         /\ frames'[Len(frames) + 1] = f
BY AppendProperties, LenProperties

LEMMA FrameTaken ==
  ASSUME frames \in Seq(Frames), frames # <<>>, frames' = Tail(frames)
  PROVE  /\ frames' \in Seq(Frames) /\ Len(frames) \in Nat /\ Len(frames) >= 1
         /\ DOMAIN frames = 1..Len(frames) /\ DOMAIN frames' = 1..(Len(frames) - 1)
         /\ \A i \in 1..(Len(frames) - 1) : frames'[i] = frames[i + 1] /\ i + 1 \in 1..Len(frames)
         /\ Head(frames) = frames[1] /\ Head(frames) \in Frames
         /\ \A i \in 1..Len(frames) : i # 1 => i - 1 \in 1..(Len(frames) - 1) /\ (i - 1) + 1 = i
<1>1. /\ frames' \in Seq(Frames) /\ Len(frames) \in Nat /\ Len(frames) >= 1
      /\ DOMAIN frames = 1..Len(frames) /\ DOMAIN frames' = 1..(Len(frames) - 1)
      /\ \A i \in 1..(Len(frames) - 1) : frames'[i] = frames[i + 1]
      /\ Head(frames) = frames[1] /\ Head(frames) \in Frames
  BY HeadTailProperties, LenProperties, EmptySeq
<1>2. \A i \in 1..(Len(frames) - 1) : i + 1 \in 1..Len(frames)
  BY <1>1
<1>3. \A i \in 1..Len(frames) : i # 1 => i - 1 \in 1..(Len(frames) - 1) /\ (i - 1) + 1 = i
  BY <1>1
<1> QED
  BY <1>1, <1>2, <1>3

\* Which requests are told of, then.
LEMMA ToldAdded ==
  ASSUME frames \in Seq(Frames), NEW what, NEW c \in Reqs,
         frames' = Append(frames, <<what, c>>), <<what, c>> \in Frames
  PROVE  \A w : Told(w)' = IF what \in w THEN Told(w) \cup {c} ELSE Told(w)
<1> DEFINE n == Len(frames)
           f == <<what, c>>
<1>1. f[1] = what /\ f[2] = c /\ f \in Frames /\ frames' = Append(frames, f)
  OBVIOUS
<1> HIDE DEF f
<1>2. /\ n \in Nat /\ DOMAIN frames = 1..n /\ DOMAIN frames' = 1..(n + 1)
      /\ \A i \in 1..n : frames'[i] = frames[i]
      /\ frames'[n + 1] = f
  BY <1>1, FrameAdded
<1> HIDE DEF n
<1>3. SUFFICES ASSUME NEW w
               PROVE  Told(w)' = IF what \in w THEN Told(w) \cup {c} ELSE Told(w)
  OBVIOUS
<1>4. \A i \in 1..(n + 1) : i \in 1..n \/ i = n + 1
  BY <1>2
<1>5. 1..n \subseteq 1..(n + 1) /\ n + 1 \in 1..(n + 1)
  BY <1>2
<1>6. ASSUME NEW d \in Told(w)' PROVE d \in Told(w) \/ (d = c /\ what \in w)
  <2>1. PICK i \in 1..(n + 1) : frames'[i][1] \in w /\ frames'[i][2] = d /\ d \in Reqs
    BY <1>2, <1>6 DEF Told
  <2>2. CASE i \in 1..n
    BY <1>2, <2>1, <2>2 DEF Told
  <2>3. CASE i = n + 1
    BY <1>1, <1>2, <2>1, <2>3
  <2> QED
    BY <1>4, <2>2, <2>3
<1>7. ASSUME NEW d \in Told(w) PROVE d \in Told(w)'
  <2>1. PICK i \in 1..n : frames[i][1] \in w /\ frames[i][2] = d /\ d \in Reqs
    BY <1>2, <1>7 DEF Told
  <2>2. i \in DOMAIN frames' /\ frames'[i] = frames[i]
    BY <1>2, <1>5, <2>1
  <2> QED
    BY <2>1, <2>2 DEF Told
<1>8. what \in w => c \in Told(w)'
  BY <1>1, <1>2, <1>5 DEF Told
<1> QED
  BY <1>6, <1>7, <1>8

LEMMA ToldTaken ==
  ASSUME frames \in Seq(Frames), NEW what, NEW c \in Reqs, Receive(what, c)
  PROVE  \A w : /\ Told(w)' \subseteq Told(w)
                /\ Told(w) = IF what \in w THEN Told(w)' \cup {c} ELSE Told(w)'
<1> DEFINE n == Len(frames)
<1>1. frames # <<>> /\ frames' = Tail(frames) /\ Head(frames)[1] = what /\ Head(frames)[2] = c
  BY DEF Receive
<1>2. /\ n \in Nat /\ DOMAIN frames = 1..n /\ DOMAIN frames' = 1..(n - 1) /\ 1 \in 1..n
      /\ \A i \in 1..(n - 1) : frames'[i] = frames[i + 1] /\ i + 1 \in 1..n
      /\ frames[1][1] = what /\ frames[1][2] = c
      /\ \A i \in 1..n : i # 1 => i - 1 \in 1..(n - 1) /\ (i - 1) + 1 = i
  BY <1>1, FrameTaken
<1> HIDE DEF n
<1>3. SUFFICES ASSUME NEW w
               PROVE  /\ Told(w)' \subseteq Told(w)
                      /\ Told(w) = IF what \in w THEN Told(w)' \cup {c} ELSE Told(w)'
  OBVIOUS
<1>4. ASSUME NEW d \in Told(w)' PROVE d \in Told(w)
  <2>1. PICK i \in 1..(n - 1) : frames'[i][1] \in w /\ frames'[i][2] = d /\ d \in Reqs
    BY <1>2, <1>4 DEF Told
  <2>2. frames[i + 1][1] \in w /\ frames[i + 1][2] = d /\ i + 1 \in DOMAIN frames
    BY <1>2, <2>1
  <2> QED
    BY <2>1, <2>2 DEF Told
<1>5. ASSUME NEW d \in Told(w) PROVE d \in Told(w)' \/ (d = c /\ what \in w)
  <2>1. PICK i \in 1..n : frames[i][1] \in w /\ frames[i][2] = d /\ d \in Reqs
    BY <1>2, <1>5 DEF Told
  <2>2. CASE i = 1
    BY <1>2, <2>1, <2>2
  <2>3. CASE i # 1
    <3>1. i - 1 \in DOMAIN frames' /\ frames'[i - 1] = frames[i]
      BY <1>2, <2>1, <2>3
    <3> QED
      BY <2>1, <3>1 DEF Told
  <2> QED
    BY <2>2, <2>3
<1>6. what \in w => c \in Told(w)
  BY <1>2 DEF Told
<1> QED
  BY <1>4, <1>5, <1>6

\* Nothing is told of that was not, while the frames stay.
LEMMA ToldStays ==
  ASSUME frames' = frames
  PROVE  \A w : Told(w)' = Told(w)
BY DEF Told

LEMMA ToldIs ==
  /\ \A w : Told(w) \subseteq Reqs
  /\ \A v, w : v \subseteq w => Told(v) \subseteq Told(w)
BY DEF Told

LEMMA SettleIs ==
  ASSUME NEW S, NEW how, NEW out
  PROVE  \A c \in Reqs :
           Settle(S, how, out)[c] = IF c \in S /\ out[c] = "pending" THEN how ELSE out[c]
BY DEF Settle

\* The outcomes each kind of request may have.
LEMMA OutcomesAre ==
  /\ "none" \in OutcomesOf("none") /\ \A o \in OutcomesOf("none") : o = "none"
  /\ \A k \in Kinds : "pending" \in OutcomesOf(k) /\ "writeFailed" \in OutcomesOf(k)
  /\ "ok" \in OutcomesOf("status")
  /\ \A k \in {"tagged", "trace"}, o \in Outcomes :
       o \notin {"none", "loginFailed"} => o \in OutcomesOf(k)
  /\ \A o \in Outcomes : o \notin {"none", "aborted"} => o \in OutcomesOf("login")
BY DEF OutcomesOf, Kinds, Outcomes

\* A settlement keeps the type if it suits those it settles.
LEMMA SettledType ==
  ASSUME TypeOK, NEW S, NEW how \in Outcomes,
         \A c \in S : c \in Reqs /\ outcome[c] = "pending" => how \in OutcomesOf(kind[c])
  PROVE  /\ Settle(S, how, outcome) \in [Reqs -> Outcomes]
         /\ \A c \in Reqs : Settle(S, how, outcome)[c] \in OutcomesOf(kind[c])
<1>1. outcome \in [Reqs -> Outcomes] /\ \A c \in Reqs : outcome[c] \in OutcomesOf(kind[c])
  BY DEF TypeOK
<1>2. Settle(S, how, outcome) \in [Reqs -> Outcomes]
  BY <1>1 DEF Settle
<1> QED
  BY <1>1, <1>2, SettleIs

\* Who is in the store.
LEMMA HoldersAre ==
  ASSUME TypeOK, HoldersKnown
  PROVE  /\ \A t \in Reqs : tags[t] # NoReq =>
              tags[t] \in Reqs /\ kind[tags[t]] \in {"tagged", "trace"}
         /\ \A n \in Nodes : logins[n] # NoReq => logins[n] \in Reqs /\ kind[logins[n]] = "login"
         /\ NoReq \notin Reqs
         /\ \A c \in Awaiting \cap Reqs :
              \/ \E n \in Nodes : logins[n] = c /\ node[c] = n /\ kind[c] = "login"
              \/ \E t \in Reqs : tags[t] = c /\ kind[c] \in {"tagged", "trace"}
<1>1. NoReq \notin Reqs
  BY DEF NoReq, Reqs
<1>2. \A t \in Reqs : tags[t] \in Reqs \cup {NoReq}
  BY DEF TypeOK
<1>3. \A n \in Nodes : logins[n] \in Reqs \cup {NoReq}
  BY DEF TypeOK
<1> QED
  BY <1>1, <1>2, <1>3 DEF HoldersKnown, Awaiting

-----------------------------------------------------------------------------
(* The calls.                                                              *)

LEMMA IssueKeepsRadio ==
  ASSUME IInv, NEW k \in Kinds, NEW n \in Nodes, Issue(k, n)
  PROVE  /\ issued + 1 \in Reqs /\ Stamped' /\ TakenInOrder' /\ FramesInOrder' /\ SentDrops'
         /\ QueueIsBehind' /\ SlotsMatchAnswers'
<1>1. /\ issued \in Nat /\ issued < MaxReqs /\ MaxReqs \in Nat /\ issued + 1 \in Reqs
      /\ issued' = issued + 1
      /\ kind' = [kind EXCEPT ![issued + 1] = k] /\ node' = [node EXCEPT ![issued + 1] = n]
      /\ writing' = writing \cup {issued + 1}
      /\ adminSentQueue' = adminSentQueue \cup {issued + 1}
      /\ inflight' = inflight \cup {issued + 1}
      /\ UNCHANGED <<meshRequestSlot, tagOf, sessions, taken, onAir, frames, slipped, cut>>
  BY RequestsAssumption DEF IInv, TypeOK, Issue, Reqs
<1>2. TypeOK /\ Stamped /\ TakenInOrder /\ FramesInOrder /\ QueueIsBehind /\ SentDrops
      /\ SlotsMatchAnswers
  BY DEF IInv
<1>3. \A c \in Reqs : c \in Nat /\ (c # issued + 1 => kind'[c] = kind[c] /\ node'[c] = node[c])
  BY <1>1, <1>2 DEF TypeOK, Reqs
<1>4. kind'[issued + 1] = k /\ node'[issued + 1] = n
  BY <1>1, <1>2 DEF TypeOK
<1>5. meshRequestSlot \in Nat /\ cut \in Nat /\ \A m \in Nodes : sessions[m] \in Nat
  BY <1>2 DEF TypeOK, Reqs, NoReq
<1>6. writing \subseteq Reqs /\ adminSentQueue \subseteq Reqs /\ inflight \subseteq Reqs
      /\ taken \subseteq Reqs
  BY <1>2 DEF TypeOK
<1>7. Stamped'
  <2>1. \A c \in Reqs : IF c <= issued' THEN kind'[c] # "none" /\ node'[c] \in Nodes
                                        ELSE kind'[c] = "none" /\ tagOf'[c] = NoReq
    <3> TAKE c \in Reqs
    <3>1. CASE c = issued + 1
      BY <1>1, <1>4, <3>1 DEF Kinds
    <3>2. CASE c # issued + 1
      BY <1>1, <1>2, <1>3, <3>2 DEF Stamped
    <3> QED
      BY <3>1, <3>2
  <2>2. \A c \in (writing \cup adminSentQueue \cup inflight \cup taken)' : c <= issued'
    BY <1>1, <1>2, <1>3, <1>6 DEF Stamped
  <2>3. meshRequestSlot' <= issued' /\ cut' <= issued' /\ \A m \in Nodes : sessions'[m] <= issued'
    BY <1>1, <1>2, <1>5 DEF Stamped
  <2> QED
    BY <2>1, <2>2, <2>3 DEF Stamped
<1>8. TakenInOrder'
  BY <1>1, <1>2, <1>3, <1>6 DEF TakenInOrder, Stamped
<1>9. FramesInOrder'
  BY <1>1, <1>2 DEF FramesInOrder
<1>10. SentDrops'
  <2>1. \A c \in taken : kind'[c] = kind[c]
    BY <1>1, <1>2, <1>3, <1>6 DEF Stamped
  <2>2. /\ \A i \in DOMAIN frames : kind'[frames[i][2]] = kind[frames[i][2]]
        /\ \A c \in onAir : kind'[c] = kind[c]
    BY <1>2, <2>1 DEF TakenInOrder
  <2> QED
    BY <1>1, <1>2, <2>2 DEF SentDrops
<1>11. QueueIsBehind'
  <2>1. meshRequestSlot < issued + 1 /\ tagOf[issued + 1] = NoReq
    BY <1>1, <1>2, <1>5 DEF Stamped
  <2> QED
    BY <1>1, <1>2, <2>1 DEF QueueIsBehind
<1>12. SlotsMatchAnswers'
  BY <1>1, <1>2, ToldStays DEF SlotsMatchAnswers, Owed
<1> QED
  BY <1>1, <1>7, <1>8, <1>9, <1>10, <1>11, <1>12

LEMMA IssueKeepsStore ==
  ASSUME IInv, NEW k \in Kinds, NEW n \in Nodes, Issue(k, n)
  PROVE  /\ TypeOK' /\ HoldersKnown' /\ Waits' /\ TagsAreOwn' /\ OneIsPast'
         /\ PastAreAlive' /\ DisplacedIsPast' /\ LoginsOfLink' /\ SessionsEndWithLink'
         /\ LoginsAreOwn'
<1> DEFINE c == issued + 1
<1>1. /\ issued \in Nat /\ c \in Reqs /\ issued' = c /\ c > issued /\ c # NoReq
      /\ kind' = [kind EXCEPT ![c] = k] /\ node' = [node EXCEPT ![c] = n]
      /\ writing' = writing \cup {c}
      /\ adminSentQueue' = adminSentQueue \cup {c}
      /\ inflight' = inflight \cup {c}
      /\ UNCHANGED <<meshRequestSlot, tagOf, sessions, taken, onAir, frames, linkUp, connected,
                     slipped, cut, stray>>
  BY RequestsAssumption DEF IInv, TypeOK, Issue, Reqs, link, NoReq
<1>2. /\ TypeOK /\ Stamped /\ TakenInOrder /\ HoldersKnown /\ Waits /\ TagsAreOwn /\ OneIsPast
      /\ PastAreAlive /\ DisplacedIsPast /\ LoginsOfLink /\ SessionsEndWithLink /\ LoginsAreOwn
  BY DEF IInv
<1>3. \/ /\ k = "login"
         /\ logins' = [logins EXCEPT ![n] = c]
         /\ outcome' = [Settle({logins[n]}, "replaced", outcome) EXCEPT ![c] = "pending"]
         /\ mixed' = (mixed \/ \E d \in inflight \cup onAir \cup Told({"reply", "loginFail"}) :
                                 kind[d] = "login" /\ node[d] = n)
         /\ UNCHANGED tags
      \/ /\ k = "trace"
         /\ tags' = [tags EXCEPT ![c] = c]
         /\ outcome' = [Settle({tags[c]}, "replaced", outcome) EXCEPT ![c] = "pending"]
         /\ UNCHANGED <<logins, mixed>>
      \/ /\ k \in {"tagged", "status"}
         /\ outcome' = [outcome EXCEPT ![c] = "pending"]
         /\ UNCHANGED <<tags, logins, mixed>>
  BY DEF Issue
<1> HIDE DEF c
<1>4. /\ kind[c] = "none" /\ outcome[c] = "none" /\ tagOf[c] = NoReq
      /\ c \notin writing \cup adminSentQueue \cup inflight \cup taken \cup onAir
  BY <1>1, <1>2, OutcomesAre DEF Stamped, TypeOK, TakenInOrder, Reqs
<1>5. /\ kind'[c] = k /\ node'[c] = n /\ k # "none"
      /\ \A d \in Reqs : d # c => kind'[d] = kind[d] /\ node'[d] = node[d]
  BY <1>1, <1>2 DEF TypeOK, Kinds
<1>6. /\ \A t \in Reqs : tags[t] \in Reqs \cup {NoReq} /\ tags[t] # c
      /\ \A m \in Nodes : logins[m] \in Reqs \cup {NoReq} /\ logins[m] # c
  BY <1>1, <1>2, <1>4 DEF TypeOK, HoldersKnown
<1>7. /\ outcome'[c] = "pending"
      /\ \A d \in Reqs : d # c => \/ outcome'[d] = outcome[d]
                                  \/ /\ outcome[d] = "pending" /\ outcome'[d] = "replaced"
                                     /\ \/ k = "login" /\ d = logins[n]
                                        \/ k = "trace" /\ d = tags[c]
      /\ k = "login" => outcome'[logins[n]] # "pending" \/ logins[n] = NoReq
      /\ k = "trace" => outcome'[tags[c]] # "pending" \/ tags[c] = NoReq
  <2>2. outcome \in [Reqs -> Outcomes]
    BY <1>2 DEF TypeOK
  <2>3. CASE k = "login"
    <3>1. /\ outcome'[c] = "pending"
          /\ \A d \in Reqs : d # c => outcome'[d] =
               IF d \in {logins[n]} /\ outcome[d] = "pending" THEN "replaced" ELSE outcome[d]
      BY <1>1, <1>3, <2>3 DEF Settle
    <3>2. logins[n] \in Reqs \cup {NoReq} /\ logins[n] # c
      BY <1>1, <1>6
    <3> QED
      BY <2>3, <3>1, <3>2
  <2>4. CASE k = "trace"
    <3>1. /\ outcome'[c] = "pending"
          /\ \A d \in Reqs : d # c => outcome'[d] =
               IF d \in {tags[c]} /\ outcome[d] = "pending" THEN "replaced" ELSE outcome[d]
      BY <1>1, <1>3, <2>4 DEF Settle
    <3>2. tags[c] \in Reqs \cup {NoReq} /\ tags[c] # c
      BY <1>1, <1>6
    <3> QED
      BY <2>4, <3>1, <3>2
  <2>5. CASE k \in {"tagged", "status"}
    BY <1>1, <1>3, <2>2, <2>5
  <2> QED
    BY <2>3, <2>4, <2>5 DEF Kinds
<1>8. TypeOK'
  <2>1. outcome' \in [Reqs -> Outcomes]
    <3>1. outcome \in [Reqs -> Outcomes] /\ "pending" \in Outcomes /\ "replaced" \in Outcomes
      BY <1>2 DEF TypeOK, Outcomes
    <3>2. \A S : Settle(S, "replaced", outcome) \in [Reqs -> Outcomes]
      BY <3>1 DEF Settle
    <3> QED
      BY <1>1, <1>3, <3>1, <3>2
  <2>2. ASSUME NEW d \in Reqs PROVE outcome'[d] \in OutcomesOf(kind'[d])
    <3>1. CASE d = c
      BY <1>5, <1>7, <3>1, OutcomesAre
    <3>2. CASE d # c /\ outcome'[d] = outcome[d]
      BY <1>2, <1>5, <3>2 DEF TypeOK
    <3>3. CASE d # c /\ outcome'[d] = "replaced" /\ k = "login" /\ d = logins[n]
      <4>1. kind[d] = "login"
        BY <1>1, <1>2, <3>3, HoldersAre
      <4> QED
        BY <1>5, <3>3, <4>1, OutcomesAre DEF Outcomes
    <3>4. CASE d # c /\ outcome'[d] = "replaced" /\ k = "trace" /\ d = tags[c]
      <4>1. kind[d] \in {"tagged", "trace"}
        BY <1>1, <1>2, <3>4, HoldersAre
      <4> QED
        BY <1>5, <3>4, <4>1, OutcomesAre DEF Outcomes
    <3> QED
      BY <1>7, <3>1, <3>2, <3>3, <3>4
  <2>3. mixed' \in BOOLEAN
    BY <1>2, <1>3 DEF TypeOK
  <2>4. /\ kind' \in [Reqs -> Kinds \cup {"none"}] /\ node' \in [Reqs -> Nodes \cup {"none"}]
        /\ tags' \in [Reqs -> Reqs \cup {NoReq}] /\ logins' \in [Nodes -> Reqs \cup {NoReq}]
    BY <1>1, <1>2, <1>3 DEF TypeOK
  <2>5. issued' \in 0..MaxReqs /\ cut' \in 0..MaxReqs
    BY <1>1, <1>2 DEF TypeOK, Reqs
  <2> QED
    BY <1>1, <1>2, <2>1, <2>2, <2>3, <2>4, <2>5 DEF TypeOK
<1>9. HoldersKnown'
  <2>1. ASSUME NEW t \in Reqs, tags'[t] # NoReq
        PROVE  \/ kind'[tags'[t]] = "trace" /\ tags'[t] = t
               \/ kind'[tags'[t]] = "tagged" /\ tagOf'[tags'[t]] = t
    <3>1. CASE tags'[t] = tags[t]
      BY <1>1, <1>2, <1>5, <1>6, <2>1, <3>1 DEF HoldersKnown
    <3>2. CASE k = "trace" /\ t = c
      BY <1>1, <1>2, <1>3, <1>5, <3>2 DEF TypeOK
    <3> QED
      BY <1>1, <1>2, <1>3, <3>1, <3>2 DEF TypeOK
  <2>2. ASSUME NEW m \in Nodes, logins'[m] # NoReq
        PROVE  kind'[logins'[m]] = "login" /\ node'[logins'[m]] = m
               /\ outcome'[logins'[m]] = "pending"
    <3>1. CASE k = "login" /\ m = n
      BY <1>1, <1>2, <1>3, <1>5, <1>7, <3>1 DEF TypeOK
    <3>2. CASE ~(k = "login" /\ m = n)
      <4>1. logins'[m] = logins[m]
        BY <1>2, <1>3, <3>2 DEF TypeOK
      <4>2. /\ kind[logins[m]] = "login" /\ node[logins[m]] = m /\ outcome[logins[m]] = "pending"
            /\ logins[m] \in Reqs /\ logins[m] # c
        BY <1>2, <1>6, <2>2, <4>1 DEF HoldersKnown
      <4>3. k = "trace" => logins[m] # tags[c] \/ tags[c] = NoReq
        BY <1>1, <1>2, <4>2, HoldersAre
      <4>4. k = "login" => logins[m] # logins[n] \/ logins[n] = NoReq
        BY <1>2, <3>2, <4>2 DEF HoldersKnown
      <4>5. NoReq \notin Reqs
        BY DEF NoReq, Reqs
      <4> QED
        BY <1>5, <1>7, <4>1, <4>2, <4>3, <4>4, <4>5
    <3> QED
      BY <3>1, <3>2
  <2> QED
    BY <2>1, <2>2 DEF HoldersKnown
<1>10. Waits'
  <2> SUFFICES ASSUME NEW d \in Reqs, outcome'[d] = "pending"
               PROVE  \/ kind'[d] = "tagged" /\ d \in adminSentQueue'
                      \/ kind'[d] = "tagged" /\ tagOf'[d] # NoReq /\ tags'[tagOf'[d]] = d
                      \/ kind'[d] = "status" /\ d \in writing'
                      \/ kind'[d] = "login" /\ logins'[node'[d]] = d
                      \/ kind'[d] = "trace" /\ tags'[d] = d
    BY DEF Waits
  <2>1. CASE d = c
    <3>1. k = "login" => logins'[n] = c
      BY <1>2, <1>3 DEF TypeOK
    <3>2. k = "trace" => tags'[c] = c
      BY <1>1, <1>2, <1>3 DEF TypeOK
    <3> QED
      BY <1>1, <1>5, <2>1, <3>1, <3>2 DEF Kinds
  <2>2. CASE d # c
    <3>1. outcome[d] = "pending"
      BY <1>7, <2>2
    <3>2. k = "login" => logins' = [logins EXCEPT ![n] = c] /\ tags' = tags /\ logins[n] # d
      BY <1>3, <1>7, <2>2, HoldersAre, <1>2
    <3>3. k = "trace" => tags' = [tags EXCEPT ![c] = c] /\ logins' = logins /\ tags[c] # d
      BY <1>3, <1>7, <2>2, HoldersAre, <1>2
    <3>4. k \in {"tagged", "status"} => tags' = tags /\ logins' = logins
      BY <1>3
    <3>5. tagOf[d] \in Reqs \cup {NoReq} /\ tags \in [Reqs -> Reqs \cup {NoReq}]
          /\ logins \in [Nodes -> Reqs \cup {NoReq}]
          /\ (kind[d] # "none" => node[d] \in Nodes)
      BY <1>2 DEF TypeOK, Stamped
    <3>6. \A t \in Reqs : tags[t] = d => tags'[t] = d
      BY <3>2, <3>3, <3>4, <3>5 DEF Kinds
    <3>7. \A m \in Nodes : logins[m] = d => logins'[m] = d
      BY <3>2, <3>3, <3>4, <3>5 DEF Kinds
    <3> QED
      BY <1>1, <1>2, <1>5, <2>2, <3>1, <3>5, <3>6, <3>7 DEF Waits
  <2> QED
    BY <2>1, <2>2
<1>11. Awaiting' \cap Reqs \subseteq (Awaiting \cap Reqs) \cup {c}
  <2>1. \A t \in Reqs : tags'[t] = tags[t] \/ tags'[t] = c
    BY <1>2, <1>3 DEF TypeOK
  <2>2. \A m \in Nodes : logins'[m] = logins[m] \/ logins'[m] = c
    BY <1>2, <1>3 DEF TypeOK
  <2> QED
    BY <2>1, <2>2 DEF Awaiting
<1>12. Owed' = Owed \cup {c} /\ \A w : Told(w)' = Told(w)
  BY <1>1, ToldStays DEF Owed
<1>13. TagsAreOwn'
  <2> SUFFICES ASSUME ~slipped, NEW t \in Reqs, tags'[t] # NoReq
               PROVE  /\ tags'[t] = t /\ outcome'[t] = "pending"
                      /\ kind'[t] = "tagged" => t \in taken'
    BY <1>1 DEF TagsAreOwn
  <2>1. CASE t = c
    <3>1. tags[c] = NoReq
      BY <1>1, <1>2, <1>4 DEF TagsAreOwn
    <3>2. tags'[c] = c /\ k = "trace"
      BY <1>1, <1>2, <1>3, <2>1, <3>1 DEF TypeOK
    <3> QED
      BY <1>5, <1>7, <2>1, <3>2
  <2>2. CASE t # c
    <3>1. tags'[t] = tags[t]
      BY <1>2, <1>3, <2>2 DEF TypeOK
    <3>2. tags[t] = t /\ outcome[t] = "pending" /\ (kind[t] = "tagged" => t \in taken)
      BY <1>2, <3>1 DEF TagsAreOwn
    <3>3. kind[t] \in {"tagged", "trace"}
      BY <1>2, <3>1, <3>2, HoldersAre
    <3>4. k = "login" => logins[n] # t
      BY <1>2, <3>3, HoldersAre
    <3>5. k = "trace" => tags[c] # t
      BY <1>1, <1>2, <2>2, <3>2, HoldersAre DEF TagsAreOwn
    <3> QED
      BY <1>1, <1>5, <1>7, <2>2, <3>1, <3>2, <3>4, <3>5
  <2> QED
    BY <2>1, <2>2
<1>14. OneIsPast'
  BY <1>1, <1>2, <1>5, <1>11, <1>12 DEF OneIsPast
<1>15. PastAreAlive'
  <2>1. \A d \in Reqs : d # c /\ Alive(d) => Alive(d)'
    <3>1. c \notin Told({"sent"})
      BY <1>2, <1>4 DEF Told, TakenInOrder
    <3> QED
      BY <1>1, <1>5, <1>12, <3>1, ToldIs DEF Alive
  <2>2. c \notin Told({"sent"})
    BY <1>2, <1>4 DEF Told, TakenInOrder
  <2> QED
    BY <1>1, <1>2, <1>5, <1>11, <1>12, <2>1, <2>2 DEF PastAreAlive
<1>16. DisplacedIsPast'
  BY <1>1, <1>2, <1>7, <1>12 DEF DisplacedIsPast
<1>17. LoginsOfLink'
  <2>1. c > cut
    BY <1>1, <1>2 DEF Stamped, TypeOK, Reqs
  <2>2. \A m \in Nodes : logins'[m] = logins[m] \/ logins'[m] = c
    BY <1>2, <1>3 DEF TypeOK
  <2>3. \A d \in writing : d \in Reqs /\ d # c
    BY <1>2, <1>4 DEF TypeOK
  <2> QED
    BY <1>1, <1>2, <1>5, <1>7, <2>1, <2>2, <2>3 DEF LoginsOfLink
<1>18. SessionsEndWithLink'
  BY <1>1, <1>2 DEF SessionsEndWithLink
<1>19. LoginsAreOwn'
  <2> DEFINE live == inflight \cup onAir \cup Told({"reply", "loginFail"})
  <2>1. \A d \in live : d \in Reqs
    BY <1>2, ToldIs DEF TypeOK
  <2>2. c \notin live
    BY <1>2, <1>4 DEF Told, TakenInOrder
  <2>3. (inflight \cup onAir \cup Told({"reply", "loginFail"}))' = live \cup {c}
    BY <1>1, <1>12
  <2>4. \A d \in Reqs : kind[d] = "login" => node[d] \in Nodes
    BY <1>2 DEF Stamped
  <2> HIDE DEF live
  <2>a. mixed => mixed'
    BY <1>3
  <2>b. k = "login" /\ ~mixed' => \A d \in live : ~(kind[d] = "login" /\ node[d] = n)
    BY <1>3 DEF live
  <2> SUFFICES ASSUME ~mixed', NEW d \in live \cup {c}, kind'[d] = "login"
               PROVE  logins'[node'[d]] \in {NoReq, d}
    BY <2>3 DEF LoginsAreOwn, live
  <2>5. CASE d = c
    BY <1>2, <1>3, <1>5, <2>5 DEF TypeOK
  <2>6. CASE d # c
    <3>1. ~mixed /\ kind[d] = "login" /\ node'[d] = node[d] /\ node[d] \in Nodes
      BY <1>5, <2>a, <2>1, <2>4, <2>6
    <3>2. logins[node[d]] \in {NoReq, d}
      BY <1>2, <2>6, <3>1 DEF LoginsAreOwn, live
    <3>3. k = "login" => node[d] # n
      BY <2>b, <2>6, <3>1
    <3>4. logins'[node[d]] = logins[node[d]]
      BY <1>2, <1>3, <3>1, <3>3 DEF TypeOK
    <3> QED
      BY <3>1, <3>2, <3>4
  <2> QED
    BY <2>5, <2>6
<1> QED
  BY <1>8, <1>9, <1>10, <1>13, <1>14, <1>15, <1>16, <1>17, <1>18, <1>19

-----------------------------------------------------------------------------
(* What steps have in common that release waiters and send nothing.        *)

\* What was called stays as it was called.
Kept ==
  \A c \in Reqs : c <= issued => kind'[c] = kind[c] /\ node'[c] = node[c]

\* Whom the invariant speaks of was called.
LEMMA AllIssued ==
  ASSUME IInv
  PROVE  /\ \A c \in writing \cup adminSentQueue \cup inflight \cup taken \cup onAir :
              c \in Reqs /\ c <= issued
         /\ \A w : \A c \in Told(w) : c \in Reqs /\ c \in taken /\ c <= issued
         /\ \A i \in DOMAIN frames : frames[i][2] \in Reqs /\ frames[i][2] <= issued
         /\ \A t \in Reqs : tags[t] # NoReq => tags[t] \in Reqs /\ tags[t] <= issued
         /\ \A n \in Nodes : logins[n] # NoReq => logins[n] \in Reqs /\ logins[n] <= issued
         /\ \A c \in Awaiting \cap Reqs : c <= issued
<1>1. TypeOK /\ Stamped /\ TakenInOrder /\ HoldersKnown
  BY DEF IInv
<1>2. \A c \in writing \cup adminSentQueue \cup inflight \cup taken \cup onAir :
        c \in Reqs /\ c <= issued
  BY <1>1 DEF TypeOK, Stamped, TakenInOrder
<1>3. \A c \in Reqs : kind[c] # "none" => c <= issued
  BY <1>1 DEF Stamped
<1>4. \A w : \A c \in Told(w) : c \in Reqs /\ c \in taken /\ c <= issued
  BY <1>1, <1>2 DEF Told, TakenInOrder
<1>5. \A i \in DOMAIN frames : frames[i][2] \in Reqs /\ frames[i][2] <= issued
  BY <1>1, <1>2 DEF TakenInOrder
<1>6. /\ \A t \in Reqs : tags[t] # NoReq => tags[t] \in Reqs /\ tags[t] <= issued
      /\ \A n \in Nodes : logins[n] # NoReq => logins[n] \in Reqs /\ logins[n] <= issued
  BY <1>1, <1>3, HoldersAre
<1>7. \A c \in Awaiting \cap Reqs : c <= issued
  BY <1>1, <1>6, HoldersAre
<1> QED
  BY <1>2, <1>4, <1>5, <1>6, <1>7

\* Waiters are released from the store, no others are put there.
Released ==
  /\ \A t \in Reqs : tags'[t] \in {tags[t], NoReq}
  /\ \A n \in Nodes : logins'[n] \in {logins[n], NoReq}

LEMMA StoreShrinks ==
  ASSUME IInv, Kept, Released, UNCHANGED <<tagOf, taken>>, slipped => slipped',
         \A n \in Nodes : logins'[n] # NoReq => outcome'[logins[n]] = "pending",
         ~slipped' => \A t \in Reqs : tags'[t] # NoReq => outcome'[tags[t]] = "pending"
  PROVE  HoldersKnown' /\ TagsAreOwn' /\ Awaiting' \cap Reqs \subseteq Awaiting
<1>1. HoldersKnown /\ TagsAreOwn
  BY DEF IInv
<1>2. \A t \in Reqs : tags'[t] # NoReq => tags'[t] = tags[t]
  BY DEF Released
<1>3. \A n \in Nodes : logins'[n] # NoReq => logins'[n] = logins[n]
  BY DEF Released
<1>4. /\ \A t \in Reqs : tags[t] # NoReq => kind'[tags[t]] = kind[tags[t]]
      /\ \A n \in Nodes : logins[n] # NoReq =>
           kind'[logins[n]] = kind[logins[n]] /\ node'[logins[n]] = node[logins[n]]
  BY AllIssued DEF Kept
<1>5. HoldersKnown'
  BY <1>1, <1>2, <1>3, <1>4 DEF HoldersKnown
<1>6. TagsAreOwn'
  <2> SUFFICES ASSUME ~slipped', NEW t \in Reqs, tags'[t] # NoReq
               PROVE  /\ tags'[t] = t /\ outcome'[t] = "pending"
                      /\ kind'[t] = "tagged" => t \in taken'
    BY DEF TagsAreOwn
  <2>1. tags'[t] = tags[t] /\ tags[t] = t /\ (kind[t] = "tagged" => t \in taken)
    BY <1>1, <1>2 DEF TagsAreOwn
  <2> QED
    BY <1>4, <2>1
<1>7. Awaiting' \cap Reqs \subseteq Awaiting
  <2>1. NoReq \notin Reqs
    BY DEF NoReq, Reqs
  <2> QED
    BY <1>2, <1>3, <2>1 DEF Awaiting
<1> QED
  BY <1>5, <1>6, <1>7

LEMMA RoadStays ==
  ASSUME IInv, Kept, UNCHANGED <<inflight, taken, onAir, frames>>
  PROVE  /\ TakenInOrder' /\ FramesInOrder' /\ SentDrops'
         /\ Owed' = Owed /\ (\A w : Told(w)' = Told(w))
         /\ \A c \in Reqs : c <= issued /\ Alive(c) => Alive(c)'
<1>1. Owed' = Owed /\ (\A w : Told(w)' = Told(w))
  BY ToldStays DEF Owed
<1>2. TakenInOrder' /\ FramesInOrder'
  BY DEF IInv, TakenInOrder, FramesInOrder
<1>3. /\ \A i \in DOMAIN frames : kind'[frames[i][2]] = kind[frames[i][2]]
      /\ \A c \in onAir : kind'[c] = kind[c]
      /\ \A c \in Told({"sent"}) : kind'[c] = kind[c]
  BY AllIssued DEF Kept
<1>4. SentDrops'
  BY <1>3 DEF IInv, SentDrops
<1>5. \A c \in Reqs : c <= issued /\ Alive(c) => Alive(c)'
  BY <1>1, <1>3 DEF Alive, Kept
<1> QED
  BY <1>1, <1>2, <1>4, <1>5

LEMMA PastStay ==
  ASSUME IInv, Kept, UNCHANGED <<inflight, taken, onAir, frames, meshRequestSlot, cut>>,
         slipped => slipped', Awaiting' \cap Reqs \subseteq Awaiting,
         \A c \in Reqs : outcome'[c] = "displaced" => outcome[c] = "displaced"
  PROVE  OneIsPast' /\ PastAreAlive' /\ DisplacedIsPast'
<1>1. /\ Owed' = Owed /\ (\A w : Told(w)' = Told(w))
      /\ \A c \in Reqs : c <= issued /\ Alive(c) => Alive(c)'
  BY RoadStays
<1>2. \A c \in Awaiting \cap Reqs : c <= issued /\ kind'[c] = kind[c]
  BY AllIssued DEF Kept
<1>3. OneIsPast'
  BY <1>1, <1>2 DEF IInv, OneIsPast
<1>4. PastAreAlive'
  <2>1. \A c \in Told({"sent"}) : c \in Reqs /\ c <= issued /\ kind'[c] = kind[c]
    BY AllIssued DEF Kept
  <2> SUFFICES ASSUME ~slipped', NEW c \in Reqs,
                      \/ c \in Awaiting' /\ c \notin Owed'
                      \/ c \in Told({"sent"})' /\ kind'[c] # "status"
               PROVE  Alive(c)'
    BY DEF PastAreAlive
  <2>2. \/ c \in Awaiting /\ c \notin Owed
        \/ c \in Told({"sent"}) /\ kind[c] # "status"
    BY <1>1, <2>1
  <2>3. Alive(c)
    BY <2>2 DEF IInv, PastAreAlive
  <2>4. c <= issued
    BY <1>2, <2>1, <2>2
  <2> QED
    BY <1>1, <2>3, <2>4
<1>5. DisplacedIsPast'
  BY <1>1 DEF IInv, DisplacedIsPast
<1> QED
  BY <1>3, <1>4, <1>5

\* Logins are released, and none succeeds.
LEMMA LinkStays ==
  ASSUME IInv, Kept, Released, UNCHANGED <<cut, stray>>, writing' \subseteq writing,
         \A n \in Nodes :
           sessions'[n] \in {sessions[n], NoReq} \/ stray \/ sessions'[n] > cut,
         \A c \in writing : kind[c] = "login" /\ outcome'[c] = "ok" => outcome[c] = "ok"
  PROVE  LoginsOfLink' /\ SessionsEndWithLink'
<1>1. \A n \in Nodes : logins'[n] # NoReq => logins'[n] = logins[n]
  BY DEF Released
<1>2. \A c \in writing : kind'[c] = kind[c]
  BY AllIssued DEF Kept
<1>3. LoginsOfLink'
  BY <1>1, <1>2 DEF IInv, LoginsOfLink
<1>4. SessionsEndWithLink'
  BY DEF IInv, SessionsEndWithLink
<1> QED
  BY <1>3, <1>4

LEMMA OwnStays ==
  ASSUME IInv, Kept, Released, mixed => mixed',
         inflight' \subseteq inflight, onAir' \subseteq onAir,
         Told({"reply", "loginFail"})' \subseteq Told({"reply", "loginFail"})
  PROVE  LoginsAreOwn'
<1> SUFFICES ASSUME ~mixed', NEW c \in inflight' \cup onAir' \cup Told({"reply", "loginFail"})',
                    kind'[c] = "login"
             PROVE  logins'[node'[c]] \in {NoReq, c}
  BY DEF LoginsAreOwn
<1>1. c \in inflight \cup onAir \cup Told({"reply", "loginFail"}) /\ ~mixed
  OBVIOUS
<1>2. c \in Reqs /\ c <= issued
  BY <1>1, AllIssued
<1>3. kind'[c] = kind[c] /\ node'[c] = node[c]
  BY <1>2 DEF Kept
<1>4. node[c] \in Nodes
  BY <1>2 DEF IInv, Stamped
<1>5. logins[node[c]] \in {NoReq, c}
  BY <1>1, <1>3 DEF IInv, LoginsAreOwn
<1> QED
  BY <1>3, <1>4, <1>5 DEF Released

\* Where those still pending wait, if nothing is taken from them.
LEMMA WaitsStay ==
  ASSUME IInv, Kept, Released, UNCHANGED tagOf,
         \A c \in Reqs : outcome'[c] = "pending" =>
           /\ outcome[c] = "pending"
           /\ kind[c] = "tagged" /\ c \in adminSentQueue => c \in adminSentQueue'
           /\ kind[c] = "status" /\ c \in writing => c \in writing'
           /\ \A t \in Reqs : tags[t] = c => tags'[t] = c
           /\ \A n \in Nodes : logins[n] = c => logins'[n] = c
  PROVE  Waits'
<1> SUFFICES ASSUME NEW c \in Reqs, outcome'[c] = "pending"
             PROVE  \/ kind'[c] = "tagged" /\ c \in adminSentQueue'
                    \/ kind'[c] = "tagged" /\ tagOf'[c] # NoReq /\ tags'[tagOf'[c]] = c
                    \/ kind'[c] = "status" /\ c \in writing'
                    \/ kind'[c] = "login" /\ logins'[node'[c]] = c
                    \/ kind'[c] = "trace" /\ tags'[c] = c
  BY DEF Waits
<1>1. /\ outcome[c] = "pending"
      /\ kind[c] = "tagged" /\ c \in adminSentQueue => c \in adminSentQueue'
      /\ kind[c] = "status" /\ c \in writing => c \in writing'
      /\ \A t \in Reqs : tags[t] = c => tags'[t] = c
      /\ \A n \in Nodes : logins[n] = c => logins'[n] = c
  OBVIOUS
<1>2. c <= issued
  BY <1>1, OutcomesAre DEF IInv, TypeOK, Stamped
<1>3. kind'[c] = kind[c] /\ node'[c] = node[c] /\ node[c] \in Nodes
      /\ tagOf[c] \in Reqs \cup {NoReq}
  BY <1>2 DEF Kept, IInv, Stamped, TypeOK
<1> QED
  BY <1>1, <1>3 DEF IInv, Waits

-----------------------------------------------------------------------------
(* Calls on a closed link, writes, aborts and logouts.                     *)

LEMMA IssueClosedKeeps ==
  ASSUME IInv, NEW k \in Kinds, NEW n \in Nodes, IssueClosed(k, n)
  PROVE  IInv'
<1> DEFINE c == issued + 1
<1>1. /\ issued \in Nat /\ c \in Reqs /\ issued' = c /\ c > issued /\ c # NoReq
      /\ kind' = [kind EXCEPT ![c] = k] /\ node' = [node EXCEPT ![c] = n]
      /\ UNCHANGED <<writing, adminSentQueue, meshRequestSlot, tagOf, tags, sessions, inflight,
                     taken, onAir, frames, linkUp, connected, slipped, mixed, cut, stray>>
  BY RequestsAssumption DEF IInv, TypeOK, IssueClosed, Reqs, link, NoReq, radio, history
<1>2. \/ /\ k = "login"
         /\ logins' = [logins EXCEPT ![n] = NoReq]
         /\ outcome' = [Settle({logins[n]}, "replaced", outcome) EXCEPT ![c] = "writeFailed"]
      \/ /\ k # "login"
         /\ outcome' = [outcome EXCEPT ![c] = "writeFailed"]
         /\ UNCHANGED logins
  BY DEF IssueClosed
<1> HIDE DEF c
<1>3. TypeOK /\ Stamped /\ HoldersKnown /\ QueueIsBehind /\ SlotsMatchAnswers
  BY DEF IInv
<1>4. outcome[c] = "none" /\ kind[c] = "none"
  BY <1>1, <1>3, OutcomesAre DEF Stamped, TypeOK, Reqs
<1>5. /\ kind'[c] = k /\ node'[c] = n /\ k # "none"
      /\ \A d \in Reqs : d # c => kind'[d] = kind[d] /\ node'[d] = node[d]
  BY <1>1, <1>3 DEF TypeOK, Kinds
<1>6. \A d \in Reqs : d <= issued => d # c
  BY <1>1 DEF Reqs
<1>7. Kept
  BY <1>5, <1>6 DEF Kept
<1>8. Released
  BY <1>1, <1>2, <1>3 DEF Released, TypeOK
<1>9. /\ outcome'[c] = "writeFailed"
      /\ \A d \in Reqs : d # c => \/ outcome'[d] = outcome[d]
                                  \/ /\ outcome[d] = "pending" /\ outcome'[d] = "replaced"
                                     /\ k = "login" /\ d = logins[n]
      /\ \A d \in Reqs : k = "login" /\ d = logins[n] => outcome'[d] # "pending"
  <2>1. CASE k = "login"
    <3>1. /\ outcome'[c] = "writeFailed"
          /\ \A d \in Reqs : d # c => outcome'[d] =
               IF d \in {logins[n]} /\ outcome[d] = "pending" THEN "replaced" ELSE outcome[d]
      BY <1>1, <1>2, <2>1 DEF Settle
    <3> QED
      BY <2>1, <3>1
  <2>2. CASE k # "login"
    BY <1>1, <1>2, <1>3, <2>2 DEF TypeOK
  <2> QED
    BY <2>1, <2>2
<1>10. TypeOK'
  <2>1. outcome' \in [Reqs -> Outcomes]
    <3>1. outcome \in [Reqs -> Outcomes] /\ {"writeFailed", "replaced"} \subseteq Outcomes
      BY <1>3 DEF TypeOK, Outcomes
    <3>2. Settle({logins[n]}, "replaced", outcome) \in [Reqs -> Outcomes]
      BY <3>1 DEF Settle
    <3> QED
      BY <1>1, <1>2, <3>1, <3>2
  <2>2. ASSUME NEW d \in Reqs PROVE outcome'[d] \in OutcomesOf(kind'[d])
    <3>1. CASE d = c
      BY <1>5, <1>9, <3>1, OutcomesAre
    <3>2. CASE d # c /\ outcome'[d] = outcome[d]
      BY <1>3, <1>5, <3>2 DEF TypeOK
    <3>3. CASE d # c /\ outcome'[d] = "replaced" /\ d = logins[n]
      <4>1. kind[d] = "login"
        BY <1>3, <3>3, HoldersAre
      <4> QED
        BY <1>5, <3>3, <4>1, OutcomesAre DEF Outcomes
    <3> QED
      BY <1>9, <3>1, <3>2, <3>3
  <2>3. /\ kind' \in [Reqs -> Kinds \cup {"none"}] /\ node' \in [Reqs -> Nodes \cup {"none"}]
        /\ logins' \in [Nodes -> Reqs \cup {NoReq}] /\ issued' \in 0..MaxReqs
    BY <1>1, <1>2, <1>3, SMTT(30) DEF TypeOK, Reqs
  <2> QED
    BY <1>1, <1>3, <2>1, <2>2, <2>3 DEF TypeOK
<1>11. Stamped'
  <2>1. \A d \in Reqs : IF d <= issued' THEN kind'[d] # "none" /\ node'[d] \in Nodes
                                        ELSE kind'[d] = "none" /\ tagOf'[d] = NoReq
    <3> TAKE d \in Reqs
    <3>1. CASE d = c
      BY <1>1, <1>5, <3>1 DEF Reqs
    <3>2. CASE d # c
      BY <1>1, <1>3, <1>5, <3>2 DEF Stamped, Reqs, c
    <3> QED
      BY <3>1, <3>2
  <2>2. \A d \in (writing \cup adminSentQueue \cup inflight \cup taken)' : d <= issued'
    BY <1>1, <1>3, AllIssued DEF Reqs
  <2>3. meshRequestSlot' <= issued' /\ cut' <= issued' /\ \A m \in Nodes : sessions'[m] <= issued'
    BY <1>1, <1>3 DEF Stamped, TypeOK, Reqs, NoReq
  <2> QED
    BY <2>1, <2>2, <2>3 DEF Stamped
<1>12. HoldersKnown' /\ TagsAreOwn' /\ Awaiting' \cap Reqs \subseteq Awaiting
  <2>1. ASSUME NEW m \in Nodes, logins'[m] # NoReq PROVE outcome'[logins[m]] = "pending"
    <3>1. logins'[m] = logins[m] /\ logins[m] # NoReq
      BY <1>8, <2>1 DEF Released
    <3>2. /\ logins[m] \in Reqs /\ outcome[logins[m]] = "pending" /\ node[logins[m]] = m
          /\ kind[logins[m]] = "login"
      BY <1>3, <3>1, HoldersAre DEF HoldersKnown
    <3>3. logins[m] # c
      BY <1>4, <3>2
    <3>4. k = "login" => logins[m] # logins[n] \/ outcome[logins[m]] # "pending"
      <4>1. k = "login" => logins'[n] = NoReq
        BY <1>2, <1>3 DEF TypeOK
      <4> QED
        BY <1>3, <2>1, <3>1, <3>2, <4>1 DEF HoldersKnown
    <3> QED
      BY <1>9, <3>2, <3>3, <3>4
  <2>2. ASSUME ~slipped', NEW t \in Reqs, tags'[t] # NoReq PROVE outcome'[tags[t]] = "pending"
    <3>1. tags[t] = t /\ outcome[t] = "pending" /\ tags[t] # NoReq
      BY <1>1, <2>2 DEF IInv, TagsAreOwn
    <3>2. kind[t] \in {"tagged", "trace"}
      BY <1>3, <3>1, HoldersAre
    <3>3. k = "login" => logins[n] # t
      BY <1>3, <3>2, HoldersAre
    <3> QED
      BY <1>4, <1>9, <3>1, <3>3
  <2> QED
    BY <1>1, <1>7, <1>8, <2>1, <2>2, StoreShrinks
<1>13. \A d \in Reqs : outcome'[d] = "displaced" => outcome[d] = "displaced"
  BY <1>9
<1>14. TakenInOrder' /\ FramesInOrder' /\ SentDrops' /\ Owed' = Owed
  BY <1>1, <1>7, RoadStays
<1>15. OneIsPast' /\ PastAreAlive' /\ DisplacedIsPast'
  BY <1>1, <1>7, <1>12, <1>13, PastStay
<1>16. LoginsOfLink' /\ SessionsEndWithLink'
  <2>1. \A d \in writing : kind[d] = "login" /\ outcome'[d] = "ok" => outcome[d] = "ok"
    BY <1>9, AllIssued
  <2> QED
    BY <1>1, <1>7, <1>8, <2>1, LinkStays
<1>17. LoginsAreOwn'
  BY <1>1, <1>7, <1>8, ToldStays, OwnStays
<1>18. Waits'
  <2>1. ASSUME NEW d \in Reqs, outcome'[d] = "pending"
        PROVE  /\ outcome[d] = "pending"
               /\ \A m \in Nodes : logins[m] = d => logins'[m] = d
    <3>1. d # c /\ outcome[d] = "pending" /\ (k = "login" => d # logins[n])
      BY <1>9, <2>1
    <3>2. \A m \in Nodes : logins[m] = d => logins'[m] = d
      BY <1>2, <1>3, <3>1 DEF TypeOK
    <3> QED
      BY <3>1, <3>2
  <2> QED
    BY <1>1, <1>7, <1>8, <2>1, WaitsStay
<1>19. QueueIsBehind' /\ SlotsMatchAnswers'
  BY <1>1, <1>3, <1>14 DEF QueueIsBehind, SlotsMatchAnswers
<1> QED
  BY <1>10, <1>11, <1>12, <1>14, <1>15, <1>16, <1>17, <1>18, <1>19 DEF IInv

\* A step that leaves the requests and the road alone: the rest it shows itself.
LEMMA LocalStep ==
  ASSUME IInv, TypeOK', Released, slipped => slipped', mixed' = mixed,
         UNCHANGED <<issued, kind, node, meshRequestSlot, tagOf, inflight, taken, onAir, frames,
                     cut, stray>>,
         writing' \subseteq writing, adminSentQueue' \subseteq adminSentQueue,
         \A n \in Nodes :
           \/ sessions'[n] \in {sessions[n], NoReq}
           \/ sessions'[n] <= issued /\ (stray \/ sessions'[n] > cut),
         ~slipped' => adminSentQueue' = Owed,
         \A c \in Reqs : outcome'[c] # outcome[c] =>
           /\ outcome[c] = "pending" /\ outcome'[c] \notin {"pending", "displaced"}
           /\ kind[c] = "login" => outcome'[c] # "ok",
         \A n \in Nodes : logins'[n] # NoReq => outcome'[logins[n]] = outcome[logins[n]],
         ~slipped' => \A t \in Reqs : tags'[t] # NoReq => outcome'[tags[t]] = outcome[tags[t]],
         \A c \in Reqs : outcome'[c] = "pending" =>
           /\ kind[c] = "tagged" /\ c \in adminSentQueue => c \in adminSentQueue'
           /\ kind[c] = "status" /\ c \in writing => c \in writing'
           /\ \A t \in Reqs : tags[t] = c => tags'[t] = c
           /\ \A n \in Nodes : logins[n] = c => logins'[n] = c
  PROVE  IInv'
<1>1. Kept
  BY DEF Kept
<1>2. TakenInOrder' /\ FramesInOrder' /\ SentDrops' /\ Owed' = Owed /\ (\A w : Told(w)' = Told(w))
  BY <1>1, RoadStays
<1>3. /\ \A n \in Nodes : logins'[n] # NoReq => outcome'[logins[n]] = "pending"
      /\ ~slipped' => \A t \in Reqs : tags'[t] # NoReq => outcome'[tags[t]] = "pending"
  BY DEF IInv, HoldersKnown, TagsAreOwn, Released
<1>4. HoldersKnown' /\ TagsAreOwn' /\ Awaiting' \cap Reqs \subseteq Awaiting
  BY <1>1, <1>3, StoreShrinks
<1>5. \A c \in Reqs : outcome'[c] = "displaced" => outcome[c] = "displaced"
  OBVIOUS
<1>6. OneIsPast' /\ PastAreAlive' /\ DisplacedIsPast'
  BY <1>1, <1>4, <1>5, PastStay
<1>7. \A c \in writing : kind[c] = "login" /\ outcome'[c] = "ok" => outcome[c] = "ok"
  BY AllIssued
<1>8. LoginsOfLink' /\ SessionsEndWithLink'
  BY <1>1, <1>7, LinkStays
<1>9. LoginsAreOwn'
  BY <1>1, <1>2, OwnStays
<1>10. Waits'
  BY <1>1, WaitsStay
<1>11. QueueIsBehind' /\ SlotsMatchAnswers'
  BY <1>2 DEF IInv, QueueIsBehind, SlotsMatchAnswers
<1>12. Stamped'
  <2>1. \A n \in Nodes : sessions'[n] <= issued'
    BY DEF IInv, Stamped, NoReq, TypeOK
  <2> QED
    BY <2>1 DEF IInv, Stamped
<1> QED
  BY <1>2, <1>4, <1>6, <1>8, <1>9, <1>10, <1>11, <1>12 DEF IInv

LEMMA AbortKeeps ==
  ASSUME IInv, NEW c \in Reqs, Abort(c)
  PROVE  IInv'
<1>1. /\ kind[c] = "tagged" /\ outcome[c] = "pending"
      /\ outcome' = [outcome EXCEPT ![c] = "aborted"]
      /\ tags' = [t \in Reqs |-> IF t = tagOf[c] THEN NoReq ELSE tags[t]]
      /\ UNCHANGED <<issued, kind, node, writing, adminSentQueue, meshRequestSlot, tagOf, logins,
                     sessions, inflight, taken, onAir, frames, linkUp, connected, slipped, mixed,
                     cut, stray>>
  BY DEF Abort, radio, link, history
<1>2. TypeOK /\ HoldersKnown /\ SlotsMatchAnswers /\ Waits /\ QueueIsBehind
  BY DEF IInv
<1>3. TypeOK'
  <2>1. outcome' \in [Reqs -> Outcomes]
    BY <1>1, <1>2 DEF TypeOK, Outcomes
  <2>2. \A d \in Reqs : outcome'[d] \in OutcomesOf(kind[d])
    BY <1>1, <1>2, OutcomesAre DEF TypeOK, Outcomes
  <2>3. tags' \in [Reqs -> Reqs \cup {NoReq}]
    BY <1>1, <1>2 DEF TypeOK
  <2> QED
    BY <1>1, <1>2, <2>1, <2>2, <2>3 DEF TypeOK
<1>4. outcome'[c] = "aborted" /\ \A d \in Reqs : d # c => outcome'[d] = outcome[d]
  BY <1>1, <1>2 DEF TypeOK
<1>5. \A t \in Reqs : tags'[t] = IF t = tagOf[c] THEN NoReq ELSE tags[t]
  BY <1>1
<1>6. Released
  BY <1>1, <1>5 DEF Released
<1>7. \A t \in Reqs : tags[t] = c => tagOf[c] = t
  BY <1>1, <1>2, HoldersAre DEF HoldersKnown
<1>8. \A n \in Nodes : logins[n] # c
  BY <1>1, <1>2, HoldersAre
<1>9. \A t \in Reqs : tags'[t] # NoReq => outcome'[tags[t]] = outcome[tags[t]]
  BY <1>2, <1>4, <1>5, <1>7, HoldersAre
<1>10. \A n \in Nodes : logins'[n] # NoReq => outcome'[logins[n]] = outcome[logins[n]]
  BY <1>1, <1>2, <1>4, <1>8, HoldersAre
<1>11. ASSUME NEW d \in Reqs, outcome'[d] = "pending", NEW t \in Reqs, tags[t] = d
       PROVE  tags'[t] = d
  <2>1. d # c /\ outcome[d] = "pending"
    BY <1>4, <1>11
  <2>2. CASE t = tagOf[c]
    <3>1. t # NoReq
      BY <1>2, HoldersAre
    <3>2. c \notin adminSentQueue
      BY <1>2, <2>2, <3>1 DEF QueueIsBehind
    <3>3. tags[tagOf[c]] = c
      BY <1>1, <1>2, <3>2 DEF Waits
    <3> QED
      BY <1>11, <2>1, <2>2, <3>3
  <2>3. CASE t # tagOf[c]
    BY <1>5, <1>11, <2>3
  <2> QED
    BY <2>2, <2>3
<1>12. ~slipped' => adminSentQueue' = Owed
  BY <1>1, <1>2 DEF SlotsMatchAnswers
<1>13. \A d \in Reqs : outcome'[d] # outcome[d] =>
         /\ outcome[d] = "pending" /\ outcome'[d] \notin {"pending", "displaced"}
         /\ kind[d] = "login" => outcome'[d] # "ok"
  BY <1>1, <1>4
<1> QED
  BY <1>1, <1>3, <1>6, <1>9, <1>10, <1>11, <1>12, <1>13, LocalStep

LEMMA LogoutKeeps ==
  ASSUME IInv, NEW n \in Nodes, Logout(n)
  PROVE  IInv'
<1>1. /\ sessions' = [sessions EXCEPT ![n] = NoReq]
      /\ UNCHANGED <<issued, kind, node, outcome, writing, adminSentQueue, meshRequestSlot,
                     tagOf, tags, logins, inflight, taken, onAir, frames, linkUp, connected,
                     slipped, mixed, cut, stray>>
  BY DEF Logout, radio, link, history, store
<1>2. TypeOK /\ SlotsMatchAnswers
  BY DEF IInv
<1>3. TypeOK'
  BY <1>1, <1>2 DEF TypeOK
<1>4. \A m \in Nodes : sessions'[m] \in {sessions[m], NoReq}
  BY <1>1, <1>2 DEF TypeOK
<1>5. Released
  BY <1>1 DEF Released
<1>6. ~slipped' => adminSentQueue' = Owed
  BY <1>1, <1>2 DEF SlotsMatchAnswers
<1> QED
  BY <1>1, <1>3, <1>4, <1>5, <1>6, LocalStep

LEMMA ConnectKeeps ==
  ASSUME IInv, Connect
  PROVE  IInv'
<1>1. /\ linkUp' = TRUE /\ connected' = TRUE
      /\ UNCHANGED <<issued, kind, node, outcome, writing, adminSentQueue, meshRequestSlot,
                     tagOf, tags, logins, sessions, inflight, taken, onAir, frames,
                     slipped, mixed, cut, stray>>
  BY DEF Connect, radio, history, store
<1>2. TypeOK /\ SlotsMatchAnswers
  BY DEF IInv
<1>3. TypeOK'
  <2>1. linkUp' \in BOOLEAN /\ connected' \in BOOLEAN
    BY <1>1
  <2> QED
    BY <1>1, <1>2, <2>1 DEF TypeOK
<1>4. Released
  BY <1>1 DEF Released
<1>5. ~slipped' => adminSentQueue' = Owed
  BY <1>1, <1>2 DEF SlotsMatchAnswers
<1> QED
  BY <1>1, <1>3, <1>4, <1>5, LocalStep

-----------------------------------------------------------------------------
(* Timers.                                                                 *)

LEMMA SentTimerKeeps ==
  ASSUME IInv, NEW c \in Reqs, SentTimerFires(c)
  PROVE  IInv'
<1>1. /\ c \in adminSentQueue
      /\ adminSentQueue' = adminSentQueue \ {c}
      /\ outcome' = Settle({d \in {c} : kind[d] = "tagged"}, "timedOut", outcome)
      /\ slipped' = (slipped \/ c \in Owed)
      /\ UNCHANGED <<issued, kind, node, writing, meshRequestSlot, tagOf, tags, logins,
                     sessions, inflight, taken, onAir, frames, linkUp, connected, mixed, cut,
                     stray>>
  BY DEF SentTimerFires, radio, link, store
<1>2. TypeOK /\ HoldersKnown /\ SlotsMatchAnswers /\ QueueIsBehind
  BY DEF IInv
<1>3. slipped' = TRUE /\ slipped' \in BOOLEAN
  BY <1>1, <1>2 DEF SlotsMatchAnswers
<1>4. \A d \in Reqs : outcome'[d] =
        IF d = c /\ kind[c] = "tagged" /\ outcome[c] = "pending" THEN "timedOut" ELSE outcome[d]
  BY <1>1, SettleIs
<1>5. TypeOK'
  <2>1. "timedOut" \in Outcomes
    BY DEF Outcomes
  <2>2. \A d \in {e \in {c} : kind[e] = "tagged"} : "timedOut" \in OutcomesOf(kind[d])
    BY <2>1, OutcomesAre
  <2>3. /\ outcome' \in [Reqs -> Outcomes]
        /\ \A d \in Reqs : outcome'[d] \in OutcomesOf(kind[d])
    BY <1>1, <1>2, <2>1, <2>2, SettledType
  <2> QED
    BY <1>1, <1>2, <1>3, <2>3 DEF TypeOK
<1>6. Released
  BY <1>1 DEF Released
<1>7. \A n \in Nodes : logins'[n] # NoReq => outcome'[logins[n]] = outcome[logins[n]]
  BY <1>1, <1>2, <1>4, HoldersAre
<1>8. \A d \in Reqs : outcome'[d] # outcome[d] =>
         /\ outcome[d] = "pending" /\ outcome'[d] \notin {"pending", "displaced"}
         /\ kind[d] = "login" => outcome'[d] # "ok"
  BY <1>4
<1>9. \A d \in Reqs : outcome'[d] = "pending" /\ kind[d] = "tagged" /\ d \in adminSentQueue
        => d \in adminSentQueue'
  BY <1>1, <1>4
<1> QED
  BY <1>1, <1>3, <1>5, <1>6, <1>7, <1>8, <1>9, LocalStep

LEMMA TagTimerKeeps ==
  ASSUME IInv, NEW t \in Reqs, TagTimerFires(t)
  PROVE  IInv'
<1>1. /\ tags[t] # NoReq
      /\ tags' = [tags EXCEPT ![t] = NoReq]
      /\ outcome' = Settle({tags[t]}, "timedOut", outcome)
      /\ UNCHANGED <<issued, kind, node, writing, adminSentQueue, meshRequestSlot, tagOf, logins,
                     sessions, inflight, taken, onAir, frames, linkUp, connected, slipped, mixed,
                     cut, stray>>
  BY DEF TagTimerFires, radio, link, history
<1>2. TypeOK /\ HoldersKnown /\ SlotsMatchAnswers
  BY DEF IInv
<1>3. tags[t] \in Reqs /\ kind[tags[t]] \in {"tagged", "trace"}
  BY <1>1, <1>2, HoldersAre
<1>4. \A d \in Reqs : outcome'[d] =
        IF d = tags[t] /\ outcome[d] = "pending" THEN "timedOut" ELSE outcome[d]
  BY <1>1, SettleIs
<1>5. \A u \in Reqs : tags'[u] = IF u = t THEN NoReq ELSE tags[u]
  BY <1>1, <1>2 DEF TypeOK
<1>6. TypeOK'
  <2>1. "timedOut" \in Outcomes
    BY DEF Outcomes
  <2>2. \A d \in {tags[t]} : "timedOut" \in OutcomesOf(kind[d])
    BY <1>3, <2>1, OutcomesAre
  <2>3. /\ outcome' \in [Reqs -> Outcomes]
        /\ \A d \in Reqs : outcome'[d] \in OutcomesOf(kind[d])
    BY <1>1, <1>2, <2>1, <2>2, SettledType
  <2>4. tags' \in [Reqs -> Reqs \cup {NoReq}]
    BY <1>1, <1>2 DEF TypeOK
  <2> QED
    BY <1>1, <1>2, <2>3, <2>4 DEF TypeOK
<1>7. Released
  BY <1>1, <1>5 DEF Released
<1>8. \A n \in Nodes : logins'[n] # NoReq => outcome'[logins[n]] = outcome[logins[n]]
  BY <1>1, <1>2, <1>3, <1>4, HoldersAre
<1>9. \A u \in Reqs : tags'[u] # NoReq => outcome'[tags[u]] = outcome[tags[u]]
  <2> SUFFICES ASSUME NEW u \in Reqs, u # t, tags[u] # NoReq
               PROVE  tags[u] # tags[t] /\ tags[u] \in Reqs
    BY <1>4, <1>5
  <2> QED
    BY <1>1, <1>2, HoldersAre DEF HoldersKnown
<1>10. \A d \in Reqs : outcome'[d] # outcome[d] =>
         /\ outcome[d] = "pending" /\ outcome'[d] \notin {"pending", "displaced"}
         /\ kind[d] = "login" => outcome'[d] # "ok"
  BY <1>4
<1>11. \A d \in Reqs : outcome'[d] = "pending" => \A u \in Reqs : tags[u] = d => tags'[u] = d
  BY <1>4, <1>5
<1>12. ~slipped' => adminSentQueue' = Owed
  BY <1>1, <1>2 DEF SlotsMatchAnswers
<1> QED
  BY <1>1, <1>6, <1>7, <1>8, <1>9, <1>10, <1>11, <1>12, LocalStep

LEMMA LoginTimerKeeps ==
  ASSUME IInv, NEW n \in Nodes, LoginTimerFires(n)
  PROVE  IInv'
<1>1. /\ logins[n] # NoReq
      /\ logins' = [logins EXCEPT ![n] = NoReq]
      /\ outcome' = Settle({logins[n]}, "timedOut", outcome)
      /\ UNCHANGED <<issued, kind, node, writing, adminSentQueue, meshRequestSlot, tagOf, tags,
                     sessions, inflight, taken, onAir, frames, linkUp, connected, slipped, mixed,
                     cut, stray>>
  BY DEF LoginTimerFires, radio, link, history
<1>2. TypeOK /\ HoldersKnown /\ SlotsMatchAnswers
  BY DEF IInv
<1>3. logins[n] \in Reqs /\ kind[logins[n]] = "login"
  BY <1>1, <1>2, HoldersAre
<1>4. \A d \in Reqs : outcome'[d] =
        IF d = logins[n] /\ outcome[d] = "pending" THEN "timedOut" ELSE outcome[d]
  BY <1>1, SettleIs
<1>5. \A m \in Nodes : logins'[m] = IF m = n THEN NoReq ELSE logins[m]
  BY <1>1, <1>2 DEF TypeOK
<1>6. TypeOK'
  <2>1. "timedOut" \in Outcomes
    BY DEF Outcomes
  <2>2. \A d \in {logins[n]} : "timedOut" \in OutcomesOf(kind[d])
    BY <1>3, <2>1, OutcomesAre
  <2>3. /\ outcome' \in [Reqs -> Outcomes]
        /\ \A d \in Reqs : outcome'[d] \in OutcomesOf(kind[d])
    BY <1>1, <1>2, <2>1, <2>2, SettledType
  <2>4. logins' \in [Nodes -> Reqs \cup {NoReq}]
    BY <1>1, <1>2 DEF TypeOK
  <2> QED
    BY <1>1, <1>2, <2>3, <2>4 DEF TypeOK
<1>7. Released
  BY <1>1, <1>5 DEF Released
<1>8. \A m \in Nodes : logins'[m] # NoReq => outcome'[logins[m]] = outcome[logins[m]]
  <2> SUFFICES ASSUME NEW m \in Nodes, m # n, logins[m] # NoReq
               PROVE  logins[m] # logins[n] /\ logins[m] \in Reqs
    BY <1>4, <1>5
  <2> QED
    BY <1>1, <1>2, HoldersAre DEF HoldersKnown
<1>9. \A u \in Reqs : tags'[u] # NoReq => outcome'[tags[u]] = outcome[tags[u]]
  BY <1>1, <1>2, <1>3, <1>4, HoldersAre
<1>10. \A d \in Reqs : outcome'[d] # outcome[d] =>
         /\ outcome[d] = "pending" /\ outcome'[d] \notin {"pending", "displaced"}
         /\ kind[d] = "login" => outcome'[d] # "ok"
  BY <1>4
<1>11. \A d \in Reqs : outcome'[d] = "pending" => \A m \in Nodes : logins[m] = d => logins'[m] = d
  BY <1>4, <1>5
<1>12. ~slipped' => adminSentQueue' = Owed
  BY <1>1, <1>2 DEF SlotsMatchAnswers
<1> QED
  BY <1>1, <1>6, <1>7, <1>8, <1>9, <1>10, <1>11, <1>12, LocalStep

-----------------------------------------------------------------------------
(* Writes settle.                                                          *)

LEMMA WrittenKeeps ==
  ASSUME IInv, NEW c \in Reqs, Written(c)
  PROVE  IInv'
<1>1. /\ c \in writing /\ writing' = writing \ {c}
      /\ outcome' = Settle({d \in {c} : kind[d] = "status"}, "ok", outcome)
      /\ sessions' = [n \in Nodes |->
           IF kind[c] = "login" /\ outcome[c] = "ok" /\ node[c] = n THEN c ELSE sessions[n]]
      /\ UNCHANGED <<issued, kind, node, adminSentQueue, meshRequestSlot, tagOf, tags, logins,
                     inflight, taken, onAir, frames, linkUp, connected, slipped, mixed,
                     cut, stray>>
  BY DEF Written, radio, link, history, store
<1>2. TypeOK /\ HoldersKnown /\ SlotsMatchAnswers /\ LoginsOfLink
  BY DEF IInv
<1>3. \A d \in Reqs : outcome'[d] =
        IF d = c /\ kind[c] = "status" /\ outcome[c] = "pending" THEN "ok" ELSE outcome[d]
  BY <1>1, SettleIs
<1>4. TypeOK'
  <2>1. "ok" \in Outcomes
    BY DEF Outcomes
  <2>2. \A d \in {e \in {c} : kind[e] = "status"} : "ok" \in OutcomesOf(kind[d])
    BY OutcomesAre
  <2>3. /\ outcome' \in [Reqs -> Outcomes]
        /\ \A d \in Reqs : outcome'[d] \in OutcomesOf(kind[d])
    BY <1>1, <1>2, <2>1, <2>2, SettledType
  <2>4. sessions' \in [Nodes -> Reqs \cup {NoReq}]
    BY <1>1, <1>2 DEF TypeOK
  <2> QED
    BY <1>1, <1>2, <2>3, <2>4 DEF TypeOK
<1>5. Released
  BY <1>1 DEF Released
<1>6. \A n \in Nodes : \/ sessions'[n] \in {sessions[n], NoReq}
                       \/ sessions'[n] <= issued /\ (stray \/ sessions'[n] > cut)
  <2>1. c <= issued
    BY <1>1, AllIssued
  <2>2. kind[c] = "login" /\ outcome[c] = "ok" => stray \/ c > cut
    BY <1>1, <1>2 DEF LoginsOfLink
  <2> QED
    BY <1>1, <2>1, <2>2
<1>7. /\ \A n \in Nodes : logins'[n] # NoReq => outcome'[logins[n]] = outcome[logins[n]]
      /\ \A t \in Reqs : tags'[t] # NoReq => outcome'[tags[t]] = outcome[tags[t]]
  BY <1>1, <1>2, <1>3, HoldersAre
<1>8. \A d \in Reqs : outcome'[d] # outcome[d] =>
         /\ outcome[d] = "pending" /\ outcome'[d] \notin {"pending", "displaced"}
         /\ kind[d] = "login" => outcome'[d] # "ok"
  BY <1>3
<1>9. \A d \in Reqs : outcome'[d] = "pending" /\ kind[d] = "status" /\ d \in writing
        => d \in writing'
  BY <1>1, <1>3
<1>10. ~slipped' => adminSentQueue' = Owed
  BY <1>1, <1>2 DEF SlotsMatchAnswers
<1> QED
  BY <1>1, <1>4, <1>5, <1>6, <1>7, <1>8, <1>9, <1>10, LocalStep

LEMMA WriteFailsKeeps ==
  ASSUME IInv, NEW c \in Reqs, WriteFails(c)
  PROVE  IInv'
<1>1. /\ c \in writing /\ c \notin taken /\ writing' = writing \ {c}
      /\ inflight' = inflight \ {c} /\ adminSentQueue' = adminSentQueue \ {c}
      /\ tags' = [tags EXCEPT ![c] = IF kind[c] = "trace" THEN NoReq ELSE @]
      /\ logins' = [n \in Nodes |-> IF logins[n] = c THEN NoReq ELSE logins[n]]
      /\ outcome' = Settle({IF kind[c] = "trace" THEN tags[c] ELSE c}, "writeFailed", outcome)
      /\ UNCHANGED <<issued, kind, node, meshRequestSlot, tagOf, sessions,
                     taken, onAir, frames, linkUp, connected, slipped, mixed, cut, stray>>
  BY DEF WriteFails, link, history
<1>2. /\ TypeOK /\ Stamped /\ TakenInOrder /\ FramesInOrder /\ HoldersKnown /\ QueueIsBehind
      /\ SlotsMatchAnswers /\ TagsAreOwn /\ SentDrops /\ OneIsPast /\ PastAreAlive
      /\ DisplacedIsPast
  BY DEF IInv
<1> DEFINE failed == IF kind[c] = "trace" THEN tags[c] ELSE c
<1>3. \A d \in Reqs : outcome'[d] =
        IF d = failed /\ outcome[d] = "pending" THEN "writeFailed" ELSE outcome[d]
  BY <1>1, SettleIs
<1>4. failed \in Reqs => kind[failed] \in Kinds /\ (kind[failed] = "login" => kind[c] = "login")
  <2>1. kind[c] # "none" /\ kind[c] \in Kinds \cup {"none"}
    BY <1>1, <1>2, AllIssued DEF Stamped, TypeOK
  <2>2. kind[c] = "trace" /\ failed \in Reqs => kind[failed] \in {"tagged", "trace"}
    BY <1>2, HoldersAre
  <2> QED
    BY <2>1, <2>2 DEF Kinds
<1>5. TypeOK'
  <2>1. "writeFailed" \in Outcomes
    BY DEF Outcomes
  <2>2. \A d \in {failed} : d \in Reqs => "writeFailed" \in OutcomesOf(kind[d])
    BY <1>4, OutcomesAre
  <2>3. /\ outcome' \in [Reqs -> Outcomes]
        /\ \A d \in Reqs : outcome'[d] \in OutcomesOf(kind[d])
    BY <1>1, <1>2, <2>1, <2>2, SettledType
  <2>4. /\ tags' \in [Reqs -> Reqs \cup {NoReq}] /\ logins' \in [Nodes -> Reqs \cup {NoReq}]
    BY <1>1, <1>2 DEF TypeOK
  <2> QED
    BY <1>1, <1>2, <2>3, <2>4 DEF TypeOK
<1>6. /\ \A t \in Reqs : tags'[t] = IF t = c /\ kind[c] = "trace" THEN NoReq ELSE tags[t]
      /\ \A n \in Nodes : logins'[n] = IF logins[n] = c THEN NoReq ELSE logins[n]
  BY <1>1, <1>2 DEF TypeOK
<1> HIDE DEF failed
<1>7. Kept /\ Released
  BY <1>1, <1>6 DEF Kept, Released
<1>8. \A n \in Nodes : logins'[n] # NoReq => outcome'[logins[n]] = "pending"
  <2> SUFFICES ASSUME NEW n \in Nodes, logins[n] # NoReq, logins[n] # c
               PROVE  outcome'[logins[n]] = "pending"
    BY <1>6
  <2>1. logins[n] \in Reqs /\ kind[logins[n]] = "login" /\ outcome[logins[n]] = "pending"
    BY <1>2, HoldersAre DEF HoldersKnown
  <2>2. logins[n] # failed
    BY <1>2, <2>1, HoldersAre DEF failed
  <2> QED
    BY <1>3, <2>1, <2>2
<1>9. ~slipped => \A t \in Reqs : tags'[t] # NoReq => outcome'[tags[t]] = "pending"
  <2> SUFFICES ASSUME ~slipped, NEW t \in Reqs, tags'[t] # NoReq
               PROVE  outcome'[tags[t]] = "pending"
    OBVIOUS
  <2>1. tags'[t] = tags[t] /\ ~(t = c /\ kind[c] = "trace")
    BY <1>6
  <2>2. tags[t] = t /\ outcome[t] = "pending" /\ (kind[t] = "tagged" => t \in taken)
    BY <1>2, <2>1 DEF TagsAreOwn
  <2>3. kind[t] \in {"tagged", "trace"}
    BY <1>2, <2>1, <2>2, HoldersAre
  <2>4. t # c
    BY <1>1, <2>1, <2>2, <2>3
  <2>5. t # failed
    <3>1. tags[c] \in {NoReq, c} /\ NoReq \notin Reqs
      BY <1>2, <2>1, HoldersAre DEF TagsAreOwn
    <3> QED
      BY <2>4, <3>1 DEF failed
  <2> QED
    BY <1>3, <2>2, <2>5
<1>10. HoldersKnown' /\ TagsAreOwn' /\ Awaiting' \cap Reqs \subseteq Awaiting
  BY <1>1, <1>7, <1>8, <1>9, StoreShrinks
<1>11. (\A w : Told(w)' = Told(w)) /\ (\A w : c \notin Told(w)) /\ Owed' = Owed \ {c}
  <2>1. \A w : Told(w)' = Told(w)
    BY <1>1, ToldStays
  <2>2. \A w : c \notin Told(w)
    BY <1>1, AllIssued
  <2> QED
    BY <1>1, <2>1, <2>2 DEF Owed
<1>12. TakenInOrder' /\ FramesInOrder' /\ SentDrops'
  <2>1. TakenInOrder'
    BY <1>1, <1>2 DEF TakenInOrder
  <2> QED
    BY <1>1, <1>2, <2>1 DEF FramesInOrder, SentDrops
<1>13. ~slipped => c \notin Awaiting'
  <2> SUFFICES ASSUME ~slipped, c \in Awaiting' PROVE FALSE
    OBVIOUS
  <2>1. \A n \in Nodes : logins'[n] # c
    BY <1>2, <1>6, HoldersAre
  <2>2. PICK t \in Reqs : tags'[t] = c
    BY <2>1 DEF Awaiting
  <2>3. tags[t] = c /\ tags[t] # NoReq
    BY <1>2, <1>6, <2>2, HoldersAre
  <2>4. t = c /\ (kind[c] = "tagged" => c \in taken)
    BY <1>2, <2>3 DEF TagsAreOwn
  <2>5. kind[c] \in {"tagged", "trace"}
    BY <1>2, <2>3, HoldersAre
  <2> QED
    BY <1>1, <1>2, <1>6, <2>2, <2>4, <2>5, HoldersAre
<1>14. OneIsPast'
  <2> SUFFICES ASSUME ~slipped, NEW d \in Awaiting' \cap Reqs, kind[d] # "trace", d \notin Owed'
               PROVE  d = meshRequestSlot
    BY <1>1 DEF OneIsPast
  <2> QED
    BY <1>2, <1>10, <1>11, <1>13 DEF OneIsPast
<1>15. PastAreAlive'
  <2>1. \A d \in Reqs : Alive(d)' = Alive(d)
    BY <1>1, <1>11 DEF Alive
  <2> SUFFICES ASSUME ~slipped, NEW d \in Reqs,
                      \/ d \in Awaiting' /\ d \notin Owed'
                      \/ d \in Told({"sent"}) /\ kind[d] # "status"
               PROVE  Alive(d)
    BY <1>1, <1>11, <2>1 DEF PastAreAlive
  <2>2. d \in Awaiting' => d \in Awaiting /\ d # c
    BY <1>10, <1>13
  <2> QED
    BY <1>2, <1>11, <2>2 DEF PastAreAlive
<1>16. DisplacedIsPast'
  BY <1>1, <1>2, <1>3, <1>11 DEF DisplacedIsPast
<1>17. LoginsOfLink' /\ SessionsEndWithLink'
  <2>1. \A d \in writing : kind[d] = "login" /\ outcome'[d] = "ok" => outcome[d] = "ok"
    BY <1>3, AllIssued
  <2> QED
    BY <1>1, <1>7, <2>1, LinkStays
<1>18. LoginsAreOwn'
  BY <1>1, <1>7, <1>11, OwnStays
<1>19. Waits'
  <2>1. ASSUME NEW d \in Reqs, outcome'[d] = "pending"
        PROVE  /\ outcome[d] = "pending"
               /\ kind[d] = "tagged" /\ d \in adminSentQueue => d \in adminSentQueue'
               /\ kind[d] = "status" /\ d \in writing => d \in writing'
               /\ \A t \in Reqs : tags[t] = d => tags'[t] = d
               /\ \A n \in Nodes : logins[n] = d => logins'[n] = d
    <3>1. outcome[d] = "pending" /\ d # failed
      BY <1>3, <2>1
    <3>2. d = c => kind[d] = "trace"
      BY <3>1 DEF failed
    <3>3. \A t \in Reqs : tags[t] = d => tags'[t] = d
      BY <1>6, <3>1 DEF failed
    <3>4. \A n \in Nodes : logins[n] = d => logins'[n] = d
      BY <1>2, <1>6, <3>2, HoldersAre
    <3> QED
      BY <1>1, <3>1, <3>2, <3>3, <3>4
  <2> QED
    BY <1>1, <1>7, <2>1, WaitsStay
<1>20. QueueIsBehind' /\ SlotsMatchAnswers'
  BY <1>1, <1>2, <1>11 DEF QueueIsBehind, SlotsMatchAnswers
<1>21. Stamped'
  BY <1>1, <1>2 DEF Stamped
<1> QED
  BY <1>5, <1>10, <1>12, <1>14, <1>15, <1>16, <1>17, <1>18, <1>19, <1>20, <1>21 DEF IInv

-----------------------------------------------------------------------------
(* The radio.                                                              *)

LEMMA RadioTakesKeeps ==
  ASSUME IInv, NEW c \in Reqs, NEW answer \in {"sent", "err", "lost"}, RadioTakes(c, answer)
  PROVE  IInv'
<1>1. /\ c \in Oldest(inflight)
      /\ inflight' = inflight \ {c} /\ taken' = taken \cup {c}
      /\ answer = "lost" => frames' = frames
      /\ answer # "lost" => frames' = Append(frames, <<answer, c>>)
      /\ answer = "err" => onAir' = onAir
      /\ answer # "err" =>
           onAir' = {c} \cup {d \in onAir : kind[c] = "trace" \/ kind[d] = "trace"}
      /\ slipped' = (slipped \/ answer = "lost")
      /\ UNCHANGED <<issued, kind, node, outcome, writing, adminSentQueue, meshRequestSlot,
                     tagOf, tags, logins, sessions, linkUp, connected, mixed, cut, stray>>
  BY DEF RadioTakes, store, link, IInv, TypeOK
<1>2. TypeOK /\ Stamped /\ TakenInOrder /\ FramesInOrder /\ SentDrops
  BY DEF IInv
<1>3. /\ c \in inflight /\ \A d \in inflight : c <= d
      /\ frames \in Seq(Frames) /\ inflight \subseteq Reqs
  BY <1>1, <1>2, OldestIs DEF TypeOK
<1>4. /\ c <= issued /\ kind[c] \in Kinds /\ \A d \in Reqs : c # d => ~(d <= c /\ c <= d)
      /\ \A d \in Reqs : d < c => c # d /\ ~(c <= d) /\ c >= d
  BY <1>2, <1>3, AllIssued DEF Stamped, TypeOK, Reqs
<1>5. \A x \in taken : x < c /\ x # c
  BY <1>2, <1>3, <1>4 DEF TakenInOrder, TypeOK
<1>6. /\ onAir \subseteq taken /\ c \notin taken /\ c \notin onAir
      /\ \A w : c \notin Told(w) /\ \A d \in Told(w) : d \in taken
      /\ \A i \in DOMAIN frames : frames[i][2] \in taken
  BY <1>2, <1>5, AllIssued DEF TakenInOrder
<1>7. answer # "lost" => <<answer, c>> \in Frames
  BY DEF Frames
<1>8. \A w : Told(w)' = IF answer # "lost" /\ answer \in w THEN Told(w) \cup {c} ELSE Told(w)
  BY <1>1, <1>3, <1>7, ToldStays, ToldAdded
<1>9. \A w : answer \notin w => Told(w)' = Told(w)
  BY <1>8
<1>10. Told({"reply", "loginFail"})' = Told({"reply", "loginFail"})
  BY <1>9
<1>11. \A d \in onAir' : d = c \/ d \in onAir
  BY <1>1
<1>12. TypeOK'
  <2>1. frames' \in Seq(Frames)
    BY <1>1, <1>3, <1>7, FrameAdded
  <2>2. onAir' \subseteq Reqs /\ taken' \subseteq Reqs /\ inflight' \subseteq Reqs
        /\ slipped' \in BOOLEAN
    BY <1>1, <1>2, <1>11 DEF TypeOK
  <2> QED
    BY <1>1, <1>2, <2>1, <2>2 DEF TypeOK
<1>13. Stamped'
  BY <1>1, <1>2, <1>4 DEF Stamped
<1> DEFINE n == Len(frames)
           f == <<answer, c>>
<1>14. answer # "lost" =>
         /\ n \in Nat /\ DOMAIN frames = 1..n /\ DOMAIN frames' = 1..(n + 1)
         /\ \A i \in 1..n : frames'[i] = frames[i]
         /\ frames'[n + 1][1] = answer /\ frames'[n + 1][2] = c
  <2> SUFFICES ASSUME answer # "lost"
               PROVE  /\ n \in Nat /\ DOMAIN frames = 1..n /\ DOMAIN frames' = 1..(n + 1)
                      /\ \A i \in 1..n : frames'[i] = frames[i]
                      /\ frames'[n + 1][1] = answer /\ frames'[n + 1][2] = c
    OBVIOUS
  <2>1. f \in Frames /\ frames' = Append(frames, f) /\ f[1] = answer /\ f[2] = c
    BY <1>1, <1>7
  <2> HIDE DEF f
  <2> QED
    BY <1>3, <2>1, FrameAdded
<1> HIDE DEF n, f
<1>15. \A i \in 1..(n + 1) : n \in Nat => (i \in 1..n \/ i = n + 1)
  OBVIOUS
<1>16. TakenInOrder'
  <2>1. onAir' \subseteq taken'
    BY <1>1, <1>6, <1>11
  <2>2. \A i \in DOMAIN frames' : frames'[i][2] \in taken'
    BY <1>1, <1>6, <1>14, <1>15
  <2>3. \A x \in taken', d \in inflight' : x < d
    <3> TAKE x \in taken', d \in inflight'
    <3>1. CASE x = c
      BY <1>1, <1>3, <3>1 DEF Reqs
    <3>2. CASE x # c
      BY <1>1, <1>2, <3>2 DEF TakenInOrder
    <3> QED
      BY <3>1, <3>2
  <2> QED
    BY <2>1, <2>2, <2>3 DEF TakenInOrder
<1>17. FramesInOrder'
  <2>1. CASE answer = "lost"
    BY <1>1, <1>2, <2>1 DEF FramesInOrder
  <2>2. CASE answer # "lost"
    <3> SUFFICES ASSUME NEW j \in 1..(n + 1), frames'[j][1] \in {"sent", "err"},
                        NEW i \in 1..(j - 1)
                 PROVE  frames'[i][2] < frames'[j][2]
      BY <1>14, <2>2 DEF FramesInOrder
    <3>1. n \in Nat /\ i \in 1..n
      BY <1>14, <2>2
    <3>2. CASE j = n + 1
      BY <1>5, <1>6, <1>14, <2>2, <3>1, <3>2
    <3>3. CASE j \in 1..n
      BY <1>2, <1>14, <2>2, <3>1, <3>3 DEF FramesInOrder
    <3> QED
      BY <1>15, <3>1, <3>2, <3>3
  <2> QED
    BY <2>1, <2>2
<1>18. SentDrops'
  <2> SUFFICES ASSUME NEW i \in DOMAIN frames', frames'[i][1] = "sent",
                      kind[frames'[i][2]] \in Claiming
               PROVE  /\ \A d \in onAir' : kind[d] # "trace" => d >= frames'[i][2]
                      /\ \A j \in DOMAIN frames' :
                           j > i /\ frames'[j][1] \in {"reply", "loginFail"}
                             /\ kind[frames'[j][2]] # "trace"
                           => frames'[j][2] >= frames'[i][2]
    BY <1>1 DEF SentDrops
  <2>1. CASE i \in DOMAIN frames /\ frames'[i] = frames[i]
    <3>1. \A d \in onAir' : kind[d] # "trace" => d >= frames'[i][2]
      <4>1. \A d \in onAir : kind[d] # "trace" => d >= frames[i][2]
        BY <1>2, <2>1 DEF SentDrops
      <4>2. c >= frames[i][2]
        BY <1>2, <1>4, <1>5, <1>6, <2>1 DEF TypeOK
      <4> QED
        BY <1>11, <2>1, <4>1, <4>2
    <3>2. ASSUME NEW j \in DOMAIN frames', j > i, frames'[j][1] \in {"reply", "loginFail"},
                 kind[frames'[j][2]] # "trace"
          PROVE  frames'[j][2] >= frames'[i][2]
      <4>1. j \in DOMAIN frames /\ frames'[j] = frames[j]
        BY <1>1, <1>14, <1>15, <3>2
      <4> QED
        BY <1>2, <2>1, <3>2, <4>1 DEF SentDrops
    <3> QED
      BY <3>1, <3>2
  <2>2. CASE answer = "sent" /\ i = n + 1
    <3>1. n \in Nat /\ \A j \in 1..(n + 1) : ~(j > n + 1)
      BY <1>14, <2>2
    <3>2. frames'[i][2] = c /\ kind[c] # "trace" /\ c >= c
      BY <1>14, <2>2 DEF Claiming, Reqs
    <3>3. \A d \in onAir' : kind[d] # "trace" => d = c
      BY <1>1, <2>2, <3>2
    <3> QED
      BY <1>14, <2>2, <3>1, <3>2, <3>3
  <2> QED
    BY <1>1, <1>14, <1>15, <2>1, <2>2
<1>19. ~slipped' => Owed' = Owed /\ ~slipped /\ answer # "lost"
  <2> SUFFICES ASSUME ~slipped' PROVE Owed' = Owed /\ ~slipped /\ answer # "lost"
    OBVIOUS
  <2>1. ~slipped /\ answer \in {"sent", "err"}
    BY <1>1
  <2>2. Told({"sent", "err"})' = Told({"sent", "err"}) \cup {c}
    BY <1>8, <2>1
  <2> QED
    BY <1>1, <1>3, <2>1, <2>2 DEF Owed
<1>20. SlotsMatchAnswers' /\ OneIsPast'
  BY <1>1, <1>19 DEF IInv, SlotsMatchAnswers, OneIsPast, Awaiting
<1>21. TagsAreOwn'
  BY <1>1 DEF IInv, TagsAreOwn
<1>22. ASSUME ~slipped', NEW d \in Reqs, Alive(d) PROVE Alive(d)'
  <2>1. \A w : Told(w) \subseteq Told(w)'
    BY <1>8
  <2>2. CASE d \in onAir /\ d \notin onAir'
    <3>1. answer = "sent" /\ kind[c] # "trace" /\ kind[d] # "trace"
      BY <1>1, <1>19, <1>22, <2>2
    <3>2. c \in Told({"sent"})' /\ kind[c] \in Claiming
      BY <1>4, <1>8, <3>1 DEF Claiming, Kinds
    <3>3. d < c /\ c > d
      BY <1>5, <1>6, <2>2 DEF Reqs
    <3> QED
      BY <1>1, <3>1, <3>2, <3>3 DEF Alive
  <2>3. CASE d \in onAir' \cup Told({"reply", "loginFail"})
    BY <1>10, <2>3 DEF Alive
  <2>4. CASE kind[d] # "trace" /\ \E e \in Told({"sent"}) : e > d /\ kind[e] \in Claiming
    BY <1>1, <2>1, <2>4 DEF Alive
  <2> QED
    BY <1>22, <2>2, <2>3, <2>4 DEF Alive
<1>23. PastAreAlive'
  <2> SUFFICES ASSUME ~slipped', NEW d \in Reqs,
                      \/ d \in Awaiting /\ d \notin Owed
                      \/ d \in Told({"sent"})' /\ kind[d] # "status"
               PROVE  Alive(d)'
    BY <1>1, <1>19 DEF PastAreAlive, Awaiting
  <2>1. CASE d = c /\ answer = "sent"
    BY <1>1, <2>1 DEF Alive
  <2>2. CASE \/ d \in Awaiting /\ d \notin Owed
             \/ d \in Told({"sent"}) /\ kind[d] # "status"
    BY <1>19, <1>22, <2>2 DEF IInv, PastAreAlive
  <2> QED
    BY <1>8, <2>1, <2>2
<1>24. DisplacedIsPast'
  BY <1>1, <1>3, <1>10, <1>11, <1>19 DEF IInv, DisplacedIsPast
<1>25. LoginsAreOwn'
  BY <1>1, <1>3, <1>10, <1>11 DEF IInv, LoginsAreOwn
<1>26. HoldersKnown' /\ QueueIsBehind' /\ Waits' /\ LoginsOfLink' /\ SessionsEndWithLink'
  BY <1>1 DEF IInv, HoldersKnown, QueueIsBehind, Waits, LoginsOfLink, SessionsEndWithLink
<1> QED
  BY <1>12, <1>13, <1>16, <1>17, <1>18, <1>20, <1>21, <1>23, <1>24, <1>25, <1>26 DEF IInv

LEMMA RadioRepliesKeeps ==
  ASSUME IInv, NEW c \in Reqs, NEW answer \in {"reply", "loginFail"}, RadioReplies(c, answer)
  PROVE  IInv'
<1>1. /\ c \in onAir /\ onAir' = onAir \ {c}
      /\ kind[c] = "status" => frames' = frames
      /\ kind[c] # "status" => frames' = Append(frames, <<answer, c>>)
      /\ UNCHANGED <<issued, kind, node, outcome, writing, adminSentQueue, meshRequestSlot,
                     tagOf, tags, logins, sessions, inflight, taken, linkUp, connected,
                     slipped, mixed, cut, stray>>
  BY DEF RadioReplies, store, link, history
<1>2. /\ TypeOK /\ Stamped /\ TakenInOrder /\ FramesInOrder /\ SentDrops
      /\ frames \in Seq(Frames) /\ c \in taken
  BY <1>1 DEF IInv, TypeOK, TakenInOrder
<1>3. <<answer, c>> \in Frames
  BY DEF Frames
<1>4. \A w : Told(w)' = IF kind[c] # "status" /\ answer \in w THEN Told(w) \cup {c} ELSE Told(w)
  BY <1>1, <1>2, <1>3, ToldStays, ToldAdded
<1>5. /\ Told({"sent"})' = Told({"sent"}) /\ Told({"sent", "err"})' = Told({"sent", "err"})
      /\ Told({"reply", "loginFail"})' =
           IF kind[c] # "status" THEN Told({"reply", "loginFail"}) \cup {c}
                                 ELSE Told({"reply", "loginFail"})
  BY <1>4
<1>6. TypeOK'
  <2>1. frames' \in Seq(Frames)
    BY <1>1, <1>2, <1>3, FrameAdded
  <2>2. onAir' \subseteq Reqs
    BY <1>1, <1>2 DEF TypeOK
  <2> QED
    BY <1>1, <1>2, <2>1, <2>2 DEF TypeOK
<1> DEFINE n == Len(frames)
           f == <<answer, c>>
<1>7. kind[c] # "status" =>
        /\ n \in Nat /\ DOMAIN frames = 1..n /\ DOMAIN frames' = 1..(n + 1)
        /\ \A i \in 1..n : frames'[i] = frames[i]
        /\ frames'[n + 1][1] = answer /\ frames'[n + 1][2] = c
  <2> SUFFICES ASSUME kind[c] # "status"
               PROVE  /\ n \in Nat /\ DOMAIN frames = 1..n /\ DOMAIN frames' = 1..(n + 1)
                      /\ \A i \in 1..n : frames'[i] = frames[i]
                      /\ frames'[n + 1][1] = answer /\ frames'[n + 1][2] = c
    OBVIOUS
  <2>1. f \in Frames /\ frames' = Append(frames, f) /\ f[1] = answer /\ f[2] = c
    BY <1>1, <1>3
  <2> HIDE DEF f
  <2> QED
    BY <1>2, <2>1, FrameAdded
<1> HIDE DEF n, f
<1>8. \A i \in 1..(n + 1) : n \in Nat => (i \in 1..n \/ i = n + 1)
  OBVIOUS
<1>9. TakenInOrder'
  BY <1>1, <1>2, <1>7, <1>8 DEF TakenInOrder
<1>10. FramesInOrder'
  <2>1. CASE kind[c] = "status"
    BY <1>1, <1>2, <2>1 DEF FramesInOrder
  <2>2. CASE kind[c] # "status"
    <3> SUFFICES ASSUME NEW j \in 1..(n + 1), frames'[j][1] \in {"sent", "err"},
                        NEW i \in 1..(j - 1)
                 PROVE  frames'[i][2] < frames'[j][2]
      BY <1>7, <2>2 DEF FramesInOrder
    <3>1. n \in Nat /\ i \in 1..n /\ j \in 1..n
      BY <1>7, <1>8, <2>2
    <3> QED
      BY <1>2, <1>7, <2>2, <3>1 DEF FramesInOrder
  <2> QED
    BY <2>1, <2>2
<1>11. SentDrops'
  <2> SUFFICES ASSUME NEW i \in DOMAIN frames', frames'[i][1] = "sent",
                      kind[frames'[i][2]] \in Claiming
               PROVE  /\ \A d \in onAir' : kind[d] # "trace" => d >= frames'[i][2]
                      /\ \A j \in DOMAIN frames' :
                           j > i /\ frames'[j][1] \in {"reply", "loginFail"}
                             /\ kind[frames'[j][2]] # "trace"
                           => frames'[j][2] >= frames'[i][2]
    BY <1>1 DEF SentDrops
  <2>1. i \in DOMAIN frames /\ frames'[i] = frames[i]
    BY <1>1, <1>7, <1>8
  <2>2. \A d \in onAir : kind[d] # "trace" => d >= frames[i][2]
    BY <1>2, <2>1 DEF SentDrops
  <2>3. ASSUME NEW j \in DOMAIN frames', j > i, frames'[j][1] \in {"reply", "loginFail"},
               kind[frames'[j][2]] # "trace"
        PROVE  frames'[j][2] >= frames'[i][2]
    <3>1. CASE j \in DOMAIN frames /\ frames'[j] = frames[j]
      BY <1>2, <2>1, <2>3, <3>1 DEF SentDrops
    <3>2. CASE kind[c] # "status" /\ j = n + 1
      BY <1>1, <1>7, <2>1, <2>2, <2>3, <3>2
    <3> QED
      BY <1>1, <1>7, <1>8, <3>1, <3>2
  <2> QED
    BY <1>1, <2>1, <2>2, <2>3
<1>12. Owed' = Owed /\ Awaiting' = Awaiting
  BY <1>1, <1>5 DEF Owed, Awaiting
<1>13. SlotsMatchAnswers' /\ OneIsPast'
  BY <1>1, <1>12 DEF IInv, SlotsMatchAnswers, OneIsPast
<1>14. PastAreAlive'
  <2> SUFFICES ASSUME ~slipped, NEW d \in Reqs,
                      \/ d \in Awaiting /\ d \notin Owed
                      \/ d \in Told({"sent"}) /\ kind[d] # "status"
               PROVE  Alive(d)'
    BY <1>1, <1>5, <1>12 DEF PastAreAlive
  <2>1. Alive(d)
    BY DEF IInv, PastAreAlive
  <2>2. d = c => kind[d] # "status"
    <3>1. kind[d] = "status" => d \notin Awaiting
      BY HoldersAre DEF IInv
    <3> QED
      BY <3>1
  <2> QED
    BY <1>1, <1>5, <2>1, <2>2 DEF Alive
<1>15. DisplacedIsPast'
  BY <1>1, <1>5 DEF IInv, DisplacedIsPast
<1>16. LoginsAreOwn'
  BY <1>1, <1>5 DEF IInv, LoginsAreOwn
<1>17. /\ Stamped' /\ HoldersKnown' /\ QueueIsBehind' /\ Waits' /\ TagsAreOwn' /\ LoginsOfLink'
       /\ SessionsEndWithLink'
  BY <1>1 DEF IInv, Stamped, HoldersKnown, QueueIsBehind, Waits, TagsAreOwn, LoginsOfLink,
             SessionsEndWithLink
<1> QED
  BY <1>6, <1>9, <1>10, <1>11, <1>13, <1>14, <1>15, <1>16, <1>17 DEF IInv

-----------------------------------------------------------------------------
(* Frames.                                                                 *)

\* The frame received is of a request older than any whose answer is to come, and if the
\* radio told with it that it took a claiming request, no older reply comes behind it.
LEMMA ReceiveKeepsRoad ==
  ASSUME IInv, NEW what, NEW c \in Reqs, Receive(what, c)
  PROVE  /\ TakenInOrder' /\ FramesInOrder' /\ SentDrops' /\ frames' \in Seq(Frames)
         /\ what \in {"sent", "err", "reply", "loginFail"} /\ c \in taken /\ c \notin inflight
         /\ \A w : /\ Told(w)' \subseteq Told(w)
                   /\ Told(w) = IF what \in w THEN Told(w)' \cup {c} ELSE Told(w)'
         /\ \A d \in Owed' : c < d /\ c # d /\ d \in Owed
         /\ Owed = IF what \in {"sent", "err"} THEN Owed' \cup {c} ELSE Owed'
         /\ what = "sent" /\ kind[c] \in Claiming =>
              \A d \in onAir \cup Told({"reply", "loginFail"})' : kind[d] # "trace" => d >= c
<1> DEFINE n == Len(frames)
<1>1. /\ frames # <<>> /\ frames' = Tail(frames)
      /\ Head(frames)[1] = what /\ Head(frames)[2] = c /\ Head(frames) = <<what, c>>
      /\ UNCHANGED <<kind, inflight, taken, onAir>>
  BY DEF Receive
<1>2. TypeOK /\ TakenInOrder /\ FramesInOrder /\ SentDrops /\ frames \in Seq(Frames)
  BY DEF IInv, TypeOK
<1>3. /\ n \in Nat /\ n >= 1 /\ DOMAIN frames = 1..n /\ DOMAIN frames' = 1..(n - 1)
      /\ \A i \in 1..(n - 1) : frames'[i] = frames[i + 1] /\ i + 1 \in 1..n
      /\ frames[1][1] = what /\ frames[1][2] = c /\ 1 \in 1..n
      /\ frames' \in Seq(Frames) /\ <<what, c>> \in Frames
  BY <1>1, <1>2, FrameTaken
<1> HIDE DEF n
<1>4. what \in {"sent", "err", "reply", "loginFail"} /\ c \in taken
  BY <1>2, <1>3 DEF TakenInOrder, Frames
<1>5. c \notin inflight /\ \A d \in inflight : c < d /\ c # d
  BY <1>2, <1>4 DEF TakenInOrder, TypeOK, Reqs
<1>6. \A w : /\ Told(w)' \subseteq Told(w)
             /\ Told(w) = IF what \in w THEN Told(w)' \cup {c} ELSE Told(w)'
  BY <1>2, ToldTaken
<1>7. \A d \in Told({"sent", "err"})' : c < d /\ c # d
  <2> TAKE d \in Told({"sent", "err"})'
  <2>1. PICK i \in 1..(n - 1) : frames'[i][1] \in {"sent", "err"} /\ frames'[i][2] = d /\ d \in Reqs
    BY <1>3 DEF Told
  <2>2. frames[i + 1][1] \in {"sent", "err"} /\ frames[i + 1][2] = d /\ i + 1 \in DOMAIN frames
    BY <1>3, <2>1
  <2>3. 1 \in 1..((i + 1) - 1)
    BY <1>3
  <2>4. c < d
    BY <1>2, <1>3, <2>2, <2>3 DEF FramesInOrder
  <2> QED
    BY <2>1, <2>4 DEF Reqs
<1>8. /\ \A d \in Owed' : c < d /\ c # d /\ d \in Owed
      /\ Owed = IF what \in {"sent", "err"} THEN Owed' \cup {c} ELSE Owed'
  BY <1>1, <1>5, <1>6, <1>7 DEF Owed
<1>9. TakenInOrder'
  BY <1>1, <1>2, <1>3 DEF TakenInOrder
<1>10. FramesInOrder'
  <2> SUFFICES ASSUME NEW j \in 1..(n - 1), frames'[j][1] \in {"sent", "err"}, NEW i \in 1..(j - 1)
               PROVE  frames'[i][2] < frames'[j][2]
    BY <1>3 DEF FramesInOrder
  <2>1. i \in 1..(n - 1) /\ i + 1 \in 1..((j + 1) - 1)
    BY <1>3
  <2> QED
    BY <1>2, <1>3, <2>1 DEF FramesInOrder
<1>11. SentDrops'
  <2> SUFFICES ASSUME NEW i \in 1..(n - 1), frames'[i][1] = "sent", kind[frames'[i][2]] \in Claiming
               PROVE  /\ \A d \in onAir : kind[d] # "trace" => d >= frames'[i][2]
                      /\ \A j \in 1..(n - 1) :
                           j > i /\ frames'[j][1] \in {"reply", "loginFail"}
                             /\ kind[frames'[j][2]] # "trace"
                           => frames'[j][2] >= frames'[i][2]
    BY <1>1, <1>3 DEF SentDrops
  <2>1. frames'[i] = frames[i + 1] /\ i + 1 \in DOMAIN frames
    BY <1>3
  <2>2. \A d \in onAir : kind[d] # "trace" => d >= frames'[i][2]
    BY <1>2, <2>1 DEF SentDrops
  <2>3. ASSUME NEW j \in 1..(n - 1), j > i, frames'[j][1] \in {"reply", "loginFail"},
               kind[frames'[j][2]] # "trace"
        PROVE  frames'[j][2] >= frames'[i][2]
    <3>1. frames'[j] = frames[j + 1] /\ j + 1 \in DOMAIN frames /\ j + 1 > i + 1
      BY <1>3, <2>3
    <3> QED
      BY <1>2, <2>1, <2>3, <3>1 DEF SentDrops
  <2> QED
    BY <2>2, <2>3
<1>12. ASSUME what = "sent", kind[c] \in Claiming
       PROVE  \A d \in onAir \cup Told({"reply", "loginFail"})' : kind[d] # "trace" => d >= c
  <2>1. \A d \in onAir : kind[d] # "trace" => d >= c
    BY <1>2, <1>3, <1>12 DEF SentDrops
  <2>2. ASSUME NEW d \in Told({"reply", "loginFail"})', kind[d] # "trace" PROVE d >= c
    <3>1. PICK i \in 1..(n - 1) :
            frames'[i][1] \in {"reply", "loginFail"} /\ frames'[i][2] = d /\ d \in Reqs
      BY <1>3 DEF Told
    <3>2. /\ frames[i + 1][1] \in {"reply", "loginFail"} /\ frames[i + 1][2] = d
          /\ i + 1 \in DOMAIN frames /\ i + 1 > 1
      BY <1>3, <3>1
    <3> QED
      BY <1>2, <1>3, <1>12, <2>2, <3>2 DEF SentDrops
  <2> QED
    BY <2>1, <2>2
<1> QED
  BY <1>3, <1>4, <1>5, <1>6, <1>8, <1>9, <1>10, <1>11, <1>12

\* The reply of d can come as before, unless the frame received spoke of it.
LEMMA AliveStays ==
  ASSUME IInv, NEW what, NEW c \in Reqs, Receive(what, c), NEW d \in Reqs, Alive(d),
         what \in {"reply", "loginFail"} => d # c,
         what = "sent" /\ kind[c] \in Claiming => ~(c > d)
  PROVE  Alive(d)'
<1>1. UNCHANGED <<kind, onAir>>
  BY DEF Receive
<1>2. \A w : Told(w) = IF what \in w THEN Told(w)' \cup {c} ELSE Told(w)'
  BY ReceiveKeepsRoad
<1>3. /\ Told({"sent"}) = IF what = "sent" THEN Told({"sent"})' \cup {c} ELSE Told({"sent"})'
      /\ Told({"reply", "loginFail"}) =
           IF what \in {"reply", "loginFail"} THEN Told({"reply", "loginFail"})' \cup {c}
                                              ELSE Told({"reply", "loginFail"})'
  BY <1>2
<1> QED
  BY <1>1, <1>3 DEF Alive

\* While the queue is in step, the oldest slot is that of the answer received.
LEMMA HeadIs ==
  ASSUME IInv, NEW what \in {"sent", "err"}, NEW c \in Reqs, Receive(what, c), ~slipped
  PROVE  Oldest(adminSentQueue) = {c} /\ c \in adminSentQueue
         /\ adminSentQueue \ Oldest(adminSentQueue) = Owed'
<1>1. /\ \A d \in Owed' : c < d /\ c # d
      /\ Owed = Owed' \cup {c}
  BY ReceiveKeepsRoad
<1>2. adminSentQueue = Owed /\ adminSentQueue \subseteq Reqs
  BY DEF IInv, SlotsMatchAnswers, TypeOK
<1>3. \A d \in adminSentQueue : c <= d
  BY <1>1, <1>2 DEF Reqs
<1>4. Oldest(adminSentQueue) = {c}
  BY <1>1, <1>2, <1>3, OldestIs
<1> QED
  BY <1>1, <1>2, <1>4

\* A frame that releases waiters, its own among them: the rest it shows itself.
LEMMA ReleaseStep ==
  ASSUME IInv, NEW what \in {"err", "reply", "loginFail"}, NEW c \in Reqs, Receive(what, c),
         TypeOK', Released, UNCHANGED <<meshRequestSlot, tagOf>>,
         adminSentQueue' \subseteq adminSentQueue,
         \A n \in Nodes :
           \/ sessions'[n] = sessions[n]
           \/ sessions'[n] <= issued /\ (stray \/ sessions'[n] > cut),
         ~slipped => adminSentQueue' = Owed' /\ c \notin Awaiting',
         \A d \in Reqs : outcome'[d] # outcome[d] =>
           /\ outcome[d] = "pending" /\ outcome'[d] \notin {"pending", "displaced"}
           /\ kind[d] = "login" /\ outcome'[d] = "ok" => stray \/ d > cut,
         \A n \in Nodes : logins'[n] # NoReq => outcome'[logins[n]] = outcome[logins[n]],
         ~slipped => \A t \in Reqs : tags'[t] # NoReq => outcome'[tags[t]] = outcome[tags[t]],
         \A d \in Reqs : outcome'[d] = "pending" =>
           /\ kind[d] = "tagged" /\ d \in adminSentQueue => d \in adminSentQueue'
           /\ \A t \in Reqs : tags[t] = d => tags'[t] = d
           /\ \A n \in Nodes : logins[n] = d => logins'[n] = d
  PROVE  IInv'
<1>1. UNCHANGED <<issued, kind, node, writing, inflight, taken, onAir, linkUp, connected,
                  slipped, mixed, cut, stray>>
  BY DEF Receive, link, history
<1>2. Kept
  BY <1>1 DEF Kept
<1>3. /\ TakenInOrder' /\ FramesInOrder' /\ SentDrops'
      /\ \A w : Told(w)' \subseteq Told(w)
      /\ \A d \in Owed' : c # d /\ d \in Owed
      /\ \A d \in Owed : d \in Owed' \/ d = c
  BY ReceiveKeepsRoad
<1>4. HoldersKnown' /\ TagsAreOwn' /\ Awaiting' \cap Reqs \subseteq Awaiting
  <2>1. /\ \A n \in Nodes : logins'[n] # NoReq => outcome'[logins[n]] = "pending"
        /\ ~slipped => \A t \in Reqs : tags'[t] # NoReq => outcome'[tags[t]] = "pending"
    BY DEF IInv, HoldersKnown, TagsAreOwn, Released
  <2> QED
    BY <1>1, <1>2, <2>1, StoreShrinks
<1>5. OneIsPast'
  BY <1>1, <1>3, <1>4 DEF IInv, OneIsPast
<1>6. PastAreAlive'
  <2> SUFFICES ASSUME ~slipped, NEW d \in Reqs,
                      \/ d \in Awaiting' /\ d \notin Owed'
                      \/ d \in Told({"sent"})' /\ kind[d] # "status"
               PROVE  Alive(d)'
    BY <1>1 DEF PastAreAlive
  <2>1. d # c
    <3>1. Told({"sent"})' \subseteq Owed'
      BY ToldIs DEF Told, Owed
    <3> QED
      BY <1>3, <3>1
  <2>2. \/ d \in Awaiting /\ d \notin Owed
        \/ d \in Told({"sent"}) /\ kind[d] # "status"
    BY <1>3, <1>4, <2>1
  <2>3. Alive(d)
    BY <2>2 DEF IInv, PastAreAlive
  <2> QED
    BY <2>1, <2>3, AliveStays
<1>7. DisplacedIsPast'
  BY <1>1, <1>3 DEF IInv, DisplacedIsPast
<1>8. LoginsOfLink'
  BY <1>1, AllIssued DEF IInv, LoginsOfLink, Released
<1>9. SessionsEndWithLink'
  BY <1>1 DEF IInv, SessionsEndWithLink
<1>10. LoginsAreOwn'
  BY <1>1, <1>2, <1>3, OwnStays
<1>11. Waits'
  BY <1>1, <1>2, WaitsStay
<1>12. QueueIsBehind' /\ SlotsMatchAnswers'
  BY <1>1 DEF IInv, QueueIsBehind, SlotsMatchAnswers
<1>13. Stamped'
  BY <1>1 DEF IInv, Stamped
<1> QED
  BY <1>3, <1>4, <1>5, <1>6, <1>7, <1>8, <1>9, <1>10, <1>11, <1>12, <1>13 DEF IInv

LEMMA HandleReplyKeeps ==
  ASSUME IInv, NEW c \in Reqs, HandleReply(c)
  PROVE  IInv'
<1>1. /\ kind[c] \in {"tagged", "trace"} /\ Receive("reply", c)
      /\ tags' = [tags EXCEPT ![c] = NoReq]
      /\ outcome' = Settle({tags[c]}, "ok", outcome)
      /\ UNCHANGED <<adminSentQueue, meshRequestSlot, tagOf, logins, sessions>>
      /\ UNCHANGED <<issued, kind, node, writing, inflight, taken, onAir, linkUp, connected,
                     slipped, mixed, cut, stray>>
  BY DEF HandleReply, Receive, link, history
<1>2. TypeOK /\ HoldersKnown /\ SlotsMatchAnswers /\ TagsAreOwn
  BY DEF IInv
<1>3. \A d \in Reqs : outcome'[d] =
        IF d = tags[c] /\ outcome[d] = "pending" THEN "ok" ELSE outcome[d]
  BY <1>1, SettleIs
<1>4. \A t \in Reqs : tags'[t] = IF t = c THEN NoReq ELSE tags[t]
  BY <1>1, <1>2 DEF TypeOK
<1>5. tags[c] \in Reqs => kind[tags[c]] \in {"tagged", "trace"} /\ tags[c] # NoReq
  BY <1>2, HoldersAre
<1>6. frames' \in Seq(Frames) /\ Owed' = Owed
  BY <1>1, ReceiveKeepsRoad
<1>7. TypeOK'
  <2>1. "ok" \in Outcomes /\ \A d \in {tags[c]} : d \in Reqs => "ok" \in OutcomesOf(kind[d])
    BY <1>5, OutcomesAre DEF Outcomes
  <2>2. outcome' \in [Reqs -> Outcomes] /\ \A d \in Reqs : outcome'[d] \in OutcomesOf(kind[d])
    BY <1>1, <1>2, <2>1, SettledType
  <2>3. tags' \in [Reqs -> Reqs \cup {NoReq}]
    BY <1>1, <1>2 DEF TypeOK
  <2> QED
    BY <1>1, <1>2, <1>6, <2>2, <2>3 DEF TypeOK
<1>8. Released
  BY <1>1, <1>4 DEF Released
<1>9. ~slipped => c \notin Awaiting'
  <2>1. \A n \in Nodes : logins[n] # c
    BY <1>1, <1>2, HoldersAre
  <2>2. ~slipped => \A t \in Reqs : tags'[t] # c
    BY <1>2, <1>4, HoldersAre DEF TagsAreOwn
  <2> QED
    BY <1>1, <2>1, <2>2 DEF Awaiting
<1>10. \A n \in Nodes : logins'[n] # NoReq => outcome'[logins[n]] = outcome[logins[n]]
  BY <1>1, <1>2, <1>3, <1>5, HoldersAre
<1>11. ~slipped => \A t \in Reqs : tags'[t] # NoReq => outcome'[tags[t]] = outcome[tags[t]]
  <2> SUFFICES ASSUME ~slipped, NEW t \in Reqs, tags'[t] # NoReq
               PROVE  outcome'[tags[t]] = outcome[tags[t]]
    OBVIOUS
  <2>1. t # c /\ tags[t] = t
    BY <1>2, <1>4 DEF TagsAreOwn
  <2>2. tags[c] \in {NoReq, c} /\ NoReq \notin Reqs
    BY <1>2, HoldersAre DEF TagsAreOwn
  <2> QED
    BY <1>3, <2>1, <2>2
<1>12. \A d \in Reqs : outcome'[d] # outcome[d] => outcome[d] = "pending" /\ outcome'[d] = "ok"
                                                /\ kind[d] # "login"
  BY <1>3, <1>5
<1>13. \A d \in Reqs : outcome'[d] = "pending" => \A t \in Reqs : tags[t] = d => tags'[t] = d
  BY <1>3, <1>4
<1>14. ~slipped => adminSentQueue' = Owed'
  BY <1>1, <1>2, <1>6 DEF SlotsMatchAnswers
<1> QED
  BY <1>1, <1>7, <1>8, <1>9, <1>10, <1>11, <1>12, <1>13, <1>14, ReleaseStep

LEMMA HandleLoginKeeps ==
  ASSUME IInv, NEW c \in Reqs, HandleLogin(c)
  PROVE  IInv'
<1> DEFINE n == node[c]
<1>1. PICK what \in {"reply", "loginFail"} :
        /\ kind[c] = "login" /\ Receive(what, c)
        /\ outcome' = Settle({logins[n]}, IF what = "reply" THEN "ok" ELSE "loginFailed", outcome)
        /\ what = "reply" => sessions' = [sessions EXCEPT ![n] =
                               IF logins[n] \in writing \cup {NoReq} THEN @ ELSE logins[n]]
        /\ what = "loginFail" => sessions' = sessions
  BY DEF HandleLogin
<1>2. /\ logins' = [logins EXCEPT ![n] = NoReq]
      /\ UNCHANGED <<adminSentQueue, meshRequestSlot, tagOf, tags>>
      /\ UNCHANGED <<issued, kind, node, writing, inflight, taken, onAir, linkUp, connected,
                     slipped, mixed, cut, stray>>
  BY <1>1 DEF HandleLogin, Receive, link, history
<1>3. TypeOK /\ Stamped /\ HoldersKnown /\ SlotsMatchAnswers /\ LoginsOfLink
  BY DEF IInv
<1> DEFINE how == IF what = "reply" THEN "ok" ELSE "loginFailed"
<1>4. \A d \in Reqs : outcome'[d] =
        IF d = logins[n] /\ outcome[d] = "pending" THEN how ELSE outcome[d]
  BY <1>1, SettleIs
<1>5. n \in Nodes /\ frames' \in Seq(Frames) /\ Owed' = Owed
  BY <1>1, <1>3, ReceiveKeepsRoad, AllIssued DEF Stamped
<1>6. \A m \in Nodes : logins'[m] = IF m = n THEN NoReq ELSE logins[m]
  BY <1>2, <1>3 DEF TypeOK
<1>7. /\ logins[n] \in Reqs \cup {NoReq}
      /\ logins[n] # NoReq =>
           kind[logins[n]] = "login" /\ logins[n] <= issued /\ (stray \/ logins[n] > cut)
  BY <1>3, <1>5, HoldersAre, AllIssued DEF LoginsOfLink, TypeOK
<1>8. NoReq \notin Reqs
  BY <1>3, HoldersAre
<1>9. how \in Outcomes /\ how \notin {"none", "aborted", "pending", "displaced"}
  BY DEF Outcomes
<1>10. TypeOK'
  <2>1. \A d \in {logins[n]} : d \in Reqs => how \in OutcomesOf(kind[d])
    BY <1>7, <1>8, <1>9, OutcomesAre
  <2>2. outcome' \in [Reqs -> Outcomes] /\ \A d \in Reqs : outcome'[d] \in OutcomesOf(kind[d])
    BY <1>1, <1>3, <1>9, <2>1, SettledType
  <2>3. logins' \in [Nodes -> Reqs \cup {NoReq}] /\ sessions' \in [Nodes -> Reqs \cup {NoReq}]
    BY <1>1, <1>2, <1>3, <1>5, <1>7 DEF TypeOK
  <2> QED
    BY <1>2, <1>3, <1>5, <2>2, <2>3 DEF TypeOK
<1> HIDE DEF how
<1>11. Released
  BY <1>2, <1>6 DEF Released
<1>12. c \notin Awaiting'
  <2>1. \A m \in Nodes : logins'[m] # c
    BY <1>3, <1>6, <1>8 DEF HoldersKnown
  <2>2. \A t \in Reqs : tags'[t] # c
    BY <1>1, <1>2, <1>3, HoldersAre
  <2> QED
    BY <2>1, <2>2 DEF Awaiting
<1>13. \A m \in Nodes : logins'[m] # NoReq => outcome'[logins[m]] = outcome[logins[m]]
  <2> SUFFICES ASSUME NEW m \in Nodes, logins[m] # NoReq, m # n
               PROVE  outcome'[logins[m]] = outcome[logins[m]]
    BY <1>6
  <2>1. logins[m] \in Reqs /\ logins[m] # logins[n]
    BY <1>3, <1>5, HoldersAre DEF HoldersKnown
  <2> QED
    BY <1>4, <2>1
<1>14. \A t \in Reqs : tags[t] # NoReq => outcome'[tags[t]] = outcome[tags[t]]
  <2> SUFFICES ASSUME NEW t \in Reqs, tags[t] # NoReq
               PROVE  outcome'[tags[t]] = outcome[tags[t]]
    OBVIOUS
  <2>1. tags[t] \in Reqs /\ kind[tags[t]] \in {"tagged", "trace"}
    BY <1>3, HoldersAre
  <2> QED
    BY <1>4, <1>7, <1>8, <2>1
<1>15. \A d \in Reqs : outcome'[d] # outcome[d] =>
         /\ outcome[d] = "pending" /\ outcome'[d] \notin {"pending", "displaced"}
         /\ stray \/ d > cut
  BY <1>4, <1>7, <1>8, <1>9
<1>16. \A d \in Reqs : outcome'[d] = "pending" =>
         \A m \in Nodes : logins[m] = d => logins'[m] = d
  BY <1>4, <1>6, <1>9
<1>17. \A m \in Nodes :
         \/ sessions'[m] = sessions[m]
         \/ sessions'[m] <= issued /\ (stray \/ sessions'[m] > cut)
  BY <1>1, <1>3, <1>5, <1>7 DEF TypeOK
<1>18. ~slipped => adminSentQueue' = Owed'
  BY <1>2, <1>3, <1>5 DEF SlotsMatchAnswers
<1> QED
  BY <1>1, <1>2, <1>10, <1>11, <1>12, <1>13, <1>14, <1>15, <1>16, <1>17, <1>18, ReleaseStep

LEMMA HandleErrKeeps ==
  ASSUME IInv, NEW c \in Reqs, HandleErr(c)
  PROVE  IInv'
<1> DEFINE head == Oldest(adminSentQueue)
           trace == {h \in head : kind[h] = "trace"}
           login == {n \in Nodes : logins[n] \in head}
           refused == {h \in head : kind[h] = "tagged"} \cup {tags[t] : t \in trace}
                        \cup {logins[n] : n \in login}
<1>1. /\ Receive("err", c)
      /\ adminSentQueue' = adminSentQueue \ head
      /\ tags' = [t \in Reqs |-> IF t \in trace THEN NoReq ELSE tags[t]]
      /\ logins' = [n \in Nodes |-> IF n \in login THEN NoReq ELSE logins[n]]
      /\ outcome' = Settle(refused, "refused", outcome)
      /\ UNCHANGED <<meshRequestSlot, tagOf, sessions>>
      /\ UNCHANGED <<issued, kind, node, writing, inflight, taken, onAir, linkUp, connected,
                     slipped, mixed, cut, stray>>
  BY DEF HandleErr, Receive, link, history
<1>2. TypeOK /\ HoldersKnown /\ SlotsMatchAnswers /\ TagsAreOwn /\ QueueIsBehind
  BY DEF IInv
<1>3. head \subseteq adminSentQueue /\ head \subseteq Reqs
  BY <1>2, OldestIs DEF TypeOK
<1>4. ~slipped => head = {c} /\ c \in adminSentQueue /\ adminSentQueue' = Owed'
  BY <1>1, HeadIs
<1> HIDE DEF head
<1>5. \A d \in Reqs : outcome'[d] =
        IF d \in refused /\ outcome[d] = "pending" THEN "refused" ELSE outcome[d]
  BY <1>1, SettleIs
<1>6. \A d \in refused : d \in Reqs =>
        \/ kind[d] = "tagged" /\ d \in head
        \/ kind[d] \in {"tagged", "trace"} /\ \E t \in trace : tags[t] = d
        \/ kind[d] = "login" /\ d \in head
  BY <1>2, <1>3, HoldersAre
<1>7. /\ \A d \in head : kind[d] = "tagged" => d \in refused
      /\ \A t \in trace : tags[t] \in refused
      /\ \A n \in login : logins[n] \in refused
  OBVIOUS
<1>8. frames' \in Seq(Frames)
  BY <1>1, ReceiveKeepsRoad
<1>9. TypeOK'
  <2>1. "refused" \in Outcomes /\ \A d \in refused : d \in Reqs => "refused" \in OutcomesOf(kind[d])
    BY <1>6, OutcomesAre DEF Outcomes
  <2>2. outcome' \in [Reqs -> Outcomes] /\ \A d \in Reqs : outcome'[d] \in OutcomesOf(kind[d])
    BY <1>1, <1>2, <2>1, SettledType
  <2>3. /\ logins' \in [Nodes -> Reqs \cup {NoReq}] /\ tags' \in [Reqs -> Reqs \cup {NoReq}]
        /\ adminSentQueue' \subseteq Reqs
    BY <1>1, <1>2 DEF TypeOK
  <2> QED
    BY <1>1, <1>2, <1>8, <2>2, <2>3 DEF TypeOK
<1> HIDE DEF refused
<1>10. Released
  BY <1>1 DEF Released
<1>11. NoReq \notin Reqs
  BY <1>2, HoldersAre
\* A tagged request that is parked is not in the store yet.
<1>12. \A t \in Reqs, d \in adminSentQueue : kind[d] = "tagged" => tags[t] # d
  BY <1>2, <1>11 DEF HoldersKnown, QueueIsBehind, TypeOK
<1>13. ~slipped => c \notin Awaiting'
  <2> SUFFICES ASSUME ~slipped, c \in Awaiting' PROVE FALSE
    OBVIOUS
  <2>1. \A n \in Nodes : logins'[n] # c
    BY <1>1, <1>4, <1>11
  <2>2. PICK t \in Reqs : tags'[t] = c
    BY <2>1 DEF Awaiting
  <2>3. t \notin trace /\ tags[t] = c
    BY <1>1, <1>11, <2>2
  <2>4. t = c /\ kind[c] \in {"tagged", "trace"}
    BY <1>2, <1>11, <2>3, HoldersAre DEF TagsAreOwn
  <2> QED
    BY <1>4, <1>12, <2>3, <2>4
<1>14. \A n \in Nodes : logins'[n] # NoReq => outcome'[logins[n]] = outcome[logins[n]]
  <2> SUFFICES ASSUME NEW n \in Nodes, logins[n] # NoReq, logins[n] \notin head
               PROVE  outcome'[logins[n]] = outcome[logins[n]]
    BY <1>1
  <2>1. logins[n] \in Reqs /\ kind[logins[n]] = "login"
    BY <1>2, HoldersAre
  <2> QED
    BY <1>5, <1>6, <2>1
<1>15. ~slipped => \A t \in Reqs : tags'[t] # NoReq => outcome'[tags[t]] = outcome[tags[t]]
  <2> SUFFICES ASSUME ~slipped, NEW t \in Reqs, tags'[t] # NoReq
               PROVE  outcome'[tags[t]] = outcome[tags[t]]
    OBVIOUS
  <2>1. t \notin trace /\ tags[t] = t /\ kind[t] \in {"tagged", "trace"}
    BY <1>1, <1>2, HoldersAre DEF TagsAreOwn
  <2>2. t \notin refused
    <3>1. ~(kind[t] = "tagged" /\ t \in head)
      BY <1>3, <1>12, <2>1
    <3>2. \A x \in trace : tags[x] # t
      BY <1>2, <1>3, <1>11, <2>1 DEF TagsAreOwn
    <3> QED
      BY <1>6, <2>1, <3>1, <3>2
  <2> QED
    BY <1>5, <2>1, <2>2
<1>16. \A d \in Reqs : outcome'[d] # outcome[d] => outcome[d] = "pending" /\ outcome'[d] = "refused"
  BY <1>5
<1>17. \A d \in Reqs : outcome'[d] = "pending" =>
         /\ kind[d] = "tagged" /\ d \in adminSentQueue => d \in adminSentQueue'
         /\ \A t \in Reqs : tags[t] = d => tags'[t] = d
         /\ \A n \in Nodes : logins[n] = d => logins'[n] = d
  BY <1>1, <1>5, <1>7
<1> HIDE DEF trace, login
<1> QED
  BY <1>1, <1>4, <1>9, <1>10, <1>13, <1>14, <1>15, <1>16, <1>17, ReleaseStep

\* A claim fails the holder of the slot, and nobody else.
LEMMA ClaimIs ==
  ASSUME IInv
  PROVE  /\ \A x \in CancelledTags : x \in Reqs /\ tags[x] = meshRequestSlot
         /\ \A n \in CancelledLogins : n \in Nodes /\ logins[n] = meshRequestSlot
         /\ \A d \in Displaced :
              d = meshRequestSlot /\ d \in Reqs /\ kind[d] \in {"tagged", "login"}
         /\ meshRequestSlot \notin adminSentQueue
<1>1. TypeOK /\ HoldersKnown /\ QueueIsBehind /\ Waits
  BY DEF IInv
<1>2. meshRequestSlot \in Reqs \cup {NoReq} /\ NoReq \notin Reqs
  BY <1>1, HoldersAre DEF TypeOK
<1>3. meshRequestSlot \notin adminSentQueue
  BY <1>1, <1>2 DEF QueueIsBehind, Reqs, NoReq
<1>4. \A x \in CancelledTags :
        x \in Reqs /\ tags[x] = meshRequestSlot /\ kind[meshRequestSlot] = "tagged"
        /\ meshRequestSlot \in Reqs
  BY <1>1, <1>2, <1>3 DEF CancelledTags, Waits
<1>5. \A n \in CancelledLogins :
        n \in Nodes /\ logins[n] = meshRequestSlot /\ kind[meshRequestSlot] = "login"
        /\ meshRequestSlot \in Reqs
  BY <1>1, <1>2, HoldersAre DEF CancelledLogins
<1> QED
  BY <1>3, <1>4, <1>5 DEF Displaced

\* A RESP_SENT that finds no slot, or that of a trace.
LEMMA SentUnclaimed ==
  ASSUME IInv, NEW t \in Reqs, Receive("sent", t),
         adminSentQueue' = adminSentQueue \ Oldest(adminSentQueue),
         \A h \in Oldest(adminSentQueue) : ~Claims(h),
         UNCHANGED <<outcome, meshRequestSlot, tagOf, tags, logins, sessions>>
  PROVE  IInv'
<1>1. UNCHANGED <<issued, kind, node, writing, inflight, taken, onAir, linkUp, connected,
                  slipped, mixed, cut, stray>>
  BY DEF Receive, link, history
<1>2. TypeOK /\ Stamped /\ Waits
  BY DEF IInv
<1>3. /\ TakenInOrder' /\ FramesInOrder' /\ SentDrops' /\ frames' \in Seq(Frames)
      /\ t \in taken
      /\ \A w : Told(w)' \subseteq Told(w)
      /\ \A d \in Owed' : t # d /\ d \in Owed
      /\ Owed = Owed' \cup {t}
  BY ReceiveKeepsRoad
<1>4. t \in Told({"sent"})
  BY ReceiveKeepsRoad
<1>5. ~slipped => adminSentQueue' = Owed' /\ kind[t] = "trace"
  <2> SUFFICES ASSUME ~slipped PROVE adminSentQueue' = Owed' /\ kind[t] = "trace"
    OBVIOUS
  <2>1. Oldest(adminSentQueue) = {t} /\ adminSentQueue' = Owed'
    BY HeadIs
  <2>2. kind[t] \in Kinds
    BY <1>2, <1>3, AllIssued DEF Stamped, TypeOK
  <2> QED
    BY <2>1, <2>2 DEF Claims, Claiming, Kinds
<1>6. Awaiting' = Awaiting /\ adminSentQueue' \subseteq adminSentQueue
  BY DEF Awaiting
<1>7. OneIsPast'
  BY <1>1, <1>3, <1>5, <1>6 DEF IInv, OneIsPast
<1>8. PastAreAlive'
  <2> SUFFICES ASSUME ~slipped, NEW d \in Reqs,
                      \/ d \in Awaiting /\ d \notin Owed'
                      \/ d \in Told({"sent"})' /\ kind[d] # "status"
               PROVE  Alive(d)'
    BY <1>1, <1>6 DEF PastAreAlive
  <2>1. \/ d \in Awaiting /\ d \notin Owed
        \/ d \in Told({"sent"}) /\ kind[d] # "status"
    BY <1>3, <1>4, <1>5
  <2>2. Alive(d)
    BY <2>1 DEF IInv, PastAreAlive
  <2>3. kind[t] \notin Claiming
    BY <1>5 DEF Claiming
  <2> QED
    BY <2>2, <2>3, AliveStays
<1>9. DisplacedIsPast'
  BY <1>1, <1>3 DEF IInv, DisplacedIsPast
<1>10. LoginsAreOwn'
  BY <1>1, <1>3 DEF IInv, LoginsAreOwn
<1>11. Waits'
  <2>1. \A d \in Oldest(adminSentQueue) : kind[d] # "tagged"
    BY DEF Claims, Claiming
  <2> QED
    BY <1>1, <1>2, <2>1 DEF Waits
<1>12. TypeOK'
  BY <1>1, <1>2, <1>3 DEF TypeOK
<1>13. Stamped' /\ QueueIsBehind' /\ SlotsMatchAnswers'
  BY <1>1, <1>5, <1>6 DEF IInv, Stamped, QueueIsBehind, SlotsMatchAnswers
<1>14. HoldersKnown' /\ TagsAreOwn' /\ LoginsOfLink' /\ SessionsEndWithLink'
  BY <1>1 DEF IInv, HoldersKnown, TagsAreOwn, LoginsOfLink, SessionsEndWithLink
<1> QED
  BY <1>3, <1>7, <1>8, <1>9, <1>10, <1>11, <1>12, <1>13, <1>14 DEF IInv

\* A RESP_SENT whose slot is that of a request that takes the radio's.
LEMMA SentClaims ==
  ASSUME IInv, NEW t \in Reqs, NEW h \in Oldest(adminSentQueue), HandleSent(t), Claims(h)
  PROVE  IInv'
<1> DEFINE tagged == kind[h] = "tagged" /\ outcome[h] = "pending"
<1>1. /\ Receive("sent", t) /\ adminSentQueue' = adminSentQueue \ {h}
      /\ Oldest(adminSentQueue) = {h} /\ h \in adminSentQueue /\ h \in Reqs
      /\ \A d \in adminSentQueue : h <= d
  BY OldestIs DEF HandleSent, IInv, TypeOK
<1>2. /\ adminSentQueue # {} /\ ClaimMeshRequestSlot(h) /\ sessions' = sessions
      /\ tagged \/ ~tagged
      /\ ~tagged =>
           /\ tags' = [k \in Reqs |-> IF k \in CancelledTags THEN NoReq ELSE tags[k]]
           /\ outcome' = Settle(Displaced, "displaced", outcome)
           /\ UNCHANGED tagOf
      /\ tagged =>
           /\ tagOf' = [tagOf EXCEPT ![h] = t]
           /\ tags' = [k \in Reqs |-> IF k = t THEN h
                                      ELSE IF k \in CancelledTags THEN NoReq ELSE tags[k]]
           /\ outcome' = Settle({tags[t]}, "replaced", Settle(Displaced, "displaced", outcome))
  BY <1>1 DEF HandleSent
<1>3. UNCHANGED <<issued, kind, node, writing, inflight, taken, onAir, linkUp, connected,
                  slipped, mixed, cut, stray, sessions>>
  BY <1>1, <1>2 DEF Receive, link, history
<1> HIDE DEF tagged
<1>4. /\ TypeOK /\ Stamped /\ HoldersKnown /\ QueueIsBehind /\ Waits /\ TakenInOrder
      /\ h # NoReq /\ NoReq \notin Reqs
  BY <1>1, HoldersAre DEF IInv
<1>5. /\ TakenInOrder' /\ FramesInOrder' /\ SentDrops' /\ frames' \in Seq(Frames)
      /\ t \in taken /\ t \notin inflight
      /\ \A w : Told(w)' \subseteq Told(w)
      /\ \A d \in Owed' : t < d /\ t # d /\ d \in Owed
      /\ Owed = Owed' \cup {t}
      /\ t \in Told({"sent"})
      /\ kind[t] \in Claiming =>
           \A d \in onAir \cup Told({"reply", "loginFail"})' : kind[d] # "trace" => d >= t
  BY <1>1, ReceiveKeepsRoad
<1>6. /\ \A k \in Reqs : tags'[k] = IF tagged /\ k = t THEN h
                                    ELSE IF k \in CancelledTags THEN NoReq ELSE tags[k]
      /\ \A n \in Nodes : logins'[n] = IF n \in CancelledLogins THEN NoReq ELSE logins[n]
      /\ \A c \in Reqs : tagOf'[c] = IF tagged /\ c = h THEN t ELSE tagOf[c]
      /\ meshRequestSlot' = h
  BY <1>2, <1>4 DEF ClaimMeshRequestSlot, TypeOK
<1>7. \A d \in Reqs : outcome'[d] =
        IF d \in Displaced /\ outcome[d] = "pending" THEN "displaced"
        ELSE IF tagged /\ d = tags[t] /\ outcome[d] = "pending" THEN "replaced"
        ELSE outcome[d]
  <2>1. CASE ~tagged
    BY <1>2, <2>1, SettleIs
  <2>2. CASE tagged
    <3> DEFINE first == Settle(Displaced, "displaced", outcome)
    <3>1. \A d \in Reqs : first[d] =
            IF d \in Displaced /\ outcome[d] = "pending" THEN "displaced" ELSE outcome[d]
      BY SettleIs
    <3>2. outcome' = Settle({tags[t]}, "replaced", first)
      BY <1>2, <2>2
    <3> HIDE DEF first
    <3>3. \A d \in Reqs : outcome'[d] =
            IF d \in {tags[t]} /\ first[d] = "pending" THEN "replaced" ELSE first[d]
      BY <3>2, SettleIs
    <3> QED
      BY <2>2, <3>1, <3>3
  <2> QED
    BY <2>1, <2>2
<1>8. /\ \A d \in Displaced :
           d = meshRequestSlot /\ d \in Reqs /\ kind[d] \in {"tagged", "login"}
      /\ \A x \in CancelledTags : tags[x] = meshRequestSlot /\ tags[x] \in Displaced
      /\ \A n \in CancelledLogins : logins[n] = meshRequestSlot /\ logins[n] \in Displaced
  BY ClaimIs DEF Displaced
<1>9. /\ meshRequestSlot < h /\ tagOf[h] = NoReq /\ h <= issued /\ kind[h] \in Claiming
      /\ meshRequestSlot \in Nat
  BY <1>1, <1>4, AllIssued DEF QueueIsBehind, Claims, TypeOK, Reqs, NoReq
<1>10. tags[t] \in Reqs => kind[tags[t]] \in {"tagged", "trace"}
  BY <1>4, HoldersAre
<1>11. TypeOK'
  <2>1. outcome' \in [Reqs -> Outcomes]
    <3>1. outcome \in [Reqs -> Outcomes] /\ {"displaced", "replaced"} \subseteq Outcomes
      BY <1>4 DEF TypeOK, Outcomes
    <3>2. outcome' \in [Reqs -> Outcomes]
      BY <1>2, <3>1 DEF Settle
    <3> QED
      BY <3>2
  <2>2. ASSUME NEW d \in Reqs PROVE outcome'[d] \in OutcomesOf(kind[d])
    <3>1. CASE outcome'[d] = outcome[d]
      BY <1>4, <3>1 DEF TypeOK
    <3>2. CASE d \in Displaced /\ outcome'[d] = "displaced"
      BY <1>8, <3>2, OutcomesAre DEF Outcomes
    <3>3. CASE d = tags[t] /\ outcome'[d] = "replaced"
      BY <1>10, <3>3, OutcomesAre DEF Outcomes
    <3> QED
      BY <1>7, <3>1, <3>2, <3>3
  <2>3. /\ tags' \in [Reqs -> Reqs \cup {NoReq}] /\ logins' \in [Nodes -> Reqs \cup {NoReq}]
        /\ tagOf' \in [Reqs -> Reqs \cup {NoReq}] /\ meshRequestSlot' \in Reqs \cup {NoReq}
        /\ adminSentQueue' \subseteq Reqs
    BY <1>1, <1>2, <1>4 DEF TypeOK, ClaimMeshRequestSlot
  <2> QED
    BY <1>3, <1>4, <1>5, <2>1, <2>2, <2>3 DEF TypeOK
<1>12. Stamped'
  <2>1. \A c \in Reqs : IF c <= issued THEN kind[c] # "none" /\ node[c] \in Nodes
                                       ELSE kind[c] = "none" /\ tagOf'[c] = NoReq
    BY <1>4, <1>6, <1>9 DEF Stamped
  <2> QED
    BY <1>1, <1>3, <1>4, <1>6, <1>9, <2>1 DEF Stamped
<1>13. HoldersKnown'
  <2>1. ASSUME NEW k \in Reqs, tags'[k] # NoReq
        PROVE  \/ kind[tags'[k]] = "trace" /\ tags'[k] = k
               \/ kind[tags'[k]] = "tagged" /\ tagOf'[tags'[k]] = k
    <3>1. CASE tagged /\ k = t
      BY <1>1, <1>6, <3>1 DEF tagged
    <3>2. CASE ~(tagged /\ k = t)
      <4>1. tags'[k] = tags[k] /\ tags[k] # NoReq
        BY <1>6, <2>1, <3>2
      <4>2. tags[k] \in Reqs
        BY <1>4, <4>1, HoldersAre
      <4> QED
        BY <1>4, <1>6, <1>9, <4>1, <4>2 DEF HoldersKnown
    <3> QED
      BY <3>1, <3>2
  <2>2. ASSUME NEW n \in Nodes, logins'[n] # NoReq
        PROVE  /\ kind[logins'[n]] = "login" /\ node[logins'[n]] = n
               /\ outcome'[logins'[n]] = "pending"
    <3>1. n \notin CancelledLogins /\ logins'[n] = logins[n] /\ logins[n] # NoReq
      BY <1>6, <2>2
    <3>2. /\ kind[logins[n]] = "login" /\ node[logins[n]] = n /\ outcome[logins[n]] = "pending"
          /\ logins[n] \in Reqs
      BY <1>4, <3>1, HoldersAre DEF HoldersKnown
    <3>3. logins[n] \notin Displaced
      BY <1>4, <1>8, <3>1, <3>2 DEF CancelledLogins
    <3> QED
      BY <1>7, <1>10, <3>1, <3>2, <3>3
  <2> QED
    BY <1>3, <2>1, <2>2 DEF HoldersKnown
<1>14. QueueIsBehind'
  <2>1. \A c \in adminSentQueue' : c \in Reqs /\ c # h /\ h <= c /\ tagOf[c] = NoReq
    BY <1>1, <1>4 DEF QueueIsBehind, TypeOK
  <2> QED
    BY <1>1, <1>6, <2>1 DEF QueueIsBehind, Reqs
<1>15. Waits'
  <2> SUFFICES ASSUME NEW d \in Reqs, outcome'[d] = "pending"
               PROVE  \/ kind[d] = "tagged" /\ d \in adminSentQueue'
                      \/ kind[d] = "tagged" /\ tagOf'[d] # NoReq /\ tags'[tagOf'[d]] = d
                      \/ kind[d] = "status" /\ d \in writing
                      \/ kind[d] = "login" /\ logins'[node[d]] = d
                      \/ kind[d] = "trace" /\ tags'[d] = d
    BY <1>3 DEF Waits
  <2>1. outcome[d] = "pending" /\ d \notin Displaced /\ ~(tagged /\ d = tags[t])
    BY <1>7
  <2>2. \A k \in Reqs : tags[k] = d => tags'[k] = d
    BY <1>6, <1>8, <2>1
  <2>3. \A n \in Nodes : logins[n] = d => logins'[n] = d
    BY <1>6, <1>8, <2>1
  <2>4. CASE d = h /\ kind[d] = "tagged"
    BY <1>1, <1>4, <1>6, <2>1, <2>4 DEF tagged
  <2>5. CASE d # h /\ kind[d] = "tagged"
    <3>1. tagOf'[d] = tagOf[d] /\ (d \in adminSentQueue => d \in adminSentQueue')
      BY <1>1, <1>6, <2>5
    <3>2. tagOf[d] \in Reqs \cup {NoReq}
      BY <1>4 DEF TypeOK
    <3> QED
      BY <1>4, <2>1, <2>2, <2>5, <3>1, <3>2 DEF Waits
  <2>6. CASE kind[d] # "tagged"
    <3>1. kind[d] = "login" => node[d] \in Nodes
      BY <1>4 DEF Stamped
    <3> QED
      BY <1>4, <2>1, <2>2, <2>3, <2>6, <3>1 DEF Waits
  <2> QED
    BY <2>4, <2>5, <2>6
<1>16. LoginsOfLink' /\ SessionsEndWithLink' /\ LoginsAreOwn'
  <2>1. \A n \in Nodes : logins'[n] \in {logins[n], NoReq}
    BY <1>6
  <2>2. \A c \in Reqs : outcome'[c] = "ok" => outcome[c] = "ok"
    BY <1>7
  <2>3. LoginsOfLink'
    BY <1>3, <2>1, <2>2, AllIssued DEF IInv, LoginsOfLink
  <2>4. SessionsEndWithLink'
    BY <1>3 DEF IInv, SessionsEndWithLink
  <2>5. \A c \in inflight \cup onAir \cup Told({"reply", "loginFail"}) :
          kind[c] = "login" => node[c] \in Nodes
    BY <1>4, AllIssued DEF Stamped
  <2>6. LoginsAreOwn'
    BY <1>3, <1>5, <2>1, <2>5 DEF IInv, LoginsAreOwn
  <2> QED
    BY <2>3, <2>4, <2>6
\* From here on, the queue is in step: the slot is that of the answer received.
<1>17. ~slipped => h = t /\ adminSentQueue' = Owed'
  BY <1>1, HeadIs
<1>18. SlotsMatchAnswers'
  BY <1>3, <1>17 DEF SlotsMatchAnswers
<1>19. TagsAreOwn'
  <2> SUFFICES ASSUME ~slipped, NEW k \in Reqs, tags'[k] # NoReq
               PROVE  tags'[k] = k /\ outcome'[k] = "pending" /\ (kind[k] = "tagged" => k \in taken)
    BY <1>3 DEF TagsAreOwn
  <2>1. h = t /\ TagsAreOwn
    BY <1>17 DEF IInv
  <2>2. CASE tagged /\ k = t
    <3>1. \A x \in Reqs : tags[x] # t
      BY <1>4, <1>9, <2>1, <2>2 DEF tagged, HoldersKnown
    <3>2. t \notin Displaced
      BY <1>1, <1>8, <2>1, ClaimIs
    <3> QED
      BY <1>5, <1>6, <1>7, <2>1, <2>2, <3>1, <3>2 DEF tagged
  <2>3. CASE ~(tagged /\ k = t)
    <3>1. k \notin CancelledTags /\ tags'[k] = tags[k]
      BY <1>6, <2>3
    <3>2. tags[k] = k /\ outcome[k] = "pending" /\ (kind[k] = "tagged" => k \in taken)
      BY <2>1, <3>1 DEF TagsAreOwn
    <3>3. k \notin Displaced
      <4>1. \A x \in CancelledTags : x \in Reqs /\ tags[x] # k
        BY <1>4, <2>1, <3>1, ClaimIs DEF TagsAreOwn
      <4>2. \A n \in Nodes : logins[n] # k
        BY <1>4, <3>1, <3>2, HoldersAre
      <4> QED
        BY <4>1, <4>2, ClaimIs DEF Displaced
    <3>4. ~(tagged /\ k = tags[t])
      BY <1>4, <2>1, <2>3, <3>1 DEF TagsAreOwn
    <3> QED
      BY <1>7, <3>1, <3>2, <3>3, <3>4
  <2> QED
    BY <2>2, <2>3
<1>20. \A d \in Awaiting' \cap Reqs : d \in Awaiting \/ d = h
  <2>1. \A k \in Reqs : tags'[k] \in {tags[k], h, NoReq}
    BY <1>6
  <2>2. \A n \in Nodes : logins'[n] \in {logins[n], NoReq}
    BY <1>6
  <2> QED
    BY <1>4, <2>1, <2>2 DEF Awaiting
<1>21. OneIsPast'
  <2> SUFFICES ASSUME ~slipped, NEW d \in Awaiting' \cap Reqs, kind[d] # "trace", d \notin Owed',
                      d # h
               PROVE  FALSE
    BY <1>3, <1>6 DEF OneIsPast
  <2>1. h = t /\ TagsAreOwn
    BY <1>17 DEF IInv
  <2>2. d \in Awaiting /\ d \notin Owed
    BY <1>5, <1>20, <2>1
  <2>3. d = meshRequestSlot
    BY <2>2 DEF IInv, OneIsPast
  <2>4. ASSUME NEW k \in Reqs, tags'[k] = d PROVE FALSE
    <3>1. tags[k] = d /\ k \notin CancelledTags
      BY <1>4, <1>6, <2>4
    <3>2. outcome[d] = "pending" /\ kind[d] = "tagged" /\ tagOf[d] = k
      BY <1>4, <2>1, <3>1 DEF TagsAreOwn, HoldersKnown
    <3> QED
      BY <1>4, <2>3, <3>1, <3>2 DEF CancelledTags
  <2>5. ASSUME NEW n \in Nodes, logins'[n] = d PROVE FALSE
    BY <1>4, <1>6, <2>3, <2>5 DEF CancelledLogins
  <2> QED
    BY <2>4, <2>5 DEF Awaiting
<1>22. PastAreAlive'
  <2> SUFFICES ASSUME ~slipped, NEW d \in Reqs,
                      \/ d \in Awaiting' /\ d \notin Owed'
                      \/ d \in Told({"sent"})' /\ kind[d] # "status"
               PROVE  Alive(d)'
    BY <1>3 DEF PastAreAlive
  <2>1. h = t /\ kind[t] \in Claiming /\ kind[t] # "trace"
    BY <1>9, <1>17 DEF Claiming
  <2>2. \A x \in Reqs : kind[x] \in {"tagged", "login", "trace"} => kind[x] # "status"
    OBVIOUS
  <2>3. CASE d \in Told({"sent"})' /\ kind[d] # "status"
    <3>1. d \in Owed' /\ d \in Told({"sent"})
      BY <1>5, <2>3 DEF Told, Owed
    <3>2. Alive(d)
      BY <2>3, <3>1 DEF IInv, PastAreAlive
    <3>3. ~(t > d)
      BY <1>5, <3>1 DEF Reqs
    <3> QED
      BY <1>1, <3>2, <3>3, AliveStays
  <2>4. CASE d \in Awaiting' /\ d \notin Owed' /\ kind[d] # "trace"
    <3>1. d = t
      BY <1>3, <1>6, <1>21, <2>1, <2>4 DEF OneIsPast
    <3>2. kind[t] # "status"
      <4>1. TypeOK' /\ HoldersKnown' /\ d \in Awaiting' \cap Reqs
        BY <1>11, <1>13, <2>4
      <4>2. kind[d] \in {"login", "tagged", "trace"}
        BY <1>3, <1>4, <1>6, <1>8, <1>20, <2>1, <2>4, <3>1, <4>1, HoldersAre DEF Awaiting, tagged
      <4> QED
        BY <3>1, <4>2
    <3>3. Alive(t)
      BY <1>5, <3>2 DEF IInv, PastAreAlive
    <3>4. ~(t > t)
      BY DEF Reqs
    <3> QED
      BY <1>1, <3>1, <3>3, <3>4, AliveStays
  <2>5. CASE d \in Awaiting' /\ d \notin Owed' /\ kind[d] = "trace"
    <3>1. d \in Awaiting /\ d \notin Owed
      BY <1>5, <1>20, <2>1, <2>5
    <3>2. d \in onAir \cup Told({"reply", "loginFail"})
      BY <2>5, <3>1 DEF IInv, PastAreAlive, Alive
    <3>3. Told({"reply", "loginFail"})' = Told({"reply", "loginFail"})
      BY <1>1, ReceiveKeepsRoad
    <3> QED
      BY <1>3, <3>2, <3>3 DEF Alive
  <2> QED
    BY <2>3, <2>4, <2>5
<1>23. DisplacedIsPast'
  <2> SUFFICES ASSUME ~slipped, NEW c \in Reqs, outcome'[c] = "displaced", c > cut
               PROVE  c \notin inflight \cup onAir \cup Told({"reply", "loginFail"})'
    BY <1>3 DEF DisplacedIsPast
  <2>1. CASE outcome[c] = "displaced"
    BY <1>5, <2>1 DEF IInv, DisplacedIsPast
  <2>2. CASE c \in Displaced
    <3>1. c < t /\ kind[c] # "trace" /\ kind[t] \in Claiming
      BY <1>8, <1>9, <1>17, <2>2
    <3>2. c \notin onAir \cup Told({"reply", "loginFail"})'
      BY <1>5, <3>1 DEF Reqs
    <3>3. c \notin inflight
      BY <1>4, <1>5, <3>1 DEF TakenInOrder, Reqs
    <3> QED
      BY <3>2, <3>3
  <2> QED
    BY <1>7, <2>1, <2>2
<1> QED
  BY <1>5, <1>11, <1>12, <1>13, <1>14, <1>15, <1>16, <1>18, <1>19, <1>21, <1>22, <1>23 DEF IInv

LEMMA HandleSentKeeps ==
  ASSUME IInv, NEW t \in Reqs, HandleSent(t)
  PROVE  IInv'
<1>1. CASE \E h \in Oldest(adminSentQueue) : Claims(h)
  BY <1>1, SentClaims
<1>2. CASE \A h \in Oldest(adminSentQueue) : ~Claims(h)
  <2>1. UNCHANGED <<outcome, meshRequestSlot, tagOf, tags, logins>>
    BY <1>2 DEF HandleSent, store, Claims, Claiming
  <2> QED
    BY <1>2, <2>1, SentUnclaimed DEF HandleSent
<1> QED
  BY <1>1, <1>2

-----------------------------------------------------------------------------
(* The session.                                                            *)

\* A teardown leaves no waiter behind: what the road then needs, the step shows itself.
LEMMA ResetKeeps ==
  ASSUME IInv, ResetAdmin, cut' = issued, mixed' = mixed,
         UNCHANGED <<issued, kind, node, writing, tagOf, taken, onAir>>,
         inflight' \subseteq inflight, frames' \in Seq(Frames),
         linkUp' \in BOOLEAN, connected' \in BOOLEAN, slipped' \in BOOLEAN,
         TakenInOrder', FramesInOrder', SentDrops',
         \A w : Told(w)' \subseteq Told(w),
         ~slipped' => Owed' = {}
  PROVE  IInv'
<1> DEFINE cutOff == {c \in adminSentQueue : kind[c] = "tagged"}
                       \cup {tags[t] : t \in Reqs} \cup {logins[n] : n \in Nodes}
<1>1. /\ adminSentQueue' = {} /\ meshRequestSlot' = NoReq
      /\ tags' = [t \in Reqs |-> NoReq] /\ logins' = [n \in Nodes |-> NoReq]
      /\ sessions' = [n \in Nodes |-> NoReq]
      /\ outcome' = Settle(cutOff, "cutOff", outcome)
      /\ stray' = \E c \in writing : kind[c] = "login" /\ outcome[c] = "ok"
  BY DEF ResetAdmin
<1>2. TypeOK /\ Stamped /\ HoldersKnown /\ Waits /\ NoReq \notin Reqs
  BY HoldersAre DEF IInv
<1>3. \A d \in Reqs : outcome'[d] =
        IF d \in cutOff /\ outcome[d] = "pending" THEN "cutOff" ELSE outcome[d]
  BY <1>1, SettleIs
<1>4. \A d \in cutOff : d \in Reqs => kind[d] \in {"tagged", "trace", "login"}
  BY <1>2, HoldersAre
<1>5. /\ \A c \in adminSentQueue : kind[c] = "tagged" => c \in cutOff
      /\ \A t \in Reqs : tags[t] \in cutOff
      /\ \A n \in Nodes : logins[n] \in cutOff
  OBVIOUS
<1> HIDE DEF cutOff
<1>6. TypeOK'
  <2>1. "cutOff" \in Outcomes /\ \A d \in cutOff : d \in Reqs => "cutOff" \in OutcomesOf(kind[d])
    BY <1>4, OutcomesAre DEF Outcomes
  <2>2. \A c \in cutOff : c \in Reqs /\ outcome[c] = "pending" => "cutOff" \in OutcomesOf(kind[c])
    BY <2>1
  <2>3. outcome' \in [Reqs -> Outcomes] /\ \A d \in Reqs : outcome'[d] \in OutcomesOf(kind[d])
    BY <1>1, <1>2, <2>1, <2>2, SettledType
  <2>4. stray' \in BOOLEAN
    BY <1>1
  <2>5. /\ adminSentQueue' \subseteq Reqs /\ meshRequestSlot' \in Reqs \cup {NoReq}
        /\ tags' \in [Reqs -> Reqs \cup {NoReq}] /\ logins' \in [Nodes -> Reqs \cup {NoReq}]
        /\ sessions' \in [Nodes -> Reqs \cup {NoReq}]
    BY <1>1
  <2> QED
    BY <1>2, <2>3, <2>4, <2>5 DEF TypeOK
<1>7. Stamped'
  <2>1. issued \in Nat /\ inflight \subseteq Reqs
    BY <1>2, RequestsAssumption DEF TypeOK
  <2>2. \A n \in Nodes : sessions'[n] <= issued'
    BY <1>1, <2>1 DEF NoReq
  <2>3. meshRequestSlot' <= issued' /\ cut' <= issued'
    BY <1>1, <2>1 DEF NoReq
  <2> QED
    BY <1>1, <1>2, <2>2, <2>3 DEF Stamped
<1>8. Awaiting' \cap Reqs = {}
  BY <1>1, <1>2 DEF Awaiting
<1>9. HoldersKnown' /\ QueueIsBehind' /\ TagsAreOwn'
  BY <1>1 DEF HoldersKnown, QueueIsBehind, TagsAreOwn
<1>10. OneIsPast'
  BY <1>8 DEF OneIsPast
<1>11. SlotsMatchAnswers'
  BY <1>1 DEF SlotsMatchAnswers
<1>12. PastAreAlive'
  <2>1. ~slipped' => Told({"sent"})' = {}
    <3>1. Told({"sent"})' \subseteq Owed'
      BY DEF Told, Owed
    <3> QED
      BY <3>1
  <2> QED
    BY <1>8, <2>1 DEF PastAreAlive
<1>13. DisplacedIsPast'
  <2>1. ASSUME NEW c \in Reqs, outcome'[c] = "displaced" PROVE ~(c > cut')
    <3>1. outcome[c] = "displaced"
      BY <1>3, <2>1
    <3>2. c <= issued
      BY <1>2, <3>1, OutcomesAre DEF TypeOK, Stamped
    <3> QED
      BY <1>2, <3>2, RequestsAssumption DEF TypeOK, Reqs
  <2> QED
    BY <2>1 DEF DisplacedIsPast
<1>14. LoginsOfLink' /\ SessionsEndWithLink'
  <2>1. \A c \in writing : c \in Reqs
    BY <1>2 DEF TypeOK
  <2>2. \A c \in Reqs : outcome'[c] = "ok" => outcome[c] = "ok"
    BY <1>3
  <2> QED
    BY <1>1, <2>1, <2>2 DEF LoginsOfLink, SessionsEndWithLink
<1>15. LoginsAreOwn'
  <2>1. \A c \in inflight \cup onAir \cup Told({"reply", "loginFail"}) :
          kind[c] = "login" => node[c] \in Nodes
    BY <1>2, AllIssued DEF Stamped
  <2> QED
    BY <1>1, <2>1 DEF LoginsAreOwn
<1>16. Waits'
  <2> SUFFICES ASSUME NEW d \in Reqs, outcome'[d] = "pending"
               PROVE  kind[d] = "status" /\ d \in writing
    BY DEF Waits
  <2>1. outcome[d] = "pending" /\ d \notin cutOff
    BY <1>3
  <2>2. kind[d] = "login" => node[d] \in Nodes
    BY <1>2 DEF Stamped
  <2>3. tagOf[d] \in Reqs \cup {NoReq}
    BY <1>2 DEF TypeOK
  <2> QED
    BY <1>2, <1>5, <2>1, <2>2, <2>3 DEF Waits
<1> QED
  BY <1>6, <1>7, <1>9, <1>10, <1>11, <1>12, <1>13, <1>14, <1>15, <1>16 DEF IInv

LEMMA StopKeeps ==
  ASSUME IInv, Stop
  PROVE  IInv'
<1>1. /\ ResetAdmin /\ cut' = issued /\ connected' = FALSE
      /\ slipped' = (slipped \/ Owed # {})
      /\ UNCHANGED <<issued, kind, node, writing, tagOf, inflight, taken, onAir, frames, linkUp,
                     mixed>>
  BY DEF Stop, radio
<1>2. Kept
  BY <1>1 DEF Kept
<1>3. /\ TakenInOrder' /\ FramesInOrder' /\ SentDrops' /\ Owed' = Owed
      /\ \A w : Told(w)' \subseteq Told(w)
  BY <1>1, <1>2, RoadStays
<1>4. frames' \in Seq(Frames) /\ linkUp' \in BOOLEAN
  BY <1>1 DEF IInv, TypeOK
<1>5. connected' \in BOOLEAN /\ slipped' \in BOOLEAN
  BY <1>1
<1>6. ~slipped' => Owed' = {}
  BY <1>1, <1>3
<1> QED
  BY <1>1, <1>3, <1>4, <1>5, <1>6, ResetKeeps

LEMMA DisconnectKeeps ==
  ASSUME IInv, Disconnect
  PROVE  IInv'
<1>1. /\ linkUp' = FALSE /\ connected' = FALSE /\ inflight' = {} /\ frames' = <<>>
      /\ cut' = issued
      /\ UNCHANGED <<issued, kind, node, writing, tagOf, taken, onAir, mixed>>
  BY DEF Disconnect
<1>2. TypeOK /\ Stamped /\ TakenInOrder
  BY DEF IInv
<1>3. DOMAIN frames' = {} /\ frames' \in Seq(Frames)
  BY <1>1
<1>4. Owed' = {} /\ \A w : Told(w)' = {}
  BY <1>1, <1>3 DEF Owed, Told
<1>5. TakenInOrder' /\ FramesInOrder' /\ SentDrops'
  BY <1>1, <1>2, <1>3 DEF TakenInOrder, FramesInOrder, SentDrops
<1>6. linkUp' \in BOOLEAN /\ connected' \in BOOLEAN
  BY <1>1
<1>7. CASE connected /\ ResetAdmin /\ slipped' = FALSE
  <2>1. slipped' \in BOOLEAN
    BY <1>7
  <2> QED
    BY <1>1, <1>3, <1>4, <1>5, <1>6, <1>7, <2>1, ResetKeeps
<1>8. CASE /\ ~connected
           /\ slipped' = (slipped \/ adminSentQueue # {} \/ frames # <<>>)
           /\ stray' = TRUE
           /\ UNCHANGED <<outcome, adminSentQueue, meshRequestSlot, tags, logins, sessions>>
  <2>1. Awaiting' = Awaiting
    BY <1>8 DEF Awaiting
  <2>2. ~slipped' => /\ ~slipped /\ adminSentQueue = {} /\ Owed = {}
                     /\ \A w : Told(w)' = Told(w)
    <3> SUFFICES ASSUME ~slipped' PROVE /\ ~slipped /\ adminSentQueue = {} /\ Owed = {}
                                        /\ \A w : Told(w)' = Told(w)
      OBVIOUS
    <3>1. ~slipped /\ adminSentQueue = {} /\ frames = <<>>
      BY <1>8
    <3> QED
      BY <1>1, <3>1, ToldStays DEF IInv, SlotsMatchAnswers
  <2>3. TypeOK'
    <3>1. slipped' \in BOOLEAN /\ stray' \in BOOLEAN
      BY <1>8
    <3> QED
      BY <1>1, <1>2, <1>3, <1>6, <1>8, <3>1 DEF TypeOK
  <2>4. Stamped'
    <3>1. issued \in Nat
      BY <1>2, RequestsAssumption DEF TypeOK
    <3> QED
      BY <1>1, <1>2, <1>8, <3>1 DEF Stamped
  <2>5. SlotsMatchAnswers' /\ TagsAreOwn' /\ OneIsPast'
    BY <1>1, <1>4, <1>8, <2>1, <2>2 DEF IInv, SlotsMatchAnswers, TagsAreOwn, OneIsPast
  <2>6. PastAreAlive'
    <3>1. ~slipped' => \A d \in Reqs : Alive(d)' = Alive(d)
      BY <1>1, <2>2 DEF Alive
    <3> QED
      BY <1>1, <1>4, <2>1, <2>2, <3>1 DEF IInv, PastAreAlive
  <2>7. DisplacedIsPast'
    <3>1. ASSUME NEW c \in Reqs, outcome'[c] = "displaced" PROVE ~(c > cut')
      <4>1. c <= issued
        BY <1>2, <1>8, <3>1, OutcomesAre DEF TypeOK, Stamped
      <4> QED
        BY <1>1, <1>2, <4>1, RequestsAssumption DEF TypeOK, Reqs
    <3> QED
      BY <3>1 DEF DisplacedIsPast
  <2>8. LoginsOfLink' /\ SessionsEndWithLink'
    BY <1>8 DEF LoginsOfLink, SessionsEndWithLink
  <2>9. LoginsAreOwn'
    BY <1>1, <1>4, <1>8 DEF IInv, LoginsAreOwn
  <2>10. HoldersKnown' /\ QueueIsBehind' /\ Waits'
    BY <1>1, <1>8 DEF IInv, HoldersKnown, QueueIsBehind, Waits
  <2> QED
    BY <1>5, <2>3, <2>4, <2>5, <2>6, <2>7, <2>8, <2>9, <2>10 DEF IInv
<1> QED
  BY <1>7, <1>8 DEF Disconnect

-----------------------------------------------------------------------------
(* The theorems.                                                           *)

LEMMA InitOK == Init => IInv
<1> SUFFICES ASSUME Init PROVE IInv
  OBVIOUS
<1>1. /\ issued = 0 /\ cut = 0 /\ meshRequestSlot = NoReq /\ NoReq = 0
      /\ kind = [c \in Reqs |-> "none"] /\ node = [c \in Reqs |-> "none"]
      /\ outcome = [c \in Reqs |-> "none"]
      /\ writing = {} /\ adminSentQueue = {} /\ inflight = {} /\ taken = {} /\ onAir = {}
      /\ frames = <<>> /\ linkUp = FALSE /\ connected = FALSE
      /\ slipped = FALSE /\ mixed = FALSE /\ stray = FALSE
      /\ tagOf = [c \in Reqs |-> NoReq] /\ tags = [c \in Reqs |-> NoReq]
      /\ logins = [n \in Nodes |-> NoReq] /\ sessions = [n \in Nodes |-> NoReq]
  BY DEF Init, NoReq
<1>2. /\ MaxReqs \in Nat /\ \A c \in Reqs : c \in Nat /\ c > 0
      /\ DOMAIN frames = {} /\ frames \in Seq(Frames)
  BY <1>1, RequestsAssumption DEF Reqs
<1>3. TypeOK
  <2>1. 0 \in 0..MaxReqs /\ "none" \in Outcomes
    BY <1>2 DEF Outcomes
  <2>2. slipped \in BOOLEAN /\ mixed \in BOOLEAN /\ stray \in BOOLEAN
        /\ linkUp \in BOOLEAN /\ connected \in BOOLEAN
    BY <1>1
  <2> QED
    BY <1>1, <1>2, <2>1, <2>2, OutcomesAre DEF TypeOK
<1>4. Owed = {} /\ \A w : Told(w) = {}
  BY <1>1, <1>2 DEF Owed, Told
<1>5. Awaiting \cap Reqs = {}
  BY <1>1, <1>2 DEF Awaiting
<1>6. Stamped
  BY <1>1, <1>2 DEF Stamped
<1>7. TakenInOrder /\ FramesInOrder /\ SentDrops
  BY <1>1, <1>2 DEF TakenInOrder, FramesInOrder, SentDrops
<1>8. HoldersKnown /\ QueueIsBehind /\ TagsAreOwn /\ SlotsMatchAnswers
  BY <1>1, <1>4 DEF HoldersKnown, QueueIsBehind, TagsAreOwn, SlotsMatchAnswers
<1>9. Waits /\ DisplacedIsPast
  BY <1>1 DEF Waits, DisplacedIsPast
<1>10. OneIsPast /\ PastAreAlive
  BY <1>4, <1>5 DEF OneIsPast, PastAreAlive
<1>11. LoginsOfLink /\ SessionsEndWithLink /\ LoginsAreOwn
  BY <1>1, <1>4 DEF LoginsOfLink, SessionsEndWithLink, LoginsAreOwn
<1> QED
  BY <1>3, <1>6, <1>7, <1>8, <1>9, <1>10, <1>11 DEF IInv

LEMMA NextKeeps == IInv /\ [Next]_vars => IInv'
<1> SUFFICES ASSUME IInv, [Next]_vars PROVE IInv'
  OBVIOUS
<1>1. ASSUME NEW k \in Kinds, NEW n \in Nodes, Issue(k, n) PROVE IInv'
  BY <1>1, IssueKeepsRadio, IssueKeepsStore DEF IInv
<1>2. ASSUME NEW k \in Kinds, NEW n \in Nodes, IssueClosed(k, n) PROVE IInv'
  BY <1>2, IssueClosedKeeps
<1>3. ASSUME NEW c \in Reqs, \/ Written(c) \/ WriteFails(c) \/ Abort(c)
                             \/ HandleSent(c) \/ HandleErr(c) \/ HandleReply(c) \/ HandleLogin(c)
      PROVE  IInv'
  BY <1>3, WrittenKeeps, WriteFailsKeeps, AbortKeeps, HandleSentKeeps, HandleErrKeeps,
     HandleReplyKeeps, HandleLoginKeeps
<1>4. ASSUME NEW c \in Reqs, NEW answer \in {"sent", "err", "lost"}, RadioTakes(c, answer)
      PROVE  IInv'
  BY <1>4, RadioTakesKeeps
<1>5. ASSUME NEW c \in Reqs, NEW answer \in {"reply", "loginFail"}, RadioReplies(c, answer)
      PROVE  IInv'
  BY <1>5, RadioRepliesKeeps
<1>6. ASSUME NEW n \in Nodes, Logout(n) PROVE IInv'
  BY <1>6, LogoutKeeps
<1>7. CASE Timers
  BY <1>7, SentTimerKeeps, TagTimerKeeps, LoginTimerKeeps DEF Timers
<1>8. CASE Connect
  BY <1>8, ConnectKeeps
<1>9. CASE Disconnect
  BY <1>9, DisconnectKeeps
<1>10. CASE Stop
  BY <1>10, StopKeeps
<1>11. CASE UNCHANGED vars
  <2>1. UNCHANGED <<issued, kind, node, outcome, writing, adminSentQueue, meshRequestSlot, tagOf,
                    tags, logins, sessions, inflight, taken, onAir, frames, linkUp, connected,
                    slipped, mixed, cut, stray>>
    BY <1>11 DEF vars, store, radio, link, history
  <2>2. Kept
    BY <2>1 DEF Kept
  <2>3. Owed' = Owed /\ Awaiting' = Awaiting /\ \A w : Told(w)' = Told(w)
    BY <2>1, <2>2, RoadStays DEF Awaiting
  <2>4. TypeOK' /\ Stamped' /\ TakenInOrder' /\ FramesInOrder' /\ SentDrops' /\ HoldersKnown'
    BY <2>1 DEF IInv, TypeOK, Stamped, TakenInOrder, FramesInOrder, SentDrops, HoldersKnown
  <2>5. QueueIsBehind' /\ Waits' /\ SlotsMatchAnswers' /\ TagsAreOwn' /\ OneIsPast'
    BY <2>1, <2>3 DEF IInv, QueueIsBehind, Waits, SlotsMatchAnswers, TagsAreOwn, OneIsPast
  <2>6. PastAreAlive' /\ DisplacedIsPast' /\ LoginsOfLink' /\ SessionsEndWithLink' /\ LoginsAreOwn'
    BY <2>1, <2>3 DEF IInv, PastAreAlive, Alive, DisplacedIsPast, LoginsOfLink,
                      SessionsEndWithLink, LoginsAreOwn
  <2> QED
    BY <2>4, <2>5, <2>6 DEF IInv
<1> QED
  BY <1>1, <1>2, <1>3, <1>4, <1>5, <1>6, <1>7, <1>8, <1>9, <1>10, <1>11 DEF Next

\* The strengthening that the results below rest on: who is in the store, what the queue
\* and the frames on the way have in common, and who waits past its RESP_SENT.
THEOREM Inductive == Spec => []IInv
<1>1. Init => IInv
  BY InitOK
<1>2. IInv /\ [Next]_vars => IInv'
  BY NextKeeps
<1> QED
  BY <1>1, <1>2, PTL DEF Spec

\* Type correctness; a caller that waits is remembered in a slot, in the store or by its
\* write, and until a slot slips the slots parked are those whose answer is to come
\* (parkAdminSent, unparkAdminSent, AdminSessionStore).
THEOREM WaitersFound == Spec => []WaitersAreFound
<1>1. IInv => WaitersAreFound
  <2> SUFFICES ASSUME IInv PROVE WaitersAreFound
    OBVIOUS
  <2>1. ASSUME NEW c \in Reqs, outcome[c] = "pending"
        PROVE  \/ kind[c] = "tagged" /\ c \in adminSentQueue
               \/ kind[c] = "status" /\ c \in writing
               \/ c \in Awaiting
    <3>1. /\ tagOf[c] \in Reqs \cup {NoReq}
          /\ kind[c] = "login" => node[c] \in Nodes
      BY DEF IInv, TypeOK, Stamped
    <3> QED
      BY <2>1, <3>1 DEF IInv, Waits, Awaiting
  <2> QED
    BY <2>1 DEF WaitersAreFound, PendingIsHeld, IInv
<1> QED
  BY <1>1, Inductive, PTL

\* claimMeshRequestSlot fails the request whose reply the radio has given up, and no
\* other: no reply of the one failed is to come, and no other waits for a reply that is not.
THEOREM SlotIsRight == Spec => []SlotFollowsRadio
<1>1. IInv => SlotFollowsRadio
  <2> SUFFICES ASSUME IInv PROVE SlotFollowsRadio
    OBVIOUS
  <2>1. DisplacedIsSilent
    BY DEF IInv, DisplacedIsPast, DisplacedIsSilent
  <2>2. HopelessIsFailed
    BY DEF IInv, PastAreAlive, Alive, HopelessIsFailed
  <2> QED
    BY <2>1, <2>2 DEF SlotFollowsRadio
<1> QED
  BY <1>1, Inductive, PTL

\* resetAdmin drops every session with the link, and no older login sets one behind it.
THEOREM SessionsAreOfLink == Spec => []SessionsEndWithLink
<1>1. IInv => SessionsEndWithLink
  BY DEF IInv
<1> QED
  BY <1>1, Inductive, PTL

\* A step that takes the first frame off a link that stays up is the handling of that frame.
LEMMA ReplyIsHandled ==
  ASSUME IInv, [Next]_vars, NEW c \in Reqs, frames # <<>>, linkUp', frames' = Tail(frames),
         Head(frames) \in {"reply", "loginFail"} \X {c}
  PROVE  HandleReply(c) \/ HandleLogin(c)
<1>1. frames \in Seq(Frames)
  BY DEF IInv, TypeOK
<1>2. frames' # frames /\ Head(frames)[1] \in {"reply", "loginFail"} /\ Head(frames)[2] = c
  <2>1. /\ Len(frames) \in Nat /\ Len(frames) >= 1
        /\ DOMAIN frames = 1..Len(frames) /\ DOMAIN frames' = 1..(Len(frames) - 1)
    BY <1>1, FrameTaken
  <2>2. Len(frames) \in DOMAIN frames /\ Len(frames) \notin DOMAIN frames'
    BY <2>1
  <2> QED
    BY <2>2
<1>3. \A f \in Frames : frames' # Append(frames, f)
  <2> SUFFICES ASSUME NEW f \in Frames, frames' = Append(frames, f) PROVE FALSE
    OBVIOUS
  <2>1. Len(frames) \in Nat /\ DOMAIN frames' = 1..(Len(frames) - 1)
    BY <1>1, FrameTaken
  <2>2. DOMAIN frames' = 1..(Len(frames) + 1)
    BY <1>1, FrameAdded
  <2>3. Len(frames) + 1 \in DOMAIN frames'
    BY <2>1, <2>2
  <2> QED
    BY <2>1, <2>3
<1>4. \A x \in Reqs : ~HandleSent(x) /\ ~HandleErr(x)
  BY <1>2 DEF HandleSent, HandleErr, Receive
<1>5. \A x \in Reqs : HandleReply(x) \/ HandleLogin(x) => x = c
  BY <1>2 DEF HandleReply, HandleLogin, Receive
<1>6. ~Disconnect
  BY DEF Disconnect
<1>7. \A k \in Kinds, n \in Nodes : ~Issue(k, n) /\ ~IssueClosed(k, n)
  BY <1>2 DEF Issue, IssueClosed, radio
<1>8. \A x \in Reqs : ~Written(x) /\ ~WriteFails(x) /\ ~Abort(x)
  BY <1>2 DEF Written, WriteFails, Abort, radio
<1>9. \A n \in Nodes : ~Logout(n)
  BY <1>2 DEF Logout, radio
<1>10. ~Timers /\ ~Connect /\ ~Stop
  BY <1>2 DEF Timers, SentTimerFires, TagTimerFires, LoginTimerFires, Connect, Stop, radio
<1>11. \A x \in Reqs, answer \in {"sent", "err", "lost"} : ~RadioTakes(x, answer)
  <2>1. \A x \in Reqs : <<"err", x>> \in Frames /\ <<"sent", x>> \in Frames
    BY DEF Frames
  <2> QED
    BY <1>2, <1>3, <2>1 DEF RadioTakes
<1>12. \A x \in Reqs, answer \in {"reply", "loginFail"} : ~RadioReplies(x, answer)
  <2>1. \A x \in Reqs, answer \in {"reply", "loginFail"} : <<answer, x>> \in Frames
    BY DEF Frames
  <2> QED
    BY <1>2, <1>3, <2>1 DEF RadioReplies
<1>13. frames' = frames \/ Next
  BY DEF vars, radio
<1> QED
  BY <1>2, <1>4, <1>5, <1>6, <1>7, <1>8, <1>9, <1>10, <1>11, <1>12, <1>13 DEF Next

\* A reply settles the request it answers and no other: resolveTag finds the awaiter by the
\* request's own tag, and a login's answer by its node if no other login's answer was to come.
THEOREM RepliesAreOwn == Spec => ReplyFindsItsOwn
<1> DEFINE Own == \A c \in Reqs :
             /\ frames # <<>> /\ linkUp' /\ ~slipped /\ ~mixed
             /\ frames' = Tail(frames) /\ Head(frames) \in {"reply", "loginFail"} \X {c}
             => \A d \in Reqs : outcome'[d] # outcome[d] <=> d = c /\ outcome[c] = "pending"
<1>1. IInv /\ [Next]_vars => Own
  <2> SUFFICES ASSUME IInv, [Next]_vars, NEW c \in Reqs, frames # <<>>, linkUp', ~slipped, ~mixed,
                      frames' = Tail(frames), Head(frames) \in {"reply", "loginFail"} \X {c},
                      NEW d \in Reqs
               PROVE  outcome'[d] # outcome[d] <=> d = c /\ outcome[c] = "pending"
    OBVIOUS
  <2>1. /\ TypeOK /\ Stamped /\ HoldersKnown /\ Waits /\ TagsAreOwn /\ SlotsMatchAnswers
        /\ NoReq \notin Reqs
    BY HoldersAre DEF IInv
  <2>2. CASE HandleReply(c)
    <3>1. /\ kind[c] \in {"tagged", "trace"} /\ Receive("reply", c)
          /\ outcome' = Settle({tags[c]}, "ok", outcome)
      BY <2>2 DEF HandleReply
    <3>2. outcome'[d] = IF d = tags[c] /\ outcome[d] = "pending" THEN "ok" ELSE outcome[d]
      BY <3>1, SettleIs
    <3>3. c \notin adminSentQueue
      BY <2>1, <3>1, ReceiveKeepsRoad DEF SlotsMatchAnswers
    <3>4. tags[c] # NoReq => tags[c] = c
      BY <2>1 DEF TagsAreOwn
    <3>5. outcome[c] = "pending" => tags[c] = c
      <4>1. tagOf[c] \in Reqs \cup {NoReq}
        BY <2>1 DEF TypeOK
      <4> QED
        BY <2>1, <3>1, <3>3, <4>1 DEF Waits, TagsAreOwn
    <3> QED
      BY <2>1, <3>2, <3>4, <3>5
  <2>3. CASE HandleLogin(c)
    <3>1. PICK how \in {"ok", "loginFailed"}, what \in {"reply", "loginFail"} :
            /\ kind[c] = "login" /\ Receive(what, c)
            /\ outcome' = Settle({logins[node[c]]}, how, outcome)
      BY <2>3 DEF HandleLogin
    <3>2. outcome'[d] = IF d = logins[node[c]] /\ outcome[d] = "pending" THEN how ELSE outcome[d]
      BY <3>1, SettleIs
    <3>3. c \in Told({"reply", "loginFail"})
      BY <3>1, ReceiveKeepsRoad
    <3>4. logins[node[c]] \in {NoReq, c}
      BY <3>1, <3>3 DEF IInv, LoginsAreOwn
    <3>5. outcome[c] = "pending" => logins[node[c]] = c
      BY <2>1, <3>1 DEF Waits
    <3> QED
      BY <2>1, <3>1, <3>2, <3>4, <3>5
  <2> QED
    BY <2>2, <2>3, ReplyIsHandled
<1> QED
  BY Inductive, <1>1, PTL DEF Spec, ReplyFindsItsOwn
=============================================================================

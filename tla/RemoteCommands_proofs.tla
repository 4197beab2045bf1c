------------------------- MODULE RemoteCommands_proofs -------------------------
(***************************************************************************)
(* Proofs about RemoteCommands, for any repeaters, kinds of statistics and *)
(* numbers of calls and link drops.                                        *)
(*                                                                         *)
(* The argument: while no slot has gone early the slots are those of the   *)
(* commands the radio has yet to take, so its next answer finds the slot of *)
(* its own command; each place holds the latest pending call of its kind;  *)
(* and an answer, once given, is nowhere left to be given again.           *)
(***************************************************************************)
EXTENDS RemoteCommands, TLAPS

Issued == 1..issued

\* Every call asks one of the operations of a target of that operation, and none
\* is settled before it is made.
CallsOK ==
  /\ \A c \in Issued : op[c] \in Ops /\ target[c] \in TargetsOf(op[c])
  /\ \A c \in Calls \ Issued : outcome[c] = Pending

\* Call p is pending, and the latest of those that ask o of a target in T.
Latest(p, o, T) ==
  /\ op[p] = o /\ target[p] \in T /\ outcome[p] = Pending
  /\ \A d \in Issued : op[d] = o /\ target[d] \in T => d <= p

\* A place is empty, or has the latest pending call of its kind.
PlacesOK ==
  /\ \A n \in Nodes : pendingCli[n] # 0 => Latest(pendingCli[n], "cli", {n})
  /\ pendingLocalStats # 0 => Latest(pendingLocalStats, "stats", Kinds)
  /\ pendingDiscovery # 0 => Latest(pendingDiscovery, "discover", Nodes)

\* The slots are in step with the radio, or with the writes about to fail.
InStep ==
  IF linkUp THEN ~slipped => slots = inflight
  ELSE inflight = {} /\ slots \subseteq writing

\* The slot a RESP_SENT goes to is of a newer call than the claim it displaces, and
\* a discovery that has left the slots has the radio's one mesh-request slot.
ClaimsOK ==
  /\ \A d \in slots : op[d] # "stats" => meshRequestSlot < d
  /\ ~slipped /\ pendingDiscovery \notin slots \cup {0} =>
       tracked = pendingDiscovery /\ meshRequestSlot = pendingDiscovery

\* What the radio may yet reply to, it has taken.
RadioOK ==
  /\ \A c \in onAir : op[c] = "cli" /\ c \notin inflight
  /\ tracked # 0 => op[tracked] \in {"discover", "status"} /\ tracked \notin inflight

\* The answer to call b, given once, is nowhere left to be given.
Spent(b, o) ==
  /\ b \in Issued \ inflight
  /\ o = "cli" => b \notin onAir
  /\ o = "discover" => tracked # b
AnswersSpent ==
  \A d \in Issued : outcome[d][1] = "ok" => Spent(outcome[d][2], op[d])

\* The inductive invariant.
IInv ==
  /\ TypeOK
  /\ CallsOK
  /\ PlacesOK
  /\ NobodyIsForgotten
  /\ InStep
  /\ ClaimsOK
  /\ RadioOK
  /\ AnswersSpent

-----------------------------------------------------------------------------
(* Settling.                                                               *)

\* The calls of S that have not settled.
Open(S) == {c \in S : outcome[c] = Pending}

\* The open calls of S end so, and leave their places; the rest stay as they are.
Ending(S, how) ==
  /\ outcome' = [c \in Calls |-> IF c \in Open(S) THEN how ELSE outcome[c]]
  /\ Vacate(Open(S))
  /\ UNCHANGED calls

\* The stamps are calls.
LEMMA IssuedAreCalls ==
  ASSUME TypeOK
  PROVE  Issued \subseteq Calls /\ 0 \notin Calls /\ issued \in Nat
BY BoundsAssumption DEF TypeOK, Issued, Calls

\* Fail is an ending.
LEMMA FailEnds ==
  ASSUME NEW S, NEW end, NEW by, Fail(S, end, by), UNCHANGED calls
  PROVE  Ending(S, <<end, by>>)
BY DEF Fail, Reject, Settled, Ending, Open

\* So is an answer to the call in a place.
LEMMA AnswerEnds ==
  ASSUME TypeOK, PlacesOK, NEW by, NEW o \in {"cli", "stats", "discover"},
         NEW t, o = "cli" => t \in Nodes,
         NEW S \in SUBSET Awaited(o, t), Resolve(S, by), Vacate(S), UNCHANGED calls
  PROVE  Ending(S, <<"ok", by>>)
<1>1. \A c \in S : outcome[c] = Pending
  BY DEF Awaited, PlacesOK, Latest
<1> QED
  BY <1>1 DEF Resolve, Settled, Ending, Open

\* So is a confirmation of commands without a reply, which have no places.
LEMMA ConfirmEnds ==
  ASSUME TypeOK, PlacesOK, NEW by, NEW S, \A c \in S : c # 0 /\ op[c] = "fire",
         Resolve(S, by), UNCHANGED places, UNCHANGED calls
  PROVE  Ending(S, <<"ok", by>>)
<1>1. /\ \A n \in Nodes : pendingCli[n] \notin S
      /\ pendingLocalStats \notin S /\ pendingDiscovery \notin S
  BY DEF PlacesOK, Latest
<1>2. Vacate(Open(S))
  BY <1>1 DEF Vacate, Open, places, TypeOK
<1> QED
  BY <1>2 DEF Resolve, Settled, Ending, Open

\* So is a step that settles nothing.
LEMMA NothingEnds ==
  ASSUME TypeOK, UNCHANGED outcome, UNCHANGED places, UNCHANGED calls, NEW how
  PROVE  Ending({}, how)
BY DEF Ending, Open, Vacate, TypeOK, places

\* What an ending leaves: types, places in order, and nobody forgotten, if the
\* commands without a reply that lose their slots are among those that end.
LEMMA EndingKeeps ==
  ASSUME IInv, NEW S \in SUBSET Issued, NEW how \in Ends \X (Calls \cup {0}), Ending(S, how),
         slots' \subseteq slots,
         \A c \in slots \ slots' : op[c] = "fire" => c \in S
  PROVE  /\ outcome' \in [Calls -> Outcomes]
         /\ pendingCli' \in [Nodes -> 0..issued]
         /\ pendingLocalStats' \in 0..issued /\ pendingDiscovery' \in 0..issued
         /\ CallsOK' /\ PlacesOK' /\ NobodyIsForgotten'
<1> USE IssuedAreCalls
<1>0. how # Pending /\ how \in Outcomes
  BY DEF Ends, Outcomes, Pending
<1>1. /\ outcome' \in [Calls -> Outcomes]
      /\ \A c \in Calls : outcome'[c] = IF c \in S /\ outcome[c] = Pending THEN how ELSE outcome[c]
  BY <1>0 DEF IInv, TypeOK, Ending, Open
<1>2. /\ pendingCli' \in [Nodes -> 0..issued]
      /\ \A n \in Nodes : pendingCli'[n] = IF pendingCli[n] \in Open(S) THEN 0 ELSE pendingCli[n]
      /\ pendingLocalStats' = IF pendingLocalStats \in Open(S) THEN 0 ELSE pendingLocalStats
      /\ pendingDiscovery' = IF pendingDiscovery \in Open(S) THEN 0 ELSE pendingDiscovery
      /\ pendingLocalStats' \in 0..issued /\ pendingDiscovery' \in 0..issued
  BY DEF IInv, TypeOK, Ending, Vacate
<1>3. UNCHANGED <<issued, op, target>> /\ Issued' = Issued
  BY DEF Ending, calls, Issued
<1>4. ASSUME NEW p \in Issued, NEW o, NEW T, Latest(p, o, T), p \notin Open(S)
      PROVE  /\ op'[p] = o /\ target'[p] \in T /\ outcome'[p] = Pending
             /\ \A d \in Issued' : op'[d] = o /\ target'[d] \in T => d <= p
  BY <1>1, <1>3, <1>4 DEF Latest, Open, IInv
<1>5. PlacesOK'
  <2>1. ASSUME NEW n \in Nodes, pendingCli'[n] # 0
        PROVE  Latest(pendingCli[n], "cli", {n})'
    <3>1. /\ pendingCli'[n] = pendingCli[n] /\ pendingCli[n] # 0
          /\ pendingCli[n] \in Issued \ Open(S)
      BY <1>2, <2>1 DEF IInv, TypeOK, Issued
    <3>2. Latest(pendingCli[n], "cli", {n})
      BY <3>1 DEF IInv, PlacesOK
    <3>3. /\ op'[pendingCli[n]] = "cli" /\ target'[pendingCli[n]] \in {n}
          /\ outcome'[pendingCli[n]] = Pending
          /\ \A d \in Issued' : op'[d] = "cli" /\ target'[d] \in {n} => d <= pendingCli[n]
      BY <1>4, <3>1, <3>2
    <3> QED
      BY <3>1, <3>3 DEF Latest
  <2>2. pendingLocalStats' # 0 => Latest(pendingLocalStats, "stats", Kinds)'
    BY <1>2, <1>4 DEF PlacesOK, IInv, TypeOK, Issued, Latest
  <2>3. pendingDiscovery' # 0 => Latest(pendingDiscovery, "discover", Nodes)'
    BY <1>2, <1>4 DEF PlacesOK, IInv, TypeOK, Issued, Latest
  <2> QED
    BY <2>1, <2>2, <2>3 DEF PlacesOK
<1>6. CallsOK'
  BY <1>1, <1>3 DEF CallsOK, IInv, TargetsOf
<1>7. NobodyIsForgotten'
  <2> SUFFICES ASSUME NEW c \in Issued, outcome'[c] = Pending, op[c] # "status"
               PROVE  c \in IF op[c] = "fire" THEN slots' ELSE Awaited(op[c], target[c])'
    BY <1>3 DEF NobodyIsForgotten, Issued
  <2>1. outcome[c] = Pending /\ c \notin S
    BY <1>0, <1>1, IssuedAreCalls DEF IInv
  <2>2. c \in IF op[c] = "fire" THEN slots ELSE Awaited(op[c], target[c])
    BY <2>1 DEF IInv, NobodyIsForgotten, Issued
  <2>3. c \notin Open(S) /\ op[c] \in Ops /\ target[c] \in TargetsOf(op[c])
    BY <2>1 DEF Open, IInv, CallsOK
  <2>4. ASSUME op[c] # "fire"
        PROVE  Awaited(op[c], target[c])' = Awaited(op[c], target[c])
    <3>1. CASE op[c] = "cli"
      BY <1>2, <1>3, <2>2, <2>3, <3>1 DEF Awaited, TargetsOf
    <3>2. CASE op[c] = "stats"
      BY <1>2, <1>3, <2>2, <2>3, <3>2 DEF Awaited
    <3>3. CASE op[c] = "discover"
      BY <1>2, <1>3, <2>2, <2>3, <3>3 DEF Awaited
    <3> QED
      BY <2>3, <2>4, <3>1, <3>2, <3>3 DEF Ops
  <2> QED
    BY <2>1, <2>2, <2>4
<1> QED
  BY <1>1, <1>2, <1>5, <1>6, <1>7

-----------------------------------------------------------------------------
(* What a step may do to the promises.                                     *)

\* An answer to call b is the answer call c asked for.
Answers(b, c) ==
  IF op[c] = "fire" THEN ~slipped => b = c
  ELSE op[b] = op[c] /\ target[b] = target[c] /\ b <= c

\* The step of AnswersAreOwn.
OwnAnswers ==
  \A c \in Calls : outcome[c] = Pending /\ outcome'[c][1] = "ok" =>
    LET b == outcome'[c][2]
    IN  /\ Answers(b, c)
        /\ \A d \in Calls \ {c} : op[d] = op[c] => outcome'[d] # <<"ok", b>>

\* The step of FailuresAreOwn, but for what it says of discoveries.
OwnFailures ==
  \A c \in Calls : outcome[c] = Pending /\ outcome'[c][1] \in {"refused", "superseded"} =>
    LET b == outcome'[c][2]
    IN  IF outcome'[c][1] = "refused"
        THEN ~slipped => b = c
        ELSE /\ c < b
             /\ \/ op'[b] = op[c] /\ (op[c] = "cli" => target'[b] = target[c])
                \/ op[c] = "discover" /\ op[b] = "status"

\* A step that ends calls settles open ones, and these only, as it says.
LEMMA EndingSettles ==
  ASSUME IInv, NEW S \in SUBSET Issued, NEW how \in Ends \X (Calls \cup {0}), Ending(S, how)
  PROVE  \A c \in Calls :
           \/ c \in S /\ outcome[c] = Pending /\ outcome'[c] = how
           \/ outcome'[c] = outcome[c] /\ (outcome[c] = Pending => c \notin S)
BY IssuedAreCalls DEF Ending, Open, IInv

\* A call is answered by what it asked if it is the only one told, and the answer
\* has not been given.
LEMMA EndingAnswers ==
  ASSUME IInv, NEW S \in SUBSET Issued, NEW end \in Ends, NEW by \in Calls \cup {0},
         Ending(S, <<end, by>>),
         end = "ok" => /\ by # 0 /\ \A c, d \in S : c = d
                       /\ \A c \in S : Answers(by, c) /\ ~Spent(by, op[c])
  PROVE  OwnAnswers
<1> USE IssuedAreCalls
<1> SUFFICES ASSUME NEW c \in Calls, outcome[c] = Pending, outcome'[c][1] = "ok"
             PROVE  /\ Answers(outcome'[c][2], c)
                    /\ \A d \in Calls \ {c} :
                         op[d] = op[c] => outcome'[d] # <<"ok", outcome'[c][2]>>
  BY DEF OwnAnswers
<1>1. \A d \in Calls : \/ d \in S /\ outcome[d] = Pending /\ outcome'[d] = <<end, by>>
                       \/ outcome'[d] = outcome[d] /\ (outcome[d] = Pending => d \notin S)
  BY EndingSettles
<1>2. c \in S /\ outcome'[c] = <<end, by>> /\ end = "ok"
  BY <1>1 DEF Pending
<1>3. ASSUME NEW d \in Calls \ {c}, op[d] = op[c]
      PROVE  outcome'[d] # <<"ok", by>>
  <2>1. SUFFICES ASSUME outcome'[d] = <<"ok", by>>
                 PROVE  FALSE
    OBVIOUS
  <2>2. outcome'[d] = outcome[d] /\ outcome[d][1] = "ok" /\ outcome[d][2] = by
    BY <1>1, <1>2, <2>1
  <2>3. d \in Issued
    BY <2>2 DEF IInv, CallsOK, Pending
  <2> QED
    BY <1>2, <1>3, <2>2, <2>3 DEF IInv, AnswersSpent
<1> QED
  BY <1>2, <1>3

\* A call is failed on its own account if the ending says why.
LEMMA EndingFails ==
  ASSUME IInv, NEW S \in SUBSET Issued, NEW end \in Ends, NEW by \in Calls \cup {0},
         Ending(S, <<end, by>>),
         end = "refused" => \A c \in S : ~slipped => by = c,
         end = "superseded" => \A c \in S : c < by /\ op[c] = "discover"
                                                   /\ op[by] \in {"discover", "status"}
  PROVE  OwnFailures
<1> USE IssuedAreCalls
<1> SUFFICES ASSUME NEW c \in Calls, outcome[c] = Pending,
                    outcome'[c][1] \in {"refused", "superseded"}
             PROVE  LET b == outcome'[c][2]
                    IN  IF outcome'[c][1] = "refused" THEN ~slipped => b = c
                        ELSE /\ c < b
                             /\ \/ op'[b] = op[c] /\ (op[c] = "cli" => target'[b] = target[c])
                                \/ op[c] = "discover" /\ op[b] = "status"
  BY DEF OwnFailures
<1>1. c \in S /\ outcome'[c] = <<end, by>>
  BY EndingSettles DEF Pending
<1>2. op' = op
  BY DEF Ending, calls
<1> QED
  BY <1>1, <1>2

\* An answer that has been given stays nowhere to be given again.
LEMMA EndingSpends ==
  ASSUME IInv, NEW S \in SUBSET Issued, NEW end \in Ends, NEW by \in Calls \cup {0},
         Ending(S, <<end, by>>),
         inflight' \subseteq inflight, onAir' \subseteq onAir \cup inflight,
         tracked' \in {tracked, 0} \cup inflight,
         end = "ok" => \A c \in S : Spent(by, op[c])'
  PROVE  AnswersSpent'
<1> USE IssuedAreCalls
<1>1. UNCHANGED <<issued, op, target>> /\ Issued' = Issued
  BY DEF Ending, calls, Issued
<1> SUFFICES ASSUME NEW d \in Issued, outcome'[d][1] = "ok"
             PROVE  /\ outcome'[d][2] \in Issued \ inflight'
                    /\ op[d] = "cli" => outcome'[d][2] \notin onAir'
                    /\ op[d] = "discover" => tracked' # outcome'[d][2]
  BY <1>1 DEF AnswersSpent, Spent
<1>2. CASE outcome'[d] = outcome[d]
  BY <1>2 DEF IInv, AnswersSpent, Spent, Issued
<1>3. CASE d \in S /\ outcome'[d] = <<end, by>>
  BY <1>1, <1>3 DEF Spent
<1> QED
  BY <1>2, <1>3, EndingSettles DEF IInv

\* The oldest of a set of stamps is in it, and is alone.
LEMMA OldestIsOne ==
  ASSUME NEW Q \in SUBSET Nat
  PROVE  /\ Oldest(Q) \subseteq Q
         /\ \A c, d \in Oldest(Q) : c = d
BY DEF Oldest

-----------------------------------------------------------------------------
(* The steps, one lemma for each.                                          *)

\* What is shown of every step.
Step == IInv' /\ OwnAnswers /\ OwnFailures

\* What a step that ends calls shows by that.
Settles ==
  /\ outcome' \in [Calls -> Outcomes]
  /\ pendingCli' \in [Nodes -> 0..issued]
  /\ pendingLocalStats' \in 0..issued /\ pendingDiscovery' \in 0..issued
  /\ CallsOK' /\ PlacesOK' /\ NobodyIsForgotten' /\ RadioOK' /\ AnswersSpent'
  /\ OwnAnswers /\ OwnFailures

\* The promises and the places of a call that ends unanswered.
LEMMA UnansweredEnds ==
  ASSUME IInv, NEW S \in SUBSET Issued,
         NEW end \in Ends \ {"ok", "refused", "superseded"}, Ending(S, <<end, 0>>),
         slots' \subseteq slots, \A c \in slots \ slots' : op[c] = "fire" => c \in S,
         inflight' \subseteq inflight, onAir' = onAir, tracked' = tracked
  PROVE  Settles
<1>1. <<end, 0>> \in Ends \X (Calls \cup {0})
  OBVIOUS
<1>2. OwnAnswers
  BY EndingAnswers
<1>3. OwnFailures
  BY EndingFails
<1>4. AnswersSpent'
  BY EndingSpends
<1>5. RadioOK'
  BY DEF IInv, RadioOK, Ending, calls
<1> QED
  BY <1>1, <1>2, <1>3, <1>4, <1>5, EndingKeeps DEF Settles

\* onAbort: the slot stays.
LEMMA AbortStep ==
  ASSUME IInv, NEW c \in Issued, Abort(c)
  PROVE  Step
<1>1. Ending({c}, <<"aborted", 0>>)
  BY FailEnds DEF Abort
<1>2. "aborted" \in Ends \ {"ok", "refused", "superseded"}
  BY DEF Ends
<1>3. Settles
  BY <1>1, <1>2, UnansweredEnds DEF Abort, radio
<1>4. TypeOK'
  BY <1>3 DEF Settles, Abort, IInv, TypeOK, calls, radio, link
<1>5. InStep'
  BY DEF Abort, IInv, InStep, radio, link
<1>6. ClaimsOK'
  BY <1>1 DEF Abort, IInv, ClaimsOK, Ending, Vacate, calls, radio, link
<1> QED
  BY <1>3, <1>4, <1>5, <1>6 DEF Settles, IInv, Step

\* The time limit of a reply.
LEMMA TimesOutStep ==
  ASSUME IInv, NEW c \in Issued, TimesOut(c)
  PROVE  Step
<1>1. Ending({c}, <<"timeout", 0>>)
  BY FailEnds DEF TimesOut
<1>2. "timeout" \in Ends \ {"ok", "refused", "superseded"}
  BY DEF Ends
<1>3. Settles
  BY <1>1, <1>2, UnansweredEnds DEF TimesOut, radio
<1>4. TypeOK'
  BY <1>3 DEF Settles, TimesOut, IInv, TypeOK, calls, radio, link
<1>5. InStep'
  BY DEF TimesOut, IInv, InStep, radio, link
<1>6. ClaimsOK'
  BY <1>1 DEF TimesOut, IInv, ClaimsOK, Ending, Vacate, calls, radio, link
<1> QED
  BY <1>3, <1>4, <1>5, <1>6 DEF Settles, IInv, Step

\* The write of a GET_STATS resolves.
LEMMA WrittenStep ==
  ASSUME IInv, NEW c \in Issued, Written(c)
  PROVE  Step
<1>1. Ending({}, <<"write", 0>>)
  BY NothingEnds DEF Written, IInv
<1>2. "write" \in Ends \ {"ok", "refused", "superseded"}
  BY DEF Ends
<1>3. Settles
  BY <1>1, <1>2, UnansweredEnds DEF Written, radio
<1>4. TypeOK'
  BY <1>3 DEF Settles, Written, IInv, TypeOK, calls, radio, link
<1>5. InStep'
  BY DEF Written, IInv, InStep, radio, link
<1>6. ClaimsOK'
  BY <1>1 DEF Written, IInv, ClaimsOK, places, calls, radio, link
<1> QED
  BY <1>3, <1>4, <1>5, <1>6 DEF Settles, IInv, Step

\* The link comes back: no write is left, so no slot.
LEMMA LinkComesUpStep ==
  ASSUME IInv, LinkComesUp
  PROVE  Step
<1>1. Ending({}, <<"write", 0>>)
  BY NothingEnds DEF LinkComesUp, IInv
<1>2. "write" \in Ends \ {"ok", "refused", "superseded"}
  BY DEF Ends
<1>3. Settles
  BY <1>1, <1>2, UnansweredEnds DEF LinkComesUp, radio
<1>4. TypeOK'
  BY <1>3 DEF Settles, LinkComesUp, IInv, TypeOK, calls, radio
<1>5. InStep'
  BY DEF LinkComesUp, IInv, InStep, radio
<1>6. ClaimsOK'
  BY DEF LinkComesUp, IInv, ClaimsOK, places, calls, radio
<1> QED
  BY <1>3, <1>4, <1>5, <1>6 DEF Settles, IInv, Step

\* The time limit of a slot, by which a discovery fails.
LEMMA SlotTimesOutStep ==
  ASSUME IInv, NEW c \in Issued, SlotTimesOut(c)
  PROVE  Step
<1> DEFINE S == IF op[c] = "discover" THEN {c} ELSE {}
<1>1. Ending(S, <<"timeout", 0>>)
  BY FailEnds DEF SlotTimesOut
<1>2. "timeout" \in Ends \ {"ok", "refused", "superseded"} /\ S \in SUBSET Issued
  BY DEF Ends
<1>3. Settles
  <2>1. /\ slots' \subseteq slots /\ \A d \in slots \ slots' : op[d] # "fire"
        /\ UNCHANGED radio
    BY DEF SlotTimesOut
  <2> HIDE DEF S
  <2> QED
    BY <1>1, <1>2, <2>1, UnansweredEnds DEF radio
<1>4. TypeOK'
  BY <1>3 DEF Settles, SlotTimesOut, IInv, TypeOK, calls, radio, link
<1>5. InStep'
  BY DEF SlotTimesOut, IInv, InStep, radio, link
<1>6. ClaimsOK'
  <2>1. pendingDiscovery = c => outcome[c] = Pending /\ op[c] = "discover"
    BY IssuedAreCalls DEF IInv, PlacesOK, Latest
  <2> QED
    BY <1>1, <2>1 DEF SlotTimesOut, IInv, ClaimsOK, Ending, Vacate, Open, calls, radio, link
<1> QED
  BY <1>3, <1>4, <1>5, <1>6 DEF Settles, IInv, Step

\* A write rejects: slot and command go together.
LEMMA WriteFailsStep ==
  ASSUME IInv, NEW c \in Issued, WriteFails(c)
  PROVE  Step
<1> DEFINE S == IF op[c] = "stats" THEN {} ELSE {c}
<1>1. Ending(S, <<"write", 0>>)
  BY FailEnds, NothingEnds DEF WriteFails, IInv
<1>2. "write" \in Ends \ {"ok", "refused", "superseded"} /\ S \in SUBSET Issued
  BY DEF Ends
<1>3. Settles
  <2>1. /\ slots' \subseteq slots /\ \A d \in slots \ slots' : op[d] = "fire" => d \in S
        /\ inflight' \subseteq inflight /\ onAir' = onAir /\ tracked' = tracked
    BY DEF WriteFails
  <2> HIDE DEF S
  <2> QED
    BY <1>1, <1>2, <2>1, UnansweredEnds
<1>4. TypeOK'
  BY <1>3 DEF Settles, WriteFails, IInv, TypeOK, calls, link
<1>5. InStep'
  BY DEF WriteFails, IInv, InStep, link
<1>6. ClaimsOK'
  <2>1. pendingDiscovery = c => outcome[c] = Pending /\ op[c] = "discover"
    BY IssuedAreCalls DEF IInv, PlacesOK, Latest
  <2> QED
    BY <1>1, <2>1 DEF WriteFails, IInv, ClaimsOK, Ending, Vacate, Open, calls, link
<1> QED
  BY <1>3, <1>4, <1>5, <1>6 DEF Settles, IInv, Step

\* The end of the link empties slots and places alike.
LEMMA LinkDropsStep ==
  ASSUME IInv, LinkDrops
  PROVE  Step
<1>0. \A c : c \in AwaitedOnDrop <=>
           \/ c \in slots /\ op[c] = "fire"
           \/ \E o \in {"cli", "stats", "discover"}, t \in Nodes : c \in Awaited(o, t)
  BY DEF AwaitedOnDrop
<1>1. Ending(AwaitedOnDrop, <<"link", 0>>)
  BY FailEnds DEF LinkDrops
<1>2. "link" \in Ends \ {"ok", "refused", "superseded"} /\ AwaitedOnDrop \in SUBSET Issued
  <2>1. \A o \in {"cli", "stats", "discover"}, t \in Nodes : Awaited(o, t) \subseteq Issued
    BY DEF Awaited, IInv, TypeOK, Issued
  <2> QED
    BY <1>0, <2>1 DEF Ends, IInv, TypeOK, Issued
<1>3. Settles
  <2>1. /\ slots' \subseteq slots /\ \A d \in slots \ slots' : op[d] = "fire" => d \in AwaitedOnDrop
        /\ inflight' \subseteq inflight /\ onAir' = onAir /\ tracked' = tracked
    BY <1>0 DEF LinkDrops
  <2> QED
    BY <1>1, <1>2, <2>1, UnansweredEnds
<1>4. TypeOK'
  <2>1. drops' \in 0..MaxDrops
    BY BoundsAssumption DEF LinkDrops, IInv, TypeOK
  <2> QED
    <3>1. /\ issued' = issued /\ op' = op /\ target' = target
          /\ writing' = writing /\ onAir' = onAir /\ tracked' = tracked
          /\ slots' = {} /\ inflight' = {} /\ meshRequestSlot' = 0
          /\ linkUp' = FALSE /\ slipped' = FALSE
      BY DEF LinkDrops, calls
    <3>2. slots' \subseteq 1..issued'
      BY <3>1
    <3>3. inflight' \subseteq 1..issued'
      BY <3>1
    <3>4. meshRequestSlot' \in 0..issued'
      BY <3>1 DEF IInv, TypeOK
    <3>5. pendingCli' \in [Nodes -> 0..issued']
      BY <1>3, <3>1 DEF Settles
    <3>6. pendingLocalStats' \in 0..issued' /\ pendingDiscovery' \in 0..issued'
      BY <1>3, <3>1 DEF Settles
    <3>7. outcome' \in [Calls -> Outcomes]
      BY <1>3 DEF Settles
    <3> QED
      BY <2>1, <3>1, <3>2, <3>3, <3>4, <3>5, <3>6, <3>7 DEF IInv, TypeOK
<1>5. InStep'
  BY DEF LinkDrops, IInv, InStep, link
<1>6. ClaimsOK'
  <2>1. pendingDiscovery' = 0
    <3>1. CASE pendingDiscovery = 0
      BY <1>1, <3>1 DEF Ending, Vacate
    <3>2. CASE pendingDiscovery # 0
      <4>1. target[pendingDiscovery] \in Nodes /\ outcome[pendingDiscovery] = Pending
        BY <3>2 DEF IInv, PlacesOK, Latest
      <4>2. pendingDiscovery \in Awaited("discover", target[pendingDiscovery])
        BY <3>2 DEF Awaited
      <4>3. pendingDiscovery \in Open(AwaitedOnDrop)
        BY <1>0, <4>1, <4>2 DEF Open
      <4> QED
        BY <1>1, <4>3 DEF Ending, Vacate
    <3> QED
      BY <3>1, <3>2
  <2> QED
    BY <2>1 DEF LinkDrops, ClaimsOK
<1> QED
  BY <1>3, <1>4, <1>5, <1>6 DEF Settles, IInv, Step

\* While no slot has gone early the oldest slot is that of the command taken.
LEMMA TakerIsOwn ==
  ASSUME IInv, NEW c \in Issued, Takes(c), ~slipped
  PROVE  /\ slots = inflight /\ c \in slots
         /\ Oldest(slots) = {c}
         /\ op[c] # "stats" => Oldest({d \in slots : op[d] # "stats"}) = {c}
         /\ op[c] = "stats" => Oldest({d \in slots : op[d] = "stats"}) = {c}
<1>1. slots = inflight /\ c \in Oldest(slots) /\ slots \in SUBSET Nat
  BY DEF Takes, IInv, InStep, TypeOK
<1>2. c \in slots /\ Oldest(slots) = {c}
  BY <1>1, OldestIsOne
<1>3. ASSUME NEW Q \in SUBSET slots, c \in Q
      PROVE  Oldest(Q) = {c}
  <2>1. c \in Oldest(Q) /\ Q \in SUBSET Nat
    BY <1>1, <1>3 DEF Oldest
  <2> QED
    BY <2>1, OldestIsOne
<1> QED
  BY <1>1, <1>2, <1>3

\* RESP_ERR, to the oldest slot.
LEMMA ErrStep ==
  ASSUME IInv, NEW c \in Issued, Err(c)
  PROVE  Step
<1> DEFINE taker == Oldest(slots)
           S == {d \in taker : op[d] \notin {"cli", "status"}}
<1>1. Ending(S, <<"refused", c>>)
  BY FailEnds DEF Err
<1>2. /\ "refused" \in Ends /\ S \in SUBSET Issued /\ taker \subseteq slots
      /\ c \in Calls \cup {0} /\ <<"refused", c>> \in Ends \X (Calls \cup {0})
  BY IssuedAreCalls, OldestIsOne DEF Ends, IInv, TypeOK, Issued, Oldest
<1>3. Takes(c) /\ slots' = slots \ taker /\ inflight' = inflight \ {c}
      /\ UNCHANGED <<meshRequestSlot, onAir, tracked, calls, link, slipped>>
  BY DEF Err, Takes
<1>4. ~slipped => slots = inflight /\ taker = {c}
  BY <1>3, TakerIsOwn
<1> HIDE DEF S, taker
<1>5. Settles
  <2>1. OwnAnswers
    BY <1>1, <1>2, EndingAnswers
  <2>2. OwnFailures
    <3>1. \A d \in S : ~slipped => c = d
      BY <1>4 DEF S
    <3> QED
      BY <1>1, <1>2, <3>1, EndingFails
  <2>3. AnswersSpent'
    BY <1>1, <1>2, <1>3, EndingSpends
  <2>4. RadioOK'
    BY <1>3 DEF IInv, RadioOK, calls
  <2>5. \A d \in slots \ slots' : op[d] = "fire" => d \in S
    BY <1>3 DEF S
  <2> QED
    BY <1>1, <1>2, <1>3, <2>1, <2>2, <2>3, <2>4, <2>5, EndingKeeps DEF Settles
<1>6. TypeOK'
  BY <1>3, <1>5 DEF Settles, Takes, IInv, TypeOK, calls, link
<1>7. InStep'
  BY <1>3, <1>4 DEF Takes, IInv, InStep, link
<1>8. ClaimsOK'
  <2>1. /\ pendingDiscovery \in Issued /\ pendingDiscovery \in taker => pendingDiscovery \in Open(S)
        /\ pendingDiscovery' = IF pendingDiscovery \in Open(S) THEN 0 ELSE pendingDiscovery
    BY <1>1, IssuedAreCalls DEF IInv, PlacesOK, Latest, Open, S, Ending, Vacate, Issued
  <2> QED
    BY <1>2, <1>3, <2>1 DEF IInv, ClaimsOK, calls, TypeOK, Issued
<1> QED
  BY <1>5, <1>6, <1>7, <1>8 DEF Settles, IInv, Step

\* What an answer to call b, to the one call of S that waits for it, leaves.
LEMMA AnsweredEnds ==
  ASSUME IInv, NEW S \in SUBSET Issued, NEW b \in Issued, Ending(S, <<"ok", b>>),
         \A c, d \in S : c = d,
         \A c \in S : Answers(b, c) /\ ~Spent(b, op[c]) /\ Spent(b, op[c])',
         slots' \subseteq slots, \A c \in slots \ slots' : op[c] = "fire" => c \in S,
         inflight' \subseteq inflight, onAir' \subseteq onAir \cup inflight,
         tracked' \in {tracked, 0} \cup inflight, RadioOK'
  PROVE  Settles
<1>1. "ok" \in Ends /\ b \in Calls \cup {0} /\ b # 0
  BY IssuedAreCalls DEF Ends, IInv
<1>2. OwnAnswers
  BY <1>1, EndingAnswers
<1>3. OwnFailures
  BY <1>1, EndingFails
<1>4. AnswersSpent'
  BY <1>1, EndingSpends
<1> QED
  BY <1>1, <1>2, <1>3, <1>4, EndingKeeps DEF Settles

\* RESP_STATS, to the call that waits for these statistics.
LEMMA StatsStep ==
  ASSUME IInv, NEW c \in Issued, Stats(c)
  PROVE  Step
<1> DEFINE taker == Oldest({d \in slots : op[d] = "stats"})
           S == Answered(c)
<1>1. /\ op[c] = "stats" /\ Takes(c) /\ slots' = slots \ taker
      /\ UNCHANGED <<meshRequestSlot, onAir, tracked, calls, link, slipped>>
  BY DEF Stats
<1>2. /\ S \subseteq Awaited("stats", target[c]) /\ S \in SUBSET Issued
      /\ \A d \in S : d = pendingLocalStats /\ d # 0 /\ target[d] = target[c]
      /\ pendingDiscovery \notin S \cup taker
  BY DEF Answered, Awaited, IInv, TypeOK, Issued, PlacesOK, Latest, Oldest
<1>3. Ending(S, <<"ok", c>>)
  BY <1>1, <1>2, AnswerEnds DEF Stats, IInv
<1>4. ~slipped => slots = inflight /\ taker = {c}
  BY <1>1, TakerIsOwn
<1>5. inflight' = inflight \ {c} /\ c \in inflight /\ writing' = writing
  BY <1>1, OldestIsOne DEF Takes, Oldest
<1> HIDE DEF S, taker
<1>6. Settles
  <2>1. ASSUME NEW d \in S
        PROVE  Answers(c, d) /\ ~Spent(c, op[d]) /\ Spent(c, op[d])'
    <3>1. Latest(d, "stats", Kinds) /\ op[d] = "stats" /\ target[c] \in Kinds
      BY <1>1, <1>2 DEF IInv, PlacesOK, CallsOK, TargetsOf, Latest
    <3> QED
      BY <1>1, <1>2, <1>5, <3>1 DEF Latest, Answers, Spent, Issued, calls
  <2>2. RadioOK'
    BY <1>1, <1>5 DEF IInv, RadioOK, calls
  <2>3. \A d \in slots \ slots' : op[d] # "fire"
    BY <1>1 DEF taker, Oldest
  <2> QED
    BY <1>1, <1>2, <1>3, <1>5, <2>1, <2>2, <2>3, AnsweredEnds
<1>7. TypeOK'
  BY <1>1, <1>5, <1>6 DEF Settles, IInv, TypeOK, calls, link
<1>8. InStep'
  BY <1>1, <1>4, <1>5 DEF Takes, IInv, InStep, link
<1>9. ClaimsOK'
  BY <1>1, <1>2, <1>3 DEF IInv, ClaimsOK, Ending, Vacate, Open, calls
<1> QED
  BY <1>6, <1>7, <1>8, <1>9 DEF Settles, IInv, Step

\* A CLI reply, to the latest command of its repeater.
LEMMA CliReplyStep ==
  ASSUME IInv, NEW c \in Issued, CliReply(c)
  PROVE  Step
<1> DEFINE S == Awaited("cli", target[c])
<1>1. /\ linkUp /\ c \in onAir /\ onAir' = onAir \ {c}
      /\ UNCHANGED <<calls, writing, slots, meshRequestSlot, inflight, tracked, link, slipped>>
  BY DEF CliReply
<1>2. op[c] = "cli" /\ target[c] \in Nodes /\ c \notin inflight
  BY <1>1 DEF IInv, RadioOK, CallsOK, TargetsOf
<1>3. /\ S \in SUBSET Issued
      /\ \A d \in S : d = pendingCli[target[c]] /\ d # 0
      /\ pendingDiscovery \notin S
  BY <1>2 DEF Awaited, IInv, TypeOK, Issued, PlacesOK, Latest
<1>4. Ending(S, <<"ok", c>>)
  BY <1>1, <1>2, AnswerEnds DEF CliReply, IInv
<1> HIDE DEF S
<1>5. Settles
  <2>1. ASSUME NEW d \in S
        PROVE  Answers(c, d) /\ ~Spent(c, op[d]) /\ Spent(c, op[d])'
    <3>1. Latest(d, "cli", {target[c]}) /\ op[d] = "cli"
      BY <1>2, <1>3 DEF IInv, PlacesOK, Latest
    <3> QED
      BY <1>1, <1>2, <3>1 DEF Latest, Answers, Spent, Issued, calls
  <2>2. RadioOK'
    BY <1>1 DEF IInv, RadioOK, calls
  <2> QED
    BY <1>1, <1>3, <1>4, <2>1, <2>2, AnsweredEnds
<1>6. TypeOK'
  BY <1>1, <1>5 DEF Settles, IInv, TypeOK, calls, link
<1>7. InStep'
  BY <1>1 DEF IInv, InStep, link
<1>8. ClaimsOK'
  BY <1>1, <1>3, <1>4 DEF IInv, ClaimsOK, Ending, Vacate, Open, calls
<1> QED
  BY <1>5, <1>6, <1>7, <1>8 DEF Settles, IInv, Step

\* A path found, for the request the radio tracks.
LEMMA DiscoveryReplyStep ==
  ASSUME IInv, NEW c \in Issued, DiscoveryReply(c)
  PROVE  Step
<1> DEFINE S == Discovered(c)
<1>1. /\ linkUp /\ tracked = c /\ op[c] = "discover" /\ tracked' = 0
      /\ UNCHANGED <<calls, writing, slots, meshRequestSlot, inflight, onAir, link, slipped>>
  BY DEF DiscoveryReply
<1>2. target[c] \in Nodes /\ c \notin inflight /\ c # 0
  BY <1>1, IssuedAreCalls DEF IInv, RadioOK, CallsOK, TargetsOf
<1>3. /\ S \in SUBSET Issued /\ S \subseteq Awaited("discover", target[c])
      /\ \A d \in S : d = pendingDiscovery /\ d # 0 /\ target[d] = target[c]
      /\ pendingDiscovery = c => pendingDiscovery \in Open(S)
  BY <1>2 DEF Discovered, Awaited, IInv, TypeOK, Issued, PlacesOK, Latest, Open
<1>4. Ending(S, <<"ok", c>>)
  BY <1>1, <1>2, <1>3, AnswerEnds DEF DiscoveryReply, IInv
<1> HIDE DEF S
<1>5. Settles
  <2>1. ASSUME NEW d \in S
        PROVE  Answers(c, d) /\ ~Spent(c, op[d]) /\ Spent(c, op[d])'
    <3>1. Latest(d, "discover", Nodes) /\ op[d] = "discover"
      BY <1>2, <1>3 DEF IInv, PlacesOK, Latest
    <3> QED
      BY <1>1, <1>2, <1>3, <3>1 DEF Latest, Answers, Spent, Issued, calls
  <2>2. RadioOK'
    BY <1>1 DEF IInv, RadioOK, calls
  <2> QED
    BY <1>1, <1>3, <1>4, <2>1, <2>2, AnsweredEnds
<1>6. TypeOK'
  BY <1>1, <1>5 DEF Settles, IInv, TypeOK, calls, link
<1>7. InStep'
  BY <1>1 DEF IInv, InStep, link
<1>8. ClaimsOK'
  BY <1>1, <1>3, <1>4 DEF IInv, ClaimsOK, Ending, Vacate, calls
<1> QED
  BY <1>5, <1>6, <1>7, <1>8 DEF Settles, IInv, Step

\* What a RESP_SENT leaves, whether it confirms or claims.
LEMMA SentFrame ==
  ASSUME IInv, NEW c \in Issued, Sent(c),
         NEW taker, taker = Oldest({d \in slots : op[d] # "stats"})
  PROVE  /\ op[c] # "stats" /\ Takes(c) /\ linkUp /\ c \in inflight
         /\ taker \subseteq slots /\ \A d, e \in taker : d = e
         /\ \A d \in taker : op[d] # "stats"
         /\ \A d \in slots \ taker, e \in taker : op[d] # "stats" => e < d
         /\ ~slipped => slots = inflight /\ taker = {c}
         /\ slots' = slots \ taker /\ inflight' = inflight \ {c}
         /\ writing' = writing \ {c}
         /\ onAir' = (IF op[c] = "cli" THEN onAir \cup {c} ELSE onAir)
         /\ tracked' = (IF op[c] \in {"discover", "status"} THEN c ELSE tracked)
         /\ Confirm(taker, c)
         /\ UNCHANGED <<calls, link, slipped>>
         /\ RadioOK'
<1> DEFINE Q == {d \in slots : op[d] # "stats"}
<1>1. Q \in SUBSET Nat
  <2>1. slots \subseteq Nat
    BY DEF IInv, TypeOK
  <2> QED
    BY <2>1
<1>2. Oldest(Q) \subseteq Q /\ \A d, e \in Oldest(Q) : d = e
  BY <1>1, OldestIsOne
<1>3. /\ op[c] # "stats" /\ Takes(c) /\ slots' = slots \ taker /\ Confirm(taker, c)
      /\ onAir' = (IF op[c] = "cli" THEN onAir \cup {c} ELSE onAir)
      /\ tracked' = (IF op[c] \in {"discover", "status"} THEN c ELSE tracked)
      /\ UNCHANGED <<calls, link, slipped>>
  BY DEF Sent
<1>4. linkUp /\ c \in inflight /\ inflight' = inflight \ {c} /\ writing' = writing \ {c}
  BY <1>3 DEF Takes, Oldest
<1>5. ~slipped => slots = inflight /\ taker = {c}
  BY <1>3, TakerIsOwn
<1>6. \A d \in slots \ taker, e \in taker : op[d] # "stats" => e < d
  BY <1>1 DEF Oldest
<1>7. RadioOK'
  BY <1>3, <1>4, IssuedAreCalls DEF IInv, RadioOK, calls
<1> QED
  BY <1>2, <1>3, <1>4, <1>5, <1>6, <1>7

\* Of a command without a reply, or of one whose reply is another frame.
LEMMA SentConfirms ==
  ASSUME IInv, NEW c \in Issued, Sent(c),
         NEW taker, taker = Oldest({d \in slots : op[d] # "stats"}),
         ~ \E d \in taker : op[d] \in {"discover", "status"}
  PROVE  Settles /\ ClaimsOK' /\ meshRequestSlot' = meshRequestSlot
<1> DEFINE S == {d \in taker : op[d] = "fire"}
<1>1. Resolve(S, c) /\ UNCHANGED <<meshRequestSlot, places>>
  BY SentFrame, ZenonT(60) DEF Confirm
<1>2. /\ op[c] # "stats" /\ c \in inflight /\ taker \subseteq slots
      /\ \A d, e \in taker : d = e
      /\ ~slipped => slots = inflight /\ taker = {c}
      /\ slots' = slots \ taker /\ inflight' = inflight \ {c}
      /\ onAir' = (IF op[c] = "cli" THEN onAir \cup {c} ELSE onAir)
      /\ tracked' = (IF op[c] \in {"discover", "status"} THEN c ELSE tracked)
      /\ UNCHANGED <<calls, link, slipped>> /\ RadioOK'
  BY SentFrame
<1>3. S \in SUBSET Issued /\ \A d \in S : d # 0 /\ op[d] = "fire" /\ d \in taker
  <2>1. slots \subseteq Issued /\ 0 \notin Issued
    BY DEF IInv, TypeOK, Issued
  <2> QED
    BY <1>2, <2>1
<1>4. Ending(S, <<"ok", c>>)
  BY <1>1, <1>2, <1>3, ConfirmEnds DEF IInv
<1>5. \A d \in slots \ slots' : op[d] = "fire" => d \in S
  BY <1>2
<1> HIDE DEF S
<1>6. ASSUME NEW d \in S
      PROVE  Answers(c, d) /\ ~Spent(c, op[d]) /\ Spent(c, op[d])'
  BY <1>2, <1>3 DEF Answers, Spent, Issued, calls
<1>7. Settles
  BY <1>2, <1>3, <1>4, <1>5, <1>6, AnsweredEnds
<1>8. ClaimsOK'
  <2>1. pendingDiscovery = 0 \/ op[pendingDiscovery] = "discover"
    BY DEF IInv, PlacesOK, Latest
  <2> QED
    BY <1>1, <1>2, <2>1 DEF IInv, ClaimsOK, places, calls
<1> QED
  BY <1>1, <1>7, <1>8

\* Of a mesh request.
LEMMA SentClaims ==
  ASSUME IInv, NEW c \in Issued, Sent(c),
         NEW taker, taker = Oldest({d \in slots : op[d] # "stats"}),
         \E d \in taker : op[d] \in {"discover", "status"}
  PROVE  Settles /\ ClaimsOK' /\ meshRequestSlot' \in Issued
<1> DEFINE S == ({meshRequestSlot} \cap {pendingDiscovery}) \ {0}
           h == meshRequestSlot'
<1>1. h \in taker /\ Fail(S, "superseded", h)
  BY SentFrame, ZenonT(60) DEF Confirm
<1>2. /\ op[c] # "stats" /\ c \in inflight /\ taker \subseteq slots
      /\ \A d, e \in taker : d = e
      /\ \A d \in slots \ taker, e \in taker : op[d] # "stats" => e < d
      /\ ~slipped => slots = inflight /\ taker = {c}
      /\ slots' = slots \ taker /\ inflight' = inflight \ {c}
      /\ onAir' = (IF op[c] = "cli" THEN onAir \cup {c} ELSE onAir)
      /\ tracked' = (IF op[c] \in {"discover", "status"} THEN c ELSE tracked)
      /\ UNCHANGED <<calls, link, slipped>> /\ RadioOK'
  BY SentFrame
<1>3. Ending(S, <<"superseded", h>>)
  BY <1>1, <1>2, FailEnds
<1>4. op[h] \in {"discover", "status"} /\ h \in Issued /\ h \in slots
  BY <1>1, <1>2 DEF IInv, TypeOK, Issued
<1>5. /\ S \in SUBSET Issued
      /\ \A d \in S : d = meshRequestSlot /\ d = pendingDiscovery /\ d # 0
      /\ \A d \in S : outcome[d] = Pending /\ op[d] = "discover" /\ d < h
  BY <1>4 DEF IInv, TypeOK, Issued, PlacesOK, Latest, ClaimsOK
<1>6. /\ "superseded" \in Ends /\ h \in Calls \cup {0}
      /\ <<"superseded", h>> \in Ends \X (Calls \cup {0})
  BY <1>4, IssuedAreCalls DEF Ends, IInv
<1>7. Settles
  <2> HIDE DEF S, h
  <2>1. OwnAnswers
    BY <1>3, <1>5, <1>6, EndingAnswers
  <2>2. OwnFailures
    BY <1>3, <1>4, <1>5, <1>6, EndingFails
  <2>3. AnswersSpent'
    BY <1>2, <1>3, <1>5, <1>6, EndingSpends
  <2>4. \A d \in slots \ slots' : op[d] # "fire"
    BY <1>1, <1>2, <1>4
  <2> QED
    BY <1>2, <1>3, <1>5, <1>6, <2>1, <2>2, <2>3, <2>4, EndingKeeps DEF Settles
<1>8. ClaimsOK'
  <2>1. \A d \in slots' : op'[d] # "stats" => h < d
    BY <1>1, <1>2 DEF calls
  <2>2. ASSUME ~slipped', pendingDiscovery' \notin slots' \cup {0}
        PROVE  tracked' = pendingDiscovery' /\ h = pendingDiscovery'
    <3>1. taker = {c} /\ h = c /\ tracked' = c
      BY <1>1, <1>2, <1>4, <2>2
    <3>2. /\ pendingDiscovery' = pendingDiscovery /\ pendingDiscovery # 0
          /\ pendingDiscovery \notin S
      BY <1>3, <1>5, <2>2 DEF Ending, Vacate, Open
    <3>3. pendingDiscovery \in slots
      BY <1>2, <2>2, <3>2 DEF IInv, ClaimsOK
    <3> QED
      BY <1>2, <2>2, <3>1, <3>2, <3>3
  <2> QED
    BY <2>1, <2>2 DEF ClaimsOK
<1> QED
  BY <1>4, <1>7, <1>8

\* RESP_SENT, either way.
LEMMA SentStep ==
  ASSUME IInv, NEW c \in Issued, Sent(c)
  PROVE  Step
<1> DEFINE taker == Oldest({d \in slots : op[d] # "stats"})
<1>1. Settles /\ ClaimsOK' /\ meshRequestSlot' \in 0..issued
  <2>1. CASE \E d \in taker : op[d] \in {"discover", "status"}
    <3>1. Settles /\ ClaimsOK' /\ meshRequestSlot' \in Issued
      BY <2>1, SentClaims, Zenon
    <3> QED
      BY <3>1 DEF Issued
  <2>2. CASE ~ \E d \in taker : op[d] \in {"discover", "status"}
    <3>1. Settles /\ ClaimsOK' /\ meshRequestSlot' = meshRequestSlot
      BY <2>2, SentConfirms, Zenon
    <3> QED
      BY <3>1 DEF IInv, TypeOK
  <2> QED
    BY <2>1, <2>2
<1>2. /\ linkUp /\ taker \subseteq slots
      /\ ~slipped => slots = inflight /\ taker = {c}
      /\ slots' = slots \ taker /\ inflight' = inflight \ {c} /\ writing' = writing \ {c}
      /\ onAir' = (IF op[c] = "cli" THEN onAir \cup {c} ELSE onAir)
      /\ tracked' = (IF op[c] \in {"discover", "status"} THEN c ELSE tracked)
      /\ UNCHANGED <<calls, link, slipped>>
  BY SentFrame
<1> HIDE DEF taker
<1>3. TypeOK'
  BY <1>1, <1>2 DEF Settles, IInv, TypeOK, calls, link, Issued
<1>4. InStep'
  BY <1>2 DEF IInv, InStep, link
<1> QED
  BY <1>1, <1>3, <1>4 DEF Settles, IInv, Step

\* A call supersedes the one in its place, takes the place and a slot.
LEMMA CallStep ==
  ASSUME IInv, NEW o \in Ops, NEW t \in TargetsOf(o), Call(o, t)
  PROVE  Step
<1> DEFINE c == issued + 1
           S == Awaited(o, t)
<1>1. /\ c \in Calls /\ c \notin Issued /\ issued' = c /\ Issued' = Issued \cup {c}
      /\ Issued \subseteq Calls /\ issued \in Nat /\ \A d \in Issued : d < c
      /\ c \in 0..MaxCalls
  BY IssuedAreCalls, BoundsAssumption DEF Call, IInv, TypeOK, Issued, Calls
<1>2. /\ op' \in [Calls -> Ops \cup {"none"}] /\ op'[c] = o
      /\ target' \in [Calls -> Nodes \cup Kinds \cup {"none"}] /\ target'[c] = t
      /\ \A d \in Issued : op'[d] = op[d] /\ target'[d] = target[d]
      /\ \A d \in Calls \ {c} : op'[d] = op[d]
  <2>1. op' = [op EXCEPT ![c] = o] /\ target' = [target EXCEPT ![c] = t]
    BY DEF Call
  <2>2. t \in Nodes \cup Kinds
    BY DEF TargetsOf
  <2> QED
    BY <1>1, <2>1, <2>2 DEF IInv, TypeOK
<1>3. /\ \A n \in Nodes : pendingCli'[n] = IF o = "cli" /\ n = t THEN c ELSE pendingCli[n]
      /\ pendingCli' \in [Nodes -> 0..issued']
      /\ pendingLocalStats' = IF o = "stats" THEN c ELSE pendingLocalStats
      /\ pendingDiscovery' = IF o = "discover" THEN c ELSE pendingDiscovery
      /\ writing' = writing \cup {c} /\ slots' = slots \cup {c}
      /\ inflight' = IF linkUp THEN inflight \cup {c} ELSE inflight
      /\ UNCHANGED <<meshRequestSlot, onAir, tracked, link, slipped>>
  BY <1>1 DEF Call, IInv, TypeOK
<1>4. /\ S \in SUBSET Issued /\ 0 \notin Issued
      /\ \A d \in S : outcome[d] = Pending /\ op[d] = o /\ (o = "cli" => target[d] = t)
  BY DEF Awaited, IInv, TypeOK, Issued, PlacesOK, Latest, TargetsOf
<1>5. /\ outcome' \in [Calls -> Outcomes] /\ outcome'[c] = Pending
      /\ \A d \in Calls : outcome'[d] = IF d \in S THEN <<"superseded", c>> ELSE outcome[d]
  <2>1. \A d \in Calls : outcome'[d] = IF d \in S THEN <<"superseded", c>> ELSE outcome[d]
    BY <1>1, <1>4 DEF Call, Reject, Settled
  <2>2. <<"superseded", c>> \in Outcomes
    BY <1>1 DEF Outcomes, Ends
  <2>3. outcome[c] = Pending
    BY <1>1 DEF IInv, CallsOK
  <2>4. outcome' = [d \in Calls |-> outcome'[d]]
    BY DEF Call, Reject, Settled
  <2> QED
    BY <1>1, <1>4, <2>1, <2>2, <2>3, <2>4 DEF IInv, TypeOK
<1> HIDE DEF S, c
<1>6. TypeOK'
  BY <1>1, <1>2, <1>3, <1>5 DEF IInv, TypeOK, link, Issued
<1>7. CallsOK'
  BY <1>1, <1>2, <1>4, <1>5 DEF IInv, CallsOK, TargetsOf
<1>8. PlacesOK'
  <2>1. ASSUME NEW n \in Nodes, pendingCli'[n] # 0
        PROVE  Latest(pendingCli[n], "cli", {n})'
    <3>1. CASE o = "cli" /\ n = t
      <4>1. pendingCli'[n] = c /\ target'[c] \in {n} /\ op'[c] = "cli"
        BY <1>2, <1>3, <3>1
      <4>2. \A d \in Issued' : d <= c
        BY <1>1 DEF c, Issued
      <4> QED
        BY <1>5, <4>1, <4>2 DEF Latest
    <3>2. CASE ~(o = "cli" /\ n = t)
      <4>1. Latest(pendingCli[n], "cli", {n}) /\ pendingCli'[n] = pendingCli[n]
            /\ pendingCli[n] \in Issued
        BY <1>3, <2>1, <3>2 DEF IInv, PlacesOK, TypeOK, Issued
      <4>2. pendingCli[n] \notin S
        BY <1>4, <3>2, <4>1 DEF Latest, TargetsOf
      <4> QED
        BY <1>1, <1>2, <1>5, <3>2, <4>1, <4>2 DEF Latest
    <3> QED
      BY <3>1, <3>2
  <2>2. pendingLocalStats' # 0 => Latest(pendingLocalStats, "stats", Kinds)'
    BY <1>1, <1>2, <1>3, <1>4, <1>5 DEF IInv, PlacesOK, TypeOK, Issued, Latest, TargetsOf
  <2>3. pendingDiscovery' # 0 => Latest(pendingDiscovery, "discover", Nodes)'
    BY <1>1, <1>2, <1>3, <1>4, <1>5, SMTT(30) DEF IInv, PlacesOK, TypeOK, Issued, Latest, TargetsOf
  <2> QED
    BY <2>1, <2>2, <2>3 DEF PlacesOK
<1>9. NobodyIsForgotten'
  <2> SUFFICES ASSUME NEW d \in Issued', outcome'[d] = Pending, op'[d] # "status"
               PROVE  d \in IF op'[d] = "fire" THEN slots' ELSE Awaited(op[d], target[d])'
    BY DEF NobodyIsForgotten, Issued
  <2>1. CASE d = c
    BY <1>1, <1>2, <1>3, <2>1, IssuedAreCalls DEF Awaited, Ops, TargetsOf, IInv
  <2>2. CASE d # c
    <3>1. /\ d \in Issued /\ outcome[d] = Pending /\ op'[d] = op[d] /\ target'[d] = target[d]
          /\ d \notin S /\ op[d] \in Ops /\ target[d] \in TargetsOf(op[d])
      <4>1. d \in Issued /\ op'[d] = op[d] /\ target'[d] = target[d]
        BY <1>1, <1>2, <2>2
      <4>2. d \notin S /\ outcome[d] = Pending
        <5>1. <<"superseded", c>> # Pending /\ d \in Calls
          BY <1>1, <4>1 DEF Pending
        <5> QED
          BY <1>5, <5>1
      <4> QED
        BY <4>1, <4>2 DEF IInv, CallsOK
    <3>2. d \in IF op[d] = "fire" THEN slots ELSE Awaited(op[d], target[d])
      BY <3>1 DEF IInv, NobodyIsForgotten, Issued
    <3> QED
      BY <1>3, <3>1, <3>2 DEF Awaited, S, Ops, TargetsOf
  <2> QED
    BY <2>1, <2>2
<1>10. InStep'
  BY <1>3 DEF IInv, InStep, link
<1>11. ClaimsOK'
  BY <1>1, <1>2, <1>3 DEF IInv, ClaimsOK, TypeOK, Issued
<1>12. RadioOK'
  BY <1>1, <1>2, <1>3 DEF IInv, RadioOK, TypeOK, Issued
<1>13. AnswersSpent'
  <2> SUFFICES ASSUME NEW d \in Issued', outcome'[d][1] = "ok"
               PROVE  Spent(outcome[d][2], op[d])'
    BY DEF AnswersSpent
  <2>1. d \in Issued /\ outcome'[d] = outcome[d] /\ op'[d] = op[d]
    BY <1>1, <1>2, <1>5 DEF Pending
  <2> QED
    BY <1>1, <1>3, <2>1 DEF IInv, AnswersSpent, Spent
<1>14. OwnAnswers
  BY <1>5 DEF OwnAnswers, Pending
<1>15. OwnFailures
  BY <1>1, <1>2, <1>4, <1>5 DEF OwnFailures, Pending
<1> QED
  BY <1>6, <1>7, <1>8, <1>9, <1>10, <1>11, <1>12, <1>13, <1>14, <1>15 DEF IInv, Step

-----------------------------------------------------------------------------
(* The theorems.                                                           *)

\* It holds at the start.
LEMMA InitIInv == Init => IInv
<1> SUFFICES ASSUME Init PROVE IInv
  OBVIOUS
<1>1. Issued = {}
  BY DEF Init, Issued
<1>2. TypeOK
  <2>1. 0 \in 0..MaxCalls /\ 0 \in 0..MaxDrops /\ 0 \in 0..0
    BY BoundsAssumption
  <2>2. [c \in Calls |-> Pending] \in [Calls -> Outcomes]
    BY DEF Outcomes
  <2> QED
    BY <2>1, <2>2 DEF Init, TypeOK
<1>3. CallsOK /\ NobodyIsForgotten /\ AnswersSpent
  BY <1>1 DEF Init, CallsOK, NobodyIsForgotten, AnswersSpent, Issued
<1> QED
  BY <1>2, <1>3 DEF Init, IInv, PlacesOK, InStep, ClaimsOK, RadioOK

\* Every step keeps it, and answers and fails calls on their own account.
LEMMA NextStep ==
  ASSUME IInv, Next
  PROVE  Step
<1>1. ASSUME NEW o \in Ops, NEW t \in TargetsOf(o), Call(o, t)
      PROVE  Step
  BY <1>1, CallStep
<1>2. ASSUME NEW c \in Issued,
             \/ WriteSettles(c) \/ Abort(c) \/ TimesOut(c) \/ SlotTimesOut(c)
             \/ Sent(c) \/ Err(c) \/ Stats(c) \/ CliReply(c) \/ DiscoveryReply(c)
      PROVE  Step
  BY <1>2, WrittenStep, WriteFailsStep, AbortStep, TimesOutStep, SlotTimesOutStep, SentStep,
     ErrStep, StatsStep, CliReplyStep, DiscoveryReplyStep DEF WriteSettles
<1> QED
  BY <1>1, <1>2, LinkDropsStep, LinkComesUpStep DEF Next, Issued

\* So does a stuttering step.
LEMMA StutterStep ==
  ASSUME IInv, UNCHANGED vars
  PROVE  Step
<1> USE DEF vars, calls, places, radio, link
<1>1. TypeOK' /\ CallsOK'
  BY DEF IInv, TypeOK, CallsOK, Issued
<1>2. PlacesOK'
  BY DEF IInv, PlacesOK, Latest, Issued
<1>3. NobodyIsForgotten'
  BY DEF IInv, NobodyIsForgotten, Awaited
<1>4. InStep' /\ ClaimsOK' /\ RadioOK'
  BY DEF IInv, InStep, ClaimsOK, RadioOK
<1>5. AnswersSpent'
  BY DEF IInv, AnswersSpent, Spent, Issued
<1>6. OwnAnswers /\ OwnFailures
  BY DEF OwnAnswers, OwnFailures, Pending
<1> QED
  BY <1>1, <1>2, <1>3, <1>4, <1>5, <1>6 DEF IInv, Step

\* The inductive invariant holds in every reachable state.
THEOREM Inductive == Spec => []IInv
<1>1. IInv /\ [Next]_vars => IInv'
  BY NextStep, StutterStep DEF Step
<1> QED
  BY InitIInv, <1>1, PTL DEF Spec

\* The slots awaiting RESP_SENT, RESP_STATS and RESP_ERR are those of the commands the
\* radio has yet to take (dmSendQueue, adminSentQueue, the session's queues): an abort,
\* a time limit, a supersession or a failed write never shifts them.
THEOREM SlotsInStep == Spec => []SlotsMatchAnswers
<1>1. IInv => SlotsMatchAnswers
  BY DEF IInv, InStep, SlotsMatchAnswers
<1> QED
  BY Inductive, <1>1, PTL

\* A pending call is where its answer or the end of the link will find it
\* (repeaterSendCli, repeaterGetLocalStats, sendPathDiscoveryReq, resetAdmin).
THEOREM Remembered == Spec => []NobodyIsForgotten
<1>1. IInv => NobodyIsForgotten
  BY DEF IInv
<1> QED
  BY Inductive, <1>1, PTL

\* No call is answered by what another asked, nor two of them by one answer
\* (onCliReply, handleSent, the handlers of RESP_STATS and path discoveries).
THEOREM AnsweredOwn == Spec => AnswersAreOwn
<1>1. OwnAnswers =>
        \A c \in Calls : outcome[c] = Pending /\ outcome'[c][1] = "ok" =>
          LET b == outcome'[c][2]
          IN  /\ IF op[c] = "fire" THEN ~slipped => b = c
                 ELSE op[b] = op[c] /\ target[b] = target[c] /\ b <= c
              /\ \A d \in Calls \ {c} : op[d] = op[c] => outcome'[d] # <<"ok", b>>
  BY DEF OwnAnswers, Answers
<1>2. IInv /\ [Next]_vars =>
        [\A c \in Calls : outcome[c] = Pending /\ outcome'[c][1] = "ok" =>
          LET b == outcome'[c][2]
          IN  /\ IF op[c] = "fire" THEN ~slipped => b = c
                 ELSE op[b] = op[c] /\ target[b] = target[c] /\ b <= c
              /\ \A d \in Calls \ {c} : op[d] = op[c] => outcome'[d] # <<"ok", b>>]_vars
  BY <1>1, NextStep DEF Step
<1> QED
  BY Inductive, <1>2, PTL DEF Spec, AnswersAreOwn

\* No call fails on another's account, and a discovery displaced from the radio's
\* mesh-request slot does not go on waiting (routeErr, armDiscovery,
\* claimMeshRequestSlot).
THEOREM FailedOwn == Spec => FailuresAreOwn
<1>1. IInv /\ [Next]_vars =>
        [/\ \A c \in Calls : outcome[c] = Pending /\ outcome'[c][1] \in {"refused", "superseded"} =>
              LET b == outcome'[c][2]
              IN  IF outcome'[c][1] = "refused"
                  THEN ~slipped => b = c
                  ELSE /\ c < b
                       /\ \/ op'[b] = op[c] /\ (op[c] = "cli" => target'[b] = target[c])
                          \/ op[c] = "discover" /\ op[b] = "status"
         /\ ~slipped' /\ pendingDiscovery' \notin slots' \cup {0} => tracked' = pendingDiscovery']_vars
  BY NextStep DEF Step, OwnFailures, IInv, ClaimsOK
<1> QED
  BY Inductive, <1>1, PTL DEF Spec, FailuresAreOwn
=============================================================================

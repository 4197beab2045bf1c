----------------------------- MODULE Drain_proofs -----------------------------
(***************************************************************************)
(* Proofs about Drain for every bound on messages, failures and links.     *)
(*                                                                         *)
(* The argument: as long as no reset has left a step behind, busy is the   *)
(* only permit to take a step of a round, every step hands it to exactly   *)
(* one next step or gives it back, and a closed link holds nothing.        *)
(***************************************************************************)
EXTENDS Drain, TLAPS

USE BoundsAssumption

\* A closed link carries nothing, and unless a reset left a step behind the pump
\* rests while the link is closed.
ClosedIsQuiet ==
  /\ connected => linkUp
  /\ ~linkUp => writes = NoWrites /\ replies = <<>> /\ tickles = 0
  /\ ~linkUp /\ "stale" \notin mishaps => sleeping = 0 /\ ~busy /\ ~pending

\* No write of a lost link is to reject unless it is accounted as stale.
LateIsStale == "stale" \notin mishaps => late = NoWrites

\* The inductive invariant.
IInv ==
  /\ TypeOK
  /\ ClosedIsQuiet
  /\ LateIsStale
  /\ OneRound
  /\ BusyIsARound
  /\ FollowUpIsDue

\* The number of steps a round has to come, spelled out.
LEMMA Steps ==
  ASSUME TypeOK
  PROVE  /\ writes["scheduleDrain"] \in Nat /\ writes["pumpAfterRecv"] \in Nat
         /\ Len(replies) \in Nat /\ RoundSteps \in Nat
         /\ RoundSteps = sleeping + writes["scheduleDrain"] + writes["pumpAfterRecv"]
                         + Len(replies)
BY DEF TypeOK, Writers, RoundSteps, Total

\* The same of the next state.
LEMMA StepsNext ==
  ASSUME TypeOK'
  PROVE  /\ RoundSteps' \in Nat /\ RoundSteps' >= sleeping' /\ sleeping' \in Nat
         /\ RoundSteps' = sleeping' + writes'["scheduleDrain"] + writes'["pumpAfterRecv"]
                         + Len(replies')
BY DEF TypeOK, Writers, RoundSteps, Total

\* The session starts with the link closed and the pump at rest.
LEMMA InitInv == Init => IInv
<1> SUFFICES ASSUME Init PROVE IInv
  OBVIOUS
<1>1. TypeOK
  <2>1. /\ writes \in [Writers -> Nat] /\ late \in [Writers -> Nat]
        /\ budget \in Bounds
    BY DEF Init, NoWrites, Bounds
  <2>2. replies \in Seq(Answers)
    BY DEF Init
  <2>3. mishaps \subseteq Mishaps
    BY DEF Init
  <2> QED
    BY <2>1, <2>2, <2>3 DEF Init, TypeOK
<1>2. RoundSteps = 0
  BY <1>1, Steps DEF Init, NoWrites, Writers
<1>3. ClosedIsQuiet /\ LateIsStale /\ OneRound /\ BusyIsARound /\ FollowUpIsDue
  BY <1>2 DEF Init, ClosedIsQuiet, LateIsStale, OneRound, BusyIsARound, FollowUpIsDue
<1> QED
  BY <1>1, <1>3 DEF IInv

\* scheduleDrain starts a round only if there is none.
LEMMA ScheduleDrainStep ==
  ASSUME TypeOK, ScheduleDrain
  PROVE  /\ busy' /\ busy' \in BOOLEAN /\ pending' \in BOOLEAN /\ sleeping' \in Nat
         /\ busy => sleeping' = sleeping
         /\ ~busy => sleeping' = sleeping + 1
<1>1. CASE busy /\ pending' = TRUE /\ UNCHANGED <<busy, sleeping>>
  BY <1>1 DEF TypeOK
<1>2. CASE ~busy /\ busy' = TRUE /\ sleeping' = sleeping + 1 /\ UNCHANGED pending
  BY <1>2 DEF TypeOK
<1> QED
  BY <1>1, <1>2 DEF ScheduleDrain

\* The end of a round leaves the follow-up's sleep or nothing.
LEMMA EndRoundStep ==
  ASSUME TypeOK, EndRound
  PROVE  /\ busy' \in BOOLEAN /\ pending' = FALSE /\ sleeping' \in Nat
         /\ busy' => sleeping' = sleeping + 1
         /\ ~busy' => sleeping' = sleeping
BY DEF TypeOK, EndRound

\* A write that rejects ends the round, whoever wrote.
LEMMA CatchStep ==
  ASSUME TypeOK, NEW w \in Writers, Catch(w)
  PROVE  /\ busy' \in BOOLEAN /\ pending' \in BOOLEAN /\ sleeping' \in Nat
         /\ busy' => sleeping' = sleeping + 1
         /\ ~busy' => sleeping' = sleeping
BY EndRoundStep DEF TypeOK, Catch

\* A step that leaves the link, the late writes and the mishaps alone keeps the
\* invariant if it keeps the pump's accounts.
LEMMA QuietStep ==
  ASSUME IInv, TypeOK', UNCHANGED <<link, late>>, mishaps \subseteq mishaps',
         linkUp, OneRound', BusyIsARound', FollowUpIsDue'
  PROVE  IInv'
BY DEF IInv, ClosedIsQuiet, LateIsStale, link

\* The sleep of scheduleDrain ends in a write.
LEMMA WakeInv ==
  ASSUME IInv, Wake
  PROVE  IInv'
<1> USE DEF IInv, Wake
<1>1. CASE linkUp /\ sleeping' = sleeping - 1 /\ UNCHANGED pump
           /\ writes' = [writes EXCEPT !["scheduleDrain"] = @ + 1]
  <2>1. TypeOK'
    <3>1. sleeping' \in Nat /\ writes' \in [Writers -> Nat]
      BY <1>1 DEF TypeOK, Writers
    <3> QED
      BY <1>1, <3>1 DEF TypeOK, link, radio, pump
  <2>2. RoundSteps' = RoundSteps
    <3>1. /\ writes'["scheduleDrain"] = writes["scheduleDrain"] + 1
          /\ writes'["pumpAfterRecv"] = writes["pumpAfterRecv"]
          /\ replies' = replies /\ sleeping \in Nat
      BY <1>1 DEF TypeOK, Writers, radio
    <3> QED
      BY <1>1, <2>1, <3>1, Steps DEF RoundSteps, Total
  <2>3. OneRound' /\ BusyIsARound' /\ FollowUpIsDue'
    BY <1>1, <2>2 DEF OneRound, BusyIsARound, FollowUpIsDue, pump
  <2> QED
    BY <1>1, <2>1, <2>3, QuietStep
<1>2. CASE /\ ~linkUp /\ UNCHANGED writes
           /\ busy' = pending /\ pending' = FALSE
           /\ sleeping' = sleeping - (IF pending THEN 0 ELSE 1)
  <2>1. "stale" \in mishaps
    BY <1>2 DEF ClosedIsQuiet, TypeOK
  <2>2. TypeOK'
    <3>1. sleeping' \in Nat
      BY <1>2 DEF TypeOK
    <3> QED
      BY <1>2, <3>1 DEF TypeOK, link, radio
  <2> QED
    BY <1>2, <2>1, <2>2 DEF ClosedIsQuiet, LateIsStale, OneRound, BusyIsARound,
       FollowUpIsDue, link, radio
<1> QED
  BY <1>1, <1>2

\* Scheduling on an open link keeps the accounts.
LEMMA ScheduleKeeps ==
  ASSUME IInv, TypeOK', ScheduleDrain, UNCHANGED <<writes, replies, mishaps>>
  PROVE  OneRound' /\ BusyIsARound' /\ FollowUpIsDue'
<1> USE DEF IInv
<1>1. /\ RoundSteps' = RoundSteps + (sleeping' - sleeping)
      /\ RoundSteps \in Nat /\ sleeping \in Nat
  <2>1. writes' = writes /\ replies' = replies
    OBVIOUS
  <2>2. sleeping \in Nat
    BY DEF TypeOK
  <2> QED
    BY <2>1, <2>2, Steps, StepsNext
<1>2. busy'
  BY ScheduleDrainStep
<1>3. CASE busy
  <2>1. RoundSteps' = RoundSteps
    BY <1>1, <1>3, ScheduleDrainStep
  <2> QED
    BY <1>2, <1>3, <2>1 DEF OneRound, BusyIsARound, FollowUpIsDue
<1>4. CASE ~busy
  <2>1. RoundSteps' = RoundSteps + 1 /\ RoundSteps \in Nat
    BY <1>1, <1>4, ScheduleDrainStep
  <2>2. "stale" \notin mishaps => RoundSteps = 0
    BY <1>4, <2>1 DEF OneRound
  <2> QED
    BY <1>2, <2>1, <2>2 DEF OneRound, BusyIsARound, FollowUpIsDue
<1> QED
  BY <1>3, <1>4

\* Ending the round with its only step to come keeps the accounts.
LEMMA EndKeeps ==
  ASSUME IInv, TypeOK', mishaps \subseteq mishaps',
         RoundSteps' = RoundSteps - 1 + (sleeping' - sleeping),
         busy' => sleeping' = sleeping + 1,
         ~busy' => sleeping' = sleeping
  PROVE  OneRound' /\ BusyIsARound'
<1> USE DEF IInv
<1>1. /\ RoundSteps \in Nat /\ RoundSteps' \in Nat /\ sleeping \in Nat
      /\ sleeping' \in Nat /\ RoundSteps' >= sleeping'
  <2>1. sleeping \in Nat
    BY DEF TypeOK
  <2> QED
    BY <2>1, Steps, StepsNext
<1>2. "stale" \notin mishaps' => RoundSteps <= 1
  BY DEF OneRound
<1>3. CASE busy'
  <2>1. RoundSteps' = RoundSteps
    BY <1>1, <1>3
  <2>2. RoundSteps' >= 1
    BY <1>1, <1>3
  <2> QED
    BY <1>1, <1>2, <1>3, <2>1, <2>2 DEF OneRound, BusyIsARound
<1>4. CASE ~busy'
  <2>1. RoundSteps' = RoundSteps - 1
    BY <1>1, <1>4
  <2> QED
    BY <1>1, <1>2, <1>4, <2>1 DEF OneRound, BusyIsARound
<1> QED
  BY <1>3, <1>4

\* A tickle starts a round or asks for one.
LEMMA TickleInv ==
  ASSUME IInv, Tickle
  PROVE  IInv'
<1> USE DEF IInv, Tickle
<1>1. TypeOK'
  <2>1. busy' \in BOOLEAN /\ pending' \in BOOLEAN /\ sleeping' \in Nat
    BY ScheduleDrainStep
  <2>2. tickles' \in Nat
    BY DEF TypeOK
  <2> QED
    BY <2>1, <2>2 DEF TypeOK, link
<1>2. OneRound' /\ BusyIsARound' /\ FollowUpIsDue'
  BY <1>1, ScheduleKeeps
<1>3. linkUp
  BY DEF ClosedIsQuiet
<1> QED
  BY <1>1, <1>2, <1>3, QuietStep

\* The radio moves a round from the writes to the answers.
LEMMA RadioAnswersInv ==
  ASSUME IInv, NEW w \in Writers, NEW answer \in Answers, RadioAnswers(w, answer)
  PROVE  IInv'
<1> USE DEF IInv, RadioAnswers
<1>1. TypeOK'
  <2>1. writes' \in [Writers -> Nat] /\ inbox' \in Nat
    BY DEF TypeOK
  <2>2. replies' \in Seq(Answers)
    BY DEF TypeOK
  <2> QED
    BY <2>1, <2>2 DEF TypeOK, link, pump
<1>2. RoundSteps' = RoundSteps
  <2>1. Len(replies') = Len(replies) + 1
    BY DEF TypeOK
  <2>2. sleeping' = sleeping /\ sleeping \in Nat
    BY DEF TypeOK
  <2>3. /\ RoundSteps = sleeping + writes["scheduleDrain"] + writes["pumpAfterRecv"]
                       + Len(replies)
        /\ writes["scheduleDrain"] \in Nat /\ writes["pumpAfterRecv"] \in Nat
        /\ Len(replies) \in Nat
    BY Steps
  <2>4. RoundSteps' = sleeping' + writes'["scheduleDrain"] + writes'["pumpAfterRecv"]
                      + Len(replies')
    BY <1>1, StepsNext
  <2>5. CASE w = "scheduleDrain"
    <3>1. /\ writes'["scheduleDrain"] = writes["scheduleDrain"] - 1
          /\ writes'["pumpAfterRecv"] = writes["pumpAfterRecv"]
      BY <2>5 DEF TypeOK, Writers
    <3> HIDE DEF RadioAnswers, IInv
    <3> QED
      BY <2>1, <2>2, <2>3, <2>4, <3>1
  <2>6. CASE w = "pumpAfterRecv"
    <3>1. /\ writes'["scheduleDrain"] = writes["scheduleDrain"]
          /\ writes'["pumpAfterRecv"] = writes["pumpAfterRecv"] - 1
      BY <2>6 DEF TypeOK, Writers
    <3> HIDE DEF RadioAnswers, IInv
    <3> QED
      BY <2>1, <2>2, <2>3, <2>4, <3>1
  <2> QED
    BY <2>5, <2>6 DEF Writers
<1>3. OneRound' /\ BusyIsARound' /\ FollowUpIsDue'
  BY <1>2 DEF OneRound, BusyIsARound, FollowUpIsDue, pump
<1>4. linkUp
  BY DEF ClosedIsQuiet, NoWrites
<1> QED
  BY <1>1, <1>3, <1>4, QuietStep

\* An answer pumps on, is skipped, or ends the round.
LEMMA ReceiveInv ==
  ASSUME IInv, Receive
  PROVE  IInv'
<1> USE DEF IInv, Receive
<1>1. /\ replies' \in Seq(Answers) /\ Len(replies') = Len(replies) - 1
      /\ Len(replies) \in Nat /\ Len(replies) > 0
  BY DEF TypeOK
<1>2. linkUp
  BY DEF ClosedIsQuiet
<1>3. Total(writes) \in Nat /\ sleeping \in Nat /\ RoundSteps \in Nat /\ RoundSteps >= 1
  BY <1>1, Steps DEF TypeOK, Total, Writers
<1>4. "stale" \notin mishaps => busy
  BY <1>3 DEF OneRound
<1>5. CASE RecvMessage
  <2> USE <1>5 DEF RecvMessage
  <2>1. TypeOK'
    <3>1. writes' \in [Writers -> Nat]
      BY DEF TypeOK, Writers
    <3> QED
      BY <1>1, <3>1 DEF TypeOK, link, pump
  <2>2. Total(writes') = Total(writes) + (IF busy /\ linkUp THEN 1 ELSE 0)
    BY DEF TypeOK, Total, Writers
  <2>3. CASE busy
    <3>1. RoundSteps' = RoundSteps
      BY <1>1, <1>2, <1>3, <2>2, <2>3 DEF RoundSteps
    <3>2. OneRound' /\ BusyIsARound' /\ FollowUpIsDue'
      BY <3>1 DEF OneRound, BusyIsARound, FollowUpIsDue, pump
    <3> QED
      BY <2>1, <3>2, <1>2, QuietStep
  <2>4. CASE ~busy
    <3>1. OneRound' /\ BusyIsARound' /\ FollowUpIsDue'
      BY <1>4, <2>4 DEF OneRound, BusyIsARound, FollowUpIsDue, pump
    <3> QED
      BY <2>1, <3>1, <1>2, QuietStep
  <2> QED
    BY <2>3, <2>4
<1>6. CASE RecvSkipped
  <2> USE <1>6 DEF RecvSkipped
  <2>1. TypeOK'
    BY <1>1 DEF TypeOK, Mishaps, link, pump
  <2>2. RoundSteps' = RoundSteps - 1
    BY <1>1, <1>3 DEF RoundSteps
  <2>3. OneRound' /\ BusyIsARound' /\ FollowUpIsDue'
    BY <1>3, <2>2 DEF OneRound, BusyIsARound, FollowUpIsDue, pump
  <2> QED
    BY <2>1, <2>3, <1>2, QuietStep
<1>7. CASE RecvNoMore
  <2> USE <1>7 DEF RecvNoMore
  <2>1. TypeOK'
    <3>1. busy' \in BOOLEAN /\ pending' \in BOOLEAN /\ sleeping' \in Nat
      BY EndRoundStep
    <3> QED
      BY <1>1, <3>1 DEF TypeOK, link
  <2>2. RoundSteps' = RoundSteps - 1 + (sleeping' - sleeping)
    BY <1>1, <1>3, <2>1 DEF RoundSteps, TypeOK
  <2>3. OneRound' /\ BusyIsARound'
    BY <2>1, <2>2, EndKeeps, EndRoundStep
  <2>4. FollowUpIsDue'
    BY EndRoundStep DEF FollowUpIsDue
  <2> QED
    BY <2>1, <2>3, <2>4, <1>2, QuietStep
<1> QED
  BY <1>5, <1>6, <1>7

\* Taking one from a bound that is not exhausted.
LEMMA BudgetSpent ==
  ASSUME budget \in Bounds
  PROVE  /\ budget.msgs > 0 => [budget EXCEPT !.msgs = @ - 1] \in Bounds
         /\ budget.fails > 0 => [budget EXCEPT !.fails = @ - 1] \in Bounds
         /\ budget.handshakes > 0 => [budget EXCEPT !.handshakes = @ - 1] \in Bounds
<1>1. \A n \in Nat : \A i \in 0..n : i > 0 => i - 1 \in 0..n
  OBVIOUS
<1>2. /\ budget.msgs \in 0..MaxMsgs /\ budget.fails \in 0..MaxFails
      /\ budget.handshakes \in 0..MaxHandshakes
  BY DEF Bounds
<1>3. /\ budget.msgs > 0 => budget.msgs - 1 \in 0..MaxMsgs
      /\ budget.fails > 0 => budget.fails - 1 \in 0..MaxFails
      /\ budget.handshakes > 0 => budget.handshakes - 1 \in 0..MaxHandshakes
  BY <1>1, <1>2
<1> QED
  BY <1>3 DEF Bounds

\* A rejected write ends its round.
LEMMA WriteFailsInv ==
  ASSUME IInv, NEW w \in Writers, WriteFails(w)
  PROVE  IInv'
<1> USE DEF IInv, WriteFails
<1>1. TypeOK'
  <2>1. busy' \in BOOLEAN /\ pending' \in BOOLEAN /\ sleeping' \in Nat
    BY CatchStep
  <2>2. writes' \in [Writers -> Nat]
    BY DEF TypeOK
  <2>3. budget' \in Bounds
    BY BudgetSpent DEF TypeOK
  <2> QED
    BY <2>1, <2>2, <2>3 DEF TypeOK, Mishaps, link, radio
<1>2. RoundSteps' = RoundSteps - 1 + (sleeping' - sleeping)
  <2>1. Total(writes') = Total(writes) - 1
    BY DEF TypeOK, Total, Writers
  <2>2. Total(writes) \in Nat /\ Len(replies) \in Nat /\ sleeping \in Nat
        /\ sleeping' \in Nat /\ replies' = replies
    BY <1>1 DEF TypeOK, Total, Writers, radio
  <2> QED
    BY <2>1, <2>2 DEF RoundSteps
<1>3. OneRound' /\ BusyIsARound'
  BY <1>1, <1>2, EndKeeps, CatchStep
<1>4. FollowUpIsDue'
  BY DEF FollowUpIsDue
<1>5. linkUp
  BY DEF ClosedIsQuiet, NoWrites
<1> QED
  BY <1>1, <1>3, <1>4, <1>5, QuietStep

\* A late rejection only happens after a reset that left it behind.
LEMMA LateFailInv ==
  ASSUME IInv, NEW w \in Writers, LateFail(w)
  PROVE  IInv'
<1> USE DEF IInv, LateFail
<1>1. "stale" \in mishaps
  BY DEF LateIsStale, NoWrites
<1>2. TypeOK'
  <2>1. busy' \in BOOLEAN /\ pending' \in BOOLEAN /\ sleeping' \in Nat
    BY CatchStep
  <2>2. late' \in [Writers -> Nat]
    BY DEF TypeOK
  <2> QED
    BY <2>1, <2>2 DEF TypeOK, link, radio
<1> QED
  BY <1>1, <1>2 DEF ClosedIsQuiet, LateIsStale, OneRound, BusyIsARound, FollowUpIsDue,
     link, radio

\* A message is queued in the radio: no step of a round.
LEMMA MessageArrivesInv ==
  ASSUME IInv, MessageArrives
  PROVE  IInv'
<1> USE DEF IInv, MessageArrives
<1>1. TypeOK'
  <2>1. budget' \in Bounds /\ inbox' \in Nat /\ tickles' \in Nat
    BY BudgetSpent DEF TypeOK
  <2> QED
    BY <2>1 DEF TypeOK, link, pump
<1>2. RoundSteps' = RoundSteps
  BY DEF RoundSteps, Total
<1> QED
  BY <1>1, <1>2 DEF ClosedIsQuiet, LateIsStale, OneRound, BusyIsARound, FollowUpIsDue,
     link, pump

\* A handshake that ends schedules a round like a tickle, on an open link.
LEMMA HandshakeEndsInv ==
  ASSUME IInv, HandshakeEnds
  PROVE  IInv'
<1> USE DEF IInv, HandshakeEnds
<1>1. handshakes' \in Nat
  BY DEF TypeOK
<1>2. CASE linkUp /\ ScheduleDrain
  <2>1. TypeOK'
    <3>1. busy' \in BOOLEAN /\ pending' \in BOOLEAN /\ sleeping' \in Nat
      BY <1>2, ScheduleDrainStep
    <3> QED
      BY <1>1, <3>1 DEF TypeOK, link, radio
  <2>2. OneRound' /\ BusyIsARound' /\ FollowUpIsDue'
    BY <1>2, <2>1, ScheduleKeeps DEF radio
  <2> QED
    BY <1>2, <2>1, <2>2, QuietStep
<1>3. CASE ~linkUp /\ UNCHANGED <<pump, sleeping>>
  <2>1. TypeOK'
    BY <1>1, <1>3 DEF TypeOK, link, radio, pump
  <2>2. RoundSteps' = RoundSteps
    BY <1>3 DEF RoundSteps, Total, radio
  <2> QED
    BY <1>3, <2>1, <2>2 DEF ClosedIsQuiet, LateIsStale, OneRound, BusyIsARound,
       FollowUpIsDue, link, radio, pump
<1> QED
  BY <1>2, <1>3

\* A connect edge starts a handshake and touches no round.
LEMMA ConnectInv ==
  ASSUME IInv, Connect \/ Start
  PROVE  IInv'
<1> USE DEF IInv
<1>1. HandleConnect /\ linkUp' = TRUE
  BY DEF Connect, Start, TypeOK
<1>2. TypeOK'
  <2>1. handshakes' \in Nat /\ budget' \in Bounds
    BY <1>1, BudgetSpent DEF HandleConnect, TypeOK
  <2> QED
    BY <1>1, <2>1 DEF HandleConnect, TypeOK, radio, pump
<1>3. RoundSteps' = RoundSteps
  BY <1>1 DEF HandleConnect, RoundSteps, Total, radio
<1> QED
  BY <1>1, <1>2, <1>3 DEF HandleConnect, ClosedIsQuiet, LateIsStale, OneRound,
     BusyIsARound, FollowUpIsDue, pump

\* A lost link ends its rounds, or leaves something stale.
LEMMA DisconnectInv ==
  ASSUME IInv, Disconnect
  PROVE  IInv'
<1> USE DEF IInv, Disconnect
<1>1. late' \in [Writers -> Nat]
  BY DEF TypeOK
<1>2. busy' \in BOOLEAN /\ pending' \in BOOLEAN
  BY DEF TypeOK, ResetDrain, pump
<1>3. writes' \in [Writers -> Nat] /\ replies' \in Seq(Answers) /\ mishaps' \subseteq Mishaps
  <2>1. writes' \in [Writers -> Nat]
    BY DEF NoWrites
  <2>2. replies' \in Seq(Answers)
    OBVIOUS
  <2>3. mishaps' \subseteq Mishaps
    BY DEF Mishaps
  <2> QED
    BY <2>1, <2>2, <2>3
<1>4. TypeOK'
  BY <1>1, <1>2, <1>3 DEF TypeOK
<1>5. RoundSteps' = sleeping'
  <2>1. writes' = NoWrites /\ Len(replies') = 0
    OBVIOUS
  <2> QED
    BY <2>1, <1>4, StepsNext DEF NoWrites, Writers
<1>6. "stale" \notin mishaps' => /\ sleeping' = 0 /\ ~busy' /\ ~pending'
                                 /\ late' = NoWrites
  <2>1. SUFFICES ASSUME "stale" \notin mishaps'
                 PROVE  /\ sleeping' = 0 /\ ~busy' /\ ~pending'
                        /\ late' = NoWrites
    OBVIOUS
  <2>2. ~(sleeping + Total(late') > 0) /\ ~busy' /\ ~pending'
    BY <2>1
  <2>3. /\ late'["scheduleDrain"] \in Nat /\ late'["pumpAfterRecv"] \in Nat
        /\ sleeping \in Nat /\ sleeping' = sleeping
    BY <1>1 DEF TypeOK, Writers
  <2>4. sleeping' = 0 /\ late'["scheduleDrain"] = 0 /\ late'["pumpAfterRecv"] = 0
    BY <2>2, <2>3 DEF Total
  <2> QED
    BY <1>1, <2>2, <2>4 DEF NoWrites, Writers
<1>7. ClosedIsQuiet' /\ LateIsStale'
  BY <1>6 DEF ClosedIsQuiet, LateIsStale, TypeOK
<1>8. OneRound' /\ BusyIsARound' /\ FollowUpIsDue'
  BY <1>5, <1>6 DEF OneRound, BusyIsARound, FollowUpIsDue
<1> QED
  BY <1>4, <1>7, <1>8

\* stop() ends the rounds, or leaves something stale on the open link.
LEMMA StopInv ==
  ASSUME IInv, Stop
  PROVE  IInv'
<1> USE DEF IInv, Stop, ResetDrain
<1>1. TypeOK'
  BY DEF TypeOK, Mishaps, radio
<1>2. RoundSteps' = RoundSteps /\ RoundSteps \in Nat
  BY Steps DEF RoundSteps, Total, radio
<1>3. "stale" \notin mishaps' => RoundSteps = 0
  BY <1>2
<1> QED
  BY <1>1, <1>2, <1>3 DEF ClosedIsQuiet, LateIsStale, OneRound, BusyIsARound,
     FollowUpIsDue, radio

\* Every step preserves the invariant.
LEMMA NextInv ==
  ASSUME IInv, [Next]_vars
  PROVE  IInv'
<1>1. CASE UNCHANGED vars
  BY <1>1 DEF vars, pump, link, radio, IInv, TypeOK, ClosedIsQuiet, LateIsStale, OneRound,
     BusyIsARound, FollowUpIsDue, RoundSteps, Total
<1> QED
  BY <1>1, WakeInv, TickleInv, RadioAnswersInv, ReceiveInv, WriteFailsInv, LateFailInv,
     MessageArrivesInv, HandshakeEndsInv, ConnectInv, DisconnectInv, StopInv DEF Next

-----------------------------------------------------------------------------
(* The theorems.                                                           *)

\* The inductive invariant holds of every behaviour.
THEOREM Invariance == Spec => []IInv
<1>1. Init => IInv
  BY InitInv
<1>2. IInv /\ [Next]_vars => IInv'
  BY NextInv
<1> QED
  BY <1>1, <1>2, PTL DEF Spec

\* Type correctness of the pump.
THEOREM TypeCorrect == Spec => []TypeOK
<1>1. IInv => TypeOK
  BY DEF IInv
<1> QED
  BY <1>1, Invariance, PTL

\* Unless a reset left a step behind, rounds never overlap, however many
\* tickles, failures and handshakes there are.
THEOREM RoundsNeverOverlap == Spec => []OneRound
<1>1. IInv => OneRound
  BY DEF IInv
<1> QED
  BY <1>1, Invariance, PTL

\* busy always stands for a round that will clear it, unless a handler returned
\* without pumping or a reset left a step behind.
THEOREM BusyMeansRound == Spec => []BusyIsARound
<1>1. IInv => BusyIsARound
  BY DEF IInv
<1> QED
  BY <1>1, Invariance, PTL

\* A follow-up that was asked for always has a round to follow.
THEOREM FollowUpDue == Spec => []FollowUpIsDue
<1>1. IInv => FollowUpIsDue
  BY DEF IInv
<1> QED
  BY <1>1, Invariance, PTL

=============================================================================

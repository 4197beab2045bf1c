---------------------------- MODULE DeviceSettings ----------------------------
(***************************************************************************)
(* The settings of the radio and the session's picture of them: the setters *)
(* (setRadioParams, setAdvertName, setOtherParams, setGpsConfig and their   *)
(* like), the reports the radio gives of itself (RESP_SELF_INFO,            *)
(* RESP_DEVICE_INFO, RESP_CUSTOM_VARS, RESP_AUTOADD_CONFIG), the handshake  *)
(* that asks for the first two, and the poll of watchRadioSettings.         *)
(*                                                                         *)
(* A setting's value is the number of the call that set it: 0 is the        *)
(* library's default and Own what the radio came with.                     *)
(*                                                                         *)
(* The radio takes the commands in order, and with the step that takes one  *)
(* the session reads the frame that answers.  A report that nobody awaits   *)
(* is folded in there; what a call awaits it applies when it is resumed,    *)
(* after the other frames of the same chunk: a setter one or two turns of   *)
(* the microtask queue later, a getter or the poll two, and a setter whose  *)
(* write is yet to resolve after that.  Whom an answer is credited to is    *)
(* the matter of ReplyRouting; here each finds its own command.             *)
(***************************************************************************)
EXTENDS Naturals, SequencesExt

CONSTANTS
  MaxCalls,  \* bound on the calls
  MaxUpsets  \* bound on link drops, lost answers and settings changed on the radio

ASSUME BoundsAssumption == MaxCalls \in Nat /\ MaxUpsets \in Nat

Calls == 1..MaxCalls
Own == MaxCalls + 1
Values == 0..Own

\* What the model tells apart of the settings: the LoRa modulation, the power, the
\* advertised name and position, the telemetry policy with the share-position flag,
\* the manual-add byte, the GPS switch and its interval, the path-hash mode, the
\* auto-add flags and the identity.
Settings ==
  {"modulation", "power", "name", "position", "policy", "manualAdd", "gps", "interval", "hash",
   "autoAdd", "key"}

\* The settings each report tells: RESP_SELF_INFO, RESP_DEVICE_INFO, RESP_CUSTOM_VARS,
\* RESP_AUTOADD_CONFIG.
SelfInfo == {"modulation", "power", "name", "position", "policy", "manualAdd", "key"}
DeviceInfo == {"hash"}
CustomVars == {"gps"}
AutoAddFlags == {"autoAdd"}

Reports == {"self", "device", "vars", "flags"}
Setters == {"setRadioParams", "setAdvertName", "setAdvertLatLon", "setOtherParams", "setGpsConfig",
            "setCustomVar", "setPathHashMode", "setAutoAddConfig", "importPrivateKey"}
Getters == {"getSelfInfo", "requestCustomVars", "requestAutoAddConfig"}

\* Where a call is: not made, waiting for the radio, between two commands, or back.
Places == {"none", "waiting", "gap", "back"}

VARIABLES
  radio,     \* the settings as the radio has them
  mirror,    \* as the session has them
  calls,     \* the last call made
  does,      \* does[c]: the setter or getter of call c
  place,     \* place[c]: where it is
  writing,   \* setters' commands whose write has not resolved: [call, what, manualAdd]
  inflight,  \* commands the radio has yet to take: [call, what, manualAdd]
  settled,   \* answers read but not applied: [call, what, says, stale]
  draining,  \* the microtask queue is being run: no frame is read until it is empty
  watching,  \* settingsWatchers is not empty
  polling,   \* settingsTimer runs
  linkUp,    \* the session is connected
  upsets,    \* upsets so far
  vague,     \* settings the session cannot know (history)
  calm       \* calls that keep the manual-add byte, made when it was known (history)

user == <<calls, does>>
poll == <<watching, polling>>
link == <<linkUp, upsets>>
answers == <<settled, draining>>
vars == <<radio, mirror, user, place, writing, inflight, answers, poll, link, vague, calm>>

\* A command of call c; those of the handshake and the poll are of call 0.
Command(c, what, m) == [call |-> c, what |-> what, manualAdd |-> m]
Handshake == <<Command(0, "device", 0), Command(0, "self", 0)>>
Commands == [call : 0..MaxCalls, what : Settings \cup Reports, manualAdd : Values]

\* The answer to a command, read and not applied: the values it has the session record,
\* and those of them that something newer has contradicted since (history).
Answer(h, says, stale) == [call |-> h.call, what |-> h.what, says |-> says, stale |-> stale]

TypeOK ==
  /\ radio \in [Settings -> Values] /\ mirror \in [Settings -> Values]
  /\ calls \in 0..MaxCalls
  /\ does \in [Calls -> Setters \cup Getters \cup {"none"}]
  /\ place \in [Calls -> Places]
  /\ calm \subseteq Calls /\ vague \subseteq Settings
  /\ inflight \in Seq(Commands) /\ writing \in Seq(Commands)
  /\ \A a \in ToSet(settled) :
       /\ a.call \in 0..MaxCalls /\ a.what \in Settings \cup Reports
       /\ DOMAIN a.says \subseteq Settings /\ a.says \in [DOMAIN a.says -> Values]
       /\ a.stale \subseteq DOMAIN a.says
  /\ draining \in BOOLEAN
  /\ watching \in BOOLEAN /\ polling \in BOOLEAN /\ linkUp \in BOOLEAN /\ upsets \in 0..MaxUpsets

Init ==
  /\ radio = [s \in Settings |-> Own] /\ mirror = [s \in Settings |-> 0]
  /\ calls = 0
  /\ does = [c \in Calls |-> "none"] /\ place = [c \in Calls |-> "none"]
  /\ writing = <<>> /\ inflight = <<>> /\ settled = <<>> /\ draining = FALSE
  /\ watching = FALSE /\ polling = FALSE /\ linkUp = FALSE /\ upsets = 0
  /\ vague = Settings /\ calm = {}

\* A command is written; who awaits its write is a setter.
Write(h) == inflight' = Append(inflight, h)
WriteAwaited(h) == Write(h) /\ writing' = Append(writing, h)

\* A command the radio has yet to take, or an answer of a kind yet to be applied.
Waiting(what) == \E h \in ToSet(inflight) : h.what = what
SelfAsked == Waiting("self") \/ \E a \in ToSet(settled) : a.what = "self"
BeingWritten(what) == \E h \in ToSet(writing) : h.what = what

\* An answer waits for the write of its command.  The others are due in the turns of
\* the microtask queue that follow the chunk.
Blocked(a) == \E h \in ToSet(writing) : h.call = a.call
Ready == {i \in DOMAIN settled : ~Blocked(settled[i])}
Idle == Ready = {}

\* An answer is applied: what it says becomes the session's picture.
Applied(says, stale) ==
  /\ mirror' = says @@ mirror
  /\ vague' = (vague \ DOMAIN says) \cup stale

\* What is said now contradicts the first n of the answers that are yet to be applied.
Outdated(says, n) ==
  [i \in DOMAIN settled |->
    IF i > n THEN settled[i]
    ELSE [settled[i] EXCEPT !.stale = @ \cup
            {s \in DOMAIN says \cap DOMAIN settled[i].says : settled[i].says[s] # says[s]}]]

-----------------------------------------------------------------------------
(* The calls.                                                              *)

\* A call is made, and its first command written.  Without a link it returns at once
\* and nothing changes.
Call(f) ==
  /\ linkUp /\ calls < MaxCalls
  /\ calls' = calls + 1
  /\ does' = [does EXCEPT ![calls'] = f]
  /\ place' = [place EXCEPT ![calls'] = "waiting"]
  /\ UNCHANGED <<radio, mirror, answers, poll, link, vague>>

Issue(f, what) ==
  Call(f) /\ WriteAwaited(Command(calls', what, 0)) /\ UNCHANGED calm
Ask(f, what) ==
  Call(f) /\ Write(Command(calls', what, 0)) /\ UNCHANGED <<writing, calm>>

\* setRadioParams: CMD_SET_RADIO_PARAMS, then CMD_SET_RADIO_TX_POWER.
SetRadioParams == Issue("setRadioParams", "modulation")
SetAdvertName == Issue("setAdvertName", "name")
SetAdvertLatLon == Issue("setAdvertLatLon", "position")
SetPathHashMode == Issue("setPathHashMode", "hash")
SetAutoAddConfig == Issue("setAutoAddConfig", "autoAdd")
\* setGpsConfig: the custom var gps, then gps_interval.
SetGpsConfig == Issue("setGpsConfig", "gps")
SetCustomVar == Issue("setCustomVar", "gps")
\* importPrivateKey: CMD_IMPORT_PRIVATE_KEY, then getSelfInfo.
ImportPrivateKey == Issue("importPrivateKey", "key")
\* getSelfInfo, for which withSyncLock waits until no other asks.
GetSelfInfo == ~SelfAsked /\ Ask("getSelfInfo", "self")
RequestCustomVars == Ask("requestCustomVars", "vars")
RequestAutoAddConfig == Ask("requestAutoAddConfig", "flags")

\* Mutant: an omitted argument is sent as zero.
ManualAddOrZero(given, c) == IF given THEN c ELSE 0

\* The byte a setOtherParams sends for the manual-add pref: its own, or if the argument
\* is omitted the one the session holds.
EffectiveManualAdd(given, c) == IF given THEN c ELSE mirror["manualAdd"]

SetOtherParams(given) ==
  /\ Call("setOtherParams")
  /\ WriteAwaited(Command(calls', "policy", EffectiveManualAdd(given, calls')))
  /\ calm' = IF ~given /\ ~BeingWritten("policy") /\ "manualAdd" \notin vague
             THEN calm \cup {calls'} ELSE calm

\* A write resolves, in the order they were made.  With that of setOtherParams the
\* manual-add byte is recorded, whether the radio has answered or not.
Written ==
  /\ writing # <<>>
  /\ writing' = Tail(writing)
  /\ LET h == Head(writing)
         says == [s \in {t \in {"manualAdd"} : h.what = "policy"} |-> h.manualAdd]
     IN /\ Applied(says, {})
        /\ settled' = Outdated(says, Len(settled))
        /\ draining' = (Ready' # {})
  /\ UNCHANGED <<radio, user, place, inflight, poll, link, calm>>

\* What the session no longer knows of when the last command of c has failed: of a
\* setRadioParams half done, the modulation.
HalfDone(what) == IF what = "power" THEN {"modulation"} ELSE {}

\* Nor of the modulation when setRadioParams records the one it set, if a later call
\* has sent another meanwhile.
Overtaken(c, what) ==
  IF what = "power" /\ \E d \in (c + 1)..calls : does[d] = "setRadioParams"
  THEN {"modulation"} ELSE {}

\* The second command of a call.
Second(c) ==
  CASE does[c] = "setRadioParams" -> "power"
    [] does[c] = "setGpsConfig"   -> "interval"
    [] OTHER                      -> "self"

\* Its turn has come: after WRITE_GAP_MS, so in the order of the calls, or for the
\* getSelfInfo of an import when the sync lock is free.
Due(c) ==
  /\ place[c] = "gap"
  /\ IF Second(c) = "self" THEN ~SelfAsked
     ELSE Idle /\ \A d \in 1..(c - 1) : place[d] = "gap" => Second(d) = "self"

\* The second command is written, or cannot be.
GapEnds(c) ==
  /\ Due(c)
  /\ IF linkUp
     THEN /\ LET h == Command(c, Second(c), 0)
             IN IF h.what = "self" THEN Write(h) /\ UNCHANGED writing ELSE WriteAwaited(h)
          /\ place' = [place EXCEPT ![c] = "waiting"]
          /\ UNCHANGED vague
     ELSE /\ place' = [place EXCEPT ![c] = "back"] /\ vague' = vague \cup HalfDone(Second(c))
          /\ UNCHANGED <<inflight, writing>>
  /\ UNCHANGED <<radio, mirror, user, answers, poll, link, calm>>

-----------------------------------------------------------------------------
(* Answers.                                                                *)

\* Mutant: the GPS switch is recorded only with its interval.
RecordedWithInterval(what) ==
  CASE what = "power"    -> {"modulation", "power"}
    [] what = "interval" -> {"gps", "interval"}
    [] what \in {"modulation", "autoAdd", "key", "gps"} -> {}
    [] OTHER             -> {what}

\* The settings recorded when the radio agrees to a command: with setRadioParams both
\* at its second, with setAutoAddConfig and importPrivateKey none.
Recorded(what) ==
  CASE what = "power" -> {"modulation", "power"}
    [] what \in {"modulation", "autoAdd", "key"} -> {}
    [] OTHER          -> {what}

\* The oldest command, in a set.
Oldest == {inflight[i] : i \in DOMAIN inflight \cap {1}}

\* The radio has taken the oldest command, and the session reads a frame: the first of
\* a chunk, or the next of one.
Taken(h) ==
  /\ linkUp /\ ~draining
  /\ inflight' = Tail(inflight)
  /\ UNCHANGED <<user, writing, draining, poll, linkUp, calm>>

\* The radio takes a command, whatever it answers.
RadioTakes == \E h \in Oldest : Taken(h)

\* What the radio does with a command to set: the manual-add byte is assigned before
\* anything is checked, the rest if the command is in order.
Sets(h, inOrder) ==
  radio' = [s \in Settings |->
    IF s = h.what /\ inOrder THEN h.call
    ELSE IF s = "manualAdd" /\ h.what = "policy" THEN h.manualAdd
    ELSE radio[s]]

\* The call's place becomes p, if the command is a call's.
Goes(h, p) == place' = [c \in Calls |-> IF c = h.call THEN p ELSE place[c]]

\* Where a call is once the radio has agreed to a command of its: at the end, or
\* before its second.
After(h) ==
  IF /\ does[h.call] \in {"setRadioParams", "setGpsConfig", "importPrivateKey"}
     /\ h.what # Second(h.call)
  THEN "gap" ELSE "back"

\* RESP_OK to a command: the call will be resumed, and record what was set.
Agreed ==
  \E h \in Oldest :
    /\ Taken(h) /\ h.what \in Settings
    /\ Sets(h, TRUE)
    /\ LET untold == {h.what} \cap {"autoAdd", "key"}
       IN /\ settled' = Append(Outdated([s \in untold |-> h.call], Len(settled)),
                               Answer(h, [s \in Recorded(h.what) |-> h.call],
                                      Overtaken(h.call, h.what)))
          /\ vague' = vague \cup untold
    /\ UNCHANGED <<mirror, place, upsets>>

\* RESP_ERR to a command: the call returns.
Refused ==
  \E h \in Oldest :
    /\ Taken(h) /\ h.what \in Settings
    /\ Sets(h, FALSE)
    /\ vague' = vague \cup HalfDone(h.what)
    /\ Goes(h, "back")
    /\ UNCHANGED <<mirror, settled, upsets>>

\* The report is awaited: a getSelfInfo's, a requestCustomVars's or the poll's.
Awaited(h) == h.what = "vars" \/ (h.what = "self" /\ h.call # 0)

\* A report, folded in at once unless it is awaited.  One that crosses a setOtherParams
\* tells the manual-add byte from before it.
Report(what, told) ==
  \E h \in Oldest :
    /\ Taken(h) /\ h.what = what
    /\ LET says == [s \in told |-> radio[s]]
           crossed == {s \in told \cap {"manualAdd"} : Waiting("policy")}
       IN IF Awaited(h)
          THEN /\ settled' = Append(settled, Answer(h, says, crossed))
               /\ UNCHANGED <<mirror, vague, place>>
          ELSE Applied(says, crossed) /\ Goes(h, "back") /\ UNCHANGED settled
    /\ UNCHANGED <<radio, upsets>>

ApplySelfInfo == Report("self", SelfInfo)
GotDeviceInfo == Report("device", DeviceInfo)
ApplyCustomVars == Report("vars", CustomVars)
GotAutoAddConfig == Report("flags", AutoAddFlags)
Reported == ApplySelfInfo \/ GotDeviceInfo \/ ApplyCustomVars \/ GotAutoAddConfig

\* No answer comes: the radio has done as it was told, the call's time is up.
Unanswered ==
  \E h \in Oldest :
    /\ Taken(h) /\ upsets < MaxUpsets
    /\ upsets' = upsets + 1
    /\ IF h.what \in Settings
       THEN /\ Sets(h, TRUE)
            /\ vague' = vague \cup {h.what} \cup HalfDone(h.what)
            /\ settled' = Outdated(h.what :> h.call, Len(settled))
       ELSE UNCHANGED <<radio, vague, settled>>
    /\ Goes(h, "back")
    /\ UNCHANGED mirror

\* The turns of the microtask queue between a frame and the call it answers: one if the
\* call itself awaits the ack, two through writeAckedFrame, request or requestOrError.
Turns(a) ==
  IF a.what \in Reports \cup {"hash", "interval", "autoAdd", "key"} \/ does[a.call] = "setCustomVar"
  THEN 2 ELSE 1

\* It is resumed before the others: the fewest turns, and of as many the one read first.
DueFirst(i) ==
  \A j \in Ready :
    \/ Turns(settled[i]) < Turns(settled[j])
    \/ Turns(settled[i]) = Turns(settled[j]) /\ i <= j

\* A call is resumed and applies its answer, over whatever was applied since.
Resumed ==
  \E i \in Ready :
    /\ DueFirst(i)
    /\ LET a == settled[i]
       IN /\ Applied(a.says, a.stale)
          /\ settled' = RemoveAt(Outdated(a.says, i - 1), i)
          /\ Goes(a, IF a.what \in Reports THEN "back" ELSE After(a))
    /\ UNCHANGED <<radio, user, writing, inflight, poll, link, calm>>
    /\ draining' = (Ready' # {})

-----------------------------------------------------------------------------
(* The poll, and the link.                                                 *)

\* watchRadioSettings, and the last of the stop functions it returned.  A call made while
\* the microtask queue runs is as one made after it: no timer fires in between.
Watch ==
  /\ Idle
  /\ watching' = ~watching
  /\ polling' = (watching' /\ linkUp)
  /\ UNCHANGED <<radio, mirror, user, place, writing, inflight, answers, link, vague, calm>>

\* pollRadioSettings.  A period is longer than a request's time limit.  It stays out of
\* the handshake and of getSelfInfo, and in the code of the walks of the contacts and
\* the channels too, which are not modelled here.
Poll ==
  /\ polling /\ linkUp /\ Idle /\ ~SelfAsked
  /\ Command(0, "vars", 0) \notin ToSet(inflight)
  /\ Write(Command(0, "vars", 0))
  /\ UNCHANGED <<radio, mirror, user, place, writing, answers, poll, link, vague, calm>>

\* startLivenessPoll, and requestDeviceInfo.  The battery reading that is asked for
\* with it is no setting.
AskDevice ==
  /\ linkUp /\ Idle /\ ~Waiting("device")
  /\ Write(Command(0, "device", 0))
  /\ UNCHANGED <<radio, mirror, user, place, writing, answers, poll, link, vague, calm>>

\* The GPS button of the radio, which tells nobody.
GpsButton ==
  /\ upsets < MaxUpsets
  /\ upsets' = upsets + 1
  /\ radio' = [radio EXCEPT !["gps"] = IF @ = Own THEN 0 ELSE Own]
  /\ vague' = vague \cup {"gps"}
  /\ settled' = Outdated("gps" :> radio'["gps"], Len(settled))
  /\ UNCHANGED <<mirror, user, place, writing, inflight, draining, poll, linkUp, calm>>

\* Mutant: the poll is not taken up again.
ConnectForgetsPoll ==
  /\ ~linkUp
  /\ linkUp' = TRUE
  /\ inflight' = Handshake
  /\ UNCHANGED <<radio, mirror, user, place, writing, answers, poll, upsets, vague, calm>>

\* The link comes up: the handshake asks, the settings poll starts if it is wanted.
Connect ==
  /\ ~linkUp
  /\ linkUp' = TRUE
  /\ polling' = watching
  /\ inflight' = Handshake
  /\ UNCHANGED <<radio, mirror, user, place, writing, answers, watching, upsets, vague, calm>>

\* The link drops: what was written is gone, writes fail, and calls that wait return,
\* those too whose answer was waiting for its write.
Disconnect ==
  /\ linkUp /\ Idle /\ upsets < MaxUpsets
  /\ linkUp' = FALSE /\ polling' = FALSE /\ upsets' = upsets + 1
  /\ inflight' = <<>> /\ writing' = <<>> /\ settled' = <<>>
  /\ place' = [c \in Calls |-> IF place[c] = "waiting" THEN "back" ELSE place[c]]
  /\ vague' = vague \cup UNION {HalfDone(h.what) : h \in ToSet(inflight)}
                    \cup UNION {{a.what} \cup DOMAIN a.says : a \in ToSet(settled)}
                    \cup {s \in {"manualAdd"} : Waiting("policy") \/ BeingWritten("policy")}
  /\ UNCHANGED <<radio, mirror, user, draining, watching, calm>>

Use ==
  \/ SetRadioParams \/ SetAdvertName \/ SetAdvertLatLon \/ SetPathHashMode \/ SetAutoAddConfig
  \/ SetGpsConfig \/ SetCustomVar \/ ImportPrivateKey
  \/ GetSelfInfo \/ RequestCustomVars \/ RequestAutoAddConfig
  \/ \E given \in BOOLEAN : SetOtherParams(given)

Next ==
  \/ Use
  \/ \E c \in Calls : GapEnds(c)
  \/ Written \/ Agreed \/ Refused \/ Reported \/ Unanswered \/ Resumed
  \/ Watch \/ Poll \/ AskDevice \/ GpsButton \/ Connect \/ Disconnect

Spec == Init /\ [][Next]_vars

\* The poll's timer fires, the radio takes what was written to it (a report it then gives,
\* unless the answer is lost), and what is settled is resumed.
FairSpec ==
  /\ Spec
  /\ WF_inflight(Poll) /\ WF_inflight(RadioTakes) /\ WF_settled(Resumed)

-----------------------------------------------------------------------------
(* Properties.                                                             *)

\* When nothing is under way the session's settings are the radio's, whatever setters and
\* reports overlapped and however late what they brought was applied.  Excepted are those
\* the code cannot know (not yet reported, lost with an answer or the link, half set,
\* changed on the radio, or written to it by a setter that leaves them to a report), and
\* those whose last word was stale: an older answer applied after a newer one that said
\* otherwise, as a report is that shares its chunk with a later setter's ack.
AgreeWhenQuiet ==
  /\ TypeOK
  /\ inflight = <<>> /\ settled = <<>> /\ writing = <<>> /\ (\A c \in Calls : place[c] # "gap") =>
       \A s \in Settings \ vague : mirror[s] = radio[s]

\* A setOtherParams whose manual-add argument is omitted leaves the pref as it was, if
\* the session had it from the radio and no other such call was being written.
ManualAddIsKept ==
  [][linkUp' /\ inflight # <<>> /\ inflight' = Tail(inflight)
       /\ Head(inflight).what = "policy" /\ Head(inflight).call \in calm
     => radio'["manualAdd"] = radio["manualAdd"]]_vars

\* While the settings are watched the GPS switch, however it was thrown, is seen.
GpsIsSeen == []<>(watching /\ linkUp => mirror["gps"] = radio["gps"])

=============================================================================

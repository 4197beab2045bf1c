---------------------------- MODULE ContactsSync ----------------------------
(***************************************************************************)
(* The contact list, kept in step with the radio's contact store: by walks *)
(* (GET_CONTACTS: a start frame, the contacts, an end frame, which prunes  *)
(* what the walk did not name), by the pushes the radio sends when its     *)
(* store changes, by the lookups a push schedules, and by the app's own    *)
(* edits.  Which waiter an answer is credited to is ReplyRouting's matter: *)
(* here every answer finds its own.                                        *)
(*                                                                         *)
(* The refusal of a re-sync comes before its ack timer.                    *)
(*                                                                         *)
(* A promise settled by a frame resumes its awaiter in a microtask.  Until *)
(* then, frames of the same chunk may be handled, and nothing else runs.   *)
(***************************************************************************)
EXTENDS Naturals, SequencesExt

CONSTANTS
  Keys,        \* the public keys of contacts
  NoKey,       \* the key of a frame or a command that names none
  MaxEvents    \* bound on news, calls, link drops, stops and answers not waited for

ASSUME SyncAssumption == NoKey \notin Keys /\ MaxEvents \in Nat

Snapshots == {"contacts", "discovered"}

VARIABLES
  contacts,   \* ctx.state: the keys of the contacts
  row,        \* row[k]: on_radio in the discovered pool, "none" without a row
  syncSeen,   \* rt.contactsIter.syncSeen
  bulk,       \* rt.contactsIter.bulk, and bulkWatchdog running
  pending,    \* pendingContacts, pendingDiscovered
  shown,      \* what the last snapshots told the consumers
  resync,     \* resyncTimer is running
  refresh,    \* refreshTimers[k]: its timer runs, or its lookup is out
  orphans,    \* orphans[k]: timers whose entry in refreshTimers was deleted
  lookups,    \* pendingContactByKey: the keys, and who asked
  asked,      \* add and remove commands whose ack is awaited
  ready,      \* awaiters to resume in this turn's microtasks
  linkUp,     \* the transport reports 'connected'
  connected,  \* MeshCoreSession.connected
  store,      \* the radio's contacts
  walking,    \* the radio is enumerating them
  todo,       \* those it has yet to send
  inbox,      \* commands the radio has yet to take
  frames,     \* frames on their way to the session
  steady,     \* keys held by the radio since its last walk began (history)
  whole,      \* the walk being received lacks nothing, its window is open (history)
  adrift,     \* what the list may have missed is behind the walk, or not (history)
  budget      \* what is left of MaxEvents

session == <<contacts, row, syncSeen, bulk, pending, shown>>
waiting == <<resync, refresh, orphans, lookups, asked, ready>>
link == <<linkUp, connected>>
radio == <<store, walking, todo, steady>>
wires == <<inbox, frames>>
history == <<whole, adrift>>
vars == <<session, waiting, link, radio, wires, history, budget>>

Commands == ({"walk", "resync"} \X {NoKey}) \cup ({"lookup", "add", "remove"} \X Keys)

\* The end frame carries, for the properties only, what its walk found steady.
Frames == ({"start", "busy", "unawaited"} \X {NoKey}) \cup ({"end"} \X SUBSET Keys)
  \cup ({"contact", "missing", "added", "refused", "removed", "advert", "newAdvert",
         "deleted"} \X Keys)

Edits == {"add", "remove"} \X Keys

TypeOK ==
  /\ contacts \subseteq Keys /\ syncSeen \subseteq Keys
  /\ row \in [Keys -> {"none", "off", "on"}]
  /\ pending \subseteq Snapshots
  /\ shown \in [contacts : SUBSET Keys, discovered : [Keys -> {"none", "off", "on"}]]
  /\ refresh \in [Keys -> {"none", "scheduled", "asked"}]
  /\ orphans \in [Keys -> Nat]
  /\ lookups \in Seq(Keys \X {"app", "refresh"})
  /\ asked \subseteq Edits /\ ready \subseteq Edits \cup ({"retire"} \X Keys)
  /\ bulk \in BOOLEAN /\ resync \in BOOLEAN
  /\ linkUp \in BOOLEAN /\ connected \in BOOLEAN
  /\ store \subseteq Keys /\ steady \subseteq Keys /\ todo \subseteq Keys
  /\ walking \in BOOLEAN /\ whole \in BOOLEAN
  /\ inbox \in Seq(Commands) /\ frames \in Seq(Frames)
  /\ adrift \in {"no", "untilWalked", "yes"}
  /\ budget \in 0..MaxEvents

\* A session whose handshake has just walked the store.
Init ==
  /\ store \in SUBSET Keys /\ contacts = store
  /\ row = [k \in Keys |-> IF k \in store THEN "on" ELSE "none"]
  /\ syncSeen = {} /\ bulk = FALSE /\ pending = {}
  /\ shown = [contacts |-> contacts, discovered |-> row]
  /\ resync = FALSE
  /\ refresh = [k \in Keys |-> "none"]
  /\ orphans = [k \in Keys |-> 0]
  /\ lookups = <<>> /\ asked = {} /\ ready = {}
  /\ linkUp = TRUE /\ connected = TRUE
  /\ walking = FALSE /\ todo = {} /\ steady = {}
  /\ inbox = <<>> /\ frames = <<>>
  /\ whole = FALSE /\ adrift = "no"
  /\ budget = MaxEvents

Spend == budget > 0 /\ budget' = budget - 1

\* Microtasks run before any timer or transport event.
NoMicrotask == ready = {}

Write(what, k) == inbox' = Append(inbox, <<what, k>>)

-----------------------------------------------------------------------------
(* Snapshots of the list and of the discovered pool.                       *)

\* The snapshots of S go out, with the values after the step.
Emit(S) ==
  [contacts   |-> IF "contacts" \in S THEN contacts' ELSE shown.contacts,
   discovered |-> IF "discovered" \in S THEN row' ELSE shown.discovered]

\* emitContacts, emitDiscovered: held back while the bulk window is open.
Publish(S) ==
  /\ pending' = IF bulk THEN pending \cup S ELSE pending
  /\ shown' = IF bulk THEN shown ELSE Emit(S)
  /\ UNCHANGED bulk

\* closeContactsBulk.
CloseContactsBulk ==
  /\ bulk' = FALSE /\ pending' = {}
  /\ shown' = Emit(pending)

\* openContactsBulk: an open window is closed first.
OpenContactsBulk ==
  /\ bulk' = TRUE /\ pending' = {}
  /\ shown' = IF bulk THEN Emit(pending) ELSE shown

\* The idle watchdog closes the window, and leaves syncSeen alone.  A lookup's answer
\* no longer counts as seen: the walk, if it goes on, is received but in part.
WatchdogFires ==
  /\ bulk /\ NoMicrotask
  /\ UNCHANGED <<contacts, row>>
  /\ CloseContactsBulk
  /\ whole' = FALSE
  /\ UNCHANGED <<syncSeen, waiting, link, radio, wires, adrift, budget>>

-----------------------------------------------------------------------------
(* The timers and the app's calls.                                         *)

\* getContacts() and the handshake ask for a walk.
CallWalk ==
  /\ linkUp /\ NoMicrotask /\ Spend
  /\ Write("walk", NoKey)
  /\ UNCHANGED <<session, waiting, link, radio, frames, history>>

\* addContactToRadio and removeContactFromRadio; at most one of each on a key at
\* a time.
CallEdit(what, k) ==
  /\ linkUp /\ NoMicrotask /\ Spend
  /\ what = "add" => row[k] # "none"
  /\ <<what, k>> \notin asked \cup ready
  /\ Write(what, k)
  /\ asked' = asked \cup {<<what, k>>}
  /\ UNCHANGED <<session, resync, refresh, orphans, lookups, ready, link, radio, frames, history>>

\* getContactByKey.
CallLookup(k) ==
  /\ linkUp /\ NoMicrotask /\ Spend
  /\ Write("lookup", k)
  /\ lookups' = Append(lookups, <<k, "app">>)
  /\ UNCHANGED <<session, resync, refresh, orphans, asked, ready, link, radio, frames, history>>

\* scheduleContactsResync's timer.  On a closed link the write rejects.
ResyncFires ==
  /\ resync /\ NoMicrotask
  /\ resync' = FALSE
  /\ IF linkUp THEN Write("resync", NoKey) ELSE UNCHANGED inbox
  /\ UNCHANGED <<session, refresh, orphans, lookups, asked, ready, link, radio, frames, history,
                 budget>>

\* scheduleContactRefresh's timer: the lookup goes out.
RefreshFires(k) ==
  /\ refresh[k] = "scheduled" /\ linkUp /\ NoMicrotask
  /\ refresh' = [refresh EXCEPT ![k] = "asked"]
  /\ Write("lookup", k)
  /\ lookups' = Append(lookups, <<k, "refresh">>)
  /\ UNCHANGED <<session, resync, orphans, asked, ready, link, radio, frames, history, budget>>

\* The same on a closed link, where the write rejects and the entry goes.
RefreshFails(k) ==
  /\ refresh[k] = "scheduled" /\ ~linkUp /\ NoMicrotask
  /\ refresh' = [refresh EXCEPT ![k] = "none"]
  /\ UNCHANGED <<session, resync, orphans, lookups, asked, ready, link, radio, wires, history,
                 budget>>

\* A timer whose entry is gone fires all the same.  On a closed link its catch
\* deletes the key's entry, whoever made it.
OrphanFires(k) ==
  /\ orphans[k] > 0 /\ NoMicrotask
  /\ IF linkUp
     THEN /\ orphans' = [orphans EXCEPT ![k] = @ - 1]
          /\ Write("lookup", k) /\ lookups' = Append(lookups, <<k, "refresh">>)
          /\ UNCHANGED refresh
     ELSE /\ orphans' = [orphans EXCEPT ![k] = IF refresh[k] = "scheduled" THEN @ ELSE @ - 1]
          /\ refresh' = [refresh EXCEPT ![k] = "none"]
          /\ UNCHANGED <<inbox, lookups>>
  /\ UNCHANGED <<session, resync, asked, ready, link, radio, frames, history, budget>>

\* The lookups of L resolve: those of refreshes resume.
Retiring(L) == {<<"retire", l[1]>> : l \in {m \in L : m[2] = "refresh"}}

\* The ack timer of an edit: what the radio did about it is not known.
EditTimesOut(e) ==
  /\ e \in asked /\ NoMicrotask /\ Spend
  /\ asked' = asked \ {e}
  /\ adrift' = "yes"
  /\ UNCHANGED <<session, resync, refresh, orphans, lookups, ready, link, radio, wires, whole>>

\* The timer of a lookup.
LookupTimesOut(i) ==
  /\ i \in DOMAIN lookups /\ NoMicrotask /\ Spend
  /\ lookups' = RemoveAt(lookups, i)
  /\ ready' = ready \cup Retiring({lookups[i]})
  /\ adrift' = "yes"
  /\ UNCHANGED <<session, resync, refresh, orphans, asked, link, radio, wires, whole>>

\* Mutant: a refresh that found nothing keeps its entry.
RetireKeeps(k) ==
  /\ <<"retire", k>> \in ready
  /\ ready' = ready \ {<<"retire", k>>}
  /\ UNCHANGED <<session, resync, refresh, orphans, lookups, asked, link, radio, wires, history,
                 budget>>

\* The refresh whose lookup resolved deletes the key's entry, whoever made it.
Retire(k) ==
  /\ <<"retire", k>> \in ready
  /\ ready' = ready \ {<<"retire", k>>}
  /\ refresh' = [refresh EXCEPT ![k] = "none"]
  /\ orphans' = [orphans EXCEPT ![k] = IF refresh[k] = "scheduled" THEN @ + 1 ELSE @]
  /\ UNCHANGED <<session, resync, lookups, asked, link, radio, wires, history, budget>>

\* Mutant: setOnRadio is left to the re-sync.
AddedLeavesRow(k) ==
  /\ <<"add", k>> \in ready
  /\ ready' = ready \ {<<"add", k>>}
  /\ contacts' = contacts \cup {k}
  /\ UNCHANGED row
  /\ Publish(Snapshots)
  /\ resync' = TRUE
  /\ UNCHANGED <<syncSeen, refresh, orphans, lookups, asked, link, radio, wires, history, budget>>

\* addContactToRadio goes on after RESP_OK.
Added(k) ==
  /\ <<"add", k>> \in ready
  /\ ready' = ready \ {<<"add", k>>}
  /\ contacts' = contacts \cup {k}
  /\ row' = [row EXCEPT ![k] = "on"]
  /\ Publish(Snapshots)
  /\ resync' = TRUE
  /\ UNCHANGED <<syncSeen, refresh, orphans, lookups, asked, link, radio, wires, history, budget>>

\* setOnRadio(k, false), where there is a row.
SetOffRadio(k) == row' = [row EXCEPT ![k] = IF @ = "none" THEN "none" ELSE "off"]

\* removeContactFromRadio goes on after RESP_OK or NOT_FOUND.
Removed(k) ==
  /\ <<"remove", k>> \in ready
  /\ ready' = ready \ {<<"remove", k>>}
  /\ contacts' = contacts \ {k}
  /\ SetOffRadio(k)
  /\ Publish(Snapshots)
  /\ UNCHANGED <<syncSeen, resync, refresh, orphans, lookups, asked, link, radio, wires, history,
                 budget>>

-----------------------------------------------------------------------------
(* The frames the session handles.                                         *)

\* A frame handled before the awaiters of its chunk resume finds them stale.
Got(what, k) ==
  /\ frames # <<>> /\ Head(frames) = <<what, k>>
  /\ frames' = Tail(frames)

Drift == adrift' = IF NoMicrotask THEN adrift ELSE "yes"

\* RESP_CONTACTS_START.  A lookup that waits may take a record of the walk, and
\* then it repairs nothing.
GotStart ==
  /\ Got("start", NoKey)
  /\ syncSeen' = {}
  /\ UNCHANGED <<contacts, row>>
  /\ OpenContactsBulk
  /\ whole' = TRUE
  /\ adrift' = IF adrift = "no" /\ NoMicrotask THEN "no"
               ELSE IF lookups = <<>> THEN "untilWalked" ELSE "yes"
  /\ UNCHANGED <<waiting, link, radio, inbox, budget>>

\* The first lookup of k in the queue, or 0.
LookupOf(k) == SelectInSeq(lookups, LAMBDA l : l[1] = k)

\* ingestContact of a record the radio holds.
IngestOnRadio(k) ==
  /\ contacts' = contacts \cup {k}
  /\ row' = [row EXCEPT ![k] = "on"]
  /\ Publish(Snapshots)

\* RESP_CONTACT for a lookup: the refresh entry, if any, owns the ingest.
ResolveLookup(k) ==
  LET i == LookupOf(k) IN
    /\ i > 0
    /\ lookups' = RemoveAt(lookups, i)
    /\ ready' = ready \cup Retiring({lookups[i]})
    /\ refresh' = [refresh EXCEPT ![k] = "none"]
    /\ IF refresh[k] # "none" THEN IngestOnRadio(k)
       ELSE UNCHANGED <<contacts, row, bulk, pending, shown>>

\* Mutant: what a lookup consumed does not count as seen.
GotSolicitedUnseen(k) ==
  /\ Got("contact", k)
  /\ ResolveLookup(k)
  /\ UNCHANGED syncSeen
  /\ Drift
  /\ UNCHANGED <<resync, orphans, asked, link, radio, inbox, whole, budget>>

GotSolicited(k) ==
  /\ Got("contact", k)
  /\ ResolveLookup(k)
  /\ syncSeen' = IF bulk THEN syncSeen \cup {k} ELSE syncSeen
  /\ Drift
  /\ UNCHANGED <<resync, orphans, asked, link, radio, inbox, whole, budget>>

\* RESP_CONTACT of the walk.
GotContact(k) ==
  /\ Got("contact", k)
  /\ LookupOf(k) = 0
  /\ syncSeen' = syncSeen \cup {k}
  /\ IngestOnRadio(k)
  /\ Drift
  /\ UNCHANGED <<waiting, link, radio, inbox, whole, budget>>

\* RESP_END_OF_CONTACTS: the pool is reconciled, and the contacts pruned.
GotEnd(kept) ==
  /\ Got("end", kept)
  /\ row' = [k \in Keys |-> CASE row[k] = "none" -> "none"
                              [] row[k] # "none" /\ k \in syncSeen -> "on"
                              [] OTHER -> "off"]
  /\ contacts' = contacts \cap syncSeen
  /\ syncSeen' = {}
  /\ bulk' = FALSE /\ pending' = {} /\ shown' = Emit(Snapshots)
  /\ whole' = FALSE
  /\ adrift' = IF ~whole \/ ~NoMicrotask THEN "yes"
               ELSE IF adrift = "untilWalked" THEN "no" ELSE adrift
  /\ UNCHANGED <<waiting, link, radio, inbox, budget>>

\* Mutant: a re-sync that was refused is given up.
GotBusyGivesUp ==
  /\ Got("busy", NoKey)
  /\ Drift
  /\ UNCHANGED <<session, waiting, link, radio, inbox, whole, budget>>

\* RESP_ERR BAD_STATE to a re-sync.
GotBusy ==
  /\ Got("busy", NoKey)
  /\ resync' = TRUE
  /\ Drift
  /\ UNCHANGED <<session, refresh, orphans, lookups, asked, ready, link, radio, inbox, whole,
                 budget>>

\* The same, after the teardown rejected its awaiter.
GotUnawaited ==
  /\ Got("unawaited", NoKey)
  /\ Drift
  /\ UNCHANGED <<session, waiting, link, radio, inbox, whole, budget>>

\* RESP_ERR to the oldest lookup.
GotMissing(k) ==
  /\ Got("missing", k)
  /\ lookups' = IF lookups = <<>> THEN lookups ELSE Tail(lookups)
  /\ ready' = ready \cup (IF lookups = <<>> THEN {} ELSE Retiring({Head(lookups)}))
  /\ Drift
  /\ UNCHANGED <<session, resync, refresh, orphans, asked, link, radio, inbox, whole, budget>>

\* PUSH_NEW_ADVERT: heard, and refused by the radio; a kind it auto-adds calls
\* for a walk.
GotNewAdvert(k) ==
  /\ Got("newAdvert", k)
  /\ row' = [row EXCEPT ![k] = IF k \in contacts THEN "on" ELSE "off"]
  /\ UNCHANGED contacts
  /\ Publish(IF k \in contacts THEN Snapshots ELSE {"discovered"})
  /\ \E auto \in BOOLEAN : resync' = (resync \/ (k \notin contacts /\ auto))
  /\ Drift
  /\ UNCHANGED <<syncSeen, refresh, orphans, lookups, asked, ready, link, radio, inbox, whole,
                 budget>>

\* PUSH_ADVERT: scheduleContactRefresh, unless an entry covers this push.
GotAdvert(k) ==
  /\ Got("advert", k)
  /\ refresh' = [refresh EXCEPT ![k] = IF @ = "none" THEN "scheduled" ELSE @]
  /\ UNCHANGED <<contacts, row>>
  /\ Publish(IF k \in contacts THEN {"contacts"} ELSE {})
  /\ Drift
  /\ UNCHANGED <<syncSeen, resync, orphans, lookups, asked, ready, link, radio,
                 inbox, whole, budget>>

\* PUSH_CONTACT_DELETED.
GotDeleted(k) ==
  /\ Got("deleted", k)
  /\ SetOffRadio(k)
  /\ contacts' = contacts \ {k}
  /\ Publish(Snapshots)
  /\ Drift
  /\ UNCHANGED <<syncSeen, waiting, link, radio, inbox, whole, budget>>

\* RESP_OK, or RESP_ERR, to an edit; to one that timed out, nothing is done.
GotAck(what, k, ok) ==
  LET e == <<what, k>> IN
    /\ Got(IF ~ok THEN "refused" ELSE IF what = "add" THEN "added" ELSE "removed", k)
    /\ asked' = asked \ {e}
    /\ ready' = IF ok /\ e \in asked THEN ready \cup {e} ELSE ready
    /\ adrift' = IF e \in asked /\ NoMicrotask THEN adrift ELSE "yes"
    /\ UNCHANGED <<session, resync, refresh, orphans, lookups, link, radio, inbox, whole, budget>>

Receive ==
  \/ GotStart
  \/ GotBusy \/ GotUnawaited
  \/ \E kept \in SUBSET Keys : GotEnd(kept)
  \/ \E k \in Keys :
       \/ GotSolicited(k) \/ GotContact(k) \/ GotMissing(k)
       \/ GotNewAdvert(k) \/ GotAdvert(k) \/ GotDeleted(k)
       \/ GotAck("add", k, TRUE) \/ GotAck("add", k, FALSE) \/ GotAck("remove", k, TRUE)

-----------------------------------------------------------------------------
(* The radio.                                                              *)

Sends(fs) == frames' = IF linkUp THEN frames \o fs ELSE frames

Takes(what, k) ==
  /\ inbox # <<>> /\ Head(inbox) = <<what, k>>
  /\ inbox' = Tail(inbox)

\* GET_CONTACTS: one enumeration at a time.
RadioWalks(what) ==
  /\ Takes(what, NoKey)
  /\ \/ /\ ~walking
        /\ Sends(<<<<"start", NoKey>>>>)
        /\ walking' = TRUE /\ todo' = store /\ steady' = store
     \/ /\ walking
        /\ Sends(IF what = "resync" THEN <<<<"busy", NoKey>>>> ELSE <<>>)
        /\ UNCHANGED <<walking, todo, steady>>
  /\ UNCHANGED <<session, waiting, link, store, history, budget>>

RadioStreams(k) ==
  /\ walking /\ k \in todo
  /\ todo' = todo \ {k}
  /\ Sends(<<<<"contact", k>>>>)
  /\ UNCHANGED <<session, waiting, link, store, walking, steady, inbox, history, budget>>

RadioEnds ==
  /\ walking /\ todo = {}
  /\ walking' = FALSE
  /\ Sends(<<<<"end", steady>>>>)
  /\ UNCHANGED <<session, waiting, link, store, todo, steady, inbox, history, budget>>

RadioLooksUp(k) ==
  /\ Takes("lookup", k)
  /\ Sends(<<<<IF k \in store THEN "contact" ELSE "missing", k>>>>)
  /\ UNCHANGED <<session, waiting, link, radio, history, budget>>

\* A new contact takes a slot the walk has yet to reach, or one it has passed.
Stores(k) ==
  /\ store' = store \cup {k}
  /\ IF walking /\ k \notin store THEN todo' \in {todo, todo \cup {k}} ELSE UNCHANGED todo
  /\ UNCHANGED <<walking, steady>>

Drops(k) ==
  /\ store' = store \ {k}
  /\ todo' = todo \ {k} /\ steady' = steady \ {k}
  /\ UNCHANGED walking

\* CMD_ADD_UPDATE_CONTACT, which a full table refuses.
RadioAdds(k) ==
  /\ Takes("add", k)
  /\ \/ Stores(k) /\ Sends(<<<<"added", k>>>>)
     \/ k \notin store /\ Sends(<<<<"refused", k>>>>) /\ UNCHANGED radio
  /\ UNCHANGED <<session, waiting, link, history, budget>>

\* CMD_REMOVE_CONTACT: the caller takes NOT_FOUND for success.
RadioRemoves(k) ==
  /\ Takes("remove", k)
  /\ Drops(k)
  /\ Sends(<<<<"removed", k>>>>)
  /\ UNCHANGED <<session, waiting, link, history, budget>>

\* An advert of a contact.
RadioHears(k) ==
  /\ k \in store /\ Spend
  /\ Sends(<<<<"advert", k>>>>)
  /\ UNCHANGED <<session, waiting, link, radio, inbox, history>>

\* An advert the radio refuses to store.
RadioRefuses(k) ==
  /\ k \notin store /\ Spend
  /\ Sends(<<<<"newAdvert", k>>>>)
  /\ UNCHANGED <<session, waiting, link, radio, inbox, history>>

\* An advert it stores in a free slot.
RadioAutoAdds(k) ==
  /\ k \notin store /\ Spend
  /\ Stores(k)
  /\ Sends(<<<<"advert", k>>>>)
  /\ UNCHANGED <<session, waiting, link, inbox, history>>

\* An advert it stores in the place of another contact.
RadioReplaces(old, k) ==
  /\ k \notin store /\ old \in store /\ Spend
  /\ store' = (store \ {old}) \cup {k}
  /\ todo' \in {todo \ {old}} \cup (IF walking THEN {(todo \ {old}) \cup {k}} ELSE {})
  /\ steady' = steady \ {old}
  /\ Sends(<<<<"deleted", old>>, <<"advert", k>>>>)
  /\ UNCHANGED <<session, waiting, link, walking, inbox, history>>

RadioAnswers ==
  \/ \E what \in {"walk", "resync"} : RadioWalks(what)
  \/ \E k \in Keys : RadioLooksUp(k) \/ RadioAdds(k) \/ RadioRemoves(k)

RadioGoesOn == RadioEnds \/ \E k \in Keys : RadioStreams(k)

-----------------------------------------------------------------------------
(* The link.                                                               *)

\* The connect edge.  The handshake's walk is CallWalk's.
Connect ==
  /\ ~linkUp
  /\ linkUp' = TRUE /\ connected' = TRUE
  /\ UNCHANGED <<session, waiting, radio, wires, history, budget>>

\* start(), on a link that is open.
Start ==
  /\ linkUp /\ ~connected /\ NoMicrotask
  /\ connected' = TRUE
  /\ UNCHANGED <<session, waiting, linkUp, radio, wires, history, budget>>

\* Every lookup resolves null.
FailLookups ==
  /\ lookups' = <<>>
  /\ ready' = ready \cup Retiring(Range(lookups))

\* The link drops.  tearDownConnection, if the connect edge was handled, leaves
\* the timers of re-sync and refreshes.
Disconnect ==
  /\ linkUp /\ NoMicrotask /\ Spend
  /\ linkUp' = FALSE /\ connected' = FALSE
  /\ inbox' = <<>> /\ frames' = <<>>
  /\ whole' = FALSE /\ adrift' = "yes"
  /\ UNCHANGED <<contacts, row>>
  /\ IF connected THEN FailLookups /\ CloseContactsBulk /\ asked' = {}
     ELSE UNCHANGED <<lookups, ready, asked, bulk, pending, shown>>
  /\ UNCHANGED <<syncSeen, resync, refresh, orphans, radio>>

\* The acks' teardown: nobody awaits the refusal of a re-sync any more.
FailAcks ==
  /\ asked' = {}
  /\ inbox' = [i \in DOMAIN inbox |->
                 IF inbox[i][1] = "resync" THEN <<"walk", NoKey>> ELSE inbox[i]]
  /\ frames' = [i \in DOMAIN frames |->
                 IF frames[i][1] = "busy" THEN <<"unawaited", NoKey>> ELSE frames[i]]

\* stop(): resetContactsIter, and tearDownConnection on a handled connect edge.
Stop ==
  /\ NoMicrotask /\ Spend
  /\ UNCHANGED <<contacts, row>>
  /\ CloseContactsBulk
  /\ syncSeen' = {}
  /\ resync' = FALSE
  /\ FailLookups
  /\ refresh' = [k \in Keys |-> "none"]
  /\ IF connected THEN FailAcks ELSE UNCHANGED <<asked, wires>>
  /\ connected' = FALSE
  /\ whole' = FALSE /\ adrift' = "yes"
  /\ UNCHANGED <<orphans, linkUp, radio>>

-----------------------------------------------------------------------------
(* The system.                                                             *)

Timers ==
  \/ WatchdogFires \/ ResyncFires
  \/ \E k \in Keys : RefreshFires(k) \/ RefreshFails(k) \/ OrphanFires(k)
  \/ \E i \in DOMAIN lookups : LookupTimesOut(i)
  \/ \E e \in asked : EditTimesOut(e)

Microtasks == \E k \in Keys : Retire(k) \/ Added(k) \/ Removed(k)

Calls ==
  \/ CallWalk
  \/ \E k \in Keys : CallLookup(k) \/ CallEdit("add", k) \/ CallEdit("remove", k)

Hears ==
  \E k \in Keys :
    \/ RadioHears(k) \/ RadioRefuses(k) \/ RadioAutoAdds(k)
    \/ \E old \in Keys : RadioReplaces(old, k)

Next ==
  \/ Timers \/ Microtasks \/ Calls \/ Receive \/ RadioAnswers \/ RadioGoesOn \/ Hears
  \/ Connect \/ Start \/ Disconnect \/ Stop

Spec == Init /\ [][Next]_vars

Fairness ==
  /\ WF_vars(Microtasks) /\ WF_vars(Receive) /\ WF_vars(RadioAnswers) /\ WF_vars(RadioGoesOn)
  /\ WF_vars(ResyncFires) /\ WF_vars(WatchdogFires)
  /\ \A k \in Keys : WF_vars(RefreshFires(k) \/ RefreshFails(k))
  /\ \A k \in Keys : WF_vars(OrphanFires(k))
  /\ WF_vars(LookupTimesOut(1)) /\ WF_vars(\E e \in asked : EditTimesOut(e))

FairSpec == Spec /\ Fairness

-----------------------------------------------------------------------------
(* Properties.                                                             *)

\* A walk received in full prunes no contact the radio held from its start to
\* its end (RESP_END_OF_CONTACTS removes what syncSeen lacks, whether a lookup
\* consumed the record or not).  In full is: on one link, and in a bulk window open
\* from RESP_CONTACTS_START on.  A slow walk whose window the watchdog closed may
\* prune a contact whose record a lookup took.
PrunedWereGone ==
  [][ \A kept \in SUBSET Keys :
        whole /\ GotEnd(kept) => (contacts \ contacts') \cap kept = {} ]_vars

\* Nothing is on its way: no frame, command, timer or awaiter.
Quiet ==
  /\ NoMicrotask /\ frames = <<>> /\ inbox = <<>> /\ ~walking
  /\ ~resync /\ lookups = <<>> /\ asked = {}
  /\ \A k \in Keys : refresh[k] = "none"

\* When nothing is on its way, the contacts are those of the radio, unless
\* something was missed that no walk has repaired since (a link drop, a stop, an
\* answer that timed out, a frame that overtook an awaiter).
QuietMeansEqual ==
  linkUp /\ connected /\ adrift = "no" /\ Quiet => contacts = store

\* Outside a bulk window the consumers have seen the list and the pool as they
\* are: nothing the emitters held back is forgotten (closeContactsBulk).
SnapshotsFresh ==
  ~bulk => shown = [contacts |-> contacts, discovered |-> row]

\* Every contact is flagged on-radio in the discovered pool: the two are written
\* by eight handlers, in the same turn (ingestContact, setOnRadio,
\* reconcileOnRadio).
ContactsAreOnRadio ==
  \A k \in contacts : row[k] = "on"

\* The list, the discovered pool and what the consumers were told of them agree.
ViewsAgree == TypeOK /\ SnapshotsFresh /\ ContactsAreOnRadio

\* Once the news stop, the list comes to agree with the radio and stays so,
\* unless something was missed that no walk repairs.
Converges ==
  <>[](linkUp /\ connected /\ adrift = "no" => contacts = store)

=============================================================================

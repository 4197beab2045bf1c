---------------------------- MODULE ContactEdits ----------------------------
(***************************************************************************)
(* The edits of one contact (setContactPath, resetContactPath,             *)
(* setContactFavourite, setContactTelemetryPerms, setContactPreferDirect,  *)
(* addContactToRadio, removeContactFromRadio of session.ts) against the    *)
(* record the radio holds.                                                 *)
(*                                                                         *)
(* A contact exists three times: the radio's own record, the row of the    *)
(* discovered pool (the radio's last report) and the entry of the contact  *)
(* list.  CMD_ADD_UPDATE_CONTACT replaces the whole record, so every edit  *)
(* sends the other fields as well, as they were when it was called; and    *)
(* what it writes back after the radio's ack is partly what it read before *)
(* it awaited that ack.  The model keeps both reads apart.                 *)
(*                                                                         *)
(* sendAnonReq borrows the record: a contact that floods is given a         *)
(* zero-hop path until the request is on the air (repeaterAdmin.ts).        *)
(*                                                                         *)
(* Names, positions, times and hop counts are left out.  When the radio    *)
(* lists its contacts is ContactsSync; here a report may come at any time. *)
(* While the link is down a write rejects and changes nothing, so a drop   *)
(* is one step.                                                            *)
(***************************************************************************)
EXTENDS Naturals, Sequences, SequencesExt

CONSTANTS
  Absent,      \* no such record, row or entry
  Routes,      \* the out_paths of one hop or more
  Given,       \* the preferences the application gives with a path
  MaxEvents    \* calls, timeouts, drops and changes of the radio, together

ASSUME EventsAssumption == MaxEvents \in Nat
ASSUME GivenAssumption == Given \subseteq BOOLEAN
ASSUME RoutesAssumption == Routes \cap {"none", "flood", "direct", "shim"} = {}

\* out_path_len 0xff, 0, or more; "shim" is the 0 that sendAnonReq puts there.
Paths == Routes \cup {"flood", "direct", "shim"}

Records == [path : Paths, fav : BOOLEAN, perms : BOOLEAN]
Rows == [path : Paths, fav : BOOLEAN, perms : BOOLEAN, on : BOOLEAN]
Entries == [path : Routes \cup {"none"}, fav : BOOLEAN, perms : BOOLEAN,
            manual : BOOLEAN, direct : BOOLEAN]

ASSUME AbsentAssumption == Absent \notin Records \cup Rows \cup Entries

VARIABLES
  radio,       \* the radio's record, or Absent
  row,         \* the row of the discovered pool, or Absent
  contact,     \* the entry of the contact list, or Absent
  calls,       \* edits whose ack is awaited, in the order of the ack FIFO
  done,        \* edits whose ack came, their functions not yet resumed
  asks,        \* anon requests whose RESP_SENT is awaited
  up,          \* commands on their way to the radio
  down,        \* frames on their way to the host
  events,      \* events spent
  clean,       \* (history) no two edits of different fields overlapped since
               \* the host last knew the radio's record
  chosen,      \* (history) the path of the last confirmed path edit
  seen,        \* (history) a report showed the borrowed path, or a drop left it
  prefer       \* (history) what preferDirect may be: the value last set, that
               \* of a setContactPath since, or either when a path edit under
               \* way holds the old one

host == <<row, contact>>
wire == <<up, down>>
history == <<clean, chosen, seen, prefer>>
vars == <<radio, host, calls, done, asks, wire, events, history>>

Ops == {"path", "reset", "fav", "perms", "add", "remove", "shim", "restore"}
Args == [path : Paths, manual : BOOLEAN, fav : BOOLEAN, perms : BOOLEAN]
Calls == [op : Ops, arg : Args, contact : Entries \cup {Absent},
          row : Rows \cup {Absent}, live : BOOLEAN, ok : BOOLEAN]
Commands == [cmd : {"update"}, rec : Records] \cup [cmd : {"reset", "remove", "anon"}, rec : {Absent}]
Frames == [code : {"record"}, rec : Records]
  \cup [code : {"ok", "refused", "notfound", "sent", "advert", "gone"}, rec : {Absent}]

TypeOK ==
  /\ radio \in Records \cup {Absent}
  /\ row \in Rows \cup {Absent}
  /\ contact \in Entries \cup {Absent}
  /\ calls \in Seq(Calls) /\ \A i \in DOMAIN calls : ~calls[i].ok
  /\ done \in Seq(Calls)
  /\ up \in Seq(Commands) /\ down \in Seq(Frames)
  /\ events \in 0 .. MaxEvents
  /\ asks \in Nat
  /\ clean \in BOOLEAN /\ seen \in BOOLEAN
  /\ chosen \in Routes \cup {"none"}
  /\ prefer \subseteq BOOLEAN

---------------------------------------------------------------------------
(* What the three copies have in common.                                   *)

\* outPathHex of a contact: empty, so undefined, unless there is a hop.
PathHex(path) == IF path \in Routes THEN path ELSE "none"

RecordOf(r) == [path |-> r.path, fav |-> r.fav, perms |-> r.perms]
RowOf(rec, on) ==
  [path |-> rec.path, fav |-> rec.fav, perms |-> rec.perms, on |-> on]

\* encodeContactRecordRewrite: the row with the field that changes.
Rewrite(path, fav, perms) ==
  [cmd |-> "update", rec |-> [path |-> path, fav |-> fav, perms |-> perms]]
Bare(cmd) == [cmd |-> cmd, rec |-> Absent]

\* Mutant: the manual flag outlives the path it was set for.
MergedStaysManual(rec, old) ==
  LET known == old # Absent
      was == IF known THEN old.path ELSE "none"
      keepManualPath == PathHex(rec.path) = "none" /\ known /\ old.manual
      path == IF keepManualPath THEN was ELSE PathHex(rec.path)
  IN [path |-> path, fav |-> rec.fav, perms |-> rec.perms,
      manual |-> known /\ old.manual,
      direct |-> known /\ old.direct]
\* upsertOnRadioContact: the entry a record of the radio leaves, `old` being
\* the one it finds.  A record without a path does not clear a manual one.
Merged(rec, old) ==
  LET known == old # Absent
      was == IF known THEN old.path ELSE "none"
      keepManualPath == PathHex(rec.path) = "none" /\ known /\ old.manual
      path == IF keepManualPath THEN was ELSE PathHex(rec.path)
  IN [path |-> path, fav |-> rec.fav, perms |-> rec.perms,
      manual |-> path = was /\ known /\ old.manual,
      direct |-> known /\ old.direct]

\* A mutator of DiscoveredStore changes the row in place, and with it what an
\* addContactToRadio under way holds; upsert puts another object in its place.
Shared(q, r) ==
  [i \in DOMAIN q |-> IF q[i].live THEN [q[i] EXCEPT !.row = r] ELSE q[i]]
Severed(q) == [i \in DOMAIN q |-> [q[i] EXCEPT !.live = FALSE]]

Idle == calls = <<>> /\ done = <<>> /\ up = <<>> /\ asks = 0
Quiet == Idle /\ down = <<>>

Field(op) == CASE op \in {"path", "reset"} -> "path"
               [] op \in {"add", "remove"} -> "store"
               [] op \in {"shim", "restore"} -> "shim"
               [] OTHER -> op
\* An edit of another field, or a removal or an advert on its way.
Overlaps(op) ==
  \/ \E c \in Range(calls) \cup Range(done) : Field(c.op) # Field(op)
  \/ asks > 0 /\ Field(op) # "shim"
  \/ \E f \in Range(down) : f.code \in {"gone", "advert"}
PathEdited == \E c \in Range(calls) \cup Range(done) : Field(c.op) = "path"

Spend == events < MaxEvents /\ events' = events + 1

Init ==
  /\ calls = <<>> /\ done = <<>> /\ asks = 0 /\ up = <<>> /\ down = <<>>
  /\ events = 0 /\ seen = FALSE
  /\ \/ \E rec \in Records, manual \in BOOLEAN :    \* known since the last sync
          /\ rec.fav /\ ~rec.perms /\ rec.path # "shim"
          /\ manual <=> rec.path \in Routes
          /\ radio = rec
          /\ row = RowOf(rec, TRUE)
          /\ contact = [path |-> PathHex(rec.path), fav |-> rec.fav,
                        perms |-> rec.perms, manual |-> manual, direct |-> FALSE]
          /\ clean = TRUE
     \/ /\ radio = Absent                           \* heard, not stored
        /\ row = [path |-> "flood", fav |-> FALSE, perms |-> FALSE, on |-> FALSE]
        /\ contact = Absent
        /\ clean = TRUE
     \/ \E rec \in Records :           \* hydrated by the app, not yet reported
          /\ rec.path \in Routes /\ rec.fav /\ rec.perms
          /\ radio = rec
          /\ row = Absent
          /\ contact = [path |-> PathHex(rec.path), fav |-> FALSE,
                        perms |-> rec.perms, manual |-> TRUE, direct |-> FALSE]
          /\ clean = FALSE
  /\ chosen = IF contact # Absent THEN contact.path ELSE "none"
  /\ prefer = {FALSE}

---------------------------------------------------------------------------
(* Calls of the application, up to the await of the ack.                   *)

NoArg == [path |-> "flood", manual |-> FALSE, fav |-> FALSE, perms |-> FALSE]

Call(op, arg, snap, held) ==
  [op |-> op, arg |-> arg, contact |-> snap,
   row |-> held, live |-> held # Absent, ok |-> FALSE]

Issue(op, arg, snap, held, frame) ==
  /\ Spend
  /\ calls' = Append(calls, Call(op, arg, snap, held))
  /\ up' = Append(up, frame)
  /\ clean' = (clean /\ ~Overlaps(op))
  /\ prefer' = IF snap = Absent THEN prefer ELSE prefer \cup {snap.direct}
  /\ UNCHANGED <<radio, host, done, asks, down, chosen, seen>>

\* The flags of a rewrite are the row's; without a row they are rebuilt from
\* the entry (contactRecordFlags).
Known == IF row # Absent THEN RecordOf(row) ELSE RecordOf(contact)

\* setContactPath.  The preference it writes back with the path is its own or, where
\* that is omitted, the entry's.
CallSetPath ==
  /\ contact # Absent
  /\ \E path \in Routes \cup {"direct"}, manual \in BOOLEAN,
        direct \in {contact.direct} \cup Given :
       Issue("path", [NoArg EXCEPT !.path = path, !.manual = manual],
             [contact EXCEPT !.direct = direct], Absent,
             Rewrite(path, Known.fav, Known.perms))

\* resetContactPath.
CallResetPath ==
  /\ contact # Absent
  /\ Issue("reset", NoArg, contact, Absent, Bare("reset"))

\* addContactToRadio holds the row until its ack.
CallAdd ==
  /\ row # Absent
  /\ Issue("add", NoArg, Absent, row, Rewrite(row.path, row.fav, row.perms))

\* sendAnonReq to a contact that floods; to any other the record is not
\* touched.  Without a row it is the entry's hop count that tells.
CallAnon ==
  /\ contact # Absent
  /\ IF row # Absent THEN row.path = "flood" ELSE contact.path = "none"
  /\ Issue("shim", NoArg, Absent, Absent, Rewrite("shim", Known.fav, Known.perms))

\* removeContactFromRadio.
CallRemove == Issue("remove", NoArg, Absent, Absent, Bare("remove"))

---------------------------------------------------------------------------
(* What a confirmed edit does to the host.                                 *)

Mutate(r) == row' = IF row = Absent THEN Absent ELSE r
Entry(e) == contact' = IF contact = Absent THEN Absent ELSE e

FavouriteSet(fav) ==
  /\ Mutate([row EXCEPT !.fav = fav])
  /\ Entry([contact EXCEPT !.fav = fav])
\* The flags byte was computed from the row at the call.
PermsSet(arg) ==
  /\ Mutate([row EXCEPT !.fav = arg.fav, !.perms = arg.perms])
  /\ Entry([contact EXCEPT !.perms = arg.perms])
\* Mutant: the row keeps the path the radio no longer has.
PathSetLeavesRow(c) ==
  /\ UNCHANGED row
  /\ contact' = [c.contact EXCEPT !.path = PathHex(c.arg.path), !.manual = c.arg.manual]
\* The entry is the one read at the call, with the new path and the preference that
\* was to go with it.
PathSet(c) ==
  /\ Mutate([row EXCEPT !.path = c.arg.path])
  /\ contact' = [c.contact EXCEPT !.path = PathHex(c.arg.path), !.manual = c.arg.manual]
PathReset(c) ==
  /\ Mutate([row EXCEPT !.path = "flood"])
  /\ contact' = [c.contact EXCEPT !.path = "none", !.manual = TRUE]
Added(c) ==
  /\ Mutate([row EXCEPT !.on = TRUE])
  /\ contact' = Merged(RecordOf(c.row), contact)
Removed ==
  /\ Mutate([row EXCEPT !.on = FALSE])
  /\ contact' = Absent

\* A removal loses the local preference; one that a path edit is about to
\* write back may or may not come to stand.
Forgotten == IF PathEdited THEN BOOLEAN ELSE {FALSE}

EditedHere(op) ==
  /\ Spend
  /\ calls' = Shared(calls, row') /\ done' = Shared(done, row')
  /\ clean' = (clean /\ ~Overlaps(op))
  /\ UNCHANGED <<radio, asks, wire, chosen, seen, prefer>>

\* setContactFavourite, setContactTelemetryPerms: a contact that is not on
\* the radio is edited locally, at once.
CallSetFavourite ==
  \E fav \in BOOLEAN :
    /\ row # Absent
    /\ \/ /\ row.on
          /\ Issue("fav", [NoArg EXCEPT !.fav = fav], Absent, Absent,
                   Rewrite(row.path, fav, row.perms))
       \/ /\ ~row.on
          /\ FavouriteSet(fav)
          /\ EditedHere("fav")

CallSetPerms ==
  \E perms \in BOOLEAN :
    /\ row # Absent
    /\ LET arg == [NoArg EXCEPT !.fav = row.fav, !.perms = perms] IN
       \/ /\ row.on
          /\ Issue("perms", arg, Absent, Absent, Rewrite(row.path, row.fav, perms))
       \/ /\ ~row.on
          /\ PermsSet(arg)
          /\ EditedHere("perms")

\* setContactPreferDirect writes nothing to the radio.
CallPreferDirect ==
  \E direct \in BOOLEAN :
    /\ contact # Absent
    /\ contact.direct # direct
    /\ Spend
    /\ contact' = [contact EXCEPT !.direct = direct]
    /\ prefer' = IF PathEdited THEN BOOLEAN ELSE {direct}
    /\ UNCHANGED <<radio, row, calls, done, asks, wire, clean, chosen, seen>>

\* Mutant: a shim that was not confirmed is not taken back.
AfterShimGivesUp(c) ==
  /\ calls' = calls
  /\ IF c.ok THEN up' = Append(up, Bare("anon")) /\ asks' = asks + 1
             ELSE UNCHANGED <<up, asks>>
\* sendAnonReq: once the shim is confirmed the request is written; else the
\* finally takes back a shim that may have reached the radio all the same.
AfterShim(c) ==
  IF c.ok
  THEN up' = Append(up, Bare("anon")) /\ asks' = asks + 1 /\ calls' = calls
  ELSE /\ calls' = Append(calls, Call("restore", NoArg, Absent, Absent))
       /\ up' = Append(up, Bare("reset"))
       /\ UNCHANGED asks

\* The function of an edit goes on after its await: a refused, unanswered or
\* cut off edit throws (or returns false) and leaves the host as it was.
Resume ==
  /\ done # <<>>
  /\ LET c == Head(done) IN
     \/ /\ c.op # "shim"
        /\ ~c.ok \/ c.op = "restore"
        /\ calls' = calls
        /\ UNCHANGED <<host, asks, up, chosen, prefer>>
     \/ /\ c.op = "shim"
        /\ AfterShim(c)
        /\ UNCHANGED <<host, chosen, prefer>>
     \/ /\ c.ok /\ Field(c.op) # "shim"
        /\ CASE c.op = "path"   -> PathSet(c)
             [] c.op = "reset"  -> PathReset(c)
             [] c.op = "fav"    -> FavouriteSet(c.arg.fav)
             [] c.op = "perms"  -> PermsSet(c.arg)
             [] c.op = "add"    -> Added(c)
             [] c.op = "remove" -> Removed
        /\ calls' = Shared(calls, row')
        /\ chosen' = IF Field(c.op) = "path" THEN contact'.path ELSE chosen
        /\ prefer' = IF c.op = "remove" /\ contact # Absent THEN Forgotten ELSE prefer
        /\ UNCHANGED <<asks, up>>
  /\ done' = Shared(Tail(done), row')
  /\ UNCHANGED <<radio, down, events, clean, seen>>

---------------------------------------------------------------------------
(* Frames.                                                                 *)

\* RESP_OK and RESP_ERR settle the oldest edit; NOT_FOUND is a success for a
\* removal.  Without a waiter the answer is dropped.
GotAck ==
  /\ Head(down).code \in {"ok", "refused", "notfound"}
  /\ IF calls = <<>> THEN UNCHANGED <<calls, done>>
     ELSE LET c == Head(calls)
              ok == \/ Head(down).code = "ok"
                    \/ Head(down).code = "notfound" /\ c.op = "remove"
          IN /\ done' = Append(done, [c EXCEPT !.ok = ok])
             /\ calls' = Tail(calls)
  /\ UNCHANGED <<host, asks, up, history>>

\* RESP_SENT of an anon request, or its refusal: restoreFlood.
GotSent ==
  /\ Head(down).code = "sent"
  /\ IF asks = 0 THEN UNCHANGED <<calls, asks, up>>
     ELSE /\ asks' = asks - 1
          /\ calls' = Append(calls, Call("restore", NoArg, Absent, Absent))
          /\ up' = Append(up, Bare("reset"))
  /\ UNCHANGED <<host, done, history>>

\* A record read from the radio's store: ingestContact.  The history notes
\* that the host knows the radio again when nothing else is under way.
GotRecord ==
  LET rec == Head(down).rec IN
  /\ Head(down).code = "record"
  /\ row' = RowOf(rec, TRUE)
  /\ contact' = Merged(rec, contact)
  /\ calls' = Severed(calls) /\ done' = Severed(done)
  /\ clean' = (rec.path # "shim" /\ (clean \/ (Idle /\ Len(down) = 1 /\ rec = radio)))
  /\ seen' = (seen \/ rec.path = "shim")
  /\ UNCHANGED <<asks, up, chosen, prefer>>

\* PUSH_NEW_ADVERT of a contact the radio does not store: no flags and no
\* path; a row keeps the flags it had.
GotNewAdvert ==
  LET rec == [path |-> "flood", fav |-> FALSE, perms |-> FALSE] IN
  /\ Head(down).code = "advert"
  /\ row' = RowOf([rec EXCEPT !.fav = row # Absent /\ row.fav,
                              !.perms = row # Absent /\ row.perms], contact # Absent)
  /\ contact' = IF contact = Absent THEN Absent ELSE Merged(rec, contact)
  /\ calls' = Severed(calls) /\ done' = Severed(done)
  /\ UNCHANGED <<asks, up, history>>

\* PUSH_CONTACT_DELETED, or the end of a walk that did not list the contact.
GotDeleted ==
  /\ Head(down).code = "gone"
  /\ Removed
  /\ calls' = Shared(calls, row') /\ done' = Shared(done, row')
  /\ prefer' = IF contact = Absent THEN prefer ELSE Forgotten
  /\ UNCHANGED <<asks, up, clean, chosen, seen>>

Receive ==
  /\ down # <<>>
  /\ GotAck \/ GotSent \/ GotRecord \/ GotNewAdvert \/ GotDeleted
  /\ down' = Tail(down)
  /\ UNCHANGED <<radio, events>>

\* The ack timer of the oldest edit, or the RESP_SENT timer of an anon request;
\* the answer, if it comes, is the next one's (ReplyRouting).
TimesOut ==
  /\ Spend
  /\ \/ /\ calls # <<>>
        /\ done' = Append(done, Head(calls))
        /\ calls' = Tail(calls)
        /\ UNCHANGED <<asks, up>>
     \/ /\ asks > 0
        /\ asks' = asks - 1
        /\ calls' = Append(calls, Call("restore", NoArg, Absent, Absent))
        /\ up' = Append(up, Bare("reset"))
        /\ UNCHANGED done
  /\ clean' = FALSE
  /\ UNCHANGED <<radio, host, down, chosen, seen, prefer>>

\* An edit that is cut off; a shim goes on as a restore does, since it cannot be
\* taken back any more.
CutOff(c) == IF c.op = "shim" THEN [c EXCEPT !.op = "restore"] ELSE c

\* tearDownConnection: every ack fails, and what was on the wire is lost.
LinkDrops ==
  /\ ~Quiet
  /\ Spend
  /\ done' = [i \in DOMAIN (done \o calls) |-> CutOff((done \o calls)[i])]
  /\ calls' = <<>> /\ asks' = 0 /\ up' = <<>> /\ down' = <<>>
  /\ clean' = FALSE
  /\ seen' = TRUE
  /\ UNCHANGED <<radio, host, chosen, prefer>>

---------------------------------------------------------------------------
(* The radio.                                                              *)

Answer(code) == down' = Append(down, [code |-> code, rec |-> Absent])

RadioTakes ==
  /\ up # <<>>
  /\ LET f == Head(up) IN
     \/ /\ f.cmd = "update" /\ radio' = f.rec /\ Answer("ok")
     \/ /\ f.cmd = "update" /\ radio = Absent
        /\ UNCHANGED radio /\ Answer("refused")            \* table full
     \/ /\ f.cmd = "reset" /\ radio # Absent
        /\ radio' = [radio EXCEPT !.path = "flood"] /\ Answer("ok")
     \/ /\ f.cmd = "remove" /\ radio # Absent
        /\ radio' = Absent /\ Answer("ok")
     \/ /\ f.cmd \in {"reset", "remove"} /\ radio = Absent
        /\ UNCHANGED radio /\ Answer("notfound")
     \/ /\ f.cmd = "anon"
        /\ UNCHANGED radio /\ Answer("sent")
  /\ up' = Tail(up)
  /\ UNCHANGED <<host, calls, done, asks, events, history>>

\* Of its own: a path learned, a contact evicted or auto-added, an advert of
\* a contact it does not store, and a report of what it holds.
RadioChanges ==
  /\ Spend
  /\ \/ /\ radio # Absent
        /\ \E p \in Routes \ {radio.path} : radio' = [radio EXCEPT !.path = p]
        /\ clean' = FALSE
        /\ UNCHANGED down
     \/ /\ radio # Absent
        /\ radio' = Absent
        /\ Answer("gone")
        /\ clean' = (clean /\ Idle)
     \/ /\ radio = Absent
        /\ radio' = [path |-> "flood", fav |-> FALSE, perms |-> FALSE]
        /\ clean' = FALSE
        /\ UNCHANGED down
     \/ /\ radio = Absent
        /\ Answer("advert")
        /\ clean' = (clean /\ Idle)
        /\ UNCHANGED radio
     \/ /\ down' = Append(down, IF radio = Absent THEN [code |-> "gone", rec |-> Absent]
                                 ELSE [code |-> "record", rec |-> radio])
        /\ UNCHANGED <<radio, clean>>
  /\ UNCHANGED <<host, calls, done, asks, up, chosen, seen, prefer>>

Next ==
  \/ CallSetPath \/ CallResetPath \/ CallSetFavourite \/ CallSetPerms
  \/ CallAdd \/ CallRemove \/ CallPreferDirect \/ CallAnon
  \/ Resume \/ Receive \/ TimesOut \/ LinkDrops
  \/ RadioTakes \/ RadioChanges

Spec == Init /\ [][Next]_vars

\* Routes are only compared with each other.
RouteSymmetry == Permutations(Routes)

---------------------------------------------------------------------------
(* Properties.                                                             *)

\* When nothing is under way, and no two edits of different fields overlapped
\* since the host last knew the radio's record, the three copies agree: the
\* row is the radio's record, and the entry shows its flags and its path, or
\* a manual path where the radio has none.  In particular one report of a
\* radio at rest repairs whatever overlapping, timed-out and cut-off edits
\* left behind.
AgreeWhenQuiet ==
  Quiet /\ clean =>
    IF radio = Absent
    THEN contact = Absent /\ (row # Absent => ~row.on)
    ELSE /\ row = RowOf(radio, TRUE)
         /\ contact # Absent
         /\ contact.fav = radio.fav /\ contact.perms = radio.perms
         /\ \/ contact.path = PathHex(radio.path)
            \/ contact.manual /\ PathHex(radio.path) = "none"

\* A path marked as set by hand is the one the last confirmed path edit set:
\* no report, advert or rewrite in between puts another path under the flag.
ManualIsChosen == contact # Absent /\ contact.manual => contact.path = chosen

\* The local preference survives every report and every edit that did not
\* overlap the call that set it.
PreferenceKept == contact # Absent => contact.direct \in prefer

\* repeaterAdmin.ts: the path of a contact that floods is restored "exactly
\* once ... so no zero-hop path leaks".  When nothing is under way the borrowed
\* path is nowhere left, however anon requests overlapped each other, edits
\* and timeouts, unless a report showed it to the host meanwhile, whose next
\* rewrite then puts it back, or the link dropped before it was taken back.
BorrowedPathIsReturned ==
  Quiet /\ ~seen => \A copy \in {radio, row} \ {Absent} : copy.path # "shim"

\* What the radio does not know of a contact outlives the radio's reports.
LocalChoicesSurvive == TypeOK /\ ManualIsChosen /\ PreferenceKept
=============================================================================

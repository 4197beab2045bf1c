-------------------------- MODULE ContactEdits_proofs --------------------------
(***************************************************************************)
(* Proofs about ContactEdits, for any routes and any number of events.     *)
(*                                                                         *)
(* The argument for the borrowed path: until a report has shown it, it is  *)
(* in no row and in no call's copy of one, so that only sendAnonReq ever   *)
(* writes it; and wherever it still is, at the radio or on the way there,  *)
(* a reset comes behind it, or a request is under way that will send one.  *)
(*                                                                         *)
(* The argument for the agreement of the three copies is told before it    *)
(* begins, at Agreeing.                                                    *)
(***************************************************************************)
EXTENDS ContactEdits, SequenceTheorems, TLAPS

\* The edits under way.
Edits == Range(calls) \cup Range(done)

\* What an edit holds: setContactPath and resetContactPath the entry they read and may
\* write back, addContactToRadio its row.
HoldsOK(c) ==
  /\ c.op \in {"path", "reset"} => c.contact \in Entries /\ c.contact.direct \in prefer
  /\ c.op = "add" => c.row \in Rows
  /\ c.arg.path # "shim"
  /\ c.live => row \in Rows

\* The preference an entry made anew will have is one it may have.
PreferOK ==
  /\ \A c \in Edits : HoldsOK(c)
  /\ contact = Absent => FALSE \in prefer

\* Until it was seen, no row has the borrowed path.
RowsAreOwn ==
  ~seen => /\ row # Absent => row.path # "shim"
           /\ \A c \in Edits : c.row # Absent => c.row.path # "shim"

\* The command that lends the path.
Lends(f) == f.cmd = "update" /\ f.rec.path = "shim"

\* Of the commands u, none behind place n lends it.
LentUpTo(u, n) == \A i \in DOMAIN u : Lends(u[i]) => i <= n

\* A reset comes behind all that lends it.
Returns(u) == \E j \in DOMAIN u : u[j].cmd = "reset" /\ LentUpTo(u, j)

Lent == (radio # Absent /\ radio.path = "shim") \/ ~LentUpTo(up, 0)

\* A request is under way that will send one.
Asking == (\E c \in Edits : c.op = "shim") \/ asks > 0

\* What is lent comes back.
LentReturns == ~seen /\ Lent => Returns(up) \/ Asking

\* The inductive invariant.
IInv == TypeOK /\ ManualIsChosen /\ PreferenceKept /\ PreferOK /\ RowsAreOwn /\ LentReturns

-----------------------------------------------------------------------------
(* Sequences.                                                              *)

LEMMA RangeAppended ==
  ASSUME NEW S, NEW s \in Seq(S), NEW e \in S
  PROVE  Range(Append(s, e)) = Range(s) \cup {e}
<1>1. /\ DOMAIN s = 1..Len(s) /\ Len(s) \in Nat
      /\ DOMAIN Append(s, e) = 1..(Len(s) + 1)
      /\ \A i \in 1..Len(s) : Append(s, e)[i] = s[i]
      /\ Append(s, e)[Len(s) + 1] = e
  BY AppendProperties, LenProperties
<1>2. \A i \in 1..(Len(s) + 1) : i \in 1..Len(s) \/ i = Len(s) + 1
  BY <1>1
<1>3. ASSUME NEW x \in Range(Append(s, e)) PROVE x \in Range(s) \cup {e}
  BY <1>1, <1>2 DEF Range
<1>4. ASSUME NEW x \in Range(s) PROVE x \in Range(Append(s, e))
  <2>1. PICK i \in 1..Len(s) : x = s[i]
    BY <1>1 DEF Range
  <2> QED
    BY <1>1, <2>1 DEF Range
<1>5. e \in Range(Append(s, e))
  BY <1>1 DEF Range
<1> QED
  BY <1>3, <1>4, <1>5

LEMMA RangeSplit ==
  ASSUME NEW S, NEW s \in Seq(S), s # <<>>
  PROVE  Range(s) = Range(Tail(s)) \cup {Head(s)} /\ Head(s) \in S
<1>1. /\ DOMAIN s = 1..Len(s) /\ Len(s) \in Nat /\ Len(s) >= 1
      /\ DOMAIN Tail(s) = 1..(Len(s) - 1) /\ Head(s) = s[1] /\ Head(s) \in S
      /\ \A i \in 1..(Len(s) - 1) : Tail(s)[i] = s[i + 1]
  BY HeadTailProperties, LenProperties, EmptySeq
<1>2. ASSUME NEW x \in Range(s) PROVE x \in Range(Tail(s)) \cup {Head(s)}
  <2>1. PICK i \in 1..Len(s) : x = s[i]
    BY <1>1 DEF Range
  <2>2. CASE i = 1
    BY <1>1, <2>1, <2>2
  <2>3. CASE i # 1
    <3>1. i - 1 \in 1..(Len(s) - 1) /\ Tail(s)[i - 1] = s[(i - 1) + 1] /\ (i - 1) + 1 = i
      BY <1>1, <2>1, <2>3
    <3> QED
      BY <1>1, <2>1, <3>1 DEF Range
  <2> QED
    BY <2>2, <2>3
<1>3. ASSUME NEW x \in Range(Tail(s)) PROVE x \in Range(s)
  <2>1. PICK i \in 1..(Len(s) - 1) : x = Tail(s)[i]
    BY <1>1 DEF Range
  <2>2. i + 1 \in 1..Len(s) /\ x = s[i + 1]
    BY <1>1, <2>1
  <2> QED
    BY <1>1, <2>2 DEF Range
<1>4. Head(s) \in Range(s)
  BY <1>1 DEF Range
<1> QED
  BY <1>1, <1>2, <1>3, <1>4

\* The mappings of a queue of edits keep its type and its length.
LEMMA SharedIs ==
  ASSUME NEW q \in Seq(Calls), NEW r \in Rows \cup {Absent}
  PROVE  /\ Shared(q, r) \in Seq(Calls) /\ DOMAIN Shared(q, r) = DOMAIN q
         /\ \A i \in DOMAIN q :
              Shared(q, r)[i] = IF q[i].live THEN [q[i] EXCEPT !.row = r] ELSE q[i]
<1>1. DOMAIN q = 1..Len(q) /\ Len(q) \in Nat /\ \A i \in 1..Len(q) : q[i] \in Calls
  BY LenProperties, ElementOfSeq
<1>2. \A c \in Calls : [c EXCEPT !.row = r] \in Calls
  BY DEF Calls
<1>3. Shared(q, r) \in [1..Len(q) -> Calls]
  BY <1>1, <1>2 DEF Shared
<1> QED
  BY <1>1, <1>3 DEF Shared

LEMMA SeveredIs ==
  ASSUME NEW q \in Seq(Calls)
  PROVE  /\ Severed(q) \in Seq(Calls) /\ DOMAIN Severed(q) = DOMAIN q
         /\ \A i \in DOMAIN q : Severed(q)[i] = [q[i] EXCEPT !.live = FALSE]
<1>1. DOMAIN q = 1..Len(q) /\ Len(q) \in Nat /\ \A i \in 1..Len(q) : q[i] \in Calls
  BY LenProperties, ElementOfSeq
<1>2. \A c \in Calls : [c EXCEPT !.live = FALSE] \in Calls
  BY DEF Calls
<1>3. Severed(q) \in [1..Len(q) -> Calls]
  BY <1>1, <1>2 DEF Severed
<1> QED
  BY <1>1, <1>3 DEF Severed

-----------------------------------------------------------------------------
(* The commands on their way.                                              *)

\* A command that does not lend the path changes nothing about it.
LEMMA OthersLendNothing ==
  ASSUME NEW u \in Seq(Commands), NEW f \in Commands, ~Lends(f)
  PROVE  /\ LentUpTo(u, 0) => LentUpTo(Append(u, f), 0)
         /\ Returns(u) => Returns(Append(u, f))
<1>1. /\ DOMAIN u = 1..Len(u) /\ Len(u) \in Nat
      /\ DOMAIN Append(u, f) = 1..(Len(u) + 1)
      /\ \A i \in 1..Len(u) : Append(u, f)[i] = u[i]
      /\ Append(u, f)[Len(u) + 1] = f
  BY AppendProperties, LenProperties
<1>2. \A i \in 1..(Len(u) + 1) : i \in 1..Len(u) \/ i = Len(u) + 1
  BY <1>1
<1>3. ASSUME NEW n, LentUpTo(u, n) PROVE LentUpTo(Append(u, f), n)
  BY <1>1, <1>2, <1>3 DEF LentUpTo
<1>4. ASSUME Returns(u) PROVE Returns(Append(u, f))
  <2>1. PICK j \in 1..Len(u) : u[j].cmd = "reset" /\ LentUpTo(u, j)
    BY <1>1, <1>4 DEF Returns
  <2>2. j \in DOMAIN Append(u, f) /\ Append(u, f)[j].cmd = "reset"
    BY <1>1, <2>1
  <2> QED
    BY <1>3, <2>1, <2>2 DEF Returns
<1> QED
  BY <1>3, <1>4

\* A reset returns all that was lent before it.
LEMMA ResetReturns ==
  ASSUME NEW u \in Seq(Commands)
  PROVE  Returns(Append(u, Bare("reset"))) /\ Bare("reset") \in Commands
<1> DEFINE f == Bare("reset")
<1>1. f \in Commands /\ f.cmd = "reset"
  BY DEF Bare, Commands
<1> HIDE DEF f
<1>2. /\ Len(u) \in Nat /\ DOMAIN Append(u, f) = 1..(Len(u) + 1)
      /\ Append(u, f)[Len(u) + 1] = f
  BY <1>1, AppendProperties, LenProperties
<1>3. LentUpTo(Append(u, f), Len(u) + 1)
  BY <1>2 DEF LentUpTo
<1>4. Len(u) + 1 \in DOMAIN Append(u, f)
  BY <1>2
<1>5. Returns(Append(u, f))
  BY <1>1, <1>2, <1>3, <1>4 DEF Returns
<1> QED
  BY <1>1, <1>5 DEF f

\* The radio takes a command: it is the reset that was to come, or that comes still.
LEMMA TakenReturns ==
  ASSUME NEW u \in Seq(Commands), u # <<>>
  PROVE  /\ Head(u) \in Commands /\ Tail(u) \in Seq(Commands)
         /\ LentUpTo(u, 0) => LentUpTo(Tail(u), 0) /\ ~Lends(Head(u))
         /\ Returns(u) => Returns(Tail(u)) \/ (Head(u).cmd = "reset" /\ LentUpTo(Tail(u), 0))
<1>1. /\ DOMAIN u = 1..Len(u) /\ Len(u) \in Nat /\ Len(u) >= 1
      /\ Head(u) \in Commands /\ Tail(u) \in Seq(Commands)
      /\ DOMAIN Tail(u) = 1..(Len(u) - 1) /\ Head(u) = u[1]
      /\ \A i \in 1..(Len(u) - 1) : Tail(u)[i] = u[i + 1] /\ i + 1 \in 1..Len(u)
  BY HeadTailProperties, LenProperties, EmptySeq
<1>2. ASSUME NEW n \in Nat, LentUpTo(u, n + 1) PROVE LentUpTo(Tail(u), n)
  <2> SUFFICES ASSUME NEW i \in 1..(Len(u) - 1), Lends(Tail(u)[i]) PROVE i <= n
    BY <1>1 DEF LentUpTo
  <2>1. i + 1 \in DOMAIN u /\ Lends(u[i + 1])
    BY <1>1
  <2>2. i + 1 <= n + 1
    BY <1>2, <2>1 DEF LentUpTo
  <2> QED
    BY <2>2
<1>3. ASSUME LentUpTo(u, 0) PROVE LentUpTo(Tail(u), 0) /\ ~Lends(Head(u))
  <2>1. LentUpTo(u, 0 + 1)
    BY <1>1, <1>3 DEF LentUpTo
  <2>2. ~Lends(u[1])
    BY <1>1, <1>3 DEF LentUpTo
  <2> QED
    BY <1>1, <1>2, <2>1, <2>2
<1>4. ASSUME Returns(u)
      PROVE  Returns(Tail(u)) \/ (Head(u).cmd = "reset" /\ LentUpTo(Tail(u), 0))
  <2>1. PICK j \in 1..Len(u) : u[j].cmd = "reset" /\ LentUpTo(u, j)
    BY <1>1, <1>4 DEF Returns
  <2>2. j - 1 \in Nat /\ (j - 1) + 1 = j
    BY <1>1
  <2>3. LentUpTo(Tail(u), j - 1)
    BY <1>2, <2>1, <2>2
  <2>4. CASE j = 1
    BY <1>1, <2>1, <2>3, <2>4
  <2>5. CASE j # 1
    <3>1. j - 1 \in 1..(Len(u) - 1)
      BY <1>1, <2>5
    <3>2. Tail(u)[j - 1] = u[j]
      BY <1>1, <2>2, <3>1
    <3> QED
      BY <1>1, <2>1, <2>3, <3>1, <3>2 DEF Returns
  <2> QED
    BY <2>4, <2>5
<1> QED
  BY <1>1, <1>3, <1>4

-----------------------------------------------------------------------------
(* Records.                                                                *)

\* What a record of the radio makes of the entry: a path set by hand stays, or is no
\* longer marked so, and the preference stays.
LEMMA MergedIs ==
  ASSUME NEW rec \in Records, NEW old \in Entries \cup {Absent}
  PROVE  /\ Merged(rec, old) \in Entries
         /\ Merged(rec, old).manual => /\ old \in Entries /\ old.manual
                                       /\ Merged(rec, old).path = old.path
         /\ Merged(rec, old).direct = (old # Absent /\ old.direct)
<1>1. PathHex(rec.path) \in Routes \cup {"none"}
  BY DEF PathHex
<1>2. old # Absent => old \in Entries /\ old.path \in Routes \cup {"none"} /\ old.manual \in BOOLEAN
                      /\ old.direct \in BOOLEAN
  BY DEF Entries
<1>3. rec.fav \in BOOLEAN /\ rec.perms \in BOOLEAN
  BY DEF Records
<1> QED
  BY <1>1, <1>2, <1>3 DEF Merged, Entries

LEMMA RowIs ==
  ASSUME NEW rec \in Records, NEW on \in BOOLEAN
  PROVE  RowOf(rec, on) \in Rows /\ RowOf(rec, on).path = rec.path
BY DEF RowOf, Rows, Records

LEMMA RecordIs ==
  ASSUME NEW r \in Rows \cup Entries
  PROVE  /\ r \in Rows => RecordOf(r) \in Records
         /\ RecordOf(r).path = r.path
         /\ RecordOf(r).fav \in BOOLEAN /\ RecordOf(r).perms \in BOOLEAN
BY DEF RecordOf, Rows, Records, Entries

-----------------------------------------------------------------------------
(* The edits under way, from one step to the next.                         *)

\* Edit c is what a step leaves of edit d: what it read stays, but for a row it shares.
From(c, d) ==
  /\ c.op = d.op \/ c.op = "restore"
  /\ c.arg = d.arg /\ c.contact = d.contact
  /\ c.live => d.live
  /\ c.row = d.row \/ (d.live /\ c.row = row')

\* What is asked of an edit.
EditOK(c) == HoldsOK(c) /\ (~seen /\ c.row # Absent => c.row.path # "shim")

\* What a step owes the edits under way.
LEMMA EditsKept ==
  ASSUME PreferOK, RowsAreOwn,
         row \in Rows => row' \in Rows,
         PathEdited => prefer \subseteq prefer',
         seen => seen',
         ~seen' /\ row' # Absent => row'.path # "shim",
         contact' = Absent => FALSE \in prefer',
         \A c \in Edits' : (\E d \in Edits : From(c, d)) \/ EditOK(c)'
  PROVE  PreferOK' /\ RowsAreOwn'
<1>1. ASSUME NEW c \in Edits' PROVE EditOK(c)'
  <2>1. CASE EditOK(c)'
    BY <2>1
  <2>2. ASSUME NEW d \in Edits, From(c, d) PROVE EditOK(c)'
    <3>1. HoldsOK(d) /\ (~seen /\ d.row # Absent => d.row.path # "shim")
      BY DEF PreferOK, RowsAreOwn
    <3>2. c.op \in {"path", "reset"} => PathEdited
      BY <2>2 DEF From, PathEdited, Edits, Field
    <3>3. c.op \in {"path", "reset"} => c.contact \in Entries /\ c.contact.direct \in prefer'
      BY <2>2, <3>1, <3>2 DEF From, HoldsOK
    <3>4. c.op = "add" => c.row \in Rows
      BY <2>2, <3>1 DEF From, HoldsOK
    <3>5. c.arg.path # "shim" /\ (c.live => row' \in Rows)
      BY <2>2, <3>1 DEF From, HoldsOK
    <3>6. ~seen' /\ c.row # Absent => c.row.path # "shim"
      BY <2>2, <3>1 DEF From
    <3> QED
      BY <3>3, <3>4, <3>5, <3>6 DEF EditOK, HoldsOK
  <2> QED
    BY <2>1, <2>2
<1> QED
  BY <1>1 DEF PreferOK, RowsAreOwn, EditOK

LEMMA SharedFrom ==
  ASSUME NEW q \in Seq(Calls), row' \in Rows \cup {Absent}
  PROVE  /\ Shared(q, row') \in Seq(Calls)
         /\ \A c \in Range(Shared(q, row')) : \E d \in Range(q) : From(c, d)
         /\ \A d \in Range(q) : \E c \in Range(Shared(q, row')) : c.op = d.op
         /\ (\A i \in DOMAIN q : ~q[i].ok) =>
              \A i \in DOMAIN Shared(q, row') : ~Shared(q, row')[i].ok
<1> DEFINE s == Shared(q, row')
<1>1. /\ s \in Seq(Calls) /\ DOMAIN s = DOMAIN q
      /\ \A i \in DOMAIN q : s[i] = IF q[i].live THEN [q[i] EXCEPT !.row = row'] ELSE q[i]
  BY SharedIs
<1> HIDE DEF s
<1>2. DOMAIN q = 1..Len(q) /\ \A i \in DOMAIN q : q[i] \in Calls
  BY LenProperties, ElementOfSeq
<1>3. ASSUME NEW i \in DOMAIN q
      PROVE  From(s[i], q[i]) /\ s[i].op = q[i].op /\ s[i].ok = q[i].ok
  BY <1>1, <1>2 DEF From, Calls
<1>4. \A c \in Range(s) : \E d \in Range(q) : From(c, d)
  BY <1>1, <1>3 DEF Range
<1>5. \A d \in Range(q) : \E c \in Range(s) : c.op = d.op
  BY <1>1, <1>3 DEF Range
<1> QED
  BY <1>1, <1>3, <1>4, <1>5 DEF s

LEMMA SeveredFrom ==
  ASSUME NEW q \in Seq(Calls)
  PROVE  /\ Severed(q) \in Seq(Calls)
         /\ \A c \in Range(Severed(q)) : \E d \in Range(q) : From(c, d)
         /\ \A d \in Range(q) : \E c \in Range(Severed(q)) : c.op = d.op
         /\ (\A i \in DOMAIN q : ~q[i].ok) => \A i \in DOMAIN Severed(q) : ~Severed(q)[i].ok
<1> DEFINE s == Severed(q)
<1>1. /\ s \in Seq(Calls) /\ DOMAIN s = DOMAIN q
      /\ \A i \in DOMAIN q : s[i] = [q[i] EXCEPT !.live = FALSE]
  BY SeveredIs
<1> HIDE DEF s
<1>2. DOMAIN q = 1..Len(q) /\ \A i \in DOMAIN q : q[i] \in Calls
  BY LenProperties, ElementOfSeq
<1>3. ASSUME NEW i \in DOMAIN q
      PROVE  From(s[i], q[i]) /\ s[i].op = q[i].op /\ s[i].ok = q[i].ok
  BY <1>1, <1>2 DEF From, Calls
<1>4. \A c \in Range(s) : \E d \in Range(q) : From(c, d)
  BY <1>1, <1>3 DEF Range
<1>5. \A d \in Range(q) : \E c \in Range(s) : c.op = d.op
  BY <1>1, <1>3 DEF Range
<1> QED
  BY <1>1, <1>3, <1>4, <1>5 DEF s

\* The facts of the next step's types that most of them share.
LEMMA Typed ==
  ASSUME TypeOK
  PROVE  /\ calls \in Seq(Calls) /\ done \in Seq(Calls)
         /\ up \in Seq(Commands) /\ down \in Seq(Frames)
         /\ row \in Rows \cup {Absent} /\ contact \in Entries \cup {Absent}
         /\ radio \in Records \cup {Absent} /\ asks \in Nat
         /\ \A c \in Edits : c \in Calls
<1>1. \A q \in Seq(Calls) : \A c \in Range(q) : c \in Calls
  BY LenProperties, ElementOfSeq DEF Range
<1> QED
  BY <1>1 DEF TypeOK, Edits

\* An edit is called: its command is the last on its way.
LEMMA Issued ==
  ASSUME IInv,
         NEW op \in Ops, NEW arg \in Args, NEW snap \in Entries \cup {Absent},
         NEW held \in Rows \cup {Absent}, NEW frame \in Commands,
         Issue(op, arg, snap, held, frame),
         arg.path # "shim",
         op \in {"path", "reset"} => snap \in Entries,
         held = Absent \/ held = row,
         op = "add" => held \in Rows,
         Lends(frame) => op = "shim" \/ seen
  PROVE  IInv'
<1> DEFINE new == Call(op, arg, snap, held)
<1>1. /\ new \in Calls /\ ~new.ok /\ new.op = op /\ new.contact = snap
      /\ new.arg.path # "shim"
      /\ new.op = "add" => new.row \in Rows
      /\ new.live => row \in Rows
      /\ ~seen /\ new.row # Absent => new.row.path # "shim"
  BY AbsentAssumption DEF Call, Calls, IInv, RowsAreOwn
<1>2. /\ calls' = Append(calls, new) /\ up' = Append(up, frame)
      /\ events < MaxEvents /\ events' = events + 1 /\ clean' = (clean /\ ~Overlaps(op))
      /\ UNCHANGED <<radio, row, contact, done, asks, down, chosen, seen>>
  BY DEF Issue, Spend, host
<1>2a. prefer' = IF snap = Absent THEN prefer ELSE prefer \cup {snap.direct}
  BY DEF Issue
<1>2b. /\ prefer \subseteq prefer' /\ prefer' \subseteq BOOLEAN
       /\ op \in {"path", "reset"} => snap.direct \in prefer'
  <2>1. snap # Absent => snap.direct \in BOOLEAN
    BY DEF Entries
  <2> QED
    BY <1>2a, <2>1, AbsentAssumption DEF IInv, TypeOK
<1> HIDE DEF new
<1>3. Range(calls') = Range(calls) \cup {new}
  BY <1>1, <1>2, RangeAppended, Typed DEF IInv
<1>4. Edits' = Edits \cup {new}
  BY <1>2, <1>3 DEF Edits
<1>5. calls' \in Seq(Calls) /\ \A i \in DOMAIN calls' : ~calls'[i].ok
  <2>1. DOMAIN calls = 1..Len(calls) /\ \A i \in DOMAIN calls : ~calls[i].ok
    BY LenProperties DEF IInv, TypeOK
  <2>2. /\ calls' \in Seq(Calls) /\ DOMAIN calls' = 1..(Len(calls) + 1)
        /\ \A i \in 1..Len(calls) : calls'[i] = calls[i]
        /\ calls'[Len(calls) + 1] = new
    BY <1>1, <1>2, AppendProperties, LenProperties DEF IInv, TypeOK
  <2>3. Len(calls) \in Nat
    BY LenProperties DEF IInv, TypeOK
  <2> QED
    BY <1>1, <2>1, <2>2, <2>3
<1>6. up' \in Seq(Commands)
  BY <1>2, AppendProperties DEF IInv, TypeOK
<1>7. TypeOK'
  BY <1>2, <1>2b, <1>5, <1>6, EventsAssumption DEF IInv, TypeOK
<1>8. ManualIsChosen' /\ PreferenceKept'
  BY <1>2, <1>2b DEF IInv, ManualIsChosen, PreferenceKept
<1>9. PreferOK' /\ RowsAreOwn'
  <2>1. \A c \in Edits : From(c, c)
    BY DEF From
  <2>2. EditOK(new)'
    BY <1>1, <1>2, <1>2b DEF EditOK, HoldsOK
  <2>3. /\ row \in Rows => row' \in Rows
        /\ PathEdited => prefer \subseteq prefer'
        /\ seen => seen'
        /\ ~seen' /\ row' # Absent => row'.path # "shim"
        /\ contact' = Absent => FALSE \in prefer'
    BY <1>2, <1>2b DEF IInv, PreferOK, RowsAreOwn
  <2>4. \A c \in Edits' : (\E d \in Edits : From(c, d)) \/ EditOK(c)'
    BY <1>4, <2>1, <2>2
  <2> QED
    BY <2>3, <2>4, EditsKept DEF IInv
<1>10. LentReturns'
  <2> SUFFICES ASSUME ~seen, Lent', ~Asking' PROVE Returns(up')
    BY <1>2 DEF LentReturns, Asking, Returns, LentUpTo, Lends
  <2>1. ~Asking /\ op # "shim"
    BY <1>1, <1>2, <1>4 DEF Asking
  <2>2. ~Lends(frame)
    BY <2>1
  <2>3. /\ LentUpTo(up, 0) => LentUpTo(up', 0)
        /\ Returns(up) => Returns(up')
    BY <1>2, <2>2, OthersLendNothing, Typed DEF IInv
  <2>4. Lent
    BY <1>2, <2>3 DEF Lent
  <2> QED
    BY <2>1, <2>3, <2>4 DEF IInv, LentReturns
<1> QED
  BY <1>7, <1>8, <1>9, <1>10 DEF IInv

-----------------------------------------------------------------------------
(* The calls of the application.                                           *)

LEMMA CommandIs ==
  ASSUME NEW path \in Paths, NEW fav \in BOOLEAN, NEW perms \in BOOLEAN
  PROVE  /\ Rewrite(path, fav, perms) \in Commands
         /\ Lends(Rewrite(path, fav, perms)) <=> path = "shim"
BY DEF Rewrite, Commands, Records, Lends

LEMMA BareIs ==
  ASSUME NEW cmd \in {"reset", "remove", "anon"}
  PROVE  Bare(cmd) \in Commands /\ ~Lends(Bare(cmd))
BY DEF Bare, Commands, Lends

\* What a rewrite fills in is known, of the row or of the entry.
LEMMA KnownIs ==
  ASSUME TypeOK, row # Absent \/ contact # Absent
  PROVE  Known.fav \in BOOLEAN /\ Known.perms \in BOOLEAN
<1>1. row # Absent => row \in Rows \cup Entries
  BY DEF TypeOK
<1>2. row = Absent => contact \in Rows \cup Entries
  BY DEF TypeOK
<1> QED
  BY <1>1, <1>2, RecordIs DEF Known

LEMMA NoArgIs ==
  /\ NoArg \in Args /\ NoArg.path = "flood" /\ NoArg.path # "shim"
  /\ \A path \in Paths, manual \in BOOLEAN :
       /\ [NoArg EXCEPT !.path = path, !.manual = manual] \in Args
       /\ [NoArg EXCEPT !.path = path, !.manual = manual].path = path
  /\ \A fav \in BOOLEAN :
       [NoArg EXCEPT !.fav = fav] \in Args /\ [NoArg EXCEPT !.fav = fav].path = "flood"
  /\ \A fav \in BOOLEAN, perms \in BOOLEAN :
       /\ [NoArg EXCEPT !.fav = fav, !.perms = perms] \in Args
       /\ [NoArg EXCEPT !.fav = fav, !.perms = perms].path = "flood"
BY DEF NoArg, Args, Paths

LEMMA SetPathKeeps ==
  ASSUME IInv, CallSetPath
  PROVE  IInv'
<1>1. PICK path \in Routes \cup {"direct"}, manual \in BOOLEAN,
            direct \in {contact.direct} \cup Given :
        /\ contact # Absent
        /\ Issue("path", [NoArg EXCEPT !.path = path, !.manual = manual],
                 [contact EXCEPT !.direct = direct], Absent,
                 Rewrite(path, Known.fav, Known.perms))
  BY DEF CallSetPath
<1> DEFINE arg == [NoArg EXCEPT !.path = path, !.manual = manual]
           snap == [contact EXCEPT !.direct = direct]
           frame == Rewrite(path, Known.fav, Known.perms)
<1>2. path \in Paths /\ path # "shim"
  BY RoutesAssumption DEF Paths
<1>3. arg \in Args /\ arg.path = path
  BY <1>2, NoArgIs
<1>4. Known.fav \in BOOLEAN /\ Known.perms \in BOOLEAN
  BY <1>1, KnownIs DEF IInv
<1>5. frame \in Commands /\ ~Lends(frame)
  BY <1>2, <1>4, CommandIs
<1>6. snap \in Entries
  BY <1>1, GivenAssumption DEF IInv, TypeOK, Entries
<1>7. Issue("path", arg, snap, Absent, frame)
  BY <1>1
<1> HIDE DEF arg, snap, frame
<1> QED
  BY <1>2, <1>3, <1>5, <1>6, <1>7, Issued DEF Ops

LEMMA ResetPathKeeps ==
  ASSUME IInv, CallResetPath
  PROVE  IInv'
<1>1. contact # Absent /\ Issue("reset", NoArg, contact, Absent, Bare("reset"))
  BY DEF CallResetPath
<1>2. contact \in Entries /\ contact.direct \in prefer
  BY <1>1 DEF IInv, TypeOK, PreferenceKept
<1>3. Bare("reset") \in Commands /\ ~Lends(Bare("reset"))
  BY BareIs
<1> QED
  BY <1>1, <1>2, <1>3, NoArgIs, Issued DEF Ops

LEMMA AddKeeps ==
  ASSUME IInv, CallAdd
  PROVE  IInv'
<1> DEFINE frame == Rewrite(row.path, row.fav, row.perms)
<1>1. row # Absent /\ Issue("add", NoArg, Absent, row, frame)
  BY DEF CallAdd
<1>2. row \in Rows /\ row.path \in Paths /\ row.fav \in BOOLEAN /\ row.perms \in BOOLEAN
  BY <1>1 DEF IInv, TypeOK, Rows
<1>3. frame \in Commands /\ (Lends(frame) => seen)
  BY <1>1, <1>2, CommandIs DEF IInv, RowsAreOwn
<1> HIDE DEF frame
<1> QED
  BY <1>1, <1>2, <1>3, NoArgIs, Issued DEF Ops

LEMMA RemoveKeeps ==
  ASSUME IInv, CallRemove
  PROVE  IInv'
<1>1. Bare("remove") \in Commands /\ ~Lends(Bare("remove"))
  BY BareIs
<1> QED
  BY <1>1, NoArgIs, Issued DEF Ops, CallRemove

LEMMA AnonKeeps ==
  ASSUME IInv, CallAnon
  PROVE  IInv'
<1> DEFINE frame == Rewrite("shim", Known.fav, Known.perms)
<1>1. contact # Absent /\ Issue("shim", NoArg, Absent, Absent, frame)
  BY DEF CallAnon
<1>2. Known.fav \in BOOLEAN /\ Known.perms \in BOOLEAN
  BY <1>1, KnownIs DEF IInv
<1>3. frame \in Commands
  BY <1>2, CommandIs DEF Paths
<1> HIDE DEF frame
<1> QED
  BY <1>1, <1>3, NoArgIs, Issued DEF Ops

\* What an edit of the row and the entry leaves the edits under way.
LEMMA SharedEdits ==
  ASSUME TypeOK, row' \in Rows \cup {Absent},
         calls' = Shared(calls, row'), done' = Shared(done, row')
  PROVE  /\ calls' \in Seq(Calls) /\ (\A i \in DOMAIN calls' : ~calls'[i].ok)
         /\ done' \in Seq(Calls)
         /\ \A c \in Edits' : \E d \in Edits : From(c, d)
         /\ \A d \in Edits : \E c \in Edits' : c.op = d.op
<1>1. calls \in Seq(Calls) /\ done \in Seq(Calls) /\ \A i \in DOMAIN calls : ~calls[i].ok
  BY DEF TypeOK
<1>2. /\ calls' \in Seq(Calls) /\ (\A i \in DOMAIN calls' : ~calls'[i].ok)
      /\ \A c \in Range(calls') : \E d \in Range(calls) : From(c, d)
      /\ \A d \in Range(calls) : \E c \in Range(calls') : c.op = d.op
  BY <1>1, SharedFrom
<1>3. /\ done' \in Seq(Calls)
      /\ \A c \in Range(done') : \E d \in Range(done) : From(c, d)
      /\ \A d \in Range(done) : \E c \in Range(done') : c.op = d.op
  BY <1>1, SharedFrom
<1> QED
  BY <1>2, <1>3 DEF Edits

LEMMA SeveredEdits ==
  ASSUME TypeOK, calls' = Severed(calls), done' = Severed(done)
  PROVE  /\ calls' \in Seq(Calls) /\ (\A i \in DOMAIN calls' : ~calls'[i].ok)
         /\ done' \in Seq(Calls)
         /\ \A c \in Edits' : \E d \in Edits : From(c, d)
         /\ \A d \in Edits : \E c \in Edits' : c.op = d.op
<1>1. calls \in Seq(Calls) /\ done \in Seq(Calls) /\ \A i \in DOMAIN calls : ~calls[i].ok
  BY DEF TypeOK
<1>2. /\ calls' \in Seq(Calls) /\ (\A i \in DOMAIN calls' : ~calls'[i].ok)
      /\ \A c \in Range(calls') : \E d \in Range(calls) : From(c, d)
      /\ \A d \in Range(calls) : \E c \in Range(calls') : c.op = d.op
  BY <1>1, SeveredFrom
<1>3. /\ done' \in Seq(Calls)
      /\ \A c \in Range(done') : \E d \in Range(done) : From(c, d)
      /\ \A d \in Range(done) : \E c \in Range(done') : c.op = d.op
  BY <1>1, SeveredFrom
<1> QED
  BY <1>2, <1>3 DEF Edits

\* What is lent and what asks for it stay as they are.
LEMMA LentStays ==
  ASSUME LentReturns, radio' = radio, up' = up, seen => seen', Asking => Asking'
  PROVE  LentReturns'
BY DEF LentReturns, Lent, Returns, LentUpTo, Lends

\* The flags of the row and of the entry are set.
LEMMA FlagsSetKeep ==
  ASSUME IInv,
         \/ \E fav \in BOOLEAN : FavouriteSet(fav)
         \/ \E arg \in Args : PermsSet(arg)
  PROVE  /\ row' \in Rows \cup {Absent} /\ contact' \in Entries \cup {Absent}
         /\ (row \in Rows => row' \in Rows)
         /\ (row' # Absent => row # Absent /\ row'.path = row.path)
         /\ (contact' = Absent <=> contact = Absent)
         /\ (contact' # Absent => /\ contact'.path = contact.path
                                  /\ contact'.manual = contact.manual
                                  /\ contact'.direct = contact.direct)
<1>1. row \in Rows \cup {Absent} /\ contact \in Entries \cup {Absent}
  BY DEF IInv, TypeOK
<1>2. Absent \notin Rows /\ Absent \notin Entries
  BY AbsentAssumption
<1>3. CASE \E fav \in BOOLEAN : FavouriteSet(fav)
  <2>1. PICK fav \in BOOLEAN : FavouriteSet(fav)
    BY <1>3
  <2>2. row # Absent =>
          [row EXCEPT !.fav = fav] \in Rows /\ [row EXCEPT !.fav = fav].path = row.path
    BY <1>1 DEF Rows
  <2>3. contact # Absent =>
          /\ [contact EXCEPT !.fav = fav] \in Entries
          /\ [contact EXCEPT !.fav = fav].path = contact.path
          /\ [contact EXCEPT !.fav = fav].manual = contact.manual
          /\ [contact EXCEPT !.fav = fav].direct = contact.direct
    BY <1>1 DEF Entries
  <2> QED
    BY <1>1, <1>2, <2>1, <2>2, <2>3 DEF FavouriteSet, Mutate, Entry
<1>4. CASE \E arg \in Args : PermsSet(arg)
  <2>1. PICK arg \in Args : PermsSet(arg)
    BY <1>4
  <2>2. arg.fav \in BOOLEAN /\ arg.perms \in BOOLEAN
    BY DEF Args
  <2> DEFINE r == [row EXCEPT !.fav = arg.fav, !.perms = arg.perms]
             e == [contact EXCEPT !.perms = arg.perms]
  <2>3. row # Absent => r \in Rows /\ r.path = row.path
    BY <1>1, <2>2 DEF Rows
  <2>4. contact # Absent => /\ e \in Entries
                            /\ e.path = contact.path
                            /\ e.manual = contact.manual
                            /\ e.direct = contact.direct
    BY <1>1, <2>2 DEF Entries
  <2>5. row' = (IF row = Absent THEN Absent ELSE r)
        /\ contact' = (IF contact = Absent THEN Absent ELSE e)
    BY <2>1 DEF PermsSet, Mutate, Entry
  <2> HIDE DEF r, e
  <2> QED
    BY <1>1, <1>2, <2>3, <2>4, <2>5
<1> QED
  BY <1>3, <1>4

\* A contact that is not on the radio is edited in place.
LEMMA EditedHereKeeps ==
  ASSUME IInv, NEW op \in Ops, EditedHere(op),
         \/ \E fav \in BOOLEAN : FavouriteSet(fav)
         \/ \E arg \in Args : PermsSet(arg)
  PROVE  IInv'
<1>1. /\ row' \in Rows \cup {Absent} /\ contact' \in Entries \cup {Absent}
      /\ (row \in Rows => row' \in Rows)
      /\ (row' # Absent => row # Absent /\ row'.path = row.path)
      /\ (contact' = Absent <=> contact = Absent)
      /\ (contact' # Absent => /\ contact'.path = contact.path
                               /\ contact'.manual = contact.manual
                               /\ contact'.direct = contact.direct)
  BY FlagsSetKeep
<1>2. /\ events < MaxEvents /\ events' = events + 1
      /\ calls' = Shared(calls, row') /\ done' = Shared(done, row')
      /\ clean' = (clean /\ ~Overlaps(op))
      /\ UNCHANGED <<radio, asks, up, down, chosen, seen, prefer>>
  BY DEF EditedHere, Spend, wire
<1>3. /\ calls' \in Seq(Calls) /\ (\A i \in DOMAIN calls' : ~calls'[i].ok)
      /\ done' \in Seq(Calls)
      /\ \A c \in Edits' : \E d \in Edits : From(c, d)
      /\ \A d \in Edits : \E c \in Edits' : c.op = d.op
  BY <1>1, <1>2, SharedEdits DEF IInv
<1>4. TypeOK'
  BY <1>1, <1>2, <1>3, EventsAssumption DEF IInv, TypeOK
<1>5. ManualIsChosen' /\ PreferenceKept'
  BY <1>1, <1>2 DEF IInv, ManualIsChosen, PreferenceKept
<1>6. PreferOK' /\ RowsAreOwn'
  BY <1>1, <1>2, <1>3, EditsKept DEF IInv, PreferOK, RowsAreOwn
<1>7. Asking => Asking'
  BY <1>2, <1>3 DEF Asking
<1>8. LentReturns'
  BY <1>2, <1>7, LentStays DEF IInv
<1> QED
  BY <1>4, <1>5, <1>6, <1>8 DEF IInv

LEMMA SetFavouriteKeeps ==
  ASSUME IInv, CallSetFavourite
  PROVE  IInv'
<1>1. PICK fav \in BOOLEAN :
        /\ row # Absent
        /\ \/ Issue("fav", [NoArg EXCEPT !.fav = fav], Absent, Absent,
                    Rewrite(row.path, fav, row.perms))
           \/ FavouriteSet(fav) /\ EditedHere("fav")
  BY DEF CallSetFavourite
<1>2. row \in Rows /\ row.path \in Paths /\ row.fav \in BOOLEAN /\ row.perms \in BOOLEAN
  BY <1>1 DEF IInv, TypeOK, Rows
<1>3. CASE FavouriteSet(fav) /\ EditedHere("fav")
  <2>1. "fav" \in Ops
    BY DEF Ops
  <2> QED
    BY <1>3, <2>1, EditedHereKeeps
<1>4. CASE Issue("fav", [NoArg EXCEPT !.fav = fav], Absent, Absent,
                 Rewrite(row.path, fav, row.perms))
  <2> DEFINE frame == Rewrite(row.path, fav, row.perms)
             arg == [NoArg EXCEPT !.fav = fav]
  <2>1. frame \in Commands /\ (Lends(frame) => seen)
    BY <1>1, <1>2, CommandIs DEF IInv, RowsAreOwn
  <2>2. arg \in Args /\ arg.path = "flood"
    BY NoArgIs
  <2>3. Issue("fav", arg, Absent, Absent, frame)
    BY <1>4
  <2> HIDE DEF frame, arg
  <2> QED
    BY <2>1, <2>2, <2>3, Issued DEF Ops
<1> QED
  BY <1>1, <1>3, <1>4

LEMMA SetPermsKeeps ==
  ASSUME IInv, CallSetPerms
  PROVE  IInv'
<1>1. PICK perms \in BOOLEAN :
        /\ row # Absent
        /\ LET arg == [NoArg EXCEPT !.fav = row.fav, !.perms = perms] IN
             \/ Issue("perms", arg, Absent, Absent, Rewrite(row.path, row.fav, perms))
             \/ PermsSet(arg) /\ EditedHere("perms")
  BY DEF CallSetPerms
<1>2. row \in Rows /\ row.path \in Paths /\ row.fav \in BOOLEAN /\ row.perms \in BOOLEAN
  BY <1>1 DEF IInv, TypeOK, Rows
<1> DEFINE frame == Rewrite(row.path, row.fav, perms)
           arg == [NoArg EXCEPT !.fav = row.fav, !.perms = perms]
<1>3. frame \in Commands /\ (Lends(frame) => seen)
  BY <1>1, <1>2, CommandIs DEF IInv, RowsAreOwn
<1>4. arg \in Args /\ arg.path = "flood"
  BY <1>2, NoArgIs
<1>5. \/ Issue("perms", arg, Absent, Absent, frame)
      \/ PermsSet(arg) /\ EditedHere("perms")
  BY <1>1
<1> HIDE DEF frame, arg
<1>6. "perms" \in Ops
  BY DEF Ops
<1>7. CASE PermsSet(arg) /\ EditedHere("perms")
  BY <1>4, <1>6, <1>7, EditedHereKeeps
<1>8. CASE Issue("perms", arg, Absent, Absent, frame)
  BY <1>3, <1>4, <1>6, <1>8, Issued
<1> QED
  BY <1>5, <1>7, <1>8

LEMMA PreferDirectKeeps ==
  ASSUME IInv, CallPreferDirect
  PROVE  IInv'
<1>1. PICK direct \in BOOLEAN :
        /\ contact # Absent /\ events < MaxEvents /\ events' = events + 1
        /\ contact' = [contact EXCEPT !.direct = direct]
        /\ prefer' = IF PathEdited THEN BOOLEAN ELSE {direct}
        /\ UNCHANGED <<radio, row, calls, done, asks, up, down, clean, chosen, seen>>
  BY DEF CallPreferDirect, Spend, wire
<1>2. contact \in Entries
  BY <1>1 DEF IInv, TypeOK
<1>3. /\ contact' \in Entries /\ contact'.path = contact.path
      /\ contact'.manual = contact.manual /\ contact'.direct = direct
  BY <1>1, <1>2 DEF Entries
<1>4. direct \in prefer' /\ prefer' \subseteq BOOLEAN /\ (PathEdited => prefer \subseteq prefer')
  BY <1>1 DEF IInv, TypeOK
<1>5. contact' # Absent
  BY <1>3, AbsentAssumption
<1>6. TypeOK'
  BY <1>1, <1>3, <1>4, EventsAssumption DEF IInv, TypeOK
<1>7. ManualIsChosen' /\ PreferenceKept'
  BY <1>1, <1>3, <1>4 DEF IInv, ManualIsChosen, PreferenceKept
<1>8. PreferOK' /\ RowsAreOwn'
  <2>1. \A c \in Edits' : \E d \in Edits : From(c, d)
    BY <1>1 DEF Edits, From
  <2> QED
    BY <1>1, <1>4, <1>5, <2>1, EditsKept DEF IInv, RowsAreOwn
<1>9. LentReturns'
  BY <1>1, LentStays DEF IInv, Asking, Edits
<1> QED
  BY <1>6, <1>7, <1>8, <1>9 DEF IInv

-----------------------------------------------------------------------------
(* An edit goes on after its await.                                        *)

\* The oldest settled edit leaves, and the row changes under the others.
LEMMA ResumedEdits ==
  ASSUME TypeOK, done # <<>>, row' \in Rows \cup {Absent},
         NEW q \in Seq(Calls), \A i \in DOMAIN q : ~q[i].ok,
         \A c \in Range(q) : (\E d \in Edits : From(c, d)) \/ EditOK(c)',
         \A d \in Range(calls) : \E c \in Range(q) : c.op = d.op,
         calls' = q, done' = Shared(Tail(done), row')
  PROVE  /\ done' \in Seq(Calls)
         /\ \A c \in Edits' : (\E d \in Edits : From(c, d)) \/ EditOK(c)'
         /\ \A d \in Edits : d.op # Head(done).op => \E c \in Edits' : c.op = d.op
<1>1. /\ Range(done) = Range(Tail(done)) \cup {Head(done)}
      /\ Tail(done) \in Seq(Calls)
  BY RangeSplit, HeadTailProperties DEF TypeOK
<1>2. /\ done' \in Seq(Calls)
      /\ \A c \in Range(done') : \E d \in Range(Tail(done)) : From(c, d)
      /\ \A d \in Range(Tail(done)) : \E c \in Range(done') : c.op = d.op
  BY <1>1, SharedFrom
<1>3. \A c \in Edits' : (\E d \in Edits : From(c, d)) \/ EditOK(c)'
  BY <1>1, <1>2 DEF Edits
<1>4. \A d \in Edits : d.op # Head(done).op => \E c \in Edits' : c.op = d.op
  BY <1>1, <1>2 DEF Edits
<1> QED
  BY <1>2, <1>3, <1>4

\* The restore of a borrowed path is the last edit.
LEMMA Restored ==
  ASSUME TypeOK, NEW q, q = Append(calls, Call("restore", NoArg, Absent, Absent))
  PROVE  /\ q \in Seq(Calls) /\ \A i \in DOMAIN q : ~q[i].ok
         /\ \A c \in Range(q) : (\E d \in Edits : From(c, d)) \/ EditOK(c)'
         /\ \A d \in Range(calls) : \E c \in Range(q) : c.op = d.op
<1> DEFINE new == Call("restore", NoArg, Absent, Absent)
<1>1. new \in Calls /\ ~new.ok /\ EditOK(new)'
  BY NoArgIs DEF Call, Calls, EditOK, HoldsOK, Ops
<1> HIDE DEF new
<1>2. q = Append(calls, new)
  BY DEF new
<1>3. DOMAIN calls = 1..Len(calls) /\ Len(calls) \in Nat /\ \A i \in DOMAIN calls : ~calls[i].ok
  BY LenProperties DEF TypeOK
<1>4. /\ q \in Seq(Calls) /\ DOMAIN q = 1..(Len(calls) + 1)
      /\ \A i \in 1..Len(calls) : q[i] = calls[i]
      /\ q[Len(calls) + 1] = new
  BY <1>1, <1>2, AppendProperties, LenProperties DEF TypeOK
<1>5. Range(q) = Range(calls) \cup {new}
  BY <1>1, <1>2, RangeAppended DEF TypeOK
<1>6. \A i \in DOMAIN q : ~q[i].ok
  BY <1>1, <1>3, <1>4
<1>7. \A d \in Edits : From(d, d)
  BY DEF From
<1> QED
  BY <1>1, <1>4, <1>5, <1>6, <1>7 DEF Edits

\* A confirmed path edit writes back the entry it read.
LEMMA PathEditKeeps ==
  ASSUME IInv, NEW c \in Edits, PathSet(c) \/ PathReset(c),
         c.op \in {"path", "reset"}, prefer' = prefer, chosen' = contact'.path
  PROVE  /\ row' \in Rows \cup {Absent} /\ contact' \in Entries
         /\ (row \in Rows => row' \in Rows)
         /\ (row' # Absent => row # Absent /\ row'.path # "shim")
         /\ ManualIsChosen' /\ PreferenceKept'
         /\ chosen' \in Routes \cup {"none"}
<1>1. /\ c \in Calls /\ c.contact \in Entries /\ c.contact.direct \in prefer
      /\ c.arg.path # "shim" /\ c.arg.path \in Paths /\ c.arg.manual \in BOOLEAN
  <2>1. c \in Calls
    BY Typed DEF IInv
  <2> QED
    BY <2>1 DEF IInv, PreferOK, HoldsOK, Calls, Args
<1>2. row \in Rows \cup {Absent} /\ Absent \notin Rows
  BY AbsentAssumption DEF IInv, TypeOK
<1>3. \A p \in Paths : row # Absent =>
        [row EXCEPT !.path = p] \in Rows /\ [row EXCEPT !.path = p].path = p
  BY <1>2 DEF Rows
<1>4. "flood" \in Paths /\ PathHex(c.arg.path) \in Routes \cup {"none"}
  BY DEF Paths, PathHex
<1>5. CASE PathSet(c)
  <2>1. contact' = [c.contact EXCEPT !.path = PathHex(c.arg.path), !.manual = c.arg.manual]
        /\ row' = IF row = Absent THEN Absent ELSE [row EXCEPT !.path = c.arg.path]
    BY <1>5 DEF PathSet, Mutate
  <2>2. contact' \in Entries /\ contact'.direct = c.contact.direct
    BY <1>1, <1>4, <2>1 DEF Entries
  <2>3. contact'.path \in Routes \cup {"none"}
    BY <2>2 DEF Entries
  <2>4. ManualIsChosen' /\ PreferenceKept'
    BY <1>1, <2>2 DEF ManualIsChosen, PreferenceKept
  <2> QED
    BY <1>1, <1>2, <1>3, <2>1, <2>2, <2>3, <2>4
<1>6. CASE PathReset(c)
  <2>1. contact' = [c.contact EXCEPT !.path = "none", !.manual = TRUE]
        /\ row' = IF row = Absent THEN Absent ELSE [row EXCEPT !.path = "flood"]
    BY <1>6 DEF PathReset, Mutate
  <2>2. contact' \in Entries /\ contact'.direct = c.contact.direct
    BY <1>1, <1>4, <2>1 DEF Entries
  <2>3. contact'.path \in Routes \cup {"none"}
    BY <2>2 DEF Entries
  <2>4. ManualIsChosen' /\ PreferenceKept'
    BY <1>1, <2>2 DEF ManualIsChosen, PreferenceKept
  <2> QED
    BY <1>1, <1>2, <1>3, <1>4, <2>1, <2>2, <2>3, <2>4
<1> QED
  BY <1>5, <1>6

\* A record of the radio leaves the host its own choices.
LEMMA MergeKeeps ==
  ASSUME IInv, NEW rec \in Records, contact' = Merged(rec, contact),
         chosen' = chosen, prefer' = prefer
  PROVE  contact' \in Entries /\ ManualIsChosen' /\ PreferenceKept' /\ contact' # Absent
<1>1. contact \in Entries \cup {Absent} /\ Absent \notin Entries
  BY AbsentAssumption DEF IInv, TypeOK
<1>2. /\ contact' \in Entries
      /\ contact'.manual => contact \in Entries /\ contact.manual /\ contact'.path = contact.path
      /\ contact'.direct = (contact # Absent /\ contact.direct)
  BY <1>1, MergedIs
<1>3. ManualIsChosen'
  BY <1>1, <1>2 DEF IInv, ManualIsChosen
<1>4. PreferenceKept'
  <2>1. CASE contact = Absent
    BY <1>2, <2>1 DEF IInv, PreferOK, PreferenceKept
  <2>2. CASE contact # Absent
    <3>1. contact.direct \in BOOLEAN
      BY <1>1, <2>2 DEF Entries
    <3> QED
      BY <1>2, <2>2, <3>1 DEF IInv, PreferenceKept
  <2> QED
    BY <2>1, <2>2
<1> QED
  BY <1>1, <1>2, <1>3, <1>4

\* A confirmed addContactToRadio reports the row it held.
LEMMA AddedKeeps ==
  ASSUME IInv, NEW c \in Edits, Added(c), c.op = "add", chosen' = chosen, prefer' = prefer
  PROVE  /\ row' \in Rows \cup {Absent} /\ contact' \in Entries /\ contact' # Absent
         /\ (row \in Rows => row' \in Rows)
         /\ (row' # Absent => row # Absent /\ row'.path = row.path)
         /\ ManualIsChosen' /\ PreferenceKept'
<1>1. c.row \in Rows
  BY DEF IInv, PreferOK, HoldsOK
<1>2. RecordOf(c.row) \in Records
  BY <1>1, RecordIs
<1>3. row \in Rows \cup {Absent} /\ Absent \notin Rows
  BY AbsentAssumption DEF IInv, TypeOK
<1>4. row # Absent => [row EXCEPT !.on = TRUE] \in Rows /\ [row EXCEPT !.on = TRUE].path = row.path
  BY <1>3 DEF Rows
<1>5. contact' = Merged(RecordOf(c.row), contact)
      /\ row' = IF row = Absent THEN Absent ELSE [row EXCEPT !.on = TRUE]
  BY DEF Added, Mutate
<1> QED
  BY <1>2, <1>3, <1>4, <1>5, MergeKeeps

\* A removal leaves the row, and no entry.
LEMMA RemovedKeeps ==
  ASSUME IInv, Removed
  PROVE  /\ row' \in Rows \cup {Absent} /\ contact' = Absent
         /\ (row \in Rows => row' \in Rows)
         /\ (row' # Absent => row # Absent /\ row'.path = row.path)
         /\ ManualIsChosen' /\ PreferenceKept'
<1>1. row \in Rows \cup {Absent} /\ Absent \notin Rows
  BY AbsentAssumption DEF IInv, TypeOK
<1>2. row # Absent =>
        [row EXCEPT !.on = FALSE] \in Rows /\ [row EXCEPT !.on = FALSE].path = row.path
  BY <1>1 DEF Rows
<1>3. contact' = Absent
      /\ row' = IF row = Absent THEN Absent ELSE [row EXCEPT !.on = FALSE]
  BY DEF Removed, Mutate
<1> QED
  BY <1>1, <1>2, <1>3 DEF ManualIsChosen, PreferenceKept

LEMMA ForgottenIs ==
  /\ FALSE \in Forgotten /\ Forgotten \subseteq BOOLEAN
  /\ PathEdited => Forgotten = BOOLEAN
BY DEF Forgotten

\* The host after a confirmed edit.
LEMMA ConfirmedKeeps ==
  ASSUME IInv, NEW c \in Edits, c.ok, Field(c.op) # "shim",
         CASE c.op = "path"   -> PathSet(c)
           [] c.op = "reset"  -> PathReset(c)
           [] c.op = "fav"    -> FavouriteSet(c.arg.fav)
           [] c.op = "perms"  -> PermsSet(c.arg)
           [] c.op = "add"    -> Added(c)
           [] c.op = "remove" -> Removed,
         chosen' = IF Field(c.op) = "path" THEN contact'.path ELSE chosen,
         prefer' = IF c.op = "remove" /\ contact # Absent THEN Forgotten ELSE prefer
  PROVE  /\ row' \in Rows \cup {Absent} /\ contact' \in Entries \cup {Absent}
         /\ (row \in Rows => row' \in Rows)
         /\ (~seen /\ row' # Absent => row'.path # "shim")
         /\ chosen' \in Routes \cup {"none"} /\ prefer' \subseteq BOOLEAN
         /\ (PathEdited => prefer \subseteq prefer')
         /\ (contact' = Absent => FALSE \in prefer')
         /\ ManualIsChosen' /\ PreferenceKept'
<1>1. c \in Calls
  BY Typed DEF IInv
<1>2. c.op \in Ops \ {"shim", "restore"} /\ c.arg \in Args /\ c.arg.fav \in BOOLEAN
  BY <1>1 DEF Calls, Field, Ops, Args
<1>3. /\ chosen \in Routes \cup {"none"} /\ prefer \subseteq BOOLEAN
      /\ (~seen /\ row # Absent => row.path # "shim")
      /\ (contact = Absent => FALSE \in prefer)
      /\ ManualIsChosen /\ PreferenceKept
  BY DEF IInv, TypeOK, PreferOK, RowsAreOwn
<1>4. CASE c.op \in {"path", "reset"}
  <2>1. (PathSet(c) \/ PathReset(c)) /\ chosen' = contact'.path /\ prefer' = prefer
    BY <1>4 DEF Field
  <2>2. Absent \notin Entries
    BY AbsentAssumption
  <2> QED
    BY <1>3, <1>4, <2>1, <2>2, PathEditKeeps
<1>5. CASE c.op \in {"fav", "perms"}
  <2>1. /\ (\E fav \in BOOLEAN : FavouriteSet(fav)) \/ (\E arg \in Args : PermsSet(arg))
        /\ chosen' = chosen /\ prefer' = prefer
    BY <1>2, <1>5 DEF Field
  <2>2. /\ row' \in Rows \cup {Absent} /\ contact' \in Entries \cup {Absent}
        /\ (row \in Rows => row' \in Rows)
        /\ (row' # Absent => row # Absent /\ row'.path = row.path)
        /\ (contact' = Absent <=> contact = Absent)
        /\ (contact' # Absent => /\ contact'.path = contact.path
                                 /\ contact'.manual = contact.manual
                                 /\ contact'.direct = contact.direct)
    BY <2>1, FlagsSetKeep
  <2>3. ManualIsChosen' /\ PreferenceKept'
    BY <1>3, <2>1, <2>2 DEF ManualIsChosen, PreferenceKept
  <2> QED
    BY <1>3, <2>1, <2>2, <2>3
<1>6. CASE c.op = "add"
  <2>1. Added(c) /\ chosen' = chosen /\ prefer' = prefer
    BY <1>6 DEF Field
  <2> QED
    BY <1>3, <1>6, <2>1, AddedKeeps
<1>7. CASE c.op = "remove"
  <2>1. /\ Removed /\ chosen' = chosen
        /\ prefer' = IF contact # Absent THEN Forgotten ELSE prefer
    BY <1>7 DEF Field
  <2> QED
    BY <1>3, <2>1, RemovedKeeps, ForgottenIs
<1> QED
  BY <1>2, <1>4, <1>5, <1>6, <1>7 DEF Ops

\* The requests under way after a step that took an edit other than a shim.
LEMMA StillAsking ==
  ASSUME NEW op, op # "shim", asks' = asks,
         \A d \in Edits : d.op # op => \E c \in Edits' : c.op = d.op
  PROVE  Asking => Asking'
BY DEF Asking

LEMMA ResumeKeeps ==
  ASSUME IInv, Resume
  PROVE  IInv'
<1> DEFINE c == Head(done)
<1>1. /\ done # <<>> /\ done' = Shared(Tail(done), row')
      /\ UNCHANGED <<radio, down, events, clean, seen>>
  BY DEF Resume
<1>2. c \in Edits /\ c \in Calls
  BY <1>1, RangeSplit, Typed DEF IInv, TypeOK, Edits
<1>3. /\ row \in Rows \cup {Absent} /\ calls \in Seq(Calls)
      /\ \A i \in DOMAIN calls : ~calls[i].ok
      /\ up \in Seq(Commands) /\ asks \in Nat
      /\ (~seen /\ row # Absent => row.path # "shim")
      /\ (contact = Absent => FALSE \in prefer)
  BY DEF IInv, TypeOK, PreferOK, RowsAreOwn
<1>4. CASE /\ c.op # "shim" /\ calls' = calls
           /\ UNCHANGED <<row, contact, asks, up, chosen, prefer>>
  <2>1. \A d \in Edits : From(d, d)
    BY DEF From
  <2>2. /\ \A d \in Range(calls) : (\E e \in Edits : From(d, e)) \/ EditOK(d)'
        /\ \A d \in Range(calls) : \E e \in Range(calls) : e.op = d.op
    BY <2>1 DEF Edits
  <2>3. /\ done' \in Seq(Calls)
        /\ \A d \in Edits' : (\E e \in Edits : From(d, e)) \/ EditOK(d)'
        /\ \A d \in Edits : d.op # c.op => \E e \in Edits' : e.op = d.op
    BY <1>1, <1>3, <1>4, <2>2, ResumedEdits DEF IInv
  <2>4. TypeOK'
    BY <1>1, <1>4, <2>3 DEF IInv, TypeOK
  <2>5. ManualIsChosen' /\ PreferenceKept'
    BY <1>4 DEF IInv, ManualIsChosen, PreferenceKept
  <2>6. PreferOK' /\ RowsAreOwn'
    BY <1>1, <1>3, <1>4, <2>3, EditsKept DEF IInv
  <2>7. Asking => Asking'
    BY <1>4, <2>3, StillAsking
  <2>8. LentReturns'
    BY <1>1, <1>4, <2>7, LentStays DEF IInv
  <2> QED
    BY <2>4, <2>5, <2>6, <2>8 DEF IInv
<1>5. CASE c.op = "shim" /\ AfterShim(c) /\ UNCHANGED <<row, contact, chosen, prefer>>
  <2>1. \A d \in Edits : From(d, d)
    BY DEF From
  <2>2. /\ calls' \in Seq(Calls) /\ (\A i \in DOMAIN calls' : ~calls'[i].ok)
        /\ \A d \in Range(calls') : (\E e \in Edits : From(d, e)) \/ EditOK(d)'
        /\ \A d \in Range(calls) : \E e \in Range(calls') : e.op = d.op
    <3>1. CASE c.ok
      BY <1>3, <1>5, <2>1, <3>1 DEF AfterShim, Edits
    <3>2. CASE ~c.ok
      BY <1>5, <3>2, Restored DEF AfterShim, IInv
    <3> QED
      BY <3>1, <3>2
  <2>3. /\ done' \in Seq(Calls)
        /\ \A d \in Edits' : (\E e \in Edits : From(d, e)) \/ EditOK(d)'
    BY <1>1, <1>3, <1>5, <2>2, ResumedEdits DEF IInv
  <2>4. /\ up' \in Seq(Commands) /\ asks' \in Nat
        /\ asks' > 0 \/ Returns(up')
    <3>1. CASE c.ok
      <4>1. up' = Append(up, Bare("anon")) /\ asks' = asks + 1
        BY <1>5, <3>1 DEF AfterShim
      <4>2. Bare("anon") \in Commands
        BY BareIs
      <4> QED
        BY <1>3, <4>1, <4>2, AppendProperties
    <3>2. CASE ~c.ok
      <4>1. up' = Append(up, Bare("reset")) /\ asks' = asks
        BY <1>5, <3>2 DEF AfterShim
      <4> QED
        BY <1>3, <4>1, ResetReturns, AppendProperties
    <3> QED
      BY <3>1, <3>2
  <2>5. TypeOK'
    BY <1>1, <1>5, <2>2, <2>3, <2>4 DEF IInv, TypeOK
  <2>6. ManualIsChosen' /\ PreferenceKept'
    BY <1>5 DEF IInv, ManualIsChosen, PreferenceKept
  <2>7. PreferOK' /\ RowsAreOwn'
    BY <1>1, <1>3, <1>5, <2>3, EditsKept DEF IInv
  <2>8. LentReturns'
    BY <2>4 DEF LentReturns, Asking, Returns, LentUpTo, Lends
  <2> QED
    BY <2>5, <2>6, <2>7, <2>8 DEF IInv
<1>6. CASE /\ c.ok /\ Field(c.op) # "shim"
           /\ CASE c.op = "path"   -> PathSet(c)
                [] c.op = "reset"  -> PathReset(c)
                [] c.op = "fav"    -> FavouriteSet(c.arg.fav)
                [] c.op = "perms"  -> PermsSet(c.arg)
                [] c.op = "add"    -> Added(c)
                [] c.op = "remove" -> Removed
           /\ calls' = Shared(calls, row')
           /\ chosen' = IF Field(c.op) = "path" THEN contact'.path ELSE chosen
           /\ prefer' = IF c.op = "remove" /\ contact # Absent THEN Forgotten ELSE prefer
           /\ UNCHANGED <<asks, up>>
  <2> HIDE DEF c
  <2>1. /\ row' \in Rows \cup {Absent} /\ contact' \in Entries \cup {Absent}
        /\ (row \in Rows => row' \in Rows)
        /\ (~seen /\ row' # Absent => row'.path # "shim")
        /\ chosen' \in Routes \cup {"none"} /\ prefer' \subseteq BOOLEAN
        /\ (PathEdited => prefer \subseteq prefer')
        /\ (contact' = Absent => FALSE \in prefer')
        /\ ManualIsChosen' /\ PreferenceKept'
    BY <1>2, <1>6, ConfirmedKeeps
  <2>2. /\ calls' \in Seq(Calls) /\ (\A i \in DOMAIN calls' : ~calls'[i].ok)
        /\ \A d \in Range(calls') : \E e \in Range(calls) : From(d, e)
        /\ \A d \in Range(calls) : \E e \in Range(calls') : e.op = d.op
    BY <1>3, <1>6, <2>1, SharedFrom
  <2>3. /\ done' \in Seq(Calls)
        /\ \A d \in Edits' : (\E e \in Edits : From(d, e)) \/ EditOK(d)'
        /\ \A d \in Edits : d.op # c.op => \E e \in Edits' : e.op = d.op
    <3>1. \A d \in Range(calls') : (\E e \in Edits : From(d, e)) \/ EditOK(d)'
      BY <2>2 DEF Edits
    <3> QED
      BY <1>1, <2>1, <2>2, <3>1, ResumedEdits DEF IInv, c
  <2>4. TypeOK'
    BY <1>1, <1>6, <2>1, <2>2, <2>3 DEF IInv, TypeOK
  <2>5. PreferOK' /\ RowsAreOwn'
    BY <1>1, <2>1, <2>3, EditsKept DEF IInv
  <2>6. c.op # "shim"
    BY <1>6 DEF Field
  <2>7. Asking => Asking'
    BY <1>6, <2>3, <2>6, StillAsking
  <2>8. LentReturns'
    BY <1>1, <1>6, <2>7, LentStays DEF IInv
  <2> QED
    BY <2>1, <2>4, <2>5, <2>8 DEF IInv
<1> QED
  BY <1>4, <1>5, <1>6 DEF Resume, host

-----------------------------------------------------------------------------
(* Frames, timers and drops.                                               *)

\* The oldest edit is settled.
LEMMA SettledEdits ==
  ASSUME TypeOK, calls # <<>>, NEW ok \in BOOLEAN,
         done' = Append(done, [Head(calls) EXCEPT !.ok = ok]), calls' = Tail(calls)
  PROVE  /\ calls' \in Seq(Calls) /\ (\A i \in DOMAIN calls' : ~calls'[i].ok)
         /\ done' \in Seq(Calls)
         /\ \A c \in Edits' : \E d \in Edits : From(c, d)
         /\ \A d \in Edits : \E c \in Edits' : c.op = d.op
<1> DEFINE d == Head(calls)
           c == [d EXCEPT !.ok = ok]
<1>1. /\ d \in Calls /\ Range(calls) = Range(Tail(calls)) \cup {d}
  BY RangeSplit DEF TypeOK
<1>2. c \in Calls /\ From(c, d) /\ c.op = d.op
  BY <1>1 DEF Calls, From
<1>3. done' = Append(done, c) /\ done \in Seq(Calls)
  BY DEF TypeOK
<1> HIDE DEF c
<1>4. Range(done') = Range(done) \cup {c}
  BY <1>2, <1>3, RangeAppended
<1>5. done' \in Seq(Calls)
  BY <1>2, <1>3, AppendProperties
<1>6. /\ calls' \in Seq(Calls) /\ Len(calls) \in Nat
      /\ DOMAIN calls = 1..Len(calls) /\ DOMAIN calls' = 1..(Len(calls) - 1)
      /\ \A i \in 1..(Len(calls) - 1) : calls'[i] = calls[i + 1] /\ i + 1 \in 1..Len(calls)
  BY HeadTailProperties, LenProperties, EmptySeq DEF TypeOK
<1>7. \A i \in DOMAIN calls' : ~calls'[i].ok
  BY <1>6 DEF TypeOK
<1>8. \A e \in Edits : From(e, e)
  BY DEF From
<1>9. /\ Edits = Range(calls') \cup {d} \cup Range(done)
      /\ Edits' = Range(calls') \cup {c} \cup Range(done)
  BY <1>1, <1>4 DEF Edits
<1>10. \A e \in Edits' : \E f \in Edits : From(e, f)
  BY <1>2, <1>8, <1>9
<1>11. \A f \in Edits : \E e \in Edits' : e.op = f.op
  BY <1>2, <1>9
<1> QED
  BY <1>5, <1>6, <1>7, <1>10, <1>11

\* A restore goes out: what was lent comes back.
LEMMA RestoreSent ==
  ASSUME TypeOK, calls' = Append(calls, Call("restore", NoArg, Absent, Absent)),
         up' = Append(up, Bare("reset")), done' = done
  PROVE  /\ calls' \in Seq(Calls) /\ (\A i \in DOMAIN calls' : ~calls'[i].ok)
         /\ up' \in Seq(Commands) /\ LentReturns'
         /\ \A c \in Edits' : (\E d \in Edits : From(c, d)) \/ EditOK(c)'
<1>1. /\ calls' \in Seq(Calls) /\ (\A i \in DOMAIN calls' : ~calls'[i].ok)
      /\ \A c \in Range(calls') : (\E d \in Edits : From(c, d)) \/ EditOK(c)'
  BY Restored
<1>2. up' \in Seq(Commands) /\ Returns(up')
  BY ResetReturns, AppendProperties DEF TypeOK
<1>3. LentReturns'
  BY <1>2 DEF LentReturns, Returns, LentUpTo, Lends
<1>4. \A c \in Edits' : (\E d \in Edits : From(c, d)) \/ EditOK(c)'
  BY <1>1 DEF Edits, From
<1> QED
  BY <1>1, <1>2, <1>3, <1>4

\* A step that leaves what the host shows as it is.
LEMMA HostStays ==
  ASSUME IInv, UNCHANGED <<row, contact, chosen, prefer>>, seen => seen'
  PROVE  /\ ManualIsChosen' /\ PreferenceKept'
         /\ ((\A c \in Edits' : (\E d \in Edits : From(c, d)) \/ EditOK(c)')
               => PreferOK' /\ RowsAreOwn')
<1>1. ManualIsChosen' /\ PreferenceKept'
  BY DEF IInv, ManualIsChosen, PreferenceKept
<1>2. ASSUME \A c \in Edits' : (\E d \in Edits : From(c, d)) \/ EditOK(c)'
      PROVE  PreferOK' /\ RowsAreOwn'
  <2>1. /\ ~seen' /\ row' # Absent => row'.path # "shim"
        /\ contact' = Absent => FALSE \in prefer'
    BY DEF IInv, PreferOK, RowsAreOwn
  <2> QED
    BY <1>2, <2>1, EditsKept DEF IInv
<1> QED
  BY <1>1, <1>2

LEMMA GotAckKeeps ==
  ASSUME IInv, GotAck, down' \in Seq(Frames), UNCHANGED <<radio, events>>
  PROVE  IInv'
<1>1. UNCHANGED <<row, contact, asks, up, clean, chosen, seen, prefer>>
  BY DEF GotAck, host, history
<1>2. CASE calls = <<>>
  <2>1. UNCHANGED <<calls, done>>
    BY <1>2 DEF GotAck
  <2>2. TypeOK'
    BY <1>1, <2>1 DEF IInv, TypeOK
  <2>3. \A c \in Edits' : \E d \in Edits : From(c, d)
    BY <2>1 DEF Edits, From
  <2>4. LentReturns'
    BY <1>1, <2>1, LentStays DEF IInv, Asking, Edits
  <2> QED
    BY <1>1, <2>2, <2>3, <2>4, HostStays DEF IInv
<1>3. CASE calls # <<>>
  <2>1. PICK ok \in BOOLEAN : /\ done' = Append(done, [Head(calls) EXCEPT !.ok = ok])
                              /\ calls' = Tail(calls)
    BY <1>3 DEF GotAck
  <2>2. /\ calls' \in Seq(Calls) /\ (\A i \in DOMAIN calls' : ~calls'[i].ok)
        /\ done' \in Seq(Calls)
        /\ \A c \in Edits' : \E d \in Edits : From(c, d)
        /\ \A d \in Edits : \E c \in Edits' : c.op = d.op
    BY <1>3, <2>1, SettledEdits DEF IInv
  <2>3. TypeOK'
    BY <1>1, <2>2 DEF IInv, TypeOK
  <2>4. LentReturns'
    BY <1>1, <2>2, LentStays DEF IInv, Asking
  <2> QED
    BY <1>1, <2>2, <2>3, <2>4, HostStays DEF IInv
<1> QED
  BY <1>2, <1>3

LEMMA GotSentKeeps ==
  ASSUME IInv, GotSent, down' \in Seq(Frames), UNCHANGED <<radio, events>>
  PROVE  IInv'
<1>1. UNCHANGED <<row, contact, done, clean, chosen, seen, prefer>>
  BY DEF GotSent, host, history
<1>2. CASE asks = 0
  <2>1. UNCHANGED <<calls, asks, up>>
    BY <1>2 DEF GotSent
  <2>2. TypeOK'
    BY <1>1, <2>1 DEF IInv, TypeOK
  <2>3. \A c \in Edits' : \E d \in Edits : From(c, d)
    BY <1>1, <2>1 DEF Edits, From
  <2>4. LentReturns'
    BY <1>1, <2>1, LentStays DEF IInv, Asking, Edits
  <2> QED
    BY <1>1, <2>2, <2>3, <2>4, HostStays DEF IInv
<1>3. CASE asks # 0
  <2>1. /\ asks' = asks - 1 /\ asks' \in Nat
        /\ calls' = Append(calls, Call("restore", NoArg, Absent, Absent))
        /\ up' = Append(up, Bare("reset"))
    BY <1>3 DEF GotSent, IInv, TypeOK
  <2>2. /\ calls' \in Seq(Calls) /\ (\A i \in DOMAIN calls' : ~calls'[i].ok)
        /\ up' \in Seq(Commands) /\ LentReturns'
        /\ \A c \in Edits' : (\E d \in Edits : From(c, d)) \/ EditOK(c)'
    BY <1>1, <2>1, RestoreSent DEF IInv
  <2>3. TypeOK'
    BY <1>1, <2>1, <2>2 DEF IInv, TypeOK
  <2> QED
    BY <1>1, <2>2, <2>3, HostStays DEF IInv
<1> QED
  BY <1>2, <1>3

\* What a frame carries.
LEMMA FrameIs ==
  ASSUME TypeOK, down # <<>>
  PROVE  /\ Tail(down) \in Seq(Frames)
         /\ Head(down).code = "record" => Head(down).rec \in Records
<1>1. Head(down) \in Frames /\ Tail(down) \in Seq(Frames)
  BY HeadTailProperties DEF TypeOK
<1> QED
  BY <1>1 DEF Frames

LEMMA GotRecordKeeps ==
  ASSUME IInv, GotRecord, down # <<>>, down' \in Seq(Frames), UNCHANGED <<radio, events>>
  PROVE  IInv'
<1> DEFINE rec == Head(down).rec
<1>1. rec \in Records
  BY FrameIs DEF GotRecord, IInv
<1>2. /\ row' = RowOf(rec, TRUE) /\ contact' = Merged(rec, contact)
      /\ calls' = Severed(calls) /\ done' = Severed(done)
      /\ clean' \in BOOLEAN
      /\ seen' = (seen \/ rec.path = "shim")
      /\ UNCHANGED <<asks, up, chosen, prefer>>
  BY DEF GotRecord, IInv, TypeOK
<1> HIDE DEF rec
<1>3. row' \in Rows /\ row'.path = rec.path
  BY <1>1, <1>2, RowIs
<1>4. contact' \in Entries /\ ManualIsChosen' /\ PreferenceKept' /\ contact' # Absent
  BY <1>1, <1>2, MergeKeeps
<1>5. /\ calls' \in Seq(Calls) /\ (\A i \in DOMAIN calls' : ~calls'[i].ok)
      /\ done' \in Seq(Calls)
      /\ \A c \in Edits' : \E d \in Edits : From(c, d)
      /\ \A d \in Edits : \E c \in Edits' : c.op = d.op
  BY <1>2, SeveredEdits DEF IInv
<1>6. TypeOK'
  BY <1>2, <1>3, <1>4, <1>5 DEF IInv, TypeOK
<1>7. PreferOK' /\ RowsAreOwn'
  BY <1>2, <1>3, <1>4, <1>5, EditsKept DEF IInv
<1>8. LentReturns'
  BY <1>2, <1>5, LentStays DEF IInv, Asking
<1> QED
  BY <1>4, <1>6, <1>7, <1>8 DEF IInv

LEMMA GotNewAdvertKeeps ==
  ASSUME IInv, GotNewAdvert, down' \in Seq(Frames), UNCHANGED <<radio, events>>
  PROVE  IInv'
<1> DEFINE rec == [path |-> "flood", fav |-> FALSE, perms |-> FALSE]
           kept == [rec EXCEPT !.fav = row # Absent /\ row.fav,
                               !.perms = row # Absent /\ row.perms]
<1>1. rec \in Records /\ kept \in Records /\ kept.path = "flood"
  <2>1. row # Absent => row.fav \in BOOLEAN /\ row.perms \in BOOLEAN
    BY DEF IInv, TypeOK, Rows
  <2>2. (row # Absent /\ row.fav) \in BOOLEAN /\ (row # Absent /\ row.perms) \in BOOLEAN
    BY <2>1
  <2> QED
    BY <2>2 DEF Records, Paths
<1>2. /\ row' = RowOf(kept, contact # Absent)
      /\ contact' = IF contact = Absent THEN Absent ELSE Merged(rec, contact)
      /\ calls' = Severed(calls) /\ done' = Severed(done)
      /\ UNCHANGED <<asks, up, clean, chosen, seen, prefer>>
  BY DEF GotNewAdvert, history
<1> HIDE DEF rec, kept
<1>3. row' \in Rows /\ row'.path = "flood"
  BY <1>1, <1>2, RowIs
<1>4. /\ contact' \in Entries \cup {Absent} /\ ManualIsChosen' /\ PreferenceKept'
      /\ (contact' = Absent => contact = Absent)
  <2>1. CASE contact = Absent
    BY <1>2, <2>1 DEF ManualIsChosen, PreferenceKept
  <2>2. CASE contact # Absent
    BY <1>1, <1>2, <2>2, MergeKeeps
  <2> QED
    BY <2>1, <2>2
<1>5. /\ calls' \in Seq(Calls) /\ (\A i \in DOMAIN calls' : ~calls'[i].ok)
      /\ done' \in Seq(Calls)
      /\ \A c \in Edits' : \E d \in Edits : From(c, d)
      /\ \A d \in Edits : \E c \in Edits' : c.op = d.op
  BY <1>2, SeveredEdits DEF IInv
<1>6. TypeOK'
  BY <1>2, <1>3, <1>4, <1>5 DEF IInv, TypeOK
<1>7. PreferOK' /\ RowsAreOwn'
  <2>1. contact' = Absent => FALSE \in prefer'
    BY <1>2, <1>4 DEF IInv, PreferOK
  <2> QED
    BY <1>2, <1>3, <1>5, <2>1, EditsKept DEF IInv
<1>8. LentReturns'
  BY <1>2, <1>5, LentStays DEF IInv, Asking
<1> QED
  BY <1>4, <1>6, <1>7, <1>8 DEF IInv

LEMMA GotDeletedKeeps ==
  ASSUME IInv, GotDeleted, down' \in Seq(Frames), UNCHANGED <<radio, events>>
  PROVE  IInv'
<1>1. /\ Removed
      /\ calls' = Shared(calls, row') /\ done' = Shared(done, row')
      /\ prefer' = IF contact = Absent THEN prefer ELSE Forgotten
      /\ UNCHANGED <<asks, up, clean, chosen, seen>>
  BY DEF GotDeleted
<1>2. /\ row' \in Rows \cup {Absent} /\ contact' = Absent
      /\ (row \in Rows => row' \in Rows)
      /\ (row' # Absent => row # Absent /\ row'.path = row.path)
      /\ ManualIsChosen' /\ PreferenceKept'
  BY <1>1, RemovedKeeps
<1>3. /\ calls' \in Seq(Calls) /\ (\A i \in DOMAIN calls' : ~calls'[i].ok)
      /\ done' \in Seq(Calls)
      /\ \A c \in Edits' : \E d \in Edits : From(c, d)
      /\ \A d \in Edits : \E c \in Edits' : c.op = d.op
  BY <1>1, <1>2, SharedEdits DEF IInv
<1>4. /\ prefer' \subseteq BOOLEAN /\ FALSE \in prefer'
      /\ (PathEdited => prefer \subseteq prefer')
  BY <1>1, ForgottenIs DEF IInv, TypeOK, PreferOK
<1>5. TypeOK'
  BY <1>1, <1>2, <1>3, <1>4 DEF IInv, TypeOK
<1>6. PreferOK' /\ RowsAreOwn'
  <2>1. ~seen' /\ row' # Absent => row'.path # "shim"
    BY <1>1, <1>2 DEF IInv, RowsAreOwn
  <2> QED
    BY <1>1, <1>2, <1>3, <1>4, <2>1, EditsKept DEF IInv
<1>7. LentReturns'
  BY <1>1, <1>3, LentStays DEF IInv, Asking
<1> QED
  BY <1>2, <1>5, <1>6, <1>7 DEF IInv

LEMMA ReceiveKeeps ==
  ASSUME IInv, Receive
  PROVE  IInv'
<1>1. /\ down # <<>> /\ down' \in Seq(Frames) /\ UNCHANGED <<radio, events>>
      /\ GotAck \/ GotSent \/ GotRecord \/ GotNewAdvert \/ GotDeleted
  BY FrameIs DEF Receive, IInv
<1>2. CASE GotAck
  BY <1>1, <1>2, GotAckKeeps
<1>3. CASE GotSent
  BY <1>1, <1>3, GotSentKeeps
<1>4. CASE GotRecord
  BY <1>1, <1>4, GotRecordKeeps
<1>5. CASE GotNewAdvert
  BY <1>1, <1>5, GotNewAdvertKeeps
<1>6. CASE GotDeleted
  BY <1>1, <1>6, GotDeletedKeeps
<1> QED
  BY <1>1, <1>2, <1>3, <1>4, <1>5, <1>6

LEMMA TimesOutKeeps ==
  ASSUME IInv, TimesOut
  PROVE  IInv'
<1>1. /\ events < MaxEvents /\ events' = events + 1 /\ clean' = FALSE
      /\ UNCHANGED <<radio, row, contact, down, chosen, seen, prefer>>
  BY DEF TimesOut, Spend, host
<1>a. clean' \in BOOLEAN
  BY <1>1
<1>2. CASE /\ calls # <<>> /\ done' = Append(done, Head(calls)) /\ calls' = Tail(calls)
           /\ UNCHANGED <<asks, up>>
  <2>1. Head(calls) \in Calls /\ ~Head(calls).ok
    <3>1. Head(calls) = calls[1] /\ 1 \in DOMAIN calls /\ Head(calls) \in Calls
      BY <1>2, HeadTailProperties, LenProperties, EmptySeq DEF IInv, TypeOK
    <3> QED
      BY <3>1 DEF IInv, TypeOK
  <2>2. Head(calls) = [Head(calls) EXCEPT !.ok = FALSE]
    BY <2>1 DEF Calls
  <2>3. /\ calls' \in Seq(Calls) /\ (\A i \in DOMAIN calls' : ~calls'[i].ok)
        /\ done' \in Seq(Calls)
        /\ \A c \in Edits' : \E d \in Edits : From(c, d)
        /\ \A d \in Edits : \E c \in Edits' : c.op = d.op
    BY <1>2, <2>2, SettledEdits DEF IInv
  <2>4. TypeOK'
    BY <1>1, <1>a, <1>2, <2>3, EventsAssumption DEF IInv, TypeOK
  <2>5. LentReturns'
    BY <1>1, <1>2, <2>3, LentStays DEF IInv, Asking
  <2> QED
    BY <1>1, <2>3, <2>4, <2>5, HostStays DEF IInv
<1>3. CASE /\ asks > 0 /\ asks' = asks - 1
           /\ calls' = Append(calls, Call("restore", NoArg, Absent, Absent))
           /\ up' = Append(up, Bare("reset"))
           /\ UNCHANGED done
  <2>1. /\ calls' \in Seq(Calls) /\ (\A i \in DOMAIN calls' : ~calls'[i].ok)
        /\ up' \in Seq(Commands) /\ LentReturns'
        /\ \A c \in Edits' : (\E d \in Edits : From(c, d)) \/ EditOK(c)'
    BY <1>3, RestoreSent DEF IInv
  <2>2. asks' \in Nat
    BY <1>3 DEF IInv, TypeOK
  <2>3. TypeOK'
    BY <1>1, <1>a, <1>3, <2>1, <2>2, EventsAssumption DEF IInv, TypeOK
  <2> QED
    BY <1>1, <2>1, <2>3, HostStays DEF IInv
<1> QED
  BY <1>2, <1>3 DEF TimesOut

LEMMA LinkDropsKeeps ==
  ASSUME IInv, LinkDrops
  PROVE  IInv'
<1> DEFINE q == done \o calls
<1>1. /\ events < MaxEvents /\ events' = events + 1 /\ clean' = FALSE /\ seen' = TRUE
      /\ done' = [i \in DOMAIN q |-> CutOff(q[i])]
      /\ calls' = <<>> /\ asks' = 0 /\ up' = <<>> /\ down' = <<>>
      /\ UNCHANGED <<radio, row, contact, chosen, prefer>>
  BY DEF LinkDrops, Spend, host
<1>2. done \in Seq(Calls) /\ calls \in Seq(Calls)
  BY DEF IInv, TypeOK
<1>3. /\ q \in Seq(Calls) /\ Len(q) = Len(done) + Len(calls)
      /\ Len(done) \in Nat /\ Len(calls) \in Nat
      /\ DOMAIN done = 1..Len(done) /\ DOMAIN calls = 1..Len(calls) /\ DOMAIN q = 1..Len(q)
      /\ \A i \in 1..Len(q) : q[i] = IF i <= Len(done) THEN done[i] ELSE calls[i - Len(done)]
  BY <1>2, ConcatProperties, LenProperties
<1> HIDE DEF q
<1>4. \A i \in DOMAIN q : q[i] \in Edits /\ q[i] \in Calls
  <2>1. ASSUME NEW i \in 1..Len(q) PROVE q[i] \in Edits
    <3>1. CASE i <= Len(done)
      <4>1. i \in 1..Len(done) /\ q[i] = done[i]
        BY <1>3, <3>1
      <4> QED
        BY <1>3, <4>1 DEF Edits, Range
    <3>2. CASE ~(i <= Len(done))
      <4>1. i - Len(done) \in 1..Len(calls) /\ q[i] = calls[i - Len(done)]
        BY <1>3, <3>2
      <4> QED
        BY <1>3, <4>1 DEF Edits, Range
    <3> QED
      BY <3>1, <3>2
  <2> QED
    BY <1>3, <2>1, Typed DEF IInv
<1>5. \A c \in Calls : CutOff(c) \in Calls /\ From(CutOff(c), c)
  BY DEF CutOff, Calls, From, Ops
<1>6. done' \in [1..Len(q) -> Calls] /\ Len(q) \in Nat
  BY <1>1, <1>3, <1>4, <1>5
<1>7. done' \in Seq(Calls) /\ calls' \in Seq(Calls) /\ (\A i \in DOMAIN calls' : ~calls'[i].ok)
      /\ up' \in Seq(Commands) /\ down' \in Seq(Frames)
  BY <1>1, <1>6, EmptySeq
<1>8. \A c \in Edits' : \E d \in Edits : From(c, d)
  <2>1. Range(calls') = {}
    BY <1>1 DEF Range
  <2>2. \A c \in Range(done') : \E i \in DOMAIN q : c = CutOff(q[i])
    BY <1>1 DEF Range
  <2> QED
    BY <1>4, <1>5, <2>1, <2>2 DEF Edits
<1>9. TypeOK'
  <2>1. clean' \in BOOLEAN /\ seen' \in BOOLEAN /\ asks' \in Nat
    BY <1>1
  <2> QED
    BY <1>1, <1>7, <2>1, EventsAssumption DEF IInv, TypeOK
<1>10. LentReturns'
  BY <1>1 DEF LentReturns
<1> QED
  BY <1>1, <1>8, <1>9, <1>10, HostStays DEF IInv

-----------------------------------------------------------------------------
(* The radio.                                                              *)

\* The radio answers: another frame on its way.
LEMMA AnswerIs ==
  ASSUME TypeOK, NEW f \in Frames, down' = Append(down, f)
  PROVE  down' \in Seq(Frames)
BY AppendProperties DEF TypeOK

LEMMA EditsStay ==
  ASSUME UNCHANGED <<calls, done>>
  PROVE  /\ \A c \in Edits' : \E d \in Edits : From(c, d)
         /\ (UNCHANGED asks => (Asking' <=> Asking))
BY DEF Edits, From, Asking

LEMMA RadioTakesKeeps ==
  ASSUME IInv, RadioTakes
  PROVE  IInv'
<1> DEFINE f == Head(up)
<1>1. /\ up # <<>> /\ up' = Tail(up)
      /\ UNCHANGED <<row, contact, calls, done, asks, events, clean, chosen, seen, prefer>>
  BY DEF RadioTakes, host, history
<1>2. /\ f \in Commands /\ up' \in Seq(Commands)
      /\ LentUpTo(up, 0) => LentUpTo(up', 0) /\ ~Lends(f)
      /\ Returns(up) => Returns(up') \/ (f.cmd = "reset" /\ LentUpTo(up', 0))
  BY <1>1, TakenReturns DEF IInv, TypeOK
<1>3. radio \in Records \cup {Absent} /\ (f.cmd = "update" => f.rec \in Records)
  BY <1>2 DEF IInv, TypeOK, Commands
<1>4. down' \in Seq(Frames)
  <2>1. PICK code \in {"ok", "refused", "notfound", "sent"} :
          down' = Append(down, [code |-> code, rec |-> Absent])
    BY DEF RadioTakes, Answer
  <2>2. [code |-> code, rec |-> Absent] \in Frames
    BY DEF Frames
  <2> QED
    BY <2>1, <2>2, AnswerIs DEF IInv
<1>5. \/ f.cmd = "update" /\ radio' = f.rec
      \/ f.cmd # "reset" /\ radio' = radio
      \/ f.cmd = "reset" /\ radio # Absent /\ radio' = [radio EXCEPT !.path = "flood"]
      \/ radio' = Absent
  BY DEF RadioTakes
<1> HIDE DEF f
<1>6. radio # Absent => /\ [radio EXCEPT !.path = "flood"] \in Records
                        /\ [radio EXCEPT !.path = "flood"].path = "flood"
  BY <1>3 DEF Records, Paths
<1>7. radio' \in Records \cup {Absent}
  BY <1>3, <1>5, <1>6
<1>8. TypeOK'
  BY <1>1, <1>2, <1>4, <1>7 DEF IInv, TypeOK
<1>9. LentReturns'
  <2> SUFFICES ASSUME ~seen, Lent', ~Asking PROVE Returns(up')
    BY <1>1, EditsStay DEF LentReturns, Returns, LentUpTo, Lends
  <2>1. (radio' # Absent /\ radio'.path = "shim") \/ ~LentUpTo(up', 0)
    BY DEF Lent, LentUpTo, Lends
  <2>2. CASE Lent
    <3>1. Returns(up)
      BY <2>2 DEF IInv, LentReturns
    <3>2. f.cmd = "reset" => ~(radio' # Absent /\ radio'.path = "shim")
      BY <1>5, <1>6
    <3> QED
      BY <1>2, <2>1, <3>1, <3>2
  <2>3. CASE ~Lent
    <3>1. LentUpTo(up, 0) /\ ~(radio # Absent /\ radio.path = "shim")
      BY <2>3 DEF Lent
    <3>2. LentUpTo(up', 0) /\ ~Lends(f)
      BY <1>2, <3>1
    <3>3. ~(radio' # Absent /\ radio'.path = "shim")
      BY <1>5, <1>6, <3>1, <3>2 DEF Lends
    <3> QED
      BY <2>1, <3>2, <3>3
  <2> QED
    BY <2>2, <2>3
<1> QED
  BY <1>1, <1>8, <1>9, EditsStay, HostStays DEF IInv

LEMMA RadioChangesKeeps ==
  ASSUME IInv, RadioChanges
  PROVE  IInv'
<1>1. /\ events < MaxEvents /\ events' = events + 1
      /\ UNCHANGED <<row, contact, calls, done, asks, up, chosen, seen, prefer>>
  BY DEF RadioChanges, Spend, host
<1>2. clean' \in BOOLEAN
  BY DEF RadioChanges, IInv, TypeOK
<1>3. radio \in Records \cup {Absent}
  BY DEF IInv, TypeOK
<1>4. /\ radio' \in Records \cup {Absent}
      /\ radio' = radio \/ radio' = Absent \/ radio'.path # "shim"
  <2>1. ASSUME NEW p \in Routes, radio # Absent
        PROVE  /\ [radio EXCEPT !.path = p] \in Records
               /\ [radio EXCEPT !.path = p].path # "shim"
    BY <1>3, <2>1, RoutesAssumption DEF Records, Paths
  <2> DEFINE flooding == [path |-> "flood", fav |-> FALSE, perms |-> FALSE]
  <2>2. flooding \in Records /\ flooding.path # "shim"
    BY DEF Records, Paths
  <2>3. \/ \E p \in Routes : radio # Absent /\ radio' = [radio EXCEPT !.path = p]
        \/ radio' = Absent
        \/ radio' = flooding
        \/ radio' = radio
    BY DEF RadioChanges
  <2> HIDE DEF flooding
  <2>4. CASE \E p \in Routes : radio # Absent /\ radio' = [radio EXCEPT !.path = p]
    BY <2>1, <2>4
  <2> QED
    BY <1>3, <2>2, <2>3, <2>4
<1>5. down' \in Seq(Frames)
  <2>1. /\ [code |-> "gone", rec |-> Absent] \in Frames
        /\ [code |-> "advert", rec |-> Absent] \in Frames
        /\ radio # Absent => [code |-> "record", rec |-> radio] \in Frames
    BY <1>3 DEF Frames
  <2>2. down' = down \/ \E f \in Frames : down' = Append(down, f)
    BY <2>1 DEF RadioChanges, Answer
  <2> QED
    BY <2>2, AnswerIs DEF IInv, TypeOK
<1>6. TypeOK'
  BY <1>1, <1>2, <1>4, <1>5, EventsAssumption DEF IInv, TypeOK
<1>7. LentReturns'
  <2>1. Lent' => Lent
    BY <1>1, <1>4 DEF Lent, LentUpTo, Lends
  <2>2. Returns(up') = Returns(up) /\ (Asking' <=> Asking)
    BY <1>1, EditsStay
  <2> QED
    BY <1>1, <2>1, <2>2 DEF IInv, LentReturns
<1> QED
  BY <1>1, <1>6, <1>7, EditsStay, HostStays DEF IInv

-----------------------------------------------------------------------------
(* The three copies agree.  While no two edits of different fields overlap *)
(* (`clean`) the frames on their way tell a story: what the radio held as  *)
(* it sent each of them.  It ends with what the radio holds, and begins    *)
(* with what the edits answered but not resumed leave, or else with what   *)
(* the host shows; an edit is in the story twice, as the command the radio *)
(* takes and as the call that waits, and both are of one field, so that    *)
(* whichever comes last decides for the radio and for the host alike.      *)

Busy == calls # <<>> \/ done # <<>> \/ asks > 0
Fields == {"path", "fav", "perms", "store", "shim"}
AckCodes == {"ok", "refused", "notfound"}

\* The answer confirms the edit.
Confirms(code, c) == code = "ok" \/ (code = "notfound" /\ c.op = "remove")

\* The radio holds r once it has done as the edit asked.
Leaves(c, r) ==
  /\ c.op = "remove" <=> r = Absent
  /\ c.op = "path" => r.path = c.arg.path
  /\ c.op \in {"reset", "restore"} => r.path = "flood"
  /\ c.op = "fav" => r.fav = c.arg.fav
  /\ c.op = "perms" => r.perms = c.arg.perms

\* What it holds before and after an edit it did, or refused: the table is full.
Left(c, ok, before, after) ==
  IF ok THEN Leaves(c, after) ELSE c.op = "add" /\ before = Absent /\ after = Absent

\* The command is that of the edit.
CommandOf(f, c) ==
  /\ f.cmd = IF c.op = "remove" THEN "remove"
             ELSE IF c.op \in {"reset", "restore"} THEN "reset" ELSE "update"
  /\ c.op = "path" => f.rec.path = c.arg.path
  /\ c.op = "fav" => f.rec.fav = c.arg.fav
  /\ c.op = "perms" => f.rec.perms = c.arg.perms

\* The entry shows the record.
Shows(e, rec) ==
  /\ e.fav = rec.fav /\ e.perms = rec.perms
  /\ e.path = PathHex(rec.path) \/ (e.manual /\ PathHex(rec.path) = "none")

HostOK ==
  IF contact = Absent THEN row # Absent => ~row.on
  ELSE row # Absent /\ row.on /\ Shows(contact, RecordOf(row))

\* What the host takes the radio to hold.
HostRec == IF contact = Absent THEN Absent ELSE RecordOf(row)

\* The i-th of the frames dn fits the story q, in which a counts the answers, to the
\* edits cs.
Fits(i, q, a, dn, cs, busy) ==
  /\ dn[i].code \in AckCodes =>
       /\ a[i] = a[i - 1] + 1
       /\ Left(cs[a[i]], Confirms(dn[i].code, cs[a[i]]), q[i - 1], q[i])
  /\ dn[i].code \notin AckCodes => a[i] = a[i - 1]
  /\ dn[i].code = "record" => q[i] = dn[i].rec
  /\ dn[i].code = "gone" => q[i] = Absent
  /\ dn[i].code = "advert" => ~busy /\ q[i] = Absent /\ q[i - 1] = Absent

\* Only an answer changes the story, but for an eviction while nothing is under way.
Story(q, a, dn, cs, busy) ==
  /\ q \in [0..Len(dn) -> Records \cup {Absent}] /\ a \in [0..Len(dn) -> Nat]
  /\ a[0] = 0
  /\ \A i \in 1..Len(dn) : Fits(i, q, a, dn, cs, busy)
  /\ \A i, j \in 0..Len(dn) : i <= j =>
       /\ a[i] <= a[j]
       /\ a[i] = a[j] => \/ q[j] = q[i]
                         \/ /\ ~busy /\ q[j] = Absent
                            /\ \E k \in 1..j : i < k /\ dn[k].code = "gone"

\* b counts the edits among the commands u; of the edits cs, n are answered.
Sent(b, u, cs, n) ==
  /\ b \in [0..Len(u) -> Nat]
  /\ b[0] = 0
  /\ \A i \in 1..Len(u) :
       IF u[i].cmd = "anon" THEN b[i] = b[i - 1]
       ELSE b[i] = b[i - 1] + 1 /\ CommandOf(u[i], cs[n + b[i]])
  /\ \A i, j \in 0..Len(u) : i <= j => b[i] <= b[j]
  /\ n + b[Len(u)] = Len(cs)

\* The edits d, answered but not resumed, lead to q0; before one that was refused, the
\* contact is gone.
EffectiveAdd(c) == c.op = "add" /\ c.ok
Leads(q0, d) ==
  /\ d # <<>> => Left(d[Len(d)], d[Len(d)].ok, q0, q0)
  /\ \A k \in 1..Len(d) : ~d[k].ok => d[k].op = "add"
  /\ \A k \in 1..Len(d) : k > 1 /\ ~d[k].ok => ~EffectiveAdd(d[k - 1])
  /\ d # <<>> /\ ~d[1].ok =>
       contact = Absent \/ \E j \in 1..Len(d) : j > 1 /\ EffectiveAdd(d[j])

\* Records that differ in field f alone.
Alike(f, r, k) ==
  /\ f \notin {"path", "shim"} => r.path = k.path
  /\ f # "fav" => r.fav = k.fav
  /\ f # "perms" => r.perms = k.perms
  /\ f = "shim" => k.path = "flood" /\ r.path \in {"flood", "shim"}

\* The edit is of field f, and the rest of what it writes is as in k.
EditIsOf(c, f, k) ==
  /\ Field(c.op) = f
  /\ c.op \in {"path", "reset"} =>
       c.contact # Absent /\ c.contact.fav = k.fav /\ c.contact.perms = k.perms
  /\ c.op = "add" => row # Absent /\ RecordOf(c.row) = k
  /\ c.op = "perms" => c.arg.fav = k.fav

\* Everything under way is of field f.
OneField(f, k, q) ==
  /\ \A c \in Edits : EditIsOf(c, f, k)
  /\ asks > 0 => f = "shim"
  /\ f # "store" => contact # Absent /\ \A i \in 0..Len(down) : q[i] # Absent
  /\ row # Absent => Alike(f, RecordOf(row), k)
  /\ f = "shim" => row # Absent /\ row.path = "flood"
  /\ \A i \in 0..Len(down) : q[i] # Absent => Alike(f, q[i], k)
  /\ \A i \in 1..Len(up) : up[i].cmd = "update" => Alike(f, up[i].rec, k)

Told(f, k, q, a, b) ==
  /\ Story(q, a, down, calls, Busy)
  /\ q[Len(down)] = radio
  /\ Sent(b, up, calls, a[Len(down)])
  /\ Leads(q[0], done)
  /\ Busy => OneField(f, k, q)
  /\ done = <<>> /\ (Busy => f # "shim") => q[0] = HostRec

\* The invariant behind AgreeWhenQuiet.
Agreeing ==
  clean => HostOK /\ \E f \in Fields, k \in Records : \E q, a, b : Told(f, k, q, a, b)

\* What is told once the first frame is taken, d of it being told already.
Later(s, n) == [i \in 0..(n - 1) |-> s[i + 1]]
Fewer(s, n, d) == [i \in 0..(n - 1) |-> s[i + 1] - d]
Settles(f) == IF f.code \in AckCodes THEN 1 ELSE 0
Rest(f, cs) == IF f.code \in AckCodes THEN Tail(cs) ELSE cs

\* What they are, position by position.
LEMMA LaterIs ==
  ASSUME NEW s, NEW n \in Nat, n >= 1
  PROVE  /\ \A i \in 0..(n - 1) : i + 1 \in 0..n /\ Later(s, n)[i] = s[i + 1]
         /\ Later(s, n)[0] = s[1] /\ Later(s, n)[n - 1] = s[n]
         /\ \A d : Fewer(s, n, d)[n - 1] = s[n] - d
<1>1. \A i \in 0..(n - 1) : i + 1 \in 0..n
  OBVIOUS
<1>2. 0 \in 0..(n - 1) /\ n - 1 \in 0..(n - 1) /\ 0 + 1 = 1 /\ (n - 1) + 1 = n
  OBVIOUS
<1> QED
  BY <1>1, <1>2 DEF Later, Fewer

\* The first frame is taken: the story goes on without it.
LEMMA StoryTail ==
  ASSUME NEW dn \in Seq(Frames), dn # <<>>, NEW cs \in Seq(Calls), NEW busy \in BOOLEAN,
         NEW q, NEW a, Story(q, a, dn, cs, busy), a[Len(dn)] <= Len(cs)
  PROVE  /\ Story(Later(q, Len(dn)), Fewer(a, Len(dn), Settles(Head(dn))), Tail(dn),
                  Rest(Head(dn), cs), busy)
         /\ Len(dn) \in Nat /\ Len(dn) >= 1 /\ Len(Tail(dn)) = Len(dn) - 1
         /\ q[0] \in Records \cup {Absent} /\ q[1] \in Records \cup {Absent}
         /\ Head(dn).code \in AckCodes =>
              /\ cs # <<>> /\ a[Len(dn)] >= 1
              /\ Left(Head(cs), Confirms(Head(dn).code, Head(cs)), q[0], q[1])
         /\ Head(dn).code \notin AckCodes =>
              q[1] = q[0] \/ (~busy /\ q[1] = Absent /\ Head(dn).code = "gone")
         /\ Head(dn).code = "record" => q[1] = Head(dn).rec
         /\ Head(dn).code = "gone" => q[1] = Absent
         /\ Head(dn).code = "advert" => ~busy /\ q[1] = Absent /\ q[0] = Absent
<1> DEFINE n == Len(dn)
           t == Tail(dn)
           ack == Head(dn).code \in AckCodes
           cs1 == Rest(Head(dn), cs)
           d == Settles(Head(dn))
<1>1. /\ n \in Nat /\ n >= 1 /\ Head(dn) = dn[1] /\ t \in Seq(Frames) /\ Len(t) = n - 1
      /\ \A i \in 1..(n - 1) : t[i] = dn[i + 1]
  BY HeadTailProperties, LenProperties, EmptySeq
<1>2. /\ q \in [0..n -> Records \cup {Absent}] /\ a \in [0..n -> Nat] /\ a[0] = 0
      /\ \A i \in 1..n : Fits(i, q, a, dn, cs, busy)
  BY DEF Story
<1>3. \A i, j \in 0..n : i <= j =>
       /\ a[i] <= a[j]
       /\ a[i] = a[j] => \/ q[j] = q[i]
                         \/ /\ ~busy /\ q[j] = Absent
                            /\ \E k \in 1..j : i < k /\ dn[k].code = "gone"
  BY DEF Story
<1>4. Fits(1, q, a, dn, cs, busy) /\ 1 - 1 = 0 /\ 1 \in 0..n /\ 0 \in 0..n /\ n \in 0..n
  BY <1>1, <1>2
<1>5. a[1] = d /\ d \in Nat /\ q[0] \in Records \cup {Absent} /\ q[1] \in Records \cup {Absent}
  <2>1. a[1 - 1] = 0
    BY <1>2, <1>4
  <2>2. ack => a[1] = a[1 - 1] + 1
    BY <1>1, <1>4 DEF Fits
  <2>3. ~ack => a[1] = a[1 - 1]
    BY <1>1, <1>4 DEF Fits
  <2>4. a[1] = d
    BY <2>1, <2>2, <2>3 DEF Settles
  <2>5. q[0] \in Records \cup {Absent} /\ q[1] \in Records \cup {Absent}
    BY <1>2, <1>4
  <2> QED
    BY <2>4, <2>5 DEF Settles
<1>5a. (ack => d = 1) /\ (~ack => d = 0)
  BY DEF Settles
<1>6. a[1] <= a[n] /\ a[n] \in Nat /\ Len(cs) \in Nat
  BY <1>1, <1>2, <1>3, <1>4, LenProperties
<1>7. ack => /\ cs # <<>> /\ a[n] >= 1 /\ cs[1] = Head(cs)
             /\ Len(cs1) = Len(cs) - 1 /\ \A i \in 1..(Len(cs) - 1) : cs1[i] = cs[i + 1]
  <2> SUFFICES ASSUME ack PROVE /\ cs # <<>> /\ a[n] >= 1 /\ cs[1] = Head(cs)
             /\ Len(cs1) = Len(cs) - 1 /\ \A i \in 1..(Len(cs) - 1) : cs1[i] = cs[i + 1]
    OBVIOUS
  <2>1. a[n] >= 1 /\ Len(cs) >= 1
    BY <1>5, <1>5a, <1>6
  <2>2. cs # <<>>
    BY <2>1, EmptySeq
  <2> QED
    BY <2>1, <2>2, HeadTailProperties DEF Rest
<1>7a. ~ack => cs1 = cs
  BY DEF Rest
<1> HIDE DEF cs1
<1>8. ack => Left(Head(cs), Confirms(Head(dn).code, Head(cs)), q[0], q[1])
  BY <1>1, <1>4, <1>5, <1>5a, <1>7 DEF Fits
<1>9. ~ack => q[1] = q[0] \/ (~busy /\ q[1] = Absent /\ Head(dn).code = "gone")
  <2> SUFFICES ASSUME ~ack, q[1] # q[0]
               PROVE  ~busy /\ q[1] = Absent /\ Head(dn).code = "gone"
    OBVIOUS
  <2>1. a[0] = a[1]
    BY <1>2, <1>5, <1>5a
  <2>2. ~busy /\ q[1] = Absent /\ \E k \in 1..1 : 0 < k /\ dn[k].code = "gone"
    BY <1>1, <1>3, <1>4, <2>1
  <2> QED
    BY <1>1, <2>2
<1>10. /\ Head(dn).code = "record" => q[1] = Head(dn).rec
       /\ Head(dn).code = "gone" => q[1] = Absent
       /\ Head(dn).code = "advert" => ~busy /\ q[1] = Absent /\ q[0] = Absent
  BY <1>1, <1>4 DEF Fits
<1> DEFINE q1 == Later(q, n)
           a1 == Fewer(a, n, d)
<1> HIDE DEF d
<1>11. \A i \in 0..(n - 1) : /\ i + 1 \in 0..n /\ i + 1 \in 1..n
                             /\ q1[i] = q[i + 1] /\ a1[i] = a[i + 1] - d
                             /\ a[1] <= a[i + 1] /\ a[i + 1] \in Nat
  BY <1>1, <1>2, <1>3, <1>4 DEF Later, Fewer
<1>12. /\ q1 \in [0..(n - 1) -> Records \cup {Absent}] /\ a1 \in [0..(n - 1) -> Nat]
       /\ a1[0] = 0 /\ q1[0] = q[1] /\ q1[n - 1] = q[n] /\ a1[n - 1] = a[n] - d
  <2>1. \A i \in 0..(n - 1) : a[i + 1] - d \in Nat
    <3> SUFFICES ASSUME NEW i \in 0..(n - 1) PROVE a[i + 1] - d \in Nat
      OBVIOUS
    <3>1. d <= a[i + 1] /\ a[i + 1] \in Nat
      BY <1>5, <1>11
    <3> QED
      BY <1>5, <3>1
  <2>2. 0 \in 0..(n - 1) /\ n - 1 \in 0..(n - 1) /\ (n - 1) + 1 = n /\ 0 + 1 = 1
    BY <1>1
  <2> QED
    BY <1>1, <1>2, <1>5, <1>11, <2>1, <2>2 DEF Later, Fewer
<1> HIDE DEF q1, a1
<1>13. ASSUME NEW i \in 1..(n - 1) PROVE Fits(i, q1, a1, t, cs1, busy)
  <2>1. /\ i \in 0..(n - 1) /\ i - 1 \in 0..(n - 1) /\ i + 1 \in 1..n /\ (i - 1) + 1 = i
        /\ (i + 1) - 1 = i /\ i \in 0..n
    BY <1>1
  <2>2. /\ q1[i] = q[i + 1] /\ q1[i - 1] = q[i] /\ t[i] = dn[i + 1]
        /\ a1[i] = a[i + 1] - d /\ a1[i - 1] = a[i] - d
        /\ a[i + 1] \in Nat /\ a[i] \in Nat
    BY <1>1, <1>2, <1>11, <2>1
  <2>3. Fits(i + 1, q, a, dn, cs, busy)
    BY <1>2, <2>1
  <2>4. t[i].code \in AckCodes =>
          /\ a1[i] = a1[i - 1] + 1
          /\ cs1[a1[i]] = cs[a[i + 1]]
    <3> SUFFICES ASSUME t[i].code \in AckCodes
                 PROVE  a1[i] = a1[i - 1] + 1 /\ cs1[a1[i]] = cs[a[i + 1]]
      OBVIOUS
    <3>1. a[i + 1] = a[i] + 1
      BY <2>1, <2>2, <2>3 DEF Fits
    <3>2. a[i + 1] <= a[n] /\ a[1] <= a[i]
      BY <1>1, <1>3, <1>4, <2>1
    <3>3. a1[i] = a1[i - 1] + 1
      BY <1>5, <2>2, <3>1
    <3>4. CASE ~ack
      <4>1. d = 0 /\ a1[i] = a[i + 1]
        BY <1>5a, <2>2, <3>4
      <4> QED
        BY <1>7a, <3>3, <3>4, <4>1
    <3>5. CASE ack
      <4>1. a1[i] \in 1..(Len(cs) - 1) /\ a1[i] + 1 = a[i + 1]
        BY <1>5, <1>5a, <1>6, <2>2, <3>1, <3>2, <3>5
      <4> QED
        BY <1>7, <3>3, <3>5, <4>1
    <3> QED
      BY <3>4, <3>5
  <2>5. t[i].code \notin AckCodes => a1[i] = a1[i - 1]
    BY <2>1, <2>2, <2>3 DEF Fits
  <2> QED
    BY <2>1, <2>2, <2>3, <2>4, <2>5 DEF Fits
<1>14. ASSUME NEW i \in 0..(n - 1), NEW j \in 0..(n - 1), i <= j
       PROVE  /\ a1[i] <= a1[j]
              /\ a1[i] = a1[j] => \/ q1[j] = q1[i]
                                  \/ /\ ~busy /\ q1[j] = Absent
                                     /\ \E k \in 1..j : i < k /\ t[k].code = "gone"
  <2>0. i + 1 <= j + 1
    BY <1>1, <1>14
  <2>1. /\ i + 1 \in 0..n /\ j + 1 \in 0..n /\ i + 1 <= j + 1
        /\ q1[i] = q[i + 1] /\ a1[i] = a[i + 1] - d /\ a[i + 1] \in Nat
        /\ q1[j] = q[j + 1] /\ a1[j] = a[j + 1] - d /\ a[j + 1] \in Nat
    BY <1>11, <2>0, Zenon
  <2>2. a1[i] <= a1[j] /\ (a1[i] = a1[j] => a[i + 1] = a[j + 1])
    BY <1>3, <1>5, <2>1
  <2>3. ASSUME NEW k \in 1..(j + 1), i + 1 < k, dn[k].code = "gone"
        PROVE  \E l \in 1..j : i < l /\ t[l].code = "gone"
    <3>1. k - 1 \in 1..j /\ i < k - 1 /\ k - 1 \in 1..(n - 1) /\ (k - 1) + 1 = k
      BY <1>1, <2>3
    <3> QED
      BY <1>1, <2>3, <3>1
  <2> QED
    BY <1>3, <2>1, <2>2, <2>3
<1>15. Story(q1, a1, t, cs1, busy)
  BY <1>1, <1>12, <1>13, <1>14 DEF Story
<1> QED
  BY <1>1, <1>5, <1>7, <1>8, <1>9, <1>10, <1>15 DEF q1, a1, d, cs1

\* Frame f takes the story from r, after x answers, to v, after m.
Follows(f, r, x, v, m, cs, busy) ==
  /\ v \in Records \cup {Absent} /\ m \in Nat
  /\ m = x + (IF f.code \in AckCodes THEN 1 ELSE 0)
  /\ f.code \in AckCodes => Left(cs[m], Confirms(f.code, cs[m]), r, v)
  /\ f.code \notin AckCodes => v = r \/ (~busy /\ v = Absent /\ f.code = "gone")
  /\ f.code = "record" => v = f.rec
  /\ f.code = "gone" => v = Absent
  /\ f.code = "advert" => ~busy /\ v = Absent /\ r = Absent

\* What is told of n frames, and of one more.
Longer(s, n, v) == [i \in 0..(n + 1) |-> IF i = n + 1 THEN v ELSE s[i]]

\* What it is, position by position.
LEMMA LongerIs ==
  ASSUME NEW s, NEW n \in Nat, NEW v
  PROVE  /\ \A i \in 0..n : Longer(s, n, v)[i] = s[i]
         /\ Longer(s, n, v)[0] = s[0] /\ Longer(s, n, v)[n + 1] = v
<1>1. \A i \in 0..n : i \in 0..(n + 1) /\ i # n + 1
  OBVIOUS
<1>2. 0 \in 0..n /\ n + 1 \in 0..(n + 1)
  OBVIOUS
<1> QED
  BY <1>1, <1>2 DEF Longer

\* Another frame is sent.
LEMMA StoryAppend ==
  ASSUME NEW dn \in Seq(Frames), NEW f \in Frames, NEW cs, NEW busy \in BOOLEAN,
         NEW q, NEW a, Story(q, a, dn, cs, busy), NEW v, NEW m,
         Follows(f, q[Len(dn)], a[Len(dn)], v, m, cs, busy)
  PROVE  /\ Story(Longer(q, Len(dn), v), Longer(a, Len(dn), m), Append(dn, f), cs, busy)
         /\ Len(Append(dn, f)) = Len(dn) + 1
<1>0. /\ v \in Records \cup {Absent} /\ m \in Nat
      /\ m = a[Len(dn)] + (IF f.code \in AckCodes THEN 1 ELSE 0)
      /\ f.code \in AckCodes => Left(cs[m], Confirms(f.code, cs[m]), q[Len(dn)], v)
      /\ f.code \notin AckCodes =>
           v = q[Len(dn)] \/ (~busy /\ v = Absent /\ f.code = "gone")
      /\ f.code = "record" => v = f.rec
      /\ f.code = "gone" => v = Absent
      /\ f.code = "advert" => ~busy /\ v = Absent /\ q[Len(dn)] = Absent
  BY DEF Follows
<1> DEFINE n == Len(dn)
           t == Append(dn, f)
<1>1. /\ n \in Nat /\ t \in Seq(Frames) /\ Len(t) = n + 1 /\ t[n + 1] = f
      /\ \A i \in 1..n : t[i] = dn[i]
  BY AppendProperties, LenProperties
<1>2. /\ q \in [0..n -> Records \cup {Absent}] /\ a \in [0..n -> Nat] /\ a[0] = 0
      /\ \A i \in 1..n : Fits(i, q, a, dn, cs, busy)
  BY DEF Story
<1>3. \A i, j \in 0..n : i <= j =>
       /\ a[i] <= a[j]
       /\ a[i] = a[j] => \/ q[j] = q[i]
                         \/ /\ ~busy /\ q[j] = Absent
                            /\ \E k \in 1..j : i < k /\ dn[k].code = "gone"
  BY DEF Story
<1> HIDE DEF t
<1> DEFINE q1 == Longer(q, n, v)
           a1 == Longer(a, n, m)
<1>4. \A i \in 0..(n + 1) : i \in 0..n \/ i = n + 1
  BY <1>1
<1>5. \A i \in 0..n : i \in 0..(n + 1) /\ i # n + 1 /\ q1[i] = q[i] /\ a1[i] = a[i]
  BY <1>1, LongerIs
<1>6. n + 1 \in 0..(n + 1) /\ q1[n + 1] = v /\ a1[n + 1] = m
  BY <1>1, LongerIs
<1>7. q1 \in [0..(n + 1) -> Records \cup {Absent}] /\ a1 \in [0..(n + 1) -> Nat]
  BY <1>0, <1>2, <1>4 DEF Longer
<1> HIDE DEF q1, a1
<1>8. n \in 0..n /\ 0 \in 0..n /\ (n + 1) - 1 = n /\ a[n] \in Nat
  BY <1>1, <1>2
<1>9. ASSUME NEW i \in 1..(n + 1) PROVE Fits(i, q1, a1, t, cs, busy)
  <2>1. CASE i = n + 1
    <3>1. /\ t[i] = f /\ q1[i] = v /\ a1[i] = m /\ q1[i - 1] = q[n] /\ a1[i - 1] = a[n]
      BY <1>1, <1>5, <1>6, <1>8, <2>1
    <3> QED
      BY <1>0, <1>8, <3>1 DEF Fits
  <2>2. CASE i # n + 1
    <3>1. i \in 1..n /\ i \in 0..n /\ i - 1 \in 0..n
      BY <1>1, <2>2
    <3>2. /\ t[i] = dn[i] /\ q1[i] = q[i] /\ a1[i] = a[i]
          /\ q1[i - 1] = q[i - 1] /\ a1[i - 1] = a[i - 1]
      BY <1>1, <1>5, <3>1
    <3> QED
      BY <1>2, <3>1, <3>2 DEF Fits
  <2> QED
    BY <2>1, <2>2
<1>10. ASSUME NEW i \in 0..(n + 1), NEW j \in 0..(n + 1), i <= j
       PROVE  /\ a1[i] <= a1[j]
              /\ a1[i] = a1[j] => \/ q1[j] = q1[i]
                                  \/ /\ ~busy /\ q1[j] = Absent
                                     /\ \E k \in 1..j : i < k /\ t[k].code = "gone"
  <2>1. CASE j # n + 1
    <3>1. i \in 0..n /\ j \in 0..n
      BY <1>1, <1>10, <2>1
    <3>2. \A k \in 1..j : k \in 1..n /\ t[k] = dn[k]
      BY <1>1, <3>1
    <3> QED
      BY <1>3, <1>5, <1>10, <3>1, <3>2
  <2>2. CASE i = n + 1
    <3>1. j = n + 1
      BY <1>1, <1>10, <2>2
    <3> QED
      BY <1>0, <1>6, <2>2, <3>1
  <2>3. CASE j = n + 1 /\ i # n + 1
    <3>1. i \in 0..n /\ i <= n /\ a[i] \in Nat
      BY <1>1, <1>2, <2>3
    <3>2. /\ q1[j] = v /\ a1[j] = m /\ q1[i] = q[i] /\ a1[i] = a[i]
          /\ a[i] <= a[n] /\ a[n] <= m
      BY <1>0, <1>3, <1>5, <1>6, <1>8, <2>3, <3>1
    <3>3. a1[i] <= a1[j]
      BY <1>0, <1>8, <3>1, <3>2
    <3>4. ASSUME a1[i] = a1[j] PROVE f.code \notin AckCodes /\ a[i] = a[n]
      BY <1>0, <1>8, <3>1, <3>2, <3>4
    <3>5. ASSUME a1[i] = a1[j], q1[j] # q1[i]
          PROVE  ~busy /\ q1[j] = Absent /\ \E k \in 1..j : i < k /\ t[k].code = "gone"
      <4>1. CASE v = q[n]
        <5>1. /\ ~busy /\ q[n] = Absent
              /\ \E k \in 1..n : i < k /\ dn[k].code = "gone"
          BY <1>3, <1>8, <3>1, <3>2, <3>4, <3>5, <4>1
        <5>2. \A k \in 1..n : k \in 1..j /\ t[k] = dn[k]
          BY <1>1, <2>3
        <5> QED
          BY <3>2, <4>1, <5>1, <5>2
      <4>2. CASE ~busy /\ v = Absent /\ f.code = "gone"
        <5>1. j \in 1..j /\ i < j /\ t[j] = f
          BY <1>1, <2>3, <3>1
        <5> QED
          BY <3>2, <4>2, <5>1
      <4> QED
        BY <1>0, <3>4, <3>5, <4>1, <4>2
    <3> QED
      BY <3>3, <3>5
  <2> QED
    BY <2>1, <2>2, <2>3
<1>11. Story(q1, a1, t, cs, busy)
  <2>1. a1[0] = 0
    BY <1>2, <1>5, <1>8
  <2> QED
    BY <1>1, <1>7, <1>9, <1>10, <2>1 DEF Story
<1> QED
  BY <1>1, <1>11 DEF t, q1, a1

\* The story is about what was asked, and about nothing else of an edit.
SameEdit(c, d) == c.op = d.op /\ c.arg = d.arg

\* The radio and the answers tell edits apart by what they ask alone.
LEMMA SameEditIs ==
  ASSUME NEW c, NEW d, SameEdit(c, d)
  PROVE  /\ \A code : Confirms(code, c) = Confirms(code, d)
         /\ \A ok, r, s : Left(c, ok, r, s) = Left(d, ok, r, s)
         /\ \A f : CommandOf(f, c) = CommandOf(f, d)
<1>1. c.op = d.op /\ c.arg = d.arg
  BY DEF SameEdit
<1>2. \A code : Confirms(code, c) = Confirms(code, d)
  BY <1>1 DEF Confirms
<1>3. \A r : Leaves(c, r) = Leaves(d, r)
  BY <1>1 DEF Leaves
<1>4. \A ok, r, s : Left(c, ok, r, s) = Left(d, ok, r, s)
  BY <1>1, <1>3 DEF Left
<1>5. \A f : CommandOf(f, c) = CommandOf(f, d)
  BY <1>1 DEF CommandOf
<1> QED
  BY <1>2, <1>4, <1>5

\* A story is of what the edits ask, whatever else is known of them.
LEMMA StorySame ==
  ASSUME NEW dn \in Seq(Frames), NEW cs, NEW cs1, NEW busy \in BOOLEAN,
         NEW q, NEW a, Story(q, a, dn, cs, busy),
         \A i \in 1..a[Len(dn)] : SameEdit(cs1[i], cs[i])
  PROVE  Story(q, a, dn, cs1, busy)
<1>1. Len(dn) \in Nat /\ a \in [0..Len(dn) -> Nat]
  BY LenProperties DEF Story
<1>2. ASSUME NEW i \in 1..Len(dn) PROVE Fits(i, q, a, dn, cs1, busy)
  <2>1. Fits(i, q, a, dn, cs, busy)
    BY DEF Story
  <2>2. ASSUME dn[i].code \in AckCodes
        PROVE  /\ a[i] = a[i - 1] + 1
               /\ Left(cs1[a[i]], Confirms(dn[i].code, cs1[a[i]]), q[i - 1], q[i])
    <3>1. i \in 0..Len(dn) /\ i - 1 \in 0..Len(dn) /\ Len(dn) \in 0..Len(dn) /\ i <= Len(dn)
      BY <1>1
    <3>2. /\ a[i] = a[i - 1] + 1 /\ a[i - 1] \in Nat /\ a[i] \in Nat /\ a[i] <= a[Len(dn)]
          /\ a[Len(dn)] \in Nat
      BY <1>1, <2>1, <2>2, <3>1 DEF Fits, Story
    <3>3. a[i] \in 1..a[Len(dn)]
      BY <3>2
    <3>4. Left(cs[a[i]], Confirms(dn[i].code, cs[a[i]]), q[i - 1], q[i])
      BY <2>1, <2>2 DEF Fits
    <3>5. SameEdit(cs1[a[i]], cs[a[i]])
      BY <3>3
    <3> QED
      BY <3>2, <3>4, <3>5, SameEditIs
  <2> QED
    BY <2>1, <2>2 DEF Fits
<1> QED
  BY <1>2 DEF Story

\* Nothing is under way any more.
LEMMA StoryIdle ==
  ASSUME NEW dn \in Seq(Frames), NEW cs, NEW busy \in BOOLEAN,
         NEW q, NEW a, Story(q, a, dn, cs, busy)
  PROVE  Story(q, a, dn, cs, FALSE)
BY DEF Story, Fits

\* An edit begins while no removal or advert is on its way.
LEMMA StoryBusy ==
  ASSUME NEW dn \in Seq(Frames), NEW cs, NEW busy \in BOOLEAN,
         NEW q, NEW a, Story(q, a, dn, cs, busy),
         \A i \in 1..Len(dn) : dn[i].code \notin {"gone", "advert"}
  PROVE  Story(q, a, dn, cs, TRUE)
<1>1. \A i \in 1..Len(dn) : Fits(i, q, a, dn, cs, TRUE)
  BY DEF Story, Fits
<1>2. ASSUME NEW i \in 0..Len(dn), NEW j \in 0..Len(dn), i <= j
      PROVE  a[i] <= a[j] /\ (a[i] = a[j] => q[j] = q[i])
  <2>1. \A k \in 1..j : k \in 1..Len(dn)
    BY LenProperties
  <2> QED
    BY <1>2, <2>1 DEF Story
<1> QED
  BY <1>1, <1>2 DEF Story

\* Where no answer is on its way, the story is what it begins with, or the contact is gone.
LEMMA StoryStill ==
  ASSUME NEW dn \in Seq(Frames), NEW cs, NEW busy \in BOOLEAN,
         NEW q, NEW a, Story(q, a, dn, cs, busy), a[Len(dn)] = 0
  PROVE  \A i \in 0..Len(dn) :
           \/ q[i] = q[0]
           \/ /\ q[i] = Absent
              /\ \E k \in 1..Len(dn) : dn[k].code = "gone"
<1> SUFFICES ASSUME NEW i \in 0..Len(dn), q[i] # q[0]
             PROVE  q[i] = Absent /\ \E k \in 1..Len(dn) : dn[k].code = "gone"
  OBVIOUS
<1>1. /\ Len(dn) \in Nat /\ 0 \in 0..Len(dn) /\ Len(dn) \in 0..Len(dn) /\ i <= Len(dn) /\ 0 <= i
      /\ a \in [0..Len(dn) -> Nat] /\ a[0] = 0
  BY LenProperties DEF Story
<1>2. a[i] <= a[Len(dn)] /\ a[i] \in Nat
  BY <1>1 DEF Story
<1>3. a[0] = a[i]
  BY <1>1, <1>2
<1>4. ~busy /\ q[i] = Absent /\ \E k \in 1..i : 0 < k /\ dn[k].code = "gone"
  BY <1>1, <1>3 DEF Story
<1>5. \A k \in 1..i : k \in 1..Len(dn)
  BY <1>1
<1> QED
  BY <1>4, <1>5

\* The commands on their way are those of the edits not yet answered.
LEMMA SentBounds ==
  ASSUME NEW u \in Seq(Commands), NEW cs \in Seq(Calls), NEW n \in Nat, NEW b, Sent(b, u, cs, n)
  PROVE  /\ n <= Len(cs)
         /\ cs = <<>> => n = 0
         /\ cs = <<>> => \A i \in 1..Len(u) : u[i].cmd = "anon"
<1>1. /\ Len(u) \in Nat /\ b \in [0..Len(u) -> Nat] /\ b[Len(u)] \in Nat /\ Len(cs) \in Nat
      /\ n + b[Len(u)] = Len(cs)
  BY LenProperties DEF Sent
<1>2. cs = <<>> => n = 0 /\ b[Len(u)] = 0
  BY <1>1
<1>3. ASSUME cs = <<>>, NEW i \in 1..Len(u) PROVE u[i].cmd = "anon"
  <2>1. /\ i \in 0..Len(u) /\ i - 1 \in 0..Len(u) /\ Len(u) \in 0..Len(u) /\ i <= Len(u)
        /\ b[i] \in Nat /\ b[i - 1] \in Nat
    BY <1>1, SMTT(30)
  <2>2. b[i] <= b[Len(u)]
    BY <2>1 DEF Sent
  <2>3. b[i] # b[i - 1] + 1
    BY <1>2, <1>3, <2>1, <2>2
  <2> QED
    BY <2>3 DEF Sent
<1> QED
  BY <1>1, <1>2, <1>3

\* A command goes out, with the edit it is of.
LEMMA SentAppend ==
  ASSUME NEW u \in Seq(Commands), NEW f \in Commands, NEW cs \in Seq(Calls), NEW n \in Nat,
         NEW b, Sent(b, u, cs, n), NEW cs1 \in Seq(Calls),
         \/ f.cmd = "anon" /\ cs1 = cs
         \/ f.cmd # "anon" /\ \E c \in Calls : CommandOf(f, c) /\ cs1 = Append(cs, c)
  PROVE  \E b1 : Sent(b1, Append(u, f), cs1, n)
<1> DEFINE m == Len(u)
           t == Append(u, f)
           d == IF f.cmd = "anon" THEN 0 ELSE 1
<1>1. /\ m \in Nat /\ t \in Seq(Commands) /\ Len(t) = m + 1 /\ t[m + 1] = f
      /\ \A i \in 1..m : t[i] = u[i]
  BY AppendProperties, LenProperties
<1>2. /\ b \in [0..m -> Nat] /\ b[0] = 0 /\ b[m] \in Nat /\ Len(cs) \in Nat /\ d \in Nat
      /\ n + b[m] = Len(cs)
      /\ \A i, j \in 0..m : i <= j => b[i] <= b[j]
  BY <1>1, LenProperties DEF Sent
<1>3. /\ Len(cs1) = Len(cs) + d
      /\ \A i \in 1..Len(cs) : cs1[i] = cs[i]
      /\ f.cmd # "anon" => CommandOf(f, cs1[Len(cs) + 1])
  <2>1. CASE f.cmd = "anon" /\ cs1 = cs
    BY <1>2, <2>1
  <2>2. CASE f.cmd # "anon" /\ \E c \in Calls : CommandOf(f, c) /\ cs1 = Append(cs, c)
    <3>1. PICK c \in Calls : CommandOf(f, c) /\ cs1 = Append(cs, c)
      BY <2>2
    <3>2. /\ Len(cs1) = Len(cs) + 1 /\ cs1[Len(cs) + 1] = c
          /\ \A i \in 1..Len(cs) : cs1[i] = cs[i]
      BY <3>1, AppendProperties
    <3> QED
      BY <2>2, <3>1, <3>2
  <2> QED
    BY <2>1, <2>2
<1> HIDE DEF t, d
<1> DEFINE b1 == [i \in 0..(m + 1) |-> IF i = m + 1 THEN b[m] + d ELSE b[i]]
<1>4. /\ \A i \in 0..m : i \in 0..(m + 1) /\ b1[i] = b[i]
      /\ m + 1 \in 0..(m + 1) /\ b1[m + 1] = b[m] + d
      /\ b1 \in [0..(m + 1) -> Nat] /\ b1[0] = 0
  <2>1. \A i \in 0..(m + 1) : i \in 0..m \/ i = m + 1
    BY <1>1
  <2>2. \A i \in 0..m : i \in 0..(m + 1) /\ i # m + 1
    BY <1>1
  <2> QED
    BY <1>1, <1>2, <2>1, <2>2
<1> HIDE DEF b1
<1>5. ASSUME NEW i \in 1..(m + 1)
      PROVE  IF t[i].cmd = "anon" THEN b1[i] = b1[i - 1]
             ELSE b1[i] = b1[i - 1] + 1 /\ CommandOf(t[i], cs1[n + b1[i]])
  <2>1. CASE i = m + 1
    <3>1. t[i] = f /\ b1[i] = b[m] + d /\ b1[i - 1] = b[m]
      BY <1>1, <1>4, <2>1
    <3>2. n + (b[m] + 1) = Len(cs) + 1
      BY <1>2
    <3> QED
      BY <1>2, <1>3, <3>1, <3>2 DEF d
  <2>2. CASE i # m + 1
    <3>1. i \in 1..m /\ i \in 0..m /\ i - 1 \in 0..m /\ m \in 0..m /\ i <= m
      BY <1>1, <2>2
    <3>2. /\ t[i] = u[i] /\ b1[i] = b[i] /\ b1[i - 1] = b[i - 1]
          /\ b[i] \in Nat /\ b[i - 1] \in Nat /\ b[i] <= b[m]
      BY <1>1, <1>2, <1>4, <3>1
    <3>3. IF u[i].cmd = "anon" THEN b[i] = b[i - 1]
          ELSE b[i] = b[i - 1] + 1 /\ CommandOf(u[i], cs[n + b[i]])
      BY <3>1 DEF Sent
    <3>4. b[i] = b[i - 1] + 1 => n + b[i] \in 1..Len(cs)
      BY <1>2, <3>2, SMTT(30)
    <3> QED
      BY <1>3, <3>2, <3>3, <3>4
  <2> QED
    BY <2>1, <2>2
<1>6. ASSUME NEW i \in 0..(m + 1), NEW j \in 0..(m + 1), i <= j PROVE b1[i] <= b1[j]
  <2>1. CASE j # m + 1
    <3>1. i \in 0..m /\ j \in 0..m
      BY <1>1, <1>6, <2>1
    <3> QED
      BY <1>2, <1>4, <1>6, <3>1
  <2>2. CASE i = m + 1
    <3>1. j = m + 1
      BY <1>1, <1>6, <2>2
    <3> QED
      BY <1>2, <1>4, <2>2, <3>1
  <2>3. CASE i # m + 1 /\ j = m + 1
    <3>0. i \in 0..m /\ m \in 0..m /\ i <= m
      BY <1>1, <2>3
    <3>1. i \in 0..m /\ m \in 0..m /\ i <= m /\ b[i] \in Nat
      BY <1>2, <3>0
    <3>2. b[i] <= b[m] /\ b1[i] = b[i] /\ b1[j] = b[m] + d
      BY <1>2, <1>4, <2>3, <3>1
    <3> QED
      BY <1>2, <3>1, <3>2
  <2> QED
    BY <2>1, <2>2, <2>3
<1>7. n + b1[m + 1] = Len(cs1)
  BY <1>2, <1>3, <1>4
<1> QED
  BY <1>1, <1>4, <1>5, <1>6, <1>7 DEF Sent, t

\* The radio takes a command.
LEMMA SentTail ==
  ASSUME NEW u \in Seq(Commands), u # <<>>, NEW cs \in Seq(Calls), NEW n \in Nat,
         NEW b, Sent(b, u, cs, n)
  PROVE  /\ Head(u).cmd = "anon" => \E b1 : Sent(b1, Tail(u), cs, n)
         /\ Head(u).cmd # "anon" => /\ \E b1 : Sent(b1, Tail(u), cs, n + 1)
                                    /\ n + 1 \in 1..Len(cs)
                                    /\ CommandOf(Head(u), cs[n + 1])
<1> DEFINE m == Len(u)
           t == Tail(u)
           d == IF Head(u).cmd = "anon" THEN 0 ELSE 1
<1>1. /\ m \in Nat /\ m >= 1 /\ Head(u) = u[1] /\ t \in Seq(Commands) /\ Len(t) = m - 1
      /\ \A i \in 1..(m - 1) : t[i] = u[i + 1]
  BY HeadTailProperties, LenProperties, EmptySeq
<1>2. /\ b \in [0..m -> Nat] /\ b[0] = 0 /\ Len(cs) \in Nat /\ n + b[m] = Len(cs)
      /\ \A i, j \in 0..m : i <= j => b[i] <= b[j]
      /\ \A i \in 1..m :
           IF u[i].cmd = "anon" THEN b[i] = b[i - 1]
           ELSE b[i] = b[i - 1] + 1 /\ CommandOf(u[i], cs[n + b[i]])
  BY LenProperties DEF Sent
<1>3. 1 \in 1..m /\ 1 \in 0..m /\ m \in 0..m /\ b[1 - 1] = 0 /\ b[m] \in Nat
  BY <1>1, <1>2
<1>4. b[1] = d /\ d \in Nat /\ b[1] <= b[m]
  BY <1>1, <1>2, <1>3
<1>5. Head(u).cmd # "anon" => n + 1 \in 1..Len(cs) /\ CommandOf(Head(u), cs[n + 1])
  BY <1>1, <1>2, <1>3, <1>4
<1> HIDE DEF t, d
<1> DEFINE b1 == [i \in 0..(m - 1) |-> b[i + 1] - d]
<1>6. \A i \in 0..(m - 1) : /\ i + 1 \in 0..m /\ b1[i] = b[i + 1] - d
                            /\ b[i + 1] \in Nat /\ d <= b[i + 1]
  BY <1>1, <1>2, <1>3, <1>4
<1>7. b1 \in [0..(m - 1) -> Nat] /\ b1[0] = 0 /\ b1[m - 1] = b[m] - d
  <2>1. \A i \in 0..(m - 1) : b[i + 1] - d \in Nat
    BY <1>4, <1>6
  <2>2. 0 \in 0..(m - 1) /\ 0 + 1 = 1 /\ m - 1 \in 0..(m - 1) /\ (m - 1) + 1 = m
    BY <1>1
  <2> QED
    BY <1>4, <1>6, <2>1, <2>2
<1> HIDE DEF b1
<1>8. ASSUME NEW i \in 1..(m - 1)
      PROVE  IF t[i].cmd = "anon" THEN b1[i] = b1[i - 1]
             ELSE b1[i] = b1[i - 1] + 1 /\ CommandOf(t[i], cs[(n + d) + b1[i]])
  <2>1. /\ i \in 0..(m - 1) /\ i - 1 \in 0..(m - 1) /\ (i - 1) + 1 = i /\ i + 1 \in 1..m
        /\ (i + 1) - 1 = i
    BY <1>1
  <2>2. /\ t[i] = u[i + 1] /\ b1[i] = b[i + 1] - d /\ b1[i - 1] = b[i] - d
        /\ b[i + 1] \in Nat /\ b[i] \in Nat
    BY <1>1, <1>6, <2>1
  <2>3. (n + d) + b1[i] = n + b[i + 1]
    BY <1>4, <2>2
  <2>4. IF u[i + 1].cmd = "anon" THEN b[i + 1] = b[i]
        ELSE b[i + 1] = b[i] + 1 /\ CommandOf(u[i + 1], cs[n + b[i + 1]])
    BY <1>2, <2>1
  <2>5. CASE t[i].cmd = "anon"
    BY <2>2, <2>4, <2>5
  <2>6. CASE t[i].cmd # "anon"
    <3>1. b[i + 1] = b[i] + 1 /\ CommandOf(t[i], cs[n + b[i + 1]])
      BY <2>2, <2>4, <2>6
    <3>2. b1[i] = b1[i - 1] + 1
      BY <1>4, <2>2, <3>1
    <3> QED
      BY <2>3, <2>6, <3>1, <3>2
  <2> QED
    BY <2>5, <2>6
<1>9. \A i, j \in 0..(m - 1) : i <= j => b1[i] <= b1[j]
  <2> SUFFICES ASSUME NEW i \in 0..(m - 1), NEW j \in 0..(m - 1), i <= j PROVE b1[i] <= b1[j]
    OBVIOUS
  <2>1. i + 1 \in 0..m /\ j + 1 \in 0..m /\ i + 1 <= j + 1
    BY <1>1
  <2>2. b[i + 1] <= b[j + 1]
    BY <1>2, <2>1
  <2> QED
    BY <1>4, <1>6, <2>2
<1>10. (n + d) + b1[m - 1] = Len(cs)
  BY <1>2, <1>3, <1>4, <1>7
<1>11. Sent(b1, t, cs, n + d)
  BY <1>1, <1>7, <1>8, <1>9, <1>10 DEF Sent
<1>12. n + 0 = n
  OBVIOUS
<1> QED
  BY <1>5, <1>11, <1>12 DEF t, d

\* An answer settles the oldest edit.
LEMMA SentSettled ==
  ASSUME NEW u \in Seq(Commands), NEW cs \in Seq(Calls), cs # <<>>, NEW n \in Nat, n >= 1,
         NEW b, Sent(b, u, cs, n)
  PROVE  Sent(b, u, Tail(cs), n - 1)
<1>1. /\ Len(cs) \in Nat /\ Len(Tail(cs)) = Len(cs) - 1
      /\ \A i \in 1..(Len(cs) - 1) : Tail(cs)[i] = cs[i + 1]
      /\ Len(u) \in Nat /\ b \in [0..Len(u) -> Nat] /\ b[Len(u)] \in Nat
      /\ n + b[Len(u)] = Len(cs)
  BY HeadTailProperties, LenProperties DEF Sent
<1>2. ASSUME NEW i \in 1..Len(u), u[i].cmd # "anon"
      PROVE  b[i] = b[i - 1] + 1 /\ CommandOf(u[i], Tail(cs)[(n - 1) + b[i]])
  <2>0. i \in 0..Len(u) /\ i - 1 \in 0..Len(u) /\ Len(u) \in 0..Len(u) /\ i <= Len(u)
    BY <1>1
  <2>1. /\ i \in 0..Len(u) /\ i - 1 \in 0..Len(u) /\ Len(u) \in 0..Len(u) /\ i <= Len(u)
        /\ b[i] \in Nat /\ b[i - 1] \in Nat
    BY <1>1, <2>0
  <2>2. b[i] <= b[Len(u)] /\ b[i] = b[i - 1] + 1 /\ CommandOf(u[i], cs[n + b[i]])
    BY <1>2, <2>1 DEF Sent
  <2>3. (n - 1) + b[i] \in 1..(Len(cs) - 1) /\ ((n - 1) + b[i]) + 1 = n + b[i]
    BY <1>1, <2>1, <2>2
  <2> QED
    BY <1>1, <2>2, <2>3
<1>3. (n - 1) + b[Len(u)] = Len(Tail(cs))
  <2>1. b[Len(u)] \in Nat /\ n + b[Len(u)] = Len(cs) /\ Len(Tail(cs)) = Len(cs) - 1
    BY <1>1
  <2> QED
    BY <2>1
<1> QED
  BY <1>2, <1>3 DEF Sent

\* The commands are of what the edits ask.
LEMMA SentSame ==
  ASSUME NEW u \in Seq(Commands), NEW cs \in Seq(Calls), NEW cs1 \in Seq(Calls), NEW n \in Nat,
         NEW b, Sent(b, u, cs, n), Len(cs1) = Len(cs),
         \A i \in 1..Len(cs) : SameEdit(cs1[i], cs[i])
  PROVE  Sent(b, u, cs1, n)
<1>1. /\ Len(cs) \in Nat /\ Len(u) \in Nat /\ b \in [0..Len(u) -> Nat] /\ b[Len(u)] \in Nat
      /\ n + b[Len(u)] = Len(cs)
  BY LenProperties DEF Sent
<1>2. ASSUME NEW i \in 1..Len(u), u[i].cmd # "anon"
      PROVE  b[i] = b[i - 1] + 1 /\ CommandOf(u[i], cs1[n + b[i]])
  <2>0. i \in 0..Len(u) /\ i - 1 \in 0..Len(u) /\ Len(u) \in 0..Len(u) /\ i <= Len(u)
    BY <1>1
  <2>1. /\ i \in 0..Len(u) /\ i - 1 \in 0..Len(u) /\ Len(u) \in 0..Len(u) /\ i <= Len(u)
        /\ b[i] \in Nat /\ b[i - 1] \in Nat
    BY <1>1, <2>0
  <2>2. b[i] <= b[Len(u)] /\ b[i] = b[i - 1] + 1 /\ CommandOf(u[i], cs[n + b[i]])
    BY <1>2, <2>1 DEF Sent
  <2>3. n + b[i] \in 1..Len(cs)
    BY <1>1, <2>1, <2>2
  <2>4. SameEdit(cs1[n + b[i]], cs[n + b[i]])
    BY <2>3
  <2> QED
    BY <2>2, <2>4, SameEditIs
<1> QED
  BY <1>2 DEF Sent

-----------------------------------------------------------------------------
(* Calls, while the copies agree.                                          *)

\* What is under way when an edit is called that overlaps nothing.
LEMMA OverlapsNone ==
  ASSUME TypeOK, NEW op, ~Overlaps(op)
  PROVE  /\ \A c \in Edits : Field(c.op) = Field(op)
         /\ asks > 0 => Field(op) = "shim"
         /\ \A i \in 1..Len(down) : down[i].code \notin {"gone", "advert"}
<1>1. DOMAIN down = 1..Len(down)
  BY LenProperties DEF TypeOK
<1> QED
  BY <1>1 DEF Overlaps, Edits, Range

\* What the host takes the radio to hold is a record, or nothing.
LEMMA HostRecIs ==
  ASSUME TypeOK, HostOK
  PROVE  /\ HostRec \in Records \cup {Absent} /\ (HostRec = Absent <=> contact = Absent)
         /\ row # Absent => RecordOf(row) \in Records
         /\ Absent \notin Records
<1>1. row # Absent => row \in Rows
  BY DEF TypeOK
<1>2. Absent \notin Records
  BY AbsentAssumption
<1> QED
  BY <1>1, <1>2, RecordIs DEF HostRec, HostOK

\* The numbers of the answers and the edits.
LEMMA ToldBounds ==
  ASSUME TypeOK, NEW f, NEW k, NEW q, NEW a, NEW b, Told(f, k, q, a, b)
  PROVE  /\ a[Len(down)] \in Nat /\ a[Len(down)] <= Len(calls)
         /\ calls = <<>> => /\ a[Len(down)] = 0
                            /\ \A i \in 1..Len(up) : up[i].cmd = "anon"
         /\ Len(down) \in Nat /\ Busy \in BOOLEAN
         /\ \A i \in 0..Len(down) : q[i] \in Records \cup {Absent}
<1>1. Len(down) \in Nat /\ Story(q, a, down, calls, Busy) /\ Sent(b, up, calls, a[Len(down)])
  BY LenProperties DEF TypeOK, Told
<1>2. /\ a[Len(down)] \in Nat
      /\ \A i \in 0..Len(down) : q[i] \in Records \cup {Absent}
  BY <1>1 DEF Story
<1>3. calls \in Seq(Calls) /\ up \in Seq(Commands)
  BY DEF TypeOK
<1>4. Busy \in BOOLEAN
  BY DEF Busy
<1> QED
  BY <1>1, <1>2, <1>3, <1>4, SentBounds

\* An edit is called: nothing else was under way, or edits of the same field.
LEMMA IssuedAgrees ==
  ASSUME IInv, IInv', Agreeing, clean',
         NEW op \in Ops, NEW arg, NEW snap, NEW held, NEW frame \in Commands,
         Issue(op, arg, snap, held, frame),
         Call(op, arg, snap, held) \in Calls,
         CommandOf(frame, Call(op, arg, snap, held)), frame.cmd # "anon",
         \A k \in Records :
           (row # Absent => Alike(Field(op), RecordOf(row), k)) =>
             /\ EditIsOf(Call(op, arg, snap, held), Field(op), k)
             /\ frame.cmd = "update" => Alike(Field(op), frame.rec, k),
         op # "restore", Field(op) # "store" => contact # Absent,
         op = "shim" => row # Absent /\ row.path = "flood"
  PROVE  Agreeing'
<1> DEFINE new == Call(op, arg, snap, held)
           f == Field(op)
<1>1. /\ calls' = Append(calls, new) /\ up' = Append(up, frame)
      /\ clean /\ ~Overlaps(op)
      /\ UNCHANGED <<radio, row, contact, done, asks, down>>
  BY DEF Issue, host
<1>2. TypeOK /\ TypeOK' /\ HostOK
  BY <1>1 DEF IInv, Agreeing
<1>3f. PICK f0 \in Fields, k0 \in Records : \E q, a, b : Told(f0, k0, q, a, b)
  BY <1>1 DEF Agreeing
<1>3. PICK q, a, b : Told(f0, k0, q, a, b)
  BY <1>3f
<1>4. /\ \A c \in Edits : Field(c.op) = f
      /\ asks > 0 => f = "shim"
      /\ \A i \in 1..Len(down) : down[i].code \notin {"gone", "advert"}
  BY <1>1, <1>2, OverlapsNone
<1>5. /\ f \in Fields /\ (f = "shim" => row # Absent /\ row.path = "flood")
      /\ new \in Calls /\ new.op = op
  BY DEF Field, Fields, Ops, Call
<1> HIDE DEF new, f
<1>6. /\ calls \in Seq(Calls) /\ up \in Seq(Commands) /\ down \in Seq(Frames)
      /\ done \in Seq(Calls) /\ calls' \in Seq(Calls) /\ up' \in Seq(Commands)
  BY <1>2 DEF TypeOK
<1>7. /\ a[Len(down)] \in Nat /\ a[Len(down)] <= Len(calls)
      /\ calls = <<>> => /\ a[Len(down)] = 0
                         /\ \A i \in 1..Len(up) : up[i].cmd = "anon"
      /\ Len(down) \in Nat /\ Busy \in BOOLEAN
      /\ \A i \in 0..Len(down) : q[i] \in Records \cup {Absent}
  BY <1>2, <1>3, ToldBounds
<1>8. /\ Story(q, a, down, calls, Busy) /\ q[Len(down)] = radio
      /\ Sent(b, up, calls, a[Len(down)]) /\ Leads(q[0], done)
      /\ Busy => OneField(f0, k0, q)
      /\ done = <<>> /\ (Busy => f0 # "shim") => q[0] = HostRec
  BY <1>3 DEF Told
<1>9. /\ Len(calls') = Len(calls) + 1 /\ Len(calls) \in Nat /\ calls' # <<>>
      /\ \A i \in 1..Len(calls) : calls'[i] = calls[i]
  BY <1>1, <1>5, <1>6, AppendProperties, LenProperties, EmptySeq
<1>10. Story(q, a, down, calls', TRUE)
  <2>1. \A i \in 1..a[Len(down)] : SameEdit(calls'[i], calls[i])
    BY <1>7, <1>9 DEF SameEdit
  <2>2. Story(q, a, down, calls', Busy)
    BY <1>6, <1>7, <1>8, <2>1, StorySame
  <2> QED
    BY <1>4, <1>6, <1>7, <2>2, StoryBusy
<1>11. PICK b1 : Sent(b1, up', calls', a[Len(down)])
  <2>1. frame.cmd # "anon" /\ \E c \in Calls : CommandOf(frame, c) /\ calls' = Append(calls, c)
    BY <1>1, <1>5 DEF new
  <2> QED
    BY <1>1, <1>6, <1>7, <1>8, <2>1, SentAppend
<1>12. Busy' = TRUE
  BY <1>9 DEF Busy
<1>13. HostOK' /\ HostRec' = HostRec /\ Leads(q[0], done)'
  BY <1>1, <1>2, <1>8 DEF HostOK, HostRec, Leads, EffectiveAdd
<1>14. Edits' = Edits \cup {new}
  <2>1. Range(calls') = Range(calls) \cup {new}
    BY <1>1, <1>5, <1>6, RangeAppended
  <2> QED
    BY <1>1, <2>1 DEF Edits
<1>15. /\ HostRec \in Records \cup {Absent} /\ (HostRec = Absent <=> contact = Absent)
       /\ row # Absent => RecordOf(row) \in Records
       /\ Absent \notin Records
  BY <1>2, HostRecIs

\* The record the edit shares with the others.
<1>16. ASSUME Busy PROVE f0 = f /\ OneField(f, k0, q)
  <2>1. calls # <<>> => Head(calls) \in Range(calls)
    <3>1. calls # <<>> => Range(calls) = Range(Tail(calls)) \cup {Head(calls)}
      BY <1>6, RangeSplit
    <3> QED
      BY <3>1
  <2>2. done # <<>> => Head(done) \in Range(done)
    <3>1. done # <<>> => Range(done) = Range(Tail(done)) \cup {Head(done)}
      BY <1>6, RangeSplit
    <3> QED
      BY <3>1
  <2>3. OneField(f0, k0, q) /\ (asks > 0 \/ \E c \in Edits : TRUE)
    BY <1>6, <1>8, <1>16, <2>1, <2>2 DEF Busy, Edits, TypeOK
  <2>4. f0 = f
    BY <1>4, <2>3 DEF OneField, EditIsOf
  <2> QED
    BY <2>3, <2>4
<1>17. PICK k \in Records : /\ row # Absent => Alike(f, RecordOf(row), k)
                            /\ Busy => OneField(f, k, q)
                            /\ ~Busy /\ row # Absent => k = RecordOf(row)
  <2>1. CASE Busy
    BY <1>16, <2>1 DEF OneField
  <2>2. CASE ~Busy /\ row # Absent
    <3>1. f = "shim" => RecordOf(row).path = "flood"
      BY <1>5, <2>2 DEF RecordOf
    <3>2. Alike(f, RecordOf(row), RecordOf(row))
      BY <3>1 DEF Alike
    <3> QED
      BY <1>15, <2>2, <3>2
  <2>3. CASE ~Busy /\ row = Absent
    BY <2>3
  <2> QED
    BY <2>1, <2>2, <2>3
<1>18. EditIsOf(new, f, k) /\ (frame.cmd = "update" => Alike(f, frame.rec, k))
  BY <1>17 DEF new, f
<1>19. ~Busy => \A i \in 0..Len(down) : q[i] = HostRec
  <2> SUFFICES ASSUME ~Busy PROVE \A i \in 0..Len(down) : q[i] = HostRec
    OBVIOUS
  <2>1. calls = <<>> /\ q[0] = HostRec
    BY <1>8 DEF Busy
  <2>2. DOMAIN down = 1..Len(down)
    BY <1>6, LenProperties
  <2> QED
    <3>1. \A i \in 0..Len(down) :
            \/ q[i] = q[0]
            \/ q[i] = Absent /\ \E j \in 1..Len(down) : down[j].code = "gone"
      <4>1. a[Len(down)] = 0 /\ down \in Seq(Frames) /\ Busy \in BOOLEAN
        BY <1>6, <1>7, <2>1
      <4>2. Story(q, a, down, calls, Busy)
        BY <1>8
      <4> QED
        BY <4>1, <4>2, StoryStill
    <3> QED
      BY <1>4, <2>1, <3>1
<1>20. OneField(f, k, q)'
  <2>1. \A c \in Edits' : EditIsOf(c, f, k)'
    <3>1. \A c \in Edits : EditIsOf(c, f, k)
      <4>1. CASE Busy
        BY <1>17, <4>1 DEF OneField
      <4>2. CASE ~Busy
        BY <1>6, <4>2, EmptySeq DEF Busy, Edits, Range
      <4> QED
        BY <4>1, <4>2
    <3> QED
      BY <1>1, <1>14, <1>18, <3>1 DEF EditIsOf
  <2>2. asks' > 0 => f = "shim"
    BY <1>1, <1>4
  <2>3. f # "store" => contact' # Absent /\ \A i \in 0..Len(down') : q[i] # Absent
    <3>1. CASE Busy
      BY <1>1, <1>17, <3>1 DEF OneField
    <3>2. CASE ~Busy
      BY <1>1, <1>15, <1>19, <3>2 DEF f
    <3> QED
      BY <3>1, <3>2
  <2>4. row' # Absent => Alike(f, RecordOf(row'), k)
    BY <1>1, <1>17
  <2>5. f = "shim" => row' # Absent /\ row'.path = "flood"
    BY <1>1, <1>5
  <2>6. \A i \in 0..Len(down') : q[i] # Absent => Alike(f, q[i], k)
    <3>1. CASE Busy
      BY <1>1, <1>17, <3>1 DEF OneField
    <3>2. CASE ~Busy
      <4>1. HostRec # Absent => HostRec = RecordOf(row) /\ row # Absent
        BY <1>2, <1>15 DEF HostRec, HostOK
      <4> QED
        BY <1>1, <1>17, <1>19, <3>2, <4>1
    <3> QED
      BY <3>1, <3>2
  <2>7. \A i \in 1..Len(up') : up'[i].cmd = "update" => Alike(f, up'[i].rec, k)
    <3>1. \A i \in 1..Len(up) : up[i].cmd = "update" => Alike(f, up[i].rec, k)
      <4>1. CASE Busy
        BY <1>17, <4>1 DEF OneField
      <4>2. CASE ~Busy
        BY <1>7, <4>2 DEF Busy
      <4> QED
        BY <4>1, <4>2
    <3>2. /\ Len(up') = Len(up) + 1 /\ Len(up) \in Nat /\ up'[Len(up) + 1] = frame
          /\ \A i \in 1..Len(up) : up'[i] = up[i]
      BY <1>1, <1>6, AppendProperties, LenProperties
    <3>3. \A i \in 1..Len(up') : i \in 1..Len(up) \/ i = Len(up) + 1
      BY <3>2
    <3> QED
      BY <1>18, <3>1, <3>2, <3>3
  <2> QED
    BY <2>1, <2>2, <2>3, <2>4, <2>5, <2>6, <2>7 DEF OneField
<1>21. done' = <<>> /\ f # "shim" => q[0] = HostRec'
  BY <1>1, <1>8, <1>13, <1>16
<1>22. Told(f, k, q, a, b1)'
  BY <1>1, <1>8, <1>10, <1>11, <1>12, <1>13, <1>20, <1>21 DEF Told
<1> QED
  BY <1>5, <1>13, <1>22 DEF Agreeing

\* The fields of a call.
LEMMA CallIs ==
  ASSUME NEW op \in Ops, NEW arg \in Args, NEW snap \in Entries \cup {Absent},
         NEW held \in Rows \cup {Absent}
  PROVE  /\ Call(op, arg, snap, held) \in Calls
         /\ Call(op, arg, snap, held).op = op /\ Call(op, arg, snap, held).arg = arg
         /\ Call(op, arg, snap, held).contact = snap /\ Call(op, arg, snap, held).row = held
BY DEF Call, Calls

LEMMA PlainCallIs ==
  ASSUME NEW op \in Ops, NEW snap \in Entries \cup {Absent}, NEW held \in Rows \cup {Absent}
  PROVE  /\ Call(op, NoArg, snap, held) \in Calls
         /\ Call(op, NoArg, snap, held).op = op
         /\ Call(op, NoArg, snap, held).contact = snap /\ Call(op, NoArg, snap, held).row = held
<1>1. NoArg \in Args
  BY NoArgIs
<1> QED
  BY <1>1, CallIs

\* While the copies agree, an entry shows the row.
LEMMA ShownIs ==
  ASSUME TypeOK, HostOK, contact # Absent
  PROVE  /\ row # Absent /\ row \in Rows /\ row.on /\ Known = RecordOf(row)
         /\ contact \in Entries /\ RecordOf(row) \in Records
         /\ contact.fav = row.fav /\ contact.perms = row.perms
         /\ RecordOf(row).path = row.path /\ RecordOf(row).fav = row.fav
         /\ RecordOf(row).perms = row.perms
<1>1. row # Absent /\ row \in Rows /\ row.on /\ Shows(contact, RecordOf(row))
  BY DEF TypeOK, HostOK
<1>2. contact \in Entries
  BY DEF TypeOK
<1> QED
  BY <1>1, <1>2 DEF Shows, RecordOf, Known, Rows, Records

LEMMA SetPathAgrees ==
  ASSUME IInv, IInv', Agreeing, CallSetPath
  PROVE  Agreeing'
<1> SUFFICES ASSUME clean' PROVE Agreeing'
  BY DEF Agreeing
<1>1. PICK path \in Routes \cup {"direct"}, manual \in BOOLEAN,
            direct \in {contact.direct} \cup Given :
        /\ contact # Absent
        /\ Issue("path", [NoArg EXCEPT !.path = path, !.manual = manual],
                 [contact EXCEPT !.direct = direct], Absent,
                 Rewrite(path, Known.fav, Known.perms))
  BY DEF CallSetPath
<1> DEFINE arg == [NoArg EXCEPT !.path = path, !.manual = manual]
           snap == [contact EXCEPT !.direct = direct]
           frame == Rewrite(path, Known.fav, Known.perms)
           new == Call("path", arg, snap, Absent)
<1>2. TypeOK /\ HostOK
  BY <1>1 DEF Issue, IInv, Agreeing
<1>3. /\ row # Absent /\ row \in Rows /\ Known = RecordOf(row)
      /\ contact \in Entries
      /\ contact.fav = row.fav /\ contact.perms = row.perms
      /\ Known.fav \in BOOLEAN /\ Known.perms \in BOOLEAN
      /\ Known.path = row.path /\ Known.fav = row.fav /\ Known.perms = row.perms
  BY <1>1, <1>2, ShownIs, KnownIs
<1>3a. snap \in Entries /\ snap.fav = contact.fav /\ snap.perms = contact.perms
  BY <1>3, GivenAssumption DEF Entries
<1>4. path \in Paths /\ arg \in Args /\ arg.path = path
  BY NoArgIs DEF Paths
<1>5. frame \in Commands /\ frame.cmd = "update" /\ frame.rec.path = path
      /\ frame.rec.fav = row.fav /\ frame.rec.perms = row.perms
  BY <1>3, <1>4, CommandIs DEF Rewrite
<1>6. /\ "path" \in Ops /\ Field("path") = "path"
      /\ new \in Calls /\ new.op = "path" /\ new.arg = arg /\ new.contact = snap
  BY <1>3a, <1>4, CallIs DEF Ops, Field
<1> HIDE DEF arg, snap, frame
<1>7. CommandOf(frame, new)
  BY <1>4, <1>5, <1>6 DEF CommandOf
<1>8. ASSUME NEW k \in Records, Alike("path", RecordOf(row), k)
      PROVE  EditIsOf(new, "path", k) /\ Alike("path", frame.rec, k)
  <2>1. k.fav = row.fav /\ k.perms = row.perms
    BY <1>3, <1>8 DEF Alike
  <2> QED
    BY <1>3, <1>3a, <1>5, <1>6, <2>1, AbsentAssumption DEF EditIsOf, Alike
<1> QED
  BY <1>1, <1>3, <1>5, <1>6, <1>7, <1>8, IssuedAgrees DEF arg, snap, frame

LEMMA ResetPathAgrees ==
  ASSUME IInv, IInv', Agreeing, CallResetPath
  PROVE  Agreeing'
<1> SUFFICES ASSUME clean' PROVE Agreeing'
  BY DEF Agreeing
<1> DEFINE new == Call("reset", NoArg, contact, Absent)
<1>1. contact # Absent /\ Issue("reset", NoArg, contact, Absent, Bare("reset"))
  BY DEF CallResetPath
<1>2. TypeOK /\ HostOK
  BY <1>1 DEF Issue, IInv, Agreeing
<1>3. /\ row # Absent /\ row \in Rows /\ Known = RecordOf(row)
      /\ contact \in Entries
      /\ contact.fav = row.fav /\ contact.perms = row.perms
      /\ RecordOf(row).fav = row.fav /\ RecordOf(row).perms = row.perms
  BY <1>1, <1>2, ShownIs
<1>4. Bare("reset") \in Commands /\ Bare("reset").cmd = "reset"
  BY BareIs DEF Bare
<1>5. /\ "reset" \in Ops /\ Field("reset") = "path"
      /\ new \in Calls /\ new.op = "reset" /\ new.contact = contact
  BY <1>3, PlainCallIs DEF Ops, Field
<1>6. CommandOf(Bare("reset"), new)
  BY <1>4, <1>5 DEF CommandOf
<1>7. ASSUME NEW k \in Records, Alike("path", RecordOf(row), k)
      PROVE  EditIsOf(new, "path", k)
  <2>1. k.fav = row.fav /\ k.perms = row.perms
    BY <1>3, <1>7 DEF Alike
  <2> QED
    BY <1>1, <1>3, <1>5, <2>1 DEF EditIsOf
<1> QED
  BY <1>1, <1>3, <1>4, <1>5, <1>6, <1>7, IssuedAgrees

LEMMA AddAgrees ==
  ASSUME IInv, IInv', Agreeing, CallAdd
  PROVE  Agreeing'
<1> SUFFICES ASSUME clean' PROVE Agreeing'
  BY DEF Agreeing
<1> DEFINE new == Call("add", NoArg, Absent, row)
           frame == Rewrite(row.path, row.fav, row.perms)
<1>1. row # Absent /\ Issue("add", NoArg, Absent, row, frame)
  BY DEF CallAdd
<1>2. row \in Rows /\ row.path \in Paths /\ row.fav \in BOOLEAN /\ row.perms \in BOOLEAN
  BY <1>1 DEF IInv, TypeOK, Rows
<1>3. frame \in Commands /\ frame.cmd = "update" /\ frame.rec = RecordOf(row)
  BY <1>2, CommandIs DEF Rewrite, RecordOf
<1>4. /\ "add" \in Ops /\ Field("add") = "store"
      /\ new \in Calls /\ new.op = "add" /\ new.row = row
  BY <1>2, PlainCallIs DEF Ops, Field
<1>5. CommandOf(frame, new)
  BY <1>3, <1>4 DEF CommandOf
<1>6. ASSUME NEW k \in Records, Alike("store", RecordOf(row), k)
      PROVE  EditIsOf(new, "store", k) /\ Alike("store", frame.rec, k)
  <2>1. RecordOf(row) = k
    BY <1>2, <1>6 DEF Alike, RecordOf, Records
  <2> QED
    BY <1>1, <1>3, <1>4, <1>6, <2>1 DEF EditIsOf
<1> QED
  BY <1>1, <1>3, <1>4, <1>5, <1>6, IssuedAgrees

LEMMA RemoveAgrees ==
  ASSUME IInv, IInv', Agreeing, CallRemove
  PROVE  Agreeing'
<1> SUFFICES ASSUME clean' PROVE Agreeing'
  BY DEF Agreeing
<1> DEFINE new == Call("remove", NoArg, Absent, Absent)
<1>1. Issue("remove", NoArg, Absent, Absent, Bare("remove"))
  BY DEF CallRemove
<1>2. Bare("remove") \in Commands /\ Bare("remove").cmd = "remove"
  BY BareIs DEF Bare
<1>3. "remove" \in Ops /\ Field("remove") = "store" /\ new \in Calls /\ new.op = "remove"
  BY PlainCallIs DEF Ops, Field
<1>4. CommandOf(Bare("remove"), new)
  BY <1>2, <1>3 DEF CommandOf
<1>5. \A k \in Records : EditIsOf(new, "store", k)
  BY <1>3 DEF EditIsOf
<1> QED
  BY <1>1, <1>2, <1>3, <1>4, <1>5, IssuedAgrees

LEMMA AnonAgrees ==
  ASSUME IInv, IInv', Agreeing, CallAnon
  PROVE  Agreeing'
<1> SUFFICES ASSUME clean' PROVE Agreeing'
  BY DEF Agreeing
<1> DEFINE new == Call("shim", NoArg, Absent, Absent)
           frame == Rewrite("shim", Known.fav, Known.perms)
<1>1. /\ contact # Absent
      /\ IF row # Absent THEN row.path = "flood" ELSE contact.path = "none"
      /\ Issue("shim", NoArg, Absent, Absent, frame)
  BY DEF CallAnon
<1>2. TypeOK /\ HostOK
  BY <1>1 DEF Issue, IInv, Agreeing
<1>3. /\ row # Absent /\ row \in Rows /\ Known = RecordOf(row) /\ row.path = "flood"
      /\ Known.fav \in BOOLEAN /\ Known.perms \in BOOLEAN /\ "shim" \in Paths
  BY <1>1, <1>2, ShownIs, KnownIs DEF Paths
<1>4. frame \in Commands /\ frame.cmd = "update" /\ frame.rec.path = "shim"
      /\ frame.rec.fav = Known.fav /\ frame.rec.perms = Known.perms
  BY <1>3, CommandIs DEF Rewrite
<1>5. "shim" \in Ops /\ Field("shim") = "shim" /\ new \in Calls /\ new.op = "shim"
  BY PlainCallIs DEF Ops, Field
<1> HIDE DEF frame
<1>6. CommandOf(frame, new)
  BY <1>4, <1>5 DEF CommandOf
<1>7. ASSUME NEW k \in Records, Alike("shim", RecordOf(row), k)
      PROVE  EditIsOf(new, "shim", k) /\ Alike("shim", frame.rec, k)
  <2>1. EditIsOf(new, "shim", k)
    BY <1>5 DEF EditIsOf
  <2>2. Alike("shim", frame.rec, k)
    BY <1>3, <1>4, <1>7 DEF Alike
  <2> QED
    BY <2>1, <2>2
<1> QED
  BY <1>1, <1>3, <1>4, <1>5, <1>6, <1>7, IssuedAgrees DEF frame

\* Only what the story does not tell of changes.
LEMMA IdleAgrees ==
  ASSUME TypeOK, Agreeing, ~Busy, clean' => clean, HostOK', HostRec' = HostRec,
         UNCHANGED <<radio, calls, done, asks, up, down>>
  PROVE  Agreeing'
<1> SUFFICES ASSUME clean' PROVE Agreeing'
  BY DEF Agreeing
<1>1f. PICK f \in Fields, k \in Records : \E q, a, b : Told(f, k, q, a, b)
  BY DEF Agreeing
<1>1. PICK q, a, b : Told(f, k, q, a, b)
  BY <1>1f
<1>2. Busy' = FALSE /\ Busy = FALSE
  BY DEF Busy
<1>3. done = <<>> /\ Len(done) = 0 /\ done' = done
  BY DEF Busy
<1>4. Leads(q[0], done)'
  <2>1. \A i \in 1..Len(done) : FALSE
    BY <1>3
  <2> QED
    BY <1>3, <2>1 DEF Leads
<1>5. /\ Story(q, a, down, calls, Busy) /\ q[Len(down)] = radio
      /\ Sent(b, up, calls, a[Len(down)]) /\ q[0] = HostRec
  BY <1>1, <1>2, <1>3 DEF Told
<1>6. Story(q, a, down, calls, Busy)'
  BY <1>2, <1>5
<1>7. Told(f, k, q, a, b)'
  BY <1>2, <1>4, <1>5, <1>6 DEF Told
<1> QED
  BY <1>7 DEF Agreeing

\* A contact that is not on the radio is edited where no edit awaits an answer.
LEMMA EditedHereAgrees ==
  ASSUME IInv, Agreeing, NEW op \in {"fav", "perms"}, EditedHere(op),
         row # Absent, ~row.on, NEW r, Mutate(r), NEW e, Entry(e), r.on = row.on
  PROVE  Agreeing'
<1> SUFFICES ASSUME clean' PROVE Agreeing'
  BY DEF Agreeing
<1>1. /\ calls' = Shared(calls, row') /\ done' = Shared(done, row')
      /\ clean /\ ~Overlaps(op) /\ UNCHANGED <<radio, asks, up, down>>
      /\ row' = r
      /\ contact' = IF contact = Absent THEN Absent ELSE e
  BY DEF EditedHere, Mutate, Entry, wire
<1>2. TypeOK /\ HostOK /\ Field(op) = op
  BY <1>1 DEF IInv, Agreeing, Field
<1>3. contact = Absent /\ contact' = Absent
  BY <1>1, <1>2 DEF HostOK
<1>4f. PICK f \in Fields, k \in Records : \E q, a, b : Told(f, k, q, a, b)
  BY <1>1 DEF Agreeing
<1>4. PICK q, a, b : Told(f, k, q, a, b)
  BY <1>4f
<1>5. ~Busy
  <2> SUFFICES ASSUME Busy PROVE FALSE
    OBVIOUS
  <2>1. /\ \A c \in Edits : Field(c.op) = op
        /\ asks > 0 => op = "shim"
    BY <1>1, <1>2, OverlapsNone
  <2>2. OneField(f, k, q) /\ f = "store"
    BY <1>3, <1>4 DEF Told, OneField
  <2>3. /\ calls # <<>> => Head(calls) \in Edits
        /\ done # <<>> => Head(done) \in Edits
    <3>1. calls # <<>> => Range(calls) = Range(Tail(calls)) \cup {Head(calls)}
      BY <1>2, RangeSplit, Typed
    <3>2. done # <<>> => Range(done) = Range(Tail(done)) \cup {Head(done)}
      BY <1>2, RangeSplit, Typed
    <3> QED
      BY <3>1, <3>2 DEF Edits
  <2>4. asks = 0
    BY <1>2, <2>1 DEF TypeOK
  <2>5. \E c \in Edits : Field(c.op) = f
    BY <2>2, <2>3, <2>4 DEF Busy, OneField, EditIsOf
  <2> QED
    BY <2>1, <2>2, <2>5
<1>6. calls = <<>> /\ done = <<>> /\ calls' = calls /\ done' = done
  BY <1>1, <1>5 DEF Busy, Shared
<1>7. HostOK' /\ HostRec' = HostRec
  BY <1>1, <1>3 DEF HostOK, HostRec
<1> QED
  BY <1>1, <1>2, <1>5, <1>6, <1>7, IdleAgrees

LEMMA SetFavouriteAgrees ==
  ASSUME IInv, IInv', Agreeing, CallSetFavourite
  PROVE  Agreeing'
<1> SUFFICES ASSUME clean' PROVE Agreeing'
  BY DEF Agreeing
<1>1. PICK fav \in BOOLEAN :
        /\ row # Absent
        /\ \/ /\ row.on
              /\ Issue("fav", [NoArg EXCEPT !.fav = fav], Absent, Absent,
                       Rewrite(row.path, fav, row.perms))
           \/ /\ ~row.on
              /\ FavouriteSet(fav)
              /\ EditedHere("fav")
  BY DEF CallSetFavourite
<1>2. TypeOK /\ HostOK /\ row \in Rows
  BY <1>1 DEF Issue, EditedHere, IInv, TypeOK, Agreeing
<1>3. row.path \in Paths /\ row.fav \in BOOLEAN /\ row.perms \in BOOLEAN
  BY <1>2 DEF Rows
<1>4. CASE /\ row.on
           /\ Issue("fav", [NoArg EXCEPT !.fav = fav], Absent, Absent,
                    Rewrite(row.path, fav, row.perms))
  <2> DEFINE arg == [NoArg EXCEPT !.fav = fav]
             frame == Rewrite(row.path, fav, row.perms)
             new == Call("fav", arg, Absent, Absent)
  <2>1. contact # Absent
    BY <1>1, <1>2, <1>4 DEF HostOK
  <2>2. arg \in Args /\ arg.fav = fav
    BY NoArgIs DEF NoArg
  <2>3. /\ frame \in Commands /\ frame.cmd = "update" /\ frame.rec.path = row.path
        /\ frame.rec.fav = fav /\ frame.rec.perms = row.perms
    BY <1>3, CommandIs DEF Rewrite
  <2>4. "fav" \in Ops /\ Field("fav") = "fav"
    BY DEF Ops, Field
  <2>5. new \in Calls /\ new.op = "fav" /\ new.arg = arg
    BY <2>2, <2>4, CallIs
  <2> HIDE DEF arg, frame
  <2>6. CommandOf(frame, new)
    BY <2>2, <2>3, <2>5 DEF CommandOf
  <2>7. ASSUME NEW k \in Records, Alike("fav", RecordOf(row), k)
        PROVE  EditIsOf(new, "fav", k) /\ Alike("fav", frame.rec, k)
    BY <2>3, <2>4, <2>5, <2>7 DEF EditIsOf, Alike, RecordOf
  <2> QED
    BY <1>1, <1>4, <2>1, <2>3, <2>4, <2>5, <2>6, <2>7, IssuedAgrees DEF arg, frame
<1>5. CASE ~row.on /\ FavouriteSet(fav) /\ EditedHere("fav")
  <2> DEFINE r == [row EXCEPT !.fav = fav]
  <2>1. Mutate(r) /\ Entry([contact EXCEPT !.fav = fav]) /\ r.on = row.on
    BY <1>2, <1>5 DEF FavouriteSet, Rows
  <2> HIDE DEF r
  <2> QED
    BY <1>1, <1>5, <2>1, EditedHereAgrees
<1> QED
  BY <1>1, <1>4, <1>5

LEMMA SetPermsAgrees ==
  ASSUME IInv, IInv', Agreeing, CallSetPerms
  PROVE  Agreeing'
<1> SUFFICES ASSUME clean' PROVE Agreeing'
  BY DEF Agreeing
<1>1. PICK perms \in BOOLEAN :
        /\ row # Absent
        /\ LET arg == [NoArg EXCEPT !.fav = row.fav, !.perms = perms] IN
           \/ /\ row.on
              /\ Issue("perms", arg, Absent, Absent, Rewrite(row.path, row.fav, perms))
           \/ /\ ~row.on
              /\ PermsSet(arg)
              /\ EditedHere("perms")
  BY DEF CallSetPerms
<1> DEFINE arg == [NoArg EXCEPT !.fav = row.fav, !.perms = perms]
<1>2. TypeOK /\ HostOK /\ row \in Rows
  BY <1>1 DEF Issue, EditedHere, IInv, TypeOK, Agreeing
<1>3. row.path \in Paths /\ row.fav \in BOOLEAN /\ row.perms \in BOOLEAN
  BY <1>2 DEF Rows
<1>4. CASE row.on /\ Issue("perms", arg, Absent, Absent, Rewrite(row.path, row.fav, perms))
  <2> DEFINE frame == Rewrite(row.path, row.fav, perms)
             new == Call("perms", arg, Absent, Absent)
  <2>1. contact # Absent
    BY <1>1, <1>2, <1>4 DEF HostOK
  <2>2. arg \in Args /\ arg.fav = row.fav /\ arg.perms = perms
    BY <1>3, NoArgIs DEF NoArg
  <2>3. /\ frame \in Commands /\ frame.cmd = "update" /\ frame.rec.path = row.path
        /\ frame.rec.fav = row.fav /\ frame.rec.perms = perms
    BY <1>3, CommandIs DEF Rewrite
  <2>4. "perms" \in Ops /\ Field("perms") = "perms"
    BY DEF Ops, Field
  <2>5. new \in Calls /\ new.op = "perms" /\ new.arg = arg
    BY <2>2, <2>4, CallIs
  <2> HIDE DEF arg, frame
  <2>6. CommandOf(frame, new)
    BY <2>2, <2>3, <2>5 DEF CommandOf
  <2>7. ASSUME NEW k \in Records, Alike("perms", RecordOf(row), k)
        PROVE  EditIsOf(new, "perms", k) /\ Alike("perms", frame.rec, k)
    BY <2>2, <2>3, <2>4, <2>5, <2>7 DEF EditIsOf, Alike, RecordOf
  <2> QED
    BY <1>1, <1>4, <2>1, <2>3, <2>4, <2>5, <2>6, <2>7, IssuedAgrees DEF arg, frame
<1>5. CASE ~row.on /\ PermsSet(arg) /\ EditedHere("perms")
  <2> HIDE DEF arg
  <2> DEFINE r == [row EXCEPT !.fav = arg.fav, !.perms = arg.perms]
  <2>1. Mutate(r) /\ Entry([contact EXCEPT !.perms = arg.perms]) /\ r.on = row.on
    BY <1>2, <1>5 DEF PermsSet, Rows
  <2> HIDE DEF r
  <2> QED
    BY <1>1, <1>5, <2>1, EditedHereAgrees
<1> QED
  BY <1>1, <1>4, <1>5

LEMMA PreferDirectAgrees ==
  ASSUME IInv, Agreeing, CallPreferDirect
  PROVE  Agreeing'
<1> SUFFICES ASSUME clean' PROVE Agreeing'
  BY DEF Agreeing
<1>1. PICK direct \in BOOLEAN :
        /\ contact # Absent
        /\ contact' = [contact EXCEPT !.direct = direct]
        /\ UNCHANGED <<radio, row, calls, done, asks, up, down, clean>>
  BY DEF CallPreferDirect, wire
<1>2. contact \in Entries
  BY <1>1 DEF IInv, TypeOK
<1>3. /\ contact' \in Entries /\ contact' # Absent
      /\ contact'.fav = contact.fav /\ contact'.perms = contact.perms
      /\ contact'.path = contact.path /\ contact'.manual = contact.manual
  BY <1>1, <1>2, AbsentAssumption DEF Entries
<1>4f. PICK f \in Fields, k \in Records : \E q, a, b : Told(f, k, q, a, b)
  BY <1>1 DEF Agreeing
<1>4. PICK q, a, b : Told(f, k, q, a, b)
  BY <1>4f
<1>5. HostOK' /\ HostRec' = HostRec
  BY <1>1, <1>3 DEF Agreeing, HostOK, HostRec, Shows
<1>6. Busy' = Busy /\ Edits' = Edits
  BY <1>1 DEF Busy, Edits
<1>7. (contact' = Absent) = (contact = Absent)
  BY <1>1, <1>3
<1>8. Leads(q[0], done)' = Leads(q[0], done)
  BY <1>1, <1>7 DEF Leads
<1>9. OneField(f, k, q)' = OneField(f, k, q)
  <2>1. \A c : EditIsOf(c, f, k)' = EditIsOf(c, f, k)
    BY <1>1 DEF EditIsOf
  <2> QED
    BY <1>1, <1>6, <1>7, <2>1 DEF OneField
<1>10. Told(f, k, q, a, b)'
  BY <1>1, <1>4, <1>5, <1>6, <1>8, <1>9 DEF Told
<1> QED
  BY <1>5, <1>10 DEF Agreeing

-----------------------------------------------------------------------------
(* The radio, while the copies agree.                                      *)

\* What the radio makes of a command of an edit, and its answer.
LEMMA AnswersEdit ==
  ASSUME NEW r \in Records \cup {Absent}, NEW f \in Commands, NEW c \in Calls, CommandOf(f, c),
         f.cmd # "anon", NEW r1, NEW code,
         \/ f.cmd = "update" /\ r1 = f.rec /\ code = "ok"
         \/ f.cmd = "update" /\ r = Absent /\ r1 = r /\ code = "refused"
         \/ f.cmd = "reset" /\ r # Absent /\ r1 = [r EXCEPT !.path = "flood"] /\ code = "ok"
         \/ f.cmd = "remove" /\ r # Absent /\ r1 = Absent /\ code = "ok"
         \/ f.cmd \in {"reset", "remove"} /\ r = Absent /\ r1 = r /\ code = "notfound",
         Field(c.op) # "store" => r # Absent,
         NEW field \in Fields, Field(c.op) = field, NEW k \in Records,
         r # Absent => Alike(field, r, k),
         f.cmd = "update" => Alike(field, f.rec, k)
  PROVE  /\ r1 \in Records \cup {Absent} /\ code \in AckCodes
         /\ Left(c, Confirms(code, c), r, r1)
         /\ field # "store" => r1 # Absent
         /\ r1 # Absent => Alike(field, r1, k)
<1>1. Absent \notin Records
  BY AbsentAssumption
<1>2. /\ f.cmd = "update" => f.rec \in Records /\ c.op \in {"path", "fav", "perms", "add", "shim"}
      /\ f.cmd = "reset" => c.op \in {"reset", "restore"}
      /\ f.cmd = "remove" => c.op = "remove"
  BY DEF CommandOf, Commands, Calls, Ops
<1>3. CASE f.cmd = "update" /\ r1 = f.rec /\ code = "ok"
  <2>1. Confirms(code, c) = TRUE /\ Leaves(c, r1)
    BY <1>1, <1>2, <1>3 DEF Confirms, Leaves, CommandOf
  <2> QED
    BY <1>1, <1>2, <1>3, <2>1 DEF Left, AckCodes
<1>4. CASE f.cmd = "update" /\ r = Absent /\ r1 = r /\ code = "refused"
  <2>1. Field(c.op) = "store" /\ c.op = "add"
    BY <1>2, <1>4 DEF Field
  <2>2. Confirms(code, c) = FALSE
    BY <1>4 DEF Confirms
  <2> QED
    BY <1>4, <2>1, <2>2 DEF Left, AckCodes
<1>5. CASE f.cmd = "reset" /\ r # Absent /\ r1 = [r EXCEPT !.path = "flood"] /\ code = "ok"
  <2>1. /\ r1 \in Records /\ r1.path = "flood" /\ r1.fav = r.fav /\ r1.perms = r.perms
    BY <1>5 DEF Records, Paths
  <2>2. Confirms(code, c) = TRUE /\ Leaves(c, r1)
    BY <1>1, <1>2, <1>5, <2>1 DEF Confirms, Leaves
  <2>3. field \in {"path", "shim"}
    BY <1>2, <1>5 DEF Field
  <2>4. Alike(field, r1, k)
    BY <1>5, <2>1, <2>3 DEF Alike
  <2> QED
    BY <1>1, <1>5, <2>1, <2>2, <2>4 DEF Left, AckCodes
<1>6. CASE f.cmd = "remove" /\ r # Absent /\ r1 = Absent /\ code = "ok"
  <2>1. Confirms(code, c) = TRUE /\ Leaves(c, r1) /\ Field(c.op) = "store"
    BY <1>2, <1>6 DEF Confirms, Leaves, Field
  <2> QED
    BY <1>6, <2>1 DEF Left, AckCodes
<1>7. CASE f.cmd \in {"reset", "remove"} /\ r = Absent /\ r1 = r /\ code = "notfound"
  <2>1. c.op = "remove"
    BY <1>2, <1>7 DEF Field
  <2>2. Confirms(code, c) = TRUE /\ Leaves(c, r1) /\ Field(c.op) = "store"
    BY <1>7, <2>1 DEF Confirms, Leaves, Field
  <2> QED
    BY <1>7, <2>2 DEF Left, AckCodes
<1> QED
  BY <1>3, <1>4, <1>5, <1>6, <1>7

\* Another frame is on its way: what is under way is of one field as before.
LEMMA OneFieldMore ==
  ASSUME NEW f, NEW k, NEW q, NEW q1, OneField(f, k, q),
         Len(down) \in Nat, Len(down') = Len(down) + 1,
         \A i \in 0..Len(down) : q1[i] = q[i],
         f # "store" => q1[Len(down) + 1] # Absent,
         q1[Len(down) + 1] # Absent => Alike(f, q1[Len(down) + 1], k),
         UNCHANGED <<row, contact, calls, done, asks>>,
         up' = up \/ (up \in Seq(Commands) /\ up # <<>> /\ up' = Tail(up))
  PROVE  OneField(f, k, q1)'
<1>1. Edits' = Edits /\ \A c : EditIsOf(c, f, k)' = EditIsOf(c, f, k)
  BY DEF Edits, EditIsOf
<1>2. \A i \in 0..Len(down') : i \in 0..Len(down) \/ i = Len(down) + 1
  OBVIOUS
<1>3. f # "store" => contact # Absent /\ \A i \in 0..Len(down') : q1[i] # Absent
  BY <1>2 DEF OneField
<1>4. \A i \in 0..Len(down') : q1[i] # Absent => Alike(f, q1[i], k)
  BY <1>2 DEF OneField
<1>5. \A i \in 1..Len(up') : up'[i].cmd = "update" => Alike(f, up'[i].rec, k)
  <2>1. CASE up' = up
    BY <2>1 DEF OneField
  <2>2. CASE up \in Seq(Commands) /\ up # <<>> /\ up' = Tail(up)
    <3>1. /\ Len(up) \in Nat /\ Len(up') = Len(up) - 1
          /\ \A i \in 1..(Len(up) - 1) : up'[i] = up[i + 1]
      BY <2>2, HeadTailProperties, LenProperties
    <3>2. \A i \in 1..Len(up') : i \in 1..(Len(up) - 1) /\ i + 1 \in 1..Len(up)
      BY <3>1
    <3> QED
      BY <3>1, <3>2 DEF OneField
  <2> QED
    BY <2>1, <2>2
<1> QED
  BY <1>1, <1>3, <1>4, <1>5 DEF OneField

LEMMA RadioTakesAgrees ==
  ASSUME IInv, Agreeing, RadioTakes
  PROVE  Agreeing'
<1> SUFFICES ASSUME clean' PROVE Agreeing'
  BY DEF Agreeing
<1> DEFINE g == Head(up)
           n == Len(down)
<1>1. /\ up # <<>> /\ up' = Tail(up)
      /\ UNCHANGED <<row, contact, calls, done, asks, clean>>
  BY DEF RadioTakes, host, history
<1>2. TypeOK /\ HostOK
  BY <1>1 DEF IInv, Agreeing
<1>3. /\ calls \in Seq(Calls) /\ up \in Seq(Commands) /\ down \in Seq(Frames)
      /\ radio \in Records \cup {Absent} /\ g \in Commands /\ up' \in Seq(Commands)
      /\ g = up[1] /\ 1 \in 1..Len(up)
  BY <1>1, <1>2, Typed, HeadTailProperties, LenProperties, EmptySeq
<1>4. PICK code \in {"ok", "refused", "notfound", "sent"} :
        /\ down' = Append(down, [code |-> code, rec |-> Absent])
        /\ \/ g.cmd = "update" /\ radio' = g.rec /\ code = "ok"
           \/ g.cmd = "update" /\ radio = Absent /\ radio' = radio /\ code = "refused"
           \/ /\ g.cmd = "reset" /\ radio # Absent /\ radio' = [radio EXCEPT !.path = "flood"]
              /\ code = "ok"
           \/ g.cmd = "remove" /\ radio # Absent /\ radio' = Absent /\ code = "ok"
           \/ /\ g.cmd \in {"reset", "remove"} /\ radio = Absent /\ radio' = radio
              /\ code = "notfound"
           \/ g.cmd = "anon" /\ radio' = radio /\ code = "sent"
  BY DEF RadioTakes, Answer
<1>5. [code |-> code, rec |-> Absent] \in Frames
  BY DEF Frames
<1>6f. PICK f \in Fields, k \in Records : \E q, a, b : Told(f, k, q, a, b)
  BY <1>1 DEF Agreeing
<1>6. PICK q, a, b : Told(f, k, q, a, b)
  BY <1>6f
<1>7. /\ a[n] \in Nat /\ a[n] <= Len(calls)
      /\ calls = <<>> => \A i \in 1..Len(up) : up[i].cmd = "anon"
      /\ n \in Nat /\ Busy \in BOOLEAN
  BY <1>2, <1>6, ToldBounds
<1>8. /\ Story(q, a, down, calls, Busy) /\ q[n] = radio
      /\ Sent(b, up, calls, a[n]) /\ Leads(q[0], done)
      /\ Busy => OneField(f, k, q)
      /\ done = <<>> /\ (Busy => f # "shim") => q[0] = HostRec
  BY <1>6 DEF Told
<1> HIDE DEF g, n
<1>9. n \in 0..n /\ Len(calls) \in Nat
  BY <1>3, <1>7, LenProperties
<1>10. PICK m \in Nat : /\ m = a[n] + (IF code \in AckCodes THEN 1 ELSE 0)
                        /\ \E b1 : Sent(b1, up', calls, m)
                        /\ code \in AckCodes =>
                             Left(calls[m], Confirms(code, calls[m]), radio, radio')
                        /\ code \notin AckCodes => radio' = radio
                        /\ radio' \in Records \cup {Absent}
                        /\ Busy => /\ f # "store" => radio' # Absent
                                   /\ radio' # Absent => Alike(f, radio', k)
  <2>1. CASE g.cmd = "anon"
    <3>1. code = "sent" /\ radio' = radio /\ code \notin AckCodes
      BY <1>4, <2>1 DEF AckCodes
    <3>2. \E b1 : Sent(b1, up', calls, a[n])
      BY <1>1, <1>3, <1>7, <1>8, <2>1, SentTail DEF g
    <3>3. Busy => /\ f # "store" => radio' # Absent
                  /\ radio' # Absent => Alike(f, radio', k)
      BY <1>8, <1>9, <3>1 DEF OneField, n
    <3>4. a[n] = a[n] + 0
      BY <1>7
    <3> QED
      BY <1>3, <1>7, <3>1, <3>2, <3>3, <3>4
  <2>2. CASE g.cmd # "anon"
    <3>1. /\ \E b1 : Sent(b1, up', calls, a[n] + 1)
          /\ a[n] + 1 \in 1..Len(calls) /\ CommandOf(g, calls[a[n] + 1])
      BY <1>1, <1>3, <1>7, <1>8, <2>2, SentTail DEF g
    <3> DEFINE c == calls[a[n] + 1]
    <3>2. c \in Calls /\ c \in Edits /\ calls # <<>>
      <4>1. DOMAIN calls = 1..Len(calls) /\ (calls = <<>> => Len(calls) = 0)
        BY <1>3, LenProperties
      <4>2. c \in Range(calls) /\ calls # <<>>
        BY <3>1, <4>1 DEF Range
      <4> QED
        BY <1>2, <4>2, Typed DEF Edits
    <3> HIDE DEF c
    <3>3. Busy /\ OneField(f, k, q)
      BY <1>8, <3>2 DEF Busy
    <3>4. /\ Field(c.op) = f /\ (f # "store" => radio # Absent)
          /\ radio # Absent => Alike(f, radio, k)
          /\ g.cmd = "update" => Alike(f, g.rec, k)
      BY <1>3, <1>8, <1>9, <3>2, <3>3 DEF OneField, EditIsOf, n
    <3>5. CommandOf(g, c) /\ code \in {"ok", "refused", "notfound"}
      BY <1>4, <2>2, <3>1 DEF c
    <3>6. /\ radio' \in Records \cup {Absent} /\ code \in AckCodes
          /\ Left(c, Confirms(code, c), radio, radio')
          /\ f # "store" => radio' # Absent
          /\ radio' # Absent => Alike(f, radio', k)
      <4>1. \/ g.cmd = "update" /\ radio' = g.rec /\ code = "ok"
            \/ g.cmd = "update" /\ radio = Absent /\ radio' = radio /\ code = "refused"
            \/ /\ g.cmd = "reset" /\ radio # Absent /\ radio' = [radio EXCEPT !.path = "flood"]
               /\ code = "ok"
            \/ g.cmd = "remove" /\ radio # Absent /\ radio' = Absent /\ code = "ok"
            \/ /\ g.cmd \in {"reset", "remove"} /\ radio = Absent /\ radio' = radio
               /\ code = "notfound"
        BY <1>4, <2>2
      <4> HIDE <1>4
      <4> QED
        <5>1. radio \in Records \cup {Absent} /\ g \in Commands /\ c \in Calls /\ f \in Fields
          BY <1>3, <3>2
        <5>2. CommandOf(g, c) /\ g.cmd # "anon" /\ (Field(c.op) # "store" => radio # Absent)
          BY <2>2, <3>4, <3>5
        <5>3. Field(c.op) = f /\ (radio # Absent => Alike(f, radio, k))
          BY <3>4
        <5>4. g.cmd = "update" => Alike(f, g.rec, k)
          BY <3>4
        <5> HIDE <4>1
        <5> QED
          BY <4>1, <5>1, <5>2, <5>3, <5>4, AnswersEdit, SMTT(60)
    <3> QED
      BY <1>7, <3>1, <3>6 DEF c
  <2> QED
    BY <2>1, <2>2
<1> DEFINE frame == [code |-> code, rec |-> Absent]
<1>11. PICK q1, a1 :
         /\ Story(q1, a1, down', calls, Busy)
         /\ \A i \in 0..n : q1[i] = q[i]
         /\ Len(down') = n + 1
         /\ q1[0] = q[0] /\ q1[n + 1] = radio' /\ a1[n + 1] = m
  <2>1. frame.code = code /\ code \notin {"record", "gone", "advert"} /\ frame \in Frames
    BY <1>5
  <2> HIDE DEF frame
  <2>2. Follows(frame, q[n], a[n], radio', m, calls, Busy)
    BY <1>8, <1>10, <2>1 DEF Follows
  <2> DEFINE q2 == Longer(q, n, radio')
             a2 == Longer(a, n, m)
  <2>3. Story(q2, a2, Append(down, frame), calls, Busy) /\ Len(Append(down, frame)) = n + 1
    BY <1>3, <1>7, <1>8, <2>1, <2>2, StoryAppend DEF n
  <2>4. /\ \A i \in 0..n : q2[i] = q[i]
        /\ q2[0] = q[0] /\ q2[n + 1] = radio' /\ a2[n + 1] = m
    BY <1>7, LongerIs
  <2> HIDE DEF q2, a2
  <2> QED
    BY <1>4, <2>3, <2>4 DEF frame
<1>12. PICK b1 : Sent(b1, up', calls, m)
  BY <1>10
<1>13. Busy' = Busy /\ HostOK' = HostOK /\ HostRec' = HostRec
       /\ Leads(q1[0], done)' = Leads(q1[0], done)
  BY <1>1 DEF Busy, HostOK, HostRec, Leads
<1>14. Busy => OneField(f, k, q1)'
  BY <1>1, <1>3, <1>7, <1>8, <1>10, <1>11, OneFieldMore DEF n
<1>15. Told(f, k, q1, a1, b1)'
  BY <1>1, <1>8, <1>11, <1>12, <1>13, <1>14 DEF Told
<1> QED
  BY <1>2, <1>13, <1>15 DEF Agreeing

LEMMA RadioChangesAgrees ==
  ASSUME IInv, Agreeing, RadioChanges
  PROVE  Agreeing'
<1> SUFFICES ASSUME clean' PROVE Agreeing'
  BY DEF Agreeing
<1> DEFINE n == Len(down)
<1>1. UNCHANGED <<row, contact, calls, done, asks, up>>
  BY DEF RadioChanges, host
<1>2. TypeOK /\ HostOK /\ clean
  BY DEF RadioChanges, IInv, Agreeing
<1>3. /\ calls \in Seq(Calls) /\ up \in Seq(Commands) /\ down \in Seq(Frames)
      /\ radio \in Records \cup {Absent} /\ Absent \notin Records
  BY <1>2, Typed, AbsentAssumption
<1>4f. PICK f \in Fields, k \in Records : \E q, a, b : Told(f, k, q, a, b)
  BY <1>2 DEF Agreeing
<1>4. PICK q, a, b : Told(f, k, q, a, b)
  BY <1>4f
<1>5. a[n] \in Nat /\ n \in Nat /\ n \in 0..n /\ Busy \in BOOLEAN
  BY <1>2, <1>4, ToldBounds
<1>6. /\ Story(q, a, down, calls, Busy) /\ q[n] = radio
      /\ Sent(b, up, calls, a[n]) /\ Leads(q[0], done)
      /\ Busy => OneField(f, k, q)
      /\ done = <<>> /\ (Busy => f # "shim") => q[0] = HostRec
  BY <1>4 DEF Told

\* The frame that is sent, and what the radio holds then.
<1>7. PICK g \in Frames : /\ down' = Append(down, g) /\ g.code \notin AckCodes
                          /\ Follows(g, radio, a[n], radio', a[n], calls, Busy)
                          /\ Busy => radio' = radio
  <2>0. a[n] = a[n] + 0
    BY <1>5
  <2>1. CASE radio # Absent /\ radio' = Absent /\ Answer("gone") /\ clean' = (clean /\ Idle)
    <3> DEFINE g == [code |-> "gone", rec |-> Absent]
    <3>1. g \in Frames /\ g.code = "gone" /\ down' = Append(down, g)
      BY <2>1 DEF Frames, Answer
    <3>2. ~Busy
      <4>1. clean' = (clean /\ Idle)
        BY <2>1
      <4>2. Idle
        BY <4>1
      <4> QED
        BY <4>2 DEF Idle, Busy
    <3> HIDE DEF g
    <3>3. Follows(g, radio, a[n], radio', a[n], calls, Busy)
      BY <1>5, <2>0, <2>1, <3>1, <3>2 DEF Follows, AckCodes
    <3> QED
      BY <3>1, <3>2, <3>3 DEF AckCodes
  <2>2. CASE radio = Absent /\ Answer("advert") /\ clean' = (clean /\ Idle) /\ UNCHANGED radio
    <3> DEFINE g == [code |-> "advert", rec |-> Absent]
    <3>1. g \in Frames /\ g.code = "advert" /\ down' = Append(down, g)
      BY <2>2 DEF Frames, Answer
    <3>2. ~Busy
      <4>1. clean' = (clean /\ Idle)
        BY <2>2
      <4>2. Idle
        BY <4>1
      <4> QED
        BY <4>2 DEF Idle, Busy
    <3> HIDE DEF g
    <3>3. Follows(g, radio, a[n], radio', a[n], calls, Busy)
      BY <1>5, <2>0, <2>2, <3>1, <3>2 DEF Follows, AckCodes
    <3> QED
      BY <3>1, <3>2, <3>3 DEF AckCodes
  <2>3. CASE /\ down' = Append(down, IF radio = Absent THEN [code |-> "gone", rec |-> Absent]
                                     ELSE [code |-> "record", rec |-> radio])
             /\ UNCHANGED <<radio, clean>>
    <3> DEFINE g == IF radio = Absent THEN [code |-> "gone", rec |-> Absent]
                    ELSE [code |-> "record", rec |-> radio]
    <3>1. /\ g \in Frames /\ g.code \in {"gone", "record"}
          /\ g.code = "record" => g.rec = radio
          /\ g.code = "gone" => radio = Absent
      BY <1>3 DEF Frames
    <3>2. down' = Append(down, g) /\ radio' = radio
      BY <2>3
    <3> HIDE DEF g
    <3>3. Follows(g, radio, a[n], radio', a[n], calls, Busy)
      BY <1>3, <1>5, <2>0, <3>1, <3>2 DEF Follows, AckCodes
    <3> QED
      BY <3>1, <3>2, <3>3 DEF AckCodes
  <2>4. \/ radio # Absent /\ radio' = Absent /\ Answer("gone") /\ clean' = (clean /\ Idle)
        \/ radio = Absent /\ Answer("advert") /\ clean' = (clean /\ Idle) /\ UNCHANGED radio
        \/ /\ down' = Append(down, IF radio = Absent THEN [code |-> "gone", rec |-> Absent]
                                   ELSE [code |-> "record", rec |-> radio])
           /\ UNCHANGED <<radio, clean>>
    BY DEF RadioChanges
  <2> QED
    BY <2>1, <2>2, <2>3, <2>4
<1> HIDE DEF n
<1>8. PICK q1, a1 :
        /\ Story(q1, a1, down', calls, Busy)
        /\ \A i \in 0..n : q1[i] = q[i]
        /\ Len(down') = n + 1
        /\ q1[0] = q[0] /\ q1[n + 1] = radio' /\ a1[n + 1] = a[n]
  <2> DEFINE q2 == Longer(q, n, radio')
             a2 == Longer(a, n, a[n])
  <2>1. Follows(g, q[n], a[n], radio', a[n], calls, Busy)
    BY <1>6, <1>7
  <2>2. Story(q2, a2, Append(down, g), calls, Busy) /\ Len(Append(down, g)) = n + 1
    BY <1>3, <1>5, <1>6, <2>1, StoryAppend DEF n
  <2>3. /\ \A i \in 0..n : q2[i] = q[i]
        /\ q2[0] = q[0] /\ q2[n + 1] = radio' /\ a2[n + 1] = a[n]
    BY <1>5, LongerIs
  <2> HIDE DEF q2, a2
  <2> QED
    BY <1>7, <2>2, <2>3
<1>9. Busy' = Busy /\ HostOK' = HostOK /\ HostRec' = HostRec
      /\ Leads(q1[0], done)' = Leads(q1[0], done)
  BY <1>1 DEF Busy, HostOK, HostRec, Leads
<1>10. Busy => OneField(f, k, q1)'
  <2> SUFFICES ASSUME Busy PROVE OneField(f, k, q1)'
    OBVIOUS
  <2>1. OneField(f, k, q) /\ q1[n + 1] = q[n]
    BY <1>6, <1>7, <1>8
  <2>2. /\ f # "store" => q[n] # Absent
        /\ q[n] # Absent => Alike(f, q[n], k)
    BY <1>5, <2>1 DEF OneField, n
  <2> QED
    BY <1>1, <1>5, <1>8, <2>1, <2>2, OneFieldMore DEF n
<1>11. Told(f, k, q1, a1, b)'
  BY <1>1, <1>6, <1>8, <1>9, <1>10 DEF Told
<1> QED
  BY <1>2, <1>9, <1>11 DEF Agreeing

-----------------------------------------------------------------------------
(* Frames, while the copies agree.                                         *)

\* What a step that replaces the row leaves of an edit, and of a queue of them.
Copies(c, d, r) ==
  /\ c.op = d.op /\ c.arg = d.arg /\ c.contact = d.contact /\ c.ok = d.ok
  /\ c.row = d.row \/ (d.live /\ c.row = r)
Kept(s, q, r) == Len(s) = Len(q) /\ \A i \in 1..Len(q) : Copies(s[i], q[i], r)

\* What Shared and Severed leave of a queue.
LEMMA KeptIs ==
  ASSUME NEW q \in Seq(Calls), NEW r \in Rows \cup {Absent},
         NEW s, s = Shared(q, r) \/ s = Severed(q) \/ s = q
  PROVE  /\ s \in Seq(Calls) /\ Kept(s, q, r) /\ Len(q) \in Nat
         /\ s = <<>> <=> q = <<>>
         /\ \A i \in 1..Len(q) : SameEdit(s[i], q[i])
         /\ \A c \in Range(s) : \E d \in Range(q) : Copies(c, d, r)
<1>1. /\ DOMAIN q = 1..Len(q) /\ Len(q) \in Nat /\ \A i \in 1..Len(q) : q[i] \in Calls
  BY LenProperties, ElementOfSeq
<1>2. /\ s \in Seq(Calls) /\ DOMAIN s = DOMAIN q
      /\ \A i \in 1..Len(q) : \/ s[i] = q[i]
                              \/ q[i].live /\ s[i] = [q[i] EXCEPT !.row = r]
                              \/ s[i] = [q[i] EXCEPT !.live = FALSE]
  BY <1>1, SharedIs, SeveredIs
<1>3. Len(s) = Len(q) /\ DOMAIN s = 1..Len(s)
  BY <1>1, <1>2, LenProperties
<1>4. ASSUME NEW i \in 1..Len(q) PROVE Copies(s[i], q[i], r) /\ SameEdit(s[i], q[i])
  BY <1>1, <1>2 DEF Copies, SameEdit, Calls
<1>5. s = <<>> <=> q = <<>>
  BY <1>2, <1>3, EmptySeq
<1>6. \A c \in Range(s) : \E d \in Range(q) : Copies(c, d, r)
  BY <1>1, <1>3, <1>4 DEF Range
<1> QED
  BY <1>1, <1>2, <1>3, <1>4, <1>5, <1>6 DEF Kept

\* A copy of an edit is of the field the edit is of.
LEMMA CopyIsOf ==
  ASSUME NEW f, NEW k \in Records, NEW c, NEW d, Copies(c, d, row'), EditIsOf(d, f, k),
         f = "store" /\ row # Absent => row' # Absent,
         f = "store" /\ row' # Absent /\ c.row = row' /\ c.row # d.row => RecordOf(row') = k
  PROVE  EditIsOf(c, f, k)'
<1>1. /\ c.op = d.op /\ c.arg = d.arg /\ c.contact = d.contact
      /\ c.row = d.row \/ c.row = row'
  BY DEF Copies
<1>2. c.op = "add" => f = "store"
  BY <1>1 DEF EditIsOf, Field
<1>3. c.op = "add" => row' # Absent /\ RecordOf(c.row) = k
  BY <1>1, <1>2 DEF EditIsOf
<1> QED
  BY <1>1, <1>3 DEF EditIsOf

\* The edits answered and not resumed still lead to r.
LEMMA LeadsKept ==
  ASSUME NEW d \in Seq(Calls), NEW d1 \in Seq(Calls), Kept(d1, d, row'), NEW r,
         d # <<>> => Left(d[Len(d)], d[Len(d)].ok, r, r),
         \A k \in 1..Len(d) : ~d[k].ok => d[k].op = "add",
         \A k \in 1..Len(d) : k > 1 /\ ~d[k].ok => ~EffectiveAdd(d[k - 1]),
         d # <<>> /\ ~d[1].ok =>
           contact' = Absent \/ \E j \in 1..Len(d) : j > 1 /\ EffectiveAdd(d[j])
  PROVE  Leads(r, d1)'
<1>1. /\ Len(d) \in Nat /\ Len(d1) = Len(d) /\ (d = <<>> <=> Len(d) = 0)
      /\ (d1 = <<>> <=> Len(d1) = 0)
      /\ \A i \in 1..Len(d) : /\ d1[i].op = d[i].op /\ d1[i].arg = d[i].arg
                              /\ d1[i].ok = d[i].ok /\ SameEdit(d1[i], d[i])
                              /\ EffectiveAdd(d1[i]) = EffectiveAdd(d[i])
  BY LenProperties, EmptySeq DEF Kept, Copies, SameEdit, EffectiveAdd
<1>2. d1 # <<>> => Left(d1[Len(d1)], d1[Len(d1)].ok, r, r)
  <2> SUFFICES ASSUME d1 # <<>> PROVE Left(d1[Len(d1)], d1[Len(d1)].ok, r, r)
    OBVIOUS
  <2>1. d # <<>> /\ Len(d) \in 1..Len(d) /\ Len(d1) = Len(d)
    BY <1>1
  <2>2. SameEdit(d1[Len(d)], d[Len(d)]) /\ d1[Len(d)].ok = d[Len(d)].ok
    BY <1>1, <2>1
  <2>3. Left(d1[Len(d)], d[Len(d)].ok, r, r)
    BY <2>1, <2>2, SameEditIs
  <2> QED
    BY <2>1, <2>2, <2>3
<1>3. \A k \in 1..Len(d1) : ~d1[k].ok => d1[k].op = "add"
  BY <1>1
<1>4. ASSUME NEW k \in 1..Len(d1), k > 1, ~d1[k].ok PROVE ~EffectiveAdd(d1[k - 1])
  <2>1. k \in 1..Len(d) /\ k - 1 \in 1..Len(d)
    BY <1>1, <1>4
  <2> QED
    BY <1>1, <1>4, <2>1
<1>5. d1 # <<>> /\ ~d1[1].ok =>
        contact' = Absent \/ \E j \in 1..Len(d1) : j > 1 /\ EffectiveAdd(d1[j])
  <2> SUFFICES ASSUME d1 # <<>>, ~d1[1].ok, contact' # Absent
               PROVE  \E j \in 1..Len(d1) : j > 1 /\ EffectiveAdd(d1[j])
    OBVIOUS
  <2>1. 1 \in 1..Len(d) /\ d # <<>> /\ ~d[1].ok
    BY <1>1
  <2>2. PICK j \in 1..Len(d) : j > 1 /\ EffectiveAdd(d[j])
    BY <2>1
  <2> QED
    BY <1>1, <2>2
<1> QED
  BY <1>2, <1>3, <1>4, <1>5 DEF Leads, EffectiveAdd

\* The story without its first frame.
Shifted(q1, a1, q, a, cs, busy) ==
  /\ Story(q1, a1, Tail(down), cs, busy)
  /\ \A i \in 0..(Len(down) - 1) : i + 1 \in 0..Len(down) /\ q1[i] = q[i + 1]
  /\ q1[0] = q[1] /\ q1[Len(down) - 1] = q[Len(down)]
  /\ a1[Len(down) - 1] = a[Len(down)] - Settles(Head(down))

\* The story once its first frame is taken, and what went before that frame.
LEMMA ToldTail ==
  ASSUME TypeOK, down # <<>>, NEW f, NEW k, NEW q, NEW a, NEW b, Told(f, k, q, a, b)
  PROVE  /\ \E q1, a1 : Shifted(q1, a1, q, a, Rest(Head(down), calls), Busy)
         /\ Len(down) \in Nat /\ Len(down) >= 1 /\ Len(Tail(down)) = Len(down) - 1
         /\ q[0] \in Records \cup {Absent} /\ q[1] \in Records \cup {Absent}
         /\ Head(down).code \in AckCodes =>
              /\ calls # <<>> /\ a[Len(down)] >= 1
              /\ Left(Head(calls), Confirms(Head(down).code, Head(calls)), q[0], q[1])
         /\ Head(down).code \notin AckCodes =>
              q[1] = q[0] \/ (~Busy /\ q[1] = Absent /\ Head(down).code = "gone")
         /\ Head(down).code = "record" => q[1] = Head(down).rec
         /\ Head(down).code = "gone" => q[1] = Absent
         /\ Head(down).code = "advert" => ~Busy /\ q[1] = Absent /\ q[0] = Absent
<1>1. calls \in Seq(Calls) /\ down \in Seq(Frames)
  BY DEF TypeOK
<1>2. a[Len(down)] <= Len(calls) /\ Busy \in BOOLEAN
  BY ToldBounds
<1>3. Story(q, a, down, calls, Busy)
  BY DEF Told
<1>4. PICK busy \in BOOLEAN : busy = Busy
  BY <1>2
<1>5. Story(q, a, down, calls, busy)
  BY <1>3, <1>4
<1>6. /\ Story(Later(q, Len(down)), Fewer(a, Len(down), Settles(Head(down))), Tail(down),
               Rest(Head(down), calls), busy)
      /\ Len(down) \in Nat /\ Len(down) >= 1 /\ Len(Tail(down)) = Len(down) - 1
      /\ q[0] \in Records \cup {Absent} /\ q[1] \in Records \cup {Absent}
      /\ Head(down).code \in AckCodes =>
           /\ calls # <<>> /\ a[Len(down)] >= 1
           /\ Left(Head(calls), Confirms(Head(down).code, Head(calls)), q[0], q[1])
      /\ Head(down).code \notin AckCodes =>
           q[1] = q[0] \/ (~busy /\ q[1] = Absent /\ Head(down).code = "gone")
      /\ Head(down).code = "record" => q[1] = Head(down).rec
      /\ Head(down).code = "gone" => q[1] = Absent
      /\ Head(down).code = "advert" => ~busy /\ q[1] = Absent /\ q[0] = Absent
  BY <1>1, <1>2, <1>5, StoryTail
<1>7. Shifted(Later(q, Len(down)), Fewer(a, Len(down), Settles(Head(down))), q, a,
              Rest(Head(down), calls), Busy)
  <2> DEFINE q1 == Later(q, Len(down))
             a1 == Fewer(a, Len(down), Settles(Head(down)))
  <2>1. /\ \A i \in 0..(Len(down) - 1) : i + 1 \in 0..Len(down) /\ q1[i] = q[i + 1]
        /\ q1[0] = q[1] /\ q1[Len(down) - 1] = q[Len(down)]
        /\ a1[Len(down) - 1] = a[Len(down)] - Settles(Head(down))
    <3>1. Len(down) \in Nat /\ Len(down) >= 1
      BY <1>6
    <3>2. /\ \A i \in 0..(Len(down) - 1) : i + 1 \in 0..Len(down) /\ q1[i] = q[i + 1]
          /\ q1[0] = q[1] /\ q1[Len(down) - 1] = q[Len(down)]
      BY <3>1, LaterIs
    <3>3. \A d : Fewer(a, Len(down), d)[Len(down) - 1] = a[Len(down)] - d
      BY <3>1, LaterIs
    <3> QED
      BY <3>2, <3>3
  <2>2. Story(q1, a1, Tail(down), Rest(Head(down), calls), Busy)
    BY <1>4, <1>6
  <2> HIDE DEF q1, a1
  <2>3. Shifted(q1, a1, q, a, Rest(Head(down), calls), Busy)
    BY <2>1, <2>2 DEF Shifted
  <2> QED
    BY <2>3 DEF q1, a1
<1> QED
  BY <1>4, <1>6, <1>7

\* Nothing is on its way, and nothing under way: the story is what the radio holds.
LEMMA EmptyStory ==
  ASSUME NEW r \in Records \cup {Absent}
  PROVE  \E q, a, b : /\ Story(q, a, <<>>, <<>>, FALSE) /\ Sent(b, <<>>, <<>>, a[0])
                      /\ q[0] = r
<1> DEFINE q == [i \in 0..0 |-> r]
           a == [i \in 0..0 |-> 0]
<1>1. Len(<<>>) = 0 /\ 0 \in 0..0 /\ q[0] = r /\ a[0] = 0
  OBVIOUS
<1>2. q \in [0..0 -> Records \cup {Absent}] /\ a \in [0..0 -> Nat]
  OBVIOUS
<1> HIDE DEF q, a
<1>3. \A i \in 0..0 : i = 0
  OBVIOUS
<1>4. \A i \in 1..0 : FALSE
  OBVIOUS
<1>5. Story(q, a, <<>>, <<>>, FALSE)
  BY <1>1, <1>2, <1>3, <1>4 DEF Story
<1>6. Sent(a, <<>>, <<>>, a[0])
  BY <1>1, <1>2, <1>3, <1>4 DEF Sent
<1> QED
  BY <1>1, <1>5, <1>6

\* A frame is taken: of the story no more is asked.
LEMMA OneFieldTail ==
  ASSUME NEW f, NEW k, NEW q, NEW q1, OneField(f, k, q),
         Len(down) \in Nat, Len(down') = Len(down) - 1,
         \A i \in 0..(Len(down) - 1) : i + 1 \in 0..Len(down) /\ q1[i] = q[i + 1],
         \A c \in Edits' : EditIsOf(c, f, k)',
         asks' > 0 => f = "shim",
         f # "store" => contact' # Absent,
         row' # Absent => Alike(f, RecordOf(row'), k),
         f = "shim" => row' # Absent /\ row'.path = "flood",
         \A i \in 1..Len(up') : up'[i].cmd = "update" => Alike(f, up'[i].rec, k)
  PROVE  OneField(f, k, q1)'
<1>1. f # "store" => \A i \in 0..Len(down') : q1[i] # Absent
  BY DEF OneField
<1>2. \A i \in 0..Len(down') : q1[i] # Absent => Alike(f, q1[i], k)
  BY DEF OneField
<1> QED
  BY <1>1, <1>2 DEF OneField

\* Some edit is under way that is of no other field.
LEMMA EditUnderWay ==
  ASSUME TypeOK
  PROVE  /\ calls # <<>> => Head(calls) \in Edits /\ Head(calls) \in Calls
         /\ done # <<>> => Head(done) \in Edits /\ Head(done) \in Calls
<1>1. calls # <<>> => Range(calls) = Range(Tail(calls)) \cup {Head(calls)} /\ Head(calls) \in Calls
  BY RangeSplit, Typed
<1>2. done # <<>> => Range(done) = Range(Tail(done)) \cup {Head(done)} /\ Head(done) \in Calls
  BY RangeSplit, Typed
<1> QED
  BY <1>1, <1>2 DEF Edits

\* One more edit is answered.
LEMMA LeadsOn ==
  ASSUME TypeOK, NEW r, NEW r1, Leads(r, done), NEW c \in Calls,
         Left(c, c.ok, r, r1), done = <<>> /\ c.op = "add" /\ r = Absent => contact = Absent,
         done' = Append(done, c), contact' = contact
  PROVE  Leads(r1, done)'
<1> DEFINE d == Append(done, c)
           n == Len(done)
<1>1. /\ n \in Nat /\ Len(d) = n + 1 /\ d[n + 1] = c
      /\ \A i \in 1..n : d[i] = done[i]
      /\ done = <<>> <=> n = 0
  BY Typed, AppendProperties, LenProperties, EmptySeq
<1>2. \A i \in 1..(n + 1) : i \in 1..n \/ i = n + 1
  BY <1>1
<1>3. ~c.ok => c.op = "add" /\ r = Absent /\ r1 = Absent
  BY DEF Left
<1>3a. done' = d
  OBVIOUS
<1> HIDE DEF d, n
<1>4. Left(d[Len(d)], d[Len(d)].ok, r1, r1)
  <2>1. CASE c.ok
    <3>1. Leaves(c, r1)
      BY <2>1 DEF Left
    <3> QED
      BY <1>1, <2>1, <3>1 DEF Left
  <2>2. CASE ~c.ok
    BY <1>1, <1>3, <2>2 DEF Left
  <2> QED
    BY <2>1, <2>2
<1>5. \A k \in 1..Len(d) : ~d[k].ok => d[k].op = "add"
  BY <1>1, <1>2, <1>3 DEF Leads, n
<1>6. ASSUME NEW k \in 1..Len(d), k > 1, ~d[k].ok PROVE ~EffectiveAdd(d[k - 1])
  <2>1. CASE k \in 1..n
    <3>1. k - 1 \in 1..n
      BY <1>1, <1>6, <2>1
    <3> QED
      BY <1>1, <1>6, <2>1, <3>1 DEF Leads, n
  <2>2. CASE k = n + 1
    <3>1. r = Absent /\ n \in 1..n /\ k - 1 = n /\ d[n] = done[n] /\ done # <<>>
      BY <1>1, <1>3, <1>6, <2>2
    <3>2. Left(done[n], done[n].ok, r, r)
      BY <3>1 DEF Leads, n
    <3> QED
      BY <3>1, <3>2 DEF Left, Leaves, EffectiveAdd
  <2> QED
    BY <1>1, <1>2, <1>6, <2>1, <2>2
<1>7. ASSUME d # <<>>, ~d[1].ok
      PROVE  contact = Absent \/ \E j \in 1..Len(d) : j > 1 /\ EffectiveAdd(d[j])
  <2>1. CASE done = <<>>
    <3>1. d[1] = c
      BY <1>1, <2>1
    <3> QED
      BY <1>3, <1>7, <2>1, <3>1
  <2>2. CASE done # <<>>
    <3>1. 1 \in 1..n /\ d[1] = done[1]
      BY <1>1, <2>2
    <3>2. contact = Absent \/ \E j \in 1..n : j > 1 /\ EffectiveAdd(done[j])
      BY <1>7, <2>2, <3>1 DEF Leads, n
    <3>3. \A j \in 1..n : j \in 1..Len(d) /\ d[j] = done[j]
      BY <1>1
    <3> QED
      BY <3>2, <3>3
  <2> QED
    BY <2>1, <2>2
<1> QED
  BY <1>3a, <1>4, <1>5, <1>6, <1>7 DEF Leads, EffectiveAdd

LEMMA GotAckAgrees ==
  ASSUME IInv, Agreeing, down # <<>>, GotAck, down' = Tail(down), UNCHANGED radio
  PROVE  Agreeing'
<1> SUFFICES ASSUME clean' PROVE Agreeing'
  BY DEF Agreeing
<1> DEFINE n == Len(down)
           code == Head(down).code
           c == Head(calls)
<1>1. /\ code \in AckCodes /\ UNCHANGED <<row, contact, asks, up, clean>>
      /\ calls # <<>> => /\ done' = Append(done, [c EXCEPT !.ok = Confirms(code, c)])
                         /\ calls' = Tail(calls)
  BY DEF GotAck, host, history, AckCodes, Confirms
<1>2. TypeOK /\ HostOK
  BY <1>1 DEF IInv, Agreeing
<1>3f. PICK f \in Fields, k \in Records : \E q, a, b : Told(f, k, q, a, b)
  BY <1>1 DEF Agreeing
<1>3. PICK q, a, b : Told(f, k, q, a, b)
  BY <1>3f
<1>4. /\ Story(q, a, down, calls, Busy) /\ q[n] = radio
      /\ Sent(b, up, calls, a[n]) /\ Leads(q[0], done)
      /\ Busy => OneField(f, k, q)
      /\ done = <<>> /\ (Busy => f # "shim") => q[0] = HostRec
  BY <1>3 DEF Told
<1>5. /\ calls \in Seq(Calls) /\ done \in Seq(Calls) /\ up \in Seq(Commands)
      /\ a[n] \in Nat
  BY <1>2, <1>3, Typed, ToldBounds
<1>6. /\ n \in Nat /\ n >= 1 /\ Len(Tail(down)) = n - 1
      /\ calls # <<>> /\ a[n] >= 1 /\ Left(c, Confirms(code, c), q[0], q[1])
  BY <1>1, <1>2, <1>3, ToldTail
<1>7. PICK q1, a1 : Shifted(q1, a1, q, a, Tail(calls), Busy)
  <2>1. Rest(Head(down), calls) = Tail(calls)
    BY <1>1 DEF Rest
  <2> QED
    BY <1>2, <1>3, <2>1, ToldTail
<1>8. c \in Calls /\ c \in Edits
  BY <1>2, <1>6, EditUnderWay
<1> HIDE DEF n, code, c
<1> DEFINE c1 == [c EXCEPT !.ok = Confirms(code, c)]
<1>9. /\ c1 \in Calls /\ c1.op = c.op /\ c1.arg = c.arg /\ c1.contact = c.contact
      /\ c1.row = c.row /\ c1.ok = Confirms(code, c)
  BY <1>8 DEF Calls, Confirms
<1>10. done' = Append(done, c1) /\ calls' = Tail(calls)
  BY <1>1, <1>6
<1> HIDE DEF c1
<1>11. Busy /\ Busy' = TRUE /\ done' # <<>>
  <2>1. done' # <<>>
    BY <1>5, <1>9, <1>10, AppendProperties
  <2> QED
    BY <1>6, <2>1 DEF Busy
<1>12. OneField(f, k, q) /\ EditIsOf(c, f, k) /\ EditIsOf(c1, f, k)
  <2>1. OneField(f, k, q) /\ EditIsOf(c, f, k)
    BY <1>4, <1>8, <1>11 DEF OneField
  <2> QED
    BY <1>9, <2>1 DEF EditIsOf
<1>13. Leads(q1[0], done)'
  <2>1. Left(c1, c1.ok, q[0], q[1])
    <3>1. SameEdit(c1, c)
      BY <1>9 DEF SameEdit
    <3> QED
      BY <1>6, <1>9, <3>1, SameEditIs
  <2>2. done = <<>> /\ c1.op = "add" /\ q[0] = Absent => contact = Absent
    <3> SUFFICES ASSUME done = <<>>, c1.op = "add", q[0] = Absent PROVE contact = Absent
      OBVIOUS
    <3>1. f # "shim"
      BY <1>9, <1>12 DEF EditIsOf, Field
    <3>2. HostRec = Absent
      BY <1>4, <3>1
    <3> QED
      BY <1>2, <3>2, HostRecIs
  <2>3. q1[0] = q[1] /\ contact' = contact
    BY <1>1, <1>7 DEF Shifted
  <2>4. Leads(q[1], done)'
    BY <1>2, <1>4, <1>9, <1>10, <2>1, <2>2, <2>3, LeadsOn
  <2> QED
    BY <2>3, <2>4
<1>14. Sent(b, up', calls', a1[Len(down')])
  <2>1. a1[n - 1] = a[n] - 1
    BY <1>1, <1>7 DEF Shifted, Settles, n, code
  <2>2. Sent(b, up, Tail(calls), a[n] - 1)
    BY <1>4, <1>5, <1>6, SentSettled
  <2> QED
    BY <1>1, <1>6, <1>10, <2>1, <2>2
<1>15. OneField(f, k, q1)'
  <2>1. \A e \in Edits' : EditIsOf(e, f, k)
    <3>1. Range(done') = Range(done) \cup {c1}
      BY <1>5, <1>9, <1>10, RangeAppended
    <3>2. Range(calls) = Range(Tail(calls)) \cup {c}
      BY <1>5, <1>6, RangeSplit DEF c
    <3>3. Edits' \subseteq Edits \cup {c1}
      BY <1>10, <3>1, <3>2 DEF Edits
    <3> QED
      BY <1>12, <3>3 DEF OneField
  <2>2. \A e \in Edits' : EditIsOf(e, f, k)'
    BY <1>1, <2>1 DEF EditIsOf
  <2>3. /\ Len(down) \in Nat /\ Len(down') = Len(down) - 1
        /\ \A i \in 0..(Len(down) - 1) : i + 1 \in 0..Len(down) /\ q1[i] = q[i + 1]
    BY <1>6, <1>7 DEF Shifted, n
  <2>4. /\ asks' > 0 => f = "shim"
        /\ f # "store" => contact' # Absent
        /\ row' # Absent => Alike(f, RecordOf(row'), k)
        /\ f = "shim" => row' # Absent /\ row'.path = "flood"
        /\ \A i \in 1..Len(up') : up'[i].cmd = "update" => Alike(f, up'[i].rec, k)
    BY <1>1, <1>12 DEF OneField
  <2> QED
    BY <1>12, <2>2, <2>3, <2>4, OneFieldTail
<1>16. Story(q1, a1, down', calls', Busy') /\ q1[Len(down')] = radio'
  BY <1>4, <1>6, <1>7, <1>10, <1>11 DEF Shifted, n
<1>17. HostOK'
  BY <1>1, <1>2 DEF HostOK
<1>18. Told(f, k, q1, a1, b)'
  BY <1>11, <1>13, <1>14, <1>15, <1>16 DEF Told
<1> QED
  BY <1>17, <1>18 DEF Agreeing

\* What goes before each frame that is no answer.
LEMMA TakenFrame ==
  ASSUME TypeOK, down # <<>>, Head(down).code \notin AckCodes,
         NEW f, NEW k, NEW q, NEW a, NEW b, Told(f, k, q, a, b)
  PROVE  /\ \E q1, a1 : Shifted(q1, a1, q, a, calls, Busy)
         /\ Len(down) \in Nat /\ Len(down) >= 1 /\ Len(Tail(down)) = Len(down) - 1
         /\ q[0] \in Records \cup {Absent} /\ q[1] \in Records \cup {Absent}
         /\ q[1] = q[0] \/ (~Busy /\ q[1] = Absent /\ Head(down).code = "gone")
         /\ Head(down).code = "record" => q[1] = Head(down).rec
         /\ Head(down).code = "gone" => q[1] = Absent
         /\ Head(down).code = "advert" => ~Busy /\ q[1] = Absent /\ q[0] = Absent
         /\ Settles(Head(down)) = 0 /\ a[Len(down)] \in Nat /\ a[Len(down)] - 0 = a[Len(down)]
         /\ a[Len(down)] <= Len(calls)
<1>1. Rest(Head(down), calls) = calls /\ Settles(Head(down)) = 0
  BY DEF Rest, Settles
<1>2. a[Len(down)] \in Nat /\ a[Len(down)] <= Len(calls)
  BY ToldBounds
<1>3. \E q1, a1 : Shifted(q1, a1, q, a, calls, Busy)
  BY <1>1, ToldTail
<1>4. /\ Len(down) \in Nat /\ Len(down) >= 1 /\ Len(Tail(down)) = Len(down) - 1
      /\ q[0] \in Records \cup {Absent} /\ q[1] \in Records \cup {Absent}
      /\ q[1] = q[0] \/ (~Busy /\ q[1] = Absent /\ Head(down).code = "gone")
      /\ Head(down).code = "record" => q[1] = Head(down).rec
      /\ Head(down).code = "gone" => q[1] = Absent
      /\ Head(down).code = "advert" => ~Busy /\ q[1] = Absent /\ q[0] = Absent
  BY ToldTail
<1> QED
  BY <1>1, <1>2, <1>3, <1>4

\* A frame that only the host takes note of: the edits under way stay what they are.
LEMMA NotedAgrees ==
  ASSUME TypeOK, down # <<>>, Head(down).code \notin AckCodes, down' = Tail(down),
         UNCHANGED <<radio, asks, up>>, row' \in Rows \cup {Absent},
         calls' = Shared(calls, row') \/ calls' = Severed(calls) \/ calls' = calls,
         done' = Shared(done, row') \/ done' = Severed(done) \/ done' = done,
         NEW f, NEW k, NEW q, NEW a, NEW b, Told(f, k, q, a, b),
         Leads(q[1], done)',
         Busy => /\ \A c \in Edits' : EditIsOf(c, f, k)'
                 /\ f # "store" => contact' # Absent
                 /\ row' # Absent => Alike(f, RecordOf(row'), k)
                 /\ f = "shim" => row' # Absent /\ row'.path = "flood",
         done = <<>> /\ (Busy => f # "shim") => q[1] = HostRec'
  PROVE  \E q1, a1 : Told(f, k, q1, a1, b)'
<1> DEFINE n == Len(down)
<1>1. PICK q1, a1 : Shifted(q1, a1, q, a, calls, Busy)
  BY TakenFrame
<1>2. /\ n \in Nat /\ n >= 1 /\ Len(down') = n - 1 /\ Settles(Head(down)) = 0
      /\ a[n] \in Nat /\ a[n] - 0 = a[n] /\ a[n] <= Len(calls)
  BY TakenFrame
<1>3. /\ Story(q, a, down, calls, Busy) /\ q[n] = radio
      /\ Sent(b, up, calls, a[n]) /\ Leads(q[0], done)
      /\ Busy => OneField(f, k, q)
  BY DEF Told
<1>4. /\ calls' \in Seq(Calls) /\ (calls' = <<>> <=> calls = <<>>)
      /\ Len(calls) \in Nat /\ Len(calls') = Len(calls)
      /\ \A i \in 1..Len(calls) : SameEdit(calls'[i], calls[i])
  BY Typed, KeptIs DEF Kept
<1>5. done' \in Seq(Calls) /\ (done' = <<>> <=> done = <<>>)
  BY Typed, KeptIs
<1> HIDE DEF n
<1>6. Busy' = Busy
  BY <1>4, <1>5 DEF Busy
<1>7. /\ Story(q1, a1, down', calls, Busy) /\ q1[0] = q[1] /\ q1[n - 1] = q[n]
      /\ a1[Len(down')] = a[n]
      /\ \A i \in 0..(Len(down) - 1) : i + 1 \in 0..Len(down) /\ q1[i] = q[i + 1]
  BY <1>1, <1>2 DEF Shifted, n
<1>8. Story(q1, a1, down', calls', Busy)
  <2>1. \A i \in 1..a1[Len(down')] : SameEdit(calls'[i], calls[i])
    BY <1>2, <1>4, <1>7
  <2>2. down' \in Seq(Frames) /\ Busy \in BOOLEAN
    BY Typed, HeadTailProperties DEF Busy
  <2> QED
    BY <1>7, <2>1, <2>2, StorySame
<1>9. Sent(b, up', calls', a1[Len(down')])
  BY <1>2, <1>3, <1>4, <1>7, Typed, SentSame
<1>10. Busy => OneField(f, k, q1)'
  <2> SUFFICES ASSUME Busy PROVE OneField(f, k, q1)'
    OBVIOUS
  <2>1. OneField(f, k, q)
    BY <1>3
  <2>2. /\ asks' > 0 => f = "shim"
        /\ \A i \in 1..Len(up') : up'[i].cmd = "update" => Alike(f, up'[i].rec, k)
    BY <2>1 DEF OneField
  <2>3. Len(down) \in Nat /\ Len(down') = Len(down) - 1
    BY <1>2 DEF n
  <2> QED
    BY <1>7, <2>1, <2>2, <2>3, OneFieldTail
<1>11. Leads(q1[0], done)'
  BY <1>7
<1>12. q1[Len(down')] = radio'
  BY <1>2, <1>3, <1>7
<1>13. done' = <<>> /\ (Busy' => f # "shim") => q1[0] = HostRec'
  BY <1>5, <1>6, <1>7
<1>14. Told(f, k, q1, a1, b)'
  BY <1>6, <1>8, <1>9, <1>10, <1>11, <1>12, <1>13 DEF Told
<1> QED
  BY <1>14

\* An edit is called for by the host itself: sendAnonReq takes its shim back.
LEMMA GotSentAgrees ==
  ASSUME IInv, Agreeing, down # <<>>, GotSent, down' = Tail(down), UNCHANGED radio
  PROVE  Agreeing'
<1> SUFFICES ASSUME clean' PROVE Agreeing'
  BY DEF Agreeing
<1> DEFINE n == Len(down)
           back == Call("restore", NoArg, Absent, Absent)
<1>1. /\ Head(down).code = "sent" /\ UNCHANGED <<row, contact, done, clean>>
      /\ \/ UNCHANGED <<calls, asks, up>>
         \/ /\ asks # 0 /\ asks' = asks - 1
            /\ calls' = Append(calls, back) /\ up' = Append(up, Bare("reset"))
  BY DEF GotSent, host, history
<1>2. TypeOK /\ HostOK /\ HostOK' /\ HostRec' = HostRec
  BY <1>1 DEF IInv, Agreeing, HostOK, HostRec
<1>3f. PICK f \in Fields, k \in Records : \E q, a, b : Told(f, k, q, a, b)
  BY <1>1 DEF Agreeing
<1>3. PICK q, a, b : Told(f, k, q, a, b)
  BY <1>3f
<1>4. /\ Story(q, a, down, calls, Busy) /\ q[n] = radio
      /\ Sent(b, up, calls, a[n]) /\ Leads(q[0], done)
      /\ Busy => OneField(f, k, q)
      /\ done = <<>> /\ (Busy => f # "shim") => q[0] = HostRec
  BY <1>3 DEF Told
<1>5. Head(down).code \notin AckCodes /\ q[1] = q[0]
  <2>1. Head(down).code \notin AckCodes
    BY <1>1 DEF AckCodes
  <2>2. q[1] = q[0] \/ Head(down).code = "gone"
    BY <1>2, <1>3, <2>1, TakenFrame
  <2> QED
    BY <1>1, <2>1, <2>2
<1>6. Leads(q[1], done)'
  <2>1. Leads(q[0], done)' = Leads(q[0], done)
    BY <1>1 DEF Leads
  <2> QED
    BY <1>4, <1>5, <2>1
<1>7. CASE UNCHANGED <<calls, asks, up>>
  <2>1. row' \in Rows \cup {Absent}
    BY <1>1, <1>2, Typed
  <2>2. Busy => /\ \A c \in Edits' : EditIsOf(c, f, k)'
                /\ f # "store" => contact' # Absent
                /\ row' # Absent => Alike(f, RecordOf(row'), k)
                /\ f = "shim" => row' # Absent /\ row'.path = "flood"
    <3>1. Edits' = Edits /\ \A c : EditIsOf(c, f, k)' = EditIsOf(c, f, k)
      BY <1>1, <1>7 DEF Edits, EditIsOf
    <3> QED
      BY <1>1, <1>4, <3>1 DEF OneField
  <2>3. done = <<>> /\ (Busy => f # "shim") => q[1] = HostRec'
    BY <1>2, <1>4, <1>5
  <2>4. \E q1, a1 : Told(f, k, q1, a1, b)'
    BY <1>1, <1>2, <1>3, <1>5, <1>6, <1>7, <2>1, <2>2, <2>3, NotedAgrees
  <2> QED
    BY <1>2, <2>4 DEF Agreeing
<1>8. CASE /\ asks # 0 /\ asks' = asks - 1
           /\ calls' = Append(calls, back) /\ up' = Append(up, Bare("reset"))
  <2>1. Busy /\ asks \in Nat /\ asks > 0
    BY <1>2, <1>8 DEF Busy, TypeOK
  <2>2. OneField(f, k, q) /\ f = "shim"
    BY <1>4, <2>1 DEF OneField
  <2>3. PICK q1, a1 : Shifted(q1, a1, q, a, calls, Busy)
    BY <1>2, <1>3, <1>5, TakenFrame
  <2>4. /\ n \in Nat /\ n >= 1 /\ Len(down') = n - 1 /\ Settles(Head(down)) = 0
        /\ a[n] \in Nat /\ a[n] - 0 = a[n] /\ a[n] <= Len(calls)
    BY <1>2, <1>3, <1>5, TakenFrame
  <2>5. /\ Story(q1, a1, down', calls, Busy) /\ q1[0] = q[1] /\ q1[n - 1] = q[n]
        /\ a1[Len(down')] = a[n]
        /\ \A i \in 0..(Len(down) - 1) : i + 1 \in 0..Len(down) /\ q1[i] = q[i + 1]
    BY <2>3, <2>4 DEF Shifted, n
  <2> HIDE DEF n
  <2>6. /\ back \in Calls /\ back.op = "restore"
        /\ Bare("reset") \in Commands /\ Bare("reset").cmd = "reset"
    <3>1. "restore" \in Ops
      BY DEF Ops
    <3>2. back \in Calls /\ back.op = "restore"
      BY <3>1, PlainCallIs
    <3> QED
      BY <3>2, BareIs DEF Bare
  <2> HIDE DEF back
  <2>7. /\ calls \in Seq(Calls) /\ up \in Seq(Commands) /\ down' \in Seq(Frames)
        /\ calls' \in Seq(Calls) /\ Len(calls') = Len(calls) + 1 /\ calls' # <<>>
        /\ Len(calls) \in Nat /\ \A i \in 1..Len(calls) : calls'[i] = calls[i]
    BY <1>2, <1>8, <2>6, Typed, AppendProperties, LenProperties, HeadTailProperties, EmptySeq
  <2>8. Busy' = TRUE /\ Busy = TRUE
    BY <2>1, <2>7 DEF Busy
  <2>9. Story(q1, a1, down', calls', Busy')
    <3>1. \A i \in 1..a1[Len(down')] : SameEdit(calls'[i], calls[i])
      BY <2>4, <2>5, <2>7 DEF SameEdit
    <3> QED
      BY <2>5, <2>7, <2>8, <3>1, StorySame
  <2>10. PICK b1 : Sent(b1, up', calls', a1[Len(down')])
    <3>1. CommandOf(Bare("reset"), back)
      BY <2>6 DEF CommandOf
    <3>2. Bare("reset").cmd # "anon" /\
          \E c \in Calls : CommandOf(Bare("reset"), c) /\ calls' = Append(calls, c)
      BY <1>8, <2>6, <3>1
    <3>3. \E b1 : Sent(b1, Append(up, Bare("reset")), calls', a[n])
      BY <1>4, <2>4, <2>6, <2>7, <3>2, SentAppend
    <3> QED
      BY <1>8, <2>5, <3>3
  <2>11. OneField(f, k, q1)'
    <3>1. \A c \in Edits' : EditIsOf(c, f, k)'
      <4>1. Edits' = Edits \cup {back}
        <5>1. Range(calls') = Range(calls) \cup {back}
          BY <1>8, <2>6, <2>7, RangeAppended
        <5> QED
          BY <1>1, <5>1 DEF Edits
      <4>2. EditIsOf(back, f, k)
        BY <2>2, <2>6 DEF EditIsOf, Field
      <4>3. \A c : EditIsOf(c, f, k)' = EditIsOf(c, f, k)
        BY <1>1 DEF EditIsOf
      <4> QED
        BY <2>2, <4>1, <4>2, <4>3 DEF OneField
    <3>2. \A i \in 1..Len(up') : up'[i].cmd = "update" => Alike(f, up'[i].rec, k)
      <4>1. /\ Len(up') = Len(up) + 1 /\ Len(up) \in Nat /\ up'[Len(up) + 1] = Bare("reset")
            /\ \A i \in 1..Len(up) : up'[i] = up[i]
        BY <1>8, <2>6, <2>7, AppendProperties, LenProperties
      <4>2. \A i \in 1..Len(up') : i \in 1..Len(up) \/ i = Len(up) + 1
        BY <4>1
      <4> QED
        BY <2>2, <2>6, <4>1, <4>2 DEF OneField
    <3>3. /\ f # "store" => contact' # Absent
          /\ row' # Absent => Alike(f, RecordOf(row'), k)
          /\ f = "shim" => row' # Absent /\ row'.path = "flood"
      BY <1>1, <2>2 DEF OneField
    <3>4. Len(down) \in Nat /\ Len(down') = Len(down) - 1
      BY <2>4 DEF n
    <3> QED
      BY <2>2, <2>5, <3>1, <3>2, <3>3, <3>4, OneFieldTail
  <2>12. q1[Len(down')] = radio' /\ Leads(q1[0], done)'
    BY <1>4, <1>6, <2>4, <2>5 DEF n
  <2>13. Told(f, k, q1, a1, b1)'
    BY <2>2, <2>8, <2>9, <2>10, <2>11, <2>12 DEF Told
  <2> QED
    BY <1>2, <2>13 DEF Agreeing
<1> QED
  BY <1>1, <1>7, <1>8

\* The entry a record leaves shows it.
LEMMA MergedShows ==
  ASSUME NEW rec \in Records, NEW old \in Entries \cup {Absent}
  PROVE  Shows(Merged(rec, old), rec)
<1>1. /\ Merged(rec, old).fav = rec.fav /\ Merged(rec, old).perms = rec.perms
      /\ \/ Merged(rec, old).path = PathHex(rec.path)
         \/ /\ Merged(rec, old).manual
            /\ PathHex(rec.path) = "none"
  BY DEF Merged
<1> QED
  BY <1>1 DEF Shows

\* Records that differ in no field.
LEMMA AlikeStore ==
  ASSUME NEW r \in Records, NEW k \in Records, Alike("store", r, k)
  PROVE  r = k
BY DEF Alike, Records

\* The copies of the edits under way are of the field the edits are of.
LEMMA CopiesAreOf ==
  ASSUME TypeOK, row' \in Rows \cup {Absent}, NEW d \in Seq(Calls), Range(d) \subseteq Range(done),
         calls' = Shared(calls, row') \/ calls' = Severed(calls) \/ calls' = calls,
         done' = Shared(d, row') \/ done' = Severed(d) \/ done' = d,
         NEW f, NEW k \in Records, \A c \in Edits : EditIsOf(c, f, k),
         f = "store" /\ row # Absent => row' # Absent,
         f = "store" /\ row' # Absent => RecordOf(row') = k
  PROVE  \A c \in Edits' : EditIsOf(c, f, k)'
<1>1. /\ \A c \in Range(calls') : \E e \in Range(calls) : Copies(c, e, row')
      /\ \A c \in Range(done') : \E e \in Range(d) : Copies(c, e, row')
  BY Typed, KeptIs
<1>2. \A c \in Edits' : \E e \in Edits : Copies(c, e, row')
  BY <1>1 DEF Edits
<1> QED
  BY <1>2, CopyIsOf

LEMMA GotRecordAgrees ==
  ASSUME IInv, Agreeing, down # <<>>, GotRecord, down' = Tail(down), UNCHANGED radio
  PROVE  Agreeing'
<1> SUFFICES ASSUME clean' PROVE Agreeing'
  BY DEF Agreeing
<1> DEFINE rec == Head(down).rec
<1>1. /\ Head(down).code = "record" /\ row' = RowOf(rec, TRUE) /\ contact' = Merged(rec, contact)
      /\ calls' = Severed(calls) /\ done' = Severed(done) /\ UNCHANGED <<asks, up>>
      /\ rec.path # "shim" /\ (clean \/ (Idle /\ Len(down) = 1 /\ rec = radio))
  BY DEF GotRecord
<1>2. TypeOK /\ rec \in Records /\ Absent \notin Records
  BY <1>1, FrameIs, AbsentAssumption DEF IInv
<1> HIDE DEF rec
<1>3. /\ row' \in Rows /\ row' # Absent /\ contact' \in Entries /\ contact' # Absent
      /\ row'.on /\ RecordOf(row') = rec /\ row'.path = rec.path
  <2>1. row' \in Rows /\ contact' \in Entries
    BY <1>1, <1>2, RowIs, MergedIs, Typed
  <2>2. row'.on /\ RecordOf(row') = rec /\ row'.path = rec.path
    BY <1>1, <1>2 DEF RowOf, RecordOf, Records
  <2> QED
    BY <2>1, <2>2, AbsentAssumption
<1>4. HostOK' /\ HostRec' = rec
  <2>1. Shows(contact', rec)
    BY <1>1, <1>2, MergedShows, Typed
  <2> QED
    BY <1>3, <2>1 DEF HostOK, HostRec
<1>5. CASE clean
  <2>1f. PICK f \in Fields, k \in Records : \E q, a, b : Told(f, k, q, a, b)
    BY <1>5 DEF Agreeing
  <2>1. PICK q, a, b : Told(f, k, q, a, b)
    BY <2>1f
  <2>2. /\ Leads(q[0], done)
        /\ Busy => OneField(f, k, q)
    BY <2>1 DEF Told
  <2>3. /\ Head(down).code \notin AckCodes /\ q[1] = rec /\ q[0] = rec
        /\ Len(down) \in Nat /\ Len(down) >= 1
    <3>1. Head(down).code \notin AckCodes
      BY <1>1 DEF AckCodes
    <3>2. q[1] = rec /\ (q[1] = q[0] \/ q[1] = Absent) /\ Len(down) \in Nat /\ Len(down) >= 1
      BY <1>1, <1>2, <2>1, <3>1, TakenFrame DEF rec
    <3> QED
      BY <1>2, <3>1, <3>2
  <2>4. Busy => /\ \A c \in Edits : EditIsOf(c, f, k)
                /\ Alike(f, rec, k)
                /\ f = "shim" => rec.path = "flood"
    <3> SUFFICES ASSUME Busy PROVE /\ \A c \in Edits : EditIsOf(c, f, k)
                                   /\ Alike(f, rec, k)
                                   /\ f = "shim" => rec.path = "flood"
      OBVIOUS
    <3>1. Alike(f, rec, k)
      <4>1. 1 \in 0..Len(down) /\ q[1] # Absent
        BY <1>2, <2>3
      <4> QED
        BY <2>2, <2>3, <4>1 DEF OneField
    <3> QED
      BY <1>1, <2>2, <3>1 DEF OneField, Alike
  <2>5. Kept(done', done, row') /\ done' \in Seq(Calls) /\ done \in Seq(Calls)
    BY <1>1, <1>2, <1>3, Typed, KeptIs
  <2>6. Leads(q[1], done)'
    <3>1. ASSUME done # <<>>, ~done[1].ok
          PROVE  \E j \in 1..Len(done) : j > 1 /\ EffectiveAdd(done[j])
      <4> DEFINE m == Len(done)
      <4>1. m \in Nat /\ m >= 1 /\ 1 \in 1..m /\ m \in 1..m /\ DOMAIN done = 1..m
        BY <2>5, <3>1, LenProperties, EmptySeq
      <4>2. Left(done[m], done[m].ok, rec, rec)
        BY <2>2, <2>3, <3>1 DEF Leads
      <4>3. done[m].ok /\ done[m].op # "remove"
        BY <1>2, <4>2 DEF Left, Leaves
      <4>4. done[1].op = "add"
        BY <2>2, <3>1, <4>1 DEF Leads
      <4>5. done[1] \in Edits /\ done[m] \in Edits /\ done[m] \in Calls
        <5>1. done[1] \in Range(done) /\ done[m] \in Range(done)
          BY <4>1 DEF Range
        <5> QED
          BY <1>2, <5>1, Typed DEF Edits
      <4>6. Field(done[m].op) = "store"
        <5>1. Field(done[m].op) = Field(done[1].op)
          BY <2>4, <3>1, <4>5 DEF Busy, EditIsOf
        <5> QED
          BY <4>4, <5>1 DEF Field
      <4>7. EffectiveAdd(done[m])
        BY <4>3, <4>5, <4>6 DEF EffectiveAdd, Field, Calls, Ops
      <4>8. m # 1
        BY <3>1, <4>3
      <4> QED
        BY <4>1, <4>7, <4>8
    <3>2. /\ done # <<>> => Left(done[Len(done)], done[Len(done)].ok, q[1], q[1])
          /\ \A j \in 1..Len(done) : ~done[j].ok => done[j].op = "add"
          /\ \A j \in 1..Len(done) : j > 1 /\ ~done[j].ok => ~EffectiveAdd(done[j - 1])
      BY <2>2, <2>3 DEF Leads
    <3>3. PICK d1 \in Seq(Calls) : d1 = done'
      BY <2>5
    <3>4. Kept(d1, done, row') /\ done \in Seq(Calls)
      BY <2>5, <3>3
    <3>5. Leads(q[1], d1)'
      BY <3>1, <3>2, <3>4, LeadsKept
    <3> QED
      BY <3>3, <3>5 DEF Leads
  <2>7. Busy => /\ \A c \in Edits' : EditIsOf(c, f, k)'
                /\ f # "store" => contact' # Absent
                /\ row' # Absent => Alike(f, RecordOf(row'), k)
                /\ f = "shim" => row' # Absent /\ row'.path = "flood"
    <3> SUFFICES ASSUME Busy PROVE \A c \in Edits' : EditIsOf(c, f, k)'
      BY <1>3, <2>4
    <3>1. f = "store" => RecordOf(row') = k
      BY <1>2, <1>3, <2>4, AlikeStore
    <3>2. Range(done) \subseteq Range(done)
      OBVIOUS
    <3> QED
      BY <1>1, <1>2, <1>3, <2>4, <2>5, <3>1, <3>2, CopiesAreOf
  <2>8. done = <<>> /\ (Busy => f # "shim") => q[1] = HostRec'
    BY <1>4, <2>3
  <2>9. \E q1, a1 : Told(f, k, q1, a1, b)'
    BY <1>1, <1>2, <1>3, <2>1, <2>3, <2>6, <2>7, <2>8, NotedAgrees
  <2> QED
    BY <1>4, <2>9 DEF Agreeing
<1>6. CASE Idle /\ Len(down) = 1 /\ rec = radio
  <2>1. calls' = <<>> /\ done' = <<>> /\ up' = <<>> /\ down' = <<>> /\ asks' = 0
    <3>1. calls' = <<>> /\ done' = <<>>
      <4>1. calls = <<>> /\ done = <<>> /\ calls \in Seq(Calls) /\ done \in Seq(Calls)
        BY <1>2, <1>6, Typed DEF Idle
      <4> QED
        BY <1>1, <1>3, <4>1, KeptIs
    <3>2. down' = <<>>
      <4>1. down \in Seq(Frames) /\ Tail(down) \in Seq(Frames) /\ Len(Tail(down)) = 0
        BY <1>2, <1>6, Typed, HeadTailProperties
      <4> QED
        BY <4>1, EmptySeq
    <3> QED
      BY <1>1, <1>6, <3>1, <3>2 DEF Idle
  <2>2. Busy' = FALSE
    BY <2>1 DEF Busy
  <2>3. PICK q, a, b : /\ Story(q, a, <<>>, <<>>, FALSE) /\ Sent(b, <<>>, <<>>, a[0])
                       /\ q[0] = rec
    BY <1>2, EmptyStory
  <2>4. Leads(q[0], done)'
    <3>1. Len(<<>>) = 0 /\ \A j \in 1..0 : FALSE
      OBVIOUS
    <3> QED
      BY <2>1, <3>1 DEF Leads
  <2>4a. PICK k \in Records : k = rec
    BY <1>2
  <2>5. Told("path", k, q, a, b)'
    <3>1. Len(<<>>) = 0 /\ q[0] = radio'
      BY <1>6, <2>3
    <3>2. Story(q, a, down', calls', Busy') /\ Sent(b, up', calls', a[Len(down')])
      BY <2>1, <2>2, <2>3, <3>1
    <3> QED
      BY <1>4, <2>1, <2>2, <2>3, <2>4, <3>1, <3>2 DEF Told
  <2>6. "path" \in Fields
    BY DEF Fields
  <2>7. \E f \in Fields, r \in Records : \E q1, a1, b1 : Told(f, r, q1, a1, b1)'
    BY <2>5, <2>6
  <2> QED
    BY <1>4, <2>7 DEF Agreeing
<1> QED
  BY <1>1, <1>5, <1>6

\* Nothing is under way when it comes, and the host takes the radio to hold nothing.
LEMMA GotNewAdvertAgrees ==
  ASSUME IInv, Agreeing, down # <<>>, GotNewAdvert, down' = Tail(down), UNCHANGED radio
  PROVE  Agreeing'
<1> SUFFICES ASSUME clean' PROVE Agreeing'
  BY DEF Agreeing
<1> DEFINE rec == [path |-> "flood", fav |-> FALSE, perms |-> FALSE]
           kept == [rec EXCEPT !.fav = row # Absent /\ row.fav,
                               !.perms = row # Absent /\ row.perms]
<1>1. /\ Head(down).code = "advert" /\ row' = RowOf(kept, contact # Absent)
      /\ contact' = IF contact = Absent THEN Absent ELSE Merged(rec, contact)
      /\ calls' = Severed(calls) /\ done' = Severed(done)
      /\ UNCHANGED <<asks, up, clean>>
  BY DEF GotNewAdvert, history
<1>2. TypeOK /\ HostOK
  BY <1>1 DEF IInv, Agreeing
<1>3f. PICK f \in Fields, k \in Records : \E q, a, b : Told(f, k, q, a, b)
  BY <1>1 DEF Agreeing
<1>3. PICK q, a, b : Told(f, k, q, a, b)
  BY <1>3f
<1>4. Head(down).code \notin AckCodes
  BY <1>1 DEF AckCodes
<1>5. ~Busy /\ q[1] = Absent /\ q[0] = Absent
  BY <1>1, <1>2, <1>3, <1>4, TakenFrame
<1>6. contact = Absent /\ done = <<>>
  <2>1. done = <<>> /\ HostRec = Absent
    BY <1>3, <1>5 DEF Told, Busy
  <2> QED
    BY <1>2, <2>1, HostRecIs
<1>7. kept \in Records
  <2>1. row # Absent => row.fav \in BOOLEAN /\ row.perms \in BOOLEAN
    BY <1>2 DEF TypeOK, Rows
  <2>2. (row # Absent /\ row.fav) \in BOOLEAN /\ (row # Absent /\ row.perms) \in BOOLEAN
    BY <2>1
  <2> QED
    BY <2>2 DEF Records, Paths
<1> HIDE DEF kept, rec
<1>8. row' \in Rows /\ ~row'.on /\ contact' = Absent
  <2>1. contact' = Absent /\ row' = RowOf(kept, FALSE)
    BY <1>1, <1>6
  <2>2. RowOf(kept, FALSE) \in Rows
    BY <1>7, RowIs
  <2> QED
    BY <2>1, <2>2 DEF RowOf
<1>9. HostOK' /\ HostRec' = Absent
  BY <1>8 DEF HostOK, HostRec
<1>10. Leads(q[1], done)'
  <2>1. done' = <<>>
    <3>1. row' \in Rows \cup {Absent} /\ <<>> \in Seq(Calls)
      BY <1>8
    <3> QED
      BY <1>1, <1>6, <3>1, KeptIs
  <2>2. Len(<<>>) = 0 /\ \A j \in 1..0 : FALSE
    OBVIOUS
  <2> QED
    BY <2>1, <2>2 DEF Leads
<1>11. \E q1, a1 : Told(f, k, q1, a1, b)'
  <2>1. row' \in Rows \cup {Absent} /\ q[1] = HostRec'
    BY <1>5, <1>8, <1>9
  <2> QED
    BY <1>1, <1>2, <1>3, <1>4, <1>5, <1>10, <2>1, NotedAgrees
<1> QED
  BY <1>9, <1>11 DEF Agreeing

\* The radio's contact is gone: only an add or a removal can be under way.
LEMMA GotDeletedAgrees ==
  ASSUME IInv, Agreeing, down # <<>>, GotDeleted, down' = Tail(down), UNCHANGED radio
  PROVE  Agreeing'
<1> SUFFICES ASSUME clean' PROVE Agreeing'
  BY DEF Agreeing
<1>1. /\ Head(down).code = "gone" /\ Removed
      /\ calls' = Shared(calls, row') /\ done' = Shared(done, row')
      /\ UNCHANGED <<asks, up, clean>>
  BY DEF GotDeleted
<1>2. TypeOK /\ HostOK
  BY <1>1 DEF IInv, Agreeing
<1>3f. PICK f \in Fields, k \in Records : \E q, a, b : Told(f, k, q, a, b)
  BY <1>1 DEF Agreeing
<1>3. PICK q, a, b : Told(f, k, q, a, b)
  BY <1>3f
<1>4. /\ Leads(q[0], done)
      /\ Busy => OneField(f, k, q)
  BY <1>3 DEF Told
<1>5. /\ Head(down).code \notin AckCodes /\ q[1] = Absent
      /\ q[1] = q[0] \/ ~Busy
      /\ Len(down) \in Nat /\ Len(down) >= 1
  <2>1. Head(down).code \notin AckCodes
    BY <1>1 DEF AckCodes
  <2> QED
    BY <1>1, <1>2, <1>3, <2>1, TakenFrame
<1>6. /\ contact' = Absent /\ row' \in Rows \cup {Absent}
      /\ row = Absent => row' = Absent
      /\ row # Absent => row' # Absent /\ ~row'.on /\ RecordOf(row') = RecordOf(row)
  <2>1. row \in Rows \cup {Absent} /\ Absent \notin Rows
    BY <1>2, AbsentAssumption, Typed
  <2>2. contact' = Absent /\ row' = IF row = Absent THEN Absent ELSE [row EXCEPT !.on = FALSE]
    BY <1>1 DEF Removed, Mutate
  <2>3. row # Absent => [row EXCEPT !.on = FALSE] \in Rows /\ ~[row EXCEPT !.on = FALSE].on
                        /\ RecordOf([row EXCEPT !.on = FALSE]) = RecordOf(row)
    BY <2>1 DEF Rows, RecordOf
  <2> QED
    BY <2>1, <2>2, <2>3
<1>7. HostOK' /\ HostRec' = Absent
  BY <1>6 DEF HostOK, HostRec
<1>8. Busy => f = "store"
  <2> SUFFICES ASSUME Busy PROVE f = "store"
    OBVIOUS
  <2>1. q[0] = Absent /\ 0 \in 0..Len(down)
    BY <1>5
  <2> QED
    BY <1>4, <2>1 DEF OneField
<1>9. Leads(q[1], done)'
  <2>1. /\ Kept(done', done, row') /\ done' \in Seq(Calls) /\ done \in Seq(Calls)
        /\ done' = <<>> <=> done = <<>>
    BY <1>1, <1>2, <1>6, Typed, KeptIs
  <2>2. CASE done = <<>>
    <3>1. Len(<<>>) = 0 /\ \A j \in 1..0 : FALSE
      OBVIOUS
    <3> QED
      BY <2>1, <2>2, <3>1 DEF Leads
  <2>3. CASE done # <<>>
    <3>1. q[1] = q[0]
      BY <1>5, <2>3 DEF Busy
    <3>2. PICK d1 \in Seq(Calls) : d1 = done'
      BY <2>1
    <3>3. /\ done # <<>> => Left(done[Len(done)], done[Len(done)].ok, q[1], q[1])
          /\ \A j \in 1..Len(done) : ~done[j].ok => done[j].op = "add"
          /\ \A j \in 1..Len(done) : j > 1 /\ ~done[j].ok => ~EffectiveAdd(done[j - 1])
      BY <1>4, <3>1 DEF Leads
    <3>4. Kept(d1, done, row') /\ done \in Seq(Calls)
      BY <2>1, <3>2
    <3>5. Leads(q[1], d1)'
      BY <1>6, <3>3, <3>4, LeadsKept
    <3> QED
      BY <3>2, <3>5 DEF Leads
  <2> QED
    BY <2>2, <2>3
<1>10. Busy => /\ \A c \in Edits' : EditIsOf(c, f, k)'
               /\ f # "store" => contact' # Absent
               /\ row' # Absent => Alike(f, RecordOf(row'), k)
               /\ f = "shim" => row' # Absent /\ row'.path = "flood"
  <2> SUFFICES ASSUME Busy PROVE /\ \A c \in Edits' : EditIsOf(c, f, k)'
                                 /\ row' # Absent => Alike(f, RecordOf(row'), k)
    BY <1>8
  <2>1. OneField(f, k, q) /\ f = "store"
    BY <1>4, <1>8
  <2>2. row' # Absent => Alike(f, RecordOf(row'), k)
    BY <1>6, <2>1 DEF OneField
  <2>3. row' # Absent => RecordOf(row') = k
    <3>1. row' # Absent => RecordOf(row') \in Records
      BY <1>2, <1>6, HostRecIs
    <3> QED
      BY <2>1, <2>2, <3>1, AlikeStore
  <2>4. \A c \in Edits : EditIsOf(c, f, k)
    BY <2>1 DEF OneField
  <2>5. Range(done) \subseteq Range(done) /\ done \in Seq(Calls)
    BY <1>2, Typed
  <2>6. \A c \in Edits' : EditIsOf(c, f, k)'
    BY <1>1, <1>2, <1>6, <2>3, <2>4, <2>5, CopiesAreOf
  <2> QED
    BY <2>2, <2>6
<1>11. \E q1, a1 : Told(f, k, q1, a1, b)'
  <2>1. q[1] = HostRec'
    BY <1>5, <1>7
  <2> QED
    BY <1>1, <1>2, <1>3, <1>5, <1>6, <1>9, <1>10, <2>1, NotedAgrees
<1> QED
  BY <1>7, <1>11 DEF Agreeing

LEMMA ReceiveAgrees ==
  ASSUME IInv, Agreeing, Receive
  PROVE  Agreeing'
<1>1. /\ down # <<>> /\ down' = Tail(down) /\ UNCHANGED radio
      /\ GotAck \/ GotSent \/ GotRecord \/ GotNewAdvert \/ GotDeleted
  BY DEF Receive
<1> QED
  BY <1>1, GotAckAgrees, GotSentAgrees, GotRecordAgrees, GotNewAdvertAgrees, GotDeletedAgrees

-----------------------------------------------------------------------------
(* An edit goes on, while the copies agree.                                *)

\* The edits that are left still lead to r.
LEMMA LeadsTail ==
  ASSUME NEW d \in Seq(Calls), d # <<>>, NEW r, Leads(r, d),
         NEW d1 \in Seq(Calls), Kept(d1, Tail(d), row'),
         NEW f, \A j \in 1..Len(d) : Field(d[j].op) = f,
         f = "store" => (~d[1].ok /\ contact' = contact) \/ contact' = Absent \/ EffectiveAdd(d[1])
  PROVE  Leads(r, d1)'
<1> DEFINE t == Tail(d)
           n == Len(d)
<1>1. /\ n \in Nat /\ n >= 1 /\ t \in Seq(Calls) /\ Len(t) = n - 1
      /\ \A i \in 1..(n - 1) : t[i] = d[i + 1] /\ i + 1 \in 1..n
      /\ t # <<>> => n >= 2
  BY LenProperties, HeadTailProperties, EmptySeq
<1> HIDE DEF t, n
<1>2. t # <<>> => Left(t[Len(t)], t[Len(t)].ok, r, r)
  <2> SUFFICES ASSUME t # <<>> PROVE Left(t[Len(t)], t[Len(t)].ok, r, r)
    OBVIOUS
  <2>1. t[Len(t)] = d[n]
    <3>1. n - 1 \in 1..(n - 1) /\ (n - 1) + 1 = n
      BY <1>1
    <3> QED
      BY <1>1, <3>1
  <2> QED
    BY <2>1 DEF Leads, n
<1>3. \A k \in 1..Len(t) : ~t[k].ok => t[k].op = "add"
  BY <1>1 DEF Leads, n
<1>4. ASSUME NEW k \in 1..Len(t), k > 1, ~t[k].ok PROVE ~EffectiveAdd(t[k - 1])
  <2>1. /\ k \in 1..(n - 1) /\ k - 1 \in 1..(n - 1) /\ k + 1 \in 1..n
        /\ (k + 1) - 1 = k /\ (k - 1) + 1 = k
    BY <1>1, <1>4
  <2>2. t[k] = d[k + 1] /\ t[k - 1] = d[k]
    BY <1>1, <2>1
  <2>3. k + 1 > 1 /\ ~d[k + 1].ok
    BY <1>4, <2>1, <2>2
  <2>4. ~EffectiveAdd(d[(k + 1) - 1])
    BY <2>1, <2>3 DEF Leads, n
  <2> QED
    BY <2>1, <2>2, <2>4
<1>5. ASSUME t # <<>>, ~t[1].ok
      PROVE  contact' = Absent \/ \E j \in 1..Len(t) : j > 1 /\ EffectiveAdd(t[j])
  <2> SUFFICES ASSUME contact' # Absent
               PROVE  \E j \in 1..Len(t) : j > 1 /\ EffectiveAdd(t[j])
    OBVIOUS
  <2>1. n >= 2 /\ 1 \in 1..n /\ 2 \in 1..n /\ 1 \in 1..(n - 1) /\ 1 + 1 = 2 /\ 2 - 1 = 1
    BY <1>1, <1>5
  <2>2. t[1] = d[2] /\ ~d[2].ok
    BY <1>1, <1>5, <2>1
  <2>3. d[2].op = "add" /\ ~EffectiveAdd(d[1])
    <3>1. d[2].op = "add" /\ ~EffectiveAdd(d[2 - 1])
      BY <2>1, <2>2 DEF Leads, n
    <3> QED
      BY <2>1, <3>1
  <2>4. f = "store"
    BY <2>1, <2>3 DEF Field, n
  <2>5. ~d[1].ok /\ contact # Absent
    BY <2>3, <2>4
  <2>6. PICK j \in 1..n : j > 1 /\ EffectiveAdd(d[j])
    BY <2>5 DEF Leads, n
  <2>7. j # 2
    BY <2>2, <2>6 DEF EffectiveAdd
  <2>8. j - 1 \in 1..(n - 1) /\ j - 1 \in 1..Len(t) /\ j - 1 > 1 /\ (j - 1) + 1 = j
    BY <1>1, <2>6, <2>7
  <2>9. t[j - 1] = d[j]
    BY <1>1, <2>8
  <2> QED
    BY <2>6, <2>8, <2>9
<1>6. Kept(d1, t, row')
  BY DEF t
<1> QED
  BY <1>1, <1>2, <1>3, <1>4, <1>5, <1>6, LeadsKept

\* The oldest edit goes on: of the story no more is asked than before.
LEMMA ResumedAgrees ==
  ASSUME TypeOK, done # <<>>, UNCHANGED <<radio, down>>, row' \in Rows \cup {Absent},
         calls' = Shared(calls, row') \/ calls' = calls, done' = Shared(Tail(done), row'),
         NEW f, NEW k \in Records, NEW q, NEW a, NEW b, Told(f, k, q, a, b),
         \/ UNCHANGED <<asks, up>>
         \/ f = "shim" /\ asks' = asks + 1 /\ up' = Append(up, Bare("anon")),
         f # "store" => contact' # Absent,
         row' # Absent => Alike(f, RecordOf(row'), k),
         f = "shim" => row' # Absent /\ row'.path = "flood",
         f = "store" /\ row # Absent => row' # Absent,
         f = "store" /\ row' # Absent => RecordOf(row') = k,
         f = "store" => \/ ~done[1].ok /\ contact' = contact
                        \/ contact' = Absent
                        \/ EffectiveAdd(done[1]),
         Tail(done) = <<>> /\ (Busy' => f # "shim") => q[0] = HostRec'
  PROVE  \E b1 : Told(f, k, q, a, b1)'
<1>1. /\ Story(q, a, down, calls, Busy) /\ q[Len(down)] = radio
      /\ Sent(b, up, calls, a[Len(down)]) /\ Leads(q[0], done)
      /\ Busy => OneField(f, k, q)
  BY DEF Told
<1>2. Busy = TRUE /\ OneField(f, k, q)
  BY <1>1 DEF Busy
<1>3. /\ calls \in Seq(Calls) /\ done \in Seq(Calls) /\ up \in Seq(Commands)
      /\ down \in Seq(Frames) /\ asks \in Nat
  BY Typed
<1>4. /\ Tail(done) \in Seq(Calls) /\ Range(done) = Range(Tail(done)) \cup {Head(done)}
  BY <1>3, RangeSplit, HeadTailProperties
<1>5. /\ a[Len(down)] \in Nat /\ a[Len(down)] <= Len(calls)
  BY ToldBounds
<1>6. /\ calls' \in Seq(Calls) /\ Len(calls) \in Nat /\ Len(calls') = Len(calls)
      /\ \A i \in 1..Len(calls) : SameEdit(calls'[i], calls[i])
  BY <1>3, KeptIs DEF Kept
<1>7. /\ done' \in Seq(Calls) /\ Kept(done', Tail(done), row')
      /\ done' = <<>> <=> Tail(done) = <<>>
  BY <1>3, <1>4, KeptIs
<1>8. Story(q, a, down', calls', Busy')
  <2>1. \A i \in 1..a[Len(down)] : SameEdit(calls'[i], calls[i])
    BY <1>5, <1>6
  <2>2. Story(q, a, down, calls', TRUE)
    BY <1>1, <1>2, <1>3, <2>1, StorySame
  <2>3. Story(q, a, down, calls', FALSE)
    BY <1>3, <2>2, StoryIdle
  <2> QED
    BY <2>2, <2>3 DEF Busy
<1>9. PICK b1 : Sent(b1, up', calls', a[Len(down')])
  <2>1. Sent(b, up, calls', a[Len(down)])
    BY <1>1, <1>3, <1>5, <1>6, SentSame
  <2>2. CASE UNCHANGED up
    BY <2>1, <2>2
  <2>3. CASE up' = Append(up, Bare("anon"))
    <3>1. Bare("anon") \in Commands /\ Bare("anon").cmd = "anon"
      BY BareIs DEF Bare
    <3>2. \E b1 : Sent(b1, Append(up, Bare("anon")), calls', a[Len(down)])
      BY <1>3, <1>5, <1>6, <2>1, <3>1, SentAppend
    <3> QED
      BY <2>3, <3>2
  <2> QED
    BY <2>2, <2>3
<1>10. Leads(q[0], done)'
  <2>1. \A j \in 1..Len(done) : Field(done[j].op) = f
    <3>1. \A j \in 1..Len(done) : done[j] \in Edits
      BY <1>3, LenProperties DEF Range, Edits
    <3> QED
      BY <1>2, <3>1 DEF OneField, EditIsOf
  <2>2. PICK d1 \in Seq(Calls) : d1 = done'
    BY <1>7
  <2>3. Kept(d1, Tail(done), row')
    BY <1>7, <2>2
  <2>4. Leads(q[0], d1)'
    BY <1>1, <1>3, <2>1, <2>3, LeadsTail
  <2> QED
    BY <2>2, <2>4 DEF Leads
<1>11. OneField(f, k, q)'
  <2>1. \A c \in Edits : EditIsOf(c, f, k)
    BY <1>2 DEF OneField
  <2>2. Range(Tail(done)) \subseteq Range(done)
    BY <1>4
  <2>3. \A c \in Edits' : EditIsOf(c, f, k)'
    BY <1>4, <2>1, <2>2, CopiesAreOf
  <2>4. \A i \in 1..Len(up') : up'[i].cmd = "update" => Alike(f, up'[i].rec, k)
    <3>1. CASE UNCHANGED up
      BY <1>2, <3>1 DEF OneField
    <3>2. CASE up' = Append(up, Bare("anon"))
      <4>1. Bare("anon") \in Commands /\ Bare("anon").cmd = "anon"
        BY BareIs DEF Bare
      <4>2. /\ Len(up') = Len(up) + 1 /\ Len(up) \in Nat /\ up'[Len(up) + 1] = Bare("anon")
            /\ \A i \in 1..Len(up) : up'[i] = up[i]
        BY <1>3, <3>2, <4>1, AppendProperties, LenProperties
      <4>3. \A i \in 1..Len(up') : i \in 1..Len(up) \/ i = Len(up) + 1
        BY <4>1, <4>2
      <4> QED
        BY <1>2, <4>1, <4>2, <4>3 DEF OneField
    <3> QED
      BY <3>1, <3>2
  <2>5. /\ asks' > 0 => f = "shim"
        /\ f # "store" => \A i \in 0..Len(down') : q[i] # Absent
        /\ \A i \in 0..Len(down') : q[i] # Absent => Alike(f, q[i], k)
    BY <1>2 DEF OneField
  <2> QED
    BY <2>3, <2>4, <2>5 DEF OneField
<1>12. Told(f, k, q, a, b1)'
  <2>1. q[Len(down')] = radio' /\ (done' = <<>> /\ (Busy' => f # "shim") => q[0] = HostRec')
    BY <1>1, <1>7
  <2> QED
    BY <1>8, <1>9, <1>10, <1>11, <2>1 DEF Told
<1> QED
  BY <1>12

\* Records alike in field f that agree in that field as well.
LEMMA SameRecord ==
  ASSUME NEW r \in Records, NEW s \in Records, NEW k \in Records, NEW f,
         Alike(f, r, k), Alike(f, s, k),
         f = "path" => r.path = s.path,
         f = "fav" => r.fav = s.fav,
         f = "perms" => r.perms = s.perms,
         f = "shim" => r.path = "flood" /\ s.path = "flood"
  PROVE  r = s
<1>1. r.fav = s.fav /\ r.perms = s.perms /\ r.path = s.path
  BY DEF Alike
<1> QED
  BY <1>1 DEF Records

\* A row with a field of it changed.
LEMMA PathChanged ==
  ASSUME NEW r \in Rows, NEW p \in Paths
  PROVE  /\ [r EXCEPT !.path = p] \in Rows
         /\ RecordOf([r EXCEPT !.path = p]) = [path |-> p, fav |-> r.fav, perms |-> r.perms]
         /\ [r EXCEPT !.path = p].on = r.on
BY DEF Rows, RecordOf

LEMMA FavChanged ==
  ASSUME NEW r \in Rows, NEW fav \in BOOLEAN
  PROVE  /\ [r EXCEPT !.fav = fav] \in Rows
         /\ RecordOf([r EXCEPT !.fav = fav]) = [path |-> r.path, fav |-> fav, perms |-> r.perms]
         /\ [r EXCEPT !.fav = fav].on = r.on
BY DEF Rows, RecordOf

LEMMA FlagsChanged ==
  ASSUME NEW r \in Rows, NEW fav \in BOOLEAN, NEW perms \in BOOLEAN
  PROVE  /\ [r EXCEPT !.fav = fav, !.perms = perms] \in Rows
         /\ RecordOf([r EXCEPT !.fav = fav, !.perms = perms])
              = [path |-> r.path, fav |-> fav, perms |-> perms]
         /\ [r EXCEPT !.fav = fav, !.perms = perms].on = r.on
BY DEF Rows, RecordOf

LEMMA OnChanged ==
  ASSUME NEW r \in Rows
  PROVE  \A on \in BOOLEAN : /\ [r EXCEPT !.on = on] \in Rows
                             /\ RecordOf([r EXCEPT !.on = on]) = RecordOf(r)
                             /\ [r EXCEPT !.on = on].on = on
BY DEF Rows, RecordOf

\* What the host shows after an edit of field f, and what the radio must hold to match.
HostMoves(f, k, c) ==
  /\ row' \in Rows \cup {Absent} /\ HostOK'
  /\ f # "store" => contact' # Absent
  /\ row' # Absent => Alike(f, RecordOf(row'), k)
  /\ f = "store" /\ row # Absent => row' # Absent
  /\ f = "store" /\ row' # Absent => RecordOf(row') = k
  /\ f = "store" => contact' = Absent \/ c.op = "add"
  /\ \A r \in Records \cup {Absent} :
       /\ Leaves(c, r)
       /\ r # Absent => Alike(f, r, k)
       => r = HostRec'

\* A path edit puts its path under the flags the radio has.
LEMMA PathMoves ==
  ASSUME TypeOK, HostOK, NEW k \in Records, NEW c \in Calls, EditIsOf(c, "path", k),
         contact # Absent, Alike("path", RecordOf(row), k),
         \/ c.op = "path" /\ PathSet(c)
         \/ c.op = "reset" /\ PathReset(c)
  PROVE  HostMoves("path", k, c)
<1> DEFINE p == IF c.op = "path" THEN c.arg.path ELSE "flood"
<1>1. /\ row \in Rows /\ row # Absent /\ row.on /\ Absent \notin Rows
      /\ Absent \notin Entries /\ Absent \notin Records
  BY ShownIs, AbsentAssumption
<1>2. c.op \in {"path", "reset"} /\ c.contact \in Entries /\ c.contact # Absent
      /\ c.contact.fav = k.fav /\ c.contact.perms = k.perms /\ c.arg \in Args
  BY DEF EditIsOf, Calls
<1>3. p \in Paths /\ PathHex(p) \in Routes \cup {"none"} /\ PathHex("flood") = "none"
  BY <1>2, RoutesAssumption DEF Args, Paths, PathHex
<1>4. row' = [row EXCEPT !.path = p]
  BY <1>1, <1>2 DEF PathSet, PathReset, Mutate
<1>5. /\ contact' \in Entries /\ contact'.path = PathHex(p)
      /\ contact'.fav = k.fav /\ contact'.perms = k.perms
  <2>1. CASE c.op = "path"
    <3>1. contact' = [c.contact EXCEPT !.path = PathHex(p), !.manual = c.arg.manual]
      BY <2>1 DEF PathSet
    <3>2. c.arg.manual \in BOOLEAN
      BY <1>2 DEF Args
    <3> QED
      BY <1>2, <1>3, <3>1, <3>2 DEF Entries
  <2>2. CASE c.op = "reset"
    <3>1. contact' = [c.contact EXCEPT !.path = "none", !.manual = TRUE] /\ PathHex(p) = "none"
      BY <1>3, <2>2 DEF PathReset
    <3> QED
      BY <1>2, <1>3, <3>1 DEF Entries
  <2> QED
    BY <1>2, <2>1, <2>2
<1>5a. \A r : Leaves(c, r) => r # Absent /\ r.path = p
  BY <1>2 DEF Leaves
<1> HIDE DEF p
<1>6. /\ row' \in Rows /\ RecordOf(row') = [path |-> p, fav |-> row.fav, perms |-> row.perms]
      /\ row'.on
  BY <1>1, <1>3, <1>4, PathChanged
<1>7. row.fav = k.fav /\ row.perms = k.perms
  BY DEF Alike, RecordOf
<1>8. /\ RecordOf(row') \in Records /\ RecordOf(row').path = p
      /\ RecordOf(row').fav = k.fav /\ RecordOf(row').perms = k.perms
  BY <1>6, <1>7, RecordIs
<1>9. Alike("path", RecordOf(row'), k)
  BY <1>8 DEF Alike
<1>10. HostOK' /\ HostRec' = RecordOf(row') /\ contact' # Absent /\ row' # Absent
  <2>1. Shows(contact', RecordOf(row'))
    BY <1>5, <1>8 DEF Shows
  <2> QED
    BY <1>1, <1>5, <1>6, <2>1 DEF HostOK, HostRec
<1>11. ASSUME NEW r \in Records \cup {Absent}, Leaves(c, r), r # Absent => Alike("path", r, k)
       PROVE  r = HostRec'
  BY <1>5a, <1>8, <1>9, <1>10, <1>11, SameRecord
<1> QED
  BY <1>6, <1>9, <1>10, <1>11 DEF HostMoves

\* A flag edit leaves the path and the other flag.
LEMMA FlagMoves ==
  ASSUME TypeOK, HostOK, NEW k \in Records, NEW c \in Calls, NEW f, EditIsOf(c, f, k),
         contact # Absent, Alike(f, RecordOf(row), k),
         \/ c.op = "fav" /\ FavouriteSet(c.arg.fav)
         \/ c.op = "perms" /\ PermsSet(c.arg)
  PROVE  HostMoves(f, k, c)
<1>1. /\ row \in Rows /\ row # Absent /\ row.on /\ Absent \notin Rows
      /\ Absent \notin Entries /\ Absent \notin Records /\ contact \in Entries
      /\ RecordOf(row) \in Records /\ Shows(contact, RecordOf(row))
      /\ RecordOf(row) = [path |-> row.path, fav |-> row.fav, perms |-> row.perms]
  BY ShownIs, AbsentAssumption DEF HostOK, RecordOf
<1>2. c.arg \in Args /\ c.arg.fav \in BOOLEAN /\ c.arg.perms \in BOOLEAN
  BY DEF Calls, Args
<1>3. /\ c.op = f /\ f \in {"fav", "perms"} /\ (f = "perms" => c.arg.fav = k.fav)
      /\ row.path \in Paths
  BY <1>1 DEF EditIsOf, Field, Rows
<1>4. ASSUME f = "fav"
      PROVE  /\ row' \in Rows /\ row'.on /\ contact' \in Entries
             /\ RecordOf(row') = [path |-> row.path, fav |-> c.arg.fav, perms |-> row.perms]
             /\ contact'.fav = c.arg.fav /\ contact'.perms = contact.perms
             /\ contact'.path = contact.path /\ contact'.manual = contact.manual
  <2>1. row' = [row EXCEPT !.fav = c.arg.fav] /\ contact' = [contact EXCEPT !.fav = c.arg.fav]
    BY <1>1, <1>3, <1>4 DEF FavouriteSet, Mutate, Entry
  <2>2. /\ row' \in Rows /\ row'.on
        /\ RecordOf(row') = [path |-> row.path, fav |-> c.arg.fav, perms |-> row.perms]
    BY <1>1, <1>2, <1>3, <2>1, FavChanged
  <2> QED
    BY <1>1, <1>2, <2>1, <2>2 DEF Entries
<1>5. ASSUME f = "perms"
      PROVE  /\ row' \in Rows /\ row'.on /\ contact' \in Entries
             /\ RecordOf(row') = [path |-> row.path, fav |-> c.arg.fav, perms |-> c.arg.perms]
             /\ contact'.fav = contact.fav /\ contact'.perms = c.arg.perms
             /\ contact'.path = contact.path /\ contact'.manual = contact.manual
  <2>1. /\ row' = [row EXCEPT !.fav = c.arg.fav, !.perms = c.arg.perms]
        /\ contact' = [contact EXCEPT !.perms = c.arg.perms]
    BY <1>1, <1>3, <1>5 DEF PermsSet, Mutate, Entry
  <2>2. /\ row' \in Rows /\ row'.on
        /\ RecordOf(row') = [path |-> row.path, fav |-> c.arg.fav, perms |-> c.arg.perms]
    BY <1>1, <1>2, <1>3, <2>1, FlagsChanged
  <2> QED
    BY <1>1, <1>2, <2>1, <2>2 DEF Entries
<1>6. /\ row.path = k.path /\ (f = "perms" => row.fav = k.fav) /\ (f = "fav" => row.perms = k.perms)
      /\ contact.fav = row.fav /\ contact.perms = row.perms
      /\ contact.path = PathHex(row.path) \/ (contact.manual /\ PathHex(row.path) = "none")
  BY <1>1, <1>3 DEF Alike, Shows
<1>7. /\ row' \in Rows /\ row'.on /\ contact' \in Entries
      /\ RecordOf(row') \in Records /\ RecordOf(row').path = k.path
      /\ f = "fav" => RecordOf(row').fav = c.arg.fav /\ RecordOf(row').perms = k.perms
      /\ f = "perms" => RecordOf(row').fav = k.fav /\ RecordOf(row').perms = c.arg.perms
      /\ contact'.fav = RecordOf(row').fav /\ contact'.perms = RecordOf(row').perms
      /\ contact'.path = contact.path /\ contact'.manual = contact.manual
  <2>1. CASE f = "fav"
    <3>1. row' \in Rows
      BY <1>4, <2>1
    <3>2. RecordOf(row') \in Records
      BY <3>1, RecordIs
    <3> QED
      BY <1>4, <1>6, <2>1, <3>1, <3>2
  <2>2. CASE f = "perms"
    <3>1. row' \in Rows
      BY <1>5, <2>2
    <3>2. RecordOf(row') \in Records
      BY <3>1, RecordIs
    <3> QED
      BY <1>3, <1>5, <1>6, <2>2, <3>1, <3>2
  <2> QED
    BY <1>3, <2>1, <2>2
<1>8. Alike(f, RecordOf(row'), k)
  BY <1>3, <1>7 DEF Alike
<1>9. HostOK' /\ HostRec' = RecordOf(row') /\ contact' # Absent /\ row' # Absent
  <2>1. Shows(contact', RecordOf(row'))
    BY <1>6, <1>7 DEF Shows
  <2> QED
    BY <1>1, <1>7, <2>1 DEF HostOK, HostRec
<1>10. ASSUME NEW r \in Records \cup {Absent}, Leaves(c, r), r # Absent => Alike(f, r, k)
       PROVE  r = HostRec'
  <2>1. /\ r # Absent /\ (f = "fav" => r.fav = c.arg.fav) /\ (f = "perms" => r.perms = c.arg.perms)
    BY <1>3, <1>10 DEF Leaves
  <2> QED
    BY <1>3, <1>7, <1>8, <1>9, <1>10, <2>1, SameRecord
<1> QED
  BY <1>3, <1>7, <1>8, <1>9, <1>10 DEF HostMoves

\* An add or a removal: the row is the record the add wrote.
LEMMA StoreMoves ==
  ASSUME IInv, HostOK, NEW k \in Records, NEW c \in Edits, EditIsOf(c, "store", k),
         row # Absent => Alike("store", RecordOf(row), k),
         \/ c.op = "add" /\ Added(c)
         \/ c.op = "remove" /\ Removed
  PROVE  HostMoves("store", k, c)
<1>1. /\ TypeOK /\ Absent \notin Rows /\ Absent \notin Records /\ Absent \notin Entries
      /\ row \in Rows \cup {Absent} /\ contact \in Entries \cup {Absent}
      /\ row # Absent => row \in Rows /\ RecordOf(row) \in Records
  BY AbsentAssumption, RecordIs, Typed DEF IInv
<1>2. row # Absent => RecordOf(row) = k
  BY <1>1, AlikeStore
<1>3. CASE c.op = "add"
  <2>1. row # Absent /\ RecordOf(c.row) = k
    BY <1>3 DEF EditIsOf
  <2>2. row' = [row EXCEPT !.on = TRUE] /\ contact' = Merged(k, contact)
    BY <1>3, <2>1 DEF Added, Mutate
  <2>3. row' \in Rows /\ RecordOf(row') = k /\ row'.on
    BY <1>1, <1>2, <2>1, <2>2, OnChanged
  <2>4. contact' \in Entries /\ Shows(contact', k)
    BY <1>1, <2>2, MergedIs, MergedShows
  <2>5. HostOK' /\ HostRec' = k /\ contact' # Absent /\ row' # Absent
    BY <1>1, <2>3, <2>4 DEF HostOK, HostRec
  <2>6. Alike("store", k, k)
    BY DEF Alike
  <2>7. ASSUME NEW r \in Records \cup {Absent}, Leaves(c, r), r # Absent => Alike("store", r, k)
        PROVE  r = HostRec'
    <3>1. r # Absent
      BY <1>3, <2>7 DEF Leaves
    <3> QED
      BY <2>5, <2>7, <3>1, AlikeStore
  <2> QED
    BY <1>3, <2>3, <2>5, <2>6, <2>7 DEF HostMoves
<1>4. CASE c.op = "remove"
  <2>1. contact' = Absent /\ row' = IF row = Absent THEN Absent ELSE [row EXCEPT !.on = FALSE]
    BY <1>4 DEF Removed, Mutate
  <2>2. row # Absent => row' \in Rows /\ RecordOf(row') = k /\ ~row'.on
    BY <1>1, <1>2, <2>1, OnChanged
  <2>3. HostOK' /\ HostRec' = Absent
    BY <2>1, <2>2 DEF HostOK, HostRec
  <2>4. Alike("store", k, k)
    BY DEF Alike
  <2>5. \A r : Leaves(c, r) => r = Absent
    BY <1>4 DEF Leaves
  <2> QED
    BY <1>1, <2>1, <2>2, <2>3, <2>4, <2>5 DEF HostMoves
<1> QED
  BY <1>3, <1>4

\* A confirmed edit of the contact moves the host as it moved the radio.
LEMMA ConfirmedMoves ==
  ASSUME IInv, HostOK, NEW f, NEW k \in Records, NEW c \in Edits, EditIsOf(c, f, k),
         Field(c.op) # "shim",
         CASE c.op = "path"   -> PathSet(c)
           [] c.op = "reset"  -> PathReset(c)
           [] c.op = "fav"    -> FavouriteSet(c.arg.fav)
           [] c.op = "perms"  -> PermsSet(c.arg)
           [] c.op = "add"    -> Added(c)
           [] c.op = "remove" -> Removed,
         f # "store" => contact # Absent,
         row # Absent => Alike(f, RecordOf(row), k)
  PROVE  HostMoves(f, k, c) /\ f # "shim"
<1>1. TypeOK /\ c \in Calls /\ c.op \in Ops
  <2>1. TypeOK /\ c \in Calls
    BY Typed DEF IInv
  <2> QED
    BY <2>1 DEF Calls
<1>2. Field(c.op) = f
  BY DEF EditIsOf
<1>3. c.op \in {"path", "reset", "fav", "perms", "add", "remove"}
  BY <1>1 DEF Field, Ops
<1>4. contact # Absent => row # Absent
  BY DEF HostOK
<1>5. CASE c.op \in {"path", "reset"}
  <2>1. f = "path" /\ ((c.op = "path" /\ PathSet(c)) \/ (c.op = "reset" /\ PathReset(c)))
    BY <1>2, <1>5 DEF Field
  <2> QED
    BY <1>1, <1>4, <2>1, PathMoves
<1>6. CASE c.op \in {"fav", "perms"}
  <2>1. /\ f \in {"fav", "perms"}
        /\ (c.op = "fav" /\ FavouriteSet(c.arg.fav)) \/ (c.op = "perms" /\ PermsSet(c.arg))
    BY <1>2, <1>6 DEF Field
  <2> QED
    BY <1>1, <1>4, <2>1, FlagMoves
<1>7. CASE c.op \in {"add", "remove"}
  <2>1. f = "store" /\ ((c.op = "add" /\ Added(c)) \/ (c.op = "remove" /\ Removed))
    BY <1>2, <1>7 DEF Field
  <2> QED
    BY <2>1, StoreMoves
<1> QED
  BY <1>3, <1>5, <1>6, <1>7

LEMMA ResumeAgrees ==
  ASSUME IInv, Agreeing, Resume
  PROVE  Agreeing'
<1> SUFFICES ASSUME clean' PROVE Agreeing'
  BY DEF Agreeing
<1> DEFINE c == Head(done)
<1>1. /\ done # <<>> /\ done' = Shared(Tail(done), row') /\ UNCHANGED <<radio, down, clean>>
      /\ \/ /\ c.op # "shim" /\ (~c.ok \/ c.op = "restore")
            /\ calls' = calls /\ UNCHANGED <<row, contact, asks, up>>
         \/ c.op = "shim" /\ AfterShim(c) /\ UNCHANGED <<row, contact>>
         \/ /\ c.ok /\ Field(c.op) # "shim"
            /\ CASE c.op = "path"   -> PathSet(c)
                 [] c.op = "reset"  -> PathReset(c)
                 [] c.op = "fav"    -> FavouriteSet(c.arg.fav)
                 [] c.op = "perms"  -> PermsSet(c.arg)
                 [] c.op = "add"    -> Added(c)
                 [] c.op = "remove" -> Removed
            /\ calls' = Shared(calls, row') /\ UNCHANGED <<asks, up>>
  BY DEF Resume, host
<1>2. TypeOK /\ HostOK
  BY <1>1 DEF IInv, Agreeing
<1>3f. PICK f \in Fields, k \in Records : \E q, a, b : Told(f, k, q, a, b)
  BY <1>1 DEF Agreeing
<1>3. PICK q, a, b : Told(f, k, q, a, b)
  BY <1>3f
<1>4. OneField(f, k, q) /\ Leads(q[0], done)
  BY <1>1, <1>3 DEF Told, Busy
<1>5. c \in Edits /\ c \in Calls /\ EditIsOf(c, f, k) /\ Field(c.op) = f
  <2>1. c \in Edits /\ c \in Calls
    BY <1>1, <1>2, EditUnderWay
  <2> QED
    BY <1>4, <2>1 DEF OneField, EditIsOf
<1>6. /\ done[1] = c /\ Len(done) \in Nat /\ Len(done) >= 1
      /\ Tail(done) = <<>> => Len(done) = 1 /\ Left(c, c.ok, q[0], q[0])
  <2>1. done \in Seq(Calls) /\ Tail(done) \in Seq(Calls) /\ Len(Tail(done)) = Len(done) - 1
        /\ done[1] = c /\ Len(done) \in Nat /\ Len(done) >= 1
    BY <1>1, <1>2, Typed, HeadTailProperties, LenProperties, EmptySeq
  <2>2. Tail(done) = <<>> => Len(Tail(done)) = 0
    BY <2>1, EmptySeq
  <2> QED
    BY <1>1, <1>4, <2>1, <2>2 DEF Leads
<1>7. ~c.ok => c.op = "add"
  BY <1>4, <1>6 DEF Leads
<1>8. /\ f # "store" => contact # Absent
      /\ row # Absent => Alike(f, RecordOf(row), k)
      /\ f = "shim" => row # Absent /\ row.path = "flood"
      /\ q[0] \in Records \cup {Absent}
      /\ f # "store" => q[0] # Absent
      /\ q[0] # Absent => Alike(f, q[0], k)
      /\ row \in Rows \cup {Absent} /\ Absent \notin Records
      /\ row # Absent => RecordOf(row) \in Records
  <2>1. 0 \in 0..Len(down)
    BY <1>2, Typed, LenProperties
  <2> QED
    BY <1>2, <1>3, <1>4, <2>1, ToldBounds, HostRecIs, Typed DEF OneField
<1>9. f = "store" /\ row # Absent => RecordOf(row) = k
  BY <1>8, AlikeStore
<1> HIDE DEF c
<1>9a. \/ /\ UNCHANGED <<row, contact>>
          /\ \/ /\ c.op # "shim" /\ (~c.ok \/ c.op = "restore")
                /\ calls' = calls /\ UNCHANGED <<asks, up>>
             \/ c.op = "shim" /\ AfterShim(c)
       \/ /\ c.ok /\ Field(c.op) # "shim"
          /\ CASE c.op = "path"   -> PathSet(c)
               [] c.op = "reset"  -> PathReset(c)
               [] c.op = "fav"    -> FavouriteSet(c.arg.fav)
               [] c.op = "perms"  -> PermsSet(c.arg)
               [] c.op = "add"    -> Added(c)
               [] c.op = "remove" -> Removed
          /\ calls' = Shared(calls, row') /\ UNCHANGED <<asks, up>>
  BY <1>1 DEF c
<1>10. CASE /\ UNCHANGED <<row, contact>>
            /\ \/ /\ c.op # "shim" /\ (~c.ok \/ c.op = "restore")
                  /\ calls' = calls /\ UNCHANGED <<asks, up>>
               \/ c.op = "shim" /\ AfterShim(c)
  <2>1. HostOK' /\ HostRec' = HostRec
    <3>1. row' = row /\ contact' = contact
      BY <1>10
    <3> QED
      BY <1>2, <3>1 DEF HostOK, HostRec
  <2>2. /\ f # "store" => contact' # Absent
        /\ row' # Absent => Alike(f, RecordOf(row'), k)
        /\ f = "shim" => row' # Absent /\ row'.path = "flood"
        /\ f = "store" /\ row # Absent => row' # Absent
        /\ f = "store" /\ row' # Absent => RecordOf(row') = k
        /\ row' \in Rows \cup {Absent}
    BY <1>8, <1>9, <1>10
  <2>3. CASE /\ c.op # "shim" /\ (~c.ok \/ c.op = "restore")
             /\ calls' = calls /\ UNCHANGED <<asks, up>>
    <3>1. f = "store" => ~done[1].ok /\ contact' = contact
      BY <1>5, <1>6, <1>10, <2>3 DEF Field
    <3>2. Tail(done) = <<>> /\ (Busy' => f # "shim") => q[0] = HostRec'
      <4> SUFFICES ASSUME Tail(done) = <<>> PROVE q[0] = HostRec
        BY <2>1
      <4>1. CASE ~c.ok
        <5>1. q[0] = Absent
          BY <1>6, <4>1 DEF Left
        <5>2. contact = Absent
          <6>1. contact = Absent \/ \E j \in 1..Len(done) : j > 1 /\ EffectiveAdd(done[j])
            BY <1>1, <1>4, <1>6, <4>1 DEF Leads
          <6> QED
            BY <1>6, <6>1
        <5> QED
          BY <1>2, <5>1, <5>2, HostRecIs
      <4>2. CASE c.ok
        <5>1. c.op = "restore" /\ f = "shim"
          BY <1>5, <2>3, <4>2 DEF Field
        <5>2. q[0].path = "flood" /\ q[0] # Absent /\ contact # Absent /\ row # Absent
          BY <1>6, <1>8, <4>2, <5>1 DEF Left, Leaves
        <5>3. RecordOf(row).path = "flood"
          BY <1>8, <5>1 DEF RecordOf
        <5>4. q[0] = RecordOf(row)
          BY <1>8, <5>1, <5>2, <5>3, SameRecord
        <5> QED
          BY <5>2, <5>4 DEF HostRec
      <4> QED
        BY <4>1, <4>2 DEF Left
    <3>3. \E b1 : Told(f, k, q, a, b1)'
      BY <1>1, <1>2, <1>3, <2>2, <2>3, <3>1, <3>2, ResumedAgrees
    <3> QED
      BY <2>1, <3>3 DEF Agreeing
  <2>4. CASE c.op = "shim" /\ AfterShim(c)
    <3>1. c.ok /\ f = "shim"
      BY <1>5, <1>7, <2>4 DEF Field
    <3>2. calls' = calls /\ asks' = asks + 1 /\ up' = Append(up, Bare("anon"))
      BY <2>4, <3>1 DEF AfterShim
    <3>3. Busy'
      BY <1>2, <3>2, Typed DEF Busy
    <3>4. \E b1 : Told(f, k, q, a, b1)'
      BY <1>1, <1>2, <1>3, <2>2, <3>1, <3>2, <3>3, ResumedAgrees
    <3> QED
      BY <2>1, <3>4 DEF Agreeing
  <2> QED
    BY <1>10, <2>3, <2>4
<1>11. CASE /\ c.ok /\ Field(c.op) # "shim"
            /\ CASE c.op = "path"   -> PathSet(c)
                 [] c.op = "reset"  -> PathReset(c)
                 [] c.op = "fav"    -> FavouriteSet(c.arg.fav)
                 [] c.op = "perms"  -> PermsSet(c.arg)
                 [] c.op = "add"    -> Added(c)
                 [] c.op = "remove" -> Removed
            /\ calls' = Shared(calls, row') /\ UNCHANGED <<asks, up>>
  <2>1. HostMoves(f, k, c) /\ f # "shim"
    BY <1>2, <1>5, <1>8, <1>11, ConfirmedMoves
  <2>2. /\ row' \in Rows \cup {Absent} /\ HostOK'
        /\ f # "store" => contact' # Absent
        /\ row' # Absent => Alike(f, RecordOf(row'), k)
        /\ f = "store" /\ row # Absent => row' # Absent
        /\ f = "store" /\ row' # Absent => RecordOf(row') = k
    BY <2>1 DEF HostMoves
  <2>3. f = "store" => contact' = Absent \/ EffectiveAdd(done[1])
    BY <1>6, <1>11, <2>1 DEF HostMoves, EffectiveAdd
  <2>4. Tail(done) = <<>> => q[0] = HostRec'
    <3> SUFFICES ASSUME Tail(done) = <<>> PROVE q[0] = HostRec'
      OBVIOUS
    <3>1. Leaves(c, q[0])
      BY <1>6, <1>11 DEF Left
    <3> QED
      BY <1>8, <2>1, <3>1 DEF HostMoves
  <2>5. \E b1 : Told(f, k, q, a, b1)'
    BY <1>1, <1>2, <1>3, <1>11, <2>1, <2>2, <2>3, <2>4, ResumedAgrees
  <2> QED
    BY <2>2, <2>5 DEF Agreeing
<1> QED
  BY <1>9a, <1>10, <1>11

\* A timeout and a drop overlap everything.
LEMMA UncleanAgrees ==
  ASSUME TimesOut \/ LinkDrops
  PROVE  Agreeing'
BY DEF TimesOut, LinkDrops, Agreeing

\* A step that changes nothing.
LEMMA StillAgrees ==
  ASSUME Agreeing, UNCHANGED vars
  PROVE  Agreeing'
<1>1. UNCHANGED <<radio, row, contact, calls, done, asks, up, down, clean>>
  BY DEF vars, host, wire, history
<1>2. HostOK' = HostOK /\ HostRec' = HostRec /\ Busy' = Busy /\ Edits' = Edits
  BY <1>1 DEF HostOK, HostRec, Busy, Edits
<1>3. ASSUME NEW f, NEW k, NEW q, NEW a, NEW b, Told(f, k, q, a, b)
      PROVE  Told(f, k, q, a, b)'
  <2>1. \A c : EditIsOf(c, f, k)' = EditIsOf(c, f, k)
    BY <1>1 DEF EditIsOf
  <2>2. Leads(q[0], done)' = Leads(q[0], done)
    BY <1>1 DEF Leads
  <2>3. OneField(f, k, q)' = OneField(f, k, q)
    BY <1>1, <1>2, <2>1 DEF OneField
  <2> QED
    BY <1>1, <1>2, <1>3, <2>2, <2>3 DEF Told
<1> QED
  BY <1>1, <1>2, <1>3 DEF Agreeing

\* At first nothing is under way, and the host knows the record or is not clean.
LEMMA InitAgrees ==
  ASSUME Init, TypeOK
  PROVE  Agreeing
<1> SUFFICES ASSUME clean PROVE Agreeing
  BY DEF Agreeing
<1>1. calls = <<>> /\ done = <<>> /\ asks = 0 /\ up = <<>> /\ down = <<>>
  BY DEF Init
<1>2. /\ radio \in Records \cup {Absent}
      /\ HostOK /\ HostRec = radio
  <2>0. Absent \notin Records /\ Absent \notin Entries /\ Absent \notin Rows
    BY AbsentAssumption
  <2>1. CASE \E rec \in Records, manual \in BOOLEAN :
               /\ radio = rec /\ row = RowOf(rec, TRUE)
               /\ contact = [path |-> PathHex(rec.path), fav |-> rec.fav,
                             perms |-> rec.perms, manual |-> manual, direct |-> FALSE]
    <3>1. PICK rec \in Records, manual \in BOOLEAN :
               /\ radio = rec /\ row = RowOf(rec, TRUE)
               /\ contact = [path |-> PathHex(rec.path), fav |-> rec.fav,
                             perms |-> rec.perms, manual |-> manual, direct |-> FALSE]
      BY <2>1
    <3>2. /\ contact.path = PathHex(rec.path) /\ contact.fav = rec.fav
          /\ contact.perms = rec.perms
      BY <3>1
    <3>3. row \in Rows /\ row.on /\ row # Absent
      <4>1. RowOf(rec, TRUE) \in Rows /\ RowOf(rec, TRUE).on
        BY RowIs DEF RowOf
      <4> QED
        BY <2>0, <3>1, <4>1
    <3>4. contact # Absent
      <4>1. contact \in Entries
        <5>1. PathHex(rec.path) \in Routes \cup {"none"} /\ rec.fav \in BOOLEAN
              /\ rec.perms \in BOOLEAN
          BY DEF PathHex, Records
        <5> QED
          BY <3>1, <5>1 DEF Entries
      <4> QED
        BY <2>0, <4>1
    <3>5. RecordOf(row) = rec
      BY <3>1 DEF RecordOf, RowOf, Records
    <3> QED
      BY <3>1, <3>2, <3>3, <3>4, <3>5 DEF HostOK, HostRec, Shows
  <2>2. CASE /\ radio = Absent /\ contact = Absent
             /\ row = [path |-> "flood", fav |-> FALSE, perms |-> FALSE, on |-> FALSE]
    BY <2>2 DEF HostOK, HostRec
  <2> QED
    BY <2>1, <2>2 DEF Init
<1>3. PICK k : k = [path |-> "flood", fav |-> FALSE, perms |-> FALSE]
  OBVIOUS
<1>4. k \in Records /\ "path" \in Fields
  BY <1>3 DEF Records, Paths, Fields
<1>5. PICK q, a, b : /\ Story(q, a, <<>>, <<>>, FALSE) /\ Sent(b, <<>>, <<>>, a[0])
                     /\ q[0] = radio
  BY <1>2, EmptyStory
<1>6. Told("path", k, q, a, b)
  <2>1. Len(<<>>) = 0 /\ (\A j \in 1..0 : FALSE) /\ Busy = FALSE
    BY <1>1 DEF Busy
  <2>2. Leads(q[0], done)
    BY <1>1, <2>1 DEF Leads
  <2> QED
    BY <1>1, <1>2, <1>5, <2>1, <2>2 DEF Told
<1>7. \E f \in Fields, k1 \in Records : \E q1, a1, b1 : Told(f, k1, q1, a1, b1)
  BY <1>4, <1>6
<1> QED
  BY <1>2, <1>7 DEF Agreeing

\* When nothing is under way the story has one beginning and end.
LEMMA QuietAgrees ==
  ASSUME TypeOK, Agreeing
  PROVE  AgreeWhenQuiet
<1> SUFFICES ASSUME Quiet, clean
             PROVE  IF radio = Absent
                    THEN contact = Absent /\ (row # Absent => ~row.on)
                    ELSE /\ row = RowOf(radio, TRUE)
                         /\ contact # Absent
                         /\ contact.fav = radio.fav /\ contact.perms = radio.perms
                         /\ \/ contact.path = PathHex(radio.path)
                            \/ contact.manual /\ PathHex(radio.path) = "none"
  BY DEF AgreeWhenQuiet
<1>1. /\ done = <<>> /\ ~Busy /\ Len(down) = 0
  BY DEF Quiet, Idle, Busy
<1>2. HostOK /\ radio = HostRec
  <2>1f. PICK f \in Fields, k \in Records : \E q, a, b : Told(f, k, q, a, b)
    BY DEF Agreeing
  <2>1. PICK q, a, b : Told(f, k, q, a, b)
    BY <2>1f
  <2> QED
    BY <1>1, <2>1 DEF Agreeing, Told
<1>3. radio = Absent <=> contact = Absent
  BY <1>2, HostRecIs
<1>4. CASE radio = Absent
  BY <1>2, <1>3, <1>4 DEF HostOK
<1>5. CASE radio # Absent
  <2>1. contact # Absent /\ row \in Rows /\ row.on /\ Shows(contact, RecordOf(row))
    BY <1>2, <1>3, <1>5, ShownIs DEF HostOK
  <2>2. radio = RecordOf(row)
    BY <1>2, <2>1 DEF HostRec
  <2>3. row = RowOf(radio, TRUE)
    BY <2>1, <2>2 DEF RowOf, RecordOf, Rows
  <2> QED
    BY <1>5, <2>1, <2>2, <2>3 DEF Shows
<1> QED
  BY <1>4, <1>5

\* Every step keeps the copies telling the story of the frames between them.
LEMMA NextAgrees ==
  ASSUME IInv, IInv', Agreeing, [Next]_vars
  PROVE  Agreeing'
<1>1. CASE UNCHANGED vars
  BY <1>1, StillAgrees
<1>2. CASE CallSetPath
  BY <1>2, SetPathAgrees
<1>3. CASE CallResetPath
  BY <1>3, ResetPathAgrees
<1>4. CASE CallSetFavourite
  BY <1>4, SetFavouriteAgrees
<1>5. CASE CallSetPerms
  BY <1>5, SetPermsAgrees
<1>6. CASE CallAdd
  BY <1>6, AddAgrees
<1>7. CASE CallRemove
  BY <1>7, RemoveAgrees
<1>8. CASE CallPreferDirect
  BY <1>8, PreferDirectAgrees
<1>9. CASE CallAnon
  BY <1>9, AnonAgrees
<1>10. CASE Resume
  BY <1>10, ResumeAgrees
<1>11. CASE Receive
  BY <1>11, ReceiveAgrees
<1>12. CASE TimesOut \/ LinkDrops
  BY <1>12, UncleanAgrees
<1>13. CASE RadioTakes
  BY <1>13, RadioTakesAgrees
<1>14. CASE RadioChanges
  BY <1>14, RadioChangesAgrees
<1> QED
  BY <1>1, <1>2, <1>3, <1>4, <1>5, <1>6, <1>7, <1>8, <1>9, <1>10, <1>11, <1>12, <1>13,
     <1>14 DEF Next

-----------------------------------------------------------------------------
(* The results.                                                            *)

LEMMA InitOK ==
  ASSUME Init
  PROVE  IInv
<1>1. /\ calls = <<>> /\ done = <<>> /\ asks = 0 /\ up = <<>> /\ down = <<>>
      /\ events = 0 /\ seen = FALSE /\ prefer = {FALSE} /\ clean \in BOOLEAN
      /\ chosen = IF contact # Absent THEN contact.path ELSE "none"
  BY DEF Init
<1>2. /\ radio \in Records \cup {Absent} /\ row \in Rows \cup {Absent}
      /\ contact \in Entries \cup {Absent}
      /\ contact # Absent => contact.direct = FALSE
      /\ radio # Absent => radio.path # "shim"
      /\ row # Absent => row.path # "shim"
  <2>1. CASE \E rec \in Records, manual \in BOOLEAN :
               /\ rec.path # "shim" /\ radio = rec /\ row = RowOf(rec, TRUE)
               /\ contact = [path |-> PathHex(rec.path), fav |-> rec.fav,
                             perms |-> rec.perms, manual |-> manual, direct |-> FALSE]
    <3>1. PICK rec \in Records, manual \in BOOLEAN :
               /\ rec.path # "shim" /\ radio = rec /\ row = RowOf(rec, TRUE)
               /\ contact = [path |-> PathHex(rec.path), fav |-> rec.fav,
                             perms |-> rec.perms, manual |-> manual, direct |-> FALSE]
      BY <2>1
    <3>2. PathHex(rec.path) \in Routes \cup {"none"} /\ rec.fav \in BOOLEAN /\ rec.perms \in BOOLEAN
      BY DEF PathHex, Records
    <3>3. contact \in Entries /\ contact.direct = FALSE
      BY <3>1, <3>2 DEF Entries
    <3>4. row \in Rows /\ row.path = rec.path
      BY <3>1, RowIs
    <3> QED
      BY <3>1, <3>3, <3>4
  <2>2. CASE /\ radio = Absent /\ contact = Absent
             /\ row = [path |-> "flood", fav |-> FALSE, perms |-> FALSE, on |-> FALSE]
    BY <2>2 DEF Rows, Paths
  <2>3. CASE \E rec \in Records :
               /\ rec.path \in Routes /\ radio = rec /\ row = Absent
               /\ contact = [path |-> PathHex(rec.path), fav |-> FALSE,
                             perms |-> rec.perms, manual |-> TRUE, direct |-> FALSE]
    <3>1. PICK rec \in Records :
               /\ rec.path \in Routes /\ radio = rec /\ row = Absent
               /\ contact = [path |-> PathHex(rec.path), fav |-> FALSE,
                             perms |-> rec.perms, manual |-> TRUE, direct |-> FALSE]
      BY <2>3
    <3>2. PathHex(rec.path) \in Routes \cup {"none"} /\ rec.perms \in BOOLEAN
      BY DEF PathHex, Records
    <3>3. contact \in Entries /\ contact.direct = FALSE
      BY <3>1, <3>2 DEF Entries
    <3>4. radio.path # "shim"
      BY <3>1, RoutesAssumption
    <3> QED
      BY <3>1, <3>3, <3>4
  <2> QED
    BY <2>1, <2>2, <2>3 DEF Init
<1>3. Edits = {}
  BY <1>1 DEF Edits, Range
<1>4. chosen \in Routes \cup {"none"}
  BY <1>1, <1>2 DEF Entries
<1>5. TypeOK
  <2>1. seen \in BOOLEAN /\ prefer \subseteq BOOLEAN /\ asks \in Nat
    BY <1>1
  <2>2. calls \in Seq(Calls) /\ done \in Seq(Calls) /\ up \in Seq(Commands) /\ down \in Seq(Frames)
    BY <1>1, EmptySeq
  <2> QED
    BY <1>1, <1>2, <1>4, <2>1, <2>2, EventsAssumption DEF TypeOK
<1>6. ManualIsChosen /\ PreferenceKept
  BY <1>1, <1>2 DEF ManualIsChosen, PreferenceKept
<1>7. PreferOK /\ RowsAreOwn
  BY <1>1, <1>2, <1>3 DEF PreferOK, RowsAreOwn
<1>8. LentReturns
  BY <1>1, <1>2 DEF LentReturns, Lent, LentUpTo
<1> QED
  BY <1>5, <1>6, <1>7, <1>8 DEF IInv

LEMMA NextKeeps ==
  ASSUME IInv, [Next]_vars
  PROVE  IInv'
<1>1. CASE UNCHANGED vars
  <2>1. UNCHANGED <<radio, row, contact, calls, done, asks, up, down, events,
                    clean, chosen, seen, prefer>>
    BY <1>1 DEF vars, host, wire, history
  <2>2. TypeOK'
    BY <2>1 DEF IInv, TypeOK
  <2>3. LentReturns'
    BY <2>1, LentStays, EditsStay DEF IInv
  <2> QED
    BY <2>1, <2>2, <2>3, EditsStay, HostStays DEF IInv
<1>2. CASE CallSetPath
  BY <1>2, SetPathKeeps
<1>3. CASE CallResetPath
  BY <1>3, ResetPathKeeps
<1>4. CASE CallSetFavourite
  BY <1>4, SetFavouriteKeeps
<1>5. CASE CallSetPerms
  BY <1>5, SetPermsKeeps
<1>6. CASE CallAdd
  BY <1>6, AddKeeps
<1>7. CASE CallRemove
  BY <1>7, RemoveKeeps
<1>8. CASE CallPreferDirect
  BY <1>8, PreferDirectKeeps
<1>9. CASE CallAnon
  BY <1>9, AnonKeeps
<1>10. CASE Resume
  BY <1>10, ResumeKeeps
<1>11. CASE Receive
  BY <1>11, ReceiveKeeps
<1>12. CASE TimesOut
  BY <1>12, TimesOutKeeps
<1>13. CASE LinkDrops
  BY <1>13, LinkDropsKeeps
<1>14. CASE RadioTakes
  BY <1>14, RadioTakesKeeps
<1>15. CASE RadioChanges
  BY <1>15, RadioChangesKeeps
<1> QED
  BY <1>1, <1>2, <1>3, <1>4, <1>5, <1>6, <1>7, <1>8, <1>9, <1>10, <1>11, <1>12, <1>13,
     <1>14, <1>15 DEF Next

\* Type correctness, and the strengthening the results below rest on: what the edits under
\* way hold of the row and the entry, and what is on its way behind a borrowed path.
THEOREM Inductive == Spec => []IInv
<1>1. Init => IInv
  BY InitOK
<1>2. IInv /\ [Next]_vars => IInv'
  BY NextKeeps
<1> QED
  BY <1>1, <1>2, PTL DEF Spec

\* What only the host knows of a contact survives the radio's reports and every edit but
\* one that overlapped the call that set it: setContactPath and upsertOnRadioContact keep
\* the manual mark true, and carry the local preference.
THEOREM ChoicesSurvive == Spec => []LocalChoicesSurvive
<1>1. IInv => LocalChoicesSurvive
  BY DEF IInv, LocalChoicesSurvive
<1> QED
  BY <1>1, Inductive, PTL

\* The zero-hop path sendAnonReq borrows is given back, however many requests, edits,
\* refusals and timeouts overlapped, unless a report showed it or the link dropped.
THEOREM PathIsReturned == Spec => []BorrowedPathIsReturned
<1>1. IInv => BorrowedPathIsReturned
  <2> SUFFICES ASSUME IInv, Quiet, ~seen
               PROVE  /\ radio # Absent => radio.path # "shim"
                      /\ row # Absent => row.path # "shim"
    BY DEF BorrowedPathIsReturned
  <2>1. calls = <<>> /\ done = <<>> /\ up = <<>> /\ asks = 0
    BY DEF Quiet, Idle
  <2>2. ~Returns(up) /\ ~Asking
    BY <2>1 DEF Returns, Asking, Edits, Range
  <2>3. ~Lent
    BY <2>2 DEF IInv, LentReturns
  <2> QED
    BY <2>3 DEF IInv, RowsAreOwn, Lent
<1> QED
  BY <1>1, Inductive, PTL

\* The radio's record, the row of the discovered pool and the entry of the contact list
\* agree whenever nothing is under way and no two edits of different fields overlapped
\* since the host last knew the record, whatever reports, evictions and adverts crossed
\* the edits: every edit sends the fields it leaves alone as the host last saw them
\* (encodeContactRecordRewrite), and writes back the ones it read.
THEOREM CopiesAgree == Spec => []AgreeWhenQuiet
<1>1. Init => IInv /\ Agreeing
  BY InitOK, InitAgrees DEF IInv
<1>2. IInv /\ Agreeing /\ [Next]_vars => (IInv /\ Agreeing)'
  BY NextKeeps, NextAgrees
<1>3. IInv /\ Agreeing => AgreeWhenQuiet
  BY QuietAgrees DEF IInv
<1> QED
  BY <1>1, <1>2, <1>3, PTL DEF Spec
=============================================================================

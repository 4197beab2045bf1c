-------------------------- MODULE ContactsSync_proofs --------------------------
(***************************************************************************)
(* Proofs about ContactsSync, for any keys and any number of events.       *)
(*                                                                         *)
(* The argument for the prune: what the radio has sent of a walk stands in *)
(* the frames, in order, between the start frame and the end frame, until  *)
(* the session takes it, and then the key is in syncSeen; only a window    *)
(* that stays open, on one link, has received the walk from its start.     *)
(*                                                                         *)
(* The argument for the list that agrees: the last word on its way about a *)
(* key is the truth (Owing), and of every contact in the store either the  *)
(* session knows it, with nothing on its way to make it forget, or a walk  *)
(* or a frame brings it (Tracked).  A frame brings it only if no lookup    *)
(* that waits takes it for its own answer.  So the lookups that wait are   *)
(* matched, in order, with answers on their way (Embeds): the matching is  *)
(* not the code's, it only counts what is left over, and it moves when a   *)
(* lookup takes an answer that another was matched with.                   *)
(***************************************************************************)
EXTENDS ContactsSync, SequenceTheorems, WellFoundedInduction, TLAPS

\* A frame that begins or ends a walk.
Mark(f) == f[1] \in {"start", "end"}

\* Whatever stands before place n of the frames fr has the record of k as part of the
\* walk that is going on there: a contact frame after the last mark, or, where no mark
\* comes first, what the session has seen, if the walk it receives is whole.
Told(fr, seen, wh, k, n) ==
  \/ \E m \in 1..(n - 1) : /\ fr[m] = <<"contact", k>>
                           /\ \A j \in (m + 1)..(n - 1) : ~Mark(fr[j])
  \/ /\ \A j \in 1..(n - 1) : ~Mark(fr[j])
     /\ wh => k \in seen

\* An end frame on its way comes after the records of all it names.
EndsAreTold(fr, seen, wh) ==
  \A n \in 1..Len(fr) :
    fr[n][1] = "end" => \A k \in fr[n][2] : Told(fr, seen, wh, k, n)

\* The radio has sent the records of all that stayed since its walk began, but for
\* those it has yet to send.
WalkIsTold(fr, seen, wh, sent) ==
  \A k \in sent : Told(fr, seen, wh, k, Len(fr) + 1)

StreamOK ==
  /\ EndsAreTold(frames, syncSeen, whole)
  /\ walking => WalkIsTold(frames, syncSeen, whole, steady \ todo)

\* What a snapshot told last is what there is, or the window that is open holds the
\* next one back.
Fresh ==
  /\ shown.contacts = contacts \/ (bulk /\ "contacts" \in pending)
  /\ shown.discovered = row \/ (bulk /\ "discovered" \in pending)

\* A walk is whole only as long as its window is open, and on an open link.
WholeOK ==
  /\ whole => bulk
  /\ ~linkUp => frames = <<>> /\ ~whole

\* The inductive invariant.
IInv == TypeOK /\ Fresh /\ ContactsAreOnRadio /\ WholeOK /\ StreamOK

-----------------------------------------------------------------------------
(* Frames.                                                                 *)

\* What frames appended behind a place leave as it was, and what goes on with the
\* walk at the end, if none of them is a mark.
LEMMA ToldBefore ==
  ASSUME NEW fr \in Seq(Frames), NEW fs \in Seq(Frames), NEW seen, NEW wh, NEW k,
         NEW n \in 1..(Len(fr) + 1), Told(fr, seen, wh, k, n)
  PROVE  Told(fr \o fs, seen, wh, k, n)
<1>1. \A j \in 1..(n - 1) : (fr \o fs)[j] = fr[j]
  BY ConcatProperties
<1> QED
  BY <1>1 DEF Told

LEMMA ToldBehind ==
  ASSUME NEW fr \in Seq(Frames), NEW fs \in Seq(Frames), NEW seen, NEW wh, NEW k,
         \A i \in 1..Len(fs) : ~Mark(fs[i]),
         Told(fr, seen, wh, k, Len(fr) + 1)
  PROVE  Told(fr \o fs, seen, wh, k, Len(fr \o fs) + 1)
<1>1. /\ Len(fr) \in Nat /\ Len(fs) \in Nat /\ Len(fr \o fs) = Len(fr) + Len(fs)
      /\ \A j \in 1..Len(fr) : (fr \o fs)[j] = fr[j]
      /\ \A j \in (Len(fr) + 1)..(Len(fr) + Len(fs)) :
           (fr \o fs)[j] = fs[j - Len(fr)] /\ j - Len(fr) \in 1..Len(fs)
  BY ConcatProperties, LenProperties
<1>2. \A j \in (Len(fr) + 1)..Len(fr \o fs) : ~Mark((fr \o fs)[j])
  BY <1>1
<1>3. \A j \in 1..Len(fr) : ~Mark(fr[j]) => ~Mark((fr \o fs)[j])
  BY <1>1
<1>4. \A i \in 1..Len(fr \o fs) : i \in 1..Len(fr) \/ i \in (Len(fr) + 1)..Len(fr \o fs)
  BY <1>1
<1>5. CASE \E m \in 1..Len(fr) : /\ fr[m] = <<"contact", k>>
                                /\ \A j \in (m + 1)..Len(fr) : ~Mark(fr[j])
  <2>1. PICK m \in 1..Len(fr) : /\ fr[m] = <<"contact", k>>
                                /\ \A j \in (m + 1)..Len(fr) : ~Mark(fr[j])
    BY <1>5
  <2>2. m \in 1..Len(fr \o fs) /\ (fr \o fs)[m] = <<"contact", k>>
    BY <2>1, <1>1
  <2>3. \A j \in (m + 1)..Len(fr \o fs) : ~Mark((fr \o fs)[j])
    BY <2>1, <1>1, <1>2, <1>3
  <2> QED
    BY <2>2, <2>3, <1>1 DEF Told
<1>6. CASE (\A j \in 1..Len(fr) : ~Mark(fr[j])) /\ (wh => k \in seen)
  <2>1. \A j \in 1..Len(fr \o fs) : ~Mark((fr \o fs)[j])
    BY <1>6, <1>2, <1>3, <1>4
  <2> QED
    BY <2>1, <1>1, <1>6 DEF Told
<1> QED
  BY <1>1, <1>5, <1>6, SMTT(30) DEF Told

\* Sending frames that are no marks keeps what was told.
LEMMA SendingKeeps ==
  ASSUME NEW fr \in Seq(Frames), NEW fs \in Seq(Frames), NEW seen, NEW wh,
         \A i \in 1..Len(fs) : ~Mark(fs[i])
  PROVE  /\ EndsAreTold(fr, seen, wh) => EndsAreTold(fr \o fs, seen, wh)
         /\ \A S : WalkIsTold(fr, seen, wh, S) => WalkIsTold(fr \o fs, seen, wh, S)
<1>1. ASSUME EndsAreTold(fr, seen, wh)
      PROVE  EndsAreTold(fr \o fs, seen, wh)
  <2> SUFFICES ASSUME NEW n \in 1..Len(fr \o fs), (fr \o fs)[n][1] = "end",
                      NEW k \in (fr \o fs)[n][2]
               PROVE  Told(fr \o fs, seen, wh, k, n)
    BY DEF EndsAreTold
  <2>1. /\ Len(fr) \in Nat /\ Len(fs) \in Nat /\ Len(fr \o fs) = Len(fr) + Len(fs)
        /\ (fr \o fs)[n] = IF n <= Len(fr) THEN fr[n] ELSE fs[n - Len(fr)]
    BY ConcatProperties, LenProperties
  <2>2. n <= Len(fr)
    <3> SUFFICES ASSUME ~(n <= Len(fr)) PROVE FALSE
      OBVIOUS
    <3>1. n - Len(fr) \in 1..Len(fs) /\ fs[n - Len(fr)][1] = "end"
      BY <2>1
    <3> QED
      BY <3>1 DEF Mark
  <2>3. Told(fr, seen, wh, k, n)
    BY <1>1, <2>1, <2>2 DEF EndsAreTold
  <2> QED
    BY <2>1, <2>2, <2>3, ToldBefore
<1>2. ASSUME NEW S, WalkIsTold(fr, seen, wh, S)
      PROVE  WalkIsTold(fr \o fs, seen, wh, S)
  BY <1>2, ToldBehind DEF WalkIsTold
<1> QED
  BY <1>1, <1>2

\* The record of k, just sent, is told.
LEMMA RecordIsTold ==
  ASSUME NEW fr \in Seq(Frames), NEW seen, NEW wh, NEW k \in Keys
  PROVE  Told(fr \o <<<<"contact", k>>>>, seen, wh, k, Len(fr \o <<<<"contact", k>>>>) + 1)
<1> DEFINE fs == <<<<"contact", k>>>>
<1>1. fs \in Seq(Frames) /\ Len(fs) = 1 /\ fs[1] = <<"contact", k>>
  BY DEF Frames
<1> HIDE DEF fs
<1>2. /\ Len(fr) \in Nat /\ Len(fr \o fs) = Len(fr) + 1
      /\ (fr \o fs)[Len(fr) + 1] = <<"contact", k>>
  <2>1. Len(fr) \in Nat
    BY LenProperties
  <2>2. /\ Len(fr \o fs) = Len(fr) + Len(fs)
        /\ \A i \in 1..(Len(fr) + Len(fs)) :
             (fr \o fs)[i] = IF i <= Len(fr) THEN fr[i] ELSE fs[i - Len(fr)]
    BY <1>1, ConcatProperties
  <2>3. Len(fr) + 1 \in 1..(Len(fr) + Len(fs)) /\ ~(Len(fr) + 1 <= Len(fr))
        /\ (Len(fr) + 1) - Len(fr) = 1
    BY <1>1, <2>1
  <2> QED
    BY <1>1, <2>1, <2>2, <2>3
<1>3. Told(fr \o fs, seen, wh, k, Len(fr \o fs) + 1)
  BY <1>2 DEF Told
<1> QED
  BY <1>3 DEF fs

\* Taking a frame that is no mark: a record it had is in what the session has seen.
LEMMA TakingKeeps ==
  ASSUME NEW fr \in Seq(Frames), fr # <<>>, ~Mark(Head(fr)),
         NEW seen, NEW seenp, NEW wh, seen \subseteq seenp,
         \A k \in Keys : wh /\ Head(fr) = <<"contact", k>> => k \in seenp,
         NEW k \in Keys, NEW n \in 2..(Len(fr) + 1), Told(fr, seen, wh, k, n)
  PROVE  Told(Tail(fr), seenp, wh, k, n - 1)
<1>1. /\ Len(fr) \in Nat /\ Len(Tail(fr)) = Len(fr) - 1 /\ Head(fr) = fr[1]
      /\ \A i \in 1..(Len(fr) - 1) : Tail(fr)[i] = fr[i + 1]
  BY HeadTailProperties, LenProperties
<1>2. \A j \in 1..(n - 2) : j + 1 \in 2..(n - 1) /\ Tail(fr)[j] = fr[j + 1]
  BY <1>1
<1>3. ASSUME NEW m \in 2..(n - 1), fr[m] = <<"contact", k>>,
             \A j \in (m + 1)..(n - 1) : ~Mark(fr[j])
      PROVE  Told(Tail(fr), seenp, wh, k, n - 1)
  <2>1. m - 1 \in 1..(n - 2) /\ Tail(fr)[m - 1] = <<"contact", k>>
    BY <1>2, <1>3
  <2>2. ASSUME NEW j \in m..(n - 2) PROVE ~Mark(Tail(fr)[j])
    <3>1. j + 1 \in (m + 1)..(n - 1) /\ j \in 1..(n - 2)
      OBVIOUS
    <3> QED
      BY <3>1, <1>2, <1>3
  <2>3. m = (m - 1) + 1 /\ n - 2 = (n - 1) - 1
    OBVIOUS
  <2>4. \E i \in 1..((n - 1) - 1) : /\ Tail(fr)[i] = <<"contact", k>>
                                   /\ \A j \in (i + 1)..((n - 1) - 1) : ~Mark(Tail(fr)[j])
    BY <2>1, <2>2, <2>3
  <2> QED
    BY <2>4 DEF Told
<1>4. ASSUME \A j \in 2..(n - 1) : ~Mark(fr[j]), wh => k \in seenp
      PROVE  Told(Tail(fr), seenp, wh, k, n - 1)
  <2>1. \A j \in 1..(n - 2) : ~Mark(Tail(fr)[j])
    BY <1>2, <1>4
  <2> QED
    BY <2>1, <1>4 DEF Told
<1>5. CASE \E m \in 1..(n - 1) : /\ fr[m] = <<"contact", k>>
                                /\ \A j \in (m + 1)..(n - 1) : ~Mark(fr[j])
  <2>1. PICK m \in 1..(n - 1) : /\ fr[m] = <<"contact", k>>
                                /\ \A j \in (m + 1)..(n - 1) : ~Mark(fr[j])
    BY <1>5
  <2>2. CASE m = 1
    BY <2>1, <2>2, <1>1, <1>4
  <2>3. CASE m # 1
    BY <2>1, <2>3, <1>3
  <2> QED
    BY <2>2, <2>3
<1>6. CASE (\A j \in 1..(n - 1) : ~Mark(fr[j])) /\ (wh => k \in seen)
  BY <1>4, <1>6
<1> QED
  BY <1>5, <1>6 DEF Told

\* Taking a mark: what comes behind it is told without what the session had seen.
LEMMA MarkKeeps ==
  ASSUME NEW fr \in Seq(Frames), fr # <<>>, Mark(Head(fr)),
         NEW seen, NEW seenp, NEW wh, NEW whp,
         NEW k, NEW n \in 2..(Len(fr) + 1), Told(fr, seen, wh, k, n)
  PROVE  Told(Tail(fr), seenp, whp, k, n - 1)
<1>1. /\ Len(fr) \in Nat /\ Len(Tail(fr)) = Len(fr) - 1 /\ Head(fr) = fr[1]
      /\ \A i \in 1..(Len(fr) - 1) : Tail(fr)[i] = fr[i + 1]
  BY HeadTailProperties, LenProperties
<1>2. ~(\A j \in 1..(n - 1) : ~Mark(fr[j]))
  BY <1>1
<1>3. PICK m \in 1..(n - 1) : /\ fr[m] = <<"contact", k>>
                              /\ \A j \in (m + 1)..(n - 1) : ~Mark(fr[j])
  BY <1>2 DEF Told
<1>4. m # 1
  BY <1>1, <1>3 DEF Mark
<1>5. m - 1 \in 1..(n - 2) /\ Tail(fr)[m - 1] = <<"contact", k>>
  BY <1>1, <1>3, <1>4
<1>6. ASSUME NEW j \in m..(n - 2) PROVE ~Mark(Tail(fr)[j])
  <2>1. j + 1 \in (m + 1)..(n - 1) /\ j \in 1..(Len(fr) - 1)
    BY <1>1
  <2> QED
    BY <2>1, <1>1, <1>3
<1>7. m = (m - 1) + 1 /\ n - 2 = (n - 1) - 1
  OBVIOUS
<1>8. \E i \in 1..((n - 1) - 1) : /\ Tail(fr)[i] = <<"contact", k>>
                                 /\ \A j \in (i + 1)..((n - 1) - 1) : ~Mark(Tail(fr)[j])
  BY <1>5, <1>6, <1>7
<1> QED
  BY <1>8 DEF Told

\* The frames as a whole, after one was taken.
LEMMA TailIsTold ==
  ASSUME NEW fr \in Seq(Frames), fr # <<>>, NEW seen, NEW seenp, NEW wh, NEW whp,
         \/ Mark(Head(fr))
         \/ /\ seen \subseteq seenp /\ whp = wh
            /\ \A k \in Keys : wh /\ Head(fr) = <<"contact", k>> => k \in seenp
  PROVE  /\ EndsAreTold(fr, seen, wh) => EndsAreTold(Tail(fr), seenp, whp)
         /\ \A S \in SUBSET Keys :
              WalkIsTold(fr, seen, wh, S) => WalkIsTold(Tail(fr), seenp, whp, S)
<1>1. /\ Len(fr) \in Nat /\ Len(Tail(fr)) = Len(fr) - 1 /\ Len(fr) >= 1
      /\ \A i \in 1..(Len(fr) - 1) : Tail(fr)[i] = fr[i + 1]
  BY HeadTailProperties, LenProperties, EmptySeq
<1>2. ASSUME NEW k \in Keys, NEW n \in 2..(Len(fr) + 1), Told(fr, seen, wh, k, n)
      PROVE  Told(Tail(fr), seenp, whp, k, n - 1)
  <2>1. CASE Mark(Head(fr))
    BY <2>1, <1>2, MarkKeeps
  <2>2. CASE ~Mark(Head(fr))
    BY <2>2, <1>2, TakingKeeps
  <2> QED
    BY <2>1, <2>2
<1>3. ASSUME EndsAreTold(fr, seen, wh)
      PROVE  EndsAreTold(Tail(fr), seenp, whp)
  <2> SUFFICES ASSUME NEW n \in 1..Len(Tail(fr)), Tail(fr)[n][1] = "end",
                      NEW k \in Tail(fr)[n][2]
               PROVE  Told(Tail(fr), seenp, whp, k, n)
    BY DEF EndsAreTold
  <2>1. n + 1 \in 2..Len(fr) /\ Tail(fr)[n] = fr[n + 1]
    BY <1>1
  <2>2. fr[n + 1] \in Frames
    BY <2>1
  <2>3. k \in Keys
    BY <2>1, <2>2 DEF Frames
  <2>4. Told(fr, seen, wh, k, n + 1)
    BY <1>3, <2>1 DEF EndsAreTold
  <2>5. Told(Tail(fr), seenp, whp, k, (n + 1) - 1)
    BY <1>2, <2>1, <2>3, <2>4
  <2> QED
    BY <2>5
<1>4. ASSUME NEW S \in SUBSET Keys, WalkIsTold(fr, seen, wh, S)
      PROVE  WalkIsTold(Tail(fr), seenp, whp, S)
  <2> SUFFICES ASSUME NEW k \in S PROVE Told(Tail(fr), seenp, whp, k, Len(Tail(fr)) + 1)
    BY DEF WalkIsTold
  <2>1. Told(Tail(fr), seenp, whp, k, (Len(fr) + 1) - 1)
    BY <1>1, <1>2, <1>4 DEF WalkIsTold
  <2> QED
    BY <2>1, <1>1
<1> QED
  BY <1>3, <1>4

\* Of a walk that is not whole, and of frames that differ in no mark and no record,
\* the same is told.
LEMMA AsToldBefore ==
  ASSUME NEW fr \in Seq(Frames), NEW gr \in Seq(Frames), Len(gr) = Len(fr),
         \A i \in 1..Len(fr) : gr[i] = fr[i] \/ (fr[i][1] = "busy" /\ gr[i][1] = "unawaited"),
         NEW seen, NEW seenp, NEW wh
  PROVE  /\ EndsAreTold(fr, seen, wh) => EndsAreTold(gr, seenp, FALSE)
         /\ \A S : WalkIsTold(fr, seen, wh, S) => WalkIsTold(gr, seenp, FALSE, S)
<1>1. Len(fr) \in Nat
  BY LenProperties
<1>2. ASSUME NEW k, NEW n \in 1..(Len(fr) + 1), Told(fr, seen, wh, k, n)
      PROVE  Told(gr, seenp, FALSE, k, n)
  <2>1. \A j \in 1..Len(fr) : ~Mark(fr[j]) => ~Mark(gr[j])
    BY DEF Mark
  <2>2. \A j \in 1..Len(fr) : fr[j] = <<"contact", k>> => gr[j] = <<"contact", k>>
    OBVIOUS
  <2> QED
    BY <1>1, <1>2, <2>1, <2>2 DEF Told
<1>3. ASSUME EndsAreTold(fr, seen, wh)
      PROVE  EndsAreTold(gr, seenp, FALSE)
  <2> SUFFICES ASSUME NEW n \in 1..Len(gr), gr[n][1] = "end", NEW k \in gr[n][2]
               PROVE  Told(gr, seenp, FALSE, k, n)
    BY DEF EndsAreTold
  <2>1. gr[n] = fr[n]
    OBVIOUS
  <2>2. Told(fr, seen, wh, k, n)
    BY <1>3, <2>1 DEF EndsAreTold
  <2>3. n \in 1..(Len(fr) + 1)
    BY <1>1
  <2> QED
    BY <1>2, <2>2, <2>3, Zenon
<1>4. ASSUME NEW S, WalkIsTold(fr, seen, wh, S)
      PROVE  WalkIsTold(gr, seenp, FALSE, S)
  <2>1. Len(fr) + 1 \in 1..(Len(fr) + 1) /\ Len(gr) + 1 = Len(fr) + 1
    BY <1>1
  <2> QED
    BY <1>2, <1>4, <2>1, Zenon DEF WalkIsTold
<1> QED
  BY <1>3, <1>4

\* A closed link has no frames and no whole walk: whatever is asked of them is told.
LEMMA NothingToTell ==
  ASSUME NEW seen
  PROVE  /\ EndsAreTold(<<>>, seen, FALSE)
         /\ \A S : WalkIsTold(<<>>, seen, FALSE, S)
<1>1. Len(<<>>) = 0
  BY EmptySeq
<1> QED
  BY <1>1 DEF EndsAreTold, WalkIsTold, Told

-----------------------------------------------------------------------------
(* Types.                                                                  *)

\* A set of positions has a least one.
LEMMA LeastBy ==
  ASSUME NEW R, IsWellFoundedOn(R, Nat), \A i, j \in Nat : i < j => <<i, j>> \in R,
         NEW I, I \subseteq Nat, I # {}
  PROVE  \E m \in I : \A j \in I : m <= j
<1>1. PICK m \in I : \A j \in I : ~(<<j, m>> \in R)
  BY WFMin, ZenonT(60)
<1>2. ASSUME NEW j \in I PROVE m <= j
  <2>1. j \in Nat /\ m \in Nat /\ (j < m \/ m <= j)
    OBVIOUS
  <2>2. ~(j < m)
    BY <1>1, <2>1, Zenon
  <2> QED
    BY <2>1, <2>2
<1> QED
  BY <1>2

LEMMA LeastPosition ==
  ASSUME NEW I, I \subseteq Nat, I # {}
  PROVE  Min(I) \in I
<1>1. \A i, j \in Nat : i < j => <<i, j>> \in OpToRel(<, Nat)
  BY DEF OpToRel
<1>2. \E m \in I : \A j \in I : m <= j
  BY <1>1, NatLessThanWellFounded, LeastBy, Zenon
<1> QED
  BY <1>2 DEF Min

LEMMA LookupIsQueued ==
  ASSUME TypeOK, NEW k \in Keys
  PROVE  LookupOf(k) \in Nat /\ (LookupOf(k) > 0 => LookupOf(k) \in DOMAIN lookups)
<1> DEFINE I == {i \in 1..Len(lookups) : lookups[i][1] = k}
<1>1. lookups \in Seq(Keys \X {"app", "refresh"})
  BY DEF TypeOK
<1>2. I \subseteq Nat /\ Len(lookups) \in Nat /\ DOMAIN lookups = 1..Len(lookups)
  BY <1>1, LenProperties
<1>3. LookupOf(k) = IF I # {} THEN Min(I) ELSE 0
  BY DEF LookupOf, SelectInSeq
<1>4. I # {} => Min(I) \in I
  BY <1>2, LeastPosition
<1> QED
  BY <1>2, <1>3, <1>4

LEMMA LookupRemoved ==
  ASSUME TypeOK, NEW i \in DOMAIN lookups
  PROVE  /\ RemoveAt(lookups, i) \in Seq(Keys \X {"app", "refresh"})
         /\ Retiring({lookups[i]}) \subseteq {"retire"} \X Keys
<1> DEFINE L == Keys \X {"app", "refresh"}
<1>1. lookups \in Seq(L)
  BY DEF TypeOK
<1> HIDE DEF L
<1>2. Len(lookups) \in Nat /\ DOMAIN lookups = 1..Len(lookups) /\ \A j \in 1..Len(lookups) : lookups[j] \in L
  BY <1>1, LenProperties, ElementOfSeq
<1>3. SubSeq(lookups, 1, i - 1) \in Seq(L)
  BY <1>2, SubSeqProperties
<1>4. SubSeq(lookups, i + 1, Len(lookups)) \in Seq(L)
  BY <1>2, SubSeqProperties
<1>5. RemoveAt(lookups, i) \in Seq(L)
  BY <1>3, <1>4, ConcatProperties DEF RemoveAt
<1>6. lookups[i] \in L
  BY <1>2
<1> QED
  BY <1>5, <1>6 DEF L, Retiring

LEMMA LookupsFail ==
  ASSUME TypeOK
  PROVE  Retiring(Range(lookups)) \subseteq {"retire"} \X Keys
<1>1. lookups \in Seq(Keys \X {"app", "refresh"})
  BY DEF TypeOK
<1>2. Range(lookups) \subseteq Keys \X {"app", "refresh"}
  BY <1>1 DEF Range
<1> QED
  BY <1>2 DEF Retiring

\* A command is written, a frame is taken or sent: the wires keep their types.
LEMMA Writing ==
  ASSUME TypeOK, NEW what, NEW k, <<what, k>> \in Commands, Write(what, k)
  PROVE  inbox' \in Seq(Commands)
BY DEF TypeOK, Write

LEMMA Getting ==
  ASSUME TypeOK, NEW what, NEW k, Got(what, k)
  PROVE  frames' \in Seq(Frames)
BY HeadTailProperties DEF TypeOK, Got

LEMMA Taking ==
  ASSUME TypeOK, NEW what, NEW k, Takes(what, k)
  PROVE  inbox' \in Seq(Commands)
BY HeadTailProperties DEF TypeOK, Takes

LEMMA Sending ==
  ASSUME TypeOK, NEW fs \in Seq(Frames), Sends(fs)
  PROVE  frames' \in Seq(Frames)
<1>1. frames \in Seq(Frames)
  BY DEF TypeOK
<1> QED
  BY <1>1, ConcatProperties DEF Sends

\* So do the snapshots.
LEMMA Emitting ==
  ASSUME TypeOK, contacts' \subseteq Keys, row' \in [Keys -> {"none", "off", "on"}], NEW S
  PROVE  Emit(S) \in [contacts : SUBSET Keys, discovered : [Keys -> {"none", "off", "on"}]]
BY DEF TypeOK, Emit

LEMMA Publishing ==
  ASSUME TypeOK, contacts' \subseteq Keys, row' \in [Keys -> {"none", "off", "on"}],
         NEW S \in SUBSET Snapshots,
         Publish(S) \/ CloseContactsBulk \/ OpenContactsBulk
  PROVE  /\ bulk' \in BOOLEAN /\ pending' \subseteq Snapshots
         /\ shown' \in [contacts : SUBSET Keys, discovered : [Keys -> {"none", "off", "on"}]]
<1>1. shown \in [contacts : SUBSET Keys, discovered : [Keys -> {"none", "off", "on"}]]
      /\ bulk \in BOOLEAN /\ pending \subseteq Snapshots
  BY DEF TypeOK
<1>2. \A P : Emit(P) \in [contacts : SUBSET Keys, discovered : [Keys -> {"none", "off", "on"}]]
  BY Emitting
<1>3. CASE Publish(S)
  BY <1>1, <1>2, <1>3 DEF Publish
<1>4. CASE CloseContactsBulk
  BY <1>2, <1>4 DEF CloseContactsBulk
<1>5. CASE OpenContactsBulk
  BY <1>1, <1>2, <1>5 DEF OpenContactsBulk
<1> QED
  BY <1>3, <1>4, <1>5

\* Timers and the app's calls keep the types.
LEMMA TimersKeepTypes ==
  ASSUME TypeOK, Timers
  PROVE  TypeOK'
<1> USE DEF session, waiting, link, radio, wires, history
<1>1. /\ \A k \in Keys : <<"lookup", k>> \in Commands
      /\ <<"resync", NoKey>> \in Commands
  BY DEF Commands
<1>2. CASE WatchdogFires
  <2>1. contacts' \subseteq Keys /\ row' \in [Keys -> {"none", "off", "on"}]
    BY <1>2 DEF TypeOK, WatchdogFires
  <2>2. /\ bulk' \in BOOLEAN /\ pending' \subseteq Snapshots
        /\ shown' \in [contacts : SUBSET Keys, discovered : [Keys -> {"none", "off", "on"}]]
    BY <1>2, <2>1, Publishing DEF WatchdogFires
  <2> QED
    BY <1>2, <2>2 DEF TypeOK, WatchdogFires
<1>3. CASE ResyncFires
  <2>1. inbox' \in Seq(Commands)
    BY <1>1, <1>3, Writing DEF ResyncFires, TypeOK
  <2> QED
    BY <1>3, <2>1 DEF TypeOK, ResyncFires
<1>4. ASSUME NEW k \in Keys, RefreshFires(k) PROVE TypeOK'
  <2>1. inbox' \in Seq(Commands)
    BY <1>1, <1>4, Writing DEF RefreshFires
  <2>2. <<k, "refresh">> \in Keys \X {"app", "refresh"}
    OBVIOUS
  <2> QED
    BY <1>4, <2>1, <2>2 DEF TypeOK, RefreshFires
<1>5. ASSUME NEW k \in Keys, RefreshFails(k) PROVE TypeOK'
  BY <1>5 DEF TypeOK, RefreshFails
<1>6. ASSUME NEW k \in Keys, OrphanFires(k) PROVE TypeOK'
  <2>1. /\ inbox' \in Seq(Commands) /\ lookups' \in Seq(Keys \X {"app", "refresh"})
    <3>1. CASE linkUp
      <4>1. Write("lookup", k) /\ lookups' = Append(lookups, <<k, "refresh">>)
        BY <1>6, <3>1 DEF OrphanFires
      <4>2. inbox' \in Seq(Commands)
        BY <1>1, <4>1, Writing
      <4>3. <<k, "refresh">> \in Keys \X {"app", "refresh"}
        OBVIOUS
      <4>4. lookups' \in Seq(Keys \X {"app", "refresh"})
        BY <4>1, <4>3 DEF TypeOK
      <4> QED
        BY <4>2, <4>4
    <3> QED
      BY <1>6, <3>1 DEF OrphanFires, TypeOK
  <2>2. orphans' \in [Keys -> Nat] /\ refresh' \in [Keys -> {"none", "scheduled", "asked"}]
    <3>1. /\ orphans \in [Keys -> Nat] /\ refresh \in [Keys -> {"none", "scheduled", "asked"}]
          /\ orphans[k] \in Nat /\ orphans[k] > 0 /\ orphans[k] - 1 \in Nat
      BY <1>6 DEF OrphanFires, TypeOK
    <3> HIDE DEF OrphanFires
    <3>2. \/ orphans' = [orphans EXCEPT ![k] = orphans[k] - 1]
          \/ orphans' = [orphans EXCEPT ![k] = orphans[k]]
      BY <1>6 DEF OrphanFires
    <3>3. refresh' = refresh \/ refresh' = [refresh EXCEPT ![k] = "none"]
      BY <1>6 DEF OrphanFires
    <3> QED
      BY <3>1, <3>2, <3>3
  <2> QED
    BY <1>6, <2>1, <2>2 DEF TypeOK, OrphanFires
<1>7. ASSUME NEW i \in DOMAIN lookups, LookupTimesOut(i) PROVE TypeOK'
  <2>1. /\ RemoveAt(lookups, i) \in Seq(Keys \X {"app", "refresh"})
        /\ Retiring({lookups[i]}) \subseteq {"retire"} \X Keys
    BY LookupRemoved
  <2>2. budget' \in 0..MaxEvents
    BY <1>7, SyncAssumption DEF TypeOK, LookupTimesOut, Spend
  <2>3. /\ lookups' \in Seq(Keys \X {"app", "refresh"})
        /\ ready' \subseteq Edits \cup ({"retire"} \X Keys)
    BY <1>7, <2>1 DEF TypeOK, LookupTimesOut
  <2> QED
    BY <1>7, <2>2, <2>3 DEF TypeOK, LookupTimesOut
<1>8. ASSUME NEW e \in asked, EditTimesOut(e) PROVE TypeOK'
  BY <1>8, SyncAssumption DEF TypeOK, EditTimesOut, Spend
<1> QED
  BY <1>2, <1>3, <1>4, <1>5, <1>6, <1>7, <1>8 DEF Timers

LEMMA CallsKeepTypes ==
  ASSUME TypeOK, Calls \/ Microtasks
  PROVE  TypeOK'
<1> USE DEF session, waiting, link, radio, wires, history
<1>1. /\ \A k \in Keys : /\ <<"lookup", k>> \in Commands
                         /\ <<"add", k>> \in Commands /\ <<"remove", k>> \in Commands
      /\ <<"walk", NoKey>> \in Commands
  BY DEF Commands
<1>2. CASE CallWalk
  <2>1. inbox' \in Seq(Commands)
    BY <1>1, <1>2, Writing DEF CallWalk
  <2> QED
    BY <1>2, <2>1, SyncAssumption DEF TypeOK, CallWalk, Spend
<1>3. ASSUME NEW k \in Keys, CallLookup(k) PROVE TypeOK'
  <2>1. inbox' \in Seq(Commands)
    BY <1>1, <1>3, Writing DEF CallLookup
  <2>2. <<k, "app">> \in Keys \X {"app", "refresh"}
    OBVIOUS
  <2> QED
    BY <1>3, <2>1, <2>2, SyncAssumption DEF TypeOK, CallLookup, Spend
<1>4. ASSUME NEW k \in Keys, NEW what \in {"add", "remove"}, CallEdit(what, k)
      PROVE  TypeOK'
  <2>1. inbox' \in Seq(Commands)
    BY <1>1, <1>4, Writing DEF CallEdit
  <2>2. <<what, k>> \in Edits
    BY DEF Edits
  <2>3. budget' \in 0..MaxEvents
    BY <1>4, SyncAssumption DEF TypeOK, CallEdit, Spend
  <2>4. asked' \subseteq Edits
    BY <1>4, <2>2 DEF TypeOK, CallEdit
  <2> QED
    BY <1>4, <2>1, <2>3, <2>4 DEF TypeOK, CallEdit
<1>5. ASSUME NEW k \in Keys, Retire(k) PROVE TypeOK'
  BY <1>5 DEF TypeOK, Retire
<1>6. ASSUME NEW k \in Keys, Added(k) PROVE TypeOK'
  <2>1. contacts' \subseteq Keys /\ row' \in [Keys -> {"none", "off", "on"}]
    BY <1>6 DEF TypeOK, Added
  <2>2. /\ bulk' \in BOOLEAN /\ pending' \subseteq Snapshots
        /\ shown' \in [contacts : SUBSET Keys, discovered : [Keys -> {"none", "off", "on"}]]
    BY <1>6, <2>1, Publishing DEF Added
  <2> QED
    BY <1>6, <2>1, <2>2 DEF TypeOK, Added
<1>7. ASSUME NEW k \in Keys, Removed(k) PROVE TypeOK'
  <2>1. contacts' \subseteq Keys /\ row' \in [Keys -> {"none", "off", "on"}]
    BY <1>7 DEF TypeOK, Removed, SetOffRadio
  <2>2. /\ bulk' \in BOOLEAN /\ pending' \subseteq Snapshots
        /\ shown' \in [contacts : SUBSET Keys, discovered : [Keys -> {"none", "off", "on"}]]
    BY <1>7, <2>1, Publishing DEF Removed
  <2> QED
    BY <1>7, <2>1, <2>2 DEF TypeOK, Removed
<1> QED
  BY <1>2, <1>3, <1>4, <1>5, <1>6, <1>7 DEF Calls, Microtasks

\* So do the frame handlers.
LEMMA IngestKeepsTypes ==
  ASSUME TypeOK, NEW k \in Keys
  PROVE  /\ IngestOnRadio(k) =>
              /\ contacts' \subseteq Keys /\ row' \in [Keys -> {"none", "off", "on"}]
              /\ bulk' \in BOOLEAN /\ pending' \subseteq Snapshots
              /\ shown' \in [contacts : SUBSET Keys, discovered : [Keys -> {"none", "off", "on"}]]
         /\ ResolveLookup(k) =>
              /\ contacts' \subseteq Keys /\ row' \in [Keys -> {"none", "off", "on"}]
              /\ bulk' \in BOOLEAN /\ pending' \subseteq Snapshots
              /\ shown' \in [contacts : SUBSET Keys, discovered : [Keys -> {"none", "off", "on"}]]
              /\ refresh' \in [Keys -> {"none", "scheduled", "asked"}]
              /\ lookups' \in Seq(Keys \X {"app", "refresh"})
              /\ ready' \subseteq Edits \cup ({"retire"} \X Keys)
<1>1. ASSUME IngestOnRadio(k)
      PROVE  /\ contacts' \subseteq Keys /\ row' \in [Keys -> {"none", "off", "on"}]
             /\ bulk' \in BOOLEAN /\ pending' \subseteq Snapshots
             /\ shown' \in [contacts : SUBSET Keys, discovered : [Keys -> {"none", "off", "on"}]]
  <2>1. contacts' \subseteq Keys /\ row' \in [Keys -> {"none", "off", "on"}]
    BY <1>1 DEF TypeOK, IngestOnRadio
  <2> QED
    BY <1>1, <2>1, Publishing DEF IngestOnRadio
<1>2. ASSUME ResolveLookup(k)
      PROVE  /\ contacts' \subseteq Keys /\ row' \in [Keys -> {"none", "off", "on"}]
             /\ bulk' \in BOOLEAN /\ pending' \subseteq Snapshots
             /\ shown' \in [contacts : SUBSET Keys, discovered : [Keys -> {"none", "off", "on"}]]
             /\ refresh' \in [Keys -> {"none", "scheduled", "asked"}]
             /\ lookups' \in Seq(Keys \X {"app", "refresh"})
             /\ ready' \subseteq Edits \cup ({"retire"} \X Keys)
  <2>1. LookupOf(k) \in DOMAIN lookups
    BY <1>2, LookupIsQueued DEF ResolveLookup
  <2>2. /\ RemoveAt(lookups, LookupOf(k)) \in Seq(Keys \X {"app", "refresh"})
        /\ Retiring({lookups[LookupOf(k)]}) \subseteq {"retire"} \X Keys
    BY <2>1, LookupRemoved
  <2>3. /\ refresh' \in [Keys -> {"none", "scheduled", "asked"}]
        /\ lookups' \in Seq(Keys \X {"app", "refresh"})
        /\ ready' \subseteq Edits \cup ({"retire"} \X Keys)
    BY <1>2, <2>2 DEF ResolveLookup, TypeOK
  <2>4. CASE refresh[k] # "none"
    BY <1>1, <1>2, <2>3, <2>4 DEF ResolveLookup
  <2>5. CASE refresh[k] = "none"
    BY <1>2, <2>3, <2>5 DEF ResolveLookup, TypeOK
  <2> QED
    BY <2>4, <2>5
<1> QED
  BY <1>1, <1>2

LEMMA ReceiveKeepsTypes ==
  ASSUME TypeOK, Receive
  PROVE  TypeOK'
<1> USE DEF session, waiting, link, radio, wires, history
<1>1. CASE GotStart
  <2>1. frames' \in Seq(Frames)
    BY <1>1, Getting DEF GotStart
  <2>2. /\ bulk' \in BOOLEAN /\ pending' \subseteq Snapshots
        /\ shown' \in [contacts : SUBSET Keys, discovered : [Keys -> {"none", "off", "on"}]]
    <3>1. contacts' \subseteq Keys /\ row' \in [Keys -> {"none", "off", "on"}]
      BY <1>1 DEF GotStart, TypeOK
    <3> QED
      BY <1>1, <3>1, Publishing DEF GotStart
  <2> QED
    BY <1>1, <2>1, <2>2 DEF TypeOK, GotStart
<1>2. CASE GotBusy \/ GotUnawaited
  <2>1. frames' \in Seq(Frames)
    BY <1>2, Getting DEF GotBusy, GotUnawaited
  <2> QED
    BY <1>2, <2>1 DEF TypeOK, GotBusy, GotUnawaited, Drift
<1>3. ASSUME NEW kept \in SUBSET Keys, GotEnd(kept) PROVE TypeOK'
  <2>1. frames' \in Seq(Frames)
    BY <1>3, Getting DEF GotEnd
  <2>2. contacts' \subseteq Keys /\ row' \in [Keys -> {"none", "off", "on"}]
    BY <1>3 DEF GotEnd, TypeOK
  <2>3. shown' \in [contacts : SUBSET Keys, discovered : [Keys -> {"none", "off", "on"}]]
    BY <1>3, <2>2, Emitting DEF GotEnd
  <2> QED
    BY <1>3, <2>1, <2>2, <2>3 DEF TypeOK, GotEnd
<1>4. ASSUME NEW k \in Keys, GotSolicited(k) PROVE TypeOK'
  <2>1. frames' \in Seq(Frames)
    BY <1>4, Getting DEF GotSolicited
  <2>2. /\ contacts' \subseteq Keys /\ row' \in [Keys -> {"none", "off", "on"}]
        /\ bulk' \in BOOLEAN /\ pending' \subseteq Snapshots
        /\ shown' \in [contacts : SUBSET Keys, discovered : [Keys -> {"none", "off", "on"}]]
        /\ refresh' \in [Keys -> {"none", "scheduled", "asked"}]
        /\ lookups' \in Seq(Keys \X {"app", "refresh"})
        /\ ready' \subseteq Edits \cup ({"retire"} \X Keys)
    BY <1>4, IngestKeepsTypes DEF GotSolicited
  <2>3. syncSeen' \subseteq Keys
    BY <1>4 DEF GotSolicited, TypeOK
  <2> QED
    BY <1>4, <2>1, <2>2, <2>3 DEF TypeOK, GotSolicited, Drift
<1>5. ASSUME NEW k \in Keys, GotContact(k) PROVE TypeOK'
  <2>1. frames' \in Seq(Frames)
    BY <1>5, Getting DEF GotContact
  <2>2. /\ contacts' \subseteq Keys /\ row' \in [Keys -> {"none", "off", "on"}]
        /\ bulk' \in BOOLEAN /\ pending' \subseteq Snapshots
        /\ shown' \in [contacts : SUBSET Keys, discovered : [Keys -> {"none", "off", "on"}]]
    BY <1>5, IngestKeepsTypes DEF GotContact
  <2> QED
    BY <1>5, <2>1, <2>2 DEF TypeOK, GotContact, Drift
<1>6. ASSUME NEW k \in Keys, GotMissing(k) PROVE TypeOK'
  <2>1. frames' \in Seq(Frames)
    BY <1>6, Getting DEF GotMissing
  <2>2. /\ lookups' \in Seq(Keys \X {"app", "refresh"})
        /\ ready' \subseteq Edits \cup ({"retire"} \X Keys)
    <3>1. lookups # <<>> => /\ Tail(lookups) \in Seq(Keys \X {"app", "refresh"})
                            /\ Head(lookups) \in Keys \X {"app", "refresh"}
      BY HeadTailProperties DEF TypeOK
    <3>2. lookups # <<>> => Retiring({Head(lookups)}) \subseteq {"retire"} \X Keys
      BY <3>1 DEF Retiring
    <3> QED
      BY <1>6, <3>1, <3>2 DEF GotMissing, TypeOK
  <2> QED
    BY <1>6, <2>1, <2>2 DEF TypeOK, GotMissing, Drift
<1>7. ASSUME NEW k \in Keys, GotNewAdvert(k) \/ GotAdvert(k) \/ GotDeleted(k) PROVE TypeOK'
  <2>1. frames' \in Seq(Frames)
    BY <1>7, Getting DEF GotNewAdvert, GotAdvert, GotDeleted
  <2>2. contacts' \subseteq Keys /\ row' \in [Keys -> {"none", "off", "on"}]
    BY <1>7 DEF TypeOK, GotNewAdvert, GotAdvert, GotDeleted, SetOffRadio
  <2>3. /\ Snapshots \in SUBSET Snapshots /\ {"discovered"} \in SUBSET Snapshots
        /\ {"contacts"} \in SUBSET Snapshots /\ {} \in SUBSET Snapshots
    BY DEF Snapshots
  <2>4. \E S \in SUBSET Snapshots : Publish(S)
    BY <1>7, <2>3, Zenon DEF GotNewAdvert, GotAdvert, GotDeleted
  <2>5. /\ bulk' \in BOOLEAN /\ pending' \subseteq Snapshots
        /\ shown' \in [contacts : SUBSET Keys, discovered : [Keys -> {"none", "off", "on"}]]
    BY <2>2, <2>4, Publishing
  <2>6. /\ resync' \in BOOLEAN /\ refresh' \in [Keys -> {"none", "scheduled", "asked"}]
        /\ adrift' \in {"no", "untilWalked", "yes"}
    BY <1>7 DEF TypeOK, GotNewAdvert, GotAdvert, GotDeleted, Drift
  <2> QED
    BY <1>7, <2>1, <2>2, <2>5, <2>6 DEF TypeOK, GotNewAdvert, GotAdvert, GotDeleted
<1>8. ASSUME NEW k \in Keys, NEW what \in {"add", "remove"}, NEW ok \in BOOLEAN, GotAck(what, k, ok)
      PROVE  TypeOK'
  <2>1. frames' \in Seq(Frames)
    BY <1>8, Getting DEF GotAck
  <2>2. <<what, k>> \in Edits
    BY DEF Edits
  <2>3. asked' \subseteq Edits /\ ready' \subseteq Edits \cup ({"retire"} \X Keys)
        /\ adrift' \in {"no", "untilWalked", "yes"}
    BY <1>8, <2>2 DEF GotAck, TypeOK
  <2> QED
    BY <1>8, <2>1, <2>3 DEF TypeOK, GotAck
<1> QED
  BY <1>1, <1>2, <1>3, <1>4, <1>5, <1>6, <1>7, <1>8 DEF Receive

\* So do the radio and the link.
LEMMA RadioKeepsTypes ==
  ASSUME TypeOK, RadioAnswers \/ RadioGoesOn \/ Hears
  PROVE  TypeOK'
<1> USE DEF session, waiting, link, radio, wires, history
<1>1. /\ <<>> \in Seq(Frames)
      /\ <<<<"start", NoKey>>>> \in Seq(Frames) /\ <<<<"busy", NoKey>>>> \in Seq(Frames)
      /\ \A S \in SUBSET Keys : <<<<"end", S>>>> \in Seq(Frames)
      /\ \A k \in Keys :
           \A what \in {"contact", "missing", "added", "refused", "removed", "advert", "newAdvert"} :
             <<<<what, k>>>> \in Seq(Frames)
      /\ \A k, l \in Keys : <<<<"deleted", l>>, <<"advert", k>>>> \in Seq(Frames)
  BY DEF Frames
<1>2. ASSUME NEW what \in {"walk", "resync"}, RadioWalks(what) PROVE TypeOK'
  <2>1. inbox' \in Seq(Commands)
    BY <1>2, Taking DEF RadioWalks
  <2>2. frames' \in Seq(Frames)
    BY <1>1, <1>2, Sending DEF RadioWalks
  <2>3. walking' \in BOOLEAN /\ todo' \subseteq Keys /\ steady' \subseteq Keys
    BY <1>2 DEF RadioWalks, TypeOK
  <2> QED
    BY <1>2, <2>1, <2>2, <2>3 DEF TypeOK, RadioWalks
<1>3. ASSUME NEW k \in Keys, RadioLooksUp(k) PROVE TypeOK'
  <2>1. inbox' \in Seq(Commands)
    BY <1>3, Taking DEF RadioLooksUp
  <2>2. frames' \in Seq(Frames)
    BY <1>1, <1>3, Sending DEF RadioLooksUp
  <2> QED
    BY <1>3, <2>1, <2>2 DEF TypeOK, RadioLooksUp
<1>4. ASSUME NEW k \in Keys, Stores(k)
      PROVE  store' \subseteq Keys /\ todo' \subseteq Keys /\ steady' \subseteq Keys /\ walking' \in BOOLEAN
  BY <1>4 DEF Stores, TypeOK
<1>5. ASSUME NEW k \in Keys, RadioAdds(k) PROVE TypeOK'
  <2>1. inbox' \in Seq(Commands)
    BY <1>5, Taking DEF RadioAdds
  <2>2. frames' \in Seq(Frames)
    BY <1>1, <1>5, Sending DEF RadioAdds
  <2>3. store' \subseteq Keys /\ todo' \subseteq Keys /\ steady' \subseteq Keys /\ walking' \in BOOLEAN
    BY <1>4, <1>5 DEF RadioAdds, TypeOK
  <2> QED
    BY <1>5, <2>1, <2>2, <2>3 DEF TypeOK, RadioAdds
<1>6. ASSUME NEW k \in Keys, RadioRemoves(k) PROVE TypeOK'
  <2>1. inbox' \in Seq(Commands)
    BY <1>6, Taking DEF RadioRemoves
  <2>2. frames' \in Seq(Frames)
    BY <1>1, <1>6, Sending DEF RadioRemoves
  <2> QED
    BY <1>6, <2>1, <2>2 DEF TypeOK, RadioRemoves, Drops
<1>7. ASSUME NEW k \in Keys, RadioStreams(k) PROVE TypeOK'
  <2>1. frames' \in Seq(Frames)
    BY <1>1, <1>7, Sending DEF RadioStreams
  <2> QED
    BY <1>7, <2>1 DEF TypeOK, RadioStreams
<1>8. CASE RadioEnds
  <2>1. frames' \in Seq(Frames)
    BY <1>1, <1>8, Sending DEF RadioEnds, TypeOK
  <2> QED
    BY <1>8, <2>1 DEF TypeOK, RadioEnds
<1>9. ASSUME Spend PROVE budget' \in 0..MaxEvents
  BY <1>9, SyncAssumption DEF Spend, TypeOK
<1>10. ASSUME NEW k \in Keys, RadioHears(k) \/ RadioRefuses(k) PROVE TypeOK'
  <2>1. frames' \in Seq(Frames)
    BY <1>1, <1>10, Sending DEF RadioHears, RadioRefuses
  <2> QED
    BY <1>9, <1>10, <2>1 DEF TypeOK, RadioHears, RadioRefuses
<1>11. ASSUME NEW k \in Keys, RadioAutoAdds(k) PROVE TypeOK'
  <2>1. frames' \in Seq(Frames)
    BY <1>1, <1>11, Sending DEF RadioAutoAdds
  <2> QED
    BY <1>4, <1>9, <1>11, <2>1 DEF TypeOK, RadioAutoAdds
<1>12. ASSUME NEW k \in Keys, NEW old \in Keys, RadioReplaces(old, k) PROVE TypeOK'
  <2>1. frames' \in Seq(Frames)
    BY <1>1, <1>12, Sending DEF RadioReplaces
  <2>2. store' \subseteq Keys /\ todo' \subseteq Keys /\ steady' \subseteq Keys
    BY <1>12 DEF RadioReplaces, TypeOK
  <2> QED
    BY <1>9, <1>12, <2>1, <2>2 DEF TypeOK, RadioReplaces
<1> QED
  BY <1>2, <1>3, <1>5, <1>6, <1>7, <1>8, <1>10, <1>11, <1>12 DEF RadioAnswers, RadioGoesOn, Hears

\* What the acks' teardown does to the wires.
LEMMA AcksFail ==
  ASSUME TypeOK, FailAcks
  PROVE  /\ inbox' \in Seq(Commands) /\ frames' \in Seq(Frames)
         /\ Len(frames') = Len(frames)
         /\ \A i \in 1..Len(frames) : frames'[i] = frames[i]
              \/ (frames[i][1] = "busy" /\ frames'[i][1] = "unawaited")
<1>1. /\ Len(inbox) \in Nat /\ DOMAIN inbox = 1..Len(inbox) /\ \A i \in 1..Len(inbox) : inbox[i] \in Commands
      /\ Len(frames) \in Nat /\ DOMAIN frames = 1..Len(frames) /\ \A i \in 1..Len(frames) : frames[i] \in Frames
  BY LenProperties, ElementOfSeq DEF TypeOK
<1>2. <<"walk", NoKey>> \in Commands /\ <<"unawaited", NoKey>> \in Frames
  BY DEF Commands, Frames
<1>3. /\ inbox' \in [1..Len(inbox) -> Commands] /\ frames' \in [1..Len(frames) -> Frames]
  BY <1>1, <1>2 DEF FailAcks
<1>4. inbox' \in Seq(Commands) /\ frames' \in Seq(Frames) /\ Len(frames') = Len(frames)
  BY <1>1, <1>3
<1> QED
  BY <1>1, <1>4 DEF FailAcks

LEMMA LinkKeepsTypes ==
  ASSUME TypeOK, Connect \/ Start \/ Disconnect \/ Stop
  PROVE  TypeOK'
<1> USE DEF session, waiting, link, radio, wires, history
<1>1. CASE Connect \/ Start
  BY <1>1 DEF TypeOK, Connect, Start
<1>2. ASSUME Spend PROVE budget' \in 0..MaxEvents
  BY <1>2, SyncAssumption DEF Spend, TypeOK
<1>3. ASSUME CloseContactsBulk, UNCHANGED <<contacts, row>>
      PROVE  /\ bulk' \in BOOLEAN /\ pending' \subseteq Snapshots
             /\ shown' \in [contacts : SUBSET Keys, discovered : [Keys -> {"none", "off", "on"}]]
  <2>1. contacts' \subseteq Keys /\ row' \in [Keys -> {"none", "off", "on"}]
    BY <1>3 DEF TypeOK
  <2> QED
    BY <1>3, <2>1, Publishing
<1>4. ASSUME FailLookups
      PROVE  /\ lookups' \in Seq(Keys \X {"app", "refresh"})
             /\ ready' \subseteq Edits \cup ({"retire"} \X Keys)
  BY <1>4, LookupsFail DEF FailLookups, TypeOK
<1>5. CASE Disconnect
  <2>1. /\ bulk' \in BOOLEAN /\ pending' \subseteq Snapshots
        /\ shown' \in [contacts : SUBSET Keys, discovered : [Keys -> {"none", "off", "on"}]]
        /\ lookups' \in Seq(Keys \X {"app", "refresh"}) /\ asked' \subseteq Edits
        /\ ready' \subseteq Edits \cup ({"retire"} \X Keys)
    <3>1. CASE connected
      BY <1>3, <1>4, <1>5, <3>1 DEF Disconnect
    <3>2. CASE ~connected
      BY <1>5, <3>2 DEF Disconnect, TypeOK
    <3> QED
      BY <3>1, <3>2
  <2>2. inbox' \in Seq(Commands) /\ frames' \in Seq(Frames)
    BY <1>5 DEF Disconnect
  <2> QED
    BY <1>2, <1>5, <2>1, <2>2 DEF TypeOK, Disconnect
<1>6. CASE Stop
  <2>1. /\ bulk' \in BOOLEAN /\ pending' \subseteq Snapshots
        /\ shown' \in [contacts : SUBSET Keys, discovered : [Keys -> {"none", "off", "on"}]]
        /\ lookups' \in Seq(Keys \X {"app", "refresh"})
        /\ ready' \subseteq Edits \cup ({"retire"} \X Keys)
    BY <1>3, <1>4, <1>6 DEF Stop
  <2>2. inbox' \in Seq(Commands) /\ frames' \in Seq(Frames) /\ asked' \subseteq Edits
    <3>1. CASE connected
      <4>1. FailAcks
        BY <1>6, <3>1 DEF Stop
      <4> QED
        BY <4>1, AcksFail DEF FailAcks
    <3>2. CASE ~connected
      BY <1>6, <3>2 DEF Stop, TypeOK
    <3> QED
      BY <3>1, <3>2
  <2> QED
    BY <1>2, <1>6, <2>1, <2>2 DEF TypeOK, Stop
<1> QED
  BY <1>1, <1>5, <1>6

LEMMA TypesKept == TypeOK /\ [Next]_vars => TypeOK'
<1> SUFFICES ASSUME TypeOK, [Next]_vars PROVE TypeOK'
  OBVIOUS
<1>1. CASE Timers
  BY <1>1, TimersKeepTypes
<1>2. CASE Microtasks \/ Calls
  BY <1>2, CallsKeepTypes
<1>3. CASE Receive
  BY <1>3, ReceiveKeepsTypes
<1>4. CASE RadioAnswers \/ RadioGoesOn \/ Hears
  BY <1>4, RadioKeepsTypes
<1>5. CASE Connect \/ Start \/ Disconnect \/ Stop
  BY <1>5, LinkKeepsTypes
<1>6. CASE UNCHANGED vars
  BY <1>6 DEF vars, session, waiting, link, radio, wires, history, TypeOK
<1> QED
  BY <1>1, <1>2, <1>3, <1>4, <1>5, <1>6 DEF Next

-----------------------------------------------------------------------------
(* What the consumers were told.                                           *)

\* A snapshot of what changed keeps the consumers up to date, or is held back.
LEMMA PublishKeepsFresh ==
  ASSUME TypeOK, Fresh, NEW S, Publish(S),
         contacts' # contacts => "contacts" \in S, row' # row => "discovered" \in S
  PROVE  Fresh'
BY DEF Fresh, Publish, Emit, TypeOK

\* Closing and opening the window tells what was held back.
LEMMA WindowKeepsFresh ==
  ASSUME TypeOK, Fresh, CloseContactsBulk \/ OpenContactsBulk, UNCHANGED <<contacts, row>>
  PROVE  Fresh'
BY DEF Fresh, CloseContactsBulk, OpenContactsBulk, Emit, TypeOK

LEMMA IngestKeepsViews ==
  ASSUME TypeOK, Fresh, ContactsAreOnRadio, NEW k \in Keys
  PROVE  /\ IngestOnRadio(k) => Fresh' /\ ContactsAreOnRadio'
         /\ ResolveLookup(k) => Fresh' /\ ContactsAreOnRadio'
<1>1. ASSUME IngestOnRadio(k) PROVE Fresh' /\ ContactsAreOnRadio'
  BY <1>1, PublishKeepsFresh DEF IngestOnRadio, Snapshots, ContactsAreOnRadio, TypeOK
<1>2. ASSUME ResolveLookup(k) PROVE Fresh' /\ ContactsAreOnRadio'
  BY <1>1, <1>2 DEF ResolveLookup, Fresh, ContactsAreOnRadio
<1> QED
  BY <1>1, <1>2

LEMMA ReceiveKeepsViews ==
  ASSUME TypeOK, Fresh, ContactsAreOnRadio, Receive
  PROVE  Fresh' /\ ContactsAreOnRadio'
<1> USE DEF session
<1>1. CASE GotStart
  BY <1>1, WindowKeepsFresh DEF GotStart, ContactsAreOnRadio
<1>2. CASE GotBusy \/ GotUnawaited
  BY <1>2 DEF GotBusy, GotUnawaited, Fresh, ContactsAreOnRadio
<1>3. ASSUME NEW kept \in SUBSET Keys, GotEnd(kept) PROVE Fresh' /\ ContactsAreOnRadio'
  <2>1. Fresh'
    BY <1>3 DEF GotEnd, Fresh, Emit, Snapshots
  <2>2. ASSUME NEW k \in contacts' PROVE row'[k] = "on"
    <3>1. k \in Keys /\ k \in contacts /\ k \in syncSeen /\ row[k] = "on"
      BY <1>3, <2>2 DEF GotEnd, ContactsAreOnRadio, TypeOK
    <3> QED
      BY <1>3, <3>1 DEF GotEnd
  <2> QED
    BY <2>1, <2>2 DEF ContactsAreOnRadio
<1>4. ASSUME NEW k \in Keys, GotSolicited(k) \/ GotContact(k) PROVE Fresh' /\ ContactsAreOnRadio'
  BY <1>4, IngestKeepsViews DEF GotSolicited, GotContact
<1>5. ASSUME NEW k \in Keys, GotMissing(k) PROVE Fresh' /\ ContactsAreOnRadio'
  BY <1>5 DEF GotMissing, Fresh, ContactsAreOnRadio
<1>6. ASSUME NEW k \in Keys, GotNewAdvert(k) PROVE Fresh' /\ ContactsAreOnRadio'
  <2>1. Fresh'
    BY <1>6, PublishKeepsFresh DEF GotNewAdvert, Snapshots
  <2> QED
    BY <1>6, <2>1 DEF GotNewAdvert, ContactsAreOnRadio, TypeOK
<1>7. ASSUME NEW k \in Keys, GotAdvert(k) PROVE Fresh' /\ ContactsAreOnRadio'
  <2>1. Fresh'
    BY <1>7, PublishKeepsFresh DEF GotAdvert
  <2> QED
    BY <1>7, <2>1 DEF GotAdvert, ContactsAreOnRadio
<1>8. ASSUME NEW k \in Keys, GotDeleted(k) PROVE Fresh' /\ ContactsAreOnRadio'
  <2>1. Fresh'
    BY <1>8, PublishKeepsFresh DEF GotDeleted, Snapshots
  <2> QED
    BY <1>8, <2>1 DEF GotDeleted, SetOffRadio, ContactsAreOnRadio, TypeOK
<1>9. ASSUME NEW k \in Keys, NEW what, NEW ok, GotAck(what, k, ok) PROVE Fresh' /\ ContactsAreOnRadio'
  BY <1>9 DEF GotAck, Fresh, ContactsAreOnRadio
<1> QED
  BY <1>1, <1>2, <1>3, <1>4, <1>5, <1>6, <1>7, <1>8, <1>9 DEF Receive

\* Only the window, two awaiters and the frame handlers write the session's side.
LEMMA ElsewhereKeepsSession ==
  ASSUME [Next]_vars
  PROVE  \/ WatchdogFires \/ Microtasks \/ Receive \/ Disconnect \/ Stop
         \/ UNCHANGED <<contacts, row, syncSeen, bulk, pending, shown, whole>>
<1> USE DEF session, history
<1>1. CASE Timers
  BY <1>1 DEF Timers, ResyncFires, RefreshFires, RefreshFails, OrphanFires, LookupTimesOut, EditTimesOut
<1>2. CASE Calls
  BY <1>2 DEF Calls, CallWalk, CallLookup, CallEdit
<1>3. CASE RadioAnswers
  BY <1>3 DEF RadioAnswers, RadioWalks, RadioLooksUp, RadioAdds, RadioRemoves
<1>4. CASE RadioGoesOn
  BY <1>4 DEF RadioGoesOn, RadioEnds, RadioStreams
<1>5. CASE Hears
  BY <1>5 DEF Hears, RadioHears, RadioRefuses, RadioAutoAdds, RadioReplaces
<1>6. CASE Connect \/ Start
  BY <1>6 DEF Connect, Start
<1>7. CASE UNCHANGED vars
  BY <1>7 DEF vars
<1> QED
  BY <1>1, <1>2, <1>3, <1>4, <1>5, <1>6, <1>7 DEF Next

LEMMA ViewsKept ==
  TypeOK /\ Fresh /\ ContactsAreOnRadio /\ [Next]_vars => Fresh' /\ ContactsAreOnRadio'
<1> SUFFICES ASSUME TypeOK, Fresh, ContactsAreOnRadio, [Next]_vars
             PROVE  Fresh' /\ ContactsAreOnRadio'
  OBVIOUS
<1> USE DEF session
<1>1. CASE WatchdogFires
  BY <1>1, WindowKeepsFresh DEF WatchdogFires, ContactsAreOnRadio
<1>2. ASSUME NEW k \in Keys, Retire(k) PROVE Fresh' /\ ContactsAreOnRadio'
  BY <1>2 DEF Retire, Fresh, ContactsAreOnRadio
<1>3. ASSUME NEW k \in Keys, Added(k) PROVE Fresh' /\ ContactsAreOnRadio'
  <2>1. Fresh'
    BY <1>3, PublishKeepsFresh DEF Added, Snapshots
  <2> QED
    BY <1>3, <2>1 DEF Added, ContactsAreOnRadio, TypeOK
<1>4. ASSUME NEW k \in Keys, Removed(k) PROVE Fresh' /\ ContactsAreOnRadio'
  <2>1. Fresh'
    BY <1>4, PublishKeepsFresh DEF Removed, Snapshots
  <2> QED
    BY <1>4, <2>1 DEF Removed, SetOffRadio, ContactsAreOnRadio, TypeOK
<1>5. CASE Receive
  BY <1>5, ReceiveKeepsViews
<1>6. CASE Disconnect
  <2>1. CASE connected
    BY <1>6, <2>1, WindowKeepsFresh DEF Disconnect, ContactsAreOnRadio
  <2>2. CASE ~connected
    BY <1>6, <2>2 DEF Disconnect, Fresh, ContactsAreOnRadio
  <2> QED
    BY <2>1, <2>2
<1>7. CASE Stop
  BY <1>7, WindowKeepsFresh DEF Stop, ContactsAreOnRadio
<1>8. CASE UNCHANGED <<contacts, row, syncSeen, bulk, pending, shown, whole>>
  BY <1>8 DEF Fresh, ContactsAreOnRadio
<1> QED
  BY <1>1, <1>2, <1>3, <1>4, <1>5, <1>6, <1>7, <1>8, ElsewhereKeepsSession DEF Microtasks

-----------------------------------------------------------------------------
(* The walk on its way.                                                    *)

\* A frame that was sent goes behind those on their way; on a closed link there are
\* none and it is lost.
LEMMA SendsKeepsStream ==
  ASSUME TypeOK, WholeOK, StreamOK, NEW fs \in Seq(Frames), Sends(fs),
         \A i \in 1..Len(fs) : ~Mark(fs[i]),
         UNCHANGED <<syncSeen, whole>>,
         walking' => walking /\ steady' \ todo' \subseteq steady \ todo
  PROVE  StreamOK'
<1>1. frames \in Seq(Frames) /\ linkUp \in BOOLEAN
  BY DEF TypeOK
<1>2. CASE linkUp
  <2>1. frames' = frames \o fs
    BY <1>2 DEF Sends
  <2>2. /\ EndsAreTold(frames \o fs, syncSeen, whole)
        /\ walking => WalkIsTold(frames \o fs, syncSeen, whole, steady \ todo)
    BY <1>1, SendingKeeps DEF StreamOK
  <2>3. walking' => WalkIsTold(frames \o fs, syncSeen, whole, steady' \ todo')
    BY <2>2 DEF WalkIsTold
  <2> QED
    BY <2>1, <2>2, <2>3 DEF StreamOK
<1>3. CASE ~linkUp
  <2>1. frames' = <<>> /\ whole' = FALSE /\ syncSeen' = syncSeen
    BY <1>3 DEF Sends, WholeOK
  <2>2. EndsAreTold(<<>>, syncSeen, FALSE) /\ WalkIsTold(<<>>, syncSeen, FALSE, steady' \ todo')
    BY NothingToTell
  <2> QED
    BY <2>1, <2>2 DEF StreamOK
<1> QED
  BY <1>1, <1>2, <1>3

\* A frame that was taken.
LEMMA GotKeepsStream ==
  ASSUME TypeOK, StreamOK, NEW what, NEW k, Got(what, k),
         \/ Mark(<<what, k>>)
         \/ /\ syncSeen \subseteq syncSeen' /\ whole' = whole
            /\ \A l \in Keys : whole /\ <<what, k>> = <<"contact", l>> => l \in syncSeen',
         UNCHANGED radio
  PROVE  StreamOK'
<1>1. frames \in Seq(Frames) /\ frames # <<>> /\ Head(frames) = <<what, k>> /\ frames' = Tail(frames)
      /\ steady \ todo \in SUBSET Keys
  BY DEF Got, TypeOK
<1>2. \/ Mark(Head(frames))
      \/ /\ syncSeen \subseteq syncSeen' /\ whole' = whole
         /\ \A l \in Keys : whole /\ Head(frames) = <<"contact", l>> => l \in syncSeen'
  BY <1>1
<1>3. /\ EndsAreTold(Tail(frames), syncSeen', whole')
      /\ walking => WalkIsTold(Tail(frames), syncSeen', whole', steady \ todo)
  BY <1>1, <1>2, TailIsTold DEF StreamOK
<1> QED
  BY <1>1, <1>3 DEF StreamOK, radio

LEMMA ReceiveKeepsStream ==
  ASSUME TypeOK, WholeOK, StreamOK, Receive
  PROVE  StreamOK'
<1> USE DEF session, waiting, link, wires, history
<1>1. CASE GotStart
  BY <1>1, GotKeepsStream DEF GotStart, Mark
<1>2. CASE GotBusy \/ GotUnawaited
  BY <1>2, GotKeepsStream DEF GotBusy, GotUnawaited
<1>3. ASSUME NEW kept \in SUBSET Keys, GotEnd(kept) PROVE StreamOK'
  BY <1>3, GotKeepsStream DEF GotEnd, Mark
<1>4. ASSUME NEW k \in Keys, GotSolicited(k) \/ GotContact(k) PROVE StreamOK'
  <2>1. /\ Got("contact", k) /\ syncSeen \subseteq syncSeen' /\ whole' = whole
        /\ whole => k \in syncSeen'
        /\ UNCHANGED radio
    BY <1>4 DEF GotSolicited, GotContact, WholeOK
  <2> QED
    BY <2>1, GotKeepsStream
<1>5. ASSUME NEW k \in Keys, GotMissing(k) \/ GotNewAdvert(k) \/ GotAdvert(k) \/ GotDeleted(k)
      PROVE  StreamOK'
  <2>1. /\ \E what \in {"missing", "newAdvert", "advert", "deleted"} : Got(what, k)
        /\ UNCHANGED <<syncSeen, whole, radio>>
    BY <1>5 DEF GotMissing, GotNewAdvert, GotAdvert, GotDeleted
  <2> QED
    BY <2>1, GotKeepsStream
<1>6. ASSUME NEW k \in Keys, NEW what, NEW ok, GotAck(what, k, ok) PROVE StreamOK'
  <2>1. /\ \E how \in {"refused", "added", "removed"} : Got(how, k)
        /\ UNCHANGED <<syncSeen, whole, radio>>
    BY <1>6 DEF GotAck
  <2> QED
    BY <2>1, GotKeepsStream
<1> QED
  BY <1>1, <1>2, <1>3, <1>4, <1>5, <1>6 DEF Receive

LEMMA RadioKeepsStream ==
  ASSUME TypeOK, WholeOK, StreamOK, RadioAnswers \/ RadioGoesOn \/ Hears
  PROVE  StreamOK'
<1> USE DEF session, waiting, link, history
<1>1. /\ <<>> \in Seq(Frames) /\ Len(<<>>) = 0
      /\ \A f \in Frames : <<f>> \in Seq(Frames) /\ Len(<<f>>) = 1 /\ <<f>>[1] = f
      /\ <<"start", NoKey>> \in Frames /\ <<"busy", NoKey>> \in Frames
      /\ \A S \in SUBSET Keys : <<"end", S>> \in Frames
      /\ \A k \in Keys :
           \A what \in {"contact", "missing", "added", "refused", "removed", "advert", "newAdvert"} :
             <<what, k>> \in Frames
  BY DEF Frames
<1>2. \A what \in {"busy", "contact", "missing", "added", "refused", "removed", "advert", "newAdvert"} :
        \A k : ~Mark(<<what, k>>)
  BY DEF Mark
<1>3. ASSUME NEW f \in Frames, ~Mark(f), Sends(<<f>>), UNCHANGED <<syncSeen, whole>>,
             walking' => walking /\ steady' \ todo' \subseteq steady \ todo
      PROVE  StreamOK'
  <2>1. <<f>> \in Seq(Frames) /\ \A i \in 1..Len(<<f>>) : ~Mark(<<f>>[i])
    BY <1>1, <1>3
  <2> QED
    BY <1>3, <2>1, SendsKeepsStream
<1>4. frames \in Seq(Frames) /\ Len(frames) \in Nat /\ linkUp \in BOOLEAN
  BY LenProperties DEF TypeOK
<1>5. ASSUME ~linkUp, frames' = frames, UNCHANGED <<syncSeen, whole>> PROVE StreamOK'
  <2>1. frames' = <<>> /\ whole' = FALSE /\ syncSeen' = syncSeen
    BY <1>5 DEF WholeOK
  <2>2. EndsAreTold(<<>>, syncSeen, FALSE) /\ WalkIsTold(<<>>, syncSeen, FALSE, steady' \ todo')
    BY NothingToTell
  <2> QED
    BY <2>1, <2>2 DEF StreamOK
<1>6. ASSUME NEW what \in {"walk", "resync"}, RadioWalks(what) PROVE StreamOK'
  <2>1. CASE Sends(<<<<"start", NoKey>>>>) /\ todo' = store /\ steady' = store
    <3>1. CASE linkUp
      <4> DEFINE fs == <<<<"start", NoKey>>>>
      <4>1. /\ fs \in Seq(Frames) /\ Len(fs) = 1 /\ fs[1][1] = "start"
            /\ frames' = frames \o fs /\ UNCHANGED <<syncSeen, whole>>
        BY <1>1, <1>6, <2>1, <3>1 DEF Sends, RadioWalks
      <4> HIDE DEF fs
      <4>2. EndsAreTold(frames \o fs, syncSeen, whole)
        <5> SUFFICES ASSUME NEW n \in 1..Len(frames \o fs), (frames \o fs)[n][1] = "end",
                            NEW k \in (frames \o fs)[n][2]
                     PROVE  Told(frames \o fs, syncSeen, whole, k, n)
          BY DEF EndsAreTold
        <5>1. /\ Len(frames \o fs) = Len(frames) + 1
              /\ (frames \o fs)[n] = IF n <= Len(frames) THEN frames[n] ELSE fs[n - Len(frames)]
          <6>1. /\ Len(frames \o fs) = Len(frames) + Len(fs)
                /\ \A i \in 1..(Len(frames) + Len(fs)) :
                     (frames \o fs)[i] = IF i <= Len(frames) THEN frames[i] ELSE fs[i - Len(frames)]
            BY <1>4, <4>1, ConcatProperties
          <6> QED
            BY <4>1, <6>1
        <5>2. n \in 1..Len(frames)
          BY <1>4, <4>1, <5>1
        <5>3. Told(frames, syncSeen, whole, k, n)
          BY <5>1, <5>2 DEF StreamOK, EndsAreTold
        <5>4. frames \in Seq(Frames) /\ fs \in Seq(Frames) /\ n \in 1..(Len(frames) + 1)
          BY <1>4, <4>1, <5>2
        <5> HIDE DEF Told
        <5> QED
          BY <5>3, <5>4, ToldBefore, Zenon
      <4>3. WalkIsTold(frames \o fs, syncSeen, whole, steady' \ todo')
        BY <2>1 DEF WalkIsTold
      <4> QED
        BY <4>1, <4>2, <4>3 DEF StreamOK
    <3>2. CASE ~linkUp
      BY <1>5, <1>6, <2>1, <3>2 DEF Sends, RadioWalks
    <3> QED
      BY <1>4, <3>1, <3>2
  <2>2. CASE walking /\ UNCHANGED <<walking, todo, steady>>
    <3>1. CASE what = "resync"
      BY <1>1, <1>2, <1>3, <1>6, <2>2, <3>1 DEF RadioWalks
    <3>2. CASE what = "walk"
      <4>1. \A i \in 1..Len(<<>>) : ~Mark(<<>>[i])
        BY <1>1
      <4> QED
        BY <1>1, <1>6, <2>2, <3>2, <4>1, SendsKeepsStream DEF RadioWalks
    <3> QED
      BY <3>1, <3>2
  <2> QED
    BY <1>6, <2>1, <2>2 DEF RadioWalks
<1>7. ASSUME NEW k \in Keys, RadioLooksUp(k) PROVE StreamOK'
  BY <1>1, <1>2, <1>3, <1>7 DEF RadioLooksUp, radio
<1>8. ASSUME NEW k \in Keys, Stores(k) PROVE walking' => walking /\ steady' \ todo' \subseteq steady \ todo
  BY <1>8 DEF Stores
<1>9. ASSUME NEW k \in Keys, RadioAdds(k) PROVE StreamOK'
  <2>1. \E f \in {<<"added", k>>, <<"refused", k>>} : Sends(<<f>>)
    BY <1>9 DEF RadioAdds
  <2>2. \A f \in {<<"added", k>>, <<"refused", k>>} : f \in Frames /\ ~Mark(f)
    BY <1>1, <1>2
  <2>3. walking' => walking /\ steady' \ todo' \subseteq steady \ todo
    BY <1>8, <1>9 DEF RadioAdds, radio
  <2>4. UNCHANGED <<syncSeen, whole>>
    BY <1>9 DEF RadioAdds
  <2> QED
    BY <1>3, <2>1, <2>2, <2>3, <2>4
<1>10. ASSUME NEW k \in Keys, RadioRemoves(k) PROVE StreamOK'
  BY <1>1, <1>2, <1>3, <1>10 DEF RadioRemoves, Drops
<1>11. ASSUME NEW k \in Keys, RadioStreams(k) PROVE StreamOK'
  <2> DEFINE fs == <<<<"contact", k>>>>
  <2>1. fs \in Seq(Frames) /\ \A i \in 1..Len(fs) : ~Mark(fs[i])
    <3>1. <<"contact", k>> \in Frames /\ ~Mark(<<"contact", k>>)
      BY <1>1, <1>2
    <3> QED
      BY <1>1, <3>1
  <2>2. CASE linkUp
    <3>1. frames' = frames \o fs /\ UNCHANGED <<syncSeen, whole, walking, steady>> /\ walking
          /\ todo' = todo \ {k}
      BY <1>11, <2>2 DEF RadioStreams, Sends
    <3>2. Told(frames \o fs, syncSeen, whole, k, Len(frames \o fs) + 1)
      BY <1>4, RecordIsTold
    <3> HIDE DEF fs
    <3>3. /\ EndsAreTold(frames \o fs, syncSeen, whole)
          /\ WalkIsTold(frames \o fs, syncSeen, whole, steady \ todo)
      BY <1>4, <2>1, <3>1, SendingKeeps DEF StreamOK
    <3>4. \A l \in steady \ (todo \ {k}) : l = k \/ l \in steady \ todo
      OBVIOUS
    <3>5. WalkIsTold(frames \o fs, syncSeen, whole, steady \ (todo \ {k}))
      BY <3>2, <3>3, <3>4 DEF WalkIsTold
    <3> QED
      BY <3>1, <3>3, <3>5 DEF StreamOK
  <2>3. CASE ~linkUp
    BY <1>5, <1>11, <2>3 DEF RadioStreams, Sends
  <2> QED
    BY <1>4, <2>2, <2>3
<1>12. CASE RadioEnds
  <2> DEFINE fs == <<<<"end", steady>>>>
  <2>1. fs \in Seq(Frames) /\ Len(fs) = 1 /\ fs[1] = <<"end", steady>>
    BY <1>1 DEF TypeOK
  <2>2. CASE linkUp
    <3>1. /\ frames' = frames \o fs /\ UNCHANGED <<syncSeen, whole>>
          /\ walking /\ todo = {} /\ walking' = FALSE
      BY <1>12, <2>2 DEF RadioEnds, Sends
    <3> HIDE DEF fs
    <3>2. EndsAreTold(frames \o fs, syncSeen, whole)
      <4> SUFFICES ASSUME NEW n \in 1..Len(frames \o fs), (frames \o fs)[n][1] = "end",
                          NEW k \in (frames \o fs)[n][2]
                   PROVE  Told(frames \o fs, syncSeen, whole, k, n)
        BY DEF EndsAreTold
      <4>1. /\ Len(frames \o fs) = Len(frames) + 1
            /\ (frames \o fs)[n] = IF n <= Len(frames) THEN frames[n] ELSE fs[n - Len(frames)]
        <5>1. /\ Len(frames \o fs) = Len(frames) + Len(fs)
              /\ \A i \in 1..(Len(frames) + Len(fs)) :
                   (frames \o fs)[i] = IF i <= Len(frames) THEN frames[i] ELSE fs[i - Len(frames)]
          BY <1>4, <2>1, ConcatProperties
        <5> QED
          BY <2>1, <5>1
      <4>2. CASE n \in 1..Len(frames)
        <5>1. Told(frames, syncSeen, whole, k, n)
          BY <4>1, <4>2 DEF StreamOK, EndsAreTold
        <5> QED
          BY <1>4, <2>1, <4>2, <5>1, ToldBefore
      <4>3. CASE n = Len(frames) + 1
        <5>1. (frames \o fs)[n] = <<"end", steady>>
          BY <1>4, <2>1, <4>1, <4>3
        <5>2. k \in steady \ todo
          BY <3>1, <5>1
        <5>3. Told(frames, syncSeen, whole, k, n)
          BY <3>1, <4>3, <5>2 DEF StreamOK, WalkIsTold
        <5> QED
          BY <1>4, <2>1, <4>3, <5>3, ToldBefore
      <4> QED
        BY <1>4, <4>1, <4>2, <4>3
    <3> QED
      BY <3>1, <3>2 DEF StreamOK
  <2>3. CASE ~linkUp
    BY <1>5, <1>12, <2>3 DEF RadioEnds, Sends
  <2> QED
    BY <1>4, <2>2, <2>3
<1>13. ASSUME NEW k \in Keys, RadioHears(k) \/ RadioRefuses(k) PROVE StreamOK'
  <2>1. \E f \in {<<"advert", k>>, <<"newAdvert", k>>} : Sends(<<f>>)
    BY <1>13 DEF RadioHears, RadioRefuses
  <2>2. \A f \in {<<"advert", k>>, <<"newAdvert", k>>} : f \in Frames /\ ~Mark(f)
    BY <1>1, <1>2
  <2>3. UNCHANGED <<syncSeen, whole, walking, steady, todo>>
    BY <1>13 DEF RadioHears, RadioRefuses, radio
  <2> QED
    BY <1>3, <2>1, <2>2, <2>3
<1>14. ASSUME NEW k \in Keys, RadioAutoAdds(k) PROVE StreamOK'
  BY <1>1, <1>2, <1>3, <1>8, <1>14 DEF RadioAutoAdds
<1>15. ASSUME NEW k \in Keys, NEW old \in Keys, RadioReplaces(old, k) PROVE StreamOK'
  <2> DEFINE fs == <<<<"deleted", old>>, <<"advert", k>>>>
  <2>1. fs \in Seq(Frames) /\ \A i \in 1..Len(fs) : ~Mark(fs[i])
    BY DEF Frames, Mark
  <2>2. Sends(fs) /\ UNCHANGED <<syncSeen, whole, walking>>
    BY <1>15 DEF RadioReplaces
  <2>3. steady' \ todo' \subseteq steady \ todo
    BY <1>15 DEF RadioReplaces
  <2> HIDE DEF fs
  <2> QED
    BY <2>1, <2>2, <2>3, SendsKeepsStream
<1> QED
  BY <1>6, <1>7, <1>9, <1>10, <1>11, <1>12, <1>13, <1>14, <1>15 DEF RadioAnswers, RadioGoesOn, Hears

LEMMA LinkKeepsStream ==
  ASSUME TypeOK, WholeOK, StreamOK, WatchdogFires \/ Connect \/ Start \/ Disconnect \/ Stop
  PROVE  StreamOK'
<1> USE DEF session, waiting, link, wires, history
<1>1. frames \in Seq(Frames) /\ Len(frames) \in Nat
  BY LenProperties DEF TypeOK
<1>2. CASE Connect \/ Start
  BY <1>2 DEF Connect, Start, StreamOK, radio
<1>3. ASSUME NEW gr \in Seq(Frames), frames' = gr, Len(gr) = Len(frames), whole' = FALSE, UNCHANGED radio,
             \A i \in 1..Len(frames) :
               gr[i] = frames[i] \/ (frames[i][1] = "busy" /\ gr[i][1] = "unawaited")
      PROVE  StreamOK'
  <2>1. /\ EndsAreTold(gr, syncSeen', FALSE)
        /\ walking => WalkIsTold(gr, syncSeen', FALSE, steady \ todo)
    BY <1>1, <1>3, AsToldBefore DEF StreamOK
  <2> QED
    BY <1>3, <2>1 DEF StreamOK, radio
<1>4. CASE WatchdogFires
  BY <1>1, <1>3, <1>4 DEF WatchdogFires
<1>5. CASE Disconnect
  <2>1. frames' = <<>> /\ whole' = FALSE /\ syncSeen' = syncSeen
    BY <1>5 DEF Disconnect
  <2>2. EndsAreTold(<<>>, syncSeen, FALSE) /\ WalkIsTold(<<>>, syncSeen, FALSE, steady' \ todo')
    BY NothingToTell
  <2> QED
    BY <2>1, <2>2 DEF StreamOK
<1>6. CASE Stop
  <2>1. CASE connected
    <3>1. FailAcks /\ whole' = FALSE /\ UNCHANGED radio
      BY <1>6, <2>1 DEF Stop
    <3> QED
      BY <1>3, <3>1, AcksFail
  <2>2. CASE ~connected
    BY <1>1, <1>3, <1>6, <2>2 DEF Stop
  <2> QED
    BY <2>1, <2>2
<1> QED
  BY <1>2, <1>4, <1>5, <1>6

LEMMA StreamKept == TypeOK /\ WholeOK /\ StreamOK /\ [Next]_vars => StreamOK'
<1> SUFFICES ASSUME TypeOK, WholeOK, StreamOK, [Next]_vars PROVE StreamOK'
  OBVIOUS
<1>1. ASSUME UNCHANGED <<frames, syncSeen, whole, radio>> PROVE StreamOK'
  BY <1>1 DEF StreamOK, radio
<1> USE DEF session, wires, history
<1>2. CASE Timers
  <2>1. CASE WatchdogFires
    BY <2>1, LinkKeepsStream
  <2>2. CASE ~WatchdogFires
    BY <1>1, <1>2, <2>2
       DEF Timers, ResyncFires, RefreshFires, RefreshFails, OrphanFires, LookupTimesOut, EditTimesOut
  <2> QED
    BY <2>1, <2>2
<1>3. CASE Microtasks
  BY <1>1, <1>3 DEF Microtasks, Retire, Added, Removed
<1>4. CASE Calls
  BY <1>1, <1>4 DEF Calls, CallWalk, CallLookup, CallEdit
<1>5. CASE Receive
  BY <1>5, ReceiveKeepsStream
<1>6. CASE RadioAnswers \/ RadioGoesOn \/ Hears
  BY <1>6, RadioKeepsStream
<1>7. CASE Connect \/ Start \/ Disconnect \/ Stop
  BY <1>7, LinkKeepsStream
<1>8. CASE UNCHANGED vars
  BY <1>1, <1>8 DEF vars
<1> QED
  BY <1>2, <1>3, <1>4, <1>5, <1>6, <1>7, <1>8 DEF Next

\* Frames come to an open link only, and a walk that is whole keeps its window.
LEMMA WholeKept == TypeOK /\ WholeOK /\ [Next]_vars => WholeOK'
<1> SUFFICES ASSUME TypeOK, WholeOK, [Next]_vars PROVE WholeOK'
  OBVIOUS
<1> USE DEF session, waiting, link, wires, history
<1>1. ASSUME UNCHANGED <<bulk, whole, linkUp>>, frames' = frames \/ linkUp PROVE WholeOK'
  BY <1>1 DEF WholeOK
<1>2. CASE Timers
  <2>1. CASE WatchdogFires
    BY <2>1 DEF WatchdogFires, CloseContactsBulk, WholeOK
  <2>2. CASE ~WatchdogFires
    BY <1>1, <1>2, <2>2
       DEF Timers, ResyncFires, RefreshFires, RefreshFails, OrphanFires, LookupTimesOut, EditTimesOut
  <2> QED
    BY <2>1, <2>2
<1>3. CASE Microtasks \/ Calls
  BY <1>1, <1>3 DEF Microtasks, Retire, Added, Removed, Publish, Calls, CallWalk, CallLookup, CallEdit
<1>4. CASE Receive
  <2>1. frames # <<>>
    BY <1>4 DEF Receive, GotStart, GotBusy, GotUnawaited, GotEnd, GotSolicited, GotContact, GotMissing,
         GotNewAdvert, GotAdvert, GotDeleted, GotAck, Got
  <2>2. linkUp
    BY <2>1 DEF WholeOK, TypeOK
  <2>3. ASSUME UNCHANGED <<whole, linkUp>>, bulk' = bulk PROVE WholeOK'
    BY <2>2, <2>3 DEF WholeOK
  <2>4. CASE GotStart
    BY <2>2, <2>4 DEF GotStart, OpenContactsBulk, WholeOK
  <2>5. CASE GotBusy \/ GotUnawaited
    BY <2>3, <2>5 DEF GotBusy, GotUnawaited
  <2>6. ASSUME NEW kept \in SUBSET Keys, GotEnd(kept) PROVE WholeOK'
    BY <2>2, <2>6 DEF GotEnd, WholeOK
  <2>7. ASSUME NEW k \in Keys, GotSolicited(k) \/ GotContact(k) PROVE WholeOK'
    BY <2>3, <2>7 DEF GotSolicited, GotContact, ResolveLookup, IngestOnRadio, Publish
  <2>8. ASSUME NEW k \in Keys, GotMissing(k) \/ GotNewAdvert(k) \/ GotAdvert(k) \/ GotDeleted(k)
        PROVE  WholeOK'
    BY <2>3, <2>8 DEF GotMissing, GotNewAdvert, GotAdvert, GotDeleted, Publish
  <2>9. ASSUME NEW k \in Keys, NEW what, NEW ok, GotAck(what, k, ok) PROVE WholeOK'
    BY <2>3, <2>9 DEF GotAck
  <2> QED
    BY <1>4, <2>4, <2>5, <2>6, <2>7, <2>8, <2>9 DEF Receive
<1>5. CASE RadioAnswers
  BY <1>1, <1>5 DEF RadioAnswers, RadioWalks, RadioLooksUp, RadioAdds, RadioRemoves, Sends
<1>6. CASE RadioGoesOn \/ Hears
  BY <1>1, <1>6 DEF RadioGoesOn, RadioEnds, RadioStreams, Hears, RadioHears, RadioRefuses,
       RadioAutoAdds, RadioReplaces, Sends
<1>7. CASE Connect \/ Start
  BY <1>7 DEF Connect, Start, WholeOK
<1>8. CASE Disconnect
  BY <1>8 DEF Disconnect, WholeOK
<1>9. CASE Stop
  <2>1. ~linkUp => frames' = <<>>
    <3>1. CASE connected /\ ~linkUp
      <4>1. FailAcks /\ frames = <<>>
        BY <1>9, <3>1 DEF Stop, WholeOK
      <4>2. Len(frames') = 0 /\ frames' \in Seq(Frames)
        BY <4>1, AcksFail, EmptySeq
      <4> QED
        BY <4>2, EmptySeq
    <3>2. CASE ~connected /\ ~linkUp
      BY <1>9, <3>2 DEF Stop, WholeOK
    <3> QED
      BY <3>1, <3>2
  <2> QED
    BY <1>9, <2>1 DEF Stop, WholeOK
<1>10. CASE UNCHANGED vars
  BY <1>1, <1>10 DEF vars
<1> QED
  BY <1>2, <1>3, <1>4, <1>5, <1>6, <1>7, <1>8, <1>9, <1>10 DEF Next

-----------------------------------------------------------------------------
(* What the radio owes the session.                                        *)

\* The frames that say that the radio does not hold k, or did not, and those that
\* say it does.
Outs(k) == {<<"deleted", k>>, <<"removed", k>>}
Ins(k) == {<<"contact", k>>, <<"added", k>>}

\* The frames behind which nothing the session knew of k before counts, and those
\* from which it comes to know k again.
Blots(k) == Outs(k) \cup {<<"missing", k>>, <<"start", NoKey>>}
Cures(k) == Ins(k) \cup {<<"advert", k>>}

Clean(fr, k) == \A m \in 1..Len(fr) : fr[m] \notin Blots(k)

\* Place p comes behind every blot of k.
Behind(fr, k, p) == \A m \in 1..Len(fr) : fr[m] \in Blots(k) => m < p

Cured(fr, k) ==
  \/ Clean(fr, k)
  \/ \E p \in 1..Len(fr) : fr[p] \in Cures(k) /\ Behind(fr, k, p)

Cleared(fr, k) ==
  \A q \in 1..Len(fr) : fr[q] \in Ins(k) => \E p \in (q + 1)..Len(fr) : fr[p] \in Outs(k)

\* The frames make good for their blots: of a contact in the store the last word is
\* that it is there, or the walk has yet to send it; of a key that is not, that it
\* is gone.
Owing ==
  /\ todo \subseteq store
  /\ walking \/ todo = {}
  /\ linkUp \/ adrift = "yes"
  /\ \A k \in store : k \in todo \/ Cured(frames, k)
  /\ \A k \in Keys \ store : Cleared(frames, k)

\* What one more frame makes good for, or blots.
LEMMA AppendOwes ==
  ASSUME NEW fr \in Seq(Frames), NEW g \in Frames, NEW k
  PROVE  /\ g \notin Blots(k) /\ Cured(fr, k) => Cured(Append(fr, g), k)
         /\ g \in Cures(k) => Cured(Append(fr, g), k)
         /\ g \notin Ins(k) /\ Cleared(fr, k) => Cleared(Append(fr, g), k)
         /\ g \in Outs(k) => Cleared(Append(fr, g), k)
<1> DEFINE ap == Append(fr, g)
<1>1. /\ Len(fr) \in Nat /\ Len(ap) = Len(fr) + 1
      /\ ap[Len(fr) + 1] = g
      /\ \A i \in 1..Len(fr) : ap[i] = fr[i]
  BY AppendProperties, LenProperties
<1> HIDE DEF ap
<1>2. \A i \in 1..Len(ap) : i \in 1..Len(fr) \/ i = Len(fr) + 1
  BY <1>1
<1>3. ASSUME g \notin Blots(k), Clean(fr, k) PROVE Clean(ap, k)
  BY <1>1, <1>2, <1>3 DEF Clean
<1>4. ASSUME g \notin Blots(k), NEW p \in 1..Len(fr), fr[p] \in Cures(k), Behind(fr, k, p)
      PROVE  Cured(ap, k)
  <2>1. p \in 1..Len(ap) /\ ap[p] \in Cures(k)
    BY <1>1, <1>4
  <2>2. Behind(ap, k, p)
    BY <1>1, <1>2, <1>4 DEF Behind
  <2> QED
    BY <2>1, <2>2 DEF Cured
<1>5. ASSUME g \in Cures(k) PROVE Cured(ap, k)
  <2>1. g \notin Blots(k)
    BY <1>5 DEF Cures, Ins, Blots, Outs
  <2>2. Len(fr) + 1 \in 1..Len(ap) /\ ap[Len(fr) + 1] \in Cures(k)
    BY <1>1, <1>5
  <2>3. Behind(ap, k, Len(fr) + 1)
    BY <1>1, <1>2, <2>1 DEF Behind
  <2> QED
    BY <2>2, <2>3 DEF Cured
<1>6. ASSUME g \notin Ins(k), Cleared(fr, k) PROVE Cleared(ap, k)
  <2> SUFFICES ASSUME NEW q \in 1..Len(ap), ap[q] \in Ins(k)
               PROVE  \E p \in (q + 1)..Len(ap) : ap[p] \in Outs(k)
    BY DEF Cleared
  <2>1. q \in 1..Len(fr) /\ fr[q] \in Ins(k)
    BY <1>1, <1>2, <1>6
  <2>2. PICK p \in (q + 1)..Len(fr) : fr[p] \in Outs(k)
    BY <1>6, <2>1 DEF Cleared
  <2>3. p \in (q + 1)..Len(ap) /\ ap[p] \in Outs(k)
    BY <1>1, <2>1, <2>2
  <2> QED
    BY <2>3
<1>7. ASSUME g \in Outs(k) PROVE Cleared(ap, k)
  <2>1. g \notin Ins(k)
    BY <1>7 DEF Ins, Outs
  <2> SUFFICES ASSUME NEW q \in 1..Len(ap), ap[q] \in Ins(k)
               PROVE  \E p \in (q + 1)..Len(ap) : ap[p] \in Outs(k)
    BY DEF Cleared
  <2>2. q \in 1..Len(fr)
    BY <1>1, <1>2, <2>1
  <2>3. Len(fr) + 1 \in (q + 1)..Len(ap) /\ ap[Len(fr) + 1] \in Outs(k)
    BY <1>1, <1>7, <2>2
  <2> QED
    BY <2>3
<1>8. /\ g \notin Blots(k) /\ Cured(fr, k) => Cured(ap, k)
      /\ g \in Cures(k) => Cured(ap, k)
      /\ g \notin Ins(k) /\ Cleared(fr, k) => Cleared(ap, k)
      /\ g \in Outs(k) => Cleared(ap, k)
  <2>1. ASSUME g \notin Blots(k), Cured(fr, k) PROVE Cured(ap, k)
    BY <1>3, <1>4, <2>1 DEF Cured
  <2> QED
    BY <2>1, <1>5, <1>6, <1>7
<1> QED
  BY <1>8 DEF ap

\* What was made good for stays so once the first frame is taken.
LEMMA TailOwes ==
  ASSUME NEW fr \in Seq(Frames), fr # <<>>, NEW k
  PROVE  /\ Cured(fr, k) => Cured(Tail(fr), k)
         /\ Cleared(fr, k) => Cleared(Tail(fr), k)
<1> DEFINE tl == Tail(fr)
<1>1. /\ Len(fr) \in Nat /\ Len(fr) >= 1 /\ Len(tl) = Len(fr) - 1
      /\ \A i \in 1..Len(tl) : i + 1 \in 2..Len(fr) /\ tl[i] = fr[i + 1]
      /\ \A i \in 2..Len(fr) : i - 1 \in 1..Len(tl) /\ tl[i - 1] = fr[i]
  BY HeadTailProperties, LenProperties, EmptySeq
<1> HIDE DEF tl
<1>2. ASSUME Clean(fr, k) PROVE Clean(tl, k)
  BY <1>1, <1>2 DEF Clean
<1>3. ASSUME NEW p \in 1..Len(fr), fr[p] \in Cures(k), Behind(fr, k, p) PROVE Cured(tl, k)
  <2>1. CASE p = 1
    <3>1. Clean(tl, k)
      BY <1>1, <1>3, <2>1 DEF Clean, Behind
    <3> QED
      BY <3>1 DEF Cured
  <2>2. CASE p # 1
    <3>1. p - 1 \in 1..Len(tl) /\ tl[p - 1] \in Cures(k)
      BY <1>1, <1>3, <2>2
    <3>2. Behind(tl, k, p - 1)
      BY <1>1, <1>3 DEF Behind
    <3> QED
      BY <3>1, <3>2 DEF Cured
  <2> QED
    BY <2>1, <2>2
<1>4. ASSUME Cleared(fr, k) PROVE Cleared(tl, k)
  <2> SUFFICES ASSUME NEW q \in 1..Len(tl), tl[q] \in Ins(k)
               PROVE  \E p \in (q + 1)..Len(tl) : tl[p] \in Outs(k)
    BY DEF Cleared
  <2>1. q + 1 \in 1..Len(fr) /\ fr[q + 1] \in Ins(k)
    BY <1>1
  <2>2. PICK p \in ((q + 1) + 1)..Len(fr) : fr[p] \in Outs(k)
    BY <1>4, <2>1 DEF Cleared
  <2>3. p \in 2..Len(fr) /\ p - 1 \in (q + 1)..Len(tl)
    BY <1>1, <2>2
  <2> QED
    BY <1>1, <2>2, <2>3
<1>5. Cured(fr, k) => Cured(tl, k)
  BY <1>2, <1>3 DEF Cured
<1> QED
  BY <1>4, <1>5 DEF tl

\* Where nothing is on its way, nothing is owed.
LEMMA NothingOwes ==
  ASSUME NEW k
  PROVE  Cured(<<>>, k) /\ Cleared(<<>>, k)
<1>1. Len(<<>>) = 0
  BY EmptySeq
<1> QED
  BY <1>1 DEF Cured, Clean, Cleared

\* The refusal that nobody awaits any more is neither a blot nor a cure.
LEMMA FailingOwes ==
  ASSUME NEW fr \in Seq(Frames), NEW gr \in Seq(Frames), Len(gr) = Len(fr),
         \A i \in 1..Len(fr) : gr[i] = fr[i] \/ (fr[i][1] = "busy" /\ gr[i][1] = "unawaited"),
         NEW k
  PROVE  /\ Cured(fr, k) => Cured(gr, k)
         /\ Cleared(fr, k) => Cleared(gr, k)
<1>1. \A i \in 1..Len(fr) : /\ gr[i] \in Blots(k) <=> fr[i] \in Blots(k)
                            /\ gr[i] \in Cures(k) <=> fr[i] \in Cures(k)
                            /\ gr[i] \in Ins(k) <=> fr[i] \in Ins(k)
                            /\ gr[i] \in Outs(k) <=> fr[i] \in Outs(k)
  BY DEF Blots, Cures, Ins, Outs
<1>2. Len(fr) \in Nat
  BY LenProperties
<1>3. Cured(fr, k) => Cured(gr, k)
  BY <1>1 DEF Cured, Clean, Behind
<1>4. ASSUME Cleared(fr, k) PROVE Cleared(gr, k)
  <2> SUFFICES ASSUME NEW q \in 1..Len(gr), gr[q] \in Ins(k)
               PROVE  \E p \in (q + 1)..Len(gr) : gr[p] \in Outs(k)
    BY DEF Cleared
  <2>1. PICK p \in (q + 1)..Len(fr) : fr[p] \in Outs(k)
    BY <1>1, <1>4 DEF Cleared
  <2>2. p \in 1..Len(fr)
    BY <1>2, <2>1
  <2> QED
    BY <1>1, <2>1, <2>2
<1> QED
  BY <1>3, <1>4

\* One frame sent: on a closed link it is lost, and nothing is on its way.
LEMMA SentOwes ==
  ASSUME TypeOK, WholeOK, NEW g \in Frames, Sends(<<g>>), NEW k
  PROVE  /\ g \notin Blots(k) /\ Cured(frames, k) => Cured(frames', k)
         /\ g \in Cures(k) => Cured(frames', k)
         /\ g \notin Ins(k) /\ Cleared(frames, k) => Cleared(frames', k)
         /\ g \in Outs(k) => Cleared(frames', k)
<1>1. frames \in Seq(Frames) /\ linkUp \in BOOLEAN
  BY DEF TypeOK
<1>2. CASE linkUp
  <2>1. frames' = Append(frames, g)
    BY <1>1, <1>2 DEF Sends
  <2> QED
    BY <1>1, <2>1, AppendOwes
<1>3. CASE ~linkUp
  <2>1. frames' = <<>>
    BY <1>3 DEF Sends, WholeOK
  <2> QED
    BY <2>1, NothingOwes
<1> QED
  BY <1>1, <1>2, <1>3

\* A frame is taken only when there is one, so the link is open.
LEMMA ReceiveTakes ==
  ASSUME TypeOK, WholeOK, Receive
  PROVE  /\ linkUp /\ linkUp' = linkUp /\ UNCHANGED <<radio, inbox>>
         /\ frames # <<>> /\ frames' = Tail(frames)
<1> USE DEF link
<1>1. /\ UNCHANGED <<radio, inbox, linkUp>>
      /\ frames # <<>> /\ frames' = Tail(frames)
  <2>1. CASE GotStart \/ GotBusy \/ GotUnawaited \/ \E kept \in SUBSET Keys : GotEnd(kept)
    BY <2>1 DEF GotStart, GotBusy, GotUnawaited, GotEnd, Got
  <2>2. ASSUME NEW k \in Keys, GotSolicited(k) \/ GotContact(k) \/ GotMissing(k)
        PROVE  UNCHANGED <<radio, inbox, linkUp>> /\ frames # <<>> /\ frames' = Tail(frames)
    BY <2>2 DEF GotSolicited, GotContact, GotMissing, Got
  <2>3. ASSUME NEW k \in Keys, GotNewAdvert(k) \/ GotAdvert(k) \/ GotDeleted(k)
        PROVE  UNCHANGED <<radio, inbox, linkUp>> /\ frames # <<>> /\ frames' = Tail(frames)
    BY <2>3 DEF GotNewAdvert, GotAdvert, GotDeleted, Got
  <2>4. ASSUME NEW k \in Keys, NEW what, NEW ok, GotAck(what, k, ok)
        PROVE  UNCHANGED <<radio, inbox, linkUp>> /\ frames # <<>> /\ frames' = Tail(frames)
    BY <2>4 DEF GotAck, Got
  <2> QED
    BY <2>1, <2>2, <2>3, <2>4 DEF Receive
<1> QED
  BY <1>1 DEF WholeOK, TypeOK

\* What each frame says of a key.
LEMMA RadioFrames ==
  ASSUME NEW k \in Keys
  PROVE  /\ /\ <<"contact", k>> \in Frames /\ <<"added", k>> \in Frames
            /\ <<"advert", k>> \in Frames /\ <<"missing", k>> \in Frames
            /\ <<"deleted", k>> \in Frames /\ <<"removed", k>> \in Frames
            /\ <<"refused", k>> \in Frames /\ <<"newAdvert", k>> \in Frames
         /\ /\ <<"contact", k>> \in Cures(k) /\ <<"added", k>> \in Cures(k)
            /\ <<"advert", k>> \in Cures(k)
            /\ <<"deleted", k>> \in Outs(k) /\ <<"removed", k>> \in Outs(k)
         /\ \A l : /\ <<"contact", k>> \notin Blots(l) /\ <<"added", k>> \notin Blots(l)
                   /\ <<"advert", k>> \notin Blots(l) /\ <<"advert", k>> \notin Ins(l)
                   /\ <<"refused", k>> \notin Blots(l) /\ <<"refused", k>> \notin Ins(l)
                   /\ <<"newAdvert", k>> \notin Blots(l) /\ <<"newAdvert", k>> \notin Ins(l)
                   /\ <<"missing", k>> \notin Ins(l)
                   /\ <<"deleted", k>> \notin Ins(l) /\ <<"removed", k>> \notin Ins(l)
         /\ \A l : l # k => /\ <<"contact", k>> \notin Ins(l) /\ <<"added", k>> \notin Ins(l)
                            /\ <<"missing", k>> \notin Blots(l)
                            /\ <<"deleted", k>> \notin Blots(l) /\ <<"removed", k>> \notin Blots(l)
BY DEF Frames, Blots, Cures, Ins, Outs

\* What the frames of a walk say of a key: the start blots, the others say nothing.
LEMMA WalkFrames ==
  /\ <<"start", NoKey>> \in Frames /\ <<"busy", NoKey>> \in Frames
  /\ \A l : /\ <<"start", NoKey>> \notin Ins(l)
            /\ <<"busy", NoKey>> \notin Ins(l) /\ <<"busy", NoKey>> \notin Blots(l)
  /\ \A K \in SUBSET Keys : /\ <<"end", K>> \in Frames
                            /\ \A l : <<"end", K>> \notin Ins(l) /\ <<"end", K>> \notin Blots(l)
BY DEF Frames, Blots, Ins, Outs

\* Two frames are sent one behind the other.
LEMMA AppendedTwice ==
  ASSUME NEW fr \in Seq(Frames), NEW f \in Frames, NEW g \in Frames
  PROVE  fr \o <<f, g>> = Append(Append(fr, f), g)
OBVIOUS

\* Whatever the radio does, it sends the frames that say so.
LEMMA RadioOwes ==
  ASSUME TypeOK, WholeOK, Owing, RadioAnswers \/ RadioGoesOn \/ Hears
  PROVE  Owing'
<1> USE DEF link, history
<1>1. frames \in Seq(Frames) /\ linkUp \in BOOLEAN /\ store \subseteq Keys /\ todo \subseteq Keys
  BY DEF TypeOK
<1>2. UNCHANGED <<linkUp, adrift>>
  <2>1. CASE RadioAnswers
    BY <2>1 DEF RadioAnswers, RadioWalks, RadioLooksUp, RadioAdds, RadioRemoves
  <2>2. CASE RadioGoesOn
    BY <2>2 DEF RadioGoesOn, RadioEnds, RadioStreams
  <2>3. CASE Hears
    BY <2>3 DEF Hears, RadioHears, RadioRefuses, RadioAutoAdds, RadioReplaces
  <2> QED
    BY <2>1, <2>2, <2>3
<1>3. ASSUME NEW g \in Frames, Sends(<<g>>), todo' \subseteq store', walking' \/ todo' = {},
             \A k \in store' : \/ k \in todo' \/ g \in Cures(k)
                               \/ g \notin Blots(k) /\ Cured(frames, k),
             \A k \in Keys \ store' : g \in Outs(k) \/ (g \notin Ins(k) /\ Cleared(frames, k))
      PROVE  Owing'
  <2>1. \A k \in store' : k \in todo' \/ Cured(frames', k)
    BY <1>3, SentOwes
  <2>2. \A k \in Keys \ store' : Cleared(frames', k)
    BY <1>3, SentOwes
  <2> QED
    BY <1>2, <1>3, <2>1, <2>2 DEF Owing
<1>4. ASSUME NEW k \in Keys, NEW g \in {<<"contact", k>>, <<"added", k>>, <<"advert", k>>},
             Sends(<<g>>), k \in store', store \subseteq store', store' \subseteq store \cup {k},
             todo' \subseteq store', todo \ {k} \subseteq todo', walking' \/ todo' = {}
      PROVE  Owing'
  <2>1. g \in Frames /\ g \in Cures(k) /\ \A l : g \notin Blots(l) /\ (l # k => g \notin Ins(l))
    BY <1>4, RadioFrames
  <2>2. \A l \in store' : l \in todo' \/ g \in Cures(l) \/ (g \notin Blots(l) /\ Cured(frames, l))
    BY <1>4, <2>1 DEF Owing
  <2>3. \A l \in Keys \ store' : g \in Outs(l) \/ (g \notin Ins(l) /\ Cleared(frames, l))
    BY <1>4, <2>1 DEF Owing
  <2> QED
    BY <1>3, <1>4, <2>1, <2>2, <2>3
<1>5. ASSUME NEW k \in Keys, NEW g \in {<<"missing", k>>, <<"removed", k>>}, Sends(<<g>>),
             store' = store \ {k}, todo' = todo \ {k}, walking' = walking,
             k \in store => g = <<"removed", k>>
      PROVE  Owing'
  <2>1. /\ g \in Frames /\ (g = <<"removed", k>> => g \in Outs(k))
        /\ \A l : g \notin Ins(l) /\ (l # k => g \notin Blots(l))
    BY <1>5, RadioFrames
  <2>2. \A l \in store' : l \in todo' \/ g \in Cures(l) \/ (g \notin Blots(l) /\ Cured(frames, l))
    BY <1>5, <2>1 DEF Owing
  <2>3. \A l \in Keys \ store' : g \in Outs(l) \/ (g \notin Ins(l) /\ Cleared(frames, l))
    BY <1>5, <2>1 DEF Owing
  <2>4. todo' \subseteq store' /\ (walking' \/ todo' = {})
    BY <1>5 DEF Owing
  <2> QED
    BY <1>3, <1>5, <2>1, <2>2, <2>3, <2>4
<1>6. ASSUME NEW g \in Frames, \A l : g \notin Ins(l) /\ g \notin Blots(l), Sends(<<g>>),
             store' = store, todo' = todo, walking' \/ todo = {}
      PROVE  Owing'
  <2>1. \A l \in store' : l \in todo' \/ g \in Cures(l) \/ (g \notin Blots(l) /\ Cured(frames, l))
    BY <1>6 DEF Owing
  <2>2. \A l \in Keys \ store' : g \in Outs(l) \/ (g \notin Ins(l) /\ Cleared(frames, l))
    BY <1>6 DEF Owing
  <2>3. todo' \subseteq store' /\ (walking' \/ todo' = {})
    BY <1>6 DEF Owing
  <2> QED
    BY <1>3, <1>6, <2>1, <2>2, <2>3
<1>7. ASSUME NEW what \in {"walk", "resync"}, RadioWalks(what) PROVE Owing'
  <2>1. CASE ~walking /\ Sends(<<<<"start", NoKey>>>>) /\ walking' = TRUE /\ todo' = store
    <3>1. store' = store
      BY <1>7 DEF RadioWalks
    <3>2. \A l \in Keys \ store' : <<"start", NoKey>> \notin Ins(l) /\ Cleared(frames, l)
      BY <3>1, WalkFrames DEF Owing
    <3> QED
      BY <1>3, <2>1, <3>1, <3>2, WalkFrames
  <2>2. CASE walking /\ UNCHANGED <<walking, todo>>
    <3>1. store' = store /\ walking'
      BY <1>7, <2>2 DEF RadioWalks
    <3>2. CASE what = "resync" /\ Sends(<<<<"busy", NoKey>>>>)
      BY <1>6, <2>2, <3>1, <3>2, WalkFrames
    <3>3. CASE Sends(<<>>)
      <4>1. frames' = frames
        BY <1>1, <3>3 DEF Sends
      <4> QED
        BY <1>2, <2>2, <3>1, <4>1 DEF Owing
    <3> QED
      BY <1>7, <2>2, <3>2, <3>3 DEF RadioWalks
  <2> QED
    BY <1>7, <2>1, <2>2 DEF RadioWalks
<1>8. ASSUME NEW k \in Keys, RadioLooksUp(k) PROVE Owing'
  <2>1. walking' = walking /\ todo' = todo /\ store' = store
    BY <1>8 DEF RadioLooksUp, radio
  <2>2. CASE k \in store
    <3>1. Sends(<<<<"contact", k>>>>)
      BY <1>8, <2>2 DEF RadioLooksUp
    <3>2. todo' \subseteq store' /\ (walking' \/ todo' = {})
      BY <2>1 DEF Owing
    <3> QED
      BY <1>4, <2>1, <2>2, <3>1, <3>2
  <2>3. CASE k \notin store
    <3>1. Sends(<<<<"missing", k>>>>)
      BY <1>8, <2>3 DEF RadioLooksUp
    <3>2. store' = store \ {k} /\ todo' = todo \ {k}
      BY <2>1, <2>3 DEF Owing
    <3> QED
      BY <1>5, <2>1, <2>3, <3>1, <3>2
  <2> QED
    BY <2>2, <2>3
<1>9. ASSUME NEW k \in Keys, Stores(k)
      PROVE  /\ store' = store \cup {k} /\ todo \subseteq todo' /\ todo' \subseteq store'
             /\ walking' \/ todo' = {}
  BY <1>9 DEF Stores, Owing
<1>10. ASSUME NEW k \in Keys, RadioAdds(k) PROVE Owing'
  <2>1. CASE Stores(k) /\ Sends(<<<<"added", k>>>>)
    BY <1>4, <1>9, <2>1
  <2>2. CASE Sends(<<<<"refused", k>>>>) /\ UNCHANGED radio
    <3>1. store' = store /\ todo' = todo /\ (walking' \/ todo = {})
      BY <2>2 DEF radio, Owing
    <3>2. /\ <<"refused", k>> \in Frames
          /\ \A l : <<"refused", k>> \notin Ins(l) /\ <<"refused", k>> \notin Blots(l)
      BY RadioFrames
    <3> QED
      BY <1>6, <2>2, <3>1, <3>2
  <2> QED
    BY <1>10, <2>1, <2>2 DEF RadioAdds
<1>11. ASSUME NEW k \in Keys, RadioRemoves(k) PROVE Owing'
  <2>1. store' = store \ {k} /\ todo' = todo \ {k} /\ walking' = walking
        /\ Sends(<<<<"removed", k>>>>)
    BY <1>11 DEF RadioRemoves, Drops
  <2> QED
    BY <1>5, <2>1
<1>12. CASE RadioEnds
  <2>1. /\ Sends(<<<<"end", steady>>>>) /\ steady \in SUBSET Keys
        /\ UNCHANGED <<store, todo>> /\ todo = {}
    BY <1>12 DEF RadioEnds, TypeOK
  <2> QED
    BY <1>6, <2>1, WalkFrames
<1>14. ASSUME NEW k \in Keys, RadioStreams(k) PROVE Owing'
  <2>1. Sends(<<<<"contact", k>>>>) /\ store' = store /\ walking'
        /\ todo' = todo \ {k} /\ k \in store /\ todo \subseteq store
    BY <1>14 DEF RadioStreams, Owing
  <2> QED
    BY <1>4, <2>1
<1>15. ASSUME NEW k \in Keys, RadioHears(k) PROVE Owing'
  <2>1. store' = store /\ todo' = todo /\ (walking' \/ todo' = {}) /\ todo \subseteq store
        /\ k \in store /\ Sends(<<<<"advert", k>>>>)
    BY <1>15 DEF RadioHears, radio, Owing
  <2> QED
    BY <1>4, <2>1
<1>16. ASSUME NEW k \in Keys, RadioRefuses(k) PROVE Owing'
  <2>1. store' = store /\ todo' = todo /\ (walking' \/ todo = {}) /\ Sends(<<<<"newAdvert", k>>>>)
    BY <1>16 DEF RadioRefuses, radio, Owing
  <2>2. /\ <<"newAdvert", k>> \in Frames
        /\ \A l : <<"newAdvert", k>> \notin Ins(l) /\ <<"newAdvert", k>> \notin Blots(l)
    BY RadioFrames
  <2> QED
    BY <1>6, <2>1, <2>2
<1>17. ASSUME NEW k \in Keys, RadioAutoAdds(k) PROVE Owing'
  <2>1. Stores(k) /\ Sends(<<<<"advert", k>>>>)
    BY <1>17 DEF RadioAutoAdds
  <2> QED
    BY <1>4, <1>9, <2>1
<1>13. ASSUME NEW k \in Keys, NEW old \in Keys, RadioReplaces(old, k) PROVE Owing'
  <2>1. /\ k \notin store /\ old \in store /\ store' = (store \ {old}) \cup {k}
        /\ todo' \in {todo \ {old}} \cup (IF walking THEN {(todo \ {old}) \cup {k}} ELSE {})
        /\ Sends(<<<<"deleted", old>>, <<"advert", k>>>>) /\ walking' = walking
    BY <1>13 DEF RadioReplaces
  <2>2. /\ todo \ {old} \subseteq todo' /\ todo' \subseteq store'
        /\ walking' \/ todo' = {}
        /\ k # old
    BY <2>1 DEF Owing
  <2>3. \A l \in store' : l \in todo' \/ Cured(frames', l)
    <3>1. CASE ~linkUp
      <4>1. frames' = <<>>
        BY <2>1, <3>1 DEF Sends, WholeOK
      <4> QED
        BY <4>1, NothingOwes
    <3>2. CASE linkUp
      <4> DEFINE mid == Append(frames, <<"deleted", old>>)
      <4>1. frames' = Append(mid, <<"advert", k>>)
        <5>1. frames' = frames \o <<<<"deleted", old>>, <<"advert", k>>>>
          BY <2>1, <3>2 DEF Sends
        <5>2. /\ frames \in Seq(Frames)
              /\ <<"deleted", old>> \in Frames /\ <<"advert", k>> \in Frames
          BY <1>1, RadioFrames
        <5>3. frames \o <<<<"deleted", old>>, <<"advert", k>>>> = Append(mid, <<"advert", k>>)
          BY <5>2, AppendedTwice
        <5> QED
          BY <5>1, <5>3
      <4>2. mid \in Seq(Frames) /\ <<"advert", k>> \in Frames /\ <<"deleted", old>> \in Frames
        BY <1>1, RadioFrames, AppendProperties
      <4> SUFFICES ASSUME NEW l \in store', l \notin todo' PROVE Cured(frames', l)
        OBVIOUS
      <4>3. CASE l = k
        BY <4>1, <4>2, <4>3, AppendOwes, RadioFrames
      <4>4. CASE l # k
        <5>1. l # old /\ Cured(frames, l)
          BY <2>1, <2>2, <4>4 DEF Owing
        <5>2. <<"deleted", old>> \notin Blots(l) /\ <<"advert", k>> \notin Blots(l)
          BY <5>1, RadioFrames
        <5>3. Cured(mid, l)
          BY <1>1, <4>2, <5>1, <5>2, AppendOwes
        <5> HIDE DEF mid
        <5> QED
          BY <4>1, <4>2, <5>2, <5>3, AppendOwes
      <4> QED
        BY <4>3, <4>4
    <3> QED
      BY <1>1, <3>1, <3>2
  <2>4. \A l \in Keys \ store' : Cleared(frames', l)
    <3>1. CASE ~linkUp
      <4>1. frames' = <<>>
        BY <2>1, <3>1 DEF Sends, WholeOK
      <4> QED
        BY <4>1, NothingOwes
    <3>2. CASE linkUp
      <4> DEFINE mid == Append(frames, <<"deleted", old>>)
      <4>1. frames' = Append(mid, <<"advert", k>>)
        <5>1. frames' = frames \o <<<<"deleted", old>>, <<"advert", k>>>>
          BY <2>1, <3>2 DEF Sends
        <5>2. /\ frames \in Seq(Frames)
              /\ <<"deleted", old>> \in Frames /\ <<"advert", k>> \in Frames
          BY <1>1, RadioFrames
        <5>3. frames \o <<<<"deleted", old>>, <<"advert", k>>>> = Append(mid, <<"advert", k>>)
          BY <5>2, AppendedTwice
        <5> QED
          BY <5>1, <5>3
      <4>2. mid \in Seq(Frames) /\ <<"advert", k>> \in Frames /\ <<"deleted", old>> \in Frames
        BY <1>1, RadioFrames, AppendProperties
      <4> SUFFICES ASSUME NEW l \in Keys \ store' PROVE Cleared(frames', l)
        OBVIOUS
      <4>3. l = old \/ Cleared(frames, l)
        BY <2>1 DEF Owing
      <4>4. <<"deleted", old>> \notin Ins(l) /\ <<"advert", k>> \notin Ins(l)
            /\ <<"deleted", old>> \in Outs(old)
        BY RadioFrames
      <4>5. Cleared(mid, l)
        BY <1>1, <4>2, <4>3, <4>4, AppendOwes
      <4> HIDE DEF mid
      <4> QED
        BY <4>1, <4>2, <4>4, <4>5, AppendOwes
    <3> QED
      BY <1>1, <3>1, <3>2
  <2> QED
    BY <1>2, <2>2, <2>3, <2>4 DEF Owing
<1> QED
  BY <1>7, <1>8, <1>10, <1>11, <1>12, <1>13, <1>14, <1>15, <1>16, <1>17
     DEF RadioAnswers, RadioGoesOn, Hears

\* Every step keeps what is owed.
LEMMA OwingKept == TypeOK /\ WholeOK /\ Owing /\ [Next]_vars => Owing'
<1> SUFFICES ASSUME TypeOK, WholeOK, Owing, [Next]_vars PROVE Owing'
  OBVIOUS
<1> USE DEF session, waiting, link, radio, wires, history
<1>1. ASSUME UNCHANGED <<frames, linkUp, radio>>, adrift' = adrift \/ adrift' = "yes" PROVE Owing'
  BY <1>1 DEF Owing
<1>2. CASE Timers
  BY <1>1, <1>2 DEF Timers, WatchdogFires, ResyncFires, RefreshFires, RefreshFails, OrphanFires,
                    LookupTimesOut, EditTimesOut
<1>3. CASE Microtasks
  BY <1>1, <1>3 DEF Microtasks, Retire, Added, Removed
<1>4. CASE Calls
  BY <1>1, <1>4 DEF Calls, CallWalk, CallLookup, CallEdit
<1>5. CASE Receive
  <2>1. linkUp /\ linkUp' = linkUp /\ UNCHANGED radio /\ frames # <<>> /\ frames' = Tail(frames)
    BY <1>5, ReceiveTakes
  <2>2. frames \in Seq(Frames)
    BY DEF TypeOK
  <2>3. \A k : /\ Cured(frames, k) => Cured(frames', k)
               /\ Cleared(frames, k) => Cleared(frames', k)
    BY <2>1, <2>2, TailOwes
  <2> QED
    BY <2>1, <2>3 DEF Owing
<1>6. CASE RadioAnswers \/ RadioGoesOn \/ Hears
  BY <1>6, RadioOwes
<1>7. CASE Connect \/ Start
  BY <1>7 DEF Connect, Start, Owing
<1>8. CASE Disconnect
  <2>1. frames' = <<>> /\ adrift' = "yes" /\ UNCHANGED radio
    BY <1>8 DEF Disconnect
  <2> QED
    BY <2>1, NothingOwes DEF Owing
<1>9. CASE Stop
  <2>1. adrift' = "yes" /\ UNCHANGED radio
    BY <1>9 DEF Stop
  <2>2. CASE connected
    <3>1. FailAcks /\ frames \in Seq(Frames)
      BY <1>9, <2>2 DEF Stop, TypeOK
    <3>2. /\ frames' \in Seq(Frames) /\ Len(frames') = Len(frames)
          /\ \A i \in 1..Len(frames) :
               frames'[i] = frames[i] \/ (frames[i][1] = "busy" /\ frames'[i][1] = "unawaited")
      BY <3>1, AcksFail
    <3>3. \A k : /\ Cured(frames, k) => Cured(frames', k)
                 /\ Cleared(frames, k) => Cleared(frames', k)
      BY <3>1, <3>2, FailingOwes
    <3> QED
      BY <2>1, <3>3 DEF Owing
  <2>3. CASE ~connected
    <3>1. frames' = frames
      BY <1>9, <2>3 DEF Stop
    <3> QED
      BY <2>1, <3>1 DEF Owing
  <2> QED
    BY <2>2, <2>3
<1>10. CASE UNCHANGED vars
  BY <1>1, <1>10 DEF vars
<1> QED
  BY <1>2, <1>3, <1>4, <1>5, <1>6, <1>7, <1>8, <1>9, <1>10 DEF Next

-----------------------------------------------------------------------------
(* The lookups that wait, and the answers on their way.                    *)

\* The frames and, behind them, the commands: what place p of them holds.
Way(fr, ib) == Len(fr) + Len(ib)
Place(fr, ib, p) == IF p <= Len(fr) THEN fr[p] ELSE ib[p - Len(fr)]

Asks(k) == {<<"contact", k>>, <<"lookup", k>>}
Answers(k) == Asks(k) \cup {<<"missing", k>>}
News(k) == {<<"added", k>>, <<"advert", k>>}

\* The lookups that wait stand, in order, for answers on their way.
Embeds(e, q, fr, ib) ==
  /\ e \in [1..Len(q) -> 1..Way(fr, ib)]
  /\ \A i \in 1..Len(q) : Place(fr, ib, e[i]) \in Answers(q[i][1])
  /\ \A i, j \in 1..Len(q) : i < j => e[i] < e[j]

Free(e, q, p) == \A i \in 1..Len(q) : e[i] # p

\* Place p brings k: no blot follows, and no lookup that waits takes it.
Brings(k, e, q, fr, ib, p) ==
  /\ Behind(fr, k, p)
  /\ \/ Place(fr, ib, p) \in News(k)
     \/ Place(fr, ib, p) \in Asks(k) /\ Free(e, q, p)

Comes(k, e, q, fr, ib) == \E p \in 1..Way(fr, ib) : Brings(k, e, q, fr, ib, p)
ComesLater(k, e, q, fr, ib) == \E p \in 2..Way(fr, ib) : Brings(k, e, q, fr, ib, p)

\* A frame goes behind the frames.
LEMMA SentOnWay ==
  ASSUME NEW fr \in Seq(Frames), NEW ib \in Seq(Commands), NEW g \in Frames,
         NEW q, Len(q) \in Nat, NEW e, Embeds(e, q, fr, ib)
  PROVE  \E f : /\ Embeds(f, q, Append(fr, g), ib)
                /\ \A k : /\ g \notin Blots(k) /\ Comes(k, e, q, fr, ib)
                               => Comes(k, f, q, Append(fr, g), ib)
                          /\ g \in Cures(k) => Comes(k, f, q, Append(fr, g), ib)
<1> DEFINE ap == Append(fr, g)
           n == Len(fr)
           h == [p \in 1..Way(fr, ib) |-> IF p <= n THEN p ELSE p + 1]
           f == [i \in 1..Len(q) |-> h[e[i]]]
<1>1. /\ n \in Nat /\ Len(ib) \in Nat /\ Len(ap) = n + 1 /\ ap[n + 1] = g
      /\ \A i \in 1..n : ap[i] = fr[i]
  BY AppendProperties, LenProperties
<1>2. \A p \in 1..Len(ap) : p \in 1..n \/ p = n + 1
  BY <1>1
<1>3. Way(fr, ib) \in Nat /\ Way(ap, ib) = Way(fr, ib) + 1 /\ n + 1 \in 1..Way(ap, ib)
      /\ Place(ap, ib, n + 1) = g
  BY <1>1 DEF Way, Place
<1> HIDE DEF ap, n
<1>4. ASSUME NEW p \in 1..Way(fr, ib)
      PROVE  h[p] \in 1..Way(ap, ib) /\ h[p] # n + 1 /\ Place(ap, ib, h[p]) = Place(fr, ib, p)
  <2>1. CASE p <= n
    BY <1>1, <1>3, <2>1 DEF Place, n
  <2>2. CASE ~(p <= n)
    <3>1. h[p] = p + 1 /\ ~(p + 1 <= n + 1) /\ (p + 1) - (n + 1) = p - n /\ p \in Int
      BY <1>1, <1>3, <2>2
    <3>2. Place(ap, ib, p + 1) = ib[p - n]
      BY <1>1, <3>1 DEF Place
    <3>3. Place(fr, ib, p) = ib[p - n]
      BY <2>2 DEF Place, n
    <3> QED
      BY <1>1, <1>3, <2>2, <3>1, <3>2, <3>3
  <2> QED
    BY <2>1, <2>2
<1>5. \A p, r \in 1..Way(fr, ib) : p < r => h[p] < h[r]
  BY <1>1, <1>3
<1>6. \A p, r \in 1..Way(fr, ib) : p # r => h[p] # h[r]
  BY <1>1, <1>3
<1>7. \A p \in 1..Way(fr, ib) : h[p] >= p
  BY <1>1, <1>3
<1> HIDE DEF h
<1>8. \A i \in 1..Len(q) : e[i] \in 1..Way(fr, ib)
  BY DEF Embeds
<1>9. Embeds(f, q, ap, ib)
  <2>1. f \in [1..Len(q) -> 1..Way(ap, ib)]
    BY <1>4, <1>8
  <2>2. \A i \in 1..Len(q) : Place(ap, ib, f[i]) \in Answers(q[i][1])
    BY <1>4, <1>8 DEF Embeds
  <2>3. \A i, j \in 1..Len(q) : i < j => f[i] < f[j]
    BY <1>5, <1>8 DEF Embeds
  <2> HIDE DEF f
  <2> QED
    BY <2>1, <2>2, <2>3 DEF Embeds
<1>10. ASSUME NEW k, g \notin Blots(k), NEW p \in 1..Way(fr, ib), Brings(k, e, q, fr, ib, p)
       PROVE  Comes(k, f, q, ap, ib)
  <2>1. Behind(ap, k, h[p])
    <3> SUFFICES ASSUME NEW m \in 1..Len(ap), ap[m] \in Blots(k) PROVE m < h[p]
      BY DEF Behind
    <3>1. m \in 1..n /\ fr[m] \in Blots(k)
      BY <1>1, <1>2, <1>10
    <3>2. m < p
      BY <1>10, <3>1 DEF Brings, Behind, n
    <3> QED
      BY <1>3, <1>4, <1>7, <3>1, <3>2
  <2>2. Free(e, q, p) => Free(f, q, h[p])
    BY <1>6, <1>8 DEF Free
  <2>3. Place(ap, ib, h[p]) = Place(fr, ib, p) /\ h[p] \in 1..Way(ap, ib)
    BY <1>4
  <2> HIDE DEF f
  <2> QED
    BY <1>10, <2>1, <2>2, <2>3 DEF Brings, Comes
<1>11. ASSUME NEW k, g \in Cures(k) PROVE Comes(k, f, q, ap, ib)
  <2>1. g \notin Blots(k) /\ (g \in News(k) \/ g \in Asks(k))
    BY <1>11 DEF Cures, Ins, Blots, Outs, News, Asks
  <2>2. Behind(ap, k, n + 1)
    BY <1>1, <1>2, <2>1 DEF Behind
  <2>3. Free(f, q, n + 1)
    BY <1>4, <1>8 DEF Free
  <2> HIDE DEF f
  <2>4. Brings(k, f, q, ap, ib, n + 1)
    BY <1>3, <2>1, <2>2, <2>3 DEF Brings
  <2> QED
    BY <1>3, <2>4 DEF Comes
<1>12. \A k : /\ g \notin Blots(k) /\ Comes(k, e, q, fr, ib) => Comes(k, f, q, ap, ib)
              /\ g \in Cures(k) => Comes(k, f, q, ap, ib)
  BY <1>10, <1>11 DEF Comes
<1> HIDE DEF f
<1> QED
  BY <1>9, <1>12 DEF ap

\* A command goes behind the commands, and, if it is a lookup's, its asker behind the
\* askers.
LEMMA WrittenOnWay ==
  ASSUME NEW fr \in Seq(Frames), NEW ib \in Seq(Commands), NEW c \in Commands,
         NEW q, Len(q) \in Nat, NEW e, Embeds(e, q, fr, ib)
  PROVE  /\ Embeds(e, q, fr, Append(ib, c))
         /\ \A k : Comes(k, e, q, fr, ib) => Comes(k, e, q, fr, Append(ib, c))
<1> DEFINE ap == Append(ib, c)
<1>1. /\ Len(fr) \in Nat /\ Len(ib) \in Nat /\ Len(ap) = Len(ib) + 1
      /\ \A i \in 1..Len(ib) : ap[i] = ib[i]
  BY AppendProperties, LenProperties
<1> HIDE DEF ap
<1>2. Way(fr, ib) \in Nat /\ Way(fr, ap) = Way(fr, ib) + 1
  BY <1>1 DEF Way
<1>3. ASSUME NEW p \in 1..Way(fr, ib)
      PROVE  p \in 1..Way(fr, ap) /\ Place(fr, ap, p) = Place(fr, ib, p)
  BY <1>1, <1>2 DEF Place, Way
<1>4. Embeds(e, q, fr, ap)
  BY <1>2, <1>3 DEF Embeds
<1>5. \A k : Comes(k, e, q, fr, ib) => Comes(k, e, q, fr, ap)
  BY <1>3 DEF Comes, Brings
<1> QED
  BY <1>4, <1>5 DEF ap

\* A lookup is written: its asker stands for it, behind all others.
LEMMA AskedOnWay ==
  ASSUME NEW fr \in Seq(Frames), NEW ib \in Seq(Commands), NEW k \in Keys,
         NEW L, NEW q \in Seq(L), NEW l \in L, l[1] = k, NEW e, Embeds(e, q, fr, ib)
  PROVE  \E f : /\ Embeds(f, Append(q, l), fr, Append(ib, <<"lookup", k>>))
                /\ \A j : Comes(j, e, q, fr, ib)
                            => Comes(j, f, Append(q, l), fr, Append(ib, <<"lookup", k>>))
<1> DEFINE c == <<"lookup", k>>
           ap == Append(ib, c)
           aq == Append(q, l)
           n == Way(fr, ib)
           f == [i \in 1..Len(aq) |-> IF i <= Len(q) THEN e[i] ELSE n + 1]
<1>1. c \in Commands /\ Len(q) \in Nat
  BY LenProperties DEF Commands
<1>2. /\ Len(fr) \in Nat /\ Len(ib) \in Nat /\ Len(ap) = Len(ib) + 1 /\ ap[Len(ib) + 1] = c
      /\ \A i \in 1..Len(ib) : ap[i] = ib[i]
  <2> HIDE DEF c
  <2> QED
    BY <1>1, AppendProperties, LenProperties
<1>3. /\ Len(aq) = Len(q) + 1 /\ aq[Len(q) + 1] = l
      /\ \A i \in 1..Len(q) : aq[i] = q[i]
  BY AppendProperties
<1> HIDE DEF ap, aq, c
<1>4. n \in Nat /\ Way(fr, ap) = n + 1 /\ Place(fr, ap, n + 1) = c
  BY <1>2 DEF Way, Place
<1> HIDE DEF n
<1>5. ASSUME NEW p \in 1..n
      PROVE  p \in 1..Way(fr, ap) /\ Place(fr, ap, p) = Place(fr, ib, p) /\ p # n + 1
  <2>1. p \in 1..Way(fr, ap) /\ p # n + 1
    BY <1>4
  <2>2. Place(fr, ap, p) = Place(fr, ib, p)
    BY <1>2 DEF Place, Way, n
  <2> QED
    BY <2>1, <2>2
<1>6. \A i \in 1..Len(aq) : i \in 1..Len(q) \/ i = Len(q) + 1
  BY <1>1, <1>3
<1>7. /\ \A i \in 1..Len(q) : e[i] \in 1..n /\ f[i] = e[i] /\ i \in 1..Len(aq)
      /\ f[Len(q) + 1] = n + 1
  <2>1. \A i \in 1..Len(q) : i \in 1..Len(aq) /\ i <= Len(q)
    BY <1>1, <1>3
  <2>2. Len(q) + 1 \in 1..Len(aq) /\ ~(Len(q) + 1 <= Len(q))
    BY <1>1, <1>3
  <2> QED
    BY <2>1, <2>2 DEF Embeds, n
<1>8. f \in [1..Len(aq) -> 1..Way(fr, ap)]
  <2>1. f = [i \in 1..Len(aq) |-> f[i]]
    OBVIOUS
  <2> HIDE DEF f
  <2>2. n + 1 \in 1..Way(fr, ap)
    BY <1>4
  <2>3. \A i \in 1..Len(aq) : f[i] \in 1..Way(fr, ap)
    BY <1>5, <1>6, <1>7, <2>2
  <2> QED
    BY <2>1, <2>3
<1> HIDE DEF f
<1>9. \A i \in 1..Len(aq) : Place(fr, ap, f[i]) \in Answers(aq[i][1])
  <2>1. c \in Answers(l[1])
    BY DEF c, Answers, Asks
  <2>2. ASSUME NEW i \in 1..Len(q) PROVE Place(fr, ap, f[i]) \in Answers(aq[i][1])
    BY <1>3, <1>5, <1>7 DEF Embeds
  <2> QED
    BY <1>3, <1>4, <1>6, <1>7, <2>1, <2>2
<1>10. \A i, j \in 1..Len(aq) : i < j => f[i] < f[j]
  <2> SUFFICES ASSUME NEW i \in 1..Len(aq), NEW j \in 1..Len(aq), i < j PROVE f[i] < f[j]
    OBVIOUS
  <2>1. i \in 1..Len(q)
    BY <1>1, <1>3
  <2>2. CASE j \in 1..Len(q)
    BY <1>7, <2>1, <2>2 DEF Embeds
  <2>3. CASE j = Len(q) + 1
    BY <1>4, <1>7, <2>1, <2>3
  <2> QED
    BY <1>6, <2>2, <2>3
<1>11. Embeds(f, aq, fr, ap)
  BY <1>8, <1>9, <1>10 DEF Embeds
<1>12. ASSUME NEW j, NEW p \in 1..n, Brings(j, e, q, fr, ib, p) PROVE Comes(j, f, aq, fr, ap)
  <2>1. Free(e, q, p) => Free(f, aq, p)
    BY <1>5, <1>6, <1>7 DEF Free
  <2> QED
    BY <1>5, <1>12, <2>1 DEF Brings, Comes
<1>13. \A j : Comes(j, e, q, fr, ib) => Comes(j, f, aq, fr, ap)
  BY <1>12 DEF Comes, n
<1> QED
  BY <1>11, <1>13 DEF ap, aq, c

\* The radio takes a command and answers it, behind the frames: the answer stands
\* where the command stood.
LEMMA AnsweredOnWay ==
  ASSUME NEW fr \in Seq(Frames), NEW ib \in Seq(Commands), ib # <<>>, NEW g \in Frames,
         NEW q, Len(q) \in Nat, NEW e, Embeds(e, q, fr, ib),
         \A k : Head(ib) \in Answers(k) => g \in Answers(k)
  PROVE  /\ Embeds(e, q, Append(fr, g), Tail(ib))
         /\ \A k : /\ g \notin Blots(k) /\ (Head(ib) \in Answers(k) => g \in Asks(k))
                        /\ Comes(k, e, q, fr, ib)
                        => Comes(k, e, q, Append(fr, g), Tail(ib))
                   /\ g \in News(k) => Comes(k, e, q, Append(fr, g), Tail(ib))
<1> DEFINE ap == Append(fr, g)
           tl == Tail(ib)
           n == Len(fr)
<1>1. /\ n \in Nat /\ Len(ap) = n + 1 /\ ap[n + 1] = g
      /\ \A i \in 1..n : ap[i] = fr[i]
  BY AppendProperties, LenProperties
<1>2. /\ Len(ib) \in Nat /\ Len(ib) >= 1 /\ Len(tl) = Len(ib) - 1 /\ Head(ib) = ib[1]
      /\ \A i \in 2..Len(ib) : tl[i - 1] = ib[i]
  BY HeadTailProperties, LenProperties, EmptySeq
<1> HIDE DEF ap, tl
<1>3. Way(fr, ib) \in Nat /\ Way(ap, tl) = Way(fr, ib) /\ n + 1 \in 1..Way(fr, ib)
  BY <1>1, <1>2 DEF Way
<1>4. Place(fr, ib, n + 1) = Head(ib) /\ Place(ap, tl, n + 1) = g
  BY <1>1, <1>2 DEF Place
<1>5. ASSUME NEW p \in 1..Way(fr, ib), p # n + 1 PROVE Place(ap, tl, p) = Place(fr, ib, p)
  <2>1. CASE p <= n
    BY <1>1, <1>3, <2>1 DEF Place
  <2>2. CASE ~(p <= n)
    <3>1. p - n \in 2..Len(ib) /\ ~(p <= n + 1) /\ p - (n + 1) = (p - n) - 1
      BY <1>1, <1>2, <1>5, <2>2 DEF Way
    <3>2. Place(ap, tl, p) = tl[(p - n) - 1]
      BY <1>1, <3>1 DEF Place
    <3>3. Place(fr, ib, p) = ib[p - n]
      BY <2>2 DEF Place
    <3> QED
      BY <1>2, <3>1, <3>2, <3>3
  <2> QED
    BY <2>1, <2>2
<1> HIDE DEF n
<1>6. \A p \in 1..Way(fr, ib) :
        \A k : Place(fr, ib, p) \in Answers(k) => Place(ap, tl, p) \in Answers(k)
  BY <1>4, <1>5
<1>7. Embeds(e, q, ap, tl)
  BY <1>3, <1>6 DEF Embeds
<1>8. ASSUME NEW k, g \notin Blots(k), Head(ib) \in Answers(k) => g \in Asks(k),
             NEW p \in 1..Way(fr, ib), Brings(k, e, q, fr, ib, p)
      PROVE  Comes(k, e, q, ap, tl)
  <2>1. Behind(ap, k, p)
    BY <1>1, <1>8 DEF Brings, Behind, n
  <2>2. CASE p # n + 1
    BY <1>3, <1>5, <1>8, <2>1, <2>2 DEF Brings, Comes
  <2>3. CASE p = n + 1
    <3>1. Head(ib) \in Commands /\ Place(fr, ib, p) = Head(ib)
      BY <1>4, <2>3, HeadTailProperties
    <3>2. Head(ib) \notin News(k)
      BY <3>1 DEF Commands, News
    <3>3. Head(ib) \in Asks(k) /\ Free(e, q, p)
      BY <1>8, <3>1, <3>2 DEF Brings
    <3>4. Place(ap, tl, p) \in Asks(k)
      BY <1>4, <1>8, <2>3, <3>3 DEF Answers
    <3> QED
      BY <1>3, <2>1, <3>3, <3>4 DEF Brings, Comes
  <2> QED
    BY <2>2, <2>3
<1>9. ASSUME NEW k, g \in News(k) PROVE Comes(k, e, q, ap, tl)
  <2>1. g \notin Blots(k)
    BY <1>9 DEF News, Blots, Outs
  <2>2. \A m \in 1..Len(ap) : ap[m] \in Blots(k) => m < n + 1
    BY <1>1, <2>1
  <2> QED
    BY <1>3, <1>4, <1>9, <2>2 DEF Brings, Comes, Behind
<1>10. \A k : /\ g \notin Blots(k) /\ (Head(ib) \in Answers(k) => g \in Asks(k))
                   /\ Comes(k, e, q, fr, ib) => Comes(k, e, q, ap, tl)
              /\ g \in News(k) => Comes(k, e, q, ap, tl)
  BY <1>8, <1>9 DEF Comes
<1> QED
  BY <1>7, <1>10 DEF ap, tl

\* The radio takes a command and says nothing.
LEMMA IgnoredOnWay ==
  ASSUME NEW fr \in Seq(Frames), NEW ib \in Seq(Commands), ib # <<>>,
         \A k : Head(ib) \notin Answers(k),
         NEW q, Len(q) \in Nat, NEW e, Embeds(e, q, fr, ib)
  PROVE  \E f : /\ Embeds(f, q, fr, Tail(ib))
                /\ \A k : Comes(k, e, q, fr, ib) => Comes(k, f, q, fr, Tail(ib))
<1> DEFINE tl == Tail(ib)
           n == Len(fr)
           h == [p \in 1..Way(fr, ib) |-> IF p <= n THEN p ELSE p - 1]
           f == [i \in 1..Len(q) |-> h[e[i]]]
<1>1. n \in Nat
  BY LenProperties
<1>2. /\ Len(ib) \in Nat /\ Len(ib) >= 1 /\ Len(tl) = Len(ib) - 1 /\ Head(ib) = ib[1]
      /\ \A i \in 2..Len(ib) : tl[i - 1] = ib[i]
  BY HeadTailProperties, LenProperties, EmptySeq
<1> HIDE DEF tl
<1>3. Way(fr, ib) \in Nat /\ Way(fr, tl) = Way(fr, ib) - 1 /\ n + 1 \in 1..Way(fr, ib)
  BY <1>1, <1>2 DEF Way
<1>4. Place(fr, ib, n + 1) = Head(ib)
  BY <1>1, <1>2 DEF Place
<1>5. ASSUME NEW p \in 1..Way(fr, ib), p # n + 1
      PROVE  h[p] \in 1..Way(fr, tl) /\ Place(fr, tl, h[p]) = Place(fr, ib, p)
  <2>1. CASE p <= n
    <3>1. h[p] = p /\ p \in 1..Way(fr, tl)
      BY <1>1, <1>2, <1>3, <2>1 DEF Way
    <3> QED
      BY <2>1, <3>1 DEF Place
  <2>2. CASE ~(p <= n)
    <3>1. /\ p - n \in 2..Len(ib) /\ ~(p - 1 <= n) /\ (p - 1) - n = (p - n) - 1
          /\ h[p] = p - 1 /\ p - 1 \in 1..Way(fr, tl)
      BY <1>1, <1>2, <1>3, <1>5, <2>2 DEF Way
    <3>2. Place(fr, tl, p - 1) = tl[(p - n) - 1]
      BY <3>1 DEF Place
    <3>3. Place(fr, ib, p) = ib[p - n]
      BY <2>2 DEF Place
    <3> QED
      BY <1>2, <3>1, <3>2, <3>3
  <2> QED
    BY <2>1, <2>2
<1>6. ASSUME NEW p \in 1..Way(fr, ib), NEW r \in 1..Way(fr, ib), p < r, p # n + 1, r # n + 1
      PROVE  h[p] < h[r]
  <2>1. (p <= n => h[p] = p) /\ (~(p <= n) => h[p] = p - 1)
        /\ (r <= n => h[r] = r) /\ (~(r <= n) => h[r] = r - 1)
    OBVIOUS
  <2> HIDE DEF h
  <2> QED
    BY <1>1, <1>3, <1>6, <2>1
<1>7. ASSUME NEW p \in 1..Way(fr, ib), NEW r \in 1..Way(fr, ib), p # r, p # n + 1, r # n + 1
      PROVE  h[p] # h[r]
  <2>1. (p < r \/ r < p) /\ h[p] \in Int /\ h[r] \in Int
    BY <1>1, <1>3, <1>7
  <2>2. h[p] < h[r] \/ h[r] < h[p]
    BY <1>6, <1>7, <2>1
  <2> HIDE DEF h
  <2> QED
    BY <2>1, <2>2
<1>8. ASSUME NEW p \in 1..Way(fr, ib), NEW m \in 1..n, m < p, p # n + 1 PROVE m < h[p]
  <2>1. CASE p <= n
    BY <1>8, <2>1
  <2>2. CASE ~(p <= n)
    <3>1. h[p] = p - 1 /\ n < p - 1
      BY <1>1, <1>3, <1>8, <2>2
    <3> QED
      BY <1>1, <1>3, <3>1
  <2> QED
    BY <2>1, <2>2
<1> HIDE DEF n, h
<1>9. \A i \in 1..Len(q) : e[i] \in 1..Way(fr, ib) /\ e[i] # n + 1
  BY <1>4 DEF Embeds
<1>10. Embeds(f, q, fr, tl)
  <2>1. f \in [1..Len(q) -> 1..Way(fr, tl)]
    BY <1>5, <1>9
  <2>2. \A i \in 1..Len(q) : Place(fr, tl, f[i]) \in Answers(q[i][1])
    BY <1>5, <1>9 DEF Embeds
  <2>3. \A i, j \in 1..Len(q) : i < j => f[i] < f[j]
    BY <1>6, <1>9 DEF Embeds
  <2> HIDE DEF f
  <2> QED
    BY <2>1, <2>2, <2>3 DEF Embeds
<1>11. ASSUME NEW k, NEW p \in 1..Way(fr, ib), Brings(k, e, q, fr, ib, p)
       PROVE  Comes(k, f, q, fr, tl)
  <2>1. Head(ib) \in Commands
    BY HeadTailProperties
  <2>2. Head(ib) \notin News(k) /\ Head(ib) \notin Asks(k)
    BY <2>1 DEF Commands, News, Answers
  <2>3. p # n + 1
    BY <1>4, <1>11, <2>2 DEF Brings
  <2>4. Behind(fr, k, h[p])
    BY <1>8, <1>11, <2>3 DEF Brings, Behind, n
  <2>5. Free(e, q, p) => Free(f, q, h[p])
    BY <1>7, <1>9, <2>3 DEF Free
  <2>6. Place(fr, tl, h[p]) = Place(fr, ib, p) /\ h[p] \in 1..Way(fr, tl)
    BY <1>5, <2>3
  <2> HIDE DEF f
  <2> QED
    BY <1>11, <2>4, <2>5, <2>6 DEF Brings, Comes
<1>12. \A k : Comes(k, e, q, fr, ib) => Comes(k, f, q, fr, tl)
  BY <1>11 DEF Comes
<1> HIDE DEF f
<1> QED
  BY <1>10, <1>12 DEF tl

\* Place by place, the way without its first frame.
LEMMA TailOfWay ==
  ASSUME NEW fr \in Seq(Frames), fr # <<>>, NEW ib \in Seq(Commands)
  PROVE  /\ Way(fr, ib) \in Nat /\ Len(fr) \in Nat /\ Len(fr) >= 1 /\ Way(fr, ib) >= 1
         /\ Way(Tail(fr), ib) = Way(fr, ib) - 1 /\ Place(fr, ib, 1) = Head(fr)
         /\ \A p \in 2..Way(fr, ib) : /\ p - 1 \in 1..Way(Tail(fr), ib)
                                      /\ Place(Tail(fr), ib, p - 1) = Place(fr, ib, p)
         /\ \A k, p : p \in 2..Way(fr, ib) /\ Behind(fr, k, p) => Behind(Tail(fr), k, p - 1)
<1> DEFINE tl == Tail(fr)
           n == Len(fr)
<1>1. /\ n \in Nat /\ n >= 1 /\ Len(tl) = n - 1 /\ Head(fr) = fr[1] /\ Len(ib) \in Nat
      /\ \A i \in 1..Len(tl) : i + 1 \in 1..n /\ tl[i] = fr[i + 1]
      /\ \A i \in 2..n : tl[i - 1] = fr[i]
  BY HeadTailProperties, LenProperties, EmptySeq
<1> HIDE DEF tl
<1>2. /\ Way(fr, ib) \in Nat /\ Way(fr, ib) >= 1 /\ Way(tl, ib) = Way(fr, ib) - 1
      /\ Place(fr, ib, 1) = Head(fr)
  BY <1>1 DEF Way, Place
<1>3. ASSUME NEW p \in 2..Way(fr, ib)
      PROVE  p - 1 \in 1..Way(tl, ib) /\ Place(tl, ib, p - 1) = Place(fr, ib, p)
  <2>1. p - 1 \in 1..Way(tl, ib)
    BY <1>2
  <2>2. CASE p <= n
    <3>1. p - 1 <= Len(tl) /\ p \in 2..n
      BY <1>1, <1>2, <2>2
    <3> QED
      BY <1>1, <2>1, <2>2, <3>1 DEF Place
  <2>3. CASE ~(p <= n)
    <3>1. ~(p - 1 <= Len(tl)) /\ (p - 1) - Len(tl) = p - n
      BY <1>1, <1>2, <2>3
    <3> QED
      BY <2>1, <2>3, <3>1 DEF Place
  <2> QED
    BY <2>2, <2>3
<1>4. ASSUME NEW k, NEW p \in 2..Way(fr, ib), Behind(fr, k, p) PROVE Behind(tl, k, p - 1)
  <2> SUFFICES ASSUME NEW m \in 1..Len(tl), tl[m] \in Blots(k) PROVE m < p - 1
    BY DEF Behind
  <2>1. m + 1 < p
    BY <1>1, <1>4 DEF Behind
  <2> QED
    BY <1>1, <1>2, <2>1
<1> QED
  BY <1>1, <1>2, <1>3, <1>4 DEF tl

\* What brings k is the first frame, which nothing of k follows that spoils it, or it
\* comes later.
LEMMA FirstOrLater ==
  ASSUME NEW fr \in Seq(Frames), fr # <<>>, NEW ib \in Seq(Commands), NEW e, NEW q, NEW k,
         Comes(k, e, q, fr, ib)
  PROVE  \/ ComesLater(k, e, q, fr, ib)
         \/ Clean(fr, k) /\ (Head(fr) \in News(k) \/ (Head(fr) \in Asks(k) /\ Free(e, q, 1)))
<1>1. PICK p \in 1..Way(fr, ib) : Brings(k, e, q, fr, ib, p)
  BY DEF Comes
<1>2. CASE p = 1
  <2>1. Clean(fr, k)
    <3> SUFFICES ASSUME NEW m \in 1..Len(fr), fr[m] \in Blots(k) PROVE FALSE
      BY DEF Clean
    <3>1. m < 1
      BY <1>1, <1>2 DEF Brings, Behind
    <3> QED
      BY <3>1
  <2> QED
    BY <1>1, <1>2, <2>1, TailOfWay DEF Brings
<1>3. CASE p # 1
  <2>1. p \in 2..Way(fr, ib)
    BY <1>3, TailOfWay
  <2> QED
    BY <1>1, <2>1 DEF ComesLater
<1> QED
  BY <1>2, <1>3

\* The first frame is taken, and no lookup waited for it.
LEMMA TakenOnWay ==
  ASSUME NEW fr \in Seq(Frames), fr # <<>>, NEW ib \in Seq(Commands),
         NEW q, Len(q) \in Nat, NEW e, Embeds(e, q, fr, ib), Free(e, q, 1)
  PROVE  \E f : /\ Embeds(f, q, Tail(fr), ib)
                /\ \A k : ComesLater(k, e, q, fr, ib) => Comes(k, f, q, Tail(fr), ib)
<1> DEFINE tl == Tail(fr)
           f == [i \in 1..Len(q) |-> e[i] - 1]
<1>1. /\ Way(fr, ib) \in Nat /\ Way(tl, ib) = Way(fr, ib) - 1
      /\ \A p \in 2..Way(fr, ib) : /\ p - 1 \in 1..Way(tl, ib)
                                   /\ Place(tl, ib, p - 1) = Place(fr, ib, p)
      /\ \A k, p : p \in 2..Way(fr, ib) /\ Behind(fr, k, p) => Behind(tl, k, p - 1)
  BY TailOfWay
<1> HIDE DEF tl
<1>2. \A i \in 1..Len(q) : e[i] \in 2..Way(fr, ib)
  BY <1>1 DEF Embeds, Free
<1>3. Embeds(f, q, tl, ib)
  <2>1. f \in [1..Len(q) -> 1..Way(tl, ib)]
    BY <1>1, <1>2
  <2>2. \A i \in 1..Len(q) : Place(tl, ib, f[i]) \in Answers(q[i][1])
    BY <1>1, <1>2 DEF Embeds
  <2>3. \A i, j \in 1..Len(q) : i < j => f[i] < f[j]
    BY <1>1, <1>2 DEF Embeds
  <2> HIDE DEF f
  <2> QED
    BY <2>1, <2>2, <2>3 DEF Embeds
<1>4. ASSUME NEW k, NEW p \in 2..Way(fr, ib), Brings(k, e, q, fr, ib, p)
      PROVE  Comes(k, f, q, tl, ib)
  <2>1. Behind(tl, k, p - 1) /\ Place(tl, ib, p - 1) = Place(fr, ib, p) /\ p - 1 \in 1..Way(tl, ib)
    BY <1>1, <1>4 DEF Brings
  <2>2. Free(e, q, p) => Free(f, q, p - 1)
    BY <1>1, <1>2 DEF Free
  <2> HIDE DEF f
  <2> QED
    BY <1>4, <2>1, <2>2 DEF Brings, Comes
<1>5. \A k : ComesLater(k, e, q, fr, ib) => Comes(k, f, q, tl, ib)
  BY <1>4 DEF ComesLater
<1> HIDE DEF f
<1> QED
  BY <1>3, <1>5 DEF tl

\* The first frame is taken, and lookup c with it: the answer the lookup stood for
\* comes free, if it was another.
LEMMA ResolvedOnWay ==
  ASSUME NEW fr \in Seq(Frames), fr # <<>>, NEW ib \in Seq(Commands),
         NEW q, Len(q) \in Nat, NEW e, Embeds(e, q, fr, ib),
         NEW c \in 1..Len(q), e[1] = 1 => c = 1,
         NEW r, Len(r) = Len(q) - 1,
         \A i \in 1..Len(r) : r[i] = IF i < c THEN q[i] ELSE q[i + 1]
  PROVE  \E f : /\ Embeds(f, r, Tail(fr), ib)
                /\ \A k : ComesLater(k, e, q, fr, ib) => Comes(k, f, r, Tail(fr), ib)
                /\ e[c] # 1 /\ Clean(fr, q[c][1]) => Comes(q[c][1], f, r, Tail(fr), ib)
<1> DEFINE tl == Tail(fr)
           at == [i \in 1..Len(r) |-> IF i < c THEN i ELSE i + 1]
           f == [i \in 1..Len(r) |-> e[at[i]] - 1]
<1>1. /\ Way(fr, ib) \in Nat /\ Way(tl, ib) = Way(fr, ib) - 1
      /\ \A p \in 2..Way(fr, ib) : /\ p - 1 \in 1..Way(tl, ib)
                                   /\ Place(tl, ib, p - 1) = Place(fr, ib, p)
      /\ \A k, p : p \in 2..Way(fr, ib) /\ Behind(fr, k, p) => Behind(tl, k, p - 1)
  BY TailOfWay
<1> HIDE DEF tl
<1>2. /\ \A i \in 1..Len(r) : at[i] \in 1..Len(q) /\ at[i] # c /\ r[i] = q[at[i]]
      /\ \A i, j \in 1..Len(r) : i < j => at[i] < at[j]
  <2>1. \A i \in 1..Len(r) : at[i] \in 1..Len(q) /\ at[i] # c
    OBVIOUS
  <2>2. \A i, j \in 1..Len(r) : i < j => at[i] < at[j]
    OBVIOUS
  <2>3. \A i \in 1..Len(r) : r[i] = q[at[i]]
    OBVIOUS
  <2> QED
    BY <2>1, <2>2, <2>3
<1> HIDE DEF at
<1>3. \A i \in 1..Len(q) : e[i] \in 1..Way(fr, ib)
  BY DEF Embeds
<1>4. \A i \in 1..Len(q) : i # c => e[i] \in 2..Way(fr, ib) /\ e[i] # e[c]
  <2> SUFFICES ASSUME NEW i \in 1..Len(q), i # c PROVE e[i] \in 2..Way(fr, ib) /\ e[i] # e[c]
    OBVIOUS
  <2>1. e[i] # e[c]
    <3>1. CASE i < c
      BY <1>1, <1>3, <3>1 DEF Embeds
    <3>2. CASE c < i
      BY <1>1, <1>3, <3>2 DEF Embeds
    <3> QED
      BY <3>1, <3>2
  <2>2. e[i] # 1
    <3>1. CASE i = 1
      BY <3>1
    <3>2. CASE 1 < i
      <4>1. 1 \in 1..Len(q) /\ e[1] < e[i]
        BY <3>2 DEF Embeds
      <4> QED
        BY <1>1, <1>3, <4>1
    <3> QED
      BY <3>1, <3>2
  <2> QED
    BY <1>1, <1>3, <2>1, <2>2
<1>5. \A i \in 1..Len(r) : e[at[i]] \in 2..Way(fr, ib) /\ e[at[i]] # e[c]
  BY <1>2, <1>4
<1>6. Embeds(f, r, tl, ib)
  <2>1. f \in [1..Len(r) -> 1..Way(tl, ib)]
    BY <1>1, <1>5
  <2>2. \A i \in 1..Len(r) : Place(tl, ib, f[i]) \in Answers(r[i][1])
    BY <1>1, <1>2, <1>5 DEF Embeds
  <2>3. \A i, j \in 1..Len(r) : i < j => f[i] < f[j]
    <3>1. \A i, j \in 1..Len(r) : i < j => e[at[i]] < e[at[j]]
      BY <1>2 DEF Embeds
    <3> QED
      BY <1>1, <1>5, <3>1, SMTT(30)
  <2> HIDE DEF f
  <2> QED
    BY <2>1, <2>2, <2>3 DEF Embeds
<1>7. ASSUME NEW k, NEW p \in 2..Way(fr, ib), Brings(k, e, q, fr, ib, p)
      PROVE  Comes(k, f, r, tl, ib)
  <2>1. Behind(tl, k, p - 1) /\ Place(tl, ib, p - 1) = Place(fr, ib, p) /\ p - 1 \in 1..Way(tl, ib)
    BY <1>1, <1>7 DEF Brings
  <2>2. Free(e, q, p) => Free(f, r, p - 1)
    BY <1>1, <1>2, <1>5 DEF Free
  <2> HIDE DEF f
  <2> QED
    BY <1>7, <2>1, <2>2 DEF Brings, Comes
<1>8. ASSUME e[c] # 1, Clean(fr, q[c][1]) PROVE Comes(q[c][1], f, r, tl, ib)
  <2> DEFINE k == q[c][1]
             p == e[c]
  <2>1. p \in 2..Way(fr, ib)
    BY <1>1, <1>3, <1>8
  <2>2. Behind(tl, k, p - 1) /\ Place(tl, ib, p - 1) = Place(fr, ib, p) /\ p - 1 \in 1..Way(tl, ib)
    <3>1. Behind(fr, k, p)
      BY <1>8 DEF Clean, Behind
    <3> QED
      BY <1>1, <2>1, <3>1
  <2>3. Free(f, r, p - 1)
    BY <1>1, <1>3, <1>5 DEF Free
  <2>4. Place(fr, ib, p) \in Asks(k)
    <3>1. Place(fr, ib, p) \in Answers(k)
      BY DEF Embeds
    <3>2. Place(fr, ib, p) # <<"missing", k>>
      <4>1. Len(fr) \in Nat /\ Len(ib) \in Nat
        BY LenProperties
      <4>2. CASE p <= Len(fr)
        <5>1. p \in 1..Len(fr) /\ Clean(fr, k) /\ Place(fr, ib, p) = fr[p]
          BY <1>8, <1>1, <2>1, <4>1, <4>2 DEF Place
        <5> HIDE DEF p, k
        <5> QED
          BY <5>1 DEF Clean, Blots
      <4>3. CASE ~(p <= Len(fr))
        <5>1. p - Len(fr) \in 1..Len(ib)
          BY <2>1, <4>1, <4>3 DEF Way
        <5>2. ib[p - Len(fr)] \in Commands
          BY <5>1, ElementOfSeq
        <5> QED
          BY <4>3, <5>2 DEF Place, Commands
      <4> QED
        BY <4>2, <4>3
    <3> QED
      BY <3>1, <3>2 DEF Answers
  <2> HIDE DEF f, k, p
  <2> QED
    BY <2>2, <2>3, <2>4 DEF Brings, Comes, k
<1>9. \A k : ComesLater(k, e, q, fr, ib) => Comes(k, f, r, tl, ib)
  BY <1>7 DEF ComesLater
<1> HIDE DEF f
<1> QED
  BY <1>6, <1>8, <1>9 DEF tl

-----------------------------------------------------------------------------
(* What the session knows, or is about to.                                 *)

\* A re-sync will be asked for, or is on its way, or was refused.
Rewalks ==
  \/ resync
  \/ \E p \in 1..Len(inbox) : inbox[p] = <<"resync", NoKey>>
  \/ \E p \in 1..Len(frames) : frames[p] = <<"busy", NoKey>>

\* The session has k, or sees to it, whatever it was told before.
Known(k) ==
  \/ refresh[k] # "none" /\ <<"retire", k>> \notin ready
  \/ <<"add", k>> \in ready
  \/ k \in contacts /\ (whole => k \in syncSeen) /\ <<"remove", k>> \notin ready

\* The session has not k, or is about to drop it.
Forgotten(k) ==
  \/ adrift = "untilWalked" /\ k \notin syncSeen
  \/ k \notin contacts /\ <<"add", k>> \notin ready
  \/ <<"remove", k>> \in ready /\ <<"add", k>> \notin ready

Out(fr, k) == \E m \in 1..Len(fr) : fr[m] \in Outs(k)

Caught(k, e) ==
  \/ Rewalks
  \/ k \in todo
  \/ Comes(k, e, lookups, frames, inbox)
  \/ Clean(frames, k) /\ Known(k)

Gone(k) == Out(frames, k) \/ Forgotten(k)

Tracked(e) ==
  /\ Embeds(e, lookups, frames, inbox)
  /\ \A k \in store : Caught(k, e)
  /\ \A k \in Keys \ store : Gone(k)

\* Nothing was missed, or all that was is behind the walk being received.
Followed == adrift = "no" \/ (adrift = "untilWalked" /\ whole)

FollowOK == Followed => \E e : Tracked(e)

\* The wires and the radio as they were.
LEMMA StayTracks ==
  ASSUME NEW e, Tracked(e), UNCHANGED <<lookups, frames, inbox, store, todo>>, resync => resync',
         \A k \in store : Known(k) => Known(k)' \/ resync',
         \A k \in Keys \ store : Forgotten(k) => Forgotten(k)'
  PROVE  Tracked(e)'
<1>1. lookups' = lookups /\ frames' = frames /\ inbox' = inbox /\ store' = store /\ todo' = todo
  OBVIOUS
<1>2. Rewalks => Rewalks'
  BY <1>1 DEF Rewalks
<1>3. resync' => Rewalks'
  BY DEF Rewalks
<1>4. ASSUME NEW k \in store PROVE Caught(k, e)'
  <2>1. Caught(k, e)
    BY DEF Tracked
  <2> QED
    BY <1>1, <1>2, <1>3, <2>1 DEF Caught
<1>5. ASSUME NEW k \in Keys \ store PROVE Gone(k)'
  BY <1>1 DEF Tracked, Gone
<1>6. Embeds(e, lookups, frames, inbox)'
  BY <1>1 DEF Tracked
<1> QED
  BY <1>1, <1>4, <1>5, <1>6 DEF Tracked

\* What the session knows, where none of its own state changes.
LEMMA SameKnown ==
  ASSUME UNCHANGED <<refresh, ready, contacts, whole, syncSeen, adrift>>, NEW k
  PROVE  Known(k)' = Known(k) /\ Forgotten(k)' = Forgotten(k)
BY DEF Known, Forgotten

\* A command is written.
LEMMA WriteTracks ==
  ASSUME TypeOK, NEW e, Tracked(e), NEW what, NEW w, Write(what, w), <<what, w>> \in Commands,
         UNCHANGED <<frames, store, todo>>,
         resync => resync' \/ <<what, w>> = <<"resync", NoKey>>,
         \A k \in store : Known(k) => Known(k)',
         \A k \in Keys \ store : Forgotten(k) => Forgotten(k)',
         \/ lookups' = lookups
         \/ /\ what = "lookup" /\ w \in Keys
            /\ \E who \in {"app", "refresh"} : lookups' = Append(lookups, <<w, who>>)
  PROVE  \E f : Tracked(f)'
<1>1. frames' = frames /\ store' = store /\ todo' = todo /\ inbox' = Append(inbox, <<what, w>>)
  BY DEF Write
<1>2. /\ frames \in Seq(Frames) /\ inbox \in Seq(Commands)
      /\ lookups \in Seq(Keys \X {"app", "refresh"}) /\ Len(lookups) \in Nat
  BY LenProperties DEF TypeOK
<1>3. Embeds(e, lookups, frames, inbox)
  BY DEF Tracked
<1>4. \E f : /\ Embeds(f, lookups', frames', inbox')
             /\ \A k : Comes(k, e, lookups, frames, inbox) => Comes(k, f, lookups', frames', inbox')
  <2>1. CASE lookups' = lookups
    <3>1. /\ Embeds(e, lookups, frames, Append(inbox, <<what, w>>))
          /\ \A k : Comes(k, e, lookups, frames, inbox)
                      => Comes(k, e, lookups, frames, Append(inbox, <<what, w>>))
      BY <1>2, <1>3, WrittenOnWay
    <3> QED
      BY <1>1, <2>1, <3>1
  <2>2. ASSUME NEW who \in {"app", "refresh"}, what = "lookup", w \in Keys,
               lookups' = Append(lookups, <<w, who>>)
        PROVE  \E f : /\ Embeds(f, lookups', frames', inbox')
                      /\ \A k : Comes(k, e, lookups, frames, inbox)
                                  => Comes(k, f, lookups', frames', inbox')
    <3> DEFINE l == <<w, who>>
               L == Keys \X {"app", "refresh"}
    <3>1. l \in L /\ l[1] = w /\ lookups \in Seq(L)
      BY <1>2, <2>2
    <3>2. lookups' = Append(lookups, l) /\ inbox' = Append(inbox, <<"lookup", w>>)
      BY <1>1, <2>2
    <3> HIDE DEF l, L
    <3>3. \E f : /\ Embeds(f, Append(lookups, l), frames, Append(inbox, <<"lookup", w>>))
                 /\ \A k : Comes(k, e, lookups, frames, inbox)
                             => Comes(k, f, Append(lookups, l), frames,
                                      Append(inbox, <<"lookup", w>>))
      BY <1>2, <1>3, <2>2, <3>1, AskedOnWay
    <3> QED
      BY <1>1, <3>2, <3>3
  <2> QED
    BY <2>1, <2>2
<1>5. PICK f : /\ Embeds(f, lookups', frames', inbox')
               /\ \A k : Comes(k, e, lookups, frames, inbox)
                           => Comes(k, f, lookups', frames', inbox')
  BY <1>4
<1>6. Rewalks => Rewalks'
  <2>1. /\ Len(inbox) \in Nat /\ Len(inbox') = Len(inbox) + 1
        /\ inbox'[Len(inbox) + 1] = <<what, w>>
        /\ \A i \in 1..Len(inbox) : inbox'[i] = inbox[i]
    BY <1>1, <1>2, AppendProperties, LenProperties
  <2>2. CASE resync
    BY <2>1, <2>2 DEF Rewalks
  <2>3. CASE ~resync
    BY <1>1, <2>1, <2>3 DEF Rewalks
  <2> QED
    BY <2>2, <2>3
<1>7. ASSUME NEW k \in store PROVE Caught(k, f)'
  <2>1. Caught(k, e)
    BY DEF Tracked
  <2> QED
    BY <1>1, <1>5, <1>6, <2>1 DEF Caught
<1>8. ASSUME NEW k \in Keys \ store PROVE Gone(k)'
  BY <1>1 DEF Tracked, Gone
<1>9. Tracked(f)'
  BY <1>1, <1>5, <1>7, <1>8 DEF Tracked
<1> QED
  BY <1>9

\* The first of the frames, and the others.
LEMMA CleanParts ==
  ASSUME NEW fr \in Seq(Frames), fr # <<>>, NEW k
  PROVE  /\ Clean(fr, k) => Clean(Tail(fr), k) /\ Head(fr) \notin Blots(k)
         /\ Out(fr, k) => Head(fr) \in Outs(k) \/ Out(Tail(fr), k)
         /\ Cleared(fr, k) /\ Head(fr) \in Ins(k) => Out(Tail(fr), k)
<1> DEFINE tl == Tail(fr)
<1>1. /\ Len(fr) \in Nat /\ Len(fr) >= 1 /\ Len(tl) = Len(fr) - 1 /\ Head(fr) = fr[1]
      /\ \A i \in 1..Len(tl) : i + 1 \in 1..Len(fr) /\ tl[i] = fr[i + 1]
      /\ \A i \in 2..Len(fr) : i - 1 \in 1..Len(tl) /\ tl[i - 1] = fr[i]
  BY HeadTailProperties, LenProperties, EmptySeq
<1> HIDE DEF tl
<1>2. 1 \in 1..Len(fr) /\ \A i \in 1..Len(fr) : i = 1 \/ i \in 2..Len(fr)
  BY <1>1
<1>3. Clean(fr, k) => Clean(tl, k) /\ Head(fr) \notin Blots(k)
  BY <1>1, <1>2 DEF Clean
<1>4. Out(fr, k) => Head(fr) \in Outs(k) \/ Out(tl, k)
  BY <1>1, <1>2 DEF Out
<1>5. ASSUME Cleared(fr, k), Head(fr) \in Ins(k) PROVE Out(tl, k)
  <2>1. PICK p \in (1 + 1)..Len(fr) : fr[p] \in Outs(k)
    BY <1>1, <1>2, <1>5 DEF Cleared
  <2>2. p \in 2..Len(fr)
    BY <2>1
  <2> QED
    BY <1>1, <2>1, <2>2 DEF Out
<1> QED
  BY <1>3, <1>4, <1>5 DEF tl

\* One more frame.
LEMMA CleanAppend ==
  ASSUME NEW fr \in Seq(Frames), NEW g \in Frames, NEW k
  PROVE  /\ Clean(fr, k) /\ g \notin Blots(k) => Clean(Append(fr, g), k)
         /\ Out(fr, k) \/ g \in Outs(k) => Out(Append(fr, g), k)
<1> DEFINE ap == Append(fr, g)
<1>1. /\ Len(fr) \in Nat /\ Len(ap) = Len(fr) + 1 /\ ap[Len(fr) + 1] = g
      /\ \A i \in 1..Len(fr) : i \in 1..Len(ap) /\ ap[i] = fr[i]
  BY AppendProperties, LenProperties
<1> HIDE DEF ap
<1>2. /\ \A i \in 1..Len(ap) : i \in 1..Len(fr) \/ i = Len(fr) + 1
      /\ Len(fr) + 1 \in 1..Len(ap)
  BY <1>1
<1>3. Clean(fr, k) /\ g \notin Blots(k) => Clean(ap, k)
  BY <1>1, <1>2 DEF Clean
<1>4. Out(fr, k) \/ g \in Outs(k) => Out(ap, k)
  BY <1>1, <1>2 DEF Out
<1> QED
  BY <1>3, <1>4 DEF ap

\* The radio sends a frame of its own accord.
LEMMA SendTracks ==
  ASSUME TypeOK, NEW e, Tracked(e), NEW g \in Frames, frames' = Append(frames, g),
         UNCHANGED <<inbox, lookups, resync, refresh, ready, contacts, whole, syncSeen, adrift>>,
         \A k \in store' : \/ k \in todo' \/ g \in Cures(k)
                           \/ k \in store \ todo /\ g \notin Blots(k),
         \A k \in Keys \ store' : g \in Outs(k) \/ k \notin store
  PROVE  \E f : Tracked(f)'
<1>1. /\ frames \in Seq(Frames) /\ inbox \in Seq(Commands) /\ Len(lookups) \in Nat
  BY LenProperties DEF TypeOK
<1>2. Embeds(e, lookups, frames, inbox)
  BY DEF Tracked
<1>3. PICK f : /\ Embeds(f, lookups, Append(frames, g), inbox)
               /\ \A k : /\ g \notin Blots(k) /\ Comes(k, e, lookups, frames, inbox)
                              => Comes(k, f, lookups, Append(frames, g), inbox)
                         /\ g \in Cures(k) => Comes(k, f, lookups, Append(frames, g), inbox)
  BY <1>1, <1>2, SentOnWay
<1>4. lookups' = lookups /\ inbox' = inbox /\ resync' = resync
  OBVIOUS
<1>5. Rewalks => Rewalks'
  <2>1. \A i \in 1..Len(frames) : i \in 1..Len(frames') /\ frames'[i] = frames[i]
    BY <1>1, AppendProperties, LenProperties
  <2> QED
    BY <1>4, <2>1 DEF Rewalks
<1>6. ASSUME NEW k \in store' PROVE Caught(k, f)'
  <2>1. CASE k \in todo'
    BY <2>1 DEF Caught
  <2>2. CASE g \in Cures(k)
    BY <1>3, <1>4, <2>2 DEF Caught
  <2>3. CASE k \in store \ todo /\ g \notin Blots(k)
    <3>1. Caught(k, e)
      BY <2>3 DEF Tracked
    <3>2. Known(k)' = Known(k)
      BY SameKnown
    <3>3. Clean(frames, k) => Clean(frames, k)'
      BY <1>1, <2>3, CleanAppend
    <3> QED
      BY <1>3, <1>4, <1>5, <2>3, <3>1, <3>2, <3>3 DEF Caught
  <2> QED
    BY <2>1, <2>2, <2>3
<1>7. ASSUME NEW k \in Keys \ store' PROVE Gone(k)'
  <2>1. Forgotten(k)' = Forgotten(k)
    BY SameKnown
  <2>2. g \in Outs(k) \/ Gone(k)
    BY <1>7 DEF Tracked
  <2>3. Out(frames, k) \/ g \in Outs(k) => Out(frames, k)'
    BY <1>1, CleanAppend
  <2> QED
    BY <2>1, <2>2, <2>3 DEF Gone
<1>8. Tracked(f)'
  BY <1>3, <1>4, <1>6, <1>7 DEF Tracked
<1> QED
  BY <1>8

\* The radio takes a command and answers it.
LEMMA AnswerTracks ==
  ASSUME TypeOK, NEW e, Tracked(e), NEW what, NEW w, Takes(what, w), NEW g \in Frames,
         frames' = Append(frames, g),
         UNCHANGED <<lookups, resync, refresh, ready, contacts, whole, syncSeen, adrift>>,
         \A k : <<what, w>> \in Answers(k) => g \in Answers(k),
         <<what, w>> = <<"resync", NoKey>> => g = <<"busy", NoKey>> \/ store' \subseteq todo',
         \A k \in store' : \/ k \in todo' \/ g \in News(k)
                           \/ /\ k \in store \ todo /\ g \notin Blots(k)
                              /\ <<what, w>> \in Answers(k) => g \in Asks(k),
         \A k \in Keys \ store' : g \in Outs(k) \/ k \notin store
  PROVE  \E f : Tracked(f)'
<1>1. /\ frames \in Seq(Frames) /\ inbox \in Seq(Commands) /\ Len(lookups) \in Nat
      /\ inbox # <<>> /\ Head(inbox) = <<what, w>> /\ inbox' = Tail(inbox)
  BY LenProperties DEF TypeOK, Takes
<1>2. Embeds(e, lookups, frames, inbox) /\ \A k : Head(inbox) \in Answers(k) => g \in Answers(k)
  BY <1>1 DEF Tracked
<1>3. /\ Embeds(e, lookups, Append(frames, g), Tail(inbox))
      /\ \A k : /\ g \notin Blots(k) /\ (Head(inbox) \in Answers(k) => g \in Asks(k))
                     /\ Comes(k, e, lookups, frames, inbox)
                     => Comes(k, e, lookups, Append(frames, g), Tail(inbox))
                /\ g \in News(k) => Comes(k, e, lookups, Append(frames, g), Tail(inbox))
  BY <1>1, <1>2, AnsweredOnWay
<1>4. lookups' = lookups /\ resync' = resync
  OBVIOUS
<1>5. /\ Len(frames) \in Nat /\ Len(frames) + 1 \in 1..Len(frames') /\ frames'[Len(frames) + 1] = g
      /\ \A i \in 1..Len(frames) : i \in 1..Len(frames') /\ frames'[i] = frames[i]
  BY <1>1, AppendProperties, LenProperties
<1>6. /\ Len(inbox) \in Nat /\ inbox[1] = <<what, w>>
      /\ \A i \in 2..Len(inbox) : i - 1 \in 1..Len(inbox') /\ inbox'[i - 1] = inbox[i]
  BY <1>1, HeadTailProperties, LenProperties
<1>7. Rewalks => Rewalks' \/ store' \subseteq todo'
  <2>1. CASE \E p \in 1..Len(inbox) : inbox[p] = <<"resync", NoKey>>
    <3>1. PICK p \in 1..Len(inbox) : inbox[p] = <<"resync", NoKey>>
      BY <2>1
    <3>2. CASE p = 1
      BY <1>5, <1>6, <3>1, <3>2 DEF Rewalks
    <3>3. CASE p # 1
      <4>1. p \in 2..Len(inbox)
        BY <1>6, <3>3
      <4> QED
        BY <1>6, <3>1, <4>1 DEF Rewalks
    <3> QED
      BY <3>2, <3>3
  <2>2. CASE resync \/ \E p \in 1..Len(frames) : frames[p] = <<"busy", NoKey>>
    BY <1>4, <1>5, <2>2 DEF Rewalks
  <2> QED
    BY <2>1, <2>2 DEF Rewalks
<1>8. ASSUME NEW k \in store' PROVE Caught(k, e)'
  <2>1. CASE k \in todo'
    BY <2>1 DEF Caught
  <2>2. CASE g \in News(k)
    BY <1>1, <1>3, <1>4, <2>2 DEF Caught
  <2>3. CASE /\ k \in store \ todo /\ g \notin Blots(k)
             /\ <<what, w>> \in Answers(k) => g \in Asks(k)
    <3>1. Caught(k, e)
      BY <2>3 DEF Tracked
    <3>2. Known(k)' = Known(k)
      BY SameKnown
    <3>3. Clean(frames, k) => Clean(frames, k)'
      BY <1>1, <2>3, CleanAppend
    <3>4. Comes(k, e, lookups, frames, inbox) => Comes(k, e, lookups, frames, inbox)'
      BY <1>1, <1>3, <1>4, <2>3
    <3>5. Rewalks => Caught(k, e)'
      BY <1>7 DEF Caught
    <3> QED
      BY <2>3, <3>1, <3>2, <3>3, <3>4, <3>5 DEF Caught
  <2> QED
    BY <2>1, <2>2, <2>3
<1>9. ASSUME NEW k \in Keys \ store' PROVE Gone(k)'
  <2>1. Forgotten(k)' = Forgotten(k)
    BY SameKnown
  <2>2. g \in Outs(k) \/ Gone(k)
    BY <1>9 DEF Tracked
  <2>3. Out(frames, k) \/ g \in Outs(k) => Out(frames, k)'
    BY <1>1, CleanAppend
  <2> QED
    BY <2>1, <2>2, <2>3 DEF Gone
<1>10. Tracked(e)'
  BY <1>1, <1>3, <1>4, <1>8, <1>9 DEF Tracked
<1> QED
  BY <1>10

\* The radio takes the request for a walk while one is going on, and says nothing.
LEMMA IgnoreTracks ==
  ASSUME TypeOK, NEW e, Tracked(e), Takes("walk", NoKey),
         UNCHANGED <<frames, store, todo, lookups, resync, refresh, ready, contacts, whole,
                     syncSeen, adrift>>
  PROVE  \E f : Tracked(f)'
<1>1. /\ frames \in Seq(Frames) /\ inbox \in Seq(Commands) /\ Len(lookups) \in Nat
      /\ inbox # <<>> /\ Head(inbox) = <<"walk", NoKey>> /\ inbox' = Tail(inbox)
  BY LenProperties DEF TypeOK, Takes
<1>2. Embeds(e, lookups, frames, inbox) /\ \A k : Head(inbox) \notin Answers(k)
  BY <1>1 DEF Tracked, Answers, Asks
<1>3. PICK f : /\ Embeds(f, lookups, frames, Tail(inbox))
               /\ \A k : Comes(k, e, lookups, frames, inbox)
                           => Comes(k, f, lookups, frames, Tail(inbox))
  BY <1>1, <1>2, IgnoredOnWay
<1>4. lookups' = lookups /\ resync' = resync /\ frames' = frames /\ store' = store /\ todo' = todo
  OBVIOUS
<1>5. Rewalks => Rewalks'
  <2>1. /\ Len(inbox) \in Nat /\ inbox[1] = <<"walk", NoKey>>
        /\ \A i \in 2..Len(inbox) : i - 1 \in 1..Len(inbox') /\ inbox'[i - 1] = inbox[i]
    BY <1>1, HeadTailProperties, LenProperties
  <2>2. \A p \in 1..Len(inbox) : inbox[p] = <<"resync", NoKey>> => p \in 2..Len(inbox)
    BY <2>1
  <2> QED
    BY <1>4, <2>1, <2>2 DEF Rewalks
<1>6. ASSUME NEW k \in store PROVE Caught(k, f)'
  <2>1. Caught(k, e)
    BY DEF Tracked
  <2>2. Known(k)' = Known(k)
    BY SameKnown
  <2> QED
    BY <1>1, <1>3, <1>4, <1>5, <2>1, <2>2 DEF Caught
<1>7. ASSUME NEW k \in Keys \ store PROVE Gone(k)'
  <2>1. Forgotten(k)' = Forgotten(k)
    BY SameKnown
  <2> QED
    BY <1>4, <2>1 DEF Tracked, Gone
<1>8. Tracked(f)'
  BY <1>1, <1>3, <1>4, <1>6, <1>7 DEF Tracked
<1> QED
  BY <1>8

\* Two frames, for an advert that takes the place of another contact.
LEMMA ReplaceTracks ==
  ASSUME TypeOK, Owing, NEW e, Tracked(e), NEW k \in Keys, NEW old \in Keys, linkUp,
         RadioReplaces(old, k)
  PROVE  \E f : Tracked(f)'
<1> DEFINE g == <<"deleted", old>>
           h == <<"advert", k>>
           mid == Append(frames, g)
<1>1. /\ k \notin store /\ old \in store /\ store' = (store \ {old}) \cup {k}
      /\ todo \ {old} \subseteq todo' /\ frames' = frames \o <<g, h>>
      /\ UNCHANGED <<inbox, lookups, resync, refresh, ready, contacts, whole, syncSeen, adrift>>
  BY DEF RadioReplaces, Sends, session, waiting, history
<1>2. /\ frames \in Seq(Frames) /\ inbox \in Seq(Commands) /\ Len(lookups) \in Nat
      /\ g \in Frames /\ h \in Frames
  BY LenProperties, RadioFrames DEF TypeOK
<1>3. /\ g \in Outs(old) /\ h \in Cures(k)
      /\ \A l : h \notin Blots(l) /\ (l # old => g \notin Blots(l))
  BY RadioFrames
<1> HIDE DEF g, h
<1>4. frames' = Append(mid, h) /\ mid \in Seq(Frames)
  BY <1>1, <1>2, AppendedTwice, AppendProperties
<1>5. Embeds(e, lookups, frames, inbox)
  BY DEF Tracked
<1>6. PICK d : /\ Embeds(d, lookups, mid, inbox)
               /\ \A l : g \notin Blots(l) /\ Comes(l, e, lookups, frames, inbox)
                           => Comes(l, d, lookups, mid, inbox)
  BY <1>2, <1>5, SentOnWay
<1> HIDE DEF mid
<1>7. PICK f : /\ Embeds(f, lookups, Append(mid, h), inbox)
               /\ \A l : /\ h \notin Blots(l) /\ Comes(l, d, lookups, mid, inbox)
                              => Comes(l, f, lookups, Append(mid, h), inbox)
                         /\ h \in Cures(l) => Comes(l, f, lookups, Append(mid, h), inbox)
  BY <1>2, <1>4, <1>6, SentOnWay
<1>8. \A i \in 1..Len(frames) : i \in 1..Len(frames') /\ frames'[i] = frames[i]
  <2>1. /\ Len(frames) \in Nat /\ Len(mid) = Len(frames) + 1
        /\ \A i \in 1..Len(frames) : mid[i] = frames[i]
    BY <1>2, AppendProperties, LenProperties DEF mid
  <2>2. Len(frames') = Len(mid) + 1 /\ \A i \in 1..Len(mid) : frames'[i] = mid[i]
    BY <1>2, <1>4, AppendProperties
  <2> QED
    BY <2>1, <2>2
<1>9. inbox' = inbox /\ lookups' = lookups /\ resync' = resync
  BY <1>1
<1>10. Rewalks => Rewalks'
  BY <1>8, <1>9 DEF Rewalks
<1>11. ASSUME NEW l \in store' PROVE Caught(l, f)'
  <2>1. CASE l = k
    BY <1>3, <1>4, <1>7, <1>9, <2>1 DEF Caught
  <2>2. CASE l # k
    <3>1. l \in store /\ l # old /\ (l \in todo => l \in todo')
      BY <1>1, <2>2
    <3>2. Caught(l, e)
      BY <3>1 DEF Tracked
    <3>3. Known(l)' = Known(l)
      BY <1>1, SameKnown
    <3>4. Clean(frames, l) => Clean(frames, l)'
      <4>1. Clean(frames, l) => Clean(mid, l)
        BY <1>2, <1>3, <3>1, CleanAppend DEF mid
      <4> QED
        BY <1>2, <1>3, <1>4, <4>1, CleanAppend
    <3>5. Comes(l, e, lookups, frames, inbox) => Comes(l, f, lookups, frames, inbox)'
      BY <1>3, <1>4, <1>6, <1>7, <1>9, <3>1
    <3> QED
      BY <1>10, <3>1, <3>2, <3>3, <3>4, <3>5 DEF Caught
  <2> QED
    BY <2>1, <2>2
<1>12. ASSUME NEW l \in Keys \ store' PROVE Gone(l)'
  <2>1. Forgotten(l)' = Forgotten(l)
    BY <1>1, SameKnown
  <2>2. l = old \/ Gone(l)
    BY <1>1, <1>12 DEF Tracked
  <2>3. Out(frames, l) \/ l = old => Out(mid, l)
    BY <1>2, <1>3, CleanAppend DEF mid
  <2>4. Out(mid, l) => Out(frames, l)'
    BY <1>2, <1>4, CleanAppend
  <2> QED
    BY <2>1, <2>2, <2>3, <2>4 DEF Gone
<1>13. Tracked(f)'
  BY <1>4, <1>7, <1>9, <1>11, <1>12 DEF Tracked
<1> QED
  BY <1>13

-----------------------------------------------------------------------------
(* The frames the session takes.                                           *)

\* Once the first frame is taken, a contact is caught as it was, or as the frame says;
\* lost stands for what its handler must see to.
LEMMA TakenCaught ==
  ASSUME TypeOK, frames # <<>>, UNCHANGED <<inbox, todo>>, frames' = Tail(frames),
         resync => resync', Head(frames) = <<"busy", NoKey>> => resync',
         NEW e, NEW f, NEW k, Caught(k, e),
         ComesLater(k, e, lookups, frames, inbox) => Comes(k, f, lookups, frames, inbox)',
         /\ Clean(frames, k)
         /\ \/ Known(k) \/ Head(frames) \in News(k)
            \/ Head(frames) \in Asks(k) /\ Free(e, lookups, 1)
         => Known(k)' \/ resync' \/ Comes(k, f, lookups, frames, inbox)'
  PROVE  Caught(k, f)'
<1>1. frames \in Seq(Frames) /\ inbox \in Seq(Commands) /\ inbox' = inbox /\ todo' = todo
  BY DEF TypeOK
<1>2. Rewalks => Rewalks'
  <2>1. /\ Len(frames) \in Nat /\ Head(frames) = frames[1]
        /\ \A i \in 2..Len(frames) : i - 1 \in 1..Len(frames') /\ frames'[i - 1] = frames[i]
    BY <1>1, HeadTailProperties, LenProperties
  <2>2. ASSUME NEW p \in 1..Len(frames), frames[p] = <<"busy", NoKey>> PROVE Rewalks'
    <3>1. CASE p = 1
      BY <2>1, <2>2, <3>1 DEF Rewalks
    <3>2. CASE p # 1
      <4>1. p \in 2..Len(frames)
        BY <2>1, <3>2
      <4> QED
        BY <2>1, <2>2, <4>1 DEF Rewalks
    <3> QED
      BY <3>1, <3>2
  <2> QED
    BY <1>1, <2>2 DEF Rewalks
<1>3. resync' => Rewalks'
  BY DEF Rewalks
<1>4. Clean(frames, k) => Clean(frames, k)'
  BY <1>1, CleanParts
<1>5. CASE Comes(k, e, lookups, frames, inbox)
  <2>1. \/ ComesLater(k, e, lookups, frames, inbox)
        \/ /\ Clean(frames, k)
           /\ Head(frames) \in News(k) \/ (Head(frames) \in Asks(k) /\ Free(e, lookups, 1))
    BY <1>1, <1>5, FirstOrLater
  <2> QED
    BY <1>3, <1>4, <2>1 DEF Caught
<1>6. CASE Clean(frames, k) /\ Known(k)
  BY <1>3, <1>4, <1>6 DEF Caught
<1>7. CASE Rewalks \/ k \in todo
  BY <1>1, <1>2, <1>7 DEF Caught
<1> QED
  BY <1>5, <1>6, <1>7 DEF Caught

\* Where the first frame is none that a lookup waits for, none stands for it.
LEMMA NoneWaits ==
  ASSUME TypeOK, frames # <<>>, NEW e, Embeds(e, lookups, frames, inbox),
         \A i \in 1..Len(lookups) : Head(frames) \notin Answers(lookups[i][1])
  PROVE  Free(e, lookups, 1)
<1>1. Place(frames, inbox, 1) = Head(frames)
  BY TailOfWay DEF TypeOK
<1> QED
  BY <1>1 DEF Embeds, Free

\* A frame no lookup waits for is taken.
LEMMA TakeTracks ==
  ASSUME TypeOK, Owing, NEW e, Tracked(e), frames # <<>>, frames' = Tail(frames),
         UNCHANGED <<inbox, store, todo, lookups>>,
         resync => resync', Head(frames) = <<"busy", NoKey>> => resync',
         \A i \in 1..Len(lookups) : Head(frames) \notin Answers(lookups[i][1]),
         \A k \in store : (/\ Clean(frames, k)
                           /\ \/ Known(k) \/ Head(frames) \in News(k)
                              \/ Head(frames) \in Asks(k))
                          => Known(k)' \/ resync',
         \A k \in Keys \ store :
           /\ Head(frames) \in Outs(k) \/ Forgotten(k)
           /\ Head(frames) \notin Ins(k)
           => Forgotten(k)'
  PROVE  \E f : Tracked(f)'
<1>1. /\ frames \in Seq(Frames) /\ inbox \in Seq(Commands) /\ Len(lookups) \in Nat
      /\ inbox' = inbox /\ lookups' = lookups /\ store' = store
  BY LenProperties DEF TypeOK
<1>2. Embeds(e, lookups, frames, inbox)
  BY DEF Tracked
<1>3. Free(e, lookups, 1)
  BY <1>2, NoneWaits
<1>4. PICK f : /\ Embeds(f, lookups, Tail(frames), inbox)
               /\ \A k : ComesLater(k, e, lookups, frames, inbox)
                           => Comes(k, f, lookups, Tail(frames), inbox)
  BY <1>1, <1>2, <1>3, TakenOnWay
<1>5. ASSUME NEW k \in store PROVE Caught(k, f)'
  <2>1. Caught(k, e)
    BY DEF Tracked
  <2>2. ComesLater(k, e, lookups, frames, inbox) => Comes(k, f, lookups, frames, inbox)'
    BY <1>1, <1>4
  <2>3. /\ Clean(frames, k)
        /\ \/ Known(k) \/ Head(frames) \in News(k)
           \/ Head(frames) \in Asks(k) /\ Free(e, lookups, 1)
        => Known(k)' \/ resync' \/ Comes(k, f, lookups, frames, inbox)'
    OBVIOUS
  <2> QED
    BY <2>1, <2>2, <2>3, TakenCaught
<1>6. ASSUME NEW k \in Keys \ store PROVE Gone(k)'
  <2>1. Gone(k) /\ Cleared(frames, k)
    BY DEF Tracked, Owing
  <2>2. /\ Out(frames, k) => Head(frames) \in Outs(k) \/ Out(Tail(frames), k)
        /\ Head(frames) \in Ins(k) => Out(Tail(frames), k)
    BY <1>1, <2>1, CleanParts
  <2> QED
    BY <2>1, <2>2 DEF Gone
<1>7. Tracked(f)'
  BY <1>1, <1>4, <1>5, <1>6 DEF Tracked
<1> QED
  BY <1>7

\* The frame resolves lookup c, the first that may wait for it.
LEMMA ResolveTracks ==
  ASSUME TypeOK, Owing, NEW e, Tracked(e), frames # <<>>, frames' = Tail(frames),
         UNCHANGED <<inbox, store, todo, resync>>, Head(frames) # <<"busy", NoKey>>,
         NEW c \in 1..Len(lookups), e[1] = 1 => c = 1,
         Len(lookups') = Len(lookups) - 1,
         \A i \in 1..Len(lookups') : lookups'[i] = IF i < c THEN lookups[i] ELSE lookups[i + 1],
         \A k \in store : (/\ Clean(frames, k)
                           /\ \/ Known(k) \/ Head(frames) \in News(k)
                              \/ Head(frames) \in Asks(k) /\ Free(e, lookups, 1))
                          => Known(k)' \/ (e[c] # 1 /\ k = lookups[c][1]),
         \A k \in Keys \ store :
           /\ Head(frames) \in Outs(k) \/ Forgotten(k)
           /\ Head(frames) \notin Ins(k)
           => Forgotten(k)'
  PROVE  \E f : Tracked(f)'
<1>1. /\ frames \in Seq(Frames) /\ inbox \in Seq(Commands) /\ Len(lookups) \in Nat
      /\ inbox' = inbox /\ store' = store
  BY LenProperties DEF TypeOK
<1>2. Embeds(e, lookups, frames, inbox)
  BY DEF Tracked
<1>3. PICK r : r = lookups'
  OBVIOUS
<1>4. /\ Len(r) = Len(lookups) - 1
      /\ \A i \in 1..Len(r) : r[i] = IF i < c THEN lookups[i] ELSE lookups[i + 1]
  BY <1>3
<1>5. PICK f : /\ Embeds(f, r, Tail(frames), inbox)
               /\ \A k : ComesLater(k, e, lookups, frames, inbox)
                           => Comes(k, f, r, Tail(frames), inbox)
               /\ e[c] # 1 /\ Clean(frames, lookups[c][1])
                    => Comes(lookups[c][1], f, r, Tail(frames), inbox)
  BY <1>1, <1>2, <1>4, ResolvedOnWay
<1>6. ASSUME NEW k \in store PROVE Caught(k, f)'
  <2>1. Caught(k, e)
    BY DEF Tracked
  <2>2. ComesLater(k, e, lookups, frames, inbox) => Comes(k, f, lookups, frames, inbox)'
    BY <1>1, <1>3, <1>5
  <2>3. Clean(frames, k) /\ e[c] # 1 /\ k = lookups[c][1] => Comes(k, f, lookups, frames, inbox)'
    BY <1>1, <1>3, <1>5
  <2>4. /\ Clean(frames, k)
        /\ \/ Known(k) \/ Head(frames) \in News(k)
           \/ Head(frames) \in Asks(k) /\ Free(e, lookups, 1)
        => Known(k)' \/ resync' \/ Comes(k, f, lookups, frames, inbox)'
    BY <2>3
  <2> QED
    BY <2>1, <2>2, <2>4, TakenCaught
<1>7. ASSUME NEW k \in Keys \ store PROVE Gone(k)'
  <2>1. Gone(k) /\ Cleared(frames, k)
    BY DEF Tracked, Owing
  <2>2. /\ Out(frames, k) => Head(frames) \in Outs(k) \/ Out(Tail(frames), k)
        /\ Head(frames) \in Ins(k) => Out(Tail(frames), k)
    BY <1>1, <2>1, CleanParts
  <2> QED
    BY <2>1, <2>2 DEF Gone
<1>8. Tracked(f)'
  BY <1>1, <1>3, <1>5, <1>6, <1>7 DEF Tracked
<1> QED
  BY <1>8

\* The least of some numbers.
LEMMA LeastIsLeast ==
  ASSUME NEW I, I \subseteq Nat, I # {}
  PROVE  \A j \in I : Min(I) <= j
<1>1. \A i, j \in Nat : i < j => <<i, j>> \in OpToRel(<, Nat)
  BY DEF OpToRel
<1>2. \E m \in I : \A j \in I : m <= j
  BY <1>1, NatLessThanWellFounded, LeastBy, Zenon
<1> QED
  BY <1>2 DEF Min

\* LookupOf finds the first of k's lookups, or none.
LEMMA LookupIsFirst ==
  ASSUME TypeOK, NEW k \in Keys
  PROVE  /\ LookupOf(k) = 0 => \A i \in 1..Len(lookups) : lookups[i][1] # k
         /\ LookupOf(k) > 0 => /\ LookupOf(k) \in 1..Len(lookups)
                               /\ lookups[LookupOf(k)][1] = k
                               /\ \A i \in 1..Len(lookups) :
                                    lookups[i][1] = k => LookupOf(k) <= i
<1> DEFINE I == {i \in 1..Len(lookups) : lookups[i][1] = k}
<1>1. lookups \in Seq(Keys \X {"app", "refresh"})
  BY DEF TypeOK
<1>2. I \subseteq Nat /\ Len(lookups) \in Nat /\ I \subseteq 1..Len(lookups)
  BY <1>1, LenProperties
<1>3. LookupOf(k) = IF I # {} THEN Min(I) ELSE 0
  BY DEF LookupOf, SelectInSeq
<1>4. I # {} => Min(I) \in I /\ \A j \in I : Min(I) <= j
  BY <1>2, LeastPosition, LeastIsLeast
<1> QED
  BY <1>2, <1>3, <1>4

\* The lookups, place by place, without one of them.
LEMMA RemovedAt ==
  ASSUME NEW L, NEW s \in Seq(L), NEW c \in 1..Len(s)
  PROVE  /\ Len(RemoveAt(s, c)) = Len(s) - 1
         /\ \A i \in 1..(Len(s) - 1) : RemoveAt(s, c)[i] = IF i < c THEN s[i] ELSE s[i + 1]
<1> DEFINE a == SubSeq(s, 1, c - 1)
           b == SubSeq(s, c + 1, Len(s))
<1>1. Len(s) \in Nat /\ \A j \in 1..Len(s) : s[j] \in L
  BY LenProperties, ElementOfSeq
<1>2. /\ a \in Seq(L) /\ Len(a) = c - 1
      /\ \A i \in 1..(c - 1) : a[i] = s[i]
  BY <1>1, SubSeqProperties
<1>3. /\ b \in Seq(L) /\ Len(b) = Len(s) - c
      /\ \A i \in 1..(Len(s) - c) : b[i] = s[c + i]
  BY <1>1, SubSeqProperties
<1>4. RemoveAt(s, c) = a \o b
  BY DEF RemoveAt
<1> HIDE DEF a, b
<1>5. /\ Len(a \o b) = Len(a) + Len(b)
      /\ \A i \in 1..(Len(a) + Len(b)) : (a \o b)[i] = IF i <= Len(a) THEN a[i] ELSE b[i - Len(a)]
  BY <1>2, <1>3, ConcatProperties
<1>6. ASSUME NEW i \in 1..(Len(s) - 1)
      PROVE  (a \o b)[i] = IF i < c THEN s[i] ELSE s[i + 1]
  <2>1. (a \o b)[i] = IF i <= c - 1 THEN a[i] ELSE b[i - (c - 1)]
    BY <1>1, <1>2, <1>3, <1>5
  <2>2. CASE i < c
    BY <1>1, <1>2, <2>1, <2>2
  <2>3. CASE ~(i < c)
    <3>1. i - (c - 1) \in 1..(Len(s) - c) /\ c + (i - (c - 1)) = i + 1
      BY <1>1, <2>3
    <3>2. b[i - (c - 1)] = s[i + 1]
      BY <1>3, <3>1
    <3> QED
      BY <1>1, <2>1, <2>3, <3>2
  <2> QED
    BY <2>2, <2>3
<1>7. Len(a \o b) = Len(s) - 1
  BY <1>1, <1>2, <1>3, <1>5
<1> QED
  BY <1>4, <1>6, <1>7

\* A walk begins, and no lookup waits that could take a record of it: the frames behind
\* its start make good for all that was missed.
LEMMA StartTracks ==
  ASSUME TypeOK, Owing, GotStart, lookups = <<>>, adrift' = "untilWalked"
  PROVE  \E f : Tracked(f)'
<1>1. /\ frames \in Seq(Frames) /\ inbox \in Seq(Commands) /\ frames # <<>>
      /\ Head(frames) = <<"start", NoKey>> /\ frames' = Tail(frames)
      /\ inbox' = inbox /\ store' = store /\ todo' = todo /\ lookups' = lookups /\ syncSeen' = {}
  BY DEF TypeOK, GotStart, Got, waiting, radio
<1>2. Len(lookups) = 0
  BY EmptySeq
<1>3. PICK f : /\ f \in [1..Len(lookups) -> 1..Way(Tail(frames), inbox)]
               /\ \A i \in 1..Len(lookups) : FALSE
  <2>1. [i \in 1..Len(lookups) |-> 1] \in [1..Len(lookups) -> 1..Way(Tail(frames), inbox)]
    BY <1>2
  <2>2. \A i \in 1..Len(lookups) : FALSE
    BY <1>2
  <2> QED
    BY <2>1, <2>2, Zenon
<1>4. Embeds(f, lookups, Tail(frames), inbox) /\ \A p : Free(f, lookups, p)
  BY <1>3 DEF Embeds, Free
<1>5. /\ Len(frames) \in Nat /\ Len(frames) >= 1 /\ frames[1] = Head(frames)
      /\ Way(frames, inbox) = Len(frames) + Len(inbox) /\ Len(inbox) \in Nat
      /\ \A p \in 2..Way(frames, inbox) :
           /\ p - 1 \in 1..Way(Tail(frames), inbox)
           /\ Place(Tail(frames), inbox, p - 1) = Place(frames, inbox, p)
      /\ \A k, p : p \in 2..Way(frames, inbox) /\ Behind(frames, k, p)
                     => Behind(Tail(frames), k, p - 1)
  BY <1>1, TailOfWay, HeadTailProperties, LenProperties, EmptySeq DEF Way
<1>6. ASSUME NEW k \in store PROVE Caught(k, f)'
  <2>1. CASE k \in todo
    BY <1>1, <2>1 DEF Caught
  <2>2. CASE k \notin todo
    <3>1. frames[1] \in Blots(k) /\ 1 \in 1..Len(frames) /\ Cured(frames, k)
      <4>1. frames[1] \in Blots(k)
        BY <1>1, <1>5 DEF Blots
      <4>2. Cured(frames, k)
        BY <2>2 DEF Owing
      <4> QED
        BY <1>5, <4>1, <4>2
    <3>2. PICK p \in 1..Len(frames) : frames[p] \in Cures(k) /\ Behind(frames, k, p)
      BY <3>1 DEF Cured, Clean
    <3>3. p \in 2..Way(frames, inbox) /\ Place(frames, inbox, p) = frames[p]
      BY <1>5, <3>1, <3>2 DEF Behind, Place
    <3>4. frames[p] \in News(k) \/ frames[p] \in Asks(k)
      BY <3>2 DEF Cures, Ins, News, Asks
    <3>5. Brings(k, f, lookups, Tail(frames), inbox, p - 1)
      BY <1>4, <1>5, <3>2, <3>3, <3>4 DEF Brings
    <3>6. Comes(k, f, lookups, Tail(frames), inbox)
      BY <1>5, <3>3, <3>5 DEF Comes
    <3> QED
      BY <1>1, <3>6 DEF Caught
  <2> QED
    BY <2>1, <2>2
<1>7. ASSUME NEW k \in Keys \ store PROVE Gone(k)'
  BY <1>1 DEF Gone, Forgotten
<1>8. Tracked(f)'
  BY <1>1, <1>4, <1>6, <1>7 DEF Tracked
<1> QED
  BY <1>8

\* What the session knows when no awaiter is to resume.
LEMMA KnownWhenIdle ==
  ASSUME ready = {}, NEW k
  PROVE  /\ Known(k) <=> refresh[k] # "none" \/ (k \in contacts /\ (whole => k \in syncSeen))
         /\ Forgotten(k) <=> (adrift = "untilWalked" /\ k \notin syncSeen) \/ k \notin contacts
BY DEF Known, Forgotten

\* What the session knows after the step.
LEMMA KnownThen ==
  ASSUME NEW k
  PROVE  /\ Known(k)' <=> \/ refresh'[k] # "none" /\ <<"retire", k>> \notin ready'
                          \/ <<"add", k>> \in ready'
                          \/ /\ k \in contacts' /\ (whole' => k \in syncSeen')
                             /\ <<"remove", k>> \notin ready'
         /\ Forgotten(k)' <=> \/ adrift' = "untilWalked" /\ k \notin syncSeen'
                              \/ k \notin contacts' /\ <<"add", k>> \notin ready'
                              \/ <<"remove", k>> \in ready' /\ <<"add", k>> \notin ready'
BY DEF Known, Forgotten

\* A contact record a lookup takes: the refresh that asked ingests it, and one that did
\* not leaves the answer to its own lookup to another.
LEMMA SolicitedTracks ==
  ASSUME TypeOK, WholeOK, Owing, NEW e, Tracked(e), NEW k \in Keys, GotSolicited(k), ready = {}
  PROVE  \E f : Tracked(f)'
<1> USE DEF session, waiting, radio
<1>1. /\ frames # <<>> /\ Head(frames) = <<"contact", k>> /\ frames' = Tail(frames)
      /\ UNCHANGED <<inbox, store, todo, resync, whole>> /\ adrift' = adrift
  BY DEF GotSolicited, Got, Drift, NoMicrotask
<1> DEFINE c == LookupOf(k)
<1>2. /\ c \in 1..Len(lookups) /\ lookups[c][1] = k
      /\ \A i \in 1..Len(lookups) : lookups[i][1] = k => c <= i
  BY LookupIsFirst DEF GotSolicited, ResolveLookup
<1>3. /\ lookups \in Seq(Keys \X {"app", "refresh"}) /\ Len(lookups) \in Nat
      /\ frames \in Seq(Frames) /\ inbox \in Seq(Commands)
      /\ refresh \in [Keys -> {"none", "scheduled", "asked"}]
      /\ contacts \subseteq Keys /\ store \subseteq Keys
  BY LenProperties DEF TypeOK
<1>4. /\ lookups' = RemoveAt(lookups, c)
      /\ ready' = Retiring({lookups[c]})
      /\ refresh' = [refresh EXCEPT ![k] = "none"]
      /\ syncSeen' = IF bulk THEN syncSeen \cup {k} ELSE syncSeen
      /\ refresh[k] # "none" => contacts' = contacts \cup {k}
      /\ refresh[k] = "none" => contacts' = contacts
  BY DEF GotSolicited, ResolveLookup, IngestOnRadio
<1> HIDE DEF c
<1>5. \A j : <<"add", j>> \notin ready' /\ <<"remove", j>> \notin ready'
             /\ (j # k => <<"retire", j>> \notin ready')
  BY <1>2, <1>4 DEF Retiring
<1>6. /\ Len(lookups') = Len(lookups) - 1
      /\ \A i \in 1..Len(lookups') : lookups'[i] = IF i < c THEN lookups[i] ELSE lookups[i + 1]
  BY <1>2, <1>3, <1>4, RemovedAt
<1>7. e[1] = 1 => c = 1
  <2>1. SUFFICES ASSUME e[1] = 1 PROVE c = 1
    OBVIOUS
  <2>2. 1 \in 1..Len(lookups)
    BY <1>2, <1>3
  <2>3. Head(frames) \in Answers(lookups[1][1])
    BY <1>1, <1>3, <2>1, <2>2, TailOfWay DEF Tracked, Embeds
  <2>4. lookups[1][1] = k
    BY <1>1, <2>3 DEF Answers, Asks
  <2> QED
    BY <1>2, <1>3, <2>2, <2>4
<1>8. ASSUME NEW j \in store, Clean(frames, j),
             \/ Known(j) \/ Head(frames) \in News(j)
             \/ Head(frames) \in Asks(j) /\ Free(e, lookups, 1)
      PROVE  Known(j)' \/ (e[c] # 1 /\ j = lookups[c][1])
  <2>1. CASE j # k
    <3>1. Known(j)
      BY <1>1, <1>8, <2>1 DEF News, Asks
    <3>2. refresh'[j] = refresh[j] /\ (j \in contacts => j \in contacts')
          /\ (j \in syncSeen => j \in syncSeen')
      BY <1>3, <1>4, <2>1
    <3> QED
      BY <1>1, <1>5, <2>1, <3>1, <3>2, KnownWhenIdle, KnownThen
  <2>2. CASE j = k /\ refresh[k] # "none"
    <3>1. j \in contacts' /\ (whole' => j \in syncSeen')
      BY <1>1, <1>4, <2>2 DEF WholeOK
    <3> QED
      BY <1>5, <3>1, KnownThen
  <2>3. CASE j = k /\ refresh[k] = "none" /\ j \in contacts /\ (whole => j \in syncSeen)
    <3>1. j \in contacts' /\ (whole' => j \in syncSeen')
      BY <1>1, <1>4, <2>3
    <3> QED
      BY <1>5, <3>1, KnownThen
  <2>4. CASE j = k /\ Head(frames) \in Asks(j) /\ Free(e, lookups, 1)
    BY <1>2, <2>4 DEF Free
  <2> QED
    BY <1>1, <1>8, <2>1, <2>2, <2>3, <2>4, KnownWhenIdle DEF News
<1>9. ASSUME NEW j \in Keys \ store, Head(frames) \in Outs(j) \/ Forgotten(j),
             Head(frames) \notin Ins(j)
      PROVE  Forgotten(j)'
  <2>1. j # k /\ Head(frames) \notin Outs(j)
    <3>1. <<"contact", k>> \in Ins(k) /\ <<"contact", k>> \notin Outs(j)
      BY DEF Ins, Outs
    <3> QED
      BY <1>1, <1>9, <3>1
  <2>2. (adrift = "untilWalked" /\ j \notin syncSeen) \/ j \notin contacts
    BY <1>9, <2>1, KnownWhenIdle
  <2>3. (j \notin contacts => j \notin contacts') /\ (j \notin syncSeen => j \notin syncSeen')
    BY <1>4, <2>1
  <2> QED
    BY <1>1, <1>5, <2>2, <2>3, KnownThen
<1>10. Head(frames) # <<"busy", NoKey>>
  BY <1>1
<1> QED
  BY <1>1, <1>2, <1>6, <1>7, <1>8, <1>9, <1>10, ResolveTracks

\* A record no lookup waits for is ingested.
LEMMA ContactTracks ==
  ASSUME TypeOK, Owing, NEW e, Tracked(e), NEW k \in Keys, GotContact(k), ready = {}
  PROVE  \E f : Tracked(f)'
<1> USE DEF session, waiting, radio
<1>1. /\ frames # <<>> /\ Head(frames) = <<"contact", k>> /\ frames' = Tail(frames)
      /\ UNCHANGED <<inbox, store, todo, resync, whole, lookups, refresh, ready>>
      /\ adrift' = adrift
      /\ contacts' = contacts \cup {k} /\ syncSeen' = syncSeen \cup {k}
  BY DEF GotContact, Got, Drift, NoMicrotask, IngestOnRadio
<1>2. \A i \in 1..Len(lookups) : lookups[i][1] # k
  BY LookupIsFirst DEF GotContact
<1>3. \A i \in 1..Len(lookups) : Head(frames) \notin Answers(lookups[i][1])
  BY <1>1, <1>2 DEF Answers, Asks
<1>4. ASSUME NEW j \in store,
             Known(j) \/ Head(frames) \in News(j) \/ Head(frames) \in Asks(j)
      PROVE  Known(j)'
  <2>1. j = k \/ Known(j)
    BY <1>1, <1>4 DEF News, Asks
  <2>2. CASE j = k
    BY <1>1, <2>2, KnownThen
  <2>3. CASE j # k /\ Known(j)
    BY <1>1, <2>3, KnownWhenIdle, KnownThen
  <2> QED
    BY <2>1, <2>2, <2>3
<1>5. ASSUME NEW j \in Keys \ store, Head(frames) \in Outs(j) \/ Forgotten(j),
             Head(frames) \notin Ins(j)
      PROVE  Forgotten(j)'
  <2>1. <<"contact", k>> \in Ins(k) /\ <<"contact", k>> \notin Outs(j)
    BY DEF Ins, Outs
  <2>2. j # k /\ Forgotten(j)
    BY <1>1, <1>5, <2>1
  <2> QED
    BY <1>1, <2>2, KnownWhenIdle, KnownThen
<1>6. Head(frames) # <<"busy", NoKey>>
  BY <1>1
<1> QED
  BY <1>1, <1>3, <1>4, <1>5, <1>6, TakeTracks

\* The radio has no record of k: the oldest lookup ends, whosever it was.
LEMMA MissingTracks ==
  ASSUME TypeOK, Owing, NEW e, Tracked(e), NEW k \in Keys, GotMissing(k), ready = {}
  PROVE  \E f : Tracked(f)'
<1> USE DEF session, waiting, radio
<1>1. /\ frames # <<>> /\ Head(frames) = <<"missing", k>> /\ frames' = Tail(frames)
      /\ UNCHANGED <<inbox, store, todo, resync, whole, refresh, contacts, syncSeen>>
      /\ adrift' = adrift
  BY DEF GotMissing, Got, Drift, NoMicrotask
<1>2. /\ <<"missing", k>> \in Blots(k) /\ <<"missing", k>> # <<"busy", NoKey>>
      /\ \A j : /\ <<"missing", k>> \notin News(j) /\ <<"missing", k>> \notin Asks(j)
                /\ <<"missing", k>> \notin Outs(j)
                /\ <<"missing", k>> \in Answers(j) => j = k
  BY DEF Blots, News, Asks, Outs, Answers
<1>3. /\ lookups \in Seq(Keys \X {"app", "refresh"}) /\ Len(lookups) \in Nat
      /\ frames \in Seq(Frames) /\ inbox \in Seq(Commands)
  BY LenProperties DEF TypeOK
<1>4. CASE lookups = <<>>
  <2>1. ready' = ready /\ lookups' = lookups
    BY <1>4 DEF GotMissing
  <2>2. \A i \in 1..Len(lookups) : FALSE
    BY <1>4, EmptySeq
  <2>3. \A j : Known(j)' = Known(j) /\ Forgotten(j)' = Forgotten(j)
    BY <1>1, <2>1, SameKnown
  <2> QED
    BY <1>1, <1>2, <2>1, <2>2, <2>3, TakeTracks
<1>5. CASE lookups # <<>>
  <2>1. ready' = Retiring({Head(lookups)}) /\ lookups' = Tail(lookups)
    BY <1>5 DEF GotMissing
  <2>2. /\ Len(lookups) >= 1 /\ Head(lookups) = lookups[1] /\ Len(lookups') = Len(lookups) - 1
        /\ \A i \in 1..Len(lookups') : lookups'[i] = lookups[i + 1]
    BY <1>3, <1>5, <2>1, HeadTailProperties, EmptySeq
  <2>3. /\ 1 \in 1..Len(lookups)
        /\ \A i \in 1..Len(lookups') : lookups'[i] = IF i < 1 THEN lookups[i] ELSE lookups[i + 1]
    BY <1>3, <2>2
  <2>4. \A j : /\ <<"add", j>> \notin ready' /\ <<"remove", j>> \notin ready'
               /\ (j # lookups[1][1] => <<"retire", j>> \notin ready')
    BY <2>1, <2>2 DEF Retiring
  <2>5. e[1] = 1 => lookups[1][1] = k
    <3>1. e[1] = 1 => Head(frames) \in Answers(lookups[1][1])
      BY <1>1, <1>3, <2>3, TailOfWay DEF Tracked, Embeds
    <3> QED
      BY <1>1, <1>2, <3>1
  <2>6. ASSUME NEW j \in store, Clean(frames, j),
               \/ Known(j) \/ Head(frames) \in News(j)
               \/ Head(frames) \in Asks(j) /\ Free(e, lookups, 1)
        PROVE  Known(j)' \/ (e[1] # 1 /\ j = lookups[1][1])
    <3>1. Known(j) /\ j # k
      <4>1. Head(frames) \notin Blots(j)
        BY <1>1, <1>3, <2>6, CleanParts
      <4> QED
        BY <1>1, <1>2, <2>6, <4>1
    <3>2. CASE j = lookups[1][1]
      BY <2>5, <3>1, <3>2
    <3>3. CASE j # lookups[1][1]
      BY <1>1, <2>4, <3>1, <3>3, KnownWhenIdle, KnownThen
    <3> QED
      BY <3>2, <3>3
  <2>7. ASSUME NEW j \in Keys \ store, Head(frames) \in Outs(j) \/ Forgotten(j)
        PROVE  Forgotten(j)'
    BY <1>1, <1>2, <2>4, <2>7, KnownWhenIdle, KnownThen
  <2> QED
    BY <1>1, <1>2, <2>2, <2>3, <2>6, <2>7, ResolveTracks
<1> QED
  BY <1>4, <1>5

\* The pushes.
LEMMA PushTracks ==
  ASSUME TypeOK, Owing, NEW e, Tracked(e), NEW k \in Keys, ready = {},
         GotNewAdvert(k) \/ GotAdvert(k) \/ GotDeleted(k)
  PROVE  \E f : Tracked(f)'
<1> USE DEF session, waiting, radio
<1>1. /\ frames \in Seq(Frames) /\ refresh \in [Keys -> {"none", "scheduled", "asked"}]
      /\ store \subseteq Keys /\ resync \in BOOLEAN
  BY DEF TypeOK
<1>2. CASE GotNewAdvert(k)
  <2>1. /\ frames # <<>> /\ Head(frames) = <<"newAdvert", k>> /\ frames' = Tail(frames)
        /\ UNCHANGED <<inbox, store, todo, whole, lookups, refresh, ready, contacts, syncSeen>>
        /\ adrift' = adrift /\ (resync => resync')
    BY <1>1, <1>2 DEF GotNewAdvert, Got, Drift, NoMicrotask
  <2>2. \A j : Known(j)' = Known(j) /\ Forgotten(j)' = Forgotten(j)
    BY <2>1, SameKnown
  <2>3. /\ Head(frames) # <<"busy", NoKey>>
        /\ \A j : /\ Head(frames) \notin News(j) /\ Head(frames) \notin Asks(j)
                  /\ Head(frames) \notin Outs(j) /\ Head(frames) \notin Answers(j)
    BY <2>1 DEF News, Asks, Outs, Answers
  <2> QED
    BY <2>1, <2>2, <2>3, TakeTracks
<1>3. CASE GotAdvert(k)
  <2>1. /\ frames # <<>> /\ Head(frames) = <<"advert", k>> /\ frames' = Tail(frames)
        /\ UNCHANGED <<inbox, store, todo, whole, lookups, ready, contacts, syncSeen, resync>>
        /\ adrift' = adrift
        /\ refresh' = [refresh EXCEPT ![k] = IF @ = "none" THEN "scheduled" ELSE @]
    BY <1>1, <1>3 DEF GotAdvert, Got, Drift, NoMicrotask
  <2>2. refresh'[k] # "none" /\ \A j \in Keys : refresh[j] # "none" => refresh'[j] # "none"
    BY <1>1, <2>1
  <2>3. /\ Head(frames) # <<"busy", NoKey>>
        /\ \A j : /\ Head(frames) \in News(j) => j = k
                  /\ Head(frames) \notin Asks(j)
                  /\ Head(frames) \notin Outs(j) /\ Head(frames) \notin Answers(j)
    BY <2>1 DEF News, Asks, Outs, Answers
  <2>4. ASSUME NEW j \in store,
               Known(j) \/ Head(frames) \in News(j) \/ Head(frames) \in Asks(j)
        PROVE  Known(j)'
    BY <1>1, <2>1, <2>2, <2>3, <2>4, KnownWhenIdle, KnownThen
  <2>5. \A j : Forgotten(j)' = Forgotten(j)
    BY <2>1 DEF Forgotten
  <2> QED
    BY <2>1, <2>3, <2>4, <2>5, TakeTracks
<1>4. CASE GotDeleted(k)
  <2>1. /\ frames # <<>> /\ Head(frames) = <<"deleted", k>> /\ frames' = Tail(frames)
        /\ UNCHANGED <<inbox, store, todo, whole, lookups, refresh, ready, syncSeen, resync>>
        /\ adrift' = adrift /\ contacts' = contacts \ {k}
    BY <1>1, <1>4 DEF GotDeleted, Got, Drift, NoMicrotask
  <2>2. /\ Head(frames) # <<"busy", NoKey>> /\ Head(frames) \in Blots(k)
        /\ \A j : /\ Head(frames) \notin News(j) /\ Head(frames) \notin Asks(j)
                  /\ Head(frames) \notin Answers(j)
                  /\ Head(frames) \in Outs(j) => j = k
    BY <2>1 DEF News, Asks, Outs, Answers, Blots
  <2>3. ASSUME NEW j \in store, Clean(frames, j),
               Known(j) \/ Head(frames) \in News(j) \/ Head(frames) \in Asks(j)
        PROVE  Known(j)'
    <3>1. Head(frames) \notin Blots(j)
      BY <1>1, <2>1, <2>3, CleanParts
    <3>2. Known(j) /\ j # k
      BY <2>2, <2>3, <3>1
    <3> QED
      BY <2>1, <3>2, KnownWhenIdle, KnownThen
  <2>4. ASSUME NEW j \in Keys \ store, Head(frames) \in Outs(j) \/ Forgotten(j)
        PROVE  Forgotten(j)'
    <3>1. CASE j = k
      BY <2>1, <3>1, KnownThen
    <3>2. CASE j # k
      BY <2>1, <2>2, <2>4, <3>2, KnownWhenIdle, KnownThen
    <3> QED
      BY <3>1, <3>2
  <2> QED
    BY <2>1, <2>2, <2>3, <2>4, TakeTracks
<1> QED
  BY <1>2, <1>3, <1>4

\* A walk begins while nothing was missed: the frames behind its start say what it wipes.
LEMMA BeginTracks ==
  ASSUME TypeOK, Owing, NEW e, Tracked(e), GotStart, ready = {}, adrift = "no"
  PROVE  \E f : Tracked(f)'
<1> USE DEF session, waiting, radio
<1>1. /\ frames # <<>> /\ Head(frames) = <<"start", NoKey>> /\ frames' = Tail(frames)
      /\ UNCHANGED <<inbox, store, todo, lookups, resync, ready, contacts>>
  BY DEF GotStart, Got
<1>2. /\ Head(frames) # <<"busy", NoKey>>
      /\ \A j : /\ Head(frames) \in Blots(j) /\ Head(frames) \notin Outs(j)
                /\ Head(frames) \notin Answers(j)
  BY <1>1 DEF Blots, Outs, Answers, Asks
<1>3. \A j : ~Clean(frames, j)
  BY <1>1, <1>2, CleanParts DEF TypeOK
<1>4. ASSUME NEW j \in Keys \ store, Head(frames) \in Outs(j) \/ Forgotten(j) PROVE Forgotten(j)'
  BY <1>1, <1>2, <1>4, KnownWhenIdle, KnownThen
<1> QED
  BY <1>1, <1>2, <1>3, <1>4, TakeTracks

\* A walk ends: what it did not name goes, and nothing is missing any more.
LEMMA EndTracks ==
  ASSUME TypeOK, Owing, NEW e, Tracked(e), NEW kept, GotEnd(kept), ready = {}, whole
  PROVE  \E f : Tracked(f)'
<1> USE DEF session, waiting, radio
<1>1. /\ frames # <<>> /\ Head(frames) = <<"end", kept>> /\ frames' = Tail(frames)
      /\ UNCHANGED <<inbox, store, todo, lookups, resync, ready, refresh>>
      /\ contacts' = contacts \cap syncSeen /\ whole' = FALSE
  BY DEF GotEnd, Got
<1>2. /\ Head(frames) # <<"busy", NoKey>>
      /\ \A j : /\ Head(frames) \notin News(j) /\ Head(frames) \notin Asks(j)
                /\ Head(frames) \notin Outs(j) /\ Head(frames) \notin Answers(j)
  BY <1>1 DEF News, Asks, Outs, Answers
<1>3. ASSUME NEW j \in store, Known(j) PROVE Known(j)'
  BY <1>1, <1>3, KnownWhenIdle, KnownThen
<1>4. ASSUME NEW j \in Keys \ store, Forgotten(j) PROVE Forgotten(j)'
  BY <1>1, <1>4, KnownWhenIdle, KnownThen
<1> QED
  BY <1>1, <1>2, <1>3, <1>4, TakeTracks

\* The refusal of a re-sync, awaited or not.
LEMMA BusyTracks ==
  ASSUME TypeOK, Owing, NEW e, Tracked(e), GotBusy \/ GotUnawaited, ready = {}
  PROVE  \E f : Tracked(f)'
<1> USE DEF session, waiting, radio
<1>1. CASE GotBusy
  <2>1. /\ frames # <<>> /\ Head(frames) = <<"busy", NoKey>> /\ frames' = Tail(frames)
        /\ UNCHANGED <<inbox, store, todo, lookups, refresh, ready, contacts, whole, syncSeen>>
        /\ adrift' = adrift /\ resync'
    BY <1>1 DEF GotBusy, Got, Drift, NoMicrotask
  <2>2. \A j : Forgotten(j)' = Forgotten(j)
    BY <2>1, SameKnown
  <2>3. \A j : Head(frames) \notin Outs(j) /\ Head(frames) \notin Answers(j)
    BY <2>1 DEF Outs, Answers, Asks
  <2> QED
    BY <2>1, <2>2, <2>3, TakeTracks
<1>2. CASE GotUnawaited
  <2>1. /\ frames # <<>> /\ Head(frames) = <<"unawaited", NoKey>> /\ frames' = Tail(frames)
        /\ UNCHANGED <<inbox, store, todo, lookups, refresh, ready, contacts, whole, syncSeen,
                       resync>>
        /\ adrift' = adrift
    BY <1>2 DEF GotUnawaited, Got, Drift, NoMicrotask
  <2>2. \A j : Known(j)' = Known(j) /\ Forgotten(j)' = Forgotten(j)
    BY <2>1, SameKnown
  <2>3. /\ Head(frames) # <<"busy", NoKey>>
        /\ \A j : /\ Head(frames) \notin News(j) /\ Head(frames) \notin Asks(j)
                  /\ Head(frames) \notin Outs(j) /\ Head(frames) \notin Answers(j)
    BY <2>1 DEF News, Asks, Outs, Answers
  <2> QED
    BY <2>1, <2>2, <2>3, TakeTracks
<1> QED
  BY <1>1, <1>2

\* The answer to an edit whose ack is awaited.
LEMMA AckTracks ==
  ASSUME TypeOK, Owing, NEW e, Tracked(e), NEW k \in Keys, ready = {}, adrift' = adrift,
         \/ <<"add", k>> \in asked /\ GotAck("add", k, TRUE)
         \/ GotAck("add", k, FALSE)
         \/ <<"remove", k>> \in asked /\ GotAck("remove", k, TRUE)
  PROVE  \E f : Tracked(f)'
<1> USE DEF session, waiting, radio
<1>1. CASE <<"add", k>> \in asked /\ GotAck("add", k, TRUE)
  <2>1. /\ frames # <<>> /\ Head(frames) = <<"added", k>> /\ frames' = Tail(frames)
        /\ UNCHANGED <<inbox, store, todo, lookups, refresh, contacts, whole, syncSeen, resync>>
        /\ ready' = {<<"add", k>>}
    BY <1>1 DEF GotAck, Got
  <2>2. /\ Head(frames) # <<"busy", NoKey>> /\ Head(frames) \in Ins(k)
        /\ \A j : /\ Head(frames) \in News(j) => j = k
                  /\ Head(frames) \notin Asks(j)
                  /\ Head(frames) \notin Outs(j) /\ Head(frames) \notin Answers(j)
    BY <2>1 DEF News, Asks, Outs, Answers, Ins
  <2>3. \A j : /\ <<"retire", j>> \notin ready' /\ <<"remove", j>> \notin ready'
               /\ <<"add", j>> \in ready' <=> j = k
    BY <2>1
  <2>4. ASSUME NEW j \in store, Known(j) \/ Head(frames) \in News(j) \/ Head(frames) \in Asks(j)
        PROVE  Known(j)'
    <3>1. CASE j = k
      BY <2>3, <3>1, KnownThen
    <3>2. CASE j # k
      BY <2>1, <2>2, <2>3, <2>4, <3>2, KnownWhenIdle, KnownThen
    <3> QED
      BY <3>1, <3>2
  <2>5. ASSUME NEW j \in Keys \ store, Head(frames) \in Outs(j) \/ Forgotten(j),
               Head(frames) \notin Ins(j)
        PROVE  Forgotten(j)'
    <3>1. j # k /\ Forgotten(j)
      BY <2>2, <2>5
    <3> QED
      BY <2>1, <2>3, <3>1, KnownWhenIdle, KnownThen
  <2> QED
    BY <2>1, <2>2, <2>4, <2>5, TakeTracks
<1>2. CASE GotAck("add", k, FALSE)
  <2>1. /\ frames # <<>> /\ Head(frames) = <<"refused", k>> /\ frames' = Tail(frames)
        /\ UNCHANGED <<inbox, store, todo, lookups, refresh, ready, contacts, whole, syncSeen,
                       resync>>
    BY <1>2 DEF GotAck, Got
  <2>2. \A j : Known(j)' = Known(j) /\ Forgotten(j)' = Forgotten(j)
    BY <2>1, SameKnown
  <2>3. /\ Head(frames) # <<"busy", NoKey>>
        /\ \A j : /\ Head(frames) \notin News(j) /\ Head(frames) \notin Asks(j)
                  /\ Head(frames) \notin Outs(j) /\ Head(frames) \notin Answers(j)
    BY <2>1 DEF News, Asks, Outs, Answers
  <2> QED
    BY <2>1, <2>2, <2>3, TakeTracks
<1>3. CASE <<"remove", k>> \in asked /\ GotAck("remove", k, TRUE)
  <2>1. /\ frames # <<>> /\ Head(frames) = <<"removed", k>> /\ frames' = Tail(frames)
        /\ UNCHANGED <<inbox, store, todo, lookups, refresh, contacts, whole, syncSeen, resync>>
        /\ ready' = {<<"remove", k>>}
    BY <1>3 DEF GotAck, Got
  <2>2. /\ Head(frames) # <<"busy", NoKey>> /\ Head(frames) \in Blots(k)
        /\ \A j : /\ Head(frames) \notin News(j) /\ Head(frames) \notin Asks(j)
                  /\ Head(frames) \notin Answers(j)
                  /\ Head(frames) \in Outs(j) => j = k
    BY <2>1 DEF News, Asks, Outs, Answers, Blots
  <2>3. \A j : /\ <<"retire", j>> \notin ready' /\ <<"add", j>> \notin ready'
               /\ <<"remove", j>> \in ready' <=> j = k
    BY <2>1
  <2>4. ASSUME NEW j \in store, Clean(frames, j),
               Known(j) \/ Head(frames) \in News(j) \/ Head(frames) \in Asks(j)
        PROVE  Known(j)'
    <3>1. Head(frames) \notin Blots(j)
      BY <2>1, <2>4, CleanParts DEF TypeOK
    <3>2. Known(j) /\ j # k
      BY <2>2, <2>4, <3>1
    <3> QED
      BY <2>1, <2>3, <3>2, KnownWhenIdle, KnownThen
  <2>5. ASSUME NEW j \in Keys \ store, Head(frames) \in Outs(j) \/ Forgotten(j)
        PROVE  Forgotten(j)'
    <3>1. CASE j = k
      BY <2>3, <3>1, KnownThen
    <3>2. CASE j # k
      BY <2>1, <2>2, <2>3, <2>5, <3>2, KnownWhenIdle, KnownThen
    <3> QED
      BY <3>1, <3>2
  <2> QED
    BY <2>1, <2>2, <2>4, <2>5, TakeTracks
<1> QED
  BY <1>1, <1>2, <1>3

-----------------------------------------------------------------------------
(* Every step keeps track.                                                 *)

\* A timer fires: only those of an ack and of a lookup lose track.
LEMMA TimersFollow ==
  ASSUME TypeOK, Owing, FollowOK, Timers, Followed'
  PROVE  \E f : Tracked(f)'
<1> USE DEF session, waiting, link, radio, wires, history
<1>1. CASE WatchdogFires
  <2>1. /\ UNCHANGED <<lookups, frames, inbox, store, todo, resync, refresh, ready, contacts,
                       syncSeen>>
        /\ adrift' = adrift /\ whole' = FALSE
    BY <1>1 DEF WatchdogFires
  <2>2. PICK e : Tracked(e)
    BY <2>1 DEF FollowOK, Followed
  <2>3. \A k : (Known(k) => Known(k)') /\ (Forgotten(k) => Forgotten(k)')
    BY <2>1 DEF Known, Forgotten
  <2> QED
    BY <2>1, <2>2, <2>3, StayTracks
<1>2. CASE ResyncFires
  <2>1. linkUp /\ \E e : Tracked(e)
    BY <1>2 DEF ResyncFires, Owing, FollowOK, Followed
  <2>2. PICK e : Tracked(e)
    BY <2>1
  <2>3. /\ Write("resync", NoKey) /\ UNCHANGED <<frames, store, todo, lookups>>
        /\ UNCHANGED <<refresh, ready, contacts, whole, syncSeen, adrift>>
    BY <1>2, <2>1 DEF ResyncFires
  <2>4. <<"resync", NoKey>> \in Commands
    BY DEF Commands
  <2>5. \A k : Known(k)' = Known(k) /\ Forgotten(k)' = Forgotten(k)
    BY <2>3, SameKnown
  <2> QED
    BY <2>2, <2>3, <2>4, <2>5, WriteTracks
<1>3. ASSUME NEW k \in Keys, RefreshFires(k) PROVE \E f : Tracked(f)'
  <2>1. /\ Write("lookup", k) /\ UNCHANGED <<frames, store, todo, resync>>
        /\ UNCHANGED <<ready, contacts, whole, syncSeen, adrift>>
        /\ lookups' = Append(lookups, <<k, "refresh">>)
        /\ refresh[k] = "scheduled" /\ refresh' = [refresh EXCEPT ![k] = "asked"]
        /\ refresh \in [Keys -> {"none", "scheduled", "asked"}] /\ store \subseteq Keys
    BY <1>3 DEF RefreshFires, TypeOK
  <2>2. PICK e : Tracked(e)
    BY <2>1 DEF FollowOK, Followed
  <2>3. <<"lookup", k>> \in Commands
    BY DEF Commands
  <2>4. \A j \in Keys : refresh[j] # "none" => refresh'[j] # "none"
    BY <2>1
  <2>5. /\ \A j \in store : Known(j) => Known(j)'
        /\ \A j \in Keys \ store : Forgotten(j) => Forgotten(j)'
    BY <2>1, <2>4 DEF Known, Forgotten
  <2> QED
    BY <2>1, <2>2, <2>3, <2>5, WriteTracks
<1>4. ASSUME NEW k \in Keys, RefreshFails(k) PROVE \E f : Tracked(f)'
  <2>1. adrift' = adrift /\ adrift = "yes"
    BY <1>4 DEF RefreshFails, Owing
  <2> QED
    BY <2>1 DEF Followed
<1>5. ASSUME NEW k \in Keys, OrphanFires(k) PROVE \E f : Tracked(f)'
  <2>1. UNCHANGED <<adrift, whole>>
    BY <1>5 DEF OrphanFires
  <2>2. linkUp
    BY <2>1 DEF Owing, Followed
  <2>3. /\ Write("lookup", k) /\ lookups' = Append(lookups, <<k, "refresh">>)
        /\ UNCHANGED <<frames, store, todo, resync>>
        /\ UNCHANGED <<refresh, ready, contacts, whole, syncSeen, adrift>>
    BY <1>5, <2>2 DEF OrphanFires
  <2>4. PICK e : Tracked(e)
    BY <2>1 DEF FollowOK, Followed
  <2>5. <<"lookup", k>> \in Commands
    BY DEF Commands
  <2>6. \A j : Known(j)' = Known(j) /\ Forgotten(j)' = Forgotten(j)
    BY <2>3, SameKnown
  <2> QED
    BY <2>3, <2>4, <2>5, <2>6, WriteTracks
<1>6. CASE (\E i \in DOMAIN lookups : LookupTimesOut(i)) \/ \E e \in asked : EditTimesOut(e)
  BY <1>6 DEF LookupTimesOut, EditTimesOut, Followed
<1> QED
  BY <1>1, <1>2, <1>3, <1>4, <1>5, <1>6 DEF Timers

\* The app asks for something.
LEMMA CallsFollow ==
  ASSUME TypeOK, Owing, FollowOK, Calls, Followed'
  PROVE  \E f : Tracked(f)'
<1> USE DEF session, waiting, link, radio, wires, history
<1>1. /\ UNCHANGED <<frames, store, todo, resync>>
      /\ UNCHANGED <<refresh, ready, contacts, whole, syncSeen, adrift>>
  BY DEF Calls, CallWalk, CallLookup, CallEdit
<1>2. PICK e : Tracked(e)
  BY <1>1 DEF FollowOK, Followed
<1>3. \A k : Known(k)' = Known(k) /\ Forgotten(k)' = Forgotten(k)
  BY <1>1, SameKnown
<1>4. CASE CallWalk
  <2>1. Write("walk", NoKey) /\ lookups' = lookups /\ <<"walk", NoKey>> \in Commands
    BY <1>4 DEF CallWalk, Commands
  <2> QED
    BY <1>1, <1>2, <1>3, <2>1, WriteTracks
<1>5. ASSUME NEW k \in Keys, CallLookup(k) PROVE \E f : Tracked(f)'
  <2>1. /\ Write("lookup", k) /\ lookups' = Append(lookups, <<k, "app">>)
        /\ <<"lookup", k>> \in Commands
    BY <1>5 DEF CallLookup, Commands
  <2> QED
    BY <1>1, <1>2, <1>3, <2>1, WriteTracks
<1>6. ASSUME NEW k \in Keys, NEW what \in {"add", "remove"}, CallEdit(what, k)
      PROVE  \E f : Tracked(f)'
  <2>1. Write(what, k) /\ lookups' = lookups /\ <<what, k>> \in Commands
    BY <1>6 DEF CallEdit, Commands
  <2> QED
    BY <1>1, <1>2, <1>3, <2>1, WriteTracks
<1> QED
  BY <1>4, <1>5, <1>6 DEF Calls

\* An awaiter resumes: what it had to do, it does.
LEMMA MicrotasksFollow ==
  ASSUME TypeOK, FollowOK, Microtasks, Followed'
  PROVE  \E f : Tracked(f)'
<1> USE DEF session, waiting, link, radio, wires, history
<1>1. /\ UNCHANGED <<lookups, frames, inbox, store, todo, whole, adrift, syncSeen>>
      /\ resync \in BOOLEAN /\ (resync => resync')
  BY DEF Microtasks, Retire, Added, Removed, TypeOK
<1>2. PICK e : Tracked(e)
  BY <1>1 DEF FollowOK, Followed
<1>3. PICK k \in Keys : Retire(k) \/ Added(k) \/ Removed(k)
  BY DEF Microtasks
<1>4. refresh \in [Keys -> {"none", "scheduled", "asked"}] /\ store \subseteq Keys
  BY DEF TypeOK
<1>5. CASE Retire(k)
  <2>1. /\ <<"retire", k>> \in ready /\ ready' = ready \ {<<"retire", k>>}
        /\ refresh' = [refresh EXCEPT ![k] = "none"] /\ contacts' = contacts
    BY <1>5 DEF Retire
  <2>2. \A j \in Keys : j # k => refresh'[j] = refresh[j]
    BY <1>4, <2>1
  <2>3. ASSUME NEW j \in store, Known(j) PROVE Known(j)'
    BY <1>1, <1>4, <2>1, <2>2, <2>3 DEF Known
  <2>4. ASSUME NEW j \in Keys \ store, Forgotten(j) PROVE Forgotten(j)'
    BY <1>1, <2>1, <2>4 DEF Forgotten
  <2> QED
    BY <1>1, <1>2, <2>3, <2>4, StayTracks
<1>6. CASE Added(k)
  <2>1. /\ <<"add", k>> \in ready /\ ready' = ready \ {<<"add", k>>} /\ resync'
        /\ contacts' = contacts \cup {k}
    BY <1>6 DEF Added
  <2>2. ASSUME NEW j \in Keys \ store, Forgotten(j) PROVE Forgotten(j)'
    BY <1>1, <2>1, <2>2 DEF Forgotten
  <2> QED
    BY <1>1, <1>2, <2>1, <2>2, StayTracks
<1>7. CASE Removed(k)
  <2>1. /\ <<"remove", k>> \in ready /\ ready' = ready \ {<<"remove", k>>} /\ refresh' = refresh
        /\ contacts' = contacts \ {k}
    BY <1>7 DEF Removed
  <2>2. ASSUME NEW j \in store, Known(j) PROVE Known(j)'
    BY <1>1, <2>1, <2>2 DEF Known
  <2>3. ASSUME NEW j \in Keys \ store, Forgotten(j) PROVE Forgotten(j)'
    BY <1>1, <2>1, <2>3 DEF Forgotten
  <2> QED
    BY <1>1, <1>2, <2>2, <2>3, StayTracks
<1> QED
  BY <1>3, <1>5, <1>6, <1>7

\* A frame that finds an awaiter yet to resume sets the list adrift; else what the list
\* was said to follow, it followed before, but for the start of a walk.
LEMMA ReceiveFollows ==
  ASSUME TypeOK, WholeOK, Owing, FollowOK, Receive, Followed'
  PROVE  \E f : Tracked(f)'
<1> USE DEF FollowOK, Followed
<1>1. CASE GotStart
  <2>1. \/ adrift = "no" /\ ready = {}
        \/ adrift' = "untilWalked" /\ lookups = <<>>
    BY <1>1 DEF GotStart, NoMicrotask
  <2> QED
    BY <1>1, <2>1, BeginTracks, StartTracks
<1>2. CASE GotBusy \/ GotUnawaited
  <2>1. ready = {} /\ adrift' = adrift /\ whole' = whole
    BY <1>2 DEF GotBusy, GotUnawaited, Drift, NoMicrotask
  <2>2. PICK e : Tracked(e)
    BY <2>1
  <2> QED
    BY <1>2, <2>1, <2>2, BusyTracks
<1>3. ASSUME NEW kept, GotEnd(kept) PROVE \E f : Tracked(f)'
  <2>1. whole /\ ready = {} /\ (adrift = "no" \/ adrift = "untilWalked")
    BY <1>3 DEF GotEnd, NoMicrotask
  <2>2. PICK e : Tracked(e)
    BY <2>1
  <2> QED
    BY <1>3, <2>1, <2>2, EndTracks
<1>4. ASSUME NEW k \in Keys, GotSolicited(k) \/ GotContact(k) \/ GotMissing(k)
      PROVE  \E f : Tracked(f)'
  <2>1. ready = {} /\ adrift' = adrift /\ whole' = whole
    BY <1>4 DEF GotSolicited, GotContact, GotMissing, Drift, NoMicrotask
  <2>2. PICK e : Tracked(e)
    BY <2>1
  <2> QED
    BY <1>4, <2>1, <2>2, SolicitedTracks, ContactTracks, MissingTracks
<1>5. ASSUME NEW k \in Keys, GotNewAdvert(k) \/ GotAdvert(k) \/ GotDeleted(k)
      PROVE  \E f : Tracked(f)'
  <2>1. ready = {} /\ adrift' = adrift /\ whole' = whole
    BY <1>5 DEF GotNewAdvert, GotAdvert, GotDeleted, Drift, NoMicrotask
  <2>2. PICK e : Tracked(e)
    BY <2>1
  <2> QED
    BY <1>5, <2>1, <2>2, PushTracks
<1>6. ASSUME NEW k \in Keys,
             GotAck("add", k, TRUE) \/ GotAck("add", k, FALSE) \/ GotAck("remove", k, TRUE)
      PROVE  \E f : Tracked(f)'
  <2>1. /\ ready = {} /\ adrift' = adrift /\ whole' = whole
        /\ GotAck("add", k, TRUE) => <<"add", k>> \in asked
        /\ GotAck("remove", k, TRUE) => <<"remove", k>> \in asked
    BY <1>6 DEF GotAck, NoMicrotask
  <2>2. PICK e : Tracked(e)
    BY <2>1
  <2> QED
    BY <1>6, <2>1, <2>2, AckTracks
<1> QED
  BY <1>1, <1>2, <1>3, <1>4, <1>5, <1>6 DEF Receive

\* What the radio does of its own accord.
LEMMA RadioGoesOnFollows ==
  ASSUME TypeOK, Owing, FollowOK, RadioGoesOn \/ Hears, Followed'
  PROVE  \E f : Tracked(f)'
<1> USE DEF session, waiting, link, radio, history
<1>1. UNCHANGED <<inbox, lookups, resync, refresh, ready, contacts, whole, syncSeen, adrift,
                  linkUp>>
  <2>1. CASE RadioGoesOn
    BY <2>1 DEF RadioGoesOn, RadioEnds, RadioStreams
  <2>2. CASE Hears
    BY <2>2 DEF Hears, RadioHears, RadioRefuses, RadioAutoAdds, RadioReplaces
  <2> QED
    BY <2>1, <2>2
<1>2. PICK e : Tracked(e)
  BY <1>1 DEF FollowOK, Followed
<1>3. linkUp /\ frames \in Seq(Frames) /\ todo \subseteq store /\ (walking \/ todo = {})
  BY <1>1 DEF Owing, Followed, TypeOK
<1>4. \A g \in Frames : Sends(<<g>>) => frames' = Append(frames, g)
  BY <1>3 DEF Sends
<1>5. ASSUME NEW k \in Keys, NEW g \in {<<"contact", k>>, <<"advert", k>>}, Sends(<<g>>),
             store' \subseteq store \cup {k}, store \subseteq store', todo \ {k} \subseteq todo'
      PROVE  \E f : Tracked(f)'
  <2>1. g \in Frames /\ g \in Cures(k) /\ \A l : g \notin Blots(l)
    BY <1>5, RadioFrames
  <2>2. frames' = Append(frames, g)
    BY <1>4, <1>5, <2>1
  <2>3. \A l \in store' : l \in todo' \/ g \in Cures(l) \/ (l \in store \ todo /\ g \notin Blots(l))
    BY <1>5, <2>1
  <2>4. \A l \in Keys \ store' : l \notin store
    BY <1>5
  <2> QED
    BY <1>1, <1>2, <2>1, <2>2, <2>3, <2>4, SendTracks
<1>6. ASSUME NEW g \in Frames, \A l : g \notin Blots(l), Sends(<<g>>), store' = store, todo' = todo
      PROVE  \E f : Tracked(f)'
  <2>1. frames' = Append(frames, g)
    BY <1>4, <1>6
  <2>2. \A l \in store' : l \in todo' \/ (l \in store \ todo /\ g \notin Blots(l))
    BY <1>6
  <2>3. \A l \in Keys \ store' : l \notin store
    BY <1>6
  <2> QED
    BY <1>1, <1>2, <1>6, <2>1, <2>2, <2>3, SendTracks
<1>7. CASE RadioEnds
  <2>1. Sends(<<<<"end", steady>>>>) /\ steady \in SUBSET Keys /\ store' = store /\ todo' = todo
    BY <1>7 DEF RadioEnds, TypeOK
  <2> QED
    BY <1>6, <2>1, WalkFrames
<1>8. ASSUME NEW k \in Keys, RadioStreams(k) PROVE \E f : Tracked(f)'
  <2>1. Sends(<<<<"contact", k>>>>) /\ store' = store /\ todo' = todo \ {k}
    BY <1>8 DEF RadioStreams
  <2> QED
    BY <1>5, <2>1
<1>9. ASSUME NEW k \in Keys, RadioHears(k) PROVE \E f : Tracked(f)'
  <2>1. Sends(<<<<"advert", k>>>>) /\ store' = store /\ todo' = todo
    BY <1>9 DEF RadioHears
  <2> QED
    BY <1>5, <2>1
<1>10. ASSUME NEW k \in Keys, RadioRefuses(k) PROVE \E f : Tracked(f)'
  <2>1. Sends(<<<<"newAdvert", k>>>>) /\ store' = store /\ todo' = todo
    BY <1>10 DEF RadioRefuses
  <2>2. <<"newAdvert", k>> \in Frames /\ \A l : <<"newAdvert", k>> \notin Blots(l)
    BY RadioFrames
  <2> QED
    BY <1>6, <2>1, <2>2
<1>11. ASSUME NEW k \in Keys, RadioAutoAdds(k) PROVE \E f : Tracked(f)'
  <2>1. Sends(<<<<"advert", k>>>>) /\ store' = store \cup {k} /\ todo \subseteq todo'
    BY <1>11 DEF RadioAutoAdds, Stores
  <2> QED
    BY <1>5, <2>1
<1>12. ASSUME NEW k \in Keys, NEW old \in Keys, RadioReplaces(old, k) PROVE \E f : Tracked(f)'
  BY <1>2, <1>3, <1>12, ReplaceTracks
<1> QED
  BY <1>7, <1>8, <1>9, <1>10, <1>11, <1>12 DEF RadioGoesOn, Hears

\* What the radio does about a command.
LEMMA RadioAnswersFollows ==
  ASSUME TypeOK, Owing, FollowOK, RadioAnswers, Followed'
  PROVE  \E f : Tracked(f)'
<1> USE DEF session, waiting, link, radio, history
<1>1. UNCHANGED <<lookups, resync, refresh, ready, contacts, whole, syncSeen, adrift, linkUp>>
  BY DEF RadioAnswers, RadioWalks, RadioLooksUp, RadioAdds, RadioRemoves
<1>2. PICK e : Tracked(e)
  BY <1>1 DEF FollowOK, Followed
<1>3. linkUp /\ frames \in Seq(Frames) /\ todo \subseteq store /\ (walking \/ todo = {})
  BY <1>1 DEF Owing, Followed, TypeOK
<1>4. \A g \in Frames : Sends(<<g>>) => frames' = Append(frames, g)
  BY <1>3 DEF Sends
<1>5. ASSUME NEW what \in {"walk", "resync"}, RadioWalks(what) PROVE \E f : Tracked(f)'
  <2>1. Takes(what, NoKey) /\ store' = store /\ \A l : <<what, NoKey>> \notin Answers(l)
    BY <1>5 DEF RadioWalks, Answers, Asks
  <2>2. CASE Sends(<<<<"start", NoKey>>>>) /\ todo' = store
    <3>1. <<"start", NoKey>> \in Frames /\ frames' = Append(frames, <<"start", NoKey>>)
      BY <1>4, <2>2, WalkFrames
    <3>2. /\ store' \subseteq todo' /\ \A l \in store' : l \in todo'
          /\ \A l \in Keys \ store' : l \notin store
      BY <2>1, <2>2
    <3> QED
      BY <1>1, <1>2, <2>1, <3>1, <3>2, AnswerTracks
  <2>3. CASE UNCHANGED todo /\ what = "resync" /\ Sends(<<<<"busy", NoKey>>>>)
    <3>1. <<"busy", NoKey>> \in Frames /\ frames' = Append(frames, <<"busy", NoKey>>)
      BY <1>4, <2>3, WalkFrames
    <3>2. /\ \A l \in store' : \/ l \in todo'
                               \/ l \in store \ todo /\ <<"busy", NoKey>> \notin Blots(l)
          /\ \A l \in Keys \ store' : l \notin store
      BY <2>1, <2>3, WalkFrames
    <3> QED
      BY <1>1, <1>2, <2>1, <3>1, <3>2, AnswerTracks
  <2>4. CASE UNCHANGED todo /\ what = "walk" /\ Sends(<<>>)
    <3>1. frames' = frames
      BY <1>3, <2>4 DEF Sends
    <3> QED
      BY <1>1, <1>2, <2>1, <2>4, <3>1, IgnoreTracks
  <2> QED
    BY <1>5, <2>2, <2>3, <2>4 DEF RadioWalks
<1>6. ASSUME NEW k \in Keys, RadioLooksUp(k) PROVE \E f : Tracked(f)'
  <2> DEFINE g == <<IF k \in store THEN "contact" ELSE "missing", k>>
  <2>1. Takes("lookup", k) /\ store' = store /\ todo' = todo /\ Sends(<<g>>)
    BY <1>6 DEF RadioLooksUp
  <2>2. /\ g \in Frames /\ g \in Answers(k)
        /\ \A l : <<"lookup", k>> \in Answers(l) => l = k
        /\ \A l \in store : g \notin Blots(l)
        /\ k \in store => g \in Asks(k)
    <3>1. CASE k \in store
      BY <3>1, RadioFrames DEF Answers, Asks
    <3>2. CASE k \notin store
      BY <3>2, RadioFrames DEF Answers, Asks
    <3> QED
      BY <3>1, <3>2
  <2> HIDE DEF g
  <2>3. frames' = Append(frames, g)
    BY <1>4, <2>1, <2>2
  <2>4. \A l : <<"lookup", k>> \in Answers(l) => g \in Answers(l)
    BY <2>2
  <2>5. \A l \in store' : \/ l \in todo' \/ g \in News(l)
                          \/ /\ l \in store \ todo /\ g \notin Blots(l)
                             /\ <<"lookup", k>> \in Answers(l) => g \in Asks(l)
    BY <2>1, <2>2
  <2>6. \A l \in Keys \ store' : l \notin store
    BY <2>1
  <2> QED
    BY <1>1, <1>2, <2>1, <2>2, <2>3, <2>4, <2>5, <2>6, AnswerTracks
<1>7. ASSUME NEW k \in Keys, RadioAdds(k) PROVE \E f : Tracked(f)'
  <2>1. Takes("add", k) /\ \A l : <<"add", k>> \notin Answers(l)
    BY <1>7 DEF RadioAdds, Answers, Asks
  <2>2. CASE Stores(k) /\ Sends(<<<<"added", k>>>>)
    <3>1. store' = store \cup {k} /\ todo \subseteq todo'
      BY <2>2 DEF Stores
    <3>2. /\ <<"added", k>> \in Frames /\ <<"added", k>> \in News(k)
          /\ \A l : <<"added", k>> \notin Blots(l)
      BY RadioFrames DEF News
    <3>3. frames' = Append(frames, <<"added", k>>)
      BY <1>4, <2>2, <3>2
    <3>4. \A l \in store' : \/ l \in todo' \/ <<"added", k>> \in News(l)
                            \/ l \in store \ todo /\ <<"added", k>> \notin Blots(l)
      BY <3>1, <3>2
    <3>5. \A l \in Keys \ store' : l \notin store
      BY <3>1
    <3> QED
      BY <1>1, <1>2, <2>1, <3>2, <3>3, <3>4, <3>5, AnswerTracks
  <2>3. CASE Sends(<<<<"refused", k>>>>) /\ UNCHANGED radio
    <3>1. store' = store /\ todo' = todo
      BY <2>3
    <3>2. <<"refused", k>> \in Frames /\ \A l : <<"refused", k>> \notin Blots(l)
      BY RadioFrames
    <3>3. frames' = Append(frames, <<"refused", k>>)
      BY <1>4, <2>3, <3>2
    <3>4. /\ \A l \in store' : \/ l \in todo'
                               \/ l \in store \ todo /\ <<"refused", k>> \notin Blots(l)
          /\ \A l \in Keys \ store' : l \notin store
      BY <3>1, <3>2
    <3> QED
      BY <1>1, <1>2, <2>1, <3>2, <3>3, <3>4, AnswerTracks
  <2> QED
    BY <1>7, <2>2, <2>3 DEF RadioAdds
<1>8. ASSUME NEW k \in Keys, RadioRemoves(k) PROVE \E f : Tracked(f)'
  <2>1. /\ Takes("remove", k) /\ \A l : <<"remove", k>> \notin Answers(l)
        /\ store' = store \ {k} /\ todo' = todo \ {k} /\ Sends(<<<<"removed", k>>>>)
    BY <1>8 DEF RadioRemoves, Drops, Answers, Asks
  <2>2. /\ <<"removed", k>> \in Frames /\ <<"removed", k>> \in Outs(k)
        /\ \A l : l # k => <<"removed", k>> \notin Blots(l)
    BY RadioFrames
  <2>3. frames' = Append(frames, <<"removed", k>>)
    BY <1>4, <2>1, <2>2
  <2>4. /\ \A l \in store' : l \in todo' \/ (l \in store \ todo /\ <<"removed", k>> \notin Blots(l))
        /\ \A l \in Keys \ store' : <<"removed", k>> \in Outs(l) \/ l \notin store
    BY <2>1, <2>2
  <2> QED
    BY <1>1, <1>2, <2>1, <2>2, <2>3, <2>4, AnswerTracks
<1> QED
  BY <1>5, <1>6, <1>7, <1>8 DEF RadioAnswers

\* Every step keeps track.
LEMMA FollowKept == TypeOK /\ WholeOK /\ Owing /\ FollowOK /\ [Next]_vars => FollowOK'
<1> SUFFICES ASSUME TypeOK, WholeOK, Owing, FollowOK, [Next]_vars, Followed'
             PROVE  \E f : Tracked(f)'
  BY DEF FollowOK
<1> USE DEF session, waiting, link, radio, wires, history
<1>1. CASE Timers
  BY <1>1, TimersFollow
<1>2. CASE Microtasks
  BY <1>2, MicrotasksFollow
<1>3. CASE Calls
  BY <1>3, CallsFollow
<1>4. CASE Receive
  BY <1>4, ReceiveFollows
<1>5. CASE RadioAnswers \/ RadioGoesOn \/ Hears
  BY <1>5, RadioAnswersFollows, RadioGoesOnFollows
<1>6. CASE Connect
  <2>1. adrift' = adrift /\ adrift = "yes"
    BY <1>6 DEF Connect, Owing
  <2> QED
    BY <2>1 DEF Followed
<1>7. CASE Disconnect \/ Stop
  BY <1>7 DEF Disconnect, Stop, Followed
<1>8. CASE Start \/ UNCHANGED vars
  <2>1. /\ UNCHANGED <<lookups, frames, inbox, store, todo, resync>>
        /\ UNCHANGED <<refresh, ready, contacts, whole, syncSeen, adrift>>
    BY <1>8 DEF Start, vars
  <2>2. PICK e : Tracked(e)
    BY <2>1 DEF FollowOK, Followed
  <2>3. \A k : Known(k)' = Known(k) /\ Forgotten(k)' = Forgotten(k)
    BY <2>1, SameKnown
  <2> QED
    BY <2>1, <2>2, <2>3, StayTracks
<1> QED
  BY <1>1, <1>2, <1>3, <1>4, <1>5, <1>6, <1>7, <1>8 DEF Next

\* After the handshake the list is what the radio holds.
LEMMA FollowedAtFirst == Init => Owing /\ FollowOK
<1> SUFFICES ASSUME Init PROVE Owing /\ FollowOK
  OBVIOUS
<1>1. /\ frames = <<>> /\ inbox = <<>> /\ lookups = <<>> /\ todo = {} /\ ready = {}
      /\ contacts = store /\ whole = FALSE /\ adrift = "no" /\ linkUp = TRUE
  BY DEF Init
<1>2. \A k : Cured(frames, k) /\ Cleared(frames, k) /\ Clean(frames, k)
  <2>1. Len(frames) = 0
    BY <1>1, EmptySeq
  <2> QED
    BY <2>1 DEF Cured, Cleared, Clean
<1>3. Owing
  BY <1>1, <1>2 DEF Owing
<1>4. \E e : Embeds(e, lookups, frames, inbox)
  <2>1. Len(lookups) = 0
    BY <1>1, EmptySeq
  <2>2. [i \in 1..Len(lookups) |-> 1] \in [1..Len(lookups) -> 1..Way(frames, inbox)]
    BY <2>1
  <2>3. \A i \in 1..Len(lookups) : FALSE
    BY <2>1
  <2>4. Embeds([i \in 1..Len(lookups) |-> 1], lookups, frames, inbox)
    BY <2>2, <2>3, Zenon DEF Embeds
  <2> QED
    BY <2>4
<1>5. PICK e : Embeds(e, lookups, frames, inbox)
  BY <1>4
<1>6. \A k \in store : Caught(k, e)
  BY <1>1, <1>2 DEF Caught, Known
<1>7. \A k \in Keys \ store : Gone(k)
  BY <1>1 DEF Gone, Forgotten
<1>8. Tracked(e)
  BY <1>5, <1>6, <1>7 DEF Tracked
<1> QED
  BY <1>3, <1>8 DEF FollowOK

\* Where nothing is on its way, all that keeps track of a contact is the list itself.
LEMMA FollowedMeansEqual == TypeOK /\ Owing /\ FollowOK => QuietMeansEqual
<1> SUFFICES ASSUME TypeOK, Owing, FollowOK, linkUp, adrift = "no", Quiet PROVE contacts = store
  BY DEF QuietMeansEqual
<1>1. PICK e : Tracked(e)
  BY DEF FollowOK, Followed
<1>2. /\ ready = {} /\ Len(frames) = 0 /\ Len(inbox) = 0 /\ todo = {} /\ ~resync
      /\ \A k \in Keys : refresh[k] = "none"
      /\ store \subseteq Keys /\ contacts \subseteq Keys
  BY EmptySeq DEF Quiet, NoMicrotask, Owing, TypeOK
<1>3. ASSUME NEW k \in store PROVE k \in contacts
  <2>1. Caught(k, e) /\ ~Rewalks
    BY <1>1, <1>2 DEF Tracked, Rewalks
  <2>2. ~Comes(k, e, lookups, frames, inbox)
    BY <1>2 DEF Comes, Way
  <2> QED
    BY <1>2, <2>1, <2>2 DEF Caught, Known
<1>4. ASSUME NEW k \in Keys \ store PROVE k \notin contacts
  <2>1. Gone(k) /\ ~Out(frames, k)
    BY <1>1, <1>2 DEF Tracked, Out
  <2> QED
    BY <1>2, <2>1 DEF Gone, Forgotten
<1> QED
  BY <1>2, <1>3, <1>4

-----------------------------------------------------------------------------
(* The theorems.                                                           *)

LEMMA Initially == Init => IInv
<1> SUFFICES ASSUME Init PROVE IInv
  OBVIOUS
<1>1. TypeOK
  <2>1. row \in [Keys -> {"none", "off", "on"}] /\ contacts \subseteq Keys
    BY DEF Init
  <2>2. shown \in [contacts : SUBSET Keys, discovered : [Keys -> {"none", "off", "on"}]]
    BY <2>1 DEF Init
  <2>3. budget \in 0..MaxEvents
    BY SyncAssumption DEF Init
  <2>4. /\ refresh \in [Keys -> {"none", "scheduled", "asked"}] /\ orphans \in [Keys -> Nat]
        /\ lookups \in Seq(Keys \X {"app", "refresh"})
        /\ inbox \in Seq(Commands) /\ frames \in Seq(Frames)
    BY DEF Init
  <2> QED
    BY <2>1, <2>2, <2>3, <2>4 DEF Init, TypeOK
<1>2. Fresh /\ ContactsAreOnRadio /\ WholeOK
  BY DEF Init, Fresh, ContactsAreOnRadio, WholeOK
<1>3. StreamOK
  <2>1. EndsAreTold(<<>>, syncSeen, FALSE)
    BY NothingToTell
  <2> QED
    BY <2>1 DEF Init, StreamOK
<1> QED
  BY <1>1, <1>2, <1>3 DEF IInv

\* Types, snapshots, flags and the walk on its way, whatever comes.
THEOREM Inductive == Spec => []IInv
<1>1. IInv /\ [Next]_vars => IInv'
  BY TypesKept, ViewsKept, WholeKept, StreamKept DEF IInv
<1> QED
  BY <1>1, Initially, PTL DEF Spec

\* The list, the pool and what the consumers were told of them agree: nothing the
\* emitters held back is forgotten, and every contact is flagged on-radio.
THEOREM ViewsStayInStep == Spec => []ViewsAgree
<1>1. IInv => ViewsAgree
  <2> SUFFICES ASSUME IInv, ~bulk PROVE shown = [contacts |-> contacts, discovered |-> row]
    BY DEF IInv, ViewsAgree, SnapshotsFresh
  <2>1. /\ shown \in [contacts : SUBSET Keys, discovered : [Keys -> {"none", "off", "on"}]]
        /\ shown.contacts = contacts /\ shown.discovered = row
    BY DEF IInv, Fresh, TypeOK
  <2> QED
    BY <2>1
<1> QED
  BY <1>1, Inductive, PTL

\* A walk received in full prunes no contact the radio held from its start to its
\* end, however pushes, lookups, edits, evictions and other walks fall in between.
THEOREM PruneIsSound == Spec => PrunedWereGone
<1> DEFINE Sound == \A kept \in SUBSET Keys :
                      whole /\ GotEnd(kept) => (contacts \ contacts') \cap kept = {}
<1>1. IInv /\ [Next]_vars => [Sound]_vars
  <2> SUFFICES ASSUME IInv, NEW kept \in SUBSET Keys, whole, GotEnd(kept),
                      NEW k \in kept, k \in contacts
               PROVE  k \in contacts'
    OBVIOUS
  <2>1. /\ frames \in Seq(Frames) /\ frames # <<>> /\ Head(frames) = <<"end", kept>>
        /\ contacts' = contacts \cap syncSeen
    BY DEF IInv, TypeOK, GotEnd, Got
  <2>2. 1 \in 1..Len(frames) /\ frames[1] = <<"end", kept>>
    BY <2>1, HeadTailProperties, LenProperties, EmptySeq
  <2>3. frames[1][1] = "end" /\ k \in frames[1][2]
    BY <2>2
  <2>4. EndsAreTold(frames, syncSeen, whole)
    BY DEF IInv, StreamOK
  <2>5. Told(frames, syncSeen, whole, k, 1)
    BY <2>2, <2>3, <2>4 DEF EndsAreTold
  <2>6. k \in syncSeen
    BY <2>5 DEF Told
  <2> QED
    BY <2>1, <2>6
<1> QED
  BY Inductive, <1>1, PTL DEF Spec, PrunedWereGone, Sound

\* When nothing is on its way, the contacts are those of the radio, whatever pushes,
\* lookups, edits, walks, evictions and re-syncs came in between, in whatever order:
\* unless an answer was missed, or an awaiter overtaken, since the last whole walk.
THEOREM QuietIsEqual == Spec => []QuietMeansEqual
<1>1. Init => Owing /\ FollowOK
  BY FollowedAtFirst
<1>2. IInv /\ Owing /\ FollowOK /\ [Next]_vars => (Owing /\ FollowOK)'
  BY OwingKept, FollowKept DEF IInv
<1>3. IInv /\ Owing /\ FollowOK => QuietMeansEqual
  BY FollowedMeansEqual DEF IInv
<1> QED
  BY <1>1, <1>2, <1>3, Inductive, PTL DEF Spec

================================================================================

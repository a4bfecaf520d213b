-------------------------- MODULE Transport_proofs --------------------------
(***************************************************************************)
(* Proofs about Transport for any score, with or without --loop, and any   *)
(* number of clicks: the variables keep their types, and no event from the *)
(* time cursor on is passed over, with the exceptions that NothingSkipped  *)
(* names.                                                                  *)
(***************************************************************************)
EXTENDS Transport, WellFoundedInduction, TLAPS

-----------------------------------------------------------------------------
\* The inductive invariant.  Exempt are the events of a list of two.
Exempt(e) == Len(Times[e.kind]) = 2
OwedFrom(t) == \A e \in owed : ~Exempt(e) => TimeOf(e) >= t

\* The clock is running only if _playing is set, and the play button comes back
\* only when the thread has ended.
ClockAndThread ==
    /\ running => playing
    /\ gui = "stopped" => thread = "none"

\* The clock shows a time of the log, and the event in hand moves an index
\* that is still in its list.
InRange ==
    /\ from + elapsed <= MaxTime
    /\ thread \in {"holding", "handled"} => HasNext(hand.kind)

\* Unless the cursor was moved: the event in hand is the one at its index.  It
\* is not owed once it is handled; until then nothing owed comes before it.
HandAtIndex ==
    ~disturbed =>
        /\ thread \in {"holding", "handled"} => hand.index = index[hand.kind]
        /\ thread = "handled" => hand \notin owed
        /\ thread = "holding" => OwedFrom(TimeOf(hand))

\* Unless the cursor was moved: nothing that is owed is past, except while a
\* fast forward is being stopped, and nothing is owed when the thread has ended
\* and the clock goes on.
OwedIsAhead ==
    ~disturbed =>
        /\ ~(ff /\ gui = "joining") => OwedFrom(from + elapsed)
        /\ thread = "none" /\ running => \A e \in owed : Exempt(e)

Inv == TypeOK /\ ClockAndThread /\ InRange /\ NothingSkipped /\ HandAtIndex /\ OwedIsAhead

-----------------------------------------------------------------------------
\* A set of numbers has a least one.
LEMMA LeastExists ==
  ASSUME NEW S \in SUBSET Nat, S # {}
  PROVE  \E i \in S : \A j \in S : i <= j
  <1> DEFINE less == {p \in Nat \X Nat : p[1] < p[2]}
  <1>1. OpToRel(<, Nat) = less
    BY DEF OpToRel
  <1>2. IsWellFoundedOn(less, Nat)
    BY <1>1, NatLessThanWellFounded
  <1>3. PICK i \in S : \A j \in S : <<j, i>> \notin less
    BY <1>2, WFMin
  <1>4. ASSUME NEW j \in S
        PROVE  i <= j
    <2>1. <<j, i>> \notin less /\ i \in Nat /\ j \in Nat
      BY <1>3
    <2> QED
      BY <2>1
  <1> QED
    BY <1>4

\* Every event is a record with a time of its list.
LEMMA EventFacts ==
  ASSUME NEW e \in Event
  PROVE  /\ e.kind \in Kind /\ e.index \in DOMAIN Times[e.kind]
         /\ e = [kind |-> e.kind, index |-> e.index]
         /\ Len(Times[e.kind]) \in Nat \ {0}
         /\ e.index \in 1 .. Len(Times[e.kind])
         /\ TimeOf(e) \in 0 .. MaxTime
         /\ e # NoEvent
  <1>1. PICK kind \in Kind : \E i \in DOMAIN Times[kind] : e = [kind |-> kind, index |-> i]
    BY DEF Event
  <1>2. PICK i \in DOMAIN Times[kind] : e = [kind |-> kind, index |-> i]
    BY <1>1
  <1>3. e.kind = kind /\ e.index = i
    BY <1>2
  <1>4. Times[kind] \in Seq(0 .. MaxTime)
    BY TimesAssumption
  <1>5. Len(Times[kind]) \in Nat /\ DOMAIN Times[kind] = 1 .. Len(Times[kind])
    BY <1>4
  <1>6. Times[kind][i] \in 0 .. MaxTime
    <2>1. i \in DOMAIN Times[kind]
      OBVIOUS
    <2>2. \A s \in Seq(0 .. MaxTime) : \A j \in DOMAIN s : s[j] \in 0 .. MaxTime
      BY TimeAssumption
    <2> QED
      BY <1>4, <2>1, <2>2
  <1>7. e # NoEvent
    BY <1>1, <1>3 DEF Kind, NoEvent
  <1> QED
    BY <1>2, <1>3, <1>5, <1>6, <1>7 DEF TimeOf

\* What CurrentIndex finds is in the list, and not after an event that is due
\* at t or later, unless the list has two events.
LEMMA CurrentIndexFinds ==
  ASSUME NEW kind \in Kind, NEW t \in Nat
  PROVE  /\ CurrentIndex(kind, t) \in IF Times[kind] = <<>> THEN {0} ELSE 1 .. Len(Times[kind])
         /\ \A i \in DOMAIN Times[kind] :
              Times[kind][i] >= t /\ Len(Times[kind]) # 2 => CurrentIndex(kind, t) <= i
  <1> DEFINE times == Times[kind]
             n == Len(times)
             found == {i \in 1 .. n - 2 : times[i + 1] >= t}
  <1>1. /\ times \in Seq(0 .. MaxTime) /\ n \in Nat
        /\ DOMAIN times = 1 .. n
        /\ \A i \in 1 .. n : times[i] \in Nat
        /\ \A i, j \in 1 .. n : i < j => times[i] <= times[j]
    BY TimesAssumption, TimeAssumption
  <1>2. CurrentIndex(kind, t) = IF found = {} THEN n ELSE CHOOSE i \in found : \A j \in found : i <= j
    BY DEF CurrentIndex
  <1>3. n = 0 <=> times = <<>>
    BY <1>1
  <1>4. found \in SUBSET Nat
    BY <1>1
  <1>5. ASSUME NEW i \in 1 .. n, times[i] >= t, n # 2, i < n
        PROVE  \E j \in found : j <= i
    <2>1. CASE i = 1
      <3>0. n \in Nat /\ n > 2
        <4> HIDE DEF n
        <4>1. n \in Nat /\ 1 < n /\ n # 2
          BY <1>1, <1>5, <2>1
        <4> QED
          BY <4>1
      <3>1. 1 \in 1 .. n - 2 /\ 1 \in 1 .. n /\ 2 \in 1 .. n /\ 1 + 1 = 2
        BY <3>0
      <3>2. times[1] \in Nat /\ times[2] \in Nat /\ times[1] <= times[2] /\ times[1] >= t
        BY <1>1, <1>5, <2>1, <3>1
      <3>3. times[1 + 1] >= t
        BY <3>1, <3>2
      <3>4. 1 \in found
        BY <3>1, <3>3
      <3>5. 1 <= i
        BY <2>1
      <3> HIDE DEF found
      <3> QED
        BY <3>4, <3>5
    <2>2. CASE i > 1
      <3>1. i - 1 \in 1 .. n - 2 /\ (i - 1) + 1 = i
        BY <1>1, <1>5, <2>2
      <3>2. i - 1 \in found
        BY <1>5, <3>1
      <3>3. i - 1 <= i
        BY <1>1
      <3> HIDE DEF found
      <3> QED
        BY <3>2, <3>3
    <2> QED
      BY <2>1, <2>2
  <1>6. CASE found = {}
    <2>1. CurrentIndex(kind, t) = n
      BY <1>2, <1>6
    <2> HIDE DEF found
    <2> QED
      BY <1>1, <1>3, <1>5, <1>6, <2>1
  <1>7. CASE found # {}
    <2>1. \E i \in found : \A j \in found : i <= j
      BY <1>4, <1>7, LeastExists
    <2>2. CurrentIndex(kind, t) \in found /\ \A j \in found : CurrentIndex(kind, t) <= j
      BY <1>2, <1>7, <2>1
    <2>3. CurrentIndex(kind, t) \in 1 .. n - 2
      BY <2>2
    <2> HIDE DEF found
    <2>4. ASSUME NEW i \in 1 .. n, times[i] >= t, n # 2
          PROVE  CurrentIndex(kind, t) <= i
      <3>1. CASE i < n
        <4>1. PICK j \in found : j <= i
          BY <1>5, <2>4, <3>1
        <4> QED
          BY <1>4, <2>2, <2>3, <4>1
      <3>2. CASE i = n
        BY <1>1, <2>3, <3>2
      <3> QED
        BY <3>1, <3>2, <1>1
    <2> QED
      BY <1>1, <1>3, <2>3, <2>4
  <1> QED
    BY <1>6, <1>7

\* The indices after the cursor has been set to t.
IndexAt(t) == [kind \in Kind |-> CurrentIndex(kind, t)]

\* They are in their types and pass over no event from t on.
LEMMA CursorSet ==
  ASSUME NEW t \in 0 .. MaxTime, index' = IndexAt(t)
  PROVE  /\ index' \in [Kind -> Nat]
         /\ \A kind \in Kind : index'[kind] \in IF Times[kind] = <<>> THEN {0} ELSE 1 .. Len(Times[kind])
         /\ \A e \in Event : TimeOf(e) >= t /\ ~Exempt(e) => index'[e.kind] <= e.index
  <1>1. t \in Nat
    BY TimeAssumption
  <1>2. \A kind \in Kind : index'[kind] \in IF Times[kind] = <<>> THEN {0} ELSE 1 .. Len(Times[kind])
    BY <1>1, CurrentIndexFinds DEF IndexAt
  <1>3. \A kind \in Kind : index'[kind] \in Nat
    BY <1>2
  <1>4. ASSUME NEW e \in Event, TimeOf(e) >= t, ~Exempt(e)
        PROVE  index'[e.kind] <= e.index
    BY <1>1, <1>4, EventFacts, CurrentIndexFinds DEF IndexAt, TimeOf, Exempt
  <1> QED
    BY <1>2, <1>3, <1>4 DEF IndexAt

\* They are at most one past the lists.
LEMMA IndicesInRange ==
  ASSUME NEW t \in 0 .. MaxTime, index' = IndexAt(t)
  PROVE  /\ index' \in [Kind -> Nat]
         /\ \A kind \in Kind : index'[kind] \in IF Times[kind] = <<>> THEN {0} ELSE 1 .. Len(Times[kind]) + 1
  <1>1. \A kind \in Kind : Len(Times[kind]) \in Nat
    <2> TAKE kind \in Kind
    <2>1. Times[kind] \in Seq(0 .. MaxTime)
      BY TimesAssumption
    <2> QED
      BY <2>1
  <1> QED
    BY <1>1, CursorSet

\* Setting the cursor passes over nothing that is owed from then on.
LEMMA NothingSkippedAt ==
  ASSUME NEW t \in 0 .. MaxTime, index' = IndexAt(t),
         disturbed' \/ (owed' \subseteq Event /\ OwedFrom(t)')
  PROVE  NothingSkipped'
  BY CursorSet DEF NothingSkipped, OwedFrom, Exempt

\* The events from t on.
LEMMA FromTheCursor ==
  ASSUME NEW t
  PROVE  EventsFrom(t) \subseteq Event /\ \A e \in EventsFrom(t) : TimeOf(e) >= t
  BY DEF EventsFrom

-----------------------------------------------------------------------------
\* At first the cursor is at --start, or at 0 and is to be moved there fast.
LEMMA InitInv == Init => Inv
  <1> SUFFICES ASSUME Init
               PROVE  Inv
    OBVIOUS
  <1>1. from \in 0 .. MaxTime /\ from \in Nat /\ elapsed = 0
    BY TimeAssumption DEF Init
  <1>2. /\ index \in [Kind -> Nat]
        /\ \A kind \in Kind : index[kind] \in IF Times[kind] = <<>> THEN {0} ELSE 1 .. Len(Times[kind])
    BY <1>1, CurrentIndexFinds DEF Init
  <1>3. \A kind \in Kind : index[kind] \in IF Times[kind] = <<>> THEN {0} ELSE 1 .. Len(Times[kind]) + 1
    <2> TAKE kind \in Kind
    <2>1. Times[kind] \in Seq(0 .. MaxTime)
      BY TimesAssumption
    <2>2. Len(Times[kind]) \in Nat
      BY <2>1
    <2> QED
      BY <1>2, <2>2
  <1>4. owed \subseteq Event /\ \A e \in owed : TimeOf(e) >= from
    BY FromTheCursor DEF Init
  <1>5. TypeOK
    <2>1. playing \in BOOLEAN /\ ff \in BOOLEAN /\ running \in BOOLEAN /\ disturbed \in BOOLEAN
      BY DEF Init
    <2>2. elapsed \in 0 .. MaxTime /\ last \in 0 .. MaxTime /\ clicks \in 0 .. MaxClicks
      BY TimeAssumption, ClickAssumption DEF Init
    <2>3. ffTo \in {StartTime, NoTime}
      BY DEF Init
    <2>4. /\ gui \in {"stopped", "playing", "joining"}
          /\ thread \in {"none", "starting", "looping", "holding", "handled"}
          /\ hand \in Event \cup {NoEvent}
          /\ hand = NoEvent <=> thread \notin {"holding", "handled"}
      BY DEF Init
    <2> QED
      BY <1>1, <1>2, <1>3, <1>4, <2>1, <2>2, <2>3, <2>4 DEF TypeOK
  <1>6. NothingSkipped
    <2> SUFFICES ASSUME NEW e \in owed, Len(Times[e.kind]) # 2
                 PROVE  index[e.kind] <= e.index
      BY DEF NothingSkipped
    <2>1. e \in Event /\ TimeOf(e) >= from
      BY <1>4
    <2>2. e.kind \in Kind /\ e.index \in DOMAIN Times[e.kind]
      BY <2>1, EventFacts
    <2>3. index[e.kind] = CurrentIndex(e.kind, from)
      BY <2>2 DEF Init
    <2> QED
      BY <1>1, <2>1, <2>2, <2>3, CurrentIndexFinds DEF TimeOf
  <1>7. ClockAndThread /\ HandAtIndex
    BY DEF Init, ClockAndThread, HandAtIndex
  <1>8. InRange
    BY <1>1, TimeAssumption DEF Init, InRange
  <1>9. OwedIsAhead
    BY <1>1, <1>4 DEF Init, OwedIsAhead, OwedFrom
  <1> QED
    BY <1>5, <1>6, <1>7, <1>8, <1>9 DEF Inv

\* Play and fast forward only start the thread.
LEMMA PlayClickedInv == ASSUME Inv, NEW fast \in BOOLEAN, PlayClicked(fast) PROVE Inv'
  <1>1. TypeOK'
    <2>1. clicks' \in 0 .. MaxClicks
      BY ClickAssumption DEF Inv, TypeOK, PlayClicked, Click
    <2>2. ff' \in BOOLEAN /\ hand = NoEvent
      BY DEF Inv, TypeOK, ClockAndThread, PlayClicked
    <2> QED
      BY <2>1, <2>2 DEF Inv, TypeOK, PlayClicked, cursorVars
  <1>2. ClockAndThread' /\ NothingSkipped'
    BY DEF Inv, ClockAndThread, NothingSkipped, PlayClicked, cursorVars
  <1>3. InRange' /\ HandAtIndex'
    BY DEF Inv, InRange, HandAtIndex, PlayClicked, cursorVars
  <1>4. OwedIsAhead'
    BY DEF Inv, OwedIsAhead, OwedFrom, PlayClicked, cursorVars
  <1> QED
    BY <1>1, <1>2, <1>3, <1>4 DEF Inv

\* The time of the stop is the time that was shown, or that of the last event
\* of a fast forward.
LEMMA StopClickedInv == ASSUME Inv, StopClicked PROVE Inv'
  <1>1. from' \in 0 .. MaxTime /\ (~ff => from' = from + elapsed)
    BY TimeAssumption DEF Inv, TypeOK, InRange, StopClicked, CurrentLogTime
  <1>2. from' + elapsed' = from'
    BY <1>1, TimeAssumption DEF StopClicked
  <1>3. TypeOK'
    <2>1. clicks' \in 0 .. MaxClicks
      BY ClickAssumption DEF Inv, TypeOK, StopClicked, Click
    <2>2. elapsed' \in 0 .. MaxTime
      BY TimeAssumption DEF StopClicked
    <2>3. playing' \in BOOLEAN /\ running' \in BOOLEAN
      BY DEF StopClicked
    <2> QED
      BY <1>1, <2>1, <2>2, <2>3 DEF Inv, TypeOK, StopClicked
  <1>4. ClockAndThread' /\ NothingSkipped'
    BY DEF Inv, ClockAndThread, NothingSkipped, StopClicked
  <1>5. InRange' /\ HandAtIndex'
    BY <1>1, <1>2, TimeAssumption DEF Inv, InRange, HandAtIndex, OwedFrom, HasNext, StopClicked
  <1>6. OwedIsAhead'
    BY <1>1, <1>2 DEF Inv, OwedIsAhead, OwedFrom, StopClicked
  <1> QED
    BY <1>3, <1>4, <1>5, <1>6 DEF Inv

\* After the stop the cursor is where the playback was; what is owed is still
\* ahead of it.
LEMMA StopJoinedInv == ASSUME Inv, StopJoined PROVE Inv'
  <1>1. /\ from \in 0 .. MaxTime /\ from \in Nat /\ elapsed \in Nat
        /\ from' = from /\ elapsed' = 0 /\ index' = IndexAt(from)
    BY TimeAssumption DEF Inv, TypeOK, StopJoined, IndexAt
  <1>2. disturbed' \/ OwedFrom(from)'
    <2> SUFFICES ASSUME ~disturbed', NEW e \in owed', ~Exempt(e)
                 PROVE  TimeOf(e) >= from
      BY <1>1 DEF OwedFrom
    <2>1. CASE e \in EventsFrom(from)
      BY <2>1, FromTheCursor
    <2>2. CASE e \notin EventsFrom(from)
      <3>1. ~ff /\ e \in owed /\ ~disturbed
        BY <2>2 DEF StopJoined
      <3>2. TimeOf(e) >= from + elapsed
        BY <3>1 DEF Inv, OwedIsAhead, OwedFrom
      <3>3. TimeOf(e) \in 0 .. MaxTime
        BY <3>1, EventFacts DEF Inv, TypeOK
      <3> QED
        BY <1>1, <3>2, <3>3, TimeAssumption
    <2> QED
      BY <2>1, <2>2
  <1>3. owed' \subseteq Event
    BY FromTheCursor DEF StopJoined, Inv, TypeOK
  <1>4. NothingSkipped'
    BY <1>1, <1>2, <1>3, NothingSkippedAt
  <1>5. TypeOK'
    <2>1. /\ index' \in [Kind -> Nat]
          /\ \A kind \in Kind : index'[kind] \in IF Times[kind] = <<>> THEN {0} ELSE 1 .. Len(Times[kind]) + 1
      BY <1>1, IndicesInRange
    <2> QED
      BY <1>1, <1>3, <2>1, TimeAssumption DEF Inv, TypeOK, StopJoined
  <1>6. ClockAndThread'
    BY DEF Inv, ClockAndThread, StopJoined
  <1>7. InRange' /\ HandAtIndex'
    BY <1>1 DEF InRange, HandAtIndex, StopJoined
  <1>8. OwedIsAhead'
    BY <1>1, <1>2 DEF Inv, OwedIsAhead, OwedFrom, ClockAndThread, TypeOK, StopJoined
  <1> QED
    BY <1>4, <1>5, <1>6, <1>7, <1>8 DEF Inv

\* A cursor that is set while no event is in hand owes what follows it.
LEMMA SetTimeCursorInv ==
  ASSUME Inv, NEW t \in 0 .. MaxTime, SetTimeCursor(t),
         TypeOK', UNCHANGED <<gui, hand, playing, ff, last>>,
         thread' = thread \/ (thread = "looping" /\ thread' = "starting")
  PROVE  Inv'
  <1>1. t \in Nat /\ from' = t /\ elapsed' = 0 /\ index' = IndexAt(t) /\ owed' = EventsFrom(t)
    BY TimeAssumption DEF SetTimeCursor, IndexAt
  <1>2. OwedFrom(t)'
    BY <1>1, FromTheCursor DEF OwedFrom
  <1>3. NothingSkipped'
    BY <1>1, <1>2, FromTheCursor, NothingSkippedAt
  <1>4. ClockAndThread'
    BY DEF Inv, ClockAndThread, SetTimeCursor
  <1>5. InRange'
    <2>1. ASSUME thread' \in {"holding", "handled"}
          PROVE  HasNext(hand.kind)'
      <3>1. hand \in Event
        BY <2>1 DEF Inv, TypeOK
      <3>2. hand.kind \in Kind /\ Len(Times[hand.kind]) \in Nat \ {0}
                               /\ DOMAIN Times[hand.kind] = 1 .. Len(Times[hand.kind])
        BY <3>1, EventFacts, TimesAssumption
      <3>3. Times[hand.kind] # <<>>
        BY <3>2
      <3>4. index'[hand.kind] \in 1 .. Len(Times[hand.kind])
        BY <1>1, <3>2, <3>3, CursorSet
      <3> QED
        BY <3>2, <3>4 DEF HasNext
    <2> QED
      BY <1>1, <2>1, TimeAssumption DEF InRange
  <1>6. HandAtIndex'
    BY DEF HandAtIndex, SetTimeCursor
  <1>7. OwedIsAhead'
    BY <1>1, <1>2 DEF Inv, OwedIsAhead, OwedFrom, ClockAndThread, SetTimeCursor, TypeOK
  <1> QED
    BY <1>3, <1>4, <1>5, <1>6, <1>7 DEF Inv

\* What SetTimeCursor makes keeps its types.
LEMMA SetTimeCursorType ==
  ASSUME TypeOK, NEW t \in 0 .. MaxTime, SetTimeCursor(t)
  PROVE  /\ index' \in [Kind -> Nat]
         /\ \A kind \in Kind : index'[kind] \in IF Times[kind] = <<>> THEN {0} ELSE 1 .. Len(Times[kind]) + 1
         /\ from' \in 0 .. MaxTime /\ elapsed' \in 0 .. MaxTime
         /\ running' \in BOOLEAN /\ disturbed' \in BOOLEAN
         /\ owed' \subseteq Event
  <1>1. index' = IndexAt(t)
    BY DEF SetTimeCursor, IndexAt
  <1>2. from' \in 0 .. MaxTime /\ elapsed' \in 0 .. MaxTime
    BY TimeAssumption DEF SetTimeCursor
  <1>3. running' \in BOOLEAN
    BY DEF SetTimeCursor, TypeOK
  <1>4. disturbed' \in BOOLEAN
    BY DEF SetTimeCursor
  <1>5. owed' \subseteq Event
    BY FromTheCursor DEF SetTimeCursor
  <1> QED
    BY <1>1, <1>2, <1>3, <1>4, <1>5, IndicesInRange

LEMMA SeekInv == ASSUME Inv, NEW t \in 0 .. MaxTime, Seek(t) PROVE Inv'
  <1>1. clicks' \in 0 .. MaxClicks
    BY ClickAssumption DEF Inv, TypeOK, Seek, Click
  <1>2. SetTimeCursor(t) /\ UNCHANGED <<gui, thread, hand, playing, ff, ffTo, last>>
    BY DEF Seek
  <1>3. TypeOK'
    BY <1>1, <1>2, SetTimeCursorType DEF Inv, TypeOK
  <1> QED
    BY <1>2, <1>3, SetTimeCursorInv

-----------------------------------------------------------------------------
\* The thread starts with the clock at the cursor.
LEMMA StartPlayingInv == ASSUME Inv, StartPlaying PROVE Inv'
  <1>1. /\ from \in 0 .. MaxTime /\ from \in Nat /\ elapsed \in Nat
        /\ from' = from /\ elapsed' = 0
    BY TimeAssumption DEF Inv, TypeOK, StartPlaying
  <1>2. elapsed' \in 0 .. MaxTime
    BY <1>1, TimeAssumption
  <1>3. TypeOK'
    <2>1. playing' \in BOOLEAN /\ running' \in BOOLEAN
      BY DEF StartPlaying
    <2> QED
      BY <1>2, <2>1 DEF Inv, TypeOK, StartPlaying
  <1>4. ClockAndThread' /\ NothingSkipped'
    BY DEF Inv, ClockAndThread, NothingSkipped, StartPlaying
  <1>5. InRange' /\ HandAtIndex'
    BY <1>1 DEF Inv, InRange, HandAtIndex, StartPlaying
  <1>6. OwedIsAhead'
    <2> SUFFICES ASSUME ~disturbed', ~(ff /\ gui = "joining")', NEW e \in owed', ~Exempt(e)
                 PROVE  TimeOf(e) >= from' + elapsed'
      BY DEF OwedIsAhead, OwedFrom, StartPlaying
    <2>1. TimeOf(e) >= from + elapsed
      BY DEF Inv, OwedIsAhead, OwedFrom, StartPlaying
    <2>2. TimeOf(e) \in 0 .. MaxTime
      BY EventFacts DEF Inv, TypeOK, StartPlaying
    <2> QED
      BY <1>1, <2>1, <2>2, TimeAssumption
  <1> QED
    BY <1>3, <1>4, <1>5, <1>6 DEF Inv

\* The next event of a list that has one.
LEMMA NextIsEvent ==
  ASSUME NEW kind \in Kind, HasNext(kind)
  PROVE  /\ NextEvent(kind) \in Event
         /\ NextEvent(kind).kind = kind /\ NextEvent(kind).index = index[kind]
  BY DEF HasNext, NextEvent, Event

\* The event that is taken is at its index, and nothing owed comes before it.
LEMMA TakeEventInv == ASSUME Inv, TakeEvent PROVE Inv'
  <1>1. PICK kind \in Kind : Nearest(kind) /\ hand' = NextEvent(kind)
    BY DEF TakeEvent
  <1>2. /\ hand' \in Event /\ hand'.kind = kind /\ hand'.index = index[kind]
        /\ HasNext(kind) /\ hand' # NoEvent
    BY <1>1, NextIsEvent, EventFacts DEF Nearest
  <1>3. TypeOK'
    BY <1>2 DEF Inv, TypeOK, TakeEvent, cursorVars
  <1>4. ClockAndThread' /\ NothingSkipped'
    BY DEF Inv, ClockAndThread, NothingSkipped, TakeEvent, cursorVars
  <1>5. InRange'
    BY <1>2 DEF Inv, InRange, HasNext, TakeEvent, cursorVars
  <1>6. ASSUME ~disturbed, NEW e \in owed, ~Exempt(e)
        PROVE  TimeOf(hand') <= TimeOf(e)
    <2>1. /\ e \in Event /\ e.kind \in Kind
          /\ DOMAIN Times[e.kind] = 1 .. Len(Times[e.kind]) /\ Len(Times[e.kind]) \in Nat \ {0}
          /\ e.index \in 1 .. Len(Times[e.kind])
          /\ TimeOf(e) \in Nat
      BY EventFacts, TimesAssumption, TimeAssumption DEF Inv, TypeOK
    <2>2. index[e.kind] <= e.index
      BY <1>6 DEF Inv, NothingSkipped, Exempt
    <2>3. Times[e.kind] # <<>>
      BY <2>1
    <2>4. index[e.kind] \in 1 .. Len(Times[e.kind]) + 1
      BY <2>1, <2>3 DEF Inv, TypeOK
    <2>5. index[e.kind] \in 1 .. Len(Times[e.kind])
      BY <2>1, <2>2, <2>4
    <2>6. HasNext(e.kind)
      BY <2>1, <2>5 DEF HasNext
    <2>7. TimeOf(NextEvent(e.kind)) <= TimeOf(e)
      <3>1. CASE index[e.kind] = e.index
        BY <2>1, <3>1 DEF TimeOf, NextEvent
      <3>2. CASE index[e.kind] < e.index
        BY <2>1, <2>5, <3>2, TimesAssumption DEF TimeOf, NextEvent
      <3> QED
        BY <2>1, <2>2, <2>5, <3>1, <3>2
    <2>8. TimeOf(NextEvent(e.kind)) \in Nat /\ TimeOf(NextEvent(kind)) \in Nat
      BY <1>2, <2>1, <2>6, NextIsEvent, EventFacts, TimeAssumption
    <2>9. TimeOf(NextEvent(kind)) <= TimeOf(NextEvent(e.kind))
      <3>1. CASE kind = e.kind
        BY <2>8, <3>1
      <3>2. CASE kind # e.kind
        <4>1. \/ kind = "chunk" /\ e.kind = "segment"
              \/ kind = "segment" /\ e.kind = "chunk"
          BY <2>1, <3>2 DEF Kind
        <4>2. kind = "chunk" <=> TimeOf(NextEvent("chunk")) < TimeOf(NextEvent("segment"))
          BY <1>1, <1>2, <2>6, <4>1 DEF Nearest
        <4>3. CASE kind = "chunk"
          BY <2>8, <4>1, <4>2, <4>3
        <4>4. CASE kind = "segment"
          <5>1. e.kind = "chunk" /\ ~(TimeOf(NextEvent("chunk")) < TimeOf(NextEvent("segment")))
            BY <4>1, <4>2, <4>4
          <5> QED
            BY <2>8, <4>4, <5>1
        <4> QED
          BY <4>1, <4>3, <4>4
      <3> QED
        BY <3>1, <3>2
    <2> QED
      BY <1>1, <2>1, <2>7, <2>8, <2>9
  <1>7. HandAtIndex'
    <2>1. ASSUME ~disturbed
          PROVE  OwedFrom(TimeOf(hand))'
      <3> SUFFICES ASSUME NEW e \in owed, ~Exempt(e)
                   PROVE  TimeOf(e) >= TimeOf(hand')
        BY DEF OwedFrom, TakeEvent, cursorVars, TimeOf
      <3>1. TimeOf(hand') <= TimeOf(e)
        BY <1>6, <2>1
      <3>2. TimeOf(hand') \in Nat /\ TimeOf(e) \in Nat
        BY <1>2, EventFacts, TimeAssumption DEF Inv, TypeOK
      <3> QED
        BY <3>1, <3>2
    <2> QED
      BY <1>2, <2>1 DEF HandAtIndex, TakeEvent, cursorVars
  <1>8. OwedIsAhead'
    BY DEF Inv, OwedIsAhead, OwedFrom, TakeEvent, cursorVars
  <1> QED
    BY <1>3, <1>4, <1>5, <1>7, <1>8 DEF Inv

\* With nothing left to play nothing is owed; with --loop the cursor goes back.
LEMMA LeaveLoopInv == ASSUME Inv, LeaveLoop PROVE Inv'
  <1>1. CASE Loop
    <2>1. 0 \in 0 .. MaxTime
      BY TimeAssumption
    <2>2. /\ SetTimeCursor(0) /\ thread = "looping" /\ thread' = "starting"
          /\ UNCHANGED <<gui, hand, playing, ff, ffTo, last, clicks>>
      BY <1>1 DEF LeaveLoop
    <2>3. TypeOK'
      BY <2>1, <2>2, SetTimeCursorType DEF Inv, TypeOK
    <2> QED
      BY <2>1, <2>2, <2>3, SetTimeCursorInv
  <1>2. CASE ~Loop
    <2>1. /\ thread = "looping" /\ thread' = "none" /\ MustLeave
          /\ UNCHANGED <<gui, hand, playing, ff, ffTo, last, clicks, cursorVars>>
      BY <1>2 DEF LeaveLoop
    <2>2. TypeOK'
      BY <2>1 DEF Inv, TypeOK, cursorVars
    <2>3. ClockAndThread' /\ NothingSkipped'
      BY <2>1 DEF Inv, ClockAndThread, NothingSkipped, cursorVars
    <2>4. InRange' /\ HandAtIndex'
      BY <2>1 DEF Inv, InRange, HandAtIndex, cursorVars
    <2>5. ASSUME ~disturbed, running, NEW e \in owed
          PROVE  Exempt(e)
      <3> SUFFICES ASSUME ~Exempt(e)
                   PROVE  FALSE
        OBVIOUS
      <3>1. /\ e.kind \in Kind /\ Len(Times[e.kind]) \in Nat \ {0}
            /\ DOMAIN Times[e.kind] = 1 .. Len(Times[e.kind])
            /\ e.index \in 1 .. Len(Times[e.kind])
        BY EventFacts, TimesAssumption DEF Inv, TypeOK
      <3>2. index[e.kind] <= e.index
        BY <2>5 DEF Inv, NothingSkipped, Exempt
      <3>3. index[e.kind] \in 1 .. Len(Times[e.kind]) + 1
        BY <3>1 DEF Inv, TypeOK
      <3>4. HasNext(e.kind)
        BY <3>1, <3>2, <3>3 DEF HasNext
      <3>5. playing
        BY <2>5 DEF Inv, ClockAndThread
      <3> QED
        BY <2>1, <3>1, <3>4, <3>5 DEF MustLeave
    <2>6. OwedIsAhead'
      BY <2>1, <2>5 DEF Inv, OwedIsAhead, OwedFrom, cursorVars
    <2> QED
      BY <2>2, <2>3, <2>4, <2>6 DEF Inv
  <1> QED
    BY <1>1, <1>2, TimeAssumption

\* Time passes until the event in hand is due, hence passes nothing that is owed.
LEMMA TickInv == ASSUME Inv, Tick PROVE Inv'
  <1>1. /\ from \in Nat /\ elapsed \in Nat /\ MaxTime \in Nat /\ from \in 0 .. MaxTime
        /\ from + elapsed < MaxTime /\ from' = from /\ elapsed' = elapsed + 1
    BY TimeAssumption DEF Inv, TypeOK, Tick
  <1>2. elapsed' \in 0 .. MaxTime /\ from' + elapsed' <= MaxTime
    BY <1>1
  <1>3. TypeOK'
    BY <1>2 DEF Inv, TypeOK, Tick
  <1>4. ClockAndThread' /\ NothingSkipped'
    BY DEF Inv, ClockAndThread, NothingSkipped, Tick
  <1>5. InRange'
    BY <1>2 DEF Inv, InRange, HasNext, Tick
  <1>6. HandAtIndex'
    BY DEF Inv, HandAtIndex, OwedFrom, Tick
  <1>7. ASSUME ~disturbed, NEW e \in owed, ~Exempt(e)
        PROVE  TimeOf(e) >= from' + elapsed'
    <2>1. TimeOf(e) \in Nat
      BY EventFacts, TimeAssumption DEF Inv, TypeOK
    <2>2. thread = "holding" /\ from + elapsed < TimeOf(hand)
      BY <1>7 DEF Tick, Inv, OwedIsAhead
    <2>3. TimeOf(e) >= TimeOf(hand)
      BY <1>7, <2>2 DEF Inv, HandAtIndex, OwedFrom
    <2>4. TimeOf(hand) \in Nat
      BY <2>2, EventFacts, TimeAssumption DEF Inv, TypeOK
    <2> QED
      BY <1>1, <2>1, <2>2, <2>3, <2>4
  <1>8. OwedIsAhead'
    BY <1>7 DEF Inv, OwedIsAhead, OwedFrom, Tick
  <1> QED
    BY <1>3, <1>4, <1>5, <1>6, <1>8 DEF Inv

\* The event in hand is owed no more; at the end of a fast forward the cursor
\* is moved while it is in hand.
LEMMA HandleEventInv == ASSUME Inv, HandleEvent PROVE Inv'
  <1>1. hand \in Event /\ hand # NoEvent /\ HasNext(hand.kind) /\ TimeOf(hand) \in 0 .. MaxTime
    BY EventFacts DEF Inv, TypeOK, InRange, HandleEvent
  <1>2. /\ thread = "holding" /\ thread' = "handled" /\ last' = TimeOf(hand)
        /\ UNCHANGED <<gui, hand, playing, clicks>>
    BY DEF HandleEvent
  <1>3. CASE FfEnds
    <2>1. /\ ff' = FALSE /\ ffTo' = NoTime
          /\ from' = from /\ elapsed' = 0 /\ running' = (running \/ playing)
          /\ index' = IndexAt(from)
          /\ owed' = EventsFrom(from) \ {hand}
          /\ disturbed' = TRUE
      BY <1>3 DEF HandleEvent, IndexAt
    <2>2. from \in 0 .. MaxTime /\ elapsed' \in 0 .. MaxTime /\ from' + elapsed' <= MaxTime
      BY <2>1, TimeAssumption DEF Inv, TypeOK
    <2>3. /\ index' \in [Kind -> Nat]
          /\ \A kind \in Kind : index'[kind] \in IF Times[kind] = <<>> THEN {0} ELSE 1 .. Len(Times[kind]) + 1
      BY <2>1, <2>2, IndicesInRange
    <2>4. owed' \subseteq Event
      BY <2>1, FromTheCursor
    <2>5. running' \in BOOLEAN
      BY <2>1 DEF Inv, TypeOK
    <2>6. TypeOK'
      BY <1>1, <1>2, <2>1, <2>2, <2>3, <2>4, <2>5 DEF Inv, TypeOK
    <2>7. ClockAndThread' /\ NothingSkipped' /\ HandAtIndex' /\ OwedIsAhead'
      BY <1>2, <2>1 DEF Inv, ClockAndThread, NothingSkipped, HandAtIndex, OwedIsAhead
    <2>8. HasNext(hand.kind)'
      <3>1. hand.kind \in Kind /\ Len(Times[hand.kind]) \in Nat \ {0}
                             /\ DOMAIN Times[hand.kind] = 1 .. Len(Times[hand.kind])
        BY <1>1, EventFacts, TimesAssumption
      <3>2. Times[hand.kind] # <<>>
        BY <3>1
      <3>3. index'[hand.kind] \in 1 .. Len(Times[hand.kind])
        BY <2>1, <2>2, <3>1, <3>2, CursorSet
      <3> QED
        BY <1>2, <3>1, <3>3 DEF HasNext
    <2> QED
      BY <2>2, <2>6, <2>7, <2>8 DEF Inv, InRange
  <1>4. CASE ~FfEnds
    <2>1. owed' = owed \ {hand} /\ UNCHANGED <<index, from, elapsed, running, disturbed, ff, ffTo>>
      BY <1>4 DEF HandleEvent
    <2>2. TypeOK'
      BY <1>1, <1>2, <2>1 DEF Inv, TypeOK
    <2>3. ClockAndThread' /\ NothingSkipped'
      BY <1>2, <2>1 DEF Inv, ClockAndThread, NothingSkipped
    <2>4. InRange' /\ HandAtIndex'
      BY <1>2, <2>1 DEF Inv, InRange, HasNext, HandAtIndex
    <2>5. OwedIsAhead'
      BY <1>2, <2>1 DEF Inv, OwedIsAhead, OwedFrom
    <2> QED
      BY <2>2, <2>3, <2>4, <2>5 DEF Inv
  <1> QED
    BY <1>3, <1>4

\* The index moves on, past the event that has been handled and nothing else.
LEMMA AdvanceInv == ASSUME Inv, Advance PROVE Inv'
  <1>1. /\ hand \in Event /\ hand.kind \in Kind /\ HasNext(hand.kind)
        /\ hand = [kind |-> hand.kind, index |-> hand.index]
        /\ Len(Times[hand.kind]) \in Nat \ {0}
        /\ DOMAIN Times[hand.kind] = 1 .. Len(Times[hand.kind])
        /\ hand.index \in Nat
    BY EventFacts, TimesAssumption DEF Inv, TypeOK, InRange, Advance
  <1>2. index' = [index EXCEPT ![hand.kind] = @ + 1] /\ index \in [Kind -> Nat]
    BY DEF Advance, Inv, TypeOK
  <1>3. index[hand.kind] \in 1 .. Len(Times[hand.kind]) /\ Times[hand.kind] # <<>>
    BY <1>1 DEF HasNext
  <1>4. index'[hand.kind] = index[hand.kind] + 1
        /\ \A kind \in Kind \ {hand.kind} : index'[kind] = index[kind]
    BY <1>1, <1>2
  <1>5. index'[hand.kind] \in 1 .. Len(Times[hand.kind]) + 1 /\ index' \in [Kind -> Nat]
    BY <1>1, <1>2, <1>3, <1>4
  <1>6. ASSUME NEW kind \in Kind
        PROVE  index'[kind] \in IF Times[kind] = <<>> THEN {0} ELSE 1 .. Len(Times[kind]) + 1
    <2>1. CASE kind = hand.kind
      BY <1>3, <1>5, <2>1
    <2>2. CASE kind # hand.kind
      BY <1>4, <2>2 DEF Inv, TypeOK
    <2> QED
      BY <2>1, <2>2
  <1>7. TypeOK'
    BY <1>5, <1>6 DEF Inv, TypeOK, Advance
  <1>8. ClockAndThread' /\ InRange' /\ HandAtIndex'
    BY DEF Inv, ClockAndThread, InRange, HandAtIndex, Advance
  <1>9. OwedIsAhead'
    BY DEF Inv, OwedIsAhead, OwedFrom, Advance
  <1>10. NothingSkipped'
    <2> SUFFICES ASSUME ~disturbed, NEW e \in owed, Len(Times[e.kind]) # 2
                 PROVE  index'[e.kind] <= e.index
      BY DEF NothingSkipped, Advance
    <2>1. /\ e \in Event /\ e.kind \in Kind /\ e.index \in Nat
          /\ e = [kind |-> e.kind, index |-> e.index]
      BY EventFacts, TimesAssumption DEF Inv, TypeOK
    <2>2. index[e.kind] <= e.index
      BY DEF Inv, NothingSkipped
    <2>3. CASE e.kind # hand.kind
      BY <1>4, <2>1, <2>2, <2>3
    <2>4. CASE e.kind = hand.kind
      <3>1. hand.index = index[hand.kind] /\ hand \notin owed
        BY DEF Inv, HandAtIndex, Advance
      <3>2. e.index # hand.index
        BY <1>1, <2>1, <2>4, <3>1
      <3> QED
        BY <1>1, <1>3, <1>4, <2>1, <2>2, <2>4, <3>1, <3>2
    <2> QED
      BY <2>3, <2>4
  <1> QED
    BY <1>7, <1>8, <1>9, <1>10 DEF Inv

-----------------------------------------------------------------------------
\* Every step keeps the invariant.
LEMMA NextInv == Inv /\ [Next]_vars => Inv'
  <1> SUFFICES ASSUME Inv, [Next]_vars
               PROVE  Inv'
    OBVIOUS
  <1>1. CASE \E fast \in BOOLEAN : PlayClicked(fast)
    BY <1>1, PlayClickedInv
  <1>2. CASE StopClicked
    BY <1>2, StopClickedInv
  <1>3. CASE StopJoined
    BY <1>3, StopJoinedInv
  <1>4. CASE \E t \in 0 .. MaxTime : Seek(t)
    BY <1>4, SeekInv
  <1>5. CASE Tick
    BY <1>5, TickInv
  <1>6. CASE StartPlaying
    BY <1>6, StartPlayingInv
  <1>7. CASE TakeEvent
    BY <1>7, TakeEventInv
  <1>8. CASE LeaveLoop
    BY <1>8, LeaveLoopInv
  <1>9. CASE HandleEvent
    BY <1>9, HandleEventInv
  <1>10. CASE Advance
    BY <1>10, AdvanceInv
  <1>11. CASE UNCHANGED vars
    <2>1. TypeOK' /\ ClockAndThread'
      BY <1>11 DEF vars, Inv, TypeOK, ClockAndThread
    <2>2. InRange' /\ NothingSkipped'
      BY <1>11 DEF vars, Inv, InRange, HasNext, NothingSkipped
    <2>3. HandAtIndex' /\ OwedIsAhead'
      BY <1>11 DEF vars, Inv, HandAtIndex, OwedIsAhead, OwedFrom
    <2> QED
      BY <2>1, <2>2, <2>3 DEF Inv
  <1> QED
    BY <1>1, <1>2, <1>3, <1>4, <1>5, <1>6, <1>7, <1>8, <1>9, <1>10, <1>11
    DEF Next, PlaybackThread

\* The invariant holds in every reachable state.
THEOREM Invariance == Spec => []Inv
  BY InitInv, NextInv, PTL DEF Spec

\* The variables keep their types: in particular current_chunk_index and
\* current_segment_index are at most one past their lists, through every
\* interleaving of clicks and playback.
THEOREM TypeCorrect == Spec => []TypeOK
  <1>1. Inv => TypeOK
    BY DEF Inv
  <1> QED
    BY <1>1, Invariance, PTL

\* No event from the time cursor on is passed over, through stops, replays,
\* fast forward and seeks, unless the cursor was moved while an event was in
\* hand or the playback had ended, or the list has exactly two events.
THEOREM NothingIsSkipped == Spec => []NothingSkipped
  <1>1. Inv => NothingSkipped
    BY DEF Inv
  <1> QED
    BY <1>1, Invariance, PTL
=============================================================================

----------------------------- MODULE Transport ------------------------------
(***************************************************************************)
(* Play, fast forward, stop and seek: the buttons and the timeline of the  *)
(* GUI (gui.py) and the playback thread they start, stop and move          *)
(* (orchestra.py).  The two threads share the attributes of the Orchestra  *)
(* without a lock.                                                         *)
(*                                                                         *)
(* An event is a chunk or a segment, of which only the time in the log     *)
(* matters here.  The playback is in time: no time passes between an event *)
(* that is due and the next one.                                           *)
(***************************************************************************)
EXTENDS Naturals, Sequences

CONSTANTS
    Times,      \* the times of the chunks and the onsets of the segments
    StartTime,  \* --start
    Loop,       \* --loop
    MaxTime,    \* bound of the log time
    MaxClicks   \* bound of the clicks in the GUI

Kind == {"chunk", "segment"}
NoTime == MaxTime + 1
NoEvent == [kind |-> "none"]

ASSUME TimesAssumption ==
    /\ Times \in [Kind -> Seq(0 .. MaxTime)]
    /\ \A kind \in Kind : \A i, j \in DOMAIN Times[kind] : i < j => Times[kind][i] <= Times[kind][j]
    /\ Times["chunk"] # <<>>
ASSUME TimeAssumption == MaxTime \in Nat /\ StartTime \in 0 .. MaxTime /\ Loop \in BOOLEAN
ASSUME ClickAssumption == MaxClicks \in Nat

VARIABLES
    gui,        \* _state, and "joining" while the stop button waits for the thread
    thread,     \* where the playback thread is
    hand,       \* the event the playback thread has in hand
    index,      \* current_chunk_index and current_segment_index, from 1
    playing,    \* _playing
    ff,         \* fast_forwarding
    ffTo,       \* _ff_to_time
    from,       \* log_time_played_from
    elapsed,    \* stopwatch.get_elapsed_time()
    running,    \* stopwatch.running()
    last,       \* _log_time_for_last_handled_event
    clicks,     \* how many clicks there were
    owed,       \* history: the events from the time cursor on not played yet
    disturbed   \* history: the cursor was moved while an event was in hand, or
                \* while the clock runs on after the end of the playback

vars == <<gui, thread, hand, index, playing, ff, ffTo, from, elapsed, running, last, clicks,
          owed, disturbed>>
cursorVars == <<index, from, elapsed, running, owed, disturbed>>

Event == UNION {{[kind |-> kind, index |-> i] : i \in DOMAIN Times[kind]} : kind \in Kind}
TimeOf(e) == Times[e.kind][e.index]
EventsFrom(t) == {e \in Event : TimeOf(e) >= t}

\* Fault: the first event from t on is taken for the last before it.
CurrentIndexLate(kind, t) ==
    LET found == {i \in DOMAIN Times[kind] : Times[kind][i] > t}
    IN IF found = {} THEN Len(Times[kind])
       ELSE CHOOSE i \in found : \A j \in found : i <= j

\* Fault: one more than the last event.
CurrentIndexPastEnd(kind, t) ==
    1 + Len(SelectSeq(Times[kind], LAMBDA u : u < t)) + (IF t > 0 THEN 1 ELSE 0)

\* _get_current_chunk_index, _get_current_segment_index: the last event before
\* t.  The last event of all but one is not looked at.
CurrentIndex(kind, t) ==
    LET times == Times[kind]
        found == {i \in 1 .. Len(times) - 2 : times[i + 1] >= t}
    IN IF found = {} THEN Len(times)
       ELSE CHOOSE i \in found : \A j \in found : i <= j

\* set_time_cursor
SetTimeCursor(t) ==
    /\ from' = t
    /\ elapsed' = 0
    /\ running' = (running \/ playing)
    /\ index' = [kind \in Kind |-> CurrentIndex(kind, t)]
    /\ owed' = EventsFrom(t)
    /\ disturbed' = (thread \in {"holding", "handled"} \/ (thread = "none" /\ playing))

\* get_current_log_time
CurrentLogTime == IF ff THEN last ELSE from + elapsed

Init ==
    /\ gui = "stopped" /\ thread = "none" /\ hand = NoEvent
    /\ playing = FALSE /\ ff = FALSE
    /\ \/ ffTo = NoTime /\ from = StartTime
       \/ ffTo = StartTime /\ from = 0
    /\ index = [kind \in Kind |-> CurrentIndex(kind, from)]
    /\ elapsed = 0 /\ running = FALSE
    /\ last = 0
    /\ clicks = 0
    /\ owed = EventsFrom(from) /\ disturbed = FALSE

-----------------------------------------------------------------------------
Click == clicks < MaxClicks /\ clicks' = clicks + 1

\* _play_button_clicked, _ff_button_clicked
PlayClicked(fast) ==
    /\ Click
    /\ gui = "stopped"
    /\ gui' = "playing"
    /\ ff' = fast
    /\ thread' = "starting"
    /\ UNCHANGED <<hand, playing, ffTo, last, cursorVars>>

\* _stop_button_clicked calls stop and waits for the thread to end.
StopClicked ==
    /\ Click
    /\ gui = "playing"
    /\ gui' = "joining"
    /\ playing' = FALSE
    /\ from' = CurrentLogTime
    /\ elapsed' = 0 /\ running' = FALSE
    /\ UNCHANGED <<thread, hand, index, ff, ffTo, last, owed, disturbed>>

\* It then sets the cursor to the time of the stop.  What has not been played
\* is still owed, except that fast forward stops at the last event handled,
\* even if the cursor has been moved since.  If the thread had not begun when it
\* was told to stop, it has played to the end and the clock runs on.
StopJoined ==
    /\ gui = "joining"
    /\ thread = "none"
    /\ gui' = "stopped"
    /\ from' = from /\ elapsed' = 0 /\ running' = (running \/ playing)
    /\ index' = [kind \in Kind |-> CurrentIndex(kind, from)]
    /\ owed' = EventsFrom(from) \cup (IF ff THEN {} ELSE owed)
    /\ disturbed' = (playing \/ (disturbed /\ ~ff))
    /\ UNCHANGED <<thread, hand, playing, ff, ffTo, last, clicks>>

\* A click into the timeline, _set_time_cursor of the GUI
Seek(t) ==
    /\ Click
    /\ gui # "joining"
    /\ SetTimeCursor(t)
    /\ UNCHANGED <<gui, thread, hand, playing, ff, ffTo, last>>

-----------------------------------------------------------------------------
\* _play_until_end begins.
StartPlaying ==
    /\ thread = "starting"
    /\ thread' = "looping"
    /\ playing' = TRUE
    /\ elapsed' = 0 /\ running' = TRUE
    /\ UNCHANGED <<gui, hand, index, ff, ffTo, from, last, clicks, owed, disturbed>>

NextEvent(kind) == [kind |-> kind, index |-> index[kind]]
HasNext(kind) == index[kind] \in DOMAIN Times[kind]

\* _choose_nearest_chunk_or_segment
Nearest(kind) ==
    /\ HasNext(kind)
    /\ HasNext("chunk") /\ HasNext("segment") =>
         (kind = "chunk" <=> TimeOf(NextEvent("chunk")) < TimeOf(NextEvent("segment")))

TakeEvent ==
    /\ thread = "looping"
    /\ playing
    /\ \E kind \in Kind : Nearest(kind) /\ hand' = NextEvent(kind)
    /\ thread' = "holding"
    /\ UNCHANGED <<gui, playing, ff, ffTo, last, clicks, cursorVars>>

\* Fault: at the end the thread waits for more events.
MustLeaveWhenStopped == ~playing

\* The loop is left when it is stopped or there is nothing left to play.
MustLeave == ~playing \/ \A kind \in Kind : ~HasNext(kind)

LeaveLoop ==
    /\ thread = "looping"
    /\ MustLeave
    /\ IF Loop
       THEN thread' = "starting" /\ SetTimeCursor(0)
       ELSE thread' = "none" /\ UNCHANGED cursorVars
    /\ UNCHANGED <<gui, hand, playing, ff, ffTo, last, clicks>>

\* Time passes while the thread sleeps, unless an undisturbed event is due, and
\* after the thread has ended by itself.
Tick ==
    /\ ~ff /\ running
    /\ \/ thread = "none"
       \/ thread = "holding" /\ (disturbed \/ from + elapsed < TimeOf(hand))
    /\ from + elapsed < MaxTime
    /\ elapsed' = elapsed + 1
    /\ UNCHANGED <<gui, thread, hand, index, playing, ff, ffTo, from, running, last, clicks,
                   owed, disturbed>>

\* _stop_ff_if_necessary
FfEnds == ff /\ last >= ffTo

\* handle_chunk, handle_segment: the thread has slept until the event is due
\* (an interrupted playback does not wake it), or fast forwards.
HandleEvent ==
    /\ thread = "holding"
    /\ ff \/ disturbed \/ ~running \/ from + elapsed >= TimeOf(hand)
    /\ thread' = "handled"
    /\ last' = TimeOf(hand)
    /\ IF FfEnds
       THEN /\ ff' = FALSE /\ ffTo' = NoTime
            /\ from' = from /\ elapsed' = 0 /\ running' = (running \/ playing)
            /\ index' = [kind \in Kind |-> CurrentIndex(kind, from)]
            /\ owed' = EventsFrom(from) \ {hand}
            /\ disturbed' = TRUE
       ELSE /\ owed' = owed \ {hand}
            /\ UNCHANGED <<index, from, elapsed, running, disturbed, ff, ffTo>>
    /\ UNCHANGED <<gui, hand, playing, clicks>>

\* _handle_event moves the index on, wherever it is by now.
Advance ==
    /\ thread = "handled"
    /\ thread' = "looping"
    /\ hand' = NoEvent
    /\ index' = [index EXCEPT ![hand.kind] = @ + 1]
    /\ UNCHANGED <<gui, playing, ff, ffTo, from, elapsed, running, last, clicks, owed, disturbed>>

PlaybackThread == StartPlaying \/ TakeEvent \/ LeaveLoop \/ HandleEvent \/ Advance

Next ==
    \/ \E fast \in BOOLEAN : PlayClicked(fast)
    \/ StopClicked
    \/ StopJoined
    \/ \E t \in 0 .. MaxTime : Seek(t)
    \/ Tick
    \/ PlaybackThread

Spec == Init /\ [][Next]_vars

\* Time passes, the playback thread runs, and a finished thread is joined.
FairSpec == Spec /\ WF_vars(Tick) /\ WF_vars(PlaybackThread) /\ WF_vars(StopJoined)

-----------------------------------------------------------------------------
\* The variables stay in their types, and an index is at most one past its list
\* (and before it if the list is empty).
TypeOK ==
    /\ gui \in {"stopped", "playing", "joining"}
    /\ thread \in {"none", "starting", "looping", "holding", "handled"}
    /\ hand \in Event \cup {NoEvent} /\ (hand = NoEvent <=> thread \notin {"holding", "handled"})
    /\ index \in [Kind -> Nat]
    /\ \A kind \in Kind : index[kind] \in IF Times[kind] = <<>> THEN {0} ELSE 1 .. Len(Times[kind]) + 1
    /\ playing \in BOOLEAN /\ ff \in BOOLEAN /\ running \in BOOLEAN
    /\ ffTo \in {StartTime, NoTime}
    /\ from \in 0 .. MaxTime /\ elapsed \in 0 .. MaxTime /\ last \in 0 .. MaxTime
    /\ clicks \in 0 .. MaxClicks
    /\ owed \subseteq Event /\ disturbed \in BOOLEAN

\* No event from the time cursor on is passed over, through stops, replays and
\* seeks, unless the cursor was moved while an event was in hand or after the
\* playback had ended by itself, or the list has exactly two events.
NothingSkipped ==
    ~disturbed => \A e \in owed : Len(Times[e.kind]) # 2 => index[e.kind] <= e.index

\* The stop button comes back.
StopEnds == gui = "joining" ~> gui = "stopped"
=============================================================================

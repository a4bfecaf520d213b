--------------------------- MODULE SegmentPlayback ---------------------------
(***************************************************************************)
(* The life of a segment of the score when the output is SSR: the playback *)
(* thread gives it a sound source and announces it to the visualizers      *)
(* (/segment); a visualizer that shows it answers (/visualizing); the OSC  *)
(* thread of the server then starts the voice and schedules stopped_playing*)
(* which the scheduler thread runs when the voice has ended and which      *)
(* gives the source back.  doc/architecture.txt draws the same flow.       *)
(*                                                                         *)
(* Nothing tells the source apart from the segment on the way: messages    *)
(* and the scheduled call carry the segment only, and every step reads     *)
(* segment["sound_source_id"] as it is at that moment.                     *)
(***************************************************************************)
EXTENDS Naturals, FiniteSets, Sequences, Functions

CONSTANTS
  NumSegments,   \* length of the score; segments are 1..NumSegments, by onset
  Visualizers,   \* the registered visualizers
  Sounding,      \* those whose File.add_segment calls playing_segment
  Sources,       \* ids of the sources of the SSR scene (SSR numbers them from 1)
  NoSource,      \* the None that allocate_source returns when all are taken
  Unset,         \* segment has no key "sound_source_id" yet
  MaxPasses,     \* how often --loop rewinds the score (bound)
  Overlap        \* may a segment be replayed while its previous play is not over?

ASSUME ScoreAssumption == NumSegments \in Nat \ {0} /\ MaxPasses \in Nat
ASSUME VisualizersAssumption == Sounding \subseteq Visualizers
ASSUME SourcesAssumption == /\ NoSource \notin Sources /\ Unset \notin Sources
                            /\ NoSource # Unset
ASSUME OverlapAssumption == Overlap \in BOOLEAN

VARIABLES
  currentSegmentIndex, \* the next segment of the score, NumSegments + 1 at its end
  pass,                \* number of rewinds so far
  allocated,           \* the sources whose flag "allocated" is set
  soundSourceId,       \* segment["sound_source_id"]
  segmentMessages,     \* per visualizer, the /segment messages not handled yet
  visualizing,         \* the /visualizing messages the server has not handled yet
  voices               \* voices of the synth, each with its pending stopped_playing

vars == <<currentSegmentIndex, pass, allocated, soundSourceId,
          segmentMessages, visualizing, voices>>

Segments == 1..NumSegments

\* One play of a segment.  The pass only tells the plays of a segment apart:
\* the program has no such number and no guard below depends on it.
Play == [segment : Segments, pass : 0..MaxPasses]

\* A voice sounds on the channel of its source.
Voice == [play : Play, visualizer : Visualizers, source : Sources]

TypeOK ==
  /\ currentSegmentIndex \in 1..(NumSegments + 1)
  /\ pass \in 0..MaxPasses
  /\ allocated \subseteq Sources
  /\ soundSourceId \in [Segments -> Sources \cup {NoSource, Unset}]
  /\ segmentMessages \in [Visualizers -> Seq(Play)]
  /\ visualizing \in Seq([play : Play, visualizer : Visualizers])
  /\ voices \subseteq Voice

-----------------------------------------------------------------------------
\* The plays that can still lead to a stopped_playing.
Pending ==
  (UNION {Range(segmentMessages[v]) : v \in Sounding})
    \cup {m.play : m \in Range(visualizing)}
    \cup {voice.play : voice \in voices}

\* Segment s has a play that is not over.
InFlight(s) == \E p \in Pending : p.segment = s

\* Faults of allocate_source: the flag is ignored; the last source is never used.
AllocateSourceUnflagged == Sources
AllocateSourceOffByOne ==
  IF Cardinality(allocated) + 1 >= Cardinality(Sources) THEN {NoSource}
  ELSE Sources \ allocated

\* What allocate_source may return: any source that is not allocated (which
\* one is first in the dictionary is left open), None if there is none.
AllocateSource ==
  IF allocated = Sources THEN {NoSource} ELSE Sources \ allocated

\* Fault of stopped_playing: it frees the channel (sound_source_id - 1).
SourceFreedByChannel(voice) == soundSourceId[voice.play.segment] - 1

\* stopped_playing frees the source that the segment has now.
SourceFreedBy(voice) == soundSourceId[voice.play.segment]

\* Faults of _handle_visualizing_message: a segment without a source is not
\* left out; the channel is tested instead of the source, and 0 is false.
VoicesForAnySegment(m) ==
  {[play |-> m.play, visualizer |-> m.visualizer,
    source |-> soundSourceId[m.play.segment]]}
VoicesForTrueChannel(m) ==
  {[play |-> m.play, visualizer |-> m.visualizer, source |-> src] :
     src \in {soundSourceId[m.play.segment]} \cap (Sources \ {1})}

\* The voice that a /visualizing message starts, on the channel of the source
\* that the segment has now; none if it has no source.
VoicesFor(m) ==
  {[play |-> m.play, visualizer |-> m.visualizer, source |-> src] :
     src \in {soundSourceId[m.play.segment]} \cap Sources}

\* The index that set_time_cursor(0) starts from again.  The search stops one
\* short of the last pair of segments, so a score of two resumes at its second.
RewindIndex == IF NumSegments = 2 THEN 2 ELSE 1

-----------------------------------------------------------------------------
Init ==
  /\ currentSegmentIndex = 1
  /\ pass = 0
  /\ allocated = {}
  /\ soundSourceId = [s \in Segments |-> Unset]
  /\ segmentMessages = [v \in Visualizers |-> <<>>]
  /\ visualizing = <<>>
  /\ voices = {}

\* visualize_segment: a source for the segment, then /segment to every visualizer.
VisualizeSegment(s) ==
  /\ \E src \in AllocateSource :
       /\ allocated' = IF src = NoSource THEN allocated ELSE allocated \cup {src}
       /\ soundSourceId' = [soundSourceId EXCEPT ![s] = src]
  /\ segmentMessages' = [v \in Visualizers |->
       Append(segmentMessages[v], [segment |-> s, pass |-> pass])]

\* Playback thread: the next event of the score, handle_segment -> play_segment.
\* The code does not test for an overlap: the second conjunct is the assumption
\* that Overlap names, true of every score that outlasts its longest segment.
PlaySegment ==
  /\ currentSegmentIndex <= NumSegments
  /\ Overlap \/ ~InFlight(currentSegmentIndex)
  /\ VisualizeSegment(currentSegmentIndex)
  /\ currentSegmentIndex' = currentSegmentIndex + 1
  /\ UNCHANGED <<pass, visualizing, voices>>

\* Playback thread with --loop: the score is over, set_time_cursor(0).
Rewind ==
  /\ currentSegmentIndex > NumSegments
  /\ pass < MaxPasses
  /\ currentSegmentIndex' = RewindIndex
  /\ pass' = pass + 1
  /\ UNCHANGED <<allocated, soundSourceId, segmentMessages, visualizing, voices>>

\* Fault of a visualizer: it answers the newest segment before the older ones.
HandleSegmentMessageNewestFirst(v) ==
  /\ segmentMessages[v] # <<>>
  /\ segmentMessages' = [segmentMessages EXCEPT ![v] = Tail(@)]
  /\ visualizing' =
       IF v \in Sounding
       THEN <<[play |-> Head(segmentMessages[v]), visualizer |-> v]>> \o visualizing
       ELSE visualizing
  /\ UNCHANGED <<currentSegmentIndex, pass, allocated, soundSourceId, voices>>

\* Visualizer v: handle_segment_message -> add_segment -> playing_segment.
HandleSegmentMessage(v) ==
  /\ segmentMessages[v] # <<>>
  /\ segmentMessages' = [segmentMessages EXCEPT ![v] = Tail(@)]
  /\ visualizing' =
       IF v \in Sounding
       THEN Append(visualizing, [play |-> Head(segmentMessages[v]), visualizer |-> v])
       ELSE visualizing
  /\ UNCHANGED <<currentSegmentIndex, pass, allocated, soundSourceId, voices>>

\* OSC thread of the server: _handle_visualizing_message.  A segment without a
\* source stays silent and nothing is scheduled for it.
HandleVisualizingMessage ==
  /\ visualizing # <<>>
  /\ visualizing' = Tail(visualizing)
  /\ voices' = voices \cup VoicesFor(Head(visualizing))
  /\ UNCHANGED <<currentSegmentIndex, pass, allocated, soundSourceId, segmentMessages>>

\* Scheduler thread: the voice has ended, stopped_playing.  Freeing None
\* changes nothing, as its guard has it.
StoppedPlaying(voice) ==
  /\ voice \in voices
  /\ voices' = voices \ {voice}
  /\ allocated' = allocated \ {SourceFreedBy(voice)}
  /\ UNCHANGED <<currentSegmentIndex, pass, soundSourceId, segmentMessages, visualizing>>

SomeVoiceStops == \E voice \in voices : StoppedPlaying(voice)

Next ==
  \/ PlaySegment
  \/ Rewind
  \/ \E v \in Visualizers : HandleSegmentMessage(v)
  \/ HandleVisualizingMessage
  \/ SomeVoiceStops

Spec == Init /\ [][Next]_vars

\* Every thread keeps running, each visualizer keeps drawing frames (which is
\* when it serves its messages) and every sound has an end.
Fairness ==
  /\ WF_vars(PlaySegment)
  /\ WF_vars(Rewind)
  /\ \A v \in Visualizers : WF_vars(HandleSegmentMessage(v))
  /\ WF_vars(HandleVisualizingMessage)
  /\ \A voice \in Voice : WF_vars(StoppedPlaying(voice))

FairSpec == Spec /\ Fairness

-----------------------------------------------------------------------------
\* Two different plays never sound on the same source (orchestra.py gives each
\* segment a source of its own so that SSR can place it by itself).
SourceExclusive ==
  \A a, b \in voices : a.source = b.source => a.play = b.play

\* A source is marked allocated exactly when a play that is not over has it:
\* a source is neither lost by a play that ended nor handed out under one that
\* still needs it.
NoLeak ==
  allocated = {soundSourceId[p.segment] : p \in Pending} \cap Sources

\* "WARNING: max sources exceeded" (visualize_segment) is true: a segment is
\* left without a source only while each source belongs to some pending play.
SilentOnlyWhenExhausted ==
  [][currentSegmentIndex' = currentSegmentIndex + 1
       /\ soundSourceId'[currentSegmentIndex] = NoSource
     => \A src \in Sources : \E p \in Pending : soundSourceId[p.segment] = src]_vars

\* A voice does not start before that of an earlier play of the same
\* visualizer whose messages are still under way: the flow keeps score order.
Earlier(p, q) == p.pass < q.pass \/ (p.pass = q.pass /\ p.segment < q.segment)
StartsInScoreOrder ==
  \A voice \in voices' \ voices :
    \A p \in Range(segmentMessages[voice.visualizer])
               \cup {m.play : m \in {n \in Range(visualizing) :
                                       n.visualizer = voice.visualizer}} :
      ~Earlier(p, voice.play)
VoicesStartInScoreOrder == [][StartsInScoreOrder]_vars

\* The pool as SourcePool describes it: a segment holds the source in its
\* sound_source_id as long as it has a play that is not over.
Held == {h \in Segments \X Sources : InFlight(h[1]) /\ soundSourceId[h[1]] = h[2]}
Pool == INSTANCE SourcePool WITH Users <- Segments, held <- Held
PoolSpec == Pool!Spec

\* Every source comes back: in the end no source is allocated.
AllSourcesComeBack == <>[](allocated = {})

\* A segment that has been given a source is heard.
EverySourceIsUsed ==
  \A src \in Sources : src \in allocated ~> \E voice \in voices : voice.source = src
=============================================================================

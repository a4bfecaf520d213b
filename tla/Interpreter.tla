----------------------------- MODULE Interpreter -----------------------------
(***************************************************************************)
(* interpret.py and Orchestra._reduce_max_passivity_in_score: the chunks,  *)
(* in the order of the chunk list, are joined to the segments of the score.*)
(* Each peer goes on with its latest segment as long as its chunks continue*)
(* it; long silences between the segments are shortened afterwards.        *)
(*                                                                         *)
(* What a chunk list can be is what TrLog establishes: ChunkInItsFile and  *)
(* TimesAscend.  Time is counted in ticks.                                 *)
(***************************************************************************)
EXTENDS Integers, Sequences

CONSTANTS
  Peers,
  Files,               \* the files as a sequence of records [offset, length, tempo];
                       \* tempo: ticks that a byte takes at the file's own rate
  MaxPause,            \* max_pause_within_segment
  MaxSegmentDuration,  \* MAX_SEGMENT_DURATION
  MaxPassivity,        \* --max-passivity
  MaxChunks, MaxStep   \* bounds: chunks, and ticks between two of them

ASSUME TimesAssumption ==
  /\ MaxPause \in Nat /\ MaxSegmentDuration \in Nat \ {0}
  /\ MaxPassivity \in Nat \ {0} /\ MaxChunks \in Nat /\ MaxStep \in Nat
ASSUME FilesAssumption == Files \in Seq([offset : Nat, length : Nat, tempo : Nat \ {0}])

VARIABLES
  chunks,         \* the chunks handled so far, each with its segment_id
  segments,       \* the score
  segmentCursor,  \* peers[peeraddr].segment_cursor, 0 if the peer is not in peers
  reducing,       \* number of the segment that the reduction comes to next, 0 before
  reducedTime,    \* reduced_time
  previousOnset   \* previous_onset

vars == <<chunks, segments, segmentCursor, reducing, reducedTime, previousOnset>>
reduction == <<reducing, reducedTime, previousOnset>>

Chunk == [id : Nat, peeraddr : Peers, filenum : DOMAIN Files, begin : Nat, end : Nat, t : Nat]

TypeOK ==
  /\ \A i \in DOMAIN chunks :
       /\ chunks[i].chunk \in Chunk
       /\ \E k \in DOMAIN segments : segments[k].id = chunks[i].segmentId
  /\ segments \in Seq([id : Nat, peeraddr : Peers, filenum : DOMAIN Files,
                       begin : Nat, end : Nat, onset : Nat, duration : Nat])
  /\ segmentCursor \in [Peers -> 0..Len(segments)]
  /\ reducing \in 0..(Len(segments) + 1)
  /\ reducedTime \in Nat
  /\ previousOnset \in Nat

-----------------------------------------------------------------------------
\* The time that the bytes of r (a chunk or a segment) take at their file's rate.
DurationWithUnadjustedRate(r) == (r.end - r.begin) * Files[r.filenum].tempo

\* Faults: pauses, or the file, are not looked at.
AppendableAfterAnyPause(c, s) ==
  /\ c.begin = s.end /\ c.peeraddr = s.peeraddr /\ c.filenum = s.filenum
  /\ c.t - s.onset < MaxSegmentDuration
AppendableForEver(c, s) ==
  /\ c.begin = s.end /\ c.peeraddr = s.peeraddr /\ c.filenum = s.filenum
  /\ c.t - (s.onset + s.duration) < MaxPause
AppendableInAnyFile(c, s) ==
  /\ c.begin = s.end /\ c.peeraddr = s.peeraddr
  /\ c.t - (s.onset + s.duration) < MaxPause
  /\ c.t - s.onset < MaxSegmentDuration

ChunkAppendableToSegment(c, s) ==
  /\ c.begin = s.end
  /\ c.peeraddr = s.peeraddr
  /\ c.filenum = s.filenum
  /\ c.t - (s.onset + s.duration) < MaxPause
  /\ c.t - s.onset < MaxSegmentDuration

NewSegment(c) ==
  [id |-> c.id, peeraddr |-> c.peeraddr, filenum |-> c.filenum,
   begin |-> c.begin, end |-> c.end, onset |-> c.t,
   duration |-> DurationWithUnadjustedRate(c)]

\* Fault: the onset moves to the newest chunk.
WithChunkMovingOnset(s, c) ==
  [s EXCEPT !.end = c.end, !.onset = c.t,
            !.duration = DurationWithUnadjustedRate([s EXCEPT !.end = c.end])]

\* Segment s with chunk c appended: it lasts until c came, or as long as its
\* bytes take if all of them came at once.
WithChunk(s, c) ==
  [s EXCEPT !.end = c.end,
            !.duration = IF c.t > s.onset THEN c.t - s.onset
                         ELSE DurationWithUnadjustedRate([s EXCEPT !.end = c.end])]

\* The segment that chunk c continues, if there is one.
Continued(c) ==
  {k \in {segmentCursor[c.peeraddr]} \cap DOMAIN segments :
     ChunkAppendableToSegment(c, segments[k])}

-----------------------------------------------------------------------------
Init ==
  /\ chunks = <<>>
  /\ segments = <<>>
  /\ segmentCursor = [p \in Peers |-> 0]
  /\ reducing = 0
  /\ reducedTime = 0
  /\ previousOnset = 0

\* One turn of the loop of interpret, for the next chunk of the list.
AppendChunk(c) ==
  \E k \in Continued(c) :
    /\ segments' = [segments EXCEPT ![k] = WithChunk(@, c)]
    /\ chunks' = Append(chunks, [chunk |-> c, segmentId |-> segments[k].id])
    /\ UNCHANGED <<segmentCursor, reduction>>

\* Fault: the cursor is set when the segment has been appended already.
BeginSegmentLateCursor(c) ==
  /\ Continued(c) = {}
  /\ segments' = Append(segments, NewSegment(c))
  /\ segmentCursor' = [segmentCursor EXCEPT ![c.peeraddr] = Len(segments') + 1]
  /\ chunks' = Append(chunks, [chunk |-> c, segmentId |-> c.id])
  /\ UNCHANGED reduction

BeginSegment(c) ==
  /\ Continued(c) = {}
  /\ segments' = Append(segments, NewSegment(c))
  /\ segmentCursor' = [segmentCursor EXCEPT ![c.peeraddr] = Len(segments) + 1]
  /\ chunks' = Append(chunks, [chunk |-> c, segmentId |-> c.id])
  /\ UNCHANGED reduction

Now == IF chunks = <<>> THEN 0 ELSE chunks[Len(chunks)].chunk.t

\* What comes next in a chunk list: bytes of one file, not earlier than before.
NextChunks ==
  {c \in [id : {Len(chunks) + 1}, peeraddr : Peers, filenum : DOMAIN Files,
          begin : 0..(Files[Len(Files)].offset + Files[Len(Files)].length),
          end : 0..(Files[Len(Files)].offset + Files[Len(Files)].length),
          t : Now..(Now + MaxStep)] :
     /\ Files[c.filenum].offset <= c.begin
     /\ c.begin < c.end
     /\ c.end <= Files[c.filenum].offset + Files[c.filenum].length}

InterpretChunk ==
  /\ reducing = 0
  /\ Len(chunks) < MaxChunks
  /\ \E c \in NextChunks : AppendChunk(c) \/ BeginSegment(c)

\* With --max-passivity, _reduce_max_passivity_in_score starts on the score.
StartReduction ==
  /\ reducing = 0
  /\ reducing' = 1
  /\ UNCHANGED <<chunks, segments, segmentCursor, reducedTime, previousOnset>>

\* Fault: the reduced time is not carried on to the following segments.
ReductionOfOne(silence) ==
  IF silence > MaxPassivity THEN silence - MaxPassivity ELSE 0
\* reduced_time after a silence of this length.
Reduction(silence) ==
  reducedTime + (IF silence > MaxPassivity THEN silence - MaxPassivity ELSE 0)

\* One turn of its loop.
ReduceSilence ==
  /\ reducing \in DOMAIN segments
  /\ LET silence == segments[reducing].onset - reducedTime - previousOnset IN
       reducedTime' = Reduction(silence)
  /\ segments' = [segments EXCEPT ![reducing].onset = @ - reducedTime']
  /\ previousOnset' = segments'[reducing].onset
  /\ reducing' = reducing + 1
  /\ UNCHANGED <<chunks, segmentCursor>>

Next == InterpretChunk \/ StartReduction \/ ReduceSilence

Spec == Init /\ [][Next]_vars

-----------------------------------------------------------------------------
\* The places of the chunks of segment s in the chunk list, the first of some
\* places, and those that follow each other.
ChunksOf(s) == {i \in DOMAIN chunks : chunks[i].segmentId = s.id}
First(places) == CHOOSE i \in places : \A j \in places : i <= j
Follows(places, i, j) == i < j /\ \A m \in places : m <= i \/ j <= m

\* A segment is its chunks, one after the other without gap or overlap, all from
\* one peer and in one file; no two segments share an id (segments_by_id) and
\* each chunk is in one.
SegmentIsItsChunks ==
  /\ \A j, k \in DOMAIN segments : segments[j].id = segments[k].id => j = k
  /\ \A k \in DOMAIN segments :
       LET s == segments[k] own == ChunksOf(s) IN
       /\ own # {}
       /\ s.begin = chunks[First(own)].chunk.begin
       /\ \E last \in own : s.end = chunks[last].chunk.end /\ \A i \in own : i <= last
       /\ \A i \in own : chunks[i].chunk.peeraddr = s.peeraddr /\ chunks[i].chunk.filenum = s.filenum
       /\ \A i, j \in own : Follows(own, i, j) => chunks[j].chunk.begin = chunks[i].chunk.end

\* The score is in order of onset, before, during and after the reduction: the
\* playback thread looks only at the next segment.
OnsetsAscend ==
  \A k \in 1..(Len(segments) - 1) : segments[k].onset <= segments[k + 1].onset

\* A segment ends: its last chunk came less than MAX_SEGMENT_DURATION after its
\* first one ("online constraint for max segment duration is simulated offline").
SpanBounded ==
  \A k \in DOMAIN segments :
    \A i, j \in ChunksOf(segments[k]) : chunks[j].chunk.t - chunks[i].chunk.t < MaxSegmentDuration

\* When the sound of the chunks of a segment from the first to the previous one
\* is over: when the last one came, or all bytes at the file's rate if they came
\* at once.
SoundOver(first, previous) ==
  IF previous.t > first.t THEN previous.t
  ELSE first.t + DurationWithUnadjustedRate([first EXCEPT !.end = previous.end])

\* Within a segment no chunk came MaxPause or more after the sound of the ones
\* before it was over (test_chunks_separated_by_long_pause_are_not_joined).
NoLongPause ==
  \A k \in DOMAIN segments :
    LET own == ChunksOf(segments[k]) first == chunks[First(own)].chunk IN
    \A i, j \in own :
      Follows(own, i, j) => chunks[j].chunk.t - SoundOver(first, chunks[i].chunk) < MaxPause

\* The onsets of the segments in the original score and in this one.
OriginalOnset(k) == IF k = 0 THEN 0 ELSE chunks[First(ChunksOf(segments[k]))].chunk.t
Onset(k) == IF k = 0 THEN 0 ELSE segments[k].onset

\* A reduced score has the silences of the original one, each cut to MaxPassivity.
SilencesCapped ==
  \A k \in 1..(reducing - 1) :
    LET silence == OriginalOnset(k) - OriginalOnset(k - 1) IN
    Onset(k) - Onset(k - 1) = IF silence > MaxPassivity THEN MaxPassivity ELSE silence
=============================================================================

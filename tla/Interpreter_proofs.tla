------------------------- MODULE Interpreter_proofs -------------------------
(***************************************************************************)
(* Proofs about Interpreter for any peers, any files and any chunk list:   *)
(* all of its invariants.  That the first chunk of a segment is the one    *)
(* whose id the segment has, carries them.                                 *)
(***************************************************************************)
EXTENDS Interpreter, TLAPS

ChunkEntry == [chunk : Chunk, segmentId : Nat]
SegmentRecord == [id : Nat, peeraddr : Peers, filenum : DOMAIN Files,
                  begin : Nat, end : Nat, onset : Nat, duration : Nat]

\* The onset a segment had before the reduction: the time of its first chunk.
FirstTime(k) == IF k = 0 THEN 0 ELSE chunks[segments[k].id].chunk.t

-----------------------------------------------------------------------------
\* The inductive invariant.

Types ==
  /\ chunks \in Seq(ChunkEntry)
  /\ segments \in Seq(SegmentRecord)
  /\ segmentCursor \in [Peers -> 0..Len(segments)]
  /\ reducing \in 0..(Len(segments) + 1)
  /\ reducedTime \in Nat /\ previousOnset \in Nat

\* The chunks are in order of time and have bytes.
ChunkOrder ==
  /\ \A i \in DOMAIN chunks : chunks[i].chunk.begin < chunks[i].chunk.end
  /\ \A i, j \in DOMAIN chunks : i <= j => chunks[i].chunk.t <= chunks[j].chunk.t

\* The ids of the segments are the places of their first chunks, in their order.
Ids ==
  /\ \A k \in DOMAIN segments : segments[k].id \in ChunksOf(segments[k])
  /\ \A k \in DOMAIN segments : \A i \in ChunksOf(segments[k]) : segments[k].id <= i
  /\ \A j, k \in DOMAIN segments : j < k => segments[j].id < segments[k].id
  /\ \A i \in DOMAIN chunks : \E k \in DOMAIN segments : segments[k].id = chunks[i].segmentId

\* How long a segment lasts, given its last chunk.
LastsUntil(s, last) ==
  s.duration = IF chunks[last].chunk.t > chunks[s.id].chunk.t
               THEN chunks[last].chunk.t - chunks[s.id].chunk.t
               ELSE (s.end - s.begin) * Files[s.filenum].tempo

\* What a segment is, and when its chunks came.
Content ==
  \A k \in DOMAIN segments :
    LET s == segments[k] own == ChunksOf(segments[k]) IN
    /\ s.begin = chunks[s.id].chunk.begin /\ s.begin < s.end
    /\ \E last \in own : /\ s.end = chunks[last].chunk.end
                         /\ \A i \in own : i <= last
                         /\ LastsUntil(s, last)
    /\ \A i \in own : chunks[i].chunk.peeraddr = s.peeraddr /\ chunks[i].chunk.filenum = s.filenum
    /\ \A i, j \in own : Follows(own, i, j) => chunks[j].chunk.begin = chunks[i].chunk.end
    /\ \A i \in own : chunks[i].chunk.t - chunks[s.id].chunk.t < MaxSegmentDuration

Pauses ==
  \A k \in DOMAIN segments :
    \A i, j \in ChunksOf(segments[k]) :
      Follows(ChunksOf(segments[k]), i, j) =>
        chunks[j].chunk.t - SoundOver(chunks[segments[k].id].chunk, chunks[i].chunk) < MaxPause

\* The segments that have not been reduced yet have their first onsets; the
\* reduction knows the last onset it has made and how much it has cut so far.
Onsets ==
  /\ \A k \in DOMAIN segments : k >= reducing => segments[k].onset = FirstTime(k)
  /\ reducing = 0 => reducedTime = 0 /\ previousOnset = 0
  /\ reducing > 0 => /\ previousOnset = Onset(reducing - 1)
                     /\ previousOnset = FirstTime(reducing - 1) - reducedTime

Capped ==
  \A k \in 1..(reducing - 1) :
    LET silence == FirstTime(k) - FirstTime(k - 1) IN
    Onset(k) - Onset(k - 1) = IF silence > MaxPassivity THEN MaxPassivity ELSE silence

Inv == Types /\ ChunkOrder /\ Ids /\ Content /\ Pauses /\ Onsets /\ Capped

-----------------------------------------------------------------------------
\* The sequences as functions.
LEMMA Places ==
  ASSUME Types
  PROVE  /\ Len(chunks) \in Nat /\ DOMAIN chunks = 1..Len(chunks)
         /\ Len(segments) \in Nat /\ DOMAIN segments = 1..Len(segments)
         /\ \A i \in DOMAIN chunks : chunks[i] \in ChunkEntry /\ chunks[i].chunk \in Chunk
         /\ \A k \in DOMAIN segments : segments[k] \in SegmentRecord
  <1>1. chunks \in Seq(ChunkEntry) /\ segments \in Seq(SegmentRecord)
    BY DEF Types
  <1>2. /\ Len(chunks) \in Nat /\ DOMAIN chunks = 1..Len(chunks)
        /\ Len(segments) \in Nat /\ DOMAIN segments = 1..Len(segments)
    BY <1>1
  <1>3. \A i \in DOMAIN chunks : chunks[i] \in ChunkEntry
    BY <1>1, <1>2
  <1>4. \A k \in DOMAIN segments : segments[k] \in SegmentRecord
    BY <1>1, <1>2
  <1>5. \A e \in ChunkEntry : e.chunk \in Chunk
    BY DEF ChunkEntry
  <1> QED
    BY <1>2, <1>3, <1>4, <1>5

\* The first chunk of a segment is the one whose id the segment has.
LEMMA FirstIsId ==
  ASSUME Types, Ids, NEW k \in DOMAIN segments
  PROVE  First(ChunksOf(segments[k])) = segments[k].id
  <1> DEFINE own == ChunksOf(segments[k])
             id == segments[k].id
  <1>1. /\ own \in SUBSET DOMAIN chunks /\ DOMAIN chunks \in SUBSET Nat
        /\ id \in own /\ \A i \in own : id <= i
    BY Places DEF Ids, ChunksOf
  <1> HIDE DEF own, id
  <1>2. \A i \in own : (\A j \in own : i <= j) => i = id
    <2> SUFFICES ASSUME NEW i \in own, \A j \in own : i <= j
                 PROVE  i = id
      OBVIOUS
    <2>1. i <= id /\ id <= i /\ i \in Nat /\ id \in Nat
      BY <1>1
    <2> QED
      BY <2>1
  <1>3. First(own) = id
    BY <1>1, <1>2 DEF First
  <1> QED
    BY <1>3 DEF own, id

\* The time of the first chunk of a segment, and the times of the others.
LEMMA FirstTimes ==
  ASSUME Types, ChunkOrder, Ids, NEW k \in DOMAIN segments
  PROVE  /\ FirstTime(k) = chunks[segments[k].id].chunk.t
         /\ FirstTime(k) \in Nat
         /\ segments[k].id \in DOMAIN chunks
         /\ \A i \in ChunksOf(segments[k]) : FirstTime(k) <= chunks[i].chunk.t
         /\ FirstTime(k) = OriginalOnset(k)
  <1>1. k # 0
    BY Places
  <1>2. segments[k].id \in DOMAIN chunks
    BY DEF Ids, ChunksOf
  <1>3. FirstTime(k) = chunks[segments[k].id].chunk.t /\ FirstTime(k) = OriginalOnset(k)
    BY <1>1, FirstIsId DEF FirstTime, OriginalOnset
  <1>4. FirstTime(k) \in Nat
    BY <1>2, <1>3, Places DEF Chunk
  <1>5. \A i \in ChunksOf(segments[k]) : FirstTime(k) <= chunks[i].chunk.t
    <2> TAKE i \in ChunksOf(segments[k])
    <2>1. i \in DOMAIN chunks /\ segments[k].id <= i
      BY DEF Ids, ChunksOf
    <2> QED
      BY <1>2, <1>3, <2>1 DEF ChunkOrder
  <1> QED
    BY <1>2, <1>3, <1>4, <1>5

\* The segments begin in the order of the score.
LEMMA FirstTimesAscend ==
  ASSUME Types, ChunkOrder, Ids, NEW j \in 0..Len(segments), NEW k \in 0..Len(segments), j <= k
  PROVE  FirstTime(j) \in Nat /\ FirstTime(k) \in Nat /\ FirstTime(j) <= FirstTime(k)
  <1>1. FirstTime(0) = 0
    BY DEF FirstTime
  <1>2. \A m \in 0..Len(segments) : FirstTime(m) \in Nat
    <2> TAKE m \in 0..Len(segments)
    <2>1. CASE m = 0
      BY <1>1, <2>1
    <2>2. CASE m # 0
      BY <2>2, Places, FirstTimes
    <2> QED
      BY <2>1, <2>2
  <1>3. CASE j = 0
    BY <1>1, <1>2, <1>3
  <1>4. CASE j = k
    BY <1>2, <1>4
  <1>5. CASE j # 0 /\ j # k
    <2>1. j \in DOMAIN segments /\ k \in DOMAIN segments /\ j < k
      BY <1>5, Places
    <2>2. segments[j].id < segments[k].id
      BY <2>1 DEF Ids
    <2>3. /\ segments[j].id \in DOMAIN chunks /\ segments[k].id \in DOMAIN chunks
          /\ FirstTime(j) = chunks[segments[j].id].chunk.t
          /\ FirstTime(k) = chunks[segments[k].id].chunk.t
      BY <2>1, FirstTimes
    <2>4. segments[j].id <= segments[k].id
      BY <2>2, <2>3, Places
    <2> QED
      BY <1>2, <2>3, <2>4 DEF ChunkOrder
  <1> QED
    BY <1>3, <1>4, <1>5

-----------------------------------------------------------------------------
\* A chunk that comes next comes from a peer, lies in a file, has bytes and is
\* not earlier than the ones before it.
LEMMA NextChunkFacts ==
  ASSUME Types, ChunkOrder, NEW c \in NextChunks
  PROVE  /\ c \in Chunk
         /\ c.id = Len(chunks) + 1
         /\ c.begin < c.end
         /\ \A i \in DOMAIN chunks : chunks[i].chunk.t <= c.t
         /\ Files[c.filenum].tempo \in Nat
  <1>1. /\ c = [id |-> c.id, peeraddr |-> c.peeraddr, filenum |-> c.filenum,
                begin |-> c.begin, end |-> c.end, t |-> c.t]
        /\ c.id = Len(chunks) + 1 /\ c.peeraddr \in Peers /\ c.filenum \in DOMAIN Files
        /\ Files[c.filenum].offset <= c.begin /\ c.begin < c.end
        /\ c.t \in Now..(Now + MaxStep)
        /\ c.begin \in 0..(Files[Len(Files)].offset + Files[Len(Files)].length)
        /\ c.end \in 0..(Files[Len(Files)].offset + Files[Len(Files)].length)
    BY DEF NextChunks
  <1>2. /\ Len(Files) \in DOMAIN Files
        /\ \A f \in DOMAIN Files : Files[f] \in [offset : Nat, length : Nat, tempo : Nat \ {0}]
    <2> DEFINE File == [offset : Nat, length : Nat, tempo : Nat \ {0}]
    <2>1. Files \in Seq(File)
      BY FilesAssumption
    <2> HIDE DEF File
    <2>2. /\ Len(Files) \in Nat /\ DOMAIN Files = 1..Len(Files)
          /\ \A f \in DOMAIN Files : Files[f] \in File
      BY <2>1
    <2>3. Len(Files) \in DOMAIN Files
      BY <1>1, <2>2
    <2> QED
      BY <2>2, <2>3 DEF File
  <1>3. c.begin \in Nat /\ c.end \in Nat
    BY <1>1, <1>2
  <1>4. Now \in Nat /\ \A i \in DOMAIN chunks : chunks[i].chunk.t <= Now
    <2>1. CASE chunks = <<>>
      BY <2>1 DEF Now
    <2>2. CASE chunks # <<>>
      <3>1. Len(chunks) \in DOMAIN chunks /\ DOMAIN chunks = 1..Len(chunks)
        BY <2>2 DEF Types
      <3>2. Now = chunks[Len(chunks)].chunk.t
        BY <2>2 DEF Now
      <3>3. Now \in Nat
        BY <3>1, <3>2, Places DEF Chunk
      <3>4. \A i \in DOMAIN chunks : chunks[i].chunk.t <= Now
        BY <3>1, <3>2 DEF ChunkOrder
      <3> QED
        BY <3>3, <3>4
    <2> QED
      BY <2>1, <2>2
  <1>5. c.t \in Nat /\ c.t >= Now
    BY <1>1, <1>4, TimesAssumption
  <1>6. c \in Chunk
    BY <1>1, <1>3, <1>5, Places DEF Chunk
  <1>7. \A i \in DOMAIN chunks : chunks[i].chunk.t <= c.t
    <2> TAKE i \in DOMAIN chunks
    <2>1. chunks[i].chunk.t \in Nat
      BY Places DEF Chunk
    <2> QED
      BY <1>4, <1>5, <2>1
  <1> QED
    BY <1>1, <1>2, <1>6, <1>7

\* A chunk that is appended to the list leaves the others as they are.
LEMMA Appended ==
  ASSUME Types, ChunkOrder, NEW c \in NextChunks, NEW id \in Nat,
         chunks' = Append(chunks, [chunk |-> c, segmentId |-> id])
  PROVE  /\ chunks' \in Seq(ChunkEntry)
         /\ DOMAIN chunks' = DOMAIN chunks \cup {c.id} /\ c.id \notin DOMAIN chunks /\ c.id \in Nat
         /\ \A i \in DOMAIN chunks : chunks'[i] = chunks[i] /\ i < c.id /\ i \in Nat
         /\ chunks'[c.id].chunk = c /\ chunks'[c.id].segmentId = id
         /\ ChunkOrder'
  <1> DEFINE e == [chunk |-> c, segmentId |-> id]
  <1>1. c \in Chunk /\ c.id = Len(chunks) + 1 /\ e \in ChunkEntry
    BY NextChunkFacts DEF ChunkEntry
  <1>2. e.chunk = c /\ e.segmentId = id /\ chunks' = Append(chunks, e)
    OBVIOUS
  <1> HIDE DEF e
  <1>3. /\ chunks' \in Seq(ChunkEntry)
        /\ DOMAIN chunks' = 1..(Len(chunks) + 1)
        /\ \A i \in DOMAIN chunks : chunks'[i] = chunks[i]
        /\ chunks'[Len(chunks) + 1] = e
    BY <1>1, <1>2 DEF Types
  <1>4. /\ DOMAIN chunks' = DOMAIN chunks \cup {c.id} /\ c.id \notin DOMAIN chunks /\ c.id \in Nat
        /\ \A i \in DOMAIN chunks : i < c.id /\ i \in Nat
    BY <1>1, <1>3, Places
  <1>5. chunks'[c.id].chunk = c /\ chunks'[c.id].segmentId = id
    BY <1>1, <1>2, <1>3
  <1>6. \A i \in DOMAIN chunks' : chunks'[i].chunk.begin < chunks'[i].chunk.end
    BY <1>3, <1>4, <1>5, NextChunkFacts DEF ChunkOrder
  <1>7. ASSUME NEW i \in DOMAIN chunks', NEW j \in DOMAIN chunks', i <= j
        PROVE  chunks'[i].chunk.t <= chunks'[j].chunk.t
    <2>1. CASE j \in DOMAIN chunks
      <3>1. i \in DOMAIN chunks
        BY <1>4, <1>7, <2>1
      <3> QED
        BY <1>3, <1>7, <2>1, <3>1 DEF ChunkOrder
    <2>2. CASE j = c.id /\ i \in DOMAIN chunks
      BY <1>3, <1>5, <2>2, NextChunkFacts
    <2>3. CASE j = c.id /\ i = c.id
      <3>1. c.t \in Nat
        BY <1>1 DEF Chunk
      <3> QED
        BY <1>5, <2>3, <3>1
    <2> QED
      BY <1>4, <2>1, <2>2, <2>3
  <1> QED
    BY <1>3, <1>4, <1>5, <1>6, <1>7 DEF ChunkOrder

\* The sound of a segment is over when its last chunk says so.
LEMMA SegmentOver ==
  ASSUME Inv, NEW k \in DOMAIN segments, segments[k].onset = FirstTime(k),
         NEW last \in ChunksOf(segments[k]),
         segments[k].end = chunks[last].chunk.end, LastsUntil(segments[k], last)
  PROVE  segments[k].onset + segments[k].duration
           = SoundOver(chunks[segments[k].id].chunk, chunks[last].chunk)
  <1> DEFINE s == segments[k]
             first == chunks[segments[k].id].chunk
             previous == chunks[last].chunk
             product == (s.end - s.begin) * Files[s.filenum].tempo
  <1>1. Types /\ ChunkOrder /\ Ids /\ Content
    BY DEF Inv
  <1>2. /\ s.id \in DOMAIN chunks /\ last \in DOMAIN chunks
        /\ first \in Chunk /\ previous \in Chunk
        /\ s.onset = first.t /\ s.id \in ChunksOf(s)
    BY <1>1, FirstTimes, Places DEF ChunksOf, Ids
  <1>3. first.filenum = s.filenum /\ first.begin = s.begin
    BY <1>1, <1>2 DEF Content
  <1>4. s.duration = IF previous.t > first.t THEN previous.t - first.t ELSE product
    BY DEF LastsUntil
  <1>5. [first EXCEPT !.end = previous.end].begin = first.begin
        /\ [first EXCEPT !.end = previous.end].end = previous.end
        /\ [first EXCEPT !.end = previous.end].filenum = first.filenum
    BY <1>2 DEF Chunk
  <1>6. DurationWithUnadjustedRate([first EXCEPT !.end = previous.end]) = product
    BY <1>3, <1>5 DEF DurationWithUnadjustedRate
  <1>7. first.t \in Nat /\ previous.t \in Nat
    BY <1>2 DEF Chunk
  <1> HIDE DEF product, first, previous
  <1>8. CASE previous.t > first.t
    <2>1. s.onset + s.duration = previous.t
      BY <1>2, <1>4, <1>7, <1>8
    <2> QED
      BY <1>8, <2>1 DEF SoundOver, first, previous
  <1>9. CASE ~(previous.t > first.t)
    <2>1. s.onset + s.duration = first.t + product
      BY <1>2, <1>4, <1>9
    <2> QED
      BY <1>6, <1>9, <2>1 DEF SoundOver, first, previous
  <1> QED
    BY <1>8, <1>9

\* The time that some bytes take is a number.
LEMMA DurationIsNat ==
  ASSUME NEW r, r.begin \in Nat, r.end \in Nat, r.begin < r.end, Files[r.filenum].tempo \in Nat
  PROVE  DurationWithUnadjustedRate(r) \in Nat
  <1>1. \A a, b \in Nat : a * b \in Nat
    OBVIOUS
  <1>2. r.end - r.begin \in Nat
    OBVIOUS
  <1> QED
    BY <1>1, <1>2 DEF DurationWithUnadjustedRate

-----------------------------------------------------------------------------
\* The score is empty at first.
LEMMA InitInv == Init => Inv
  <1> SUFFICES ASSUME Init
               PROVE  Inv
    OBVIOUS
  <1>1. Types
    BY DEF Init, Types
  <1>2. ChunkOrder /\ Ids /\ Content /\ Pauses
    BY DEF Init, ChunkOrder, Ids, Content, Pauses
  <1>3. Onsets /\ Capped
    BY DEF Init, Onsets, Capped
  <1> QED
    BY <1>1, <1>2, <1>3 DEF Inv

\* A chunk that continues no segment begins one of its own.
LEMMA BeginSegmentInv ==
  ASSUME Inv, reducing = 0, NEW c \in NextChunks, BeginSegment(c)
  PROVE  Inv'
  <1> DEFINE s == NewSegment(c)
  <1> PICK n : n = Len(segments) + 1
    OBVIOUS
  <1>1. Types /\ ChunkOrder /\ Ids /\ Content /\ Pauses /\ Onsets
    BY DEF Inv
  <1>2. /\ segments' = Append(segments, s)
        /\ segmentCursor' = [segmentCursor EXCEPT ![c.peeraddr] = n]
        /\ chunks' = Append(chunks, [chunk |-> c, segmentId |-> c.id])
        /\ reducing' = 0 /\ reducedTime' = 0 /\ previousOnset' = 0
    BY <1>1 DEF BeginSegment, reduction, Onsets
  <1>3. /\ c \in Chunk /\ c.id = Len(chunks) + 1 /\ c.begin < c.end
        /\ Files[c.filenum].tempo \in Nat
        /\ c.id \in Nat /\ c.begin \in Nat /\ c.end \in Nat /\ c.t \in Nat
        /\ c.peeraddr \in Peers /\ c.filenum \in DOMAIN Files
    BY <1>1, NextChunkFacts DEF Chunk
  <1>4. /\ chunks' \in Seq(ChunkEntry)
        /\ DOMAIN chunks' = DOMAIN chunks \cup {c.id} /\ c.id \notin DOMAIN chunks
        /\ \A i \in DOMAIN chunks : chunks'[i] = chunks[i] /\ i < c.id /\ i \in Nat
        /\ chunks'[c.id].chunk = c /\ chunks'[c.id].segmentId = c.id
        /\ ChunkOrder'
    BY <1>1, <1>2, <1>3, Appended
  <1>5. /\ s.id = c.id /\ s.peeraddr = c.peeraddr /\ s.filenum = c.filenum
        /\ s.begin = c.begin /\ s.end = c.end /\ s.onset = c.t
        /\ s.duration = (c.end - c.begin) * Files[c.filenum].tempo
        /\ s \in SegmentRecord
    <2>1. DurationWithUnadjustedRate(c) \in Nat
      BY <1>3, DurationIsNat
    <2>2. s.duration = (c.end - c.begin) * Files[c.filenum].tempo
      BY DEF NewSegment, DurationWithUnadjustedRate
    <2>3. s \in SegmentRecord
      BY <1>3, <2>1 DEF NewSegment, SegmentRecord
    <2> QED
      BY <2>2, <2>3 DEF NewSegment
  <1> HIDE DEF s
  <1>6. /\ segments' \in Seq(SegmentRecord)
        /\ Len(segments') = n /\ n \in Nat /\ n = Len(segments) + 1
        /\ DOMAIN segments' = DOMAIN segments \cup {n} /\ n \notin DOMAIN segments
        /\ \A k \in DOMAIN segments : segments'[k] = segments[k] /\ k < n /\ k \in Nat
        /\ segments'[n] = s
    BY <1>1, <1>2, <1>5, Places DEF Types
  <1>7. Types'
    <2>1. segmentCursor' \in [Peers -> 0..Len(segments')]
      <3>1. n \in 0..n /\ \A x \in 0..Len(segments) : x \in 0..n
        BY <1>1, <1>6, Places
      <3> QED
        BY <1>1, <1>2, <1>6, <3>1 DEF Types
    <2>2. reducing' \in 0..(Len(segments') + 1) /\ reducedTime' \in Nat /\ previousOnset' \in Nat
      BY <1>2, <1>6
    <2> QED
      BY <1>4, <1>6, <2>1, <2>2 DEF Types
  <1>8. \A k \in DOMAIN segments : /\ segments[k].id \in DOMAIN chunks
                                   /\ segments[k].id # c.id
                                   /\ ChunksOf(segments[k])' = ChunksOf(segments[k])
    <2> TAKE k \in DOMAIN segments
    <2>1. segments[k].id \in DOMAIN chunks
      BY <1>1 DEF Ids, ChunksOf
    <2>2. segments[k].id # c.id
      BY <1>4, <2>1
    <2>3. ChunksOf(segments[k])' = ChunksOf(segments[k])
      BY <1>4, <1>6, <2>2 DEF ChunksOf
    <2> QED
      BY <2>1, <2>2, <2>3
  <1>9. ChunksOf(segments[n])' = {c.id}
    <2>1. \A i \in DOMAIN chunks : chunks[i].segmentId # c.id
      BY <1>1, <1>8 DEF Ids
    <2>2. \A i \in DOMAIN chunks' : chunks'[i].segmentId = segments'[n].id <=> i = c.id
      BY <1>4, <1>5, <1>6, <2>1
    <2>3. c.id \in DOMAIN chunks'
      BY <1>4
    <2> QED
      BY <2>2, <2>3 DEF ChunksOf
  <1>10. Ids'
    <2>1. ASSUME NEW k \in DOMAIN segments'
          PROVE  /\ segments'[k].id \in ChunksOf(segments[k])'
                 /\ \A i \in ChunksOf(segments[k])' : segments'[k].id <= i
      <3>1. CASE k \in DOMAIN segments
        BY <1>1, <1>6, <1>8, <3>1 DEF Ids
      <3>2. CASE k = n
        <4>1. segments'[k].id = c.id /\ c.id <= c.id
          BY <1>3, <1>5, <1>6, <3>2
        <4> QED
          BY <1>9, <3>2, <4>1
      <3> QED
        BY <1>6, <3>1, <3>2
    <2>3. ASSUME NEW j \in DOMAIN segments', NEW k \in DOMAIN segments', j < k
          PROVE  segments'[j].id < segments'[k].id
      <3>1. j \in DOMAIN segments
        BY <1>6, <2>3
      <3>2. CASE k \in DOMAIN segments
        BY <1>1, <1>6, <2>3, <3>1, <3>2 DEF Ids
      <3>3. CASE k = n
        BY <1>4, <1>5, <1>6, <1>8, <3>1, <3>3
      <3> QED
        BY <1>6, <3>2, <3>3
    <2>4. \A i \in DOMAIN chunks' : \E k \in DOMAIN segments' : segments'[k].id = chunks'[i].segmentId
      BY <1>1, <1>4, <1>5, <1>6 DEF Ids
    <2> QED
      BY <2>1, <2>3, <2>4 DEF Ids
  <1>11. ASSUME NEW k \in DOMAIN segments'
         PROVE  LET t == segments'[k] own == ChunksOf(segments[k])' IN
                /\ t.begin = chunks'[t.id].chunk.begin /\ t.begin < t.end
                /\ \E last \in own : /\ t.end = chunks'[last].chunk.end
                                     /\ \A i \in own : i <= last
                                     /\ LastsUntil(segments[k], last)'
                /\ \A i \in own : chunks'[i].chunk.peeraddr = t.peeraddr
                                 /\ chunks'[i].chunk.filenum = t.filenum
                /\ \A i, j \in own : Follows(own, i, j) => chunks'[j].chunk.begin = chunks'[i].chunk.end
                /\ \A i \in own : chunks'[i].chunk.t - chunks'[t.id].chunk.t < MaxSegmentDuration
    <2>1. CASE k \in DOMAIN segments
      <3>1. \A i \in ChunksOf(segments[k]) : chunks'[i] = chunks[i]
        BY <1>4 DEF ChunksOf
      <3>2. segments[k].id \in ChunksOf(segments[k])
        BY <1>1, <2>1 DEF Ids
      <3> QED
        BY <1>1, <1>6, <1>8, <2>1, <3>1, <3>2 DEF Content, LastsUntil
    <2>2. CASE k = n
      <3>1. c.t - c.t < MaxSegmentDuration /\ ~(c.t > c.t)
        BY <1>3, TimesAssumption
      <3>2. ~(c.id < c.id) /\ c.id <= c.id
        BY <1>3
      <3>3. segments'[k] = s /\ ChunksOf(segments[k])' = {c.id} /\ chunks'[s.id].chunk = c
        BY <1>4, <1>5, <1>6, <1>9, <2>2
      <3>4. LastsUntil(segments[k], c.id)'
        BY <1>4, <1>5, <3>1, <3>3 DEF LastsUntil
      <3>5. \A i, j \in {c.id} : ~Follows({c.id}, i, j)
        BY <3>2 DEF Follows
      <3> QED
        BY <1>3, <1>4, <1>5, <3>1, <3>2, <3>3, <3>4, <3>5
    <2> QED
      BY <1>6, <2>1, <2>2
  <1>12. Content'
    BY <1>11 DEF Content
  <1>13. Pauses'
    <2> SUFFICES ASSUME NEW k \in DOMAIN segments',
                        NEW i \in ChunksOf(segments[k])', NEW j \in ChunksOf(segments[k])',
                        Follows(ChunksOf(segments[k])', i, j)
                 PROVE  (chunks[j].chunk.t
                           - SoundOver(chunks[segments[k].id].chunk, chunks[i].chunk) < MaxPause)'
      BY DEF Pauses, Follows
    <2>1. CASE k \in DOMAIN segments
      <3>1. \A m \in ChunksOf(segments[k]) : chunks'[m] = chunks[m]
        BY <1>4 DEF ChunksOf
      <3>2. segments[k].id \in ChunksOf(segments[k])
        BY <1>1, <2>1 DEF Ids
      <3>3. /\ i \in ChunksOf(segments[k]) /\ j \in ChunksOf(segments[k])
            /\ Follows(ChunksOf(segments[k]), i, j)
        BY <1>8, <2>1
      <3>4. chunks[j].chunk.t - SoundOver(chunks[segments[k].id].chunk, chunks[i].chunk) < MaxPause
        BY <1>1, <2>1, <3>3 DEF Pauses
      <3> QED
        BY <1>6, <2>1, <3>1, <3>2, <3>3, <3>4 DEF SoundOver, DurationWithUnadjustedRate
    <2>2. CASE k = n
      <3>1. i = c.id /\ j = c.id /\ i < j
        BY <1>9, <2>2 DEF Follows
      <3> QED
        BY <1>3, <3>1
    <2> QED
      BY <1>6, <2>1, <2>2
  <1>14. Onsets'
    <2>1. ASSUME NEW k \in DOMAIN segments'
          PROVE  segments'[k].onset = FirstTime(k)'
      <3>1. CASE k \in DOMAIN segments
        <4>1. k # 0 /\ k >= 0
          BY <3>1, <1>1, Places
        <4>2. segments[k].onset = FirstTime(k)
          BY <1>1, <3>1, <4>1 DEF Onsets
        <4> QED
          BY <1>4, <1>6, <1>8, <3>1, <4>1, <4>2 DEF FirstTime
      <3>2. CASE k = n
        <4>1. n # 0
          BY <1>1, <1>6, Places
        <4> QED
          BY <1>4, <1>5, <1>6, <3>2, <4>1 DEF FirstTime
      <3> QED
        BY <1>6, <3>1, <3>2
    <2> QED
      BY <1>2, <2>1 DEF Onsets
  <1>15. Capped'
    BY <1>2 DEF Capped
  <1> QED
    BY <1>4, <1>7, <1>10, <1>12, <1>13, <1>14, <1>15 DEF Inv

\* A chunk that continues the segment its peer is at becomes its last chunk.
LEMMA AppendChunkInv ==
  ASSUME Inv, reducing = 0, NEW c \in NextChunks, AppendChunk(c)
  PROVE  Inv'
  <1>1. Types /\ ChunkOrder /\ Ids /\ Content /\ Pauses /\ Onsets
    BY DEF Inv
  <1>2. PICK k \in DOMAIN segments :
             /\ ChunkAppendableToSegment(c, segments[k])
             /\ segments' = [segments EXCEPT ![k] = WithChunk(@, c)]
             /\ chunks' = Append(chunks, [chunk |-> c, segmentId |-> segments[k].id])
             /\ UNCHANGED <<segmentCursor, reduction>>
    BY DEF AppendChunk, Continued
  <1> PICK s : s = segments[k]
    OBVIOUS
  <1> PICK first : first = chunks[s.id].chunk
    OBVIOUS
  <1> PICK own : own = ChunksOf(s)
    OBVIOUS
  <1>3. /\ c \in Chunk /\ c.id = Len(chunks) + 1 /\ c.begin < c.end
        /\ Files[c.filenum].tempo \in Nat
        /\ c.id \in Nat /\ c.begin \in Nat /\ c.end \in Nat /\ c.t \in Nat
    BY <1>1, NextChunkFacts DEF Chunk
  <1>4. /\ s \in SegmentRecord /\ s.id \in Nat /\ s.id \in own /\ s.id \in DOMAIN chunks
        /\ s.onset = first.t /\ first.t \in Nat
        /\ s.begin \in Nat /\ s.begin < s.end /\ s.end \in Nat
        /\ \A i \in own : first.t <= chunks[i].chunk.t
    <2>1. s \in SegmentRecord
      BY <1>1, Places
    <2>2. s.id \in own /\ s.id \in DOMAIN chunks
      BY <1>1 DEF Ids, ChunksOf
    <2>3. k >= reducing
      BY <1>1, Places
    <2>4. /\ s.onset = FirstTime(k) /\ FirstTime(k) = first.t /\ FirstTime(k) \in Nat
          /\ \A i \in own : first.t <= chunks[i].chunk.t
      BY <1>1, <2>3, FirstTimes DEF Onsets
    <2>5. s.begin < s.end
      BY <1>1 DEF Content
    <2> QED
      BY <2>1, <2>2, <2>4, <2>5 DEF SegmentRecord
  <1>5. /\ c.begin = s.end /\ c.peeraddr = s.peeraddr /\ c.filenum = s.filenum
        /\ c.t - (s.onset + s.duration) < MaxPause
        /\ c.t - s.onset < MaxSegmentDuration
    BY <1>2 DEF ChunkAppendableToSegment
  <1>6. /\ chunks' \in Seq(ChunkEntry)
        /\ DOMAIN chunks' = DOMAIN chunks \cup {c.id} /\ c.id \notin DOMAIN chunks
        /\ \A i \in DOMAIN chunks : chunks'[i] = chunks[i] /\ i < c.id /\ i \in Nat
        /\ chunks'[c.id].chunk = c /\ chunks'[c.id].segmentId = s.id
        /\ ChunkOrder'
    BY <1>1, <1>2, <1>4, Appended
  <1> DEFINE w == WithChunk(s, c)
  <1>7. /\ w.id = s.id /\ w.peeraddr = s.peeraddr /\ w.filenum = s.filenum
        /\ w.begin = s.begin /\ w.end = c.end /\ w.onset = s.onset
        /\ w.duration = IF c.t > first.t THEN c.t - first.t
                        ELSE (c.end - s.begin) * Files[s.filenum].tempo
        /\ w \in SegmentRecord
    <2> DEFINE longer == [s EXCEPT !.end = c.end]
               lasts == IF c.t > s.onset THEN c.t - s.onset ELSE DurationWithUnadjustedRate(longer)
    <2>1. w = [s EXCEPT !.end = c.end, !.duration = lasts]
      BY DEF WithChunk
    <2>2. longer.begin = s.begin /\ longer.end = c.end /\ longer.filenum = s.filenum
      BY <1>4 DEF SegmentRecord
    <2>3. DurationWithUnadjustedRate(longer) = (c.end - s.begin) * Files[s.filenum].tempo
      BY <2>2 DEF DurationWithUnadjustedRate
    <2>4. DurationWithUnadjustedRate(longer) \in Nat
      <3>1. longer.begin < longer.end /\ Files[longer.filenum].tempo \in Nat
        BY <1>3, <1>4, <1>5, <2>2
      <3> HIDE DEF longer
      <3> QED
        BY <1>3, <1>4, <2>2, <3>1, DurationIsNat
    <2> HIDE DEF longer
    <2>5. /\ lasts \in Nat
          /\ lasts = IF c.t > first.t THEN c.t - first.t
                     ELSE (c.end - s.begin) * Files[s.filenum].tempo
      BY <1>3, <1>4, <2>3, <2>4
    <2> HIDE DEF lasts, w
    <2>6. /\ w \in SegmentRecord /\ w.duration = lasts
          /\ w.id = s.id /\ w.peeraddr = s.peeraddr /\ w.filenum = s.filenum
          /\ w.begin = s.begin /\ w.end = c.end /\ w.onset = s.onset
      BY <1>3, <1>4, <2>1, <2>5 DEF SegmentRecord
    <2> QED
      BY <2>5, <2>6
  <1> HIDE DEF w
  <1>8. /\ segments' \in Seq(SegmentRecord) /\ Len(segments') = Len(segments)
        /\ DOMAIN segments' = DOMAIN segments
        /\ segments'[k] = w
        /\ \A m \in DOMAIN segments : m # k => segments'[m] = segments[m]
        /\ \A m \in DOMAIN segments : segments'[m].id = segments[m].id
    <2>1. segments' = [segments EXCEPT ![k] = w]
      BY <1>2 DEF w
    <2>2. segments \in Seq(SegmentRecord)
      BY <1>1 DEF Types
    <2>3. /\ segments' \in Seq(SegmentRecord) /\ Len(segments') = Len(segments)
          /\ DOMAIN segments' = DOMAIN segments
      BY <1>7, <2>1, <2>2
    <2>4. segments'[k] = w /\ \A m \in DOMAIN segments : m # k => segments'[m] = segments[m]
      BY <2>1
    <2> QED
      BY <1>7, <2>3, <2>4
  <1>9. ASSUME NEW m \in DOMAIN segments, m # k
        PROVE  /\ ChunksOf(segments[m])' = ChunksOf(segments[m])
               /\ \A i \in ChunksOf(segments[m]) : chunks'[i] = chunks[i]
               /\ segments'[m] = segments[m]
               /\ segments[m].id \in ChunksOf(segments[m])
    <2>1. segments[m].id # s.id
      <3>1. m < k \/ k < m
        BY <1>1, <1>9, Places
      <3>2. segments[m].id \in Nat /\ segments[k].id \in Nat
        BY <1>1, Places DEF SegmentRecord
      <3> QED
        BY <1>1, <3>1, <3>2 DEF Ids
    <2>2. ChunksOf(segments[m])' = ChunksOf(segments[m])
      BY <1>6, <1>8, <1>9, <2>1 DEF ChunksOf
    <2> QED
      BY <1>1, <1>6, <1>8, <1>9, <2>2 DEF ChunksOf, Ids
  <1>10. /\ ChunksOf(segments[k])' = own \cup {c.id}
         /\ own \subseteq DOMAIN chunks
         /\ \A i \in own : chunks'[i] = chunks[i] /\ i < c.id /\ i \in Nat
    <2>1. \A i \in DOMAIN chunks' : chunks'[i].segmentId = segments'[k].id <=> i \in own \cup {c.id}
      BY <1>6, <1>7, <1>8 DEF ChunksOf
    <2>2. own \subseteq DOMAIN chunks
      BY DEF ChunksOf
    <2> QED
      BY <1>6, <2>1, <2>2 DEF ChunksOf
  <1>11. PICK last \in own : /\ s.end = chunks[last].chunk.end
                             /\ \A i \in own : i <= last
                             /\ LastsUntil(s, last)
    BY <1>1 DEF Content
  <1>12. ASSUME NEW i \in own \cup {c.id}, NEW j \in own \cup {c.id}, Follows(own \cup {c.id}, i, j)
         PROVE  \/ i \in own /\ j \in own /\ Follows(own, i, j)
                \/ i = last /\ j = c.id
    <2>1. i < j /\ i \in Nat /\ j \in Nat /\ last \in Nat /\ last < c.id
      BY <1>3, <1>10, <1>12 DEF Follows
    <2>2. i \in own
      <3>1. CASE i = c.id /\ j \in own
        BY <1>10, <2>1, <3>1
      <3> QED
        BY <2>1, <3>1
    <2>3. CASE j \in own
      BY <1>12, <2>2, <2>3 DEF Follows
    <2>4. CASE j = c.id
      <3>1. last <= i \/ j <= last
        BY <1>12 DEF Follows
      <3>2. i <= last
        BY <1>11, <2>2
      <3> QED
        BY <2>1, <2>4, <3>1, <3>2
    <2> QED
      BY <2>3, <2>4
  <1>13. Types'
    <2>1. segmentCursor' = segmentCursor /\ reducing' = reducing
          /\ reducedTime' = reducedTime /\ previousOnset' = previousOnset
      BY <1>2 DEF reduction
    <2> QED
      BY <1>1, <1>6, <1>8, <2>1 DEF Types
  <1>14. Ids'
    <2>1. ASSUME NEW m \in DOMAIN segments'
          PROVE  /\ segments'[m].id \in ChunksOf(segments[m])'
                 /\ \A i \in ChunksOf(segments[m])' : segments'[m].id <= i
      <3>1. CASE m = k
        <4>1. \A i \in own : s.id <= i
          BY <1>1 DEF Ids
        <4>2. s.id <= c.id
          BY <1>3, <1>4, <1>6
        <4> QED
          BY <1>4, <1>7, <1>8, <1>10, <3>1, <4>1, <4>2
      <3>2. CASE m # k
        <4>1. m \in DOMAIN segments
          BY <1>8
        <4> QED
          BY <1>1, <1>9, <3>2, <4>1 DEF Ids
      <3> QED
        BY <3>1, <3>2
    <2>2. \A j, m \in DOMAIN segments' : j < m => segments'[j].id < segments'[m].id
      BY <1>1, <1>8 DEF Ids
    <2>3. \A i \in DOMAIN chunks' : \E m \in DOMAIN segments' : segments'[m].id = chunks'[i].segmentId
      BY <1>1, <1>6, <1>8 DEF Ids
    <2> QED
      BY <2>1, <2>2, <2>3 DEF Ids
  <1>15. /\ chunks'[s.id].chunk = first
         /\ \A i \in own : chunks'[i].chunk = chunks[i].chunk
         /\ c.id \notin own
    BY <1>4, <1>6, <1>10
  <1>16. ASSUME NEW m \in DOMAIN segments'
         PROVE  LET t == segments'[m] mine == ChunksOf(segments[m])' IN
                /\ t.begin = chunks'[t.id].chunk.begin /\ t.begin < t.end
                /\ \E l \in mine : /\ t.end = chunks'[l].chunk.end
                                   /\ \A i \in mine : i <= l
                                   /\ LastsUntil(segments[m], l)'
                /\ \A i \in mine : chunks'[i].chunk.peeraddr = t.peeraddr
                                  /\ chunks'[i].chunk.filenum = t.filenum
                /\ \A i, j \in mine : Follows(mine, i, j) => chunks'[j].chunk.begin = chunks'[i].chunk.end
                /\ \A i \in mine : chunks'[i].chunk.t - chunks'[t.id].chunk.t < MaxSegmentDuration
    <2>1. CASE m # k
      <3>1. m \in DOMAIN segments
        BY <1>8
      <3> QED
        BY <1>1, <1>9, <2>1, <3>1 DEF Content, LastsUntil
    <2>2. CASE m = k
      <3>1. segments'[m] = w /\ ChunksOf(segments[m])' = own \cup {c.id}
        BY <1>8, <1>10, <2>2
      <3>2. /\ s.begin = first.begin
            /\ \A i \in own : chunks[i].chunk.peeraddr = s.peeraddr /\ chunks[i].chunk.filenum = s.filenum
            /\ \A i, j \in own : Follows(own, i, j) => chunks[j].chunk.begin = chunks[i].chunk.end
            /\ \A i \in own : chunks[i].chunk.t - first.t < MaxSegmentDuration
        BY <1>1 DEF Content
      <3>3. w.begin = chunks'[w.id].chunk.begin /\ w.begin < w.end
        BY <1>3, <1>4, <1>5, <1>7, <1>15, <3>2
      <3>4. LastsUntil(segments[m], c.id)'
        BY <1>6, <1>7, <1>15, <3>1 DEF LastsUntil
      <3>5. \E l \in own \cup {c.id} : /\ w.end = chunks'[l].chunk.end
                                       /\ \A i \in own \cup {c.id} : i <= l
                                       /\ LastsUntil(segments[m], l)'
        <4>1. \A i \in own \cup {c.id} : i <= c.id
          BY <1>3, <1>10
        <4> QED
          BY <1>6, <1>7, <3>4, <4>1
      <3>6. \A i \in own \cup {c.id} : chunks'[i].chunk.peeraddr = w.peeraddr
                                      /\ chunks'[i].chunk.filenum = w.filenum
        BY <1>5, <1>6, <1>7, <1>15, <3>2
      <3>7. ASSUME NEW i \in own \cup {c.id}, NEW j \in own \cup {c.id}, Follows(own \cup {c.id}, i, j)
            PROVE  chunks'[j].chunk.begin = chunks'[i].chunk.end
        <4>1. CASE i \in own /\ j \in own /\ Follows(own, i, j)
          BY <1>15, <3>2, <4>1
        <4>2. CASE i = last /\ j = c.id
          BY <1>5, <1>6, <1>11, <1>15, <4>2
        <4> QED
          BY <1>12, <3>7, <4>1, <4>2
      <3>8. ASSUME NEW i \in own \cup {c.id}
            PROVE  chunks'[i].chunk.t - chunks'[w.id].chunk.t < MaxSegmentDuration
        <4>1. CASE i \in own
          BY <1>7, <1>15, <3>2, <4>1
        <4>2. CASE i = c.id
          BY <1>4, <1>5, <1>6, <1>7, <1>15, <4>2
        <4> QED
          BY <4>1, <4>2
      <3> QED
        BY <3>1, <3>3, <3>5, <3>6, <3>7, <3>8
    <2> QED
      BY <2>1, <2>2
  <1>17. Content'
    BY <1>16 DEF Content
  <1>18. Pauses'
    <2> SUFFICES ASSUME NEW m \in DOMAIN segments',
                        NEW i \in ChunksOf(segments[m])', NEW j \in ChunksOf(segments[m])',
                        Follows(ChunksOf(segments[m])', i, j)
                 PROVE  (chunks[j].chunk.t
                           - SoundOver(chunks[segments[m].id].chunk, chunks[i].chunk) < MaxPause)'
      BY DEF Pauses, Follows
    <2>1. CASE m # k
      <3>1. m \in DOMAIN segments
        BY <1>8
      <3>2. /\ i \in ChunksOf(segments[m]) /\ j \in ChunksOf(segments[m])
            /\ Follows(ChunksOf(segments[m]), i, j)
        BY <1>9, <2>1, <3>1
      <3>3. chunks[j].chunk.t - SoundOver(chunks[segments[m].id].chunk, chunks[i].chunk) < MaxPause
        BY <1>1, <3>1, <3>2 DEF Pauses
      <3> QED
        BY <1>9, <2>1, <3>1, <3>2, <3>3 DEF SoundOver, DurationWithUnadjustedRate
    <2>2. CASE m = k
      <3>1. ChunksOf(segments[m])' = own \cup {c.id} /\ chunks'[segments'[m].id].chunk = first
        BY <1>7, <1>8, <1>10, <1>15, <2>2
      <3>2. CASE i \in own /\ j \in own /\ Follows(own, i, j)
        <4>1. chunks[j].chunk.t - SoundOver(first, chunks[i].chunk) < MaxPause
          BY <1>1, <3>2 DEF Pauses
        <4> QED
          BY <1>15, <3>1, <3>2, <4>1 DEF SoundOver, DurationWithUnadjustedRate
      <3>3. CASE i = last /\ j = c.id
        <4>1. s.onset = FirstTime(k)
          BY <1>1, Places DEF Onsets
        <4>2. s.onset + s.duration = SoundOver(first, chunks[last].chunk)
          BY <1>1, <1>11, <4>1, SegmentOver
        <4>3. c.t - SoundOver(first, chunks[last].chunk) < MaxPause
          BY <1>5, <4>2
        <4> QED
          BY <1>6, <1>15, <3>1, <3>3, <4>3 DEF SoundOver, DurationWithUnadjustedRate
      <3> QED
        BY <1>12, <3>1, <3>2, <3>3
    <2> QED
      BY <2>1, <2>2
  <1>19. Onsets'
    <2>1. reducing' = 0 /\ reducedTime' = 0 /\ previousOnset' = 0
      BY <1>1, <1>2 DEF reduction, Onsets
    <2>2. ASSUME NEW m \in DOMAIN segments'
          PROVE  segments'[m].onset = FirstTime(m)'
      <3>1. m \in DOMAIN segments /\ m # 0 /\ m >= 0
        BY <1>1, <1>8, Places
      <3>2. segments[m].onset = FirstTime(m)
        BY <1>1, <3>1 DEF Onsets
      <3>3. segments'[m].onset = segments[m].onset
        BY <1>7, <1>8, <3>1
      <3>4. segments[m].id \in DOMAIN chunks
        BY <1>1, <3>1, FirstTimes
      <3> QED
        BY <1>6, <1>8, <3>1, <3>2, <3>3, <3>4 DEF FirstTime
    <2> QED
      BY <2>1, <2>2 DEF Onsets
  <1>20. Capped'
    BY <1>2 DEF Capped, reduction
  <1> QED
    BY <1>6, <1>13, <1>14, <1>17, <1>18, <1>19, <1>20 DEF Inv

-----------------------------------------------------------------------------
\* The reduction of the silences starts.
LEMMA StartReductionInv ==
  ASSUME Inv, StartReduction
  PROVE  Inv'
  <1>1. /\ chunks' = chunks /\ segments' = segments /\ segmentCursor' = segmentCursor
        /\ reducing = 0 /\ reducing' = 1 /\ reducedTime' = reducedTime /\ previousOnset' = previousOnset
    BY DEF StartReduction
  <1>2. Types /\ ChunkOrder /\ Ids /\ Content /\ Pauses /\ Onsets
    BY DEF Inv
  <1>3. Types'
    BY <1>1, <1>2, Places DEF Types
  <1>4. ChunkOrder' /\ Ids' /\ Content' /\ Pauses'
    BY <1>1, <1>2 DEF ChunkOrder, Ids, Content, Pauses, ChunksOf, LastsUntil, SoundOver,
                      DurationWithUnadjustedRate
  <1>5. Onsets'
    <2>1. \A k \in DOMAIN segments : segments[k].onset = FirstTime(k)
      BY <1>1, <1>2, Places DEF Onsets
    <2>2. Onset(0)' = 0 /\ FirstTime(0)' = 0
      BY DEF Onset, FirstTime
    <2>3. reducedTime' = 0 /\ previousOnset' = 0 /\ reducing' - 1 = 0
      BY <1>1, <1>2 DEF Onsets
    <2>4. \A k \in DOMAIN segments' : segments'[k].onset = FirstTime(k)'
      BY <1>1, <2>1 DEF FirstTime
    <2>5. previousOnset' = Onset(reducing - 1)' /\ previousOnset' = FirstTime(reducing - 1)' - reducedTime'
      BY <1>1, <2>2, <2>3 DEF Onset, FirstTime
    <2> QED
      BY <1>1, <2>4, <2>5 DEF Onsets
  <1>6. Capped'
    BY <1>1 DEF Capped
  <1> QED
    BY <1>3, <1>4, <1>5, <1>6 DEF Inv

\* The next silence is cut, and the segment after it moved with the ones before.
LEMMA ReduceSilenceInv ==
  ASSUME Inv, ReduceSilence
  PROVE  Inv'
  <1> PICK r : r = reducing
    OBVIOUS
  <1> PICK before : before = FirstTime(r - 1)
    OBVIOUS
  <1> PICK silence : silence = FirstTime(r) - before
    OBVIOUS
  <1> PICK capped : capped = IF silence > MaxPassivity THEN MaxPassivity ELSE silence
    OBVIOUS
  <1> PICK onset : onset = previousOnset + capped
    OBVIOUS
  <1>1. Types /\ ChunkOrder /\ Ids /\ Content /\ Pauses /\ Onsets /\ Capped
    BY DEF Inv
  <1>2. /\ r \in DOMAIN segments /\ r \in Nat /\ r > 0 /\ r - 1 \in 0..Len(segments)
        /\ r \in 0..Len(segments) /\ r + 1 \in 0..(Len(segments) + 1)
    BY <1>1, Places DEF ReduceSilence
  <1>3. /\ segments[r].onset = FirstTime(r)
        /\ previousOnset = Onset(r - 1) /\ previousOnset = before - reducedTime
        /\ FirstTime(r) \in Nat /\ before \in Nat /\ before <= FirstTime(r)
        /\ reducedTime \in Nat /\ previousOnset \in Nat
    <2>1. FirstTime(r) \in Nat /\ before \in Nat /\ before <= FirstTime(r)
      <3>1. r - 1 <= r
        BY <1>2
      <3> QED
        BY <1>1, <1>2, <3>1, FirstTimesAscend
    <2>2. segments[r].onset = FirstTime(r)
      BY <1>1, <1>2 DEF Onsets
    <2>3. previousOnset = Onset(r - 1) /\ previousOnset = before - reducedTime
      BY <1>1, <1>2 DEF Onsets
    <2>4. reducedTime \in Nat /\ previousOnset \in Nat
      BY <1>1 DEF Types
    <2> QED
      BY <2>1, <2>2, <2>3, <2>4
  <1>4. /\ silence \in Nat /\ capped \in Nat /\ onset \in Nat
        /\ segments[r].onset - reducedTime - previousOnset = silence
        /\ Reduction(silence) \in Nat
        /\ segments[r].onset - Reduction(silence) = onset
        /\ onset = FirstTime(r) - Reduction(silence)
    <2>1. silence \in Nat
      BY <1>3
    <2>2. capped \in Nat /\ onset \in Nat
      BY <1>3, <2>1, TimesAssumption
    <2>3. segments[r].onset - reducedTime - previousOnset = silence
      BY <1>3
    <2>4. CASE silence > MaxPassivity
      <3>1. Reduction(silence) = reducedTime + (silence - MaxPassivity)
        BY <2>4 DEF Reduction
      <3> QED
        BY <1>3, <2>1, <2>2, <2>3, <2>4, <3>1, TimesAssumption
    <2>5. CASE ~(silence > MaxPassivity)
      <3>1. Reduction(silence) = reducedTime + 0
        BY <2>5 DEF Reduction
      <3> QED
        BY <1>3, <2>1, <2>2, <2>3, <2>5, <3>1
    <2> QED
      BY <2>4, <2>5
  <1>5. /\ reducedTime' = Reduction(silence)
        /\ segments' = [segments EXCEPT ![r].onset = onset]
        /\ previousOnset' = segments'[r].onset
        /\ reducing' = r + 1 /\ chunks' = chunks /\ segmentCursor' = segmentCursor
    BY <1>2, <1>4 DEF ReduceSilence
  <1> DEFINE moved == [segments[r] EXCEPT !.onset = onset]
  <1>6. /\ moved \in SegmentRecord /\ moved.onset = onset
        /\ moved.id = segments[r].id /\ moved.peeraddr = segments[r].peeraddr
        /\ moved.filenum = segments[r].filenum /\ moved.begin = segments[r].begin
        /\ moved.end = segments[r].end /\ moved.duration = segments[r].duration
    <2>1. segments[r] \in SegmentRecord
      BY <1>1, <1>2, Places
    <2> QED
      BY <1>4, <2>1 DEF SegmentRecord
  <1>7. segments' = [segments EXCEPT ![r] = moved]
    BY <1>5
  <1> HIDE DEF moved
  <1>8. /\ segments' \in Seq(SegmentRecord) /\ Len(segments') = Len(segments)
        /\ DOMAIN segments' = DOMAIN segments
        /\ segments'[r] = moved
        /\ \A k \in DOMAIN segments : k # r => segments'[k] = segments[k]
    BY <1>1, <1>2, <1>6, <1>7 DEF Types
  <1>9. \A k \in DOMAIN segments :
          /\ segments'[k].id = segments[k].id /\ segments'[k].peeraddr = segments[k].peeraddr
          /\ segments'[k].filenum = segments[k].filenum /\ segments'[k].begin = segments[k].begin
          /\ segments'[k].end = segments[k].end /\ segments'[k].duration = segments[k].duration
    BY <1>6, <1>8
  <1>10. \A k \in DOMAIN segments : ChunksOf(segments[k])' = ChunksOf(segments[k])
    BY <1>5, <1>9 DEF ChunksOf
  <1>11. \A k \in 0..Len(segments) : FirstTime(k)' = FirstTime(k)
    <2> TAKE k \in 0..Len(segments)
    <2>1. CASE k = 0
      BY <2>1 DEF FirstTime
    <2>2. CASE k # 0
      <3>1. k \in DOMAIN segments
        BY <1>1, <2>2, Places
      <3>2. segments'[k].id = segments[k].id /\ chunks' = chunks
        BY <1>5, <1>9, <3>1
      <3>3. FirstTime(k)' = chunks'[segments'[k].id].chunk.t
        BY <2>2 DEF FirstTime
      <3>4. FirstTime(k) = chunks[segments[k].id].chunk.t
        BY <2>2 DEF FirstTime
      <3> QED
        BY <3>2, <3>3, <3>4
    <2> QED
      BY <2>1, <2>2
  <1>12. Types'
    <2>1. reducedTime' \in Nat /\ previousOnset' \in Nat
      BY <1>4, <1>5, <1>6, <1>8
    <2>2. reducing' \in 0..(Len(segments') + 1)
      BY <1>2, <1>5, <1>8
    <2> QED
      BY <1>1, <1>5, <1>8, <2>1, <2>2 DEF Types
  <1>13. ChunkOrder'
    BY <1>1, <1>5 DEF ChunkOrder
  <1>14. Ids'
    BY <1>1, <1>5, <1>8, <1>9, <1>10 DEF Ids
  <1>15. Content'
    <2> SUFFICES ASSUME NEW k \in DOMAIN segments'
                 PROVE  LET s == segments'[k] own == ChunksOf(segments[k])' IN
                        /\ s.begin = chunks'[s.id].chunk.begin /\ s.begin < s.end
                        /\ \E last \in own : /\ s.end = chunks'[last].chunk.end
                                             /\ \A i \in own : i <= last
                                             /\ LastsUntil(segments[k], last)'
                        /\ \A i \in own : chunks'[i].chunk.peeraddr = s.peeraddr
                                         /\ chunks'[i].chunk.filenum = s.filenum
                        /\ \A i, j \in own : Follows(own, i, j) => chunks'[j].chunk.begin = chunks'[i].chunk.end
                        /\ \A i \in own : chunks'[i].chunk.t - chunks'[s.id].chunk.t < MaxSegmentDuration
      BY DEF Content
    <2>1. k \in DOMAIN segments /\ chunks' = chunks /\ ChunksOf(segments[k])' = ChunksOf(segments[k])
      BY <1>5, <1>8, <1>10
    <2>2. /\ segments'[k].id = segments[k].id /\ segments'[k].peeraddr = segments[k].peeraddr
          /\ segments'[k].filenum = segments[k].filenum /\ segments'[k].begin = segments[k].begin
          /\ segments'[k].end = segments[k].end /\ segments'[k].duration = segments[k].duration
      BY <1>9, <2>1
    <2>3. \A last \in ChunksOf(segments[k]) : LastsUntil(segments[k], last)' <=> LastsUntil(segments[k], last)
      BY <2>1, <2>2 DEF LastsUntil
    <2> QED
      BY <1>1, <2>1, <2>2, <2>3 DEF Content
  <1>16. Pauses'
    <2> SUFFICES ASSUME NEW k \in DOMAIN segments',
                        NEW i \in ChunksOf(segments[k])', NEW j \in ChunksOf(segments[k])',
                        Follows(ChunksOf(segments[k])', i, j)
                 PROVE  (chunks[j].chunk.t
                           - SoundOver(chunks[segments[k].id].chunk, chunks[i].chunk) < MaxPause)'
      BY DEF Pauses, Follows
    <2>1. chunks[j].chunk.t - SoundOver(chunks[segments[k].id].chunk, chunks[i].chunk) < MaxPause
      BY <1>1, <1>8, <1>10 DEF Pauses
    <2> QED
      BY <1>5, <1>8, <1>9, <2>1 DEF SoundOver, DurationWithUnadjustedRate
  <1>17. Onsets'
    <2>1. ASSUME NEW k \in DOMAIN segments', k >= reducing'
          PROVE  segments'[k].onset = FirstTime(k)'
      <3>1. k \in DOMAIN segments /\ k # r /\ k >= r /\ k \in 0..Len(segments)
        BY <1>1, <1>2, <1>5, <1>8, <2>1, Places
      <3>2. segments[k].onset = FirstTime(k)
        BY <1>1, <3>1 DEF Onsets
      <3> QED
        BY <1>8, <1>11, <3>1, <3>2
    <2>2. reducing' - 1 = r
      BY <1>2, <1>5
    <2>3. Onset(reducing - 1)' = segments'[r].onset
      BY <1>2, <2>2 DEF Onset
    <2>4. FirstTime(reducing - 1)' = FirstTime(r)
      <3>1. FirstTime(r)' = FirstTime(r)
        BY <1>2, <1>11
      <3>2. FirstTime(reducing - 1)' = IF r = 0 THEN 0 ELSE chunks'[segments'[r].id].chunk.t
        BY <2>2 DEF FirstTime
      <3>3. FirstTime(r)' = IF r = 0 THEN 0 ELSE chunks'[segments'[r].id].chunk.t
        BY DEF FirstTime
      <3> QED
        BY <3>1, <3>2, <3>3
    <2>5. previousOnset' = FirstTime(reducing - 1)' - reducedTime'
      BY <1>4, <1>5, <1>6, <1>8, <2>4
    <2>6. ~(reducing' = 0)
      BY <1>2, <1>5
    <2> QED
      BY <1>5, <2>1, <2>3, <2>5, <2>6 DEF Onsets
  <1>18. Capped'
    <2>1. ASSUME NEW k \in 0..(r - 1)
          PROVE  Onset(k)' = Onset(k)
      <3>1. CASE k = 0
        BY <3>1 DEF Onset
      <3>2. CASE k # 0
        <4>1. k \in DOMAIN segments /\ k # r
          BY <1>1, <1>2, <3>2, Places
        <4> QED
          BY <1>8, <3>2, <4>1 DEF Onset
      <3> QED
        BY <3>1, <3>2
    <2>2. ASSUME NEW k \in 1..(r - 1)
          PROVE  Onset(k)' - Onset(k - 1)'
                   = (IF FirstTime(k)' - FirstTime(k - 1)' > MaxPassivity THEN MaxPassivity
                      ELSE FirstTime(k)' - FirstTime(k - 1)')
      <3>1. /\ k \in 0..(r - 1) /\ k - 1 \in 0..(r - 1)
            /\ k \in 0..Len(segments) /\ k - 1 \in 0..Len(segments)
            /\ k \in 1..(reducing - 1)
        BY <1>1, <1>2, Places
      <3>2. Onset(k)' = Onset(k) /\ Onset(k - 1)' = Onset(k - 1)
        BY <2>1, <3>1
      <3>3. FirstTime(k)' = FirstTime(k) /\ FirstTime(k - 1)' = FirstTime(k - 1)
        BY <1>11, <3>1
      <3> QED
        BY <1>1, <3>1, <3>2, <3>3 DEF Capped
    <2>3. /\ Onset(r)' = onset /\ Onset(r - 1)' = previousOnset
          /\ FirstTime(r)' = FirstTime(r) /\ FirstTime(r - 1)' = before
      <3>1. Onset(r)' = onset
        BY <1>2, <1>6, <1>8 DEF Onset
      <3>2. r - 1 \in 0..(r - 1)
        BY <1>2
      <3> QED
        BY <1>2, <1>3, <1>11, <2>1, <3>1, <3>2
    <2>4. Onset(r)' - Onset(r - 1)'
            = (IF FirstTime(r)' - FirstTime(r - 1)' > MaxPassivity THEN MaxPassivity
               ELSE FirstTime(r)' - FirstTime(r - 1)')
      BY <1>3, <1>4, <2>3
    <2>5. reducing' - 1 = r /\ \A k \in 1..r : k \in 1..(r - 1) \/ k = r
      BY <1>2, <1>5
    <2> QED
      BY <2>2, <2>4, <2>5 DEF Capped
  <1> QED
    BY <1>12, <1>13, <1>14, <1>15, <1>16, <1>17, <1>18 DEF Inv

\* Every step keeps the invariant.
LEMMA NextInv == Inv /\ [Next]_vars => Inv'
  <1> SUFFICES ASSUME Inv, [Next]_vars
               PROVE  Inv'
    OBVIOUS
  <1>1. CASE InterpretChunk
    BY <1>1, AppendChunkInv, BeginSegmentInv DEF InterpretChunk
  <1>2. CASE StartReduction
    BY <1>2, StartReductionInv
  <1>3. CASE ReduceSilence
    BY <1>3, ReduceSilenceInv
  <1>4. CASE UNCHANGED vars
    <2>1. /\ chunks' = chunks /\ segments' = segments /\ segmentCursor' = segmentCursor
          /\ reducing' = reducing /\ reducedTime' = reducedTime /\ previousOnset' = previousOnset
      BY <1>4 DEF vars
    <2>2. Types' /\ ChunkOrder'
      BY <2>1 DEF Inv, Types, ChunkOrder
    <2>3. Ids' /\ Content' /\ Pauses'
      BY <2>1 DEF Inv, Ids, Content, Pauses, ChunksOf, LastsUntil, SoundOver, DurationWithUnadjustedRate
    <2>4. Onsets' /\ Capped'
      BY <2>1 DEF Inv, Onsets, Capped, FirstTime, Onset
    <2> QED
      BY <2>2, <2>3, <2>4 DEF Inv
  <1> QED
    BY <1>1, <1>2, <1>3, <1>4 DEF Next

\* What the reductions and the loop of interpret keep true together.
THEOREM Invariance == Spec => []Inv
  BY InitInv, NextInv, PTL DEF Spec

-----------------------------------------------------------------------------
\* The variables keep their types: onsets and durations are never negative, each
\* chunk's segment is in the score and a cursor points to no segment past its end.
THEOREM TypeCorrect == Spec => []TypeOK
  <1>1. Inv => TypeOK
    <2> SUFFICES ASSUME Inv
                 PROVE  TypeOK
      OBVIOUS
    <2>1. Types /\ Ids
      BY DEF Inv
    <2>2. \A i \in DOMAIN chunks : chunks[i].chunk \in Chunk
      BY <2>1, Places
    <2>3. segments \in Seq([id : Nat, peeraddr : Peers, filenum : DOMAIN Files,
                            begin : Nat, end : Nat, onset : Nat, duration : Nat])
      BY <2>1 DEF Types, SegmentRecord
    <2> QED
      BY <2>1, <2>2, <2>3 DEF TypeOK, Types, Ids
  <1> QED
    BY <1>1, Invariance, PTL

\* A segment is its chunks without gap or overlap, from one peer and in one file,
\* whatever the peers' chunks interleave like.
THEOREM SegmentsAreTheirChunks == Spec => []SegmentIsItsChunks
  <1>1. Inv => SegmentIsItsChunks
    <2> SUFFICES ASSUME Inv
                 PROVE  SegmentIsItsChunks
      OBVIOUS
    <2>1. Types /\ Ids /\ Content
      BY DEF Inv
    <2>2. ASSUME NEW j \in DOMAIN segments, NEW k \in DOMAIN segments, segments[j].id = segments[k].id
          PROVE  j = k
      <3>1. j \in Nat /\ k \in Nat /\ segments[j].id \in Nat /\ segments[k].id \in Nat
        BY <2>1, Places DEF SegmentRecord
      <3>2. ~(j < k) /\ ~(k < j)
        BY <2>1, <2>2, <3>1 DEF Ids
      <3> QED
        BY <3>1, <3>2
    <2>3. ASSUME NEW k \in DOMAIN segments
          PROVE  LET s == segments[k] own == ChunksOf(s) IN
                 /\ own # {}
                 /\ s.begin = chunks[First(own)].chunk.begin
                 /\ \E last \in own : s.end = chunks[last].chunk.end /\ \A i \in own : i <= last
                 /\ \A i \in own : chunks[i].chunk.peeraddr = s.peeraddr
                                  /\ chunks[i].chunk.filenum = s.filenum
                 /\ \A i, j \in own : Follows(own, i, j) => chunks[j].chunk.begin = chunks[i].chunk.end
      <3>1. First(ChunksOf(segments[k])) = segments[k].id
        BY <2>1, FirstIsId
      <3>2. ChunksOf(segments[k]) # {}
        BY <2>1 DEF Ids
      <3> QED
        BY <2>1, <3>1, <3>2 DEF Content
    <2> QED
      BY <2>2, <2>3 DEF SegmentIsItsChunks
  <1> QED
    BY <1>1, Invariance, PTL

\* The silence before the segment that the reduction has come to is not negative
\* either: the score stays in order of onset while it is being reduced.
THEOREM ScoreInOrder == Spec => []OnsetsAscend
  <1>1. Inv => OnsetsAscend
    <2> SUFFICES ASSUME Inv, NEW k \in 1..(Len(segments) - 1)
                 PROVE  segments[k].onset <= segments[k + 1].onset
      BY DEF OnsetsAscend
    <2>1. Types /\ ChunkOrder /\ Ids /\ Onsets /\ Capped
      BY DEF Inv
    <2>2. /\ k \in Nat /\ k # 0 /\ k \in DOMAIN segments /\ k + 1 \in DOMAIN segments
          /\ k \in 0..Len(segments) /\ k + 1 \in 0..Len(segments)
          /\ k + 1 # 0 /\ k <= k + 1
          /\ segments[k].onset \in Nat /\ segments[k + 1].onset \in Nat /\ reducing \in Nat
      <3>1. k \in DOMAIN segments /\ k + 1 \in DOMAIN segments
        BY <2>1, Places
      <3>2. segments[k].onset \in Nat /\ segments[k + 1].onset \in Nat
        BY <2>1, <3>1, Places DEF SegmentRecord
      <3>3. Len(segments) \in Nat /\ DOMAIN segments = 1..Len(segments) /\ reducing \in Nat
        BY <2>1, Places DEF Types
      <3> QED
        BY <3>1, <3>2, <3>3
    <2>3. FirstTime(k) \in Nat /\ FirstTime(k + 1) \in Nat /\ FirstTime(k) <= FirstTime(k + 1)
      BY <2>1, <2>2, FirstTimesAscend
    <2>4. CASE k + 1 < reducing
      <3>1. Onset(k + 1) = segments[k + 1].onset /\ Onset(k) = segments[k].onset /\ (k + 1) - 1 = k
        BY <2>2 DEF Onset
      <3>2. k + 1 \in 1..(reducing - 1)
        BY <2>2, <2>4
      <3>3. segments[k + 1].onset - segments[k].onset
              = (IF FirstTime(k + 1) - FirstTime(k) > MaxPassivity THEN MaxPassivity
                 ELSE FirstTime(k + 1) - FirstTime(k))
        BY <2>1, <3>1, <3>2 DEF Capped
      <3> QED
        BY <2>2, <2>3, <3>3, TimesAssumption
    <2>5. CASE k + 1 = reducing
      <3>1. segments[k + 1].onset = FirstTime(k + 1)
        BY <2>1, <2>2, <2>5 DEF Onsets
      <3>2. reducing - 1 = k /\ reducing > 0
        BY <2>2, <2>5
      <3>3. segments[k].onset = FirstTime(k) - reducedTime /\ reducedTime \in Nat
        BY <2>1, <2>2, <3>2 DEF Onsets, Onset, Types
      <3> QED
        BY <2>2, <2>3, <3>1, <3>3
    <2>6. CASE k >= reducing
      BY <2>1, <2>2, <2>3, <2>6 DEF Onsets
    <2> QED
      BY <2>2, <2>4, <2>5, <2>6
  <1> QED
    BY <1>1, Invariance, PTL

\* Every segment ends within MAX_SEGMENT_DURATION of its first chunk, also one
\* whose file is slower than the peer sends.
THEOREM SegmentsEnd == Spec => []SpanBounded
  <1>1. Inv => SpanBounded
    <2> SUFFICES ASSUME Inv, NEW k \in DOMAIN segments,
                        NEW i \in ChunksOf(segments[k]), NEW j \in ChunksOf(segments[k])
                 PROVE  chunks[j].chunk.t - chunks[i].chunk.t < MaxSegmentDuration
      BY DEF SpanBounded
    <2>1. Types /\ ChunkOrder /\ Ids /\ Content
      BY DEF Inv
    <2>2. chunks[j].chunk.t - FirstTime(k) < MaxSegmentDuration
      BY <2>1, FirstTimes DEF Content
    <2>3. FirstTime(k) \in Nat /\ FirstTime(k) <= chunks[i].chunk.t
      BY <2>1, FirstTimes
    <2>4. chunks[i].chunk.t \in Nat /\ chunks[j].chunk.t \in Nat
      BY <2>1, Places DEF ChunksOf, Chunk
    <2> QED
      BY <2>2, <2>3, <2>4, TimesAssumption
  <1> QED
    BY <1>1, Invariance, PTL

\* No chunk is joined to a segment that fell silent MaxPause or more before it.
THEOREM LongPausesDivide == Spec => []NoLongPause
  <1>1. Inv => NoLongPause
    BY FirstIsId DEF Inv, NoLongPause, Pauses
  <1> QED
    BY <1>1, Invariance, PTL

\* The reduced score has every silence of the original one, cut to MaxPassivity.
THEOREM SilencesAreCapped == Spec => []SilencesCapped
  <1>1. Inv => SilencesCapped
    <2> SUFFICES ASSUME Inv, NEW k \in 1..(reducing - 1)
                 PROVE  Onset(k) - Onset(k - 1)
                          = (IF OriginalOnset(k) - OriginalOnset(k - 1) > MaxPassivity THEN MaxPassivity
                             ELSE OriginalOnset(k) - OriginalOnset(k - 1))
      BY DEF SilencesCapped
    <2>1. Types /\ ChunkOrder /\ Ids /\ Capped
      BY DEF Inv
    <2>2. \A m \in 0..Len(segments) : OriginalOnset(m) = FirstTime(m)
      <3> TAKE m \in 0..Len(segments)
      <3>1. CASE m = 0
        BY <3>1 DEF OriginalOnset, FirstTime
      <3>2. CASE m # 0
        BY <2>1, <3>2, Places, FirstTimes
      <3> QED
        BY <3>1, <3>2
    <2>3. k \in 0..Len(segments) /\ k - 1 \in 0..Len(segments)
      BY <2>1, Places DEF Types
    <2> QED
      BY <2>1, <2>2, <2>3 DEF Capped
  <1> QED
    BY <1>1, Invariance, PTL
=============================================================================

----------------------- MODULE SegmentPlayback_proofs -----------------------
(***************************************************************************)
(* Proofs about SegmentPlayback for every score, every pool of sources and *)
(* every number of rewinds.  Type correctness needs no assumption beyond   *)
(* those of the module.  That sources are neither shared nor lost needs    *)
(* OnePlayPerSegment: one of the visualizers makes segments sound, and no  *)
(* segment is replayed before its previous play is over.                   *)
(***************************************************************************)
EXTENDS SegmentPlayback, SequenceTheorems, TLAPS

OnePlayPerSegment == (\E w \in Visualizers : Sounding = {w}) /\ ~Overlap

Answer == [play : Play, visualizer : Visualizers]

-----------------------------------------------------------------------------
(* Sequences used as queues. *)

LEMMA RangeAppend ==
  ASSUME NEW S, NEW q \in Seq(S), NEW e \in S
  PROVE  /\ Append(q, e) \in Seq(S)
         /\ Range(Append(q, e)) = Range(q) \cup {e}
<1>1. /\ Append(q, e) \in Seq(S)
      /\ Len(Append(q, e)) = Len(q) + 1
      /\ \A i \in 1..Len(q) : Append(q, e)[i] = q[i]
      /\ Append(q, e)[Len(q) + 1] = e
  BY AppendProperties
<1>2. Len(q) \in Nat
  OBVIOUS
<1>3. Range(q) = {q[i] : i \in 1..Len(q)}
  BY RangeEquality
<1>4. Range(Append(q, e)) = {Append(q, e)[i] : i \in 1..(Len(q) + 1)}
  BY <1>1, RangeEquality
<1>5. 1..(Len(q) + 1) = (1..Len(q)) \cup {Len(q) + 1}
  BY <1>2
<1> QED BY <1>1, <1>3, <1>4, <1>5

LEMMA RangeHeadTail ==
  ASSUME NEW S, NEW q \in Seq(S), q # <<>>
  PROVE  /\ Head(q) \in S
         /\ Tail(q) \in Seq(S)
         /\ Head(q) = q[1]
         /\ 1 \in DOMAIN q
         /\ Len(q) \in Nat
         /\ DOMAIN q = 1..Len(q)
         /\ DOMAIN Tail(q) = 1..(Len(q) - 1)
         /\ \A i \in DOMAIN Tail(q) : i + 1 \in DOMAIN q /\ Tail(q)[i] = q[i + 1]
         /\ Range(q) = {Head(q)} \cup Range(Tail(q))
<1>1. /\ Head(q) \in S
      /\ Tail(q) \in Seq(S)
      /\ Len(Tail(q)) = Len(q) - 1
      /\ \A i \in 1..Len(Tail(q)) : Tail(q)[i] = q[i + 1]
  BY HeadTailProperties
<1>2. Len(q) \in Nat /\ Len(q) # 0 /\ DOMAIN q = 1..Len(q) /\ Head(q) = q[1]
  OBVIOUS
<1>3. DOMAIN Tail(q) = 1..(Len(q) - 1)
  BY <1>1, <1>2
<1>4. \A i \in DOMAIN Tail(q) : i + 1 \in DOMAIN q /\ Tail(q)[i] = q[i + 1]
  BY <1>1, <1>2, <1>3
<1>5. Range(q) = {q[i] : i \in 1..Len(q)}
  BY RangeEquality
<1>6. Range(Tail(q)) = {Tail(q)[i] : i \in 1..(Len(q) - 1)}
  BY <1>1, RangeEquality
<1>7. \A k \in 1..Len(q) : k = 1 \/ (k - 1 \in 1..(Len(q) - 1) /\ k = (k - 1) + 1)
  BY <1>2
<1>8. Range(q) = {Head(q)} \cup Range(Tail(q))
  <2>1. ASSUME NEW x \in Range(q) PROVE x \in {Head(q)} \cup Range(Tail(q))
    <3>1. PICK k \in 1..Len(q) : x = q[k]
      BY <1>5, <2>1
    <3>2. CASE k = 1
      BY <1>2, <3>1, <3>2
    <3>3. CASE k - 1 \in 1..(Len(q) - 1) /\ k = (k - 1) + 1
      BY <1>3, <1>4, <1>6, <3>1, <3>3
    <3> QED BY <1>7, <3>2, <3>3
  <2>2. Range(Tail(q)) \subseteq Range(q)
    BY <1>2, <1>3, <1>4, <1>5, <1>6
  <2>3. Head(q) \in Range(q)
    BY <1>2, <1>5
  <2> QED BY <2>1, <2>2, <2>3
<1> QED BY <1>1, <1>2, <1>3, <1>4, <1>8

-----------------------------------------------------------------------------
(* Type correctness. *)

LEMMA InitType == Init => TypeOK
  BY ScoreAssumption DEF Init, TypeOK, Segments

\* Each operation of the orchestra and of the visualizers keeps the types.
LEMMA NextType == TypeOK /\ [Next]_vars => TypeOK'
<1> SUFFICES ASSUME TypeOK, [Next]_vars PROVE TypeOK'
  OBVIOUS
<1> USE ScoreAssumption DEF TypeOK, Segments
<1>1. CASE PlaySegment
  <2> DEFINE new == [segment |-> currentSegmentIndex, pass |-> pass]
  <2>1. new \in Play
    BY <1>1 DEF PlaySegment, VisualizeSegment, Play
  <2>2. segmentMessages' \in [Visualizers -> Seq(Play)]
    BY <1>1, <2>1, AppendProperties DEF PlaySegment, VisualizeSegment
  <2>3. /\ allocated' \subseteq Sources
        /\ soundSourceId' \in [Segments -> Sources \cup {NoSource, Unset}]
    BY <1>1 DEF PlaySegment, VisualizeSegment, AllocateSource
  <2>4. currentSegmentIndex' \in 1..(NumSegments + 1)
    BY <1>1 DEF PlaySegment, VisualizeSegment
  <2> QED BY <1>1, <2>2, <2>3, <2>4 DEF PlaySegment, VisualizeSegment
<1>2. CASE Rewind
  BY <1>2 DEF Rewind, RewindIndex
<1>3. ASSUME NEW v \in Visualizers, HandleSegmentMessage(v) PROVE TypeOK'
  <2>1. segmentMessages[v] \in Seq(Play) /\ segmentMessages[v] # <<>>
    BY <1>3 DEF HandleSegmentMessage
  <2>2. Head(segmentMessages[v]) \in Play /\ Tail(segmentMessages[v]) \in Seq(Play)
    BY <2>1, RangeHeadTail
  <2>3. segmentMessages' \in [Visualizers -> Seq(Play)]
    BY <1>3, <2>2 DEF HandleSegmentMessage
  <2>4. [play |-> Head(segmentMessages[v]), visualizer |-> v] \in Answer
    BY <2>2 DEF Answer
  <2>5. visualizing' \in Seq(Answer)
    BY <1>3, <2>4, AppendProperties DEF HandleSegmentMessage, Answer
  <2> QED BY <1>3, <2>3, <2>5 DEF HandleSegmentMessage, Answer
<1>4. CASE HandleVisualizingMessage
  <2>1. Head(visualizing) \in Answer /\ Tail(visualizing) \in Seq(Answer)
    BY <1>4, RangeHeadTail DEF HandleVisualizingMessage, Answer
  <2>2. VoicesFor(Head(visualizing)) \subseteq Voice
    BY <2>1 DEF VoicesFor, Voice, Answer
  <2> QED BY <1>4, <2>1, <2>2 DEF HandleVisualizingMessage, Answer
<1>5. CASE SomeVoiceStops
  BY <1>5 DEF SomeVoiceStops, StoppedPlaying
<1>6. CASE UNCHANGED vars
  BY <1>6 DEF vars
<1> QED BY <1>1, <1>2, <1>3, <1>4, <1>5, <1>6 DEF Next

\* In every state of every run the variables have the types that TypeOK gives
\* them; in particular a voice always sounds on a real source.
THEOREM TypeCorrect == Spec => []TypeOK
<1> QED BY InitType, NextType, PTL DEF Spec

-----------------------------------------------------------------------------
(* The inductive invariant.  The code has no record of who holds a source,  *)
(* so exclusiveness rests on bookkeeping: every segment has one play at a   *)
(* time, in one place (AtMostOnce); its sound_source_id is not overwritten  *)
(* meanwhile, so a voice sounds where its segment points (VoiceOnItsSource);*)
(* no two such segments point to the same source (HoldersDiffer); and the   *)
(* flags are exactly the sources pointed to (NoLeak).                       *)

AtMostOnce ==
  /\ \A v \in Sounding : \A i, j \in DOMAIN segmentMessages[v] :
       segmentMessages[v][i].segment = segmentMessages[v][j].segment => i = j
  /\ \A i, j \in DOMAIN visualizing :
       visualizing[i].play.segment = visualizing[j].play.segment => i = j
  /\ \A a, b \in voices : a.play.segment = b.play.segment => a = b
  /\ \A v \in Sounding : \A p \in Range(segmentMessages[v]) :
       /\ \A m \in Range(visualizing) : m.play.segment # p.segment
       /\ \A a \in voices : a.play.segment # p.segment
  /\ \A m \in Range(visualizing), a \in voices : m.play.segment # a.play.segment

VoiceOnItsSource == \A a \in voices : a.source = soundSourceId[a.play.segment]

HoldersDiffer ==
  \A p, q \in Pending :
    soundSourceId[p.segment] = soundSourceId[q.segment]
      /\ soundSourceId[p.segment] \in Sources
    => p.segment = q.segment

Inv == TypeOK /\ AtMostOnce /\ VoiceOnItsSource /\ HoldersDiffer /\ NoLeak

LEMMA InitInv == Init => Inv
<1> SUFFICES ASSUME Init PROVE Inv
  OBVIOUS
<1>1. TypeOK
  BY InitType
<1>2. \A v \in Sounding : segmentMessages[v] = <<>> /\ Range(segmentMessages[v]) = {}
  BY VisualizersAssumption DEF Init, Range
<1>3. visualizing = <<>> /\ Range(visualizing) = {} /\ voices = {}
  BY DEF Init, Range
<1>4. Pending = {}
  BY <1>2, <1>3 DEF Pending
<1>5. AtMostOnce
  BY <1>2, <1>3 DEF AtMostOnce
<1> QED BY <1>1, <1>3, <1>4, <1>5
        DEF Init, Inv, VoiceOnItsSource, HoldersDiffer, NoLeak

\* With one sounding visualizer the plays under way are in its queue, in the
\* queue of the server or among the voices.
LEMMA PendingPlaces ==
  ASSUME NEW w \in Visualizers, Sounding = {w}
  PROVE  /\ Pending = Range(segmentMessages[w])
                       \cup {m.play : m \in Range(visualizing)}
                       \cup {a.play : a \in voices}
         /\ Pending' = Range(segmentMessages'[w])
                       \cup {m.play : m \in Range(visualizing')}
                       \cup {a.play : a \in voices'}
  BY DEF Pending

\* Pending plays are plays.
LEMMA PendingType ==
  ASSUME TypeOK, NEW w \in Visualizers, Sounding = {w}
  PROVE  Pending \subseteq Play
<1>1. segmentMessages[w] \in Seq(Play) /\ visualizing \in Seq(Answer) /\ voices \subseteq Voice
  BY DEF TypeOK, Answer
<1>2. Range(segmentMessages[w]) \subseteq Play /\ Range(visualizing) \subseteq Answer
  BY <1>1, RangeOfSeq
<1> QED BY <1>1, <1>2, PendingPlaces DEF Answer, Voice

\* A new play takes a free source or none, and no other play has its segment.
LEMMA PlaySegmentInv ==
  ASSUME Inv, TypeOK', NEW w \in Visualizers, Sounding = {w}, ~Overlap, PlaySegment
  PROVE  Inv' /\ Pending' = Pending \cup {[segment |-> currentSegmentIndex, pass |-> pass]}
<1> DEFINE s == currentSegmentIndex
           new == [segment |-> s, pass |-> pass]
           q == segmentMessages[w]
<1>1. s \in Segments /\ new \in Play /\ new.segment = s
  BY ScoreAssumption DEF Inv, TypeOK, Segments, Play, PlaySegment, VisualizeSegment
<1>2. \A p \in Pending : p.segment # s
  BY DEF PlaySegment, VisualizeSegment, InFlight
<1>3. q \in Seq(Play) /\ segmentMessages'[w] = Append(q, new)
  BY <1>1 DEF Inv, TypeOK, PlaySegment, VisualizeSegment
<1>4. /\ Range(segmentMessages'[w]) = Range(q) \cup {new}
      /\ Len(segmentMessages'[w]) = Len(q) + 1
      /\ \A i \in 1..Len(q) : segmentMessages'[w][i] = q[i]
      /\ segmentMessages'[w][Len(q) + 1] = new
      /\ segmentMessages'[w] \in Seq(Play)
      /\ Len(q) \in Nat
  BY <1>1, <1>3, RangeAppend, AppendProperties
<1>5. visualizing' = visualizing /\ voices' = voices
  BY DEF PlaySegment, VisualizeSegment
<1>6. Pending' = Pending \cup {new}
  BY <1>4, <1>5, PendingPlaces
<1>7. PICK src \in AllocateSource :
        /\ allocated' = IF src = NoSource THEN allocated ELSE allocated \cup {src}
        /\ soundSourceId' = [soundSourceId EXCEPT ![s] = src]
  BY DEF PlaySegment, VisualizeSegment
<1>8. /\ soundSourceId'[s] = src
      /\ \A t \in Segments : t # s => soundSourceId'[t] = soundSourceId[t]
  BY <1>1, <1>7 DEF Inv, TypeOK
<1>9. Pending \subseteq Play /\ \A p \in Pending : p.segment \in Segments
  BY PendingType DEF Inv, Play
<1>10. \A p \in Pending : soundSourceId'[p.segment] = soundSourceId[p.segment]
  BY <1>2, <1>8, <1>9
<1>11. src \in Sources => src \notin allocated
  BY SourcesAssumption DEF AllocateSource
<1>12. \/ src \in Sources /\ allocated' = allocated \cup {src}
       \/ src \notin Sources /\ allocated' = allocated
  BY <1>7, SourcesAssumption DEF AllocateSource
<1>13. AtMostOnce'
  <2>1. ASSUME NEW i \in DOMAIN segmentMessages'[w], NEW j \in DOMAIN segmentMessages'[w],
               segmentMessages'[w][i].segment = segmentMessages'[w][j].segment
        PROVE  i = j
    <3>1. i \in 1..(Len(q) + 1) /\ j \in 1..(Len(q) + 1)
      BY <1>4
    <3>2. \A k \in 1..Len(q) : q[k].segment # s
      BY <1>2, <1>3, PendingPlaces DEF Range
    <3>3. CASE i \in 1..Len(q) /\ j \in 1..Len(q)
      BY <1>3, <1>4, <2>1, <3>3 DEF Inv, AtMostOnce
    <3>4. CASE i = Len(q) + 1 /\ j \in 1..Len(q)
      BY <1>1, <1>4, <2>1, <3>2, <3>4
    <3>5. CASE i \in 1..Len(q) /\ j = Len(q) + 1
      BY <1>1, <1>4, <2>1, <3>2, <3>5
    <3> QED BY <1>4, <3>1, <3>3, <3>4, <3>5
  <2>2. \A p \in Range(segmentMessages'[w]) :
          /\ \A m \in Range(visualizing) : m.play.segment # p.segment
          /\ \A a \in voices : a.play.segment # p.segment
    BY <1>1, <1>2, <1>4, PendingPlaces DEF Inv, AtMostOnce
  <2> QED BY <1>5, <2>1, <2>2 DEF Inv, AtMostOnce
<1>14. VoiceOnItsSource'
  BY <1>5, <1>10, PendingPlaces DEF Inv, VoiceOnItsSource
<1>15. \A p \in Pending : soundSourceId[p.segment] \in Sources
                            => soundSourceId[p.segment] \in allocated
  BY DEF Inv, NoLeak
<1>16. HoldersDiffer'
  BY <1>1, <1>6, <1>8, <1>10, <1>11, <1>15 DEF Inv, HoldersDiffer
<1>17. NoLeak'
  BY <1>1, <1>6, <1>8, <1>10, <1>12 DEF Inv, NoLeak
<1> QED BY <1>6, <1>13, <1>14, <1>16, <1>17 DEF Inv

\* A visualizer moves a play from its queue to that of the server, or drops it
\* when it makes no sound: no play begins or ends.
LEMMA HandleSegmentMessageInv ==
  ASSUME Inv, TypeOK', NEW w \in Visualizers, Sounding = {w},
         NEW v \in Visualizers, HandleSegmentMessage(v)
  PROVE  Inv' /\ Pending' = Pending
<1> DEFINE q == segmentMessages[w]
           answer == [play |-> Head(q), visualizer |-> w]
<1>1. UNCHANGED <<allocated, soundSourceId, voices>>
  BY DEF HandleSegmentMessage
<1>2. CASE v # w
  <2>1. segmentMessages'[w] = q /\ visualizing' = visualizing
    BY <1>2 DEF HandleSegmentMessage, Inv, TypeOK
  <2>2. Pending' = Pending
    BY <1>1, <2>1, PendingPlaces
  <2> QED BY <1>1, <2>1, <2>2
          DEF Inv, AtMostOnce, VoiceOnItsSource, HoldersDiffer, NoLeak
<1>3. CASE v = w
  <2>1. q \in Seq(Play) /\ q # <<>> /\ visualizing \in Seq(Answer)
    BY <1>3 DEF HandleSegmentMessage, Inv, TypeOK, Answer
  <2>2. segmentMessages'[w] = Tail(q) /\ visualizing' = Append(visualizing, answer)
    BY <1>3 DEF HandleSegmentMessage, Inv, TypeOK
  <2>3. /\ Head(q) \in Play /\ Head(q) = q[1] /\ 1 \in DOMAIN q
        /\ \A i \in DOMAIN Tail(q) : i + 1 \in DOMAIN q /\ Tail(q)[i] = q[i + 1]
        /\ DOMAIN Tail(q) = 1..(Len(q) - 1) /\ Len(q) \in Nat
        /\ Range(q) = {Head(q)} \cup Range(Tail(q))
    BY <2>1, RangeHeadTail
  <2>4. answer \in Answer /\ answer.play = Head(q)
    BY <2>3 DEF Answer
  <2>5. /\ Range(visualizing') = Range(visualizing) \cup {answer}
        /\ DOMAIN visualizing' = 1..(Len(visualizing) + 1)
        /\ DOMAIN visualizing = 1..Len(visualizing) /\ Len(visualizing) \in Nat
        /\ \A i \in 1..Len(visualizing) : visualizing'[i] = visualizing[i]
        /\ visualizing'[Len(visualizing) + 1] = answer
    BY <2>1, <2>2, <2>4, RangeAppend, AppendProperties
  <2>6. Pending' = Pending
    <3> HIDE DEF answer
    <3>1. {n.play : n \in Range(visualizing')}
            = {n.play : n \in Range(visualizing)} \cup {Head(q)}
      BY <2>4, <2>5
    <3>2. Range(segmentMessages[w]) = {Head(q)} \cup Range(segmentMessages'[w])
      BY <2>2, <2>3
    <3> QED BY <1>1, <3>1, <3>2, PendingPlaces
  <2>7. \A i \in DOMAIN Tail(q) : Tail(q)[i].segment # Head(q).segment
    BY <2>3 DEF Inv, AtMostOnce
  <2>8. \A p \in Range(Tail(q)) : p.segment # Head(q).segment
    BY <2>7 DEF Range
  <2>9. \A i, j \in DOMAIN segmentMessages'[w] :
          segmentMessages'[w][i].segment = segmentMessages'[w][j].segment => i = j
    <3>1. SUFFICES ASSUME NEW i \in DOMAIN Tail(q), NEW j \in DOMAIN Tail(q),
                          Tail(q)[i].segment = Tail(q)[j].segment
                   PROVE  i = j
      BY <2>2
    <3>2. i + 1 = j + 1
      BY <2>3, <3>1 DEF Inv, AtMostOnce
    <3> QED BY <2>3, <3>2
  <2>10. \A m \in Range(visualizing) : m.play.segment # Head(q).segment
    BY <2>3 DEF Inv, AtMostOnce
  <2>11. \A i, j \in DOMAIN visualizing' :
           visualizing'[i].play.segment = visualizing'[j].play.segment => i = j
    <3>1. SUFFICES ASSUME NEW i \in DOMAIN visualizing', NEW j \in DOMAIN visualizing',
                          visualizing'[i].play.segment = visualizing'[j].play.segment
                   PROVE  i = j
      OBVIOUS
    <3> DEFINE n == Len(visualizing)
    <3>2. \A k \in 1..n : visualizing[k].play.segment # Head(q).segment
      BY <2>5, <2>10 DEF Range
    <3>3. CASE i \in 1..n /\ j \in 1..n
      BY <2>5, <3>1, <3>3 DEF Inv, AtMostOnce
    <3>4. CASE i = n + 1 /\ j \in 1..n
      BY <2>4, <2>5, <3>1, <3>2, <3>4
    <3>5. CASE i \in 1..n /\ j = n + 1
      BY <2>4, <2>5, <3>1, <3>2, <3>5
    <3> QED BY <2>5, <3>3, <3>4, <3>5
  <2>12. AtMostOnce'
    <3> HIDE DEF answer
    <3>1. \A p \in Range(segmentMessages'[w]) :
            p \in Range(q) /\ p.segment # Head(q).segment
      BY <2>2, <2>3, <2>8
    <3>2. \A n \in Range(visualizing') : n \in Range(visualizing) \/ n.play = Head(q)
      BY <2>4, <2>5
    <3>3. Head(q) \in Range(q)
      BY <2>3
    <3>4. \A p \in Range(segmentMessages'[w]) :
            /\ \A n \in Range(visualizing') : n.play.segment # p.segment
            /\ \A a \in voices : a.play.segment # p.segment
      BY <3>1, <3>2 DEF Inv, AtMostOnce
    <3>5. \A n \in Range(visualizing'), a \in voices : n.play.segment # a.play.segment
      BY <3>2, <3>3 DEF Inv, AtMostOnce
    <3> QED BY <1>1, <2>9, <2>11, <3>4, <3>5 DEF Inv, AtMostOnce
  <2> QED BY <1>1, <2>6, <2>12 DEF Inv, VoiceOnItsSource, HoldersDiffer, NoLeak
<1> QED BY <1>2, <1>3

\* The server turns the first answer into a voice on the source of its segment;
\* the play of a segment without a source ends there.
LEMMA HandleVisualizingMessageInv ==
  ASSUME Inv, TypeOK', NEW w \in Visualizers, Sounding = {w}, HandleVisualizingMessage
  PROVE  /\ Inv'
         /\ \/ Pending' = Pending
            \/ \E p \in Pending : /\ Pending = Pending' \cup {p}
                                 /\ soundSourceId[p.segment] \notin Sources
<1> DEFINE m == Head(visualizing)
           src == soundSourceId[m.play.segment]
           voice == [play |-> m.play, visualizer |-> m.visualizer, source |-> src]
<1>1. /\ UNCHANGED <<allocated, soundSourceId, segmentMessages>>
      /\ visualizing' = Tail(visualizing)
      /\ voices' = voices \cup VoicesFor(m)
  BY DEF HandleVisualizingMessage
<1>2. visualizing \in Seq(Answer) /\ visualizing # <<>>
  BY DEF HandleVisualizingMessage, Inv, TypeOK, Answer
<1>3. /\ m \in Answer /\ m = visualizing[1] /\ 1 \in DOMAIN visualizing
      /\ DOMAIN Tail(visualizing) = 1..(Len(visualizing) - 1) /\ Len(visualizing) \in Nat
      /\ \A i \in DOMAIN Tail(visualizing) :
           i + 1 \in DOMAIN visualizing /\ Tail(visualizing)[i] = visualizing[i + 1]
      /\ Range(visualizing) = {m} \cup Range(Tail(visualizing))
  BY <1>2, RangeHeadTail
<1>4. \A i \in DOMAIN Tail(visualizing) :
        Tail(visualizing)[i].play.segment # m.play.segment
  BY <1>3 DEF Inv, AtMostOnce
<1>5. \A n \in Range(Tail(visualizing)) : n.play.segment # m.play.segment
  BY <1>4 DEF Range
<1>6. \A i, j \in DOMAIN visualizing' :
        visualizing'[i].play.segment = visualizing'[j].play.segment => i = j
  <2>1. SUFFICES ASSUME NEW i \in DOMAIN Tail(visualizing),
                        NEW j \in DOMAIN Tail(visualizing),
                        Tail(visualizing)[i].play.segment = Tail(visualizing)[j].play.segment
                 PROVE  i = j
    BY <1>1
  <2>2. i + 1 = j + 1
    BY <1>3, <2>1 DEF Inv, AtMostOnce
  <2> QED BY <1>3, <2>2
<1>7. m.play \in Pending
  BY <1>3, PendingPlaces
<1>8. CASE src \in Sources
  <2>1. VoicesFor(m) = {voice}
    BY <1>8 DEF VoicesFor
  <2>2. voices' = voices \cup {voice} /\ voice.play = m.play /\ voice.source = src
    BY <1>1, <2>1
  <2>3. Pending' = Pending
    <3> HIDE DEF voice, m
    <3>1. {a.play : a \in voices'} = {a.play : a \in voices} \cup {m.play}
      BY <2>2
    <3>2. {n.play : n \in Range(visualizing)}
            = {n.play : n \in Range(visualizing')} \cup {m.play}
      BY <1>1, <1>3
    <3> QED BY <1>1, <3>1, <3>2, PendingPlaces
  <2>4. AtMostOnce'
    BY <1>1, <1>3, <1>5, <1>6, <2>2 DEF Inv, AtMostOnce
  <2>5. VoiceOnItsSource'
    BY <1>1, <2>2 DEF Inv, VoiceOnItsSource
  <2> QED BY <1>1, <2>3, <2>4, <2>5 DEF Inv, HoldersDiffer, NoLeak
<1>9. CASE src \notin Sources
  <2>1. VoicesFor(m) = {}
    BY <1>9 DEF VoicesFor
  <2>2. voices' = voices
    BY <1>1, <2>1
  <2>3. Pending = Pending' \cup {m.play}
    BY <1>1, <1>3, <2>2, PendingPlaces
  <2>4. AtMostOnce'
    BY <1>1, <1>3, <1>6, <2>2 DEF Inv, AtMostOnce
  <2>5. Inv'
    BY <1>1, <1>9, <2>2, <2>3, <2>4 DEF Inv, VoiceOnItsSource, HoldersDiffer, NoLeak
  <2> QED BY <1>7, <1>9, <2>3, <2>5
<1> QED BY <1>8, <1>9

\* The end of a voice ends the only play of its segment and frees its source.
LEMMA StoppedPlayingInv ==
  ASSUME Inv, TypeOK', NEW w \in Visualizers, Sounding = {w},
         NEW voice \in voices, StoppedPlaying(voice)
  PROVE  /\ Inv'
         /\ Pending = Pending' \cup {voice.play}
         /\ \A p \in Pending' : p.segment # voice.play.segment
<1> DEFINE src == soundSourceId[voice.play.segment]
<1>1. /\ voices' = voices \ {voice}
      /\ allocated' = allocated \ {src}
      /\ UNCHANGED <<soundSourceId, segmentMessages, visualizing>>
  BY DEF StoppedPlaying, SourceFreedBy
<1>2. voice.play \in Pending
  BY PendingPlaces
<1>3. src = voice.source /\ src \in Sources
  BY DEF Inv, VoiceOnItsSource, TypeOK, Voice
<1>4. \A p \in Pending' : p \in Pending /\ p.segment # voice.play.segment
  BY <1>1, PendingPlaces DEF Inv, AtMostOnce
<1>5. Pending = Pending' \cup {voice.play}
  BY <1>1, PendingPlaces
<1>6. \A p \in Pending' : soundSourceId[p.segment] # src
  BY <1>2, <1>3, <1>4 DEF Inv, HoldersDiffer
<1>7. NoLeak'
  BY <1>1, <1>5, <1>6 DEF Inv, NoLeak
<1>8. AtMostOnce'
  BY <1>1 DEF Inv, AtMostOnce
<1> QED BY <1>1, <1>4, <1>5, <1>7, <1>8 DEF Inv, VoiceOnItsSource, HoldersDiffer

LEMMA NextInv == ASSUME OnePlayPerSegment PROVE Inv /\ [Next]_vars => Inv'
<1>1. PICK w \in Visualizers : Sounding = {w} /\ ~Overlap
  BY DEF OnePlayPerSegment
<1> SUFFICES ASSUME Inv, [Next]_vars PROVE Inv'
  OBVIOUS
<1>2. TypeOK'
  BY NextType DEF Inv
<1>3. CASE PlaySegment
  BY <1>1, <1>2, <1>3, PlaySegmentInv
<1>4. CASE Rewind \/ UNCHANGED vars
  <2>1. UNCHANGED <<allocated, soundSourceId, segmentMessages, visualizing, voices>>
    BY <1>4 DEF Rewind, vars
  <2>2. Pending' = Pending
    BY <2>1 DEF Pending
  <2> QED BY <1>2, <2>1, <2>2
          DEF Inv, AtMostOnce, VoiceOnItsSource, HoldersDiffer, NoLeak
<1>5. ASSUME NEW v \in Visualizers, HandleSegmentMessage(v) PROVE Inv'
  BY <1>1, <1>2, <1>5, HandleSegmentMessageInv
<1>6. CASE HandleVisualizingMessage
  BY <1>1, <1>2, <1>6, HandleVisualizingMessageInv
<1>7. CASE SomeVoiceStops
  BY <1>1, <1>2, <1>7, StoppedPlayingInv DEF SomeVoiceStops
<1> QED BY <1>3, <1>4, <1>5, <1>6, <1>7 DEF Next

LEMMA InvHolds == ASSUME OnePlayPerSegment PROVE Spec => []Inv
<1>1. Inv /\ [Next]_vars => Inv'
  BY NextInv
<1> QED BY <1>1, InitInv, PTL DEF Spec

-----------------------------------------------------------------------------
(* What the inductive invariant gives. *)

\* With one sounding visualizer and no overlapping replay, two plays never
\* sound on the same source, however many sources and segments there are.
THEOREM SourcesAreExclusive ==
  ASSUME OnePlayPerSegment PROVE Spec => []SourceExclusive
<1>1. Inv => SourceExclusive
  <2>1. SUFFICES ASSUME Inv, NEW a \in voices, NEW b \in voices, a.source = b.source
                 PROVE  a.play = b.play
    BY DEF SourceExclusive
  <2>2. a.play \in Pending /\ b.play \in Pending
    BY <2>1 DEF Pending
  <2>3. soundSourceId[a.play.segment] = soundSourceId[b.play.segment]
        /\ soundSourceId[a.play.segment] \in Sources
    BY <2>1 DEF Inv, VoiceOnItsSource, TypeOK, Voice
  <2>4. a.play.segment = b.play.segment
    BY <2>1, <2>2, <2>3 DEF Inv, HoldersDiffer
  <2> QED BY <2>1, <2>4 DEF Inv, AtMostOnce
<1> QED BY <1>1, InvHolds, PTL

\* Under the same assumptions the allocated flags are exactly the sources of the
\* plays under way: no source is lost and none is freed too early.
THEOREM NoSourceLeaks ==
  ASSUME OnePlayPerSegment PROVE Spec => []NoLeak
<1>1. Inv => NoLeak
  BY DEF Inv
<1> QED BY <1>1, InvHolds, PTL

\* Under the same assumptions visualize_segment leaves a segment without a source
\* only when every source belongs to a play under way.
THEOREM SilenceMeansExhaustion ==
  ASSUME OnePlayPerSegment PROVE Spec => SilentOnlyWhenExhausted
<1> DEFINE Silenced ==
      currentSegmentIndex' = currentSegmentIndex + 1
        /\ soundSourceId'[currentSegmentIndex] = NoSource
      => \A src \in Sources : \E p \in Pending : soundSourceId[p.segment] = src
<1>1. Inv /\ [Next]_vars => [Silenced]_vars
  <2> SUFFICES ASSUME Inv, Next,
                      currentSegmentIndex' = currentSegmentIndex + 1,
                      soundSourceId'[currentSegmentIndex] = NoSource
               PROVE  \A src \in Sources :
                        \E p \in Pending : soundSourceId[p.segment] = src
    OBVIOUS
  <2>1. currentSegmentIndex \in Nat /\ currentSegmentIndex \in 1..(NumSegments + 1)
    BY ScoreAssumption DEF Inv, TypeOK
  <2>2. PlaySegment
    <3>1. currentSegmentIndex' # currentSegmentIndex
      BY <2>1
    <3>2. ~Rewind
      BY <2>1, ScoreAssumption DEF Rewind, RewindIndex
    <3> QED BY <3>1, <3>2 DEF Next, HandleSegmentMessage, HandleVisualizingMessage,
                              SomeVoiceStops, StoppedPlaying
  <2>3. currentSegmentIndex \in Segments
    BY <2>1, <2>2, ScoreAssumption DEF PlaySegment, VisualizeSegment, Segments
  <2>4. PICK src \in AllocateSource :
          soundSourceId' = [soundSourceId EXCEPT ![currentSegmentIndex] = src]
    BY <2>2 DEF PlaySegment, VisualizeSegment
  <2>5. src = NoSource
    BY <2>3, <2>4 DEF Inv, TypeOK
  <2>6. allocated = Sources
    BY <2>4, <2>5, SourcesAssumption DEF AllocateSource
  <2> QED BY <2>6 DEF Inv, NoLeak
<1>2. Spec => [][Silenced]_vars
  BY <1>1, InvHolds, PTL DEF Spec
<1> QED BY <1>2 DEF SilentOnlyWhenExhausted

\* Under the same assumptions the flags and the sound_source_ids together
\* implement the pool of SourcePool: each step acquires a source for a segment,
\* releases that of a segment, or leaves the pool alone.
THEOREM ImplementsSourcePool ==
  ASSUME OnePlayPerSegment PROVE Spec => PoolSpec
<1>1. PICK w \in Visualizers : Sounding = {w} /\ ~Overlap
  BY DEF OnePlayPerSegment
<1>2. Init => Pool!Init
  <2> SUFFICES ASSUME Init PROVE Held = {}
    BY DEF Pool!Init
  <2>1. Pending = {}
    BY VisualizersAssumption DEF Init, Pending, Range
  <2> QED BY <2>1 DEF Held, InFlight
<1>3. Inv /\ Inv' /\ [Next]_vars => [Pool!Next]_Held
  <2> SUFFICES ASSUME Inv, Inv', [Next]_vars PROVE Pool!Next \/ Held' = Held
    OBVIOUS
  <2>0. TypeOK'
    BY DEF Inv
  <2>1. CASE PlaySegment
    <3> DEFINE s == currentSegmentIndex
               new == [segment |-> s, pass |-> pass]
    <3>1. s \in Segments /\ new.segment = s
      BY <2>1, ScoreAssumption DEF Inv, TypeOK, Segments, PlaySegment, VisualizeSegment
    <3>2. ~InFlight(s)
      BY <1>1, <2>1 DEF PlaySegment, VisualizeSegment
    <3>3. PICK src \in AllocateSource :
            soundSourceId' = [soundSourceId EXCEPT ![s] = src]
      BY <2>1 DEF PlaySegment, VisualizeSegment
    <3>4. Pending' = Pending \cup {new}
      BY <1>1, <2>0, <2>1, PlaySegmentInv
    <3>5. \A t \in Segments : InFlight(t)' <=> (InFlight(t) \/ t = s)
      BY <3>1, <3>4 DEF InFlight
    <3>6. /\ soundSourceId'[s] = src
          /\ \A t \in Segments : t # s => soundSourceId'[t] = soundSourceId[t]
      BY <3>1, <3>3 DEF Inv, TypeOK
    <3>7. CASE src \in Sources
      <4>1. Held' = Held \cup {<<s, src>>}
        BY <3>1, <3>2, <3>5, <3>6, <3>7 DEF Held
      <4>2. Pool!Holds(s) = {}
        BY <3>2 DEF Pool!Holds, Held
      <4>3. src \notin allocated
        BY <3>7, SourcesAssumption DEF AllocateSource
      <4>4. Pool!Holders(src) = {}
        BY <3>7, <4>3 DEF Pool!Holders, Held, InFlight, Inv, NoLeak
      <4> QED BY <3>1, <3>7, <4>1, <4>2, <4>4 DEF Pool!Next, Pool!Acquire
    <3>8. CASE src \notin Sources
      BY <3>2, <3>5, <3>6, <3>8 DEF Held
    <3> QED BY <3>7, <3>8
  <2>2. CASE Rewind \/ UNCHANGED vars
    BY <2>2 DEF Rewind, vars, Held, InFlight, Pending
  <2>3. ASSUME NEW v \in Visualizers, HandleSegmentMessage(v) PROVE Held' = Held
    <3>1. soundSourceId' = soundSourceId
      BY <2>3 DEF HandleSegmentMessage
    <3>2. Pending' = Pending
      BY <1>1, <2>0, <2>3, HandleSegmentMessageInv
    <3> QED BY <3>1, <3>2 DEF Held, InFlight
  <2>4. CASE HandleVisualizingMessage
    <3>1. soundSourceId' = soundSourceId
      BY <2>4 DEF HandleVisualizingMessage
    <3>2. \/ Pending' = Pending
          \/ \E p \in Pending : /\ Pending = Pending' \cup {p}
                               /\ soundSourceId[p.segment] \notin Sources
      BY <1>1, <2>0, <2>4, HandleVisualizingMessageInv
    <3>3. \A h \in Segments \X Sources :
            InFlight(h[1]) /\ soundSourceId[h[1]] = h[2]
              <=> InFlight(h[1])' /\ soundSourceId'[h[1]] = h[2]
      BY <3>1, <3>2 DEF InFlight
    <3> QED BY <3>3 DEF Held
  <2>5. ASSUME NEW voice \in voices, StoppedPlaying(voice) PROVE Pool!Next
    <3> DEFINE s == voice.play.segment
               src == soundSourceId[s]
    <3>1. s \in Segments /\ src \in Sources
      BY <2>5 DEF Inv, TypeOK, Voice, Play, VoiceOnItsSource
    <3>2. soundSourceId' = soundSourceId
      BY <2>5 DEF StoppedPlaying
    <3>3. Pending = Pending' \cup {voice.play} /\ \A p \in Pending' : p.segment # s
      BY <1>1, <2>0, <2>5, StoppedPlayingInv
    <3>4. \A t \in Segments : InFlight(t)' <=> (InFlight(t) /\ t # s)
      BY <3>3 DEF InFlight
    <3>5. InFlight(s)
      BY <3>3 DEF InFlight
    <3>6. <<s, src>> \in Held /\ Held' = Held \ {<<s, src>>}
      BY <3>1, <3>2, <3>4, <3>5 DEF Held
    <3> QED BY <3>1, <3>6 DEF Pool!Next, Pool!Release
  <2> QED BY <2>1, <2>2, <2>3, <2>4, <2>5 DEF Next, SomeVoiceStops
<1> QED BY <1>2, <1>3, InvHolds, InitInv, PTL DEF Spec, PoolSpec, Pool!Spec

-----------------------------------------------------------------------------
(* Score order.  It needs no assumption on visualizers or replays: each      *)
(* visualizer's messages stay sorted from the orchestra to the server.       *)

\* The play that the playback thread will begin next.
NextPlay == [segment |-> currentSegmentIndex, pass |-> pass]

Sorted ==
  \A v \in Sounding :
    /\ \A i, j \in DOMAIN segmentMessages[v] :
         i < j => Earlier(segmentMessages[v][i], segmentMessages[v][j])
    /\ \A i, j \in DOMAIN visualizing :
         i < j /\ visualizing[i].visualizer = v /\ visualizing[j].visualizer = v
           => Earlier(visualizing[i].play, visualizing[j].play)
    /\ \A i \in DOMAIN segmentMessages[v], j \in DOMAIN visualizing :
         visualizing[j].visualizer = v
           => Earlier(visualizing[j].play, segmentMessages[v][i])
    /\ \A i \in DOMAIN segmentMessages[v] : Earlier(segmentMessages[v][i], NextPlay)
    /\ \A j \in DOMAIN visualizing : Earlier(visualizing[j].play, NextPlay)

\* Only sounding visualizers answer.
Answered == \A j \in DOMAIN visualizing : visualizing[j].visualizer \in Sounding

OrderInv == TypeOK /\ Sorted

LEMMA EarlierIsAnOrder ==
  ASSUME NEW p, NEW q, NEW r,
         p.pass \in Nat, q.pass \in Nat, r.pass \in Nat,
         p.segment \in Nat, q.segment \in Nat, r.segment \in Nat
  PROVE  /\ ~Earlier(p, p)
         /\ Earlier(p, q) => ~Earlier(q, p)
         /\ Earlier(p, q) /\ Earlier(q, r) => Earlier(p, r)
  BY DEF Earlier

LEMMA PlaysAreNumbered == \A p \in Play : p.pass \in Nat /\ p.segment \in Nat
  BY ScoreAssumption DEF Play, Segments

LEMMA QueuesAreTyped ==
  ASSUME TypeOK
  PROVE  /\ \A v \in Visualizers : \A i \in DOMAIN segmentMessages[v] :
              segmentMessages[v][i] \in Play
         /\ \A j \in DOMAIN visualizing :
              visualizing[j] \in Answer /\ visualizing[j].play \in Play
<1>1. /\ \A v \in Visualizers : segmentMessages[v] \in Seq(Play)
      /\ visualizing \in Seq(Answer)
  BY DEF TypeOK, Answer
<1>2. \A S : \A q \in Seq(S) : \A i \in DOMAIN q : q[i] \in S
  OBVIOUS
<1>3. \A m \in Answer : m.play \in Play
  BY DEF Answer
<1> QED BY <1>1, <1>2, <1>3

LEMMA InitOrder == Init => OrderInv
<1> SUFFICES ASSUME Init PROVE OrderInv
  OBVIOUS
<1>1. \A v \in Sounding : segmentMessages[v] = <<>>
  BY VisualizersAssumption DEF Init
<1>2. visualizing = <<>>
  BY DEF Init
<1> QED BY <1>1, <1>2, InitType DEF OrderInv, Sorted

LEMMA NextOrder == OrderInv /\ [Next]_vars => OrderInv'
<1> SUFFICES ASSUME OrderInv, [Next]_vars PROVE OrderInv'
  OBVIOUS
<1>1. TypeOK /\ TypeOK' /\ Sorted
  BY NextType DEF OrderInv
<1>2. currentSegmentIndex \in Nat /\ pass \in Nat
  BY <1>1, ScoreAssumption DEF TypeOK
<1>3. CASE PlaySegment
  <2>1. currentSegmentIndex \in Segments /\ NextPlay \in Play
    BY <1>1, <1>3, ScoreAssumption DEF PlaySegment, VisualizeSegment, TypeOK, Segments, NextPlay, Play
  <2>2. visualizing' = visualizing
    BY <1>3 DEF PlaySegment, VisualizeSegment
  <2>3. NextPlay'.pass = pass /\ NextPlay'.segment = currentSegmentIndex + 1
    BY <1>3 DEF PlaySegment, VisualizeSegment, NextPlay
  <2>4. NextPlay.pass = pass /\ NextPlay.segment = currentSegmentIndex
    BY DEF NextPlay
  <2>5. Earlier(NextPlay, NextPlay')
    BY <1>2, <2>3, <2>4 DEF Earlier
  <2>6. \A p \in Play : Earlier(p, NextPlay) => Earlier(p, NextPlay')
    BY <1>2, <2>3, <2>4, PlaysAreNumbered DEF Earlier
  <2>7. ASSUME NEW v \in Sounding
        PROVE  /\ segmentMessages[v] \in Seq(Play)
               /\ DOMAIN segmentMessages'[v] = 1..(Len(segmentMessages[v]) + 1)
               /\ DOMAIN segmentMessages[v] = 1..Len(segmentMessages[v])
               /\ Len(segmentMessages[v]) \in Nat
               /\ \A i \in 1..Len(segmentMessages[v]) :
                    segmentMessages'[v][i] = segmentMessages[v][i]
               /\ segmentMessages'[v][Len(segmentMessages[v]) + 1] = NextPlay
    BY <1>1, <1>3, <2>1, AppendProperties, VisualizersAssumption
       DEF PlaySegment, VisualizeSegment, TypeOK, NextPlay
  <2>8. ASSUME NEW v \in Sounding
        PROVE  \A i \in DOMAIN segmentMessages'[v] :
                 \/ /\ i \in DOMAIN segmentMessages[v]
                    /\ segmentMessages'[v][i] = segmentMessages[v][i]
                 \/ /\ i = Len(segmentMessages[v]) + 1
                    /\ segmentMessages'[v][i] = NextPlay
    BY <2>7
  <2>9. \A v \in Sounding : \A i, j \in DOMAIN segmentMessages'[v] :
          i < j => Earlier(segmentMessages'[v][i], segmentMessages'[v][j])
    BY <1>1, <2>7, <2>8 DEF Sorted
  <2>10. \A v \in Sounding : \A i \in DOMAIN segmentMessages'[v],
                                j \in DOMAIN visualizing :
           visualizing[j].visualizer = v
             => Earlier(visualizing[j].play, segmentMessages'[v][i])
    BY <1>1, <2>8 DEF Sorted
  <2>11. \A v \in Sounding : \A i \in DOMAIN segmentMessages'[v] :
           Earlier(segmentMessages'[v][i], NextPlay')
    BY <1>1, <2>5, <2>6, <2>8, QueuesAreTyped, VisualizersAssumption DEF Sorted
  <2>12. \A v \in Sounding, j \in DOMAIN visualizing :
           Earlier(visualizing[j].play, NextPlay')
    BY <1>1, <2>6, QueuesAreTyped DEF Sorted
  <2>13. Sorted'
    BY <1>1, <2>2, <2>9, <2>10, <2>11, <2>12 DEF Sorted
  <2> QED BY <1>1, <2>13 DEF OrderInv
<1>4. CASE Rewind
  <2>1. UNCHANGED <<segmentMessages, visualizing>> /\ pass' = pass + 1
    BY <1>4 DEF Rewind
  <2>2. \A p \in Play : Earlier(p, NextPlay) => Earlier(p, NextPlay')
    BY <1>2, <2>1, PlaysAreNumbered DEF Earlier, NextPlay
  <2>3. Sorted'
    BY <1>1, <2>1, <2>2, QueuesAreTyped, VisualizersAssumption DEF Sorted
  <2> QED BY <1>1, <2>3 DEF OrderInv
<1>5. ASSUME NEW u \in Visualizers, HandleSegmentMessage(u) PROVE OrderInv'
  <2>1. NextPlay' = NextPlay
    BY <1>5 DEF HandleSegmentMessage, NextPlay
  <2>2. /\ segmentMessages[u] \in Seq(Play) /\ segmentMessages[u] # <<>>
        /\ visualizing \in Seq(Answer)
    BY <1>1, <1>5 DEF HandleSegmentMessage, TypeOK, Answer
  <2>3. /\ Head(segmentMessages[u]) \in Play
        /\ Head(segmentMessages[u]) = segmentMessages[u][1]
        /\ 1 \in DOMAIN segmentMessages[u]
        /\ \A i \in DOMAIN Tail(segmentMessages[u]) :
             /\ i + 1 \in DOMAIN segmentMessages[u]
             /\ Tail(segmentMessages[u])[i] = segmentMessages[u][i + 1]
        /\ DOMAIN Tail(segmentMessages[u]) = 1..(Len(segmentMessages[u]) - 1)
        /\ Len(segmentMessages[u]) \in Nat
    BY <2>2, RangeHeadTail
  <2>4. /\ segmentMessages'[u] = Tail(segmentMessages[u])
        /\ \A v \in Visualizers : v # u => segmentMessages'[v] = segmentMessages[v]
    BY <1>1, <1>5 DEF HandleSegmentMessage, TypeOK
  <2>5. \A v \in Sounding :
          /\ \A i, j \in DOMAIN segmentMessages'[v] :
               i < j => Earlier(segmentMessages'[v][i], segmentMessages'[v][j])
          /\ \A i \in DOMAIN segmentMessages'[v], j \in DOMAIN visualizing :
               visualizing[j].visualizer = v
                 => Earlier(visualizing[j].play, segmentMessages'[v][i])
          /\ \A i \in DOMAIN segmentMessages'[v] :
               Earlier(segmentMessages'[v][i], NextPlay)
    <3> SUFFICES ASSUME NEW v \in Sounding
                 PROVE  /\ \A i, j \in DOMAIN segmentMessages'[v] :
                             i < j => Earlier(segmentMessages'[v][i], segmentMessages'[v][j])
                        /\ \A i \in DOMAIN segmentMessages'[v], j \in DOMAIN visualizing :
                             visualizing[j].visualizer = v
                               => Earlier(visualizing[j].play, segmentMessages'[v][i])
                        /\ \A i \in DOMAIN segmentMessages'[v] :
                             Earlier(segmentMessages'[v][i], NextPlay)
      OBVIOUS
    <3>1. CASE v # u
      BY <1>1, <2>4, <3>1, VisualizersAssumption DEF Sorted
    <3>2. CASE v = u
      <4>1. \A i, j \in DOMAIN Tail(segmentMessages[u]) : i < j => i + 1 < j + 1
        BY <2>3
      <4>2. /\ \A i, j \in DOMAIN segmentMessages[u] :
                 i < j => Earlier(segmentMessages[u][i], segmentMessages[u][j])
            /\ \A i \in DOMAIN segmentMessages[u], j \in DOMAIN visualizing :
                 visualizing[j].visualizer = u
                   => Earlier(visualizing[j].play, segmentMessages[u][i])
            /\ \A i \in DOMAIN segmentMessages[u] :
                 Earlier(segmentMessages[u][i], NextPlay)
        BY <1>1, <3>2 DEF Sorted
      <4> DEFINE t == Tail(segmentMessages[u])
      <4>3. \A i \in DOMAIN t : i + 1 \in DOMAIN segmentMessages[u]
                                /\ t[i] = segmentMessages[u][i + 1]
        BY <2>3
      <4> HIDE DEF t
      <4>4. \A i, j \in DOMAIN t : i < j => Earlier(t[i], t[j])
        BY <4>1, <4>2, <4>3 DEF t
      <4>5. \A i \in DOMAIN t, j \in DOMAIN visualizing :
              visualizing[j].visualizer = u => Earlier(visualizing[j].play, t[i])
        BY <4>2, <4>3
      <4>6. \A i \in DOMAIN t : Earlier(t[i], NextPlay)
        BY <4>2, <4>3
      <4> QED BY <2>4, <3>2, <4>4, <4>5, <4>6 DEF t
    <3> QED BY <3>1, <3>2
  <2>6. CASE u \notin Sounding
    <3>1. visualizing' = visualizing
      BY <1>5, <2>6 DEF HandleSegmentMessage
    <3> QED BY <1>1, <2>1, <2>5, <3>1 DEF OrderInv, Sorted
  <2>7. CASE u \in Sounding
    <3> DEFINE n == Len(visualizing)
               answer == [play |-> Head(segmentMessages[u]), visualizer |-> u]
    <3>1. answer \in Answer /\ answer.play = segmentMessages[u][1] /\ answer.visualizer = u
      BY <2>3 DEF Answer
    <3>2. /\ n \in Nat /\ DOMAIN visualizing = 1..n /\ DOMAIN visualizing' = 1..(n + 1)
          /\ \A j \in 1..n : visualizing'[j] = visualizing[j]
          /\ visualizing'[n + 1] = answer
      BY <1>5, <2>2, <2>7, <3>1, AppendProperties DEF HandleSegmentMessage
    <3> HIDE DEF answer
    <3>3. \A j \in DOMAIN visualizing' :
            \/ j \in DOMAIN visualizing /\ visualizing'[j] = visualizing[j]
            \/ j = n + 1 /\ visualizing'[j] = answer
      BY <3>2
    <3>4. \A v \in Sounding : \A i, j \in DOMAIN visualizing' :
            i < j /\ visualizing'[i].visualizer = v /\ visualizing'[j].visualizer = v
              => Earlier(visualizing'[i].play, visualizing'[j].play)
      BY <1>1, <2>3, <3>1, <3>2, <3>3 DEF Sorted
    <3>5. \A i \in DOMAIN Tail(segmentMessages[u]) :
            Earlier(segmentMessages[u][1], Tail(segmentMessages[u])[i])
      BY <1>1, <2>3, <2>7 DEF Sorted
    <3>6. \A v \in Sounding : \A i \in DOMAIN segmentMessages'[v],
                                 j \in DOMAIN visualizing' :
            visualizing'[j].visualizer = v
              => Earlier(visualizing'[j].play, segmentMessages'[v][i])
      BY <2>4, <2>5, <3>1, <3>3, <3>5
    <3>7. \A j \in DOMAIN visualizing' : Earlier(visualizing'[j].play, NextPlay)
      BY <1>1, <2>3, <2>7, <3>1, <3>3 DEF Sorted
    <3> QED BY <1>1, <2>1, <2>5, <3>4, <3>6, <3>7 DEF OrderInv, Sorted
  <2> QED BY <2>6, <2>7
<1>6. CASE HandleVisualizingMessage
  <2>1. UNCHANGED segmentMessages /\ NextPlay' = NextPlay
    BY <1>6 DEF HandleVisualizingMessage, NextPlay
  <2>2. visualizing \in Seq(Answer) /\ visualizing # <<>> /\ visualizing' = Tail(visualizing)
    BY <1>1, <1>6 DEF HandleVisualizingMessage, TypeOK, Answer
  <2>3. /\ \A j \in DOMAIN visualizing' :
             j + 1 \in DOMAIN visualizing /\ visualizing'[j] = visualizing[j + 1]
        /\ DOMAIN visualizing' = 1..(Len(visualizing) - 1) /\ Len(visualizing) \in Nat
    BY <2>2, RangeHeadTail
  <2>4. \A i, j \in DOMAIN visualizing' : i < j => i + 1 < j + 1
    BY <2>3
  <2>5. Sorted'
    BY <1>1, <2>1, <2>3, <2>4 DEF Sorted
  <2> QED BY <1>1, <2>5 DEF OrderInv
<1>7. CASE SomeVoiceStops \/ UNCHANGED vars
  <2>1. UNCHANGED <<segmentMessages, visualizing>> /\ NextPlay' = NextPlay
    BY <1>7 DEF SomeVoiceStops, StoppedPlaying, vars, NextPlay
  <2>2. Sorted'
    BY <1>1, <2>1 DEF Sorted
  <2> QED BY <1>1, <2>2 DEF OrderInv
<1> QED BY <1>3, <1>4, <1>5, <1>6, <1>7 DEF Next

LEMMA InitAnswered == Init => Answered
  BY DEF Init, Answered

LEMMA NextAnswered == TypeOK /\ Answered /\ [Next]_vars => Answered'
<1> SUFFICES ASSUME TypeOK, Answered, [Next]_vars PROVE Answered'
  OBVIOUS
<1>1. visualizing \in Seq(Answer)
  BY DEF TypeOK, Answer
<1>2. ASSUME NEW u \in Visualizers, HandleSegmentMessage(u) PROVE Answered'
  <2>1. CASE u \in Sounding
    <3> DEFINE answer == [play |-> Head(segmentMessages[u]), visualizer |-> u]
    <3>1. segmentMessages[u] \in Seq(Play) /\ segmentMessages[u] # <<>>
      BY <1>2 DEF HandleSegmentMessage, TypeOK
    <3>2. answer \in Answer /\ answer.visualizer = u
      BY <3>1, RangeHeadTail DEF Answer
    <3>3. visualizing' = Append(visualizing, answer)
      BY <1>2, <2>1 DEF HandleSegmentMessage
    <3> HIDE DEF answer
    <3>4. /\ DOMAIN visualizing' = 1..(Len(visualizing) + 1)
          /\ DOMAIN visualizing = 1..Len(visualizing)
          /\ \A j \in 1..Len(visualizing) : visualizing'[j] = visualizing[j]
          /\ visualizing'[Len(visualizing) + 1] = answer
      BY <1>1, <3>2, <3>3, AppendProperties
    <3> QED BY <1>1, <2>1, <3>2, <3>4 DEF Answered
  <2>2. CASE u \notin Sounding
    BY <1>2, <2>2 DEF HandleSegmentMessage, Answered
  <2> QED BY <2>1, <2>2
<1>3. CASE HandleVisualizingMessage
  <2>1. visualizing # <<>> /\ visualizing' = Tail(visualizing)
    BY <1>3 DEF HandleVisualizingMessage
  <2>2. \A j \in DOMAIN visualizing' :
          j + 1 \in DOMAIN visualizing /\ visualizing'[j] = visualizing[j + 1]
    BY <1>1, <2>1, RangeHeadTail
  <2> QED BY <2>2 DEF Answered
<1>4. CASE PlaySegment \/ Rewind \/ SomeVoiceStops \/ UNCHANGED vars
  BY <1>4 DEF PlaySegment, VisualizeSegment, Rewind, SomeVoiceStops, StoppedPlaying, vars, Answered
<1> QED BY <1>2, <1>3, <1>4 DEF Next

\* Whatever the visualizers and the replays, a voice never starts before that of
\* an earlier play of the same visualizer that is still on its way.
THEOREM ScoreOrderIsKept == Spec => VoicesStartInScoreOrder
<1>1. OrderInv /\ Answered /\ [Next]_vars => [StartsInScoreOrder]_vars
  <2> SUFFICES ASSUME OrderInv, Answered, Next, NEW voice \in voices' \ voices,
                      NEW p \in Range(segmentMessages[voice.visualizer])
                                 \cup {m.play : m \in {n \in Range(visualizing) :
                                                  n.visualizer = voice.visualizer}}
               PROVE  ~Earlier(p, voice.play)
    BY DEF StartsInScoreOrder
  <2>1. HandleVisualizingMessage
    BY DEF Next, PlaySegment, VisualizeSegment, Rewind, HandleSegmentMessage, SomeVoiceStops, StoppedPlaying
  <2>2. visualizing \in Seq(Answer) /\ visualizing # <<>>
    BY <2>1 DEF HandleVisualizingMessage, OrderInv, TypeOK, Answer
  <2>3. Head(visualizing) = visualizing[1] /\ 1 \in DOMAIN visualizing
        /\ DOMAIN visualizing = 1..Len(visualizing) /\ Len(visualizing) \in Nat
    BY <2>2, RangeHeadTail
  <2> DEFINE v == voice.visualizer
  <2>4. voice.play = visualizing[1].play /\ v = visualizing[1].visualizer
    BY <2>1, <2>3 DEF HandleVisualizingMessage, VoicesFor
  <2>5. v \in Sounding /\ v \in Visualizers
    BY <2>3, <2>4, VisualizersAssumption DEF Answered
  <2>6. segmentMessages[v] \in Seq(Play) /\ visualizing[1].play \in Play
    BY <2>3, <2>5, QueuesAreTyped DEF OrderInv, TypeOK
  <2>7. CASE p \in Range(segmentMessages[v])
    <3>1. PICK i \in DOMAIN segmentMessages[v] : p = segmentMessages[v][i]
      BY <2>7 DEF Range
    <3>2. p \in Play
      BY <2>5, <3>1, QueuesAreTyped DEF OrderInv
    <3>3. Earlier(voice.play, p)
      BY <2>3, <2>4, <2>5, <3>1 DEF OrderInv, Sorted
    <3> QED BY <2>4, <2>6, <3>2, <3>3, PlaysAreNumbered, EarlierIsAnOrder
  <2>8. CASE p \in {m.play : m \in {n \in Range(visualizing) : n.visualizer = v}}
    <3>1. PICK j \in DOMAIN visualizing :
            p = visualizing[j].play /\ visualizing[j].visualizer = v
      BY <2>8 DEF Range
    <3>2. p \in Play
      BY <3>1, QueuesAreTyped DEF OrderInv
    <3>3. p = voice.play \/ Earlier(voice.play, p)
      <4>1. j = 1 \/ 1 < j
        BY <2>3
      <4> QED BY <2>3, <2>4, <2>5, <3>1, <4>1 DEF OrderInv, Sorted
    <3> QED BY <2>4, <2>6, <3>2, <3>3, PlaysAreNumbered, EarlierIsAnOrder
  <2> QED BY <2>7, <2>8
<1>2. OrderInv => TypeOK
  BY DEF OrderInv
<1>3. Spec => []OrderInv
  BY InitOrder, NextOrder, PTL DEF Spec
<1>4. Spec => []Answered
  BY <1>2, <1>3, InitAnswered, NextAnswered, PTL DEF Spec
<1> QED BY <1>1, <1>3, <1>4, PTL DEF Spec, VoicesStartInScoreOrder
=============================================================================

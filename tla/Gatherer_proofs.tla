--------------------------- MODULE Gatherer_proofs ---------------------------
(***************************************************************************)
(* Proofs about Gatherer for a torrent of any length and any files: the    *)
(* pieces that a visualizer draws never touch and are exactly what has been*)
(* added.                                                                  *)
(***************************************************************************)
EXTENDS Gatherer, FiniteSetTheorems, TLAPS

\* A segment that can be added is a piece and is not empty.
LEMMA SegmentIsPiece ==
  ASSUME NEW new \in Segment
  PROVE  new \in Piece /\ new.torrent_begin < new.torrent_end
  BY TorrentAssumption DEF Segment, Piece

\* Pieces lie at natural positions.
LEMMA BytesAreNat ==
  ASSUME NEW p \in Piece
  PROVE  Bytes(p) \subseteq Nat
  <1> SUFFICES ASSUME NEW x \in Bytes(p)
               PROVE  x \in Nat
    OBVIOUS
  <1>1. p.torrent_begin \in Nat /\ p.torrent_end \in Nat
    BY DEF Piece
  <1> QED
    BY <1>1 DEF Bytes

\* Two pieces overlap, as _pieces_overlap tests it, exactly when neither ends
\* before the other begins.
LEMMA OverlapMeansNotApart ==
  ASSUME NEW p \in Piece, NEW q \in Piece,
         p.torrent_begin < p.torrent_end, q.torrent_begin < q.torrent_end
  PROVE  PiecesOverlap(p, q) <=> /\ q.torrent_begin <= p.torrent_end
                                 /\ p.torrent_begin <= q.torrent_end
  BY DEF PiecesOverlap, Between, Piece

\* What the new piece and the pieces it overlaps cover together is what their
\* hull covers: there is no hole between them.
LEMMA HullHasNoHole ==
  ASSUME TypeOK, NEW new \in Segment,
         NEW kept \in OverlappingPieces(new),
         NEW first \in Extension(new, kept, OverlappingPieces(new)),
         NEW last \in Extension(new, kept, OverlappingPieces(new)),
         \A p \in Extension(new, kept, OverlappingPieces(new)) :
           first.torrent_begin <= p.torrent_begin,
         \A p \in Extension(new, kept, OverlappingPieces(new)) :
           p.torrent_end <= last.torrent_end,
         NEW x \in Int
  PROVE  x \in first.torrent_begin..(last.torrent_end - 1) <=>
           \E p \in Extension(new, kept, OverlappingPieces(new)) : x \in Bytes(p)
  <1> DEFINE E == Extension(new, kept, OverlappingPieces(new))
  <1>1. /\ new \in E
        /\ \A p \in E : p \in Piece /\ p.torrent_begin < p.torrent_end
    BY SegmentIsPiece DEF Extension, OverlappingPieces, TypeOK, Keys
  <1>2. \A p \in E : /\ p.torrent_begin <= new.torrent_end
                     /\ new.torrent_begin <= p.torrent_end
    <2> SUFFICES ASSUME NEW p \in E
                 PROVE  /\ p.torrent_begin <= new.torrent_end
                        /\ new.torrent_begin <= p.torrent_end
      OBVIOUS
    <2>1. CASE p = new
      BY <1>1, <2>1 DEF Piece
    <2>2. CASE \E k \in OverlappingPieces(new) : p = pieces[k]
      BY <1>1, <2>2, OverlapMeansNotApart DEF OverlappingPieces
    <2> QED
      BY <2>1, <2>2 DEF Extension
  <1>3. first \in E /\ last \in E
    OBVIOUS
  <1> HIDE DEF E
  <1>4. ASSUME x \in first.torrent_begin..(last.torrent_end - 1)
        PROVE  \E p \in E : x \in Bytes(p)
    <2>1. CASE x < new.torrent_begin
      BY <1>1, <1>2, <1>3, <1>4, <2>1 DEF Bytes, Piece
    <2>2. CASE x >= new.torrent_end
      BY <1>1, <1>2, <1>3, <1>4, <2>2 DEF Bytes, Piece
    <2>3. CASE new.torrent_begin <= x /\ x < new.torrent_end
      BY <1>1, <2>3 DEF Bytes, Piece
    <2> QED
      BY <1>1, <2>1, <2>2, <2>3 DEF Piece
  <1>5. ASSUME NEW p \in E, x \in Bytes(p)
        PROVE  x \in first.torrent_begin..(last.torrent_end - 1)
    <2>1. first.torrent_begin <= p.torrent_begin /\ p.torrent_end <= last.torrent_end
      BY <1>5 DEF E
    <2> QED
      BY <1>1, <1>3, <1>5, <2>1 DEF Bytes, Piece
  <1> QED
    BY <1>4, <1>5 DEF E

\* A piece apart from the new one and from all that the new one overlaps is
\* apart from their hull.
LEMMA ApartFromHull ==
  ASSUME TypeOK, Separated, NEW new \in Segment,
         NEW kept \in OverlappingPieces(new),
         NEW first \in Extension(new, kept, OverlappingPieces(new)),
         NEW last \in Extension(new, kept, OverlappingPieces(new)),
         NEW k \in Keys \ OverlappingPieces(new)
  PROVE  \/ pieces[k].torrent_end < first.torrent_begin
         \/ last.torrent_end < pieces[k].torrent_begin
  <1> DEFINE E == Extension(new, kept, OverlappingPieces(new))
             q == pieces[k]
  <1>1. /\ \A p \in E : p \in Piece /\ p.torrent_begin < p.torrent_end
        /\ q \in Piece /\ q.torrent_begin < q.torrent_end
        /\ new \in Piece /\ new.torrent_begin < new.torrent_end
    BY SegmentIsPiece DEF Extension, OverlappingPieces, TypeOK, Keys
  <1>2. ~PiecesOverlap(new, q)
    BY DEF OverlappingPieces
  <1>3. q.torrent_end < new.torrent_begin \/ new.torrent_end < q.torrent_begin
    BY <1>1, <1>2, OverlapMeansNotApart DEF Piece
  \* All pieces of the extension touch the new one, so all are on its side of q.
  <1>4. \A p \in E : /\ p.torrent_end < q.torrent_begin \/ q.torrent_end < p.torrent_begin
                     /\ p.torrent_begin <= new.torrent_end
                     /\ new.torrent_begin <= p.torrent_end
    <2> SUFFICES ASSUME NEW p \in E
                 PROVE  /\ p.torrent_end < q.torrent_begin \/ q.torrent_end < p.torrent_begin
                        /\ p.torrent_begin <= new.torrent_end
                        /\ new.torrent_begin <= p.torrent_end
      OBVIOUS
    <2>1. CASE p = new
      BY <1>1, <1>3, <2>1 DEF Piece
    <2>2. CASE \E j \in OverlappingPieces(new) : p = pieces[j]
      <3>1. PICK j \in OverlappingPieces(new) : p = pieces[j]
        BY <2>2
      <3>2. j \in Keys /\ j # k /\ PiecesOverlap(new, p)
        BY <3>1 DEF OverlappingPieces
      <3>3. p.torrent_end < q.torrent_begin \/ q.torrent_end < p.torrent_begin
        BY <3>1, <3>2 DEF Separated
      <3> QED
        BY <1>1, <3>2, <3>3, OverlapMeansNotApart
    <2> QED
      BY <2>1, <2>2 DEF Extension
  <1> HIDE DEF E, q
  <1>5. first \in E /\ last \in E
    BY DEF E
  <1>6. CASE q.torrent_end < new.torrent_begin
    BY <1>1, <1>4, <1>5, <1>6 DEF Piece, q
  <1>7. CASE new.torrent_end < q.torrent_begin
    BY <1>1, <1>4, <1>5, <1>7 DEF Piece, q
  <1> QED
    BY <1>3, <1>6, <1>7

-----------------------------------------------------------------------------
\* The inductive invariant.  Separated needs no more than the types; the
\* coverage needs that the overlapping pieces leave no hole, which the types
\* (no piece is empty) give.
Inv == TypeOK /\ Separated /\ CoverageExact

LEMMA InitInv == Init => Inv
  BY DEF Init, Inv, TypeOK, Separated, CoverageExact, Keys

\* A segment apart from all pieces gets a key of its own.
LEMMA AddApartInv ==
  ASSUME Inv, NEW new \in Segment, AddApart(new)
  PROVE  Inv'
  <1>1. new \in Piece /\ new.torrent_begin < new.torrent_end
    BY SegmentIsPiece
  <1>2. /\ TypeOK /\ Separated /\ CoverageExact
        /\ counter \in Nat /\ counter \notin Keys /\ Keys \subseteq Nat
    BY DEF Inv, TypeOK
  <1>3. /\ Keys' = Keys \cup {counter}
        /\ pieces'[counter] = new
        /\ \A k \in Keys : pieces'[k] = pieces[k]
    BY <1>2 DEF AddApart, Keys
  <1>4. TypeOK'
    <2>1. counter' \in Nat /\ Keys' \subseteq {k \in Nat : k < counter'}
      BY <1>2, <1>3 DEF TypeOK, AddApart
    <2>2. pieces' \in [Keys' -> Piece]
      BY <1>1, <1>2, <1>3 DEF TypeOK, AddApart, Keys
    <2>3. \A k \in Keys' : pieces'[k].torrent_begin < pieces'[k].torrent_end
      BY <1>1, <1>2, <1>3 DEF TypeOK
    <2>4. added' \subseteq Nat
      BY <1>1, <1>2, BytesAreNat DEF TypeOK, AddApart
    <2> QED
      BY <2>1, <2>2, <2>3, <2>4 DEF TypeOK
  <1>5. \A k \in Keys : \/ pieces[k].torrent_end < new.torrent_begin
                        \/ new.torrent_end < pieces[k].torrent_begin
    <2> SUFFICES ASSUME NEW k \in Keys
                 PROVE  \/ pieces[k].torrent_end < new.torrent_begin
                        \/ new.torrent_end < pieces[k].torrent_begin
      OBVIOUS
    <2>1. /\ pieces[k] \in Piece
          /\ pieces[k].torrent_begin < pieces[k].torrent_end
          /\ ~PiecesOverlap(new, pieces[k])
      BY <1>2 DEF TypeOK, AddApart, OverlappingPieces
    <2> QED
      BY <1>1, <2>1, OverlapMeansNotApart DEF Piece
  <1>6. Separated'
    BY <1>2, <1>3, <1>5 DEF Separated
  <1>7. CoverageExact'
    BY <1>2, <1>3 DEF CoverageExact, AddApart, Bytes
  <1> QED
    BY <1>4, <1>6, <1>7 DEF Inv

\* A merge replaces the overlapping pieces by their hull under one key.
LEMMA AddMergedInv ==
  ASSUME Inv, NEW new \in Segment, AddMerged(new)
  PROVE  Inv'
  <1> DEFINE over == OverlappingPieces(new)
  <1>1. PICK kept \in over :
          LET extension == Extension(new, kept, over) IN
          \E first \in extension, last \in extension :
            /\ \A p \in extension : first.torrent_begin <= p.torrent_begin
            /\ \A p \in extension : p.torrent_end <= last.torrent_end
            /\ pieces' = [k \in (Keys \ over) \cup {kept} |->
                            IF k = kept
                            THEN [torrent_begin |-> first.torrent_begin,
                                  torrent_end |-> last.torrent_end,
                                  f |-> pieces[kept].f]
                            ELSE pieces[k]]
            /\ UNCHANGED counter
            /\ added' = added \cup Bytes(new)
    BY DEF AddMerged
  <1> DEFINE E == Extension(new, kept, over)
  <1>2. PICK first \in E, last \in E :
            /\ \A p \in E : first.torrent_begin <= p.torrent_begin
            /\ \A p \in E : p.torrent_end <= last.torrent_end
            /\ pieces' = [k \in (Keys \ over) \cup {kept} |->
                            IF k = kept
                            THEN [torrent_begin |-> first.torrent_begin,
                                  torrent_end |-> last.torrent_end,
                                  f |-> pieces[kept].f]
                            ELSE pieces[k]]
            /\ UNCHANGED counter
            /\ added' = added \cup Bytes(new)
    BY <1>1
  <1> DEFINE hull == [torrent_begin |-> first.torrent_begin,
                      torrent_end |-> last.torrent_end,
                      f |-> pieces[kept].f]
  <1>3. TypeOK /\ Separated /\ CoverageExact
    BY DEF Inv
  <1>4. kept \in Keys /\ over \subseteq Keys
    BY DEF OverlappingPieces
  <1>5. /\ \A p \in E : p \in Piece /\ p.torrent_begin < p.torrent_end
        /\ new \in E
    BY <1>3, SegmentIsPiece DEF Extension, OverlappingPieces, TypeOK, Keys
  <1>6. /\ Keys' = (Keys \ over) \cup {kept}
        /\ pieces'[kept] = hull
        /\ \A k \in Keys \ over : pieces'[k] = pieces[k]
    BY <1>2 DEF Keys
  <1>7. /\ hull \in Piece
        /\ hull.torrent_begin < hull.torrent_end
        /\ hull.torrent_begin = first.torrent_begin
        /\ hull.torrent_end = last.torrent_end
    <2>1. first \in Piece /\ last \in Piece /\ pieces[kept] \in Piece
      BY <1>2, <1>3, <1>4, <1>5 DEF TypeOK
    <2>2. first.torrent_begin <= last.torrent_begin /\ last.torrent_begin < last.torrent_end
      BY <1>2, <1>5
    <2> HIDE DEF E
    <2> QED
      BY <2>1, <2>2 DEF Piece
  <1> HIDE DEF hull
  <1>8. TypeOK'
    <2>1. counter' \in Nat /\ Keys' \subseteq {k \in Nat : k < counter'}
      BY <1>2, <1>3, <1>4, <1>6 DEF TypeOK
    <2>2. \A k \in Keys' : pieces'[k] \in Piece
                           /\ pieces'[k].torrent_begin < pieces'[k].torrent_end
      BY <1>3, <1>4, <1>6, <1>7 DEF TypeOK
    <2>3. pieces' \in [Keys' -> Piece]
      BY <1>2, <2>2 DEF Keys
    <2>4. added' \subseteq Nat
      BY <1>2, <1>3, SegmentIsPiece, BytesAreNat DEF TypeOK
    <2> QED
      BY <2>1, <2>2, <2>3, <2>4 DEF TypeOK
  <1>9. Separated'
    <2>1. \A k \in Keys \ over : \/ pieces[k].torrent_end < hull.torrent_begin
                                \/ hull.torrent_end < pieces[k].torrent_begin
      BY <1>2, <1>3, <1>7, ApartFromHull
    <2> QED
      BY <1>3, <1>4, <1>6, <2>1 DEF Separated
  <1>10. CoverageExact'
    <2>1. \A x : x \in Bytes(hull) <=> \E p \in E : x \in Bytes(p)
      <3>1. ASSUME NEW x, x \in Bytes(hull)
            PROVE  \E p \in E : x \in Bytes(p)
        <4>1. x \in Int /\ x \in first.torrent_begin..(last.torrent_end - 1)
          BY <1>7, <3>1 DEF Bytes, Piece
        <4> QED
          BY <1>2, <1>3, <4>1, HullHasNoHole
      <3>2. ASSUME NEW x, NEW p \in E, x \in Bytes(p)
            PROVE  x \in Bytes(hull)
        <4>1. x \in Int
          BY <1>5, <3>2 DEF Bytes, Piece
        <4>2. x \in first.torrent_begin..(last.torrent_end - 1)
          BY <1>2, <1>3, <3>2, <4>1, HullHasNoHole
        <4> QED
          BY <1>7, <4>2 DEF Bytes
      <3> QED
        BY <3>1, <3>2
    <2>2. \A x : x \in Bytes(hull) <=>
                   x \in Bytes(new) \/ \E k \in over : x \in Bytes(pieces[k])
      BY <2>1 DEF Extension
    <2>3. \A x : x \in UNION {Bytes(pieces'[k]) : k \in Keys'} <=>
                   x \in Bytes(hull) \/ \E k \in Keys \ over : x \in Bytes(pieces[k])
      BY <1>6
    <2>4. \A x : x \in UNION {Bytes(pieces[k]) : k \in Keys} <=>
                   \/ \E k \in over : x \in Bytes(pieces[k])
                   \/ \E k \in Keys \ over : x \in Bytes(pieces[k])
      BY <1>4
    <2>5. \A x : x \in UNION {Bytes(pieces'[k]) : k \in Keys'} <=> x \in added'
      BY <1>2, <1>3, <2>2, <2>3, <2>4 DEF CoverageExact
    <2>6. UNION {Bytes(pieces'[k]) : k \in Keys'} = added'
      BY <2>5
    <2> QED
      BY <2>6 DEF CoverageExact, Bytes
  <1> QED
    BY <1>8, <1>9, <1>10 DEF Inv

LEMMA StepInv == Inv /\ [Add]_vars => Inv'
  <1> SUFFICES ASSUME Inv, [Add]_vars
               PROVE  Inv'
    OBVIOUS
  <1>1. ASSUME NEW new \in Segment, AddApart(new)
        PROVE  Inv'
    BY <1>1, AddApartInv
  <1>2. ASSUME NEW new \in Segment, AddMerged(new)
        PROVE  Inv'
    BY <1>2, AddMergedInv
  <1>3. CASE UNCHANGED vars
    BY <1>3 DEF vars, Inv, TypeOK, Separated, CoverageExact, Keys
  <1> QED
    BY <1>1, <1>2, <1>3 DEF Add

LEMMA InvHolds == Spec => []Inv
  <1> QED
    BY InitInv, StepInv, PTL DEF Spec

\* Keys are never used twice and no piece is ever empty.
THEOREM TypeCorrect == Spec => []TypeOK
  <1>1. Inv => TypeOK
    BY DEF Inv
  <1> QED
    BY <1>1, InvHolds, PTL

\* Each connected stretch of what has been added is one piece (Gatherer.add
\* merges all that touch, the bridged pieces included).
THEOREM PiecesNeverTouch == Spec => []Separated
  <1>1. Inv => Separated
    BY DEF Inv
  <1> QED
    BY <1>1, InvHolds, PTL

\* No merge forgets a byte or adds one that was never downloaded.
THEOREM NothingLostNothingInvented == Spec => []CoverageExact
  <1>1. Inv => CoverageExact
    BY DEF Inv
  <1> QED
    BY <1>1, InvHolds, PTL

-----------------------------------------------------------------------------
\* What is added lies in the torrent.
AddedInTorrent == added \subseteq 0..(TorrentLength - 1)

LEMMA AddedStaysInTorrent == Spec => []AddedInTorrent
  <1>1. Init => AddedInTorrent
    BY DEF Init, AddedInTorrent
  <1>2. AddedInTorrent /\ [Add]_vars => AddedInTorrent'
    <2> SUFFICES ASSUME AddedInTorrent, [Add]_vars
                 PROVE  AddedInTorrent'
      OBVIOUS
    <2>1. ASSUME NEW new \in Segment, added' = added \cup Bytes(new)
          PROVE  AddedInTorrent'
      <3>1. new.torrent_begin \in 0..TorrentLength /\ new.torrent_end \in 0..TorrentLength
        BY DEF Segment
      <3>2. Bytes(new) \subseteq 0..(TorrentLength - 1)
        BY <3>1, TorrentAssumption DEF Bytes
      <3> QED
        BY <2>1, <3>2 DEF AddedInTorrent
    <2>2. CASE \E new \in Segment : AddApart(new) \/ AddMerged(new)
      BY <2>1, <2>2 DEF AddApart, AddMerged
    <2>3. CASE UNCHANGED vars
      BY <2>3 DEF vars, AddedInTorrent
    <2> QED
      BY <2>2, <2>3 DEF Add
  <1> QED
    BY <1>1, <1>2, PTL DEF Spec

\* Waves is never finished while a byte is missing: one piece that begins with
\* its file and is as long as the torrent can only be the torrent.
THEOREM NotFinishedTooEarly == Spec => []FinishedMeansComplete
  <1>1. Inv /\ AddedInTorrent => FinishedMeansComplete
    <2> SUFFICES ASSUME Inv, AddedInTorrent, Finished
                 PROVE  added = 0..(TorrentLength - 1)
      BY DEF FinishedMeansComplete
    <2>1. IsFiniteSet(Keys)
      <3>1. Keys \in SUBSET (0..counter) /\ counter \in Nat
        BY DEF Inv, TypeOK
      <3>2. IsFiniteSet(0..counter)
        BY <3>1, FS_Interval
      <3> QED
        BY <3>1, <3>2, FS_Subset
    <2>2. PICK k : Keys = {k}
      BY <2>1, FS_Singleton DEF Finished
    <2> DEFINE p == pieces[k]
    <2>3. /\ p \in Piece /\ p.torrent_begin < p.torrent_end
          /\ Begin(p) = 0 /\ End(p) = TorrentLength
      BY <2>2 DEF Inv, TypeOK, Finished
    <2>4. added = Bytes(p)
      BY <2>2 DEF Inv, CoverageExact
    <2>5. /\ p.torrent_begin \in Nat /\ p.torrent_end \in Nat /\ p.f.offset \in Nat
          /\ p.torrent_begin = p.f.offset
          /\ p.torrent_end = p.f.offset + TorrentLength
      <3>1. p.torrent_begin \in Nat /\ p.torrent_end \in Nat /\ p.f.offset \in Nat
        BY <2>3, FilesAssumption DEF Piece
      <3>2. p.torrent_begin - p.f.offset = 0 /\ p.torrent_end - p.f.offset = TorrentLength
        BY <2>3 DEF Begin, End
      <3> HIDE DEF p
      <3> QED
        BY <3>1, <3>2, TorrentAssumption
    <2> HIDE DEF p
    <2>6. p.torrent_end - 1 \in added
      BY <2>3, <2>4, <2>5 DEF Bytes
    <2>7. p.torrent_end - 1 <= TorrentLength - 1
      BY <2>5, <2>6, TorrentAssumption DEF AddedInTorrent
    <2>8. p.torrent_begin = 0 /\ p.torrent_end = TorrentLength
      BY <2>5, <2>7, TorrentAssumption
    <2> QED
      BY <2>4, <2>8 DEF Bytes
  <1> QED
    BY <1>1, InvHolds, AddedStaysInTorrent, PTL

\* What a puzzle appends a segment to does not depend on the order of the
\* dictionary: two pieces that end where the segment begins would touch.
THEOREM AppendedToOneAtMost == Spec => []ContinuesAtMostOne
  <1>1. Inv => ContinuesAtMostOne
    <2> SUFFICES ASSUME Inv, NEW new \in Segment
                 PROVE  Cardinality(WouldAppend(new)) <= 1
      BY DEF ContinuesAtMostOne
    <2>1. \A j, k \in WouldAppend(new) : j = k
      <3> SUFFICES ASSUME NEW j \in WouldAppend(new), NEW k \in WouldAppend(new), j # k
                   PROVE  FALSE
        OBVIOUS
      <3> DEFINE p == pieces[j]
                 q == pieces[k]
      <3>1. /\ new \in Piece /\ new.torrent_begin < new.torrent_end
            /\ j \in Keys /\ k \in Keys
            /\ PiecesOverlap(new, p) /\ PiecesOverlap(new, q)
            /\ p.torrent_end <= new.torrent_begin /\ q.torrent_end <= new.torrent_begin
        BY SegmentIsPiece DEF WouldAppend, OverlappingPieces
      <3>2. /\ p \in Piece /\ p.torrent_begin < p.torrent_end
            /\ q \in Piece /\ q.torrent_begin < q.torrent_end
        BY <3>1 DEF Inv, TypeOK
      <3>3. p.torrent_end < q.torrent_begin \/ q.torrent_end < p.torrent_begin
        BY <3>1 DEF Inv, Separated
      <3> HIDE DEF p, q
      <3>4. new.torrent_begin <= p.torrent_end /\ new.torrent_begin <= q.torrent_end
        BY <3>1, <3>2, OverlapMeansNotApart
      <3> QED
        BY <3>1, <3>2, <3>3, <3>4 DEF Piece
    <2>2. CASE WouldAppend(new) = {}
      BY <2>2, FS_EmptySet
    <2>3. CASE WouldAppend(new) # {}
      <3>1. PICK k : WouldAppend(new) = {k}
        BY <2>1, <2>3
      <3>2. Cardinality(WouldAppend(new)) = 1
        BY <3>1, FS_Singleton
      <3> QED
        BY <3>2
    <2> QED
      BY <2>2, <2>3
  <1> QED
    BY <1>1, InvHolds, PTL
=============================================================================

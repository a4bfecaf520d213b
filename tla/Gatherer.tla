------------------------------ MODULE Gatherer ------------------------------
(***************************************************************************)
(* visual-experiments/gatherer.py: the visualizers collect the segments    *)
(* that have been played and merge those that overlap or touch, so that    *)
(* what has been downloaded so far is drawn with few shapes.  Segments     *)
(* come in any order and, when the score is replayed, more than once.      *)
(***************************************************************************)
EXTENDS Integers, FiniteSets

CONSTANTS
  TorrentLength,  \* bytes of the torrent, positions 0..TorrentLength - 1
  Files           \* the files as records [offset, length]

ASSUME TorrentAssumption == TorrentLength \in Nat
ASSUME FilesAssumption ==
  /\ Files \subseteq [offset : Nat, length : Nat]
  /\ \A f \in Files : f.offset + f.length <= TorrentLength

VARIABLES
  pieces,   \* _pieces: the pieces by key
  counter,  \* _counter: the next key
  added     \* the bytes of all segments added so far (history)

vars == <<pieces, counter, added>>

\* A piece: its place in the torrent, and its file, to which begin and end are
\* relative.  After a merge it may reach beyond that file.
Piece == [torrent_begin : Nat, torrent_end : Nat, f : Files]

Begin(p) == p.torrent_begin - p.f.offset
End(p) == p.torrent_end - p.f.offset
Bytes(p) == p.torrent_begin..(p.torrent_end - 1)

\* The segments that a visualizer can add: not empty, inside their file.
Segment ==
  {p \in [torrent_begin : 0..TorrentLength, torrent_end : 0..TorrentLength, f : Files] :
     /\ p.f.offset <= p.torrent_begin
     /\ p.torrent_begin < p.torrent_end
     /\ p.torrent_end <= p.f.offset + p.f.length}

Keys == DOMAIN pieces

TypeOK ==
  /\ counter \in Nat
  /\ Keys \subseteq {k \in Nat : k < counter}
  /\ pieces \in [Keys -> Piece]
  /\ \A k \in Keys : pieces[k].torrent_begin < pieces[k].torrent_end
  /\ added \subseteq Nat

-----------------------------------------------------------------------------
Between(a, x, b) == a <= x /\ x <= b

\* Fault: pieces that only touch are not joined.
PiecesOverlapStrictly(p, q) ==
  p.torrent_begin < q.torrent_end /\ q.torrent_begin < p.torrent_end
\* Fault: pieces with a gap of one byte are joined.
PiecesOverlapNearly(p, q) ==
  p.torrent_begin <= q.torrent_end + 1 /\ q.torrent_begin <= p.torrent_end + 1

PiecesOverlap(p, q) ==
  \/ Between(q.torrent_begin, p.torrent_begin, q.torrent_end)
  \/ Between(q.torrent_begin, p.torrent_end, q.torrent_end)
  \/ Between(p.torrent_begin, q.torrent_begin, p.torrent_end)
  \/ Between(p.torrent_begin, q.torrent_end, p.torrent_end)

OverlappingPieces(p) == {k \in Keys : PiecesOverlap(p, pieces[k])}

\* Faults: the extension is that of the new piece and the kept one only; the
\* new piece itself is forgotten.
ExtensionOfTwo(new, kept, overlapping) == {new, pieces[kept]}
ExtensionWithoutNew(new, kept, overlapping) == {pieces[k] : k \in overlapping}

\* The pieces that a merge replaces by their hull.
Extension(new, kept, overlapping) == {new} \cup {pieces[k] : k \in overlapping}

Init ==
  /\ pieces = [k \in {} |-> 0]
  /\ counter = 1
  /\ added = {}

\* Faults: the key is used again; the pieces that a merge swallows stay.
AddApartSameKey(new) ==
  /\ OverlappingPieces(new) = {}
  /\ pieces' = [k \in Keys \cup {counter} |-> IF k = counter THEN new ELSE pieces[k]]
  /\ UNCHANGED counter
  /\ added' = added \cup Bytes(new)
AddMergedKeepingAll(new) ==
  \E kept \in OverlappingPieces(new) :
    LET extension == Extension(new, kept, OverlappingPieces(new)) IN
    \E first \in extension, last \in extension :
      /\ \A p \in extension : first.torrent_begin <= p.torrent_begin
      /\ \A p \in extension : p.torrent_end <= last.torrent_end
      /\ pieces' = [pieces EXCEPT ![kept].torrent_begin = first.torrent_begin,
                                  ![kept].torrent_end = last.torrent_end]
      /\ UNCHANGED counter
      /\ added' = added \cup Bytes(new)

\* add, when no piece overlaps the new one.
AddApart(new) ==
  /\ OverlappingPieces(new) = {}
  /\ pieces' = [k \in Keys \cup {counter} |-> IF k = counter THEN new ELSE pieces[k]]
  /\ counter' = counter + 1
  /\ added' = added \cup Bytes(new)

\* add, when some do: one of them (the first in dictionary order) becomes the
\* hull of all and the others are deleted.
AddMerged(new) ==
  LET overlapping == OverlappingPieces(new) IN
  \E kept \in overlapping :
    LET extension == Extension(new, kept, overlapping) IN
    \E first \in extension, last \in extension :
      /\ \A p \in extension : first.torrent_begin <= p.torrent_begin
      /\ \A p \in extension : p.torrent_end <= last.torrent_end
      /\ pieces' = [k \in (Keys \ overlapping) \cup {kept} |->
                      IF k = kept
                      THEN [torrent_begin |-> first.torrent_begin,
                            torrent_end |-> last.torrent_end,
                            f |-> pieces[kept].f]
                      ELSE pieces[k]]
      /\ UNCHANGED counter
      /\ added' = added \cup Bytes(new)

Add == \E new \in Segment : AddApart(new) \/ AddMerged(new)

Spec == Init /\ [][Add]_vars

-----------------------------------------------------------------------------
\* Any two pieces are apart: between them there is at least one byte that
\* belongs to neither, so each connected stretch is drawn once.
Separated ==
  \A j, k \in Keys : j # k =>
    \/ pieces[j].torrent_end < pieces[k].torrent_begin
    \/ pieces[k].torrent_end < pieces[j].torrent_begin

\* The pieces show exactly the bytes of the segments added, whatever the order
\* and the overlaps.
CoverageExact == UNION {Bytes(pieces[k]) : k \in Keys} = added

\* Waves.finished: the only piece begins where its file begins and its end,
\* relative to its file, is the length of the torrent.
Finished ==
  /\ Cardinality(Keys) = 1
  /\ \A k \in Keys : Begin(pieces[k]) = 0 /\ End(pieces[k]) = TorrentLength

\* -exit-when-finished does not end the visualizer while bytes are missing.
FinishedMeansComplete == Finished => added = 0..(TorrentLength - 1)

\* -exit-when-finished does end it: when every byte has been gathered, waves
\* is finished.
CompleteMeansFinished == added = 0..(TorrentLength - 1) => Finished

\* The pieces that would_append may return for a new segment: there is at most
\* one, so what a puzzle appends it to does not depend on dictionary order.
WouldAppend(new) ==
  {k \in OverlappingPieces(new) : pieces[k].torrent_end <= new.torrent_begin}
ContinuesAtMostOne == \A new \in Segment : Cardinality(WouldAppend(new)) <= 1
=============================================================================

----------------------------- MODULE MCSessions -----------------------------
EXTENDS Sessions

Chunk(n, f, p) == [kind |-> "chunk", id |-> n, file |-> f, peer |-> p]
Segment(n, f, p) == [kind |-> "segment", id |-> n, file |-> f, peer |-> p]

\* Two peers take turns in two files.
FirstScore == <<Chunk(0, 0, "a"), Segment(0, 0, "a"), Chunk(1, 1, "b"), Segment(1, 1, "b"),
                Segment(2, 0, "a")>>
OneSession == <<FirstScore>>
FilesOfOne == <<2>>

\* The second session has one file and other numbers of segments.
TwoSessions == <<FirstScore, <<Segment(5, 0, "b")>>>>
FilesOfTwo == <<2, 1>>
=============================================================================

------------------------- MODULE MCSegmentPlayback -------------------------
(* Small instances of SegmentPlayback for TLC. *)
EXTENDS SegmentPlayback

CONSTANTS v1, v2

OneVisualizer == {v1}
TwoVisualizers == {v1, v2}
=============================================================================

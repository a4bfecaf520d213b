\* All chunk lists of up to three chunks from two peers.
SPECIFICATION Spec
CONSTANTS
  Peers = {p1, p2}
  Files <- TwoFiles
  MaxPause = 1
  MaxSegmentDuration = 4
  MaxPassivity = 1
  MaxChunks = 3
  MaxStep = 2
INVARIANTS TypeOK SegmentIsItsChunks OnsetsAscend SpanBounded NoLongPause
           SilencesCapped
\* The score is ready.
CHECK_DEADLOCK FALSE

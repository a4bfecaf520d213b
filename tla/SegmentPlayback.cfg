\* Two visualizers of which one makes the segments sound, a looped score of
\* four segments and two sources.
SPECIFICATION FairSpec
CONSTANTS
  v1 = v1
  v2 = v2
  NumSegments = 4
  Visualizers <- TwoVisualizers
  Sounding <- OneVisualizer
  Sources = {1, 2}
  NoSource = NoSource
  Unset = Unset
  MaxPasses = 1
  Overlap = FALSE
INVARIANTS TypeOK SourceExclusive NoLeak
PROPERTIES SilentOnlyWhenExhausted VoicesStartInScoreOrder PoolSpec
           AllSourcesComeBack EverySourceIsUsed
CHECK_DEADLOCK FALSE

\* Two visualizers that both make the segments sound.
SPECIFICATION FairSpec
CONSTANTS
  v1 = v1
  v2 = v2
  NumSegments = 3
  Visualizers <- TwoVisualizers
  Sounding <- TwoVisualizers
  Sources = {1, 2}
  NoSource = NoSource
  Unset = Unset
  MaxPasses = 0
  Overlap = FALSE
INVARIANTS SourceExclusive
CHECK_DEADLOCK FALSE

\* One visualizer; a looped score so short that a segment comes round again
\* before its previous play is over.
SPECIFICATION FairSpec
CONSTANTS
  v1 = v1
  v2 = v2
  NumSegments = 3
  Visualizers <- OneVisualizer
  Sounding <- OneVisualizer
  Sources = {1, 2}
  NoSource = NoSource
  Unset = Unset
  MaxPasses = 2
  Overlap = TRUE
PROPERTIES SilentOnlyWhenExhausted
CHECK_DEADLOCK FALSE

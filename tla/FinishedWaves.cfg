\* Every byte of a torrent of two files has been gathered, yet waves goes on.
SPECIFICATION Spec
CONSTANTS
  TorrentLength = 8
  Files <- TwoFiles
INVARIANT CompleteMeansFinished

\* All orders of adding segments of a torrent of eight bytes in two files.
SPECIFICATION Spec
CONSTANTS
  TorrentLength = 8
  Files <- TwoFiles
INVARIANTS TypeOK Separated CoverageExact FinishedMeansComplete ContinuesAtMostOne

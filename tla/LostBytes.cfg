\* A chunk that covers the short file loses the bytes of it.
SPECIFICATION Spec
CONSTANTS
  FileInfo <- ThreeFiles
  MaxChunks = 2
INVARIANT SplitKeepsEveryByte
CHECK_DEADLOCK FALSE

\* All logs of up to three chunks, all orders of the passes and all selections.
SPECIFICATION Spec
CONSTANTS
  FileInfo <- ThreeFiles
  MaxChunks = 3
INVARIANTS TypeOK FilesTile ChunkInItsFile ContentKept TimesAscend KeepsWhatIsMeant OnlyReceivedBytes
\* The program goes on elsewhere when the list is ready.
CHECK_DEADLOCK FALSE

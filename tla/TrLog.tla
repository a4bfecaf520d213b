-------------------------------- MODULE TrLog --------------------------------
(***************************************************************************)
(* tr_log_reader.py: the log of a download session becomes the list of     *)
(* chunks that is played.  Each logged chunk is split at the boundaries of *)
(* the files of the torrent; then the files that were not downloaded, or   *)
(* that the user did not select, are cut out and what follows them moves   *)
(* down: file numbers, offsets and positions are all renumbered in place.  *)
(*                                                                         *)
(* File numbers count from 1 here and from 0 in the program.               *)
(***************************************************************************)
EXTENDS Integers, Sequences, FiniteSets

CONSTANTS
  FileInfo,   \* offset and length of the torrent's files, as the log lists them
  MaxChunks   \* how many chunks the log gives (bound)

\* Transmission lays the files out one after the other (so, which the last
\* conjunct only repeats, each file ends before any later one begins).
ASSUME FileInfoAssumption ==
  /\ FileInfo \in Seq([offset : Nat, length : Nat \ {0}])
  /\ \A n \in DOMAIN FileInfo :
       FileInfo[n].offset =
         IF n = 1 THEN 0 ELSE FileInfo[n - 1].offset + FileInfo[n - 1].length
  /\ \A m, n \in DOMAIN FileInfo :
       m < n => FileInfo[m].offset + FileInfo[m].length <= FileInfo[n].offset
ASSUME MaxChunksAssumption == MaxChunks \in Nat

VARIABLES
  files,       \* TrLog.files; name is the file's number in the torrent
  chunks,      \* TrLog.chunks, their place in the list is pos
  chunkCount,  \* _chunk_count, the id of the next chunk
  passes,      \* the passes over the file list that the caller makes, in order
  pass,        \* the current one, 0 while the log is read
  cursor,      \* filenum of the loop of the current pass
  selected,    \* selected_filenums
  downloaded,  \* names of the files that exist on disk
  origin,      \* where each logged chunk lies in its file, by id (history)
  received     \* the bytes of all logged chunks (history)

vars == <<files, chunks, chunkCount, passes, pass, cursor, selected, downloaded,
          origin, received>>

Names == DOMAIN FileInfo

Min(a, b) == IF a < b THEN a ELSE b
Max(a, b) == IF a > b THEN a ELSE b

\* The callers' orders: play.py and sequencer.py ignore and then select,
\* plot_ancestry.py and revisualize_ancestry.py select and then ignore, and
\* all of them select only if --file is given.
Orders == {<<"ignore">>, <<"ignore", "select">>, <<"select", "ignore">>}

Chunk == [id : Nat, pos : Nat, t : Nat, filenum : Nat, begin : Nat, end : Nat]

TypeOK ==
  /\ files \in Seq([name : Names, offset : Nat, length : Nat \ {0}])
  /\ chunks \subseteq Chunk
  /\ \A c \in chunks : c.filenum \in DOMAIN files /\ c.id \in DOMAIN origin
  /\ passes \in Orders \cup {<<>>}
  /\ pass \in 0..(Len(passes) + 1)
  /\ cursor \in 0..Len(files)
  /\ selected \subseteq Names
  /\ downloaded \subseteq Names
  /\ origin \in [DOMAIN origin -> [name : Names, begin : Nat, end : Nat]]
  /\ chunkCount \in Nat
  /\ \A id \in DOMAIN origin : id \in 0..(chunkCount - 1)
  /\ received \subseteq Nat

-----------------------------------------------------------------------------
LastTime == IF chunks = {} THEN 0
            ELSE CHOOSE t \in {c.t : c \in chunks} : \A c \in chunks : c.t <= t

ChunkMatchesFile(b, e, f) ==
  \/ f.offset <= b /\ b < f.offset + f.length
  \/ f.offset < e /\ e < f.offset + f.length

Matching(b, e) == {n \in DOMAIN files : ChunkMatchesFile(b, e, files[n])}

\* The part of the chunk b..e-1 in file n; the parts get ids one after the other.
Part(b, e, t, n) ==
  LET id == chunkCount + Cardinality({m \in Matching(b, e) : m < n}) IN
  [id |-> id, pos |-> id, t |-> t, filenum |-> n,
   begin |-> Max(b, files[n].offset),
   end |-> Min(e, files[n].offset + files[n].length)]

\* Faults: a part keeps the end of the whole chunk; it begins with its file.
SplitChunkAtBeginOnly(b, e, t) ==
  {[Part(b, e, t, n) EXCEPT !.end = e] : n \in Matching(b, e)}
SplitChunkAtEndOnly(b, e, t) ==
  {[Part(b, e, t, n) EXCEPT !.begin = files[n].offset] : n \in Matching(b, e)}

SplitChunkAtFileBoundaries(b, e, t) == {Part(b, e, t, n) : n \in Matching(b, e)}

\* Where chunk c lies in its file.
InFile(c) == [name |-> files[c.filenum].name,
              begin |-> c.begin - files[c.filenum].offset,
              end |-> c.end - files[c.filenum].offset]

\* sort_chunks_sequentially: chunks by begin (the sort is stable), each with
\* the time that the list had at its new place.
TimeAt(pos) == (CHOOSE c \in chunks : c.pos = pos).t
SortedPos(c) ==
  Cardinality({d \in chunks : d.begin < c.begin \/ (d.begin = c.begin /\ d.pos < c.pos)})
\* Fault: the chunks move and keep their times.
SortedKeepingTimes == {[c EXCEPT !.pos = SortedPos(c)] : c \in chunks}
SortChunksSequentially ==
  {[c EXCEPT !.pos = SortedPos(c), !.t = TimeAt(SortedPos(c))] : c \in chunks}

HasChunksInLog(n) == \E c \in chunks : c.filenum = n

\* The file list without file n: the files behind it move down by its length.
\* Fault: the one right behind it does not.
FilesWithoutButNext(n) ==
  [m \in 1..(Len(files) - 1) |->
     IF m < n THEN files[m]
     ELSE IF m = n THEN files[m + 1]
     ELSE [files[m + 1] EXCEPT !.offset = @ - files[n].length]]
FilesWithout(n) ==
  [m \in 1..(Len(files) - 1) |->
     IF m < n THEN files[m]
     ELSE [files[m + 1] EXCEPT !.offset = @ - files[n].length]]

\* Its chunks are deleted, those of the files behind it are renumbered.
\* Faults: the file number stays; the position stays.
ChunksWithoutSameNumber(n) ==
  {[c EXCEPT !.begin = IF c.filenum > n THEN @ - files[n].length ELSE @,
             !.end = IF c.filenum > n THEN @ - files[n].length ELSE @] :
     c \in {d \in chunks : d.filenum # n}}
ChunksWithoutSamePosition(n) ==
  {[c EXCEPT !.filenum = IF @ > n THEN @ - 1 ELSE @] :
     c \in {d \in chunks : d.filenum # n}}
ChunksWithout(n) ==
  {IF c.filenum > n
   THEN [c EXCEPT !.begin = @ - files[n].length,
                  !.end = @ - files[n].length,
                  !.filenum = @ - 1]
   ELSE c : c \in {d \in chunks : d.filenum # n}}

-----------------------------------------------------------------------------
Init ==
  /\ files = [n \in Names |->
                [name |-> n, offset |-> FileInfo[n].offset, length |-> FileInfo[n].length]]
  /\ chunks = {}
  /\ chunkCount = 0
  /\ passes = <<>>
  /\ pass = 0
  /\ cursor = 0
  /\ selected = {}
  /\ downloaded = {}
  /\ origin = [id \in {} |-> 0]
  /\ received = {}

\* _process_chunk_line: bytes b..e-1 of the torrent arrived at time t.
ProcessChunkLine(b, e, t) ==
  LET new == SplitChunkAtFileBoundaries(b, e, t) IN
  /\ pass = 0
  /\ chunkCount + Cardinality(Matching(b, e)) <= MaxChunks
  /\ chunks' = chunks \cup new
  /\ chunkCount' = chunkCount + Cardinality(Matching(b, e))
  /\ origin' = [id \in DOMAIN origin \cup {c.id : c \in new} |->
                  IF id \in DOMAIN origin THEN origin[id]
                  ELSE InFile(CHOOSE c \in new : c.id = id)]
  /\ received' = received \cup b..(e - 1)
  /\ UNCHANGED <<files, passes, pass, cursor, selected, downloaded>>

\* The end of the log: with --pretend-sequential the chunks are sorted.
EndOfLog ==
  /\ pass = 0
  /\ chunks' \in {chunks, SortChunksSequentially}
  /\ passes' \in Orders
  /\ pass' = 1
  /\ cursor' = Len(files)
  /\ downloaded' \in SUBSET Names
  /\ selected' \in SUBSET Names
  /\ selected' = {} <=> passes' = <<"ignore">>
  /\ UNCHANGED <<files, chunkCount, origin, received>>

\* _remove_file.
RemoveFile(n) == files' = FilesWithout(n) /\ chunks' = ChunksWithout(n)

\* Fault of ignore_non_downloaded_files: a file without chunks stays.
IgnorableIfAbsent(n) == files[n].name \notin downloaded
Ignorable(n) == files[n].name \notin downloaded \/ ~HasChunksInLog(n)

InPass(p) == pass \in DOMAIN passes /\ passes[pass] = p

\* One turn of the loop of ignore_non_downloaded_files.
IgnoreFile ==
  /\ InPass("ignore")
  /\ cursor > 0
  /\ IF Ignorable(cursor) THEN RemoveFile(cursor) ELSE UNCHANGED <<files, chunks>>
  /\ cursor' = cursor - 1
  /\ UNCHANGED <<chunkCount, passes, pass, selected, downloaded, origin, received>>

\* One turn of the loop of select_files.
SelectFile ==
  /\ InPass("select")
  /\ cursor > 0
  /\ IF cursor \notin selected THEN RemoveFile(cursor) ELSE UNCHANGED <<files, chunks>>
  /\ cursor' = cursor - 1
  /\ UNCHANGED <<chunkCount, passes, pass, selected, downloaded, origin, received>>

\* A loop is over; the next one begins at the last file of the list as it is now.
NextPass ==
  /\ pass \in DOMAIN passes
  /\ cursor = 0
  /\ pass' = pass + 1
  /\ cursor' = IF pass < Len(passes) THEN Len(files) ELSE 0
  /\ UNCHANGED <<files, chunks, chunkCount, passes, selected, downloaded, origin, received>>

\* A logged chunk has bytes and lies inside the torrent.  Times are relative to
\* that of the first chunk and do not go back.
LoggedChunk ==
  \E n \in DOMAIN files :
    \E e \in 1..(files[n].offset + files[n].length) : \E b \in 0..(e - 1) :
      \E t \in {LastTime, LastTime + 1} :
        (chunks = {} => t = 0) /\ ProcessChunkLine(b, e, t)

Next ==
  \/ LoggedChunk
  \/ EndOfLog
  \/ IgnoreFile
  \/ SelectFile
  \/ NextPass

Spec == Init /\ [][Next]_vars

-----------------------------------------------------------------------------
\* The files in the list lie one after the other, from 0: the visualizers and
\* total_file_size take the positions for those of a torrent of these files.
FilesTile ==
  \A n \in DOMAIN files :
    files[n].offset = IF n = 1 THEN 0 ELSE files[n - 1].offset + files[n - 1].length

\* A chunk has bytes and lies inside the file that its filenum names.
ChunkInItsFile ==
  \A c \in chunks :
    LET f == files[c.filenum] IN
    f.offset <= c.begin /\ c.begin < c.end /\ c.end <= f.offset + f.length

\* However often chunks and files are renumbered, a chunk names the same bytes
\* of the same file: what is played is what was downloaded.
ContentKept == \A c \in chunks : InFile(c) = origin[c.id]

\* The chunk list is in order of time, sorted sequentially or not, whatever has
\* been deleted from it: playback and the interpreter rely on that.
TimesAscend == \A c, d \in chunks : c.pos <= d.pos => c.t <= d.t

\* The files that the caller means to keep: those on disk with logged chunks,
\* and the selected ones by their number in the list that is selected from.
Usable == {name \in downloaded : \E id \in DOMAIN origin : origin[id].name = name}
NumberAmong(name, names) == Cardinality({m \in names : m <= name})
Meant ==
  CASE passes = <<"ignore">> -> Usable
    [] passes = <<"ignore", "select">> ->
         {name \in Usable : NumberAmong(name, Usable) \in selected}
    [] passes = <<"select", "ignore">> -> Usable \cap selected

\* After the passes the list has exactly these files, in the torrent's order,
\* and all their chunks.
KeepsWhatIsMeant ==
  pass > Len(passes) /\ pass > 0 =>
    /\ {files[n].name : n \in DOMAIN files} = Meant
    /\ \A m, n \in DOMAIN files : m < n => files[m].name < files[n].name
    /\ {c.id : c \in chunks} = {id \in DOMAIN origin : origin[id].name \in Meant}

ChunkBytes == UNION {c.begin..(c.end - 1) : c \in chunks}

\* Splitting at file boundaries (max and min of the borders) adds no bytes that
\* were not received.
OnlyReceivedBytes == pass = 0 => ChunkBytes \subseteq received

\* _split_chunk_at_file_boundaries splits: the parts of a chunk make up all of
\* it (test_chunk_overlapping_multiple_files), so nothing received is missing.
SplitKeepsEveryByte == pass = 0 => received \subseteq ChunkBytes
=============================================================================

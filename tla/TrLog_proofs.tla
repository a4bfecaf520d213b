----------------------------- MODULE TrLog_proofs -----------------------------
(***************************************************************************)
(* Proofs about TrLog for any torrent, any log and any selection: cutting  *)
(* files out of the list renumbers files, offsets and chunks consistently, *)
(* the times ascend, and the files that are left are those that were meant.*)
(***************************************************************************)
EXTENDS TrLog, FiniteSetTheorems, TLAPS

File == [name : Names, offset : Nat, length : Nat \ {0}]

\* A file ends before any later file begins.
FilesInOrder ==
  \A m, n \in DOMAIN files : m < n => files[m].offset + files[m].length <= files[n].offset

\* The types that the proof needs.  Times and places in the list are not among
\* them: nothing that is proved here depends on them.
Shape(c) == c = [id |-> c.id, pos |-> c.pos, t |-> c.t, filenum |-> c.filenum,
                 begin |-> c.begin, end |-> c.end]
ChunksTyped ==
  \A c \in chunks : /\ Shape(c)
                    /\ c.id \in DOMAIN origin
                    /\ c.filenum \in DOMAIN files
                    /\ c.begin \in Nat
                    /\ c.end \in Nat
OriginTyped ==
  /\ chunkCount \in Nat
  /\ \A id \in DOMAIN origin : id \in 0..(chunkCount - 1)

Inv ==
  /\ files \in Seq(File)
  /\ cursor \in 0..Len(files)
  /\ OriginTyped
  /\ ChunksTyped
  /\ FilesTile
  /\ FilesInOrder
  /\ ChunkInItsFile
  /\ ContentKept

LEMMA Element ==
  ASSUME NEW S, NEW s \in Seq(S), NEW i \in DOMAIN s
  PROVE  s[i] \in S
  OBVIOUS

LEMMA InitInv == Init => Inv
  <1> SUFFICES ASSUME Init
               PROVE  Inv
    OBVIOUS
  <1>1. /\ files \in Seq(File)
        /\ DOMAIN files = DOMAIN FileInfo
        /\ \A n \in DOMAIN FileInfo : /\ files[n].offset = FileInfo[n].offset
                                      /\ files[n].length = FileInfo[n].length
    <2>1. /\ FileInfo \in Seq([offset : Nat, length : Nat \ {0}])
          /\ DOMAIN FileInfo = 1..Len(FileInfo)
          /\ Len(FileInfo) \in Nat
      BY FileInfoAssumption
    <2>2. \A n \in Names : FileInfo[n].offset \in Nat /\ FileInfo[n].length \in Nat \ {0}
      <3> SUFFICES ASSUME NEW n \in Names
                   PROVE  FileInfo[n].offset \in Nat /\ FileInfo[n].length \in Nat \ {0}
        OBVIOUS
      <3>1. FileInfo[n] \in [offset : Nat, length : Nat \ {0}]
        BY <2>1, Element DEF Names
      <3> QED
        BY <3>1
    <2> QED
      BY <2>1, <2>2 DEF Init, Names, File
  <1>2. FilesTile
    <2> SUFFICES ASSUME NEW n \in DOMAIN files
                 PROVE  files[n].offset = IF n = 1 THEN 0
                                          ELSE files[n - 1].offset + files[n - 1].length
      BY DEF FilesTile
    <2>1. DOMAIN FileInfo = 1..Len(FileInfo) /\ Len(FileInfo) \in Nat
      BY FileInfoAssumption
    <2>2. n # 1 => n - 1 \in DOMAIN FileInfo
      BY <1>1, <2>1
    <2> QED
      BY <1>1, <2>2, FileInfoAssumption
  <1>3. FilesInOrder
    BY <1>1, FileInfoAssumption DEF FilesInOrder
  <1> QED
    BY <1>1, <1>2, <1>3
    DEF Init, Inv, OriginTyped, ChunksTyped, ChunkInItsFile, ContentKept

-----------------------------------------------------------------------------
(* _remove_file *)

\* The file list without file n, file by file.
LEMMA FilesWithoutFacts ==
  ASSUME files \in Seq(File), FilesTile, FilesInOrder, NEW n \in DOMAIN files,
         files' = FilesWithout(n)
  PROVE  /\ files' \in Seq(File)
         /\ Len(files') = Len(files) - 1
         /\ DOMAIN files' = 1..(Len(files) - 1)
         /\ \A m \in DOMAIN files' : m < n => files'[m] = files[m]
         /\ \A m \in DOMAIN files' : m >= n =>
              /\ files'[m].name = files[m + 1].name
              /\ files'[m].offset = files[m + 1].offset - files[n].length
              /\ files'[m].length = files[m + 1].length
  <1>1. /\ DOMAIN files = 1..Len(files)
        /\ Len(files) \in Nat
        /\ Len(files) - 1 \in Nat
        /\ n \in 1..Len(files)
    OBVIOUS
  <1>2. \A m \in DOMAIN files : files[m] \in File
    OBVIOUS
  <1>3. /\ DOMAIN files' = 1..(Len(files) - 1)
        /\ \A m \in DOMAIN files' : m < n => files'[m] = files[m]
    BY <1>1 DEF FilesWithout
  <1>4. \A m \in DOMAIN files' : m >= n =>
          /\ m + 1 \in DOMAIN files
          /\ files'[m] = [files[m + 1] EXCEPT !.offset = @ - files[n].length]
    BY <1>1, <1>3 DEF FilesWithout
  <1>5. ASSUME NEW m \in DOMAIN files', m >= n
        PROVE  /\ files'[m] \in File
               /\ files'[m].name = files[m + 1].name
               /\ files'[m].offset = files[m + 1].offset - files[n].length
               /\ files'[m].length = files[m + 1].length
    <2>1. files[m + 1] \in File /\ files[n] \in File
      BY <1>2, <1>4, <1>5
    <2>2. files[n].offset + files[n].length <= files[m + 1].offset
      BY <1>1, <1>3, <1>4, <1>5 DEF FilesInOrder
    <2> QED
      <3> DEFINE g == files[m + 1]
      <3>1. /\ g.name \in Names /\ g.offset \in Nat /\ g.length \in Nat \ {0}
            /\ g = [name |-> g.name, offset |-> g.offset, length |-> g.length]
            /\ files[n].offset \in Nat /\ files[n].length \in Nat
        BY <2>1 DEF File
      <3>2. files'[m] = [name |-> g.name, offset |-> g.offset - files[n].length,
                         length |-> g.length]
        BY <1>4, <1>5, <3>1
      <3>3. g.offset - files[n].length \in Nat
        BY <2>2, <3>1
      <3> QED
        BY <3>1, <3>2, <3>3 DEF File
  <1>6. \A m \in DOMAIN files' : files'[m] \in File
    BY <1>1, <1>2, <1>3, <1>5
  <1>7. files' \in Seq(File)
    BY <1>1, <1>3, <1>6 DEF FilesWithout
  <1>8. Len(files') = Len(files) - 1
    BY <1>1 DEF FilesWithout
  <1> QED
    BY <1>3, <1>5, <1>7, <1>8

\* It tiles again.
LEMMA FilesWithoutTile ==
  ASSUME files \in Seq(File), FilesTile, FilesInOrder, NEW n \in DOMAIN files,
         files' = FilesWithout(n)
  PROVE  FilesTile' /\ FilesInOrder'
  <1>1. /\ DOMAIN files = 1..Len(files)
        /\ Len(files) \in Nat
        /\ n \in 1..Len(files)
        /\ \A m \in DOMAIN files : files[m] \in File
    OBVIOUS
  <1>2. /\ DOMAIN files' = 1..(Len(files) - 1)
        /\ \A m \in DOMAIN files' : m < n => files'[m] = files[m]
        /\ \A m \in DOMAIN files' : m >= n =>
              /\ files'[m].offset = files[m + 1].offset - files[n].length
              /\ files'[m].length = files[m + 1].length
    BY FilesWithoutFacts
  <1>3. \A m \in DOMAIN files : files[m].offset \in Nat /\ files[m].length \in Nat
    BY <1>1 DEF File
  <1>next. ASSUME NEW m \in DOMAIN files, m + 1 \in DOMAIN files
           PROVE  files[m + 1].offset = files[m].offset + files[m].length
    <2> DEFINE k == m + 1
    <2>1. k \in DOMAIN files /\ k # 1 /\ k - 1 = m
      BY <1>1, <1>next
    <2>2. files[k].offset = files[k - 1].offset + files[k - 1].length
      BY <2>1 DEF FilesTile
    <2> QED
      BY <2>1, <2>2
  <1>4. ASSUME NEW m \in DOMAIN files'
        PROVE  files'[m].offset = IF m = 1 THEN 0
                                  ELSE files'[m - 1].offset + files'[m - 1].length
    <2>1. m \in DOMAIN files /\ m + 1 \in DOMAIN files /\ m \in Int
      BY <1>1, <1>2
    <2>2. CASE m < n
      <3>1. files'[m] = files[m]
        BY <1>2, <2>2
      <3>2. m # 1 => m - 1 \in DOMAIN files' /\ m - 1 < n
        BY <1>1, <1>2, <2>1, <2>2
      <3>3. m # 1 => files'[m - 1] = files[m - 1]
        BY <1>2, <3>2
      <3> QED
        BY <2>1, <3>1, <3>3 DEF FilesTile
    <2>3. CASE m = n
      <3>1. files'[m].offset = files[n].offset
        <4>1. files[m + 1].offset = files[m].offset + files[m].length
          BY <1>next, <2>1
        <4>2. files'[m].offset = files[m + 1].offset - files[m].length
          BY <1>1, <1>2, <2>3
        <4> QED
          BY <1>3, <2>1, <2>3, <4>1, <4>2
      <3>2. CASE m = 1
        BY <1>1, <2>3, <3>1, <3>2 DEF FilesTile
      <3>3. CASE m # 1
        <4>1. m - 1 \in DOMAIN files' /\ m - 1 < n
          BY <1>1, <1>2, <2>3, <3>3
        <4> QED
          BY <1>1, <1>2, <2>3, <3>1, <3>3, <4>1 DEF FilesTile
      <3> QED
        BY <3>2, <3>3
    <2>4. CASE m > n
      <3>1. m - 1 \in DOMAIN files' /\ m - 1 >= n /\ m # 1
        BY <1>1, <1>2, <2>1, <2>4
      <3>2. /\ files'[m].offset = files[m + 1].offset - files[n].length
            /\ files'[m - 1].offset = files[m].offset - files[n].length
            /\ files'[m - 1].length = files[m].length
        BY <1>2, <2>1, <2>4, <3>1
      <3>3. files[m + 1].offset = files[m].offset + files[m].length
        BY <1>next, <2>1
      <3> QED
        BY <1>3, <2>1, <3>1, <3>2, <3>3
    <2> QED
      BY <1>1, <2>1, <2>2, <2>3, <2>4
  <1>5. ASSUME NEW k \in DOMAIN files', NEW m \in DOMAIN files', k < m
        PROVE  files'[k].offset + files'[k].length <= files'[m].offset
    <2>1. /\ k \in DOMAIN files /\ k + 1 \in DOMAIN files /\ k \in Int
          /\ m \in DOMAIN files /\ m + 1 \in DOMAIN files /\ m \in Int
      BY <1>1, <1>2
    <2>2. CASE m < n
      BY <1>1, <1>2, <1>5, <2>1, <2>2 DEF FilesInOrder
    <2>3. CASE k < n /\ n <= m
      <3>1. /\ files[k].offset + files[k].length <= files[n].offset
            /\ files[n].offset + files[n].length <= files[m + 1].offset
        BY <1>1, <2>1, <2>3 DEF FilesInOrder
      <3>2. /\ files'[k] = files[k]
            /\ files'[m].offset = files[m + 1].offset - files[n].length
        BY <1>2, <2>1, <2>3
      <3> QED
        BY <1>3, <2>1, <3>1, <3>2
    <2>4. CASE n <= k
      <3>1. files[k + 1].offset + files[k + 1].length <= files[m + 1].offset
        BY <1>5, <2>1 DEF FilesInOrder
      <3>2. /\ files'[k].offset = files[k + 1].offset - files[n].length
            /\ files'[k].length = files[k + 1].length
            /\ files'[m].offset = files[m + 1].offset - files[n].length
        BY <1>1, <1>2, <1>5, <2>1, <2>4
      <3> QED
        BY <1>3, <2>1, <3>1, <3>2
    <2> QED
      BY <1>1, <2>1, <2>2, <2>3, <2>4
  <1> QED
    BY <1>4, <1>5 DEF FilesTile, FilesInOrder

\* The chunks that stay name the same bytes of the same file.
LEMMA RemoveFileInv ==
  ASSUME Inv, NEW n \in DOMAIN files, RemoveFile(n), n = cursor, cursor' = cursor - 1,
         UNCHANGED <<origin, chunkCount>>
  PROVE  Inv'
  <1>1. /\ files \in Seq(File) /\ FilesTile /\ FilesInOrder
        /\ files' = FilesWithout(n)
        /\ chunks' = ChunksWithout(n)
        /\ cursor \in 0..Len(files)
    BY DEF Inv, RemoveFile
  <1>2. /\ DOMAIN files = 1..Len(files)
        /\ Len(files) \in Nat
        /\ n \in 1..Len(files)
        /\ \A m \in DOMAIN files : files[m] \in File
    BY <1>1
  <1>3. /\ files' \in Seq(File)
        /\ Len(files') = Len(files) - 1
        /\ DOMAIN files' = 1..(Len(files) - 1)
        /\ \A m \in DOMAIN files' : m < n => files'[m] = files[m]
        /\ \A m \in DOMAIN files' : m >= n =>
             /\ files'[m].name = files[m + 1].name
             /\ files'[m].offset = files[m + 1].offset - files[n].length
             /\ files'[m].length = files[m + 1].length
    BY <1>1, FilesWithoutFacts
  <1>4. FilesTile' /\ FilesInOrder'
    BY <1>1, FilesWithoutTile
  <1>5. cursor' \in 0..Len(files')
    BY <1>1, <1>2, <1>3
  <1>6. \A m \in DOMAIN files : files[m].offset \in Nat /\ files[m].length \in Nat
    BY <1>2 DEF File
  <1>7. ASSUME NEW c \in chunks'
        PROVE  /\ Shape(c)
               /\ c.id \in DOMAIN origin
               /\ c.filenum \in DOMAIN files'
               /\ c.begin \in Nat
               /\ c.end \in Nat
               /\ files'[c.filenum].offset <= c.begin
               /\ c.begin < c.end
               /\ c.end <= files'[c.filenum].offset + files'[c.filenum].length
               /\ InFile(c)' = origin[c.id]
    <2>1. PICK d \in chunks :
            /\ d.filenum # n
            /\ c = IF d.filenum > n
                   THEN [d EXCEPT !.begin = @ - files[n].length,
                                  !.end = @ - files[n].length,
                                  !.filenum = @ - 1]
                   ELSE d
      BY <1>1, <1>7 DEF ChunksWithout
    <2>2. /\ Shape(d)
          /\ d.id \in DOMAIN origin
          /\ d.filenum \in DOMAIN files
          /\ d.begin \in Nat /\ d.end \in Nat
          /\ files[d.filenum].offset <= d.begin
          /\ d.begin < d.end
          /\ d.end <= files[d.filenum].offset + files[d.filenum].length
          /\ InFile(d) = origin[d.id]
      BY DEF Inv, ChunksTyped, ChunkInItsFile, ContentKept
    <2>3. CASE d.filenum < n
      <3>1. c = d /\ d.filenum \in DOMAIN files' /\ files'[d.filenum] = files[d.filenum]
        BY <1>2, <1>3, <2>1, <2>2, <2>3
      <3> QED
        BY <2>2, <3>1 DEF InFile
    <2>4. CASE d.filenum > n
      <3>1. c = [id |-> d.id, pos |-> d.pos, t |-> d.t, filenum |-> d.filenum - 1,
                 begin |-> d.begin - files[n].length, end |-> d.end - files[n].length]
        BY <2>1, <2>2, <2>4 DEF Shape
      <3> DEFINE k == d.filenum - 1
      <3>2. k \in DOMAIN files' /\ k >= n /\ k + 1 = d.filenum
        BY <1>2, <1>3, <2>2, <2>4
      <3>3. /\ files'[k].name = files[d.filenum].name
            /\ files'[k].offset = files[d.filenum].offset - files[n].length
            /\ files'[k].length = files[d.filenum].length
        BY <1>3, <3>2
      <3>4. files[n].offset + files[n].length <= files[d.filenum].offset
        BY <1>1, <2>2, <2>4 DEF FilesInOrder
      <3>5. /\ Shape(c) /\ c.id = d.id /\ c.filenum = k
            /\ c.begin = d.begin - files[n].length
            /\ c.end = d.end - files[n].length
        BY <3>1 DEF Shape
      <3>6. c.begin \in Nat /\ c.end \in Nat /\ c.begin < c.end
        BY <1>6, <2>2, <3>4, <3>5
      <3>7. /\ files'[k].offset <= c.begin
            /\ c.end <= files'[k].offset + files'[k].length
            /\ c.begin - files'[k].offset = d.begin - files[d.filenum].offset
            /\ c.end - files'[k].offset = d.end - files[d.filenum].offset
        BY <1>6, <2>2, <3>3, <3>5
      <3>8. InFile(c)' = InFile(d)
        BY <3>3, <3>5, <3>7 DEF InFile
      <3> QED
        BY <2>2, <3>2, <3>5, <3>6, <3>7, <3>8
    <2> QED
      BY <1>2, <2>1, <2>2, <2>3, <2>4
  <1>8. ChunksTyped' /\ ChunkInItsFile' /\ ContentKept'
    <2>1. origin' = origin
      OBVIOUS
    <2>2. ChunksTyped'
      BY <1>7, <2>1 DEF ChunksTyped, Shape
    <2>3. ChunkInItsFile'
      BY <1>7 DEF ChunkInItsFile
    <2>4. ContentKept'
      BY <1>7, <2>1 DEF ContentKept
    <2> QED
      BY <2>2, <2>3, <2>4
  <1>9. OriginTyped'
    BY DEF Inv, OriginTyped
  <1> QED
    BY <1>3, <1>4, <1>5, <1>8, <1>9 DEF Inv

-----------------------------------------------------------------------------
(* Reading the log *)

\* The parts of a chunk get different ids, and no id that was used before.
LEMMA PartIds ==
  ASSUME files \in Seq(File), chunkCount \in Nat, NEW b, NEW e
  PROVE  /\ Cardinality(Matching(b, e)) \in Nat
         /\ \A t : \A n \in Matching(b, e) :
              Part(b, e, t, n).id
                \in chunkCount..(chunkCount + Cardinality(Matching(b, e)) - 1)
         /\ \A t : \A m, n \in Matching(b, e) :
              Part(b, e, t, m).id = Part(b, e, t, n).id => m = n
  <1> DEFINE M == Matching(b, e)
             Below(n) == {m \in M : m < n}
  <1>1. /\ DOMAIN files = 1..Len(files) /\ Len(files) \in Nat
        /\ M \subseteq 1..Len(files)
    BY DEF Matching
  <1>2. IsFiniteSet(M)
    <2>1. IsFiniteSet(1..Len(files))
      BY <1>1, FS_Interval
    <2>2. M \in SUBSET (1..Len(files))
      BY <1>1
    <2> QED
      BY <2>1, <2>2, FS_Subset
  <1>3. Cardinality(M) \in Nat
    BY <1>2, FS_CardinalityType
  <1>4. ASSUME NEW n \in M
        PROVE  /\ IsFiniteSet(Below(n))
               /\ Cardinality(Below(n)) \in Nat
               /\ Cardinality(Below(n)) < Cardinality(M)
    <2>1. Below(n) \in SUBSET M /\ n \notin Below(n)
      BY <1>1
    <2>2. /\ IsFiniteSet(Below(n))
          /\ Cardinality(Below(n)) <= Cardinality(M)
          /\ Cardinality(M) = Cardinality(Below(n)) => M = Below(n)
      BY <1>2, <2>1, FS_Subset
    <2>3. Cardinality(Below(n)) \in Nat
      BY <2>2, FS_CardinalityType
    <2> QED
      BY <1>3, <1>4, <2>1, <2>2, <2>3
  <1>5. ASSUME NEW m \in M, NEW n \in M, m < n
        PROVE  Cardinality(Below(m)) < Cardinality(Below(n))
    <2>1. Below(m) \in SUBSET Below(n) /\ m \in Below(n) /\ m \notin Below(m)
      BY <1>1, <1>5
    <2>2. /\ Cardinality(Below(m)) <= Cardinality(Below(n))
          /\ Cardinality(Below(n)) = Cardinality(Below(m)) => Below(n) = Below(m)
      <3>1. IsFiniteSet(Below(n))
        BY <1>4
      <3> QED
        BY <2>1, <3>1, FS_Subset
    <2>3. Below(n) # Below(m)
      BY <2>1
    <2>4. Cardinality(Below(m)) \in Nat /\ Cardinality(Below(n)) \in Nat
      BY <1>4
    <2> HIDE DEF Below
    <2> QED
      BY <2>2, <2>3, <2>4
  <1>6. \A t : \A n \in M : Part(b, e, t, n).id = chunkCount + Cardinality(Below(n))
    BY DEF Part
  <1> HIDE DEF M, Below
  <1>7. ASSUME NEW t, NEW m \in M, NEW n \in M, Part(b, e, t, m).id = Part(b, e, t, n).id
        PROVE  m = n
    <2>1. Cardinality(Below(m)) = Cardinality(Below(n))
      BY <1>4, <1>6, <1>7
    <2>2. ~(m < n) /\ ~(n < m)
      BY <1>4, <1>5, <2>1
    <2> QED
      BY <1>1, <2>2
  <1>8. ASSUME NEW t, NEW n \in M
        PROVE  Part(b, e, t, n).id \in chunkCount..(chunkCount + Cardinality(M) - 1)
    BY <1>3, <1>4, <1>6
  <1> QED
    BY <1>3, <1>7, <1>8 DEF M

\* A part lies inside its file.
LEMMA PartInItsFile ==
  ASSUME files \in Seq(File), NEW b \in Nat, NEW e \in Nat, b < e, NEW t,
         NEW n \in Matching(b, e)
  PROVE  LET c == Part(b, e, t, n) f == files[n] IN
         /\ Shape(c)
         /\ c.filenum = n /\ n \in DOMAIN files
         /\ c.begin \in Nat /\ c.end \in Nat
         /\ f.offset <= c.begin /\ c.begin < c.end /\ c.end <= f.offset + f.length
  <1> DEFINE c == Part(b, e, t, n)
             f == files[n]
  <1>1. n \in DOMAIN files /\ f \in File
    BY DEF Matching
  <1>2. f.offset \in Nat /\ f.length \in Nat /\ f.length > 0
    BY <1>1 DEF File
  <1>3. ChunkMatchesFile(b, e, f)
    BY DEF Matching
  <1>4. /\ Shape(c)
        /\ c.filenum = n
        /\ c.begin = Max(b, f.offset)
        /\ c.end = Min(e, f.offset + f.length)
    BY DEF Part, Shape
  <1> HIDE DEF c, f
  <1>5. /\ c.begin \in Nat /\ c.end \in Nat
        /\ f.offset <= c.begin /\ c.begin < c.end /\ c.end <= f.offset + f.length
    BY <1>2, <1>3, <1>4 DEF Max, Min, ChunkMatchesFile
  <1> QED
    BY <1>1, <1>4, <1>5 DEF c, f

LEMMA ProcessChunkLineInv ==
  ASSUME Inv, NEW b \in Nat, NEW e \in Nat, b < e, NEW t, ProcessChunkLine(b, e, t)
  PROVE  Inv'
  <1> DEFINE M == Matching(b, e)
             new == SplitChunkAtFileBoundaries(b, e, t)
  <1>1. /\ files \in Seq(File) /\ OriginTyped
        /\ chunkCount \in Nat
        /\ \A id \in DOMAIN origin : id \in 0..(chunkCount - 1)
    BY DEF Inv, OriginTyped
  <1>2. /\ chunks' = chunks \cup new
        /\ chunkCount' = chunkCount + Cardinality(M)
        /\ origin' = [id \in DOMAIN origin \cup {c.id : c \in new} |->
                        IF id \in DOMAIN origin THEN origin[id]
                        ELSE InFile(CHOOSE c \in new : c.id = id)]
        /\ files' = files /\ cursor' = cursor
    BY DEF ProcessChunkLine
  <1>3. ASSUME NEW c \in new
        PROVE  /\ c.id \in chunkCount..(chunkCount + Cardinality(M) - 1)
               /\ c.id \notin DOMAIN origin
               /\ \A d \in new : d.id = c.id => d = c
               /\ Shape(c)
               /\ c.filenum \in DOMAIN files
               /\ c.begin \in Nat /\ c.end \in Nat
               /\ files[c.filenum].offset <= c.begin
               /\ c.begin < c.end
               /\ c.end <= files[c.filenum].offset + files[c.filenum].length
    <2>1. PICK n \in M : c = Part(b, e, t, n)
      BY DEF SplitChunkAtFileBoundaries
    <2>2. c.id \in chunkCount..(chunkCount + Cardinality(M) - 1)
      BY <1>1, <2>1, PartIds
    <2>3. c.id \notin DOMAIN origin
      BY <1>1, <2>2, PartIds
    <2>4. ASSUME NEW d \in new, d.id = c.id
          PROVE  d = c
      <3>1. PICK m \in M : d = Part(b, e, t, m)
        BY DEF SplitChunkAtFileBoundaries
      <3>2. m = n
        BY <1>1, <2>1, <2>4, <3>1, PartIds
      <3> QED
        BY <2>1, <3>1, <3>2
    <2>5. /\ Shape(c)
          /\ c.filenum \in DOMAIN files
          /\ c.begin \in Nat /\ c.end \in Nat
          /\ files[c.filenum].offset <= c.begin
          /\ c.begin < c.end
          /\ c.end <= files[c.filenum].offset + files[c.filenum].length
      BY <1>1, <2>1, PartInItsFile
    <2> QED
      BY <2>2, <2>3, <2>4, <2>5
  <1> HIDE DEF new
  <1>4. \A c \in chunks : c.id \in DOMAIN origin /\ InFile(c) = origin[c.id]
    BY DEF Inv, ChunksTyped, ContentKept
  <1>5. OriginTyped'
    <2>1. chunkCount' \in Nat
      BY <1>1, <1>2, PartIds
    <2>2. \A id \in DOMAIN origin' : id \in 0..(chunkCount' - 1)
      <3> SUFFICES ASSUME NEW id \in DOMAIN origin'
                   PROVE  id \in 0..(chunkCount' - 1)
        OBVIOUS
      <3>1. Cardinality(M) \in Nat
        BY <1>1, PartIds
      <3>2. CASE id \in DOMAIN origin
        BY <1>1, <1>2, <3>1, <3>2
      <3>3. CASE \E c \in new : id = c.id
        BY <1>1, <1>2, <1>3, <3>1, <3>3
      <3> QED
        BY <1>2, <3>2, <3>3
    <2> QED
      BY <2>1, <2>2 DEF OriginTyped
  <1>6. ChunksTyped'
    <2>1. DOMAIN origin' = DOMAIN origin \cup {c.id : c \in new}
      BY <1>2
    <2>2. \A c \in chunks : /\ Shape(c) /\ c.id \in DOMAIN origin
                            /\ c.filenum \in DOMAIN files
                            /\ c.begin \in Nat /\ c.end \in Nat
      BY DEF Inv, ChunksTyped
    <2> QED
      BY <1>2, <1>3, <2>1, <2>2 DEF ChunksTyped, Shape
  <1>7. ChunkInItsFile'
    BY <1>2, <1>3 DEF Inv, ChunkInItsFile
  <1>8. ContentKept'
    <2> SUFFICES ASSUME NEW c \in chunks'
                 PROVE  InFile(c)' = origin'[c.id]
      BY DEF ContentKept
    <2>1. InFile(c)' = InFile(c)
      BY <1>2 DEF InFile
    <2>2. CASE c \in chunks
      BY <1>2, <1>4, <2>1, <2>2
    <2>3. CASE c \in new
      <3>1. (CHOOSE d \in new : d.id = c.id) = c
        BY <1>3, <2>3
      <3>2. origin'[c.id] = InFile(CHOOSE d \in new : d.id = c.id)
        BY <1>2, <1>3, <2>3
      <3> QED
        BY <2>1, <3>1, <3>2
    <2> QED
      BY <1>2, <2>2, <2>3
  <1> QED
    BY <1>2, <1>5, <1>6, <1>7, <1>8 DEF Inv, FilesTile, FilesInOrder

\* Sorting moves chunks in the list and in time, not in the torrent.
LEMMA EndOfLogInv ==
  ASSUME Inv, EndOfLog
  PROVE  Inv'
  <1>1. /\ files \in Seq(File)
        /\ files' = files /\ origin' = origin /\ chunkCount' = chunkCount
        /\ cursor' = Len(files)
        /\ chunks' \in {chunks, SortChunksSequentially}
    BY DEF Inv, EndOfLog
  <1>2. cursor' \in 0..Len(files')
    BY <1>1
  <1>3. ASSUME NEW c \in chunks'
        PROVE  /\ Shape(c)
               /\ \E d \in chunks : /\ c.id = d.id /\ c.filenum = d.filenum
                                    /\ c.begin = d.begin /\ c.end = d.end
    <2>1. \A d \in chunks : Shape(d)
      BY DEF Inv, ChunksTyped
    <2>2. CASE c \in chunks
      BY <2>1, <2>2
    <2>3. CASE c \in SortChunksSequentially
      <3>1. \E d \in chunks : \E p, s :
              c = [id |-> d.id, pos |-> p, t |-> s,
                   filenum |-> d.filenum, begin |-> d.begin, end |-> d.end]
        <4>1. PICK d \in chunks : c = [d EXCEPT !.pos = SortedPos(d),
                                                 !.t = TimeAt(SortedPos(d))]
          BY <2>3 DEF SortChunksSequentially
        <4> DEFINE p == SortedPos(d)
                   s == TimeAt(SortedPos(d))
        <4>2. c = [d EXCEPT !.pos = p, !.t = s]
          BY <4>1
        <4>3. d = [id |-> d.id, pos |-> d.pos, t |-> d.t,
                   filenum |-> d.filenum, begin |-> d.begin, end |-> d.end]
          BY <2>1 DEF Shape
        <4> HIDE DEF p, s
        <4>4. c = [id |-> d.id, pos |-> p, t |-> s,
                   filenum |-> d.filenum, begin |-> d.begin, end |-> d.end]
          BY <4>2, <4>3
        <4> QED
          BY <4>4
      <3>2. PICK d \in chunks : \E p, s :
              c = [id |-> d.id, pos |-> p, t |-> s,
                   filenum |-> d.filenum, begin |-> d.begin, end |-> d.end]
        BY <3>1
      <3> QED
        BY <3>2 DEF Shape
    <2> QED
      BY <1>1, <2>2, <2>3
  <1>4. ChunksTyped' /\ ChunkInItsFile' /\ ContentKept'
    <2>1. ChunksTyped'
      BY <1>1, <1>3 DEF Inv, ChunksTyped, Shape
    <2>2. ChunkInItsFile'
      BY <1>1, <1>3 DEF Inv, ChunkInItsFile
    <2>3. ContentKept'
      BY <1>1, <1>3 DEF Inv, ContentKept, InFile
    <2> QED
      BY <2>1, <2>2, <2>3
  <1> QED
    BY <1>1, <1>2, <1>4 DEF Inv, OriginTyped, FilesTile, FilesInOrder

-----------------------------------------------------------------------------
\* A turn that removes nothing, the next pass and a stutter leave the list alone.
LEMMA SameListInv ==
  ASSUME Inv, UNCHANGED <<files, chunks, chunkCount, origin>>, cursor' \in 0..Len(files)
  PROVE  Inv'
  BY DEF Inv, OriginTyped, ChunksTyped, Shape, FilesTile, FilesInOrder,
         ChunkInItsFile, ContentKept, InFile

LEMMA StepInv == Inv /\ [Next]_vars => Inv'
  <1> SUFFICES ASSUME Inv, [Next]_vars
               PROVE  Inv'
    OBVIOUS
  <1>1. /\ files \in Seq(File) /\ Len(files) \in Nat /\ DOMAIN files = 1..Len(files)
        /\ cursor \in 0..Len(files)
    BY DEF Inv
  <1>2. CASE LoggedChunk
    <2>1. PICK n \in DOMAIN files :
            \E e \in 1..(files[n].offset + files[n].length) : \E b \in 0..(e - 1) :
              \E t \in {LastTime, LastTime + 1} : ProcessChunkLine(b, e, t)
      BY <1>2 DEF LoggedChunk
    <2>2. files[n].offset \in Nat /\ files[n].length \in Nat
      <3>1. files[n] \in File
        BY <1>1, <2>1
      <3> QED
        BY <3>1 DEF File
    <2>3. PICK e \in 1..(files[n].offset + files[n].length) : \E b \in 0..(e - 1) :
              \E t \in {LastTime, LastTime + 1} : ProcessChunkLine(b, e, t)
      BY <2>1
    <2>4. PICK b \in 0..(e - 1) : \E t : ProcessChunkLine(b, e, t)
      BY <2>3
    <2>5. b \in Nat /\ e \in Nat /\ b < e
      BY <2>2
    <2> QED
      BY <2>4, <2>5, ProcessChunkLineInv
  <1>3. CASE EndOfLog
    BY <1>3, EndOfLogInv
  <1>4. CASE IgnoreFile \/ SelectFile
    <2>1. /\ cursor > 0 /\ cursor' = cursor - 1
          /\ origin' = origin /\ chunkCount' = chunkCount
          /\ RemoveFile(cursor) \/ UNCHANGED <<files, chunks>>
      BY <1>4 DEF IgnoreFile, SelectFile
    <2>2. cursor \in DOMAIN files /\ cursor' \in 0..Len(files)
      BY <1>1, <2>1
    <2>3. CASE RemoveFile(cursor)
      BY <2>1, <2>2, <2>3, RemoveFileInv
    <2>4. CASE UNCHANGED <<files, chunks>>
      BY <2>1, <2>2, <2>4, SameListInv
    <2> QED
      BY <2>1, <2>3, <2>4
  <1>5. CASE NextPass
    <2>1. cursor' \in 0..Len(files)
      BY <1>1, <1>5 DEF NextPass
    <2> QED
      BY <1>5, <2>1, SameListInv DEF NextPass
  <1>6. CASE UNCHANGED vars
    BY <1>1, <1>6, SameListInv DEF vars
  <1> QED
    BY <1>2, <1>3, <1>4, <1>5, <1>6 DEF Next

LEMMA InvHolds == Spec => []Inv
  BY InitInv, StepInv, PTL DEF Spec

\* _remove_file moves the offsets of the files behind the removed one down by
\* its length, so the list stays that of a torrent without gaps.
THEOREM FilesAlwaysTile == Spec => []FilesTile
  <1>1. Inv => FilesTile
    BY DEF Inv
  <1> QED
    BY <1>1, InvHolds, PTL

\* No chunk ever reaches over the border of the file its filenum names.
THEOREM ChunksStayInTheirFiles == Spec => []ChunkInItsFile
  <1>1. Inv => ChunkInItsFile
    BY DEF Inv
  <1> QED
    BY <1>1, InvHolds, PTL

\* Whatever is ignored and selected, in whatever order, a chunk names the bytes
\* that the log gave it.
THEOREM RenumberingKeepsContent == Spec => []ContentKept
  <1>1. Inv => ContentKept
    BY DEF Inv
  <1> QED
    BY <1>1, InvHolds, PTL

-----------------------------------------------------------------------------
(* The list in order of time, and no byte that was not received *)

\* What the passes work on, and the history variables.
Control ==
  /\ passes \in Orders \cup {<<>>}
  /\ pass \in 0..(Len(passes) + 1)
  /\ selected \subseteq Names /\ downloaded \subseteq Names
  /\ received \subseteq Nat
  /\ origin \in [DOMAIN origin -> [name : Names, begin : Nat, end : Nat]]

\* Places and times are numbers; the list is in order of time.
Listed ==
  /\ \A c \in chunks : c.id \in Nat /\ c.pos \in Nat /\ c.t \in Nat
  /\ TimesAscend

\* While the log is read there is one chunk at each place below chunkCount, and
\* its bytes were received.
Numbered ==
  pass = 0 =>
    /\ IsFiniteSet(chunks) /\ Cardinality(chunks) = chunkCount
    /\ \A c \in chunks : c.pos < chunkCount
    /\ \A c, d \in chunks : c.pos = d.pos => c = d
    /\ ChunkBytes \subseteq received

Ordered == Inv /\ Control /\ Listed /\ Numbered

\* Then no place is empty.
LEMMA EveryPlaceTaken ==
  ASSUME Ordered, pass = 0
  PROVE  \A i \in 0..(chunkCount - 1) : \E c \in chunks : c.pos = i
  <1> DEFINE place == [c \in chunks |-> c.pos]
             T == 0..(chunkCount - 1)
  <1>1. /\ chunkCount \in Nat /\ IsFiniteSet(chunks) /\ Cardinality(chunks) = chunkCount
        /\ \A c \in chunks : c.pos \in Nat /\ c.pos < chunkCount
        /\ \A c, d \in chunks : c.pos = d.pos => c = d
    BY DEF Ordered, Inv, OriginTyped, Listed, Numbered
  <1>2. place \in Injection(chunks, T)
    <2>1. \A c \in chunks : c.pos \in T
      BY <1>1
    <2> QED
      BY <1>1, <2>1 DEF Injection, IsInjective
  <1>3. IsFiniteSet(T) /\ Cardinality(T) = chunkCount
    <2>1. 0 \in Int /\ chunkCount - 1 \in Int
      BY <1>1
    <2>2. IsFiniteSet(T) /\ Cardinality(T) = IF 0 > chunkCount - 1 THEN 0 ELSE (chunkCount - 1) - 0 + 1
      BY <2>1, FS_Interval
    <2> QED
      BY <1>1, <2>2
  <1> HIDE DEF T
  <1>4. place \in Surjection(chunks, T)
    BY <1>1, <1>2, <1>3, FS_Injection
  <1>5. \A i \in T : \E c \in chunks : place[c] = i
    BY <1>4 DEF Surjection
  <1>6. \A i \in T : \E c \in chunks : c.pos = i
    BY <1>5
  <1> QED
    BY <1>6 DEF T

\* No chunk is later than LastTime.
LEMMA LastTimeFacts ==
  ASSUME Ordered, pass = 0
  PROVE  LastTime \in Nat /\ \A c \in chunks : c.t <= LastTime
  <1>1. /\ chunkCount \in Nat /\ IsFiniteSet(chunks) /\ Cardinality(chunks) = chunkCount
        /\ \A c \in chunks : c.pos \in Nat /\ c.t \in Nat /\ c.pos < chunkCount
        /\ TimesAscend
    BY DEF Ordered, Inv, OriginTyped, Listed, Numbered
  <1>2. CASE chunks = {}
    BY <1>2 DEF LastTime
  <1>3. CASE chunks # {}
    <2>1. chunkCount > 0
      BY <1>1, <1>3, FS_EmptySet
    <2>2. chunkCount - 1 \in 0..(chunkCount - 1)
      BY <1>1, <2>1
    <2>3. PICK last \in chunks : last.pos = chunkCount - 1
      BY <2>2, EveryPlaceTaken
    <2>4. ASSUME NEW c \in chunks
          PROVE  c.t <= last.t
      <3>1. c.pos <= last.pos
        BY <1>1, <2>3
      <3> QED
        BY <1>1, <3>1 DEF TimesAscend
    <2>5. \E t \in {c.t : c \in chunks} : \A c \in chunks : c.t <= t
      BY <2>4
    <2>6. LastTime \in {c.t : c \in chunks} /\ \A c \in chunks : c.t <= LastTime
      BY <1>3, <2>5 DEF LastTime
    <2> QED
      BY <1>1, <2>6
  <1> QED
    BY <1>2, <1>3

LEMMA OrderedInit == Init => Ordered
  <1> SUFFICES ASSUME Init
               PROVE  Ordered
    OBVIOUS
  <1>1. Control
    BY DEF Init, Control
  <1>2. Listed
    BY DEF Init, Listed, TimesAscend
  <1>3. Numbered
    BY FS_EmptySet DEF Init, Numbered, ChunkBytes
  <1> QED
    BY <1>1, <1>2, <1>3, InitInv DEF Ordered

\* The parts of a logged chunk come behind all others, in place and in time, and
\* only have bytes of it.
LEMMA ProcessChunkLineOrdered ==
  ASSUME Ordered, NEW b \in Nat, NEW e \in Nat, b < e, NEW t \in {LastTime, LastTime + 1},
         ProcessChunkLine(b, e, t)
  PROVE  Ordered'
  <1> DEFINE M == Matching(b, e)
             new == SplitChunkAtFileBoundaries(b, e, t)
  <1> PICK count : count = Cardinality(Matching(b, e))
    OBVIOUS
  <1>1. /\ files \in Seq(File) /\ chunkCount \in Nat /\ pass = 0
        /\ Inv /\ Control /\ Listed
    BY DEF Ordered, Inv, OriginTyped, ProcessChunkLine
  <1>2. /\ IsFiniteSet(chunks) /\ Cardinality(chunks) = chunkCount
        /\ \A c \in chunks : c.pos \in Nat /\ c.t \in Nat /\ c.pos < chunkCount
        /\ \A c, d \in chunks : c.pos = d.pos => c = d
        /\ ChunkBytes \subseteq received
    BY <1>1 DEF Ordered, Listed, Numbered
  <1>3. t \in Nat /\ \A c \in chunks : c.t <= t
    <2>1. LastTime \in Nat /\ \A c \in chunks : c.t <= LastTime
      BY <1>1, LastTimeFacts
    <2> QED
      BY <1>2, <2>1
  <1>4. /\ chunks' = chunks \cup new /\ chunkCount' = chunkCount + count /\ pass' = 0
        /\ received' = received \cup b..(e - 1)
        /\ files' = files /\ passes' = passes
        /\ selected' = selected /\ downloaded' = downloaded
    BY <1>1 DEF ProcessChunkLine
  <1>5. ASSUME NEW n \in M
        PROVE  LET c == Part(b, e, t, n) IN
               /\ c.pos = c.id /\ c.t = t /\ c.id \in Nat
               /\ chunkCount <= c.id /\ c.id < chunkCount + count
               /\ b <= c.begin /\ c.end <= e
               /\ c.begin \in Nat /\ c.end \in Nat
    <2> DEFINE c == Part(b, e, t, n)
    <2>1. c.id \in chunkCount..(chunkCount + count - 1) /\ count \in Nat
      BY <1>1, PartIds
    <2>2. n \in DOMAIN files /\ files[n] \in File
      BY <1>1 DEF Matching
    <2>3. files[n].offset \in Nat /\ files[n].length \in Nat
      BY <2>2 DEF File
    <2>4. /\ c.pos = c.id /\ c.t = t
          /\ c.begin = Max(b, files[n].offset)
          /\ c.end = Min(e, files[n].offset + files[n].length)
      BY DEF Part
    <2> HIDE DEF c
    <2>5. b <= c.begin /\ c.end <= e /\ c.begin \in Nat /\ c.end \in Nat
      BY <2>3, <2>4 DEF Max, Min
    <2>6. c.id \in Nat /\ chunkCount <= c.id /\ c.id < chunkCount + count
      BY <1>1, <2>1
    <2> QED
      BY <2>4, <2>5, <2>6 DEF c
  <1>6. /\ \A c \in new : \E n \in M : c = Part(b, e, t, n)
        /\ \A n \in M : Part(b, e, t, n) \in new
    BY DEF SplitChunkAtFileBoundaries
  <1>7. \A m, n \in M : Part(b, e, t, m).id = Part(b, e, t, n).id => m = n
    BY <1>1, PartIds
  <1>8. IsFiniteSet(new) /\ Cardinality(new) = count /\ count \in Nat
    <2> DEFINE part == [n \in M |-> Part(b, e, t, n)]
    <2>1. IsFiniteSet(M)
      <3>1. DOMAIN files = 1..Len(files) /\ Len(files) \in Nat
        BY <1>1
      <3>2. M \in SUBSET (1..Len(files)) /\ IsFiniteSet(1..Len(files))
        BY <3>1, FS_Interval DEF Matching
      <3> QED
        BY <3>2, FS_Subset
    <2>2. part \in Bijection(M, new)
      <3>1. part \in [M -> new]
        BY <1>6
      <3>2. \A m, n \in M : part[m] = part[n] => m = n
        BY <1>7
      <3>3. \A c \in new : \E n \in M : part[n] = c
        BY <1>6
      <3> HIDE DEF part
      <3> QED
        BY <3>1, <3>2, <3>3 DEF Bijection, Injection, Surjection, IsInjective
    <2> HIDE DEF part
    <2>3. ExistsBijection(M, new)
      BY <2>2 DEF ExistsBijection
    <2> QED
      BY <2>1, <2>3, FS_Bijection, FS_CardinalityType
  <1> HIDE DEF new, M
  <1>9. \A c \in new : /\ c.pos = c.id /\ c.t = t /\ c.id \in Nat
                       /\ chunkCount <= c.pos /\ c.pos < chunkCount + count
                       /\ b <= c.begin /\ c.end <= e /\ c.begin \in Nat /\ c.end \in Nat
    BY <1>5, <1>6
  <1>10. \A c, d \in new : c.pos = d.pos => c = d
    BY <1>5, <1>6, <1>7
  <1>11. Inv'
    BY <1>1, ProcessChunkLineInv
  <1>12. Listed'
    <2>1. \A c \in chunks' : c.id \in Nat /\ c.pos \in Nat /\ c.t \in Nat
      BY <1>1, <1>3, <1>4, <1>9 DEF Listed
    <2>2. ASSUME NEW c \in chunks', NEW d \in chunks', c.pos <= d.pos
          PROVE  c.t <= d.t
      <3>1. CASE c \in chunks /\ d \in chunks
        BY <1>1, <2>2, <3>1 DEF Listed, TimesAscend
      <3>2. CASE c \in chunks /\ d \in new
        BY <1>3, <1>9, <3>2
      <3>3. CASE c \in new /\ d \in chunks
        BY <1>1, <1>2, <1>9, <2>2, <3>3
      <3>4. CASE c \in new /\ d \in new
        BY <1>3, <1>9, <3>4
      <3> QED
        BY <1>4, <3>1, <3>2, <3>3, <3>4
    <2> QED
      BY <2>1, <2>2 DEF Listed, TimesAscend
  <1>13. Numbered'
    <2>1. chunks \cap new = {}
      BY <1>1, <1>2, <1>9
    <2>2. IsFiniteSet(chunks') /\ Cardinality(chunks') = chunkCount'
      <3>1. /\ IsFiniteSet(chunks \cup new)
            /\ Cardinality(chunks \cup new)
                 = Cardinality(chunks) + Cardinality(new) - Cardinality(chunks \cap new)
        BY <1>2, <1>8, FS_Union
      <3>2. Cardinality(chunks \cap new) = 0
        BY <2>1, FS_EmptySet
      <3> QED
        BY <1>1, <1>2, <1>4, <1>8, <3>1, <3>2
    <2>3. \A c \in chunks' : c.pos < chunkCount'
      BY <1>1, <1>2, <1>4, <1>8, <1>9
    <2>4. ASSUME NEW c \in chunks', NEW d \in chunks', c.pos = d.pos
          PROVE  c = d
      <3>1. CASE c \in chunks /\ d \in chunks
        BY <1>2, <2>4, <3>1
      <3>2. CASE c \in new /\ d \in new
        BY <1>10, <2>4, <3>2
      <3>3. ~(c \in chunks /\ d \in new) /\ ~(c \in new /\ d \in chunks)
        BY <1>1, <1>2, <1>9, <2>4
      <3> QED
        BY <1>4, <3>1, <3>2, <3>3
    <2>5. ChunkBytes' \subseteq received'
      <3> SUFFICES ASSUME NEW c \in chunks', NEW x \in c.begin..(c.end - 1)
                   PROVE  x \in received'
        BY DEF ChunkBytes
      <3>1. CASE c \in chunks
        BY <1>2, <1>4, <3>1 DEF ChunkBytes
      <3>2. CASE c \in new
        <4>1. x \in b..(e - 1)
          BY <1>9, <3>2
        <4> QED
          BY <1>4, <4>1
      <3> QED
        BY <1>4, <3>1, <3>2
    <2> QED
      BY <2>2, <2>3, <2>4, <2>5 DEF Numbered
  <1>14. Control'
    <2>1. received' \subseteq Nat
      BY <1>1, <1>4 DEF Control
    <2>2. origin' \in [DOMAIN origin' -> [name : Names, begin : Nat, end : Nat]]
      <3>1. origin' = [id \in DOMAIN origin \cup {c.id : c \in new} |->
                         IF id \in DOMAIN origin THEN origin[id]
                         ELSE InFile(CHOOSE c \in new : c.id = id)]
        BY DEF ProcessChunkLine, new
      <3>2. ASSUME NEW c \in new
            PROVE  InFile(c) \in [name : Names, begin : Nat, end : Nat]
        <4>1. PICK n \in M : c = Part(b, e, t, n)
          BY <1>6
        <4>2. /\ c.filenum = n /\ n \in DOMAIN files /\ c.begin \in Nat /\ c.end \in Nat
              /\ files[n].offset <= c.begin /\ c.begin < c.end
          BY <1>1, <4>1, PartInItsFile DEF M
        <4>3. files[n] \in File
          BY <1>1, <4>2
        <4>4. files[n].offset \in Nat /\ files[n].name \in Names
          BY <4>3 DEF File
        <4>5. c.begin - files[n].offset \in Nat /\ c.end - files[n].offset \in Nat
          BY <4>2, <4>4
        <4> QED
          BY <4>2, <4>4, <4>5 DEF InFile
      <3>3. \A id \in DOMAIN origin : origin[id] \in [name : Names, begin : Nat, end : Nat]
        BY <1>1 DEF Control
      <3>4. ASSUME NEW id \in {c.id : c \in new}
            PROVE  InFile(CHOOSE c \in new : c.id = id) \in [name : Names, begin : Nat, end : Nat]
        <4>1. \E c \in new : c.id = id
          OBVIOUS
        <4>2. (CHOOSE c \in new : c.id = id) \in new
          BY <4>1
        <4> QED
          BY <3>2, <4>2
      <3> QED
        BY <3>1, <3>3, <3>4
    <2>3. pass' \in 0..(Len(passes') + 1) /\ passes' \in Orders \cup {<<>>}
      BY <1>1, <1>4 DEF Control, ProcessChunkLine
    <2>4. selected' \subseteq Names /\ downloaded' \subseteq Names
      BY <1>1, <1>4 DEF Control
    <2> QED
      BY <2>1, <2>2, <2>3, <2>4 DEF Control
  <1> QED
    BY <1>11, <1>12, <1>13, <1>14 DEF Ordered

\* Each chunk of the sorted list has the time that was at its place: any two
\* places have times in order.
LEMMA EndOfLogOrdered ==
  ASSUME Ordered, EndOfLog
  PROVE  Ordered'
  <1>1. /\ chunkCount \in Nat /\ pass = 0 /\ pass' = 1
        /\ passes' \in Orders /\ selected' \in SUBSET Names /\ downloaded' \in SUBSET Names
        /\ origin' = origin /\ received' = received
        /\ chunks' \in {chunks, SortChunksSequentially}
        /\ Inv /\ Control /\ Listed
    BY DEF Ordered, Inv, OriginTyped, EndOfLog
  <1>2. /\ IsFiniteSet(chunks) /\ Cardinality(chunks) = chunkCount
        /\ \A c \in chunks : c.id \in Nat /\ c.pos \in Nat /\ c.t \in Nat /\ c.pos < chunkCount
        /\ TimesAscend
    BY <1>1 DEF Ordered, Listed, Numbered
  <1>3. ASSUME NEW c \in chunks
        PROVE  SortedPos(c) \in 0..(chunkCount - 1)
    <2> DEFINE Before == {d \in chunks : d.begin < c.begin \/ (d.begin = c.begin /\ d.pos < c.pos)}
    <2>1. Before \in SUBSET chunks
      OBVIOUS
    <2>2. c \notin Before
      <3>1. c.begin \in Nat /\ c.pos \in Nat
        BY <1>1, <1>2 DEF Inv, ChunksTyped
      <3> QED
        BY <3>1
    <2> HIDE DEF Before
    <2>3. /\ IsFiniteSet(Before) /\ Cardinality(Before) <= chunkCount
          /\ Cardinality(Before) # chunkCount
      BY <1>2, <2>1, <2>2, FS_Subset
    <2>4. Cardinality(Before) \in Nat
      BY <2>3, FS_CardinalityType
    <2>5. SortedPos(c) = Cardinality(Before)
      BY DEF SortedPos, Before
    <2> QED
      BY <1>1, <2>3, <2>4, <2>5
  <1>4. ASSUME NEW i \in 0..(chunkCount - 1)
        PROVE  \E d \in chunks : d.pos = i /\ TimeAt(i) = d.t
    <2>1. \E d \in chunks : d.pos = i
      BY <1>1, EveryPlaceTaken
    <2>2. /\ (CHOOSE d \in chunks : d.pos = i) \in chunks
          /\ (CHOOSE d \in chunks : d.pos = i).pos = i
      BY <2>1
    <2> QED
      BY <2>2 DEF TimeAt
  <1>5. ASSUME NEW c \in SortChunksSequentially
        PROVE  /\ c.pos \in 0..(chunkCount - 1) /\ c.t = TimeAt(c.pos)
               /\ c.id \in Nat
    <2>1. PICK d \in chunks : c = [d EXCEPT !.pos = SortedPos(d), !.t = TimeAt(SortedPos(d))]
      BY <1>5 DEF SortChunksSequentially
    <2> DEFINE p == SortedPos(d)
               s == TimeAt(SortedPos(d))
    <2>2. c = [d EXCEPT !.pos = p, !.t = s]
      BY <2>1
    <2>3. d = [id |-> d.id, pos |-> d.pos, t |-> d.t,
               filenum |-> d.filenum, begin |-> d.begin, end |-> d.end]
      BY <1>1 DEF Inv, ChunksTyped, Shape
    <2>4. p \in 0..(chunkCount - 1) /\ s = TimeAt(p)
      BY <1>3
    <2> HIDE DEF p, s
    <2>5. c = [id |-> d.id, pos |-> p, t |-> s,
               filenum |-> d.filenum, begin |-> d.begin, end |-> d.end]
      BY <2>2, <2>3
    <2>6. c.pos = p /\ c.t = s /\ c.id = d.id
      BY <2>5
    <2> QED
      BY <1>2, <2>4, <2>6
  <1>6. Listed'
    <2>1. CASE chunks' = chunks
      BY <1>1, <2>1 DEF Listed, TimesAscend
    <2>2. CASE chunks' = SortChunksSequentially
      <3>1. \A c \in chunks' : c.id \in Nat /\ c.pos \in Nat /\ c.t \in Nat
        BY <1>1, <1>2, <1>4, <1>5, <2>2
      <3>2. ASSUME NEW c \in chunks', NEW d \in chunks', c.pos <= d.pos
            PROVE  c.t <= d.t
        <4>1. PICK x \in chunks : x.pos = c.pos /\ c.t = x.t
          BY <1>4, <1>5, <2>2
        <4>2. PICK y \in chunks : y.pos = d.pos /\ d.t = y.t
          BY <1>4, <1>5, <2>2
        <4> QED
          BY <1>2, <3>2, <4>1, <4>2 DEF TimesAscend
      <3> QED
        BY <3>1, <3>2 DEF Listed, TimesAscend
    <2> QED
      BY <1>1, <2>1, <2>2
  <1>7. Numbered'
    BY <1>1 DEF Numbered
  <1>8. Control'
    <2>1. pass' \in 0..(Len(passes') + 1)
      BY <1>1 DEF Orders
    <2> QED
      BY <1>1, <2>1 DEF Control
  <1> QED
    BY <1>1, <1>6, <1>7, <1>8, EndOfLogInv DEF Ordered

\* A chunk that stays when a file is removed keeps its id, place and time.
LEMMA RemoveFileListed ==
  ASSUME Inv, Listed, NEW n, RemoveFile(n)
  PROVE  Listed'
  <1>1. ASSUME NEW c \in chunks'
        PROVE  \E d \in chunks : c.id = d.id /\ c.pos = d.pos /\ c.t = d.t
    <2>1. PICK d \in chunks :
            c = IF d.filenum > n
                THEN [d EXCEPT !.begin = @ - files[n].length,
                               !.end = @ - files[n].length,
                               !.filenum = @ - 1]
                ELSE d
      BY <1>1 DEF RemoveFile, ChunksWithout
    <2>2. d = [id |-> d.id, pos |-> d.pos, t |-> d.t,
               filenum |-> d.filenum, begin |-> d.begin, end |-> d.end]
      BY DEF Inv, ChunksTyped, Shape
    <2>3. CASE d.filenum > n
      <3>1. c = [id |-> d.id, pos |-> d.pos, t |-> d.t, filenum |-> d.filenum - 1,
                 begin |-> d.begin - files[n].length, end |-> d.end - files[n].length]
        BY <2>1, <2>2, <2>3
      <3>2. c.id = d.id /\ c.pos = d.pos /\ c.t = d.t
        BY <3>1
      <3> QED
        BY <3>2
    <2>4. CASE ~(d.filenum > n)
      BY <2>1, <2>4
    <2> QED
      BY <2>3, <2>4
  <1>2. \A c \in chunks' : c.id \in Nat /\ c.pos \in Nat /\ c.t \in Nat
    BY <1>1 DEF Listed
  <1>3. ASSUME NEW c \in chunks', NEW d \in chunks', c.pos <= d.pos
        PROVE  c.t <= d.t
    <2>1. PICK x \in chunks : c.pos = x.pos /\ c.t = x.t
      BY <1>1
    <2>2. PICK y \in chunks : d.pos = y.pos /\ d.t = y.t
      BY <1>1
    <2> QED
      BY <1>3, <2>1, <2>2 DEF Listed, TimesAscend
  <1> QED
    BY <1>2, <1>3 DEF Listed, TimesAscend

LEMMA OrderedStep == Ordered /\ [Next]_vars => Ordered'
  <1> SUFFICES ASSUME Ordered, [Next]_vars
               PROVE  Ordered'
    OBVIOUS
  <1>1. /\ Inv /\ Control /\ Listed /\ Inv'
        /\ Len(files) \in Nat /\ DOMAIN files = 1..Len(files)
        /\ cursor \in 0..Len(files)
    BY StepInv DEF Ordered, Inv
  <1>2. CASE LoggedChunk
    <2>1. PICK n \in DOMAIN files :
            \E e \in 1..(files[n].offset + files[n].length) : \E b \in 0..(e - 1) :
              \E t \in {LastTime, LastTime + 1} : ProcessChunkLine(b, e, t)
      BY <1>2 DEF LoggedChunk
    <2>2. files[n].offset \in Nat /\ files[n].length \in Nat
      <3>1. files \in Seq(File)
        BY <1>1 DEF Inv
      <3>2. files[n] \in File
        BY <2>1, <3>1
      <3> QED
        BY <3>2 DEF File
    <2>3. PICK e \in 1..(files[n].offset + files[n].length) : \E b \in 0..(e - 1) :
              \E t \in {LastTime, LastTime + 1} : ProcessChunkLine(b, e, t)
      BY <2>1
    <2>4. PICK b \in 0..(e - 1) : \E t \in {LastTime, LastTime + 1} : ProcessChunkLine(b, e, t)
      BY <2>3
    <2>5. b \in Nat /\ e \in Nat /\ b < e
      BY <2>2
    <2> QED
      BY <2>4, <2>5, ProcessChunkLineOrdered
  <1>3. CASE EndOfLog
    BY <1>3, EndOfLogOrdered
  <1>4. ASSUME pass \in DOMAIN passes
        PROVE  pass \in Nat /\ pass > 0 /\ Len(passes) \in Nat /\ pass <= Len(passes)
    BY <1>1, <1>4 DEF Control, Orders
  <1>5. CASE IgnoreFile \/ SelectFile
    <2>1. /\ pass \in DOMAIN passes /\ pass' = pass /\ passes' = passes
          /\ selected' = selected /\ downloaded' = downloaded
          /\ origin' = origin /\ received' = received
          /\ RemoveFile(cursor) \/ UNCHANGED <<files, chunks>>
      BY <1>5 DEF IgnoreFile, SelectFile, InPass
    <2>2. Listed'
      <3>1. CASE RemoveFile(cursor)
        BY <1>1, <3>1, RemoveFileListed
      <3>2. CASE UNCHANGED <<files, chunks>>
        BY <1>1, <3>2 DEF Listed, TimesAscend
      <3> QED
        BY <2>1, <3>1, <3>2
    <2>3. Numbered'
      BY <1>4, <2>1 DEF Numbered
    <2>4. Control'
      BY <1>1, <2>1 DEF Control
    <2> QED
      BY <1>1, <2>2, <2>3, <2>4 DEF Ordered
  <1>6. CASE NextPass
    <2>1. /\ pass \in DOMAIN passes /\ pass' = pass + 1 /\ passes' = passes
          /\ chunks' = chunks /\ selected' = selected /\ downloaded' = downloaded
          /\ origin' = origin /\ received' = received
      BY <1>6 DEF NextPass
    <2>2. Listed'
      BY <1>1, <2>1 DEF Listed, TimesAscend
    <2>3. Numbered'
      BY <1>4, <2>1 DEF Numbered
    <2>4. pass' \in 0..(Len(passes') + 1)
      BY <1>4, <2>1
    <2>5. Control'
      BY <1>1, <2>1, <2>4 DEF Control
    <2> QED
      BY <1>1, <2>2, <2>3, <2>5 DEF Ordered
  <1>7. CASE UNCHANGED vars
    <2>1. Listed' /\ Control'
      BY <1>1, <1>7 DEF vars, Listed, TimesAscend, Control
    <2>2. Numbered'
      BY <1>7 DEF vars, Ordered, Numbered, ChunkBytes
    <2> QED
      BY <1>1, <2>1, <2>2 DEF Ordered
  <1> QED
    BY <1>2, <1>3, <1>5, <1>6, <1>7 DEF Next

LEMMA OrderedHolds == Spec => []Ordered
  BY OrderedInit, OrderedStep, PTL DEF Spec

\* The list, the history and what the passes work on keep their types.
THEOREM TypeCorrect == Spec => []TypeOK
  <1>1. Ordered => TypeOK
    <2> SUFFICES ASSUME Ordered
                 PROVE  TypeOK
      OBVIOUS
    <2>1. Inv /\ Control /\ Listed
      BY DEF Ordered
    <2>2. files \in Seq([name : Names, offset : Nat, length : Nat \ {0}]) /\ cursor \in 0..Len(files)
      BY <2>1 DEF Inv, File
    <2>3. ASSUME NEW c \in chunks
          PROVE  c \in Chunk /\ c.filenum \in DOMAIN files /\ c.id \in DOMAIN origin
      <3>1. /\ c = [id |-> c.id, pos |-> c.pos, t |-> c.t, filenum |-> c.filenum,
                    begin |-> c.begin, end |-> c.end]
            /\ c.filenum \in DOMAIN files /\ c.id \in DOMAIN origin
            /\ c.begin \in Nat /\ c.end \in Nat
        BY <2>1 DEF Inv, ChunksTyped, Shape
      <3>2. c.id \in Nat /\ c.pos \in Nat /\ c.t \in Nat
        BY <2>1 DEF Listed
      <3>3. c.filenum \in Nat
        BY <2>2, <3>1
      <3> QED
        BY <3>1, <3>2, <3>3 DEF Chunk
    <2>4. chunkCount \in Nat /\ \A id \in DOMAIN origin : id \in 0..(chunkCount - 1)
      BY <2>1 DEF Inv, OriginTyped
    <2> QED
      BY <2>1, <2>2, <2>3, <2>4 DEF TypeOK, Control
  <1> QED
    BY <1>1, OrderedHolds, PTL

\* The chunk list stays in order of time, sorted sequentially or not, whatever is
\* removed from it.
THEOREM ListStaysInOrder == Spec => []TimesAscend
  <1>1. Ordered => TimesAscend
    BY DEF Ordered, Listed
  <1> QED
    BY <1>1, OrderedHolds, PTL

\* Splitting a logged chunk at the borders of the files adds no bytes to it.
THEOREM SplitAddsNothing == Spec => []OnlyReceivedBytes
  <1>1. Ordered => OnlyReceivedBytes
    BY DEF Ordered, Numbered, OnlyReceivedBytes
  <1> QED
    BY <1>1, OrderedHolds, PTL

-----------------------------------------------------------------------------
(***************************************************************************)
(* The passes over the file list leave exactly the files that were meant,  *)
(* in whatever order the caller makes them: the loops run over a list that *)
(* they shorten and whose numbers they change.                             *)
(***************************************************************************)
\* Which files are kept.  The names stay in the torrent's order, and a chunk is
\* in the list as long as its file is.
NamesIn == {files[n].name : n \in DOMAIN files}
NamesAscend == \A m, n \in DOMAIN files : m < n => files[m].name < files[n].name
ChunksKept ==
  \A id \in DOMAIN origin : origin[id].name \in NamesIn => \E c \in chunks : c.id = id

\* What a pass over a list of the files base leaves in it.
Survives(kind, base, x) ==
  IF kind = "ignore" THEN x \in Usable ELSE NumberAmong(x, base) \in selected
After(kind, base) == {x \in base : Survives(kind, base, x)}

\* The files at the beginning of pass p.
Base(p) ==
  IF p = 1 THEN Names
  ELSE IF p = 2 THEN After(passes[1], Names)
  ELSE After(passes[2], After(passes[1], Names))

\* In a pass all files that survive are in the list, those beyond the cursor do
\* survive, and those that the loop has yet to reach stand where they stood.
InProgress(kind, base) ==
  /\ NamesIn \subseteq base
  /\ \A x \in base : Survives(kind, base, x) => x \in NamesIn
  /\ \A m \in DOMAIN files : m > cursor => Survives(kind, base, files[m].name)
  /\ kind = "select" =>
       \A m \in DOMAIN files : m <= cursor => NumberAmong(files[m].name, base) = m

PassesKept ==
  /\ pass = 0 => NamesIn = Names
  /\ pass > 0 => passes \in Orders
  /\ pass \in DOMAIN passes => InProgress(passes[pass], Base(pass))
  /\ pass > 0 /\ pass > Len(passes) => NamesIn = Base(pass)

Kept == Ordered /\ NamesAscend /\ ChunksKept /\ PassesKept

LEMMA NameFacts ==
  ASSUME Inv
  PROVE  /\ Names \subseteq Nat
         /\ files \in Seq(File) /\ Len(files) \in Nat /\ DOMAIN files = 1..Len(files)
         /\ cursor \in 0..Len(files)
         /\ \A n \in DOMAIN files : files[n].name \in Names /\ files[n].name \in Nat
  <1>1. Names \subseteq Nat
    BY FileInfoAssumption DEF Names
  <1>2. files \in Seq(File) /\ cursor \in 0..Len(files)
    BY DEF Inv
  <1>3. ASSUME NEW n \in DOMAIN files
        PROVE  files[n].name \in Names
    <2>1. files[n] \in File
      BY <1>2
    <2> QED
      BY <2>1 DEF File
  <1>4. Len(files) \in Nat /\ DOMAIN files = 1..Len(files)
    BY <1>2
  <1> QED
    BY <1>1, <1>2, <1>3, <1>4

\* A file's number in the list is the number of names up to its own.
LEMMA PlaceOfName ==
  ASSUME Inv, NamesAscend, NEW n \in DOMAIN files
  PROVE  NumberAmong(files[n].name, NamesIn) = n
  <1> DEFINE S == {x \in NamesIn : x <= files[n].name}
             f == [k \in 1..n |-> files[k].name]
  <1>1. /\ Len(files) \in Nat /\ DOMAIN files = 1..Len(files) /\ n \in 1..Len(files)
        /\ \A k \in DOMAIN files : files[k].name \in Nat
    BY NameFacts
  <1>2. \A k \in 1..n : k \in DOMAIN files
    BY <1>1
  <1>3. ASSUME NEW k \in 1..n
        PROVE  files[k].name \in S
    <2>1. k = n \/ k < n
      BY <1>1
    <2>2. files[k].name <= files[n].name
      BY <1>1, <1>2, <2>1 DEF NamesAscend
    <2> QED
      BY <1>2, <2>2 DEF NamesIn
  <1>4. ASSUME NEW x \in S
        PROVE  \E k \in 1..n : files[k].name = x
    <2>1. PICK k \in DOMAIN files : x = files[k].name
      BY DEF NamesIn
    <2>2. ~(k > n)
      BY <1>1, <2>1 DEF NamesAscend
    <2> QED
      BY <1>1, <2>1, <2>2
  <1>5. ASSUME NEW j \in 1..n, NEW k \in 1..n, files[j].name = files[k].name
        PROVE  j = k
    <2>1. j \in Nat /\ k \in Nat /\ j \in DOMAIN files /\ k \in DOMAIN files
      BY <1>1, <1>2
    <2>2. ~(j < k) /\ ~(k < j)
      BY <1>1, <1>5, <2>1 DEF NamesAscend
    <2> QED
      BY <2>1, <2>2
  <1>6. f \in Bijection(1..n, S)
    <2> HIDE DEF S
    <2>1. f \in [1..n -> S]
      BY <1>3
    <2>2. \A j, k \in 1..n : f[j] = f[k] => j = k
      BY <1>5
    <2>3. \A x \in S : \E k \in 1..n : f[k] = x
      BY <1>4
    <2> HIDE DEF f
    <2> QED
      BY <2>1, <2>2, <2>3 DEF Bijection, Injection, Surjection, IsInjective
  <1>7. ExistsBijection(1..n, S)
    BY <1>6 DEF ExistsBijection
  <1>8. n \in Nat
    BY <1>1
  <1>9. Cardinality(S) = n
    BY <1>7, <1>8, FS_CountingElements
  <1> QED
    BY <1>9 DEF NumberAmong

\* A file is taken out of the list, and its name with it.
LEMMA NamesWithout ==
  ASSUME Inv, NamesAscend, NEW n \in DOMAIN files, files' = FilesWithout(n)
  PROVE  /\ NamesAscend'
         /\ NamesIn' = NamesIn \ {files[n].name}
         /\ \A m \in DOMAIN files' : /\ m \in Nat
                                     /\ m < n => m \in DOMAIN files /\ files'[m] = files[m]
                                     /\ m >= n => /\ m + 1 \in DOMAIN files
                                                  /\ files'[m].name = files[m + 1].name
  <1>1. /\ files \in Seq(File) /\ FilesTile /\ FilesInOrder
        /\ Len(files) \in Nat /\ DOMAIN files = 1..Len(files) /\ n \in 1..Len(files)
        /\ \A k \in DOMAIN files : files[k].name \in Nat
    BY NameFacts DEF Inv
  <1>2. /\ DOMAIN files' = 1..(Len(files) - 1)
        /\ \A m \in DOMAIN files' : m < n => files'[m] = files[m]
        /\ \A m \in DOMAIN files' : m >= n => files'[m].name = files[m + 1].name
    BY <1>1, FilesWithoutFacts
  <1>3. \A m \in DOMAIN files' : /\ m \in Nat
                                 /\ m < n => m \in DOMAIN files /\ files'[m] = files[m]
                                 /\ m >= n => /\ m + 1 \in DOMAIN files
                                              /\ files'[m].name = files[m + 1].name
    BY <1>1, <1>2
  <1>4. ASSUME NEW j \in DOMAIN files', NEW m \in DOMAIN files', j < m
        PROVE  files'[j].name < files'[m].name
    <2>1. CASE m < n
      BY <1>1, <1>3, <1>4, <2>1 DEF NamesAscend
    <2>2. CASE j < n /\ ~(m < n)
      <3>1. j < m + 1
        BY <1>3, <1>4
      <3>2. m >= n
        BY <1>1, <1>3, <2>2
      <3> QED
        BY <1>3, <2>2, <3>1, <3>2 DEF NamesAscend
    <2>3. CASE ~(j < n)
      <3>1. j >= n /\ m >= n /\ j + 1 < m + 1
        BY <1>1, <1>3, <1>4, <2>3
      <3> QED
        BY <1>3, <3>1 DEF NamesAscend
    <2> QED
      BY <1>1, <1>3, <1>4, <2>1, <2>2, <2>3
  <1>5. ASSUME NEW m \in DOMAIN files'
        PROVE  files'[m].name \in NamesIn \ {files[n].name}
    <2>1. CASE m < n
      <3>1. m \in DOMAIN files /\ files'[m] = files[m]
        BY <1>3, <2>1
      <3>2. files[m].name < files[n].name
        BY <2>1, <3>1 DEF NamesAscend
      <3>3. files[m].name # files[n].name
        BY <1>1, <3>1, <3>2
      <3> QED
        BY <3>1, <3>3 DEF NamesIn
    <2>2. CASE ~(m < n)
      <3>1. m >= n /\ n < m + 1
        BY <1>1, <1>3, <2>2
      <3>2. m + 1 \in DOMAIN files /\ files'[m].name = files[m + 1].name
        BY <1>3, <3>1
      <3>3. files[n].name < files[m + 1].name
        BY <3>1, <3>2 DEF NamesAscend
      <3>4. files[m + 1].name # files[n].name
        BY <1>1, <3>2, <3>3
      <3> QED
        BY <3>2, <3>4 DEF NamesIn
    <2> QED
      BY <2>1, <2>2
  <1>6. ASSUME NEW k \in DOMAIN files, k # n
        PROVE  files[k].name \in NamesIn'
    <2>1. CASE k < n
      <3>1. k \in DOMAIN files'
        BY <1>1, <1>2, <2>1
      <3>2. files'[k] = files[k]
        BY <1>3, <2>1, <3>1
      <3> QED
        BY <3>1, <3>2 DEF NamesIn
    <2>2. CASE ~(k < n)
      <3>1. k - 1 \in DOMAIN files' /\ k - 1 >= n /\ (k - 1) + 1 = k
        BY <1>1, <1>2, <1>6, <2>2
      <3>2. files'[k - 1].name = files[k].name
        BY <1>3, <3>1
      <3> QED
        BY <3>1, <3>2 DEF NamesIn
    <2> QED
      BY <2>1, <2>2
  <1>7. NamesIn' = NamesIn \ {files[n].name}
    <2>1. \A x \in NamesIn' : x \in NamesIn \ {files[n].name}
      BY <1>5 DEF NamesIn
    <2>2. \A x \in NamesIn \ {files[n].name} : x \in NamesIn'
      <3> TAKE x \in NamesIn \ {files[n].name}
      <3>1. PICK k \in DOMAIN files : x = files[k].name
        BY DEF NamesIn
      <3> QED
        BY <1>6, <3>1
    <2> QED
      BY <2>1, <2>2
  <1> QED
    BY <1>3, <1>4, <1>7 DEF NamesAscend

\* The chunks of the other files stay, under their ids.
LEMMA ChunksOfOthersStay ==
  ASSUME Inv, NamesAscend, ChunksKept, NEW n \in DOMAIN files, RemoveFile(n), origin' = origin
  PROVE  ChunksKept'
  <1>1. files' = FilesWithout(n) /\ chunks' = ChunksWithout(n)
    BY DEF RemoveFile
  <1>2. NamesIn' = NamesIn \ {files[n].name}
    BY <1>1, NamesWithout
  <1> SUFFICES ASSUME NEW id \in DOMAIN origin, origin[id].name \in NamesIn'
               PROVE  \E c \in chunks' : c.id = id
    BY DEF ChunksKept
  <1>3. PICK d \in chunks : d.id = id
    BY <1>2 DEF ChunksKept
  <1>4. d.filenum # n
    <2>1. InFile(d) = origin[id]
      BY <1>3 DEF Inv, ContentKept
    <2>2. files[d.filenum].name = origin[id].name
      BY <2>1 DEF InFile
    <2> QED
      BY <1>2, <2>2
  <1>5. CASE d.filenum > n
    <2> PICK c : c = [d EXCEPT !.begin = @ - files[n].length, !.end = @ - files[n].length,
                               !.filenum = @ - 1]
      OBVIOUS
    <2>1. c \in chunks'
      BY <1>1, <1>4, <1>5 DEF ChunksWithout
    <2>2. d = [id |-> d.id, pos |-> d.pos, t |-> d.t,
               filenum |-> d.filenum, begin |-> d.begin, end |-> d.end]
      BY DEF Inv, ChunksTyped, Shape
    <2>3. c = [id |-> d.id, pos |-> d.pos, t |-> d.t, filenum |-> d.filenum - 1,
               begin |-> d.begin - files[n].length, end |-> d.end - files[n].length]
      BY <2>2
    <2>4. c.id = id
      BY <1>3, <2>3
    <2> QED
      BY <2>1, <2>4
  <1>6. CASE ~(d.filenum > n)
    <2>1. d \in chunks'
      BY <1>1, <1>4, <1>6 DEF ChunksWithout
    <2> QED
      BY <1>3, <2>1
  <1> QED
    BY <1>5, <1>6

\* The loop ignores the files that are not usable.
LEMMA IgnorableFiles ==
  ASSUME Inv, NamesAscend, ChunksKept, NEW n \in DOMAIN files
  PROVE  Ignorable(n) <=> files[n].name \notin Usable
  <1>1. /\ Len(files) \in Nat /\ DOMAIN files = 1..Len(files)
        /\ \A k \in DOMAIN files : files[k].name \in Nat
    BY NameFacts
  <1>2. ASSUME HasChunksInLog(n)
        PROVE  \E id \in DOMAIN origin : origin[id].name = files[n].name
    <2>1. PICK c \in chunks : c.filenum = n
      BY <1>2 DEF HasChunksInLog
    <2>2. c.id \in DOMAIN origin /\ InFile(c) = origin[c.id]
      BY DEF Inv, ChunksTyped, ContentKept
    <2>3. origin[c.id].name = files[n].name
      BY <2>1, <2>2 DEF InFile
    <2> QED
      BY <2>2, <2>3
  <1>3. ASSUME NEW id \in DOMAIN origin, origin[id].name = files[n].name
        PROVE  HasChunksInLog(n)
    <2>1. PICK c \in chunks : c.id = id
      BY <1>3 DEF ChunksKept, NamesIn
    <2>2. c.filenum \in DOMAIN files /\ InFile(c) = origin[id]
      BY <2>1 DEF Inv, ChunksTyped, ContentKept
    <2>3. files[c.filenum].name = files[n].name
      BY <1>3, <2>2 DEF InFile
    <2>4. c.filenum \in Nat /\ n \in Nat
      BY <1>1, <2>2
    <2>5. ~(c.filenum < n) /\ ~(n < c.filenum)
      BY <1>1, <2>2, <2>3 DEF NamesAscend
    <2>6. c.filenum = n
      BY <2>4, <2>5
    <2> QED
      BY <2>6 DEF HasChunksInLog
  <1> QED
    BY <1>2, <1>3 DEF Ignorable, Usable

LEMMA PassBegins ==
  ASSUME Inv, NamesAscend, files' = files, cursor' = Len(files),
         NEW kind, NEW base, NamesIn = base
  PROVE  InProgress(kind, base)'
  <1>1. \A m \in DOMAIN files : ~(m > cursor')
    BY NameFacts
  <1>2. \A m \in DOMAIN files : NumberAmong(files[m].name, base) = m
    BY PlaceOfName
  <1>3. NamesIn' = base
    BY DEF NamesIn
  <1> QED
    BY <1>1, <1>2, <1>3 DEF InProgress, NumberAmong

LEMMA PassEnds ==
  ASSUME Inv, cursor = 0, NEW kind, NEW base, InProgress(kind, base)
  PROVE  NamesIn = After(kind, base)
  <1>1. \A m \in DOMAIN files : m > cursor
    BY NameFacts
  <1>2. \A x \in NamesIn : x \in base /\ Survives(kind, base, x)
    BY <1>1 DEF InProgress, NamesIn
  <1> QED
    BY <1>2 DEF InProgress, After

\* One turn of a loop takes the file at the cursor out, or finds it survives.
LEMMA TurnKept ==
  ASSUME Inv, NamesAscend, NEW kind, NEW base, InProgress(kind, base),
         cursor > 0, cursor' = cursor - 1,
         UNCHANGED <<origin, selected, downloaded>>,
         IF Survives(kind, base, files[cursor].name) THEN UNCHANGED files
                                                     ELSE files' = FilesWithout(cursor)
  PROVE  InProgress(kind, base)' /\ NamesAscend'
  <1>1. /\ Len(files) \in Nat /\ DOMAIN files = 1..Len(files) /\ cursor \in DOMAIN files
        /\ cursor \in Nat
    BY NameFacts
  <1>2. \A x : Survives(kind, base, x)' <=> Survives(kind, base, x)
    BY DEF Survives, Usable, NumberAmong
  <1>3. CASE Survives(kind, base, files[cursor].name)
    <2>1. files' = files /\ NamesIn' = NamesIn
      BY <1>3 DEF NamesIn
    <2>2. \A m \in DOMAIN files : m > cursor - 1 => m > cursor \/ m = cursor
      BY <1>1
    <2>3. \A m \in DOMAIN files : m > cursor' => Survives(kind, base, files[m].name)
      BY <1>3, <2>2 DEF InProgress
    <2>4. \A m \in DOMAIN files : m <= cursor' => m <= cursor
      BY <1>1
    <2>5. NamesAscend'
      BY <2>1 DEF NamesAscend
    <2>6. InProgress(kind, base)'
      BY <1>2, <2>1, <2>3, <2>4 DEF InProgress, NumberAmong
    <2> QED
      BY <2>5, <2>6
  <1>4. CASE ~Survives(kind, base, files[cursor].name)
    <2>1. files' = FilesWithout(cursor)
      BY <1>4
    <2>2. /\ NamesAscend'
          /\ NamesIn' = NamesIn \ {files[cursor].name}
          /\ \A m \in DOMAIN files' :
               /\ m \in Nat
               /\ m < cursor => m \in DOMAIN files /\ files'[m] = files[m]
               /\ m >= cursor => m + 1 \in DOMAIN files /\ files'[m].name = files[m + 1].name
      BY <1>1, <2>1, NamesWithout
    <2>3. NamesIn' \subseteq base
      BY <2>2 DEF InProgress
    <2>4. \A x \in base : Survives(kind, base, x) => x \in NamesIn'
      BY <1>4, <2>2 DEF InProgress
    <2>5. ASSUME NEW m \in DOMAIN files', m > cursor'
          PROVE  Survives(kind, base, files'[m].name)
      <3>1. m >= cursor /\ m + 1 > cursor
        BY <1>1, <2>2, <2>5
      <3> QED
        BY <2>2, <3>1 DEF InProgress
    <2>6. ASSUME kind = "select", NEW m \in DOMAIN files', m <= cursor'
          PROVE  NumberAmong(files'[m].name, base) = m
      <3>1. m < cursor /\ m <= cursor
        BY <1>1, <2>2, <2>6
      <3>2. m \in DOMAIN files /\ files'[m] = files[m]
        BY <2>2, <3>1
      <3> QED
        BY <2>6, <3>1, <3>2 DEF InProgress
    <2>7. InProgress(kind, base)'
      BY <1>2, <2>3, <2>4, <2>5, <2>6 DEF InProgress, NumberAmong
    <2> QED
      BY <2>2, <2>7
  <1> QED
    BY <1>3, <1>4

LEMMA KeptInit == Init => Kept
  <1> SUFFICES ASSUME Init
               PROVE  Kept
    OBVIOUS
  <1>1. Ordered /\ Inv
    BY OrderedInit, InitInv
  <1>2. Names \subseteq Nat
    BY <1>1, NameFacts
  <1>3. DOMAIN files = Names /\ \A n \in Names : files[n].name = n
    BY DEF Init
  <1>4. NamesIn = Names /\ NamesAscend
    BY <1>2, <1>3 DEF NamesIn, NamesAscend
  <1>5. ChunksKept
    BY DEF Init, ChunksKept
  <1>6. PassesKept
    <2>1. pass = 0 /\ passes = <<>>
      BY DEF Init
    <2> QED
      BY <1>4, <2>1 DEF PassesKept
  <1> QED
    BY <1>1, <1>4, <1>5, <1>6 DEF Kept

LEMMA ProcessChunkLineKept ==
  ASSUME Kept, NEW b, NEW e, NEW t, ProcessChunkLine(b, e, t)
  PROVE  NamesAscend' /\ ChunksKept' /\ PassesKept'
  <1> DEFINE new == SplitChunkAtFileBoundaries(b, e, t)
  <1>1. /\ files' = files /\ pass' = pass /\ passes' = passes /\ pass = 0
        /\ chunks' = chunks \cup new
        /\ DOMAIN origin' = DOMAIN origin \cup {c.id : c \in new}
        /\ \A id \in DOMAIN origin : origin'[id] = origin[id]
    BY DEF ProcessChunkLine
  <1> HIDE DEF new
  <1>2. NamesIn' = NamesIn
    BY <1>1 DEF NamesIn
  <1>3. NamesAscend'
    BY <1>1 DEF Kept, NamesAscend
  <1>4. ChunksKept'
    <2> SUFFICES ASSUME NEW id \in DOMAIN origin', origin'[id].name \in NamesIn
                 PROVE  \E c \in chunks' : c.id = id
      BY <1>2 DEF ChunksKept
    <2>1. CASE id \in DOMAIN origin
      BY <1>1, <2>1 DEF Kept, ChunksKept
    <2>2. CASE id \notin DOMAIN origin
      BY <1>1, <2>2
    <2> QED
      BY <2>1, <2>2
  <1>5. PassesKept'
    <2>1. pass \notin DOMAIN passes
      BY <1>1 DEF Kept, Ordered, Control, Orders
    <2> QED
      BY <1>1, <1>2, <2>1 DEF Kept, PassesKept
  <1> QED
    BY <1>3, <1>4, <1>5

LEMMA EndOfLogKept ==
  ASSUME Kept, EndOfLog
  PROVE  NamesAscend' /\ ChunksKept' /\ PassesKept'
  <1>1. /\ files' = files /\ origin' = origin /\ pass = 0 /\ pass' = 1
        /\ passes' \in Orders /\ cursor' = Len(files)
        /\ chunks' \in {chunks, SortChunksSequentially}
    BY DEF EndOfLog
  <1>2. NamesIn' = NamesIn /\ NamesIn = Names
    BY <1>1 DEF NamesIn, Kept, PassesKept
  <1>3. NamesAscend'
    BY <1>1 DEF Kept, NamesAscend
  <1>4. ASSUME NEW d \in chunks
        PROVE  \E c \in chunks' : c.id = d.id
    <2>1. CASE chunks' = chunks
      BY <2>1
    <2>2. CASE chunks' = SortChunksSequentially
      <3> PICK p : p = SortedPos(d)
        OBVIOUS
      <3> PICK u : u = TimeAt(p)
        OBVIOUS
      <3> PICK c : c = [d EXCEPT !.pos = p, !.t = u]
        OBVIOUS
      <3>1. c \in chunks'
        BY <2>2 DEF SortChunksSequentially
      <3>2. d = [id |-> d.id, pos |-> d.pos, t |-> d.t,
                 filenum |-> d.filenum, begin |-> d.begin, end |-> d.end]
        BY DEF Kept, Ordered, Inv, ChunksTyped, Shape
      <3>3. c = [id |-> d.id, pos |-> p, t |-> u,
                 filenum |-> d.filenum, begin |-> d.begin, end |-> d.end]
        BY <3>2
      <3>4. c.id = d.id
        BY <3>3
      <3> QED
        BY <3>1, <3>4
    <2> QED
      BY <1>1, <2>1, <2>2
  <1>5. ChunksKept'
    BY <1>1, <1>2, <1>4 DEF Kept, ChunksKept
  <1>6. PassesKept'
    <2>1. Inv /\ NamesAscend
      BY DEF Kept, Ordered
    <2>2. \A kind : InProgress(kind, Names)'
      BY <1>1, <1>2, <2>1, PassBegins
    <2>3. Len(passes') > 0 /\ 1 \in DOMAIN passes' /\ 1 > 0 /\ ~(1 > Len(passes')) /\ 1 # 0
      BY <1>1 DEF Orders
    <2>4. Base(1)' = Names
      BY DEF Base
    <2> QED
      BY <1>1, <2>2, <2>3, <2>4 DEF PassesKept
  <1> QED
    BY <1>3, <1>5, <1>6

\* What the passes leave depends on what does not change after the log is read.
LEMMA BaseStays ==
  ASSUME UNCHANGED <<origin, selected, downloaded, passes>>, NEW p
  PROVE  /\ Base(p)' = Base(p)
         /\ \A kind, base : After(kind, base)' = After(kind, base)
         /\ \A kind, base, x : Survives(kind, base, x)' <=> Survives(kind, base, x)
  <1>1. Usable' = Usable
    BY DEF Usable
  <1>2. \A kind, base, x : Survives(kind, base, x)' <=> Survives(kind, base, x)
    BY <1>1 DEF Survives, NumberAmong
  <1>3. \A kind, base : After(kind, base)' = After(kind, base)
    BY <1>2 DEF After
  <1>4. Base(p)' = Base(p)
    BY <1>3 DEF Base
  <1> QED
    BY <1>2, <1>3, <1>4

LEMMA TurnOfPassKept ==
  ASSUME Kept, IgnoreFile \/ SelectFile
  PROVE  NamesAscend' /\ ChunksKept' /\ PassesKept'
  <1> PICK kind : kind = passes[pass]
    OBVIOUS
  <1> PICK base : base = Base(pass)
    OBVIOUS
  <1>1. /\ Inv /\ NamesAscend /\ ChunksKept /\ PassesKept
        /\ cursor > 0 /\ cursor' = cursor - 1
        /\ pass \in DOMAIN passes
        /\ UNCHANGED <<passes, pass, selected, downloaded, origin>>
    BY DEF Kept, Ordered, IgnoreFile, SelectFile, InPass
  <1>2. cursor \in DOMAIN files
    BY <1>1, NameFacts
  <1>3. InProgress(kind, base)
    BY <1>1 DEF PassesKept
  <1>4. IF Survives(kind, base, files[cursor].name) THEN UNCHANGED <<files, chunks>>
                                                    ELSE RemoveFile(cursor)
    <2>1. CASE IgnoreFile
      <3>1. kind = "ignore"
        BY <2>1 DEF IgnoreFile, InPass
      <3>2. Survives(kind, base, files[cursor].name) <=> ~Ignorable(cursor)
        BY <1>1, <1>2, <3>1, IgnorableFiles DEF Survives
      <3> QED
        BY <2>1, <3>2 DEF IgnoreFile
    <2>2. CASE SelectFile
      <3>1. kind = "select" /\ kind # "ignore"
        BY <2>2 DEF SelectFile, InPass
      <3>2. cursor <= cursor
        BY <1>1, NameFacts
      <3>3. NumberAmong(files[cursor].name, base) = cursor
        BY <1>2, <1>3, <3>1, <3>2 DEF InProgress
      <3>4. Survives(kind, base, files[cursor].name) <=> cursor \in selected
        BY <3>1, <3>3 DEF Survives
      <3> QED
        BY <2>2, <3>4 DEF SelectFile
    <2> QED
      BY <2>1, <2>2
  <1>5. IF Survives(kind, base, files[cursor].name) THEN UNCHANGED files
                                                    ELSE files' = FilesWithout(cursor)
    BY <1>4 DEF RemoveFile
  <1>6. InProgress(kind, base)' /\ NamesAscend'
    BY <1>1, <1>3, <1>5, TurnKept
  <1>7. ChunksKept'
    <2>1. CASE RemoveFile(cursor)
      BY <1>1, <1>2, <2>1, ChunksOfOthersStay
    <2>2. CASE UNCHANGED <<files, chunks>>
      BY <1>1, <2>2 DEF ChunksKept, NamesIn
    <2> QED
      BY <1>4, <2>1, <2>2
  <1>8. PassesKept'
    <2>1. Base(pass)' = base
      BY <1>1, BaseStays
    <2>2. pass' \in DOMAIN passes' /\ pass' > 0 /\ pass' # 0 /\ ~(pass' > Len(passes'))
      BY <1>1 DEF Kept, Ordered, Control, Orders
    <2>3. pass > 0
      BY <1>1, <2>2
    <2> QED
      BY <1>1, <1>6, <2>1, <2>2, <2>3 DEF PassesKept
  <1> QED
    BY <1>6, <1>7, <1>8

LEMMA NextPassKept ==
  ASSUME Kept, NextPass
  PROVE  NamesAscend' /\ ChunksKept' /\ PassesKept'
  <1>1. /\ Inv /\ NamesAscend /\ ChunksKept /\ PassesKept
        /\ pass \in DOMAIN passes /\ cursor = 0 /\ pass' = pass + 1
        /\ cursor' = IF pass < Len(passes) THEN Len(files) ELSE 0
        /\ UNCHANGED <<files, chunks, chunkCount, passes, selected, downloaded, origin>>
    BY DEF Kept, Ordered, NextPass
  <1>2. /\ pass \in Nat /\ pass > 0 /\ Len(passes) \in Nat /\ pass <= Len(passes)
        /\ Len(passes) <= 2
    <2>1. passes \in Orders
      BY <1>1 DEF Kept, Ordered, Control, Orders
    <2>2. \/ Len(passes) = 1 /\ DOMAIN passes = {1}
          \/ Len(passes) = 2 /\ DOMAIN passes = {1, 2}
      BY <2>1 DEF Orders
    <2>3. pass = 1 \/ (pass = 2 /\ Len(passes) = 2)
      BY <1>1, <2>2
    <2>4. 1 <= Len(passes) /\ Len(passes) \in Nat /\ Len(passes) <= 2
      <3> PICK len : len = Len(passes)
        OBVIOUS
      <3>1. len = 1 \/ len = 2
        BY <2>2
      <3>2. 1 <= len /\ len \in Nat /\ len <= 2
        BY <3>1
      <3> QED
        BY <3>2
    <2> QED
      BY <2>3, <2>4
  <1>3. NamesIn' = NamesIn /\ NamesAscend' /\ ChunksKept'
    BY <1>1 DEF NamesIn, NamesAscend, ChunksKept
  <1>4. NamesIn = After(passes[pass], Base(pass))
    BY <1>1, PassEnds DEF PassesKept
  <1>5. Base(pass + 1) = After(passes[pass], Base(pass))
    <2>1. pass = 1 \/ pass = 2
      BY <1>2
    <2> QED
      BY <2>1 DEF Base
  <1> PICK q : q = pass + 1
    OBVIOUS
  <1> PICK base : base = Base(q)
    OBVIOUS
  <1>6. Base(q)' = base /\ NamesIn = base /\ pass' = q /\ q > 0 /\ q # 0
    BY <1>1, <1>2, <1>4, <1>5, BaseStays
  <1>7. passes' \in Orders
    BY <1>1, <1>2 DEF PassesKept
  <1>8. ASSUME q \in DOMAIN passes
        PROVE  \A kind : InProgress(kind, base)'
    <2>1. pass < Len(passes)
      <3>1. DOMAIN passes = 1..Len(passes)
        BY <1>7, <1>1 DEF Orders
      <3> QED
        BY <1>2, <1>8, <3>1
    <2>2. cursor' = Len(files)
      BY <1>1, <2>1
    <2> QED
      BY <1>1, <1>6, <2>2, PassBegins
  <1>9. PassesKept'
    BY <1>1, <1>3, <1>6, <1>7, <1>8 DEF PassesKept
  <1> QED
    BY <1>3, <1>9

LEMMA KeptStep == Kept /\ [Next]_vars => Kept'
  <1> SUFFICES ASSUME Kept, [Next]_vars
               PROVE  Kept'
    OBVIOUS
  <1>1. Ordered'
    BY OrderedStep DEF Kept
  <1>2. CASE LoggedChunk
    <2>1. \E b, e, t : ProcessChunkLine(b, e, t)
      BY <1>2 DEF LoggedChunk
    <2> QED
      BY <1>1, <2>1, ProcessChunkLineKept DEF Kept
  <1>3. CASE EndOfLog
    BY <1>1, <1>3, EndOfLogKept DEF Kept
  <1>4. CASE IgnoreFile \/ SelectFile
    BY <1>1, <1>4, TurnOfPassKept DEF Kept
  <1>5. CASE NextPass
    BY <1>1, <1>5, NextPassKept DEF Kept
  <1>6. CASE UNCHANGED vars
    <2>1. NamesIn' = NamesIn /\ NamesAscend' /\ ChunksKept'
      BY <1>6 DEF vars, Kept, NamesIn, NamesAscend, ChunksKept
    <2>2. Base(pass)' = Base(pass)
      BY <1>6, BaseStays DEF vars
    <2>3. \A kind, base : InProgress(kind, base)' <=> InProgress(kind, base)
      BY <1>6, <2>1, BaseStays DEF vars, InProgress, NumberAmong
    <2>4. PassesKept'
      BY <1>6, <2>1, <2>2, <2>3 DEF vars, Kept, PassesKept
    <2> QED
      BY <1>1, <2>1, <2>4 DEF Kept
  <1> QED
    BY <1>2, <1>3, <1>4, <1>5, <1>6 DEF Next

\* In the list of the torrent a file's number is its name.
LEMMA NumberInTorrent ==
  ASSUME NEW x \in Names
  PROVE  NumberAmong(x, Names) = x
  <1>1. Names = 1..Len(FileInfo) /\ Len(FileInfo) \in Nat
    BY FileInfoAssumption DEF Names
  <1>2. {m \in Names : m <= x} = 1..x /\ x \in Nat /\ x >= 1
    BY <1>1
  <1>3. 1 \in Int /\ x \in Int
    BY <1>2
  <1>4. Cardinality(1..x) = IF 1 > x THEN 0 ELSE x - 1 + 1
    BY <1>3, FS_Interval
  <1>5. Cardinality(1..x) = x
    BY <1>2, <1>4
  <1> QED
    BY <1>2, <1>5 DEF NumberAmong

\* Ignored and selected in whatever order, with the files renumbered all the
\* time, exactly the files that were meant are left, and all of their chunks.
THEOREM KeepsTheFilesMeant == Spec => []KeepsWhatIsMeant
  <1>1. Kept => KeepsWhatIsMeant
    <2> SUFFICES ASSUME Kept, pass > Len(passes), pass > 0
                 PROVE  /\ NamesIn = Meant
                        /\ NamesAscend
                        /\ {c.id : c \in chunks} =
                             {id \in DOMAIN origin : origin[id].name \in Meant}
      BY DEF KeepsWhatIsMeant, NamesIn, NamesAscend
    <2>1. /\ Inv /\ NamesAscend /\ ChunksKept /\ passes \in Orders
          /\ NamesIn = Base(pass)
          /\ pass \in 0..(Len(passes) + 1) /\ Len(passes) \in Nat
          /\ selected \subseteq Names /\ downloaded \subseteq Names
      BY DEF Kept, Ordered, Control, PassesKept, Orders
    <2>2. pass = Len(passes) + 1 /\ Usable \subseteq Names
      BY <2>1 DEF Usable
    <2>3. NamesIn = Meant
      <3>1. CASE passes = <<"ignore">>
        <4>1. Base(pass) = After("ignore", Names) /\ Meant = Usable
          BY <2>2, <3>1 DEF Base, Meant
        <4> QED
          BY <2>1, <2>2, <4>1 DEF After, Survives
      <3>2. CASE passes = <<"ignore", "select">>
        <4>1. Base(pass) = After("select", After("ignore", Names))
          BY <2>2, <3>2 DEF Base
        <4>2. After("ignore", Names) = Usable
          BY <2>2 DEF After, Survives
        <4>3. Meant = {name \in Usable : NumberAmong(name, Usable) \in selected}
          BY <3>2 DEF Meant
        <4> QED
          BY <2>1, <4>1, <4>2, <4>3 DEF After, Survives
      <3>3. CASE passes = <<"select", "ignore">>
        <4>1. Base(pass) = After("ignore", After("select", Names))
          BY <2>2, <3>3 DEF Base
        <4>2. After("select", Names) = selected
          BY <2>1, NumberInTorrent DEF After, Survives
        <4>3. Meant = Usable \cap selected
          BY <3>3 DEF Meant
        <4> QED
          BY <2>1, <4>1, <4>2, <4>3 DEF After, Survives
      <3> QED
        BY <2>1, <3>1, <3>2, <3>3 DEF Orders
    <2>4. ASSUME NEW c \in chunks
          PROVE  c.id \in DOMAIN origin /\ origin[c.id].name \in NamesIn
      <3>1. c.id \in DOMAIN origin /\ c.filenum \in DOMAIN files /\ InFile(c) = origin[c.id]
        BY <2>1 DEF Inv, ChunksTyped, ContentKept
      <3>2. origin[c.id].name = files[c.filenum].name
        BY <3>1 DEF InFile
      <3> QED
        BY <3>1, <3>2 DEF NamesIn
    <2>5. \A id \in DOMAIN origin : origin[id].name \in NamesIn => \E c \in chunks : c.id = id
      BY <2>1 DEF ChunksKept
    <2> QED
      BY <2>1, <2>3, <2>4, <2>5
  <1>2. Spec => []Kept
    BY KeptInit, KeptStep, PTL DEF Spec
  <1> QED
    BY <1>1, <1>2, PTL
===============================================================================

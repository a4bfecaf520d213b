# A verification project for torrential-forms

torrential-forms plays the download of a torrent as music.  A patched
Transmission client, which is part of the repository, asks peers for blocks and
logs every chunk of data that arrives; a log is turned into a score of segments; an orchestra plays the score through
SuperCollider and the SoundScape Renderer (SSR), while visualizers, which are
processes of their own, draw it and decide when a segment sounds.

This directory holds TLA+ modules that model the parts of the program with state
worth reasoning about, TLC configurations that check them on small instances,
and proofs for TLAPS about them.  `PROJECT.json` maps every definition to the
lines of the source it stands for.

Run a model with `tlc -config X.cfg M` and a proof module with `tlapm M.tla`.

## 1. The system

| Component | State | Operations | Interacts with |
|---|---|---|---|
| Recording client (`transmission-2.61/libtransmission`, `peer-mgr.c`, `peer-msgs.c`) | peers, requests, pending counts, weighted piece list, replication counts, completion | ask for blocks, receive, cancel, reject, time out, rebuild and re-sort the list, stop and start | peers over the network; writes the log |
| `TrLogReader`, `TrLog` (`tr_log_reader.py`) | `files`, `chunks`, `_chunk_count`, a cache file | read a log line, split a chunk at file boundaries, sort sequentially, `ignore_non_downloaded_files`, `select_files`, `flatten` | the log of Transmission; everything else reads its lists |
| `Interpreter` (`interpret.py`), reduction of silences (`orchestra.py:289-303`) | segments, a segment cursor per peer, the reduced time | append a chunk to a segment or begin one; shift onsets | reads chunks, makes the score |
| `Orchestra`, playback thread | indices of the next chunk and segment, time cursor, `segments_by_id` | `handle_chunk`, `handle_segment`, `set_time_cursor`, `stop`, fast forward | visualizers (`/chunk`, `/segment`, `/peer`, ...), `SsrControl`, GUI |
| `Orchestra`, handlers run by the server's thread | `segment["sound_source_id"]` | `/visualizing`, `/place_segment`, `/start_segment_movement_from_peer` | synth, SSR, scheduler |
| `Orchestra`, scheduler thread | queue of `stopped_playing` calls | `stopped_playing` | `SsrControl.free_source`, GUI |
| `SsrControl`, `basicscene.Source` (`ssr/`) | flag `allocated`, position and movement per source | `allocate_source`, `free_source`, movement thread | SSR over a socket |
| `Server` (`orchestra.py:52-133`) | registered visualizers, queue of early messages, current orchestra | `/register`, dispatch, `set_orchestra` | visualizers over OSC |
| Sequencer (`sequencer.py`) | session number, phase | new orchestra per session, `/reset` | `Server`, `Orchestra` |
| Visualizers in Python (`visual-experiments/`) and in C++ (`cinder-visualizer/TFVisualizer`) | torrent, files, segments, peers, playing segments | `/torrent`, `/file`, `/peer`, `/chunk`, `/segment` -> `add_segment` -> `/visualizing`; `/reset`, `/shutdown` | the server |
| `Gatherer` (`visual-experiments/gatherer.py`) | pieces by key | `add`, `would_append` | used by waves, puzzles, joints |
| `AncestryTracker` (`ancestry_tracker.py`) | pieces with parents and growth | `add` | ancestry plots |
| `SynthController`, SuperCollider (`synth_controller.py`, `sc/engine.sc`) | load results | `load_sound`, `play_segment`, `free_sound` | OSC over UDP |
| GUI (`gui.py`), `Stopwatch` (`stopwatch.py`) | PLAYING, STOPPED, FF; the clock | play, stop, fast forward, seek, loop | playback thread |
| `Predecoder` (`predecode.py`) | decoded files on disk | decode unless already decoded | external decoders |

### What is hard

* **Who frees what.**  `allocate_source` and `free_source` are four steps and
  three threads, in two or more processes, apart.  Nothing on the way carries
  the source: every step reads `segment["sound_source_id"]` as it is then.
* **Lists that are renumbered in place**, from loops that run over them, twice
  in a row, in different orders in different programs.
* **Merging.**  The score, the gatherer and the ancestry tracker all join
  intervals that come in any order; a fault appears after a long sequence.
* **Tables that say the same thing twice.**  The client keeps requests as a list,
  as a count per peer and as a count per piece, and orders the pieces by those
  counts; cancels, chokes, rejects, time-outs and late answers each undo a
  different part of it.
* **A cursor that two threads move.**  A seek or a stop sets the indices while the
  playback thread has an event in hand that it is about to count.
* **Told once, forgotten by reset.**  Each visualizer must hear of files and peers
  before anything refers to them, through sessions and late greetings.
* **Threads without locks**: the GUI, the playback thread, the scheduler, the
  thread that serves OSC, the thread that moves SSR's sources.
* **Silent ends**: an exception in a handler ends the serving thread; a lost UDP
  packet makes the loader wait for ever.

`PROJECT.json` ("hazards") lists these at their lines, with the properties that
cover them, or why none does yet.

### What makes each component correct

* Log reader: the parts of a chunk are that chunk; file offsets tile the
  torrent after each removal; a chunk names the same bytes of the same file for
  ever; times ascend; the files kept are those that were meant.
* Recording client: every request is for a block that is missing, to a peer that
  is still connected; the counts agree with the requests; the piece list is in order whenever
  it is searched; a seed that stays completes the download.
* Interpreter: a segment is a gapless run of chunks of one peer in one file,
  bounded in time and without long pauses; onsets ascend; silences are cut and
  nothing else is.
* Playback: a source belongs to at most one play; none is lost; a segment is
  skipped only if all sources are in use; voices start in score order.
* Server and Sequencer: every registered visualizer knows the files of the
  current session; early messages are not lost; stale messages do no harm.
* Gatherer: pieces are disjoint, apart and cover exactly what was added;
  `-exit-when-finished` exits when, and only when, everything is there.
* Transport: what is played next is what the time cursor says.
* Loading: a sound is played only after it has been loaded; loading ends.

## 2. The modules

### SourcePool and SegmentPlayback

`SourcePool` is the abstract specification: users hold sources, a user at most
one, a source at most one user.

`SegmentPlayback` is the flow that `doc/architecture.txt` draws, with one action
per step of each thread:

| Action | Thread | Code |
|---|---|---|
| `PlaySegment` with `VisualizeSegment` | playback | `handle_segment`, `play_segment`, `visualize_segment`, `allocate_source`, then `current_segment_index += 1` |
| `Rewind` | playback | `play_non_realtime` with `--loop`: `set_time_cursor(0)` |
| `HandleSegmentMessage(v)` | visualizer `v` | `handle_segment_message`, `add_segment`, `playing_segment` |
| `HandleVisualizingMessage` | server's OSC thread | `_handle_visualizing_message`, `_ask_synth_to_play_segment` |
| `StoppedPlaying(voice)` | scheduler | `stopped_playing`, `free_source` |

`segmentMessages[v]` and `visualizing` are the TCP connections and the queues of
the receivers: in order and without loss.  `visualizing` is one queue, since the
server serves all visualizers' messages from one queue of its receiver.
`voices` are the pending calls in the scheduler.  Durations are not modelled, so
a voice may end at any time after it began and in any order: this includes every
timing.  Which free source `allocate_source` finds first in its dictionary is
left open.  A `Play` has a number `pass` for the model's eyes only, to tell the
plays of a segment apart; no guard depends on it.

`Overlap` says whether a segment may be played again while its previous play is
not over.  The code does not prevent this; for a looped score longer than its
longest segment it does not happen.  The passing run and the theorems on sources
assume `Overlap = FALSE`, and `OverlappingReplay.cfg` shows what happens without.
`Sounding` is the set of the visualizers whose `File.add_segment` calls
`playing_segment`; a heat map, say, is in `Visualizers` only.

### TrLog

The list of files and the set of chunks (each with its place in the list), and
the loops that change both: `ProcessChunkLine` splits a logged chunk,
`EndOfLog` sorts if `--pretend-sequential` is given, and then one turn of a loop
over the files is one action, `IgnoreFile` or `SelectFile`, with the whole of
`_remove_file` in it.  `passes` is the order of the two loops in the calling
program: `play.py` ignores and then selects, `plot_ancestry.py` and
`revisualize_ancestry.py` select and then ignore.  File numbers count from 1
here.  `origin` and `received` are history variables: what every chunk was when
it was logged.

The input is every byte range inside the torrent.  Files are at least a byte long;
in the code an empty file is possible and matches no chunk.  Times do not go back: the log
is written as chunks arrive.  Parsing of the line is abstracted to the range and
the time it yields.

### Interpreter

`AppendChunk` and `BeginSegment` are the two branches of the loop of `interpret`
for a list of chunks as TrLog makes them (`ChunkInItsFile`, `TimesAscend`);
`ReduceSilence` is one turn of the loop of `_reduce_max_passivity_in_score`.  A
file has a `tempo`, ticks per byte, for `duration / length`.

### Gatherer

`AddApart` and `AddMerged` are the two branches of `Gatherer.add`.  Which of the
overlapping pieces is kept is left open (the code takes the first key of a
dictionary).  `Finished` is `Waves.finished`, `WouldAppend` is `would_append`.

### Requests

The requests of one torrent in the recording client.  Every handler of
`peer-mgr.c` and `peer-msgs.c` runs under the session lock, hence each is one
action, with all that `peerCallbackFunc` does in it: an answer (`GotBlock`)
cancels the other peer that was asked, counts down peer and piece, re-sorts the
list or removes the piece, or, when the piece turns out bad, makes all of it
missing again.

| Action | Code |
|---|---|
| `Connect`, `ClosePeer` | `myHandshakeDoneCB`, `closePeer` with `removePeer` |
| `GotBitfield`, `GotHaveAll`, `GotHaveNone`, `GotHave` | `readBtMessage`, replication counts in `peerCallbackFunc` |
| `RechokeDownloads`, `GotChoke`, `GotUnchoke` | `rechokeDownloads`, `readBtMessage`, `peerDeclinedAllRequests` |
| `UpdateBlockRequests` | `updateDesiredRequestCount`, `updateBlockRequests`, `tr_peerMgrGetNextRequests` |
| `GotBlock`, `GotReject` | `peerCallbackFunc` |
| `RefillUpkeep` | `refillUpkeep`: requests that have grown too old |
| `StopTorrent`, `StartTorrent` | `stopTorrent`, `tr_peerMgrStartTorrent` |

The piece list is a record: the pieces with their request counts, `sort` for
`pieceSortState`, `rep` for `pieceReplication` (which may be `NULL`).
`LowerBound` is the binary search of `tr_lowerBound` and is applied to the list
as it is, sorted or not; `InsertionSort` is the one in
`tr_peerMgrGetNextRequests`, which looks only at the pieces it has passed.
`SortByWeight` leaves open what `qsort` does with equal entries, and the salts,
which are drawn at random, may be equal.  `RemoveRequests` takes the requests of
a set out of the list one by one in the order of their blocks, as the loops over
`t->requests` do.
The time-outs of requests and of peers are left open: a request may grow too old
and a peer go at any time.  A peer may announce what it has at any time, as often
as it likes, and less than before; the code takes this as it comes
(`Announce`).  The new bitfield replaces the old one, its pieces are counted
once more, the counts of the old one are not taken back, and requests for a
piece the peer no longer has stay until they are rejected or too old.  Counts
that only grow need a bound: `MaxReplicas` stands in the guards of the
announcements (`CanCount`) for the 16 bits of the code, whose wrap-around after
65,536 announcements is not modelled.  Which peers count as seeds for
`isPeerInteresting` is left open at every `RechokeDownloads`: the mark is kept
with the address, is set by a full bitfield or by what other peers say, and
outlives a `HAVE_NONE`.  The limit on connected peers holds for incoming
connections only, so `Connect` has none.

### Sessions

The sequencer, its server and the visualizers.  The main thread's place is
`phase`; `Main` is its next step.  `set_orchestra` is three actions and `_handle`
of an early message two (`HandleEarly`, `AppendToQueue`), since the two threads
meet there.  `PlayEvent` is `handle_chunk` or `handle_segment` with every
message it causes: `_tell_visualizers` first tells a visualizer that was not
informed of torrent and files, `get_player_for_peer` sends `/peer` when the peer
is new.  `Receive(v)` is all of a visualizer's handlers: `view[v]` is what it
knows, `Declared` what it must know, and a visualizer in C++ ends with an
exception where one in Python ignores the message.  Places in space, volumes and
the release of sources are not in it; those are in `SegmentPlayback`.

### Transport

The GUI thread's buttons and timeline against the playback thread, whose place
is `thread`: `"looping"` at the head of `_play_until_end`, `"holding"` an event it has taken
and sleeps for, `"handled"` before it counts it (`Advance`).  `index` are
`current_chunk_index` and `current_segment_index` (from 1 here), `from` the log
time the clock started from and `elapsed` the stopwatch.  `CurrentIndex` is the
search of `_get_current_chunk_index` with its bounds as they are.  `owed` is a
history variable: the events from the last cursor on that have not been handled;
`disturbed` says that the cursor was moved while an event was in hand, or after
the playback had ended.

### The proof modules

`SegmentPlayback_proofs`, `TrLog_proofs`, `Interpreter_proofs`,
`Gatherer_proofs`, `Requests_proofs`, `Sessions_proofs` and `Transport_proofs`
extend the module they are about.  `Requests_proofs` does so through
`PieceList_proofs`, the lemmas on the operators of the piece list (section 5).

### The definitions named as faults

Beside a definition there may be variants of it under a comment "Fault": the
same step with a plausible mistake in it.  No specification uses them.
`PROJECT.json` ("mutants") pairs them with the property that catches each.

## 3. The runs

| Run | Expected | What it shows |
|---|---|---|
| `SegmentPlayback.cfg` | pass | one sounding and one silent visualizer, four segments, two sources, one rewind: `SourceExclusive`, `NoLeak`, `SilentOnlyWhenExhausted`, `VoicesStartInScoreOrder`, refinement of `SourcePool`, and the liveness properties `AllSourcesComeBack`, `EverySourceIsUsed` |
| `SharedSources.cfg` | violation | two sounding visualizers: a source is freed while the second voice of its segment is still to come or to end, and then shared |
| `OverlappingReplay.cfg` | violation | a replay that overlaps the previous play overwrites `sound_source_id`: a source is lost, and a segment is skipped without need |
| `TrLog.cfg` | pass | three files, up to three chunks, all orders and selections: `FilesTile`, `ChunkInItsFile`, `ContentKept`, `TimesAscend`, `KeepsWhatIsMeant`, `OnlyReceivedBytes` |
| `LostBytes.cfg` | violation | a chunk over a whole short file loses its bytes |
| `Interpreter.cfg` | pass | two peers, three chunks, two files: `SegmentIsItsChunks`, `OnsetsAscend`, `SpanBounded`, `NoLongPause`, `SilencesCapped` |
| `Gatherer.cfg` | pass | eight bytes in two files, all segments in all orders: `Separated`, `CoverageExact`, `FinishedMeansComplete`, `ContinuesAtMostOne` |
| `FinishedWaves.cfg` | violation | everything is gathered and waves does not exit |
| `Requests.cfg` | pass | a seed and a leech, three blocks: `NothingAskedInVain`, `PendingExact`, `CountsCovered`, `ReplicationCovers`, `KeepsSorted` (an action property) and the liveness property `Completes` |
| `Sessions.cfg` | pass | one session, a visualizer in Python and one in C++: `DeclaredBeforeUse`, `EverySegmentSounds`, `QueuedMessagesArrive` |
| `UndeclaredFiles.cfg` | violation | in the second session files are not declared before use |
| `Transport.cfg` | pass | four clicks on a score of four chunks and three segments: `NothingSkipped` and `StopEnds` |

**Bounds.**  *SegmentPlayback*: four segments and two sources let the pool run
empty, refill and run empty again, with segments left out in between; two passes
let a segment come round again with another source or with none.  *TrLog*: a
middle file of one byte is the shortest that a chunk can cover, and three chunks
let every file have or lack some; the files are removed in all combinations.
*Interpreter*: three chunks are enough to begin, continue and break a segment
while the other peer's comes in between; the constants make a pause, a too long
segment and simultaneous chunks all possible (`MaxStep` 2, `MaxPause` 1,
`MaxSegmentDuration` 4).  *Gatherer*: eight bytes give room for two pieces that
one segment joins, and for three apart; the state space is complete, nothing
bounds how many segments are added.  *Requests*: two pieces, the last one short
as at the end of a torrent, let the order of the list change by requests, by
missing blocks and by replication; with a seed and a leech one piece is rarer
than the other; two peers are enough for the end game, in which at most two are
asked; nothing bounds how often peers come, choke, reject and go, or the torrent
stops and starts.  The seed may announce all or nothing at any time and the leech
its piece, again and again, up to counts of two (`MaxReplicas`): enough for
counts that are exact and for counts that are too high by an announcement that
was repeated or taken back.  *Sessions*: one visualizer in Python that sounds and greets
and one in C++, because they forget different things; two peers in two files so
that places of peers and files can be mixed up.  *Transport*: `Times` has
simultaneous segments and chunks at the same time as segments; the cursor starts
in the middle; four clicks are enough for a seek while an event is in hand, a
stop, a fast forward and a replay (`MaxClicks`, `MaxTime` are the bounds).

**Deadlock** is checked for the gatherer only.  In the others the program may
really stop: the score is over, the list is ready, the clicks are used up, the
download is complete and its torrent stopped.

**Fairness** (`FairSpec`).  Weak fairness of each action of SegmentPlayback: the
playback thread goes on to the next segment, a visualizer serves its messages in
every frame, the server's thread polls its queue every 10 ms, and the scheduler
calls `stopped_playing` after a finite duration.  `StoppedPlaying` is fair per
voice, as every scheduled call is made.  No strong fairness is needed, as none of
the steps can be disabled by another one for ever.  Not covered by it: a process
that dies or a handler that raises (see section 6).

In *Requests*, `rechokeDownloads` runs on a timer (weak fairness).  A request is
always settled some time: answered, rejected, cancelled or too old
(`refillUpkeep`).  A seed that stays connected and unchoked is asked again and
again and answers with a good piece again and again; this is strong fairness,
written out as `[]<>` and `<>[]` formulas, and is what "a seed that serves" means.
Strong fairness of asking is justified by the timer of `peer-msgs.c` together
with the closing of idle peers, without which a leech that hoards the last block
could keep it for as long as it stays.  In *Sessions* the main thread, the
serving thread and each visualizer's loop go on (weak fairness), and every
visualizer is started some time.  In *Transport* the clock ticks and the
playback thread and the join in the GUI go on; no click is ever fair.

## 4. Findings

* `SharedSources`: the release of a source is scheduled once per answering
  visualizer and not once per segment.  Both visualizers answer for segment 1;
  the first `stopped_playing` frees source 1 while the other visualizer's voice of
  segment 1 is still to start or to end; segment 2 is given source 1, and voices
  of both segments are on it.
* `OverlappingReplay`: `sound_source_id` is overwritten by a replay.  Segments 1
  and 2 have taken both sources and segment 3 goes without; segment 1 comes round
  again before its first play is over, `allocate_source` returns `None`, and
  `None` replaces source 1, which nothing can free any more.  Segment 2 is then
  skipped as well, although no segment names source 1.
* `LostBytes`: `_chunk_matches_file` has no case for a file inside a chunk.  The
  same holds for a file that begins inside the chunk and ends exactly with it.
* `FinishedWaves`: `Waves.finished` compares positions relative to a file with
  the length of the torrent.
* `UndeclaredFiles`: `informed_about_torrent` stays set through `/reset`, which
  makes the visualizers forget their files, so the files of a second session are
  never declared.  A visualizer in Python ignores its segments; the one in C++
  would end.

Some things the modules say of the code that no run reports as a violation, since
the repository nowhere promises the contrary:

* With `--loop`, `StopEnds` does not hold: `play_non_realtime` begins anew and
  sets `_playing` again, so a stop never ends and the window, which joins the
  thread, stays frozen (`Transport` with `Loop = TRUE`).  A stop that comes
  before the thread has set `_playing` is lost in the same way until the score
  is over.
* `_get_current_chunk_index` stops one pair short: a list of two events is
  always replayed from its second one.
* A seek while an event is in hand skips the first event at the cursor; after
  the playback has ended a seek starts the clock and nothing plays; a stop after
  a seek in fast forward goes back to the last event handled; the end of
  `--fast-forward-to-start` goes back to the time the play began from.
* A reject of a request that was cancelled counts the piece down once more.
* A request stays although its peer has taken back the piece since.

Two more would fail assertions of `peer-mgr.c` that are written down but disabled
(lines 1000-1048, "too expensive for nightly builds").  The properties are weaker
than these assertions, and no run reports the difference:

* `assertReplicationCountIsExact`: `stopTorrent` frees the replication counts
  before the peers are deleted, and deleting them makes the counts anew, so after
  the next start they are too high.  Repeated announcements have the same effect,
  as the comment at the assertion says, and so have those that take back pieces.
  `ReplicationCovers` says only that the counts are never too low.
* `assertWeightedPiecesAreSorted`: a bad piece that is shorter than the others
  leaves the list out of order, which `KeepsSorted` makes an exception of.

## 5. The proofs

| Module | Theorems | Assumptions |
|---|---|---|
| `SegmentPlayback_proofs` | `TypeCorrect`, `ScoreOrderIsKept` | those of the module |
| | `SourcesAreExclusive`, `NoSourceLeaks`, `SilenceMeansExhaustion`, `ImplementsSourcePool` | `OnePlayPerSegment`: one visualizer makes segments sound and no replay overlaps |
| `Gatherer_proofs` | `TypeCorrect`, `PiecesNeverTouch`, `NothingLostNothingInvented`, `NotFinishedTooEarly`, `AppendedToOneAtMost` | those of the module |
| `TrLog_proofs` | `TypeCorrect`, `FilesAlwaysTile`, `ChunksStayInTheirFiles`, `RenumberingKeepsContent`, `ListStaysInOrder`, `SplitAddsNothing`, `KeepsTheFilesMeant`: all invariants | those of the module |
| `Interpreter_proofs` | `TypeCorrect`, `SegmentsAreTheirChunks`, `ScoreInOrder`, `SegmentsEnd`, `LongPausesDivide`, `SilencesAreCapped`: all invariants | those of the module |
| `Requests_proofs`, with `PieceList_proofs` | `TypeCorrect`, `NobodyIsAskedInVain`, `PendingIsExact`, `CountsAreCovered`, `ReplicationIsCovered`: all invariants; `OrderIsKept` | those of the module |
| `Sessions_proofs` | `TypeCorrect`, `FirstSessionIsDeclared` | those of the module |
| | `OneSessionIsDeclared` | `Len(Score) = 1`: one session is played (`play.py`; the sequencer goes on to a next) |
| `Transport_proofs` | `TypeCorrect`, `NothingIsSkipped`: all invariants | those of the module |

They hold for every value of the constants: any number of segments, sources,
visualizers, files, chunks and bytes, peers and clicks.

**SegmentPlayback.**  `SourceExclusive` is not inductive: whether two voices
share a source depends on plays that are still messages.  The invariant `Inv`
says where a play can be (in one of the three places `segmentMessages`,
`visualizing`, `voices`, and in each at most once), that a segment has at most
one pending play, that a voice's source is that of its segment, that the flags
are exactly the sources of pending plays (`NoLeak`), and that two segments with
pending plays have different sources.  Only then is what `stopped_playing` frees
known to be what the play was given.  The two assumptions are both necessary:
without either, a violating run exists.  `ImplementsSourcePool` maps
`PlaySegment` to `Acquire` or a stutter, `StoppedPlaying` to `Release`, the
message that finds no source and all else to a stutter.  `ScoreOrderIsKept`
rests on an invariant of its own: both queues are sorted per visualizer and what
is in the second comes before what is in the first.

**Gatherer.**  `Inv` is `TypeOK`, `Separated` and `CoverageExact` together:
coverage needs the extension of a merge to be an interval without holes, which
it is because each overlapping piece meets the new one; separation of the result
needs that a piece which does not touch the new one touches no merged one
either, which is separation before.

`NotFinishedTooEarly` needs one more fact, that every
byte added lies in the torrent; then a single piece from 0 to the end of the
last file covers all of it.  `AppendedToOneAtMost` is `Separated` seen from the
new segment.

**TrLog.**  `Inv` adds to the three properties the types of files and chunks and
the order of the files.  When a file is cut out, a chunk of a later file moves by
the same length as the offset of its file, so its place in it stays; that its
bytes stay inside needs that the file ahead ends before it begins.  `Ordered`
adds what is needed for the times: while the log is read, the places of the
chunks are distinct and below `_chunk_count`, and there are as many chunks, so
by counting no place is empty.  A chunk that is sorted to a place then gets the
time of the chunk that was there, and times ascend whatever the ranks are.

Which files a pass leaves (the last part of `TrLog_proofs`) is a matter of the list it
walks while it shortens it.  `InProgress` says where a pass is: every file that
is to survive is still in the list, whatever lies beyond the cursor is to
survive, and what lies before the cursor stands where it stood when the pass
began.  The number that decides about a file is therefore the one it had
then; that it is also the number of the files meant among the survivors of the
passes before is shown by counting, since the names ascend (`PlaceOfName`).

**Interpreter.**  The chunks of a segment are found by its id, and the id is the
place of its first chunk in the list: with that (`Ids`) the first chunk is a
term and not a choice.  `Content` says of the last chunk that the segment lasts
until it came, or as long as all bytes take if they came at once (`LastsUntil`);
without it nothing is known of `onset + duration`, which decides whether the
next chunk continues.  A chunk that is appended makes one new pair of successive
chunks, the old last one and itself, and the test of the code is what
`NoLongPause` asks of that pair.  For the reduction the invariant is
`previousOnset = FirstTime(reducing - 1) - reducedTime`: what has been cut so
far is the difference between old and new time at the last segment, so the
silence the code computes is that of the original score.

**Requests.**  `Inv` is the types of the variables that requests depend on, that
a peer which is not connected has no pieces, `NothingAskedInVain` and
`PendingExact`.  The piece list may be anything: what is asked is filtered by
the conditions in `tr_peerMgrGetNextRequests`, so these two do not rest on its
order.  The counting is in two lemmas, one for requests that are taken away and
one for those that are added.

The list's own invariant, `ListInv`, is proved on top of `Inv`: the list is
well formed (`List`: no piece twice, and replication counts whenever it is said
to be in order), each count is covered by requests for the piece (`Covered`),
what is asked is listed (`AskedAreListed`), and `ReplicationCovers`.  The parts need
each other and `Inv`: a piece leaves the list only when it is complete, and then
no request of it is left, because none is in vain; a rebuilt list has every
incomplete piece, so every piece that is asked for.  The replication counts only
have to be followed where they are not made anew; an announcement counts each of
its pieces once, and the peer cannot become an owner of any other
(`MoreCovered`), whatever it owned before.

`OrderIsKept` needs more than order before the step.  A handler may change
the weight of one piece only, and the others must be in order among themselves
(`OnlyOut`), for then the binary search among them finds the right place; an
asked peer changes several, all within the part of the list that was passed,
and the insertion sort puts them back from behind.  A full-size piece that
fails has a count of 0 by `Covered`, since no request of it is left; its
weight is then `BlocksPerPiece`, whether all of its blocks are there or all
are missing.  A shorter piece is the exception the property names.

`PieceList_proofs` proves what the operators of the list return for a list
of any length.  These are recursions, and induction over data is done with
sets and functions: the library's well-founded order gives every set of numbers
a least element, from which follow induction on a measure, and that a function
defined by recursion on a decreasing measure exists (`RecursiveFunction`).  That
a recursive function exists has to be shown for each, since TLA+ writes it as a
`CHOOSE`: for `LowerBound`, `InsertionSort`, `RemoveRequests` and the popping of the
peers in `StopTorrent`.  In the same way a list in order has to exist for
`SortByWeight` to mean anything (`SortExists`).  The main results are
`LowerBoundFacts` (in a list that is in order the search splits what comes before x from
what does not), `ResortFacts`, `InsertionSortFacts`, `RemoveRequestsFacts` and
`ListAfterFacts`.  All rest on `WeakOrder`: `comparePieceByWeight` is
asymmetric and its ties are transitive, whatever the salts are.

**Sessions.**  `DeclaredBeforeUse` only speaks of the head of a visualizer's
queue.  `Inv` speaks of all of it: what is on its way to a visualizer is a
`Stream`, in which the torrent comes first, each file of it and each new peer
before the content that refers to it, and the peers in the order of their
numbers without a gap, relative to what the visualizer knows already and to how
many players the orchestra has.  A visualizer that has not been informed yet has
neither a queue nor knowledge of a torrent.  Adding the messages of a new peer,
adding content and receiving the first message keep a stream a stream.  The end
of the session puts `/reset` last, and there the invariant ends: from the second
session on it does not hold, as `UndeclaredFiles` shows.  `TypeCorrect` includes
that nobody is registered twice, for which a visualizer that has sent its
registration is either still in the queue to the server, once, or among the
entries, once.

**Transport.**  `NothingSkipped` is not inductive: besides the range of the
indices, `Inv` says that the event in hand is the one at its index, and
that whatever is owed lies, while the clock runs, not before the time to which a
stop would set the cursor.  `CurrentIndex` returns, for lists of other lengths
than two, an index at or before every event from the time on; this lemma needs
the least element of a set of numbers, which the library's well-founded order
provides.

**Only model-checked.**  Liveness (`AllSourcesComeBack`, `EverySourceIsUsed`,
`Completes`, `EverySegmentSounds`, `QueuedMessagesArrive`, `StopEnds`) is out of
the reach of the prover.  Every invariant and every action property that a
passing run checks is also the statement of a theorem; those of
SegmentPlayback's sources and of Sessions' `DeclaredBeforeUse` under the
assumptions that the table names, as are the runs.

## 6. What is not modelled

Not yet, see the plan: the movement of sources, the loading of sounds, the
ancestry tracker, the cache and predecoder, the client's block cache.

Not at all: drawing, geometry and physics of the visualizers, the synthesis in
SuperCollider, plots and export scripts, geographic look-ups.  The real-time mode
does not get past its first chunk, since `play.py` looks for `chunks_queue` in
the `TrLog`, where it is not.

Transmission is vendored three times (2.20, 2.61 and a patched copy under
`geo/scanner`), with its GTK, Qt, daemon and web clients, and makes up nearly all
lines of the repository: a map of the program's own code covers a small share of
them, and only the part of 2.61 that decides what the log contains is modelled.
Left out of that part: web seeds, priorities and unwanted files, strikes and bans
after bad pieces, the magnet phase, uploading, several torrents in one session.

Abstracted in what is modelled: bytes of messages, times as numbers of seconds,
positions in space; `timefactor`, which scales all durations alike; `interpret`
without files, which only tests use; outputs other than SSR, which share no
resource between segments; chunks in SegmentPlayback, where they hold no
resource; in Sessions the hosts of the visualizers (the k-th that registers is
connected with the host of the k-th entry) and restarts of visualizers, a second
registration of which ends the serving thread; in Transport the space key, which
in fast forward starts a second playback thread.

## 7. Plan

The order is that of importance; the first seven are done.

1. `SegmentPlayback` with `SourcePool`: state of the pool across the threads.
2. `TrLog`: what is played is what was downloaded.
3. `Interpreter`: the score.
4. `Gatherer`: what is drawn.
5. `Sessions`: server, registration, announcement of files, sessions of the
   sequencer, stale and early messages, the death of the serving thread.
6. `Transport`: GUI thread against playback thread, the two indices against the
   time cursor, loop and fast forward.
7. `Requests`: what the recording client asks for.
8. `BlockCache` (`cache.c`, `completion.c`, `inout.c`): what is complete against
   what is on disk, with a crash in between.
9. `SourceMovement`: `start_movement`, `update`, late `/place_segment`.
10. `AncestryTracker`: merging with parents and growth; it should refine the
    abstract cover of which `Gatherer` is an instance as well.
11. `SoundLoading` and `Cache`: loss of `/loaded`, an interrupted write.

Composition still to come: Sessions with SegmentPlayback, where a segment that a
visualizer ignores keeps its source for ever.

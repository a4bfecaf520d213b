------------------------------ MODULE Sessions ------------------------------
(***************************************************************************)
(* The sequencer plays one session after the other to the same visualizers *)
(* (sequencer.py, with the classes Server and Orchestra of orchestra.py).  *)
(* Each visualizer is a process that keeps what it has been told of the    *)
(* torrent, its files and its peers: those in Python (visualizer.py) and   *)
(* those in C++ (cinder-visualizer).                                       *)
(*                                                                         *)
(* Three threads of the server take part: the main thread, whose place is  *)
(* phase, the playback thread, which the main thread waits for, and the    *)
(* thread that serves the messages of the visualizers.                     *)
(***************************************************************************)
EXTENDS Naturals, FiniteSets, Sequences

CONSTANTS
    Visualizer,
    CppVisualizer,  \* those that are built on TFVisualizer
    Sounding,       \* those that answer a segment with /visualizing
    Greeter,        \* those that send a message of their own accord
    Files,          \* per session, the number of its files
    Score           \* per session, its chunks and segments in order

Session == DOMAIN Score
None == [kind |-> "none"]
Event == UNION {{Score[s][k] : k \in DOMAIN Score[s]} : s \in Session}
Address == {e.peer : e \in Event}
SegmentIds(s) == {Score[s][k].id : k \in {j \in DOMAIN Score[s] : Score[s][j].kind = "segment"}}

ASSUME VisualizerAssumption ==
    /\ IsFiniteSet(Visualizer)
    /\ CppVisualizer \subseteq Visualizer /\ Greeter \subseteq Visualizer
    /\ Sounding \subseteq Visualizer \ CppVisualizer
ASSUME ScoreAssumption ==
    /\ Score # <<>>
    /\ Score \in Seq(Seq([kind : {"chunk", "segment"}, id : Nat, file : Nat, peer : STRING]))
    /\ Files \in [Session -> Nat \ {0}]
    /\ \A s \in Session : \A k \in DOMAIN Score[s] : Score[s][k].file < Files[s]

VARIABLES
    phase,       \* where the main thread is
    session,     \* count, from 1
    registered,  \* the visualizers the entries of Server.visualizers connect to
    informed,    \* the visualizers with informed_about_torrent
    players,     \* orchestra.players, the addresses of the peers
    position,    \* the next event of the score
    known,       \* per session, the keys of its orchestra's segments_by_id
    orchestra,   \* the session of Server._orchestra, 0 if it is None
    queue,       \* Server._orchestra_queue
    dispatched,  \* how many of the queue set_orchestra has dispatched
    inHand,      \* the message that _handle is about to put in the queue
    serving,     \* the thread that serves messages has not ended
    toServer,    \* the messages that wait in the server's receiver
    toVisualizer,\* per visualizer, the messages on their way to it
    started,     \* the visualizers that run
    greeted,     \* the greeters that have sent their message
    view,        \* per visualizer, what it knows of the torrent
    crashed,     \* the visualizers that have ended with an error
    heard,       \* history: the greeters whose message reached an orchestra
    asked        \* history: the segments the synth was asked to play

vars == <<phase, session, registered, informed, players, position, known, orchestra, queue,
          dispatched, inHand, serving, toServer, toVisualizer, started, greeted, view,
          crashed, heard, asked>>
mainVars == <<phase, session, informed, players, position, known>>
serverVars == <<registered, orchestra, queue, dispatched, inHand, serving, heard, asked>>
visualizerVars == <<started, greeted, view, crashed>>

\* The messages, with their names in the protocol.
Register(v) == [kind |-> "register", from |-> v]
Greeting(v) == [kind |-> "greeting", from |-> v]
Visualizing(e) == [kind |-> "visualizing", id |-> e.id]
Torrent(n) == [kind |-> "torrent", files |-> n]
File(i) == [kind |-> "file", file |-> i]
PeerMessage(i) == [kind |-> "peer", peer |-> i]
Content(e, i) == [kind |-> e.kind, id |-> e.id, file |-> e.file, peer |-> i]
Reset == [kind |-> "reset"]

Init ==
    /\ phase = "waiting" /\ session = 1
    /\ registered = <<>> /\ informed = {}
    /\ players = <<>> /\ position = 1 /\ known = [s \in Session |-> {}]
    /\ orchestra = 0 /\ queue = <<>> /\ dispatched = 0 /\ inHand = None
    /\ serving = TRUE
    /\ toServer = <<>> /\ toVisualizer = [v \in Visualizer |-> <<>>]
    /\ started = {} /\ greeted = {}
    /\ view = [v \in Visualizer |-> [torrent |-> 0, files |-> {}, peers |-> <<>>]]
    /\ crashed = {} /\ heard = {} /\ asked = {}

-----------------------------------------------------------------------------
\* _wait_for_visualizers_to_register ends, and the first orchestra is made.
AllRegistered ==
    /\ phase = "waiting"
    /\ Len(registered) = Cardinality(Visualizer)
    /\ phase' = "preparing"
    /\ UNCHANGED <<session, informed, players, position, known, serverVars, toServer,
                   toVisualizer, visualizerVars>>

\* A new orchestra is made.  set_orchestra, step by step: the orchestra is set,
\* the queue is dispatched and then replaced by an empty one.
SetOrchestra ==
    /\ phase = "preparing"
    /\ phase' = "dispatching"
    /\ players' = <<>>
    /\ position' = 1
    /\ orchestra' = session
    /\ dispatched' = 0
    /\ UNCHANGED <<session, informed, known, registered, queue, inHand, serving, heard, asked,
                   toServer, toVisualizer, visualizerVars>>

DispatchQueued ==
    /\ phase = "dispatching"
    /\ dispatched < Len(queue)
    /\ heard' = heard \cup {queue[dispatched + 1].from}
    /\ dispatched' = dispatched + 1
    /\ UNCHANGED <<mainVars, registered, orchestra, queue, inHand, serving, asked, toServer,
                   toVisualizer, visualizerVars>>

\* Fault: the queue is replaced before all of it has been dispatched.
QueueDispatchedTooSoon ==
    /\ phase = "dispatching"
    /\ phase' = "clearing"
    /\ UNCHANGED <<session, informed, players, position, known, serverVars, toServer,
                   toVisualizer, visualizerVars>>

QueueDispatched ==
    /\ phase = "dispatching"
    /\ dispatched = Len(queue)
    /\ phase' = "clearing"
    /\ UNCHANGED <<session, informed, players, position, known, serverVars, toServer,
                   toVisualizer, visualizerVars>>

\* The queue is new, and the playback thread is started.
ClearQueue ==
    /\ phase = "clearing"
    /\ phase' = "playing"
    /\ queue' = <<>>
    /\ UNCHANGED <<session, informed, players, position, known, registered, orchestra,
                   dispatched, inHand, serving, heard, asked, toServer, toVisualizer,
                   visualizerVars>>

\* Fault: the last file is left out.
TorrentInfoButLastFile(v) ==
    IF v \in informed THEN <<>>
    ELSE <<Torrent(Files[session])>> \o [i \in 1 .. Files[session] - 1 |-> File(i - 1)]

\* _send_torrent_info_to_uninformed_visualizers
TorrentInfo(v) ==
    IF v \in informed THEN <<>>
    ELSE <<Torrent(Files[session])>> \o [i \in 1 .. Files[session] |-> File(i - 1)]

\* Fault: the visualizers are informed after they have been told.
TellVisualizersThenInform(messages) ==
    /\ toVisualizer' = [v \in Visualizer |-> toVisualizer[v] \o messages \o TorrentInfo(v)]
    /\ informed' = Visualizer

\* Orchestra._tell_visualizers, for the messages of a sequence
TellVisualizers(messages) ==
    /\ toVisualizer' = [v \in Visualizer |-> toVisualizer[v] \o TorrentInfo(v) \o messages]
    /\ informed' = Visualizer

\* Fault: the player is not looked for.
PlayersWithAlways(address) == Append(players, address)

\* get_player_for_peer: the peers that are players after an event, and what
\* _create_player sends when it makes one.
PlayersWith(address) ==
    IF \E i \in DOMAIN players : players[i] = address THEN players ELSE Append(players, address)

PlayerId(address) ==
    LET with == PlayersWith(address) IN (CHOOSE i \in DOMAIN with : with[i] = address) - 1

NewPeer(address) ==
    IF PlayersWith(address) = players THEN <<>> ELSE <<PeerMessage(PlayerId(address))>>

\* _handle_event: handle_chunk or handle_segment
PlayEvent ==
    /\ phase = "playing"
    /\ position \in DOMAIN Score[session]
    /\ LET e == Score[session][position] IN
         /\ players' = PlayersWith(e.peer)
         /\ TellVisualizers(Append(NewPeer(e.peer), Content(e, PlayerId(e.peer))))
         /\ known' = IF e.kind = "segment" THEN [known EXCEPT ![session] = @ \cup {e.id}]
                                           ELSE known
    /\ position' = position + 1
    /\ UNCHANGED <<phase, session, serverVars, toServer, visualizerVars>>

\* The playback is complete: after a pause Orchestra.reset tells the
\* visualizers, and the next session is prepared if there is one.
CompletePlayback ==
    /\ phase = "playing"
    /\ position \notin DOMAIN Score[session]
    /\ TellVisualizers(<<Reset>>)
    /\ IF session + 1 \in Session THEN session' = session + 1 /\ phase' = "preparing"
                                  ELSE phase' = "over" /\ UNCHANGED session
    /\ UNCHANGED <<players, position, known, serverVars, toServer, visualizerVars>>

Main ==
    \/ AllRegistered
    \/ SetOrchestra
    \/ DispatchQueued
    \/ QueueDispatched
    \/ ClearQueue
    \/ PlayEvent
    \/ CompletePlayback

-----------------------------------------------------------------------------
\* What the thread does with the first message of the receiver.
Serves(kinds) ==
    /\ serving
    /\ inHand = None
    /\ toServer # <<>>
    /\ Head(toServer).kind \in kinds
    /\ toServer' = Tail(toServer)
    /\ UNCHANGED <<mainVars, queue, dispatched, orchestra, toVisualizer, visualizerVars>>

HandleRegister ==
    /\ Serves({"register"})
    /\ registered' = Append(registered, Head(toServer).from)
    /\ UNCHANGED <<inHand, serving, heard, asked>>

\* _handle finds no orchestra and will put the message in the queue.
HandleEarly ==
    /\ Serves({"greeting", "visualizing"})
    /\ orchestra = 0
    /\ inHand' = Head(toServer)
    /\ UNCHANGED <<registered, serving, heard, asked>>

AppendToQueue ==
    /\ inHand # None
    /\ queue' = Append(queue, inHand)
    /\ inHand' = None
    /\ UNCHANGED <<mainVars, registered, orchestra, dispatched, serving, heard, asked, toServer,
                   toVisualizer, visualizerVars>>

\* _handle finds an orchestra: the handlers of the listener and of smooth movement
HandleGreeting ==
    /\ Serves({"greeting"})
    /\ orchestra # 0
    /\ heard' = heard \cup {Head(toServer).from}
    /\ UNCHANGED <<registered, inHand, serving, asked>>

\* _handle_visualizing_message; a segment the orchestra does not know is a
\* KeyError, which ends the thread.
HandleVisualizing ==
    /\ Serves({"visualizing"})
    /\ orchestra # 0
    /\ LET id == Head(toServer).id IN
         IF id \in known[orchestra]
         THEN asked' = asked \cup {<<orchestra, id>>} /\ UNCHANGED serving
         ELSE serving' = FALSE /\ UNCHANGED asked
    /\ UNCHANGED <<registered, inHand, heard>>

Serve == HandleRegister \/ HandleEarly \/ AppendToQueue \/ HandleGreeting \/ HandleVisualizing

-----------------------------------------------------------------------------
\* Visualizer.__init__, Visualizer::setup
StartVisualizer(v) ==
    /\ v \notin started
    /\ started' = started \cup {v}
    /\ toServer' = Append(toServer, Register(v))
    /\ UNCHANGED <<mainVars, serverVars, toVisualizer, greeted, view, crashed>>

\* set_listener_position, set_listener_orientation, enable_smooth_movement
Greet(v) ==
    /\ v \in (started \cap Greeter) \ (greeted \cup crashed)
    /\ greeted' = greeted \cup {v}
    /\ toServer' = Append(toServer, Greeting(v))
    /\ UNCHANGED <<mainVars, serverVars, toVisualizer, started, view, crashed>>

\* Does visualizer v know what message m is about?  A visualizer in C++ looks
\* for the peer by its place among the peers it was told of.
Declared(v, m) ==
    CASE m.kind \in {"chunk", "segment"} ->
            /\ m.file \in view[v].files
            /\ IF v \in CppVisualizer
               THEN m.peer < Len(view[v].peers) /\ view[v].peers[m.peer + 1] = m.peer
               ELSE \E i \in DOMAIN view[v].peers : view[v].peers[i] = m.peer
      [] m.kind = "file" -> view[v].torrent > m.file
      [] m.kind = "peer" -> v \in CppVisualizer => view[v].torrent > 0
      [] OTHER -> TRUE

\* What v knows after message m.  A new torrent has no files and peers in C++,
\* and does not matter in Python.
ViewAfter(v, m) ==
    LET w == view[v] IN
    CASE m.kind = "torrent" ->
            IF v \in CppVisualizer THEN [torrent |-> m.files, files |-> {}, peers |-> <<>>]
                                   ELSE [w EXCEPT !.torrent = m.files]
      [] m.kind = "file" -> [w EXCEPT !.files = @ \cup {m.file}]
      [] m.kind = "peer" -> [w EXCEPT !.peers = Append(@, m.peer)]
      [] m.kind = "reset" -> [torrent |-> IF v \in CppVisualizer THEN 0 ELSE w.torrent,
                              files |-> {}, peers |-> <<>>]
      [] OTHER -> w

\* A visualizer in Python ignores the chunks and segments of undeclared files.
Ignores(v, m) ==
    /\ v \notin CppVisualizer
    /\ m.kind \in {"chunk", "segment"}
    /\ m.file \notin view[v].files

\* The handlers of a visualizer.
Receive(v) ==
    /\ v \in started \ crashed
    /\ toVisualizer[v] # <<>>
    /\ toVisualizer' = [toVisualizer EXCEPT ![v] = Tail(@)]
    /\ LET m == Head(toVisualizer[v]) IN
         IF Declared(v, m)
         THEN /\ view' = [view EXCEPT ![v] = ViewAfter(v, m)]
              /\ toServer' = IF m.kind = "segment" /\ v \in Sounding
                             THEN Append(toServer, Visualizing(m)) ELSE toServer
              /\ UNCHANGED crashed
         ELSE /\ crashed' = IF Ignores(v, m) THEN crashed ELSE crashed \cup {v}
              /\ UNCHANGED <<view, toServer>>
    /\ UNCHANGED <<mainVars, serverVars, started, greeted>>

Next ==
    \/ Main
    \/ Serve
    \/ \E v \in Visualizer : StartVisualizer(v) \/ Greet(v) \/ Receive(v)

Spec == Init /\ [][Next]_vars

\* Threads go on, and the visualizers are started and serve their messages.
FairSpec ==
    /\ Spec
    /\ WF_vars(Main) /\ WF_vars(Serve)
    /\ \A v \in Visualizer : WF_vars(StartVisualizer(v)) /\ WF_vars(Receive(v))

-----------------------------------------------------------------------------
\* The variables stay in their types, and a visualizer registers once.
TypeOK ==
    /\ phase \in {"waiting", "preparing", "dispatching", "clearing", "playing", "over"}
    /\ session \in Session /\ orchestra \in {0} \cup Session
    /\ registered \in Seq(Visualizer) /\ Len(registered) <= Cardinality(Visualizer)
    /\ informed \subseteq Visualizer /\ started \subseteq Visualizer
    /\ players \in Seq(Address) /\ Cardinality({players[i] : i \in DOMAIN players}) = Len(players)
    /\ position \in Nat
    /\ known \in [Session -> SUBSET Nat]
    /\ dispatched <= Len(queue) \/ phase # "dispatching"
    /\ serving \in BOOLEAN
    /\ greeted \subseteq Greeter \cap started /\ heard \subseteq greeted
    /\ crashed \subseteq started
    /\ \A r \in asked : r[2] \in known[r[1]]

\* A visualizer is told of a file and of a peer before anything refers to them
\* (ExcUndeclaredFile, ExcChunkFromUndeclaredFile, ExcSegmentFromUndeclaredFile).
DeclaredBeforeUse ==
    \A v \in Visualizer : toVisualizer[v] # <<>> => Declared(v, Head(toVisualizer[v]))

\* Every segment of the first session is played by the synth.
EverySegmentSounds ==
    Sounding # {} => \A id \in SegmentIds(1) : <>(<<1, id>> \in asked)

\* A message that is in the queue when the orchestra is set reaches it.
QueuedMessagesArrive ==
    \A v \in Greeter :
        orchestra = 0 /\ (\E i \in DOMAIN queue : queue[i].from = v) ~> v \in heard
=============================================================================

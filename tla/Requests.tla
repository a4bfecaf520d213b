------------------------------ MODULE Requests ------------------------------
(***************************************************************************)
(* The block requests of one torrent in the recording client               *)
(* (transmission-2.61/libtransmission, peer-mgr.c with peer-msgs.c): which *)
(* blocks are asked of which peers, the piece list that decides what is    *)
(* asked next, and the replication counts that order that list.  What the  *)
(* session log records is the blocks that arrive through GotBlock.         *)
(*                                                                         *)
(* Every handler runs under the session lock, hence is one action.  The    *)
(* torrent has its metadata, all its files are wanted and have the same    *)
(* priority, and it has no web seeds.                                      *)
(***************************************************************************)
EXTENDS Naturals, FiniteSets, Sequences, SequencesExt, FiniteSetsExt

CONSTANTS
    Peer,           \* the peers, as numbers in the order of their addresses
    FextPeer,       \* the peers that support the fast extension
    Offers,         \* per peer, the sets of pieces it may announce
    BlockCount,     \* tor->blockCount
    BlocksPerPiece, \* tor->blockCountInPiece; the last piece may be shorter
    Salt,           \* per piece, the random last key of the piece order
    DesiredCounts,  \* the values desiredRequestCount may take (reqq, speed)
    MaxInterested,  \* how many peers rechokeDownloads is interested in
    MaxReplicas     \* the bound of the model on the replication counts

Block == 0 .. BlockCount - 1
PieceOf(b) == b \div BlocksPerPiece
Piece == {PieceOf(b) : b \in Block}
\* the peers that may have every piece
Seed == {p \in Peer : Piece \in Offers[p]}
BlocksOf(i) == {b \in Block : PieceOf(b) = i}

ASSUME PeerAssumption == Peer \subseteq Nat /\ IsFiniteSet(Peer) /\ FextPeer \subseteq Peer
ASSUME BlockAssumption == BlockCount \in Nat /\ BlocksPerPiece \in Nat \ {0}
ASSUME OfferAssumption == Offers \in [Peer -> SUBSET SUBSET Piece]
ASSUME SaltAssumption == Salt \in [Piece -> Nat]
ASSUME DesiredAssumption == DesiredCounts \subseteq Nat \ {0}
ASSUME ReplicasAssumption == MaxReplicas \in Nat

VARIABLES
    running,     \* t->isRunning
    connected,   \* t->peers
    have,        \* peer->have
    choked,      \* the peers with peer->clientIsChoked
    interested,  \* the peers with peer->clientIsInterested
    requests,    \* t->requests, as pairs of a block and a peer
    pending,     \* peer->pendingReqsToPeer
    complete,    \* the blocks of tor->completion
    list,        \* t->pieces, t->pieceSortState and t->pieceReplication
    endgame      \* t->endgame

vars == <<running, connected, have, choked, interested, requests,
          pending, complete, list, endgame>>
peerVars == <<connected, have, choked, interested>>

Requesters(b) == {p \in Peer : <<b, p>> \in requests}
RequestsTo(p) == {b \in Block : <<b, p>> \in requests}
Missing(done, i) == Cardinality(BlocksOf(i) \ done)
IsComplete(done, i) == BlocksOf(i) \subseteq done

-----------------------------------------------------------------------------
(***************************************************************************)
(* The piece list: a record of the pieces with their request counts, the   *)
(* state of its order, and the replication counts (NoReplication when      *)
(* t->pieceReplication is NULL).  The operators take the list, the         *)
(* complete blocks and the connected peers of the moment of the call.      *)
(***************************************************************************)
NoReplication == <<>>
EmptyList == [pieces |-> <<>>, sort |-> "unsorted", rep |-> NoReplication]

Replicated(peers) == [i \in Piece |-> Cardinality({p \in peers : i \in have[p]})]

\* setComparePieceByWeightTorrent makes the counts if there are none.
Weighing(l, peers) ==
    IF l.rep = NoReplication THEN [l EXCEPT !.rep = Replicated(peers)] ELSE l

Weight(done, x) ==
    LET missing == Missing(done, x.index) IN
    IF missing > x.requestCount THEN missing - x.requestCount
                                ELSE BlocksPerPiece + x.requestCount

\* comparePieceByWeight( a, b ) < 0
Before(done, rep, a, b) ==
    \/ Weight(done, a) < Weight(done, b)
    \/ /\ Weight(done, a) = Weight(done, b)
       /\ \/ rep[a.index] < rep[b.index]
          \/ rep[a.index] = rep[b.index] /\ Salt[a.index] < Salt[b.index]

Ascending(done, rep, s) == \A j, k \in DOMAIN s : j < k => ~Before(done, rep, s[k], s[j])

\* tr_lowerBound: how many elements of s its binary search puts before x.  A
\* range r of it is what the code has as first and first + nmemb.
LowerBound(done, rep, x, s) ==
    LET Middle(r) == r[1] + (r[2] - r[1]) \div 2
        search[r \in (0 .. Len(s)) \X (0 .. Len(s))] ==
            IF r[1] >= r[2] THEN r[1]
            ELSE IF Before(done, rep, s[Middle(r) + 1], x) THEN search[<<Middle(r) + 1, r[2]>>]
                                                           ELSE search[<<r[1], Middle(r)>>]
    IN search[<<0, Len(s)>>]

Positions(l, i) == {k \in DOMAIN l.pieces : l.pieces[k].index = i}

\* The element at one position of s is moved to another.
Move(s, from, to) == InsertAt(RemoveAt(s, from), to, s[from])

\* pieceListSort; what qsort does with equal elements is left open.
SortByWeight(l, done, peers) ==
    LET w == Weighing(l, peers)
        IsSortOf(s, t) == Range(t) = Range(s) /\ Ascending(done, w.rep, t)
    IN [w EXCEPT !.pieces = CHOOSE t \in [DOMAIN @ -> Range(@)] : IsSortOf(@, t),
                 !.sort = "weight"]

\* pieceListRebuild of an empty list: the incomplete pieces
Rebuild(l, done, peers) ==
    LET wanted == SetToSeq({i \in Piece : ~IsComplete(done, i)})
        pieces == [k \in DOMAIN wanted |-> [index |-> wanted[k], requestCount |-> 0]]
    IN SortByWeight([l EXCEPT !.pieces = pieces], done, peers)

\* pieceListResortPiece, for the piece at position k
Resort(l, k, done, peers) ==
    LET w == Weighing(l, peers)
        s == w.pieces
        inPlace == /\ k > 1 => ~Before(done, w.rep, s[k], s[k - 1])
                   /\ k < Len(s) => ~Before(done, w.rep, s[k + 1], s[k])
    IN IF l.sort # "weight" THEN SortByWeight(l, done, peers)
       ELSE IF inPlace THEN w
       ELSE [w EXCEPT !.pieces =
                Move(s, k, LowerBound(done, w.rep, s[k], RemoveAt(s, k)) + 1)]

ResortPiece(l, i, done, peers) ==
    IF Positions(l, i) = {} THEN l
    ELSE Resort(l, CHOOSE k \in Positions(l, i) : TRUE, done, peers)

\* Fault: the count is not looked at.
RemoveRequestBlindly(l, b, done, peers) ==
    IF Positions(l, PieceOf(b)) = {} THEN l
    ELSE LET k == CHOOSE k \in Positions(l, PieceOf(b)) : TRUE IN
         Resort([l EXCEPT !.pieces[k].requestCount = @ - 1], k, done, peers)

\* pieceListRemoveRequest
RemoveRequest(l, b, done, peers) ==
    LET counted == {k \in Positions(l, PieceOf(b)) : l.pieces[k].requestCount > 0} IN
    IF counted = {} THEN l
    ELSE LET k == CHOOSE k \in counted : TRUE IN
         Resort([l EXCEPT !.pieces[k].requestCount = @ - 1], k, done, peers)

\* Fault: once is thought to be enough.
RemoveRequestsOnce(l, gone, done, peers) ==
    IF gone = {} THEN l ELSE RemoveRequest(l, (CHOOSE r \in gone : TRUE)[1], done, peers)

\* pieceListRemoveRequest for each of some requests, in the order of the blocks
RemoveRequests(l, gone, done, peers) ==
    LET Latest(some) == CHOOSE r \in some : \A q \in some : q[1] <= r[1]
        after[some \in SUBSET gone] ==
            IF some = {} THEN l
            ELSE RemoveRequest(after[some \ {Latest(some)}], Latest(some)[1], done, peers)
    IN after[gone]

\* pieceListRemovePiece
RemovePiece(l, i) ==
    IF Positions(l, i) = {} THEN l
    ELSE [l EXCEPT !.pieces = RemoveAt(@, CHOOSE k \in Positions(l, i) : TRUE)]

-----------------------------------------------------------------------------
Init ==
    /\ running = TRUE
    /\ connected = {} /\ choked = {} /\ interested = {}
    /\ have = [p \in Peer |-> {}]
    /\ requests = {}
    /\ pending = [p \in Peer |-> 0]
    /\ complete = {}
    /\ list = EmptyList
    /\ endgame = 0

\* myHandshakeDoneCB, when everything is all right with the handshake.  (Only
\* peers that connect with us are turned away when there are many.)
Connect(p) ==
    /\ running
    /\ p \notin connected
    /\ connected' = connected \cup {p}
    /\ have' = [have EXCEPT ![p] = {}]
    /\ choked' = choked \cup {p}
    /\ UNCHANGED <<running, interested, requests, pending, complete, list, endgame>>

\* One more replica of each of some pieces is within the bound of the model.
\* (The code's counts have 16 bits and wrap around.)
CanCount(pieces) == list.rep # NoReplication => \A i \in pieces : list.rep[i] < MaxReplicas

\* A peer announces all that it has, for the first time or once more, and the
\* list is l after that.
Announce(p, pieces, l) ==
    /\ p \in connected
    /\ pieces \in Offers[p]
    /\ CanCount(pieces)
    /\ have' = [have EXCEPT ![p] = pieces]
    /\ list' = l
    /\ UNCHANGED <<running, connected, choked, interested, requests, pending, complete, endgame>>

\* list.rep with one more replica of each of some pieces
MoreReplicas(pieces) == [i \in Piece |-> list.rep[i] + IF i \in pieces THEN 1 ELSE 0]

\* Fault: nothing is counted while the list is not in order.
CountPiecesIfSorted(pieces) ==
    IF list.rep = NoReplication \/ list.sort = "unsorted" THEN list
    ELSE [list EXCEPT !.rep = MoreReplicas(pieces), !.sort = "unsorted"]

\* Fault: the order is taken to be as it was.
CountPiecesQuietly(pieces) ==
    IF list.rep = NoReplication THEN list ELSE [list EXCEPT !.rep = MoreReplicas(pieces)]

\* The list with the pieces of a set counted once more, and found unsorted
\* if the order may have changed.
CountPieces(pieces) ==
    IF list.rep = NoReplication THEN list
    ELSE [list EXCEPT !.rep = MoreReplicas(pieces), !.sort = "unsorted"]

GotBitfield(p) == \E pieces \in Offers[p] : Announce(p, pieces, CountPieces(pieces))

GotHaveAll(p) ==
    /\ p \in FextPeer
    /\ Announce(p, Piece,
                IF list.rep = NoReplication THEN list
                ELSE [list EXCEPT !.rep = MoreReplicas(Piece)])

GotHaveNone(p) == p \in FextPeer /\ Announce(p, {}, list)

\* BT_HAVE; a piece the peer is known to have is ignored.
GotHave(p) ==
    \E i \in UNION Offers[p] \ have[p] :
        /\ p \in connected
        /\ CanCount({i})
        /\ have' = [have EXCEPT ![p] = @ \cup {i}]
        /\ list' = IF list.rep = NoReplication THEN list
                   ELSE LET l == [list EXCEPT !.rep = MoreReplicas({i})] IN
                        IF l.sort = "weight" THEN ResortPiece(l, i, complete, connected)
                                             ELSE l
        /\ UNCHANGED <<running, connected, choked, interested, requests, pending,
                       complete, endgame>>

\* Fault: a peer, be it a seed or not, is interesting for the pieces that have
\* not been begun.
InterestingForNewPieces(marked) ==
    {p \in connected : \E i \in have[p] : BlocksOf(i) \cap complete = {}}

\* isPeerInteresting: the peers that have a piece we want, and those marked as
\* seeds, whatever they say they have
Interesting(marked) ==
    {p \in connected : p \in marked \/ \E i \in have[p] : ~IsComplete(complete, i)}

\* rechokeDownloads, unless we are a seed: as many of the interesting peers as
\* allowed.  Which peers are marked as seeds is left open: a peer is when it has
\* had all pieces at some time, or when other peers said so.
RechokeDownloads ==
    \E marked \in SUBSET connected :
        LET count == IF Cardinality(Interesting(marked)) < MaxInterested
                     THEN Cardinality(Interesting(marked)) ELSE MaxInterested
        IN /\ running
           /\ complete # Block
           /\ \E chosen \in SUBSET Interesting(marked) :
                /\ Cardinality(chosen) = count
                /\ interested' = chosen
           /\ UNCHANGED <<running, connected, have, choked, requests, pending,
                          complete, list, endgame>>

GotUnchoke(p) ==
    /\ p \in connected \cap choked
    /\ choked' = choked \ {p}
    /\ UNCHANGED <<running, connected, have, interested, requests, pending,
                   complete, list, endgame>>

-----------------------------------------------------------------------------
\* updateEndgame
UpdatedEndgame ==
    LET downloading == {p \in connected : pending[p] > 0}
        n == Cardinality(requests)
    IN IF n < Cardinality(Block \ complete) THEN 0
       ELSE IF endgame > 0 THEN endgame
       ELSE n \div (IF downloading = {} THEN 1 ELSE Cardinality(downloading))

\* Fault: the blocks that are there already are asked as well.
AskableAnyway(p, b, desired, e) ==
    Requesters(b) = {} \/ (e > 0 /\ Requesters(b) \cap {p} = {} /\ desired >= e)

\* May block b be asked of peer p?  When the loop of tr_peerMgrGetNextRequests
\* comes to a block, pendingReqsToPeer + numwant - got is still desired.
Askable(p, b, desired, e) ==
    /\ b \notin complete
    /\ \/ Requesters(b) = {}
       \/ /\ e > 0
          /\ Cardinality(Requesters(b)) <= 1
          /\ p \notin Requesters(b)
          /\ desired >= e

\* The adaptive insertion sort after the first n pieces were looked at: from
\* the last of them on, each is moved to its place among those behind it.
InsertionSort(s, n, rep) ==
    LET Insert(t, k) ==
            Move(t, k, k + LowerBound(complete, rep, t[k], SubSeq(t, k + 1, Len(t))))
        sorted[k \in 0 .. n] == IF k = 0 THEN s ELSE Insert(sorted[k - 1], n + 1 - k)
    IN sorted[n]

\* The list that tr_peerMgrGetNextRequests goes through, and the place of each
\* piece in it (0 if it is not listed).
ListToAsk ==
    IF list.pieces = <<>> THEN Rebuild(list, complete, connected)
    ELSE IF list.sort # "weight" THEN SortByWeight(list, complete, connected)
    ELSE list

Places(l) == [i \in Piece |-> CHOOSE k \in 0 .. Len(l.pieces) :
                IF Positions(l, i) = {} THEN k = 0 ELSE k \in Positions(l, i)]

\* The blocks it asks: the first of those that may be asked, in the order of
\* the list and of the blocks in a piece, as many as are desired.
BlocksToAsk(p, desired) ==
    LET e == UpdatedEndgame
        place == Places(ListToAsk)
        candidates == {b \in Block : /\ place[PieceOf(b)] > 0
                                     /\ PieceOf(b) \in have[p]
                                     /\ Askable(p, b, desired, e)}
        Earlier(b, c) == \/ place[PieceOf(b)] < place[PieceOf(c)]
                         \/ PieceOf(b) = PieceOf(c) /\ b < c
    IN {b \in candidates :
          Cardinality({c \in candidates : Earlier(c, b)}) < desired - pending[p]}

\* The list after a set of blocks have been asked.
ListAfter(asked, numwant) ==
    LET l == ListToAsk
        place == Places(l)
        counted == [k \in DOMAIN l.pieces |->
                      [l.pieces[k] EXCEPT !.requestCount =
                         @ + Cardinality(asked \cap BlocksOf(l.pieces[k].index))]]
        looked == IF Cardinality(asked) < numwant THEN Len(counted)
                  ELSE Max({place[PieceOf(b)] : b \in asked})
    IN IF asked = {} THEN l
       ELSE [l EXCEPT !.pieces = InsertionSort(counted, looked, l.rep)]

\* updateBlockRequests: are more requests due?
RequestsDue(p, desired) ==
    /\ running
    /\ p \in (connected \cap interested) \ choked
    /\ 100 * pending[p] <= 66 * desired

\* peerPulse: updateDesiredRequestCount, updateBlockRequests and
\* tr_peerMgrGetNextRequests
UpdateBlockRequests(p) ==
    \E desired \in DesiredCounts :
        LET asked == BlocksToAsk(p, desired) IN
        /\ RequestsDue(p, desired)
        /\ endgame' = UpdatedEndgame
        /\ requests' = requests \cup (asked \X {p})
        /\ pending' = [pending EXCEPT ![p] = @ + Cardinality(asked)]
        /\ list' = ListAfter(asked, desired - pending[p])
        /\ UNCHANGED <<running, connected, have, choked, interested, complete>>

-----------------------------------------------------------------------------
\* Fault: a peer is thought to lose one request at a time.
PendingWithoutOne(gone) ==
    [p \in Peer |-> IF \E r \in gone : r[2] = p THEN pending[p] - 1 ELSE pending[p]]

\* pendingReqsToPeer after the requests of a set have been removed
PendingWithout(gone) ==
    [p \in Peer |-> pending[p] - Cardinality({r \in gone : r[2] = p})]

\* BT_CHOKE: without the fast extension the peer has dropped all requests.
GotChoke(p) ==
    LET dropped == IF p \in FextPeer THEN {} ELSE RequestsTo(p) IN
    /\ p \in connected \ choked
    /\ choked' = choked \cup {p}
    /\ requests' = requests \ (dropped \X {p})
    /\ pending' = PendingWithout(dropped \X {p})
    /\ list' = RemoveRequests(list, dropped \X {p}, complete, connected)
    /\ UNCHANGED <<running, connected, have, interested, complete, endgame>>

\* BT_FEXT_REJECT: the piece's count goes down even when there is no request,
\* as after a request that was cancelled.
GotReject(p) ==
    \E b \in Block :
        /\ p \in connected \cap FextPeer
        /\ requests' = requests \ {<<b, p>>}
        /\ pending' = PendingWithout({<<b, p>>} \cap requests)
        /\ list' = RemoveRequest(list, b, complete, connected)
        /\ UNCHANGED <<running, complete, endgame, peerVars>>

\* TR_PEER_CLIENT_GOT_BLOCK: the other peers are sent a cancel.  When the
\* piece is complete it is tested, and a bad one is forgotten.
GotBlock(p, ok) ==
    \E b \in RequestsTo(p) :
        LET i == PieceOf(b)
            done == complete \cup {b}
            cancelled == {r \in requests : r[1] = b}
            l == RemoveRequests(list, cancelled, complete, connected)
        IN /\ ~IsComplete(complete, i)
           /\ ok \/ IsComplete(done, i)
           /\ requests' = requests \ cancelled
           /\ pending' = PendingWithout(cancelled)
           /\ IF b \in complete
              THEN list' = l /\ UNCHANGED complete
              ELSE LET m == ResortPiece(l, i, done, connected) IN
                   /\ complete' = IF ok THEN done ELSE done \ BlocksOf(i)
                   /\ list' = IF ok /\ IsComplete(done, i) THEN RemovePiece(m, i) ELSE m
           /\ UNCHANGED <<running, endgame, peerVars>>

\* refillUpkeep: the requests of a set have grown too old.
RefillUpkeep ==
    \E old \in SUBSET requests :
        /\ old # {}
        /\ requests' = requests \ old
        /\ pending' = PendingWithout(old)
        /\ list' = RemoveRequests(list, old, complete, connected)
        /\ UNCHANGED <<running, complete, endgame, peerVars>>

\* closePeer, for an error, a purge or a peer that has been idle: removePeer
\* counts its pieces down, peerDelete takes back its requests.
ClosePeer(p) ==
    LET left == connected \ {p}
        fewer == [i \in Piece |-> list.rep[i] - IF i \in have[p] THEN 1 ELSE 0]
        l == IF list.rep = NoReplication THEN list
             ELSE [list EXCEPT !.rep = fewer,
                               !.sort = IF have[p] \in {{}, Piece} THEN @ ELSE "unsorted"]
    IN /\ running
       /\ p \in connected
       /\ connected' = left
       /\ choked' = choked \ {p}
       /\ interested' = interested \ {p}
       /\ have' = [have EXCEPT ![p] = {}]
       /\ requests' = requests \ (RequestsTo(p) \X {p})
       /\ pending' = [pending EXCEPT ![p] = 0]
       /\ list' = RemoveRequests(l, RequestsTo(p) \X {p}, complete, left)
       /\ UNCHANGED <<running, complete, endgame>>

\* stopTorrent: the counts are freed first, then the peers are popped from the
\* end.  Taking back the requests of a peer makes the counts anew, of the
\* peers that are left at that moment.
StopTorrent ==
    LET Pop(l, p) == RemoveRequests(l, RequestsTo(p) \X {p}, complete,
                                    {q \in connected : q < p})
        freed == [list EXCEPT !.rep = NoReplication, !.sort = "unsorted"]
        popped[some \in SUBSET connected] ==
            IF some = {} THEN freed ELSE Pop(popped[some \ {Min(some)}], Min(some))
    IN /\ running
       /\ running' = FALSE
       /\ connected' = {} /\ choked' = {} /\ interested' = {}
       /\ have' = [p \in Peer |-> {}]
       /\ requests' = {}
       /\ pending' = [p \in Peer |-> 0]
       /\ list' = popped[connected]
       /\ UNCHANGED <<complete, endgame>>

\* tr_peerMgrStartTorrent
StartTorrent ==
    /\ ~running
    /\ running' = TRUE
    /\ list' = [list EXCEPT !.sort = "unsorted"]
    /\ UNCHANGED <<requests, pending, complete, endgame, peerVars>>

-----------------------------------------------------------------------------
PeerNext(p) ==
    \/ Connect(p)
    \/ GotBitfield(p)
    \/ GotHaveAll(p)
    \/ GotHaveNone(p)
    \/ GotHave(p)
    \/ GotUnchoke(p)
    \/ GotChoke(p)
    \/ UpdateBlockRequests(p)
    \/ GotReject(p)
    \/ \E ok \in BOOLEAN : GotBlock(p, ok)
    \/ ClosePeer(p)

Next ==
    \/ \E p \in Peer : PeerNext(p)
    \/ RechokeDownloads
    \/ RefillUpkeep
    \/ StopTorrent
    \/ StartTorrent

\* The timers rechokePulse and peerPulse go on.  A seed that can be asked again
\* and again is asked: peerPulse comes twice a second, and a peer that takes the
\* last blocks and does not answer is closed for being idle.  A seed that is
\* asked again and again answers.  Every request is answered, withdrawn,
\* cancelled by the refill timer or lost with its peer.
\* (The SF of UpdateBlockRequests and GotBlock with what enables them spelt out.)
CanAsk(p) ==
    \E desired \in DesiredCounts : RequestsDue(p, desired) /\ BlocksToAsk(p, desired) # {}

Fairness ==
    /\ WF_vars(RechokeDownloads)
    /\ \A p \in Seed :
         /\ <>[]~CanAsk(p) \/ []<><<pending'[p] > pending[p] /\ UpdateBlockRequests(p)>>_vars
         /\ <>[](RequestsTo(p) = {}) \/ []<><<GotBlock(p, TRUE)>>_vars
    /\ \A b \in Block, p \in Peer : []<>(<<b, p>> \notin requests)

Spec == Init /\ [][Next]_vars
FairSpec == Spec /\ Fairness

-----------------------------------------------------------------------------
\* The variables stay in their types: the requests are of known blocks and
\* peers, and the list holds each piece at most once.
TypeOK ==
    /\ running \in BOOLEAN
    /\ connected \subseteq Peer
    /\ choked \subseteq connected /\ interested \subseteq connected
    /\ have \in [Peer -> SUBSET Piece]
    /\ requests \subseteq Block \X Peer
    /\ pending \in [Peer -> Nat]
    /\ complete \subseteq Block
    /\ list.pieces \in Seq([index : Piece, requestCount : Nat])
    /\ \A j, k \in DOMAIN list.pieces : list.pieces[j].index = list.pieces[k].index => j = k
    /\ list.sort \in {"unsorted", "weight"}
    /\ list.rep \in [Piece -> Nat] \cup {NoReplication}
    /\ endgame \in Nat

\* No block is asked in vain: every request is of a block that is still
\* missing, to a peer that is still connected, and at most two peers are asked
\* for a block ("don't have more than two peers requesting this block").  (The
\* peer may have announced since that it does not have the piece any more: the
\* request stays until it is rejected or grows too old.)
NothingAskedInVain ==
    /\ \A r \in requests :
         /\ r[1] \notin complete
         /\ r[2] \in connected
    /\ \A b \in Block : Cardinality(Requesters(b)) <= 2

\* pendingReqsToPeer, from which the number of new requests is computed, is
\* the number of requests to the peer, through cancels, chokes, rejects and
\* time-outs.
PendingExact == \A p \in Peer : pending[p] = Cardinality(RequestsTo(p))

\* The count of a listed piece never exceeds the requests in it, and every
\* missing piece that is asked for is listed.
CountsCovered ==
    /\ \A k \in DOMAIN list.pieces :
         list.pieces[k].requestCount
            <= Cardinality({r \in requests : PieceOf(r[1]) = list.pieces[k].index})
    /\ \A r \in requests : Positions(list, PieceOf(r[1])) # {}

\* The replication counts never fall short of the connected peers that have a
\* piece, so that counting down when a peer goes never passes zero: not when
\* peers announce what they have again, less than before or the same.
ReplicationCovers ==
    list.rep # NoReplication =>
        \A i \in Piece : list.rep[i] >= Cardinality({p \in connected : i \in have[p]})

Sorted == list.sort = "weight" => Ascending(complete, list.rep, list.pieces)

\* A piece that is shorter than the others is tested and found bad.
ShortPieceFails ==
    \E p \in Peer, r \in requests \ requests' :
        /\ GotBlock(p, FALSE)
        /\ r[1] \notin complete'
        /\ Cardinality(BlocksOf(PieceOf(r[1]))) < BlocksPerPiece

\* The incremental re-sorting keeps the list in the order of the weights
\* (assertWeightedPiecesAreSorted), except when a piece that is shorter than
\* the others turns out bad, which changes its weight and re-sorts nothing.
KeepsSorted == [][Sorted /\ ~ShortPieceFails => Sorted']_vars

\* p is a seed that stays and leaves us unchoked.
Serves(p) == running /\ p \in connected \ choked /\ have[p] = Piece

\* The download is completed if in the end a seed serves it and no piece turns
\* out bad, whatever the other peers do with the requests they have got.
Completes ==
    (\E p \in Seed : <>[]Serves(p)) /\ <>[][complete \subseteq complete']_vars
        => <>(complete = Block)
=============================================================================

--------------------------- MODULE Requests_proofs ---------------------------
(***************************************************************************)
(* Proofs about Requests for any swarm, any torrent and any limits.  That  *)
(* no block is asked in vain and that every peer's number of pending       *)
(* requests is exact holds whatever the piece list is (Inv).  With these   *)
(* two, the second half shows of the list that its counts are covered by   *)
(* requests, its replication counts by peers (ListInv), and that it stays  *)
(* in order.                                                               *)
(***************************************************************************)
EXTENDS PieceList_proofs

-----------------------------------------------------------------------------
\* The inductive invariant: the types that matter here, that a peer which is not
\* connected has no piece, and the two properties.
TypesUsed ==
    /\ requests \subseteq Block \X Peer
    /\ connected \subseteq Peer
    /\ have \in [Peer -> SUBSET Piece]
    /\ pending \in [Peer -> Nat]

StrangersHaveNothing == \A p \in Peer \ connected : have[p] = {}

Inv == TypesUsed /\ StrangersHaveNothing /\ NothingAskedInVain /\ PendingExact

\* Blocks and peers are finitely many, and so are the requests to a peer and
\* the requesters of a block.
LEMMA Finiteness ==
    /\ IsFiniteSet(Block)
    /\ \A S \in SUBSET Block : IsFiniteSet(S) /\ Cardinality(S) \in Nat
    /\ \A S \in SUBSET Peer : IsFiniteSet(S) /\ Cardinality(S) \in Nat
  <1>1. IsFiniteSet(Block)
    BY BlockAssumption, FS_Interval DEF Block
  <1>2. ASSUME NEW S \in SUBSET Block
        PROVE  IsFiniteSet(S) /\ Cardinality(S) \in Nat
    BY <1>1, FS_Subset, FS_CardinalityType
  <1>3. ASSUME NEW S \in SUBSET Peer
        PROVE  IsFiniteSet(S) /\ Cardinality(S) \in Nat
    BY PeerAssumption, FS_Subset, FS_CardinalityType
  <1> QED
    BY <1>1, <1>2, <1>3

\* The blocks of a peer among some requests.
BlocksAmong(some, p) == {b \in Block : <<b, p>> \in some}

\* As many requests of a set are to a peer as there are blocks in them.
LEMMA CountedByBlock ==
  ASSUME NEW gone \in SUBSET (Block \X Peer), NEW p \in Peer
  PROVE  Cardinality({r \in gone : r[2] = p}) = Cardinality(BlocksAmong(gone, p))
  <1> DEFINE B == BlocksAmong(gone, p)
             R == {r \in gone : r[2] = p}
             f == [b \in B |-> <<b, p>>]
  <1>1. IsFiniteSet(B)
    BY Finiteness DEF BlocksAmong
  <1>2. f \in Bijection(B, R)
    <2>1. f \in [B -> R]
      BY DEF BlocksAmong
    <2>2. \A a, b \in B : f[a] = f[b] => a = b
      OBVIOUS
    <2>3. \A r \in R : \E b \in B : f[b] = r
      <3> SUFFICES ASSUME NEW r \in R
                   PROVE  \E b \in B : f[b] = r
        OBVIOUS
      <3>1. r = <<r[1], p>> /\ r[1] \in Block
        OBVIOUS
      <3>2. r[1] \in B
        BY <3>1 DEF BlocksAmong
      <3> QED
        BY <3>1, <3>2
    <2> QED
      BY <2>1, <2>2, <2>3 DEF Bijection, Injection, Surjection, IsInjective
  <1> QED
    BY <1>1, <1>2, FS_Bijection DEF ExistsBijection

\* Taking requests away together with their numbers keeps the numbers exact.
LEMMA TakenAway ==
  ASSUME TypesUsed, PendingExact,
         NEW gone \in SUBSET requests,
         requests' = requests \ gone,
         pending' = PendingWithout(gone)
  PROVE  pending' \in [Peer -> Nat] /\ PendingExact'
  <1> SUFFICES ASSUME NEW p \in Peer
               PROVE  /\ pending'[p] = Cardinality(RequestsTo(p)')
                      /\ pending'[p] \in Nat
    BY DEF PendingExact, PendingWithout
  <1> DEFINE B == BlocksAmong(gone, p)
  <1>1. gone \in SUBSET (Block \X Peer)
    BY DEF TypesUsed
  <1>2. pending'[p] = pending[p] - Cardinality(B)
    BY <1>1, CountedByBlock DEF PendingWithout
  <1>3. RequestsTo(p)' = RequestsTo(p) \ B
    BY DEF RequestsTo, BlocksAmong
  <1>4. B \in SUBSET RequestsTo(p)
    BY DEF RequestsTo, BlocksAmong
  <1>5. IsFiniteSet(RequestsTo(p)) /\ IsFiniteSet(B)
    BY Finiteness DEF RequestsTo, BlocksAmong
  <1>6. RequestsTo(p) \cap B = B
    BY <1>4
  <1>7. Cardinality(RequestsTo(p) \ B) = Cardinality(RequestsTo(p)) - Cardinality(B)
    BY <1>5, <1>6, FS_Difference
  <1>8. Cardinality(RequestsTo(p)') \in Nat
    BY Finiteness DEF RequestsTo
  <1> QED
    BY <1>2, <1>3, <1>7, <1>8 DEF PendingExact

\* What is taken away cannot be asked in vain.
LEMMA FewerInVain ==
  ASSUME TypesUsed, NothingAskedInVain, TypesUsed',
         requests' \subseteq requests,
         \A r \in requests' : /\ r[1] \notin complete'
                              /\ r[2] \in connected'
  PROVE  NothingAskedInVain'
  <1> SUFFICES ASSUME NEW b \in Block
               PROVE  Cardinality(Requesters(b)') <= 2
    BY DEF NothingAskedInVain
  <1>1. Requesters(b)' \in SUBSET Requesters(b) /\ Requesters(b) \in SUBSET Peer
    BY DEF Requesters
  <1>2. Cardinality(Requesters(b)') <= Cardinality(Requesters(b))
    BY <1>1, Finiteness, FS_Subset
  <1> QED
    BY <1>1, <1>2, Finiteness DEF NothingAskedInVain

\* The requests are given up one by one: no type is disturbed.
LEMMA Answered ==
  ASSUME Inv,
         UNCHANGED <<peerVars, complete>>,
         NEW gone \in SUBSET requests,
         requests' = requests \ gone,
         pending' = PendingWithout(gone)
  PROVE  Inv'
  <1>1. pending' \in [Peer -> Nat] /\ PendingExact'
    BY TakenAway DEF Inv
  <1>2. TypesUsed' /\ StrangersHaveNothing'
    BY <1>1 DEF Inv, TypesUsed, StrangersHaveNothing, peerVars
  <1>3. NothingAskedInVain'
    BY <1>2, FewerInVain DEF Inv, NothingAskedInVain, peerVars
  <1> QED
    BY <1>1, <1>2, <1>3 DEF Inv

\* What is announced, and by whom, changes nothing for the requests.
LEMMA Announced ==
  ASSUME Inv,
         UNCHANGED <<requests, pending, complete>>,
         connected \subseteq connected', connected' \subseteq Peer,
         have' \in [Peer -> SUBSET Piece],
         \A p \in Peer \ connected' : have'[p] = {}
  PROVE  Inv'
  <1>1. TypesUsed' /\ StrangersHaveNothing'
    BY DEF Inv, TypesUsed, StrangersHaveNothing
  <1>2. PendingExact'
    BY DEF Inv, PendingExact, RequestsTo
  <1>3. \A r \in requests' : /\ r[1] \notin complete'
                             /\ r[2] \in connected'
    BY DEF Inv, NothingAskedInVain, TypesUsed
  <1>4. NothingAskedInVain'
    BY <1>1, <1>3, FewerInVain DEF Inv
  <1> QED
    BY <1>1, <1>2, <1>4 DEF Inv

-----------------------------------------------------------------------------
\* A new torrent has no requests.
LEMMA InitInv == Init => Inv
  <1> SUFFICES ASSUME Init
               PROVE  Inv
    OBVIOUS
  <1>1. TypesUsed /\ StrangersHaveNothing
    BY DEF Init, TypesUsed, StrangersHaveNothing
  <1>2. NothingAskedInVain
    BY FS_EmptySet DEF Init, NothingAskedInVain, Requesters
  <1>3. PendingExact
    BY FS_EmptySet DEF Init, PendingExact, RequestsTo
  <1> QED
    BY <1>1, <1>2, <1>3 DEF Inv

\* A peer that connects has nothing that we know of.
LEMMA ConnectInv == ASSUME Inv, NEW p \in Peer, Connect(p) PROVE Inv'
  <1>1. have[p] = {}
    BY DEF Connect, Inv, TypesUsed, StrangersHaveNothing
  <1>2. have' = have
    BY <1>1 DEF Connect, Inv, TypesUsed
  <1> QED
    BY <1>2, Announced DEF Connect, Inv, TypesUsed, StrangersHaveNothing

\* What a peer announces replaces what it announced before.
LEMMA AnnounceInv ==
  ASSUME Inv, NEW p \in Peer, NEW pieces, NEW l, Announce(p, pieces, l)
  PROVE  Inv'
  <1>1. /\ have' \in [Peer -> SUBSET Piece]
        /\ \A q \in Peer \ connected' : have'[q] = {}
    BY OfferAssumption DEF Announce, Inv, TypesUsed, StrangersHaveNothing
  <1> QED
    BY <1>1, Announced DEF Announce, Inv, TypesUsed

\* A peer that has got a further piece.
LEMMA GotHaveInv == ASSUME Inv, NEW p \in Peer, GotHave(p) PROVE Inv'
  <1>1. PICK i \in UNION Offers[p] \ have[p] :
             /\ p \in connected
             /\ have' = [have EXCEPT ![p] = @ \cup {i}]
             /\ UNCHANGED <<connected, requests, pending, complete>>
    BY DEF GotHave
  <1>2. i \in Piece
    BY <1>1, OfferAssumption
  <1>3. have' \in [Peer -> SUBSET Piece]
    <2>1. have \in [Peer -> SUBSET Piece]
      BY DEF Inv, TypesUsed
    <2>2. have[p] \cup {i} \in SUBSET Piece
      BY <1>2, <2>1
    <2> QED
      BY <1>1, <2>1, <2>2
  <1>4. \A q \in Peer \ connected' : have'[q] = {}
    BY <1>1 DEF Inv, TypesUsed, StrangersHaveNothing
  <1> QED
    BY <1>1, <1>3, <1>4, Announced DEF Inv, TypesUsed

\* A peer that chokes us loses requests, unless it has the fast extension.
LEMMA GotChokeInv == ASSUME Inv, NEW p \in Peer, GotChoke(p) PROVE Inv'
  <1> DEFINE dropped == IF p \in FextPeer THEN {} ELSE RequestsTo(p)
             gone == dropped \X {p}
  <1>1. gone \in SUBSET requests
    BY DEF RequestsTo
  <1>2. /\ UNCHANGED <<connected, have, interested, complete>>
        /\ requests' = requests \ gone
        /\ pending' = PendingWithout(gone)
    BY DEF GotChoke
  <1> HIDE DEF gone
  <1>3. pending' \in [Peer -> Nat] /\ PendingExact'
    BY <1>1, <1>2, TakenAway DEF Inv
  <1>4. TypesUsed' /\ StrangersHaveNothing'
    BY <1>2, <1>3 DEF Inv, TypesUsed, StrangersHaveNothing
  <1>5. NothingAskedInVain'
    BY <1>2, <1>4, FewerInVain DEF Inv, NothingAskedInVain
  <1> QED
    BY <1>3, <1>4, <1>5 DEF Inv

\* A rejected request is given up, if there is one.
LEMMA GotRejectInv == ASSUME Inv, NEW p \in Peer, GotReject(p) PROVE Inv'
  <1>1. PICK b \in Block : /\ requests' = requests \ {<<b, p>>}
                           /\ pending' = PendingWithout({<<b, p>>} \cap requests)
                           /\ UNCHANGED <<complete, peerVars>>
    BY DEF GotReject
  <1>2. requests' = requests \ ({<<b, p>>} \cap requests)
    BY <1>1
  <1> QED
    BY <1>1, <1>2, Answered

\* The requests that have grown too old are given up.
LEMMA RefillUpkeepInv == ASSUME Inv, RefillUpkeep PROVE Inv'
  <1>1. PICK old \in SUBSET requests : /\ requests' = requests \ old
                                       /\ pending' = PendingWithout(old)
                                       /\ UNCHANGED <<complete, peerVars>>
    BY DEF RefillUpkeep
  <1> QED
    BY <1>1, Answered

\* A block that has arrived is asked of nobody any more; a piece that is bad
\* only makes more blocks missing.
LEMMA GotBlockInv == ASSUME Inv, NEW p \in Peer, NEW ok \in BOOLEAN, GotBlock(p, ok) PROVE Inv'
  <1>1. PICK b \in RequestsTo(p) :
             /\ requests' = requests \ {r \in requests : r[1] = b}
             /\ pending' = PendingWithout({r \in requests : r[1] = b})
             /\ complete' \subseteq complete \cup {b}
             /\ UNCHANGED peerVars
    BY DEF GotBlock
  <1> DEFINE gone == {r \in requests : r[1] = b}
  <1>2. gone \in SUBSET requests /\ requests' = requests \ gone
    BY <1>1
  <1>3. pending' = PendingWithout(gone)
    BY <1>1
  <1> HIDE DEF gone
  <1>4. pending' \in [Peer -> Nat] /\ PendingExact'
    BY <1>2, <1>3, TakenAway DEF Inv
  <1>5. TypesUsed' /\ StrangersHaveNothing'
    BY <1>1, <1>2, <1>4 DEF Inv, TypesUsed, StrangersHaveNothing, peerVars
  <1>6. \A r \in requests' : r[1] # b
    BY <1>2 DEF gone
  <1>7. \A r \in requests' : /\ r[1] \notin complete'
                             /\ r[2] \in connected'
    BY <1>1, <1>2, <1>6 DEF Inv, NothingAskedInVain, peerVars
  <1>8. NothingAskedInVain'
    BY <1>2, <1>5, <1>7, FewerInVain DEF Inv
  <1> QED
    BY <1>4, <1>5, <1>8 DEF Inv

\* What a peer is asked we miss, it has not been asked it already, and at most
\* one other peer has.
LEMMA AskedIsAskable ==
  ASSUME NEW p \in Peer, NEW desired, NEW b \in BlocksToAsk(p, desired)
  PROVE  /\ b \in Block
         /\ b \notin complete
         /\ p \notin Requesters(b)
         /\ Requesters(b) = {} \/ Cardinality(Requesters(b)) <= 1
  BY DEF BlocksToAsk, Askable

\* New requests are of missing blocks, to a connected peer.
LEMMA UpdateBlockRequestsInv == ASSUME Inv, NEW p \in Peer, UpdateBlockRequests(p) PROVE Inv'
  <1>1. PICK desired \in DesiredCounts :
             /\ p \in connected
             /\ requests' = requests \cup (BlocksToAsk(p, desired) \X {p})
             /\ pending' = [pending EXCEPT ![p] = @ + Cardinality(BlocksToAsk(p, desired))]
             /\ UNCHANGED <<connected, have, complete>>
    BY DEF UpdateBlockRequests, RequestsDue
  <1> DEFINE asked == BlocksToAsk(p, desired)
  <1>2. \A b \in asked : /\ b \in Block
                         /\ b \notin complete
                         /\ p \notin Requesters(b)
                         /\ Requesters(b) = {} \/ Cardinality(Requesters(b)) <= 1
    BY AskedIsAskable
  <1>3. /\ requests' = requests \cup (asked \X {p})
        /\ pending' = [pending EXCEPT ![p] = @ + Cardinality(asked)]
    BY <1>1
  <1> HIDE DEF asked
  <1>4. IsFiniteSet(asked) /\ Cardinality(asked) \in Nat
    BY <1>2, Finiteness
  <1>5. TypesUsed' /\ StrangersHaveNothing'
    BY <1>1, <1>2, <1>3, <1>4 DEF Inv, TypesUsed, StrangersHaveNothing
  <1>6. PendingExact'
    <2> SUFFICES ASSUME NEW q \in Peer
                 PROVE  pending'[q] = Cardinality(RequestsTo(q)')
      BY DEF PendingExact
    <2>1. CASE q = p
      <3>1. RequestsTo(p)' = RequestsTo(p) \cup asked /\ RequestsTo(p) \cap asked = {}
        BY <1>2, <1>3 DEF RequestsTo, Requesters
      <3>2. Cardinality(RequestsTo(p)') = Cardinality(RequestsTo(p)) + Cardinality(asked)
        <4>1. IsFiniteSet(RequestsTo(p)) /\ Cardinality(RequestsTo(p)) \in Nat
          BY Finiteness DEF RequestsTo
        <4>2. Cardinality(RequestsTo(p) \cup asked) =
                Cardinality(RequestsTo(p)) + Cardinality(asked) - Cardinality(RequestsTo(p) \cap asked)
          BY <1>4, <4>1, FS_Union
        <4>3. Cardinality(RequestsTo(p) \cap asked) = 0
          BY <3>1, FS_EmptySet
        <4>4. Cardinality(RequestsTo(p)') = Cardinality(RequestsTo(p) \cup asked)
          BY <3>1
        <4> QED
          BY <1>4, <4>1, <4>2, <4>3, <4>4
      <3>3. pending'[p] = pending[p] + Cardinality(asked)
        BY <1>3 DEF Inv, TypesUsed
      <3> QED
        BY <2>1, <3>2, <3>3 DEF Inv, PendingExact
    <2>2. CASE q # p
      <3>1. RequestsTo(q)' = RequestsTo(q)
        BY <1>3, <2>2 DEF RequestsTo
      <3>2. pending'[q] = pending[q]
        BY <1>3, <2>2 DEF Inv, TypesUsed
      <3> QED
        BY <3>1, <3>2 DEF Inv, PendingExact
    <2> QED
      BY <2>1, <2>2
  <1>7. NothingAskedInVain'
    <2>1. ASSUME NEW r \in requests'
          PROVE  r[1] \notin complete' /\ r[2] \in connected'
      <3>1. CASE r \in requests
        BY <1>1, <3>1 DEF Inv, NothingAskedInVain
      <3>2. CASE r \in asked \X {p}
        BY <1>1, <1>2, <3>2
      <3> QED
        BY <1>3, <2>1, <3>1, <3>2
    <2>2. ASSUME NEW b \in Block
          PROVE  Cardinality(Requesters(b)') <= 2
      <3>1. Cardinality(Requesters(b)) <= 2
        BY DEF Inv, NothingAskedInVain
      <3>2. CASE b \notin asked
        <4>1. Requesters(b)' = Requesters(b)
          BY <1>3, <3>2 DEF Requesters
        <4> QED
          BY <3>1, <4>1
      <3>3. CASE b \in asked
        <4>1. Requesters(b)' = Requesters(b) \cup {p}
          BY <1>3, <3>3 DEF Requesters
        <4>2. IsFiniteSet(Requesters(b)) /\ Cardinality(Requesters(b)) \in Nat
          BY Finiteness DEF Requesters
        <4>3. Cardinality(Requesters(b)) <= 1
          <5>1. Requesters(b) = {} \/ Cardinality(Requesters(b)) <= 1
            BY <1>2, <3>3
          <5>2. Cardinality({}) = 0
            BY FS_EmptySet
          <5> QED
            BY <5>1, <5>2
        <4>4. p \notin Requesters(b)
          BY <1>2, <3>3
        <4>5. Cardinality(Requesters(b) \cup {p}) = Cardinality(Requesters(b)) + 1
          BY <4>2, <4>4, FS_AddElement
        <4> QED
          BY <4>1, <4>2, <4>3, <4>5
      <3> QED
        BY <3>2, <3>3
    <2> QED
      BY <2>1, <2>2 DEF NothingAskedInVain
  <1> QED
    BY <1>5, <1>6, <1>7 DEF Inv

\* A peer that goes takes its requests along.
LEMMA ClosePeerInv == ASSUME Inv, NEW p \in Peer, ClosePeer(p) PROVE Inv'
  <1>1. /\ connected' = connected \ {p}
        /\ have' = [have EXCEPT ![p] = {}]
        /\ requests' = requests \ (RequestsTo(p) \X {p})
        /\ pending' = [pending EXCEPT ![p] = 0]
        /\ complete' = complete
    BY DEF ClosePeer
  <1>2. \A r \in requests' : r \in requests /\ r[2] # p
    BY <1>1 DEF RequestsTo, Inv, TypesUsed
  <1>3. TypesUsed' /\ StrangersHaveNothing'
    BY <1>1 DEF Inv, TypesUsed, StrangersHaveNothing
  <1>4. PendingExact'
    <2> SUFFICES ASSUME NEW q \in Peer
                 PROVE  pending'[q] = Cardinality(RequestsTo(q)')
      BY DEF PendingExact
    <2>1. CASE q = p
      <3>1. RequestsTo(p)' = {}
        BY <1>2 DEF RequestsTo
      <3>2. pending'[p] = 0
        BY <1>1 DEF Inv, TypesUsed
      <3> QED
        BY <2>1, <3>1, <3>2, FS_EmptySet
    <2>2. CASE q # p
      <3>1. RequestsTo(q)' = RequestsTo(q)
        BY <1>1, <2>2 DEF RequestsTo
      <3>2. pending'[q] = pending[q]
        BY <1>1, <2>2 DEF Inv, TypesUsed
      <3> QED
        BY <3>1, <3>2 DEF Inv, PendingExact
    <2> QED
      BY <2>1, <2>2
  <1>5. \A r \in requests' : /\ r[1] \notin complete'
                             /\ r[2] \in connected'
    BY <1>1, <1>2 DEF Inv, NothingAskedInVain, TypesUsed
  <1>6. NothingAskedInVain'
    BY <1>2, <1>3, <1>5, FewerInVain DEF Inv
  <1> QED
    BY <1>3, <1>4, <1>6 DEF Inv

\* A stopped torrent has no peers and no requests.
LEMMA StopTorrentInv == ASSUME Inv, StopTorrent PROVE Inv'
  <1>1. /\ requests' = {} /\ connected' = {}
        /\ have' = [p \in Peer |-> {}] /\ pending' = [p \in Peer |-> 0]
    BY DEF StopTorrent
  <1>2. TypesUsed' /\ StrangersHaveNothing'
    BY <1>1 DEF TypesUsed, StrangersHaveNothing
  <1>3. NothingAskedInVain'
    BY <1>1, FS_EmptySet DEF NothingAskedInVain, Requesters
  <1>4. PendingExact'
    BY <1>1, FS_EmptySet DEF PendingExact, RequestsTo
  <1> QED
    BY <1>2, <1>3, <1>4 DEF Inv

-----------------------------------------------------------------------------
\* Every step keeps the invariant.
LEMMA NextInv == Inv /\ [Next]_vars => Inv'
  <1> SUFFICES ASSUME Inv, [Next]_vars
               PROVE  Inv'
    OBVIOUS
  <1>1. ASSUME NEW p \in Peer, PeerNext(p)
        PROVE  Inv'
    <2>1. CASE Connect(p)
      BY <2>1, ConnectInv
    <2>2. CASE GotBitfield(p) \/ GotHaveAll(p) \/ GotHaveNone(p)
      BY <2>2, AnnounceInv DEF GotBitfield, GotHaveAll, GotHaveNone
    <2>3. CASE GotHave(p)
      BY <2>3, GotHaveInv
    <2>4. CASE GotUnchoke(p)
      BY <2>4, Announced DEF GotUnchoke, Inv, TypesUsed, StrangersHaveNothing
    <2>5. CASE GotChoke(p)
      BY <2>5, GotChokeInv
    <2>6. CASE UpdateBlockRequests(p)
      BY <2>6, UpdateBlockRequestsInv
    <2>7. CASE GotReject(p)
      BY <2>7, GotRejectInv
    <2>8. CASE \E ok \in BOOLEAN : GotBlock(p, ok)
      BY <2>8, GotBlockInv
    <2>9. CASE ClosePeer(p)
      BY <2>9, ClosePeerInv
    <2> QED
      BY <1>1, <2>1, <2>2, <2>3, <2>4, <2>5, <2>6, <2>7, <2>8, <2>9 DEF PeerNext
  <1>2. CASE RechokeDownloads
    BY <1>2, Announced DEF RechokeDownloads, Inv, TypesUsed, StrangersHaveNothing
  <1>3. CASE RefillUpkeep
    BY <1>3, RefillUpkeepInv
  <1>4. CASE StopTorrent
    BY <1>4, StopTorrentInv
  <1>5. CASE StartTorrent
    BY <1>5, Announced DEF StartTorrent, peerVars, Inv, TypesUsed, StrangersHaveNothing
  <1>6. CASE UNCHANGED vars
    BY <1>6, Announced DEF vars, Inv, TypesUsed, StrangersHaveNothing
  <1> QED
    BY <1>1, <1>2, <1>3, <1>4, <1>5, <1>6 DEF Next

-----------------------------------------------------------------------------
(***************************************************************************)
(* The piece list.  Its invariant: besides the types, the counts of the    *)
(* listed pieces are covered by requests, what is asked is listed, and the *)
(* replication counts do not fall short.  A step keeps it, and keeps a     *)
(* list that is said to be in order in order, except where a short piece   *)
(* fails.                                                                  *)
(***************************************************************************)
OthersTyped ==
    /\ running \in BOOLEAN
    /\ choked \subseteq connected
    /\ interested \subseteq connected
    /\ complete \subseteq Block
    /\ endgame \in Nat

AskedAreListed == \A r \in requests : PieceOf(r[1]) \in Listed(list)

ListInv ==
    /\ OthersTyped
    /\ list \in List
    /\ Covered(list, requests)
    /\ AskedAreListed
    /\ ReplicationCovers

\* The connected peers that have a piece.
Owners(i) == {p \in connected : i \in have[p]}

\* A list l that covers the owners there will be covers them still after the
\* replication has been counted where it was not.
RepCovers(l, i, owners) == l.rep # NoReplication => l.rep[i] >= Cardinality(owners)

\* Counts that cover the owners cover them still in a list with the same or new counts.
LEMMA CoversAfter ==
  ASSUME NEW l \in List, NEW peers \in SUBSET Peer, CountsFrom(list', l, peers),
         \A i \in Piece : /\ RepCovers(l, i, Owners(i)')
                          /\ Owners(i)' \subseteq {p \in peers : i \in have[p]}
  PROVE  ReplicationCovers'
  <1> SUFFICES ASSUME NEW i \in Piece, list'.rep # NoReplication
               PROVE  list'.rep[i] >= Cardinality(Owners(i)')
    BY DEF ReplicationCovers, Owners
  <1>1. CASE list'.rep = l.rep
    BY <1>1 DEF RepCovers
  <1>2. CASE list'.rep = Replicated(peers)
    <2> DEFINE there == {p \in peers : i \in have[p]}
    <2>1. list'.rep[i] = Cardinality(there)
      BY <1>2 DEF Replicated
    <2>2. IsFiniteSet(there) /\ Cardinality(there) \in Nat
      <3>1. there \in SUBSET Peer
        OBVIOUS
      <3> QED
        BY <3>1, Finiteness
    <2>3. Owners(i)' \in SUBSET there
      OBVIOUS
    <2>4. Cardinality(Owners(i)') <= Cardinality(there) /\ Cardinality(Owners(i)') \in Nat
      BY <2>2, <2>3, FS_Subset, FS_CardinalityType
    <2> QED
      BY <2>1, <2>2, <2>4
  <1> QED
    BY <1>1, <1>2 DEF CountsFrom

\* What a list covers it covers when there are fewer owners.
LEMMA FewerOwners ==
  ASSUME Inv, ListInv, NEW i \in Piece, Owners(i)' \subseteq Owners(i)
  PROVE  RepCovers(list, i, Owners(i)')
  <1>1. IsFiniteSet(Owners(i)) /\ Cardinality(Owners(i)) \in Nat
    BY Finiteness DEF Inv, TypesUsed, Owners
  <1>2. Cardinality(Owners(i)') <= Cardinality(Owners(i)) /\ Cardinality(Owners(i)') \in Nat
    BY <1>1, FS_Subset, FS_CardinalityType
  <1> SUFFICES ASSUME list.rep # NoReplication
               PROVE  list.rep[i] >= Cardinality(Owners(i)')
    BY DEF RepCovers
  <1>3. list.rep[i] >= Cardinality(Owners(i)) /\ list.rep[i] \in Nat
    BY ListFacts DEF ListInv, ReplicationCovers, Owners
  <1> QED
    BY <1>1, <1>2, <1>3

\* The steps that leave the list alone.
LEMMA ListUntouched ==
  ASSUME Inv, ListInv, OthersTyped',
         UNCHANGED <<list, requests, complete>>,
         \A i \in Piece : Owners(i)' \subseteq Owners(i)
  PROVE  ListInv' /\ (Sorted => Sorted')
  <1>1. \A i \in Piece : list.rep # NoReplication => list.rep[i] >= Cardinality(Owners(i)')
    BY FewerOwners DEF RepCovers
  <1>2. ReplicationCovers'
    BY <1>1 DEF ReplicationCovers, Owners
  <1>3. Covered(list, requests)' /\ AskedAreListed' /\ list' \in List
    BY DEF ListInv, Covered, AskedAreListed, RequestsIn, Listed
  <1> QED
    BY <1>2, <1>3 DEF ListInv, Sorted, Ascending, Before, Weight, Missing

\* Sorted is what the lemmas on lists call KeptInOrder.
LEMMA SortedIs ==
  /\ Sorted <=> KeptInOrder(list, complete)
  /\ Sorted' <=> KeptInOrder(list', complete')
  BY DEF Sorted, KeptInOrder

\* A removal of requests of the list l, which is list but perhaps for its
\* counts, leaves all as it should be.
LEMMA AfterRemoval ==
  ASSUME Inv, ListInv, OthersTyped', complete' = complete,
         NEW gone \in SUBSET (Block \X Peer), requests' = requests \ gone,
         NEW l \in List, l.pieces = list.pieces, NEW peers \in SUBSET Peer,
         \/ list' = RemoveRequests(l, gone, complete, peers)
         \/ \E q \in gone : gone = {q} /\ list' = RemoveRequest(l, q[1], complete, peers),
         \A i \in Piece : /\ RepCovers(l, i, Owners(i)')
                          /\ Owners(i)' \subseteq {p \in peers : i \in have[p]}
  PROVE  ListInv' /\ (KeptInOrder(l, complete) => Sorted')
  <1>1. requests \in SUBSET (Block \X Peer)
    BY DEF Inv, TypesUsed
  <1>2. Keeps(list', l, complete, peers) /\ (Covered(l, requests) => Covered(list', requests'))
    <2>1. CASE list' = RemoveRequests(l, gone, complete, peers)
      <3>1. /\ Keeps(RemoveRequests(l, gone, complete, peers), l, complete, peers)
            /\ Covered(l, requests)
                 => Covered(RemoveRequests(l, gone, complete, peers), requests \ gone)
        BY <1>1, RemoveRequestsFacts
      <3> QED
        BY <2>1, <3>1
    <2>2. CASE \E q \in gone : gone = {q} /\ list' = RemoveRequest(l, q[1], complete, peers)
      <3> PICK q \in Block \X Peer :
                 gone = {q} /\ list' = RemoveRequest(l, q[1], complete, peers)
        BY <2>2
      <3>1. /\ Keeps(RemoveRequest(l, q[1], complete, peers), l, complete, peers)
            /\ Covered(l, requests)
                 => Covered(RemoveRequest(l, q[1], complete, peers), requests \ {q})
        BY <1>1, RemoveRequestFacts
      <3> QED
        BY <3>1
    <2> QED
      BY <2>1, <2>2
  <1>3. Covered(l, requests)
    BY DEF ListInv, Covered
  <1>4. /\ list' \in List /\ CountsFrom(list', l, peers)
        /\ Listed(list') = Listed(list)
        /\ KeptInOrder(l, complete) => KeptInOrder(list', complete)
    BY <1>2 DEF Keeps, Listed
  <1>5. Covered(list, requests)'
    BY <1>2, <1>3 DEF Covered, RequestsIn
  <1>6. AskedAreListed'
    <2>1. Listed(list)' = Listed(list')
      BY DEF Listed
    <2> QED
      BY <1>4, <2>1 DEF ListInv, AskedAreListed
  <1>7. ReplicationCovers'
    BY <1>4, CoversAfter
  <1>8. KeptInOrder(l, complete) => Sorted'
    BY <1>4, SortedIs
  <1> QED
    BY <1>4, <1>5, <1>6, <1>7, <1>8 DEF ListInv

\* The same for list itself, when the peers stay as they are.
LEMMA AfterPlainRemoval ==
  ASSUME Inv, ListInv, OthersTyped', UNCHANGED <<connected, have, complete>>,
         NEW gone \in SUBSET (Block \X Peer), requests' = requests \ gone,
         \/ list' = RemoveRequests(list, gone, complete, connected)
         \/ \E q \in gone : gone = {q} /\ list' = RemoveRequest(list, q[1], complete, connected)
  PROVE  ListInv' /\ (Sorted => Sorted')
  <1>1. list \in List /\ connected \in SUBSET Peer
    BY DEF Inv, TypesUsed, ListInv
  <1>2. ASSUME NEW i \in Piece
        PROVE  /\ RepCovers(list, i, Owners(i)')
               /\ Owners(i)' \subseteq {p \in connected : i \in have[p]}
    <2>1. Owners(i)' = Owners(i)
      BY DEF Owners
    <2> QED
      BY <2>1, FewerOwners DEF Owners
  <1>3. ListInv' /\ (KeptInOrder(list, complete) => Sorted')
    BY <1>1, <1>2, AfterRemoval
  <1> QED
    BY <1>3, SortedIs

\* A choke keeps the list's invariant and its order.
LEMMA GotChokeList ==
  ASSUME Inv, ListInv, NEW p \in Peer, GotChoke(p)
  PROVE  ListInv' /\ (Sorted => Sorted')
  <1> DEFINE dropped == IF p \in FextPeer THEN {} ELSE RequestsTo(p)
             gone == dropped \X {p}
  <1>1. gone \in SUBSET (Block \X Peer)
    BY DEF RequestsTo
  <1>2. /\ UNCHANGED <<connected, have, complete>>
        /\ requests' = requests \ gone
        /\ list' = RemoveRequests(list, gone, complete, connected)
    BY DEF GotChoke
  <1>3. OthersTyped'
    BY DEF GotChoke, ListInv, OthersTyped
  <1> HIDE DEF gone
  <1> QED
    BY <1>1, <1>2, <1>3, AfterPlainRemoval

\* So does a reject, even of a request that is not there.
LEMMA GotRejectList ==
  ASSUME Inv, ListInv, NEW p \in Peer, GotReject(p)
  PROVE  ListInv' /\ (Sorted => Sorted')
  <1>1. PICK b \in Block : /\ requests' = requests \ {<<b, p>>}
                           /\ list' = RemoveRequest(list, b, complete, connected)
                           /\ UNCHANGED <<running, complete, endgame, peerVars>>
    BY DEF GotReject
  <1> DEFINE q == <<b, p>>
             gone == {q}
  <1>2. gone \in SUBSET (Block \X Peer) /\ q \in gone /\ q[1] = b
    OBVIOUS
  <1>3. OthersTyped'
    BY <1>1 DEF ListInv, OthersTyped, peerVars
  <1>4. UNCHANGED <<connected, have, complete>>
    BY <1>1 DEF peerVars
  <1>5. \E r \in gone : gone = {r} /\ list' = RemoveRequest(list, r[1], complete, connected)
    BY <1>1, <1>2
  <1>6. requests' = requests \ gone
    BY <1>1
  <1> HIDE DEF gone, q
  <1> QED
    BY <1>2, <1>3, <1>4, <1>5, <1>6, AfterPlainRemoval

\* So do requests that grow too old.
LEMMA RefillUpkeepList ==
  ASSUME Inv, ListInv, RefillUpkeep
  PROVE  ListInv' /\ (Sorted => Sorted')
  <1>1. PICK old \in SUBSET requests :
             /\ requests' = requests \ old
             /\ list' = RemoveRequests(list, old, complete, connected)
             /\ UNCHANGED <<running, complete, endgame, peerVars>>
    BY DEF RefillUpkeep
  <1>2. old \in SUBSET (Block \X Peer)
    BY DEF Inv, TypesUsed
  <1>3. OthersTyped' /\ UNCHANGED <<connected, have, complete>>
    BY <1>1 DEF ListInv, OthersTyped, peerVars
  <1> QED
    BY <1>1, <1>2, <1>3, AfterPlainRemoval

\* A torrent that stops has no requests left, and no peers to count.
LEMMA StopTorrentList ==
  ASSUME Inv, ListInv, StopTorrent
  PROVE  ListInv' /\ Sorted'
  <1>1. /\ connected' = {} /\ requests' = {} /\ complete' = complete /\ running' = FALSE
        /\ choked' = {} /\ interested' = {} /\ endgame' = endgame
    BY DEF StopTorrent
  <1>2. /\ list' \in List /\ KeptInOrder(list', complete)
        /\ Covered(list, requests) => Covered(list', {r \in requests : r[2] \notin connected})
    BY StoppedFacts DEF Inv, TypesUsed, ListInv
  <1>3. {r \in requests : r[2] \notin connected} = {}
    BY DEF Inv, NothingAskedInVain
  <1>4. Covered(list, requests)'
    <2>1. Covered(list', {})
      BY <1>2, <1>3 DEF ListInv
    <2> QED
      BY <1>1, <2>1 DEF Covered, RequestsIn
  <1>5. ReplicationCovers'
    <2> SUFFICES ASSUME NEW i \in Piece, list'.rep # NoReplication
                 PROVE  list'.rep[i] >= Cardinality({p \in connected' : i \in have'[p]})
      BY DEF ReplicationCovers
    <2>1. {p \in connected' : i \in have'[p]} = {}
      BY <1>1
    <2>2. list'.rep[i] \in Nat
      BY <1>2, ListFacts
    <2> QED
      BY <2>1, <2>2, FS_EmptySet
  <1>6. Sorted'
    BY <1>1, <1>2, SortedIs
  <1>7. OthersTyped' /\ AskedAreListed'
    BY <1>1 DEF OthersTyped, AskedAreListed, ListInv
  <1> QED
    BY <1>2, <1>4, <1>5, <1>6, <1>7 DEF ListInv

\* So does a start.
LEMMA StartTorrentList ==
  ASSUME Inv, ListInv, StartTorrent
  PROVE  ListInv' /\ Sorted'
  <1>1. /\ list' = [list EXCEPT !.sort = "unsorted"] /\ running' = TRUE
        /\ UNCHANGED <<requests, pending, complete, endgame, peerVars>>
    BY DEF StartTorrent
  <1>2. list \in List
    BY DEF ListInv
  <1>3. list' \in List /\ list'.pieces = list.pieces /\ list'.rep = list.rep /\ list'.sort # "weight"
    BY <1>1, <1>2 DEF List, ListType
  <1>4. Covered(list, requests)' /\ AskedAreListed'
    BY <1>1, <1>3 DEF ListInv, Covered, AskedAreListed, RequestsIn, Listed
  <1>5. ReplicationCovers'
    BY <1>1, <1>3 DEF ListInv, ReplicationCovers, peerVars
  <1>6. OthersTyped'
    BY <1>1 DEF ListInv, OthersTyped, peerVars
  <1>7. Sorted'
    BY <1>3 DEF Sorted
  <1> QED
    BY <1>3, <1>4, <1>5, <1>6, <1>7 DEF ListInv

\* One more replica of some pieces covers a peer that has no others than these
\* and those it had.
LEMMA MoreCovered ==
  ASSUME Inv, ListInv, list.rep # NoReplication, NEW p \in Peer, NEW pieces \in SUBSET Piece,
         connected' = connected,
         \A q \in Peer : have'[q] \subseteq have[q] \cup (IF q = p THEN pieces ELSE {})
  PROVE  /\ MoreReplicas(pieces) \in [Piece -> Nat]
         /\ \A i \in Piece : MoreReplicas(pieces)[i] >= Cardinality(Owners(i)')
  <1>1. list.rep \in [Piece -> Nat]
    BY ListFacts DEF ListInv
  <1>2. MoreReplicas(pieces) \in [Piece -> Nat]
    BY <1>1 DEF MoreReplicas
  <1>3. ASSUME NEW i \in Piece
        PROVE  MoreReplicas(pieces)[i] >= Cardinality(Owners(i)')
    <2>1. have \in [Peer -> SUBSET Piece] /\ Owners(i) \in SUBSET Peer
      BY DEF Inv, TypesUsed, Owners
    <2>2. IsFiniteSet(Owners(i)) /\ Cardinality(Owners(i)) \in Nat
      BY <2>1, Finiteness
    <2>3. list.rep[i] >= Cardinality(Owners(i)) /\ list.rep[i] \in Nat
      BY <1>1 DEF ListInv, ReplicationCovers, Owners
    <2>4. CASE i \in pieces
      <3>1. Owners(i)' \in SUBSET (Owners(i) \cup {p})
        BY <2>1 DEF Inv, TypesUsed, Owners
      <3>2. IsFiniteSet(Owners(i) \cup {p})
            /\ Cardinality(Owners(i) \cup {p}) <= Cardinality(Owners(i)) + 1
        <4>1. /\ IsFiniteSet(Owners(i) \cup {p})
              /\ Cardinality(Owners(i) \cup {p}) = IF p \in Owners(i) THEN Cardinality(Owners(i))
                                                    ELSE Cardinality(Owners(i)) + 1
          BY <2>2, FS_AddElement
        <4> PICK c \in Nat : c = Cardinality(Owners(i))
          BY <2>2
        <4> QED
          BY <4>1
      <3>3. Cardinality(Owners(i)') <= Cardinality(Owners(i) \cup {p})
            /\ Cardinality(Owners(i)') \in Nat /\ Cardinality(Owners(i) \cup {p}) \in Nat
        BY <3>1, <3>2, FS_Subset, FS_CardinalityType
      <3>4. MoreReplicas(pieces)[i] = list.rep[i] + 1
        BY <2>4 DEF MoreReplicas
      <3> QED
        BY <2>2, <2>3, <3>2, <3>3, <3>4
    <2>5. CASE i \notin pieces
      <3>1. Owners(i)' \in SUBSET Owners(i)
        BY <2>1, <2>5 DEF Inv, TypesUsed, Owners
      <3>2. Cardinality(Owners(i)') <= Cardinality(Owners(i)) /\ Cardinality(Owners(i)') \in Nat
        BY <2>2, <3>1, FS_Subset, FS_CardinalityType
      <3>3. MoreReplicas(pieces)[i] = list.rep[i]
        BY <2>3, <2>5 DEF MoreReplicas
      <3> QED
        BY <2>2, <2>3, <3>2, <3>3
    <2> QED
      BY <2>4, <2>5
  <1> QED
    BY <1>2, <1>3

\* The list with other counts.
Recounted(m, l, rep) ==
  m = [l EXCEPT !.rep = rep, !.sort = "unsorted"] \/ m = [l EXCEPT !.rep = rep]

\* New replication counts leave the pieces and their request counts alone.
LEMMA OtherCounts ==
  ASSUME NEW l \in List, NEW rep \in [Piece -> Nat], NEW m, Recounted(m, l, rep)
  PROVE  /\ m \in List /\ m.pieces = l.pieces /\ m.rep = rep
         /\ m.sort = "unsorted" \/ m.sort = l.sort
         /\ \A reqs : Covered(m, reqs) <=> Covered(l, reqs)
         /\ Listed(m) = Listed(l)
  <1>1. m \in List /\ m.pieces = l.pieces /\ m.rep = rep /\ (m.sort = "unsorted" \/ m.sort = l.sort)
    BY DEF List, ListType, Recounted
  <1> QED
    BY <1>1 DEF Covered, Listed

\* All counts one up or one down: the order stays.
LEMMA SameOrder ==
  ASSUME NEW done, NEW rep \in [Piece -> Nat], NEW other \in [Piece -> Nat], NEW s \in Seq(Entry),
         \A i, j \in Piece : rep[i] < rep[j] <=> other[i] < other[j],
         \A i, j \in Piece : rep[i] = rep[j] <=> other[i] = other[j],
         Ascending(done, rep, s)
  PROVE  Ascending(done, other, s)
  <1>1. \A j \in DOMAIN s : s[j].index \in Piece
    <2>1. \A j \in DOMAIN s : s[j] \in Entry
      OBVIOUS
    <2> QED
      BY <2>1 DEF Entry
  <1>2. \A j, k \in DOMAIN s : Before(done, other, s[k], s[j]) => Before(done, rep, s[k], s[j])
    BY <1>1 DEF Before
  <1> QED
    BY <1>2 DEF Ascending

\* An announcement keeps the invariant and the order, if its pieces are counted.
LEMMA AnnounceList ==
  ASSUME Inv, ListInv, NEW p \in Peer, NEW pieces \in SUBSET Piece, NEW l, Announce(p, pieces, l),
         \/ list.rep = NoReplication /\ l = list
         \/ list.rep # NoReplication /\ l = CountPieces(pieces)
         \/ list.rep # NoReplication /\ pieces = Piece /\ l = [list EXCEPT !.rep = MoreReplicas(Piece)]
         \/ pieces = {} /\ l = list
  PROVE  ListInv' /\ (Sorted => Sorted')
  <1>1. /\ p \in connected /\ have' = [have EXCEPT ![p] = pieces] /\ list' = l
        /\ UNCHANGED <<running, connected, choked, interested, requests, pending, complete, endgame>>
    BY DEF Announce
  <1>2. /\ have \in [Peer -> SUBSET Piece]
        /\ \A q \in Peer : have'[q] \subseteq have[q] \cup (IF q = p THEN pieces ELSE {})
    BY <1>1 DEF Inv, TypesUsed
  <1>3. OthersTyped'
    BY <1>1 DEF ListInv, OthersTyped
  <1>4. CASE pieces = {} /\ l = list
    <2>1. \A i \in Piece : Owners(i)' \subseteq Owners(i)
      BY <1>1, <1>2, <1>4 DEF Inv, TypesUsed, Owners
    <2> QED
      BY <1>1, <1>3, <1>4, <2>1, ListUntouched
  <1>5. CASE list.rep = NoReplication /\ l = list
    <2>1. ReplicationCovers'
      BY <1>1, <1>5 DEF ReplicationCovers
    <2>2. Covered(list, requests)' /\ AskedAreListed'
      BY <1>1, <1>5 DEF ListInv, Covered, AskedAreListed, RequestsIn, Listed
    <2>3. Sorted => Sorted'
      BY <1>1, <1>5, SortedIs
    <2> QED
      BY <1>1, <1>3, <1>5, <2>1, <2>2, <2>3 DEF ListInv
  <1>6. CASE /\ list.rep # NoReplication
             /\ l = [list EXCEPT !.rep = MoreReplicas(pieces), !.sort = "unsorted"]
                \/ (pieces = Piece /\ l = [list EXCEPT !.rep = MoreReplicas(pieces)])
    <2> PICK rep : rep = MoreReplicas(pieces)
      OBVIOUS
    <2>1. rep \in [Piece -> Nat] /\ \A i \in Piece : rep[i] >= Cardinality(Owners(i)')
      BY <1>1, <1>2, <1>6, MoreCovered
    <2>2. list \in List
      BY DEF ListInv
    <2>3. /\ l \in List /\ l.pieces = list.pieces /\ l.rep = rep
          /\ l.sort = "unsorted" \/ l.sort = list.sort
          /\ Covered(l, requests) <=> Covered(list, requests)
          /\ Listed(l) = Listed(list)
      <3>1. Recounted(l, list, rep)
        BY <1>6 DEF Recounted
      <3>2. /\ l \in List /\ l.pieces = list.pieces /\ l.rep = rep
            /\ l.sort = "unsorted" \/ l.sort = list.sort
            /\ \A reqs : Covered(l, reqs) <=> Covered(list, reqs)
            /\ Listed(l) = Listed(list)
        BY <2>1, <2>2, <3>1, OtherCounts
      <3> QED
        BY <3>2
    <2>4. ReplicationCovers'
      BY <1>1, <2>1, <2>3 DEF ReplicationCovers, Owners
    <2>5. Covered(list, requests)' /\ AskedAreListed'
      <3>1. Covered(l, requests)
        BY <2>3 DEF ListInv
      <3>2. Covered(list, requests)'
        BY <1>1, <3>1 DEF Covered, RequestsIn
      <3>3. Listed(list)' = Listed(l)
        BY <1>1 DEF Listed
      <3> QED
        BY <1>1, <2>3, <3>2, <3>3 DEF ListInv, AskedAreListed
    <2>6. Sorted => Sorted'
      <3>1. CASE l.sort = "unsorted"
        BY <1>1, <3>1, SortedIs DEF KeptInOrder
      <3>2. CASE l.sort # "unsorted"
        <4> SUFFICES ASSUME Sorted, list.sort = "weight"
                     PROVE  Ascending(complete, rep, list.pieces)
          BY <1>1, <2>3, SortedIs DEF KeptInOrder
        <4>1. pieces = Piece
          BY <1>6, <2>2, <3>2 DEF List, ListType
        <4>2. list.rep \in [Piece -> Nat] /\ list.pieces \in Seq(Entry)
          BY <2>2, ListFacts
        <4>3. \A i \in Piece : rep[i] = list.rep[i] + 1 /\ list.rep[i] \in Nat
          BY <4>1, <4>2 DEF MoreReplicas
        <4>4. Ascending(complete, list.rep, list.pieces)
          BY DEF Sorted
        <4>5. \A i, j \in Piece : list.rep[i] < list.rep[j] <=> rep[i] < rep[j]
          BY <4>3
        <4>6. \A i, j \in Piece : list.rep[i] = list.rep[j] <=> rep[i] = rep[j]
          BY <4>3
        <4> QED
          BY <2>1, <4>2, <4>4, <4>5, <4>6, SameOrder
      <3> QED
        BY <3>1, <3>2
    <2> QED
      BY <1>1, <1>3, <2>3, <2>4, <2>5, <2>6 DEF ListInv
  <1> QED
    BY <1>4, <1>5, <1>6 DEF CountPieces

\* So does each of the messages in which a peer announces all that it has.
LEMMA AnnouncementList ==
  ASSUME Inv, ListInv, NEW p \in Peer, GotBitfield(p) \/ GotHaveAll(p) \/ GotHaveNone(p)
  PROVE  ListInv' /\ (Sorted => Sorted')
  <1>1. CASE GotBitfield(p)
    <2> PICK pieces \in Offers[p] : Announce(p, pieces, CountPieces(pieces))
      BY <1>1 DEF GotBitfield
    <2>1. pieces \in SUBSET Piece
      BY OfferAssumption
    <2>2. list.rep = NoReplication => CountPieces(pieces) = list
      BY DEF CountPieces
    <2> PICK l : l = CountPieces(pieces)
      OBVIOUS
    <2> QED
      BY <2>1, <2>2, AnnounceList
  <1>2. CASE GotHaveAll(p)
    <2> DEFINE l == IF list.rep = NoReplication THEN list
                    ELSE [list EXCEPT !.rep = MoreReplicas(Piece)]
    <2>1. Announce(p, Piece, l)
      BY <1>2 DEF GotHaveAll
    <2> HIDE DEF l
    <2>2. Piece \in SUBSET Piece
      OBVIOUS
    <2> QED
      BY <2>1, <2>2, AnnounceList DEF l
  <1>3. CASE GotHaveNone(p)
    <2>1. Announce(p, {}, list) /\ {} \in SUBSET Piece
      BY <1>3 DEF GotHaveNone
    <2> QED
      BY <2>1, AnnounceList
  <1> QED
    BY <1>1, <1>2, <1>3

\* So does a new peer, which has nothing yet.
LEMMA ConnectList ==
  ASSUME Inv, ListInv, NEW p \in Peer, Connect(p)
  PROVE  ListInv' /\ (Sorted => Sorted')
  <1>1. /\ p \notin connected /\ connected' = connected \cup {p} /\ choked' = choked \cup {p}
        /\ have' = [have EXCEPT ![p] = {}]
        /\ UNCHANGED <<running, interested, requests, complete, list, endgame>>
    BY DEF Connect
  <1>2. have' = have /\ have[p] = {}
    BY <1>1 DEF Inv, TypesUsed, StrangersHaveNothing
  <1>3. OthersTyped'
    BY <1>1 DEF ListInv, OthersTyped
  <1>4. \A i \in Piece : Owners(i)' \subseteq Owners(i)
    BY <1>1, <1>2 DEF Owners
  <1> QED
    BY <1>1, <1>3, <1>4, ListUntouched

\* A further piece of a peer: only that piece may be out of order.
LEMMA GotHaveList ==
  ASSUME Inv, ListInv, NEW p \in Peer, GotHave(p)
  PROVE  ListInv' /\ (Sorted => Sorted')
  <1>1. PICK i \in UNION Offers[p] \ have[p] :
             /\ p \in connected
             /\ have' = [have EXCEPT ![p] = @ \cup {i}]
             /\ list' = IF list.rep = NoReplication THEN list
                        ELSE LET l == [list EXCEPT !.rep = MoreReplicas({i})] IN
                             IF l.sort = "weight" THEN ResortPiece(l, i, complete, connected)
                                                  ELSE l
             /\ UNCHANGED <<running, connected, choked, interested, requests, pending,
                            complete, endgame>>
    BY DEF GotHave
  <1>2. i \in Piece
    BY <1>1, OfferAssumption
  <1>3. OthersTyped'
    BY <1>1 DEF ListInv, OthersTyped
  <1>4. CASE list.rep = NoReplication
    <2>1. ReplicationCovers'
      BY <1>1, <1>4 DEF ReplicationCovers
    <2>2. Covered(list, requests)' /\ AskedAreListed'
      BY <1>1, <1>4 DEF ListInv, Covered, AskedAreListed, RequestsIn, Listed
    <2>3. Sorted => Sorted'
      BY <1>1, <1>4, SortedIs
    <2> QED
      BY <1>1, <1>3, <1>4, <2>1, <2>2, <2>3 DEF ListInv
  <1>5. CASE list.rep # NoReplication
    <2> PICK rep : rep = MoreReplicas({i})
      OBVIOUS
    <2> PICK l : l = [list EXCEPT !.rep = rep]
      OBVIOUS
    <2>1. rep \in [Piece -> Nat] /\ \A j \in Piece : rep[j] >= Cardinality(Owners(j)')
      <3>1. {i} \in SUBSET Piece
        BY <1>2
      <3> PICK pieces \in SUBSET Piece : pieces = {i}
        BY <3>1
      <3>2. \A q \in Peer : have'[q] \subseteq have[q] \cup (IF q = p THEN pieces ELSE {})
        BY <1>1 DEF Inv, TypesUsed
      <3> QED
        BY <1>1, <1>5, <3>2, MoreCovered
    <2>2. list \in List /\ connected \in SUBSET Peer
      BY DEF Inv, TypesUsed, ListInv
    <2>3. /\ l \in List /\ l.pieces = list.pieces /\ l.rep = rep
          /\ l.sort = list.sort
          /\ \A reqs : Covered(l, reqs) <=> Covered(list, reqs)
          /\ Listed(l) = Listed(list)
      <3>1. Recounted(l, list, rep)
        BY DEF Recounted
      <3>2. l.sort = list.sort
        BY <2>2 DEF List, ListType
      <3> QED
        BY <2>1, <2>2, <3>1, <3>2, OtherCounts
    <2>4. /\ list' \in List /\ Range(list'.pieces) = Range(l.pieces) /\ list'.rep = rep
          /\ (Sorted => KeptInOrder(list', complete))
      <3>1. CASE l.sort = "weight"
        <4>1. list' = ResortPiece(l, i, complete, connected)
          BY <1>1, <1>5, <3>1
        <4>2. /\ SamePieces(list', l, connected)
              /\ OnlyOut(l, i, complete) => KeptInOrder(list', complete)
          BY <2>2, <2>3, <4>1, ResortPieceFacts
        <4>3. rep # NoReplication
          <5>1. DOMAIN rep = Piece /\ DOMAIN NoReplication = {}
            BY <2>1 DEF NoReplication
          <5> QED
            BY <1>2, <5>1
        <4>4. Sorted => OnlyOut(l, i, complete)
          <5> SUFFICES ASSUME Sorted, l.sort = "weight",
                              NEW j \in DOMAIN list.pieces, NEW n \in DOMAIN list.pieces,
                              j < n, list.pieces[j].index # i, list.pieces[n].index # i
                       PROVE  ~Before(complete, rep, list.pieces[n], list.pieces[j])
            BY <2>3 DEF OnlyOut
          <5>1. ~Before(complete, list.rep, list.pieces[n], list.pieces[j])
            BY <2>3 DEF Sorted, Ascending
          <5>2. list.pieces[j].index \in Piece /\ list.pieces[n].index \in Piece
            <6>1. list.pieces \in Seq(Entry)
              BY <2>2, ListFacts
            <6>2. list.pieces[j] \in Entry /\ list.pieces[n] \in Entry
              BY <6>1
            <6> QED
              BY <6>2 DEF Entry
          <5>3. list.rep \in [Piece -> Nat]
            BY <1>5, <2>2, ListFacts
          <5>4. \A q \in Piece : q # i => rep[q] = list.rep[q]
            BY <5>3 DEF MoreReplicas
          <5> QED
            BY <5>1, <5>2, <5>4 DEF Before
        <4> QED
          BY <2>3, <4>2, <4>3, <4>4 DEF SamePieces, CountsFrom
      <3>2. CASE l.sort # "weight"
        <4>1. list' = l
          BY <1>1, <1>5, <3>2
        <4> QED
          BY <2>3, <3>2, <4>1 DEF KeptInOrder
      <3> QED
        BY <3>1, <3>2
    <2>5. ReplicationCovers'
      BY <1>1, <2>1, <2>4 DEF ReplicationCovers, Owners
    <2>6. Covered(list, requests)' /\ AskedAreListed'
      <3>1. Covered(list', requests) /\ Listed(list') = Listed(list)
        BY <2>3, <2>4, CoveredFacts DEF ListInv
      <3>2. Covered(list, requests)'
        BY <1>1, <3>1 DEF Covered, RequestsIn
      <3>3. Listed(list)' = Listed(list')
        BY DEF Listed
      <3> QED
        BY <1>1, <3>1, <3>2, <3>3 DEF ListInv, AskedAreListed
    <2>7. Sorted => Sorted'
      BY <1>1, <2>4, SortedIs
    <2> QED
      BY <1>3, <2>4, <2>5, <2>6, <2>7 DEF ListInv
  <1> QED
    BY <1>4, <1>5

\* What is asked is counted, and its pieces are listed.
LEMMA UpdateBlockRequestsList ==
  ASSUME Inv, ListInv, NEW p \in Peer, UpdateBlockRequests(p)
  PROVE  ListInv' /\ (Sorted => Sorted')
  <1>1. PICK desired \in DesiredCounts :
             /\ endgame' = UpdatedEndgame
             /\ requests' = requests \cup (BlocksToAsk(p, desired) \X {p})
             /\ list' = ListAfter(BlocksToAsk(p, desired), desired - pending[p])
             /\ UNCHANGED <<running, connected, have, choked, interested, complete>>
    BY DEF UpdateBlockRequests
  <1> PICK numwant : numwant = desired - pending[p]
    OBVIOUS
  <1>2. list \in List /\ connected \in SUBSET Peer /\ requests \in SUBSET (Block \X Peer)
    BY DEF Inv, TypesUsed, ListInv
  <1>3. \A b \in BlocksToAsk(p, desired) :
           b \in Block /\ PieceOf(b) \in Listed(ListToAsk) /\ <<b, p>> \notin requests
    BY <1>2, AskedFacts
  <1> PICK asked \in SUBSET Block : asked = BlocksToAsk(p, desired)
    BY <1>3
  <1>4. \A b \in asked : PieceOf(b) \in Listed(ListToAsk) /\ <<b, p>> \notin requests
    BY <1>3
  <1>5. list' = ListAfter(asked, numwant) /\ requests' = requests \cup (asked \X {p})
    BY <1>1
  <1>6. /\ list' \in List /\ CountsFrom(list', list, connected)
        /\ KeptInOrder(list, complete) => KeptInOrder(list', complete)
        /\ Listed(list) \subseteq Listed(list') /\ Listed(ListToAsk) \subseteq Listed(list')
        /\ Covered(list, requests) => Covered(list', requests')
    BY <1>2, <1>4, <1>5, ListAfterFacts
  <1>7. UpdatedEndgame \in Nat
    <2> DEFINE downloading == {q \in connected : pending[q] > 0}
               d == IF downloading = {} THEN 1 ELSE Cardinality(downloading)
    <2>1. Cardinality(requests) \in Nat
      BY <1>2, RequestsFinite, FS_CardinalityType
    <2>2. d \in Nat \ {0}
      <3>1. downloading \in SUBSET Peer
        BY <1>2
      <3>2. IsFiniteSet(downloading) /\ Cardinality(downloading) \in Nat
        BY <3>1, Finiteness
      <3> HIDE DEF downloading
      <3>3. downloading # {} => Cardinality(downloading) # 0
        BY <3>2, FS_EmptySet
      <3> QED
        BY <3>2, <3>3
    <2>3. Cardinality(requests) \div d \in Nat
      <3> HIDE DEF d
      <3> PICK n \in Nat : n = Cardinality(requests)
        BY <2>1
      <3> QED
        BY <2>2
    <2> QED
      BY <2>3 DEF UpdatedEndgame, ListInv, OthersTyped
  <1>8. OthersTyped'
    BY <1>1, <1>7 DEF ListInv, OthersTyped
  <1>9. Covered(list, requests)'
    BY <1>6 DEF ListInv, Covered, RequestsIn
  <1>10. AskedAreListed'
    <2> SUFFICES ASSUME NEW r \in requests'
                 PROVE  PieceOf(r[1]) \in Listed(list')
      BY DEF AskedAreListed, Listed
    <2>1. CASE r \in requests
      BY <1>6, <2>1 DEF ListInv, AskedAreListed
    <2>2. CASE r \in asked \X {p}
      BY <1>4, <1>6, <2>2
    <2> QED
      BY <1>5, <2>1, <2>2
  <1>11. ReplicationCovers'
    <2>1. ASSUME NEW i \in Piece
          PROVE  /\ RepCovers(list, i, Owners(i)')
                 /\ Owners(i)' \subseteq {q \in connected : i \in have[q]}
      <3>1. Owners(i)' = Owners(i)
        BY <1>1 DEF Owners
      <3> QED
        BY <3>1, FewerOwners DEF Owners
    <2> QED
      BY <1>2, <1>6, <2>1, CoversAfter
  <1>12. Sorted => Sorted'
    BY <1>1, <1>6, SortedIs
  <1> QED
    BY <1>6, <1>8, <1>9, <1>10, <1>11, <1>12 DEF ListInv

\* A peer that goes is counted down, which passes zero nowhere.
LEMMA ClosePeerList ==
  ASSUME Inv, ListInv, NEW p \in Peer, ClosePeer(p)
  PROVE  ListInv' /\ (Sorted => Sorted')
  <1> DEFINE left == connected \ {p}
             gone == RequestsTo(p) \X {p}
             fewer == [i \in Piece |-> list.rep[i] - IF i \in have[p] THEN 1 ELSE 0]
             l0 == IF list.rep = NoReplication THEN list
                   ELSE [list EXCEPT !.rep = fewer,
                                     !.sort = IF have[p] \in {{}, Piece} THEN @ ELSE "unsorted"]
  <1>1. /\ p \in connected /\ connected' = left
        /\ choked' = choked \ {p} /\ interested' = interested \ {p}
        /\ have' = [have EXCEPT ![p] = {}]
        /\ requests' = requests \ gone
        /\ list' = RemoveRequests(l0, gone, complete, left)
        /\ UNCHANGED <<running, complete, endgame>>
    BY DEF ClosePeer
  <1>2. /\ list \in List /\ left \in SUBSET Peer /\ gone \in SUBSET (Block \X Peer)
        /\ have \in [Peer -> SUBSET Piece]
    BY DEF Inv, TypesUsed, ListInv, RequestsTo
  <1>3. OthersTyped'
    BY <1>1 DEF ListInv, OthersTyped
  <1>4. ASSUME NEW i \in Piece
        PROVE  /\ Owners(i)' = Owners(i) \ {p}
               /\ Owners(i)' = {q \in left : i \in have[q]}
               /\ i \in have[p] => p \in Owners(i)
    BY <1>1, <1>2 DEF Owners
  <1>5. ASSUME NEW i \in Piece, list.rep # NoReplication
        PROVE  /\ fewer[i] \in Nat /\ fewer[i] >= Cardinality(Owners(i)')
               /\ list.rep[i] \in Nat
               /\ fewer[i] = list.rep[i] - IF i \in have[p] THEN 1 ELSE 0
    <2>1. IsFiniteSet(Owners(i)) /\ Cardinality(Owners(i)) \in Nat
      BY Finiteness DEF Inv, TypesUsed, Owners
    <2>2. list.rep[i] >= Cardinality(Owners(i)) /\ list.rep[i] \in Nat
      BY <1>2, <1>5, ListFacts DEF ListInv, ReplicationCovers, Owners
    <2>3. Cardinality(Owners(i)') \in Nat
      BY <1>4, <2>1, FS_RemoveElement, FS_CardinalityType
    <2>4. CASE i \in have[p]
      <3>1. Cardinality(Owners(i)') = Cardinality(Owners(i)) - 1
        BY <1>4, <2>1, <2>4, FS_RemoveElement
      <3>2. fewer[i] = list.rep[i] - 1
        BY <2>4
      <3> HIDE DEF fewer
      <3> QED
        BY <2>1, <2>2, <2>3, <2>4, <3>1, <3>2
    <2>5. CASE i \notin have[p]
      <3>1. Owners(i)' = Owners(i)
        BY <1>4, <2>5 DEF Owners
      <3>2. fewer[i] = list.rep[i]
        BY <2>2, <2>5
      <3> HIDE DEF fewer
      <3> QED
        BY <2>1, <2>2, <2>5, <3>1, <3>2
    <2> QED
      BY <2>4, <2>5
  <1>6. list.rep # NoReplication => fewer \in [Piece -> Nat]
    BY <1>5
  <1>7. /\ l0 \in List /\ l0.pieces = list.pieces
        /\ \A i \in Piece : RepCovers(l0, i, Owners(i)')
        /\ KeptInOrder(list, complete) => KeptInOrder(l0, complete)
    <2>1. CASE list.rep = NoReplication
      BY <1>2, <2>1 DEF RepCovers
    <2>2. CASE list.rep # NoReplication
      <3>1. /\ l0 = [list EXCEPT !.rep = fewer, !.sort = IF have[p] \in {{}, Piece} THEN @ ELSE "unsorted"]
            /\ fewer \in [Piece -> Nat]
        BY <1>6, <2>2
      <3>2. \A i \in Piece : /\ fewer[i] \in Nat /\ list.rep[i] \in Nat
                             /\ fewer[i] >= Cardinality(Owners(i)')
                             /\ fewer[i] = list.rep[i] - IF i \in have[p] THEN 1 ELSE 0
        BY <1>5, <2>2
      <3> HIDE DEF fewer, l0
      <3>3. /\ l0 \in List /\ l0.pieces = list.pieces /\ l0.rep = fewer
            /\ l0.sort = "weight" => list.sort = "weight" /\ have[p] \in {{}, Piece}
        BY <1>2, <3>1 DEF List, ListType
      <3>4. KeptInOrder(list, complete) => KeptInOrder(l0, complete)
        <4> SUFFICES ASSUME Ascending(complete, list.rep, list.pieces), list.sort = "weight",
                            have[p] \in {{}, Piece}
                     PROVE  Ascending(complete, fewer, list.pieces)
          BY <3>3 DEF KeptInOrder
        <4>1. list.rep \in [Piece -> Nat] /\ list.pieces \in Seq(Entry)
          BY <1>2, ListFacts
        <4>2. \/ \A i \in Piece : fewer[i] = list.rep[i]
              \/ \A i \in Piece : fewer[i] = list.rep[i] - 1
          BY <3>2
        <4>3. \A i, j \in Piece : list.rep[i] < list.rep[j] <=> fewer[i] < fewer[j]
          BY <3>2, <4>2
        <4>4. \A i, j \in Piece : list.rep[i] = list.rep[j] <=> fewer[i] = fewer[j]
          BY <3>2, <4>2
        <4> QED
          BY <3>1, <4>1, <4>3, <4>4, SameOrder
      <3> QED
        BY <3>2, <3>3, <3>4 DEF RepCovers
    <2> QED
      BY <2>1, <2>2
  <1> PICK l \in List : l = l0
    BY <1>7
  <1>8. \A i \in Piece : /\ RepCovers(l, i, Owners(i)')
                         /\ Owners(i)' \subseteq {q \in left : i \in have[q]}
    BY <1>4, <1>7
  <1>9. /\ list' = RemoveRequests(l, gone, complete, left) /\ l.pieces = list.pieces
        /\ KeptInOrder(list, complete) => KeptInOrder(l, complete)
        /\ requests' = requests \ gone /\ complete' = complete
    BY <1>1, <1>7
  <1> HIDE DEF l0, gone, left
  <1>10. ListInv' /\ (KeptInOrder(l, complete) => Sorted')
    BY <1>2, <1>3, <1>8, <1>9, AfterRemoval
  <1> QED
    BY <1>9, <1>10, SortedIs

\* A piece has no more blocks than BlocksPerPiece.
LEMMA BlocksOfAPiece ==
  ASSUME NEW i \in Piece
  PROVE  Cardinality(BlocksOf(i)) \in Nat /\ Cardinality(BlocksOf(i)) <= BlocksPerPiece
  <1> DEFINE first == i * BlocksPerPiece
             I == first .. first + BlocksPerPiece - 1
  <1>1. i \in Nat
    BY BlockAssumption DEF Piece, PieceOf, Block
  <1>2. first \in Nat
    BY <1>1, BlockAssumption
  <1>3. ASSUME NEW b \in BlocksOf(i)
        PROVE  b \in I
    <2>1. b \in Nat /\ i = b \div BlocksPerPiece
      BY DEF BlocksOf, PieceOf, Block
    <2>2. first <= b /\ b < first + BlocksPerPiece
      BY <1>1, <2>1, BlockAssumption
    <2> HIDE DEF first
    <2> QED
      BY <1>2, <2>1, <2>2, BlockAssumption
  <1> HIDE DEF first
  <1>4. IsFiniteSet(I) /\ Cardinality(I) = BlocksPerPiece
    BY <1>2, BlockAssumption, FS_Interval
  <1> QED
    BY <1>3, <1>4, FS_Subset, FS_CardinalityType

\* A list in order stays so when no weight of a listed piece changes.
LEMMA SameWeights ==
  ASSUME NEW done, NEW other, NEW l,
         \A k \in DOMAIN l.pieces : Weight(done, l.pieces[k]) = Weight(other, l.pieces[k]),
         KeptInOrder(l, done)
  PROVE  KeptInOrder(l, other)
  BY DEF KeptInOrder, Ascending, Before

\* A block arrives: its piece is re-sorted, and if that is complete it goes
\* from the list, or its blocks are forgotten.
LEMMA GotBlockList ==
  ASSUME Inv, ListInv, NEW p \in Peer, NEW ok \in BOOLEAN, GotBlock(p, ok)
  PROVE  ListInv' /\ (Sorted /\ ~ShortPieceFails => Sorted')
  <1>1. PICK b \in RequestsTo(p) :
          LET i == PieceOf(b)
              done == complete \cup {b}
              cancelled == {r \in requests : r[1] = b}
              l == RemoveRequests(list, cancelled, complete, connected)
          IN /\ ~IsComplete(complete, i)
             /\ ok \/ IsComplete(done, i)
             /\ requests' = requests \ cancelled
             /\ pending' = PendingWithout(cancelled)
             /\ IF b \in complete
                THEN list' = l /\ UNCHANGED complete
                ELSE LET m == ResortPiece(l, i, done, connected) IN
                     /\ complete' = IF ok THEN done ELSE done \ BlocksOf(i)
                     /\ list' = IF ok /\ IsComplete(done, i) THEN RemovePiece(m, i) ELSE m
             /\ UNCHANGED <<running, endgame, peerVars>>
    BY DEF GotBlock
  <1> DEFINE i == PieceOf(b)
             done == complete \cup {b}
             cancelled == {r \in requests : r[1] = b}
             l == RemoveRequests(list, cancelled, complete, connected)
             m == ResortPiece(l, i, done, connected)
  <1>2. /\ b \in Block /\ <<b, p>> \in requests /\ b \notin complete /\ i \in Piece
        /\ b \in BlocksOf(i)
    BY BlockFacts DEF RequestsTo, Inv, NothingAskedInVain, BlocksOf
  <1>3. /\ ok \/ IsComplete(done, i)
        /\ requests' = requests \ cancelled
        /\ complete' = IF ok THEN done ELSE done \ BlocksOf(i)
        /\ list' = IF ok /\ IsComplete(done, i) THEN RemovePiece(m, i) ELSE m
        /\ UNCHANGED <<running, endgame, peerVars>>
    BY <1>1, <1>2
  <1>4. /\ list \in List /\ connected \in SUBSET Peer /\ requests \in SUBSET (Block \X Peer)
        /\ cancelled \in SUBSET (Block \X Peer) /\ complete \in SUBSET Block
    BY DEF Inv, TypesUsed, ListInv, OthersTyped
  <1>5. /\ \A r \in requests' : r \in requests /\ r[1] # b /\ r[1] \notin done /\ r[1] \in Block
        /\ requests' \in SUBSET (Block \X Peer)
    BY <1>3, <1>4 DEF Inv, NothingAskedInVain
  <1>6. IsComplete(done, i) => \A r \in requests' : PieceOf(r[1]) # i
    BY <1>5 DEF IsComplete, BlocksOf
  <1>7. /\ Keeps(l, list, complete, connected)
        /\ Covered(list, requests) => Covered(l, requests')
    <2> PICK gone \in SUBSET (Block \X Peer) : gone = cancelled
      BY <1>4
    <2>1. /\ Keeps(RemoveRequests(list, gone, complete, connected), list, complete, connected)
          /\ Covered(list, requests)
               => Covered(RemoveRequests(list, gone, complete, connected), requests \ gone)
      BY <1>4, RemoveRequestsFacts
    <2> QED
      BY <1>3, <2>1
  <1>8. l \in List /\ Covered(l, requests') /\ Listed(l) = Listed(list)
        /\ CountsFrom(l, list, connected)
        /\ (Sorted => KeptInOrder(l, complete))
    BY <1>7, SortedIs DEF Keeps, ListInv
  <1> HIDE DEF l, cancelled
  <1>9. /\ SamePieces(m, l, connected)
        /\ OnlyOut(l, i, done) => KeptInOrder(m, done)
    BY <1>4, <1>8, ResortPieceFacts
  <1>10. \A x \in Entry : x.index # i => Weight(done, x) = Weight(complete, x)
    <2>1. \A j : j # i => BlocksOf(j) \ done = BlocksOf(j) \ complete
      BY DEF BlocksOf
    <2> QED
      BY <2>1 DEF Weight, Missing
  <1>11. KeptInOrder(l, complete) => OnlyOut(l, i, done)
    <2> SUFFICES ASSUME KeptInOrder(l, complete), l.sort = "weight",
                        NEW j \in DOMAIN l.pieces, NEW n \in DOMAIN l.pieces,
                        j < n, l.pieces[j].index # i, l.pieces[n].index # i
                 PROVE  ~Before(done, l.rep, l.pieces[n], l.pieces[j])
      BY DEF OnlyOut
    <2>1. ~Before(complete, l.rep, l.pieces[n], l.pieces[j])
      BY DEF KeptInOrder, Ascending
    <2>2. l.pieces[j] \in Entry /\ l.pieces[n] \in Entry
      <3>1. l.pieces \in Seq(Entry)
        BY <1>8, ListFacts
      <3> QED
        BY <3>1
    <2> QED
      BY <1>10, <2>1, <2>2 DEF Before
  <1> HIDE DEF m
  <1>12. /\ m \in List /\ Covered(m, requests') /\ Listed(m) = Listed(list)
         /\ CountsFrom(m, list, connected)
         /\ (Sorted => KeptInOrder(m, done))
    <2>1. m \in List /\ Range(m.pieces) = Range(l.pieces) /\ CountsFrom(m, l, connected)
      BY <1>9 DEF SamePieces
    <2>2. (Covered(l, requests') => Covered(m, requests')) /\ Listed(m) = Listed(l)
      BY <1>8, <2>1, CoveredFacts
    <2>3. CountsFrom(m, list, connected)
      BY <1>8, <2>1 DEF CountsFrom
    <2> QED
      BY <1>8, <1>9, <1>11, <2>1, <2>2, <2>3
  <1> HIDE DEF done
  <1>13. /\ list' \in List /\ Covered(list', requests') /\ CountsFrom(list', list, connected)
         /\ \A r \in requests' : PieceOf(r[1]) \in Listed(list')
    <2>1. \A r \in requests' : PieceOf(r[1]) \in Listed(list)
      BY <1>5 DEF ListInv, AskedAreListed
    <2>2. CASE ok /\ IsComplete(done, i)
      <3>1. list' = RemovePiece(m, i)
        BY <1>3, <2>2
      <3>2. /\ list' \in List /\ list'.rep = m.rep /\ Listed(list') = Listed(m) \ {i}
            /\ Covered(m, requests') => Covered(list', requests')
        BY <1>12, <3>1, RemovePieceFacts
      <3>3. CountsFrom(list', list, connected)
        BY <1>12, <3>2 DEF CountsFrom
      <3> HIDE DEF i
      <3> QED
        BY <1>6, <1>12, <2>1, <2>2, <3>2, <3>3
    <2>3. CASE ~(ok /\ IsComplete(done, i))
      <3>1. list' = m
        BY <1>3, <2>3
      <3> QED
        BY <1>12, <2>1, <3>1
    <2> QED
      BY <2>2, <2>3
  <1>14. OthersTyped'
    <2>1. complete' \subseteq Block
      BY <1>2, <1>3, <1>4 DEF done
    <2> QED
      BY <1>3, <2>1 DEF ListInv, OthersTyped, peerVars
  <1>15. ReplicationCovers'
    <2>1. ASSUME NEW j \in Piece
          PROVE  /\ RepCovers(list, j, Owners(j)')
                 /\ Owners(j)' \subseteq {q \in connected : j \in have[q]}
      <3>1. Owners(j)' = Owners(j)
        BY <1>3 DEF Owners, peerVars
      <3> QED
        BY <3>1, FewerOwners DEF Owners
    <2> QED
      BY <1>4, <1>13, <2>1, CoversAfter
  <1>16. Covered(list, requests)' /\ AskedAreListed'
    BY <1>13 DEF Covered, AskedAreListed, RequestsIn, Listed
  <1>17. ASSUME Sorted, ~ShortPieceFails
         PROVE  Sorted'
    <2>1. KeptInOrder(m, done)
      BY <1>12, <1>17
    <2>2. CASE ok /\ IsComplete(done, i)
      <3>1. list' = RemovePiece(m, i) /\ complete' = done
        BY <1>3, <2>2
      <3>2. OnlyOut(m, i, done)
        BY <2>1 DEF KeptInOrder, OnlyOut, Ascending
      <3>3. KeptInOrder(list', done)
        BY <1>12, <3>1, <3>2, RemovePieceFacts
      <3> QED
        BY <3>1, <3>3, SortedIs
    <2>3. CASE ok /\ ~IsComplete(done, i)
      <3>1. list' = m /\ complete' = done
        BY <1>3, <2>3
      <3> QED
        BY <2>1, <3>1, SortedIs
    <2>4. CASE ~ok
      <3>1. list' = m /\ complete' = done \ BlocksOf(i) /\ IsComplete(done, i)
        BY <1>3, <2>4
      <3>2. Cardinality(BlocksOf(i)) = BlocksPerPiece
        <4>1. GotBlock(p, FALSE)
          BY <2>4
        <4> DEFINE r == <<b, p>>
        <4>2. r \in requests \ requests' /\ r[1] = b /\ b \notin complete'
          BY <1>2, <1>5, <3>1
        <4>3. ~(Cardinality(BlocksOf(i)) < BlocksPerPiece)
          BY <1>17, <4>1, <4>2 DEF ShortPieceFails
        <4> QED
          BY <1>2, <4>3, BlocksOfAPiece, BlockAssumption
      <3>3. RequestsIn(requests', i) = {}
        BY <1>6, <3>1 DEF RequestsIn
      <3>4. ASSUME NEW k \in DOMAIN m.pieces
            PROVE  Weight(done, m.pieces[k]) = Weight(complete', m.pieces[k])
        <4> DEFINE x == m.pieces[k]
        <4>1. x \in Entry /\ x \in Range(m.pieces)
          <5>1. m.pieces \in Seq(Entry)
            BY <1>12, ListFacts
          <5> QED
            BY <5>1 DEF Range
        <4> HIDE DEF x
        <4>2. CASE x.index # i
          <5>1. BlocksOf(x.index) \ complete' = BlocksOf(x.index) \ done
            BY <3>1, <4>2 DEF BlocksOf
          <5>2. Weight(done, x) = Weight(complete', x)
            BY <5>1 DEF Weight, Missing
          <5> QED
            BY <5>2 DEF x
        <4>3. CASE x.index = i
          <5>1. x.requestCount = 0
            <6>1. x.requestCount <= Cardinality(RequestsIn(requests', i)) /\ x.requestCount \in Nat
              BY <1>12, <4>1, <4>3 DEF Covered, Entry
            <6> QED
              BY <3>3, <6>1, FS_EmptySet
          <5>2. Missing(done, i) = 0
            <6>1. BlocksOf(i) \ done = {}
              BY <3>1 DEF IsComplete
            <6> QED
              BY <6>1, FS_EmptySet DEF Missing
          <5>3. Missing(complete', i) = BlocksPerPiece
            <6>1. BlocksOf(i) \ complete' = BlocksOf(i)
              BY <3>1
            <6> QED
              BY <3>2, <6>1 DEF Missing
          <5>4. Weight(done, x) = Weight(complete', x)
            BY <4>3, <5>1, <5>2, <5>3, BlockAssumption DEF Weight
          <5> QED
            BY <5>4 DEF x
        <4> QED
          BY <4>2, <4>3
      <3>5. KeptInOrder(m, complete')
        BY <2>1, <3>4, SameWeights
      <3> QED
        BY <3>1, <3>5, SortedIs
    <2> QED
      BY <2>2, <2>3, <2>4
  <1> QED
    BY <1>13, <1>14, <1>15, <1>16, <1>17 DEF ListInv

\* A new torrent has an empty list.
LEMMA InitList == Init => ListInv
  <1> SUFFICES ASSUME Init
               PROVE  ListInv
    OBVIOUS
  <1>1. list = [pieces |-> <<>>, sort |-> "unsorted", rep |-> NoReplication]
    BY DEF Init, EmptyList
  <1>2. list \in List
    <2>1. <<>> \in Pieces
      BY DEF Pieces, Distinct
    <2> QED
      BY <1>1, <2>1 DEF List, ListType
  <1>3. Covered(list, requests)
    BY <1>1 DEF Covered, Range
  <1>4. OthersTyped /\ AskedAreListed /\ ReplicationCovers
    BY <1>1 DEF Init, OthersTyped, AskedAreListed, ReplicationCovers
  <1> QED
    BY <1>2, <1>3, <1>4 DEF ListInv

\* Every step keeps the list's invariant, and the order unless a short piece
\* fails.
LEMMA NextList ==
  Inv /\ ListInv /\ [Next]_vars => ListInv' /\ (Sorted /\ ~ShortPieceFails => Sorted')
  <1> SUFFICES ASSUME Inv, ListInv, [Next]_vars
               PROVE  ListInv' /\ (Sorted /\ ~ShortPieceFails => Sorted')
    OBVIOUS
  <1>1. ASSUME NEW p \in Peer, PeerNext(p)
        PROVE  ListInv' /\ (Sorted /\ ~ShortPieceFails => Sorted')
    <2>1. CASE Connect(p)
      BY <2>1, ConnectList
    <2>2. CASE GotBitfield(p) \/ GotHaveAll(p) \/ GotHaveNone(p)
      BY <2>2, AnnouncementList
    <2>3. CASE GotHave(p)
      BY <2>3, GotHaveList
    <2>4. CASE GotUnchoke(p)
      <3>1. OthersTyped'
        BY <2>4 DEF GotUnchoke, ListInv, OthersTyped
      <3>2. \A i \in Piece : Owners(i)' \subseteq Owners(i)
        BY <2>4 DEF GotUnchoke, Owners
      <3> QED
        BY <2>4, <3>1, <3>2, ListUntouched DEF GotUnchoke
    <2>5. CASE GotChoke(p)
      BY <2>5, GotChokeList
    <2>6. CASE UpdateBlockRequests(p)
      BY <2>6, UpdateBlockRequestsList
    <2>7. CASE GotReject(p)
      BY <2>7, GotRejectList
    <2>8. CASE \E ok \in BOOLEAN : GotBlock(p, ok)
      BY <2>8, GotBlockList
    <2>9. CASE ClosePeer(p)
      BY <2>9, ClosePeerList
    <2> QED
      BY <1>1, <2>1, <2>2, <2>3, <2>4, <2>5, <2>6, <2>7, <2>8, <2>9 DEF PeerNext
  <1>2. CASE RechokeDownloads
    <2>1. OthersTyped'
      BY <1>2 DEF RechokeDownloads, Interesting, ListInv, OthersTyped
    <2>2. \A i \in Piece : Owners(i)' \subseteq Owners(i)
      BY <1>2 DEF RechokeDownloads, Owners
    <2> QED
      BY <1>2, <2>1, <2>2, ListUntouched DEF RechokeDownloads
  <1>3. CASE RefillUpkeep
    BY <1>3, RefillUpkeepList
  <1>4. CASE StopTorrent
    BY <1>4, StopTorrentList
  <1>5. CASE StartTorrent
    BY <1>5, StartTorrentList
  <1>6. CASE UNCHANGED vars
    <2>1. OthersTyped' /\ \A i \in Piece : Owners(i)' \subseteq Owners(i)
      BY <1>6 DEF vars, ListInv, OthersTyped, Owners
    <2> QED
      BY <1>6, <2>1, ListUntouched DEF vars
  <1> QED
    BY <1>1, <1>2, <1>3, <1>4, <1>5, <1>6 DEF Next

-----------------------------------------------------------------------------
\* The invariant holds in every reachable state.
THEOREM Invariance == Spec => []Inv
  BY InitInv, NextInv, PTL DEF Spec

\* No block is asked in vain: tr_peerMgrGetNextRequests, the cancels of
\* peerCallbackFunc and the removal of a peer's requests leave no request of a
\* block that is there or of a peer that is gone, and none of a third peer,
\* whatever peers announce and take back in between.
THEOREM NobodyIsAskedInVain == Spec => []NothingAskedInVain
  <1>1. Inv => NothingAskedInVain
    BY DEF Inv
  <1> QED
    BY <1>1, Invariance, PTL

\* pendingReqsToPeer is the number of requests to the peer, whatever cancels,
\* chokes, rejects, time-outs and endings have come.
THEOREM PendingIsExact == Spec => []PendingExact
  <1>1. Inv => PendingExact
    BY DEF Inv
  <1> QED
    BY <1>1, Invariance, PTL

\* The piece list's invariant holds in every reachable state.
THEOREM ListInvariance == Spec => []ListInv
  BY InitInv, NextInv, InitList, NextList, PTL DEF Spec

\* The types: every handler of peer-mgr.c and peer-msgs.c leaves the requests,
\* the peers and the piece list well formed, no piece in the list twice, and
\* no count below zero.
THEOREM TypeCorrect == Spec => []TypeOK
  <1>1. Inv /\ ListInv => TypeOK
    <2> SUFFICES ASSUME Inv, ListInv
                 PROVE  TypeOK
      OBVIOUS
    <2>1. /\ list.pieces \in Seq(Entry) /\ Distinct(list.pieces)
          /\ list.sort \in {"unsorted", "weight"}
          /\ list.rep \in [Piece -> Nat] \cup {NoReplication}
      BY ListFacts DEF ListInv
    <2> QED
      BY <2>1 DEF Inv, TypesUsed, ListInv, OthersTyped, TypeOK, Distinct, Entry
  <1> QED
    BY <1>1, Invariance, ListInvariance, PTL

\* The request count of a listed piece, on which its place depends, is covered
\* by requests, and a piece with a request is never lost from the list,
\* through every decrement of pieceListRemoveRequest and every rebuilding.
THEOREM CountsAreCovered == Spec => []CountsCovered
  <1>1. Inv /\ ListInv => CountsCovered
    <2> SUFFICES ASSUME Inv, ListInv
                 PROVE  CountsCovered
      OBVIOUS
    <2>1. ASSUME NEW k \in DOMAIN list.pieces
          PROVE  list.pieces[k].requestCount
                   <= Cardinality({r \in requests : PieceOf(r[1]) = list.pieces[k].index})
      BY DEF ListInv, Covered, RequestsIn, Range
    <2>2. \A r \in requests : Positions(list, PieceOf(r[1])) # {}
      BY ListedFacts DEF ListInv, AskedAreListed
    <2> QED
      BY <2>1, <2>2 DEF CountsCovered
  <1> QED
    BY <1>1, Invariance, ListInvariance, PTL

\* The replication counts never fall short of the peers that have a piece, so
\* that tr_decrReplicationOfPiece never passes zero.
THEOREM ReplicationIsCovered == Spec => []ReplicationCovers
  <1>1. ListInv => ReplicationCovers
    BY DEF ListInv
  <1> QED
    BY <1>1, ListInvariance, PTL

\* The incremental re-sorting of pieceListResortPiece, the insertion sort of
\* tr_peerMgrGetNextRequests and the flags that defer the sorting keep the list
\* in order, for any number of pieces, unless a short piece fails.
THEOREM OrderIsKept == Spec => KeepsSorted
  <1>1. Inv /\ ListInv /\ [Next]_vars => [Sorted /\ ~ShortPieceFails => Sorted']_vars
    BY NextList
  <1> QED
    BY <1>1, Invariance, ListInvariance, PTL DEF Spec, KeepsSorted
=============================================================================

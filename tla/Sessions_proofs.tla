--------------------------- MODULE Sessions_proofs ---------------------------
(***************************************************************************)
(* Proof that a visualizer hears of files and peers before anything refers *)
(* to them, for any score, any number of visualizers in Python and in C++, *)
(* whenever they start and however late they receive: in the first session *)
(* that is (in later ones it does not hold, see UndeclaredFiles.cfg).      *)
(* And that the variables keep their types, which includes that nobody is  *)
(* registered twice and that an early message is never a /visualizing.     *)
(***************************************************************************)
EXTENDS Sessions, FiniteSetTheorems, TLAPS

Message ==
    [kind : {"torrent"}, files : Nat] \cup [kind : {"file"}, file : Nat]
        \cup [kind : {"peer"}, peer : Nat]
        \cup [kind : {"chunk", "segment"}, id : Nat, file : Nat, peer : Nat]
        \cup [kind : {"reset"}]
View == [torrent : Nat, files : SUBSET Nat, peers : Seq(Nat)]
NoView == [torrent |-> 0, files |-> {}, peers |-> <<>>]

IsContent(m) == m.kind \in {"chunk", "segment"}
FileCount == Files[1]

\* The messages q on their way to a visualizer that knows w of a torrent, when
\* the orchestra has count players: what the first ones declare the later ones
\* may refer to.
TorrentFirst(q, w) ==
    /\ \A k \in DOMAIN q : q[k].kind = "torrent" =>
         k = 1 /\ q[k].files = FileCount /\ w.files = {} /\ w.peers = <<>>
    /\ w.torrent = FileCount \/ (1 \in DOMAIN q /\ q[1].kind = "torrent")
FilesBefore(q, w) ==
    /\ \A k \in DOMAIN q : q[k].kind = "file" \/ IsContent(q[k]) => q[k].file < FileCount
    /\ \A i \in 0 .. FileCount - 1 :
         \/ i \in w.files
         \/ \E k \in DOMAIN q : /\ q[k] = File(i)
                                /\ \A j \in DOMAIN q : IsContent(q[j]) => k < j
PeersInOrder(q, w, count) ==
    /\ Len(w.peers) <= count
    /\ \A i \in DOMAIN w.peers : w.peers[i] = i - 1
    /\ \A k \in DOMAIN q : q[k].kind = "peer" =>
         /\ q[k].peer >= Len(w.peers) /\ q[k].peer < count
         /\ \A j \in DOMAIN q : q[j] = q[k] => j = k
         /\ q[k].peer > Len(w.peers) =>
              \E j \in DOMAIN q : j < k /\ q[j] = PeerMessage(q[k].peer - 1)
    /\ \A i \in 0 .. count - 1 :
         i < Len(w.peers) \/ \E k \in DOMAIN q : q[k] = PeerMessage(i)
PeersBefore(q, w, count) ==
    \A k \in DOMAIN q : IsContent(q[k]) =>
        /\ q[k].peer < count
        /\ \/ q[k].peer < Len(w.peers)
           \/ \E j \in DOMAIN q : j < k /\ q[j] = PeerMessage(q[k].peer)
Stream(q, w, count) ==
    TorrentFirst(q, w) /\ FilesBefore(q, w) /\ PeersInOrder(q, w, count) /\ PeersBefore(q, w, count)
ResetIsLast(q) == \A k \in DOMAIN q : q[k].kind = "reset" => k = Len(q)
NoReset(q) == \A k \in DOMAIN q : q[k].kind # "reset"

-----------------------------------------------------------------------------
LEMMA AppendFacts ==
    ASSUME NEW q \in Seq(Message), NEW m \in Message
    PROVE  LET r == Append(q, m) IN
           /\ r \in Seq(Message)
           /\ Len(q) \in Nat /\ Len(r) = Len(q) + 1 /\ Len(r) \in DOMAIN r
           /\ DOMAIN q = 1 .. Len(q) /\ DOMAIN r = 1 .. Len(q) + 1
           /\ \A k \in DOMAIN q : k \in Nat /\ k \in DOMAIN r /\ r[k] = q[k] /\ k < Len(r)
           /\ r[Len(r)] = m
           /\ \A k \in DOMAIN r : k \in Nat /\ (k \in DOMAIN q \/ k = Len(r))
    OBVIOUS

LEMMA TailFacts ==
    ASSUME NEW q \in Seq(Message), q # <<>>
    PROVE  /\ Tail(q) \in Seq(Message)
           /\ q[1] \in Message /\ Head(q) = q[1] /\ 1 \in DOMAIN q
           /\ Len(q) \in Nat /\ DOMAIN q = 1 .. Len(q) /\ DOMAIN Tail(q) = 1 .. Len(q) - 1
           /\ \A k \in DOMAIN Tail(q) :
                k \in Nat /\ k + 1 \in DOMAIN q /\ Tail(q)[k] = q[k + 1]
           /\ \A k \in DOMAIN q :
                k \in Nat /\ (k # 1 => k - 1 \in DOMAIN Tail(q) /\ Tail(q)[k - 1] = q[k])
           /\ Len(Tail(q)) = Len(q) - 1
    OBVIOUS

LEMMA FileCountIsPositive == FileCount \in Nat \ {0} /\ 1 \in Session
    <1>1. 1 \in Session
        BY ScoreAssumption DEF Session
    <1> QED
        BY <1>1, ScoreAssumption DEF FileCount

LEMMA Element ==
    ASSUME NEW S, NEW s \in Seq(S), NEW i \in DOMAIN s
    PROVE  s[i] \in S
    OBVIOUS

LEMMA AppendedOne ==
    ASSUME NEW q \in Seq(Message), NEW m \in Message
    PROVE  Append(<<>>, m) = <<m>> /\ q \o <<m>> = Append(q, m) /\ q \o <<>> = q
    OBVIOUS

LEMMA AppendedTwo ==
    ASSUME NEW q \in Seq(Message), NEW m \in Message, NEW o \in Message
    PROVE  q \o Append(<<m>>, o) = Append(Append(q, m), o)
    <1> PICK s : s = Append(<<m>>, o)
        OBVIOUS
    <1>1. s \in Seq(Message) /\ Len(s) = 2 /\ s[1] = m /\ s[2] = o
        OBVIOUS
    <1> QED
        BY <1>1

LEMMA AppendReset ==
    ASSUME NEW q \in Seq(Message), NEW m \in Message, NoReset(q)
    PROVE  /\ Append(q, m) \in Seq(Message)
           /\ ResetIsLast(Append(q, m))
           /\ m.kind # "reset" => NoReset(Append(q, m))
    <1> PICK r : r = Append(q, m)
        OBVIOUS
    <1>1. /\ r \in Seq(Message) /\ r[Len(r)] = m
          /\ \A k \in DOMAIN q : r[k] = q[k]
          /\ \A k \in DOMAIN r : k \in DOMAIN q \/ k = Len(r)
        BY AppendFacts
    <1> QED
        BY <1>1 DEF NoReset, ResetIsLast

\* The torrent's messages are a stream.
LEMMA StreamBegins ==
    ASSUME NEW q, q = <<Torrent(FileCount)>> \o [i \in 1 .. FileCount |-> File(i - 1)]
    PROVE  q \in Seq(Message) /\ Stream(q, NoView, 0) /\ NoReset(q)
    <1> PICK n : n = FileCount
        OBVIOUS
    <1> PICK s : s = [i \in 1 .. n |-> File(i - 1)]
        OBVIOUS
    <1>1. n \in Nat /\ n > 0
        BY FileCountIsPositive
    <1>2. \A i \in 1 .. n : File(i - 1) \in Message /\ s[i] = File(i - 1)
        <2>1. \A i \in 1 .. n : i - 1 \in Nat
            BY <1>1
        <2>2. \A i \in Nat : File(i) \in Message
            BY DEF File, Message
        <2> QED
            BY <2>1, <2>2
    <1>3. s \in Seq(Message) /\ Len(s) = n
        BY <1>1, <1>2
    <1>4. Torrent(n) \in Message
        BY <1>1 DEF Torrent, Message
    <1>5. q = <<Torrent(n)>> \o s
        OBVIOUS
    <1>6. /\ q \in Seq(Message) /\ DOMAIN q = 1 .. n + 1
          /\ q[1] = Torrent(n)
          /\ \A k \in 2 .. n + 1 : q[k] = s[k - 1]
        <2> PICK t : t = Torrent(n)
            OBVIOUS
        <2> HIDE DEF Torrent
        <2>1. q = <<t>> \o s /\ t \in Message
            BY <1>4, <1>5
        <2>2. <<t>> \in Seq(Message) /\ Len(<<t>>) = 1 /\ <<t>>[1] = t
            BY <2>1
        <2>3. q \in Seq(Message) /\ Len(q) = n + 1
            BY <1>1, <1>3, <2>1, <2>2
        <2>4. q[1] = t /\ \A k \in 2 .. n + 1 : q[k] = s[k - 1]
            BY <1>1, <1>3, <2>1, <2>2
        <2> QED
            BY <1>1, <2>3, <2>4
    <1>7. \A k \in DOMAIN q : k = 1 \/ (k \in 2 .. n + 1 /\ k - 1 \in 1 .. n)
        BY <1>1, <1>6
    <1>8. ASSUME NEW k \in DOMAIN q, k # 1
          PROVE  q[k] = File((k - 1) - 1) /\ q[k].kind = "file" /\ q[k].file < n
        <2>1. k \in 2 .. n + 1 /\ k - 1 \in 1 .. n
            BY <1>7, <1>8
        <2>2. q[k] = File((k - 1) - 1)
            BY <1>2, <1>6, <2>1
        <2>3. (k - 1) - 1 < n
            BY <1>1, <2>1
        <2>4. q[k].kind = "file" /\ q[k].file = (k - 1) - 1
            <3> PICK i : i = (k - 1) - 1
                OBVIOUS
            <3>1. File(i).kind = "file" /\ File(i).file = i
                BY DEF File
            <3>2. q[k] = File(i)
                BY <2>2
            <3> QED
                BY <3>1, <3>2
        <2> QED
            BY <2>2, <2>3, <2>4
    <1>9. q[1].kind = "torrent" /\ q[1].files = n /\ 1 \in DOMAIN q
        BY <1>1, <1>6 DEF Torrent
    <1>10. \A k \in DOMAIN q : ~IsContent(q[k]) /\ q[k].kind # "peer" /\ q[k].kind # "reset"
        BY <1>8, <1>9 DEF IsContent
    <1>11. TorrentFirst(q, NoView)
        BY <1>8, <1>9 DEF TorrentFirst, NoView
    <1>12. FilesBefore(q, NoView)
        <2>1. ASSUME NEW i \in 0 .. n - 1
              PROVE  \E k \in DOMAIN q : q[k] = File(i)
            <3>1. i + 2 \in 1 .. n + 1 /\ i + 2 # 1 /\ ((i + 2) - 1) - 1 = i
                BY <1>1
            <3>2. q[i + 2] = File(i)
                BY <1>6, <1>8, <3>1
            <3> QED
                BY <1>6, <3>1, <3>2
        <2>2. \A k \in DOMAIN q : q[k].kind = "file" => q[k].file < n
            BY <1>8, <1>9
        <2> QED
            BY <1>10, <2>1, <2>2 DEF FilesBefore
    <1>13. PeersBefore(q, NoView, 0)
        BY <1>10 DEF PeersBefore
    <1>14. PeersInOrder(q, NoView, 0)
        <2>1. NoView.peers = <<>> /\ Len(<<>>) = 0 /\ DOMAIN <<>> = {}
            BY DEF NoView
        <2>2. (\A i \in 0 .. 0 - 1 : FALSE) /\ 0 <= 0
            OBVIOUS
        <2>3. Len(NoView.peers) <= 0 /\ \A i \in DOMAIN NoView.peers : FALSE
            BY <2>1, <2>2
        <2> QED
            BY <1>10, <2>2, <2>3 DEF PeersInOrder
    <1> QED
        BY <1>6, <1>10, <1>11, <1>12, <1>13, <1>14 DEF Stream, NoReset

\* A new peer is announced.
LEMMA StreamPeer ==
    ASSUME NEW q \in Seq(Message), NEW w \in View, NEW count \in Nat, Stream(q, w, count)
    PROVE  Stream(Append(q, PeerMessage(count)), w, count + 1)
    <1> PICK m : m = PeerMessage(count)
        OBVIOUS
    <1> PICK r : r = Append(q, m)
        OBVIOUS
    <1> PICK l : l = Len(r)
        OBVIOUS
    <1> PICK fresh : fresh = Len(w.peers)
        OBVIOUS
    <1>1. m \in Message /\ m.kind = "peer" /\ m.peer = count /\ ~IsContent(m)
        BY DEF PeerMessage, Message, IsContent
    <1>2. /\ l \in DOMAIN r /\ r[l] = m /\ l \in Nat
          /\ \A k \in DOMAIN q : k \in Nat /\ k \in DOMAIN r /\ r[k] = q[k] /\ k < l
          /\ \A k \in DOMAIN r : k \in Nat /\ (k \in DOMAIN q \/ k = l)
        BY <1>1, AppendFacts
    <1>3. fresh \in Nat /\ fresh <= count
        BY DEF View, Stream, PeersInOrder
    <1>4. \A k \in DOMAIN q : q[k] \in Message
        OBVIOUS
    <1>5. TorrentFirst(r, w)
        <2>1. \A k \in DOMAIN r : r[k].kind = "torrent" => k \in DOMAIN q /\ q[k] = r[k]
            BY <1>1, <1>2
        <2> QED
            BY <1>2, <2>1 DEF Stream, TorrentFirst
    <1>6. FilesBefore(r, w)
        <2>1. \A k \in DOMAIN r : r[k].kind = "file" \/ IsContent(r[k]) => k \in DOMAIN q /\ q[k] = r[k]
            BY <1>1, <1>2 DEF IsContent
        <2> QED
            BY <1>2, <2>1 DEF Stream, FilesBefore
    <1>7. PeersInOrder(r, w, count + 1)
        <2>1. \A j \in DOMAIN q : q[j] # m
            BY <1>1, <1>3 DEF Stream, PeersInOrder
        <2>2. ASSUME NEW k \in DOMAIN r, r[k].kind = "peer"
              PROVE  /\ r[k].peer >= fresh /\ r[k].peer < count + 1
                     /\ \A j \in DOMAIN r : r[j] = r[k] => j = k
                     /\ r[k].peer > fresh =>
                          \E j \in DOMAIN r : j < k /\ r[j] = PeerMessage(r[k].peer - 1)
            <3>1. CASE k = l
                <4>1. r[k] = m /\ r[k].peer = count
                    BY <1>1, <1>2, <3>1
                <4>2. \A j \in DOMAIN r : r[j] = r[k] => j = k
                    BY <1>2, <2>1, <3>1, <4>1
                <4>3. ASSUME count > fresh
                      PROVE  \E j \in DOMAIN r : j < k /\ r[j] = PeerMessage(count - 1)
                    <5>1. count - 1 \in 0 .. count - 1 /\ ~(count - 1 < fresh)
                        BY <1>3, <4>3
                    <5>2. PICK j \in DOMAIN q : q[j] = PeerMessage(count - 1)
                        BY <5>1 DEF Stream, PeersInOrder
                    <5> QED
                        BY <1>2, <3>1, <5>2
                <4> QED
                    BY <1>3, <4>1, <4>2, <4>3
            <3>2. CASE k \in DOMAIN q
                <4>1. r[k] = q[k] /\ q[k] # m /\ q[k].kind = "peer"
                    BY <1>2, <2>1, <2>2, <3>2
                <4>2. /\ q[k].peer >= fresh /\ q[k].peer < count
                      /\ \A j \in DOMAIN q : q[j] = q[k] => j = k
                      /\ q[k].peer > fresh =>
                           \E j \in DOMAIN q : j < k /\ q[j] = PeerMessage(q[k].peer - 1)
                    BY <3>2, <4>1 DEF Stream, PeersInOrder
                <4>3. q[k].peer \in Nat
                    BY <1>4, <3>2, <4>1 DEF Message
                <4>4. r[k].peer < count + 1
                    BY <4>1, <4>2, <4>3
                <4>5. \A j \in DOMAIN r : r[j] = r[k] => j = k
                    BY <1>2, <4>1, <4>2
                <4> QED
                    BY <1>2, <4>1, <4>2, <4>4, <4>5
            <3> QED
                BY <1>2, <3>1, <3>2
        <2>3. ASSUME NEW i \in 0 .. (count + 1) - 1, ~(i < fresh)
              PROVE  \E k \in DOMAIN r : r[k] = PeerMessage(i)
            <3>1. CASE i = count
                BY <1>2, <3>1
            <3>2. CASE i # count
                <4>1. i \in 0 .. count - 1
                    BY <2>3, <3>2
                <4>2. PICK k \in DOMAIN q : q[k] = PeerMessage(i)
                    BY <2>3, <4>1 DEF Stream, PeersInOrder
                <4> QED
                    BY <1>2, <4>2
            <3> QED
                BY <3>1, <3>2
        <2>4. fresh <= count + 1 /\ \A i \in DOMAIN w.peers : w.peers[i] = i - 1
            BY <1>3 DEF Stream, PeersInOrder
        <2> QED
            BY <2>2, <2>3, <2>4 DEF PeersInOrder
    <1>8. PeersBefore(r, w, count + 1)
        <2> SUFFICES ASSUME NEW k \in DOMAIN r, IsContent(r[k])
                     PROVE  /\ r[k].peer < count + 1
                            /\ \/ r[k].peer < fresh
                               \/ \E j \in DOMAIN r : j < k /\ r[j] = PeerMessage(r[k].peer)
            BY DEF PeersBefore
        <2>1. k \in DOMAIN q /\ r[k] = q[k]
            BY <1>1, <1>2
        <2>2. /\ q[k].peer < count
              /\ \/ q[k].peer < fresh
                 \/ \E j \in DOMAIN q : j < k /\ q[j] = PeerMessage(q[k].peer)
            BY <2>1 DEF Stream, PeersBefore
        <2>3. q[k].peer \in Nat
            BY <1>4, <2>1 DEF Message, IsContent
        <2>4. q[k].peer < count + 1
            BY <2>2, <2>3
        <2> QED
            BY <1>2, <2>1, <2>2, <2>4
    <1> QED
        BY <1>5, <1>6, <1>7, <1>8 DEF Stream

\* Something refers to a fresh file and peer, or the torrent is over.
LEMMA StreamContent ==
    ASSUME NEW q \in Seq(Message), NEW w \in View, NEW count \in Nat, Stream(q, w, count),
           NEW m \in Message,
           \/ m.kind = "reset"
           \/ IsContent(m) /\ m.file < FileCount /\ m.peer < count
    PROVE  Stream(Append(q, m), w, count)
    <1> PICK r : r = Append(q, m)
        OBVIOUS
    <1> PICK l : l = Len(r)
        OBVIOUS
    <1>1. m.kind # "torrent" /\ m.kind # "file" /\ m.kind # "peer"
        BY DEF IsContent
    <1>2. /\ l \in DOMAIN r /\ r[l] = m /\ l \in Nat
          /\ \A k \in DOMAIN q : k \in Nat /\ k \in DOMAIN r /\ r[k] = q[k] /\ k < l
          /\ \A k \in DOMAIN r : k \in Nat /\ (k \in DOMAIN q \/ k = l)
        BY AppendFacts
    <1>3. \A k \in DOMAIN r : r[k].kind \in {"torrent", "file", "peer"} =>
            k \in DOMAIN q /\ q[k] = r[k]
        BY <1>1, <1>2
    <1>4. TorrentFirst(r, w)
        BY <1>2, <1>3 DEF Stream, TorrentFirst
    <1>5. FilesBefore(r, w)
        <2>1. ASSUME NEW k \in DOMAIN r, r[k].kind = "file" \/ IsContent(r[k])
              PROVE  r[k].file < FileCount
            <3>1. CASE k = l
                BY <1>1, <1>2, <2>1, <3>1 DEF IsContent
            <3>2. CASE k \in DOMAIN q
                BY <1>2, <2>1, <3>2 DEF Stream, FilesBefore
            <3> QED
                BY <1>2, <3>1, <3>2
        <2>2. ASSUME NEW i \in 0 .. FileCount - 1, i \notin w.files
              PROVE  \E k \in DOMAIN r : /\ r[k] = File(i)
                                         /\ \A j \in DOMAIN r : IsContent(r[j]) => k < j
            <3>1. PICK k \in DOMAIN q : /\ q[k] = File(i)
                                        /\ \A j \in DOMAIN q : IsContent(q[j]) => k < j
                BY <2>2 DEF Stream, FilesBefore
            <3>2. k \in DOMAIN r /\ r[k] = File(i) /\ k < l
                BY <1>2, <3>1
            <3>3. \A j \in DOMAIN r : IsContent(r[j]) => k < j
                BY <1>2, <3>1, <3>2
            <3> QED
                BY <3>2, <3>3
        <2> QED
            BY <2>1, <2>2 DEF FilesBefore
    <1>6. PeersInOrder(r, w, count)
        <2>1. ASSUME NEW k \in DOMAIN r, r[k].kind = "peer"
              PROVE  /\ r[k].peer >= Len(w.peers) /\ r[k].peer < count
                     /\ \A j \in DOMAIN r : r[j] = r[k] => j = k
                     /\ r[k].peer > Len(w.peers) =>
                          \E j \in DOMAIN r : j < k /\ r[j] = PeerMessage(r[k].peer - 1)
            <3>1. k \in DOMAIN q /\ q[k] = r[k]
                BY <1>3, <2>1
            <3>2. /\ q[k].peer >= Len(w.peers) /\ q[k].peer < count
                  /\ \A j \in DOMAIN q : q[j] = q[k] => j = k
                  /\ q[k].peer > Len(w.peers) =>
                       \E j \in DOMAIN q : j < k /\ q[j] = PeerMessage(q[k].peer - 1)
                BY <2>1, <3>1 DEF Stream, PeersInOrder
            <3>3. \A j \in DOMAIN r : r[j] = r[k] => j = k
                BY <1>2, <1>3, <2>1, <3>1, <3>2
            <3> QED
                BY <1>2, <3>1, <3>2, <3>3
        <2>2. \A i \in 0 .. count - 1 :
                i < Len(w.peers) \/ \E k \in DOMAIN r : r[k] = PeerMessage(i)
            BY <1>2 DEF Stream, PeersInOrder
        <2> QED
            BY <2>1, <2>2 DEF Stream, PeersInOrder
    <1>7. PeersBefore(r, w, count)
        <2> SUFFICES ASSUME NEW k \in DOMAIN r, IsContent(r[k])
                     PROVE  /\ r[k].peer < count
                            /\ \/ r[k].peer < Len(w.peers)
                               \/ \E j \in DOMAIN r : j < k /\ r[j] = PeerMessage(r[k].peer)
            BY DEF PeersBefore
        <2>1. CASE k = l
            <3>1. r[k] = m /\ IsContent(m) /\ m.peer < count
                BY <1>2, <2>1 DEF IsContent
            <3>2. m.peer \in 0 .. count - 1
                BY <3>1 DEF Message, IsContent
            <3>3. m.peer < Len(w.peers) \/ \E j \in DOMAIN q : q[j] = PeerMessage(m.peer)
                BY <3>2 DEF Stream, PeersInOrder
            <3> QED
                BY <1>2, <2>1, <3>1, <3>3
        <2>2. CASE k \in DOMAIN q
            BY <1>2, <2>2 DEF Stream, PeersBefore
        <2> QED
            BY <1>2, <2>1, <2>2
    <1> QED
        BY <1>4, <1>5, <1>6, <1>7 DEF Stream

\* A visualizer takes the first message and knows what it says.
LEMMA StreamReceive ==
    ASSUME NEW q \in Seq(Message), q # <<>>, NEW w \in View, NEW count \in Nat,
           Stream(q, w, count), NEW u \in View,
           u.torrent = IF q[1].kind = "torrent" THEN FileCount ELSE w.torrent,
           u.files = IF q[1].kind = "file" THEN w.files \cup {q[1].file} ELSE w.files,
           u.peers = IF q[1].kind = "peer" THEN Append(w.peers, q[1].peer) ELSE w.peers
    PROVE  Stream(Tail(q), u, count)
    <1> PICK r : r = Tail(q)
        OBVIOUS
    <1> PICK m : m = q[1]
        OBVIOUS
    <1> PICK fresh : fresh = Len(w.peers)
        OBVIOUS
    <1>1. /\ m \in Message /\ 1 \in DOMAIN q
          /\ \A k \in DOMAIN r : k \in Nat /\ k + 1 \in DOMAIN q /\ r[k] = q[k + 1] /\ k + 1 # 1
          /\ \A k \in DOMAIN q :
               k \in Nat /\ (k # 1 => k - 1 \in DOMAIN r /\ r[k - 1] = q[k])
        <2>1. DOMAIN r = 1 .. Len(q) - 1 /\ Len(q) \in Nat
            BY TailFacts
        <2>2. \A k \in DOMAIN r : k + 1 # 1
            BY <2>1
        <2> QED
            BY <2>2, TailFacts
    <1>2. \A k \in DOMAIN q : q[k] \in Message /\ (k = 1 \/ k - 1 \in DOMAIN r)
        BY <1>1
    <1>3. \A k \in DOMAIN r : r[k] \in Message
        BY <1>1
    <1>4. \A k \in DOMAIN q : ~(k < 1)
        OBVIOUS
    <1>5. fresh \in Nat /\ fresh <= count
        BY DEF View, Stream, PeersInOrder
    <1>6. TorrentFirst(r, u)
        <2>1. \A k \in DOMAIN r : r[k].kind # "torrent"
            BY <1>1 DEF Stream, TorrentFirst
        <2>2. u.torrent = FileCount
            BY DEF Stream, TorrentFirst
        <2> QED
            BY <2>1, <2>2 DEF TorrentFirst
    <1>7. FilesBefore(r, u)
        <2>1. \A k \in DOMAIN r : r[k].kind = "file" \/ IsContent(r[k]) => r[k].file < FileCount
            BY <1>1 DEF Stream, FilesBefore
        <2>2. ASSUME NEW i \in 0 .. FileCount - 1, i \notin u.files
              PROVE  \E k \in DOMAIN r : /\ r[k] = File(i)
                                         /\ \A j \in DOMAIN r : IsContent(r[j]) => k < j
            <3>1. i \notin w.files
                BY <2>2
            <3>2. PICK k \in DOMAIN q : /\ q[k] = File(i)
                                        /\ \A j \in DOMAIN q : IsContent(q[j]) => k < j
                BY <3>1 DEF Stream, FilesBefore
            <3>3. File(i).kind = "file" /\ File(i).file = i
                BY DEF File
            <3>4. k # 1
                BY <2>2, <3>2, <3>3
            <3>5. k \in Nat /\ k - 1 \in DOMAIN r /\ r[k - 1] = File(i)
                BY <1>1, <3>2, <3>4
            <3>6. ASSUME NEW j \in DOMAIN r, IsContent(r[j])
                  PROVE  k - 1 < j
                <4>1. j \in Nat /\ j + 1 \in DOMAIN q /\ r[j] = q[j + 1]
                    BY <1>1
                <4>2. k < j + 1
                    BY <3>2, <3>6, <4>1
                <4> QED
                    BY <3>5, <4>1, <4>2
            <3> QED
                BY <3>5, <3>6
        <2> QED
            BY <2>1, <2>2 DEF FilesBefore
    <1>8. CASE m.kind = "peer"
        <2>1. m.peer \in Nat /\ m = PeerMessage(m.peer)
            BY <1>1, <1>8 DEF Message, PeerMessage
        <2>2. /\ m.peer >= fresh /\ m.peer < count
              /\ \A j \in DOMAIN q : q[j] = m => j = 1
              /\ ~(m.peer > fresh)
            BY <1>1, <1>4, <1>8 DEF Stream, PeersInOrder
        <2>3. m.peer = fresh
            BY <1>5, <2>1, <2>2
        <2>4. u.peers = Append(w.peers, fresh)
            BY <1>8, <2>3
        <2>5. w.peers \in Seq(Nat) /\ \A i \in DOMAIN w.peers : w.peers[i] = i - 1
            BY DEF View, Stream, PeersInOrder
        <2>6. /\ Len(u.peers) = fresh + 1
              /\ \A i \in DOMAIN u.peers : u.peers[i] = i - 1
            <3> PICK s : s = w.peers
                OBVIOUS
            <3>1. s \in Seq(Nat) /\ Len(s) = fresh /\ \A i \in 1 .. fresh : s[i] = i - 1
                BY <1>5, <2>5
            <3> PICK t : t = Append(s, fresh)
                OBVIOUS
            <3>2. /\ Len(t) = fresh + 1 /\ DOMAIN t = 1 .. fresh + 1
                  /\ \A i \in 1 .. fresh : t[i] = s[i]
                  /\ t[fresh + 1] = fresh
                BY <1>5, <3>1
            <3>3. \A i \in 1 .. fresh + 1 : i \in 1 .. fresh \/ i = fresh + 1
                BY <1>5
            <3>4. (fresh + 1) - 1 = fresh
                BY <1>5
            <3>5. \A i \in DOMAIN t : t[i] = i - 1
                BY <3>1, <3>2, <3>3, <3>4
            <3>6. u.peers = t
                BY <2>4
            <3> QED
                BY <3>2, <3>5, <3>6
        <2>7. fresh + 1 <= count
            BY <1>5, <2>2, <2>3
        <2>8. ASSUME NEW k \in DOMAIN r, r[k].kind = "peer"
              PROVE  /\ r[k].peer >= fresh + 1 /\ r[k].peer < count
                     /\ \A j \in DOMAIN r : r[j] = r[k] => j = k
                     /\ r[k].peer > fresh + 1 =>
                          \E j \in DOMAIN r : j < k /\ r[j] = PeerMessage(r[k].peer - 1)
            <3> PICK p : p = r[k].peer
                OBVIOUS
            <3>1. p \in Nat /\ r[k] = PeerMessage(p)
                BY <1>3, <2>8 DEF Message, PeerMessage
            <3>2. k \in Nat /\ k + 1 \in DOMAIN q /\ q[k + 1] = r[k] /\ k + 1 # 1
                BY <1>1
            <3>3. /\ p >= fresh /\ p < count
                  /\ \A j \in DOMAIN q : q[j] = r[k] => j = k + 1
                  /\ p > fresh => \E j \in DOMAIN q : j < k + 1 /\ q[j] = PeerMessage(p - 1)
                BY <2>8, <3>2 DEF Stream, PeersInOrder
            <3>4. p # fresh
                BY <1>1, <2>1, <2>3, <3>1, <3>2, <3>3
            <3>5. p >= fresh + 1
                BY <1>5, <3>1, <3>3, <3>4
            <3>6. ASSUME NEW j \in DOMAIN r, r[j] = r[k]
                  PROVE  j = k
                <4>1. j \in Nat /\ j + 1 = k + 1
                    BY <1>1, <3>3, <3>6
                <4> QED
                    BY <3>2, <4>1
            <3>7. ASSUME p > fresh + 1
                  PROVE  \E j \in DOMAIN r : j < k /\ r[j] = PeerMessage(p - 1)
                <4>1. p > fresh /\ p - 1 # fresh
                    BY <1>5, <3>1, <3>7
                <4>2. PICK j \in DOMAIN q : j < k + 1 /\ q[j] = PeerMessage(p - 1)
                    BY <3>3, <4>1
                <4>3. PeerMessage(p - 1).peer = p - 1 /\ PeerMessage(fresh).peer = fresh
                    BY DEF PeerMessage
                <4>4. j # 1
                    BY <2>1, <2>3, <4>1, <4>2, <4>3
                <4>5. j \in Nat /\ j - 1 \in DOMAIN r /\ r[j - 1] = PeerMessage(p - 1)
                    BY <1>1, <4>2, <4>4
                <4>6. j - 1 < k
                    BY <3>2, <4>2, <4>5
                <4> QED
                    BY <4>5, <4>6
            <3> QED
                BY <3>3, <3>5, <3>6, <3>7
        <2>9. ASSUME NEW i \in 0 .. count - 1, ~(i < fresh + 1)
              PROVE  \E k \in DOMAIN r : r[k] = PeerMessage(i)
            <3>1. ~(i < fresh) /\ i # fresh
                BY <1>5, <2>9
            <3>2. PICK k \in DOMAIN q : q[k] = PeerMessage(i)
                BY <3>1 DEF Stream, PeersInOrder
            <3>3. PeerMessage(i).peer = i /\ PeerMessage(fresh).peer = fresh
                BY DEF PeerMessage
            <3>4. k # 1
                BY <2>1, <2>3, <3>1, <3>2, <3>3
            <3>5. k - 1 \in DOMAIN r /\ r[k - 1] = PeerMessage(i)
                BY <1>1, <3>2, <3>4
            <3> QED
                BY <3>5
        <2>10. PeersInOrder(r, u, count)
            BY <2>6, <2>7, <2>8, <2>9 DEF PeersInOrder
        <2>11. PeersBefore(r, u, count)
            <3> SUFFICES ASSUME NEW k \in DOMAIN r, IsContent(r[k])
                         PROVE  /\ r[k].peer < count
                                /\ \/ r[k].peer < fresh + 1
                                   \/ \E j \in DOMAIN r : j < k /\ r[j] = PeerMessage(r[k].peer)
                BY <2>6 DEF PeersBefore
            <3> PICK p : p = r[k].peer
                OBVIOUS
            <3>1. p \in Nat
                BY <1>3 DEF Message, IsContent
            <3>2. k \in Nat /\ k + 1 \in DOMAIN q /\ q[k + 1] = r[k]
                BY <1>1
            <3>3. /\ p < count
                  /\ p < fresh \/ \E j \in DOMAIN q : j < k + 1 /\ q[j] = PeerMessage(p)
                BY <3>2 DEF Stream, PeersBefore
            <3>4. CASE p < fresh + 1
                BY <3>3, <3>4
            <3>5. CASE ~(p < fresh + 1)
                <4>1. ~(p < fresh) /\ p # fresh
                    BY <1>5, <3>1, <3>5
                <4>2. PICK j \in DOMAIN q : j < k + 1 /\ q[j] = PeerMessage(p)
                    BY <3>3, <4>1
                <4>3. PeerMessage(p).peer = p /\ PeerMessage(fresh).peer = fresh
                    BY DEF PeerMessage
                <4>4. j # 1
                    BY <2>1, <2>3, <4>1, <4>2, <4>3
                <4>5. j \in Nat /\ j - 1 \in DOMAIN r /\ r[j - 1] = PeerMessage(p)
                    BY <1>1, <4>2, <4>4
                <4>6. j - 1 < k
                    BY <3>2, <4>2, <4>5
                <4> QED
                    BY <3>3, <4>5, <4>6
            <3> QED
                BY <3>4, <3>5
        <2> QED
            BY <1>6, <1>7, <2>10, <2>11 DEF Stream
    <1>9. CASE m.kind # "peer"
        <2>1. u.peers = w.peers
            BY <1>9
        <2>2. \A i : PeerMessage(i) # m
            BY <1>9 DEF PeerMessage
        <2>3. ASSUME NEW k \in DOMAIN r, NEW i,
                     \E j \in DOMAIN q : j < k + 1 /\ q[j] = PeerMessage(i)
              PROVE  \E j \in DOMAIN r : j < k /\ r[j] = PeerMessage(i)
            <3>1. PICK j \in DOMAIN q : j < k + 1 /\ q[j] = PeerMessage(i)
                BY <2>3
            <3>2. j # 1
                BY <2>2, <3>1
            <3>3. j \in Nat /\ j - 1 \in DOMAIN r /\ r[j - 1] = PeerMessage(i)
                BY <1>1, <3>1, <3>2
            <3>4. j - 1 < k
                BY <1>1, <3>1, <3>3
            <3> QED
                BY <3>3, <3>4
        <2>4. ASSUME NEW k \in DOMAIN r, r[k].kind = "peer"
              PROVE  /\ r[k].peer >= fresh /\ r[k].peer < count
                     /\ \A j \in DOMAIN r : r[j] = r[k] => j = k
                     /\ r[k].peer > fresh =>
                          \E j \in DOMAIN r : j < k /\ r[j] = PeerMessage(r[k].peer - 1)
            <3>1. k \in Nat /\ k + 1 \in DOMAIN q /\ q[k + 1] = r[k]
                BY <1>1
            <3>2. /\ r[k].peer >= fresh /\ r[k].peer < count
                  /\ \A j \in DOMAIN q : q[j] = r[k] => j = k + 1
                  /\ r[k].peer > fresh =>
                       \E j \in DOMAIN q : j < k + 1 /\ q[j] = PeerMessage(r[k].peer - 1)
                BY <2>4, <3>1 DEF Stream, PeersInOrder
            <3>3. ASSUME NEW j \in DOMAIN r, r[j] = r[k]
                  PROVE  j = k
                <4>1. j \in Nat /\ j + 1 = k + 1
                    BY <1>1, <3>2, <3>3
                <4> QED
                    BY <3>1, <4>1
            <3> QED
                BY <2>3, <3>2, <3>3
        <2>5. ASSUME NEW i \in 0 .. count - 1, ~(i < fresh)
              PROVE  \E k \in DOMAIN r : r[k] = PeerMessage(i)
            <3>1. PICK k \in DOMAIN q : q[k] = PeerMessage(i)
                BY <2>5 DEF Stream, PeersInOrder
            <3>2. k # 1
                BY <2>2, <3>1
            <3>3. k - 1 \in DOMAIN r /\ r[k - 1] = PeerMessage(i)
                BY <1>1, <3>1, <3>2
            <3> QED
                BY <3>3
        <2>6. PeersInOrder(r, u, count)
            <3>1. Len(w.peers) <= count /\ \A i \in DOMAIN w.peers : w.peers[i] = i - 1
                BY DEF Stream, PeersInOrder
            <3> QED
                BY <2>1, <2>4, <2>5, <3>1 DEF PeersInOrder
        <2>7. PeersBefore(r, u, count)
            <3>1. ASSUME NEW k \in DOMAIN r, IsContent(r[k])
                  PROVE  /\ r[k].peer < count
                         /\ \/ r[k].peer < fresh
                            \/ \E j \in DOMAIN r : j < k /\ r[j] = PeerMessage(r[k].peer)
                <4>1. k + 1 \in DOMAIN q /\ q[k + 1] = r[k]
                    BY <1>1
                <4>2. /\ r[k].peer < count
                      /\ \/ r[k].peer < fresh
                         \/ \E j \in DOMAIN q : j < k + 1 /\ q[j] = PeerMessage(r[k].peer)
                    BY <3>1, <4>1 DEF Stream, PeersBefore
                <4> QED
                    BY <2>3, <4>2
            <3> QED
                BY <2>1, <3>1 DEF PeersBefore
        <2> QED
            BY <1>6, <1>7, <2>6, <2>7 DEF Stream
    <1> QED
        BY <1>8, <1>9

-----------------------------------------------------------------------------
\* The first message of a stream is about what the visualizer knows.
LEMMA HeadIsDeclared ==
    ASSUME NEW v \in Visualizer, NEW count \in Nat, toVisualizer[v] \in Seq(Message),
           toVisualizer[v] # <<>>, view[v] \in View, Stream(toVisualizer[v], view[v], count)
    PROVE  Declared(v, Head(toVisualizer[v]))
    <1> PICK q : q = toVisualizer[v]
        OBVIOUS
    <1> PICK w : w = view[v]
        OBVIOUS
    <1> PICK m : m = q[1]
        OBVIOUS
    <1>1. Head(q) = m /\ m \in Message /\ 1 \in DOMAIN q /\ \A k \in DOMAIN q : ~(k < 1)
        BY TailFacts
    <1>2. FileCount \in Nat /\ FileCount > 0
        BY FileCountIsPositive
    <1>3. CASE IsContent(m)
        <2>1. m.file \in Nat /\ m.peer \in Nat /\ m.file < FileCount
            BY <1>1, <1>3 DEF Message, IsContent, Stream, FilesBefore
        <2>2. m.file \in 0 .. FileCount - 1
            BY <1>2, <2>1
        <2>3. m.file \in w.files
            BY <1>1, <1>3, <2>2 DEF Stream, FilesBefore
        <2>4. m.peer < Len(w.peers)
            BY <1>1, <1>3 DEF Stream, PeersBefore
        <2>5. w.peers \in Seq(Nat) /\ \A i \in DOMAIN w.peers : w.peers[i] = i - 1
            BY DEF View, Stream, PeersInOrder
        <2>6. m.peer + 1 \in DOMAIN w.peers /\ (m.peer + 1) - 1 = m.peer
            <3> PICK l : l = Len(w.peers)
                OBVIOUS
            <3> PICK i : i = m.peer
                OBVIOUS
            <3>1. DOMAIN w.peers = 1 .. l /\ l \in Nat
                BY <2>5
            <3>2. i \in Nat /\ i < l
                BY <2>1, <2>4
            <3>3. i + 1 \in 1 .. l /\ (i + 1) - 1 = i
                BY <3>1, <3>2
            <3> QED
                BY <3>1, <3>3
        <2>7. w.peers[m.peer + 1] = m.peer
            BY <2>5, <2>6
        <2> QED
            BY <1>1, <1>3, <2>3, <2>4, <2>6, <2>7 DEF Declared, IsContent
    <1>4. CASE m.kind \in {"file", "peer"}
        <2>1. w.torrent = FileCount
            BY <1>1, <1>4 DEF Stream, TorrentFirst
        <2>2. m.kind = "file" => m.file < FileCount /\ m.file \in Nat
            BY <1>1 DEF Stream, FilesBefore, Message
        <2>3. m.kind = "file" => w.torrent > m.file
            BY <1>2, <2>1, <2>2
        <2>4. w.torrent > 0
            BY <1>2, <2>1
        <2> QED
            BY <1>1, <1>4, <2>3, <2>4 DEF Declared
    <1>5. CASE m.kind \in {"torrent", "reset"}
        BY <1>1, <1>5 DEF Declared
    <1>6. m.kind \in {"torrent", "file", "peer", "chunk", "segment", "reset"}
        BY <1>1 DEF Message
    <1> QED
        BY <1>3, <1>4, <1>5, <1>6 DEF IsContent

\* What a visualizer knows after a message.
LEMMA ViewFacts ==
    ASSUME NEW v \in Visualizer, view[v] \in View, NEW m \in Message, m.kind # "reset"
    PROVE  LET w == view[v] u == ViewAfter(v, m) IN
           /\ u \in View
           /\ m.kind = "torrent" =>
                /\ u.torrent = m.files
                /\ w.files = {} /\ w.peers = <<>> => u.files = {} /\ u.peers = <<>>
           /\ m.kind # "torrent" =>
                /\ u.torrent = w.torrent
                /\ u.files = IF m.kind = "file" THEN w.files \cup {m.file} ELSE w.files
                /\ u.peers = IF m.kind = "peer" THEN Append(w.peers, m.peer) ELSE w.peers
    <1> PICK w : w = view[v]
        OBVIOUS
    <1> PICK u : u = ViewAfter(v, m)
        OBVIOUS
    <1>1. /\ w.torrent \in Nat /\ w.files \in SUBSET Nat /\ w.peers \in Seq(Nat)
          /\ w = [torrent |-> w.torrent, files |-> w.files, peers |-> w.peers]
        BY DEF View
    <1>2. CASE m.kind = "torrent"
        <2>1. m.files \in Nat
            BY <1>2 DEF Message
        <2>2. CASE v \in CppVisualizer
            <3>1. u = [torrent |-> m.files, files |-> {}, peers |-> <<>>]
                BY <1>2, <2>2 DEF ViewAfter
            <3>2. <<>> \in Seq(Nat)
                OBVIOUS
            <3>3. u.torrent = m.files /\ u.files = {} /\ u.peers = <<>>
                BY <3>1
            <3>4. u \in View
                BY <2>1, <3>1, <3>2 DEF View
            <3> QED
                BY <1>2, <3>3, <3>4
        <2>3. CASE v \notin CppVisualizer
            <3>1. u = [w EXCEPT !.torrent = m.files]
                BY <1>2, <2>3 DEF ViewAfter
            <3>2. u = [torrent |-> m.files, files |-> w.files, peers |-> w.peers]
                BY <1>1, <3>1
            <3>3. u.torrent = m.files /\ u.files = w.files /\ u.peers = w.peers
                BY <3>2
            <3>4. u \in View
                BY <1>1, <2>1, <3>2 DEF View
            <3> QED
                BY <1>2, <3>3, <3>4
        <2> QED
            BY <2>2, <2>3
    <1>3. CASE m.kind = "file"
        <2>1. m.file \in Nat
            BY <1>3 DEF Message
        <2>2. u = [w EXCEPT !.files = @ \cup {m.file}]
            BY <1>3 DEF ViewAfter
        <2>3. u = [torrent |-> w.torrent, files |-> w.files \cup {m.file}, peers |-> w.peers]
            BY <1>1, <2>2
        <2>4. u.torrent = w.torrent /\ u.files = w.files \cup {m.file} /\ u.peers = w.peers
            BY <2>3
        <2>5. u \in View
            BY <1>1, <2>1, <2>3 DEF View
        <2> QED
            BY <1>3, <2>4, <2>5
    <1>4. CASE m.kind = "peer"
        <2>1. m.peer \in Nat
            BY <1>4 DEF Message
        <2>2. u = [w EXCEPT !.peers = Append(@, m.peer)]
            BY <1>4 DEF ViewAfter
        <2>3. u = [torrent |-> w.torrent, files |-> w.files, peers |-> Append(w.peers, m.peer)]
            BY <1>1, <2>2
        <2>4. /\ u.torrent = w.torrent /\ u.files = w.files
              /\ u.peers = Append(w.peers, m.peer)
            BY <2>3
        <2>5. Append(w.peers, m.peer) \in Seq(Nat)
            BY <1>1, <2>1
        <2>6. u \in View
            BY <1>1, <2>3, <2>5 DEF View
        <2> QED
            BY <1>4, <2>4, <2>6
    <1>5. CASE m.kind \notin {"torrent", "file", "peer"}
        <2>1. u = w
            BY <1>5 DEF ViewAfter
        <2> QED
            BY <1>5, <2>1
    <1> QED
        BY <1>2, <1>3, <1>4, <1>5

\* get_player_for_peer gives a known peer its number and a new one the next.
LEMMA PlayerFacts ==
    ASSUME players \in Seq(Address), NEW a \in Address
    PROVE  /\ PlayersWith(a) \in Seq(Address)
           /\ PlayerId(a) \in Nat /\ PlayerId(a) < Len(PlayersWith(a))
           /\ \/ PlayersWith(a) = players /\ NewPeer(a) = <<>>
              \/ /\ Len(PlayersWith(a)) = Len(players) + 1
                 /\ NewPeer(a) = <<PeerMessage(Len(players))>>
    <1> PICK s : s = PlayersWith(a)
        OBVIOUS
    <1> PICK n : n = Len(players)
        OBVIOUS
    <1>1. n \in Nat /\ DOMAIN players = 1 .. n
        OBVIOUS
    <1>2. CASE \E i \in DOMAIN players : players[i] = a
        <2>1. s = players
            BY <1>2 DEF PlayersWith
        <2> PICK i : i = CHOOSE k \in DOMAIN s : s[k] = a
            OBVIOUS
        <2>2. i \in 1 .. n
            BY <1>1, <1>2, <2>1
        <2>3. PlayerId(a) = i - 1
            BY DEF PlayerId
        <2>4. PlayerId(a) \in Nat /\ PlayerId(a) < n
            BY <1>1, <2>2, <2>3
        <2>5. NewPeer(a) = <<>>
            BY <2>1 DEF NewPeer
        <2> QED
            BY <2>1, <2>4, <2>5
    <1>3. CASE ~\E i \in DOMAIN players : players[i] = a
        <2>1. s = Append(players, a)
            BY <1>3 DEF PlayersWith
        <2>2. /\ s \in Seq(Address) /\ Len(s) = n + 1 /\ DOMAIN s = 1 .. n + 1
              /\ s[n + 1] = a /\ \A k \in 1 .. n : s[k] = players[k]
            BY <1>1, <2>1
        <2> PICK i : i = CHOOSE k \in DOMAIN s : s[k] = a
            OBVIOUS
        <2>3. n + 1 \in DOMAIN s
            BY <1>1, <2>2
        <2>4. i \in DOMAIN s /\ s[i] = a
            BY <2>2, <2>3
        <2>5. i = n + 1
            <3>1. i \notin 1 .. n
                BY <1>1, <1>3, <2>2, <2>4
            <3>2. i \in 1 .. n + 1
                BY <2>2, <2>4
            <3> QED
                BY <1>1, <3>1, <3>2
        <2>6. PlayerId(a) = n
            <3>1. PlayerId(a) = i - 1
                BY DEF PlayerId
            <3> QED
                BY <1>1, <2>5, <3>1
        <2>7. s # players
            BY <1>1, <2>2
        <2>8. NewPeer(a) = <<PeerMessage(n)>>
            BY <2>6, <2>7 DEF NewPeer
        <2>9. n < n + 1
            BY <1>1
        <2> QED
            BY <1>1, <2>2, <2>6, <2>8, <2>9
    <1> QED
        BY <1>2, <1>3

-----------------------------------------------------------------------------
\* What a visualizer was sent and has received.  One that was not informed has
\* been sent nothing, and one that has received /reset is sent nothing more.
Untold(v) == toVisualizer[v] = <<>> /\ view[v] = NoView /\ players = <<>>
Told(v) == /\ Stream(toVisualizer[v], view[v], Len(players))
           /\ ResetIsLast(toVisualizer[v])
           /\ phase # "over" => NoReset(toVisualizer[v])
Over(v) == phase = "over" /\ toVisualizer[v] = <<>>

Inv ==
    /\ session \in Nat /\ session >= 1
    /\ session = 1 =>
         /\ players \in Seq(Address)
         /\ toVisualizer \in [Visualizer -> Seq(Message)]
         /\ view \in [Visualizer -> View]
         /\ phase \notin {"playing", "over"} => informed = {}
         /\ \A v \in Visualizer : IF v \in informed THEN Told(v) \/ Over(v) ELSE Untold(v)

LEMMA InitInv == Init => Inv
    <1> SUFFICES ASSUME Init
                 PROVE  Inv
        OBVIOUS
    <1>1. session \in Nat /\ session >= 1 /\ phase = "waiting" /\ informed = {} /\ players = <<>>
        BY DEF Init
    <1>2. players \in Seq(Address)
        BY <1>1
    <1>3. toVisualizer \in [Visualizer -> Seq(Message)]
        BY DEF Init
    <1>4. NoView \in View
        BY DEF NoView, View
    <1>5. view \in [Visualizer -> View] /\ \A v \in Visualizer : view[v] = NoView
        BY <1>4 DEF Init, NoView
    <1>6. \A v \in Visualizer : Untold(v)
        BY <1>1, <1>5 DEF Init, Untold
    <1> QED
        BY <1>1, <1>2, <1>3, <1>5, <1>6 DEF Inv

\* Whoever is told of an event has been told of the torrent.
LEMMA InformedFirst ==
    ASSUME Inv, session = 1, phase = "playing", NEW v \in Visualizer,
           NEW q, q = toVisualizer[v] \o TorrentInfo(v)
    PROVE  q \in Seq(Message) /\ Stream(q, view[v], Len(players)) /\ NoReset(q)
    <1>1. toVisualizer[v] \in Seq(Message)
        BY DEF Inv
    <1>2. CASE v \in informed
        <2>1. q = toVisualizer[v]
            <3>1. TorrentInfo(v) = <<>>
                BY <1>2 DEF TorrentInfo
            <3> QED
                BY <1>1, <3>1
        <2>2. Told(v)
            BY <1>2 DEF Inv, Over
        <2> QED
            BY <1>1, <2>1, <2>2 DEF Told
    <1>3. CASE v \notin informed
        <2>1. Untold(v)
            BY <1>3 DEF Inv
        <2> PICK s : s = <<Torrent(FileCount)>> \o [i \in 1 .. FileCount |-> File(i - 1)]
            OBVIOUS
        <2>2. s \in Seq(Message) /\ Stream(s, NoView, 0) /\ NoReset(s)
            BY StreamBegins
        <2>3. TorrentInfo(v) = s
            BY <1>3 DEF TorrentInfo, FileCount
        <2>4. q = s
            BY <2>1, <2>2, <2>3 DEF Untold
        <2>5. view[v] = NoView /\ Len(players) = 0
            BY <2>1 DEF Untold
        <2> QED
            BY <2>2, <2>4, <2>5
    <1> QED
        BY <1>2, <1>3

LEMMA PlayEventInv ==
    ASSUME Inv, session = 1, PlayEvent
    PROVE  Inv'
    <1> PICK e : e = Score[1][position]
        OBVIOUS
    <1> PICK a : a = e.peer
        OBVIOUS
    <1> PICK id : id = PlayerId(a)
        OBVIOUS
    <1> PICK c : c = Content(e, id)
        OBVIOUS
    <1> PICK msgs : msgs = Append(NewPeer(a), c)
        OBVIOUS
    <1>1. /\ phase = "playing" /\ phase' = phase /\ session' = session /\ view' = view
          /\ players' = PlayersWith(a)
          /\ toVisualizer' = [v \in Visualizer |-> toVisualizer[v] \o TorrentInfo(v) \o msgs]
          /\ informed' = Visualizer
          /\ position \in DOMAIN Score[1]
        BY DEF PlayEvent, TellVisualizers, visualizerVars
    <1>2. /\ players \in Seq(Address) /\ toVisualizer \in [Visualizer -> Seq(Message)]
          /\ view \in [Visualizer -> View]
        BY DEF Inv
    <1>3. /\ e.kind \in {"chunk", "segment"} /\ e.id \in Nat /\ e.file \in Nat
          /\ e.file < FileCount /\ a \in Address
        <2>1. 1 \in Session /\ Session = DOMAIN Score
            BY FileCountIsPositive DEF Session
        <2>2. Score[1] \in Seq([kind : {"chunk", "segment"}, id : Nat, file : Nat, peer : STRING])
            BY <2>1, ScoreAssumption
        <2>3. e \in [kind : {"chunk", "segment"}, id : Nat, file : Nat, peer : STRING]
            BY <1>1, <2>2, Element
        <2>4. e.file < FileCount
            BY <1>1, <2>1, ScoreAssumption DEF FileCount
        <2>5. a \in Address
            BY <1>1, <2>1 DEF Address, Event
        <2> QED
            BY <2>3, <2>4, <2>5
    <1> PICK n : n = Len(players)
        OBVIOUS
    <1> PICK count : count = Len(PlayersWith(a))
        OBVIOUS
    <1>4. /\ PlayersWith(a) \in Seq(Address) /\ id \in Nat /\ id < count
          /\ \/ count = n /\ NewPeer(a) = <<>>
             \/ count = n + 1 /\ NewPeer(a) = <<PeerMessage(n)>>
          /\ n \in Nat /\ count \in Nat
        <2>1. /\ PlayersWith(a) \in Seq(Address)
              /\ PlayerId(a) \in Nat /\ PlayerId(a) < Len(PlayersWith(a))
              /\ \/ PlayersWith(a) = players /\ NewPeer(a) = <<>>
                 \/ /\ Len(PlayersWith(a)) = Len(players) + 1
                    /\ NewPeer(a) = <<PeerMessage(Len(players))>>
            BY <1>2, <1>3, PlayerFacts
        <2>2. n \in Nat /\ count \in Nat
            BY <1>2, <2>1
        <2> QED
            BY <2>1, <2>2
    <1>5. /\ c \in Message /\ IsContent(c) /\ c.file < FileCount /\ c.peer < count
          /\ c.kind # "reset"
        <2>1. c = [kind |-> e.kind, id |-> e.id, file |-> e.file, peer |-> id]
            BY DEF Content
        <2>2. c.kind = e.kind /\ c.file = e.file /\ c.peer = id
            BY <2>1
        <2>3. c \in [kind : {"chunk", "segment"}, id : Nat, file : Nat, peer : Nat]
            BY <1>3, <1>4, <2>1
        <2> QED
            BY <1>3, <1>4, <2>2, <2>3 DEF Message, IsContent
    <1>6. ASSUME NEW v \in Visualizer
          PROVE  toVisualizer'[v] \in Seq(Message) /\ Told(v)'
        <2> PICK q : q = toVisualizer[v] \o TorrentInfo(v)
            OBVIOUS
        <2> PICK w : w = view[v]
            OBVIOUS
        <2>1. q \in Seq(Message) /\ Stream(q, w, n) /\ NoReset(q) /\ w \in View
            BY <1>1, <1>2, InformedFirst
        <2>2. toVisualizer'[v] = q \o msgs
            BY <1>1
        <2> PICK p : p = PeerMessage(n)
            OBVIOUS
        <2>3. p \in Message /\ p.kind = "peer"
            BY <1>4 DEF PeerMessage, Message
        <2> PICK s : s = IF NewPeer(a) = <<>> THEN q ELSE Append(q, p)
            OBVIOUS
        <2>4. s \in Seq(Message) /\ Stream(s, w, count) /\ NoReset(s)
            <3>1. CASE count = n /\ NewPeer(a) = <<>>
                BY <2>1, <3>1
            <3>2. CASE count = n + 1 /\ NewPeer(a) = <<p>>
                <4>1. s = Append(q, p)
                    BY <3>2
                <4>2. Stream(s, w, count)
                    BY <1>4, <2>1, <3>2, <4>1, StreamPeer
                <4>3. s \in Seq(Message) /\ NoReset(s)
                    <5>1. p.kind # "reset"
                        BY <2>3
                    <5> QED
                        BY <2>1, <2>3, <4>1, <5>1, AppendReset
                <4> QED
                    BY <4>2, <4>3
            <3> QED
                BY <1>4, <3>1, <3>2
        <2>5. q \o msgs = Append(s, c)
            <3>1. CASE NewPeer(a) = <<>>
                <4>1. msgs = <<c>> /\ s = q
                    BY <1>5, <2>1, <3>1, AppendedOne
                <4>2. q \o <<c>> = Append(q, c)
                    BY <1>5, <2>1, AppendedOne
                <4> QED
                    BY <4>1, <4>2
            <3>2. CASE NewPeer(a) = <<p>>
                <4>1. s = Append(q, p)
                    BY <3>2
                <4>2. msgs = Append(<<p>>, c)
                    BY <3>2
                <4>3. q \o Append(<<p>>, c) = Append(Append(q, p), c)
                    BY <1>5, <2>1, <2>3, AppendedTwo
                <4> QED
                    BY <4>1, <4>2, <4>3
            <3> QED
                BY <1>4, <3>1, <3>2
        <2> PICK r : r = Append(s, c)
            OBVIOUS
        <2>6. Stream(r, w, count)
            BY <1>4, <1>5, <2>1, <2>4, StreamContent
        <2>7. r \in Seq(Message) /\ NoReset(r)
            BY <1>5, <2>4, AppendReset
        <2>8. ResetIsLast(r)
            BY <2>7 DEF NoReset, ResetIsLast
        <2>9. toVisualizer'[v] = r /\ view'[v] = w /\ Len(players') = count
            BY <1>1, <2>2, <2>5
        <2> QED
            BY <2>6, <2>7, <2>8, <2>9 DEF Told
    <1>7. toVisualizer' \in [Visualizer -> Seq(Message)]
        BY <1>1, <1>6
    <1> QED
        BY <1>1, <1>2, <1>4, <1>6, <1>7 DEF Inv

LEMMA CompletePlaybackInv ==
    ASSUME Inv, session = 1, CompletePlayback
    PROVE  Inv'
    <1>1. CASE session + 1 \in Session
        <2>1. session' = 2
            BY <1>1 DEF CompletePlayback
        <2> QED
            BY <2>1 DEF Inv
    <1>2. CASE session + 1 \notin Session
        <2>1. /\ phase = "playing" /\ phase' = "over" /\ session' = session /\ view' = view
              /\ players' = players /\ informed' = Visualizer
              /\ toVisualizer' =
                   [v \in Visualizer |-> toVisualizer[v] \o TorrentInfo(v) \o <<Reset>>]
            BY <1>2 DEF CompletePlayback, TellVisualizers, visualizerVars
        <2>2. players \in Seq(Address) /\ view \in [Visualizer -> View]
            BY DEF Inv
        <2> PICK m : m = Reset
            OBVIOUS
        <2>3. m \in Message /\ m.kind = "reset"
            BY DEF Reset, Message
        <2>4. ASSUME NEW v \in Visualizer
              PROVE  toVisualizer'[v] \in Seq(Message) /\ Told(v)'
            <3> PICK q : q = toVisualizer[v] \o TorrentInfo(v)
                OBVIOUS
            <3> PICK w : w = view[v]
                OBVIOUS
            <3> PICK n : n = Len(players)
                OBVIOUS
            <3>1. /\ q \in Seq(Message) /\ Stream(q, w, n) /\ NoReset(q) /\ w \in View
                  /\ n \in Nat
                <4>1. n \in Nat /\ w \in View
                    BY <2>2
                <4>2. q \in Seq(Message) /\ Stream(q, w, n) /\ NoReset(q)
                    BY <2>1, InformedFirst
                <4> QED
                    BY <4>1, <4>2
            <3> PICK r : r = Append(q, m)
                OBVIOUS
            <3>2. toVisualizer'[v] = r
                <4>1. toVisualizer'[v] = q \o <<m>>
                    BY <2>1
                <4> QED
                    BY <2>3, <3>1, <4>1, AppendedOne
            <3>3. Stream(r, w, n)
                BY <2>3, <3>1, StreamContent
            <3>4. r \in Seq(Message) /\ ResetIsLast(r)
                BY <2>3, <3>1, AppendReset
            <3> QED
                BY <2>1, <3>2, <3>3, <3>4 DEF Told
        <2>5. toVisualizer' \in [Visualizer -> Seq(Message)]
            BY <2>1, <2>4
        <2> QED
            BY <2>1, <2>2, <2>4, <2>5 DEF Inv
    <1> QED
        BY <1>1, <1>2

LEMMA ReceiveInv ==
    ASSUME Inv, session = 1, NEW v \in Visualizer, Receive(v)
    PROVE  Inv'
    <1> PICK q : q = toVisualizer[v]
        OBVIOUS
    <1> PICK m : m = q[1]
        OBVIOUS
    <1> PICK w : w = view[v]
        OBVIOUS
    <1> PICK u : u = ViewAfter(v, m)
        OBVIOUS
    <1> PICK count : count = Len(players)
        OBVIOUS
    <1>1. /\ players \in Seq(Address) /\ toVisualizer \in [Visualizer -> Seq(Message)]
          /\ view \in [Visualizer -> View] /\ q \in Seq(Message) /\ w \in View
          /\ count \in Nat
        BY DEF Inv
    <1>2. /\ q # <<>> /\ toVisualizer' = [toVisualizer EXCEPT ![v] = Tail(q)]
          /\ phase' = phase /\ session' = session /\ informed' = informed /\ players' = players
        BY DEF Receive, mainVars
    <1>3. Head(q) = m /\ m \in Message /\ 1 \in DOMAIN q /\ Tail(q) \in Seq(Message)
        BY <1>1, <1>2, TailFacts
    <1>4. v \in informed /\ Told(v)
        BY <1>2 DEF Inv, Untold, Over
    <1>5. Declared(v, Head(q))
        BY <1>1, <1>2, <1>4, HeadIsDeclared DEF Told
    <1>6. view' = [view EXCEPT ![v] = u]
        BY <1>3, <1>5 DEF Receive
    <1>7. toVisualizer'[v] = Tail(q) /\ view'[v] = u
        BY <1>1, <1>2, <1>6
    <1>8. CASE m.kind = "reset"
        <2>1. phase = "over"
            BY <1>3, <1>4, <1>8 DEF Told, NoReset
        <2>2. Len(q) = 1
            BY <1>3, <1>4, <1>8 DEF Told, ResetIsLast
        <2>3. Tail(q) = <<>>
            <3> PICK r : r = Tail(q)
                OBVIOUS
            <3>1. r \in Seq(Message) /\ Len(r) = 0
                BY <1>1, <1>2, <2>2, TailFacts
            <3>2. r = <<>>
                BY <3>1
            <3> QED
                BY <3>2
        <2>4. Over(v)'
            BY <1>2, <1>7, <2>1, <2>3 DEF Over
        <2>5. u \in View
            <3> PICK torrent : torrent = IF v \in CppVisualizer THEN 0 ELSE w.torrent
                OBVIOUS
            <3>1. u = [torrent |-> torrent, files |-> {}, peers |-> <<>>]
                BY <1>8 DEF ViewAfter
            <3>2. torrent \in Nat /\ <<>> \in Seq(Nat)
                BY <1>1 DEF View
            <3> QED
                BY <3>1, <3>2 DEF View
        <2> QED
            BY <1>1, <1>2, <1>3, <1>4, <1>6, <2>4, <2>5 DEF Inv, Told, Over, Untold
    <1>9. CASE m.kind # "reset"
        <2>1. /\ u \in View
              /\ m.kind = "torrent" =>
                   /\ u.torrent = m.files
                   /\ w.files = {} /\ w.peers = <<>> => u.files = {} /\ u.peers = <<>>
              /\ m.kind # "torrent" =>
                   /\ u.torrent = w.torrent
                   /\ u.files = IF m.kind = "file" THEN w.files \cup {m.file} ELSE w.files
                   /\ u.peers = IF m.kind = "peer" THEN Append(w.peers, m.peer) ELSE w.peers
            BY <1>1, <1>3, <1>9, ViewFacts
        <2>2. Stream(q, w, count)
            BY <1>4 DEF Told
        <2>3. m.kind = "torrent" => m.files = FileCount /\ w.files = {} /\ w.peers = <<>>
            BY <1>3, <2>2 DEF Stream, TorrentFirst
        <2>4. /\ u.torrent = IF m.kind = "torrent" THEN FileCount ELSE w.torrent
              /\ u.files = IF m.kind = "file" THEN w.files \cup {m.file} ELSE w.files
              /\ u.peers = IF m.kind = "peer" THEN Append(w.peers, m.peer) ELSE w.peers
            BY <2>1, <2>3
        <2>5. Stream(Tail(q), u, count)
            BY <1>1, <1>2, <2>1, <2>2, <2>4, StreamReceive
        <2>6. ResetIsLast(Tail(q)) /\ (phase # "over" => NoReset(Tail(q)))
            <3> PICK r : r = Tail(q)
                OBVIOUS
            <3>1. /\ Len(q) \in Nat /\ Len(r) = Len(q) - 1
                  /\ \A k \in DOMAIN r : k \in Nat /\ k + 1 \in DOMAIN q /\ r[k] = q[k + 1]
                BY <1>1, <1>2, TailFacts
            <3>2. ASSUME NEW k \in DOMAIN r, r[k].kind = "reset"
                  PROVE  k = Len(r)
                <4>1. k \in Nat /\ k + 1 = Len(q)
                    BY <1>4, <3>1, <3>2 DEF Told, ResetIsLast
                <4> QED
                    BY <3>1, <4>1
            <3>3. phase # "over" => NoReset(r)
                BY <1>4, <3>1 DEF Told, NoReset
            <3> QED
                BY <3>2, <3>3 DEF ResetIsLast
        <2>7. Told(v)'
            BY <1>2, <1>7, <2>5, <2>6 DEF Told
        <2> QED
            BY <1>1, <1>2, <1>3, <1>4, <1>6, <2>1, <2>7 DEF Inv, Told, Over, Untold
    <1> QED
        BY <1>8, <1>9

\* The other steps tell the visualizers nothing.
LEMMA QuietInv ==
    ASSUME Inv, session = 1, UNCHANGED <<session, informed, players, toVisualizer, view>>,
           phase' = phase \/ (phase \notin {"playing", "over"} /\ phase' # "over")
    PROVE  Inv'
    <1>1. CASE phase' = phase
        BY <1>1 DEF Inv, Told, Over, Untold
    <1>2. CASE phase \notin {"playing", "over"} /\ phase' # "over"
        <2>1. informed = {} /\ informed' = {}
            BY <1>2 DEF Inv
        <2>2. \A v \in Visualizer : Untold(v)'
            BY <2>1 DEF Inv, Untold
        <2> QED
            BY <2>1, <2>2 DEF Inv
    <1> QED
        BY <1>1, <1>2

LEMMA FirstStepInv ==
    ASSUME Inv, session = 1, Next
    PROVE  Inv'
    <1>1. CASE PlayEvent
        BY <1>1, PlayEventInv
    <1>2. CASE CompletePlayback
        BY <1>2, CompletePlaybackInv
    <1>3. CASE \E v \in Visualizer : Receive(v)
        BY <1>3, ReceiveInv
    <1>4. CASE SetOrchestra
        <2>1. /\ informed = {} /\ informed' = {} /\ session' = session /\ phase' = "dispatching"
              /\ players' = <<>> /\ UNCHANGED <<toVisualizer, view>>
            BY <1>4 DEF SetOrchestra, visualizerVars, Inv
        <2>2. players' \in Seq(Address)
            BY <2>1
        <2>3. \A v \in Visualizer : Untold(v)'
            BY <2>1 DEF Inv, Untold
        <2> QED
            BY <2>1, <2>2, <2>3 DEF Inv
    <1>5. CASE AllRegistered \/ DispatchQueued \/ QueueDispatched \/ ClearQueue
        <2>1. /\ UNCHANGED <<session, informed, players, toVisualizer, view>>
              /\ phase' = phase \/ (phase \notin {"playing", "over"} /\ phase' # "over")
            BY <1>5 DEF AllRegistered, DispatchQueued, QueueDispatched, ClearQueue, mainVars,
                        visualizerVars
        <2> QED
            BY <2>1, QuietInv
    <1>6. CASE Serve
        <2>1. UNCHANGED <<session, informed, players, toVisualizer, view, phase>>
            BY <1>6 DEF Serve, HandleRegister, HandleEarly, AppendToQueue, HandleGreeting,
                        HandleVisualizing, Serves, mainVars, visualizerVars
        <2> QED
            BY <2>1, QuietInv
    <1>7. CASE \E v \in Visualizer : StartVisualizer(v) \/ Greet(v)
        <2>1. UNCHANGED <<session, informed, players, toVisualizer, view, phase>>
            BY <1>7 DEF StartVisualizer, Greet, mainVars
        <2> QED
            BY <2>1, QuietInv
    <1> QED
        BY <1>1, <1>2, <1>3, <1>4, <1>5, <1>6, <1>7 DEF Next, Main

LEMMA StepInv == Inv /\ [Next]_vars => Inv'
    <1> SUFFICES ASSUME Inv, [Next]_vars
                 PROVE  Inv'
        OBVIOUS
    <1>1. CASE session # 1
        <2>1. session' = session \/ session' = session + 1
            BY DEF Next, Main, Serve, AllRegistered, SetOrchestra, DispatchQueued,
                   QueueDispatched, ClearQueue, PlayEvent, CompletePlayback, HandleRegister,
                   HandleEarly, AppendToQueue, HandleGreeting, HandleVisualizing, Serves,
                   StartVisualizer, Greet, Receive, mainVars, vars
        <2>2. session' \in Nat /\ session' >= 1 /\ session' # 1
            BY <1>1, <2>1 DEF Inv
        <2> QED
            BY <2>2 DEF Inv
    <1>2. CASE session = 1 /\ Next
        BY <1>2, FirstStepInv
    <1>3. CASE session = 1 /\ UNCHANGED vars
        BY <1>3, QuietInv DEF vars
    <1> QED
        BY <1>1, <1>2, <1>3

LEMMA InvHolds == Spec => []Inv
    BY InitInv, StepInv, PTL DEF Spec

LEMMA DeclaredInFirstSession == Inv /\ session = 1 => DeclaredBeforeUse
    <1> SUFFICES ASSUME Inv, session = 1, NEW v \in Visualizer, toVisualizer[v] # <<>>
                 PROVE  Declared(v, Head(toVisualizer[v]))
        BY DEF DeclaredBeforeUse
    <1>1. Told(v)
        BY DEF Inv, Untold, Over
    <1>2. /\ toVisualizer[v] \in Seq(Message) /\ view[v] \in View
          /\ Len(players) \in Nat
        BY DEF Inv
    <1> QED
        BY <1>1, <1>2, HeadIsDeclared DEF Told

\* While the first session is played, whatever reaches a visualizer refers to a
\* file and a peer that it has been told of: the torrent's messages go out
\* before the first event, to whoever has not had them, and a peer's before
\* the first event of the peer.
THEOREM FirstSessionIsDeclared == Spec => [](session = 1 => DeclaredBeforeUse)
    <1>1. Inv => (session = 1 => DeclaredBeforeUse)
        BY DeclaredInFirstSession
    <1> QED
        BY <1>1, InvHolds, PTL

\* So when only one session is played, which is all play.py does, nothing ever
\* reaches a visualizer that refers to what it has not been told of.
THEOREM OneSessionIsDeclared ==
    ASSUME Len(Score) = 1
    PROVE  Spec => []DeclaredBeforeUse
    <1>1. Session = {1}
        BY ScoreAssumption DEF Session
    <1> DEFINE J == Inv /\ session = 1
    <1>2. Init => J
        BY InitInv DEF Init
    <1>3. J /\ [Next]_vars => J'
        <2> SUFFICES ASSUME J, [Next]_vars
                     PROVE  J'
            OBVIOUS
        <2>1. session + 1 \notin Session
            BY <1>1
        <2>2. session' = session
            BY <2>1 DEF Next, Main, Serve, AllRegistered, SetOrchestra, DispatchQueued,
                   QueueDispatched, ClearQueue, PlayEvent, CompletePlayback, HandleRegister,
                   HandleEarly, AppendToQueue, HandleGreeting, HandleVisualizing, Serves,
                   StartVisualizer, Greet, Receive, mainVars, vars
        <2> QED
            BY <2>2, StepInv
    <1>4. J => DeclaredBeforeUse
        BY DeclaredInFirstSession
    <1> QED
        BY <1>2, <1>3, <1>4, PTL DEF Spec

-----------------------------------------------------------------------------
\* The messages to the server and who sent them.
ToServer == [kind : {"register", "greeting"}, from : Visualizer]
                \cup [kind : {"visualizing"}, id : Nat]
Waiting(s, senders, current) ==
    /\ s \in Seq(ToServer)
    /\ \A k \in DOMAIN s : /\ s[k].kind = "greeting" => s[k].from \in senders
                           /\ s[k].kind = "visualizing" => current # 0

\* A visualizer that is registered, or about to be, is so once.
Registering(s, entries, running) ==
    /\ entries \in Seq(Visualizer)
    /\ \A j, k \in DOMAIN entries : entries[j] = entries[k] => j = k
    /\ \A k \in DOMAIN entries : entries[k] \in running
    /\ \A k \in DOMAIN s : s[k].kind = "register" =>
         /\ s[k].from \in running
         /\ \A i \in DOMAIN entries : entries[i] # s[k].from
         /\ \A j \in DOMAIN s : s[j] = s[k] => j = k

Places ==
    /\ phase \in {"waiting", "preparing", "dispatching", "clearing", "playing", "over"}
    /\ session \in Session /\ orchestra \in {0} \cup Session
    /\ orchestra = 0 => phase \in {"waiting", "preparing"} /\ \A v \in Visualizer : toVisualizer[v] = <<>>
    /\ toVisualizer \in [Visualizer -> Seq(Message)]
    /\ informed \subseteq Visualizer
    /\ players \in Seq(Address)
    /\ \A i, j \in DOMAIN players : players[i] = players[j] => i = j
    /\ position \in Nat
Handled ==
    /\ serving \in BOOLEAN
    /\ started \subseteq Visualizer /\ crashed \subseteq started
    /\ greeted \subseteq Greeter \cap started /\ heard \subseteq greeted
    /\ known \in [Session -> SUBSET Nat]
    /\ \A r \in asked : r[1] \in Session /\ r[2] \in known[r[1]]
Queues ==
    /\ Waiting(toServer, greeted, orchestra)
    /\ queue \in Seq(ToServer)
    /\ \A k \in DOMAIN queue : queue[k].kind = "greeting" /\ queue[k].from \in greeted
    /\ inHand # None => /\ inHand \in ToServer
                        /\ inHand.kind = "greeting" /\ inHand.from \in greeted
    /\ dispatched \in Nat
    /\ phase = "dispatching" => dispatched <= Len(queue)

Types == Places /\ Handled /\ Queues /\ Registering(toServer, registered, started)

LEMMA ServerAppend ==
    ASSUME NEW s \in Seq(ToServer), NEW m \in ToServer
    PROVE  /\ Append(s, m) \in Seq(ToServer) /\ Len(Append(s, m)) = Len(s) + 1 /\ Len(s) \in Nat
           /\ Len(s) + 1 \in DOMAIN Append(s, m) /\ Append(s, m)[Len(s) + 1] = m
           /\ \A k \in DOMAIN s : k \in DOMAIN Append(s, m) /\ Append(s, m)[k] = s[k]
                                  /\ k # Len(s) + 1
           /\ \A k \in DOMAIN Append(s, m) : k \in DOMAIN s \/ k = Len(s) + 1
    OBVIOUS

LEMMA ServerTail ==
    ASSUME NEW s \in Seq(ToServer), s # <<>>
    PROVE  /\ Tail(s) \in Seq(ToServer) /\ Head(s) \in ToServer
           /\ Head(s) = s[1] /\ 1 \in DOMAIN s
           /\ \A k \in DOMAIN Tail(s) :
                k \in Nat /\ k + 1 \in DOMAIN s /\ Tail(s)[k] = s[k + 1] /\ k + 1 # 1
    OBVIOUS

LEMMA WaitingTail ==
    ASSUME NEW s, s # <<>>, NEW senders, NEW current, Waiting(s, senders, current)
    PROVE  /\ Waiting(Tail(s), senders, current)
           /\ Head(s) \in ToServer
           /\ Head(s).kind = "greeting" => Head(s).from \in senders
           /\ Head(s).kind = "visualizing" => current # 0
    <1>1. s \in Seq(ToServer)
        BY DEF Waiting
    <1>2. /\ Tail(s) \in Seq(ToServer) /\ Head(s) \in ToServer
          /\ Head(s) = s[1] /\ 1 \in DOMAIN s
          /\ \A k \in DOMAIN Tail(s) : k + 1 \in DOMAIN s /\ Tail(s)[k] = s[k + 1]
        BY <1>1, ServerTail
    <1> QED
        BY <1>2 DEF Waiting

LEMMA WaitingAppend ==
    ASSUME NEW s, NEW senders, NEW current, Waiting(s, senders, current), NEW m \in ToServer,
           NEW others, senders \subseteq others,
           m.kind = "greeting" => m.from \in others,
           m.kind = "visualizing" => current # 0
    PROVE  Waiting(Append(s, m), others, current)
    <1>1. s \in Seq(ToServer)
        BY DEF Waiting
    <1> PICK r : r = Append(s, m)
        OBVIOUS
    <1> PICK l : l = Len(s) + 1
        OBVIOUS
    <1>2. /\ r \in Seq(ToServer) /\ r[l] = m
          /\ \A k \in DOMAIN s : r[k] = s[k]
          /\ \A k \in DOMAIN r : k \in DOMAIN s \/ k = l
        BY <1>1, ServerAppend
    <1> QED
        BY <1>2 DEF Waiting

LEMMA RegisteringTail ==
    ASSUME NEW s \in Seq(ToServer), s # <<>>, NEW entries, NEW running,
           Registering(s, entries, running)
    PROVE  Registering(Tail(s), entries, running)
    <1> PICK r : r = Tail(s)
        OBVIOUS
    <1>1. \A k \in DOMAIN r : k \in Nat /\ k + 1 \in DOMAIN s /\ r[k] = s[k + 1] /\ k + 1 # 1
        BY ServerTail
    <1>2. ASSUME NEW k \in DOMAIN r, r[k].kind = "register"
          PROVE  /\ r[k].from \in running
                 /\ \A i \in DOMAIN entries : entries[i] # r[k].from
                 /\ \A j \in DOMAIN r : r[j] = r[k] => j = k
        <2>1. k \in Nat /\ k + 1 \in DOMAIN s /\ s[k + 1] = r[k]
            BY <1>1
        <2>2. /\ r[k].from \in running
              /\ \A i \in DOMAIN entries : entries[i] # r[k].from
              /\ \A j \in DOMAIN s : s[j] = r[k] => j = k + 1
            BY <1>2, <2>1 DEF Registering
        <2>3. ASSUME NEW j \in DOMAIN r, r[j] = r[k]
              PROVE  j = k
            <3>1. j \in Nat /\ j + 1 = k + 1
                BY <1>1, <2>2, <2>3
            <3> QED
                BY <2>1, <3>1
        <2> QED
            BY <2>2, <2>3
    <1> QED
        BY <1>2 DEF Registering

\* /register makes an entry.
LEMMA RegisteringEntry ==
    ASSUME NEW s \in Seq(ToServer), s # <<>>, NEW entries, NEW running,
           Registering(s, entries, running), Head(s).kind = "register"
    PROVE  Registering(Tail(s), Append(entries, Head(s).from), running)
    <1> PICK r : r = Tail(s)
        OBVIOUS
    <1> PICK m : m = Head(s)
        OBVIOUS
    <1> PICK v : v = m.from
        OBVIOUS
    <1> PICK e : e = Append(entries, v)
        OBVIOUS
    <1> PICK l : l = Len(entries) + 1
        OBVIOUS
    <1>1. /\ m \in ToServer /\ m = s[1] /\ 1 \in DOMAIN s
          /\ \A k \in DOMAIN r : k \in Nat /\ k + 1 \in DOMAIN s /\ r[k] = s[k + 1] /\ k + 1 # 1
        BY ServerTail
    <1>2. v \in Visualizer /\ m = [kind |-> "register", from |-> v]
        BY <1>1 DEF ToServer
    <1>3. /\ v \in running
          /\ \A i \in DOMAIN entries : entries[i] # v
          /\ \A j \in DOMAIN s : s[j] = m => j = 1
        BY <1>1 DEF Registering
    <1>4. entries \in Seq(Visualizer)
        BY DEF Registering
    <1>5. /\ e \in Seq(Visualizer) /\ e[l] = v /\ l \in DOMAIN e
          /\ \A k \in DOMAIN entries : e[k] = entries[k] /\ k # l
          /\ \A k \in DOMAIN e : k \in DOMAIN entries \/ k = l
        BY <1>2, <1>4
    <1>6. \A j, k \in DOMAIN e : e[j] = e[k] => j = k
        BY <1>3, <1>5 DEF Registering
    <1>7. \A k \in DOMAIN e : e[k] \in running
        BY <1>3, <1>5 DEF Registering
    <1>8. Registering(r, entries, running)
        BY RegisteringTail
    <1>9. ASSUME NEW k \in DOMAIN r, r[k].kind = "register"
          PROVE  \A i \in DOMAIN e : e[i] # r[k].from
        <2>1. r[k] \in ToServer
            <3>1. r \in Seq(ToServer)
                BY ServerTail
            <3> QED
                BY <3>1
        <2>2. r[k] = [kind |-> "register", from |-> r[k].from]
            BY <1>9, <2>1 DEF ToServer
        <2>3. r[k] # m
            BY <1>1, <1>3
        <2>4. r[k].from # v
            BY <1>2, <2>2, <2>3
        <2>5. \A i \in DOMAIN entries : entries[i] # r[k].from
            BY <1>8, <1>9 DEF Registering
        <2> QED
            BY <1>5, <2>4, <2>5
    <1> QED
        BY <1>5, <1>6, <1>7, <1>8, <1>9 DEF Registering

LEMMA RegisteringOther ==
    ASSUME NEW s \in Seq(ToServer), NEW entries, NEW running, Registering(s, entries, running),
           NEW m \in ToServer, m.kind # "register"
    PROVE  Registering(Append(s, m), entries, running)
    <1> PICK r : r = Append(s, m)
        OBVIOUS
    <1> PICK l : l = Len(s) + 1
        OBVIOUS
    <1>1. /\ r[l] = m
          /\ \A k \in DOMAIN s : r[k] = s[k]
          /\ \A k \in DOMAIN r : k \in DOMAIN s \/ k = l
        BY ServerAppend
    <1>2. ASSUME NEW k \in DOMAIN r, r[k].kind = "register"
          PROVE  /\ r[k].from \in running
                 /\ \A i \in DOMAIN entries : entries[i] # r[k].from
                 /\ \A j \in DOMAIN r : r[j] = r[k] => j = k
        <2>1. k \in DOMAIN s /\ s[k] = r[k] /\ r[k] # m
            BY <1>1, <1>2
        <2>2. /\ s[k].from \in running
              /\ \A i \in DOMAIN entries : entries[i] # s[k].from
              /\ \A j \in DOMAIN s : s[j] = s[k] => j = k
            BY <1>2, <2>1 DEF Registering
        <2> QED
            BY <1>1, <2>1, <2>2
    <1> QED
        BY <1>2 DEF Registering

\* A visualizer that starts has not registered before.
LEMMA RegisteringStart ==
    ASSUME NEW s \in Seq(ToServer), NEW entries, NEW running, Registering(s, entries, running),
           NEW v \in Visualizer, v \notin running
    PROVE  Registering(Append(s, Register(v)), entries, running \cup {v})
    <1> PICK m : m = Register(v)
        OBVIOUS
    <1> PICK r : r = Append(s, m)
        OBVIOUS
    <1> PICK l : l = Len(s) + 1
        OBVIOUS
    <1>1. m \in ToServer /\ m.kind = "register" /\ m.from = v
        BY DEF Register, ToServer
    <1>2. /\ r[l] = m
          /\ \A k \in DOMAIN s : r[k] = s[k] /\ k # l
          /\ \A k \in DOMAIN r : k \in DOMAIN s \/ k = l
        BY <1>1, ServerAppend
    <1>3. ASSUME NEW k \in DOMAIN r, r[k].kind = "register"
          PROVE  /\ r[k].from \in running \cup {v}
                 /\ \A i \in DOMAIN entries : entries[i] # r[k].from
                 /\ \A j \in DOMAIN r : r[j] = r[k] => j = k
        <2>1. \A j \in DOMAIN s : s[j] # m
            BY <1>1 DEF Registering
        <2>2. CASE k = l
            <3>1. r[k] = m
                BY <1>2, <2>2
            <3>2. \A i \in DOMAIN entries : entries[i] # v
                BY DEF Registering
            <3> QED
                BY <1>1, <1>2, <2>1, <2>2, <3>1, <3>2
        <2>3. CASE k \in DOMAIN s
            <3>1. s[k] = r[k] /\ r[k] # m
                BY <1>2, <2>1, <2>3
            <3>2. /\ s[k].from \in running
                  /\ \A i \in DOMAIN entries : entries[i] # s[k].from
                  /\ \A j \in DOMAIN s : s[j] = s[k] => j = k
                BY <1>3, <2>3, <3>1 DEF Registering
            <3> QED
                BY <1>2, <3>1, <3>2
        <2> QED
            BY <1>2, <2>2, <2>3
    <1> QED
        BY <1>3 DEF Registering

LEMMA TypesInit == Init => Types
    <1> SUFFICES ASSUME Init
                 PROVE  Types
        OBVIOUS
    <1>1. Places
        <2>1. session \in Session
            BY FileCountIsPositive DEF Init
        <2>2. toVisualizer \in [Visualizer -> Seq(Message)]
            BY DEF Init
        <2>3. players \in Seq(Address)
            BY DEF Init
        <2> QED
            BY <2>1, <2>2, <2>3 DEF Init, Places
    <1>2. Handled
        BY DEF Init, Handled
    <1>3. Queues
        BY DEF Init, Queues, Waiting
    <1>4. Registering(toServer, registered, started)
        BY DEF Init, Registering
    <1> QED
        BY <1>1, <1>2, <1>3, <1>4 DEF Types

\* What the visualizers are told is typed.
LEMMA TellTypes ==
    ASSUME Places, NEW msgs \in Seq(Message), TellVisualizers(msgs)
    PROVE  toVisualizer' \in [Visualizer -> Seq(Message)] /\ informed' = Visualizer
    <1> PICK n : n = Files[session]
        OBVIOUS
    <1>1. n \in Nat /\ n > 0
        BY ScoreAssumption DEF Places
    <1>2. ASSUME NEW v \in Visualizer
          PROVE  TorrentInfo(v) \in Seq(Message)
        <2> PICK s : s = [i \in 1 .. n |-> File(i - 1)]
            OBVIOUS
        <2>1. s \in Seq(Message)
            <3>1. \A i \in 1 .. n : i - 1 \in Nat
                BY <1>1
            <3>2. \A i \in Nat : File(i) \in Message
                BY DEF File, Message
            <3> QED
                BY <1>1, <3>1, <3>2
        <2> PICK t : t = Torrent(n)
            OBVIOUS
        <2>2. t \in Message
            BY <1>1 DEF Torrent, Message
        <2>3. <<t>> \o s \in Seq(Message) /\ <<>> \in Seq(Message)
            BY <2>1, <2>2
        <2>4. TorrentInfo(v) = IF v \in informed THEN <<>> ELSE <<t>> \o s
            BY DEF TorrentInfo
        <2> QED
            BY <2>3, <2>4
    <1>3. ASSUME NEW v \in Visualizer
          PROVE  toVisualizer[v] \o TorrentInfo(v) \o msgs \in Seq(Message)
        <2>1. toVisualizer[v] \in Seq(Message) /\ TorrentInfo(v) \in Seq(Message)
            BY <1>2 DEF Places
        <2> QED
            BY <2>1
    <1> QED
        BY <1>3 DEF TellVisualizers

LEMMA PlayersStayDistinct ==
    ASSUME Places, NEW a \in Address
    PROVE  LET s == PlayersWith(a) IN \A i, j \in DOMAIN s : s[i] = s[j] => i = j
    <1> PICK s : s = PlayersWith(a)
        OBVIOUS
    <1>1. players \in Seq(Address) /\ \A i, j \in DOMAIN players : players[i] = players[j] => i = j
        BY DEF Places
    <1>2. CASE \E i \in DOMAIN players : players[i] = a
        BY <1>1, <1>2 DEF PlayersWith
    <1>3. CASE ~\E i \in DOMAIN players : players[i] = a
        <2>1. s = Append(players, a)
            BY <1>3 DEF PlayersWith
        <2> PICK l : l = Len(players) + 1
            OBVIOUS
        <2>2. /\ s[l] = a
              /\ \A k \in DOMAIN players : s[k] = players[k]
              /\ \A k \in DOMAIN s : k \in DOMAIN players \/ k = l
            BY <1>1, <2>1
        <2> QED
            BY <1>1, <1>3, <2>2
    <1> QED
        BY <1>2, <1>3

LEMMA PlayEventTypes ==
    ASSUME Types, PlayEvent
    PROVE  Types'
    <1> PICK e : e = Score[session][position]
        OBVIOUS
    <1> PICK a : a = e.peer
        OBVIOUS
    <1> PICK msgs : msgs = Append(NewPeer(a), Content(e, PlayerId(a)))
        OBVIOUS
    <1>1. /\ phase = "playing" /\ phase' = phase /\ session' = session
          /\ position' = position + 1 /\ position \in DOMAIN Score[session]
          /\ players' = PlayersWith(a) /\ TellVisualizers(msgs)
          /\ known' = IF e.kind = "segment" THEN [known EXCEPT ![session] = @ \cup {e.id}]
                                            ELSE known
          /\ UNCHANGED <<registered, orchestra, queue, dispatched, inHand, serving, heard, asked,
                         toServer, started, greeted, view, crashed>>
        BY DEF PlayEvent, serverVars, visualizerVars
    <1>2. Places /\ session \in Session
        BY DEF Types, Places
    <1>3. e \in [kind : {"chunk", "segment"}, id : Nat, file : Nat, peer : STRING] /\ a \in Address
        <2>1. Score[session] \in Seq([kind : {"chunk", "segment"}, id : Nat, file : Nat, peer : STRING])
            BY <1>2, ScoreAssumption DEF Session
        <2>2. e \in [kind : {"chunk", "segment"}, id : Nat, file : Nat, peer : STRING]
            BY <1>1, <2>1, Element
        <2>3. e \in Event
            BY <1>1, <1>2 DEF Event
        <2>4. a \in Address
            BY <2>3 DEF Address
        <2> QED
            BY <2>2, <2>4
    <1>4. /\ PlayersWith(a) \in Seq(Address) /\ PlayerId(a) \in Nat
          /\ NewPeer(a) \in {<<>>, <<PeerMessage(Len(players))>>}
        BY <1>2, <1>3, PlayerFacts DEF Places
    <1>5. msgs \in Seq(Message)
        <2> PICK id : id = PlayerId(a)
            OBVIOUS
        <2> PICK n : n = Len(players)
            OBVIOUS
        <2> PICK c : c = Content(e, id)
            OBVIOUS
        <2> PICK p : p = PeerMessage(n)
            OBVIOUS
        <2>1. c \in Message
            BY <1>3, <1>4 DEF Content, Message
        <2>2. n \in Nat
            BY <1>2 DEF Places
        <2>3. p \in Message
            BY <2>2 DEF PeerMessage, Message
        <2>4. NewPeer(a) \in Seq(Message)
            <3>1. <<>> \in Seq(Message) /\ <<p>> \in Seq(Message)
                BY <2>3
            <3> QED
                BY <1>4, <3>1
        <2>5. msgs = Append(NewPeer(a), c)
            OBVIOUS
        <2> QED
            BY <2>1, <2>4, <2>5
    <1>6. toVisualizer' \in [Visualizer -> Seq(Message)] /\ informed' = Visualizer
        BY <1>1, <1>2, <1>5, TellTypes
    <1>7. Places'
        <2>1. \A i, j \in DOMAIN players' : players'[i] = players'[j] => i = j
            BY <1>1, <1>2, <1>3, PlayersStayDistinct
        <2>2. orchestra' # 0
            BY <1>1, <1>2 DEF Places
        <2> QED
            BY <1>1, <1>2, <1>4, <1>6, <2>1, <2>2 DEF Places
    <1>8. Handled'
        <2>1. known' \in [Session -> SUBSET Nat]
            BY <1>1, <1>2, <1>3 DEF Types, Handled
        <2>2. \A t \in Session : known[t] \subseteq known'[t]
            BY <1>1, <1>2 DEF Types, Handled
        <2> QED
            BY <1>1, <2>1, <2>2 DEF Types, Handled
    <1>9. Queues' /\ Registering(toServer, registered, started)'
        BY <1>1 DEF Types, Queues, Waiting, Registering
    <1> QED
        BY <1>7, <1>8, <1>9 DEF Types

LEMMA CompletePlaybackTypes ==
    ASSUME Types, CompletePlayback
    PROVE  Types'
    <1>1. /\ phase = "playing" /\ TellVisualizers(<<Reset>>)
          /\ \/ session' \in Session /\ phase' = "preparing"
             \/ session' = session /\ phase' = "over"
          /\ UNCHANGED <<players, position, known, registered, orchestra, queue, dispatched,
                         inHand, serving, heard, asked, toServer, started, greeted, view, crashed>>
        BY DEF CompletePlayback, serverVars, visualizerVars
    <1>2. Places
        BY DEF Types
    <1>3. <<Reset>> \in Seq(Message)
        <2> PICK m : m = Reset
            OBVIOUS
        <2>1. m \in Message
            BY DEF Reset, Message
        <2> QED
            BY <2>1
    <1>4. toVisualizer' \in [Visualizer -> Seq(Message)] /\ informed' = Visualizer
        BY <1>1, <1>2, <1>3, TellTypes
    <1>5. Places'
        BY <1>1, <1>2, <1>4 DEF Places
    <1>6. Handled' /\ Queues' /\ Registering(toServer, registered, started)'
        BY <1>1 DEF Types, Handled, Queues, Waiting, Registering
    <1> QED
        BY <1>5, <1>6 DEF Types

LEMMA MainTypes ==
    ASSUME Types, Main
    PROVE  Types'
    <1>1. CASE AllRegistered \/ QueueDispatched
        <2>1. /\ UNCHANGED <<session, informed, players, position, known, serverVars, toServer,
                             toVisualizer, visualizerVars>>
              /\ \/ phase = "waiting" /\ phase' = "preparing"
                 \/ phase = "dispatching" /\ phase' = "clearing"
            BY <1>1 DEF AllRegistered, QueueDispatched
        <2>2. Places'
            BY <2>1 DEF Types, Places, serverVars
        <2>3. Handled' /\ Queues' /\ Registering(toServer, registered, started)'
            BY <2>1 DEF Types, Handled, Queues, Waiting, Registering, serverVars, visualizerVars
        <2> QED
            BY <2>2, <2>3 DEF Types
    <1>2. CASE SetOrchestra
        <2>1. /\ phase = "preparing" /\ phase' = "dispatching" /\ players' = <<>> /\ position' = 1
              /\ orchestra' = session /\ dispatched' = 0
              /\ UNCHANGED <<session, informed, known, registered, queue, inHand, serving, heard,
                             asked, toServer, toVisualizer, started, greeted, view, crashed>>
            BY <1>2 DEF SetOrchestra, visualizerVars
        <2>2. session \in Session /\ session # 0
            BY ScoreAssumption DEF Types, Places, Session
        <2>3. players' \in Seq(Address) /\ \A i \in DOMAIN players' : FALSE
            BY <2>1
        <2>4. Places'
            BY <2>1, <2>2, <2>3 DEF Types, Places
        <2>5. Handled'
            BY <2>1 DEF Types, Handled
        <2>6. Queues'
            <3>1. Len(queue) \in Nat /\ 0 <= Len(queue)
                BY DEF Types, Queues
            <3> QED
                BY <2>1, <2>2, <3>1 DEF Types, Queues, Waiting
        <2>7. Registering(toServer, registered, started)'
            BY <2>1 DEF Types, Registering
        <2> QED
            BY <2>4, <2>5, <2>6, <2>7 DEF Types
    <1>3. CASE DispatchQueued
        <2>1. /\ phase = "dispatching" /\ dispatched < Len(queue)
              /\ heard' = heard \cup {queue[dispatched + 1].from}
              /\ dispatched' = dispatched + 1
              /\ UNCHANGED <<phase, session, informed, players, position, known, registered,
                             orchestra, queue, inHand, serving, asked, toServer, toVisualizer,
                             started, greeted, view, crashed>>
            BY <1>3 DEF DispatchQueued, mainVars, visualizerVars
        <2>2. dispatched \in Nat /\ queue \in Seq(ToServer)
            BY DEF Types, Queues
        <2>3. /\ dispatched + 1 \in DOMAIN queue /\ dispatched + 1 <= Len(queue)
              /\ dispatched + 1 \in Nat
            BY <2>1, <2>2
        <2>4. queue[dispatched + 1].from \in greeted
            BY <2>3 DEF Types, Queues
        <2>5. Places'
            BY <2>1 DEF Types, Places
        <2>6. Handled'
            BY <2>1, <2>4 DEF Types, Handled
        <2>7. Queues'
            BY <2>1, <2>3 DEF Types, Queues, Waiting
        <2>8. Registering(toServer, registered, started)'
            BY <2>1 DEF Types, Registering
        <2> QED
            BY <2>5, <2>6, <2>7, <2>8 DEF Types
    <1>4. CASE ClearQueue
        <2>1. /\ phase = "clearing" /\ phase' = "playing" /\ queue' = <<>>
              /\ UNCHANGED <<session, informed, players, position, known, registered, orchestra,
                             dispatched, inHand, serving, heard, asked, toServer, toVisualizer,
                             started, greeted, view, crashed>>
            BY <1>4 DEF ClearQueue, visualizerVars
        <2>2. queue' \in Seq(ToServer) /\ \A k \in DOMAIN queue' : FALSE
            BY <2>1
        <2>3. Places' /\ Handled'
            BY <2>1 DEF Types, Places, Handled
        <2>4. Queues' /\ Registering(toServer, registered, started)'
            BY <2>1, <2>2 DEF Types, Queues, Waiting, Registering
        <2> QED
            BY <2>3, <2>4 DEF Types
    <1>5. CASE PlayEvent
        BY <1>5, PlayEventTypes
    <1>6. CASE CompletePlayback
        BY <1>6, CompletePlaybackTypes
    <1> QED
        BY <1>1, <1>2, <1>3, <1>4, <1>5, <1>6 DEF Main

LEMMA ServeTypes ==
    ASSUME Types, Serve
    PROVE  Types'
    <1>1. CASE AppendToQueue
        <2>1. /\ inHand # None /\ queue' = Append(queue, inHand) /\ inHand' = None
              /\ UNCHANGED <<phase, session, informed, players, position, known, registered,
                             orchestra, dispatched, serving, heard, asked, toServer, toVisualizer,
                             started, greeted, view, crashed>>
            BY <1>1 DEF AppendToQueue, mainVars, visualizerVars
        <2>2. /\ inHand \in ToServer /\ inHand.kind = "greeting" /\ inHand.from \in greeted
              /\ queue \in Seq(ToServer)
            BY <2>1 DEF Types, Queues
        <2> PICK r : r = Append(queue, inHand)
            OBVIOUS
        <2>3. /\ r \in Seq(ToServer) /\ Len(r) = Len(queue) + 1 /\ Len(queue) \in Nat
              /\ \A k \in DOMAIN r : (k \in DOMAIN queue /\ r[k] = queue[k]) \/ r[k] = inHand
            BY <2>2, ServerAppend
        <2>4. \A k \in DOMAIN r : r[k].kind = "greeting" /\ r[k].from \in greeted
            BY <2>2, <2>3 DEF Types, Queues
        <2>5. phase = "dispatching" => dispatched <= Len(r)
            BY <2>3 DEF Types, Queues
        <2>6. Places' /\ Handled'
            BY <2>1 DEF Types, Places, Handled
        <2>7. Queues' /\ Registering(toServer, registered, started)'
            BY <2>1, <2>3, <2>4, <2>5 DEF Types, Queues, Waiting, Registering
        <2> QED
            BY <2>6, <2>7 DEF Types
    <1>2. ASSUME HandleRegister \/ HandleEarly \/ HandleGreeting \/ HandleVisualizing
          PROVE  Types'
        <2> PICK m : m = Head(toServer)
            OBVIOUS
        <2>1. /\ toServer # <<>> /\ toServer' = Tail(toServer) /\ inHand = None
              /\ UNCHANGED <<phase, session, informed, players, position, known, queue, dispatched,
                             orchestra, toVisualizer, started, greeted, view, crashed>>
            BY <1>2 DEF HandleRegister, HandleEarly, HandleGreeting, HandleVisualizing, Serves,
                        mainVars, visualizerVars
        <2>2. toServer \in Seq(ToServer) /\ Waiting(toServer, greeted, orchestra)
            BY DEF Types, Queues, Waiting
        <2>3. /\ Waiting(Tail(toServer), greeted, orchestra)
              /\ m \in ToServer
              /\ m.kind = "greeting" => m.from \in greeted
              /\ m.kind = "visualizing" => orchestra # 0
            BY <2>1, <2>2, WaitingTail
        <2>4. Places'
            BY <2>1 DEF Types, Places
        <2>5. Registering(Tail(toServer), registered, started)
            BY <2>1, <2>2, RegisteringTail DEF Types
        <2>6. CASE HandleRegister
            <3>1. /\ m.kind = "register" /\ registered' = Append(registered, m.from)
                  /\ UNCHANGED <<inHand, serving, heard, asked>>
                BY <2>6 DEF HandleRegister, Serves
            <3>2. Registering(Tail(toServer), Append(registered, m.from), started)
                BY <2>1, <2>2, <3>1, RegisteringEntry DEF Types
            <3>3. Handled' /\ Queues'
                BY <2>1, <2>3, <3>1 DEF Types, Handled, Queues
            <3>4. Registering(toServer, registered, started)'
                BY <2>1, <3>1, <3>2
            <3> QED
                BY <2>4, <3>3, <3>4 DEF Types
        <2>7. CASE HandleEarly
            <3>1. /\ m.kind \in {"greeting", "visualizing"} /\ orchestra = 0 /\ inHand' = m
                  /\ UNCHANGED <<registered, serving, heard, asked>>
                BY <2>7 DEF HandleEarly, Serves
            <3>2. m.kind = "greeting"
                BY <2>3, <3>1
            <3>3. Handled' /\ Queues'
                BY <2>1, <2>3, <3>1, <3>2 DEF Types, Handled, Queues
            <3>4. Registering(toServer, registered, started)'
                BY <2>1, <2>5, <3>1
            <3> QED
                BY <2>4, <3>3, <3>4 DEF Types
        <2>8. CASE HandleGreeting
            <3>1. /\ m.kind = "greeting" /\ heard' = heard \cup {m.from}
                  /\ UNCHANGED <<registered, inHand, serving, asked>>
                BY <2>8 DEF HandleGreeting, Serves
            <3>2. Handled' /\ Queues'
                BY <2>1, <2>3, <3>1 DEF Types, Handled, Queues
            <3>3. Registering(toServer, registered, started)'
                BY <2>1, <2>5, <3>1
            <3> QED
                BY <2>4, <3>2, <3>3 DEF Types
        <2>9. CASE HandleVisualizing
            <3>1. /\ orchestra # 0
                  /\ \/ /\ m.id \in known[orchestra]
                        /\ asked' = asked \cup {<<orchestra, m.id>>} /\ serving' = serving
                     \/ serving' = FALSE /\ asked' = asked
                  /\ UNCHANGED <<registered, inHand, heard>>
                BY <2>9 DEF HandleVisualizing, Serves
            <3>2. orchestra \in Session
                BY <3>1 DEF Types, Places
            <3>3. \A r \in asked' : r[1] \in Session /\ r[2] \in known[r[1]]
                BY <3>1, <3>2 DEF Types, Handled
            <3>4. serving' \in BOOLEAN
                BY <3>1 DEF Types, Handled
            <3>5. Handled'
                BY <2>1, <3>1, <3>3, <3>4 DEF Types, Handled
            <3>6. Queues'
                BY <2>1, <2>3, <3>1 DEF Types, Queues
            <3>7. Registering(toServer, registered, started)'
                BY <2>1, <2>5, <3>1
            <3> QED
                BY <2>4, <3>5, <3>6, <3>7 DEF Types
        <2> QED
            BY <1>2, <2>6, <2>7, <2>8, <2>9
    <1> QED
        BY <1>1, <1>2 DEF Serve

LEMMA VisualizerTypes ==
    ASSUME Types, NEW v \in Visualizer, StartVisualizer(v) \/ Greet(v) \/ Receive(v)
    PROVE  Types'
    <1>1. toServer \in Seq(ToServer) /\ Waiting(toServer, greeted, orchestra)
        BY DEF Types, Queues, Waiting
    <1>2. CASE StartVisualizer(v)
        <2>1. /\ v \notin started /\ started' = started \cup {v}
              /\ toServer' = Append(toServer, Register(v))
              /\ UNCHANGED <<phase, session, informed, players, position, known, registered,
                             orchestra, queue, dispatched, inHand, serving, heard, asked,
                             toVisualizer, greeted, view, crashed>>
            BY <1>2 DEF StartVisualizer, mainVars, serverVars
        <2>2. Register(v) \in ToServer /\ Register(v).kind = "register"
            BY DEF Register, ToServer
        <2>3. Waiting(toServer, greeted, orchestra)'
            <3>1. Waiting(Append(toServer, Register(v)), greeted, orchestra)
                BY <1>1, <2>2, WaitingAppend
            <3> QED
                BY <2>1, <3>1
        <2>4. Registering(toServer, registered, started)'
            <3>1. Registering(Append(toServer, Register(v)), registered, started \cup {v})
                BY <1>1, <2>1, RegisteringStart DEF Types
            <3> QED
                BY <2>1, <3>1
        <2>5. Places' /\ Handled'
            BY <2>1 DEF Types, Places, Handled
        <2>6. Queues'
            BY <2>1, <2>3 DEF Types, Queues
        <2> QED
            BY <2>4, <2>5, <2>6 DEF Types
    <1>3. CASE Greet(v)
        <2>1. /\ v \in started \cap Greeter /\ greeted' = greeted \cup {v}
              /\ toServer' = Append(toServer, Greeting(v))
              /\ UNCHANGED <<phase, session, informed, players, position, known, registered,
                             orchestra, queue, dispatched, inHand, serving, heard, asked,
                             toVisualizer, started, view, crashed>>
            BY <1>3 DEF Greet, mainVars, serverVars
        <2> PICK m : m = Greeting(v)
            OBVIOUS
        <2>2. m \in ToServer /\ m.kind = "greeting" /\ m.from = v
            BY DEF Greeting, ToServer
        <2>3. Waiting(Append(toServer, m), greeted \cup {v}, orchestra)
            BY <1>1, <2>2, WaitingAppend
        <2>4. Registering(Append(toServer, m), registered, started)
            BY <1>1, <2>2, RegisteringOther DEF Types
        <2>5. Places' /\ Handled'
            BY <2>1 DEF Types, Places, Handled
        <2>6. Waiting(toServer, greeted, orchestra)' /\ Registering(toServer, registered, started)'
            BY <2>1, <2>3, <2>4
        <2>7. Queues'
            BY <2>1, <2>6 DEF Types, Queues
        <2> QED
            BY <2>5, <2>6, <2>7 DEF Types
    <1>4. CASE Receive(v)
        <2> PICK o : o = Head(toVisualizer[v])
            OBVIOUS
        <2> PICK m : m = Visualizing(o)
            OBVIOUS
        <2>1. /\ v \in started /\ toVisualizer[v] # <<>>
              /\ toVisualizer' = [toVisualizer EXCEPT ![v] = Tail(@)]
              /\ crashed' \in {crashed, crashed \cup {v}}
              /\ \/ toServer' = toServer
                 \/ o.kind = "segment" /\ toServer' = Append(toServer, m)
              /\ UNCHANGED <<phase, session, informed, players, position, known, registered,
                             orchestra, queue, dispatched, inHand, serving, heard, asked,
                             started, greeted>>
            BY <1>4 DEF Receive, mainVars, serverVars
        <2>2. toVisualizer[v] \in Seq(Message) /\ toVisualizer \in [Visualizer -> Seq(Message)]
            BY DEF Types, Places
        <2>3. o \in Message /\ Tail(toVisualizer[v]) \in Seq(Message)
            BY <2>1, <2>2, TailFacts
        <2>4. orchestra # 0
            BY <2>1 DEF Types, Places
        <2>5. toVisualizer' \in [Visualizer -> Seq(Message)]
            BY <2>1, <2>2, <2>3
        <2>6. Places' /\ Handled'
            BY <2>1, <2>4, <2>5 DEF Types, Places, Handled
        <2>7. Waiting(toServer, greeted, orchestra)' /\ Registering(toServer, registered, started)'
            <3>1. CASE toServer' = toServer
                BY <1>1, <2>1, <3>1 DEF Types
            <3>2. CASE o.kind = "segment" /\ toServer' = Append(toServer, m)
                <4>1. o.id \in Nat
                    BY <2>3, <3>2 DEF Message
                <4>2. m \in ToServer /\ m.kind = "visualizing"
                    BY <4>1 DEF Visualizing, ToServer
                <4>3. Waiting(Append(toServer, m), greeted, orchestra)
                    BY <1>1, <2>4, <4>2, WaitingAppend
                <4>4. Registering(Append(toServer, m), registered, started)
                    BY <1>1, <4>2, RegisteringOther DEF Types
                <4> QED
                    BY <2>1, <3>2, <4>3, <4>4
            <3> QED
                BY <2>1, <3>1, <3>2
        <2>8. Queues'
            BY <2>1, <2>7 DEF Types, Queues
        <2> QED
            BY <2>6, <2>7, <2>8 DEF Types
    <1> QED
        BY <1>2, <1>3, <1>4

LEMMA TypesStep == Types /\ [Next]_vars => Types'
    <1> SUFFICES ASSUME Types, [Next]_vars
                 PROVE  Types'
        OBVIOUS
    <1>1. CASE UNCHANGED vars
        <2>1. Places' /\ Handled'
            BY <1>1 DEF vars, Types, Places, Handled
        <2>2. Queues' /\ Registering(toServer, registered, started)'
            BY <1>1 DEF vars, Types, Queues, Waiting, Registering
        <2> QED
            BY <2>1, <2>2 DEF Types
    <1> QED
        BY <1>1, MainTypes, ServeTypes, VisualizerTypes DEF Next

\* As many different elements as places.
LEMMA DistinctElements ==
    ASSUME NEW S, NEW s \in Seq(S), \A i, j \in DOMAIN s : s[i] = s[j] => i = j
    PROVE  Cardinality({s[i] : i \in DOMAIN s}) = Len(s)
    <1> PICK T : T = {s[i] : i \in DOMAIN s}
        OBVIOUS
    <1> PICK n : n = Len(s)
        OBVIOUS
    <1>1. n \in Nat /\ DOMAIN s = 1 .. n /\ s \in [1 .. n -> S]
        OBVIOUS
    <1>2. s \in [1 .. n -> T]
        BY <1>1
    <1>3. s \in Bijection(1 .. n, T)
        BY <1>1, <1>2 DEF Bijection, Injection, Surjection, IsInjective
    <1>4. ExistsBijection(1 .. n, T)
        BY <1>3 DEF ExistsBijection
    <1> QED
        BY <1>1, <1>4, FS_CountingElements

\* Nobody has more than one entry, so there are no more than visualizers.
LEMMA EntriesBounded ==
    ASSUME NEW s, NEW entries, NEW running, Registering(s, entries, running)
    PROVE  Len(entries) <= Cardinality(Visualizer)
    <1> PICK n : n = Len(entries)
        OBVIOUS
    <1>1. /\ n \in Nat /\ entries \in [1 .. n -> Visualizer]
          /\ \A j, k \in 1 .. n : entries[j] = entries[k] => j = k
        BY DEF Registering
    <1>2. entries \in Injection(1 .. n, Visualizer)
        BY <1>1 DEF Injection, IsInjective
    <1>3. IsFiniteSet(Visualizer)
        BY VisualizerAssumption
    <1>4. Cardinality(1 .. n) <= Cardinality(Visualizer)
        BY <1>2, <1>3, FS_Injection
    <1>5. Cardinality(1 .. n) = n
        <2>1. 1 \in Int /\ n \in Int
            BY <1>1
        <2>2. Cardinality(1 .. n) = IF 1 > n THEN 0 ELSE n - 1 + 1
            BY <2>1, FS_Interval
        <2> QED
            BY <1>1, <2>2
    <1> QED
        BY <1>4, <1>5

\* The threads' places, the entries and the queues keep their types, nobody is
\* registered twice, and no greeting reaches an orchestra that was not sent.
THEOREM TypeCorrect == Spec => []TypeOK
    <1>1. Types => TypeOK
        <2> SUFFICES ASSUME Types
                     PROVE  TypeOK
            OBVIOUS
        <2>1. Places /\ Handled /\ Queues /\ Registering(toServer, registered, started)
            BY DEF Types
        <2>2. Cardinality({players[i] : i \in DOMAIN players}) = Len(players)
            BY <2>1, DistinctElements DEF Places
        <2>3. registered \in Seq(Visualizer) /\ Len(registered) <= Cardinality(Visualizer)
            BY <2>1, EntriesBounded DEF Registering
        <2>4. /\ phase \in {"waiting", "preparing", "dispatching", "clearing", "playing", "over"}
              /\ session \in Session /\ orchestra \in {0} \cup Session
              /\ informed \subseteq Visualizer /\ players \in Seq(Address) /\ position \in Nat
            BY <2>1 DEF Places
        <2>5. /\ started \subseteq Visualizer /\ known \in [Session -> SUBSET Nat]
              /\ serving \in BOOLEAN
              /\ greeted \subseteq Greeter \cap started /\ heard \subseteq greeted
              /\ crashed \subseteq started
              /\ \A r \in asked : r[2] \in known[r[1]]
            BY <2>1 DEF Handled
        <2>6. dispatched <= Len(queue) \/ phase # "dispatching"
            BY <2>1 DEF Queues
        <2> QED
            BY <2>2, <2>3, <2>4, <2>5, <2>6 DEF TypeOK
    <1>2. Spec => []Types
        BY TypesInit, TypesStep, PTL DEF Spec
    <1> QED
        BY <1>1, <1>2, PTL
=============================================================================

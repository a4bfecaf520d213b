----------------------------- MODULE MCRequests -----------------------------
EXTENDS Requests
\* Peer 1 is a seed with the fast extension, which may say of itself that it has
\* nothing, before or after it has announced all; peer 2 a leech without it.
MCOffers == [p \in Peer |-> IF p \in FextPeer THEN {{}, Piece} ELSE {{0}}]
MCSalt == [i \in Piece |-> i]
=============================================================================

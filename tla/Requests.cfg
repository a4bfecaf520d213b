SPECIFICATION FairSpec
CONSTANTS
    Peer = {1, 2}
    FextPeer = {1}
    Offers <- MCOffers
    BlockCount = 3
    BlocksPerPiece = 2
    Salt <- MCSalt
    DesiredCounts = {1, 2}
    MaxInterested = 2
    MaxReplicas = 2
INVARIANTS
    TypeOK
    NothingAskedInVain
    PendingExact
    CountsCovered
    ReplicationCovers
PROPERTIES
    KeepsSorted
    Completes
CHECK_DEADLOCK FALSE

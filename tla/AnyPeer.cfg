SPECIFICATION Spec
CONSTANTS
    NumPieces = 2
    Blocks <- MCBlocks
    MaxActive = 2
    SpareBits = 0
    Batch = 2
    Peers = {p1, p2}
    Genuine = Genuine
    Corrupt = Corrupt
    NoData = NoData
    Payload <- GenuineOnly
    HashMatches <- MCHashMatches
SYMMETRY PeerSymmetry
INVARIANTS
    InterestTold
PROPERTIES
    RequestsOnlyWillingPeers
    StrandedOnlyByItsPeer
CHECK_DEADLOCK FALSE

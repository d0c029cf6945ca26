SPECIFICATION StraySpec
CONSTANTS
    NumPieces = 2
    Blocks <- MCBlocks
    MaxActive = 2
    SpareBits = 0
    Batch = 2
    Peers = {p1, p2}
    Genuine = Genuine
    Corrupt = Corrupt
    NoData = NoData
    Payload <- MCPayload
    HashMatches <- MCHashMatches
SYMMETRY PeerSymmetry
INVARIANT
    VerifiedIntact
CHECK_DEADLOCK FALSE

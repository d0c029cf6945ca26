SPECIFICATION DamageSpec
CONSTANTS
    NumPieces = 3
    Blocks <- MCBlocks
    MaxActive = 2
    SpareBits = 0
    Batch = 2
    Peers = {p1, p2}
    MaxMishaps = 2
    Genuine = Genuine
    Corrupt = Corrupt
    NoData = NoData
    Payload <- MCPayload
    HashMatches <- MCHashMatches
PROPERTIES
    EveryPieceCompletes
    RequestsAreServed
CHECK_DEADLOCK FALSE

SPECIFICATION PMSpec
CONSTANTS
    NumPieces = 4
    Blocks <- MCBlocks
    MaxActive = 2
    SpareBits = 1
    Genuine = Genuine
    Corrupt = Corrupt
    NoData = NoData
    Payload <- MCPayload
    HashMatches <- MCHashMatches
INVARIANTS
    PMTypeOK
    CounterAgrees
    DataAgrees
    OnlyOpenPiecesHoldBlocks
    ActiveBounded
PROPERTIES
    DiscardOnlyWholePieces
    ImplementsVerifiedDownload

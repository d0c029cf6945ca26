SPECIFICATION StoreSpec
CONSTANTS
    Lengths = {0, 1, 3}
    MaxFiles = 3
    MaxBlock = 6
    PieceLength = 3
    BlockSize = 2
    Word = 16
    Ranges <- StrayRanges
    MaxCalls = 3
    MaxFailures = 1
INVARIANTS
    SlicesTile
    WholeRangeMapped
    BlocksTileTorrent
    BytesInPlace
    OnlyLastSliceAtRisk
    ReadIsLastWrite
    WrittenTorrentIsWhole
CHECK_DEADLOCK FALSE

SPECIFICATION Spec
CONSTANTS
    LongMax = 999
    SizeWord = 512
    Written <- Encode
    WrittenFrom <- EncodeFrom
    Meant <- Meaning
    Char <- MCChar
    Document <- MCDocument
    Numeral <- Decimal
    Documents <- TorrentDocuments
    OutOfRange <- MCOutOfRange
    Tails <- FileTails
    HashSize = 2
INVARIANTS
    DecodedIsDocument
    HashIsOfInfo
    TorrentsAreAccepted
CHECK_DEADLOCK FALSE

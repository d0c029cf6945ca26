SPECIFICATION TierSpec
CONSTANTS
    MaxAttempts = 4
    ServerValidity = 8
    LongMax = 999
    SizeWord = 200
    Char <- MCChar
    Answers <- MCAnswers
    Document <- MCDocument
    OutOfRange <- MCOutOfRange
    Numeral <- Decimal
    Written <- Encode
    WrittenFrom <- EncodeFrom
    Meant <- Meaning
    Garbage <- MCGarbage
    BadHosts <- MCBadHosts
    PeerSize = 3
    HalfInt = 64
    PortRange = 8
    Buffer = 5
    TierOrders <- MCTierOrders
INVARIANTS
    BoundedWait
    ResultIsTheTrackers
    WholeAnswerOnly
    GoodAnswersTaken
    NothingHeld
    FirstAcceptanceCounts
PROPERTIES
    TierReturns
CHECK_DEADLOCK FALSE

CONSTANTS
    IdBits <- MCIdBits
    KSize <- MCKSize
    LocalId <- MCLocalId
    Peers <- MCPeers
    FracBits <- MCFracBits
    Alpha <- MCAlpha
    IdChars <- MCIdChars
    Target <- MCTarget
    KeyNodeId <- MCKeyNodeId
    Vals <- MCVals
    SetVal <- MCSetVal
    Knows <- MCKnows
    InitKnown <- MCInitKnown
    InitHeld <- MCInitHeld
    TheKey = TheKey
    NoNode = NoNode
    NoVal = NoVal
SPECIFICATION Spec
CHECK_DEADLOCK FALSE
INVARIANTS
    CrawlReturnsResponders

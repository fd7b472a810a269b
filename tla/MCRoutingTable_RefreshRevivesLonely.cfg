CONSTANTS
    IdBits <- MCIdBits
    KSize <- MCKSize
    LocalId <- MCLocalId
    Peers <- MCPeers
    FracBits <- MCFracBits
    NoNode = NoNode
SPECIFICATION Spec
PROPERTIES
    RefreshRevivesLonely


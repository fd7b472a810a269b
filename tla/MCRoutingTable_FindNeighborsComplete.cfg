CONSTANTS
    IdBits <- MCIdBits
    KSize <- MCKSize
    LocalId <- MCLocalId
    Peers <- MCPeersTraverse
    FracBits <- MCFracBits
    NoNode = NoNode
SPECIFICATION Spec
INVARIANTS
    FindNeighborsComplete

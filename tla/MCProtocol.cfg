CONSTANTS
    IdBits <- MCIdBits
    KSize <- MCKSize
    LocalId <- MCLocalId
    Peers <- MCPeersStore
    FracBits <- MCFracBits
    Keys <- MCKeys
    Vals <- MCVals
    KeyId <- MCKeyIdStore
    MaxCalls <- MCMaxCalls
    NoNode = NoNode
    NoVal = NoVal
    NoKey = NoKey
SPECIFICATION Spec
INVARIANTS
    TypeOK
PROPERTIES
    NewcomerNearestGetsStore
    TableRefinement

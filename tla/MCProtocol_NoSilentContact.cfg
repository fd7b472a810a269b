CONSTANTS
    IdBits <- MCIdBits
    KSize <- MCKSize
    LocalId <- MCLocalId
    Peers <- MCPeers
    FracBits <- MCFracBits
    Keys <- MCKeys
    Vals <- MCVals
    KeyId <- MCKeyId
    MaxCalls <- MCMaxCalls
    NoNode = NoNode
    NoVal = NoVal
    NoKey = NoKey
SPECIFICATION Spec
INVARIANTS
    NoSilentContact

CONSTANTS
    IdBits <- MCIdBits
    KSize <- MCKSize
    LocalId <- MCLocalId
    Peers <- MCPeers
    FracBits <- MCFracBits
    NoNode = NoNode
    RandSteps <- MCRandSteps
SPECIFICATION Spec
INVARIANTS
    TypeOK
    BucketBound
    ReplacementsOnlyWhenFull
PROPERTIES
    ContactLeavesOnlyByRemoval

CONSTANTS
    Keys <- MCKeys
    Vals <- MCVals
    TTL <- MCTTL
    MaxTime <- MCMaxTime
    Period <- MCPeriod
    ClockMayGoBack = TRUE
    Null = Null
SPECIFICATION Spec
PROPERTIES
    CullRemovesOnlyExpired

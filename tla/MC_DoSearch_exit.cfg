CONSTANTS
    NoFilter = NoFilter
    Docs <- MCDocs
    Score <- MCScore
    Custom <- MCCustom
    PropValue <- MCPropValue
    Schema <- MCSchema
    MatchSets <- MCMatchSets
    FilterSets <- MCFilterSets
    SortLists <- MCSortLists
    Starts <- MCStarts
    TopKs <- MCTopKs
    SizeMod <- MCSizeMod
    MaxVectorSize <- MCMaxVectorSize
    Faults <- MCFaultsAll
SPECIFICATION Spec
INVARIANT CleanExit
CHECK_DEADLOCK FALSE

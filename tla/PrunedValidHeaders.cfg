CONSTANTS
    Blocks <- MCBlocks
    Genesis <- MCGenesis
    PruneMode = TRUE
    MinBlocksToKeep = 1
    BlockVersion <- MCBlockVersion
    MajorityWindow = 2
SPECIFICATION Spec
INVARIANT
    ValidHeadersDataAvailable

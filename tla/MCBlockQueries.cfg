CONSTANTS
    Blocks <- MCBlocks
    Genesis <- MCGenesis
    PruneMode = TRUE
    MinBlocksToKeep = 1
    BlockVersion <- MCBlockVersion
    MajorityWindow = 2
SPECIFICATION Spec
INVARIANTS
    SoftForkCountsWindow
    PruneHeightIsDataBoundary
    MissingDataReportedPruned
    BranchTxReceived

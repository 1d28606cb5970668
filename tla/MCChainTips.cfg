CONSTANTS
    Blocks <- MCBlocks
    Genesis <- MCGenesis
    PruneMode = FALSE
    MinBlocksToKeep = 1
SPECIFICATION Spec
INVARIANTS
    TypeOK
    ChainIsPath
    TipsCoverIndex
    ActiveTipReported
    BranchLenIsForkDistance
    ConfirmationsCountDescendants
    NextBlockHashIsChild

CONSTANTS
    Blocks <- MCBlocks
    Genesis <- MCGenesis
    PruneMode = FALSE
    MinBlocksToKeep = 1
SPECIFICATION Spec
INVARIANT
    OneActiveEntry

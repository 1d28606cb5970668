CONSTANTS
    Blocks = {1, 2, 3, 4}
    Genesis = 1
    PruneMode = TRUE
    MinBlocksToKeep = 1
SPECIFICATION SpecAbort
INVARIANT
    AbortLeavesActiveValid
CHECK_DEADLOCK FALSE

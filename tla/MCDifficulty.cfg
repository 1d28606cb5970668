CONSTANTS
    PowLimit <- MCPowLimit
    BitsDomain <- MCBitsDomain
SPECIFICATION Spec
INVARIANTS
    DifficultyIsTargetRatio

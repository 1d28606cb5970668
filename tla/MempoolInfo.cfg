CONSTANTS
    Txs <- MCTxs
    TxSize <- MCTxSize
    TxUsage <- MCTxUsage
    Inputs <- MCInputs
SPECIFICATION Spec
INVARIANT
    MempoolInfoConsistent

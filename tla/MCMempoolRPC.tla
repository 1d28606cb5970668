---------------------------- MODULE MCMempoolRPC ----------------------------
(* Model-checking instance: three transactions, the second spending the    *)
(* first and the third spending both, with sizes and usages that tell any *)
(* two sets of transactions apart.                                         *)
EXTENDS MempoolRPC

MCTxs == 1 .. 3
MCTxSize == [t \in MCTxs |-> 2 ^ (t - 1)]
MCTxUsage == [t \in MCTxs |-> 2 ^ (t + 2)]
MCInputs == [t \in MCTxs |-> 1 .. t - 1]
=============================================================================

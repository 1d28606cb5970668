--------------------------- MODULE MCBlockQueries ---------------------------
(* Model-checking instance in prune mode: four hashes, genesis is 1, one  *)
(* block kept below the tip, so that pruning happens at chain length 2 and *)
(* a reorganisation can expose a pruned block; a majority window of 2     *)
(* is shorter than the chain at height 2 and 3 and longer at height 0.    *)
(* The versions 2, 3, 4, 2 differ between siblings and along a chain.     *)
EXTENDS BlockQueries

MCBlocks == 1 .. 4
MCGenesis == 1
MCBlockVersion == [b \in MCBlocks |-> ((b - 1) % 3) + 2]
=============================================================================

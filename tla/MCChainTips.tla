---------------------------- MODULE MCChainTips ----------------------------
(* Model-checking instance: four hashes, genesis is 1.  Four blocks give   *)
(* a chain of three with a fork of one, or two side branches of genesis,  *)
(* so that reorganisations, invalidation of a block with a side branch    *)
(* below it, data arriving under a failed parent, and a tip that is the   *)
(* parent of a header-only block all occur.                                *)
EXTENDS ChainTips

MCBlocks == 1 .. 4
MCGenesis == 1
=============================================================================

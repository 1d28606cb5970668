--------------------------- MODULE InvalidateAbort ---------------------------
(***************************************************************************)
(* invalidateblock on a pruned node, including the path BlockIndex leaves  *)
(* out: InvalidateBlock's loop flags the tip FAILED_CHILD, then calls      *)
(* DisconnectTip, which reads the tip from disk; for a block whose file    *)
(* was pruned the read fails, AbortNode requests shutdown and              *)
(* InvalidateBlock returns false with the loop half done.  The handler     *)
(* then skips ActivateBestChain (state is invalid) and throws              *)
(* RPC_DATABASE_ERROR (rpcblockchain.cpp:1164-1181).  Once shutdown is     *)
(* requested the validator takes no further step.                          *)
(***************************************************************************)
EXTENDS BlockIndex

VARIABLE
    fRequestShutdown   \* set by AbortNode's StartShutdown

allVars == <<vars, fRequestShutdown>>

InitAbort ==
    /\ Init
    /\ fRequestShutdown = FALSE

(* InvalidateBlock when a DisconnectTip fails: the loop, from the tip      *)
(* down, flags each tip and disconnects it while its data can be read;    *)
(* the first unreadable tip (the highest active block at or above b       *)
(* without data) is flagged and stays the tip.                              *)
InvalidateBlockAborted(b) ==
    LET stuck == CHOOSE i \in nHeight[b] + 1 .. Len(chainActive) :
                    /\ chainActive[i] \notin haveData
                    /\ \A j \in i + 1 .. Len(chainActive) : chainActive[j] \in haveData
    IN  /\ failed' = failed \cup {b} \cup {chainActive[i] : i \in stuck .. Len(chainActive)}
        /\ chainActive' = SubSeq(chainActive, 1, stuck)

(* RPC invalidateblock, the path where InvalidateBlock fails: the lookup, *)
(* InvalidateBlock under cs_main, no ActivateBestChain, the error thrown. *)
invalidateblock_Aborted(b) ==
    /\ b \in mapBlockIndex
    /\ ~ Disconnectable(b)
    /\ InvalidateBlockAborted(b)
    /\ fRequestShutdown' = TRUE
    /\ UNCHANGED <<mapBlockIndex, pprev, nHeight, nValid, haveData, chainTx,
                   unlinked, fHavePruned>>

(* Until shutdown is requested, every step of BlockIndex, and the failing *)
(* invalidateblock.                                                        *)
NextAbort ==
    /\ ~ fRequestShutdown
    /\ \/ Next /\ UNCHANGED fRequestShutdown
       \/ \E b \in Blocks : invalidateblock_Aborted(b)

SpecAbort == InitAbort /\ [][NextAbort]_allVars

(* Once invalidateblock has thrown RPC_DATABASE_ERROR and shutdown is      *)
(* requested, no block of the active chain carries a failure flag: the    *)
(* rest of the code (getchaintips' "active" status, "certainly valid" in  *)
(* the help text at rpcblockchain.cpp:1048) reads the active chain as     *)
(* valid.                                                                  *)
AbortLeavesActiveValid ==
    fRequestShutdown => \A i \in 1 .. Len(chainActive) : chainActive[i] \notin failed

=============================================================================

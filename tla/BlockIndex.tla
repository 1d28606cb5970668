----------------------------- MODULE BlockIndex -----------------------------
(***************************************************************************)
(* The block index (mapBlockIndex, one CBlockIndex per known header), the  *)
(* active chain (chainActive) and every step that changes them.            *)
(*                                                                         *)
(* The steps come from two places.  The external validator (main.cpp, not *)
(* part of src/) accepts headers and block data and moves the active      *)
(* chain one block at a time (ActivateBestChain connects and disconnects  *)
(* tips, each step under its own LOCK(cs_main)); these are modelled from   *)
(* the spec.  The RPC handlers invalidateblock and reconsiderblock of      *)
(* rpcblockchain.cpp change the index themselves: under LOCK(cs_main) they *)
(* call InvalidateBlock / ReconsiderBlock, release the lock, and leave     *)
(* ActivateBestChain to the validator's steps.                             *)
(*                                                                         *)
(* A block is a positive integer; 0 is the NULL pointer.  The integers     *)
(* also stand for the CBlockIndex addresses that getchaintips compares.    *)
(* Chain work is not modelled: which child ActivateBestChain connects is  *)
(* a nondeterministic choice among the ones it may connect.                *)
(***************************************************************************)
EXTENDS Naturals, Sequences, FiniteSets

CONSTANTS
    Blocks,          \* the hashes a header may have
    Genesis,         \* the hash of the genesis block
    PruneMode,       \* fPruneMode (-prune)
    MinBlocksToKeep  \* MIN_BLOCKS_TO_KEEP: depth below the tip never pruned

ASSUME BlocksAssumption ==
    /\ Blocks \subseteq Nat \ {0}
    /\ IsFiniteSet(Blocks)
    /\ Genesis \in Blocks

ASSUME PruneAssumption ==
    /\ PruneMode \in BOOLEAN
    /\ MinBlocksToKeep \in Nat \ {0}

NoBlock == 0

(* nStatus & BLOCK_VALID_MASK levels (chain.h); 0 is BLOCK_VALID_UNKNOWN. *)
BLOCK_VALID_TREE         == 2
BLOCK_VALID_TRANSACTIONS == 3
BLOCK_VALID_SCRIPTS      == 5
ValidLevels == {0, BLOCK_VALID_TREE, BLOCK_VALID_TRANSACTIONS, BLOCK_VALID_SCRIPTS}

VARIABLES
    mapBlockIndex,  \* the hashes that have a CBlockIndex
    pprev,          \* pprev of each index entry, NoBlock for genesis
    nHeight,        \* nHeight of each index entry
    nValid,         \* nStatus & BLOCK_VALID_MASK
    failed,         \* entries with nStatus & BLOCK_FAILED_MASK
    haveData,       \* entries with nStatus & BLOCK_HAVE_DATA
    chainTx,        \* entries with nChainTx > 0
    unlinked,       \* the values of mapBlocksUnlinked, each keyed by its pprev
    chainActive,    \* chainActive.vChain: chainActive[h + 1] is at height h
    fHavePruned     \* some block file has been pruned

vars == <<mapBlockIndex, pprev, nHeight, nValid, failed, haveData, chainTx,
          unlinked, chainActive, fHavePruned>>

-----------------------------------------------------------------------------
(* Walking pprev pointers.                                                 *)

Prev(b) == IF b = NoBlock THEN NoBlock ELSE pprev[b]

(* The blocks reached from b by following pprev, b included.             *)
AncestorsOrSelf[b \in Blocks] ==
    IF pprev[b] = NoBlock THEN {b} ELSE {b} \cup AncestorsOrSelf[pprev[b]]

IsAncestorOrSelf(a, b) == b /= NoBlock /\ a \in AncestorsOrSelf[b]

(* CBlockIndex::GetAncestor(height): the block at that height below b.     *)
GetAncestor(b, h) ==
    IF h > nHeight[b] THEN NoBlock
    ELSE CHOOSE a \in AncestorsOrSelf[b] : nHeight[a] = h

-----------------------------------------------------------------------------
(* CChain (chain.h): the active chain as a height-indexed vector.          *)

Height == Len(chainActive) - 1

Tip == IF chainActive = << >> THEN NoBlock ELSE chainActive[Len(chainActive)]

(* chainActive[h]: NULL outside 0 .. Height.                               *)
At(h) == IF 0 <= h /\ h < Len(chainActive) THEN chainActive[h + 1] ELSE NoBlock

Contains(b) == At(nHeight[b]) = b

ChainNext(b) == IF Contains(b) THEN At(nHeight[b] + 1) ELSE NoBlock

-----------------------------------------------------------------------------
(* The node after init: the genesis block is loaded, connected and active. *)
Init ==
    /\ mapBlockIndex = {Genesis}
    /\ pprev = [b \in Blocks |-> NoBlock]
    /\ nHeight = [b \in Blocks |-> 0]
    /\ nValid = [b \in Blocks |-> IF b = Genesis THEN BLOCK_VALID_SCRIPTS ELSE 0]
    /\ failed = {}
    /\ haveData = {Genesis}
    /\ chainTx = {Genesis}
    /\ unlinked = {}
    /\ chainActive = << Genesis >>
    /\ fHavePruned = FALSE

(* AcceptBlockHeader: a new header whose parent is known and not failed   *)
(* gets an index entry at its parent's height plus one (AddToBlockIndex). *)
AcceptBlockHeader(b, p) ==
    /\ b \notin mapBlockIndex
    /\ p \in mapBlockIndex
    /\ p \notin failed
    /\ mapBlockIndex' = mapBlockIndex \cup {b}
    /\ pprev' = [pprev EXCEPT ![b] = p]
    /\ nHeight' = [nHeight EXCEPT ![b] = nHeight[p] + 1]
    /\ nValid' = [nValid EXCEPT ![b] = BLOCK_VALID_TREE]
    /\ UNCHANGED <<failed, haveData, chainTx, unlinked, chainActive, fHavePruned>>

(* ReceivedBlockTransactions' walk: from b, each block mapBlocksUnlinked   *)
(* holds under a block already reached, i.e. every descendant of b whose   *)
(* blocks above b's height are all entries of mapBlocksUnlinked.           *)
LinkedTo(b) ==
    {d \in mapBlockIndex :
        /\ IsAncestorOrSelf(b, d)
        /\ \A a \in AncestorsOrSelf[d] : nHeight[a] > nHeight[b] => a \in unlinked}

(* AcceptBlock, ReceivedBlockTransactions: the block's data is stored and  *)
(* its validity raised to BLOCK_VALID_TRANSACTIONS.  If it is genesis or   *)
(* its parent has nChainTx > 0, the walk gives nChainTx to it and to the   *)
(* blocks linked to it, and erases them from mapBlocksUnlinked; otherwise  *)
(* it waits in mapBlocksUnlinked, but only if its parent                   *)
(* IsValid(BLOCK_VALID_TREE), which a failed parent is not.                *)
AcceptBlock(b) ==
    /\ b \in mapBlockIndex
    /\ b \notin haveData
    /\ b \notin failed
    /\ haveData' = haveData \cup {b}
    /\ nValid' = [nValid EXCEPT ![b] = IF @ < BLOCK_VALID_TRANSACTIONS
                                       THEN BLOCK_VALID_TRANSACTIONS ELSE @]
    /\ IF b = Genesis \/ pprev[b] \in chainTx
       THEN /\ chainTx' = chainTx \cup LinkedTo(b)
            /\ unlinked' = unlinked \ LinkedTo(b)
       ELSE /\ chainTx' = chainTx
            /\ unlinked' = IF pprev[b] \notin failed THEN unlinked \cup {b} ELSE unlinked
    /\ UNCHANGED <<mapBlockIndex, pprev, nHeight, failed, chainActive, fHavePruned>>

(* ActivateBestChainStep, ConnectTip: a child of the tip that has its data *)
(* and is not failed is connected and becomes BLOCK_VALID_SCRIPTS.        *)
(* Mutant: any block with data may be connected, whatever its parent.     *)
CanConnect_AnyParent(b) ==
    /\ b \in mapBlockIndex
    /\ b \in chainTx
    /\ b \in haveData
    /\ b \notin failed

CanConnect(b) ==
    /\ b \in mapBlockIndex
    /\ pprev[b] = Tip
    /\ b \in chainTx
    /\ b \in haveData
    /\ b \notin failed

ConnectTip(b) ==
    /\ CanConnect(b)
    /\ chainActive' = Append(chainActive, b)
    /\ nValid' = [nValid EXCEPT ![b] = BLOCK_VALID_SCRIPTS]
    /\ UNCHANGED <<mapBlockIndex, pprev, nHeight, failed, haveData, chainTx,
                   unlinked, fHavePruned>>

(* ConnectTip fails in ConnectBlock: InvalidBlockFound sets FAILED_VALID.  *)
ConnectTipFailed(b) ==
    /\ CanConnect(b)
    /\ failed' = failed \cup {b}
    /\ UNCHANGED <<mapBlockIndex, pprev, nHeight, nValid, haveData, chainTx, unlinked,
                   chainActive, fHavePruned>>

(* ActivateBestChainStep, DisconnectTip: a reorganisation moves the tip    *)
(* back to its parent; genesis is never disconnected.  The tip's block is  *)
(* read from disk to undo it, so a pruned tip cannot be disconnected.      *)
DisconnectTip ==
    /\ Len(chainActive) > 1
    /\ Tip \in haveData
    /\ chainActive' = SubSeq(chainActive, 1, Len(chainActive) - 1)
    /\ UNCHANGED <<mapBlockIndex, pprev, nHeight, nValid, failed, haveData,
                   chainTx, unlinked, fHavePruned>>

(* FindMostWorkChain: a candidate with a failed ancestor is found invalid: *)
(* every block from the candidate down to that ancestor gets FAILED_CHILD. *)
(* The walk stops at the first block chainActive contains, so the failed  *)
(* ancestor it finds is off the active chain.                              *)
HighestFailedAncestor(b) ==
    CHOOSE f \in failed :
        /\ IsAncestorOrSelf(f, b)
        /\ \A g \in failed : IsAncestorOrSelf(g, b) => nHeight[g] <= nHeight[f]

MarkFailedChild(b) ==
    /\ b \in mapBlockIndex
    /\ b \notin failed
    /\ \E f \in failed : IsAncestorOrSelf(f, b)
    /\ ~ Contains(HighestFailedAncestor(b))
    /\ failed' = failed \cup
         {a \in mapBlockIndex :
            IsAncestorOrSelf(a, b) /\ nHeight[a] > nHeight[HighestFailedAncestor(b)]}
    /\ UNCHANGED <<mapBlockIndex, pprev, nHeight, nValid, haveData, chainTx, unlinked,
                   chainActive, fHavePruned>>

(* FindFilesToPrune / PruneOneBlockFile: in prune mode the data of a block *)
(* at least MIN_BLOCKS_TO_KEEP below the tip is deleted; BLOCK_HAVE_DATA   *)
(* is cleared, nTx and nChainTx are kept, its mapBlocksUnlinked entry is  *)
(* erased, fHavePruned is set.                                             *)
(* Mutant: the file is deleted without recording that pruning happened.   *)
PruneOneBlockFile_NoFlag(b) ==
    /\ PruneMode
    /\ b \in haveData
    /\ nHeight[b] + MinBlocksToKeep <= Height
    /\ haveData' = haveData \ {b}
    /\ unlinked' = unlinked \ {b}
    /\ UNCHANGED <<mapBlockIndex, pprev, nHeight, nValid, failed, chainTx,
                   chainActive, fHavePruned>>

PruneOneBlockFile(b) ==
    /\ PruneMode
    /\ b \in haveData
    /\ nHeight[b] + MinBlocksToKeep <= Height
    /\ haveData' = haveData \ {b}
    /\ unlinked' = unlinked \ {b}
    /\ fHavePruned' = TRUE
    /\ UNCHANGED <<mapBlockIndex, pprev, nHeight, nValid, failed, chainTx,
                   chainActive>>

-----------------------------------------------------------------------------
(* InvalidateBlock (main.cpp): the block gets FAILED_VALID; while the      *)
(* active chain contains it, the tip gets FAILED_CHILD and is disconnected.*)
(* Genesis has no undo data: DisconnectBlock returns false without marking *)
(* the state invalid, so for genesis the loop ends with genesis, flagged,  *)
(* the only block of the chain, and the handler goes on as if it worked.  *)
InvalidateBlock(b) ==
    /\ failed' = failed \cup {b} \cup
         (IF Contains(b)
          THEN {chainActive[i] : i \in nHeight[b] + 1 .. Len(chainActive)}
          ELSE {})
    /\ chainActive' = IF Contains(b)
                      THEN SubSeq(chainActive, 1, IF b = Genesis THEN 1 ELSE nHeight[b])
                      ELSE chainActive

(* ReconsiderBlock (main.cpp): the failure flags of the block, of its      *)
(* descendants and of its ancestors are cleared.                           *)
ReconsiderBlock(b) ==
    failed' = failed \ {a \in mapBlockIndex : IsAncestorOrSelf(b, a) \/ IsAncestorOrSelf(a, b)}

(* InvalidateBlock's loop runs DisconnectTip, which reads each tip from   *)
(* disk; a pruned block makes it fail with AbortNode, so the handler's     *)
(* step is only taken when every block it disconnects still has its data. *)
Disconnectable(b) ==
    Contains(b) => \A i \in nHeight[b] + 1 .. Len(chainActive) : chainActive[i] \in haveData

(* Mutant: the mapBlockIndex lookup ("Block not found") left out.          *)
invalidateblock_NoLookup(b) ==
    /\ Disconnectable(b)
    /\ InvalidateBlock(b)
    /\ UNCHANGED <<mapBlockIndex, pprev, nHeight, nValid, haveData, chainTx,
                   unlinked, fHavePruned>>

(* RPC invalidateblock: "Block not found" unless the hash is indexed;      *)
(* under LOCK(cs_main) InvalidateBlock; the lock is then released and      *)
(* ActivateBestChain runs as the validator's own steps.                    *)
invalidateblock(b) ==
    /\ b \in mapBlockIndex
    /\ Disconnectable(b)
    /\ InvalidateBlock(b)
    /\ UNCHANGED <<mapBlockIndex, pprev, nHeight, nValid, haveData, chainTx,
                   unlinked, fHavePruned>>

(* RPC reconsiderblock: the same, with ReconsiderBlock.                    *)
reconsiderblock(b) ==
    /\ b \in mapBlockIndex
    /\ ReconsiderBlock(b)
    /\ UNCHANGED <<mapBlockIndex, pprev, nHeight, nValid, haveData, chainTx, unlinked,
                   chainActive, fHavePruned>>

-----------------------------------------------------------------------------
Next ==
    \/ \E b \in Blocks, p \in Blocks : AcceptBlockHeader(b, p)
    \/ \E b \in Blocks : AcceptBlock(b)
    \/ \E b \in Blocks : ConnectTip(b)
    \/ \E b \in Blocks : ConnectTipFailed(b)
    \/ DisconnectTip
    \/ \E b \in Blocks : MarkFailedChild(b)
    \/ \E b \in Blocks : PruneOneBlockFile(b)
    \/ \E b \in Blocks : invalidateblock(b)
    \/ \E b \in Blocks : reconsiderblock(b)

Spec == Init /\ [][Next]_vars

-----------------------------------------------------------------------------
TypeOK ==
    /\ mapBlockIndex \subseteq Blocks
    /\ pprev \in [Blocks -> Blocks \cup {NoBlock}]
    /\ nHeight \in [Blocks -> Nat]
    /\ nValid \in [Blocks -> ValidLevels]
    /\ failed \subseteq mapBlockIndex
    /\ haveData \subseteq mapBlockIndex
    /\ chainTx \subseteq mapBlockIndex
    /\ unlinked \subseteq mapBlockIndex
    /\ chainActive \in Seq(mapBlockIndex)
    /\ fHavePruned \in BOOLEAN

(* The index is a tree rooted at genesis: every other entry's pprev is an *)
(* entry one lower (the height rule of AddToBlockIndex).                   *)
IndexIsTree ==
    /\ Genesis \in mapBlockIndex
    /\ pprev[Genesis] = NoBlock
    /\ nHeight[Genesis] = 0
    /\ \A b \in mapBlockIndex \ {Genesis} :
          /\ pprev[b] \in mapBlockIndex
          /\ nHeight[b] = nHeight[pprev[b]] + 1

(* The active chain is the pprev path from genesis to its tip, indexed by *)
(* height: what CChain::Contains, Next and FindFork rely on.              *)
ChainIsPath ==
    /\ Len(chainActive) >= 1
    /\ chainActive[1] = Genesis
    /\ \A i \in 1 .. Len(chainActive) :
          /\ nHeight[chainActive[i]] = i - 1
          /\ i > 1 => pprev[chainActive[i]] = chainActive[i - 1]

(* The getchaintips help text (rpcblockchain.cpp:1048) calls the active   *)
(* tip "certainly valid": no block of the active chain carries a failure   *)
(* flag, across invalidateblock, reconsiderblock and the validator steps   *)
(* that run between them once invalidateblock has released cs_main.       *)
ActiveNotFailed ==
    \A i \in 1 .. Len(chainActive) : chainActive[i] \notin failed

=============================================================================

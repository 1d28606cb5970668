----------------------------- MODULE BlockQueries -----------------------------
(***************************************************************************)
(* The block lookup handlers of rpcblockchain.cpp: getblockcount,          *)
(* getbestblockhash, getblockhash, getblockheader, getblock and the chain  *)
(* fields of getblockchaininfo (the soft-fork majority counts and the      *)
(* prune height).  Each runs under LOCK(cs_main) and changes nothing, so   *)
(* each is an operator over a state of BlockIndex.  A request is a member  *)
(* of a small set of inputs; a reply is an error record or a result.       *)
(***************************************************************************)
EXTENDS ChainTips

CONSTANTS
    BlockVersion,    \* nVersion of the header with each hash
    MajorityWindow   \* consensusParams.nMajorityWindow

ASSUME QueriesAssumption ==
    /\ BlockVersion \in [Blocks -> Nat]
    /\ MajorityWindow \in Nat

Err(msg) == [ok |-> FALSE, error |-> msg]
Ok(v) == [ok |-> TRUE, result |-> v]

-----------------------------------------------------------------------------
(* getblockcount and getbestblockhash.                                      *)
getblockcount == Height

getbestblockhash == Tip

(* getblockhash: an integer parameter, checked against the active height. *)
getblockhash(h) ==
    IF h < 0 \/ h > Height
    THEN Err("Block height out of range")
    ELSE Ok(At(h))

-----------------------------------------------------------------------------
(* The fields of blockheaderToJSON that depend on the index and the chain; *)
(* blockToJSON adds the transactions read from disk to the same fields.    *)
blockheaderToJSON(b) ==
    [hash |-> b, confirmations |-> Confirmations(b), height |-> nHeight[b],
     version |-> BlockVersion[b], previousblockhash |-> Prev(b),
     nextblockhash |-> NextBlockHash(b)]

blockToJSON(b) == blockheaderToJSON(b)

(* getblockheader: "Block not found" unless the hash is indexed.           *)
getblockheader(hash) ==
    IF hash \notin mapBlockIndex
    THEN Err("Block not found")
    ELSE Ok(blockheaderToJSON(hash))

(* nTx > 0: the block's transactions were received once (set by           *)
(* ReceivedBlockTransactions together with BLOCK_VALID_TRANSACTIONS, and  *)
(* kept when the data is pruned).                                          *)
HasTx(b) == nValid[b] >= BLOCK_VALID_TRANSACTIONS

(* ReadBlockFromDisk succeeds for a block whose data is stored.            *)
ReadBlockFromDisk(b) == b \in haveData

(* getblock.  The parameter is told apart as the handler does: a 64-digit *)
(* hash [kind |-> "hash"], a shorter all-digit string std::stoi parses to *)
(* a height [kind |-> "height"], one that is not all digits ("nondigit")  *)
(* and one std::stoi rejects as out of range of int ("overflow").  A      *)
(* height is resolved through chainActive, then the hash is looked up, the *)
(* pruned case is reported, and the block is read from disk.              *)
getblock(param) ==
    IF param.kind \in {"nondigit", "overflow"}
    THEN Err("Invalid block height parameter")
    ELSE IF param.kind = "height" /\ (param.value < 0 \/ param.value > Height)
    THEN Err("Block height out of range")
    ELSE LET hash == IF param.kind = "height" THEN At(param.value) ELSE param.hash
         IN  IF hash \notin mapBlockIndex
             THEN Err("Block not found")
             ELSE IF fHavePruned /\ hash \notin haveData /\ HasTx(hash)
             THEN Err("Block not available (pruned data)")
             ELSE IF ~ ReadBlockFromDisk(hash)
             THEN Err("Can't read block from disk")
             ELSE Ok(blockToJSON(hash))

-----------------------------------------------------------------------------
(* getblockchaininfo.                                                       *)

(* Mutant: the loop runs one block past the window.                        *)
SoftForkFound_PastWindow(minVersion, pindex) ==
    Cardinality({a \in AncestorsOrSelf[pindex] :
                    /\ nHeight[pindex] - nHeight[a] <= MajorityWindow
                    /\ BlockVersion[a] >= minVersion})

(* The loop of SoftForkMajorityDesc: at most nMajorityWindow blocks from   *)
(* pindex down its pprev links, counting those of version >= minVersion.  *)
(* The i-th block visited is the ancestor i below pindex.                  *)
SoftForkFound(minVersion, pindex) ==
    Cardinality({a \in AncestorsOrSelf[pindex] :
                    /\ nHeight[pindex] - nHeight[a] < MajorityWindow
                    /\ BlockVersion[a] >= minVersion})

SoftForkMajorityDesc(minVersion, pindex, nRequired) ==
    LET nFound == SoftForkFound(minVersion, pindex) IN
    [status |-> nFound >= nRequired, found |-> nFound, required |-> nRequired,
     window |-> MajorityWindow]

(* Mutant: the walk tests the block's own data instead of its parent's.   *)
PruneHeightWalk_Self[b \in Blocks] ==
    IF b \in haveData /\ pprev[b] /= NoBlock THEN PruneHeightWalk_Self[pprev[b]] ELSE b

(* while (block && block->pprev && (block->pprev->nStatus &               *)
(* BLOCK_HAVE_DATA)) block = block->pprev;                                 *)
PruneHeightWalk[b \in Blocks] ==
    IF pprev[b] /= NoBlock /\ pprev[b] \in haveData THEN PruneHeightWalk[pprev[b]] ELSE b

(* Mutant: the parent-data walk replaced by the own-data walk.            *)
PruneHeight_Self == nHeight[PruneHeightWalk_Self[Tip]]

(* "pruneheight": the height where the walk from the tip stops.           *)
PruneHeight == nHeight[PruneHeightWalk[Tip]]

(* getblockchaininfo: the fields over the chain; "pruneheight" only in     *)
(* prune mode.  The soft forks are bip34, bip66 and bip65 (versions 2, 3, *)
(* 4); both thresholds are given by the caller's consensus parameters.     *)
getblockchaininfo(nEnforce, nReject) ==
    [blocks |-> Height, bestblockhash |-> Tip, pruned |-> PruneMode,
     softforks |-> [v \in {2, 3, 4} |->
                      [enforce |-> SoftForkMajorityDesc(v, Tip, nEnforce),
                       reject  |-> SoftForkMajorityDesc(v, Tip, nReject)]],
     pruneheight |-> IF PruneMode THEN PruneHeight ELSE NoBlock]

-----------------------------------------------------------------------------
(* Properties.                                                             *)

(* The "found" count of every soft fork equals the number of blocks of at *)
(* least that version among the last nMajorityWindow blocks of the active *)
(* chain (fewer near genesis): the pprev walk from the tip visits exactly  *)
(* those chain positions.                                                  *)
SoftForkCountsWindow ==
    \A v \in {2, 3, 4} :
        getblockchaininfo(1, 1).softforks[v].enforce.found =
            Cardinality({h \in 0 .. Height :
                            /\ h > Height - MajorityWindow
                            /\ BlockVersion[At(h)] >= v})

(* "pruneheight" is the lowest height from which every active block below *)
(* the tip is served by getblock: those blocks all have data, and the one *)
(* just below pruneheight is not served.                                   *)
PruneHeightIsDataBoundary ==
    PruneMode =>
        LET ph == getblockchaininfo(1, 1).pruneheight IN
        /\ \A h \in ph .. Height - 1 : getblock([kind |-> "height", value |-> h]).ok
        /\ ph > 0 => ~ getblock([kind |-> "height", value |-> ph - 1]).ok

(* getblock on an indexed block whose transactions were once received     *)
(* either returns the block or says its data was pruned; it never fails   *)
(* with "Can't read block from disk", which is kept for headers-only      *)
(* blocks.  It needs fHavePruned to be set whenever data is deleted.      *)
MissingDataReportedPruned ==
    \A b \in mapBlockIndex :
        LET r == getblock([kind |-> "hash", hash |-> b]) IN
        /\ HasTx(b) => (r.ok \/ r.error = "Block not available (pruned data)")
        /\ ~ HasTx(b) => ~ r.ok /\ r.error = "Can't read block from disk"

=============================================================================

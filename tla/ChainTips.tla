------------------------------ MODULE ChainTips ------------------------------
(***************************************************************************)
(* The read-side queries of rpcblockchain.cpp over the block index and    *)
(* the active chain: getchaintips (tip discovery, ordering, fork point and *)
(* status of every tip), and the confirmations / nextblockhash fields of   *)
(* getblockheader and getblock.  Each handler runs under LOCK(cs_main) and *)
(* changes nothing, so it is an operator evaluated in a state of the       *)
(* BlockIndex specification; the properties below are invariants of that   *)
(* specification stated over what the handlers return.                     *)
(***************************************************************************)
EXTENDS BlockIndex, Integers

-----------------------------------------------------------------------------
(* CChain::FindFork (chain.cpp): lift a block above the tip down to the    *)
(* tip's height with GetAncestor, then follow pprev until the active chain *)
(* contains the block or the walk falls off genesis.                       *)
ForkStart(b) == IF nHeight[b] > Height THEN GetAncestor(b, Height) ELSE b

ForkWalk[p \in Blocks \cup {NoBlock}] ==
    IF p = NoBlock \/ Contains(p) THEN p ELSE ForkWalk[pprev[p]]

(* Mutant: the lift without the pprev walk.                               *)
FindFork_LiftOnly(b) == ForkStart(b)

FindFork(b) == ForkWalk[ForkStart(b)]

(* CBlockIndex::IsValid(nUpTo): false once a failure flag is set.          *)
IsValid(b, nUpTo) == b \notin failed /\ nValid[b] >= nUpTo

-----------------------------------------------------------------------------
(* getchaintips.                                                           *)

(* Mutant: the comparator without the address tie-break.                  *)
CompareBlocksByHeight_HeightOnly(a, b) == nHeight[a] > nHeight[b]

(* CompareBlocksByHeight: higher first; equal heights by address.          *)
CompareBlocksByHeight(a, b) ==
    IF nHeight[a] /= nHeight[b] THEN nHeight[a] > nHeight[b] ELSE a < b

(* Two keys the std::set treats as the same element.                       *)
Equiv(a, b) == ~ CompareBlocksByHeight(a, b) /\ ~ CompareBlocksByHeight(b, a)

(* Mutant: the defensive insertion of the active tip left out.             *)
setTips_NoTipInsert ==
    LET inserted == {b \in mapBlockIndex :
                        \A c \in mapBlockIndex : Equiv(b, c) => b <= c}
        parents  == {Prev(b) : b \in mapBlockIndex} \ {NoBlock}
    IN  {r \in inserted : ~ \E p \in parents : Equiv(r, p)}

(* The std::set after the handler's three steps: insert every indexed     *)
(* block (the first of equivalent keys stays; mapBlockIndex is iterated   *)
(* here in ascending hash order), erase the key of every non-NULL pprev,  *)
(* insert chainActive.Tip().                                               *)
setTips ==
    LET inserted == {b \in mapBlockIndex :
                        \A c \in mapBlockIndex : Equiv(b, c) => b <= c}
        parents  == {Prev(b) : b \in mapBlockIndex} \ {NoBlock}
        left     == {r \in inserted : ~ \E p \in parents : Equiv(r, p)}
    IN  IF \E r \in left : Equiv(r, Tip) THEN left ELSE left \cup {Tip}

(* std::set<..., CompareBlocksByHeight> iterated in order.                 *)
SortTips(T) ==
    [i \in 1 .. Cardinality(T) |->
        CHOOSE t \in T : Cardinality({u \in T : CompareBlocksByHeight(u, t)}) = i - 1]

(* Mutant: the nChainTx == 0 test left out of the status chain.          *)
TipStatus_NoChainTx(b) ==
    IF Contains(b) THEN "active"
    ELSE IF b \in failed THEN "invalid"
    ELSE IF IsValid(b, BLOCK_VALID_SCRIPTS) THEN "valid-fork"
    ELSE IF IsValid(b, BLOCK_VALID_TREE) THEN "valid-headers"
    ELSE "unknown"

(* The status chain of getchaintips, first match wins.                     *)
TipStatus(b) ==
    IF Contains(b) THEN "active"
    ELSE IF b \in failed THEN "invalid"
    ELSE IF b \notin chainTx THEN "headers-only"
    ELSE IF IsValid(b, BLOCK_VALID_SCRIPTS) THEN "valid-fork"
    ELSE IF IsValid(b, BLOCK_VALID_TREE) THEN "valid-headers"
    ELSE "unknown"

(* One output object: branchlen and status only when FindFork is not NULL. *)
TipEntry(b) ==
    LET forked == FindFork(b) IN
    IF forked /= NoBlock
    THEN [height |-> nHeight[b], hash |-> b, hasFork |-> TRUE,
          branchlen |-> nHeight[b] - nHeight[forked], status |-> TipStatus(b)]
    ELSE [height |-> nHeight[b], hash |-> b, hasFork |-> FALSE,
          branchlen |-> 0, status |-> "none"]

(* The result array.  The handler nests BOOST_FOREACH(block, setTips) in   *)
(* BOOST_FOREACH(block, setTips): the inner loop emits every tip, once for *)
(* each iteration of the outer one.                                        *)
getchaintips ==
    LET s == SortTips(setTips)
        n == Len(s)
    IN  [k \in 1 .. n * n |-> TipEntry(s[((k - 1) % n) + 1])]

-----------------------------------------------------------------------------
(* blockheaderToJSON / blockToJSON.                                         *)

(* Mutant: the depth below the tip for every block, on the chain or not.  *)
Confirmations_NoContains(b) == Height - nHeight[b] + 1

(* "confirmations": only for blocks on the main chain, else -1.            *)
Confirmations(b) == IF Contains(b) THEN Height - nHeight[b] + 1 ELSE -1

(* Mutant: the block at the next height, without chainActive.Next's       *)
(* membership test.                                                        *)
NextBlockHash_NoContains(b) == At(nHeight[b] + 1)

(* "nextblockhash": chainActive.Next(blockindex), NULL when absent.         *)
NextBlockHash(b) == ChainNext(b)

-----------------------------------------------------------------------------
(* Reference definitions the properties compare the handlers against.     *)

ActiveSet == {chainActive[i] : i \in 1 .. Len(chainActive)}

(* The highest common block of b's ancestry and the active chain.          *)
LastCommonBlock(b) ==
    CHOOSE a \in ActiveSet :
        /\ IsAncestorOrSelf(a, b)
        /\ \A c \in ActiveSet : IsAncestorOrSelf(c, b) => nHeight[c] <= nHeight[a]

Entries == LET out == getchaintips IN {out[i] : i \in 1 .. Len(out)}

-----------------------------------------------------------------------------
(* Properties.                                                             *)

(* getchaintips loses no branch: every indexed block lies below some      *)
(* reported tip (the set difference over pprev leaves exactly the leaves, *)
(* and every block is below a leaf).                                       *)
TipsCoverIndex ==
    \A b \in mapBlockIndex : \E e \in Entries : IsAncestorOrSelf(b, e.hash)

(* The active tip is reported with status "active" and branchlen 0, also  *)
(* when it has a child in the index (the defensive insertion), and no     *)
(* other block is reported "active".                                       *)
ActiveTipReported ==
    /\ \E e \in Entries : e.hash = Tip /\ e.status = "active" /\ e.branchlen = 0
    /\ \A e \in Entries : e.status = "active" => e.hash = Tip

(* Every reported tip has a fork point, and branchlen is its height above *)
(* the highest block it shares with the active chain.                      *)
BranchLenIsForkDistance ==
    \A e \in Entries :
        /\ e.hasFork
        /\ e.branchlen = e.height - nHeight[LastCommonBlock(e.hash)]

(* "confirmations" of a block counts the active-chain blocks at or above  *)
(* it on its own branch, -1 for a block off the active chain, also for a  *)
(* side-branch block at a height the chain has.                           *)
ConfirmationsCountDescendants ==
    \A b \in mapBlockIndex :
        Confirmations(b) =
            IF b \in ActiveSet
            THEN Cardinality({a \in ActiveSet : IsAncestorOrSelf(b, a)})
            ELSE -1

(* "nextblockhash" of a block names a child of it with one confirmation   *)
(* fewer, also after a reorganisation has taken the block off the chain   *)
(* (then there is none).                                                   *)
NextBlockHashIsChild ==
    \A b \in mapBlockIndex :
        NextBlockHash(b) /= NoBlock =>
            /\ pprev[NextBlockHash(b)] = b
            /\ Confirmations(NextBlockHash(b)) = Confirmations(b) - 1

(* The comment at rpcblockchain.cpp:1096 and the help text (1045): a tip  *)
(* is "headers-only" (nChainTx == 0) because "full block data for it or   *)
(* one of its parents is missing".                                         *)
HeadersOnlyMeansMissingData ==
    \A e \in Entries :
        e.status = "headers-only" => \E a \in AncestorsOrSelf[e.hash] : a \notin haveData

(* The help text (1046): "valid-headers" means "all blocks are available   *)
(* for this branch".                                                       *)
ValidHeadersDataAvailable ==
    \A e \in Entries :
        e.status = "valid-headers" => \A a \in AncestorsOrSelf[e.hash] : a \in haveData

(* What the nChainTx == 0 test (1095) does guarantee: a tip reported       *)
(* "valid-fork", "valid-headers" or "unknown" had the transactions of      *)
(* every block of its branch received (nTx > 0), whatever order the        *)
(* blocks' data arrived in, was pruned in, and their parents were          *)
(* invalidated and reconsidered in.                                        *)
BranchTxReceived ==
    \A e \in Entries :
        e.status \in {"valid-fork", "valid-headers", "unknown"} =>
            \A a \in AncestorsOrSelf[e.hash] : nValid[a] >= BLOCK_VALID_TRANSACTIONS

(* The help text and the spec: exactly one reported tip is "active".       *)
OneActiveEntry ==
    LET out == getchaintips IN
    Cardinality({i \in 1 .. Len(out) : out[i].status = "active"}) = 1

(* The help text: "invalid" means "this branch contains at least one      *)
(* invalid block"; the spec: a failure flag on the tip or inherited from   *)
(* an ancestor.  Every reported tip of a side branch (not the active tip)  *)
(* below a failed block is "invalid".                                      *)
FailedBranchReportedInvalid ==
    \A e \in Entries :
        /\ e.hash /= Tip
        /\ \E f \in failed : IsAncestorOrSelf(f, e.hash)
        => e.status = "invalid"

=============================================================================

------------------------- MODULE BlockQueriesProofs -------------------------
(***************************************************************************)
(* Proofs about the block lookup handlers of BlockQueries, for every      *)
(* finite set of hashes, every version assignment and every window, and   *)
(* about getchaintips' headers-only status, which reads nChainTx.          *)
(***************************************************************************)
EXTENDS BlockQueries, GetChainTipsProofs

(* The two fields of an error reply, as the handlers build it.            *)
LEMMA ErrFields == ASSUME NEW m PROVE ~ Err(m).ok /\ Err(m).error = m
  BY DEF Err

(* The pprev walk of SoftForkMajorityDesc from the tip, counted as a set  *)
(* of ancestors, is in one-to-one correspondence with the chain heights   *)
(* in the window: the ancestor at height h is chainActive[h].             *)
LEMMA WindowCard ==
    ASSUME TypeData, IndexIsTree, ChainIsPath, NEW v
    PROVE  SoftForkFound(v, Tip) =
               Cardinality({h \in 0 .. Height :
                               /\ h > Height - MajorityWindow
                               /\ BlockVersion[At(h)] >= v})
<1> DEFINE n == Len(chainActive)
           R == {h \in 0 .. Height : /\ h > Height - MajorityWindow
                                     /\ BlockVersion[At(h)] >= v}
           L == {a \in AncestorsOrSelf[Tip] :
                    /\ nHeight[Tip] - nHeight[a] < MajorityWindow
                    /\ BlockVersion[a] >= v}
           f == [h \in R |-> chainActive[h + 1]]
<1> USE QueriesAssumption
<1>1. n \in Nat /\ n >= 1  BY DEF TypeData, ChainIsPath
<1>2. Tip = chainActive[n]  BY <1>1 DEF Tip
<1>3. AncestorsOrSelf[Tip] = {chainActive[j] : j \in 1 .. n}  BY <1>1, <1>2, ChainAnc
<1>4. \A j \in 1 .. n : /\ nHeight[chainActive[j]] = j - 1
                        /\ chainActive[j] \in mapBlockIndex
  BY DEF ChainIsPath, TypeData
<1>5. \A j \in 1 .. n : chainActive[j] \in Blocks  BY <1>4 DEF TypeData
<1>6. nHeight[Tip] = n - 1  BY <1>1, <1>2, <1>4
<1>7. \A h \in 0 .. Height : At(h) = chainActive[h + 1]  BY <1>1 DEF At, Height
<1>8. f \in [R -> L]
  <2> SUFFICES ASSUME NEW h \in R PROVE chainActive[h + 1] \in L  OBVIOUS
  <2>1. h \in 0 .. n - 1 /\ h + 1 \in 1 .. n  BY <1>1 DEF Height
  <2>2. nHeight[chainActive[h + 1]] = h  BY <2>1, <1>4
  <2>3. chainActive[h + 1] \in AncestorsOrSelf[Tip]  BY <1>3, <2>1
  <2>4. nHeight[Tip] - nHeight[chainActive[h + 1]] < MajorityWindow
    BY <1>6, <2>1, <2>2 DEF Height
  <2>5. BlockVersion[chainActive[h + 1]] >= v  BY <1>7, <2>1
  <2>6. QED BY <2>3, <2>4, <2>5
<1>9. \A h, k \in R : f[h] = f[k] => h = k
  <2> TAKE h, k \in R
  <2>1. h + 1 \in 1 .. n /\ k + 1 \in 1 .. n  BY <1>1 DEF Height
  <2>2. QED BY <2>1, <1>4
<1>10. \A a \in L : \E h \in R : f[h] = a
  <2> TAKE a \in L
  <2>1. PICK j \in 1 .. n : a = chainActive[j]  BY <1>3
  <2>2. nHeight[a] = j - 1 /\ BlockVersion[a] >= v
        /\ (n - 1) - (j - 1) < MajorityWindow
    BY <1>4, <1>6, <2>1
  <2>3. j - 1 \in R  BY <1>1, <1>7, <2>1, <2>2 DEF Height
  <2>4. QED BY <2>1, <2>3
<1>11. ExistsBijection(R, L)
  BY <1>8, <1>9, <1>10 DEF ExistsBijection, Bijection, Injection, Surjection,
     IsInjective
<1>12. IsFiniteSet(R)
  <2>1. IsFiniteSet(0 .. Height)  BY <1>1, FS_Interval DEF Height
  <2>2. QED BY <2>1, FS_Subset
<1>13. Cardinality(L) = Cardinality(R)  BY <1>11, <1>12, FS_Bijection
<1>14. QED BY <1>13 DEF SoftForkFound

(* getblockchaininfo's soft-fork "found" counts, in any state whose chain  *)
(* is a path, are the window counts.                                      *)
LEMMA SoftForkHolds == TypeOK /\ IndexIsTree /\ ChainIsPath => SoftForkCountsWindow
<1> SUFFICES ASSUME TypeOK, IndexIsTree, ChainIsPath, NEW v \in {2, 3, 4}
             PROVE  getblockchaininfo(1, 1).softforks[v].enforce.found =
                        Cardinality({h \in 0 .. Height :
                                        /\ h > Height - MajorityWindow
                                        /\ BlockVersion[At(h)] >= v})
  BY DEF SoftForkCountsWindow
<1>1. getblockchaininfo(1, 1).softforks[v].enforce.found = SoftForkFound(v, Tip)
  BY DEF getblockchaininfo, SoftForkMajorityDesc
<1>2. QED BY <1>1, TypeSplit, WindowCard

(* The soft-fork majority counts of getblockchaininfo always count the    *)
(* last nMajorityWindow active blocks, whatever reorganisations,          *)
(* invalidateblock and reconsiderblock steps came before.                 *)
THEOREM SoftForkCountsWindowInvariant == Spec => []SoftForkCountsWindow
<1>1. IInv => SoftForkCountsWindow  BY SoftForkHolds DEF IInv
<1>2. QED BY <1>1, InitIInv, NextIInv, PTL DEF Spec


-----------------------------------------------------------------------------
(* The prune-height walk.  PruneHeightWalk is a recursive function; what   *)
(* it computes is named without recursion first: the ancestors a walk from *)
(* x may reach are those below which, up to x, every block has its data,  *)
(* and the walk stops at the lowest of them.                               *)

(* The loop condition: block->pprev && (block->pprev->nStatus & HAVE_DATA). *)
WalkStep(b) == pprev[b] /= NoBlock /\ pprev[b] \in haveData

DataRun(x) ==
    {a \in AncestorsOrSelf[x] :
        \A c \in AncestorsOrSelf[x] :
            nHeight[a] <= nHeight[c] /\ nHeight[c] < nHeight[x] => c \in haveData}

RunBottom(x) == CHOOSE a \in DataRun(x) : \A c \in DataRun(x) : nHeight[a] <= nHeight[c]

(* The lowest block of a run exists.                                        *)
LEMMA RunBottomSpec ==
    ASSUME TypeData, IndexIsTree, NEW x \in mapBlockIndex
    PROVE  /\ RunBottom(x) \in DataRun(x)
           /\ \A c \in DataRun(x) : nHeight[RunBottom(x)] <= nHeight[c]
<1> DEFINE T == {nHeight[a] : a \in DataRun(x)}
<1>1. x \in DataRun(x)
  <2>1. x \in AncestorsOrSelf[x]  BY AncSelf
  <2>2. \A c \in AncestorsOrSelf[x] : nHeight[c] \in Nat /\ nHeight[c] <= nHeight[x]
    BY AncInIndex DEF TypeData
  <2>3. QED BY <2>1, <2>2 DEF DataRun
<1>2. T \in SUBSET Nat /\ T /= {}
  <2>1. DataRun(x) \subseteq mapBlockIndex  BY AncInIndex DEF DataRun
  <2>2. QED BY <1>1, <2>1 DEF TypeData
<1>3. PICK m \in T : \A k \in T : m <= k  BY <1>2, NatMin
<1>4. \E a \in DataRun(x) : \A c \in DataRun(x) : nHeight[a] <= nHeight[c]  BY <1>3
<1>5. QED BY <1>4 DEF RunBottom

(* Where the loop condition fails, the walk stops at once.                  *)
LEMMA RunStop ==
    ASSUME TypeData, IndexIsTree, NEW x \in mapBlockIndex, ~ WalkStep(x)
    PROVE  RunBottom(x) = x
<1> DEFINE m == RunBottom(x)
<1>1. m \in DataRun(x)  BY RunBottomSpec
<1>2. m \in AncestorsOrSelf[x] /\ m \in mapBlockIndex /\ nHeight[m] <= nHeight[x]
  BY <1>1, AncInIndex DEF DataRun
<1>3. SUFFICES ASSUME m /= x PROVE FALSE  OBVIOUS
<1>4. nHeight[m] < nHeight[x]
  <2>1. nHeight[m] /= nHeight[x]  BY <1>2, <1>3, AncSameHeight
  <2>2. QED BY <1>2, <2>1 DEF TypeData
<1>5. x /= Genesis  BY <1>2, <1>3, AncStep
<1>6. pprev[x] \in mapBlockIndex /\ nHeight[x] = nHeight[pprev[x]] + 1
      /\ pprev[x] \in AncestorsOrSelf[x]
  BY <1>5, AncStep, AncSelf
<1>7. nHeight[m] <= nHeight[pprev[x]] /\ nHeight[pprev[x]] < nHeight[x]
  BY <1>2, <1>4, <1>6 DEF TypeData
<1>8. pprev[x] \in haveData  BY <1>1, <1>6, <1>7 DEF DataRun
<1>9. pprev[x] /= NoBlock  BY <1>6, BlocksAssumption DEF TypeData, NoBlock
<1>10. QED BY <1>8, <1>9 DEF WalkStep


(* Where the loop condition holds, the walk ends where the parent's walk   *)
(* ends.                                                                   *)
LEMMA RunStep ==
    ASSUME TypeData, IndexIsTree, NEW x \in mapBlockIndex, WalkStep(x)
    PROVE  /\ pprev[x] \in mapBlockIndex
           /\ RunBottom(x) = RunBottom(pprev[x])
<1> DEFINE p == pprev[x]
           m == RunBottom(x)
           q == RunBottom(p)
<1>1. x /= Genesis  BY DEF WalkStep, IndexIsTree
<1>2. /\ p \in mapBlockIndex /\ nHeight[x] = nHeight[p] + 1
      /\ AncestorsOrSelf[x] = {x} \cup AncestorsOrSelf[p]
  BY <1>1, AncStep
<1>3. p \in haveData  BY DEF WalkStep
<1>4. \A c \in AncestorsOrSelf[x] : c \in mapBlockIndex /\ nHeight[c] \in Nat
  BY AncInIndex DEF TypeData
<1>5. \A c \in AncestorsOrSelf[p] : nHeight[c] <= nHeight[p]  BY <1>2, AncInIndex
<1>6. nHeight[p] \in Nat /\ nHeight[x] \in Nat  BY <1>2 DEF TypeData
(* The parent's lowest block is in the run from x ... *)
<1>7. q \in DataRun(x)
  <2>1. q \in AncestorsOrSelf[p] /\ q \in DataRun(p)  BY <1>2, RunBottomSpec DEF DataRun
  <2>2. ASSUME NEW c \in AncestorsOrSelf[x], nHeight[q] <= nHeight[c],
               nHeight[c] < nHeight[x]
        PROVE  c \in haveData
    <3>1. c /= x  BY <1>6, <2>2
    <3>2. c \in AncestorsOrSelf[p]  BY <1>2, <3>1
    <3>3. CASE nHeight[c] < nHeight[p]  BY <2>1, <2>2, <3>2, <3>3 DEF DataRun
    <3>4. CASE nHeight[c] = nHeight[p]  BY <1>2, <1>3, <3>2, <3>4, AncSameHeight
    <3>5. QED BY <1>4, <1>5, <1>6, <3>2, <3>3, <3>4
  <2>3. QED BY <1>2, <2>1, <2>2 DEF DataRun
(* ... and no block of that run is lower. *)
<1>8. ASSUME NEW c \in DataRun(x) PROVE nHeight[q] <= nHeight[c]
  <2>1. q \in AncestorsOrSelf[p]  BY <1>2, RunBottomSpec DEF DataRun
  <2>2. nHeight[q] <= nHeight[p] /\ nHeight[q] \in Nat  BY <1>2, <1>5, <1>4, <2>1
  <2>3. CASE c = x  BY <1>2, <1>6, <2>2, <2>3
  <2>4. CASE c /= x
    <3>1. c \in AncestorsOrSelf[p]  BY <1>2, <2>4 DEF DataRun
    <3>2. c \in DataRun(p)
      <4>1. ASSUME NEW d \in AncestorsOrSelf[p], nHeight[c] <= nHeight[d],
                   nHeight[d] < nHeight[p]
            PROVE  d \in haveData
        <5>1. d \in AncestorsOrSelf[x]  BY <1>2
        <5>2. nHeight[d] < nHeight[x]  BY <1>2, <1>4, <1>6, <4>1, <5>1
        <5>3. QED BY <4>1, <5>1, <5>2 DEF DataRun
      <4>2. QED BY <3>1, <4>1 DEF DataRun
    <3>3. QED BY <1>2, <3>2, RunBottomSpec
  <2>5. QED BY <2>3, <2>4
<1>9. m \in DataRun(x) /\ nHeight[m] <= nHeight[q]  BY <1>7, RunBottomSpec
<1>10. nHeight[q] <= nHeight[m]  BY <1>8, <1>9
<1>11. m \in AncestorsOrSelf[x] /\ q \in AncestorsOrSelf[x]  BY <1>7, <1>9 DEF DataRun
<1>12. nHeight[m] = nHeight[q]  BY <1>4, <1>9, <1>10, <1>11
<1>13. QED BY <1>2, <1>11, <1>12, AncHeightInjective

(* The equation that defines PruneHeightWalk.                              *)
WalkEquation(F) ==
    F = [b \in Blocks |-> IF WalkStep(b) THEN F[pprev[b]] ELSE b]

(* PruneHeightWalk satisfies its equation in a tree-shaped index: the     *)
(* lowest-block function, extended past the index by one step, solves it. *)
LEMMA WalkUnfold ==
    ASSUME TypeData, IndexIsTree
    PROVE  WalkEquation(PruneHeightWalk)
<1> DEFINE g == [b \in Blocks |-> IF b \in mapBlockIndex THEN RunBottom(b)
                                  ELSE IF WalkStep(b) THEN RunBottom(pprev[b])
                                  ELSE b]
<1>1. ASSUME NEW b \in Blocks
      PROVE  g[b] = IF WalkStep(b) THEN g[pprev[b]] ELSE b
  <2>1. WalkStep(b) => pprev[b] \in mapBlockIndex /\ pprev[b] \in Blocks
    BY DEF WalkStep, TypeData
  <2>2. CASE b \in mapBlockIndex /\ WalkStep(b)  BY <2>1, <2>2, RunStep
  <2>3. CASE b \in mapBlockIndex /\ ~ WalkStep(b)  BY <2>3, RunStop
  <2>4. CASE b \notin mapBlockIndex  BY <2>1, <2>4
  <2>5. QED BY <2>2, <2>3, <2>4
<1>2. \E F : WalkEquation(F)
  <2>1. WalkEquation(g)  BY <1>1 DEF WalkEquation
  <2>2. QED BY <2>1
<1>3. QED BY <1>2 DEF WalkEquation, PruneHeightWalk, WalkStep

(* On the index, PruneHeightWalk computes the lowest block of the run.     *)
LEMMA WalkIsRunBottom ==
    ASSUME TypeData, IndexIsTree, NEW x \in mapBlockIndex
    PROVE  PruneHeightWalk[x] = RunBottom(x)
<1> DEFINE Bad == {y \in mapBlockIndex : PruneHeightWalk[y] /= RunBottom(y)}
<1>1. WalkEquation(PruneHeightWalk)  BY WalkUnfold
<1>2. ASSUME NEW y \in Bad PROVE y /= Genesis /\ pprev[y] \in Bad
  <2>1. y \in Blocks  BY DEF TypeData
  <2>2. WalkStep(y)  BY <1>1, <2>1, RunStop DEF WalkEquation
  <2>3. pprev[y] \in mapBlockIndex /\ RunBottom(y) = RunBottom(pprev[y])  BY <2>2, RunStep
  <2>4. PruneHeightWalk[y] = PruneHeightWalk[pprev[y]]  BY <1>1, <2>1, <2>2 DEF WalkEquation
  <2>5. y /= Genesis  BY <2>2 DEF WalkStep, IndexIsTree
  <2>6. QED BY <2>3, <2>4, <2>5
<1>3. Bad = {}  BY <1>2, IndexInduction
<1>4. QED BY <1>3


(* getblock by height, on an active height: the block is returned exactly *)
(* when its data is stored.                                                *)
LEMMA GetblockAtHeight ==
    ASSUME TypeData, NEW h \in 0 .. Height, At(h) \in mapBlockIndex
    PROVE  getblock([kind |-> "height", value |-> h]).ok <=> At(h) \in haveData
<1>1. getblock([kind |-> "height", value |-> h]) =
          IF fHavePruned /\ At(h) \notin haveData /\ HasTx(At(h))
          THEN Err("Block not available (pruned data)")
          ELSE IF ~ ReadBlockFromDisk(At(h))
          THEN Err("Can't read block from disk")
          ELSE Ok(blockToJSON(At(h)))
  <2>1. Height \in Int  BY DEF Height, TypeData
  <2>2. ~ (h < 0 \/ h > Height)  BY <2>1
  <2>3. "height" \notin {"nondigit", "overflow"}  OBVIOUS
  <2>4. QED BY <2>2, <2>3 DEF getblock
<1>2. CASE At(h) \in haveData
  <2>1. getblock([kind |-> "height", value |-> h]) = Ok(blockToJSON(At(h)))
    BY <1>1, <1>2 DEF ReadBlockFromDisk
  <2>2. QED BY <1>2, <2>1 DEF Ok
<1>3. CASE At(h) \notin haveData
  <2>1. \/ getblock([kind |-> "height", value |-> h]) = Err("Block not available (pruned data)")
        \/ getblock([kind |-> "height", value |-> h]) = Err("Can't read block from disk")
    BY <1>1, <1>3 DEF ReadBlockFromDisk
  <2>2. QED BY <1>3, <2>1, ErrFields
<1>4. QED BY <1>2, <1>3

(* On a path-shaped chain, "pruneheight" is the data boundary below the   *)
(* tip.                                                                   *)
LEMMA PruneBoundaryHolds ==
    TypeOK /\ IndexIsTree /\ ChainIsPath => PruneHeightIsDataBoundary
<1> SUFFICES ASSUME TypeOK, IndexIsTree, ChainIsPath, PruneMode
             PROVE  /\ \A h \in PruneHeight .. Height - 1 :
                          getblock([kind |-> "height", value |-> h]).ok
                    /\ PruneHeight > 0 =>
                          ~ getblock([kind |-> "height", value |-> PruneHeight - 1]).ok
  BY DEF PruneHeightIsDataBoundary, getblockchaininfo
<1> DEFINE n == Len(chainActive)
           lo == RunBottom(Tip)
<1> USE BlocksAssumption
<1>0. TypeData  BY TypeSplit
<1>1. n \in Nat /\ n >= 1 /\ Tip = chainActive[n]  BY <1>0 DEF TypeData, ChainIsPath, Tip
<1>2. \A j \in 1 .. n : /\ nHeight[chainActive[j]] = j - 1
                        /\ chainActive[j] \in mapBlockIndex
                        /\ j > 1 => pprev[chainActive[j]] = chainActive[j - 1]
  BY <1>0 DEF ChainIsPath, TypeData
<1>3. Tip \in mapBlockIndex /\ nHeight[Tip] = n - 1  BY <1>1, <1>2
<1>4. AncestorsOrSelf[Tip] = {chainActive[j] : j \in 1 .. n}  BY <1>0, <1>1, ChainAnc
<1>5. PruneHeight = nHeight[lo]  BY <1>0, <1>3, WalkIsRunBottom DEF PruneHeight
<1>6. lo \in DataRun(Tip) /\ \A c \in DataRun(Tip) : nHeight[lo] <= nHeight[c]
  BY <1>0, <1>3, RunBottomSpec
<1>7. PICK k \in 1 .. n : lo = chainActive[k]  BY <1>4, <1>6 DEF DataRun
<1>8. PruneHeight = k - 1  BY <1>2, <1>5, <1>7
<1>9. \A h \in 0 .. Height : At(h) = chainActive[h + 1] /\ h + 1 \in 1 .. n
  BY <1>1 DEF At, Height
(* Every active block from pruneheight up to just below the tip has data. *)
<1>10. ASSUME NEW h \in PruneHeight .. Height - 1
       PROVE  getblock([kind |-> "height", value |-> h]).ok
  <2>1. h \in 0 .. Height  BY <1>1, <1>8 DEF Height
  <2>2. At(h) \in AncestorsOrSelf[Tip] /\ nHeight[At(h)] = h /\ At(h) \in mapBlockIndex
    BY <1>2, <1>4, <1>9, <2>1
  <2>3. nHeight[lo] <= nHeight[At(h)] /\ nHeight[At(h)] < nHeight[Tip]
    BY <1>3, <1>5, <1>8, <2>2 DEF Height
  <2>4. At(h) \in haveData  BY <1>6, <2>2, <2>3 DEF DataRun
  <2>5. QED BY <1>0, <2>1, <2>2, <2>4, GetblockAtHeight
(* The block just below pruneheight has none. *)
<1>11. ASSUME PruneHeight > 0
       PROVE  ~ getblock([kind |-> "height", value |-> PruneHeight - 1]).ok
  <2> DEFINE p == chainActive[k - 1]
  <2>1. k > 1 /\ k - 1 \in 1 .. n  BY <1>8, <1>11
  <2>2. p \in AncestorsOrSelf[Tip] /\ p \in mapBlockIndex /\ nHeight[p] = k - 2
    BY <1>2, <1>4, <2>1
  <2>3. p \notin haveData
    <3>1. SUFFICES ASSUME p \in haveData PROVE FALSE  OBVIOUS
    <3>2. \A c \in AncestorsOrSelf[Tip] : c \in mapBlockIndex /\ nHeight[c] \in Nat
      BY <1>0, <1>3, AncInIndex DEF TypeData
    <3>3. ASSUME NEW c \in AncestorsOrSelf[Tip], nHeight[p] <= nHeight[c],
                 nHeight[c] < nHeight[Tip]
          PROVE  c \in haveData
      <4>1. CASE nHeight[c] = nHeight[p]
        BY <1>0, <1>3, <2>2, <3>1, <3>3, <4>1, AncHeightInjective
      <4>2. CASE nHeight[c] /= nHeight[p]
        <5>1. nHeight[lo] <= nHeight[c]  BY <1>2, <1>7, <2>2, <3>2, <3>3, <4>2
        <5>2. QED BY <1>6, <3>3, <5>1 DEF DataRun
      <4>3. QED BY <4>1, <4>2
    <3>4. p \in DataRun(Tip)  BY <2>2, <3>3 DEF DataRun
    <3>5. QED BY <1>2, <1>6, <1>7, <2>2, <3>4
  <2>4. PruneHeight - 1 \in 0 .. Height /\ At(PruneHeight - 1) = p
    BY <1>1, <1>8, <1>9, <2>1 DEF Height
  <2>5. QED BY <1>0, <2>2, <2>3, <2>4, GetblockAtHeight
<1>12. QED BY <1>10, <1>11

(* "pruneheight" of getblockchaininfo is, in every reachable state, the   *)
(* lowest height from which getblock serves every active block below the  *)
(* tip, after any interleaving of accept, connect, prune, invalidateblock *)
(* and reconsiderblock steps.                                              *)
THEOREM PruneHeightIsDataBoundaryInvariant == Spec => []PruneHeightIsDataBoundary
<1>1. IInv => PruneHeightIsDataBoundary  BY PruneBoundaryHolds DEF IInv
<1>2. QED BY <1>1, InitIInv, NextIInv, PTL DEF Spec


(* What the block-data flags satisfy, beyond their types: an entry not in *)
(* the index has never been touched; a block with data has had its        *)
(* transactions counted (nTx > 0, set with BLOCK_VALID_TRANSACTIONS in     *)
(* ReceivedBlockTransactions); and a counted block without data lost it   *)
(* to pruning, which set fHavePruned.                                      *)
DataInv ==
    /\ \A b \in Blocks \ mapBlockIndex : nValid[b] = 0
    /\ \A b \in haveData : HasTx(b)
    /\ \A b \in mapBlockIndex : HasTx(b) /\ b \notin haveData => fHavePruned

LEMMA InitDataInv == Init => DataInv
  BY BlocksAssumption DEF Init, DataInv, HasTx, BLOCK_VALID_SCRIPTS,
     BLOCK_VALID_TRANSACTIONS

LEMMA NextDataInv == IInv /\ DataInv /\ [Next]_vars => DataInv'
<1>s. SUFFICES ASSUME IInv, DataInv, [Next]_vars PROVE DataInv'
  OBVIOUS
<1> USE BlocksAssumption
<1>0. TypeData  BY <1>s, TypeSplit DEF IInv
(* The steps that leave the index, the flags and fHavePruned alone.        *)
<1>u. ASSUME UNCHANGED <<mapBlockIndex, nValid, haveData, fHavePruned>>
      PROVE  DataInv'
  BY <1>s, <1>u DEF DataInv, HasTx
<1>1. ASSUME NEW b \in Blocks, NEW p \in Blocks, AcceptBlockHeader(b, p)
      PROVE  DataInv'
  <2>1. /\ b \notin mapBlockIndex /\ b \notin haveData
        /\ mapBlockIndex' = mapBlockIndex \cup {b}
        /\ nValid' = [nValid EXCEPT ![b] = BLOCK_VALID_TREE]
        /\ UNCHANGED <<haveData, fHavePruned>>
    BY <1>0, <1>1 DEF AcceptBlockHeader, TypeData
  <2>2. nValid'[b] = BLOCK_VALID_TREE  BY <1>0, <2>1 DEF TypeData
  <2>3. ~ HasTx(b)'  BY <2>2 DEF HasTx, BLOCK_VALID_TREE, BLOCK_VALID_TRANSACTIONS
  <2>4. QED BY <1>s, <2>1, <2>3 DEF DataInv, HasTx
<1>2. ASSUME NEW b \in Blocks, AcceptBlock(b) PROVE DataInv'
  <2>1. /\ b \in mapBlockIndex
        /\ haveData' = haveData \cup {b}
        /\ nValid' = [nValid EXCEPT ![b] = IF @ < BLOCK_VALID_TRANSACTIONS
                                           THEN BLOCK_VALID_TRANSACTIONS ELSE @]
        /\ UNCHANGED <<mapBlockIndex, fHavePruned>>
    BY <1>2 DEF AcceptBlock
  <2>2. nValid \in [Blocks -> Nat]  BY <1>0 DEF TypeData, ValidLevels,
          BLOCK_VALID_TREE, BLOCK_VALID_TRANSACTIONS, BLOCK_VALID_SCRIPTS
  <2>3. HasTx(b)'  BY <2>1, <2>2 DEF HasTx, BLOCK_VALID_TRANSACTIONS
  <2>4. \A c \in Blocks \ {b} : nValid'[c] = nValid[c]  BY <2>1, <2>2
  <2>5. QED BY <1>s, <2>1, <2>3, <2>4 DEF DataInv, HasTx
<1>3. ASSUME NEW b \in Blocks, ConnectTip(b) PROVE DataInv'
  <2>1. /\ b \in mapBlockIndex /\ b \in haveData
        /\ nValid' = [nValid EXCEPT ![b] = BLOCK_VALID_SCRIPTS]
        /\ UNCHANGED <<mapBlockIndex, haveData, fHavePruned>>
    BY <1>3 DEF ConnectTip, CanConnect
  <2>2. nValid \in [Blocks -> Nat]  BY <1>0 DEF TypeData, ValidLevels,
          BLOCK_VALID_TREE, BLOCK_VALID_TRANSACTIONS, BLOCK_VALID_SCRIPTS
  <2>3. HasTx(b)'  BY <2>1, <2>2 DEF HasTx, BLOCK_VALID_TRANSACTIONS, BLOCK_VALID_SCRIPTS
  <2>4. \A c \in Blocks \ {b} : nValid'[c] = nValid[c]  BY <2>1, <2>2
  <2>5. QED BY <1>s, <2>1, <2>3, <2>4 DEF DataInv, HasTx
<1>4. ASSUME NEW b \in Blocks, PruneOneBlockFile(b) PROVE DataInv'
  <2>1. /\ haveData' = haveData \ {b} /\ fHavePruned' = TRUE
        /\ UNCHANGED <<mapBlockIndex, nValid>>
    BY <1>4 DEF PruneOneBlockFile
  <2>2. QED BY <1>s, <2>1 DEF DataInv, HasTx
<1>5. QED
  BY <1>s, <1>u, <1>1, <1>2, <1>3, <1>4
  DEF Next, vars, ConnectTipFailed, DisconnectTip, MarkFailedChild,
      invalidateblock, reconsiderblock

(* getblock by hash, on an entry, as the three invariants make it answer.  *)
LEMMA MissingDataHolds == TypeOK /\ DataInv => MissingDataReportedPruned
<1> SUFFICES ASSUME TypeOK, DataInv, NEW b \in mapBlockIndex,
                    NEW r, r = getblock([kind |-> "hash", hash |-> b])
             PROVE  /\ HasTx(b) => (r.ok \/ r.error = "Block not available (pruned data)")
                    /\ ~ HasTx(b) => ~ r.ok /\ r.error = "Can't read block from disk"
  BY DEF MissingDataReportedPruned
<1>1. r = IF fHavePruned /\ b \notin haveData /\ HasTx(b)
          THEN Err("Block not available (pruned data)")
          ELSE IF ~ ReadBlockFromDisk(b)
          THEN Err("Can't read block from disk")
          ELSE Ok(blockToJSON(b))
  BY DEF getblock
<1>2. CASE b \in haveData
  <2>1. r = Ok(blockToJSON(b))  BY <1>1, <1>2 DEF ReadBlockFromDisk
  <2>2. HasTx(b)  BY <1>2 DEF DataInv
  <2>3. r.ok  BY <2>1 DEF Ok
  <2>4. QED BY <2>2, <2>3
<1>3. CASE b \notin haveData /\ HasTx(b)
  <2>1. fHavePruned  BY <1>3 DEF DataInv
  <2>2. r = Err("Block not available (pruned data)")  BY <1>1, <1>3, <2>1
  <2>3. r.error = "Block not available (pruned data)"
    BY <2>2, ErrFields
  <2>4. QED BY <1>3, <2>3
<1>4. CASE b \notin haveData /\ ~ HasTx(b)
  <2>1. r = Err("Can't read block from disk")  BY <1>1, <1>4 DEF ReadBlockFromDisk
  <2>2. ~ r.ok /\ r.error = "Can't read block from disk"
    BY <2>1, ErrFields
  <2>3. QED BY <1>4, <2>2
<1>5. QED BY <1>2, <1>3, <1>4

(* getblock never says "Can't read block from disk" of a block whose      *)
(* transactions were received: once pruning has deleted data it answers   *)
(* "Block not available (pruned data)", whatever accept, connect, prune,   *)
(* invalidateblock and reconsiderblock steps came before.                  *)
THEOREM MissingDataReportedPrunedInvariant == Spec => []MissingDataReportedPruned
<1>1. IInv /\ DataInv => MissingDataReportedPruned
  BY MissingDataHolds DEF IInv
<1>2. IInv /\ DataInv /\ [Next]_vars => (IInv /\ DataInv)'
  BY NextIInv, NextDataInv
<1>3. QED BY <1>1, <1>2, InitIInv, InitDataInv, PTL DEF Spec

(* Every step keeps or raises every validity level: a new header's hash   *)
(* had level 0 (DataInv), AcceptBlock raises to BLOCK_VALID_TRANSACTIONS  *)
(* only from below, and ConnectTip sets the top level.                     *)
LEMMA NextRaisesValidity ==
    IInv /\ DataInv /\ [Next]_vars => \A b \in Blocks : nValid'[b] >= nValid[b]
<1>s. SUFFICES ASSUME IInv, DataInv, [Next]_vars
               PROVE  \A c \in Blocks : nValid'[c] >= nValid[c]
  OBVIOUS
<1>0. TypeData  BY <1>s, TypeSplit DEF IInv
<1>v. nValid \in [Blocks -> ValidLevels]  BY <1>0 DEF TypeData
<1>n. nValid \in [Blocks -> Nat] /\ \A c \in Blocks : nValid[c] <= BLOCK_VALID_SCRIPTS
  BY <1>v DEF ValidLevels, BLOCK_VALID_TREE, BLOCK_VALID_TRANSACTIONS,
     BLOCK_VALID_SCRIPTS
<1>u. ASSUME UNCHANGED nValid PROVE \A c \in Blocks : nValid'[c] >= nValid[c]
  BY <1>n, <1>u
<1>1. ASSUME NEW b \in Blocks, NEW p \in Blocks, AcceptBlockHeader(b, p)
      PROVE  \A c \in Blocks : nValid'[c] >= nValid[c]
  <2>1. b \notin mapBlockIndex /\ nValid' = [nValid EXCEPT ![b] = BLOCK_VALID_TREE]
    BY <1>1 DEF AcceptBlockHeader
  <2>2. nValid[b] = 0  BY <1>s, <2>1 DEF DataInv
  <2>3. QED BY <1>n, <2>1, <2>2 DEF BLOCK_VALID_TREE
<1>2. ASSUME NEW b \in Blocks, AcceptBlock(b)
      PROVE  \A c \in Blocks : nValid'[c] >= nValid[c]
  <2>1. nValid' = [nValid EXCEPT ![b] = IF @ < BLOCK_VALID_TRANSACTIONS
                                       THEN BLOCK_VALID_TRANSACTIONS ELSE @]
    BY <1>2 DEF AcceptBlock
  <2>2. QED BY <1>n, <2>1 DEF BLOCK_VALID_TRANSACTIONS
<1>3. ASSUME NEW b \in Blocks, ConnectTip(b)
      PROVE  \A c \in Blocks : nValid'[c] >= nValid[c]
  <2>1. nValid' = [nValid EXCEPT ![b] = BLOCK_VALID_SCRIPTS]  BY <1>3 DEF ConnectTip
  <2>2. QED BY <1>n, <2>1
<1>4. QED
  BY <1>s, <1>u, <1>1, <1>2, <1>3
  DEF Next, vars, ConnectTipFailed, DisconnectTip, MarkFailedChild,
      PruneOneBlockFile, invalidateblock, reconsiderblock

-----------------------------------------------------------------------------
(* nChainTx > 0, the chainTx set: genesis has it; a block that has it had *)
(* its transactions received, and so did its parent; and every entry of   *)
(* mapBlocksUnlinked has its data, since PruneOneBlockFile erases the      *)
(* entry of the block it prunes.                                           *)
ChainTxInv ==
    /\ Genesis \in chainTx
    /\ \A b \in chainTx : HasTx(b) /\ (b /= Genesis => pprev[b] \in chainTx)
    /\ unlinked \subseteq haveData

LEMMA InitChainTxInv == Init => ChainTxInv
<1> SUFFICES ASSUME Init PROVE ChainTxInv  OBVIOUS
<1>1. chainTx = {Genesis} /\ unlinked = {}  BY DEF Init
<1>2. nValid[Genesis] = BLOCK_VALID_SCRIPTS  BY BlocksAssumption DEF Init
<1>3. HasTx(Genesis)  BY <1>2 DEF HasTx, BLOCK_VALID_SCRIPTS, BLOCK_VALID_TRANSACTIONS
<1>4. QED BY <1>1, <1>3 DEF ChainTxInv

(* ReceivedBlockTransactions' walk reaches, besides b itself, only entries *)
(* of mapBlocksUnlinked, each under a block the walk reached before.       *)
LEMMA LinkedToStep ==
    ASSUME TypeData, IndexIsTree, NEW b \in mapBlockIndex, NEW d \in LinkedTo(b), d /= b
    PROVE  /\ d \in unlinked
           /\ d /= Genesis
           /\ pprev[d] \in LinkedTo(b)
<1>1. /\ d \in mapBlockIndex /\ b \in AncestorsOrSelf[d]
      /\ \A a \in AncestorsOrSelf[d] : nHeight[a] > nHeight[b] => a \in unlinked
  BY DEF LinkedTo, IsAncestorOrSelf
<1>2. nHeight[b] <= nHeight[d] /\ nHeight[b] \in Nat /\ nHeight[d] \in Nat
  BY <1>1, AncInIndex DEF TypeData
<1>3. nHeight[b] /= nHeight[d]  BY <1>1, AncSameHeight
<1>4. d \in unlinked  BY <1>1, <1>2, <1>3, AncSelf
<1>5. d /= Genesis  BY <1>1, AncStep
<1>6. /\ pprev[d] \in mapBlockIndex
      /\ AncestorsOrSelf[d] = {d} \cup AncestorsOrSelf[pprev[d]]
  BY <1>1, <1>5, AncStep
<1>7. b \in AncestorsOrSelf[pprev[d]]  BY <1>1, <1>6
<1>8. pprev[d] /= NoBlock  BY <1>6, BlocksAssumption DEF TypeData, NoBlock
<1>9. \A a \in AncestorsOrSelf[pprev[d]] : nHeight[a] > nHeight[b] => a \in unlinked
  BY <1>1, <1>6
<1>10. pprev[d] \in LinkedTo(b)  BY <1>6, <1>7, <1>8, <1>9 DEF LinkedTo, IsAncestorOrSelf
<1>11. QED BY <1>4, <1>5, <1>10

(* Every step keeps ChainTxInv: a new header has neither data nor         *)
(* nChainTx; AcceptBlock gives nChainTx to b, whose parent has it, and to *)
(* entries of mapBlocksUnlinked under blocks that get it, and adds to      *)
(* mapBlocksUnlinked only the block whose data it stores; pruning drops    *)
(* data and the mapBlocksUnlinked entry together; the rest leave the       *)
(* links, the data, mapBlocksUnlinked and nChainTx alone.                  *)
LEMMA NextChainTxInv ==
    IInv /\ DataInv /\ ChainTxInv /\ [Next]_vars => ChainTxInv'
<1>s. SUFFICES ASSUME IInv, DataInv, ChainTxInv, [Next]_vars PROVE ChainTxInv'
  OBVIOUS
<1>0. TypeData /\ IndexIsTree  BY <1>s, TypeSplit DEF IInv
<1>v. TypeData'
  <2>1. IInv'  BY <1>s, NextIInv
  <2>2. QED BY <2>1 DEF IInv, TypeOK, TypeData
<1>r. \A c \in Blocks : nValid'[c] >= nValid[c]  BY <1>s, NextRaisesValidity
<1>h. ASSUME NEW c \in Blocks, HasTx(c) PROVE HasTx(c)'
  <2>0. nValid \in [Blocks -> ValidLevels] /\ nValid' \in [Blocks -> ValidLevels]
    BY <1>0, <1>v DEF TypeData
  <2>1. nValid[c] \in Nat /\ nValid'[c] \in Nat
    BY <2>0 DEF ValidLevels, BLOCK_VALID_TREE, BLOCK_VALID_TRANSACTIONS,
       BLOCK_VALID_SCRIPTS
  <2>2. nValid'[c] >= nValid[c] /\ nValid[c] >= BLOCK_VALID_TRANSACTIONS
    BY <1>h, <1>r DEF HasTx
  <2>3. QED BY <2>1, <2>2 DEF HasTx, BLOCK_VALID_TRANSACTIONS
<1>t. \A c \in chainTx : HasTx(c)'  BY <1>s, <1>0, <1>h DEF ChainTxInv, TypeData
(* The steps that leave the links, nChainTx, the data and                *)
(* mapBlocksUnlinked alone.                                                *)
<1>p. ASSUME UNCHANGED <<pprev, chainTx, haveData, unlinked>> PROVE ChainTxInv'
  BY <1>s, <1>p, <1>t DEF ChainTxInv
<1>1. ASSUME NEW b \in Blocks, NEW p \in Blocks, AcceptBlockHeader(b, p)
      PROVE  ChainTxInv'
  <2>1. /\ b \notin mapBlockIndex
        /\ pprev' = [pprev EXCEPT ![b] = p]
        /\ UNCHANGED <<haveData, chainTx, unlinked>>
    BY <1>1 DEF AcceptBlockHeader
  <2>2. \A c \in chainTx : pprev'[c] = pprev[c]
    BY <1>0, <2>1 DEF TypeData
  <2>3. QED BY <1>s, <1>t, <2>1, <2>2 DEF ChainTxInv
<1>2. ASSUME NEW b \in Blocks, AcceptBlock(b) PROVE ChainTxInv'
  <2> DEFINE L == LinkedTo(b)
  <2>1. /\ b \in mapBlockIndex
        /\ haveData' = haveData \cup {b}
        /\ nValid' = [nValid EXCEPT ![b] = IF @ < BLOCK_VALID_TRANSACTIONS
                                           THEN BLOCK_VALID_TRANSACTIONS ELSE @]
        /\ UNCHANGED pprev
    BY <1>2 DEF AcceptBlock
  <2>2. CASE ~ (b = Genesis \/ pprev[b] \in chainTx)
    <3>1. chainTx' = chainTx /\ unlinked' \subseteq unlinked \cup {b}
      BY <1>2, <2>2 DEF AcceptBlock
    <3>2. unlinked' \subseteq haveData'  BY <1>s, <2>1, <3>1 DEF ChainTxInv
    <3>3. QED BY <1>s, <1>t, <2>1, <3>1, <3>2 DEF ChainTxInv
  <2>3. CASE b = Genesis \/ pprev[b] \in chainTx
    <3>1. chainTx' = chainTx \cup L /\ unlinked' = unlinked \ L
      BY <1>2, <2>3 DEF AcceptBlock
    <3>2. unlinked' \subseteq haveData'  BY <1>s, <2>1, <3>1 DEF ChainTxInv
    <3>3. HasTx(b)'
      <4>1. nValid \in [Blocks -> Nat]
        BY <1>0 DEF TypeData, ValidLevels, BLOCK_VALID_TREE,
           BLOCK_VALID_TRANSACTIONS, BLOCK_VALID_SCRIPTS
      <4>2. QED BY <2>1, <4>1 DEF HasTx, BLOCK_VALID_TRANSACTIONS
    <3>4. ASSUME NEW d \in L PROVE HasTx(d)'
      <4>1. CASE d = b  BY <3>3, <4>1
      <4>2. CASE d /= b
        <5>1. d \in haveData  BY <1>0, <1>s, <2>1, <4>2, LinkedToStep DEF ChainTxInv
        <5>2. HasTx(d)  BY <1>s, <5>1 DEF DataInv
        <5>3. QED BY <1>0, <1>h, <5>1, <5>2 DEF TypeData
      <4>3. QED BY <4>1, <4>2
    <3>5. ASSUME NEW d \in L, d /= Genesis PROVE pprev'[d] \in chainTx'
      <4>1. CASE d = b  BY <2>1, <2>3, <3>1, <3>5, <4>1
      <4>2. CASE d /= b
        <5>1. pprev[d] \in L  BY <1>0, <2>1, <4>2, LinkedToStep
        <5>2. QED BY <2>1, <3>1, <5>1
      <4>3. QED BY <4>1, <4>2
    <3>6. Genesis \in chainTx'  BY <1>s, <3>1 DEF ChainTxInv
    <3>7. ASSUME NEW c \in chainTx' PROVE HasTx(c)' /\ (c /= Genesis => pprev'[c] \in chainTx')
      <4>1. CASE c \in chainTx  BY <1>s, <1>t, <2>1, <3>1, <4>1 DEF ChainTxInv
      <4>2. CASE c \in L  BY <3>4, <3>5, <4>2
      <4>3. QED BY <3>1, <4>1, <4>2
    <3>8. QED BY <3>2, <3>6, <3>7 DEF ChainTxInv
  <2>4. QED BY <2>2, <2>3
<1>3. ASSUME NEW b \in Blocks,
             \/ ConnectTip(b) \/ ConnectTipFailed(b) \/ MarkFailedChild(b)
             \/ invalidateblock(b) \/ reconsiderblock(b)
      PROVE  ChainTxInv'
  <2>1. UNCHANGED <<pprev, chainTx, haveData, unlinked>>
    BY <1>3 DEF ConnectTip, ConnectTipFailed, MarkFailedChild, invalidateblock,
       reconsiderblock
  <2>2. QED BY <1>p, <2>1
<1>4. ASSUME NEW b \in Blocks, PruneOneBlockFile(b) PROVE ChainTxInv'
  <2>1. /\ UNCHANGED <<pprev, chainTx>>
        /\ haveData' = haveData \ {b} /\ unlinked' = unlinked \ {b}
    BY <1>4 DEF PruneOneBlockFile
  <2>2. QED BY <1>s, <1>t, <2>1 DEF ChainTxInv
<1>5. ASSUME DisconnectTip PROVE ChainTxInv'
  <2>1. UNCHANGED <<pprev, chainTx, haveData, unlinked>>  BY <1>5 DEF DisconnectTip
  <2>2. QED BY <1>p, <2>1
<1>6. ASSUME UNCHANGED vars PROVE ChainTxInv'
  <2>1. UNCHANGED <<pprev, chainTx, haveData, unlinked>>  BY <1>6 DEF vars
  <2>2. QED BY <1>p, <2>1
<1>7. QED BY <1>s, <1>1, <1>2, <1>3, <1>4, <1>5, <1>6 DEF Next

(* Down the index from a block with nChainTx > 0: every block of its       *)
(* branch had its transactions received.                                   *)
LEMMA ChainTxBranchHasTx ==
    ASSUME TypeData, IndexIsTree, ChainTxInv, NEW t \in chainTx,
           NEW a \in AncestorsOrSelf[t]
    PROVE  HasTx(a)
<1> DEFINE Bad == {x \in chainTx : \E y \in AncestorsOrSelf[x] : ~ HasTx(y)}
<1>1. Bad \in SUBSET mapBlockIndex  BY DEF TypeData
<1>2. ASSUME NEW x \in Bad PROVE x /= Genesis /\ pprev[x] \in Bad
  <2>1. x \in mapBlockIndex /\ HasTx(x)  BY DEF ChainTxInv, TypeData
  <2>2. PICK y \in AncestorsOrSelf[x] : ~ HasTx(y)  OBVIOUS
  <2>3. x /= Genesis  BY <2>1, <2>2, AncStep
  <2>4. /\ pprev[x] \in chainTx
        /\ AncestorsOrSelf[x] = {x} \cup AncestorsOrSelf[pprev[x]]
    BY <2>1, <2>3, AncStep DEF ChainTxInv
  <2>5. y \in AncestorsOrSelf[pprev[x]]  BY <2>1, <2>2, <2>4
  <2>6. QED BY <2>2, <2>3, <2>4, <2>5
<1>3. \A x \in Bad : x /= Genesis /\ pprev[x] \in Bad  BY <1>2
<1>4. Bad = {}  BY <1>1, <1>3, IndexInduction, ZenonT(60)
<1>5. QED BY <1>4

(* The status chain of getchaintips read against nChainTx: every status  *)
(* but "invalid", "active" and "headers-only" is reached only past the     *)
(* nChainTx == 0 test.                                                     *)
LEMMA TipStatusChainTx ==
    ASSUME NEW t
    PROVE  TipStatus(t) \in {"valid-fork", "valid-headers", "unknown"} => t \in chainTx
  BY DEF TipStatus

LEMMA BranchTxHolds ==
    TypeOK /\ IndexIsTree /\ ChainIsPath /\ OffIndexUnlinked /\ ChainTxInv
        => BranchTxReceived
<1> SUFFICES ASSUME TypeOK, IndexIsTree, ChainIsPath, OffIndexUnlinked, ChainTxInv,
                    NEW e \in Entries,
                    e.status \in {"valid-fork", "valid-headers", "unknown"},
                    NEW a \in AncestorsOrSelf[e.hash]
             PROVE  nValid[a] >= BLOCK_VALID_TRANSACTIONS
  BY DEF BranchTxReceived
<1>0. TypeData  BY TypeSplit
<1>1. PICK t \in setTips : e = TipEntry(t)  BY <1>0, EntriesAreTips
<1>2. t \in mapBlockIndex
  <2>1. Tip \in mapBlockIndex  BY <1>0 DEF Tip, ChainIsPath, TypeData
  <2>2. QED BY <1>0, <2>1, SetTipsIsLeavesAndTip DEF Leaves
<1>3. e.hash = t /\ e.status = TipStatus(t)  BY <1>0, <1>1, <1>2, TipEntryFields
<1>4. t \in chainTx  BY <1>3, TipStatusChainTx
<1>5. a \in AncestorsOrSelf[t]  BY <1>3
<1>6. QED BY <1>0, <1>4, <1>5, ChainTxBranchHasTx DEF HasTx

(* getchaintips reports a tip "valid-fork", "valid-headers" or "unknown"  *)
(* only when every block of its branch had its transactions received,     *)
(* whatever order AcceptBlock, PruneOneBlockFile, ConnectTip,              *)
(* invalidateblock and reconsiderblock steps came in: the nChainTx test    *)
(* is sound although a block whose data arrived under a failed parent     *)
(* never enters mapBlocksUnlinked.                                         *)
THEOREM BranchTxReceivedInvariant == Spec => []BranchTxReceived
<1> DEFINE Inv == IInv /\ OffIndexUnlinked /\ DataInv /\ ChainTxInv
<1>1. Init => Inv  BY InitIInv, InitOffIndex, InitDataInv, InitChainTxInv
<1>2. Inv /\ [Next]_vars => Inv'
  BY NextIInv, NextOffIndex, NextDataInv, NextChainTxInv
<1>3. Inv => BranchTxReceived  BY BranchTxHolds DEF IInv
<1>4. QED BY <1>1, <1>2, <1>3, PTL DEF Spec

=============================================================================

------------------------- MODULE GetChainTipsProofs -------------------------
(***************************************************************************)
(* Proofs about getchaintips, for every finite set of hashes: what the    *)
(* FindFork walk returns, which blocks the tip set holds, and that the     *)
(* sorted array lists each of them.  ForkWalk is a recursive function;    *)
(* its equation is shown to have a solution (the highest active ancestor, *)
(* LastCommonBlock) before anything is proved from it.                     *)
(***************************************************************************)
EXTENDS ChainTipsProofs

-----------------------------------------------------------------------------
(* A hash without an index entry has no pprev: only AddToBlockIndex (the   *)
(* AcceptBlockHeader step) sets one, on the entry it creates.             *)
OffIndexUnlinked == \A b \in Blocks \ mapBlockIndex : pprev[b] = NoBlock

LEMMA InitOffIndex == Init => OffIndexUnlinked
  BY DEF Init, OffIndexUnlinked

LEMMA NextOffIndex == IInv /\ OffIndexUnlinked /\ [Next]_vars => OffIndexUnlinked'
<1>s. SUFFICES ASSUME IInv, OffIndexUnlinked, [Next]_vars PROVE OffIndexUnlinked'
  OBVIOUS
<1>0. TypeData  BY <1>s, TypeSplit DEF IInv
<1>1. ASSUME NEW b \in Blocks, NEW p \in Blocks, AcceptBlockHeader(b, p)
      PROVE  OffIndexUnlinked'
  <2>1. mapBlockIndex' = mapBlockIndex \cup {b} /\ pprev' = [pprev EXCEPT ![b] = p]
    BY <1>1 DEF AcceptBlockHeader
  <2>2. QED BY <1>0, <1>s, <2>1 DEF OffIndexUnlinked, TypeData
<1>2. ASSUME UNCHANGED <<mapBlockIndex, pprev>> PROVE OffIndexUnlinked'
  BY <1>s, <1>2 DEF OffIndexUnlinked
<1>3. QED
  BY <1>s, <1>1, <1>2
  DEF Next, vars, AcceptBlock, ConnectTip, ConnectTipFailed, DisconnectTip,
      MarkFailedChild, PruneOneBlockFile, invalidateblock, reconsiderblock

-----------------------------------------------------------------------------
(* On a path-shaped chain, CChain::Contains is membership of the chain.   *)
LEMMA ContainsIsActive ==
    ASSUME TypeData, ChainIsPath, NEW b \in Blocks
    PROVE  Contains(b) <=> b \in ActiveSet
<1>1. Len(chainActive) \in Nat /\ nHeight[b] \in Nat  BY DEF TypeData
<1>2. b /= NoBlock  BY BlocksAssumption DEF NoBlock
<1>3. ASSUME Contains(b) PROVE b \in ActiveSet
  <2>1. nHeight[b] < Len(chainActive) /\ chainActive[nHeight[b] + 1] = b
    BY <1>1, <1>2, <1>3 DEF Contains, At
  <2>2. QED BY <1>1, <2>1 DEF ActiveSet
<1>4. ASSUME b \in ActiveSet PROVE Contains(b)
  <2>1. PICK i \in 1 .. Len(chainActive) : chainActive[i] = b  BY <1>4 DEF ActiveSet
  <2>2. nHeight[b] = i - 1  BY <2>1 DEF ChainIsPath
  <2>3. QED BY <1>1, <2>1, <2>2 DEF Contains, At
<1>5. QED BY <1>3, <1>4

(* The active ancestors of an entry, and the highest of them.             *)
ActiveAnc(p) == ActiveSet \cap AncestorsOrSelf[p]

IsHighestActive(a, p) ==
    a \in ActiveAnc(p) /\ \A c \in ActiveAnc(p) : nHeight[c] <= nHeight[a]

(* LastCommonBlock of an entry exists: genesis is an active ancestor, and *)
(* heights are bounded by the entry's.                                     *)
LEMMA LCBSpec ==
    ASSUME TypeData, IndexIsTree, ChainIsPath, NEW p \in mapBlockIndex
    PROVE  IsHighestActive(LastCommonBlock(p), p)
<1> DEFINE T == {nHeight[a] : a \in ActiveAnc(p)}
<1>1. p \in Blocks /\ p /= NoBlock /\ nHeight[p] \in Nat
  BY BlocksAssumption DEF TypeData, NoBlock
<1>2. Genesis \in ActiveAnc(p)
  <2>1. Genesis \in ActiveSet  BY DEF ChainIsPath, ActiveSet
  <2>2. QED BY <2>1, GenesisAnc DEF ActiveAnc
<1>3. T \in SUBSET (0 .. nHeight[p]) /\ T /= {}
  <2>1. \A a \in ActiveAnc(p) : nHeight[a] \in Nat /\ nHeight[a] <= nHeight[p]
    BY AncInIndex DEF ActiveAnc, TypeData
  <2>2. QED BY <1>2, <2>1
<1>4. PICK m \in T : \A k \in T : k <= m  BY <1>1, <1>3, NatMax
<1>5. PICK a \in ActiveAnc(p) : nHeight[a] = m  OBVIOUS
<1>6. IsHighestActive(a, p)  BY <1>4, <1>5 DEF IsHighestActive
<1>7. QED
  BY <1>1, <1>6 DEF IsHighestActive, LastCommonBlock, ActiveAnc, IsAncestorOrSelf

(* It is the only highest active ancestor: ancestors differ in height.     *)
LEMMA LCBUnique ==
    ASSUME TypeData, IndexIsTree, ChainIsPath, NEW p \in mapBlockIndex,
           NEW a, IsHighestActive(a, p)
    PROVE  a = LastCommonBlock(p)
<1>1. IsHighestActive(LastCommonBlock(p), p)  BY LCBSpec
<1>2. \A c \in ActiveAnc(p) : nHeight[c] \in Nat  BY AncInIndex DEF ActiveAnc, TypeData
<1>3. nHeight[a] = nHeight[LastCommonBlock(p)]
  BY <1>1, <1>2 DEF IsHighestActive
<1>4. QED BY <1>1, <1>3, AncHeightInjective DEF IsHighestActive, ActiveAnc

(* An active entry is its own last common block.                           *)
LEMMA LCBStay ==
    ASSUME TypeData, IndexIsTree, ChainIsPath, NEW p \in mapBlockIndex, Contains(p)
    PROVE  LastCommonBlock(p) = p
<1>1. p \in ActiveSet /\ p \in AncestorsOrSelf[p]
  BY ContainsIsActive, AncSelf DEF TypeData
<1>2. IsHighestActive(p, p)  BY <1>1, AncInIndex DEF IsHighestActive, ActiveAnc
<1>3. QED BY <1>2, LCBUnique

(* An entry off the chain is not genesis and has its parent's.            *)
LEMMA LCBStep ==
    ASSUME TypeData, IndexIsTree, ChainIsPath, NEW p \in mapBlockIndex, ~ Contains(p)
    PROVE  /\ p /= Genesis /\ pprev[p] \in mapBlockIndex
           /\ LastCommonBlock(p) = LastCommonBlock(pprev[p])
<1>1. p \notin ActiveSet  BY ContainsIsActive DEF TypeData
<1>2. p /= Genesis  BY <1>1 DEF ChainIsPath, ActiveSet
<1>3. pprev[p] \in mapBlockIndex
      /\ AncestorsOrSelf[p] = {p} \cup AncestorsOrSelf[pprev[p]]
  BY <1>2, AncStep
<1>4. ActiveAnc(p) = ActiveAnc(pprev[p])  BY <1>1, <1>3 DEF ActiveAnc
<1>5. IsHighestActive(LastCommonBlock(pprev[p]), p)
  BY <1>3, <1>4, LCBSpec DEF IsHighestActive
<1>6. QED BY <1>2, <1>3, <1>5, LCBUnique

-----------------------------------------------------------------------------
(* The equation that defines ForkWalk.                                     *)
ForkEquation(F) ==
    F = [p \in Blocks \cup {NoBlock} |->
            IF p = NoBlock \/ Contains(p) THEN p ELSE F[pprev[p]]]

(* ForkWalk satisfies its equation: LastCommonBlock on the index, NULL off *)
(* it (an unindexed hash is on no chain and has no pprev), solves it.     *)
LEMMA ForkWalkUnfold ==
    ASSUME TypeData, IndexIsTree, ChainIsPath, OffIndexUnlinked
    PROVE  ForkEquation(ForkWalk)
<1> DEFINE g == [p \in Blocks \cup {NoBlock} |->
                    IF p \in mapBlockIndex THEN LastCommonBlock(p) ELSE NoBlock]
<1>1. NoBlock \notin Blocks  BY BlocksAssumption DEF NoBlock
<1>2. ASSUME NEW p \in Blocks \cup {NoBlock}
      PROVE  g[p] = IF p = NoBlock \/ Contains(p) THEN p ELSE g[pprev[p]]
  <2>1. CASE p = NoBlock  BY <1>1, <2>1 DEF TypeData
  <2>2. CASE p \in mapBlockIndex /\ Contains(p)  BY <1>1, <2>2, LCBStay DEF TypeData
  <2>3. CASE p \in mapBlockIndex /\ ~ Contains(p)
    <3>1. pprev[p] \in mapBlockIndex /\ LastCommonBlock(p) = LastCommonBlock(pprev[p])
      BY <2>3, LCBStep
    <3>2. p /= NoBlock /\ pprev[p] \in Blocks  BY <1>1, <2>3, <3>1 DEF TypeData
    <3>3. QED BY <2>3, <3>1, <3>2
  <2>4. CASE p \in Blocks \ mapBlockIndex
    <3>1. ~ Contains(p)  BY <2>4, ContainsIsActive DEF ActiveSet, TypeData
    <3>2. pprev[p] = NoBlock  BY <2>4 DEF OffIndexUnlinked
    <3>3. p /= NoBlock  BY <1>1, <2>4
    <3>4. QED BY <1>1, <2>4, <3>1, <3>2, <3>3 DEF TypeData
  <2>5. QED BY <2>1, <2>2, <2>3, <2>4
<1>3. \E F : ForkEquation(F)
  <2>1. ForkEquation(g)  BY <1>2 DEF ForkEquation
  <2>2. QED BY <2>1
<1>4. QED BY <1>3 DEF ForkEquation, ForkWalk

(* On the index, the pprev walk of FindFork stops at the last common block. *)
LEMMA ForkWalkIsLCB ==
    ASSUME TypeData, IndexIsTree, ChainIsPath, OffIndexUnlinked,
           NEW x \in mapBlockIndex
    PROVE  ForkWalk[x] = LastCommonBlock(x)
<1> DEFINE Bad == {y \in mapBlockIndex : ForkWalk[y] /= LastCommonBlock(y)}
<1>1. ForkEquation(ForkWalk)  BY ForkWalkUnfold
<1>2. ASSUME NEW y \in Bad PROVE y /= Genesis /\ pprev[y] \in Bad
  <2>1. y \in Blocks /\ y /= NoBlock  BY BlocksAssumption DEF TypeData, NoBlock
  <2>2. ~ Contains(y)  BY <1>1, <2>1, LCBStay DEF ForkEquation
  <2>3. y /= Genesis /\ pprev[y] \in mapBlockIndex
        /\ LastCommonBlock(y) = LastCommonBlock(pprev[y])
    BY <2>2, LCBStep
  <2>4. ForkWalk[y] = ForkWalk[pprev[y]]  BY <1>1, <2>1, <2>2 DEF ForkEquation
  <2>5. QED BY <2>3, <2>4
<1>3. Bad = {}  BY <1>2, IndexInduction
<1>4. QED BY <1>3

(* CChain::FindFork of an entry is its last common block with the chain:  *)
(* the lift to the tip's height keeps every active ancestor.               *)
LEMMA FindForkIsLCB ==
    ASSUME TypeData, IndexIsTree, ChainIsPath, OffIndexUnlinked,
           NEW b \in mapBlockIndex
    PROVE  FindFork(b) = LastCommonBlock(b)
<1>1. Len(chainActive) \in Nat /\ Len(chainActive) >= 1 /\ nHeight[b] \in Nat
  BY DEF TypeData, ChainIsPath
<1>2. CASE nHeight[b] <= Height
  <2>1. ForkStart(b) = b  BY <1>1, <1>2 DEF ForkStart, Height
  <2>2. QED BY <2>1, ForkWalkIsLCB DEF FindFork
<1>3. CASE nHeight[b] > Height
  <2> DEFINE a == GetAncestor(b, Height)
  <2>1. Height \in 0 .. nHeight[b]  BY <1>1, <1>3 DEF Height
  <2>2. a \in AncestorsOrSelf[b] /\ nHeight[a] = Height
    <3>1. \E c \in AncestorsOrSelf[b] : nHeight[c] = Height  BY <2>1, AncAtHeight
    <3>2. QED BY <1>1, <1>3, <3>1 DEF GetAncestor, Height
  <2>3. a \in mapBlockIndex  BY <2>2, AncInIndex
  <2>4. ForkStart(b) = a  BY <1>3 DEF ForkStart
  <2>5. IsHighestActive(LastCommonBlock(a), b)
    <3>1. IsHighestActive(LastCommonBlock(a), a)  BY <2>3, LCBSpec
    <3>2. ActiveAnc(a) = ActiveAnc(b)
      <4>1. ActiveAnc(a) \subseteq ActiveAnc(b)  BY <2>2, AncTrans DEF ActiveAnc
      <4>2. ASSUME NEW c \in ActiveAnc(b) PROVE c \in AncestorsOrSelf[a]
        <5>1. PICK i \in 1 .. Len(chainActive) : chainActive[i] = c
          BY <4>2 DEF ActiveAnc, ActiveSet
        <5>2. nHeight[c] <= nHeight[a]  BY <1>1, <2>2, <5>1 DEF ChainIsPath, Height
        <5>3. QED BY <2>2, <4>2, <5>2, AncLinear DEF ActiveAnc
      <4>3. QED BY <4>1, <4>2 DEF ActiveAnc
    <3>3. QED BY <3>1, <3>2 DEF IsHighestActive
  <2>6. QED BY <2>3, <2>4, <2>5, ForkWalkIsLCB, LCBUnique DEF FindFork
<1>4. QED BY <1>1, <1>2, <1>3 DEF Height

-----------------------------------------------------------------------------
(* The std::set<..., CompareBlocksByHeight> of getchaintips.               *)

(* CompareBlocksByHeight is a strict total order on hashes: two keys are   *)
(* equivalent only when they are the same hash.                           *)
LEMMA CompareOrder ==
    ASSUME TypeData, NEW a \in Blocks, NEW b \in Blocks, NEW c \in Blocks
    PROVE  /\ ~ CompareBlocksByHeight(a, a)
           /\ CompareBlocksByHeight(a, b) /\ CompareBlocksByHeight(b, c)
                 => CompareBlocksByHeight(a, c)
           /\ a /= b => CompareBlocksByHeight(a, b) \/ CompareBlocksByHeight(b, a)
           /\ CompareBlocksByHeight(a, b) => ~ CompareBlocksByHeight(b, a)
           /\ Equiv(a, b) <=> a = b
<1>1. a \in Nat /\ b \in Nat /\ c \in Nat  BY BlocksAssumption
<1>2. nHeight[a] \in Nat /\ nHeight[b] \in Nat /\ nHeight[c] \in Nat  BY DEF TypeData
<1>3. QED BY <1>1, <1>2 DEF CompareBlocksByHeight, Equiv

(* The position of a key in the set: how many keys sort before it.         *)
Rank(T, t) == Cardinality({u \in T : CompareBlocksByHeight(u, t)})

(* In a finite set of hashes of n keys, the ranks are 0 .. n - 1, one key  *)
(* each.                                                                   *)
LEMMA RankBijection ==
    ASSUME TypeData, NEW T \in SUBSET Blocks, IsFiniteSet(T)
    PROVE  /\ \A t \in T : Rank(T, t) \in 0 .. Cardinality(T) - 1
           /\ \A t, u \in T : Rank(T, t) = Rank(T, u) => t = u
           /\ \A i \in 0 .. Cardinality(T) - 1 : \E t \in T : Rank(T, t) = i
<1> DEFINE n == Cardinality(T)
           Before(t) == {u \in T : CompareBlocksByHeight(u, t)}
           f == [t \in T |-> Rank(T, t)]
<1>0. n \in Nat  BY FS_CardinalityType
<1>1. ASSUME NEW t \in T PROVE Rank(T, t) \in 0 .. n - 1
  <2>1. Before(t) \subseteq T \ {t}  BY CompareOrder
  <2>2. IsFiniteSet(T \ {t}) /\ Cardinality(T \ {t}) = n - 1  BY FS_RemoveElement
  <2>3. IsFiniteSet(Before(t)) /\ Cardinality(Before(t)) <= n - 1  BY <2>1, <2>2, FS_Subset
  <2>4. Cardinality(Before(t)) \in Nat  BY <2>3, FS_CardinalityType
  <2>5. QED BY <1>0, <2>3, <2>4 DEF Rank
<1>2. ASSUME NEW t \in T, NEW u \in T, CompareBlocksByHeight(t, u)
      PROVE  Rank(T, t) < Rank(T, u)
  <2>1. Before(t) \subseteq Before(u)  BY <1>2, CompareOrder
  <2>2. t \in Before(u) /\ t \notin Before(t)  BY <1>2, CompareOrder
  <2>3. IsFiniteSet(Before(u))  BY FS_Subset
  <2>4. Cardinality(Before(t)) <= Cardinality(Before(u))
        /\ (Cardinality(Before(u)) = Cardinality(Before(t)) => Before(u) = Before(t))
    BY <2>1, <2>3, FS_Subset
  <2>5. Cardinality(Before(t)) \in Nat /\ Cardinality(Before(u)) \in Nat
    BY <2>1, <2>3, FS_Subset, FS_CardinalityType
  <2>6. QED BY <2>2, <2>4, <2>5 DEF Rank
<1>3. ASSUME NEW t \in T, NEW u \in T, Rank(T, t) = Rank(T, u) PROVE t = u
  <2>1. SUFFICES ASSUME t /= u PROVE FALSE  OBVIOUS
  <2>2. Rank(T, t) \in Nat /\ Rank(T, u) \in Nat  BY <1>1
  <2>3. CASE CompareBlocksByHeight(t, u)
    <3>1. Rank(T, t) < Rank(T, u)  BY <1>2, <2>3
    <3>. QED BY <1>3, <2>2, <3>1
  <2>4. CASE CompareBlocksByHeight(u, t)
    <3>1. Rank(T, u) < Rank(T, t)  BY <1>2, <2>4
    <3>. QED BY <1>3, <2>2, <3>1
  <2>5. QED BY <2>1, <2>3, <2>4, CompareOrder
<1>4. f \in Injection(T, 0 .. n - 1)  BY <1>1, <1>3 DEF Injection, IsInjective
<1>5. IsFiniteSet(0 .. n - 1) /\ Cardinality(0 .. n - 1) = n
  <2>1. 0 \in Int /\ n - 1 \in Int  BY <1>0
  <2>2. IsFiniteSet(0 .. n - 1)
        /\ Cardinality(0 .. n - 1) = IF 0 > n - 1 THEN 0 ELSE (n - 1) - 0 + 1
    BY <2>1, FS_Interval
  <2>. QED BY <1>0, <2>2
<1>6. f \in Surjection(T, 0 .. n - 1)  BY <1>4, <1>5, FS_Injection
<1>7. \A i \in 0 .. n - 1 : \E t \in T : Rank(T, t) = i  BY <1>6 DEF Surjection
<1>8. QED BY <1>1, <1>3, <1>7

(* Iterating the set visits each of its keys: SortTips is a permutation.  *)
LEMMA SortTipsPerm ==
    ASSUME TypeData, NEW T \in SUBSET Blocks, IsFiniteSet(T)
    PROVE  /\ SortTips(T) \in Seq(T)
           /\ Len(SortTips(T)) = Cardinality(T)
           /\ {SortTips(T)[i] : i \in 1 .. Cardinality(T)} = T
<1> DEFINE n == Cardinality(T)
<1>0. n \in Nat  BY FS_CardinalityType
<1>1. \A i \in 1 .. n : SortTips(T)[i] \in T /\ Rank(T, SortTips(T)[i]) = i - 1
  <2> TAKE i \in 1 .. n
  <2>1. \E t \in T : Rank(T, t) = i - 1  BY <1>0, RankBijection
  <2>2. QED BY <2>1 DEF SortTips, Rank
<1>2. ASSUME NEW t \in T PROVE \E i \in 1 .. n : SortTips(T)[i] = t
  <2> DEFINE r == Rank(T, t)
             j == r + 1
  <2>1. r \in 0 .. n - 1  BY RankBijection
  <2>2. j \in 1 .. n /\ j - 1 = r  BY <1>0, <2>1
  <2>3. SortTips(T)[j] \in T /\ Rank(T, SortTips(T)[j]) = j - 1  BY <1>1, <2>2
  <2>4. SortTips(T)[j] = t  BY <2>2, <2>3, RankBijection
  <2>5. QED BY <2>2, <2>4
<1>3. SortTips(T) \in [1 .. n -> T]  BY <1>1 DEF SortTips
<1>4. QED BY <1>0, <1>1, <1>2, <1>3

(* The entries no indexed block names as pprev.                            *)
Leaves == {b \in mapBlockIndex : \A c \in mapBlockIndex : pprev[c] /= b}

(* The handler's three set steps leave the leaves of the index and the    *)
(* active tip: keys are hashes, so no insert is dropped as a duplicate.   *)
LEMMA SetTipsIsLeavesAndTip ==
    ASSUME TypeData, ChainIsPath
    PROVE  setTips = Leaves \cup {Tip}
<1>1. Tip \in mapBlockIndex  BY DEF Tip, ChainIsPath, TypeData
<1>2. \A a, b \in mapBlockIndex : Equiv(a, b) <=> a = b  BY CompareOrder DEF TypeData
<1>3. {b \in mapBlockIndex : \A c \in mapBlockIndex : Equiv(b, c) => b <= c}
          = mapBlockIndex
  <2> SUFFICES ASSUME NEW b \in mapBlockIndex
               PROVE  \A c \in mapBlockIndex : Equiv(b, c) => b <= c
    OBVIOUS
  <2>1. b \in Nat  BY BlocksAssumption DEF TypeData
  <2>2. QED BY <1>2, <2>1
<1>4. {Prev(b) : b \in mapBlockIndex} \ {NoBlock}
          = {pprev[b] : b \in mapBlockIndex} \ {NoBlock}
  BY BlocksAssumption DEF Prev, NoBlock, TypeData
<1>5. \A r \in mapBlockIndex :
         (\E p \in {pprev[b] : b \in mapBlockIndex} \ {NoBlock} : Equiv(r, p))
             <=> r \notin Leaves
  <2> TAKE r \in mapBlockIndex
  <2>1. r /= NoBlock  BY BlocksAssumption DEF TypeData, NoBlock
  <2>2. \A b \in mapBlockIndex : pprev[b] /= NoBlock => pprev[b] \in Blocks
    BY DEF TypeData
  <2>3. \A b \in mapBlockIndex : pprev[b] \in Blocks => (Equiv(r, pprev[b]) <=> r = pprev[b])
    BY CompareOrder DEF TypeData
  <2>4. QED BY <2>1, <2>2, <2>3 DEF Leaves
<1>6. {r \in mapBlockIndex :
         ~ \E p \in {pprev[b] : b \in mapBlockIndex} \ {NoBlock} : Equiv(r, p)} = Leaves
  BY <1>5 DEF Leaves
<1>7. setTips = IF \E r \in Leaves : Equiv(r, Tip) THEN Leaves ELSE Leaves \cup {Tip}
  BY <1>3, <1>4, <1>6 DEF setTips
<1>8. QED BY <1>1, <1>2, <1>7 DEF Leaves

(* The tip set is a finite set of hashes holding the tip.                  *)
LEMMA SetTipsFinite ==
    ASSUME TypeData, ChainIsPath
    PROVE  /\ setTips \subseteq mapBlockIndex /\ Tip \in setTips
           /\ IsFiniteSet(setTips) /\ Cardinality(setTips) >= 1
<1>1. setTips \subseteq mapBlockIndex /\ Tip \in setTips
  BY SetTipsIsLeavesAndTip DEF Leaves, Tip, ChainIsPath, TypeData
<1>2. IsFiniteSet(setTips)  BY <1>1, BlocksAssumption, FS_Subset DEF TypeData
<1>3. Cardinality(setTips) /= 0  BY <1>1, <1>2, FS_EmptySet
<1>4. QED BY <1>1, <1>2, <1>3, FS_CardinalityType

(* The array getchaintips returns repeats the sorted tips, so the objects *)
(* it holds are those of the tips.                                         *)
LEMMA EntriesAreTips ==
    ASSUME TypeData, ChainIsPath
    PROVE  Entries = {TipEntry(t) : t \in setTips}
<1> DEFINE s == SortTips(setTips)
           n == Cardinality(setTips)
           out == [k \in 1 .. n * n |-> TipEntry(s[((k - 1) % n) + 1])]
<1>1. setTips \subseteq Blocks /\ IsFiniteSet(setTips) /\ n \in Nat /\ n >= 1
  BY SetTipsFinite, FS_CardinalityType DEF TypeData
<1>2. Len(s) = n /\ {s[i] : i \in 1 .. n} = setTips  BY <1>1, SortTipsPerm
<1>3. getchaintips = out  BY <1>2 DEF getchaintips
<1>4. Len(out) = n * n  BY <1>1
<1>5. \A k \in 1 .. n * n : ((k - 1) % n) + 1 \in 1 .. n  BY <1>1
<1>6. \A j \in 1 .. n : j \in 1 .. n * n /\ ((j - 1) % n) + 1 = j  BY <1>1
<1>7. {out[k] : k \in 1 .. n * n} = {TipEntry(s[i]) : i \in 1 .. n}
  <2>1. {out[k] : k \in 1 .. n * n} \subseteq {TipEntry(s[i]) : i \in 1 .. n}  BY <1>5
  <2>2. {TipEntry(s[i]) : i \in 1 .. n} \subseteq {out[k] : k \in 1 .. n * n}
    <3> SUFFICES ASSUME NEW j \in 1 .. n PROVE \E k \in 1 .. n * n : out[k] = TipEntry(s[j])
      OBVIOUS
    <3>1. QED BY <1>6
  <2>3. QED BY <2>1, <2>2
<1>8. {TipEntry(s[i]) : i \in 1 .. n} = {TipEntry(t) : t \in setTips}  BY <1>2
<1>9. QED BY <1>3, <1>4, <1>7, <1>8 DEF Entries

-----------------------------------------------------------------------------
(* The object of an entry names the entry, has a fork point, and measures *)
(* branchlen from the last common block.                                   *)
LEMMA TipEntryFields ==
    ASSUME TypeData, IndexIsTree, ChainIsPath, OffIndexUnlinked,
           NEW t \in mapBlockIndex
    PROVE  /\ TipEntry(t).hash = t
           /\ TipEntry(t).height = nHeight[t]
           /\ TipEntry(t).hasFork
           /\ TipEntry(t).branchlen = nHeight[t] - nHeight[LastCommonBlock(t)]
           /\ TipEntry(t).status = TipStatus(t)
<1>1. FindFork(t) = LastCommonBlock(t)  BY FindForkIsLCB
<1>2. LastCommonBlock(t) \in mapBlockIndex
  <2>1. IsHighestActive(LastCommonBlock(t), t)  BY LCBSpec
  <2>2. LastCommonBlock(t) \in ActiveSet  BY <2>1 DEF IsHighestActive, ActiveAnc
  <2>3. ActiveSet \subseteq mapBlockIndex  BY DEF ActiveSet, TypeData
  <2>4. QED BY <2>2, <2>3
<1>3. LastCommonBlock(t) /= NoBlock  BY <1>2, BlocksAssumption DEF TypeData, NoBlock
<1>4. QED BY <1>1, <1>3 DEF TipEntry

(* A block of the chain below the tip has a child in the index.           *)
LEMMA ActiveLeafIsTip ==
    ASSUME TypeData, ChainIsPath, NEW t \in Leaves, t \in ActiveSet
    PROVE  t = Tip
<1>1. PICK i \in 1 .. Len(chainActive) : chainActive[i] = t  BY DEF ActiveSet
<1>2. Len(chainActive) \in Nat /\ Tip = chainActive[Len(chainActive)]
  BY DEF TypeData, ChainIsPath, Tip
<1>3. SUFFICES ASSUME i < Len(chainActive) PROVE FALSE  BY <1>1, <1>2
<1>4. i + 1 \in 1 .. Len(chainActive) /\ i + 1 > 1  BY <1>2, <1>3
<1>5. chainActive[i + 1] \in mapBlockIndex /\ pprev[chainActive[i + 1]] = t
  BY <1>1, <1>4 DEF ChainIsPath, TypeData
<1>6. QED BY <1>5 DEF Leaves

(* In a state where the index is a tree and the chain a path, the active  *)
(* tip is reported "active" with branchlen 0, and no other tip is.        *)
LEMMA ActiveTipHolds ==
    TypeOK /\ IndexIsTree /\ ChainIsPath /\ OffIndexUnlinked => ActiveTipReported
<1> SUFFICES ASSUME TypeOK, IndexIsTree, ChainIsPath, OffIndexUnlinked
             PROVE  ActiveTipReported
  OBVIOUS
<1>0. TypeData  BY TypeSplit
<1>1. Entries = {TipEntry(t) : t \in setTips} /\ setTips \subseteq mapBlockIndex
      /\ Tip \in setTips
  BY <1>0, EntriesAreTips, SetTipsFinite
<1>2. Tip \in mapBlockIndex /\ Contains(Tip)
  <2>1. Tip \in ActiveSet /\ Tip \in mapBlockIndex
    BY <1>0 DEF Tip, ActiveSet, ChainIsPath, TypeData
  <2>2. QED BY <1>0, <2>1, ContainsIsActive DEF TypeData
<1>3. TipEntry(Tip).hash = Tip /\ TipEntry(Tip).status = "active"
      /\ TipEntry(Tip).branchlen = 0
  <2>1. LastCommonBlock(Tip) = Tip  BY <1>0, <1>2, LCBStay
  <2>2. nHeight[Tip] \in Nat  BY <1>0, <1>2 DEF TypeData
  <2>3. QED BY <1>0, <1>2, <2>1, <2>2, TipEntryFields DEF TipStatus
<1>4. ASSUME NEW t \in setTips, TipEntry(t).status = "active" PROVE t = Tip
  <2>1. t \in mapBlockIndex  BY <1>1
  <2>2. Contains(t)
    BY <1>0, <1>4, <2>1, TipEntryFields DEF TipStatus
  <2>3. t \in ActiveSet  BY <1>0, <2>1, <2>2, ContainsIsActive DEF TypeData
  <2>4. t \in Leaves \/ t = Tip  BY <1>0, SetTipsIsLeavesAndTip
  <2>5. QED BY <1>0, <2>3, <2>4, ActiveLeafIsTip
<1>5. QED BY <1>1, <1>3, <1>4, <1>0, TipEntryFields DEF ActiveTipReported

(* ... and every reported tip has a fork point at its last common block.  *)
LEMMA BranchLenHolds ==
    TypeOK /\ IndexIsTree /\ ChainIsPath /\ OffIndexUnlinked => BranchLenIsForkDistance
<1> SUFFICES ASSUME TypeOK, IndexIsTree, ChainIsPath, OffIndexUnlinked
             PROVE  BranchLenIsForkDistance
  OBVIOUS
<1>0. TypeData  BY TypeSplit
<1>1. Entries = {TipEntry(t) : t \in setTips} /\ setTips \subseteq mapBlockIndex
  BY <1>0, EntriesAreTips, SetTipsFinite
<1>2. QED BY <1>0, <1>1, TipEntryFields DEF BranchLenIsForkDistance

(* The descendants of an entry in the index.                               *)
Desc(b) == {d \in mapBlockIndex : b \in AncestorsOrSelf[d]}

(* ... and every entry is below some reported tip: a descendant with the  *)
(* fewest descendants is a leaf.                                           *)
LEMMA TipsCoverHolds ==
    TypeOK /\ IndexIsTree /\ ChainIsPath => TipsCoverIndex
<1> SUFFICES ASSUME TypeOK, IndexIsTree, ChainIsPath, NEW b \in mapBlockIndex
             PROVE  \E e \in Entries : IsAncestorOrSelf(b, e.hash)
  BY DEF TipsCoverIndex
<1>0. TypeData  BY TypeSplit
<1>1. IsFiniteSet(mapBlockIndex)  BY <1>0, BlocksAssumption, FS_Subset DEF TypeData
<1>2. \A x \in mapBlockIndex : IsFiniteSet(Desc(x)) /\ Cardinality(Desc(x)) \in Nat
  BY <1>1, FS_Subset, FS_CardinalityType DEF Desc
<1> DEFINE C == {Cardinality(Desc(d)) : d \in Desc(b)}
<1>3. C \in SUBSET Nat /\ C /= {}
  <2>1. b \in Desc(b)  BY <1>0, AncSelf DEF Desc
  <2>2. QED BY <1>2, <2>1 DEF Desc
<1>4. PICK m \in C : \A k \in C : m <= k  BY <1>3, NatMin
<1>5. PICK d \in Desc(b) : Cardinality(Desc(d)) = m  OBVIOUS
<1>6. d \in Leaves
  <2>1. SUFFICES ASSUME NEW c \in mapBlockIndex, pprev[c] = d PROVE FALSE
    BY <1>5 DEF Leaves, Desc
  <2>2. d \in mapBlockIndex  BY <1>5 DEF Desc
  <2>3. c /= Genesis
    <3>1. d /= NoBlock  BY <1>0, <2>2, BlocksAssumption DEF NoBlock, TypeData
    <3>2. QED BY <2>1, <3>1 DEF IndexIsTree
  <2>4. AncestorsOrSelf[c] = {c} \cup AncestorsOrSelf[d] /\ nHeight[c] = nHeight[d] + 1
    BY <1>0, <2>1, <2>3, AncStep
  <2>5. c \in Desc(b)  BY <1>5, <2>4 DEF Desc
  <2>6. Desc(c) \subseteq Desc(d)  BY <1>0, <2>2, <2>4, AncSelf, AncTrans DEF Desc
  <2>7. d \in Desc(d) /\ d \notin Desc(c)
    <3>1. d \in Desc(d)  BY <1>0, <2>2, AncSelf DEF Desc
    <3>2. ASSUME c \in AncestorsOrSelf[d] PROVE FALSE
      <4>1. nHeight[c] <= nHeight[d] /\ nHeight[d] \in Nat  BY <1>0, <2>2, <3>2, AncInIndex DEF TypeData
      <4>2. QED BY <2>4, <4>1
    <3>3. QED BY <3>1, <3>2 DEF Desc
  <2>8. Cardinality(Desc(c)) < Cardinality(Desc(d))
    <3>1. Cardinality(Desc(c)) <= Cardinality(Desc(d))
          /\ (Cardinality(Desc(d)) = Cardinality(Desc(c)) => Desc(d) = Desc(c))
      BY <1>2, <2>2, <2>6, FS_Subset
    <3>2. Cardinality(Desc(c)) \in Nat /\ Cardinality(Desc(d)) \in Nat  BY <1>2, <2>2
    <3>3. QED BY <2>7, <3>1, <3>2
  <2>9. Cardinality(Desc(c)) \in C  BY <2>5
  <2>10. m <= Cardinality(Desc(c))  BY <1>4, <2>9
  <2>11. Cardinality(Desc(c)) \in Nat /\ m \in Nat  BY <1>2, <1>3
  <2>12. QED BY <1>5, <2>8, <2>10, <2>11
<1>7. d \in setTips  BY <1>0, <1>6, SetTipsIsLeavesAndTip
<1>8. TipEntry(d) \in Entries  BY <1>0, <1>7, EntriesAreTips
<1>9. TipEntry(d).hash = d
  BY DEF TipEntry
<1>10. d /= NoBlock /\ b \in AncestorsOrSelf[d]
  <2>1. d \in mapBlockIndex /\ b \in AncestorsOrSelf[d]  BY <1>5 DEF Desc
  <2>2. d /= NoBlock  BY <1>0, <2>1, BlocksAssumption DEF TypeData, NoBlock
  <2>3. QED BY <2>1, <2>2
<1>11. QED BY <1>8, <1>9, <1>10 DEF IsAncestorOrSelf

-----------------------------------------------------------------------------
(* The inductive invariant of the getchaintips theorems.                   *)
TipsInv == IInv /\ OffIndexUnlinked

LEMMA InitTipsInv == Init => TipsInv
  BY InitIInv, InitOffIndex DEF TipsInv

LEMMA NextTipsInv == TipsInv /\ [Next]_vars => TipsInv'
  BY NextIInv, NextOffIndex DEF TipsInv

(* getchaintips never loses a branch: in every reachable state, after any *)
(* interleaving of header and block arrivals, reorganisations,             *)
(* invalidateblock and reconsiderblock, every indexed block lies below a  *)
(* reported tip.                                                           *)
THEOREM TipsCoverIndexInvariant == Spec => []TipsCoverIndex
<1>1. IInv => TipsCoverIndex  BY TipsCoverHolds DEF IInv
<1>2. QED BY <1>1, InitIInv, NextIInv, PTL DEF Spec

(* getchaintips reports the active tip as "active" with branchlen 0, also *)
(* when the tip has children in the index, and reports no other tip       *)
(* "active", in every reachable state.                                     *)
THEOREM ActiveTipReportedInvariant == Spec => []ActiveTipReported
<1>1. TipsInv => ActiveTipReported  BY ActiveTipHolds DEF TipsInv, IInv
<1>2. QED BY <1>1, InitTipsInv, NextTipsInv, PTL DEF Spec

(* Every tip getchaintips reports has a fork point (CChain::FindFork does *)
(* not return NULL), and branchlen is its height above the highest block  *)
(* it shares with the active chain, in every reachable state.              *)
THEOREM BranchLenIsForkDistanceInvariant == Spec => []BranchLenIsForkDistance
<1>1. TipsInv => BranchLenIsForkDistance  BY BranchLenHolds DEF TipsInv, IInv
<1>2. QED BY <1>1, InitTipsInv, NextTipsInv, PTL DEF Spec

====

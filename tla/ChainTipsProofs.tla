--------------------------- MODULE ChainTipsProofs ---------------------------
(***************************************************************************)
(* Proofs about the read-side queries of ChainTips that rest on the chain  *)
(* being the pprev path from genesis (BlockIndexProofs), for every finite *)
(* set of hashes.                                                          *)
(***************************************************************************)
EXTENDS ChainTips, AncestryProofs, FiniteSetTheorems

(* In a state where the chain is a path, the block chainActive.Next gives *)
(* is a child of the block asked about and one position higher.           *)
LEMMA NextBlockHashIsChildHolds == TypeOK /\ ChainIsPath => NextBlockHashIsChild
<1> SUFFICES ASSUME TypeOK, ChainIsPath,
                    NEW b \in mapBlockIndex, NextBlockHash(b) /= NoBlock
             PROVE  /\ pprev[NextBlockHash(b)] = b
                    /\ Confirmations(NextBlockHash(b)) = Confirmations(b) - 1
  BY DEF NextBlockHashIsChild
<1> USE BlocksAssumption
<1> DEFINE h == nHeight[b]
           n == NextBlockHash(b)
<1> USE DEF h, n
<1>1. TypeData  BY TypeSplit
<1>2. h \in Nat /\ b \in Blocks  BY <1>1 DEF TypeData
<1>3. Contains(b)  BY DEF NextBlockHash, ChainNext
<1>4. h + 1 < Len(chainActive) /\ n = chainActive[h + 2]
  BY <1>2, <1>3 DEF NextBlockHash, ChainNext, At, NoBlock
<1>5. h < Len(chainActive) /\ chainActive[h + 1] = b
  BY <1>2, <1>3 DEF Contains, At, NoBlock
<1>6. pprev[n] = b
  <2>1. h + 2 \in 1 .. Len(chainActive) /\ h + 2 > 1  BY <1>2, <1>4
  <2>2. QED BY <1>1, <1>4, <1>5, <2>1 DEF ChainIsPath, TypeData
<1>7. nHeight[n] = h + 1
  <2>1. h + 2 \in 1 .. Len(chainActive)  BY <1>2, <1>4
  <2>2. QED BY <1>1, <1>4, <2>1 DEF ChainIsPath, TypeData
<1>8. Contains(n)  BY <1>2, <1>4, <1>7 DEF Contains, At
<1>9. Confirmations(n) = Confirmations(b) - 1
  BY <1>2, <1>3, <1>7, <1>8 DEF Confirmations, Height
<1>10. QED BY <1>6, <1>9

(* "nextblockhash" names a child of the block with one confirmation fewer  *)
(* in every reachable state, whatever reorganisations, invalidateblock and *)
(* reconsiderblock calls came before the getblock or getblockheader call.  *)
THEOREM NextBlockHashIsChildInvariant == Spec => []NextBlockHashIsChild
<1>1. IInv => NextBlockHashIsChild  BY NextBlockHashIsChildHolds DEF IInv
<1>2. QED BY InitIInv, NextIInv, <1>1, PTL DEF Spec

-----------------------------------------------------------------------------
(* The blocks of a path-shaped chain from position k up are Len - k + 1   *)
(* distinct blocks: positions carry distinct heights.                      *)
LEMMA ChainSuffixCard ==
    ASSUME TypeData, ChainIsPath, NEW k \in 1 .. Len(chainActive)
    PROVE  Cardinality({chainActive[i] : i \in k .. Len(chainActive)})
               = Len(chainActive) - k + 1
<1> DEFINE n == Len(chainActive)
           S == {chainActive[i] : i \in k .. n}
           f == [i \in k .. n |-> chainActive[i]]
<1>1. n \in Nat  BY DEF TypeData
<1>2. f \in Injection(k .. n, S)
  <2>1. f \in [k .. n -> S]  OBVIOUS
  <2>2. \A i, j \in k .. n : f[i] = f[j] => i = j
    <3> TAKE i, j \in k .. n
    <3>1. nHeight[chainActive[i]] = i - 1 /\ nHeight[chainActive[j]] = j - 1
      BY <1>1 DEF ChainIsPath
    <3>2. QED BY <3>1
  <2>3. QED BY <2>1, <2>2 DEF Injection, IsInjective
<1>3. f \in Surjection(k .. n, S)  BY DEF Surjection
<1>4. ExistsBijection(k .. n, S)  BY <1>2, <1>3 DEF ExistsBijection, Bijection
<1>5. IsFiniteSet(k .. n) /\ Cardinality(k .. n) = n - k + 1  BY <1>1, FS_Interval
<1>6. QED BY <1>4, <1>5, FS_Bijection

(* On a path-shaped chain, confirmations counts the active blocks that     *)
(* have the block as an ancestor, and is -1 off the chain.                 *)
LEMMA ConfirmationsCountHolds ==
    TypeOK /\ IndexIsTree /\ ChainIsPath => ConfirmationsCountDescendants
<1> SUFFICES ASSUME TypeOK, IndexIsTree, ChainIsPath, NEW b \in mapBlockIndex
             PROVE  Confirmations(b) =
                        IF b \in ActiveSet
                        THEN Cardinality({a \in ActiveSet : IsAncestorOrSelf(b, a)})
                        ELSE -1
  BY DEF ConfirmationsCountDescendants
<1> USE BlocksAssumption
<1>1. TypeData  BY TypeSplit
<1>2. Len(chainActive) \in Nat /\ b \in Blocks /\ nHeight[b] \in Nat  BY <1>1 DEF TypeData
<1>3. CASE b \in ActiveSet
  <2>1. PICK k \in 1 .. Len(chainActive) : chainActive[k] = b  BY <1>3 DEF ActiveSet
  <2>2. nHeight[b] = k - 1  BY <2>1 DEF ChainIsPath
  <2>3. Contains(b)  BY <1>2, <2>1, <2>2 DEF Contains, At
  <2>4. Confirmations(b) = Len(chainActive) - k + 1
    BY <1>2, <2>2, <2>3 DEF Confirmations, Height
  <2>5. {a \in ActiveSet : IsAncestorOrSelf(b, a)}
          = {chainActive[i] : i \in k .. Len(chainActive)}
    <3>1. ASSUME NEW i \in 1 .. Len(chainActive)
          PROVE  IsAncestorOrSelf(b, chainActive[i]) <=> k <= i
      <4>1. AncestorsOrSelf[chainActive[i]] = {chainActive[j] : j \in 1 .. i}
        BY <1>1, ChainAnc
      <4>2. chainActive[i] \in Blocks
        <5>1. chainActive[i] \in mapBlockIndex  BY <1>1 DEF TypeData
        <5>2. QED BY <1>1, <5>1 DEF TypeData
      <4>3. chainActive[i] /= NoBlock  BY <4>2 DEF NoBlock
      <4>4. ASSUME NEW j \in 1 .. i, chainActive[j] = b PROVE j = k
        <5>1. nHeight[chainActive[j]] = j - 1  BY <1>2 DEF ChainIsPath
        <5>2. QED BY <2>2, <4>4, <5>1
      <4>5. QED BY <2>1, <4>1, <4>3, <4>4 DEF IsAncestorOrSelf
    <3>2. QED BY <3>1 DEF ActiveSet
  <2>6. QED BY <1>1, <1>3, <2>4, <2>5, ChainSuffixCard
<1>4. CASE b \notin ActiveSet
  <2>1. ~ Contains(b)
    <3>1. SUFFICES ASSUME Contains(b) PROVE FALSE  OBVIOUS
    <3>2. b /= NoBlock  BY <1>2 DEF NoBlock
    <3>3. nHeight[b] < Len(chainActive) /\ chainActive[nHeight[b] + 1] = b
      BY <1>2, <3>1, <3>2 DEF Contains, At
    <3>4. QED BY <1>2, <1>4, <3>3 DEF ActiveSet
  <2>2. QED BY <1>4, <2>1 DEF Confirmations
<1>5. QED BY <1>3, <1>4

(* "confirmations" counts the active blocks at or above the block on its  *)
(* branch in every reachable state, after any reorganisation,              *)
(* invalidateblock or reconsiderblock.                                     *)
THEOREM ConfirmationsCountInvariant == Spec => []ConfirmationsCountDescendants
<1>1. IInv => ConfirmationsCountDescendants  BY ConfirmationsCountHolds DEF IInv
<1>2. QED BY InitIInv, NextIInv, <1>1, PTL DEF Spec

=============================================================================

-------------------------- MODULE BlockIndexProofs --------------------------
(***************************************************************************)
(* Proofs about BlockIndex for every finite set of hashes: the type        *)
(* invariant, and that the index stays a tree rooted at genesis and the    *)
(* active chain stays the pprev path from genesis indexed by height.       *)
(***************************************************************************)
EXTENDS BlockIndex, SequenceTheorems, TLAPS

(* The inductive invariant: the three are proved together, since the       *)
(* chain steps need the tree's heights and the type of every variable.     *)
IInv == TypeOK /\ IndexIsTree /\ ChainIsPath

(* TypeOK without the Boolean flag, which the SMT backend handles badly;  *)
(* the flag's type is proved once for every step, by Zenon.               *)
TypeData ==
    /\ mapBlockIndex \subseteq Blocks
    /\ pprev \in [Blocks -> Blocks \cup {NoBlock}]
    /\ nHeight \in [Blocks -> Nat]
    /\ nValid \in [Blocks -> ValidLevels]
    /\ failed \subseteq mapBlockIndex
    /\ haveData \subseteq mapBlockIndex
    /\ chainTx \subseteq mapBlockIndex
    /\ unlinked \subseteq mapBlockIndex
    /\ chainActive \in Seq(mapBlockIndex)

LEMMA TypeSplit == TypeOK <=> TypeData /\ fHavePruned \in BOOLEAN
  BY DEF TypeOK, TypeData

(* The invariant without the flag: what each step is shown to keep.       *)
IData == TypeData /\ IndexIsTree /\ ChainIsPath

(* The index, the chain and the status sets keep their types across every *)
(* validator step and every invalidateblock / reconsiderblock call.        *)
LEMMA InitIInv == Init => IInv
<1> SUFFICES ASSUME Init PROVE IInv  OBVIOUS
<1>1. TypeOK
  <2>1. fHavePruned \in BOOLEAN  BY DEF Init
  <2>2. QED BY <2>1, BlocksAssumption DEF Init, TypeOK, ValidLevels, NoBlock,
               BLOCK_VALID_SCRIPTS
<1>2. IndexIsTree /\ ChainIsPath
  BY BlocksAssumption DEF Init, IndexIsTree, ChainIsPath, NoBlock
<1>3. QED BY <1>1, <1>2 DEF IInv

(* invalidateblock on an active block other than genesis cuts the chain   *)
(* to a prefix that keeps genesis and drops the tip: the block's height is *)
(* its position, at least 1 and below Len(chainActive).                    *)
LEMMA InvalidateCut ==
  ASSUME TypeData, ChainIsPath, NEW b \in Blocks, invalidateblock(b), Contains(b),
         b /= Genesis
  PROVE  nHeight[b] \in 1 .. Len(chainActive) - 1
<1>1. b \in mapBlockIndex /\ b /= Genesis  BY DEF invalidateblock
<1>2. nHeight[b] \in Nat  BY <1>1 DEF TypeData
<1>3. 0 <= nHeight[b] /\ nHeight[b] < Len(chainActive)
      /\ chainActive[nHeight[b] + 1] = b
  BY <1>1, <1>2, BlocksAssumption DEF Contains, At, NoBlock
<1>4. nHeight[b] /= 0  BY <1>1, <1>3 DEF ChainIsPath
<1>5. QED BY <1>2, <1>3, <1>4

(* Every step keeps the invariant; one step per action of Next.            *)
LEMMA NextIInv == IInv /\ [Next]_vars => IInv'
<1>s. SUFFICES ASSUME IInv, [Next]_vars PROVE IInv'
  OBVIOUS
<1> USE BlocksAssumption
<1>0. /\ TypeOK /\ TypeData /\ IndexIsTree /\ ChainIsPath
      /\ Tip = chainActive[Len(chainActive)]
      /\ Tip \in mapBlockIndex
  <2>1. TypeOK /\ IndexIsTree /\ ChainIsPath  BY <1>s DEF IInv
  <2>2. TypeData  BY <2>1, TypeSplit
  <2>3. chainActive \in Seq(mapBlockIndex) /\ Len(chainActive) >= 1
    BY <2>1, <2>2 DEF TypeData, ChainIsPath
  <2>4. Tip = chainActive[Len(chainActive)]  BY <2>3 DEF Tip
  <2>5. QED BY <2>1, <2>2, <2>3, <2>4
<1>f. fHavePruned' \in BOOLEAN
  <2>1. fHavePruned \in BOOLEAN  BY <1>0 DEF TypeOK
  <2>2. fHavePruned' = fHavePruned \/ fHavePruned' = TRUE
    BY <1>s DEF Next, vars, AcceptBlockHeader, AcceptBlock, ConnectTip, ConnectTipFailed,
       DisconnectTip, MarkFailedChild, PruneOneBlockFile, invalidateblock, reconsiderblock
  <2>3. QED BY <2>1, <2>2, Zenon
<1>1. ASSUME NEW b \in Blocks, NEW p \in Blocks, AcceptBlockHeader(b, p)
      PROVE  IData'
  <2>1. TypeData'
    <3>1. UNCHANGED <<failed, haveData, chainTx, unlinked, chainActive>>
      BY <1>1 DEF AcceptBlockHeader
    <3>2. mapBlockIndex' = mapBlockIndex \cup {b} /\ p \in mapBlockIndex
      BY <1>1 DEF AcceptBlockHeader
    <3>3. pprev' \in [Blocks -> Blocks \cup {NoBlock}]
      BY <1>0, <1>1 DEF AcceptBlockHeader, TypeData
    <3>4. nHeight' \in [Blocks -> Nat]
      BY <1>0, <1>1 DEF AcceptBlockHeader, TypeData
    <3>5. nValid' \in [Blocks -> ValidLevels]
      BY <1>0, <1>1 DEF AcceptBlockHeader, TypeData, ValidLevels, BLOCK_VALID_TREE
    <3>6. chainActive' \in Seq(mapBlockIndex')
      BY <1>0, <3>1, <3>2 DEF TypeData
    <3>. QED BY <1>0, <3>1, <3>2, <3>3, <3>4, <3>5, <3>6 DEF TypeData
  <2>2. IndexIsTree'
    BY <1>0, <1>1 DEF AcceptBlockHeader, IndexIsTree, TypeData
  <2>3. ChainIsPath'
    <3>1. b \notin mapBlockIndex /\ UNCHANGED chainActive  BY <1>1 DEF AcceptBlockHeader
    <3>2. \A i \in 1 .. Len(chainActive) : chainActive[i] /= b
      BY <1>0, <3>1 DEF TypeData
    <3>3. /\ pprev' = [pprev EXCEPT ![b] = p]
          /\ nHeight' = [nHeight EXCEPT ![b] = nHeight[p] + 1]
      BY <1>1 DEF AcceptBlockHeader
    <3>4. \A i \in 1 .. Len(chainActive) :
             /\ nHeight'[chainActive[i]] = nHeight[chainActive[i]]
             /\ pprev'[chainActive[i]] = pprev[chainActive[i]]
      BY <1>0, <3>2, <3>3 DEF TypeData
    <3>5. QED BY <1>0, <3>1, <3>4 DEF ChainIsPath
  <2>4. QED BY <2>1, <2>2, <2>3 DEF IData
<1>2. ASSUME NEW b \in Blocks, AcceptBlock(b) PROVE IData'
  <2>1. TypeData'
    <3>1. /\ b \in mapBlockIndex
          /\ haveData' = haveData \cup {b}
          /\ UNCHANGED <<mapBlockIndex, pprev, nHeight, failed, chainActive>>
      BY <1>2 DEF AcceptBlock
    <3>2. nValid' \in [Blocks -> ValidLevels]
      BY <1>0, <1>2 DEF AcceptBlock, TypeData, ValidLevels, BLOCK_VALID_TRANSACTIONS
    <3>3. LinkedTo(b) \subseteq mapBlockIndex  BY DEF LinkedTo
    <3>4. chainTx' \subseteq mapBlockIndex /\ unlinked' \subseteq mapBlockIndex
      BY <1>0, <1>2, <3>1, <3>3 DEF AcceptBlock, TypeData
    <3>5. QED BY <1>0, <3>1, <3>2, <3>4 DEF TypeData
  <2>2. QED BY <1>0, <1>2, <2>1 DEF AcceptBlock, IData, IndexIsTree, ChainIsPath
<1>3. ASSUME NEW b \in Blocks, ConnectTip(b) PROVE IData'
  <2>1. b \in mapBlockIndex \ {Genesis}
    <3>1. b \in mapBlockIndex /\ pprev[b] = Tip  BY <1>3 DEF ConnectTip, CanConnect
    <3>2. Tip /= NoBlock  BY <1>0 DEF TypeData, NoBlock
    <3>3. QED BY <1>0, <3>1, <3>2 DEF IndexIsTree
  <2>2. nHeight[b] = Len(chainActive)
    <3>1. pprev[b] = Tip  BY <1>3 DEF ConnectTip, CanConnect
    <3>2. nHeight[b] = nHeight[pprev[b]] + 1  BY <1>0, <2>1 DEF IndexIsTree
    <3>3. nHeight[Tip] = Len(chainActive) - 1  BY <1>0 DEF ChainIsPath, TypeData
    <3>4. QED BY <3>1, <3>2, <3>3
  <2>3. TypeData'
    <3>1. UNCHANGED <<mapBlockIndex, pprev, nHeight, failed, haveData, chainTx>>
      BY <1>3 DEF ConnectTip
    <3>1a. UNCHANGED unlinked  BY <1>3 DEF ConnectTip
    <3>2. nValid' \in [Blocks -> ValidLevels]
      <4>1. nValid' = [nValid EXCEPT ![b] = BLOCK_VALID_SCRIPTS]  BY <1>3 DEF ConnectTip
      <4>2. BLOCK_VALID_SCRIPTS \in ValidLevels  BY DEF ValidLevels, BLOCK_VALID_SCRIPTS
      <4>3. nValid \in [Blocks -> ValidLevels]  BY <1>0 DEF TypeData
      <4>. QED BY <4>1, <4>2, <4>3
    <3>3. chainActive' \in Seq(mapBlockIndex)
      <4>1. chainActive' = Append(chainActive, b)  BY <1>3 DEF ConnectTip
      <4>2. chainActive \in Seq(mapBlockIndex)  BY <1>0 DEF TypeData
      <4>. QED BY <2>1, <3>1, <4>1, <4>2
    <3>. QED BY <1>0, <3>1, <3>1a, <3>2, <3>3 DEF TypeData
  <2>4. ChainIsPath'
    <3>1. /\ chainActive' = Append(chainActive, b)
          /\ nHeight' = nHeight /\ pprev' = pprev
      BY <1>3 DEF ConnectTip
    <3>2. Len(chainActive') = Len(chainActive) + 1 /\ chainActive'[1] = Genesis
      BY <1>0, <3>1 DEF ChainIsPath, TypeData
    <3>3. ASSUME NEW i \in 1 .. Len(chainActive')
          PROVE  /\ nHeight'[chainActive'[i]] = i - 1
                 /\ i > 1 => pprev'[chainActive'[i]] = chainActive'[i - 1]
      <4>1. CASE i = Len(chainActive) + 1
        BY <1>0, <1>3, <2>2, <3>1, <4>1 DEF ConnectTip, CanConnect, ChainIsPath, TypeData
      <4>2. CASE i <= Len(chainActive)
        BY <1>0, <3>1, <4>2 DEF ChainIsPath, TypeData
      <4>3. QED BY <3>2, <4>1, <4>2
    <3>4. QED BY <3>2, <3>3 DEF ChainIsPath
  <2>5. QED BY <1>0, <1>3, <2>3, <2>4 DEF ConnectTip, IData, IndexIsTree
<1>4. ASSUME NEW b \in Blocks, ConnectTipFailed(b) PROVE IData'
  BY <1>0, <1>4 DEF ConnectTipFailed, CanConnect, IData, TypeData, IndexIsTree, ChainIsPath
<1>5. ASSUME DisconnectTip PROVE IData'
  <2>1. TypeData'
    <3>1. UNCHANGED <<mapBlockIndex, pprev, nHeight, nValid, failed, haveData,
                     chainTx, unlinked>>
      BY <1>5 DEF DisconnectTip
    <3>2. chainActive' = SubSeq(chainActive, 1, Len(chainActive) - 1)
          /\ Len(chainActive) > 1
      BY <1>5 DEF DisconnectTip
    <3>3. chainActive' \in Seq(mapBlockIndex)  BY <1>0, <3>2 DEF TypeData
    <3>4. QED BY <1>0, <3>1, <3>3 DEF TypeData
  <2>2. ChainIsPath'
    BY <1>0, <1>5 DEF DisconnectTip, ChainIsPath
  <2>3. UNCHANGED <<mapBlockIndex, pprev, nHeight>>  BY <1>5 DEF DisconnectTip
  <2>4. QED BY <1>0, <2>1, <2>2, <2>3 DEF IData, IndexIsTree
<1>6. ASSUME NEW b \in Blocks, MarkFailedChild(b) PROVE IData'
  BY <1>0, <1>6 DEF MarkFailedChild, IData, TypeData, IndexIsTree, ChainIsPath
<1>11. ASSUME NEW b \in Blocks, PruneOneBlockFile(b) PROVE IData'
  <2>1. /\ haveData' = haveData \ {b} /\ unlinked' = unlinked \ {b}
        /\ UNCHANGED <<mapBlockIndex, pprev, nHeight, nValid, failed, chainTx, chainActive>>
    BY <1>11 DEF PruneOneBlockFile
  <2>2. TypeData'  BY <1>0, <2>1 DEF TypeData
  <2>3. QED BY <1>0, <2>1, <2>2 DEF IData, IndexIsTree, ChainIsPath
<1>7. ASSUME NEW b \in Blocks, invalidateblock(b) PROVE IData'
  <2>0. CASE Contains(b) /\ b = Genesis
    <3>0. /\ b \in mapBlockIndex
          /\ chainActive' = SubSeq(chainActive, 1, 1)
          /\ failed' = failed \cup {b} \cup
                {chainActive[i] : i \in nHeight[b] + 1 .. Len(chainActive)}
          /\ UNCHANGED <<mapBlockIndex, pprev, nHeight, nValid, haveData, chainTx,
                         unlinked, fHavePruned>>
      BY <1>7, <2>0 DEF invalidateblock, InvalidateBlock
    <3>1. /\ Len(chainActive) >= 1 /\ chainActive[1] = Genesis /\ nHeight[Genesis] = 0
          /\ Genesis \in mapBlockIndex
      BY <1>0 DEF ChainIsPath, TypeData
    <3>2. /\ chainActive' \in Seq(mapBlockIndex)
          /\ Len(chainActive') = 1 /\ chainActive'[1] = Genesis
      <4>1. chainActive \in Seq(mapBlockIndex)  BY <1>0 DEF TypeData
      <4>. QED BY <3>0, <3>1, <4>1, SubSeqProperties
    <3>3. failed' \subseteq mapBlockIndex
      <4>1. \A i \in nHeight[b] + 1 .. Len(chainActive) : chainActive[i] \in mapBlockIndex
        BY <1>0, <2>0, <3>1 DEF TypeData
      <4>2. {chainActive[i] : i \in nHeight[b] + 1 .. Len(chainActive)} \subseteq mapBlockIndex
        BY <4>1
      <4>3. QED BY <1>0, <3>0, <4>2 DEF TypeData
    <3>4. TypeData'
      <4>1. chainActive' \in Seq(mapBlockIndex')  BY <3>0, <3>2
      <4>2. QED BY <1>0, <3>0, <3>3, <4>1 DEF TypeData
    <3>5. ChainIsPath'
      <4>2. nHeight'[Genesis] = 0  BY <3>0, <3>1
      <4>3. QED BY <3>2, <4>2 DEF ChainIsPath
    <3>6. QED BY <1>0, <3>0, <3>4, <3>5 DEF IData, IndexIsTree
  <2>1. CASE Contains(b) /\ b /= Genesis
    <3>1. nHeight[b] \in 1 .. Len(chainActive) - 1
      BY <1>0, <1>7, <2>1, InvalidateCut
    <3>0. /\ b \in mapBlockIndex
          /\ chainActive' = SubSeq(chainActive, 1, nHeight[b])
          /\ failed' = failed \cup {b} \cup
                {chainActive[i] : i \in nHeight[b] + 1 .. Len(chainActive)}
          /\ UNCHANGED <<mapBlockIndex, pprev, nHeight, nValid, haveData, chainTx,
                         unlinked, fHavePruned>>
      BY <1>7, <2>1 DEF invalidateblock, InvalidateBlock
    <3>2. TypeData'
      <4>1. failed' \subseteq mapBlockIndex'
        <5>1. \A i \in nHeight[b] + 1 .. Len(chainActive) : chainActive[i] \in mapBlockIndex
          BY <1>0, <3>1 DEF TypeData
        <5>2. QED BY <1>0, <3>0, <5>1 DEF TypeData
      <4>2. chainActive' \in Seq(mapBlockIndex')  BY <1>0, <3>0, <3>1 DEF TypeData
      <4>3. QED BY <1>0, <3>0, <4>1, <4>2 DEF TypeData
    <3>3. ChainIsPath'
      <4>0. \A i \in 1 .. nHeight[b] : chainActive[i] \in mapBlockIndex
        BY <1>0, <3>1 DEF TypeData
      <4>1. Len(chainActive') = nHeight[b]
        BY <3>0, <3>1, <4>0, SubSeqProperties
      <4>2. \A i \in 1 .. nHeight[b] : chainActive'[i] = chainActive[i]
        BY <3>0, <3>1, <4>0, SubSeqProperties
      <4>3. Len(chainActive') >= 1 /\ chainActive'[1] = Genesis
        BY <1>0, <3>1, <4>1, <4>2 DEF ChainIsPath
      <4>4. ASSUME NEW i \in 1 .. Len(chainActive')
            PROVE  /\ nHeight'[chainActive'[i]] = i - 1
                   /\ i > 1 => pprev'[chainActive'[i]] = chainActive'[i - 1]
        <5>1. i \in 1 .. Len(chainActive) /\ chainActive'[i] = chainActive[i]
          BY <3>1, <4>1, <4>2
        <5>2. i > 1 => chainActive'[i - 1] = chainActive[i - 1]
          BY <3>1, <4>1, <4>2
        <5>3. QED BY <1>0, <3>0, <5>1, <5>2 DEF ChainIsPath
      <4>5. QED BY <4>3, <4>4 DEF ChainIsPath
    <3>4. QED BY <1>0, <1>7, <3>2, <3>3 DEF invalidateblock, IData, IndexIsTree
  <2>2. CASE ~ Contains(b)
    BY <1>0, <1>7, <2>2 DEF invalidateblock, InvalidateBlock, IData, TypeData,
       IndexIsTree, ChainIsPath
  <2>3. QED BY <2>0, <2>1, <2>2
<1>8. ASSUME NEW b \in Blocks, reconsiderblock(b) PROVE IData'
  BY <1>0, <1>8 DEF reconsiderblock, ReconsiderBlock, IData, TypeData, IndexIsTree,
     ChainIsPath
<1>9. ASSUME UNCHANGED vars PROVE IData'
  <2>1. UNCHANGED <<mapBlockIndex, pprev, nHeight, nValid, failed, haveData, chainTx,
                   unlinked, chainActive>>
    BY <1>9 DEF vars
  <2>2. QED BY <1>0, <2>1 DEF IData, TypeData, IndexIsTree, ChainIsPath
<1>10. IData'
  <2>1. CASE Next
    BY <2>1, <1>1, <1>2, <1>3, <1>4, <1>5, <1>6, <1>11, <1>7, <1>8 DEF Next
  <2>2. QED BY <1>s, <1>9, <2>1
<1>12. QED BY <1>f, <1>10, Zenon DEF IInv, IData, TypeOK, TypeData

(* The index stays a tree rooted at genesis and the active chain stays the *)
(* pprev path from genesis indexed by height, whatever the validator and   *)
(* the invalidateblock / reconsiderblock handlers do, for every set of     *)
(* hashes: the basis on which CChain::Contains, Next and FindFork answer.  *)
THEOREM ChainIsPathInvariant == Spec => []ChainIsPath
<1>1. IInv => ChainIsPath  BY DEF IInv
<1>2. QED BY InitIInv, NextIInv, <1>1, PTL DEF Spec

(* The type invariant of every state of the specification.                *)
THEOREM TypeCorrect == Spec => []TypeOK
<1>1. IInv => TypeOK  BY DEF IInv
<1>2. QED BY InitIInv, NextIInv, <1>1, PTL DEF Spec

=============================================================================

--------------------------- MODULE AncestryProofs ---------------------------
(***************************************************************************)
(* What following pprev pointers gives in a reachable state, for every     *)
(* finite set of hashes: the facts about AncestorsOrSelf that the proofs  *)
(* of the confirmations field, of getchaintips and of the nChainTx walk    *)
(* rest on.                                                                *)
(*                                                                         *)
(* AncestorsOrSelf is a recursive function.  Its defining equation is     *)
(* first shown to have a solution (the pprev-closure of a block), so the  *)
(* equation holds of it; every other fact is proved from the equation by   *)
(* a least counterexample on heights (WFMin on the naturals), which needs *)
(* no induction rule with an operator parameter.                           *)
(***************************************************************************)
EXTENDS BlockIndexProofs, WellFoundedInduction

-----------------------------------------------------------------------------
(* Every non-empty set of naturals has a least element.                    *)
LEMMA NatMin ==
    ASSUME NEW T \in SUBSET Nat, T /= {}
    PROVE  \E m \in T : \A k \in T : m <= k
<1>1. \E x \in T : \A y \in T : ~ (<<y, x>> \in OpToRel(<, Nat))
  BY WFMin, NatLessThanWellFounded
<1>2. PICK x \in T : \A y \in T : ~ (<<y, x>> \in OpToRel(<, Nat))  BY <1>1
<1>3. ASSUME NEW y \in T PROVE x <= y
  <2>1. <<y, x>> \in Nat \X Nat  OBVIOUS
  <2>2. ~ (y < x)  BY <1>2, <2>1, Zenon DEF OpToRel
  <2>3. QED BY <2>2
<1>4. QED BY <1>3

(* Every non-empty set of naturals below a bound has a greatest element.   *)
LEMMA NatMax ==
    ASSUME NEW n \in Nat, NEW T \in SUBSET (0 .. n), T /= {}
    PROVE  \E m \in T : \A k \in T : k <= m
<1> DEFINE U == {n - k : k \in T}
<1>0. \A k \in T : k \in 0 .. n /\ n - k \in Nat  OBVIOUS
<1>1. U \in SUBSET Nat /\ U /= {}  BY <1>0
<1>2. PICK u \in U : \A j \in U : u <= j  BY <1>1, NatMin
<1>3. PICK m \in T : u = n - m  OBVIOUS
<1>4. ASSUME NEW k \in T PROVE k <= m
  <2>1. n - k \in U  OBVIOUS
  <2>2. u <= n - k  BY <1>2, <2>1
  <2>3. QED BY <1>0, <1>3, <2>2
<1>5. QED BY <1>4

(* The blocks every pprev-closed set containing b contains.                *)
Closure(b) ==
    {a \in Blocks :
        \A S \in SUBSET Blocks :
            (b \in S /\ \A x \in S : pprev[x] /= NoBlock => pprev[x] \in S)
                => a \in S}

(* The equation that defines AncestorsOrSelf.                              *)
AncEquation(F) ==
    F = [b \in Blocks |-> IF pprev[b] = NoBlock THEN {b} ELSE {b} \cup F[pprev[b]]]

(* The closure satisfies the equation, whatever pprev is: a block's        *)
(* closure is itself, or itself and its parent's closure.                  *)
LEMMA ClosureUnfold ==
    ASSUME pprev \in [Blocks -> Blocks \cup {NoBlock}], NEW b \in Blocks
    PROVE  Closure(b) = IF pprev[b] = NoBlock THEN {b} ELSE {b} \cup Closure(pprev[b])
<1>1. b \in Closure(b)  BY DEF Closure
<1>2. CASE pprev[b] = NoBlock
  <2>1. Closure(b) \subseteq {b}
    <3>1. {b} \in SUBSET Blocks /\ \A x \in {b} : pprev[x] /= NoBlock => pprev[x] \in {b}
      BY <1>2
    <3>2. QED BY <3>1 DEF Closure
  <2>2. QED BY <1>1, <1>2, <2>1
<1>3. CASE pprev[b] /= NoBlock
  <2> DEFINE p == pprev[b]
  <2>1. p \in Blocks  BY <1>3
  <2>2. Closure(b) \subseteq {b} \cup Closure(p)
    <3> DEFINE S == {b} \cup Closure(p)
    <3>1. S \in SUBSET Blocks  BY DEF Closure
    <3>2. b \in S  OBVIOUS
    <3>3. ASSUME NEW x \in S, pprev[x] /= NoBlock PROVE pprev[x] \in S
      <4>1. CASE x = b  BY <2>1, <4>1 DEF Closure
      <4>2. CASE x \in Closure(p)
        <5>1. pprev[x] \in Blocks  BY <3>3, <3>1
        <5>2. QED BY <4>2, <5>1, <3>3 DEF Closure
      <4>3. QED BY <4>1, <4>2
    <3>4. QED BY <3>1, <3>2, <3>3 DEF Closure
  <2>3. Closure(p) \subseteq Closure(b)
    BY <1>3 DEF Closure
  <2>4. QED BY <1>1, <1>3, <2>2, <2>3
<1>4. QED BY <1>2, <1>3

(* AncestorsOrSelf satisfies its defining equation.                         *)
LEMMA AncUnfold ==
    ASSUME pprev \in [Blocks -> Blocks \cup {NoBlock}]
    PROVE  AncEquation(AncestorsOrSelf)
<1>1. \E F : AncEquation(F)
  <2>1. AncEquation([b \in Blocks |-> Closure(b)])
    BY ClosureUnfold DEF AncEquation
  <2>2. QED BY <2>1
<1>2. QED BY <1>1 DEF AncEquation, AncestorsOrSelf

-----------------------------------------------------------------------------
(* Induction down the index: a set of entries that holds, with each of its *)
(* members, its parent, and not genesis, is empty, since heights fall by   *)
(* one along pprev and have a least element.                               *)
LEMMA IndexInduction ==
    ASSUME TypeData, IndexIsTree,
           NEW Bad \in SUBSET mapBlockIndex,
           \A x \in Bad : x /= Genesis /\ pprev[x] \in Bad
    PROVE  Bad = {}
<1> SUFFICES ASSUME Bad /= {} PROVE FALSE  OBVIOUS
<1> DEFINE T == {nHeight[x] : x \in Bad}
<1>1. T \in SUBSET Nat /\ T /= {}  BY DEF TypeData
<1>2. PICK m \in T : \A k \in T : m <= k  BY <1>1, NatMin
<1>3. PICK x \in Bad : nHeight[x] = m  OBVIOUS
<1>4. pprev[x] \in Bad /\ nHeight[x] = nHeight[pprev[x]] + 1
  BY <1>3 DEF IndexIsTree
<1>5. nHeight[pprev[x]] \in T  BY <1>4
<1>6. nHeight[pprev[x]] \in Nat /\ nHeight[x] \in Nat  BY <1>4 DEF TypeData
<1>7. m <= nHeight[pprev[x]]  BY <1>2, <1>5
<1>8. QED BY <1>3, <1>4, <1>6, <1>7

(* One unfolding of AncestorsOrSelf on an index entry.                      *)
LEMMA AncStep ==
    ASSUME TypeData, IndexIsTree, NEW b \in mapBlockIndex
    PROVE  /\ b = Genesis => AncestorsOrSelf[b] = {b}
           /\ b /= Genesis =>
                /\ pprev[b] \in mapBlockIndex
                /\ nHeight[b] = nHeight[pprev[b]] + 1
                /\ AncestorsOrSelf[b] = {b} \cup AncestorsOrSelf[pprev[b]]
<1>1. AncEquation(AncestorsOrSelf)  BY AncUnfold DEF TypeData
<1>2. b \in Blocks  BY DEF TypeData
<1>3. CASE b = Genesis
  BY <1>1, <1>2, <1>3 DEF IndexIsTree, AncEquation
<1>4. CASE b /= Genesis
  <2>1. pprev[b] \in mapBlockIndex /\ nHeight[b] = nHeight[pprev[b]] + 1
    BY <1>4 DEF IndexIsTree
  <2>2. pprev[b] /= NoBlock  BY <2>1, BlocksAssumption DEF TypeData, NoBlock
  <2>3. QED BY <1>1, <1>2, <1>4, <2>1, <2>2 DEF AncEquation
<1>5. QED BY <1>3, <1>4

(* The ancestors of an entry are entries, none higher than it.              *)
LEMMA AncInIndex ==
    ASSUME TypeData, IndexIsTree, NEW b \in mapBlockIndex,
           NEW a \in AncestorsOrSelf[b]
    PROVE  a \in mapBlockIndex /\ nHeight[a] <= nHeight[b]
<1> DEFINE P(x) == \A y \in AncestorsOrSelf[x] :
                       y \in mapBlockIndex /\ nHeight[y] <= nHeight[x]
           Bad == {x \in mapBlockIndex : ~ P(x)}
<1>1. ASSUME NEW x \in Bad PROVE x /= Genesis /\ pprev[x] \in Bad
  <2>1. x /= Genesis  BY AncStep DEF TypeData, IndexIsTree
  <2>2. pprev[x] \in mapBlockIndex /\ nHeight[x] = nHeight[pprev[x]] + 1
        /\ AncestorsOrSelf[x] = {x} \cup AncestorsOrSelf[pprev[x]]
    BY <2>1, AncStep
  <2>3. x \in mapBlockIndex /\ nHeight[x] \in Nat /\ nHeight[pprev[x]] \in Nat
    BY <2>2 DEF TypeData
  <2>4. ~ P(pprev[x])
    <3>1. SUFFICES ASSUME P(pprev[x]) PROVE P(x)  OBVIOUS
    <3>2. ASSUME NEW y \in AncestorsOrSelf[x]
          PROVE  y \in mapBlockIndex /\ nHeight[y] <= nHeight[x]
      <4>1. CASE y = x  BY <2>3, <4>1
      <4>2. CASE y \in AncestorsOrSelf[pprev[x]]
        <5>1. y \in mapBlockIndex /\ nHeight[y] <= nHeight[pprev[x]]  BY <3>1, <4>2
        <5>2. nHeight[y] \in Nat  BY <5>1 DEF TypeData
        <5>3. QED BY <2>2, <2>3, <5>1, <5>2
      <4>3. QED BY <2>2, <4>1, <4>2
    <3>3. QED BY <3>2
  <2>5. QED BY <2>1, <2>2, <2>4
<1>2. Bad = {}  BY <1>1, IndexInduction
<1>3. QED BY <1>2

(* The ancestors of an entry form one line: of two of them, the lower is an *)
(* ancestor of the higher.                                                 *)
LEMMA AncLinear ==
    ASSUME TypeData, IndexIsTree, NEW b \in mapBlockIndex,
           NEW a \in AncestorsOrSelf[b], NEW c \in AncestorsOrSelf[b],
           nHeight[c] <= nHeight[a]
    PROVE  c \in AncestorsOrSelf[a]
<1> DEFINE P(x) == \A y, z \in AncestorsOrSelf[x] :
                       nHeight[z] <= nHeight[y] => z \in AncestorsOrSelf[y]
           Bad == {x \in mapBlockIndex : ~ P(x)}
<1>1. ASSUME NEW x \in Bad PROVE x /= Genesis /\ pprev[x] \in Bad
  <2>1. x /= Genesis  BY AncStep DEF TypeData, IndexIsTree
  <2>2. pprev[x] \in mapBlockIndex /\ nHeight[x] = nHeight[pprev[x]] + 1
        /\ AncestorsOrSelf[x] = {x} \cup AncestorsOrSelf[pprev[x]]
    BY <2>1, AncStep
  <2>3. x \in mapBlockIndex /\ nHeight[x] \in Nat /\ nHeight[pprev[x]] \in Nat
    BY <2>2 DEF TypeData
  <2>4. ~ P(pprev[x])
    <3>1. SUFFICES ASSUME P(pprev[x]) PROVE P(x)  OBVIOUS
    <3>2. ASSUME NEW y \in AncestorsOrSelf[x], NEW z \in AncestorsOrSelf[x],
                 nHeight[z] <= nHeight[y]
          PROVE  z \in AncestorsOrSelf[y]
      <4>1. CASE y = x  BY <3>2, <4>1
      <4>2. CASE y /= x
        <5>1. y \in AncestorsOrSelf[pprev[x]]  BY <2>2, <4>2
        <5>2. y \in mapBlockIndex /\ nHeight[y] <= nHeight[pprev[x]]
          BY <2>2, <5>1, AncInIndex
        <5>3. z /= x
          <6>1. nHeight[y] \in Nat  BY <5>2 DEF TypeData
          <6>2. nHeight[z] <= nHeight[y]  BY <3>2
          <6>3. QED BY <2>2, <2>3, <5>2, <6>1, <6>2
        <5>4. z \in AncestorsOrSelf[pprev[x]]  BY <2>2, <5>3
        <5>5. QED BY <3>1, <3>2, <5>1, <5>4
      <4>3. QED BY <4>1, <4>2
    <3>3. QED BY <3>2
  <2>5. QED BY <2>1, <2>2, <2>4
<1>2. Bad = {}  BY <1>1, IndexInduction
<1>3. QED BY <1>2

(* An entry is among its own ancestors, and is the only one at its height. *)
LEMMA AncSelf ==
    ASSUME TypeData, IndexIsTree, NEW b \in mapBlockIndex
    PROVE  b \in AncestorsOrSelf[b]
  BY AncStep

LEMMA AncSameHeight ==
    ASSUME TypeData, IndexIsTree, NEW b \in mapBlockIndex,
           NEW a \in AncestorsOrSelf[b], nHeight[a] = nHeight[b]
    PROVE  a = b
<1>1. CASE b = Genesis  BY <1>1, AncStep
<1>2. CASE b /= Genesis
  <2>1. pprev[b] \in mapBlockIndex /\ nHeight[b] = nHeight[pprev[b]] + 1
        /\ AncestorsOrSelf[b] = {b} \cup AncestorsOrSelf[pprev[b]]
    BY <1>2, AncStep
  <2>2. SUFFICES ASSUME a \in AncestorsOrSelf[pprev[b]] PROVE FALSE  BY <2>1
  <2>3. nHeight[a] <= nHeight[pprev[b]]  BY <2>1, <2>2, AncInIndex
  <2>4. nHeight[pprev[b]] \in Nat  BY <2>1 DEF TypeData
  <2>5. QED BY <2>1, <2>3, <2>4
<1>3. QED BY <1>1, <1>2

(* Two ancestors of an entry at the same height are the same block.        *)
LEMMA AncHeightInjective ==
    ASSUME TypeData, IndexIsTree, NEW b \in mapBlockIndex,
           NEW a \in AncestorsOrSelf[b], NEW c \in AncestorsOrSelf[b],
           nHeight[a] = nHeight[c]
    PROVE  a = c
<1>1. a \in mapBlockIndex /\ nHeight[a] \in Nat  BY AncInIndex DEF TypeData
<1>2. c \in AncestorsOrSelf[a]  BY <1>1, AncLinear
<1>3. QED BY <1>1, <1>2, AncSameHeight

(* Genesis is an ancestor of every entry.                                 *)
LEMMA GenesisAnc ==
    ASSUME TypeData, IndexIsTree, NEW b \in mapBlockIndex
    PROVE  Genesis \in AncestorsOrSelf[b]
<1> DEFINE Bad == {x \in mapBlockIndex : Genesis \notin AncestorsOrSelf[x]}
<1>1. ASSUME NEW x \in Bad PROVE x /= Genesis /\ pprev[x] \in Bad
  <2>1. x /= Genesis  BY AncStep
  <2>2. pprev[x] \in mapBlockIndex
        /\ AncestorsOrSelf[x] = {x} \cup AncestorsOrSelf[pprev[x]]
    BY <2>1, AncStep
  <2>3. QED BY <2>1, <2>2
<1>2. Bad = {}  BY <1>1, IndexInduction
<1>3. QED BY <1>2

(* An ancestor's ancestors are ancestors.                                   *)
LEMMA AncTrans ==
    ASSUME TypeData, IndexIsTree, NEW b \in mapBlockIndex,
           NEW a \in AncestorsOrSelf[b], NEW c \in AncestorsOrSelf[a]
    PROVE  c \in AncestorsOrSelf[b]
<1> DEFINE P(x) == \A y \in AncestorsOrSelf[x] : \A z \in AncestorsOrSelf[y] :
                       z \in AncestorsOrSelf[x]
           Bad == {x \in mapBlockIndex : ~ P(x)}
<1>1. ASSUME NEW x \in Bad PROVE x /= Genesis /\ pprev[x] \in Bad
  <2>0. PICK y \in AncestorsOrSelf[x] :
             \E z \in AncestorsOrSelf[y] : z \notin AncestorsOrSelf[x]
    OBVIOUS
  <2>1. PICK z \in AncestorsOrSelf[y] : z \notin AncestorsOrSelf[x]  BY <2>0
  <2>2. y /= x  BY <2>1
  <2>3. x /= Genesis  BY <2>0, <2>2, AncStep
  <2>4. pprev[x] \in mapBlockIndex
        /\ AncestorsOrSelf[x] = {x} \cup AncestorsOrSelf[pprev[x]]
    BY <2>3, AncStep
  <2>5. y \in AncestorsOrSelf[pprev[x]] /\ z \notin AncestorsOrSelf[pprev[x]]
    BY <2>0, <2>1, <2>2, <2>4
  <2>6. QED BY <2>1, <2>3, <2>4, <2>5
<1>2. Bad = {}  BY <1>1, IndexInduction
<1>3. QED BY <1>2

(* An entry has an ancestor at every height from 0 up to its own.          *)
LEMMA AncAtHeight ==
    ASSUME TypeData, IndexIsTree, NEW b \in mapBlockIndex, NEW h \in 0 .. nHeight[b]
    PROVE  \E a \in AncestorsOrSelf[b] : nHeight[a] = h
<1> DEFINE P(x) == \A k \in 0 .. nHeight[x] : \E a \in AncestorsOrSelf[x] : nHeight[a] = k
           Bad == {x \in mapBlockIndex : ~ P(x)}
<1>1. ASSUME NEW x \in Bad PROVE x /= Genesis /\ pprev[x] \in Bad
  <2>1. PICK k \in 0 .. nHeight[x] : \A a \in AncestorsOrSelf[x] : nHeight[a] /= k
    OBVIOUS
  <2>2. x \in AncestorsOrSelf[x] /\ nHeight[x] \in Nat  BY AncSelf DEF TypeData
  <2>3. k /= nHeight[x]  BY <2>1, <2>2
  <2>4. x /= Genesis  BY <2>2, <2>3 DEF IndexIsTree
  <2>5. pprev[x] \in mapBlockIndex /\ nHeight[x] = nHeight[pprev[x]] + 1
        /\ AncestorsOrSelf[x] = {x} \cup AncestorsOrSelf[pprev[x]]
    BY <2>4, AncStep
  <2>6. nHeight[pprev[x]] \in Nat  BY <2>5 DEF TypeData
  <2>7. k \in 0 .. nHeight[pprev[x]]  BY <2>2, <2>3, <2>5, <2>6
  <2>8. QED BY <2>1, <2>4, <2>5, <2>7
<1>2. Bad = {}  BY <1>1, IndexInduction
<1>3. QED BY <1>2

(* The ancestors of the block at position i of a path-shaped chain are the *)
(* chain's first i blocks.                                                 *)
LEMMA ChainAnc ==
    ASSUME TypeData, IndexIsTree, ChainIsPath, NEW i \in 1 .. Len(chainActive)
    PROVE  AncestorsOrSelf[chainActive[i]] = {chainActive[j] : j \in 1 .. i}
<1> DEFINE Pre(k) == {chainActive[j] : j \in 1 .. k}
           P(x) == \A k \in 1 .. Len(chainActive) :
                       chainActive[k] = x => AncestorsOrSelf[x] = Pre(k)
           Bad == {x \in mapBlockIndex : ~ P(x)}
<1>1. ASSUME NEW x \in Bad PROVE x /= Genesis /\ pprev[x] \in Bad
  <2>1. PICK k \in 1 .. Len(chainActive) :
            chainActive[k] = x /\ AncestorsOrSelf[x] /= Pre(k)
    OBVIOUS
  <2>2. nHeight[x] = k - 1  BY <2>1 DEF ChainIsPath
  <2>3. x /= Genesis
    <3>1. SUFFICES ASSUME x = Genesis PROVE FALSE  OBVIOUS
    <3>2. k = 1  BY <2>2, <3>1 DEF IndexIsTree
    <3>3. AncestorsOrSelf[x] = {x}  BY <3>1, AncStep
    <3>4. QED BY <2>1, <3>2, <3>3
  <2>4. k > 1  BY <2>1, <2>3 DEF ChainIsPath
  <2>5. pprev[x] = chainActive[k - 1]  BY <2>1, <2>4 DEF ChainIsPath
  <2>6. AncestorsOrSelf[x] = {x} \cup AncestorsOrSelf[pprev[x]]
        /\ pprev[x] \in mapBlockIndex
    BY <2>3, AncStep
  <2>7. ~ P(pprev[x])
    <3>1. SUFFICES ASSUME P(pprev[x]) PROVE FALSE  OBVIOUS
    <3>2. k - 1 \in 1 .. Len(chainActive)  BY <2>4
    <3>3. AncestorsOrSelf[pprev[x]] = Pre(k - 1)  BY <2>5, <3>1, <3>2
    <3>4. Pre(k) = {x} \cup Pre(k - 1)  BY <2>1, <2>4
    <3>5. QED BY <2>1, <2>6, <3>3, <3>4
  <2>8. QED BY <2>3, <2>6, <2>7
<1>2. Bad = {}  BY <1>1, IndexInduction
<1>3. chainActive[i] \in mapBlockIndex  BY DEF TypeData
<1>4. QED BY <1>2, <1>3

=============================================================================

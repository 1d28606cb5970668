--------------------------- MODULE DifficultyProofs ---------------------------
(***************************************************************************)
(* Proofs about GetDifficultyINTERNAL: the two shift loops leave the       *)
(* mantissa ratio alone and add nShiftAmount - nShift to the exponent of   *)
(* 256, whichever of the two runs; hence the difficulty a header reports  *)
(* is powLimit's target divided by the header's, for every powLimit and   *)
(* every nBits.                                                            *)
(*                                                                         *)
(* The loops are recursive functions.  Each is handled in two steps: a    *)
(* closed form is shown to solve the loop's defining equation, so the      *)
(* CHOOSE of the definition solves it too; then a least counterexample    *)
(* on the number of iterations left shows that every solution is the      *)
(* closed form.                                                            *)
(***************************************************************************)
EXTENDS Difficulty, NaturalsInduction, WellFoundedInduction, TLAPS

(* nShiftAmount, powLimit's exponent byte.                                *)
ShiftAmount == ExponentByte(PowLimit)

-----------------------------------------------------------------------------
(* Every non-empty set of naturals has a least element.                    *)
LEMMA LeastNat ==
    ASSUME NEW T \in SUBSET Nat, T /= {}
    PROVE  \E m \in T : \A k \in T : m <= k
<1>1. \E x \in T : \A y \in T : ~ (<<y, x>> \in OpToRel(<, Nat))
  BY WFMin, NatLessThanWellFounded
<1>2. PICK x \in T : \A y \in T : ~ (<<y, x>> \in OpToRel(<, Nat))  BY <1>1
<1>3. ASSUME NEW y \in T PROVE x <= y
  <2>1. <<y, x>> \in Nat \X Nat  OBVIOUS
  <2>2. ~ (y < x)  BY <1>2, <2>1, Zenon DEF OpToRel
  <2>3. QED BY <2>2
<1>4. QED BY <1>3

(* The exponent byte and the mantissa of a uint32 held in a natural.       *)
LEMMA CompactParts ==
    ASSUME NEW c \in Nat
    PROVE  /\ ExponentByte(c) \in 0 .. 255
           /\ Mantissa(c) \in Nat
<1>1. 2^24 = 16777216  BY SMT
<1>. QED BY <1>1 DEF ExponentByte, Mantissa

LEMMA ShiftAmountType == ShiftAmount \in 0 .. 255 /\ Mantissa(PowLimit) \in Nat \ {0}
<1>1. PowLimit \in Nat /\ PowLimit % 2^24 /= 0  BY DifficultyAssumption
<1>2. 2^24 = 16777216  BY SMT
<1>3. Mantissa(PowLimit) \in Nat  BY <1>1, CompactParts
<1>. QED BY <1>1, <1>2, <1>3, CompactParts DEF ShiftAmount, Mantissa

-----------------------------------------------------------------------------
(* Pow256 solves its recursive equation.                                   *)
LEMMA PowDef ==
    \A k \in Nat : Pow256[k] = IF k = 0 THEN 1 ELSE 256 * Pow256[k - 1]
<1>1. NatInductiveDefHypothesis(Pow256, 1, LAMBDA v, n : 256 * v)
  BY DEF NatInductiveDefHypothesis, Pow256
<1>2. NatInductiveDefConclusion(Pow256, 1, LAMBDA v, n : 256 * v)
  BY <1>1, NatInductiveDef
<1>. QED BY <1>2 DEF NatInductiveDefConclusion

(* 256^k is a positive natural.                                            *)
LEMMA PowPos == \A k \in Nat : Pow256[k] \in Nat \ {0}
<1>. DEFINE Bad == {k \in Nat : Pow256[k] \notin Nat \ {0}}
<1>1. SUFFICES Bad = {}  OBVIOUS
<1>2. SUFFICES ASSUME Bad /= {} PROVE FALSE  OBVIOUS
<1>3. PICK m \in Bad : \A k \in Bad : m <= k  BY <1>2, LeastNat
<1>4. CASE m = 0  BY <1>3, <1>4, PowDef
<1>5. CASE m /= 0
  <2>1. m - 1 \in Nat /\ m - 1 \notin Bad  BY <1>3, <1>5
  <2>2. Pow256[m - 1] \in Nat \ {0}  BY <2>1
  <2>3. Pow256[m] = 256 * Pow256[m - 1]  BY <1>3, <1>5, PowDef
  <2>. QED BY <1>3, <2>2, <2>3
<1>. QED BY <1>4, <1>5

(* 256^(a + b) = 256^a * 256^b.                                           *)
LEMMA PowAdd ==
    ASSUME NEW a \in Nat, NEW b \in Nat
    PROVE  Pow256[a + b] = Pow256[a] * Pow256[b]
<1>. DEFINE Bad == {k \in Nat : Pow256[a + k] /= Pow256[a] * Pow256[k]}
<1>1. SUFFICES Bad = {}  OBVIOUS
<1>2. SUFFICES ASSUME Bad /= {} PROVE FALSE  OBVIOUS
<1>3. PICK m \in Bad : \A k \in Bad : m <= k  BY <1>2, LeastNat
<1>0. Pow256[a] \in Nat  BY PowPos
<1>4. CASE m = 0
  <2>1. Pow256[0] = 1  BY PowDef
  <2>. QED BY <1>0, <1>3, <1>4, <2>1
<1>5. CASE m /= 0
  <2>1. m - 1 \in Nat /\ m - 1 \notin Bad  BY <1>3, <1>5
  <2>2. Pow256[a + (m - 1)] = Pow256[a] * Pow256[m - 1]  BY <2>1
  <2>3. Pow256[m] = 256 * Pow256[m - 1]  BY <1>3, <1>5, PowDef
  <2>4. Pow256[a + m] = 256 * Pow256[a + m - 1]  BY <1>3, <1>5, PowDef
  <2>5. Pow256[m - 1] \in Nat  BY <2>1, PowPos
  <2>. QED BY <1>0, <1>3, <2>2, <2>3, <2>4, <2>5
<1>. QED BY <1>4, <1>5

-----------------------------------------------------------------------------
(* One iteration of each loop, on the loop state [d, nShift].              *)
MulStep(s) == [d |-> Times256(s.d), nShift |-> s.nShift + 1]

DivStep(s) == [d |-> Div256(s.d), nShift |-> s.nShift - 1]

(* The state a value with exponent scale + k leaves, at counter n.         *)
Shifted(s, k, n) ==
    [d |-> [num |-> s.d.num, den |-> s.d.den, scale |-> s.d.scale + k], nShift |-> n]

LEMMA StepType ==
    ASSUME NEW s \in LoopState
    PROVE  /\ MulStep(s) = Shifted(s, 1, s.nShift + 1)
           /\ DivStep(s) = Shifted(s, -1, s.nShift - 1)
           /\ MulStep(s) \in LoopState /\ DivStep(s) \in LoopState
           /\ s = Shifted(s, 0, s.nShift)
BY DEF MulStep, DivStep, Shifted, Times256, Div256, LoopState, DiffValue

LEMMA ShiftedType ==
    ASSUME NEW s \in LoopState, NEW k \in Int, NEW n \in Int
    PROVE  /\ Shifted(s, k, n) \in LoopState
           /\ Shifted(s, k, n).d.num = s.d.num /\ Shifted(s, k, n).d.den = s.d.den
           /\ Shifted(s, k, n).d.scale = s.d.scale + k
           /\ Shifted(s, k, n).nShift = n
BY DEF Shifted, LoopState, DiffValue

(* What the first loop returns: one multiplication by 256 per step until  *)
(* nShift reaches nShiftAmount; nothing when nShift is there or above.     *)
MulClosed(s) ==
    IF s.nShift < ShiftAmount
    THEN Shifted(s, ShiftAmount - s.nShift, ShiftAmount)
    ELSE s

(* One step of the first loop keeps the closed form's result.             *)
LEMMA MulClosedStep ==
    ASSUME NEW s \in LoopState, s.nShift < ShiftAmount
    PROVE  /\ MulStep(s) \in LoopState
           /\ MulClosed(MulStep(s)) = MulClosed(s)
<1>0. ShiftAmount \in Int /\ s.nShift \in Int /\ s.d.scale \in Int
  BY ShiftAmountType DEF LoopState, DiffValue
<1>1. MulStep(s) = Shifted(s, 1, s.nShift + 1) /\ MulStep(s) \in LoopState  BY StepType
<1>2. /\ MulStep(s).d.num = s.d.num /\ MulStep(s).d.den = s.d.den
      /\ MulStep(s).d.scale = s.d.scale + 1 /\ MulStep(s).nShift = s.nShift + 1
  BY <1>1 DEF Shifted
<1>3. MulClosed(s) = Shifted(s, ShiftAmount - s.nShift, ShiftAmount)  BY DEF MulClosed
<1>4. CASE s.nShift + 1 < ShiftAmount
  <2>1. MulClosed(MulStep(s)) = Shifted(MulStep(s), ShiftAmount - (s.nShift + 1), ShiftAmount)
    BY <1>2, <1>4 DEF MulClosed
  <2>. QED BY <1>0, <1>1, <1>2, <1>3, <2>1 DEF Shifted
<1>5. CASE ~ (s.nShift + 1 < ShiftAmount)
  <2>1. MulClosed(MulStep(s)) = MulStep(s)  BY <1>2, <1>5 DEF MulClosed
  <2>2. ShiftAmount - s.nShift = 1 /\ s.nShift + 1 = ShiftAmount  BY <1>0, <1>5
  <2>. QED BY <1>1, <1>3, <2>1, <2>2
<1>. QED BY <1>1, <1>4, <1>5

MulEquation(f) ==
    f = [s \in LoopState |-> IF s.nShift < ShiftAmount THEN f[MulStep(s)] ELSE s]

(* The closed form solves the loop's equation, so MulLoop does.            *)
LEMMA MulLoopEquation == MulEquation(MulLoop)
<1>. DEFINE W == [s \in LoopState |-> MulClosed(s)]
<1>1. MulEquation(W)
  <2>1. ASSUME NEW s \in LoopState
        PROVE  W[s] = IF s.nShift < ShiftAmount THEN W[MulStep(s)] ELSE s
    <3>1. CASE s.nShift < ShiftAmount
      <4>1. MulStep(s) \in LoopState /\ MulClosed(MulStep(s)) = MulClosed(s)
        BY <3>1, MulClosedStep
      <4>. QED BY <3>1, <4>1
    <3>2. CASE ~ (s.nShift < ShiftAmount)  BY <3>2 DEF MulClosed
    <3>. QED BY <3>1, <3>2
  <2>. QED BY <2>1 DEF MulEquation
<1>. QED BY <1>1, Zenon DEF MulEquation, MulLoop, MulStep, ShiftAmount

(* Every solution of the equation is the closed form: a least             *)
(* counterexample, counted in iterations left, has a successor state that *)
(* is no counterexample.                                                   *)
LEMMA MulLoopClosed ==
    ASSUME NEW s \in LoopState
    PROVE  MulLoop[s] = MulClosed(s)
<1>0. ShiftAmount \in Int  BY ShiftAmountType
<1>e. MulEquation(MulLoop)  BY MulLoopEquation
<1>. DEFINE Bad == {k \in Nat : \E x \in LoopState :
                        ShiftAmount - x.nShift = k /\ MulLoop[x] /= MulClosed(x)}
<1>1. ASSUME NEW x \in LoopState, ~ (x.nShift < ShiftAmount)
      PROVE  MulLoop[x] = MulClosed(x)
  BY <1>1, <1>e DEF MulEquation, MulClosed
<1>2. SUFFICES Bad = {}  BY <1>0, <1>1 DEF LoopState
<1>3. SUFFICES ASSUME Bad /= {} PROVE FALSE  OBVIOUS
<1>4. PICK k \in Bad : \A j \in Bad : k <= j  BY <1>3, LeastNat
<1>5. PICK x \in LoopState : ShiftAmount - x.nShift = k /\ MulLoop[x] /= MulClosed(x)
  BY <1>4
<1>6. x.nShift \in Int /\ x.nShift < ShiftAmount  BY <1>1, <1>5 DEF LoopState
<1>7. MulLoop[x] = MulLoop[MulStep(x)]  BY <1>6, <1>e DEF MulEquation
<1>8. MulStep(x) = Shifted(x, 1, x.nShift + 1) /\ MulStep(x) \in LoopState
  BY StepType
<1>9. MulStep(x).nShift = x.nShift + 1  BY <1>6, <1>8, ShiftedType
<1>10. MulLoop[MulStep(x)] = MulClosed(MulStep(x))
  <2>1. CASE ~ (x.nShift + 1 < ShiftAmount)  BY <1>1, <1>8, <1>9, <2>1
  <2>2. CASE x.nShift + 1 < ShiftAmount
    <3>1. k - 1 \in Nat /\ ShiftAmount - MulStep(x).nShift = k - 1  BY <1>0, <1>5, <1>6, <1>9
    <3>2. k - 1 \notin Bad  BY <1>4, <3>1
    <3>. QED BY <1>8, <3>1, <3>2
  <2>. QED BY <2>1, <2>2
<1>11. MulClosed(MulStep(x)) = MulClosed(x)  BY <1>6, MulClosedStep
<1>. QED BY <1>5, <1>7, <1>10, <1>11


(* What the second loop returns: one division by 256 per step until      *)
(* nShift comes down to nShiftAmount; nothing when nShift is there or     *)
(* below.                                                                  *)
DivClosed(s) ==
    IF s.nShift > ShiftAmount
    THEN Shifted(s, ShiftAmount - s.nShift, ShiftAmount)
    ELSE s

(* One step of the second loop keeps the closed form's result.            *)
LEMMA DivClosedStep ==
    ASSUME NEW s \in LoopState, s.nShift > ShiftAmount
    PROVE  /\ DivStep(s) \in LoopState
           /\ DivClosed(DivStep(s)) = DivClosed(s)
<1>0. ShiftAmount \in Int /\ s.nShift \in Int /\ s.d.scale \in Int
  BY ShiftAmountType DEF LoopState, DiffValue
<1>1. DivStep(s) = Shifted(s, -1, s.nShift - 1) /\ DivStep(s) \in LoopState  BY StepType
<1>2. /\ DivStep(s).d.num = s.d.num /\ DivStep(s).d.den = s.d.den
      /\ DivStep(s).d.scale = s.d.scale + -1 /\ DivStep(s).nShift = s.nShift - 1
  BY <1>1 DEF Shifted
<1>3. DivClosed(s) = Shifted(s, ShiftAmount - s.nShift, ShiftAmount)  BY DEF DivClosed
<1>4. CASE s.nShift - 1 > ShiftAmount
  <2>1. DivClosed(DivStep(s)) = Shifted(DivStep(s), ShiftAmount - (s.nShift - 1), ShiftAmount)
    BY <1>2, <1>4 DEF DivClosed
  <2>. QED BY <1>0, <1>1, <1>2, <1>3, <2>1 DEF Shifted
<1>5. CASE ~ (s.nShift - 1 > ShiftAmount)
  <2>1. DivClosed(DivStep(s)) = DivStep(s)  BY <1>2, <1>5 DEF DivClosed
  <2>2. ShiftAmount - s.nShift = -1 /\ s.nShift - 1 = ShiftAmount  BY <1>0, <1>5
  <2>. QED BY <1>1, <1>3, <2>1, <2>2
<1>. QED BY <1>1, <1>4, <1>5

DivEquation(f) ==
    f = [s \in LoopState |-> IF s.nShift > ShiftAmount THEN f[DivStep(s)] ELSE s]

(* The closed form solves the second loop's equation, so DivLoop does.    *)
LEMMA DivLoopEquation == DivEquation(DivLoop)
<1>. DEFINE W == [s \in LoopState |-> DivClosed(s)]
<1>1. DivEquation(W)
  <2>1. ASSUME NEW s \in LoopState
        PROVE  W[s] = IF s.nShift > ShiftAmount THEN W[DivStep(s)] ELSE s
    <3>1. CASE s.nShift > ShiftAmount
      <4>1. DivStep(s) \in LoopState /\ DivClosed(DivStep(s)) = DivClosed(s)
        BY <3>1, DivClosedStep
      <4>. QED BY <3>1, <4>1
    <3>2. CASE ~ (s.nShift > ShiftAmount)  BY <3>2 DEF DivClosed
    <3>. QED BY <3>1, <3>2
  <2>. QED BY <2>1 DEF DivEquation
<1>. QED BY <1>1, Zenon DEF DivEquation, DivLoop, DivStep, ShiftAmount

(* Every solution of the second loop's equation is the closed form.       *)
LEMMA DivLoopClosed ==
    ASSUME NEW s \in LoopState
    PROVE  DivLoop[s] = DivClosed(s)
<1>0. ShiftAmount \in Int  BY ShiftAmountType
<1>e. DivEquation(DivLoop)  BY DivLoopEquation
<1>. DEFINE Bad == {k \in Nat : \E x \in LoopState :
                        x.nShift - ShiftAmount = k /\ DivLoop[x] /= DivClosed(x)}
<1>1. ASSUME NEW x \in LoopState, ~ (x.nShift > ShiftAmount)
      PROVE  DivLoop[x] = DivClosed(x)
  BY <1>1, <1>e DEF DivEquation, DivClosed
<1>2. SUFFICES Bad = {}  BY <1>0, <1>1 DEF LoopState
<1>3. SUFFICES ASSUME Bad /= {} PROVE FALSE  OBVIOUS
<1>4. PICK k \in Bad : \A j \in Bad : k <= j  BY <1>3, LeastNat
<1>5. PICK x \in LoopState : x.nShift - ShiftAmount = k /\ DivLoop[x] /= DivClosed(x)
  BY <1>4
<1>6. x.nShift \in Int /\ x.nShift > ShiftAmount  BY <1>1, <1>5 DEF LoopState
<1>7. DivLoop[x] = DivLoop[DivStep(x)]  BY <1>6, <1>e DEF DivEquation
<1>8. DivStep(x) \in LoopState /\ DivStep(x).nShift = x.nShift - 1
  <2>1. DivStep(x) = Shifted(x, -1, x.nShift - 1) /\ DivStep(x) \in LoopState
    BY <1>5, StepType
  <2>. QED BY <2>1 DEF Shifted
<1>10. DivLoop[DivStep(x)] = DivClosed(DivStep(x))
  <2>1. CASE ~ (x.nShift - 1 > ShiftAmount)  BY <1>1, <1>8, <2>1
  <2>2. CASE x.nShift - 1 > ShiftAmount
    <3>1. k - 1 \in Nat /\ DivStep(x).nShift - ShiftAmount = k - 1  BY <1>0, <1>5, <1>6, <1>8
    <3>2. k - 1 \notin Bad  BY <1>4, <3>1
    <3>. QED BY <1>8, <3>1, <3>2
  <2>. QED BY <2>1, <2>2
<1>11. DivClosed(DivStep(x)) = DivClosed(x)  BY <1>6, DivClosedStep
<1>. QED BY <1>5, <1>7, <1>10, <1>11

-----------------------------------------------------------------------------
(* Whichever loop runs, GetDifficultyINTERNAL returns powLimit's mantissa *)
(* over the header's, times 256^(nShiftAmount - nShift).                   *)
LEMMA DifficultyClosed ==
    ASSUME NEW c \in Nat
    PROVE  GetDifficultyINTERNAL(c) =
               [num |-> Mantissa(PowLimit), den |-> Mantissa(c),
                scale |-> ShiftAmount - ExponentByte(c)]
<1>. DEFINE start == [d |-> [num |-> Mantissa(PowLimit), den |-> Mantissa(c), scale |-> 0],
                      nShift |-> ExponentByte(c)]
<1>0. /\ ShiftAmount \in 0 .. 255 /\ ExponentByte(c) \in 0 .. 255
      /\ Mantissa(PowLimit) \in Nat /\ Mantissa(c) \in Nat
  BY ShiftAmountType, CompactParts
<1>1. start \in LoopState  BY <1>0 DEF LoopState, DiffValue
<1>2. GetDifficultyINTERNAL(c) = DivLoop[MulLoop[start]].d
  BY DEF GetDifficultyINTERNAL
<1>3. MulLoop[start] = MulClosed(start)  BY <1>1, MulLoopClosed
<1>4. CASE ExponentByte(c) < ShiftAmount
  <2>1. MulClosed(start) = Shifted(start, ShiftAmount - ExponentByte(c), ShiftAmount)
    BY <1>4 DEF MulClosed
  <2>2. Shifted(start, ShiftAmount - ExponentByte(c), ShiftAmount) \in LoopState
    BY <1>0, <1>1, ShiftedType
  <2>3. DivLoop[MulLoop[start]] = MulLoop[start]
    <3>. DEFINE u == Shifted(start, ShiftAmount - ExponentByte(c), ShiftAmount)
    <3>1. MulLoop[start] = u  BY <1>3, <2>1
    <3>2. u.nShift = ShiftAmount  BY DEF Shifted
    <3>3. DivLoop[u] = DivClosed(u)  BY <2>2, DivLoopClosed
    <3>4. DivClosed(u) = u  BY <1>0, <3>2 DEF DivClosed
    <3>. QED BY <3>1, <3>3, <3>4
  <2>. QED BY <1>0, <1>2, <1>3, <2>1, <2>3 DEF Shifted
<1>5. CASE ~ (ExponentByte(c) < ShiftAmount)
  <2>1. MulLoop[start] = start  BY <1>3, <1>5 DEF MulClosed
  <2>2. DivLoop[start] = DivClosed(start)  BY <1>1, DivLoopClosed
  <2>3. CASE ExponentByte(c) > ShiftAmount
    <3>1. DivClosed(start) = Shifted(start, ShiftAmount - ExponentByte(c), ShiftAmount)
      BY <2>3 DEF DivClosed
    <3>. QED BY <1>0, <1>2, <2>1, <2>2, <3>1 DEF Shifted
  <2>4. CASE ~ (ExponentByte(c) > ShiftAmount)
    <3>1. DivClosed(start) = start  BY <2>4 DEF DivClosed
    <3>2. ShiftAmount - ExponentByte(c) = 0  BY <1>0, <1>5, <2>4
    <3>. QED BY <1>2, <2>1, <2>2, <3>1, <3>2
  <2>. QED BY <2>3, <2>4
<1>. QED BY <1>4, <1>5


-----------------------------------------------------------------------------
(* The inductive invariant: the value last returned is GetDifficultyINTERNAL *)
(* of the nBits last asked about, a uint32 read as a natural.              *)
DiffInv == bits \in Nat /\ dDiff = GetDifficultyINTERNAL(bits)

(* The target ratio, for the value GetDifficultyINTERNAL returns for c.   *)
LEMMA RatioOf ==
    ASSUME NEW c \in Nat
    PROVE  LET q == AsFraction(GetDifficultyINTERNAL(c))
               t == CompactValue(c)
               p == CompactValue(PowLimit)
           IN  /\ (Mantissa(c) = 0) <=> (q.d = 0)
               /\ q.d /= 0 => q.n * t.n * p.d = p.n * q.d * t.d
               /\ c = PowLimit => q.n = q.d
<1>. DEFINE mP == Mantissa(PowLimit)
            mc == Mantissa(c)
            eP == ShiftAmount
            ec == ExponentByte(c)
            X  == Pow256
            q  == AsFraction(GetDifficultyINTERNAL(c))
            t  == CompactValue(c)
            p  == CompactValue(PowLimit)
<1>0. /\ eP \in 0 .. 255 /\ ec \in 0 .. 255
      /\ mP \in Nat \ {0} /\ mc \in Nat
  BY ShiftAmountType, CompactParts
<1>x. \A k \in Nat : X[k] \in Nat \ {0}  BY PowPos
<1>g. GetDifficultyINTERNAL(c) = [num |-> mP, den |-> mc, scale |-> eP - ec]
  BY DifficultyClosed
<1>q. /\ eP - ec >= 0 => q = [n |-> mP * X[eP - ec], d |-> mc]
      /\ eP - ec < 0 => q = [n |-> mP, d |-> mc * X[ec - eP]]
  BY <1>0, <1>g DEF AsFraction
<1>t. /\ ec >= 3 => t = [n |-> mc * X[ec - 3], d |-> 1]
      /\ ec < 3 => t = [n |-> mc, d |-> X[3 - ec]]
  BY <1>0 DEF CompactValue
<1>p. /\ eP >= 3 => p = [n |-> mP * X[eP - 3], d |-> 1]
      /\ eP < 3 => p = [n |-> mP, d |-> X[3 - eP]]
  BY <1>0 DEF CompactValue, ShiftAmount
<1>1. (mc = 0) <=> (q.d = 0)
  <2>1. CASE eP - ec >= 0  BY <1>q, <2>1
  <2>2. CASE eP - ec < 0
    <3>1. X[ec - eP] \in Nat \ {0}  BY <1>0, <1>x, <2>2
    <3>. QED BY <1>0, <1>q, <2>2, <3>1
  <2>. QED BY <1>0, <2>1, <2>2
<1>2. q.n * t.n * p.d = p.n * q.d * t.d
  <2>1. CASE eP >= ec /\ ec >= 3
    <3>0. (eP - ec) + (ec - 3) = eP - 3 /\ eP - ec \in Nat /\ ec - 3 \in Nat  BY <1>0, <2>1
    <3>1. X[eP - 3] = X[eP - ec] * X[ec - 3]
      <4>1. Pow256[(eP - ec) + (ec - 3)] = Pow256[eP - ec] * Pow256[ec - 3]  BY <3>0, PowAdd
      <4>. QED BY <3>0, <4>1
    <3>2. X[eP - ec] \in Nat /\ X[ec - 3] \in Nat  BY <1>0, <1>x, <2>1
    <3>. QED BY <1>0, <1>q, <1>t, <1>p, <2>1, <3>1, <3>2
  <2>2. CASE eP >= ec /\ ec < 3 /\ eP >= 3
    <3>0. (eP - 3) + (3 - ec) = eP - ec /\ eP - 3 \in Nat /\ 3 - ec \in Nat  BY <1>0, <2>2
    <3>1. X[eP - ec] = X[eP - 3] * X[3 - ec]
      <4>1. Pow256[(eP - 3) + (3 - ec)] = Pow256[eP - 3] * Pow256[3 - ec]  BY <3>0, PowAdd
      <4>. QED BY <3>0, <4>1
    <3>2. X[eP - 3] \in Nat /\ X[3 - ec] \in Nat  BY <1>0, <1>x, <2>2
    <3>. QED BY <1>0, <1>q, <1>t, <1>p, <2>2, <3>1, <3>2
  <2>3. CASE eP >= ec /\ eP < 3
    <3>0. (eP - ec) + (3 - eP) = 3 - ec /\ eP - ec \in Nat /\ 3 - eP \in Nat  BY <1>0, <2>3
    <3>1. X[3 - ec] = X[eP - ec] * X[3 - eP]
      <4>1. Pow256[(eP - ec) + (3 - eP)] = Pow256[eP - ec] * Pow256[3 - eP]  BY <3>0, PowAdd
      <4>. QED BY <3>0, <4>1
    <3>2. X[eP - ec] \in Nat /\ X[3 - eP] \in Nat  BY <1>0, <1>x, <2>3
    <3>. QED BY <1>0, <1>q, <1>t, <1>p, <2>3, <3>1, <3>2
  <2>4. CASE eP < ec /\ eP >= 3
    <3>0. (eP - 3) + (ec - eP) = ec - 3 /\ eP - 3 \in Nat /\ ec - eP \in Nat  BY <1>0, <2>4
    <3>1. X[ec - 3] = X[eP - 3] * X[ec - eP]
      <4>1. Pow256[(eP - 3) + (ec - eP)] = Pow256[eP - 3] * Pow256[ec - eP]  BY <3>0, PowAdd
      <4>. QED BY <3>0, <4>1
    <3>2. X[eP - 3] \in Nat /\ X[ec - eP] \in Nat  BY <1>0, <1>x, <2>4
    <3>. QED BY <1>0, <1>q, <1>t, <1>p, <2>4, <3>1, <3>2
  <2>5. CASE eP < ec /\ eP < 3 /\ ec >= 3
    <3>0. (ec - 3) + (3 - eP) = ec - eP /\ ec - 3 \in Nat /\ 3 - eP \in Nat  BY <1>0, <2>5
    <3>1. X[ec - eP] = X[ec - 3] * X[3 - eP]
      <4>1. Pow256[(ec - 3) + (3 - eP)] = Pow256[ec - 3] * Pow256[3 - eP]  BY <3>0, PowAdd
      <4>. QED BY <3>0, <4>1
    <3>2. X[ec - 3] \in Nat /\ X[3 - eP] \in Nat  BY <1>0, <1>x, <2>5
    <3>. QED BY <1>0, <1>q, <1>t, <1>p, <2>5, <3>1, <3>2
  <2>6. CASE eP < ec /\ ec < 3
    <3>0. (ec - eP) + (3 - ec) = 3 - eP /\ ec - eP \in Nat /\ 3 - ec \in Nat  BY <1>0, <2>6
    <3>1. X[3 - eP] = X[ec - eP] * X[3 - ec]
      <4>1. Pow256[(ec - eP) + (3 - ec)] = Pow256[ec - eP] * Pow256[3 - ec]  BY <3>0, PowAdd
      <4>. QED BY <3>0, <4>1
    <3>2. X[ec - eP] \in Nat /\ X[3 - ec] \in Nat  BY <1>0, <1>x, <2>6
    <3>. QED BY <1>0, <1>q, <1>t, <1>p, <2>6, <3>1, <3>2
  <2>. QED BY <1>0, <2>1, <2>2, <2>3, <2>4, <2>5, <2>6
<1>3. c = PowLimit => q.n = q.d
  <2>1. SUFFICES ASSUME c = PowLimit PROVE q.n = q.d  OBVIOUS
  <2>2. ec = eP  BY <2>1 DEF ShiftAmount
  <2>3. X[0] = 1  BY PowDef
  <2>. QED BY <1>0, <1>q, <2>1, <2>2, <2>3
<1>. QED BY <1>1, <1>2, <1>3


LEMMA InitDiffInv == Init => DiffInv
<1>1. PowLimit \in Nat  BY DifficultyAssumption
<1>. QED BY <1>1 DEF Init, DiffInv

LEMMA NextDiffInv == DiffInv /\ [Next]_vars => DiffInv'
<1>. SUFFICES ASSUME DiffInv, [Next]_vars PROVE DiffInv'  OBVIOUS
<1>0. BitsDomain \subseteq Nat  BY DifficultyAssumption
<1>1. ASSUME NEW nb \in BitsDomain, GetDifficulty(nb) PROVE DiffInv'
  BY <1>0, <1>1 DEF GetDifficulty, DiffInv
<1>2. ASSUME NEW nb \in BitsDomain, GetNetworkDifficulty(nb) PROVE DiffInv'
  BY <1>0, <1>2 DEF GetNetworkDifficulty, DiffInv
<1>3. CASE UNCHANGED vars  BY <1>3 DEF vars, DiffInv
<1>. QED BY <1>1, <1>2, <1>3 DEF Next, getdifficulty

LEMMA DiffInvRatio == DiffInv => DifficultyIsTargetRatio
<1>. SUFFICES ASSUME DiffInv PROVE DifficultyIsTargetRatio  OBVIOUS
<1>1. bits \in Nat /\ dDiff = GetDifficultyINTERNAL(bits)  BY DEF DiffInv
<1>. QED BY <1>1, RatioOf DEF DifficultyIsTargetRatio

(* For every powLimit with a non-zero mantissa and every set of nBits a   *)
(* header or GetNextWorkRequired may carry, the difficulty that           *)
(* GetDifficulty and getdifficulty return is powLimit's target over the   *)
(* header's target, +inf for a zero mantissa, and 1.0 at powLimit.        *)
THEOREM DifficultyIsTargetRatioInvariant == Spec => []DifficultyIsTargetRatio
<1>1. Init => DiffInv  BY InitDiffInv
<1>2. DiffInv /\ [Next]_vars => DiffInv'  BY NextDiffInv
<1>3. DiffInv => DifficultyIsTargetRatio  BY DiffInvRatio
<1>. QED BY <1>1, <1>2, <1>3, PTL DEF Spec

=============================================================================

------------------------------ MODULE Difficulty ------------------------------
(***************************************************************************)
(* GetDifficultyINTERNAL (rpcblockchain.cpp): the "difficulty" field of    *)
(* getblockheader and getblock, a header's compact target nBits turned    *)
(* into a multiple of the minimum difficulty (powLimit's compact form).   *)
(*                                                                         *)
(* nBits is a uint32: exponent byte (bits >> 24) & 0xff, mantissa         *)
(* bits & 0x00ffffff, taken apart here with \div and %.  The double dDiff *)
(* is kept exact as num / den * 256^scale: multiplying or dividing by     *)
(* 256.0 is exact in binary floating point (until the exponent range is   *)
(* left), so the one rounding of the double is the first division, which  *)
(* the model does not round.  den = 0 is the division by a zero mantissa, *)
(* which gives +inf (num > 0), and stays +inf through the loops.          *)
(*                                                                         *)
(* A state is the last header whose difficulty was asked for and the      *)
(* value returned.                                                         *)
(***************************************************************************)
EXTENDS Integers

CONSTANTS
    PowLimit,    \* UintToArith256(consensus.powLimit).GetCompact()
    BitsDomain   \* the nBits values the headers asked about may carry

ASSUME DifficultyAssumption ==
    /\ PowLimit \in Nat /\ PowLimit % 2^24 /= 0
    /\ BitsDomain \subseteq Nat   \* uint32 values below 2^31, TLC's range

VARIABLES
    bits,   \* nBits of the header last passed to GetDifficulty
    dDiff   \* the value it returned

vars == <<bits, dDiff>>

ExponentByte(c) == (c \div 2^24) % 256

Mantissa(c) == c % 2^24

Times256(d) == [d EXCEPT !.scale = @ + 1]

Div256(d) == [d EXCEPT !.scale = @ - 1]

(* The values dDiff takes: a ratio of two 24-bit mantissas times 256^scale, *)
(* and the state of the two loops: dDiff and the counter nShift.          *)
DiffValue == [num : Nat, den : Nat, scale : Int]

LoopState == [d : DiffValue, nShift : Int]

(* while (nShift < nShiftAmount) { dDiff *= 256.0; nShift++; }           *)
MulLoop[s \in LoopState] ==
    IF s.nShift < ExponentByte(PowLimit)
    THEN MulLoop[[d |-> Times256(s.d), nShift |-> s.nShift + 1]]
    ELSE s

(* while (nShift > nShiftAmount) { dDiff /= 256.0; nShift--; }           *)
DivLoop[s \in LoopState] ==
    IF s.nShift > ExponentByte(PowLimit)
    THEN DivLoop[[d |-> Div256(s.d), nShift |-> s.nShift - 1]]
    ELSE s

(* Mutant: the second loop runs while nShift >= nShiftAmount.  (The same  *)
(* slip in the first loop is undone by the second.)                        *)
DivLoop_OffByOne[s \in LoopState] ==
    IF s.nShift >= ExponentByte(PowLimit)
    THEN DivLoop_OffByOne[[d |-> Div256(s.d), nShift |-> s.nShift - 1]]
    ELSE s

GetDifficultyINTERNAL_OffByOne(nBits) ==
    LET start == [d |-> [num |-> Mantissa(PowLimit), den |-> Mantissa(nBits), scale |-> 0],
                  nShift |-> ExponentByte(nBits)]
    IN  DivLoop_OffByOne[MulLoop[start]].d

(* GetDifficultyINTERNAL for a header (blockindex /= NULL) whose target   *)
(* is nBits: the ratio of the mantissas, then the exponent bytes are      *)
(* brought together one byte at a time.                                   *)
GetDifficultyINTERNAL(nBits) ==
    LET start == [d |-> [num |-> Mantissa(PowLimit), den |-> Mantissa(nBits), scale |-> 0],
                  nShift |-> ExponentByte(nBits)]
    IN  DivLoop[MulLoop[start]].d

Init ==
    /\ bits = PowLimit
    /\ dDiff = GetDifficultyINTERNAL(PowLimit)

(* GetDifficulty(blockindex), called for the header a request names.      *)
GetDifficulty(nBits) ==
    /\ bits' = nBits
    /\ dDiff' = GetDifficultyINTERNAL(nBits)

(* GetNetworkDifficulty(NULL): blockindex becomes chainActive.Tip(), never *)
(* NULL once RPC is served, and nBits is what GetNextWorkRequired (pow.cpp, *)
(* outside this file) requires of the block after it, one of BitsDomain;  *)
(* the same conversion follows.                                            *)
GetNetworkDifficulty(nextBits) ==
    /\ bits' = nextBits
    /\ dDiff' = GetDifficultyINTERNAL(nextBits)

(* RPC getdifficulty: GetNetworkDifficulty() under LOCK(cs_main).          *)
getdifficulty == \E nb \in BitsDomain : GetNetworkDifficulty(nb)

Next ==
    \/ \E b \in BitsDomain : GetDifficulty(b)
    \/ getdifficulty

Spec == Init /\ [][Next]_vars

-----------------------------------------------------------------------------
(* Reference: 256^k, the number a compact value stands for, mantissa *   *)
(* 256^(exponent - 3), as a fraction [n, d] (before SetCompact's         *)
(* truncation of exponents below 3), and a value num / den * 256^scale    *)
(* as a fraction.                                                          *)
Pow256[k \in Nat] == IF k = 0 THEN 1 ELSE 256 * Pow256[k - 1]

CompactValue(c) ==
    IF ExponentByte(c) >= 3
    THEN [n |-> Mantissa(c) * Pow256[ExponentByte(c) - 3], d |-> 1]
    ELSE [n |-> Mantissa(c), d |-> Pow256[3 - ExponentByte(c)]]

AsFraction(v) ==
    IF v.scale >= 0
    THEN [n |-> v.num * Pow256[v.scale], d |-> v.den]
    ELSE [n |-> v.num, d |-> v.den * Pow256[- v.scale]]

(* The difficulty of a header is the minimum-difficulty target divided by *)
(* the header's target, both read as compact numbers: dDiff * target(bits) *)
(* = target(powLimit); a zero mantissa gives +inf (den = 0), and nBits =  *)
(* powLimit gives exactly 1.0.                                             *)
DifficultyIsTargetRatio ==
    LET q == AsFraction(dDiff)
        t == CompactValue(bits)
        p == CompactValue(PowLimit)
    IN  /\ (Mantissa(bits) = 0) <=> (q.d = 0)
        /\ q.d /= 0 => q.n * t.n * p.d = p.n * q.d * t.d
        /\ bits = PowLimit => q.n = q.d

=============================================================================

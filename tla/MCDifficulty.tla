---------------------------- MODULE MCDifficulty ----------------------------
(* Model-checking instance: a minimum-difficulty target with exponent 3   *)
(* and mantissa 0x7f, and headers with exponent bytes 2 to 5 (below, at   *)
(* and above powLimit's, so that each loop runs zero, one and two times)  *)
(* and mantissas 0 to 31 (zero divides by zero).  The products the        *)
(* property forms stay below 2^31.                                        *)
EXTENDS Difficulty

MCPowLimit == 3 * 2^24 + 127
MCBitsDomain == {e * 2^24 + m : e \in 2 .. 5, m \in 0 .. 31}
=============================================================================

-------------------------- MODULE MCPdp8Arithmetic --------------------------
(* The arithmetic with the bitwise operators of numbers.                       *)
EXTENDS Pdp8Arithmetic, Bitwise

NumberAnd(a, b) == a & b
NumberOr(a, b) == a | b
=============================================================================

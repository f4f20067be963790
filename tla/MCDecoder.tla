------------------------------ MODULE MCDecoder -----------------------------
(* Groups of two bits: an int of five bits takes three bytes, a long of     *)
(* nine takes five, and both end inside their last group.                   *)
EXTENDS Decoder, Bitwise

(* Powers and the or of two words are what they are elsewhere. *)
ASSUME OperatorsAssumption ==
  /\ \A n \in 0 .. LongBits : Pow2[n] = 2^n
  /\ \A x, y \in 0 .. 2^IntBits - 1 : BitOr(x, y) = (x | y)
=============================================================================

-------------------------------- MODULE Bf16 --------------------------------
(* The BF16 word of runnel-kernels/src/bf16.rs.  A word is taken without    *)
(* its sign, which every operation carries along as the top bit: 31 bits of *)
(* an f32, 15 of a BF16.  These magnitudes are in the order of their        *)
(* values, and the f32 between two neighbouring BF16 words are equally      *)
(* spaced, so the nearest word is the one with the nearest magnitude; the   *)
(* word after the largest finite one is infinity.  A result above 15 bits   *)
(* would have carried into the sign.                                        *)
EXTENDS Integers

-----------------------------------------------------------------------------
Infinity == 32640               \* 0x7f80
InfinityF32 == 2139095040       \* 0x7f800000
IsWord(w) == w \in Nat /\ w <= 32767

(* classify and is_finite                                                   *)
Class(w) ==
  LET exponent == w \div 128
      fraction == w % 128
  IN  IF exponent = 0 THEN IF fraction = 0 THEN "zero" ELSE "subnormal"
      ELSE IF exponent = 255 THEN IF fraction = 0 THEN "infinity" ELSE "nan"
      ELSE "normal"
IsFinite(w) == Class(w) \notin {"infinity", "nan"}

(* to_f32: the bits in the high half.                                       *)
ToF32(w) == w * 65536

(* from_f32_rne: a NaN keeps its upper bits and stays a NaN; anything else  *)
(* is rounded by the carry of an addition.                                  *)
NanWord(bits) == IF (bits \div 65536) % 128 = 0 THEN (bits \div 65536) + 1 ELSE bits \div 65536
FromF32Rne(bits) ==
  IF bits > InfinityF32 THEN NanWord(bits)
  ELSE (bits + 32767 + ((bits \div 65536) % 2)) \div 65536

(* try_from_f32_rne                                                         *)
TryFromF32Rne(bits) ==
  IF bits >= InfinityF32 THEN [error |-> "non-finite input"]
  ELSE IF ~IsFinite(FromF32Rne(bits)) THEN [error |-> "rounded to infinity"]
  ELSE [error |-> "none", word |-> FromF32Rne(bits)]

-----------------------------------------------------------------------------
(* w is the word nearest to these bits, the even one of two.                *)
Nearest(bits, w) ==
  /\ IsWord(w)
  /\ 2 * (ToF32(w) - bits) <= 65536 /\ 2 * (bits - ToF32(w)) <= 65536
  /\ 2 * (ToF32(w) - bits) = 65536 \/ 2 * (bits - ToF32(w)) = 65536 => w % 2 = 0

(* from_f32_rne rounds to nearest, ties to even, through every binade, from *)
(* subnormal numbers up to infinity.                                        *)
RoundsToNearestEven(bits) == bits <= InfinityF32 => Nearest(bits, FromF32Rne(bits))

(* A NaN stays a NaN whatever part of its payload is cut off.               *)
NanSurvives(bits) == bits > InfinityF32 => Class(FromF32Rne(bits)) = "nan"

(* try_from_f32_rne refuses exactly what is half a step past the largest    *)
(* finite word, or further.                                                 *)
HalfStepPastLargest == 2139062272       \* 0x7f7f8000
OverflowExact(bits) == TryFromF32Rne(bits).error = "none" <=> bits < HalfStepPastLargest
=============================================================================

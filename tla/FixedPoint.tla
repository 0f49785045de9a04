----------------------------- MODULE FixedPoint -----------------------------
(***************************************************************************)
(* The fixed-point arithmetic of the G.729 codec:                          *)
(* bcg729/src/fixedPointMacros.h, g729FixedPointMath.h and the bit         *)
(* counting of utils.h.  A C shift to the right is a division that rounds  *)
(* down, a C division rounds towards zero.                                 *)
(***************************************************************************)
EXTENDS Integers

(* Shifts: SHR, PSHR (with rounding), VSHR32 (either direction). *)
Shr(a, n) == a \div 2^n
PShr(a, n) == (a + 2^n \div 2) \div 2^n
VShr(a, n) == IF n > 0 THEN Shr(a, n) ELSE a * 2^(-n)

MaxInt16 == 32767
Saturate(x, a) == IF x > a THEN a ELSE IF x < -(a + 1) THEN -(a + 1) ELSE x

Magnitude(a) == IF a > 0 THEN a ELSE -a

(* DIV32: the C division. *)
Div32(a, b) ==
  IF (a < 0) = (b < 0) THEN Magnitude(a) \div Magnitude(b)
                       ELSE -(Magnitude(a) \div Magnitude(b))

(* MULT16_16_Qn and MULT16_16_Pn: a product shifted, without and with      *)
(* rounding; MULT16_32_Qn: the 32-bit operand is taken in two halves so    *)
(* that each product fits 32 bits.                                         *)
MultQ(a, b, n) == Shr(a * b, n)
MultP(a, b, n) == Shr(2^(n - 1) + a * b, n)
Mult32Q(a, b, n) == a * Shr(b, n) + Shr(a * (b % 2^n), n)

(* The position of the highest bit set in a positive x, and the two counts *)
(* of leading zeros (the first leaves the sign bit out).                   *)
TopBit(x) == CHOOSE n \in 0..30 : x \div 2^n = 1
CountLeadingZeros(x) == IF x = 0 THEN 31 ELSE 30 - TopBit(x)
UnsignedCountLeadingZeros(x) == IF x = 0 THEN 32 ELSE 31 - TopBit(x)

(* g729Log2_Q0Q16: integer part from the bit count, the rest from a        *)
(* polynomial in the normalised operand.                                   *)
Log2(x) ==
  LET zeros == CountLeadingZeros(x)
      acc == VShr(x, 16 - zeros)
  IN  (30 - zeros) * 2^16 - 135003
        + Mult32Q(acc, 378194 + Mult32Q(acc, -252129 + Mult32Q(acc, 74705, 15), 15), 15)

(* g729Exp2_Q11Q16, saturated above and cut to 0 below. *)
Exp2(x) ==
  LET integer == Shr(x, 11)
      frac == (x - integer * 2^11) * 2^3
  IN  IF integer > 14 THEN 2147483647
      ELSE IF integer < -15 THEN 0
      ELSE VShr(16384 + MultQ(frac, 11356 + MultQ(frac, 3726 + MultQ(1301, frac, 14), 14), 14),
                -integer - 2)

(* g729Sqrt_Q0Q7 *)
Sqrt(x) ==
  LET k == (19 - UnsignedCountLeadingZeros(x)) \div 2
      y == VShr(x, 2 * k)
  IN  IF x = 0 THEN 0
      ELSE VShr(3634 + MultQ(y, 21173 + MultQ(y, -12627 + MultQ(y, 4204, 14), 14), 14), -k)

(* The two polynomials of g729Cos_Q13Q15, in x^2. *)
CosSeries(x2) == MultP(x2, -16384 + MultP(x2, 1365 + MultP(-46, x2, 15), 15), 15)
SinSeries(x2) == 32768 + MultP(x2, -5461 + MultP(x2, 273 + MultP(-7, x2, 15), 15), 15)

(* g729Cos_Q13Q15, one polynomial per quarter of [0, Pi]. *)
Cos(x) ==
  LET sq(y) == MultP(y, y, 11)
      y == 12868 - x
      z == 25736 - x
  IN  IF x < 6434 THEN Saturate(32768 + CosSeries(sq(x)), MaxInt16)
      ELSE IF x < 19302 THEN MultP(y, SinSeries(sq(y)), 13)
      ELSE -32768 - CosSeries(sq(z))

(* g729Atan_Q15Q13: the argument is made positive, inverted when above 1,  *)
(* and reduced below tan(Pi/12) before the rational approximation.         *)
Atan(x) ==
  LET a == Magnitude(x)
      complement == a > 32768
      b == IF complement THEN Div32(2^30, a) ELSE a
      highSegment == b > 8780
      c == IF highSegment THEN Div32((b - 18919) * 2^15, MultQ(18919, b, 15) + 32768) ELSE b
      c2 == MultQ(c, c, 15)
      base == Div32(c * (32768 + MultQ(8453, c2, 15)), 32768 + MultQ(19373, c2, 15))
      angle == IF highSegment THEN base + 17157 ELSE base
      full == PShr(IF complement THEN 51472 - angle ELSE angle, 2)
  IN  IF x < 0 THEN -full ELSE full

\* Mutant: the square root under the fraction is not rounded.
AsinTruncated(x) == Shr(Sqrt(2^30 - x * x), 8)

(* g729Acos_Q15Q13, through g729Asin_Q15Q13; asin(x) divides by sqrt(1-x*x), *)
(* so it is defined for -1 < x < 1 only.                                   *)
AsinDivisor(x) == PShr(Sqrt(2^30 - x * x), 7)
Acos(x) == 12868 - Atan(Div32(x * 2^15, AsinDivisor(x)))

=============================================================================

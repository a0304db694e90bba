------------------------------- MODULE Curve -------------------------------
(***************************************************************************)
(* The square-root bonding curve of backend/internal/engine, in integers.  *)
(*                                                                         *)
(* The code computes                                                       *)
(*     spot(s)      = base * sqrt((s + 1) / scale)                         *)
(*     cost(s -> e) = base * 2/3 * ((e+1)^1.5 - (s+1)^1.5) / sqrt(scale)   *)
(* in float64 and rounds both, half away from zero.  Here a spot price is  *)
(* the nearest integer of an exact square root, and the antiderivative     *)
(* that the cost is a difference of is tabulated in grains, hundredths of  *)
(* a currency unit.  base and scale are integers.  The demand and drift    *)
(* modifiers do not appear: every caller in the ledger passes 1 for both.  *)
(***************************************************************************)
EXTENDS Integers

\* The integer square root, two bits at a time.
Isqrt[n \in Nat] ==
    IF n = 0 THEN 0
    ELSE LET low == 2 * Isqrt[n \div 4]
         IN  IF (low + 1) * (low + 1) <= n THEN low + 1 ELSE low

\* The integer nearest to sqrt(num / den); a half rounds up, as math.Round
\* does for a positive argument.
NearestRoot(num, den) == (Isqrt[(4 * num) \div den] + 1) \div 2

\* One more decimal of a square root: root^2 + rem is the number whose root is
\* taken, in units of the last decimal found.
NextDecimal(root, rem) ==
    CHOOSE d \in 0..9 : /\ (20 * root + d) * d <= 100 * rem
                        /\ \/ d = 9
                           \/ (20 * root + d + 1) * (d + 1) > 100 * rem

\* The floor of 100 * sqrt(n), by long-hand extraction.
RootInHundredths(n) ==
    LET r0 == Isqrt[n]
        m0 == n - r0 * r0
        d1 == NextDecimal(r0, m0)
        r1 == 10 * r0 + d1
        m1 == 100 * m0 - (20 * r0 + d1) * d1
    IN  10 * r1 + NextDecimal(r1, m1)

-----------------------------------------------------------------------------
\* The +1 keeps the price of a card without circulating shares above zero.
CurveArgument(s) == s + 1

\* Spot price of a card whose curve is [base, scale] at supply s.
SpotPriceOf(curve, s) ==
    NearestRoot(curve.base * curve.base * CurveArgument(s), curve.scale)

\* Antiderivative of the curve at supply s, in grains:
\*     100 * base * 2/3 * (s+1)^1.5 / sqrt(scale).
AreaOf(curve, s) ==
    LET a    == CurveArgument(s)
        root == RootInHundredths(a * a * a * curve.scale)
    IN  (2 * curve.base * root) \div (3 * curve.scale)
=============================================================================

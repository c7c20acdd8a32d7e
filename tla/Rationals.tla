------------------------------ MODULE Rationals ------------------------------
(***************************************************************************)
(* Exact fractions (crates/fsym-rational/src/lib.rs): a value is            *)
(* <<numerator, denominator>>, in lowest terms with a positive denominator  *)
(* if the operations keep it so.  They build results without a final        *)
(* reduction (Ratio::new_raw), so that is what has to be shown.             *)
(*                                                                         *)
(* A refusal is {}.  A float is <<negative, bits>>, the magnitude's bits    *)
(* being exponent and fraction; its width is a parameter.                  *)
(***************************************************************************)
EXTENDS Modular

CONSTANTS FractionBits,         \* 52 (binary64), 23 (binary32)
          MaxNormalExponent     \* 1023, 127

numer(q) == q[1]
denom(q) == q[2]
Zero == <<0, 1>>
One == <<1, 1>>
from_integer(n) == <<n, 1>>
is_zero(q) == q[1] = 0
is_integer(q) == q[2] = 1
neg(q) == <<-q[1], q[2]>>

\* new: reduced, the sign in the numerator; the caller excludes a zero denominator.
Frac(n, d) ==
    LET g == metered_gcd(n, d) IN <<Sign(d) * Quot(n, g), AbsoluteValue(Quot(d, g))>>

-----------------------------------------------------------------------------
(* Arithmetic with the common factors cancelled first.                     *)

SumReduced(combined, left, rhs, reduction) ==
    <<Quot(combined, reduction), left * Quot(denom(rhs), reduction)>>

\* g divides both denominators and is all that can be left to cancel.
SumOver(lhs, rhs, subtract, left, right, g) ==
    LET combined == IF subtract THEN numer(lhs) * right - numer(rhs) * left
                                ELSE numer(lhs) * right + numer(rhs) * left
    IN SumReduced(combined, left, rhs, metered_gcd(combined, g))

SumWith(lhs, rhs, subtract, g) == SumOver(lhs, rhs, subtract, Quot(denom(lhs), g), Quot(denom(rhs), g), g)

cross_cancelled_sum(lhs, rhs, subtract) == SumWith(lhs, rhs, subtract, metered_gcd(denom(lhs), denom(rhs)))

cross_cancelled_add(lhs, rhs) == cross_cancelled_sum(lhs, rhs, FALSE)
cross_cancelled_sub(lhs, rhs) == cross_cancelled_sum(lhs, rhs, TRUE)

cross_cancelled_mul(lhs, rhs) ==
    LET left_cross  == metered_gcd(numer(lhs), denom(rhs))
        right_cross == metered_gcd(numer(rhs), denom(lhs))
    IN <<Quot(numer(lhs), left_cross) * Quot(numer(rhs), right_cross),
         Quot(denom(lhs), right_cross) * Quot(denom(rhs), left_cross)>>

\* The divisor is not zero: division by zero panics.
cross_cancelled_div(lhs, rhs) ==
    LET numerator_cross   == metered_gcd(numer(lhs), numer(rhs))
        denominator_cross == metered_gcd(denom(lhs), denom(rhs))
        numerator   == Quot(numer(lhs), numerator_cross) * Quot(denom(rhs), denominator_cross)
        denominator == Quot(denom(lhs), denominator_cross) * Quot(numer(rhs), numerator_cross)
    IN IF denominator < 0 THEN <<-numerator, -denominator>> ELSE <<numerator, denominator>>

cross_cancelled_rem(lhs, rhs) ==
    LET g         == metered_gcd(denom(lhs), denom(rhs))
        right     == Quot(denom(rhs), g)
        remainder == Rem(numer(lhs) * right, numer(rhs) * Quot(denom(lhs), g))
        common    == denom(lhs) * right
        reduction == metered_gcd(remainder, common)
    IN <<Quot(remainder, reduction), Quot(common, reduction)>>

\* An integer power, 0^0 being 1.
IntegerPower(n, e) == IF e = 0 THEN 1 ELSE n^e

\* The answer of a call that was not refused.
Only(answers) == CHOOSE answer \in answers : TRUE

RationalPow(q, exponent) ==
    IF exponent < 0 /\ is_zero(q) THEN {}
    ELSE LET n == IntegerPower(numer(q), AbsoluteValue(exponent))
             d == IntegerPower(denom(q), AbsoluteValue(exponent))
         IN {IF exponent >= 0 THEN <<n, d>> ELSE IF n < 0 THEN <<-d, -n>> ELSE <<d, n>>}

exact_sqrt(q) ==
    {<<a, b>> \in metered_sqrt_floor(numer(q)) \X metered_sqrt_floor(denom(q)) :
        a * a = numer(q) /\ b * b = denom(q)}

-----------------------------------------------------------------------------
(* Comparison by continued fractions, never forming a cross product.       *)

div_mod_floor(n, d) == IF Rem(n, d) < 0 THEN <<Quot(n, d) - 1, Rem(n, d) + d>> ELSE <<Quot(n, d), Rem(n, d)>>

orient_ordering(ordering, reverse) == IF reverse THEN -ordering ELSE ordering

RECURSIVE CompareFractions(_, _, _)
CompareFractions(lhs, rhs, reverse) ==
    LET l == div_mod_floor(numer(lhs), denom(lhs))
        r == div_mod_floor(numer(rhs), denom(rhs))
    IN IF l[1] # r[1] THEN orient_ordering(Sign(l[1] - r[1]), reverse)
       ELSE IF l[2] = 0 \/ r[2] = 0 THEN orient_ordering(Sign(l[2]) - Sign(r[2]), reverse)
       ELSE CompareFractions(<<denom(lhs), l[2]>>, <<denom(rhs), r[2]>>, ~ reverse)

compare_canonical_rationals(lhs, rhs) == CompareFractions(lhs, rhs, FALSE)

RECURSIVE continued_fraction(_)
continued_fraction(q) ==
    LET step == div_mod_floor(numer(q), denom(q))
    IN <<step[1]>> \o IF step[2] = 0 THEN <<>> ELSE continued_fraction(<<denom(q), step[2]>>)

\* The convergent is built from the back; a zero on the way would be divided by.
RECURSIVE FoldConvergent(_, _)
FoldConvergent(prefix, q) ==
    IF prefix = <<>> THEN {q}
    ELSE IF is_zero(q) THEN {}
    ELSE FoldConvergent(Front(prefix), <<Last(prefix) * q[1] + q[2], q[1]>>)

from_continued_fraction(coefficients) ==
    IF coefficients = <<>> THEN {}
    ELSE {IF q[2] < 0 THEN <<-q[1], -q[2]>> ELSE q :
              q \in FoldConvergent(Front(coefficients), from_integer(Last(coefficients)))}

-----------------------------------------------------------------------------
(* Conversion to binary floats, round to nearest and ties to even, and the  *)
(* tightest enclosing pair.                                                *)

MinNormalExponent == 1 - MaxNormalExponent
SignificandFloor == 2^FractionBits
InfinityBits == (2 * MaxNormalExponent + 1) * SignificandFloor

rounded_binary_quotient(numerator, denominator, shift) ==
    LET n == IF shift > 0 THEN numerator * 2^shift ELSE numerator
        d == IF shift < 0 THEN denominator * 2^(-shift) ELSE denominator
        q == n \div d
        twice_remainder == 2 * (n % d)
    IN IF twice_remainder > d \/ (twice_remainder = d /\ q % 2 = 1) THEN q + 1 ELSE q

\* The exponent of the leading bit of n / d.
LeadingExponent(n, d) ==
    LET estimate == BitLength(n) - BitLength(d)
        below    == IF estimate >= 0 THEN n < d * 2^estimate ELSE n * 2^(-estimate) < d
    IN IF below THEN estimate - 1 ELSE estimate

MagnitudeBits(n, d) ==
    LET exponent == LeadingExponent(n, d)
        rounded  == rounded_binary_quotient(n, d, FractionBits - exponent)
        carried  == rounded = 2 * SignificandFloor
        final    == IF carried THEN exponent + 1 ELSE exponent
    IN CASE exponent > MaxNormalExponent -> InfinityBits
         [] exponent < MinNormalExponent - FractionBits - 1 -> 0
         [] exponent < MinNormalExponent ->
                rounded_binary_quotient(n, d, FractionBits - MinNormalExponent)
         [] OTHER -> IF final > MaxNormalExponent THEN InfinityBits
                     ELSE (final + MaxNormalExponent) * SignificandFloor
                            + IF carried THEN 0 ELSE rounded - SignificandFloor

rational_to_f64(q) ==
    <<q[1] < 0, IF is_zero(q) THEN 0 ELSE MagnitudeBits(AbsoluteValue(q[1]), q[2])>>

\* significand and exponent of a finite float's magnitude.
Significand(bits) ==
    IF bits < SignificandFloor THEN bits ELSE SignificandFloor + (bits % SignificandFloor)
FloatExponent(bits) ==
    (IF bits < SignificandFloor THEN MinNormalExponent ELSE (bits \div SignificandFloor) - MaxNormalExponent)
      - FractionBits

compare_rational_to_finite_float(q, f) ==
    LET product  == denom(q) * (IF f[1] THEN -Significand(f[2]) ELSE Significand(f[2]))
        exponent == FloatExponent(f[2])
    IN IF exponent >= 0 THEN Sign(numer(q) - product * 2^exponent)
       ELSE Sign(numer(q) * 2^(-exponent) - product)

\* f64::next_up and next_down on a nonzero finite float.
Away(f) == <<f[1], f[2] + 1>>
Toward(f) == <<f[1], f[2] - 1>>
next_up(f) == IF f[1] THEN Toward(f) ELSE Away(f)
next_down(f) == IF f[1] THEN Away(f) ELSE Toward(f)

rational_to_f64_bounds(q) ==
    LET nearest == rational_to_f64(q)
        order   == compare_rational_to_finite_float(q, nearest)
    IN CASE nearest[2] = InfinityBits -> IF nearest[1] THEN <<nearest, Toward(nearest)>>
                                         ELSE <<Toward(nearest), nearest>>
         [] nearest[2] = 0 -> IF is_zero(q) THEN <<nearest, nearest>>
                              ELSE IF q[1] < 0 THEN <<Away(nearest), nearest>> ELSE <<nearest, Away(nearest)>>
         [] OTHER -> CASE order = -1 -> <<next_down(nearest), nearest>>
                       [] order = 0  -> <<nearest, nearest>>
                       [] order = 1  -> <<nearest, next_up(nearest)>>

-----------------------------------------------------------------------------
(* What the answers must mean; products of small numbers are safe here.    *)

Canonical(q) == q[2] > 0 /\ \A k \in 2..q[2] : ~ (q[1] % k = 0 /\ q[2] % k = 0)

\* a = n / d.
Is(a, n, d) == Canonical(a) /\ a[1] * d = a[2] * n

\* The scaled integer a float's magnitude stands for, infinity as the next power of two.
FloatScale == 2^(FractionBits - MinNormalExponent)
FloatValue(bits) ==
    IF bits = InfinityBits THEN 2^(MaxNormalExponent + 1) * FloatScale
    ELSE Significand(bits) * 2^(FloatExponent(bits) + FractionBits - MinNormalExponent)
SignedValue(f) == IF f[1] THEN -FloatValue(f[2]) ELSE FloatValue(f[2])

\* No float is nearer, and of two equally near ones the even one is taken.
NearestFloat(q, f) ==
    LET Distance(bits) == AbsoluteValue(AbsoluteValue(q[1]) * FloatScale - FloatValue(bits) * q[2])
    IN /\ f[1] = (q[1] < 0)
       /\ \A other \in 0..InfinityBits \ {f[2]} :
              \/ Distance(f[2]) < Distance(other)
              \/ (Distance(f[2]) = Distance(other) /\ f[2] % 2 = 0)
              \/ (f[2] = InfinityBits /\ AbsoluteValue(q[1]) * FloatScale > FloatValue(InfinityBits) * q[2])

\* The bounds enclose the value, meet only on it and have no float between them.
TightBounds(q, bounds) ==
    LET low  == SignedValue(bounds[1]) * q[2]
        high == SignedValue(bounds[2]) * q[2]
        v    == q[1] * FloatScale
    IN /\ low <= v \/ bounds[1][2] = InfinityBits
       /\ v <= high \/ bounds[2][2] = InfinityBits
       /\ bounds[1] # bounds[2] => (low < v /\ v < high) \/ InfinityBits \in {bounds[1][2], bounds[2][2]}
       /\ \A bits \in 0..InfinityBits : \A negative \in BOOLEAN :
              LET f == SignedValue(<<negative, bits>>) * q[2] IN ~ (low < f /\ f < high)

FractionsExact(a, b) ==
    /\ Is(cross_cancelled_add(a, b), a[1] * b[2] + b[1] * a[2], a[2] * b[2])
    /\ Is(cross_cancelled_sub(a, b), a[1] * b[2] - b[1] * a[2], a[2] * b[2])
    /\ Is(cross_cancelled_mul(a, b), a[1] * b[1], a[2] * b[2])
    /\ b[1] # 0 =>
           /\ Is(cross_cancelled_div(a, b), a[1] * b[2], a[2] * b[1])
           /\ LET r == cross_cancelled_rem(a, b)
              IN Is(r, a[1] * b[2] - Quot(a[1] * b[2], b[1] * a[2]) * b[1] * a[2], a[2] * b[2])
    /\ compare_canonical_rationals(a, b) = Sign(a[1] * b[2] - b[1] * a[2])
    /\ from_continued_fraction(continued_fraction(a)) = {a}
    /\ exact_sqrt(cross_cancelled_mul(a, a)) = {<<AbsoluteValue(a[1]), a[2]>>}
    /\ \A s \in exact_sqrt(a) : cross_cancelled_mul(s, s) = a
    /\ NearestFloat(a, rational_to_f64(a))
    /\ TightBounds(a, rational_to_f64_bounds(a))
    /\ \A e \in 0..3 : RationalPow(a, e) = {Frac(IntegerPower(a[1], e), IntegerPower(a[2], e))}
    /\ \A e \in 1..3 : RationalPow(a, -e) = IF a[1] = 0 THEN {} ELSE {Frac(a[2]^e, a[1]^e)}
=============================================================================

-------------------------------- MODULE Limbs --------------------------------
(***************************************************************************)
(* Big-integer arithmetic on machine digits (crates/fsym-bigint/src/lib.rs  *)
(* and ntt.rs): the metered schoolbook, Karatsuba, Toom-3 and NTT/CRT       *)
(* products, long division and signed sums.                                *)
(*                                                                         *)
(* A magnitude is a sequence of digits below Base, least significant first, *)
(* without a zero on top.  The code's digits have 32 bits, its transform    *)
(* coefficients half as many; both widths and the primes of the transform   *)
(* are parameters here.  Operations that may end in an InvariantViolation,  *)
(* or refuse a transform, return a set: {} is the error.  Meters only stop  *)
(* these computations and are left out.                                    *)
(***************************************************************************)
EXTENDS Integers, Sequences, FiniteSets, FiniteSetsExt, SequencesExt

CONSTANTS CoefficientBits,        \* COEFFICIENT_BITS; a digit has twice as many
          KaratsubaLeaf,          \* METERED_KARATSUBA_LEAF_DIGITS
          ToomCutoff,             \* METERED_TOOM3_RECURSION_CUTOFF_DIGITS
          Prime1, Prime2,         \* PRIME_1 < PRIME_2, both with primitive root 3
          MaxTransformLength,     \* MAX_TRANSFORM_LENGTH
          CheckModulus, CheckPoint

DigitBits == 2 * CoefficientBits
CoefficientBase == 2^CoefficientBits
Base == 2^DigitBits

ASSUME LimbAssumption ==
    /\ CoefficientBits \in Nat /\ Base > 16
    /\ KaratsubaLeaf \in Nat \ {0} /\ ToomCutoff \in Nat \ {0}
    /\ Prime1 < Prime2 /\ Prime1 % MaxTransformLength = 1 /\ Prime2 % MaxTransformLength = 1

DigitAt(s, i) == IF i \in DOMAIN s THEN s[i] ELSE 0

RECURSIVE Zeros(_)
Zeros(n) == IF n = 0 THEN <<>> ELSE Append(Zeros(n - 1), 0)

RECURSIVE Trimmed(_)
Trimmed(s) == IF s # <<>> /\ Last(s) = 0 THEN Trimmed(Front(s)) ELSE s

\* The digits of a natural number (num-bigint's iter_u32_digits).
RECURSIVE DigitsOf(_)
DigitsOf(n) == IF n = 0 THEN <<>> ELSE <<n % Base>> \o DigitsOf(n \div Base)

RECURSIVE ValueOf(_)
ValueOf(s) == IF s = <<>> THEN 0 ELSE Head(s) + Base * ValueOf(Tail(s))

\* -1, 0 or 1: first the lengths, then the digits from the top.
RECURSIVE compare_digits(_, _)
compare_digits(a, b) ==
    CASE Len(a) # Len(b)    -> IF Len(a) < Len(b) THEN -1 ELSE 1
      [] a = <<>>           -> 0
      [] Last(a) # Last(b)  -> IF Last(a) < Last(b) THEN -1 ELSE 1
      [] OTHER              -> compare_digits(Front(a), Front(b))

RECURSIVE AddFrom(_, _, _, _)
AddFrom(a, b, i, carry) ==
    IF i > Max({Len(a), Len(b)}) THEN IF carry # 0 THEN <<carry>> ELSE <<>>
    ELSE LET sum == DigitAt(a, i) + DigitAt(b, i) + carry
         IN <<sum % Base>> \o AddFrom(a, b, i + 1, sum \div Base)

add_digits(a, b) == AddFrom(a, b, 1, 0)

\* Callers have compared: a >= b.
RECURSIVE SubtractFrom(_, _, _, _)
SubtractFrom(a, b, i, borrow) ==
    IF i > Len(a) THEN <<>>
    ELSE LET subtrahend == DigitAt(b, i) + borrow
         IN IF a[i] >= subtrahend THEN <<a[i] - subtrahend>> \o SubtractFrom(a, b, i + 1, 0)
            ELSE <<Base + a[i] - subtrahend>> \o SubtractFrom(a, b, i + 1, 1)

subtract_digits(a, b) == Trimmed(SubtractFrom(a, b, 1, 0))

metered_subtract_digit_slices(a, b) ==
    CASE compare_digits(a, b) = -1 -> {}
      [] compare_digits(a, b) = 0  -> {<<>>}
      [] OTHER                     -> {subtract_digits(a, b)}

\* target + factor * source * Base^offset; {} when a carry leaves the buffer.
RECURSIVE AddScaled(_, _, _, _, _, _)
AddScaled(target, source, factor, offset, j, carry) ==
    IF j > Len(source) /\ carry = 0 THEN {target}
    ELSE IF offset + j > Len(target) THEN {}
    ELSE LET sum == target[offset + j] + factor * DigitAt(source, j) + carry
         IN AddScaled([target EXCEPT ![offset + j] = sum % Base], source, factor, offset,
                      j + 1, sum \div Base)

metered_add_shifted_digits(target, source, offset) == AddScaled(target, source, 1, offset, 1, 0)

RECURSIVE SchoolbookRows(_, _, _, _)
SchoolbookRows(product, a, b, i) ==
    IF i > Len(a) THEN {Trimmed(product)}
    ELSE UNION {SchoolbookRows(p, a, b, i + 1) : p \in AddScaled(product, b, a[i], i - 1, 1, 0)}

metered_schoolbook_digits(a, b) == SchoolbookRows(Zeros(Len(a) + Len(b)), a, b, 1)

-----------------------------------------------------------------------------
(* Recursive products.                                                     *)

CeilDiv(n, k) == (n + k - 1) \div k

\* The digits first + 1 to last, as far as there are any.
Chunk(s, first, last) == Trimmed(SubSeq(s, first + 1, Min({last, Len(s)})))

\* The buffer with every part added at its offset; a part that cannot fit is an error.
Recombined(capacity, parts, offsets) ==
    IF \E i \in DOMAIN parts : offsets[i] + Len(parts[i]) > capacity THEN {}
    ELSE {Trimmed(t) : t \in
            FoldLeft(LAMBDA acc, i : UNION {metered_add_shifted_digits(t, parts[i], offsets[i]) : t \in acc},
                     {Zeros(capacity)}, [i \in DOMAIN parts |-> i])}

MiddleProduct(combined, z0, z2) ==
    UNION {metered_subtract_digit_slices(w, z2) : w \in metered_subtract_digit_slices(combined, z0)}

RECURSIVE metered_karatsuba_digits(_, _)
metered_karatsuba_digits(a, b) ==
    LET longest == Max({Len(a), Len(b)})
        split   == CeilDiv(longest, 2)
        a0 == Chunk(a, 0, split)    a1 == Chunk(a, split, Len(a))
        b0 == Chunk(b, 0, split)    b1 == Chunk(b, split, Len(b))
    IN IF <<>> \in {a, b} THEN {<<>>}
       ELSE IF longest <= KaratsubaLeaf \/ Min({Len(a), Len(b)}) <= split
       THEN metered_schoolbook_digits(a, b)
       ELSE UNION {UNION {Recombined(Len(a) + Len(b), <<z0, z1, z2>>, <<0, split, 2 * split>>)
                            : z1 \in MiddleProduct(combined, z0, z2)}
                     : z0 \in metered_karatsuba_digits(a0, b0),
                       z2 \in metered_karatsuba_digits(a1, b1),
                       combined \in metered_karatsuba_digits(add_digits(a0, a1), add_digits(b0, b1))}

\* A signed magnitude; zero is never negative.
SignedDigits(negative, digits) == [negative |-> negative /\ digits # <<>>, digits |-> digits]

metered_signed_add_parts(a_negative, a, b_negative, b) ==
    CASE a = <<>>                 -> SignedDigits(b_negative, b)
      [] b = <<>>                 -> SignedDigits(a_negative, a)
      [] a_negative = b_negative  -> SignedDigits(a_negative, add_digits(a, b))
      [] OTHER -> CASE compare_digits(a, b) = -1 -> SignedDigits(b_negative, subtract_digits(b, a))
                    [] compare_digits(a, b) = 0  -> SignedDigits(FALSE, <<>>)
                    [] OTHER                     -> SignedDigits(a_negative, subtract_digits(a, b))

Plus(x, y)  == metered_signed_add_parts(x.negative, x.digits, y.negative, y.digits)
Minus(x, y) == metered_signed_add_parts(x.negative, x.digits, ~ y.negative, y.digits)

RECURSIVE TimesFrom(_, _, _)
TimesFrom(s, factor, carry) ==
    IF s = <<>> THEN IF carry # 0 THEN <<carry>> ELSE <<>>
    ELSE LET product == Head(s) * factor + carry
         IN <<product % Base>> \o TimesFrom(Tail(s), factor, product \div Base)

metered_multiply_digit_slice_by_small(s, factor) == TimesFrom(s, factor, 0)

Times(x, factor) == SignedDigits(x.negative, metered_multiply_digit_slice_by_small(x.digits, factor))

\* Quotient digits from the top, with the final remainder.
RECURSIVE DivideSmall(_, _, _)
DivideSmall(s, divisor, remainder) ==
    IF s = <<>> THEN <<<<>>, remainder>>
    ELSE LET wide == remainder * Base + Last(s)
             rest == DivideSmall(Front(s), divisor, wide % divisor)
         IN <<Append(rest[1], wide \div divisor), rest[2]>>

metered_exact_divide_signed_small(x, divisor) ==
    LET qr == DivideSmall(x.digits, divisor, 0)
    IN IF qr[2] # 0 THEN {} ELSE {SignedDigits(x.negative, Trimmed(qr[1]))}

metered_evaluate_toom3_chunks(c0, c1, c2) ==
    LET even == add_digits(c0, c2)
    IN [at_one       |-> SignedDigits(FALSE, add_digits(even, c1)),
        at_minus_one |-> metered_signed_add_parts(FALSE, even, TRUE, c1),
        at_two       |-> SignedDigits(FALSE, add_digits(
                            add_digits(c0, metered_multiply_digit_slice_by_small(c1, 2)),
                            metered_multiply_digit_slice_by_small(c2, 4)))]

AtTwoRest(w0, w2, w4, c2) == Minus(Minus(Minus(w2, w0), Times(c2, 4)), Times(w4, 16))

\* The five coefficients from the values at 0, 1, -1, 2 and infinity.
metered_interpolate_toom3(w0, w1, w_minus_one, w2, w4) ==
    IF \E w \in {w0, w1, w2, w4} : w.negative THEN {}
    ELSE LET Coefficients(half_sum, sum_c1_c3) ==
                 LET c2 == Minus(Minus(half_sum, w0), w4)
                 IN {<<w0, Minus(sum_c1_c3, c3), c2, c3, w4>> :
                        c3 \in UNION {metered_exact_divide_signed_small(Minus(x, sum_c1_c3), 3) :
                            x \in metered_exact_divide_signed_small(AtTwoRest(w0, w2, w4, c2), 2)}}
             all == UNION {Coefficients(half_sum, sum_c1_c3) :
                        half_sum  \in metered_exact_divide_signed_small(Plus(w1, w_minus_one), 2),
                        sum_c1_c3 \in metered_exact_divide_signed_small(Minus(w1, w_minus_one), 2)}
         IN {cs \in all : \A i \in 2..4 : ~ cs[i].negative}

RECURSIVE metered_toom3_digits(_, _)
metered_toom3_digits(a, b) ==
    LET longest == Max({Len(a), Len(b)})
        chunk   == CeilDiv(longest, 3)
        Chunks(s) == <<Chunk(s, 0, chunk), Chunk(s, chunk, 2 * chunk), Chunk(s, 2 * chunk, Len(s))>>
        Values(c) == metered_evaluate_toom3_chunks(c[1], c[2], c[3])
        as == Chunks(a)    av == Values(as)
        bs == Chunks(b)    bv == Values(bs)
        Product(x, y) == {SignedDigits(x.negative # y.negative, w) :
                             w \in metered_toom3_digits(x.digits, y.digits)}
        Positive(s) == SignedDigits(FALSE, s)
    IN IF <<>> \in {a, b} THEN {<<>>}
       ELSE IF longest <= ToomCutoff \/ Min({Len(a), Len(b)}) <= 2 * chunk
       THEN metered_karatsuba_digits(a, b)
       ELSE UNION {Recombined(Len(a) + Len(b), [i \in 1..5 |-> cs[i].digits],
                              [i \in 1..5 |-> (i - 1) * chunk]) : cs \in
              UNION {metered_interpolate_toom3(w0, w1, w_minus_one, w2, w4) :
                        w0 \in Product(Positive(as[1]), Positive(bs[1])),
                        w1 \in Product(av.at_one, bv.at_one),
                        w_minus_one \in Product(av.at_minus_one, bv.at_minus_one),
                        w2 \in Product(av.at_two, bv.at_two),
                        w4 \in Product(Positive(as[3]), Positive(bs[3]))}}

-----------------------------------------------------------------------------
(* The two-prime transform product (ntt.rs).                                *)

RECURSIVE ntt_mod_pow(_, _, _)
ntt_mod_pow(base, exponent, modulus) ==
    IF exponent = 0 THEN 1
    ELSE LET rest == ntt_mod_pow((base * base) % modulus, exponent \div 2, modulus)
         IN IF exponent % 2 = 1 THEN (rest * base) % modulus ELSE rest

RECURSIVE NextPowerOfTwo(_)
NextPowerOfTwo(n) == IF n <= 1 THEN 1 ELSE 2 * NextPowerOfTwo(CeilDiv(n, 2))

\* The lengths and the coefficient bound of a product, {} when unsupported.
transform_domain(a_len, b_len) ==
    LET coefficients == 2 * a_len + 2 * b_len - 1
        bound == 2 * Min({a_len, b_len}) * (CoefficientBase - 1) * (CoefficientBase - 1)
    IN IF NextPowerOfTwo(coefficients) > MaxTransformLength \/ bound >= Prime1 * Prime2 THEN {}
       ELSE {[coefficients |-> coefficients, length |-> NextPowerOfTwo(coefficients), bound |-> bound]}

\* The bits of i, of a transform of length len, in reverse order.
RECURSIVE BitReversed(_, _)
BitReversed(i, len) ==
    IF len = 1 THEN 0 ELSE (i % 2) * (len \div 2) + BitReversed(i \div 2, len \div 2)

ButterflyDifference(left, right, prime) == IF left >= right THEN left - right ELSE left + prime - right

Butterflies(values, prime, root, block) ==
    LET half == block \div 2
    IN [i \in DOMAIN values |->
          LET offset == i % block
              top    == IF offset < half THEN i ELSE i - half
              left   == values[top]
              right  == (values[top + half] * ntt_mod_pow(root, offset % half, prime)) % prime
          IN IF offset < half THEN (left + right) % prime ELSE ButterflyDifference(left, right, prime)]

RECURSIVE TransformStages(_, _, _, _)
TransformStages(values, prime, invert, block) ==
    IF block > Cardinality(DOMAIN values) THEN values
    ELSE LET root == ntt_mod_pow(3, (prime - 1) \div block, prime)
         IN TransformStages(Butterflies(values, prime,
                                IF invert THEN ntt_mod_pow(root, prime - 2, prime) ELSE root, block),
                            prime, invert, 2 * block)

ntt_transform(values, prime, invert) ==
    LET len == Cardinality(DOMAIN values)
        done == TransformStages([i \in DOMAIN values |-> values[BitReversed(i, len)]], prime, invert, 2)
    IN IF invert THEN [i \in DOMAIN values |-> (done[i] * ntt_mod_pow(len, prime - 2, prime)) % prime]
       ELSE done

\* Coefficient i (from 0) of a magnitude: digits split in halves.
CoefficientOf(digits, i) ==
    LET digit == DigitAt(digits, i \div 2 + 1)
    IN IF i % 2 = 0 THEN digit % CoefficientBase ELSE digit \div CoefficientBase

Convolved(a, b, prime, len) ==
    LET Transformed(digits) == ntt_transform([i \in 0..(len - 1) |-> CoefficientOf(digits, i)], prime, FALSE)
        ta == Transformed(a)
        tb == Transformed(b)
    IN ntt_transform([i \in 0..(len - 1) |-> (ta[i] * tb[i]) % prime], prime, TRUE)

reconstruct_coefficient(residue_1, residue_2, inverse) ==
    LET reduced    == residue_1 % Prime2
        difference == IF residue_2 >= reduced THEN residue_2 - reduced ELSE residue_2 + Prime2 - reduced
    IN residue_1 + Prime1 * ((difference * inverse) % Prime2)

\* The value of a sequence (least significant first) at a point, modulo the check modulus.
RECURSIVE EvaluatedAt(_, _)
EvaluatedAt(s, point) ==
    IF s = <<>> THEN 0 ELSE (Head(s) + point * EvaluatedAt(Tail(s), point)) % CheckModulus

\* Base-CoefficientBase limbs of a coefficient sequence, carries propagated to the end.
RECURSIVE CarriedLimbs(_, _)
CarriedLimbs(coefficients, carry) ==
    IF coefficients = <<>>
    THEN IF carry = 0 THEN <<>> ELSE <<carry % CoefficientBase>> \o CarriedLimbs(<<>>, carry \div CoefficientBase)
    ELSE LET total == Head(coefficients) + carry
         IN <<total % CoefficientBase>> \o CarriedLimbs(Tail(coefficients), total \div CoefficientBase)

\* Pairs of limbs make a digit.
Paired(limbs) ==
    [i \in 1..CeilDiv(Len(limbs), 2) |-> limbs[2 * i - 1] + CoefficientBase * DigitAt(limbs, 2 * i)]

multiply_u32_digits(a, b) ==
    LET Coefficients(v1, v2, inverse, count) ==
            [i \in 1..count |-> reconstruct_coefficient(v1[i - 1], v2[i - 1], inverse)]
        Split(s) == [i \in 1..(2 * Len(s)) |-> CoefficientOf(s, i - 1)]
        Checked(coefficients, bound, digits, result) ==
            IF \/ \E i \in DOMAIN coefficients : coefficients[i] > bound
               \/ EvaluatedAt(coefficients, CheckPoint) #
                     (EvaluatedAt(Split(a), CheckPoint) * EvaluatedAt(Split(b), CheckPoint)) % CheckModulus
               \/ Len(digits) > Len(a) + Len(b)
               \/ result = <<>>
               \/ EvaluatedAt(result, Base % CheckModulus) #
                     (EvaluatedAt(a, Base % CheckModulus) * EvaluatedAt(b, Base % CheckModulus)) % CheckModulus
            THEN {} ELSE {result}
        Carried(coefficients, bound, digits) == Checked(coefficients, bound, digits, Trimmed(digits))
        Assembled(coefficients, bound) == Carried(coefficients, bound, Paired(CarriedLimbs(coefficients, 0)))
        Product(domain) ==
            Assembled(Coefficients(Convolved(a, b, Prime1, domain.length), Convolved(a, b, Prime2, domain.length),
                                   ntt_mod_pow(Prime1 % Prime2, Prime2 - 2, Prime2), domain.coefficients),
                      domain.bound)
    IN IF <<>> \in {a, b} THEN {<<>>}
       ELSE UNION {Product(domain) : domain \in transform_domain(Len(a), Len(b))}

-----------------------------------------------------------------------------
(* Long division and signed sums on integers.                               *)

Sign(n) == IF n > 0 THEN 1 ELSE IF n < 0 THEN -1 ELSE 0
Magnitude(n) == DigitsOf(IF n < 0 THEN -n ELSE n)

shift_left_one(s) ==
    LET Carry(i) == IF DigitAt(s, i) >= Base \div 2 THEN 1 ELSE 0
        shifted == [i \in DOMAIN s |-> ((2 * s[i]) % Base) + Carry(i - 1)]
    IN IF Carry(Len(s)) = 1 THEN Append(shifted, 1) ELSE shifted

Fits(remainder, divisor) == compare_digits(remainder, divisor) # -1

\* Binary long division, bit k of the dividend and then the lower ones.
RECURSIVE DivideBits(_, _, _, _, _)
DivideBits(dividend, divisor, k, quotient, remainder) ==
    IF k < 0 THEN <<Trimmed(quotient), Trimmed(remainder)>>
    ELSE LET at      == k \div DigitBits + 1
             bit     == 2^(k % DigitBits)
             shifted == shift_left_one(remainder)
             next    == IF (dividend[at] \div bit) % 2 = 0 THEN shifted
                        ELSE IF shifted = <<>> THEN <<1>> ELSE [shifted EXCEPT ![1] = @ + 1]
         IN IF Fits(next, divisor)
            THEN DivideBits(dividend, divisor, k - 1, [quotient EXCEPT ![at] = @ + bit],
                            subtract_digits(next, divisor))
            ELSE DivideBits(dividend, divisor, k - 1, quotient, next)

RECURSIVE BitLength(_)
BitLength(n) == IF n = 0 THEN 0 ELSE 1 + BitLength(n \div 2)

AbsoluteValue(n) == IF n < 0 THEN -n ELSE n

\* <<quotient, remainder>>, truncated toward zero.
metered_div_rem_nonzero(n, d) ==
    IF n = 0 THEN <<0, 0>>
    ELSE IF BitLength(AbsoluteValue(n)) < BitLength(AbsoluteValue(d)) THEN <<0, n>>
    ELSE LET digits == Magnitude(n)
             qr == DivideBits(digits, Magnitude(d), DigitBits * Len(digits) - 1, Zeros(Len(digits)), <<>>)
         IN <<Sign(n) * Sign(d) * ValueOf(qr[1]), Sign(n) * ValueOf(qr[2])>>

metered_signed_sum(a, b, subtract) ==
    LET b_sign == IF subtract THEN - Sign(b) ELSE Sign(b)
        order  == compare_digits(Magnitude(a), Magnitude(b))
    IN IF a = 0 /\ b = 0 THEN 0
       ELSE IF Sign(a) = b_sign THEN b_sign * ValueOf(add_digits(Magnitude(a), Magnitude(b)))
       ELSE CASE order = 1  -> Sign(a) * ValueOf(subtract_digits(Magnitude(a), Magnitude(b)))
              [] order = -1 -> b_sign * ValueOf(subtract_digits(Magnitude(b), Magnitude(a)))
              [] order = 0  -> 0

-----------------------------------------------------------------------------
(* What the results must be.                                               *)

\* The digits of a product, from the sums of its columns.
RECURSIVE CarriedDigits(_, _)
CarriedDigits(columns, carry) ==
    IF columns = <<>> THEN IF carry = 0 THEN <<>> ELSE <<carry % Base>> \o CarriedDigits(<<>>, carry \div Base)
    ELSE LET total == Head(columns) + carry
         IN <<total % Base>> \o CarriedDigits(Tail(columns), total \div Base)

ProductDigits(a, b) ==
    LET Column(k) == FoldLeft(LAMBDA sum, i : sum + a[i] * DigitAt(b, k + 1 - i), 0, [i \in DOMAIN a |-> i])
    IN Trimmed(CarriedDigits([k \in 1..(Len(a) + Len(b)) |-> Column(k)], 0))

\* Every kernel returns the product, in canonical digits; only the transform may
\* refuse, and only for its length.
ProductsExact(a, b) ==
    LET product == ProductDigits(a, b) IN
    /\ metered_schoolbook_digits(a, b) = {product}
    /\ metered_karatsuba_digits(a, b) = {product}
    /\ metered_toom3_digits(a, b) = {product}
    /\ multiply_u32_digits(a, b) =
          IF <<>> \notin {a, b} /\ 2 * (Len(a) + Len(b)) - 1 > MaxTransformLength THEN {} ELSE {product}

\* n = quotient * d + remainder, the remainder smaller than d and of n's sign.
DivisionExact(n, d) ==
    LET qr == metered_div_rem_nonzero(n, d) IN
    /\ n = qr[1] * d + qr[2]
    /\ AbsoluteValue(qr[2]) < AbsoluteValue(d) /\ Sign(qr[2]) \in {0, Sign(n)}

SumsExact(a, b) ==
    metered_signed_sum(a, b, FALSE) = a + b /\ metered_signed_sum(a, b, TRUE) = a - b
=============================================================================

------------------------------ MODULE UniPolys ------------------------------
(***************************************************************************)
(* Univariate polynomials over the fractions                                *)
(* (crates/fsym-polys/src/univariate.rs and gcd.rs): a polynomial is the     *)
(* nonempty sequence of its coefficients, the constant one first, whose last *)
(* element is not zero unless it is the only one.                           *)
(*                                                                         *)
(* All polynomials are in one generator and within the limits on degree,    *)
(* exponent and coefficient size: what exceeds them is refused unchanged.   *)
(***************************************************************************)
EXTENDS Rationals

Poly(coeffs) ==
    LET nonzero == {i \in DOMAIN coeffs : ~ is_zero(coeffs[i])}
    IN IF nonzero = {} THEN <<from_integer(0)>> ELSE SubSeq(coeffs, 1, Max(nonzero))

PolyZero == <<from_integer(0)>>
PolyOne == <<from_integer(1)>>
PolyIsZero(a) == a = PolyZero
PolyIsOne(a) == a = PolyOne
leading_coeff(a) == Last(a)
degree(a) == Len(a) - 1          \* of a nonzero polynomial
coefficient(a, i) == IF i \in DOMAIN a THEN a[i] ELSE from_integer(0)

\* monomial's linear case and its relatives: x - r.
Linear(r) == <<neg(r), from_integer(1)>>

Eval(a, point) ==
    FoldRight(LAMBDA c, acc : cross_cancelled_add(cross_cancelled_mul(acc, point), c), a, from_integer(0))

derivative(a) ==
    Poly([i \in 1..(Len(a) - 1) |-> cross_cancelled_mul(a[i + 1], from_integer(i))])

integrate(a, constant) ==
    Poly(<<constant>> \o [i \in 1..Len(a) |-> cross_cancelled_div(a[i], from_integer(i))])

PolyAdd(a, b) ==
    Poly([i \in 1..Max({Len(a), Len(b)}) |-> cross_cancelled_add(coefficient(a, i), coefficient(b, i))])

PolySub(a, b) ==
    Poly([i \in 1..Max({Len(a), Len(b)}) |-> cross_cancelled_sub(coefficient(a, i), coefficient(b, i))])

PolyMul(a, b) ==
    IF PolyIsZero(a) \/ PolyIsZero(b) THEN PolyZero
    ELSE Poly([k \in 1..(Len(a) + Len(b) - 1) |->
             FoldLeft(LAMBDA sum, i : cross_cancelled_add(sum,
                          cross_cancelled_mul(coefficient(a, i), coefficient(b, k + 1 - i))),
                      from_integer(0), [i \in 1..k |-> i])])

RECURSIVE PowLoop(_, _, _)
PowLoop(base, exp, res) ==
    IF exp = 0 THEN res
    ELSE PowLoop(IF exp > 1 THEN PolyMul(base, base) ELSE base, exp \div 2,
                 IF exp % 2 = 1 THEN PolyMul(res, base) ELSE res)

PolyPow(a, exp) == PowLoop(a, exp, PolyOne)

compose(a, inner) ==
    FoldRight(LAMBDA c, acc : PolyAdd(PolyMul(acc, inner), <<c>>), a, PolyZero)

PolyShift(a, by) == IF is_zero(by) THEN a ELSE compose(a, <<by, from_integer(1)>>)

scale_x(a, c) == Poly([i \in DOMAIN a |-> cross_cancelled_mul(a[i], Only(RationalPow(c, i - 1)))])

ReversePoly(a) == Poly(Reverse(a))

l2_norm_squared(a) ==
    FoldLeft(LAMBDA sum, c : cross_cancelled_add(sum, cross_cancelled_mul(c, c)), from_integer(0), a)

\* to_monic and, of a nonzero polynomial, make_monic.
to_monic(a) ==
    IF PolyIsZero(a) THEN a ELSE Poly([i \in DOMAIN a |-> cross_cancelled_div(a[i], leading_coeff(a))])

-----------------------------------------------------------------------------
(* Division, greatest common divisors and their certificates.              *)

RECURSIVE DivideFrom(_, _, _, _)
DivideFrom(remainder, divisor, quotient, i) ==
    LET Reduced(q) == [k \in DOMAIN remainder |->
                          IF k - i \in DOMAIN divisor
                          THEN cross_cancelled_sub(remainder[k], cross_cancelled_mul(q, divisor[k - i]))
                          ELSE remainder[k]]
        Step(q) == DivideFrom(SubSeq(Reduced(q), 1, Len(remainder)), divisor, <<q>> \o quotient, i - 1)
    IN IF i < 0 THEN <<Poly(quotient), Poly(remainder)>>
       ELSE Step(cross_cancelled_div(remainder[i + Len(divisor)], leading_coeff(divisor)))

\* <<quotient, remainder>>; the divisor is not zero.
div_rem(a, divisor) ==
    IF PolyIsZero(a) \/ Len(a) < Len(divisor) THEN <<PolyZero, a>>
    ELSE DivideFrom(a, divisor, <<>>, Len(a) - Len(divisor))

RECURSIVE PolyEuclid(_, _)
PolyEuclid(a, b) == IF PolyIsZero(b) THEN to_monic(a) ELSE PolyEuclid(b, div_rem(a, b)[2])

PolyGcd(a, b) == IF PolyIsZero(a) THEN to_monic(b) ELSE PolyEuclid(a, b)

RECURSIVE PolyBezout(_, _, _, _, _, _)
PolyBezout(old_r, r, old_s, s, old_t, t) ==
    IF PolyIsZero(r)
    THEN LET lc == leading_coeff(old_r)
             By(scale) == [gcd |-> PolyMul(old_r, scale), u |-> PolyMul(old_s, scale), v |-> PolyMul(old_t, scale)]
         IN By(IF is_zero(lc) THEN PolyOne ELSE <<cross_cancelled_div(from_integer(1), lc)>>)
    ELSE LET Step(q, rem) == PolyBezout(r, rem, s, PolySub(old_s, PolyMul(q, s)), t, PolySub(old_t, PolyMul(q, t)))
             Divided(qr) == Step(qr[1], qr[2])
         IN Divided(div_rem(old_r, r))

extended_gcd(a, b) == PolyBezout(a, b, PolyOne, PolyZero, PolyZero, PolyOne)

\* Mutant: the certificate's combination is checked, its divisibility is not.
Mutverify_bezout_certificate(a, b, cert) ==
    /\ leading_coeff(cert.gcd) = from_integer(1)
    /\ PolyAdd(PolyMul(cert.u, a), PolyMul(cert.v, b)) = cert.gcd

verify_bezout_certificate(a, b, cert) ==
    IF PolyIsZero(cert.gcd) THEN PolyIsZero(a) /\ PolyIsZero(b)
    ELSE /\ leading_coeff(cert.gcd) = from_integer(1)
         /\ PolyAdd(PolyMul(cert.u, a), PolyMul(cert.v, b)) = cert.gcd
         /\ PolyIsZero(div_rem(a, cert.gcd)[2])
         /\ PolyIsZero(div_rem(b, cert.gcd)[2])

-----------------------------------------------------------------------------
(* Resultants: the determinant of the Sylvester matrix by elimination.      *)

RECURSIVE Eliminate(_, _, _)
Eliminate(mat, i, det) ==
    IF i > Len(mat) THEN det
    ELSE IF \A r \in i..Len(mat) : is_zero(mat[r][i]) THEN from_integer(0)
    ELSE LET pivot_row == Min({r \in i..Len(mat) : ~ is_zero(mat[r][i])})
             swapped == [mat EXCEPT ![i] = mat[pivot_row], ![pivot_row] = mat[i]]
             pivot == mat[pivot_row][i]
             signed == IF pivot_row # i THEN neg(pivot) ELSE pivot
             Reduced(row) ==
                 LET factor == cross_cancelled_div(row[i], pivot)
                 IN [k \in DOMAIN row |-> IF k < i THEN row[k]
                        ELSE cross_cancelled_sub(row[k], cross_cancelled_mul(factor, mat[pivot_row][k]))]
             next == [r \in DOMAIN mat |-> IF r > i THEN SubSeq(Reduced(swapped[r]), 1, Len(mat))
                                           ELSE swapped[r]]
         IN Eliminate(SubSeq(next, 1, Len(mat)), i + 1, cross_cancelled_mul(det, signed))

rational_matrix_det(mat) == Eliminate(mat, 1, from_integer(1))

Sylvester(a, b) ==
    LET n == degree(a)
        m == degree(b)
        Row(c, shift) == [k \in 1..(n + m) |-> coefficient(Reverse(c), k - shift)]
    IN [r \in 1..(n + m) |-> IF r <= m THEN Row(a, r - 1) ELSE Row(b, r - m - 1)]

resultant(a, b) ==
    CASE PolyIsZero(a) \/ PolyIsZero(b) -> from_integer(0)
      [] ~ (PolyIsZero(a) \/ PolyIsZero(b)) /\ degree(a) = 0 -> Only(RationalPow(leading_coeff(a), degree(b)))
      [] ~ (PolyIsZero(a) \/ PolyIsZero(b)) /\ degree(a) > 0 /\ degree(b) = 0 ->
             Only(RationalPow(leading_coeff(b), degree(a)))
      [] OTHER -> rational_matrix_det(Sylvester(a, b))

discriminant(a) ==
    IF degree(a) = 0 THEN from_integer(0)
    ELSE IF degree(a) = 1 THEN from_integer(1)
    ELSE LET n == degree(a)
             res == resultant(a, derivative(a))
         IN cross_cancelled_div(IF ((n * (n - 1)) \div 2) % 2 = 1 THEN neg(res) ELSE res, leading_coeff(a))

-----------------------------------------------------------------------------
(* What the results must be: evaluation is the reference for the            *)
(* arithmetic, common roots for resultants, divisibility for divisors.      *)

SamplePoints == {from_integer(n) : n \in -2..3}

ArithmeticExact(a, b) ==
    LET sum        == PolyAdd(a, b)
        difference == PolySub(a, b)
        product    == PolyMul(a, b)
        composed   == compose(a, b)
        shifted    == PolyShift(a, b[1])
        scaled     == scale_x(a, b[1])
        cube       == PolyPow(a, 3)
    IN \A v \in SamplePoints :
           LET x == Eval(a, v)
               y == Eval(b, v)
           IN /\ Eval(sum, v) = cross_cancelled_add(x, y)
              /\ Eval(difference, v) = cross_cancelled_sub(x, y)
              /\ Eval(product, v) = cross_cancelled_mul(x, y)
              /\ Eval(composed, v) = Eval(a, y)
              /\ Eval(shifted, v) = Eval(a, cross_cancelled_add(v, b[1]))
              /\ Eval(scaled, v) = Eval(a, cross_cancelled_mul(v, b[1]))
              /\ {Eval(cube, v)} = RationalPow(x, 3)

CalculusExact(a, b) ==
    /\ PolyPow(a, 0) = PolyOne
    /\ derivative(integrate(a, b[1])) = a
    /\ derivative(PolyMul(a, b)) = PolyAdd(PolyMul(derivative(a), b), PolyMul(a, derivative(b)))
    /\ a[1][1] # 0 => ReversePoly(ReversePoly(a)) = a
    /\ l2_norm_squared(a) = coefficient(PolyMul(a, Reverse(a)), Len(a))

\* The certificate of another pair is accepted only if it is this pair's greatest
\* common divisor as well.
DivisorsExact(a, b, c) ==
    LET Quotient(q, rem) == PolyAdd(PolyMul(q, b), rem) = a /\ (PolyIsZero(rem) \/ Len(rem) < Len(b))
        Certifies(cert) ==
            /\ cert.gcd = PolyGcd(a, b)
            /\ verify_bezout_certificate(a, b, cert)
            /\ \A forged \in {extended_gcd(a, c), [cert EXCEPT !.gcd = PolyOne],
                              [gcd |-> PolyZero, u |-> PolyZero, v |-> PolyZero],
                              [gcd |-> PolyAdd(a, b), u |-> PolyOne, v |-> PolyOne]} :
                   verify_bezout_certificate(a, b, forged) => forged.gcd = cert.gcd
    IN /\ PolyIsZero(b) \/ Quotient(div_rem(a, b)[1], div_rem(a, b)[2])
       /\ Certifies(extended_gcd(a, b))

ResultantsExact(a, b, c) ==
    /\ ~ (PolyIsZero(a) \/ PolyIsZero(b)) =>
           (is_zero(resultant(a, b)) <=> degree(PolyGcd(a, b)) > 0)
    /\ resultant(PolyMul(a, c), b) = cross_cancelled_mul(resultant(a, b), resultant(c, b))
    /\ degree(a) > 1 => (is_zero(discriminant(a)) <=> degree(PolyGcd(a, derivative(a))) > 0)
=============================================================================

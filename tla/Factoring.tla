------------------------------ MODULE Factoring ------------------------------
(***************************************************************************)
(* Factorization over the fractions (crates/fsym-polys/src/factorization.rs):*)
(* square-free parts (Yun), rational roots, Kronecker's interpolation and    *)
(* Zassenhaus with Hensel lifting, and the verifiers of their certificates.  *)
(*                                                                         *)
(* A refusal is {}.  A factorization is [scale, factors], factors being a    *)
(* sequence of [poly, multiplicity] and, when complete, witness: {} or {p}.  *)
(* Metering is left out (Budget models it), and so are the envelopes of bits *)
(* and of degrees; the order in which roots are found is not kept.          *)
(***************************************************************************)
EXTENDS FieldPolys

CONSTANTS NumeratorTrials, DenominatorTrials,     \* 500 and 100
          MaxKroneckerDegree, MaxKroneckerEvaluation, MaxKroneckerCandidates,
          PrimeAttempts, LiftPrimeAttempts        \* 24 and 16

expand(f) ==
    FoldLeft(LAMBDA prod, t : PolyMul(prod, PolyPow(t.poly, t.multiplicity)), <<f.scale>>, f.factors)

Term(a, multiplicity) == [poly |-> a, multiplicity |-> multiplicity]

-----------------------------------------------------------------------------
(* Square-free parts.                                                      *)

RECURSIVE YunLoop(_, _, _, _, _)

YunStep(w, y_sub_w_prime, a_i, i, factors, max_iterations) ==
    YunLoop(div_rem(w, a_i)[1], div_rem(y_sub_w_prime, a_i)[1], i + 1,
            IF PolyIsOne(a_i) THEN factors ELSE Append(factors, Term(a_i, i)), max_iterations)

YunReduced(w, y_sub_w_prime, i, factors, max_iterations) ==
    YunStep(w, y_sub_w_prime, PolyGcd(w, y_sub_w_prime), i, factors, max_iterations)

YunLoop(w, y, i, factors, max_iterations) ==
    IF PolyIsOne(w) THEN {factors}
    ELSE IF i > max_iterations \/ PolyIsZero(w) THEN {}
    ELSE YunReduced(w, PolySub(y, derivative(w)), i, factors, max_iterations)

\* c is the greatest common divisor of the polynomial and its derivative.
SquareFreeParts(monic_p, p_prime, c) ==
    IF degree(c) = 0 THEN {<<Term(monic_p, 1)>>}
    ELSE YunLoop(div_rem(monic_p, c)[1], div_rem(p_prime, c)[1], 1, <<>>, degree(monic_p))

square_free_decomposition(a) ==
    LET monic_p == to_monic(a)
        parts == IF PolyIsZero(a) \/ degree(a) = 0 THEN {<<>>}
                 ELSE SquareFreeParts(monic_p, derivative(monic_p), PolyGcd(monic_p, derivative(monic_p)))
    IN {[scale |-> leading_coeff(a), factors |-> p] : p \in parts}

\* The shape both verifiers admit before they multiply anything.
TermsAdmitted(factors, target_degree) ==
    /\ \A i \in DOMAIN factors :
           /\ factors[i].multiplicity > 0
           /\ degree(factors[i].poly) > 0
           /\ leading_coeff(factors[i].poly) = One
    /\ MapThenSumSet(LAMBDA i : degree(factors[i].poly) * factors[i].multiplicity, DOMAIN factors) = target_degree

verify_square_free_product_decomposition(a, f) ==
    /\ PolyIsZero(a) => f.factors = <<>>
    /\ is_zero(f.scale) <=> PolyIsZero(a)
    /\ TermsAdmitted(f.factors, degree(a))
    /\ expand(f) = a
    /\ \A i \in DOMAIN f.factors : PolyIsOne(PolyGcd(f.factors[i].poly, derivative(f.factors[i].poly)))
    /\ \A i, j \in DOMAIN f.factors : i < j => PolyIsOne(PolyGcd(f.factors[i].poly, f.factors[j].poly))

-----------------------------------------------------------------------------
(* Rational roots.                                                         *)

\* Divisors below the square root, at most so many tried, and their cofactors.
bounded_integer_divisors(n, max_trial_divisors) ==
    LET val == AbsoluteValue(n)
        small == {d \in 1..Min({val, max_trial_divisors}) : d * d <= val /\ val % d = 0}
    IN small \cup {val \div d : d \in small}

\* The coefficients times the least common multiple of their denominators.
ClearDenominators(a) ==
    LET lcm_den == FoldLeft(LAMBDA l, c : Quot(l * denom(c), metered_gcd(denom(c), l)), 1, a)
    IN [i \in DOMAIN a |-> numer(a[i]) * Quot(lcm_den, denom(a[i]))]

RECURSIVE WithoutZeroRoots(_)
WithoutZeroRoots(a) == IF degree(a) > 0 /\ is_zero(a[1]) THEN WithoutZeroRoots(div_rem(a, <<Zero, One>>)[1]) ELSE a

find_bounded_rational_roots(a) ==
    LET Candidates(z) == {Frac(sign * p, q) : sign \in {1, -1}, p \in bounded_integer_divisors(z[1], NumeratorTrials),
                                              q \in bounded_integer_divisors(Last(z), DenominatorTrials)}
        Roots(current) ==
            (IF current = a THEN {} ELSE {Zero})
              \cup IF degree(current) = 0 THEN {}
                   ELSE {r \in Candidates(ClearDenominators(current)) : is_zero(Eval(current, r))}
    IN Roots(WithoutZeroRoots(a))

\* <<rest, linear factors>>: a root is divided out as often as it divides.
RECURSIVE DivideOut(_, _, _)
DivideOut(rem, linear, factors) ==
    LET Divided(quotient, remainder) ==
            IF PolyIsZero(remainder) THEN DivideOut(quotient, linear, Append(factors, linear)) ELSE <<rem, factors>>
        Split(qr) == Divided(qr[1], qr[2])
    IN IF degree(rem) = 0 THEN <<rem, factors>> ELSE Split(div_rem(rem, linear))

\* The halves of a monic quadratic with the given discriminant, if it is a square.
QuadraticHalves(rem, discr) ==
    LET Half(q) == cross_cancelled_div(q, from_integer(2))
    IN {<<Linear(Half(cross_cancelled_sub(d, rem[2]))), Linear(Half(cross_cancelled_sub(neg(d), rem[2])))>> :
           d \in IF numer(discr) >= 0 THEN exact_sqrt(discr) ELSE {}}

SplitRemaining(rem, factors) ==
    LET discr == cross_cancelled_sub(cross_cancelled_mul(rem[2], rem[2]), cross_cancelled_mul(from_integer(4), rem[1]))
        WithHalves(halves) ==
            IF halves # {} THEN factors \o Only(halves)
            ELSE IF degree(rem) > 0 THEN Append(factors, rem) ELSE factors
    IN WithHalves(IF degree(rem) = 2 THEN QuadraticHalves(rem, discr) ELSE {})

split_bounded_rational_roots(a) ==
    LET Rest(divided) == SplitRemaining(divided[1], divided[2])
    IN Rest(FoldSet(LAMBDA r, acc : DivideOut(acc[1], Linear(r), acc[2]), <<a, <<>>>>,
                    find_bounded_rational_roots(a)))

\* A component met before adds to its multiplicity.
Merged(factors, t) ==
    LET same == {i \in DOMAIN factors : [factors[i] EXCEPT !.multiplicity = t.multiplicity] = t}
    IN IF same = {} THEN Append(factors, t)
       ELSE [factors EXCEPT ![Min(same)].multiplicity = @ + t.multiplicity]

bounded_rational_root_decomposition(a) ==
    LET Refined(sqf) ==
            [sqf EXCEPT !.factors = FoldLeft(LAMBDA acc, t :
                FoldLeft(LAMBDA inner, c : Merged(inner, Term(c, t.multiplicity)), acc,
                         split_bounded_rational_roots(t.poly)), <<>>, sqf.factors)]
    IN {r \in {Refined(sqf) : sqf \in square_free_decomposition(a)} : verify_square_free_product_decomposition(a, r)}

-----------------------------------------------------------------------------
(* Kronecker: interpolate a factor through divisors of a few values.        *)

kronecker_admit(a) ==
    /\ degree(a) <= MaxKroneckerDegree
    /\ \A i \in DOMAIN a : is_integer(a[i])
    /\ degree(a) > 0 => leading_coeff(a) = One

\* In ascending order.
kronecker_divisors(n) ==
    SelectSeq([k \in 1..(2 * n + 1) |-> k - n - 1], LAMBDA d : d # 0 /\ n % AbsoluteValue(d) = 0)

\* 0, 1, -1, 2, -2, ...
KroneckerPoint(index) == IF index % 2 = 1 THEN (index + 1) \div 2 ELSE -(index \div 2)

ValueAt(a, point) == numer(Eval(a, from_integer(point)))

LagrangeBasis(i, points) ==
    LET others == {j \in DOMAIN points : j # i}
        basis == FoldSet(LAMBDA j, acc : PolyMul(acc, Linear(from_integer(points[j]))), PolyOne, others)
        denominator == FoldSet(LAMBDA j, acc : acc * (points[i] - points[j]), 1, others)
    IN [k \in DOMAIN basis |-> cross_cancelled_div(basis[k], from_integer(denominator))]

\* The n-th tuple of divisors: the first position turns fastest.
RECURSIVE Odometer(_, _)
Odometer(n, divisors) ==
    IF divisors = <<>> THEN <<>>
    ELSE <<Head(divisors)[(n % Len(Head(divisors))) + 1]>> \o Odometer(n \div Len(Head(divisors)), Tail(divisors))

Interpolated(values, bases) ==
    FoldLeft(LAMBDA acc, i : [k \in DOMAIN acc |-> cross_cancelled_add(acc[k],
                                 cross_cancelled_mul(bases[i][k], from_integer(values[i])))],
             [k \in DOMAIN values |-> Zero], [i \in DOMAIN values |-> i])

IsCandidate(coeffs) == Last(coeffs) = One /\ \A k \in DOMAIN coeffs : is_integer(coeffs[k])

\* A factor of the given degree, and what is left of the candidates: <<{factor},
\* left>>; an exhausted search is {}.
KroneckerSearch(a, factor_degree, points, divisors, left) ==
    LET count == factor_degree + 1
        some == SubSeq(divisors, 1, count)
        Candidate(n, bases) == SubSeq(Interpolated(Odometer(n, some), bases), 1, count)
        Hit(c) == IsCandidate(c) /\ PolyIsZero(div_rem(a, c)[2])
        Outcome(bases, total, hits) ==
            IF hits # {} THEN {<<{Candidate(Min(hits), bases)}, left - Min(hits) - 1>>}
            ELSE IF total > left THEN {} ELSE {<<{}, left - total>>}
        Searched(bases, total) == Outcome(bases, total, {n \in 0..(Min({total, left}) - 1) : Hit(Candidate(n, bases))})
    IN Searched(SubSeq([i \in 1..count |-> LagrangeBasis(i, SubSeq(points, 1, count))], 1, count),
             FoldLeft(LAMBDA product, d : product * Len(d), 1, some))

RECURSIVE KroneckerDegrees(_, _, _, _, _)
KroneckerDegrees(a, factor_degree, points, divisors, left) ==
    IF factor_degree > degree(a) \div 2 THEN {<<{}, left>>}
    ELSE UNION {IF found[1] # {} THEN {found}
                ELSE KroneckerDegrees(a, factor_degree + 1, points, divisors, found[2]) :
                    found \in KroneckerSearch(a, factor_degree, points, divisors, left)}

\* <<pieces, candidates left>>.
RECURSIVE kronecker_split(_, _)
kronecker_split(a, left) ==
    LET tried == [k \in 1..(2 * MaxKroneckerDegree + 1) |-> KroneckerPoint(k - 1)]
        needed == degree(a) \div 2 + 1
        usable == SelectSeq(tried, LAMBDA x : AbsoluteValue(ValueAt(a, x)) <= MaxKroneckerEvaluation)
        points == SubSeq(usable, 1, Min({needed, Len(usable)}))
        divisors == SubSeq([k \in DOMAIN points |-> kronecker_divisors(AbsoluteValue(ValueAt(a, points[k])))],
                           1, Len(points))
        \* The first root is met before the points are complete, or not at all.
        roots == {k \in DOMAIN tried : ValueAt(a, tried[k]) = 0
                                         /\ Cardinality({j \in 1..(k - 1) : \E i \in DOMAIN points : points[i] = tried[j]}) < needed}
        After(first, second, budget) ==
            UNION {{<<l[1] \o r[1], r[2]>> : r \in kronecker_split(second, l[2])} : l \in kronecker_split(first, budget)}
        root == Linear(from_integer(tried[Min(roots)]))
    IN IF ~ kronecker_admit(a) THEN {}
       ELSE IF degree(a) <= 1 THEN {<<IF degree(a) = 1 THEN <<a>> ELSE <<>>, left>>}
       ELSE IF roots # {} THEN {<<<<root>> \o r[1], r[2]>> : r \in kronecker_split(div_rem(a, root)[1], left)}
       ELSE IF Len(points) < needed THEN {}
       ELSE UNION {IF found[1] = {} THEN {<<<<a>>, found[2]>>}
                   ELSE After(Only(found[1]), div_rem(a, Only(found[1]))[1], found[2]) :
                       found \in KroneckerDegrees(a, 1, points, divisors, left)}

\* The pieces are sorted in the code; here they are merged in any order.
kronecker_factorization(a) ==
    IF ~ kronecker_admit(a) THEN {}
    ELSE IF degree(a) = 0 THEN {[scale |-> a[1], factors |-> <<>>]}
    ELSE {[scale |-> One, factors |-> FoldLeft(LAMBDA acc, piece : Merged(acc, Term(piece, 1)), <<>>, r[1])] :
             r \in kronecker_split(a, MaxKroneckerCandidates)}

-----------------------------------------------------------------------------
(* Zassenhaus: factor modulo a prime, lift, recombine.                      *)

RECURSIVE Streamed(_)
Streamed(n) == IF n = 0 THEN NewPrimeStream ELSE next_metered(Streamed(n - 1))

StreamPrimes == Streamed(Max({PrimeAttempts, LiftPrimeAttempts})).emitted

\* The first prime modulo which the polynomial stays irreducible; {} if none is met.
irreducibility_witness(z) ==
    LET proving == {k \in 1..PrimeAttempts : /\ Rem(Last(z), StreamPrimes[k]) # 0
                                             /\ fp_rabin_irreducible(z_to_fp(z, StreamPrimes[k]), StreamPrimes[k])}
    IN IF proving = {} THEN {} ELSE {StreamPrimes[Min(proving)]}

\* Every factor but the last is split off the rest and lifted.
RECURSIVE LiftFactors(_, _, _, _)
LiftFactors(base, modp_factors, p, target) ==
    IF Len(modp_factors) = 1 THEN <<z_trim(base)>>
    ELSE LET u == Head(modp_factors)
             Then(lifted) == <<lifted[1]>> \o LiftFactors(lifted[2], Tail(modp_factors), p, target)
         IN Then(hensel_lift_pair(base, u, fp_div_monic(z_to_fp(base, p), u, p), p, target))

RECURSIVE recombine_monic(_, _, _, _)
recombine_monic(remaining, pool, lifted, pe) ==
    LET Candidate(combo) ==
            z_trim(z_symmetric_reduce(FoldLeft(LAMBDA prod, i : z_mul(prod, lifted[i]), <<1>>, combo), pe))
        Dividing(size) ==
            {combo \in {SetToSortSeq(c, <) : c \in kSubset(size, pool)} :
                LET cand == Candidate(combo) IN Len(cand) > 1 /\ z_div_monic(remaining, cand) # {}}
        sizes == {size \in 1..(Cardinality(pool) \div 2) : Dividing(size) # {}}
        first == Head(SetToSortSeq(Dividing(Min(sizes)), ResiduesLess))
    IN IF Len(remaining) <= 1 THEN <<>>
       ELSE IF sizes = {} THEN <<remaining>>
       ELSE <<Candidate(first)>> \o recombine_monic(Only(z_div_monic(remaining, Candidate(first))),
                                                   pool \ Range(first), lifted, pe)

ModpFactors(z, p) ==
    IF p < 3 \/ Len(z_to_fp(z, p)) # Len(z) \/ ~ fp_is_squarefree(z_to_fp(z, p), p) THEN {}
    ELSE {f \in fp_factor_squarefree(z_to_fp(z, p), p) : Len(f) <= MaxModpFactors}

RecombineLifted(z, lifted, target) == recombine_monic(z, DOMAIN lifted, lifted, target)

LiftAndRecombine(z, modp_factors, p, target) == RecombineLifted(z, LiftFactors(z, modp_factors, p, target), target)

\* From the k-th prime on, the first one that keeps the degree and square-freeness.
RECURSIVE ZassenhausFrom(_, _)

ZassenhausWith(z, factors, p, k) ==
    IF factors = {} THEN ZassenhausFrom(z, k + 1)
    ELSE {LiftAndRecombine(z, Only(factors), p, PowerAbove(p, p, 2 * mignotte_bound(z) + 1))}

ZassenhausFrom(z, k) ==
    IF k > LiftPrimeAttempts THEN {} ELSE ZassenhausWith(z, ModpFactors(z, StreamPrimes[k]), StreamPrimes[k], k)

zassenhaus_monic(z) ==
    IF Len(z) = 1 THEN {<<>>} ELSE IF Len(z) = 2 THEN {<<z>>} ELSE ZassenhausFrom(z, 1)

PrimitivePart(z) == [i \in DOMAIN z |-> Quot(z[i], content(z))]

\* The factors of an integer polynomial with leading coefficient lead_a, made monic
\* by x -> x/lead_a, are mapped back.
MonicInt(z_int, lead_a, d) ==
    SubSeq([k \in DOMAIN z_int |-> IF k > d THEN 1 ELSE z_int[k] * IntegerPower(lead_a, d - k)], 1, d + 1)

MappedBack(z, lead_a) == [k \in DOMAIN z |-> z[k] * IntegerPower(lead_a, k - 1)]

WitnessedFactor(z) ==
    [poly |-> to_monic(Poly([k \in DOMAIN z |-> from_integer(z[k])])), multiplicity |-> 1,
     witness |-> irreducibility_witness(z)]

WitnessedFactors(zs, lead_a, first_scale) ==
    <<FoldLeft(LAMBDA s, z : cross_cancelled_mul(s, from_integer(Last(MappedBack(z, lead_a)))), first_scale, zs),
      [k \in DOMAIN zs |-> WitnessedFactor(PrimitivePart(MappedBack(zs[k], lead_a)))]>>

FactorInteger(part, cleared, z_int) ==
    LET d == degree(part)
        lead_a == Last(z_int)
        first_scale == cross_cancelled_mul(cross_cancelled_div(
                           cross_cancelled_mul(leading_coeff(part), from_integer(content(cleared))),
                           from_integer(Last(cleared))), Only(RationalPow(from_integer(lead_a), 1 - d)))
    IN {WitnessedFactors(zs, lead_a, first_scale) : zs \in zassenhaus_monic(MonicInt(z_int, lead_a, d))}

FactorCleared(part, cleared) == FactorInteger(part, cleared, PrimitivePart(cleared))

\* The scale and the monic factors of a square-free part, with their witnesses.
factor_squarefree_part(part) ==
    IF degree(part) = 0 THEN {<<part[1], <<>>>>} ELSE FactorCleared(part, ClearDenominators(to_monic(part)))

verify_complete_factorization(a, f) ==
    /\ is_zero(f.scale) => f.factors = <<>>
    /\ TermsAdmitted(f.factors, degree(a))
    /\ \A i \in DOMAIN f.factors : \A p \in f.factors[i].witness : p > 0
    /\ f.scale = leading_coeff(a)
    /\ expand(f) = a
    /\ \A i \in DOMAIN f.factors :
           LET t == f.factors[i]
           IN IF t.witness # {} THEN verify_irreducible_mod_prime(ClearDenominators(t.poly), Only(t.witness))
              ELSE ~ is_zero(resultant(t.poly, derivative(t.poly)))
    /\ \A i, j \in DOMAIN f.factors : i < j => ~ is_zero(resultant(f.factors[i].poly, f.factors[j].poly))

verify_certified_irreducible_factorization(a, f) ==
    /\ verify_complete_factorization(a, f)
    /\ \A i \in DOMAIN f.factors : degree(f.factors[i].poly) >= 2 => f.factors[i].witness # {}

\* The parts of a square-free decomposition one after another; what does not verify
\* is refused.
RECURSIVE CompleteParts(_, _)
CompleteParts(terms, result) ==
    IF terms = <<>> THEN {result}
    ELSE UNION {CompleteParts(Tail(terms),
                    [scale |-> cross_cancelled_mul(result.scale, Only(RationalPow(p[1], Head(terms).multiplicity))),
                     factors |-> FoldLeft(LAMBDA acc, t : Merged(acc, [t EXCEPT !.multiplicity = Head(terms).multiplicity]),
                                          result.factors, p[2])]) :
                  p \in factor_squarefree_part(Head(terms).poly)}

complete_factorization(a) ==
    IF PolyIsZero(a) \/ degree(a) = 0 THEN {[scale |-> a[1], factors |-> <<>>]}
    ELSE {f \in UNION {CompleteParts(s.factors, [scale |-> s.scale, factors |-> <<>>]) :
                          s \in square_free_decomposition(a)} : verify_complete_factorization(a, f)}

-----------------------------------------------------------------------------
(* What a factorization must be, by trying every divisor.                   *)

\* Divisors of degree one or two with integer coefficients; a root is at most R.
SmallDivisors(a) ==
    LET z == ClearDenominators(a)
        R == 1 + Max({AbsoluteValue(z[i]) : i \in DOMAIN z}) \div AbsoluteValue(Last(z)) + 1
        Of(n) == {d \in 1..AbsoluteValue(n) : n % d = 0}
        Ends == {<<s * c, l>> : s \in {1, -1}, c \in Of(z[1]), l \in Of(Last(z))}
        Whole(s) == [k \in DOMAIN s |-> from_integer(s[k])]
    IN {g \in {Whole(e) : e \in Ends} \cup (IF degree(a) < 4 THEN {}
                  ELSE UNION {{Whole(<<e[1], b, e[2]>>) : b \in (-2 * e[2] * R)..(2 * e[2] * R)} : e \in Ends}) :
           PolyIsZero(div_rem(a, g)[2])}

\* Of a monic polynomial of degree at most four.
IrreducibleOver(a) == degree(a) = 1 \/ (~ is_zero(a[1]) /\ SmallDivisors(a) = {})

Forgeries(f) ==
    LET n == Len(f.factors)
        poly == f.factors[1].poly
    IN IF n = 0 THEN {}
       ELSE {[f EXCEPT !.factors[1].witness = {p}] : p \in {1, 2, 3, 4, 5, 7}}
              \cup {[f EXCEPT !.factors[1] = [poly |-> PolyMul(poly, poly), multiplicity |-> 1, witness |-> w]] :
                       w \in {f.factors[1].witness, {2}, {3}}}
              \cup {[f EXCEPT !.factors = Append(@, f.factors[1])],
                    [f EXCEPT !.factors[1].multiplicity = 0, !.factors = Append(@, f.factors[1])]}
              \cup {[scale |-> f.scale, factors |->
                        <<[poly |-> PolyMul(poly, f.factors[2].poly), multiplicity |-> 1, witness |-> w]>>
                          \o SubSeq(f.factors, 3, n)] : w \in IF n > 1 THEN {{}, {2}, {3}, {5}, {7}} ELSE {}}

\* A witness's prime divides the leading coefficient, so that the degree drops modulo
\* it.  irreducibility_witness takes no such prime; a forged certificate may.
DegreeDrops(f) ==
    \E i \in DOMAIN f.factors : \E p \in f.factors[i].witness : Last(ClearDenominators(f.factors[i].poly)) % p = 0

SquareFreeExact(a) ==
    \E f \in square_free_decomposition(a) :
        /\ verify_square_free_product_decomposition(a, f)
        /\ \A i, j \in DOMAIN f.factors : i < j => f.factors[i].multiplicity < f.factors[j].multiplicity

\* A root the trials reach is not left inside another factor.
RationalRootsFound(a) ==
    LET Reached(z) == AbsoluteValue(z[1]) <= NumeratorTrials * NumeratorTrials
                        /\ AbsoluteValue(Last(z)) <= DenominatorTrials * DenominatorTrials
    IN \E f \in bounded_rational_root_decomposition(a) : \A i \in DOMAIN f.factors :
              LET b == f.factors[i].poly
              IN degree(b) \in {2, 3} /\ Reached(ClearDenominators(a)) => IrreducibleOver(b)

\* Accepted factors are irreducible when witnessed and square-free when not.
AcceptedSound(a, f) ==
    verify_complete_factorization(a, f) =>
        /\ \A i \in DOMAIN f.factors :
               LET b == f.factors[i].poly
               IN IF f.factors[i].witness = {} THEN PolyIsOne(PolyGcd(b, derivative(b))) ELSE IrreducibleOver(b)
        /\ \A i, j \in DOMAIN f.factors : i < j => PolyIsOne(PolyGcd(f.factors[i].poly, f.factors[j].poly))

Terms(f) == {<<f.factors[i].poly, f.factors[i].multiplicity>> : i \in DOMAIN f.factors}

\* A certified factorization is the factorization.
CertifiedUnique(a, f, forged) ==
    verify_certified_irreducible_factorization(a, forged) => Terms(forged) = Terms(f)

CertificatesHold(a, f, certificates) ==
    \A forged \in certificates : AcceptedSound(a, forged) /\ CertifiedUnique(a, f, forged)

CompleteExact(a) ==
    \E f \in complete_factorization(a) :
        /\ \A i \in DOMAIN f.factors : IrreducibleOver(f.factors[i].poly)
        /\ CertificatesHold(a, f, {forged \in Forgeries(f) : ~ DegreeDrops(forged)})
        /\ degree(a) > 0 => \A k \in kronecker_factorization(a) : expand(k) = a /\ Terms(k) = Terms(f)
=============================================================================

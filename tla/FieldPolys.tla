----------------------------- MODULE FieldPolys -----------------------------
(***************************************************************************)
(* The modular and integer layers under complete factorization              *)
(* (crates/fsym-polys/src/factorization.rs): polynomials over a prime field  *)
(* are sequences of residues, the zero polynomial is empty; integer           *)
(* polynomials are nonempty sequences.                                      *)
(*                                                                         *)
(* The splitting of equal degrees draws from a 64-bit linear congruential   *)
(* generator; its width and coefficients are parameters here.              *)
(***************************************************************************)
EXTENDS UniPolys

CONSTANTS EdfModulus, EdfMultiplier, EdfIncrement, EdfSeedFactor,   \* the generator
          EdfShift,             \* states are shifted by this factor before a draw
          EdfSeedBudget,        \* EDF_SEED_BUDGET
          MaxModpFactors        \* MAX_MODP_FACTORS

ResidueAt(v, i) == IF i \in DOMAIN v THEN v[i] ELSE 0

\* The sequence without its last n elements, evaluated.
Shortened(v, n) == SubSeq(v, 1, Len(v) - n)

fp_trim(v) ==
    LET nonzero == {i \in DOMAIN v : v[i] # 0} IN IF nonzero = {} THEN <<>> ELSE SubSeq(v, 1, Max(nonzero))

fp_sub(a, b, p) ==
    fp_trim([i \in 1..Max({Len(a), Len(b)}) |-> (ResidueAt(a, i) + p - (ResidueAt(b, i) % p)) % p])

fp_add(a, b, p) == fp_trim([i \in 1..Max({Len(a), Len(b)}) |-> (ResidueAt(a, i) + ResidueAt(b, i)) % p])

Convolution(a, b) ==
    [k \in 1..(Len(a) + Len(b) - 1) |->
        MapThenSumSet(LAMBDA i : a[i] * b[k + 1 - i], {i \in DOMAIN a : k + 1 - i \in DOMAIN b})]

fp_mul(a, b, p) ==
    IF <<>> \in {a, b} THEN <<>>
    ELSE LET product == Convolution(a, b) IN fp_trim([k \in DOMAIN product |-> product[k] % p])

RECURSIVE fp_scalar_pow(_, _, _)
fp_scalar_pow(base, exp, p) ==
    IF exp = 0 THEN 1
    ELSE LET rest == fp_scalar_pow(((base % p) * (base % p)) % p, exp \div 2, p)
         IN IF exp % 2 = 1 THEN (rest * (base % p)) % p ELSE rest

\* Of zero it is an assertion in a debug build and this value in a release build.
fp_scalar_inverse(a, p) == fp_scalar_pow(a, p - 2, p)

Scaled(v, factor, p) == [i \in DOMAIN v |-> (v[i] * factor) % p]

\* Subtract factor * x^shift * f and drop the leading coefficient.
Cancelled(v, factor, f, p) ==
    LET shift == Len(v) - Len(f)
    IN Shortened([i \in DOMAIN v |-> IF i > shift THEN (v[i] + p - ((factor * f[i - shift]) % p)) % p
                                     ELSE v[i]], 1)

RECURSIVE RemainderLoop(_, _, _, _)
RemainderLoop(out, f, inv_lead, p) ==
    IF Len(out) < Len(f) \/ \A i \in DOMAIN out : out[i] = 0 THEN fp_trim(out)
    ELSE RemainderLoop(Cancelled(out, (Last(out) * inv_lead) % p, f, p), f, inv_lead, p)

fp_rem_monic(a, f, p) ==
    IF f = <<>> THEN a ELSE RemainderLoop(a, f, fp_scalar_inverse(Last(f), p), p)

RECURSIVE QuotientLoop(_, _, _, _)
QuotientLoop(rem, b, q, p) ==
    IF Len(rem) < Len(b) \/ rem = <<>> THEN fp_trim(q)
    ELSE QuotientLoop(Cancelled(rem, Last(rem), b, p), b, <<Last(rem)>> \o q, p)

fp_div_monic(a, b, p) == QuotientLoop(a, b, <<>>, p)

RECURSIVE PowModLoop(_, _, _, _, _)
PowModLoop(result, squares, exp, f, p) ==
    IF exp = 0 THEN result
    ELSE PowModLoop(IF exp % 2 = 1 THEN fp_rem_monic(fp_mul(result, squares, p), f, p) ELSE result,
                    fp_rem_monic(fp_mul(squares, squares, p), f, p), exp \div 2, f, p)

fp_pow_mod(base, exp, f, p) ==
    PowModLoop(fp_rem_monic(<<1>>, f, p), fp_rem_monic(base, f, p), exp, f, p)

fp_scalar_pow_poly(base, exp, f, p) == PowModLoop(fp_rem_monic(<<1>>, f, p), base, exp, f, p)

RECURSIVE FpEuclid(_, _, _)
FpEuclid(a, b, p) == IF b = <<>> THEN a ELSE FpEuclid(b, fp_rem_monic(a, b, p), p)

fp_gcd(a, b, p) ==
    LET g == FpEuclid(a, b, p) IN IF g = <<>> THEN g ELSE Scaled(g, fp_scalar_inverse(Last(g), p), p)

fp_derivative(a, p) ==
    IF Len(a) <= 1 THEN <<>> ELSE fp_trim([i \in 1..(Len(a) - 1) |-> (a[i + 1] * i) % p])

fp_is_squarefree(f, p) == Len(f) <= 2 \/ Len(fp_gcd(f, fp_derivative(f, p), p)) <= 1

X == <<0, 1>>

\* x^(p^k) modulo f.
RECURSIVE Frobenius(_, _, _)
Frobenius(k, f, p) == IF k = 0 THEN X ELSE fp_pow_mod(Frobenius(k - 1, f, p), p, f, p)

NoFixedPoints(k, f, p) == Len(fp_gcd(fp_sub(Frobenius(k, f, p), X, p), f, p)) <= 1

fp_rabin_irreducible(f, p) ==
    LET d == Len(f) - 1
    IN \/ d = 1
       \/ /\ d > 1 /\ Frobenius(d, f, p) = X
          /\ \A ell \in {2, 3, 5, 7, 11, 13, 17, 19, 23, 29, 31, 37, 41, 43, 47, 53, 59, 61} :
                 d % ell = 0 => NoFixedPoints(d \div ell, f, p)

-----------------------------------------------------------------------------
(* Factors modulo p: by degree, then by random splitting.                  *)

ClassRest(left) == IF Len(left) > 1 THEN {<<Len(left) - 1, left>>} ELSE {}

RECURSIVE DegreeClasses(_, _, _, _, _)

\* g holds the factors of the next degree.
NextClass(remaining, next_frob, g, degree_done, classes, p) ==
    LET left  == IF Len(g) > 1 THEN fp_div_monic(remaining, g, p) ELSE remaining
        found == IF Len(g) > 1 THEN classes \cup {<<degree_done + 1, g>>} ELSE classes
    IN IF 2 * (degree_done + 1) > Len(left) - 1 THEN found \cup ClassRest(left)
       ELSE DegreeClasses(left, fp_rem_monic(next_frob, left, p), degree_done + 1, found, p)

FixedByFrobenius(remaining, next_frob, degree_done, classes, p) ==
    NextClass(remaining, next_frob, fp_gcd(fp_sub(next_frob, X, p), remaining, p), degree_done, classes, p)

DegreeClasses(remaining, frob, degree_done, classes, p) ==
    IF Len(remaining) <= 2 THEN classes \cup ClassRest(remaining)
    ELSE FixedByFrobenius(remaining, fp_pow_mod(frob, p, remaining, p), degree_done, classes, p)

fp_distinct_degree(f, p) == DegreeClasses(f, X, 0, {}, p)

Lcg(state) == (state * EdfMultiplier + EdfIncrement) % EdfModulus

\* n draws below bound: <<draws, state>>.
RECURSIVE Draws(_, _, _, _)
Draws(n, bound, state, drawn) ==
    IF n = 0 THEN <<drawn, state>>
    ELSE LET next == Lcg(state) IN Draws(n - 1, bound, next, Append(drawn, (next \div EdfShift) % bound))

\* r * r^p * ... * r^(p^(class_degree - 1)) modulo h.
RECURSIVE FrobeniusProduct(_, _, _, _, _)
FrobeniusProduct(product, frob, left, h, p) ==
    IF left = 0 THEN product
    ELSE LET next == fp_pow_mod(frob, p, h, p)
         IN FrobeniusProduct(fp_rem_monic(fp_mul(product, next, p), h, p), next, left - 1, h, p)

SplitPower(r, h, class_degree, p) ==
    fp_scalar_pow_poly(FrobeniusProduct(r, r, class_degree - 1, h, p), (p - 1) \div 2, h, p)

\* The halves if the drawn residue splits h.
ProperSplit(g, h, p) == IF Len(g) > 1 /\ Len(g) < Len(h) THEN {<<g, fp_div_monic(h, g, p)>>} ELSE {}

SplitWith(r, h, class_degree, p) ==
    IF r = <<>> THEN {}
    ELSE ProperSplit(fp_gcd(fp_sub(SplitPower(r, h, class_degree, p), <<1>>, p), h, p), h, p)

RECURSIVE SplitAttempts(_, _, _, _, _)
SplitAttempts(h, class_degree, p, state, left) ==
    LET drawn == Draws(Len(h) - 1, p, state, <<>>)
        OrAgain(halves) == IF halves # {} THEN halves ELSE SplitAttempts(h, class_degree, p, drawn[2], left - 1)
    IN IF left = 0 THEN {} ELSE OrAgain(SplitWith(fp_trim(drawn[1]), h, class_degree, p))

\* {} when the seed budget is exhausted.
fp_equal_degree_split(h, class_degree, p, seed) ==
    IF Len(h) - 1 = class_degree THEN {<<h, <<1>>>>}
    ELSE LET state == Lcg(seed % EdfModulus)
         IN SplitAttempts(h, class_degree, p, IF state % 2 = 0 THEN state + 1 ELSE state, EdfSeedBudget)

RECURSIVE SplitClass(_, _, _)
SplitClass(current, class_degree, p) ==
    IF Len(current) <= 1 THEN {{}}
    ELSE IF Len(current) - 1 = class_degree THEN {{current}}
    ELSE LET halves == fp_equal_degree_split(current, class_degree, p, (p * EdfSeedFactor + class_degree) * 31)
         IN UNION {{l \cup r : l \in SplitClass(h[1], class_degree, p), r \in SplitClass(h[2], class_degree, p)} :
                      h \in halves}

ResiduesLess(a, b) ==
    \/ Len(a) < Len(b) /\ a = SubSeq(b, 1, Len(a))
    \/ \E i \in DOMAIN a \cap DOMAIN b : a[i] < b[i] /\ \A j \in 1..(i - 1) : a[j] = b[j]

SortedFactors(splits) == IF {} \in splits THEN {} ELSE {SetToSortSeq(UNION UNION splits, ResiduesLess)}

\* The sorted factors; {} when a class could not be split.
fp_factor_squarefree(f, p) ==
    IF Len(f) <= 1 THEN {<<>>}
    ELSE IF ~ fp_is_squarefree(f, p) THEN {}
    ELSE SortedFactors({SplitClass(c[2], c[1], p) : c \in fp_distinct_degree(f, p)})

-----------------------------------------------------------------------------
(* Integer polynomials.                                                    *)

z_trim(v) == LET t == fp_trim(v) IN IF t = <<>> THEN <<0>> ELSE t

z_add(a, b) == z_trim([i \in 1..Max({Len(a), Len(b)}) |-> ResidueAt(a, i) + ResidueAt(b, i)])

z_mul(a, b) == IF <<0>> \in {a, b} THEN <<0>> ELSE z_trim(Convolution(a, b))

z_symmetric_reduce(v, m) ==
    [i \in DOMAIN v |-> IF Rem(v[i], m) > Quot(m, 2) THEN Rem(v[i], m) - m ELSE Rem(v[i], m)]

\* Division by a monic polynomial; {} unless it is exact.
RECURSIVE ZDivideLoop(_, _, _)
ZDivideLoop(rem, monic, q) ==
    IF Len(rem) < Len(monic) THEN IF z_trim(rem) = <<0>> THEN {z_trim(q)} ELSE {}
    ELSE LET shift == Len(rem) - Len(monic)
             next == [i \in DOMAIN rem |-> IF i > shift THEN rem[i] - Last(rem) * monic[i - shift] ELSE rem[i]]
         IN ZDivideLoop(z_trim(Shortened(next, 1)), monic, [q EXCEPT ![shift + 1] = Last(rem)])

z_div_monic(a, monic) ==
    IF Len(a) < Len(monic) THEN {} ELSE ZDivideLoop(a, monic, [i \in 1..(Len(a) - Len(monic) + 1) |-> 0])

\* As many residues as there were coefficients: nothing is trimmed.
z_to_fp(v, p) == [i \in DOMAIN v |-> normalized_remainder(v[i], p)]

content(v) == FoldLeft(LAMBDA g, c : metered_gcd(g, c), v[1], Tail(v))

-----------------------------------------------------------------------------
(* Hensel lifting.                                                         *)

RECURSIVE FpBezout(_, _, _, _, _, _, _)
FpBezout(r0, r1, s0, s1, t0, t1, p) ==
    IF r1 = <<>> THEN LET inv == fp_scalar_inverse(Last(r0), p) IN <<Scaled(s0, inv, p), Scaled(t0, inv, p)>>
    ELSE LET inv == fp_scalar_inverse(Last(r1), p)
             r == Scaled(r1, inv, p)
             s == Scaled(s1, inv, p)
             t == Scaled(t1, inv, p)
             q == fp_div_monic(r0, r, p)
         IN FpBezout(r, fp_rem_monic(r0, r, p), s, fp_sub(s0, fp_mul(q, s, p), p),
                     t, fp_sub(t0, fp_mul(q, t, p), p), p)

fp_bezout(a, b, p) == FpBezout(a, b, <<1>>, <<>>, <<>>, <<1>>, p)

RECURSIVE LiftLoop(_, _, _, _, _, _, _, _, _)
LiftLoop(base, u, v, bezout, p, target, big_u, big_v, m) ==
    IF m >= target THEN <<big_u, big_v>>
    ELSE LET product == z_mul(big_u, big_v)
             c == z_to_fp([i \in 1..Min({Len(base), Len(product)}) |-> Quot(base[i] - product[i], m)], p)
             alpha_raw == fp_mul(c, bezout[2], p)
             alpha == fp_rem_monic(alpha_raw, u, p)
             beta == fp_add(fp_mul(c, bezout[1], p), fp_mul(fp_div_monic(alpha_raw, u, p), v, p), p)
         IN LiftLoop(base, u, v, bezout, p, target,
                     z_add(big_u, [i \in DOMAIN alpha |-> m * alpha[i]]),
                     z_add(big_v, [i \in DOMAIN beta |-> m * beta[i]]), m * p)

hensel_lift_pair(base, u, v, p, target) == LiftLoop(base, u, v, fp_bezout(u, v, p), p, target, u, v, p)

Binomial(n, k) == FoldLeft(LAMBDA acc, i : (acc * (n - i + 1)) \div i, 1, [i \in 1..k |-> i])

mignotte_bound(z) ==
    Binomial(Len(z) - 1, (Len(z) - 1) \div 2) * Len(z) * Max({AbsoluteValue(z[i]) : i \in DOMAIN z})

RECURSIVE PowerAbove(_, _, _)
PowerAbove(power, p, bound) == IF power > bound THEN power ELSE PowerAbove(power * p, p, bound)

-----------------------------------------------------------------------------
(* The verifier's irreducibility check, coded apart from the generator's.   *)

RECURSIVE PrimeDivisors(_, _)
PrimeDivisors(n, d) ==
    IF n = 1 THEN {}
    ELSE IF d * d > n THEN {n}
    ELSE IF n % d = 0 THEN {d} \cup PrimeDivisors(n \div d, d) ELSE PrimeDivisors(n, d + 1)

prime_divisors_u64(n) == PrimeDivisors(n, 2)

\* Trial division by the numbers next to multiples of six.
is_u64_prime(n) ==
    /\ n >= 2
    /\ \/ n \in {2, 3}
       \/ /\ n % 2 # 0 /\ n % 3 # 0
          /\ \A d \in {k \in 5..Max({5, n \div 5}) : k % 6 = 5 /\ k * k <= n} : n % d # 0 /\ n % (d + 2) # 0

\* Mutant: the fixed points of the powers of Frobenius are not looked for.
Mutverify_irreducible_mod_prime(int_poly, prime) ==
    /\ prime >= 2 /\ is_u64_prime(prime) /\ is_probable_prime(prime) /\ Len(int_poly) > 1
    /\ LET f == z_to_fp(int_poly, prime)
       IN /\ Len(fp_gcd(f, fp_derivative(f, prime), prime)) <= 1
          /\ Frobenius(Len(f) - 1, f, prime) = fp_rem_monic(X, f, prime)

verify_irreducible_mod_prime(int_poly, prime) ==
    /\ prime >= 2 /\ is_u64_prime(prime) /\ is_probable_prime(prime) /\ Len(int_poly) > 1
    /\ LET f == z_to_fp(int_poly, prime)
           d == Len(f) - 1
       IN /\ Len(fp_gcd(f, fp_derivative(f, prime), prime)) <= 1
          /\ Frobenius(d, f, prime) = fp_rem_monic(X, f, prime)
          /\ \A ell \in prime_divisors_u64(d) : NoFixedPoints(d \div ell, f, prime)
=============================================================================

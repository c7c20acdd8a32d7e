------------------------------- MODULE Modular -------------------------------
(***************************************************************************)
(* Exact roots (crates/fsym-bigint/src/lib.rs) and modular arithmetic       *)
(* (crates/fsym-modular/src/lib.rs): Euclid, inverses, Chinese remainders,  *)
(* rational reconstruction, primality, quadratic symbols, batch inversion,  *)
(* the Montgomery and Barrett reducers and the prime stream.                *)
(*                                                                         *)
(* Operators follow the metered lanes; where the plain lane computes        *)
(* differently it has an operator of its own.  An optional result is a set  *)
(* of at most one element.                                                 *)
(***************************************************************************)
EXTENDS Limbs

\* Division of the number substrate: truncated toward zero.
Quot(n, d) == Sign(n) * Sign(d) * (AbsoluteValue(n) \div AbsoluteValue(d))
Rem(n, d)  == n - d * Quot(n, d)

normalized_remainder(n, m) == IF Rem(n, m) < 0 THEN Rem(n, m) + m ELSE Rem(n, m)

-----------------------------------------------------------------------------
(* Roots and powers.                                                       *)

RECURSIVE NewtonRoot(_, _)
NewtonRoot(value, current) ==
    LET next == Quot(current + Quot(value, current), 2)
    IN IF next >= current THEN current ELSE NewtonRoot(value, next)

metered_sqrt_floor(value) ==
    IF value < 0 THEN {} ELSE IF value = 0 THEN {0} ELSE {NewtonRoot(value, value)}

\* The product unless it would exceed the limit.
metered_multiply_capped(x, y, limit) == IF x > Quot(limit, y) THEN {} ELSE {x * y}

\* -1, 0 or 1: base^exponent against the limit, without computing a larger power.
RECURSIVE PowerToLimit(_, _, _, _)
PowerToLimit(result, factor, remaining, limit) ==
    IF remaining = 0 THEN Sign(result - limit)
    ELSE LET products == IF remaining % 2 = 1 THEN metered_multiply_capped(result, factor, limit) ELSE {result}
             squares  == IF remaining \div 2 = 0 THEN {factor} ELSE metered_multiply_capped(factor, factor, limit)
         IN IF {} \in {products, squares} THEN 1
            ELSE PowerToLimit(Max(products), Max(squares), remaining \div 2, limit)

metered_compare_power_to_limit(base, exponent, limit) == PowerToLimit(1, base, exponent, limit)

RECURSIVE BisectRoot(_, _, _, _)
BisectRoot(low, high, magnitude, degree) ==
    LET middle == (low + high) \div 2
        order  == metered_compare_power_to_limit(middle, degree, magnitude)
    IN CASE middle = low -> <<low, FALSE>>
         [] middle # low /\ order = 0  -> <<middle, TRUE>>
         [] middle # low /\ order = -1 -> BisectRoot(middle, high, magnitude, degree)
         [] middle # low /\ order = 1  -> BisectRoot(low, middle, magnitude, degree)

metered_positive_nth_root_floor(magnitude, degree) ==
    BisectRoot(1, 2^CeilDiv(BitLength(magnitude), degree), magnitude, degree)

NegativeRoot(root, exact) == IF exact THEN -root ELSE -(root + 1)

\* <<floor of the degree-th root, whether it is exact>>.
metered_nth_root_floor(value, degree) ==
    LET magnitude == AbsoluteValue(value)
        root == CASE degree = 2 -> LET r == Max(metered_sqrt_floor(magnitude)) IN <<r, r * r = magnitude>>
                  [] degree # 2 /\ degree >= BitLength(magnitude) -> <<1, FALSE>>
                  [] OTHER -> metered_positive_nth_root_floor(magnitude, degree)
    IN IF degree = 0 \/ (value < 0 /\ degree % 2 = 0) THEN {}
       ELSE IF degree = 1 \/ value \in {-1, 0, 1} THEN {<<value, TRUE>>}
       ELSE {<<IF value < 0 THEN NegativeRoot(root[1], root[2]) ELSE root[1], root[2]>>}

greatest_possible_power_degree(value, max_degree) ==
    LET bits  == BitLength(AbsoluteValue(value))
        upper == Min({max_degree, bits - 1})
        odd   == IF value < 0 /\ upper % 2 = 0 THEN upper - 1 ELSE upper
    IN IF max_degree < 2 \/ bits <= 1 \/ odd < (IF value < 0 THEN 3 ELSE 2) THEN {} ELSE {odd}

RECURSIVE PerfectPowerFrom(_, _)
PerfectPowerFrom(value, degree) ==
    LET step == IF value < 0 THEN 2 ELSE 1
        root == metered_nth_root_floor(value, degree)
    IN IF degree <= step THEN {}
       ELSE IF \E r \in root : r[2] THEN {<<r[1], degree>> : r \in root}
       ELSE PerfectPowerFrom(value, degree - step)

metered_greatest_perfect_power_up_to(value, max_degree) ==
    UNION {PerfectPowerFrom(value, degree) : degree \in greatest_possible_power_degree(value, max_degree)}

-----------------------------------------------------------------------------
(* Euclid and inverses.                                                    *)

RECURSIVE Euclid(_, _)
Euclid(a, b) == IF b = 0 THEN AbsoluteValue(a) ELSE Euclid(b, Rem(a, b))

metered_gcd(a, b) == Euclid(a, b)

RECURSIVE Bezout(_, _, _, _, _, _)
Bezout(old_r, r, old_s, s, old_t, t) ==
    IF r = 0 THEN IF old_r < 0 THEN <<-old_r, -old_s, -old_t>> ELSE <<old_r, old_s, old_t>>
    ELSE LET q == Quot(old_r, r) IN Bezout(r, Rem(old_r, r), s, old_s - q * s, t, old_t - q * t)

metered_extended_gcd(a, b) == Bezout(a, b, 1, 0, 0, 1)

mod_inverse(a, m) ==
    IF m <= 0 THEN {}
    ELSE LET b == metered_extended_gcd(Rem(a, m), m)
         IN IF b[1] # 1 THEN {} ELSE {Rem(Rem(b[2], m) + m, m)}

metered_mod_inverse(a, m) ==
    IF m <= 0 THEN {}
    ELSE LET b == metered_extended_gcd(normalized_remainder(a, m), m)
         IN IF b[1] # 1 THEN {} ELSE {normalized_remainder(b[2], m)}

\* The inverse of a product becomes the inverse of the product without its last element.
WithoutElement(inverse, value, p) == normalized_remainder(inverse * value, p)

\* Inverses of a batch from one inverse and prefix products, last element first.
RECURSIVE BackSubstitute(_, _, _, _, _)
BackSubstitute(values, prefixes, index, inverse, p) ==
    IF index = 1 THEN <<inverse>>
    ELSE Append(BackSubstitute(values, prefixes, index - 1,
                               WithoutElement(inverse, values[index], p), p),
                normalized_remainder(inverse * prefixes[index - 1], p))

metered_batch_inv(p, values) ==
    LET running == FoldLeft(LAMBDA acc, v : Append(acc, IF acc = <<>> THEN v
                                                    ELSE normalized_remainder(Last(acc) * v, p)), <<>>, values)
    IN IF values = <<>> THEN {<<>>}
       ELSE IF 0 \in Range(values) THEN {}
       ELSE {BackSubstitute(values, running, Len(values), inverse, p) :
                inverse \in metered_mod_inverse(Last(running), p)}

-----------------------------------------------------------------------------
(* Chinese remainders.  A congruence is <<remainder, modulus>>.              *)

Consistent(diff, g) == Rem(diff, g) = 0

crt_pair_with_gcd(c1, c2, g) ==
    LET diff == c2[1] - c1[1]
        lcm  == Quot(c1[2], g) * c2[2]
        u    == metered_extended_gcd(Quot(c1[2], g), Quot(c2[2], g))[2]
    IN IF ~ Consistent(diff, g) THEN {}
       ELSE {<<normalized_remainder(c1[1] + Quot(diff, g) * u * c1[2], lcm), lcm>>}

crt_pair(c1, c2) ==
    IF c1[2] <= 0 \/ c2[2] <= 0 THEN {} ELSE crt_pair_with_gcd(c1, c2, metered_gcd(c1[2], c2[2]))

RECURSIVE CrtFold(_, _, _)
CrtFold(acc, rest, coprime) ==
    IF rest = <<>> THEN {acc}
    ELSE LET g == metered_gcd(acc[2], Head(rest)[2])
         IN IF coprime /\ g # 1 THEN {}
            ELSE UNION {CrtFold(next, Tail(rest), coprime) : next \in crt_pair_with_gcd(acc, Head(rest), g)}

\* crt, and crt_coprime_slices with coprime TRUE.
crt_refs(congruences, coprime) ==
    IF \E i \in DOMAIN congruences : congruences[i][2] <= 0 THEN {}
    ELSE IF congruences = <<>> THEN {<<0, 1>>}
    ELSE LET first == Head(congruences)
         IN CrtFold(<<normalized_remainder(first[1], first[2]), first[2]>>, Tail(congruences), coprime)

\* Mutant: the bound is the root of the modulus, not of its half.
MutReconstructionBound(m) == Max(metered_sqrt_floor(m))

ReconstructionBound(m) == Max(metered_sqrt_floor(Quot(m - 1, 2)))

RECURSIVE HalfEuclid(_, _, _, _, _)
HalfEuclid(r_prev, r, t_prev, t, bound) ==
    IF AbsoluteValue(r) <= bound THEN <<r, t>>
    ELSE HalfEuclid(r, Rem(r_prev, r), t, t_prev - Quot(r_prev, r) * t, bound)

\* The fraction <<numerator, denominator>> that n stands for modulo m.
rational_reconstruct(n, m) ==
    IF m <= 1 \/ ReconstructionBound(m) = 0 THEN {}
    ELSE LET bound   == ReconstructionBound(m)
             residue == Rem(Rem(n, m) + m, m)
             rt      == HalfEuclid(m, residue, 0, 1, bound)
             r       == IF rt[2] < 0 THEN -rt[1] ELSE rt[1]
             t       == AbsoluteValue(rt[2])
         IN IF residue = 0 THEN {<<0, 1>>}
            ELSE IF \/ t = 0 \/ AbsoluteValue(r) > bound \/ t > bound
                    \/ metered_gcd(r, t) # 1 \/ Rem(r - residue * t, m) # 0
            THEN {} ELSE {<<r, t>>}

-----------------------------------------------------------------------------
(* Primes and quadratic symbols.                                           *)

RECURSIVE mod_pow(_, _, _)
mod_pow(base, exp, modulus) ==
    IF modulus = 1 THEN 0
    ELSE IF exp <= 0 THEN 1
    ELSE LET b    == Rem(base, modulus)
             rest == mod_pow(Rem(b * b, modulus), exp \div 2, modulus)
         IN IF exp % 2 = 1 THEN Rem(rest * b, modulus) ELSE rest

MrBases == {2, 3, 5, 7, 11, 13, 17, 19, 23, 29, 31, 37, 41}

RECURSIVE OddPart(_)
OddPart(n) == IF n % 2 = 0 THEN OddPart(n \div 2) ELSE n

\* The base proves n composite: none of its powers is -1, nor the first one 1.
Witness(a, n) ==
    LET d == OddPart(n - 1)
        Powers == {mod_pow(a, d * 2^k, n) : k \in {k \in 0..BitLength(n) : d * 2^(k + 1) <= n - 1}}
    IN mod_pow(a, d, n) # 1 /\ n - 1 \notin Powers

is_probable_prime(n) ==
    /\ n >= 2
    /\ \/ n \in MrBases
       \/ /\ \A b \in MrBases : n % b # 0
          /\ \A a \in {b \in MrBases : b < n} : ~ Witness(a, n)

\* The numerator without its factors of two, and the sign they cost.
RECURSIVE Halve(_, _, _)
Halve(numerator, denominator, symbol) ==
    IF numerator % 2 # 0 THEN <<numerator, symbol>>
    ELSE Halve(numerator \div 2, denominator, IF denominator % 8 \in {3, 5} THEN -symbol ELSE symbol)

Reciprocity(numerator, denominator, symbol) ==
    IF numerator % 4 = 3 /\ denominator % 4 = 3 THEN -symbol ELSE symbol

RECURSIVE JacobiLoop(_, _, _)
JacobiLoop(numerator, denominator, symbol) ==
    IF numerator = 0 THEN IF denominator = 1 THEN symbol ELSE 0
    ELSE LET h == Halve(numerator, denominator, symbol)
         IN JacobiLoop(denominator % h[1], h[1], Reciprocity(denominator, h[1], h[2]))

jacobi_symbol(a, n) ==
    IF n <= 0 \/ n % 2 = 0 THEN {} ELSE {JacobiLoop(normalized_remainder(a, n), n, 1)}

\* The certified bound of the primality theorem is above every number here.
legendre_symbol(a, p) == IF p <= 2 \/ ~ is_probable_prime(p) THEN {} ELSE jacobi_symbol(a, p)

-----------------------------------------------------------------------------
(* Reducers.                                                               *)

MontgomeryReducer(modulus) ==
    LET r == 2^(BitLength(modulus) + 1)
    IN IF modulus <= 1 \/ modulus % 2 = 0 THEN {}
       ELSE {[modulus |-> modulus, r |-> r, bound |-> modulus * r, m_prime |-> r - m_inv,
              r2_mod_m |-> Rem(Rem(r, modulus) * Rem(r, modulus), modulus)]
                : m_inv \in mod_inverse(modulus, r)}

FinalSubtraction(u, modulus) == IF u >= modulus THEN u - modulus ELSE u

reduce_admitted(mr, value) ==
    LET m == (value * mr.m_prime) % mr.r
        u == (value + m * mr.modulus) \div mr.r
    IN FinalSubtraction(u, mr.modulus)

montgomery_reduce(mr, value) ==
    IF value < 0 \/ value >= mr.bound THEN {} ELSE {reduce_admitted(mr, value)}

to_montgomery(mr, a) == reduce_admitted(mr, normalized_remainder(a, mr.modulus) * mr.r2_mod_m)

from_montgomery(mr, value) == IF value \in 0..(mr.modulus - 1) THEN {reduce_admitted(mr, value)} ELSE {}

montgomery_mul(mr, a, b) ==
    IF {a, b} \subseteq 0..(mr.modulus - 1) THEN montgomery_reduce(mr, a * b) ELSE {}

BarrettQuotient(k, mu, value) == ((value \div 2^(k - 1)) * mu) \div 2^(k + 1)

\* At most three corrections.
RECURSIVE Corrected(_, _, _)
Corrected(r, modulus, left) ==
    IF r < modulus THEN {r} ELSE IF left = 0 THEN {} ELSE Corrected(r - modulus, modulus, left - 1)

barrett_reduce(modulus, value) ==
    LET k  == BitLength(modulus)
        r  == value - BarrettQuotient(k, 2^(2 * k) \div modulus, value) * modulus
    IN IF modulus <= 1 \/ value < 0 \/ value >= modulus * modulus THEN {}
       ELSE IF value < modulus THEN {value}
       ELSE IF r < 0 THEN {} ELSE Corrected(r, modulus, 3)

-----------------------------------------------------------------------------
(* The prime stream: [emitted, capacity, current].                          *)

NewPrimeStream == [emitted |-> <<>>, capacity |-> 0, current |-> 2]

prime_table_growth_target(capacity, required) ==
    IF required <= capacity THEN capacity ELSE Max({IF capacity = 0 THEN 1 ELSE 2 * capacity, required})

Tried(stream, root) == {p \in Range(stream.emitted) : p <= root}

\* A refusal by the meter or the allocator changes nothing.
RECURSIVE next_metered(_)
next_metered(stream) ==
    LET candidate == stream.current
        root == Max(metered_sqrt_floor(candidate))
    IN IF \E p \in Tried(stream, root) : candidate % p = 0
       THEN next_metered([stream EXCEPT !.current = @ + 1])
       ELSE [emitted  |-> Append(stream.emitted, candidate), current |-> candidate + 1,
             capacity |-> prime_table_growth_target(stream.capacity, Len(stream.emitted) + 1)]

-----------------------------------------------------------------------------
(* What the results must be.                                               *)

Divides(d, n) == d # 0 /\ n % d = 0
IsPrime(n) == n >= 2 /\ \A d \in 2..Max(metered_sqrt_floor(AbsoluteValue(n))) : ~ Divides(d, n)

\* The floor of the real root, its exactness, and the greatest perfect power.
RootsExact(value, degree) ==
    LET Power(b) == b^degree
        bases == (-AbsoluteValue(value) - 1)..(AbsoluteValue(value) + 1)
        Small(b) == AbsoluteValue(b) <= 1 \/ BitLength(AbsoluteValue(b)) * degree <= 30
    IN /\ \A r \in metered_nth_root_floor(value, degree) :
              /\ Small(r[1]) => Power(r[1]) <= value /\ r[2] = (Power(r[1]) = value)
              /\ Small(r[1] + 1) => Power(r[1] + 1) > value \/ (r[1] < 0 /\ degree % 2 = 0)
       /\ metered_nth_root_floor(value, degree) = {} <=> degree = 0 \/ (value < 0 /\ degree % 2 = 0)
       /\ LET powers == {<<b, d>> \in bases \X (2..degree) :
                            AbsoluteValue(b) > 1 /\ BitLength(AbsoluteValue(b)) * d <= 30 /\ b^d = value}
          IN metered_greatest_perfect_power_up_to(value, degree) =
                {x \in powers : \A y \in powers : y[2] <= x[2] /\ (y[2] = x[2] => y[1] <= x[1])}

\* Euclid's identity, inverses of both lanes, and the symbols against squares.
RECURSIVE SymbolByFactors(_, _)
SymbolByFactors(a, n) ==
    IF n = 1 THEN 1
    ELSE LET p == Min({d \in 2..n : n % d = 0})
         IN (IF a % p = 0 THEN 0 ELSE IF \E x \in 1..(p - 1) : (x * x - a) % p = 0 THEN 1 ELSE -1)
              * SymbolByFactors(a, n \div p)

EuclidExact(a, m) ==
    LET b == metered_extended_gcd(a, m) IN
    /\ b[1] = a * b[2] + m * b[3] /\ b[1] = metered_gcd(a, m) /\ b[1] >= 0
    /\ a # 0 \/ m # 0 => Divides(b[1], a) /\ Divides(b[1], m)
    /\ mod_inverse(a, m) = {x \in 0..(m - 1) : (a * x - 1) % m = 0}
    /\ metered_mod_inverse(a, m) = mod_inverse(a, m)

SymbolsExact(a, n) ==
    /\ jacobi_symbol(a, n) = IF n > 0 /\ n % 2 = 1 THEN {SymbolByFactors(a, n)} ELSE {}
    /\ legendre_symbol(a, n) # {} <=> n > 2 /\ IsPrime(n)
    /\ is_probable_prime(n) = IsPrime(n)

\* The smallest solution of all congruences, or none when there is none; the
\* coprime form refuses exactly the systems whose moduli share a factor.
CongruencesSolved(congruences) ==
    LET moduli    == {congruences[i][2] : i \in DOMAIN congruences}
        solutions == crt_refs(congruences, FALSE)
        Solves(x) == \A i \in DOMAIN congruences : (x - congruences[i][1]) % congruences[i][2] = 0
        coprime   == \A i, j \in DOMAIN congruences :
                        i = j \/ metered_gcd(congruences[i][2], congruences[j][2]) = 1
        product   == FoldLeft(LAMBDA acc, c : acc * c[2], 1, congruences)
    IN IF \E m \in moduli : m <= 0 THEN solutions = {} /\ crt_refs(congruences, TRUE) = {}
       ELSE /\ {s[1] : s \in solutions} = {x \in 0..(product - 1) : Solves(x) /\ \A y \in 0..(x - 1) : ~ Solves(y)}
            /\ \A s \in solutions : /\ \A m \in moduli : Divides(m, s[2])
                                    /\ Divides(s[2], product) /\ s[1] < s[2]
            /\ crt_refs(congruences, TRUE) = IF coprime THEN solutions ELSE {}
            /\ Len(congruences) = 2 => crt_pair(congruences[1], congruences[2]) = solutions

\* The declared bounds hold, and every fraction within them is found again.
ReconstructionUnique(n, m) ==
    m > 1 => LET bound == CHOOSE b \in 0..m : 2 * b * b < m /\ 2 * (b + 1) * (b + 1) >= m
                 good  == {<<r, t>> \in ((-bound)..bound) \X (1..bound) :
                              metered_gcd(r, t) = 1 /\ (r - n * t) % m = 0}
             IN rational_reconstruct(n, m) = good

\* Montgomery and Barrett reduction against the remainder.
ReducersExact(modulus, values) ==
    /\ \A v \in values :
          barrett_reduce(modulus, v) =
              IF modulus > 1 /\ v >= 0 /\ v < modulus * modulus THEN {v % modulus} ELSE {}
    /\ MontgomeryReducer(modulus) # {} <=> modulus > 1 /\ modulus % 2 = 1
    /\ \A mr \in MontgomeryReducer(modulus) : \A v, w \in values :
          /\ from_montgomery(mr, to_montgomery(mr, v)) = {v % modulus}
          /\ UNION {from_montgomery(mr, x) : x \in montgomery_mul(mr, to_montgomery(mr, v), to_montgomery(mr, w))}
                = {((v % modulus) * (w % modulus)) % modulus}
          /\ montgomery_reduce(mr, v) # {} <=> v \in 0..(mr.bound - 1)

\* One inverse per element, in order, or a refusal because of a zero.
BatchInverted(p, values) ==
    metered_batch_inv(p, values) =
        IF 0 \in Range(values) THEN {}
        ELSE {s \in [DOMAIN values -> 1..(p - 1)] : \A i \in DOMAIN values : (s[i] * values[i]) % p = 1}

\* The primes below the cursor, in order, within the table's capacity.
StreamExact(stream) ==
    /\ Range(stream.emitted) = {n \in 2..(stream.current - 1) : IsPrime(n)}
    /\ \A i \in 1..(Len(stream.emitted) - 1) : stream.emitted[i] < stream.emitted[i + 1]
    /\ Len(stream.emitted) <= stream.capacity
=============================================================================

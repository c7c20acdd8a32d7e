----------------------------- MODULE KernelTerms -----------------------------
(***************************************************************************)
(* Terms of the proof kernel (crates/fsym-proof-kernel/src/kernel.rs) and   *)
(* what is computed on them: bounded polynomial normal forms, definitional  *)
(* reductions, substitution, and a reference semantics.                     *)
(*                                                                         *)
(* An expression is <<"int", n>>, <<"sym", name>>, <<"add", args>>,        *)
(* <<"mul", args>>, <<"pow", base, exponent>> or <<"fn", name, args>>.     *)
(* An operator that the code lets fail returns the set of its results: the *)
(* empty set is the error.                                                 *)
(*                                                                         *)
(* Not modelled here: binders inside Substitution templates, rational      *)
(* literals, polynomial and finite-field domains, the RealBall and Rabin   *)
(* certificate families and the size limits other than the exponent's.     *)
(***************************************************************************)
EXTENDS Integers, Sequences, FiniteSets, FiniteSetsExt, SequencesExt

CONSTANT MaxExponent            \* MAX_NORMAL_FORM_EXPONENT

Int0 == <<"int", 0>>
Int1 == <<"int", 1>>

-----------------------------------------------------------------------------
(* Bounded polynomial normal forms: a polynomial maps monomials to nonzero  *)
(* coefficients, a monomial maps atoms to positive exponents.              *)

NoAtoms == <<>>

constant_polynomial(c) == IF c = 0 THEN <<>> ELSE [m \in {NoAtoms} |-> c]

atomic_polynomial(atom) == [m \in {[a \in {atom} |-> 1]} |-> 1]

Coefficient(p, m) == IF m \in DOMAIN p THEN p[m] ELSE 0

NonZeroTerms(p) == [m \in {m \in DOMAIN p : p[m] # 0} |-> p[m]]

add_polynomials(p, q) ==
    NonZeroTerms([m \in DOMAIN p \cup DOMAIN q |-> Coefficient(p, m) + Coefficient(q, m)])

multiply_monomials(a, b) ==
    [x \in DOMAIN a \cup DOMAIN b |-> Coefficient(a, x) + Coefficient(b, x)]

ExponentsFit(m) == \A x \in DOMAIN m : m[x] <= MaxExponent

multiply_polynomials(p, q) ==
    LET pairs    == (DOMAIN p) \X (DOMAIN q)
        Mono(pr) == multiply_monomials(pr[1], pr[2])
        product  == [m \in {Mono(pr) : pr \in pairs} |->
                        MapThenSumSet(LAMBDA pr : p[pr[1]] * q[pr[2]],
                                      {pr \in pairs : Mono(pr) = m})]
    IN IF \A pr \in pairs : ExponentsFit(Mono(pr)) THEN {NonZeroTerms(product)} ELSE {}

RECURSIVE pow_polynomial(_, _)
pow_polynomial(p, n) ==
    IF n = 0 THEN {constant_polynomial(1)}
    ELSE IF n = 1 THEN {p}
    ELSE UNION {UNION {IF n % 2 = 1 THEN multiply_polynomials(p, h) ELSE {h}
                         : h \in pow_polynomial(square, n \div 2)}
                  : square \in multiply_polynomials(p, p)}

\* normalize_polynomial_inner, and with functions = TRUE the variant that
\* admits function applications as atoms.
RECURSIVE Normalize(_, _)
Normalize(e, functions) ==
    LET Combine(Op(_, _), unit, args) ==
            FoldLeft(LAMBDA acc, arg : UNION {UNION {Op(p, q) : q \in Normalize(arg, functions)}
                                                : p \in acc},
                     {unit}, args)
    IN CASE e[1] = "int" -> {constant_polynomial(e[2])}
         [] e[1] = "sym" -> {atomic_polynomial(e)}
         [] e[1] = "add" -> Combine(LAMBDA p, q : {add_polynomials(p, q)}, <<>>, e[2])
         [] e[1] = "mul" -> Combine(multiply_polynomials, constant_polynomial(1), e[2])
         [] e[1] = "pow" -> IF e[3][1] = "int" /\ e[3][2] \in 0..MaxExponent
                            THEN UNION {pow_polynomial(p, e[3][2]) : p \in Normalize(e[2], functions)}
                            ELSE {}
         [] e[1] = "fn"  -> IF functions THEN {atomic_polynomial(e)} ELSE {}

normalize_polynomial(e) == Normalize(e, FALSE)

check_polynomial_normal_form(lhs, rhs) ==
    normalize_polynomial(lhs) # {} /\ normalize_polynomial(lhs) = normalize_polynomial(rhs)

-----------------------------------------------------------------------------
(* Pythagorean reductions.                                                 *)

ZeroDefined == {"tan", "tanh", "sec"}
OneDefined  == {"log"}
Entire      == {"sin", "cos", "sinh", "cosh", "exp"}

directly_defined_function(name, args) ==
    /\ Len(args) = 1
    /\ \/ name \in Entire
       \/ args[1] = Int0 /\ name \in ZeroDefined
       \/ args[1] = Int1 /\ name \in OneDefined

RECURSIVE partial_domain_obligations(_)
partial_domain_obligations(e) ==
    LET OfAll(args) == UNION {partial_domain_obligations(a) : a \in Range(args)}
    IN CASE e[1] \in {"int", "sym"} -> {}
         [] e[1] \in {"add", "mul"} -> OfAll(e[2])
         [] e[1] = "pow" ->
                OfAll(<<e[2], e[3]>>) \cup
                  IF e[3][1] = "int" /\ (e[3][2] > 0 \/ (e[2][1] = "int" /\ e[2] # Int0))
                  THEN {} ELSE {e}
         [] e[1] = "fn" ->
                OfAll(e[3]) \cup IF directly_defined_function(e[2], e[3]) THEN {} ELSE {e}

\* Families sin^2 + cos^2, sec^2 - tan^2 and cosh^2 - sinh^2 (csc and cot are
\* like sec and tan).
PythagoreanPairs == {<<"sin", "cos">>, <<"sec", "tan">>, <<"cosh", "sinh">>}

pythagorean_coefficients_cancel(pair, a, b) ==
    IF pair[1] = "sin" THEN a = b ELSE a + b = 0

WithSquare(name, arg, rest) ==
    multiply_monomials(rest, [x \in {<<"fn", name, <<arg>>>>} |-> 2])

\* The candidates <<family, argument, residual monomial>> with both slots filled.
PythagoreanSlots(p) ==
    {<<pair, atom[3][1], [x \in DOMAIN m \ {atom} |-> m[x]]>> :
        <<pair, m, atom>> \in
            {t \in PythagoreanPairs \X (DOMAIN p) \X UNION {DOMAIN m : m \in DOMAIN p} :
                LET pair == t[1] m == t[2] atom == t[3]
                IN /\ atom \in DOMAIN m /\ m[atom] = 2
                   /\ atom[1] = "fn" /\ Len(atom[3]) = 1 /\ atom[2] = pair[1]
                   /\ LET rest == [x \in DOMAIN m \ {atom} |-> m[x]]
                          twin == WithSquare(pair[2], atom[3][1], rest)
                      IN twin \in DOMAIN p /\ pythagorean_coefficients_cancel(pair, p[m], p[twin])}}

\* Slots are visited in one fixed order (here an unspecified one; the code uses
\* the order of expressions); a monomial is consumed by one pair only.
cancel_pythagorean_pairs(p) ==
    LET Visit(acc, slot) ==
            LET first  == WithSquare(slot[1][1], slot[2], slot[3])
                second == WithSquare(slot[1][2], slot[2], slot[3])
            IN IF {first, second} \cap acc.removals # {} THEN acc
               ELSE [removals  |-> acc.removals \cup {first, second},
                     additions |-> Append(acc.additions, <<slot[3], p[first]>>)]
        done == FoldLeft(Visit, [removals |-> {}, additions |-> <<>>],
                         SetToSeq(PythagoreanSlots(p)))
        kept == [m \in DOMAIN p \ done.removals |-> p[m]]
    IN FoldLeft(LAMBDA acc, add : add_polynomials(acc, [m \in {add[1]} |-> add[2]]),
                kept, done.additions)

check_pythagorean_identity(lhs, rhs) ==
    LET normal == Normalize(lhs, TRUE)
    IN /\ partial_domain_obligations(lhs) = partial_domain_obligations(rhs)
       /\ normal # {}
       /\ {cancel_pythagorean_pairs(p) : p \in normal} = Normalize(rhs, TRUE)

-----------------------------------------------------------------------------
(* Definitional reductions.                                                *)

Collapsed(op, unit, args) ==
    LET rest == SelectSeq(args, LAMBDA a : a # unit)
    IN IF Len(rest) = 0 THEN unit ELSE IF Len(rest) = 1 THEN rest[1] ELSE <<op, rest>>

Literals(args) == \A i \in DOMAIN args : args[i][1] = "int"

\* Mutant: a zero factor annihilates partial factors as well.
Mutmul_zero_annihilator(lhs, rhs) ==
    lhs[1] = "mul" /\ Int0 \in Range(lhs[2]) /\ rhs = Int0

mul_zero_annihilator(lhs, rhs) ==
    /\ lhs[1] = "mul" /\ Int0 \in Range(lhs[2]) /\ rhs = Int0
    /\ normalize_polynomial(lhs) # {}

elementary_zero_eval(lhs, rhs) ==
    /\ lhs[1] = "fn" /\ lhs[3] = <<Int0>>
    /\ \/ lhs[2] \in {"sin", "tan", "sinh"} /\ rhs = Int0
       \/ lhs[2] \in {"cos", "cosh", "exp", "sec"} /\ rhs = Int1

check_definitional_reduction(lhs, rhs, name) ==
    CASE name = "identity"            -> lhs = rhs
      [] name = "add_zero_identity"   -> lhs[1] = "add" /\ rhs = Collapsed("add", Int0, lhs[2])
      [] name = "mul_one_identity"    -> lhs[1] = "mul" /\ rhs = Collapsed("mul", Int1, lhs[2])
      [] name = "mul_zero_annihilator" -> mul_zero_annihilator(lhs, rhs)
      [] name = "constant_eval_add"   -> /\ lhs[1] = "add" /\ Literals(lhs[2])
                                         /\ rhs = <<"int", FoldLeft(LAMBDA s, a : s + a[2], 0, lhs[2])>>
      [] name = "constant_eval_mul"   -> /\ lhs[1] = "mul" /\ Literals(lhs[2])
                                         /\ rhs = <<"int", FoldLeft(LAMBDA s, a : s * a[2], 1, lhs[2])>>
      [] name = "pow_zero_identity"   -> lhs[1] = "pow" /\ lhs[3] = Int0 /\ lhs[2] # Int0 /\ rhs = Int1
      [] name = "pow_one_identity"    -> lhs[1] = "pow" /\ lhs[3] = Int1 /\ rhs = lhs[2]
      [] name = "elementary_zero_eval" -> elementary_zero_eval(lhs, rhs)
      [] name = "elementary_one_eval" -> lhs = <<"fn", "log", <<Int1>>>> /\ rhs = Int0
      [] name = "pythagorean_identity" -> check_pythagorean_identity(lhs, rhs)
      [] name \in {"simplify_normal_form", "polynomial_ring_equivalence"} ->
             check_polynomial_normal_form(lhs, rhs)

-----------------------------------------------------------------------------
(* Domains: the tower of numbers and the expression domain.                *)

Tower == <<<<"dom", "ZZ">>, <<"dom", "QQ">>, <<"dom", "RR">>, <<"dom", "CC">>>>
ExpressionDomain == <<"dom", "EX">>

can_coerce_to(from, to) ==
    \/ from = to \/ to = ExpressionDomain
    \/ \E i, j \in DOMAIN Tower : i < j /\ Tower[i] = from /\ Tower[j] = to

-----------------------------------------------------------------------------
(* Substitution.                                                           *)

RECURSIVE capture_avoiding_subs(_, _, _)
capture_avoiding_subs(e, var, new) ==
    LET All(args) == [i \in DOMAIN args |-> capture_avoiding_subs(args[i], var, new)]
    IN CASE e[1] = "int"            -> e
         [] e[1] = "sym"            -> IF e = var THEN new ELSE e
         [] e[1] \in {"add", "mul"} -> <<e[1], All(e[2])>>
         [] e[1] = "pow"            -> <<"pow">> \o All(<<e[2], e[3]>>)
         [] e[1] = "fn"             -> <<"fn", e[2], All(e[3])>>

-----------------------------------------------------------------------------
(* Reference semantics: the value of an expression in the field of the      *)
(* integers modulo the prime P, or NoValue.  Every identity of a          *)
(* commutative field holds in it, and a power with a small integer exponent *)
(* is what it should be.  Every operation is strict: "partial values ...    *)
(* must retain their domain/definedness conditions", so a power of an       *)
(* undefined base is undefined, the power 0 too; a defined base to the      *)
(* power 0 is 1, as normalize_polynomial takes it.  The functions are       *)
(* rational ones that satisfy the identities of their families; 1 + t^2     *)
(* has no root modulo P.                                                   *)

P == 31
NoValue == P
Field == 0..(P - 1)

Strict(Op(_, _), v, w) == IF NoValue \in {v, w} THEN NoValue ELSE Op(v, w) % P
Plus(v, w)  == Strict(LAMBDA a, b : a + b, v, w)
Times(v, w) == Strict(LAMBDA a, b : a * b, v, w)
Inverse1(v) == IF v \in {0, NoValue} THEN NoValue
               ELSE CHOOSE u \in Field : (u * v) % P = 1

RECURSIVE ToThe(_, _)
ToThe(v, n) == IF v = NoValue THEN NoValue
               ELSE IF n = 0 THEN 1 ELSE Times(v, ToThe(v, n - 1))

\* An exponent stands for the integer of least absolute value.
Power(v, w) ==
    IF w = NoValue THEN NoValue
    ELSE IF 2 * w < P THEN ToThe(v, w) ELSE Inverse1(ToThe(v, P - w))

Apply(name, v) ==
    LET square == Times(v, v)
        scale  == Inverse1(Plus(1, square))
        sin    == Times(Times(2, v), scale)
        cos    == Times(Plus(1, Times(P - 1, square)), scale)
    IN CASE name = "sin" -> sin
         [] name = "cos" -> cos
         [] name = "tan" -> Times(sin, Inverse1(cos))
         [] name = "sec" -> Inverse1(cos)
         [] name = "log" -> IF v = 0 THEN NoValue ELSE Plus(v, P - 1)

\* Sets of values with the inclusions of the tower; what has no value is in none.
Members(domain) ==
    CASE domain = <<"dom", "ZZ">> -> {0, 1, 2, 5}
      [] domain = <<"dom", "QQ">> -> {0, 1, 2, 3, 5}
      [] OTHER                    -> Field

MemberOf(v, domain) == v \in Members(domain)

RECURSIVE ValueOf(_, _)
ValueOf(e, env) ==
    CASE e[1] = "int" -> e[2] % P
      [] e[1] = "sym" -> env[e] % P
      [] e[1] = "add" -> FoldLeft(LAMBDA v, a : Plus(v, ValueOf(a, env)), 0, e[2])
      [] e[1] = "mul" -> FoldLeft(LAMBDA v, a : Times(v, ValueOf(a, env)), 1, e[2])
      [] e[1] = "pow" -> Power(ValueOf(e[2], env), ValueOf(e[3], env))
      [] e[1] = "fn"  -> Apply(e[2], ValueOf(e[3][1], env))
=============================================================================

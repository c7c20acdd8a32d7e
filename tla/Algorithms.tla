----------------------------- MODULE Algorithms -----------------------------
(***************************************************************************)
(* The pure algorithms of the system, asked one question at a time: the     *)
(* state is a topic and then a question about it, and every invariant       *)
(* compares an algorithm's answer with its definition.                     *)
(***************************************************************************)
EXTENDS BoolLogic, SymSets, GraphIndex, Factoring

CONSTANTS Formulas,             \* formulas to rewrite and to solve
          Sets, Elements,       \* sets, in pairs, and elements to look for
          SetValuations,        \* values of the symbols
          Vertices, Graphs,     \* dependency graphs
          EarlierGraphs,        \* graphs a certificate may have been made for
          Manifests,            \* manifests a projection is built from and asked for
          Magnitudes,           \* digit sequences to multiply
          Numbers, Moduli,      \* integers, and integers to divide them by
          MaxReducerModulus,    \* larger ones would leave TLC's integers
          Degrees,              \* degrees of roots
          Systems,              \* systems of congruences
          Batches,              \* <<prime, elements of its field>>
          MaxPrimes,            \* how far a prime stream is followed
          Fractions,            \* fractions, in pairs
          Polynomials, Partners, \* polynomials, and those they are combined with
          Third,                \* a polynomial in every combination
          Products              \* polynomials to factor

VARIABLE question               \* <<topic>> or <<topic, argument, ...>>

Topics == {"formula", "sets", "graph", "projection", "product", "numbers", "root", "congruences",
           "batch", "primes", "fractions", "polynomials", "factors"}

Init == question \in {<<topic>> : topic \in Topics}

Open(topic) == question = <<topic>>

AskFormula == Open("formula") /\ \E f \in Formulas : question' = <<"formula", f>>

AskSets == Open("sets") /\ \E a, b \in Sets : question' = <<"sets", a, b>>

AskGraph ==
    Open("graph") /\ \E g \in Graphs : \E other \in EarlierGraphs \cup {g} : question' = <<"graph", g, other>>

AskProjection ==
    Open("projection") /\ \E built, asked \in Manifests : question' = <<"projection", built, asked>>

AskProduct == Open("product") /\ \E a, b \in Magnitudes : question' = <<"product", a, b>>

AskNumbers == Open("numbers") /\ \E n \in Numbers, m \in Moduli : question' = <<"numbers", n, m>>

AskRoot == Open("root") /\ \E n \in Numbers, d \in Degrees : question' = <<"root", n, d>>

AskCongruences == Open("congruences") /\ \E s \in Systems : question' = <<"congruences", s>>

AskBatch == Open("batch") /\ \E b \in Batches : question' = <<"batch", b>>

StartPrimes == Open("primes") /\ question' = <<"primes", NewPrimeStream>>

NextPrime ==
    /\ Len(question) > 1 /\ question[1] = "primes" /\ Len(question[2].emitted) < MaxPrimes
    /\ question' = <<"primes", next_metered(question[2])>>

AskFractions == Open("fractions") /\ \E a, b \in Fractions : question' = <<"fractions", a, b>>

AskPolynomials ==
    Open("polynomials") /\ \E a \in Polynomials, b \in Partners : question' = <<"polynomials", a, b>>

AskFactors == Open("factors") /\ \E a \in Products : question' = <<"factors", a>>

Answered == Len(question) > 1 /\ question' = <<question[1]>>

Next == AskFormula \/ AskSets \/ AskGraph \/ AskProjection \/ AskProduct \/ AskNumbers \/ AskRoot
          \/ AskCongruences \/ AskBatch \/ StartPrimes \/ NextPrime
          \/ AskFractions \/ AskPolynomials \/ AskFactors \/ Answered

Spec == Init /\ [][Next]_question

Asked(topic) == question[1] = topic /\ Len(question) > 1

-----------------------------------------------------------------------------
(* Properties.  Each compares the answers about one topic with what they    *)
(* must mean; the parts are defined with the algorithms.                   *)

\* nnf, simplify_logic and the constructors keep a formula's meaning, to_cnf and
\* to_dnf are equivalent to it, and "Ok(None) only for an established UNSAT
\* result": the solver's model satisfies the formula, UNSAT is never the answer
\* to a satisfiable one, and running out of variables or of search work is a
\* refusal.
LogicExact ==
    Asked("formula") => /\ RewritingExact(question[2])
                        /\ NormalFormsExact(question[2])
                        /\ SolverDecides(question[2])

\* contains, is_subset, is_disjoint and is_empty_set answer three ways, and a yes
\* or a no is true whatever value the symbols take; union to symmetric_difference
\* have the members their names promise; interior to is_compact give the
\* topological answer or refuse; and sets of the same piecewise form have the
\* same points, equal sets the same form.
SetAnswersSound ==
    Asked("sets") => /\ DecisionsSound(question[2], question[3], Elements, SetValuations)
                     /\ AlgebraExact(question[2], question[3], SetValuations)
                     /\ TopologySound(question[2], SetValuations)
                     /\ NormalFormCanonical(question[2], question[3], SetValuations)

\* The traversals agree with reachability in the graph, dangling ends and loops
\* included; the verifiers accept what the index returned and nothing false, even
\* if it was made for an earlier snapshot; "NotObserved never carries
\* negative-proof authority": whatever manifest a projection was built from, a
\* definite answer is true of the manifest asked about.
GraphAnswersSound ==
    /\ Asked("graph") => /\ TraversalsExact(question[2], Vertices)
                         /\ CertificatesSound(question[2], question[3], Vertices)
    /\ Asked("projection") => QueriesFresh(question[2], question[3], Vertices)

\* Products by the schoolbook, Karatsuba, Toom-3 and two-prime transform kernels
\* agree digit by digit, and no self-check of theirs fails; division truncates,
\* sums are exact and roots are floors, across digit boundaries and for every sign.
\* Euclid, inverses, primality and the quadratic symbols agree with their
\* definitions; a fraction within the symmetric bounds is reconstructed, and no
\* other; Chinese remaindering returns the least solution exactly when there is
\* one; Montgomery and Barrett arithmetic equal the plain remainder where they do
\* not refuse; batches are inverted in order, and the prime stream, however often
\* it was refused, skips no prime.  Fractions stay in lowest terms though no result
\* is reduced, and are converted to the nearest float and its tightest bounds.
NumbersExact ==
    /\ Asked("product") => ProductsExact(question[2], question[3])
    /\ Asked("numbers") =>
           /\ question[3] # 0 => DivisionExact(question[2], question[3]) /\ SumsExact(question[2], question[3])
           /\ question[3] > 0 => EuclidExact(question[2], question[3])
           /\ SymbolsExact(question[2], question[3])
           /\ ReconstructionUnique(question[2], question[3])
           /\ question[3] <= MaxReducerModulus =>
                  ReducersExact(question[3], {question[2], question[3] - 1, question[3] * question[3] - 1})
    /\ Asked("root") => RootsExact(question[2], question[3])
    /\ Asked("congruences") => CongruencesSolved(question[2])
    /\ Asked("batch") => BatchInverted(question[2][1], question[2][2])
    /\ Asked("primes") => StreamExact(question[2])
    /\ Asked("fractions") => FractionsExact(question[2], question[3])

\* Sums, products, powers, compositions and shifts have the values their names
\* promise at every point; division, greatest common divisors and resultants agree
\* with divisibility and with one another; and the verifier of a Bezout certificate
\* accepts the generator's and no certificate of another divisor.
PolynomialsExact ==
    Asked("polynomials") => /\ ArithmeticExact(question[2], question[3])
                            /\ CalculusExact(question[2], question[3])
                            /\ DivisorsExact(question[2], question[3], Third)
                            /\ ResultantsExact(question[2], question[3], Third)

\* Yun's parts are accepted by their verifier; rational roots within the trials are
\* split off; "it never returns a partial factorization presented as complete":
\* every factor that Zassenhaus returns is irreducible, Kronecker finds the same
\* ones where it does not refuse, and a forged certificate whose primes keep the degree
\* of the factors they speak of, when the verifier accepts it, hides no repeated or
\* reducible factor and is the factorization itself.
FactorsExact ==
    Asked("factors") => /\ SquareFreeExact(question[2])
                        /\ RationalRootsFound(question[2])
                        /\ CompleteExact(question[2])

\* The same of every forged certificate, a prime that divides the leading coefficient
\* included: "degree drops mod p and modular irreducibility does not certify
\* irreducibility of the full-degree polynomial over Z", says the verifier of its test
\* on lengths.  z_to_fp keeps a leading zero, so the test refuses nothing.
WitnessCertifies ==
    Asked("factors") =>
        \A f \in complete_factorization(question[2]) : CertificatesHold(question[2], f, Forgeries(f))
=============================================================================

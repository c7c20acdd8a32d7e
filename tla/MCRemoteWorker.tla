--------------------------- MODULE MCRemoteWorker ---------------------------
EXTENDS RemoteWorker, KernelTerms

X == <<"sym", "x">>
Y == <<"sym", "y">>
N(n) == <<"int", n>>
Add(a, b) == <<"add", <<a, b>>>>
Mul(a, b) == <<"mul", <<a, b>>>>
Pow(a, n) == <<"pow", a, N(n)>>
Fn(f, a) == <<"fn", f, <<a>>>>

NonZero == <<"pred", "nonzero">>
MCEntailed == {<<Y, NonZero>>}

\* x is declared an integer, y a rational number.
Dom(name) == <<"dom", name>>
MCDeclared == {<<X, Dom("ZZ")>>, <<Y, Dom("QQ")>>}

Square(f, a) == Pow(Fn(f, a), 2)

\* Reductions the worker tries: for each reduction name one that holds and one
\* that must be refused (a partial factor erased, a wrong sum, a bound exceeded).
\* The zero power of a partial base is the one that is accepted and does not hold.
MCReductions ==
    {<<"add_zero_identity", Add(X, N(0)), X>>,
     <<"add_zero_identity", Add(X, N(0)), N(0)>>,
     <<"mul_one_identity", Mul(N(1), Pow(X, -1)), Pow(X, -1)>>,
     <<"mul_zero_annihilator", Mul(N(0), X), N(0)>>,
     <<"mul_zero_annihilator", Mul(N(0), Pow(X, -1)), N(0)>>,
     <<"mul_zero_annihilator", Mul(N(0), Fn("log", X)), N(0)>>,
     <<"constant_eval_add", Add(N(1), N(1)), N(2)>>,
     <<"constant_eval_add", Add(N(1), N(1)), N(0)>>,
     <<"constant_eval_mul", Mul(N(2), N(-1)), N(2)>>,
     <<"pow_zero_identity", Pow(Add(X, Y), 0), N(1)>>,
     <<"pow_zero_identity", Pow(N(0), 0), N(1)>>,
     <<"pow_zero_identity", Pow(Pow(X, -1), 0), N(1)>>,
     <<"pow_one_identity", Pow(X, 1), X>>,
     <<"elementary_zero_eval", Fn("cos", N(0)), N(1)>>,
     <<"elementary_zero_eval", Fn("cos", N(0)), N(0)>>,
     <<"elementary_one_eval", Fn("log", N(1)), N(0)>>,
     <<"pythagorean_identity", Add(Square("sin", X), Square("cos", X)), N(1)>>,
     <<"pythagorean_identity", Add(Square("sec", X), Mul(N(-1), Square("tan", X))), N(1)>>,
     <<"pythagorean_identity", Mul(Fn("log", X), Add(Square("sin", Y), Square("cos", Y))), Fn("log", X)>>,
     <<"pythagorean_identity", Add(Square("sin", Fn("log", X)), Square("cos", Fn("log", X))), N(1)>>,
     <<"simplify_normal_form", Mul(Add(X, N(1)), Add(X, N(-1))), Add(Pow(X, 2), N(-1))>>,
     <<"simplify_normal_form", Mul(X, Pow(X, -1)), N(1)>>,
     <<"simplify_normal_form", Mul(Pow(X, 2), Pow(X, 2)), Pow(X, 4)>>,
     <<"polynomial_ring_equivalence", Add(X, X), Mul(N(2), X)>>}

\* Coercions up and down the tower, to the domain of all expressions, and of an
\* expression whose domain nobody declared.
MCDomainClaims ==
    {<<N(1), Dom("QQ")>>, <<X, Dom("RR")>>, <<Y, Dom("ZZ")>>, <<Pow(X, -1), Dom("EX")>>}

Reductions(set) == {Rule(r[1], <<>>, <<r[2], r[3]>>) : r \in set}

ContextRules ==
    {Rule("Reflexivity", <<>>, <<X>>)}
      \cup {Rule("ContextPredicate", <<>>, <<e, NonZero>>) : e \in {X, Y}}
      \cup {Rule("ContextDomain", <<>>, c) : c \in MCDomainClaims}

MCAxioms ==
    Reductions(MCReductions) \cup ContextRules
      \cup {Rule("PolynomialNormalForm", <<>>, <<c>>) :
              c \in {Equality(Mul(X, N(2)), Add(X, X)), Equality(Mul(X, N(2)), X)}}

MCTemplates == {<<Mul(Pow(X, -1), Y), X>>}
MCFunctionNames == {<<"name", "sin">>}

\* A claim that can be proved, one that cannot, and one that is no equality.
MCAssignments ==
    {Equality(X, Add(X, N(0))), Equality(N(0), N(2)), PredicateHold(Y, NonZero)}

\* x = 0 is where partial expressions lose their value; y = 0 contradicts the
\* context.
MCEnvironments == {[s \in {X, Y} |-> IF s = X THEN a ELSE b] : a \in {0, 2, 5}, b \in {0, 3}}

\* The terms are compositional, as the proofs suppose (Semantics): over the
\* sides of the reductions, partial and refused ones included, equal parts give
\* equal wholes.
Sides == UNION {{r[2], r[3]} : r \in MCReductions}

ASSUME TermsCompositional ==
    \A env \in MCEnvironments, x, y \in Sides :
        ValueOf(x, env) = ValueOf(y, env) =>
            /\ \A t \in MCTemplates :
                  ValueOf(capture_avoiding_subs(t[1], t[2], x), env)
                    = ValueOf(capture_avoiding_subs(t[1], t[2], y), env)
            /\ \A f \in MCFunctionNames : ValueOf(Fn(f[2], x), env) = ValueOf(Fn(f[2], y), env)
            /\ \A z \in Sides :
                  /\ ValueOf(Add(x, z), env) = ValueOf(Add(y, z), env)
                  /\ ValueOf(Mul(z, x), env) = ValueOf(Mul(z, y), env)
                  /\ ValueOf(<<"pow", x, z>>, env) = ValueOf(<<"pow", y, z>>, env)
                  /\ ValueOf(<<"pow", z, x>>, env) = ValueOf(<<"pow", z, y>>, env)
=============================================================================

---------------------------- MODULE MCAlgorithms ----------------------------
EXTENDS Algorithms

Atoms == {<<"var", "x">>, <<"var", "y">>, Const(TRUE)}
Pairs(S) == {<<op, <<f, g>>>> : op \in {"and", "or"}, f \in S, g \in S}
              \cup {<<op, f, g>> : op \in {"implies", "equiv"}, f \in S, g \in S}
Level1 == Atoms \cup {Not(f) : f \in Atoms} \cup Pairs(Atoms)
            \cup {<<op, <<>>>> : op \in {"and", "or"}}
X1 == <<"var", "x">>
Y1 == <<"var", "y">>
Z1 == <<"var", "z">>
Clause(s) == <<"or", s>>
\* Three variables: all eight clauses, so that every branch must be refuted, and
\* a chain of equivalences.
AllClauses == <<"and", <<
    Clause(<<X1, Y1, Z1>>), Clause(<<X1, Y1, Not(Z1)>>),
    Clause(<<X1, Not(Y1), Z1>>), Clause(<<X1, Not(Y1), Not(Z1)>>),
    Clause(<<Not(X1), Y1, Z1>>), Clause(<<Not(X1), Y1, Not(Z1)>>),
    Clause(<<Not(X1), Not(Y1), Z1>>), Clause(<<Not(X1), Not(Y1), Not(Z1)>>)>>>>
Large == {<<"and", SubSeq(AllClauses[2], i, j)>> : i \in 1..3, j \in 5..8}
           \cup {Not(<<"equiv", <<"equiv", X1, Y1>>, <<"equiv", Z1, X1>>>>)}

MCFormulas == Large \cup Level1 \cup {Not(f) : f \in Level1} \cup Pairs(Level1)

-----------------------------------------------------------------------------
S == <<"sym", "s">>
R == <<"const", 2, "r">>
R2 == <<"const", 2, "q">>          \* another expression of the same value
Ends == {NegInf, Num(1), Num(3), S, Inf}
Intervals == {Interval(a, b, lo, ro) : a \in Ends, b \in Ends, lo \in BOOLEAN, ro \in BOOLEAN}
MCElements == {Num(0), Num(1), Num(2), S, R}
Composite ==
    {UnionOf(<<>>), IntersectionOf(<<>>), ComplementOf(EmptySet), ComplementOf(UniversalSet),
     UnionOf(<<Interval(Num(1), S, TRUE, FALSE), FiniteSet({Num(3)})>>),
     UnionOf(<<Interval(Num(1), Num(3), TRUE, TRUE), FiniteSet({Num(3), Num(1)})>>),
     UnionOf(<<Interval(NegInf, Num(1), TRUE, TRUE), Interval(Num(1), Inf, TRUE, TRUE)>>),
     IntersectionOf(<<Interval(NegInf, S, FALSE, TRUE), Interval(Num(1), Inf, FALSE, FALSE)>>),
     IntersectionOf(<<Interval(Num(1), Num(3), FALSE, TRUE), ComplementOf(FiniteSet({R}))>>),
     ComplementOf(FiniteSet({Num(1), S}))}
MCSets ==
    {EmptySet, UniversalSet, FiniteSet({Num(1), Num(3)}), FiniteSet({S}), FiniteSet({R}),
     FiniteSet({Num(3), R2}), Interval(R, Num(3), TRUE, FALSE)} \cup Composite
      \cup {i \in Intervals : i[2] = i[3] => i[4]}
MCSetValuations == [{S} -> Points]

-----------------------------------------------------------------------------
Graph(nodes, edges) == [nodes |-> nodes, adj |-> [v \in Vertices |-> {w \in Vertices : <<v, w>> \in edges}]]
\* Every forward edge, an edge back and a loop; vertex 3 may be an edge's end only.
Arcs == {<<u, v>> \in Vertices \X Vertices : u < v} \cup {<<4, 1>>, <<3, 3>>}
MCGraphs == {Graph(Vertices, edges) : edges \in SUBSET Arcs}
              \cup {Graph({1, 2, 4}, edges) : edges \in SUBSET {<<1, 2>>, <<2, 3>>, <<3, 4>>, <<4, 1>>}}
MCEarlierGraphs == {Graph({1, 2, 3}, {<<1, 2>>, <<2, 3>>}), Graph({1, 2}, {<<2, 1>>})}

Manifest(edges, universe, watermark, complete, private) ==
    [graph |-> Graph(Vertices, edges), universe |-> universe, watermark |-> watermark,
     complete |-> complete, private |-> private]
MCManifests == {Manifest(edges, u, w, c, p) :
    edges \in {{}, {<<1, 2>>}, {<<1, 2>>, <<2, 3>>, <<3, 2>>}}, u \in 1..2, w \in 1..2,
    c \in BOOLEAN, p \in {{}, {3}}}

-----------------------------------------------------------------------------
\* Digits at the ends of their range, so that carries and borrows run through.
MCMagnitudes ==
    {<<>>, <<1>>, <<63>>, <<0, 63>>, <<63, 63>>, <<1, 0, 1>>, <<63, 63, 63>>, <<0, 32, 9>>,
     <<62, 1, 63>>, <<7, 63, 0, 1>>, <<63, 63, 63, 63>>, <<1, 0, 0, 0, 33>>}
MCNumbers == (-40..40) \cup {64, -64, 4095, 4096, -4097, 1849, 2021, 2047, 2209, 3481}
MCModuli == (-3..45) \cup {49, 51, 63, 64, 65, 1849, 2021, 2047, 2209, 3481}
MCDegrees == 0..7
Congruences == {<<r, m>> : r \in -2..3, m \in {1, 2, 4, 6, 9}} \cup {<<1, 0>>, <<1, -2>>}
MCSystems == {<<>>} \cup {<<a>> : a \in Congruences} \cup {<<a, b>> : a \in Congruences, b \in Congruences}
               \cup {<<a, b, <<r, m>>>> : a \in Congruences, b \in Congruences, r \in {0, 5}, m \in {5, 8}}
MCBatches == {<<p, s>> : p \in {2, 5, 7}, s \in {<<>>}} \cup
             {<<7, s>> : s \in UNION {[1..n -> 0..6] : n \in 1..3}}

-----------------------------------------------------------------------------
\* Every magnitude around the floats' subnormal and overflow boundaries.
MCFractions == {Frac(n, d) : n \in {-13, -7, -3, -1, 0, 1, 2, 3, 5, 9, 11}, d \in 1..6}
                 \cup {<<n, 1>> : n \in {14, 15, 16, 17, -15, -16}} \cup {<<1, n>> : n \in {16, 17, 32, 33}}

Whole(s) == [k \in DOMAIN s |-> from_integer(s[k])]
MCPartners == {<<<<1, 2>>, <<-3, 4>>, <<1, 1>>>>, <<<<0, 1>>, <<0, 1>>, <<2, 3>>>>, Whole(<<0>>), <<<<1, 2>>>>,
               Whole(<<-1, 0, 0, 1>>)}
MCPolynomials == {Poly(Whole(SubSeq(f, 1, n))) : n \in 1..3, f \in [1..3 -> {-2, 0, 1, 3}]} \cup MCPartners
MCThird == Whole(<<1, 1>>)

Pieces == {Whole(s) : s \in {<<0, 1>>, <<1, 1>>, <<-1, 1>>, <<1, 2>>, <<-2, 3>>, <<1, 0, 1>>, <<-2, 0, 1>>,
                             <<1, 1, 1>>, <<-1, 1, 2>>, <<2, 1, 3>>}}
Times3(a, b, c) == PolyMul(a, PolyMul(b, c))
\* Irreducible polynomials that split modulo every prime, repeated roots, roots
\* beyond the trials and coefficients that are not integers.
MCProducts ==
    {p \in {PolyMul(a, b) : a \in Pieces, b \in Pieces} : degree(p) < 4}
      \cup {Times3(a, b, b) : a \in {Whole(<<1, 1>>), Whole(<<1, 2>>), Whole(<<3, 0, 1>>)},
                              b \in {Whole(<<-1, 1>>), Whole(<<1, 2>>)}}
      \cup {Whole(s) : s \in {<<-2, 0, -1, 0, 1>>, <<1, 0, 2, 0, 1>>, <<1, 1, 2, 1, 1>>, <<3>>, <<0>>,
                              <<1, 0, 0, 0, 1>>, <<1, 0, -10, 0, 1>>, <<2, 1, 0, 1>>, <<6, -5, -2, 1>>,
                              <<1, -1, 1, -1, 1>>, <<4, 0, 0, 0, 1>>, <<1, 0, 3, 0, 1>>, <<24, -50, 35, -10, 1>>}}
      \cup {<<<<1, 2>>, <<1, 3>>, <<1, 1>>>>, <<<<-1, 4>>, <<0, 1>>, <<1, 1>>>>, <<<<1, 1>>, <<-5, 2>>, <<-3, 2>>>>}
=============================================================================

------------------------------- MODULE SymSets -------------------------------
(***************************************************************************)
(* Operations on symbolic sets (crates/fsym-sets/src/lib.rs), over the      *)
(* real-line normal form of module RealSets, and what they must mean.       *)
(***************************************************************************)
EXTENDS RealSets

\* Emptiness of an interval with exact bounds: an interval at one infinity has
\* no real member.
interval_empty_status(start, end, left_open, right_open) ==
    {s > e \/ (s = e /\ (start[1] = "inf" \/ left_open \/ right_open))
       : s \in exact_bound(start), e \in exact_bound(end)}

EmptyInterval(set) == interval_empty_status(set[2], set[3], set[4], set[5]) = Yes

RECURSIVE is_empty_set(_)
is_empty_set(set) ==
    CASE set[1] = "empty"     -> Yes
      [] set[1] = "universal" -> No
      [] set[1] = "finite"    -> {set[2] = {}}
      [] set[1] = "interval"  ->
             LET status == interval_empty_status(set[2], set[3], set[4], set[5])
             IN IF status = None /\ set[2] = set[3] /\ (set[4] \/ set[5]) THEN Yes ELSE status
      [] set[1] = "union"     -> AllOf({is_empty_set(p) : p \in Range(set[2])})
      [] set[1] = "intersection" ->
             IF set[2] = <<>> THEN No
             ELSE IF \E p \in Range(set[2]) : is_empty_set(p) = Yes THEN Yes ELSE None
      [] set[1] = "complement" ->
             IF set[2] = UniversalSet THEN Yes ELSE IF set[2] = EmptySet THEN No ELSE None

\* Only two exact numbers can be told apart.
FiniteContains(elems, elem) ==
    IF elem \in elems THEN Yes
    ELSE IF elem[1] = "num" /\ \A e \in elems : e[1] = "num" THEN No ELSE None

IntervalContains(set, elem) ==
    IF EmptyInterval(set) THEN No
    ELSE {(el > s \/ (~ set[4] /\ el = s)) /\ (el < e \/ (~ set[5] /\ el = e))
            : el \in numeric_value(elem), s \in exact_bound(set[2]), e \in exact_bound(set[3])}

RECURSIVE contains(_, _)
contains(set, elem) ==
    IF set[1] # "finite" /\ RealLineContains(set, elem) # None THEN RealLineContains(set, elem)
    ELSE CASE set[1] = "empty"        -> No
           [] set[1] = "universal"    -> Yes
           [] set[1] = "finite"       -> FiniteContains(set[2], elem)
           [] set[1] = "interval"     -> IntervalContains(set, elem)
           [] set[1] = "union"        -> AnyOf({contains(p, elem) : p \in Range(set[2])})
           [] set[1] = "intersection" -> AllOf({contains(p, elem) : p \in Range(set[2])})
           [] set[1] = "complement"   -> Negated(contains(set[2], elem))

\* With both intervals' bounds exact; an infinite bound is open anyway.
IntervalSubset(a, b) ==
    {/\ bs < as \/ (bs = as /\ (b[2][1] = "inf" \/ ~ b[4] \/ a[4]))
     /\ ae < be \/ (ae = be /\ (a[3][1] = "inf" \/ ~ b[5] \/ a[5]))
       : as \in exact_bound(a[2]), ae \in exact_bound(a[3]),
         bs \in exact_bound(b[2]), be \in exact_bound(b[3])}

RECURSIVE is_subset(_, _)
is_subset(a, b) ==
    IF a = b \/ is_empty_set(a) = Yes THEN Yes
    ELSE IF is_empty_set(b) = Yes THEN is_empty_set(a)
    ELSE CASE b[1] = "universal" -> Yes
           [] b[1] # "universal" /\ a[1] = "finite" /\ b[1] = "finite" ->
                  AllOf({FiniteContains(b[2], e) : e \in a[2]})
           [] b[1] \notin {"universal", "finite"} /\ a[1] = "finite" ->
                  AllOf({contains(b, e) : e \in a[2]})
           [] a[1] = "interval" /\ b[1] = "interval" -> IntervalSubset(a, b)
           [] b[1] # "universal" /\ a[1] = "union" -> AllOf({is_subset(p, b) : p \in Range(a[2])})
           [] a[1] \notin {"finite", "union"} /\ b[1] = "intersection" ->
                  AllOf({is_subset(a, p) : p \in Range(b[2])})
           [] OTHER -> None

LeftOf(a, b) ==
    {ae < bs \/ (ae = bs /\ (a[5] \/ b[4])) : ae \in exact_bound(a[3]), bs \in exact_bound(b[2])}

RECURSIVE is_disjoint(_, _)
is_disjoint(a, b) ==
    IF Yes \in {is_empty_set(a), is_empty_set(b)} THEN Yes
    ELSE IF a[1] = "finite" THEN AllOf({Negated(contains(b, e)) : e \in a[2]})
    ELSE IF b[1] = "finite" THEN AllOf({Negated(contains(a, e)) : e \in b[2]})
    ELSE IF a[1] = "interval" /\ b[1] = "interval"
    THEN {x \/ y : x \in LeftOf(a, b), y \in LeftOf(b, a)}
    ELSE IF a[1] = "union" THEN AllOf({is_disjoint(p, b) : p \in Range(a[2])})
    ELSE IF b[1] = "union" THEN AllOf({is_disjoint(p, a) : p \in Range(b[2])})
    ELSE None

-----------------------------------------------------------------------------
(* Set algebra.                                                            *)

Flattened(op, a, b) ==
    IF a[1] = op /\ b[1] = op THEN <<op, a[2] \o b[2]>>
    ELSE IF a[1] = op THEN <<op, Append(a[2], b)>>
    ELSE IF b[1] = op THEN <<op, Append(b[2], a)>>
    ELSE <<op, <<a, b>>>>

union(a, b) ==
    LET normal == simplify(UnionOf(<<a, b>>))
    IN IF a = b THEN a
       ELSE IF normal # None THEN CHOOSE s \in normal : TRUE
       ELSE IF a = EmptySet THEN b ELSE IF b = EmptySet THEN a
       ELSE IF UniversalSet \in {a, b} THEN UniversalSet
       ELSE Flattened("union", a, b)

intersection(a, b) ==
    LET normal == simplify(IntersectionOf(<<a, b>>))
    IN IF a = b THEN a
       ELSE IF normal # None THEN CHOOSE s \in normal : TRUE
       ELSE IF is_disjoint(a, b) = Yes \/ EmptySet \in {a, b} THEN EmptySet
       ELSE IF a = UniversalSet THEN b ELSE IF b = UniversalSet THEN a
       ELSE Flattened("intersection", a, b)

ComplementInterval(set) ==
    LET below == Interval(NegInf, set[2], TRUE, ~ set[4])
        above == Interval(set[3], Inf, ~ set[5], TRUE)
    IN IF EmptyInterval(set) THEN UniversalSet
       ELSE IF set[2] = NegInf /\ set[3] = Inf THEN EmptySet
       ELSE IF set[2] = NegInf THEN above
       ELSE IF set[3] = Inf THEN below
       ELSE UnionOf(<<below, above>>)

DualOf(op) == IF op = "union" THEN "intersection" ELSE "union"

RECURSIVE complement(_)
complement(set) ==
    CASE set[1] = "empty"      -> UniversalSet
      [] set[1] = "universal"  -> EmptySet
      [] set[1] = "complement" -> set[2]
      [] set[1] = "finite"     -> ComplementOf(set)
      [] set[1] = "interval"   -> ComplementInterval(set)
      [] set[1] \in {"union", "intersection"} ->
             <<DualOf(set[1]), [i \in DOMAIN set[2] |-> complement(set[2][i])]>>

difference(a, b) ==
    LET exact == RealLineDifference(a, b)
    IN IF exact # None THEN CHOOSE s \in exact : TRUE ELSE intersection(a, complement(b))

symmetric_difference(a, b) == union(difference(a, b), difference(b, a))

-----------------------------------------------------------------------------
(* Measure and topology of the real line.                                  *)

expression_is_provably_real_point(e) == e[1] \in {"num", "const"}

finite_set_is_admitted_real(elems) == \A e \in elems : expression_is_provably_real_point(e)

measure(set) ==
    CASE set[1] = "empty"     -> {Num(0)}
      [] set[1] = "universal" -> {Inf}
      [] set[1] = "finite"    -> IF finite_set_is_admitted_real(set[2]) THEN {Num(0)} ELSE None
      [] set[1] = "interval"  ->
             IF EmptyInterval(set) THEN {Num(0)}
             ELSE IF interval_empty_status(set[2], set[3], set[4], set[5]) = No
             THEN {IF "inf" \in {set[2][1], set[3][1]} THEN Inf ELSE Num(set[3][2] - set[2][2])}
             ELSE IF set[2] = set[3] THEN {Num(0)} ELSE None
      [] OTHER -> IF set = UnionOf(<<>>) \/ set = ComplementOf(UniversalSet) THEN {Num(0)}
                  ELSE IF set = IntersectionOf(<<>>) \/ set = ComplementOf(EmptySet) THEN {Inf}
                  ELSE None

ExactBounds(set) == exact_bound(set[2]) # None /\ exact_bound(set[3]) # None

RECURSIVE interior(_)
interior(set) ==
    CASE set[1] \in {"empty", "universal"} -> {set}
      [] set[1] = "finite" -> IF finite_set_is_admitted_real(set[2]) THEN {EmptySet} ELSE None
      [] set[1] = "interval" ->
             IF ~ ExactBounds(set) THEN None
             ELSE IF EmptyInterval(set) \/ set[2] = set[3] THEN {EmptySet}
             ELSE {Interval(set[2], set[3], TRUE, TRUE)}
      [] set[1] = "intersection" ->
             IF set[2] = <<>> THEN {UniversalSet}
             ELSE {IntersectionOf(parts) :
                     parts \in FoldLeft(LAMBDA acc, s : {Append(x, y) : x \in acc, y \in interior(s)},
                                        {<<>>}, set[2])}
      [] OTHER -> IF set = UnionOf(<<>>) THEN {EmptySet} ELSE None

RECURSIVE closure(_)
closure(set) ==
    CASE set[1] \in {"empty", "universal"} -> {set}
      [] set[1] = "finite" -> IF finite_set_is_admitted_real(set[2]) THEN {finite(set[2])} ELSE None
      [] set[1] = "interval" ->
             IF EmptyInterval(set) THEN {EmptySet}
             ELSE IF ~ ExactBounds(set) THEN None
             ELSE {Interval(set[2], set[3], set[2] = NegInf, set[3] = Inf)}
      [] set[1] = "union" ->
             IF set[2] = <<>> THEN {EmptySet}
             ELSE {UnionOf(parts) :
                     parts \in FoldLeft(LAMBDA acc, s : {Append(x, y) : x \in acc, y \in closure(s)},
                                        {<<>>}, set[2])}
      [] OTHER -> IF set = IntersectionOf(<<>>) THEN {UniversalSet} ELSE None

BoundaryPoints(set) == {e \in {set[2], set[3]} : e[1] # "inf"}

boundary(set) ==
    CASE set[1] \in {"empty", "universal"} -> {EmptySet}
      [] set[1] = "finite" -> IF finite_set_is_admitted_real(set[2]) THEN {finite(set[2])} ELSE None
      [] set[1] = "interval" ->
             IF EmptyInterval(set) THEN {EmptySet}
             ELSE IF ~ ExactBounds(set) THEN None
             ELSE {finite(BoundaryPoints(set))}
      [] OTHER -> IF set[2] = <<>> THEN {EmptySet} ELSE None

\* is_open and is_closed of an interval: every finite end must be open, or
\* closed; the empty interval is both, a single point is closed.
EndsAre(set, open) ==
    /\ set[2][1] # "inf" => set[4] = open
    /\ set[3][1] # "inf" => set[5] = open

is_open(set) ==
    CASE set[1] \in {"empty", "universal"} -> Yes
      [] set[1] = "finite" -> IF set[2] = {} THEN Yes
                              ELSE IF finite_set_is_admitted_real(set[2]) THEN No ELSE None
      [] set[1] = "interval" -> IF EmptyInterval(set) THEN Yes
                                ELSE IF ExactBounds(set) THEN {EndsAre(set, TRUE)} ELSE None
      [] OTHER -> IF set[2] = <<>> THEN Yes ELSE None

is_closed(set) ==
    CASE set[1] \in {"empty", "universal"} -> Yes
      [] set[1] = "finite" -> IF finite_set_is_admitted_real(set[2]) THEN Yes ELSE None
      [] set[1] = "interval" -> IF EmptyInterval(set) THEN Yes
                                ELSE IF ExactBounds(set) THEN {EndsAre(set, FALSE)} ELSE None
      [] OTHER -> IF set[2] = <<>> THEN Yes ELSE None

is_compact(set) ==
    CASE set[1] = "empty"     -> Yes
      [] set[1] = "universal" -> No
      [] set[1] = "finite"    -> IF finite_set_is_admitted_real(set[2]) THEN Yes ELSE None
      [] set[1] = "interval"  ->
             IF EmptyInterval(set) THEN Yes
             ELSE IF ~ ExactBounds(set) THEN None
             ELSE {"inf" \notin {set[2][1], set[3][1]} /\ EndsAre(set, FALSE)}
      [] OTHER -> IF set = UnionOf(<<>>) THEN Yes
                  ELSE IF set = IntersectionOf(<<>>) THEN No ELSE None
-----------------------------------------------------------------------------
(* What the answers must mean.  The constants' values and those of the       *)
(* symbols divide the line into cells: the open cells are even, the points   *)
(* odd.  A set is the set of its cells.                                    *)

CONSTANT Points                 \* 0..n: the points of the line that have a name
ASSUME PointsAssumption == Points = 0..Max(Points)

Cells == 0..(2 * Max(Points) + 2)

PlaceOf(e, env) ==
    CASE e[1] \in {"num", "const"} -> 2 * e[2] + 1
      [] e[1] = "sym"              -> 2 * env[e] + 1
      [] e[1] = "inf"              -> IF e = Inf THEN 2 * Max(Points) + 3 ELSE -1

RECURSIVE Members(_, _)
Members(set, env) ==
    CASE set[1] = "empty"        -> {}
      [] set[1] = "universal"    -> Cells
      [] set[1] = "finite"       -> {PlaceOf(e, env) : e \in set[2]}
      [] set[1] = "interval"     ->
             LET lo == PlaceOf(set[2], env) hi == PlaceOf(set[3], env)
             IN {c \in Cells : (c > lo \/ (c = lo /\ ~ set[4])) /\ (c < hi \/ (c = hi /\ ~ set[5]))}
      [] set[1] = "union"        -> UNION {Members(p, env) : p \in Range(set[2])}
      [] set[1] = "intersection" -> {c \in Cells : \A p \in Range(set[2]) : c \in Members(p, env)}
      [] set[1] = "complement"   -> Cells \ Members(set[2], env)

InteriorCells(s) == {c \in s : c % 2 = 1 => {c - 1, c + 1} \subseteq s}
ClosureCells(s)  == Cells \ InteriorCells(Cells \ s)
BoundedCells(s)  == {0, Max(Cells)} \cap s = {}
LengthOf(s)      == Cardinality({c \in s : c % 2 = 0})

\* What is decided is the truth.
Sound(answer, truth) == answer \in {None, {truth}}

\* For every value of the symbols: membership, emptiness, inclusion and
\* disjointness are the truth wherever they are decided.
DecisionsSound(a, b, elems, envs) ==
    \A env \in envs :
        LET as == Members(a, env) bs == Members(b, env)
        IN /\ Sound(is_empty_set(a), as = {})
           /\ Sound(is_subset(a, b), as \subseteq bs)
           /\ Sound(is_disjoint(a, b), as \cap bs = {})
           /\ \A e \in elems : Sound(contains(a, e), PlaceOf(e, env) \in as)

\* The set operations have exactly the members they should have.
AlgebraExact(a, b, envs) ==
    \A env \in envs :
        LET as == Members(a, env) bs == Members(b, env)
        IN /\ Members(union(a, b), env) = as \cup bs
           /\ Members(intersection(a, b), env) = as \cap bs
           /\ Members(difference(a, b), env) = as \ bs
           /\ Members(symmetric_difference(a, b), env) = (as \ bs) \cup (bs \ as)
           /\ Members(complement(a), env) = Cells \ as

\* Interior, closure, boundary, measure and the topological predicates.
TopologySound(a, envs) ==
    \A env \in envs :
        LET as == Members(a, env)
        IN /\ \A r \in interior(a) : Members(r, env) = InteriorCells(as)
           /\ \A r \in closure(a)  : Members(r, env) = ClosureCells(as)
           /\ \A r \in boundary(a) : Members(r, env) = ClosureCells(as) \ InteriorCells(as)
           /\ Sound(is_open(a), InteriorCells(as) = as)
           /\ Sound(is_closed(a), ClosureCells(as) = as)
           /\ Sound(is_compact(a), ClosureCells(as) = as /\ BoundedCells(as))
           /\ \A m \in measure(a) :
                  IF BoundedCells(as) THEN m = Num(LengthOf(as)) ELSE m = Inf

\* The expressions a set is built from.
RECURSIVE Expressions(_)
Expressions(set) ==
    CASE set[1] \in {"empty", "universal"}    -> {}
      [] set[1] = "finite"                    -> set[2]
      [] set[1] = "interval"                  -> {set[2], set[3]}
      [] set[1] \in {"union", "intersection"} -> UNION {Expressions(p) : p \in Range(set[2])}
      [] set[1] = "complement"                -> Expressions(set[2])

\* Normal forms are canonical: sets have the same one only if they are equal,
\* and then always unless a constant is known by enclosures only.
NormalFormCanonical(a, b, envs) ==
    simplify(a) # None /\ simplify(b) # None =>
        LET equal == \A env \in envs : Members(a, env) = Members(b, env)
        IN /\ simplify(a) = simplify(b) => equal
           /\ equal => \/ simplify(a) = simplify(b)
                       \/ \E e \in Expressions(a) \cup Expressions(b) : e[1] = "const"
=============================================================================

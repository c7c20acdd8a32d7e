------------------------------ MODULE RealSets ------------------------------
(***************************************************************************)
(* Symbolic sets of real numbers (crates/fsym-sets/src): three-valued       *)
(* membership, inclusion and topology (lib.rs), and the exact real-line     *)
(* normal form that unions, intersections and differences use               *)
(* (realline.rs).                                                          *)
(*                                                                         *)
(* An expression is <<"num", n>> (an exact rational), <<"const", v, name>>  *)
(* (another real constant, whose value v is only known through enclosures), *)
(* <<"sym", name>>, <<"inf", 1>> or <<"inf", -1>>.  An answer is the set of *)
(* possible results: {} is None.  Non-real constants are left out.         *)
(***************************************************************************)
EXTENDS Integers, Sequences, FiniteSets, FiniteSetsExt, SequencesExt

Inf    == <<"inf", 1>>
NegInf == <<"inf", -1>>
Num(n) == <<"num", n>>

EmptySet     == <<"empty">>
UniversalSet == <<"universal">>
Interval(start, end, left_open, right_open) == <<"interval", start, end, left_open, right_open>>
FiniteSet(elems)    == <<"finite", elems>>
UnionOf(parts)      == <<"union", parts>>
IntersectionOf(parts) == <<"intersection", parts>>
ComplementOf(inner) == <<"complement", inner>>

finite(elems) == IF elems = {} THEN EmptySet ELSE FiniteSet(elems)

None == {}
Yes  == {TRUE}
No   == {FALSE}

\* Combine the answers for all members: one refutation decides, and all must
\* be confirmed.
AllOf(answers) == IF No \in answers THEN No ELSE IF None \in answers THEN None ELSE Yes

Negated(answer) == {~ b : b \in answer}

AnyOf(answers) == Negated(AllOf({Negated(a) : a \in answers}))

-----------------------------------------------------------------------------
(* Order of constants: the result is -1, 0 or 1.                           *)

Compare(x, y) == IF x < y THEN -1 ELSE IF x > y THEN 1 ELSE 0

numeric_value(e) == IF e[1] = "num" THEN {e[2]} ELSE None

\* Exact extended-real bounds, with the infinities far outside.
Far == 1000

exact_bound(e) ==
    IF e[1] = "num" THEN {e[2]} ELSE IF e[1] = "inf" THEN {e[2] * Far} ELSE None

\* A certified order.  Two different constants of the same value cannot be told
\* apart by enclosures.
real_order(a, b) ==
    IF a = b THEN {0}
    ELSE IF a[1] = "inf" THEN {a[2]}
    ELSE IF b[1] = "inf" THEN {-b[2]}
    ELSE IF a[1] = "num" /\ b[1] = "num" THEN {Compare(a[2], b[2])}
    ELSE IF "sym" \in {a[1], b[1]} \/ a[2] = b[2] THEN None
    ELSE {Compare(a[2], b[2])}

-----------------------------------------------------------------------------
(* The real-line normal form: sorted disjoint pieces.                      *)

Piece(lo, hi, lo_open, hi_open) == [lo |-> lo, hi |-> hi, lo_open |-> lo_open, hi_open |-> hi_open]

is_point(p) == p.lo = p.hi /\ ~ p.lo_open /\ ~ p.hi_open

\* Does p start after q?  A closed bound starts before an open one.
StartsAfter(p, q) ==
    {c = 1 \/ (c = 0 /\ p.lo_open /\ ~ q.lo_open) : c \in real_order(p.lo, q.lo)}

\* Insert p into sorted pieces from the right, one checked comparison at a time.
RECURSIVE InsertPiece(_, _)
InsertPiece(sorted, p) ==
    IF sorted = <<>> THEN {<<p>>}
    ELSE UNION {IF after THEN {Append(s, Last(sorted)) : s \in InsertPiece(Front(sorted), p)}
                ELSE {Append(sorted, p)}
                  : after \in StartsAfter(Last(sorted), p)}

checked_sort(pieces) ==
    FoldLeft(LAMBDA acc, p : UNION {InsertPiece(s, p) : s \in acc}, {<<>>}, pieces)

\* Mutant: pieces that meet at one open and one closed end stay apart.
MutTouches(last, p) ==
    {c = 1 \/ (c = 0 /\ ~ last.hi_open /\ ~ p.lo_open) : c \in real_order(last.hi, p.lo)}

Touches(last, p) ==
    {c = 1 \/ (c = 0 /\ ~ (last.hi_open /\ p.lo_open)) : c \in real_order(last.hi, p.lo)}

Extended(last, p) ==
    {CASE c = 1  -> [last EXCEPT !.hi = p.hi, !.hi_open = p.hi_open]
       [] c = 0  -> [last EXCEPT !.hi_open = @ /\ p.hi_open]
       [] c = -1 -> last
         : c \in real_order(p.hi, last.hi)}

Merge(out, p) ==
    IF out = <<>> THEN {<<p>>}
    ELSE UNION {IF touches THEN {Append(Front(out), q) : q \in Extended(Last(out), p)}
                ELSE {Append(out, p)}
                  : touches \in Touches(Last(out), p)}

normalize(pieces) ==
    UNION {FoldLeft(LAMBDA acc, p : UNION {Merge(out, p) : out \in acc}, {<<>>}, sorted)
             : sorted \in checked_sort(pieces)}

\* The common part of two pieces: a sequence of at most one piece.
intersect_piece(a, b) ==
    UNION {UNION {
        LET lo      == IF l = -1 THEN b.lo ELSE a.lo
            lo_open == CASE l = 1 -> a.lo_open [] l = -1 -> b.lo_open
                         [] l = 0 -> a.lo_open \/ b.lo_open
            hi      == IF h = 1 THEN b.hi ELSE a.hi
            hi_open == CASE h = -1 -> a.hi_open [] h = 1 -> b.hi_open
                         [] h = 0 -> a.hi_open \/ b.hi_open
        IN {IF c = -1 \/ (c = 0 /\ ~ lo_open /\ ~ hi_open /\ lo[1] # "inf")
            THEN <<Piece(lo, hi, lo_open, hi_open)>> ELSE <<>>
              : c \in real_order(lo, hi)}
            : h \in real_order(a.hi, b.hi)} : l \in real_order(a.lo, b.lo)}

intersect(as, bs) ==
    LET pairs == [k \in 1..(Len(as) * Len(bs)) |->
                    <<as[1 + ((k - 1) \div Len(bs))], bs[1 + ((k - 1) % Len(bs))]>>]
    IN UNION {normalize(out) :
           out \in FoldLeft(LAMBDA acc, pr : {o \o c : o \in acc, c \in intersect_piece(pr[1], pr[2])},
                            {<<>>}, pairs)}

IsGap(gap, c) == c = -1 \/ is_point(gap)

\* The gaps between the pieces, and the rest up to infinity.
RealLineComplement(as) ==
    LET Gap(i) == Piece(IF i = 1 THEN NegInf ELSE as[i - 1].hi,
                        IF i > Len(as) THEN Inf ELSE as[i].lo,
                        IF i = 1 THEN TRUE ELSE ~ as[i - 1].hi_open,
                        IF i > Len(as) THEN TRUE ELSE ~ as[i].lo_open)
        Step(acc, i) ==
            {IF IF i > Len(as) THEN c = -1 ELSE IsGap(Gap(i), c) THEN Append(out, Gap(i)) ELSE out
               : out \in acc, c \in real_order(Gap(i).lo, Gap(i).hi)}
    IN FoldLeft(Step, {<<>>}, [i \in 1..(Len(as) + 1) |-> i])

RECURSIVE pieces_of(_)
pieces_of(set) ==
    CASE set[1] = "empty" -> {<<>>}
      [] set[1] = "interval" ->
             LET p == Piece(set[2], set[3], set[4] \/ set[2] = NegInf, set[5] \/ set[3] = Inf)
             IN {IF c = -1 \/ (c = 0 /\ is_point(p)) THEN <<p>> ELSE <<>>
                   : c \in real_order(set[2], set[3])}
      [] set[1] = "finite" ->
             IF \E e \in set[2] : e[1] = "inf" \/ real_order(e, Num(0)) = None THEN None
             ELSE normalize([i \in 1..Cardinality(set[2]) |->
                                LET e == SetToSeq(set[2])[i] IN Piece(e, e, FALSE, FALSE)])
      [] set[1] = "union" ->
             UNION {normalize(all) :
                all \in FoldLeft(LAMBDA acc, s : {x \o y : x \in acc, y \in pieces_of(s)},
                                 {<<>>}, set[2])}
      [] set[1] = "intersection" ->
             IF set[2] = <<>> THEN None
             ELSE FoldLeft(LAMBDA acc, s : UNION {UNION {intersect(x, y) : y \in pieces_of(s)}
                                                    : x \in acc},
                           pieces_of(Head(set[2])), Tail(set[2]))
      [] set[1] \in {"universal", "complement"} -> None

to_set(pieces) ==
    LET points == {p.lo : p \in {pieces[i] : i \in {j \in DOMAIN pieces : is_point(pieces[j])}}}
        spans  == SelectSeq(pieces, LAMBDA p : ~ is_point(p))
        parts  == (IF points = {} THEN <<>> ELSE <<finite(points)>>)
                    \o [i \in DOMAIN spans |-> Interval(spans[i].lo, spans[i].hi,
                                                        spans[i].lo_open, spans[i].hi_open)]
    IN IF Len(parts) = 0 THEN EmptySet ELSE IF Len(parts) = 1 THEN parts[1] ELSE UnionOf(parts)

simplify(set) == {to_set(p) : p \in pieces_of(set)}

RealLineDifference(a, b) ==
    {to_set(r) : r \in UNION {UNION {UNION {intersect(x, c) : c \in RealLineComplement(y)}
                                       : y \in pieces_of(b)} : x \in pieces_of(a)}}

Within(elem, p) ==
    {(lo = 1 \/ (lo = 0 /\ ~ p.lo_open)) /\ (hi = -1 \/ (hi = 0 /\ ~ p.hi_open))
       : lo \in real_order(elem, p.lo), hi \in real_order(elem, p.hi)}

\* The pieces are tried in order, up to the first that holds or is undecided.
RECURSIVE WithinSome(_, _)
WithinSome(elem, pieces) ==
    IF pieces = <<>> THEN No
    ELSE IF Within(elem, Head(pieces)) = No THEN WithinSome(elem, Tail(pieces))
    ELSE Within(elem, Head(pieces))

RealLineContains(set, elem) ==
    IF real_order(elem, Num(0)) = None THEN None
    ELSE UNION {IF elem[1] = "inf" THEN No ELSE WithinSome(elem, p) : p \in pieces_of(set)}
=============================================================================

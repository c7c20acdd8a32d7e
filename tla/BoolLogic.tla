------------------------------ MODULE BoolLogic ------------------------------
(***************************************************************************)
(* Propositional logic (crates/fsym-logic/src/lib.rs): rewriting, truth     *)
(* tables and normal forms, and the Tseitin/DPLL satisfiability solver.     *)
(*                                                                         *)
(* A formula is <<"const", b>>, <<"var", name>>, <<"not", f>>,              *)
(* <<"and", fs>>, <<"or", fs>>, <<"implies", f, g>> or <<"equiv", f, g>>.   *)
(* Search work is counted in calls of dpll; the other charges of the code   *)
(* refuse in the same way.                                                 *)
(***************************************************************************)
EXTENDS Integers, Sequences, FiniteSets, FiniteSetsExt, SequencesExt

CONSTANTS MaxTableVariables,    \* MAX_TRUTH_TABLE_VARIABLES
          MaxDpllVariables,     \* MAX_DPLL_VARIABLES
          MaxSearchWork         \* MAX_DPLL_SEARCH_WORK

Const(b) == <<"const", b>>
Not(f)   == <<"not", f>>

\* The formulas a formula is directly made of.
Parts(f) ==
    CASE f[1] \in {"const", "var"}      -> <<>>
      [] f[1] = "not"                   -> <<f[2]>>
      [] f[1] \in {"and", "or"}         -> f[2]
      [] f[1] \in {"implies", "equiv"}  -> <<f[2], f[3]>>

RECURSIVE variables(_)
variables(f) ==
    IF f[1] = "var" THEN {f[2]} ELSE UNION {variables(g) : g \in Range(Parts(f))}

RECURSIVE evaluate(_, _)
evaluate(f, env) ==
    CASE f[1] = "const"   -> f[2]
      [] f[1] = "var"     -> env[f[2]]
      [] f[1] = "not"     -> ~ evaluate(f[2], env)
      [] f[1] = "and"     -> \A i \in DOMAIN f[2] : evaluate(f[2][i], env)
      [] f[1] = "or"      -> \E i \in DOMAIN f[2] : evaluate(f[2][i], env)
      [] f[1] = "implies" -> evaluate(f[2], env) => evaluate(f[3], env)
      [] f[1] = "equiv"   -> evaluate(f[2], env) = evaluate(f[3], env)

-----------------------------------------------------------------------------
(* Constructors and rewriting.                                             *)

\* The connective applied to two formulas: constants absorb or vanish, and
\* nested applications of the same connective are flattened.
Join(op, f, g) ==
    LET absorbing == Const(op = "or")
        unit      == Const(op = "and")
    IN IF absorbing \in {f, g} THEN absorbing
       ELSE IF f = unit THEN g
       ELSE IF g = unit THEN f
       ELSE IF f[1] = op /\ g[1] = op THEN <<op, f[2] \o g[2]>>
       ELSE IF f[1] = op THEN <<op, Append(f[2], g)>>
       ELSE IF g[1] = op THEN <<op, Append(g[2], f)>>
       ELSE <<op, <<f, g>>>>

and(f, g) == Join("and", f, g)
or(f, g)  == Join("or", f, g)

Dual(op) == IF op = "and" THEN "or" ELSE "and"

RECURSIVE NnfOf(_, _)
NnfOf(f, negated) ==
    LET Both(op, a, na, b, nb) == <<op, <<NnfOf(a, na), NnfOf(b, nb)>>>>
    IN CASE f[1] = "const" -> Const(f[2] # negated)
         [] f[1] = "var"   -> IF negated THEN Not(f) ELSE f
         [] f[1] = "not"   -> NnfOf(f[2], ~ negated)
         [] f[1] \in {"and", "or"} ->
                <<IF negated THEN Dual(f[1]) ELSE f[1],
                  [i \in DOMAIN f[2] |-> NnfOf(f[2][i], negated)]>>
         [] f[1] = "implies" ->
                Both(IF negated THEN "and" ELSE "or", f[2], ~ negated, f[3], negated)
         [] f[1] = "equiv" ->
                <<"or", <<Both("and", f[2], FALSE, f[3], negated),
                          Both("and", f[2], TRUE, f[3], ~ negated)>>>>

nnf(f) == NnfOf(f, FALSE)

\* The first alternative of the pattern that matches decides: not(not x) is not
\* found to be the negation of its own negation.
is_negation_of(a, b) == IF a[1] = "not" THEN a[2] = b ELSE b = Not(a)

Deduplicated(fs) ==
    FoldLeft(LAMBDA acc, f : IF Contains(acc, f) THEN acc ELSE Append(acc, f), <<>>, fs)

\* A conjunction or disjunction of simplified formulas.
Collected(op, fs) ==
    LET flat   == FoldLeft(LAMBDA acc, f : IF f[1] = op THEN acc \o f[2] ELSE Append(acc, f),
                           <<>>, fs)
        absorbing == Const(op = "or")
        kept   == Deduplicated(SelectSeq(flat, LAMBDA f : f # Const(op = "and")))
    IN IF Contains(flat, absorbing) THEN absorbing
       ELSE IF kept = <<>> THEN Const(op = "and")
       ELSE IF \E i, j \in DOMAIN kept : i < j /\ is_negation_of(kept[i], kept[j]) THEN absorbing
       ELSE IF Len(kept) = 1 THEN kept[1] ELSE <<op, kept>>

SimplifiedNot(f) ==
    CASE f[1] = "const" -> Const(~ f[2])
      [] f[1] = "not"   -> f[2]
      [] OTHER          -> Not(f)

RECURSIVE simplify_logic(_)
simplify_logic(f) ==
    LET simple == [i \in DOMAIN Parts(f) |-> simplify_logic(Parts(f)[i])]
        a == simple[1]
        b == simple[2]
    IN CASE f[1] \in {"const", "var"} -> f
         [] f[1] = "not"              -> SimplifiedNot(a)
         [] f[1] \in {"and", "or"}    -> Collected(f[1], simple)
         [] f[1] = "implies"          -> simplify_logic(<<"or", <<Not(a), b>>>>)
         [] f[1] = "equiv"            ->
                IF a = b THEN Const(TRUE)
                ELSE IF is_negation_of(a, b) THEN Const(FALSE)
                ELSE IF a = Const(TRUE) THEN b
                ELSE IF b = Const(TRUE) THEN a
                ELSE IF a = Const(FALSE) THEN simplify_logic(Not(b))
                ELSE IF b = Const(FALSE) THEN simplify_logic(Not(a))
                ELSE <<"equiv", a, b>>

-----------------------------------------------------------------------------
(* Truth tables and the canonical normal forms.  A table is a function from  *)
(* assignments to values; a literal is <<name, positive>>.  The empty set is *)
(* the refusal of a table that is too large.                               *)

TruthTableOf(f) ==
    IF Cardinality(variables(f)) > MaxTableVariables THEN {}
    ELSE {[env \in [variables(f) -> BOOLEAN] |-> evaluate(f, env)]}

maxterm(env) == {<<v, ~ env[v]>> : v \in DOMAIN env}
minterm(env) == {<<v, env[v]>> : v \in DOMAIN env}

to_cnf(f) ==
    {LET falsifying == {e \in DOMAIN t : ~ t[e]}
     IN IF falsifying = DOMAIN t THEN {{}} ELSE {maxterm(e) : e \in falsifying}
       : t \in TruthTableOf(f)}

to_dnf(f) ==
    {{minterm(env) : env \in {e \in DOMAIN t : t[e]}} : t \in TruthTableOf(f)}

-----------------------------------------------------------------------------
(* The Tseitin encoding.  An encoder is [clauses, original, memo, count];    *)
(* a clause is a sequence of literals <<variable, positive>>.  `fails` is   *)
(* set once a variable is refused, and nothing is encoded after that.      *)

NewEncoder ==
    [clauses |-> <<>>, original |-> <<>>, memo |-> <<>>, count |-> 0, fails |-> FALSE]

With(f, key, value) == [x \in DOMAIN f \cup {key} |-> IF x = key THEN value ELSE f[x]]

Pos(v) == <<v, TRUE>>
Neg(v) == <<v, FALSE>>

EquivalentClauses(v, left, right) ==
    <<<<Neg(v), Neg(left), Pos(right)>>, <<Neg(v), Pos(left), Neg(right)>>,
      <<Pos(v), Pos(left), Pos(right)>>, <<Pos(v), Neg(left), Neg(right)>>>>

\* The clauses that make variable v equivalent to f, given its parts' variables.
DefiningClauses(f, v, kids) ==
    CASE f[1] = "var"   -> <<>>
      [] f[1] = "const" -> <<<<IF f[2] THEN Pos(v) ELSE Neg(v)>>>>
      [] f[1] = "not"   -> <<<<Neg(v), Neg(kids[1])>>, <<Pos(v), Pos(kids[1])>>>>
      [] f[1] = "and"   -> [i \in DOMAIN kids |-> <<Neg(v), Pos(kids[i])>>]
                             \o <<<<Pos(v)>> \o [i \in DOMAIN kids |-> Neg(kids[i])]>>
      [] f[1] = "or"    -> [i \in DOMAIN kids |-> <<Pos(v), Neg(kids[i])>>]
                             \o <<<<Neg(v)>> \o [i \in DOMAIN kids |-> Pos(kids[i])]>>
      [] f[1] = "implies" ->
             <<<<Pos(v), Pos(kids[1])>>, <<Pos(v), Neg(kids[2])>>,
               <<Neg(v), Neg(kids[1]), Pos(kids[2])>>>>
      [] f[1] = "equiv" -> EquivalentClauses(v, kids[1], kids[2])

\* Parts first, then a new variable for f itself.  memo[f] is its variable.
RECURSIVE encode(_, _)
encode(enc, f) ==
    IF enc.fails \/ f \in DOMAIN enc.memo THEN enc ELSE
    LET done == FoldLeft(encode, enc, Parts(f))
        v    == done.count + 1
        kids == [i \in DOMAIN Parts(f) |-> done.memo[Parts(f)[i]]]
    IN IF done.fails THEN done
       ELSE IF v > MaxDpllVariables THEN [done EXCEPT !.fails = TRUE]
       ELSE [done EXCEPT !.count = v,
                         !.memo = With(@, f, v),
                         !.original = IF f[1] = "var" THEN With(@, f[2], v) ELSE @,
                         !.clauses = @ \o DefiningClauses(f, v, kids)]

-----------------------------------------------------------------------------
(* DPLL.  A model is a partial assignment of the variables 1..count.         *)

Satisfied(clause, model) ==
    \E i \in DOMAIN clause :
        clause[i][1] \in DOMAIN model /\ model[clause[i][1]] = clause[i][2]

\* Positions of the clause's literals whose variable has no value yet.
Unassigned(clause, model) == {i \in DOMAIN clause : clause[i][1] \notin DOMAIN model}

Falsified(clause, model) == ~ Satisfied(clause, model) /\ Unassigned(clause, model) = {}

\* Two occurrences of one literal do not make a unit.
IsUnit(clause, model) ==
    ~ Satisfied(clause, model) /\ Cardinality(Unassigned(clause, model)) = 1

Occurs(clauses, model, literal) ==
    \E c \in DOMAIN clauses : ~ Satisfied(clauses[c], model) /\ Contains(clauses[c], literal)

PureVariables(clauses, model, count) ==
    {v \in (1..count) \ DOMAIN model :
        Occurs(clauses, model, Pos(v)) # Occurs(clauses, model, Neg(v))}

Answer(kind, model, used) == [kind |-> kind, model |-> model, used |-> used]

\* Mutant: an exhausted search budget ends in "unsatisfiable".
MutSearchRefused(model, used) == Answer("unsat", model, used)

SearchRefused(model, used) == Answer("refused", model, used)

RECURSIVE dpll(_, _, _, _)
dpll(clauses, count, model, used) ==
    LET now   == used + 1
        units == {c \in DOMAIN clauses : IsUnit(clauses[c], model)}
        pure  == PureVariables(clauses, model, count)
        free  == (1..count) \ DOMAIN model
        Assign(v, value, spent) == dpll(clauses, count, With(model, v, value), spent)
    IN IF used >= MaxSearchWork THEN SearchRefused(model, used)
       ELSE IF \E c \in DOMAIN clauses : Falsified(clauses[c], model)
       THEN Answer("unsat", model, now)
       ELSE IF \A c \in DOMAIN clauses : Satisfied(clauses[c], model)
       THEN Answer("sat", model, now)
       ELSE IF units # {}
       THEN LET clause  == clauses[Min(units)]
                literal == clause[CHOOSE i \in Unassigned(clause, model) : TRUE]
            IN Assign(literal[1], literal[2], now)
       ELSE IF pure # {}
       THEN Assign(Min(pure), Occurs(clauses, model, Pos(Min(pure))), now)
       ELSE IF free = {} THEN Answer("violation", model, now)
       ELSE LET first == Assign(Min(free), TRUE, now)
            IN IF first.kind # "unsat" THEN first
               ELSE Assign(Min(free), FALSE, first.used)

\* Search for a model in which f has the required value; variables the search
\* left open are false.
dpll_with_root_value(f, required) ==
    LET Public(original, model) ==
            [v \in DOMAIN original |-> original[v] \in DOMAIN model /\ model[original[v]]]
        Checked(public, used) ==
            IF evaluate(f, public) # required THEN Answer("violation", <<>>, used)
            ELSE Answer("sat", public, used)
        Reported(enc, found) ==
            IF found.kind # "sat" THEN Answer(found.kind, <<>>, found.used)
            ELSE Checked(Public(enc.original, found.model), found.used)
        Solved(enc) ==
            IF enc.fails THEN Answer("refused", <<>>, 0)
            ELSE Reported(enc, dpll(Append(enc.clauses, <<<<enc.memo[f], required>>>>), enc.count, <<>>, 0))
    IN Solved(encode(NewEncoder, f))

-----------------------------------------------------------------------------
(* Properties of the algorithms, for one formula.                          *)

Assignments(f) == [variables(f) -> BOOLEAN]

SameMeaning(f, g) ==
    LET vs == variables(f) \cup variables(g)
    IN \A env \in [vs -> BOOLEAN] : evaluate(f, env) = evaluate(g, env)

RECURSIVE InNnf(_)
InNnf(f) ==
    CASE f[1] \in {"const", "var"} -> TRUE
      [] f[1] = "not"              -> f[2][1] = "var"
      [] f[1] \in {"and", "or"}    -> \A i \in DOMAIN f[2] : InNnf(f[2][i])
      [] OTHER                     -> FALSE

RewritingExact(f) ==
    /\ SameMeaning(f, nnf(f)) /\ InNnf(nnf(f))
    /\ SameMeaning(f, simplify_logic(f)) /\ simplify_logic(simplify_logic(f)) = simplify_logic(f)
    /\ variables(simplify_logic(f)) \subseteq variables(f)
    /\ f[1] \in {"and", "or"} /\ Len(f[2]) = 2 => SameMeaning(f, Join(f[1], f[2][1], f[2][2]))

Agrees(literal, env) == env[literal[1]] = literal[2]

NormalFormsExact(f) ==
    /\ \A cnf \in to_cnf(f) : \A env \in Assignments(f) :
           evaluate(f, env) = \A clause \in cnf : \E l \in clause : Agrees(l, env)
    /\ \A dnf \in to_dnf(f) : \A env \in Assignments(f) :
           evaluate(f, env) = \E term \in dnf : \A l \in term : Agrees(l, env)

SolverDecides(f) ==
    LET Right(required, answer) ==
            /\ answer.kind \in {"sat", "unsat", "refused"}
            /\ answer.kind = "sat" => /\ DOMAIN answer.model = variables(f)
                                      /\ evaluate(f, answer.model) = required
            /\ answer.kind = "unsat" => \A env \in Assignments(f) : evaluate(f, env) # required
    IN \A required \in BOOLEAN : Right(required, dpll_with_root_value(f, required))
=============================================================================

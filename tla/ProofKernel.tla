----------------------------- MODULE ProofKernel -----------------------------
(***************************************************************************)
(* The proof kernel (crates/fsym-proof-kernel/src/kernel.rs): what each    *)
(* inference rule establishes, the export of a derivation and the          *)
(* independent verifier, as operators on claims and derivations.           *)
(*                                                                         *)
(* What is computed on terms comes in as parameters (KernelTerms defines   *)
(* it).  An operator that the code lets fail returns the set of its        *)
(* results: the empty set is the error.  Step identifiers count from 1.    *)
(***************************************************************************)
EXTENDS Integers, Sequences, FiniteSets, Functions

CONSTANTS capture_avoiding(_, _, _),   \* capture_avoiding_subs
          normal_forms_agree(_, _),    \* check_polynomial_normal_form
          reduces(_, _, _),            \* check_definitional_reduction
          Value(_, _),                 \* the value of an expression in an environment
          Undefined,                   \* the value of an expression that has none
          Entailed,                    \* pairs <<expr, <<"pred", p>>>> the context entails
          Declared,                    \* pairs <<symbol, domain>> of the context: domain_of
          coerces(_, _),               \* can_coerce_to
          InDomain(_, _)               \* whether a value belongs to a domain

Equality(lhs, rhs)          == [kind |-> "Equality", lhs |-> lhs, rhs |-> rhs]
AlgebraicIdentity(lhs, rhs) == [kind |-> "AlgebraicIdentity", lhs |-> lhs, rhs |-> rhs]
PredicateHold(expr, pred)   == [kind |-> "PredicateHold", lhs |-> expr, rhs |-> pred]
DomainMembership(expr, dom) == [kind |-> "DomainMembership", lhs |-> expr, rhs |-> dom]

ZZ == <<"dom", "ZZ">>

-----------------------------------------------------------------------------
(* Rules.  A rule is [name, ids, args]: the steps it refers to and what     *)
(* else it carries (expressions, <<"name", f>>, a predicate, a domain, or a *)
(* lemma's claim).                                                         *)

\* check_strictly_prior, a known step, and an Equality claim.
Premises(ids, current, claims) ==
    \A i \in Range(ids) : i < current /\ i \in DOMAIN claims /\ claims[i].kind = "Equality"

\* Mutant: the middle terms are not compared.
MutChained(lhss, rhss) == {Equality(lhss[1], rhss[2])}

Chained(lhss, rhss) == IF rhss[1] = lhss[2] THEN {Equality(lhss[1], rhss[2])} ELSE {}

\* The domain the context knows an expression to be in: a literal's or a
\* declared symbol's.
KnownDomains(expr) ==
    CASE expr[1] = "int" -> {ZZ}
      [] expr[1] = "sym" -> {p[2] : p \in {q \in Declared : q[1] = expr}}
      [] OTHER           -> {}

\* The claim that a rule with premises lhss[k] = rhss[k] establishes, if it is valid.
Established(name, args, lhss, rhss) ==
    CASE name = "Reflexivity"  -> {Equality(args[1], args[1])}
      [] name = "Symmetry"     -> {Equality(rhss[1], lhss[1])}
      [] name = "Transitivity" -> Chained(lhss, rhss)
      [] name = "CongruenceAdd" ->
             IF lhss = <<>> THEN {} ELSE {Equality(<<"add", lhss>>, <<"add", rhss>>)}
      [] name = "CongruenceMul" ->
             IF lhss = <<>> THEN {} ELSE {Equality(<<"mul", lhss>>, <<"mul", rhss>>)}
      [] name = "CongruencePow" ->
             {Equality(<<"pow", lhss[1], lhss[2]>>, <<"pow", rhss[1], rhss[2]>>)}
      [] name = "CongruenceFunction" ->
             {Equality(<<"fn", args[1][2], lhss>>, <<"fn", args[1][2], rhss>>)}
      [] name = "Substitution" ->
             {Equality(capture_avoiding(args[1], args[2], lhss[1]),
                       capture_avoiding(args[1], args[2], rhss[1]))}
      [] name = "ContextPredicate" ->
             IF args \in Entailed THEN {PredicateHold(args[1], args[2])} ELSE {}
      [] name = "ContextDomain" ->
             IF \E known \in KnownDomains(args[1]) : coerces(known, args[2])
             THEN {DomainMembership(args[1], args[2])} ELSE {}
      [] name = "PolynomialNormalForm" ->
             IF normal_forms_agree(args[1].lhs, args[1].rhs) THEN {args[1]} ELSE {}
      [] OTHER ->   \* DefinitionalReduction, named by its reduction
             IF ~ reduces(args[1], args[2], name) THEN {}
             ELSE IF name = "polynomial_ring_equivalence"
             THEN {AlgebraicIdentity(args[1], args[2])} ELSE {Equality(args[1], args[2])}

\* The claim that the rule establishes as step `current`.
check_rule_application(rule, current, claims) ==
    IF Premises(rule.ids, current, claims)
    THEN Established(rule.name, rule.args,
                     [k \in DOMAIN rule.ids |-> claims[rule.ids[k]].lhs],
                     [k \in DOMAIN rule.ids |-> claims[rule.ids[k]].rhs])
    ELSE {}

-----------------------------------------------------------------------------
(* Derivations: a sequence of steps [id, rule, claim] and the root's id.    *)

\* Mutant: a step's recorded claim is taken over unchecked.
MutStepHolds(step, index, claims) ==
    step.id = index /\ check_rule_application(step.rule, step.id, claims) # {}

\* Identifiers are the positions, and the recorded claim is the derived one.
StepHolds(step, index, claims) ==
    step.id = index /\ check_rule_application(step.rule, step.id, claims) = {step.claim}

\* verified_claims when step i is reached.
ClaimsBefore(steps, i) == [j \in 1..(i - 1) |-> steps[j].claim]

verify_derivation_independent(derivation) ==
    LET steps == derivation.steps
    IN IF /\ derivation.root \in DOMAIN steps
          /\ \A i \in DOMAIN steps : StepHolds(steps[i], i, ClaimsBefore(steps, i))
       THEN {steps[derivation.root].claim} ELSE {}

\* The steps that `root` depends on: whatever has root and the premises of its
\* members has them.
Required(steps, root) ==
    {i \in DOMAIN steps :
        \A S \in SUBSET DOMAIN steps :
            (root \in S /\ \A j \in S : Range(steps[j].rule.ids) \subseteq S) => i \in S}

\* The place of i among the required steps, in their original order.
NewId(required, i) == Cardinality({j \in required : j <= i})

remap_rule(rule, required) ==
    [rule EXCEPT !.ids = [j \in DOMAIN @ |-> NewId(required, @[j])]]

\* The transitive slice, renumbered 1..K in the original order.
export_derivation(steps, root) ==
    LET required == Required(steps, root)
        OldId(k) == CHOOSE i \in required : NewId(required, i) = k
    IN [root  |-> NewId(required, root),
        steps |-> [k \in 1..Cardinality(required) |->
            LET old == steps[OldId(k)]
            IN [id |-> k, rule |-> remap_rule(old.rule, required), claim |-> old.claim]]]

-----------------------------------------------------------------------------
(* What claims mean.                                                       *)

NonZeroIn(e, env) == Value(e, env) \notin {0, Undefined}

\* The context holds.
Allowed(env) ==
    /\ \A p \in Entailed : NonZeroIn(p[1], env)
    /\ \A p \in Declared : InDomain(Value(p[1], env), p[2])

\* A claim is valid when it holds wherever the context does.
Valid(claim, environments) ==
    \A env \in {e \in environments : Allowed(e)} :
        CASE claim.kind = "PredicateHold"    -> NonZeroIn(claim.lhs, env)
          [] claim.kind = "DomainMembership" -> InDomain(Value(claim.lhs, env), claim.rhs)
          [] OTHER                           -> Value(claim.lhs, env) = Value(claim.rhs, env)
=============================================================================

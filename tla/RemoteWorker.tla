---------------------------- MODULE RemoteWorker ----------------------------
(***************************************************************************)
(* A remote worker that derives claims with a proof kernel and the          *)
(* coordinator that accepts one verified answer to its assignment           *)
(* (crates/fsym-runtime/src/remote_worker.rs).                              *)
(*                                                                         *)
(* The worker is not trusted and neither is the way its answers take: an   *)
(* answer may be lost, delivered late, twice or damaged, and may claim      *)
(* something its derivation does not prove.  The kernel only grows, so      *)
(* every answer the worker could have sent earlier can still be delivered. *)
(***************************************************************************)
EXTENDS ProofKernel

CONSTANTS Axioms,               \* rules without premises that the worker tries
          Templates,            \* pairs <<template, var>> for Substitution
          FunctionNames,
          Assignments,          \* claims the coordinator may ask for
          Tasks, Task,          \* task identifiers, and the assigned one
          Environments,         \* values of the symbols, for the semantics
          MaxSteps,             \* MAX_DERIVATION_STEPS
          MaxAxioms,            \* bound of the model: steps without premises
          OtherResult           \* a result that is not the claimed one

Rule(name, ids, args) == [name |-> name, ids |-> ids, args |-> args]

ASSUME RemoteAssumption ==
    /\ Task \in Tasks /\ {MaxSteps, MaxAxioms} \subseteq Nat \ {0}
    /\ \A rule \in Axioms : rule = Rule(rule.name, <<>>, rule.args)

VARIABLES steps,                \* the worker's kernel
          expected_claim, accepted, cancelled

remoteVars == <<steps, expected_claim, accepted, cancelled>>

None == {}

RInit ==
    /\ steps = <<>>
    /\ expected_claim \in Assignments
    /\ accepted = None
    /\ cancelled = FALSE

-----------------------------------------------------------------------------
(* The worker.                                                             *)

\* Every rule that refers to steps in S.
BinaryRules == {"Transitivity", "CongruenceAdd", "CongruenceMul", "CongruencePow"}

RulesOver(S) ==
    LET One == [1..1 -> S]
        Two == [1..2 -> S]
    IN Axioms
         \cup [name : {"Symmetry"}, ids : One, args : {<<>>}]
         \cup [name : BinaryRules, ids : Two, args : {<<>>}]
         \cup [name : {"CongruenceFunction"}, ids : One, args : {<<f>> : f \in FunctionNames}]
         \cup [name : {"Substitution"}, ids : One, args : Templates]

NextId == Len(steps) + 1

AxiomSteps == {i \in DOMAIN steps : steps[i].rule \in Axioms}

\* A refused rule leaves the kernel as it is.
add_step(rule) ==
    /\ Len(steps) < MaxSteps
    /\ rule \in Axioms => Cardinality(AxiomSteps) < MaxAxioms
    /\ \E claim \in check_rule_application(rule, NextId, ClaimsBefore(steps, NextId)) :
           steps' = Append(steps, [id |-> NextId, rule |-> rule, claim |-> claim])
    /\ UNCHANGED <<expected_claim, accepted, cancelled>>

-----------------------------------------------------------------------------
(* Answers.                                                                *)

claimed_result(claim) ==
    IF claim.kind \in {"PredicateHold", "DomainMembership"} THEN claim.lhs ELSE claim.rhs

\* A derivation with the root, one recorded claim, one reference or the order of
\* two steps changed, or the first step lost.
OtherRoot(d) == {[d EXCEPT !.root = r] : r \in 1..(Len(d.steps) + 1)}

OtherClaim(d) ==
    UNION {{[d EXCEPT !.steps[k].claim = c] : c \in Assignments} : k \in DOMAIN d.steps}

OtherReference(d) ==
    UNION {UNION {{[d EXCEPT !.steps[k].rule.ids[j] = i] : i \in 1..(Len(d.steps) + 1)} :
                     j \in DOMAIN d.steps[k].rule.ids} : k \in DOMAIN d.steps}

OtherOrder(d) ==
    UNION {{[d EXCEPT !.steps[k] = d.steps[j], !.steps[j] = d.steps[k]] :
              j \in DOMAIN d.steps} : k \in DOMAIN d.steps}

LostStep(d) == {[d EXCEPT !.steps = SubSeq(@, 2, Len(@))]}

Damaged(d) ==
    OtherRoot(d) \cup OtherClaim(d) \cup OtherReference(d) \cup OtherOrder(d) \cup LostStep(d)

Candidate(task, claim, result, derivation) ==
    [task_id |-> task, claim |-> claim, result |-> result, derivation |-> derivation]

Candidates ==
    {Candidate(task, claim, result, derivation) :
        task \in Tasks,
        claim \in {expected_claim} \cup {steps[i].claim : i \in DOMAIN steps},
        result \in {claimed_result(expected_claim), OtherResult},
        derivation \in UNION {{d} \cup Damaged(d) :
                                d \in {export_derivation(steps, i) : i \in DOMAIN steps}}}

-----------------------------------------------------------------------------
(* The coordinator.                                                        *)

\* Mutant: the verified claim is not compared with the claimed one.
Mutverify_remote_candidate(c) ==
    /\ c.task_id = Task /\ c.claim = expected_claim
    /\ claimed_result(c.claim) = c.result
    /\ verify_derivation_independent(c.derivation) # {}

verify_remote_candidate(c) ==
    /\ c.task_id = Task /\ c.claim = expected_claim
    /\ claimed_result(c.claim) = c.result
    /\ verify_derivation_independent(c.derivation) = {c.claim}

Open == ~ cancelled /\ accepted = None

accept_once(c) ==
    /\ Open
    /\ verify_remote_candidate(c)
    /\ accepted' = {[task_id |-> c.task_id, claim |-> c.claim, result |-> c.result,
                     receipt |-> c.derivation]}
    /\ UNCHANGED <<steps, expected_claim, cancelled>>

cancel_assignment ==
    /\ cancelled' = TRUE
    /\ UNCHANGED <<steps, expected_claim, accepted>>

RNext ==
    \/ \E rule \in RulesOver(DOMAIN steps) : add_step(rule)
    \/ Open /\ \E c \in Candidates : accept_once(c)
    \/ cancel_assignment

RSpec == RInit /\ [][RNext]_remoteVars

-----------------------------------------------------------------------------
(* Properties.                                                             *)

\* Soundness of the rules: what the kernel records is true wherever the
\* context holds, partial expressions keep their domains included.
KernelSound == \A i \in DOMAIN steps : Valid(steps[i].claim, Environments)

\* pow_zero_identity applied to a base that has no value somewhere the context holds.
ErasesPartial(rule) ==
    /\ rule.name = "pow_zero_identity"
    /\ \E env \in Environments : Allowed(env) /\ Value(rule.args[1][2], env) = Undefined

\* "Partial values ... must retain their domain/definedness conditions instead of
\* being erased": what the kernel records is true wherever the context holds, but
\* for what rests on a zero power of a partial base.
PartialityKept ==
    \A i \in DOMAIN steps :
        (\A j \in Required(steps, i) : ~ ErasesPartial(steps[j].rule))
          => Valid(steps[i].claim, Environments)

\* Rules whose claim is computed from terms: definitional reductions and
\* polynomial normal forms.
Computed(rule) ==
    rule \in Axioms /\ rule.name \notin {"Reflexivity", "ContextPredicate", "ContextDomain"}

\* Those of them that the kernel accepts although what they establish is false.
Wrong ==
    {rule \in Axioms :
        /\ Computed(rule)
        /\ \E c \in Established(rule.name, rule.args, <<>>, <<>>) : ~ Valid(c, Environments)}

NamesNoWrong(derivation) ==
    \A j \in DOMAIN derivation.steps : derivation.steps[j].rule \notin Wrong

\* How far a wrong reduction reaches: a step is true if none is in its own slice,
\* whatever else the kernel holds.  The rules that compose claims, and those that
\* only ask the context, add no error.
SliceSound ==
    \A i \in DOMAIN steps :
        (\A j \in Required(steps, i) : steps[j].rule \notin Wrong)
          => Valid(steps[i].claim, Environments)

\* Exporting the slice of any step gives a derivation that the stateless
\* verifier accepts, and for exactly that step's claim; a damaged one is refused,
\* or what the verifier says it proves is true, unless it names a wrong reduction.
VerifierExact ==
    \A i \in DOMAIN steps :
        /\ verify_derivation_independent(export_derivation(steps, i)) = {steps[i].claim}
        /\ \A d \in Damaged(export_derivation(steps, i)) :
               \A claim \in verify_derivation_independent(d) :
                   NamesNoWrong(d) => Valid(claim, Environments)

\* "Fails closed if the derivation is invalid ... or the claim is forged": the
\* accepted answer is the assigned claim with its own result; its receipt is a
\* derivation of this claim, which is true unless that names a wrong reduction.
AcceptedAnswersAssignment ==
    \A a \in accepted :
        /\ a.task_id = Task /\ a.claim = expected_claim /\ a.result = claimed_result(a.claim)
        /\ verify_derivation_independent(a.receipt) = {a.claim}
        /\ NamesNoWrong(a.receipt) => Valid(a.claim, Environments)
=============================================================================

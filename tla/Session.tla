------------------------------- MODULE Session -------------------------------
(***************************************************************************)
(* The native agent session (src/session.rs).  It keeps a private copy of  *)
(* the active workspace, writes it back to the branch table after each     *)
(* edit, and keeps the claims that were constructed and verified together  *)
(* with the budgets that meter them.                                       *)
(*                                                                         *)
(* A client may present any claim record it was ever given, again and      *)
(* again, also one altered in transit, and any sequence of the pages of    *)
(* the claims it exported.                                                 *)
(***************************************************************************)
EXTENDS Workspace, SequencesExt

CONSTANTS BranchNames, InitialBranch, NoBranch, Context, Formulas, Norm,
          OtherContext,         \* another assumption universe
          VerifyStepBudget,     \* verify_step_budget
          DimensionBudget,      \* uniform_dimension_budget
          PageSizes,            \* page sizes a client asks for
          MaxPages,             \* bound: pages a client presents together
          Assignable,           \* the bindings <<symbol, value>> clients make
          MaxBranches           \* bound: no limit in the code

ASSUME NativeAssumption ==
    /\ InitialBranch \in BranchNames
    /\ NoBranch \notin Workspaces(BranchNames, Context)
    /\ Formulas \subseteq Expressions \X Expressions
    /\ Assignable \subseteq Symbols \X Values
    /\ VerifyStepBudget \in Nat /\ DimensionBudget \in Nat
    /\ PageSizes \subseteq Nat \ {0} /\ MaxPages \in Nat

VARIABLES workspace,            \* the private copy of the active workspace
          branches,
          claims,               \* Vec<ClaimRecord>
          derivations,          \* Vec<DerivationTree>
          compute_remaining,    \* budget, dimension ComputeSteps
          verifier_remaining    \* budget, protected verifier pool

branchVars == <<workspace, branches>>
claimVars == <<claims, derivations, compute_remaining, verifier_remaining>>
vars == <<workspace, branches, claims, derivations, compute_remaining, verifier_remaining>>

Protocol == INSTANCE ProtocolSession
                WITH active_branch <- workspace.branch_name,
                     MaxSessionBranches <- MaxBranches,
                     Formulas <- Expressions \X Expressions

Existing(table) == Protocol!Existing(table)
Statement(formula, bindings) == Protocol!Statement(formula, bindings)
Provable(statement) == Protocol!Provable(statement)
Reverified(ws) == Protocol!Reverified(ws)

Init ==
    /\ workspace = NewWorkspace(InitialBranch, Context)
    /\ branches = [n \in BranchNames |-> IF n = InitialBranch THEN workspace ELSE NoBranch]
    /\ claims = <<>>
    /\ derivations = <<>>
    /\ compute_remaining = DimensionBudget
    /\ verifier_remaining = DimensionBudget

-----------------------------------------------------------------------------
(* Branch operations.                                                      *)

sync_active_branch(table, ws) == [table EXCEPT ![ws.branch_name] = ws]

\* Mutant: an edit that forgets to write the copy back.
MutEdit(ws) == workspace' = ws /\ UNCHANGED branches

\* An edit of the private copy, written back.
Edit(ws) ==
    /\ workspace' = ws
    /\ branches' = sync_active_branch(branches, ws)

Construct(s, v) ==
    /\ Edit(bind(workspace, s, v))
    /\ UNCHANGED claimVars

ForkBranch(n) ==
    LET table == sync_active_branch(branches, workspace) IN
    /\ n \notin Existing(table)
    /\ Cardinality(Existing(table)) < MaxBranches
    /\ workspace' = fork(workspace, n)
    /\ branches' = [table EXCEPT ![n] = fork(workspace, n)]
    /\ UNCHANGED claimVars

CheckoutBranch(n) ==
    LET table == sync_active_branch(branches, workspace) IN
    /\ branches' = table
    /\ n \in Existing(table)
    /\ workspace' = table[n]
    /\ UNCHANGED claimVars

ApplyPatch(updated, removed) ==
    /\ ~ PatchRefused(workspace, updated, removed)
    /\ Edit(Patched(workspace, updated, removed))
    /\ UNCHANGED claimVars

\* The certificate is verified after the merge has been made: when that
\* fails the request is refused with the private copy already changed and
\* not written back.
MergeBranch(n) ==
    LET table == sync_active_branch(branches, workspace)
        merged == Merged(workspace, table[n])
    IN
    /\ n # workspace.branch_name
    /\ n \in Existing(table)
    /\ ~ MergeRefused(workspace, table[n], Reverified(table[n]))
    /\ workspace' = merged
    /\ branches' = IF verify_merge_certificate(Certificate(workspace, table[n]))
                   THEN sync_active_branch(table, merged) ELSE table
    /\ UNCHANGED claimVars

-----------------------------------------------------------------------------
(* Claims.                                                                 *)

FrozenBindings(formula, bindings) ==
    [s \in Symbols |-> IF s \in {formula[1], formula[2]} THEN bindings[s] ELSE Absent]

NoDigest == <<>>

Candidate(formula) ==
    LET frozen == FrozenBindings(formula, workspace.bindings)
    IN [source |-> formula, statement |-> Statement(formula, frozen), bindings |-> frozen,
        status |-> "Candidate", derivation_digest |-> NoDigest, context |-> Context]

checked_statement(claim) ==
    /\ \A s \in Symbols : claim.bindings[s] # Absent =>
                              s \in {claim.source[1], claim.source[2]}
    /\ claim.statement = Statement(claim.source, claim.bindings)

\* Mutant: one claim too many.
MutCanConstructClaim == Len(claims) <= VerifyStepBudget /\ compute_remaining > 0

CanConstructClaim == Len(claims) < VerifyStepBudget /\ compute_remaining > 0

ConstructClaim(formula) ==
    /\ CanConstructClaim
    /\ claims' = Append(claims, Candidate(formula))
    /\ compute_remaining' = compute_remaining - 1
    /\ UNCHANGED <<branchVars, derivations, verifier_remaining>>

\* Steps of the derivation verify_claim builds: reflexivity and symmetry, or
\* the certificate lemma and symmetry twice.
ProofSteps(statement) == IF statement[1] = statement[2] THEN 2 ELSE 3

AcceptedForm(claim) ==
    [claim EXCEPT !.status = "Accepted", !.derivation_digest = claim.statement]

\* The record replaces the first equal claim, or is appended.
Record(list, claim) ==
    LET places == {i \in DOMAIN list : list[i] = claim} IN
    IF places = {} THEN Append(list, AcceptedForm(claim))
    ELSE LET first == CHOOSE i \in places : \A j \in places : i <= j
         IN [list EXCEPT ![first] = AcceptedForm(claim)]

\* Mutant: the statement is not recomputed from the source and the bindings.
MutCheckable(claim) ==
    /\ claim.context = Context
    /\ claim.status = "Candidate" /\ claim.derivation_digest = NoDigest
    /\ Len(derivations) < VerifyStepBudget

Checkable(claim) ==
    /\ claim.context = Context
    /\ claim.status = "Candidate" /\ claim.derivation_digest = NoDigest
    /\ checked_statement(claim)
    /\ Len(derivations) < VerifyStepBudget

\* verify_claim on a session that holds `list` and has `compute` steps left.
\* Steps are charged one by one; what was charged before a refusal is spent.
VerifyOn(claim, list, compute) ==
    LET steps == IF Provable(claim.statement) THEN ProofSteps(claim.statement) ELSE 1
        built == Provable(claim.statement) /\ compute >= steps
        admitted == built /\ steps <= VerifyStepBudget /\ verifier_remaining > 0
    IN
    /\ compute_remaining' = IF compute >= steps THEN compute - steps ELSE 0
    /\ verifier_remaining' = IF admitted THEN verifier_remaining - 1 ELSE verifier_remaining
    /\ IF admitted
       THEN /\ Edit(Protocol!Proved(workspace, claim.statement))
            /\ derivations' = Append(derivations, claim.statement)
            /\ claims' = Record(list, claim)
       ELSE /\ claims' = list
            /\ UNCHANGED <<branchVars, derivations>>

VerifyClaim(claim) ==
    /\ Checkable(claim)
    /\ VerifyOn(claim, claims, compute_remaining)

\* The Prove request: construct_claim, then verify_claim on its answer.
Prove(formula) ==
    /\ CanConstructClaim
    /\ IF Checkable(Candidate(formula))
       THEN VerifyOn(Candidate(formula), Append(claims, Candidate(formula)),
                     compute_remaining - 1)
       ELSE /\ claims' = Append(claims, Candidate(formula))
            /\ compute_remaining' = compute_remaining - 1
            /\ UNCHANGED <<branchVars, derivations, verifier_remaining>>

-----------------------------------------------------------------------------
(* Export and replay.  A derivation is the sequence of its steps; a page    *)
(* carries the claim and a piece of them.                                  *)

Held == {claims[i] : i \in DOMAIN claims}

Steps(statement) == [i \in 1..ProofSteps(statement) |-> <<statement, i>>]

MinNat(a, b) == IF a <= b THEN a ELSE b

export_claim(claim, size) ==
    LET steps == Steps(claim.derivation_digest)
        total == (Len(steps) + size - 1) \div size
    IN [p \in 1..total |->
            [claim |-> claim, root |-> Len(steps), page |-> p - 1, total_pages |-> total,
             steps |-> SubSeq(steps, (p - 1) * size + 1, MinNat(p * size, Len(steps)))]]

Exports == {export_claim(c, size) :
                c \in {c \in Held : /\ c.status = "Accepted"
                                    /\ \E i \in DOMAIN derivations :
                                           derivations[i] = c.derivation_digest},
                size \in PageSizes}

Flatten(pages) == FoldLeft(LAMBDA steps, page : steps \o page.steps, <<>>, pages)

\* verify_derivation_independent on reassembled steps: the statement proved.
Conclusion(steps, root) ==
    IF /\ root = Len(steps)
       /\ Provable(Head(steps)[1])
       /\ steps = Steps(Head(steps)[1])
    THEN Head(steps)[1] ELSE NoDigest

\* Mutant: the claim of a page is not compared with the first page's.
MutPagesConsistent(pages) ==
    /\ Len(pages) <= VerifyStepBudget
    /\ Head(pages).total_pages = Len(pages)
    /\ \A i \in DOMAIN pages :
           /\ pages[i].page = i - 1
           /\ pages[i].total_pages = Head(pages).total_pages
           /\ pages[i].root = Head(pages).root
           /\ pages[i].steps # <<>>
           /\ i < Len(pages) => Len(pages[i].steps) = Len(Head(pages).steps)
           /\ Len(pages[i].steps) <= Len(Head(pages).steps)

PagesConsistent(pages) ==
    /\ Len(pages) <= VerifyStepBudget
    /\ Head(pages).total_pages = Len(pages)
    /\ \A i \in DOMAIN pages :
           /\ pages[i].page = i - 1
           /\ pages[i].total_pages = Head(pages).total_pages
           /\ pages[i].root = Head(pages).root
           /\ pages[i].claim = Head(pages).claim
           /\ pages[i].steps # <<>>
           /\ i < Len(pages) => Len(pages[i].steps) = Len(Head(pages).steps)
           /\ Len(pages[i].steps) <= Len(Head(pages).steps)

ReplayCharged(pages) ==
    LET claim == Head(pages).claim IN
    /\ PagesConsistent(pages)
    /\ claim.context = Context
    /\ claim.status = "Accepted"
    /\ checked_statement(claim)
    /\ Len(Flatten(pages)) <= VerifyStepBudget
    /\ verifier_remaining > 0

ReplayAccepted(pages) ==
    LET claim == Head(pages).claim IN
    /\ ReplayCharged(pages)
    /\ Conclusion(Flatten(pages), Head(pages).root) = claim.statement
    /\ claim.derivation_digest = claim.statement

\* A replay imports nothing: it spends verifier budget and answers.
ReplayClaimPages(pages) ==
    /\ ReplayCharged(pages)
    /\ verifier_remaining' = verifier_remaining - 1
    /\ UNCHANGED <<branchVars, claims, derivations, compute_remaining>>

-----------------------------------------------------------------------------
(* What a client may present: every candidate it was given, also after its  *)
(* acceptance, an accepted record, a record altered in transit, and one of  *)
(* its own that says the same with other words.                             *)

Presentable ==
    LET given == {[c EXCEPT !.status = "Candidate", !.derivation_digest = NoDigest] : c \in Held}
    IN given \cup Held
         \cup {[c EXCEPT !.context = OtherContext] : c \in given}
         \cup {[c EXCEPT !.statement = <<c.statement[2], c.statement[2]>>] : c \in given}
         \cup {[c EXCEPT !.source = c.statement,
                         !.bindings = [s \in Symbols |-> Absent]] : c \in given}

Pages == UNION {{e[i] : i \in DOMAIN e} : e \in Exports}

Presented == UNION {[1..n -> Pages] : n \in 1..MaxPages}

Updates == {u \in Bindings : \A s \in Symbols : u[s] # Absent => <<s, u[s]>> \in Assignable}

BranchStep ==
    \/ \E p \in Assignable : Construct(p[1], p[2])
    \/ \E updated \in Updates, removed \in SUBSET Symbols : ApplyPatch(updated, removed)
    \/ \E n \in BranchNames : ForkBranch(n) \/ CheckoutBranch(n)

ClaimStep ==
    \/ \E f \in Formulas : ConstructClaim(f) \/ Prove(f)
    \/ \E c \in Presentable : VerifyClaim(c)
    \/ \E pages \in Presented : ReplayClaimPages(pages)

Next ==
    \/ BranchStep
    \/ \E n \in BranchNames : MergeBranch(n)
    \/ ClaimStep

Spec == Init /\ [][Next]_vars

-----------------------------------------------------------------------------
(* Properties.                                                             *)

\* A claim the session holds as accepted was checked in its own universe, its
\* statement is the one its source and its frozen bindings say, whatever the
\* workspace binds by now, the statement is provable, and the derivation
\* export_claim looks up by digest is held and concludes it.
AcceptedClaimsHold ==
    \A c \in Held : c.status = "Accepted" =>
        /\ c.context = Context
        /\ checked_statement(c)
        /\ Provable(c.statement)
        /\ c.derivation_digest = c.statement
        /\ \E i \in DOMAIN derivations : derivations[i] = c.derivation_digest

\* verify_claim may append to claims although only construct_claim compares
\* their number with the budget: the list stays within twice the budget, and
\* every derivation held was paid for, from both pools.
Metered ==
    /\ Len(derivations) <= VerifyStepBudget
    /\ Len(claims) <= VerifyStepBudget + Len(derivations)
    /\ verifier_remaining + Len(derivations) <= DimensionBudget
    /\ compute_remaining + 2 * Len(derivations) <= DimensionBudget

\* Replay accepts the complete, ordered export of one accepted claim, and no
\* other sequence of the pages in circulation (pages missing, repeated, out of
\* order, from another claim or from an export with another page size).
ReplayExact ==
    LET exported == Exports IN
    \A pages \in Presented :
        ReplayAccepted(pages) <=> /\ verifier_remaining > 0
                                  /\ pages \in exported
                                  /\ Len(Flatten(pages)) <= VerifyStepBudget

\* The base state a certificate describes, after its writes and imports.
Explained(certificate) ==
    [certificate.base_root EXCEPT
        !.bindings = [s \in Symbols |->
            IF Observed(certificate, s, "Write") = {} THEN @[s]
            ELSE CHOOSE v \in Observed(certificate, s, "Write") : TRUE],
        !.derivations = @ \cup certificate.derivations]

\* merge_with_certificate verifies its certificate after the merge has been
\* made.  Whenever the merge itself is not refused the certificate verifies,
\* so nothing is refused half way; and the certificate explains the merge:
\* its reads and absences are the base's, its writes and imports turn the
\* base into the merged branch.
CertificateExplainsMerge ==
    \A m, n \in Existing(branches) :
        (m # n /\ ~ MergeRefused(branches[m], branches[n], Reverified(branches[n]))) =>
            LET c == Certificate(branches[m], branches[n]) IN
            /\ verify_merge_certificate(c)
            /\ Explained(c) = Merged(branches[m], branches[n])
            /\ \A w \in c.witnesses :
                   /\ w.kind = "Read" => w.value = branches[m].bindings[w.symbol]
                   /\ w.kind = "Absence" => w.symbol \notin Bound(branches[m])

\* The private copy is invisible: with the copy's name as the active branch,
\* every step of the session is a step of the protocol session on the branch
\* table, or changes no branch.  An edit that is not written back, a checkout
\* that loses one or a merge half done would show here.  A claim is proved under
\* the bindings frozen when it was constructed, which the active workspace may
\* have changed since; a Prove request of the protocol always uses the present
\* ones.
ProtocolStep ==
    \/ Protocol!Next
    \/ \E formula \in Expressions \X Expressions, frozen \in Bindings :
           Protocol!ProveUnder(formula, frozen)

ImplementsProtocol ==
    Protocol!Init /\ [][ProtocolStep]_<<branches, workspace.branch_name>>
=============================================================================

---------------------------- MODULE SessionProofs ----------------------------
(***************************************************************************)
(* The native session, for every set of symbols, values, branches and      *)
(* formulas and every budget: it implements the protocol session, its      *)
(* accepted claims stay checkable, its budgets bound what it holds, and a  *)
(* merge is explained by its certificate; replay accepts complete exports  *)
(* and nothing else.                                                       *)
(***************************************************************************)
EXTENDS Session, SequenceTheorems, TLAPS

-----------------------------------------------------------------------------
(* The inductive invariant.                                                *)

Spaces == Workspaces(BranchNames, Context)

Statements == Expressions \X Expressions

Claims == [source : Statements, statement : Statements, bindings : Bindings,
           status : {"Candidate", "Accepted"},
           derivation_digest : Statements \cup {NoDigest},
           context : {Context, OtherContext}]

TypeOK ==
    /\ workspace \in Spaces
    /\ branches \in [BranchNames -> Spaces \cup {NoBranch}]
    /\ claims \in Seq(Claims) /\ derivations \in Seq(Statements)
    /\ compute_remaining \in Nat /\ verifier_remaining \in Nat

\* A branch is stored under its own name, and the stored active branch is the
\* private copy.
Synced ==
    /\ \A n \in BranchNames : branches[n] # NoBranch => branches[n].branch_name = n
    /\ branches[workspace.branch_name] = workspace

IInv == TypeOK /\ Synced /\ Metered /\ AcceptedClaimsHold

-----------------------------------------------------------------------------
(* What the operations on workspaces return.                               *)

\* bind, fork, apply_patch and merge give workspaces and keep or set the name.
LEMMA Operations ==
    ASSUME NEW ws \in Spaces
    PROVE  /\ \A s \in Symbols, v \in Values :
                  bind(ws, s, v) \in Spaces /\ bind(ws, s, v).branch_name = ws.branch_name
           /\ \A n \in BranchNames : fork(ws, n) \in Spaces /\ fork(ws, n).branch_name = n
           /\ \A updated \in Bindings, removed \in SUBSET Symbols :
                  /\ Patched(ws, updated, removed) \in Spaces
                  /\ Patched(ws, updated, removed).branch_name = ws.branch_name
           /\ \A d \in Statements :
                  /\ Protocol!Proved(ws, d) \in Spaces
                  /\ Protocol!Proved(ws, d).branch_name = ws.branch_name
           /\ \A other \in Spaces :
                  Merged(ws, other) \in Spaces /\ Merged(ws, other).branch_name = ws.branch_name
<1> USE DEF Spaces, Workspaces, Bindings
<1>1. ASSUME NEW s \in Symbols, NEW v \in Values
      PROVE  bind(ws, s, v) \in Spaces /\ bind(ws, s, v).branch_name = ws.branch_name
  BY <1>1 DEF bind
<1>2. ASSUME NEW n \in BranchNames PROVE fork(ws, n) \in Spaces /\ fork(ws, n).branch_name = n
  BY <1>2 DEF fork
<1>3. ASSUME NEW updated \in Bindings, NEW removed \in SUBSET Symbols
      PROVE  /\ Patched(ws, updated, removed) \in Spaces
             /\ Patched(ws, updated, removed).branch_name = ws.branch_name
  BY <1>3 DEF Patched
<1>4. ASSUME NEW d \in Statements
      PROVE  /\ Protocol!Proved(ws, d) \in Spaces
             /\ Protocol!Proved(ws, d).branch_name = ws.branch_name
  BY <1>4 DEF Protocol!Proved, Statements
<1>5. ASSUME NEW other \in Spaces
      PROVE  Merged(ws, other) \in Spaces /\ Merged(ws, other).branch_name = ws.branch_name
  BY <1>5 DEF Merged, MergedBindings
<1> QED
  BY <1>1, <1>2, <1>3, <1>4, <1>5

\* The protocol session works on the same workspaces with the same operations.
LEMMA SameOperations ==
    /\ \A ws, s, v : Protocol!bind(ws, s, v) = bind(ws, s, v)
    /\ \A ws, n : Protocol!fork(ws, n) = fork(ws, n)
    /\ \A ws, u, r : /\ Protocol!PatchRefused(ws, u, r) <=> PatchRefused(ws, u, r)
                     /\ Protocol!Patched(ws, u, r) = Patched(ws, u, r)
    /\ \A ws, other, d : Protocol!MergeRefused(ws, other, d) <=> MergeRefused(ws, other, d)
    /\ \A ws, other : Protocol!Merged(ws, other) = Merged(ws, other)
    /\ Protocol!Bindings = Bindings
    /\ \A n, c : Protocol!NewWorkspace(n, c) = NewWorkspace(n, c)
<1>1. \A ws, s, v : Protocol!bind(ws, s, v) = bind(ws, s, v)
  BY DEF Protocol!bind, bind
<1>2. \A ws, n : Protocol!fork(ws, n) = fork(ws, n)
  BY DEF Protocol!fork, fork
<1>0. \A ws : Protocol!Bound(ws) = Bound(ws)
  BY DEF Protocol!Bound, Bound
<1>3. \A ws, u, r : /\ Protocol!PatchRefused(ws, u, r) <=> PatchRefused(ws, u, r)
                    /\ Protocol!Patched(ws, u, r) = Patched(ws, u, r)
  <2>1. \A ws, u, r : Protocol!PatchedCount(ws, u, r) = PatchedCount(ws, u, r)
    BY DEF Protocol!PatchedCount, PatchedCount, Protocol!Bound, Bound,
           Protocol!Cardinality, Cardinality
  <2>2. \A ws, u, r : Protocol!PatchRefused(ws, u, r) <=> PatchRefused(ws, u, r)
    BY <2>1 DEF Protocol!PatchRefused, PatchRefused
  <2>3. \A ws, u, r : Protocol!Patched(ws, u, r) = Patched(ws, u, r)
    BY Zenon DEF Protocol!Patched, Patched
  <2> QED
    BY <2>2, <2>3
<1>4. \A ws, other, d : Protocol!MergeRefused(ws, other, d) <=> MergeRefused(ws, other, d)
  <2>1. \A ws, other : Protocol!BindingConflict(ws, other) <=> BindingConflict(ws, other)
    BY <1>0 DEF Protocol!BindingConflict, BindingConflict
  <2> SUFFICES ASSUME NEW ws, NEW other, NEW d
               PROVE  Protocol!MergeRefused(ws, other, d) <=> MergeRefused(ws, other, d)
    OBVIOUS
  <2>2. Protocol!Bound(ws) = Bound(ws) /\ Protocol!Bound(other) = Bound(other)
    BY <1>0
  <2>3. Protocol!BindingConflict(ws, other) <=> BindingConflict(ws, other)
    BY <2>1
  <2>4. \A S : Protocol!Cardinality(S) = Cardinality(S)
    BY DEF Protocol!Cardinality, Cardinality
  <2> QED
    BY <2>2, <2>3, <2>4 DEF Protocol!MergeRefused, MergeRefused
<1>5. \A ws, other : Protocol!Merged(ws, other) = Merged(ws, other)
  BY Zenon DEF Protocol!Merged, Merged, Protocol!MergedBindings, MergedBindings
<1>6. Protocol!Bindings = Bindings
  BY DEF Protocol!Bindings, Bindings
<1>7. \A n, c : Protocol!NewWorkspace(n, c) = NewWorkspace(n, c)
  BY DEF Protocol!NewWorkspace, NewWorkspace
<1> QED
  BY <1>1, <1>2, <1>3, <1>4, <1>5, <1>6, <1>7

-----------------------------------------------------------------------------
(* The certificate of a merge.                                             *)

\* What the certificate says of a symbol.
LEMMA Observations ==
    ASSUME NEW ws \in Spaces, NEW incoming \in Spaces, NEW s
    PROVE  LET c == Certificate(ws, incoming) IN
           /\ Observed(c, s, "Write")
                = IF s \in Bound(incoming) THEN {incoming.bindings[s]} ELSE {}
           /\ Observed(c, s, "Read")
                = IF s \in Bound(incoming) \cap Bound(ws) THEN {ws.bindings[s]} ELSE {}
           /\ Observed(c, s, "Absence")
                = IF s \in Bound(incoming) \ Bound(ws) THEN {"zero"} ELSE {}
<1> DEFINE c == Certificate(ws, incoming)
           W == Witnesses(ws, incoming)
           Kind(k) == {w \in W : w.symbol = s /\ w.kind = k}
<1>1. c.witnesses = W
  BY DEF Certificate
<1>2. \A k : Observed(c, s, k) = {w.value : w \in Kind(k)}
  BY <1>1 DEF Observed
<1> DEFINE of == [t \in Bound(incoming) |->
                    {IF t \in Bound(ws) THEN Witness(t, "Read", ws.bindings[t])
                                        ELSE Witness(t, "Absence", "zero"),
                     Witness(t, "Write", incoming.bindings[t])}]
           context == Witness(AssumptionContext, "Predicate", "zero")
<1>w. W = (UNION {of[t] : t \in Bound(incoming)}) \cup {context}
  BY DEF Witnesses
<1>u. /\ \A w \in W : w = context \/ \E t \in Bound(incoming) : w \in of[t]
      /\ \A t \in Bound(incoming) : of[t] \subseteq W
  <2> HIDE DEF W, of, context
  <2> QED
    BY <1>w
<1>3. ASSUME NEW w \in W
      PROVE  \/ w.kind = "Predicate"
             \/ /\ w.symbol \in Bound(incoming)
                /\ \/ w.kind = "Read" /\ w.symbol \in Bound(ws) /\ w.value = ws.bindings[w.symbol]
                   \/ w.kind = "Absence" /\ w.symbol \notin Bound(ws) /\ w.value = "zero"
                   \/ w.kind = "Write" /\ w.value = incoming.bindings[w.symbol]
  <2> HIDE DEF W
  <2>1. CASE w = context
    BY <2>1 DEF Witness
  <2>2. CASE \E t \in Bound(incoming) : w \in of[t]
    BY <2>2 DEF Witness
  <2> QED
    BY <1>u, <1>3, <2>1, <2>2
<1>4. ASSUME s \in Bound(incoming)
      PROVE  /\ Witness(s, "Write", incoming.bindings[s]) \in W
             /\ s \in Bound(ws) => Witness(s, "Read", ws.bindings[s]) \in W
             /\ s \notin Bound(ws) => Witness(s, "Absence", "zero") \in W
  <2>1. of[s] \subseteq W
    <3> HIDE DEF W, of, context
    <3> QED
      BY <1>u, <1>4
  <2> HIDE DEF W
  <2> QED
    BY <1>4, <2>1
<1>5. \A k, v : /\ Witness(s, k, v).symbol = s /\ Witness(s, k, v).kind = k
                /\ Witness(s, k, v).value = v
  BY DEF Witness
<1> HIDE DEF c, W
<1>6. Observed(c, s, "Write") = IF s \in Bound(incoming) THEN {incoming.bindings[s]} ELSE {}
  BY <1>2, <1>3, <1>4, <1>5
<1>7. Observed(c, s, "Read") = IF s \in Bound(incoming) \cap Bound(ws) THEN {ws.bindings[s]} ELSE {}
  BY <1>2, <1>3, <1>4, <1>5
<1>8. Observed(c, s, "Absence") = IF s \in Bound(incoming) \ Bound(ws) THEN {"zero"} ELSE {}
  BY <1>2, <1>3, <1>4, <1>5
<1> QED
  BY <1>6, <1>7, <1>8 DEF c

\* A merge that is not refused has a certificate that verifies and explains it.
LEMMA CertificateOfMerge ==
    ASSUME NEW ws \in Spaces, NEW incoming \in Spaces, ~ BindingConflict(ws, incoming)
    PROVE  LET c == Certificate(ws, incoming) IN
           /\ verify_merge_certificate(c)
           /\ Explained(c) = Merged(ws, incoming)
           /\ \A w \in c.witnesses :
                  /\ w.kind = "Read" => w.value = ws.bindings[w.symbol]
                  /\ w.kind = "Absence" => w.symbol \notin Bound(ws)
<1> DEFINE c == Certificate(ws, incoming)
<1>1. /\ \A s : Observed(c, s, "Write")
                  = IF s \in Bound(incoming) THEN {incoming.bindings[s]} ELSE {}
      /\ \A s : Observed(c, s, "Read")
                  = IF s \in Bound(incoming) \cap Bound(ws) THEN {ws.bindings[s]} ELSE {}
      /\ \A s : Observed(c, s, "Absence")
                  = IF s \in Bound(incoming) \ Bound(ws) THEN {"zero"} ELSE {}
  BY Observations
<1>2. /\ CommitmentHolds(c) /\ c.base_root = ws
      /\ c.derivations = incoming.derivations \ ws.derivations
      /\ c.witnesses = Witnesses(ws, incoming)
  BY DEF Certificate, CommitmentHolds, state_root
<1>p. \A w \in Witnesses(ws, incoming) : w.kind = "Predicate" => w.value = "zero"
  BY DEF Witnesses, Witness
<1> HIDE DEF c
<1>3. ASSUME NEW w \in c.witnesses
      PROVE  w.value \in Observed(c, w.symbol, w.kind)
  BY DEF Observed
<1>4. \A w \in c.witnesses : w.kind \in {"Absence", "Predicate"} =>
         w.value \in {"zero"} \cup IF w.kind = "Predicate" THEN {c.context} ELSE {}
  BY <1>1, <1>2, <1>p, <1>3
<1>5. ASSUME NEW s
      PROVE  /\ ~ (Observed(c, s, "Read") # {} /\ Observed(c, s, "Absence") # {})
             /\ Observed(c, s, "Write") # {} =>
                   Observed(c, s, "Read") \cup Observed(c, s, "Absence") # {}
             /\ \A r \in Observed(c, s, "Read"), w \in Observed(c, s, "Write") : r = w
  BY <1>1 DEF BindingConflict
<1>6. verify_merge_certificate(c)
  BY <1>2, <1>4, <1>5 DEF verify_merge_certificate
<1>7. Explained(c) = Merged(ws, incoming)
  <2>1. ws.derivations \cup c.derivations = ws.derivations \cup incoming.derivations
    BY <1>2
  <2>2. [s \in Symbols |-> IF Observed(c, s, "Write") = {} THEN ws.bindings[s]
                           ELSE CHOOSE v \in Observed(c, s, "Write") : TRUE]
          = MergedBindings(ws, incoming)
    <3>1. ASSUME NEW s \in Symbols
          PROVE  (IF Observed(c, s, "Write") = {} THEN ws.bindings[s]
                  ELSE CHOOSE v \in Observed(c, s, "Write") : TRUE)
                    = IF incoming.bindings[s] # Absent
                      THEN incoming.bindings[s] ELSE ws.bindings[s]
      <4>1. CASE incoming.bindings[s] # Absent
        <5>1. Observed(c, s, "Write") = {incoming.bindings[s]}
          BY <1>1, <4>1 DEF Bound
        <5> QED
          BY <4>1, <5>1
      <4>2. CASE incoming.bindings[s] = Absent
        <5>1. Observed(c, s, "Write") = {}
          BY <1>1, <4>2 DEF Bound
        <5> QED
          BY <4>2, <5>1
      <4> QED
        BY <4>1, <4>2
    <3> QED
      BY <3>1 DEF MergedBindings
  <2> QED
    BY <1>2, <2>1, <2>2, Zenon DEF Explained, Merged
<1>8. \A w \in c.witnesses : /\ w.kind = "Read" => w.value = ws.bindings[w.symbol]
                             /\ w.kind = "Absence" => w.symbol \notin Bound(ws)
  BY <1>1, <1>3
<1> QED
  BY <1>6, <1>7, <1>8 DEF c

-----------------------------------------------------------------------------
(* Branch operations: the copy stays in step with the table, and every     *)
(* change of it is a step of the protocol session.                         *)

BranchesOK ==
    /\ workspace \in Spaces
    /\ branches \in [BranchNames -> Spaces \cup {NoBranch}]
    /\ Synced

ProtocolStutter == UNCHANGED <<branches, workspace.branch_name>>

\* Writing the copy back when nothing was changed changes nothing.
LEMMA SyncedTable ==
    ASSUME BranchesOK
    PROVE  /\ sync_active_branch(branches, workspace) = branches
           /\ Protocol!active_workspace = workspace
           /\ workspace.branch_name \in BranchNames
<1>1. workspace.branch_name \in BranchNames
  BY DEF BranchesOK, Spaces, Workspaces
<1>2. sync_active_branch(branches, workspace) = branches
  BY <1>1 DEF BranchesOK, Synced, sync_active_branch
<1> QED
  BY <1>1, <1>2 DEF BranchesOK, Synced, Protocol!active_workspace

\* An edit of the copy, written back.
LEMMA EditStep ==
    ASSUME BranchesOK, NEW ws \in Spaces, ws.branch_name = workspace.branch_name,
           workspace' = ws, branches' = sync_active_branch(branches, ws)
    PROVE  BranchesOK' /\ Protocol!SetActive(ws)
<1>1. workspace.branch_name \in BranchNames
  BY SyncedTable
<1> DEFINE b == workspace.branch_name
<1>2. branches' = [branches EXCEPT ![b] = ws] /\ b \in BranchNames
  BY <1>1 DEF sync_active_branch
<1>b. ws.branch_name = b /\ workspace'.branch_name = b
  OBVIOUS
<1> HIDE DEF b
<1>3. /\ branches' \in [BranchNames -> Spaces \cup {NoBranch}]
      /\ branches'[b] = ws
      /\ \A n \in BranchNames : n # b => branches'[n] = branches[n]
  BY <1>2 DEF BranchesOK
<1>4. BranchesOK'
  <2>1. \A n \in BranchNames : branches'[n] # NoBranch => branches'[n].branch_name = n
    BY <1>b, <1>3 DEF BranchesOK, Synced
  <2>2. branches'[workspace'.branch_name] = workspace'
    BY <1>b, <1>3
  <2>3. (workspace \in Spaces)'
    OBVIOUS
  <2> QED
    BY <1>3, <2>1, <2>2, <2>3 DEF BranchesOK, Synced
<1>5. Protocol!SetActive(ws)
  BY <1>2, <1>b DEF Protocol!SetActive, b
<1> QED
  BY <1>4, <1>5

\* construct binds in the copy and writes it back: a Bind of the protocol.
LEMMA ConstructStep ==
    ASSUME BranchesOK, NEW s \in Symbols, NEW v \in Values, Construct(s, v)
    PROVE  BranchesOK' /\ ProtocolStep
<1>1. bind(workspace, s, v) \in Spaces /\ bind(workspace, s, v).branch_name = workspace.branch_name
  BY Operations DEF BranchesOK
<1>2. BranchesOK' /\ Protocol!SetActive(bind(workspace, s, v))
  BY <1>1, EditStep DEF Construct, Edit
<1>3. Protocol!Bind(s, v)
  BY <1>2, SyncedTable, SameOperations DEF Protocol!Bind
<1> QED
  BY <1>2, <1>3 DEF ProtocolStep, Protocol!Next

\* apply_patch likewise.
LEMMA PatchStep ==
    ASSUME BranchesOK, NEW updated \in Bindings, NEW removed \in SUBSET Symbols,
           ApplyPatch(updated, removed)
    PROVE  BranchesOK' /\ ProtocolStep
<1>1. /\ Patched(workspace, updated, removed) \in Spaces
      /\ Patched(workspace, updated, removed).branch_name = workspace.branch_name
  BY Operations DEF BranchesOK
<1>2. BranchesOK' /\ Protocol!SetActive(Patched(workspace, updated, removed))
  BY <1>1, EditStep DEF ApplyPatch, Edit
<1>3. Protocol!ApplyPatch(updated, removed)
  BY <1>2, SyncedTable, SameOperations DEF Protocol!ApplyPatch, ApplyPatch
<1>4. updated \in Protocol!Bindings
  BY SameOperations
<1> QED
  BY <1>2, <1>3, <1>4 DEF ProtocolStep, Protocol!Next

\* fork_branch writes the copy back before it adds the branch.
LEMMA ForkStep ==
    ASSUME BranchesOK, NEW n \in BranchNames, ForkBranch(n)
    PROVE  BranchesOK' /\ ProtocolStep
<1>1. sync_active_branch(branches, workspace) = branches /\ Protocol!active_workspace = workspace
  BY SyncedTable
<1> DEFINE new == fork(workspace, n)
<1>2. new \in Spaces /\ new.branch_name = n
  BY Operations DEF BranchesOK
<1>3. /\ n \notin Protocol!Existing(branches)
      /\ Cardinality(Protocol!Existing(branches)) < MaxBranches
      /\ workspace' = new /\ branches' = [branches EXCEPT ![n] = new]
  BY <1>1 DEF ForkBranch, Existing
<1> HIDE DEF new
<1>4. BranchesOK'
  <2>1. /\ branches' \in [BranchNames -> Spaces \cup {NoBranch}]
        /\ branches'[n] = new
        /\ \A m \in BranchNames : m # n => branches'[m] = branches[m]
    BY <1>2, <1>3 DEF BranchesOK
  <2>2. \A m \in BranchNames : branches'[m] # NoBranch => branches'[m].branch_name = m
    BY <1>2, <2>1 DEF BranchesOK, Synced
  <2>3. branches'[workspace'.branch_name] = workspace' /\ (workspace \in Spaces)'
    BY <1>2, <1>3, <2>1
  <2> QED
    BY <2>1, <2>2, <2>3 DEF BranchesOK, Synced
<1>5. Protocol!Fork(n)
  <2>1. Protocol!fork(Protocol!active_workspace, n) = new
    BY <1>1, SameOperations DEF new
  <2>2. \A S : Protocol!Cardinality(S) = Cardinality(S)
    BY DEF Protocol!Cardinality, Cardinality
  <2>3. workspace'.branch_name = n
    BY <1>2, <1>3
  <2> QED
    BY <1>3, <2>1, <2>2, <2>3 DEF Protocol!Fork
<1> QED
  BY <1>4, <1>5 DEF ProtocolStep, Protocol!Next

\* checkout_branch writes the copy back before it takes another.
LEMMA CheckoutStep ==
    ASSUME BranchesOK, NEW n \in BranchNames, CheckoutBranch(n)
    PROVE  BranchesOK' /\ ProtocolStep
<1>1. /\ branches' = branches /\ n \in Protocol!Existing(branches) /\ workspace' = branches[n]
  BY SyncedTable DEF CheckoutBranch, Existing
<1>2. branches[n] \in Spaces /\ branches[n].branch_name = n
  BY <1>1 DEF BranchesOK, Synced, Protocol!Existing
<1>3. BranchesOK'
  BY <1>1, <1>2 DEF BranchesOK, Synced
<1>4. Protocol!Checkout(n)
  BY <1>1, <1>2 DEF Protocol!Checkout
<1> QED
  BY <1>3, <1>4 DEF ProtocolStep, Protocol!Next

\* The certificate verifies whenever the merge is not refused, so the copy is
\* never left changed and not written back.
LEMMA MergeStep ==
    ASSUME BranchesOK, NEW n \in BranchNames, MergeBranch(n)
    PROVE  BranchesOK' /\ ProtocolStep
<1>1. sync_active_branch(branches, workspace) = branches /\ Protocol!active_workspace = workspace
  BY SyncedTable
<1> DEFINE merged == Merged(workspace, branches[n])
<1>2. /\ n # workspace.branch_name /\ n \in Protocol!Existing(branches)
      /\ ~ MergeRefused(workspace, branches[n], Reverified(branches[n]))
      /\ workspace' = merged
      /\ branches' = IF verify_merge_certificate(Certificate(workspace, branches[n]))
                     THEN sync_active_branch(branches, merged) ELSE branches
  BY <1>1 DEF MergeBranch, Existing
<1>3. branches[n] \in Spaces /\ workspace \in Spaces
  BY <1>2 DEF BranchesOK, Protocol!Existing
<1>4. ~ BindingConflict(workspace, branches[n])
  BY <1>2 DEF MergeRefused
<1>5. verify_merge_certificate(Certificate(workspace, branches[n]))
  BY <1>3, <1>4, CertificateOfMerge
<1>6. merged \in Spaces /\ merged.branch_name = workspace.branch_name
  BY <1>3, Operations
<1>7. BranchesOK' /\ Protocol!SetActive(merged)
  <2> HIDE DEF merged
  <2> QED
    BY <1>2, <1>5, <1>6, EditStep
<1>8. Protocol!MergeBranch(n)
  BY <1>1, <1>2, <1>7, SameOperations DEF Protocol!MergeBranch, Reverified
<1> QED
  BY <1>7, <1>8 DEF ProtocolStep, Protocol!Next

-----------------------------------------------------------------------------
(* Claims.                                                                 *)

\* What AcceptedClaimsHold says of one claim.
Sound(c, trees) ==
    c.status = "Accepted" =>
        /\ c.context = Context
        /\ checked_statement(c)
        /\ Provable(c.statement)
        /\ c.derivation_digest = c.statement
        /\ \E i \in DOMAIN trees : trees[i] = c.derivation_digest

ClaimsOK ==
    /\ claims \in Seq(Claims) /\ derivations \in Seq(Statements)
    /\ compute_remaining \in Nat /\ verifier_remaining \in Nat
    /\ Metered
    /\ \A i \in DOMAIN claims : Sound(claims[i], derivations)

\* The invariant in two parts, one for each half of the state.
LEMMA Parts == IInv <=> BranchesOK /\ ClaimsOK
  BY DEF IInv, TypeOK, BranchesOK, ClaimsOK, AcceptedClaimsHold, Held, Sound

\* Substitution stays within the expressions, so a claim is well formed.
LEMMA CandidateType ==
    ASSUME BranchesOK, NEW formula \in Formulas
    PROVE  Candidate(formula) \in Claims
<1>1. formula \in Statements
  BY NativeAssumption DEF Statements
<1>2. ASSUME NEW b \in Bindings, NEW f \in Statements PROVE Statement(f, b) \in Statements
  BY <1>2 DEF Statement, Protocol!Statement, Protocol!Substitute, Statements, Expressions, Bindings
<1>3. FrozenBindings(formula, workspace.bindings) \in Bindings
  BY DEF FrozenBindings, BranchesOK, Spaces, Workspaces, Bindings
<1>4. Statement(formula, FrozenBindings(formula, workspace.bindings)) \in Statements
  BY <1>1, <1>2, <1>3
<1> QED
  BY <1>1, <1>3, <1>4 DEF Candidate, Claims

\* Whatever a client presents has the form of a claim.
LEMMA PresentableType ==
    ASSUME ClaimsOK, NEW claim \in Presentable
    PROVE  claim \in Claims
<1>1. \A c \in Held : c \in Claims
  BY DEF ClaimsOK, Held
<1> DEFINE Given(c) == [c EXCEPT !.status = "Candidate", !.derivation_digest = NoDigest]
           Restated(c) == [c EXCEPT !.source = c.statement,
                                    !.bindings = [s \in Symbols |-> Absent]]
           given == {Given(c) : c \in Held}
<1>2. \A c \in Claims : /\ Given(c) \in Claims
                        /\ [c EXCEPT !.context = OtherContext] \in Claims
                        /\ [c EXCEPT !.statement = <<c.statement[2], c.statement[2]>>] \in Claims
                        /\ Restated(c) \in Claims
  <2> SUFFICES ASSUME NEW c \in Claims
               PROVE  /\ Given(c) \in Claims
                      /\ [c EXCEPT !.context = OtherContext] \in Claims
                      /\ [c EXCEPT !.statement = <<c.statement[2], c.statement[2]>>] \in Claims
                      /\ Restated(c) \in Claims
    OBVIOUS
  <2>1. Given(c) \in Claims
    BY DEF Claims
  <2>2. [c EXCEPT !.context = OtherContext] \in Claims
    BY DEF Claims
  <2>3. <<c.statement[2], c.statement[2]>> \in Statements
    BY DEF Claims, Statements
  <2>4. [c EXCEPT !.statement = <<c.statement[2], c.statement[2]>>] \in Claims
    BY <2>3 DEF Claims
  <2>5. Restated(c) \in Claims
    BY DEF Claims, Bindings
  <2> QED
    BY <2>1, <2>2, <2>4, <2>5
<1>3. \A c \in given : c \in Claims
  BY <1>1, <1>2
<1>4. claim \in given \cup Held
                 \cup {[c EXCEPT !.context = OtherContext] : c \in given}
                 \cup {[c EXCEPT !.statement = <<c.statement[2], c.statement[2]>>] : c \in given}
                 \cup {Restated(c) : c \in given}
  BY DEF Presentable
<1> HIDE DEF given, Restated
<1> QED
  BY <1>1, <1>2, <1>3, <1>4

\* The record of a verified claim replaces one claim or is one claim more.
LEMMA Recorded ==
    ASSUME NEW list \in Seq(Claims), NEW claim \in Claims, claim.statement \in Statements
    PROVE  /\ Record(list, claim) \in Seq(Claims)
           /\ Len(Record(list, claim)) <= Len(list) + 1
           /\ \A i \in DOMAIN Record(list, claim) :
                 \/ Record(list, claim)[i] = AcceptedForm(claim)
                 \/ \E j \in DOMAIN list : Record(list, claim)[i] = list[j]
<1> DEFINE x == AcceptedForm(claim)
<1>1. x \in Claims
  BY DEF AcceptedForm, Claims
<1> HIDE DEF x
<1>2. ASSUME NEW t, t = Append(list, x)
      PROVE  /\ t \in Seq(Claims) /\ Len(t) = Len(list) + 1
             /\ \A i \in DOMAIN t : t[i] = x \/ \E j \in DOMAIN list : t[i] = list[j]
  BY <1>1, <1>2
<1>3. ASSUME NEW first, NEW t, t = [list EXCEPT ![first] = x]
      PROVE  /\ t \in Seq(Claims) /\ Len(t) = Len(list)
             /\ \A i \in DOMAIN t : t[i] = x \/ \E j \in DOMAIN list : t[i] = list[j]
  <2>0. list \in [1..Len(list) -> Claims]
    OBVIOUS
  <2>1. t = [i \in 1..Len(list) |-> IF i = first THEN x ELSE list[i]]
    <3> DEFINE D == 1..Len(list)
    <3>1. list \in [D -> Claims]
      BY <2>0
    <3> HIDE DEF D
    <3>2. t = [i \in D |-> IF i = first THEN x ELSE list[i]]
      BY <1>3, <3>1
    <3> QED
      BY <3>2 DEF D
  <2>2. \A i \in 1..Len(list) : t[i] \in Claims /\ (t[i] = x \/ t[i] = list[i])
    BY <1>1, <2>1
  <2>3. t \in [1..Len(list) -> Claims] /\ Len(list) \in Nat
    BY <2>1, <2>2
  <2> QED
    BY <2>2, <2>3
<1>4. \/ Record(list, claim) = Append(list, x)
      \/ \E first : Record(list, claim) = [list EXCEPT ![first] = x]
  BY Zenon DEF Record, x
<1>5. Len(list) \in Nat
  OBVIOUS
<1> QED
  BY <1>2, <1>3, <1>4, <1>5 DEF x

\* verify_claim, on the claims and the compute steps it starts from.
LEMMA VerifyStep ==
    ASSUME BranchesOK, ClaimsOK, NEW claim \in Claims, Checkable(claim),
           NEW list \in Seq(Claims), Len(list) <= VerifyStepBudget + Len(derivations),
           \A i \in DOMAIN list : Sound(list[i], derivations),
           NEW compute \in Nat, compute + 2 * Len(derivations) <= DimensionBudget,
           VerifyOn(claim, list, compute)
    PROVE  BranchesOK' /\ ClaimsOK' /\ (ProtocolStep \/ ProtocolStutter)
<1> DEFINE steps == IF Provable(claim.statement) THEN ProofSteps(claim.statement) ELSE 1
           built == Provable(claim.statement) /\ compute >= steps
           admitted == built /\ steps <= VerifyStepBudget /\ verifier_remaining > 0
<1>1. /\ compute_remaining' = IF compute >= steps THEN compute - steps ELSE 0
      /\ verifier_remaining' = IF admitted THEN verifier_remaining - 1 ELSE verifier_remaining
      /\ admitted => /\ Edit(Protocol!Proved(workspace, claim.statement))
                     /\ derivations' = Append(derivations, claim.statement)
                     /\ claims' = Record(list, claim)
      /\ ~ admitted => claims' = list /\ UNCHANGED <<branchVars, derivations>>
  BY DEF VerifyOn
<1>2. /\ steps \in 1..3 /\ (Provable(claim.statement) => steps >= 2)
  BY DEF ProofSteps
<1>3. claim.statement \in Statements
  BY DEF Claims
<1>n. /\ Len(derivations) \in Nat /\ verifier_remaining \in Nat /\ derivations \in Seq(Statements)
      /\ Len(list) \in Nat
      /\ Len(derivations) < VerifyStepBudget /\ VerifyStepBudget \in Nat /\ DimensionBudget \in Nat
      /\ verifier_remaining + Len(derivations) <= DimensionBudget
  BY NativeAssumption DEF ClaimsOK, Metered, Checkable
<1> HIDE DEF steps
<1>4. CASE admitted
  <2>1. /\ Protocol!Proved(workspace, claim.statement) \in Spaces
        /\ Protocol!Proved(workspace, claim.statement).branch_name = workspace.branch_name
    BY <1>3, Operations DEF BranchesOK
  <2>2. BranchesOK' /\ Protocol!SetActive(Protocol!Proved(workspace, claim.statement))
    BY <1>1, <1>4, <2>1, EditStep DEF Edit
  <2>3. ProtocolStep
    <3>1. claim.source \in Expressions \X Expressions /\ claim.bindings \in Bindings
      BY DEF Claims, Statements
    <3>2. claim.statement = Protocol!Statement(claim.source, claim.bindings)
      BY DEF Checkable, checked_statement, Statement
    <3>3. Protocol!Provable(claim.statement)
      BY <1>4 DEF Provable
    <3>4. Protocol!ProveUnder(claim.source, claim.bindings)
      BY <2>2, <3>2, <3>3, SyncedTable DEF Protocol!ProveUnder
    <3> QED
      BY <3>1, <3>4 DEF ProtocolStep
  <2>4. /\ derivations' \in Seq(Statements) /\ Len(derivations') = Len(derivations) + 1
        /\ \A i \in DOMAIN derivations : i \in DOMAIN derivations' /\ derivations'[i] = derivations[i]
        /\ \E i \in DOMAIN derivations' : derivations'[i] = claim.statement
    <3>1. derivations' = Append(derivations, claim.statement)
      BY <1>1, <1>4
    <3>2. Len(derivations) + 1 \in DOMAIN derivations'
      BY <1>3, <1>n, <3>1
    <3>3. derivations'[Len(derivations) + 1] = claim.statement
      BY <1>3, <1>n, <3>1
    <3> QED
      BY <1>3, <1>n, <3>1, <3>2, <3>3
  <2>5. /\ claims' \in Seq(Claims) /\ Len(claims') <= Len(list) + 1
        /\ \A i \in DOMAIN claims' : \/ claims'[i] = AcceptedForm(claim)
                                     \/ \E j \in DOMAIN list : claims'[i] = list[j]
    BY <1>1, <1>3, <1>4, Recorded
  <2>6. Sound(AcceptedForm(claim), derivations')
    <3>1. /\ AcceptedForm(claim).context = claim.context
          /\ AcceptedForm(claim).source = claim.source
          /\ AcceptedForm(claim).bindings = claim.bindings
          /\ AcceptedForm(claim).statement = claim.statement
          /\ AcceptedForm(claim).derivation_digest = claim.statement
      BY DEF AcceptedForm, Claims
    <3> QED
      BY <1>4, <2>4, <3>1 DEF Sound, Checkable, checked_statement
  <2>7. \A i \in DOMAIN claims' : Sound(claims'[i], derivations')
    <3>1. ASSUME NEW c, Sound(c, derivations) PROVE Sound(c, derivations')
      BY <2>4, <3>1 DEF Sound
    <3> QED
      BY <2>5, <2>6, <3>1
  <2>8. /\ compute_remaining' = compute - steps /\ compute >= steps
        /\ verifier_remaining' = verifier_remaining - 1 /\ verifier_remaining > 0
    BY <1>1, <1>4
  <2>9. Metered' /\ compute_remaining' \in Nat /\ verifier_remaining' \in Nat
    <3>1. Len(claims') \in Nat
      BY <2>5
    <3> QED
      BY <1>2, <1>4, <1>n, <2>4, <2>5, <2>8, <3>1 DEF Metered
  <2> QED
    BY <2>2, <2>3, <2>4, <2>5, <2>7, <2>9 DEF ClaimsOK
<1>5. CASE ~ admitted
  <2>1. /\ claims' = list /\ UNCHANGED <<branchVars, derivations>>
        /\ verifier_remaining' = verifier_remaining
    BY <1>1, <1>5
  <2>2. BranchesOK' /\ ProtocolStutter
    BY <2>1 DEF BranchesOK, Synced, ProtocolStutter, branchVars
  <2>3. compute_remaining' \in Nat /\ compute_remaining' <= compute
    BY <1>1, <1>2
  <2>4. Metered'
    BY <1>n, <2>1, <2>3 DEF Metered
  <2> QED
    BY <1>n, <2>1, <2>2, <2>3, <2>4 DEF ClaimsOK
<1> QED
  BY <1>4, <1>5

\* construct_claim: the list has room by its own check.
LEMMA ConstructedStep ==
    ASSUME BranchesOK, ClaimsOK, NEW formula \in Formulas, CanConstructClaim
    PROVE  LET list == Append(claims, Candidate(formula)) IN
           /\ list \in Seq(Claims) /\ Len(list) = Len(claims) + 1
           /\ Len(list) <= VerifyStepBudget + Len(derivations)
           /\ \A i \in DOMAIN list : Sound(list[i], derivations)
           /\ compute_remaining - 1 \in Nat
           /\ compute_remaining - 1 + 2 * Len(derivations) <= DimensionBudget
<1>1. Candidate(formula) \in Claims
  BY CandidateType
<1>2. Sound(Candidate(formula), derivations)
  BY DEF Sound, Candidate
<1>3. /\ claims \in Seq(Claims) /\ derivations \in Seq(Statements) /\ Len(derivations) \in Nat
      /\ \A i \in DOMAIN claims : Sound(claims[i], derivations)
      /\ Len(claims) < VerifyStepBudget /\ compute_remaining > 0 /\ compute_remaining \in Nat
      /\ compute_remaining + 2 * Len(derivations) <= DimensionBudget
      /\ VerifyStepBudget \in Nat /\ DimensionBudget \in Nat
  BY NativeAssumption DEF ClaimsOK, Metered, CanConstructClaim
<1> DEFINE c == Candidate(formula)
           list == Append(claims, c)
<1> HIDE DEF c
<1>4. list \in Seq(Claims) /\ Len(list) = Len(claims) + 1
  BY <1>1, <1>3 DEF c
<1>5. ASSUME NEW i \in DOMAIN list PROVE Sound(list[i], derivations)
  <2>1. CASE i = Len(claims) + 1
    <3>1. list[i] = c
      BY <1>1, <1>3, <2>1 DEF c
    <3> QED
      BY <1>2, <3>1 DEF c
  <2>2. CASE i # Len(claims) + 1
    <3>1. i \in DOMAIN claims /\ list[i] = claims[i]
      BY <1>1, <1>3, <1>4, <2>2 DEF c
    <3> QED
      BY <1>3, <3>1
  <2> QED
    BY <2>1, <2>2
<1>6. /\ Len(claims) + 1 <= VerifyStepBudget + Len(derivations)
      /\ compute_remaining - 1 \in Nat
      /\ compute_remaining - 1 + 2 * Len(derivations) <= DimensionBudget
  <2>1. Len(claims) \in Nat
    BY <1>3
  <2> QED
    BY <1>3, <2>1
<1> QED
  BY <1>4, <1>5, <1>6 DEF c

-----------------------------------------------------------------------------
(* Every step.                                                             *)

\* A branch operation leaves the claims and the budgets alone.
LEMMA ClaimsUntouched ==
    ASSUME ClaimsOK, UNCHANGED claimVars
    PROVE  ClaimsOK'
  BY DEF ClaimsOK, claimVars, Metered, Sound

\* Every operation on branches keeps both parts and is a protocol step.
LEMMA BranchSteps ==
    ASSUME BranchesOK, ClaimsOK, BranchStep \/ \E n \in BranchNames : MergeBranch(n)
    PROVE  BranchesOK' /\ ClaimsOK' /\ ProtocolStep
<1>1. ASSUME NEW p \in Assignable, Construct(p[1], p[2])
      PROVE  BranchesOK' /\ ClaimsOK' /\ ProtocolStep
  <2>1. p[1] \in Symbols /\ p[2] \in Values
    BY NativeAssumption
  <2> QED
    BY <1>1, <2>1, ConstructStep, ClaimsUntouched DEF Construct
<1>2. ASSUME NEW updated \in Updates, NEW removed \in SUBSET Symbols, ApplyPatch(updated, removed)
      PROVE  BranchesOK' /\ ClaimsOK' /\ ProtocolStep
  <2>1. updated \in Bindings
    BY DEF Updates
  <2> QED
    BY <1>2, <2>1, PatchStep, ClaimsUntouched DEF ApplyPatch
<1>3. ASSUME NEW n \in BranchNames, ForkBranch(n)
      PROVE  BranchesOK' /\ ClaimsOK' /\ ProtocolStep
  BY <1>3, ForkStep, ClaimsUntouched DEF ForkBranch
<1>4. ASSUME NEW n \in BranchNames, CheckoutBranch(n)
      PROVE  BranchesOK' /\ ClaimsOK' /\ ProtocolStep
  BY <1>4, CheckoutStep, ClaimsUntouched DEF CheckoutBranch
<1>5. ASSUME NEW n \in BranchNames, MergeBranch(n)
      PROVE  BranchesOK' /\ ClaimsOK' /\ ProtocolStep
  BY <1>5, MergeStep, ClaimsUntouched DEF MergeBranch
<1> QED
  BY <1>1, <1>2, <1>3, <1>4, <1>5 DEF BranchStep

\* construct_claim adds a candidate within the budget and proves nothing.
LEMMA ConstructClaimStep ==
    ASSUME BranchesOK, ClaimsOK, NEW formula \in Formulas, CanConstructClaim,
           claims' = Append(claims, Candidate(formula)),
           compute_remaining' = compute_remaining - 1,
           UNCHANGED <<branchVars, derivations, verifier_remaining>>
    PROVE  BranchesOK' /\ ClaimsOK' /\ ProtocolStutter
<1> DEFINE list == Append(claims, Candidate(formula))
<1>1. /\ list \in Seq(Claims) /\ Len(list) <= VerifyStepBudget + Len(derivations)
      /\ \A i \in DOMAIN list : Sound(list[i], derivations)
      /\ compute_remaining - 1 \in Nat
      /\ compute_remaining - 1 + 2 * Len(derivations) <= DimensionBudget
  BY ConstructedStep
<1>2. claims' = list
  OBVIOUS
<1> HIDE DEF list
<1>3. /\ derivations' = derivations /\ verifier_remaining' = verifier_remaining
      /\ workspace' = workspace /\ branches' = branches
  BY DEF branchVars
<1>4. BranchesOK' /\ ProtocolStutter
  BY <1>3 DEF BranchesOK, Synced, ProtocolStutter
<1>5. Metered'
  BY <1>1, <1>2, <1>3 DEF ClaimsOK, Metered
<1> QED
  BY <1>1, <1>2, <1>3, <1>4, <1>5 DEF ClaimsOK

\* Every operation on claims keeps both parts; on the branches it is a Prove of
\* the protocol or nothing.
LEMMA ClaimSteps ==
    ASSUME BranchesOK, ClaimsOK, ClaimStep
    PROVE  BranchesOK' /\ ClaimsOK' /\ (ProtocolStep \/ ProtocolStutter)
<1> DEFINE Goal == BranchesOK' /\ ClaimsOK' /\ (ProtocolStep \/ ProtocolStutter)
<1>1. ASSUME NEW f \in Formulas, ConstructClaim(f) PROVE Goal
  BY <1>1, ConstructClaimStep DEF ConstructClaim
<1>2. ASSUME NEW f \in Formulas, Prove(f) PROVE Goal
  <2>1. CASE Checkable(Candidate(f))
    <3> DEFINE list == Append(claims, Candidate(f))
    <3>1. VerifyOn(Candidate(f), list, compute_remaining - 1) /\ CanConstructClaim
      BY <1>2, <2>1 DEF Prove
    <3>2. /\ list \in Seq(Claims) /\ Len(list) <= VerifyStepBudget + Len(derivations)
          /\ \A i \in DOMAIN list : Sound(list[i], derivations)
          /\ compute_remaining - 1 \in Nat
          /\ compute_remaining - 1 + 2 * Len(derivations) <= DimensionBudget
      BY <3>1, ConstructedStep
    <3>3. Candidate(f) \in Claims
      BY CandidateType
    <3> HIDE DEF list
    <3> QED
      BY <2>1, <3>1, <3>2, <3>3, VerifyStep
  <2>2. CASE ~ Checkable(Candidate(f))
    BY <1>2, <2>2, ConstructClaimStep DEF Prove
  <2> QED
    BY <2>1, <2>2
<1>3. ASSUME NEW c \in Presentable, VerifyClaim(c) PROVE Goal
  <2>1. c \in Claims
    BY PresentableType
  <2>2. /\ claims \in Seq(Claims) /\ Len(claims) <= VerifyStepBudget + Len(derivations)
        /\ \A i \in DOMAIN claims : Sound(claims[i], derivations)
        /\ compute_remaining \in Nat
        /\ compute_remaining + 2 * Len(derivations) <= DimensionBudget
    BY DEF ClaimsOK, Metered
  <2> QED
    BY <1>3, <2>1, <2>2, VerifyStep DEF VerifyClaim
<1>4. ASSUME NEW pages \in Presented, ReplayClaimPages(pages) PROVE Goal
  <2>1. /\ verifier_remaining > 0 /\ verifier_remaining' = verifier_remaining - 1
        /\ workspace' = workspace /\ branches' = branches /\ claims' = claims
        /\ derivations' = derivations /\ compute_remaining' = compute_remaining
    BY <1>4 DEF ReplayClaimPages, ReplayCharged, branchVars
  <2>2. BranchesOK' /\ ProtocolStutter
    BY <2>1 DEF BranchesOK, Synced, ProtocolStutter
  <2>3. /\ verifier_remaining \in Nat /\ Len(derivations) \in Nat /\ DimensionBudget \in Nat
        /\ verifier_remaining + Len(derivations) <= DimensionBudget
    BY NativeAssumption DEF ClaimsOK, Metered
  <2>4. verifier_remaining' \in Nat /\ verifier_remaining' + Len(derivations) <= DimensionBudget
    BY <2>1, <2>3
  <2>5. ClaimsOK'
    BY <2>1, <2>4 DEF ClaimsOK, Metered, Sound
  <2> QED
    BY <2>2, <2>5
<1> QED
  BY <1>1, <1>2, <1>3, <1>4 DEF ClaimStep

\* Every step preserves the invariant and implements the protocol.
LEMMA SessionStep ==
    ASSUME IInv, [Next]_vars
    PROVE  IInv' /\ (ProtocolStep \/ ProtocolStutter)
<1>1. BranchesOK /\ ClaimsOK
  BY Parts
<1>2. ASSUME UNCHANGED vars
      PROVE  BranchesOK' /\ ClaimsOK' /\ ProtocolStutter
  <2>1. BranchesOK' /\ ProtocolStutter
    BY <1>1, <1>2 DEF vars, BranchesOK, Synced, ProtocolStutter
  <2>2. ClaimsOK'
    BY <1>1, <1>2, ClaimsUntouched DEF vars, claimVars
  <2> QED
    BY <2>1, <2>2
<1>3. BranchesOK' /\ ClaimsOK' /\ (ProtocolStep \/ ProtocolStutter)
  BY <1>1, <1>2, BranchSteps, ClaimSteps DEF Next
<1>4. (IInv <=> BranchesOK /\ ClaimsOK)'
  BY Parts, PTL
<1> QED
  BY <1>3, <1>4

\* A new session is a new protocol session.
LEMMA SessionInit ==
    ASSUME Init
    PROVE  IInv /\ Protocol!Init
<1> DEFINE new == NewWorkspace(InitialBranch, Context)
<1>1. new \in Spaces /\ new.branch_name = InitialBranch /\ InitialBranch \in BranchNames
  BY NativeAssumption DEF NewWorkspace, Spaces, Workspaces, Bindings
<1>2. /\ workspace = new
      /\ branches = [n \in BranchNames |-> IF n = InitialBranch THEN new ELSE NoBranch]
  BY DEF Init
<1>3. Protocol!Init
  <2>1. Protocol!NewWorkspace(InitialBranch, Context) = new
    BY SameOperations
  <2>2. [n \in BranchNames |-> IF n = InitialBranch
                               THEN Protocol!NewWorkspace(n, Context) ELSE NoBranch] = branches
    BY <1>2, <2>1
  <2> QED
    BY <1>1, <1>2, <2>2 DEF Protocol!Init
<1> HIDE DEF new
<1>4. BranchesOK
  BY <1>1, <1>2 DEF BranchesOK, Synced
<1>5. ClaimsOK
  BY NativeAssumption DEF Init, ClaimsOK, Metered
<1> QED
  BY <1>3, <1>4, <1>5, Parts

\* Hence the invariant holds always.
LEMMA Invariance == Spec => []IInv
<1>1. Init => IInv
  BY SessionInit
<1>2. IInv /\ [Next]_vars => IInv'
  BY SessionStep
<1> QED
  BY <1>1, <1>2, PTL DEF Spec

-----------------------------------------------------------------------------
(* Exports and their replay.                                               *)

\* The fold over the pages, written out.
LEMMA FlattenFold ==
    ASSUME NEW pages
    PROVE  Flatten(pages) =
               (CHOOSE h : h = [s \in SUBSET DOMAIN pages |->
                                    IF s = {} THEN <<>>
                                    ELSE h[s \ {Max(s)}] \o pages[Max(s)].steps])[DOMAIN pages]
  BY DEF Flatten, FoldLeft, MapThenFoldSet

\* The page the fold takes out next.
LEMMA MaxUpToThree ==
    ASSUME NEW s \in SUBSET (1..3), s # {}
    PROVE  Max(s) = IF 3 \in s THEN 3 ELSE IF 2 \in s THEN 2 ELSE 1
<1>1. \A x \in s : x = 1 \/ x = 2 \/ x = 3
  OBVIOUS
<1> DEFINE m == IF 3 \in s THEN 3 ELSE IF 2 \in s THEN 2 ELSE 1
<1>2. PICK x : x \in s
  OBVIOUS
<1>3. m \in s
  BY <1>1, <1>2
<1>4. m \in 1..3 /\ \A y \in s : y \in 1..3 /\ m >= y
  BY <1>1
<1> HIDE DEF m
<1>5. Max(s) \in s /\ \A y \in s : Max(s) >= y
  BY <1>3, <1>4 DEF Max
<1>6. ASSUME NEW z, z \in s, \A y \in s : z >= y PROVE z = m
  <2>1. z \in 1..3 /\ z >= m /\ m >= z
    BY <1>3, <1>4, <1>6
  <2> QED
    BY <1>4, <2>1
<1> QED
  BY <1>5, <1>6 DEF m

\* Replay joins the steps of up to three pages in their order.
LEMMA Reassembled ==
    ASSUME NEW pages, NEW n \in 1..3, DOMAIN pages = 1..n
    PROVE  /\ n = 1 => Flatten(pages) = <<>> \o pages[1].steps
           /\ n = 2 => Flatten(pages) = (<<>> \o pages[1].steps) \o pages[2].steps
           /\ n = 3 => Flatten(pages) =
                           ((<<>> \o pages[1].steps) \o pages[2].steps) \o pages[3].steps
<1> DEFINE D == 1..n
           Join(h) == [s \in SUBSET D |-> IF s = {} THEN <<>>
                                          ELSE h[s \ {Max(s)}] \o pages[Max(s)].steps]
           One(s)   == IF 1 \in s THEN <<>> \o pages[1].steps ELSE <<>>
           Two(s)   == IF 2 \in s THEN One(s) \o pages[2].steps ELSE One(s)
           Three(s) == IF 3 \in s THEN Two(s) \o pages[3].steps ELSE Two(s)
           g == [s \in SUBSET D |-> Three(s)]
<1>1. g = Join(g)
  <2> SUFFICES ASSUME NEW s \in SUBSET D
               PROVE  Three(s) = IF s = {} THEN <<>>
                                 ELSE g[s \ {Max(s)}] \o pages[Max(s)].steps
    <3> HIDE DEF D, Three
    <3> QED
      BY DEF g
  <2>1. s \in SUBSET (1..3)
    OBVIOUS
  <2>2. CASE s = {}
    BY <2>2
  <2>3. CASE s # {}
    <3> DEFINE t == s \ {Max(s)}
    <3>1. t \in SUBSET D /\ g[t] = Three(t)
      OBVIOUS
    <3>2. Max(s) = IF 3 \in s THEN 3 ELSE IF 2 \in s THEN 2 ELSE 1
      BY <2>1, <2>3, MaxUpToThree
    <3>3. Max(s) \in s
      <4>1. PICK x : x \in s
        BY <2>3
      <4>2. \A y \in s : y = 1 \/ y = 2 \/ y = 3
        BY <2>1
      <4> QED
        BY <3>2, <4>1, <4>2
    <3> HIDE DEF g
    <3>4. ASSUME NEW m, m = Max(s) PROVE Three(s) = Three(s \ {m}) \o pages[m].steps
      <4> DEFINE u == s \ {m}
      <4>0. m \notin u /\ \A i \in {1, 2, 3} : i # m => (i \in u <=> i \in s)
        OBVIOUS
      <4> HIDE DEF u
      <4>1. ASSUME m = 3 PROVE Three(s) = Three(u) \o pages[m].steps
        <5>1. 3 \in s /\ 3 \notin u /\ (1 \in u <=> 1 \in s) /\ (2 \in u <=> 2 \in s)
          BY <4>0, <4>1, <3>3, <3>4
        <5> QED
          BY <5>1, <4>1, Zenon
      <4>2. ASSUME m = 2 PROVE Three(s) = Three(u) \o pages[m].steps
        <5>1. /\ 2 \in s /\ 2 \notin u /\ (1 \in u <=> 1 \in s)
              /\ 3 \notin s /\ 3 \notin u
          BY <4>0, <4>2, <3>2, <3>3, <3>4
        <5> QED
          BY <5>1, <4>2, Zenon
      <4>3. ASSUME m = 1 PROVE Three(s) = Three(u) \o pages[m].steps
        <5>1. /\ 1 \in s /\ 1 \notin u /\ 2 \notin s /\ 2 \notin u
              /\ 3 \notin s /\ 3 \notin u
          BY <4>0, <4>3, <3>2, <3>3, <3>4
        <5> QED
          BY <5>1, <4>3, Zenon
      <4>4. m = 1 \/ m = 2 \/ m = 3
        BY <3>2, <3>4
      <4>5. Three(s) = Three(u) \o pages[m].steps
        BY <4>1, <4>2, <4>3, <4>4, Zenon
      <4> QED
        BY <4>5, Zenon DEF u
    <3> QED
      BY <2>3, <3>1, <3>4
  <2> QED
    BY <2>2, <2>3
<1> HIDE DEF g
<1>2. PICK h : h = Join(h) /\ Flatten(pages) = h[D]
  <2> DEFINE c == CHOOSE h : h = Join(h)
  <2>1. c = Join(c)
    BY <1>1, Zenon
  <2>2. Flatten(pages) = c[D]
    BY FlattenFold
  <2> HIDE DEF c, Join
  <2> QED
    BY <2>1, <2>2, Zenon
<1>3. ASSUME NEW s \in SUBSET D, s # {}
      PROVE  h[s] = h[s \ {Max(s)}] \o pages[Max(s)].steps
  BY <1>2, <1>3
<1>4. h[{}] = <<>>
  BY <1>2
<1> HIDE DEF Join
<1>5. n >= 1 => h[{1}] = <<>> \o pages[1].steps
  <2>1. Max({1}) = 1 /\ {1} \ {1} = {} /\ {1} \in SUBSET D
    BY MaxUpToThree
  <2> QED
    BY <2>1, <1>3, <1>4
<1>6. n >= 2 => h[{1, 2}] = h[{1}] \o pages[2].steps
  <2>1. Max({1, 2}) = 2 /\ {1, 2} \ {2} = {1} /\ (n >= 2 => {1, 2} \in SUBSET D)
    BY MaxUpToThree
  <2> QED
    BY <2>1, <1>3
<1>7. n >= 3 => h[{1, 2, 3}] = h[{1, 2}] \o pages[3].steps
  <2>1. Max({1, 2, 3}) = 3 /\ {1, 2, 3} \ {3} = {1, 2} /\ (n >= 3 => {1, 2, 3} \in SUBSET D)
    BY MaxUpToThree
  <2> QED
    BY <2>1, <1>3
<1>8. /\ n = 1 => D = {1}
      /\ n = 2 => D = {1, 2}
      /\ n = 3 => D = {1, 2, 3}
  OBVIOUS
<1> HIDE DEF D
<1>9. /\ n = 1 => Flatten(pages) = h[{1}]
      /\ n = 2 => Flatten(pages) = h[{1, 2}]
      /\ n = 3 => Flatten(pages) = h[{1, 2, 3}]
  BY <1>2, <1>8, Zenon
<1> DEFINE A == <<>> \o pages[1].steps
           B == A \o pages[2].steps
           C == B \o pages[3].steps
<1>10. /\ n = 1 => Flatten(pages) = A
       /\ n = 2 => Flatten(pages) = B
       /\ n = 3 => Flatten(pages) = C
  <2>1. (n = 1 => n >= 1) /\ (n = 2 => n >= 1 /\ n >= 2) /\ (n = 3 => n >= 1 /\ n >= 2 /\ n >= 3)
    OBVIOUS
  <2> QED
    BY <2>1, <1>5, <1>6, <1>7, <1>9, Zenon
<1> QED
  BY <1>10, Zenon

\* div_ceil for the two lengths a derivation can have.
LEMMA PageCount ==
    ASSUME NEW size \in Nat \ {0}
    PROVE  /\ (2 + size - 1) \div size = IF size = 1 THEN 2 ELSE 1
           /\ (3 + size - 1) \div size = IF size = 1 THEN 3 ELSE IF size = 2 THEN 2 ELSE 1
<1>1. size >= 2 => (2 + size - 1) \div size = 1
  OBVIOUS
<1>2. size >= 3 => (3 + size - 1) \div size = 1
  OBVIOUS
<1>3. (3 + 2 - 1) \div 2 = 2 /\ (3 + 1 - 1) \div 1 = 3 /\ (2 + 1 - 1) \div 1 = 2
  OBVIOUS
<1> QED
  BY <1>1, <1>2, <1>3

\* The page of an export.
PageOf(c, size, p) ==
    LET steps == Steps(c.derivation_digest)
        total == (Len(steps) + size - 1) \div size
    IN [claim |-> c, root |-> Len(steps), page |-> p - 1, total_pages |-> total,
        steps |-> SubSeq(steps, (p - 1) * size + 1, MinNat(p * size, Len(steps)))]

\* total_pages.
Total(c, size) == (ProofSteps(c.derivation_digest) + size - 1) \div size

\* A derivation has two or three steps.
LEMMA StepsOf ==
    ASSUME NEW st
    PROVE  /\ ProofSteps(st) \in {2, 3}
           /\ Len(Steps(st)) = ProofSteps(st)
           /\ Head(Steps(st)) = <<st, 1>>
           /\ ProofSteps(st) = 2 => Steps(st) = <<<<st, 1>>, <<st, 2>>>>
           /\ ProofSteps(st) = 3 => Steps(st) = <<<<st, 1>>, <<st, 2>>, <<st, 3>>>>
<1>1. ProofSteps(st) \in {2, 3}
  BY DEF ProofSteps
<1> DEFINE f(i) == <<st, i>>
<1>2. Steps(st) = [i \in 1..ProofSteps(st) |-> f(i)]
  BY DEF Steps
<1>3. f(1) = <<st, 1>> /\ f(2) = <<st, 2>> /\ f(3) = <<st, 3>>
  OBVIOUS
<1> HIDE DEF f
<1>4. ProofSteps(st) = 2 => Steps(st) = <<f(1), f(2)>>
  BY <1>2
<1>5. ProofSteps(st) = 3 => Steps(st) = <<f(1), f(2), f(3)>>
  BY <1>2
<1>6. CASE ProofSteps(st) = 2
  <2>1. Steps(st) = <<f(1), f(2)>>
    BY <1>4, <1>6
  <2>2. Len(Steps(st)) = 2 /\ Head(Steps(st)) = f(1)
    BY <2>1
  <2> QED
    BY <1>1, <1>3, <1>6, <2>1, <2>2
<1>7. CASE ProofSteps(st) = 3
  <2>1. Steps(st) = <<f(1), f(2), f(3)>>
    BY <1>5, <1>7
  <2>2. Len(Steps(st)) = 3 /\ Head(Steps(st)) = f(1)
    BY <2>1
  <2> QED
    BY <1>1, <1>3, <1>7, <2>1, <2>2
<1> QED
  BY <1>1, <1>6, <1>7

\* The pages of an export: at most three, and, unless there is only one, their
\* number tells the page size.
LEMMA ExportPages ==
    ASSUME NEW c, NEW size \in Nat \ {0}
    PROVE  /\ export_claim(c, size) = [p \in 1..Total(c, size) |-> PageOf(c, size, p)]
           /\ Total(c, size) \in 1..3
           /\ Total(c, size) = 1 =>
                \A s \in Nat \ {0} : Total(c, s) = 1 => PageOf(c, s, 1) = PageOf(c, size, 1)
           /\ Total(c, size) # 1 => \A s \in Nat \ {0} : Total(c, s) = Total(c, size) => s = size
           /\ \A p : /\ PageOf(c, size, p).claim = c /\ PageOf(c, size, p).page = p - 1
                     /\ PageOf(c, size, p).total_pages = Total(c, size)
                     /\ PageOf(c, size, p).root = ProofSteps(c.derivation_digest)
<1> DEFINE L == ProofSteps(c.derivation_digest)
<1>1. L \in {2, 3} /\ Len(Steps(c.derivation_digest)) = L
  BY StepsOf
<1>2. export_claim(c, size) = [p \in 1..Total(c, size) |-> PageOf(c, size, p)]
  BY <1>1 DEF export_claim, PageOf, Total
<1>3. \A s \in Nat \ {0} :
          Total(c, s) = IF L = 2 THEN IF s = 1 THEN 2 ELSE 1
                        ELSE IF s = 1 THEN 3 ELSE IF s = 2 THEN 2 ELSE 1
  <2> SUFFICES ASSUME NEW s \in Nat \ {0}
               PROVE  Total(c, s) = IF L = 2 THEN IF s = 1 THEN 2 ELSE 1
                                    ELSE IF s = 1 THEN 3 ELSE IF s = 2 THEN 2 ELSE 1
    OBVIOUS
  <2>1. CASE L = 2
    BY <2>1, PageCount DEF Total
  <2>2. CASE L = 3
    BY <2>2, PageCount DEF Total
  <2> QED
    BY <1>1, <2>1, <2>2
<1>4. \A p : /\ PageOf(c, size, p).claim = c /\ PageOf(c, size, p).page = p - 1
             /\ PageOf(c, size, p).total_pages = Total(c, size)
             /\ PageOf(c, size, p).root = L
  BY <1>1 DEF PageOf, Total
<1>5. ASSUME NEW s \in Nat \ {0}, Total(c, s) = 1
      PROVE  PageOf(c, s, 1) = [claim |-> c, root |-> L, page |-> 0, total_pages |-> 1,
                                steps |-> SubSeq(Steps(c.derivation_digest), 1, L)]
  <2>1. (1 - 1) * s + 1 = 1 /\ 1 - 1 = 0
    OBVIOUS
  <2>2. s >= L
    BY <1>1, <1>3, <1>5
  <2>3. MinNat(1 * s, L) = L
    BY <1>1, <2>2 DEF MinNat
  <2>4. (Len(Steps(c.derivation_digest)) + s - 1) \div s = 1
    BY <1>1, <1>5, Zenon DEF Total
  <2> HIDE DEF L
  <2> QED
    BY <1>1, <2>1, <2>3, <2>4, Zenon DEF PageOf
<1> HIDE DEF L
<1>6. Total(c, size) \in 1..3
  BY <1>1, <1>3
<1>7. Total(c, size) # 1 => \A s \in Nat \ {0} : Total(c, s) = Total(c, size) => s = size
  BY <1>1, <1>3
<1> QED
  BY <1>2, <1>4, <1>5, <1>6, <1>7, Zenon DEF L

\* The piece of the derivation each page carries.
LEMMA PieceOf ==
    ASSUME NEW c, NEW st, st = c.derivation_digest, NEW size \in Nat \ {0}
    PROVE  /\ size = 1 =>
                 /\ PageOf(c, size, 1).steps = SubSeq(Steps(st), 1, 1)
                 /\ PageOf(c, size, 2).steps = SubSeq(Steps(st), 2, 2)
                 /\ ProofSteps(st) = 3 =>
                        PageOf(c, size, 3).steps = SubSeq(Steps(st), 3, 3)
           /\ ProofSteps(st) = 3 /\ size = 2 =>
                 /\ PageOf(c, size, 1).steps = SubSeq(Steps(st), 1, 2)
                 /\ PageOf(c, size, 2).steps = SubSeq(Steps(st), 3, 3)
           /\ size >= ProofSteps(st) =>
                 PageOf(c, size, 1).steps = SubSeq(Steps(st), 1, ProofSteps(st))
<1> DEFINE L == ProofSteps(st)
           S == Steps(st)
<1>1. L \in {2, 3} /\ Len(S) = L
  BY StepsOf
<1>2. \A p : PageOf(c, size, p).steps = SubSeq(S, (p - 1) * size + 1, MinNat(p * size, L))
  BY <1>1 DEF PageOf
<1> HIDE DEF L, S
<1>3. size = 1 => /\ (1 - 1) * size + 1 = 1 /\ MinNat(1 * size, L) = 1
                  /\ (2 - 1) * size + 1 = 2 /\ MinNat(2 * size, L) = 2
                  /\ L = 3 => (3 - 1) * size + 1 = 3 /\ MinNat(3 * size, L) = 3
  BY <1>1 DEF MinNat
<1>4. L = 3 /\ size = 2 => /\ (1 - 1) * size + 1 = 1 /\ MinNat(1 * size, L) = 2
                           /\ (2 - 1) * size + 1 = 3 /\ MinNat(2 * size, L) = 3
  BY <1>1 DEF MinNat
<1>5. size >= L => (1 - 1) * size + 1 = 1 /\ MinNat(1 * size, L) = L
  BY <1>1 DEF MinNat
<1>6. /\ size = 1 =>
            /\ PageOf(c, size, 1).steps = SubSeq(S, 1, 1)
            /\ PageOf(c, size, 2).steps = SubSeq(S, 2, 2)
            /\ L = 3 => PageOf(c, size, 3).steps = SubSeq(S, 3, 3)
      /\ L = 3 /\ size = 2 =>
            /\ PageOf(c, size, 1).steps = SubSeq(S, 1, 2)
            /\ PageOf(c, size, 2).steps = SubSeq(S, 3, 3)
      /\ size >= L => PageOf(c, size, 1).steps = SubSeq(S, 1, L)
  BY <1>2, <1>3, <1>4, <1>5, Zenon
<1> QED
  BY <1>6 DEF L, S

\* A complete export is consistent and joins up to the whole derivation.
LEMMA ExportReplays ==
    ASSUME NEW c, NEW st, st = c.derivation_digest, NEW size \in Nat \ {0},
           NEW e, e = export_claim(c, size)
    PROVE  /\ Flatten(e) = Steps(st)
           /\ Len(e) \in 1..ProofSteps(st)
           /\ Head(e).claim = c /\ Head(e).root = ProofSteps(st)
           /\ Len(e) <= VerifyStepBudget => PagesConsistent(e)
<1> DEFINE L == ProofSteps(st)
           S == Steps(st)
           T == Total(c, size)
           P(p) == PageOf(c, size, p)
           X == {S[i] : i \in 1..L}
<1>1. /\ e = [p \in 1..T |-> P(p)] /\ T \in 1..3
      /\ \A p : /\ P(p).claim = c /\ P(p).page = p - 1 /\ P(p).total_pages = T
                /\ P(p).root = L
  BY ExportPages
<1>2. Len(e) = T /\ DOMAIN e = 1..T /\ Head(e) = P(1) /\ \A i \in 1..T : e[i] = P(i)
  BY <1>1
<1>3. L \in {2, 3} /\ Len(S) = L
  BY StepsOf
<1>4. /\ L = 2 /\ size = 1 => T = 2
      /\ L = 3 /\ size = 1 => T = 3
      /\ L = 3 /\ size = 2 => T = 2
      /\ size >= L => T = 1
  <2>1. T = (L + size - 1) \div size
    BY DEF Total
  <2>2. CASE L = 2
    BY <2>1, <2>2, PageCount
  <2>3. CASE L = 3
    BY <2>1, <2>3, PageCount
  <2> QED
    BY <1>3, <2>2, <2>3
<1>5. S \in Seq(X)
  BY <1>3 DEF Steps
<1>6. \A i, j \in 1..L : i <= j =>
         /\ SubSeq(S, i, j) \in Seq(X) /\ Len(SubSeq(S, i, j)) = j - i + 1
         /\ <<>> \o SubSeq(S, i, j) = SubSeq(S, i, j)
         /\ SubSeq(S, i, j) # <<>>
  <2> SUFFICES ASSUME NEW i \in 1..L, NEW j \in 1..L, i <= j
               PROVE  /\ SubSeq(S, i, j) \in Seq(X) /\ Len(SubSeq(S, i, j)) = j - i + 1
                      /\ <<>> \o SubSeq(S, i, j) = SubSeq(S, i, j)
                      /\ SubSeq(S, i, j) # <<>>
    OBVIOUS
  <2>1. i \in Int /\ j \in Int /\ \A k \in i..j : S[k] \in X
    BY <1>3
  <2> HIDE DEF X, S, L
  <2>2. SubSeq(S, i, j) \in Seq(X) /\ Len(SubSeq(S, i, j)) = j - i + 1
    BY <2>1, SubSeqProperties
  <2>3. <<>> \o SubSeq(S, i, j) = SubSeq(S, i, j)
    BY <2>2, ConcatEmptySeq
  <2>4. j - i + 1 # 0
    BY <2>1
  <2> QED
    BY <2>2, <2>3, <2>4
<1>7. ASSUME NEW i \in 1..L, NEW j \in 1..L, i < j
      PROVE  SubSeq(S, 1, i) \o SubSeq(S, i + 1, j) = SubSeq(S, 1, j)
  <2>1. 1 \in 1..(Len(S) + 1) /\ i \in (1 - 1)..Len(S) /\ j \in i..Len(S)
    BY <1>3, <1>7
  <2> HIDE DEF X, S, L
  <2> QED
    BY <1>5, <2>1, ConcatAdjacentSubSeq
<1>8. SubSeq(S, 1, L) = S
  <2> HIDE DEF X, S, L
  <2> QED
    BY <1>3, <1>5, SubSeqFull
<1>9. /\ size = 1 => /\ P(1).steps = SubSeq(S, 1, 1) /\ P(2).steps = SubSeq(S, 2, 2)
                     /\ L = 3 => P(3).steps = SubSeq(S, 3, 3)
      /\ L = 3 /\ size = 2 => P(1).steps = SubSeq(S, 1, 2) /\ P(2).steps = SubSeq(S, 3, 3)
      /\ size >= L => P(1).steps = SubSeq(S, 1, L)
  BY PieceOf
<1>10. \/ L = 2 /\ size = 1
       \/ L = 3 /\ size = 1
       \/ L = 3 /\ size = 2
       \/ size >= L
  BY <1>3
<1> HIDE DEF L, S, T, P, X
<1>11. Flatten(e) = S
  <2>0. /\ T = 1 => Flatten(e) = <<>> \o e[1].steps
        /\ T = 2 => Flatten(e) = (<<>> \o e[1].steps) \o e[2].steps
        /\ T = 3 => Flatten(e) = ((<<>> \o e[1].steps) \o e[2].steps) \o e[3].steps
    BY <1>1, <1>2, Reassembled
  <2>1. CASE L = 2 /\ size = 1
    <3>0. T = 2 /\ e[1].steps = SubSeq(S, 1, 1) /\ e[2].steps = SubSeq(S, 2, 2)
      BY <1>2, <1>4, <1>9, <2>1
    <3>1. Flatten(e) = (<<>> \o SubSeq(S, 1, 1)) \o SubSeq(S, 2, 2)
      BY <2>0, <3>0, Zenon
    <3>2. <<>> \o SubSeq(S, 1, 1) = SubSeq(S, 1, 1)
      BY <1>6, <2>1
    <3>3. SubSeq(S, 1, 1) \o SubSeq(S, 2, 2) = SubSeq(S, 1, 2)
      BY <1>7, <2>1
    <3> QED
      BY <3>1, <3>2, <3>3, <1>8, <2>1, Zenon
  <2>2. CASE L = 3 /\ size = 1
    <3>0. /\ T = 3 /\ e[1].steps = SubSeq(S, 1, 1)
            /\ e[2].steps = SubSeq(S, 2, 2) /\ e[3].steps = SubSeq(S, 3, 3)
      BY <1>2, <1>4, <1>9, <2>2
    <3>1. Flatten(e) = ((<<>> \o SubSeq(S, 1, 1)) \o SubSeq(S, 2, 2)) \o SubSeq(S, 3, 3)
      BY <2>0, <3>0, Zenon
    <3>2. <<>> \o SubSeq(S, 1, 1) = SubSeq(S, 1, 1)
      BY <1>6, <2>2
    <3>3. SubSeq(S, 1, 1) \o SubSeq(S, 2, 2) = SubSeq(S, 1, 2)
      BY <1>7, <2>2
    <3>4. SubSeq(S, 1, 2) \o SubSeq(S, 3, 3) = SubSeq(S, 1, 3)
      BY <1>7, <2>2
    <3> QED
      BY <3>1, <3>2, <3>3, <3>4, <1>8, <2>2, Zenon
  <2>3. CASE L = 3 /\ size = 2
    <3>0. T = 2 /\ e[1].steps = SubSeq(S, 1, 2) /\ e[2].steps = SubSeq(S, 3, 3)
      BY <1>2, <1>4, <1>9, <2>3
    <3>1. Flatten(e) = (<<>> \o SubSeq(S, 1, 2)) \o SubSeq(S, 3, 3)
      BY <2>0, <3>0, Zenon
    <3>2. <<>> \o SubSeq(S, 1, 2) = SubSeq(S, 1, 2)
      BY <1>6, <2>3
    <3>3. SubSeq(S, 1, 2) \o SubSeq(S, 3, 3) = SubSeq(S, 1, 3)
      BY <1>7, <2>3
    <3> QED
      BY <3>1, <3>2, <3>3, <1>8, <2>3, Zenon
  <2>4. CASE size >= L
    <3>1. Flatten(e) = <<>> \o SubSeq(S, 1, L)
      BY <1>2, <1>4, <1>9, <2>0, <2>4
    <3>2. <<>> \o SubSeq(S, 1, L) = SubSeq(S, 1, L)
      BY <1>3, <1>6
    <3> QED
      BY <3>1, <3>2, <1>8, Zenon
  <2> QED
    BY <1>10, <2>1, <2>2, <2>3, <2>4
<1>12. ASSUME T <= VerifyStepBudget PROVE PagesConsistent(e)
  <2>1. \A i \in 1..T :
            /\ P(i).steps # <<>>
            /\ i < T => Len(P(i).steps) = Len(P(1).steps)
            /\ Len(P(i).steps) <= Len(P(1).steps)
    <3>1. CASE L = 2 /\ size = 1
      <4>1. /\ P(1).steps # <<>> /\ Len(P(1).steps) = 1
            /\ P(2).steps # <<>> /\ Len(P(2).steps) = 1
        <5>1. SubSeq(S, 1, 1) # <<>> /\ Len(SubSeq(S, 1, 1)) = 1
          BY <1>6, <3>1
        <5>2. SubSeq(S, 2, 2) # <<>> /\ Len(SubSeq(S, 2, 2)) = 1
          BY <1>6, <3>1
        <5> QED
          BY <1>9, <3>1, <5>1, <5>2, Zenon
      <4> QED
        BY <1>4, <3>1, <4>1
    <3>2. CASE L = 3 /\ size = 1
      <4>1. /\ P(1).steps # <<>> /\ Len(P(1).steps) = 1
            /\ P(2).steps # <<>> /\ Len(P(2).steps) = 1
            /\ P(3).steps # <<>> /\ Len(P(3).steps) = 1
        <5>1. SubSeq(S, 1, 1) # <<>> /\ Len(SubSeq(S, 1, 1)) = 1
          BY <1>6, <3>2
        <5>2. SubSeq(S, 2, 2) # <<>> /\ Len(SubSeq(S, 2, 2)) = 1
          BY <1>6, <3>2
        <5>3. SubSeq(S, 3, 3) # <<>> /\ Len(SubSeq(S, 3, 3)) = 1
          BY <1>6, <3>2
        <5> QED
          BY <1>9, <3>2, <5>1, <5>2, <5>3, Zenon
      <4> QED
        BY <1>4, <3>2, <4>1
    <3>3. CASE L = 3 /\ size = 2
      <4>1. /\ P(1).steps # <<>> /\ Len(P(1).steps) = 2
            /\ P(2).steps # <<>> /\ Len(P(2).steps) = 1
        <5>1. SubSeq(S, 1, 2) # <<>> /\ Len(SubSeq(S, 1, 2)) = 2
          BY <1>6, <3>3
        <5>2. SubSeq(S, 3, 3) # <<>> /\ Len(SubSeq(S, 3, 3)) = 1
          BY <1>6, <3>3
        <5> QED
          BY <1>9, <3>3, <5>1, <5>2, Zenon
      <4>2. \A i \in 1..T : i = 1 \/ (i = 2 /\ ~ (i < T))
        BY <1>4, <3>3
      <4> QED
        BY <4>1, <4>2
    <3>4. CASE size >= L
      <4>1. P(1).steps # <<>> /\ Len(P(1).steps) = L
        BY <1>3, <1>6, <1>9, <3>4
      <4> QED
        BY <1>3, <1>4, <3>4, <4>1
    <3> QED
      BY <1>10, <3>1, <3>2, <3>3, <3>4
  <2> QED
    BY <1>1, <1>2, <1>12, <2>1 DEF PagesConsistent
<1>13. T \in 1..L
  BY <1>3, <1>4, <1>10
<1> QED
  BY <1>1, <1>2, <1>11, <1>12, <1>13 DEF L, S

\* Consistent pages are one complete export: same claim, same number of pages,
\* hence the same page size, each in its place.
LEMMA AcceptedIsExport ==
    ASSUME NEW pages \in Presented, PagesConsistent(pages)
    PROVE  pages \in Exports
<1> DEFINE Shown(c) == /\ c \in Held /\ c.status = "Accepted"
                       /\ \E i \in DOMAIN derivations : derivations[i] = c.derivation_digest
<1>1. PICK n \in 1..MaxPages : pages \in [1..n -> Pages]
  BY DEF Presented
<1>2. n \in Nat \ {0} /\ Len(pages) = n /\ DOMAIN pages = 1..n /\ Head(pages) = pages[1]
  BY <1>1, NativeAssumption
<1>3. \A i \in 1..n : \E c, size, p : /\ Shown(c) /\ size \in PageSizes
                                      /\ p \in 1..Total(c, size)
                                      /\ pages[i] = PageOf(c, size, p)
  <2> SUFFICES ASSUME NEW i \in 1..n
               PROVE  \E c, size, p : /\ Shown(c) /\ size \in PageSizes
                                      /\ p \in 1..Total(c, size)
                                      /\ pages[i] = PageOf(c, size, p)
    OBVIOUS
  <2>1. pages[i] \in Pages
    BY <1>1
  <2>2. PICK e \in Exports : \E p \in DOMAIN e : pages[i] = e[p]
    BY <2>1 DEF Pages
  <2>3. PICK c \in Held, size \in PageSizes : Shown(c) /\ e = export_claim(c, size)
    BY DEF Exports
  <2>4. e = [p \in 1..Total(c, size) |-> PageOf(c, size, p)]
    BY <2>3, ExportPages, NativeAssumption
  <2> HIDE DEF Shown
  <2> QED
    BY <2>2, <2>3, <2>4
<1>4. PICK c, size, p : /\ Shown(c) /\ size \in PageSizes /\ p \in 1..Total(c, size)
                        /\ pages[1] = PageOf(c, size, p)
  BY <1>2, <1>3
<1>5. size \in Nat \ {0} /\ \A s \in PageSizes : s \in Nat \ {0}
  BY <1>4, NativeAssumption
<1>6. /\ pages[1].claim = c /\ pages[1].page = 0 /\ pages[1].total_pages = n
      /\ \A i \in 1..n : /\ pages[i].claim = c /\ pages[i].page = i - 1
                         /\ pages[i].total_pages = n
  <2>1. pages[1].claim = c
    BY <1>4, <1>5, ExportPages
  <2> QED
    BY <1>2, <2>1 DEF PagesConsistent
<1>7. Total(c, size) = n
  BY <1>4, <1>5, <1>6, ExportPages
<1>8. \A i \in 1..n : pages[i] = PageOf(c, size, i)
  <2> SUFFICES ASSUME NEW i \in 1..n PROVE pages[i] = PageOf(c, size, i)
    OBVIOUS
  <2>1. PICK c2, s2, p2 : /\ Shown(c2) /\ s2 \in PageSizes /\ p2 \in 1..Total(c2, s2)
                          /\ pages[i] = PageOf(c2, s2, p2)
    BY <1>3
  <2>2. s2 \in Nat \ {0}
    BY <1>5, <2>1
  <2>3. c2 = c /\ Total(c2, s2) = n /\ p2 - 1 = i - 1
    <3>1. /\ pages[i].claim = c2 /\ pages[i].page = p2 - 1
          /\ pages[i].total_pages = Total(c2, s2)
      BY <2>1, <2>2, ExportPages
    <3> QED
      BY <1>6, <3>1
  <2>4. p2 = i
    <3>1. Total(c2, s2) \in 1..3
      BY <2>2, ExportPages
    <3> QED
      BY <2>1, <2>3, <3>1
  <2>5. pages[i] = PageOf(c, s2, i) /\ Total(c, s2) = Total(c, size)
    BY <1>7, <2>1, <2>3, <2>4
  <2>6. CASE n = 1
    <3>1. i = 1
      BY <2>6
    <3> QED
      BY <1>5, <1>7, <2>2, <2>5, <2>6, <3>1, ExportPages
  <2>7. CASE n # 1
    BY <1>5, <1>7, <2>2, <2>5, <2>7, ExportPages
  <2> QED
    BY <2>6, <2>7
<1>9. pages = [i \in 1..n |-> PageOf(c, size, i)]
  <2> DEFINE N == 1..n
  <2>1. pages \in [N -> Pages] /\ \A i \in N : pages[i] = PageOf(c, size, i)
    BY <1>1, <1>8
  <2> HIDE DEF N
  <2>2. pages = [i \in N |-> PageOf(c, size, i)]
    BY <2>1
  <2> QED
    BY <2>2 DEF N
<1>10. pages = export_claim(c, size)
  BY <1>5, <1>7, <1>9, ExportPages
<1> QED
  BY <1>4, <1>10 DEF Exports

-----------------------------------------------------------------------------
(* The results.                                                            *)

\* verify_claim may append claims construct_claim never counted, and charges
\* step by step: the list stays within twice the budget, and every derivation
\* held was paid for from the compute and from the verifier pool.
THEOREM MeteredHolds == Spec => []Metered
<1>1. IInv => Metered
  BY DEF IInv
<1> QED
  BY <1>1, Invariance, PTL

\* An accepted claim was checked in the session's universe, states what its
\* source says under its frozen bindings, whatever was bound since, is
\* provable, and has the derivation that export_claim looks up.
THEOREM AcceptedClaimsHoldAlways == Spec => []AcceptedClaimsHold
<1>1. IInv => AcceptedClaimsHold
  BY DEF IInv
<1> QED
  BY <1>1, Invariance, PTL

\* A merge of two branches that merge_with_certificate does not refuse has a
\* certificate that the independent verifier accepts, and the certificate's
\* writes and imports turn the base into the merged branch.
THEOREM CertificateExplainsMergeHolds == Spec => []CertificateExplainsMerge
<1>1. ASSUME IInv PROVE CertificateExplainsMerge
  <2> SUFFICES ASSUME NEW m \in Existing(branches), NEW n \in Existing(branches), m # n,
                      ~ MergeRefused(branches[m], branches[n], Reverified(branches[n]))
               PROVE  LET c == Certificate(branches[m], branches[n]) IN
                      /\ verify_merge_certificate(c)
                      /\ Explained(c) = Merged(branches[m], branches[n])
                      /\ \A w \in c.witnesses :
                             /\ w.kind = "Read" => w.value = branches[m].bindings[w.symbol]
                             /\ w.kind = "Absence" => w.symbol \notin Bound(branches[m])
    BY DEF CertificateExplainsMerge
  <2>1. branches[m] \in Spaces /\ branches[n] \in Spaces
    BY <1>1 DEF IInv, TypeOK, Existing, Protocol!Existing
  <2>2. ~ BindingConflict(branches[m], branches[n])
    BY DEF MergeRefused
  <2> QED
    BY <2>1, <2>2, CertificateOfMerge
<1> QED
  BY <1>1, Invariance, PTL

\* replay_claim_pages accepts the complete export of one accepted claim, in order,
\* and no other sequence of the pages in circulation, however many the client
\* presents and whatever page sizes it exported with.
THEOREM ReplayExactHolds == Spec => []ReplayExact
<1>1. ASSUME IInv PROVE ReplayExact
  <2> SUFFICES ASSUME NEW pages \in Presented
               PROVE  ReplayAccepted(pages) <=> /\ verifier_remaining > 0
                                                /\ pages \in Exports
                                                /\ Len(Flatten(pages)) <= VerifyStepBudget
    BY DEF ReplayExact
  <2>1. ASSUME ReplayAccepted(pages)
        PROVE  /\ verifier_remaining > 0 /\ pages \in Exports
               /\ Len(Flatten(pages)) <= VerifyStepBudget
    BY <2>1, AcceptedIsExport DEF ReplayAccepted, ReplayCharged
  <2>2. ASSUME verifier_remaining > 0, pages \in Exports,
               Len(Flatten(pages)) <= VerifyStepBudget
        PROVE  ReplayAccepted(pages)
    <3>1. PICK c \in Held, size \in PageSizes :
                   c.status = "Accepted" /\ pages = export_claim(c, size)
      BY <2>2 DEF Exports
    <3> DEFINE st == c.derivation_digest
    <3>2. size \in Nat \ {0}
      BY NativeAssumption
    <3>3. /\ c.context = Context /\ checked_statement(c) /\ Provable(c.statement)
          /\ st = c.statement
      BY <1>1, <3>1 DEF IInv, AcceptedClaimsHold
    <3>4. /\ Flatten(pages) = Steps(st)
          /\ Len(pages) \in 1..ProofSteps(st)
          /\ Head(pages).claim = c /\ Head(pages).root = ProofSteps(st)
          /\ Len(pages) <= VerifyStepBudget => PagesConsistent(pages)
      BY <3>1, <3>2, ExportReplays
    <3>5. /\ Len(Steps(st)) = ProofSteps(st) /\ ProofSteps(st) \in {2, 3}
          /\ Head(Steps(st))[1] = st
      BY StepsOf
    <3> HIDE DEF st
    <3>6. PagesConsistent(pages)
      BY <2>2, <3>4, <3>5, NativeAssumption
    <3>7. Conclusion(Flatten(pages), Head(pages).root) = c.statement
      BY <3>3, <3>4, <3>5 DEF Conclusion
    <3> QED
      BY <2>2, <3>1, <3>3, <3>4, <3>6, <3>7 DEF ReplayAccepted, ReplayCharged, st
  <2> QED
    BY <2>1, <2>2
<1> QED
  BY <1>1, Invariance, PTL

\* The session's private copy of the active workspace is invisible: every step
\* of the native session is a step of the protocol session on the branch
\* table, or changes no branch.
THEOREM ImplementsProtocolHolds == Spec => ImplementsProtocol
<1>1. Init => Protocol!Init
  BY SessionInit
<1>2. IInv /\ [Next]_vars => [ProtocolStep]_<<branches, workspace.branch_name>>
  BY SessionStep DEF ProtocolStutter
<1> QED
  BY <1>1, <1>2, Invariance, PTL DEF Spec, ImplementsProtocol
=============================================================================

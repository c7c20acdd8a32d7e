--------------------------- MODULE ProtocolSession ---------------------------
(***************************************************************************)
(* The multi-branch protocol session of fsym-runtime (protocol.rs): one    *)
(* table of workspaces and the name of the active one.  Every request of   *)
(* the protocol that changes state is an action; a refused request and a   *)
(* read-only one (Eval, Simplify, Diff, Factor, Solve, Integrate, Limit,   *)
(* StateRoot) leave the session as it is and are stuttering steps.         *)
(*                                                                         *)
(* It is also the specification that the native Session (module Session)   *)
(* is shown to implement: that one edits a private copy of the active      *)
(* workspace and writes it back.                                           *)
(***************************************************************************)
EXTENDS Workspace

CONSTANTS BranchNames, InitialBranch, NoBranch,
          MaxSessionBranches,   \* MAX_SESSION_BRANCHES
          Context,              \* the assumption universe of the session
          Formulas,             \* pairs <<lhs, rhs>> a client asks to prove
          Norm                  \* the polynomial normal form of an expression

ASSUME SessionAssumption ==
    /\ InitialBranch \in BranchNames
    /\ NoBranch \notin Workspaces(BranchNames, Context)
    /\ Formulas \subseteq Expressions \X Expressions
    /\ DOMAIN Norm = Expressions

VARIABLES branches,             \* branch name -> workspace or NoBranch
          active_branch

Existing(table) == {n \in BranchNames : table[n] # NoBranch}

-----------------------------------------------------------------------------
(* Claims.  An expression is a symbol or a closed value; substitution       *)
(* replaces a bound symbol by its value.  A derivation is represented by    *)
(* the equality it proves: it is built from the equality alone.             *)

Substitute(e, bindings) ==
    IF e \in Symbols /\ bindings[e] # Absent THEN bindings[e] ELSE e

Statement(formula, bindings) ==
    <<Substitute(formula[1], bindings), Substitute(formula[2], bindings)>>

\* What the kernel derives (reflexivity or the polynomial normal form), and
\* what the independent verifier accepts.
Provable(statement) ==
    statement[1] = statement[2] \/ Norm[statement[1]] = Norm[statement[2]]

\* The derivations of a workspace that verify again.
Reverified(ws) == {d \in ws.derivations : Provable(d)}

Proved(ws, statement) == [ws EXCEPT !.derivations = @ \cup {statement}]

-----------------------------------------------------------------------------
Init ==
    /\ branches = [n \in BranchNames |-> IF n = InitialBranch
                                         THEN NewWorkspace(n, Context) ELSE NoBranch]
    /\ active_branch = InitialBranch

active_workspace == branches[active_branch]

SetActive(ws) ==
    /\ branches' = [branches EXCEPT ![active_branch] = ws]
    /\ UNCHANGED active_branch

Bind(s, v) == SetActive(bind(active_workspace, s, v))

ProveUnder(formula, bindings) ==
    LET statement == Statement(formula, bindings) IN
    /\ Provable(statement)
    /\ SetActive(Proved(active_workspace, statement))

Prove(formula) == ProveUnder(formula, active_workspace.bindings)

ApplyPatch(updated, removed) ==
    /\ ~ PatchRefused(active_workspace, updated, removed)
    /\ SetActive(Patched(active_workspace, updated, removed))

Fork(n) ==
    /\ n \notin Existing(branches)
    /\ Cardinality(Existing(branches)) < MaxSessionBranches
    /\ branches' = [branches EXCEPT ![n] = fork(active_workspace, n)]
    /\ active_branch' = n

Checkout(n) ==
    /\ n \in Existing(branches)
    /\ active_branch' = n
    /\ UNCHANGED branches

MergeBranch(n) ==
    /\ n # active_branch
    /\ n \in Existing(branches)
    /\ ~ MergeRefused(active_workspace, branches[n], Reverified(branches[n]))
    /\ SetActive(Merged(active_workspace, branches[n]))

Next ==
    \/ \E s \in Symbols, v \in Values : Bind(s, v)
    \/ \E f \in Formulas : Prove(f)
    \/ \E updated \in Bindings, removed \in SUBSET Symbols : ApplyPatch(updated, removed)
    \/ \E n \in BranchNames : Fork(n) \/ Checkout(n) \/ MergeBranch(n)

Spec == Init /\ [][Next]_<<branches, active_branch>>
=============================================================================

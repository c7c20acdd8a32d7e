------------------------------ MODULE Workspace ------------------------------
(***************************************************************************)
(* The semantic workspace of fsym-runtime (workspace.rs) and the merge     *)
(* certificate of fsym-proof-kernel (merge.rs) as operators on records.    *)
(*                                                                         *)
(* A workspace is a value: a branch name, the bindings of symbols to       *)
(* expressions, the assumption context and the verified derivations.  An   *)
(* operation that the code refuses before it mutates anything is a         *)
(* predicate Refused and a result; the state machines ProtocolSession and  *)
(* Session put them into actions.                                          *)
(*                                                                         *)
(* Digests are taken to be collision free: the digest of a value is the    *)
(* value, the state root of a workspace is the workspace, and a commitment *)
(* is the record of what it commits to.                                    *)
(***************************************************************************)
EXTENDS Naturals, FiniteSets

CONSTANTS Symbols,              \* names a client may bind
          Values,               \* closed expressions a symbol may be bound to
          Absent,               \* "no binding"
          MaxBindings,          \* MAX_WORKSPACE_BINDINGS
          MaxDerivations        \* MAX_WORKSPACE_DERIVATIONS

ASSUME WorkspaceAssumption ==
    /\ Absent \notin Values
    /\ Symbols \cap Values = {}
    /\ MaxBindings \in Nat
    /\ MaxDerivations \in Nat

Expressions == Symbols \cup Values

Bindings == [Symbols -> Values \cup {Absent}]

\* The workspaces of the branches `names`; a derivation is the equality it proves.
Workspaces(names, context) ==
    [branch_name : names, bindings : Bindings, assumptions : {context},
     derivations : SUBSET (Expressions \X Expressions)]

Bound(ws) == {s \in Symbols : ws.bindings[s] # Absent}

NewWorkspace(name, context) ==
    [branch_name |-> name,
     bindings    |-> [s \in Symbols |-> Absent],
     assumptions |-> context,
     derivations |-> {}]

bind(ws, s, v) == [ws EXCEPT !.bindings[s] = v]

fork(ws, name) == [ws EXCEPT !.branch_name = name]

-----------------------------------------------------------------------------
(* apply_patch: updated maps the symbols to set to their new values (Absent *)
(* for the others), removed is the set of symbols to remove.               *)

PatchedCount(ws, updated, removed) ==
    Cardinality(Bound(ws))
      + Cardinality({s \in Symbols : updated[s] # Absent} \ Bound(ws))
      - Cardinality(removed \cap Bound(ws))

PatchRefused(ws, updated, removed) ==
    \/ \E s \in removed : updated[s] # Absent
    \/ PatchedCount(ws, updated, removed) > MaxBindings

Patched(ws, updated, removed) ==
    [ws EXCEPT !.bindings =
        [s \in Symbols |-> IF updated[s] # Absent THEN updated[s]
                           ELSE IF s \in removed THEN Absent
                           ELSE ws.bindings[s]]]

-----------------------------------------------------------------------------
(* merge: the conservative merge of the branch `incoming` into ws.         *)

MergedBindings(ws, incoming) ==
    [s \in Symbols |-> IF incoming.bindings[s] # Absent
                       THEN incoming.bindings[s] ELSE ws.bindings[s]]

\* Mutant: the merge does not look for conflicting bindings.
MutBindingConflict(ws, incoming) == FALSE

\* Overlapping bindings must be the same expression, not merely equal ones.
BindingConflict(ws, incoming) ==
    \E s \in Bound(ws) \cap Bound(incoming) :
        ws.bindings[s] # incoming.bindings[s]

\* verified: the derivations that the kernel accepts again.
MergeRefused(ws, incoming, verified) ==
    \/ Cardinality(Bound(ws)) > MaxBindings
    \/ Cardinality(Bound(incoming)) > MaxBindings
    \/ Cardinality(ws.derivations) > MaxDerivations
    \/ Cardinality(incoming.derivations) > MaxDerivations
    \/ ws.assumptions # incoming.assumptions
    \/ BindingConflict(ws, incoming)
    \/ ~ incoming.derivations \subseteq verified
    \/ Cardinality(Bound(ws) \cup Bound(incoming)) > MaxBindings
    \/ Cardinality(ws.derivations \cup incoming.derivations) > MaxDerivations

Merged(ws, incoming) ==
    [ws EXCEPT !.bindings = MergedBindings(ws, incoming),
               !.derivations = @ \cup incoming.derivations]

-----------------------------------------------------------------------------
(* merge_with_certificate: witnesses and imported derivations are collected *)
(* against the base, before the merge.                                     *)

Witness(symbol, kind, value) == [symbol |-> symbol, kind |-> kind, value |-> value]

AssumptionContext == "<assumption-context>"

Witnesses(ws, incoming) ==
    (UNION {{IF s \in Bound(ws) THEN Witness(s, "Read", ws.bindings[s])
                                ELSE Witness(s, "Absence", "zero"),
             Witness(s, "Write", incoming.bindings[s])} : s \in Bound(incoming)})
      \cup {Witness(AssumptionContext, "Predicate", "zero")}

state_root(ws) == ws

merge_commitment(base_root, context, witnesses, derivations) ==
    [base_root |-> base_root, context |-> context,
     witnesses |-> witnesses, derivations |-> derivations]

Certificate(ws, incoming) ==
    LET witnesses   == Witnesses(ws, incoming)
        derivations == incoming.derivations \ ws.derivations
    IN [context     |-> ws.assumptions,
        base_root   |-> state_root(ws),
        witnesses   |-> witnesses,
        derivations |-> derivations,
        result_root |-> merge_commitment(state_root(ws), ws.assumptions,
                                         witnesses, derivations)]

\* The independent certificate verifier of merge.rs, conservative policy.
Observed(certificate, s, kind) ==
    {w.value : w \in {w \in certificate.witnesses : w.symbol = s /\ w.kind = kind}}

CommitmentHolds(certificate) ==
    certificate.result_root = merge_commitment(certificate.base_root, certificate.context,
                                               certificate.witnesses, certificate.derivations)

verify_merge_certificate(certificate) ==
    /\ \A w \in certificate.witnesses :
           w.kind \in {"Absence", "Predicate"} =>
               w.value \in {"zero"} \cup IF w.kind = "Predicate"
                                         THEN {certificate.context} ELSE {}
    /\ \A s \in {w.symbol : w \in certificate.witnesses} :
           LET reads    == Observed(certificate, s, "Read")
               absences == Observed(certificate, s, "Absence")
               writes   == Observed(certificate, s, "Write")
           IN /\ ~ (reads # {} /\ absences # {})
              /\ writes # {} => reads \cup absences # {}
              /\ \A r \in reads, w \in writes : r = w
    /\ CommitmentHolds(certificate)
=============================================================================

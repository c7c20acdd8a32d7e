----------------------------- MODULE Publication -----------------------------
(***************************************************************************)
(* From a merge to a published root: a protocol session whose merges are   *)
(* captured as FMAP bundles (fmap.rs), publishers that replay a bundle in  *)
(* a fresh process, and the publication gate of one channel                *)
(* (publication.rs) with its lease and its poison marker.                  *)
(*                                                                         *)
(* A bundle may be damaged on its way to a publisher.  The gate takes the  *)
(* publisher's word that a candidate was verified; the publishers of this  *)
(* model pass what replay_fmap_bundle answered.                            *)
(***************************************************************************)
EXTENDS ProtocolSession, Sequences, SequencesExt

CONSTANTS Publishers,
          MaxLease,             \* the largest lease epoch (u64::MAX in the code)
          MaxBundles,           \* bound of the model: merges that are captured
          MaxHistory            \* bound of the model: publications

ASSUME PublicationAssumption == {MaxLease, MaxBundles, MaxHistory} \subseteq Nat \ {0}

VARIABLES bundles,              \* the FMAP bundles captured so far
          results,              \* history: <<certificate, merged workspace>> of each
          lease_epoch, poisoned, published_root, history,
          held,                 \* the lease epoch each publisher has read
          epochs                \* history: the epoch of each publication

session == <<branches, active_branch>>
capture == <<bundles, results>>
gate    == <<lease_epoch, poisoned, published_root, history>>
vars    == <<session, capture, gate, held, epochs>>

NoRoot == [none |-> TRUE]

PInit ==
    /\ Init
    /\ bundles = {} /\ results = {}
    /\ lease_epoch = 1 /\ poisoned = FALSE
    /\ published_root = NoRoot /\ history = <<>>
    /\ held = [p \in Publishers |-> 0]
    /\ epochs = <<>>

-----------------------------------------------------------------------------
(* FMAP bundles: the verifier-complete cut and the expected root.          *)

Bundle(base, merged, source, certificate) ==
    [certificate          |-> certificate,
     assumption_context   |-> merged.assumptions,
     base_branch_name     |-> base.branch_name,
     source_branch_name   |-> source.branch_name,
     base_bindings        |-> base.bindings,
     source_bindings      |-> source.bindings,
     base_derivations     |-> base.derivations,
     source_derivations   |-> source.derivations,
     expected_result_root |-> certificate.result_root]

Rebuilt(name, context, bindings, derivations) ==
    [branch_name |-> name, bindings |-> bindings,
     assumptions |-> context, derivations |-> derivations]

\* Mutant: the certificate is verified but the merge is not run again.
Mutreplay_fmap_bundle(bundle) ==
    /\ verify_merge_certificate(bundle.certificate)
    /\ bundle.expected_result_root = bundle.certificate.result_root

replay_fmap_bundle(bundle) ==
    LET base   == Rebuilt(bundle.base_branch_name, bundle.assumption_context,
                          bundle.base_bindings, bundle.base_derivations)
        source == Rebuilt(bundle.source_branch_name, bundle.assumption_context,
                          bundle.source_bindings, bundle.source_derivations)
    IN /\ verify_merge_certificate(bundle.certificate)
       /\ ~ MergeRefused(base, source, Reverified(source))
       /\ Certificate(base, source) = bundle.certificate
       /\ bundle.expected_result_root = bundle.certificate.result_root

\* What may arrive instead of a captured bundle: one part of it replaced by the
\* same part of another bundle or, for bindings and derivations, by another
\* value, or a certificate that lost a witness and was committed to again.  A
\* bundle made up as a whole, each part to fit the others, is not among them:
\* replay shows that a bundle is consistent, not who made it.
Resealed(certificate) ==
    [certificate EXCEPT !.result_root =
        merge_commitment(certificate.base_root, certificate.context,
                         certificate.witnesses, certificate.derivations)]

Damaged(bundle) ==
    {bundle}
      \cup (UNION {{[bundle EXCEPT ![part] = other[part]] : part \in DOMAIN bundle}
                     : other \in bundles})
      \cup {[bundle EXCEPT !.base_bindings = b]   : b \in Bindings}
      \cup {[bundle EXCEPT !.source_bindings = b] : b \in Bindings}
      \cup {[bundle EXCEPT !.source_derivations = {}], [bundle EXCEPT !.base_derivations = {}]}
      \cup {LET forged == Resealed([bundle.certificate EXCEPT !.witnesses = @ \ {w}])
             IN [bundle EXCEPT !.certificate = forged,
                               !.expected_result_root = forged.result_root]
              : w \in bundle.certificate.witnesses}

-----------------------------------------------------------------------------
(* The session.  Only merge_with_certificate yields a bundle; the session   *)
(* is not followed any further once MaxBundles are captured.               *)

SessionStep ==
    /\ Cardinality(bundles) < MaxBundles
    /\ \/ \E s \in Symbols, v \in Values : Bind(s, v)
       \/ \E f \in Formulas : Prove(f)
       \/ \E n \in BranchNames : Fork(n) \/ Checkout(n)
    /\ UNCHANGED <<capture, gate, held, epochs>>

MergeCaptured(n) ==
    LET base   == active_workspace
        source == branches[n]
        merged == Merged(base, source)
    IN /\ Cardinality(bundles) < MaxBundles
       /\ MergeBranch(n)
       /\ bundles' = bundles \cup {Bundle(base, merged, source, Certificate(base, source))}
       /\ results' = results \cup {<<Certificate(base, source), merged>>}
       /\ UNCHANGED <<gate, held, epochs>>

-----------------------------------------------------------------------------
(* The gate.                                                               *)

\* saturating_add
NextEpoch == IF lease_epoch = MaxLease THEN MaxLease ELSE lease_epoch + 1

renew_lease(p) ==
    /\ lease_epoch' = NextEpoch
    /\ held' = [held EXCEPT ![p] = lease_epoch']
    /\ UNCHANGED <<session, capture, poisoned, published_root, history, epochs>>

\* A publisher reads the live epoch without renewing it.
ReadLease(p) ==
    /\ held' = [held EXCEPT ![p] = lease_epoch]
    /\ UNCHANGED <<session, capture, gate, epochs>>

poison ==
    /\ poisoned' = TRUE
    /\ UNCHANGED <<session, capture, lease_epoch, published_root, history, held, epochs>>

restore ==
    /\ poisoned' = FALSE
    /\ UNCHANGED <<session, capture, lease_epoch, published_root, history, held, epochs>>

\* Mutant: an older epoch is still accepted.
MutAdmitted(epoch, verified) == ~ poisoned /\ epoch <= lease_epoch /\ verified

Admitted(epoch, verified) == ~ poisoned /\ epoch = lease_epoch /\ verified

Recorded(root) ==
    /\ published_root' = root
    /\ history' = Append(history, root)

publish(p, bundle) ==
    /\ Len(history) < MaxHistory
    /\ Admitted(held[p], replay_fmap_bundle(bundle))
    /\ Recorded(bundle.certificate.result_root)
    /\ epochs' = Append(epochs, held[p])
    /\ UNCHANGED <<session, capture, lease_epoch, poisoned, held>>

PNext ==
    \/ SessionStep
    \/ \E n \in BranchNames : MergeCaptured(n)
    \/ \E p \in Publishers : renew_lease(p) \/ ReadLease(p)
    \/ poison \/ restore
    \/ \E p \in Publishers, b \in bundles : \E d \in Damaged(b) : publish(p, d)

PSpec == PInit /\ [][PNext]_vars

-----------------------------------------------------------------------------
(* Properties.                                                             *)

\* The merge a root commits to, carried out on the base it names.
Replayed(root) ==
    [root.base_root EXCEPT
        !.bindings = [s \in Symbols |->
            LET writes == Observed(root, s, "Write")
            IN IF writes = {} THEN @[s] ELSE CHOOSE v \in writes : TRUE],
        !.derivations = @ \cup root.derivations]

\* "The recorded root is accepted only after that equality": whichever part of
\* a bundle was exchanged on its way, a published root is the commitment of a merge that
\* the session performed, and carrying out what it commits to gives the state
\* that merge produced.
PublishedRootsReplay ==
    \A i \in DOMAIN history :
        \E r \in results : /\ r[1].result_root = history[i]
                           /\ r[2] = Replayed(history[i])

\* "Renew the lease: invalidates every older epoch": once something was
\* published under a renewed lease, no publisher that still holds an older
\* epoch publishes any more.
LeaseFencing ==
    \A i, j \in DOMAIN epochs : i <= j => epochs[i] <= epochs[j]
=============================================================================

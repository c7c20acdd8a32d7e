-------------------------- MODULE PublicationProofs --------------------------
(***************************************************************************)
(* The publication gate, for every set of symbols, values, branches and    *)
(* publishers and every bound: a published root is the commitment of a     *)
(* merge the session made, whatever happened to the bundle on its way,     *)
(* leases fence, and the retention history only grows.                     *)
(***************************************************************************)
EXTENDS Publication, TLAPS

Spaces == Workspaces(BranchNames, Context)

Commitments == {Certificate(base, source).result_root : base \in Spaces, source \in Spaces}

TypeOK ==
    /\ branches \in [BranchNames -> Spaces \cup {NoBranch}]
    /\ active_branch \in Existing(branches)
    /\ lease_epoch \in Nat
    /\ held \in [Publishers -> Nat]
    /\ history \in Seq(Commitments)
    /\ epochs \in Seq(Nat)

\* A bundle is the record of a merge the session made.
Captures(bundle, base, source) ==
    bundle = Bundle(base, Merged(base, source), source, Certificate(base, source))

BundlesRecordMerges ==
    \A b \in bundles : \E base, source \in Spaces :
        /\ Captures(b, base, source)
        /\ <<Certificate(base, source), Merged(base, source)>> \in results

\* Nothing was published under an epoch that is still to come.
EpochsPast == \A i \in DOMAIN epochs : epochs[i] <= lease_epoch

IInv ==
    /\ TypeOK
    /\ BundlesRecordMerges
    /\ PublishedRootsReplay
    /\ EpochsPast
    /\ LeaseFencing

-----------------------------------------------------------------------------
(* The witnesses of a merge: one of the base and one of the incoming        *)
(* branch for every symbol that is bound there, and the context's.          *)

OfBase(base, s) ==
    IF s \in Bound(base) THEN Witness(s, "Read", base.bindings[s])
                         ELSE Witness(s, "Absence", "zero")

OfSource(source, s) == Witness(s, "Write", source.bindings[s])

OfContext == Witness(AssumptionContext, "Predicate", "zero")

\* The witnesses collected symbol by symbol are exactly these.
LEMMA WitnessesOf ==
    ASSUME NEW base, NEW source
    PROVE  /\ \A w \in Witnesses(base, source) :
                  \/ w = OfContext
                  \/ /\ w.symbol \in Bound(source)
                     /\ w = OfBase(base, w.symbol) \/ w = OfSource(source, w.symbol)
           /\ OfContext \in Witnesses(base, source)
           /\ \A s \in Bound(source) : /\ OfBase(base, s) \in Witnesses(base, source)
                                       /\ OfSource(source, s) \in Witnesses(base, source)
<1> DEFINE of == [s \in Bound(source) |-> {OfBase(base, s), OfSource(source, s)}]
           W == Witnesses(base, source)
<1>1. W = (UNION {of[s] : s \in Bound(source)}) \cup {OfContext}
  BY DEF Witnesses, OfBase, OfSource, OfContext
<1>2. /\ \A w \in W : w = OfContext \/ \E s \in Bound(source) : w \in of[s]
      /\ OfContext \in W
      /\ \A s \in Bound(source) : of[s] \subseteq W
  <2> HIDE DEF W, of
  <2> QED
    BY <1>1
<1>3. \A s : OfBase(base, s).symbol = s /\ OfSource(source, s).symbol = s
  BY DEF OfBase, OfSource, Witness
<1>4. \A s \in Bound(source) : of[s] = {OfBase(base, s), OfSource(source, s)}
  OBVIOUS
<1> HIDE DEF W, of
<1> QED
  BY <1>2, <1>3, <1>4 DEF W

\* Their kinds tell apart which side a witness comes from.
LEMMA WitnessKinds ==
    ASSUME NEW base, NEW source, NEW s
    PROVE  /\ OfBase(base, s).symbol = s /\ OfBase(base, s).kind \in {"Read", "Absence"}
           /\ OfSource(source, s).symbol = s /\ OfSource(source, s).kind = "Write"
           /\ OfSource(source, s).value = source.bindings[s]
           /\ OfContext.kind = "Predicate"
  BY DEF OfBase, OfSource, OfContext, Witness

\* What the certificate of a merge commits to, carried out on the base, is the
\* merge.
LEMMA CommitmentReplays ==
    ASSUME NEW base \in Spaces, NEW source \in Spaces
    PROVE  Replayed(Certificate(base, source).result_root) = Merged(base, source)
<1> DEFINE root == Certificate(base, source).result_root
<1>1. /\ root.base_root = base /\ root.witnesses = Witnesses(base, source)
      /\ root.derivations = source.derivations \ base.derivations
  BY DEF Certificate, merge_commitment, state_root
<1> HIDE DEF root
<1>2. ASSUME NEW s \in Symbols
      PROVE  Observed(root, s, "Write") = IF s \in Bound(source) THEN {source.bindings[s]} ELSE {}
  <2> DEFINE here == {w \in Witnesses(base, source) : w.symbol = s /\ w.kind = "Write"}
  <2>1. Observed(root, s, "Write") = {w.value : w \in here}
    BY <1>1 DEF Observed
  <2>2. here = IF s \in Bound(source) THEN {OfSource(source, s)} ELSE {}
    BY WitnessesOf, WitnessKinds
  <2>3. OfSource(source, s).value = source.bindings[s]
    BY WitnessKinds
  <2> HIDE DEF here
  <2> QED
    BY <2>1, <2>2, <2>3
<1>3. [s \in Symbols |->
          LET writes == Observed(root, s, "Write")
          IN IF writes = {} THEN base.bindings[s] ELSE CHOOSE v \in writes : TRUE]
        = MergedBindings(base, source)
  <2>1. ASSUME NEW s \in Symbols
        PROVE  (IF Observed(root, s, "Write") = {} THEN base.bindings[s]
                ELSE CHOOSE v \in Observed(root, s, "Write") : TRUE)
                  = IF source.bindings[s] # Absent THEN source.bindings[s] ELSE base.bindings[s]
    <3>1. CASE source.bindings[s] # Absent
      <4>1. Observed(root, s, "Write") = {source.bindings[s]}
        BY <1>2, <3>1 DEF Bound
      <4> QED
        BY <3>1, <4>1
    <3>2. CASE source.bindings[s] = Absent
      <4>1. Observed(root, s, "Write") = {}
        BY <1>2, <3>2 DEF Bound
      <4> QED
        BY <3>2, <4>1
    <3> QED
      BY <3>1, <3>2
  <2> QED
    BY <2>1 DEF MergedBindings
<1>4. base.derivations \cup root.derivations = base.derivations \cup source.derivations
  BY <1>1
<1>5. Replayed(root) = Merged(base, source)
  BY <1>1, <1>3, <1>4, Zenon DEF Replayed, Merged
<1> QED
  BY <1>5 DEF root

\* A certificate that lacks one witness of a merge is not the certificate of
\* any merge, although it is committed to.
LEMMA ForgeryShows ==
    ASSUME NEW base, NEW source, NEW w \in Witnesses(base, source), NEW base2, NEW source2
    PROVE  Witnesses(base2, source2) # Witnesses(base, source) \ {w}
<1> DEFINE W == Witnesses(base, source)
           V == Witnesses(base2, source2)
<1> SUFFICES ASSUME V = W \ {w} PROVE FALSE
  OBVIOUS
<1>1. /\ \A x \in W : \/ x = OfContext
                      \/ /\ x.symbol \in Bound(source)
                         /\ x = OfBase(base, x.symbol) \/ x = OfSource(source, x.symbol)
      /\ \A s \in Bound(source) : OfBase(base, s) \in W /\ OfSource(source, s) \in W
  BY WitnessesOf
<1>2. /\ \A x \in V : \/ x = OfContext
                      \/ /\ x.symbol \in Bound(source2)
                         /\ x = OfBase(base2, x.symbol) \/ x = OfSource(source2, x.symbol)
      /\ OfContext \in V
      /\ \A s \in Bound(source2) : OfBase(base2, s) \in V /\ OfSource(source2, s) \in V
  BY WitnessesOf
<1>3. w \in W
  OBVIOUS
<1>k. /\ \A t : OfBase(base, t).symbol = t /\ OfBase(base, t).kind \in {"Read", "Absence"}
      /\ \A t : OfBase(base2, t).symbol = t /\ OfBase(base2, t).kind \in {"Read", "Absence"}
      /\ \A t : OfSource(source, t).symbol = t /\ OfSource(source, t).kind = "Write"
      /\ \A t : OfSource(source2, t).symbol = t /\ OfSource(source2, t).kind = "Write"
      /\ OfContext.kind = "Predicate"
  BY DEF OfBase, OfSource, OfContext, Witness
<1>h. V = W \ {w}
  OBVIOUS
<1> HIDE DEF W, V
<1>4. w # OfContext
  BY <1>2, <1>h
<1> DEFINE s == w.symbol
<1>5. s \in Bound(source)
  BY <1>1, <1>3, <1>4
<1>6. CASE w = OfSource(source, s)
  <2>1. OfBase(base, s) \in V
    BY <1>1, <1>5, <1>6, <1>h, <1>k
  <2>2. s \in Bound(source2)
    BY <1>2, <2>1, <1>k
  <2>3. OfSource(source2, s) \in W /\ OfSource(source2, s) # w
    BY <1>2, <2>2, <1>h
  <2>4. OfSource(source2, s) = OfSource(source, s)
    BY <1>1, <2>3, <1>k
  <2> QED
    BY <1>6, <2>3, <2>4
<1>7. CASE w = OfBase(base, s)
  <2>1. OfSource(source, s) \in V
    BY <1>1, <1>5, <1>7, <1>h, <1>k
  <2>2. s \in Bound(source2)
    BY <1>2, <2>1, <1>k
  <2>3. OfBase(base2, s) \in W /\ OfBase(base2, s) # w
    BY <1>2, <2>2, <1>h
  <2>4. OfBase(base2, s) = OfBase(base, s)
    BY <1>1, <2>3, <1>k
  <2> QED
    BY <1>7, <2>3, <2>4
<1> QED
  BY <1>1, <1>3, <1>4, <1>6, <1>7

-----------------------------------------------------------------------------
(* Replay.  Whatever part of a bundle was replaced, a bundle that replays   *)
(* carries the certificate of a captured one.                               *)

\* replay_fmap_bundle accepts no certificate that no merge produced.
LEMMA ReplayedCertificate ==
    ASSUME BundlesRecordMerges, NEW b \in bundles, NEW d \in Damaged(b), replay_fmap_bundle(d)
    PROVE  \E o \in bundles : d.certificate = o.certificate
<1>1. \A o \in bundles : \E base, source \in Spaces : Captures(o, base, source)
  BY DEF BundlesRecordMerges
<1>2. PICK base \in Spaces, source \in Spaces : Captures(b, base, source)
  BY <1>1
<1>3. b = Bundle(base, Merged(base, source), source, Certificate(base, source))
  BY <1>2 DEF Captures
<1>4. /\ DOMAIN b = {"certificate", "assumption_context", "base_branch_name",
                     "source_branch_name", "base_bindings", "source_bindings",
                     "base_derivations", "source_derivations", "expected_result_root"}
      /\ b.certificate = Certificate(base, source)
  BY <1>3 DEF Bundle
<1> DEFINE Forged(w) == Resealed([b.certificate EXCEPT !.witnesses = @ \ {w}])
<1>5. \/ d = b
      \/ \E o \in bundles : \E part \in DOMAIN b : d = [b EXCEPT ![part] = o[part]]
      \/ \E x \in Bindings : \/ d = [b EXCEPT !.base_bindings = x]
                             \/ d = [b EXCEPT !.source_bindings = x]
      \/ d = [b EXCEPT !.source_derivations = {}] \/ d = [b EXCEPT !.base_derivations = {}]
      \/ \E w \in b.certificate.witnesses :
             d = [b EXCEPT !.certificate = Forged(w),
                           !.expected_result_root = Forged(w).result_root]
  <2> DEFINE mixed == {{[b EXCEPT ![part] = o[part]] : part \in DOMAIN b} : o \in bundles}
             rebound == {[b EXCEPT !.base_bindings = x] : x \in Bindings}
             resourced == {[b EXCEPT !.source_bindings = x] : x \in Bindings}
             emptied == {[b EXCEPT !.source_derivations = {}], [b EXCEPT !.base_derivations = {}]}
             forged == {[b EXCEPT !.certificate = Forged(w),
                                  !.expected_result_root = Forged(w).result_root]
                          : w \in b.certificate.witnesses}
  <2>1. d \in {b} \cup (UNION mixed) \cup rebound \cup resourced \cup emptied \cup forged
    BY DEF Damaged
  <2>2. \A x \in UNION mixed : \E o \in bundles : \E part \in DOMAIN b :
            x = [b EXCEPT ![part] = o[part]]
    OBVIOUS
  <2>3. /\ \A x \in rebound : \E y \in Bindings : x = [b EXCEPT !.base_bindings = y]
        /\ \A x \in resourced : \E y \in Bindings : x = [b EXCEPT !.source_bindings = y]
        /\ \A x \in emptied : \/ x = [b EXCEPT !.source_derivations = {}]
                              \/ x = [b EXCEPT !.base_derivations = {}]
        /\ \A x \in forged : \E w \in b.certificate.witnesses :
               x = [b EXCEPT !.certificate = Forged(w),
                             !.expected_result_root = Forged(w).result_root]
    OBVIOUS
  <2> HIDE DEF mixed, rebound, resourced, emptied, forged, Forged
  <2>4. d = b \/ d \in UNION mixed \/ d \in rebound \/ d \in resourced \/ d \in emptied \/ d \in forged
    BY <2>1
  <2>5. d \in UNION mixed => \E o \in bundles : \E part \in DOMAIN b : d = [b EXCEPT ![part] = o[part]]
    BY <2>2, Zenon
  <2>6. /\ d \in rebound => \E x \in Bindings : d = [b EXCEPT !.base_bindings = x]
        /\ d \in resourced => \E x \in Bindings : d = [b EXCEPT !.source_bindings = x]
    BY <2>3, Zenon
  <2>7. /\ d \in emptied => \/ d = [b EXCEPT !.source_derivations = {}]
                           \/ d = [b EXCEPT !.base_derivations = {}]
        /\ d \in forged => \E w \in b.certificate.witnesses :
               d = [b EXCEPT !.certificate = Forged(w),
                             !.expected_result_root = Forged(w).result_root]
    BY <2>3, Zenon
  <2> QED
    BY <2>4, <2>5, <2>6, <2>7, Zenon
<1>6. CASE \E o \in bundles : \E part \in DOMAIN b : d = [b EXCEPT ![part] = o[part]]
  <2>1. PICK o \in bundles, part \in DOMAIN b : d = [b EXCEPT ![part] = o[part]]
    BY <1>6
  <2>2. d.certificate = b.certificate \/ d.certificate = o.certificate
    BY <1>3, <1>4, <2>1 DEF Bundle
  <2> QED
    BY <2>2
<1>7. CASE \E x \in Bindings : \/ d = [b EXCEPT !.base_bindings = x]
                               \/ d = [b EXCEPT !.source_bindings = x]
  <2>1. d.certificate = b.certificate
    BY <1>3, <1>7 DEF Bundle
  <2> QED
    BY <2>1
<1>8. CASE d = [b EXCEPT !.source_derivations = {}] \/ d = [b EXCEPT !.base_derivations = {}]
  <2>1. d.certificate = b.certificate
    BY <1>3, <1>8 DEF Bundle
  <2> QED
    BY <2>1
<1>9. CASE \E w \in b.certificate.witnesses :
              d = [b EXCEPT !.certificate = Forged(w),
                            !.expected_result_root = Forged(w).result_root]
  <2>1. PICK w \in b.certificate.witnesses :
              d = [b EXCEPT !.certificate = Forged(w),
                            !.expected_result_root = Forged(w).result_root]
    BY <1>9
  <2>2. d.certificate = Forged(w)
    <3> HIDE DEF Forged
    <3> QED
      BY <1>3, <2>1 DEF Bundle
  <2>3. b.certificate.witnesses = Witnesses(base, source)
    BY <1>4 DEF Certificate
  <2>4. Forged(w).witnesses = Witnesses(base, source) \ {w}
    BY <1>4 DEF Resealed, Certificate
  <2>5. PICK base2, source2 : Certificate(base2, source2) = d.certificate
    BY DEF replay_fmap_bundle
  <2>6. Certificate(base2, source2).witnesses = Witnesses(base2, source2)
    BY DEF Certificate
  <2>7. Witnesses(base2, source2) = Witnesses(base, source) \ {w}
    BY <2>2, <2>4, <2>5, <2>6
  <2>8. w \in Witnesses(base, source)
    BY <2>3
  <2> QED
    BY <2>7, <2>8, ForgeryShows
<1> QED
  BY <1>5, <1>6, <1>7, <1>8, <1>9

\* What a publisher publishes is the root of a merge, which replays to it.
LEMMA PublishedRoot ==
    ASSUME BundlesRecordMerges, NEW b \in bundles, NEW d \in Damaged(b), replay_fmap_bundle(d)
    PROVE  /\ d.certificate.result_root \in Commitments
           /\ \E r \in results : /\ r[1].result_root = d.certificate.result_root
                                 /\ r[2] = Replayed(d.certificate.result_root)
<1>1. PICK o \in bundles : d.certificate = o.certificate
  BY ReplayedCertificate
<1>2. PICK base \in Spaces, source \in Spaces :
          /\ Captures(o, base, source)
          /\ <<Certificate(base, source), Merged(base, source)>> \in results
  BY DEF BundlesRecordMerges
<1>3. o.certificate = Certificate(base, source)
  BY <1>2 DEF Captures, Bundle
<1>4. Replayed(d.certificate.result_root) = Merged(base, source)
  BY <1>1, <1>3, CommitmentReplays
<1>5. d.certificate.result_root \in Commitments
  BY <1>1, <1>3 DEF Commitments
<1> DEFINE r == <<Certificate(base, source), Merged(base, source)>>
<1>6. r \in results /\ r[1] = Certificate(base, source) /\ r[2] = Merged(base, source)
  BY <1>2
<1> HIDE DEF r
<1>7. r[1].result_root = d.certificate.result_root /\ r[2] = Replayed(d.certificate.result_root)
  BY <1>1, <1>3, <1>4, <1>6
<1> QED
  BY <1>5, <1>6, <1>7

-----------------------------------------------------------------------------
(* Every step.                                                             *)

TableOK ==
    /\ branches \in [BranchNames -> Spaces \cup {NoBranch}]
    /\ active_branch \in Existing(branches)

\* An edit of the active workspace keeps the branch table well formed.
LEMMA SetActiveStep ==
    ASSUME TableOK, NEW ws \in Spaces, SetActive(ws)
    PROVE  TableOK'
<1>1. active_branch \in BranchNames /\ ws # NoBranch
  BY SessionAssumption DEF TableOK, Existing, Spaces
<1>2. /\ branches' \in [BranchNames -> Spaces \cup {NoBranch}]
      /\ branches'[active_branch] = ws /\ active_branch' = active_branch
  BY <1>1 DEF TableOK, SetActive
<1> QED
  BY <1>1, <1>2 DEF TableOK, Existing

\* The active workspace is one of the workspaces.
LEMMA ActiveType ==
    ASSUME TableOK
    PROVE  active_workspace \in Spaces /\ \A n \in Existing(branches) : branches[n] \in Spaces
  BY DEF TableOK, Existing, active_workspace

\* So does every request to the protocol session.
LEMMA SessionTable ==
    ASSUME TableOK, SessionStep
    PROVE  TableOK'
<1> DEFINE ws == active_workspace
<1>1. ws \in Spaces
  BY ActiveType
<1> HIDE DEF ws
<1> USE DEF Spaces, Workspaces, Bindings
<1>2. ASSUME NEW s \in Symbols, NEW v \in Values, Bind(s, v) PROVE TableOK'
  <2>1. bind(ws, s, v) \in Spaces
    BY <1>1 DEF bind
  <2> QED
    BY <1>2, <2>1, SetActiveStep DEF Bind, ws
<1>3. ASSUME NEW f \in Formulas, Prove(f) PROVE TableOK'
  <2>1. f \in Expressions \X Expressions
    BY SessionAssumption
  <2>2. Statement(f, ws.bindings) \in Expressions \X Expressions
    BY <1>1, <2>1 DEF Statement, Substitute, Expressions
  <2>3. \A d \in Expressions \X Expressions : Proved(ws, d) \in Spaces
    BY <1>1 DEF Proved
  <2>4. Proved(ws, Statement(f, ws.bindings)) \in Spaces
    BY <2>2, <2>3
  <2>5. SetActive(Proved(ws, Statement(f, ws.bindings)))
    BY <1>3 DEF Prove, ProveUnder, ws
  <2> QED
    BY <2>4, <2>5, SetActiveStep
<1>4. ASSUME NEW n \in BranchNames, Fork(n) PROVE TableOK'
  <2>1. fork(ws, n) \in Spaces
    BY <1>1 DEF fork
  <2>2. fork(ws, n) # NoBranch
    BY <2>1, SessionAssumption
  <2>3. branches' = [branches EXCEPT ![n] = fork(ws, n)] /\ active_branch' = n
    BY <1>4 DEF Fork, ws
  <2>4. branches' \in [BranchNames -> Spaces \cup {NoBranch}] /\ branches'[n] = fork(ws, n)
    <3> DEFINE new == fork(ws, n)
    <3> HIDE DEF new, Spaces
    <3> QED
      BY <2>1, <2>3 DEF TableOK, new
  <2> QED
    BY <2>2, <2>3, <2>4 DEF TableOK, Existing
<1>5. ASSUME NEW n \in BranchNames, Checkout(n) PROVE TableOK'
  BY <1>5 DEF Checkout, TableOK, Existing
<1> QED
  BY <1>2, <1>3, <1>4, <1>5 DEF SessionStep

\* A merge of workspaces is a workspace.
LEMMA MergedType ==
    ASSUME NEW base \in Spaces, NEW source \in Spaces
    PROVE  Merged(base, source) \in Spaces
  BY DEF Merged, MergedBindings, Spaces, Workspaces, Bindings

\* A captured merge: the bundle and its result are recorded together.
LEMMA CaptureStep ==
    ASSUME IInv, NEW n \in BranchNames, MergeCaptured(n)
    PROVE  IInv'
<1> DEFINE base == active_workspace
           source == branches[n]
           merged == Merged(base, source)
<1>1. /\ MergeBranch(n)
      /\ bundles' = bundles \cup {Bundle(base, merged, source, Certificate(base, source))}
      /\ results' = results \cup {<<Certificate(base, source), merged>>}
      /\ UNCHANGED <<gate, held, epochs>>
  BY DEF MergeCaptured
<1>t. TableOK
  BY DEF IInv, TypeOK, TableOK
<1>2. base \in Spaces /\ source \in Spaces
  BY <1>1, <1>t, ActiveType DEF MergeBranch
<1>3. merged \in Spaces
  BY <1>2, MergedType
<1>4. TableOK'
  <2>1. SetActive(merged)
    BY <1>1 DEF MergeBranch
  <2> HIDE DEF merged
  <2> QED
    BY <1>t, <1>3, <2>1, SetActiveStep
<1>5. TypeOK'
  BY <1>1, <1>4 DEF IInv, TypeOK, TableOK, gate
<1>6. BundlesRecordMerges'
  <2>0. BundlesRecordMerges
    BY DEF IInv
  <2> DEFINE new == Bundle(base, merged, source, Certificate(base, source))
  <2>1. /\ Captures(new, base, source)
        /\ <<Certificate(base, source), Merged(base, source)>> \in results'
    BY <1>1 DEF Captures
  <2>2. bundles' = bundles \cup {new} /\ results \subseteq results'
    BY <1>1
  <2> HIDE DEF new
  <2>3. ASSUME NEW b \in bundles'
        PROVE  \E x, y \in Spaces : /\ Captures(b, x, y)
                                    /\ <<Certificate(x, y), Merged(x, y)>> \in results'
    <3>1. CASE b = new
      <4> HIDE DEF base, source
      <4> QED
        BY <1>2, <2>1, <3>1
    <3>2. CASE b \in bundles
      BY <2>0, <2>2, <3>2 DEF BundlesRecordMerges
    <3> QED
      BY <2>2, <2>3, <3>1, <3>2
  <2> QED
    BY <2>3 DEF BundlesRecordMerges
<1>7. PublishedRootsReplay'
  <2>1. history' = history /\ results \subseteq results' /\ PublishedRootsReplay
    BY <1>1 DEF gate, IInv
  <2> QED
    BY <2>1 DEF PublishedRootsReplay
<1>8. EpochsPast' /\ LeaseFencing'
  BY <1>1 DEF gate, IInv, EpochsPast, LeaseFencing
<1> QED
  BY <1>5, <1>6, <1>7, <1>8 DEF IInv

\* The gate: only the live epoch is admitted, and the root is appended.
LEMMA PublishStep ==
    ASSUME IInv, NEW p \in Publishers, NEW b \in bundles, NEW d \in Damaged(b), publish(p, d)
    PROVE  IInv'
<1> DEFINE root == d.certificate.result_root
           e == held[p]
<1>1. /\ e = lease_epoch /\ replay_fmap_bundle(d)
      /\ history' = Append(history, root) /\ epochs' = Append(epochs, e)
      /\ UNCHANGED <<session, capture, lease_epoch, poisoned, held>>
  BY DEF publish, Admitted, Recorded
<1>2. /\ root \in Commitments
      /\ \E r \in results : r[1].result_root = root /\ r[2] = Replayed(root)
  BY <1>1, PublishedRoot DEF IInv
<1>3. e \in Nat /\ history \in Seq(Commitments) /\ epochs \in Seq(Nat)
  BY DEF IInv, TypeOK
<1> HIDE DEF root, e
<1>4. TypeOK'
  <2>1. history' \in Seq(Commitments) /\ epochs' \in Seq(Nat)
    BY <1>1, <1>2, <1>3
  <2> QED
    BY <1>1, <2>1 DEF IInv, TypeOK, session, Existing
<1>5. BundlesRecordMerges'
  BY <1>1 DEF capture, IInv, BundlesRecordMerges
<1>6. /\ \A i \in DOMAIN history' : \/ history'[i] = root
                                    \/ i \in DOMAIN history /\ history'[i] = history[i]
      /\ \A i \in DOMAIN epochs' : \/ epochs'[i] = e /\ i = Len(epochs) + 1
                                   \/ i \in DOMAIN epochs /\ epochs'[i] = epochs[i]
      /\ \A i \in DOMAIN epochs' : i \in 1..(Len(epochs) + 1)
  BY <1>1, <1>2, <1>3
<1>7. PublishedRootsReplay'
  <2>1. results' = results /\ PublishedRootsReplay
    BY <1>1 DEF capture, IInv
  <2> QED
    BY <1>2, <1>6, <2>1 DEF PublishedRootsReplay
<1>8. EpochsPast' /\ LeaseFencing'
  <2>1. /\ \A i \in DOMAIN epochs : epochs[i] <= lease_epoch
        /\ \A i, j \in DOMAIN epochs : i <= j => epochs[i] <= epochs[j]
        /\ lease_epoch' = lease_epoch /\ lease_epoch \in Nat
        /\ \A i \in DOMAIN epochs : i \in 1..Len(epochs)
        /\ Len(epochs) \in Nat
    BY <1>1, <1>3 DEF IInv, TypeOK, EpochsPast, LeaseFencing
  <2>2. EpochsPast'
    BY <1>1, <1>6, <2>1 DEF EpochsPast
  <2>3. LeaseFencing'
    BY <1>1, <1>6, <2>1 DEF LeaseFencing
  <2> QED
    BY <2>2, <2>3
<1> QED
  BY <1>4, <1>5, <1>7, <1>8 DEF IInv

\* Every step of the session, the gate and the publishers preserves the invariant.
LEMMA PublicationStep ==
    ASSUME IInv, [PNext]_vars
    PROVE  IInv'
<1> USE DEF session, capture, gate
<1>1. CASE SessionStep
  <2>1. TableOK'
    BY <1>1, SessionTable DEF IInv, TypeOK, TableOK
  <2>2. UNCHANGED <<capture, gate, held, epochs>>
    BY <1>1 DEF SessionStep
  <2>3. TypeOK'
    BY <2>1, <2>2 DEF IInv, TypeOK, TableOK
  <2> QED
    BY <2>2, <2>3 DEF IInv, BundlesRecordMerges, PublishedRootsReplay, EpochsPast, LeaseFencing
<1>2. CASE \E n \in BranchNames : MergeCaptured(n)
  BY <1>2, CaptureStep
<1>3. ASSUME NEW p \in Publishers, renew_lease(p) PROVE IInv'
  <2>1. /\ lease_epoch' \in Nat /\ lease_epoch <= lease_epoch'
        /\ held' = [held EXCEPT ![p] = lease_epoch']
        /\ UNCHANGED <<session, capture, poisoned, published_root, history, epochs>>
    <3>1. MaxLease \in Nat /\ lease_epoch \in Nat
      BY PublicationAssumption DEF IInv, TypeOK
    <3> QED
      BY <1>3, <3>1 DEF renew_lease, NextEpoch
  <2>2. TypeOK'
    BY <2>1 DEF IInv, TypeOK, Existing
  <2>3. EpochsPast'
    <3>1. \A i \in DOMAIN epochs : epochs[i] \in Nat /\ epochs[i] <= lease_epoch
      BY DEF IInv, TypeOK, EpochsPast
    <3>2. lease_epoch \in Nat /\ epochs' = epochs
      BY <2>1 DEF IInv, TypeOK
    <3> QED
      BY <2>1, <3>1, <3>2 DEF EpochsPast
  <2> QED
    BY <2>1, <2>2, <2>3 DEF IInv, BundlesRecordMerges, PublishedRootsReplay, LeaseFencing
<1>4. ASSUME NEW p \in Publishers, ReadLease(p) PROVE IInv'
  <2>1. TypeOK'
    BY <1>4 DEF ReadLease, IInv, TypeOK, Existing
  <2> QED
    BY <1>4, <2>1 DEF ReadLease, IInv, BundlesRecordMerges, PublishedRootsReplay, EpochsPast,
                      LeaseFencing
<1>5. CASE poison \/ restore \/ UNCHANGED vars
  <2>1. UNCHANGED <<session, capture, lease_epoch, published_root, history, held, epochs>>
    BY <1>5 DEF poison, restore, vars
  <2>2. TypeOK'
    BY <2>1 DEF IInv, TypeOK, Existing
  <2> QED
    BY <2>1, <2>2 DEF IInv, BundlesRecordMerges, PublishedRootsReplay, EpochsPast, LeaseFencing
<1>6. CASE \E p \in Publishers, b \in bundles : \E d \in Damaged(b) : publish(p, d)
  BY <1>6, PublishStep
<1> QED
  BY <1>1, <1>2, <1>3, <1>4, <1>5, <1>6 DEF PNext

\* The gate starts with nothing captured, published or held.
LEMMA PublicationInit ==
    ASSUME PInit
    PROVE  IInv
<1>1. NewWorkspace(InitialBranch, Context) \in Spaces /\ InitialBranch \in BranchNames
  BY SessionAssumption DEF NewWorkspace, Spaces, Workspaces, Bindings
<1>2. NewWorkspace(InitialBranch, Context) # NoBranch
  BY <1>1, SessionAssumption DEF Spaces
<1>3. TableOK
  <2> DEFINE new == NewWorkspace(InitialBranch, Context)
  <2>1. branches = [n \in BranchNames |-> IF n = InitialBranch THEN new ELSE NoBranch]
    BY DEF PInit, Init
  <2>2. active_branch = InitialBranch
    BY DEF PInit, Init
  <2> HIDE DEF new
  <2> QED
    BY <1>1, <1>2, <2>1, <2>2 DEF TableOK, Existing, new
<1> QED
  BY <1>3 DEF PInit, IInv, TypeOK, TableOK, BundlesRecordMerges, PublishedRootsReplay,
              EpochsPast, LeaseFencing

\* Hence it holds always.
LEMMA Invariance == PSpec => []IInv
<1>1. PInit => IInv
  BY PublicationInit
<1>2. IInv /\ [PNext]_vars => IInv'
  BY PublicationStep
<1> QED
  BY <1>1, <1>2, PTL DEF PSpec

-----------------------------------------------------------------------------
(* The results.                                                            *)

\* Whichever single part of a bundle was exchanged on its way, and although a
\* certificate may have lost a witness and been sealed again, a published root commits to a merge the session performed, and carrying it
\* out gives the state that merge produced.
THEOREM PublishedRootsReplayHolds == PSpec => []PublishedRootsReplay
<1>1. IInv => PublishedRootsReplay
  BY DEF IInv
<1> QED
  BY <1>1, Invariance, PTL

\* A publisher that still holds an older epoch never publishes again once
\* something was published under a renewed lease.
THEOREM LeaseFencingHolds == PSpec => []LeaseFencing
<1>1. IInv => LeaseFencing
  BY DEF IInv
<1> QED
  BY <1>1, Invariance, PTL
=============================================================================

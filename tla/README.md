# FrankenSymPy: TLA+ verification

FrankenSymPy is a symbolic mathematics system in Rust with a Python face. Two
things make it hard to get right. Around the mathematics there is state that
several actors share: budgets that are divided and returned, races of strategies
whose winner must be verified, checkpoints that survive a killed process, branches
that are merged and published, callbacks that must have their effect once. And the
mathematics makes exact claims: kernels, solvers and factorizers answer with
certificates that independent verifiers re-check. This directory models both,
checks the models with TLC on small instances and proves with TLAPS, for every
instance, the safety properties of the durable store and its workers, the budgets,
the races, the monitors, the sessions, the publication gate, the callbacks and the
proof kernel with its remote workers.

Paths below are relative to the repository root.

## 1. Inventory

### Parts that keep state

| Part | State | Operations | Meets | What is hard | What makes it correct |
|---|---|---|---|---|---|
| Durable store, file lane (`crates/fsym-durable/src/file_store.rs`) | `staging/` and `committed/` directories of a root | `prepare`, `verify_prepared`, `commit`, `load_committed`, `release`, `staging_len` | frontier worker | several processes on one root, death between two system calls, a fixed temporary name, count-then-create | a published record is whole and stays; the reserve is bounded |
| Durable store, CLI lane (`cli_store.rs`) | rows of one database | the same | conformance tests, frontier worker | every SQL text is a subprocess of its own; what was checked is stale at the next one | as above |
| Store contract (`store.rs`) | staged, published, acknowledged records | the trait's operations | both lanes | | commit publishes atomically or refuses |
| Frontier worker (`bin/factor_frontier_worker.rs`) | markers, report, the store | `generate`, `resume` | file lane, race | SIGKILL at any call, overlapping resumes, repeated generates | a report comes from a committed record; a marker is true; a started frontier is finished |
| Budgets (`crates/fsym-budget/src/lib.rs`) | per ledger: remaining, verifier pool, sequence, authority | charge, batch, refund, verifier lease, child reservation and merge | everything that is metered | receipts and children come back in any order or never; refund and merge add unchecked | no tree of ledgers spends more than its root; no addition overflows |
| Region context (`crates/fsym-runtime/src/cx.rs`) | a budget, a cancellation source | checkpoint, charges, child budgets | race | cancellation is seen only at checkpoints | charges after cancellation are refused |
| Portfolio race (`portfolio.rs`) | child budgets, worker outcomes, continuation | concurrent, continuation, resume, sequential, publish | context, budget, proof kernel, monitors | scheduling of generators, panics, refused spawns, cancellation against publication | the winner is the first registered verified candidate; budgets are reconciled |
| Monitors (`monitor.rs`) | wealth, counters, alarm and fault latches | observe, reset, snapshot, resume | race outcomes | long streams, alarm latching, generations, resumption | nothing is dropped; an alarm is exact and counted once |
| Workspace (`workspace.rs`) | bindings, assumptions, derivations per branch | bind, fork, patch, merge, certified merge | kernel, gate, sessions | a merge that is refused half way, certificates altered afterwards | all or nothing; a certificate explains exactly its merge |
| Sessions (`protocol.rs`, `src/session.rs`) | branch table, the active copy, claims, budgets | construct, fork, checkout, patch, merge, claims, export, replay | workspace, budget, kernel | the active workspace is a copy; claims come back late, twice, altered, in pages | no edit is lost; what was accepted can be checked again |
| Publication gate, map bundles (`publication.rs`, `fmap.rs`) | lease epoch, poison, published root, history | renew, poison, restore, publish, lookup; capture, replay | merge certificates | stale leases, bundles damaged at rest | a published root replays; a fenced publisher publishes nothing |
| Callback supervision (`crates/fsym-python/src/callbacks.rs`) | effects executed and in flight, taint, trace | `invoke_once`, `invoke_fresh`, `invoke_supervised`, cancel | Python code, budget | reentrancy while the lock is released, cancellation and timeouts in flight, retries | an effect happens once; an unknown effect stops the session |
| Proof kernel (`crates/fsym-proof-kernel`) | a list of steps | one operation per rule, export | sessions, races, remote workers | side conditions of rules, renumbering in exports | every step is valid; the verifier accepts no damaged export of a false claim |
| Remote coordinator (`remote_worker.rs`) | accepted result, cancelled | accept once, cancel | kernel | duplicate, late and foreign responses | an accepted answer is the assigned claim, verified |
| Ledger, replay log, checkpoints (`ledger.rs`, `replay.rs`, `checkpoint.rs`) | bounded sequences with digests | append, verify | protocol | limits | the chain is intact |
| Evaluation budget (`numeric_budget.rs`) | a ledger behind a lock, a cancellation flag | charge, cancel | Python code, budget | cancel must get through while an evaluation holds the lock | a second evaluation is refused and changes nothing |

### Parts that compute

| Part | Promise |
|---|---|
| Propositional logic (`crates/fsym-logic`) | rewriting keeps the meaning; UNSAT is answered only when established |
| Sets of reals (`crates/fsym-sets`) | yes and no are true for every value of the symbols, otherwise unknown |
| Graph index (`crates/fsym-runtime/src/graph_index.rs`) | traversals and certificates agree with the graph; a stale projection denies nothing |
| Big integers, modular arithmetic, rationals (`crates/fsym-bigint`, `fsym-modular`, `fsym-rational`) | all multiplication kernels agree; fractions are canonical; conversions round correctly |
| Polynomials and factorization (`crates/fsym-polys`) | certificates are re-verified; a complete factorization is never partial |

The rest: the expression core, calculus, solvers, matrices and the other
mathematical crates, the evidence lattice, formal-proof export, printing, the
Python bindings and shims, the conformance lab and the build tooling.

### How they interact

A caller opens a region (`FsymCx`) on a root `Budget`. A race pays the verifier
pool for the claim, carves a child budget per strategy, runs the generators in a
scoped region, merges the children back, and has the kernel verify candidates
paid from the pool until one passes. A race that stops after the drain yields a
continuation; the frontier worker turns it into a durable record, stores it
with `prepare`, `verify_prepared`, `commit`, and a later process resumes it in a
fresh region. The outcome of a race is one observation of a monitor. An agent's
session edits workspaces, merges branches under certificates that the kernel's
derivations support, and a merge is captured in a bundle that the publication gate
admits. A remote worker answers an assignment with an export of the kernel, which
the coordinator re-verifies. Python callbacks run under a supervisor that charges
a budget and keeps a trace.

## 2. Modules

| Module | Models | State and actions against the code |
|---|---|---|
| `DurableStore` | the trait's contract | the abstract specification: `staged`, `published` and `acked` sets of records |
| `FileStore` | `file_store.rs` | `dir` is what each directory lists, `bytes` the chunks in each file, `pc`, `rec`, `off`, `fd` a process in the middle of an operation. One action per file-system call: `PrepareAdmit` (count), `PrepareCreate` (create, truncating), `PrepareWrite` (one chunk), `PrepareRename`, `CommitVerify`, `CommitAlready`/`CommitAbsent` (target lookup), `CommitRename`, `ReleaseFind`, `ReleaseRemove`; the error returns are actions too; `Interrupt` is death or an I/O error. An open file follows renames |
| `CliStore` | `cli_store.rs` | `staging` and `committed` are the rows of each kind; one action per SQL text, `CommitEmpty` and `CommitConflict` are the publishing transaction on a database that has moved on |
| `StoreLanes` | both lanes | a lane is chosen at the start, then only its actions run; each is mapped to `DurableStore` |
| `FrontierWorker` | `factor_frontier_worker.rs` | extends `FileStore` (each store call runs through its actions) with `stage` per worker, marker and report files, `Kill` |
| `Budget` | `fsym-budget` | a ledger is its authority; `remaining` (the pool is the entry `Pool`), `sequence`, `parent`, receipts, children and leases held by somebody. Handing a value to the wrong ledger consumes it, as in Rust. `total`, `granted`, `born` are history |
| `PortfolioRace` | `portfolio.rs`, `cx.rs` | `phase` is where the owner is, `worker` and `child` the generators and their budgets, `outcomes` the shared vector; the continuation is `captured` |
| `Monitor` | `monitor.rs` | `state` is `MonitorSnapshot` field by field; `heard`, `peak` are history |
| `Workspace` | `workspace.rs` | operators: `bind`, `fork`, `apply_patch`, `merge`, `merge_with_certificate` and the certificate's verifier |
| `ProtocolSession` | `protocol.rs` | the branch table and the active branch; one action per request that changes them |
| `Session` | `src/session.rs` | the private copy `workspace` beside `branches`, `claims`, `derivations` and the two budgets; refines `ProtocolSession` by forgetting the copy and the claims |
| `Publication` | `publication.rs`, `fmap.rs` | the protocol session with merges captured into bundles, the gate's `lease_epoch`, poison, root and history, publishers that read a lease and use it later, bundles damaged at rest |
| `CallbackSession` | `callbacks.rs` | `stack` is the calls in progress: the lock is released while Python runs, so another call, a cancellation or a charge may come between any two steps of a call |
| `ProofKernel` | the kernel's steps | what each rule establishes from its premises, the slice that is exported with its renumbering, the independent verifier; what is computed on terms and the value of a term are constants |
| `KernelTerms` | the kernel's terms | polynomial normal forms, the Pythagorean identity, definitional reductions, coercions between the number domains, substitution; and the reference semantics in a prime field. `MCRemoteWorker.cfg` gives them to `ProofKernel` |
| `RemoteWorker` | `remote_worker.rs` | `steps` is the worker's kernel, to which any rule over any earlier steps is added; answers are exports of it, whole or damaged, for any task and claim; the coordinator accepts or cancels |
| `BoolLogic`, `RealSets`, `SymSets`, `GraphIndex` | logic, sets, graph index | recursive operators with the code's orders and limits |
| `Limbs`, `Modular`, `Rationals` | the number crates | digit kernels with small digits; Euclid to the prime stream; fractions and a small float format |
| `UniPolys`, `FieldPolys`, `Factoring` | `crates/fsym-polys` | polynomials over fractions; over prime fields and the integers; square-free parts, roots, Kronecker, Zassenhaus and the verifiers |
| `Algorithms` | | asks the pure algorithms one question per state |
| `StoreProofs` | | theorems about `FileStore`, `StoreLanes`, `CliStore` and `FrontierWorker` |
| `BudgetProofs`, `PortfolioRaceProofs`, `SessionProofs`, `PublicationProofs`, `CallbackSessionProofs` | | theorems about the module of that name |
| `RuntimeProofs` | | theorems about `Monitor`, and about `RemoteWorker` with `ProofKernel` |
| `SumLemmas` | | induction over naturals and sums over finite sets, for the proofs |
| `MC*` | | instances for TLC |

What is abstracted: a record's bytes are a set of chunks, complete or not
(decoding accepts exactly the complete one, which is what the digest is for);
modification times are dropped, so `load_committed` may return any committed
file of the namespace; the SQL engine is external and runs a text as a whole or
not at all; a candidate of a race is what its verification will find; compute is one
dimension in the race (all of them in `Budget`); logarithms are fixed-point
integers in thousandths; digests are the digested values; decision cards, texts and
byte limits are left out. Widths (digits, floats, counters, the splitting
generator) and search limits are constants, so that a small instance meets them.

## 3. Runs

`D` marks the run that allows deadlock, because the race is over. Machines that share no
state share a run: one of them is chosen in the initial state (the lanes of the store, `machine` in
`MCSupervision`) and the others stay as they are; ledgers and monitors whose bounded counters
are used up stutter there. The expected violations are in section 5.

| Run | Instance | States | Shows |
|---|---|---|---|
| `lanes` | file lane: 3 processes with a record each, limit 1; CLI lane: 3 processes, 4 records, limit 1, releases at any time | 252,032 | the reserve of either lane is overshot by fewer names or rows than there are processes; in the file lane an acknowledged commit stays published and committed files are whole; the file lane implements `DurableStore`, and so does the CLI lane but for one acknowledgement |
| `frontier` | 2 workers, 2 generates, 2 kills | 138,116 | a report comes from a committed whole record, markers are true, a standing `prepared` marker leads to the report |
| `supervision` | ledgers: 2 roots (one without a pool), 2 descendants, counters up to 2, 2 operations per ledger; monitors: default calibration, 4 observations, 1 reset, snapshots and resumes; callbacks: 2 keys, depth 2, 3 invocations, trace of 4 | 348,890 | returns fit, trees are bounded, books explain allowances; wealth is exact, nothing dropped, one exact alarm per generation; effects happen once, calls are accounted for, nothing runs after an unknown effect |
| `portfolio_race` D | up to 3 strategies (and one more than allowed), 3 modes, 4 steps, pools 0, 1, 5, fresh regions of 0 or 3 steps | 58,195 | reconciliation, first verified wins, steps reported, every call returns |
| `session` | 2 branches, 2 symbols, budgets of 2 verified claims and 5 steps, formulas with one symbol twice, pages of 1 or 2 | 191,802 | accepted claims can be checked again and were paid for, replay accepts exactly what was proved, merges are what their certificates say, and the session implements the protocol |
| `publication` | 2 publishers, 2 leases, 2 bundles, history of 2 | 395,952 | published roots replay, a fenced publisher publishes nothing |
| `remote` | 3 steps with at most 2 axioms, every rule on every pair, one accepted reduction that is false, 3 assignments, 2 task names | 47,414 | a step is true if no wrong reduction is in its slice, and true if nothing in its slice is a zero power of a partial base; exports verify, damaged ones establish nothing false without naming a wrong reduction; an accepted answer is the assigned claim with a derivation of it |
| `algorithms` | see below | 38,328 | every algorithm against its definition |

Why the bounds are enough. Overshooting the reserve needs as many processes as
names beyond the limit: three processes on a limit of one show an overshoot of
two. That a record is prepared by one process is what `CommittedComplete` and the refinement
need; `ReserveBound` and `AckedPublished` are proved without it. In `lanes` the CLI lane has a record more than the reserve can ever hold. In
the frontier run two workers suffice for two overlapping resumes and for a resume
beside a second generate, two kills for a kill of the repairer of a kill. Of the
ledgers the largest counter is 2, so that a wrong return overflows at once; two
descendants can be siblings or child and grandchild. Three strategies are the
fewest for which an order of completion differs from registration at a winner in
the middle; the pools are none, one that is used up by the first unit of the claim
and one that pays for the claim and one candidate but not for two. For the monitors
`Huge` is small enough for a third divergence to leave the finite range, and
two reach the threshold.

In `session` the verification budget admits the derivations of two steps and always
refuses those of three. Five steps pay for two derivations and one construction and not
for a second construction: exhaustion and refusal happen at every point of a history.
The five steps also admit two accepted claims of one statement, a candidate and the
client's own record of its statement, whose pages differ in nothing but the claim.
A formula that mentions one symbol twice makes a rebinding between construction and
verification visible. Two branches suffice for an edit on
one, a checkout, and a merge of the other. In `publication` two publishers hold leases of
different age; each bundle may have any one part exchanged for another value of its
kind, or lose a witness and be sealed again. A bundle made up as a whole, consistent in all
its parts, is not distinguished from a merge and is not in the model. For the callbacks the counter's largest value is 2, so that its checks
for overflow decide; a nested call may use the key of the call around it. Three
kernel steps are the fewest for a rule applied to the result of a rule, and leave room for a
step whose slice has not the false reduction beside one whose slice has it.

`algorithms` asks: every formula of depth two over two variables and conjunctions
of up to eight three-variable clauses, with a search budget that some of them
exceed; pairs of sets with symbolic, infinite, open and closed ends, for every
value of the symbol; all graphs on four vertices over a set of arcs that includes a cycle,
a loop and a dangling end, against certificates of earlier graphs; digit
sequences with digits at the ends of their range; numbers around the squares and
the digit boundaries, moduli of each sign; fractions around the subnormal and
overflow boundaries of a float with two fraction bits; 5 by 50 polynomials up to
degree three; 62 polynomials up to degree four to factor, among them ones that
split modulo every prime (`x^4+1`, `x^4-10x^2+1`), repeated roots, leading
coefficients other than one and roots beyond the trial division.

The reference semantics of terms is strict: an expression with an undefined part is
undefined, a zero power of an undefined base included, and two expressions are equal when
they have the same value or both have none. A defined base to the power zero is 1, zero
included, as the polynomial normal form has it; the kernel's collection of domain
obligations calls `0^0` partial. No property depends on the choice: no accepted
reduction of `remote` turns on `0^0`, and the violation of section 5 is about a base without value.
Domains are sets of values, each inside those it coerces to.

Symmetry is used where no liveness is checked and no constant tells the
permuted values apart: the CLI lane's records in `lanes`, descendants of ledgers in `supervision`,
values and publishers in `publication`.

### Fairness

Only two runs check liveness. `PortfolioRace`: the owner's thread runs (weakly
fair), and every generator returns eventually, because it works on a finite child
budget and every charge on an empty budget ends it; whoever holds a continuation
owes nothing, and cancellation is never forced. `FrontierWorker`: a running
worker is scheduled (weak); the parent kills a worker sleeping at its boundary,
as the crash tests do (weak); and the parent keeps starting resumes at the
`prepared` boundary among whatever else it starts (strong, since a worker slot
may be taken again and again). Kills are bounded, so a resume is not killed for ever.

## 4. Proofs

All proofs are for every value of the constants under the named assumptions, which
TLC evaluates on the instances of the runs. In each module an invariant `IInv` (or
the one named below) is shown to hold initially and to be preserved by every action,
and the theorems follow from it.

**`StoreProofs`, the file lane** (`FileStoreAssumption`). `CommittedCompleteHolds`,
`StagedCompleteHolds` and `FileLaneImplements` also assume `SingleWriter`: at most one
preparing process per record. `ReserveBoundHolds` needs no ownership: the invariant
counts the names of a namespace together with the processes between count and create.
`AckedPublishedHolds` needs none either: it rests on the lemma that a committed name
stays, and on a committing process having seen or made it. The completeness theorems
rest on the invariant that a process that is writing has its own file open under the
temporary name, holding exactly the chunks it has written: whatever is renamed is then
whole. Without ownership this fails, which is what the run `file_committed_torn` shows.
`FileLaneImplements` is the refinement of `DurableStore`: once names stand for whole
records, the mapped sets are the two directories, and each system call is a step of the
contract or invisible.

**`StoreProofs`, the CLI lane.** `CliLaneImplements` has no assumption on who releases what.
The history `overtaken` holds the processes whose commit verified a row that was released
since. The invariant `RowThere` says that the record of a commit under way is staged or
committed unless the process is in that set, so that the transaction which moves
no row and answers Ok acknowledges a published record, or is the one departure from the contract
(`LostAck`). That the departure happens is shown by the run `cli_commit_lost`.
`CliReserveBoundHolds` rests on `CliAssumption`. COUNT and INSERT are subprocesses of their own, so
the bound itself is not inductive: the invariant counts, per namespace, the rows held together
with the processes admitted and not yet done. An admission finds at most limit minus one
rows and at most all other processes between the two texts; an INSERT turns an admitted
process into a row.

**`StoreProofs`, the frontier workers** (`FrontierAssumption`). `ReportFromCommittedHolds`
and `MarkersTruthfulHolds` assume no ownership of the constants: that there is one
preparing process follows from the parent never running two generates at a time
(`OneGenerator`). Every worker step is a step of the file lane or leaves it alone
(`WorkerStepsCall`), so the file lane's lemmas are cited, not repeated. `StagesTruthful`
and `FilesTruthful` say what each stage and each file on disk implies about the store;
a marker's promise must be known before the marker is written, hence the part about
stages.

**`BudgetProofs`** (`BudgetAssumption`). `ReturnsFit` says that whatever is still
out fits back; it is not inductive, since it speaks of each claim alone while
returns come one after the other. `Audited` strengthens it: per ledger, the history `total`
records what left it up to each slot of its sequence. It grows along the slots,
`remaining` plus the last total is the grant, and every outstanding receipt or
child owns a slot at which at least its amount left. Hence claims are
disjoint and any of them fits. `FamilyOK` (unused authorities are
blank, roots have no parent, no child is granted pool) and `VerifierIsolated` complete the invariant. From it:
type correctness, which is the absence of overflow in the unchecked additions,
`ReturnsFit`, `Audited`, `VerifierIsolated`. `TreeBoundHolds` adds `TreeInv`: parents are
allocated ledgers, and the trees and the receipts in hand are finite (no finiteness is
assumed of the sets of ledgers and roots). Each operation then moves an amount between a ledger, a child and a
receipt of one tree, or loses it, and `SumLemmas` says what this does to the sums. A
ledger's tree is defined through sets closed under parents, which needs no recursion.

**`PortfolioRaceProofs`** (`RaceAssumption`). `Reconciled` and `StepsReported` follow from
`Balanced`, one equation over the parent, all open child budgets (a sum), the work done
and other charges, together with `Draining`: outside the drain no child is open.
`FirstVerifiedWins` needs three more facts: a generator that is gone has left exactly one
outcome (`Delivered`), so that a full vector has one outcome of each strategy; no candidate that
would verify is ever dropped from what is still to be considered (`Pending`); and the
sort by registration index and the filter that makes a continuation keep the order
(`Sorted`, `CapturedCandidates`).

**`RuntimeProofs`, the monitors** (`MonitorAssumption`). The invariant is one predicate on a
state with its history, required of the current state and of the saved snapshot
alike, because resume copies the one over the other. `AlarmOnce` additionally
needs that the number of alarms is at most that of completed generations, so that
a reset may clear the latch.

**`RuntimeProofs`, the kernel and its remote workers** (`RemoteAssumption`). What
`ProofKernel` takes as constants is the subject of the hypothesis `Semantics`, which speaks of
the meaning of terms and not of what the kernel accepts: a set of expressions is closed under
what the rules build (`Closed`) and contains what the axioms speak of (`Speaks`); the value of an
expression depends on its parts only through their values, substitution included
(`Compositional`); a coercion between domains is an inclusion and integers are in `ZZ`
(`DomainsNested`). For `KernelTerms` the first three hold by the form of `ValueOf` and
`capture_avoiding_subs`, which are defined by recursion on the term, and TLC evaluates
compositionality over the run's terms (`TermsCompositional`). Nothing is supposed about the
reductions and normal forms that the kernel accepts: those whose claim is false are the set
`Wrong`, which is not empty (the run `kernel_pow_zero`), and the theorems say that there is no
other source of error, in the kernel, in a damaged derivation that verifies or in an accepted answer.
That of the reductions tried only the zero power of a partial base is wrong is what TLC adds with
`PartialityKept`. The lemmas, for derivations of any length:

- `ContextSound`: what the context rules and reflexivity establish is true. `RuleSound`: a rule
  applied to true premises gives a true claim, rule by rule. From it
  `DerivationSound` by induction on the position within a set of steps closed under premises,
  since premises are strictly earlier, and
  `VerifiedSound`: what the verifier accepts is true, wherever the derivation came from, if it
  names no wrong reduction (`RightClaim`).
- `ExportVerifies`: the slice is closed under premises (`Slice`), counting gives its members
  the numbers 1 to K in order (`Renumbering`), and a rule looks only at its premises
  (`Locality`), so every renumbered step holds.
- `KernelInv` says that the recorded steps hold. It is kept because a rule
  establishes one claim at most and a new step changes no earlier one.

`SliceSoundHolds`, `VerifierExactHolds` and `AcceptedAnswersAssignmentHolds` follow. For the last
two, a damaged derivation is still a list of rules (`DamagedShape`), so that `VerifiedSound`
speaks about it too. That undamaged exports verify needs no `Semantics`.

**`SessionProofs`** (`NativeAssumption`). `Synced` says that the private copy is the
branch table's entry of that name, after every operation. From it: `ImplementsProtocolHolds`, action by
action. `AcceptedClaimsHoldAlways` needs that derivations are only appended, and
`MeteredHolds` that what `verify_claim` appends uncounted brings a derivation
with it. `CertificateExplainsMergeHolds` holds for any two branches of well-formed
workspaces. `ReplayExactHolds` is an equivalence. One direction computes what
`PagesConsistent` says of an export: a derivation has two or three steps, as the session builds
them, hence at most three pages for any page size (`ExportPages`), and the fold that joins
them gives the derivation back (`Reassembled`, `ExportReplays`). The other reconstructs the export
from the checks: all pages belong to one claim and one number of pages, which tells the page
size unless there is only one page, and each stands in its place (`AcceptedIsExport`).
`MaxPages` bounds the sequences TLC presents; in the theorem it is any number. The first attempt at the refinement failed for a good reason: a claim is
proved under the bindings frozen at its construction, while a `Prove` request of the
protocol uses the present ones. With a formula that mentions one symbol twice the
two differ and the session makes a step no request makes. `ImplementsProtocol` now admits
exactly that step (`ProveUnder`), and the run has such a formula.

**`PublicationProofs`** (`SessionAssumption`, `PublicationAssumption`).
`PublishedRootsReplayHolds` rests on `BundlesRecordMerges` (a captured bundle is the record of a
merge the session made) and on a lemma about replay: whichever single part of a bundle is exchanged,
or if a witness is dropped and the seal recomputed, a bundle that replays carries the certificate of a captured
one (`ReplayedCertificate`; `WitnessesOf` and `ForgeryShows` say why an altered witness
shows). `LeaseFencingHolds` needs that epochs of the history are not beyond the
present one.

**`CallbackSessionProofs`** (`CallbackAssumption`). `Accounts` ties depth, effects in flight,
trace room and counter to the stack of calls. `ExactlyOnceEffectsHolds` does not follow
from it: admission looks at the effects in flight and at the cached ones, and a failed
effect is in neither. `EndsKnown` closes the gap: a failure taints the session, and a tainted
session admits nothing. `NothingAfterUnknownEffectHolds` is an action property.

**`SumLemmas`.** The library's induction theorems take the hypothesis as an operator, which
the installed provers cannot instantiate. `SetInduction` states induction with a set of naturals as hypothesis and is
proved from the well-foundedness of the order; with it, a fold over a finite set
is shown to exist and to satisfy its recursion (`FoldExists`, `SumStep`), and from
this what a sum does when one summand changes, is added or is dropped.

Only model-checked:

- liveness (`RaceEnds`, `StandingMarkerLeadsToReport`), which the prover does not handle;
- which reductions of the kernel are sound on the terms of the run (`PartialityKept`), and everything
  `Algorithms` checks: `KernelTerms` and the pure algorithms define terms, normal forms and
  searches with recursive operators, with which the prover loses its arithmetic, and what
  they compute for every input needs induction over data.

## 5. Disagreements between code and documentation

| Run | What it shows |
|---|---|
| `file_committed_torn` | The temporary name depends only on the record. Of two processes that prepare the same record, the second truncates the file the first is about to rename; if it dies there, a commit that has verified the first copy renames the unfinished one. It takes two processes, one death and a limit above one. The comment promises full bytes only. |
| `cli_commit_lost` | The CLI lane's publishing transaction does not look at how many rows it moved. If another process releases the staged row after the verification, the transaction moves none and `commit` answers Ok with nothing published. The trait says that commit publishes atomically or refuses. `lanes` and `CliLaneImplements` show that the lane departs from the contract in this step only. |
| `kernel_pow_zero` | `pow_zero_identity` (`crates/fsym-proof-kernel/src/kernel.rs:2097`) refuses the literal base 0 and no other: the kernel records `(x^-1)^0 = 1`, whose left side has no value at `x = 0`. The comment on the annihilator rule in the same function asks that partial values keep their definedness conditions, and the collection of obligations counts such a power as partial. `PartialityKept` in `remote` shows that it is the only such reduction of those tried, and `SliceSound` how far the false claim reaches. |
| `irreducible_witness` | `verify_irreducible_mod_prime` (`crates/fsym-polys/src/factorization.rs:1508`) says that the leading coefficient must not vanish modulo the witness. The comparison of lengths that should refuse it never fails, because `z_to_fp` keeps leading zeros: a release build accepts the witness 2 for `2x^2-x-1 = (2x+1)(x-1)` and for `2x^2+3x+1`, and a forged certificate with it passes the strict verifier. A debug build stops at an assertion. The generator skips such primes, and `FactorsExact` is about certificates whose primes keep the degree. |

Met while modelling and not the subject of a run of their own:

- A process that dies between create and rename leaves its temporary name. It counts
  against the reserve, and `release` only removes staged names: a namespace may stay
  closed although releasing is documented to reopen it.
- The exact-fault calibration of the monitors is documented to alarm on a single
  disagreement. Agreements lower the wealth without a floor, and after three of
  them one disagreement does not reach the threshold.
- The publication gate compares the lease epoch and not the base of a merge with the
  published root: two merges of one base under one lease are both published.
- A second `prepare` of a staged record replaces it in the file lane and is a backend
  error in the CLI lane (`PrepareConflict`), which the contract allows.

## 6. Not modelled

- The frontier worker's repair sidecar and ephemeral baseline: the first is written
  and never read by the worker, the second has no state. The worker is modelled
  on the file lane only, and its race is one step.
- In the kernel: the RealBall certificates and irreducibility modulo a prime as claims, rational
  literals, binders inside templates, and the coercions of polynomial and fraction domains.
- Decision cards, wire formats, byte limits and error texts; the digests themselves.
- The hash-chained ledger, replay log and checkpoints: bounded appends, still planned.
- The evaluation budget's lock and flag; its ledger is `Budget`.
- The metered lanes of the arithmetic, as control of their own: they repeat the plain
  algorithms with charges before each batch, and a refused charge returns early.
- RaptorQ repair, derived random streams, benchmarks: arithmetic over bytes or measurement.
- The expression core, multivariate polynomials and Groebner bases, calculus, matrices,
  solvers, geometry, tensors, printing, bindings and tooling: deterministic functions
  over unbounded expressions, or input and output. They are most of the repository's
  lines, so the models cover a small share of it; what they cover is the state that
  actors share and the algorithms whose answers carry certificates.

## 7. Plan

Theorem to add: `Limbs`, that the carry kernels compute the sum, with recursive functions
in place of recursive operators and `SetInduction` over the length.

Models to add: the ledger with replay log and checkpoints (appends at their limits), the
evaluation budget, assumptions, matrices over fractions. `Algorithms` takes further
pure components as topics; state machines that do not interact share a run as the
two lanes do, so that the number of runs stays small.

---------------------------- MODULE PortfolioRace ----------------------------
(***************************************************************************)
(* The verified portfolio races of crates/fsym-runtime/src/portfolio.rs.   *)
(* The owner pays for the requested claim, carves a child budget per       *)
(* strategy, and                                                           *)
(*   concurrent: runs all generators in a scoped CPU region, drains them,  *)
(*     sorts their outcomes by registration index, merges the children and *)
(*     verifies candidates in that order until one is published;           *)
(*   continuation: the same, but stops after the drain with a typed        *)
(*     continuation that is resumed later, in the same region or in a      *)
(*     fresh one;                                                          *)
(*   sequential: runs and verifies one strategy after the other, each with *)
(*     everything that is left.                                            *)
(* Cancellation may be requested at any moment and is seen at checkpoints. *)
(*                                                                         *)
(* A candidate is what its verification will find: "good" (its derivation  *)
(* establishes the requested claim and binds its result), "bad" (it does   *)
(* not) or "oversized" (the verifier preflight rejects it); "err" is a     *)
(* generator that failed or panicked.  One budget dimension is kept.       *)
(***************************************************************************)
EXTENDS Integers, Sequences, SequencesExt

CONSTANTS
  N,           \* MAX_PORTFOLIO_STRATEGIES; strategies are registered as 1, 2, ...
  Modes,       \* subset of {"concurrent", "continuation", "sequential"}
  Compute,     \* the region's compute allowance
  Pools,       \* verifier pools a region may have
  Fresh,       \* compute allowances a fresh region may have
  ClaimUnits,  \* verifier units of the requested claim
  Units        \* verifier units of a candidate

ASSUME RaceAssumption ==
  /\ N \in Nat \ {0} /\ Compute \in Nat /\ Pools \subseteq Nat /\ Fresh \subseteq Nat
  /\ ClaimUnits \in Nat \ {0} /\ Units \in Nat \ {0}
  /\ Modes \subseteq {"concurrent", "continuation", "sequential"}

Strategies == 1..N
Candidates == {"good", "bad", "oversized"}
Outcome    == [idx : Strategies, what : Candidates \cup {"err"}]

VARIABLES
  mode,
  count,      \* strategies given
  phase,      \* what the owner does next
  cancelled,  \* cancellation of the region has been requested
  next,       \* the next strategy to spawn or to run
  worker,     \* generators: "none", "running", "gone" or "skipped"
  child,      \* child budgets
  remaining,  \* the region's ComputeSteps
  verifier,   \* its verifier pool
  outcomes,   \* shared_outcomes, later the candidates still to be considered
  base,       \* initial_compute_remaining
  captured,   \* counters of the continuation
  verdict,    \* result of the race
  winner, reported,
  work,       \* history: what generators charged
  other,      \* history: what the owner charged for other work
  prior,      \* history: the part of work charged before a fresh region took over
  allowance,  \* history: what the region was given
  all         \* history: all outcomes pushed

budget  == <<child, remaining, verifier, base, captured>>
result  == <<verdict, winner, reported>>
history == <<work, other, prior, allowance, all>>
vars == <<mode, count, phase, cancelled, next, worker, outcomes, budget, result, history>>

Verdicts == {"none", "ok", "Cancelled", "NoVerifierLease", "InvalidPortfolio", "BudgetExhausted",
             "StructuredExecutionFailed", "WinnerVerificationFailed", "AllStrategiesFailed"}
Phases == {"start", "spawn", "captured", "turn", "run", "enter", "accept", "charged",
           "verified", "done"}

Init ==
  /\ mode \in Modes /\ count \in 0..(N + 1)
  /\ phase = "start" /\ cancelled = FALSE /\ next = 1
  /\ worker = [i \in Strategies |-> "none"]
  /\ child  = [i \in Strategies |-> 0]
  /\ remaining = Compute /\ verifier \in Pools
  /\ outcomes = <<>> /\ base = Compute
  /\ captured = [remaining |-> 0, verifier |-> 0]
  /\ verdict = "none" /\ winner = 0 /\ reported = 0
  /\ work = 0 /\ other = 0 /\ prior = 0 /\ allowance = Compute /\ all = {}

\* The call returns v.
Return(v) ==
  /\ phase' = "done" /\ verdict' = v
  /\ UNCHANGED <<winner, reported>>

Cancel ==
  /\ ~cancelled /\ phase # "done"
  /\ cancelled' = TRUE
  /\ UNCHANGED <<mode, count, phase, next, worker, outcomes, budget, result, history>>

\* cx.checkpoint() holds.
Checkpoint == ~cancelled

-----------------------------------------------------------------------------
(* Before any generator: strategy count, authority, the requested claim. *)

CountOK == count \in (IF mode = "sequential" THEN 1 ELSE 2)..N

\* Each charge takes one unit before the rest, which may be refused.
OneUnit == IF verifier > 0 THEN verifier - 1 ELSE 0

Refuse ==
  /\ phase = "start"
  /\ \/ /\ ~Checkpoint /\ ~(mode = "continuation" /\ count = 0)
        /\ Return("Cancelled") /\ UNCHANGED verifier
     \/ /\ Checkpoint \/ mode = "continuation"    \* the count, a name, or a claim that is no identity
        /\ Return("InvalidPortfolio") /\ UNCHANGED verifier
     \/ /\ Checkpoint /\ CountOK /\ verifier = 0
        /\ Return("NoVerifierLease") /\ UNCHANGED verifier
     \/ /\ Checkpoint /\ CountOK /\ verifier > 0
        /\ verifier' = OneUnit                    \* the claim fails its preflight
        /\ Return("WinnerVerificationFailed")
     \/ /\ Checkpoint /\ CountOK /\ verifier < ClaimUnits
        /\ verifier' = OneUnit
        /\ Return("BudgetExhausted")
  /\ UNCHANGED <<mode, count, cancelled, next, worker, outcomes, child, remaining, base, captured, history>>

Begin ==
  /\ phase = "start" /\ Checkpoint /\ CountOK /\ verifier >= ClaimUnits
  /\ verifier' = verifier - ClaimUnits
  /\ phase' = IF mode = "sequential" THEN "turn" ELSE "spawn"
  /\ LET share == IF mode = "sequential" THEN 0 ELSE remaining \div count
     IN  /\ child'     = [i \in Strategies |-> IF i <= count THEN share ELSE 0]
         /\ remaining' = remaining - count * share
  /\ UNCHANGED <<mode, count, cancelled, next, worker, outcomes, base, captured, result, history>>

-----------------------------------------------------------------------------
(* Generators. *)

Push(i, what) ==
  /\ outcomes' = Append(outcomes, [idx |-> i, what |-> what])
  /\ all' = all \cup {[idx |-> i, what |-> what]}

Spawn ==
  /\ phase = "spawn" /\ next <= count
  /\ next' = next + 1
  /\ \/ worker' = [worker EXCEPT ![next] = "running"] /\ UNCHANGED <<outcomes, all>>
     \/ worker' = [worker EXCEPT ![next] = "gone"] /\ Push(next, "err")   \* spawn refused
  /\ UNCHANGED <<mode, count, phase, cancelled, budget, result, work, other, prior, allowance>>

Work(i) ==
  /\ worker[i] = "running" /\ child[i] > 0
  /\ child' = [child EXCEPT ![i] = @ - 1]
  /\ work'  = work + 1
  /\ UNCHANGED <<mode, count, phase, cancelled, next, worker, outcomes, remaining, verifier, base, captured,
                 result, other, prior, allowance, all>>

\* A worker returns a candidate or an error, or panics (caught as an error).
Finish(i, what) ==
  /\ worker[i] = "running" /\ what \in Candidates \cup {"err"}
  /\ worker' = [worker EXCEPT ![i] = "gone"]
  /\ Push(i, what)
  /\ UNCHANGED <<mode, count, phase, cancelled, next, budget, result, work, other, prior, allowance>>

\* The scoped region drops a task that cancellation reached before it ran.
Skip(i) ==
  /\ worker[i] = "running" /\ mode # "sequential" /\ ~Checkpoint
  /\ worker' = [worker EXCEPT ![i] = "skipped"]
  /\ UNCHANGED <<mode, count, phase, cancelled, next, outcomes, budget, result, history>>

-----------------------------------------------------------------------------
(* Drain and merge. *)

Drained == next > count /\ \A i \in 1..count : worker[i] \in {"gone", "skipped"}

\* Mutation: candidates are considered in the order they arrived.
MutSortByIndex(s) == s

\* outcomes.sort_by_key(|o| o.idx)
SortByIndex(s) ==
  LET place == CHOOSE p \in Bijection(DOMAIN s, DOMAIN s) :
                 \A i, j \in DOMAIN s : i < j => s[p[i]].idx <= s[p[j]].idx
  IN  [i \in DOMAIN s |-> s[place[i]]]

\* Mutation: only generators that delivered an outcome are reconciled.
MutMergeAll ==
  /\ remaining' = remaining + SumFunctionOnSet(child, {o.idx : o \in Range(outcomes)})
  /\ child' = [i \in Strategies |-> 0]

\* Every child's allowance returns to the region.
MergeAll ==
  /\ remaining' = remaining + SumFunctionOnSet(child, Strategies)
  /\ child' = [i \in Strategies |-> 0]

\* The scoped region reports cancellation (whenever a worker was skipped) or
\* another failure, after the children were merged.
DrainFailed ==
  /\ phase = "spawn" /\ Drained
  /\ MergeAll
  /\ \/ ~Checkpoint /\ Return("Cancelled")
     \/ Return("StructuredExecutionFailed")
  /\ outcomes' = <<>>
  /\ UNCHANGED <<mode, count, cancelled, next, worker, verifier, base, captured, history>>

Drain ==
  /\ phase = "spawn" /\ Drained /\ Len(outcomes) = count
  /\ MergeAll
  /\ outcomes' = SortByIndex(outcomes)
  /\ IF mode = "continuation"
     THEN /\ phase' = "captured"
          /\ captured' = [remaining |-> remaining', verifier |-> verifier]
     ELSE phase' = "enter" /\ UNCHANGED captured
  /\ UNCHANGED <<mode, count, cancelled, next, worker, verifier, base, result, history>>

-----------------------------------------------------------------------------
(* The continuation. *)

\* factor_race_generate has returned; the owner uses its region for other work.
OwnerWork ==
  /\ phase = "captured" /\ remaining > 0
  /\ remaining' = remaining - 1 /\ other' = other + 1
  /\ UNCHANGED <<mode, count, phase, cancelled, next, worker, outcomes, child, verifier, base, captured,
                 result, work, prior, allowance, all>>

Unchanged == captured = [remaining |-> remaining, verifier |-> verifier]

\* Only drained candidates were captured, failures were not.
Captured ==
  LET kept  == {i \in DOMAIN outcomes : outcomes[i].what # "err"}
      size  == Cardinality(kept)
      place == CHOOSE p \in Bijection(1..size, kept) : \A i, j \in 1..size : i < j => p[i] < p[j]
  IN  [i \in 1..size |-> outcomes[place[i]]]

\* resume with a ledger that is not the captured one, or whose counters moved.
ResumeRefused ==
  /\ phase = "captured"
  /\ Return("InvalidPortfolio")
  /\ UNCHANGED <<mode, count, cancelled, next, worker, outcomes, budget, history>>

\* Mutation: the steps are counted from the resume on.
MutResume ==
  /\ phase = "captured" /\ Unchanged
  /\ IF Checkpoint
     THEN phase' = "enter" /\ outcomes' = Captured /\ base' = remaining /\ UNCHANGED result
     ELSE Return("Cancelled") /\ UNCHANGED <<outcomes, base>>
  /\ UNCHANGED <<mode, count, cancelled, next, worker, child, remaining, verifier, captured, history>>

Resume ==
  /\ phase = "captured" /\ Unchanged
  /\ IF Checkpoint
     THEN phase' = "enter" /\ outcomes' = Captured /\ UNCHANGED result
     ELSE Return("Cancelled") /\ UNCHANGED outcomes
  /\ UNCHANGED <<mode, count, cancelled, next, worker, budget, history>>

\* resume_factor_race_from_checkpoint in a fresh region, which has an allowance
\* and a cancellation source of its own.
ResumeFresh ==
  /\ phase = "captured"
  /\ remaining' \in Fresh /\ verifier' \in Pools
  /\ base' = remaining' /\ allowance' = remaining' /\ prior' = work /\ other' = 0
  /\ cancelled' = FALSE
  /\ IF Captured = <<>>
     THEN Return("InvalidPortfolio") /\ UNCHANGED outcomes
     ELSE phase' = "enter" /\ outcomes' = Captured /\ UNCHANGED result
  /\ UNCHANGED <<mode, count, next, worker, child, captured, work, all>>

-----------------------------------------------------------------------------
(* Sequential turns. *)

Turn ==
  /\ phase = "turn" /\ next <= count
  /\ IF Checkpoint
     THEN /\ child' = [child EXCEPT ![next] = remaining] /\ remaining' = 0
          /\ worker' = [worker EXCEPT ![next] = "running"]
          /\ next' = next + 1 /\ phase' = "run" /\ UNCHANGED result
     ELSE Return("Cancelled") /\ UNCHANGED <<child, remaining, worker, next>>
  /\ UNCHANGED <<mode, count, cancelled, outcomes, verifier, base, captured, history>>

MergeTurn ==
  /\ phase = "run" /\ worker[next - 1] = "gone"
  /\ MergeAll
  /\ IF Checkpoint THEN phase' = "accept" /\ UNCHANGED result ELSE Return("Cancelled")
  /\ UNCHANGED <<mode, count, cancelled, next, worker, outcomes, verifier, base, captured, history>>

-----------------------------------------------------------------------------
(* Acceptance: verify_and_publish_candidate on each candidate in turn. *)

Enter ==
  /\ phase = "enter"
  /\ IF Checkpoint THEN phase' = "accept" /\ UNCHANGED result ELSE Return("Cancelled")
  /\ UNCHANGED <<mode, count, cancelled, next, worker, outcomes, budget, history>>

\* Mutation: the rejected candidate is tried again.
MutPass == phase' = "accept" /\ UNCHANGED outcomes

\* The candidate at the head is given up.
Pass ==
  /\ outcomes' = Tail(outcomes)
  /\ phase' = "accept"

\* No candidate is left: a sequential race has its next turn, the race fails.
Exhausted ==
  /\ phase = "accept" /\ outcomes = <<>>
  /\ IF mode = "sequential" /\ next <= count
     THEN phase' = "turn" /\ UNCHANGED result
     ELSE Return(IF \E o \in all : o.what # "err"
                 THEN "WinnerVerificationFailed" ELSE "AllStrategiesFailed")
  /\ UNCHANGED <<mode, count, cancelled, next, worker, outcomes, budget, history>>

\* Preflight, then one unit and the rest of the units.
Consider ==
  /\ phase = "accept" /\ outcomes # <<>>
  /\ \/ /\ Head(outcomes).what \in {"err", "oversized"}
        /\ Pass /\ UNCHANGED <<verifier, result>>
     \/ /\ Head(outcomes).what \in {"good", "bad"} /\ verifier >= Units
        /\ verifier' = verifier - Units /\ phase' = "charged"
        /\ UNCHANGED <<outcomes, result>>
     \/ /\ Head(outcomes).what \in {"good", "bad"} /\ verifier < Units
        /\ verifier' = OneUnit
        /\ Return("BudgetExhausted") /\ UNCHANGED outcomes
  /\ UNCHANGED <<mode, count, cancelled, next, worker, child, remaining, base, captured, history>>

\* The independent check of the derivation, the claim and the result.
Verify ==
  /\ phase = "charged"
  /\ IF ~Checkpoint THEN Return("Cancelled") /\ UNCHANGED outcomes
     ELSE /\ IF Head(outcomes).what = "good" THEN phase' = "verified" /\ UNCHANGED outcomes ELSE Pass
          /\ UNCHANGED result
  /\ UNCHANGED <<mode, count, cancelled, next, worker, budget, history>>

\* The publication boundary.
Publish ==
  /\ phase = "verified"
  /\ IF ~Checkpoint THEN Return("Cancelled")
     ELSE /\ phase' = "done" /\ verdict' = "ok"
          /\ winner' = Head(outcomes).idx
          /\ reported' = base - remaining
  /\ UNCHANGED <<mode, count, cancelled, next, worker, outcomes, budget, history>>

-----------------------------------------------------------------------------
Owner ==
  \/ Refuse \/ Begin \/ Spawn \/ Drain \/ DrainFailed
  \/ Turn \/ MergeTurn \/ Enter \/ Exhausted \/ Consider \/ Verify \/ Publish

Generator(i) == Work(i) \/ Skip(i) \/ \E what \in Candidates \cup {"err"} : Finish(i, what)

\* The holder of a continuation; it need not resume it.
Holder == OwnerWork \/ Resume \/ ResumeFresh \/ ResumeRefused

Next == Owner \/ Holder \/ Cancel \/ \E i \in Strategies : Generator(i)

\* The owner thread runs, and every generator returns eventually: it works on a
\* finite child budget.
Fairness == WF_vars(Owner) /\ \A i \in Strategies : WF_vars(Generator(i))

Spec == Init /\ [][Next]_vars /\ Fairness

-----------------------------------------------------------------------------
(* Properties. *)

\* "Every reservation can be reconciled after the scoped region has drained":
\* whether workers finished, were refused, skipped or panicked, once the
\* generators are through none runs any more and the region has back exactly
\* what they did not spend.
Reconciled ==
  phase \notin {"start", "spawn", "run"} =>
    /\ \A i \in Strategies : worker[i] # "running"
    /\ remaining + (work - prior) + other = allowance

\* "Deterministic registration order": the published candidate is the first
\* registered one whose verification succeeds, however the generators were
\* interleaved, also through a continuation, and a cancellation requested before
\* the publication boundary refuses publication.
FirstVerifiedWins ==
  verdict = "ok" =>
    /\ ~cancelled
    /\ [idx |-> winner, what |-> "good"] \in all
    /\ \A i \in 1..(winner - 1) : \E o \in all : o.idx = i /\ o.what # "good"

\* The steps reported with a result, with those of the region that generated
\* it, are all the steps any generator was charged.
StepsReported == verdict = "ok" => prior + reported = work

\* Every call returns, with a result or a continuation: the drain waits for no
\* worker that is gone, whatever was refused, skipped or cancelled.
RaceEnds == []<>(phase \in {"captured", "done"})
=============================================================================

------------------------------- MODULE Monitor -------------------------------
(***************************************************************************)
(* The registered operational monitors of                                  *)
(* crates/fsym-runtime/src/monitor.rs: one e-process (EProcessCore) that   *)
(* five wrappers instantiate with their rates.  Logarithms are fixed-point *)
(* integers; a wealth beyond Huge is one the float arithmetic can no       *)
(* longer represent.  Snapshots are taken and resumed, by a later process  *)
(* that may have lost observations made after the snapshot.                *)
(***************************************************************************)
EXTENDS Integers

CONSTANTS
  LogDiscrepancy,   \* ln(p1 / p0)
  LogAgreement,     \* ln((1 - p1) / (1 - p0))
  Threshold,        \* ln(1 / alpha)
  Huge,             \* wealth of larger magnitude is not finite
  MaxObservations,  \* bound on observations
  MaxResets         \* bound on resets

\* 0 < p0 < p1 < 1 and 0 < alpha < 1.
ASSUME MonitorAssumption ==
  /\ LogDiscrepancy \in Int /\ LogDiscrepancy > 0
  /\ LogAgreement \in Int /\ LogAgreement < 0
  /\ Threshold \in Nat \ {0} /\ Huge \in Nat
  /\ MaxObservations \in Nat /\ MaxResets \in Nat

FailureKind == {"Timeout", "Cancelled", "ResourceExhausted"}
Observation == {"agreement", "discrepancy"} \cup FailureKind

VARIABLES
  state,     \* MonitorSnapshot
  decision,  \* what the last observe returned
  heard,     \* history: observations reported, by kind
  peak,      \* history: greatest wealth of this generation
  saved      \* the snapshot last taken, with its history

monitorVars == <<state, decision, heard, peak, saved>>

NewState ==
  [generation |-> 0, resets |-> 0, log_wealth |-> 0,
   observations |-> 0, discrepancies |-> 0, failures |-> 0,
   bucket |-> [k \in FailureKind |-> 0],   \* timeouts, cancellations, resource_exhaustions
   total_observations |-> 0, alarms |-> 0, faults |-> 0,
   alarmed |-> FALSE, faulted |-> FALSE]

MonitorInit ==
  /\ state = NewState /\ decision = "Continue"
  /\ heard = [o \in Observation |-> 0] /\ peak = 0
  /\ saved = [state |-> state, heard |-> heard, peak |-> peak]

Diverged(o) == o # "agreement"

Contribution(o) == IF Diverged(o) THEN LogDiscrepancy ELSE LogAgreement

Finite(w) == -Huge <= w /\ w <= Huge

\* Mutation: what arrives after the alarm is dropped.
MutCount(s, o) ==
  IF s.alarmed THEN s
  ELSE [s EXCEPT !.observations = @ + 1,
                 !.total_observations = @ + 1,
                 !.discrepancies = IF Diverged(o) THEN @ + 1 ELSE @,
                 !.failures = IF o \in FailureKind THEN @ + 1 ELSE @,
                 !.bucket = [k \in FailureKind |-> IF k = o THEN @[k] + 1 ELSE @[k]]]

\* Every observation is charged first.
Count(s, o) ==
  [s EXCEPT !.observations = @ + 1,
            !.total_observations = @ + 1,
            !.discrepancies = IF Diverged(o) THEN @ + 1 ELSE @,
            !.failures = IF o \in FailureKind THEN @ + 1 ELSE @,
            !.bucket = [k \in FailureKind |-> IF k = o THEN @[k] + 1 ELSE @[k]]]

\* Mutation: the alarm follows the wealth down again.
MutAlarmed(s, candidate) == candidate >= Threshold

Alarmed(s, candidate) == s.alarmed \/ candidate >= Threshold

Observe(o) ==
  LET candidate == state.log_wealth + Contribution(o)
      counted   == Count(state, o)
      alarm     == Alarmed(state, candidate)
  IN  /\ state.total_observations < MaxObservations
      /\ IF Finite(candidate)
         THEN /\ state' = [counted EXCEPT !.log_wealth = candidate,
                                          !.alarmed = alarm,
                                          !.alarms = IF alarm /\ ~state.alarmed THEN @ + 1 ELSE @]
              /\ decision' = IF alarm THEN "Alarm" ELSE "Continue"
              /\ peak' = IF candidate > peak THEN candidate ELSE peak
         ELSE /\ state' = [counted EXCEPT !.faults = @ + 1, !.faulted = TRUE]
              /\ decision' = "Fault" /\ UNCHANGED peak
      /\ heard' = [heard EXCEPT ![o] = @ + 1]
      /\ UNCHANGED saved

\* Mutation: the wealth is carried into the next generation.
MutReset ==
  /\ state.resets < MaxResets
  /\ state' = [state EXCEPT !.generation = @ + 1, !.resets = @ + 1,
                            !.observations = 0, !.discrepancies = 0, !.failures = 0,
                            !.alarmed = FALSE, !.faulted = FALSE]
  /\ peak' = 0
  /\ UNCHANGED <<decision, heard, saved>>

Reset ==
  /\ state.resets < MaxResets
  /\ state' = [state EXCEPT !.generation = @ + 1, !.resets = @ + 1, !.log_wealth = 0,
                            !.observations = 0, !.discrepancies = 0, !.failures = 0,
                            !.alarmed = FALSE, !.faulted = FALSE]
  /\ peak' = 0
  /\ UNCHANGED <<decision, heard, saved>>

Snapshot ==
  /\ saved' = [state |-> state, heard |-> heard, peak |-> peak]
  /\ UNCHANGED <<state, decision, heard, peak>>

Resume ==
  /\ state' = saved.state
  /\ heard' = saved.heard /\ peak' = saved.peak
  /\ UNCHANGED <<decision, saved>>

MonitorNext == (\E o \in Observation : Observe(o)) \/ Reset \/ Snapshot \/ Resume

MonitorSpec == MonitorInit /\ [][MonitorNext]_monitorVars

-----------------------------------------------------------------------------
(* Properties. *)

Snapshots ==
  [generation : Nat, resets : Nat, log_wealth : Int, observations : Nat, discrepancies : Nat,
   failures : Nat, bucket : [FailureKind -> Nat], total_observations : Nat, alarms : Nat,
   faults : Nat, alarmed : BOOLEAN, faulted : BOOLEAN]

\* Counters are natural numbers and the wealth is finite.
TypeOK ==
  /\ state \in Snapshots /\ state.log_wealth \in -Huge..Huge
  /\ decision \in {"Continue", "Alarm", "Fault"}
  /\ heard \in [Observation -> Nat] /\ peak \in Nat
  /\ saved \in [state : Snapshots, heard : [Observation -> Nat], peak : Nat]
  /\ saved.state.log_wealth \in -Huge..Huge

\* The wealth is the product of the likelihood ratios of exactly the
\* observations of this generation, whatever was reset, alarmed or resumed.
WealthExact ==
  ~state.faulted =>
    state.log_wealth = LogDiscrepancy * state.discrepancies
                       + LogAgreement * (state.observations - state.discrepancies)

\* "Never dropped": every observation is charged, each failure in a bucket of
\* its own, after an alarm and across generations too.
NothingDropped ==
  /\ state.total_observations = heard["agreement"] + heard["discrepancy"] + heard["Timeout"]
                                + heard["Cancelled"] + heard["ResourceExhausted"]
  /\ \A k \in FailureKind : state.bucket[k] = heard[k]

\* The alarm of a generation is raised exactly when its wealth has reached the
\* threshold, stays until the reset, and is counted once.
AlarmOnce ==
  /\ state.alarmed <=> peak >= Threshold
  /\ state.alarms <= state.resets + IF state.alarmed THEN 1 ELSE 0
=============================================================================

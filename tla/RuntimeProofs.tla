---------------------------- MODULE RuntimeProofs ----------------------------
(***************************************************************************)
(* Proofs about two components of the runtime that have no state in common: *)
(* the operational monitors (Monitor) and the remote worker with the proof  *)
(* kernel (RemoteWorker).                                                   *)
(***************************************************************************)
EXTENDS Monitor, RemoteWorker, SumLemmas, SequenceTheorems, TLAPS

-----------------------------------------------------------------------------
(* The monitors.  Their properties speak of the running state only; since a *)
(* snapshot may replace it, the inductive invariant demands them of the     *)
(* state and of the saved snapshot, each with its own history.              *)

\* The parts of the invariant: wealth, counts, alarms.
Exact(s) ==
  ~s.faulted =>
    s.log_wealth = LogDiscrepancy * s.discrepancies
                   + LogAgreement * (s.observations - s.discrepancies)

Kept(s, h) ==
  /\ s.total_observations = h["agreement"] + h["discrepancy"] + h["Timeout"]
                            + h["Cancelled"] + h["ResourceExhausted"]
  /\ \A k \in FailureKind : s.bucket[k] = h[k]

Once(s, p) ==
  /\ s.alarmed <=> p >= Threshold
  /\ s.alarms <= s.resets + IF s.alarmed THEN 1 ELSE 0

\* What holds of a state together with its history.
Sound(s, h, p) == Exact(s) /\ Kept(s, h) /\ Once(s, p)

\* The inductive invariant.
IInv ==
  /\ TypeOK
  /\ Sound(state, heard, peak)
  /\ Sound(saved.state, saved.heard, saved.peak)

\* One more discrepancy adds its logarithm to the wealth of the counters.
LEMMA OneDiscrepancy ==
  ASSUME NEW a \in Int, NEW b \in Int, NEW d \in Int, NEW n \in Int
  PROVE  a * (d + 1) + b * ((n + 1) - (d + 1)) = (a * d + b * (n - d)) + a
<1>1. (n + 1) - (d + 1) = n - d
  OBVIOUS
<1>2. a * (d + 1) = a * d + a
  OBVIOUS
<1> QED BY <1>1, <1>2

\* One more agreement adds its logarithm to the wealth of the counters.
LEMMA OneAgreement ==
  ASSUME NEW a \in Int, NEW b \in Int, NEW d \in Int, NEW n \in Int
  PROVE  a * d + b * ((n + 1) - d) = (a * d + b * (n - d)) + b
<1>1. (n + 1) - d = (n - d) + 1
  OBVIOUS
<1>2. b * ((n - d) + 1) = b * (n - d) + b
  OBVIOUS
<1> QED BY <1>1, <1>2

\* A new monitor, not yet saved, is sound.
LEMMA InitIInv == MonitorInit => IInv
<1> SUFFICES ASSUME MonitorInit PROVE IInv
  OBVIOUS
<1> USE MonitorAssumption DEF MonitorInit, NewState
<1>1. TypeOK
  BY DEF TypeOK, Snapshots
<1>2. Exact(state) /\ Kept(state, heard) /\ Once(state, peak)
  BY DEF Exact, Kept, Once, FailureKind, Observation
<1>3. saved.state = state /\ saved.heard = heard /\ saved.peak = peak
  OBVIOUS
<1> QED BY <1>1, <1>2, <1>3 DEF IInv, Sound

\* What charging an observation does to each field.
LEMMA CountFields ==
  ASSUME NEW s \in Snapshots, NEW o \in Observation
  PROVE  /\ Count(s, o) \in Snapshots
         /\ Count(s, o).observations = s.observations + 1
         /\ Count(s, o).total_observations = s.total_observations + 1
         /\ Count(s, o).discrepancies = IF Diverged(o) THEN s.discrepancies + 1 ELSE s.discrepancies
         /\ \A k \in FailureKind : Count(s, o).bucket[k] = IF k = o THEN s.bucket[k] + 1 ELSE s.bucket[k]
         /\ Count(s, o).log_wealth = s.log_wealth
         /\ Count(s, o).alarmed = s.alarmed /\ Count(s, o).alarms = s.alarms
         /\ Count(s, o).resets = s.resets /\ Count(s, o).faulted = s.faulted
         /\ Count(s, o).faults = s.faults
<1> DEFINE d == IF Diverged(o) THEN s.discrepancies + 1 ELSE s.discrepancies
           f == IF o \in FailureKind THEN s.failures + 1 ELSE s.failures
           b == [k \in FailureKind |-> IF k = o THEN s.bucket[k] + 1 ELSE s.bucket[k]]
<1>1. /\ s.observations + 1 \in Nat /\ s.total_observations + 1 \in Nat
      /\ d \in Nat /\ f \in Nat /\ b \in [FailureKind -> Nat]
  BY DEF Snapshots
<1>2. Count(s, o) = [s EXCEPT !.observations = s.observations + 1,
                              !.total_observations = s.total_observations + 1,
                              !.discrepancies = d, !.failures = f, !.bucket = b]
  BY DEF Count
<1>3. b = [k \in FailureKind |-> IF k = o THEN s.bucket[k] + 1 ELSE s.bucket[k]]
  OBVIOUS
<1>4. d = IF Diverged(o) THEN s.discrepancies + 1 ELSE s.discrepancies
  OBVIOUS
<1> HIDE DEF d, f, b
<1>5. Count(s, o) \in Snapshots
  BY <1>1, <1>2 DEF Snapshots
<1>6. /\ Count(s, o).observations = s.observations + 1
      /\ Count(s, o).total_observations = s.total_observations + 1
      /\ Count(s, o).discrepancies = d /\ Count(s, o).bucket = b
  BY <1>2 DEF Snapshots
<1>7. /\ Count(s, o).log_wealth = s.log_wealth
      /\ Count(s, o).alarmed = s.alarmed /\ Count(s, o).alarms = s.alarms
      /\ Count(s, o).resets = s.resets /\ Count(s, o).faulted = s.faulted
      /\ Count(s, o).faults = s.faults
  BY <1>2 DEF Snapshots
<1> QED BY <1>3, <1>4, <1>5, <1>6, <1>7

\* An observation keeps the counters, the wealth and the alarm in step.
LEMMA ObserveSound ==
  ASSUME IInv, NEW o \in Observation, Observe(o)
  PROVE  IInv'
<1> DEFINE candidate == state.log_wealth + Contribution(o)
           counted   == Count(state, o)
           alarm     == Alarmed(state, candidate)
<1> USE MonitorAssumption
<1>1. /\ state \in Snapshots /\ heard \in [Observation -> Nat] /\ peak \in Nat
      /\ Sound(state, heard, peak)
  BY DEF IInv, TypeOK
<1>2. candidate \in Int /\ alarm \in BOOLEAN
  BY <1>1 DEF Snapshots, Contribution, Alarmed
<1>3. UNCHANGED saved /\ heard' = [heard EXCEPT ![o] = @ + 1]
  BY DEF Observe
<1>4. /\ counted \in Snapshots
      /\ counted.observations = state.observations + 1
      /\ counted.total_observations = state.total_observations + 1
      /\ counted.discrepancies = IF Diverged(o) THEN state.discrepancies + 1 ELSE state.discrepancies
      /\ \A k \in FailureKind : counted.bucket[k] = IF k = o THEN state.bucket[k] + 1 ELSE state.bucket[k]
      /\ counted.log_wealth = state.log_wealth
      /\ counted.alarmed = state.alarmed /\ counted.alarms = state.alarms
      /\ counted.resets = state.resets /\ counted.faulted = state.faulted
      /\ counted.faults = state.faults
  BY <1>1, CountFields
<1> HIDE DEF candidate, counted, alarm
<1>5. \/ /\ Finite(candidate)
         /\ state' = [counted EXCEPT !.log_wealth = candidate, !.alarmed = alarm,
                                     !.alarms = IF alarm /\ ~state.alarmed THEN @ + 1 ELSE @]
         /\ decision' = (IF alarm THEN "Alarm" ELSE "Continue")
         /\ peak' = (IF candidate > peak THEN candidate ELSE peak)
      \/ /\ ~Finite(candidate)
         /\ state' = [counted EXCEPT !.faults = @ + 1, !.faulted = TRUE]
         /\ decision' = "Fault" /\ UNCHANGED peak
  BY DEF Observe, candidate, counted, alarm
<1>6. /\ state' \in Snapshots
      /\ state'.observations = counted.observations
      /\ state'.discrepancies = counted.discrepancies
      /\ state'.total_observations = counted.total_observations
      /\ state'.bucket = counted.bucket /\ state'.resets = counted.resets
  <2>1. CASE Finite(candidate)
    <3> DEFINE a == IF alarm /\ ~state.alarmed THEN counted.alarms + 1 ELSE counted.alarms
    <3>1. a \in Nat
      BY <1>4 DEF Snapshots
    <3>2. state' = [counted EXCEPT !.log_wealth = candidate, !.alarmed = alarm, !.alarms = a]
      BY <1>5, <2>1
    <3> HIDE DEF a
    <3>3. state' \in Snapshots
      BY <1>2, <1>4, <3>1, <3>2 DEF Snapshots
    <3> QED BY <1>4, <3>2, <3>3 DEF Snapshots
  <2>2. CASE ~Finite(candidate)
    <3> DEFINE n == counted.faults + 1
               t == TRUE
    <3>0. n \in Nat /\ t \in BOOLEAN
      BY <1>4 DEF Snapshots
    <3>1. state' = [counted EXCEPT !.faults = n, !.faulted = t]
      BY <1>5, <2>2
    <3> HIDE DEF n, t
    <3>2. state' \in Snapshots
      BY <1>4, <3>0, <3>1 DEF Snapshots
    <3> QED BY <1>4, <3>1, <3>2 DEF Snapshots
  <2> QED BY <2>1, <2>2
<1>7. \/ /\ Finite(candidate)
         /\ state'.log_wealth = candidate /\ state'.alarmed = alarm
         /\ state'.faulted = state.faulted
         /\ state'.alarms = IF alarm /\ ~state.alarmed THEN state.alarms + 1 ELSE state.alarms
      \/ /\ state'.log_wealth = state.log_wealth /\ state'.alarmed = state.alarmed
         /\ state'.faulted /\ state'.alarms = state.alarms /\ peak' = peak
  BY <1>2, <1>4, <1>5 DEF Snapshots
<1>8. TypeOK'
  <2>1. state'.log_wealth \in -Huge..Huge
    BY <1>2, <1>7 DEF Finite, IInv, TypeOK
  <2>2. decision' \in {"Continue", "Alarm", "Fault"} /\ peak' \in Nat
    BY <1>1, <1>2, <1>5
  <2>3. heard' \in [Observation -> Nat]
    BY <1>1, <1>3
  <2> QED BY <1>3, <1>6, <2>1, <2>2, <2>3 DEF IInv, TypeOK
<1>9. Exact(state')
  <2> SUFFICES ASSUME ~state'.faulted
               PROVE  state'.log_wealth = LogDiscrepancy * state'.discrepancies
                        + LogAgreement * (state'.observations - state'.discrepancies)
    BY DEF Exact
  <2>1. state'.log_wealth = candidate /\ ~state.faulted
    BY <1>7
  <2>2. state.log_wealth = LogDiscrepancy * state.discrepancies
          + LogAgreement * (state.observations - state.discrepancies)
    BY <1>1, <2>1 DEF Sound, Exact
  <2>3. state.discrepancies \in Int /\ state.observations \in Int
    BY <1>1 DEF Snapshots
  <2>4. CASE Diverged(o)
    <3>1. candidate = state.log_wealth + LogDiscrepancy
      BY <2>4 DEF candidate, Contribution
    <3>2. state'.discrepancies = state.discrepancies + 1 /\ state'.observations = state.observations + 1
      BY <1>4, <1>6, <2>4
    <3> QED BY <2>1, <2>2, <2>3, <3>1, <3>2, OneDiscrepancy
  <2>5. CASE ~Diverged(o)
    <3>1. candidate = state.log_wealth + LogAgreement
      BY <2>5 DEF candidate, Contribution
    <3>2. state'.discrepancies = state.discrepancies /\ state'.observations = state.observations + 1
      BY <1>4, <1>6, <2>5
    <3> QED BY <2>1, <2>2, <2>3, <3>1, <3>2, OneAgreement
  <2> QED BY <2>4, <2>5
<1>10. Kept(state', heard')
  <2>1. \A k \in FailureKind : state'.bucket[k] = heard'[k]
    BY <1>1, <1>3, <1>4, <1>6 DEF Sound, Kept, Observation
  <2>2. o \in {"agreement", "discrepancy", "Timeout", "Cancelled", "ResourceExhausted"}
    BY DEF Observation, FailureKind
  <2>3. \A q \in Observation : heard[q] \in Nat /\ heard'[q] = IF q = o THEN heard[q] + 1 ELSE heard[q]
    BY <1>1, <1>3
  <2>4. {"agreement", "discrepancy", "Timeout", "Cancelled", "ResourceExhausted"} \subseteq Observation
    BY DEF Observation, FailureKind
  <2>5. state'.total_observations
          = heard["agreement"] + heard["discrepancy"] + heard["Timeout"]
            + heard["Cancelled"] + heard["ResourceExhausted"] + 1
    BY <1>1, <1>4, <1>6, <2>3, <2>4 DEF Sound, Kept
  <2>6. state'.total_observations
          = heard'["agreement"] + heard'["discrepancy"] + heard'["Timeout"]
            + heard'["Cancelled"] + heard'["ResourceExhausted"]
    BY <2>2, <2>3, <2>4, <2>5
  <2> QED BY <2>1, <2>6 DEF Kept
<1>11. Once(state', peak')
  <2>1. state.alarmed \in BOOLEAN /\ state.alarms \in Nat /\ state.resets \in Nat
    BY <1>1 DEF Snapshots
  <2>2. (state.alarmed <=> peak >= Threshold)
        /\ state.alarms <= state.resets + IF state.alarmed THEN 1 ELSE 0
    BY <1>1 DEF Sound, Once
  <2>3. alarm <=> state.alarmed \/ candidate >= Threshold
    BY DEF alarm, Alarmed
  <2>4. state'.alarmed <=> peak' >= Threshold
    BY <1>1, <1>2, <1>5, <1>7, <2>2, <2>3
  <2>5. state'.alarms <= state'.resets + IF state'.alarmed THEN 1 ELSE 0
    BY <1>2, <1>4, <1>6, <1>7, <2>1, <2>2, <2>3
  <2> QED BY <2>4, <2>5 DEF Once
<1>12. Sound(saved.state, saved.heard, saved.peak)'
  BY <1>3 DEF IInv, Sound, Exact, Kept, Once
<1>13. Sound(state, heard, peak)'
  BY <1>9, <1>10, <1>11 DEF Sound, Exact, Kept, Once
<1> QED BY <1>8, <1>12, <1>13 DEF IInv

\* A reset opens a generation without wealth, alarm or observations.
LEMMA ResetSound ==
  ASSUME IInv, Reset
  PROVE  IInv'
<1> USE MonitorAssumption
<1>1. state \in Snapshots /\ Sound(state, heard, peak) /\ UNCHANGED <<decision, heard, saved>> /\ peak' = 0
  BY DEF IInv, TypeOK, Reset
<1>2. /\ state' \in Snapshots
      /\ state'.log_wealth = 0 /\ state'.observations = 0 /\ state'.discrepancies = 0
      /\ state'.alarmed = FALSE /\ state'.resets = state.resets + 1
      /\ state'.alarms = state.alarms /\ state'.bucket = state.bucket
      /\ state'.total_observations = state.total_observations
  <2> DEFINE t == FALSE
             z == 0
             g == state.generation + 1
             r == state.resets + 1
             m == [state EXCEPT !.generation = g, !.resets = r, !.log_wealth = z, !.observations = z]
  <2>1. z \in Nat /\ z \in Int /\ z = 0 /\ g \in Nat /\ r \in Nat /\ r = state.resets + 1 /\ t \in BOOLEAN /\ t = FALSE
    BY <1>1 DEF Snapshots
  <2>2. state' = [m EXCEPT !.discrepancies = z, !.failures = z, !.alarmed = t, !.faulted = t]
    BY <1>1 DEF Reset, Snapshots
  <2> HIDE DEF t, z, g, r
  <2>3. m \in Snapshots
    BY <1>1, <2>1 DEF Snapshots
  <2>4. /\ m.log_wealth = 0 /\ m.observations = 0 /\ m.resets = state.resets + 1
        /\ m.alarms = state.alarms /\ m.bucket = state.bucket
        /\ m.total_observations = state.total_observations
    BY <1>1, <2>1 DEF Snapshots
  <2> HIDE DEF m
  <2>5. state' \in Snapshots
    BY <2>1, <2>2, <2>3 DEF Snapshots
  <2> QED BY <2>1, <2>2, <2>3, <2>4, <2>5 DEF Snapshots
<1>3. TypeOK'
  BY <1>1, <1>2 DEF IInv, TypeOK
<1>4. Exact(state') /\ Kept(state', heard')
  BY <1>1, <1>2 DEF Exact, Kept, Sound
<1>5. Once(state', peak')
  BY <1>1, <1>2 DEF Once, Sound, Snapshots
<1>6. Sound(saved.state, saved.heard, saved.peak)'
  BY <1>1 DEF IInv, Sound, Exact, Kept, Once
<1> QED BY <1>3, <1>4, <1>5, <1>6 DEF IInv, Sound, Exact, Kept, Once

\* Taking a snapshot and resuming from one exchange sound states.
LEMMA SnapshotSound ==
  ASSUME IInv, Snapshot \/ Resume \/ UNCHANGED monitorVars
  PROVE  IInv'
<1>1. CASE Snapshot
  <2>1. /\ UNCHANGED <<state, decision, heard, peak>>
        /\ saved' = [state |-> state, heard |-> heard, peak |-> peak]
        /\ saved'.state = state /\ saved'.heard = heard /\ saved'.peak = peak
    BY <1>1 DEF Snapshot
  <2>2. TypeOK'
    BY <2>1 DEF IInv, TypeOK
  <2> QED BY <2>1, <2>2 DEF IInv, Sound, Exact, Kept, Once
<1>2. CASE Resume
  <2>1. /\ UNCHANGED <<decision, saved>>
        /\ state' = saved.state /\ heard' = saved.heard /\ peak' = saved.peak
    BY <1>2 DEF Resume
  <2>2. TypeOK'
    BY <2>1 DEF IInv, TypeOK
  <2> QED BY <2>1, <2>2 DEF IInv, Sound, Exact, Kept, Once
<1>3. CASE UNCHANGED monitorVars
  BY <1>3 DEF monitorVars, IInv, TypeOK, Sound, Exact, Kept, Once
<1> QED BY <1>1, <1>2, <1>3

\* The invariant holds in every reachable state.
LEMMA Invariance == MonitorSpec => []IInv
<1>1. IInv /\ [MonitorNext]_monitorVars => IInv'
  BY ObserveSound, ResetSound, SnapshotSound DEF MonitorNext
<1> QED BY <1>1, InitIInv, PTL DEF MonitorSpec

\* The counters keep their types and the wealth stays finite, for every
\* calibration.
THEOREM TypeCorrect == MonitorSpec => []TypeOK
<1>1. IInv => TypeOK
  BY DEF IInv
<1> QED BY <1>1, Invariance, PTL

\* The wealth is always that of the observations of the current generation,
\* whatever was reset, alarmed or resumed.
THEOREM WealthExactHolds == MonitorSpec => []WealthExact
<1>1. IInv => WealthExact
  BY DEF IInv, Sound, Exact, WealthExact
<1> QED BY <1>1, Invariance, PTL

\* No observation and no failure vanishes from the counters.
THEOREM NothingDroppedHolds == MonitorSpec => []NothingDropped
<1>1. IInv => NothingDropped
  BY DEF IInv, Sound, Kept, NothingDropped
<1> QED BY <1>1, Invariance, PTL

\* A generation alarms exactly when its wealth has reached the threshold, and
\* is counted once.
THEOREM AlarmOnceHolds == MonitorSpec => []AlarmOnce
<1>1. IInv => AlarmOnce
  BY DEF IInv, Sound, Once, AlarmOnce
<1> QED BY <1>1, Invariance, PTL

-----------------------------------------------------------------------------
(* The proof kernel.  Terms and their values are parameters of the kernel,  *)
(* so the theorems have a hypothesis about them, Semantics: the value of a  *)
(* compound expression is a function of the values of its parts, and a      *)
(* coercion is an inclusion.  Nothing is supposed about what the kernel     *)
(* accepts: a reduction or a normal form that it accepts wrongly is in       *)
(* Wrong, and that nothing else is a source of error is derived, for every   *)
(* rule and for derivations of any length.                                  *)

\* Rules a derivation may consist of, whatever steps they refer to.
One == [1..1 -> Nat]
Two == [1..2 -> Nat]

Rules == RulesOver(Nat)

\* The environments the context allows, and equality in all of them.
Admissible == {env \in Environments : Allowed(env)}

SameValue(x, y) == \A env \in Admissible : Value(x, env) = Value(y, env)

\* A set of expressions closed under what the rules build.
Closed(Exprs) ==
    /\ \A a \in Seq(Exprs) : <<"add", a>> \in Exprs /\ <<"mul", a>> \in Exprs
    /\ \A x, y \in Exprs : <<"pow", x, y>> \in Exprs
    /\ \A f \in FunctionNames, a \in Seq(Exprs) : <<"fn", f[2], a>> \in Exprs
    /\ \A t \in Templates, x \in Exprs : capture_avoiding(t[1], t[2], x) \in Exprs

\* The value of an expression is determined by the values of its parts.
Compositional(Exprs) ==
    \A env \in Environments :
        /\ \A a, b \in Seq(Exprs) :
              (Len(a) = Len(b) /\ \A k \in 1..Len(a) : Value(a[k], env) = Value(b[k], env)) =>
                  /\ Value(<<"add", a>>, env) = Value(<<"add", b>>, env)
                  /\ Value(<<"mul", a>>, env) = Value(<<"mul", b>>, env)
                  /\ \A f \in FunctionNames :
                        Value(<<"fn", f[2], a>>, env) = Value(<<"fn", f[2], b>>, env)
        /\ \A w, x, y, z \in Exprs :
              (Value(w, env) = Value(y, env) /\ Value(x, env) = Value(z, env)) =>
                  Value(<<"pow", w, x>>, env) = Value(<<"pow", y, z>>, env)
        /\ \A t \in Templates, x, y \in Exprs :
              Value(x, env) = Value(y, env) =>
                  Value(capture_avoiding(t[1], t[2], x), env)
                    = Value(capture_avoiding(t[1], t[2], y), env)

\* A claim that is valid and, as an equality, between expressions.
Good(Exprs, c) ==
    /\ Valid(c, Environments)
    /\ c.kind = "Equality" => c.lhs \in Exprs /\ c.rhs \in Exprs

\* What a rule without premises speaks of.
Speaks(Exprs) ==
    \A rule \in Axioms : \A c \in Established(rule.name, rule.args, <<>>, <<>>) :
        c.kind = "Equality" => c.lhs \in Exprs /\ c.rhs \in Exprs

\* Literals that the worker tries are integers, and a coercion is an inclusion.
DomainsNested ==
    /\ \A rule \in Axioms, env \in Environments :
          rule.name = "ContextDomain" /\ rule.args[1][1] = "int" =>
              InDomain(Value(rule.args[1], env), ZZ)
    /\ \A v, known, d : coerces(known, d) /\ InDomain(v, known) => InDomain(v, d)

Semantics(Exprs) ==
    Closed(Exprs) /\ Compositional(Exprs) /\ Speaks(Exprs) /\ DomainsNested

\* Validity of an equality is equality of values under the context.
LEMMA ValidEquality ==
    ASSUME NEW x, NEW y
    PROVE  Valid(Equality(x, y), Environments) <=> SameValue(x, y)
<1> DEFINE q == Equality(x, y)
<1>1. q.kind = "Equality" /\ q.lhs = x /\ q.rhs = y
  BY DEF Equality
<1> HIDE DEF q
<1>2. Valid(q, Environments) <=> SameValue(q.lhs, q.rhs)
  BY <1>1 DEF Valid, SameValue, Admissible
<1> QED
  BY <1>1, <1>2 DEF q

\* The same for a claim between expressions.
LEMMA GoodEquality ==
    ASSUME NEW Exprs, NEW x, NEW y
    PROVE  Good(Exprs, Equality(x, y)) <=> SameValue(x, y) /\ x \in Exprs /\ y \in Exprs
<1>1. /\ Equality(x, y).kind = "Equality" /\ Equality(x, y).lhs = x
      /\ Equality(x, y).rhs = y
  BY DEF Equality
<1> QED
  BY <1>1, ValidEquality DEF Good

\* What a good premise says.
LEMMA GoodPremise ==
    ASSUME NEW Exprs, NEW c, Good(Exprs, c), c.kind = "Equality"
    PROVE  SameValue(c.lhs, c.rhs) /\ c.lhs \in Exprs /\ c.rhs \in Exprs
  BY DEF Good, Valid, SameValue, Admissible

\* What each rule with premises establishes, if anything.
LEMMA EstablishedIs ==
    ASSUME NEW args, NEW l, NEW r, NEW c
    PROVE  /\ c \in Established("Symmetry", args, l, r) => c = Equality(r[1], l[1])
           /\ c \in Established("Transitivity", args, l, r) => r[1] = l[2]
           /\ c \in Established("Transitivity", args, l, r) => c = Equality(l[1], r[2])
           /\ c \in Established("CongruenceAdd", args, l, r) =>
                 c = Equality(<<"add", l>>, <<"add", r>>)
           /\ c \in Established("CongruenceMul", args, l, r) =>
                 c = Equality(<<"mul", l>>, <<"mul", r>>)
           /\ c \in Established("CongruencePow", args, l, r) =>
                 c = Equality(<<"pow", l[1], l[2]>>, <<"pow", r[1], r[2]>>)
           /\ c \in Established("CongruenceFunction", args, l, r) =>
                 c = Equality(<<"fn", args[1][2], l>>, <<"fn", args[1][2], r>>)
           /\ c \in Established("Substitution", args, l, r) =>
                 c = Equality(capture_avoiding(args[1], args[2], l[1]),
                              capture_avoiding(args[1], args[2], r[1]))
<1>1. c \in Established("Symmetry", args, l, r) => c = Equality(r[1], l[1])
  BY DEF Established
<1>2. c \in Established("Transitivity", args, l, r) =>
           r[1] = l[2] /\ c = Equality(l[1], r[2])
  BY DEF Established, Chained
<1>3. c \in Established("CongruenceAdd", args, l, r) =>
                 c = Equality(<<"add", l>>, <<"add", r>>)
  BY DEF Established
<1>4. c \in Established("CongruenceMul", args, l, r) =>
                 c = Equality(<<"mul", l>>, <<"mul", r>>)
  BY DEF Established
<1>5. c \in Established("CongruencePow", args, l, r) =>
                 c = Equality(<<"pow", l[1], l[2]>>, <<"pow", r[1], r[2]>>)
  BY DEF Established
<1>6. c \in Established("CongruenceFunction", args, l, r) =>
                 c = Equality(<<"fn", args[1][2], l>>, <<"fn", args[1][2], r>>)
  BY DEF Established
<1>7. c \in Established("Substitution", args, l, r) =>
                 c = Equality(capture_avoiding(args[1], args[2], l[1]),
                           capture_avoiding(args[1], args[2], r[1]))
  BY DEF Established
<1> QED
  BY <1>1, <1>2, <1>3, <1>4, <1>5, <1>6, <1>7

\* RulesOver(Nat), written out.
LEMMA RulesAre ==
    Rules = Axioms
              \cup [name : {"Symmetry"}, ids : One, args : {<<>>}]
              \cup [name : BinaryRules, ids : Two, args : {<<>>}]
              \cup [name : {"CongruenceFunction"}, ids : One, args : {<<f>> : f \in FunctionNames}]
              \cup [name : {"Substitution"}, ids : One, args : Templates]
  BY Zenon DEF Rules, RulesOver, One, Two

\* The kinds of rules, by name.
LEMMA RuleKinds ==
    ASSUME NEW rule \in Rules
    PROVE  \/ rule \in Axioms
           \/ rule.name = "Symmetry" /\ rule.ids \in One
           \/ rule.name \in BinaryRules /\ rule.ids \in Two
           \/ /\ rule.name = "CongruenceFunction" /\ rule.ids \in One
              /\ \E f \in FunctionNames : rule.args = <<f>>
           \/ rule.name = "Substitution" /\ rule.ids \in One /\ rule.args \in Templates
  BY RulesAre


\* A function on 1..n is a sequence of length n.
LEMMA FunctionSeq ==
    ASSUME NEW S, NEW n \in Nat, NEW f \in [1..n -> S]
    PROVE  f \in Seq(S) /\ Len(f) = n
  OBVIOUS

\* What the context answers, and reflexivity, is good.
LEMMA ContextSound ==
    ASSUME NEW Exprs, Semantics(Exprs), NEW rule \in Axioms, ~ Computed(rule),
           NEW c \in Established(rule.name, rule.args, <<>>, <<>>)
    PROVE  Good(Exprs, c)
<1>1. c.kind = "Equality" => c.lhs \in Exprs /\ c.rhs \in Exprs
  BY DEF Semantics, Speaks
<1>2. CASE rule.name = "Reflexivity"
  <2>1. c = Equality(rule.args[1], rule.args[1])
    BY <1>2 DEF Established
  <2>2. Valid(c, Environments)
    BY <2>1, ValidEquality DEF SameValue
  <2> QED
    BY <1>1, <2>2 DEF Good
<1>3. CASE rule.name = "ContextPredicate"
  <2>1. rule.args \in Entailed /\ c = PredicateHold(rule.args[1], rule.args[2])
    BY <1>3 DEF Established
  <2>2. c.kind = "PredicateHold" /\ c.lhs = rule.args[1]
    BY <2>1 DEF PredicateHold
  <2>3. Valid(c, Environments)
    BY <2>1, <2>2 DEF Valid, Allowed
  <2> QED
    BY <1>1, <2>3 DEF Good
<1>4. CASE rule.name = "ContextDomain"
  <2> DEFINE e == rule.args[1]
             d == rule.args[2]
  <2>1. c = DomainMembership(e, d) /\ \E known \in KnownDomains(e) : coerces(known, d)
    BY <1>4 DEF Established
  <2>2. c.kind = "DomainMembership" /\ c.lhs = e /\ c.rhs = d
    BY <2>1 DEF DomainMembership
  <2>3. PICK known \in KnownDomains(e) : coerces(known, d)
    BY <2>1
  <2>4. ASSUME NEW env \in Environments, Allowed(env) PROVE InDomain(Value(e, env), d)
    <3>1. InDomain(Value(e, env), known)
      <4>1. CASE e[1] = "int"
        <5>1. known = ZZ
          BY <4>1 DEF KnownDomains
        <5> QED
          BY <1>4, <4>1, <5>1 DEF Semantics, DomainsNested
      <4>2. CASE e[1] # "int"
        <5>1. \E p \in Declared : p[1] = e /\ p[2] = known
          BY <4>2 DEF KnownDomains
        <5> QED
          BY <2>4, <5>1 DEF Allowed
      <4> QED
        BY <4>1, <4>2
    <3> QED
      BY <2>3, <3>1 DEF Semantics, DomainsNested
  <2> HIDE DEF e, d
  <2>5. Valid(c, Environments)
    BY <2>2, <2>4 DEF Valid
  <2> QED
    BY <1>1, <2>5 DEF Good
<1> QED
  BY <1>2, <1>3, <1>4 DEF Computed

\* One application: a rule whose earlier premises are good establishes a good
\* claim, if what it computes is valid.
LEMMA RuleSound ==
    ASSUME NEW Exprs, Semantics(Exprs), NEW rule \in Rules, NEW current, NEW claims,
           \A i \in Range(rule.ids) : i < current => Good(Exprs, claims[i]),
           NEW c \in check_rule_application(rule, current, claims),
           Computed(rule) => Valid(c, Environments)
    PROVE  Good(Exprs, c)
<1> DEFINE ids == rule.ids
           l == [k \in DOMAIN rule.ids |-> claims[rule.ids[k]].lhs]
           r == [k \in DOMAIN rule.ids |-> claims[rule.ids[k]].rhs]
<1>1. Premises(ids, current, claims) /\ c \in Established(rule.name, rule.args, l, r)
  BY DEF check_rule_application
<1>2. ASSUME NEW k \in DOMAIN ids
      PROVE  SameValue(l[k], r[k]) /\ l[k] \in Exprs /\ r[k] \in Exprs
  <2>1. ids[k] \in Range(ids)
    BY DEF Range
  <2>2. ids[k] < current /\ claims[ids[k]].kind = "Equality"
    BY <1>1, <2>1 DEF Premises
  <2>3. Good(Exprs, claims[ids[k]])
    BY <2>1, <2>2
  <2> QED
    BY <2>2, <2>3, GoodPremise
<1>a. DOMAIN l = DOMAIN ids /\ DOMAIN r = DOMAIN ids
  OBVIOUS
<1>3. CASE rule \in Axioms
  <2>1. ids = <<>>
    BY <1>3, RemoteAssumption DEF Rule
  <2>2. l = <<>> /\ r = <<>>
    BY <2>1
  <2> HIDE DEF l, r
  <2>3. c \in Established(rule.name, rule.args, <<>>, <<>>)
    BY <1>1, <2>2
  <2>4. CASE Computed(rule)
    BY <1>3, <2>3, <2>4 DEF Semantics, Speaks, Good
  <2>5. CASE ~ Computed(rule)
    BY <1>3, <2>3, <2>5, ContextSound
  <2> QED
    BY <2>4, <2>5
<1>4. ASSUME ids \in One
      PROVE  /\ SameValue(l[1], r[1]) /\ l[1] \in Exprs /\ r[1] \in Exprs
             /\ l \in Seq(Exprs) /\ r \in Seq(Exprs) /\ Len(l) = 1 /\ Len(r) = 1
  <2>1. DOMAIN ids = 1..1
    BY <1>4 DEF One
  <2>2. SameValue(l[1], r[1]) /\ l[1] \in Exprs /\ r[1] \in Exprs
    BY <1>2, <2>1
  <2>3. l = [k \in 1..1 |-> claims[ids[k]].lhs] /\ r = [k \in 1..1 |-> claims[ids[k]].rhs]
    BY <2>1
  <2>4. l \in [1..1 -> Exprs] /\ r \in [1..1 -> Exprs]
    BY <2>2, <2>3
  <2>5. l \in Seq(Exprs) /\ r \in Seq(Exprs) /\ Len(l) = 1 /\ Len(r) = 1
    BY <2>4, FunctionSeq
  <2> HIDE DEF l, r
  <2> QED
    BY <2>2, <2>5
<1>5. ASSUME ids \in Two
      PROVE  /\ SameValue(l[1], r[1]) /\ l[1] \in Exprs /\ r[1] \in Exprs
             /\ SameValue(l[2], r[2]) /\ l[2] \in Exprs /\ r[2] \in Exprs
             /\ l \in Seq(Exprs) /\ r \in Seq(Exprs) /\ Len(l) = 2 /\ Len(r) = 2
  <2>1. DOMAIN ids = 1..2
    BY <1>5 DEF Two
  <2>2. /\ SameValue(l[1], r[1]) /\ l[1] \in Exprs /\ r[1] \in Exprs
        /\ SameValue(l[2], r[2]) /\ l[2] \in Exprs /\ r[2] \in Exprs
    BY <1>2, <2>1
  <2>3. l = [k \in 1..2 |-> claims[ids[k]].lhs] /\ r = [k \in 1..2 |-> claims[ids[k]].rhs]
    BY <2>1
  <2>4. l \in [1..2 -> Exprs] /\ r \in [1..2 -> Exprs]
    BY <2>2, <2>3
  <2>5. l \in Seq(Exprs) /\ r \in Seq(Exprs) /\ Len(l) = 2 /\ Len(r) = 2
    BY <2>4, FunctionSeq
  <2> HIDE DEF l, r
  <2> QED
    BY <2>2, <2>5
<1> HIDE DEF l, r, ids
<1>b. \A env \in Admissible : env \in Environments
  BY DEF Admissible
<1>6. CASE rule.name = "Symmetry" /\ ids \in One
  <2>1. c = Equality(r[1], l[1])
    <3>1. c \in Established("Symmetry", rule.args, l, r)
      BY <1>1, <1>6, Zenon
    <3> QED
      BY <3>1, EstablishedIs, Zenon
  <2>2. SameValue(r[1], l[1])
    BY <1>4, <1>6 DEF SameValue
  <2> QED
    BY <1>4, <1>6, <2>1, <2>2, GoodEquality
<1>7. CASE rule.name = "Transitivity" /\ ids \in Two
  <2>1. r[1] = l[2] /\ c = Equality(l[1], r[2])
    <3>1. c \in Established("Transitivity", rule.args, l, r)
      BY <1>1, <1>7, Zenon
    <3>2. r[1] = l[2]
      BY <3>1, EstablishedIs, Zenon
    <3>3. c = Equality(l[1], r[2])
      BY <3>1, EstablishedIs, Zenon
    <3> QED
      BY <3>2, <3>3
  <2>2. SameValue(l[1], r[2])
    BY <1>5, <1>7, <2>1 DEF SameValue
  <2> QED
    BY <1>5, <1>7, <2>1, <2>2, GoodEquality
<1>8. ASSUME l \in Seq(Exprs), r \in Seq(Exprs), Len(l) = Len(r),
             \A k \in 1..Len(l) : SameValue(l[k], r[k])
      PROVE  /\ SameValue(<<"add", l>>, <<"add", r>>) /\ SameValue(<<"mul", l>>, <<"mul", r>>)
             /\ \A f \in FunctionNames : SameValue(<<"fn", f[2], l>>, <<"fn", f[2], r>>)
             /\ <<"add", l>> \in Exprs /\ <<"add", r>> \in Exprs
             /\ <<"mul", l>> \in Exprs /\ <<"mul", r>> \in Exprs
             /\ \A f \in FunctionNames : <<"fn", f[2], l>> \in Exprs /\ <<"fn", f[2], r>> \in Exprs
  <2>1. ASSUME NEW env \in Admissible
        PROVE  /\ Value(<<"add", l>>, env) = Value(<<"add", r>>, env)
               /\ Value(<<"mul", l>>, env) = Value(<<"mul", r>>, env)
               /\ \A f \in FunctionNames :
                     Value(<<"fn", f[2], l>>, env) = Value(<<"fn", f[2], r>>, env)
    <3>1. env \in Environments /\ \A k \in 1..Len(l) : Value(l[k], env) = Value(r[k], env)
      BY <1>8, <1>b DEF SameValue
    <3> QED
      BY <1>8, <3>1, Zenon DEF Semantics, Compositional
  <2>2. /\ SameValue(<<"add", l>>, <<"add", r>>) /\ SameValue(<<"mul", l>>, <<"mul", r>>)
        /\ \A f \in FunctionNames : SameValue(<<"fn", f[2], l>>, <<"fn", f[2], r>>)
    BY <2>1, Zenon DEF SameValue
  <2>3. /\ <<"add", l>> \in Exprs /\ <<"add", r>> \in Exprs
        /\ <<"mul", l>> \in Exprs /\ <<"mul", r>> \in Exprs
        /\ \A f \in FunctionNames : <<"fn", f[2], l>> \in Exprs /\ <<"fn", f[2], r>> \in Exprs
    BY <1>8, Zenon DEF Semantics, Closed
  <2> QED
    BY <2>2, <2>3, Zenon
<1>9. ASSUME ids \in Two PROVE \A k \in 1..Len(l) : SameValue(l[k], r[k])
  <2>1. Len(l) = 2
    BY <1>5, <1>9
  <2>2. \A k \in 1..Len(l) : k = 1 \/ k = 2
    BY <2>1
  <2> QED
    BY <1>5, <1>9, <2>2
<1>10. CASE rule.name = "CongruenceAdd" /\ ids \in Two
  <2>1. c = Equality(<<"add", l>>, <<"add", r>>)
    BY <1>1, <1>10, EstablishedIs
  <2> QED
    BY <1>5, <1>8, <1>9, <1>10, <2>1, GoodEquality
<1>11. CASE rule.name = "CongruenceMul" /\ ids \in Two
  <2>1. c = Equality(<<"mul", l>>, <<"mul", r>>)
    BY <1>1, <1>11, EstablishedIs
  <2> QED
    BY <1>5, <1>8, <1>9, <1>11, <2>1, GoodEquality
<1>12. CASE rule.name = "CongruencePow" /\ ids \in Two
  <2>1. c = Equality(<<"pow", l[1], l[2]>>, <<"pow", r[1], r[2]>>)
    <3>1. c \in Established("CongruencePow", rule.args, l, r)
      BY <1>1, <1>12, Zenon
    <3> QED
      BY <3>1, EstablishedIs, Zenon
  <2>2. SameValue(<<"pow", l[1], l[2]>>, <<"pow", r[1], r[2]>>)
    <3> SUFFICES ASSUME NEW env \in Admissible
                 PROVE  Value(<<"pow", l[1], l[2]>>, env) = Value(<<"pow", r[1], r[2]>>, env)
      BY Zenon DEF SameValue
    <3>1. /\ env \in Environments /\ Value(l[1], env) = Value(r[1], env)
          /\ Value(l[2], env) = Value(r[2], env)
      BY <1>5, <1>12, <1>b DEF SameValue
    <3>2. l[1] \in Exprs /\ l[2] \in Exprs /\ r[1] \in Exprs /\ r[2] \in Exprs
      BY <1>5, <1>12
    <3>3. \A w, x, y, z \in Exprs :
             (Value(w, env) = Value(y, env) /\ Value(x, env) = Value(z, env)) =>
                 Value(<<"pow", w, x>>, env) = Value(<<"pow", y, z>>, env)
      BY <3>1, Zenon DEF Semantics, Compositional
    <3> QED
      BY <3>1, <3>2, <3>3
  <2>3. <<"pow", l[1], l[2]>> \in Exprs /\ <<"pow", r[1], r[2]>> \in Exprs
    BY <1>5, <1>12, Zenon DEF Semantics, Closed
  <2> QED
    BY <2>1, <2>2, <2>3, GoodEquality
<1>13. CASE /\ rule.name = "CongruenceFunction" /\ ids \in One
            /\ \E f \in FunctionNames : rule.args = <<f>>
  <2>1. PICK f \in FunctionNames : rule.args = <<f>>
    BY <1>13
  <2>2. rule.args[1][2] = f[2]
    BY <2>1
  <2>3. c = Equality(<<"fn", f[2], l>>, <<"fn", f[2], r>>)
    <3>1. c \in Established("CongruenceFunction", rule.args, l, r)
      BY <1>1, <1>13, Zenon
    <3> QED
      BY <3>1, <2>2, EstablishedIs, Zenon
  <2>4. \A k \in 1..Len(l) : SameValue(l[k], r[k])
    <3>1. \A k \in 1..Len(l) : k = 1
      BY <1>4, <1>13
    <3> QED
      BY <1>4, <1>13, <3>1
  <2>5. Len(l) = Len(r) /\ l \in Seq(Exprs) /\ r \in Seq(Exprs)
    BY <1>4, <1>13
  <2>6. /\ SameValue(<<"fn", f[2], l>>, <<"fn", f[2], r>>)
        /\ <<"fn", f[2], l>> \in Exprs /\ <<"fn", f[2], r>> \in Exprs
    BY <1>8, <2>4, <2>5, Zenon
  <2> QED
    BY <2>3, <2>6, GoodEquality
<1>14. CASE rule.name = "Substitution" /\ ids \in One /\ rule.args \in Templates
  <2> DEFINE x == capture_avoiding(rule.args[1], rule.args[2], l[1])
             y == capture_avoiding(rule.args[1], rule.args[2], r[1])
  <2>1. c = Equality(x, y)
    <3>1. c \in Established("Substitution", rule.args, l, r)
      BY <1>1, <1>14, Zenon
    <3> QED
      BY <3>1, EstablishedIs, Zenon
  <2>2. x \in Exprs /\ y \in Exprs
    BY <1>4, <1>14, Zenon DEF Semantics, Closed
  <2>3. SameValue(x, y)
    <3> SUFFICES ASSUME NEW env \in Admissible PROVE Value(x, env) = Value(y, env)
      BY Zenon DEF SameValue
    <3>1. env \in Environments /\ Value(l[1], env) = Value(r[1], env)
      BY <1>4, <1>14, <1>b DEF SameValue
    <3> QED
      BY <1>4, <1>14, <3>1, Zenon DEF Semantics, Compositional
  <2> QED
    BY <2>1, <2>2, <2>3, GoodEquality
<1> QED
  BY <1>3, <1>6, <1>7, <1>10, <1>11, <1>12, <1>13, <1>14, RuleKinds DEF ids, BinaryRules

\* A derivation whose steps all hold.
Holds(ss) ==
    /\ \E n \in Nat : DOMAIN ss = 1..n
    /\ \A i \in DOMAIN ss : ss[i].rule \in Rules /\ StepHolds(ss[i], i, ClaimsBefore(ss, i))

\* In a derivation whose steps hold, a set of steps that has their premises and
\* whose reductions are valid is valid as a whole: by induction on the position,
\* since premises come earlier.
LEMMA DerivationSound ==
    ASSUME NEW Exprs, Semantics(Exprs), NEW ss, Holds(ss), NEW R \in SUBSET DOMAIN ss,
           \A j \in R : Range(ss[j].rule.ids) \subseteq R,
           \A j \in R : Computed(ss[j].rule) => Valid(ss[j].claim, Environments),
           NEW i \in R
    PROVE  Good(Exprs, ss[i].claim)
<1>1. PICK n \in Nat : DOMAIN ss = 1..n
  BY DEF Holds
<1> DEFINE T == {m \in Nat : \A k \in R : k <= m => Good(Exprs, ss[k].claim)}
<1>2. 0 \in T
  BY <1>1
<1>3. ASSUME NEW m \in T PROVE m + 1 \in T
  <2>1. m \in Nat /\ \A k \in R : k <= m => Good(Exprs, ss[k].claim)
    OBVIOUS
  <2> HIDE DEF T
  <2>2. ASSUME NEW k \in R, k = m + 1 PROVE Good(Exprs, ss[k].claim)
    <3> DEFINE rule == ss[k].rule
               claims == ClaimsBefore(ss, k)
    <3>1. rule \in Rules /\ ss[k].claim \in check_rule_application(rule, k, claims)
      BY DEF Holds, StepHolds
    <3>2. ASSUME NEW j \in Range(rule.ids), j < k PROVE Good(Exprs, claims[j])
      <4>1. j \in DOMAIN claims
        BY <3>1 DEF check_rule_application, Premises
      <4>2. j \in 1..(k - 1) /\ claims[j] = ss[j].claim
        BY <4>1 DEF ClaimsBefore
      <4>3. j \in R /\ j <= m
        BY <1>1, <2>1, <2>2, <4>2
      <4> QED
        BY <2>1, <4>2, <4>3
    <3>3. Computed(rule) => Valid(ss[k].claim, Environments)
      OBVIOUS
    <3> HIDE DEF rule, claims
    <3> QED
      BY <3>1, <3>2, <3>3, RuleSound
  <2>3. \A k \in R : k <= m + 1 => k <= m \/ k = m + 1
    BY <1>1, <2>1
  <2> QED
    BY <2>1, <2>2, <2>3 DEF T
<1> HIDE DEF T
<1>4. T \in SUBSET Nat
  BY DEF T
<1>5. \A m \in Nat : m \in T
  BY <1>2, <1>3, <1>4, SetInduction
<1>6. i \in Nat /\ i \in T
  BY <1>1, <1>5
<1> QED
  BY <1>6 DEF T

\* A reduction or normal form that is not wrong records a valid claim.
LEMMA RightClaim ==
    ASSUME NEW ss, Holds(ss), NEW j \in DOMAIN ss, ss[j].rule \notin Wrong,
           Computed(ss[j].rule)
    PROVE  Valid(ss[j].claim, Environments)
<1> DEFINE rule == ss[j].rule
           claims == ClaimsBefore(ss, j)
           l == [k \in DOMAIN rule.ids |-> claims[rule.ids[k]].lhs]
           r == [k \in DOMAIN rule.ids |-> claims[rule.ids[k]].rhs]
<1>1. ss[j].claim \in Established(rule.name, rule.args, l, r)
  BY DEF Holds, StepHolds, check_rule_application
<1>2. rule \in Axioms /\ rule.ids = <<>>
  BY RemoteAssumption DEF Computed, Rule
<1>3. l = <<>> /\ r = <<>>
  BY <1>2
<1> HIDE DEF l, r, claims
<1> QED
  BY <1>1, <1>2, <1>3 DEF Wrong

\* The references of a step that holds are steps of the derivation.
LEMMA KnownSteps ==
    ASSUME NEW ss, Holds(ss), NEW j \in DOMAIN ss
    PROVE  Range(ss[j].rule.ids) \subseteq DOMAIN ss
<1>1. PICK n \in Nat : DOMAIN ss = 1..n
  BY DEF Holds
<1>2. Premises(ss[j].rule.ids, j, ClaimsBefore(ss, j))
  BY DEF Holds, StepHolds, check_rule_application
<1>3. Range(ss[j].rule.ids) \subseteq DOMAIN ClaimsBefore(ss, j)
  BY <1>2 DEF Premises
<1>4. DOMAIN ClaimsBefore(ss, j) \subseteq 1..n
  BY <1>1 DEF ClaimsBefore
<1> QED
  BY <1>1, <1>3, <1>4

\* What the verifier accepts is valid, wherever the derivation came from, if it
\* names no wrong reduction.
LEMMA VerifiedSound ==
    ASSUME NEW Exprs, Semantics(Exprs), NEW d, NEW n \in Nat, DOMAIN d.steps = 1..n,
           \A i \in 1..n : d.steps[i].rule \in Rules, NamesNoWrong(d),
           NEW c \in verify_derivation_independent(d)
    PROVE  Good(Exprs, c)
<1>1. /\ d.root \in DOMAIN d.steps /\ c = d.steps[d.root].claim
      /\ \A i \in DOMAIN d.steps : StepHolds(d.steps[i], i, ClaimsBefore(d.steps, i))
  BY DEF verify_derivation_independent
<1>2. Holds(d.steps)
  BY <1>1 DEF Holds
<1>3. ASSUME NEW j \in DOMAIN d.steps
      PROVE  /\ Range(d.steps[j].rule.ids) \subseteq DOMAIN d.steps
             /\ Computed(d.steps[j].rule) => Valid(d.steps[j].claim, Environments)
  <2>1. d.steps[j].rule \notin Wrong
    BY DEF NamesNoWrong
  <2> QED
    BY <1>2, <2>1, KnownSteps, RightClaim
<1> QED
  BY <1>1, <1>2, <1>3, DerivationSound

\* A rule applied elsewhere, to premises that claim the same, establishes the
\* same.
LEMMA Locality ==
    ASSUME NEW rule, NEW other, NEW current, NEW place, NEW claims, NEW prior,
           other.name = rule.name, other.args = rule.args,
           DOMAIN other.ids = DOMAIN rule.ids,
           Premises(rule.ids, current, claims),
           \A m \in DOMAIN rule.ids :
               /\ other.ids[m] < place /\ other.ids[m] \in DOMAIN prior
               /\ prior[other.ids[m]] = claims[rule.ids[m]]
    PROVE  check_rule_application(other, place, prior)
             = check_rule_application(rule, current, claims)
<1>1. \A m \in DOMAIN rule.ids : claims[rule.ids[m]].kind = "Equality"
  BY DEF Premises, Range
<1>2. Premises(other.ids, place, prior)
  BY <1>1 DEF Premises, Range
<1> DEFINE D == DOMAIN rule.ids
<1>3. /\ [k \in D |-> prior[other.ids[k]].lhs] = [k \in D |-> claims[rule.ids[k]].lhs]
      /\ [k \in D |-> prior[other.ids[k]].rhs] = [k \in D |-> claims[rule.ids[k]].rhs]
  OBVIOUS
<1>4. check_rule_application(rule, current, claims) =
        Established(rule.name, rule.args, [k \in D |-> claims[rule.ids[k]].lhs],
                                          [k \in D |-> claims[rule.ids[k]].rhs])
  BY Zenon DEF check_rule_application
<1>5. check_rule_application(other, place, prior) =
        Established(rule.name, rule.args, [k \in D |-> prior[other.ids[k]].lhs],
                                          [k \in D |-> prior[other.ids[k]].rhs])
  BY <1>2, Zenon DEF check_rule_application
<1> QED
  BY <1>3, <1>4, <1>5, Zenon

\* The new numbers of a set of steps are 1..K, in the same order.
LEMMA Renumbering ==
    ASSUME NEW n \in Nat, NEW R \in SUBSET (1..n)
    PROVE  /\ IsFiniteSet(R) /\ Cardinality(R) \in Nat
           /\ \A i \in Nat : NewId(R, i) \in Nat
           /\ \A i \in R : NewId(R, i) \in 1..Cardinality(R)
           /\ \A i, j \in R : i < j => NewId(R, i) < NewId(R, j)
           /\ \A i, j \in R : NewId(R, i) = NewId(R, j) => i = j
           /\ \A k \in 1..Cardinality(R) : \E i \in R : NewId(R, i) = k
<1> DEFINE Upto(i) == {j \in R : j <= i}
           K == Cardinality(R)
<1>1. IsFiniteSet(R) /\ K \in Nat
  <2>1. IsFiniteSet(1..n)
    BY FS_Interval
  <2> QED
    BY <2>1, FS_Subset, FS_CardinalityType
<1>0. \A i \in R : i \in Nat
  OBVIOUS
<1>2. ASSUME NEW i PROVE /\ IsFiniteSet(Upto(i)) /\ Cardinality(Upto(i)) \in Nat
                         /\ Cardinality(Upto(i)) <= K
  <2>1. Upto(i) \in SUBSET R
    OBVIOUS
  <2> HIDE DEF Upto
  <2> QED
    BY <1>1, <2>1, FS_Subset, FS_CardinalityType
<1>3. ASSUME NEW i \in R PROVE Cardinality(Upto(i)) # 0
  <2>1. i \in Upto(i)
    OBVIOUS
  <2> HIDE DEF Upto
  <2> QED
    BY <1>2, <2>1, FS_EmptySet
<1>4. ASSUME NEW i \in R, NEW j \in R, i < j
      PROVE  Cardinality(Upto(i)) < Cardinality(Upto(j))
  <2>1. Upto(i) \in SUBSET (Upto(j) \ {j}) /\ j \in Upto(j)
    <3>1. i \in Nat /\ j \in Nat
      BY <1>0
    <3>2. \A k \in R : k <= i => k <= j /\ k # j
      BY <1>0, <1>4, <3>1
    <3>3. j <= j
      BY <3>1
    <3>4. \A k \in Upto(i) : k \in Upto(j) \ {j}
      BY <3>2
    <3>5. j \in Upto(j)
      BY <3>3
    <3> HIDE DEF Upto
    <3> QED
      BY <3>4, <3>5
  <2>2. IsFiniteSet(Upto(j)) /\ Cardinality(Upto(j)) \in Nat /\ Cardinality(Upto(i)) \in Nat
    BY <1>2
  <2> HIDE DEF Upto
  <2>3. /\ IsFiniteSet(Upto(j) \ {j})
        /\ Cardinality(Upto(j) \ {j}) = Cardinality(Upto(j)) - 1
    BY <2>1, <2>2, FS_RemoveElement
  <2>4. Cardinality(Upto(i)) <= Cardinality(Upto(j) \ {j})
    BY <2>1, <2>3, FS_Subset
  <2> QED
    BY <2>2, <2>3, <2>4
<1>5. \A i : NewId(R, i) = Cardinality(Upto(i))
  BY DEF NewId
<1> HIDE DEF Upto
<1>6. \A i \in R : NewId(R, i) \in 1..K
  BY <1>1, <1>2, <1>3, <1>5
<1>7. \A i, j \in R : i < j => NewId(R, i) < NewId(R, j)
  BY <1>4, <1>5
<1>8. \A i, j \in R : NewId(R, i) = NewId(R, j) => i = j
  <2> SUFFICES ASSUME NEW i \in R, NEW j \in R, NewId(R, i) = NewId(R, j) PROVE i = j
    OBVIOUS
  <2>1. i \in Nat /\ j \in Nat /\ NewId(R, i) \in Nat
    BY <1>6
  <2>2. ~ (i < j) /\ ~ (j < i)
    BY <1>7, <2>1
  <2> QED
    BY <2>1, <2>2
<1>9. \A k \in 1..K : \E i \in R : NewId(R, i) = k
  <2> DEFINE f == [i \in R |-> NewId(R, i)]
  <2>1. f \in Injection(R, 1..K)
    BY <1>6, <1>8 DEF Injection, IsInjective
  <2>2. IsFiniteSet(1..K) /\ Cardinality(1..K) = K
    BY <1>1, FS_Interval
  <2> HIDE DEF f, K
  <2>3. f \in Surjection(R, 1..K)
    BY <2>1, <2>2, FS_Injection DEF K
  <2> QED
    BY <2>3 DEF Surjection, f
<1> QED
  BY <1>1, <1>2, <1>5, <1>6, <1>7, <1>8, <1>9

\* The slice contains its root and is closed under premises.
LEMMA Slice ==
    ASSUME NEW ss, NEW n \in Nat, DOMAIN ss = 1..n, NEW root \in 1..n,
           \A j \in 1..n : Range(ss[j].rule.ids) \subseteq 1..n
    PROVE  /\ Required(ss, root) \in SUBSET (1..n) /\ root \in Required(ss, root)
           /\ \A j \in Required(ss, root) : Range(ss[j].rule.ids) \subseteq Required(ss, root)
  BY DEF Required

\* Steps and derivations with claims from C.
StepsOver(C) == [id : Nat, rule : Rules, claim : C]
Derivations(C) == [root : Nat, steps : Seq(StepsOver(C))]

\* The references of a step that holds are earlier steps.
LEMMA EarlierSteps ==
    ASSUME NEW ss, Holds(ss), NEW i \in DOMAIN ss
    PROVE  /\ Premises(ss[i].rule.ids, i, ClaimsBefore(ss, i))
           /\ Range(ss[i].rule.ids) \subseteq 1..(i - 1)
           /\ check_rule_application(ss[i].rule, i, ClaimsBefore(ss, i)) = {ss[i].claim}
<1>1. check_rule_application(ss[i].rule, i, ClaimsBefore(ss, i)) = {ss[i].claim}
  BY DEF Holds, StepHolds
<1>2. Premises(ss[i].rule.ids, i, ClaimsBefore(ss, i))
  BY <1>1 DEF check_rule_application
<1>3. DOMAIN ClaimsBefore(ss, i) = 1..(i - 1)
  BY DEF ClaimsBefore
<1> QED
  BY <1>1, <1>2, <1>3 DEF Premises

\* Renumbering keeps everything of a rule but its references.
LEMMA RemapRule ==
    ASSUME NEW rule \in Rules, NEW R, \A i \in Nat : NewId(R, i) \in Nat
    PROVE  /\ remap_rule(rule, R) \in Rules
           /\ remap_rule(rule, R).name = rule.name
           /\ remap_rule(rule, R).args = rule.args
           /\ DOMAIN remap_rule(rule, R).ids = DOMAIN rule.ids
           /\ \A j \in DOMAIN rule.ids : remap_rule(rule, R).ids[j] = NewId(R, rule.ids[j])
<1> DEFINE new == [j \in DOMAIN rule.ids |-> NewId(R, rule.ids[j])]
<1>1. rule = Rule(rule.name, rule.ids, rule.args)
  BY RemoteAssumption, RulesAre DEF Rule
<1>2. remap_rule(rule, R) = [rule EXCEPT !.ids = new]
  BY DEF remap_rule
<1> HIDE DEF new
<1>3. remap_rule(rule, R) = Rule(rule.name, new, rule.args)
  BY <1>1, <1>2 DEF Rule
<1>4. /\ remap_rule(rule, R).name = rule.name
      /\ remap_rule(rule, R).args = rule.args
      /\ remap_rule(rule, R).ids = new
  BY <1>3 DEF Rule
<1>5. remap_rule(rule, R) \in Rules
  <2>1. CASE rule \in Axioms
    <3>1. rule.ids = <<>>
      BY <2>1, RemoteAssumption DEF Rule
    <3>2. new = <<>>
      BY <3>1 DEF new
    <3> QED
      BY <1>1, <1>3, <2>1, <3>1, <3>2, RulesAre
  <2>2. rule.ids \in One => new \in One
    BY DEF One, new
  <2>3. rule.ids \in Two => new \in Two
    BY DEF Two, new
  <2>4. CASE rule \notin Axioms
    BY <1>3, <2>2, <2>3, <2>4, RulesAre DEF Rule
  <2> QED
    BY <2>1, <2>4
<1> QED
  BY <1>4, <1>5 DEF new

\* An export is a derivation and the verifier accepts it for the exported
\* step's claim: in the slice every premise precedes its step, renumbering
\* keeps the order, and a rule looks at nothing but its premises.
LEMMA ExportVerifies ==
    ASSUME NEW C, NEW ss \in Seq(StepsOver(C)), Holds(ss), NEW root \in DOMAIN ss
    PROVE  /\ export_derivation(ss, root) \in Derivations(C)
           /\ verify_derivation_independent(export_derivation(ss, root)) = {ss[root].claim}
<1> DEFINE n == Len(ss)
           R == Required(ss, root)
           K == Cardinality(R)
           Old(k) == CHOOSE i \in R : NewId(R, i) = k
           S(k) == [id |-> k, rule |-> remap_rule(ss[Old(k)].rule, R), claim |-> ss[Old(k)].claim]
           es == [k \in 1..K |-> S(k)]
           d == export_derivation(ss, root)
<1>1. n \in Nat /\ DOMAIN ss = 1..n
  OBVIOUS
<1>2. \A j \in 1..n : Range(ss[j].rule.ids) \subseteq 1..(j - 1)
  BY <1>1, EarlierSteps
<1>3. R \in SUBSET (1..n) /\ root \in R /\ \A j \in R : Range(ss[j].rule.ids) \subseteq R
  <2>1. \A j \in 1..n : 1..(j - 1) \subseteq 1..n
    BY <1>1
  <2>2. \A j \in 1..n : Range(ss[j].rule.ids) \subseteq 1..n
    BY <1>2, <2>1
  <2> QED
    BY <1>1, <2>2, Slice
<1>4. d.root = NewId(R, root) /\ d.steps = es /\ d = [root |-> NewId(R, root), steps |-> es]
  BY DEF export_derivation
<1> HIDE DEF n, R, d
<1>5. /\ K \in Nat /\ \A i \in Nat : NewId(R, i) \in Nat
      /\ \A i \in R : NewId(R, i) \in 1..K
      /\ \A i, j \in R : i < j => NewId(R, i) < NewId(R, j)
      /\ \A i, j \in R : NewId(R, i) = NewId(R, j) => i = j
      /\ \A k \in 1..K : \E i \in R : NewId(R, i) = k
  BY <1>1, <1>3, Renumbering
<1> HIDE DEF K
<1>6. \A k \in 1..K : Old(k) \in R /\ NewId(R, Old(k)) = k
  BY <1>5
<1>7. \A i \in R : Old(NewId(R, i)) = i
  BY <1>5, <1>6
<1> HIDE DEF Old
<1>8. \A k \in 1..K : /\ Old(k) \in DOMAIN ss /\ ss[Old(k)].rule \in Rules
                      /\ ss[Old(k)].claim \in C
  <2>1. \A i \in 1..n : ss[i] \in StepsOver(C)
    BY <1>1
  <2>2. \A i \in 1..n : ss[i].rule \in Rules /\ ss[i].claim \in C
    BY <2>1 DEF StepsOver
  <2>3. \A k \in 1..K : Old(k) \in 1..n
    BY <1>3, <1>6
  <2> QED
    BY <1>1, <2>2, <2>3
<1>9. \A k \in 1..K : /\ es[k].id = k /\ es[k].claim = ss[Old(k)].claim
                      /\ es[k].rule = remap_rule(ss[Old(k)].rule, R)
  OBVIOUS
<1>10. es \in Seq(StepsOver(C)) /\ DOMAIN es = 1..K
  <2>1. \A k \in 1..K : S(k) \in StepsOver(C)
    <3> SUFFICES ASSUME NEW k \in 1..K PROVE S(k) \in StepsOver(C)
      OBVIOUS
    <3>1. ss[Old(k)].rule \in Rules /\ ss[Old(k)].claim \in C /\ k \in Nat
      BY <1>5, <1>8
    <3>2. remap_rule(ss[Old(k)].rule, R) \in Rules
      BY <1>5, <3>1, RemapRule
    <3> QED
      BY <3>1, <3>2 DEF StepsOver
  <2> HIDE DEF S
  <2>2. es \in [1..K -> StepsOver(C)]
    BY <2>1
  <2> HIDE DEF es
  <2> QED
    BY <1>5, <2>2, FunctionSeq
<1> HIDE DEF es
<1>11. ASSUME NEW k \in 1..K PROVE StepHolds(es[k], k, ClaimsBefore(es, k))
  <2> DEFINE o == Old(k)
             rule == ss[o].rule
             other == es[k].rule
             claims == ClaimsBefore(ss, o)
             prior == ClaimsBefore(es, k)
  <2>1. o \in R /\ o \in DOMAIN ss /\ rule \in Rules /\ NewId(R, o) = k
    BY <1>6, <1>8
  <2>2. /\ Premises(rule.ids, o, claims) /\ Range(rule.ids) \subseteq 1..(o - 1)
        /\ check_rule_application(rule, o, claims) = {ss[o].claim}
    BY <2>1, EarlierSteps
  <2>3. /\ other.name = rule.name /\ other.args = rule.args
        /\ DOMAIN other.ids = DOMAIN rule.ids
        /\ \A m \in DOMAIN rule.ids : other.ids[m] = NewId(R, rule.ids[m])
    <3>1. other = remap_rule(rule, R)
      BY <1>9
    <3> HIDE DEF other, rule
    <3>2. \A i \in Nat : NewId(R, i) \in Nat
      BY <1>5
    <3>3. /\ remap_rule(rule, R).name = rule.name
          /\ remap_rule(rule, R).args = rule.args
          /\ DOMAIN remap_rule(rule, R).ids = DOMAIN rule.ids
          /\ \A m \in DOMAIN rule.ids : remap_rule(rule, R).ids[m] = NewId(R, rule.ids[m])
      BY <2>1, <3>2, RemapRule
    <3> QED
      BY <3>1, <3>3, Zenon
  <2>4. ASSUME NEW m \in DOMAIN rule.ids
        PROVE  /\ other.ids[m] < k /\ other.ids[m] \in DOMAIN prior
               /\ prior[other.ids[m]] = claims[rule.ids[m]]
    <3> DEFINE i == rule.ids[m]
    <3>1. i \in R /\ i \in 1..(o - 1)
      BY <1>3, <2>1, <2>2 DEF Range
    <3>2. o \in Nat /\ i \in Nat /\ i < o
      BY <1>1, <2>1, <3>1
    <3> HIDE DEF i, o
    <3>3. NewId(R, i) < k /\ NewId(R, i) \in 1..K
      <4>1. NewId(R, i) < NewId(R, o)
        BY <1>5, <2>1, <3>1, <3>2
      <4> QED
        BY <1>5, <2>1, <3>1, <4>1
    <3>4. NewId(R, i) \in 1..(k - 1)
      BY <1>5, <3>3
    <3>5. NewId(R, i) \in DOMAIN prior /\ prior[NewId(R, i)] = es[NewId(R, i)].claim
      BY <3>4 DEF ClaimsBefore
    <3>6. es[NewId(R, i)].claim = ss[i].claim
      BY <1>7, <1>9, <3>1, <3>3
    <3>7. claims[i] = ss[i].claim
      BY <3>1 DEF ClaimsBefore
    <3> QED
      BY <2>3, <3>3, <3>5, <3>6, <3>7 DEF i
  <2> HIDE DEF rule, other, claims, prior, o
  <2>5. check_rule_application(other, k, prior) = {ss[o].claim}
    BY <2>2, <2>3, <2>4, Locality
  <2>6. es[k].id = k /\ es[k].claim = ss[o].claim
    BY <1>9 DEF o
  <2> QED
    BY <2>5, <2>6 DEF StepHolds, other, prior
<1>12. d.root \in 1..K /\ d.root \in Nat /\ es[d.root].claim = ss[root].claim
  <2>1. d.root \in 1..K /\ Old(d.root) = root
    BY <1>3, <1>4, <1>5, <1>7, Zenon
  <2>2. \A r \in 1..K : r \in Nat
    BY <1>5
  <2>3. es[d.root].claim = ss[Old(d.root)].claim
    BY <1>9, <2>1, Zenon
  <2> QED
    BY <2>1, <2>2, <2>3, Zenon
<1>13. verify_derivation_independent(d) = {ss[root].claim}
  <2>1. \A k \in DOMAIN d.steps : StepHolds(d.steps[k], k, ClaimsBefore(d.steps, k))
    BY <1>4, <1>10, <1>11
  <2> QED
    BY <1>4, <1>10, <1>12, <2>1 DEF verify_derivation_independent
<1>14. d \in Derivations(C)
  BY <1>4, <1>10, <1>12 DEF Derivations
<1> QED
  BY <1>13, <1>14 DEF d

\* A rule with another reference is a rule.
LEMMA NewReference ==
    ASSUME NEW rule \in Rules, NEW j \in DOMAIN rule.ids, NEW i \in Nat
    PROVE  [rule EXCEPT !.ids[j] = i] \in Rules
<1> DEFINE new == [rule.ids EXCEPT ![j] = i]
<1>1. rule = Rule(rule.name, rule.ids, rule.args)
  BY RemoteAssumption, RulesAre DEF Rule
<1>2. [rule EXCEPT !.ids[j] = i] = [rule EXCEPT !.ids = new]
  OBVIOUS
<1>3. rule \notin Axioms
  <2>1. rule \in Axioms => rule.ids = <<>>
    BY RemoteAssumption DEF Rule
  <2> QED
    BY <2>1
<1>4. rule.ids \in One => new \in One
  BY DEF One
<1>5. rule.ids \in Two => new \in Two
  BY DEF Two
<1> HIDE DEF new
<1>6. [rule EXCEPT !.ids = new] = Rule(rule.name, new, rule.args)
  BY <1>1 DEF Rule
<1>7. Rule(rule.name, new, rule.args) \in Rules
  BY <1>3, <1>4, <1>5, RulesAre DEF Rule
<1> QED
  BY <1>2, <1>6, <1>7

\* A sequence of steps with another step is one.
LEMMA NewStep ==
    ASSUME NEW C, NEW ss \in Seq(StepsOver(C)), NEW k \in 1..Len(ss), NEW s \in StepsOver(C)
    PROVE  [ss EXCEPT ![k] = s] \in Seq(StepsOver(C))
<1>1. ss \in [1..Len(ss) -> StepsOver(C)] /\ Len(ss) \in Nat
  OBVIOUS
<1>2. [ss EXCEPT ![k] = s] \in [1..Len(ss) -> StepsOver(C)]
  BY <1>1
<1> QED
  BY <1>1, <1>2, FunctionSeq

\* A damaged derivation still consists of rules: only that they hold is lost.
LEMMA DamagedShape ==
    ASSUME NEW C, Assignments \subseteq C, NEW d \in Derivations(C), NEW e \in Damaged(d)
    PROVE  e \in Derivations(C)
<1> DEFINE ss == d.steps
           n == Len(ss)
<1>1. /\ ss \in Seq(StepsOver(C)) /\ n \in Nat /\ d.root \in Nat
      /\ d = [root |-> d.root, steps |-> ss]
  BY DEF Derivations
<1>2. \A k \in 1..n : ss[k] \in StepsOver(C)
  BY <1>1
<1> HIDE DEF ss
<1>3. ASSUME NEW t \in Seq(StepsOver(C)) PROVE [d EXCEPT !.steps = t] \in Derivations(C)
  BY <1>1 DEF Derivations
<1>4. CASE \E r \in 1..(n + 1) : e = [d EXCEPT !.root = r]
  BY <1>1, <1>4 DEF Derivations
<1>5. ASSUME NEW k \in 1..n, NEW c \in Assignments, e = [d EXCEPT !.steps[k].claim = c]
      PROVE  e \in Derivations(C)
  <2> DEFINE s == [ss[k] EXCEPT !.claim = c]
  <2>1. s \in StepsOver(C)
    BY <1>2, <1>5 DEF StepsOver
  <2>2. e = [d EXCEPT !.steps = [ss EXCEPT ![k] = s]]
    BY <1>5 DEF ss
  <2> HIDE DEF s
  <2>3. [ss EXCEPT ![k] = s] \in Seq(StepsOver(C))
    BY <1>1, <2>1, NewStep
  <2> QED
    BY <1>3, <2>2, <2>3
<1>6. ASSUME NEW k \in 1..n, NEW j \in DOMAIN ss[k].rule.ids, NEW i \in 1..(n + 1),
             e = [d EXCEPT !.steps[k].rule.ids[j] = i]
      PROVE  e \in Derivations(C)
  <2> DEFINE r == [ss[k].rule EXCEPT !.ids[j] = i]
             s == [ss[k] EXCEPT !.rule = r]
  <2>1. ss[k] \in StepsOver(C) /\ ss[k].rule \in Rules /\ i \in Nat
    BY <1>1, <1>2 DEF StepsOver
  <2>2. r \in Rules
    BY <2>1, NewReference
  <2>3. e = [d EXCEPT !.steps = [ss EXCEPT ![k] = s]]
    BY <1>6 DEF ss
  <2> HIDE DEF r
  <2>4. s \in StepsOver(C)
    BY <2>1, <2>2 DEF StepsOver
  <2> HIDE DEF s
  <2>5. [ss EXCEPT ![k] = s] \in Seq(StepsOver(C))
    BY <1>1, <2>4, NewStep
  <2> QED
    BY <1>3, <2>3, <2>5
<1>7. ASSUME NEW k \in 1..n, NEW j \in 1..n,
             e = [d EXCEPT !.steps[k] = d.steps[j], !.steps[j] = d.steps[k]]
      PROVE  e \in Derivations(C)
  <2> DEFINE t == [ss EXCEPT ![k] = ss[j]]
  <2>1. k \in 1..n /\ j \in 1..n
    BY <1>1
  <2>2. e = [d EXCEPT !.steps = [t EXCEPT ![j] = ss[k]]]
    BY <1>1, <1>7 DEF ss
  <2>3. t \in Seq(StepsOver(C)) /\ Len(t) = n
    <3>1. t \in Seq(StepsOver(C))
      BY <1>1, <1>2, <2>1, NewStep
    <3>2. Len(t) = n
      BY <1>1
    <3> QED
      BY <3>1, <3>2
  <2> HIDE DEF t
  <2>4. [t EXCEPT ![j] = ss[k]] \in Seq(StepsOver(C))
    BY <1>2, <2>1, <2>3, NewStep
  <2> QED
    BY <1>3, <2>2, <2>4
<1>8. CASE e = [d EXCEPT !.steps = SubSeq(@, 2, Len(@))]
  <2>1. SubSeq(ss, 2, n) \in Seq(StepsOver(C))
    BY <1>1, SubSeqProperties
  <2>2. e = [d EXCEPT !.steps = SubSeq(ss, 2, n)]
    BY <1>8 DEF ss
  <2> QED
    BY <1>3, <2>1, <2>2
<1>9. DOMAIN d.steps = 1..n /\ Len(d.steps) = n
  BY <1>1 DEF ss
<1>10. e \in OtherRoot(d) => e \in Derivations(C)
  BY <1>4, <1>9, Zenon DEF OtherRoot
<1>11. e \in OtherClaim(d) => e \in Derivations(C)
  <2> SUFFICES ASSUME e \in OtherClaim(d) PROVE e \in Derivations(C)
    OBVIOUS
  <2>1. PICK k \in DOMAIN d.steps : e \in {[d EXCEPT !.steps[k].claim = c] : c \in Assignments}
    BY Zenon DEF OtherClaim
  <2>2. PICK c \in Assignments : e = [d EXCEPT !.steps[k].claim = c]
    BY <2>1, Zenon
  <2>3. k \in 1..n
    BY <1>9
  <2> QED
    BY <1>5, <2>2, <2>3, Zenon
<1>12. e \in OtherReference(d) => e \in Derivations(C)
  <2> SUFFICES ASSUME e \in OtherReference(d) PROVE e \in Derivations(C)
    OBVIOUS
  <2>1. PICK k \in DOMAIN d.steps :
           e \in UNION {{[d EXCEPT !.steps[k].rule.ids[j] = i] : i \in 1..(Len(d.steps) + 1)} :
                          j \in DOMAIN d.steps[k].rule.ids}
    BY Zenon DEF OtherReference
  <2>2. PICK j \in DOMAIN d.steps[k].rule.ids :
           e \in {[d EXCEPT !.steps[k].rule.ids[j] = i] : i \in 1..(Len(d.steps) + 1)}
    BY <2>1, Zenon
  <2>3. PICK i \in 1..(Len(d.steps) + 1) : e = [d EXCEPT !.steps[k].rule.ids[j] = i]
    BY <2>2, Zenon
  <2>4. k \in 1..n /\ i \in 1..(n + 1) /\ j \in DOMAIN ss[k].rule.ids
    BY <1>9 DEF ss
  <2> QED
    BY <1>6, <2>3, <2>4, Zenon
<1>13. e \in OtherOrder(d) => e \in Derivations(C)
  <2> SUFFICES ASSUME e \in OtherOrder(d) PROVE e \in Derivations(C)
    OBVIOUS
  <2>1. PICK k \in DOMAIN d.steps :
           e \in {[d EXCEPT !.steps[k] = d.steps[j], !.steps[j] = d.steps[k]] : j \in DOMAIN d.steps}
    BY Zenon DEF OtherOrder
  <2>2. PICK j \in DOMAIN d.steps :
           e = [d EXCEPT !.steps[k] = d.steps[j], !.steps[j] = d.steps[k]]
    BY <2>1, Zenon
  <2>3. k \in 1..n /\ j \in 1..n
    BY <1>9
  <2> QED
    BY <1>7, <2>2, <2>3, Zenon
<1>14. e \in LostStep(d) => e \in Derivations(C)
  BY <1>8, <1>9, Zenon DEF LostStep
<1> QED
  BY <1>10, <1>11, <1>12, <1>13, <1>14 DEF Damaged

\* A rule establishes one claim at most.
LEMMA EstablishedOnce ==
    ASSUME NEW name, NEW args, NEW l, NEW r, NEW c \in Established(name, args, l, r)
    PROVE  Established(name, args, l, r) = {c}
  BY DEF Established, Chained

\* So does its checked application.
LEMMA CheckedOnce ==
    ASSUME NEW rule, NEW current, NEW claims,
           NEW c \in check_rule_application(rule, current, claims)
    PROVE  check_rule_application(rule, current, claims) = {c}
<1> DEFINE l == [k \in DOMAIN rule.ids |-> claims[rule.ids[k]].lhs]
           r == [k \in DOMAIN rule.ids |-> claims[rule.ids[k]].rhs]
<1>1. /\ c \in Established(rule.name, rule.args, l, r)
      /\ check_rule_application(rule, current, claims) = Established(rule.name, rule.args, l, r)
  <2>1. Premises(rule.ids, current, claims)
    BY DEF check_rule_application
  <2> QED
    BY <2>1, Zenon DEF check_rule_application
<1> HIDE DEF l, r
<1> QED
  BY <1>1, EstablishedOnce, Zenon

\* Whatever the worker tries is a rule.
LEMMA TriedRules ==
    ASSUME NEW S \in SUBSET Nat, NEW rule \in RulesOver(S)
    PROVE  rule \in Rules
<1>1. [1..1 -> S] \subseteq One /\ [1..2 -> S] \subseteq Two
  BY DEF One, Two
<1> DEFINE F == {<<f>> : f \in FunctionNames}
<1>2. rule \in Axioms
         \cup [name : {"Symmetry"}, ids : [1..1 -> S], args : {<<>>}]
         \cup [name : BinaryRules, ids : [1..2 -> S], args : {<<>>}]
         \cup [name : {"CongruenceFunction"}, ids : [1..1 -> S], args : F]
         \cup [name : {"Substitution"}, ids : [1..1 -> S], args : Templates]
  BY Zenon DEF RulesOver
<1> QED
  BY <1>1, <1>2, RulesAre

\* The kernel's steps hold, and their claims come from some set.
KernelInv ==
    /\ Holds(steps)
    /\ \E C : Assignments \subseteq C /\ steps \in Seq(StepsOver(C))

\* An empty kernel holds.
LEMMA KernelInit == RInit => KernelInv
<1> SUFFICES ASSUME RInit PROVE KernelInv
  OBVIOUS
<1>1. steps = <<>> /\ DOMAIN steps = 1..0
  BY DEF RInit
<1>2. Holds(steps)
  BY <1>1 DEF Holds
<1>3. steps \in Seq(StepsOver(Assignments))
  BY <1>1
<1> QED
  BY <1>2, <1>3 DEF KernelInv

\* A step more: the claims before the other steps are what they were.
LEMMA Grown ==
    ASSUME NEW C, NEW ss \in Seq(StepsOver(C)), Holds(ss), NEW rule \in Rules,
           NEW claim \in check_rule_application(rule, Len(ss) + 1, ClaimsBefore(ss, Len(ss) + 1))
    PROVE  LET new == [id |-> Len(ss) + 1, rule |-> rule, claim |-> claim]
           IN  /\ Append(ss, new) \in Seq(StepsOver(C \cup {claim}))
               /\ Holds(Append(ss, new))
<1> DEFINE n == Len(ss)
           new == [id |-> n + 1, rule |-> rule, claim |-> claim]
           gs == Append(ss, new)
<1>1. n \in Nat /\ DOMAIN ss = 1..n /\ \A k \in 1..n : ss[k] \in StepsOver(C)
  OBVIOUS
<1>2. ss \in Seq(StepsOver(C \cup {claim}))
  <2>1. StepsOver(C) \subseteq StepsOver(C \cup {claim})
    BY DEF StepsOver
  <2>2. ss \in [1..n -> StepsOver(C)]
    OBVIOUS
  <2>3. ss \in [1..n -> StepsOver(C \cup {claim})]
    BY <2>1, <2>2
  <2> QED
    BY <1>1, <2>3, FunctionSeq
<1>3. new \in StepsOver(C \cup {claim})
  BY <1>1 DEF StepsOver
<1>4. /\ new.id = n + 1 /\ new.rule = rule /\ new.claim = claim
  OBVIOUS
<1> HIDE DEF new
<1>5. /\ gs \in Seq(StepsOver(C \cup {claim})) /\ Len(gs) = n + 1 /\ DOMAIN gs = 1..(n + 1)
      /\ gs[n + 1] = new /\ \A k \in 1..n : gs[k] = ss[k]
  BY <1>1, <1>2, <1>3
<1> HIDE DEF gs
<1>6. \A i \in 1..(n + 1) : ClaimsBefore(gs, i) = ClaimsBefore(ss, i)
  <2> SUFFICES ASSUME NEW i \in 1..(n + 1) PROVE ClaimsBefore(gs, i) = ClaimsBefore(ss, i)
    OBVIOUS
  <2>1. \A j \in 1..(i - 1) : j \in 1..n
    BY <1>1
  <2>2. \A j \in 1..(i - 1) : gs[j].claim = ss[j].claim
    BY <1>5, <2>1
  <2> QED
    BY <2>2 DEF ClaimsBefore
<1>7. ASSUME NEW i \in DOMAIN gs
      PROVE  gs[i].rule \in Rules /\ StepHolds(gs[i], i, ClaimsBefore(gs, i))
  <2>1. CASE i = n + 1
    <3>1. check_rule_application(rule, n + 1, ClaimsBefore(ss, n + 1)) = {claim}
      BY CheckedOnce
    <3>2. ClaimsBefore(gs, n + 1) = ClaimsBefore(ss, n + 1)
      BY <1>1, <1>6
    <3> QED
      BY <1>4, <1>5, <2>1, <3>1, <3>2 DEF StepHolds
  <2>2. CASE i \in 1..n
    <3>1. gs[i] = ss[i] /\ ClaimsBefore(gs, i) = ClaimsBefore(ss, i)
      BY <1>1, <1>5, <1>6, <2>2
    <3> QED
      BY <1>1, <2>2, <3>1 DEF Holds
  <2> QED
    BY <1>1, <1>5, <2>1, <2>2
<1>8. Holds(gs)
  BY <1>1, <1>5, <1>7 DEF Holds
<1> QED
  BY <1>5, <1>8 DEF gs, new

\* Adding a step keeps it so; the coordinator does not touch the kernel.
LEMMA KernelNext == KernelInv /\ [RNext]_remoteVars => KernelInv'
<1> SUFFICES ASSUME KernelInv, [RNext]_remoteVars PROVE KernelInv'
  OBVIOUS
<1>1. CASE steps' = steps
  BY <1>1 DEF KernelInv
<1>2. ASSUME NEW rule \in RulesOver(DOMAIN steps), add_step(rule) PROVE KernelInv'
  <2>1. PICK C : Assignments \subseteq C /\ steps \in Seq(StepsOver(C))
    BY DEF KernelInv
  <2>2. DOMAIN steps \in SUBSET Nat
    BY <2>1
  <2>3. rule \in Rules
    BY <2>2, TriedRules
  <2> DEFINE n == Len(steps) + 1
  <2>4. PICK claim \in check_rule_application(rule, n, ClaimsBefore(steps, n)) :
           steps' = Append(steps, [id |-> n, rule |-> rule, claim |-> claim])
    BY <1>2 DEF add_step, NextId
  <2>5. Holds(steps)
    BY DEF KernelInv
  <2>6. steps' \in Seq(StepsOver(C \cup {claim})) /\ Holds(steps')
    BY <2>1, <2>3, <2>4, <2>5, Grown
  <2>7. Assignments \subseteq C \cup {claim}
    BY <2>1
  <2> QED
    BY <2>6, <2>7 DEF KernelInv
<1>3. CASE \E c \in Candidates : accept_once(c)
  BY <1>1, <1>3 DEF accept_once
<1>4. CASE cancel_assignment
  BY <1>1, <1>4 DEF cancel_assignment
<1>5. CASE UNCHANGED remoteVars
  BY <1>1, <1>5 DEF remoteVars
<1> QED
  BY <1>2, <1>3, <1>4, <1>5 DEF RNext

\* The inductive invariant of the worker's kernel.
LEMMA KernelInvariance == RSpec => []KernelInv
<1> QED
  BY KernelInit, KernelNext, PTL DEF RSpec

\* Whatever derivation an answer carries, what the verifier says it proves is
\* valid if it names no wrong reduction.
LEMMA AnswerSound ==
    ASSUME NEW Exprs, Semantics(Exprs), KernelInv, NEW i \in DOMAIN steps,
           NEW d \in {export_derivation(steps, i)} \cup Damaged(export_derivation(steps, i)),
           NamesNoWrong(d),
           NEW c \in verify_derivation_independent(d)
    PROVE  Valid(c, Environments)
<1>1. PICK C : Assignments \subseteq C /\ steps \in Seq(StepsOver(C))
  BY DEF KernelInv
<1>2. Holds(steps)
  BY DEF KernelInv
<1>3. export_derivation(steps, i) \in Derivations(C)
  BY <1>1, <1>2, ExportVerifies
<1>4. d \in Derivations(C)
  BY <1>1, <1>3, DamagedShape
<1>5. /\ Len(d.steps) \in Nat /\ DOMAIN d.steps = 1..Len(d.steps)
      /\ \A k \in 1..Len(d.steps) : d.steps[k].rule \in Rules
  <2>1. d.steps \in Seq(StepsOver(C))
    BY <1>4 DEF Derivations
  <2>2. \A k \in 1..Len(d.steps) : d.steps[k] \in StepsOver(C)
    BY <2>1
  <2> QED
    BY <2>1, <2>2 DEF StepsOver
<1>6. Good(Exprs, c)
  BY <1>5, VerifiedSound
<1> QED
  BY <1>6 DEF Good

\* Whatever rules the worker applies in whatever order, and whatever the
\* reductions claim, a step the kernel (ProofKernel::add_step) records is true
\* wherever the context holds unless a wrong reduction is in its own slice.
THEOREM SliceSoundHolds ==
    ASSUME NEW Exprs, Semantics(Exprs)
    PROVE  RSpec => []SliceSound
<1>1. KernelInv => SliceSound
  <2> SUFFICES ASSUME KernelInv, NEW i \in DOMAIN steps,
                      \A j \in Required(steps, i) : steps[j].rule \notin Wrong
               PROVE  Valid(steps[i].claim, Environments)
    BY DEF SliceSound
  <2>1. Holds(steps)
    BY DEF KernelInv
  <2>2. PICK n \in Nat : DOMAIN steps = 1..n
    BY <2>1 DEF Holds
  <2>3. \A j \in 1..n : Range(steps[j].rule.ids) \subseteq 1..n
    BY <2>1, <2>2, KnownSteps
  <2>4. /\ Required(steps, i) \in SUBSET (1..n) /\ i \in Required(steps, i)
        /\ \A j \in Required(steps, i) :
              Range(steps[j].rule.ids) \subseteq Required(steps, i)
    BY <2>2, <2>3, Slice
  <2>5. \A j \in Required(steps, i) :
           Computed(steps[j].rule) => Valid(steps[j].claim, Environments)
    BY <2>1, <2>2, <2>4, RightClaim
  <2>6. Good(Exprs, steps[i].claim)
    BY <2>1, <2>2, <2>4, <2>5, DerivationSound
  <2> QED
    BY <2>6 DEF Good
<1> QED
  BY <1>1, KernelInvariance, PTL

\* verify_derivation_independent accepts every export_derivation for exactly
\* the exported claim, and accepts no damaged one for a claim that is false
\* unless it names a wrong reduction.
THEOREM VerifierExactHolds ==
    ASSUME NEW Exprs, Semantics(Exprs)
    PROVE  RSpec => []VerifierExact
<1>1. KernelInv => VerifierExact
  <2> SUFFICES ASSUME KernelInv, NEW i \in DOMAIN steps
               PROVE  /\ verify_derivation_independent(export_derivation(steps, i)) = {steps[i].claim}
                      /\ \A d \in Damaged(export_derivation(steps, i)) :
                            \A claim \in verify_derivation_independent(d) :
                                NamesNoWrong(d) => Valid(claim, Environments)
    BY DEF VerifierExact
  <2>1. verify_derivation_independent(export_derivation(steps, i)) = {steps[i].claim}
    BY ExportVerifies DEF KernelInv
  <2> QED
    BY <2>1, AnswerSound
<1> QED
  BY <1>1, KernelInvariance, PTL

\* What accept_once accepts is the assigned claim with its own result, proved by
\* the derivation its receipt stands for and true unless that names a wrong
\* reduction: whether the answer came late, twice or damaged.
THEOREM AcceptedAnswersAssignmentHolds ==
    ASSUME NEW Exprs, Semantics(Exprs)
    PROVE  RSpec => []AcceptedAnswersAssignment
<1>1. RInit => AcceptedAnswersAssignment
  BY DEF RInit, None, AcceptedAnswersAssignment
<1>2. KernelInv /\ AcceptedAnswersAssignment /\ [RNext]_remoteVars => AcceptedAnswersAssignment'
  <2> SUFFICES ASSUME KernelInv, AcceptedAnswersAssignment, [RNext]_remoteVars
               PROVE  AcceptedAnswersAssignment'
    OBVIOUS
  <2>1. CASE UNCHANGED <<accepted, expected_claim>>
    BY <2>1 DEF AcceptedAnswersAssignment
  <2>2. ASSUME NEW c \in Candidates, accept_once(c) PROVE AcceptedAnswersAssignment'
    <3>1. PICK i \in DOMAIN steps :
             c.derivation \in {export_derivation(steps, i)} \cup Damaged(export_derivation(steps, i))
      BY DEF Candidates, Candidate
    <3>2. /\ c.task_id = Task /\ c.claim = expected_claim /\ claimed_result(c.claim) = c.result
          /\ verify_derivation_independent(c.derivation) = {c.claim}
      BY <2>2 DEF accept_once, verify_remote_candidate
    <3>3. NamesNoWrong(c.derivation) => Valid(c.claim, Environments)
      BY <3>1, <3>2, AnswerSound
    <3>4. /\ accepted' = {[task_id |-> c.task_id, claim |-> c.claim, result |-> c.result,
                           receipt |-> c.derivation]}
          /\ expected_claim' = expected_claim
      BY <2>2 DEF accept_once
    <3> QED
      BY <3>2, <3>3, <3>4 DEF AcceptedAnswersAssignment
  <2>3. ASSUME NEW rule, add_step(rule) PROVE AcceptedAnswersAssignment'
    BY <2>1, <2>3 DEF add_step
  <2>4. CASE cancel_assignment
    BY <2>1, <2>4 DEF cancel_assignment
  <2>5. CASE UNCHANGED remoteVars
    BY <2>1, <2>5 DEF remoteVars
  <2> QED
    BY <2>2, <2>3, <2>4, <2>5 DEF RNext
<1> QED
  BY <1>1, <1>2, KernelInvariance, PTL DEF RSpec
=============================================================================

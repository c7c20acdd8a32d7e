------------------------ MODULE CallbackSessionProofs ------------------------
(***************************************************************************)
(* Proofs about CallbackSession.                                           *)
(*                                                                         *)
(* That a keyed effect starts once does not follow from the bookkeeping    *)
(* alone: the admission test looks only at the effects in flight and at    *)
(* the cached ones, and a failed effect is in neither.  What closes the    *)
(* gap is that a failure taints the session (EndsKnown).                   *)
(***************************************************************************)
EXTENDS CallbackSession, FiniteSetTheorems, SequenceTheorems, TLAPS

Records == [key : AnyKey, outcome : Outcomes]
Calls   == [key : AnyKey, counted : BOOLEAN, step : Steps]

TypeOK ==
  /\ {current_reentrancy_depth, invocations, consumed_nested_steps, granted_steps} \subseteq Nat
  /\ cancelled \in BOOLEAN /\ unknown_effect_tainted \in BOOLEAN
  /\ executed_effects \in SUBSET Keys /\ in_flight_effects \in SUBSET Keys
  /\ effect_trace \in Seq(Records)
  /\ stack \in Seq(Calls)

\* The records of calls that have ended.
Ended(i) == effect_trace[i].outcome \in {"ok", "error"}
Ends     == {i \in DOMAIN effect_trace : Ended(i)}

Accounts ==
  /\ current_reentrancy_depth = Len(stack)
  /\ in_flight_effects = {stack[i].key : i \in DOMAIN stack} \cap Keys
  /\ Len(effect_trace) + Len(stack) <= MaxTrace
  /\ invocations = Len(stack) + Cardinality(Ends)

StepsCounted == granted_steps <= consumed_nested_steps /\ granted_steps <= MaxNestedSteps

\* A failed effect taints the session, a completed one is cached.
EndsKnown ==
  \A i \in DOMAIN effect_trace :
     /\ effect_trace[i].outcome = "error" => unknown_effect_tainted
     /\ effect_trace[i].outcome = "ok" /\ effect_trace[i].key \in Keys
           => effect_trace[i].key \in executed_effects

\* No keyed effect is under way twice, has ended twice, or runs after its end.
StartedOnce ==
  /\ \A i, j \in DOMAIN stack :
        stack[i].key \in Keys /\ stack[i].key = stack[j].key => i = j
  /\ \A i, j \in DOMAIN effect_trace :
        effect_trace[i].key \in Keys /\ Ended(i) /\ Ended(j)
        /\ effect_trace[i].key = effect_trace[j].key => i = j
  /\ \A i \in DOMAIN effect_trace, j \in DOMAIN stack :
        effect_trace[i].key \in Keys /\ Ended(i) => effect_trace[i].key # stack[j].key

IInv == TypeOK /\ Accounts /\ StepsCounted /\ EndsKnown /\ StartedOnce

-----------------------------------------------------------------------------
(* What an append and a pop do to the trace and to the stack.              *)

\* A record appended by record_trace leaves the earlier ones alone and counts
\* as an end exactly when its outcome is one.
LEMMA RecordAdded ==
  ASSUME TypeOK, NEW key \in AnyKey, NEW o \in Outcomes, record_trace(key, o)
  PROVE  /\ effect_trace' \in Seq(Records)
         /\ DOMAIN effect_trace = 1 .. Len(effect_trace)
         /\ Len(effect_trace) \in Nat
         /\ Len(effect_trace') = Len(effect_trace) + 1
         /\ DOMAIN effect_trace' = 1 .. Len(effect_trace) + 1
         /\ \A i \in DOMAIN effect_trace : effect_trace'[i] = effect_trace[i]
         /\ effect_trace'[Len(effect_trace) + 1].key = key
         /\ effect_trace'[Len(effect_trace) + 1].outcome = o
         /\ Cardinality(Ends) \in Nat
         /\ Cardinality(Ends') = Cardinality(Ends) + IF o \in {"ok", "error"} THEN 1 ELSE 0
<1> DEFINE r == [key |-> key, outcome |-> o]
           n == Len(effect_trace)
<1>1. effect_trace \in Seq(Records) /\ r \in Records /\ effect_trace' = Append(effect_trace, r)
  BY DEF TypeOK, Records, record_trace
<1>2. n \in Nat /\ DOMAIN effect_trace = 1 .. n
  BY <1>1
<1>3. /\ effect_trace' \in Seq(Records) /\ Len(effect_trace') = n + 1
      /\ \A i \in 1 .. n : effect_trace'[i] = effect_trace[i]
      /\ effect_trace'[n + 1] = r
  BY <1>1, <1>2, AppendProperties
<1>4. DOMAIN effect_trace' = 1 .. n + 1
  BY <1>3
<1>5. IsFiniteSet(1 .. n) /\ Ends \subseteq 1 .. n
  BY <1>2, FS_Interval DEF Ends
<1>6. IsFiniteSet(Ends) /\ Cardinality(Ends) \in Nat
  BY <1>5, FS_Subset, FS_CardinalityType
<1>7. CASE o \in {"ok", "error"}
  <2>1. Ends' = Ends \cup {n + 1}
    BY <1>2, <1>3, <1>4, <1>7 DEF Ends, Ended
  <2>2. n + 1 \notin Ends
    BY <1>2 DEF Ends
  <2>3. Cardinality(Ends \cup {n + 1}) = Cardinality(Ends) + 1
    BY <1>6, <2>2, FS_AddElement
  <2> QED BY <1>2, <1>3, <1>4, <1>6, <1>7, <2>1, <2>3
<1>8. CASE o \notin {"ok", "error"}
  <2>1. Ends' = Ends
    BY <1>2, <1>3, <1>4, <1>8 DEF Ends, Ended
  <2> QED BY <1>2, <1>3, <1>4, <1>6, <1>8, <2>1
<1> QED BY <1>7, <1>8

\* Front drops the call on top of the stack.
LEMMA TopRemoved ==
  ASSUME TypeOK, stack # <<>>, stack' = Front(stack)
  PROVE  /\ stack' \in Seq(Calls)
         /\ Len(stack) \in Nat \ {0}
         /\ DOMAIN stack = 1 .. Len(stack)
         /\ Len(stack') = Len(stack) - 1
         /\ DOMAIN stack' = 1 .. Len(stack) - 1
         /\ \A i \in DOMAIN stack' : stack'[i] = stack[i]
         /\ Top = stack[Len(stack)]
         /\ Top \in Calls
<1>1. stack \in Seq(Calls)
  BY DEF TypeOK
<1>2. Len(stack) \in Nat \ {0} /\ DOMAIN stack = 1 .. Len(stack)
  BY <1>1, EmptySeq
<1>3. stack' = SubSeq(stack, 1, Len(stack) - 1)
  BY DEF Front
<1>4. /\ stack' \in Seq(Calls) /\ Len(stack') = Len(stack) - 1
      /\ \A i \in 1 .. Len(stack) - 1 : stack'[i] = stack[i]
  BY <1>1, <1>2, <1>3, SubSeqProperties
<1>5. Top = stack[Len(stack)] /\ Top \in Calls
  BY <1>1, <1>2 DEF Top, Last
<1> QED BY <1>2, <1>4, <1>5

\* A function on 1 .. n is a sequence of length n.
LEMMA FunctionIsSeq ==
  ASSUME NEW S, NEW n \in Nat, NEW f \in [1 .. n -> S]
  PROVE  f \in Seq(S) /\ Len(f) = n /\ DOMAIN f = 1 .. n
OBVIOUS

\* A call on top that moves on to its next step is still the same call.
LEMMA TopMoved ==
  ASSUME TypeOK, stack # <<>>, NEW s \in Steps
  PROVE  stack' = [stack EXCEPT ![Len(stack)].step = s] =>
           /\ stack' \in Seq(Calls) /\ Len(stack') = Len(stack)
           /\ DOMAIN stack' = DOMAIN stack
           /\ \A i \in DOMAIN stack : stack'[i].key = stack[i].key
<1>0. SUFFICES ASSUME stack' = [stack EXCEPT ![Len(stack)].step = s]
               PROVE  /\ stack' \in Seq(Calls) /\ Len(stack') = Len(stack)
                      /\ DOMAIN stack' = DOMAIN stack
                      /\ \A i \in DOMAIN stack : stack'[i].key = stack[i].key
  OBVIOUS
<1>1. stack \in Seq(Calls)
  BY DEF TypeOK
<1>2. Len(stack) \in Nat \ {0} /\ DOMAIN stack = 1 .. Len(stack)
  BY <1>1, EmptySeq
<1>3. \A i \in DOMAIN stack : stack[i] \in Calls
  BY <1>1, <1>2
<1>4. stack' = [i \in 1 .. Len(stack) |->
                  IF i = Len(stack) THEN [stack[i] EXCEPT !.step = s] ELSE stack[i]]
  BY <1>0, <1>2
<1>5. \A i \in DOMAIN stack : stack'[i] \in Calls /\ stack'[i].key = stack[i].key
  BY <1>2, <1>3, <1>4 DEF Calls
<1>6. stack' \in Seq(Calls) /\ Len(stack') = Len(stack) /\ DOMAIN stack' = DOMAIN stack
  <2>1. stack' \in [1 .. Len(stack) -> Calls]
    BY <1>2, <1>4, <1>5
  <2> QED BY <1>2, <2>1, FunctionIsSeq
<1> QED BY <1>5, <1>6

-----------------------------------------------------------------------------
(* The parts of the invariant, one kind of step at a time.                 *)

\* A step that touches neither the calls nor the trace and keeps the taint.
LEMMA QuietStep ==
  ASSUME IInv, unknown_effect_tainted => unknown_effect_tainted',
         UNCHANGED <<current_reentrancy_depth, invocations, executed_effects,
                     in_flight_effects, effect_trace, stack>>
  PROVE  Accounts' /\ EndsKnown' /\ StartedOnce'
<1>1. Accounts'
  BY DEF IInv, Accounts, Ends, Ended
<1>2. EndsKnown'
  BY DEF IInv, EndsKnown
<1>3. StartedOnce'
  BY DEF IInv, StartedOnce, Ended
<1> QED BY <1>1, <1>2, <1>3

\* A refusal is recorded and is the end of no call.
LEMMA RefusedStep ==
  ASSUME IInv, NEW key \in AnyKey, NEW o \in Outcomes \ {"ok", "error"},
         record_trace(key, o), ~ TraceExhausted,
         unknown_effect_tainted => unknown_effect_tainted',
         UNCHANGED <<current_reentrancy_depth, invocations, executed_effects,
                     in_flight_effects, stack>>
  PROVE  Accounts' /\ EndsKnown' /\ StartedOnce'
<1> DEFINE n == Len(effect_trace)
<1>1. /\ DOMAIN effect_trace = 1 .. n /\ n \in Nat /\ Len(effect_trace') = n + 1
      /\ DOMAIN effect_trace' = 1 .. n + 1
      /\ \A i \in DOMAIN effect_trace : effect_trace'[i] = effect_trace[i]
      /\ effect_trace'[n + 1].outcome = o
      /\ Cardinality(Ends') = Cardinality(Ends) /\ Cardinality(Ends) \in Nat
  BY RecordAdded DEF IInv
<1>2. Len(stack) \in Nat /\ MaxTrace \in Nat
  BY CallbackAssumption DEF IInv, TypeOK
<1>3. Accounts'
  BY <1>1, <1>2 DEF IInv, Accounts, TraceExhausted
<1>4. EndsKnown'
  BY <1>1 DEF IInv, EndsKnown
<1>5. StartedOnce'
  <2>1. \A i \in DOMAIN effect_trace' : Ended(i)' => i \in DOMAIN effect_trace /\ Ended(i)
    BY <1>1 DEF Ended
  <2> QED BY <1>1, <2>1 DEF IInv, StartedOnce
<1> QED BY <1>3, <1>4, <1>5

\* A call that starts has an effect that is not under way and has not ended:
\* it is neither in flight nor cached, and nothing has failed.
LEMMA StartStep ==
  ASSUME IInv, NEW key \in AnyKey, NEW counted \in BOOLEAN, InvokeStarts(key, counted)
  PROVE  stack' \in Seq(Calls) /\ Accounts' /\ EndsKnown' /\ StartedOnce'
<1> DEFINE n == Len(stack)
           c == [key |-> key, counted |-> counted, step |-> "callback"]
<1>1. stack \in Seq(Calls) /\ c \in Calls /\ stack' = Append(stack, c)
  BY DEF IInv, TypeOK, InvokeStarts, Started, Calls, Steps
<1>2. n \in Nat /\ DOMAIN stack = 1 .. n
  BY <1>1
<1>3. /\ stack' \in Seq(Calls) /\ Len(stack') = n + 1
      /\ \A i \in 1 .. n : stack'[i] = stack[i]
      /\ stack'[n + 1] = c
  BY <1>1, <1>2, AppendProperties
<1>4. DOMAIN stack' = 1 .. n + 1
  BY <1>3
<1>5. /\ ~ unknown_effect_tainted /\ key \notin in_flight_effects
      /\ key \notin executed_effects /\ ~ TraceExhausted
  BY DEF InvokeStarts, Refusal
<1>6. UNCHANGED <<effect_trace, unknown_effect_tainted, executed_effects>>
  BY DEF InvokeStarts, Started
<1>7. Accounts'
  <2>1. Len(effect_trace) \in Nat /\ MaxTrace \in Nat
    BY CallbackAssumption DEF IInv, TypeOK
  <2>2. Cardinality(Ends)' = Cardinality(Ends) /\ Cardinality(Ends) \in Nat
    <3>1. Ends' = Ends
      BY <1>6 DEF Ends, Ended
    <3>2. Ends \subseteq 1 .. Len(effect_trace)
      BY DEF Ends, IInv, TypeOK
    <3>3. IsFiniteSet(1 .. Len(effect_trace))
      BY <2>1, FS_Interval
    <3>4. IsFiniteSet(Ends)
      BY <3>2, <3>3, FS_Subset
    <3> QED BY <3>1, <3>4, FS_CardinalityType
  <2>3. {stack'[i].key : i \in DOMAIN stack'} = {stack[i].key : i \in DOMAIN stack} \cup {key}
    BY <1>2, <1>3, <1>4
  <2>4. in_flight_effects' = {stack'[i].key : i \in DOMAIN stack'} \cap Keys
    BY <2>3 DEF IInv, Accounts, InvokeStarts
  <2>5. /\ current_reentrancy_depth = n
        /\ current_reentrancy_depth' = current_reentrancy_depth + 1
        /\ invocations = n + Cardinality(Ends)
        /\ invocations' = invocations + 1
    BY DEF IInv, Accounts, InvokeStarts, Started
  <2>6. Len(effect_trace) + (n + 1) <= MaxTrace
    BY <1>2, <1>5, <2>1, <2>5 DEF TraceExhausted
  <2> QED BY <1>3, <1>6, <1>2, <2>1, <2>2, <2>4, <2>5, <2>6 DEF Accounts
<1>8. EndsKnown'
  BY <1>6 DEF IInv, EndsKnown
<1>9. StartedOnce'
  <2>1. key \in Keys => \A i \in DOMAIN stack : stack[i].key # key
    BY <1>5 DEF IInv, Accounts
  <2>2. key \in Keys => \A i \in DOMAIN effect_trace : Ended(i) => effect_trace[i].key # key
    BY <1>5 DEF IInv, EndsKnown, Ended
  <2> QED BY <1>2, <1>3, <1>4, <1>6, <2>1, <2>2 DEF IInv, StartedOnce, Ended
<1> QED BY <1>3, <1>7, <1>8, <1>9

\* The call on top ends, with its result cached or the session tainted.
LEMMA EndStep ==
  ASSUME IInv, stack # <<>>, NEW o \in {"ok", "error"}, record_trace(Top.key, o),
         current_reentrancy_depth' = current_reentrancy_depth - 1,
         in_flight_effects' = in_flight_effects \ {Top.key},
         stack' = Front(stack), invocations' = invocations,
         unknown_effect_tainted \/ o = "error" => unknown_effect_tainted',
         executed_effects \subseteq executed_effects',
         o = "ok" /\ Top.key \in Keys => Top.key \in executed_effects'
  PROVE  Accounts' /\ EndsKnown' /\ StartedOnce'
<1> DEFINE n == Len(effect_trace)
           m == Len(stack)
<1>1. /\ m \in Nat \ {0} /\ DOMAIN stack = 1 .. m
      /\ Len(stack') = m - 1 /\ DOMAIN stack' = 1 .. m - 1
      /\ \A i \in DOMAIN stack' : stack'[i] = stack[i]
      /\ Top = stack[m] /\ Top.key \in AnyKey
  BY TopRemoved DEF IInv, Calls
<1>2. /\ DOMAIN effect_trace = 1 .. n /\ n \in Nat /\ Len(effect_trace') = n + 1
      /\ DOMAIN effect_trace' = 1 .. n + 1
      /\ \A i \in DOMAIN effect_trace : effect_trace'[i] = effect_trace[i]
      /\ effect_trace'[n + 1].outcome = o /\ effect_trace'[n + 1].key = Top.key
      /\ Cardinality(Ends') = Cardinality(Ends) + 1 /\ Cardinality(Ends) \in Nat
  BY <1>1, RecordAdded DEF IInv, Outcomes
<1>3. Accounts'
  <2>1. Len(effect_trace') + Len(stack') = n + m
    BY <1>1, <1>2
  <2>2. /\ current_reentrancy_depth' = Len(stack')
        /\ invocations' = Len(stack') + Cardinality(Ends')
    BY <1>1, <1>2 DEF IInv, Accounts
  <2>3. in_flight_effects' = {stack'[i].key : i \in DOMAIN stack'} \cap Keys
    <3>1. \A i \in DOMAIN stack' : stack[i].key \in Keys => stack[i].key # stack[m].key
      BY <1>1 DEF IInv, StartedOnce
    <3>2. {stack'[i].key : i \in DOMAIN stack'} \cap Keys
            = ({stack[i].key : i \in DOMAIN stack} \cap Keys) \ {Top.key}
      BY <1>1, <3>1
    <3> QED BY <3>2 DEF IInv, Accounts
  <2> QED BY <2>1, <2>2, <2>3 DEF IInv, Accounts
<1>4. EndsKnown'
  BY <1>2 DEF IInv, EndsKnown
<1>5. StartedOnce'
  <2>1. \A i, j \in DOMAIN stack' :
           stack'[i].key \in Keys /\ stack'[i].key = stack'[j].key => i = j
    BY <1>1 DEF IInv, StartedOnce
  <2>2. \A i, j \in DOMAIN effect_trace' :
           effect_trace'[i].key \in Keys /\ Ended(i)' /\ Ended(j)'
           /\ effect_trace'[i].key = effect_trace'[j].key => i = j
    BY <1>1, <1>2 DEF IInv, StartedOnce, Ended
  <2>3. \A i \in DOMAIN effect_trace', j \in DOMAIN stack' :
           effect_trace'[i].key \in Keys /\ Ended(i)' => effect_trace'[i].key # stack'[j].key
    BY <1>1, <1>2 DEF IInv, StartedOnce, Ended
  <2> QED BY <2>1, <2>2, <2>3 DEF StartedOnce
<1> QED BY <1>3, <1>4, <1>5

-----------------------------------------------------------------------------
(* The invariant.                                                          *)

\* A failed call is recorded as an error and taints the session.
LEMMA FailedCall ==
  ASSUME IInv, stack # <<>>, NEW late \in BOOLEAN, finish_failed_call(late)
  PROVE  IInv'
<1>1. Accounts' /\ EndsKnown' /\ StartedOnce'
  BY EndStep DEF finish_failed_call
<1>2. Top \in Calls /\ stack' \in Seq(Calls) /\ Len(stack) \in Nat \ {0}
  BY TopRemoved DEF IInv, finish_failed_call
<1>3. effect_trace' \in Seq(Records)
  BY <1>2, RecordAdded DEF IInv, finish_failed_call, Calls, Outcomes
<1>4. TypeOK'
  BY <1>2, <1>3 DEF IInv, TypeOK, Accounts, finish_failed_call
<1>5. StepsCounted'
  BY DEF IInv, StepsCounted, finish_failed_call
<1> QED BY <1>1, <1>4, <1>5 DEF IInv

\* A completed call is recorded as such and its result is cached.
LEMMA CommittedCall ==
  ASSUME IInv, stack # <<>>, Commit
  PROVE  IInv'
<1>1. Accounts' /\ EndsKnown' /\ StartedOnce'
  BY EndStep DEF Commit
<1>2. Top \in Calls /\ stack' \in Seq(Calls) /\ Len(stack) \in Nat \ {0}
  BY TopRemoved DEF IInv, Commit
<1>3. effect_trace' \in Seq(Records)
  BY <1>2, RecordAdded DEF IInv, Commit, Calls, Outcomes
<1>4. TypeOK'
  BY <1>2, <1>3 DEF IInv, TypeOK, Accounts, Commit
<1>5. StepsCounted'
  BY DEF IInv, StepsCounted, Commit
<1> QED BY <1>1, <1>4, <1>5 DEF IInv

\* A call that goes on to count the nodes of its answer, or to drop the count,
\* is the same call.
LEMMA MovedCall ==
  ASSUME IInv, UNCHANGED <<session_state, granted_steps>>,
         stack' \in Seq(Calls), Len(stack') = Len(stack), DOMAIN stack' = DOMAIN stack,
         \A i \in DOMAIN stack : stack'[i].key = stack[i].key
  PROVE  IInv'
<1>1. UNCHANGED <<current_reentrancy_depth, invocations, consumed_nested_steps,
                  cancelled, unknown_effect_tainted, executed_effects,
                  in_flight_effects, effect_trace, granted_steps>>
  BY DEF session_state
<1>2. TypeOK'
  BY <1>1 DEF IInv, TypeOK
<1>3. Accounts'
  <2>1. {stack'[i].key : i \in DOMAIN stack'} = {stack[i].key : i \in DOMAIN stack}
    OBVIOUS
  <2>2. Ends' = Ends
    BY <1>1 DEF Ends, Ended
  <2> QED BY <1>1, <2>1, <2>2 DEF IInv, Accounts
<1>4. StepsCounted' /\ EndsKnown'
  BY <1>1 DEF IInv, StepsCounted, EndsKnown
<1>5. StartedOnce'
  BY <1>1 DEF IInv, StartedOnce, Ended
<1> QED BY <1>2, <1>3, <1>4, <1>5 DEF IInv

\* Nothing has been called yet.
LEMMA InitIInv == CallbackInit => IInv
<1> SUFFICES ASSUME CallbackInit PROVE IInv
  OBVIOUS
<1> USE CallbackAssumption DEF CallbackInit
<1>1. TypeOK
  <2>1. effect_trace \in Seq(Records) /\ stack \in Seq(Calls)
    BY EmptySeq
  <2>2. {current_reentrancy_depth, invocations, consumed_nested_steps, granted_steps} \subseteq Nat
    OBVIOUS
  <2>3. /\ cancelled \in BOOLEAN /\ unknown_effect_tainted \in BOOLEAN
        /\ executed_effects \in SUBSET Keys /\ in_flight_effects \in SUBSET Keys
    BY Zenon
  <2> QED BY <2>1, <2>2, <2>3, Zenon DEF TypeOK
<1>2. Ends = {} /\ DOMAIN stack = {} /\ DOMAIN effect_trace = {} /\ Len(stack) = 0 /\ Len(effect_trace) = 0
  BY DEF Ends
<1>3. Accounts
  BY <1>2, FS_EmptySet DEF Accounts
<1>4. StepsCounted /\ EndsKnown /\ StartedOnce
  BY <1>2 DEF StepsCounted, EndsKnown, StartedOnce
<1> QED BY <1>1, <1>3, <1>4 DEF IInv

\* Every action preserves the invariant.
LEMMA NextIInv == IInv /\ [CallbackNext]_callbackVars => IInv'
<1> SUFFICES ASSUME IInv, [CallbackNext]_callbackVars PROVE IInv'
  OBVIOUS
<1>1. ASSUME NEW keyFits \in BOOLEAN, InvokeUnrecorded(keyFits) PROVE IInv'
  <2>1. Accounts' /\ EndsKnown' /\ StartedOnce'
    BY <1>1, QuietStep DEF InvokeUnrecorded
  <2>2. TypeOK' /\ StepsCounted'
    BY <1>1 DEF IInv, TypeOK, StepsCounted, InvokeUnrecorded
  <2> QED BY <2>1, <2>2 DEF IInv
<1>2. ASSUME NEW key \in AnyKey, NEW fits \in BOOLEAN, InvokeRefused(key, fits) PROVE IInv'
  <2> DEFINE o == Refusal(key, fits)
  <2>1. o \in Outcomes \ {"ok", "error"} /\ record_trace(key, o) /\ ~ TraceExhausted
    BY <1>2 DEF InvokeRefused, Refusal, Outcomes
  <2>2. /\ UNCHANGED <<current_reentrancy_depth, invocations, consumed_nested_steps,
                       cancelled, executed_effects, in_flight_effects, stack, granted_steps>>
        /\ unknown_effect_tainted => unknown_effect_tainted'
        /\ unknown_effect_tainted' \in BOOLEAN
    BY <1>2 DEF InvokeRefused
  <2> HIDE DEF o
  <2>3. Accounts' /\ EndsKnown' /\ StartedOnce'
    BY <2>1, <2>2, RefusedStep
  <2>4. effect_trace' \in Seq(Records)
    BY <2>1, RecordAdded DEF IInv
  <2>5. TypeOK' /\ StepsCounted'
    BY <2>2, <2>4 DEF IInv, TypeOK, StepsCounted
  <2> QED BY <2>3, <2>5 DEF IInv
<1>3. ASSUME NEW key \in AnyKey, NEW counted \in BOOLEAN, InvokeStarts(key, counted) PROVE IInv'
  <2>1. stack' \in Seq(Calls) /\ Accounts' /\ EndsKnown' /\ StartedOnce'
    BY <1>3, StartStep
  <2>2. TypeOK' /\ StepsCounted'
    BY <1>3, <2>1 DEF IInv, TypeOK, StepsCounted, InvokeStarts, Started
  <2> QED BY <2>1, <2>2 DEF IInv
<1>4. ASSUME PythonRaises PROVE IInv'
  BY <1>4, FailedCall DEF PythonRaises, AtStep
<1>5. ASSUME NEW late \in BOOLEAN, CallbackReturns(late) PROVE IInv'
  <2>1. CASE finish_failed_call(late)
    BY <1>5, <2>1, FailedCall DEF CallbackReturns, AtStep
  <2>2. CASE Commit
    BY <1>5, <2>2, CommittedCall DEF CallbackReturns, AtStep
  <2>3. CASE /\ stack' = [stack EXCEPT ![Len(stack)].step = "counter"]
             /\ UNCHANGED <<session_state, granted_steps>>
    <3>1. /\ stack' \in Seq(Calls) /\ Len(stack') = Len(stack) /\ DOMAIN stack' = DOMAIN stack
          /\ \A i \in DOMAIN stack : stack'[i].key = stack[i].key
      <4>1. TypeOK /\ stack # <<>> /\ "counter" \in Steps
        BY <1>5 DEF IInv, CallbackReturns, AtStep, Steps
      <4> QED BY <2>3, <4>1, TopMoved, Zenon
    <3> QED BY <2>3, <3>1, MovedCall, Zenon
  <2> QED BY <1>5, <2>1, <2>2, <2>3, Zenon DEF CallbackReturns
<1>6. ASSUME NEW late \in BOOLEAN, FinalizerDone(late) PROVE IInv'
  <2>1. stack # <<>> /\ (finish_failed_call(late) \/ Commit)
    BY <1>6 DEF FinalizerDone, AtStep
  <2> QED BY <2>1, FailedCall, CommittedCall
<1>7. ASSUME CounterReturns PROVE IInv'
  <2>1. TypeOK /\ stack # <<>> /\ "finalizer" \in Steps
    BY <1>7 DEF IInv, CounterReturns, AtStep, Steps
  <2>2. /\ stack' \in Seq(Calls) /\ Len(stack') = Len(stack) /\ DOMAIN stack' = DOMAIN stack
        /\ \A i \in DOMAIN stack : stack'[i].key = stack[i].key
    BY <1>7, <2>1, TopMoved, Zenon DEF CounterReturns
  <2> QED BY <1>7, <2>2, MovedCall, Zenon DEF CounterReturns
<1>8. ASSUME cancel PROVE IInv'
  <2>1. Accounts' /\ EndsKnown' /\ StartedOnce'
    BY <1>8, QuietStep DEF cancel
  <2>2. TypeOK' /\ StepsCounted'
    BY <1>8 DEF IInv, TypeOK, StepsCounted, cancel
  <2> QED BY <2>1, <2>2 DEF IInv
<1>9. ASSUME NEW steps \in 1 .. MaxCharge, ChargeGranted(steps) PROVE IInv'
  <2>1. Accounts' /\ EndsKnown' /\ StartedOnce'
    BY <1>9, QuietStep DEF ChargeGranted
  <2>2. MaxNestedSteps \in Nat /\ steps \in Nat
    BY CallbackAssumption
  <2>3. TypeOK' /\ StepsCounted'
    BY <1>9, <2>2 DEF IInv, TypeOK, StepsCounted, ChargeGranted, Charged
  <2> QED BY <2>1, <2>3 DEF IInv
<1>10. ASSUME NEW steps \in 1 .. MaxCharge, ChargeExhausted(steps) PROVE IInv'
  <2>1. Accounts' /\ EndsKnown' /\ StartedOnce'
    BY <1>10, QuietStep DEF ChargeExhausted
  <2>2. MaxNestedSteps \in Nat /\ U64Max \in Nat /\ MaxNestedSteps <= U64Max /\ steps \in Nat
    BY CallbackAssumption
  <2>3. TypeOK' /\ StepsCounted'
    BY <1>10, <2>2 DEF IInv, TypeOK, StepsCounted, ChargeExhausted, Nested
  <2> QED BY <2>1, <2>3 DEF IInv
<1>11. CASE UNCHANGED callbackVars
  BY <1>11, MovedCall DEF callbackVars, session_state, IInv, TypeOK
<1> QED
  BY <1>1, <1>2, <1>3, <1>4, <1>5, <1>6, <1>7, <1>8, <1>9, <1>10, <1>11 DEF CallbackNext

-----------------------------------------------------------------------------
(* The theorems.                                                           *)

\* The invariant holds of every state of every session.
LEMMA Invariance == CallbackSpec => []IInv
BY InitIInv, NextIInv, PTL DEF CallbackSpec

\* The session's state keeps its types, whatever Python code calls and when.
THEOREM TypeCorrect == CallbackSpec => []TypeOK
<1>1. IInv => TypeOK
  BY DEF IInv
<1> QED BY <1>1, Invariance, PTL

\* Depth, effects in flight, trace room and invocations agree with the calls
\* really under way, and the steps granted stay within the limit.
THEOREM CallsAccountedForHolds == CallbackSpec => []CallsAccountedFor
<1>1. IInv => CallsAccountedFor
  <2> SUFFICES ASSUME IInv PROVE CallsAccountedFor
    OBVIOUS
  <2>1. effect_trace \in Seq(Records)
    BY DEF IInv, TypeOK
  <2>2. \A i \in DOMAIN effect_trace : effect_trace[i].key \in AnyKey
    <3>1. \A i \in DOMAIN effect_trace : effect_trace[i] \in Records
      BY <2>1, ElementOfSeq
    <3> QED BY <3>1 DEF Records
  <2>3. UNION {EndRecords(k) : k \in AnyKey} = Ends
    BY <2>2 DEF EndRecords, Ends, Ended
  <2> QED BY <2>3 DEF IInv, Accounts, StepsCounted, CallsAccountedFor
<1> QED BY <1>1, Invariance, PTL

\* A set of indices without two different members has at most one.
LEMMA AtMostOne ==
  ASSUME NEW S, \A i, j \in S : i = j
  PROVE  Cardinality(S) \in {0, 1} /\ (Cardinality(S) = 1 => S # {})
<1>1. CASE S = {}
  BY <1>1, FS_EmptySet
<1>2. CASE S # {}
  <2>1. PICK x \in S : TRUE
    BY <1>2
  <2>2. S = {x}
    BY <2>1
  <2> QED BY <1>2, <2>2, FS_Singleton
<1> QED BY <1>1, <1>2

\* A keyed effect is started at most once in the life of a session, for every
\* nesting of calls, failure, timeout and cancellation.
THEOREM ExactlyOnceEffectsHolds == CallbackSpec => []ExactlyOnceEffects
<1>1. IInv => ExactlyOnceEffects
  <2> SUFFICES ASSUME IInv, NEW key \in Keys
               PROVE  Cardinality(EndRecords(key)) + Cardinality(OnStack(key)) <= 1
    BY DEF ExactlyOnceEffects
  <2>1. \A i, j \in EndRecords(key) : i = j
    BY DEF IInv, StartedOnce, EndRecords, Ended
  <2>2. \A i, j \in OnStack(key) : i = j
    BY DEF IInv, StartedOnce, OnStack
  <2>3. EndRecords(key) = {} \/ OnStack(key) = {}
    BY DEF IInv, StartedOnce, EndRecords, OnStack, Ended
  <2>4. /\ Cardinality(EndRecords(key)) \in {0, 1}
        /\ Cardinality(EndRecords(key)) = 1 => EndRecords(key) # {}
    BY <2>1, AtMostOne
  <2>5. /\ Cardinality(OnStack(key)) \in {0, 1}
        /\ Cardinality(OnStack(key)) = 1 => OnStack(key) # {}
    BY <2>2, AtMostOne
  <2> QED BY <2>3, <2>4, <2>5
<1> QED BY <1>1, Invariance, PTL

\* After a failure, a timeout or a cancellation no callback starts, no result is
\* published or cached, and no nested work is granted.
THEOREM NothingAfterUnknownEffectHolds == CallbackSpec => NothingAfterUnknownEffect
<1> DEFINE Quiet == /\ UNCHANGED <<invocations, executed_effects, granted_steps>>
                    /\ \A i \in DOMAIN effect_trace' \ DOMAIN effect_trace :
                          effect_trace'[i].outcome \notin {"ok", "cached_hit"}
           Stopped == unknown_effect_tainted \/ cancelled
<1>1. IInv /\ [CallbackNext]_callbackVars => [Stopped => Quiet]_callbackVars
  <2> SUFFICES ASSUME IInv, CallbackNext, Stopped PROVE Quiet
    OBVIOUS
  <2>1. ASSUME NEW key \in AnyKey, NEW o \in Outcomes \ {"ok", "cached_hit"},
               record_trace(key, o), UNCHANGED <<invocations, executed_effects, granted_steps>>
        PROVE  Quiet
    <3> DEFINE n == Len(effect_trace)
    <3>1. /\ DOMAIN effect_trace = 1 .. n /\ n \in Nat
          /\ DOMAIN effect_trace' = 1 .. n + 1
          /\ effect_trace'[n + 1].outcome = o
      BY <2>1, RecordAdded DEF IInv
    <3>2. DOMAIN effect_trace' \ DOMAIN effect_trace = {n + 1}
      BY <3>1
    <3> QED BY <2>1, <3>1, <3>2
  <2>2. ASSUME NEW late \in BOOLEAN, stack # <<>>, finish_failed_call(late) PROVE Quiet
    <3>1. Top.key \in AnyKey /\ "error" \in Outcomes \ {"ok", "cached_hit"}
      BY <2>2, TopRemoved DEF IInv, finish_failed_call, Calls, Outcomes
    <3> QED BY <2>1, <2>2, <3>1 DEF finish_failed_call
  <2>3. ASSUME UNCHANGED <<invocations, executed_effects, granted_steps, effect_trace>> PROVE Quiet
    BY <2>3
  <2> HIDE DEF Quiet
  <2>4. ASSUME NEW keyFits \in BOOLEAN, InvokeUnrecorded(keyFits) PROVE Quiet
    BY <2>3, <2>4 DEF InvokeUnrecorded
  <2>5. ASSUME NEW key \in AnyKey, NEW flag \in BOOLEAN, InvokeRefused(key, flag) PROVE Quiet
    <3>1. Refusal(key, flag) \in Outcomes \ {"ok", "cached_hit"}
      BY DEF Refusal, Outcomes
    <3> QED BY <2>1, <2>5, <3>1 DEF InvokeRefused
  <2>6. ASSUME NEW key \in AnyKey, NEW flag \in BOOLEAN, InvokeStarts(key, flag) PROVE Quiet
    BY <2>6 DEF InvokeStarts, Refusal
  <2>7. ASSUME PythonRaises PROVE Quiet
    BY <2>2, <2>7 DEF PythonRaises, AtStep
  <2>8. ASSUME NEW late \in BOOLEAN, CallbackReturns(late) \/ FinalizerDone(late) PROVE Quiet
    BY <2>2, <2>8, Zenon DEF CallbackReturns, FinalizerDone, AtStep, check_in_flight
  <2>9. ASSUME CounterReturns PROVE Quiet
    BY <2>3, <2>9, Zenon DEF CounterReturns, session_state
  <2>10. ASSUME cancel PROVE Quiet
    BY <2>3, <2>10 DEF cancel
  <2>11. ASSUME NEW steps \in 1 .. MaxCharge, ChargeGranted(steps) \/ ChargeExhausted(steps)
         PROVE  Quiet
    BY <2>11 DEF ChargeGranted, Charged, ChargeExhausted
  <2> QED
    BY <2>4, <2>5, <2>6, <2>7, <2>8, <2>9, <2>10, <2>11 DEF CallbackNext
<1> QED BY <1>1, Invariance, PTL DEF CallbackSpec, NothingAfterUnknownEffect

=============================================================================

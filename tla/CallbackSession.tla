--------------------------- MODULE CallbackSession ---------------------------
(***************************************************************************)
(* Supervision of Python callbacks (crates/fsym-python/src/callbacks.rs).  *)
(*                                                                         *)
(* The session's mutex is released whenever Python code runs: the callback *)
(* itself, the node counter and the finalizer of the counter's answer.     *)
(* That code may call the session again (invoke, cancel, charge) on the    *)
(* same thread, so the calls under way form a stack and every action below *)
(* is one stretch of native code between two stretches of Python code.     *)
(* A call from another thread or interpreter is refused by                 *)
(* verify_ownership before it touches the state: a stuttering step.        *)
(***************************************************************************)
EXTENDS Naturals, Sequences, FiniteSets, SequencesExt

CONSTANTS Keys,                 \* effect keys (hook kind, target, arguments)
          Fresh,                \* the key of an invoke_fresh call
          MaxReentrancyDepth, MaxInvocations, MaxNestedSteps,
          MaxTrace,             \* MAX_CALLBACK_TRACE_RECORDS
          MaxCharge,            \* steps of one charge, bound of the model
          U64Max                \* u64::MAX

ASSUME CallbackAssumption ==
    /\ Fresh \notin Keys
    /\ {MaxReentrancyDepth, MaxInvocations} \subseteq Nat \ {0}
    /\ {MaxNestedSteps, MaxTrace, MaxCharge, U64Max} \subseteq Nat
    /\ MaxNestedSteps <= U64Max

VARIABLES current_reentrancy_depth, invocations, consumed_nested_steps,
          cancelled, unknown_effect_tainted,
          executed_effects,     \* keys whose result is cached
          in_flight_effects,
          effect_trace,         \* records [key, outcome]
          stack,                \* the invoke_supervised calls under way
          granted_steps         \* history: nested steps charges have granted

session_state == <<current_reentrancy_depth, invocations, consumed_nested_steps,
                   cancelled, unknown_effect_tainted, executed_effects,
                   in_flight_effects, effect_trace>>
callbackVars  == <<session_state, stack, granted_steps>>

AnyKey   == Keys \cup {Fresh}
Steps    == {"callback", "counter", "finalizer"}
Outcomes == {"ok", "error", "cached_hit", "tainted", "cancelled", "in_flight",
             "input_bound", "depth", "invocation_budget"}

CallbackInit ==
    /\ current_reentrancy_depth = 0
    /\ invocations = 0
    /\ consumed_nested_steps = 0
    /\ cancelled = FALSE
    /\ unknown_effect_tainted = FALSE
    /\ executed_effects = {}
    /\ in_flight_effects = {}
    /\ effect_trace = <<>>
    /\ stack = <<>>
    /\ granted_steps = 0

Nested == current_reentrancy_depth # 0

record_trace(key, outcome) ==
    effect_trace' = Append(effect_trace, [key |-> key, outcome |-> outcome])

-----------------------------------------------------------------------------
(* Admission of a call: the refusals in the order the code tests them.     *)

\* Mutant: the ends of the calls under way are not reserved.
MutTraceExhausted == Len(effect_trace) >= MaxTrace

TraceExhausted == Len(effect_trace) + current_reentrancy_depth >= MaxTrace

Refusal(key, inputFits) ==
    IF unknown_effect_tainted THEN "tainted"
    ELSE IF cancelled THEN "cancelled"
    ELSE IF key \in in_flight_effects THEN "in_flight"
    ELSE IF key \in executed_effects THEN "cached_hit"
    ELSE IF ~ inputFits THEN "input_bound"
    ELSE IF current_reentrancy_depth >= MaxReentrancyDepth THEN "depth"
    ELSE IF invocations >= MaxInvocations THEN "invocation_budget"
    ELSE "none"

\* The key is longer than MAX_CALLBACK_KEY_BYTES, or the trace could not record
\* the end of one more call.
InvokeUnrecorded(keyFits) ==
    /\ ~ keyFits \/ TraceExhausted
    /\ unknown_effect_tainted' = (unknown_effect_tainted \/ Nested)
    /\ UNCHANGED <<current_reentrancy_depth, invocations, consumed_nested_steps, cancelled,
                   executed_effects, in_flight_effects, effect_trace, stack, granted_steps>>

InvokeRefused(key, inputFits) ==
    LET refusal == Refusal(key, inputFits) IN
    /\ ~ TraceExhausted
    /\ refusal # "none"
    /\ record_trace(key, refusal)
    /\ unknown_effect_tainted' =
           (\/ unknown_effect_tainted
            \/ refusal \in {"in_flight", "depth", "invocation_budget"}
            \/ refusal = "input_bound" /\ Nested)
    /\ UNCHANGED <<current_reentrancy_depth, invocations, consumed_nested_steps, cancelled,
                   executed_effects, in_flight_effects, stack, granted_steps>>

Started(key, counted) ==
    /\ current_reentrancy_depth' = current_reentrancy_depth + 1
    /\ invocations' = invocations + 1
    /\ stack' = Append(stack, [key |-> key, counted |-> counted, step |-> "callback"])
    /\ UNCHANGED <<consumed_nested_steps, cancelled, unknown_effect_tainted,
                   executed_effects, effect_trace, granted_steps>>

InvokeStarts(key, counted) ==
    /\ ~ TraceExhausted
    /\ Refusal(key, TRUE) = "none"
    /\ Started(key, counted)
    /\ in_flight_effects' = in_flight_effects \cup ({key} \cap Keys)

-----------------------------------------------------------------------------
(* The end of the call on top of the stack.                                *)

Top == Last(stack)

AtStep(step) == stack # <<>> /\ Top.step = step

\* Mutant: a failed call does not taint the session.
Mutfinish_failed_call(late) ==
    /\ current_reentrancy_depth' = current_reentrancy_depth - 1
    /\ cancelled' = (cancelled \/ late)
    /\ in_flight_effects' = in_flight_effects \ {Top.key}
    /\ record_trace(Top.key, "error")
    /\ stack' = Front(stack)
    /\ UNCHANGED <<unknown_effect_tainted, invocations, consumed_nested_steps,
                   executed_effects, granted_steps>>

\* late: check_in_flight found the wall time exceeded and cancelled the session.
finish_failed_call(late) ==
    /\ current_reentrancy_depth' = current_reentrancy_depth - 1
    /\ unknown_effect_tainted' = TRUE
    /\ cancelled' = (cancelled \/ late)
    /\ in_flight_effects' = in_flight_effects \ {Top.key}
    /\ record_trace(Top.key, "error")
    /\ stack' = Front(stack)
    /\ UNCHANGED <<invocations, consumed_nested_steps, executed_effects, granted_steps>>

check_in_flight(late) == ~ (cancelled \/ late \/ unknown_effect_tainted)

Commit ==
    /\ current_reentrancy_depth' = current_reentrancy_depth - 1
    /\ in_flight_effects' = in_flight_effects \ {Top.key}
    /\ executed_effects' = executed_effects \cup ({Top.key} \cap Keys)
    /\ record_trace(Top.key, "ok")
    /\ stack' = Front(stack)
    /\ UNCHANGED <<invocations, consumed_nested_steps, cancelled,
                   unknown_effect_tainted, granted_steps>>

\* The callback, the counter or the conversion of its answer raised, or the
\* counter found too many nodes.
PythonRaises ==
    /\ AtStep("callback") \/ AtStep("counter")
    /\ finish_failed_call(FALSE)

CallbackReturns(late) ==
    /\ AtStep("callback")
    /\ \/ /\ ~ check_in_flight(late)
          /\ finish_failed_call(late)
       \/ /\ check_in_flight(late) /\ ~ Top.counted
          /\ Commit
       \/ /\ check_in_flight(late) /\ Top.counted
          /\ stack' = [stack EXCEPT ![Len(stack)].step = "counter"]
          /\ UNCHANGED <<session_state, granted_steps>>

\* The answer is within the bound; dropping it may run a finalizer.
CounterReturns ==
    /\ AtStep("counter")
    /\ stack' = [stack EXCEPT ![Len(stack)].step = "finalizer"]
    /\ UNCHANGED <<session_state, granted_steps>>

\* Mutant: only the first check decides.
MutFinalizerDone(late) ==
    /\ AtStep("finalizer")
    /\ Commit

\* The second check: the counter or the finalizer may have run long, cancelled
\* or failed a nested call.
FinalizerDone(late) ==
    /\ AtStep("finalizer")
    /\ \/ ~ check_in_flight(late) /\ finish_failed_call(late)
       \/ check_in_flight(late) /\ Commit

-----------------------------------------------------------------------------
cancel ==
    /\ cancelled' = TRUE
    /\ unknown_effect_tainted' = (unknown_effect_tainted \/ Nested)
    /\ UNCHANGED <<current_reentrancy_depth, invocations, consumed_nested_steps,
                   executed_effects, in_flight_effects, effect_trace, stack, granted_steps>>

\* checked_add: the sum fits u64 and the limit.
Charged(steps) ==
    /\ ~ (unknown_effect_tainted \/ cancelled)
    /\ consumed_nested_steps + steps <= MaxNestedSteps
    /\ consumed_nested_steps' = consumed_nested_steps + steps

ChargeGranted(steps) ==
    /\ Charged(steps)
    /\ granted_steps' = granted_steps + steps
    /\ UNCHANGED <<current_reentrancy_depth, invocations, cancelled, unknown_effect_tainted,
                   executed_effects, in_flight_effects, effect_trace, stack>>

ChargeExhausted(steps) ==
    /\ ~ (unknown_effect_tainted \/ cancelled)
    /\ consumed_nested_steps + steps > MaxNestedSteps
    /\ consumed_nested_steps' = IF consumed_nested_steps + steps > U64Max
                                THEN U64Max ELSE consumed_nested_steps + steps
    /\ unknown_effect_tainted' = Nested
    /\ UNCHANGED <<current_reentrancy_depth, invocations, cancelled, executed_effects,
                   in_flight_effects, effect_trace, stack, granted_steps>>

CallbackNext ==
    \/ \E keyFits \in BOOLEAN : InvokeUnrecorded(keyFits)
    \/ \E key \in AnyKey, flag \in BOOLEAN :
           InvokeRefused(key, flag) \/ InvokeStarts(key, flag)
    \/ PythonRaises
    \/ \E late \in BOOLEAN : CallbackReturns(late) \/ FinalizerDone(late)
    \/ CounterReturns
    \/ cancel
    \/ \E steps \in 1..MaxCharge : ChargeGranted(steps) \/ ChargeExhausted(steps)

CallbackSpec == CallbackInit /\ [][CallbackNext]_callbackVars

-----------------------------------------------------------------------------
(* Properties.                                                             *)

EndRecords(key) ==
    {i \in DOMAIN effect_trace : effect_trace[i].key = key
                                 /\ effect_trace[i].outcome \in {"ok", "error"}}

OnStack(key) == {i \in DOMAIN stack : stack[i].key = key}

\* "Invokes callback at most once for (hook_kind, target_key, args_key)": a keyed
\* effect is started at most once in the life of the session, whether it
\* succeeded, failed, ran over its time or is still running when it is asked for
\* again.
ExactlyOnceEffects ==
    \A key \in Keys : Cardinality(EndRecords(key)) + Cardinality(OnStack(key)) <= 1

\* The session's bookkeeping agrees with the calls really under way: the depth
\* is their number, the effects in flight are theirs, the trace keeps room for
\* the end of every one (the debug_assert of record_trace) and accounts for
\* every invocation charged.  "Fallback never resets accounting": the nested
\* steps granted stay within the limit although the counter saturates.
CallsAccountedFor ==
    /\ current_reentrancy_depth = Len(stack)
    /\ in_flight_effects = {stack[i].key : i \in DOMAIN stack} \cap Keys
    /\ Len(effect_trace) + Len(stack) <= MaxTrace
    /\ invocations = Len(stack) + Cardinality(UNION {EndRecords(k) : k \in AnyKey})
    /\ granted_steps <= MaxNestedSteps

\* "When a callback exceeds max_wall_time_ms or is cancelled in flight": after
\* any failure, timeout or cancellation no further callback starts, no result
\* is published or cached (also of calls that were already under way), and no
\* nested work is granted.
NothingAfterUnknownEffect ==
    [][unknown_effect_tainted \/ cancelled =>
           /\ UNCHANGED <<invocations, executed_effects, granted_steps>>
           /\ \A i \in DOMAIN effect_trace' \ DOMAIN effect_trace :
                  effect_trace'[i].outcome \notin {"ok", "cached_hit"}]_callbackVars
=============================================================================

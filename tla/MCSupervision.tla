---------------------------- MODULE MCSupervision ----------------------------
(***************************************************************************)
(* Instances of Budget, CallbackSession and Monitor.  The three share no    *)
(* state, so one of them is chosen at the start and the others stay in      *)
(* their initial state.  Logarithms are in thousandths.                    *)
(***************************************************************************)
EXTENDS Budget, CallbackSession, Monitor, TLC

VARIABLE machine

CONSTANTS bare,                             \* a root without a verifier pool
          k1, k2                            \* keyed effects

MCMixedLimits ==
  [l \in Roots |-> [k \in Kinds |-> IF l # bare THEN MaxU64 ELSE IF k = Pool THEN 0 ELSE 1]]

\* default_spec: p0 = 0.05, p1 = 0.25, alpha = 0.05.
DefaultAgreement == -236

\* Descendants are interchangeable.
Symmetry == Permutations(Ledgers \ Roots)

MCInit ==
  /\ machine \in {"budget", "callbacks", "monitor"}
  /\ BudgetInit /\ CallbackInit /\ MonitorInit

MCVars == <<machine, budgetVars, callbackVars, monitorVars>>

\* Ledgers and monitors stop when their counters are used up.
UsedUp == machine \in {"budget", "monitor"} /\ UNCHANGED MCVars

MCNext ==
  \/ machine = "budget"    /\ BudgetNext   /\ UNCHANGED <<machine, callbackVars, monitorVars>>
  \/ machine = "callbacks" /\ CallbackNext /\ UNCHANGED <<machine, budgetVars, monitorVars>>
  \/ machine = "monitor"   /\ MonitorNext  /\ UNCHANGED <<machine, budgetVars, callbackVars>>
  \/ UsedUp

MCSpec == MCInit /\ [][MCNext]_MCVars
=============================================================================

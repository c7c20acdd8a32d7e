SPECIFICATION Spec
CONSTANTS
  N = 3
  Modes = {"concurrent", "continuation", "sequential"}
  Compute = 4
  Pools = {0, 1, 5}
  Fresh = {0, 3}
  ClaimUnits = 2
  Units = 2
CHECK_DEADLOCK FALSE
INVARIANTS Reconciled FirstVerifiedWins StepsReported
PROPERTY RaceEnds

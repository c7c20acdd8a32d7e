SPECIFICATION MCSpec
CONSTANTS
  Ledgers = {root, bare, c1, c2}
  Roots = {root, bare}
  NoLedger = NoLedger
  bare = bare
  Dims = {d1}
  Pool = Pool
  MaxU64 = 2
  Limits <- MCMixedLimits
  MaxSequence = 2
  k1 = k1
  k2 = k2
  Keys = {k1, k2}
  Fresh = Fresh
  MaxReentrancyDepth = 2
  MaxInvocations = 3
  MaxNestedSteps = 2
  MaxTrace = 4
  MaxCharge = 2
  U64Max = 2
  LogDiscrepancy = 1609
  LogAgreement <- DefaultAgreement
  Threshold = 2996
  Huge = 4300
  MaxObservations = 4
  MaxResets = 1
SYMMETRY Symmetry
INVARIANTS ReturnsFit TreeBound Audited
  WealthExact NothingDropped AlarmOnce
  ExactlyOnceEffects CallsAccountedFor
PROPERTY NothingAfterUnknownEffect

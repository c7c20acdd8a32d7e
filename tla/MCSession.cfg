SPECIFICATION Spec
CONSTANTS
  x = x
  y = y
  a = a
  a2 = a2
  Symbols <- MCSymbols
  Values <- MCValues
  Formulas <- MCFormulas
  Norm <- MCNorm
  Assignable <- MCAssignable
  Absent = Absent
  NoBranch = NoBranch
  Context = ctx
  OtherContext = other
  BranchNames = {"session", "b"}
  InitialBranch = "session"
  MaxBindings = 1
  MaxDerivations = 1
  VerifyStepBudget = 2
  DimensionBudget = 5
  PageSizes = {1, 2}
  MaxPages = 3
  MaxBranches = 2
INVARIANTS AcceptedClaimsHold Metered ReplayExact CertificateExplainsMerge
PROPERTY ImplementsProtocol

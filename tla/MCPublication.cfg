SPECIFICATION PSpec
CONSTANTS
  x = x
  v1 = v1
  v2 = v2
  main = main
  side = side
  p1 = p1
  p2 = p2
  Symbols = {x}
  Values = {v1, v2}
  Absent = Absent
  MaxBindings = 1
  MaxDerivations = 1
  BranchNames = {main, side}
  InitialBranch = main
  NoBranch = NoBranch
  MaxSessionBranches = 2
  Context = "context"
  Formulas <- MCFormulas
  Norm <- MCNorm
  Publishers = {p1, p2}
  MaxLease = 2
  MaxBundles = 2
  MaxHistory = 2
SYMMETRY Symmetry
INVARIANTS PublishedRootsReplay LeaseFencing

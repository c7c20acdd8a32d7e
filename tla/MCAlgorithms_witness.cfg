SPECIFICATION Spec
CONSTANTS
  MaxTableVariables = 2
  MaxDpllVariables = 20
  MaxSearchWork = 12
  Formulas <- MCFormulas
  Points = {0, 1, 2, 3, 4}
  Sets <- MCSets
  Elements <- MCElements
  SetValuations <- MCSetValuations
  Vertices = {1, 2, 3, 4}
  Graphs <- MCGraphs
  EarlierGraphs <- MCEarlierGraphs
  Manifests <- MCManifests
  CoefficientBits = 3
  KaratsubaLeaf = 1
  ToomCutoff = 2
  Prime1 = 17
  Prime2 = 113
  MaxTransformLength = 16
  CheckModulus = 251
  CheckPoint = 9
  Magnitudes <- MCMagnitudes
  Numbers <- MCNumbers
  Moduli <- MCModuli
  MaxReducerModulus = 65
  Degrees <- MCDegrees
  Systems <- MCSystems
  Batches <- MCBatches
  MaxPrimes = 20
  FractionBits = 2
  MaxNormalExponent = 3
  Fractions <- MCFractions
  Polynomials <- MCPolynomials
  Partners <- MCPartners
  Third <- MCThird
  EdfModulus = 32768
  EdfMultiplier = 12245
  EdfIncrement = 3571
  EdfSeedFactor = 40503
  EdfShift = 32
  EdfSeedBudget = 64
  MaxModpFactors = 10
  NumeratorTrials = 2
  DenominatorTrials = 2
  MaxKroneckerDegree = 4
  MaxKroneckerEvaluation = 30
  MaxKroneckerCandidates = 300
  PrimeAttempts = 6
  LiftPrimeAttempts = 16
  Products <- MCProducts
INVARIANT WitnessCertifies

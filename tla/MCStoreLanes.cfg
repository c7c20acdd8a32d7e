SPECIFICATION LSpec
CONSTANTS
  p1 = p1
  p2 = p2
  p3 = p3
  r1 = r1
  r2 = r2
  r3 = r3
  c1 = c1
  c2 = c2
  c3 = c3
  c4 = c4
  Procs = {p1, p2, p3}
  Records = {r1, r2, r3}
  None = None
  Namespaces = {"ns"}
  NsOf <- MCNsOf
  Writers <- MCOwned
  Limit = 1
  ChunkCount = 2
  CliRecords = {c1, c2, c3, c4}
  CliNsOf <- MCCliNsOf
  CliLimit = 1
SYMMETRY MCCliSymmetry
INVARIANTS ReserveBound AckedPublished CommittedComplete CliReserveBound
PROPERTIES RefinesDurableStore CliRefinesDurableStore

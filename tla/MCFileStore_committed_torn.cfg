SPECIFICATION Spec
CONSTANTS
  Procs = {p1, p2}
  Records = {r1}
  None = None
  Namespaces = {"ns"}
  NsOf <- MCNsOf
  Writers <- MCShared
  Limit = 2
  ChunkCount = 2
INVARIANT CommittedComplete

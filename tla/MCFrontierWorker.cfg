SPECIFICATION WSpec
CONSTANTS
  Procs = {w1, w2}
  Records = {r1}
  Rec = r1
  None = None
  Namespaces = {"ns"}
  NsOf <- MCNsOf
  Writers <- MCWriters
  Limit = 2
  ChunkCount = 2
  Boundaries = {"generation-done", "prepared", "verified", "committed"}
  MaxGenerates = 2
  MaxKills = 2
INVARIANTS ReportFromCommitted MarkersTruthful
PROPERTY StandingMarkerLeadsToReport

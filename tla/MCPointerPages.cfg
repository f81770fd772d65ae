SPECIFICATION Spec
CONSTANTS
  Tids = {0}
  Files = {"f"}
  Dir = "dir"
  Existing <- OneFile
  Blocks <- TripleBlocks
  Nodes <- TripleNodes
  Parent <- PointedBy
  Data = {"x"}
  Capacity = 48
  MinFreePages = 0
  VotsPerPage = 3
  FailLastVots = {}
  MaxCalls = 6
  MaxFailures = 0
  MaxBootFailures = 0
INVARIANTS ReadsBack NoPageLeaks
PROPERTY CommitsAreAtomic
CHECK_DEADLOCK FALSE

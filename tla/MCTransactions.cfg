SPECIFICATION Spec
CONSTANTS
  Tids = {0, 1}
  Files = {"f", "g"}
  Dir = "dir"
  Existing <- OneFile
  Blocks <- DirectBlocks
  Nodes <- DirectNodes
  Parent <- PointedBy
  Data = {"x"}
  Capacity = 14
  MinFreePages = 3
  VotsPerPage = 2
  FailLastVots = {}
  MaxCalls = 3
  MaxFailures = 1
  MaxBootFailures = 1
INVARIANTS TypeOK ReadsBack NoPageLeaks
PROPERTY CommitsAreAtomic
CHECK_DEADLOCK FALSE

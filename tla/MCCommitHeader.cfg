SPECIFICATION Spec
CONSTANTS
  Tids = {0, 1}
  Files = {"f", "g"}
  Dir = "dir"
  Existing <- OneFile
  Blocks <- DirectBlocks
  Nodes <- DirectNodes
  Parent <- PointedBy
  Data = {"x"}
  Capacity = 14
  MinFreePages = 3
  VotsPerPage = 3
  FailLastVots = {"header"}
  MaxCalls = 2
  MaxFailures = 1
  MaxBootFailures = 0
INVARIANT CommittedReadable
CHECK_DEADLOCK FALSE

SPECIFICATION Spec
CONSTANTS
  Users = {u1, u2}
  Files = {f, g}
  Dirs = {}
  OpenFlags <- FlagSets
  NFds = 2
  NVnodes = 2
  NStreams = 2
  NTids = 2
  MaxSize = 1
SYMMETRY NameSymmetry
INVARIANTS
  TypeOK
  VnodesCounted
  OpenFilesExist
  WritersExclusive
  StreamsFresh
PROPERTIES
  UncommittedKeepsWriter
CHECK_DEADLOCK FALSE

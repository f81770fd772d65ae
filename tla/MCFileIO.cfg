SPECIFICATION Spec
CONSTANTS
  INODE_FILE_DATA_SIZE = 2
  FS_BLOCK_SIZE = 2
  DIRECT_INDEX_ENTRIES = 1
  IndirectEntries = 2
  Counts = {1, 2, 3, 5, 7}
  MaxFileSize = 12
  MaxWrites = 3
INVARIANTS
  FileAsWritten
  ReadExact
  CommittedKept

SPECIFICATION BootSpec
CONSTANTS
  NSlots = 4
  KReserve = 1
  EusPerSlot = 2
  PagesPerEu = 3
  CpPages = 1
  BadEus = {}
  RandomSlots = {}
  ObsTosses = {FALSE}
  MinFreePages = 5
  CallAfter = {}
  MaxSequence = 3
  MaxFailures = 2
  FailReclaiming = {2, 4}
  FailHalfSaved = FALSE
INVARIANTS
  LastCheckpointFound
  RecoveredReadable
  RecoveredMap
PROPERTIES
  BootNandDiscipline
CHECK_DEADLOCK FALSE

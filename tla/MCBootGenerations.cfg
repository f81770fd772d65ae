SPECIFICATION BootSpec
CONSTANTS
  NSlots = 4
  KReserve = 1
  EusPerSlot = 2
  PagesPerEu = 3
  CpPages = 1
  BadEus = {}
  RandomSlots = {}
  ObsTosses = {FALSE}
  MinFreePages = 5
  CallAfter = {}
  MaxSequence = 3
  MaxFailures = 1
  FailReclaiming = {3}
  FailHalfSaved = FALSE
INVARIANTS
  RecoveredReadable
CHECK_DEADLOCK FALSE

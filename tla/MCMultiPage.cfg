SPECIFICATION FairSpec
CONSTANTS
  NSlots = 4
  KReserve = 1
  EusPerSlot = 2
  PagesPerEu = 3
  CpPages = 2
  BadEus <- NoBadEus
  RandomSlots = {0}
  ObsTosses = {FALSE}
  MinFreePages = 0
  CallAfter = {}
  MaxSequence = 4
INVARIANTS
  PositionInSlot
  LiveReadable
PROPERTIES
  CallsReturn
CHECK_DEADLOCK FALSE

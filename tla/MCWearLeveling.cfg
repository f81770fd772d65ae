SPECIFICATION Spec
CONSTANTS
  NSlots = 4
  KReserve = 1
  EusPerSlot = 2
  PagesPerEu = 2
  CpPages = 1
  BadEus <- NoBadEus
  RandomSlots = {1, 3}
  ObsTosses = {TRUE, FALSE}
  MinFreePages = 0
  CallAfter = {}
  MaxSequence = 6
INVARIANTS
  SlotPartition
  LiveReadable
PROPERTIES
  NandDiscipline
CHECK_DEADLOCK FALSE

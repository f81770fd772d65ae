SPECIFICATION Spec
CONSTANTS
  NSlots = 4
  KReserve = 1
  EusPerSlot = 3
  PagesPerEu = 2
  CpPages = 1
  BadEus <- OneBadEu
  RandomSlots = {1}
  ObsTosses = {FALSE}
  MinFreePages = 5
  CallAfter = {}
  MaxSequence = 4
INVARIANTS
  LiveReadable
  ReserveEusAccounted
PROPERTIES
  NandDiscipline
CHECK_DEADLOCK FALSE

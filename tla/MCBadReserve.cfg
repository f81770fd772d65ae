SPECIFICATION Spec
CONSTANTS
  NSlots = 4
  KReserve = 1
  EusPerSlot = 3
  PagesPerEu = 2
  CpPages = 1
  BadEus <- BadReserveEu
  RandomSlots = {1, 3}
  ObsTosses = {FALSE}
  MinFreePages = 0
  CallAfter = {"noreserve"}
  MaxSequence = 4
INVARIANTS
  SlotPartition
  LiveReadable
  CopybackEuEmpty
PROPERTIES
  NandDiscipline
CHECK_DEADLOCK FALSE

SPECIFICATION Spec
CONSTANTS
  NSlots = 6
  KReserve = 2
  EusPerSlot = 2
  PagesPerEu = 2
  CpPages = 1
  BadEus <- NoBadEus
  RandomSlots = {}
  ObsTosses = {TRUE, FALSE}
  MinFreePages = 0
  CallAfter = {}
  MaxSequence = 7
INVARIANTS
  TypeOK
  LiveReadable
  CountersExact
  HeadersNameSegments
  ObsoleteSegmentsKnown
PROPERTIES
  NandDiscipline
CHECK_DEADLOCK FALSE

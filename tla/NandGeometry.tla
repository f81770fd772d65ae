---------------------------- MODULE NandGeometry ----------------------------
(***************************************************************************)
(* The flash array as the sequencing layer sees it: slots of erase units   *)
(* (EUs) of pages, the constants of sequencing.h, the contents of a page   *)
(* and the two ways the driver changes the array: programming one page and *)
(* erasing one EU.                                                         *)
(*                                                                         *)
(* A page keeps what the file system's own code reads back: what it is, the*)
(* segment id and sequence number of a header, the place of a checkpoint   *)
(* page in its checkpoint, the slot_eu_offset tag that says which EU a     *)
(* reserve or copy-back EU stands for, the copy-back flag, the obsolete    *)
(* byte.  A data page's payload is the logical address it was written for: *)
(* a page keeps that address for its whole life, so two blocks that are    *)
(* alive at the same time differ.                                          *)
(***************************************************************************)
EXTENDS Integers, FiniteSets

CONSTANTS
  NSlots,       (* SEQ_N_SLOTS_COUNT                                       *)
  KReserve,     (* SEQ_K_RESERVE_SLOTS                                     *)
  EusPerSlot,   (* SEQ_EUS_PER_SLOT                                        *)
  PagesPerEu,   (* NAND_PAGES_PER_ERASE_UNIT                               *)
  CpPages,      (* pages of one checkpoint, CALCULATE_IN_PAGES(cp_size)    *)
  BadEus        (* EUs <<slot, eu>> marked bad by the manufacturer         *)

Slots == 0 .. NSlots - 1
Eus   == 0 .. EusPerSlot - 1

PagesPerSlot == EusPerSlot * PagesPerEu
Offsets      == 0 .. PagesPerSlot - 1

(* Data segments come first, then SEQ_NEW_SEGMENT, then the reserves.      *)
SEQ_SEGMENTS_COUNT        == NSlots - KReserve - 1
SEQ_NEW_SEGMENT           == NSlots - KReserve - 1
SEQ_FIRST_RESERVE_SEGMENT == NSlots - KReserve
DataSegments              == 0 .. SEQ_SEGMENTS_COUNT - 1
ReserveSegments           == SEQ_FIRST_RESERVE_SEGMENT .. NSlots - 1

SEQ_NO_SLOT        == NSlots
SEQ_NO_SEGMENT_NUM == NSlots

(* Pages taken at the start of each slot by the header and its checkpoint. *)
HeaderPages == 1 + CpPages
DataOffsets == HeaderPages .. PagesPerSlot - 1

(* The EUs that may hold data: every valid EU of a slot.                   *)
ValidEus(slot) == {e \in Eus : <<slot, e>> \notin BadEus}

(***************************************************************************)
(* The header and its checkpoint fit in the first EU (commit() never looks *)
(* for a reserve EU when it writes the header's checkpoint), and the slots *)
(* formatted as reserve segments have the two valid EUs that the header    *)
(* and the copy-back EU need (the assumption of sequencingBooting()).      *)
(***************************************************************************)
ASSUME GeometryAssumption ==
  /\ NSlots \in Nat /\ KReserve \in Nat \ {0} /\ NSlots > KReserve + 2
  /\ NSlots % 2 = 0
  /\ EusPerSlot \in Nat /\ EusPerSlot >= 2
  /\ PagesPerEu \in Nat /\ CpPages \in Nat \ {0} /\ HeaderPages <= PagesPerEu
  /\ BadEus \subseteq Slots \X Eus
  /\ \A s \in ReserveSegments : Cardinality(ValidEus(s)) >= 2

-----------------------------------------------------------------------------
EuOf(off)        == off \div PagesPerEu
OffsetInEu(off)  == off % PagesPerEu
AtEuStart(off)   == OffsetInEu(off) = 0

(* nandCheckEuStatus(): the bad mark is the manufacturer's and permanent.  *)
EuIsValid(slot, eu) == <<slot, eu>> \notin BadEus

(* slot_eu_offset tags, all ones when not programmed.                      *)
SEQ_NO_SLOT_AND_EU_OFFSET == <<NSlots, 0>>
SEQ_RESERVE_EU_IS_HEADER  == <<NSlots, 1>>
Tags == (0 .. NSlots) \X Eus

SEQ_PHY_ADDRESS_EMPTY == <<NSlots, 0>>

LogicalAddresses == DataSegments \X Offsets
NoAddress        == <<NSlots, 0>>

CpLocations == {"first", "middle", "last", "none"}

Page ==
  [kind : {"erased", "reserve", "header", "checkpoint", "data"},
   seg  : 0 .. NSlots,
   sn   : Nat,
   cp   : CpLocations,
   addr : LogicalAddresses \cup {NoAddress},
   tag  : Tags,
   cb   : BOOLEAN,
   obs  : BOOLEAN]

ErasedPage ==
  [kind |-> "erased", seg |-> SEQ_NO_SEGMENT_NUM, sn |-> 0, cp |-> "none",
   addr |-> NoAddress, tag |-> SEQ_NO_SLOT_AND_EU_OFFSET, cb |-> FALSE,
   obs |-> FALSE]

HeaderPage(kind, seg, sn, tag) ==
  [ErasedPage EXCEPT !.kind = kind, !.seg = seg, !.sn = sn, !.tag = tag]

CheckpointPage(cp, tag) ==
  [ErasedPage EXCEPT !.kind = "checkpoint", !.cp = cp, !.tag = tag]

DataPage(addr, tag) ==
  [ErasedPage EXCEPT !.kind = "data", !.addr = addr, !.tag = tag]

(***************************************************************************)
(* A physical page number, normalised: CALC_ADDRESS() only adds, so an     *)
(* offset past the end of a slot is a page of the next slot.               *)
(***************************************************************************)
CALC_ADDRESS(slot, off) ==
  <<slot + off \div PagesPerSlot, off % PagesPerSlot>>

(* nandProgramPageA(): the whole page is written.                          *)
nandProgramPageA(fl, phy, page) == [fl EXCEPT ![phy[1]][phy[2]] = page]

(* nandProgramPageC(): the obsolete byte in the spare area.                *)
nandProgramPageC(fl, phy) == [fl EXCEPT ![phy[1]][phy[2]].obs = TRUE]

(* nandErase(): all the pages of an EU; a bad EU is left as it is.         *)
nandErase(fl, slot, eu) ==
  IF EuIsValid(slot, eu)
  THEN [fl EXCEPT ![slot] = [o \in Offsets |->
          IF EuOf(o) = eu THEN ErasedPage ELSE fl[slot][o]]]
  ELSE fl

(* IS_PAGE_EMPTY()                                                         *)
PageIsEmpty(fl, phy) == fl[phy[1]][phy[2]].kind = "erased"
=============================================================================

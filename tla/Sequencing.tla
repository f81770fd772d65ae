------------------------------ MODULE Sequencing ------------------------------
(***************************************************************************)
(* The sequencing layer of NANDFS at run time (sequencing.c and            *)
(* sequencingUtils.c): it writes blocks one after the other into the       *)
(* current segment, and when a segment is full it moves to another one,    *)
(* first allocating fresh slots and then reclaiming segments: the pages    *)
(* still in use are copied to an empty slot, the others are handed out     *)
(* again, and the old slot is erased.  Now and then the empty slot is      *)
(* exchanged with a random one (wear leveling).  The EUs that are bad are  *)
(* replaced by EUs of the reserve slots.                                   *)
(*                                                                         *)
(* One step programs or erases at most one page or EU, so that the states  *)
(* between two steps are the ones a power failure can expose.  pc says     *)
(* where the running call is; "ready", "committed", "full", "noreserve"    *)
(* and "failed" are the points where control is back in the file system.   *)
(*                                                                         *)
(* A definition whose comment starts with "Fault:" is not part of the      *)
(* specification: it is a plausible mistake in the definition after it,    *)
(* which a property must detect (PROJECT.json, "mutants").                 *)
(***************************************************************************)
EXTENDS NandGeometry

CONSTANTS
  RandomSlots,      (* what the slot generator of wear leveling may yield  *)
  ObsTosses,        (* what gen_rand_bit(OBS_NEEDED_PROB) may yield        *)
  MinFreePages,     (* FS_MIN_FREE_PAGES, 0: every write is permitted      *)
  CallAfter,        (* errors after which the file system calls again      *)
  MaxSequence       (* bound: the client calls while sequence_num is below *)

ASSUME SequencingAssumption ==
  /\ RandomSlots \subseteq Slots
  /\ ObsTosses \subseteq BOOLEAN
  /\ MinFreePages \in Nat
  /\ CallAfter \subseteq {"full", "noreserve"}
  /\ MaxSequence \in Nat
  /\ EuIsValid(0, 0) /\ EuIsValid(0, 1)  (* see Init *)

VARIABLES
  flash,                        (* the pages of the array                  *)
  seg_to_slot_map,              (* segment_map, field by field             *)
  reclaimed_segment,
  reclaimed_offset,
  previously_written_segment,
  new_slot_id,
  nSegments,
  is_eu_reserve,
  reserve_eu_addr,
  sequence_num,
  counters,                     (* obs_pages_per_seg_counters              *)
  counter,
  free_counter,
  pc,                           (* where the running call is               *)
  frame,                        (* locals of the running call              *)
  trunc,                        (* locals of truncateSlot()                *)
  wear,                         (* locals of performWearLeveling()         *)
  live                          (* ghost: blocks written and not obsolete  *)

positionVars == <<reclaimed_segment, reclaimed_offset>>
reserveVars  == <<is_eu_reserve, reserve_eu_addr>>
slotVars     == <<seg_to_slot_map, new_slot_id, nSegments,
                  previously_written_segment>>
countVars    == <<counter, free_counter>>
vars == <<flash, slotVars, positionVars, reserveVars, sequence_num, counters,
          countVars, pc, frame, trunc, wear, live>>

-----------------------------------------------------------------------------
(* Addresses.                                                              *)

(* seg_to_slot_map[] has entries for reserve segments as well.             *)
ReserveSlots == {seg_to_slot_map[s] : s \in ReserveSegments}

(* Fault: one segment too many is allocated.                               *)
AllocatesNewSegment == nSegments = SEQ_SEGMENTS_COUNT + 1

(* ALL_SEGMENTS_ALLOCATED()                                                *)
ALL_SEGMENTS_ALLOCATED == nSegments = SEQ_SEGMENTS_COUNT

(* IS_STATE_RECLAMATION(): the current segment is being copied elsewhere.  *)
IS_STATE_RECLAMATION ==
  /\ nSegments = SEQ_SEGMENTS_COUNT
  /\ new_slot_id # seg_to_slot_map[reclaimed_segment]

(* Fault: the page after the last one of a slot counts as one of its own.  *)
OverflowingTooLate == reclaimed_offset > PagesPerSlot \/ reclaimed_offset = 0

(* IS_SEG_MAP_PAGE_OFFSET_OVERFLOWING()                                    *)
IS_SEG_MAP_PAGE_OFFSET_OVERFLOWING ==
  reclaimed_offset >= PagesPerSlot \/ reclaimed_offset = 0

(* IS_NO_RESERVE_EUS()                                                     *)
IS_NO_RESERVE_EUS ==
  is_eu_reserve /\ reserve_eu_addr = SEQ_PHY_ADDRESS_EMPTY

(* CALCULATE_SLOT_ID_AND_EU_OFFSET(): the EU a physical page lies in.      *)
SlotAndEu(phy) == <<phy[1], EuOf(phy[2])>>

(* seq_check_eu_status(): the cache of known valid EUs in front of         *)
(* nandCheckEuStatus() does not change the answer, bad marks never vanish. *)
seq_check_eu_status(phy) == EuIsValid(phy[1], EuOf(phy[2]))

(* The page at the same place of another EU, which starts at eu_addr.      *)
InEu(eu_addr, off) == <<eu_addr[1], eu_addr[2] + OffsetInEu(off)>>

(* GET_COPYBACK_EU(): the second valid EU of the first reserve slot.       *)
GET_COPYBACK_EU ==
  LET slot == seg_to_slot_map[SEQ_FIRST_RESERVE_SEGMENT]
  IN  <<slot, CHOOSE e \in ValidEus(slot) :
                Cardinality({f \in ValidEus(slot) : f < e}) = 1>>

(***************************************************************************)
(* The search that allocReserveEU() and logicalAddressToReservePhysical()  *)
(* share: the first valid EU of the reserve segments, segment by segment   *)
(* and cyclically from EU number start, that satisfies Wanted.             *)
(***************************************************************************)
FirstReserveEu(start, Wanted(_)) ==
  LET Found   == {x \in ReserveSegments \X Eus :
                    /\ EuIsValid(seg_to_slot_map[x[1]], x[2])
                    /\ Wanted(<<seg_to_slot_map[x[1]], x[2]>>)}
      Rank(x) == x[1] * EusPerSlot + ((x[2] - start) % EusPerSlot)
      first   == CHOOSE x \in Found : \A y \in Found : Rank(x) <= Rank(y)
  IN  IF Found = {} THEN SEQ_PHY_ADDRESS_EMPTY
      ELSE <<seg_to_slot_map[first[1]], first[2] * PagesPerEu>>

(* The tag of an EU is that of its first page.                             *)
EuTag(eu) == flash[eu[1]][eu[2] * PagesPerEu].tag

(* Fault: the copy-back EU is handed out like any other.                   *)
AllocAnyReserveEu(phy) ==
  LET Unused(eu) == EuTag(eu) = SEQ_NO_SLOT_AND_EU_OFFSET
  IN  FirstReserveEu(EuOf(phy[2]), Unused)

(* Fault: an EU is handed out that is already used.                        *)
AllocUsedReserveEu(phy) ==
  LET Spare(eu) == eu # GET_COPYBACK_EU
  IN  FirstReserveEu(EuOf(phy[2]), Spare)

(* allocReserveEU(): an unused EU that is not kept for copy back.          *)
allocReserveEU(phy) ==
  LET Unused(eu) == /\ eu # GET_COPYBACK_EU
                    /\ EuTag(eu) = SEQ_NO_SLOT_AND_EU_OFFSET
  IN  FirstReserveEu(EuOf(phy[2]), Unused)

(* logicalAddressToReservePhysical(): the page that stands for phy.        *)
logicalAddressToReservePhysical(phy) ==
  LET Replaces(eu) == EuTag(eu) = SlotAndEu(phy)
      eu_addr      == FirstReserveEu(EuOf(phy[2]), Replaces)
  IN  IF eu_addr = SEQ_PHY_ADDRESS_EMPTY THEN SEQ_PHY_ADDRESS_EMPTY
      ELSE InEu(eu_addr, phy[2])

(* Fault: the replacement of a bad EU is not looked up.                    *)
NeverReplaced(phy) == phy

(* Where a page of a slot is stored, itself or its replacement.            *)
StoredAt(phy) ==
  IF seq_check_eu_status(phy) THEN phy ELSE logicalAddressToReservePhysical(phy)

(* Fault: the page at the position is looked for in the new slot.          *)
LookedUpTooEarly(la) ==
  StoredAt(CALC_ADDRESS(
    IF /\ IS_STATE_RECLAMATION
       /\ la[1] = reclaimed_segment
       /\ la[2] <= reclaimed_offset
    THEN new_slot_id
    ELSE seg_to_slot_map[la[1]], la[2]))

(* logicalAddressToPhysical()                                              *)
logicalAddressToPhysical(la) ==
  StoredAt(CALC_ADDRESS(
    IF /\ IS_STATE_RECLAMATION
       /\ la[1] = reclaimed_segment
       /\ la[2] < reclaimed_offset
    THEN new_slot_id
    ELSE seg_to_slot_map[la[1]], la[2]))

(* The slot that is being written.                                         *)
TargetSlot ==
  IF IS_STATE_RECLAMATION THEN new_slot_id
  ELSE seg_to_slot_map[reclaimed_segment]

(* calc_target_phy_addr()                                                  *)
calc_target_phy_addr ==
  IF reserve_eu_addr # SEQ_PHY_ADDRESS_EMPTY
  THEN InEu(reserve_eu_addr, reclaimed_offset)
  ELSE CALC_ADDRESS(TargetSlot, reclaimed_offset)

(***************************************************************************)
(* writeBlock(): the flash after the page is programmed.  In a reserve EU  *)
(* the page is tagged with the EU it replaces.                             *)
(***************************************************************************)
WriteBlockWith(isReserve, eu_addr, phy, page) ==
  IF isReserve
  THEN nandProgramPageA(flash, InEu(eu_addr, phy[2]),
         [page EXCEPT
            !.tag = SlotAndEu(CALC_ADDRESS(new_slot_id, reclaimed_offset))])
  ELSE nandProgramPageA(flash, phy, page)

writeBlock(phy, page) ==
  WriteBlockWith(is_eu_reserve, reserve_eu_addr, phy, page)

-----------------------------------------------------------------------------
(* Obsolete counters: two four-bit levels in a byte.                       *)

OBS_COUNT_NO_OBSOLETES == 0
OBS_COUNT_LEVEL_0      == 1
OBS_COUNT_LEVEL_7      == 8
OBS_COUNT_FULL         == 9

LevelIn(bytes, seg) ==
  IF seg % 2 = 0 THEN bytes[seg \div 2] % 16 ELSE bytes[seg \div 2] \div 16

get_counter_level(seg) == LevelIn(counters, seg)

(***************************************************************************)
(* change_counter_level(): the level is or-ed into the byte as it is, so   *)
(* bit 4 of a level of 16 falls into the neighbour of an even segment and  *)
(* out of the byte for an odd one.                                         *)
(***************************************************************************)
change_counter_level(level, seg) ==
  LET byte == counters[seg \div 2]
      high == byte \div 16
      low  == byte % 16
  IN  [counters EXCEPT ![seg \div 2] =
         IF seg % 2 = 0
         THEN 16 * (IF level >= 16 THEN high + 1 - (high % 2) ELSE high)
              + (level % 16)
         ELSE 16 * (level % 16) + low]

(* increment_counter()                                                     *)
increment_counter(seg) ==
  IF get_counter_level(seg) = OBS_COUNT_LEVEL_7 THEN counters
  ELSE change_counter_level(get_counter_level(seg) + 1, seg)

(***************************************************************************)
(* is_flash_full(): IS_SEGMENT_FULL(i) compares byte i, not the level of   *)
(* segment i, and the loop stops at the first byte that differs.           *)
(***************************************************************************)
is_flash_full == \A i \in DataSegments : counters[i] = OBS_COUNT_FULL

(* calcTotalFreePages()                                                    *)
calcTotalFreePages == counter + free_counter

-----------------------------------------------------------------------------
(* Locals of the running call.                                             *)

Callers == {"alloc", "commit", "find"}

Frame ==
  [caller     : Callers,
   cp         : 0 .. CpPages - 1,     (* checkpoint pages written so far   *)
   iterations : 0 .. SEQ_SEGMENTS_COUNT,
   moved      : BOOLEAN,
   cpWritten  : BOOLEAN]

NoFrame == [caller |-> "find", cp |-> 0, iterations |-> 0,
            moved |-> FALSE, cpWritten |-> FALSE]

Trunc == [slot : Slots, eu : Eus, isSlotReserve : BOOLEAN,
          next : {"switch", "swap", "choose"}]

NoTrunc == [slot |-> 0, eu |-> 0, isSlotReserve |-> FALSE, next |-> "switch"]

NoWear == [random_slot |-> 0, org_seg |-> 0, isSlotReserve |-> FALSE,
           from |-> 0, to |-> 0, from_phy |-> <<0, 0>>, to_phy |-> <<0, 0>>,
           isToReserve |-> FALSE]

(* Where the file system may call the sequencing layer.                    *)
Callable == {"ready"} \cup CallAfter

(* Where a page of a checkpoint stands in it, set_cp_page_flag().          *)
set_cp_page_flag(idx) ==
  IF idx = 0 THEN "first" ELSE IF idx = CpPages - 1 THEN "last" ELSE "middle"

(* findNextFreePage() is called.                                           *)
CallFindNextFreePage(caller, cp) ==
  /\ pc' = "head"
  /\ frame' = [caller |-> caller, cp |-> cp,
               iterations |-> SEQ_SEGMENTS_COUNT,
               moved |-> FALSE, cpWritten |-> FALSE]

(***************************************************************************)
(* findNextFreePage() returns successfully.  commit() goes on with its     *)
(* next page, unless a checkpoint was written with a new segment's header. *)
(***************************************************************************)
ReturnFromFind ==
  IF frame.caller = "commit" /\ ~ frame.cpWritten
  THEN pc' = "committing" /\ UNCHANGED frame
  ELSE /\ pc' = IF frame.caller = "commit" THEN "committed" ELSE "ready"
       /\ frame' = NoFrame

-----------------------------------------------------------------------------
(***************************************************************************)
(* Initially the flash was found empty: sequencingBooting() has written a  *)
(* header in the first valid EU of each reserve slot and the header of     *)
(* segment 0, with its checkpoint, in slot 0, whose first two EUs are      *)
(* valid here (handleFlashIsEmpty() returns without findNextFreePage()).   *)
(***************************************************************************)
FirstValidEu(slot) == CHOOSE e \in ValidEus(slot) :
                        \A f \in ValidEus(slot) : e <= f

FormattedPage(slot, off) ==
  IF slot \in ReserveSegments /\ off = FirstValidEu(slot) * PagesPerEu
  THEN HeaderPage("reserve", slot, slot - SEQ_FIRST_RESERVE_SEGMENT,
                  SEQ_RESERVE_EU_IS_HEADER)
  ELSE IF slot = 0 /\ off = 0
  THEN HeaderPage("header", 0, KReserve, SEQ_NO_SLOT_AND_EU_OFFSET)
  ELSE IF slot = 0 /\ off \in 1 .. CpPages
  THEN CheckpointPage(set_cp_page_flag(off - 1), SEQ_NO_SLOT_AND_EU_OFFSET)
  ELSE ErasedPage

Init ==
  /\ flash = [s \in Slots |-> [o \in Offsets |-> FormattedPage(s, o)]]
  /\ seg_to_slot_map = [s \in Slots |->
       IF s = 0 \/ s \in ReserveSegments THEN s ELSE SEQ_NO_SLOT]
  /\ reclaimed_segment = 0 /\ reclaimed_offset = HeaderPages
  /\ previously_written_segment = SEQ_NO_SEGMENT_NUM
  /\ new_slot_id = 0 /\ nSegments = 1
  /\ is_eu_reserve = FALSE /\ reserve_eu_addr = SEQ_PHY_ADDRESS_EMPTY
  /\ sequence_num = KReserve
  /\ counters = [i \in 0 .. (NSlots \div 2) - 1 |-> 0]
  /\ counter = 0
  /\ free_counter = SEQ_SEGMENTS_COUNT * (PagesPerSlot - HeaderPages)
  /\ pc = "ready" /\ frame = NoFrame /\ trunc = NoTrunc /\ wear = NoWear
  /\ live = {}

-----------------------------------------------------------------------------
(* The calls of the file system.                                           *)

(* The page the next block goes to exists.                                 *)
TargetExists == calc_target_phy_addr[1] \in Slots

(* Fault: a reclaimed page is taken off free_counter as well.              *)
EveryPageIsFresh == 1

(* Only a fresh page is taken off free_counter: in reclamation             *)
(* is_page_to_copy() already took the page off its counter.                *)
FreshPagesTaken == IF IS_STATE_RECLAMATION THEN 0 ELSE 1

(***************************************************************************)
(* The write in allocAndWriteBlock(), a data page or one of a checkpoint.  *)
(***************************************************************************)
AllocAndWrite(page, freed) ==
  /\ ~ is_flash_full /\ ~ IS_NO_RESERVE_EUS /\ TargetExists
  /\ flash' = writeBlock(calc_target_phy_addr, page)
  /\ free_counter' = free_counter + freed - FreshPagesTaken
  /\ reclaimed_offset' = reclaimed_offset + 1
  /\ UNCHANGED <<slotVars, reclaimed_segment, reserveVars, sequence_num,
                 counters, counter, trunc, wear>>

(* handleMinPages() lets the transaction write: one that unlinks always    *)
(* (MinFreePages = 0), another one while IS_MIN_FREE_PAGES_REACHED() is    *)
(* false.  The cache of dirty pages is disabled in this build.             *)
WritePermitted == MinFreePages = 0 \/ calcTotalFreePages > MinFreePages

(* allocAndWriteBlock() up to its call of findNextFreePage(), called by    *)
(* allocAndWriteBlockTid().                                                *)
AllocAndWriteBlock ==
  /\ pc \in Callable /\ sequence_num < MaxSequence
  /\ WritePermitted
  /\ LET la == <<reclaimed_segment, reclaimed_offset>>
     IN  /\ AllocAndWrite(DataPage(la, SEQ_NO_SLOT_AND_EU_OFFSET), 0)
         /\ live' = live \cup {la}
  /\ CallFindNextFreePage("alloc", 0)

(***************************************************************************)
(* One page of a checkpoint in commit(): the first one, or the next one    *)
(* when a page before it did not fill a segment.  The last page does not   *)
(* look for the next free page.                                            *)
(***************************************************************************)
CommitPage ==
  /\ \/ pc \in Callable /\ sequence_num < MaxSequence
     \/ pc = "committing"
  /\ AllocAndWrite(CheckpointPage(set_cp_page_flag(frame.cp),
                                  SEQ_NO_SLOT_AND_EU_OFFSET), 1)
  /\ IF frame.cp = CpPages - 1
     THEN pc' = "committed" /\ frame' = NoFrame
     ELSE CallFindNextFreePage("commit", frame.cp + 1)
  /\ UNCHANGED live

(* commit() after an error: the free page is counted before the write is   *)
(* refused.                                                                *)
CommitRefused ==
  /\ pc \in Callable /\ sequence_num < MaxSequence
  /\ is_flash_full \/ IS_NO_RESERVE_EUS
  /\ free_counter' = free_counter + 1
  /\ pc' = "failed"
  /\ UNCHANGED <<flash, slotVars, positionVars, reserveVars, sequence_num,
                 counters, counter, frame, trunc, wear, live>>

(* The file system prepares the next write once its commit is done.        *)
FindNextFreePage ==
  /\ pc = "committed"
  /\ CallFindNextFreePage("find", 0)
  /\ UNCHANGED <<flash, slotVars, positionVars, reserveVars, sequence_num,
                 counters, countVars, trunc, wear, live>>

(* Fault: the first obsolete page of a segment is left to chance too.      *)
CountByChance(seg, toss) == IF toss THEN increment_counter(seg) ELSE counters

(* The level of a segment after one more of its pages became obsolete.     *)
CountObsolete(seg, toss) ==
  IF get_counter_level(seg) = OBS_COUNT_NO_OBSOLETES
  THEN change_counter_level(OBS_COUNT_LEVEL_0, seg)
  ELSE IF toss THEN increment_counter(seg) ELSE counters

(* markAsObsolete(), with the outcome of gen_rand_bit(OBS_NEEDED_PROB).    *)
MarkAsObsolete(la, toss) ==
  /\ pc \in Callable \cup {"committed"}
  /\ LET phy == logicalAddressToPhysical(la)
     IN  /\ phy # SEQ_PHY_ADDRESS_EMPTY
         /\ ~ flash[phy[1]][phy[2]].obs
         /\ flash' = nandProgramPageC(flash, phy)
  /\ counter' = counter + 1
  /\ counters' = CountObsolete(la[1], toss)
  /\ live' = live \ {la}
  /\ UNCHANGED <<slotVars, positionVars, reserveVars, sequence_num,
                 free_counter, pc, frame, trunc, wear>>

-----------------------------------------------------------------------------
(* findNextFreePage()                                                      *)

(* Every segment was visited: ERROR_FLASH_FULL.                            *)
IterationsExhausted ==
  /\ pc = "head" /\ frame.iterations = 0
  /\ pc' = "full" /\ frame' = NoFrame
  /\ UNCHANGED <<flash, slotVars, positionVars, reserveVars, sequence_num,
                 counters, countVars, trunc, wear, live>>

(* The inner loop runs on the page at reclaimed_offset.                    *)
AtPage ==
  /\ pc = "scan" \/ (pc = "head" /\ frame.iterations > 0)
  /\ ~ IS_SEG_MAP_PAGE_OFFSET_OVERFLOWING

(* A new EU is entered and its replacement is needed.                      *)
EntersBadEu ==
  /\ AtEuStart(reclaimed_offset)
  /\ ~ seq_check_eu_status(CALC_ADDRESS(TargetSlot, reclaimed_offset))

ReserveForTarget == allocReserveEU(CALC_ADDRESS(TargetSlot, reclaimed_offset))

(* is_eu_reserve and reserve_eu_addr for the page at reclaimed_offset.     *)
EnteredReserve ==
  IF ~ AtEuStart(reclaimed_offset) THEN <<is_eu_reserve, reserve_eu_addr>>
  ELSE IF EntersBadEu THEN <<TRUE, ReserveForTarget>>
  ELSE <<FALSE, SEQ_PHY_ADDRESS_EMPTY>>

(* No EU is left for a bad one: ERROR_NO_RESERVE_EU.                       *)
NoReserveEu ==
  /\ AtPage /\ EntersBadEu /\ ReserveForTarget = SEQ_PHY_ADDRESS_EMPTY
  /\ is_eu_reserve' = TRUE /\ reserve_eu_addr' = SEQ_PHY_ADDRESS_EMPTY
  /\ pc' = "noreserve" /\ frame' = NoFrame
  /\ UNCHANGED <<flash, slotVars, positionVars, sequence_num, counters,
                 countVars, trunc, wear, live>>

EnterPage ==
  /\ AtPage
  /\ ~ (EntersBadEu /\ ReserveForTarget = SEQ_PHY_ADDRESS_EMPTY)
  /\ is_eu_reserve'   = EnteredReserve[1]
  /\ reserve_eu_addr' = EnteredReserve[2]

(* Not in reclamation: the page is fresh.                                  *)
FoundFreshPage ==
  /\ EnterPage /\ ~ IS_STATE_RECLAMATION
  /\ ReturnFromFind
  /\ UNCHANGED <<flash, slotVars, positionVars, sequence_num, counters,
                 countVars, trunc, wear, live>>

(* The old generation of the page at reclaimed_offset.                     *)
OldPhy  == logicalAddressToPhysical(<<reclaimed_segment, reclaimed_offset>>)
OldPage == flash[OldPhy[1]][OldPhy[2]]

(* is_page_to_copy() says no: the page's place can be written again.       *)
FoundReclaimedPage ==
  /\ EnterPage /\ IS_STATE_RECLAMATION
  /\ \/ /\ OldPage.obs
        /\ counter' = counter - 1 /\ UNCHANGED free_counter
     \/ /\ ~ OldPage.obs /\ OldPage.cp # "none"
        /\ free_counter' = free_counter - 1 /\ UNCHANGED counter
  /\ ReturnFromFind
  /\ UNCHANGED <<flash, slotVars, positionVars, sequence_num, counters,
                 trunc, wear, live>>

(***************************************************************************)
(* copyValidBlock(): the page moves to the new slot.  Its tag names the    *)
(* reserve EU it comes from or, when it comes from a regular one, EU 0 of  *)
(* slot 0 (findNextFreePage() passes 0 and not SEQ_PHY_ADDRESS_EMPTY).     *)
(***************************************************************************)
CopyTag == IF OldPhy[1] \in ReserveSlots THEN SlotAndEu(OldPhy) ELSE <<0, 0>>

CopyTarget ==
  IF EnteredReserve[2] # SEQ_PHY_ADDRESS_EMPTY
  THEN InEu(EnteredReserve[2], reclaimed_offset)
  ELSE CALC_ADDRESS(TargetSlot, reclaimed_offset)

CopyValidBlock ==
  /\ EnterPage /\ IS_STATE_RECLAMATION
  /\ ~ OldPage.obs /\ OldPage.cp = "none"
  /\ flash' = WriteBlockWith(EnteredReserve[1], EnteredReserve[2], CopyTarget,
                             [OldPage EXCEPT !.tag = CopyTag])
  /\ reclaimed_offset' = reclaimed_offset + 1
  /\ pc' = "scan"
  /\ UNCHANGED <<slotVars, reclaimed_segment, sequence_num, counters,
                 countVars, frame, trunc, wear, live>>

(* The whole segment was copied without finding a free page.               *)
EndSegment ==
  /\ pc = "scan" /\ IS_SEG_MAP_PAGE_OFFSET_OVERFLOWING
  /\ counters' = IF frame.moved
                 THEN change_counter_level(OBS_COUNT_FULL, reclaimed_segment)
                 ELSE counters
  /\ frame' = [frame EXCEPT !.iterations = @ - 1]
  /\ pc' = "head"
  /\ UNCHANGED <<flash, slotVars, positionVars, reserveVars, sequence_num,
                 countVars, trunc, wear, live>>

-----------------------------------------------------------------------------
(* moveToNextSegment()                                                     *)

(* Fault: the last EU of the slot is not erased.                           *)
TruncateAllButLast(slot, isSlotReserve, next) ==
  /\ pc' = "truncate"
  /\ trunc' = [slot |-> slot, eu |-> EusPerSlot - 2,
               isSlotReserve |-> isSlotReserve, next |-> next]

(* truncateSlot() is called; next is what follows it.                      *)
CallTruncateSlot(slot, isSlotReserve, next) ==
  /\ pc' = "truncate"
  /\ trunc' = [slot |-> slot, eu |-> EusPerSlot - 1,
               isSlotReserve |-> isSlotReserve, next |-> next]

MoveToNextSegment ==
  /\ pc = "head" /\ frame.iterations > 0 /\ IS_SEG_MAP_PAGE_OFFSET_OVERFLOWING
  /\ IF IS_STATE_RECLAMATION
     THEN CallTruncateSlot(seg_to_slot_map[reclaimed_segment], FALSE, "switch")
     ELSE pc' = "switch" /\ UNCHANGED trunc
  /\ UNCHANGED <<flash, slotVars, positionVars, reserveVars, sequence_num,
                 counters, countVars, frame, wear, live>>

(* Fault: the EU that stands for a bad one is not erased.                  *)
TruncateOwnEu == <<trunc.slot, trunc.eu * PagesPerEu>>

(* The EU this round of truncateSlot() erases.                             *)
TruncatedEu ==
  LET phy == <<trunc.slot, trunc.eu * PagesPerEu>>
  IN  IF trunc.isSlotReserve THEN phy ELSE StoredAt(phy)

(* One round of truncateSlot(), from the last EU to the first one.         *)
Truncate ==
  /\ pc = "truncate"
  /\ flash' = IF TruncatedEu = SEQ_PHY_ADDRESS_EMPTY THEN flash
              ELSE nandErase(flash, TruncatedEu[1], EuOf(TruncatedEu[2]))
  /\ IF trunc.eu = 0
     THEN pc' = trunc.next /\ trunc' = NoTrunc
     ELSE pc' = pc /\ trunc' = [trunc EXCEPT !.eu = @ - 1]
  /\ UNCHANGED <<slotVars, positionVars, reserveVars, sequence_num, counters,
                 countVars, frame, wear, live>>

(***************************************************************************)
(* All segments have a slot: the slot that was truncated, or the one no    *)
(* segment has used yet, is the new one.                                   *)
(***************************************************************************)
SwitchToReclamation ==
  /\ pc = "switch" /\ ALL_SEGMENTS_ALLOCATED
  /\ previously_written_segment' = reclaimed_segment
  /\ IF IS_STATE_RECLAMATION
     THEN /\ seg_to_slot_map' =
               [seg_to_slot_map EXCEPT ![reclaimed_segment] = new_slot_id]
          /\ new_slot_id' = seg_to_slot_map[reclaimed_segment]
     ELSE /\ new_slot_id' = SEQ_SEGMENTS_COUNT
          /\ UNCHANGED seg_to_slot_map
  /\ pc' = "toss"
  /\ UNCHANGED <<flash, nSegments, positionVars, reserveVars, sequence_num,
                 counters, countVars, frame, trunc, wear, live>>

(* The next segment is allocated in the next slot.                         *)
AllocateSegment ==
  /\ pc = "switch" /\ ~ ALL_SEGMENTS_ALLOCATED
  /\ previously_written_segment' = reclaimed_segment
  /\ new_slot_id' = new_slot_id + 1
  /\ nSegments' = nSegments + 1
  /\ reclaimed_segment' = reclaimed_segment + 1
  /\ reclaimed_offset' = 0
  /\ seg_to_slot_map' = [seg_to_slot_map EXCEPT
                           ![reclaimed_segment + 1] = reclaimed_segment + 1]
  /\ pc' = "header"
  /\ UNCHANGED <<flash, reserveVars, sequence_num, counters, countVars,
                 frame, trunc, wear, live>>

(* gen_rand_bit(WEAR_NEEDED_PROB) decides against wear leveling.           *)
SkipWearLeveling ==
  /\ pc = "toss" /\ pc' = "choose"
  /\ UNCHANGED <<flash, slotVars, positionVars, reserveVars, sequence_num,
                 counters, countVars, frame, trunc, wear, live>>

(* findSegmentToReclaim(): the highest level, the lowest segment.          *)
Reclaimable ==
  {s \in DataSegments \ {reclaimed_segment} :
     get_counter_level(s) \notin {OBS_COUNT_NO_OBSOLETES, OBS_COUNT_FULL}}

ReclaimLevel(s) == IF get_counter_level(s) > OBS_COUNT_LEVEL_7
                   THEN OBS_COUNT_LEVEL_7 ELSE get_counter_level(s)

SegmentToReclaim ==
  CHOOSE s \in Reclaimable : \A t \in Reclaimable :
    \/ ReclaimLevel(s) > ReclaimLevel(t)
    \/ ReclaimLevel(s) = ReclaimLevel(t) /\ s <= t

(* Fault: the search starts again instead of returning an error.           *)
ReclaimUntilFound ==
  /\ pc = "choose"
  /\ IF Reclaimable = {}
     THEN pc' = "toss" /\ UNCHANGED <<frame, positionVars>>
     ELSE /\ reclaimed_segment' = SegmentToReclaim
          /\ reclaimed_offset' = 0
          /\ pc' = "header" /\ UNCHANGED frame
  /\ UNCHANGED <<flash, slotVars, reserveVars, sequence_num, counters,
                 countVars, trunc, wear, live>>

FindSegmentToReclaim ==
  /\ pc = "choose"
  /\ IF Reclaimable = {}
     THEN pc' = "full" /\ frame' = NoFrame /\ UNCHANGED positionVars
     ELSE /\ reclaimed_segment' = SegmentToReclaim
          /\ reclaimed_offset' = 0
          /\ pc' = "header" /\ UNCHANGED frame
  /\ UNCHANGED <<flash, slotVars, reserveVars, sequence_num, counters,
                 countVars, trunc, wear, live>>

(***************************************************************************)
(* writeSegmentHeader().  is_eu_reserve and reserve_eu_addr are set when   *)
(* the first EU of the new slot is bad; when it is valid they keep what    *)
(* they were for the last EU of the segment before.                        *)
(***************************************************************************)
FirstPage  == CALC_ADDRESS(new_slot_id, 0)

HeaderTag  == IF is_eu_reserve' THEN SlotAndEu(FirstPage)
              ELSE SEQ_NO_SLOT_AND_EU_OFFSET
HeaderPhy  == IF is_eu_reserve' THEN reserve_eu_addr' ELSE FirstPage

(* Fault: the header carries the sequence number of the one before it.     *)
HeaderBeforeIncrement ==
  HeaderPage("header", reclaimed_segment, sequence_num, HeaderTag)

SegmentHeader ==
  HeaderPage("header", reclaimed_segment, sequence_num', HeaderTag)

NoReserveForHeader ==
  /\ pc = "header" /\ ~ seq_check_eu_status(FirstPage)
  /\ allocReserveEU(FirstPage) = SEQ_PHY_ADDRESS_EMPTY
  /\ is_eu_reserve' = TRUE /\ UNCHANGED reserve_eu_addr
  /\ pc' = "noreserve" /\ frame' = NoFrame
  /\ UNCHANGED <<flash, slotVars, positionVars, sequence_num, counters,
                 countVars, trunc, wear, live>>

WriteSegmentHeader ==
  /\ pc = "header"
  /\ \/ seq_check_eu_status(FirstPage) /\ UNCHANGED reserveVars
     \/ /\ ~ seq_check_eu_status(FirstPage)
        /\ allocReserveEU(FirstPage) # SEQ_PHY_ADDRESS_EMPTY
        /\ is_eu_reserve' = TRUE
        /\ reserve_eu_addr' = allocReserveEU(FirstPage)
  /\ sequence_num' = sequence_num + 1
  /\ flash' = nandProgramPageA(flash, HeaderPhy, SegmentHeader)
  /\ reclaimed_offset' = reclaimed_offset + 1
  /\ pc' = "headerCp"
  /\ UNCHANGED <<slotVars, reclaimed_segment, counters, countVars, frame,
                 trunc, wear, live>>

(***************************************************************************)
(* commit() as part of a header, and after its last page the end of        *)
(* moveToNextSegment().                                                    *)
(***************************************************************************)
WriteHeaderCheckpoint ==
  /\ pc = "headerCp"
  /\ flash' = writeBlock(calc_target_phy_addr,
                CheckpointPage(set_cp_page_flag(reclaimed_offset - 1),
                               SEQ_NO_SLOT_AND_EU_OFFSET))
  /\ reclaimed_offset' = reclaimed_offset + 1
  /\ IF reclaimed_offset < CpPages
     THEN UNCHANGED <<pc, frame, counters>>
     ELSE /\ counters' =
               IF IS_STATE_RECLAMATION
               THEN change_counter_level(OBS_COUNT_NO_OBSOLETES,
                                         reclaimed_segment)
               ELSE counters
          /\ frame' = [frame EXCEPT !.moved = TRUE, !.cpWritten = TRUE]
          /\ pc' = "scan"
  /\ UNCHANGED <<slotVars, reclaimed_segment, reserveVars, sequence_num,
                 countVars, trunc, wear, live>>

-----------------------------------------------------------------------------
(* performWearLeveling()                                                   *)

(* The slot the generator yields, or its mirror image if that is the new   *)
(* slot itself.                                                            *)
RandomSlot(r) == IF r = new_slot_id THEN NSlots - 1 - r ELSE r

(* The lowest segment in a slot, segment 0 when there is none.             *)
SegmentsIn(slot) == {s \in Slots : seg_to_slot_map[s] = slot}
OrgSegment(slot) ==
  IF SegmentsIn(slot) = {} THEN 0
  ELSE CHOOSE s \in SegmentsIn(slot) : \A t \in SegmentsIn(slot) : s <= t

(* A reserve slot is only moved to a slot with as many valid EUs.          *)
EnoughValidEus(slot) ==
  OrgSegment(slot) \in ReserveSegments =>
    Cardinality(ValidEus(new_slot_id)) >= Cardinality(ValidEus(slot))

StartWearLeveling(r) ==
  LET slot == RandomSlot(r)
  IN  /\ pc = "toss"
      /\ IF EnoughValidEus(slot)
         THEN /\ pc' = "wear"
              /\ wear' = [random_slot   |-> slot,
                          org_seg       |-> OrgSegment(slot),
                          isSlotReserve |-> OrgSegment(slot) \in ReserveSegments,
                          from |-> 0, to |-> 0,
                          from_phy |-> CALC_ADDRESS(slot, 0),
                          to_phy   |-> CALC_ADDRESS(new_slot_id, 0),
                          isToReserve |-> FALSE]
         ELSE pc' = "choose" /\ UNCHANGED wear
      /\ UNCHANGED <<flash, slotVars, positionVars, reserveVars, sequence_num,
                     counters, countVars, frame, trunc, live>>

(* The loop of the copy runs.                                              *)
Wearing == pc = "wear" /\ wear.to < PagesPerSlot /\ wear.from < PagesPerSlot

WearUnchanged ==
  UNCHANGED <<slotVars, positionVars, reserveVars, sequence_num, counters,
              countVars, frame, live>>

(***************************************************************************)
(* copyPage(): the flash after page from is copied to page to.  org is the *)
(* regular page a reserve page stands for; past the first page of an EU it *)
(* is SEQ_PHY_ADDRESS_EMPTY, whose tag is all ones.                        *)
(***************************************************************************)
copyPage(to, from, isToReserve, org, isSlotReserve) ==
  LET page == flash[from[1]][from[2]]
  IN  nandProgramPageA(flash, to,
        [page EXCEPT !.tag = IF isToReserve THEN SlotAndEu(org)
                             ELSE IF ~ isSlotReserve
                             THEN SEQ_NO_SLOT_AND_EU_OFFSET ELSE @])

NextPage(phy) == CALC_ADDRESS(phy[1], phy[2] + 1)

(* Within an EU both addresses just advance.                               *)
WearCopyInEu ==
  /\ Wearing /\ ~ AtEuStart(wear.to)
  /\ flash' = copyPage(wear.to_phy, wear.from_phy, wear.isToReserve,
                       SEQ_PHY_ADDRESS_EMPTY, wear.isSlotReserve)
  /\ wear' = [wear EXCEPT !.from = @ + 1, !.to = @ + 1,
                          !.from_phy = NextPage(@), !.to_phy = NextPage(@)]
  /\ WearUnchanged /\ UNCHANGED <<pc, trunc>>

(* At the start of an EU: the pages the offsets name.                      *)
WearFrom == CALC_ADDRESS(wear.random_slot, wear.from)
WearTo   == CALC_ADDRESS(new_slot_id, wear.to)

(* A bad EU of a reserve slot has nothing to copy.                         *)
WearSkipBadReserve ==
  /\ Wearing /\ AtEuStart(wear.to)
  /\ wear.isSlotReserve /\ ~ seq_check_eu_status(WearFrom)
  /\ wear' = [wear EXCEPT !.from = @ + PagesPerEu, !.from_phy = WearFrom,
                          !.to_phy = WearTo]
  /\ WearUnchanged /\ UNCHANGED <<flash, pc, trunc>>

(* EUs from phy on until a valid one.                                      *)
PlusEus(phy, k) == CALC_ADDRESS(phy[1], phy[2] + k * PagesPerEu)
BadEusAt(phy) ==
  CHOOSE k \in 0 .. NSlots * EusPerSlot :
    /\ seq_check_eu_status(PlusEus(phy, k))
    /\ \A j \in 0 .. k - 1 : ~ seq_check_eu_status(PlusEus(phy, j))

(* An unused EU of a reserve slot is not copied.                           *)
WearSkipUnused ==
  /\ Wearing /\ AtEuStart(wear.to)
  /\ wear.isSlotReserve /\ seq_check_eu_status(WearFrom)
  /\ PageIsEmpty(flash, WearFrom)
  /\ LET k == BadEusAt(WearTo)
     IN  wear' = [wear EXCEPT !.from = @ + PagesPerEu, !.to = @ + k,
                              !.from_phy = PlusEus(WearFrom, 1),
                              !.to_phy = PlusEus(WearTo, k)]
  /\ WearUnchanged /\ UNCHANGED <<flash, pc, trunc>>

(* The first page of an EU of a reserve slot goes to the next valid EU.    *)
WearCopyReserveEu ==
  /\ Wearing /\ AtEuStart(wear.to)
  /\ wear.isSlotReserve /\ seq_check_eu_status(WearFrom)
  /\ ~ PageIsEmpty(flash, WearFrom)
  /\ LET k  == BadEusAt(WearTo)
         to == PlusEus(WearTo, k)
     IN  /\ flash' = copyPage(to, WearFrom, FALSE, WearTo, TRUE)
         /\ wear' = [wear EXCEPT !.from = @ + 1,
                                 !.to = @ + k * PagesPerEu + 1,
                                 !.from_phy = NextPage(WearFrom),
                                 !.to_phy = NextPage(to),
                                 !.isToReserve = FALSE]
  /\ WearUnchanged /\ UNCHANGED <<pc, trunc>>

(* The first page of an EU of a data slot; both EUs may be replaced ones.  *)
WearNeedsReserve == ~ seq_check_eu_status(WearTo)

WearCopyDataEu ==
  /\ Wearing /\ AtEuStart(wear.to) /\ ~ wear.isSlotReserve
  /\ WearNeedsReserve => allocReserveEU(WearTo) # SEQ_PHY_ADDRESS_EMPTY
  /\ LET from == StoredAt(WearFrom)
         to   == IF WearNeedsReserve THEN allocReserveEU(WearTo) ELSE WearTo
     IN  /\ flash' = copyPage(to, from, WearNeedsReserve, WearTo, FALSE)
         /\ wear' = [wear EXCEPT !.from = @ + 1, !.to = @ + 1,
                                 !.from_phy = NextPage(from),
                                 !.to_phy = NextPage(to),
                                 !.isToReserve = WearNeedsReserve]
  /\ WearUnchanged /\ UNCHANGED <<pc, trunc>>

(* No EU left: what was copied is erased and wear leveling is given up.    *)
WearGiveUp ==
  /\ Wearing /\ AtEuStart(wear.to) /\ ~ wear.isSlotReserve
  /\ WearNeedsReserve /\ allocReserveEU(WearTo) = SEQ_PHY_ADDRESS_EMPTY
  /\ CallTruncateSlot(new_slot_id, FALSE, "choose")
  /\ wear' = NoWear
  /\ WearUnchanged /\ UNCHANGED flash

(* The copy is complete: the original is erased, then the slots trade      *)
(* places in the segment map.                                              *)
WearCopied ==
  /\ pc = "wear" /\ ~ Wearing
  /\ CallTruncateSlot(wear.random_slot, wear.isSlotReserve, "swap")
  /\ WearUnchanged /\ UNCHANGED <<flash, wear>>

(* Fault: the segment that was moved keeps its old slot.                   *)
MovedSegmentForgotten ==
  [seg_to_slot_map EXCEPT ![SEQ_NEW_SEGMENT] = wear.random_slot]

SwappedMap ==
  [seg_to_slot_map EXCEPT ![SEQ_NEW_SEGMENT] = wear.random_slot,
                          ![wear.org_seg] = new_slot_id]

SwapSlots ==
  /\ pc = "swap"
  /\ new_slot_id' = wear.random_slot
  /\ seg_to_slot_map' = SwappedMap
  /\ wear' = NoWear
  /\ pc' = "choose"
  /\ UNCHANGED <<flash, nSegments, previously_written_segment, positionVars,
                 reserveVars, sequence_num, counters, countVars, frame, trunc,
                 live>>

-----------------------------------------------------------------------------
(* What the sequencing layer does until it returns.                        *)
FindStep ==
  \/ IterationsExhausted \/ NoReserveEu \/ FoundFreshPage
  \/ FoundReclaimedPage \/ CopyValidBlock \/ EndSegment
MoveStep ==
  \/ MoveToNextSegment \/ Truncate \/ SwitchToReclamation \/ AllocateSegment
  \/ FindSegmentToReclaim \/ NoReserveForHeader \/ WriteSegmentHeader
  \/ WriteHeaderCheckpoint
WearStep ==
  \/ SkipWearLeveling
  \/ \E r \in RandomSlots : StartWearLeveling(r)
  \/ WearCopyInEu \/ WearSkipBadReserve \/ WearSkipUnused
  \/ WearCopyReserveEu \/ WearCopyDataEu \/ WearGiveUp \/ WearCopied
  \/ SwapSlots

(* What the file system decides.                                           *)
ClientStep ==
  \/ AllocAndWriteBlock
  \/ CommitPage \/ CommitRefused
  \/ FindNextFreePage
  \/ \E la \in live, toss \in ObsTosses : MarkAsObsolete(la, toss)

Next == ClientStep \/ FindStep \/ MoveStep \/ WearStep

Spec == Init /\ [][Next]_vars

(* A call runs to its end: nothing preempts it.                            *)
Running == FindStep \/ MoveStep \/ WearStep \/ (pc = "committing" /\ CommitPage)

FairSpec == Spec /\ WF_vars(Running)
=============================================================================

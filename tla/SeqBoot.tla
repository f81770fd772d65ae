------------------------------- MODULE SeqBoot -------------------------------
(***************************************************************************)
(* Power failures and the recovery of the sequencing layer.  The power     *)
(* fails between two flash operations: the flash keeps its pages, the      *)
(* memory is lost.  sequencingBooting() finds the reserve slots, finishes  *)
(* an interrupted copy back, finds the slots of the data segments, the     *)
(* last written page and the last checkpoint, clears what was written      *)
(* after it and goes on from there; it may be interrupted as well.  On an  *)
(* erased flash it writes the headers of the reserve segments and of       *)
(* segment 0.                                                              *)
(*                                                                         *)
(* Bad EUs and reserve slots moved by wear leveling are not part of this   *)
(* module (BootAssumption).  What a checkpoint holds is kept in the ghost  *)
(* committed, with the place where the last complete one was written: the  *)
(* recovery must find that one.                                            *)
(***************************************************************************)
EXTENDS SequencingProperties

CONSTANTS
  MaxFailures,      (* bound: power failures                               *)
  FailReclaiming,   (* positions in a reclaimed segment where power fails  *)
  FailHalfSaved     (* whether it fails while a copy-back EU is half saved *)

ASSUME BootAssumption ==
  /\ BadEus = {} /\ RandomSlots \cap ReserveSegments = {}
  /\ MaxFailures \in Nat /\ FailReclaiming \subseteq 0 .. PagesPerSlot
  /\ FailHalfSaved \in BOOLEAN
  /\ CallAfter = {}

VARIABLES
  boot,             (* locals of sequencingBooting()                       *)
  cback,            (* locals of copyBackSimple()                          *)
  committed,        (* ghost: the last complete checkpoint                 *)
  failures

bootVars == <<vars, boot, cback, committed, failures>>
ghosts   == <<live, committed, failures>>

(* slot: the slot looked at; last: the last page not yet cleared; cp: the  *)
(* last page of the checkpoint found.                                      *)
NoBoot     == [slot |-> 0, last |-> 0, cp |-> 0]
NoCopyBack == [org |-> <<0, 0>>, count |-> 0, i |-> 0, stage |-> "save",
               next |-> "bootFind"]

SEQ_NO_SEQUENCE_NUM == 0 - 1    (* all ones: one more is 0                  *)

BootPcs == {"bootReserve", "bootReserveHeader", "bootCopyBack", "bootData",
            "format", "formatCp", "copyBack", "bootInvalid", "bootFind",
            "bootErase", "bootRead"}
Booting == pc \in BootPcs \/ (pc = "truncate" /\ trunc.next \in
                                {"bootData", "bootFailed"})

-----------------------------------------------------------------------------
(* The search for the last written page.                                   *)

IsUsed(slot, off) == ~ PageIsEmpty(flash, <<slot, off>>)

(* POWER_NAND_PAGES_PER_ERASE_UNIT                                          *)
EuPower == CHOOSE n \in 0 .. PagesPerEu :
             2 ^ n >= PagesPerEu /\ \A m \in 0 .. n - 1 : 2 ^ m < PagesPerEu

(* findLastValidPageInEU(): the interval after n halvings.                 *)
HalvedEu(slot, eu, n) ==
  LET h[i \in 0 .. n] ==
        IF i = 0 THEN <<eu * PagesPerEu, (eu + 1) * PagesPerEu - 1>>
        ELSE LET mid == (h[i - 1][1] + h[i - 1][2]) \div 2
             IN  IF IsUsed(slot, mid) THEN <<mid, h[i - 1][2]>>
                 ELSE <<h[i - 1][1], mid>>
  IN  h[n]

findLastValidPageInEU(slot, eu) ==
  LET h == HalvedEu(slot, eu, EuPower)
  IN  IF IsUsed(slot, h[2]) THEN h[2] ELSE h[1]

(* The loop of findLastValidPageInSlot(): it ends when two EUs are left.   *)
HalvedSlot(slot) ==
  LET h[i \in 0 .. EusPerSlot] ==
        IF i = 0 THEN <<0, EusPerSlot - 1>>
        ELSE LET s   == h[i - 1][1]
                 e   == h[i - 1][2]
                 mid == (s + e) \div 2
             IN  IF e - s <= 1 THEN <<s, e>>
                 ELSE IF IsUsed(slot, mid * PagesPerEu) THEN <<mid, e>>
                 ELSE <<s, mid>>
  IN  h[EusPerSlot]

findLastValidPageInSlot(slot) ==
  LET h == HalvedSlot(slot)
  IN  findLastValidPageInEU(slot,
        IF IsUsed(slot, h[2] * PagesPerEu) THEN h[2] ELSE h[1])

(* getLastValidEuPage(): every round looks at the first page of the EU.    *)
getLastValidEuPage(eu) ==
  IF IsUsed(eu[1], eu[2] * PagesPerEu) THEN PagesPerEu - 1 ELSE 0

-----------------------------------------------------------------------------
(* Power.                                                                  *)

(* init_seg_map(), init_obs_counters() and the locals of the boot.         *)
PowerOn ==
  /\ seg_to_slot_map' = [s \in Slots |-> SEQ_NO_SLOT]
  /\ reclaimed_segment' = SEQ_NO_SEGMENT_NUM
  /\ reclaimed_offset' = PagesPerSlot
  /\ previously_written_segment' = SEQ_NO_SEGMENT_NUM
  /\ new_slot_id' = SEQ_NO_SLOT /\ nSegments' = 0
  /\ is_eu_reserve' = FALSE /\ reserve_eu_addr' = SEQ_PHY_ADDRESS_EMPTY
  /\ sequence_num' = SEQ_NO_SEQUENCE_NUM
  /\ counters' = [i \in 0 .. (NSlots \div 2) - 1 |-> OBS_COUNT_NO_OBSOLETES]
  /\ counter' = 0 /\ free_counter' = 0
  /\ frame' = NoFrame /\ trunc' = NoTrunc /\ wear' = NoWear
  /\ boot' = NoBoot /\ cback' = NoCopyBack
  /\ pc' = "bootReserve"

(***************************************************************************)
(* Where the power may fail: anywhere while segments are allocated, at the *)
(* chosen positions when a segment is reclaimed, also after a boot has     *)
(* cleared pages of it.                                                    *)
(***************************************************************************)
HalfSaved == cback.stage = "save" /\ cback.i \in 1 .. cback.count - 1
MayFail ==
  /\ pc # "bootFailed"
  /\ FailHalfSaved \/ ~ HalfSaved
  /\ CASE \/ pc \in {"bootErase", "bootRead"} /\ IS_STATE_RECLAMATION
          \/ pc = "copyBack" /\ cback.i = 0 /\ cback.stage = "save"
             /\ cback.next # "bootData" /\ IS_STATE_RECLAMATION ->
            findLastValidPageInSlot(new_slot_id) + 1 \in FailReclaiming
       [] ~ Booting /\ IS_STATE_RECLAMATION -> reclaimed_offset \in FailReclaiming
       [] OTHER -> TRUE

PowerFailure ==
  /\ failures < MaxFailures /\ MayFail
  /\ PowerOn
  /\ failures' = failures + 1
  /\ live' = {}
  /\ UNCHANGED <<flash, committed>>

(* A checkpoint was completed: what it holds and where it is.  commit()    *)
(* counts its own page as free before it is written.                       *)
Checkpoint(freed) ==
  [seg |-> reclaimed_segment, offset |-> reclaimed_offset,
   sn |-> sequence_num, counters |-> counters, counter |-> counter,
   free |-> free_counter + freed, live |-> live]

NoCheckpoint ==
  [seg |-> SEQ_NO_SEGMENT_NUM, offset |-> 0, sn |-> 0,
   counters |-> [i \in 0 .. (NSlots \div 2) - 1 |-> 0], counter |-> 0,
   free |-> 0, live |-> {}]

(***************************************************************************)
(* The running system.  Blocks are marked obsolete after a commit, as      *)
(* commitTransaction() does.                                               *)
(***************************************************************************)
Operate ==
  /\ \/ AllocAndWriteBlock \/ CommitPage \/ FindNextFreePage
     \/ FindStep \/ MoveStep \/ WearStep
     \/ /\ pc = "committed"
        /\ \E la \in committed.live, toss \in ObsTosses :
             la \in live /\ MarkAsObsolete(la, toss)
  /\ committed' = IF pc' = "committed" /\ pc \notin {"committed", "head", "scan"}
                  THEN Checkpoint(1)
                  ELSE IF pc = "headerCp" /\ pc' = "scan" THEN Checkpoint(0)
                  ELSE committed
  /\ UNCHANGED <<boot, cback, failures>>

-----------------------------------------------------------------------------
(* handleReserveSegments()                                                 *)

FirstOf(slot) == flash[slot][0]

(***************************************************************************)
(* One slot: an unused first EU is erased, a reserve header is entered in  *)
(* the map, with the slot and the segment in each other's place.           *)
(***************************************************************************)
BootReserveSlot ==
  /\ pc = "bootReserve" /\ boot.slot < NSlots
  /\ LET s == boot.slot
     IN  /\ flash' = IF IsUsed(s, 0) THEN flash ELSE nandErase(flash, s, 0)
         /\ seg_to_slot_map' =
              IF FirstOf(s).kind = "reserve"
              THEN [seg_to_slot_map EXCEPT ![s] = FirstOf(s).seg]
              ELSE seg_to_slot_map
  /\ boot' = [boot EXCEPT !.slot = @ + 1]
  /\ UNCHANGED <<pc, nSegments, new_slot_id, previously_written_segment,
                 positionVars, reserveVars, sequence_num, counters, countVars,
                 frame, trunc, wear, cback, ghosts>>

MissingReserves == {s \in ReserveSegments : seg_to_slot_map[s] = SEQ_NO_SLOT}

BootReservesDone ==
  /\ pc = "bootReserve" /\ boot.slot = NSlots
  /\ pc' = IF MissingReserves = {} THEN "bootCopyBack" ELSE "bootReserveHeader"
  /\ boot' = NoBoot
  /\ UNCHANGED <<flash, slotVars, positionVars, reserveVars, sequence_num,
                 counters, countVars, frame, trunc, wear, cback, ghosts>>

(* handleReservesAreEmpty(): one writeReserveSegmentHeader().              *)
BootReserveHeader ==
  /\ pc = "bootReserveHeader"
  /\ LET s == CHOOSE m \in MissingReserves : \A n \in MissingReserves : m <= n
     IN  /\ flash' = nandProgramPageA(flash, <<s, 0>>,
                       HeaderPage("reserve", s, sequence_num + 1,
                                  SEQ_RESERVE_EU_IS_HEADER))
         /\ seg_to_slot_map' = [seg_to_slot_map EXCEPT ![s] = s]
         /\ pc' = IF MissingReserves = {s} THEN "bootCopyBack" ELSE pc
  /\ sequence_num' = sequence_num + 1
  /\ UNCHANGED <<nSegments, new_slot_id, previously_written_segment,
                 positionVars, reserveVars, counters, countVars, frame, trunc,
                 wear, boot, cback, ghosts>>

-----------------------------------------------------------------------------
(* Copy back: an EU is saved in the copy-back EU, erased and restored.     *)

MemoryKept == UNCHANGED <<slotVars, reclaimed_segment, reserveVars,
                          sequence_num, counters, countVars, frame, wear>>

(* Fault: the number of pages is kept apart from the address.              *)
CopiedBackApart(seg, off, next) ==
  LET eu == logicalAddressToPhysical(<<seg, EuOf(off) * PagesPerEu>>)
  IN  [org |-> SlotAndEu(eu), count |-> OffsetInEu(off), i |-> 0,
       stage |-> "save", next |-> next]

(***************************************************************************)
(* copyBackEU() for the pages of an EU up to off.  It adds the number of   *)
(* pages to the address of the EU, and copyBackSimple() takes both apart   *)
(* again: a whole EU becomes no page of the EU after it.                   *)
(***************************************************************************)
CopiedBack(seg, off, next) ==
  LET eu  == logicalAddressToPhysical(<<seg, EuOf(off) * PagesPerEu>>)
      end == CALC_ADDRESS(eu[1], eu[2] + OffsetInEu(off) + 1)
  IN  [org |-> SlotAndEu(end), count |-> OffsetInEu(end[2]), i |-> 0,
       stage |-> "save", next |-> next]

CallCopyBackEU(seg, off, next) ==
  /\ cback' = CopiedBack(seg, off, next)
  /\ pc' = IF cback'.org[1] \in Slots THEN "copyBack" ELSE "bootFailed"

CbPage(i)  == <<GET_COPYBACK_EU[1], GET_COPYBACK_EU[2] * PagesPerEu + i>>
OrgPage(i) == <<cback.org[1], cback.org[2] * PagesPerEu + i>>
At(phy)    == flash[phy[1]][phy[2]]

(* copyBackPage(): an unused page is passed over.                          *)
copyBackPage(to, from, flag, tag) ==
  IF PageIsEmpty(flash, from) THEN flash
  ELSE nandProgramPageA(flash, to, [At(from) EXCEPT !.cb = flag, !.tag = tag])

(* One operation of copyBackSimple().                                      *)
CopyBackStep ==
  /\ pc = "copyBack"
  /\ \/ /\ cback.stage = "save" /\ cback.i < cback.count
        /\ flash' = copyBackPage(CbPage(cback.i), OrgPage(cback.i), TRUE,
                                 cback.org)
        /\ cback' = [cback EXCEPT !.i = @ + 1]
        /\ UNCHANGED pc
     \/ /\ cback.stage = "save" /\ cback.i = cback.count
        /\ flash' = nandErase(flash, cback.org[1], cback.org[2])
        /\ cback' = [cback EXCEPT !.i = 0, !.stage = "restore"]
        /\ UNCHANGED pc
     \/ /\ cback.stage = "restore" /\ cback.i < cback.count
        /\ flash' = copyBackPage(OrgPage(cback.i), CbPage(cback.i), FALSE,
                                 SEQ_NO_SLOT_AND_EU_OFFSET)
        /\ cback' = [cback EXCEPT !.i = @ + 1]
        /\ UNCHANGED pc
     \/ /\ cback.stage = "restore" /\ cback.i = cback.count
        /\ flash' = nandErase(flash, GET_COPYBACK_EU[1], GET_COPYBACK_EU[2])
        /\ cback' = NoCopyBack
        /\ pc' = cback.next
  /\ MemoryKept /\ UNCHANGED <<reclaimed_offset, trunc, boot, ghosts>>

(***************************************************************************)
(* handleCopyBack(): an interrupted copy back is known by the flag of the  *)
(* copy-back EU.  It is done again when the EU it comes from seems longer, *)
(* otherwise that EU is erased and restored.                               *)
(***************************************************************************)
HandleCopyBack ==
  /\ pc = "bootCopyBack"
  /\ IF ~ At(CbPage(0)).cb
     THEN pc' = "bootData" /\ UNCHANGED <<flash, cback>>
     ELSE LET org == At(CbPage(0)).tag
              redo == getLastValidEuPage(org) > getLastValidEuPage(GET_COPYBACK_EU)
          IN  /\ flash' = IF redo
                          THEN nandErase(flash, GET_COPYBACK_EU[1], GET_COPYBACK_EU[2])
                          ELSE nandErase(flash, org[1], org[2])
              /\ cback' = [org   |-> org,
                           count |-> getLastValidEuPage(IF redo THEN org
                                                        ELSE GET_COPYBACK_EU),
                           i     |-> 0,
                           stage |-> IF redo THEN "save" ELSE "restore",
                           next  |-> "bootData"]
              /\ pc' = "copyBack"
  /\ MemoryKept /\ UNCHANGED <<reclaimed_offset, trunc, boot, ghosts>>

-----------------------------------------------------------------------------
(* handleRegularSegments()                                                 *)

(* verifyCompleteSegmentHeader()                                           *)
HeaderComplete(slot) == flash[slot][CpPages].cp # "none"

NextBootSlot == boot' = [boot EXCEPT !.slot = @ + 1]

(* A slot that holds no segment, or a header that was not completed: its   *)
(* first EU is erased in case it was written in part.                      *)
BootUnusedSlot ==
  /\ pc = "bootData" /\ boot.slot < NSlots
  /\ ~ IsUsed(boot.slot, 0) \/ FirstOf(boot.slot).kind = "reserve"
     \/ ~ HeaderComplete(boot.slot)
  /\ flash' = IF FirstOf(boot.slot).kind = "reserve" THEN flash
              ELSE nandErase(flash, boot.slot, 0)
  /\ NextBootSlot
  /\ MemoryKept
  /\ UNCHANGED <<pc, reclaimed_offset, trunc, cback, ghosts>>

(* The slot boot.slot starts with a complete header of a data segment.     *)
BootHeader ==
  /\ pc = "bootData" /\ boot.slot < NSlots
  /\ FirstOf(boot.slot).kind = "header" /\ HeaderComplete(boot.slot)

(* markSegmentInSegMap(): the first slot found for a segment.              *)
MarkSegment ==
  /\ BootHeader
  /\ LET s   == boot.slot
         seg == FirstOf(s).seg
         sn  == FirstOf(s).sn
     IN  /\ seg_to_slot_map[seg] = SEQ_NO_SLOT
         /\ seg_to_slot_map' = [seg_to_slot_map EXCEPT ![seg] = s]
         /\ nSegments' = nSegments + 1
         /\ IF sn > sequence_num
            THEN /\ sequence_num' = sn
                 /\ previously_written_segment' = reclaimed_segment
                 /\ reclaimed_segment' = seg
                 /\ new_slot_id' = s
            ELSE UNCHANGED <<sequence_num, previously_written_segment,
                             reclaimed_segment, new_slot_id>>
  /\ NextBootSlot
  /\ UNCHANGED <<flash, pc, reclaimed_offset, reserveVars, counters,
                 countVars, frame, trunc, wear, cback, ghosts>>

(* A second slot with the same sequence number is a copy made by wear      *)
(* leveling: the shorter one is erased.  The arguments of                  *)
(* SET_SEG_MAP_SLOT_FOR_SEG() are exchanged here.                          *)
MarkWearCopy ==
  LET s   == boot.slot
      seg == FirstOf(s).seg
      old == seg_to_slot_map[seg]
      keepOld == findLastValidPageInSlot(old) > findLastValidPageInSlot(s)
  IN  /\ seg_to_slot_map' = IF keepOld THEN seg_to_slot_map
                            ELSE [seg_to_slot_map EXCEPT ![s] = seg]
      /\ CallTruncateSlot(IF keepOld THEN s ELSE old, FALSE, "bootData")
      /\ UNCHANGED <<new_slot_id, previously_written_segment,
                     reclaimed_segment, sequence_num>>

(* Fault: the generations are not told apart.                              *)
MarkFirstGeneration ==
  LET s   == boot.slot
      seg == FirstOf(s).seg
  IN  /\ previously_written_segment' = reclaimed_segment
      /\ reclaimed_segment' = seg
      /\ new_slot_id' = s
      /\ sequence_num' = FirstOf(s).sn
      /\ UNCHANGED <<seg_to_slot_map, pc, trunc>>

(***************************************************************************)
(* A second slot with another sequence number: the segment was being       *)
(* reclaimed, the larger number is the new generation.  If that is full,   *)
(* the old one is erased and the segment gets the slot looked at, which    *)
(* may be either of the two.                                               *)
(***************************************************************************)
MarkGeneration ==
  LET s   == boot.slot
      seg == FirstOf(s).seg
      one == seg_to_slot_map[seg]
      new == IF FirstOf(one).sn > FirstOf(s).sn THEN one ELSE s
      old == IF new = s THEN one ELSE s
  IN  /\ previously_written_segment' = reclaimed_segment
      /\ reclaimed_segment' = seg
      /\ new_slot_id' = new
      /\ sequence_num' = FirstOf(new).sn
      /\ IF findLastValidPageInSlot(new) = PagesPerSlot - 1
         THEN /\ CallTruncateSlot(old, FALSE, "bootData")
              /\ seg_to_slot_map' = [seg_to_slot_map EXCEPT ![seg] = s]
         ELSE /\ seg_to_slot_map' = [seg_to_slot_map EXCEPT ![seg] = old]
              /\ UNCHANGED <<pc, trunc>>

MarkSecondSlot ==
  /\ BootHeader
  /\ LET seg == FirstOf(boot.slot).seg
     IN  /\ seg_to_slot_map[seg] # SEQ_NO_SLOT
         /\ IF seg_to_slot_map[seg] = boot.slot
            THEN UNCHANGED <<slotVars, reclaimed_segment, sequence_num, pc, trunc>>
            ELSE /\ IF FirstOf(seg_to_slot_map[seg]).sn = FirstOf(boot.slot).sn
                    THEN MarkWearCopy ELSE MarkGeneration
                 /\ UNCHANGED nSegments
  /\ NextBootSlot
  /\ UNCHANGED <<flash, reclaimed_offset, reserveVars, counters, countVars,
                 frame, wear, cback, ghosts>>

(* DATA_SEGMENTS_COUNT() decides whether there is anything to recover.     *)
NoDataSegments == \A s \in DataSegments : seg_to_slot_map[s] = SEQ_NO_SLOT

SegmentsMarked ==
  /\ pc = "bootData" /\ boot.slot = NSlots
  /\ pc' = IF NoDataSegments THEN "format" ELSE "bootInvalid"
  /\ boot' = NoBoot
  /\ MemoryKept
  /\ UNCHANGED <<flash, reclaimed_offset, trunc, cback, ghosts>>

-----------------------------------------------------------------------------
(* handleFlashIsEmpty(): the first segment is allocated in slot 0, whose   *)
(* first EU the loops before it have erased.                               *)
FormatHeader ==
  /\ pc = "format"
  /\ flash' = nandProgramPageA(nandErase(flash, 0, 0), <<0, 0>>,
                HeaderPage("header", 0, sequence_num + 1,
                           SEQ_NO_SLOT_AND_EU_OFFSET))
  /\ sequence_num' = sequence_num + 1
  /\ new_slot_id' = 0
  /\ seg_to_slot_map' = [seg_to_slot_map EXCEPT ![0] = 0]
  /\ reclaimed_segment' = 0 /\ reclaimed_offset' = 1
  /\ counter' = 0
  /\ free_counter' = SEQ_SEGMENTS_COUNT * (PagesPerSlot - HeaderPages)
  /\ pc' = "formatCp"
  /\ UNCHANGED <<nSegments, previously_written_segment, reserveVars, counters,
                 frame, trunc, wear, boot, cback, ghosts>>

(* The checkpoint of that header, with the last page of which the boot     *)
(* returns.                                                                *)
FormatCheckpoint ==
  /\ pc = "formatCp"
  /\ flash' = nandProgramPageA(flash, <<0, reclaimed_offset>>,
                CheckpointPage(set_cp_page_flag(reclaimed_offset - 1),
                               SEQ_NO_SLOT_AND_EU_OFFSET))
  /\ reclaimed_offset' = reclaimed_offset + 1
  /\ IF reclaimed_offset < CpPages
     THEN UNCHANGED <<pc, nSegments, committed>>
     ELSE pc' = "ready" /\ nSegments' = 1 /\ committed' = Checkpoint(0)
  /\ UNCHANGED <<seg_to_slot_map, new_slot_id, previously_written_segment,
                 reclaimed_segment, reserveVars, sequence_num, counters,
                 countVars, frame, trunc, wear, boot, cback, live, failures>>

-----------------------------------------------------------------------------
(* handleInvalidPrograms()                                                 *)

(* findFirstEmptySlot(): the first segment without a slot, taken for a     *)
(* slot; findEmptySlot(): the first slot without a segment.                *)
PossibleNextSlot ==
  LET free == IF ~ ALL_SEGMENTS_ALLOCATED
              THEN {s \in DataSegments : seg_to_slot_map[s] = SEQ_NO_SLOT}
              ELSE {t \in Slots : \A s \in Slots : seg_to_slot_map[s] # t}
  IN  CHOOSE s \in free : \A t \in free : s <= t

(***************************************************************************)
(* The page after the last written one may have been programmed in part:   *)
(* inside an EU it is cleared by a copy back, at the start of an EU that   *)
(* EU is erased, and past the end of the slot the first EU of the next     *)
(* one.  The truncation of a segment whose reclamation is complete         *)
(* succeeds, which is taken for a failure.                                 *)
(***************************************************************************)
HandleInvalidPrograms ==
  /\ pc = "bootInvalid"
  /\ reclaimed_offset' = findLastValidPageInSlot(new_slot_id) + 1
  /\ IF reclaimed_offset' < PagesPerSlot /\ ~ AtEuStart(reclaimed_offset')
     THEN /\ CallCopyBackEU(reclaimed_segment, reclaimed_offset', "bootFind")
          /\ UNCHANGED <<flash, trunc>>
     ELSE IF reclaimed_offset' < PagesPerSlot
     THEN /\ flash' = nandErase(flash, seg_to_slot_map[reclaimed_segment],
                                EuOf(reclaimed_offset'))
          /\ pc' = "bootFind" /\ UNCHANGED <<cback, trunc>>
     ELSE IF IS_STATE_RECLAMATION
     THEN /\ CallTruncateSlot(seg_to_slot_map[reclaimed_segment], FALSE,
                              "bootFailed")
          /\ UNCHANGED <<flash, cback>>
     ELSE /\ flash' = nandErase(flash, PossibleNextSlot, 0)
          /\ pc' = "bootFind" /\ UNCHANGED <<cback, trunc>>
  /\ MemoryKept /\ UNCHANGED <<boot, ghosts>>

-----------------------------------------------------------------------------
(* findCheckpointAndTruncate()                                             *)

(* findCheckpointInSegment(): the last page that ends a checkpoint.  There *)
(* is one, the header's, because every marked segment has a complete one.  *)
EndsCheckpoint(off) ==
  At(logicalAddressToPhysical(<<reclaimed_segment, off>>)).cp =
    IF CpPages > 1 THEN "last" ELSE "first"

FindCheckpoint ==
  /\ pc = "bootFind"
  /\ LET found == {o \in 1 .. reclaimed_offset - 1 : EndsCheckpoint(o)}
     IN  boot' = [boot EXCEPT !.last = reclaimed_offset - 1,
                    !.cp = CHOOSE o \in found : \A p \in found : p <= o]
  /\ pc' = "bootErase"
  /\ MemoryKept
  /\ UNCHANGED <<flash, reclaimed_offset, trunc, cback, ghosts>>

(* The EUs after the one of the checkpoint are erased, the last one first. *)
EraseAfterCheckpoint ==
  /\ pc = "bootErase" /\ EuOf(boot.last) # EuOf(boot.cp)
  /\ LET phy == logicalAddressToPhysical(<<reclaimed_segment, boot.last>>)
     IN  flash' = nandErase(flash, phy[1], EuOf(phy[2]))
  /\ boot' = [boot EXCEPT !.last = EuOf(@) * PagesPerEu - 1]
  /\ reclaimed_offset' = EuOf(boot.last) * PagesPerEu
  /\ MemoryKept /\ UNCHANGED <<pc, trunc, cback, ghosts>>

(* Fault: the pages after the checkpoint stay.                             *)
KeepAfterCheckpoint ==
  /\ pc = "bootErase" /\ EuOf(boot.last) = EuOf(boot.cp)
  /\ pc' = "bootRead" /\ UNCHANGED cback
  /\ MemoryKept
  /\ UNCHANGED <<flash, reclaimed_offset, trunc, boot, ghosts>>

(* What follows the checkpoint in its own EU is cleared by a copy back.    *)
ClearAfterCheckpoint ==
  /\ pc = "bootErase" /\ EuOf(boot.last) = EuOf(boot.cp)
  /\ IF boot.last # boot.cp
     THEN CallCopyBackEU(reclaimed_segment, boot.cp, "bootRead")
     ELSE pc' = "bootRead" /\ UNCHANGED cback
  /\ MemoryKept
  /\ UNCHANGED <<flash, reclaimed_offset, trunc, boot, ghosts>>

(***************************************************************************)
(* readCheckpointToMemory() and the end of sequencingBooting(): the file   *)
(* system has the blocks of the checkpoint again, except those it marked   *)
(* obsolete after it.  findNextFreePage() goes on.                         *)
(***************************************************************************)
ReadCheckpoint ==
  /\ pc = "bootRead"
  /\ reclaimed_offset' = boot.cp + 1
  /\ counters' = committed.counters
  /\ counter' = committed.counter
  /\ free_counter' = committed.free -
       IF ~ IS_STATE_RECLAMATION /\ boot.cp + 1 > HeaderPages THEN 1 ELSE 0
  /\ live' = {la \in committed.live : ~ PageOf(la).obs}
  /\ boot' = NoBoot
  /\ CallFindNextFreePage("find", 0)
  /\ UNCHANGED <<flash, slotVars, reclaimed_segment, reserveVars,
                 sequence_num, trunc, wear, cback, committed, failures>>

-----------------------------------------------------------------------------
BootInit ==
  /\ flash = [s \in Slots |-> [o \in Offsets |-> ErasedPage]]
  /\ seg_to_slot_map = [s \in Slots |-> SEQ_NO_SLOT]
  /\ reclaimed_segment = SEQ_NO_SEGMENT_NUM
  /\ reclaimed_offset = PagesPerSlot
  /\ previously_written_segment = SEQ_NO_SEGMENT_NUM
  /\ new_slot_id = SEQ_NO_SLOT /\ nSegments = 0
  /\ is_eu_reserve = FALSE /\ reserve_eu_addr = SEQ_PHY_ADDRESS_EMPTY
  /\ sequence_num = SEQ_NO_SEQUENCE_NUM
  /\ counters = [i \in 0 .. (NSlots \div 2) - 1 |-> 0]
  /\ counter = 0 /\ free_counter = 0
  /\ pc = "bootReserve" /\ frame = NoFrame /\ trunc = NoTrunc /\ wear = NoWear
  /\ boot = NoBoot /\ cback = NoCopyBack
  /\ live = {} /\ committed = NoCheckpoint /\ failures = 0

BootStep ==
  \/ BootReserveSlot \/ BootReservesDone \/ BootReserveHeader
  \/ HandleCopyBack \/ CopyBackStep
  \/ BootUnusedSlot \/ MarkSegment \/ MarkSecondSlot \/ SegmentsMarked
  \/ FormatHeader \/ FormatCheckpoint
  \/ HandleInvalidPrograms \/ FindCheckpoint \/ EraseAfterCheckpoint
  \/ ClearAfterCheckpoint \/ ReadCheckpoint

BootNext == Operate \/ PowerFailure \/ BootStep

BootSpec == BootInit /\ [][BootNext]_bootVars

-----------------------------------------------------------------------------
(***************************************************************************)
(* "find latest checkpoint": the one whose contents are read is the last   *)
(* one that was completed before the power failed, however often the boot  *)
(* itself was interrupted.                                                 *)
(***************************************************************************)
LastCheckpointFound ==
  pc = "bootRead" =>
    /\ reclaimed_segment = committed.seg
    /\ boot.cp = committed.offset
    /\ sequence_num = committed.sn

(***************************************************************************)
(* A block that the last checkpoint holds, or that was written since, is   *)
(* readable whenever control is in the file system: no recovery erases it. *)
(* A block marked after the checkpoint may carry its obsolete byte.        *)
(***************************************************************************)
RecoveredReadable ==
  AtClient => \A la \in live :
    PageOf(la).kind = "data" /\ PageOf(la).addr = la

(* The rule of the medium also during recovery: no page is programmed      *)
(* twice, whatever was cleared or left by the boot.                        *)
BootNandDiscipline ==
  [][\A p \in Pages : PageStep(flash[p[1]][p[2]], flash'[p[1]][p[2]])]_bootVars

(* The recovered segment map: no slot is shared and headers agree with it. *)
RecoveredMap == AtClient => SlotPartition /\ HeadersNameSegments
=============================================================================

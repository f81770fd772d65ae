------------------------------ MODULE DataProofs ------------------------------
(***************************************************************************)
(* What is in the pages of the flash, on a flash without bad EUs whose     *)
(* file system stops at the first error: for every geometry, every outcome *)
(* of the generators and every sequence of calls.                          *)
(***************************************************************************)
EXTENDS PositionProofs, FiniteSetTheorems

Plain == BadEus = {} /\ CallAfter = {}

-----------------------------------------------------------------------------
(* The inductive invariant.  SlotInv and CallInv go with it.               *)

NoReplacement == ~ is_eu_reserve /\ reserve_eu_addr = SEQ_PHY_ADDRESS_EMPTY

PagesTyped ==
  /\ flash \in [Slots -> [Offsets -> Page]]
  /\ \A s \in Slots, o \in Offsets :
       flash[s][o].kind = "data" => flash[s][o].cp = "none"

(* The current segment is being written; it is full, and its old slot is   *)
(* erased before the next one is chosen.                                   *)
Writing == {"ready", "committing", "committed", "head", "scan", "headerCp"}
Ending  == pc = "switch" \/ (pc = "truncate" /\ trunc.next = "switch")

(* Where the locals of truncateSlot() and performWearLeveling() point.     *)
TruncOK ==
  pc = "truncate" =>
    \/ trunc.next = "switch" /\ trunc.slot = seg_to_slot_map[reclaimed_segment]
    \/ trunc.next = "swap" /\ trunc.slot = wear.random_slot

WearOK ==
  /\ pc = "wear" \/ SwapPending =>
       (wear.isSlotReserve <=> wear.org_seg \in ReserveSegments)
  /\ pc = "wear" =>
       /\ {"from", "to", "from_phy", "to_phy", "isToReserve"} \subseteq DOMAIN wear
       /\ wear.isToReserve = FALSE
       /\ wear.from \in 0 .. PagesPerSlot /\ wear.to \in 0 .. PagesPerSlot
       /\ wear.to <= wear.from /\ OffsetInEu(wear.from) = OffsetInEu(wear.to)
       /\ ~ AtEuStart(wear.to) =>
            /\ wear.from_phy = <<wear.random_slot, wear.from>>
            /\ wear.to_phy = <<new_slot_id, wear.to>>
       /\ ~ wear.isSlotReserve => wear.from = wear.to
       /\ wear.isSlotReserve =>
            /\ wear.to <= PagesPerEu
            /\ wear.from = wear.to \/ wear.to = PagesPerEu

EndOK == Ending => reclaimed_offset = PagesPerSlot

(* What is programmed next is erased.                                      *)
Erased(slot, from) ==
  \A o \in Offsets : o >= from => flash[slot][o] = ErasedPage

ErasedAhead ==
  /\ pc \in Writing \cup {"header"} => Erased(new_slot_id, reclaimed_offset)
  /\ Filling => \A slot \in nSegments .. SEQ_SEGMENTS_COUNT : Erased(slot, 0)
  /\ pc \in {"toss", "choose"} => Erased(new_slot_id, 0)
  /\ pc = "wear" => Erased(new_slot_id, wear.to)
  /\ pc = "switch" /\ Reclaiming => Erased(seg_to_slot_map[reclaimed_segment], 0)
  /\ pc = "swap" => Erased(wear.random_slot, 0)
  /\ pc = "truncate" => Erased(trunc.slot, (trunc.eu + 1) * PagesPerEu)

FlashInv ==
  /\ NoReplacement /\ PagesTyped
  /\ TruncOK /\ WearOK /\ EndOK /\ ErasedAhead

(* The slot that holds a segment, between the steps that make it so and    *)
(* those that say so in the map.                                           *)
SlotOf(seg) ==
  IF \/ SwapPending /\ seg = wear.org_seg
     \/ Ending /\ Reclaiming /\ seg = reclaimed_segment
  THEN new_slot_id ELSE seg_to_slot_map[seg]

(* A reserve slot has its header and nothing else.                         *)
ReserveSlot(slot) ==
  /\ flash[slot][0].kind = "reserve"
  /\ Erased(slot, PagesPerEu)

(* The pages that performWearLeveling() has copied.                        *)
SameBlock(p, q) ==
  /\ p.kind = q.kind /\ p.seg = q.seg /\ p.sn = q.sn
  /\ p.cp = q.cp /\ p.addr = q.addr /\ p.obs = q.obs

CopiedPages ==
  pc = "wear" =>
    \A o \in Offsets : o < wear.to =>
      SameBlock(flash[new_slot_id][o], flash[wear.random_slot][o])

(* The page of a block.                                                    *)
Place(la) ==
  <<IF /\ pc \in Writing /\ Reclaiming
       /\ la[1] = reclaimed_segment /\ la[2] < reclaimed_offset
    THEN new_slot_id ELSE SlotOf(la[1]), la[2]>>

LiveInv ==
  /\ \A la \in live : la \in AllocatedSegments \X DataOffsets
  /\ pc \notin {"full", "failed", "noreserve"} => \A la \in live : Holds(Place(la), la)
  /\ pc \in {"ready", "committing"} => <<reclaimed_segment, reclaimed_offset>> \notin live

(* The headers.                                                            *)
HeaderAt(slot, seg) ==
  /\ flash[slot][0].kind = "header" /\ flash[slot][0].seg = seg
  /\ flash[slot][0].sn <= sequence_num

HeadersInv ==
  /\ \A s \in AllocatedSegments :
       ~ (pc = "header" /\ Filling /\ s = reclaimed_segment) => HeaderAt(SlotOf(s), s)
  /\ pc \in Writing \/ Ending =>
       /\ HeaderAt(new_slot_id, reclaimed_segment)
       /\ flash[new_slot_id][0].sn = sequence_num
       /\ \A s \in AllocatedSegments :
            SlotOf(s) # new_slot_id => flash[SlotOf(s)][0].sn < sequence_num

DataInv ==
  /\ FlashInv
  /\ \A s \in ReserveSegments : ReserveSlot(SlotOf(s))
  /\ CopiedPages /\ LiveInv /\ HeadersInv

-----------------------------------------------------------------------------
(* Addresses and pages without bad EUs.                                    *)

LEMMA AddressInSlot ==
  ASSUME NEW slot \in Slots, NEW o \in Offsets
  PROVE  CALC_ADDRESS(slot, o) = <<slot, o>>
<1>1. o \in Nat /\ o < PagesPerSlot /\ PagesPerSlot \in Nat \ {0}
  BY SlotSize DEF Offsets
<1>2. \A a, b \in Nat : b < a => b \div a = 0 /\ b % a = b
  OBVIOUS
<1>3. slot \in Int
  BY DEF Slots
<1> QED  BY <1>1, <1>2, <1>3 DEF CALC_ADDRESS

LEMMA AllEusValid ==
  ASSUME Plain
  PROVE  \A phy : seq_check_eu_status(phy) /\ StoredAt(phy) = phy
BY DEF Plain, seq_check_eu_status, EuIsValid, StoredAt

(* The slots are handed out for the first time, or they are all in use.    *)
LEMMA Phases ==
  ASSUME SlotInv
  PROVE  /\ Filling \/ Reclaiming
         /\ ~ (Filling /\ Reclaiming)
         /\ IS_STATE_RECLAMATION <=> Reclaiming
         /\ TargetSlot = new_slot_id
         /\ reclaimed_segment \in AllocatedSegments
         /\ new_slot_id \in Slots
         /\ \A s \in MappedSegments : seg_to_slot_map[s] \in Slots
<1>1. reclaimed_segment \in AllocatedSegments
  BY GeometryAssumption
     DEF GeometryAssumption, SlotInv, SlotTypes, Filling, Reclaiming, AllocatedSegments,
         DataSegments, SEQ_SEGMENTS_COUNT
<1>2. reclaimed_segment \in MappedSegments
  BY <1>1 DEF MappedSegments
<1>3. Filling => seg_to_slot_map[reclaimed_segment] = new_slot_id
  BY <1>2 DEF Filling
<1>4. Reclaiming => seg_to_slot_map[reclaimed_segment] # new_slot_id
                    /\ nSegments = SEQ_SEGMENTS_COUNT
  BY <1>2 DEF Reclaiming
<1>5. IS_STATE_RECLAMATION <=> Reclaiming
  BY <1>3, <1>4 DEF IS_STATE_RECLAMATION, SlotInv
<1>6. TargetSlot = new_slot_id
  BY <1>3, <1>5 DEF TargetSlot, SlotInv
<1>7. \A s \in MappedSegments : seg_to_slot_map[s] \in Slots
  BY SlotInvImpliesPartition DEF SlotPartition
<1> QED  BY <1>1, <1>3, <1>4, <1>5, <1>6, <1>7 DEF SlotInv, SlotTypes

(* What programming, marking and erasing do to every page.                 *)
Programs(slot, off, page) ==
  /\ flash' \in [Slots -> [Offsets -> Page]]
  /\ \A s \in Slots, o \in Offsets :
       flash'[s][o] = IF s = slot /\ o = off THEN page ELSE flash[s][o]

LEMMA PageProgrammed ==
  ASSUME PagesTyped, NEW slot \in Slots, NEW off \in Offsets, NEW page \in Page,
         flash' = nandProgramPageA(flash, <<slot, off>>, page)
  PROVE  Programs(slot, off, page)
BY DEF PagesTyped, nandProgramPageA, Programs

LEMMA EuErased ==
  ASSUME Plain, PagesTyped, NEW slot \in Slots, NEW eu,
         flash' = nandErase(flash, slot, eu)
  PROVE  /\ flash' \in [Slots -> [Offsets -> Page]]
         /\ \A s \in Slots, o \in Offsets :
              flash'[s][o] = IF s = slot /\ EuOf(o) = eu THEN ErasedPage ELSE flash[s][o]
<1>1. ErasedPage \in Page
  BY GeometryAssumption DEF GeometryAssumption, ErasedPage, Page, NoAddress, CpLocations,
     SEQ_NO_SEGMENT_NUM, SEQ_NO_SLOT_AND_EU_OFFSET, Tags, Eus
<1>2. flash' = [flash EXCEPT ![slot] = [o \in Offsets |->
                  IF EuOf(o) = eu THEN ErasedPage ELSE flash[slot][o]]]
  BY DEF Plain, nandErase, EuIsValid
<1>3. [o \in Offsets |-> IF EuOf(o) = eu THEN ErasedPage ELSE flash[slot][o]]
        \in [Offsets -> Page]
  BY <1>1 DEF PagesTyped
<1> QED  BY <1>2, <1>3 DEF PagesTyped

(* The kinds of pages that are programmed.                                 *)
LEMMA PageKinds ==
  /\ ErasedPage \in Page
  /\ \A la \in LogicalAddresses :
       LET p == DataPage(la, SEQ_NO_SLOT_AND_EU_OFFSET)
       IN  p \in Page /\ p.kind = "data" /\ p.cp = "none" /\ p.addr = la /\ ~ p.obs
  /\ \A c \in CpLocations :
       LET p == CheckpointPage(c, SEQ_NO_SLOT_AND_EU_OFFSET)
       IN  p \in Page /\ p.kind = "checkpoint" /\ ~ p.obs
  /\ \A s \in DataSegments, n \in Nat :
       LET p == HeaderPage("header", s, n, SEQ_NO_SLOT_AND_EU_OFFSET)
       IN  p \in Page /\ p.kind = "header" /\ p.seg = s /\ p.sn = n /\ ~ p.obs
<1>1. NSlots \in 0 .. NSlots /\ NSlots \in Nat /\ 0 \in Eus /\ 0 \in Nat
  BY GeometryAssumption DEF GeometryAssumption, Eus
<1>2. \A s \in DataSegments : s \in 0 .. NSlots
  BY GeometryAssumption DEF GeometryAssumption, DataSegments, SEQ_SEGMENTS_COUNT
<1>3. SEQ_NO_SLOT_AND_EU_OFFSET \in Tags
  BY <1>1 DEF SEQ_NO_SLOT_AND_EU_OFFSET, Tags
<1>4. ErasedPage \in Page
  BY <1>1, <1>3 DEF ErasedPage, Page, CpLocations, SEQ_NO_SEGMENT_NUM
<1>5. ASSUME NEW la \in LogicalAddresses
      PROVE  LET p == DataPage(la, SEQ_NO_SLOT_AND_EU_OFFSET)
             IN  p \in Page /\ p.kind = "data" /\ p.cp = "none" /\ p.addr = la /\ ~ p.obs
  BY <1>1, <1>3, <1>4 DEF DataPage, ErasedPage, Page, CpLocations, SEQ_NO_SEGMENT_NUM
<1>6. ASSUME NEW c \in CpLocations
      PROVE  LET p == CheckpointPage(c, SEQ_NO_SLOT_AND_EU_OFFSET)
             IN  p \in Page /\ p.kind = "checkpoint" /\ ~ p.obs
  BY <1>1, <1>3, <1>4 DEF CheckpointPage, ErasedPage, Page, CpLocations, SEQ_NO_SEGMENT_NUM
<1>7. ASSUME NEW s \in DataSegments, NEW n \in Nat
      PROVE  LET p == HeaderPage("header", s, n, SEQ_NO_SLOT_AND_EU_OFFSET)
             IN  p \in Page /\ p.kind = "header" /\ p.seg = s /\ p.sn = n /\ ~ p.obs
  BY <1>1, <1>2, <1>3, <1>4 DEF HeaderPage, ErasedPage, Page, CpLocations, SEQ_NO_SEGMENT_NUM
<1> QED  BY <1>4, <1>5, <1>6, <1>7

-----------------------------------------------------------------------------
(* The slots between the steps.                                            *)

Ctx == Plain /\ SlotInv /\ CallInv /\ DataInv

(* Every segment has a slot of its own, also while slots are exchanged,    *)
(* and the new slot is that of the segment being written or moved.         *)
LEMMA SlotsApart ==
  ASSUME SlotInv
  PROVE  /\ ReserveSegments \subseteq MappedSegments
         /\ AllocatedSegments \subseteq MappedSegments
         /\ AllocatedSegments \cap ReserveSegments = {}
         /\ \A s \in MappedSegments : SlotOf(s) \in Slots
         /\ \A s, t \in MappedSegments : s # t => SlotOf(s) # SlotOf(t)
         /\ ~ Ending /\ ~ SwapPending =>
              \A s \in MappedSegments : SlotOf(s) = seg_to_slot_map[s]
         /\ \A s \in MappedSegments : SlotOf(s) = new_slot_id =>
              \/ Filling /\ s = reclaimed_segment
              \/ SwapPending /\ s = wear.org_seg
              \/ Ending /\ Reclaiming /\ s = reclaimed_segment
<1>1. /\ ReserveSegments \subseteq MappedSegments
      /\ AllocatedSegments \subseteq MappedSegments
  BY DEF MappedSegments
<1>2. AllocatedSegments \cap ReserveSegments = {}
  BY GeometryAssumption
     DEF GeometryAssumption, SlotInv, SlotTypes, AllocatedSegments, ReserveSegments,
         SEQ_SEGMENTS_COUNT, SEQ_FIRST_RESERVE_SEGMENT
<1>3. /\ \A s, t \in MappedSegments : s # t => seg_to_slot_map[s] # seg_to_slot_map[t]
      /\ \A s \in MappedSegments : seg_to_slot_map[s] \in Slots
      /\ \A s \in MappedSegments :
           seg_to_slot_map[s] = new_slot_id => Filling /\ s = reclaimed_segment
  BY SlotInvImpliesPartition, Phases DEF SlotPartition, Reclaiming
<1>4. SwapPending => Reclaiming /\ ~ Ending
  BY DEF SwapPending, Ending, SlotInv, ReclaimingSteps
<1>5. new_slot_id \in Slots
  BY DEF SlotInv, SlotTypes
<1>6. \A s \in MappedSegments : SlotOf(s) \in Slots
  BY <1>3, <1>5 DEF SlotOf
<1>7. Reclaiming => \A s \in MappedSegments : seg_to_slot_map[s] # new_slot_id
  BY DEF Reclaiming
<1>8. \A s, t \in MappedSegments : s # t => SlotOf(s) # SlotOf(t)
  BY <1>3, <1>4, <1>7 DEF SlotOf
<1>9. ~ Ending /\ ~ SwapPending =>
        \A s \in MappedSegments : SlotOf(s) = seg_to_slot_map[s]
  BY DEF SlotOf
<1>10. \A s \in MappedSegments : SlotOf(s) = new_slot_id =>
         \/ Filling /\ s = reclaimed_segment
         \/ SwapPending /\ s = wear.org_seg
         \/ Ending /\ Reclaiming /\ s = reclaimed_segment
  BY <1>3 DEF SlotOf
<1> QED  BY <1>1, <1>2, <1>6, <1>8, <1>9, <1>10

(* The steps that leave the slots as they are leave the phase as it is.    *)
SlotsKept == UNCHANGED <<seg_to_slot_map, new_slot_id, nSegments, reclaimed_segment>>

LEMMA PhaseKept ==
  ASSUME SlotsKept
  PROVE  /\ Filling' <=> Filling
         /\ Reclaiming' <=> Reclaiming
         /\ MappedSegments' = MappedSegments
         /\ AllocatedSegments' = AllocatedSegments
BY DEF SlotsKept, Filling, Reclaiming, MappedSegments, AllocatedSegments

(* The rule of the medium, without bad EUs.                                *)
Gentle == \A s \in Slots, o \in Offsets : PageStep(flash[s][o], flash'[s][o])

-----------------------------------------------------------------------------
(***************************************************************************)
(* The steps that write one page at the position of the current segment:   *)
(* data, checkpoints, headers and copies of valid pages.                   *)
(***************************************************************************)
WriteStep(page) ==
  /\ pc \in Writing \cup {"header"}
  /\ pc' \in Writing \ {"ready", "committing"}
  /\ reclaimed_offset \in Offsets
  /\ reclaimed_offset' = reclaimed_offset + 1
  /\ Programs(new_slot_id, reclaimed_offset, page)
  /\ NoReplacement'
  /\ SlotsKept /\ UNCHANGED <<trunc, wear>>

(* A page of this kind was written, obsolete or not.                       *)
Wrote(kind, obs) ==
  \E page \in Page : WriteStep(page) /\ page.kind = kind /\ page.obs = obs

LEMMA WriteKeepsFlash ==
  ASSUME Ctx, NEW page \in Page, page.kind = "data" => page.cp = "none",
         WriteStep(page)
  PROVE  FlashInv' /\ Gentle
<1> USE DEF Ctx
<1>1. new_slot_id \in Slots /\ reclaimed_offset \in Nat
  BY Phases DEF WriteStep, Offsets
<1>2. Erased(new_slot_id, reclaimed_offset)
  BY DEF DataInv, FlashInv, ErasedAhead, WriteStep
<1>3. PagesTyped'
  BY DEF PagesTyped, WriteStep, Programs, DataInv, FlashInv
<1>4. TruncOK' /\ WearOK' /\ EndOK'
  BY DEF WriteStep, Writing, TruncOK, WearOK, EndOK, Ending, SwapPending
<1>5. Erased(new_slot_id, reclaimed_offset)'
  BY <1>1, <1>2 DEF WriteStep, Programs, Erased, SlotsKept, Offsets
<1>6. Filling => \A slot \in nSegments .. SEQ_SEGMENTS_COUNT : Erased(slot, 0)'
  <2> SUFFICES ASSUME Filling, NEW slot \in nSegments .. SEQ_SEGMENTS_COUNT
               PROVE  Erased(slot, 0)'
    OBVIOUS
  <2>1. Erased(slot, 0)
    BY DEF DataInv, FlashInv, ErasedAhead
  <2>2. slot # new_slot_id /\ slot \in Slots
    BY <1>1, GeometryAssumption
       DEF Filling, SlotInv, SlotTypes, Slots, GeometryAssumption, SEQ_SEGMENTS_COUNT
  <2> QED  BY <2>1, <2>2 DEF Erased, WriteStep, Programs
<1>7. ErasedAhead'
  <2>1. /\ Filling' => Filling
        /\ nSegments' = nSegments
    BY PhaseKept DEF WriteStep, SlotsKept
  <2>2. pc' \in Writing
    BY DEF WriteStep
  <2> QED  BY <1>5, <1>6, <2>1, <2>2 DEF ErasedAhead, Writing
<1>8. Gentle
  BY <1>1, <1>2 DEF Gentle, PageStep, WriteStep, Programs, Erased
<1> QED  BY <1>3, <1>4, <1>7, <1>8 DEF FlashInv, WriteStep

(* The page written is found where it is looked for from now on, and no    *)
(* other page that holds a block changes.                                  *)
LEMMA WriteKeepsBlocks ==
  ASSUME Ctx, NEW page \in Page, WriteStep(page),
         \A la \in live' : la \in live \/ la = <<reclaimed_segment, reclaimed_offset>>,
         \A la \in live' : la = <<reclaimed_segment, reclaimed_offset>> =>
           /\ la[2] \in DataOffsets
           /\ page.kind = "data" /\ page.addr = la /\ ~ page.obs
  PROVE  /\ \A s \in ReserveSegments : ReserveSlot(SlotOf(s))'
         /\ CopiedPages' /\ LiveInv'
<1> USE DEF Ctx
<1>1. /\ ~ Ending /\ ~ SwapPending /\ ~ Ending' /\ ~ SwapPending'
      /\ pc # "wear" /\ pc' # "wear"
  BY DEF WriteStep, Writing, Ending, SwapPending
<1>2. /\ \A s : SlotOf(s) = seg_to_slot_map[s]
      /\ \A s : SlotOf(s)' = seg_to_slot_map[s]
  BY <1>1 DEF SlotOf, WriteStep, SlotsKept
<1>3. /\ new_slot_id \in Slots /\ new_slot_id' = new_slot_id
      /\ reclaimed_segment' = reclaimed_segment
      /\ reclaimed_segment \in AllocatedSegments
      /\ Filling \/ Reclaiming
      /\ Reclaiming' <=> Reclaiming
      /\ AllocatedSegments' = AllocatedSegments
  BY Phases, PhaseKept DEF WriteStep, SlotsKept
<1>4. \A s \in MappedSegments :
        /\ seg_to_slot_map[s] \in Slots
        /\ seg_to_slot_map[s] = new_slot_id => Filling /\ s = reclaimed_segment
  BY <1>1, <1>2, SlotsApart
<1>5. \A slot \in Slots, o \in Offsets :
        flash'[slot][o] = IF slot = new_slot_id /\ o = reclaimed_offset
                          THEN page ELSE flash[slot][o]
  BY DEF WriteStep, Programs
<1>6. \A s \in ReserveSegments : ReserveSlot(SlotOf(s))'
  <2> SUFFICES ASSUME NEW s \in ReserveSegments PROVE ReserveSlot(SlotOf(s))'
    OBVIOUS
  <2>1. seg_to_slot_map[s] \in Slots \ {new_slot_id}
    BY <1>3, <1>4, SlotsApart
  <2>2. ReserveSlot(seg_to_slot_map[s])
    BY <1>2 DEF DataInv
  <2>3. 0 \in Offsets
    BY SlotSize DEF Offsets
  <2>4. ReserveSlot(seg_to_slot_map[s])'
    BY <1>5, <2>1, <2>2, <2>3 DEF ReserveSlot, Erased, WriteStep, SlotsKept
  <2> QED  BY <1>2, <2>4 DEF ReserveSlot, Erased, WriteStep, SlotsKept
<1>7. CopiedPages'
  BY <1>1 DEF CopiedPages
<1>8. \A la \in live' : la \in AllocatedSegments \X DataOffsets
  BY <1>3 DEF DataInv, LiveInv
<1>9. ASSUME NEW la \in live' PROVE Holds(Place(la), la)'
  <2>1. la[1] \in AllocatedSegments /\ la[2] \in DataOffsets /\ la[2] \in Offsets
        /\ la = <<la[1], la[2]>>
    BY <1>8, SlotSize DEF DataOffsets, Offsets
  <2>2. la[1] \in MappedSegments
    BY <2>1, SlotsApart
  <2>3. /\ la[2] \in Nat /\ reclaimed_offset \in Nat
        /\ reclaimed_offset' = reclaimed_offset + 1
        /\ pc' \in Writing
    BY <2>1, SlotSize DEF WriteStep, Offsets
  <2>4. CASE la = <<reclaimed_segment, reclaimed_offset>>
    <3>1. Place(la)' = <<new_slot_id, reclaimed_offset>>
      BY <1>2, <1>3, <2>2, <2>3, <2>4 DEF Place, Filling
    <3>2. flash'[new_slot_id][reclaimed_offset] = page
      BY <1>3, <1>5 DEF WriteStep
    <3>3. page.kind = "data" /\ page.addr = la /\ ~ page.obs
      BY <2>4
    <3>4. new_slot_id # NSlots
      BY <1>3, GeometryAssumption DEF Slots, GeometryAssumption
    <3>5. \A phy : phy = <<new_slot_id, reclaimed_offset>> =>
            /\ phy # SEQ_PHY_ADDRESS_EMPTY
            /\ flash'[phy[1]][phy[2]] = page
      BY <3>2, <3>4 DEF SEQ_PHY_ADDRESS_EMPTY
    <3> QED  BY <3>1, <3>3, <3>5 DEF Holds, SEQ_PHY_ADDRESS_EMPTY
  <2>5. CASE la # <<reclaimed_segment, reclaimed_offset>>
    <3>1. la \in live
      BY <2>5
    <3>2. Holds(Place(la), la)
      BY <3>1 DEF DataInv, LiveInv, WriteStep, Writing
    <3>3. la[1] = reclaimed_segment => la[2] # reclaimed_offset
      BY <2>1, <2>5
    <3>4. Place(la)' = Place(la)
      <4>1. pc = "header" => reclaimed_offset = 0 /\ la[2] > 0
        BY <2>1, SlotSize DEF CallInv, Position, DataOffsets
      <4>2. pc \in Writing \/ pc = "header"
        BY DEF WriteStep
      <4>3. la[2] < reclaimed_offset + 1 <=> la[2] < reclaimed_offset \/ la[2] = reclaimed_offset
        BY ONLY <2>3, la[2] \in Nat, reclaimed_offset \in Nat
      <4>4. pc = "header" => ~ (la[2] < reclaimed_offset)
        BY <4>1, <2>3
      <4> QED  BY <1>2, <1>3, <2>3, <3>3, <4>2, <4>3, <4>4 DEF Place
    <3>5. /\ Place(la)[1] \in Slots /\ Place(la)[2] = la[2]
          /\ ~ (Place(la)[1] = new_slot_id /\ la[2] = reclaimed_offset)
      <4>1. CASE Place(la)[1] = new_slot_id /\ la[2] = reclaimed_offset
        <5>1. flash[new_slot_id][reclaimed_offset] = ErasedPage
          BY <2>3 DEF DataInv, FlashInv, ErasedAhead, WriteStep, Erased
        <5>2. flash[Place(la)[1]][Place(la)[2]].kind = "data"
          BY <3>2 DEF Holds
        <5>3. Place(la)[2] = la[2]
          BY DEF Place
        <5> QED  BY <4>1, <5>1, <5>2, <5>3 DEF ErasedPage
      <4>2. Place(la)[1] \in Slots /\ Place(la)[2] = la[2]
        BY <1>2, <1>3, <1>4, <2>2 DEF Place
      <4> QED  BY <4>1, <4>2
    <3>6. flash'[Place(la)[1]][Place(la)[2]] = flash[Place(la)[1]][Place(la)[2]]
      BY <1>5, <2>1, <3>5
    <3>7. \A phy : Holds(phy, la) /\ flash'[phy[1]][phy[2]] = flash[phy[1]][phy[2]]
             => Holds(phy, la)'
      BY DEF Holds, SEQ_PHY_ADDRESS_EMPTY
    <3>8. Holds(Place(la), la)' <=> /\ Place(la)' # SEQ_PHY_ADDRESS_EMPTY
                                     /\ flash'[Place(la)'[1]][Place(la)'[2]].kind = "data"
                                     /\ flash'[Place(la)'[1]][Place(la)'[2]].addr = la
                                     /\ ~ flash'[Place(la)'[1]][Place(la)'[2]].obs
      BY DEF Holds, SEQ_PHY_ADDRESS_EMPTY
    <3> QED  BY <3>2, <3>4, <3>6, <3>8 DEF Holds
  <2> QED  BY <2>4, <2>5
<1>10. LiveInv'
  <2>1. pc' \notin {"ready", "committing"}
    BY DEF WriteStep
  <2> QED  BY <1>3, <1>8, <1>9, <2>1 DEF LiveInv, DataOffsets, HeaderPages
<1> QED  BY <1>6, <1>7, <1>10

(* A page behind the header leaves the headers alone.                      *)
LEMMA WriteKeepsHeaders ==
  ASSUME Ctx, NEW page \in Page, WriteStep(page), pc \in Writing,
         sequence_num' = sequence_num
  PROVE  HeadersInv'
<1> USE DEF Ctx
<1>1. /\ ~ Ending /\ ~ SwapPending /\ ~ Ending' /\ ~ SwapPending'
      /\ pc # "header" /\ pc' # "header"
  BY DEF WriteStep, Writing, Ending, SwapPending
<1>2. /\ \A s : SlotOf(s) = seg_to_slot_map[s]
      /\ \A s : SlotOf(s)' = seg_to_slot_map[s]
  BY <1>1 DEF SlotOf, WriteStep, SlotsKept
<1>3. reclaimed_offset # 0 /\ 0 \in Offsets
  BY SlotSize DEF CallInv, Position, CallOK, Moving, Writing, Offsets, DataOffsets
<1>4. new_slot_id \in Slots /\ \A s \in AllocatedSegments : seg_to_slot_map[s] \in Slots
  BY Phases, SlotsApart
<1>5. \A slot \in Slots : flash'[slot][0] = flash[slot][0]
  BY <1>3 DEF WriteStep, Programs
<1>6. /\ AllocatedSegments' = AllocatedSegments /\ new_slot_id' = new_slot_id
      /\ reclaimed_segment' = reclaimed_segment
  BY PhaseKept DEF WriteStep, SlotsKept
<1>7. HeadersInv
  BY DEF DataInv
<1>8. \A slot \in Slots : \A s : HeaderAt(slot, s)' <=> HeaderAt(slot, s)
  BY <1>5 DEF HeaderAt
<1>9. \A s \in AllocatedSegments : HeaderAt(seg_to_slot_map[s], s)
  BY <1>1, <1>2, <1>7 DEF HeadersInv
<1>10. \A s \in AllocatedSegments : HeaderAt(SlotOf(s), s)'
  BY <1>2, <1>4, <1>5, <1>9 DEF HeaderAt
<1>11. /\ HeaderAt(new_slot_id, reclaimed_segment)
       /\ flash[new_slot_id][0].sn = sequence_num
       /\ \A s \in AllocatedSegments :
            seg_to_slot_map[s] # new_slot_id => flash[seg_to_slot_map[s]][0].sn < sequence_num
  BY <1>1, <1>2, <1>7 DEF HeadersInv
<1>12. /\ HeaderAt(new_slot_id, reclaimed_segment)'
       /\ (flash[new_slot_id][0].sn = sequence_num)'
       /\ (\A s \in AllocatedSegments :
             SlotOf(s) # new_slot_id => flash[SlotOf(s)][0].sn < sequence_num)'
  BY <1>2, <1>4, <1>5, <1>6, <1>11 DEF HeaderAt
<1> QED  BY <1>6, <1>10, <1>12 DEF HeadersInv

(* The header of the next segment has the highest number of all.           *)
LEMMA WriteHeader ==
  ASSUME Ctx, NEW page \in Page, WriteStep(page), pc = "header",
         sequence_num' = sequence_num + 1,
         page.kind = "header", page.seg = reclaimed_segment, page.sn = sequence_num'
  PROVE  HeadersInv'
<1> USE DEF Ctx
<1>1. /\ ~ Ending /\ ~ SwapPending /\ ~ Ending' /\ ~ SwapPending' /\ pc' # "header"
  BY DEF WriteStep, Writing, Ending, SwapPending
<1>2. /\ \A s : SlotOf(s) = seg_to_slot_map[s]
      /\ \A s : SlotOf(s)' = seg_to_slot_map[s]
  BY <1>1 DEF SlotOf, WriteStep, SlotsKept
<1>3. reclaimed_offset = 0 /\ 0 \in Offsets
  BY SlotSize DEF CallInv, Position, Offsets
<1>4. /\ new_slot_id \in Slots
      /\ \A s \in AllocatedSegments :
           /\ seg_to_slot_map[s] \in Slots
           /\ seg_to_slot_map[s] = new_slot_id => Filling /\ s = reclaimed_segment
  BY <1>1, <1>2, Phases, SlotsApart
<1>5. \A slot \in Slots :
        flash'[slot][0] = IF slot = new_slot_id THEN page ELSE flash[slot][0]
  BY <1>3 DEF WriteStep, Programs
<1>6. /\ AllocatedSegments' = AllocatedSegments /\ new_slot_id' = new_slot_id
      /\ reclaimed_segment' = reclaimed_segment
  BY PhaseKept DEF WriteStep, SlotsKept
<1>7. sequence_num \in Nat
  BY DEF CallInv, Fields
<1>8. HeaderAt(new_slot_id, reclaimed_segment)' /\ flash'[new_slot_id][0].sn = sequence_num'
  BY <1>3, <1>4, <1>5, <1>6, <1>7 DEF HeaderAt
<1>9. \A slot \in Slots : flash[slot][0].sn \in Nat
  BY <1>3 DEF DataInv, FlashInv, PagesTyped, Page
<1>10. \A s \in AllocatedSegments : ~ (Filling /\ s = reclaimed_segment) =>
         /\ HeaderAt(SlotOf(s), s)'
         /\ flash'[SlotOf(s)'][0].sn < sequence_num'
  <2>1. \A s \in AllocatedSegments : ~ (Filling /\ s = reclaimed_segment) =>
          HeaderAt(seg_to_slot_map[s], s)
    BY <1>2 DEF DataInv, HeadersInv
  <2> QED  BY <1>2, <1>4, <1>5, <1>7, <1>9, <2>1 DEF HeaderAt
<1>11. \A s \in AllocatedSegments : Filling /\ s = reclaimed_segment =>
         SlotOf(s)' = new_slot_id
  BY <1>2, SlotsApart DEF Filling
<1>12. \A s \in AllocatedSegments : HeaderAt(SlotOf(s), s)'
  BY <1>6, <1>8, <1>10, <1>11 DEF HeaderAt
<1> QED  BY <1>1, <1>6, <1>8, <1>10, <1>11, <1>12 DEF HeadersInv

(* writeBlock() programs the page at the position of the new slot.         *)
LEMMA TargetWritten ==
  ASSUME Ctx, NEW page \in Page, reclaimed_offset \in Offsets,
         flash' = writeBlock(calc_target_phy_addr, page)
  PROVE  Programs(new_slot_id, reclaimed_offset, page)
<1>1. calc_target_phy_addr = <<new_slot_id, reclaimed_offset>>
  BY Phases, AddressInSlot
     DEF Ctx, DataInv, FlashInv, NoReplacement, calc_target_phy_addr
<1>2. flash' = nandProgramPageA(flash, <<new_slot_id, reclaimed_offset>>, page)
  BY <1>1 DEF writeBlock, WriteBlockWith, Ctx, DataInv, FlashInv, NoReplacement
<1> QED  BY <1>2, Phases, PageProgrammed DEF Ctx, DataInv, FlashInv

(* The writes of the file system.                                          *)
LEMMA ClientWrites ==
  ASSUME Ctx, NEW page \in Page, NEW freed, AllocAndWrite(page, freed),
         pc \in {"ready", "committing"}, pc' \in {"head", "committed"}
  PROVE  /\ WriteStep(page)
         /\ reclaimed_offset \in DataOffsets
         /\ <<reclaimed_segment, reclaimed_offset>> \notin live
         /\ sequence_num' = sequence_num
<1>1. reclaimed_offset \in DataOffsets /\ reclaimed_offset \in Offsets
  BY SlotSize DEF Ctx, CallInv, Position, DataOffsets, Offsets
<1>2. Programs(new_slot_id, reclaimed_offset, page)
  BY <1>1, TargetWritten DEF AllocAndWrite
<1>3. <<reclaimed_segment, reclaimed_offset>> \notin live
  BY DEF Ctx, DataInv, LiveInv
<1>4. /\ reclaimed_offset' = reclaimed_offset + 1 /\ NoReplacement' /\ SlotsKept
      /\ UNCHANGED <<trunc, wear, sequence_num>>
  BY DEF AllocAndWrite, slotVars, reserveVars, SlotsKept, Ctx, DataInv, FlashInv, NoReplacement
<1> QED  BY <1>1, <1>2, <1>3, <1>4 DEF WriteStep, Writing

(* What a step of an action has to keep.                                   *)
Kept == DataInv' /\ Gentle

LEMMA AllocAndWriteBlockKept ==
  ASSUME Ctx, AllocAndWriteBlock
  PROVE  Kept /\ Wrote("data", FALSE)
<1> DEFINE la   == <<reclaimed_segment, reclaimed_offset>>
           page == DataPage(la, SEQ_NO_SLOT_AND_EU_OFFSET)
<1>1. /\ pc = "ready" /\ pc' = "head" /\ live' = live \cup {la}
      /\ AllocAndWrite(page, 0)
  BY DEF AllocAndWriteBlock, CallFindNextFreePage, Ctx, Plain, Callable
<1>2. la \in LogicalAddresses
  BY <1>1, SlotSize
     DEF Ctx, CallInv, Position, SlotInv, SlotTypes, LogicalAddresses, DataOffsets, Offsets
<1>3. page \in Page /\ page.kind = "data" /\ page.cp = "none" /\ page.addr = la /\ ~ page.obs
  BY <1>2, PageKinds
<1> HIDE DEF page
<1>4. /\ WriteStep(page) /\ reclaimed_offset \in DataOffsets
      /\ sequence_num' = sequence_num
  BY <1>1, <1>3, ClientWrites
<1>5. FlashInv' /\ Gentle
  BY <1>3, <1>4, WriteKeepsFlash
<1>6. HeadersInv'
  BY <1>1, <1>3, <1>4, WriteKeepsHeaders DEF Writing
<1>7. /\ \A s \in ReserveSegments : ReserveSlot(SlotOf(s))'
      /\ CopiedPages' /\ LiveInv'
  <2>1. \A lb \in live' : lb \in live \/ lb = <<reclaimed_segment, reclaimed_offset>>
    BY <1>1
  <2>2. \A lb \in live' : lb = <<reclaimed_segment, reclaimed_offset>> =>
          /\ lb[2] \in DataOffsets
          /\ page.kind = "data" /\ page.addr = lb /\ ~ page.obs
    BY <1>3, <1>4
  <2> QED  BY <1>3, <1>4, <2>1, <2>2, WriteKeepsBlocks
<1>8. Wrote("data", FALSE)
  BY <1>3, <1>4 DEF Wrote, Page
<1> QED  BY <1>5, <1>6, <1>7, <1>8 DEF Kept, DataInv, ReserveSlot, Erased

LEMMA CommitPageKept ==
  ASSUME Ctx, CommitPage
  PROVE  Kept /\ Wrote("checkpoint", FALSE)
<1> DEFINE page == CheckpointPage(set_cp_page_flag(frame.cp), SEQ_NO_SLOT_AND_EU_OFFSET)
<1>1. /\ pc \in {"ready", "committing"} /\ pc' \in {"head", "committed"}
      /\ live' = live /\ AllocAndWrite(page, 1)
  BY DEF CommitPage, CallFindNextFreePage, Ctx, Plain, Callable
<1>2. page \in Page /\ page.kind = "checkpoint" /\ ~ page.obs
  <2>1. set_cp_page_flag(frame.cp) \in CpLocations
    BY DEF set_cp_page_flag, CpLocations
  <2> QED  BY <2>1, PageKinds
<1> HIDE DEF page
<1>3. /\ WriteStep(page) /\ sequence_num' = sequence_num
      /\ <<reclaimed_segment, reclaimed_offset>> \notin live
  BY <1>1, <1>2, ClientWrites
<1>4. FlashInv' /\ Gentle
  BY <1>2, <1>3, WriteKeepsFlash
<1>5. HeadersInv'
  BY <1>1, <1>2, <1>3, WriteKeepsHeaders DEF Writing
<1>6. /\ \A s \in ReserveSegments : ReserveSlot(SlotOf(s))'
      /\ CopiedPages' /\ LiveInv'
  BY <1>1, <1>2, <1>3, WriteKeepsBlocks
<1>7. Wrote("checkpoint", FALSE)
  BY <1>2, <1>3 DEF Wrote, Page
<1> QED  BY <1>4, <1>5, <1>6, <1>7 DEF Kept, DataInv, ReserveSlot, Erased

(* No EU is replaced when a page is entered.                               *)
LEMMA NoEuEntered ==
  ASSUME Ctx
  PROVE  /\ ~ EntersBadEu
         /\ EnteredReserve[1] = FALSE
         /\ EnteredReserve[2] = SEQ_PHY_ADDRESS_EMPTY
         /\ EnterPage => NoReplacement'
<1>1. ~ EntersBadEu
  BY AllEusValid DEF Ctx, EntersBadEu
<1>2. EnteredReserve[1] = FALSE /\ EnteredReserve[2] = SEQ_PHY_ADDRESS_EMPTY
  <2>1. is_eu_reserve = FALSE /\ reserve_eu_addr = SEQ_PHY_ADDRESS_EMPTY
    BY DEF Ctx, DataInv, FlashInv, NoReplacement, CallInv, Fields
  <2>2. \/ EnteredReserve = <<is_eu_reserve, reserve_eu_addr>>
        \/ EnteredReserve = <<FALSE, SEQ_PHY_ADDRESS_EMPTY>>
    BY <1>1, Zenon DEF EnteredReserve
  <2>3. \A a, b : <<a, b>>[1] = a /\ <<a, b>>[2] = b
    OBVIOUS
  <2> QED  BY <2>1, <2>2, <2>3, Zenon
<1> QED  BY <1>1, <1>2 DEF EnterPage, NoReplacement

(* In reclamation the old generation of a page is in the old slot.         *)
LEMMA OldPageFound ==
  ASSUME Ctx, AtPage, IS_STATE_RECLAMATION
  PROVE  /\ Reclaiming /\ reclaimed_offset \in DataOffsets /\ reclaimed_offset \in Offsets
         /\ pc \in {"scan", "head"}
         /\ seg_to_slot_map[reclaimed_segment] \in Slots \ ReserveSlots
         /\ OldPhy = <<seg_to_slot_map[reclaimed_segment], reclaimed_offset>>
         /\ OldPage = flash[seg_to_slot_map[reclaimed_segment]][reclaimed_offset]
         /\ Place(<<reclaimed_segment, reclaimed_offset>>) = OldPhy
<1> USE DEF Ctx
<1>1. Reclaiming
  BY Phases
<1>2. reclaimed_offset \in DataOffsets
  BY AtPageInSlot
<1>3. reclaimed_offset \in Offsets /\ reclaimed_offset \in Nat
  BY <1>2, SlotSize DEF DataOffsets, Offsets
<1>4. seg_to_slot_map[reclaimed_segment] \in Slots \ ReserveSlots
  BY <1>1, Phases, SlotsApart DEF Reclaiming, ReserveSlots
<1>5. OldPhy = <<seg_to_slot_map[reclaimed_segment], reclaimed_offset>>
  BY <1>3, <1>4, AllEusValid, AddressInSlot DEF OldPhy, logicalAddressToPhysical
<1>6. OldPage = flash[seg_to_slot_map[reclaimed_segment]][reclaimed_offset]
  BY <1>5 DEF OldPage
<1>7. pc \in {"scan", "head"}
  BY DEF AtPage
<1>8. Place(<<reclaimed_segment, reclaimed_offset>>) = OldPhy
  <2>1. ~ (reclaimed_offset < reclaimed_offset)
    BY <1>3
  <2>2. ~ Ending /\ ~ SwapPending
    BY <1>7 DEF Ending, SwapPending
  <2> QED  BY <1>5, <2>1, <2>2 DEF Place, SlotOf
<1> QED  BY <1>1, <1>2, <1>3, <1>4, <1>5, <1>6, <1>7, <1>8

LEMMA CopyValidBlockKept ==
  ASSUME Ctx, CopyValidBlock
  PROVE  Kept /\ Wrote(OldPage.kind, OldPage.obs)
<1> DEFINE la   == <<reclaimed_segment, reclaimed_offset>>
           page == [OldPage EXCEPT !.tag = CopyTag]
<1>1. /\ EnterPage /\ AtPage /\ IS_STATE_RECLAMATION
      /\ ~ OldPage.obs /\ OldPage.cp = "none"
      /\ pc' = "scan" /\ live' = live /\ sequence_num' = sequence_num
      /\ reclaimed_offset' = reclaimed_offset + 1
      /\ SlotsKept /\ UNCHANGED <<trunc, wear>>
  BY DEF CopyValidBlock, EnterPage, SlotsKept, slotVars
<1>2. /\ Reclaiming /\ reclaimed_offset \in DataOffsets /\ reclaimed_offset \in Offsets
      /\ pc \in {"scan", "head"}
      /\ seg_to_slot_map[reclaimed_segment] \in Slots \ ReserveSlots
      /\ OldPhy = <<seg_to_slot_map[reclaimed_segment], reclaimed_offset>>
      /\ OldPage = flash[seg_to_slot_map[reclaimed_segment]][reclaimed_offset]
      /\ Place(la) = OldPhy
  BY <1>1, OldPageFound
<1>3. OldPage \in Page
  BY <1>2 DEF Ctx, DataInv, FlashInv, PagesTyped
<1>4. <<0, 0>> \in Tags /\ CopyTag = <<0, 0>>
  BY <1>2, GeometryAssumption DEF CopyTag, Tags, Eus, GeometryAssumption
<1>5. /\ page \in Page /\ page.cp = "none" /\ page.kind = OldPage.kind
      /\ page.addr = OldPage.addr /\ page.obs = OldPage.obs
  BY <1>1, <1>3, <1>4 DEF Page
<1>6. CopyTarget = <<new_slot_id, reclaimed_offset>>
  BY <1>2, NoEuEntered, Phases, AddressInSlot DEF CopyTarget, Ctx
<1>7. flash' = nandProgramPageA(flash, <<new_slot_id, reclaimed_offset>>, page)
  <2>1. EnteredReserve[1] = FALSE
    BY NoEuEntered
  <2> QED  BY <1>6, <2>1, Zenon DEF CopyValidBlock, WriteBlockWith
<1> HIDE DEF page
<1>8. Programs(new_slot_id, reclaimed_offset, page)
  BY <1>2, <1>5, <1>7, Phases, PageProgrammed DEF Ctx, DataInv, FlashInv
<1>9. WriteStep(page)
  BY <1>1, <1>2, <1>8, NoEuEntered DEF WriteStep, Writing
<1>10. FlashInv' /\ Gentle
  BY <1>5, <1>9, WriteKeepsFlash
<1>11. HeadersInv'
  BY <1>1, <1>2, <1>5, <1>9, WriteKeepsHeaders DEF Writing
<1>12. ASSUME la \in live
       PROVE  la[2] \in DataOffsets /\ page.kind = "data" /\ page.addr = la /\ ~ page.obs
  <2>1. Holds(OldPhy, la)
    BY <1>2, <1>12 DEF Ctx, DataInv, LiveInv
  <2> QED  BY <1>2, <1>5, <2>1 DEF Holds
<1>13. /\ \A s \in ReserveSegments : ReserveSlot(SlotOf(s))'
       /\ CopiedPages' /\ LiveInv'
  BY <1>1, <1>5, <1>9, <1>12, WriteKeepsBlocks
<1>14. Wrote(OldPage.kind, OldPage.obs)
  BY <1>5, <1>9 DEF Wrote
<1> QED  BY <1>10, <1>11, <1>13, <1>14 DEF Kept, DataInv, ReserveSlot, Erased

LEMMA WriteSegmentHeaderKept ==
  ASSUME Ctx, WriteSegmentHeader
  PROVE  Kept /\ Wrote("header", FALSE)
<1> DEFINE page == HeaderPage("header", reclaimed_segment, sequence_num + 1,
                              SEQ_NO_SLOT_AND_EU_OFFSET)
<1>1. /\ pc = "header" /\ pc' = "headerCp" /\ live' = live
      /\ sequence_num' = sequence_num + 1
      /\ reclaimed_offset' = reclaimed_offset + 1
      /\ SlotsKept /\ UNCHANGED <<trunc, wear>>
      /\ NoReplacement'
  BY AllEusValid DEF WriteSegmentHeader, slotVars, reserveVars, SlotsKept, Ctx, DataInv, FlashInv,
                     NoReplacement
<1>2. page \in Page /\ page.kind = "header" /\ page.seg = reclaimed_segment
      /\ page.sn = sequence_num' /\ ~ page.obs
  BY <1>1, PageKinds DEF Ctx, CallInv, Fields, SlotInv, SlotTypes
<1>3. reclaimed_offset = 0 /\ 0 \in Offsets
  BY <1>1, SlotSize DEF Ctx, CallInv, Position, Offsets
<1>4. FirstPage = <<new_slot_id, reclaimed_offset>>
  BY <1>3, Phases, AddressInSlot DEF FirstPage, Ctx
<1>5. flash' = nandProgramPageA(flash, <<new_slot_id, reclaimed_offset>>, page)
  BY <1>1, <1>4 DEF WriteSegmentHeader, HeaderPhy, SegmentHeader, HeaderTag, NoReplacement
<1> HIDE DEF page
<1>6. Programs(new_slot_id, reclaimed_offset, page)
  BY <1>2, <1>3, <1>5, Phases, PageProgrammed DEF Ctx, DataInv, FlashInv
<1>7. WriteStep(page)
  BY <1>1, <1>3, <1>6 DEF WriteStep, Writing
<1>8. FlashInv' /\ Gentle
  BY <1>2, <1>7, WriteKeepsFlash
<1>9. HeadersInv'
  BY <1>1, <1>2, <1>7, WriteHeader
<1>10. <<reclaimed_segment, reclaimed_offset>> \notin live
  BY <1>3, SlotSize DEF Ctx, DataInv, LiveInv, DataOffsets
<1>11. /\ \A s \in ReserveSegments : ReserveSlot(SlotOf(s))'
       /\ CopiedPages' /\ LiveInv'
  BY <1>1, <1>2, <1>7, <1>10, WriteKeepsBlocks
<1>12. Wrote("header", FALSE)
  BY <1>2, <1>7 DEF Wrote, Page
<1> QED  BY <1>8, <1>9, <1>11, <1>12 DEF Kept, DataInv, ReserveSlot, Erased

LEMMA WriteHeaderCheckpointKept ==
  ASSUME Ctx, WriteHeaderCheckpoint
  PROVE  Kept /\ Wrote("checkpoint", FALSE)
<1> DEFINE page == CheckpointPage(set_cp_page_flag(reclaimed_offset - 1),
                                  SEQ_NO_SLOT_AND_EU_OFFSET)
<1>1. /\ pc = "headerCp" /\ pc' \in {"headerCp", "scan"} /\ live' = live
      /\ sequence_num' = sequence_num
      /\ reclaimed_offset' = reclaimed_offset + 1
      /\ SlotsKept /\ UNCHANGED <<trunc, wear>>
      /\ NoReplacement'
      /\ flash' = writeBlock(calc_target_phy_addr, page)
  BY DEF WriteHeaderCheckpoint, slotVars, reserveVars, SlotsKept, Ctx, DataInv, FlashInv,
         NoReplacement
<1>2. page \in Page /\ page.kind = "checkpoint" /\ ~ page.obs
  <2>1. set_cp_page_flag(reclaimed_offset - 1) \in CpLocations
    BY DEF set_cp_page_flag, CpLocations
  <2> QED  BY <2>1, PageKinds
<1>3. reclaimed_offset \in Offsets /\ reclaimed_offset < HeaderPages
  BY <1>1, SlotSize DEF Ctx, CallInv, Position, Offsets
<1> HIDE DEF page
<1>4. Programs(new_slot_id, reclaimed_offset, page)
  BY <1>1, <1>2, <1>3, TargetWritten
<1>5. WriteStep(page)
  BY <1>1, <1>3, <1>4 DEF WriteStep, Writing
<1>6. FlashInv' /\ Gentle
  BY <1>2, <1>5, WriteKeepsFlash
<1>7. HeadersInv'
  BY <1>1, <1>2, <1>5, WriteKeepsHeaders DEF Writing
<1>8. <<reclaimed_segment, reclaimed_offset>> \notin live
  BY <1>3, SlotSize DEF Ctx, DataInv, LiveInv, DataOffsets, Offsets
<1>9. /\ \A s \in ReserveSegments : ReserveSlot(SlotOf(s))'
      /\ CopiedPages' /\ LiveInv'
  BY <1>1, <1>2, <1>5, <1>8, WriteKeepsBlocks
<1>10. Wrote("checkpoint", FALSE)
  BY <1>2, <1>5 DEF Wrote, Page
<1> QED  BY <1>6, <1>7, <1>9, <1>10 DEF Kept, DataInv, ReserveSlot, Erased

-----------------------------------------------------------------------------
(* A page is marked obsolete: only its obsolete byte changes.              *)
LEMMA MarkAsObsoleteKept ==
  ASSUME Ctx, NEW la \in live, NEW toss, MarkAsObsolete(la, toss)
  PROVE  /\ Kept
         /\ pc \in Writing /\ pc' = pc /\ SlotsKept /\ UNCHANGED reclaimed_offset
         /\ Holds(Place(la), la)
         /\ \A s \in Slots, o \in Offsets :
              /\ flash'[s][o].kind = flash[s][o].kind
              /\ flash'[s][o].obs <=> flash[s][o].obs \/ <<s, o>> = Place(la)
<1> USE DEF Ctx
<1> DEFINE slot == Place(la)[1]
           off  == Place(la)[2]
<1>1. /\ pc \in {"ready", "committed"} /\ pc' = pc /\ live' = live \ {la}
      /\ flash' = nandProgramPageC(flash, logicalAddressToPhysical(la))
      /\ ~ flash[logicalAddressToPhysical(la)[1]][logicalAddressToPhysical(la)[2]].obs
      /\ SlotsKept
      /\ UNCHANGED <<reclaimed_offset, sequence_num, is_eu_reserve, reserve_eu_addr,
                     trunc, wear>>
  BY DEF MarkAsObsolete, SlotsKept, slotVars, positionVars, reserveVars, Plain, Callable
<1>2. /\ ~ Ending /\ ~ SwapPending /\ ~ Ending' /\ ~ SwapPending' /\ pc' = pc
      /\ pc \in Writing /\ pc \notin {"wear", "header"}
  BY <1>1 DEF Ending, SwapPending, Writing
<1>3. /\ la[1] \in AllocatedSegments /\ la[2] \in DataOffsets /\ la[2] \in Offsets
      /\ la[1] \in MappedSegments
  BY SlotSize, SlotsApart DEF DataInv, LiveInv, DataOffsets, Offsets
<1>4. /\ seg_to_slot_map[la[1]] \in Slots /\ new_slot_id \in Slots
      /\ (IS_STATE_RECLAMATION <=> Reclaiming)
  BY <1>3, Phases
<1>5. slot \in Slots /\ off \in Offsets /\ Place(la) = <<slot, off>>
  BY <1>2, <1>3, <1>4 DEF Place, SlotOf
<1>6. logicalAddressToPhysical(la) = <<slot, off>>
  BY <1>2, <1>3, <1>4, AllEusValid, AddressInSlot
     DEF logicalAddressToPhysical, Place, SlotOf
<1>7. Holds(Place(la), la)
  BY <1>2 DEF DataInv, LiveInv, Writing
<1> HIDE DEF slot, off
<1>8. flash[slot][off].kind = "data" /\ flash[slot][off].addr = la /\ ~ flash[slot][off].obs
  BY <1>5, <1>7 DEF Holds
<1>9. flash' = [flash EXCEPT ![slot][off].obs = TRUE]
  BY <1>1, <1>6 DEF nandProgramPageC
<1>10. PagesTyped
  BY DEF DataInv, FlashInv
<1>11. /\ flash' \in [Slots -> [Offsets -> Page]]
       /\ \A s \in Slots, o \in Offsets :
            flash'[s][o] = IF s = slot /\ o = off
                           THEN [flash[s][o] EXCEPT !.obs = TRUE] ELSE flash[s][o]
  <2>1. flash[slot][off] \in Page
    BY <1>5, <1>10 DEF PagesTyped
  <2>2. [flash[slot][off] EXCEPT !.obs = TRUE] \in Page
    BY <2>1 DEF Page
  <2>3. PICK p \in Page : p = [flash[slot][off] EXCEPT !.obs = TRUE]
    BY <2>2
  <2>4. flash' = [flash EXCEPT ![slot] = [flash[slot] EXCEPT ![off] = p]]
    BY <1>5, <1>9, <1>10, <2>3 DEF PagesTyped
  <2> QED  BY <1>5, <1>10, <2>3, <2>4 DEF PagesTyped
<1>12. \A s \in Slots, o \in Offsets :
         /\ flash'[s][o].kind = flash[s][o].kind /\ flash'[s][o].seg = flash[s][o].seg
         /\ flash'[s][o].sn = flash[s][o].sn /\ flash'[s][o].cp = flash[s][o].cp
         /\ flash'[s][o].addr = flash[s][o].addr
         /\ ~ (s = slot /\ o = off) => flash'[s][o] = flash[s][o]
         /\ flash[s][o] = ErasedPage => flash'[s][o] = ErasedPage
  <2> SUFFICES ASSUME NEW s \in Slots, NEW o \in Offsets
               PROVE  /\ flash'[s][o].kind = flash[s][o].kind
                      /\ flash'[s][o].seg = flash[s][o].seg
                      /\ flash'[s][o].sn = flash[s][o].sn
                      /\ flash'[s][o].cp = flash[s][o].cp
                      /\ flash'[s][o].addr = flash[s][o].addr
                      /\ ~ (s = slot /\ o = off) => flash'[s][o] = flash[s][o]
                      /\ flash[s][o] = ErasedPage => flash'[s][o] = ErasedPage
    OBVIOUS
  <2>1. flash[s][o] \in Page
    BY <1>10 DEF PagesTyped
  <2>2. flash[s][o] = ErasedPage => ~ (s = slot /\ o = off)
    BY <1>8 DEF ErasedPage
  <2>3. CASE ~ (s = slot /\ o = off)
    BY <1>11, <2>3
  <2>4. CASE s = slot /\ o = off
    <3>1. \A p \in Page :
            /\ [p EXCEPT !.obs = TRUE].kind = p.kind /\ [p EXCEPT !.obs = TRUE].seg = p.seg
            /\ [p EXCEPT !.obs = TRUE].sn = p.sn /\ [p EXCEPT !.obs = TRUE].cp = p.cp
            /\ [p EXCEPT !.obs = TRUE].addr = p.addr
      BY DEF Page
    <3>2. flash'[s][o] = [flash[s][o] EXCEPT !.obs = TRUE]
      BY <1>11, <2>4
    <3> QED  BY <2>1, <2>2, <2>4, <3>1, <3>2
  <2> QED  BY <2>3, <2>4
<1>13. /\ AllocatedSegments' = AllocatedSegments /\ new_slot_id' = new_slot_id
       /\ reclaimed_segment' = reclaimed_segment
       /\ (Filling' <=> Filling) /\ (Reclaiming' <=> Reclaiming)
       /\ nSegments' = nSegments /\ seg_to_slot_map' = seg_to_slot_map
  BY <1>1, PhaseKept DEF SlotsKept
<1>14. \A s : SlotOf(s) = seg_to_slot_map[s] /\ SlotOf(s)' = seg_to_slot_map[s]
  BY <1>2, <1>13 DEF SlotOf
<1>15. \A s \in Slots : \A from : Erased(s, from) => Erased(s, from)'
  BY <1>12 DEF Erased
<1>16. FlashInv'
  <2>1. PagesTyped'
    BY <1>10, <1>11, <1>12 DEF PagesTyped
  <2>2. NoReplacement' /\ TruncOK' /\ WearOK' /\ EndOK'
    BY <1>1, <1>2 DEF DataInv, FlashInv, NoReplacement, TruncOK, WearOK, EndOK, Writing
  <2>3. Erased(new_slot_id, reclaimed_offset)'
    BY <1>1, <1>2, <1>4, <1>13, <1>12 DEF DataInv, FlashInv, ErasedAhead, Erased
  <2>4. Filling' => \A s \in nSegments .. SEQ_SEGMENTS_COUNT : Erased(s, 0)'
    <3>1. \A s \in nSegments .. SEQ_SEGMENTS_COUNT : s \in Slots
      BY GeometryAssumption
         DEF SlotInv, SlotTypes, Slots, GeometryAssumption, SEQ_SEGMENTS_COUNT
    <3> QED  BY <1>13, <1>15, <3>1 DEF DataInv, FlashInv, ErasedAhead
  <2>5. ErasedAhead'
    BY <1>1, <1>2, <1>13, <2>3, <2>4 DEF ErasedAhead, Writing
  <2> QED  BY <2>1, <2>2, <2>5 DEF FlashInv
<1>17. \A s \in ReserveSegments : ReserveSlot(SlotOf(s))'
  <2>1. 0 \in Offsets
    BY SlotSize DEF Offsets
  <2> QED  BY <1>12, <1>14, <2>1, Phases, SlotsApart DEF DataInv, ReserveSlot, Erased
<1>18. LiveInv'
  <2>1. \A lb \in live' : Place(lb)' = Place(lb)
    BY <1>1, <1>2, <1>13, <1>14 DEF Place
  <2>2. ASSUME NEW lb \in live' PROVE Holds(Place(lb), lb)'
    <3>1. lb \in live /\ lb # la
      BY <1>1
    <3>2. Holds(Place(lb), lb)
      BY <1>2, <3>1 DEF DataInv, LiveInv, Writing
    <3>3. lb[1] \in MappedSegments /\ lb[2] \in Offsets
      BY <3>1, SlotSize, SlotsApart DEF DataInv, LiveInv, DataOffsets, Offsets
    <3>4. Place(lb)[1] \in Slots /\ Place(lb)[2] \in Offsets
      BY <1>2, <1>4, <3>3, Phases DEF Place, SlotOf
    <3>5. ~ (Place(lb)[1] = slot /\ Place(lb)[2] = off)
      BY <1>8, <3>1, <3>2 DEF Holds
    <3>6. flash'[Place(lb)[1]][Place(lb)[2]] = flash[Place(lb)[1]][Place(lb)[2]]
      BY <1>12, <3>4, <3>5
    <3>7. Holds(Place(lb), lb)' <=> /\ Place(lb)' # SEQ_PHY_ADDRESS_EMPTY
                                     /\ flash'[Place(lb)'[1]][Place(lb)'[2]].kind = "data"
                                     /\ flash'[Place(lb)'[1]][Place(lb)'[2]].addr = lb
                                     /\ ~ flash'[Place(lb)'[1]][Place(lb)'[2]].obs
      BY DEF Holds, SEQ_PHY_ADDRESS_EMPTY
    <3> QED  BY <2>1, <3>2, <3>6, <3>7 DEF Holds
  <2> QED  BY <1>1, <1>13, <2>2 DEF DataInv, LiveInv, DataOffsets, HeaderPages
<1>19. HeadersInv'
  <2>1. \A s \in Slots : /\ flash'[s][0].sn = flash[s][0].sn
                         /\ flash'[s][0].kind = flash[s][0].kind
                         /\ flash'[s][0].seg = flash[s][0].seg
    BY <1>12, SlotSize DEF Offsets
  <2>2. \A s \in AllocatedSegments : seg_to_slot_map[s] \in Slots
    BY Phases, SlotsApart
  <2>3. /\ \A s \in AllocatedSegments : HeaderAt(seg_to_slot_map[s], s)
        /\ HeaderAt(new_slot_id, reclaimed_segment)
        /\ flash[new_slot_id][0].sn = sequence_num
        /\ \A s \in AllocatedSegments :
             seg_to_slot_map[s] # new_slot_id => flash[seg_to_slot_map[s]][0].sn < sequence_num
    BY <1>2, <1>14 DEF DataInv, HeadersInv
  <2>4. /\ \A s \in AllocatedSegments : HeaderAt(SlotOf(s), s)'
        /\ HeaderAt(new_slot_id, reclaimed_segment)'
    BY <1>1, <1>4, <1>13, <1>14, <2>1, <2>2, <2>3 DEF HeaderAt
  <2> QED  BY <1>1, <1>2, <1>4, <1>13, <1>14, <2>1, <2>2, <2>3, <2>4 DEF HeadersInv
<1>20. Gentle
  <2> SUFFICES ASSUME NEW s \in Slots, NEW o \in Offsets
               PROVE  PageStep(flash[s][o], flash'[s][o])
    BY DEF Gentle
  <2> QED  BY <1>8, <1>11 DEF PageStep
<1>21. CopiedPages'
  BY <1>2 DEF CopiedPages
<1>22. \A s \in Slots, o \in Offsets :
         flash'[s][o].obs <=> flash[s][o].obs \/ <<s, o>> = Place(la)
  <2> SUFFICES ASSUME NEW s \in Slots, NEW o \in Offsets
               PROVE  flash'[s][o].obs <=> flash[s][o].obs \/ <<s, o>> = Place(la)
    OBVIOUS
  <2>1. CASE ~ (s = slot /\ o = off)
    BY <1>5, <1>12, <2>1
  <2>2. CASE s = slot /\ o = off
    <3>1. \A q \in Page : [q EXCEPT !.obs = TRUE].obs = TRUE
      BY DEF Page
    <3>2. flash[s][o] \in Page /\ flash'[s][o] = [flash[s][o] EXCEPT !.obs = TRUE]
      BY <1>10, <1>11, <2>2 DEF PagesTyped
    <3>3. flash'[s][o].obs = TRUE /\ <<s, o>> = Place(la)
      BY <1>5, <2>2, <3>1, <3>2
    <3> QED  BY <3>3
  <2> QED  BY <2>1, <2>2
<1>23. /\ Kept
       /\ pc \in Writing /\ pc' = pc /\ SlotsKept /\ UNCHANGED reclaimed_offset
       /\ Holds(Place(la), la)
  BY <1>1, <1>2, <1>7, <1>16, <1>17, <1>18, <1>19, <1>20, <1>21
     DEF Kept, DataInv, ReserveSlot, Erased
<1> QED  BY <1>12, <1>22, <1>23

-----------------------------------------------------------------------------
(* Steps that change no page.                                              *)

(* findNextFreePage() looks at pages, and the calls return.                *)
LEMMA LookingKept ==
  ASSUME Ctx, pc \in Writing, pc' \in Writing \cup {"full", "failed"},
         UNCHANGED <<flash, live, sequence_num, reclaimed_offset, trunc, wear>>,
         SlotsKept, NoReplacement',
         pc' \in {"ready", "committing"} =>
           <<reclaimed_segment, reclaimed_offset>> \notin live
  PROVE  Kept
<1> USE DEF Ctx
<1>1. /\ ~ Ending /\ ~ SwapPending /\ ~ Ending' /\ ~ SwapPending'
      /\ pc \notin {"wear", "header", "full", "failed", "noreserve"}
      /\ pc' \notin {"wear", "header", "noreserve", "truncate", "swap", "switch", "toss",
                     "choose"}
  BY DEF Ending, SwapPending, Writing
<1>2. /\ AllocatedSegments' = AllocatedSegments /\ new_slot_id' = new_slot_id
      /\ reclaimed_segment' = reclaimed_segment
      /\ (Filling' <=> Filling) /\ (Reclaiming' <=> Reclaiming)
      /\ nSegments' = nSegments /\ seg_to_slot_map' = seg_to_slot_map
  BY PhaseKept DEF SlotsKept
<1>3. \A s : SlotOf(s) = seg_to_slot_map[s] /\ SlotOf(s)' = seg_to_slot_map[s]
  BY <1>1, <1>2 DEF SlotOf
<1>4. \A s, from : Erased(s, from)' <=> Erased(s, from)
  BY DEF Erased
<1>5. FlashInv'
  <2>1. PagesTyped' /\ TruncOK' /\ WearOK' /\ EndOK'
    BY <1>1 DEF DataInv, FlashInv, PagesTyped, TruncOK, WearOK, EndOK
  <2>2. Erased(new_slot_id, reclaimed_offset)'
    BY <1>2 DEF DataInv, FlashInv, ErasedAhead, Erased
  <2>3. Filling' => \A s \in nSegments .. SEQ_SEGMENTS_COUNT : Erased(s, 0)'
    BY <1>2, <1>4 DEF DataInv, FlashInv, ErasedAhead
  <2>4. ErasedAhead'
    BY <1>1, <1>2, <2>2, <2>3 DEF ErasedAhead
  <2> QED  BY <2>1, <2>4 DEF FlashInv
<1>6. \A s \in ReserveSegments : ReserveSlot(SlotOf(s))'
  BY <1>3 DEF DataInv, ReserveSlot, Erased
<1>7. CopiedPages'
  BY <1>1 DEF CopiedPages
<1>8. LiveInv'
  <2>1. pc' \in Writing => \A la \in live : Place(la)' = Place(la)
    BY <1>2, <1>3 DEF Place
  <2>2. pc' \in Writing => \A la \in live : Holds(Place(la), la)'
    BY <1>1, <2>1 DEF DataInv, LiveInv, Holds, SEQ_PHY_ADDRESS_EMPTY
  <2> QED  BY <1>1, <1>2, <2>2 DEF DataInv, LiveInv, DataOffsets, HeaderPages
<1>9. HeadersInv'
  <2>1. /\ \A s \in AllocatedSegments : HeaderAt(seg_to_slot_map[s], s)
        /\ HeaderAt(new_slot_id, reclaimed_segment)
        /\ flash[new_slot_id][0].sn = sequence_num
        /\ \A s \in AllocatedSegments :
             seg_to_slot_map[s] # new_slot_id => flash[seg_to_slot_map[s]][0].sn < sequence_num
    BY <1>1, <1>3 DEF DataInv, HeadersInv
  <2> QED  BY <1>1, <1>2, <1>3, <2>1 DEF HeadersInv, HeaderAt
<1>10. Gentle
  BY DEF Gentle, PageStep
<1> QED  BY <1>5, <1>6, <1>7, <1>8, <1>9, <1>10 DEF Kept, DataInv, ReserveSlot, Erased

LEMMA FindNextFreePageKept ==
  ASSUME Ctx, FindNextFreePage
  PROVE  Kept
BY LookingKept
   DEF FindNextFreePage, CallFindNextFreePage, Writing, slotVars, positionVars, reserveVars,
       SlotsKept, NoReplacement, Ctx, DataInv, FlashInv

LEMMA CommitRefusedKept ==
  ASSUME Ctx, CommitRefused
  PROVE  Kept
BY LookingKept
   DEF CommitRefused, Callable, Writing, slotVars, positionVars, reserveVars,
       SlotsKept, NoReplacement, Ctx, Plain, DataInv, FlashInv

LEMMA IterationsExhaustedKept ==
  ASSUME Ctx, IterationsExhausted
  PROVE  Kept
BY LookingKept
   DEF IterationsExhausted, Writing, slotVars, positionVars, reserveVars,
       SlotsKept, NoReplacement, Ctx, DataInv, FlashInv

LEMMA EndSegmentKept ==
  ASSUME Ctx, EndSegment
  PROVE  Kept
BY LookingKept
   DEF EndSegment, Writing, slotVars, positionVars, reserveVars,
       SlotsKept, NoReplacement, Ctx, DataInv, FlashInv

(* The page found for the next block holds no other.                       *)
LEMMA FoundPageKept ==
  ASSUME Ctx, FoundFreshPage \/ FoundReclaimedPage
  PROVE  Kept
<1> DEFINE la == <<reclaimed_segment, reclaimed_offset>>
<1>1. /\ EnterPage /\ AtPage /\ ReturnFromFind
      /\ UNCHANGED <<flash, live, sequence_num, reclaimed_offset, trunc, wear>>
      /\ SlotsKept
  BY DEF FoundFreshPage, FoundReclaimedPage, EnterPage, SlotsKept, slotVars, positionVars
<1>2. pc \in {"scan", "head"} /\ pc' \in {"committing", "committed", "ready"}
  BY <1>1 DEF AtPage, ReturnFromFind
<1>3. NoReplacement'
  BY <1>1, NoEuEntered
<1>4. la \notin live
  <2>1. CASE FoundFreshPage
    <3>1. Filling /\ ~ Reclaiming
      BY <2>1, Phases DEF FoundFreshPage, Ctx
    <3>2. ~ Ending /\ ~ SwapPending
      BY <1>2 DEF Ending, SwapPending
    <3>3. Place(la) = <<new_slot_id, reclaimed_offset>>
      BY <3>1, <3>2, Phases, SlotsApart DEF Place, SlotOf, Filling, Ctx
    <3>4. reclaimed_offset \in Offsets /\ reclaimed_offset \in Nat
      BY <1>1, AtPageInSlot, SlotSize DEF DataOffsets, Offsets, Ctx
    <3>5. flash[new_slot_id][reclaimed_offset] = ErasedPage
      BY <1>2, <3>4 DEF Ctx, DataInv, FlashInv, ErasedAhead, Erased, Writing
    <3>6. la \in live => Holds(Place(la), la)
      BY <1>2 DEF Ctx, DataInv, LiveInv
    <3>7. la \in live => flash[new_slot_id][reclaimed_offset].kind = "data"
      BY <3>3, <3>6 DEF Holds
    <3> QED  BY <3>5, <3>7 DEF ErasedPage
  <2>2. CASE FoundReclaimedPage
    <3>1. IS_STATE_RECLAMATION /\ (OldPage.obs \/ OldPage.cp # "none")
      BY <2>2 DEF FoundReclaimedPage
    <3>2. /\ Place(la) = <<seg_to_slot_map[reclaimed_segment], reclaimed_offset>>
          /\ OldPage = flash[seg_to_slot_map[reclaimed_segment]][reclaimed_offset]
          /\ seg_to_slot_map[reclaimed_segment] \in Slots /\ reclaimed_offset \in Offsets
      BY <1>1, <3>1, OldPageFound
    <3>3. la \in live => Holds(Place(la), la)
      BY <1>2 DEF Ctx, DataInv, LiveInv
    <3>4. la \in live => OldPage.kind = "data" /\ ~ OldPage.obs
      BY <3>2, <3>3 DEF Holds
    <3>5. OldPage.kind = "data" => OldPage.cp = "none"
      BY <3>2 DEF Ctx, DataInv, FlashInv, PagesTyped
    <3> QED  BY <3>1, <3>4, <3>5
  <2> QED  BY <2>1, <2>2
<1> QED  BY <1>1, <1>2, <1>3, <1>4, LookingKept DEF Writing

-----------------------------------------------------------------------------
(* moveToNextSegment() and performWearLeveling()                           *)

(* Every page of a segment, live or not, or a copy of it, is where it is   *)
(* looked for after the step.                                              *)
PagesFollow ==
  \A la \in AllocatedSegments \X DataOffsets :
    /\ Place(la)'[1] \in Slots
    /\ SameBlock(flash'[Place(la)'[1]][la[2]], flash[Place(la)[1]][la[2]])

Carried == Kept /\ (pc' \notin {"full", "failed", "noreserve"} => PagesFollow)

LEMMA BlocksFollow ==
  ASSUME Ctx, pc \notin {"full", "failed", "noreserve"}, pc' \notin {"ready", "committing"},
         live' = live, AllocatedSegments \subseteq AllocatedSegments',
         PagesFollow
  PROVE  LiveInv'
<1> USE DEF Ctx
<1>1. \A la \in live' : la \in AllocatedSegments' \X DataOffsets
  BY DEF DataInv, LiveInv
<1>2. ASSUME NEW la \in live PROVE Holds(Place(la), la)'
  <2>1. Holds(Place(la), la) /\ la \in AllocatedSegments \X DataOffsets
    BY DEF DataInv, LiveInv
  <2>2. Place(la)[2] = la[2] /\ Place(la)'[2] = la[2]
    BY DEF Place
  <2>3. Place(la)' # SEQ_PHY_ADDRESS_EMPTY
    <3>1. NSlots \notin Slots
      BY GeometryAssumption DEF Slots, GeometryAssumption
    <3> QED  BY <2>1, <3>1 DEF SEQ_PHY_ADDRESS_EMPTY, PagesFollow
  <2>4. /\ flash'[Place(la)'[1]][Place(la)'[2]].kind = "data"
        /\ flash'[Place(la)'[1]][Place(la)'[2]].addr = la
        /\ ~ flash'[Place(la)'[1]][Place(la)'[2]].obs
    BY <2>1, <2>2 DEF Holds, SameBlock, PagesFollow
  <2> QED  BY <2>3, <2>4 DEF Holds, SEQ_PHY_ADDRESS_EMPTY
<1> QED  BY <1>1, <1>2 DEF LiveInv, DataOffsets, HeaderPages

LEMMA MoveToNextSegmentKept ==
  ASSUME Ctx, MoveToNextSegment
  PROVE  Carried
<1> USE DEF Ctx
<1>1. /\ pc = "head" /\ IS_SEG_MAP_PAGE_OFFSET_OVERFLOWING
      /\ UNCHANGED <<flash, live, sequence_num, reclaimed_offset, wear>>
      /\ SlotsKept /\ NoReplacement'
  BY DEF MoveToNextSegment, SlotsKept, slotVars, positionVars, reserveVars,
         DataInv, FlashInv, NoReplacement
<1>2. \/ /\ Reclaiming /\ pc' = "truncate"
         /\ trunc' = [slot |-> seg_to_slot_map[reclaimed_segment], eu |-> EusPerSlot - 1,
                      isSlotReserve |-> FALSE, next |-> "switch"]
      \/ ~ Reclaiming /\ Filling /\ pc' = "switch"
  BY Phases DEF MoveToNextSegment, CallTruncateSlot
<1>3. reclaimed_offset = PagesPerSlot
  BY <1>1, SlotSize DEF CallInv, Position, IS_SEG_MAP_PAGE_OFFSET_OVERFLOWING
<1>4. ~ Ending /\ ~ SwapPending /\ Ending' /\ ~ SwapPending'
  BY <1>1, <1>2 DEF Ending, SwapPending
<1>5. /\ AllocatedSegments' = AllocatedSegments /\ new_slot_id' = new_slot_id
      /\ reclaimed_segment' = reclaimed_segment
      /\ (Filling' <=> Filling) /\ (Reclaiming' <=> Reclaiming)
      /\ nSegments' = nSegments /\ seg_to_slot_map' = seg_to_slot_map
  BY <1>1, PhaseKept DEF SlotsKept
<1>6. /\ \A s : SlotOf(s) = seg_to_slot_map[s]
      /\ \A s : SlotOf(s)' = IF Reclaiming /\ s = reclaimed_segment
                             THEN new_slot_id ELSE seg_to_slot_map[s]
  BY <1>4, <1>5 DEF SlotOf
<1>7. FlashInv'
  <2>1. PagesTyped' /\ TruncOK' /\ WearOK' /\ EndOK'
    BY <1>1, <1>2, <1>3, <1>4, <1>5
       DEF DataInv, FlashInv, PagesTyped, TruncOK, WearOK, EndOK
  <2>2. Filling' => \A s \in nSegments .. SEQ_SEGMENTS_COUNT : Erased(s, 0)'
    BY <1>1, <1>5 DEF DataInv, FlashInv, ErasedAhead, Erased
  <2>3. pc' = "truncate" => Erased(trunc.slot, (trunc.eu + 1) * PagesPerEu)'
    <3>1. pc' = "truncate" => trunc'.eu + 1 = EusPerSlot
      BY <1>2, GeometryAssumption DEF GeometryAssumption
    <3>2. \A o \in Offsets : ~ (o >= PagesPerSlot)
      BY SlotSize DEF Offsets
    <3>3. pc' = "truncate" => (trunc'.eu + 1) * PagesPerEu = PagesPerSlot
      BY <3>1 DEF PagesPerSlot
    <3> QED  BY <3>2, <3>3 DEF Erased
  <2>4. ErasedAhead'
    BY <1>2, <1>5, <2>2, <2>3 DEF ErasedAhead, Writing
  <2> QED  BY <1>1, <2>1, <2>4 DEF FlashInv
<1>8. \A s \in ReserveSegments : ReserveSlot(SlotOf(s))'
  <2>1. \A s \in ReserveSegments : s # reclaimed_segment
    BY Phases, SlotsApart
  <2> QED  BY <1>1, <1>6, <2>1 DEF DataInv, ReserveSlot, Erased
<1>9. CopiedPages'
  BY <1>2 DEF CopiedPages
<1>10. PagesFollow
  <2>1. ASSUME NEW la \in AllocatedSegments \X DataOffsets
        PROVE  Place(la)' = Place(la) /\ Place(la)[1] \in Slots
    <3>1. la[1] \in MappedSegments /\ la[2] < PagesPerSlot
      BY SlotsApart, SlotSize DEF DataOffsets
    <3> QED  BY <1>1, <1>2, <1>3, <1>5, <1>6, <3>1, Phases DEF Place, Writing
  <2> QED  BY <1>1, <2>1 DEF SameBlock, PagesFollow
<1>11. LiveInv'
  BY <1>1, <1>2, <1>5, <1>10, BlocksFollow
<1>12. HeadersInv'
  <2>1. /\ \A s \in AllocatedSegments : HeaderAt(seg_to_slot_map[s], s)
        /\ HeaderAt(new_slot_id, reclaimed_segment)
        /\ flash[new_slot_id][0].sn = sequence_num
        /\ \A s \in AllocatedSegments :
             seg_to_slot_map[s] # new_slot_id => flash[seg_to_slot_map[s]][0].sn < sequence_num
    BY <1>1, <1>6 DEF DataInv, HeadersInv, Writing
  <2>2. pc' # "header"
    BY <1>2
  <2> QED  BY <1>1, <1>5, <1>6, <2>1, <2>2 DEF HeadersInv, HeaderAt
<1>13. Gentle
  BY <1>1 DEF Gentle, PageStep
<1> QED  BY <1>7, <1>8, <1>9, <1>10, <1>11, <1>12, <1>13 DEF Carried, Kept, DataInv, ReserveSlot, Erased

(* The pages of an EU have numbers of their own.                           *)
LEMMA EuPages ==
  ASSUME NEW o \in Offsets, NEW eu \in Eus,
         o >= eu * PagesPerEu, ~ (o >= (eu + 1) * PagesPerEu)
  PROVE  EuOf(o) = eu
<1>1. PagesPerEu \in Nat /\ PagesPerEu > 0 /\ o \in Nat /\ eu \in Nat
  BY SlotSize DEF Offsets, Eus
<1>2. \A k \in Nat, p \in Nat \ {0}, n \in Nat :
        n >= k * p /\ n < (k + 1) * p => n \div p = k
  OBVIOUS
<1>3. (eu + 1) * PagesPerEu \in Nat
  BY <1>1
<1> QED  BY <1>1, <1>2, <1>3 DEF EuOf

LEMMA TruncateKept ==
  ASSUME Ctx, Truncate
  PROVE  Carried
<1> USE DEF Ctx
<1> DEFINE slot == trunc.slot
           eu   == trunc.eu
<1>1. /\ pc = "truncate"
      /\ IF eu = 0 THEN pc' = trunc.next
         ELSE pc' = pc /\ trunc' = [trunc EXCEPT !.eu = trunc.eu - 1]
      /\ UNCHANGED <<live, sequence_num, reclaimed_offset, wear>>
      /\ SlotsKept /\ NoReplacement'
  BY DEF Truncate, SlotsKept, slotVars, positionVars, reserveVars,
         DataInv, FlashInv, NoReplacement
<1>2. trunc \in Trunc /\ slot \in Slots /\ eu \in Eus
  BY DEF SlotInv, LocalTypes, Trunc
<1>3. Reclaiming /\ ~ Filling
  BY <1>1, Phases DEF SlotInv, ReclaimingSteps
<1>4. /\ new_slot_id' = new_slot_id /\ seg_to_slot_map' = seg_to_slot_map
      /\ reclaimed_segment' = reclaimed_segment
      /\ AllocatedSegments' = AllocatedSegments
      /\ Reclaiming' /\ ~ Filling'
  BY <1>1, <1>3, PhaseKept DEF SlotsKept
<1>5. \/ trunc.next = "switch" /\ slot = seg_to_slot_map[reclaimed_segment]
      \/ trunc.next = "swap" /\ slot = wear.random_slot
  BY <1>1 DEF DataInv, FlashInv, TruncOK
<1>6. /\ eu # 0 => /\ pc' = "truncate" /\ trunc'.next = trunc.next
                   /\ trunc'.slot = slot /\ trunc'.eu = eu - 1
      /\ eu = 0 => pc' = trunc.next
  BY <1>1, <1>2 DEF Trunc
<1>7. (Ending' <=> Ending) /\ (SwapPending' <=> SwapPending)
  BY <1>1, <1>5, <1>6 DEF Ending, SwapPending
<1>8. \A s : SlotOf(s)' = SlotOf(s)
  BY <1>1, <1>3, <1>4, <1>7 DEF SlotOf
<1>9. \A s \in MappedSegments : SlotOf(s) \in Slots \ {slot}
  <2>1. CASE trunc.next = "switch" /\ slot = seg_to_slot_map[reclaimed_segment]
    <3>1. Ending /\ ~ SwapPending
      BY <1>1, <2>1 DEF Ending, SwapPending
    <3> QED  BY <1>3, <2>1, <3>1, Phases, SlotsApart DEF SlotOf, Reclaiming
  <2>2. CASE trunc.next = "swap" /\ slot = wear.random_slot
    <3>1. ~ Ending /\ SwapPending
      BY <1>1, <2>2 DEF Ending, SwapPending
    <3>2. wear.org_seg \in MappedSegments /\ seg_to_slot_map[wear.org_seg] = slot
      BY <2>2, <3>1 DEF SlotInv, WearTarget
    <3> QED  BY <1>3, <3>1, <3>2, SlotsApart DEF SlotOf, Reclaiming
  <2> QED  BY <1>5, <2>1, <2>2
<1>10. new_slot_id \in Slots \ {slot}
  <2>1. CASE trunc.next = "switch" /\ slot = seg_to_slot_map[reclaimed_segment]
    BY <1>3, <2>1, Phases, SlotsApart DEF Reclaiming
  <2>2. CASE trunc.next = "swap" /\ slot = wear.random_slot
    BY <1>1, <2>2, Phases DEF SwapPending, SlotInv, WearTarget
  <2> QED  BY <1>5, <2>1, <2>2
<1>11. flash' = nandErase(flash, slot, eu)
  <2>1. eu * PagesPerEu \in Offsets
    BY <1>2, EuStartInSlot
  <2>2. EuOf(eu * PagesPerEu) = eu
    <3>1. PagesPerEu \in Nat /\ PagesPerEu > 0 /\ eu \in Nat
      BY <1>2, SlotSize DEF Eus
    <3>2. /\ eu * PagesPerEu >= eu * PagesPerEu
          /\ ~ (eu * PagesPerEu >= (eu + 1) * PagesPerEu)
      BY <3>1
    <3> QED  BY <1>2, <2>1, <3>2, EuPages
  <2>3. TruncatedEu = <<slot, eu * PagesPerEu>>
    BY AllEusValid DEF TruncatedEu
  <2>4. TruncatedEu # SEQ_PHY_ADDRESS_EMPTY
    BY <1>2, <2>3, GeometryAssumption DEF SEQ_PHY_ADDRESS_EMPTY, Slots, GeometryAssumption
  <2> QED  BY <2>2, <2>3, <2>4 DEF Truncate
<1>12. /\ flash' \in [Slots -> [Offsets -> Page]]
       /\ \A s \in Slots, o \in Offsets :
            flash'[s][o] = IF s = slot /\ EuOf(o) = eu THEN ErasedPage ELSE flash[s][o]
  BY <1>2, <1>11, EuErased DEF DataInv, FlashInv
<1>13. \A s \in Slots \ {slot}, o \in Offsets : flash'[s][o] = flash[s][o]
  BY <1>12
<1>14. Erased(slot, (eu + 1) * PagesPerEu)
  BY <1>1 DEF DataInv, FlashInv, ErasedAhead
<1>15. \A o \in Offsets : o >= eu * PagesPerEu => flash'[slot][o] = ErasedPage
  BY <1>2, <1>12, <1>14, EuPages DEF Erased
<1>16. FlashInv'
  <2>1. PagesTyped'
    BY <1>12 DEF DataInv, FlashInv, PagesTyped, ErasedPage
  <2>2. TruncOK' /\ EndOK'
    BY <1>1, <1>4, <1>5, <1>6, <1>7 DEF DataInv, FlashInv, TruncOK, EndOK
  <2>3. pc' # "wear"
    BY <1>5, <1>6
  <2>4. WearOK'
    BY <1>1, <1>7, <2>3, PhaseKept DEF DataInv, FlashInv, WearOK
  <2>5. pc' = "truncate" => Erased(trunc.slot, (trunc.eu + 1) * PagesPerEu)'
    <3>1. pc' = "truncate" => eu # 0 /\ trunc'.eu + 1 = eu /\ trunc'.slot = slot
      BY <1>2, <1>5, <1>6 DEF Eus
    <3> QED  BY <1>15, <3>1 DEF Erased
  <2>6. pc' # "truncate" => eu = 0 /\ \A o \in Offsets : o >= 0 => flash'[slot][o] = ErasedPage
    <3>1. pc' # "truncate" => eu = 0
      BY <1>6
    <3>2. 0 * PagesPerEu = 0
      BY SlotSize
    <3> QED  BY <1>15, <3>1, <3>2
  <2>7. ErasedAhead'
    <3>1. pc' = "switch" => Erased(seg_to_slot_map[reclaimed_segment], 0)'
      BY <1>4, <1>5, <1>6, <2>6 DEF Erased
    <3>2. pc' = "swap" => Erased(wear.random_slot, 0)'
      BY <1>1, <1>5, <1>6, <2>6 DEF Erased
    <3>3. pc' \in {"switch", "swap", "truncate"}
      BY <1>5, <1>6
    <3> QED  BY <1>4, <2>5, <3>1, <3>2, <3>3 DEF ErasedAhead, Writing
  <2> QED  BY <1>1, <2>1, <2>2, <2>4, <2>7 DEF FlashInv
<1>17. \A s \in ReserveSegments : ReserveSlot(SlotOf(s))'
  <2>1. 0 \in Offsets
    BY SlotSize DEF Offsets
  <2> QED  BY <1>8, <1>9, <1>13, <2>1, SlotsApart DEF DataInv, ReserveSlot, Erased
<1>18. CopiedPages'
  BY <1>5, <1>6 DEF CopiedPages
<1>19. pc' \notin Writing \cup {"wear", "header", "full", "failed", "noreserve"}
  BY <1>5, <1>6 DEF Writing
<1>20. PagesFollow
  <2>1. ASSUME NEW la \in AllocatedSegments \X DataOffsets
        PROVE  /\ Place(la)' = Place(la) /\ Place(la)[1] \in Slots \ {slot}
               /\ la[2] \in Offsets
    <3>1. la[1] \in MappedSegments /\ la[2] \in Offsets
      BY SlotsApart, SlotSize DEF DataOffsets, Offsets
    <3> QED  BY <1>1, <1>8, <1>9, <1>19, <3>1 DEF Place, Writing
  <2> QED  BY <1>13, <2>1 DEF SameBlock, PagesFollow
<1>21. LiveInv'
  BY <1>1, <1>4, <1>19, <1>20, BlocksFollow DEF Writing
<1>22. HeadersInv'
  <2>1. \A s \in Slots \ {slot} : flash'[s][0] = flash[s][0]
    BY <1>13, SlotSize DEF Offsets
  <2>2. \A s \in AllocatedSegments : SlotOf(s) \in Slots \ {slot}
    BY <1>9, SlotsApart
  <2>3. \A s \in AllocatedSegments : HeaderAt(SlotOf(s), s)
    BY <1>1 DEF DataInv, HeadersInv
  <2>4. Ending => /\ HeaderAt(new_slot_id, reclaimed_segment)
                  /\ flash[new_slot_id][0].sn = sequence_num
                  /\ \A s \in AllocatedSegments :
                       SlotOf(s) # new_slot_id => flash[SlotOf(s)][0].sn < sequence_num
    BY DEF DataInv, HeadersInv
  <2> QED  BY <1>1, <1>4, <1>7, <1>8, <1>10, <1>19, <2>1, <2>2, <2>3, <2>4
           DEF HeadersInv, HeaderAt
<1>23. Gentle
  BY <1>12 DEF Gentle, PageStep
<1> QED  BY <1>16, <1>17, <1>18, <1>20, <1>21, <1>22, <1>23 DEF Carried, Kept, DataInv, ReserveSlot, Erased

(* Only the map and the new slot change, but no segment's slot.            *)
LEMMA ReclaimingNotFilling ==
  ASSUME SlotInv', Reclaiming'
  PROVE  ~ Filling'
<1>1. nSegments' \in 1 .. SEQ_SEGMENTS_COUNT
  BY DEF SlotInv, SlotTypes
<1>2. nSegments' - 1 \in MappedSegments'
  <2>1. \A n \in 1 .. SEQ_SEGMENTS_COUNT : n - 1 \in 0 .. n - 1
    BY GeometryAssumption DEF GeometryAssumption, SEQ_SEGMENTS_COUNT
  <2> QED  BY <1>1, <2>1 DEF MappedSegments, AllocatedSegments
<1> QED  BY <1>2 DEF Filling, Reclaiming

LEMMA SwitchToReclamationKept ==
  ASSUME Ctx, SwitchToReclamation, SlotInv'
  PROVE  Carried
<1> USE DEF Ctx
<1>1. /\ pc = "switch" /\ pc' = "toss"
      /\ UNCHANGED <<flash, live, sequence_num, reclaimed_offset, reclaimed_segment,
                     nSegments, wear, trunc>>
      /\ NoReplacement' /\ nSegments = SEQ_SEGMENTS_COUNT
      /\ \/ /\ Reclaiming
            /\ seg_to_slot_map' = [seg_to_slot_map EXCEPT ![reclaimed_segment] = new_slot_id]
            /\ new_slot_id' = seg_to_slot_map[reclaimed_segment]
         \/ /\ Filling /\ ~ Reclaiming
            /\ new_slot_id' = SEQ_SEGMENTS_COUNT /\ UNCHANGED seg_to_slot_map
  BY Phases DEF SwitchToReclamation, positionVars, reserveVars, ALL_SEGMENTS_ALLOCATED,
         DataInv, FlashInv, NoReplacement
<1>2. Ending /\ ~ SwapPending /\ ~ Ending' /\ ~ SwapPending'
  BY <1>1 DEF Ending, SwapPending
<1>3. Reclaiming' /\ ~ Filling'
  BY <1>1, ReclaimingNotFilling DEF SlotInv, ReclaimingSteps
<1>4. AllocatedSegments' = AllocatedSegments /\ MappedSegments' = MappedSegments
  BY <1>1 DEF AllocatedSegments, MappedSegments
<1>5. \A s \in MappedSegments : SlotOf(s)' = SlotOf(s) /\ SlotOf(s) \in Slots
  <2>1. MappedSegments \subseteq Slots
    BY MappedInSlots DEF SlotInv, SlotTypes
  <2>2. DOMAIN seg_to_slot_map = Slots
    BY DEF SlotInv, SlotTypes
  <2> QED  BY <1>1, <1>2, <2>1, <2>2, SlotsApart DEF SlotOf
<1>6. FlashInv'
  <2>1. PagesTyped' /\ TruncOK' /\ WearOK' /\ EndOK'
    BY <1>1, <1>2 DEF DataInv, FlashInv, PagesTyped, TruncOK, WearOK, EndOK
  <2>2. Erased(new_slot_id, 0)'
    <3>1. CASE Reclaiming
      BY <1>1, <3>1, Phases DEF DataInv, FlashInv, ErasedAhead, Erased
    <3>2. CASE ~ Reclaiming
      <4>1. SEQ_SEGMENTS_COUNT \in nSegments .. SEQ_SEGMENTS_COUNT
        BY <1>1, GeometryAssumption DEF GeometryAssumption, SEQ_SEGMENTS_COUNT
      <4> QED  BY <1>1, <3>2, <4>1 DEF DataInv, FlashInv, ErasedAhead, Erased
    <3> QED  BY <3>1, <3>2
  <2>3. ErasedAhead'
    BY <1>1, <1>3, <2>2 DEF ErasedAhead, Writing
  <2> QED  BY <1>1, <2>1, <2>3 DEF FlashInv
<1>7. \A s \in ReserveSegments : ReserveSlot(SlotOf(s))'
  BY <1>1, <1>5, SlotsApart DEF DataInv, ReserveSlot, Erased
<1>8. CopiedPages'
  BY <1>1 DEF CopiedPages
<1>9. PagesFollow
  <2>1. ASSUME NEW la \in AllocatedSegments \X DataOffsets
        PROVE  /\ Place(la)' = Place(la) /\ Place(la)[1] \in Slots
    <3>1. la[1] \in MappedSegments
      BY SlotsApart
    <3> QED  BY <1>1, <1>5, <3>1 DEF Place, Writing
  <2> QED  BY <1>1, <2>1 DEF SameBlock, PagesFollow
<1>10. LiveInv'
  BY <1>1, <1>4, <1>9, BlocksFollow
<1>11. HeadersInv'
  <2>1. \A s \in AllocatedSegments : HeaderAt(SlotOf(s), s)
    BY <1>1 DEF DataInv, HeadersInv
  <2> QED  BY <1>1, <1>2, <1>4, <1>5, <2>1, SlotsApart DEF HeadersInv, HeaderAt, Writing
<1>12. Gentle
  BY <1>1 DEF Gentle, PageStep
<1> QED  BY <1>6, <1>7, <1>8, <1>9, <1>10, <1>11, <1>12 DEF Carried, Kept, DataInv, ReserveSlot, Erased

(* The next slot was never used.                                           *)
LEMMA AllocateSegmentKept ==
  ASSUME Ctx, AllocateSegment
  PROVE  Carried
<1> USE DEF Ctx
<1>1. /\ pc = "switch" /\ pc' = "header"
      /\ UNCHANGED <<flash, live, sequence_num, wear, trunc>>
      /\ NoReplacement' /\ nSegments # SEQ_SEGMENTS_COUNT
      /\ new_slot_id' = new_slot_id + 1 /\ nSegments' = nSegments + 1
      /\ reclaimed_segment' = reclaimed_segment + 1 /\ reclaimed_offset' = 0
      /\ seg_to_slot_map' = [seg_to_slot_map EXCEPT
                               ![reclaimed_segment + 1] = reclaimed_segment + 1]
  BY DEF AllocateSegment, positionVars, reserveVars, ALL_SEGMENTS_ALLOCATED,
         DataInv, FlashInv, NoReplacement
<1>2. ~ SwapPending /\ ~ Ending' /\ ~ SwapPending'
  BY <1>1 DEF Ending, SwapPending
<1>3. /\ Filling /\ ~ Reclaiming
      /\ nSegments \in Nat /\ nSegments < SEQ_SEGMENTS_COUNT
      /\ reclaimed_segment = nSegments - 1 /\ new_slot_id = nSegments - 1
  <2>1. Filling /\ ~ Reclaiming
    BY <1>1, Phases DEF Reclaiming
  <2>2. nSegments \in Nat /\ nSegments < SEQ_SEGMENTS_COUNT
    BY <1>1, GeometryAssumption
       DEF SlotInv, SlotTypes, GeometryAssumption, SEQ_SEGMENTS_COUNT
  <2> QED  BY <2>1, <2>2 DEF Filling
<1>4. \A s : SlotOf(s) = seg_to_slot_map[s]
  BY <1>2, <1>3 DEF SlotOf
<1>5. AllocatedSegments' = AllocatedSegments \cup {nSegments}
      /\ nSegments \notin AllocatedSegments /\ nSegments \notin ReserveSegments
  BY <1>1, <1>3, GeometryAssumption
     DEF AllocatedSegments, ReserveSegments, GeometryAssumption, SEQ_SEGMENTS_COUNT,
         SEQ_FIRST_RESERVE_SEGMENT
<1>6. \A s \in MappedSegments : SlotOf(s)' = SlotOf(s) /\ SlotOf(s) \in Slots
  <2>1. nSegments \notin MappedSegments
    BY <1>5 DEF MappedSegments
  <2>2. \A s \in MappedSegments : seg_to_slot_map'[s] = seg_to_slot_map[s]
    <3>1. MappedSegments \subseteq Slots /\ DOMAIN seg_to_slot_map = Slots
      BY MappedInSlots DEF SlotInv, SlotTypes
    <3>2. reclaimed_segment + 1 = nSegments
      BY <1>3
    <3> QED  BY <1>1, <2>1, <3>1, <3>2
  <2>3. \A s : SlotOf(s)' = seg_to_slot_map'[s]
    BY <1>2 DEF SlotOf
  <2> QED  BY <1>4, <2>2, <2>3, SlotsApart
<1>7. FlashInv'
  <2>1. PagesTyped' /\ TruncOK' /\ WearOK' /\ EndOK'
    BY <1>1, <1>2 DEF DataInv, FlashInv, PagesTyped, TruncOK, WearOK, EndOK
  <2>2. \A slot \in nSegments .. SEQ_SEGMENTS_COUNT : Erased(slot, 0)'
    BY <1>1, <1>3 DEF DataInv, FlashInv, ErasedAhead, Erased
  <2>3. /\ new_slot_id' \in nSegments .. SEQ_SEGMENTS_COUNT
        /\ nSegments' .. SEQ_SEGMENTS_COUNT \subseteq nSegments .. SEQ_SEGMENTS_COUNT
    BY <1>1, <1>3, GeometryAssumption DEF GeometryAssumption, SEQ_SEGMENTS_COUNT
  <2>4. Erased(new_slot_id, reclaimed_offset)'
    BY <1>1, <2>2, <2>3 DEF Erased
  <2>5. ErasedAhead'
    BY <1>1, <2>2, <2>3, <2>4 DEF ErasedAhead
  <2> QED  BY <1>1, <2>1, <2>5 DEF FlashInv
<1>8. \A s \in ReserveSegments : ReserveSlot(SlotOf(s))'
  BY <1>1, <1>6, SlotsApart DEF DataInv, ReserveSlot, Erased
<1>9. CopiedPages'
  BY <1>1 DEF CopiedPages
<1>10. PagesFollow
  <2>1. ASSUME NEW la \in AllocatedSegments \X DataOffsets
        PROVE  /\ Place(la)' = Place(la) /\ Place(la)[1] \in Slots
    <3>1. la[1] \in MappedSegments
      BY SlotsApart
    <3> QED  BY <1>1, <1>6, <3>1 DEF Place, Writing
  <2> QED  BY <1>1, <2>1 DEF SameBlock, PagesFollow
<1>11. LiveInv'
  BY <1>1, <1>5, <1>10, BlocksFollow
<1>12. HeadersInv'
  <2>1. \A s \in AllocatedSegments : HeaderAt(SlotOf(s), s)
    BY <1>1 DEF DataInv, HeadersInv
  <2>2. \A s \in AllocatedSegments : HeaderAt(SlotOf(s), s)'
    BY <1>1, <1>6, <2>1, SlotsApart DEF HeaderAt
  <2>3. Filling' /\ reclaimed_segment' = nSegments
    <3>1. MappedSegments' = MappedSegments \cup {nSegments}
      BY <1>5 DEF MappedSegments
    <3>2. \A s \in MappedSegments' : seg_to_slot_map'[s] = s
      <4>1. \A s \in MappedSegments : seg_to_slot_map'[s] = s
        BY <1>2, <1>3, <1>4, <1>6 DEF SlotOf, Filling
      <4>2. nSegments \in Slots /\ DOMAIN seg_to_slot_map = Slots
        BY <1>3, GeometryAssumption
           DEF Slots, GeometryAssumption, SEQ_SEGMENTS_COUNT, SlotInv, SlotTypes
      <4>3. seg_to_slot_map'[nSegments] = nSegments
        BY <1>1, <1>3, <4>2
      <4> QED  BY <3>1, <4>1, <4>3
    <3> QED  BY <1>1, <1>3, <3>2 DEF Filling
  <2> QED  BY <1>1, <1>2, <1>5, <2>2, <2>3 DEF HeadersInv, HeaderAt, Writing
<1>13. Gentle
  BY <1>1 DEF Gentle, PageStep
<1> QED  BY <1>7, <1>8, <1>9, <1>10, <1>11, <1>12, <1>13 DEF Carried, Kept, DataInv, ReserveSlot, Erased

(* The next segment is being chosen: the map is up to date and no slot     *)
(* changes hands.                                                          *)
LEMMA ChoosingKept ==
  ASSUME Ctx, SlotInv', pc \in {"toss", "choose", "wear"},
         pc' \in {"choose", "wear", "header", "full"},
         UNCHANGED <<flash, live, sequence_num, seg_to_slot_map, new_slot_id, nSegments>>,
         FlashInv', CopiedPages'
  PROVE  Carried
<1> USE DEF Ctx
<1>1. ~ Ending /\ ~ SwapPending /\ ~ Ending' /\ ~ SwapPending'
  BY DEF Ending, SwapPending
<1>2. /\ AllocatedSegments' = AllocatedSegments
      /\ Reclaiming /\ Reclaiming'
  BY DEF AllocatedSegments, MappedSegments, Reclaiming, SlotInv, ReclaimingSteps
<1>3. ~ Filling'
  BY <1>2, ReclaimingNotFilling
<1>4. \A s : SlotOf(s) = seg_to_slot_map[s] /\ SlotOf(s)' = seg_to_slot_map[s]
  BY <1>1 DEF SlotOf
<1>5. \A s \in ReserveSegments : ReserveSlot(SlotOf(s))'
  BY <1>4 DEF DataInv, ReserveSlot, Erased
<1>6. PagesFollow
  <2>1. ASSUME NEW la \in AllocatedSegments \X DataOffsets
        PROVE  Place(la)' = Place(la) /\ Place(la)[1] \in Slots
    <3>1. la[1] \in MappedSegments
      BY SlotsApart
    <3> QED  BY <1>4, <3>1, SlotsApart DEF Place, Writing
  <2> QED  BY <2>1 DEF SameBlock, PagesFollow
<1>7. LiveInv'
  BY <1>2, <1>6, BlocksFollow
<1>8. HeadersInv'
  BY <1>1, <1>2, <1>3, <1>4 DEF DataInv, HeadersInv, HeaderAt, Writing
<1>9. Gentle
  BY DEF Gentle, PageStep
<1> QED  BY <1>5, <1>6, <1>7, <1>8, <1>9 DEF Carried, Kept, DataInv, ReserveSlot, Erased

LEMMA FindSegmentToReclaimKept ==
  ASSUME Ctx, SlotInv', FindSegmentToReclaim
  PROVE  Carried
<1> USE DEF Ctx
<1>1. /\ pc = "choose"
      /\ \/ pc' = "full"
         \/ pc' = "header" /\ reclaimed_offset' = 0
      /\ UNCHANGED <<flash, live, sequence_num, seg_to_slot_map, new_slot_id, nSegments, wear,
                     trunc>>
      /\ NoReplacement'
  BY DEF FindSegmentToReclaim, slotVars, reserveVars, DataInv, FlashInv, NoReplacement
<1>2. ~ Filling'
  <2>1. Reclaiming'
    BY <1>1 DEF SlotInv, ReclaimingSteps, Reclaiming, MappedSegments, AllocatedSegments
  <2> QED  BY <2>1, ReclaimingNotFilling
<1>3. FlashInv'
  <2>1. PagesTyped' /\ TruncOK' /\ WearOK' /\ EndOK'
    BY <1>1 DEF DataInv, FlashInv, PagesTyped, TruncOK, WearOK, EndOK, Ending, SwapPending
  <2>2. ErasedAhead'
    BY <1>1, <1>2 DEF DataInv, FlashInv, ErasedAhead, Erased, Writing
  <2> QED  BY <1>1, <2>1, <2>2 DEF FlashInv
<1>4. CopiedPages'
  BY <1>1 DEF CopiedPages
<1> QED  BY <1>1, <1>3, <1>4, ChoosingKept

LEMMA SkipWearLevelingKept ==
  ASSUME Ctx, SlotInv', SkipWearLeveling
  PROVE  Carried
<1> USE DEF Ctx
<1>1. /\ pc = "toss" /\ pc' = "choose"
      /\ UNCHANGED <<flash, live, sequence_num, seg_to_slot_map, new_slot_id, nSegments,
                     reclaimed_segment, reclaimed_offset, wear, trunc>>
      /\ SlotsKept /\ NoReplacement'
  BY DEF SkipWearLeveling, slotVars, positionVars, reserveVars, SlotsKept, DataInv, FlashInv,
         NoReplacement
<1>2. ~ Filling'
  BY <1>1, Phases, PhaseKept DEF SlotInv, ReclaimingSteps
<1>3. FlashInv'
  <2>1. PagesTyped' /\ TruncOK' /\ WearOK' /\ EndOK'
    BY <1>1 DEF DataInv, FlashInv, PagesTyped, TruncOK, WearOK, EndOK, Ending, SwapPending
  <2>2. ErasedAhead'
    BY <1>1, <1>2 DEF DataInv, FlashInv, ErasedAhead, Erased, Writing
  <2> QED  BY <1>1, <2>1, <2>2 DEF FlashInv
<1>4. CopiedPages'
  BY <1>1 DEF CopiedPages
<1> QED  BY <1>1, <1>3, <1>4, ChoosingKept

LEMMA StartWearLevelingKept ==
  ASSUME Ctx, SlotInv', NEW r \in RandomSlots, StartWearLeveling(r)
  PROVE  Carried
<1> USE DEF Ctx
<1>1. /\ pc = "toss"
      /\ UNCHANGED <<flash, live, sequence_num, seg_to_slot_map, new_slot_id, nSegments,
                     reclaimed_segment, reclaimed_offset, trunc>>
      /\ SlotsKept /\ NoReplacement'
  BY DEF StartWearLeveling, slotVars, positionVars, reserveVars, SlotsKept, DataInv, FlashInv,
         NoReplacement
<1>2. \/ pc' = "choose"
      \/ /\ pc' = "wear"
         /\ wear'.isSlotReserve = (OrgSegment(RandomSlot(r)) \in ReserveSegments)
         /\ wear'.org_seg = OrgSegment(RandomSlot(r))
         /\ wear'.from = 0 /\ wear'.to = 0 /\ wear'.isToReserve = FALSE
         /\ {"from", "to", "from_phy", "to_phy", "isToReserve"} \subseteq DOMAIN wear'
  BY DEF StartWearLeveling
<1>3. ~ Filling'
  BY <1>1, Phases, PhaseKept DEF SlotInv, ReclaimingSteps
<1>4. AtEuStart(0) /\ PagesPerSlot \in Nat
  BY SlotSize DEF AtEuStart, OffsetInEu
<1>5. WearOK'
  <2>1. CASE pc' = "choose"
    BY <2>1 DEF WearOK, SwapPending
  <2>2. CASE pc' = "wear"
    <3>1. wear'.isSlotReserve <=> wear'.org_seg \in ReserveSegments
      BY <1>2, <2>2
    <3>2. /\ wear'.from = 0 /\ wear'.to = 0 /\ wear'.isToReserve = FALSE
          /\ {"from", "to", "from_phy", "to_phy", "isToReserve"} \subseteq DOMAIN wear'
          /\ ~ SwapPending'
      BY <1>2, <2>2 DEF SwapPending
    <3>3. 0 \in 0 .. PagesPerSlot /\ 0 <= PagesPerEu
      BY <1>4, SlotSize
    <3> QED  BY <1>4, <2>2, <3>1, <3>2, <3>3
             DEF WearOK, ReserveSegments, SEQ_FIRST_RESERVE_SEGMENT
  <2> QED  BY <1>2, <2>1, <2>2
<1>6. FlashInv'
  <2>1. PagesTyped' /\ TruncOK' /\ EndOK'
    BY <1>1, <1>2 DEF DataInv, FlashInv, PagesTyped, TruncOK, EndOK, Ending, SwapPending
  <2>2. ErasedAhead'
    BY <1>1, <1>2, <1>3 DEF DataInv, FlashInv, ErasedAhead, Erased, Writing
  <2> QED  BY <1>1, <1>5, <2>1, <2>2 DEF FlashInv
<1>7. CopiedPages'
  BY <1>2 DEF CopiedPages, Offsets
<1> QED  BY <1>1, <1>2, <1>6, <1>7, ChoosingKept

(* A copy differs from the original in its tag only.                       *)
CopyOf(page, isSlotReserve) ==
  [page EXCEPT !.tag = IF ~ isSlotReserve THEN SEQ_NO_SLOT_AND_EU_OFFSET ELSE page.tag]

LEMMA PageCopied ==
  ASSUME NEW page \in Page, NEW isSlotReserve \in BOOLEAN
  PROVE  /\ CopyOf(page, isSlotReserve) \in Page
         /\ SameBlock(CopyOf(page, isSlotReserve), page)
<1>1. SEQ_NO_SLOT_AND_EU_OFFSET \in Tags
  BY GeometryAssumption DEF GeometryAssumption, SEQ_NO_SLOT_AND_EU_OFFSET, Tags, Eus
<1>2. PICK tag \in Tags :
        tag = IF ~ isSlotReserve THEN SEQ_NO_SLOT_AND_EU_OFFSET ELSE page.tag
  BY <1>1 DEF Page
<1>3. CopyOf(page, isSlotReserve) = [page EXCEPT !.tag = tag]
  BY <1>2, Zenon DEF CopyOf
<1> QED  BY <1>3 DEF SameBlock, Page

LEMMA CopyProgrammed ==
  ASSUME NEW to, NEW slot, NEW off, NEW org, NEW isSlotReserve
  PROVE  copyPage(to, <<slot, off>>, FALSE, org, isSlotReserve) =
           nandProgramPageA(flash, to, CopyOf(flash[slot][off], isSlotReserve))
BY DEF copyPage, CopyOf

(* Where performWearLeveling() stands.                                     *)
LEMMA WearPhase ==
  ASSUME Ctx, pc = "wear"
  PROVE  /\ Reclaiming /\ ~ Ending /\ ~ SwapPending
         /\ \A s : SlotOf(s) = seg_to_slot_map[s]
         /\ new_slot_id \in Slots
         /\ \A s \in MappedSegments : seg_to_slot_map[s] \in Slots \ {new_slot_id}
         /\ wear.random_slot \in Slots \ {new_slot_id}
         /\ wear.org_seg \in MappedSegments
         /\ seg_to_slot_map[wear.org_seg] = wear.random_slot
         /\ wear.isSlotReserve \in BOOLEAN
         /\ wear.isSlotReserve <=> wear.org_seg \in ReserveSegments
         /\ wear.isToReserve = FALSE
         /\ wear.from \in Nat /\ wear.to \in Nat
         /\ wear.isSlotReserve => ReserveSlot(wear.random_slot)
<1> USE DEF Ctx
<1>1. Reclaiming
  BY DEF SlotInv, ReclaimingSteps
<1>2. ~ Ending /\ ~ SwapPending
  BY DEF Ending, SwapPending
<1>3. \A s : SlotOf(s) = seg_to_slot_map[s]
  BY <1>2 DEF SlotOf
<1>4. \A s \in MappedSegments : seg_to_slot_map[s] \in Slots \ {new_slot_id}
  BY <1>1 DEF Reclaiming
<1>5. /\ wear.random_slot \in Slots \ {new_slot_id}
      /\ wear.org_seg \in MappedSegments
      /\ seg_to_slot_map[wear.org_seg] = wear.random_slot
      /\ wear.isSlotReserve \in BOOLEAN
  BY DEF SlotInv, WearTarget, LocalTypes
<1>6. /\ wear.isSlotReserve <=> wear.org_seg \in ReserveSegments
      /\ wear.isToReserve = FALSE
      /\ wear.from \in 0 .. PagesPerSlot /\ wear.to \in 0 .. PagesPerSlot
  BY DEF DataInv, FlashInv, WearOK
<1>7. wear.from \in Nat /\ wear.to \in Nat
  BY <1>6, SlotSize
<1>8. wear.isSlotReserve => ReserveSlot(wear.random_slot)
  BY <1>3, <1>5, <1>6 DEF DataInv
<1> QED  BY <1>1, <1>2, <1>3, <1>4, <1>5, <1>6, <1>7, <1>8, Phases

(* A page is copied to the empty slot, which no segment owns.              *)
LEMMA WearCopyKept ==
  ASSUME Ctx, NEW page \in Page, pc = "wear", pc' = "wear", wear.to < PagesPerSlot,
         Programs(new_slot_id, wear.to, page),
         SameBlock(page, flash[wear.random_slot][wear.to]),
         UNCHANGED <<live, sequence_num, reclaimed_offset, trunc>>,
         SlotsKept, NoReplacement', WearOK',
         wear'.to = wear.to + 1, wear'.random_slot = wear.random_slot
  PROVE  Carried
<1> USE DEF Ctx
<1>1. /\ Reclaiming /\ ~ Ending /\ ~ SwapPending
      /\ \A s : SlotOf(s) = seg_to_slot_map[s]
      /\ new_slot_id \in Slots
      /\ \A s \in MappedSegments : seg_to_slot_map[s] \in Slots \ {new_slot_id}
      /\ wear.random_slot \in Slots \ {new_slot_id}
      /\ wear.to \in Nat
  BY WearPhase
<1>2. ~ Filling
  BY <1>1, Phases
<1>3. /\ AllocatedSegments' = AllocatedSegments /\ new_slot_id' = new_slot_id
      /\ seg_to_slot_map' = seg_to_slot_map
      /\ Reclaiming' /\ ~ Filling'
  BY <1>1, <1>2, PhaseKept DEF SlotsKept
<1>4. \A s : SlotOf(s)' = seg_to_slot_map[s]
  BY <1>3 DEF SlotOf, Ending, SwapPending
<1>5. \A s \in Slots, o \in Offsets :
        flash'[s][o] = IF s = new_slot_id /\ o = wear.to THEN page ELSE flash[s][o]
  BY DEF Programs
<1>6. \A s \in Slots \ {new_slot_id}, o \in Offsets : flash'[s][o] = flash[s][o]
  BY <1>5
<1>7. wear.to \in Offsets /\ 0 \in Offsets
  BY <1>1, SlotSize DEF Offsets
<1>8. Erased(new_slot_id, wear.to)
  BY DEF DataInv, FlashInv, ErasedAhead
<1>9. FlashInv'
  <2>1. PagesTyped'
    <3>1. page.kind = "data" => page.cp = "none"
      BY <1>1, <1>7 DEF SameBlock, DataInv, FlashInv, PagesTyped
    <3> QED  BY <3>1 DEF DataInv, FlashInv, PagesTyped, Programs
  <2>2. TruncOK' /\ EndOK'
    BY DEF TruncOK, EndOK, Ending
  <2>3. Erased(new_slot_id, wear.to)'
    BY <1>1, <1>3, <1>5, <1>8 DEF Erased, Offsets
  <2>4. ErasedAhead'
    BY <1>3, <2>3 DEF ErasedAhead, Writing
  <2> QED  BY <2>1, <2>2, <2>4 DEF FlashInv
<1>10. \A s \in ReserveSegments : ReserveSlot(SlotOf(s))'
  BY <1>1, <1>4, <1>6, <1>7, SlotsApart DEF DataInv, ReserveSlot, Erased
<1>11. CopiedPages'
  <2> SUFFICES ASSUME NEW o \in Offsets, o < wear.to + 1
               PROVE  SameBlock(flash'[new_slot_id][o], flash'[wear.random_slot][o])
    BY <1>3 DEF CopiedPages, Offsets
  <2>1. flash'[wear.random_slot][o] = flash[wear.random_slot][o]
    BY <1>1, <1>6
  <2>2. CASE o = wear.to
    BY <1>1, <1>5, <2>1, <2>2
  <2>3. CASE o # wear.to
    <3>1. o < wear.to
      BY <1>1, <2>3 DEF Offsets
    <3>2. SameBlock(flash[new_slot_id][o], flash[wear.random_slot][o])
      BY <3>1 DEF DataInv, CopiedPages
    <3>3. flash'[new_slot_id][o] = flash[new_slot_id][o]
      BY <1>1, <1>5, <2>3
    <3> QED  BY <2>1, <3>2, <3>3
  <2> QED  BY <2>2, <2>3
<1>12. PagesFollow
  <2>1. ASSUME NEW la \in AllocatedSegments \X DataOffsets
        PROVE  /\ Place(la)' = Place(la) /\ Place(la)[1] \in Slots \ {new_slot_id}
               /\ la[2] \in Offsets
    <3>1. la[1] \in MappedSegments /\ la[2] \in Offsets
      BY SlotsApart, SlotSize DEF DataOffsets, Offsets
    <3> QED  BY <1>1, <1>4, <3>1 DEF Place, Writing
  <2> QED  BY <1>6, <2>1 DEF SameBlock, PagesFollow
<1>13. LiveInv'
  BY <1>3, <1>12, BlocksFollow
<1>14. HeadersInv'
  <2>1. \A s \in AllocatedSegments :
          /\ HeaderAt(seg_to_slot_map[s], s)
          /\ seg_to_slot_map[s] \in Slots \ {new_slot_id}
    BY <1>1, SlotsApart DEF DataInv, HeadersInv
  <2> QED  BY <1>3, <1>4, <1>6, <1>7, <2>1 DEF HeadersInv, HeaderAt, Writing, Ending
<1>15. Gentle
  BY <1>1, <1>5, <1>8 DEF Gentle, PageStep, Erased
<1> QED  BY <1>9, <1>10, <1>11, <1>12, <1>13, <1>14, <1>15 DEF Carried, Kept, DataInv, ReserveSlot, Erased

(* Offsets at the start of an EU.                                          *)
LEMMA EuStarts ==
  /\ AtEuStart(0) /\ AtEuStart(PagesPerEu) /\ AtEuStart(PagesPerSlot)
  /\ \A n \in Nat : AtEuStart(n) /\ n < PagesPerEu => n = 0
  /\ \A n \in Nat : AtEuStart(n) => AtEuStart(n + PagesPerEu)
  /\ \A n \in Nat : AtEuStart(n) /\ n < PagesPerSlot => n + PagesPerEu <= PagesPerSlot
  /\ PagesPerEu < PagesPerSlot
<1>1. /\ PagesPerEu \in Nat /\ PagesPerEu > 0 /\ EusPerSlot \in Nat
      /\ EusPerSlot >= 2
  BY SlotSize, GeometryAssumption DEF GeometryAssumption
<1>2. AtEuStart(0) /\ AtEuStart(PagesPerEu)
  BY <1>1 DEF AtEuStart, OffsetInEu
<1>3. \A n, p \in Nat : p > 0 => (n * p) % p = 0
  OBVIOUS
<1>4. AtEuStart(PagesPerSlot)
  BY <1>1, <1>3 DEF AtEuStart, OffsetInEu, PagesPerSlot
<1>5. \A n \in Nat : AtEuStart(n) /\ n < PagesPerEu => n = 0
  BY <1>1 DEF AtEuStart, OffsetInEu
<1>6. \A n \in Nat : AtEuStart(n) => \E q \in Nat : n = q * PagesPerEu
  <2>1. \A m, p \in Nat : p > 0 /\ m % p = 0 => m = (m \div p) * p /\ m \div p \in Nat
    OBVIOUS
  <2> QED  BY <1>1, <2>1 DEF AtEuStart, OffsetInEu
<1>7. ASSUME NEW n \in Nat, AtEuStart(n)
      PROVE  AtEuStart(n + PagesPerEu)
  <2>1. PICK q \in Nat : n = q * PagesPerEu
    BY <1>6, <1>7
  <2>2. n + PagesPerEu = (q + 1) * PagesPerEu
    BY <1>1, <2>1
  <2>3. ((q + 1) * PagesPerEu) % PagesPerEu = 0
    <3>1. q + 1 \in Nat
      OBVIOUS
    <3> QED  BY <1>1, <1>3, <3>1
  <2> QED  BY <2>2, <2>3 DEF AtEuStart, OffsetInEu
<1>8. ASSUME NEW n \in Nat, AtEuStart(n), n < PagesPerSlot
      PROVE  n + PagesPerEu <= PagesPerSlot
  <2>1. PICK q \in Nat : n = q * PagesPerEu
    BY <1>6, <1>8
  <2>2. \A a, b, c \in Nat : a >= b => a * c >= b * c
    OBVIOUS
  <2>3. q < EusPerSlot
    <3>1. q >= EusPerSlot => q * PagesPerEu >= EusPerSlot * PagesPerEu
      BY <1>1, <2>2
    <3>2. n \in Nat /\ PagesPerSlot \in Nat
      BY SlotSize
    <3> QED  BY <1>1, <1>8, <2>1, <3>1, <3>2 DEF PagesPerSlot
  <2>4. (q + 1) * PagesPerEu <= EusPerSlot * PagesPerEu
    BY <1>1, <2>2, <2>3
  <2>5. (q + 1) * PagesPerEu = q * PagesPerEu + PagesPerEu
    BY <1>1
  <2> QED  BY <2>1, <2>4, <2>5 DEF PagesPerSlot
<1>9. PagesPerEu < PagesPerSlot
  <2>1. \A a, b \in Nat : a >= 2 => a * b >= b + b
    OBVIOUS
  <2> QED  BY <1>1, <2>1 DEF PagesPerSlot
<1> QED  BY <1>2, <1>4, <1>5, <1>7, <1>8, <1>9

(* The steps of the copy loop, without bad EUs.                            *)
LEMMA WearAddresses ==
  ASSUME Ctx, pc = "wear", wear.to < PagesPerSlot, wear.from < PagesPerSlot
  PROVE  /\ WearFrom = <<wear.random_slot, wear.from>>
         /\ WearTo = <<new_slot_id, wear.to>>
         /\ BadEusAt(WearTo) = 0
         /\ PlusEus(WearTo, 0) = WearTo
         /\ wear.from \in Offsets /\ wear.to \in Offsets
         /\ \A o \in Nat : o < PagesPerSlot =>
              /\ (~ AtEuStart(o + 1) => NextPage(<<wear.random_slot, o>>) = <<wear.random_slot, o + 1>>)
              /\ (~ AtEuStart(o + 1) => NextPage(<<new_slot_id, o>>) = <<new_slot_id, o + 1>>)
<1>1. /\ wear.from \in Offsets /\ wear.to \in Offsets
      /\ wear.random_slot \in Slots /\ new_slot_id \in Slots
  BY WearPhase, SlotSize DEF Offsets
<1>2. WearFrom = <<wear.random_slot, wear.from>> /\ WearTo = <<new_slot_id, wear.to>>
  BY <1>1, AddressInSlot DEF WearFrom, WearTo
<1>3. BadEusAt(WearTo) = 0
  <2>1. \A k \in 0 .. NSlots * EusPerSlot :
          (\A j \in 0 .. k - 1 : ~ seq_check_eu_status(PlusEus(WearTo, j))) => k = 0
    <3> SUFFICES ASSUME NEW k \in 0 .. NSlots * EusPerSlot, k # 0
                 PROVE  \E j \in 0 .. k - 1 : seq_check_eu_status(PlusEus(WearTo, j))
      OBVIOUS
    <3>1. 0 \in 0 .. k - 1
      OBVIOUS
    <3> QED  BY <3>1, AllEusValid DEF Ctx
  <2>2. 0 \in 0 .. NSlots * EusPerSlot
    <3>1. \A a, b \in Nat : a * b >= 0 /\ a * b \in Nat
      OBVIOUS
    <3> QED  BY <3>1, GeometryAssumption DEF GeometryAssumption
  <2>3. /\ seq_check_eu_status(PlusEus(WearTo, 0))
        /\ \A j \in 0 .. 0 - 1 : ~ seq_check_eu_status(PlusEus(WearTo, j))
    BY AllEusValid DEF Ctx
  <2> QED  BY <2>1, <2>2, <2>3 DEF BadEusAt
<1>4. PlusEus(WearTo, 0) = WearTo
  <2>1. wear.to + 0 * PagesPerEu = wear.to
    BY <1>1, SlotSize DEF Offsets
  <2> QED  BY <1>1, <1>2, <2>1, AddressInSlot DEF PlusEus
<1>5. ASSUME NEW o \in Nat, o < PagesPerSlot, ~ AtEuStart(o + 1)
      PROVE  o + 1 \in Offsets
  BY <1>5, SlotSize, EuStarts DEF Offsets
<1> QED  BY <1>1, <1>2, <1>3, <1>4, <1>5, AddressInSlot DEF NextPage

(* One page is copied, and the loop goes on with the next one.             *)
LEMMA WearCopyStep ==
  ASSUME Ctx, SlotInv', pc = "wear", pc' = "wear",
         wear.to < PagesPerSlot, wear.from = wear.to,
         wear.isSlotReserve => wear.to < PagesPerEu,
         flash' = nandProgramPageA(flash, <<new_slot_id, wear.to>>,
                    CopyOf(flash[wear.random_slot][wear.to], wear.isSlotReserve)),
         UNCHANGED <<live, sequence_num, reclaimed_offset, trunc>>,
         SlotsKept, NoReplacement',
         wear'.from = wear.from + 1, wear'.to = wear.to + 1,
         wear'.from_phy = NextPage(<<wear.random_slot, wear.to>>),
         wear'.to_phy = NextPage(<<new_slot_id, wear.to>>),
         wear'.isToReserve = FALSE,
         {"from", "to", "from_phy", "to_phy", "isToReserve"} \subseteq DOMAIN wear',
         wear'.random_slot = wear.random_slot, wear'.org_seg = wear.org_seg,
         wear'.isSlotReserve = wear.isSlotReserve
  PROVE  Carried
<1>1. /\ wear.random_slot \in Slots /\ new_slot_id \in Slots /\ wear.to \in Nat
      /\ wear.isSlotReserve \in BOOLEAN /\ wear.to \in Offsets
      /\ wear.isSlotReserve <=> wear.org_seg \in ReserveSegments
  BY WearPhase, WearAddresses
<1>2. PICK page \in Page :
        page = CopyOf(flash[wear.random_slot][wear.to], wear.isSlotReserve)
  BY <1>1, PageCopied DEF Ctx, DataInv, FlashInv, PagesTyped
<1>3. SameBlock(page, flash[wear.random_slot][wear.to])
  BY <1>1, <1>2, PageCopied DEF Ctx, DataInv, FlashInv, PagesTyped
<1>4. Programs(new_slot_id, wear.to, page)
  BY <1>1, <1>2, PageProgrammed DEF Ctx, DataInv, FlashInv
<1>5. new_slot_id' = new_slot_id
  BY DEF SlotsKept
<1>6. WearOK'
  <2>1. wear.to + 1 \in 0 .. PagesPerSlot
    BY <1>1, SlotSize
  <2>2. ~ AtEuStart(wear.to + 1) =>
          /\ wear'.from_phy = <<wear.random_slot, wear.to + 1>>
          /\ wear'.to_phy = <<new_slot_id, wear.to + 1>>
    BY <1>1, WearAddresses
  <2>3. wear.isSlotReserve => wear.to + 1 <= PagesPerEu
    BY <1>1, SlotSize
  <2>4. wear'.isSlotReserve <=> wear'.org_seg \in ReserveSegments
    BY <1>1
  <2>5. wear'.to = wear'.from /\ wear'.to <= wear'.from
    BY <1>1
  <2>6. /\ wear'.from \in 0 .. PagesPerSlot /\ wear'.to \in 0 .. PagesPerSlot
        /\ OffsetInEu(wear'.from) = OffsetInEu(wear'.to)
    BY <2>1
  <2>7. ~ AtEuStart(wear'.to) =>
          /\ wear'.from_phy = <<wear'.random_slot, wear'.from>>
          /\ wear'.to_phy = <<new_slot_id', wear'.to>>
    BY <1>5, <2>2
  <2>8. wear'.isSlotReserve => wear'.to <= PagesPerEu
    BY <2>3
  <2> QED  BY <2>4, <2>5, <2>6, <2>7, <2>8
           DEF WearOK, ReserveSegments, SEQ_FIRST_RESERVE_SEGMENT
<1> QED  BY <1>2, <1>3, <1>4, <1>6, WearCopyKept

LEMMA WearCopyInEuKept ==
  ASSUME Ctx, SlotInv', WearCopyInEu
  PROVE  Carried
<1>1. /\ pc = "wear" /\ pc' = "wear" /\ wear.to < PagesPerSlot /\ wear.from < PagesPerSlot
      /\ ~ AtEuStart(wear.to)
      /\ UNCHANGED <<live, sequence_num, reclaimed_offset, trunc>>
      /\ SlotsKept /\ NoReplacement'
      /\ flash' = copyPage(wear.to_phy, wear.from_phy, wear.isToReserve,
                           SEQ_PHY_ADDRESS_EMPTY, wear.isSlotReserve)
      /\ wear' = [wear EXCEPT !.from = wear.from + 1, !.to = wear.to + 1,
                              !.from_phy = NextPage(wear.from_phy),
                              !.to_phy = NextPage(wear.to_phy)]
  BY DEF WearCopyInEu, Wearing, WearUnchanged, slotVars, positionVars, reserveVars, SlotsKept,
         Ctx, DataInv, FlashInv, NoReplacement
<1>2. WearOK
  BY DEF Ctx, DataInv, FlashInv
<1>3. wear.from = wear.to /\ (wear.isSlotReserve => wear.to < PagesPerEu)
  <2>1. wear.to # PagesPerEu
    BY <1>1, EuStarts
  <2>2. /\ ~ wear.isSlotReserve => wear.from = wear.to
        /\ wear.isSlotReserve => wear.to <= PagesPerEu
        /\ wear.isSlotReserve => wear.from = wear.to \/ wear.to = PagesPerEu
    BY <1>1, <1>2 DEF WearOK
  <2>3. wear.to \in Nat /\ PagesPerEu \in Nat
    BY <1>1, WearPhase, SlotSize
  <2> QED  BY <2>1, <2>2, <2>3
<1>4. /\ wear.from_phy = <<wear.random_slot, wear.to>>
      /\ wear.to_phy = <<new_slot_id, wear.to>>
      /\ wear.isToReserve = FALSE
      /\ {"from", "to", "from_phy", "to_phy", "isToReserve"} \subseteq DOMAIN wear
  BY <1>1, <1>2, <1>3 DEF WearOK
<1>5. flash' = nandProgramPageA(flash, <<new_slot_id, wear.to>>,
                 CopyOf(flash[wear.random_slot][wear.to], wear.isSlotReserve))
  <2>1. flash' = copyPage(<<new_slot_id, wear.to>>, <<wear.random_slot, wear.to>>, FALSE,
                          SEQ_PHY_ADDRESS_EMPTY, wear.isSlotReserve)
    BY <1>1, <1>4, Zenon
  <2> QED  BY <2>1, CopyProgrammed, Zenon
<1>6. /\ wear'.from = wear.from + 1 /\ wear'.to = wear.to + 1
      /\ wear'.from_phy = NextPage(<<wear.random_slot, wear.to>>)
      /\ wear'.to_phy = NextPage(<<new_slot_id, wear.to>>)
      /\ wear'.isToReserve = FALSE
      /\ {"from", "to", "from_phy", "to_phy", "isToReserve"} \subseteq DOMAIN wear'
      /\ wear'.random_slot = wear.random_slot /\ wear'.org_seg = wear.org_seg
      /\ wear'.isSlotReserve = wear.isSlotReserve
  BY <1>1, <1>4
<1> QED  BY <1>1, <1>3, <1>5, <1>6, WearCopyStep

LEMMA WearCopyReserveEuKept ==
  ASSUME Ctx, SlotInv', WearCopyReserveEu
  PROVE  Carried
<1>1. /\ pc = "wear" /\ pc' = "wear" /\ wear.to < PagesPerSlot /\ wear.from < PagesPerSlot
      /\ AtEuStart(wear.to) /\ wear.isSlotReserve
      /\ ~ PageIsEmpty(flash, WearFrom)
      /\ UNCHANGED <<live, sequence_num, reclaimed_offset, trunc>>
      /\ SlotsKept /\ NoReplacement'
  BY DEF WearCopyReserveEu, Wearing, WearUnchanged, slotVars, positionVars, reserveVars,
         SlotsKept, Ctx, DataInv, FlashInv, NoReplacement
<1>2. /\ WearFrom = <<wear.random_slot, wear.from>>
      /\ WearTo = <<new_slot_id, wear.to>>
      /\ BadEusAt(WearTo) = 0 /\ PlusEus(WearTo, 0) = WearTo
      /\ wear.from \in Offsets /\ wear.to \in Offsets
  BY <1>1, WearAddresses
<1>3. wear.from = wear.to /\ wear.to < PagesPerEu
  <2>1. wear.from < PagesPerEu
    <3>1. ReserveSlot(wear.random_slot)
      BY <1>1, WearPhase
    <3>2. wear.from >= PagesPerEu => flash[wear.random_slot][wear.from] = ErasedPage
      BY <1>2, <3>1 DEF ReserveSlot, Erased
    <3>3. flash[wear.random_slot][wear.from].kind # "erased"
      BY <1>1, <1>2 DEF PageIsEmpty
    <3>4. wear.from \in Nat /\ PagesPerEu \in Nat
      BY <1>1, WearPhase, SlotSize
    <3> QED  BY <3>2, <3>3, <3>4 DEF ErasedPage
  <2>2. wear.to <= wear.from /\ (wear.from = wear.to \/ wear.to = PagesPerEu)
    BY <1>1 DEF Ctx, DataInv, FlashInv, WearOK
  <2>3. wear.to \in Nat /\ wear.from \in Nat /\ PagesPerEu \in Nat
    BY <1>1, WearPhase, SlotSize
  <2> QED  BY <2>1, <2>2, <2>3
<1>4. flash' = nandProgramPageA(flash, <<new_slot_id, wear.to>>,
                 CopyOf(flash[wear.random_slot][wear.to], wear.isSlotReserve))
  <2>1. flash' = copyPage(PlusEus(WearTo, BadEusAt(WearTo)), WearFrom, FALSE, WearTo, TRUE)
    BY DEF WearCopyReserveEu
  <2>2. flash' = copyPage(<<new_slot_id, wear.to>>, <<wear.random_slot, wear.to>>, FALSE,
                          WearTo, TRUE)
    BY <1>2, <1>3, <2>1
  <2>3. CopyOf(flash[wear.random_slot][wear.to], TRUE) =
          CopyOf(flash[wear.random_slot][wear.to], wear.isSlotReserve)
    BY <1>1, Zenon DEF CopyOf
  <2>4. flash' = nandProgramPageA(flash, <<new_slot_id, wear.to>>,
                   CopyOf(flash[wear.random_slot][wear.to], TRUE))
    BY <2>2, CopyProgrammed, Zenon
  <2> QED  BY <2>3, <2>4, Zenon
<1>5. {"from", "to", "from_phy", "to_phy", "isToReserve"} \subseteq DOMAIN wear
  BY <1>1 DEF Ctx, DataInv, FlashInv, WearOK
<1>6. wear' = [wear EXCEPT !.from = wear.from + 1,
                           !.to = wear.to + 0 * PagesPerEu + 1,
                           !.from_phy = NextPage(<<wear.random_slot, wear.to>>),
                           !.to_phy = NextPage(<<new_slot_id, wear.to>>),
                           !.isToReserve = FALSE]
  BY <1>2, <1>3 DEF WearCopyReserveEu
<1>7. wear.to + 0 * PagesPerEu + 1 = wear.to + 1
  BY <1>1, WearPhase, SlotSize
<1>8. /\ wear'.from = wear.from + 1 /\ wear'.to = wear.to + 1
      /\ wear'.from_phy = NextPage(<<wear.random_slot, wear.to>>)
      /\ wear'.to_phy = NextPage(<<new_slot_id, wear.to>>)
      /\ wear'.isToReserve = FALSE
      /\ {"from", "to", "from_phy", "to_phy", "isToReserve"} \subseteq DOMAIN wear'
      /\ wear'.random_slot = wear.random_slot /\ wear'.org_seg = wear.org_seg
      /\ wear'.isSlotReserve = wear.isSlotReserve
  BY <1>5, <1>6, <1>7
<1> QED  BY <1>1, <1>3, <1>4, <1>8, WearCopyStep

LEMMA WearCopyDataEuKept ==
  ASSUME Ctx, SlotInv', WearCopyDataEu
  PROVE  Carried
<1>1. /\ pc = "wear" /\ pc' = "wear" /\ wear.to < PagesPerSlot /\ wear.from < PagesPerSlot
      /\ AtEuStart(wear.to) /\ ~ wear.isSlotReserve
      /\ UNCHANGED <<live, sequence_num, reclaimed_offset, trunc>>
      /\ SlotsKept /\ NoReplacement'
  BY DEF WearCopyDataEu, Wearing, WearUnchanged, slotVars, positionVars, reserveVars,
         SlotsKept, Ctx, DataInv, FlashInv, NoReplacement
<1>2. /\ WearFrom = <<wear.random_slot, wear.from>>
      /\ WearTo = <<new_slot_id, wear.to>>
  BY <1>1, WearAddresses
<1>3. wear.from = wear.to
  BY <1>1 DEF Ctx, DataInv, FlashInv, WearOK
<1>4. WearNeedsReserve = FALSE /\ StoredAt(WearFrom) = WearFrom
  BY AllEusValid DEF Ctx, WearNeedsReserve
<1>5. /\ flash' = copyPage(<<new_slot_id, wear.to>>, <<wear.random_slot, wear.to>>, FALSE,
                           WearTo, FALSE)
      /\ wear' = [wear EXCEPT !.from = wear.from + 1, !.to = wear.to + 1,
                              !.from_phy = NextPage(<<wear.random_slot, wear.to>>),
                              !.to_phy = NextPage(<<new_slot_id, wear.to>>),
                              !.isToReserve = FALSE]
  BY <1>2, <1>3, <1>4 DEF WearCopyDataEu
<1>6. flash' = nandProgramPageA(flash, <<new_slot_id, wear.to>>,
                 CopyOf(flash[wear.random_slot][wear.to], wear.isSlotReserve))
  <2>1. CopyOf(flash[wear.random_slot][wear.to], FALSE) =
          CopyOf(flash[wear.random_slot][wear.to], wear.isSlotReserve)
    BY <1>1, Zenon DEF CopyOf
  <2>2. flash' = nandProgramPageA(flash, <<new_slot_id, wear.to>>,
                   CopyOf(flash[wear.random_slot][wear.to], FALSE))
    BY <1>5, CopyProgrammed, Zenon
  <2> QED  BY <2>1, <2>2, Zenon
<1>7. {"from", "to", "from_phy", "to_phy", "isToReserve"} \subseteq DOMAIN wear
  BY <1>1 DEF Ctx, DataInv, FlashInv, WearOK
<1>8. /\ wear'.from = wear.from + 1 /\ wear'.to = wear.to + 1
      /\ wear'.from_phy = NextPage(<<wear.random_slot, wear.to>>)
      /\ wear'.to_phy = NextPage(<<new_slot_id, wear.to>>)
      /\ wear'.isToReserve = FALSE
      /\ {"from", "to", "from_phy", "to_phy", "isToReserve"} \subseteq DOMAIN wear'
      /\ wear'.random_slot = wear.random_slot /\ wear'.org_seg = wear.org_seg
      /\ wear'.isSlotReserve = wear.isSlotReserve
  BY <1>5, <1>7
<1> QED  BY <1>1, <1>3, <1>6, <1>8, WearCopyStep

(* An unused EU of a reserve slot, the last ones, is not copied.           *)
LEMMA WearSkipUnusedKept ==
  ASSUME Ctx, SlotInv', WearSkipUnused
  PROVE  Carried
<1> USE DEF Ctx
<1>1. /\ pc = "wear" /\ pc' = "wear" /\ wear.to < PagesPerSlot /\ wear.from < PagesPerSlot
      /\ AtEuStart(wear.to) /\ wear.isSlotReserve
      /\ PageIsEmpty(flash, WearFrom)
      /\ UNCHANGED <<flash, live, sequence_num, seg_to_slot_map, new_slot_id, nSegments,
                     reclaimed_segment, reclaimed_offset, trunc>>
      /\ SlotsKept /\ NoReplacement'
  BY DEF WearSkipUnused, Wearing, WearUnchanged, slotVars, positionVars, reserveVars,
         SlotsKept, DataInv, FlashInv, NoReplacement
<1>2. /\ WearFrom = <<wear.random_slot, wear.from>>
      /\ BadEusAt(WearTo) = 0
      /\ wear.from \in Offsets /\ wear.to \in Offsets
      /\ wear.from \in Nat /\ wear.to \in Nat
      /\ Reclaiming
  BY <1>1, WearAddresses, WearPhase
<1>3. /\ {"from", "to", "from_phy", "to_phy", "isToReserve"} \subseteq DOMAIN wear
      /\ {"random_slot", "org_seg", "isSlotReserve"} \subseteq DOMAIN wear
      /\ wear.isToReserve = FALSE
      /\ wear.to <= wear.from /\ OffsetInEu(wear.from) = OffsetInEu(wear.to)
      /\ wear.to <= PagesPerEu /\ (wear.from = wear.to \/ wear.to = PagesPerEu)
      /\ wear.isSlotReserve <=> wear.org_seg \in ReserveSegments
  BY <1>1 DEF DataInv, FlashInv, WearOK, SlotInv, LocalTypes
<1>4. wear.to = PagesPerEu
  <2>1. wear.from # 0
    <3>1. flash[wear.random_slot][0].kind = "reserve"
      BY <1>1, WearPhase DEF ReserveSlot
    <3> QED  BY <1>1, <1>2, <3>1 DEF PageIsEmpty
  <2>2. wear.to < PagesPerEu => wear.to = 0
    BY <1>1, <1>2, EuStarts
  <2> QED  BY <1>2, <1>3, <2>1, <2>2, SlotSize
<1>5. wear' = [wear EXCEPT !.from = wear.from + PagesPerEu, !.to = wear.to + 0,
                           !.from_phy = PlusEus(WearFrom, 1),
                           !.to_phy = PlusEus(WearTo, 0)]
  BY <1>2 DEF WearSkipUnused
<1>6. /\ wear'.from = wear.from + PagesPerEu /\ wear'.to = wear.to
      /\ wear'.isToReserve = FALSE
      /\ {"from", "to", "from_phy", "to_phy", "isToReserve"} \subseteq DOMAIN wear'
      /\ wear'.random_slot = wear.random_slot /\ wear'.org_seg = wear.org_seg
      /\ wear'.isSlotReserve = wear.isSlotReserve
  <2>1. wear.to + 0 = wear.to
    BY <1>2
  <2> QED  BY <1>3, <1>5, <2>1
<1>7. WearOK'
  <2>1. AtEuStart(wear.from) /\ wear.from + PagesPerEu <= PagesPerSlot
        /\ AtEuStart(wear.from + PagesPerEu)
    BY <1>1, <1>2, <1>3, EuStarts DEF AtEuStart
  <2>2. wear'.from \in 0 .. PagesPerSlot /\ wear'.to \in 0 .. PagesPerSlot
        /\ wear'.to <= wear'.from
    BY <1>1, <1>2, <1>3, <1>6, <2>1, SlotSize
  <2>3. OffsetInEu(wear'.from) = OffsetInEu(wear'.to) /\ AtEuStart(wear'.to)
    BY <1>1, <1>6, <2>1 DEF AtEuStart
  <2>4. wear'.isSlotReserve /\ wear'.to <= PagesPerEu /\ wear'.to = PagesPerEu
    BY <1>1, <1>3, <1>4, <1>6
  <2>5. wear'.isSlotReserve <=> wear'.org_seg \in ReserveSegments
    BY <1>3, <1>6
  <2> QED  BY <1>6, <2>2, <2>3, <2>4, <2>5
           DEF WearOK, ReserveSegments, SEQ_FIRST_RESERVE_SEGMENT
<1>8. FlashInv'
  <2>1. PagesTyped' /\ TruncOK' /\ EndOK'
    BY <1>1 DEF DataInv, FlashInv, PagesTyped, TruncOK, EndOK, Ending
  <2>2. ~ Filling'
    BY <1>1, <1>2, Phases, PhaseKept
  <2>3. ErasedAhead'
    BY <1>1, <1>6, <2>2 DEF DataInv, FlashInv, ErasedAhead, Erased, Writing
  <2> QED  BY <1>1, <1>7, <2>1, <2>3 DEF FlashInv
<1>9. CopiedPages'
  BY <1>1, <1>6 DEF DataInv, CopiedPages
<1> QED  BY <1>1, <1>8, <1>9, ChoosingKept

(* The copy is complete and becomes the slot of the segment.               *)
LEMMA WearCopiedKept ==
  ASSUME Ctx, WearCopied
  PROVE  Carried
<1> USE DEF Ctx
<1>1. /\ pc = "wear" /\ pc' = "truncate" /\ ~ Wearing
      /\ UNCHANGED <<flash, live, sequence_num, seg_to_slot_map, new_slot_id, nSegments,
                     reclaimed_segment, reclaimed_offset, wear>>
      /\ SlotsKept /\ NoReplacement'
      /\ trunc' = [slot |-> wear.random_slot, eu |-> EusPerSlot - 1,
                   isSlotReserve |-> wear.isSlotReserve, next |-> "swap"]
  BY DEF WearCopied, CallTruncateSlot, WearUnchanged, slotVars, positionVars, reserveVars,
         SlotsKept, DataInv, FlashInv, NoReplacement
<1>2. /\ Reclaiming /\ ~ Ending /\ ~ SwapPending
      /\ \A s : SlotOf(s) = seg_to_slot_map[s]
      /\ new_slot_id \in Slots
      /\ \A s \in MappedSegments : seg_to_slot_map[s] \in Slots \ {new_slot_id}
      /\ wear.org_seg \in MappedSegments
      /\ seg_to_slot_map[wear.org_seg] = wear.random_slot
      /\ wear.isSlotReserve <=> wear.org_seg \in ReserveSegments
      /\ wear.from \in Nat /\ wear.to \in Nat
  BY <1>1, WearPhase
<1>3. ~ Ending' /\ SwapPending' /\ trunc'.slot = wear.random_slot
      /\ trunc'.eu + 1 = EusPerSlot /\ trunc'.next = "swap"
  BY <1>1, GeometryAssumption DEF Ending, SwapPending, GeometryAssumption
<1>4. /\ AllocatedSegments' = AllocatedSegments /\ Reclaiming' /\ ~ Filling'
  BY <1>1, <1>2, Phases, PhaseKept
<1>5. \A s : SlotOf(s)' = IF s = wear.org_seg THEN new_slot_id ELSE seg_to_slot_map[s]
  BY <1>1, <1>3 DEF SlotOf
<1>6. /\ ~ wear.isSlotReserve => wear.to >= PagesPerSlot
      /\ wear.isSlotReserve => wear.to = PagesPerEu
  <2>1. wear.to >= PagesPerSlot \/ wear.from >= PagesPerSlot
    BY <1>1, <1>2, SlotSize DEF Wearing
  <2>2. /\ ~ wear.isSlotReserve => wear.from = wear.to
        /\ wear.isSlotReserve =>
             wear.to <= PagesPerEu /\ (wear.from = wear.to \/ wear.to = PagesPerEu)
    BY <1>1 DEF DataInv, FlashInv, WearOK
  <2>3. PagesPerEu < PagesPerSlot /\ PagesPerEu \in Nat /\ PagesPerSlot \in Nat
    BY EuStarts, SlotSize
  <2> QED  BY <1>2, <2>1, <2>2, <2>3
<1>7. \A o \in Offsets : o < wear.to =>
        SameBlock(flash[new_slot_id][o], flash[wear.random_slot][o])
  BY <1>1 DEF DataInv, CopiedPages
<1>8. FlashInv'
  <2>1. PagesTyped' /\ TruncOK' /\ WearOK' /\ EndOK'
    BY <1>1, <1>2, <1>3 DEF DataInv, FlashInv, PagesTyped, TruncOK, WearOK, EndOK
  <2>2. Erased(trunc.slot, (trunc.eu + 1) * PagesPerEu)'
    <3>1. (trunc'.eu + 1) * PagesPerEu = PagesPerSlot
      BY <1>3 DEF PagesPerSlot
    <3>2. \A o \in Offsets : ~ (o >= PagesPerSlot)
      BY SlotSize DEF Offsets
    <3> QED  BY <3>1, <3>2 DEF Erased
  <2>3. ErasedAhead'
    BY <1>1, <1>4, <2>2 DEF ErasedAhead, Writing
  <2> QED  BY <1>1, <2>1, <2>3 DEF FlashInv
<1>9. 0 \in Offsets /\ 0 < wear.to
  <2>1. 0 < PagesPerEu /\ 0 < PagesPerSlot /\ PagesPerSlot \in Nat
    BY SlotSize
  <2>2. wear.isSlotReserve \/ ~ wear.isSlotReserve
    OBVIOUS
  <2> QED  BY <1>2, <1>6, <2>1, <2>2 DEF Offsets
<1>10. \A s \in ReserveSegments : ReserveSlot(SlotOf(s))'
  <2> SUFFICES ASSUME NEW s \in ReserveSegments PROVE ReserveSlot(SlotOf(s))'
    OBVIOUS
  <2>1. ReserveSlot(seg_to_slot_map[s])
    BY <1>2 DEF DataInv
  <2>2. CASE s # wear.org_seg
    BY <1>1, <1>5, <2>1, <2>2 DEF ReserveSlot, Erased
  <2>3. CASE s = wear.org_seg
    <3>1. wear.to = PagesPerEu
      BY <1>2, <1>6, <2>3
    <3>2. Erased(new_slot_id, PagesPerEu)
      BY <1>1, <3>1 DEF DataInv, FlashInv, ErasedAhead
    <3>3. flash[new_slot_id][0].kind = "reserve"
      BY <1>2, <1>7, <1>9, <2>1, <2>3 DEF SameBlock, ReserveSlot
    <3> QED  BY <1>1, <1>5, <2>3, <3>2, <3>3 DEF ReserveSlot, Erased
  <2> QED  BY <2>2, <2>3
<1>11. CopiedPages'
  BY <1>1 DEF CopiedPages
<1>12. ASSUME NEW s \in AllocatedSegments, NEW o \in Offsets
       PROVE  /\ SlotOf(s)' \in Slots
              /\ SameBlock(flash'[SlotOf(s)'][o], flash[SlotOf(s)][o])
  <2>1. s \in MappedSegments /\ s \notin ReserveSegments
    BY SlotsApart
  <2>2. CASE s # wear.org_seg
    BY <1>1, <1>2, <1>5, <2>1, <2>2 DEF SameBlock
  <2>3. CASE s = wear.org_seg
    <3>1. o < wear.to
      BY <1>2, <1>6, <2>1, <2>3, SlotSize DEF Offsets
    <3> QED  BY <1>1, <1>2, <1>5, <1>7, <2>3, <3>1
  <2> QED  BY <2>2, <2>3
<1>13. PagesFollow
  <2>1. ASSUME NEW la \in AllocatedSegments \X DataOffsets
        PROVE  /\ Place(la)'[1] \in Slots
               /\ SameBlock(flash'[Place(la)'[1]][la[2]], flash[Place(la)[1]][la[2]])
    <3>1. la[1] \in AllocatedSegments /\ la[2] \in Offsets
      BY SlotSize DEF DataOffsets, Offsets
    <3>2. Place(la)[1] = SlotOf(la[1]) /\ Place(la)'[1] = SlotOf(la[1])'
      BY <1>1 DEF Place, Writing
    <3> QED  BY <1>12, <3>1, <3>2
  <2> QED  BY <2>1 DEF PagesFollow
<1>14. LiveInv'
  BY <1>1, <1>4, <1>13, BlocksFollow
<1>15. HeadersInv'
  <2>1. \A s \in AllocatedSegments : HeaderAt(SlotOf(s), s)
    BY <1>1 DEF DataInv, HeadersInv
  <2>2. \A s \in AllocatedSegments : HeaderAt(SlotOf(s), s)'
    <3> SUFFICES ASSUME NEW s \in AllocatedSegments PROVE HeaderAt(SlotOf(s), s)'
      OBVIOUS
    <3>1. SameBlock(flash'[SlotOf(s)'][0], flash[SlotOf(s)][0])
      BY <1>9, <1>12
    <3> QED  BY <1>1, <2>1, <3>1 DEF SameBlock, HeaderAt
  <2> QED  BY <1>1, <1>3, <1>4, <2>2 DEF HeadersInv, HeaderAt, Writing
<1>16. Gentle
  BY <1>1 DEF Gentle, PageStep
<1> QED  BY <1>8, <1>10, <1>11, <1>13, <1>14, <1>15, <1>16 DEF Carried, Kept, DataInv, ReserveSlot, Erased

(* The map says so, too.                                                   *)
LEMMA SwapSlotsKept ==
  ASSUME Ctx, SlotInv', SwapSlots
  PROVE  Carried
<1> USE DEF Ctx
<1>1. /\ pc = "swap" /\ pc' = "choose"
      /\ UNCHANGED <<flash, live, sequence_num, reclaimed_offset, reclaimed_segment,
                     nSegments, trunc>>
      /\ NoReplacement'
      /\ new_slot_id' = wear.random_slot
      /\ seg_to_slot_map' = [seg_to_slot_map EXCEPT ![SEQ_NEW_SEGMENT] = wear.random_slot,
                                                    ![wear.org_seg] = new_slot_id]
  BY DEF SwapSlots, SwappedMap, positionVars, reserveVars, DataInv, FlashInv, NoReplacement
<1>2. ~ Ending /\ SwapPending /\ ~ Ending' /\ ~ SwapPending'
  BY <1>1 DEF Ending, SwapPending
<1>3. Reclaiming' /\ ~ Filling'
  BY <1>1, ReclaimingNotFilling DEF SlotInv, ReclaimingSteps
<1>4. AllocatedSegments' = AllocatedSegments
  BY <1>1 DEF AllocatedSegments
<1>5. \A s \in MappedSegments : SlotOf(s)' = SlotOf(s) /\ SlotOf(s) \in Slots
  <2>1. MappedSegments \subseteq Slots /\ SEQ_NEW_SEGMENT \notin MappedSegments
    BY MappedInSlots DEF SlotInv, SlotTypes
  <2>2. DOMAIN seg_to_slot_map = Slots
    BY DEF SlotInv, SlotTypes
  <2>3. \A s \in MappedSegments :
          seg_to_slot_map'[s] = IF s = wear.org_seg THEN new_slot_id ELSE seg_to_slot_map[s]
    BY <1>1, <2>1, <2>2
  <2> QED  BY <1>2, <2>3, SlotsApart DEF SlotOf
<1>6. FlashInv'
  <2>1. PagesTyped' /\ TruncOK' /\ WearOK' /\ EndOK'
    BY <1>1, <1>2 DEF DataInv, FlashInv, PagesTyped, TruncOK, WearOK, EndOK
  <2>2. ErasedAhead'
    BY <1>1, <1>3 DEF DataInv, FlashInv, ErasedAhead, Erased, Writing
  <2> QED  BY <1>1, <2>1, <2>2 DEF FlashInv
<1>7. \A s \in ReserveSegments : ReserveSlot(SlotOf(s))'
  BY <1>1, <1>5, SlotsApart DEF DataInv, ReserveSlot, Erased
<1>8. CopiedPages'
  BY <1>1 DEF CopiedPages
<1>9. PagesFollow
  <2>1. ASSUME NEW la \in AllocatedSegments \X DataOffsets
        PROVE  /\ Place(la)' = Place(la) /\ Place(la)[1] \in Slots
    <3>1. la[1] \in MappedSegments
      BY SlotsApart
    <3> QED  BY <1>1, <1>5, <3>1 DEF Place, Writing
  <2> QED  BY <1>1, <2>1 DEF SameBlock, PagesFollow
<1>10. LiveInv'
  BY <1>1, <1>4, <1>9, BlocksFollow
<1>11. HeadersInv'
  <2>1. \A s \in AllocatedSegments : HeaderAt(SlotOf(s), s)
    BY <1>1 DEF DataInv, HeadersInv
  <2> QED  BY <1>1, <1>2, <1>4, <1>5, <2>1, SlotsApart DEF HeadersInv, HeaderAt, Writing
<1>12. Gentle
  BY <1>1 DEF Gentle, PageStep
<1> QED  BY <1>6, <1>7, <1>8, <1>9, <1>10, <1>11, <1>12 DEF Carried, Kept, DataInv, ReserveSlot, Erased

-----------------------------------------------------------------------------
(***************************************************************************)
(* The invariant holds on the formatted flash and every step keeps it.     *)
(***************************************************************************)
FullInv == SlotInv /\ CallInv /\ DataInv

LEMMA FormattedFlash ==
  ASSUME Plain, NEW slot \in Slots, NEW o \in Offsets
  PROVE  LET p == FormattedPage(slot, o)
         IN  /\ p \in Page /\ p.kind # "data"
             /\ slot \in ReserveSegments /\ o = 0 => p.kind = "reserve"
             /\ slot \in ReserveSegments /\ o # 0 => p = ErasedPage
             /\ slot = 0 /\ o = 0 => p.kind = "header" /\ p.seg = 0 /\ p.sn = KReserve
             /\ slot = 0 /\ o >= HeaderPages => p = ErasedPage
             /\ slot # 0 /\ slot \notin ReserveSegments => p = ErasedPage
<1> USE GeometryAssumption DEF GeometryAssumption
<1>1. FirstValidEu(slot) = 0
  <2>1. ValidEus(slot) = Eus
    BY DEF Plain, ValidEus
  <2>2. 0 \in Eus /\ \A e \in Eus : e \in Nat
    BY DEF Eus
  <2>3. \A e \in Eus : (\A f \in Eus : e <= f) <=> e = 0
    BY <2>2
  <2>4. (CHOOSE e \in Eus : \A f \in Eus : e <= f) = 0
    BY <2>2, <2>3
  <2> QED  BY <2>1, <2>4 DEF FirstValidEu
<1>2. FirstValidEu(slot) * PagesPerEu = 0
  BY <1>1, SlotSize
<1>3. 0 \notin ReserveSegments /\ o \in Nat
  BY DEF ReserveSegments, SEQ_FIRST_RESERVE_SEGMENT, Offsets
<1>4. slot \in ReserveSegments /\ o = 0 =>
        FormattedPage(slot, o) =
          HeaderPage("reserve", slot, slot - SEQ_FIRST_RESERVE_SEGMENT,
                     SEQ_RESERVE_EU_IS_HEADER)
  BY <1>2 DEF FormattedPage
<1>5. slot \in ReserveSegments /\ o # 0 => FormattedPage(slot, o) = ErasedPage
  BY <1>2, <1>3 DEF FormattedPage
<1>6. slot = 0 /\ o = 0 =>
        FormattedPage(slot, o) = HeaderPage("header", 0, KReserve, SEQ_NO_SLOT_AND_EU_OFFSET)
  BY <1>3 DEF FormattedPage
<1>7. slot = 0 /\ o \in 1 .. CpPages =>
        FormattedPage(slot, o) =
          CheckpointPage(set_cp_page_flag(o - 1), SEQ_NO_SLOT_AND_EU_OFFSET)
  BY <1>3 DEF FormattedPage
<1>8. slot = 0 /\ o >= HeaderPages => FormattedPage(slot, o) = ErasedPage
  BY <1>3, SlotSize DEF FormattedPage
<1>9. slot # 0 /\ slot \notin ReserveSegments => FormattedPage(slot, o) = ErasedPage
  BY DEF FormattedPage
<1>10. slot \in ReserveSegments =>
         LET p == HeaderPage("reserve", slot, slot - SEQ_FIRST_RESERVE_SEGMENT,
                             SEQ_RESERVE_EU_IS_HEADER)
         IN  p \in Page /\ p.kind = "reserve"
  <2>1. SEQ_RESERVE_EU_IS_HEADER \in Tags
    BY DEF SEQ_RESERVE_EU_IS_HEADER, Tags, Eus
  <2>2. slot \in ReserveSegments =>
          slot \in 0 .. NSlots /\ slot - SEQ_FIRST_RESERVE_SEGMENT \in Nat
    BY DEF ReserveSegments, SEQ_FIRST_RESERVE_SEGMENT, Slots
  <2> QED  BY <2>1, <2>2, PageKinds DEF HeaderPage, ErasedPage, Page
<1>11. LET p == HeaderPage("header", 0, KReserve, SEQ_NO_SLOT_AND_EU_OFFSET)
       IN  p \in Page /\ p.kind = "header" /\ p.seg = 0 /\ p.sn = KReserve
  <2>1. 0 \in DataSegments /\ KReserve \in Nat
    BY DEF DataSegments, SEQ_SEGMENTS_COUNT
  <2> QED  BY <2>1, PageKinds
<1>12. LET p == CheckpointPage(set_cp_page_flag(o - 1), SEQ_NO_SLOT_AND_EU_OFFSET)
       IN  p \in Page /\ p.kind = "checkpoint"
  <2>1. set_cp_page_flag(o - 1) \in CpLocations
    BY DEF set_cp_page_flag, CpLocations
  <2> QED  BY <2>1, PageKinds
<1>13. ErasedPage \in Page /\ ErasedPage.kind = "erased"
  BY PageKinds DEF ErasedPage
<1>14. o = 0 \/ o \in 1 .. CpPages \/ o >= HeaderPages
  BY <1>3, SlotSize
<1>15. FormattedPage(slot, o) \in Page /\ FormattedPage(slot, o).kind # "data"
  <2>1. CASE slot \in ReserveSegments
    BY <2>1, <1>4, <1>5, <1>10, <1>13
  <2>2. CASE slot = 0
    BY <2>2, <1>6, <1>7, <1>8, <1>11, <1>12, <1>13, <1>14
  <2>3. CASE slot # 0 /\ slot \notin ReserveSegments
    BY <2>3, <1>9, <1>13
  <2> QED  BY <2>1, <2>2, <2>3
<1> QED  BY <1>4, <1>5, <1>6, <1>8, <1>9, <1>10, <1>11, <1>15

LEMMA InitDataInv ==
  ASSUME Plain, Init
  PROVE  DataInv
<1> USE GeometryAssumption DEF GeometryAssumption
<1>1. /\ flash = [s \in Slots |-> [o \in Offsets |-> FormattedPage(s, o)]]
      /\ pc = "ready" /\ live = {} /\ NoReplacement
      /\ reclaimed_segment = 0 /\ reclaimed_offset = HeaderPages
      /\ new_slot_id = 0 /\ nSegments = 1 /\ sequence_num = KReserve
      /\ seg_to_slot_map = [s \in Slots |->
           IF s = 0 \/ s \in ReserveSegments THEN s ELSE SEQ_NO_SLOT]
  BY DEF Init, NoReplacement
<1>2. \A s \in Slots, o \in Offsets : flash[s][o] = FormattedPage(s, o)
  BY <1>1
<1>3. PagesTyped
  BY <1>1, <1>2, FormattedFlash DEF PagesTyped
<1>4. ~ Ending /\ ~ SwapPending
  BY <1>1 DEF Ending, SwapPending
<1>5. /\ 0 \in Slots /\ 0 \in Offsets
      /\ ReserveSegments \subseteq Slots /\ 0 \notin ReserveSegments
      /\ \A slot \in 1 .. SEQ_SEGMENTS_COUNT : slot \in Slots \ ReserveSegments /\ slot # 0
      /\ AllocatedSegments = {0}
  BY <1>1, SlotSize
     DEF Slots, Offsets, ReserveSegments, SEQ_FIRST_RESERVE_SEGMENT, SEQ_SEGMENTS_COUNT,
         AllocatedSegments
<1>6. SlotOf(0) = 0 /\ \A s \in ReserveSegments : SlotOf(s) = s
  BY <1>1, <1>4, <1>5 DEF SlotOf
<1>7. ErasedAhead
  <2>1. Erased(0, HeaderPages)
    BY <1>2, <1>5, FormattedFlash DEF Erased
  <2>2. \A slot \in 1 .. SEQ_SEGMENTS_COUNT : Erased(slot, 0)
    BY <1>2, <1>5, FormattedFlash DEF Erased
  <2> QED  BY <1>1, <2>1, <2>2 DEF ErasedAhead
<1>8. FlashInv
  BY <1>1, <1>3, <1>4, <1>7 DEF FlashInv, TruncOK, WearOK, EndOK
<1>9. \A s \in ReserveSegments : ReserveSlot(SlotOf(s))
  <2> SUFFICES ASSUME NEW s \in ReserveSegments PROVE ReserveSlot(s)
    BY <1>6
  <2>1. flash[s][0].kind = "reserve"
    BY <1>2, <1>5, FormattedFlash
  <2>2. Erased(s, PagesPerEu)
    BY <1>2, <1>5, FormattedFlash, SlotSize DEF Erased, Offsets
  <2> QED  BY <2>1, <2>2 DEF ReserveSlot
<1>10. CopiedPages /\ LiveInv
  BY <1>1 DEF CopiedPages, LiveInv
<1>11. HeadersInv
  <2>1. HeaderAt(0, 0) /\ flash[0][0].sn = sequence_num
    BY <1>1, <1>2, <1>5, FormattedFlash DEF HeaderAt
  <2> QED  BY <1>1, <1>5, <1>6, <2>1 DEF HeadersInv
<1> QED  BY <1>8, <1>9, <1>10, <1>11 DEF DataInv

(* Without bad EUs none has to be replaced.                                *)
LEMMA NeverOutOfReserves ==
  ASSUME Ctx
  PROVE  /\ ~ NoReserveEu /\ ~ NoReserveForHeader
         /\ ~ WearSkipBadReserve /\ ~ WearGiveUp
<1>1. ~ NoReserveEu
  BY NoEuEntered DEF NoReserveEu
<1>2. ~ NoReserveForHeader /\ ~ WearSkipBadReserve /\ ~ WearGiveUp
  BY AllEusValid
     DEF Ctx, NoReserveForHeader, WearSkipBadReserve, WearGiveUp, WearNeedsReserve
<1> QED  BY <1>1, <1>2

LEMMA StutterKept ==
  ASSUME Ctx, UNCHANGED vars
  PROVE  Kept
<1>1. UNCHANGED <<flash, seg_to_slot_map, new_slot_id, nSegments, reclaimed_segment,
                  reclaimed_offset, is_eu_reserve, reserve_eu_addr, sequence_num, pc,
                  trunc, wear, live>>
  BY DEF vars, slotVars, positionVars, reserveVars
<1>2. FlashInv'
  BY <1>1 DEF Ctx, DataInv, FlashInv, NoReplacement, PagesTyped, TruncOK, WearOK, EndOK,
              Ending, SwapPending, ErasedAhead, Erased, Filling, Reclaiming, MappedSegments,
              AllocatedSegments
<1>3. /\ \A s \in MappedSegments : SlotOf(s)' = SlotOf(s)
      /\ AllocatedSegments' = AllocatedSegments /\ MappedSegments' = MappedSegments
      /\ (Reclaiming' <=> Reclaiming) /\ (Filling' <=> Filling)
      /\ Ending' <=> Ending
  BY <1>1, PhaseKept DEF SlotOf, SwapPending, Ending, SlotsKept
<1>4. \A s \in ReserveSegments : ReserveSlot(SlotOf(s))'
  BY <1>1, <1>3 DEF Ctx, DataInv, ReserveSlot, Erased, MappedSegments
<1>5. CopiedPages'
  BY <1>1 DEF Ctx, DataInv, CopiedPages
<1>6. LiveInv'
  <2>1. \A la \in live : Place(la)' = Place(la)
    BY <1>1, <1>3, SlotsApart DEF Ctx, DataInv, LiveInv, Place
  <2> QED  BY <1>1, <1>3, <2>1 DEF Ctx, DataInv, LiveInv, Holds
<1>7. HeadersInv'
  BY <1>1, <1>3, SlotsApart DEF Ctx, DataInv, HeadersInv, HeaderAt
<1>8. Gentle
  BY <1>1 DEF Gentle, PageStep
<1> QED  BY <1>2, <1>4, <1>5, <1>6, <1>7, <1>8 DEF Kept, DataInv, ReserveSlot, Erased

LEMMA NextKept ==
  ASSUME Ctx, SlotInv', [Next]_vars
  PROVE  Kept
<1>1. CASE ClientStep
  BY <1>1, AllocAndWriteBlockKept, CommitPageKept, CommitRefusedKept,
     FindNextFreePageKept, MarkAsObsoleteKept DEF ClientStep
<1>2. CASE FindStep
  BY <1>2, IterationsExhaustedKept, NeverOutOfReserves, FoundPageKept,
     CopyValidBlockKept, EndSegmentKept DEF FindStep
<1>3. CASE MoveStep
  BY <1>3, MoveToNextSegmentKept, TruncateKept, SwitchToReclamationKept,
     AllocateSegmentKept, FindSegmentToReclaimKept, NeverOutOfReserves,
     WriteSegmentHeaderKept, WriteHeaderCheckpointKept DEF MoveStep, Carried
<1>4. CASE WearStep
  BY <1>4, SkipWearLevelingKept, StartWearLevelingKept, WearCopyInEuKept,
     NeverOutOfReserves, WearSkipUnusedKept, WearCopyReserveEuKept,
     WearCopyDataEuKept, WearCopiedKept, SwapSlotsKept DEF WearStep, Carried
<1> QED  BY <1>1, <1>2, <1>3, <1>4, StutterKept DEF Next

LEMMA FullInvIsInductive ==
  ASSUME Plain
  PROVE  /\ Init => FullInv
         /\ FullInv /\ [Next]_vars => FullInv' /\ Gentle
<1>1. CallAfter = {}
  BY DEF Plain
<1>2. Init => FullInv
  BY <1>1, CallInvIsInductive, InitDataInv DEF FullInv
<1>3. FullInv /\ [Next]_vars => SlotInv' /\ CallInv'
  BY <1>1, CallInvIsInductive DEF FullInv
<1>4. FullInv /\ [Next]_vars => DataInv' /\ Gentle
  BY <1>3, NextKept DEF FullInv, Ctx, Kept
<1> QED  BY <1>2, <1>3, <1>4 DEF FullInv

-----------------------------------------------------------------------------
(* Blocks are read where they are.                                         *)

(* The steps that return an error other than ERROR_FLASH_FULL.             *)
LEMMA Refusals ==
  ASSUME Ctx, [Next]_vars
  PROVE  /\ pc' = "failed" => CommitRefused \/ UNCHANGED vars
         /\ pc' = "noreserve" => UNCHANGED vars
<1>1. ASSUME ClientStep
      PROVE  pc' = "failed" => CommitRefused
  BY <1>1 DEF ClientStep, AllocAndWriteBlock, CommitPage, FindNextFreePage, MarkAsObsolete,
     CallFindNextFreePage, Callable, Ctx, Plain
<1>2. ASSUME ClientStep
      PROVE  pc' # "noreserve"
  BY <1>2 DEF ClientStep, AllocAndWriteBlock, CommitPage, CommitRefused, FindNextFreePage,
     MarkAsObsolete, CallFindNextFreePage, Callable, Ctx, Plain
<1>3. ASSUME FindStep
      PROVE  pc' \notin {"failed", "noreserve"}
  BY <1>3, NeverOutOfReserves DEF FindStep, IterationsExhausted, FoundFreshPage,
     FoundReclaimedPage, CopyValidBlock, EndSegment, ReturnFromFind
<1>4. ASSUME MoveStep
      PROVE  pc' \notin {"failed", "noreserve"}
  <2>1. trunc.next \notin {"failed", "noreserve"}
    BY DEF Ctx, SlotInv, LocalTypes, Trunc
  <2> QED  BY <1>4, <2>1, NeverOutOfReserves DEF MoveStep, MoveToNextSegment, Truncate,
           SwitchToReclamation, AllocateSegment, FindSegmentToReclaim, WriteSegmentHeader,
           WriteHeaderCheckpoint, CallTruncateSlot
<1>5. ASSUME WearStep
      PROVE  pc' \notin {"failed", "noreserve"}
  BY <1>5, NeverOutOfReserves DEF WearStep, SkipWearLeveling, StartWearLeveling,
     WearCopyInEu, WearSkipUnused, WearCopyReserveEu, WearCopyDataEu, WearCopied,
     SwapSlots, CallTruncateSlot, Wearing
<1> QED  BY <1>1, <1>2, <1>3, <1>4, <1>5 DEF Next

(* The three cases of LiveReadable.                                        *)
LEMMA LiveReadableCases ==
  LiveReadable <=>
    \A la \in live :
      /\ Choosing /\ ~ SwapPending =>
           Holds(StoredAt(CALC_ADDRESS(seg_to_slot_map[la[1]], la[2])), la)
      /\ ~ Choosing /\ ~ SwapPending /\ pc # "full" => Holds(logicalAddressToPhysical(la), la)
<1>1. ~ (Choosing /\ (SwapPending \/ pc = "full"))
  BY DEF Choosing, SwapPending
<1>2. ASSUME SwapPending \/ pc = "full"
      PROVE  LiveReadable
  BY <1>1, <1>2, Zenon DEF LiveReadable
<1>3. ASSUME Choosing, ~ (SwapPending \/ pc = "full")
      PROVE  LiveReadable <=>
               \A la \in live :
                 Holds(StoredAt(CALC_ADDRESS(seg_to_slot_map[la[1]], la[2])), la)
  BY <1>3 DEF LiveReadable
<1>4. ASSUME ~ Choosing, ~ (SwapPending \/ pc = "full")
      PROVE  LiveReadable <=> \A la \in live : Holds(logicalAddressToPhysical(la), la)
  BY <1>4 DEF LiveReadable
<1> QED  BY <1>1, <1>2, <1>3, <1>4

(* The code looks for a block where the invariant places it.               *)
LEMMA FoundWhereItIs ==
  ASSUME Ctx, pc \notin {"full", "failed", "noreserve"}
  PROVE  LiveReadable
<1> USE DEF Ctx
<1> SUFFICES ASSUME NEW la \in live, ~ SwapPending
             PROVE  /\ Choosing =>
                         Holds(StoredAt(CALC_ADDRESS(seg_to_slot_map[la[1]], la[2])), la)
                    /\ ~ Choosing => Holds(logicalAddressToPhysical(la), la)
  BY LiveReadableCases
<1>1. Holds(Place(la), la) /\ la[1] \in MappedSegments /\ la[2] \in DataOffsets
  BY SlotsApart DEF DataInv, LiveInv
<1>2. la[2] \in Offsets /\ la[2] \in Nat /\ la[2] > 0
  BY <1>1, SlotSize DEF DataOffsets, Offsets
<1>3. /\ seg_to_slot_map[la[1]] \in Slots /\ new_slot_id \in Slots
      /\ IS_STATE_RECLAMATION <=> Reclaiming
  BY <1>1, Phases
<1>4. ASSUME Choosing
      PROVE  Holds(StoredAt(CALC_ADDRESS(seg_to_slot_map[la[1]], la[2])), la)
  <2>1. ~ Ending /\ pc \notin Writing
    BY <1>4 DEF Choosing, Ending, Writing
  <2>2. Place(la) = <<seg_to_slot_map[la[1]], la[2]>>
    BY <2>1 DEF Place, SlotOf
  <2> QED  BY <1>1, <1>2, <1>3, <2>2, AddressInSlot, AllEusValid
<1>5. ASSUME ~ Choosing
      PROVE  Holds(logicalAddressToPhysical(la), la)
  <2> DEFINE slot == IF /\ IS_STATE_RECLAMATION
                        /\ la[1] = reclaimed_segment
                        /\ la[2] < reclaimed_offset
                     THEN new_slot_id ELSE seg_to_slot_map[la[1]]
  <2>1. slot \in Slots
    BY <1>3
  <2>2. logicalAddressToPhysical(la) = <<slot, la[2]>>
    <3>1. logicalAddressToPhysical(la) = StoredAt(CALC_ADDRESS(slot, la[2]))
      BY DEF logicalAddressToPhysical
    <3> HIDE DEF slot
    <3> QED  BY <1>2, <2>1, <3>1, AddressInSlot, AllEusValid
  <2>3. pc \in Writing \/ pc = "header" \/ Ending
    <3>1. /\ pc \in {"ready", "committing", "committed", "full", "noreserve",
                     "failed", "head"} \cup Moving
          /\ trunc \in Trunc
      BY DEF CallInv, CallOK, SlotInv, LocalTypes
    <3> QED  BY <1>5, <3>1 DEF Choosing, SwapPending, Ending, Writing, Moving, Trunc
  <2>5. CASE pc = "header"
    <3>1. reclaimed_offset = 0 /\ ~ Ending
      BY <2>5 DEF CallInv, Position, Ending
    <3>2. ~ (la[2] < reclaimed_offset)
      BY <1>2, <3>1
    <3>3. Place(la) = <<slot, la[2]>>
      BY <2>5, <3>1, <3>2 DEF Place, SlotOf, Writing
    <3> QED  BY <1>1, <2>2, <3>3
  <2>6. CASE Ending
    <3>1. la[2] < reclaimed_offset
      BY <1>2, <2>6, SlotSize DEF DataInv, FlashInv, EndOK, Offsets
    <3>2. pc \notin Writing
      BY <2>6 DEF Ending, Writing
    <3>3. Place(la) = <<slot, la[2]>>
      BY <1>3, <2>6, <3>1, <3>2 DEF Place, SlotOf
    <3> QED  BY <1>1, <2>2, <3>3
  <2>7. pc \in Writing => Place(la) = <<slot, la[2]>>
    BY <1>3 DEF Place, SlotOf, Writing, Ending
  <2> QED  BY <1>1, <2>2, <2>3, <2>5, <2>6, <2>7
<1> QED  BY <1>4, <1>5

LEMMA RefusalsReadable ==
  ASSUME Ctx, LiveReadable, pc # "noreserve", [Next]_vars
  PROVE  /\ pc' # "noreserve"
         /\ pc' \in {"full", "failed"} => LiveReadable'
<1>1. pc' # "noreserve"
  BY Refusals DEF vars
<1>2. ASSUME pc' = "full"
      PROVE  LiveReadable'
  <2>1. ~ Choosing'
    BY <1>2 DEF Choosing
  <2> QED  BY <1>2, <2>1, Zenon DEF LiveReadable
<1>3. ASSUME pc' = "failed"
      PROVE  LiveReadable'
  <2>1. UNCHANGED <<flash, seg_to_slot_map, new_slot_id, nSegments, reclaimed_segment,
                    reclaimed_offset, trunc, live>>
    BY <1>3, Refusals DEF CommitRefused, vars, slotVars, positionVars
  <2>2. pc \in {"ready", "failed"}
    BY <1>3, Refusals DEF CommitRefused, vars, Callable, Ctx, Plain
  <2>3. ~ SwapPending /\ ~ Choosing /\ ~ SwapPending' /\ ~ Choosing'
    BY <1>3, <2>2 DEF SwapPending, Choosing
  <2>4. \A la \in live : Holds(logicalAddressToPhysical(la), la)
    BY <2>2, <2>3, LiveReadableCases
  <2>5. \A phy : StoredAt(phy) = phy /\ StoredAt(phy)' = phy
    BY AllEusValid DEF Ctx, StoredAt, seq_check_eu_status, Plain, EuIsValid
  <2>6. \A la : logicalAddressToPhysical(la)' = logicalAddressToPhysical(la)
    BY <2>1, <2>5 DEF logicalAddressToPhysical, IS_STATE_RECLAMATION
  <2>7. \A la \in live' : Holds(logicalAddressToPhysical(la), la)'
    BY <2>1, <2>4, <2>6 DEF Holds
  <2> QED  BY <2>3, <2>7 DEF LiveReadable
<1> QED  BY <1>1, <1>2, <1>3

(* The EU kept for copy back is not the first one of its slot.             *)
LEMMA CopybackEuIsSecond ==
  ASSUME Plain
  PROVE  /\ GET_COPYBACK_EU[1] = seg_to_slot_map[SEQ_FIRST_RESERVE_SEGMENT]
         /\ GET_COPYBACK_EU[2] \in Nat \ {0}
<1> USE GeometryAssumption DEF GeometryAssumption
<1> DEFINE Second(e) == Cardinality({f \in Eus : f < e}) = 1
           second    == CHOOSE e \in Eus : Second(e)
<1>1. 0 \in Eus /\ 1 \in Eus /\ \A e \in Eus : e \in Nat
  BY DEF Eus
<1>2. Second(1)
  <2>1. {f \in Eus : f < 1} = {0}
    BY <1>1
  <2> QED  BY <2>1, FS_Singleton
<1>3. ~ Second(0)
  <2>1. {f \in Eus : f < 0} = {}
    BY <1>1
  <2>2. Cardinality({}) = 0
    BY FS_EmptySet
  <2> QED  BY <2>1, <2>2
<1>4. second \in Eus /\ second # 0
  <2> HIDE DEF Second
  <2> QED  BY <1>1, <1>2, <1>3
<1>5. \A slot : ValidEus(slot) = Eus
  BY DEF Plain, ValidEus
<1>6. GET_COPYBACK_EU = <<seg_to_slot_map[SEQ_FIRST_RESERVE_SEGMENT], second>>
  BY <1>5 DEF GET_COPYBACK_EU
<1> HIDE DEF second
<1> QED  BY <1>1, <1>4, <1>6

LEMMA CopybackUnused ==
  ASSUME Plain, FullInv
  PROVE  CopybackEuEmpty
<1> USE DEF FullInv
<1> SUFFICES ASSUME ~ SwapPending, NEW o \in Offsets, EuOf(o) = GET_COPYBACK_EU[2]
             PROVE  PageIsEmpty(flash, <<GET_COPYBACK_EU[1], o>>)
  BY DEF CopybackEuEmpty
<1> DEFINE slot == seg_to_slot_map[SEQ_FIRST_RESERVE_SEGMENT]
<1>1. SEQ_FIRST_RESERVE_SEGMENT \in ReserveSegments
  BY GeometryAssumption
     DEF GeometryAssumption, ReserveSegments, SEQ_FIRST_RESERVE_SEGMENT
<1>2. SlotOf(SEQ_FIRST_RESERVE_SEGMENT) = slot
  BY <1>1, Phases, SlotsApart DEF SlotOf
<1>3. Erased(slot, PagesPerEu)
  BY <1>1, <1>2 DEF DataInv, ReserveSlot
<1>4. o >= PagesPerEu
  <2>1. o \in Nat /\ PagesPerEu \in Nat \ {0}
    BY SlotSize DEF Offsets
  <2>2. \A a \in Nat, b \in Nat \ {0} : a < b => a \div b = 0
    OBVIOUS
  <2> QED  BY <2>1, <2>2, CopybackEuIsSecond DEF EuOf
<1>5. flash[slot][o] = ErasedPage
  BY <1>3, <1>4 DEF Erased
<1> QED  BY <1>5, CopybackEuIsSecond DEF PageIsEmpty, ErasedPage

LEMMA HeadersFound ==
  ASSUME Plain, FullInv
  PROVE  HeadersNameSegments
<1> USE DEF FullInv
<1> SUFFICES ASSUME pc \in {"ready", "committed"}
             PROVE  HeadersNameSegments
  BY DEF HeadersNameSegments, AtClient
<1>1. pc \in Writing /\ ~ Ending /\ ~ SwapPending /\ pc # "header"
  BY DEF Writing, Ending, SwapPending
<1>2. \A s \in AllocatedSegments : SlotOf(s) = seg_to_slot_map[s] /\ SlotOf(s) \in Slots
  BY <1>1, SlotsApart
<1>3. new_slot_id \in Slots
  BY Phases
<1>4. \A slot \in Slots : HeaderOf(slot) = flash[slot][0]
  <2>1. 0 \in Offsets
    BY SlotSize DEF Offsets
  <2>2. \A slot \in Slots : <<slot, 0>> # SEQ_PHY_ADDRESS_EMPTY
    BY GeometryAssumption DEF GeometryAssumption, Slots, SEQ_PHY_ADDRESS_EMPTY
  <2> QED  BY <2>1, <2>2, AddressInSlot, AllEusValid DEF HeaderOf
<1>5. /\ \A s \in AllocatedSegments : HeaderAt(SlotOf(s), s)
      /\ HeaderAt(new_slot_id, reclaimed_segment)
      /\ flash[new_slot_id][0].sn = sequence_num
      /\ \A s \in AllocatedSegments :
           SlotOf(s) # new_slot_id => flash[SlotOf(s)][0].sn < sequence_num
  BY <1>1 DEF DataInv, HeadersInv
<1> QED  BY <1>2, <1>3, <1>4, <1>5 DEF HeadersNameSegments, HeaderAt

-----------------------------------------------------------------------------
(***************************************************************************)
(* What every page of the flash is, at every step of every call: the       *)
(* invariant the theorems below rest on.                                   *)
(***************************************************************************)
THEOREM DataInvariant == ASSUME Plain PROVE Spec => []FullInv
BY FullInvIsInductive, PTL DEF Spec

(***************************************************************************)
(* The memory of the sequencing layer and every page of the flash keep     *)
(* their types.                                                            *)
(***************************************************************************)
THEOREM StateTyped == ASSUME Plain PROVE Spec => []TypeOK
<1>1. FullInv => TypeOK
  BY DEF FullInv, SlotInv, SlotTypes, CountersType, LocalTypes, CallInv, Position,
         CallOK, Fields, FieldsOK, Moving, TypeOK, DataInv, FlashInv, PagesTyped
<1> QED  BY <1>1, DataInvariant, PTL

(***************************************************************************)
(* No block is ever lost or confused with another: readBlock() finds every *)
(* block that was written and is not obsolete, after each page that        *)
(* findNextFreePage() or performWearLeveling() copies and each EU that     *)
(* truncateSlot() erases, while slots trade places and when a write was    *)
(* refused.                                                                *)
(***************************************************************************)
THEOREM BlocksStayReadable == ASSUME Plain PROVE Spec => []LiveReadable
<1> DEFINE Refused == pc \in {"full", "failed"}
           Out     == pc = "noreserve"
<1>1. FullInv /\ ~ Refused /\ ~ Out => LiveReadable
  BY FoundWhereItIs DEF FullInv, Ctx
<1>2. Init => LiveReadable /\ ~ Out
  BY DEF Init, LiveReadable
<1>3. FullInv /\ LiveReadable /\ ~ Out /\ [Next]_vars =>
        ~ Out' /\ (Refused' => LiveReadable')
  BY RefusalsReadable DEF FullInv, Ctx
<1> HIDE DEF Refused, Out
<1> QED  BY <1>1, <1>2, <1>3, DataInvariant, PTL DEF Spec

(***************************************************************************)
(* The rule of the medium, which the simulated driver asserts: the layer   *)
(* programs only erased pages, marks a page obsolete only once and changes *)
(* nothing else, whichever operation is under way.                         *)
(***************************************************************************)
THEOREM MediumRespected == ASSUME Plain PROVE Spec => NandDiscipline
<1>1. FullInv /\ [Next]_vars =>
        [\A p \in Pages :
           /\ PageStep(flash[p[1]][p[2]], flash'[p[1]][p[2]])
           /\ ~ seq_check_eu_status(p) =>
                flash'[p[1]][p[2]] = flash[p[1]][p[2]]]_vars
  BY FullInvIsInductive, AllEusValid DEF Gentle, Pages
<1> QED  BY <1>1, DataInvariant, PTL DEF Spec, NandDiscipline

(***************************************************************************)
(* What booting relies on: between two calls the slot of every segment     *)
(* starts with a header that names it, and the largest sequence number is  *)
(* that of the current segment, in the slot being written.                 *)
(***************************************************************************)
THEOREM HeadersKept == ASSUME Plain PROVE Spec => []HeadersNameSegments
<1>1. FullInv => HeadersNameSegments
  BY HeadersFound
<1> QED  BY <1>1, DataInvariant, PTL

(***************************************************************************)
(* The second EU of the first reserve slot stays erased, also when wear    *)
(* leveling moves that slot: copying back a broken EU at boot needs it.    *)
(***************************************************************************)
THEOREM CopybackEuKept == ASSUME Plain PROVE Spec => []CopybackEuEmpty
<1>1. FullInv => CopybackEuEmpty
  BY CopybackUnused
<1> QED  BY <1>1, DataInvariant, PTL

=============================================================================

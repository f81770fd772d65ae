------------------------ MODULE SequencingProperties ------------------------
(***************************************************************************)
(* What the sequencing layer owes to the file system above it and to the   *)
(* flash below it.                                                         *)
(***************************************************************************)
EXTENDS Sequencing

(* Control is back in the file system and no error was returned.           *)
AtClient == pc \in {"ready", "committed"}

(* The segments that have a slot.                                          *)
AllocatedSegments == 0 .. nSegments - 1
MappedSegments    == AllocatedSegments \cup ReserveSegments

Pages == Slots \X Offsets

(* The type of every field of segment_map, of the obsolete counters and of *)
(* the locals of a running call.                                           *)
FieldsOK ==
  /\ seg_to_slot_map \in [Slots -> 0 .. NSlots]
  /\ reclaimed_segment \in DataSegments
  /\ reclaimed_offset \in 0 .. PagesPerSlot
  /\ previously_written_segment \in DataSegments \cup {SEQ_NO_SEGMENT_NUM}
  /\ new_slot_id \in Slots
  /\ nSegments \in 1 .. SEQ_SEGMENTS_COUNT
  /\ is_eu_reserve \in BOOLEAN
  /\ reserve_eu_addr \in Pages \cup {SEQ_PHY_ADDRESS_EMPTY}
  /\ sequence_num \in Nat
  /\ counters \in [0 .. (NSlots \div 2) - 1 -> 0 .. 255]
  /\ counter \in Int /\ free_counter \in Int
  /\ pc \in {"ready", "committing", "committed", "full", "noreserve",
             "failed", "head", "scan", "truncate", "switch", "toss", "choose",
             "header", "headerCp", "wear", "swap"}
  /\ frame \in Frame
  /\ trunc \in Trunc
  /\ live \subseteq LogicalAddresses

(***************************************************************************)
(* The type of the state: the fields kept in memory and every page of the  *)
(* flash.                                                                  *)
(***************************************************************************)
TypeOK == FieldsOK /\ flash \in [Slots -> [Offsets -> Page]]

(***************************************************************************)
(* When the file system may write, the position is a data page of the      *)
(* current segment: neither its header nor a page past its end, where      *)
(* CALC_ADDRESS() would name a page of the next slot.  commit() leaves the *)
(* position one page behind its last page, findNextFreePage() mends that.  *)
(***************************************************************************)
PositionInSlot ==
  /\ pc \in {"ready", "committing"} => reclaimed_offset \in DataOffsets
  /\ pc = "committed" => reclaimed_offset \in HeaderPages .. PagesPerSlot

-----------------------------------------------------------------------------
(***************************************************************************)
(* No two segments share a slot: the slots of the allocated data segments  *)
(* and of the reserve segments differ, and the slot that is written next   *)
(* belongs to none of them, or to the current segment while that segment   *)
(* is being filled for the first time.  moveToNextSegment() and            *)
(* performWearLeveling() trade slots over several assignments.             *)
(***************************************************************************)
SlotPartition ==
  /\ \A s, t \in MappedSegments :
       s # t => seg_to_slot_map[s] # seg_to_slot_map[t]
  /\ \A s \in MappedSegments : seg_to_slot_map[s] \in Slots
  /\ \A s \in MappedSegments :
       seg_to_slot_map[s] = new_slot_id => s = reclaimed_segment

(* The slots have traded places but the map does not say so yet.           *)
SwapPending == pc = "swap" \/ (pc = "truncate" /\ trunc.next = "swap")

(* The next segment is being chosen: the position is that of the previous  *)
(* one, whose slot the map already names.                                  *)
Choosing == \/ pc \in {"toss", "choose", "wear"}
            \/ pc = "truncate" /\ trunc.next = "choose"

Holds(phy, la) ==
  /\ phy # SEQ_PHY_ADDRESS_EMPTY
  /\ flash[phy[1]][phy[2]].kind = "data"
  /\ flash[phy[1]][phy[2]].addr = la
  /\ ~ flash[phy[1]][phy[2]].obs

(***************************************************************************)
(* A block that was written and not marked obsolete is found at its        *)
(* logical address, through reclamation, wear leveling, truncation and     *)
(* bad EUs, after every single flash operation (readBlock() and            *)
(* markAsObsolete() go through logicalAddressToPhysical()).  The state     *)
(* after ERROR_FLASH_FULL is left out: moveToNextSegment() returns it with *)
(* the slots exchanged and no segment chosen, and blocks of the last       *)
(* segment are then looked for in the erased slot (see README.md).         *)
(***************************************************************************)
LiveReadable ==
  \A la \in live :
    CASE SwapPending \/ pc = "full" -> TRUE
      [] Choosing -> Holds(StoredAt(CALC_ADDRESS(seg_to_slot_map[la[1]], la[2])), la)
      [] OTHER    -> Holds(logicalAddressToPhysical(la), la)

(***************************************************************************)
(* The rule of the medium, asserted in the simulated driver: a page is     *)
(* programmed only when it is erased, its obsolete byte once, and a bad EU *)
(* never changes.                                                          *)
(***************************************************************************)
PageStep(old, new) ==
  \/ new = old
  \/ old = ErasedPage
  \/ new = ErasedPage
  \/ ~ old.obs /\ new = [old EXCEPT !.obs = TRUE]

NandDiscipline ==
  [][\A p \in Pages :
       /\ PageStep(flash[p[1]][p[2]], flash'[p[1]][p[2]])
       /\ ~ seq_check_eu_status(p) =>
            flash'[p[1]][p[2]] = flash[p[1]][p[2]]]_vars

-----------------------------------------------------------------------------
(* The page of a logical address, a fresh one for a segment without a slot.*)
PageOf(la) ==
  IF la[1] \in AllocatedSegments
  THEN LET phy == logicalAddressToPhysical(la)
       IN  IF phy = SEQ_PHY_ADDRESS_EMPTY THEN ErasedPage
           ELSE flash[phy[1]][phy[2]]
  ELSE ErasedPage

(***************************************************************************)
(* The pages the counters speak of: all but headers and the page that is   *)
(* ready for the next write, which in reclamation was taken off its        *)
(* counter by is_page_to_copy().                                           *)
(***************************************************************************)
Taken == IF IS_STATE_RECLAMATION
         THEN {<<reclaimed_segment, reclaimed_offset>>} ELSE {}

Counted == (DataSegments \X DataOffsets) \ Taken

(***************************************************************************)
(* The page counts that decide when writes are refused (handleMinPages())  *)
(* are exact when the file system reads them: counter is the number of     *)
(* obsolete pages, free_counter that of fresh pages and of the checkpoint  *)
(* pages ("overwriting a checkpoint page decrements free page count").     *)
(***************************************************************************)
CountersExact ==
  pc = "ready" =>
    /\ counter = Cardinality({la \in Counted : PageOf(la).obs})
    /\ free_counter = Cardinality({la \in Counted :
                        ~ PageOf(la).obs /\ PageOf(la).kind # "data"})

(***************************************************************************)
(* A segment that has obsolete pages, and is not the current one, is known *)
(* to have some: its level is not OBS_COUNT_NO_OBSOLETES, so that          *)
(* findSegmentToReclaim() does not overlook it.                            *)
(***************************************************************************)
ObsoleteSegmentsKnown ==
  AtClient =>
    \A la \in DataSegments \X DataOffsets :
      (la[1] # reclaimed_segment /\ PageOf(la).obs) =>
        get_counter_level(la[1]) # OBS_COUNT_NO_OBSOLETES

-----------------------------------------------------------------------------
HeaderOf(slot) ==
  LET phy == StoredAt(CALC_ADDRESS(slot, 0))
  IN  IF phy = SEQ_PHY_ADDRESS_EMPTY THEN ErasedPage ELSE flash[phy[1]][phy[2]]

(***************************************************************************)
(* What booting relies on: the slot of every segment starts with a header  *)
(* that names it, and the largest sequence number is the one of the slot   *)
(* being written, which carries the current segment.                       *)
(***************************************************************************)
HeadersNameSegments ==
  AtClient =>
    /\ \A s \in AllocatedSegments :
         /\ HeaderOf(seg_to_slot_map[s]).kind = "header"
         /\ HeaderOf(seg_to_slot_map[s]).seg = s
         /\ seg_to_slot_map[s] # new_slot_id =>
              HeaderOf(seg_to_slot_map[s]).sn < sequence_num
    /\ HeaderOf(new_slot_id).kind = "header"
    /\ HeaderOf(new_slot_id).seg = reclaimed_segment
    /\ HeaderOf(new_slot_id).sn = sequence_num

(***************************************************************************)
(* A used EU of a reserve slot stands for one bad EU of a slot that holds  *)
(* data, no other stands for the same, and none outlives the data it was   *)
(* taken for, in particular when allocReserveEU() says that it found none. *)
(***************************************************************************)
ReserveEus == {eu \in ReserveSlots \X Eus : EuIsValid(eu[1], eu[2])}
Used       == {eu \in ReserveEus : EuTag(eu) \notin
                 {SEQ_NO_SLOT_AND_EU_OFFSET, SEQ_RESERVE_EU_IS_HEADER}}

ReserveEusAccounted ==
  AtClient \/ pc = "noreserve" =>
    /\ \A eu \in Used : EuTag(eu) \in BadEus /\ EuTag(eu)[1] \notin ReserveSlots
    /\ \A eu, other \in Used : eu # other => EuTag(eu) # EuTag(other)
    /\ \A eu \in Used : EuTag(eu)[1] = new_slot_id =>
         EuTag(eu)[2] * PagesPerEu < reclaimed_offset

(* The EU kept for copying back a broken EU at boot is never written.      *)
CopybackEuEmpty ==
  ~ SwapPending =>
    \A o \in Offsets : EuOf(o) = GET_COPYBACK_EU[2] =>
      PageIsEmpty(flash, <<GET_COPYBACK_EU[1], o>>)

-----------------------------------------------------------------------------
(* Every call of the file system returns, with a free page or an error.    *)
CallsReturn ==
  (pc \notin {"ready", "committed", "full", "noreserve", "failed"}) ~>
  (pc \in {"ready", "committed", "full", "noreserve"})
=============================================================================

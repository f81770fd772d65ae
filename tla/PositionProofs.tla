--------------------------- MODULE PositionProofs ---------------------------
(***************************************************************************)
(* The position of the next write stays inside its slot and every field    *)
(* keeps its type, for every geometry, as long as the file system does not *)
(* call the sequencing layer again after an error.                         *)
(***************************************************************************)
EXTENDS SequencingProofs

(* A slot has room for a header, its checkpoint and at least one page.     *)
LEMMA SlotSize ==
  /\ PagesPerEu \in Nat /\ PagesPerEu >= 2
  /\ PagesPerSlot \in Nat
  /\ CpPages \in Nat \ {0}
  /\ HeaderPages \in Nat /\ HeaderPages = CpPages + 1
  /\ HeaderPages < PagesPerSlot
<1> USE GeometryAssumption DEF GeometryAssumption, HeaderPages, PagesPerSlot
<1>1. PagesPerEu \in Nat /\ PagesPerEu >= 2 /\ EusPerSlot >= 2
  OBVIOUS
<1>2. \A a, b \in Nat : a >= 2 => a * b >= 2 * b /\ a * b \in Nat
  OBVIOUS
<1>3. PagesPerSlot >= 2 * PagesPerEu /\ PagesPerSlot \in Nat
  BY <1>1, <1>2
<1> QED  BY <1>1, <1>3

(* The first page of an EU is a page of its slot.                          *)
LEMMA EuStartInSlot ==
  ASSUME NEW e \in Eus
  PROVE  e * PagesPerEu \in Offsets
<1> USE GeometryAssumption DEF GeometryAssumption
<1>1. e \in Nat /\ e <= EusPerSlot - 1 /\ PagesPerEu \in Nat /\ PagesPerEu >= 2
  BY SlotSize DEF Eus
<1>2. \A a, b, c \in Nat : a <= b => a * c <= b * c /\ a * c \in Nat
  OBVIOUS
<1>3. /\ e * PagesPerEu \in Nat
      /\ e * PagesPerEu <= (EusPerSlot - 1) * PagesPerEu
  BY <1>1, <1>2
<1>4. (EusPerSlot - 1) * PagesPerEu = PagesPerSlot - PagesPerEu
  BY DEF PagesPerSlot
<1> QED  BY <1>1, <1>3, <1>4, SlotSize DEF Offsets

(* allocReserveEU() yields the start of an EU of a reserve slot, or none.  *)
LEMMA AllocReserveType ==
  ASSUME SlotInv, NEW phy, EuOf(phy[2]) \in Int
  PROVE  allocReserveEU(phy) \in Pages \cup {SEQ_PHY_ADDRESS_EMPTY}
<1> DEFINE start   == EuOf(phy[2])
           Found   == {x \in ReserveSegments \X Eus :
                         /\ EuIsValid(seg_to_slot_map[x[1]], x[2])
                         /\ <<seg_to_slot_map[x[1]], x[2]>> # GET_COPYBACK_EU
                         /\ EuTag(<<seg_to_slot_map[x[1]], x[2]>>) =
                              SEQ_NO_SLOT_AND_EU_OFFSET}
           Rank(x) == x[1] * EusPerSlot + ((x[2] - start) % EusPerSlot)
           first   == CHOOSE x \in Found : \A y \in Found : Rank(x) <= Rank(y)
<1>1. allocReserveEU(phy) =
        IF Found = {} THEN SEQ_PHY_ADDRESS_EMPTY
        ELSE <<seg_to_slot_map[first[1]], first[2] * PagesPerEu>>
  BY DEF allocReserveEU, FirstReserveEu
<1>2. \A x \in Found : x[1] \in ReserveSegments /\ x[2] \in Eus
  OBVIOUS
<1>3. ASSUME Found # {} PROVE first \in Found
  <2>1. \A x \in Found : Rank(x) \in Nat
    <3> SUFFICES ASSUME NEW x \in Found PROVE Rank(x) \in Nat
      OBVIOUS
    <3>1. x[1] \in Nat /\ x[2] \in Int
      BY <1>2, GeometryAssumption
         DEF ReserveSegments, SEQ_FIRST_RESERVE_SEGMENT, Eus, GeometryAssumption
    <3>2. EusPerSlot \in Nat /\ EusPerSlot > 0 /\ start \in Int
      BY GeometryAssumption DEF GeometryAssumption
    <3>3. (x[2] - start) % EusPerSlot \in Nat
      BY <3>1, <3>2
    <3>4. x[1] * EusPerSlot \in Nat
      BY <3>1, <3>2
    <3> QED  BY <3>3, <3>4
  <2> HIDE DEF Found, Rank
  <2> DEFINE T == {Rank(x) : x \in Found}
  <2>2. T \subseteq Nat /\ T # {}
    BY <1>3, <2>1
  <2>3. PICK r \in T : \A y \in T : r <= y
    <3> HIDE DEF T
    <3> QED  BY <2>2, LeastNatural
  <2>4. PICK x \in Found : r = Rank(x)
    OBVIOUS
  <2>5. \A y \in Found : Rank(x) <= Rank(y)
    BY <2>3, <2>4
  <2> QED  BY <2>5
<1>4. \A s \in ReserveSegments : seg_to_slot_map[s] \in Slots
  <2>1. ReserveSegments \subseteq MappedSegments
    BY DEF MappedSegments
  <2> QED  BY <2>1, SlotInvImpliesPartition DEF SlotPartition
<1> HIDE DEF first, Found
<1> QED  BY <1>1, <1>2, <1>3, <1>4, EuStartInSlot DEF Pages

-----------------------------------------------------------------------------
(***************************************************************************)
(* The inductive invariant: where the position is at each point of a call, *)
(* and that a call that is being served has a round of findNextFreePage()  *)
(* left.  SlotInv goes with it.                                            *)
(***************************************************************************)
Position ==
  /\ pc \in {"ready", "committing"} => reclaimed_offset \in DataOffsets
  /\ pc = "header"   => reclaimed_offset = 0
  /\ pc = "headerCp" => reclaimed_offset \in 1 .. CpPages
  /\ pc \notin {"header", "headerCp", "noreserve"} =>
       reclaimed_offset \in HeaderPages .. PagesPerSlot
  /\ reclaimed_offset \in 0 .. PagesPerSlot

Moving == {"scan", "truncate", "switch", "toss", "choose", "header",
           "headerCp", "wear", "swap"}

CallOK ==
  /\ frame \in Frame
  /\ pc = "ready" => frame = NoFrame
  /\ pc \in Moving => frame.iterations > 0
  /\ pc \in {"ready", "committing", "committed", "full", "noreserve",
             "failed", "head"} \cup Moving

Fields ==
  /\ previously_written_segment \in DataSegments \cup {SEQ_NO_SEGMENT_NUM}
  /\ is_eu_reserve \in BOOLEAN
  /\ reserve_eu_addr \in Pages \cup {SEQ_PHY_ADDRESS_EMPTY}
  /\ sequence_num \in Nat
  /\ counter \in Int /\ free_counter \in Int
  /\ live \subseteq LogicalAddresses

CallInv == Position /\ CallOK /\ Fields

LEMMA InitCallInv == Init => CallInv
<1> SUFFICES ASSUME Init PROVE CallInv
  OBVIOUS
<1>1. Position
  BY SlotSize DEF Init, Position, DataOffsets
<1>2. CallOK
  BY SlotSize, GeometryAssumption
     DEF Init, CallOK, Frame, NoFrame, Callers, GeometryAssumption,
         SEQ_SEGMENTS_COUNT, Moving
<1>3. free_counter \in Int
  <2>1. SEQ_SEGMENTS_COUNT \in Int /\ PagesPerSlot - HeaderPages \in Int
    BY SlotSize, GeometryAssumption DEF GeometryAssumption, SEQ_SEGMENTS_COUNT
  <2> QED  BY <2>1 DEF Init
<1>4. Fields
  <2>1. KReserve \in Nat
    BY GeometryAssumption DEF GeometryAssumption
  <2>2. /\ previously_written_segment = SEQ_NO_SEGMENT_NUM /\ live = {}
        /\ is_eu_reserve = FALSE /\ reserve_eu_addr = SEQ_PHY_ADDRESS_EMPTY
        /\ sequence_num = KReserve /\ counter = 0
    BY DEF Init
  <2>3. sequence_num \in Nat /\ counter \in Int
    BY <2>1, <2>2, SMT
  <2> QED  BY <1>3, <2>2, <2>3, Zenon DEF Fields
<1> QED  BY <1>1, <1>2, <1>4 DEF CallInv

(* findNextFreePage() starts with a frame of its own.                      *)
LEMMA CallFindType ==
  ASSUME NEW caller \in Callers, NEW cp \in 0 .. CpPages - 1,
         CallFindNextFreePage(caller, cp),
         reclaimed_offset' \in HeaderPages .. PagesPerSlot
  PROVE  Position' /\ CallOK'
<1>1. frame' \in Frame /\ pc' = "head"
  BY GeometryAssumption
     DEF CallFindNextFreePage, Frame, GeometryAssumption, SEQ_SEGMENTS_COUNT
<1> QED  BY <1>1, SlotSize DEF Position, CallOK, Moving

(* A page is written at the position, which then is one page further.      *)
LEMMA AllocAndWriteFields ==
  ASSUME Fields, NEW page, NEW freed \in Int, AllocAndWrite(page, freed),
         reclaimed_offset \in DataOffsets,
         live' \subseteq LogicalAddresses
  PROVE  /\ Fields'
         /\ reclaimed_offset' \in HeaderPages .. PagesPerSlot
<1>1. /\ free_counter' = free_counter + freed - FreshPagesTaken
      /\ reclaimed_offset' = reclaimed_offset + 1
      /\ UNCHANGED <<previously_written_segment, is_eu_reserve,
                     reserve_eu_addr, sequence_num, counter>>
  BY DEF AllocAndWrite, slotVars, reserveVars
<1>2. FreshPagesTaken \in Int
  BY DEF FreshPagesTaken
<1> QED  BY <1>1, <1>2, SlotSize DEF Fields, DataOffsets

LEMMA ClientStepCallInv ==
  ASSUME CallAfter = {}, SlotInv, CallInv, ClientStep
  PROVE  CallInv'
<1> USE DEF positionVars, slotVars, reserveVars, countVars, Callable
<1>1. CASE AllocAndWriteBlock
  <2> DEFINE la == <<reclaimed_segment, reclaimed_offset>>
  <2>1. /\ pc = "ready" /\ live' = live \cup {la}
        /\ AllocAndWrite(DataPage(la, SEQ_NO_SLOT_AND_EU_OFFSET), 0)
        /\ CallFindNextFreePage("alloc", 0)
    BY <1>1 DEF AllocAndWriteBlock
  <2>2. reclaimed_offset \in DataOffsets
    BY <2>1 DEF CallInv, Position
  <2>3. live' \subseteq LogicalAddresses
    BY <2>1, <2>2, SlotSize
       DEF CallInv, Fields, LogicalAddresses, SlotInv, SlotTypes, Offsets,
           DataOffsets
  <2> HIDE DEF la
  <2>4. Fields' /\ reclaimed_offset' \in HeaderPages .. PagesPerSlot
    BY <2>1, <2>2, <2>3, AllocAndWriteFields DEF CallInv
  <2>5. Position' /\ CallOK'
    BY <2>1, <2>4, CallFindType, SlotSize DEF Callers
  <2> QED  BY <2>4, <2>5 DEF CallInv
<1>2. CASE CommitPage
  <2>1. /\ pc \in {"ready", "committing"} /\ UNCHANGED live
        /\ AllocAndWrite(CheckpointPage(set_cp_page_flag(frame.cp),
                                        SEQ_NO_SLOT_AND_EU_OFFSET), 1)
        /\ \/ pc' = "committed" /\ frame' = NoFrame
           \/ /\ frame.cp # CpPages - 1
              /\ CallFindNextFreePage("commit", frame.cp + 1)
    BY <1>2 DEF CommitPage
  <2>2. reclaimed_offset \in DataOffsets
    BY <2>1 DEF CallInv, Position
  <2>3. Fields' /\ reclaimed_offset' \in HeaderPages .. PagesPerSlot
    BY <2>1, <2>2, AllocAndWriteFields DEF CallInv, Fields
  <2>4. CASE pc' = "committed" /\ frame' = NoFrame
    BY <2>3, <2>4, SlotSize, GeometryAssumption
       DEF CallInv, Position, CallOK, NoFrame, Frame, Callers, Moving,
           GeometryAssumption, SEQ_SEGMENTS_COUNT
  <2>5. CASE frame.cp # CpPages - 1 /\ CallFindNextFreePage("commit", frame.cp + 1)
    <3>1. frame.cp + 1 \in 0 .. CpPages - 1
      BY <2>5, SlotSize DEF CallInv, CallOK, Frame
    <3> QED  BY <2>3, <2>5, <3>1, CallFindType DEF CallInv, Callers
  <2> QED  BY <2>1, <2>4, <2>5
<1>3. CASE CommitRefused
  BY <1>3, SlotSize
     DEF CommitRefused, CallInv, Position, CallOK, Fields, DataOffsets, Moving
<1>4. CASE FindNextFreePage
  <2>1. /\ pc = "committed" /\ CallFindNextFreePage("find", 0)
        /\ UNCHANGED <<reclaimed_offset, previously_written_segment,
             is_eu_reserve, reserve_eu_addr, sequence_num, counter,
             free_counter, live>>
    BY <1>4 DEF FindNextFreePage
  <2>2. Fields' /\ reclaimed_offset' \in HeaderPages .. PagesPerSlot
    BY <2>1 DEF CallInv, Fields, Position
  <2> QED  BY <2>1, <2>2, CallFindType, SlotSize DEF CallInv, Callers
<1>5. ASSUME NEW la \in live, NEW toss \in ObsTosses, MarkAsObsolete(la, toss)
      PROVE  CallInv'
  <2>1. /\ UNCHANGED <<reclaimed_offset, previously_written_segment,
             is_eu_reserve, reserve_eu_addr, sequence_num, free_counter, pc,
             frame>>
        /\ counter' = counter + 1 /\ live' = live \ {la}
    BY <1>5 DEF MarkAsObsolete
  <2> QED  BY <2>1 DEF CallInv, Position, CallOK, Fields
<1> QED  BY <1>1, <1>2, <1>3, <1>4, <1>5 DEF ClientStep

(* findNextFreePage() returns a page of the slot.                          *)
LEMMA ReturnType ==
  ASSUME CallOK, ReturnFromFind, reclaimed_offset' \in DataOffsets
  PROVE  Position' /\ CallOK'
<1>1. /\ pc' \in {"ready", "committing", "committed"}
      /\ frame' = frame \/ frame' = NoFrame
      /\ pc' = "ready" => frame' = NoFrame
  BY DEF ReturnFromFind
<1>2. NoFrame \in Frame
  BY SlotSize, GeometryAssumption
     DEF NoFrame, Frame, Callers, GeometryAssumption, SEQ_SEGMENTS_COUNT
<1>3. CallOK'
  BY <1>1, <1>2 DEF CallOK, Moving
<1>4. Position'
  BY <1>1, SlotSize DEF Position, DataOffsets
<1> QED  BY <1>3, <1>4

(* The EU of a page of the array has a number.                             *)
LEMMA EuNumber ==
  ASSUME NEW slot, NEW off \in Nat
  PROVE  EuOf(CALC_ADDRESS(slot, off)[2]) \in Int
<1>1. CALC_ADDRESS(slot, off)[2] = off % PagesPerSlot
  BY DEF CALC_ADDRESS
<1>2. off % PagesPerSlot \in Nat
  BY SlotSize
<1> QED  BY <1>1, <1>2, SlotSize DEF EuOf

(* Where the scan stands it is inside the data pages of the slot.          *)
LEMMA AtPageInSlot ==
  ASSUME CallInv, AtPage
  PROVE  reclaimed_offset \in DataOffsets
BY SlotSize DEF CallInv, Position, CallOK, Moving, AtPage, DataOffsets,
                IS_SEG_MAP_PAGE_OFFSET_OVERFLOWING

LEMMA EnterPageFields ==
  ASSUME SlotInv, CallInv, EnterPage
  PROVE  /\ is_eu_reserve' \in BOOLEAN
         /\ reserve_eu_addr' \in Pages \cup {SEQ_PHY_ADDRESS_EMPTY}
<1>1. reclaimed_offset \in Nat
  BY SlotSize DEF CallInv, Position
<1>2. ReserveForTarget \in Pages \cup {SEQ_PHY_ADDRESS_EMPTY}
  BY <1>1, EuNumber, AllocReserveType DEF ReserveForTarget
<1> QED  BY <1>2 DEF EnterPage, EnteredReserve, CallInv, Fields

LEMMA FindStepCallInv ==
  ASSUME SlotInv, CallInv, FindStep
  PROVE  CallInv'
<1> USE DEF positionVars, slotVars, reserveVars, countVars
<1>0. NoFrame \in Frame
  BY SlotSize, GeometryAssumption
     DEF NoFrame, Frame, Callers, GeometryAssumption, SEQ_SEGMENTS_COUNT
<1>1. CASE IterationsExhausted
  <2>1. /\ pc = "head" /\ pc' = "full" /\ frame' = NoFrame
        /\ UNCHANGED <<reclaimed_offset, previously_written_segment,
             is_eu_reserve, reserve_eu_addr, sequence_num, counter,
             free_counter, live>>
    BY <1>1 DEF IterationsExhausted
  <2> QED  BY <1>0, <2>1 DEF CallInv, Position, CallOK, Fields, Moving
<1>2. CASE NoReserveEu
  <2>1. /\ AtPage /\ pc' = "noreserve" /\ frame' = NoFrame
        /\ is_eu_reserve' = TRUE /\ reserve_eu_addr' = SEQ_PHY_ADDRESS_EMPTY
        /\ UNCHANGED <<reclaimed_offset, previously_written_segment,
             sequence_num, counter, free_counter, live>>
    BY <1>2 DEF NoReserveEu
  <2> QED  BY <1>0, <2>1 DEF CallInv, Position, CallOK, Fields, Moving
<1>3. CASE FoundFreshPage \/ FoundReclaimedPage
  <2>1. /\ EnterPage /\ ReturnFromFind
        /\ UNCHANGED <<reclaimed_offset, previously_written_segment,
             sequence_num, live>>
    BY <1>3 DEF FoundFreshPage, FoundReclaimedPage
  <2>2. counter' \in Int /\ free_counter' \in Int
    BY <1>3 DEF FoundFreshPage, FoundReclaimedPage, CallInv, Fields
  <2>3. reclaimed_offset' \in DataOffsets
    BY <2>1, AtPageInSlot DEF EnterPage
  <2>4. Position' /\ CallOK'
    BY <2>1, <2>3, ReturnType DEF CallInv
  <2>5. Fields'
    BY <2>1, <2>2, EnterPageFields DEF CallInv, Fields
  <2> QED  BY <2>4, <2>5 DEF CallInv
<1>4. CASE CopyValidBlock
  <2>1. /\ EnterPage /\ pc' = "scan" /\ UNCHANGED frame
        /\ reclaimed_offset' = reclaimed_offset + 1
        /\ UNCHANGED <<previously_written_segment, sequence_num, counter,
             free_counter, live>>
    BY <1>4 DEF CopyValidBlock
  <2>2. reclaimed_offset \in DataOffsets
    BY <2>1, AtPageInSlot DEF EnterPage
  <2>3. frame.iterations > 0
    BY <2>1 DEF EnterPage, AtPage, CallInv, CallOK, Moving
  <2>4. Position' /\ CallOK'
    BY <2>1, <2>2, <2>3, SlotSize
       DEF CallInv, Position, CallOK, DataOffsets, Moving
  <2>5. Fields'
    BY <2>1, EnterPageFields DEF CallInv, Fields
  <2> QED  BY <2>4, <2>5 DEF CallInv
<1>5. CASE EndSegment
  <2>1. /\ pc = "scan" /\ pc' = "head"
        /\ frame' = [frame EXCEPT !.iterations = frame.iterations - 1]
        /\ UNCHANGED <<reclaimed_offset, previously_written_segment,
             is_eu_reserve, reserve_eu_addr, sequence_num, counter,
             free_counter, live>>
    BY <1>5 DEF EndSegment
  <2>2. frame \in Frame /\ frame.iterations > 0
    BY <2>1 DEF CallInv, CallOK, Moving
  <2>3. frame' \in Frame
    BY <2>1, <2>2, GeometryAssumption
       DEF Frame, GeometryAssumption, SEQ_SEGMENTS_COUNT
  <2> QED  BY <2>1, <2>3 DEF CallInv, Position, CallOK, Fields, Moving
<1> QED  BY <1>1, <1>2, <1>3, <1>4, <1>5 DEF FindStep

(* The steps of moveToNextSegment() and performWearLeveling() that leave   *)
(* the position alone and do not return to the file system.                *)
LEMMA StillMoving ==
  ASSUME CallInv, pc \in Moving \cup {"head"}, pc' \in Moving,
         frame.iterations > 0, UNCHANGED <<frame, reclaimed_offset>>,
         pc' = "headerCp" => pc = "headerCp",
         pc' = "header" => pc = "header",
         pc \notin {"header", "headerCp"} \/ pc' = pc
  PROVE  Position' /\ CallOK'
BY DEF CallInv, Position, CallOK, Moving

LEMMA MoveStepCallInv ==
  ASSUME SlotInv, CallInv, MoveStep
  PROVE  CallInv'
<1> USE DEF positionVars, slotVars, reserveVars, countVars
<1> DEFINE Kept == UNCHANGED <<is_eu_reserve, reserve_eu_addr, sequence_num,
                               counter, free_counter, live>>
<1>0. NoFrame \in Frame
  BY SlotSize, GeometryAssumption
     DEF NoFrame, Frame, Callers, GeometryAssumption, SEQ_SEGMENTS_COUNT
<1>1. CASE MoveToNextSegment
  <2>1. /\ Kept /\ UNCHANGED <<previously_written_segment, frame,
                               reclaimed_offset>>
        /\ pc = "head" /\ frame.iterations > 0
        /\ pc' \in {"truncate", "switch"}
    BY <1>1 DEF MoveToNextSegment, CallTruncateSlot
  <2> QED  BY <2>1, StillMoving DEF CallInv, Fields, Moving
<1>2. CASE Truncate
  <2>1. /\ Kept /\ UNCHANGED <<previously_written_segment, frame,
                               reclaimed_offset>>
        /\ pc = "truncate" /\ pc' \in {trunc.next, pc}
    BY <1>2, Zenon DEF Truncate
  <2>2. pc' \in {"truncate", "switch", "swap", "choose"}
    BY <2>1 DEF SlotInv, LocalTypes, Trunc
  <2>3. frame.iterations > 0
    BY <2>1 DEF CallInv, CallOK, Moving
  <2> QED  BY <2>1, <2>2, <2>3, StillMoving DEF CallInv, Fields, Moving
<1>3. CASE SwitchToReclamation
  <2>1. /\ Kept /\ UNCHANGED <<frame, reclaimed_offset>>
        /\ pc = "switch" /\ pc' = "toss"
        /\ previously_written_segment' = reclaimed_segment
    BY <1>3 DEF SwitchToReclamation
  <2>2. frame.iterations > 0
    BY <2>1 DEF CallInv, CallOK, Moving
  <2>3. Fields'
    BY <2>1 DEF CallInv, Fields, SlotInv, SlotTypes
  <2> QED  BY <2>1, <2>2, <2>3, StillMoving DEF CallInv, Moving
<1>4. CASE AllocateSegment
  <2>1. /\ Kept /\ UNCHANGED frame
        /\ pc = "switch" /\ pc' = "header" /\ reclaimed_offset' = 0
        /\ previously_written_segment' = reclaimed_segment
    BY <1>4 DEF AllocateSegment
  <2>2. Fields'
    BY <2>1 DEF CallInv, Fields, SlotInv, SlotTypes
  <2> QED  BY <2>1, <2>2, SlotSize DEF CallInv, Position, CallOK, Moving
<1>5. CASE FindSegmentToReclaim
  <2>1. /\ Kept /\ UNCHANGED previously_written_segment /\ pc = "choose"
        /\ \/ pc' = "full" /\ frame' = NoFrame /\ UNCHANGED reclaimed_offset
           \/ pc' = "header" /\ reclaimed_offset' = 0 /\ UNCHANGED frame
    BY <1>5 DEF FindSegmentToReclaim
  <2>2. Fields'
    BY <2>1 DEF CallInv, Fields
  <2> QED  BY <1>0, <2>1, <2>2, SlotSize DEF CallInv, Position, CallOK, Moving
<1>6. CASE NoReserveForHeader
  <2>1. /\ UNCHANGED <<reserve_eu_addr, sequence_num, counter, free_counter,
             live, previously_written_segment, reclaimed_offset>>
        /\ is_eu_reserve' = TRUE /\ pc' = "noreserve" /\ frame' = NoFrame
    BY <1>6 DEF NoReserveForHeader
  <2> QED  BY <1>0, <2>1 DEF CallInv, Position, CallOK, Fields, Moving
<1>7. CASE WriteSegmentHeader
  <2>1. /\ UNCHANGED <<counter, free_counter, live, frame,
             previously_written_segment>>
        /\ sequence_num' = sequence_num + 1
        /\ reclaimed_offset' = reclaimed_offset + 1
        /\ pc = "header" /\ pc' = "headerCp"
        /\ \/ UNCHANGED <<is_eu_reserve, reserve_eu_addr>>
           \/ /\ is_eu_reserve' = TRUE
              /\ reserve_eu_addr' = allocReserveEU(FirstPage)
    BY <1>7 DEF WriteSegmentHeader
  <2>2. allocReserveEU(FirstPage) \in Pages \cup {SEQ_PHY_ADDRESS_EMPTY}
    BY EuNumber, AllocReserveType DEF FirstPage
  <2>3. Fields'
    <3>1. /\ is_eu_reserve' \in BOOLEAN
          /\ reserve_eu_addr' \in Pages \cup {SEQ_PHY_ADDRESS_EMPTY}
      BY <2>1, <2>2, Zenon DEF CallInv, Fields
    <3> QED  BY <2>1, <3>1 DEF CallInv, Fields
  <2>4. Position' /\ CallOK'
    BY <2>1, SlotSize DEF CallInv, Position, CallOK, Moving
  <2> QED  BY <2>3, <2>4 DEF CallInv
<1>8. CASE WriteHeaderCheckpoint
  <2>1. /\ Kept /\ UNCHANGED previously_written_segment
        /\ pc = "headerCp" /\ reclaimed_offset' = reclaimed_offset + 1
    BY <1>8 DEF WriteHeaderCheckpoint
  <2>2. Fields'
    BY <2>1 DEF CallInv, Fields
  <2>3. reclaimed_offset \in 1 .. CpPages /\ frame \in Frame
        /\ frame.iterations > 0
    BY <2>1 DEF CallInv, Position, CallOK, Moving
  <2>4. CASE reclaimed_offset < CpPages
    <3>1. UNCHANGED <<pc, frame>>
      BY <1>8, <2>4 DEF WriteHeaderCheckpoint
    <3> QED  BY <2>1, <2>2, <2>3, <2>4, <3>1, SlotSize
             DEF CallInv, Position, CallOK, Moving
  <2>5. CASE ~ (reclaimed_offset < CpPages)
    <3>1. /\ pc' = "scan"
          /\ frame' = [frame EXCEPT !.moved = TRUE, !.cpWritten = TRUE]
      BY <1>8, <2>5 DEF WriteHeaderCheckpoint
    <3>2. frame' \in Frame /\ frame'.iterations > 0
      BY <2>3, <3>1 DEF Frame
    <3>3. reclaimed_offset' = HeaderPages
      BY <2>1, <2>3, <2>5, SlotSize
    <3> QED  BY <2>2, <3>1, <3>2, <3>3, SlotSize
             DEF CallInv, Position, CallOK, Moving
  <2> QED  BY <2>4, <2>5
<1> QED  BY <1>1, <1>2, <1>3, <1>4, <1>5, <1>6, <1>7, <1>8 DEF MoveStep

LEMMA WearStepCallInv ==
  ASSUME SlotInv, CallInv, WearStep
  PROVE  CallInv'
<1> USE DEF positionVars, slotVars, reserveVars, countVars
<1>1. UNCHANGED <<previously_written_segment, is_eu_reserve, reserve_eu_addr,
                  sequence_num, counter, free_counter, live, frame,
                  reclaimed_offset>>
  BY DEF WearStep, SkipWearLeveling, StartWearLeveling, WearCopyInEu,
         WearSkipBadReserve, WearSkipUnused, WearCopyReserveEu,
         WearCopyDataEu, WearGiveUp, WearCopied, SwapSlots, WearUnchanged
<1>2. /\ pc \in {"toss", "wear", "swap"}
      /\ pc' \in {"choose", "wear", "truncate"}
  BY DEF WearStep, SkipWearLeveling, StartWearLeveling, WearCopyInEu,
         WearSkipBadReserve, WearSkipUnused, WearCopyReserveEu,
         WearCopyDataEu, WearGiveUp, WearCopied, SwapSlots, Wearing,
         CallTruncateSlot
<1>3. frame.iterations > 0
  BY <1>2 DEF CallInv, CallOK, Moving
<1> QED  BY <1>1, <1>2, <1>3, StillMoving DEF CallInv, Fields, Moving

LEMMA StutterCallInv ==
  ASSUME CallInv, UNCHANGED vars
  PROVE  CallInv'
BY DEF vars, slotVars, positionVars, reserveVars, countVars, CallInv, Position,
       CallOK, Fields

LEMMA CallInvIsInductive ==
  ASSUME CallAfter = {}
  PROVE  /\ Init => SlotInv /\ CallInv
         /\ SlotInv /\ CallInv /\ [Next]_vars => SlotInv' /\ CallInv'
<1>1. Init => SlotInv /\ CallInv
  BY InitSlotInv, InitCallInv
<1>2. SlotInv /\ [Next]_vars => SlotInv'
  BY ClientStepSlotInv, FindStepSlotInv, MoveStepSlotInv, WearStepSlotInv,
     StutterSlotInv DEF Next
<1>3. SlotInv /\ CallInv /\ [Next]_vars => CallInv'
  BY ClientStepCallInv, FindStepCallInv, MoveStepCallInv, WearStepCallInv,
     StutterCallInv DEF Next
<1> QED  BY <1>1, <1>2, <1>3

-----------------------------------------------------------------------------
(***************************************************************************)
(* Every field of segment_map, the counters and the locals of a call keep  *)
(* their types when the file system stops at the first error.              *)
(***************************************************************************)
THEOREM FieldTypes == ASSUME CallAfter = {} PROVE Spec => []FieldsOK
<1>1. SlotInv /\ CallInv => FieldsOK
  BY DEF SlotInv, SlotTypes, CountersType, LocalTypes, CallInv, Position,
         CallOK, Fields, FieldsOK, Moving
<1> QED  BY <1>1, CallInvIsInductive, PTL DEF Spec

(***************************************************************************)
(* Whenever the file system may write, the page it will write is a data    *)
(* page of the current segment, and never the header or a page of the next *)
(* slot: what findNextFreePage() guarantees to allocAndWriteBlock().       *)
(***************************************************************************)
THEOREM PositionStaysInSlot ==
  ASSUME CallAfter = {} PROVE Spec => []PositionInSlot
<1>1. CallInv => PositionInSlot
  BY DEF CallInv, Position, PositionInSlot
<1> QED  BY <1>1, CallInvIsInductive, PTL DEF Spec

=============================================================================

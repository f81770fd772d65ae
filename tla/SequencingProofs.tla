-------------------------- MODULE SequencingProofs --------------------------
(***************************************************************************)
(* Theorems of the sequencing layer, for every geometry, every set of bad  *)
(* EUs and every outcome of the generators.                                *)
(***************************************************************************)
EXTENDS SequencingProperties, WellFoundedInduction, TLAPS

(* A set of natural numbers has a least element: what makes the searches   *)
(* of the code ("the first that ...", "the one with the most ...") find    *)
(* something when there is something to find.                              *)
LEMMA LeastNatural ==
  ASSUME NEW T, T \subseteq Nat, T # {}
  PROVE  \E x \in T : \A y \in T : x <= y
<1> DEFINE Less == OpToRel(<, Nat)
<1>1. IsWellFoundedOn(Less, Nat)
  BY NatLessThanWellFounded
<1>2. PICK x \in T : \A y \in T : ~ (<<y, x>> \in Less)
  <2> HIDE DEF Less
  <2> QED  BY <1>1, WFMin
<1>3. \A y \in T : ~ (y < x)
  BY <1>2 DEF OpToRel
<1> QED  BY <1>3

-----------------------------------------------------------------------------
(***************************************************************************)
(* The inductive invariant behind SlotPartition.  While slots are handed   *)
(* out for the first time segment s is in slot s and the last one is being *)
(* filled; afterwards new_slot_id is in no segment's entry, and every slot *)
(* but that one belongs to a segment.                                      *)
(***************************************************************************)
SlotTypes ==
  /\ seg_to_slot_map \in [Slots -> 0 .. NSlots]
  /\ new_slot_id \in Slots
  /\ reclaimed_segment \in DataSegments
  /\ nSegments \in 1 .. SEQ_SEGMENTS_COUNT

CountersType == counters \in [0 .. (NSlots \div 2) - 1 -> 0 .. 255]

(* The locals of truncateSlot() and performWearLeveling().                 *)
LocalTypes ==
  /\ trunc \in Trunc
  /\ {"random_slot", "org_seg", "isSlotReserve"} \subseteq DOMAIN wear
  /\ wear.isSlotReserve \in BOOLEAN

LiveSegments == \A la \in live : la[1] \in DataSegments

Filling ==
  /\ \A s \in MappedSegments : seg_to_slot_map[s] = s
  /\ reclaimed_segment = nSegments - 1 /\ new_slot_id = nSegments - 1

Reclaiming ==
  /\ nSegments = SEQ_SEGMENTS_COUNT
  /\ \A s, t \in MappedSegments :
       s # t => seg_to_slot_map[s] # seg_to_slot_map[t]
  /\ \A s \in MappedSegments : seg_to_slot_map[s] \in Slots \ {new_slot_id}
  /\ \A slot \in Slots \ {new_slot_id} :
       \E s \in MappedSegments : seg_to_slot_map[s] = slot

(* OrgSegment() takes the lowest segment in a slot: the entry of           *)
(* SEQ_NEW_SEGMENT, which is below the reserve segments, may be out of     *)
(* date but never names a reserve slot.                                    *)
NewSegmentEntry ==
  \A s \in ReserveSegments :
    seg_to_slot_map[SEQ_NEW_SEGMENT] # seg_to_slot_map[s]

(* The steps that take place only when no fresh slot is left.              *)
ReclaimingSteps ==
  pc \in {"toss", "choose", "wear", "swap", "truncate"} => Reclaiming

(* performWearLeveling() remembers a segment and the slot it is in.        *)
WearTarget ==
  (pc = "wear" \/ SwapPending) =>
    /\ wear.random_slot \in Slots \ {new_slot_id}
    /\ wear.org_seg \in MappedSegments
    /\ seg_to_slot_map[wear.org_seg] = wear.random_slot

SlotInv ==
  /\ SlotTypes
  /\ CountersType
  /\ LocalTypes
  /\ LiveSegments
  /\ Filling \/ Reclaiming
  /\ NewSegmentEntry
  /\ ReclaimingSteps
  /\ WearTarget

-----------------------------------------------------------------------------
(* The obsolete counters.                                                  *)

(* Two levels share a byte: the byte of a segment exists.                  *)
LEMMA CounterByte ==
  ASSUME NEW seg \in DataSegments
  PROVE  seg \div 2 \in 0 .. (NSlots \div 2) - 1
BY GeometryAssumption DEF GeometryAssumption, DataSegments, SEQ_SEGMENTS_COUNT

(* A level is a four-bit number.                                           *)
LEMMA LevelType ==
  ASSUME CountersType, NEW seg \in DataSegments
  PROVE  get_counter_level(seg) \in 0 .. 15
<1>1. counters[seg \div 2] \in 0 .. 255
  BY CounterByte DEF CountersType
<1> QED  BY <1>1 DEF get_counter_level, LevelIn

(* change_counter_level() leaves a byte a byte, also when the level has a  *)
(* fifth bit.                                                              *)
LEMMA ChangeCounterType ==
  ASSUME CountersType, NEW seg \in DataSegments, NEW level \in 0 .. 16
  PROVE  change_counter_level(level, seg) \in
           [0 .. (NSlots \div 2) - 1 -> 0 .. 255]
<1> DEFINE byte == counters[seg \div 2]
           high == byte \div 16
           low  == byte % 16
           new  == IF seg % 2 = 0
                   THEN 16 * (IF level >= 16 THEN high + 1 - (high % 2)
                              ELSE high) + (level % 16)
                   ELSE 16 * (level % 16) + low
<1>1. byte \in 0 .. 255
  BY CounterByte DEF CountersType
<1>2. high \in 0 .. 15 /\ low \in 0 .. 15
  BY <1>1
<1>3. level % 16 \in 0 .. 15
  OBVIOUS
<1>4. high + 1 - (high % 2) \in 0 .. 15
  BY <1>2
<1>5. new \in 0 .. 255
  <2> HIDE DEF high, low
  <2> QED  BY <1>2, <1>3, <1>4
<1>6. change_counter_level(level, seg) = [counters EXCEPT ![seg \div 2] = new]
  BY DEF change_counter_level
<1> HIDE DEF new
<1> QED  BY <1>5, <1>6 DEF CountersType

LEMMA CountObsoleteType ==
  ASSUME CountersType, NEW seg \in DataSegments, NEW toss
  PROVE  CountObsolete(seg, toss) \in [0 .. (NSlots \div 2) - 1 -> 0 .. 255]
<1>1. get_counter_level(seg) + 1 \in 0 .. 16
  BY LevelType
<1>2. OBS_COUNT_LEVEL_0 \in 0 .. 16
  BY DEF OBS_COUNT_LEVEL_0
<1> QED  BY <1>1, <1>2, ChangeCounterType
         DEF CountObsolete, increment_counter, CountersType

(* findSegmentToReclaim() finds a segment when there is one.               *)
LEMMA SegmentToReclaimExists ==
  ASSUME CountersType, Reclaimable # {}
  PROVE  SegmentToReclaim \in Reclaimable
<1>1. \A s \in Reclaimable : s \in Nat /\ s \in DataSegments
  BY GeometryAssumption
     DEF GeometryAssumption, Reclaimable, DataSegments, SEQ_SEGMENTS_COUNT
<1>2. \A s \in Reclaimable : ReclaimLevel(s) \in 0 .. 8
  BY <1>1, LevelType DEF ReclaimLevel, OBS_COUNT_LEVEL_7
<1>3. PICK s \in Reclaimable :
        \A t \in Reclaimable : ReclaimLevel(t) <= ReclaimLevel(s)
  <2> DEFINE T == {8 - ReclaimLevel(s) : s \in Reclaimable}
  <2>1. T \subseteq Nat /\ T # {}
    BY <1>2
  <2>2. PICK x \in T : \A y \in T : x <= y
    <3> HIDE DEF T
    <3> QED  BY <2>1, LeastNatural
  <2>3. PICK s \in Reclaimable : x = 8 - ReclaimLevel(s)
    OBVIOUS
  <2>4. \A t \in Reclaimable : 8 - ReclaimLevel(s) <= 8 - ReclaimLevel(t)
    BY <2>2, <2>3
  <2> QED  BY <1>2, <2>4
<1> DEFINE Best == {t \in Reclaimable : ReclaimLevel(t) = ReclaimLevel(s)}
<1>4. PICK b \in Best : \A t \in Best : b <= t
  <2>1. Best \subseteq Nat /\ Best # {}
    BY <1>1
  <2> HIDE DEF Best
  <2> QED  BY <2>1, LeastNatural
<1>5. \A t \in Reclaimable : \/ ReclaimLevel(b) > ReclaimLevel(t)
                             \/ ReclaimLevel(b) = ReclaimLevel(t) /\ b <= t
  BY <1>2, <1>3, <1>4
<1> QED  BY <1>5 DEF SegmentToReclaim

-----------------------------------------------------------------------------
(* The steps.                                                              *)

(* performWearLeveling() finds the segment of the slot it draws.           *)
LEMMA OrgSegmentFound ==
  ASSUME SlotTypes, Reclaiming, NewSegmentEntry,
         NEW slot \in Slots \ {new_slot_id}
  PROVE  /\ OrgSegment(slot) \in MappedSegments
         /\ seg_to_slot_map[OrgSegment(slot)] = slot
<1>1. PICK s \in MappedSegments : seg_to_slot_map[s] = slot
  BY DEF Reclaiming
<1>2. s \in SegmentsIn(slot)
  BY <1>1, GeometryAssumption
     DEF GeometryAssumption, SegmentsIn, MappedSegments, AllocatedSegments,
         SlotTypes, Slots, ReserveSegments, SEQ_FIRST_RESERVE_SEGMENT,
         SEQ_SEGMENTS_COUNT
<1>3. \A t \in SegmentsIn(slot) : t \in MappedSegments \/ t = SEQ_NEW_SEGMENT
  BY GeometryAssumption
     DEF GeometryAssumption, SegmentsIn, MappedSegments, AllocatedSegments,
         Slots, ReserveSegments, SEQ_FIRST_RESERVE_SEGMENT, SEQ_NEW_SEGMENT,
         SEQ_SEGMENTS_COUNT, Reclaiming
<1>4. \A t \in SegmentsIn(slot) : t = s \/ t = SEQ_NEW_SEGMENT
  BY <1>1, <1>3 DEF SegmentsIn, Reclaiming
<1>5. ASSUME SEQ_NEW_SEGMENT \in SegmentsIn(slot)
      PROVE  s <= SEQ_NEW_SEGMENT
  <2>1. s \notin ReserveSegments
    BY <1>1, <1>5 DEF SegmentsIn, NewSegmentEntry
  <2> QED  BY <2>1, GeometryAssumption
           DEF GeometryAssumption, MappedSegments, AllocatedSegments,
               SlotTypes, SEQ_NEW_SEGMENT, SEQ_SEGMENTS_COUNT
<1>6. \A t \in SegmentsIn(slot) : s <= t
  <2>1. s \in Int
    BY <1>2 DEF SegmentsIn, Slots
  <2> QED  BY <1>4, <1>5, <2>1
<1>7. OrgSegment(slot) = s
  <2>1. \A t \in SegmentsIn(slot) :
          (\A u \in SegmentsIn(slot) : t <= u) => t = s
    BY <1>2, <1>6 DEF SegmentsIn, Slots
  <2> QED  BY <1>2, <1>6, <2>1 DEF OrgSegment
<1> QED  BY <1>1, <1>7

(* Most steps do not touch the segment map.                                *)
LEMMA MapUnchanged ==
  ASSUME SlotInv, UNCHANGED <<slotVars, reclaimed_segment>>,
         CountersType', LocalTypes', LiveSegments',
         pc' \in {"toss", "choose", "wear", "swap", "truncate"} => Reclaiming,
         (pc' = "wear" \/ SwapPending') =>
           /\ pc = "wear" \/ SwapPending
           /\ wear'.random_slot = wear.random_slot
           /\ wear'.org_seg = wear.org_seg
  PROVE  SlotInv'
<1>1. /\ Filling' <=> Filling
      /\ Reclaiming' <=> Reclaiming
      /\ MappedSegments' = MappedSegments
  BY DEF slotVars, Filling, Reclaiming, MappedSegments, AllocatedSegments
<1>2. SlotTypes' /\ NewSegmentEntry'
  BY DEF SlotInv, slotVars, SlotTypes, NewSegmentEntry
<1>3. ReclaimingSteps'
  BY <1>1 DEF ReclaimingSteps
<1>4. WearTarget'
  BY <1>1 DEF SlotInv, WearTarget, slotVars
<1> QED  BY <1>1, <1>2, <1>3, <1>4 DEF SlotInv

LEMMA InitSlotInv == Init => SlotInv
<1> SUFFICES ASSUME Init PROVE SlotInv
  OBVIOUS
<1> USE GeometryAssumption DEF GeometryAssumption
<1>1. SlotTypes
  BY DEF Init, SlotTypes, Slots, DataSegments, ReserveSegments, SEQ_NO_SLOT,
         SEQ_SEGMENTS_COUNT, SEQ_FIRST_RESERVE_SEGMENT
<1>2. CountersType
  BY DEF Init, CountersType
<1>3. Filling
  BY DEF Init, Filling, MappedSegments, AllocatedSegments, Slots,
         ReserveSegments, SEQ_FIRST_RESERVE_SEGMENT
<1>4. NewSegmentEntry
  BY DEF Init, NewSegmentEntry, Slots, ReserveSegments, SEQ_NEW_SEGMENT,
         SEQ_FIRST_RESERVE_SEGMENT, SEQ_NO_SLOT
<1>5. LiveSegments /\ ReclaimingSteps /\ WearTarget
  BY DEF Init, LiveSegments, ReclaimingSteps, WearTarget, SwapPending
<1>6. LocalTypes
  BY DEF Init, LocalTypes, Trunc, NoTrunc, NoWear, Slots, Eus
<1> QED  BY <1>1, <1>2, <1>3, <1>4, <1>5, <1>6 DEF SlotInv

LEMMA ClientStepSlotInv == SlotInv /\ ClientStep => SlotInv'
<1> SUFFICES ASSUME SlotInv, ClientStep PROVE SlotInv'
  OBVIOUS
<1>1. CASE AllocAndWriteBlock
  <2>1. /\ UNCHANGED <<slotVars, reclaimed_segment, counters, trunc, wear>>
        /\ pc' = "head"
    BY <1>1 DEF AllocAndWriteBlock, AllocAndWrite, CallFindNextFreePage
  <2>2. live' = live \cup {<<reclaimed_segment, reclaimed_offset>>}
    BY <1>1 DEF AllocAndWriteBlock
  <2>3. LiveSegments'
    BY <2>2 DEF SlotInv, SlotTypes, LiveSegments
  <2> QED  BY <2>1, <2>3, MapUnchanged DEF SlotInv, LocalTypes, CountersType, SwapPending
<1>2. CASE CommitPage
  <2>1. /\ UNCHANGED <<slotVars, reclaimed_segment, counters, live, trunc, wear>>
        /\ pc' \in {"committed", "head"}
    BY <1>2 DEF CommitPage, AllocAndWrite, CallFindNextFreePage
  <2> QED  BY <2>1, MapUnchanged
           DEF SlotInv, LocalTypes, CountersType, LiveSegments, SwapPending
<1>3. CASE CommitRefused \/ FindNextFreePage
  <2>1. /\ UNCHANGED <<slotVars, reclaimed_segment, counters, live, trunc, wear>>
        /\ pc' \in {"failed", "head"}
    BY <1>3 DEF CommitRefused, FindNextFreePage, CallFindNextFreePage,
                positionVars
  <2> QED  BY <2>1, MapUnchanged
           DEF SlotInv, LocalTypes, CountersType, LiveSegments, SwapPending
<1>4. ASSUME NEW la \in live, NEW toss \in ObsTosses, MarkAsObsolete(la, toss)
      PROVE  SlotInv'
  <2>1. /\ UNCHANGED <<slotVars, reclaimed_segment, pc, wear, trunc>>
        /\ counters' = CountObsolete(la[1], toss)
        /\ live' = live \ {la}
    BY <1>4 DEF MarkAsObsolete, positionVars
  <2>2. CountersType'
    BY <2>1, CountObsoleteType DEF SlotInv, LiveSegments, CountersType
  <2>3. LiveSegments'
    BY <2>1 DEF SlotInv, LiveSegments
  <2> QED  BY <2>1, <2>2, <2>3, MapUnchanged
           DEF SlotInv, LocalTypes, ReclaimingSteps, SwapPending
<1> QED  BY <1>1, <1>2, <1>3, <1>4 DEF ClientStep

LEMMA FindStepSlotInv == SlotInv /\ FindStep => SlotInv'
<1> SUFFICES ASSUME SlotInv, FindStep PROVE SlotInv'
  OBVIOUS
<1>1. UNCHANGED <<slotVars, reclaimed_segment, live, trunc, wear>>
  BY DEF FindStep, IterationsExhausted, NoReserveEu, FoundFreshPage,
         FoundReclaimedPage, CopyValidBlock, EndSegment, positionVars
<1>2. pc' \in {"full", "noreserve", "committing", "committed", "ready",
               "scan", "head"}
  BY DEF FindStep, IterationsExhausted, NoReserveEu, FoundFreshPage,
         FoundReclaimedPage, CopyValidBlock, EndSegment, ReturnFromFind
<1>3. CountersType'
  <2>1. CASE EndSegment
    <3>1. OBS_COUNT_FULL \in 0 .. 16
      BY DEF OBS_COUNT_FULL
    <3>2. \/ counters' = counters
          \/ counters' = change_counter_level(OBS_COUNT_FULL, reclaimed_segment)
      BY <2>1 DEF EndSegment
    <3>3. change_counter_level(OBS_COUNT_FULL, reclaimed_segment) \in
            [0 .. (NSlots \div 2) - 1 -> 0 .. 255]
      BY <3>1, ChangeCounterType DEF SlotInv, SlotTypes
    <3> QED  BY <3>2, <3>3 DEF SlotInv, LocalTypes, CountersType
  <2>2. CASE ~ EndSegment
    <3>1. counters' = counters
      BY <2>2 DEF FindStep, IterationsExhausted, NoReserveEu, FoundFreshPage,
                  FoundReclaimedPage, CopyValidBlock
    <3> QED  BY <3>1 DEF SlotInv, LocalTypes, CountersType
  <2> QED  BY <2>1, <2>2
<1> QED  BY <1>1, <1>2, <1>3, MapUnchanged
         DEF SlotInv, LocalTypes, LiveSegments, SwapPending

(* truncateSlot() is called on a slot.                                     *)
LEMMA CallTruncateSlotType ==
  ASSUME NEW slot \in Slots, NEW isSlotReserve \in BOOLEAN,
         NEW next \in {"switch", "swap", "choose"},
         CallTruncateSlot(slot, isSlotReserve, next)
  PROVE  trunc' \in Trunc /\ pc' = "truncate" /\ trunc'.next = next
BY GeometryAssumption DEF GeometryAssumption, CallTruncateSlot, Trunc, Eus

(* The phases are told apart as IS_STATE_RECLAMATION() does it.            *)
LEMMA PhaseOfState ==
  ASSUME SlotInv
  PROVE  /\ reclaimed_segment \in MappedSegments
         /\ reclaimed_segment \in Slots
         /\ IS_STATE_RECLAMATION <=> Reclaiming
<1>1. reclaimed_segment \in MappedSegments /\ reclaimed_segment \in Slots
  BY GeometryAssumption
     DEF GeometryAssumption, SlotInv, SlotTypes, Filling, Reclaiming, Slots,
         MappedSegments, AllocatedSegments, DataSegments, SEQ_SEGMENTS_COUNT
<1> QED  BY <1>1 DEF SlotInv, Filling, Reclaiming, IS_STATE_RECLAMATION

(* Segments with a slot are entries of the map.                            *)
LEMMA MappedInSlots ==
  ASSUME nSegments \in 1 .. SEQ_SEGMENTS_COUNT
  PROVE  MappedSegments \subseteq Slots /\ SEQ_NEW_SEGMENT \notin MappedSegments
BY GeometryAssumption
   DEF GeometryAssumption, MappedSegments, AllocatedSegments, ReserveSegments,
       Slots, SEQ_SEGMENTS_COUNT, SEQ_NEW_SEGMENT, SEQ_FIRST_RESERVE_SEGMENT

(* A segment and the new slot trade places: what moveToNextSegment() does  *)
(* after a truncation and performWearLeveling() after a copy.              *)
LEMMA TradeSlots ==
  ASSUME Reclaiming, NEW org \in MappedSegments,
         nSegments' = nSegments, new_slot_id \in Slots,
         new_slot_id' = seg_to_slot_map[org],
         \A s \in MappedSegments : seg_to_slot_map'[s] =
           IF s = org THEN new_slot_id ELSE seg_to_slot_map[s]
  PROVE  Reclaiming'
<1>1. MappedSegments' = MappedSegments
  BY DEF MappedSegments, AllocatedSegments
<1>2. \A s, t \in MappedSegments :
        s # t => seg_to_slot_map'[s] # seg_to_slot_map'[t]
  BY DEF Reclaiming
<1>3. \A s \in MappedSegments : seg_to_slot_map'[s] \in Slots \ {new_slot_id'}
  BY DEF Reclaiming
<1>4. ASSUME NEW slot \in Slots \ {new_slot_id'}
      PROVE  \E s \in MappedSegments : seg_to_slot_map'[s] = slot
  <2>1. CASE slot = new_slot_id
    BY <2>1
  <2>2. CASE slot # new_slot_id
    <3>1. PICK s \in MappedSegments : seg_to_slot_map[s] = slot
      BY <2>2 DEF Reclaiming
    <3> QED  BY <3>1
  <2> QED  BY <2>1, <2>2
<1> QED  BY <1>1, <1>2, <1>3, <1>4 DEF Reclaiming

LEMMA MoveStepSlotInv == SlotInv /\ MoveStep => SlotInv'
<1> SUFFICES ASSUME SlotInv, MoveStep PROVE SlotInv'
  OBVIOUS
<1> USE DEF positionVars
<1>1. CASE MoveToNextSegment
  <2>1. UNCHANGED <<slotVars, reclaimed_segment, counters, live, wear>>
    BY <1>1 DEF MoveToNextSegment
  <2>2. CASE IS_STATE_RECLAMATION
    <3>1. CallTruncateSlot(seg_to_slot_map[reclaimed_segment], FALSE, "switch")
      BY <1>1, <2>2 DEF MoveToNextSegment
    <3>2. seg_to_slot_map[reclaimed_segment] \in Slots
      BY <2>2, PhaseOfState DEF Reclaiming
    <3>3. trunc' \in Trunc /\ pc' = "truncate" /\ trunc'.next = "switch"
      BY <3>1, <3>2, CallTruncateSlotType
    <3>4. CountersType' /\ LocalTypes' /\ LiveSegments'
      BY <2>1, <3>3 DEF SlotInv, LocalTypes, CountersType, LiveSegments
    <3> QED  BY <2>1, <2>2, <3>3, <3>4, PhaseOfState, MapUnchanged
             DEF SwapPending
  <2>3. CASE ~ IS_STATE_RECLAMATION
    <3>1. pc' = "switch" /\ UNCHANGED trunc
      BY <1>1, <2>3 DEF MoveToNextSegment
    <3> QED  BY <2>1, <3>1, MapUnchanged
             DEF SlotInv, LocalTypes, CountersType, LiveSegments, SwapPending
  <2> QED  BY <2>2, <2>3
<1>2. CASE Truncate
  <2>1. UNCHANGED <<slotVars, reclaimed_segment, counters, live, wear>>
    BY <1>2 DEF Truncate
  <2>2. pc = "truncate" /\ Reclaiming /\ trunc \in Trunc
    BY <1>2 DEF Truncate, SlotInv, ReclaimingSteps, LocalTypes
  <2>3. /\ trunc' \in Trunc
        /\ \/ pc' = trunc.next /\ pc' \in {"switch", "swap", "choose"}
           \/ pc' = "truncate" /\ trunc'.next = trunc.next
    <3>1. CASE trunc.eu = 0
      <4>1. pc' = trunc.next /\ trunc' = NoTrunc
        BY <1>2, <3>1, Zenon DEF Truncate
      <4> QED  BY <2>2, <4>1, GeometryAssumption
               DEF Trunc, NoTrunc, GeometryAssumption, Slots, Eus
    <3>2. CASE trunc.eu # 0
      <4>1. trunc.eu \in Eus /\ trunc.eu - 1 \in Eus
        BY <2>2, <3>2, GeometryAssumption DEF GeometryAssumption, Trunc, Eus
      <4>2. pc' = "truncate" /\ trunc' = [trunc EXCEPT !.eu = trunc.eu - 1]
        BY <1>2, <2>2, <3>2, Zenon DEF Truncate
      <4> QED  BY <2>2, <4>1, <4>2 DEF Trunc
    <3> QED  BY <3>1, <3>2
  <2>4. (pc' = "wear" \/ SwapPending') => SwapPending
    BY <2>2, <2>3 DEF SwapPending
  <2>5. CountersType' /\ LocalTypes' /\ LiveSegments'
    BY <2>1, <2>3 DEF SlotInv, LocalTypes, CountersType, LiveSegments
  <2> QED  BY <2>1, <2>2, <2>4, <2>5, MapUnchanged
<1>3. CASE SwitchToReclamation
  <2>1. /\ UNCHANGED <<nSegments, reclaimed_segment, counters, live, trunc, wear>>
        /\ pc' = "toss" /\ nSegments = SEQ_SEGMENTS_COUNT
    BY <1>3 DEF SwitchToReclamation, ALL_SEGMENTS_ALLOCATED
  <2>2. CountersType' /\ LocalTypes' /\ LiveSegments'
    BY <2>1 DEF SlotInv, LocalTypes, CountersType, LiveSegments
  <2>3. SlotTypes' /\ Reclaiming' /\ NewSegmentEntry'
    <3>1. CASE IS_STATE_RECLAMATION
      <4>1. /\ seg_to_slot_map' =
                 [seg_to_slot_map EXCEPT ![reclaimed_segment] = new_slot_id]
            /\ new_slot_id' = seg_to_slot_map[reclaimed_segment]
        BY <1>3, <3>1 DEF SwitchToReclamation
      <4>2. Reclaiming /\ reclaimed_segment \in MappedSegments
        BY <3>1, PhaseOfState
      <4>3. SlotTypes'
        <5>1. new_slot_id \in 0 .. NSlots
          BY GeometryAssumption
             DEF GeometryAssumption, SlotInv, SlotTypes, Slots
        <5>2. new_slot_id' \in Slots
          BY <4>1, <4>2 DEF Reclaiming
        <5> QED  BY <2>1, <4>1, <5>1, <5>2 DEF SlotInv, SlotTypes
      <4>4. Reclaiming'
        <5>1. MappedSegments \subseteq Slots
          BY MappedInSlots DEF SlotInv, SlotTypes
        <5>2. \A s \in MappedSegments : seg_to_slot_map'[s] =
                IF s = reclaimed_segment THEN new_slot_id
                ELSE seg_to_slot_map[s]
          BY <4>1, <5>1 DEF SlotInv, SlotTypes
        <5> QED  BY <2>1, <4>1, <4>2, <5>2, TradeSlots DEF SlotInv, SlotTypes
      <4>5. NewSegmentEntry'
        BY <4>1, GeometryAssumption
           DEF SlotInv, SlotTypes, NewSegmentEntry, GeometryAssumption,
               DataSegments, ReserveSegments, Slots, SEQ_NEW_SEGMENT,
               SEQ_SEGMENTS_COUNT, SEQ_FIRST_RESERVE_SEGMENT
      <4> QED  BY <4>3, <4>4, <4>5
    <3>2. CASE ~ IS_STATE_RECLAMATION
      <4>1. UNCHANGED seg_to_slot_map /\ new_slot_id' = SEQ_SEGMENTS_COUNT
        BY <1>3, <3>2 DEF SwitchToReclamation
      <4>2. Filling
        BY <3>2, PhaseOfState DEF SlotInv
      <4> QED  BY <2>1, <4>1, <4>2, GeometryAssumption
               DEF SlotInv, SlotTypes, Filling, Reclaiming, NewSegmentEntry,
                   MappedSegments, AllocatedSegments, ReserveSegments, Slots,
                   GeometryAssumption, SEQ_SEGMENTS_COUNT,
                   SEQ_FIRST_RESERVE_SEGMENT
    <3> QED  BY <3>1, <3>2
  <2>4. ReclaimingSteps' /\ WearTarget'
    BY <2>1, <2>3 DEF ReclaimingSteps, WearTarget, SwapPending
  <2> QED  BY <2>2, <2>3, <2>4 DEF SlotInv
<1>4. CASE AllocateSegment
  <2>1. /\ UNCHANGED <<counters, live, trunc, wear>>
        /\ new_slot_id' = new_slot_id + 1 /\ nSegments' = nSegments + 1
        /\ reclaimed_segment' = reclaimed_segment + 1
        /\ seg_to_slot_map' = [seg_to_slot_map EXCEPT
             ![reclaimed_segment + 1] = reclaimed_segment + 1]
        /\ pc' = "header" /\ nSegments # SEQ_SEGMENTS_COUNT
    BY <1>4 DEF AllocateSegment, ALL_SEGMENTS_ALLOCATED
  <2>2. Filling
    BY <2>1 DEF SlotInv, Reclaiming
  <2>3. nSegments \in 1 .. SEQ_SEGMENTS_COUNT - 1 /\ reclaimed_segment + 1 \in Slots
    BY <2>1, <2>2, GeometryAssumption
       DEF GeometryAssumption, SlotInv, SlotTypes, Filling, DataSegments,
           Slots, SEQ_SEGMENTS_COUNT
  <2>4. SlotTypes' /\ Filling'
    BY <2>1, <2>2, <2>3, GeometryAssumption
       DEF GeometryAssumption, SlotInv, SlotTypes, Filling, MappedSegments,
           AllocatedSegments, ReserveSegments, DataSegments, Slots,
           SEQ_SEGMENTS_COUNT, SEQ_FIRST_RESERVE_SEGMENT
  <2>5. NewSegmentEntry'
    BY <2>1, <2>2, <2>3, GeometryAssumption
       DEF GeometryAssumption, SlotInv, SlotTypes, Filling, NewSegmentEntry,
           ReserveSegments, Slots, SEQ_NEW_SEGMENT, SEQ_SEGMENTS_COUNT,
           SEQ_FIRST_RESERVE_SEGMENT
  <2>6. /\ CountersType' /\ LocalTypes' /\ LiveSegments'
        /\ ReclaimingSteps' /\ WearTarget'
    BY <2>1 DEF SlotInv, LocalTypes, CountersType, LiveSegments,
                ReclaimingSteps, WearTarget, SwapPending
  <2> QED  BY <2>4, <2>5, <2>6 DEF SlotInv
<1>5. CASE FindSegmentToReclaim
  <2>1. UNCHANGED <<slotVars, counters, live, trunc, wear>> /\ pc = "choose"
    BY <1>5 DEF FindSegmentToReclaim
  <2>2. CASE Reclaimable = {}
    <3>1. pc' = "full" /\ UNCHANGED reclaimed_segment
      BY <1>5, <2>2 DEF FindSegmentToReclaim
    <3> QED  BY <2>1, <3>1, MapUnchanged
             DEF SlotInv, LocalTypes, CountersType, LiveSegments, SwapPending
  <2>3. CASE Reclaimable # {}
    <3>1. pc' = "header" /\ reclaimed_segment' = SegmentToReclaim
      BY <1>5, <2>3 DEF FindSegmentToReclaim
    <3>2. reclaimed_segment' \in DataSegments
      BY <2>3, <3>1, SegmentToReclaimExists DEF SlotInv, Reclaimable
    <3>3. Reclaiming
      BY <2>1 DEF SlotInv, ReclaimingSteps
    <3>4. SlotTypes' /\ Reclaiming' /\ NewSegmentEntry'
      BY <2>1, <3>2, <3>3
         DEF SlotInv, SlotTypes, Reclaiming, NewSegmentEntry, slotVars,
             MappedSegments, AllocatedSegments
    <3>5. /\ CountersType' /\ LocalTypes' /\ LiveSegments'
          /\ ReclaimingSteps' /\ WearTarget'
      BY <2>1, <3>1 DEF SlotInv, LocalTypes, CountersType, LiveSegments,
                        ReclaimingSteps, WearTarget, SwapPending
    <3> QED  BY <3>4, <3>5 DEF SlotInv
  <2> QED  BY <2>2, <2>3
<1>6. CASE NoReserveForHeader \/ WriteSegmentHeader
  <2>1. /\ UNCHANGED <<slotVars, reclaimed_segment, counters, live, trunc, wear>>
        /\ pc' \in {"noreserve", "headerCp"}
    BY <1>6 DEF NoReserveForHeader, WriteSegmentHeader
  <2> QED  BY <2>1, MapUnchanged
           DEF SlotInv, LocalTypes, CountersType, LiveSegments, SwapPending
<1>7. CASE WriteHeaderCheckpoint
  <2>1. /\ UNCHANGED <<slotVars, reclaimed_segment, live, trunc, wear>>
        /\ pc' = "scan" \/ (pc' = pc /\ pc = "headerCp")
    BY <1>7 DEF WriteHeaderCheckpoint
  <2>2. OBS_COUNT_NO_OBSOLETES \in 0 .. 16
    BY DEF OBS_COUNT_NO_OBSOLETES
  <2>3. change_counter_level(OBS_COUNT_NO_OBSOLETES, reclaimed_segment) \in
          [0 .. (NSlots \div 2) - 1 -> 0 .. 255]
    BY <2>2, ChangeCounterType DEF SlotInv, SlotTypes
  <2>4. CountersType'
    BY <1>7, <2>3 DEF WriteHeaderCheckpoint, SlotInv, CountersType
  <2> QED  BY <2>1, <2>4, MapUnchanged
           DEF SlotInv, LocalTypes, LiveSegments, SwapPending
<1> QED  BY <1>1, <1>2, <1>3, <1>4, <1>5, <1>6, <1>7 DEF MoveStep

(* What the steps of the copy in performWearLeveling() leave alone.        *)
LEMMA WearCopySlotInv ==
  ASSUME SlotInv, WearUnchanged, UNCHANGED trunc, pc = "wear", pc' = "wear",
         wear'.random_slot = wear.random_slot, wear'.org_seg = wear.org_seg,
         wear'.isSlotReserve = wear.isSlotReserve, DOMAIN wear' = DOMAIN wear
  PROVE  SlotInv'
<1>1. UNCHANGED <<slotVars, reclaimed_segment, counters, live>>
  BY DEF WearUnchanged, positionVars
<1>2. CountersType' /\ LocalTypes' /\ LiveSegments'
  BY <1>1 DEF SlotInv, LocalTypes, CountersType, LiveSegments
<1> QED  BY <1>1, <1>2, MapUnchanged
         DEF SlotInv, ReclaimingSteps, WearTarget, SwapPending

LEMMA WearStepSlotInv == SlotInv /\ WearStep => SlotInv'
<1> SUFFICES ASSUME SlotInv, WearStep PROVE SlotInv'
  OBVIOUS
<1> USE DEF positionVars
<1>0. {"random_slot", "org_seg", "isSlotReserve"} \subseteq DOMAIN wear
  BY DEF SlotInv, LocalTypes
<1>1. CASE SkipWearLeveling
  <2>1. /\ UNCHANGED <<slotVars, reclaimed_segment, counters, live, trunc, wear>>
        /\ pc = "toss" /\ pc' = "choose"
    BY <1>1 DEF SkipWearLeveling
  <2> QED  BY <2>1, MapUnchanged
           DEF SlotInv, ReclaimingSteps, LocalTypes, CountersType,
               LiveSegments, SwapPending
<1>2. ASSUME NEW r \in RandomSlots, StartWearLeveling(r)
      PROVE  SlotInv'
  <2>1. /\ UNCHANGED <<slotVars, reclaimed_segment, counters, live, trunc>>
        /\ pc = "toss"
    BY <1>2 DEF StartWearLeveling
  <2>2. Reclaiming
    BY <2>1 DEF SlotInv, ReclaimingSteps
  <2>3. CASE pc' = "choose" /\ UNCHANGED wear
    BY <2>1, <2>2, <2>3, MapUnchanged
       DEF SlotInv, LocalTypes, CountersType, LiveSegments, SwapPending
  <2>4. CASE ~ (pc' = "choose" /\ UNCHANGED wear)
    <3> DEFINE slot == RandomSlot(r)
    <3>1. slot \in Slots \ {new_slot_id}
      BY GeometryAssumption, SequencingAssumption
         DEF GeometryAssumption, SequencingAssumption, RandomSlot, Slots,
             SlotInv, SlotTypes
    <3>2. /\ pc' = "wear"
          /\ wear'.random_slot = slot /\ wear'.org_seg = OrgSegment(slot)
          /\ {"random_slot", "org_seg", "isSlotReserve"} \subseteq DOMAIN wear'
          /\ wear'.isSlotReserve = (OrgSegment(slot) \in ReserveSegments)
      BY <1>2, <2>4 DEF StartWearLeveling
    <3>3. /\ OrgSegment(slot) \in MappedSegments
          /\ seg_to_slot_map[OrgSegment(slot)] = slot
      BY <2>2, <3>1, OrgSegmentFound DEF SlotInv
    <3> HIDE DEF slot
    <3>4. CountersType' /\ LocalTypes' /\ LiveSegments'
      BY <2>1, <3>2 DEF SlotInv, LocalTypes, CountersType, LiveSegments
    <3>5. SlotTypes' /\ Reclaiming' /\ NewSegmentEntry'
      BY <2>1, <2>2 DEF SlotInv, SlotTypes, Reclaiming, NewSegmentEntry,
                        slotVars, MappedSegments, AllocatedSegments
    <3>6. ReclaimingSteps' /\ WearTarget'
      BY <2>1, <3>1, <3>2, <3>3, <3>5
         DEF ReclaimingSteps, WearTarget, slotVars, MappedSegments,
             AllocatedSegments
    <3> QED  BY <3>4, <3>5, <3>6 DEF SlotInv
  <2> QED  BY <2>3, <2>4
<1>3. CASE WearCopyInEu
  BY <1>0, <1>3, WearCopySlotInv DEF WearCopyInEu, Wearing
<1>4. CASE WearSkipBadReserve
  BY <1>0, <1>4, WearCopySlotInv DEF WearSkipBadReserve, Wearing
<1>5. CASE WearSkipUnused
  BY <1>0, <1>5, WearCopySlotInv DEF WearSkipUnused, Wearing
<1>6. CASE WearCopyReserveEu
  BY <1>0, <1>6, WearCopySlotInv DEF WearCopyReserveEu, Wearing
<1>7. CASE WearCopyDataEu
  BY <1>0, <1>7, WearCopySlotInv DEF WearCopyDataEu, Wearing
<1>8. CASE WearGiveUp
  <2>1. /\ UNCHANGED <<slotVars, reclaimed_segment, counters, live>>
        /\ pc = "wear" /\ wear' = NoWear
        /\ CallTruncateSlot(new_slot_id, FALSE, "choose")
    BY <1>8 DEF WearGiveUp, WearUnchanged, Wearing
  <2>2. trunc' \in Trunc /\ pc' = "truncate" /\ trunc'.next = "choose"
    BY <2>1, CallTruncateSlotType DEF SlotInv, SlotTypes
  <2>3. CountersType' /\ LocalTypes' /\ LiveSegments'
    BY <2>1, <2>2 DEF SlotInv, LocalTypes, CountersType, LiveSegments, NoWear
  <2> QED  BY <2>1, <2>2, <2>3, MapUnchanged
           DEF SlotInv, ReclaimingSteps, SwapPending
<1>9. CASE WearCopied
  <2>1. /\ UNCHANGED <<slotVars, reclaimed_segment, counters, live, wear>>
        /\ pc = "wear"
        /\ CallTruncateSlot(wear.random_slot, wear.isSlotReserve, "swap")
    BY <1>9 DEF WearCopied, WearUnchanged
  <2>2. /\ Reclaiming /\ wear.random_slot \in Slots
        /\ wear.isSlotReserve \in BOOLEAN
    BY <2>1 DEF SlotInv, ReclaimingSteps, WearTarget, LocalTypes
  <2>3. trunc' \in Trunc /\ pc' = "truncate" /\ trunc'.next = "swap"
    BY <2>1, <2>2, CallTruncateSlotType
  <2>4. CountersType' /\ LocalTypes' /\ LiveSegments'
    BY <2>1, <2>3 DEF SlotInv, LocalTypes, CountersType, LiveSegments
  <2> QED  BY <2>1, <2>2, <2>3, <2>4, MapUnchanged
<1>10. CASE SwapSlots
  <2>1. /\ UNCHANGED <<nSegments, reclaimed_segment, counters, live, trunc>>
        /\ pc = "swap" /\ pc' = "choose" /\ wear' = NoWear
        /\ new_slot_id' = wear.random_slot
        /\ seg_to_slot_map' =
             [seg_to_slot_map EXCEPT ![SEQ_NEW_SEGMENT] = wear.random_slot,
                                     ![wear.org_seg] = new_slot_id]
    BY <1>10 DEF SwapSlots, SwappedMap
  <2>2. /\ Reclaiming
        /\ wear.org_seg \in MappedSegments
        /\ wear.random_slot \in Slots \ {new_slot_id}
        /\ seg_to_slot_map[wear.org_seg] = wear.random_slot
    BY <2>1 DEF SlotInv, ReclaimingSteps, WearTarget, SwapPending
  <2>3. MappedSegments \subseteq Slots /\ SEQ_NEW_SEGMENT \notin MappedSegments
    BY MappedInSlots DEF SlotInv, SlotTypes
  <2>4. SEQ_NEW_SEGMENT \in Slots /\ Slots \subseteq 0 .. NSlots
    BY GeometryAssumption DEF GeometryAssumption, Slots, SEQ_NEW_SEGMENT
  <2>5. SlotTypes'
    BY <2>1, <2>2, <2>4 DEF SlotInv, SlotTypes
  <2>6. \A s \in MappedSegments : seg_to_slot_map'[s] =
          IF s = wear.org_seg THEN new_slot_id ELSE seg_to_slot_map[s]
    BY <2>1, <2>3 DEF SlotInv, SlotTypes
  <2>7. Reclaiming'
    BY <2>1, <2>2, <2>6, TradeSlots DEF SlotInv, SlotTypes
  <2>8. NewSegmentEntry'
    <3>1. seg_to_slot_map'[SEQ_NEW_SEGMENT] = new_slot_id'
      BY <2>1, <2>2, <2>3, <2>4 DEF SlotInv, SlotTypes
    <3>2. ReserveSegments \subseteq MappedSegments'
      BY DEF MappedSegments
    <3> QED  BY <2>7, <3>1, <3>2 DEF Reclaiming, NewSegmentEntry
  <2>9. /\ CountersType' /\ LocalTypes' /\ LiveSegments'
        /\ ReclaimingSteps' /\ WearTarget'
    BY <2>1, <2>7 DEF SlotInv, LocalTypes, CountersType, LiveSegments, NoWear,
                      ReclaimingSteps, WearTarget, SwapPending
  <2> QED  BY <2>5, <2>7, <2>8, <2>9 DEF SlotInv
<1> QED  BY <1>1, <1>2, <1>3, <1>4, <1>5, <1>6, <1>7, <1>8, <1>9, <1>10
         DEF WearStep

LEMMA StutterSlotInv == SlotInv /\ UNCHANGED vars => SlotInv'
<1> SUFFICES ASSUME SlotInv, UNCHANGED vars PROVE SlotInv'
  OBVIOUS
<1>1. UNCHANGED <<slotVars, reclaimed_segment, counters, live, trunc, wear, pc>>
  BY DEF vars, positionVars
<1>2. CountersType' /\ LocalTypes' /\ LiveSegments'
  BY <1>1 DEF SlotInv, LocalTypes, CountersType, LiveSegments
<1> QED  BY <1>1, <1>2, MapUnchanged
         DEF SlotInv, ReclaimingSteps, SwapPending

LEMMA SlotInvImpliesPartition == SlotInv => SlotPartition
<1> SUFFICES ASSUME SlotInv PROVE SlotPartition
  OBVIOUS
<1>1. CASE Reclaiming
  BY <1>1 DEF Reclaiming, SlotPartition
<1>2. CASE Filling
  <2>1. MappedSegments \subseteq Slots
    BY MappedInSlots DEF SlotInv, SlotTypes
  <2> QED  BY <1>2, <2>1 DEF Filling, SlotPartition
<1> QED  BY <1>1, <1>2 DEF SlotInv

(***************************************************************************)
(* moveToNextSegment() and performWearLeveling() never let two segments    *)
(* share a slot, nor hand out as the new slot one that a segment is in,    *)
(* whatever the geometry, the bad EUs, the random choices and the errors   *)
(* after which the file system calls again.                                *)
(***************************************************************************)
THEOREM SlotsArePartitioned == Spec => []SlotPartition
<1>1. Init => SlotInv
  BY InitSlotInv
<1>2. SlotInv /\ [Next]_vars => SlotInv'
  BY ClientStepSlotInv, FindStepSlotInv, MoveStepSlotInv, WearStepSlotInv,
     StutterSlotInv DEF Next
<1>3. SlotInv => SlotPartition
  BY SlotInvImpliesPartition
<1> QED  BY <1>1, <1>2, <1>3, PTL DEF Spec

-----------------------------------------------------------------------------
(* The byte of the last two segments, which are no data segments.          *)
LastByte     == (NSlots \div 2) - 1
LastByteZero == counters[LastByte] = 0

LEMMA ChangeKeepsLastByte ==
  ASSUME CountersType, NEW seg \in DataSegments, NEW level
  PROVE  change_counter_level(level, seg)[LastByte] = counters[LastByte]
<1>1. LastByte \in 0 .. (NSlots \div 2) - 1 /\ seg \div 2 # LastByte
  BY GeometryAssumption
     DEF GeometryAssumption, LastByte, DataSegments, SEQ_SEGMENTS_COUNT
<1> QED  BY <1>1 DEF change_counter_level, CountersType

LEMMA NextKeepsLastByte ==
  ASSUME SlotInv, [Next]_vars
  PROVE  counters'[LastByte] = counters[LastByte]
<1> DEFINE Changed == \E seg \in DataSegments, level \in 0 .. 16 :
                        counters' = change_counter_level(level, seg)
<1>1. counters' = counters \/ Changed
  <2>1. CASE ClientStep
    <3>1. CASE \E la \in live, toss \in ObsTosses : MarkAsObsolete(la, toss)
      <4>1. PICK la \in live, toss \in ObsTosses :
              counters' = CountObsolete(la[1], toss)
        BY <3>1 DEF MarkAsObsolete
      <4>2. la[1] \in DataSegments
        BY DEF SlotInv, LiveSegments
      <4>3. get_counter_level(la[1]) + 1 \in 0 .. 16
        BY <4>2, LevelType DEF SlotInv
      <4> QED  BY <4>1, <4>2, <4>3
               DEF CountObsolete, increment_counter, OBS_COUNT_LEVEL_0
    <3>2. CASE AllocAndWriteBlock \/ CommitPage \/ CommitRefused
                 \/ FindNextFreePage
      BY <3>2 DEF AllocAndWriteBlock, CommitPage, CommitRefused,
                  FindNextFreePage, AllocAndWrite
    <3> QED  BY <2>1, <3>1, <3>2 DEF ClientStep
  <2>2. CASE FindStep
    <3>1. \/ counters' = counters
          \/ counters' = change_counter_level(OBS_COUNT_FULL, reclaimed_segment)
      BY <2>2 DEF FindStep, IterationsExhausted, NoReserveEu, FoundFreshPage,
                  FoundReclaimedPage, CopyValidBlock, EndSegment
    <3> QED  BY <3>1 DEF SlotInv, SlotTypes, OBS_COUNT_FULL
  <2>3. CASE MoveStep
    <3>1. \/ counters' = counters
          \/ counters' = change_counter_level(OBS_COUNT_NO_OBSOLETES,
                                              reclaimed_segment)
      BY <2>3 DEF MoveStep, MoveToNextSegment, Truncate, SwitchToReclamation,
                  AllocateSegment, FindSegmentToReclaim, NoReserveForHeader,
                  WriteSegmentHeader, WriteHeaderCheckpoint
    <3> QED  BY <3>1 DEF SlotInv, SlotTypes, OBS_COUNT_NO_OBSOLETES
  <2>4. CASE WearStep
    BY <2>4 DEF WearStep, SkipWearLeveling, StartWearLeveling, WearCopyInEu,
                WearSkipBadReserve, WearSkipUnused, WearCopyReserveEu,
                WearCopyDataEu, WearGiveUp, WearCopied, SwapSlots,
                WearUnchanged
  <2>5. CASE UNCHANGED vars
    BY <2>5 DEF vars
  <2> QED  BY <2>1, <2>2, <2>3, <2>4, <2>5 DEF Next
<1> QED  BY <1>1, ChangeKeepsLastByte DEF SlotInv

(***************************************************************************)
(* is_flash_full() never answers yes: it reads the counters byte by byte   *)
(* as if each were a segment's level, and the byte of the last two         *)
(* segments, which hold no data, stays 0.  allocAndWriteBlock() never      *)
(* refuses a write because of it (512 slots, 2 of them reserve, satisfy    *)
(* the assumption).                                                        *)
(***************************************************************************)
THEOREM FlashFullNeverSeen ==
  ASSUME NSlots >= 2 * KReserve + 2 PROVE Spec => []~is_flash_full
<1>1. Init => SlotInv /\ LastByteZero
  <2>1. ASSUME Init PROVE LastByteZero
    BY <2>1, GeometryAssumption
       DEF Init, LastByteZero, LastByte, GeometryAssumption
  <2> QED  BY <2>1, InitSlotInv
<1>2. SlotInv /\ LastByteZero /\ [Next]_vars => SlotInv' /\ LastByteZero'
  <2>1. SlotInv /\ [Next]_vars => SlotInv'
    BY ClientStepSlotInv, FindStepSlotInv, MoveStepSlotInv, WearStepSlotInv,
       StutterSlotInv DEF Next
  <2> QED  BY <2>1, NextKeepsLastByte DEF LastByteZero, LastByte
<1>3. LastByteZero => ~ is_flash_full
  <2>1. LastByte \in DataSegments
    BY GeometryAssumption
       DEF GeometryAssumption, LastByte, DataSegments, SEQ_SEGMENTS_COUNT
  <2> QED  BY <2>1 DEF is_flash_full, LastByteZero, OBS_COUNT_FULL
<1> QED  BY <1>1, <1>2, <1>3, PTL DEF Spec

=============================================================================

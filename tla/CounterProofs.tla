----------------------------- MODULE CounterProofs -----------------------------
(***************************************************************************)
(* The page counts that decide when writes are refused, for every geometry *)
(* with checkpoints of one page, on a flash without bad EUs.  With longer  *)
(* checkpoints they are not exact: after a commit that ends early because  *)
(* the checkpoint was saved with a header, findNextFreePage() looks again  *)
(* at the page it found before and takes it off its counter once more.     *)
(***************************************************************************)
EXTENDS DataProofs

OnePage == CpPages = 1

-----------------------------------------------------------------------------
(* The inductive invariant.                                                *)

Blocks == DataSegments \X DataOffsets
Errors == {"full", "failed", "noreserve"}

(* The page that stands for an address between any two steps.              *)
PageNow(la) ==
  IF la[1] \in AllocatedSegments THEN flash[Place(la)[1]][la[2]] ELSE ErasedPage

(* The page is_page_to_copy() took off its counter and that is not yet     *)
(* overwritten.                                                            *)
Found == IF pc = "ready" /\ Reclaiming
         THEN {<<reclaimed_segment, reclaimed_offset>>} ELSE {}

ObsoletePages == {la \in Blocks \ Found : PageNow(la).obs}
FreePages     == {la \in Blocks \ Found : ~ PageNow(la).obs /\ PageNow(la).kind # "data"}

CountInv ==
  /\ pc # "committing" /\ frame.caller # "commit"
  /\ pc \notin Errors => /\ counter = Cardinality(ObsoletePages)
                         /\ free_counter = Cardinality(FreePages)

-----------------------------------------------------------------------------
(* Counting pages.                                                         *)

LEMMA BlocksFinite ==
  /\ IsFiniteSet(Blocks)
  /\ Cardinality(Blocks) = SEQ_SEGMENTS_COUNT * (PagesPerSlot - HeaderPages)
<1>1. /\ SEQ_SEGMENTS_COUNT \in Nat \ {0}
      /\ PagesPerSlot \in Nat /\ HeaderPages \in Nat /\ HeaderPages < PagesPerSlot
  BY SlotSize, GeometryAssumption DEF GeometryAssumption, SEQ_SEGMENTS_COUNT, HeaderPages
<1>2. IsFiniteSet(DataSegments) /\ Cardinality(DataSegments) = SEQ_SEGMENTS_COUNT
  <2>1. /\ 0 \in Int /\ SEQ_SEGMENTS_COUNT - 1 \in Int
        /\ ~ (0 > SEQ_SEGMENTS_COUNT - 1)
        /\ SEQ_SEGMENTS_COUNT - 1 - 0 + 1 = SEQ_SEGMENTS_COUNT
    BY <1>1
  <2> QED  BY <2>1, FS_Interval DEF DataSegments
<1>3. IsFiniteSet(DataOffsets) /\ Cardinality(DataOffsets) = PagesPerSlot - HeaderPages
  <2>1. /\ HeaderPages \in Int /\ PagesPerSlot - 1 \in Int
        /\ ~ (HeaderPages > PagesPerSlot - 1)
        /\ PagesPerSlot - 1 - HeaderPages + 1 = PagesPerSlot - HeaderPages
    BY <1>1
  <2> QED  BY <2>1, FS_Interval DEF DataOffsets
<1> QED  BY <1>2, <1>3, FS_Product DEF Blocks

LEMMA CountsFinite == IsFiniteSet(ObsoletePages) /\ IsFiniteSet(FreePages)
BY BlocksFinite, FS_Subset DEF ObsoletePages, FreePages

LEMMA AllocatedAreData ==
  ASSUME SlotInv
  PROVE  AllocatedSegments \subseteq DataSegments
BY GeometryAssumption DEF SlotInv, SlotTypes, AllocatedSegments, DataSegments,
   GeometryAssumption, SEQ_SEGMENTS_COUNT

(* Two addresses have two pages.                                           *)
LEMMA PlacesApart ==
  ASSUME SlotInv, pc \in Writing,
         NEW la \in AllocatedSegments \X DataOffsets,
         NEW lb \in AllocatedSegments \X DataOffsets,
         Place(la) = Place(lb)
  PROVE  la = lb
<1>1. la[1] \in MappedSegments /\ lb[1] \in MappedSegments
  BY SlotsApart
<1>2. la[2] = lb[2]
  BY DEF Place
<1>3. ~ Ending /\ ~ SwapPending
  BY DEF Writing, Ending, SwapPending
<1>4. la[1] = lb[1]
  <2>1. SlotOf(la[1]) = SlotOf(lb[1]) => la[1] = lb[1]
    BY <1>1, SlotsApart
  <2>2. Reclaiming => SlotOf(la[1]) # new_slot_id /\ SlotOf(lb[1]) # new_slot_id
    BY <1>1, <1>3, SlotsApart DEF Reclaiming
  <2> QED  BY <2>1, <2>2 DEF Place
<1>5. la = <<la[1], la[2]>> /\ lb = <<lb[1], lb[2]>>
  OBVIOUS
<1> QED  BY <1>2, <1>4, <1>5

(* The counts do not change when no page does and none is found.           *)
LEMMA CountsKept ==
  ASSUME CountInv, pc \notin Errors, Found = {}, Found' = {},
         UNCHANGED <<counter, free_counter>>,
         \A la \in Blocks : /\ PageNow(la)'.kind = PageNow(la).kind
                            /\ PageNow(la)'.obs = PageNow(la).obs
  PROVE  counter' = Cardinality(ObsoletePages') /\ free_counter' = Cardinality(FreePages')
<1>1. ObsoletePages' = ObsoletePages /\ FreePages' = FreePages
  BY DEF ObsoletePages, FreePages, Blocks
<1> QED  BY <1>1 DEF CountInv

-----------------------------------------------------------------------------
(* What the steps do to the pages.                                         *)

(* moveToNextSegment() and performWearLeveling() move them.                *)
LEMMA MovedPages ==
  ASSUME Ctx, Carried, pc' \notin Errors, nSegments' = nSegments
  PROVE  \A la \in Blocks : /\ PageNow(la)'.kind = PageNow(la).kind
                            /\ PageNow(la)'.obs = PageNow(la).obs
<1>1. AllocatedSegments' = AllocatedSegments
  BY DEF AllocatedSegments
<1>2. PagesFollow
  BY DEF Carried, Errors
<1> SUFFICES ASSUME NEW la \in Blocks
             PROVE  /\ PageNow(la)'.kind = PageNow(la).kind
                    /\ PageNow(la)'.obs = PageNow(la).obs
  OBVIOUS
<1>3. CASE la[1] \in AllocatedSegments
  <2>1. la \in AllocatedSegments \X DataOffsets
    BY <1>3 DEF Blocks
  <2> QED  BY <1>1, <1>2, <1>3, <2>1 DEF PagesFollow, SameBlock, PageNow
<1>4. CASE la[1] \notin AllocatedSegments
  BY <1>1, <1>4 DEF PageNow
<1> QED  BY <1>3, <1>4

(* A page that is written replaces the one at the position, if that is     *)
(* not among the header's.                                                 *)
LEMMA WrittenPages ==
  ASSUME Ctx, NEW page \in Page, WriteStep(page)
  PROVE  \A la \in Blocks :
           PageNow(la)' = IF la = <<reclaimed_segment, reclaimed_offset>>
                          THEN page ELSE PageNow(la)
<1> USE DEF Ctx
<1>1. /\ ~ Ending /\ ~ SwapPending /\ ~ Ending' /\ ~ SwapPending'
  BY DEF WriteStep, Writing, Ending, SwapPending
<1>2. /\ AllocatedSegments' = AllocatedSegments /\ new_slot_id' = new_slot_id
      /\ reclaimed_segment' = reclaimed_segment
      /\ Reclaiming' <=> Reclaiming
      /\ seg_to_slot_map' = seg_to_slot_map
      /\ reclaimed_segment \in AllocatedSegments /\ new_slot_id \in Slots
      /\ Filling \/ Reclaiming
  BY Phases, PhaseKept DEF WriteStep, SlotsKept
<1>3. \A s : SlotOf(s) = seg_to_slot_map[s] /\ SlotOf(s)' = seg_to_slot_map[s]
  BY <1>1, <1>2 DEF SlotOf
<1>4. \A slot \in Slots, o \in Offsets :
        flash'[slot][o] = IF slot = new_slot_id /\ o = reclaimed_offset
                          THEN page ELSE flash[slot][o]
  BY DEF WriteStep, Programs
<1> SUFFICES ASSUME NEW la \in Blocks
             PROVE  PageNow(la)' = IF la = <<reclaimed_segment, reclaimed_offset>>
                                   THEN page ELSE PageNow(la)
  OBVIOUS
<1>5. /\ la[2] \in Offsets /\ la[2] \in Nat /\ la[2] > 0 /\ la = <<la[1], la[2]>>
      /\ reclaimed_offset \in Nat /\ reclaimed_offset' = reclaimed_offset + 1
  BY SlotSize DEF Blocks, DataOffsets, Offsets, WriteStep
<1>6. CASE la[1] \notin AllocatedSegments
  <2>1. la # <<reclaimed_segment, reclaimed_offset>>
    BY <1>2, <1>6
  <2> QED  BY <1>2, <1>6, <2>1 DEF PageNow
<1>7. CASE la[1] \in AllocatedSegments /\ la = <<reclaimed_segment, reclaimed_offset>>
  <2>1. Filling => seg_to_slot_map[reclaimed_segment] = new_slot_id
    BY <1>2, SlotsApart DEF Filling
  <2>2. Place(la)' = <<new_slot_id, reclaimed_offset>>
    <3>1. pc' \in Writing /\ la[2] < reclaimed_offset' /\ la[1] = reclaimed_segment
          /\ la[2] = reclaimed_offset
      BY <1>5, <1>7 DEF WriteStep
    <3> QED  BY <1>2, <1>3, <2>1, <3>1 DEF Place
  <2>3. PageNow(la)' = flash'[new_slot_id][reclaimed_offset]
    BY <1>2, <1>7, <2>2 DEF PageNow
  <2> QED  BY <1>2, <1>4, <1>5, <1>7, <2>3
<1>8. CASE la[1] \in AllocatedSegments /\ la # <<reclaimed_segment, reclaimed_offset>>
  <2>1. la[1] = reclaimed_segment => la[2] # reclaimed_offset
    BY <1>5, <1>8
  <2>2. pc = "header" => ~ (la[2] < reclaimed_offset) /\ ~ (la[2] < reclaimed_offset + 1)
    <3>1. pc = "header" => reclaimed_offset = 0
      BY DEF CallInv, Position
    <3> QED  BY <1>5, <3>1
  <2>3. la[1] = reclaimed_segment =>
          (la[2] < reclaimed_offset' <=> la[2] < reclaimed_offset)
    BY <1>5, <2>1
  <2>4. Place(la)' = Place(la)
    <3>1. pc' \in Writing /\ (pc \in Writing \/ pc = "header")
      BY DEF WriteStep
    <3>2. pc = "header" => ~ (la[2] < reclaimed_offset')
      BY <1>5, <2>2
    <3> QED  BY <1>2, <1>3, <2>2, <2>3, <3>1, <3>2 DEF Place
  <2>5. Place(la)[1] \in Slots /\ ~ (Place(la)[1] = new_slot_id /\ la[2] = reclaimed_offset)
    <3>1. la[1] \in MappedSegments
      BY <1>8, SlotsApart
    <3>2. /\ SlotOf(la[1]) \in Slots
          /\ SlotOf(la[1]) = new_slot_id => Filling /\ la[1] = reclaimed_segment
      BY <1>1, <3>1, SlotsApart
    <3>3. la[2] = reclaimed_offset => ~ (la[2] < reclaimed_offset)
      BY <1>5
    <3> QED  BY <1>2, <2>1, <3>2, <3>3 DEF Place
  <2>6. flash'[Place(la)[1]][la[2]] = flash[Place(la)[1]][la[2]]
    BY <1>4, <1>5, <2>5
  <2> QED  BY <1>2, <1>8, <2>4, <2>6 DEF PageNow
<1> QED  BY <1>6, <1>7, <1>8

(* Looking for a page changes none.                                        *)
LEMMA SeenPages ==
  ASSUME Ctx, pc \in Writing, pc' \in Writing, SlotsKept,
         UNCHANGED <<flash, reclaimed_offset, wear>>
  PROVE  \A la \in Blocks : PageNow(la)' = PageNow(la)
<1>1. /\ ~ Ending /\ ~ SwapPending /\ ~ Ending' /\ ~ SwapPending'
  BY DEF Writing, Ending, SwapPending
<1>2. /\ AllocatedSegments' = AllocatedSegments /\ new_slot_id' = new_slot_id
      /\ reclaimed_segment' = reclaimed_segment
      /\ Reclaiming' <=> Reclaiming
      /\ seg_to_slot_map' = seg_to_slot_map
  BY PhaseKept DEF SlotsKept
<1>3. \A la : Place(la)' = Place(la)
  BY <1>1, <1>2 DEF Place, SlotOf
<1> QED  BY <1>2, <1>3 DEF PageNow

(* The page at the position where the file system writes.                  *)
LEMMA PageAtPosition ==
  ASSUME Ctx, pc = "ready"
  PROVE  /\ <<reclaimed_segment, reclaimed_offset>> \in Blocks
         /\ Filling \/ Reclaiming
         /\ Filling => /\ ~ Reclaiming /\ Found = {} /\ FreshPagesTaken = 1
                       /\ PageNow(<<reclaimed_segment, reclaimed_offset>>) = ErasedPage
         /\ Reclaiming => /\ Found = {<<reclaimed_segment, reclaimed_offset>>}
                          /\ FreshPagesTaken = 0
<1> USE DEF Ctx
<1>1. /\ reclaimed_segment \in AllocatedSegments /\ reclaimed_segment \in DataSegments
      /\ (Filling \/ Reclaiming) /\ ~ (Filling /\ Reclaiming)
      /\ IS_STATE_RECLAMATION <=> Reclaiming
  BY Phases, AllocatedAreData
<1>2. reclaimed_offset \in DataOffsets /\ reclaimed_offset \in Offsets
      /\ reclaimed_offset \in Nat
  BY SlotSize DEF CallInv, Position, DataOffsets, Offsets
<1>3. ~ Ending /\ ~ SwapPending
  BY DEF Ending, SwapPending
<1>4. Filling => PageNow(<<reclaimed_segment, reclaimed_offset>>) = ErasedPage
  <2>1. Filling => Place(<<reclaimed_segment, reclaimed_offset>>)
                     = <<new_slot_id, reclaimed_offset>>
    BY <1>1, <1>3, SlotsApart DEF Place, SlotOf, Filling
  <2>2. flash[new_slot_id][reclaimed_offset] = ErasedPage
    BY <1>2 DEF DataInv, FlashInv, ErasedAhead, Erased, Writing
  <2> QED  BY <1>1, <2>1, <2>2 DEF PageNow
<1> QED  BY <1>1, <1>2, <1>4 DEF Blocks, Found, FreshPagesTaken

-----------------------------------------------------------------------------
(* The file system writes, commits and marks pages.                        *)

LEMMA AllocAndWriteBlockCounted ==
  ASSUME Ctx, CountInv, AllocAndWriteBlock
  PROVE  CountInv'
<1> DEFINE pos == <<reclaimed_segment, reclaimed_offset>>
<1>1. /\ pc = "ready" /\ pc' = "head" /\ frame'.caller = "alloc"
      /\ counter' = counter /\ free_counter' = free_counter + 0 - FreshPagesTaken
  BY DEF AllocAndWriteBlock, AllocAndWrite, CallFindNextFreePage, Ctx, Plain, Callable
<1>2. PICK page \in Page : WriteStep(page) /\ page.kind = "data" /\ page.obs = FALSE
  BY AllocAndWriteBlockKept DEF Wrote
<1>3. \A la \in Blocks : PageNow(la)' = IF la = pos THEN page ELSE PageNow(la)
  BY <1>2, WrittenPages
<1>4. /\ pos \in Blocks /\ (Filling \/ Reclaiming)
      /\ Filling => /\ ~ Reclaiming /\ Found = {} /\ FreshPagesTaken = 1
                    /\ PageNow(pos) = ErasedPage
      /\ Reclaiming => Found = {pos} /\ FreshPagesTaken = 0
  BY <1>1, PageAtPosition
<1>5. Found' = {}
  BY <1>1 DEF Found
<1>6. counter = Cardinality(ObsoletePages) /\ free_counter = Cardinality(FreePages)
  BY <1>1 DEF CountInv, Errors
<1>7. Cardinality(FreePages) \in Nat /\ IsFiniteSet(FreePages)
  BY CountsFinite, FS_CardinalityType
<1> HIDE DEF pos
<1>8. ~ ErasedPage.obs /\ ErasedPage.kind # "data"
  BY DEF ErasedPage
<1>9. ObsoletePages' = ObsoletePages
  BY <1>2, <1>3, <1>4, <1>5, <1>8 DEF ObsoletePages, Blocks
<1>10. Filling => FreePages' = FreePages \ {pos} /\ pos \in FreePages
  BY <1>2, <1>3, <1>4, <1>5, <1>8 DEF FreePages, Blocks
<1>11. Reclaiming => FreePages' = FreePages
  BY <1>2, <1>3, <1>4, <1>5, <1>8 DEF FreePages, Blocks
<1>12. free_counter' = Cardinality(FreePages')
  BY <1>1, <1>4, <1>6, <1>7, <1>10, <1>11, FS_RemoveElement
<1> QED  BY <1>1, <1>6, <1>9, <1>12 DEF CountInv

LEMMA CommitPageCounted ==
  ASSUME OnePage, Ctx, CountInv, CommitPage
  PROVE  CountInv'
<1> DEFINE pos == <<reclaimed_segment, reclaimed_offset>>
<1>1. frame.cp = CpPages - 1
  <2>1. frame.cp \in 0 .. CpPages - 1
    BY DEF Ctx, SlotInv, CallInv, CallOK, LocalTypes, Frame
  <2> QED  BY <2>1 DEF OnePage
<1>2. /\ pc = "ready" /\ pc' = "committed" /\ frame' = NoFrame
      /\ counter' = counter /\ free_counter' = free_counter + 1 - FreshPagesTaken
  BY <1>1 DEF CommitPage, AllocAndWrite, Ctx, Plain, Callable, CountInv
<1>3. PICK page \in Page : WriteStep(page) /\ page.kind = "checkpoint" /\ page.obs = FALSE
  BY CommitPageKept DEF Wrote
<1>4. \A la \in Blocks : PageNow(la)' = IF la = pos THEN page ELSE PageNow(la)
  BY <1>3, WrittenPages
<1>5. /\ pos \in Blocks /\ (Filling \/ Reclaiming)
      /\ Filling => /\ ~ Reclaiming /\ Found = {} /\ FreshPagesTaken = 1
                    /\ PageNow(pos) = ErasedPage
      /\ Reclaiming => Found = {pos} /\ FreshPagesTaken = 0
  BY <1>2, PageAtPosition
<1>6. Found' = {}
  BY <1>2 DEF Found
<1>7. counter = Cardinality(ObsoletePages) /\ free_counter = Cardinality(FreePages)
  BY <1>2 DEF CountInv, Errors
<1>8. Cardinality(FreePages) \in Nat /\ IsFiniteSet(FreePages)
  BY CountsFinite, FS_CardinalityType
<1> HIDE DEF pos
<1>9. ~ ErasedPage.obs /\ ErasedPage.kind # "data"
  BY DEF ErasedPage
<1>10. ObsoletePages' = ObsoletePages
  BY <1>3, <1>4, <1>5, <1>6, <1>9 DEF ObsoletePages, Blocks
<1>11. Filling => FreePages' = FreePages
  BY <1>3, <1>4, <1>5, <1>6, <1>9 DEF FreePages, Blocks
<1>12. Reclaiming => FreePages' = FreePages \cup {pos} /\ pos \notin FreePages
  BY <1>3, <1>4, <1>5, <1>6, <1>9 DEF FreePages, Blocks
<1>13. free_counter' = Cardinality(FreePages')
  BY <1>2, <1>5, <1>7, <1>8, <1>11, <1>12, FS_AddElement
<1>14. NoFrame.caller # "commit"
  BY DEF NoFrame
<1> QED  BY <1>2, <1>7, <1>10, <1>13, <1>14 DEF CountInv

LEMMA MarkAsObsoleteCounted ==
  ASSUME Ctx, CountInv, NEW la \in live, NEW toss, MarkAsObsolete(la, toss)
  PROVE  CountInv'
<1> USE DEF Ctx
<1>1. /\ pc \in {"ready", "committed"} /\ pc' = pc /\ frame' = frame
      /\ counter' = counter + 1 /\ free_counter' = free_counter
  BY DEF MarkAsObsolete, Plain, Callable
<1>2. /\ pc \in Writing /\ SlotsKept /\ UNCHANGED reclaimed_offset
      /\ Holds(Place(la), la)
      /\ \A s \in Slots, o \in Offsets :
           /\ flash'[s][o].kind = flash[s][o].kind
           /\ flash'[s][o].obs <=> flash[s][o].obs \/ <<s, o>> = Place(la)
  BY MarkAsObsoleteKept
<1>3. la \in AllocatedSegments \X DataOffsets /\ la \in Blocks
  BY AllocatedAreData DEF DataInv, LiveInv, Blocks
<1>4. la \notin Found
  BY DEF DataInv, LiveInv, Found
<1>5. /\ AllocatedSegments' = AllocatedSegments /\ new_slot_id' = new_slot_id
      /\ reclaimed_segment' = reclaimed_segment
      /\ Reclaiming' <=> Reclaiming
      /\ seg_to_slot_map' = seg_to_slot_map
      /\ new_slot_id \in Slots
  BY <1>2, Phases, PhaseKept DEF SlotsKept
<1>6. /\ ~ Ending /\ ~ SwapPending /\ ~ Ending' /\ ~ SwapPending'
  BY <1>1 DEF Ending, SwapPending
<1>7. \A lb : Place(lb)' = Place(lb) /\ Place(lb)[2] = lb[2]
  BY <1>1, <1>2, <1>5, <1>6 DEF Place, SlotOf
<1>8. Found' = Found
  BY <1>1, <1>2, <1>5 DEF Found
<1>9. ASSUME NEW lb \in Blocks
      PROVE  /\ PageNow(lb)'.kind = PageNow(lb).kind
             /\ PageNow(lb)'.obs <=> PageNow(lb).obs \/ lb = la
  <2>1. CASE lb[1] \notin AllocatedSegments
    <3>1. lb # la
      BY <1>3, <2>1
    <3> QED  BY <1>5, <2>1, <3>1 DEF PageNow
  <2>2. CASE lb[1] \in AllocatedSegments
    <3>1. lb \in AllocatedSegments \X DataOffsets
      BY <2>2 DEF Blocks
    <3>2. Place(lb)[1] \in Slots /\ lb[2] \in Offsets
      BY <1>5, <3>1, SlotsApart, SlotSize DEF Place, DataOffsets, Offsets
    <3>3. <<Place(lb)[1], lb[2]>> = Place(lb)
      BY DEF Place
    <3>4. Place(lb) = Place(la) <=> lb = la
      BY <1>2, <1>3, <3>1, PlacesApart
    <3>5. /\ PageNow(lb)' = flash'[Place(lb)[1]][lb[2]]
          /\ PageNow(lb) = flash[Place(lb)[1]][lb[2]]
      BY <1>5, <1>7, <2>2 DEF PageNow
    <3> QED  BY <1>2, <3>2, <3>3, <3>4, <3>5
  <2> QED  BY <2>1, <2>2
<1>10. ~ PageNow(la).obs /\ PageNow(la).kind = "data"
  BY <1>2, <1>3, <1>7 DEF Holds, PageNow
<1>11. ObsoletePages' = ObsoletePages \cup {la} /\ la \notin ObsoletePages
  <2>1. Blocks' = Blocks
    BY DEF Blocks, DataOffsets, HeaderPages
  <2> QED  BY <1>3, <1>4, <1>8, <1>9, <1>10, <2>1 DEF ObsoletePages
<1>12. FreePages' = FreePages
  <2>1. Blocks' = Blocks
    BY DEF Blocks, DataOffsets, HeaderPages
  <2> QED  BY <1>8, <1>9, <1>10, <2>1 DEF FreePages
<1>13. counter = Cardinality(ObsoletePages) /\ free_counter = Cardinality(FreePages)
  BY <1>1 DEF CountInv, Errors
<1>14. counter' = Cardinality(ObsoletePages')
  BY <1>1, <1>11, <1>13, CountsFinite, FS_AddElement
<1> QED  BY <1>1, <1>12, <1>13, <1>14 DEF CountInv

-----------------------------------------------------------------------------
(* findNextFreePage()                                                      *)

LEMMA FoundFreshPageCounted ==
  ASSUME Ctx, CountInv, FoundFreshPage
  PROVE  CountInv'
<1>1. /\ AtPage /\ ~ IS_STATE_RECLAMATION /\ SlotsKept
      /\ UNCHANGED <<flash, reclaimed_offset, wear, counter, free_counter>>
      /\ ReturnFromFind
  BY DEF FoundFreshPage, EnterPage, slotVars, positionVars, countVars, SlotsKept
<1>2. pc \in {"scan", "head"} /\ pc' = "ready" /\ frame' = NoFrame
  BY <1>1 DEF AtPage, ReturnFromFind, CountInv
<1>3. ~ Reclaiming /\ ~ Reclaiming'
  BY <1>1, Phases, PhaseKept DEF Ctx
<1>4. Found = {} /\ Found' = {}
  BY <1>3 DEF Found
<1>5. \A la \in Blocks : PageNow(la)' = PageNow(la)
  BY <1>1, <1>2, SeenPages DEF Writing
<1>6. counter' = Cardinality(ObsoletePages') /\ free_counter' = Cardinality(FreePages')
  BY <1>1, <1>2, <1>4, <1>5, CountsKept DEF Errors
<1>7. NoFrame.caller # "commit"
  BY DEF NoFrame
<1> QED  BY <1>2, <1>6, <1>7 DEF CountInv

LEMMA FoundReclaimedPageCounted ==
  ASSUME Ctx, CountInv, FoundReclaimedPage
  PROVE  CountInv'
<1> USE DEF Ctx
<1> DEFINE pos == <<reclaimed_segment, reclaimed_offset>>
<1>1. /\ AtPage /\ IS_STATE_RECLAMATION /\ SlotsKept
      /\ UNCHANGED <<flash, reclaimed_segment, reclaimed_offset, wear>>
      /\ ReturnFromFind
      /\ \/ OldPage.obs /\ counter' = counter - 1 /\ free_counter' = free_counter
         \/ /\ ~ OldPage.obs /\ OldPage.cp # "none"
            /\ free_counter' = free_counter - 1 /\ counter' = counter
  BY DEF FoundReclaimedPage, EnterPage, slotVars, positionVars, SlotsKept
<1>2. pc \in {"scan", "head"} /\ pc' = "ready" /\ frame' = NoFrame
  BY <1>1 DEF AtPage, ReturnFromFind, CountInv
<1>3. /\ Reclaiming /\ reclaimed_offset \in DataOffsets /\ reclaimed_offset \in Offsets
      /\ seg_to_slot_map[reclaimed_segment] \in Slots
      /\ OldPage = flash[seg_to_slot_map[reclaimed_segment]][reclaimed_offset]
      /\ Place(pos)[1] = seg_to_slot_map[reclaimed_segment]
  BY <1>1, OldPageFound
<1>4. reclaimed_segment \in AllocatedSegments /\ pos \in Blocks
  BY <1>3, Phases, AllocatedAreData DEF Blocks
<1>5. PageNow(pos) = OldPage
  BY <1>3, <1>4 DEF PageNow
<1>6. OldPage.kind = "data" => OldPage.cp = "none"
  BY <1>3 DEF DataInv, FlashInv, PagesTyped
<1>7. Found = {} /\ Found' = {pos}
  <2>1. Reclaiming'
    BY <1>1, <1>3, PhaseKept
  <2> QED  BY <1>1, <1>2, <2>1 DEF Found
<1>8. \A la \in Blocks : PageNow(la)' = PageNow(la)
  BY <1>1, <1>2, SeenPages DEF Writing
<1>9. counter = Cardinality(ObsoletePages) /\ free_counter = Cardinality(FreePages)
  BY <1>2 DEF CountInv, Errors
<1> HIDE DEF pos
<1>10. Blocks' = Blocks
  BY DEF Blocks, DataOffsets, HeaderPages
<1>11. /\ ObsoletePages' = ObsoletePages \ {pos}
       /\ FreePages' = FreePages \ {pos}
  BY <1>7, <1>8, <1>10 DEF ObsoletePages, FreePages
<1>12. /\ pos \in ObsoletePages <=> OldPage.obs
       /\ pos \in FreePages <=> ~ OldPage.obs /\ OldPage.kind # "data"
  BY <1>4, <1>5, <1>7 DEF ObsoletePages, FreePages
<1>13. counter' = Cardinality(ObsoletePages') /\ free_counter' = Cardinality(FreePages')
  BY <1>1, <1>6, <1>9, <1>11, <1>12, CountsFinite, FS_RemoveElement
<1>14. NoFrame.caller # "commit"
  BY DEF NoFrame
<1> QED  BY <1>2, <1>13, <1>14 DEF CountInv

(* The copy of a page counts as the page did.                              *)
LEMMA CopyValidBlockCounted ==
  ASSUME Ctx, CountInv, CopyValidBlock
  PROVE  CountInv'
<1> DEFINE pos == <<reclaimed_segment, reclaimed_offset>>
<1>1. /\ AtPage /\ IS_STATE_RECLAMATION /\ pc' = "scan"
      /\ UNCHANGED <<counter, free_counter, frame>>
  BY DEF CopyValidBlock, EnterPage, countVars
<1>2. PICK page \in Page : /\ WriteStep(page)
                           /\ page.kind = OldPage.kind /\ page.obs = OldPage.obs
  BY CopyValidBlockKept DEF Wrote
<1>3. \A la \in Blocks : PageNow(la)' = IF la = pos THEN page ELSE PageNow(la)
  BY <1>2, WrittenPages
<1>4. /\ pc \in {"scan", "head"}
      /\ OldPage = flash[seg_to_slot_map[reclaimed_segment]][reclaimed_offset]
      /\ Place(pos)[1] = seg_to_slot_map[reclaimed_segment]
  BY <1>1, OldPageFound
<1>5. PageNow(pos) = OldPage
  BY <1>4, Phases DEF PageNow, Ctx
<1>6. \A la \in Blocks : /\ PageNow(la)'.kind = PageNow(la).kind
                         /\ PageNow(la)'.obs = PageNow(la).obs
  BY <1>2, <1>3, <1>5
<1>7. Found = {} /\ Found' = {} /\ pc \notin Errors
  BY <1>1, <1>4 DEF Found, Errors
<1> QED  BY <1>1, <1>6, <1>7, CountsKept DEF CountInv

(* commit() is refused: the counts are those of a file system that stops.  *)
LEMMA CommitRefusedCounted ==
  ASSUME Ctx, CountInv, CommitRefused
  PROVE  CountInv'
<1>1. pc' = "failed" /\ frame' = frame
  BY DEF CommitRefused
<1> QED  BY <1>1 DEF CountInv, Errors

LEMMA FindNextFreePageCounted ==
  ASSUME Ctx, CountInv, FindNextFreePage
  PROVE  CountInv'
<1>1. /\ pc = "committed" /\ pc' = "head" /\ frame'.caller = "find" /\ SlotsKept
      /\ UNCHANGED <<flash, reclaimed_offset, wear, counter, free_counter>>
  BY DEF FindNextFreePage, CallFindNextFreePage, slotVars, positionVars, countVars,
         SlotsKept
<1>2. Found = {} /\ Found' = {} /\ pc \notin Errors
  BY <1>1 DEF Found, Errors
<1>3. \A la \in Blocks : PageNow(la)' = PageNow(la)
  BY <1>1, SeenPages DEF Writing
<1> QED  BY <1>1, <1>2, <1>3, CountsKept DEF CountInv

LEMMA EndSegmentCounted ==
  ASSUME Ctx, CountInv, EndSegment
  PROVE  CountInv'
<1>1. /\ pc = "scan" /\ pc' = "head" /\ SlotsKept
      /\ frame' = [frame EXCEPT !.iterations = frame.iterations - 1]
      /\ UNCHANGED <<flash, reclaimed_offset, wear, counter, free_counter>>
  BY DEF EndSegment, slotVars, positionVars, countVars, SlotsKept
<1>2. frame'.caller = frame.caller
  <2>1. frame \in Frame
    BY DEF Ctx, CallInv, CallOK
  <2> QED  BY <1>1, <2>1 DEF Frame
<1>3. Found = {} /\ Found' = {} /\ pc \notin Errors
  BY <1>1 DEF Found, Errors
<1>4. \A la \in Blocks : PageNow(la)' = PageNow(la)
  BY <1>1, SeenPages DEF Writing
<1> QED  BY <1>1, <1>2, <1>3, <1>4, CountsKept DEF CountInv

LEMMA FlashFullCounted ==
  ASSUME CountInv, pc' = "full", frame' = NoFrame
  PROVE  CountInv'
<1>1. NoFrame.caller # "commit"
  BY DEF NoFrame
<1> QED  BY <1>1 DEF CountInv, Errors

-----------------------------------------------------------------------------
(* moveToNextSegment() and performWearLeveling()                           *)

(* Headers and their checkpoints are not counted.                          *)
LEMMA HeaderWrittenCounted ==
  ASSUME Ctx, CountInv, NEW page \in Page, WriteStep(page),
         pc \in {"header", "headerCp"},
         UNCHANGED <<counter, free_counter>>, frame'.caller = frame.caller
  PROVE  CountInv'
<1>1. reclaimed_offset \notin DataOffsets
  BY SlotSize DEF Ctx, CallInv, Position, DataOffsets
<1>2. \A la \in Blocks : PageNow(la)' = PageNow(la)
  <2>1. \A la \in Blocks : la # <<reclaimed_segment, reclaimed_offset>>
    BY <1>1 DEF Blocks
  <2> QED  BY <2>1, WrittenPages
<1>3. /\ Found = {} /\ Found' = {} /\ pc \notin Errors
      /\ pc' \notin {"ready", "committing"} \cup Errors
  BY DEF Found, Errors, WriteStep, Writing
<1> QED  BY <1>2, <1>3, CountsKept DEF CountInv

LEMMA WriteSegmentHeaderCounted ==
  ASSUME Ctx, CountInv, WriteSegmentHeader
  PROVE  CountInv'
<1>1. pc = "header" /\ UNCHANGED <<counter, free_counter, frame>>
  BY DEF WriteSegmentHeader, countVars
<1>2. PICK page \in Page : WriteStep(page)
  BY WriteSegmentHeaderKept DEF Wrote
<1> QED  BY <1>1, <1>2, HeaderWrittenCounted

LEMMA WriteHeaderCheckpointCounted ==
  ASSUME Ctx, CountInv, WriteHeaderCheckpoint
  PROVE  CountInv'
<1>1. /\ pc = "headerCp" /\ UNCHANGED <<counter, free_counter>>
      /\ \/ frame' = frame
         \/ frame' = [frame EXCEPT !.moved = TRUE, !.cpWritten = TRUE]
  BY DEF WriteHeaderCheckpoint, countVars
<1>2. frame'.caller = frame.caller
  <2>1. frame \in Frame
    BY DEF Ctx, CallInv, CallOK
  <2> QED  BY <1>1, <2>1 DEF Frame
<1>3. PICK page \in Page : WriteStep(page)
  BY WriteHeaderCheckpointKept DEF Wrote
<1> QED  BY <1>1, <1>2, <1>3, HeaderWrittenCounted

(* The steps that move pages without writing any.                          *)
LEMMA CarriedCounted ==
  ASSUME Ctx, CountInv, Carried, nSegments' = nSegments,
         pc \notin Errors \cup {"ready"}, pc' \notin Errors \cup {"ready", "committing"},
         UNCHANGED <<counter, free_counter, frame>>
  PROVE  CountInv'
<1>1. Found = {} /\ Found' = {}
  BY DEF Found
<1>2. \A la \in Blocks : /\ PageNow(la)'.kind = PageNow(la).kind
                         /\ PageNow(la)'.obs = PageNow(la).obs
  BY MovedPages
<1> QED  BY <1>1, <1>2, CountsKept DEF CountInv

LEMMA MoveToNextSegmentCounted ==
  ASSUME Ctx, CountInv, MoveToNextSegment
  PROVE  CountInv'
<1>1. /\ pc = "head" /\ pc' \in {"truncate", "switch"}
      /\ UNCHANGED <<nSegments, counter, free_counter, frame>>
  BY DEF MoveToNextSegment, CallTruncateSlot, slotVars, countVars
<1> QED  BY <1>1, MoveToNextSegmentKept, CarriedCounted DEF Errors

LEMMA TruncateCounted ==
  ASSUME Ctx, CountInv, Truncate
  PROVE  CountInv'
<1>1. /\ pc = "truncate" /\ pc' \in {"truncate", "switch", "swap", "choose"}
      /\ UNCHANGED <<nSegments, counter, free_counter, frame>>
  <2>1. trunc.next \in {"switch", "swap", "choose"}
    BY DEF Ctx, SlotInv, LocalTypes, Trunc
  <2> QED  BY <2>1 DEF Truncate, slotVars, countVars
<1> QED  BY <1>1, TruncateKept, CarriedCounted DEF Errors

LEMMA SwitchToReclamationCounted ==
  ASSUME Ctx, CountInv, SwitchToReclamation, SlotInv'
  PROVE  CountInv'
<1>1. /\ pc = "switch" /\ pc' = "toss"
      /\ UNCHANGED <<nSegments, counter, free_counter, frame>>
  BY DEF SwitchToReclamation, countVars
<1> QED  BY <1>1, SwitchToReclamationKept, CarriedCounted DEF Errors

(* A segment that gets its slot gets a fresh one.                          *)
LEMMA AllocateSegmentCounted ==
  ASSUME Ctx, CountInv, AllocateSegment
  PROVE  CountInv'
<1> USE DEF Ctx
<1>1. /\ pc = "switch" /\ pc' = "header"
      /\ new_slot_id' = new_slot_id + 1 /\ nSegments' = nSegments + 1
      /\ reclaimed_segment' = reclaimed_segment + 1
      /\ seg_to_slot_map' = [seg_to_slot_map EXCEPT
                               ![reclaimed_segment + 1] = reclaimed_segment + 1]
      /\ UNCHANGED <<flash, counter, free_counter, frame>>
      /\ nSegments # SEQ_SEGMENTS_COUNT
  BY DEF AllocateSegment, countVars, ALL_SEGMENTS_ALLOCATED
<1>2. /\ Filling /\ nSegments \in Nat /\ nSegments <= SEQ_SEGMENTS_COUNT
      /\ reclaimed_segment = nSegments - 1 /\ new_slot_id = nSegments - 1
  BY <1>1, Phases, GeometryAssumption
     DEF SlotInv, SlotTypes, Filling, Reclaiming, GeometryAssumption, SEQ_SEGMENTS_COUNT
<1>3. AllocatedSegments' = AllocatedSegments \cup {nSegments}
      /\ nSegments \notin AllocatedSegments
  BY <1>1, <1>2 DEF AllocatedSegments
<1>4. PagesFollow
  BY <1>1, AllocateSegmentKept DEF Carried
<1>5. ASSUME NEW la \in Blocks, la[1] = nSegments
      PROVE  PageNow(la)' = ErasedPage
  <2>1. seg_to_slot_map'[nSegments] = nSegments
    <3>1. nSegments \in Slots /\ DOMAIN seg_to_slot_map = Slots
      BY <1>1, <1>2, GeometryAssumption
         DEF Slots, GeometryAssumption, SEQ_SEGMENTS_COUNT, SlotInv, SlotTypes
    <3> QED  BY <1>1, <1>2, <3>1
  <2>2. Place(la)'[1] = nSegments
    <3>1. pc' \notin Writing /\ ~ Ending' /\ ~ SwapPending'
      BY <1>1 DEF Writing, Ending, SwapPending
    <3> QED  BY <1>5, <2>1, <3>1 DEF Place, SlotOf
  <2>3. flash[nSegments][la[2]] = ErasedPage
    <3>1. nSegments \in nSegments .. SEQ_SEGMENTS_COUNT
      BY <1>2, GeometryAssumption DEF GeometryAssumption, SEQ_SEGMENTS_COUNT
    <3>2. la[2] \in Offsets /\ la[2] >= 0
      BY SlotSize DEF Blocks, DataOffsets, Offsets
    <3> QED  BY <1>2, <3>1, <3>2 DEF DataInv, FlashInv, ErasedAhead, Erased
  <2> QED  BY <1>1, <1>3, <1>5, <2>2, <2>3 DEF PageNow
<1>6. ASSUME NEW la \in Blocks
      PROVE  /\ PageNow(la)'.kind = PageNow(la).kind
             /\ PageNow(la)'.obs = PageNow(la).obs
  <2>1. CASE la[1] \in AllocatedSegments
    <3>1. la \in AllocatedSegments \X DataOffsets
      BY <2>1 DEF Blocks
    <3> QED  BY <1>3, <1>4, <2>1, <3>1 DEF PagesFollow, SameBlock, PageNow
  <2>2. CASE la[1] = nSegments
    <3>1. PageNow(la)' = ErasedPage
      BY <1>5, <2>2
    <3> QED  BY <1>3, <2>2, <3>1 DEF PageNow
  <2>3. CASE la[1] \notin AllocatedSegments \cup {nSegments}
    BY <1>3, <2>3 DEF PageNow
  <2> QED  BY <2>1, <2>2, <2>3
<1>7. Found = {} /\ Found' = {} /\ pc \notin Errors
  BY <1>1 DEF Found, Errors
<1> QED  BY <1>1, <1>6, <1>7, CountsKept DEF CountInv

LEMMA FindSegmentToReclaimCounted ==
  ASSUME Ctx, CountInv, FindSegmentToReclaim, SlotInv'
  PROVE  CountInv'
<1>1. CASE pc' = "full"
  BY <1>1, FlashFullCounted DEF FindSegmentToReclaim
<1>2. CASE pc' # "full"
  <2>1. /\ pc = "choose" /\ pc' = "header"
        /\ UNCHANGED <<nSegments, counter, free_counter, frame>>
    BY <1>2 DEF FindSegmentToReclaim, slotVars, countVars
  <2> QED  BY <2>1, FindSegmentToReclaimKept, CarriedCounted DEF Errors
<1> QED  BY <1>1, <1>2

LEMMA WearStepCounted ==
  ASSUME Ctx, CountInv, WearStep, SlotInv'
  PROVE  CountInv'
<1>1. /\ pc \in {"toss", "wear", "swap"}
      /\ pc' \in {"choose", "wear", "truncate"}
      /\ UNCHANGED <<nSegments, counter, free_counter, frame>>
  BY NeverOutOfReserves
     DEF WearStep, SkipWearLeveling, StartWearLeveling, Wearing, WearCopyInEu,
         WearSkipUnused, WearCopyReserveEu, WearCopyDataEu, WearCopied, SwapSlots,
         CallTruncateSlot, WearUnchanged, slotVars, countVars
<1>2. Carried
  BY SkipWearLevelingKept, StartWearLevelingKept, WearCopyInEuKept,
     NeverOutOfReserves, WearSkipUnusedKept, WearCopyReserveEuKept,
     WearCopyDataEuKept, WearCopiedKept, SwapSlotsKept DEF WearStep
<1> QED  BY <1>1, <1>2, CarriedCounted DEF Errors

-----------------------------------------------------------------------------
(* The invariant is inductive.                                             *)

LEMMA InitCountInv ==
  ASSUME Plain, Init
  PROVE  CountInv
<1>1. FullInv
  BY FullInvIsInductive
<1>2. /\ pc = "ready" /\ frame = NoFrame /\ nSegments = 1
      /\ reclaimed_segment = 0 /\ new_slot_id = 0 /\ seg_to_slot_map[0] = 0
      /\ counter = 0
      /\ free_counter = SEQ_SEGMENTS_COUNT * (PagesPerSlot - HeaderPages)
      /\ \A s \in Slots, o \in Offsets : flash[s][o] = FormattedPage(s, o)
  <2>1. 0 \in Slots
    BY GeometryAssumption DEF Slots, GeometryAssumption
  <2> QED  BY <2>1 DEF Init
<1>3. AllocatedSegments = {0} /\ ~ Reclaiming
  <2>1. AllocatedSegments = {0}
    BY <1>2 DEF AllocatedSegments
  <2> QED  BY <1>2, <2>1 DEF Reclaiming, MappedSegments
<1>4. \A la \in Blocks : PageNow(la) = ErasedPage
  <2> SUFFICES ASSUME NEW la \in Blocks, la[1] = 0
               PROVE  flash[Place(la)[1]][la[2]] = ErasedPage
    BY <1>3 DEF PageNow
  <2>1. Place(la)[1] = 0
    BY <1>2, <1>3 DEF Place, SlotOf, Ending, SwapPending
  <2>2. 0 \in Slots /\ la[2] \in Offsets /\ la[2] >= HeaderPages
    BY SlotSize, GeometryAssumption
       DEF Slots, GeometryAssumption, Blocks, DataOffsets, Offsets
  <2> QED  BY <1>2, <2>1, <2>2, FormattedFlash
<1>5. Found = {}
  BY <1>3 DEF Found
<1>6. ~ ErasedPage.obs /\ ErasedPage.kind # "data"
  BY DEF ErasedPage
<1>7. ObsoletePages = {} /\ FreePages = Blocks
  BY <1>4, <1>5, <1>6 DEF ObsoletePages, FreePages
<1>8. NoFrame.caller # "commit"
  BY DEF NoFrame
<1> QED  BY <1>2, <1>7, <1>8, BlocksFinite, FS_EmptySet DEF CountInv

LEMMA NextCounted ==
  ASSUME OnePage, Ctx, SlotInv', CountInv, [Next]_vars
  PROVE  CountInv'
<1>1. CASE ClientStep
  BY <1>1, AllocAndWriteBlockCounted, CommitPageCounted, CommitRefusedCounted,
     FindNextFreePageCounted, MarkAsObsoleteCounted DEF ClientStep
<1>2. CASE FindStep
  BY <1>2, FlashFullCounted, NeverOutOfReserves, FoundFreshPageCounted,
     FoundReclaimedPageCounted, CopyValidBlockCounted, EndSegmentCounted
     DEF FindStep, IterationsExhausted
<1>3. CASE MoveStep
  BY <1>3, MoveToNextSegmentCounted, TruncateCounted, SwitchToReclamationCounted,
     AllocateSegmentCounted, FindSegmentToReclaimCounted, NeverOutOfReserves,
     WriteSegmentHeaderCounted, WriteHeaderCheckpointCounted DEF MoveStep
<1>4. CASE WearStep
  BY <1>4, WearStepCounted
<1>5. CASE UNCHANGED vars
  <2>1. /\ SlotsKept
        /\ UNCHANGED <<flash, reclaimed_offset, pc, frame, trunc, wear, counter, free_counter>>
    BY <1>5 DEF vars, slotVars, positionVars, countVars, SlotsKept
  <2>2. \A la \in Blocks : PageNow(la)' = PageNow(la)
    <3>1. \A la : Place(la)' = Place(la)
      BY <2>1, PhaseKept DEF Place, SlotOf, SlotsKept, Ending, SwapPending
    <3> QED  BY <2>1, <3>1, PhaseKept DEF PageNow
  <2>3. Found' = Found
    BY <2>1, PhaseKept DEF Found, SlotsKept
  <2>4. ObsoletePages' = ObsoletePages /\ FreePages' = FreePages
    BY <2>2, <2>3 DEF ObsoletePages, FreePages, Blocks
  <2> QED  BY <2>1, <2>4 DEF CountInv
<1> QED  BY <1>1, <1>2, <1>3, <1>4, <1>5 DEF Next

(* The pages the counts speak of are the ones readBlock() finds.           *)
LEMMA CountedPages ==
  ASSUME Ctx, CountInv
  PROVE  CountersExact
<1> USE DEF Ctx
<1> SUFFICES ASSUME pc = "ready"
             PROVE  /\ counter = Cardinality({la \in Counted : PageOf(la).obs})
                    /\ free_counter = Cardinality({la \in Counted :
                          ~ PageOf(la).obs /\ PageOf(la).kind # "data"})
  BY DEF CountersExact
<1>1. IS_STATE_RECLAMATION <=> Reclaiming
  BY Phases
<1>2. Counted = Blocks \ Found
  BY <1>1 DEF Counted, Taken, Blocks, Found
<1>3. ASSUME NEW la \in Blocks
      PROVE  PageOf(la) = PageNow(la)
  <2>1. CASE la[1] \notin AllocatedSegments
    BY <2>1 DEF PageOf, PageNow
  <2>2. CASE la[1] \in AllocatedSegments
    <3> DEFINE slot == IF /\ IS_STATE_RECLAMATION
                          /\ la[1] = reclaimed_segment
                          /\ la[2] < reclaimed_offset
                       THEN new_slot_id ELSE seg_to_slot_map[la[1]]
    <3>1. Place(la)[1] = slot
      BY <1>1 DEF Place, SlotOf, Writing, Ending, SwapPending
    <3>2. slot \in Slots /\ la[2] \in Offsets
      BY <2>2, Phases, SlotSize DEF MappedSegments, Blocks, DataOffsets, Offsets
    <3>3. logicalAddressToPhysical(la) = StoredAt(CALC_ADDRESS(slot, la[2]))
      BY DEF logicalAddressToPhysical
    <3> HIDE DEF slot
    <3>4. logicalAddressToPhysical(la) = <<slot, la[2]>>
      BY <3>2, <3>3, AddressInSlot, AllEusValid
    <3>5. <<slot, la[2]>> # SEQ_PHY_ADDRESS_EMPTY
      BY <3>2, GeometryAssumption
         DEF SEQ_PHY_ADDRESS_EMPTY, Slots, GeometryAssumption
    <3> QED  BY <2>2, <3>1, <3>4, <3>5 DEF PageOf, PageNow
  <2> QED  BY <2>1, <2>2
<1>4. /\ {la \in Counted : PageOf(la).obs} = ObsoletePages
      /\ {la \in Counted : ~ PageOf(la).obs /\ PageOf(la).kind # "data"} = FreePages
  BY <1>2, <1>3 DEF ObsoletePages, FreePages
<1> QED  BY <1>4 DEF CountInv, Errors

-----------------------------------------------------------------------------
(***************************************************************************)
(* With checkpoints of one page, the counts handleMinPages() compares with *)
(* FS_MIN_FREE_PAGES are exact whenever the file system may write: counter *)
(* is the number of obsolete pages and free_counter that of fresh and      *)
(* checkpoint pages, through copies, reclamation and wear leveling.        *)
(***************************************************************************)
THEOREM CountsAreExact == ASSUME Plain, OnePage PROVE Spec => []CountersExact
<1>1. Init => FullInv /\ CountInv
  BY FullInvIsInductive, InitCountInv
<1>2. FullInv /\ CountInv /\ [Next]_vars => FullInv' /\ CountInv'
  <2>1. FullInv /\ [Next]_vars => FullInv'
    BY FullInvIsInductive
  <2> QED  BY <2>1, NextCounted DEF FullInv, Ctx
<1>3. FullInv /\ CountInv => CountersExact
  BY CountedPages DEF FullInv, Ctx
<1> QED  BY <1>1, <1>2, <1>3, PTL DEF Spec
=============================================================================

# NANDFS: models, checks and proofs

NANDFS is a transactional file system for raw NAND flash on small ARM boards.
This directory holds TLA+ models of its layers - the sequencing layer, its
recovery at boot, transactions, file contents, open files - the TLC
configurations that check them and the proofs that TLAPS checks.

## 1. The system

### Components

| Part | Source | State | Operations |
|---|---|---|---|
| NAND driver (simulated) | `SIM/peripherals/nand.c` | pages, obsolete bytes, bad marks | program page, program spare byte, erase EU, read, check EU |
| Sequencing layer, run time | `NANDFS/src/sequencing/sequencing.c`, `sequencingUtils.c` | `segment_map`, obsolete counters | `allocAndWriteBlock`, `commit`, `markAsObsolete`, `readBlock`, `findNextFreePage`, `moveToNextSegment`, `performWearLeveling`, `truncateSlot`, `allocReserveEU` |
| Sequencing layer, booting | same files, from line 1988 of `sequencingUtils.c` | rebuilds `segment_map` | `sequencingBooting`, `handleReserveSegments`, `handleRegularSegments`, `handleInvalidPrograms`, `findCheckpointAndTruncate` |
| Random generators | `lfsr.c` | `lfsr_state` | `gen_rand_bit`, `get_random_num` |
| Transactions | `NANDFS/src/fs/transactions.c` | two transactions, each with a list of written blocks and blocks to obsolete (VOTs) | open, `allocAndWriteBlockTid`, `commitTransaction`, `abortTransaction`, replay after boot |
| Page cache | `cache.c` | LRU queue, dirty pages (size 0 in this build) | lookup, insert, flush |
| Inodes, pointer pages, directories | `fsUtils.c` | inode 0, inodes, pointer pages on flash | block lookup, write, truncate, `namei` |
| File system interface | `fs.c` | 8 open files, 6 vnodes, 2 directory streams, one mutex | `open`, `read`, `write`, `unlink`, `dup`, `scandir`, ... |
| ARM drivers, utilities, ECC | `ARM/`, `SIM/utils/` | hardware | not part of the models |

### How the parts interact

The file system interface takes one mutex and runs a transaction. The
transaction writes blocks with `allocAndWriteBlock()`, each block at the next
logical address (segment, offset), and at the end a checkpoint with `commit()`.
Afterwards it marks the blocks it replaced with `markAsObsolete()` and calls
`findNextFreePage()`. The sequencing layer calls back into the file system only
for the contents of checkpoints (`fsCheckpointWriter()`, from
`writeSegmentHeader()`).

A segment is a logical unit, a slot a physical one. `seg_to_slot_map` maps the
data segments, then the entry `SEQ_NEW_SEGMENT`, then the reserve segments to
slots. One slot is always empty. While segments are being allocated, segment
*n* is filled in slot *n*. Once all have a slot, a segment with obsolete pages
is *reclaimed*: the pages in use are copied to the empty slot at the same
offsets, the others are handed out for new blocks, and when the end is reached
the old slot is erased and becomes the empty one. With some probability the
empty slot is first exchanged with a random one (wear leveling). A bad EU is
replaced by an EU of a reserve slot; the tag in its spare area says which EU it
stands for. One reserve EU is kept for copying back at boot.

### What is hard

- Which slot holds a page depends on the position of the copy; marks and reads
  come between any two copies.
- Slots trade places over several assignments, with erases and copies between.
- A page can be programmed only once per erase, so that every write relies on an
  erase made many calls before; every state between two flash operations is one
  a power failure can expose.
- Two page counts and two kinds of levels are maintained at different places and
  decide when writes are refused and what is reclaimed.
- Errors (flash full, no reserve EU) are returned from the middle of these
  changes, and the file system calls again, because it aborts the transaction.
- Booting must recognise every interrupted step.

`PROJECT.json` lists these as hazards, each at its line.

### What makes each component correct

- Sequencing: live blocks stay readable; no slot is shared; no page is
  programmed twice; page counts are exact; segments with obsolete pages are
  found; headers identify segments and their order; reserve EUs are used once
  and freed; every call returns.
- Booting: after a power failure between any two flash operations the last
  complete checkpoint is found, its blocks are readable, the map is sound, and
  pages written since can be written again.
- Transactions: a commit is atomic, also over a power failure; an aborted
  transaction leaves nothing; no page is lost to both the tree and the free pages.
- File contents: reads return what was written, across the data in the inode,
  pointer pages and the end of the file.
- Open files: tables count their references, writers exclude each other, no file
  disappears under a descriptor, uncommitted data has a descriptor.

## 2. The modules

| Module | Contents |
|---|---|
| `NandGeometry` | constants and geometry of `sequencing.h`, page contents, the operations of the driver |
| `Sequencing` | the sequencing layer at run time: `segment_map`, counters, one action per step that touches the flash |
| `SequencingProperties` | what is checked of it |
| `MCSequencing` | sets of bad EUs for the instances |
| `SeqBoot` | `Sequencing` composed with power failures and `sequencingBooting()` |
| `MCSeqBoot` | its instances |
| `AtomicCommit` | abstract specification: durable contents of files change only by whole commits |
| `Transactions` | the protocol on pages that implements it |
| `MCTransactions` | trees of pointer pages for the instances |
| `OpenFiles` | the calls of `fs.c` on open file entries, vnodes, directory streams and the mutex |
| `MCOpenFiles` | flags and symmetry for its instances |
| `FileIO` | the bytes of one file through `write()`, `read()`, `lseek()` and the pointer page in memory |
| `SequencingProofs` | proof that slots are partitioned, and that `is_flash_full()` is never true |
| `PositionProofs` | proof of the types of the fields and that the position stays inside its slot |
| `DataProofs` | proof of what the pages of every slot hold in every phase: blocks stay readable, the medium is respected |
| `CounterProofs` | proof that the page counts are exact |
| `FileIOProofs` | proofs of `FileIO`: bytes read are bytes written |
| `OpenFilesProofs` | proofs of `OpenFiles`: the tables are consistent |
| `TransactionsInvariant` | the invariant of `Transactions`, and proofs that the steps of a transaction up to its commit keep it |
| `TransactionsProofs` | proofs that aborts, checkpoints, commits, power failures, boots and calls keep it, and that commits are atomic |

The layers are composed by contract. `SeqBoot` extends `Sequencing` and runs its
actions. `Transactions` uses what the sequencing layer promises: a write goes to
an address without a valid page, a header with a checkpoint may be written
whenever a page is looked for, and a power failure takes the flash back to the
last checkpoint, with marks made since kept or lost. `SeqBoot` is checked for
these promises (`LastCheckpointFound`, `RecoveredReadable`). `OpenFiles` uses
what `Transactions` shows: a transaction is committed, aborted, or aborted by a
call that needs its pages, as a whole.

### State and code: `Sequencing`

The variables of `Sequencing` are the fields of `segment_map`
(`reclaimed_logical_addr` as `reclaimed_segment` and `reclaimed_offset`) and of
`obs_pages_per_seg_counters`, under their names, and the flash. `pc`, `frame`,
`trunc` and `wear` hold the control point and the locals of the running call.
`live` is a ghost variable: the blocks written and not marked obsolete.

A page keeps what the code reads back: its kind, segment and sequence number of
a header, place in a checkpoint, tag of the EU it stands for, obsolete byte. The
payload of a data page is the logical address it was written for; a page keeps
that address for its whole life, so that two live blocks always differ.

A call of the file system is a sequence of steps. `AllocAndWriteBlock`,
`CommitPage`, `MarkAsObsolete` and `FindNextFreePage` start it, at control
points where the file system runs. Then:

| `pc` | Code | Actions |
|---|---|---|
| `head`, `scan` | the two loops of `findNextFreePage()` | `IterationsExhausted`, `NoReserveEu`, `FoundFreshPage`, `FoundReclaimedPage`, `CopyValidBlock`, `EndSegment`, `MoveToNextSegment` |
| `truncate` | `truncateSlot()`, an EU per step | `Truncate` |
| `switch`, `toss`, `choose` | `moveToNextSegment()` | `SwitchToReclamation`, `AllocateSegment`, `SkipWearLeveling`, `StartWearLeveling`, `FindSegmentToReclaim` |
| `header`, `headerCp` | `writeSegmentHeader()` and its `commit()` | `NoReserveForHeader`, `WriteSegmentHeader`, `WriteHeaderCheckpoint` |
| `wear`, `swap` | `performWearLeveling()`, a page per step | `WearCopyInEu`, `WearSkipBadReserve`, `WearSkipUnused`, `WearCopyReserveEu`, `WearCopyDataEu`, `WearGiveUp`, `WearCopied`, `SwapSlots` |
| `ready`, `committed`, `full`, `noreserve`, `failed` | control is in the file system | the client's actions |

Abstractions:

- The generators are nondeterministic: `ObsTosses` and `RandomSlots` are what
  they may yield; whether wear leveling happens is a free choice.
- The cache of known valid EUs does not change the answer of
  `seq_check_eu_status()`, because a bad mark never disappears; it is left out.
- The threshold of `handleMinPages()` is the constant `MinFreePages`. 0 means
  that every write is permitted, as it is for a transaction that unlinks.
- `CallAfter` says after which errors the file system calls again. The code does
  so after every one, since it aborts the transaction; with `CallAfter = {}`
  the file system stops at the first error.
- Programs and erases succeed. Bad EUs are the manufacturer's.
- `logicalAddressToReservePhysical()` also asks that the EU is no copy made by a
  copy back; only a boot makes those and erases them again, so that no EU of the
  running system is one, and the flag is left out of its pages.
- Slot 0 starts with two valid EUs: `handleFlashIsEmpty()` returns without
  `findNextFreePage()`, and the position after a format is in the first EU or
  at the start of the second.

### State and code: `SeqBoot`

`PowerFailure` keeps `flash` and gives every other variable the value it has
after `init_seg_map()` and `init_obs_counters()`. `boot` holds the locals of
`sequencingBooting()`, `cback` those of `copyBackSimple()`. `committed` is a
ghost: the last complete checkpoint, its contents and its place. The boot reads
the counters of the checkpoint it found from there, which `LastCheckpointFound`
justifies.

| `pc` | Code | Actions |
|---|---|---|
| `bootReserve`, `bootReserveHeader` | `handleReserveSegments()`, `handleReservesAreEmpty()` | `BootReserveSlot`, `BootReservesDone`, `BootReserveHeader` |
| `bootCopyBack`, `copyBack` | `handleCopyBack()`, `copyBackSimple()`, a page per step | `HandleCopyBack`, `CopyBackStep` |
| `bootData` | `handleRegularSegments()`, `markSegmentInSegMap()` | `BootUnusedSlot`, `MarkSegment`, `MarkSecondSlot`, `SegmentsMarked` |
| `format`, `formatCp` | `handleFlashIsEmpty()` | `FormatHeader`, `FormatCheckpoint` |
| `bootInvalid` | `handleInvalidPrograms()` | `HandleInvalidPrograms` |
| `bootFind`, `bootErase`, `bootRead` | `findCheckpointAndTruncate()` | `FindCheckpoint`, `EraseAfterCheckpoint`, `ClearAfterCheckpoint`, `ReadCheckpoint` |
| `bootFailed` | an error of the boot | none |

The power fails between two flash operations: a program or an erase is done or
not. The binary searches of `findLastValidPageInEU()` and
`findLastValidPageInSlot()` are translated with their halvings, and so are the
exchanged arguments of `SET_SEG_MAP_SLOT_FOR_SEG()`.

### State and code: `Transactions` and `AtomicCommit`

`tr` is `transactions[]`, `fs` the `filesystem_t` that a checkpoint saves
(address of inode0, last closed transaction, last address of every open one),
`fs_buffer` the shared buffer. One call runs at a time; `todo` lists what it has
still to do, as the calls nested in `commitTransaction()`, `commitInode()`,
`abortTransaction()`, `handleTransactionVOTs()` do it, and `call` holds its
locals. Each write to the flash is a step, after which a header may be written
(`FindNextFreePage`), which saves a checkpoint (`saved`). Each mark is a step.

A file is the tree of its inode, its pointer pages (`Nodes`) and one block under
each (`Blocks`). Files with direct blocks only have the inode; the largest tree
has indirect, double and triple indirect pages.

`CommitsAreAtomic` is the refinement: with `durable <- Durable`, what a boot
would recover from the last checkpoint with the marks made since, every
behaviour of `Transactions` is one of `AtomicCommit`. The ghost `intent` keeps
what the open transactions have written. It becomes durable with the first
checkpoint of `commitTransaction()`, the linearisation point of the protocol.

Left out: the data kept in inodes (`FileIO`), sparse flags, the first block that
`mkdir()` writes, inode numbers (a file is its name).

### State and code: `OpenFiles` and `FileIO`

The variables of `OpenFiles` are the tables of `fs.h` under their names, the
mutex, and, from the layers below, the inode number of every name, the sizes and
the transactions. A call is one step because it holds the mutex; `open()` that
creates a file releases the mutex in the middle (`creating`), and `sync()` is
one step per open entry. Failures of writes and commits below are nondeterministic,
and so are the transactions that a call aborts for lack of pages.

A directory stream names its entry by descriptor, as in the code, and no code
tells it when the entry is given up: `close()` and `dup2()` take any descriptor
of the user, also the one that `dirfd()` returned. So `verifyDirstream` compares
the user of whatever entry the descriptor names by now, and `Closedir` releases
that entry, without a commit. Two fields of a stream are history, which the code
does not have and no guard reads: `opener`, who called `opendir()`, and `fresh`,
whether its inode address is current. Both are kept as long as the entry is the
one that call made; `EntryGone` resets them.

`FileIO` has one descriptor and one file. `disk` is the file as committed, `tr`
its transaction: `fileOffset`, `maxWrittenOffset`, the file below the last inode
written (`ino`) and with the pointer page in memory (`buf`). `write()` is a step
per block. A byte is named by the call that wrote it and its place there, so
that no two bytes are equal by accident.

A definition whose comment starts with `Fault:` is a plausible mistake in the
definition after it. It is not used by the specification; `PROJECT.json` names,
for each property of each run, the fault with which TLC finds it violated.

## 3. The runs

Passing runs:

| Run | Instance | Shows |
|---|---|---|
| `reclamation` | 6 slots, 2 reserve, both outcomes of the toss | `LiveReadable`, `CountersExact`, `HeadersNameSegments`, `ObsoleteSegmentsKnown`, `NandDiscipline`, `TypeOK` without wear leveling and bad EUs |
| `wear_leveling` | 4 slots, wear leveling of a data slot and of the reserve slot | `SlotPartition`, `LiveReadable`, `NandDiscipline` with wear leveling |
| `bad_eus` | 3 EUs per slot, one bad data EU | a replaced EU is found, used once and freed (`ReserveEusAccounted`), also by wear leveling |
| `bad_reserve` | a bad EU in the reserve slot and a bad first EU, calls after `ERROR_NO_RESERVE_EU` | the error loses nothing; wear leveling of the reserve slot keeps `SlotPartition` and `CopybackEuEmpty` |
| `multi_page` | checkpoints of two pages, `FairSpec` | `PositionInSlot` and `LiveReadable` when a segment ends inside `commit()`; `CallsReturn`: every call ends |
| `boot` | 2 EUs of 3 pages per slot, two power failures | `LastCheckpointFound`, `RecoveredReadable`, `RecoveredMap`, `BootNandDiscipline`, also when the boot is interrupted |
| `transactions` | 2 transactions, 2 files, 14 pages, 2 VOTs per page, 1 + 1 power failures | `CommitsAreAtomic`, `ReadsBack`, `NoPageLeaks`, `TypeOK` with aborts for lack of pages |
| `pointer_pages` | 1 file with every kind of pointer page, 3 VOTs per page | the same for `commitInode()` at every depth, and for votes of whole files |
| `open_files` | 2 users, 2 files, 2 streams, 2 entries, 2 vnodes, 2 transactions | `VnodesCounted`, `OpenFilesExist`, `WritersExclusive`, `UncommittedKeepsWriter`, `StreamsFresh`, `TypeOK`, also when descriptors of streams are closed, reused and closed again by `closedir()` |
| `file_io` | blocks of 2 bytes, 2 bytes in the inode, 1 direct and 2 blocks per indirect page | `FileAsWritten`, `ReadExact`, `CommittedKept` |

Violation runs, each one disagreement between the code and a statement in it:

| Run | Property | What happens |
|---|---|---|
| `boot_generations` | `RecoveredReadable` | the power fails when a segment under reclamation has filled an EU exactly: `handleInvalidPrograms()` erases the next EU of the old generation, whose pages are not copied |
| `commit_header` | `CommittedReadable` | a header after the last VOTs of `fsync()` saves the new inode0 with the transaction still open; the boot after a power failure obsoletes its pages |

`LiveReadable` says nothing in the states where a swap of slots is pending (the
map is updated after the erase, and no read can happen inside the call) and
after `ERROR_FLASH_FULL`.

### Where the code is known to differ

Met while the models were written, and without a run of their own:

- `moveToNextSegment()` has exchanged the slots when `findSegmentToReclaim()`
  finds nothing, and returns `ERROR_FLASH_FULL` with the position at the end of
  the last segment: its blocks are read from the erased slot
  (`sequencingUtils.c:1782`).
- That error is returned while old checkpoint pages, which could be reclaimed
  and are counted as free, exist: they raise no level (`sequencingUtils.c:1434`).
- After it the aborted transaction writes a checkpoint past the end of the slot
  (`transactions.c:259`); `is_flash_full()` would stop it, but is never true.
- If the last EU of a segment was replaced and the first of the next slot is
  valid, the header is programmed into the reserve EU (`sequencingUtils.c:1805`).
- Wear leveling of a reserve slot with a used EU after an unused one packs the
  used EU into the copy-back EU (`sequencingUtils.c:1281`).
- After a commit of several pages that ended early, the page found next is taken
  off its counter twice (`sequencingUtils.c:1068`).
- `getLastValidEuPage()` looks at the first page of the EU only, so that a
  copy-back EU saved in part counts as complete (`sequencingUtils.c:2284`).
- `handleInvalidPrograms()` fails when its truncation succeeds
  (`sequencingUtils.c:3177`).
- `closedir()` of a stream whose descriptor was closed and is a writer's by now
  empties that entry without a commit (`fsUtils.c:1875`): the transaction stays
  open with no descriptor to commit it through, also when the file is removed
  and its inode number is given to another one. `UncommittedKeepsWriter` says
  that this is the only way.
- `verifyDirstream()` means to "verify user is the one that opened the
  dirstream" (`fsUtils.c:2011`), but compares the user of the entry that the
  stream's descriptor names by now. When another user's file has got that entry,
  `readdir()` and `closedir()` succeed for that user and fail for the opener.
- A stream left open over `unmount()` makes `init_dirstream()` take vnode -1 of an
  entry that was emptied before (`fsUtils.c:133`, 1878).
- `FS_VERIFY()` and `WRITE_VERIFY()` return with the mutex held (`fs.c:64`, 341,
  369, 373).
- `readFileBlock()` looks at transaction `tid` where it means `i`
  (`fsUtils.c:871`), `scandir()` sorts only an empty list (`fs.c:1123`), `sync()`
  stops at the first entry of another user (`fs.c:765`), `dup2()` onto itself
  copies a released vnode (`fsUtils.c:2105`).

The models contain each of these that lies in a modelled operation, as the code
has it, except `dup2()` onto itself and `init_dirstream()` at a boot, which touch
memory outside the tables; the instances say which of them can occur
(`CallAfter`, `BadEus`, `FailReclaiming`, `FailHalfSaved`, `FailLastVots`).

### Bounds

Sequencing layer. `MaxSequence` bounds the number of segment headers, hence of
segments written: the file system starts no call once `sequence_num` has reached
it; running calls go on. With one reserve slot and two data segments (4 slots),
sequence 2 is the second allocated segment, 3 the first reclamation and 4 the
second one, which reclaims a segment while the other one was written in
reclamation. Six slots need 7 for the same. Slots have two EUs of two pages
where EUs do not matter: a header, its checkpoint and two more pages, so that an
EU boundary, a copied page and a reclaimed page all occur. They have three EUs
where a reserve slot must offer an EU beside its header and the copy-back EU. In
`bad_eus` and `boot` the threshold `MinFreePages` keeps the number of states
down: it refuses writes, never a commit or a mark, so that reclamation starts
with fewer live blocks. No symmetry is used, since slots and segments are
ordered in the code.

Booting. `MaxFailures = 2` lets the power fail again while the first failure is
recovered. EUs have three pages so that a copy back moves more than one.
`MaxSequence = 3` ends in the first reclaimed segment. While segments are
allocated the power fails anywhere; in reclamation only at the positions
`FailReclaiming = {2, 4}`, inside each EU: at 3, the start of an EU, the code
loses blocks (`boot_generations`), at 5 and 6 it meets the truncation that is
taken for a failure. `FailHalfSaved = FALSE` keeps it from failing while an EU is
half saved, for the same reason. Bad EUs and wear leveling are excluded by
`BootAssumption` and the run.

Transactions. Two transactions and two files are enough for one to abort the
other, for both to be open at a failure, and for a name to be created again
after it was unlinked; three calls to create, write and commit, or write twice
and abort. Two VOTs per page make the buffer overflow inside every commit.
14 pages with a threshold of 3 are reached by one commit beside another open
transaction. `MaxFailures = 1`, and one further failure during the boot; at most
one mark on a page is lost by a failure, since pages are marked one after the
other. `FailLastVots = {}` excludes what `commit_header` shows, and the same
error for lack of pages, which is returned without an abort. In `pointer_pages`
pages are never scarce, so that `handleMinPages()` does not overwrite `fs_buffer`
during `commitInode()`; six calls reach a second write below every kind of
pointer page and the unlink of the whole file. `NoPageLeaks` is stated for
behaviours without a power failure: a header written between a page and
`TRANSACTION_SET_PREV_ADDR()` saves a checkpoint that holds the page but not its
address, and a failure then leaks it.

Open files. Two streams are needed for one to get the entry the other lost, two
files for a call on one to abort the transaction of the other, and two entries
for any two descriptors to conflict, to share a vnode or to be duplicated onto
each other. A third entry would make a run many times as long. So the table of
vnodes is not full before that of the entries is, and no vnode has more than two
references; the theorems of section 4 hold for all sizes. The files have at most
one block, since only the boundaries of the size matter here; bytes are the
subject of `file_io`. Users and files are symmetric sets, as no action orders
them. Names have a fixed type and all live in the root directory, and the run
has no other directory (`Dirs = {}`); so unlinking a directory with entries does
not occur. No user has the id `UID_EMPTY`. `dup2()` with equal
descriptors and `opendir()` over a full table of entries are left out,
`unmount()` happens when no `sync()` runs, and a commit that fails always aborts
the transaction.

File contents. Twelve bytes reach the second indirect page past the inode, a
direct block and one indirect page; the counts 1, 2, 3, 5 and 7 start and end in
every place of a block and cross one or more pages. Three writes overwrite data
in two pages and come back. Double and triple pages only decide where an
indirect page is found, `MaxFileSize` stays below `FS_MAX_FILESIZE`, and the
refusal of `getTidByFileId()` with no free transaction is in `OpenFiles`. Here
`CHECK_DEADLOCK` is on: a power failure is always possible.

`CHECK_DEADLOCK FALSE` elsewhere: the file system may stop calling, it does so
at the bounds and, with `CallAfter = {}`, after an error; in `open_files` the
mutex may stay held.

### Fairness

`FairSpec` adds weak fairness of `Running`, the steps of a call that was started.
The sequencing layer runs in the thread that holds the mutex of the file system
and waits for nothing, so a call that can go on does. Nothing is assumed of the
file system: it may never call again. No other run assumes fairness. The calls
of `OpenFiles` have no liveness to state: a mutex that stays held blocks them
for ever.

## 4. The proofs

TLAPS proves, for every geometry that satisfies `GeometryAssumption` and
`SequencingAssumption`, every set of bad EUs and every outcome of the generators:

- `SlotsArePartitioned`: `Spec => []SlotPartition`. The property is not
  inductive. The invariant `SlotInv` adds the phase: in `Filling` segment *n* is in
  slot *n* and the last one is current; in `Reclaiming` every slot but the new
  one belongs to a segment. `NewSegmentEntry` says that the entry of
  `SEQ_NEW_SEGMENT`, which only wear leveling writes and which is out of date
  afterwards, never names the slot of a reserve segment: it comes before those in
  the search of `performWearLeveling()` and would be taken for the segment in the
  random slot. `WearTarget` keeps the segment and the slot that were chosen until
  they are exchanged. That a lowest segment in a slot exists is the least-number
  principle (`WellFoundedInduction`).
- `FlashFullNeverSeen`: `is_flash_full` is false in every reachable state when
  `NSlots >= 2 * KReserve + 2` (the shipped geometry has 512 slots and 2
  reserves). `is_flash_full()` reads the bytes of the counters as if each were
  the level of one segment; the last byte holds the levels of the last two
  segments, which hold no data, and stays 0. So the check at the start of
  `allocAndWriteBlock()` never refuses a write.
- `PositionStaysInSlot`: `Spec => []PositionInSlot` when the file system stops at
  the first error (`CallAfter = {}`). The invariant `CallInv` describes, for each
  control point, where the position is: inside the slot at `head` and `scan` up
  to its end, at the end in `switch` to `choose`, 0 at the header, among the
  checkpoint's pages at `headerCp`.
- `FieldTypes`: `Spec => []FieldsOK` under the same assumption. The assumption
  is needed: after `ERROR_FLASH_FULL` a call moves the position out of the slot.

### The pages of the flash: `DataProofs`

These theorems assume `Plain`: no EU is bad and the file system stops at the
first error. With a bad EU at the end of a slot `LiveReadable`,
`HeadersNameSegments`, `CountersExact` and `NandDiscipline` are false as the code
is (TLC refutes each of them with the last EU of slot 0 bad): the header of the
next segment is programmed into the reserve EU that replaced it
(`sequencingUtils.c:1805`). `bad_eus` and `bad_reserve` check instances where that
does not happen. Everything else is arbitrary: the geometry, the outcomes of the
generators, the calls.

- `BlocksStayReadable`: `Spec => []LiveReadable`.
- `MediumRespected`: `Spec => NandDiscipline`, an action property.
- `HeadersKept`: `Spec => []HeadersNameSegments`.
- `CopybackEuKept`: `Spec => []CopybackEuEmpty`.
- `StateTyped`: `Spec => []TypeOK`, with every page of the flash.

They rest on `FullInv`, which is `SlotInv`, `CallInv` and `DataInv`
(`DataInvariant`). `LiveReadable` is not inductive: it says nothing while slots
trade places, and a page is overwritten only if the flash there was not erased.
`DataInv` therefore places every segment at every step (`SlotOf`: the map, or the
new slot once everything was copied and the old one is being erased; `Place`:
below the position of a segment under reclamation, the new slot), says that the
page a live block is at holds it, that all that is programmed next is erased
(`ErasedAhead`, an interval of pages for each of the phases), that what
`performWearLeveling()` has copied equals the original (`CopiedPages`), where the
locals of `truncateSlot()` and the copy loop point (`TruncOK`, `WearOK`), and what
headers are where (`HeadersInv`, `ReserveSlot`). One lemma per action shows that
it keeps this and programs only erased pages (`Kept`). The steps that write a
page are instances of one transition (`WriteStep`), those that move pages keep
every block (`PagesFollow`). After `ERROR_FLASH_FULL` and a refused commit
`LiveReadable` is derived from the state before (`RefusalsReadable`).

### The page counts: `CounterProofs`

`CountsAreExact`: `Spec => []CountersExact` under `Plain` and `OnePage`, i.e. when a
checkpoint fits into one page. With more pages the theorem is false: after a
commit that ended early because a header saved the checkpoint,
`findNextFreePage()` takes the same page off its counter again
(`sequencingUtils.c:1068`). `CountersExact` speaks of the points where the file
system writes; `CountInv` says of every step that `counter` and `free_counter` are
the numbers of obsolete and of other pages without a block, the page that
`is_page_to_copy()` has handed out (`Found`) left aside. Writes change one page
(`WrittenPages`), moves none (`MovedPages`), a new segment has only fresh ones.

### Files: `FileIOProofs`

For every size of the inode's data, of a block and of a pointer page, and all
counts of bytes: `BytesAsWritten` (`FileAsWritten`), `ReadsAreExact`
(`ReadExact`), `CommittedBytesKept` (`CommittedKept`). `FileInv` is the inductive
invariant: `Seen(tr)`, the file the transaction would make if it were committed
now, holds the bytes of `goal`, the one on disk those of `durable`, and between
two blocks of a `write()` the offset is at the start of a block and not behind
the end. That `commitInode()` may be done at any point, and twice, without a
change of `Seen` is why a second pointer page can be entered in the middle of a
write. The loop of `read()` is a recursive function; since induction over it is
out of reach (see below) the proof takes the least round in which the bytes
read so far would be wrong.

### Tables: `OpenFilesProofs`

For every number of users, files, descriptors, vnodes, streams and
transactions: `ReferencesCounted` (`VnodesCounted`), `OpenFilesKept`
(`OpenFilesExist`), `OneWriter` (`WritersExclusive`), `TransactionsOwned`
(`UncommittedKeepsWriter`), `HeldStreamsFresh` (`StreamsFresh`) and `TablesTyped`
(`TypeOK`). None is inductive alone: that a file has one vnode needs that an
inode number is not reused while it is open, which needs the reference counts,
which need that entries name vnodes of their file. `TablesInv` is their
conjunction with `OneTransaction`, that no file has two, and `ReadOnlyEntries`,
that a descriptor of a directory does not write. All changes of an entry are
`Release()` and `setFentry()`; the actions are shown to be compositions of them.

The code lets a caller close the descriptor of a stream, so nothing is claimed
of a stream that lost its entry. `HeldStreamsFresh` is about those that still
hold it: their directory is open, hence `creat()` and `unlink()` refuse, and the
address of the inode stays current. `TransactionsOwned` is an action property,
shown with the step of every action (`TablesStep`): since the entry of such a stream
is read only, `closedir()` can take a writer only through a stream that lost its
own. That it does, the code is wrong about (section 3).

### Commits: `TransactionsInvariant`, `TransactionsProofs`

For every number of transactions, files, blocks and pages, every size of the
list of VOTs, every threshold of free pages and every number of power failures,
also during boots:

- `CommitsAtomic`: `Spec => CommitsAreAtomic`, the refinement of `AtomicCommit`.
- `CommittedPagesKept`: `Spec => []CommittedReadable`.
- `FilesReadBack`: `Spec => []ReadsBack`.
- `TypeCorrect`: `Spec => []TypeOK`.
- `InvariantHolds`: `Spec => []TransInv`, on which the others rest.

They assume `Direct`, which is two things. `FailLastVots = {}`: without it
`CommittedReadable` is false, as `commit_header` shows. `Nodes = {"inode"}`: files
with direct blocks only. With pointer pages `fs_buffer` holds one of them while
`handleMinPages()`, called for the write of another, can abort a transaction
that overwrites it (`transactions.c:957`). The run `transactions` is an instance
of `Direct`. `CommittedPagesKept` also assumes that the mark of a lost page,
`"lost"`, is not something that files contain.

None of these is inductive. What is safe to mark depends on who wrote a page, on
what the running call has still to do, and on what a boot would find. `TransInv`
therefore says:

- `TreeKept`: the pages of the last checkpoint's files (`Tree0`) are as that
  checkpoint left them, no file shares one with another, and none is marked.
- `Recoverable`: what a boot would walk from that checkpoint, the chain of the
  committed transaction (`C`) and those of open ones (`D`), names no page of
  `Tree0` that it would mark. This is what a power failure needs.
- `Running`: there are sets `own[t]`, the pages transaction *t* wrote, which are
  disjoint, and `vw[t]`, the pages it has voted. What it votes are pages of its
  own, the old inode0 or pages of files it changes (`MayVote`). A transaction
  between calls is unused or its pointers hold what it intends (`Stable`).
- The list `todo` is the rest of an abort, then what the last write still has to
  do, then the rest of the call's program (`Shape`). The constants `kCp`,
  `kSetFs`, ... name the rests; for each of them a phase says how far the new
  tree has got: a block is about to be written, `commitInode()` has written the
  inode, inode0 is entered, the directory follows (`WritePhase`, `PassPhase`,
  `TurnPhase`, `LastPhase`, `WalkPhase`). In all of them `intent` is exactly what the
  new pointers lead to.
- `InWindow`: from the moment `fs.ino0` names the new tree no checkpoint can
  happen but that of the commit, except for the failure that
  `FailLastVots = {}` excludes.
- `BootingFrom`: the same of the list of a boot, whose marks are outside `Tree0`.

TLC checked `TransInv` on a small instance before it was proved. Each step has a
lemma that gives the new sets and phase. At the first checkpoint of
`commitTransaction()` the tree changes, for each file, to what was intended
(`CheckpointCases`); any other checkpoint and every header save the files as
they were, and afterwards the pages that were replaced are owned by nobody
(`Forsaken`), so that marking them disturbs nothing. For the refinement:
`Write`, `Create` and `Unlink` are `Intend`, that checkpoint is `Commit`,
`InitTransaction` and `PowerFailure` are `Drop`, every other step stutters
(`NextIsAtomic`).

### What stays with TLC

- `ObsoleteSegmentsKnown`. `increment_counter()` stops at level 7 only: a level
  that is `OBS_COUNT_FULL` goes on counting, and at 16 it falls to 0 or spills
  into its neighbour (`sequencingUtils.c:295`), after seven pages of a segment
  that was full became obsolete with the toss each time. The property is
  therefore not true of every geometry; the instance's segments have fewer pages.
- `ReserveEusAccounted`, and the properties of `DataProofs` with bad EUs.
- All properties of `SeqBoot`.
- `NoPageLeaks`: `TransInv` says that what is voted may be marked, not that all
  that is replaced is voted.
- The properties of `Transactions` for files with pointer pages
  (`pointer_pages`).
- Liveness (`CallsReturn`): TLAPS does not reason about fairness and `ENABLED`.

## 5. Not modelled, and the plan

Not modelled: reads with bit errors and ECC, programs and erases that fail,
`EXACT_COUNTERS`, hardware drivers, utilities, sorting. The page cache, because
`LRU_CACHE_SIZE` and `FS_CACHE_BUFFERS` are 0 and its functions do nothing in
this build. At boot: bad EUs (`erasePossibleEUReplacement()`,
`handleCopyBackSpecial()`), two copies of a reserve slot
(`handleDoubleReserveSlot()`), and `returnToPrevSeg()`, which is not reached: a
segment with an incomplete header is not marked. Of the interface: `readdir()`,
`telldir()`, `seekdir()`, `scandir()`, `stat()`; paths, name comparison, sparse
entries.

Left to do, in this order:

1. Proofs about `SeqBoot`: the map that a boot recovers.
2. `NoPageLeaks`, with an invariant that keeps `vw[t]` equal to what was replaced;
   the same proofs for pointer pages under the condition that pages are not
   scarce.
3. Booting with bad EUs, as a further instance of `SeqBoot`.

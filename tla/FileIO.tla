------------------------------- MODULE FileIO -------------------------------
(***************************************************************************)
(* The bytes of one file: what write(), read() and lseek() do to a         *)
(* descriptor open for reading and writing, and what a commit, an abort or *)
(* a power failure leaves of it.                                           *)
(*                                                                         *)
(* The first INODE_FILE_DATA_SIZE bytes are in the inode, the others in    *)
(* blocks mapped by the inode or by an indirect block.  A transaction has  *)
(* one of these pointer pages in its buffer (indirect_buf, at fileOffset)  *)
(* and the highest offset written through it; the size of the file in the  *)
(* inode lags behind until the buffer is written.  Double and triple       *)
(* blocks only say where an indirect block is, and are left out here.      *)
(*                                                                         *)
(* write() is one step for every block, since each may fail.  Pages are    *)
(* values: that old pages are kept until the commit is the subject of      *)
(* module Transactions.                                                    *)
(***************************************************************************)
EXTENDS Integers, Sequences, FiniteSetsExt

CONSTANTS
  INODE_FILE_DATA_SIZE,
  FS_BLOCK_SIZE,
  DIRECT_INDEX_ENTRIES,     (* blocks mapped by the inode                  *)
  IndirectEntries,          (* LOG_ADDRESSES_PER_BLOCK                     *)
  Counts,                   (* the counts that write() and read() get      *)
  MaxFileSize,              (* bound: bytes of the file                    *)
  MaxWrites                 (* bound: calls of write()                     *)

ASSUME FileIOAssumption ==
  /\ {INODE_FILE_DATA_SIZE, FS_BLOCK_SIZE, IndirectEntries,
      DIRECT_INDEX_ENTRIES} \subseteq Nat \ {0}
  /\ Counts \subseteq Nat \ {0}
  /\ MaxFileSize \in Nat /\ MaxWrites \in Nat

VARIABLES
  disk,             (* the file as committed                               *)
  tr,               (* its transaction                                     *)
  offset,           (* of the open file entry                              *)
  io,               (* the running write(): bytes left and bytes written   *)
  writes,           (* calls of write() so far                             *)
  goal, durable     (* ghosts: the bytes it should have, now and committed *)

vars == <<disk, tr, offset, io, writes, goal, durable>>

-----------------------------------------------------------------------------
INODE_INDIRECT_DATA_SIZE == IndirectEntries * FS_BLOCK_SIZE
INDIRECT_DATA_OFFSET ==
  INODE_FILE_DATA_SIZE + DIRECT_INDEX_ENTRIES * FS_BLOCK_SIZE

CALC_OFFSET_IN_FILE_BLOCK(off) ==
  IF off >= INODE_FILE_DATA_SIZE THEN (off - INODE_FILE_DATA_SIZE) % FS_BLOCK_SIZE
  ELSE 0

CALC_OFFSET_IN_INDIRECT_SIZE(off) ==
  (off - INDIRECT_DATA_OFFSET) % INODE_INDIRECT_DATA_SIZE

calcIndirectBlockOffset(off) ==
  IF off < INDIRECT_DATA_OFFSET THEN 0 ELSE off - CALC_OFFSET_IN_INDIRECT_SIZE(off)

(* The number of the block that holds an offset.                           *)
BlockOf(off) == (off - INODE_FILE_DATA_SIZE) \div FS_BLOCK_SIZE
FileBlocks   == 0 .. BlockOf(MaxFileSize + FS_BLOCK_SIZE)

(* A byte is named by the write() it came from and its place in that call. *)
EmptyByte == <<0, 0>>
Blank(n)  == [i \in 1 .. n |-> EmptyByte]

(* A file: its size, the data in its inode, its blocks.                    *)
EmptyFile == [nbytes |-> 0, head |-> Blank(INODE_FILE_DATA_SIZE),
              blocks |-> [b \in FileBlocks |-> Blank(FS_BLOCK_SIZE)]]

-----------------------------------------------------------------------------
(***************************************************************************)
(* The transaction.  ino is the file below the inode page it has written   *)
(* last, buf the file with the changes to the pointer page in              *)
(* indirect_buf.                                                           *)
(***************************************************************************)
OFFSET_EMPTY == -1
NoTr == [open |-> FALSE, fileOffset |-> OFFSET_EMPTY, maxWrittenOffset |-> 0,
         ino |-> EmptyFile, buf |-> EmptyFile]

(* getTidByFileId(): the file's transaction, or a new one.                 *)
getTidByFileId == IF tr.open THEN tr ELSE [NoTr EXCEPT !.open = TRUE, !.ino = disk]

isOffsetInIndirect(t, off) ==
  /\ t.fileOffset # OFFSET_EMPTY
  /\ IF t.fileOffset = 0 THEN off < INDIRECT_DATA_OFFSET
     ELSE off - t.fileOffset \in 0 .. INODE_INDIRECT_DATA_SIZE - 1

changeFileSize(t, nbytes) ==
  IF t.maxWrittenOffset = 0 THEN nbytes
  ELSE Max({nbytes, t.fileOffset + t.maxWrittenOffset})

(* getFileUpdatedInode(): the size of the file as write() and read() see   *)
(* it.                                                                     *)
getFileSize(t) ==
  IF ~ t.open THEN disk.nbytes
  ELSE changeFileSize(t, IF t.fileOffset = 0 THEN t.buf.nbytes ELSE t.ino.nbytes)

(* readFileBlock(): from the pointer page in the transaction's buffer, or  *)
(* else from the last inode written.                                       *)
readFileBlock(t, off) ==
  LET f == IF ~ t.open THEN disk
           ELSE IF isOffsetInIndirect(t, off) THEN t.buf ELSE t.ino
  IN  IF off < INODE_FILE_DATA_SIZE THEN f.head ELSE f.blocks[BlockOf(off)]

(* The blocks mapped by the pointer page at offset at.                     *)
Mapped(at) ==
  {b \in FileBlocks :
     calcIndirectBlockOffset(INODE_FILE_DATA_SIZE + b * FS_BLOCK_SIZE) = at}

(* Fault: the size is changed only when the inode itself is in the buffer. *)
CommitIndirectWithoutSize(t) ==
  [t EXCEPT !.ino =
     [nbytes |-> IF t.fileOffset = 0 THEN changeFileSize(t, t.buf.nbytes)
                 ELSE t.ino.nbytes,
      head   |-> IF t.fileOffset = 0 THEN t.buf.head ELSE t.ino.head,
      blocks |-> [b \in FileBlocks |->
                    IF b \in Mapped(t.fileOffset) THEN t.buf.blocks[b]
                    ELSE t.ino.blocks[b]]]]

(* commitInode(): the pointer page in the buffer is written, and the pages *)
(* above it up to the inode, with the size.                                *)
commitInode(t) ==
  IF t.fileOffset = OFFSET_EMPTY THEN t
  ELSE [t EXCEPT !.ino =
          [nbytes |-> changeFileSize(t, IF t.fileOffset = 0 THEN t.buf.nbytes
                                        ELSE t.ino.nbytes),
           head   |-> IF t.fileOffset = 0 THEN t.buf.head ELSE t.ino.head,
           blocks |-> [b \in FileBlocks |->
                         IF b \in Mapped(t.fileOffset) THEN t.buf.blocks[b]
                         ELSE t.ino.blocks[b]]]]

(* Fault: the highest offset is that of the pointer page before.           *)
KeepMaxOffset(t, off) ==
  [t EXCEPT !.fileOffset = calcIndirectBlockOffset(off), !.buf = t.ino]

(* findIndirectEntriesBlock(): the pointer page that maps off is read.     *)
findIndirectEntriesBlock(t, off) ==
  [t EXCEPT !.fileOffset = calcIndirectBlockOffset(off),
            !.maxWrittenOffset = 0, !.buf = t.ino]

changeTransactionMaxOffset(t, max) ==
  [t EXCEPT !.maxWrittenOffset = Max({max, t.maxWrittenOffset})]

(***************************************************************************)
(* writeFileBlock(): len bytes of the block at off are new.  The buffer is *)
(* changed to the right pointer page first.                                *)
(***************************************************************************)
writeFileBlock(t, off, len, data) ==
  LET u == IF isOffsetInIndirect(t, off) THEN t
           ELSE findIndirectEntriesBlock(commitInode(t), off)
      v == changeTransactionMaxOffset(u,
             IF off < INODE_FILE_DATA_SIZE THEN len
             ELSE IF u.fileOffset = 0 THEN off + len
             ELSE CALC_OFFSET_IN_INDIRECT_SIZE(off) + len)
  IN  IF off < INODE_FILE_DATA_SIZE
      THEN [v EXCEPT !.buf.nbytes = changeFileSize(v, v.buf.nbytes),
                     !.buf.head = data]
      ELSE [v EXCEPT !.buf.blocks[BlockOf(off)] = data]

(* Whether writeFileBlock() writes pages, and so may fail.                 *)
WritesPages(t, off) ==
  \/ off >= INODE_FILE_DATA_SIZE
  \/ ~ isOffsetInIndirect(t, off) /\ t.fileOffset # OFFSET_EMPTY

-----------------------------------------------------------------------------
(* Bytes from + 1 to from + n of the running write(), and their place.     *)
Bytes(w, from, n) == [i \in 1 .. n |-> <<w, from + i>>]

fsMemcpy(data, at, bytes) ==
  [i \in 1 .. Max({Len(data), at + Len(bytes)}) |->
     IF i \in at + 1 .. at + Len(bytes) THEN bytes[i - at] ELSE data[i]]

Idle == [left |-> 0, done |-> 0]

(* One block of write(): n bytes go to place at of the data buffer, whose  *)
(* first len bytes are then the block at off.                              *)
WriteBlock(t, w, off, data, at, bytes, left, done) ==
  /\ writes' = w
  /\ \/ /\ tr' = writeFileBlock(t, off, at + Len(bytes), fsMemcpy(data, at, bytes))
        /\ goal' = fsMemcpy(goal, offset, bytes)
        /\ offset' = offset + Len(bytes)
        /\ io' = IF left = Len(bytes) THEN Idle
                 ELSE [left |-> left - Len(bytes), done |-> done + Len(bytes)]
     \/ /\ WritesPages(t, off)
        /\ tr' = NoTr /\ goal' = durable /\ io' = Idle
        /\ UNCHANGED offset
  /\ UNCHANGED <<disk, durable>>

(* What is left of the inode's data or of the block at off, at most count. *)
FirstSize(off, count) ==
  Min({count, IF off < INODE_FILE_DATA_SIZE THEN INODE_FILE_DATA_SIZE - off
              ELSE FS_BLOCK_SIZE - CALC_OFFSET_IN_FILE_BLOCK(off)})

(* Where offset off is in the block, or in the data of the inode.          *)
PlaceInBlock(off) ==
  IF off < INODE_FILE_DATA_SIZE THEN off ELSE CALC_OFFSET_IN_FILE_BLOCK(off)

(* write() up to its first block.                                          *)
WriteFirst ==
  /\ io = Idle /\ writes < MaxWrites
  /\ offset <= getFileSize(tr)
  /\ \E count \in {c \in Counts : offset + c <= MaxFileSize} :
       WriteBlock(getTidByFileId, writes + 1, offset - PlaceInBlock(offset),
                  readFileBlock(getTidByFileId, offset), PlaceInBlock(offset),
                  Bytes(writes + 1, 0, FirstSize(offset, count)), count, 0)

(* The loop over whole blocks, which are not read first.                   *)
WriteLoop ==
  /\ io.left > FS_BLOCK_SIZE
  /\ WriteBlock(tr, writes, offset, Blank(FS_BLOCK_SIZE), 0,
                Bytes(writes, io.done, FS_BLOCK_SIZE), io.left, io.done)

(* The last block is read before its first bytes are replaced.             *)
WriteLast ==
  /\ io.left \in 1 .. FS_BLOCK_SIZE
  /\ WriteBlock(tr, writes, offset, readFileBlock(tr, offset), 0,
                Bytes(writes, io.done, io.left), io.left, io.done)

-----------------------------------------------------------------------------
(* Cut a read of n bytes from off at the end of the file.                  *)
CutAtEnd(off, n) ==
  IF off + n > getFileSize(tr) THEN getFileSize(tr) - off ELSE n

(* Fault: the size is not cut again at the end of the file.                *)
ReadLoopUncut(start) ==
  LET after[k \in 0 .. Len(goal)] ==
        IF k = 0 THEN start
        ELSE LET r == after[k - 1]
             IN  IF r.left > FS_BLOCK_SIZE /\ r.size = FS_BLOCK_SIZE
                 THEN [off   |-> r.off + FS_BLOCK_SIZE,
                       left  |-> r.left - r.size,
                       size  |-> r.size,
                       bytes |-> r.bytes \o readFileBlock(tr, r.off)]
                 ELSE r
  IN  after[Len(goal)]

(* The loop of read(): [off, left, size, bytes] after at most k blocks.    *)
ReadLoop(start) ==
  LET after[k \in 0 .. Len(goal)] ==
        IF k = 0 THEN start
        ELSE LET r == after[k - 1]
             IN  IF r.left > FS_BLOCK_SIZE /\ r.size = FS_BLOCK_SIZE
                 THEN [off   |-> r.off + FS_BLOCK_SIZE,
                       left  |-> r.left - r.size,
                       size  |-> CutAtEnd(r.off + FS_BLOCK_SIZE, r.size),
                       bytes |-> r.bytes \o readFileBlock(tr, r.off)]
                 ELSE r
  IN  after[Len(goal)]

(* read(): what it puts in the caller's buffer.  It changes no page, so    *)
(* the whole call is one step.                                             *)
nandfs_read(count) ==
  LET n == CutAtEnd(offset, FirstSize(offset, count))
      at == PlaceInBlock(offset)
      r == ReadLoop([off   |-> offset + n, left |-> count - n,
                     size  |-> CutAtEnd(offset + n, Min({count - n, FS_BLOCK_SIZE})),
                     bytes |-> SubSeq(readFileBlock(tr, offset), at + 1, at + n)])
  IN  IF r.size = 0 \/ r.left = 0 THEN r.bytes
      ELSE r.bytes \o SubSeq(readFileBlock(tr, r.off), 1, Min({r.size, r.left}))

Read ==
  /\ io = Idle /\ offset <= getFileSize(tr)
  /\ \E count \in Counts : offset' = offset + Len(nandfs_read(count))
  /\ UNCHANGED <<disk, tr, io, writes, goal, durable>>

(* lseek(): no further than the end of the file.                           *)
Lseek ==
  /\ io = Idle
  /\ \E off \in 0 .. getFileSize(tr) : offset' = off
  /\ UNCHANGED <<disk, tr, io, writes, goal, durable>>

(* fsync(): commitTransaction() writes the inode and ends the transaction. *)
Fsync ==
  /\ io = Idle /\ tr.open
  /\ disk' = commitInode(tr).ino
  /\ tr' = NoTr /\ durable' = goal
  /\ UNCHANGED <<offset, io, writes, goal>>

(* The commit fails, or a write of another file needs pages: the           *)
(* transaction is aborted.  The offset stays where it was.                 *)
Abort ==
  /\ io = Idle /\ tr.open
  /\ tr' = NoTr /\ goal' = durable
  /\ UNCHANGED <<disk, offset, io, writes, durable>>

(* A power failure; the file is opened again after the boot.               *)
PowerFailure ==
  /\ tr' = NoTr /\ goal' = durable /\ io' = Idle /\ offset' = 0
  /\ UNCHANGED <<disk, writes, durable>>

Init ==
  /\ disk = EmptyFile /\ tr = NoTr
  /\ offset = 0 /\ io = Idle /\ writes = 0
  /\ goal = <<>> /\ durable = <<>>

Next == \/ WriteFirst \/ WriteLoop \/ WriteLast
        \/ Read \/ Lseek \/ Fsync \/ Abort \/ PowerFailure

Spec == Init /\ [][Next]_vars

-----------------------------------------------------------------------------
(* Properties.                                                             *)

(* The bytes of the file of size n, block by block.                        *)
Content(t, n) ==
  [i \in 1 .. n |-> readFileBlock(t, i - 1)[PlaceInBlock(i - 1) + 1]]

(***************************************************************************)
(* After every block of write() the file has exactly the bytes written so  *)
(* far, over the pointer page in the buffer and the inode and indirect     *)
(* blocks already written, and getFileSize() is their number: no byte      *)
(* beside the ones written changes, none is lost when the pointer page in  *)
(* the buffer is replaced, and an abort leaves the committed bytes.        *)
(***************************************************************************)
FileAsWritten ==
  /\ getFileSize(tr) = Len(goal)
  /\ Content(tr, Len(goal)) = goal

(***************************************************************************)
(* read() returns the bytes from the offset of the descriptor up to count  *)
(* or the end of the file, wherever inode data, blocks and the end meet.   *)
(***************************************************************************)
ReadExact ==
  io = Idle /\ offset <= Len(goal) =>
    \A count \in Counts :
      nandfs_read(count) = SubSeq(goal, offset + 1, Min({offset + count, Len(goal)}))

(***************************************************************************)
(* What fsync() committed is what the file has after any abort or power    *)
(* failure: the inode on disk has the size and the blocks of that moment.  *)
(***************************************************************************)
CommittedKept ==
  /\ disk.nbytes = Len(durable)
  /\ Content(NoTr, Len(durable)) = durable

=============================================================================

----------------------------- MODULE FileIOProofs -----------------------------
(***************************************************************************)
(* Theorems of reading and writing a file, for every size of the data in   *)
(* the inode, of blocks and of pointer pages, and every count of bytes.    *)
(***************************************************************************)
EXTENDS FileIO, SequenceTheorems, NaturalsInduction, WellFoundedInduction,
        TLAPS

-----------------------------------------------------------------------------
(* Arithmetic.                                                             *)

LEMMA Larger == \A a, b \in Int : Max({a, b}) = IF a >= b THEN a ELSE b
<1> SUFFICES ASSUME NEW a \in Int, NEW b \in Int
             PROVE  Max({a, b}) = IF a >= b THEN a ELSE b
  OBVIOUS
<1>1. \E x \in {a, b} : \A y \in {a, b} : x >= y
  OBVIOUS
<1> QED  BY <1>1 DEF Max

LEMMA Smaller == \A a, b \in Int : Min({a, b}) = IF a <= b THEN a ELSE b
<1> SUFFICES ASSUME NEW a \in Int, NEW b \in Int
             PROVE  Min({a, b}) = IF a <= b THEN a ELSE b
  OBVIOUS
<1>1. \E x \in {a, b} : \A y \in {a, b} : x <= y
  OBVIOUS
<1> QED  BY <1>1 DEF Min

LEMMA Monotone == \A a, b, m \in Nat : /\ a * m \in Nat
                                       /\ a <= b => a * m <= b * m
                                       /\ a < b => (a + 1) * m <= b * m
OBVIOUS

LEMMA Distributes == \A a, b, m \in Int : (a + b) * m = a * m + b * m
OBVIOUS

(* Quotient and remainder.                                                 *)
LEMMA DivMod ==
  ASSUME NEW n \in Nat, NEW m \in Nat \ {0}
  PROVE  /\ n \div m \in Nat /\ n % m \in 0 .. m - 1
         /\ n = (n \div m) * m + (n % m)
OBVIOUS

(* ... are the only ones.                                                  *)
LEMMA DivUnique ==
  ASSUME NEW q \in Nat, NEW m \in Nat \ {0}, NEW r \in 0 .. m - 1
  PROVE  (q * m + r) \div m = q /\ (q * m + r) % m = r
<1> DEFINE n == q * m + r
           p == n \div m
           s == n % m
<1>1. n \in Nat
  BY Monotone
<1>2. p \in Nat /\ s \in 0 .. m - 1 /\ n = p * m + s
  BY <1>1, DivMod
<1> HIDE DEF n, p, s
<1>3. ~ (p < q)
  <2> SUFFICES ASSUME p < q PROVE FALSE
    OBVIOUS
  <2>1. (p + 1) * m <= q * m /\ (p + 1) * m = p * m + m
    BY <1>2, Monotone, Distributes
  <2> QED  BY <2>1, <1>2, Monotone DEF n
<1>4. ~ (q < p)
  <2> SUFFICES ASSUME q < p PROVE FALSE
    OBVIOUS
  <2>1. (q + 1) * m <= p * m /\ (q + 1) * m = q * m + m
    BY <1>2, Monotone, Distributes
  <2> QED  BY <2>1, <1>2, Monotone DEF n
<1>5. p = q
  BY <1>2, <1>3, <1>4
<1>6. s = r
  BY <1>2, <1>5, Monotone DEF n
<1> QED  BY <1>5, <1>6 DEF n, p, s

-----------------------------------------------------------------------------
(* Where offsets are.                                                      *)

LEMMA Sizes ==
  /\ INODE_FILE_DATA_SIZE \in Nat \ {0} /\ FS_BLOCK_SIZE \in Nat \ {0}
  /\ IndirectEntries \in Nat \ {0} /\ DIRECT_INDEX_ENTRIES \in Nat \ {0}
  /\ INODE_INDIRECT_DATA_SIZE \in Nat \ {0}
  /\ INDIRECT_DATA_OFFSET \in Nat \ {0}
  /\ INODE_FILE_DATA_SIZE < INDIRECT_DATA_OFFSET
<1>1. /\ INODE_FILE_DATA_SIZE \in Nat \ {0} /\ FS_BLOCK_SIZE \in Nat \ {0}
      /\ IndirectEntries \in Nat \ {0} /\ DIRECT_INDEX_ENTRIES \in Nat \ {0}
  BY FileIOAssumption
<1>2. \A a, b \in Nat \ {0} : a * b \in Nat \ {0}
  OBVIOUS
<1>3. /\ IndirectEntries * FS_BLOCK_SIZE \in Nat \ {0}
      /\ DIRECT_INDEX_ENTRIES * FS_BLOCK_SIZE \in Nat \ {0}
  BY <1>1, <1>2
<1> QED  BY <1>1, <1>3 DEF INODE_INDIRECT_DATA_SIZE, INDIRECT_DATA_OFFSET

(* An offset behind the data of the inode is in a place of a block.        *)
LEMMA OffsetInBlock ==
  ASSUME NEW off \in Nat, off >= INODE_FILE_DATA_SIZE
  PROVE  /\ BlockOf(off) \in Nat
         /\ PlaceInBlock(off) \in 0 .. FS_BLOCK_SIZE - 1
         /\ PlaceInBlock(off) = CALC_OFFSET_IN_FILE_BLOCK(off)
         /\ off = INODE_FILE_DATA_SIZE + BlockOf(off) * FS_BLOCK_SIZE
                    + PlaceInBlock(off)
<1> DEFINE n == off - INODE_FILE_DATA_SIZE
<1>1. n \in Nat /\ off = INODE_FILE_DATA_SIZE + n
  BY Sizes
<1>2. /\ BlockOf(off) = n \div FS_BLOCK_SIZE
      /\ PlaceInBlock(off) = n % FS_BLOCK_SIZE
      /\ CALC_OFFSET_IN_FILE_BLOCK(off) = n % FS_BLOCK_SIZE
  BY Sizes DEF BlockOf, PlaceInBlock, CALC_OFFSET_IN_FILE_BLOCK
<1> HIDE DEF n
<1>3. /\ n \div FS_BLOCK_SIZE \in Nat
      /\ n % FS_BLOCK_SIZE \in 0 .. FS_BLOCK_SIZE - 1
      /\ n = (n \div FS_BLOCK_SIZE) * FS_BLOCK_SIZE + (n % FS_BLOCK_SIZE)
  BY <1>1, DivMod, Sizes
<1> DEFINE q == n \div FS_BLOCK_SIZE
           r == n % FS_BLOCK_SIZE
           m == q * FS_BLOCK_SIZE
<1>4. q \in Nat /\ r \in 0 .. FS_BLOCK_SIZE - 1 /\ n = m + r
      /\ BlockOf(off) = q /\ PlaceInBlock(off) = r
      /\ CALC_OFFSET_IN_FILE_BLOCK(off) = r
  BY <1>2, <1>3
<1>5. m \in Nat
  BY <1>3, Monotone, Sizes
<1>6. m = BlockOf(off) * FS_BLOCK_SIZE
  BY <1>4
<1> HIDE DEF q, r, m
<1>7. off = INODE_FILE_DATA_SIZE + m + r
  BY <1>1, <1>4, <1>5, Sizes
<1> QED  BY <1>4, <1>6, <1>7

(* A place in a block is at one offset.                                    *)
LEMMA OffsetAt ==
  ASSUME NEW b \in Nat, NEW i \in 0 .. FS_BLOCK_SIZE - 1
  PROVE  LET off == INODE_FILE_DATA_SIZE + b * FS_BLOCK_SIZE + i
         IN  /\ off \in Nat /\ off >= INODE_FILE_DATA_SIZE
             /\ BlockOf(off) = b /\ PlaceInBlock(off) = i
<1> DEFINE m == b * FS_BLOCK_SIZE
           off == INODE_FILE_DATA_SIZE + m + i
<1>1. m \in Nat
  BY Monotone, Sizes
<1>2. (m + i) \div FS_BLOCK_SIZE = b /\ (m + i) % FS_BLOCK_SIZE = i
  BY DivUnique, Sizes
<1> HIDE DEF m
<1>3. /\ off \in Nat /\ off >= INODE_FILE_DATA_SIZE
      /\ off - INODE_FILE_DATA_SIZE = m + i
  BY <1>1, Sizes
<1>4. BlockOf(off) = b /\ PlaceInBlock(off) = i
  BY <1>2, <1>3, Sizes DEF BlockOf, PlaceInBlock, CALC_OFFSET_IN_FILE_BLOCK
<1> QED  BY <1>3, <1>4 DEF m

LEMMA BlocksInOrder ==
  ASSUME NEW off \in Nat, NEW to \in Nat, INODE_FILE_DATA_SIZE <= off, off <= to
  PROVE  BlockOf(off) <= BlockOf(to)
<1> DEFINE a == BlockOf(off)
           b == BlockOf(to)
           r == PlaceInBlock(off)
           s == PlaceInBlock(to)
<1>1. /\ a \in Nat /\ b \in Nat
      /\ r \in 0 .. FS_BLOCK_SIZE - 1 /\ s \in 0 .. FS_BLOCK_SIZE - 1
      /\ off = INODE_FILE_DATA_SIZE + a * FS_BLOCK_SIZE + r
      /\ to = INODE_FILE_DATA_SIZE + b * FS_BLOCK_SIZE + s
  BY OffsetInBlock, Sizes
<1> HIDE DEF a, b, r, s
<1> SUFFICES ASSUME b < a PROVE FALSE
  BY <1>1 DEF a, b
<1>2. (b + 1) * FS_BLOCK_SIZE <= a * FS_BLOCK_SIZE
      /\ (b + 1) * FS_BLOCK_SIZE = b * FS_BLOCK_SIZE + FS_BLOCK_SIZE
  BY <1>1, Monotone, Distributes, Sizes
<1> DEFINE x == a * FS_BLOCK_SIZE
           y == b * FS_BLOCK_SIZE
<1>3. x \in Nat /\ y \in Nat /\ y + FS_BLOCK_SIZE <= x
      /\ off = INODE_FILE_DATA_SIZE + x + r /\ to = INODE_FILE_DATA_SIZE + y + s
  BY <1>1, <1>2, Monotone, Sizes
<1> HIDE DEF x, y
<1> QED  BY <1>1, <1>3, Sizes

LEMMA BlockInFile ==
  ASSUME NEW off \in Nat, INODE_FILE_DATA_SIZE <= off,
         off <= MaxFileSize + FS_BLOCK_SIZE
  PROVE  BlockOf(off) \in FileBlocks
<1>1. MaxFileSize + FS_BLOCK_SIZE \in Nat
  BY FileIOAssumption
<1>2. BlockOf(off) <= BlockOf(MaxFileSize + FS_BLOCK_SIZE)
  BY <1>1, BlocksInOrder
<1>3. /\ BlockOf(off) \in Nat
      /\ BlockOf(MaxFileSize + FS_BLOCK_SIZE) \in Nat
  BY <1>1, OffsetInBlock, Sizes
<1> QED  BY <1>2, <1>3 DEF FileBlocks

(* Blocks that are in the file have numbers, also when there are none.     *)
LEMMA FileBlocksNumbered == FileBlocks \subseteq Nat
<1>1. BlockOf(MaxFileSize + FS_BLOCK_SIZE) \in Int
  BY FileIOAssumption, Sizes DEF BlockOf
<1> QED  BY <1>1 DEF FileBlocks

-----------------------------------------------------------------------------
(* Pointer pages.                                                          *)

PointerPages ==
  {0} \cup {INDIRECT_DATA_OFFSET + k * INODE_INDIRECT_DATA_SIZE : k \in Nat}

LEMMA PointerPagesAreOffsets == PointerPages \subseteq Nat
<1>1. \A k \in Nat : k * INODE_INDIRECT_DATA_SIZE \in Nat
  BY Monotone, Sizes
<1> QED  BY <1>1, Sizes DEF PointerPages

(* The pointer page of an offset starts at a multiple of its span.         *)
LEMMA PointerPageOf ==
  ASSUME NEW off \in Nat
  PROVE  /\ calcIndirectBlockOffset(off) \in PointerPages
         /\ off < INDIRECT_DATA_OFFSET => calcIndirectBlockOffset(off) = 0
         /\ off >= INDIRECT_DATA_OFFSET =>
              /\ CALC_OFFSET_IN_INDIRECT_SIZE(off) \in 0 .. INODE_INDIRECT_DATA_SIZE - 1
              /\ calcIndirectBlockOffset(off) >= INDIRECT_DATA_OFFSET
              /\ off = calcIndirectBlockOffset(off)
                         + CALC_OFFSET_IN_INDIRECT_SIZE(off)
<1>1. CASE off < INDIRECT_DATA_OFFSET
  BY <1>1, Sizes DEF calcIndirectBlockOffset, PointerPages
<1>2. CASE off >= INDIRECT_DATA_OFFSET
  <2> DEFINE n == off - INDIRECT_DATA_OFFSET
             q == n \div INODE_INDIRECT_DATA_SIZE
             r == n % INODE_INDIRECT_DATA_SIZE
             m == q * INODE_INDIRECT_DATA_SIZE
  <2>1. n \in Nat
    BY <1>2, Sizes
  <2>2. q \in Nat /\ r \in 0 .. INODE_INDIRECT_DATA_SIZE - 1 /\ n = m + r
    BY <2>1, DivMod, Sizes
  <2>3. m \in Nat
    BY <2>2, Monotone, Sizes
  <2>4. /\ CALC_OFFSET_IN_INDIRECT_SIZE(off) = r
        /\ calcIndirectBlockOffset(off) = off - r
    BY <1>2, Sizes DEF calcIndirectBlockOffset, CALC_OFFSET_IN_INDIRECT_SIZE
  <2>5. off = n + INDIRECT_DATA_OFFSET
    BY Sizes
  <2>6. INDIRECT_DATA_OFFSET + m \in PointerPages
    BY <2>2 DEF PointerPages
  <2> HIDE DEF n, q, r, m
  <2>7. calcIndirectBlockOffset(off) = INDIRECT_DATA_OFFSET + m
    BY <2>2, <2>3, <2>4, <2>5, Sizes
  <2> QED  BY <1>2, <2>2, <2>3, <2>4, <2>5, <2>6, <2>7, Sizes
<1> QED  BY <1>1, <1>2, Sizes

(* An offset is in the span of one pointer page.                           *)
LEMMA PointerPageUnique ==
  ASSUME NEW k \in Nat, NEW r \in 0 .. INODE_INDIRECT_DATA_SIZE - 1
  PROVE  LET at == INDIRECT_DATA_OFFSET + k * INODE_INDIRECT_DATA_SIZE
         IN  calcIndirectBlockOffset(at + r) = at
<1> DEFINE m == k * INODE_INDIRECT_DATA_SIZE
           off == INDIRECT_DATA_OFFSET + m + r
<1>1. m \in Nat
  BY Monotone, Sizes
<1>2. (m + r) % INODE_INDIRECT_DATA_SIZE = r
  BY DivUnique, Sizes
<1> HIDE DEF m
<1>3. /\ off \in Nat /\ off >= INDIRECT_DATA_OFFSET
      /\ off - INDIRECT_DATA_OFFSET = m + r
  BY <1>1, Sizes
<1>4. calcIndirectBlockOffset(off) = off - r
  BY <1>2, <1>3, Sizes
     DEF calcIndirectBlockOffset, CALC_OFFSET_IN_INDIRECT_SIZE
<1>5. calcIndirectBlockOffset(off) = INDIRECT_DATA_OFFSET + m
  BY <1>1, <1>4, Sizes
<1> QED  BY <1>5 DEF m

(* isOffsetInIndirect() compares the offset's pointer page with that in    *)
(* the buffer.                                                             *)
LEMMA InPointerPage ==
  ASSUME NEW t, t.fileOffset \in PointerPages \cup {OFFSET_EMPTY}, NEW off \in Nat
  PROVE  isOffsetInIndirect(t, off) <=> calcIndirectBlockOffset(off) = t.fileOffset
<1> DEFINE at == t.fileOffset
<1>0. calcIndirectBlockOffset(off) \in Nat
  BY PointerPageOf, PointerPagesAreOffsets
<1>1. CASE at = OFFSET_EMPTY
  BY <1>0, <1>1 DEF OFFSET_EMPTY, isOffsetInIndirect
<1>2. CASE at = 0
  BY <1>2, PointerPageOf, Sizes DEF OFFSET_EMPTY, isOffsetInIndirect
<1>3. ASSUME NEW k \in Nat, at = INDIRECT_DATA_OFFSET + k * INODE_INDIRECT_DATA_SIZE
      PROVE  isOffsetInIndirect(t, off) <=> calcIndirectBlockOffset(off) = at
  <2>1. k * INODE_INDIRECT_DATA_SIZE \in Nat
    BY Monotone, Sizes
  <2>2. at \in Nat /\ at >= INDIRECT_DATA_OFFSET /\ at # 0 /\ at # OFFSET_EMPTY
    BY <1>3, <2>1, Sizes DEF OFFSET_EMPTY
  <2>3. isOffsetInIndirect(t, off) <=> off - at \in 0 .. INODE_INDIRECT_DATA_SIZE - 1
    BY <2>2 DEF isOffsetInIndirect
  <2>4. ASSUME off - at \in 0 .. INODE_INDIRECT_DATA_SIZE - 1
        PROVE  calcIndirectBlockOffset(off) = at
    <3> DEFINE r == off - at
    <3>1. calcIndirectBlockOffset(at + r) = at
      BY <1>3, <2>4, PointerPageUnique
    <3>2. at + r = off
      BY <2>2
    <3> QED  BY <3>1, <3>2
  <2>5. ASSUME calcIndirectBlockOffset(off) = at
        PROVE  off - at \in 0 .. INODE_INDIRECT_DATA_SIZE - 1
    BY <2>2, <2>5, PointerPageOf, Sizes
  <2> QED  BY <2>3, <2>4, <2>5
<1> QED  BY <1>1, <1>2, <1>3 DEF PointerPages

(* A block is mapped by one pointer page: that of any of its bytes is that *)
(* of its first, since pages span whole blocks.                            *)
LEMMA PointerPageOfBlock ==
  ASSUME NEW off \in Nat, off >= INODE_FILE_DATA_SIZE
  PROVE  calcIndirectBlockOffset(off) =
           calcIndirectBlockOffset(INODE_FILE_DATA_SIZE + BlockOf(off) * FS_BLOCK_SIZE)
<1> DEFINE b == BlockOf(off)
           i == PlaceInBlock(off)
           m == b * FS_BLOCK_SIZE
           direct == DIRECT_INDEX_ENTRIES * FS_BLOCK_SIZE
<1>1. /\ b \in Nat /\ i \in 0 .. FS_BLOCK_SIZE - 1
      /\ off = INODE_FILE_DATA_SIZE + m + i
  BY OffsetInBlock
<1>2. INDIRECT_DATA_OFFSET = INODE_FILE_DATA_SIZE + direct
  BY DEF INDIRECT_DATA_OFFSET
<1>3. m \in Nat /\ direct \in Nat
  BY <1>1, Monotone, Sizes
<1>4. CASE b < DIRECT_INDEX_ENTRIES
  <2>1. (b + 1) * FS_BLOCK_SIZE <= direct /\ (b + 1) * FS_BLOCK_SIZE = m + FS_BLOCK_SIZE
    BY <1>1, <1>4, Monotone, Distributes, Sizes
  <2> HIDE DEF m, direct, i
  <2>2. off < INDIRECT_DATA_OFFSET /\ INODE_FILE_DATA_SIZE + m < INDIRECT_DATA_OFFSET
        /\ INODE_FILE_DATA_SIZE + m \in Nat
    BY <1>1, <1>2, <1>3, <2>1, Sizes
  <2> QED  BY <2>2, PointerPageOf DEF m
<1>5. CASE b >= DIRECT_INDEX_ENTRIES
  <2> DEFINE x == b - DIRECT_INDEX_ENTRIES
             q == x \div IndirectEntries
             s == x % IndirectEntries
             place == s * FS_BLOCK_SIZE
             at == INDIRECT_DATA_OFFSET + q * INODE_INDIRECT_DATA_SIZE
  <2>1. x \in Nat /\ b = DIRECT_INDEX_ENTRIES + x
    BY <1>1, <1>5, Sizes
  <2>2. /\ q \in Nat /\ s \in 0 .. IndirectEntries - 1
        /\ x = q * IndirectEntries + s
    <3> HIDE DEF x
    <3> QED  BY <2>1, DivMod, Sizes
  <2> HIDE DEF x, q, s
  <2>3. m = direct + x * FS_BLOCK_SIZE
    <3>1. x \in Int /\ DIRECT_INDEX_ENTRIES \in Int /\ FS_BLOCK_SIZE \in Int
      BY <2>1, Sizes
    <3>2. (DIRECT_INDEX_ENTRIES + x) * FS_BLOCK_SIZE = direct + x * FS_BLOCK_SIZE
      BY <3>1, Distributes
    <3> QED  BY <2>1, <3>2
  <2>4. x * FS_BLOCK_SIZE = q * INODE_INDIRECT_DATA_SIZE + place
    <3> DEFINE u == q * IndirectEntries
    <3>1. u \in Nat
      BY <2>2, Monotone, Sizes
    <3>2. x = u + s
      BY <2>2
    <3> HIDE DEF u
    <3>3. x * FS_BLOCK_SIZE = u * FS_BLOCK_SIZE + place
      BY <3>1, <3>2, <2>2, Distributes, Sizes
    <3>4. u * FS_BLOCK_SIZE = q * INODE_INDIRECT_DATA_SIZE
      <4>1. \A f, g, h \in Nat : (f * g) * h = f * (g * h)
        OBVIOUS
      <4> QED  BY <4>1, <2>2, Sizes DEF u, INODE_INDIRECT_DATA_SIZE
    <3> QED  BY <3>3, <3>4
  <2>5. place \in Nat /\ place + FS_BLOCK_SIZE <= INODE_INDIRECT_DATA_SIZE
    <3>1. s \in Nat /\ s < IndirectEntries
      BY <2>2, Sizes
    <3>2. (s + 1) * FS_BLOCK_SIZE <= INODE_INDIRECT_DATA_SIZE
          /\ (s + 1) * FS_BLOCK_SIZE = place + FS_BLOCK_SIZE
      BY <3>1, Monotone, Distributes, Sizes DEF INODE_INDIRECT_DATA_SIZE
    <3> QED  BY <3>1, <3>2, Monotone, Sizes
  <2>6. q * INODE_INDIRECT_DATA_SIZE \in Nat
    BY <2>2, Monotone, Sizes
  <2> DEFINE span == q * INODE_INDIRECT_DATA_SIZE
  <2>7. m = direct + (span + place)
    BY <2>3, <2>4
  <2>8. span \in Nat
    BY <2>6
  <2>9. calcIndirectBlockOffset(at + (place + i)) = at
        /\ calcIndirectBlockOffset(at + place) = at
    <3> HIDE DEF place, i
    <3>1. place + i \in 0 .. INODE_INDIRECT_DATA_SIZE - 1
          /\ place \in 0 .. INODE_INDIRECT_DATA_SIZE - 1
      BY <1>1, <2>5, Sizes
    <3> QED  BY <2>2, <3>1, PointerPageUnique
  <2>10. at = INDIRECT_DATA_OFFSET + span
    OBVIOUS
  <2> HIDE DEF at, place, span, m, direct, i
  <2>11. /\ off = at + (place + i)
         /\ INODE_FILE_DATA_SIZE + m = at + place
    BY <1>1, <1>2, <1>3, <2>5, <2>7, <2>8, <2>10, Sizes
  <2> QED  BY <2>9, <2>11 DEF m
<1> QED  BY <1>1, <1>4, <1>5, Sizes

LEMMA MappedBlock ==
  ASSUME NEW t, t.fileOffset \in PointerPages \cup {OFFSET_EMPTY},
         NEW off \in Nat, INODE_FILE_DATA_SIZE <= off,
         off <= MaxFileSize + FS_BLOCK_SIZE
  PROVE  isOffsetInIndirect(t, off) <=> BlockOf(off) \in Mapped(t.fileOffset)
<1>1. BlockOf(off) \in FileBlocks
  BY BlockInFile
<1>2. isOffsetInIndirect(t, off) <=> calcIndirectBlockOffset(off) = t.fileOffset
  BY InPointerPage
<1> QED  BY <1>1, <1>2, PointerPageOfBlock DEF Mapped

-----------------------------------------------------------------------------
(* Files and transactions.                                                 *)

BYTE == Nat \X Nat

Files ==
  [nbytes : Nat,
   head   : [1 .. INODE_FILE_DATA_SIZE -> BYTE],
   blocks : [FileBlocks -> [1 .. FS_BLOCK_SIZE -> BYTE]]]

FileTransactions ==
  {t \in [open : BOOLEAN, fileOffset : PointerPages \cup {OFFSET_EMPTY},
          maxWrittenOffset : Nat, ino : Files, buf : Files] :
     t.fileOffset = OFFSET_EMPTY => t.maxWrittenOffset = 0}

(* The file that a transaction makes, were it committed now.               *)
Seen(t) == IF t.open THEN commitInode(t).ino ELSE disk

(* The data that hold the byte at an offset, and their number.             *)
DataAt(f, off) == IF off < INODE_FILE_DATA_SIZE THEN f.head ELSE f.blocks[BlockOf(off)]
SizeAt(off)    == IF off < INODE_FILE_DATA_SIZE THEN INODE_FILE_DATA_SIZE
                  ELSE FS_BLOCK_SIZE

(* Offsets that can be read: data of the inode, or of a block of the file. *)
Readable == {off \in Nat : off < INODE_FILE_DATA_SIZE
                             \/ off <= MaxFileSize + FS_BLOCK_SIZE}

LEMMA EmptyFileTyped == EmptyFile \in Files /\ NoTr \in FileTransactions
<1>1. EmptyByte \in BYTE
  BY DEF EmptyByte, BYTE
<1>2. EmptyFile \in Files
  BY <1>1 DEF EmptyFile, Files, Blank
<1> QED  BY <1>2 DEF NoTr, FileTransactions

LEMMA NewSize ==
  ASSUME NEW t \in FileTransactions, NEW n \in Nat
  PROVE  /\ changeFileSize(t, n) \in Nat
         /\ t.maxWrittenOffset = 0 => changeFileSize(t, n) = n
         /\ t.maxWrittenOffset # 0 =>
              changeFileSize(t, n) = IF n >= t.fileOffset + t.maxWrittenOffset THEN n
                                     ELSE t.fileOffset + t.maxWrittenOffset
<1>1. CASE t.maxWrittenOffset = 0
  BY <1>1 DEF changeFileSize
<1>2. CASE t.maxWrittenOffset # 0
  <2> DEFINE end == t.fileOffset + t.maxWrittenOffset
  <2>1. end \in Nat
    <3>1. t.fileOffset \in PointerPages /\ t.maxWrittenOffset \in Nat
      BY <1>2 DEF FileTransactions
    <3>2. t.fileOffset \in Nat
      BY <3>1, PointerPagesAreOffsets
    <3> QED  BY <3>1, <3>2
  <2>2. changeFileSize(t, n) = Max({n, end})
    BY <1>2 DEF changeFileSize
  <2>3. Max({n, end}) = IF n >= end THEN n ELSE end
    BY <2>1, Larger
  <2> QED  BY <1>2, <2>1, <2>2, <2>3
<1> QED  BY <1>1, <1>2

(* What commitInode() writes.                                              *)
LEMMA CommittedFile ==
  ASSUME NEW t \in FileTransactions
  PROVE  LET f == commitInode(t).ino
         IN  /\ f \in Files
             /\ commitInode(t) \in FileTransactions
             /\ commitInode(t) = [t EXCEPT !.ino = f]
             /\ f.nbytes = changeFileSize(t, IF t.fileOffset = 0 THEN t.buf.nbytes
                                             ELSE t.ino.nbytes)
             /\ f.head = IF t.fileOffset = 0 THEN t.buf.head ELSE t.ino.head
             /\ \A b \in FileBlocks :
                  f.blocks[b] = IF b \in Mapped(t.fileOffset) THEN t.buf.blocks[b]
                                ELSE t.ino.blocks[b]
<1> DEFINE f == commitInode(t).ino
<1>1. CASE t.fileOffset = OFFSET_EMPTY
  <2>1. commitInode(t) = t /\ t.maxWrittenOffset = 0 /\ t.ino \in Files
    BY <1>1 DEF commitInode, FileTransactions
  <2>2. Mapped(OFFSET_EMPTY) = {}
    <3>1. \A b \in FileBlocks :
            /\ b \in Nat
            /\ INODE_FILE_DATA_SIZE + b * FS_BLOCK_SIZE \in Nat
      BY FileBlocksNumbered, Monotone, Sizes
    <3>2. \A b \in FileBlocks :
            calcIndirectBlockOffset(INODE_FILE_DATA_SIZE + b * FS_BLOCK_SIZE) \in Nat
      BY <3>1, PointerPageOf, PointerPagesAreOffsets
    <3> QED  BY <3>2 DEF Mapped, OFFSET_EMPTY
  <2>3. t = [t EXCEPT !.ino = t.ino]
    BY DEF FileTransactions
  <2>4. changeFileSize(t, t.ino.nbytes) = t.ino.nbytes
    BY <2>1 DEF changeFileSize
  <2> QED  BY <1>1, <2>1, <2>2, <2>3, <2>4 DEF OFFSET_EMPTY
<1>2. CASE t.fileOffset # OFFSET_EMPTY
  <2> DEFINE n == IF t.fileOffset = 0 THEN t.buf.nbytes ELSE t.ino.nbytes
             g == [nbytes |-> changeFileSize(t, n),
                   head   |-> IF t.fileOffset = 0 THEN t.buf.head ELSE t.ino.head,
                   blocks |-> [b \in FileBlocks |->
                                 IF b \in Mapped(t.fileOffset) THEN t.buf.blocks[b]
                                 ELSE t.ino.blocks[b]]]
  <2>1. commitInode(t) = [t EXCEPT !.ino = g]
    BY <1>2 DEF commitInode
  <2>2. t.buf \in Files /\ t.ino \in Files
    BY DEF FileTransactions
  <2>3. n \in Nat
    BY <2>2 DEF Files
  <2>4. changeFileSize(t, n) \in Nat
    BY <2>3, NewSize
  <2>5. g \in Files
    BY <2>2, <2>4 DEF Files
  <2>6. f = g
    BY <2>1 DEF FileTransactions
  <2>7. commitInode(t) \in FileTransactions
    <3> HIDE DEF g
    <3> QED  BY <2>1, <2>5 DEF FileTransactions
  <2> QED  BY <2>1, <2>5, <2>6, <2>7
<1> QED  BY <1>1, <1>2

(* read() and write() see the file as the transaction makes it.            *)
LEMMA ReadsSeen ==
  ASSUME NEW t \in FileTransactions, disk \in Files, NEW off \in Readable
  PROVE  readFileBlock(t, off) = DataAt(Seen(t), off)
<1>1. CASE ~ t.open
  BY <1>1 DEF readFileBlock, DataAt, Seen
<1>2. CASE t.open
  <2> DEFINE f == commitInode(t).ino
  <2>0. off \in Nat
    BY DEF Readable
  <2>1. /\ f.head = IF t.fileOffset = 0 THEN t.buf.head ELSE t.ino.head
        /\ \A b \in FileBlocks :
             f.blocks[b] = IF b \in Mapped(t.fileOffset) THEN t.buf.blocks[b]
                           ELSE t.ino.blocks[b]
    BY CommittedFile
  <2>2. t.fileOffset \in PointerPages \cup {OFFSET_EMPTY}
    BY DEF FileTransactions
  <2>3. Seen(t) = f
    BY <1>2 DEF Seen
  <2> HIDE DEF f
  <2>4. CASE off < INODE_FILE_DATA_SIZE
    <3>1. calcIndirectBlockOffset(off) = 0
      BY <2>0, <2>4, PointerPageOf, Sizes
    <3>2. isOffsetInIndirect(t, off) <=> t.fileOffset = 0
      BY <2>0, <2>2, <3>1, InPointerPage
    <3>3. DataAt(Seen(t), off) = f.head
      BY <2>3, <2>4 DEF DataAt
    <3>4. readFileBlock(t, off) = IF isOffsetInIndirect(t, off) THEN t.buf.head
                                  ELSE t.ino.head
      BY <1>2, <2>4 DEF readFileBlock
    <3> QED  BY <2>1, <3>2, <3>3, <3>4
  <2>5. CASE off >= INODE_FILE_DATA_SIZE
    <3> DEFINE b == BlockOf(off)
    <3>0. off <= MaxFileSize + FS_BLOCK_SIZE /\ ~ off < INODE_FILE_DATA_SIZE
      BY <2>0, <2>5, Sizes DEF Readable
    <3>1. b \in FileBlocks
      BY <2>0, <2>5, <3>0, BlockInFile
    <3>2. isOffsetInIndirect(t, off) <=> b \in Mapped(t.fileOffset)
      BY <2>0, <2>2, <2>5, <3>0, MappedBlock
    <3>3. DataAt(Seen(t), off) = f.blocks[b]
      BY <2>3, <3>0 DEF DataAt
    <3>4. readFileBlock(t, off) = IF isOffsetInIndirect(t, off) THEN t.buf.blocks[b]
                                  ELSE t.ino.blocks[b]
      BY <1>2, <3>0 DEF readFileBlock
    <3> QED  BY <2>1, <3>1, <3>2, <3>3, <3>4
  <2> QED  BY <2>0, <2>4, <2>5, Sizes
<1> QED  BY <1>1, <1>2

LEMMA SizeSeen ==
  ASSUME NEW t \in FileTransactions
  PROVE  getFileSize(t) = Seen(t).nbytes
<1>1. CASE t.open
  BY <1>1, CommittedFile DEF getFileSize, Seen
<1>2. CASE ~ t.open
  BY <1>2 DEF getFileSize, Seen
<1> QED  BY <1>1, <1>2

LEMMA SeenTyped ==
  ASSUME NEW t \in FileTransactions, disk \in Files
  PROVE  Seen(t) \in Files
BY CommittedFile DEF Seen

(* The data at an offset are bytes, as many as the block has.              *)
LEMMA DataTyped ==
  ASSUME NEW f \in Files, NEW off \in Readable
  PROVE  /\ DataAt(f, off) \in Seq(BYTE) /\ Len(DataAt(f, off)) = SizeAt(off)
         /\ PlaceInBlock(off) \in 0 .. SizeAt(off) - 1 /\ off - PlaceInBlock(off) \in Nat
<1>0. off \in Nat /\ f.head \in [1 .. INODE_FILE_DATA_SIZE -> BYTE]
      /\ f.blocks \in [FileBlocks -> [1 .. FS_BLOCK_SIZE -> BYTE]]
  BY DEF Readable, Files
<1>1. CASE off < INODE_FILE_DATA_SIZE
  <2>1. /\ DataAt(f, off) = f.head /\ SizeAt(off) = INODE_FILE_DATA_SIZE
        /\ PlaceInBlock(off) = off
    BY <1>1 DEF DataAt, SizeAt, PlaceInBlock
  <2> QED  BY <1>0, <1>1, <2>1, Sizes
<1>2. CASE off >= INODE_FILE_DATA_SIZE
  <2>0. off <= MaxFileSize + FS_BLOCK_SIZE /\ ~ off < INODE_FILE_DATA_SIZE
    BY <1>0, <1>2, Sizes DEF Readable
  <2>1. BlockOf(off) \in FileBlocks
    BY <1>0, <1>2, <2>0, BlockInFile
  <2>2. DataAt(f, off) \in [1 .. FS_BLOCK_SIZE -> BYTE] /\ SizeAt(off) = FS_BLOCK_SIZE
    BY <1>0, <2>0, <2>1 DEF DataAt, SizeAt
  <2>3. DataAt(f, off) \in Seq(BYTE) /\ Len(DataAt(f, off)) = FS_BLOCK_SIZE
    BY <2>2, Sizes
  <2> DEFINE m == BlockOf(off) * FS_BLOCK_SIZE
             r == PlaceInBlock(off)
  <2>4. /\ BlockOf(off) \in Nat /\ r \in 0 .. FS_BLOCK_SIZE - 1
        /\ off = INODE_FILE_DATA_SIZE + m + r
    BY <1>0, <1>2, OffsetInBlock
  <2>5. m \in Nat
    BY <2>4, Monotone, Sizes
  <2> HIDE DEF m, r
  <2>6. off - r \in Nat
    BY <2>4, <2>5, Sizes
  <2> QED  BY <2>2, <2>3, <2>4, <2>6 DEF r
<1> QED  BY <1>0, <1>1, <1>2, Sizes

-----------------------------------------------------------------------------
(* Writing.                                                                *)

LEMMA SameFile ==
  ASSUME NEW f \in Files, NEW g \in Files, f.nbytes = g.nbytes, f.head = g.head,
         \A b \in FileBlocks : f.blocks[b] = g.blocks[b]
  PROVE  f = g
<1>1. f.blocks = g.blocks
  <2>1. /\ f.blocks \in [FileBlocks -> [1 .. FS_BLOCK_SIZE -> BYTE]]
        /\ g.blocks \in [FileBlocks -> [1 .. FS_BLOCK_SIZE -> BYTE]]
    BY DEF Files
  <2> QED  BY <2>1
<1> QED  BY <1>1 DEF Files

(* No byte is lost when the buffer gets another pointer page.              *)
LEMMA PageChanged ==
  ASSUME NEW t \in FileTransactions, t.open, NEW off \in Nat
  PROVE  LET u == findIndirectEntriesBlock(commitInode(t), off)
         IN  /\ u \in FileTransactions /\ u.open
             /\ u.fileOffset = calcIndirectBlockOffset(off)
             /\ Seen(u) = Seen(t)
<1> DEFINE f == commitInode(t).ino
           u == findIndirectEntriesBlock(commitInode(t), off)
<1>1. f \in Files /\ commitInode(t) = [t EXCEPT !.ino = f]
  BY CommittedFile
<1>2. Seen(t) = f
  BY DEF Seen
<1>3. calcIndirectBlockOffset(off) \in PointerPages
  BY PointerPageOf
<1>4. u = [open |-> TRUE, fileOffset |-> calcIndirectBlockOffset(off),
           maxWrittenOffset |-> 0, ino |-> f, buf |-> f]
  <2>1. commitInode(t) = [open |-> TRUE, fileOffset |-> t.fileOffset,
           maxWrittenOffset |-> t.maxWrittenOffset, ino |-> f, buf |-> t.buf]
    <3> HIDE DEF f
    <3>1. t \in [open : BOOLEAN, fileOffset : PointerPages \cup {OFFSET_EMPTY},
                 maxWrittenOffset : Nat, ino : Files, buf : Files]
      BY DEF FileTransactions
    <3> QED  BY <1>1, <3>1
  <2> DEFINE c == commitInode(t)
             at == calcIndirectBlockOffset(off)
  <2>2. u = [c EXCEPT !.fileOffset = at, !.maxWrittenOffset = 0, !.buf = c.ino]
    BY DEF findIndirectEntriesBlock
  <2>3. c = [open |-> TRUE, fileOffset |-> t.fileOffset,
           maxWrittenOffset |-> t.maxWrittenOffset, ino |-> f, buf |-> t.buf]
    BY <2>1
  <2> HIDE DEF f, c, u, at
  <2>4. u = [open |-> TRUE, fileOffset |-> at, maxWrittenOffset |-> 0,
             ino |-> f, buf |-> f]
    BY <2>2, <2>3
  <2> QED  BY <2>4 DEF at
<1> HIDE DEF u, f
<1>5. u \in FileTransactions
  BY <1>1, <1>3, <1>4 DEF FileTransactions
<1> DEFINE g == commitInode(u).ino
<1>6. /\ g \in Files
      /\ g.nbytes = changeFileSize(u, IF u.fileOffset = 0 THEN u.buf.nbytes
                                      ELSE u.ino.nbytes)
      /\ g.head = IF u.fileOffset = 0 THEN u.buf.head ELSE u.ino.head
      /\ \A b \in FileBlocks :
           g.blocks[b] = IF b \in Mapped(u.fileOffset) THEN u.buf.blocks[b]
                         ELSE u.ino.blocks[b]
  BY <1>5, CommittedFile
<1>7. Seen(u) = g
  BY <1>4 DEF Seen
<1> HIDE DEF g
<1>8. g.nbytes = changeFileSize(u, f.nbytes) /\ u.maxWrittenOffset = 0
  BY <1>4, <1>6
<1>9. g.nbytes = f.nbytes
  BY <1>8 DEF changeFileSize
<1>10. g.head = f.head /\ \A b \in FileBlocks : g.blocks[b] = f.blocks[b]
  BY <1>4, <1>6
<1>11. g = f
  BY <1>1, <1>6, <1>9, <1>10, SameFile
<1> QED  BY <1>2, <1>4, <1>5, <1>7, <1>11 DEF u

(* The highest offset written raises the size of the file, and nothing     *)
(* else.                                                                   *)
LEMMA SizeRaised ==
  ASSUME NEW t \in FileTransactions, t.open, NEW max \in Nat \ {0},
         t.fileOffset \in PointerPages
  PROVE  LET v == changeTransactionMaxOffset(t, max)
             end == t.fileOffset + max
         IN  /\ v \in FileTransactions
             /\ \E m \in Nat \ {0} : v = [t EXCEPT !.maxWrittenOffset = m]
             /\ Seen(v).nbytes = IF Seen(t).nbytes >= end THEN Seen(t).nbytes ELSE end
             /\ Seen(v).head = Seen(t).head
             /\ \A b \in FileBlocks : Seen(v).blocks[b] = Seen(t).blocks[b]
<1> DEFINE m == IF max >= t.maxWrittenOffset THEN max ELSE t.maxWrittenOffset
           v == changeTransactionMaxOffset(t, max)
           n == IF t.fileOffset = 0 THEN t.buf.nbytes ELSE t.ino.nbytes
<1>1. t.maxWrittenOffset \in Nat /\ t.fileOffset \in Nat /\ t.open
      /\ t.buf \in Files /\ t.ino \in Files
  BY PointerPagesAreOffsets DEF FileTransactions
<1>2. Max({max, t.maxWrittenOffset}) = m
  BY <1>1, Larger
<1>3. v = [t EXCEPT !.maxWrittenOffset = m]
  BY <1>2 DEF changeTransactionMaxOffset
<1>4. m \in Nat \ {0}
  BY <1>1
<1>5. v \in FileTransactions /\ v.open /\ v.fileOffset = t.fileOffset
      /\ v.ino = t.ino /\ v.buf = t.buf /\ v.maxWrittenOffset = m
  <2> HIDE DEF m, v
  <2>1. t \in [open : BOOLEAN, fileOffset : PointerPages \cup {OFFSET_EMPTY},
               maxWrittenOffset : Nat, ino : Files, buf : Files]
    BY DEF FileTransactions
  <2>2. v = [open |-> TRUE, fileOffset |-> t.fileOffset, maxWrittenOffset |-> m,
             ino |-> t.ino, buf |-> t.buf]
    BY <1>3, <2>1
  <2>3. t.fileOffset # OFFSET_EMPTY
    BY <1>1 DEF OFFSET_EMPTY
  <2> QED  BY <1>4, <2>1, <2>2, <2>3 DEF FileTransactions
<1>6. n \in Nat
  BY <1>1 DEF Files
<1> HIDE DEF v
<1>7. Seen(v) = commitInode(v).ino /\ Seen(t) = commitInode(t).ino
  BY <1>5 DEF Seen
<1>8. /\ Seen(t).nbytes = changeFileSize(t, n)
      /\ Seen(v).nbytes = changeFileSize(v, n)
  BY <1>5, <1>7, CommittedFile
<1>9. Seen(v).head = Seen(t).head /\ \A b \in FileBlocks : Seen(v).blocks[b] = Seen(t).blocks[b]
  BY <1>5, <1>7, CommittedFile
<1> HIDE DEF n
<1>10. changeFileSize(v, n) = IF n >= t.fileOffset + m THEN n ELSE t.fileOffset + m
  BY <1>4, <1>5, <1>6, NewSize
<1>11. /\ t.maxWrittenOffset = 0 => changeFileSize(t, n) = n
       /\ t.maxWrittenOffset # 0 =>
            changeFileSize(t, n) = IF n >= t.fileOffset + t.maxWrittenOffset THEN n
                                   ELSE t.fileOffset + t.maxWrittenOffset
  BY <1>6, NewSize
<1>12. Seen(v).nbytes = IF Seen(t).nbytes >= t.fileOffset + max THEN Seen(t).nbytes
                        ELSE t.fileOffset + max
  BY <1>1, <1>6, <1>8, <1>10, <1>11
<1> QED  BY <1>3, <1>4, <1>5, <1>9, <1>12 DEF v

(* New data of the inode in the buffer, whose size is raised with them.    *)
LEMMA HeadReplaced ==
  ASSUME NEW v \in FileTransactions, v.open, v.fileOffset = 0,
         v.maxWrittenOffset # 0, NEW data \in [1 .. INODE_FILE_DATA_SIZE -> BYTE]
  PROVE  LET w == [v EXCEPT !.buf.nbytes = changeFileSize(v, v.buf.nbytes),
                            !.buf.head = data]
         IN  /\ w \in FileTransactions /\ w.open
             /\ Seen(w).nbytes = Seen(v).nbytes /\ Seen(w).head = data
             /\ \A b \in FileBlocks : Seen(w).blocks[b] = Seen(v).blocks[b]
<1> DEFINE n == changeFileSize(v, v.buf.nbytes)
           w == [v EXCEPT !.buf.nbytes = changeFileSize(v, v.buf.nbytes),
                          !.buf.head = data]
           g == [nbytes |-> n, head |-> data, blocks |-> v.buf.blocks]
<1>1. v \in [open : BOOLEAN, fileOffset : PointerPages \cup {OFFSET_EMPTY},
             maxWrittenOffset : Nat, ino : Files, buf : Files]
  BY DEF FileTransactions
<1>2. v.buf \in [nbytes : Nat, head : [1 .. INODE_FILE_DATA_SIZE -> BYTE],
                 blocks : [FileBlocks -> [1 .. FS_BLOCK_SIZE -> BYTE]]]
  BY <1>1 DEF Files
<1>3. /\ v.buf.nbytes \in Nat /\ n \in Nat
      /\ n = IF v.buf.nbytes >= v.fileOffset + v.maxWrittenOffset THEN v.buf.nbytes
             ELSE v.fileOffset + v.maxWrittenOffset
  BY <1>2, NewSize
<1> HIDE DEF n
<1>4. w = [v EXCEPT !.buf.nbytes = n, !.buf.head = data]
  BY DEF n
<1> HIDE DEF w
<1>5. w = [open |-> TRUE, fileOffset |-> 0, maxWrittenOffset |-> v.maxWrittenOffset,
           ino |-> v.ino, buf |-> g]
  BY <1>1, <1>2, <1>4
<1>6. g \in Files
  BY <1>2, <1>3 DEF Files
<1>7. w.fileOffset = 0 /\ w.maxWrittenOffset = v.maxWrittenOffset /\ w.buf = g
      /\ w.open /\ w.ino = v.ino
  BY <1>5
<1>8. w \in FileTransactions
  <2> HIDE DEF g
  <2> QED  BY <1>1, <1>5, <1>6 DEF FileTransactions, OFFSET_EMPTY
<1>9. Seen(w) = commitInode(w).ino /\ Seen(v) = commitInode(v).ino
  BY <1>7 DEF Seen
<1>10. Seen(w).nbytes = changeFileSize(w, n) /\ Seen(v).nbytes = n
  BY <1>7, <1>8, <1>9, CommittedFile DEF n
<1>11. changeFileSize(w, n) = n
  <2>1. changeFileSize(w, n) = IF n >= v.fileOffset + v.maxWrittenOffset THEN n
                               ELSE v.fileOffset + v.maxWrittenOffset
    BY <1>3, <1>7, <1>8, NewSize
  <2> QED  BY <1>1, <1>3, <2>1
<1>12. Seen(w).head = data
  BY <1>7, <1>8, <1>9, CommittedFile
<1>13. \A b \in FileBlocks : Seen(w).blocks[b] = Seen(v).blocks[b]
  BY <1>7, <1>8, <1>9, CommittedFile
<1> QED  BY <1>7, <1>8, <1>10, <1>11, <1>12, <1>13 DEF w

(* The pointer page in the buffer says which blocks it maps, and no other. *)
LEMMA BlocksReplaced ==
  ASSUME NEW v \in FileTransactions, v.open,
         NEW w \in FileTransactions, w.open, w.fileOffset = v.fileOffset,
         w.maxWrittenOffset = v.maxWrittenOffset, w.ino = v.ino,
         w.buf.nbytes = v.buf.nbytes, w.buf.head = v.buf.head
  PROVE  /\ Seen(w).nbytes = Seen(v).nbytes /\ Seen(w).head = Seen(v).head
         /\ \A c \in FileBlocks :
              IF c \in Mapped(v.fileOffset)
              THEN Seen(w).blocks[c] = w.buf.blocks[c] /\ Seen(v).blocks[c] = v.buf.blocks[c]
              ELSE Seen(w).blocks[c] = Seen(v).blocks[c]
<1>1. Seen(w) = commitInode(w).ino /\ Seen(v) = commitInode(v).ino
  BY DEF Seen
<1> DEFINE n == IF v.fileOffset = 0 THEN v.buf.nbytes ELSE v.ino.nbytes
<1>2. Seen(w).nbytes = changeFileSize(w, n) /\ Seen(v).nbytes = changeFileSize(v, n)
  BY <1>1, CommittedFile
<1>3. changeFileSize(w, n) = changeFileSize(v, n)
  BY DEF changeFileSize
<1>4. Seen(w).head = Seen(v).head
  BY <1>1, CommittedFile
<1>5. \A c \in FileBlocks :
        /\ Seen(w).blocks[c] = IF c \in Mapped(v.fileOffset) THEN w.buf.blocks[c]
                               ELSE v.ino.blocks[c]
        /\ Seen(v).blocks[c] = IF c \in Mapped(v.fileOffset) THEN v.buf.blocks[c]
                               ELSE v.ino.blocks[c]
  BY <1>1, CommittedFile
<1> QED  BY <1>2, <1>3, <1>4, <1>5

(* Where the block of an offset, or the data of the inode, starts.         *)
StartOf(off) == off - PlaceInBlock(off)

LEMMA StartsOfBlocks ==
  ASSUME NEW p \in Nat
  PROVE  /\ p < INODE_FILE_DATA_SIZE => StartOf(p) = 0
         /\ p >= INODE_FILE_DATA_SIZE =>
              /\ StartOf(p) = INODE_FILE_DATA_SIZE + BlockOf(p) * FS_BLOCK_SIZE
              /\ StartOf(p) >= INODE_FILE_DATA_SIZE
              /\ StartOf(p) \in Nat /\ StartOf(p) <= p
<1>1. CASE p < INODE_FILE_DATA_SIZE
  BY <1>1, Sizes DEF StartOf, PlaceInBlock
<1>2. CASE p >= INODE_FILE_DATA_SIZE
  <2> DEFINE m == BlockOf(p) * FS_BLOCK_SIZE
             r == PlaceInBlock(p)
  <2>1. /\ BlockOf(p) \in Nat /\ r \in 0 .. FS_BLOCK_SIZE - 1
        /\ p = INODE_FILE_DATA_SIZE + m + r
    BY <1>2, OffsetInBlock
  <2>2. m \in Nat
    BY <2>1, Monotone, Sizes
  <2>3. StartOf(p) = p - r
    BY DEF StartOf
  <2> HIDE DEF r, m
  <2>4. StartOf(p) = INODE_FILE_DATA_SIZE + m
    BY <2>1, <2>2, <2>3, Sizes
  <2> QED  BY <1>2, <2>1, <2>2, <2>4, Sizes DEF m
<1> QED  BY <1>1, <1>2, Sizes

LEMMA SameBlock ==
  ASSUME NEW p \in Nat, NEW q \in Nat,
         p >= INODE_FILE_DATA_SIZE, q >= INODE_FILE_DATA_SIZE
  PROVE  StartOf(p) = StartOf(q) <=> BlockOf(p) = BlockOf(q)
<1>1. \A x \in Nat : x >= INODE_FILE_DATA_SIZE =>
        /\ BlockOf(x) \in Nat
        /\ StartOf(x) = INODE_FILE_DATA_SIZE + BlockOf(x) * FS_BLOCK_SIZE
        /\ BlockOf(StartOf(x)) = BlockOf(x)
  <2> SUFFICES ASSUME NEW x \in Nat, x >= INODE_FILE_DATA_SIZE
               PROVE  /\ BlockOf(x) \in Nat
                      /\ StartOf(x) = INODE_FILE_DATA_SIZE + BlockOf(x) * FS_BLOCK_SIZE
                      /\ BlockOf(StartOf(x)) = BlockOf(x)
    OBVIOUS
  <2>1. BlockOf(x) \in Nat
    BY OffsetInBlock
  <2>2. StartOf(x) = INODE_FILE_DATA_SIZE + BlockOf(x) * FS_BLOCK_SIZE
    BY StartsOfBlocks
  <2>3. 0 \in 0 .. FS_BLOCK_SIZE - 1
    BY Sizes
  <2>4. BlockOf(INODE_FILE_DATA_SIZE + BlockOf(x) * FS_BLOCK_SIZE + 0) = BlockOf(x)
    BY <2>1, <2>3, OffsetAt
  <2>5. INODE_FILE_DATA_SIZE + BlockOf(x) * FS_BLOCK_SIZE + 0 = StartOf(x)
    <3>1. BlockOf(x) * FS_BLOCK_SIZE \in Nat
      BY <2>1, Monotone, Sizes
    <3> QED  BY <2>2, <3>1, Sizes
  <2> QED  BY <2>1, <2>2, <2>4, <2>5
<1> QED  BY <1>1

(* writeFileBlock() replaces one block, raises the size to its end, and    *)
(* changes nothing else of the file.                                       *)
LEMMA BlockWritten ==
  ASSUME NEW t \in FileTransactions, t.open, NEW off \in Readable, StartOf(off) = off,
         NEW len \in Nat \ {0}, NEW data \in [1 .. SizeAt(off) -> BYTE]
  PROVE  LET u == writeFileBlock(t, off, len, data)
         IN  /\ u \in FileTransactions /\ u.open
             /\ Seen(u).nbytes = IF Seen(t).nbytes >= off + len THEN Seen(t).nbytes
                                 ELSE off + len
             /\ \A p \in Readable :
                  DataAt(Seen(u), p) = IF StartOf(p) = off THEN data
                                       ELSE DataAt(Seen(t), p)
<1> DEFINE s == IF isOffsetInIndirect(t, off) THEN t
                ELSE findIndirectEntriesBlock(commitInode(t), off)
           at == calcIndirectBlockOffset(off)
           max == IF off < INODE_FILE_DATA_SIZE THEN len
                  ELSE IF s.fileOffset = 0 THEN off + len
                  ELSE CALC_OFFSET_IN_INDIRECT_SIZE(off) + len
           v == changeTransactionMaxOffset(s, max)
           u == writeFileBlock(t, off, len, data)
<1>0. off \in Nat
  BY DEF Readable
<1>1. s \in FileTransactions /\ s.open /\ s.fileOffset = at /\ Seen(s) = Seen(t)
  <2>1. CASE isOffsetInIndirect(t, off)
    <3>1. t.fileOffset \in PointerPages \cup {OFFSET_EMPTY}
      BY DEF FileTransactions
    <3> QED  BY <1>0, <2>1, <3>1, InPointerPage
  <2>2. CASE ~ isOffsetInIndirect(t, off)
    BY <1>0, <2>2, PageChanged
  <2> QED  BY <2>1, <2>2
<1>2. at \in PointerPages /\ at \in Nat
  BY <1>0, PointerPageOf, PointerPagesAreOffsets
<1>3. u = IF off < INODE_FILE_DATA_SIZE
          THEN [v EXCEPT !.buf.nbytes = changeFileSize(v, v.buf.nbytes),
                         !.buf.head = data]
          ELSE [v EXCEPT !.buf.blocks[BlockOf(off)] = data]
  BY DEF writeFileBlock
<1> HIDE DEF s, u
<1>4. max \in Nat \ {0} /\ at + max = off + len
  <2>1. CASE off < INODE_FILE_DATA_SIZE
    <3>1. off = 0 /\ at = 0
      BY <1>0, <2>1, StartsOfBlocks, PointerPageOf, Sizes
    <3> QED  BY <2>1, <3>1
  <2>2. CASE off >= INODE_FILE_DATA_SIZE /\ off < INDIRECT_DATA_OFFSET
    <3>1. at = 0
      BY <1>0, <2>2, PointerPageOf
    <3> QED  BY <1>0, <1>1, <2>2, <3>1, Sizes
  <2>3. CASE off >= INDIRECT_DATA_OFFSET
    <3> DEFINE c == CALC_OFFSET_IN_INDIRECT_SIZE(off)
    <3>1. c \in 0 .. INODE_INDIRECT_DATA_SIZE - 1 /\ at >= INDIRECT_DATA_OFFSET
          /\ off = at + c
      BY <1>0, <2>3, PointerPageOf
    <3>2. max = c + len
      BY <1>0, <1>1, <2>3, <3>1, Sizes
    <3> HIDE DEF c, max, at
    <3> QED  BY <1>2, <3>1, <3>2, Sizes
  <2> QED  BY <1>0, <2>1, <2>2, <2>3, Sizes
<1> HIDE DEF max, at
<1>5. /\ v \in FileTransactions
      /\ \E m \in Nat \ {0} : v = [s EXCEPT !.maxWrittenOffset = m]
      /\ Seen(v).nbytes = IF Seen(s).nbytes >= s.fileOffset + max THEN Seen(s).nbytes
                          ELSE s.fileOffset + max
      /\ Seen(v).head = Seen(s).head
      /\ \A b \in FileBlocks : Seen(v).blocks[b] = Seen(s).blocks[b]
  BY <1>1, <1>2, <1>4, SizeRaised
<1> HIDE DEF v
<1>6. v.open /\ v.fileOffset = at /\ v.maxWrittenOffset # 0
  <2>1. s \in [open : BOOLEAN, fileOffset : PointerPages \cup {OFFSET_EMPTY},
               maxWrittenOffset : Nat, ino : Files, buf : Files]
    BY <1>1 DEF FileTransactions
  <2>2. PICK m \in Nat \ {0} : v = [s EXCEPT !.maxWrittenOffset = m]
    BY <1>5
  <2> QED  BY <1>1, <2>1, <2>2
<1>7. Seen(v).nbytes = IF Seen(t).nbytes >= off + len THEN Seen(t).nbytes ELSE off + len
  BY <1>1, <1>4, <1>5
<1>8. CASE off < INODE_FILE_DATA_SIZE
  <2>1. off = 0 /\ at = 0
    BY <1>0, <1>8, StartsOfBlocks, PointerPageOf, Sizes DEF at
  <2>2. u = [v EXCEPT !.buf.nbytes = changeFileSize(v, v.buf.nbytes), !.buf.head = data]
    BY <1>3, <1>8
  <2>3. data \in [1 .. INODE_FILE_DATA_SIZE -> BYTE]
    BY <1>8 DEF SizeAt
  <2>4. /\ u \in FileTransactions /\ u.open
        /\ Seen(u).nbytes = Seen(v).nbytes /\ Seen(u).head = data
        /\ \A b \in FileBlocks : Seen(u).blocks[b] = Seen(v).blocks[b]
    <3> DEFINE w == [v EXCEPT !.buf.nbytes = changeFileSize(v, v.buf.nbytes),
                              !.buf.head = data]
    <3>1. v.fileOffset = 0
      BY <1>6, <2>1
    <3>2. /\ w \in FileTransactions /\ w.open
          /\ Seen(w).nbytes = Seen(v).nbytes /\ Seen(w).head = data
          /\ \A b \in FileBlocks : Seen(w).blocks[b] = Seen(v).blocks[b]
      BY <1>5, <1>6, <2>3, <3>1, HeadReplaced
    <3>3. u = w
      BY <2>2
    <3> HIDE DEF w
    <3> QED  BY <3>2, <3>3
  <2>5. ASSUME NEW p \in Readable
        PROVE  DataAt(Seen(u), p) = IF StartOf(p) = off THEN data ELSE DataAt(Seen(t), p)
    <3>1. p \in Nat
      BY DEF Readable
    <3>2. CASE p < INODE_FILE_DATA_SIZE
      BY <2>1, <2>4, <3>1, <3>2, StartsOfBlocks DEF DataAt
    <3>3. CASE p >= INODE_FILE_DATA_SIZE
      <4>1. ~ p < INODE_FILE_DATA_SIZE /\ BlockOf(p) \in FileBlocks
        BY <3>1, <3>3, BlockInFile, Sizes DEF Readable
      <4>2. StartOf(p) # off
        BY <2>1, <3>1, <3>3, StartsOfBlocks, Sizes
      <4> QED  BY <1>1, <1>5, <2>4, <4>1, <4>2 DEF DataAt
    <3> QED  BY <3>1, <3>2, <3>3, Sizes
  <2> QED  BY <1>7, <2>4, <2>5 DEF u
<1>9. CASE off >= INODE_FILE_DATA_SIZE
  <2> DEFINE b == BlockOf(off)
  <2>1. ~ off < INODE_FILE_DATA_SIZE /\ off <= MaxFileSize + FS_BLOCK_SIZE
    BY <1>0, <1>9, Sizes DEF Readable
  <2>2. b \in Mapped(at)
    <3>1. b \in FileBlocks
      BY <1>0, <1>9, <2>1, BlockInFile
    <3>2. at = calcIndirectBlockOffset(INODE_FILE_DATA_SIZE + b * FS_BLOCK_SIZE)
      BY <1>0, <1>9, PointerPageOfBlock DEF at
    <3> QED  BY <3>1, <3>2 DEF Mapped
  <2>3. data \in [1 .. FS_BLOCK_SIZE -> BYTE]
    BY <2>1 DEF SizeAt
  <2>4. u = [v EXCEPT !.buf.blocks[b] = data]
    BY <1>3, <2>1
  <2> HIDE DEF b
  <2>5. /\ u \in FileTransactions /\ u.open
        /\ Seen(u).nbytes = Seen(v).nbytes /\ Seen(u).head = Seen(v).head
        /\ \A c \in FileBlocks :
             Seen(u).blocks[c] = IF c = b THEN data ELSE Seen(v).blocks[c]
    <3> DEFINE blocks == [v.buf.blocks EXCEPT ![b] = data]
               g == [nbytes |-> v.buf.nbytes, head |-> v.buf.head, blocks |-> blocks]
    <3>1. b \in Mapped(v.fileOffset) /\ b \in FileBlocks
      BY <1>6, <2>2 DEF Mapped
    <3>2. v \in [open : BOOLEAN, fileOffset : PointerPages \cup {OFFSET_EMPTY},
                 maxWrittenOffset : Nat, ino : Files, buf : Files]
      BY <1>5 DEF FileTransactions
    <3>3. v.buf \in [nbytes : Nat, head : [1 .. INODE_FILE_DATA_SIZE -> BYTE],
                     blocks : [FileBlocks -> [1 .. FS_BLOCK_SIZE -> BYTE]]]
      BY <3>2 DEF Files
    <3>4. u = [v EXCEPT !.buf = [v.buf EXCEPT !.blocks = blocks]]
      BY <2>4, <3>2, <3>3
    <3>5. /\ blocks \in [FileBlocks -> [1 .. FS_BLOCK_SIZE -> BYTE]]
          /\ \A c \in FileBlocks : blocks[c] = IF c = b THEN data ELSE v.buf.blocks[c]
      BY <2>3, <3>1, <3>3
    <3>6. [v.buf EXCEPT !.blocks = blocks] = g
      BY <3>3
    <3> HIDE DEF blocks, g
    <3>7. u = [open |-> TRUE, fileOffset |-> v.fileOffset,
               maxWrittenOffset |-> v.maxWrittenOffset, ino |-> v.ino, buf |-> g]
      BY <1>6, <3>2, <3>4, <3>6
    <3>8. g \in Files
      BY <3>3, <3>5 DEF Files, g
    <3>9. u \in FileTransactions
      <4>1. v.fileOffset = OFFSET_EMPTY => v.maxWrittenOffset = 0
        BY <1>5 DEF FileTransactions
      <4> QED  BY <3>2, <3>7, <3>8, <4>1 DEF FileTransactions
    <3>10. /\ u.open /\ u.fileOffset = v.fileOffset /\ u.ino = v.ino
           /\ u.maxWrittenOffset = v.maxWrittenOffset
           /\ u.buf.nbytes = v.buf.nbytes /\ u.buf.head = v.buf.head
           /\ \A c \in FileBlocks :
                u.buf.blocks[c] = IF c = b THEN data ELSE v.buf.blocks[c]
      BY <3>5, <3>7 DEF g
    <3>11. /\ Seen(u).nbytes = Seen(v).nbytes /\ Seen(u).head = Seen(v).head
           /\ \A c \in FileBlocks :
                IF c \in Mapped(v.fileOffset)
                THEN Seen(u).blocks[c] = u.buf.blocks[c] /\ Seen(v).blocks[c] = v.buf.blocks[c]
                ELSE Seen(u).blocks[c] = Seen(v).blocks[c]
      BY <1>5, <1>6, <3>9, <3>10, BlocksReplaced
    <3> QED  BY <3>1, <3>9, <3>10, <3>11
  <2>6. ASSUME NEW p \in Readable
        PROVE  DataAt(Seen(u), p) = IF StartOf(p) = off THEN data ELSE DataAt(Seen(t), p)
    <3>1. p \in Nat
      BY DEF Readable
    <3>2. CASE p < INODE_FILE_DATA_SIZE
      <4>1. StartOf(p) # off
        BY <1>0, <1>9, <3>1, <3>2, StartsOfBlocks, Sizes
      <4> QED  BY <1>1, <1>5, <2>5, <3>2, <4>1 DEF DataAt
    <3>3. CASE p >= INODE_FILE_DATA_SIZE
      <4>1. ~ p < INODE_FILE_DATA_SIZE /\ BlockOf(p) \in FileBlocks
        BY <3>1, <3>3, BlockInFile, Sizes DEF Readable
      <4>2. StartOf(p) = off <=> BlockOf(p) = b
        BY <1>0, <1>9, <3>1, <3>3, SameBlock DEF b
      <4> QED  BY <1>1, <1>5, <2>5, <4>1, <4>2 DEF DataAt
    <3> QED  BY <3>1, <3>2, <3>3, Sizes
  <2> QED  BY <1>7, <2>5, <2>6 DEF u
<1> QED  BY <1>0, <1>8, <1>9, Sizes

-----------------------------------------------------------------------------
(* Bytes.                                                                  *)

(* The offsets of a block.                                                 *)
LEMMA WithinBlock ==
  ASSUME NEW q \in Nat, NEW i \in 0 .. SizeAt(q) - 1
  PROVE  LET p == StartOf(q) + i
         IN  /\ p \in Nat /\ StartOf(p) = StartOf(q) /\ PlaceInBlock(p) = i
             /\ SizeAt(p) = SizeAt(q)
             /\ \A f : DataAt(f, p) = DataAt(f, q)
<1> DEFINE p == StartOf(q) + i
<1>1. CASE q < INODE_FILE_DATA_SIZE
  <2>1. StartOf(q) = 0 /\ SizeAt(q) = INODE_FILE_DATA_SIZE
    BY <1>1, StartsOfBlocks DEF SizeAt
  <2>2. p = i /\ p \in Nat /\ p < INODE_FILE_DATA_SIZE
    BY <2>1, Sizes
  <2> HIDE DEF p
  <2>3. StartOf(p) = 0 /\ SizeAt(p) = INODE_FILE_DATA_SIZE /\ PlaceInBlock(p) = i
    BY <2>2, StartsOfBlocks DEF SizeAt, PlaceInBlock
  <2>4. \A f : DataAt(f, p) = DataAt(f, q)
    BY <1>1, <2>2 DEF DataAt
  <2> QED  BY <2>1, <2>2, <2>3, <2>4 DEF p
<1>2. CASE q >= INODE_FILE_DATA_SIZE
  <2> DEFINE b == BlockOf(q)
             m == b * FS_BLOCK_SIZE
  <2>1. ~ q < INODE_FILE_DATA_SIZE /\ SizeAt(q) = FS_BLOCK_SIZE
    BY <1>2, Sizes DEF SizeAt
  <2>2. b \in Nat /\ m \in Nat /\ StartOf(q) = INODE_FILE_DATA_SIZE + m
    <3>1. b \in Nat
      BY <1>2, OffsetInBlock
    <3> QED  BY <1>2, <3>1, StartsOfBlocks, Monotone, Sizes
  <2>3. i \in 0 .. FS_BLOCK_SIZE - 1
    BY <2>1
  <2>4. LET o == INODE_FILE_DATA_SIZE + b * FS_BLOCK_SIZE + i
        IN  /\ o \in Nat /\ o >= INODE_FILE_DATA_SIZE
            /\ BlockOf(o) = b /\ PlaceInBlock(o) = i
    BY <2>2, <2>3, OffsetAt
  <2>5. p = INODE_FILE_DATA_SIZE + m + i
    BY <2>2
  <2> HIDE DEF p
  <2>6. p \in Nat /\ p >= INODE_FILE_DATA_SIZE /\ BlockOf(p) = b /\ PlaceInBlock(p) = i
    BY <2>4, <2>5
  <2>7. ~ p < INODE_FILE_DATA_SIZE /\ SizeAt(p) = FS_BLOCK_SIZE
    BY <2>6, Sizes DEF SizeAt
  <2>8. StartOf(p) = StartOf(q)
    BY <1>2, <2>6, SameBlock
  <2>9. \A f : DataAt(f, p) = DataAt(f, q)
    BY <2>1, <2>6, <2>7 DEF DataAt
  <2> QED  BY <2>1, <2>6, <2>7, <2>8, <2>9 DEF p
<1> QED  BY <1>1, <1>2, Sizes

(* An offset is in its block.                                              *)
LEMMA OwnBlock ==
  ASSUME NEW p \in Nat
  PROVE  /\ SizeAt(p) \in Nat \ {0}
         /\ PlaceInBlock(p) \in 0 .. SizeAt(p) - 1
         /\ StartOf(p) \in Nat /\ p = StartOf(p) + PlaceInBlock(p)
<1>1. CASE p < INODE_FILE_DATA_SIZE
  BY <1>1, StartsOfBlocks, Sizes DEF PlaceInBlock, SizeAt
<1>2. CASE p >= INODE_FILE_DATA_SIZE
  <2>1. ~ p < INODE_FILE_DATA_SIZE
    BY <1>2, Sizes
  <2>2. /\ PlaceInBlock(p) \in 0 .. FS_BLOCK_SIZE - 1 /\ SizeAt(p) = FS_BLOCK_SIZE
        /\ StartOf(p) \in Nat
    BY <1>2, <2>1, OffsetInBlock, StartsOfBlocks DEF SizeAt
  <2>3. StartOf(p) = p - PlaceInBlock(p)
    BY DEF StartOf
  <2> QED  BY <2>2, <2>3, Sizes
<1> QED  BY <1>1, <1>2, Sizes

(* A block starts where its first byte does.                               *)
LEMMA StartOfStart ==
  ASSUME NEW q \in Nat
  PROVE  /\ StartOf(q) \in Nat /\ StartOf(StartOf(q)) = StartOf(q)
         /\ SizeAt(StartOf(q)) = SizeAt(q)
         /\ \A f : DataAt(f, StartOf(q)) = DataAt(f, q)
<1>1. SizeAt(q) \in Nat \ {0} /\ StartOf(q) \in Nat
  BY OwnBlock
<1>2. 0 \in 0 .. SizeAt(q) - 1 /\ StartOf(q) + 0 = StartOf(q)
  BY <1>1
<1>3. LET p == StartOf(q) + 0
      IN  /\ StartOf(p) = StartOf(q) /\ SizeAt(p) = SizeAt(q)
          /\ \A f : DataAt(f, p) = DataAt(f, q)
  BY <1>2, WithinBlock
<1> QED  BY <1>1, <1>2, <1>3

LEMMA Copied ==
  ASSUME NEW S, NEW data \in Seq(S), NEW bytes \in Seq(S), NEW at \in 0 .. Len(data)
  PROVE  LET c == fsMemcpy(data, at, bytes)
             end == at + Len(bytes)
         IN  /\ c \in Seq(S)
             /\ Len(c) = IF Len(data) >= end THEN Len(data) ELSE end
             /\ \A i \in 1 .. Len(c) :
                  c[i] = IF i \in at + 1 .. end THEN bytes[i - at] ELSE data[i]
<1> DEFINE end == at + Len(bytes)
           n == IF Len(data) >= end THEN Len(data) ELSE end
           c == fsMemcpy(data, at, bytes)
<1>1. end \in Nat /\ n \in Nat /\ Max({Len(data), end}) = n
  BY Larger
<1>2. c = [i \in 1 .. n |-> IF i \in at + 1 .. end THEN bytes[i - at] ELSE data[i]]
  BY <1>1 DEF fsMemcpy
<1>3. \A i \in 1 .. n : (IF i \in at + 1 .. end THEN bytes[i - at] ELSE data[i]) \in S
  <2> SUFFICES ASSUME NEW i \in 1 .. n
               PROVE  (IF i \in at + 1 .. end THEN bytes[i - at] ELSE data[i]) \in S
    OBVIOUS
  <2>1. CASE i \in at + 1 .. end
    <3>1. i - at \in 1 .. Len(bytes)
      BY <2>1
    <3> QED  BY <2>1, <3>1
  <2>2. CASE i \notin at + 1 .. end
    <3>1. i \in 1 .. Len(data)
      BY <1>1, <2>2
    <3> QED  BY <2>2, <3>1
  <2> QED  BY <2>1, <2>2
<1> HIDE DEF c, n
<1>4. c \in Seq(S) /\ Len(c) = n
  BY <1>1, <1>2, <1>3
<1> QED  BY <1>2, <1>4 DEF c, n

ByteOf(f, p) == DataAt(f, p)[PlaceInBlock(p) + 1]

(* The bytes of a file.                                                    *)
Holds(f, s) == /\ f.nbytes = Len(s)
               /\ \A p \in 0 .. Len(s) - 1 : ByteOf(f, p) = s[p + 1]

(* n bytes from offset, all in one block, that starts at off.              *)
LEMMA Overwritten ==
  ASSUME NEW f \in Files, NEW g \in Files, NEW s \in Seq(BYTE), Holds(f, s),
         Len(s) <= MaxFileSize,
         NEW from \in 0 .. Len(s), NEW bytes \in Seq(BYTE),
         from + Len(bytes) <= MaxFileSize,
         NEW data \in Seq(BYTE), Len(data) = SizeAt(from),
         PlaceInBlock(from) + Len(bytes) <= SizeAt(from),
         \A i \in 1 .. SizeAt(from) :
           \/ i \in PlaceInBlock(from) + 1 .. PlaceInBlock(from) + Len(bytes)
           \/ data[i] = DataAt(f, from)[i],
         g.nbytes = (IF f.nbytes >= from + Len(bytes) THEN f.nbytes
                     ELSE from + Len(bytes)),
         \A p \in Readable :
           DataAt(g, p) = IF StartOf(p) = StartOf(from)
                          THEN fsMemcpy(data, PlaceInBlock(from), bytes)
                          ELSE DataAt(f, p)
  PROVE  LET c == fsMemcpy(s, from, bytes)
         IN  c \in Seq(BYTE) /\ Len(c) <= MaxFileSize /\ Holds(g, c)
<1> DEFINE c == fsMemcpy(s, from, bytes)
           at == PlaceInBlock(from)
           n == Len(bytes)
           off == StartOf(from)
           e == fsMemcpy(data, at, bytes)
<1>1. /\ c \in Seq(BYTE)
      /\ Len(c) = IF Len(s) >= from + n THEN Len(s) ELSE from + n
      /\ \A i \in 1 .. Len(c) :
           c[i] = IF i \in from + 1 .. from + n THEN bytes[i - from] ELSE s[i]
  BY Copied
<1>2. /\ SizeAt(from) \in Nat \ {0} /\ at \in 0 .. SizeAt(from) - 1
      /\ off \in Nat /\ from = off + at
  BY OwnBlock
<1>3. /\ Len(e) = SizeAt(from)
      /\ \A i \in 1 .. Len(e) :
           e[i] = IF i \in at + 1 .. at + n THEN bytes[i - at] ELSE data[i]
  <2>1. at \in 0 .. Len(data)
    BY <1>2
  <2>2. LET end == at + Len(bytes)
        IN  /\ Len(e) = IF Len(data) >= end THEN Len(data) ELSE end
            /\ \A i \in 1 .. Len(e) :
                 e[i] = IF i \in at + 1 .. end THEN bytes[i - at] ELSE data[i]
    BY <2>1, Copied
  <2> QED  BY <1>2, <2>2
<1>4. n \in Nat /\ Len(s) \in Nat
  OBVIOUS
<1>5. Len(c) = g.nbytes /\ Len(c) <= MaxFileSize
  BY <1>1, <1>2, <1>4 DEF Holds
<1>6. \A p \in Readable : DataAt(g, p) = IF StartOf(p) = off THEN e ELSE DataAt(f, p)
  OBVIOUS
<1>7. \A i \in 1 .. SizeAt(from) : i \in at + 1 .. at + n \/ data[i] = DataAt(f, from)[i]
  OBVIOUS
<1>8. \A i \in 0 .. SizeAt(from) - 1 : StartOf(off + i) = off
  BY WithinBlock
<1>9. at + n <= SizeAt(from)
  OBVIOUS
<1> HIDE DEF c, e, at, n, off
<1>10. ASSUME NEW p \in 0 .. Len(c) - 1
       PROVE  ByteOf(g, p) = c[p + 1]
  <2>1. p \in Nat /\ p \in Readable /\ p + 1 \in 1 .. Len(c)
    <3>1. Len(c) \in Nat /\ Len(c) <= MaxFileSize /\ MaxFileSize \in Nat
      BY <1>1, <1>5, FileIOAssumption
    <3>2. p \in Nat /\ p <= MaxFileSize + FS_BLOCK_SIZE /\ p + 1 \in 1 .. Len(c)
      BY <3>1, Sizes
    <3> QED  BY <3>2 DEF Readable
  <2>2. p < Len(s) => ByteOf(f, p) = s[p + 1]
    BY <2>1 DEF Holds
  <2> DEFINE j == PlaceInBlock(p)
  <2>3. /\ SizeAt(p) \in Nat \ {0} /\ j \in 0 .. SizeAt(p) - 1
        /\ p = StartOf(p) + j
    BY <2>1, OwnBlock
  <2>4. p + 1 \notin from + 1 .. from + n => p < Len(s)
    BY <1>1, <1>4, <2>1
  <2>5. c[p + 1] = IF p + 1 \in from + 1 .. from + n THEN bytes[p + 1 - from] ELSE s[p + 1]
    BY <1>1, <2>1
  <2> HIDE DEF j
  <2>6. CASE StartOf(p) = off
    <3>1. SizeAt(p) = SizeAt(from) /\ DataAt(f, p) = DataAt(f, from)
      <4>1. /\ SizeAt(StartOf(p)) = SizeAt(p)
            /\ DataAt(f, StartOf(p)) = DataAt(f, p)
        BY <2>1, StartOfStart
      <4>2. /\ SizeAt(off) = SizeAt(from)
            /\ DataAt(f, off) = DataAt(f, from)
        BY StartOfStart DEF off
      <4> QED  BY <2>6, <4>1, <4>2
    <3>2. DataAt(g, p) = e
      BY <1>6, <2>1, <2>6
    <3>3. ByteOf(g, p) = e[j + 1]
      BY <3>2 DEF ByteOf, j
    <3>4. ByteOf(f, p) = DataAt(f, from)[j + 1]
      BY <3>1 DEF ByteOf, j
    <3>5. j + 1 \in 1 .. SizeAt(from)
      BY <2>3, <3>1
    <3>6. p + 1 - from = j + 1 - at
      BY <1>2, <2>3, <2>6
    <3>7. p + 1 \in from + 1 .. from + n <=> j + 1 \in at + 1 .. at + n
      BY <1>2, <1>4, <2>1, <2>3, <2>6
    <3>8. e[j + 1] = IF j + 1 \in at + 1 .. at + n THEN bytes[j + 1 - at] ELSE data[j + 1]
      <4> DEFINE i == j + 1
      <4>1. i \in 1 .. Len(e)
        BY <1>3, <3>5
      <4> HIDE DEF i
      <4>2. e[i] = IF i \in at + 1 .. at + n THEN bytes[i - at] ELSE data[i]
        BY <1>3, <4>1
      <4> QED  BY <1>2, <2>3, <4>1, <4>2 DEF i
    <3>9. CASE j + 1 \in at + 1 .. at + n
      BY <2>5, <3>3, <3>6, <3>7, <3>8, <3>9
    <3>10. CASE j + 1 \notin at + 1 .. at + n
      BY <1>7, <2>2, <2>4, <2>5, <3>3, <3>4, <3>5, <3>7, <3>8, <3>10
    <3> QED  BY <3>9, <3>10
  <2>7. CASE StartOf(p) # off
    <3>1. ByteOf(g, p) = ByteOf(f, p)
      BY <1>6, <2>1, <2>7 DEF ByteOf
    <3>2. p + 1 \notin from + 1 .. from + n
      <4> SUFFICES ASSUME p + 1 \in from + 1 .. from + n PROVE FALSE
        OBVIOUS
      <4> DEFINE i == p - off
      <4>1. i \in 0 .. SizeAt(from) - 1 /\ off + i = p
        BY <1>2, <1>4, <1>9, <2>1
      <4>2. StartOf(off + i) = off
        BY <1>8, <4>1
      <4> QED  BY <2>7, <4>1, <4>2
    <3> QED  BY <2>2, <2>4, <2>5, <3>1, <3>2
  <2> QED  BY <2>6, <2>7
<1>11. c \in Seq(BYTE) /\ Len(c) <= MaxFileSize /\ Holds(g, c)
  BY <1>1, <1>5, <1>10 DEF Holds
<1> QED  BY <1>11 DEF c

-----------------------------------------------------------------------------
(***************************************************************************)
(* The inductive invariant: the file that the transaction makes holds the  *)
(* bytes written, that on disk the bytes committed, and a running write()  *)
(* that is not at its first block is at the start of one, where the file   *)
(* ends or before.                                                         *)
(***************************************************************************)
FileInv ==
  /\ disk \in Files /\ tr \in FileTransactions
  /\ offset \in Nat /\ writes \in Nat /\ io \in [left : Nat, done : Nat]
  /\ goal \in Seq(BYTE) /\ Len(goal) <= MaxFileSize
  /\ durable \in Seq(BYTE) /\ Len(durable) <= MaxFileSize
  /\ Holds(Seen(tr), goal) /\ Holds(disk, durable)
  /\ io # Idle => /\ tr.open /\ offset >= INODE_FILE_DATA_SIZE
                  /\ StartOf(offset) = offset /\ offset <= Len(goal)
                  /\ offset + io.left <= MaxFileSize

LEMMA InitFile == Init => FileInv
<1> SUFFICES ASSUME Init PROVE FileInv
  OBVIOUS
<1>1. disk \in Files /\ tr \in FileTransactions /\ ~ tr.open
  BY EmptyFileTyped DEF Init, NoTr
<1>2. Seen(tr) = EmptyFile /\ disk = EmptyFile /\ EmptyFile.nbytes = 0
  BY <1>1 DEF Init, Seen, EmptyFile
<1>3. goal = <<>> /\ durable = <<>> /\ io = Idle /\ offset = 0 /\ writes = 0
  BY DEF Init
<1>4. Idle \in [left : Nat, done : Nat]
  BY DEF Idle
<1>5. \A f : f.nbytes = 0 => Holds(f, <<>>)
  BY DEF Holds
<1> QED  BY <1>1, <1>2, <1>3, <1>4, <1>5, FileIOAssumption DEF FileInv

LEMMA NextBlock ==
  ASSUME NEW q \in Nat
  PROVE  LET p == StartOf(q) + SizeAt(q)
         IN  p \in Nat /\ p >= INODE_FILE_DATA_SIZE /\ StartOf(p) = p
<1> DEFINE p == StartOf(q) + SizeAt(q)
<1>0. 0 \in 0 .. FS_BLOCK_SIZE - 1
  BY Sizes
<1>1. PICK b \in Nat : p = INODE_FILE_DATA_SIZE + b * FS_BLOCK_SIZE
  <2>1. CASE q < INODE_FILE_DATA_SIZE
    <3>1. p = INODE_FILE_DATA_SIZE
      BY <2>1, StartsOfBlocks, Sizes DEF SizeAt
    <3>2. p = INODE_FILE_DATA_SIZE + 0 * FS_BLOCK_SIZE
      BY <3>1, Sizes
    <3> QED  BY <3>2
  <2>2. CASE q >= INODE_FILE_DATA_SIZE
    <3> DEFINE c == BlockOf(q)
    <3>1. c \in Nat /\ StartOf(q) = INODE_FILE_DATA_SIZE + c * FS_BLOCK_SIZE
      BY <2>2, OffsetInBlock, StartsOfBlocks
    <3>2. SizeAt(q) = FS_BLOCK_SIZE
      BY <2>2, Sizes DEF SizeAt
    <3> HIDE DEF c
    <3>3. (c + 1) * FS_BLOCK_SIZE = c * FS_BLOCK_SIZE + FS_BLOCK_SIZE
          /\ c * FS_BLOCK_SIZE \in Nat
      BY <3>1, Distributes, Monotone, Sizes
    <3>4. p = INODE_FILE_DATA_SIZE + (c + 1) * FS_BLOCK_SIZE
      BY <3>1, <3>2, <3>3, Sizes
    <3> QED  BY <3>1, <3>4
  <2> QED  BY <2>1, <2>2, Sizes
<1> HIDE DEF p
<1>2. b * FS_BLOCK_SIZE \in Nat
  BY <1>1, Monotone, Sizes
<1>3. INODE_FILE_DATA_SIZE + b * FS_BLOCK_SIZE + 0 = p
  BY <1>1, <1>2, Sizes
<1>4. p \in Nat /\ p >= INODE_FILE_DATA_SIZE /\ PlaceInBlock(p) = 0
  BY <1>0, <1>3, OffsetAt
<1>5. StartOf(p) = p
  BY <1>4 DEF StartOf
<1> QED  BY <1>4, <1>5 DEF p

(* What getTidByFileId() returns is open, and changes no byte.             *)
LEMMA TransactionFound ==
  ASSUME FileInv
  PROVE  /\ getTidByFileId \in FileTransactions /\ getTidByFileId.open
         /\ Seen(getTidByFileId) = Seen(tr)
<1>1. CASE tr.open
  BY <1>1 DEF getTidByFileId, FileInv
<1>2. CASE ~ tr.open
  <2> DEFINE t == getTidByFileId
  <2>1. t = [open |-> TRUE, fileOffset |-> OFFSET_EMPTY, maxWrittenOffset |-> 0,
             ino |-> disk, buf |-> EmptyFile]
    BY <1>2 DEF getTidByFileId, NoTr
  <2>2. t \in FileTransactions
    BY <2>1, EmptyFileTyped DEF FileTransactions, FileInv
  <2> HIDE DEF t
  <2>3. commitInode(t) = t /\ t.ino = disk /\ t.open
    BY <2>1 DEF commitInode
  <2>4. Seen(t) = disk /\ Seen(tr) = disk
    BY <1>2, <2>3 DEF Seen
  <2> QED  BY <2>2, <2>3, <2>4 DEF t
<1> QED  BY <1>1, <1>2

(* n bytes of a call of write().                                           *)
LEMMA BytesTyped ==
  ASSUME NEW w \in Nat, NEW from \in Nat, NEW n \in Nat
  PROVE  Bytes(w, from, n) \in Seq(BYTE) /\ Len(Bytes(w, from, n)) = n
<1>1. \A i \in 1 .. n : <<w, from + i>> \in BYTE
  BY DEF BYTE
<1> QED  BY <1>1 DEF Bytes

(* What an abort or a power failure leaves is the file on disk.            *)
LEMMA AbortedFile ==
  ASSUME FileInv, tr' = NoTr, goal' = durable, io' = Idle, offset' \in Nat,
         writes' \in Nat, UNCHANGED <<disk, durable>>
  PROVE  FileInv'
<1>1. tr' \in FileTransactions /\ ~ tr'.open
  BY EmptyFileTyped DEF NoTr
<1>2. Seen(tr)' = disk
  BY <1>1 DEF Seen
<1>3. Idle \in [left : Nat, done : Nat]
  BY DEF Idle
<1> QED  BY <1>1, <1>2, <1>3 DEF FileInv, Holds, ByteOf, DataAt

(* One block of write(), when what it does not write of the block is what  *)
(* the file has there.                                                     *)
LEMMA BlockStep ==
  ASSUME FileInv,
         NEW t \in FileTransactions, t.open, Seen(t) = Seen(tr),
         NEW w \in Nat, NEW data \in Seq(BYTE), NEW bytes \in Seq(BYTE),
         NEW left \in Nat, NEW done \in Nat,
         offset <= Len(goal), offset + left <= MaxFileSize,
         bytes # << >>, Len(bytes) <= left,
         Len(data) = SizeAt(offset),
         PlaceInBlock(offset) + Len(bytes) <= SizeAt(offset),
         Len(bytes) < left => PlaceInBlock(offset) + Len(bytes) = SizeAt(offset),
         \A i \in 1 .. SizeAt(offset) :
           \/ i \in PlaceInBlock(offset) + 1 .. PlaceInBlock(offset) + Len(bytes)
           \/ data[i] = DataAt(Seen(tr), offset)[i],
         WriteBlock(t, w, StartOf(offset), data, PlaceInBlock(offset), bytes, left, done)
  PROVE  FileInv'
<1>0. PICK f \in Files, s \in Seq(BYTE), from \in Nat :
        f = Seen(tr) /\ s = goal /\ from = offset
  BY SeenTyped DEF FileInv
<1> DEFINE n == Len(bytes)
           at == PlaceInBlock(from)
           off == StartOf(from)
           e == fsMemcpy(data, at, bytes)
           c == fsMemcpy(s, from, bytes)
           u == writeFileBlock(t, off, at + n, e)
<1>1. /\ SizeAt(from) \in Nat \ {0} /\ at \in 0 .. SizeAt(from) - 1
      /\ off \in Nat /\ from = off + at
  BY OwnBlock
<1>2. n \in Nat \ {0} /\ at + n \in Nat \ {0} /\ n <= left /\ at + n <= SizeAt(from)
      /\ (n < left => at + n = SizeAt(from))
  BY <1>0, <1>1
<1>3. /\ from <= Len(s) /\ from + n <= MaxFileSize /\ from + left <= MaxFileSize
      /\ Len(s) <= MaxFileSize /\ Holds(f, s) /\ Seen(t) = f
  <2> HIDE DEF n
  <2>1. from <= Len(s) /\ from + left <= MaxFileSize
      /\ Len(s) <= MaxFileSize /\ Holds(f, s) /\ Seen(t) = f
    BY <1>0 DEF FileInv
  <2> QED  BY <1>2, <2>1, FileIOAssumption
<1>4. CASE /\ tr' = writeFileBlock(t, StartOf(offset), PlaceInBlock(offset) + Len(bytes),
                                   fsMemcpy(data, PlaceInBlock(offset), bytes))
           /\ goal' = fsMemcpy(goal, offset, bytes)
           /\ offset' = offset + Len(bytes)
           /\ io' = IF left = Len(bytes) THEN Idle
                    ELSE [left |-> left - Len(bytes), done |-> done + Len(bytes)]
  <2>1. e \in [1 .. SizeAt(off) -> BYTE]
    <3>1. at \in 0 .. Len(data)
      BY <1>0, <1>1
    <3>2. e \in Seq(BYTE)
          /\ Len(e) = IF Len(data) >= at + Len(bytes) THEN Len(data) ELSE at + Len(bytes)
      BY <3>1, Copied
    <3>3. Len(e) = SizeAt(from)
      BY <1>0, <1>1, <1>2, <3>2
    <3>4. SizeAt(off) = SizeAt(from)
      BY StartOfStart
    <3> HIDE DEF e
    <3> QED  BY <3>2, <3>3, <3>4
  <2>2. off \in Readable /\ StartOf(off) = off
    <3>1. off <= MaxFileSize + FS_BLOCK_SIZE
      <4> HIDE DEF off, at
      <4> QED  BY <1>1, <1>2, <1>3, FileIOAssumption, Sizes
    <3> QED  BY <1>1, <3>1, StartOfStart DEF Readable
  <2>3. off + (at + n) = from + n
    <3> HIDE DEF off, at, n
    <3> QED  BY <1>1, <1>2
  <2> HIDE DEF n, off, at
  <2>4. /\ u \in FileTransactions /\ u.open
        /\ Seen(u).nbytes = IF Seen(t).nbytes >= off + (at + n) THEN Seen(t).nbytes
                            ELSE off + (at + n)
        /\ \A p \in Readable :
             DataAt(Seen(u), p) = IF StartOf(p) = off THEN e
                                  ELSE DataAt(Seen(t), p)
    <3> HIDE DEF e
    <3> QED  BY <1>2, <2>1, <2>2, BlockWritten
  <2>5. PICK g \in Files : g = Seen(u)
    BY <2>4, SeenTyped DEF FileInv
  <2> HIDE DEF u
  <2>6. /\ g.nbytes = IF f.nbytes >= from + n THEN f.nbytes ELSE from + n
        /\ \A p \in Readable :
             DataAt(g, p) = IF StartOf(p) = off THEN e ELSE DataAt(f, p)
    BY <1>3, <2>3, <2>4, <2>5
  <2>7. c \in Seq(BYTE) /\ Len(c) <= MaxFileSize /\ Holds(g, c)
    <3>1. from \in 0 .. Len(s)
      BY <1>3
    <3>2. \A i \in 1 .. SizeAt(from) :
            \/ i \in PlaceInBlock(from) + 1 .. PlaceInBlock(from) + Len(bytes)
            \/ data[i] = DataAt(f, from)[i]
      BY <1>0
    <3>3. /\ Holds(f, s) /\ Len(s) <= MaxFileSize
          /\ from + Len(bytes) <= MaxFileSize /\ Len(data) = SizeAt(from)
          /\ PlaceInBlock(from) + Len(bytes) <= SizeAt(from)
      BY <1>0, <1>2, <1>3 DEF n, at
    <3>4. g.nbytes = (IF f.nbytes >= from + Len(bytes) THEN f.nbytes
                      ELSE from + Len(bytes))
      BY <2>6 DEF n
    <3>5. \A p \in Readable :
            DataAt(g, p) = IF StartOf(p) = StartOf(from)
                           THEN fsMemcpy(data, PlaceInBlock(from), bytes)
                           ELSE DataAt(f, p)
      BY <2>6 DEF off, at
    <3>6. LET d == fsMemcpy(s, from, bytes)
          IN  d \in Seq(BYTE) /\ Len(d) <= MaxFileSize /\ Holds(g, d)
      BY ONLY <3>1, <3>2, <3>3, <3>4, <3>5, Overwritten, f \in Files, g \in Files,
              s \in Seq(BYTE), bytes \in Seq(BYTE), data \in Seq(BYTE)
    <3> QED  BY <3>6
  <2>8. tr' = u /\ goal' = c /\ offset' = from + n
        /\ io' = IF left = n THEN Idle ELSE [left |-> left - n, done |-> done + n]
    BY <1>0, <1>4 DEF n, off, at, u
  <2>9. writes' = w /\ disk' = disk /\ durable' = durable
    BY DEF WriteBlock
  <2>10. Seen(tr)' = g
    BY <2>4, <2>5, <2>8 DEF Seen
  <2>11. io' \in [left : Nat, done : Nat]
    <3>1. CASE left = n
      BY <2>8, <3>1 DEF Idle
    <3>2. CASE left # n
      <4>1. left - n \in Nat /\ done + n \in Nat
        BY <1>2, <3>2
      <4> QED  BY <2>8, <3>2, <4>1
    <3> QED  BY <3>1, <3>2
  <2>12. ASSUME io' # Idle
         PROVE  /\ tr'.open /\ offset' >= INODE_FILE_DATA_SIZE
                /\ StartOf(offset') = offset' /\ offset' <= Len(goal')
                /\ offset' + io'.left <= MaxFileSize
    <3>1. left # n /\ io'.left = left - n
      BY <2>8, <2>12
    <3>2. from + n = off + SizeAt(from)
      BY <1>1, <1>2, <3>1
    <3>3. from + n \in Nat /\ from + n >= INODE_FILE_DATA_SIZE
          /\ StartOf(from + n) = from + n
      BY <3>2, NextBlock DEF off
    <3>4. offset' = from + n
      BY <2>8
    <3>5. Len(c) = IF Len(s) >= from + n THEN Len(s) ELSE from + n
      <4>1. from \in 0 .. Len(s)
        BY <1>3
      <4> QED  BY <4>1, Copied DEF n
    <3>6. from + n <= Len(c)
      BY <1>2, <3>5
    <3>7. from + n + (left - n) <= MaxFileSize
      BY <1>2, <1>3
    <3>8. StartOf(offset') = offset'
      BY <3>3, <3>4
    <3> HIDE DEF c
    <3> QED  BY <2>4, <2>8, <3>1, <3>3, <3>4, <3>6, <3>7, <3>8
  <2>13. Holds(Seen(tr), goal)'
    <3> HIDE DEF c
    <3> QED  BY <2>7, <2>8, <2>10 DEF Holds, ByteOf, DataAt
  <2>14. Holds(disk, durable)'
    BY <2>9 DEF FileInv, Holds, ByteOf, DataAt
  <2>15. offset' \in Nat
    BY <1>2, <2>8
  <2>16. goal' \in Seq(BYTE) /\ Len(goal') <= MaxFileSize /\ tr' \in FileTransactions
    BY <2>4, <2>7, <2>8
  <2>17. disk' \in Files /\ durable' \in Seq(BYTE) /\ Len(durable') <= MaxFileSize
         /\ writes' \in Nat
    BY <2>9 DEF FileInv
  <2> HIDE DEF c
  <2>18. io' # Idle => /\ tr'.open /\ offset' >= INODE_FILE_DATA_SIZE
                       /\ StartOf(offset') = offset' /\ offset' <= Len(goal')
                       /\ offset' + io'.left <= MaxFileSize
    BY <2>12
  <2> QED  BY <2>11, <2>13, <2>14, <2>15, <2>16, <2>17, <2>18
           DEF FileInv, Idle, StartOf, PlaceInBlock, CALC_OFFSET_IN_FILE_BLOCK
<1>5. CASE /\ tr' = NoTr /\ goal' = durable /\ io' = Idle
           /\ UNCHANGED offset
  <2>1. writes' \in Nat /\ offset' \in Nat /\ UNCHANGED <<disk, durable>>
    BY <1>5 DEF WriteBlock, FileInv
  <2> QED  BY <1>5, <2>1, AbortedFile
<1>6. \/ /\ tr' = writeFileBlock(t, StartOf(offset), PlaceInBlock(offset) + Len(bytes),
                                 fsMemcpy(data, PlaceInBlock(offset), bytes))
         /\ goal' = fsMemcpy(goal, offset, bytes)
         /\ offset' = offset + Len(bytes)
         /\ io' = IF left = Len(bytes) THEN Idle
                  ELSE [left |-> left - Len(bytes), done |-> done + Len(bytes)]
      \/ tr' = NoTr /\ goal' = durable /\ io' = Idle /\ UNCHANGED offset
  BY DEF WriteBlock
<1> QED  BY <1>4, <1>5, <1>6

LEMMA FirstSizeIs ==
  ASSUME NEW off \in Nat, NEW count \in Nat
  PROVE  FirstSize(off, count) = IF count <= SizeAt(off) - PlaceInBlock(off) THEN count
                                 ELSE SizeAt(off) - PlaceInBlock(off)
<1> DEFINE room == SizeAt(off) - PlaceInBlock(off)
<1>1. FirstSize(off, count) = Min({count, room})
  BY DEF FirstSize, SizeAt, PlaceInBlock
<1>2. room \in Nat
  BY OwnBlock
<1> HIDE DEF room
<1>3. FirstSize(off, count) = IF count <= room THEN count ELSE room
  BY <1>1, <1>2, Smaller
<1> QED  BY <1>3 DEF room

(* The block that a call of write() or read() starts in.                   *)
LEMMA DataRead ==
  ASSUME FileInv, NEW t \in FileTransactions, Seen(t) = Seen(tr),
         NEW off \in Nat, off <= MaxFileSize
  PROVE  /\ off \in Readable
         /\ readFileBlock(t, off) = DataAt(Seen(tr), off)
         /\ readFileBlock(t, off) \in Seq(BYTE)
         /\ Len(readFileBlock(t, off)) = SizeAt(off)
<1>1. off \in Readable
  BY FileIOAssumption, Sizes DEF Readable
<1>2. readFileBlock(t, off) = DataAt(Seen(tr), off)
  BY <1>1, ReadsSeen DEF FileInv
<1>3. Seen(tr) \in Files
  BY SeenTyped DEF FileInv
<1> QED  BY <1>1, <1>2, <1>3, DataTyped

LEMMA FileSizeIs ==
  ASSUME FileInv
  PROVE  getFileSize(tr) = Len(goal) /\ Len(goal) \in Nat /\ Len(goal) <= MaxFileSize
BY SizeSeen DEF FileInv, Holds

LEMMA WriteFirstStep == FileInv /\ WriteFirst => FileInv'
<1> SUFFICES ASSUME FileInv, WriteFirst PROVE FileInv'
  OBVIOUS
<1>1. PICK count \in Counts :
        /\ offset + count <= MaxFileSize
        /\ WriteBlock(getTidByFileId, writes + 1, offset - PlaceInBlock(offset),
                      readFileBlock(getTidByFileId, offset), PlaceInBlock(offset),
                      Bytes(writes + 1, 0, FirstSize(offset, count)), count, 0)
  BY DEF WriteFirst
<1>2. PICK t \in FileTransactions : t = getTidByFileId
  BY TransactionFound
<1>3. t.open /\ Seen(t) = Seen(tr)
  BY <1>2, TransactionFound
<1>4. offset \in Nat /\ offset <= Len(goal) /\ writes \in Nat
  BY FileSizeIs DEF FileInv, WriteFirst
<1>5. count \in Nat \ {0} /\ offset <= MaxFileSize
  BY <1>1, <1>4, FileIOAssumption
<1>6. PICK data \in Seq(BYTE) :
        /\ data = readFileBlock(t, offset) /\ data = DataAt(Seen(tr), offset)
        /\ Len(data) = SizeAt(offset)
  BY <1>3, <1>4, <1>5, DataRead
<1>7. /\ SizeAt(offset) \in Nat \ {0}
      /\ PlaceInBlock(offset) \in 0 .. SizeAt(offset) - 1
  BY <1>4, OwnBlock
<1>8. FirstSize(offset, count) = IF count <= SizeAt(offset) - PlaceInBlock(offset) THEN count
                                 ELSE SizeAt(offset) - PlaceInBlock(offset)
  BY <1>4, <1>5, FirstSizeIs
<1>9. PICK n \in Nat : n = FirstSize(offset, count)
  BY <1>5, <1>7, <1>8
<1>10. /\ n # 0 /\ n <= count /\ PlaceInBlock(offset) + n <= SizeAt(offset)
       /\ n < count => PlaceInBlock(offset) + n = SizeAt(offset)
  BY <1>5, <1>7, <1>8, <1>9
<1>11. PICK w \in Nat : w = writes + 1
  BY <1>4
<1>12. PICK bytes \in Seq(BYTE) : bytes = Bytes(w, 0, n) /\ Len(bytes) = n
  BY <1>11, BytesTyped
<1>13. WriteBlock(t, w, StartOf(offset), data, PlaceInBlock(offset), bytes, count, 0)
  BY <1>1, <1>2, <1>6, <1>9, <1>11, <1>12 DEF StartOf
<1>14. bytes # << >>
  BY <1>10, <1>12
<1> QED  BY <1>1, <1>3, <1>4, <1>5, <1>6, <1>10, <1>12, <1>13, <1>14, BlockStep

(* The blocks after the first start where the last one ended.              *)
LEMMA AtBlock ==
  ASSUME FileInv, io # Idle
  PROVE  /\ offset \in Nat /\ StartOf(offset) = offset /\ PlaceInBlock(offset) = 0
         /\ SizeAt(offset) = FS_BLOCK_SIZE /\ offset <= Len(goal)
         /\ tr.open /\ tr \in FileTransactions
         /\ offset + io.left <= MaxFileSize /\ offset <= MaxFileSize
<1>1. /\ offset \in Nat /\ StartOf(offset) = offset /\ offset >= INODE_FILE_DATA_SIZE
      /\ offset <= Len(goal) /\ tr.open /\ tr \in FileTransactions
      /\ offset + io.left <= MaxFileSize /\ io.left \in Nat
  BY DEF FileInv
<1>2. offset <= MaxFileSize
  BY <1>1, FileIOAssumption
<1>3. /\ PlaceInBlock(offset) \in 0 .. SizeAt(offset) - 1 /\ SizeAt(offset) \in Nat
      /\ offset = StartOf(offset) + PlaceInBlock(offset)
  BY <1>1, OwnBlock
<1>4. SizeAt(offset) = FS_BLOCK_SIZE
  BY <1>1, Sizes DEF SizeAt
<1> QED  BY <1>1, <1>2, <1>3, <1>4

LEMMA WriteLoopStep == FileInv /\ WriteLoop => FileInv'
<1> SUFFICES ASSUME FileInv, WriteLoop PROVE FileInv'
  OBVIOUS
<1>1. /\ io.left > FS_BLOCK_SIZE
      /\ WriteBlock(tr, writes, offset, Blank(FS_BLOCK_SIZE), 0,
                    Bytes(writes, io.done, FS_BLOCK_SIZE), io.left, io.done)
  BY DEF WriteLoop
<1>2. io # Idle /\ io.left \in Nat /\ io.done \in Nat /\ writes \in Nat
  BY <1>1, Sizes DEF FileInv, Idle
<1>3. PICK t \in FileTransactions : t = tr
  BY DEF FileInv
<1>4. t.open /\ Seen(t) = Seen(tr)
  BY <1>2, <1>3, AtBlock
<1>5. PICK left \in Nat, done \in Nat, w \in Nat :
        left = io.left /\ done = io.done /\ w = writes
  BY <1>2
<1>6. Blank(FS_BLOCK_SIZE) \in Seq(BYTE) /\ Len(Blank(FS_BLOCK_SIZE)) = FS_BLOCK_SIZE
  BY Sizes DEF Blank, EmptyByte, BYTE
<1>7. PICK bytes \in Seq(BYTE) :
        bytes = Bytes(w, done, FS_BLOCK_SIZE) /\ Len(bytes) = FS_BLOCK_SIZE
  BY BytesTyped, Sizes
<1>8. WriteBlock(t, w, StartOf(offset), Blank(FS_BLOCK_SIZE), PlaceInBlock(offset),
                 bytes, left, done)
  BY <1>1, <1>2, <1>3, <1>5, <1>7, AtBlock
<1>9. bytes # << >>
  BY <1>7, Sizes
<1>10. /\ Len(Blank(FS_BLOCK_SIZE)) = SizeAt(offset)
       /\ PlaceInBlock(offset) + Len(bytes) = SizeAt(offset)
       /\ Len(bytes) <= left /\ SizeAt(offset) \in Nat
  BY <1>1, <1>2, <1>5, <1>6, <1>7, AtBlock, Sizes
<1>11. \A i \in 1 .. SizeAt(offset) :
         i \in PlaceInBlock(offset) + 1 .. PlaceInBlock(offset) + Len(bytes)
  BY <1>2, <1>10, AtBlock
<1>12. offset <= Len(goal) /\ offset + left <= MaxFileSize
  BY <1>2, <1>5, AtBlock
<1>13. PICK data \in Seq(BYTE) : data = Blank(FS_BLOCK_SIZE)
  BY <1>6
<1>14. /\ Len(data) = SizeAt(offset)
       /\ WriteBlock(t, w, StartOf(offset), data, PlaceInBlock(offset), bytes, left, done)
       /\ PlaceInBlock(offset) + Len(bytes) <= SizeAt(offset)
  BY <1>8, <1>10, <1>13
<1> QED  BY <1>4, <1>9, <1>10, <1>11, <1>12, <1>14, BlockStep

LEMMA WriteLastStep == FileInv /\ WriteLast => FileInv'
<1> SUFFICES ASSUME FileInv, WriteLast PROVE FileInv'
  OBVIOUS
<1>1. /\ io.left \in 1 .. FS_BLOCK_SIZE
      /\ WriteBlock(tr, writes, offset, readFileBlock(tr, offset), 0,
                    Bytes(writes, io.done, io.left), io.left, io.done)
  BY DEF WriteLast
<1>2. io # Idle /\ io.left \in Nat /\ io.done \in Nat /\ writes \in Nat
  BY <1>1 DEF FileInv, Idle
<1>3. PICK t \in FileTransactions : t = tr
  BY DEF FileInv
<1>4. t.open /\ Seen(t) = Seen(tr)
  BY <1>2, <1>3, AtBlock
<1>5. PICK left \in Nat, done \in Nat, w \in Nat :
        left = io.left /\ done = io.done /\ w = writes
  BY <1>2
<1>6. PICK data \in Seq(BYTE) :
        /\ data = readFileBlock(t, offset) /\ data = DataAt(Seen(tr), offset)
        /\ Len(data) = SizeAt(offset)
  BY <1>2, <1>4, AtBlock, DataRead
<1>7. PICK bytes \in Seq(BYTE) : bytes = Bytes(w, done, left) /\ Len(bytes) = left
  BY BytesTyped
<1>8. WriteBlock(t, w, StartOf(offset), data, PlaceInBlock(offset), bytes, left, done)
  BY <1>1, <1>2, <1>3, <1>5, <1>6, <1>7, AtBlock
<1>9. bytes # << >> /\ Len(bytes) <= left /\ ~ Len(bytes) < left
  BY <1>1, <1>5, <1>7
<1>10. PlaceInBlock(offset) + Len(bytes) <= SizeAt(offset)
  BY <1>1, <1>2, <1>5, <1>7, AtBlock, Sizes
<1>11. offset <= Len(goal) /\ offset + left <= MaxFileSize
  BY <1>2, <1>5, AtBlock
<1> QED  BY <1>4, <1>6, <1>8, <1>9, <1>10, <1>11, BlockStep

(* What a step that changes no page preserves.                             *)
LEMMA OffsetMoved ==
  ASSUME FileInv, io = Idle, offset' \in Nat,
         UNCHANGED <<disk, tr, io, writes, goal, durable>>
  PROVE  FileInv'
BY DEF FileInv, Holds, ByteOf, DataAt, Seen

LEMMA LseekStep == FileInv /\ Lseek => FileInv'
<1> SUFFICES ASSUME FileInv, Lseek PROVE FileInv'
  OBVIOUS
<1>1. offset' \in Nat
  BY FileSizeIs DEF Lseek
<1> QED  BY <1>1, OffsetMoved DEF Lseek

LEMMA FsyncStep == FileInv /\ Fsync => FileInv'
<1> SUFFICES ASSUME FileInv, Fsync PROVE FileInv'
  OBVIOUS
<1>1. /\ io = Idle /\ tr.open /\ disk' = commitInode(tr).ino /\ tr' = NoTr
      /\ durable' = goal /\ UNCHANGED <<offset, io, writes, goal>>
  BY DEF Fsync
<1>2. disk' = Seen(tr) /\ disk' \in Files
  BY <1>1, SeenTyped DEF Seen, FileInv
<1>3. tr' \in FileTransactions /\ ~ tr'.open
  BY <1>1, EmptyFileTyped DEF NoTr
<1>4. Seen(tr)' = disk'
  BY <1>3 DEF Seen
<1>5. PICK f \in Files : f = Seen(tr)
  BY SeenTyped DEF FileInv
<1>6. Holds(f, goal)
  BY <1>5 DEF FileInv
<1>7. Holds(Seen(tr), goal)' /\ Holds(disk, durable)'
  BY <1>1, <1>2, <1>4, <1>5, <1>6 DEF Holds, ByteOf, DataAt
<1> QED  BY <1>1, <1>2, <1>3, <1>7 DEF FileInv

LEMMA AbortStep == FileInv /\ Abort => FileInv'
<1> SUFFICES ASSUME FileInv, Abort PROVE FileInv'
  OBVIOUS
<1>1. offset' \in Nat /\ writes' \in Nat /\ io' = Idle
  BY DEF FileInv, Abort
<1> QED  BY <1>1, AbortedFile DEF Abort

LEMMA PowerFailureStep == FileInv /\ PowerFailure => FileInv'
<1> SUFFICES ASSUME FileInv, PowerFailure PROVE FileInv'
  OBVIOUS
<1>1. offset' \in Nat /\ writes' \in Nat
  BY DEF FileInv, PowerFailure
<1> QED  BY <1>1, AbortedFile DEF PowerFailure

-----------------------------------------------------------------------------
(* Reading.                                                                *)

LEMMA LeastNumber ==
  ASSUME NEW S \in SUBSET Nat, S # {}
  PROVE  \E n \in S : \A m \in S : n <= m
<1> DEFINE Less == OpToRel(<, Nat)
<1>1. IsWellFoundedOn(Less, Nat)
  BY NatLessThanWellFounded
<1>2. PICK x \in S : \A y \in S : ~ (<<y, x>> \in Less)
  <2> HIDE DEF Less
  <2> QED  BY <1>1, WFMin
<1>3. \A y \in S : ~ (y < x)
  BY <1>2 DEF OpToRel
<1> QED  BY <1>3

(* One round of the loop of read().                                        *)
ReadBlock(r) ==
  IF r.left > FS_BLOCK_SIZE /\ r.size = FS_BLOCK_SIZE
  THEN [off   |-> r.off + FS_BLOCK_SIZE,
        left  |-> r.left - r.size,
        size  |-> CutAtEnd(r.off + FS_BLOCK_SIZE, r.size),
        bytes |-> r.bytes \o readFileBlock(tr, r.off)]
  ELSE r

(* f gives the state of the loop after each of n rounds.                   *)
Rounds(start, n, f) ==
  f = [k \in 0 .. n |-> IF k = 0 THEN start ELSE ReadBlock(f[k - 1])]

LEMMA RoundsEach ==
  ASSUME NEW start, NEW n \in Nat, NEW f, Rounds(start, n, f)
  PROVE  \A k \in 0 .. n : f[k] = IF k = 0 THEN start ELSE ReadBlock(f[k - 1])
BY DEF Rounds

(* There is such a function for every number of rounds: the least number   *)
(* without one would be one more than a number that has it.                *)
LEMMA RoundsExist ==
  ASSUME NEW start, NEW n \in Nat
  PROVE  \E f : Rounds(start, n, f)
<1> DEFINE Without == {m \in Nat : ~ \E f : Rounds(start, m, f)}
<1> SUFFICES ASSUME Without # {} PROVE FALSE
  OBVIOUS
<1>1. PICK m \in Without : \A i \in Without : m <= i
  <2>1. Without \in SUBSET Nat
    OBVIOUS
  <2> HIDE DEF Without
  <2> QED  BY <2>1, LeastNumber
<1>2. m \in Nat /\ ~ \E f : Rounds(start, m, f)
  OBVIOUS
<1>3. m # 0
  <2> SUFFICES ASSUME m = 0 PROVE FALSE
    OBVIOUS
  <2> DEFINE f == [k \in 0 .. 0 |-> start]
  <2>1. f = [k \in 0 .. 0 |-> IF k = 0 THEN start ELSE ReadBlock(f[k - 1])]
    <3>1. \A k \in 0 .. 0 : k = 0
      OBVIOUS
    <3> QED  BY <3>1
  <2> HIDE DEF f
  <2>2. Rounds(start, 0, f)
    BY <2>1 DEF Rounds
  <2> QED  BY <1>2, <2>2
<1>4. PICK j \in Nat : m = j + 1
  <2>1. m - 1 \in Nat /\ m = (m - 1) + 1
    BY <1>2, <1>3
  <2> QED  BY <2>1
<1>5. PICK f : Rounds(start, j, f)
  <2>1. j \notin Without
    BY <1>1, <1>4
  <2> QED  BY <2>1
<1> DEFINE g == [k \in 0 .. m |-> IF k = m THEN ReadBlock(f[j]) ELSE f[k]]
<1>6. ASSUME NEW k \in 0 .. m
      PROVE  g[k] = IF k = 0 THEN start ELSE ReadBlock(g[k - 1])
  <2>1. CASE k = m
    <3>1. k - 1 = j /\ j \in 0 .. m /\ j # m /\ k # 0
      BY <1>4, <2>1
    <3>2. g[k] = ReadBlock(f[j]) /\ g[j] = f[j]
      BY <2>1, <3>1
    <3> HIDE DEF g
    <3> QED  BY <3>1, <3>2
  <2>2. CASE k # m
    <3>1. k \in 0 .. j
      BY <1>4, <2>2
    <3>2. g[k] = f[k]
      BY <2>2
    <3>3. f[k] = IF k = 0 THEN start ELSE ReadBlock(f[k - 1])
      <4>1. \A i \in 0 .. j : f[i] = IF i = 0 THEN start ELSE ReadBlock(f[i - 1])
        BY <1>5, RoundsEach
      <4> QED  BY <3>1, <4>1
    <3>4. k # 0 => g[k - 1] = f[k - 1]
      BY <1>4, <3>1
    <3> HIDE DEF g
    <3> QED  BY <3>2, <3>3, <3>4
  <2> QED  BY <2>1, <2>2
<1>7. g = [k \in 0 .. m |-> IF k = 0 THEN start ELSE ReadBlock(g[k - 1])]
  <2>1. g = [k \in 0 .. m |-> g[k]]
    OBVIOUS
  <2> HIDE DEF g
  <2> QED  BY <1>6, <2>1
<1> HIDE DEF g
<1>8. Rounds(start, m, g)
  BY <1>7 DEF Rounds
<1> QED  BY <1>2, <1>8

(* The loop is what such a function gives for as many rounds as bytes.     *)
LEMMA LoopIs ==
  ASSUME NEW start, Len(goal) \in Nat
  PROVE  \E f : Rounds(start, Len(goal), f) /\ ReadLoop(start) = f[Len(goal)]
<1> DEFINE after == CHOOSE g : Rounds(start, Len(goal), g)
<1>1. ReadLoop(start) = after[Len(goal)]
  BY DEF ReadLoop, Rounds, ReadBlock
<1>2. Rounds(start, Len(goal), after)
  BY RoundsExist
<1> QED  BY <1>1, <1>2

(* Consecutive bytes of one block.                                         *)
LEMMA Chunk ==
  ASSUME FileInv, NEW q \in Nat, NEW n \in Nat, q + n <= Len(goal),
         PlaceInBlock(q) + n <= SizeAt(q)
  PROVE  SubSeq(readFileBlock(tr, q), PlaceInBlock(q) + 1, PlaceInBlock(q) + n)
           = SubSeq(goal, q + 1, q + n)
<1>1. q <= MaxFileSize /\ Len(goal) \in Nat /\ tr \in FileTransactions
  <2>1. Len(goal) <= MaxFileSize /\ Len(goal) \in Nat /\ tr \in FileTransactions
    BY FileSizeIs DEF FileInv
  <2> QED  BY <2>1, FileIOAssumption
<1>2. PICK data \in Seq(BYTE) :
        /\ data = readFileBlock(tr, q) /\ data = DataAt(Seen(tr), q)
        /\ Len(data) = SizeAt(q)
  BY <1>1, DataRead
<1>3. PICK s \in Seq(BYTE) : s = goal
  BY DEF FileInv
<1> DEFINE at == PlaceInBlock(q)
<1>4. /\ SizeAt(q) \in Nat \ {0} /\ at \in 0 .. SizeAt(q) - 1
      /\ StartOf(q) \in Nat /\ q = StartOf(q) + at
  BY OwnBlock
<1>5. \A i \in 1 .. n : data[at + i] = s[q + i]
  <2> SUFFICES ASSUME NEW i \in 1 .. n PROVE data[at + i] = s[q + i]
    OBVIOUS
  <2> DEFINE j == at + i - 1
             p == StartOf(q) + j
  <2>1. j \in 0 .. SizeAt(q) - 1 /\ at \in Nat
    BY <1>4
  <2>2. /\ p \in Nat /\ PlaceInBlock(p) = j
        /\ \A f : DataAt(f, p) = DataAt(f, q)
    <3> HIDE DEF j
    <3> QED  BY <2>1, WithinBlock
  <2>3. p = q + i - 1
    <3> HIDE DEF at
    <3> QED  BY <1>4, <2>1
  <2> HIDE DEF p
  <2>4. p \in 0 .. Len(s) - 1 /\ p + 1 = q + i
    BY <1>1, <1>3, <2>3
  <2>5. ByteOf(Seen(tr), p) = s[p + 1]
    BY <1>3, <2>4 DEF FileInv, Holds
  <2>6. ByteOf(Seen(tr), p) = data[j + 1]
    BY <1>2, <2>2 DEF ByteOf
  <2> HIDE DEF at
  <2>7. j + 1 = at + i
    BY <2>1
  <2> HIDE DEF j
  <2> QED  BY <2>4, <2>5, <2>6, <2>7
<1>6. at + 1 \in Nat /\ at + n \in Nat /\ q + n <= Len(s) /\ at + n <= Len(data)
  BY <1>2, <1>3, <1>4
<1> HIDE DEF at
<1>7. at \in Nat
  BY <1>4
<1>8. SubSeq(data, at + 1, at + n) = [i \in 1 .. n |-> data[at + i]]
  BY <1>6, <1>7
<1>9. SubSeq(s, q + 1, q + n) = [i \in 1 .. n |-> s[q + i]]
  BY <1>6
<1>10. SubSeq(data, at + 1, at + n) = SubSeq(s, q + 1, q + n)
  BY <1>5, <1>8, <1>9
<1> QED  BY <1>2, <1>3, <1>10 DEF at

LEMMA CutIs ==
  ASSUME FileInv, NEW off \in Nat, NEW n \in Nat, off <= Len(goal)
  PROVE  /\ CutAtEnd(off, n) \in Nat
         /\ CutAtEnd(off, n) = IF off + n <= Len(goal) THEN n ELSE Len(goal) - off
<1>1. getFileSize(tr) = Len(goal) /\ Len(goal) \in Nat
  BY FileSizeIs
<1> QED  BY <1>1 DEF CutAtEnd

(* Bytes that follow on each other.                                        *)
LEMMA Joined ==
  ASSUME NEW S, NEW s \in Seq(S), NEW a \in Nat, NEW b \in Nat, NEW c \in Nat,
         a <= b, b <= c, c <= Len(s)
  PROVE  SubSeq(s, a + 1, b) \o SubSeq(s, b + 1, c) = SubSeq(s, a + 1, c)
<1> DEFINE m == a + 1
<1>1. m \in 1 .. Len(s) + 1 /\ b \in m - 1 .. Len(s) /\ c \in b .. Len(s)
  OBVIOUS
<1> HIDE DEF m
<1>2. SubSeq(s, m, b) \o SubSeq(s, b + 1, c) = SubSeq(s, m, c)
  BY <1>1, ConcatAdjacentSubSeq
<1> QED  BY <1>2 DEF m

(***************************************************************************)
(* The invariant of the loop of read(), at the start of a block or where   *)
(* there is nothing left to read: the bytes up to off have been read, left *)
(* more are wanted, and size of them, at most a block, are in the file.    *)
(***************************************************************************)
InLoop(from, upto, r) ==
  /\ r.off \in Nat /\ r.left \in Nat /\ r.size \in Nat
  /\ r.off + r.left = upto
  /\ from <= r.off /\ r.off + r.size <= Len(goal)
  /\ r.size <= FS_BLOCK_SIZE
  /\ r.size = FS_BLOCK_SIZE \/ r.off + r.size = Len(goal) \/ r.size = r.left
  /\ r.bytes = SubSeq(goal, from + 1, r.off)
  /\ r.left # 0 /\ r.off < Len(goal) =>
       r.off >= INODE_FILE_DATA_SIZE /\ StartOf(r.off) = r.off

MoreBlocks(r) == r.left > FS_BLOCK_SIZE /\ r.size = FS_BLOCK_SIZE

(* A block that starts at its offset is read whole.                        *)
LEMMA WholeBlock ==
  ASSUME FileInv, NEW o \in Nat, NEW n \in Nat, o < Len(goal), o + n <= Len(goal),
         o >= INODE_FILE_DATA_SIZE, StartOf(o) = o, n <= FS_BLOCK_SIZE
  PROVE  /\ readFileBlock(tr, o) \in Seq(BYTE)
         /\ Len(readFileBlock(tr, o)) = FS_BLOCK_SIZE
         /\ SubSeq(readFileBlock(tr, o), 1, n) = SubSeq(goal, o + 1, o + n)
         /\ LET p == o + FS_BLOCK_SIZE
            IN  p >= INODE_FILE_DATA_SIZE /\ StartOf(p) = p
<1>1. Len(goal) \in Nat /\ Len(goal) <= MaxFileSize /\ MaxFileSize \in Nat
  BY FileSizeIs, FileIOAssumption
<1>2. tr \in FileTransactions /\ o <= MaxFileSize
  BY <1>1 DEF FileInv
<1>3. /\ PlaceInBlock(o) \in 0 .. SizeAt(o) - 1 /\ SizeAt(o) \in Nat
      /\ o = StartOf(o) + PlaceInBlock(o)
  BY OwnBlock
<1>4. PlaceInBlock(o) = 0 /\ SizeAt(o) = FS_BLOCK_SIZE
  BY <1>3, Sizes DEF SizeAt
<1>5. /\ readFileBlock(tr, o) \in Seq(BYTE)
      /\ Len(readFileBlock(tr, o)) = FS_BLOCK_SIZE
  BY <1>2, <1>4, DataRead
<1>6. PlaceInBlock(o) + n <= SizeAt(o)
  BY <1>4
<1>7. SubSeq(readFileBlock(tr, o), PlaceInBlock(o) + 1, PlaceInBlock(o) + n)
        = SubSeq(goal, o + 1, o + n)
  BY <1>6, Chunk
<1>8. PlaceInBlock(o) + 1 = 1 /\ PlaceInBlock(o) + n = n
  BY <1>4
<1>9. LET p == StartOf(o) + SizeAt(o)
      IN  p >= INODE_FILE_DATA_SIZE /\ StartOf(p) = p
  BY NextBlock
<1>10. StartOf(o) + SizeAt(o) = o + FS_BLOCK_SIZE
  BY <1>4
<1> QED  BY <1>5, <1>7, <1>8, <1>9, <1>10

(* Every round takes one block, and keeps the invariant.                   *)
LEMMA RoundTaken ==
  ASSUME FileInv, NEW from \in Nat, NEW upto \in Nat, NEW r, InLoop(from, upto, r)
  PROVE  /\ InLoop(from, upto, ReadBlock(r))
         /\ MoreBlocks(r) => ReadBlock(r).off = r.off + FS_BLOCK_SIZE
         /\ ~ MoreBlocks(r) => ReadBlock(r) = r
<1>1. ~ MoreBlocks(r) => ReadBlock(r) = r
  BY DEF MoreBlocks, ReadBlock
<1> SUFFICES ASSUME MoreBlocks(r)
             PROVE  /\ InLoop(from, upto, ReadBlock(r))
                    /\ ReadBlock(r).off = r.off + FS_BLOCK_SIZE
  BY <1>1
<1>2. PICK B \in Nat, N \in Nat : B = FS_BLOCK_SIZE /\ B # 0 /\ N = Len(goal)
  BY FileSizeIs, Sizes
<1>3. PICK o \in Nat, l \in Nat : o = r.off /\ l = r.left
  BY DEF InLoop
<1>4. r.size = B /\ l > B /\ o + l = upto /\ from <= o /\ o + B <= N
  BY <1>2, <1>3 DEF InLoop, MoreBlocks
<1>5. o < N /\ l # 0
  BY ONLY <1>2, <1>4, o \in Nat, l \in Nat, B \in Nat, N \in Nat
<1>6. o >= INODE_FILE_DATA_SIZE /\ StartOf(o) = o
  BY <1>2, <1>3, <1>5 DEF InLoop
<1>7. r.bytes = SubSeq(goal, from + 1, o)
  BY <1>3 DEF InLoop
<1>8. PICK c \in Nat : c = o + B
  OBVIOUS
<1>9. PICK s \in Nat : /\ s = CutAtEnd(c, B)
                       /\ s = IF c + B <= N THEN B ELSE N - c
  BY <1>2, <1>4, <1>8, CutIs
<1>10. /\ SubSeq(readFileBlock(tr, o), 1, B) = SubSeq(goal, o + 1, c)
       /\ readFileBlock(tr, o) \in Seq(BYTE) /\ Len(readFileBlock(tr, o)) = B
       /\ c >= INODE_FILE_DATA_SIZE /\ StartOf(c) = c
  BY <1>2, <1>4, <1>5, <1>6, <1>8, WholeBlock
<1>11. readFileBlock(tr, o) = SubSeq(goal, o + 1, c)
  BY <1>10, SubSeqFull
<1>12. SubSeq(goal, from + 1, o) \o SubSeq(goal, o + 1, c) = SubSeq(goal, from + 1, c)
  <2>1. goal \in Seq(BYTE) /\ o <= c /\ c <= Len(goal)
    BY <1>2, <1>4, <1>8 DEF FileInv
  <2> QED  BY <1>4, <2>1, Joined
<1>13. PICK d \in Nat : d = l - B
  BY <1>4
<1>14. ReadBlock(r) = [off |-> c, left |-> d, size |-> s,
                       bytes |-> SubSeq(goal, from + 1, c)]
  BY <1>2, <1>3, <1>4, <1>7, <1>8, <1>9, <1>11, <1>12, <1>13 DEF ReadBlock
<1>15. /\ c + d = upto /\ from <= c /\ c + s <= N /\ s <= B
       /\ s = B \/ c + s = N \/ s = d
  BY ONLY <1>4, <1>8, <1>9, <1>13, o \in Nat, l \in Nat, B \in Nat, N \in Nat,
          c \in Nat, d \in Nat, s \in Nat, from \in Nat
<1>16. PICK z : z = ReadBlock(r)
  OBVIOUS
<1>17. /\ z.off = c /\ z.left = d /\ z.size = s
       /\ z.bytes = SubSeq(goal, from + 1, c)
  BY <1>14, <1>16
<1>18. InLoop(from, upto, z)
  BY <1>2, <1>10, <1>15, <1>17 DEF InLoop
<1> QED  BY <1>2, <1>3, <1>8, <1>16, <1>17, <1>18

(* As many rounds as the file has bytes are enough to end the loop.        *)
LEMMA LoopReads ==
  ASSUME FileInv, NEW from \in Nat, NEW upto \in Nat,
         NEW start, InLoop(from, upto, start)
  PROVE  InLoop(from, upto, ReadLoop(start)) /\ ~ MoreBlocks(ReadLoop(start))
<1>1. PICK B \in Nat, N \in Nat : B = FS_BLOCK_SIZE /\ B # 0 /\ N = Len(goal)
  BY FileSizeIs, Sizes
<1>2. PICK f : Rounds(start, N, f) /\ ReadLoop(start) = f[N]
  BY <1>1, LoopIs
<1>3. \A k \in 0 .. N : f[k] = IF k = 0 THEN start ELSE ReadBlock(f[k - 1])
  <2>1. Rounds(start, N, f)
    BY <1>2
  <2> QED  BY ONLY <2>1, RoundsEach, N \in Nat
<1> DEFINE Sound(k) == /\ InLoop(from, upto, f[k])
                       /\ MoreBlocks(f[k]) => f[k].off >= k
           Unsound == {k \in 0 .. N : ~ Sound(k)}
<1>4. Unsound = {}
  <2> SUFFICES ASSUME Unsound # {} PROVE FALSE
    OBVIOUS
  <2>1. PICK k \in Unsound : \A i \in Unsound : k <= i
    <3>1. Unsound \in SUBSET Nat
      OBVIOUS
    <3> HIDE DEF Unsound
    <3> QED  BY <3>1, LeastNumber
  <2>2. k \in 0 .. N /\ ~ Sound(k)
    OBVIOUS
  <2>3. k # 0
    <3> SUFFICES ASSUME k = 0 PROVE FALSE
      OBVIOUS
    <3>1. f[0] = start /\ start.off \in Nat
      BY <1>3, <2>2 DEF InLoop
    <3> QED  BY <2>2, <3>1
  <2>4. PICK j \in 0 .. N : j + 1 = k
    <3>1. k - 1 \in 0 .. N /\ (k - 1) + 1 = k
      BY <2>2, <2>3
    <3> QED  BY <3>1
  <2>5. Sound(j)
    <3>1. j \notin Unsound
      BY <2>1, <2>4
    <3> QED  BY <3>1
  <2>6. f[k] = ReadBlock(f[j])
    <3>1. k - 1 = j
      BY <2>4
    <3> QED  BY <1>3, <2>2, <2>3, <3>1
  <2>7. /\ InLoop(from, upto, f[k])
        /\ MoreBlocks(f[j]) => f[k].off = f[j].off + B
        /\ ~ MoreBlocks(f[j]) => f[k] = f[j]
    BY <1>1, <2>5, <2>6, RoundTaken
  <2>8. f[j].off \in Nat /\ f[k].off \in Nat
    BY <2>5, <2>7 DEF InLoop
  <2>9. MoreBlocks(f[k]) => f[k].off >= k
    BY <1>1, <2>4, <2>5, <2>7, <2>8
  <2> QED  BY <2>2, <2>7, <2>9
<1>5. Sound(N)
  <2>1. N \in 0 .. N
    OBVIOUS
  <2> QED  BY <1>4, <2>1
<1>6. ~ MoreBlocks(f[N])
  <2> SUFFICES ASSUME MoreBlocks(f[N]) PROVE FALSE
    OBVIOUS
  <2>1. PICK o \in Nat : o = f[N].off
    BY <1>5 DEF InLoop
  <2>2. o >= N /\ o + B <= N
    BY <1>1, <1>5, <2>1 DEF InLoop, MoreBlocks
  <2> QED  BY ONLY <1>1, <2>2, o \in Nat, B \in Nat, N \in Nat
<1> QED  BY <1>2, <1>5, <1>6

(***************************************************************************)
(* read() returns the bytes from the offset to count or the end of file:   *)
(* those of the first block, those of the loop and those of the last.      *)
(***************************************************************************)
LEMMA ReadsExactly ==
  ASSUME FileInv, NEW count \in Nat, offset <= Len(goal)
  PROVE  nandfs_read(count)
           = SubSeq(goal, offset + 1, Min({offset + count, Len(goal)}))
<1>1. PICK B \in Nat, N \in Nat : B = FS_BLOCK_SIZE /\ B # 0 /\ N = Len(goal)
  BY FileSizeIs, Sizes
<1>2. PICK from \in Nat : from = offset /\ from <= N
  BY <1>1 DEF FileInv
<1>3. PICK at \in Nat, S \in Nat :
        /\ at = PlaceInBlock(from) /\ S = SizeAt(from) /\ at < S
        /\ from = StartOf(from) + at /\ StartOf(from) \in Nat
  <2>1. /\ SizeAt(from) \in Nat \ {0} /\ PlaceInBlock(from) \in 0 .. SizeAt(from) - 1
        /\ StartOf(from) \in Nat /\ from = StartOf(from) + PlaceInBlock(from)
    BY OwnBlock
  <2> QED  BY <2>1
<1>4. PICK m \in Nat : m = FirstSize(from, count)
                       /\ m = IF count <= S - at THEN count ELSE S - at
  BY <1>3, FirstSizeIs
<1>5. PICK n \in Nat : n = CutAtEnd(from, m)
                       /\ n = IF from + m <= N THEN m ELSE N - from
  BY <1>1, <1>2, CutIs
<1>6. /\ from + n <= N /\ at + n <= S /\ n <= count
      /\ n # count /\ from + n < N => n = S - at
  BY ONLY <1>2, <1>3, <1>4, <1>5, from \in Nat, count \in Nat, N \in Nat, S \in Nat,
          at \in Nat, m \in Nat, n \in Nat
<1>7. PICK o \in Nat, l \in Nat : o = from + n /\ l = count - n
  BY <1>6
<1>8. PICK k \in Nat : k = Min({l, B}) /\ k = IF l <= B THEN l ELSE B
  BY Smaller
<1>9. PICK size \in Nat : size = CutAtEnd(o, k)
                          /\ size = IF o + k <= N THEN k ELSE N - o
  BY <1>1, <1>6, <1>7, CutIs
<1>10. SubSeq(readFileBlock(tr, from), at + 1, at + n) = SubSeq(goal, from + 1, o)
  BY <1>1, <1>3, <1>6, <1>7, Chunk
<1>11. PICK start : start = [off |-> o, left |-> l, size |-> size,
                            bytes |-> SubSeq(goal, from + 1, o)]
  OBVIOUS
<1>12. /\ start.off = o /\ start.left = l /\ start.size = size
       /\ start.bytes = SubSeq(goal, from + 1, o)
  BY <1>11
<1>13. l # 0 /\ o < N => o >= INODE_FILE_DATA_SIZE /\ StartOf(o) = o
  <2> SUFFICES ASSUME l # 0, o < N PROVE o >= INODE_FILE_DATA_SIZE /\ StartOf(o) = o
    OBVIOUS
  <2>1. o = StartOf(from) + SizeAt(from)
    <3>1. n = S - at
      BY <1>6, <1>7
    <3> QED  BY ONLY <1>3, <1>7, <3>1, from \in Nat, at \in Nat, S \in Nat, n \in Nat
  <2> QED  BY <2>1, NextBlock
<1>14. PICK upto \in Nat : upto = from + count
  OBVIOUS
<1>15. /\ o + l = upto /\ from <= o /\ o + size <= N /\ size <= B
       /\ size = B \/ o + size = N \/ size = l
  BY ONLY <1>6, <1>7, <1>8, <1>9, <1>14, from \in Nat, count \in Nat, N \in Nat,
          n \in Nat, o \in Nat, l \in Nat, k \in Nat, size \in Nat, B \in Nat, upto \in Nat
<1>16. InLoop(from, upto, start)
  BY <1>1, <1>12, <1>13, <1>15 DEF InLoop
<1>17. PICK r : r = ReadLoop(start) /\ InLoop(from, upto, r) /\ ~ MoreBlocks(r)
  BY <1>16, LoopReads
<1>18. nandfs_read(count) = IF r.size = 0 \/ r.left = 0 THEN r.bytes
                            ELSE r.bytes \o SubSeq(readFileBlock(tr, r.off), 1,
                                                   Min({r.size, r.left}))
  BY <1>1, <1>2, <1>3, <1>4, <1>5, <1>7, <1>8, <1>9, <1>10, <1>11, <1>17 DEF nandfs_read
(* The last block.                                                         *)
<1>19. PICK p \in Nat, d \in Nat, s \in Nat :
         /\ p = r.off /\ d = r.left /\ s = r.size
         /\ p + d = upto /\ from <= p /\ p + s <= N /\ s <= B
         /\ s = B \/ p + s = N \/ s = d
         /\ ~ (d > B /\ s = B)
         /\ r.bytes = SubSeq(goal, from + 1, p)
         /\ d # 0 /\ p < N => p >= INODE_FILE_DATA_SIZE /\ StartOf(p) = p
  BY <1>1, <1>17 DEF InLoop, MoreBlocks
<1>20. PICK q \in Nat : q = Min({s, d}) /\ q = IF s <= d THEN s ELSE d
  BY Smaller
<1>21. PICK e \in Nat : e = Min({upto, N}) /\ e = IF upto <= N THEN upto ELSE N
  BY Smaller
<1>22. p + q = e /\ p <= e /\ e <= N /\ q <= B
  <2>1. /\ p + d = upto /\ p + s <= N /\ s <= B
        /\ s = B \/ p + s = N \/ s = d
        /\ ~ (d > B /\ s = B)
    BY <1>19
  <2>2. CASE s <= d
    <3>1. q = s
      BY <1>20, <2>2
    <3> QED  BY ONLY <1>21, <2>1, <2>2, <3>1, p \in Nat, d \in Nat, s \in Nat, e \in Nat,
                     upto \in Nat, N \in Nat, B \in Nat
  <2>3. CASE ~ s <= d
    <3>1. q = d
      BY <1>20, <2>3
    <3> QED  BY ONLY <1>21, <2>1, <2>3, <3>1, p \in Nat, d \in Nat, s \in Nat, e \in Nat,
                     upto \in Nat, N \in Nat, B \in Nat
  <2> QED  BY <2>2, <2>3
<1>23. nandfs_read(count) = SubSeq(goal, from + 1, e)
  <2>1. CASE s = 0 \/ d = 0
    <3>1. p = e
      BY <1>20, <1>22, <2>1
    <3> QED  BY <1>18, <1>19, <2>1, <3>1
  <2>2. CASE ~ (s = 0 \/ d = 0)
    <3>1. p < N /\ d # 0
      BY ONLY <1>19, <2>2, p \in Nat, d \in Nat, s \in Nat, N \in Nat
    <3>2. SubSeq(readFileBlock(tr, p), 1, q) = SubSeq(goal, p + 1, p + q)
      <4>1. p >= INODE_FILE_DATA_SIZE /\ StartOf(p) = p
        BY <1>19, <3>1
      <4>2. p < Len(goal) /\ p + q <= Len(goal) /\ q <= FS_BLOCK_SIZE
        BY <1>1, <1>22, <3>1
      <4> QED  BY <4>1, <4>2, WholeBlock
    <3>3. SubSeq(goal, from + 1, p) \o SubSeq(goal, p + 1, e) = SubSeq(goal, from + 1, e)
      <4>1. goal \in Seq(BYTE) /\ p <= e /\ e <= Len(goal)
        BY <1>1, <1>22 DEF FileInv
      <4>2. from <= p
        BY <1>19
      <4> QED  BY <4>1, <4>2, Joined
    <3>4. nandfs_read(count) = SubSeq(goal, from + 1, p) \o SubSeq(readFileBlock(tr, p), 1, q)
      BY <1>18, <1>19, <1>20, <2>2
    <3> QED  BY <1>22, <3>2, <3>3, <3>4
  <2> QED  BY <2>1, <2>2
<1>24. offset + 1 = from + 1 /\ Min({offset + count, Len(goal)}) = e
  BY <1>1, <1>2, <1>14, <1>21
<1> QED  BY <1>23, <1>24

LEMMA ReadStep == FileInv /\ Read => FileInv'
<1> SUFFICES ASSUME FileInv, Read PROVE FileInv'
  OBVIOUS
<1>1. PICK count \in Counts : offset' = offset + Len(nandfs_read(count))
  BY DEF Read
<1>2. io = Idle /\ offset <= Len(goal) /\ Len(goal) \in Nat
      /\ UNCHANGED <<disk, tr, io, writes, goal, durable>>
  BY FileSizeIs DEF Read
<1>3. count \in Nat /\ offset \in Nat /\ goal \in Seq(BYTE)
  BY FileIOAssumption DEF FileInv
<1>4. PICK e \in Nat : e = Min({offset + count, Len(goal)}) /\ e <= Len(goal)
  BY <1>2, <1>3, Smaller
<1>5. nandfs_read(count) = SubSeq(goal, offset + 1, e)
  BY <1>2, <1>3, <1>4, ReadsExactly
<1>6. Len(SubSeq(goal, offset + 1, e)) \in Nat
  <2>1. SubSeq(goal, offset + 1, e) \in Seq(BYTE)
    <3>1. \A i \in offset + 1 .. e : i \in 1 .. Len(goal)
      BY <1>2, <1>3, <1>4
    <3>2. offset + 1 \in Nat /\ e \in Nat
      BY <1>3, <1>4
    <3> QED  BY <1>3, <3>1, <3>2, SubSeqProperties
  <2> QED  BY <2>1
<1>7. offset' \in Nat
  BY <1>1, <1>3, <1>5, <1>6
<1> QED  BY <1>2, <1>7, OffsetMoved

LEMMA NextFile == FileInv /\ [Next]_vars => FileInv'
<1> SUFFICES ASSUME FileInv, [Next]_vars PROVE FileInv'
  OBVIOUS
<1>1. CASE WriteFirst
  BY <1>1, WriteFirstStep
<1>2. CASE WriteLoop
  BY <1>2, WriteLoopStep
<1>3. CASE WriteLast
  BY <1>3, WriteLastStep
<1>4. CASE Read
  BY <1>4, ReadStep
<1>5. CASE Lseek
  BY <1>5, LseekStep
<1>6. CASE Fsync
  BY <1>6, FsyncStep
<1>7. CASE Abort
  BY <1>7, AbortStep
<1>8. CASE PowerFailure
  BY <1>8, PowerFailureStep
<1>9. CASE UNCHANGED vars
  BY <1>9 DEF vars, FileInv, Holds, ByteOf, DataAt, Seen
<1> QED  BY <1>1, <1>2, <1>3, <1>4, <1>5, <1>6, <1>7, <1>8, <1>9 DEF Next

-----------------------------------------------------------------------------
(* What the invariant says of the bytes.                                   *)

LEMMA ContentIs ==
  ASSUME NEW t, NEW f, NEW s \in Seq(BYTE), Len(s) <= MaxFileSize, Holds(f, s),
         \A off \in Readable : readFileBlock(t, off) = DataAt(f, off)
  PROVE  Content(t, Len(s)) = s
<1>1. Len(s) \in Nat /\ MaxFileSize \in Nat
  BY FileIOAssumption
<1>2. ASSUME NEW i \in 1 .. Len(s)
      PROVE  readFileBlock(t, i - 1)[PlaceInBlock(i - 1) + 1] = s[i]
  <2>1. PICK p \in Nat : p = i - 1 /\ p < Len(s) /\ p + 1 = i
    BY <1>1
  <2>2. p \in Readable
    BY <1>1, <2>1, Sizes DEF Readable
  <2>3. ByteOf(f, p) = s[p + 1]
    BY <1>1, <2>1 DEF Holds
  <2>4. readFileBlock(t, p)[PlaceInBlock(p) + 1] = s[p + 1]
    BY <2>2, <2>3 DEF ByteOf
  <2> QED  BY <2>1, <2>4
<1>3. s = [i \in 1 .. Len(s) |-> s[i]]
  OBVIOUS
<1> QED  BY <1>2, <1>3 DEF Content

LEMMA InvAsWritten == FileInv => FileAsWritten
<1> SUFFICES ASSUME FileInv PROVE FileAsWritten
  OBVIOUS
<1>1. getFileSize(tr) = Len(goal)
  BY FileSizeIs
<1>2. \A off \in Readable : readFileBlock(tr, off) = DataAt(Seen(tr), off)
  BY ReadsSeen DEF FileInv
<1>3. Content(tr, Len(goal)) = goal
  BY <1>2, ContentIs DEF FileInv
<1> QED  BY <1>1, <1>3 DEF FileAsWritten

LEMMA InvCommittedKept == FileInv => CommittedKept
<1> SUFFICES ASSUME FileInv PROVE CommittedKept
  OBVIOUS
<1>1. ~ NoTr.open
  BY DEF NoTr
<1>2. \A off : readFileBlock(NoTr, off) = DataAt(disk, off)
  BY <1>1 DEF readFileBlock, DataAt
<1>3. Content(NoTr, Len(durable)) = durable
  BY <1>2, ContentIs DEF FileInv
<1>4. disk.nbytes = Len(durable)
  BY DEF FileInv, Holds
<1> QED  BY <1>3, <1>4 DEF CommittedKept

LEMMA InvReadExact == FileInv => ReadExact
BY ReadsExactly, FileIOAssumption DEF ReadExact

-----------------------------------------------------------------------------
(* FileInv is invariant under every action of the file.                    *)
THEOREM FileInvariant == Spec => []FileInv
<1>1. Init => FileInv
  BY InitFile
<1>2. FileInv /\ [Next]_vars => FileInv'
  BY NextFile
<1> QED  BY <1>1, <1>2, PTL DEF Spec

(***************************************************************************)
(* After every block that write() writes, the bytes seen through the       *)
(* transaction's pointer page, the inode and the blocks are those written, *)
(* and getFileSize() is their number.                                      *)
(***************************************************************************)
THEOREM BytesAsWritten == Spec => []FileAsWritten
<1>1. FileInv => FileAsWritten
  BY InvAsWritten
<1> QED  BY <1>1, FileInvariant, PTL

(***************************************************************************)
(* read() returns the bytes from the offset to count or the end of the     *)
(* file, however its first block, its loop and its last block are cut.     *)
(***************************************************************************)
THEOREM ReadsAreExact == Spec => []ReadExact
<1>1. FileInv => ReadExact
  BY InvReadExact
<1> QED  BY <1>1, FileInvariant, PTL

(***************************************************************************)
(* The committed inode keeps the size and the bytes of the last fsync().   *)
(***************************************************************************)
THEOREM CommittedBytesKept == Spec => []CommittedKept
<1>1. FileInv => CommittedKept
  BY InvCommittedKept
<1> QED  BY <1>1, FileInvariant, PTL

=============================================================================

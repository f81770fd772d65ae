---------------------------- MODULE Transactions ----------------------------
(***************************************************************************)
(* Transactions on files: writing blocks, committing (fsync(), close()),   *)
(* creating and unlinking files, aborting, and the recovery of the file    *)
(* system after a power failure.                                           *)
(*                                                                         *)
(* Pages are written out of place.  A transaction chains its pages by      *)
(* their prev addresses and collects the pages it replaces, its blocks to  *)
(* obsolete (VOTs), in a buffer that is written to pages of the chain.  A  *)
(* commit writes the inode, inode0 and the last VOTs, then a checkpoint    *)
(* with the new address of inode0; the VOTs are marked obsolete after it.  *)
(*                                                                         *)
(* The mutex of the file system serialises the calls: one call runs at a   *)
(* time, as the list todo of what it has still to do.  Every operation     *)
(* that changes the flash is a step, and the power may fail before it.     *)
(* The sequencing layer is used through its contract: a page is written to *)
(* an address that holds no valid page; a checkpoint may be written at the *)
(* head of a new segment whenever the next free page is looked for; after  *)
(* a power failure the pages are those of the last checkpoint, where marks *)
(* made since may be kept or lost.  The build has no cache buffers.        *)
(***************************************************************************)
EXTENDS Naturals, Sequences, FiniteSets

CONSTANTS
  Tids,             (* FS_MAX_N_TRANSACTIONS transactions, from 0          *)
  Files, Dir,       (* regular files and the root directory                *)
  Existing,         (* the files that exist at first, a sequence           *)
  Blocks,           (* the blocks of a file; "b0" is mapped by the inode   *)
  Nodes, Parent,    (* pointer pages of a file, and what points to what    *)
  Data,             (* what a block may hold                               *)
  Capacity,         (* data pages of the flash                             *)
  MinFreePages,     (* FS_MIN_FREE_PAGES                                   *)
  VotsPerPage,      (* LOG_ADDRESSES_PER_BLOCK                             *)
  FailLastVots,     (* what may happen when fsync() writes the last VOTs:  *)
                    (* a header follows, or too few pages are left         *)
  MaxCalls,         (* bound: calls of the file system                     *)
  MaxFailures,      (* bound: power failures                               *)
  MaxBootFailures   (* bound: further power failures during a boot         *)

ASSUME TransactionsAssumption ==
  /\ IsFiniteSet(Tids) /\ Tids = 0 .. Cardinality(Tids) - 1
  /\ Existing \in Seq(Files) /\ Dir \notin Files
  /\ {"none", "inode0"} \cap (Files \cup {Dir}) = {}
  /\ Blocks \cap Nodes = {}
  /\ "b0" \in Blocks /\ "inode" \in Nodes /\ Parent["b0"] = "inode"
  /\ \A x \in (Blocks \cup Nodes) \ {"inode"} : Parent[x] \in Nodes
  /\ {Capacity, MinFreePages, MaxCalls, MaxFailures, MaxBootFailures} \subseteq Nat
  /\ VotsPerPage \in Nat \ {0}
  /\ FailLastVots \subseteq {"header", "threshold"}
  /\ Capacity >= 3 + Len(Existing)

VARIABLES
  pages,            (* address -> page, NoPage if it was never written     *)
  obs,              (* the addresses marked obsolete                       *)
  fs,               (* the filesystem_t that checkpoints save              *)
  tr,               (* transactions[]                                      *)
  fs_buffer,        (* the buffer shared by all calls                      *)
  todo,             (* what is left of the running call                    *)
  call,             (* its locals                                          *)
  saved,            (* the last checkpoint: flash and file system          *)
  marked,           (* ghost: addresses marked since then                  *)
  intent,           (* ghost: contents intended by every transaction       *)
  calls, failures

vars == <<pages, obs, fs, tr, fs_buffer, todo, call, saved, marked, intent,
          calls, failures>>
flashVars == <<pages, obs, saved, marked>>

-----------------------------------------------------------------------------
(* Pages and addresses.                                                    *)

Addr   == 1 .. Capacity
EMPTY  == 0
Inodes == Files \cup {Dir}

(* What a pointer page points to.                                          *)
Slots(n) == {x \in (Blocks \cup Nodes) \ {"inode"} : Parent[x] = n}

(* A page: its kind, its prev address and what it holds: the address for   *)
(* every slot of a pointer page and for every file in inode0, the value of *)
(* a data page, the addresses of a VOTs page.                              *)
Page(kind, ref, prev) == [kind |-> kind, ref |-> ref, prev |-> prev]
NoPage == Page("none", EMPTY, EMPTY)

NoPointers(n) == [x \in Slots(n) |-> EMPTY]

(* The addresses that hold a valid page, and the free ones.                *)
Valid     == {a \in Addr : pages[a].kind # "none"} \ obs
FreePages == Capacity - Cardinality(Valid)

(* The page the sequencing layer writes next: reclaimed pages come first.  *)
NextAddr == CHOOSE a \in Addr \ Valid : \A b \in Addr \ Valid : a <= b

(* The way from an inode to a block or pointer page, without the inode.    *)
Way(x) ==
  IF x = "inode" THEN <<>>
  ELSE IF Parent[x] = "inode" THEN <<x>>
  ELSE IF Parent[Parent[x]] = "inode" THEN <<Parent[x], x>>
  ELSE IF Parent[Parent[Parent[x]]] = "inode" THEN <<Parent[Parent[x]], Parent[x], x>>
  ELSE <<Parent[Parent[Parent[x]]], Parent[Parent[x]], Parent[x], x>>

(* readIndirectToBuffer(): the address of x in the file with inode page    *)
(* ino, EMPTY when a pointer page on the way is missing.                   *)
Pointed(pgs, a, kind, x) ==
  IF a # EMPTY /\ pgs[a].kind = kind THEN pgs[a].ref[x] ELSE EMPTY

AddrOf(pgs, ino, x) ==
  LET way == Way(x)
      at[i \in 0 .. Len(way)] ==
        IF i = 0 THEN ino
        ELSE Pointed(pgs, at[i - 1], IF i = 1 THEN "inode" ELSE way[i - 1], way[i])
  IN  at[Len(way)]

(* getInode(): the address of the inode of file f.                         *)
InodeAddr(pgs, ino0, f) == Pointed(pgs, ino0, "ino0", f)

(* What a pointer page holds; one that does not exist is read as empty.    *)
ReadNode(pgs, a, n) == IF a = EMPTY THEN NoPointers(n) ELSE pgs[a].ref

-----------------------------------------------------------------------------
(* The contents of a file as a boot would find them: pages that are marked *)
(* obsolete may be reclaimed, so they count as lost.                       *)

Lost   == {"lost"}
NoFile == [b \in Blocks |-> {"none"}]

BlockValue(pgs, gone, ino, b) ==
  LET a == AddrOf(pgs, ino, b)
      way == {AddrOf(pgs, ino, n) : n \in {Way(b)[i] : i \in 1 .. Len(Way(b)) - 1}}
  IN  IF a = EMPTY THEN {}
      ELSE IF a \in gone \/ way \cap gone # {} \/ pgs[a].kind # "data" THEN Lost
      ELSE pgs[a].ref

ContentsOf(pgs, gone, ino0, f) ==
  LET ino == InodeAddr(pgs, ino0, f)
  IN  IF ino0 \in gone THEN [b \in Blocks |-> Lost]
      ELSE IF ino = EMPTY THEN NoFile
      ELSE IF ino \in gone \/ pgs[ino].kind # "inode" THEN [b \in Blocks |-> Lost]
      ELSE [b \in Blocks |-> BlockValue(pgs, gone, ino, b)]

Contents == [Blocks -> SUBSET (Files \cup Data \cup {"lost", "none"})]

Durable == [f \in Inodes |->
              ContentsOf(saved.pages, saved.obs \cup marked, saved.fs.ino0, f)]

NoChange == [i \in {} |-> {}]

-----------------------------------------------------------------------------
(* Transactions.                                                           *)

T_TYPE_EMPTY  == "empty"
T_TYPE_WRITE  == "write"
T_TYPE_UNLINK == "unlink"
NoInode == "none"

(* init_transaction(): node is the pointer page in indirect_buf, what      *)
(* fileOffset stands for, and ptrs its pointers.                           *)
EmptyTr ==
  [ino |-> NoInode, type |-> T_TYPE_EMPTY, prev |-> EMPTY, inoAddr |-> EMPTY,
   vots |-> <<>>, node |-> "none", ptrs |-> NoPointers("inode"),
   isCommiting |-> FALSE]

IS_TRANSACTION_EMPTY(t) == tr[t].ino = NoInode

(* findTidByFileId(), getFreeTransactionId()                               *)
TidsOf(f) == {t \in Tids : tr[t].ino = f}
FreeTids  == {t \in Tids : IS_TRANSACTION_EMPTY(t)}
First(S)  == CHOOSE t \in S : \A u \in S : t <= u

IS_MIN_FREE_PAGES_REACHED == FreePages <= MinFreePages

(* The locals of a call: its transaction, the copy of inode0's address,    *)
(* whether that is the file system's own (fsync() and close() pass         *)
(* FS_GET_INO0_ADDR_PTR()), the file created or unlinked, the address of   *)
(* its inode, and the addresses commitInode() has written pages to.        *)
NoCall == [tid |-> 0, ino0 |-> EMPTY, own |-> FALSE, file |-> NoInode,
           inode |-> EMPTY, new |-> [n \in Nodes |-> EMPTY]]

(* One thing to do: x and a are its arguments.                             *)
Do(op, x, a) == [op |-> op, x |-> x, a |-> a]
Todo(op)     == Do(op, NoInode, EMPTY)

(* abortTransaction()                                                      *)
AbortOps(t) == <<Do("delete", NoInode, t), Do("init", NoInode, t),
                 Todo("checkpoint"), Todo("find")>>

Upwards(n) == LET w == Way(n) IN [i \in 1 .. Len(w) |-> w[Len(w) + 1 - i]]

(***************************************************************************)
(* commitInode() for the pointer page n in indirect_buf.  The pages above  *)
(* an indirect block are voted, the block is written and its old page      *)
(* voted, then the pages up to the inode are written from fs_buffer.       *)
(***************************************************************************)
commitInode(n) ==
  LET up     == Upwards(n)
      rest   == SubSeq(up, 2, Len(up))
      votes  == [i \in 1 .. Len(rest) |-> Do("votNode", rest[Len(rest) + 1 - i], EMPTY)]
      writes == [i \in 1 .. 2 * Len(rest) |->
                   IF i % 2 = 1 THEN Do("read", rest[(i + 1) \div 2], EMPTY)
                   ELSE Do("write", rest[i \div 2], EMPTY)]
  IN  IF n = "none" THEN <<>>
      ELSE IF n = "inode"
      THEN <<Do("votNode", "inode", EMPTY), Do("writeActive", "inode", EMPTY)>>
      ELSE votes \o <<Do("writeActive", n, EMPTY), Do("votNode", n, EMPTY)>>
           \o writes \o <<Do("read", "inode", EMPTY), Do("writeInode", "inode", EMPTY)>>

(* commitInodeToInode0() for file f.                                       *)
commitInodeToInode0(f) ==
  <<Do("loadInode0", f, EMPTY), Do("votNode", "inode", EMPTY),
    Do("writeInode0", f, EMPTY)>>

(* commitTransaction() of file f.                                          *)
commitTransaction(f) ==
  <<Todo("commitInode"), Todo("keepInode")>> \o commitInodeToInode0(f) \o
  <<Todo("lastVots"), Todo("setFs"), Todo("checkpoint"), Todo("walk"),
    Todo("find"), Todo("finish"), Todo("checkpoint"), Todo("find"),
    Todo("return")>>

-----------------------------------------------------------------------------
(* Steps of a running call.                                                *)

Op   == Head(todo)
Rest == Tail(todo)
Doing(op) == todo # <<>> /\ Op.op = op
T    == call.tid

Kept(vs) == UNCHANGED <<vs, calls, failures>>

(* fsCheckpointWriter() and commit(): the addresses of the open            *)
(* transactions are copied, then flash and file system are saved.          *)
SavedFs == [fs EXCEPT !.last = [t \in Tids |-> tr[t].prev]]
WriteCheckpoint ==
  /\ fs' = SavedFs
  /\ saved' = [pages |-> pages, obs |-> obs, fs |-> SavedFs]
  /\ marked' = {}

(* The ghost intent becomes durable with the first checkpoint of a commit. *)
Checkpoint ==
  /\ Doing("checkpoint")
  /\ WriteCheckpoint
  /\ todo' = Rest
  /\ intent' = IF Rest # <<>> /\ Head(Rest).op = "walk"
               THEN [intent EXCEPT ![T] = NoChange] ELSE intent
  /\ Kept(<<pages, obs, tr, fs_buffer, call>>)

(* findNextFreePage(): it may write the header of a segment.               *)
FindNextFreePage ==
  /\ Doing("find")
  /\ \/ UNCHANGED <<fs, saved, marked>>
     \/ WriteCheckpoint
  /\ todo' = Rest
  /\ Kept(<<pages, obs, tr, fs_buffer, call, intent>>)

(***************************************************************************)
(* The error returned by a write.  The callers abort the transaction,      *)
(* except when fsync() or close() writes the last VOTs.  In createNewFile()*)
(* and removeFile() the directory's functions abort it, then they do.      *)
(***************************************************************************)
ToDo(op) == \E i \in 1 .. Len(todo) : todo[i].op = op

(* Fault: the transaction is not aborted.                                  *)
NoAbortOps == <<Todo("return")>>

ErrorOps ==
  (IF Op.op = "lastVots" /\ call.own THEN <<>>
   ELSE IF call.file # NoInode /\ ~ ToDo("turnToDir") /\ Op.op # "lastVots"
   THEN AbortOps(T) \o AbortOps(T)
   ELSE AbortOps(T)) \o <<Todo("return")>>

IsWrite == /\ todo # <<>>
           /\ Op.op \in {"writeData", "writeActive", "write", "writeInode",
                         "writeInode0", "votsPage", "lastVots"}
           /\ Op.op = "lastVots" => tr[T].vots # <<>>

(* handleMinPages() lets the write go on.                                  *)
WritePermitted == tr[T].type = T_TYPE_UNLINK \/ ~ IS_MIN_FREE_PAGES_REACHED

LastVotsMayFail == (Op.op = "lastVots" /\ call.own) => "threshold" \in FailLastVots

Others == {t \in Tids \ {T} : ~ IS_TRANSACTION_EMPTY(t)}

(* handleMinPages(): the first other transaction is aborted, and the write *)
(* is tried again.                                                         *)
AbortOther ==
  /\ IsWrite /\ ~ WritePermitted /\ Others # {}
  /\ LastVotsMayFail
  /\ todo' = AbortOps(First(Others)) \o todo
  /\ Kept(<<flashVars, fs, tr, fs_buffer, call, intent>>)

(* handleMinPages() fails with FS_ERROR_WRT_THRSHLD, or no page is left.   *)
WriteError ==
  /\ IsWrite
  /\ (~ WritePermitted /\ Others = {}) \/ (WritePermitted /\ FreePages = 0)
  /\ LastVotsMayFail
  /\ todo' = ErrorOps
  /\ Kept(<<flashVars, fs, tr, fs_buffer, call, intent>>)

(***************************************************************************)
(* allocAndWriteBlockTid_actualWrite(): the page is written, and a header  *)
(* may follow before the address becomes the transaction's prev address.   *)
(* The last VOTs are written to that address itself.                       *)
(***************************************************************************)
WritePage(kind, ref, newTr, ops) ==
  /\ IsWrite /\ WritePermitted /\ FreePages > 0
  /\ LET a == NextAddr
     IN  /\ pages' = [pages EXCEPT ![a] = Page(kind, ref, tr[T].prev)]
         /\ obs' = obs \ {a}
         /\ \/ /\ tr' = [newTr EXCEPT ![T].prev = a]
               /\ todo' = ops
            \/ /\ Op.op # "lastVots"
               /\ tr' = newTr
               /\ todo' = <<Todo("find"), Do("prev", NoInode, a)>> \o ops
            \/ /\ Op.op = "lastVots" /\ (call.own => "header" \in FailLastVots)
               /\ tr' = [newTr EXCEPT ![T].prev = a]
               /\ todo' = <<Todo("find")>> \o ops
  /\ UNCHANGED <<saved, marked, intent>>

(* TRANSACTION_SET_PREV_ADDR() after a header.                             *)
SetPrev ==
  /\ Doing("prev")
  /\ tr' = [tr EXCEPT ![T].prev = Op.a]
  /\ todo' = Rest
  /\ Kept(<<flashVars, fs, fs_buffer, call, intent>>)

(* Fault: the old address is not voted.                                    *)
ForgottenVot(a) == todo' = Rest /\ UNCHANGED tr

(* writeVot(): an address already in the buffer is passed over, a full     *)
(* buffer is written.                                                      *)
writeVot(a) ==
  IF a = EMPTY \/ \E i \in 1 .. Len(tr[T].vots) : tr[T].vots[i] = a
  THEN todo' = Rest /\ UNCHANGED tr
  ELSE /\ tr' = [tr EXCEPT ![T].vots = Append(@, a)]
       /\ todo' = IF Len(tr[T].vots) + 1 = VotsPerPage
                  THEN <<Todo("votsPage")>> \o Rest ELSE Rest

Vot ==
  /\ \/ Doing("vot") /\ writeVot(Op.a)
     \/ Doing("votNode") /\ writeVot(AddrOf(pages, tr[T].inoAddr, Op.x))
  /\ Kept(<<flashVars, fs, fs_buffer, call, intent>>)

(* Fault: the buffer is not emptied.                                       *)
VotsPageKept ==
  /\ Doing("votsPage")
  /\ WritePage("vots", tr[T].vots, tr, Rest)
  /\ Kept(<<fs, fs_buffer, call>>)

VotsPage ==
  /\ Doing("votsPage")
  /\ WritePage("vots", tr[T].vots, [tr EXCEPT ![T].vots = <<>>], Rest)
  /\ Kept(<<fs, fs_buffer, call>>)

(* Fault: the other pointer page is not committed first.                   *)
SeekWithoutCommit ==
  /\ Doing("seek")
  /\ todo' = IF tr[T].node = Parent[Op.x] THEN Rest
             ELSE <<Do("load", Op.x, EMPTY)>> \o Rest
  /\ Kept(<<flashVars, fs, tr, fs_buffer, call, intent>>)

(* The active pointer page is the one that maps block b, or another is     *)
(* committed first (writeFileBlock(), findIndirectEntriesBlock()).         *)
Seek ==
  /\ Doing("seek")
  /\ todo' = IF tr[T].node = Parent[Op.x] THEN Rest
             ELSE commitInode(tr[T].node) \o <<Do("load", Op.x, EMPTY)>> \o Rest
  /\ Kept(<<flashVars, fs, tr, fs_buffer, call, intent>>)

Load ==
  /\ Doing("load")
  /\ LET n == Parent[Op.x]
     IN  tr' = [tr EXCEPT ![T].node = n,
                  ![T].ptrs = ReadNode(pages, AddrOf(pages, tr[T].inoAddr, n), n)]
  /\ todo' = Rest
  /\ Kept(<<flashVars, fs, fs_buffer, call, intent>>)

(* writeFileBlock(): the block is written, its pointer set and the old     *)
(* page voted.                                                             *)
WriteData ==
  /\ Doing("writeData")
  /\ WritePage("data", Op.a, [tr EXCEPT ![T].ptrs[Op.x] = NextAddr],
               <<Do("vot", NoInode, tr[T].ptrs[Op.x])>> \o Rest)
  /\ Kept(<<fs, fs_buffer, call>>)

CommitInodeOp ==
  /\ Doing("commitInode")
  /\ todo' = commitInode(tr[T].node) \o Rest
  /\ Kept(<<flashVars, fs, tr, fs_buffer, call, intent>>)

(* The pointer page in indirect_buf is written.                            *)
WriteActive ==
  /\ Doing("writeActive")
  /\ WritePage(Op.x, tr[T].ptrs,
               IF Op.x = "inode" THEN [tr EXCEPT ![T].inoAddr = NextAddr] ELSE tr,
               Rest)
  /\ call' = [call EXCEPT !.new[Op.x] = NextAddr]
  /\ Kept(<<fs, fs_buffer>>)

(* The slot of n's pointers through which it reaches the page below, on    *)
(* the way to the active one.                                              *)
Below(n) ==
  LET w == Way(tr[T].node)
  IN  IF n = "inode" THEN w[1]
      ELSE w[1 + CHOOSE i \in 1 .. Len(w) - 1 : w[i] = n]

(* Fault: the new address is not set in it.                                *)
ReadUpperOnly ==
  /\ Doing("read")
  /\ fs_buffer' = Page(Op.x, ReadNode(pages, AddrOf(pages, tr[T].inoAddr, Op.x), Op.x),
                       EMPTY)
  /\ todo' = Rest
  /\ Kept(<<flashVars, fs, tr, call, intent>>)

(* A pointer page is read to fs_buffer and the new address set in it.      *)
ReadUpper ==
  /\ Doing("read")
  /\ fs_buffer' = Page(Op.x, [ReadNode(pages, AddrOf(pages, tr[T].inoAddr, Op.x), Op.x)
                         EXCEPT ![Below(Op.x)] = call.new[Below(Op.x)]], EMPTY)
  /\ todo' = Rest
  /\ Kept(<<flashVars, fs, tr, call, intent>>)

(* It is written from fs_buffer.                                           *)
WriteUpper ==
  /\ Doing("write")
  /\ WritePage(fs_buffer.kind, fs_buffer.ref, tr, Rest)
  /\ call' = [call EXCEPT !.new[Op.x] = NextAddr]
  /\ Kept(<<fs, fs_buffer>>)

(* The inode too; its old page is voted after it.                          *)
WriteInode ==
  /\ Doing("writeInode")
  /\ WritePage(fs_buffer.kind, fs_buffer.ref,
               [tr EXCEPT ![T].inoAddr = NextAddr],
               <<Do("vot", NoInode, tr[T].inoAddr)>> \o Rest)
  /\ Kept(<<fs, fs_buffer, call>>)

(* The address of the committed inode is kept, the transaction turns to    *)
(* inode0.                                                                 *)
KeepInode ==
  /\ Doing("keepInode")
  /\ call' = [call EXCEPT !.inode = tr[T].inoAddr]
  /\ todo' = Rest
  /\ Kept(<<flashVars, fs, tr, fs_buffer, intent>>)

LoadInode0 ==
  /\ Doing("loadInode0")
  /\ tr' = [tr EXCEPT ![T].ino = "inode0", ![T].inoAddr = call.ino0,
              ![T].node = "inode",
              ![T].ptrs = [pages[call.ino0].ref EXCEPT ![Op.x] = call.inode]]
  /\ todo' = Rest
  /\ Kept(<<flashVars, fs, fs_buffer, call, intent>>)

(* commitInode() of inode0; its address is stored where the caller keeps   *)
(* it, for fsync() and close() in the file system itself.                  *)
WriteInode0 ==
  /\ Doing("writeInode0")
  /\ WritePage("ino0", tr[T].ptrs, [tr EXCEPT ![T].inoAddr = NextAddr],
               <<Do("newInode0", NoInode, NextAddr)>> \o Rest)
  /\ Kept(<<fs, fs_buffer, call>>)

NewInode0 ==
  /\ Doing("newInode0")
  /\ call' = [call EXCEPT !.ino0 = Op.a]
  /\ fs' = IF call.own THEN [fs EXCEPT !.ino0 = Op.a] ELSE fs
  /\ todo' = Rest
  /\ Kept(<<flashVars, tr, fs_buffer, intent>>)

LastVots ==
  /\ Doing("lastVots")
  /\ IF tr[T].vots = <<>>
     THEN todo' = Rest /\ UNCHANGED <<flashVars, tr, intent>>
     ELSE WritePage("vots", tr[T].vots, tr, Rest)
  /\ Kept(<<fs, fs_buffer, call>>)

(* Fault: the closed transaction is not recorded.                          *)
SetInode0Only ==
  /\ Doing("setFs")
  /\ fs' = [fs EXCEPT !.ino0 = call.ino0]
  /\ todo' = Rest
  /\ Kept(<<flashVars, tr, fs_buffer, call, intent>>)

SetFs ==
  /\ Doing("setFs")
  /\ fs' = [fs EXCEPT !.ino0 = call.ino0, !.closed = tr[T].prev]
  /\ todo' = Rest
  /\ Kept(<<flashVars, tr, fs_buffer, call, intent>>)

(* handleTransactionVOTs() starts at the last page of the transaction.     *)
StartWalk ==
  /\ Doing("walk")
  /\ todo' = <<Do("vots", NoInode, tr[T].prev)>> \o Rest
  /\ Kept(<<flashVars, fs, tr, fs_buffer, call, intent>>)

Marks(as) == [i \in 1 .. Len(as) |-> Do("mark", NoInode, as[i])]

(* One page of the chain: the entries of a VOTs page are marked, then the  *)
(* page itself (performVOTs()).                                            *)
WalkVots ==
  /\ Doing("vots")
  /\ LET p == pages[Op.a]
     IN  IF Op.a = EMPTY THEN todo' = Rest /\ UNCHANGED fs_buffer
         ELSE IF p.kind # "vots"
         THEN todo' = <<Do("vots", NoInode, p.prev)>> \o Rest /\ UNCHANGED fs_buffer
         ELSE /\ todo' = Marks(Append(p.ref, Op.a)) \o
                         <<Do("vots", NoInode, p.prev)>> \o Rest
              /\ fs_buffer' = p
  /\ Kept(<<flashVars, fs, tr, call, intent>>)

(* tr_mark_as_obsolete()                                                   *)
Mark(a) == obs' = obs \cup {a} /\ marked' = marked \cup {a}

MarkVot ==
  /\ Doing("mark")
  /\ Mark(Op.a)
  /\ todo' = Rest
  /\ Kept(<<pages, saved, fs, tr, fs_buffer, call, intent>>)

(* The transaction is over.                                                *)
Finish ==
  /\ Doing("finish")
  /\ tr' = [tr EXCEPT ![T] = EmptyTr]
  /\ fs' = [fs EXCEPT !.closed = EMPTY, !.last[T] = EMPTY]
  /\ todo' = Rest
  /\ Kept(<<flashVars, fs_buffer, call, intent>>)

(* The call returns: its locals and what it left in fs_buffer are not used *)
(* any more.                                                               *)
Return ==
  /\ Doing("return")
  /\ call' = NoCall /\ fs_buffer' = NoPage
  /\ todo' = <<>>
  /\ Kept(<<flashVars, fs, tr, intent>>)

(* deleteTransactionPages(): a page is marked, then the one before it.     *)
(* VOTs pages are read to fs_buffer.                                       *)
DeletePage ==
  /\ Doing("delete")
  /\ LET t == Op.a
         a == tr[t].prev
     IN  IF a = EMPTY THEN todo' = Rest /\ UNCHANGED <<obs, marked, tr, fs_buffer>>
         ELSE /\ Mark(a)
              /\ tr' = [tr EXCEPT ![t].prev = pages[a].prev]
              /\ fs_buffer' = IF pages[a].kind = "vots" THEN pages[a] ELSE fs_buffer
              /\ UNCHANGED todo
  /\ Kept(<<pages, saved, fs, call, intent>>)

InitTransaction ==
  /\ Doing("init")
  /\ tr' = [tr EXCEPT ![Op.a] = EmptyTr]
  /\ intent' = [intent EXCEPT ![Op.a] = NoChange]
  /\ todo' = Rest
  /\ Kept(<<flashVars, fs, fs_buffer, call>>)

-----------------------------------------------------------------------------
(* Calls of the file system.                                               *)

Ready == todo = <<>>
Called == Ready /\ calls < MaxCalls /\ calls' = calls + 1 /\ UNCHANGED failures

Exists(f) == InodeAddr(pages, fs.ino0, f) # EMPTY

(* What transaction t sees of f, and what it intends.                      *)
SeenBy(t, f) == IF f \in DOMAIN intent[t] THEN intent[t][f]
                ELSE ContentsOf(pages, obs, fs.ino0, f)
Intends(t, f, c) ==
  intent' = [intent EXCEPT ![t] =
               [i \in DOMAIN intent[t] \cup {f} |->
                  IF i = f THEN c ELSE intent[t][i]]]

(* The blocks and pointer pages of a file in the order of their offsets,   *)
(* those of a subtree before the page that points to them.                 *)
FileOrder == <<"b0", "b1", "indirect", "b2", "leaf", "double",
               "b3", "leaf3", "double3", "triple">>

BlocksBefore(b) ==
  LET at(x) == CHOOSE i \in DOMAIN FileOrder : FileOrder[i] = x
  IN  {c \in Blocks : at(c) < at(b)}

(* nandfs_write() of block b, at most at the end of the file: the          *)
(* transaction of the file, or a free one.  Without one nothing is written.*)
Write(f, b, v) ==
  /\ Called /\ Exists(f) /\ TidsOf(f) \cup FreeTids # {}
  /\ LET t == IF TidsOf(f) # {} THEN First(TidsOf(f)) ELSE First(FreeTids)
     IN  /\ \A c \in BlocksBefore(b) : SeenBy(t, f)[c] # {}
         /\ tr' = [tr EXCEPT ![t].type = T_TYPE_WRITE, ![t].ino = f,
                     ![t].inoAddr = IF TidsOf(f) # {} THEN @
                                    ELSE InodeAddr(pages, fs.ino0, f)]
         /\ call' = [NoCall EXCEPT !.tid = t]
         /\ Intends(t, f, [SeenBy(t, f) EXCEPT ![b] = {v}])
  /\ todo' = <<Do("seek", b, EMPTY), Do("writeData", b, {v}), Todo("return")>>
  /\ UNCHANGED <<flashVars, fs, fs_buffer>>

(* fsyncUtil(), closeUtil(): commitTransaction() returns at once for a     *)
(* transaction that is being committed.                                    *)
Commit(f) ==
  /\ Called /\ TidsOf(f) # {}
  /\ LET t == First(TidsOf(f))
     IN  /\ ~ tr[t].isCommiting
         /\ tr' = [tr EXCEPT ![t].isCommiting = TRUE]
         /\ call' = [NoCall EXCEPT !.tid = t, !.ino0 = fs.ino0, !.own = TRUE]
  /\ todo' = commitTransaction(f)
  /\ UNCHANGED <<flashVars, fs, fs_buffer, intent>>

(* The directory is rewritten with other entries and committed.            *)
DirOps(entries) ==
  <<Todo("turnToDir"), Do("seek", "b0", EMPTY), Do("writeData", "b0", entries)>>
  \o commitTransaction(Dir)

Entries == ContentsOf(pages, obs, fs.ino0, Dir)["b0"]

(* createNewFile(): the new inode and its entry in inode0, then the        *)
(* directory entry.  The directory must not be in use (verifyFileNotOpen). *)
Create(f) ==
  /\ Called /\ ~ Exists(f) /\ FreeTids # {} /\ TidsOf(Dir) = {}
  /\ LET t == First(FreeTids)
     IN  /\ tr' = [tr EXCEPT ![t].type = T_TYPE_WRITE, ![t].ino = f,
                     ![t].node = "inode"]
         /\ call' = [NoCall EXCEPT !.tid = t, !.ino0 = fs.ino0, !.file = f]
         /\ intent' = [intent EXCEPT ![t] =
                         [i \in {f, Dir} |->
                            IF i = f THEN [b \in Blocks |-> {}]
                            ELSE [SeenBy(t, Dir) EXCEPT !["b0"] = @ \cup {f}]]]
  /\ todo' = <<Todo("commitInode"), Todo("keepInode")>>
             \o commitInodeToInode0(f) \o DirOps(Entries \cup {f})
  /\ UNCHANGED <<flashVars, fs, fs_buffer>>

(* votFile(): the pages of a file, in the order they are voted.            *)
votFile(ino) ==
  LET all == <<"inode">> \o FileOrder
  IN  [i \in 1 .. Len(all) |->
         Do("vot", NoInode, IF all[i] \in Blocks \cup Nodes
                            THEN AddrOf(pages, ino, all[i]) ELSE EMPTY)]

(* removeFile(): the pages of the file are voted, its entry in inode0 is   *)
(* emptied and its directory entry deleted.  It must not be open.          *)
Unlink(f) ==
  /\ Called /\ Exists(f) /\ FreeTids # {} /\ TidsOf(Dir) = {} /\ TidsOf(f) = {}
  /\ LET t == First(FreeTids)
     IN  /\ tr' = [tr EXCEPT ![t].type = T_TYPE_UNLINK, ![t].ino = f]
         /\ call' = [NoCall EXCEPT !.tid = t, !.ino0 = fs.ino0, !.file = f]
         /\ intent' = [intent EXCEPT ![t] =
                         [i \in {f, Dir} |->
                            IF i = f THEN NoFile
                            ELSE [SeenBy(t, Dir) EXCEPT !["b0"] = @ \ {f}]]]
  /\ todo' = votFile(InodeAddr(pages, fs.ino0, f)) \o commitInodeToInode0(f)
             \o DirOps(Entries \ {f})
  /\ UNCHANGED <<flashVars, fs, fs_buffer>>

(* The transaction turns to the directory.                                 *)
TurnToDir ==
  /\ Doing("turnToDir")
  /\ tr' = [tr EXCEPT ![T].ino = Dir, ![T].node = "none",
              ![T].inoAddr = InodeAddr(pages, fs.ino0, Dir)]
  /\ todo' = Rest
  /\ Kept(<<flashVars, fs, fs_buffer, call, intent>>)

-----------------------------------------------------------------------------
(* Power failures and nandfs_fsBooting().                                  *)

(***************************************************************************)
(* The memory is lost, the flash is that of the last checkpoint with the   *)
(* marks made since, except (at most one, a bound) a mark on a copy that   *)
(* the boot makes again.  sequencingBooting() ends with the search for a   *)
(* free page, which may write a header; then the VOTs of a transaction     *)
(* that was closed are marked again and open transactions deleted.         *)
(***************************************************************************)
Booting == ToDo("bootEnd")

PowerFailure ==
  /\ failures < IF Booting THEN MaxFailures + MaxBootFailures ELSE MaxFailures
  /\ failures' = failures + 1
  /\ pages' = saved.pages
  /\ \E lost \in {{}} \cup {{a} : a \in marked} :
       obs' = saved.obs \cup ({a \in marked : saved.pages[a].kind # "none"} \ lost)
  /\ fs' = saved.fs
  /\ tr' = [t \in Tids |-> EmptyTr]
  /\ fs_buffer' = NoPage /\ call' = NoCall
  /\ intent' = [t \in Tids |-> NoChange]
  /\ todo' = <<Todo("find"), Todo("bootVots")>> \o
             [t \in 1 .. Cardinality(Tids) |-> Do("bootDelete", NoInode, t - 1)]
             \o <<Todo("bootEnd")>>
  /\ UNCHANGED <<saved, marked, calls>>

BootVots ==
  /\ Doing("bootVots")
  /\ todo' = <<Do("vots", NoInode, fs.closed)>> \o Rest
  /\ Kept(<<flashVars, fs, tr, fs_buffer, call, intent>>)

(* The last committed transaction is not deleted.                          *)
IsClosed(t) == fs.last[t] = fs.closed

BootDelete ==
  /\ Doing("bootDelete")
  /\ LET t == Op.a
         a == fs.last[t]
     IN  IF IsClosed(t) \/ a = EMPTY
         THEN /\ fs' = [fs EXCEPT !.last[t] = EMPTY]
              /\ todo' = Rest
              /\ UNCHANGED <<obs, marked>>
         ELSE /\ Mark(a)
              /\ fs' = [fs EXCEPT !.last[t] = pages[a].prev]
              /\ UNCHANGED todo
  /\ Kept(<<pages, saved, tr, fs_buffer, call, intent>>)

BootEnd ==
  /\ Doing("bootEnd")
  /\ fs' = [fs EXCEPT !.closed = EMPTY]
  /\ todo' = Rest
  /\ Kept(<<flashVars, tr, fs_buffer, call, intent>>)

-----------------------------------------------------------------------------
(* handleNoFs() has made inode0 and the root directory, and the existing   *)
(* files were created.                                                     *)
InitialPages ==
  LET first(f) == 3 + CHOOSE i \in DOMAIN Existing : Existing[i] = f
      files    == {Existing[i] : i \in DOMAIN Existing}
  IN  [a \in Addr |->
         CASE a = 1 -> Page("data", files, EMPTY)
           [] a = 2 -> Page("inode", [NoPointers("inode") EXCEPT !["b0"] = 1], 1)
           [] a = 3 -> Page("ino0", [i \in Inodes |->
                              IF i = Dir THEN 2
                              ELSE IF i \in files THEN first(i) ELSE EMPTY], 2)
           [] a \in 4 .. 3 + Len(Existing) -> Page("inode", NoPointers("inode"), EMPTY)
           [] OTHER -> NoPage]

InitialFs == [ino0 |-> 3, closed |-> EMPTY, last |-> [t \in Tids |-> EMPTY]]

Init ==
  /\ pages = InitialPages /\ obs = {} /\ marked = {}
  /\ fs = InitialFs
  /\ saved = [pages |-> InitialPages, obs |-> {}, fs |-> InitialFs]
  /\ tr = [t \in Tids |-> EmptyTr]
  /\ fs_buffer = NoPage /\ todo = <<>> /\ call = NoCall
  /\ intent = [t \in Tids |-> NoChange]
  /\ calls = 0 /\ failures = 0

WriteStep ==
  \/ WriteData \/ WriteActive \/ WriteUpper \/ WriteInode \/ WriteInode0
  \/ VotsPage \/ LastVots

CommitStep ==
  \/ CommitInodeOp \/ ReadUpper \/ KeepInode \/ LoadInode0 \/ NewInode0
  \/ SetFs \/ StartWalk \/ WalkVots \/ MarkVot \/ Finish \/ Return

Step ==
  \/ WriteStep \/ CommitStep
  \/ Checkpoint \/ FindNextFreePage \/ SetPrev \/ Vot
  \/ AbortOther \/ WriteError \/ DeletePage \/ InitTransaction
  \/ Seek \/ Load \/ TurnToDir
  \/ BootVots \/ BootDelete \/ BootEnd

Call ==
  \/ \E f \in Files, b \in Blocks, v \in Data : Write(f, b, v)
  \/ \E f \in Files : Commit(f) \/ Create(f) \/ Unlink(f)

Next == Step \/ Call \/ PowerFailure

Spec == Init /\ [][Next]_vars

-----------------------------------------------------------------------------
(* What transactions promise.                                              *)

Atomic == INSTANCE AtomicCommit WITH durable <- Durable

(* Every behaviour is one of AtomicCommit: what a boot recovers changes    *)
(* only by the first checkpoint of commitTransaction(), then to exactly    *)
(* what the calls of that transaction wrote, for the file, the directory   *)
(* and inode0 together; no header, abort, power failure, boot or other     *)
(* transaction changes it or loses one of its pages.                       *)
CommitsAreAtomic == Atomic!AtomicSpec

(* No page that a boot needs for the files of the last checkpoint is       *)
(* obsolete: nandfs_fsBooting() does not "obsolete pages of last commited  *)
(* transaction".                                                           *)
CommittedReadable == \A f \in Inodes, b \in Blocks : Durable[f][b] # Lost

(* The type of the state; writeVot() leaves no full buffer behind.         *)
TypeOK ==
  /\ obs \subseteq Addr /\ marked \subseteq Addr
  /\ \A a \in Addr : pages[a].prev \in Addr \cup {EMPTY}
  /\ fs.ino0 \in Addr /\ pages[fs.ino0].kind = "ino0"
  /\ \A t \in Tids :
       /\ tr[t].prev \in Addr \cup {EMPTY}
       /\ tr[t].node \in Nodes \cup {"none"}
       /\ Len(tr[t].vots) <= VotsPerPage
       /\ Ready => Len(tr[t].vots) < VotsPerPage

(* What a read of block b by the user of transaction t returns: pointers   *)
(* of the active pointer page are in its buffer.                           *)
ReadOf(t, b) ==
  LET a == IF Parent[b] = tr[t].node THEN tr[t].ptrs[b]
           ELSE AddrOf(pages, tr[t].inoAddr, b)
  IN  IF a = EMPTY THEN {} ELSE IF a \in obs THEN Lost ELSE pages[a].ref

(* Between calls every file reads as it was last written: through its      *)
(* transaction if one is open, else as committed; commits of pointer pages *)
(* that writes to other blocks forced, and aborts of other transactions,   *)
(* are not seen.                                                           *)
ReadsBack ==
  Ready =>
    \A f \in Inodes :
      IF TidsOf(f) # {}
      THEN \A b \in Blocks : ReadOf(First(TidsOf(f)), b) = intent[First(TidsOf(f))][f][b]
      ELSE ContentsOf(pages, obs, fs.ino0, f) = Durable[f]

(* The pages of the committed tree, and those of an open transaction.      *)
TreeOf(f) ==
  LET ino == InodeAddr(pages, fs.ino0, f)
  IN  IF ino = EMPTY THEN {}
      ELSE {AddrOf(pages, ino, x) : x \in Blocks \cup Nodes} \ {EMPTY}

ChainOf(t) ==
  LET from[n \in 0 .. Capacity] ==
        IF n = 0 THEN {tr[t].prev} \ {EMPTY}
        ELSE LET S == from[n - 1]
             IN  S \cup ({pages[a].prev : a \in S} \ {EMPTY})
  IN  from[Capacity]

(* Between calls, when the power has not failed, every valid page is part  *)
(* of the committed tree or of an open transaction: commits obsolete all   *)
(* the pages they replace, aborts all they wrote, and nothing else.        *)
NoPageLeaks ==
  (Ready /\ failures = 0) =>
    Valid \subseteq {fs.ino0} \cup UNION {TreeOf(f) : f \in Inodes}
                              \cup UNION {ChainOf(t) : t \in Tids}
=============================================================================

------------------------- MODULE TransactionsInvariant -------------------------
(***************************************************************************)
(* The invariant of Transactions, for files with direct blocks (Direct)    *)
(* and without the failures of fsync()'s last VOTs (FailLastVots = {}),    *)
(* and the steps of a transaction before its commit, which keep it.        *)
(*                                                                         *)
(* A transaction owns the pages of its chain.  Until it is committed the   *)
(* pages of the last checkpoint's files (Tree0) are kept as they are,      *)
(* what it votes are its own pages or those of the files it changes, and   *)
(* what it is about to commit is not among them.                           *)
(***************************************************************************)
EXTENDS Transactions, SequenceTheorems, FiniteSetTheorems, WellFoundedInduction, TLAPS

Direct == Nodes = {"inode"} /\ FailLastVots = {}

-----------------------------------------------------------------------------
(* Types.                                                                  *)

Addr0  == Addr \cup {EMPTY}
AddrSets == SUBSET Addr
Owned  == [Tids -> AddrSets]
Vals   == Files \cup Data
Values == SUBSET Vals
Filled == [Blocks -> Values]
Names  == Inodes \cup Blocks \cup Nodes \cup {NoInode}
OpNames ==
  {"delete", "init", "checkpoint", "find", "prev", "vot", "votNode", "votsPage",
   "mark", "vots", "seek", "load", "writeData", "commitInode", "writeActive",
   "read", "write", "writeInode", "keepInode", "loadInode0", "writeInode0",
   "newInode0", "lastVots", "setFs", "walk", "finish", "return", "turnToDir",
   "bootVots", "bootDelete", "bootEnd"}
Ops    == [op : OpNames, x : Names, a : Addr0 \cup Tids \cup Values]

PageSet ==
  {NoPage} \cup [kind : {"data"}, ref : Values, prev : Addr0]
           \cup [kind : {"inode"}, ref : [Blocks -> Addr0], prev : Addr0]
           \cup [kind : {"ino0"}, ref : [Inodes -> Addr0], prev : Addr0]
           \cup [kind : {"vots"}, ref : Seq(Addr), prev : Addr0]

FsSet == [ino0 : Addr, closed : Addr0, last : [Tids -> Addr0]]

TrSet ==
  [ino : Inodes \cup {NoInode, "inode0"}, prev : Addr0,
   type : {T_TYPE_EMPTY, T_TYPE_WRITE, T_TYPE_UNLINK},
   inoAddr : Addr0, vots : Seq(Addr), node : {"none", "inode"},
   ptrs : [Blocks -> Addr0] \cup [Inodes -> Addr0], isCommiting : BOOLEAN]

CallSet ==
  [tid : Nat, ino0 : Addr0, own : BOOLEAN, file : Inodes \cup {NoInode},
   inode : Addr0, new : [Nodes -> Addr0]]

ChangeSet == UNION {[S -> Contents] : S \in SUBSET Inodes}

TypeInv ==
  /\ pages \in [Addr -> PageSet] /\ obs \subseteq Addr /\ marked \subseteq Addr
  /\ fs \in FsSet /\ tr \in [Tids -> TrSet] /\ call \in CallSet
  /\ todo \in Seq(Ops)
  /\ saved \in [pages : [Addr -> PageSet], obs : SUBSET Addr, fs : FsSet]
  /\ intent \in [Tids -> ChangeSet]

-----------------------------------------------------------------------------
(* The tree of files of a checkpoint.                                      *)

FilePages(P, n) ==
  IF n = EMPTY THEN {} ELSE {n} \cup ({P[n].ref[b] : b \in Blocks} \ {EMPTY})

GoodFile(P, n) ==
  n # EMPTY =>
    /\ P[n].kind = "inode"
    /\ \A b \in Blocks : P[n].ref[b] # EMPTY =>
         /\ P[P[n].ref[b]].kind = "data"
         /\ \A c \in Blocks \ {b} : P[n].ref[c] # P[n].ref[b]

ContOf(P, ptrs) ==
  [b \in Blocks |-> IF ptrs[b] = EMPTY THEN {} ELSE P[ptrs[b]].ref]

FileCont(P, n) == IF n = EMPTY THEN NoFile ELSE ContOf(P, P[n].ref)

GoodTree(P, r) ==
  /\ r \in Addr /\ P[r].kind = "ino0"
  /\ P[r].ref[Dir] # EMPTY
  /\ \A f \in Inodes : GoodFile(P, P[r].ref[f])
  /\ \A f, g \in Inodes :
       f # g => FilePages(P, P[r].ref[f]) \cap FilePages(P, P[r].ref[g]) = {}

Tree(P, r) == {r} \cup UNION {FilePages(P, P[r].ref[f]) : f \in Inodes}

Root      == saved.fs.ino0
Ref0      == saved.pages[Root].ref
Pages0(f) == FilePages(saved.pages, Ref0[f])
Tree0     == Tree(saved.pages, Root)
Cont0(f)  == FileCont(saved.pages, Ref0[f])

(* The files of the last checkpoint are kept until the next.               *)
TreeKept ==
  /\ GoodTree(saved.pages, Root)
  /\ Tree0 \cap (obs \cup saved.obs \cup marked) = {}
  /\ \A a \in Tree0 : pages[a] = saved.pages[a]

Closed(P, S) == S \subseteq Addr /\ \A a \in S : P[a].prev \in S \cup {EMPTY}

(* What a boot walks from the last checkpoint: C is the chain of a         *)
(* committed transaction, D holds those of open ones.                      *)
Recoverable(C, D) ==
  /\ Closed(saved.pages, C) /\ Closed(saved.pages, D)
  /\ saved.fs.closed \in C \cup {EMPTY}
  /\ \A t \in Tids : saved.fs.last[t] \in D \cup {EMPTY, saved.fs.closed}
  /\ D \cap Tree0 = {}
  /\ \A a \in C : saved.pages[a].kind = "vots" =>
       /\ a \notin Tree0
       /\ \A i \in 1 .. Len(saved.pages[a].ref) : saved.pages[a].ref[i] \notin Tree0

-----------------------------------------------------------------------------
(* Transactions: own[t] are the pages transaction t has written, vw[t] the *)
(* addresses it has voted.                                                 *)

OwnChain(own, t) ==
  /\ own[t] \subseteq Addr
  /\ tr[t].prev \in own[t] \cup {EMPTY}
  /\ \A a \in own[t] : pages[a].prev \in own[t] \cup {EMPTY}

LiveOwn(own, t) ==
  /\ own[t] \cap (Tree0 \cup obs) = {}
  /\ \A a \in own[t] : pages[a].kind # "none"

VotsOf(own, t) ==
  {tr[t].vots[i] : i \in 1 .. Len(tr[t].vots)} \cup
  UNION {{pages[a].ref[i] : i \in 1 .. Len(pages[a].ref)} :
           a \in {x \in own[t] : pages[x].kind = "vots"}}

(* What t may vote: the pages it replaces.                                 *)
MayVote(own, t) ==
  own[t] \cup {Root} \cup UNION {Pages0(g) : g \in DOMAIN intent[t]}

Votes(own, vw, t) ==
  VotsOf(own, t) \subseteq vw[t] /\ vw[t] \subseteq MayVote(own, t)

(* The pointers of a file that t changes.                                  *)
Pointers(own, vw, t, ptrs, f) ==
  \A b \in Blocks : ptrs[b] # EMPTY =>
    /\ ptrs[b] \in (own[t] \cup Pages0(f)) \ vw[t]
    /\ pages[ptrs[b]].kind = "data"
    /\ \A c \in Blocks \ {b} : ptrs[c] # ptrs[b]

PtrsNow(t) == IF tr[t].node = "inode" THEN tr[t].ptrs
              ELSE ReadNode(pages, tr[t].inoAddr, "inode")

OpenFile(own, vw, t) ==
  /\ tr[t].ino \in Inodes
  /\ tr[t].inoAddr = Ref0[tr[t].ino]
  /\ tr[t].node = "inode" => tr[t].ptrs \in [Blocks -> Addr0]
  /\ Pointers(own, vw, t, PtrsNow(t), tr[t].ino)

(* The transaction of a regular file.                                      *)
OfFile(t) ==
  /\ tr[t].ino \in Files /\ DOMAIN intent[t] = {tr[t].ino}
  /\ Ref0[tr[t].ino] # EMPTY

(* A transaction between calls.                                            *)
Unused(own, t) == tr[t] = EmptyTr /\ intent[t] = NoChange /\ own[t] = {}

InUse(own, vw, t) ==
  /\ OfFile(t) /\ tr[t].node = "inode" /\ Root \notin vw[t]
  /\ OpenFile(own, vw, t) /\ Votes(own, vw, t)
  /\ intent[t][tr[t].ino] = ContOf(pages, tr[t].ptrs)

Stable(own, vw, t) == LiveOwn(own, t) /\ (Unused(own, t) \/ InUse(own, vw, t))

-----------------------------------------------------------------------------
(* What is left of a call, after an abort and other things of a page's     *)
(* writing: the rest of its program.                                       *)

Then(x, s) == <<x>> \o s

kRet    == <<Todo("return")>>
kFind2  == Then(Todo("find"), kRet)
kCp2    == Then(Todo("checkpoint"), kFind2)
kFinish == Then(Todo("finish"), kCp2)
kFind   == Then(Todo("find"), kFinish)
kVots(a) == Then(Do("vots", NoInode, a), kFind)
kWalk   == Then(Todo("walk"), kFind)
kCp     == Then(Todo("checkpoint"), kWalk)
kSetFs  == Then(Todo("setFs"), kCp)
kLast   == Then(Todo("lastVots"), kSetFs)

kNew(a, k)    == Then(Do("newInode0", NoInode, a), k)
kWriteZ(f, k) == Then(Do("writeInode0", f, EMPTY), k)
kVotZ(f, k)   == Then(Do("votNode", "inode", EMPTY), kWriteZ(f, k))
kLoadZ(f, k)  == Then(Do("loadInode0", f, EMPTY), kVotZ(f, k))
kKeep(f, k)   == Then(Todo("keepInode"), kLoadZ(f, k))
kActive(f, k) == Then(Do("writeActive", "inode", EMPTY), kKeep(f, k))
kVotI(f, k)   == Then(Do("votNode", "inode", EMPTY), kActive(f, k))
kCommit(f, k) == Then(Todo("commitInode"), kKeep(f, k))

kData(b, e, k) == Then(Do("writeData", b, e), k)
kLoad(b, e, k) == Then(Do("load", b, EMPTY), kData(b, e, k))
kSeek(b, e, k) == Then(Do("seek", b, EMPTY), kData(b, e, k))
kDirCommit     == kCommit(Dir, kLast)
kDir(e) == Then(Todo("turnToDir"), kSeek("b0", e, kDirCommit))

kAgain(t) == AbortOps(t) \o kRet

(* The rest of abortTransaction().                                         *)
AbortTails(u) ==
  {AbortOps(u), Tail(AbortOps(u)), Tail(Tail(AbortOps(u))), <<Todo("find")>>}
IsAbort(A) == A = <<>> \/ \E u \in Tids : A \in AbortTails(u)
Dying(A, t) == A # <<>> /\ Head(A).op \in {"delete", "init"} /\ Head(A).a = t

(* What comes between two steps of the program before the commit.          *)
Between(own, vw, X) ==
  \A i \in 1 .. Len(X) :
    \/ X[i].op \in {"find", "votsPage"}
    \/ X[i].op = "vot" /\ X[i].a \in vw[T] \cup {EMPTY}
    \/ X[i].op = "prev" /\ X[i].a \in own[T]

-----------------------------------------------------------------------------
(* The phases of a call.                                                   *)

(* File f with inode n is as the transaction intends.  The file that was   *)
(* created or unlinked has no blocks.                                      *)
NewFile(own, vw, f, n) ==
  /\ n # EMPTY => /\ n \in own[T] \ vw[T] /\ pages[n].kind = "inode"
                  /\ Pointers(own, vw, T, pages[n].ref, f)
  /\ n = EMPTY => f = call.file
  /\ n # EMPTY /\ f = call.file => \A b \in Blocks : pages[n].ref[b] = EMPTY
  /\ intent[T][f] = FileCont(pages, n)

(* What inode0 holds before f is entered, and after it.                    *)
BaseRef(own, vw, f, ref) ==
  \/ f # Dir /\ ref = Ref0
  \/ f = Dir /\ \E n \in Addr0 : /\ ref = [Ref0 EXCEPT ![call.file] = n]
                                 /\ NewFile(own, vw, call.file, n)

(* The inode of the directory is not that of the file entered before.      *)
Entered(own, vw, f, ref, n) ==
  /\ BaseRef(own, vw, f, ref) /\ NewFile(own, vw, f, n)
  /\ f = Dir => n \notin {EMPTY, ref[call.file]}

NewRef(own, vw, f, ref) ==
  \E base \in [Inodes -> Addr0], n \in Addr0 :
    ref = [base EXCEPT ![f] = n] /\ Entered(own, vw, f, base, n)

(* The kinds of commits: of fsync() and close(); of the directory; of the  *)
(* file that is created or unlinked, before that.                          *)
FileCommit(f) ==
  /\ call.own /\ call.file = NoInode
  /\ f \in Files /\ DOMAIN intent[T] = {f}
DirCommit ==
  /\ ~ call.own /\ call.file \in Files
  /\ DOMAIN intent[T] = {call.file, Dir}
DirIntent(vw, e) ==
  /\ intent[T][Dir] = [Cont0(Dir) EXCEPT !["b0"] = e]
  /\ vw[T] \cap Pages0(Dir) = {}

Pass(vw, f, k) ==
  \/ k = kLast /\ FileCommit(f)
  \/ k = kLast /\ f = Dir /\ DirCommit
  \/ \E e \in Values :
       k = kDir(e) /\ f = call.file /\ DirCommit /\ DirIntent(vw, e)

IsRoot(own, a) == a \in {Root} \cup own[T] /\ pages[a].kind = "ino0"

BaseOK(own, vw, f) ==
  IsRoot(own, call.ino0) /\ BaseRef(own, vw, f, pages[call.ino0].ref)

CommitInodePhase(own, vw, f, k, m) ==
  /\ m \in {kCommit(f, k), kVotI(f, k), kActive(f, k)}
  /\ BaseOK(own, vw, f)
  /\ tr[T].ino = f /\ tr[T].node = "inode" /\ OpenFile(own, vw, T)
  /\ intent[T][f] = ContOf(pages, tr[T].ptrs)
  /\ f = call.file => \A b \in Blocks : tr[T].ptrs[b] = EMPTY

KeepPhase(own, vw, f, k, m) ==
  /\ m = kKeep(f, k)
  /\ IsRoot(own, call.ino0) /\ tr[T].inoAddr # EMPTY
  /\ Entered(own, vw, f, pages[call.ino0].ref, tr[T].inoAddr)

LoadPhase(own, vw, f, k, m) ==
  /\ m = kLoadZ(f, k)
  /\ IsRoot(own, call.ino0)
  /\ Entered(own, vw, f, pages[call.ino0].ref, call.inode)

Inode0Phase(own, vw, f, k, m) ==
  /\ m \in {kVotZ(f, k), kWriteZ(f, k)}
  /\ IsRoot(own, call.ino0) /\ tr[T].inoAddr = call.ino0
  /\ NewRef(own, vw, f, tr[T].ptrs)

NewRoot(own, vw, f, a) ==
  /\ a \in own[T] \ vw[T] /\ pages[a].kind = "ino0"
  /\ NewRef(own, vw, f, pages[a].ref)

NewPhase(own, vw, f, k, m) ==
  \E a \in Addr : m = kNew(a, k) /\ NewRoot(own, vw, f, a)

PassPhase(own, vw, m) ==
  \E f \in Inodes, k \in Seq(Ops) :
    /\ Pass(vw, f, k)
    /\ \/ CommitInodePhase(own, vw, f, k, m) \/ KeepPhase(own, vw, f, k, m)
       \/ LoadPhase(own, vw, f, k, m) \/ Inode0Phase(own, vw, f, k, m)
       \/ NewPhase(own, vw, f, k, m)

TurnPhase(own, vw, m) ==
  \E e \in Values :
    /\ m = kDir(e) /\ DirCommit /\ DirIntent(vw, e)
    /\ NewRoot(own, vw, call.file, call.ino0)

(* The block b is about to be written.                                     *)
WriteOf(own, vw, k) ==
  \/ k = kRet /\ call.file = NoInode /\ OfFile(T) /\ Root \notin vw[T]
  \/ k = kDirCommit /\ DirCommit /\ tr[T].ino = Dir /\ BaseOK(own, vw, Dir)

WritePhase(own, vw, m) ==
  \E b \in Blocks, e \in Values, k \in Seq(Ops) :
    /\ \/ m = kSeek(b, e, k)
       \/ m = kLoad(b, e, k) /\ tr[T].node = "none"
       \/ m = kData(b, e, k) /\ tr[T].node = "inode"
    /\ WriteOf(own, vw, k) /\ OpenFile(own, vw, T)
    /\ intent[T][tr[T].ino] = [ContOf(pages, PtrsNow(T)) EXCEPT ![b] = e]

(* Returning from write() the transaction is in use again.                 *)
WrittenPhase(own, vw, m) ==
  /\ m = kRet /\ call.file = NoInode /\ InUse(own, vw, T)

LastPhase(own, vw, m) ==
  /\ m \in {kLast, kSetFs, kCp}
  /\ \E f \in Inodes : Pass(vw, f, kLast) /\ NewRoot(own, vw, f, call.ino0)

(* After the checkpoint: what is marked now is in no file.                 *)
Forsaken(own, a) == a \in Addr \ (Tree0 \cup UNION {own[u] : u \in Tids \ {T}})

WalkPhase(own, X, m) ==
  /\ m \in {kWalk, kFind, kFinish} \cup {kVots(a) : a \in own[T] \cup {EMPTY}}
  /\ intent[T] = NoChange
  /\ fs.closed = tr[T].prev
  /\ \A a \in own[T] : pages[a].kind = "vots" =>
       /\ Forsaken(own, a)
       /\ \A i \in 1 .. Len(pages[a].ref) : Forsaken(own, pages[a].ref[i])
  /\ \A i \in 1 .. Len(X) : X[i].op = "mark" /\ Forsaken(own, X[i].a)

RestPhase(own, vw, X, m) ==
  /\ m \in {<<>>, kRet, kFind2, kCp2, kAgain(T)}
  /\ X = <<>> /\ Stable(own, vw, T)

MainPhase(own, vw, m) ==
  \/ PassPhase(own, vw, m) \/ LastPhase(own, vw, m)
  \/ TurnPhase(own, vw, m) \/ WritePhase(own, vw, m)
  \/ WrittenPhase(own, vw, m)

UncommittedPhase(own, vw, X, m) ==
  /\ LiveOwn(own, T) /\ Votes(own, vw, T)
  /\ MainPhase(own, vw, m) /\ Between(own, vw, X)
  /\ m \in {kLast, kSetFs, kCp} => X = <<>>

-----------------------------------------------------------------------------
(* A checkpoint would not save the files of the last one.                  *)
InWindow(m) == m = kCp \/ (call.own /\ m \in {kLast, kSetFs})

Shape(A, X, m) ==
  /\ todo = A \o (X \o m)
  /\ A \in Seq(Ops) /\ X \in Seq(Ops) /\ m \in Seq(Ops)
  /\ IsAbort(A)
  /\ todo # <<>> => T \in Tids
  /\ A # <<>> => ~ InWindow(m)

FsOK(m) ==
  /\ fs.ino0 = IF InWindow(m) THEN call.ino0 ELSE Root
  /\ fs.closed # EMPTY =>
       m \in {kCp, kWalk, kFind, kFinish} \cup {kVots(a) : a \in Addr0}
  /\ m = kCp => fs.closed = tr[T].prev

(* writeVot() leaves a full buffer only to be written.                     *)
VotsBound(A, X) ==
  \A t \in Tids :
    /\ Len(tr[t].vots) <= VotsPerPage
    /\ Len(tr[t].vots) = VotsPerPage =>
         Dying(A, t) \/ (t = T /\ X # <<>> /\ Head(X).op = "votsPage")

Owners(own) ==
  /\ \A t \in Tids : OwnChain(own, t)
  /\ \A t, u \in Tids : t # u => /\ own[t] \cap own[u] = {}
                                 /\ DOMAIN intent[t] \cap DOMAIN intent[u] = {}

OthersOK(own, vw, A) ==
  /\ \A t \in Tids : Dying(A, t) => own[t] \cap Tree0 = {}
  /\ \A t \in Tids \ {T} : Dying(A, t) \/ Stable(own, vw, t)

MineOK(own, vw, A, X, m) ==
  \/ Dying(A, T) /\ X = <<>> /\ m \in {kRet, kAgain(T)}
  \/ /\ ~ Dying(A, T)
     /\ RestPhase(own, vw, X, m) \/ UncommittedPhase(own, vw, X, m)
  \/ A = <<>> /\ WalkPhase(own, X, m)

Running(own, vw, A, X, m) ==
  /\ Shape(A, X, m) /\ FsOK(m) /\ VotsBound(A, X)
  /\ Owners(own) /\ OthersOK(own, vw, A)
  /\ T \in Tids => MineOK(own, vw, A, X, m)

(* A boot.                                                                 *)
BootOps(C, Y) ==
  \A i \in 1 .. Len(Y) :
    \/ Y[i].op \in {"find", "bootVots"}
    \/ Y[i].op = "bootDelete" /\ Y[i].a \in Tids
    \/ Y[i].op = "vots" /\ Y[i].a \in C \cup {EMPTY}
    \/ Y[i].op = "mark" /\ Y[i].a \in Addr \ Tree0

BootingFrom(C, D, Y) ==
  /\ todo = Y \o <<Todo("bootEnd")>> /\ Y \in Seq(Ops)
  /\ Recoverable(C, D)
  /\ pages = saved.pages /\ fs.ino0 = Root
  /\ \A t \in Tids : tr[t] = EmptyTr /\ intent[t] = NoChange
  /\ fs.closed \in C \cup {EMPTY}
  /\ \A t \in Tids : fs.last[t] \in D \cup {EMPTY, fs.closed}
  /\ BootOps(C, Y)

TransInv ==
  /\ TypeInv /\ TreeKept
  /\ \E C, D \in AddrSets : Recoverable(C, D)
  /\ \/ \E own, vw \in Owned, A, X, m \in Seq(Ops) :
          Running(own, vw, A, X, m)
     \/ \E C, D \in AddrSets, Y \in Seq(Ops) : BootingFrom(C, D, Y)

-----------------------------------------------------------------------------
(* Lists of things to do.                                                  *)

USE DEF EMPTY, NoInode

Args == Addr0 \cup Tids \cup Values

(* A thing to do, from its arguments.                                      *)
LEMMA DoFacts ==
  ASSUME NEW op \in OpNames, NEW x \in Names, NEW a \in Args
  PROVE  /\ Do(op, x, a) \in Ops
         /\ Do(op, x, a).op = op /\ Do(op, x, a).x = x /\ Do(op, x, a).a = a
BY DEF Do, Ops, Args

LEMMA TodoFacts ==
  ASSUME NEW op \in OpNames
  PROVE  Todo(op) \in Ops /\ Todo(op).op = op
BY DoFacts DEF Todo, Names, Args, Addr0

LEMMA AllTodos ==
  /\ \A op \in {"checkpoint", "find", "commitInode", "keepInode", "lastVots", "setFs",
               "walk", "finish", "return", "turnToDir", "votsPage", "bootVots",
               "bootEnd"} : Todo(op) \in Ops /\ Todo(op).op = op
BY TodoFacts DEF OpNames

(* The first of a list that is put together.                               *)
LEMMA ThenFacts ==
  ASSUME NEW x \in Ops, NEW s \in Seq(Ops)
  PROVE  /\ Then(x, s) \in Seq(Ops) /\ Then(x, s) # <<>>
         /\ Head(Then(x, s)) = x /\ Tail(Then(x, s)) = s
<1>1. <<x>> \in Seq(Ops) /\ Len(<<x>>) = 1 /\ <<x>> # <<>> /\ <<x>>[1] = x
  OBVIOUS
<1>2. Then(x, s) \in Seq(Ops) /\ Len(Then(x, s)) = 1 + Len(s)
  BY <1>1, ConcatProperties DEF Then
<1>3. Then(x, s)[1] = x
  BY <1>1, ConcatProperties, LenProperties DEF Then
<1>4. \A i \in 1 .. Len(s) : Then(x, s)[i + 1] = s[i]
  BY <1>1, ConcatProperties, LenProperties DEF Then
<1>5. Then(x, s) # <<>>
  BY <1>2, LenProperties, EmptySeq
<1>6. Tail(Then(x, s)) \in Seq(Ops) /\ Len(Tail(Then(x, s))) = Len(s)
  BY <1>2, <1>5, HeadTailProperties, LenProperties
<1>7. \A i \in 1 .. Len(s) : Tail(Then(x, s))[i] = s[i]
  BY <1>2, <1>4, <1>5, <1>6, HeadTailProperties, LenProperties
<1> QED  BY <1>2, <1>3, <1>5, <1>6, <1>7, SeqEqual, HeadTailProperties

LEMMA TwoThen ==
  ASSUME NEW x \in Ops, NEW y \in Ops, NEW s \in Seq(Ops)
  PROVE  /\ <<x, y>> \o s = Then(x, Then(y, s))
         /\ <<x, y>> \in Seq(Ops) /\ Head(<<x, y>>) = x /\ Tail(<<x, y>>) = <<y>>
<1>1. <<x, y>> = <<x>> \o <<y>>
  <2>1. <<x>> \in Seq(Ops) /\ <<y>> \in Seq(Ops) /\ Len(<<x>>) = 1 /\ Len(<<y>>) = 1
    OBVIOUS
  <2>2. /\ <<x>> \o <<y>> \in Seq(Ops) /\ Len(<<x>> \o <<y>>) = 2
        /\ (<<x>> \o <<y>>)[1] = x /\ (<<x>> \o <<y>>)[2] = y
    BY <2>1, ConcatProperties
  <2>3. /\ <<x, y>> \in Seq(Ops) /\ Len(<<x, y>>) = 2
        /\ <<x, y>>[1] = x /\ <<x, y>>[2] = y
    OBVIOUS
  <2>4. \A i \in 1 .. 2 : (<<x>> \o <<y>>)[i] = <<x, y>>[i]
    BY <2>2, <2>3
  <2> QED  BY <2>2, <2>3, <2>4, SeqEqual
<1> QED  BY <1>1, ConcatAssociative DEF Then

(* The head of a list of two parts.                                        *)
LEMMA Cat ==
  ASSUME NEW s \in Seq(Ops), NEW t \in Seq(Ops)
  PROVE  /\ s \o t \in Seq(Ops)
         /\ s = <<>> => s \o t = t
         /\ s # <<>> => /\ s \o t # <<>> /\ Head(s \o t) = Head(s)
                        /\ Tail(s \o t) = Tail(s) \o t
                        /\ Head(s) \in Ops /\ Tail(s) \in Seq(Ops)
<1>1. s \o t \in Seq(Ops) /\ (s = <<>> => s \o t = t)
  BY ConcatProperties, ConcatEmptySeq
<1>2. ASSUME s # <<>>
      PROVE  /\ s \o t # <<>> /\ Head(s \o t) = Head(s)
             /\ Tail(s \o t) = Tail(s) \o t
             /\ Head(s) \in Ops /\ Tail(s) \in Seq(Ops)
  <2>1. Head(s) \in Ops /\ Tail(s) \in Seq(Ops) /\ s = <<Head(s)>> \o Tail(s)
    <3>1. Head(s) \in Ops /\ Tail(s) \in Seq(Ops)
      BY <1>2, HeadTailProperties
    <3>2. Then(Head(s), Tail(s)) \in Seq(Ops)
      BY <3>1, ThenFacts
    <3>3. Len(s) = Len(Then(Head(s), Tail(s)))
      BY <1>2, <3>1, HeadTailProperties, ConcatProperties, LenProperties DEF Then
    <3>4. \A i \in 1 .. Len(s) : s[i] = Then(Head(s), Tail(s))[i]
      BY <1>2, <3>1, <3>3, HeadTailProperties, ConcatProperties, LenProperties DEF Then
    <3> QED  BY <3>1, <3>2, <3>3, <3>4, SeqEqual DEF Then
  <2>2. s \o t = Then(Head(s), Tail(s) \o t)
    BY <2>1, ConcatAssociative DEF Then
  <2>3. Tail(s) \o t \in Seq(Ops)
    BY <2>1, ConcatProperties
  <2> QED  BY <2>1, <2>2, <2>3, ThenFacts
<1> QED  BY <1>1, <1>2
-----------------------------------------------------------------------------
(* The programs.                                                           *)

LEMMA RetFacts ==
  /\ kRet \in Seq(Ops) /\ kRet # <<>> /\ Head(kRet) = Todo("return")
  /\ Tail(kRet) = <<>>
BY AllTodos DEF kRet

(* What follows setting the last VOTs.                                     *)
LEMMA EndFacts ==
  /\ {kFind2, kCp2, kFinish, kFind, kWalk, kCp, kSetFs, kLast} \subseteq Seq(Ops)
  /\ Head(kFind2) = Todo("find") /\ Tail(kFind2) = kRet /\ kFind2 # <<>>
  /\ Head(kCp2) = Todo("checkpoint") /\ Tail(kCp2) = kFind2 /\ kCp2 # <<>>
  /\ Head(kFinish) = Todo("finish") /\ Tail(kFinish) = kCp2 /\ kFinish # <<>>
  /\ Head(kFind) = Todo("find") /\ Tail(kFind) = kFinish /\ kFind # <<>>
  /\ Head(kWalk) = Todo("walk") /\ Tail(kWalk) = kFind /\ kWalk # <<>>
  /\ Head(kCp) = Todo("checkpoint") /\ Tail(kCp) = kWalk /\ kCp # <<>>
  /\ Head(kSetFs) = Todo("setFs") /\ Tail(kSetFs) = kCp /\ kSetFs # <<>>
  /\ Head(kLast) = Todo("lastVots") /\ Tail(kLast) = kSetFs /\ kLast # <<>>
<1>1. /\ Todo("find") \in Ops /\ Todo("checkpoint") \in Ops
      /\ Todo("finish") \in Ops /\ Todo("walk") \in Ops
      /\ Todo("setFs") \in Ops /\ Todo("lastVots") \in Ops
  BY AllTodos
<1>2. kFind2 \in Seq(Ops) /\ Head(kFind2) = Todo("find") /\ Tail(kFind2) = kRet /\ kFind2 # <<>>
  BY <1>1, RetFacts, ThenFacts DEF kFind2
<1>3. kCp2 \in Seq(Ops) /\ Head(kCp2) = Todo("checkpoint") /\ Tail(kCp2) = kFind2 /\ kCp2 # <<>>
  BY <1>1, <1>2, ThenFacts DEF kCp2
<1>4. kFinish \in Seq(Ops) /\ Head(kFinish) = Todo("finish") /\ Tail(kFinish) = kCp2 /\ kFinish # <<>>
  BY <1>1, <1>3, ThenFacts DEF kFinish
<1>5. kFind \in Seq(Ops) /\ Head(kFind) = Todo("find") /\ Tail(kFind) = kFinish /\ kFind # <<>>
  BY <1>1, <1>4, ThenFacts DEF kFind
<1>6. kWalk \in Seq(Ops) /\ Head(kWalk) = Todo("walk") /\ Tail(kWalk) = kFind /\ kWalk # <<>>
  BY <1>1, <1>5, ThenFacts DEF kWalk
<1>7. kCp \in Seq(Ops) /\ Head(kCp) = Todo("checkpoint") /\ Tail(kCp) = kWalk /\ kCp # <<>>
  BY <1>1, <1>6, ThenFacts DEF kCp
<1>8. kSetFs \in Seq(Ops) /\ Head(kSetFs) = Todo("setFs") /\ Tail(kSetFs) = kCp /\ kSetFs # <<>>
  BY <1>1, <1>7, ThenFacts DEF kSetFs
<1>9. kLast \in Seq(Ops) /\ Head(kLast) = Todo("lastVots") /\ Tail(kLast) = kSetFs /\ kLast # <<>>
  BY <1>1, <1>8, ThenFacts DEF kLast
<1> QED  BY <1>2, <1>3, <1>4, <1>5, <1>6, <1>7, <1>8, <1>9

LEMMA VotsFacts ==
  ASSUME NEW a \in Addr0
  PROVE  /\ kVots(a) \in Seq(Ops) /\ kVots(a) # <<>>
         /\ Head(kVots(a)) = Do("vots", NoInode, a) /\ Tail(kVots(a)) = kFind
<1>1. Do("vots", NoInode, a) \in Ops
  <2>1. "vots" \in OpNames /\ NoInode \in Names /\ a \in Args
    BY DEF OpNames, Names, Args
  <2> QED  BY <2>1, DoFacts
<1> QED  BY <1>1, EndFacts, ThenFacts DEF kVots

(* The program that enters a file into inode0.                             *)
LEMMA PassFacts ==
  ASSUME Direct, NEW f \in Inodes, NEW k \in Seq(Ops)
  PROVE  /\ {kWriteZ(f, k), kVotZ(f, k), kLoadZ(f, k), kKeep(f, k), kActive(f, k),
             kVotI(f, k), kCommit(f, k)} \subseteq Seq(Ops) \ {<<>>}
         /\ Head(kWriteZ(f, k)) = Do("writeInode0", f, EMPTY)
         /\ Tail(kWriteZ(f, k)) = k
         /\ Head(kVotZ(f, k)) = Do("votNode", "inode", EMPTY)
         /\ Tail(kVotZ(f, k)) = kWriteZ(f, k)
         /\ Head(kLoadZ(f, k)) = Do("loadInode0", f, EMPTY)
         /\ Tail(kLoadZ(f, k)) = kVotZ(f, k)
         /\ Head(kKeep(f, k)) = Todo("keepInode")
         /\ Tail(kKeep(f, k)) = kLoadZ(f, k)
         /\ Head(kActive(f, k)) = Do("writeActive", "inode", EMPTY)
         /\ Tail(kActive(f, k)) = kKeep(f, k)
         /\ Head(kVotI(f, k)) = Do("votNode", "inode", EMPTY)
         /\ Tail(kVotI(f, k)) = kActive(f, k)
         /\ Head(kCommit(f, k)) = Todo("commitInode")
         /\ Tail(kCommit(f, k)) = kKeep(f, k)
<1>1. /\ Do("writeInode0", f, EMPTY) \in Ops
      /\ Do("votNode", "inode", EMPTY) \in Ops
      /\ Do("loadInode0", f, EMPTY) \in Ops /\ Todo("keepInode") \in Ops
      /\ Do("writeActive", "inode", EMPTY) \in Ops /\ Todo("commitInode") \in Ops
  <2>1. /\ {"writeInode0", "votNode", "loadInode0", "writeActive"} \subseteq OpNames
        /\ f \in Names /\ "inode" \in Names /\ EMPTY \in Args
    BY DEF OpNames, Names, Args, Addr0, Direct
  <2> QED  BY <2>1, DoFacts, AllTodos
<1>2. /\ kWriteZ(f, k) \in Seq(Ops) \ {<<>>}
      /\ Head(kWriteZ(f, k)) = Do("writeInode0", f, EMPTY) /\ Tail(kWriteZ(f, k)) = k
  BY <1>1, ThenFacts DEF kWriteZ
<1>3. /\ kVotZ(f, k) \in Seq(Ops) \ {<<>>}
      /\ Head(kVotZ(f, k)) = Do("votNode", "inode", EMPTY)
      /\ Tail(kVotZ(f, k)) = kWriteZ(f, k)
  BY <1>1, <1>2, ThenFacts DEF kVotZ
<1>4. /\ kLoadZ(f, k) \in Seq(Ops) \ {<<>>}
      /\ Head(kLoadZ(f, k)) = Do("loadInode0", f, EMPTY)
      /\ Tail(kLoadZ(f, k)) = kVotZ(f, k)
  BY <1>1, <1>3, ThenFacts DEF kLoadZ
<1>5. /\ kKeep(f, k) \in Seq(Ops) \ {<<>>}
      /\ Head(kKeep(f, k)) = Todo("keepInode") /\ Tail(kKeep(f, k)) = kLoadZ(f, k)
  BY <1>1, <1>4, ThenFacts DEF kKeep
<1>6. /\ kActive(f, k) \in Seq(Ops) \ {<<>>}
      /\ Head(kActive(f, k)) = Do("writeActive", "inode", EMPTY)
      /\ Tail(kActive(f, k)) = kKeep(f, k)
  BY <1>1, <1>5, ThenFacts DEF kActive
<1>7. /\ kVotI(f, k) \in Seq(Ops) \ {<<>>}
      /\ Head(kVotI(f, k)) = Do("votNode", "inode", EMPTY)
      /\ Tail(kVotI(f, k)) = kActive(f, k)
  BY <1>1, <1>6, ThenFacts DEF kVotI
<1>8. /\ kCommit(f, k) \in Seq(Ops) \ {<<>>}
      /\ Head(kCommit(f, k)) = Todo("commitInode") /\ Tail(kCommit(f, k)) = kKeep(f, k)
  BY <1>1, <1>5, ThenFacts DEF kCommit
<1> QED  BY <1>2, <1>3, <1>4, <1>5, <1>6, <1>7, <1>8

LEMMA NewFacts ==
  ASSUME NEW a \in Addr0, NEW k \in Seq(Ops)
  PROVE  /\ kNew(a, k) \in Seq(Ops) \ {<<>>}
         /\ Head(kNew(a, k)) = Do("newInode0", NoInode, a) /\ Tail(kNew(a, k)) = k
<1>1. Do("newInode0", NoInode, a) \in Ops
  <2>1. "newInode0" \in OpNames /\ NoInode \in Names /\ a \in Args
    BY DEF OpNames, Names, Args
  <2> QED  BY <2>1, DoFacts
<1> QED  BY <1>1, ThenFacts DEF kNew

(* The program that writes a block, and that of the directory.             *)
LEMMA DataFacts ==
  ASSUME NEW b \in Blocks, NEW e \in Values, NEW k \in Seq(Ops)
  PROVE  /\ {kData(b, e, k), kLoad(b, e, k), kSeek(b, e, k)} \subseteq Seq(Ops) \ {<<>>}
         /\ Head(kData(b, e, k)) = Do("writeData", b, e) /\ Tail(kData(b, e, k)) = k
         /\ Head(kLoad(b, e, k)) = Do("load", b, EMPTY)
         /\ Tail(kLoad(b, e, k)) = kData(b, e, k)
         /\ Head(kSeek(b, e, k)) = Do("seek", b, EMPTY)
         /\ Tail(kSeek(b, e, k)) = kData(b, e, k)
<1>1. /\ Do("writeData", b, e) \in Ops /\ Do("load", b, EMPTY) \in Ops
      /\ Do("seek", b, EMPTY) \in Ops
  BY DoFacts DEF Names, Args, Addr0, OpNames
<1>2. /\ kData(b, e, k) \in Seq(Ops) \ {<<>>}
      /\ Head(kData(b, e, k)) = Do("writeData", b, e) /\ Tail(kData(b, e, k)) = k
  BY <1>1, ThenFacts DEF kData
<1> QED  BY <1>1, <1>2, ThenFacts DEF kLoad, kSeek

LEMMA DirFacts ==
  ASSUME Direct, NEW e \in Values
  PROVE  /\ kDirCommit \in Seq(Ops)
         /\ kDir(e) \in Seq(Ops) \ {<<>>}
         /\ Head(kDir(e)) = Todo("turnToDir")
         /\ Tail(kDir(e)) = kSeek("b0", e, kDirCommit)
<1>1. kDirCommit \in Seq(Ops) /\ "b0" \in Blocks
  BY PassFacts, EndFacts, TransactionsAssumption DEF kDirCommit, Inodes
<1>2. kSeek("b0", e, kDirCommit) \in Seq(Ops)
  BY <1>1, DataFacts
<1> QED  BY <1>1, <1>2, ThenFacts, AllTodos DEF kDir

LEMMA TailOfThree ==
  ASSUME NEW x, NEW y, NEW z
  PROVE  Tail(<<x, y, z>>) = <<y, z>>
OBVIOUS

(* abortTransaction().                                                     *)
LEMMA AbortFacts ==
  ASSUME NEW u \in Tids
  PROVE  /\ AbortTails(u) \subseteq Seq(Ops) \ {<<>>}
         /\ Head(AbortOps(u)) = Do("delete", NoInode, u)
         /\ Head(Tail(AbortOps(u))) = Do("init", NoInode, u)
         /\ Head(Tail(Tail(AbortOps(u)))) = Todo("checkpoint")
         /\ Tail(Tail(Tail(AbortOps(u)))) = <<Todo("find")>>
         /\ Tail(<<Todo("find")>>) = <<>> /\ Head(<<Todo("find")>>) = Todo("find")
         /\ Tail(AbortOps(u)) # <<>> /\ Tail(Tail(AbortOps(u))) # <<>>
         /\ kAgain(u) \in Seq(Ops) \ {<<>>}
<1>1. /\ Do("delete", NoInode, u) \in Ops /\ Do("init", NoInode, u) \in Ops
      /\ Todo("checkpoint") \in Ops /\ Todo("find") \in Ops
  BY AllTodos, DoFacts DEF Names, Args, OpNames
<1>2. AbortOps(u) = <<Do("delete", NoInode, u), Do("init", NoInode, u),
                      Todo("checkpoint"), Todo("find")>>
  BY DEF AbortOps
<1>3. Tail(AbortOps(u)) = <<Do("init", NoInode, u), Todo("checkpoint"), Todo("find")>>
  BY <1>2
<1>4. Tail(Tail(AbortOps(u))) = <<Todo("checkpoint"), Todo("find")>>
  BY <1>1, <1>3, TailOfThree
<1>5. AbortOps(u) \in Seq(Ops) /\ AbortOps(u) # <<>>
  BY <1>1, <1>2
<1>6. kAgain(u) \in Seq(Ops) \ {<<>>}
  BY <1>5, RetFacts, Cat DEF kAgain
<1> QED  BY <1>1, <1>2, <1>3, <1>4, <1>5, <1>6 DEF AbortTails
-----------------------------------------------------------------------------
(* The operators of the model, for files with direct blocks.               *)

LEMMA DirectFacts ==
  ASSUME Direct
  PROVE  /\ \A b \in Blocks : b # "inode" /\ Parent[b] = "inode"
         /\ Slots("inode") = Blocks
         /\ NoPointers("inode") = [b \in Blocks |-> EMPTY]
         /\ "b0" \in Blocks /\ Dir \in Inodes /\ Files \subseteq Inodes
         /\ Dir \notin Files /\ {"none", "inode0"} \cap Inodes = {}
<1>1. \A b \in Blocks : b # "inode" /\ Parent[b] = "inode"
  BY TransactionsAssumption DEF Direct
<1>2. Slots("inode") = Blocks
  BY <1>1 DEF Slots, Direct
<1> QED  BY <1>1, <1>2, TransactionsAssumption DEF NoPointers, Inodes

(* AddrOf() of the inode and of a block: one step of the way.              *)
LEMMA AddrOfInode ==
  ASSUME NEW pgs, NEW ino
  PROVE  AddrOf(pgs, ino, "inode") = ino
<1> DEFINE way == Way("inode")
           At(g, i) == IF i = 0 THEN ino
                       ELSE Pointed(pgs, g[i - 1], IF i = 1 THEN "inode" ELSE way[i - 1], way[i])
           at == CHOOSE g : g = [i \in 0 .. Len(way) |-> At(g, i)]
<1>1. Len(way) = 0
  BY DEF Way
<1>2. AddrOf(pgs, ino, "inode") = at[Len(way)]
  BY DEF AddrOf
<1>3. \E g : g = [i \in 0 .. Len(way) |-> At(g, i)]
  <2> DEFINE g0 == [i \in 0 .. Len(way) |-> ino]
  <2>1. g0 = [i \in 0 .. Len(way) |-> At(g0, i)]
    BY <1>1
  <2> QED  BY <2>1
<1>4. at = [i \in 0 .. Len(way) |-> At(at, i)]
  BY <1>3
<1>5. at[0] = ino
  <2>1. 0 \in 0 .. Len(way)
    BY <1>1
  <2>2. at[0] = At(at, 0)
    <3> HIDE DEF at, At, way
    <3> QED  BY <1>4, <2>1
  <2>3. \A g : At(g, 0) = ino
    OBVIOUS
  <2> HIDE DEF at, At
  <2> QED  BY <2>2, <2>3
<1> HIDE DEF at, way
<1> QED  BY <1>1, <1>2, <1>5

LEMMA AddrOfBlock ==
  ASSUME Direct, NEW pgs, NEW ino, NEW b \in Blocks
  PROVE  AddrOf(pgs, ino, b) = Pointed(pgs, ino, "inode", b) /\ Way(b) = <<b>>
<1> DEFINE way == Way(b)
           At(g, i) == IF i = 0 THEN ino
                       ELSE Pointed(pgs, g[i - 1], IF i = 1 THEN "inode" ELSE way[i - 1], way[i])
           at == CHOOSE g : g = [i \in 0 .. Len(way) |-> At(g, i)]
<1>1. way = <<b>> /\ Len(way) = 1 /\ way[1] = b
  BY DirectFacts DEF Way
<1>2. AddrOf(pgs, ino, b) = at[Len(way)]
  BY DEF AddrOf
<1>3. \E g : g = [i \in 0 .. Len(way) |-> At(g, i)]
  <2> DEFINE g0 == [i \in 0 .. Len(way) |->
                      IF i = 0 THEN ino ELSE Pointed(pgs, ino, "inode", b)]
  <2>1. \A i \in 0 .. Len(way) : g0[i] = At(g0, i)
    BY <1>1
  <2>2. g0 = [i \in 0 .. Len(way) |-> At(g0, i)]
    BY <2>1
  <2> QED  BY <2>2
<1>4. at = [i \in 0 .. Len(way) |-> At(at, i)]
  BY <1>3
<1>5. at[0] = ino /\ at[1] = Pointed(pgs, at[0], "inode", b)
  <2>1. \A i \in 0 .. 1 : at[i] = At(at, i)
    <3> HIDE DEF at, At, way
    <3> QED  BY <1>1, <1>4
  <2>2. 0 \in 0 .. 1 /\ 1 \in 0 .. 1
    OBVIOUS
  <2>3. at[0] = At(at, 0) /\ at[1] = At(at, 1)
    <3> HIDE DEF at, At
    <3> QED  BY <2>1, <2>2
  <2>4. \A g : At(g, 0) = ino /\ At(g, 1) = Pointed(pgs, g[0], "inode", b)
    <3> HIDE DEF way
    <3> QED  BY <1>1
  <2> HIDE DEF at, At
  <2> QED  BY <2>3, <2>4
<1>6. Way(b) = <<b>>
  BY <1>1
<1> HIDE DEF at, way
<1>7. at[Len(way)] = at[1]
  BY <1>1
<1> QED  BY <1>2, <1>5, <1>6, <1>7

(* The types of what pages hold, by their kinds.                           *)
LEMMA PageTypes ==
  ASSUME NEW P \in [Addr -> PageSet], NEW a \in Addr
  PROVE  /\ P[a].prev \in Addr0
         /\ P[a].kind = "data" => P[a].ref \in Values
         /\ P[a].kind = "inode" => P[a].ref \in [Blocks -> Addr0]
         /\ P[a].kind = "ino0" => P[a].ref \in [Inodes -> Addr0]
         /\ P[a].kind = "vots" => P[a].ref \in Seq(Addr)
<1>1. P[a] \in PageSet
  OBVIOUS
<1> QED  BY <1>1 DEF PageSet, NoPage, Page, Addr0

LEMMA AddrFacts ==
  /\ EMPTY \notin Addr /\ Addr \subseteq Nat /\ Capacity \in Nat
  /\ IsFiniteSet(Addr) /\ Cardinality(Addr) = Capacity
<1>1. Capacity \in Nat
  BY TransactionsAssumption
<1>2. IsFiniteSet(Addr) /\ Cardinality(Addr) = IF 1 > Capacity THEN 0 ELSE Capacity - 1 + 1
  BY <1>1, FS_Interval DEF Addr
<1> QED  BY <1>1, <1>2 DEF Addr

(* What a file of a tree holds.                                            *)
LEMMA ContentsOfTree ==
  ASSUME Direct, NEW P \in [Addr -> PageSet], NEW r, GoodTree(P, r),
         NEW gone, Tree(P, r) \cap gone = {}, NEW f \in Inodes
  PROVE  /\ ContentsOf(P, gone, r, f) = FileCont(P, P[r].ref[f])
         /\ InodeAddr(P, r, f) = P[r].ref[f]
         /\ P[r].ref \in [Inodes -> Addr0]
         /\ FileCont(P, P[r].ref[f]) \in Contents
<1> DEFINE n == P[r].ref[f]
<1>1. r \in Addr /\ P[r].kind = "ino0" /\ r # EMPTY /\ r \notin gone
  BY AddrFacts DEF GoodTree, Tree
<1>2. P[r].ref \in [Inodes -> Addr0] /\ n \in Addr0
  BY <1>1, PageTypes
<1>3. InodeAddr(P, r, f) = n
  BY <1>1 DEF InodeAddr, Pointed
<1>4. CASE n = EMPTY
  <2>1. NoFile \in Contents
    BY DEF NoFile, Contents
  <2>2. ContentsOf(P, gone, r, f) = NoFile
    BY <1>1, <1>3, <1>4 DEF ContentsOf
  <2> QED  BY <1>2, <1>3, <1>4, <2>1, <2>2 DEF FileCont
<1>5. CASE n # EMPTY
  <2>1. n \in Addr /\ n \notin gone /\ P[n].kind = "inode"
    <3>1. n \in FilePages(P, n) /\ FilePages(P, n) \subseteq Tree(P, r)
      BY <1>5 DEF FilePages, Tree
    <3> QED  BY <1>2, <1>5, <3>1 DEF GoodTree, GoodFile, Addr0
  <2>2. P[n].ref \in [Blocks -> Addr0]
    BY <2>1, PageTypes
  <2>3. ContentsOf(P, gone, r, f) = [b \in Blocks |-> BlockValue(P, gone, n, b)]
    BY <1>1, <1>3, <1>5, <2>1 DEF ContentsOf
  <2>4. ASSUME NEW b \in Blocks
        PROVE  /\ BlockValue(P, gone, n, b) =
                    IF P[n].ref[b] = EMPTY THEN {} ELSE P[P[n].ref[b]].ref
               /\ P[n].ref[b] # EMPTY => P[P[n].ref[b]].ref \in Values
    <3> DEFINE a == P[n].ref[b]
    <3>1. AddrOf(P, n, b) = a /\ Way(b) = <<b>>
      BY <1>5, <2>1, AddrOfBlock DEF Pointed
    <3>2. {AddrOf(P, n, x) : x \in {Way(b)[i] : i \in 1 .. Len(Way(b)) - 1}} = {}
      BY <3>1
    <3>3. a # EMPTY => a \in Addr /\ a \notin gone /\ P[a].kind = "data"
      <4>1. a # EMPTY => a \in FilePages(P, n) /\ FilePages(P, n) \subseteq Tree(P, r)
        BY <1>5 DEF FilePages, Tree
      <4> QED  BY <1>5, <2>2, <4>1 DEF GoodTree, GoodFile, Addr0
    <3>4. BlockValue(P, gone, n, b) = IF a = EMPTY THEN {} ELSE P[a].ref
      BY <3>1, <3>2, <3>3 DEF BlockValue
    <3> QED  BY <3>3, <3>4, PageTypes
  <2>5. ContentsOf(P, gone, r, f) = FileCont(P, n)
    BY <1>5, <2>3, <2>4 DEF FileCont, ContOf
  <2>6. FileCont(P, n) \in Contents
    <3>1. \A b \in Blocks : (IF P[n].ref[b] = EMPTY THEN {} ELSE P[P[n].ref[b]].ref) \in Values
      <4>1. {} \in Values
        BY DEF Values
      <4> QED  BY <2>4, <4>1
    <3> QED  BY <1>5, <3>1 DEF FileCont, ContOf, Contents, Vals, Values
  <2> QED  BY <1>2, <1>3, <2>5, <2>6
<1> QED  BY <1>4, <1>5

(* Its files hold what files may hold.                                     *)
LEMMA FilledTree ==
  ASSUME NEW P \in [Addr -> PageSet], NEW r, GoodTree(P, r), NEW f \in Inodes,
         P[r].ref[f] # EMPTY
  PROVE  FileCont(P, P[r].ref[f]) \in Filled
<1>1. PICK n : n = P[r].ref[f]
  OBVIOUS
<1>2. P[r].ref \in [Inodes -> Addr0] /\ n \in Addr
  <2>1. r \in Addr /\ P[r].kind = "ino0"
    BY DEF GoodTree
  <2>2. P[r].ref \in [Inodes -> Addr0]
    BY <2>1, PageTypes
  <2> QED  BY <1>1, <2>2 DEF Addr0
<1>3. GoodFile(P, n) /\ n # EMPTY
  BY <1>1 DEF GoodTree
<1>4. P[n].kind = "inode" /\ P[n].ref \in [Blocks -> Addr0]
  BY <1>2, <1>3, PageTypes DEF GoodFile
<1>5. ASSUME NEW b \in Blocks
      PROVE  (IF P[n].ref[b] = EMPTY THEN {} ELSE P[P[n].ref[b]].ref) \in Values
  <2>1. {} \in Values
    BY DEF Values
  <2>2. P[n].ref[b] # EMPTY => P[n].ref[b] \in Addr /\ P[P[n].ref[b]].kind = "data"
    BY <1>3, <1>4 DEF GoodFile, Addr0
  <2> QED  BY <2>1, <2>2, PageTypes
<1>6. ContOf(P, P[n].ref) \in Filled
  BY <1>5 DEF ContOf, Filled
<1> QED  BY <1>1, <1>3, <1>6 DEF FileCont

(* The first of the pages or transactions that will do.                    *)
LEMMA LeastExists ==
  ASSUME NEW S \in SUBSET Nat, S # {}
  PROVE  \E x \in S : \A y \in S : x <= y
<1> DEFINE Less == OpToRel(<, Nat)
<1>1. IsWellFoundedOn(Less, Nat)
  BY NatLessThanWellFounded
<1>2. PICK x \in S : \A y \in S : ~ (<<y, x>> \in Less)
  <2> HIDE DEF Less
  <2> QED  BY <1>1, WFMin
<1>3. \A y \in S : ~ (y < x)
  BY <1>2 DEF OpToRel
<1> QED  BY <1>3

LEMMA FirstFacts ==
  ASSUME NEW S \in SUBSET Tids, S # {}
  PROVE  First(S) \in S
<1>1. Tids \subseteq Nat
  <2>1. Cardinality(Tids) \in Nat
    BY TransactionsAssumption, FS_CardinalityType
  <2> QED  BY <2>1, TransactionsAssumption
<1>2. \E t \in S : \A u \in S : t <= u
  BY <1>1, LeastExists
<1> QED  BY <1>2 DEF First

LEMMA NextAddrFree ==
  ASSUME TypeInv, FreePages > 0
  PROVE  NextAddr \in Addr \ Valid
<1>1. Valid \subseteq Addr /\ IsFiniteSet(Valid)
  BY AddrFacts, FS_Subset DEF Valid
<1>2. Valid # Addr
  BY AddrFacts, TransactionsAssumption DEF FreePages
<1>3. \E a \in Addr \ Valid : \A b \in Addr \ Valid : a <= b
  BY <1>1, <1>2, AddrFacts, LeastExists
<1> QED  BY <1>3 DEF NextAddr

-----------------------------------------------------------------------------
(* The tree of the last checkpoint.                                        *)

(* Two flashes that agree on the pages of a tree have the same files.      *)
Agree(P, Q, r) == GoodTree(P, r) /\ \A a \in Tree(P, r) : Q[a] = P[a]
Alike(P, Q, r) ==
  /\ Q[r].ref = P[r].ref
  /\ \A f \in Inodes : /\ FilePages(Q, P[r].ref[f]) = FilePages(P, P[r].ref[f])
                        /\ FileCont(Q, P[r].ref[f]) = FileCont(P, P[r].ref[f])
  /\ Tree(Q, r) = Tree(P, r) /\ GoodTree(Q, r)

LEMMA TreeAgree ==
  ASSUME NEW P, NEW Q, NEW r, Agree(P, Q, r)
  PROVE  Alike(P, Q, r)
<1>0. GoodTree(P, r) /\ \A a \in Tree(P, r) : Q[a] = P[a]
  BY DEF Agree
<1>1. Q[r] = P[r]
  BY <1>0 DEF Tree
<1>2. ASSUME NEW f \in Inodes, P[r].ref[f] # EMPTY
      PROVE  /\ Q[P[r].ref[f]] = P[P[r].ref[f]]
             /\ \A b \in Blocks : P[P[r].ref[f]].ref[b] # EMPTY =>
                  Q[P[P[r].ref[f]].ref[b]] = P[P[P[r].ref[f]].ref[b]]
  <2>1. FilePages(P, P[r].ref[f]) \subseteq Tree(P, r)
    BY DEF Tree
  <2>2. /\ P[r].ref[f] \in Tree(P, r)
        /\ \A b \in Blocks : P[P[r].ref[f]].ref[b] # EMPTY =>
             P[P[r].ref[f]].ref[b] \in Tree(P, r)
    BY <1>2, <2>1 DEF FilePages
  <2> QED  BY <1>0, <2>2
<1>3. ASSUME NEW f \in Inodes
      PROVE  /\ FilePages(Q, P[r].ref[f]) = FilePages(P, P[r].ref[f])
             /\ FileCont(Q, P[r].ref[f]) = FileCont(P, P[r].ref[f])
             /\ GoodFile(P, P[r].ref[f]) => GoodFile(Q, P[r].ref[f])
  <2>1. CASE P[r].ref[f] = EMPTY
    BY <2>1 DEF FilePages, FileCont, GoodFile
  <2>2. CASE P[r].ref[f] # EMPTY
    <3>1. PICK n : n = P[r].ref[f] /\ n # EMPTY
      BY <2>2
    <3>2. /\ Q[n] = P[n]
          /\ \A b \in Blocks : P[n].ref[b] # EMPTY => Q[P[n].ref[b]] = P[P[n].ref[b]]
      BY <1>2, <3>1
    <3>3. FilePages(Q, n) = FilePages(P, n)
      BY <3>2 DEF FilePages
    <3>4. ContOf(Q, Q[n].ref) = ContOf(P, P[n].ref)
      BY <3>2 DEF ContOf
    <3>5. GoodFile(P, n) => GoodFile(Q, n)
      BY <3>2 DEF GoodFile
    <3> QED  BY <3>1, <3>3, <3>4, <3>5 DEF FileCont
  <2> QED  BY <2>1, <2>2
<1>4. Tree(Q, r) = Tree(P, r)
  BY <1>1, <1>3 DEF Tree
<1>5. GoodTree(Q, r)
  BY <1>0, <1>1, <1>3 DEF GoodTree
<1> QED  BY <1>1, <1>3, <1>4, <1>5 DEF Alike

LEMMA TreeFacts ==
  ASSUME TypeInv, TreeKept
  PROVE  /\ Root \in Addr /\ Root \in Tree0 /\ Tree0 \subseteq Addr
         /\ pages[Root].kind = "ino0" /\ pages[Root].ref = Ref0
         /\ Ref0 \in [Inodes -> Addr0] /\ Ref0[Dir] # EMPTY
         /\ GoodTree(pages, Root) /\ Tree(pages, Root) = Tree0
         /\ \A f \in Inodes :
              /\ Pages0(f) \subseteq Tree0 \ {Root}
              /\ FilePages(pages, Ref0[f]) = Pages0(f)
              /\ FileCont(pages, Ref0[f]) = Cont0(f)
              /\ GoodFile(pages, Ref0[f])
              /\ \A a \in Pages0(f) : pages[a].kind \in {"inode", "data"}
              /\ Ref0[f] # EMPTY => /\ Ref0[f] \in Pages0(f)
                                    /\ pages[Ref0[f]].kind = "inode"
                                    /\ pages[Ref0[f]].ref \in [Blocks -> Addr0]
         /\ \A f, g \in Inodes : f # g => Pages0(f) \cap Pages0(g) = {}
         /\ \A a \in Tree0 : pages[a].kind # "none"
<1> DEFINE P == saved.pages
           r == Root
<1>1. P \in [Addr -> PageSet] /\ pages \in [Addr -> PageSet]
  BY DEF TypeInv
<1>2. GoodTree(P, r) /\ \A a \in Tree(P, r) : pages[a] = P[a]
  BY DEF TreeKept, Tree0
<1>3. /\ pages[r].ref = P[r].ref
      /\ \A f \in Inodes :
              /\ FilePages(pages, P[r].ref[f]) = FilePages(P, P[r].ref[f])
              /\ FileCont(pages, P[r].ref[f]) = FileCont(P, P[r].ref[f])
      /\ Tree(pages, r) = Tree(P, r) /\ GoodTree(pages, r)
  <2>1. PICK P1, Q1, r1 : P1 = P /\ Q1 = pages /\ r1 = r
    OBVIOUS
  <2> HIDE DEF P, r
  <2>2. Agree(P1, Q1, r1)
    BY <1>2, <2>1 DEF Agree
  <2>3. Alike(P1, Q1, r1)
    BY <2>2, TreeAgree
  <2> QED  BY <2>1, <2>3 DEF Alike
<1>4. r \in Addr /\ pages[r].kind = "ino0" /\ r \in Tree0
  BY <1>3 DEF GoodTree, Tree, Tree0
<1>5. Ref0 = pages[r].ref /\ Ref0 \in [Inodes -> Addr0] /\ Ref0[Dir] # EMPTY
  BY <1>1, <1>3, <1>4, PageTypes DEF Ref0, GoodTree
<1>6. ASSUME NEW f \in Inodes
      PROVE  /\ FilePages(pages, Ref0[f]) = Pages0(f) /\ FileCont(pages, Ref0[f]) = Cont0(f)
             /\ GoodFile(pages, Ref0[f]) /\ Pages0(f) \subseteq Tree0
             /\ \A a \in Pages0(f) : a \in Addr /\ pages[a].kind \in {"inode", "data"}
             /\ Ref0[f] # EMPTY => /\ Ref0[f] \in Pages0(f)
                                   /\ pages[Ref0[f]].kind = "inode"
                                   /\ pages[Ref0[f]].ref \in [Blocks -> Addr0]
  <2>1. FilePages(pages, Ref0[f]) = Pages0(f) /\ FileCont(pages, Ref0[f]) = Cont0(f)
    BY <1>3 DEF Ref0, Pages0, Cont0
  <2>2. GoodFile(pages, Ref0[f]) /\ Pages0(f) \subseteq Tree0
    BY <1>3, <1>5 DEF GoodTree, Tree0, Tree, Pages0, Ref0
  <2>3. CASE Ref0[f] = EMPTY
    <3>1. Pages0(f) = {}
      BY <2>1, <2>3 DEF FilePages
    <3> QED  BY <2>1, <2>2, <2>3, <3>1
  <2>4. CASE Ref0[f] # EMPTY
    <3>1. Ref0[f] \in Addr /\ pages[Ref0[f]].kind = "inode"
      BY <1>5, <2>2, <2>4 DEF GoodFile, Addr0
    <3>2. pages[Ref0[f]].ref \in [Blocks -> Addr0]
      BY <1>1, <3>1, PageTypes
    <3>3. Pages0(f) = {Ref0[f]} \cup ({pages[Ref0[f]].ref[b] : b \in Blocks} \ {EMPTY})
      BY <2>1, <2>4 DEF FilePages
    <3>4. \A a \in Pages0(f) : a \in Addr /\ pages[a].kind \in {"inode", "data"}
      BY <2>2, <2>4, <3>1, <3>2, <3>3 DEF GoodFile, Addr0
    <3> QED  BY <2>1, <2>2, <3>1, <3>2, <3>3, <3>4
  <2> QED  BY <2>3, <2>4
<1>7. Tree0 \subseteq Addr /\ \A a \in Tree0 : pages[a].kind # "none"
  BY <1>4, <1>6 DEF Tree0, Tree, Pages0, Ref0
<1>8. \A f, g \in Inodes : f # g => Pages0(f) \cap Pages0(g) = {}
  BY <1>2 DEF GoodTree, Pages0, Ref0
<1>9. \A f \in Inodes : Root \notin Pages0(f)
  BY <1>4, <1>6
<1> QED  BY <1>3, <1>4, <1>5, <1>6, <1>7, <1>8, <1>9 DEF Tree0

(* All steps but the checkpoint of a commit keep that tree.                *)
SameTree ==
  /\ Root' = Root /\ Ref0' = Ref0 /\ Tree0' = Tree0
  /\ \A f \in Inodes : Pages0(f)' = Pages0(f) /\ Cont0(f)' = Cont0(f)

LEMMA SameSaved ==
  ASSUME saved' = saved
  PROVE  SameTree
BY DEF SameTree, Root, Ref0, Tree0, Pages0, Cont0, Tree, FilePages, FileCont, ContOf

LEMMA GoodTreeNext ==
  ASSUME NEW P, NEW r, saved'.pages = P, Root' = r, GoodTree(P, r)
  PROVE  GoodTree(saved.pages, Root)'
<1>1. \A f \in Inodes : GoodFile(saved.pages, saved.pages[Root].ref[f])'
  <2>1. \A f \in Inodes : GoodFile(P, P[r].ref[f])
    BY DEF GoodTree
  <2> QED  BY <2>1 DEF GoodFile
<1>2. \A f, g \in Inodes : f # g =>
          FilePages(saved.pages, saved.pages[Root].ref[f])'
            \cap FilePages(saved.pages, saved.pages[Root].ref[g])' = {}
  <2>1. \A f, g \in Inodes : f # g =>
            FilePages(P, P[r].ref[f]) \cap FilePages(P, P[r].ref[g]) = {}
    BY DEF GoodTree
  <2>2. \A f \in Inodes : FilePages(saved.pages, saved.pages[Root].ref[f])'
                              = FilePages(P, P[r].ref[f])
    BY DEF FilePages
  <2> QED  BY <2>1, <2>2
<1> QED  BY <1>1, <1>2 DEF GoodTree

LEMMA SameAgain ==
  ASSUME TypeInv, TreeKept, fs.ino0 = Root, WriteCheckpoint
  PROVE  /\ SameTree /\ GoodTree(saved.pages, Root)'
         /\ saved' = [pages |-> pages, obs |-> obs, fs |-> SavedFs]
<1>1. saved'.pages = pages /\ saved'.fs.ino0 = Root
  BY DEF WriteCheckpoint, SavedFs, TypeInv, FsSet
<1>2. Root' = Root /\ Ref0' = Ref0
  BY <1>1, TreeFacts DEF Root, Ref0
<1>3. Tree0' = Tree(pages, Root)
  BY <1>1, <1>2 DEF Tree0, Tree, FilePages
<1>4. \A f \in Inodes : /\ Pages0(f)' = FilePages(pages, Ref0[f])
                        /\ Cont0(f)' = FileCont(pages, Ref0[f])
  BY <1>1, <1>2 DEF Pages0, Cont0, FilePages, FileCont, ContOf
<1>5. GoodTree(saved.pages, Root)'
  <2>1. PICK P, r : P = pages /\ r = Root
    OBVIOUS
  <2>2. GoodTree(P, r)
    BY <2>1, TreeFacts
  <2> QED  BY <1>1, <1>2, <2>1, <2>2, GoodTreeNext
<1> QED  BY <1>2, <1>3, <1>4, <1>5, TreeFacts DEF SameTree, WriteCheckpoint

-----------------------------------------------------------------------------
(* What a step keeps of the transactions that it does not change.          *)

PagesKept(S) == \A a \in S \cup Tree0 : pages'[a] = pages[a]

(* A transaction that is not the running one.                              *)
LeavesAlone(own, own2, vw, vw2, t) ==
  /\ SameTree /\ PagesKept(own[t])
  /\ own2[t] = own[t] /\ vw2[t] = vw[t] /\ tr'[t] = tr[t] /\ intent'[t] = intent[t]

(* The running transaction: v is voted, or EMPTY.                          *)
Keeps(own, own2, vw, vw2, v) ==
  /\ SameTree /\ PagesKept(own[T])
  /\ call'.tid = call.tid /\ call'.file = call.file /\ call'.own = call.own
  /\ intent'[T] = intent[T]
  /\ own[T] \subseteq own2[T] /\ vw2[T] \subseteq vw[T] \cup ({v} \ {EMPTY})
  /\ v # EMPTY => v \notin own[T] \/ pages[v].kind # "inode"

NotData(v) == v # EMPTY => pages[v].kind # "data"

LEMMA PointersKept ==
  ASSUME NEW own, NEW own2, NEW vw, NEW vw2, NEW t, NEW ptrs, NEW f \in Inodes, NEW v,
         TypeInv, TreeKept, SameTree, PagesKept(own[t]), own[t] \subseteq own2[t],
         vw2[t] \subseteq vw[t] \cup ({v} \ {EMPTY}), NotData(v),
         Pointers(own, vw, t, ptrs, f)
  PROVE  /\ Pointers(own2, vw2, t, ptrs, f)'
         /\ ContOf(pages, ptrs)' = ContOf(pages, ptrs)
<1>1. Pages0(f)' = Pages0(f) /\ Pages0(f) \subseteq Tree0
  BY TreeFacts DEF SameTree
<1>2. \A b \in Blocks : ptrs[b] # EMPTY =>
        /\ ptrs[b] \in own[t] \cup Tree0 /\ pages'[ptrs[b]] = pages[ptrs[b]]
        /\ ptrs[b] \notin vw2[t]
  BY <1>1 DEF Pointers, PagesKept, NotData
<1>3. Pointers(own2, vw2, t, ptrs, f)'
  BY <1>1, <1>2 DEF Pointers
<1>4. ContOf(pages, ptrs)' = ContOf(pages, ptrs)
  BY <1>2 DEF ContOf
<1> QED  BY <1>3, <1>4

LEMMA NewFileKept ==
  ASSUME NEW own, NEW own2, NEW vw, NEW vw2, NEW f \in Inodes, NEW n, NEW v,
         TypeInv, TreeKept, Keeps(own, own2, vw, vw2, v), NewFile(own, vw, f, n),
         NotData(v) \/ f = call.file
  PROVE  NewFile(own2, vw2, f, n)'
<1>1. CASE n = EMPTY
  BY <1>1 DEF NewFile, Keeps, FileCont, NoFile, T
<1>2. CASE n # EMPTY
  <2>1. n \in own[T] \ vw[T] /\ pages[n].kind = "inode" /\ Pointers(own, vw, T, pages[n].ref, f)
    BY <1>2 DEF NewFile
  <2>2. pages'[n] = pages[n] /\ n \in own2[T] \ vw2[T]
    BY <2>1 DEF Keeps, PagesKept
  <2>3. Pointers(own2, vw2, T, pages[n].ref, f)' /\ FileCont(pages, n)' = FileCont(pages, n)
    <3>1. CASE NotData(v)
      <4> DEFINE ptrs == pages[n].ref
      <4>1. \A p : p = ptrs => /\ Pointers(own2, vw2, T, p, f)'
                               /\ ContOf(pages, p)' = ContOf(pages, p)
        <5> SUFFICES ASSUME NEW p, p = ptrs
                     PROVE  /\ Pointers(own2, vw2, T, p, f)'
                            /\ ContOf(pages, p)' = ContOf(pages, p)
          OBVIOUS
        <5>1. Pointers(own, vw, T, p, f)
          BY <2>1
        <5>2. \A t : t = T =>
                /\ Pointers(own2, vw2, t, p, f)'
                /\ ContOf(pages, p)' = ContOf(pages, p)
          <6> SUFFICES ASSUME NEW t, t = T
                       PROVE  /\ Pointers(own2, vw2, t, p, f)'
                              /\ ContOf(pages, p)' = ContOf(pages, p)
            OBVIOUS
          <6> QED  BY <3>1, <5>1, PointersKept DEF Keeps
        <5>3. T' = T
          BY DEF T, Keeps
        <5> QED  BY <5>2, <5>3 DEF Pointers
      <4> QED  BY <1>2, <2>2, <4>1 DEF Pointers, FileCont, ContOf
    <3>2. CASE f = call.file
      <4>1. \A b \in Blocks : pages[n].ref[b] = EMPTY
        BY <1>2, <3>2 DEF NewFile
      <4> QED  BY <1>2, <2>2, <4>1 DEF Pointers, FileCont, ContOf
    <3> QED  BY <3>1, <3>2
  <2> QED  BY <1>2, <2>1, <2>2, <2>3 DEF NewFile, Keeps, T
<1> QED  BY <1>1, <1>2

LEMMA BaseRefKept ==
  ASSUME NEW own, NEW own2, NEW vw, NEW vw2, NEW f \in Inodes, NEW ref, NEW v,
         TypeInv, TreeKept, Keeps(own, own2, vw, vw2, v), BaseRef(own, vw, f, ref),
         call.file \in Inodes \/ f # Dir
  PROVE  BaseRef(own2, vw2, f, ref)'
<1>1. Ref0' = Ref0 /\ call'.file = call.file
  BY DEF Keeps, SameTree
<1>2. CASE f # Dir
  BY <1>1, <1>2 DEF BaseRef
<1>3. CASE f = Dir
  <2>1. PICK n \in Addr0 : /\ ref = [Ref0 EXCEPT ![call.file] = n]
                           /\ NewFile(own, vw, call.file, n)
    BY <1>3 DEF BaseRef
  <2>2. PICK g \in Inodes : g = call.file
    BY <1>3
  <2>3. NewFile(own2, vw2, g, n)'
    BY <2>1, <2>2, NewFileKept
  <2>4. NewFile(own2, vw2, call.file, n)'
    BY <1>1, <2>2, <2>3 DEF NewFile, Pointers
  <2> QED  BY <1>1, <1>3, <2>1, <2>4 DEF BaseRef
<1> QED  BY <1>2, <1>3

LEMMA EnteredKept ==
  ASSUME NEW own, NEW own2, NEW vw, NEW vw2, NEW f \in Inodes, NEW ref, NEW n, NEW v,
         TypeInv, TreeKept, Keeps(own, own2, vw, vw2, v), Entered(own, vw, f, ref, n),
         call.file \in Inodes \/ f # Dir, NotData(v)
  PROVE  Entered(own2, vw2, f, ref, n)'
<1>1. BaseRef(own2, vw2, f, ref)' /\ NewFile(own2, vw2, f, n)'
  BY BaseRefKept, NewFileKept DEF Entered
<1> QED  BY <1>1 DEF Entered, Keeps

LEMMA NewRefKept ==
  ASSUME NEW own, NEW own2, NEW vw, NEW vw2, NEW f \in Inodes, NEW ref, NEW v,
         TypeInv, TreeKept, Keeps(own, own2, vw, vw2, v), NewRef(own, vw, f, ref),
         call.file \in Inodes \/ f # Dir, NotData(v)
  PROVE  NewRef(own2, vw2, f, ref)'
<1>1. PICK base \in [Inodes -> Addr0], n \in Addr0 :
        ref = [base EXCEPT ![f] = n] /\ Entered(own, vw, f, base, n)
  BY DEF NewRef
<1>2. Entered(own2, vw2, f, base, n)'
  BY <1>1, EnteredKept
<1> QED  BY <1>1, <1>2 DEF NewRef

LEMMA RootsKept ==
  ASSUME NEW own, NEW own2, NEW vw, NEW vw2, NEW f \in Inodes, NEW a, NEW v,
         TypeInv, TreeKept, Keeps(own, own2, vw, vw2, v),
         call.file \in Inodes \/ f # Dir
  PROVE  /\ IsRoot(own, a) => IsRoot(own2, a)' /\ pages'[a] = pages[a]
         /\ IsRoot(own, a) /\ BaseRef(own, vw, f, pages[a].ref)
              => BaseRef(own2, vw2, f, pages[a].ref)'
         /\ NewRoot(own, vw, f, a) /\ NotData(v) /\ v # a => NewRoot(own2, vw2, f, a)'
<1>1. ASSUME IsRoot(own, a)
      PROVE  IsRoot(own2, a)' /\ pages'[a] = pages[a]
  <2>1. Root' = Root /\ Root \in Tree0 /\ own[T] \subseteq own2[T] /\ T' = T
    BY TreeFacts DEF Keeps, SameTree, T
  <2> QED  BY <1>1, <2>1 DEF IsRoot, Keeps, PagesKept
<1>2. ASSUME IsRoot(own, a), BaseRef(own, vw, f, pages[a].ref)
      PROVE  BaseRef(own2, vw2, f, pages[a].ref)'
  <2>1. PICK ref : ref = pages[a].ref
    OBVIOUS
  <2>2. BaseRef(own2, vw2, f, ref)'
    BY <1>2, <2>1, BaseRefKept
  <2>3. ref = pages'[a].ref
    BY <1>1, <1>2, <2>1
  <2> QED  BY <2>2, <2>3 DEF BaseRef, NewFile
<1>3. ASSUME NewRoot(own, vw, f, a), NotData(v), v # a
      PROVE  NewRoot(own2, vw2, f, a)'
  <2>1. a \in own[T] \ vw[T] /\ pages[a].kind = "ino0" /\ pages'[a] = pages[a]
    BY <1>3 DEF NewRoot, Keeps, PagesKept
  <2>2. PICK ref : ref = pages[a].ref
    OBVIOUS
  <2>3. NewRef(own2, vw2, f, ref)'
    BY <1>3, <2>2, NewRefKept DEF NewRoot
  <2>4. ref = pages'[a].ref /\ a \in (own2[T] \ vw2[T])'
    BY <1>3, <2>1, <2>2 DEF Keeps, T
  <2> QED  BY <2>1, <2>3, <2>4 DEF NewRoot, NewRef, Entered, BaseRef, NewFile
<1> QED  BY <1>1, <1>2, <1>3

SameFile(t) ==
  /\ tr'[t].ino = tr[t].ino /\ tr'[t].inoAddr = tr[t].inoAddr
  /\ tr'[t].node = tr[t].node /\ tr'[t].ptrs = tr[t].ptrs

LEMMA OpenFileFacts ==
  ASSUME NEW own, NEW vw, NEW t, TypeInv, TreeKept, OpenFile(own, vw, t), Direct
  PROVE  /\ PtrsNow(t) \in [Blocks -> Addr0] /\ tr[t].ino \in Inodes
         /\ tr[t].inoAddr \in Addr0
         /\ tr[t].inoAddr # EMPTY => tr[t].inoAddr \in Pages0(tr[t].ino)
         /\ tr[t].node # "inode" =>
              PtrsNow(t) = IF tr[t].inoAddr = EMPTY THEN NoPointers("inode")
                           ELSE pages[tr[t].inoAddr].ref
<1>1. tr[t].ino \in Inodes /\ tr[t].inoAddr = Ref0[tr[t].ino]
  BY DEF OpenFile
<1>2. tr[t].inoAddr \in Addr0
      /\ (tr[t].inoAddr # EMPTY => /\ tr[t].inoAddr \in Pages0(tr[t].ino)
                                   /\ pages[tr[t].inoAddr].ref \in [Blocks -> Addr0])
  BY <1>1, TreeFacts
<1>3. NoPointers("inode") \in [Blocks -> Addr0]
  BY DirectFacts DEF Addr0
<1> QED  BY <1>1, <1>2, <1>3 DEF OpenFile, PtrsNow, ReadNode

LEMMA OpenFileKept ==
  ASSUME NEW own, NEW own2, NEW vw, NEW vw2, NEW t, NEW v, Direct,
         TypeInv, TreeKept, SameTree, PagesKept(own[t]), own[t] \subseteq own2[t],
         vw2[t] \subseteq vw[t] \cup ({v} \ {EMPTY}), NotData(v),
         SameFile(t), OpenFile(own, vw, t)
  PROVE  /\ OpenFile(own2, vw2, t)' /\ PtrsNow(t)' = PtrsNow(t)
         /\ ContOf(pages, PtrsNow(t))' = ContOf(pages, PtrsNow(t))
         /\ tr[t].node = "inode" => /\ PtrsNow(t) = tr[t].ptrs
                                    /\ ContOf(pages, tr[t].ptrs)' = ContOf(pages, tr[t].ptrs)
<1>1. PICK f \in Inodes : f = tr[t].ino
  BY OpenFileFacts
<1>2. PtrsNow(t)' = PtrsNow(t)
  <2>1. CASE tr[t].node = "inode"
    BY <2>1 DEF PtrsNow, SameFile
  <2>2. CASE tr[t].node # "inode"
    <3>1. tr[t].inoAddr # EMPTY => pages'[tr[t].inoAddr] = pages[tr[t].inoAddr]
      BY <1>1, OpenFileFacts, TreeFacts DEF PagesKept
    <3> QED  BY <2>2, <3>1 DEF PtrsNow, SameFile, ReadNode, NoPointers
  <2> QED  BY <2>1, <2>2
<1>3. PICK p : p = PtrsNow(t)
  OBVIOUS
<1>4. Pointers(own, vw, t, p, f)
  BY <1>1, <1>3 DEF OpenFile
<1>5. Pointers(own2, vw2, t, p, f)' /\ ContOf(pages, p)' = ContOf(pages, p)
  BY <1>4, PointersKept
<1>6. p = PtrsNow(t)' /\ f = tr'[t].ino
  BY <1>1, <1>2, <1>3 DEF SameFile
<1>7. Pointers(own2, vw2, t, PtrsNow(t), tr[t].ino)'
  BY <1>5, <1>6 DEF Pointers
<1>8. ContOf(pages, PtrsNow(t))' = ContOf(pages, PtrsNow(t))
  BY <1>3, <1>5, <1>6 DEF ContOf
<1>9. tr'[t].inoAddr = Ref0'[tr'[t].ino]
  BY DEF OpenFile, SameFile, SameTree
<1>10. OpenFile(own2, vw2, t)'
  BY <1>1, <1>6, <1>7, <1>9 DEF OpenFile, SameFile
<1>11. ASSUME tr[t].node = "inode"
       PROVE  /\ PtrsNow(t) = tr[t].ptrs
              /\ ContOf(pages, tr[t].ptrs)' = ContOf(pages, tr[t].ptrs)
  <2>1. PtrsNow(t) = tr[t].ptrs
    BY <1>11 DEF PtrsNow
  <2>2. p = tr[t].ptrs /\ p = tr'[t].ptrs
    BY <2>1, <1>3 DEF SameFile
  <2> QED  BY <1>5, <2>1, <2>2 DEF ContOf
<1> QED  BY <1>2, <1>8, <1>10, <1>11

LEMMA MayVoteKept ==
  ASSUME NEW own, NEW own2, NEW t \in Tids,
         TypeInv, SameTree, own[t] \subseteq own2[t], intent'[t] = intent[t]
  PROVE  MayVote(own, t) \subseteq MayVote(own2, t)'
<1>1. DOMAIN intent[t] \subseteq Inodes
  BY DEF TypeInv, ChangeSet
<1> QED  BY <1>1 DEF MayVote, SameTree

LEMMA VotesKept ==
  ASSUME NEW own, NEW own2, NEW vw, NEW vw2, NEW t,
         SameTree, PagesKept(own[t]), Votes(own, vw, t),
         own[t] \subseteq own2[t], vw[t] \subseteq vw2[t], vw2[t] \subseteq MayVote(own2, t)',
         \A a \in own2[t] \ own[t] : pages'[a].kind = "vots" =>
            \A i \in 1 .. Len(pages'[a].ref) : pages'[a].ref[i] \in vw2[t],
         \A i \in 1 .. Len(tr'[t].vots) : tr'[t].vots[i] \in vw2[t]
  PROVE  Votes(own2, vw2, t)'
<1>1. \A a \in own[t] : pages'[a] = pages[a] /\
        (pages[a].kind = "vots" => \A i \in 1 .. Len(pages[a].ref) : pages[a].ref[i] \in vw2[t])
  BY DEF Votes, VotsOf, PagesKept
<1>2. \A a \in own2[t] : pages'[a].kind = "vots" =>
        \A i \in 1 .. Len(pages'[a].ref) : pages'[a].ref[i] \in vw2[t]
  BY <1>1
<1>3. VotsOf(own2, t)' \subseteq vw2[t]
  BY <1>2 DEF VotsOf
<1> QED  BY <1>3 DEF Votes

(* The transactions that a step leaves alone.                              *)
LEMMA StableKept ==
  ASSUME NEW own, NEW own2, NEW vw, NEW vw2, NEW t \in Tids, Direct, TypeInv, TreeKept,
         LeavesAlone(own, own2, vw, vw2, t), obs' \cap own[t] \subseteq obs,
         Stable(own, vw, t)
  PROVE  Stable(own2, vw2, t)'
<1>1. LiveOwn(own2, t)'
  BY DEF Stable, LiveOwn, LeavesAlone, SameTree, PagesKept
<1>2. CASE Unused(own, t)
  BY <1>1, <1>2 DEF Stable, Unused, LeavesAlone, EmptyTr, NoPointers, NoChange
<1>3. CASE InUse(own, vw, t)
  <2>1. OpenFile(own2, vw2, t)' /\ ContOf(pages, tr[t].ptrs)' = ContOf(pages, tr[t].ptrs)
    <3>1. NotData(EMPTY) /\ vw2[t] \subseteq vw[t] \cup ({EMPTY} \ {EMPTY}) /\ SameFile(t)
      BY DEF NotData, LeavesAlone, SameFile
    <3> QED  BY <1>3, <3>1, OpenFileKept DEF InUse, LeavesAlone
  <2>2. Votes(own2, vw2, t)'
    <3>1. vw2[t] \subseteq MayVote(own2, t)'
      BY <1>3, MayVoteKept DEF InUse, Votes, LeavesAlone
    <3>2. \A i \in 1 .. Len(tr'[t].vots) : tr'[t].vots[i] \in vw2[t]
      BY <1>3 DEF InUse, Votes, VotsOf, LeavesAlone
    <3> QED  BY <1>3, <3>1, <3>2, VotesKept DEF InUse, LeavesAlone
  <2>3. intent'[t][tr'[t].ino] = ContOf(pages, tr[t].ptrs)'
    BY <1>3, <2>1 DEF InUse, LeavesAlone
  <2> QED  BY <1>1, <1>3, <2>1, <2>2, <2>3
           DEF Stable, InUse, OfFile, LeavesAlone, SameTree
<1> QED  BY <1>2, <1>3 DEF Stable

-----------------------------------------------------------------------------
(* The running transaction, when a step only chains a page to it.          *)

LEMMA AtT ==
  ASSUME NEW own, NEW vw, NEW t, t = T'
  PROVE  /\ OpenFile(own, vw, t)' => OpenFile(own, vw, T)'
         /\ LiveOwn(own, t)' => LiveOwn(own, T)'
         /\ Votes(own, vw, t)' => Votes(own, vw, T)'
         /\ InUse(own, vw, t)' => InUse(own, vw, T)'
         /\ Stable(own, vw, t)' => Stable(own, vw, T)'
<1>1. OpenFile(own, vw, t)' => OpenFile(own, vw, T)'
  BY DEF OpenFile, Pointers, PtrsNow, ReadNode
<1>2. LiveOwn(own, t)' => LiveOwn(own, T)'
  BY DEF LiveOwn
<1>3. Votes(own, vw, t)' => Votes(own, vw, T)'
  BY DEF Votes, VotsOf, MayVote
<1>4. InUse(own, vw, t)' => InUse(own, vw, T)'
  BY <1>1, <1>3 DEF InUse, OfFile
<1>5. Unused(own, t)' => Unused(own, T)'
  BY DEF Unused
<1>6. Stable(own, vw, t)' => Stable(own, vw, T)'
  BY <1>2, <1>4, <1>5 DEF Stable
<1> QED  BY <1>1, <1>2, <1>3, <1>4, <1>6

LEMMA PassInfo ==
  ASSUME NEW vw, NEW f, NEW k, Pass(vw, f, k)
  PROVE  /\ call.file \in Inodes \/ f # Dir
         /\ FileCommit(f) \/ DirCommit
         /\ k \in {kLast} \cup {kDir(e) : e \in Values}
         /\ k # kLast => ~ call.own
BY TransactionsAssumption DEF Pass, FileCommit, DirCommit, Inodes

LEMMA CommitsKept ==
  ASSUME call'.tid = call.tid, call'.file = call.file, call'.own = call.own,
         intent'[T] = intent[T]
  PROVE  /\ \A f : FileCommit(f) => FileCommit(f)'
         /\ DirCommit => DirCommit'
BY DEF FileCommit, DirCommit, T

LEMMA PassKept ==
  ASSUME NEW own, NEW own2, NEW vw, NEW vw2, NEW f \in Inodes, NEW k, NEW v,
         TypeInv, TreeKept, Keeps(own, own2, vw, vw2, v), Pass(vw, f, k),
         v \in Pages0(Dir) => f = Dir
  PROVE  Pass(vw2, f, k)'
<1>1. /\ call'.file = call.file /\ Pages0(Dir)' = Pages0(Dir) /\ Cont0(Dir)' = Cont0(Dir)
      /\ intent'[T] = intent[T] /\ T' = T /\ Dir \in Inodes
  BY DEF Keeps, SameTree, Inodes, T
<1>2. \A g : FileCommit(g) => FileCommit(g)'
  BY CommitsKept DEF Keeps
<1>3. DirCommit => DirCommit'
  BY CommitsKept DEF Keeps
<1>4. CASE k = kLast /\ FileCommit(f)
  BY <1>2, <1>4 DEF Pass
<1>5. CASE k = kLast /\ f = Dir /\ DirCommit
  BY <1>3, <1>5 DEF Pass
<1>6. ASSUME NEW e \in Values, k = kDir(e), f = call.file, DirCommit, DirIntent(vw, e)
      PROVE  Pass(vw2, f, k)'
  <2>1. v \notin Pages0(Dir)
    BY <1>6, TransactionsAssumption DEF DirCommit
  <2>2. DirIntent(vw2, e)'
    BY <1>1, <1>6, <2>1 DEF DirIntent, Keeps
  <2> QED  BY <1>1, <1>3, <1>6, <2>2 DEF Pass
<1> QED  BY <1>4, <1>5, <1>6 DEF Pass

LEMMA PassPhaseKept ==
  ASSUME NEW own, NEW own2, NEW vw, NEW vw2, NEW m, Direct,
         TypeInv, TreeKept, Keeps(own, own2, vw, vw2, EMPTY),
         SameFile(T), call' = call, PassPhase(own, vw, m)
  PROVE  PassPhase(own2, vw2, m)'
<1>1. PICK f \in Inodes, k \in Seq(Ops) :
        /\ Pass(vw, f, k)
        /\ \/ CommitInodePhase(own, vw, f, k, m) \/ KeepPhase(own, vw, f, k, m)
           \/ LoadPhase(own, vw, f, k, m) \/ Inode0Phase(own, vw, f, k, m)
           \/ NewPhase(own, vw, f, k, m)
  BY DEF PassPhase
<1>2. Pass(vw2, f, k)' /\ (call.file \in Inodes \/ f # Dir) /\ NotData(EMPTY)
  <2>1. EMPTY \notin Pages0(Dir)
    BY TreeFacts, AddrFacts DEF Inodes
  <2> QED  BY <1>1, <2>1, PassKept, PassInfo DEF NotData
<1>3. PICK t : t = T /\ t = T'
  BY DEF T
<1>4. \A a : /\ IsRoot(own, a) => IsRoot(own2, a)' /\ pages'[a] = pages[a]
             /\ IsRoot(own, a) /\ BaseRef(own, vw, f, pages[a].ref)
                  => BaseRef(own2, vw2, f, pages[a].ref)'
             /\ NewRoot(own, vw, f, a) /\ EMPTY # a => NewRoot(own2, vw2, f, a)'
  BY <1>2, RootsKept
<1>5. \A ref, n : Entered(own, vw, f, ref, n) => Entered(own2, vw2, f, ref, n)'
  BY <1>2, EnteredKept
<1>6. PICK r : r = call.ino0
  OBVIOUS
<1>7. IsRoot(own, call.ino0) => IsRoot(own2, call.ino0)' /\ pages'[call.ino0] = pages[call.ino0]
  <2>1. IsRoot(own, r) => IsRoot(own2, r)' /\ pages'[r] = pages[r]
    BY <1>4
  <2> QED  BY <1>6, <2>1 DEF IsRoot
<1>8. CASE CommitInodePhase(own, vw, f, k, m)
  <2>1. BaseOK(own2, vw2, f)'
    <3>1. IsRoot(own, r) /\ BaseRef(own, vw, f, pages[r].ref)
      BY <1>6, <1>8 DEF CommitInodePhase, BaseOK
    <3>2. IsRoot(own2, r)' /\ BaseRef(own2, vw2, f, pages[r].ref)'
      BY <1>4, <3>1
    <3> QED  BY <1>6, <3>2 DEF BaseOK, IsRoot, BaseRef, NewFile
  <2>2. OpenFile(own2, vw2, t)' /\ ContOf(pages, tr[t].ptrs)' = ContOf(pages, tr[t].ptrs)
    BY <1>2, <1>3, <1>8, OpenFileKept DEF CommitInodePhase, Keeps
  <2>3. OpenFile(own2, vw2, T)'
    BY <1>3, <2>2, AtT
  <2>4. CommitInodePhase(own2, vw2, f, k, m)'
    BY <1>3, <1>8, <2>1, <2>2, <2>3 DEF CommitInodePhase, SameFile, Keeps
  <2> QED  BY <1>2, <2>4 DEF PassPhase
<1>9. CASE KeepPhase(own, vw, f, k, m)
  <2>1. PICK ref, n : ref = pages[call.ino0].ref /\ n = tr[T].inoAddr
    OBVIOUS
  <2>2. IsRoot(own2, call.ino0)' /\ ref = (pages[call.ino0].ref)' /\ n = tr'[T'].inoAddr
    BY <1>3, <1>7, <1>9, <2>1 DEF KeepPhase, SameFile
  <2>3. Entered(own2, vw2, f, ref, n)'
    BY <1>5, <1>9, <2>1 DEF KeepPhase
  <2>4. Entered(own2, vw2, f, pages[call.ino0].ref, tr[T].inoAddr)'
    BY <2>2, <2>3 DEF Entered, BaseRef, NewFile
  <2>5. KeepPhase(own2, vw2, f, k, m)'
    BY <1>9, <2>1, <2>2, <2>4 DEF KeepPhase
  <2> QED  BY <1>2, <2>5 DEF PassPhase
<1>10. CASE LoadPhase(own, vw, f, k, m)
  <2>1. PICK ref, n : ref = pages[call.ino0].ref /\ n = call.inode
    OBVIOUS
  <2>2. IsRoot(own2, call.ino0)' /\ ref = (pages[call.ino0].ref)' /\ n = call'.inode
    BY <1>3, <1>7, <1>10, <2>1 DEF LoadPhase
  <2>3. Entered(own2, vw2, f, ref, n)'
    BY <1>5, <1>10, <2>1 DEF LoadPhase
  <2>4. Entered(own2, vw2, f, pages[call.ino0].ref, call.inode)'
    BY <2>2, <2>3 DEF Entered, BaseRef, NewFile
  <2>5. LoadPhase(own2, vw2, f, k, m)'
    BY <1>10, <2>2, <2>4 DEF LoadPhase
  <2> QED  BY <1>2, <2>5 DEF PassPhase
<1>11. CASE Inode0Phase(own, vw, f, k, m)
  <2>1. PICK ref : ref = tr[T].ptrs
    OBVIOUS
  <2>2. IsRoot(own2, call.ino0)' /\ ref = tr'[T'].ptrs /\ tr'[T'].inoAddr = call'.ino0
    BY <1>3, <1>7, <1>11, <2>1 DEF Inode0Phase, SameFile
  <2>3. NewRef(own2, vw2, f, ref)'
    BY <1>2, <1>11, <2>1, NewRefKept DEF Inode0Phase
  <2>4. NewRef(own2, vw2, f, tr[T].ptrs)'
    BY <2>2, <2>3 DEF NewRef
  <2>5. Inode0Phase(own2, vw2, f, k, m)'
    BY <1>11, <2>2, <2>4 DEF Inode0Phase
  <2> QED  BY <1>2, <2>5 DEF PassPhase
<1>12. CASE NewPhase(own, vw, f, k, m)
  <2>1. PICK a \in Addr : m = kNew(a, k) /\ NewRoot(own, vw, f, a)
    BY <1>12 DEF NewPhase
  <2>2. NewRoot(own2, vw2, f, a)'
    BY <1>4, <2>1, AddrFacts
  <2>3. NewPhase(own2, vw2, f, k, m)'
    BY <2>1, <2>2 DEF NewPhase
  <2> QED  BY <1>2, <2>3 DEF PassPhase
<1> QED  BY <1>1, <1>8, <1>9, <1>10, <1>11, <1>12

LEMMA LastPhaseKept ==
  ASSUME NEW own, NEW own2, NEW vw, NEW vw2, NEW m,
         TypeInv, TreeKept, Keeps(own, own2, vw, vw2, EMPTY), call' = call
  PROVE  /\ LastPhase(own, vw, m) => LastPhase(own2, vw2, m)'
         /\ TurnPhase(own, vw, m) => TurnPhase(own2, vw2, m)'
<1>1. EMPTY \notin Pages0(Dir) /\ NotData(EMPTY)
  BY TreeFacts, AddrFacts DEF Inodes, NotData
<1>2. PICK r : r = call.ino0 /\ r = call'.ino0
  OBVIOUS
<1>3. ASSUME NEW f \in Inodes, NewRoot(own, vw, f, r), call.file \in Inodes \/ f # Dir
      PROVE  NewRoot(own2, vw2, f, r)'
  <2>1. r # EMPTY \/ r = EMPTY
    OBVIOUS
  <2>2. CASE r # EMPTY
    BY <1>1, <1>3, <2>2, RootsKept
  <2>3. CASE r = EMPTY
    <3>1. PICK ref : ref = pages[r].ref
      OBVIOUS
    <3>2. NewRef(own2, vw2, f, ref)'
      BY <1>1, <1>3, <3>1, NewRefKept DEF NewRoot
    <3>3. r \in own[T] /\ r \notin vw[T] /\ pages[r].kind = "ino0" /\ pages'[r] = pages[r]
      BY <1>3 DEF NewRoot, Keeps, PagesKept
    <3>4. r \in own2[T'] \ vw2[T']
      BY <3>3 DEF Keeps, T
    <3> QED  BY <3>1, <3>2, <3>3, <3>4 DEF NewRoot, NewRef
  <2> QED  BY <2>2, <2>3
<1>4. ASSUME LastPhase(own, vw, m)
      PROVE  LastPhase(own2, vw2, m)'
  <2>1. PICK f \in Inodes : Pass(vw, f, kLast) /\ NewRoot(own, vw, f, call.ino0)
    BY <1>4 DEF LastPhase
  <2>2. Pass(vw2, f, kLast)'
    BY <1>1, <2>1, PassKept
  <2>3. NewRoot(own2, vw2, f, r)'
    BY <1>2, <1>3, <2>1, PassInfo
  <2>4. NewRoot(own2, vw2, f, call.ino0)'
    BY <1>2, <2>3 DEF NewRoot
  <2> QED  BY <1>4, <2>2, <2>4 DEF LastPhase
<1>5. ASSUME TurnPhase(own, vw, m)
      PROVE  TurnPhase(own2, vw2, m)'
  <2>1. PICK e \in Values : /\ m = kDir(e) /\ DirCommit /\ DirIntent(vw, e)
                                 /\ NewRoot(own, vw, call.file, call.ino0)
    BY <1>5 DEF TurnPhase
  <2>2. PICK f \in Inodes : f = call.file /\ f # Dir
    BY <2>1, TransactionsAssumption DEF DirCommit, Inodes
  <2>3. NewRoot(own2, vw2, f, r)'
    BY <1>2, <1>3, <2>1, <2>2
  <2>4. NewRoot(own2, vw2, call.file, call.ino0)'
    BY <1>2, <2>2, <2>3 DEF NewRoot
  <2>5. DirCommit'
    BY <2>1, CommitsKept DEF Keeps
  <2>6. DirIntent(vw2, e)'
    BY <1>1, <2>1 DEF DirIntent, Keeps, SameTree, T, Inodes
  <2> QED  BY <2>1, <2>4, <2>5, <2>6 DEF TurnPhase
<1> QED  BY <1>4, <1>5

LEMMA WritePhaseKept ==
  ASSUME NEW own, NEW own2, NEW vw, NEW vw2, NEW m, Direct,
         TypeInv, TreeKept, Keeps(own, own2, vw, vw2, EMPTY),
         SameFile(T), call' = call
  PROVE  /\ WritePhase(own, vw, m) => WritePhase(own2, vw2, m)'
         /\ WrittenPhase(own, vw, m) /\ Votes(own2, vw2, T)'
              => WrittenPhase(own2, vw2, m)'
<1>1. PICK t : t = T /\ t = T'
  BY DEF T
<1>2. NotData(EMPTY)
  BY DEF NotData
<1>3. OfFile(T) => OfFile(T)'
  BY DEF OfFile, SameFile, Keeps, SameTree, T
<1>4. ASSUME OpenFile(own, vw, T)
      PROVE  /\ OpenFile(own2, vw2, T)' /\ PtrsNow(T)' = PtrsNow(T)
             /\ ContOf(pages, PtrsNow(T))' = ContOf(pages, PtrsNow(T))
             /\ tr[T].node = "inode" => ContOf(pages, tr[T].ptrs)' = ContOf(pages, tr[T].ptrs)
  <2>1. OpenFile(own, vw, t) /\ SameFile(t)
    BY <1>1, <1>4 DEF OpenFile, PtrsNow, ReadNode, Pointers, SameFile
  <2>2. /\ OpenFile(own2, vw2, t)' /\ PtrsNow(t)' = PtrsNow(t)
        /\ ContOf(pages, PtrsNow(t))' = ContOf(pages, PtrsNow(t))
        /\ tr[t].node = "inode" => ContOf(pages, tr[t].ptrs)' = ContOf(pages, tr[t].ptrs)
    BY <1>1, <1>2, <2>1, OpenFileKept DEF Keeps
  <2>3. OpenFile(own2, vw2, T)'
    BY <1>1, <2>2, AtT
  <2>4. tr'[t] = tr'[T'] /\ tr[t] = tr[T] /\ PtrsNow(t)' = PtrsNow(T)' /\ PtrsNow(t) = PtrsNow(T)
    BY <1>1 DEF PtrsNow, ReadNode
  <2>5. ContOf(pages, PtrsNow(t))' = ContOf(pages, PtrsNow(T))'
    BY <2>4 DEF ContOf
  <2>6. tr[t].node = "inode" => ContOf(pages, tr[t].ptrs)' = ContOf(pages, tr[T].ptrs)'
    BY <2>4, <1>1 DEF ContOf
  <2> QED  BY <2>2, <2>3, <2>4, <2>5, <2>6
<1>7. Root \notin vw[T] => Root' \notin vw2[T']
  BY <1>1 DEF Keeps, SameTree
<1>5. ASSUME WritePhase(own, vw, m)
      PROVE  WritePhase(own2, vw2, m)'
  <2>1. PICK b \in Blocks, e \in Values, k \in Seq(Ops) :
          /\ \/ m = kSeek(b, e, k)
             \/ m = kLoad(b, e, k) /\ tr[T].node = "none"
             \/ m = kData(b, e, k) /\ tr[T].node = "inode"
          /\ WriteOf(own, vw, k) /\ OpenFile(own, vw, T)
          /\ intent[T][tr[T].ino] = [ContOf(pages, PtrsNow(T)) EXCEPT ![b] = e]
    BY <1>5 DEF WritePhase
  <2>2. WriteOf(own2, vw2, k)'
    <3>1. CASE k = kRet /\ call.file = NoInode /\ OfFile(T) /\ Root \notin vw[T]
      BY <1>3, <1>7, <3>1 DEF WriteOf
    <3>2. CASE k = kDirCommit /\ DirCommit /\ tr[T].ino = Dir /\ BaseOK(own, vw, Dir)
      <4>1. PICK r : r = call.ino0 /\ r = call'.ino0
        OBVIOUS
      <4>2. IsRoot(own, r) /\ BaseRef(own, vw, Dir, pages[r].ref)
        BY <3>2, <4>1 DEF BaseOK
      <4>3. call.file \in Inodes /\ Dir \in Inodes
        BY <3>2 DEF DirCommit, Inodes
      <4>4. IsRoot(own2, r)' /\ BaseRef(own2, vw2, Dir, pages[r].ref)'
        BY <4>2, <4>3, RootsKept
      <4>5. BaseOK(own2, vw2, Dir)'
        BY <4>1, <4>4 DEF BaseOK, IsRoot, BaseRef, NewFile
      <4>6. DirCommit'
        BY <3>2, CommitsKept DEF Keeps
      <4> QED  BY <1>1, <3>2, <4>5, <4>6 DEF WriteOf, SameFile
    <3> QED  BY <2>1, <3>1, <3>2 DEF WriteOf
  <2>3. /\ OpenFile(own2, vw2, T)'
        /\ (ContOf(pages, PtrsNow(T)))' = ContOf(pages, PtrsNow(T))
    BY <1>4, <2>1
  <2>4. intent'[T'][tr'[T'].ino] = [(ContOf(pages, PtrsNow(T)))' EXCEPT ![b] = e]
    BY <1>1, <2>1, <2>3 DEF SameFile, Keeps
  <2>5. \/ m = kSeek(b, e, k)
        \/ m = kLoad(b, e, k) /\ tr'[T'].node = "none"
        \/ m = kData(b, e, k) /\ tr'[T'].node = "inode"
    BY <1>1, <2>1 DEF SameFile
  <2>6. \E b2 \in Blocks, e2 \in Values, k2 \in Seq(Ops) :
          /\ \/ m = kSeek(b2, e2, k2)
             \/ m = kLoad(b2, e2, k2) /\ tr'[T'].node = "none"
             \/ m = kData(b2, e2, k2) /\ tr'[T'].node = "inode"
          /\ WriteOf(own2, vw2, k2)' /\ OpenFile(own2, vw2, T)'
          /\ intent'[T'][tr'[T'].ino] = [(ContOf(pages, PtrsNow(T)))' EXCEPT ![b2] = e2]
    BY <2>2, <2>3, <2>4, <2>5
  <2> QED  BY <2>6 DEF WritePhase
<1>6. ASSUME WrittenPhase(own, vw, m), Votes(own2, vw2, T)'
      PROVE  WrittenPhase(own2, vw2, m)'
  <2>1. OpenFile(own2, vw2, T)' /\ ContOf(pages, tr[T].ptrs)' = ContOf(pages, tr[T].ptrs)
    BY <1>4, <1>6 DEF WrittenPhase, InUse
  <2>2. intent'[T'][tr'[T'].ino] = (ContOf(pages, tr[T].ptrs))'
    BY <1>1, <1>6, <2>1 DEF WrittenPhase, InUse, SameFile, Keeps
  <2> QED  BY <1>1, <1>3, <1>6, <1>7, <2>1, <2>2 DEF WrittenPhase, InUse, SameFile
<1> QED  BY <1>5, <1>6

LEMMA MainPhaseKept ==
  ASSUME NEW own, NEW own2, NEW vw, NEW vw2, NEW m, Direct,
         TypeInv, TreeKept, Keeps(own, own2, vw, vw2, EMPTY),
         SameFile(T), call' = call, MainPhase(own, vw, m), Votes(own2, vw2, T)'
  PROVE  MainPhase(own2, vw2, m)'
BY PassPhaseKept, LastPhaseKept, WritePhaseKept DEF MainPhase

-----------------------------------------------------------------------------
(* What is done next.                                                      *)

LEMMA OpOfDo ==
  (\A op, x, a : Do(op, x, a).op = op) /\ (\A op : Todo(op).op = op)
BY DEF Do, Todo

LEMMA DataHeads ==
  ASSUME NEW b \in Blocks, NEW e \in Values, NEW k \in Seq(Ops)
  PROVE  /\ {kData(b, e, k), kLoad(b, e, k), kSeek(b, e, k)} \subseteq Seq(Ops) \ {<<>>}
         /\ Head(kData(b, e, k)).op = "writeData" /\ Head(kLoad(b, e, k)).op = "load"
         /\ Head(kSeek(b, e, k)).op = "seek"
<1>1. /\ Head(kData(b, e, k)) = Do("writeData", b, e)
      /\ Head(kLoad(b, e, k)) = Do("load", b, EMPTY)
      /\ Head(kSeek(b, e, k)) = Do("seek", b, EMPTY)
      /\ {kData(b, e, k), kLoad(b, e, k), kSeek(b, e, k)} \subseteq Seq(Ops) \ {<<>>}
  BY DataFacts
<1> QED  BY <1>1, OpOfDo

(* In a program, the phase that its first step belongs to.                 *)
LEMMA PassHead ==
  ASSUME Direct, NEW own, NEW vw, NEW f \in Inodes, NEW k \in Seq(Ops), NEW m
  PROVE  /\ CommitInodePhase(own, vw, f, k, m) =>
              /\ m \in Seq(Ops) \ {<<>>}
              /\ \/ m = kCommit(f, k) /\ Head(m).op = "commitInode"
                 \/ m = kVotI(f, k) /\ Head(m).op = "votNode"
                 \/ m = kActive(f, k) /\ Head(m).op = "writeActive"
         /\ KeepPhase(own, vw, f, k, m) =>
              m \in Seq(Ops) \ {<<>>} /\ m = kKeep(f, k) /\ Head(m).op = "keepInode"
         /\ LoadPhase(own, vw, f, k, m) =>
              m \in Seq(Ops) \ {<<>>} /\ m = kLoadZ(f, k) /\ Head(m).op = "loadInode0"
         /\ Inode0Phase(own, vw, f, k, m) =>
              /\ m \in Seq(Ops) \ {<<>>}
              /\ \/ m = kVotZ(f, k) /\ Head(m).op = "votNode"
                 \/ m = kWriteZ(f, k) /\ Head(m).op = "writeInode0"
         /\ NewPhase(own, vw, f, k, m) =>
              m \in Seq(Ops) \ {<<>>} /\ Head(m).op = "newInode0"
<1>1. /\ {kWriteZ(f, k), kVotZ(f, k), kLoadZ(f, k), kKeep(f, k), kActive(f, k),
             kVotI(f, k), kCommit(f, k)} \subseteq Seq(Ops) \ {<<>>}
      /\ Head(kWriteZ(f, k)).op = "writeInode0" /\ Head(kVotZ(f, k)).op = "votNode"
      /\ Head(kLoadZ(f, k)).op = "loadInode0" /\ Head(kKeep(f, k)).op = "keepInode"
      /\ Head(kActive(f, k)).op = "writeActive" /\ Head(kVotI(f, k)).op = "votNode"
      /\ Head(kCommit(f, k)).op = "commitInode"
  <2>1. {kWriteZ(f, k), kVotZ(f, k), kLoadZ(f, k), kKeep(f, k), kActive(f, k),
            kVotI(f, k), kCommit(f, k)} \subseteq Seq(Ops) \ {<<>>}
    BY PassFacts
  <2>2. /\ Head(kWriteZ(f, k)) = Do("writeInode0", f, EMPTY)
        /\ Head(kVotZ(f, k)) = Do("votNode", "inode", EMPTY)
        /\ Head(kLoadZ(f, k)) = Do("loadInode0", f, EMPTY)
        /\ Head(kKeep(f, k)) = Todo("keepInode")
        /\ Head(kActive(f, k)) = Do("writeActive", "inode", EMPTY)
        /\ Head(kVotI(f, k)) = Do("votNode", "inode", EMPTY)
        /\ Head(kCommit(f, k)) = Todo("commitInode")
    BY PassFacts
  <2> QED  BY <2>1, <2>2, OpOfDo
<1>2. \A a \in Addr : kNew(a, k) \in Seq(Ops) \ {<<>>} /\ Head(kNew(a, k)).op = "newInode0"
  <2> SUFFICES ASSUME NEW a \in Addr
               PROVE  kNew(a, k) \in Seq(Ops) \ {<<>>} /\ Head(kNew(a, k)).op = "newInode0"
    OBVIOUS
  <2>1. a \in Addr0
    BY DEF Addr0
  <2> QED  BY <2>1, NewFacts DEF Do
<1> QED  BY <1>1, <1>2 DEF CommitInodePhase, KeepPhase, LoadPhase, Inode0Phase, NewPhase

LEMMA EndHeads ==
  /\ Head(kRet).op = "return" /\ Head(kFind2).op = "find" /\ Head(kCp2).op = "checkpoint"
  /\ Head(kFinish).op = "finish" /\ Head(kFind).op = "find" /\ Head(kWalk).op = "walk"
  /\ Head(kCp).op = "checkpoint" /\ Head(kSetFs).op = "setFs" /\ Head(kLast).op = "lastVots"
  /\ \A a \in Addr0 : Head(kVots(a)).op = "vots" /\ Head(kVots(a)).a = a
  /\ kFind # kFind2 /\ kCp # kCp2
<1>1. /\ Head(kRet).op = "return" /\ Head(kFind2).op = "find" /\ Head(kCp2).op = "checkpoint"
      /\ Head(kFinish).op = "finish" /\ Head(kFind).op = "find" /\ Head(kWalk).op = "walk"
      /\ Head(kCp).op = "checkpoint" /\ Head(kSetFs).op = "setFs" /\ Head(kLast).op = "lastVots"
  BY OpOfDo, RetFacts, EndFacts
<1>2. \A a \in Addr0 : Head(kVots(a)).op = "vots" /\ Head(kVots(a)).a = a
  BY VotsFacts DEF Do
<1>3. Tail(kFind) # Tail(kFind2) /\ Tail(kCp) # Tail(kCp2)
  <2>1. Tail(kFind) = kFinish /\ Tail(kFind2) = kRet /\ Tail(kCp) = kWalk /\ Tail(kCp2) = kFind2
    BY EndFacts
  <2>2. kFinish # kRet /\ kWalk # kFind2
    BY <1>1
  <2> QED  BY <2>1, <2>2
<1> QED  BY <1>1, <1>2, <1>3

LEMMA MainHead ==
  ASSUME Direct, NEW own, NEW vw, NEW m, MainPhase(own, vw, m)
  PROVE  /\ m \in Seq(Ops) \ {<<>>}
         /\ \/ /\ Head(m).op \in {"commitInode", "votNode", "writeActive", "keepInode",
                                  "loadInode0", "writeInode0", "newInode0"}
               /\ PassPhase(own, vw, m)
            \/ /\ \/ m = kLast /\ Head(m).op = "lastVots"
                  \/ m = kSetFs /\ Head(m).op = "setFs"
                  \/ m = kCp /\ Head(m).op = "checkpoint"
               /\ LastPhase(own, vw, m)
            \/ Head(m).op = "turnToDir" /\ TurnPhase(own, vw, m)
            \/ Head(m).op \in {"seek", "load", "writeData"} /\ WritePhase(own, vw, m)
            \/ m = kRet /\ Head(m).op = "return" /\ WrittenPhase(own, vw, m)
<1>1. ASSUME PassPhase(own, vw, m)
      PROVE  /\ m \in Seq(Ops) \ {<<>>}
             /\ Head(m).op \in {"commitInode", "votNode", "writeActive", "keepInode",
                                  "loadInode0", "writeInode0", "newInode0"}
  <2>1. PICK f \in Inodes, k \in Seq(Ops) :
          \/ CommitInodePhase(own, vw, f, k, m) \/ KeepPhase(own, vw, f, k, m)
          \/ LoadPhase(own, vw, f, k, m) \/ Inode0Phase(own, vw, f, k, m)
          \/ NewPhase(own, vw, f, k, m)
    BY <1>1 DEF PassPhase
  <2> QED  BY <2>1, PassHead
<1>2. ASSUME LastPhase(own, vw, m)
      PROVE  /\ m \in Seq(Ops) \ {<<>>}
             /\ \/ m = kLast /\ Head(m).op = "lastVots"
                \/ m = kSetFs /\ Head(m).op = "setFs"
                \/ m = kCp /\ Head(m).op = "checkpoint"
  BY <1>2, EndFacts, EndHeads DEF LastPhase
<1>3. ASSUME TurnPhase(own, vw, m)
      PROVE  m \in Seq(Ops) \ {<<>>} /\ Head(m).op = "turnToDir"
  BY <1>3, DirFacts DEF TurnPhase, Todo, Do
<1>4. ASSUME WritePhase(own, vw, m)
      PROVE  m \in Seq(Ops) \ {<<>>} /\ Head(m).op \in {"seek", "load", "writeData"}
  <2>1. PICK b \in Blocks, e \in Values, k \in Seq(Ops) :
          m = kSeek(b, e, k) \/ m = kLoad(b, e, k) \/ m = kData(b, e, k)
    BY <1>4 DEF WritePhase
  <2>2. /\ {kData(b, e, k), kLoad(b, e, k), kSeek(b, e, k)} \subseteq Seq(Ops) \ {<<>>}
        /\ Head(kData(b, e, k)).op = "writeData" /\ Head(kLoad(b, e, k)).op = "load"
        /\ Head(kSeek(b, e, k)).op = "seek"
    BY DataHeads
  <2> QED  BY <2>1, <2>2
<1>5. ASSUME WrittenPhase(own, vw, m)
      PROVE  m = kRet /\ m \in Seq(Ops) \ {<<>>} /\ Head(m).op = "return"
  BY <1>5, RetFacts, EndHeads DEF WrittenPhase
<1> QED  BY <1>1, <1>2, <1>3, <1>4, <1>5 DEF MainPhase

(* The step of commitInode(), commitInodeToInode0() that is done next.     *)
LEMMA PassOp ==
  ASSUME Direct, NEW own, NEW vw, NEW m, PassPhase(own, vw, m)
  PROVE  \E f \in Inodes, k \in Seq(Ops) :
           /\ Pass(vw, f, k)
           /\ Head(m).op = "commitInode" =>
                m = kCommit(f, k) /\ CommitInodePhase(own, vw, f, k, m)
           /\ Head(m).op = "votNode" =>
                \/ m = kVotI(f, k) /\ CommitInodePhase(own, vw, f, k, m)
                \/ m = kVotZ(f, k) /\ Inode0Phase(own, vw, f, k, m)
           /\ Head(m).op = "writeActive" =>
                m = kActive(f, k) /\ CommitInodePhase(own, vw, f, k, m)
           /\ Head(m).op = "keepInode" => m = kKeep(f, k) /\ KeepPhase(own, vw, f, k, m)
           /\ Head(m).op = "loadInode0" => m = kLoadZ(f, k) /\ LoadPhase(own, vw, f, k, m)
           /\ Head(m).op = "writeInode0" =>
                m = kWriteZ(f, k) /\ Inode0Phase(own, vw, f, k, m)
           /\ Head(m).op = "newInode0" => NewPhase(own, vw, f, k, m)
<1>1. PICK f \in Inodes, k \in Seq(Ops) :
          /\ Pass(vw, f, k)
          /\ \/ CommitInodePhase(own, vw, f, k, m) \/ KeepPhase(own, vw, f, k, m)
             \/ LoadPhase(own, vw, f, k, m) \/ Inode0Phase(own, vw, f, k, m)
             \/ NewPhase(own, vw, f, k, m)
  BY DEF PassPhase
<1>2. CASE CommitInodePhase(own, vw, f, k, m)
  BY <1>1, <1>2, PassHead
<1>3. CASE KeepPhase(own, vw, f, k, m)
  BY <1>1, <1>3, PassHead
<1>4. CASE LoadPhase(own, vw, f, k, m)
  BY <1>1, <1>4, PassHead
<1>5. CASE Inode0Phase(own, vw, f, k, m)
  BY <1>1, <1>5, PassHead
<1>6. CASE NewPhase(own, vw, f, k, m)
  BY <1>1, <1>6, PassHead
<1> QED  BY <1>1, <1>2, <1>3, <1>4, <1>5, <1>6

LEMMA WriteOp ==
  ASSUME Direct, NEW own, NEW vw, NEW m, WritePhase(own, vw, m)
  PROVE  \E b \in Blocks, e \in Values, k \in Seq(Ops) :
           /\ Head(m).op = "seek" => m = kSeek(b, e, k)
           /\ Head(m).op = "load" => m = kLoad(b, e, k) /\ tr[T].node = "none"
           /\ Head(m).op = "writeData" => m = kData(b, e, k) /\ tr[T].node = "inode"
           /\ WriteOf(own, vw, k) /\ OpenFile(own, vw, T)
           /\ intent[T][tr[T].ino] = [ContOf(pages, PtrsNow(T)) EXCEPT ![b] = e]
<1>1. PICK b \in Blocks, e \in Values, k \in Seq(Ops) :
          /\ \/ m = kSeek(b, e, k)
             \/ m = kLoad(b, e, k) /\ tr[T].node = "none"
             \/ m = kData(b, e, k) /\ tr[T].node = "inode"
          /\ WriteOf(own, vw, k) /\ OpenFile(own, vw, T)
          /\ intent[T][tr[T].ino] = [ContOf(pages, PtrsNow(T)) EXCEPT ![b] = e]
  BY DEF WritePhase
<1>2. /\ Head(kData(b, e, k)).op = "writeData" /\ Head(kLoad(b, e, k)).op = "load"
      /\ Head(kSeek(b, e, k)).op = "seek"
  BY DataHeads
<1> QED  BY <1>1, <1>2

(* What is done next is of an abort, comes between or is of the program.   *)
LEMMA TodoParts ==
  ASSUME NEW A, NEW X, NEW m, Shape(A, X, m), todo # <<>>
  PROVE  /\ T \in Tids /\ Op \in Ops /\ Rest \in Seq(Ops)
         /\ \/ /\ A # <<>> /\ Op = Head(A) /\ Rest = Tail(A) \o (X \o m)
               /\ Tail(A) \in Seq(Ops)
            \/ /\ A = <<>> /\ X # <<>> /\ Op = Head(X)
               /\ Rest = A \o (Tail(X) \o m) /\ Tail(X) \in Seq(Ops)
            \/ /\ A = <<>> /\ X = <<>> /\ m # <<>> /\ todo = m
               /\ Op = Head(m) /\ Rest = Tail(m) /\ Tail(m) \in Seq(Ops)
<1>1. /\ A \in Seq(Ops) /\ X \in Seq(Ops) /\ m \in Seq(Ops) /\ T \in Tids
      /\ todo = A \o (X \o m) /\ X \o m \in Seq(Ops)
  BY Cat DEF Shape
<1>2. CASE A # <<>>
  BY <1>1, <1>2, Cat DEF Op, Rest
<1>3. CASE A = <<>> /\ X # <<>>
  <2>1. todo = X \o m
    BY <1>1, <1>3, Cat
  <2>2. Head(X \o m) = Head(X) /\ Tail(X \o m) = Tail(X) \o m
        /\ Head(X) \in Ops /\ Tail(X) \in Seq(Ops)
    BY <1>1, <1>3, Cat
  <2>3. Tail(X) \o m \in Seq(Ops)
    BY <1>1, <2>2, Cat
  <2>4. A \o (Tail(X) \o m) = Tail(X) \o m
    BY <1>1, <1>3, <2>3, Cat
  <2> QED  BY <1>1, <1>3, <2>1, <2>2, <2>3, <2>4 DEF Op, Rest
<1>4. CASE A = <<>> /\ X = <<>>
  <2>1. todo = m
    BY <1>1, <1>4, Cat
  <2> QED  BY <1>1, <1>4, <2>1, HeadTailProperties DEF Op, Rest
<1> QED  BY <1>2, <1>3, <1>4

LEMMA AbortParts ==
  ASSUME NEW A, IsAbort(A), A # <<>>
  PROVE  /\ IsAbort(Tail(A))
         /\ \E u \in Tids :
              \/ Head(A) = Do("delete", NoInode, u) /\ Tail(A) # <<>>
                 /\ Head(Tail(A)) = Do("init", NoInode, u)
              \/ Head(A) = Do("init", NoInode, u) /\ Tail(A) # <<>>
                 /\ Head(Tail(A)) = Todo("checkpoint")
              \/ Head(A) = Todo("checkpoint") /\ Tail(A) # <<>>
                 /\ Head(Tail(A)) = Todo("find")
              \/ Head(A) = Todo("find") /\ Tail(A) = <<>>
<1>1. PICK u \in Tids : A \in AbortTails(u)
  BY DEF IsAbort
<1>2. /\ Head(AbortOps(u)) = Do("delete", NoInode, u)
      /\ Head(Tail(AbortOps(u))) = Do("init", NoInode, u)
      /\ Head(Tail(Tail(AbortOps(u)))) = Todo("checkpoint")
      /\ Tail(Tail(Tail(AbortOps(u)))) = <<Todo("find")>>
      /\ Tail(<<Todo("find")>>) = <<>> /\ Head(<<Todo("find")>>) = Todo("find")
      /\ Tail(AbortOps(u)) # <<>> /\ Tail(Tail(AbortOps(u))) # <<>>
  BY AbortFacts
<1>3. <<Todo("find")>> # <<>>
  OBVIOUS
<1> QED  BY <1>1, <1>2, <1>3 DEF AbortTails, IsAbort

(* The phase that what is done next belongs to.                            *)
LEMMA RunningHead ==
  ASSUME Direct, NEW own, NEW vw, NEW A, NEW X, NEW m,
         Running(own, vw, A, X, m), todo # <<>>
  PROVE  /\ T \in Tids /\ Op \in Ops /\ Rest \in Seq(Ops) /\ MineOK(own, vw, A, X, m)
         /\ \/ /\ A # <<>> /\ Op = Head(A) /\ Rest = Tail(A) \o (X \o m)
               /\ Tail(A) \in Seq(Ops) /\ ~ InWindow(m)
               /\ Op.op \in {"delete", "init", "checkpoint", "find"}
            \/ /\ A = <<>> /\ X # <<>> /\ Op = Head(X)
               /\ Rest = A \o (Tail(X) \o m) /\ Tail(X) \in Seq(Ops)
               /\ \/ /\ UncommittedPhase(own, vw, X, m) /\ Between(own, vw, Tail(X))
                     /\ \/ Op.op \in {"find", "votsPage"}
                        \/ Op.op = "vot" /\ Op.a \in vw[T] \cup {EMPTY}
                        \/ Op.op = "prev" /\ Op.a \in own[T]
                  \/ /\ WalkPhase(own, X, m) /\ WalkPhase(own, Tail(X), m)
                     /\ Op.op = "mark" /\ Forsaken(own, Op.a)
            \/ /\ A = <<>> /\ X = <<>> /\ m # <<>> /\ todo = m
               /\ Op = Head(m) /\ Rest = Tail(m) /\ Tail(m) \in Seq(Ops)
               /\ \/ /\ RestPhase(own, vw, X, m)
                     /\ \/ m = kRet /\ Op.op = "return"
                        \/ m = kFind2 /\ Op.op = "find"
                        \/ m = kCp2 /\ Op.op = "checkpoint"
                        \/ m = kAgain(T) /\ Op.op = "delete"
                  \/ /\ UncommittedPhase(own, vw, X, m)
                     /\ Op.op \in {"commitInode", "votNode", "writeActive", "keepInode",
                                   "loadInode0", "writeInode0", "newInode0", "lastVots",
                                   "setFs", "checkpoint", "turnToDir", "seek", "load",
                                   "writeData", "return"}
                  \/ /\ WalkPhase(own, X, m)
                     /\ \/ m = kWalk /\ Op.op = "walk"
                        \/ m = kFind /\ Op.op = "find"
                        \/ m = kFinish /\ Op.op = "finish"
                        \/ Op.op = "vots" /\ \E a \in own[T] \cup {EMPTY} : m = kVots(a)
<1>1. Shape(A, X, m)
  BY DEF Running
<1>2. /\ T \in Tids /\ Op \in Ops /\ Rest \in Seq(Ops)
      /\ \/ /\ A # <<>> /\ Op = Head(A) /\ Rest = Tail(A) \o (X \o m)
            /\ Tail(A) \in Seq(Ops)
         \/ /\ A = <<>> /\ X # <<>> /\ Op = Head(X)
            /\ Rest = A \o (Tail(X) \o m) /\ Tail(X) \in Seq(Ops)
         \/ /\ A = <<>> /\ X = <<>> /\ m # <<>> /\ todo = m
            /\ Op = Head(m) /\ Rest = Tail(m) /\ Tail(m) \in Seq(Ops)
  BY <1>1, TodoParts
<1>3. MineOK(own, vw, A, X, m)
  BY <1>2 DEF Running
<1>4. CASE A # <<>>
  <2>1. Head(A).op \in {"delete", "init", "checkpoint", "find"}
    BY <1>1, <1>4, AbortParts DEF Shape, Do, Todo
  <2> QED  BY <1>1, <1>2, <1>3, <1>4, <2>1 DEF Shape
<1>5. CASE A = <<>> /\ X # <<>>
  <2>1. /\ X \in Seq(Ops) /\ Head(X) = X[1] /\ 1 \in 1 .. Len(X) /\ Len(Tail(X)) = Len(X) - 1
        /\ Len(X) \in Nat /\ \A i \in 1 .. Len(Tail(X)) : i + 1 \in 1 .. Len(X) /\ Tail(X)[i] = X[i + 1]
    <3>1. X \in Seq(Ops) /\ X # <<>>
      BY <1>1, <1>5 DEF Shape
    <3>2. /\ Head(X) = X[1] /\ Len(Tail(X)) = Len(X) - 1 /\ Tail(X) \in Seq(Ops)
          /\ \A i \in 1 .. Len(Tail(X)) : Tail(X)[i] = X[i + 1]
      BY <3>1, HeadTailProperties
    <3>3. Len(X) \in Nat /\ Len(X) # 0
      BY <3>1, EmptySeq
    <3> QED  BY <3>1, <3>2, <3>3
  <2>2. \/ UncommittedPhase(own, vw, X, m) /\ Between(own, vw, X)
        \/ WalkPhase(own, X, m)
    BY <1>3, <1>5 DEF MineOK, RestPhase, UncommittedPhase
  <2>3. ASSUME Between(own, vw, X)
        PROVE  /\ Between(own, vw, Tail(X))
               /\ \/ Head(X).op \in {"find", "votsPage"}
                  \/ Head(X).op = "vot" /\ Head(X).a \in vw[T] \cup {EMPTY}
                  \/ Head(X).op = "prev" /\ Head(X).a \in own[T]
    BY <2>1, <2>3 DEF Between
  <2>4. ASSUME WalkPhase(own, X, m)
        PROVE  /\ WalkPhase(own, Tail(X), m)
               /\ Head(X).op = "mark" /\ Forsaken(own, Head(X).a)
    BY <2>1, <2>4 DEF WalkPhase
  <2> QED  BY <1>2, <1>3, <1>5, <2>2, <2>3, <2>4
<1>6. CASE A = <<>> /\ X = <<>>
  <2>1. ~ Dying(A, T)
    BY <1>6 DEF Dying
  <2>2. CASE RestPhase(own, vw, X, m)
    <3>1. Head(kAgain(T)).op = "delete"
      <4>1. AbortOps(T) \in Seq(Ops) /\ AbortOps(T) # <<>>
            /\ Head(AbortOps(T)) = Do("delete", NoInode, T)
        BY <1>2, AbortFacts DEF AbortTails
      <4>2. Head(kAgain(T)) = Do("delete", NoInode, T)
        BY <4>1, RetFacts, Cat DEF kAgain
      <4> QED  BY <4>2 DEF Do
    <3> QED  BY <1>2, <1>3, <1>6, <2>2, <3>1, EndHeads DEF RestPhase
  <2>3. CASE UncommittedPhase(own, vw, X, m)
    <3>1. MainPhase(own, vw, m)
      BY <2>3 DEF UncommittedPhase
    <3> QED  BY <1>2, <1>3, <1>6, <2>3, <3>1, MainHead
  <2>4. CASE WalkPhase(own, X, m)
    <3>1. own[T] \cup {EMPTY} \subseteq Addr0
      BY <1>2 DEF Running, Owners, OwnChain, Addr0
    <3> QED  BY <1>2, <1>3, <1>6, <2>4, <3>1, EndHeads DEF WalkPhase
  <2> QED  BY <1>3, <2>1, <2>2, <2>3, <2>4 DEF MineOK
<1> QED  BY <1>2, <1>4, <1>5, <1>6

LEMMA BootHead ==
  ASSUME NEW C, NEW D, NEW Y, BootingFrom(C, D, Y)
  PROVE  /\ todo # <<>> /\ Op \in Ops
         /\ \/ Y = <<>> /\ Op.op = "bootEnd" /\ Rest = <<>>
            \/ /\ Y # <<>> /\ Op = Head(Y) /\ Rest = Tail(Y) \o <<Todo("bootEnd")>>
               /\ Tail(Y) \in Seq(Ops) /\ BootOps(C, Tail(Y))
               /\ \/ Op.op \in {"find", "bootVots"}
                  \/ Op.op = "bootDelete" /\ Op.a \in Tids
                  \/ Op.op = "vots" /\ Op.a \in C \cup {EMPTY}
                  \/ Op.op = "mark" /\ Op.a \in Addr \ Tree0
<1>1. /\ Todo("bootEnd") \in Ops /\ <<Todo("bootEnd")>> \in Seq(Ops)
      /\ Todo("bootEnd").op = "bootEnd" /\ Y \in Seq(Ops)
      /\ Head(<<Todo("bootEnd")>>) = Todo("bootEnd") /\ Tail(<<Todo("bootEnd")>>) = <<>>
      /\ <<Todo("bootEnd")>> # <<>> /\ todo = Y \o <<Todo("bootEnd")>>
  BY AllTodos DEF BootingFrom
<1>2. CASE Y = <<>>
  BY <1>1, <1>2, Cat DEF Op, Rest
<1>3. CASE Y # <<>>
  <2>1. /\ todo # <<>> /\ Op = Head(Y) /\ Op \in Ops /\ Tail(Y) \in Seq(Ops)
        /\ Rest = Tail(Y) \o <<Todo("bootEnd")>>
    BY <1>1, <1>3, Cat DEF Op, Rest
  <2>2. /\ Head(Y) = Y[1] /\ 1 \in 1 .. Len(Y)
        /\ \A i \in 1 .. Len(Tail(Y)) : i + 1 \in 1 .. Len(Y) /\ Tail(Y)[i] = Y[i + 1]
    <3>1. /\ Head(Y) = Y[1] /\ Len(Tail(Y)) = Len(Y) - 1
          /\ \A i \in 1 .. Len(Tail(Y)) : Tail(Y)[i] = Y[i + 1]
      BY <1>1, <1>3, HeadTailProperties
    <3>2. Len(Y) \in Nat /\ Len(Y) # 0
      BY <1>1, <1>3, EmptySeq
    <3> QED  BY <3>1, <3>2
  <2> QED  BY <1>3, <2>1, <2>2 DEF BootingFrom, BootOps
<1> QED  BY <1>2, <1>3

LEMMA WindowFacts ==
  ASSUME NEW m, InWindow(m)
  PROVE  /\ m # <<>> /\ m # kCp2 /\ m \in {kCp, kLast, kSetFs}
         /\ Head(m).op \in {"checkpoint", "lastVots", "setFs"}
<1>1. m \in {kCp, kLast, kSetFs}
  BY DEF InWindow
<1>2. kCp # <<>> /\ kLast # <<>> /\ kSetFs # <<>>
  BY EndFacts
<1>3. Head(m).op \in {"checkpoint", "lastVots", "setFs"}
  BY <1>1, EndHeads
<1>4. m # kCp2
  <2>1. kCp # kCp2 /\ Head(kCp2).op = "checkpoint"
    BY EndHeads
  <2>2. Head(kLast).op = "lastVots" /\ Head(kSetFs).op = "setFs"
    BY EndHeads
  <2> QED  BY <1>1, <2>1, <2>2
<1> QED  BY <1>1, <1>2, <1>3, <1>4

LEMMA ClosedFacts ==
  ASSUME NEW m, FsOK(m), fs.closed # EMPTY
  PROVE  /\ m # <<>> /\ m # kCp2 /\ m # kFind2
         /\ Head(m).op \in {"checkpoint", "walk", "find", "finish", "vots"}
<1>1. \A a \in Addr0 : kVots(a) # <<>> /\ Head(kVots(a)).op = "vots"
  BY VotsFacts, EndHeads
<1>2. m \in {kCp, kWalk, kFind, kFinish} \cup {kVots(a) : a \in Addr0}
  BY DEF FsOK
<1>3. CASE \E a \in Addr0 : m = kVots(a)
  <2>1. m # <<>> /\ Head(m).op = "vots"
    BY <1>1, <1>3
  <2>2. Head(kCp2).op = "checkpoint" /\ Head(kFind2).op = "find"
    BY EndHeads
  <2> QED  BY <2>1, <2>2
<1>4. CASE m \in {kCp, kWalk, kFind, kFinish}
  <2>1. m # <<>>
    BY <1>4, EndFacts
  <2>2. /\ Head(kFind2).op = "find" /\ Head(kCp2).op = "checkpoint"
        /\ Head(kFinish).op = "finish" /\ Head(kFind).op = "find"
        /\ Head(kWalk).op = "walk" /\ Head(kCp).op = "checkpoint"
        /\ kFind # kFind2 /\ kCp # kCp2
    BY EndHeads
  <2> QED  BY <1>4, <2>1, <2>2
<1> QED  BY <1>2, <1>3, <1>4

-----------------------------------------------------------------------------
(* The invariant after a step, from its parts.                             *)

LEMMA FlashKept ==
  ASSUME TreeKept, saved' = saved, PagesKept({}), Tree0 \cap (obs' \cup marked') = {}
  PROVE  /\ TreeKept'
         /\ \A C, D : Recoverable(C, D) => Recoverable(C, D)'
<1>1. Root' = Root /\ Tree0' = Tree0
  BY SameSaved DEF SameTree
<1>2. GoodTree(saved.pages, Root)'
  <2>1. PICK P, r : P = saved.pages /\ r = Root
    OBVIOUS
  <2>2. GoodTree(P, r)
    BY <2>1 DEF TreeKept
  <2> QED  BY <1>1, <2>1, <2>2, GoodTreeNext
<1>3. TreeKept'
  BY <1>1, <1>2 DEF TreeKept, PagesKept
<1>4. \A C, D : Recoverable(C, D) => Recoverable(C, D)'
  BY <1>1 DEF Recoverable, Closed
<1> QED  BY <1>3, <1>4

LEMMA OwnersKept ==
  ASSUME NEW own, NEW own2, NEW w \in Tids, Owners(own), OwnChain(own2, w)',
         \A u \in Tids \ {w} :
           /\ own2[u] = own[u] /\ tr'[u] = tr[u] /\ intent'[u] = intent[u]
           /\ PagesKept(own[u]) /\ own2[w] \cap own[u] = {}
           /\ DOMAIN intent'[w] \cap DOMAIN intent[u] = {}
  PROVE  Owners(own2)'
<1>1. \A u \in Tids : OwnChain(own2, u)'
  <2>1. ASSUME NEW u \in Tids \ {w}
        PROVE  OwnChain(own2, u)'
    <3>1. OwnChain(own, u)
      BY DEF Owners
    <3> QED  BY <3>1 DEF OwnChain, PagesKept
  <2> QED  BY <2>1
<1>2. \A t, u \in Tids : t # u => /\ own2[t] \cap own2[u] = {}
                                  /\ DOMAIN intent'[t] \cap DOMAIN intent'[u] = {}
  <2>1. SUFFICES ASSUME NEW t \in Tids, NEW u \in Tids, t # u
                 PROVE  /\ own2[t] \cap own2[u] = {}
                        /\ DOMAIN intent'[t] \cap DOMAIN intent'[u] = {}
    OBVIOUS
  <2>2. CASE t = w
    BY <2>1, <2>2
  <2>3. CASE u = w
    BY <2>1, <2>3
  <2>4. CASE t # w /\ u # w
    BY <2>1, <2>4 DEF Owners
  <2> QED  BY <2>2, <2>3, <2>4
<1> QED  BY <1>1, <1>2 DEF Owners

(* A step of the running transaction.                                      *)
LEMMA Settle ==
  ASSUME NEW own \in Owned, NEW vw \in Owned,
         NEW own2 \in Owned, NEW vw2 \in Owned,
         NEW A2 \in Seq(Ops), NEW X2 \in Seq(Ops), NEW m2 \in Seq(Ops),
         NEW C \in AddrSets, NEW D \in AddrSets,
         Direct, TypeInv, TreeKept, Owners(own), T \in Tids,
         \A u \in Tids \ {T} : /\ Stable(own, vw, u) /\ obs' \cap own[u] \subseteq obs
                               /\ LeavesAlone(own, own2, vw, vw2, u),
         call'.tid = call.tid, TypeInv', TreeKept', Recoverable(C, D)',
         OwnChain(own2, T)', \A u \in Tids \ {T} : own2[T] \cap own[u] = {},
         DOMAIN intent'[T] \subseteq DOMAIN intent[T],
         todo' = A2 \o (X2 \o m2), IsAbort(A2), A2 # <<>> => ~ InWindow(m2)',
         \A t \in Tids : Dying(A2, t) => own2[t] \cap Tree0' = {},
         FsOK(m2)', VotsBound(A2, X2)', MineOK(own2, vw2, A2, X2, m2)'
  PROVE  TransInv'
<1>1. T' = T /\ T' \in Tids
  BY DEF T
<1>2. Owners(own2)'
  <2>1. PICK w \in Tids : w = T /\ w = T'
    BY <1>1
  <2>2. OwnChain(own2, w)'
    BY <2>1 DEF OwnChain
  <2>3. \A u \in Tids \ {w} :
           /\ own2[u] = own[u] /\ tr'[u] = tr[u] /\ intent'[u] = intent[u]
           /\ PagesKept(own[u]) /\ own2[w] \cap own[u] = {}
           /\ DOMAIN intent'[w] \cap DOMAIN intent[u] = {}
    BY <2>1 DEF LeavesAlone, Owners
  <2> QED  BY <2>2, <2>3, OwnersKept
<1>3. OthersOK(own2, vw2, A2)'
  <2>1. ASSUME NEW u \in Tids \ {T}
        PROVE  Stable(own2, vw2, u)'
    BY <2>1, StableKept
  <2> QED  BY <1>1, <2>1 DEF OthersOK
<1>4. Shape(A2, X2, m2)'
  BY <1>1 DEF Shape
<1>5. Running(own2, vw2, A2, X2, m2)'
  BY <1>1, <1>2, <1>3, <1>4 DEF Running
<1> QED  BY <1>5 DEF TransInv

-----------------------------------------------------------------------------
(* Steps of the program of a call, before it is committed.                 *)

MainOps ==
  {"commitInode", "votNode", "writeActive", "keepInode", "loadInode0", "writeInode0",
   "newInode0", "lastVots", "setFs", "turnToDir", "seek", "load", "writeData"}

LEMMA MainTodo ==
  ASSUME Direct, TransInv, todo # <<>>, Op.op \in MainOps
  PROVE  \E own, vw \in Owned, m \in Seq(Ops), C, D \in AddrSets :
           /\ Running(own, vw, <<>>, <<>>, m) /\ UncommittedPhase(own, vw, <<>>, m)
           /\ T \in Tids /\ Recoverable(C, D)
           /\ todo = m /\ m # <<>> /\ Op = Head(m) /\ Rest = Tail(m)
           /\ TypeInv /\ TreeKept /\ FsOK(m) /\ MainPhase(own, vw, m)
<1>1. PICK C \in AddrSets, D \in AddrSets : Recoverable(C, D)
  BY DEF TransInv
<1>2. CASE \E own, vw \in Owned, A, X, m \in Seq(Ops) : Running(own, vw, A, X, m)
  <2>1. PICK own \in Owned, vw \in Owned, A \in Seq(Ops), X \in Seq(Ops), m \in Seq(Ops) :
          Running(own, vw, A, X, m)
    BY <1>2
  <2>2. /\ A = <<>> /\ X = <<>> /\ UncommittedPhase(own, vw, X, m) /\ T \in Tids
        /\ todo = m /\ m # <<>> /\ Op = Head(m) /\ Rest = Tail(m)
    BY <2>1, RunningHead DEF MainOps
  <2>3. TypeInv /\ TreeKept /\ FsOK(m) /\ MainPhase(own, vw, m)
    BY <2>1, <2>2 DEF TransInv, Running, UncommittedPhase
  <2> QED  BY <1>1, <2>1, <2>2, <2>3
<1>3. CASE \E C2, D2 \in AddrSets, Y \in Seq(Ops) : BootingFrom(C2, D2, Y)
  <2>1. PICK C2 \in AddrSets, D2 \in AddrSets, Y \in Seq(Ops) : BootingFrom(C2, D2, Y)
    BY <1>3
  <2> QED  BY <2>1, BootHead DEF MainOps
<1> QED  BY <1>2, <1>3 DEF TransInv

(* A step before the commit, of the running transaction alone.             *)
LEMMA MainStep ==
  ASSUME NEW own \in Owned, NEW vw \in Owned, NEW own2 \in Owned, NEW vw2 \in Owned,
         NEW X \in Seq(Ops), NEW m \in Seq(Ops),
         NEW A2 \in {<<>>, <<Todo("find")>>}, NEW X2 \in Seq(Ops), NEW m2 \in Seq(Ops),
         NEW C \in AddrSets, NEW D \in AddrSets,
         Direct, TypeInv, TreeKept, Recoverable(C, D), T \in Tids,
         Running(own, vw, <<>>, X, m), UncommittedPhase(own, vw, X, m),
         UNCHANGED <<saved, marked, intent>>, call'.tid = call.tid, obs' \subseteq obs,
         \A u \in Tids : PagesKept(own[u]),
         \A u \in Tids \ {T} : /\ tr'[u] = tr[u] /\ vw2[u] = vw[u] /\ own2[u] = own[u]
                               /\ own2[T] \cap own[u] = {},
         pages' \in [Addr -> PageSet], fs' \in FsSet, tr' \in [Tids -> TrSet],
         call' \in CallSet, todo' \in Seq(Ops),
         todo' = A2 \o (X2 \o m2), FsOK(m2)', A2 # <<>> => ~ InWindow(m2)',
         OwnChain(own2, T)', LiveOwn(own2, T)', Votes(own2, vw2, T)',
         Len(tr'[T].vots) <= VotsPerPage,
         Len(tr'[T].vots) = VotsPerPage => X2 # <<>> /\ Head(X2).op = "votsPage",
         MainPhase(own2, vw2, m2)', Between(own2, vw2, X2)',
         m2 \in {kLast, kSetFs, kCp} => X2 = <<>>
  PROVE  TransInv'
<1>1. Todo("find") \in Ops /\ Todo("find").op = "find"
  BY AllTodos
<1>2. A2 \in Seq(Ops) /\ IsAbort(A2) /\ \A u \in Tids : ~ Dying(A2, u)
  BY <1>1 DEF IsAbort, Dying, AbortTails
<1>3. TypeInv'
  BY DEF TypeInv
<1>4. TreeKept' /\ Recoverable(C, D)'
  <2>1. PagesKept({}) /\ Tree0 \cap (obs' \cup marked') = {}
    BY DEF PagesKept, TreeKept
  <2> QED  BY <2>1, FlashKept
<1>5. SameTree
  BY SameSaved
<1>6. \A u \in Tids \ {T} : /\ Stable(own, vw, u) /\ obs' \cap own[u] \subseteq obs
                            /\ LeavesAlone(own, own2, vw, vw2, u)
  <2>1. \A u \in Tids \ {T} : Stable(own, vw, u)
    BY DEF Running, OthersOK, Dying
  <2> QED  BY <1>5, <2>1 DEF LeavesAlone
<1>7. UncommittedPhase(own2, vw2, X2, m2)'
  BY DEF UncommittedPhase
<1>8. MineOK(own2, vw2, A2, X2, m2)'
  <2>1. ~ Dying(A2, T')
    BY <1>2 DEF T
  <2> QED  BY <1>7, <2>1 DEF MineOK, Dying
<1>9. VotsBound(A2, X2)'
  <2>1. \A u \in Tids \ {T} : Len(tr[u].vots) <= VotsPerPage /\ Len(tr[u].vots) # VotsPerPage
    <3>1. \A u \in Tids : ~ Dying(<<>>, u)
      BY DEF Dying
    <3> QED  BY <3>1 DEF Running, VotsBound
  <2>2. T' = T
    BY DEF T
  <2> QED  BY <2>1, <2>2 DEF VotsBound
<1>10. DOMAIN intent'[T] \subseteq DOMAIN intent[T] /\ Owners(own)
  BY DEF Running
<1>11. \A t \in Tids : Dying(A2, t) => own2[t] \cap Tree0' = {}
  BY <1>2
<1>12. A2 \in Seq(Ops) /\ IsAbort(A2)
  BY <1>2
<1>13. \A u \in Tids \ {T} : own2[T] \cap own[u] = {}
  OBVIOUS
<1> QED  BY <1>3, <1>4, <1>6, <1>8, <1>9, <1>10, <1>11, <1>12, <1>13, Settle

(* A step that changes no page.                                            *)
LEMMA QuietMain ==
  ASSUME NEW own \in Owned, NEW vw \in Owned, NEW vw2 \in Owned, NEW X \in Seq(Ops),
         NEW X2 \in Seq(Ops), NEW m \in Seq(Ops), NEW m2 \in Seq(Ops),
         NEW C \in AddrSets, NEW D \in AddrSets,
         Direct, TypeInv, TreeKept, Recoverable(C, D), T \in Tids,
         Running(own, vw, <<>>, X, m), UncommittedPhase(own, vw, X, m),
         UNCHANGED <<pages, obs, saved, marked, intent>>, call'.tid = call.tid,
         \A u \in Tids \ {T} : tr'[u] = tr[u] /\ vw2[u] = vw[u],
         tr'[T].prev \in own[T] \cup {EMPTY},
         fs' \in FsSet, tr' \in [Tids -> TrSet], call' \in CallSet,
         todo' = X2 \o m2, FsOK(m2)',
         vw[T] \subseteq vw2[T], vw2[T] \subseteq MayVote(own, T),
         \A i \in 1 .. Len(tr'[T].vots) : tr'[T].vots[i] \in vw2[T],
         Len(tr'[T].vots) <= VotsPerPage,
         Len(tr'[T].vots) = VotsPerPage => X2 # <<>> /\ Head(X2).op = "votsPage",
         MainPhase(own, vw2, m2)', Between(own, vw2, X2)',
         m2 \in {kLast, kSetFs, kCp} => X2 = <<>>
  PROVE  TransInv'
<1>1. todo' \in Seq(Ops) /\ todo' = <<>> \o (X2 \o m2)
  <2>1. X2 \o m2 \in Seq(Ops)
    BY Cat
  <2>2. <<>> \in Seq(Ops)
    OBVIOUS
  <2> QED  BY <2>1, <2>2, Cat
<1>2. SameTree
  BY SameSaved
<1>3. OwnChain(own, T)'
  <2>1. OwnChain(own, T)
    BY DEF Running, Owners
  <2> QED  BY <2>1 DEF OwnChain, T
<1>4. PICK t \in Tids : t = T /\ t = T'
  BY DEF T
<1>5. LiveOwn(own, t)' /\ Votes(own, vw2, t)'
  <2>1. LiveOwn(own, t) /\ Votes(own, vw, t)
    BY <1>4 DEF UncommittedPhase
  <2>2. LiveOwn(own, t)'
    BY <1>2, <2>1 DEF LiveOwn, SameTree
  <2>3. vw2[t] \subseteq MayVote(own, t)'
    BY <1>2, <1>4, MayVoteKept
  <2>4. Votes(own, vw2, t)'
    BY <1>2, <1>4, <2>1, <2>3, VotesKept DEF PagesKept
  <2> QED  BY <2>2, <2>4
<1>6. LiveOwn(own, T)' /\ Votes(own, vw2, T)'
  BY <1>4, <1>5, AtT
<1>7. \A u \in Tids : PagesKept(own[u])
  BY DEF PagesKept
<1>8. pages' \in [Addr -> PageSet]
  BY DEF TypeInv
<1>9. \A u \in Tids \ {T} : /\ tr'[u] = tr[u] /\ vw2[u] = vw[u] /\ own[u] = own[u]
                            /\ own[T] \cap own[u] = {}
  BY DEF Running, Owners
<1>10. <<>> \in {<<>>, <<Todo("find")>>}
  OBVIOUS
<1> QED  BY <1>1, <1>3, <1>6, <1>7, <1>8, <1>9, <1>10, MainStep

(* A step that neither votes nor changes a page.                           *)
LEMMA StepMain ==
  ASSUME NEW own \in Owned, NEW vw \in Owned, NEW m \in Seq(Ops), NEW m2 \in Seq(Ops),
         NEW C \in AddrSets, NEW D \in AddrSets,
         Direct, TypeInv, TreeKept, Recoverable(C, D), T \in Tids,
         Running(own, vw, <<>>, <<>>, m), UncommittedPhase(own, vw, <<>>, m),
         UNCHANGED <<pages, obs, saved, marked, intent>>, call'.tid = call.tid,
         \A u \in Tids \ {T} : tr'[u] = tr[u],
         tr'[T].prev = tr[T].prev, tr'[T].vots = tr[T].vots,
         fs' \in FsSet, tr' \in [Tids -> TrSet], call' \in CallSet,
         todo' = m2, FsOK(m2)', MainPhase(own, vw, m2)'
  PROVE  TransInv'
<1>1. Votes(own, vw, T)
  BY DEF UncommittedPhase
<1>2. \A u \in Tids \ {T} : tr'[u] = tr[u] /\ vw[u] = vw[u]
  OBVIOUS
<1>3. Len(tr'[T].vots) <= VotsPerPage /\ Len(tr'[T].vots) # VotsPerPage
  <2>1. VotsBound(<<>>, <<>>) /\ ~ Dying(<<>>, T)
    BY DEF Running, Dying
  <2> QED  BY <2>1 DEF VotsBound
<1>4. Between(own, vw, <<>>)'
  BY DEF Between
<1>5. <<>> \in Seq(Ops) /\ todo' = <<>> \o m2
  BY Cat
<1>6. \A i \in 1 .. Len(tr'[T].vots) : tr'[T].vots[i] \in vw[T]
  BY <1>1 DEF Votes, VotsOf
<1>7. tr'[T].prev \in own[T] \cup {EMPTY}
  BY DEF Running, Owners, OwnChain
<1> QED  BY <1>1, <1>2, <1>3, <1>4, <1>5, <1>6, <1>7, QuietMain DEF Votes

(* A step that only changes what is done next.                             *)
LEMMA TodoMain ==
  ASSUME NEW own \in Owned, NEW vw \in Owned, NEW m \in Seq(Ops), NEW m2 \in Seq(Ops),
         NEW C \in AddrSets, NEW D \in AddrSets,
         Direct, TypeInv, TreeKept, Recoverable(C, D), T \in Tids,
         Running(own, vw, <<>>, <<>>, m), UncommittedPhase(own, vw, <<>>, m),
         UNCHANGED <<pages, obs, saved, marked, intent, fs, tr, call>>,
         todo' = m2, FsOK(m2), MainPhase(own, vw, m2)
  PROVE  TransInv'
<1>1. Votes(own, vw, T)
  BY DEF UncommittedPhase
<1>2. PICK t \in Tids : t = T /\ t = T'
  BY DEF T
<1>3. SameTree
  BY SameSaved
<1>4. Votes(own, vw, T)'
  <2>1. Votes(own, vw, t)
    BY <1>1, <1>2
  <2>2. Votes(own, vw, t)'
    <3>1. vw[t] \subseteq MayVote(own, t)'
      BY <1>3, <2>1, MayVoteKept DEF Votes
    <3>2. \A i \in 1 .. Len(tr'[t].vots) : tr'[t].vots[i] \in vw[t]
      BY <2>1 DEF Votes, VotsOf
    <3> QED  BY <1>3, <2>1, <3>1, <3>2, VotesKept DEF PagesKept
  <2> QED  BY <1>2, <2>2, AtT
<1>5. Keeps(own, own, vw, vw, EMPTY) /\ SameFile(T)
  BY <1>3 DEF Keeps, SameFile, PagesKept
<1>6. MainPhase(own, vw, m2)'
  BY <1>4, <1>5, MainPhaseKept
<1>7. FsOK(m2)'
  BY <1>3 DEF FsOK, InWindow, SameTree, T
<1>8. fs' \in FsSet /\ tr' \in [Tids -> TrSet] /\ call' \in CallSet
  BY DEF TypeInv
<1> QED  BY <1>6, <1>7, <1>8, StepMain

LEMMA FsMove ==
  ASSUME NEW m, NEW m2, FsOK(m), Head(m).op \in MainOps \ {"lastVots", "setFs"}
  PROVE  /\ fs.ino0 = Root /\ fs.closed = EMPTY /\ ~ InWindow(m)
         /\ ~ InWindow(m2) => FsOK(m2)
<1>1. ~ InWindow(m)
  BY WindowFacts DEF MainOps
<1>2. fs.closed = EMPTY
  BY ClosedFacts DEF MainOps
<1> QED  BY <1>1, <1>2 DEF FsOK, InWindow

LEMMA CommitInodeOpStep ==
  ASSUME Direct, TransInv, CommitInodeOp
  PROVE  TransInv'
<1>1. todo # <<>> /\ Op.op = "commitInode" /\ "commitInode" \in MainOps
  BY DEF CommitInodeOp, Doing, MainOps
<1>2. PICK own \in Owned, vw \in Owned, m \in Seq(Ops), C \in AddrSets, D \in AddrSets :
           /\ Running(own, vw, <<>>, <<>>, m) /\ UncommittedPhase(own, vw, <<>>, m)
           /\ T \in Tids /\ Recoverable(C, D)
           /\ todo = m /\ m # <<>> /\ Op = Head(m) /\ Rest = Tail(m)
  BY <1>1, MainTodo
<1>3. PassPhase(own, vw, m)
  BY <1>1, <1>2, MainHead DEF UncommittedPhase
<1>4. PICK f \in Inodes, k \in Seq(Ops) :
        Pass(vw, f, k) /\ m = kCommit(f, k) /\ CommitInodePhase(own, vw, f, k, m)
  BY <1>1, <1>2, <1>3, PassOp
<1>5. CommitInodePhase(own, vw, f, k, kVotI(f, k))
  BY <1>4 DEF CommitInodePhase
<1>6. MainPhase(own, vw, kVotI(f, k))
  BY <1>4, <1>5 DEF MainPhase, PassPhase
<1>7. todo' = kVotI(f, k) /\ kVotI(f, k) \in Seq(Ops)
  <2>1. tr[T].node = "inode"
    BY <1>4 DEF CommitInodePhase
  <2>2. Rest = kKeep(f, k) /\ kKeep(f, k) \in Seq(Ops)
    BY <1>2, <1>4, PassFacts
  <2>3. commitInode("inode") = <<Do("votNode", "inode", EMPTY), Do("writeActive", "inode", EMPTY)>>
    BY DEF commitInode
  <2>4. Do("votNode", "inode", EMPTY) \in Ops /\ Do("writeActive", "inode", EMPTY) \in Ops
    <3>1. /\ {"votNode", "writeActive"} \subseteq OpNames
          /\ "inode" \in Names /\ EMPTY \in Args
      BY DEF OpNames, Names, Args, Addr0, Direct
    <3> QED  BY <3>1, DoFacts
  <2>5. todo' = commitInode("inode") \o kKeep(f, k)
    BY <2>1, <2>2 DEF CommitInodeOp
  <2>6. kVotI(f, k) \in Seq(Ops)
    BY PassFacts
  <2>7. kVotI(f, k) = Then(Do("votNode", "inode", EMPTY),
                           Then(Do("writeActive", "inode", EMPTY), kKeep(f, k)))
    BY DEF kVotI, kActive
  <2>8. todo' = Then(Do("votNode", "inode", EMPTY),
                     Then(Do("writeActive", "inode", EMPTY), kKeep(f, k)))
    <3>1. PICK x \in Ops, y \in Ops : x = Do("votNode", "inode", EMPTY)
                                   /\ y = Do("writeActive", "inode", EMPTY)
      BY <2>4
    <3>2. <<x, y>> \o kKeep(f, k) = Then(x, Then(y, kKeep(f, k)))
      BY <2>2, TwoThen
    <3> QED  BY <2>3, <2>5, <3>1, <3>2
  <2> QED  BY <2>6, <2>7, <2>8
<1>8. FsOK(kVotI(f, k))
  <2>1. Head(kVotI(f, k)).op = "votNode"
    BY PassFacts DEF Do
  <2>2. ~ InWindow(kVotI(f, k))
    BY <2>1, WindowFacts
  <2> QED  BY <1>1, <1>2, <2>2, FsMove DEF Running, MainOps
<1>9. UNCHANGED <<pages, obs, saved, marked, intent, fs, tr, call>>
  BY DEF CommitInodeOp, Kept, flashVars
<1>10. TypeInv /\ TreeKept
  BY DEF TransInv
<1> QED  BY <1>2, <1>6, <1>7, <1>8, <1>9, <1>10, TodoMain

LEMMA SeekStep ==
  ASSUME Direct, TransInv, Seek
  PROVE  TransInv'
<1>1. todo # <<>> /\ Op.op = "seek" /\ "seek" \in MainOps
  BY DEF Seek, Doing, MainOps
<1>2. PICK own \in Owned, vw \in Owned, m \in Seq(Ops), C \in AddrSets, D \in AddrSets :
           /\ Running(own, vw, <<>>, <<>>, m) /\ UncommittedPhase(own, vw, <<>>, m)
           /\ T \in Tids /\ Recoverable(C, D)
           /\ todo = m /\ m # <<>> /\ Op = Head(m) /\ Rest = Tail(m)
  BY <1>1, MainTodo
<1>3. WritePhase(own, vw, m)
  BY <1>1, <1>2, MainHead DEF UncommittedPhase
<1>4. PICK b \in Blocks, e \in Values, k \in Seq(Ops) :
           /\ m = kSeek(b, e, k)
           /\ WriteOf(own, vw, k) /\ OpenFile(own, vw, T)
           /\ intent[T][tr[T].ino] = [ContOf(pages, PtrsNow(T)) EXCEPT ![b] = e]
  <2>1. Head(m).op = "seek"
    BY <1>1, <1>2
  <2>2. PICK b \in Blocks, e \in Values, k \in Seq(Ops) :
           /\ Head(m).op = "seek" => m = kSeek(b, e, k)
           /\ WriteOf(own, vw, k) /\ OpenFile(own, vw, T)
           /\ intent[T][tr[T].ino] = [ContOf(pages, PtrsNow(T)) EXCEPT ![b] = e]
    BY <1>3, WriteOp
  <2> QED  BY <2>1, <2>2
<1>5. /\ Rest = kData(b, e, k) /\ Op = Do("seek", b, EMPTY) /\ Op.x = b
      /\ kData(b, e, k) \in Seq(Ops) /\ kLoad(b, e, k) \in Seq(Ops)
  BY <1>2, <1>4, DataFacts DEF Do
<1>6. Parent[b] = "inode" /\ tr[T].node \in {"none", "inode"}
  BY <1>2, DirectFacts DEF TransInv, TypeInv, TrSet
<1>7. UNCHANGED <<pages, obs, saved, marked, intent, fs, tr, call>>
  BY DEF Seek, Kept, flashVars
<1>8. TypeInv /\ TreeKept /\ FsOK(m)
  BY <1>2 DEF TransInv, Running
<1>9. CASE tr[T].node = "inode"
  <2>1. todo' = kData(b, e, k)
    BY <1>5, <1>6, <1>9 DEF Seek
  <2>2. MainPhase(own, vw, kData(b, e, k))
    BY <1>4, <1>9 DEF MainPhase, WritePhase
  <2>3. FsOK(kData(b, e, k))
    BY <1>1, <1>2, <1>8, FsMove, WindowFacts, DataHeads DEF MainOps
  <2> QED  BY <1>2, <1>5, <1>7, <1>8, <2>1, <2>2, <2>3, TodoMain
<1>10. CASE tr[T].node = "none"
  <2>1. todo' = kLoad(b, e, k)
    <3>1. commitInode("none") = <<>>
      BY DEF commitInode
    <3>2. Do("load", b, EMPTY) \in Ops
      <4>1. "load" \in OpNames /\ b \in Names /\ EMPTY \in Args
        BY DEF OpNames, Names, Args, Addr0
      <4> QED  BY <4>1, DoFacts
    <3>3. <<Do("load", b, EMPTY)>> \o kData(b, e, k) = kLoad(b, e, k)
      BY DEF kLoad, Then
    <3>4. todo' = commitInode("none") \o <<Do("load", b, EMPTY)>> \o Rest
      BY <1>5, <1>6, <1>10 DEF Seek
    <3>5. <<>> \o <<Do("load", b, EMPTY)>> = <<Do("load", b, EMPTY)>>
      BY <3>2, Cat
    <3> QED  BY <1>5, <3>1, <3>3, <3>4, <3>5
  <2>2. MainPhase(own, vw, kLoad(b, e, k))
    BY <1>4, <1>10 DEF MainPhase, WritePhase
  <2>3. FsOK(kLoad(b, e, k))
    BY <1>1, <1>2, <1>8, FsMove, WindowFacts, DataHeads DEF MainOps
  <2> QED  BY <1>2, <1>5, <1>7, <1>8, <2>1, <2>2, <2>3, TodoMain
<1> QED  BY <1>6, <1>9, <1>10

(* The program goes on outside the window of a commit.                     *)
LEMMA FsQuiet ==
  ASSUME NEW m2, fs'.ino0 = Root', fs'.closed = EMPTY,
         Head(m2).op \notin {"checkpoint", "lastVots", "setFs"}
  PROVE  FsOK(m2)'
<1>1. m2 \notin {kCp, kLast, kSetFs}
  BY EndHeads
<1> QED  BY <1>1 DEF FsOK, InWindow

LEMMA PassSame ==
  ASSUME NEW own, NEW own2, NEW vw, NEW vw2, NEW f \in Inodes, NEW k,
         TypeInv, TreeKept, Keeps(own, own2, vw, vw2, EMPTY), Pass(vw, f, k)
  PROVE  Pass(vw2, f, k)' /\ (call.file \in Inodes \/ f # Dir) /\ NotData(EMPTY)
<1>1. EMPTY \notin Pages0(Dir)
  BY TreeFacts, AddrFacts DEF Inodes
<1> QED  BY <1>1, PassKept, PassInfo DEF NotData

LEMMA KeepsMain ==
  ASSUME NEW own, NEW vw, UNCHANGED <<saved, pages, intent>>,
         call'.tid = call.tid, call'.file = call.file, call'.own = call.own
  PROVE  Keeps(own, own, vw, vw, EMPTY)
BY SameSaved DEF Keeps, PagesKept

LEMMA KeepInodeStep ==
  ASSUME Direct, TransInv, KeepInode
  PROVE  TransInv'
<1>1. todo # <<>> /\ Op.op = "keepInode" /\ "keepInode" \in MainOps
  BY DEF KeepInode, Doing, MainOps
<1>2. PICK own \in Owned, vw \in Owned, m \in Seq(Ops), C \in AddrSets, D \in AddrSets :
           /\ Running(own, vw, <<>>, <<>>, m) /\ UncommittedPhase(own, vw, <<>>, m)
           /\ T \in Tids /\ Recoverable(C, D)
           /\ todo = m /\ m # <<>> /\ Op = Head(m) /\ Rest = Tail(m)
           /\ TypeInv /\ TreeKept /\ FsOK(m) /\ MainPhase(own, vw, m)
  BY <1>1, MainTodo
<1>3. PassPhase(own, vw, m)
  BY <1>1, <1>2, MainHead
<1>4. PICK f \in Inodes, k \in Seq(Ops) :
        Pass(vw, f, k) /\ m = kKeep(f, k) /\ KeepPhase(own, vw, f, k, m)
  BY <1>1, <1>2, <1>3, PassOp
<1>5. /\ UNCHANGED <<pages, obs, saved, marked, intent, fs, tr>> /\ todo' = kLoadZ(f, k)
      /\ kLoadZ(f, k) \in Seq(Ops) /\ Head(kLoadZ(f, k)).op = "loadInode0"
  <2>1. Rest = kLoadZ(f, k) /\ kLoadZ(f, k) \in Seq(Ops)
    BY <1>2, <1>4, PassFacts
  <2>2. Head(kLoadZ(f, k)).op = "loadInode0"
    BY OpOfDo, PassFacts
  <2> QED  BY <2>1, <2>2 DEF KeepInode, Kept, flashVars
<1>6. /\ call' \in CallSet /\ call'.inode = tr[T].inoAddr /\ call'.ino0 = call.ino0
      /\ call'.tid = call.tid /\ call'.file = call.file /\ call'.own = call.own
  <2>1. tr[T].inoAddr \in Addr0
    BY <1>2 DEF TypeInv, TrSet
  <2> QED  BY <1>2, <2>1 DEF KeepInode, TypeInv, CallSet
<1>7. Keeps(own, own, vw, vw, EMPTY)
  BY <1>5, <1>6, KeepsMain
<1>8. Pass(vw, f, k)' /\ (call.file \in Inodes \/ f # Dir) /\ NotData(EMPTY)
  BY <1>2, <1>4, <1>7, PassSame
<1>9. LoadPhase(own, vw, f, k, kLoadZ(f, k))'
  <2>1. PICK ref, n, r : ref = pages[call.ino0].ref /\ n = tr[T].inoAddr /\ r = call.ino0
    OBVIOUS
  <2>2. Entered(own, vw, f, ref, n) /\ IsRoot(own, r)
    BY <1>4, <2>1 DEF KeepPhase
  <2>3. Entered(own, vw, f, ref, n)'
    BY <1>2, <1>7, <1>8, <2>2, EnteredKept
  <2>4. IsRoot(own, r)'
    BY <1>2, <1>7, <1>8, <2>2, RootsKept
  <2>5. ref = (pages[call.ino0].ref)' /\ n = call'.inode /\ r = call'.ino0
    BY <1>5, <1>6, <2>1
  <2> QED  BY <2>3, <2>4, <2>5 DEF LoadPhase, Entered, BaseRef, NewFile, IsRoot
<1>10. MainPhase(own, vw, kLoadZ(f, k))'
  BY <1>8, <1>9 DEF MainPhase, PassPhase
<1>11. FsOK(kLoadZ(f, k))'
  <2>1. fs.ino0 = Root /\ fs.closed = EMPTY /\ Root' = Root
    BY <1>1, <1>2, <1>5, FsMove DEF Root, MainOps
  <2> QED  BY <1>5, <2>1, FsQuiet
<1>12. fs' \in FsSet /\ tr' \in [Tids -> TrSet] /\ \A u \in Tids \ {T} : tr'[u] = tr[u]
  BY <1>2, <1>5 DEF TypeInv
<1> QED  BY <1>2, <1>5, <1>6, <1>10, <1>11, <1>12, StepMain

LEMMA LoadInode0Step ==
  ASSUME Direct, TransInv, LoadInode0
  PROVE  TransInv'
<1>1. todo # <<>> /\ Op.op = "loadInode0" /\ "loadInode0" \in MainOps
  BY DEF LoadInode0, Doing, MainOps
<1>2. PICK own \in Owned, vw \in Owned, m \in Seq(Ops), C \in AddrSets, D \in AddrSets :
           /\ Running(own, vw, <<>>, <<>>, m) /\ UncommittedPhase(own, vw, <<>>, m)
           /\ T \in Tids /\ Recoverable(C, D)
           /\ todo = m /\ m # <<>> /\ Op = Head(m) /\ Rest = Tail(m)
           /\ TypeInv /\ TreeKept /\ FsOK(m) /\ MainPhase(own, vw, m)
  BY <1>1, MainTodo
<1>3. PassPhase(own, vw, m)
  BY <1>1, <1>2, MainHead
<1>4. PICK f \in Inodes, k \in Seq(Ops) :
        Pass(vw, f, k) /\ m = kLoadZ(f, k) /\ LoadPhase(own, vw, f, k, m)
  BY <1>1, <1>2, <1>3, PassOp
<1>5. /\ UNCHANGED <<pages, obs, saved, marked, intent, fs, call>> /\ todo' = kVotZ(f, k)
      /\ kVotZ(f, k) \in Seq(Ops) /\ Head(kVotZ(f, k)).op = "votNode" /\ Op.x = f
  <2>1. Rest = kVotZ(f, k) /\ kVotZ(f, k) \in Seq(Ops)
    BY <1>2, <1>4, PassFacts
  <2>2. Head(kVotZ(f, k)).op = "votNode"
    BY OpOfDo, PassFacts
  <2>3. Op = Do("loadInode0", f, EMPTY)
    BY <1>2, <1>4, PassFacts
  <2> QED  BY <2>1, <2>2, <2>3 DEF LoadInode0, Kept, flashVars, Do
<1>6. PICK base, n : base = pages[call.ino0].ref /\ n = call.inode
  OBVIOUS
<1>7. /\ call.ino0 \in Addr /\ base \in [Inodes -> Addr0] /\ n \in Addr0
      /\ [base EXCEPT ![f] = n] \in [Inodes -> Addr0] /\ IsRoot(own, call.ino0)
      /\ Entered(own, vw, f, base, n)
  <2>1. IsRoot(own, call.ino0) /\ Entered(own, vw, f, base, n)
    BY <1>4, <1>6 DEF LoadPhase
  <2>2. call.ino0 \in Addr /\ pages[call.ino0].kind = "ino0"
    BY <1>2, <2>1, TreeFacts DEF IsRoot, Owned, AddrSets
  <2>3. pages \in [Addr -> PageSet]
    BY <1>2 DEF TypeInv
  <2>4. base \in [Inodes -> Addr0]
    BY <1>6, <2>2, <2>3, PageTypes
  <2>5. n \in Addr0
    BY <1>2, <1>6 DEF TypeInv, CallSet
  <2> QED  BY <2>1, <2>2, <2>4, <2>5
<1>8. /\ tr' \in [Tids -> TrSet] /\ tr'[T].vots = tr[T].vots /\ tr'[T].prev = tr[T].prev
      /\ tr'[T].inoAddr = call.ino0 /\ tr'[T].ptrs = [base EXCEPT ![f] = n]
      /\ \A u \in Tids \ {T} : tr'[u] = tr[u]
  <2>1. call.ino0 \in Addr0
    BY <1>7 DEF Addr0
  <2>2. tr' = [tr EXCEPT ![T].ino = "inode0", ![T].inoAddr = call.ino0,
              ![T].node = "inode", ![T].ptrs = [base EXCEPT ![f] = n]]
    BY <1>5, <1>6 DEF LoadInode0
  <2>3. tr \in [Tids -> TrSet] /\ T \in Tids
    BY <1>2 DEF TypeInv
  <2>4. PICK r : r = [tr[T] EXCEPT !.ino = "inode0", !.inoAddr = call.ino0,
                      !.node = "inode", !.ptrs = [base EXCEPT ![f] = n]]
    OBVIOUS
  <2>5. tr' = [tr EXCEPT ![T] = r]
    BY <2>2, <2>3, <2>4
  <2>6. r \in TrSet
    BY <1>7, <2>1, <2>3, <2>4 DEF TrSet
  <2>7. tr[T] \in TrSet
    BY <2>3
  <2>8. /\ r.vots = tr[T].vots /\ r.prev = tr[T].prev /\ r.inoAddr = call.ino0
        /\ r.ptrs = [base EXCEPT ![f] = n]
    BY <2>4, <2>7 DEF TrSet
  <2>9. tr' \in [Tids -> TrSet] /\ tr'[T] = r /\ \A u \in Tids \ {T} : tr'[u] = tr[u]
    BY <2>3, <2>5, <2>6
  <2> QED  BY <2>8, <2>9
<1>9. Keeps(own, own, vw, vw, EMPTY)
  BY <1>5, KeepsMain
<1>10. Pass(vw, f, k)' /\ (call.file \in Inodes \/ f # Dir) /\ NotData(EMPTY)
  BY <1>2, <1>4, <1>9, PassSame
<1>11. Inode0Phase(own, vw, f, k, kVotZ(f, k))'
  <2>1. PICK ref, r : ref = [base EXCEPT ![f] = n] /\ r = call.ino0
    OBVIOUS
  <2>2. NewRef(own, vw, f, ref) /\ IsRoot(own, r)
    BY <1>7, <2>1 DEF NewRef
  <2>3. NewRef(own, vw, f, ref)'
    BY <1>2, <1>9, <1>10, <2>2, NewRefKept
  <2>4. IsRoot(own, r)'
    BY <1>2, <1>9, <1>10, <2>2, RootsKept
  <2>5. ref = tr'[T'].ptrs /\ r = call'.ino0 /\ tr'[T'].inoAddr = r /\ T' = T
    BY <1>5, <1>8, <2>1 DEF T
  <2>6. NewRef(own, vw, f, tr[T].ptrs)'
    BY <2>3, <2>5 DEF NewRef
  <2>7. IsRoot(own, call.ino0)'
    BY <2>4, <2>5 DEF IsRoot
  <2> QED  BY <2>5, <2>6, <2>7 DEF Inode0Phase
<1>12. MainPhase(own, vw, kVotZ(f, k))'
  BY <1>10, <1>11 DEF MainPhase, PassPhase
<1>13. FsOK(kVotZ(f, k))'
  <2>1. fs.ino0 = Root /\ fs.closed = EMPTY /\ Root' = Root
    BY <1>1, <1>2, <1>5, FsMove DEF Root, MainOps
  <2> QED  BY <1>5, <2>1, FsQuiet
<1>14. fs' \in FsSet /\ call' \in CallSet /\ call'.tid = call.tid
  BY <1>2, <1>5 DEF TypeInv
<1> QED  BY <1>2, <1>5, <1>8, <1>12, <1>13, <1>14, StepMain

(* What follows writing a block.                                           *)
LEMMA WriteOfKept ==
  ASSUME NEW own, NEW own2, NEW vw, NEW vw2, NEW k, NEW v,
         TypeInv, TreeKept, Keeps(own, own2, vw, vw2, v),
         tr'[T].ino = tr[T].ino, call' = call, WriteOf(own, vw, k), v # Root
  PROVE  WriteOf(own2, vw2, k)'
<1>1. PICK t : t = T /\ t = T'
  BY DEF T
<1>2. CASE k = kRet /\ call.file = NoInode /\ OfFile(T) /\ Root \notin vw[T]
  <2>1. OfFile(T)' /\ Root' \notin vw2[T']
    BY <1>1, <1>2 DEF OfFile, Keeps, SameTree
  <2> QED  BY <1>2, <2>1 DEF WriteOf
<1>3. CASE k = kDirCommit /\ DirCommit /\ tr[T].ino = Dir /\ BaseOK(own, vw, Dir)
  <2>1. PICK r : r = call.ino0 /\ r = call'.ino0
    OBVIOUS
  <2>2. IsRoot(own, r) /\ BaseRef(own, vw, Dir, pages[r].ref)
    BY <1>3, <2>1 DEF BaseOK
  <2>3. call.file \in Inodes /\ Dir \in Inodes
    BY <1>3 DEF DirCommit, Inodes
  <2>4. IsRoot(own2, r)' /\ BaseRef(own2, vw2, Dir, pages[r].ref)'
    BY <2>2, <2>3, RootsKept
  <2>5. BaseOK(own2, vw2, Dir)'
    BY <2>1, <2>4 DEF BaseOK, IsRoot, BaseRef, NewFile
  <2>6. DirCommit'
    BY <1>3, CommitsKept DEF Keeps
  <2> QED  BY <1>1, <1>3, <2>5, <2>6 DEF WriteOf
<1> QED  BY <1>2, <1>3 DEF WriteOf

LEMMA LoadStep ==
  ASSUME Direct, TransInv, Load
  PROVE  TransInv'
<1>1. todo # <<>> /\ Op.op = "load" /\ "load" \in MainOps
  BY DEF Load, Doing, MainOps
<1>2. PICK own \in Owned, vw \in Owned, m \in Seq(Ops), C \in AddrSets, D \in AddrSets :
           /\ Running(own, vw, <<>>, <<>>, m) /\ UncommittedPhase(own, vw, <<>>, m)
           /\ T \in Tids /\ Recoverable(C, D)
           /\ todo = m /\ m # <<>> /\ Op = Head(m) /\ Rest = Tail(m)
           /\ TypeInv /\ TreeKept /\ FsOK(m) /\ MainPhase(own, vw, m)
  BY <1>1, MainTodo
<1>3. WritePhase(own, vw, m)
  BY <1>1, <1>2, MainHead
<1>4. PICK b \in Blocks, e \in Values, k \in Seq(Ops) :
           /\ m = kLoad(b, e, k) /\ tr[T].node = "none"
           /\ WriteOf(own, vw, k) /\ OpenFile(own, vw, T)
           /\ intent[T][tr[T].ino] = [ContOf(pages, PtrsNow(T)) EXCEPT ![b] = e]
  <2>1. Head(m).op = "load"
    BY <1>1, <1>2
  <2>2. PICK b \in Blocks, e \in Values, k \in Seq(Ops) :
          /\ \/ m = kSeek(b, e, k)
             \/ m = kLoad(b, e, k) /\ tr[T].node = "none"
             \/ m = kData(b, e, k) /\ tr[T].node = "inode"
          /\ WriteOf(own, vw, k) /\ OpenFile(own, vw, T)
          /\ intent[T][tr[T].ino] = [ContOf(pages, PtrsNow(T)) EXCEPT ![b] = e]
    BY <1>3 DEF WritePhase
  <2>3. Head(kData(b, e, k)).op = "writeData" /\ Head(kSeek(b, e, k)).op = "seek"
    BY DataHeads
  <2> QED  BY <2>1, <2>2, <2>3
<1>5. /\ Rest = kData(b, e, k) /\ Op.x = b /\ kData(b, e, k) \in Seq(Ops)
      /\ Head(kData(b, e, k)).op = "writeData" /\ Parent[b] = "inode"
  BY <1>2, <1>4, DataFacts, DataHeads, DirectFacts DEF Do
<1>6. /\ UNCHANGED <<pages, obs, saved, marked, intent, fs, call>> /\ todo' = kData(b, e, k)
  BY <1>5 DEF Load, Kept, flashVars
<1>7. PICK t \in Tids : t = T /\ t = T'
  BY <1>2, <1>6 DEF T
<1>8. PICK p, f : p = PtrsNow(T) /\ f = tr[T].ino
  OBVIOUS
<1>9. /\ p \in [Blocks -> Addr0] /\ f \in Inodes /\ Pointers(own, vw, t, p, f)
      /\ tr[t].inoAddr = Ref0[f]
  BY <1>2, <1>4, <1>7, <1>8, OpenFileFacts DEF OpenFile
<1>10. /\ tr' \in [Tids -> TrSet] /\ tr'[t].vots = tr[t].vots /\ tr'[t].prev = tr[t].prev
       /\ tr'[t].inoAddr = tr[t].inoAddr /\ tr'[t].ptrs = p /\ tr'[t].node = "inode"
       /\ tr'[t].ino = f /\ \A u \in Tids \ {t} : tr'[u] = tr[u]
  <2>1. AddrOf(pages, tr[T].inoAddr, "inode") = tr[T].inoAddr
    BY AddrOfInode
  <2>2. ReadNode(pages, tr[T].inoAddr, "inode") = p
    BY <1>4, <1>8 DEF PtrsNow
  <2>3. tr' = [tr EXCEPT ![t].node = "inode", ![t].ptrs = p]
    BY <1>5, <1>7, <2>1, <2>2 DEF Load
  <2>4. tr \in [Tids -> TrSet]
    BY <1>2 DEF TypeInv
  <2>5. PICK r : r = [tr[t] EXCEPT !.node = "inode", !.ptrs = p]
    OBVIOUS
  <2>6. tr' = [tr EXCEPT ![t] = r]
    BY <2>3, <2>4, <2>5
  <2>7. tr[t] \in TrSet
    BY <2>4
  <2>8. r \in TrSet
    BY <1>9, <2>5, <2>7 DEF TrSet
  <2>9. /\ r.vots = tr[t].vots /\ r.prev = tr[t].prev /\ r.inoAddr = tr[t].inoAddr
        /\ r.ptrs = p /\ r.node = "inode" /\ r.ino = tr[t].ino
    BY <2>5, <2>7 DEF TrSet
  <2> QED  BY <1>7, <1>8, <2>4, <2>6, <2>8, <2>9
<1>11. Keeps(own, own, vw, vw, EMPTY) /\ NotData(EMPTY) /\ SameTree
  BY <1>6, KeepsMain, SameSaved DEF NotData
<1>12. WriteOf(own, vw, k)'
  <2>1. EMPTY # Root
    BY <1>2, TreeFacts, AddrFacts
  <2> QED  BY <2>1, <1>2, <1>4, <1>6, <1>7, <1>8, <1>10, <1>11, WriteOfKept
<1>13. Pointers(own, vw, t, p, f)' /\ ContOf(pages, p)' = ContOf(pages, p)
  BY <1>2, <1>6, <1>9, <1>11, PointersKept DEF PagesKept
<1>14. p = PtrsNow(t)'
  BY <1>10 DEF PtrsNow
<1>15. OpenFile(own, vw, t)'
  BY <1>9, <1>10, <1>11, <1>13, <1>14 DEF OpenFile, Pointers, SameTree
<1>16. OpenFile(own, vw, T)'
  BY <1>7, <1>15, AtT
<1>17. intent'[T'][tr'[T'].ino] = [ContOf(pages, PtrsNow(T))' EXCEPT ![b] = e]
  <2>1. intent'[t][f] = [ContOf(pages, p) EXCEPT ![b] = e]
    BY <1>4, <1>6, <1>7, <1>8
  <2>2. ContOf(pages, p)' = ContOf(pages, PtrsNow(T))'
    BY <1>7, <1>14 DEF ContOf, PtrsNow, ReadNode
  <2> QED  BY <1>7, <1>10, <1>13, <2>1, <2>2
<1>18. MainPhase(own, vw, kData(b, e, k))'
  <2>1. tr'[T'].node = "inode"
    BY <1>7, <1>10
  <2>2. WritePhase(own, vw, kData(b, e, k))'
    BY <1>12, <1>16, <1>17, <2>1 DEF WritePhase
  <2> QED  BY <2>2 DEF MainPhase
<1>19. FsOK(kData(b, e, k))'
  <2>1. fs.ino0 = Root /\ fs.closed = EMPTY /\ Root' = Root
    BY <1>1, <1>2, <1>11, FsMove DEF SameTree, MainOps
  <2> QED  BY <1>5, <1>6, <2>1, FsQuiet
<1>20. fs' \in FsSet /\ call' \in CallSet /\ call'.tid = call.tid
  BY <1>2, <1>6 DEF TypeInv
<1> QED  BY <1>2, <1>5, <1>6, <1>7, <1>10, <1>18, <1>19, <1>20, StepMain

LEMMA NewInode0Step ==
  ASSUME Direct, TransInv, NewInode0
  PROVE  TransInv'
<1>1. todo # <<>> /\ Op.op = "newInode0" /\ "newInode0" \in MainOps
  BY DEF NewInode0, Doing, MainOps
<1>2. PICK own \in Owned, vw \in Owned, m \in Seq(Ops), C \in AddrSets, D \in AddrSets :
           /\ Running(own, vw, <<>>, <<>>, m) /\ UncommittedPhase(own, vw, <<>>, m)
           /\ T \in Tids /\ Recoverable(C, D)
           /\ todo = m /\ m # <<>> /\ Op = Head(m) /\ Rest = Tail(m)
           /\ TypeInv /\ TreeKept /\ FsOK(m) /\ MainPhase(own, vw, m)
  BY <1>1, MainTodo
<1>3. PassPhase(own, vw, m)
  BY <1>1, <1>2, MainHead
<1>4. PICK f \in Inodes, k \in Seq(Ops) : Pass(vw, f, k) /\ NewPhase(own, vw, f, k, m)
  BY <1>1, <1>2, <1>3, PassOp
<1>5. PICK a \in Addr : m = kNew(a, k) /\ NewRoot(own, vw, f, a)
  BY <1>4 DEF NewPhase
<1>6. /\ UNCHANGED <<pages, obs, saved, marked, intent, tr>> /\ todo' = k /\ Op.a = a
  <2>1. a \in Addr0
    BY DEF Addr0
  <2>2. Tail(m) = k /\ Head(m) = Do("newInode0", NoInode, a)
    BY <1>5, <2>1, NewFacts
  <2> QED  BY <1>2, <2>2 DEF NewInode0, Kept, flashVars, Do
<1>7. /\ call' \in CallSet /\ call'.ino0 = a
      /\ call'.tid = call.tid /\ call'.file = call.file /\ call'.own = call.own
  BY <1>2, <1>6 DEF NewInode0, TypeInv, CallSet, Addr0
<1>8. /\ fs' \in FsSet /\ fs'.closed = fs.closed
      /\ fs'.ino0 = IF call.own THEN a ELSE fs.ino0
  BY <1>2, <1>6 DEF NewInode0, TypeInv, FsSet
<1>9. Keeps(own, own, vw, vw, EMPTY)
  BY <1>6, <1>7, KeepsMain
<1>10. Pass(vw, f, k)' /\ (call.file \in Inodes \/ f # Dir) /\ NotData(EMPTY)
  BY <1>2, <1>4, <1>9, PassSame
<1>11. NewRoot(own, vw, f, call.ino0)'
  <2>1. NewRoot(own, vw, f, a)'
    BY <1>2, <1>5, <1>9, <1>10, RootsKept, AddrFacts
  <2> QED  BY <1>7, <2>1 DEF NewRoot
<1>12. fs.ino0 = Root /\ fs.closed = EMPTY /\ Root' = Root
  BY <1>1, <1>2, <1>6, FsMove DEF Root, MainOps
<1>13. tr' \in [Tids -> TrSet] /\ \A u \in Tids \ {T} : tr'[u] = tr[u]
  BY <1>2, <1>6 DEF TypeInv
<1>14. CASE k = kLast
  <2>1. LastPhase(own, vw, k)'
    BY <1>10, <1>11, <1>14 DEF LastPhase
  <2>2. MainPhase(own, vw, k)'
    BY <2>1 DEF MainPhase
  <2>3. FsOK(k)'
    BY <1>7, <1>8, <1>12, <1>14, EndHeads DEF FsOK, InWindow
  <2> QED  BY <1>2, <1>6, <1>7, <1>8, <1>13, <2>2, <2>3, StepMain
<1>15. ASSUME k # kLast
       PROVE  TransInv'
  <2>1. PICK e \in Values : k = kDir(e) /\ f = call'.file /\ DirCommit' /\ DirIntent(vw, e)'
    BY <1>10, <1>15 DEF Pass
  <2>2. TurnPhase(own, vw, k)'
    BY <1>11, <2>1 DEF TurnPhase, NewRoot, NewRef, Entered, BaseRef
  <2>3. MainPhase(own, vw, k)'
    BY <2>2 DEF MainPhase
  <2>4. ~ call.own /\ Head(k).op = "turnToDir"
    BY <1>7, <2>1, DirFacts DEF DirCommit, Do, Todo
  <2>5. FsOK(k)'
    BY <1>8, <1>12, <2>4, FsQuiet
  <2> QED  BY <1>2, <1>6, <1>7, <1>8, <1>13, <2>3, <2>5, StepMain
<1> QED  BY <1>14, <1>15

LEMMA TurnToDirStep ==
  ASSUME Direct, TransInv, TurnToDir
  PROVE  TransInv'
<1>1. todo # <<>> /\ Op.op = "turnToDir" /\ "turnToDir" \in MainOps
  BY DEF TurnToDir, Doing, MainOps
<1>2. PICK own \in Owned, vw \in Owned, m \in Seq(Ops), C \in AddrSets, D \in AddrSets :
           /\ Running(own, vw, <<>>, <<>>, m) /\ UncommittedPhase(own, vw, <<>>, m)
           /\ T \in Tids /\ Recoverable(C, D)
           /\ todo = m /\ m # <<>> /\ Op = Head(m) /\ Rest = Tail(m)
           /\ TypeInv /\ TreeKept /\ FsOK(m) /\ MainPhase(own, vw, m)
  BY <1>1, MainTodo
<1>3. TurnPhase(own, vw, m)
  BY <1>1, <1>2, MainHead
<1>4. PICK e \in Values : /\ m = kDir(e) /\ DirCommit /\ DirIntent(vw, e)
                          /\ NewRoot(own, vw, call.file, call.ino0)
  BY <1>3 DEF TurnPhase
<1>5. /\ "b0" \in Blocks /\ Dir \in Inodes /\ kDirCommit \in Seq(Ops)
      /\ kSeek("b0", e, kDirCommit) \in Seq(Ops)
      /\ Tail(m) = kSeek("b0", e, kDirCommit)
      /\ Head(kSeek("b0", e, kDirCommit)).op = "seek"
  <2>1. "b0" \in Blocks /\ Dir \in Inodes
    BY DirectFacts
  <2>2. kDirCommit \in Seq(Ops) /\ Tail(m) = kSeek("b0", e, kDirCommit)
    BY <1>4, DirFacts
  <2> QED  BY <2>1, <2>2, DataHeads
<1>6. /\ UNCHANGED <<pages, obs, saved, marked, intent, fs, call>>
      /\ todo' = kSeek("b0", e, kDirCommit)
  BY <1>2, <1>5 DEF TurnToDir, Kept, flashVars
<1>7. PICK t \in Tids : t = T /\ t = T'
  BY <1>2, <1>6 DEF T
<1>8. fs.ino0 = Root /\ fs.closed = EMPTY /\ SameTree
  BY <1>1, <1>2, <1>6, FsMove, SameSaved DEF MainOps
<1>9. PICK n : n = Ref0[Dir]
  OBVIOUS
<1>10. /\ n \in Addr0 /\ n # EMPTY /\ n \in Pages0(Dir) /\ pages[n].kind = "inode"
       /\ pages[n].ref \in [Blocks -> Addr0] /\ GoodFile(pages, n)
       /\ FilePages(pages, n) = Pages0(Dir) /\ ContOf(pages, pages[n].ref) = Cont0(Dir)
       /\ InodeAddr(pages, fs.ino0, Dir) = n
  <2>1. n \in Addr0 /\ n # EMPTY
    BY <1>2, <1>5, <1>9, TreeFacts
  <2>2. InodeAddr(pages, Root, Dir) = n
    BY <1>2, <1>9, TreeFacts, AddrFacts DEF InodeAddr, Pointed
  <2>3. FileCont(pages, n) = Cont0(Dir)
    BY <1>2, <1>5, <1>9, TreeFacts
  <2> QED  BY <1>2, <1>5, <1>8, <1>9, <2>1, <2>2, <2>3, TreeFacts DEF FileCont
<1>11. /\ tr' \in [Tids -> TrSet] /\ tr'[t].vots = tr[t].vots /\ tr'[t].prev = tr[t].prev
       /\ tr'[t].inoAddr = n /\ tr'[t].node = "none"
       /\ tr'[t].ino = Dir /\ \A u \in Tids \ {t} : tr'[u] = tr[u]
  <2>1. tr' = [tr EXCEPT ![t].ino = Dir, ![t].node = "none", ![t].inoAddr = n]
    BY <1>7, <1>10 DEF TurnToDir
  <2>2. tr \in [Tids -> TrSet]
    BY <1>2 DEF TypeInv
  <2>3. PICK r : r = [tr[t] EXCEPT !.ino = Dir, !.node = "none", !.inoAddr = n]
    OBVIOUS
  <2>4. tr' = [tr EXCEPT ![t] = r]
    BY <2>1, <2>2, <2>3
  <2>5. tr[t] \in TrSet
    BY <2>2
  <2>6. r \in TrSet
    BY <1>5, <1>10, <2>3, <2>5 DEF TrSet
  <2>7. /\ r.vots = tr[t].vots /\ r.prev = tr[t].prev /\ r.inoAddr = n
        /\ r.node = "none" /\ r.ino = Dir
    BY <2>3, <2>5 DEF TrSet
  <2> QED  BY <2>2, <2>4, <2>6, <2>7
<1>12. Keeps(own, own, vw, vw, EMPTY) /\ NotData(EMPTY)
  BY <1>6, KeepsMain DEF NotData
<1>13. PICK p : p = pages[n].ref
  OBVIOUS
<1>14. Pointers(own, vw, t, p, Dir)
  <2>1. \A b \in Blocks : p[b] # EMPTY => p[b] \in Pages0(Dir)
    BY <1>10, <1>13 DEF FilePages
  <2>2. vw[t] \cap Pages0(Dir) = {}
    BY <1>4, <1>7 DEF DirIntent
  <2> QED  BY <1>10, <1>13, <2>1, <2>2 DEF Pointers, GoodFile
<1>15. Pointers(own, vw, t, p, Dir)' /\ ContOf(pages, p)' = ContOf(pages, p)
  BY <1>2, <1>5, <1>6, <1>8, <1>12, <1>14, PointersKept DEF PagesKept
<1>16. p = PtrsNow(t)'
  BY <1>6, <1>10, <1>11, <1>13 DEF PtrsNow, ReadNode
<1>17. OpenFile(own, vw, t)'
  BY <1>5, <1>8, <1>9, <1>11, <1>15, <1>16 DEF OpenFile, Pointers, SameTree
<1>18. OpenFile(own, vw, T)'
  BY <1>7, <1>17, AtT
<1>19. WriteOf(own, vw, kDirCommit)'
  <2>1. DirCommit'
    BY <1>4, <1>6, CommitsKept
  <2>2. PICK r, g, ref : r = call.ino0 /\ r = call'.ino0 /\ g = call.file /\ g = call'.file
                         /\ ref = pages[r].ref /\ ref = pages'[r].ref
    BY <1>6
  <2>3. g \in Inodes /\ g # Dir
    BY <1>4, <2>2, TransactionsAssumption DEF DirCommit, Inodes
  <2>4. NewRoot(own, vw, g, r)
    BY <1>4, <2>2
  <2>5. NewRoot(own, vw, g, r)'
    <3>1. r # EMPTY
      BY <1>2, <1>7, <2>4, AddrFacts DEF NewRoot, Owned, AddrSets
    <3> QED  BY <1>2, <1>12, <2>2, <2>3, <2>4, <3>1, RootsKept
  <2>6. PICK base \in [Inodes -> Addr0], x \in Addr0 :
          ref = [base EXCEPT ![g] = x] /\ Entered(own, vw, g, base, x)'
    BY <2>2, <2>5 DEF NewRoot, NewRef
  <2>7. base = Ref0' /\ NewFile(own, vw, g, x)'
    BY <2>3, <2>6 DEF Entered, BaseRef
  <2>8. BaseRef(own, vw, Dir, ref)'
    <3>1. ref = [Ref0' EXCEPT ![call'.file] = x]
      BY <2>2, <2>6, <2>7
    <3>2. NewFile(own, vw, call.file, x)'
      BY <2>2, <2>7 DEF NewFile, Pointers
    <3> QED  BY <3>1, <3>2 DEF BaseRef
  <2>9. IsRoot(own, r)'
    BY <2>5 DEF NewRoot, IsRoot
  <2>10. BaseOK(own, vw, Dir)'
    BY <2>2, <2>8, <2>9 DEF BaseOK, BaseRef, NewFile, IsRoot
  <2> QED  BY <1>7, <1>11, <2>1, <2>10 DEF WriteOf
<1>20. intent'[T'][tr'[T'].ino] = [ContOf(pages, PtrsNow(T))' EXCEPT !["b0"] = e]
  <2>1. intent'[t][Dir] = [ContOf(pages, p) EXCEPT !["b0"] = e]
    BY <1>4, <1>6, <1>7, <1>10, <1>13 DEF DirIntent
  <2>2. ContOf(pages, p)' = ContOf(pages, PtrsNow(T))'
    BY <1>7, <1>16 DEF ContOf, PtrsNow, ReadNode
  <2> QED  BY <1>7, <1>11, <1>15, <2>1, <2>2
<1>21. MainPhase(own, vw, kSeek("b0", e, kDirCommit))'
  <2>1. WritePhase(own, vw, kSeek("b0", e, kDirCommit))'
    BY <1>5, <1>18, <1>19, <1>20 DEF WritePhase
  <2> QED  BY <2>1 DEF MainPhase
<1>22. FsOK(kSeek("b0", e, kDirCommit))'
  <2>1. Root' = Root
    BY <1>8 DEF SameTree
  <2> QED  BY <1>5, <1>6, <1>8, <2>1, FsQuiet
<1>23. fs' \in FsSet /\ call' \in CallSet /\ call'.tid = call.tid
  BY <1>2, <1>6 DEF TypeInv
<1> QED  BY <1>2, <1>5, <1>6, <1>7, <1>11, <1>21, <1>22, <1>23, StepMain

LEMMA SetFsStep ==
  ASSUME Direct, TransInv, SetFs
  PROVE  TransInv'
<1>1. todo # <<>> /\ Op.op = "setFs" /\ "setFs" \in MainOps
  BY DEF SetFs, Doing, MainOps
<1>2. PICK own \in Owned, vw \in Owned, m \in Seq(Ops), C \in AddrSets, D \in AddrSets :
           /\ Running(own, vw, <<>>, <<>>, m) /\ UncommittedPhase(own, vw, <<>>, m)
           /\ T \in Tids /\ Recoverable(C, D)
           /\ todo = m /\ m # <<>> /\ Op = Head(m) /\ Rest = Tail(m)
           /\ TypeInv /\ TreeKept /\ FsOK(m) /\ MainPhase(own, vw, m)
  BY <1>1, MainTodo
<1>3. m = kSetFs /\ LastPhase(own, vw, m)
  BY <1>1, <1>2, MainHead
<1>4. UNCHANGED <<pages, obs, saved, marked, intent, tr, call>> /\ todo' = kCp
  BY <1>2, <1>3, EndFacts DEF SetFs, Kept, flashVars
<1>5. PICK f \in Inodes : Pass(vw, f, kLast) /\ NewRoot(own, vw, f, call.ino0)
  BY <1>3 DEF LastPhase
<1>6. call.ino0 \in Addr /\ tr[T].prev \in Addr0
  BY <1>2, <1>5 DEF NewRoot, Owned, AddrSets, TypeInv, TrSet
<1>7. /\ fs' \in FsSet /\ fs'.closed = tr[T].prev /\ fs'.ino0 = call.ino0
  BY <1>2, <1>6 DEF SetFs, TypeInv, FsSet
<1>8. Keeps(own, own, vw, vw, EMPTY)
  BY <1>4, KeepsMain
<1>9. LastPhase(own, vw, kCp)'
  <2>1. LastPhase(own, vw, kCp)
    BY <1>3 DEF LastPhase
  <2> QED  BY <1>2, <1>4, <1>8, <2>1, LastPhaseKept
<1>10. MainPhase(own, vw, kCp)'
  BY <1>9 DEF MainPhase
<1>11. FsOK(kCp)'
  BY <1>4, <1>7 DEF FsOK, InWindow, T
<1>12. /\ tr' \in [Tids -> TrSet] /\ call' \in CallSet /\ call'.tid = call.tid
       /\ \A u \in Tids \ {T} : tr'[u] = tr[u]
  BY <1>2, <1>4 DEF TypeInv
<1>13. kCp \in Seq(Ops)
  BY EndFacts
<1> QED  BY <1>2, <1>4, <1>7, <1>10, <1>11, <1>12, <1>13, StepMain

-----------------------------------------------------------------------------
(* Voting.                                                                 *)

(* writeVot()                                                              *)
LEMMA VotFacts ==
  ASSUME NEW a \in Addr0, TypeInv, T \in Tids, writeVot(a),
         Len(tr[T].vots) <= VotsPerPage, Len(tr[T].vots) # VotsPerPage
  PROVE  /\ tr' \in [Tids -> TrSet] /\ \A u \in Tids \ {T} : tr'[u] = tr[u]
         /\ tr'[T].prev = tr[T].prev /\ SameFile(T)
         /\ \A S : (/\ \A i \in 1 .. Len(tr[T].vots) : tr[T].vots[i] \in S
                    /\ a # EMPTY => a \in S)
                     => \A i \in 1 .. Len(tr'[T].vots) : tr'[T].vots[i] \in S
         /\ Len(tr'[T].vots) <= VotsPerPage
         /\ \/ todo' = Rest /\ Len(tr'[T].vots) # VotsPerPage
            \/ todo' = <<Todo("votsPage")>> \o Rest
<1>1. /\ tr \in [Tids -> TrSet] /\ tr[T] \in TrSet /\ tr[T].vots \in Seq(Addr)
      /\ VotsPerPage \in Nat
  BY TransactionsAssumption DEF TypeInv, TrSet
<1>2. CASE a = EMPTY \/ \E i \in 1 .. Len(tr[T].vots) : tr[T].vots[i] = a
  <2>1. todo' = Rest /\ tr' = tr
    BY <1>2 DEF writeVot
  <2> QED  BY <1>1, <2>1 DEF SameFile
<1>3. CASE ~ (a = EMPTY \/ \E i \in 1 .. Len(tr[T].vots) : tr[T].vots[i] = a)
  <2>1. PICK v : v = Append(tr[T].vots, a)
    OBVIOUS
  <2>2. a \in Addr
    BY <1>3 DEF Addr0
  <2>3. /\ v \in Seq(Addr) /\ Len(v) = Len(tr[T].vots) + 1
        /\ \A i \in 1 .. Len(v) : v[i] = IF i = Len(v) THEN a ELSE tr[T].vots[i]
    BY <1>1, <2>1, <2>2, AppendProperties
  <2>4. tr' = [tr EXCEPT ![T].vots = v]
    BY <1>1, <1>3, <2>1 DEF writeVot
  <2>5. PICK r : r = [tr[T] EXCEPT !.vots = v]
    OBVIOUS
  <2>6. r \in TrSet
    BY <1>1, <2>3, <2>5 DEF TrSet
  <2>7. /\ r.vots = v /\ r.prev = tr[T].prev /\ r.ino = tr[T].ino
        /\ r.inoAddr = tr[T].inoAddr /\ r.node = tr[T].node /\ r.ptrs = tr[T].ptrs
    BY <1>1, <2>5 DEF TrSet
  <2>8. tr' = [tr EXCEPT ![T] = r]
    BY <1>1, <2>4, <2>5
  <2>9. tr' \in [Tids -> TrSet] /\ tr'[T] = r /\ \A u \in Tids \ {T} : tr'[u] = tr[u]
    BY <1>1, <2>6, <2>8
  <2>10. todo' = IF Len(v) = VotsPerPage THEN <<Todo("votsPage")>> \o Rest ELSE Rest
    BY <1>3, <2>3 DEF writeVot
  <2>11. Len(tr[T].vots) \in Nat
    BY <1>1
  <2>12. ASSUME NEW S, \A i \in 1 .. Len(tr[T].vots) : tr[T].vots[i] \in S, a \in S
         PROVE  \A i \in 1 .. Len(v) : v[i] \in S
    BY <2>3, <2>11, <2>12
  <2>13. Len(v) <= VotsPerPage
    BY <1>1, <2>3, <2>11
  <2> QED  BY <1>3, <2>7, <2>9, <2>10, <2>12, <2>13 DEF SameFile
<1> QED  BY <1>2, <1>3

(* What is done between two steps of the program.                          *)
LEMMA XTodo ==
  ASSUME Direct, TransInv, todo # <<>>, Op.op \in {"votsPage", "vot", "prev"}
  PROVE  \E own, vw \in Owned, X, m \in Seq(Ops), C, D \in AddrSets :
           /\ Running(own, vw, <<>>, X, m) /\ UncommittedPhase(own, vw, X, m)
           /\ T \in Tids /\ Recoverable(C, D) /\ X # <<>>
           /\ Op = Head(X) /\ Rest = Tail(X) \o m /\ Tail(X) \in Seq(Ops)
           /\ Between(own, vw, Tail(X))
           /\ Op.op = "vot" => Op.a \in vw[T] \cup {EMPTY}
           /\ Op.op = "prev" => Op.a \in own[T]
           /\ TypeInv /\ TreeKept /\ FsOK(m) /\ MainPhase(own, vw, m)
           /\ m \notin {kLast, kSetFs, kCp}
<1>1. PICK C \in AddrSets, D \in AddrSets : Recoverable(C, D)
  BY DEF TransInv
<1>2. CASE \E own, vw \in Owned, A, X, m \in Seq(Ops) : Running(own, vw, A, X, m)
  <2>1. PICK own \in Owned, vw \in Owned, A \in Seq(Ops), X \in Seq(Ops), m \in Seq(Ops) :
          Running(own, vw, A, X, m)
    BY <1>2
  <2>2. /\ A = <<>> /\ X # <<>> /\ UncommittedPhase(own, vw, X, m) /\ T \in Tids
        /\ Op = Head(X) /\ Rest = A \o (Tail(X) \o m) /\ Tail(X) \in Seq(Ops)
        /\ Between(own, vw, Tail(X))
        /\ \/ Op.op \in {"find", "votsPage"}
           \/ Op.op = "vot" /\ Op.a \in vw[T] \cup {EMPTY}
           \/ Op.op = "prev" /\ Op.a \in own[T]
    <3>1. A = <<>> /\ X # <<>> /\ T \in Tids
      BY <2>1, RunningHead
    <3>2. /\ Op = Head(X) /\ Rest = A \o (Tail(X) \o m) /\ Tail(X) \in Seq(Ops)
      <4>1. Shape(A, X, m)
        BY <2>1 DEF Running
      <4> QED  BY <3>1, <4>1, TodoParts
    <3>3. UncommittedPhase(own, vw, X, m) /\ Between(own, vw, Tail(X))
      BY <2>1, <3>1, RunningHead
    <3>4. \/ Op.op \in {"find", "votsPage"}
          \/ Op.op = "vot" /\ Op.a \in vw[T] \cup {EMPTY}
          \/ Op.op = "prev" /\ Op.a \in own[T]
      BY <2>1, <3>1, RunningHead
    <3> QED  BY <3>1, <3>2, <3>3, <3>4
  <2>3. TypeInv /\ TreeKept /\ FsOK(m) /\ MainPhase(own, vw, m)
        /\ m \notin {kLast, kSetFs, kCp}
    BY <2>1, <2>2 DEF TransInv, Running, UncommittedPhase
  <2>4. Rest = Tail(X) \o m
    BY <2>2, Cat
  <2> QED  BY <1>1, <2>1, <2>2, <2>3, <2>4
<1>3. CASE \E C2, D2 \in AddrSets, Y \in Seq(Ops) : BootingFrom(C2, D2, Y)
  <2>1. PICK C2 \in AddrSets, D2 \in AddrSets, Y \in Seq(Ops) : BootingFrom(C2, D2, Y)
    BY <1>3
  <2> QED  BY <2>1, BootHead
<1> QED  BY <1>2, <1>3 DEF TransInv

(* Nothing of this changes what the checkpoint would save.                 *)
LEMMA FsSame ==
  ASSUME NEW m, FsOK(m), m \notin {kLast, kSetFs, kCp}, fs' = fs, Root' = Root
  PROVE  FsOK(m)'
BY DEF FsOK, InWindow

LEMMA QuietBetween ==
  ASSUME NEW own \in Owned, NEW vw \in Owned, NEW X \in Seq(Ops), NEW X2 \in Seq(Ops),
         NEW m \in Seq(Ops), NEW C \in AddrSets, NEW D \in AddrSets,
         Direct, TypeInv, TreeKept, Recoverable(C, D), T \in Tids,
         Running(own, vw, <<>>, X, m), UncommittedPhase(own, vw, X, m),
         m \notin {kLast, kSetFs, kCp}, Between(own, vw, X2),
         UNCHANGED <<pages, obs, saved, marked, intent, fs, call>>,
         tr' \in [Tids -> TrSet], \A u \in Tids \ {T} : tr'[u] = tr[u],
         SameFile(T), tr'[T].prev \in own[T] \cup {EMPTY}, todo' = X2 \o m,
         \A i \in 1 .. Len(tr'[T].vots) : tr'[T].vots[i] \in vw[T],
         Len(tr'[T].vots) <= VotsPerPage,
         Len(tr'[T].vots) = VotsPerPage => X2 # <<>> /\ Head(X2).op = "votsPage"
  PROVE  TransInv'
<1>1. Votes(own, vw, T) /\ MainPhase(own, vw, m)
  BY DEF UncommittedPhase
<1>2. PICK t \in Tids : t = T /\ t = T'
  BY DEF T
<1>3. SameTree
  BY SameSaved
<1>4. Votes(own, vw, T)'
  <2>1. Votes(own, vw, t) /\ \A i \in 1 .. Len(tr'[t].vots) : tr'[t].vots[i] \in vw[t]
    BY <1>1, <1>2
  <2>2. vw[t] \subseteq MayVote(own, t)'
    BY <1>3, <2>1, MayVoteKept DEF Votes
  <2>3. Votes(own, vw, t)'
    BY <1>3, <2>1, <2>2, VotesKept DEF PagesKept
  <2> QED  BY <1>2, <2>3, AtT
<1>5. Keeps(own, own, vw, vw, EMPTY)
  BY KeepsMain
<1>6. MainPhase(own, vw, m)'
  BY <1>1, <1>4, <1>5, MainPhaseKept
<1>7. FsOK(m)'
  BY <1>3, FsSame DEF Running, SameTree
<1>8. Between(own, vw, X2)'
  BY <1>2 DEF Between
<1>9. fs' \in FsSet /\ call' \in CallSet
  BY DEF TypeInv
<1>10. vw[T] \subseteq MayVote(own, T)
  BY <1>1 DEF Votes
<1>11. \A u \in Tids \ {T} : tr'[u] = tr[u] /\ vw[u] = vw[u]
  OBVIOUS
<1> QED  BY <1>6, <1>7, <1>8, <1>9, <1>10, <1>11, QuietMain

LEMMA SetPrevStep ==
  ASSUME Direct, TransInv, SetPrev
  PROVE  TransInv'
<1>1. todo # <<>> /\ Op.op = "prev"
  BY DEF SetPrev, Doing
<1>2. PICK own \in Owned, vw \in Owned, X \in Seq(Ops), m \in Seq(Ops),
           C \in AddrSets, D \in AddrSets :
           /\ Running(own, vw, <<>>, X, m) /\ UncommittedPhase(own, vw, X, m)
           /\ T \in Tids /\ Recoverable(C, D) /\ X # <<>>
           /\ Op = Head(X) /\ Rest = Tail(X) \o m /\ Tail(X) \in Seq(Ops)
           /\ Between(own, vw, Tail(X))
           /\ Op.op = "vot" => Op.a \in vw[T] \cup {EMPTY}
           /\ Op.op = "prev" => Op.a \in own[T]
           /\ TypeInv /\ TreeKept /\ FsOK(m) /\ MainPhase(own, vw, m)
           /\ m \notin {kLast, kSetFs, kCp}
  BY <1>1, XTodo
<1>3. PICK a : a = Op.a
  OBVIOUS
<1>4. a \in own[T] /\ a \in Addr0
  BY <1>1, <1>2, <1>3 DEF Owned, AddrSets, Addr0
<1>5. UNCHANGED <<pages, obs, saved, marked, intent, fs, call>> /\ todo' = Tail(X) \o m
  BY <1>2 DEF SetPrev, Kept, flashVars
<1>6. /\ tr' \in [Tids -> TrSet] /\ \A u \in Tids \ {T} : tr'[u] = tr[u]
      /\ SameFile(T) /\ tr'[T].prev = a /\ tr'[T].vots = tr[T].vots
  <2>1. tr' = [tr EXCEPT ![T].prev = a]
    BY <1>3 DEF SetPrev
  <2>2. tr \in [Tids -> TrSet] /\ tr[T] \in TrSet
    BY <1>2 DEF TypeInv
  <2>3. PICK r : r = [tr[T] EXCEPT !.prev = a]
    OBVIOUS
  <2>4. r \in TrSet
    BY <1>4, <2>2, <2>3 DEF TrSet
  <2>5. /\ r.vots = tr[T].vots /\ r.prev = a /\ r.ino = tr[T].ino
        /\ r.inoAddr = tr[T].inoAddr /\ r.node = tr[T].node /\ r.ptrs = tr[T].ptrs
    BY <2>2, <2>3 DEF TrSet
  <2>6. tr' = [tr EXCEPT ![T] = r]
    BY <2>1, <2>2, <2>3
  <2> QED  BY <1>2, <2>2, <2>4, <2>5, <2>6 DEF SameFile
<1>7. \A i \in 1 .. Len(tr'[T].vots) : tr'[T].vots[i] \in vw[T]
  BY <1>2, <1>6 DEF UncommittedPhase, Votes, VotsOf
<1>8. Len(tr'[T].vots) <= VotsPerPage /\ Len(tr'[T].vots) # VotsPerPage
  <2>1. VotsBound(<<>>, X) /\ ~ Dying(<<>>, T)
    BY <1>2 DEF Running, Dying
  <2> QED  BY <1>1, <1>2, <1>6, <2>1 DEF VotsBound
<1> QED  BY <1>2, <1>4, <1>5, <1>6, <1>7, <1>8, QuietBetween

LEMMA VotBetween ==
  ASSUME Direct, TransInv, Vot, Op.op = "vot"
  PROVE  TransInv'
<1>1. todo # <<>> /\ Op.op = "vot"
  BY DEF Vot, Doing
<1>2. PICK own \in Owned, vw \in Owned, X \in Seq(Ops), m \in Seq(Ops),
           C \in AddrSets, D \in AddrSets :
           /\ Running(own, vw, <<>>, X, m) /\ UncommittedPhase(own, vw, X, m)
           /\ T \in Tids /\ Recoverable(C, D) /\ X # <<>>
           /\ Op = Head(X) /\ Rest = Tail(X) \o m /\ Tail(X) \in Seq(Ops)
           /\ Between(own, vw, Tail(X))
           /\ Op.op = "vot" => Op.a \in vw[T] \cup {EMPTY}
           /\ Op.op = "prev" => Op.a \in own[T]
           /\ TypeInv /\ TreeKept /\ FsOK(m) /\ MainPhase(own, vw, m)
           /\ m \notin {kLast, kSetFs, kCp}
  BY <1>1, XTodo
<1>3. PICK a : a = Op.a
  OBVIOUS
<1>4. a \in vw[T] \cup {EMPTY} /\ a \in Addr0
  BY <1>1, <1>2, <1>3 DEF Owned, AddrSets, Addr0
<1>5. UNCHANGED <<pages, obs, saved, marked, intent, fs, call>> /\ writeVot(a)
  BY <1>1, <1>3 DEF Vot, Kept, flashVars, Doing
<1>6. Len(tr[T].vots) <= VotsPerPage /\ Len(tr[T].vots) # VotsPerPage
  <2>1. VotsBound(<<>>, X) /\ ~ Dying(<<>>, T)
    BY <1>2 DEF Running, Dying
  <2> QED  BY <1>1, <1>2, <2>1 DEF VotsBound
<1>7. /\ tr' \in [Tids -> TrSet] /\ \A u \in Tids \ {T} : tr'[u] = tr[u]
      /\ tr'[T].prev = tr[T].prev /\ SameFile(T)
      /\ Len(tr'[T].vots) <= VotsPerPage
      /\ \/ todo' = Rest /\ Len(tr'[T].vots) # VotsPerPage
         \/ todo' = <<Todo("votsPage")>> \o Rest
  BY <1>2, <1>4, <1>5, <1>6, VotFacts
<1>8. \A i \in 1 .. Len(tr'[T].vots) : tr'[T].vots[i] \in vw[T]
  <2>1. \A i \in 1 .. Len(tr[T].vots) : tr[T].vots[i] \in vw[T]
    BY <1>2 DEF UncommittedPhase, Votes, VotsOf
  <2>2. a # EMPTY => a \in vw[T]
    BY <1>4
  <2> QED  BY <1>2, <1>4, <1>5, <1>6, <2>1, <2>2, VotFacts
<1>9. tr'[T].prev \in own[T] \cup {EMPTY}
  BY <1>2, <1>7 DEF Running, Owners, OwnChain
<1>10. CASE todo' = Rest /\ Len(tr'[T].vots) # VotsPerPage
  BY <1>2, <1>5, <1>7, <1>8, <1>9, <1>10, QuietBetween
<1>11. CASE todo' = <<Todo("votsPage")>> \o Rest
  <2>1. Todo("votsPage") \in Ops /\ Todo("votsPage").op = "votsPage"
    BY AllTodos
  <2>2. PICK X2 : X2 = Then(Todo("votsPage"), Tail(X))
    OBVIOUS
  <2>3. /\ X2 \in Seq(Ops) /\ X2 # <<>> /\ Head(X2) = Todo("votsPage") /\ Tail(X2) = Tail(X)
    BY <1>2, <2>1, <2>2, ThenFacts
  <2>4. todo' = X2 \o m
    <3>1. <<Todo("votsPage")>> \in Seq(Ops)
      BY <2>1
    <3> QED  BY <1>2, <1>11, <2>2, <3>1, ConcatAssociative DEF Then
  <2>5. Between(own, vw, X2)
    <3>1. \A i \in 1 .. Len(X2) : X2[i] = Todo("votsPage") \/
                                  (i - 1 \in 1 .. Len(Tail(X)) /\ X2[i] = Tail(X)[i - 1])
      <4>1. /\ Head(X2) = X2[1] /\ Len(Tail(X2)) = Len(X2) - 1
            /\ \A i \in 1 .. Len(Tail(X2)) : Tail(X2)[i] = X2[i + 1]
        BY <2>3, HeadTailProperties
      <4>2. Len(X2) \in Nat
        BY <2>3
      <4>3. \A i \in 1 .. Len(X2) : i # 1 => i - 1 \in 1 .. Len(Tail(X2)) /\ (i - 1) + 1 = i
        BY <4>1, <4>2
      <4> QED  BY <2>3, <4>1, <4>3
    <3> QED  BY <1>2, <2>1, <3>1 DEF Between
  <2> QED  BY <1>2, <1>5, <1>7, <1>8, <1>9, <2>1, <2>3, <2>4, <2>5, QuietBetween
<1> QED  BY <1>7, <1>10, <1>11

LEMMA VoteMain ==
  ASSUME NEW own \in Owned, NEW vw \in Owned, NEW vw2 \in Owned, NEW a \in Addr0,
         NEW m \in Seq(Ops), NEW m2 \in Seq(Ops), NEW C \in AddrSets, NEW D \in AddrSets,
         Direct, TypeInv, TreeKept, Recoverable(C, D), T \in Tids,
         Running(own, vw, <<>>, <<>>, m), UncommittedPhase(own, vw, <<>>, m),
         Head(m).op \in MainOps \ {"lastVots", "setFs"},
         Head(m2).op \notin {"checkpoint", "lastVots", "setFs"},
         UNCHANGED <<pages, obs, saved, marked, intent, fs, call>>,
         writeVot(a), Rest = m2, a # EMPTY => a \in MayVote(own, T),
         vw2 = [vw EXCEPT ![T] = vw[T] \cup ({a} \ {EMPTY})],
         MainPhase(own, vw2, m2)'
  PROVE  TransInv'
<1>1. Len(tr[T].vots) <= VotsPerPage /\ Len(tr[T].vots) # VotsPerPage
  <2>1. VotsBound(<<>>, <<>>) /\ ~ Dying(<<>>, T)
    BY DEF Running, Dying
  <2> QED  BY <2>1 DEF VotsBound
<1>2. /\ tr' \in [Tids -> TrSet] /\ \A u \in Tids \ {T} : tr'[u] = tr[u]
      /\ tr'[T].prev = tr[T].prev
      /\ Len(tr'[T].vots) <= VotsPerPage
      /\ \/ todo' = m2 /\ Len(tr'[T].vots) # VotsPerPage
         \/ todo' = <<Todo("votsPage")>> \o m2
  BY <1>1, VotFacts
<1>3. /\ vw2[T] = vw[T] \cup ({a} \ {EMPTY}) /\ \A u \in Tids \ {T} : vw2[u] = vw[u]
  BY DEF Owned
<1>4. Votes(own, vw, T)
  BY DEF UncommittedPhase
<1>5. \A i \in 1 .. Len(tr'[T].vots) : tr'[T].vots[i] \in vw2[T]
  <2>1. \A i \in 1 .. Len(tr[T].vots) : tr[T].vots[i] \in vw2[T]
    BY <1>3, <1>4 DEF Votes, VotsOf
  <2>2. a # EMPTY => a \in vw2[T]
    BY <1>3
  <2> QED  BY <1>1, <2>1, <2>2, VotFacts
<1>6. vw[T] \subseteq vw2[T] /\ vw2[T] \subseteq MayVote(own, T)
  BY <1>3, <1>4 DEF Votes
<1>7. FsOK(m2)'
  <2>1. fs.ino0 = Root /\ fs.closed = EMPTY /\ Root' = Root
    BY FsMove DEF Running, Root
  <2> QED  BY <2>1, FsQuiet
<1>8. tr'[T].prev \in own[T] \cup {EMPTY} /\ fs' \in FsSet /\ call' \in CallSet
  BY <1>2 DEF Running, Owners, OwnChain, TypeInv
<1>9. m2 \notin {kLast, kSetFs, kCp}
  BY EndHeads
<1>10. \A u \in Tids \ {T} : tr'[u] = tr[u] /\ vw2[u] = vw[u]
  BY <1>2, <1>3
<1>13. \A X2 \in Seq(Ops) :
          /\ todo' = X2 \o m2 /\ Between(own, vw2, X2)'
          /\ Len(tr'[T].vots) = VotsPerPage => X2 # <<>> /\ Head(X2).op = "votsPage"
          => TransInv'
  <2>1. TAKE X2 \in Seq(Ops)
  <2>2. HAVE /\ todo' = X2 \o m2 /\ Between(own, vw2, X2)'
             /\ Len(tr'[T].vots) = VotsPerPage => X2 # <<>> /\ Head(X2).op = "votsPage"
  <2>3. m2 \in {kLast, kSetFs, kCp} => X2 = <<>>
    BY <1>9
  <2>4. UNCHANGED <<pages, obs, saved, marked, intent>> /\ call'.tid = call.tid
    OBVIOUS
  <2>5. <<>> \in Seq(Ops)
    OBVIOUS
  <2> QED  BY <1>2, <1>5, <1>6, <1>7, <1>8, <1>10, <2>2, <2>3, <2>4, <2>5, QuietMain
<1>11. CASE todo' = m2 /\ Len(tr'[T].vots) # VotsPerPage
  <2>1. <<>> \in Seq(Ops) /\ todo' = <<>> \o m2 /\ Between(own, vw2, <<>>)'
    BY <1>11, Cat DEF Between
  <2> QED  BY <1>11, <1>13, <2>1
<1>12. CASE todo' = <<Todo("votsPage")>> \o m2
  <2>1. Todo("votsPage") \in Ops /\ Todo("votsPage").op = "votsPage"
    BY AllTodos
  <2>2. PICK X2 : X2 = <<Todo("votsPage")>>
    OBVIOUS
  <2>3. /\ X2 \in Seq(Ops) /\ X2 # <<>> /\ Head(X2).op = "votsPage"
        /\ Len(X2) = 1 /\ X2[1] = Todo("votsPage")
    BY <2>1, <2>2
  <2>4. Between(own, vw2, X2)'
    BY <2>1, <2>3 DEF Between
  <2>5. todo' = X2 \o m2
    BY <1>12, <2>2
  <2> QED  BY <1>13, <2>3, <2>4, <2>5
<1> QED  BY <1>2, <1>11, <1>12

(* The inode of the file is voted, and inode0.                             *)
LEMMA VotNodeStep ==
  ASSUME Direct, TransInv, Vot, Op.op = "votNode"
  PROVE  TransInv'
<1>1. todo # <<>> /\ Op.op = "votNode" /\ "votNode" \in MainOps \ {"lastVots", "setFs"}
  BY DEF Vot, Doing, MainOps
<1>2. PICK own \in Owned, vw \in Owned, m \in Seq(Ops), C \in AddrSets, D \in AddrSets :
           /\ Running(own, vw, <<>>, <<>>, m) /\ UncommittedPhase(own, vw, <<>>, m)
           /\ T \in Tids /\ Recoverable(C, D)
           /\ todo = m /\ m # <<>> /\ Op = Head(m) /\ Rest = Tail(m)
           /\ TypeInv /\ TreeKept /\ FsOK(m) /\ MainPhase(own, vw, m)
  BY <1>1, MainTodo
<1>3. PassPhase(own, vw, m)
  BY <1>1, <1>2, MainHead
<1>4. PICK f \in Inodes, k \in Seq(Ops) :
        /\ Pass(vw, f, k)
        /\ \/ m = kVotI(f, k) /\ CommitInodePhase(own, vw, f, k, m)
           \/ m = kVotZ(f, k) /\ Inode0Phase(own, vw, f, k, m)
  BY <1>1, <1>2, <1>3, PassOp
<1>5. Op.x = "inode" /\ Op.op = "votNode"
  BY <1>1, <1>2, <1>4, PassFacts DEF Do
<1>6. PICK a : a = tr[T].inoAddr
  OBVIOUS
<1>7. a \in Addr0 /\ AddrOf(pages, tr[T].inoAddr, "inode") = a
  BY <1>2, <1>6, AddrOfInode DEF TypeInv, TrSet
<1>8. UNCHANGED <<pages, obs, saved, marked, intent, fs, call>> /\ writeVot(a)
  BY <1>1, <1>5, <1>7 DEF Vot, Kept, flashVars, Doing
<1>9. PICK vw2 : vw2 = [vw EXCEPT ![T] = vw[T] \cup ({a} \ {EMPTY})]
  OBVIOUS
<1>10. vw2 \in Owned /\ vw2[T] = vw[T] \cup ({a} \ {EMPTY})
  <2>1. vw[T] \cup ({a} \ {EMPTY}) \in AddrSets
    BY <1>2, <1>7 DEF Owned, AddrSets, Addr0
  <2> QED  BY <1>2, <1>9, <2>1 DEF Owned
<1>11. PICK t \in Tids : t = T /\ t = T'
  BY <1>2, <1>8 DEF T
<1>12. SameTree /\ SameFile(t) /\ SameFile(T)
  <2>1. SameFile(T)
    <3>1. Len(tr[T].vots) <= VotsPerPage /\ Len(tr[T].vots) # VotsPerPage
      <4>1. VotsBound(<<>>, <<>>) /\ ~ Dying(<<>>, T)
        BY <1>2 DEF Running, Dying
      <4> QED  BY <1>2, <4>1 DEF VotsBound
    <3> QED  BY <1>2, <1>7, <1>8, <3>1, VotFacts
  <2> QED  BY <1>8, <1>11, <2>1, SameSaved
<1>13. ASSUME NotData(a), a # EMPTY => a \notin own[T] \/ pages[a].kind # "inode"
       PROVE  Keeps(own, own, vw, vw2, a)
  BY <1>8, <1>10, <1>12, <1>13 DEF Keeps, PagesKept
<1>14. CASE m = kVotI(f, k) /\ CommitInodePhase(own, vw, f, k, m)
  <2>1. /\ kActive(f, k) \in Seq(Ops) /\ Head(kActive(f, k)).op = "writeActive"
        /\ Rest = kActive(f, k)
    BY <1>2, <1>14, PassFacts DEF Do
  <2>2. /\ BaseOK(own, vw, f) /\ tr[T].ino = f /\ tr[T].node = "inode"
        /\ OpenFile(own, vw, T) /\ intent[T][f] = ContOf(pages, tr[T].ptrs)
        /\ f = call.file => \A b \in Blocks : tr[T].ptrs[b] = EMPTY
    BY <1>14 DEF CommitInodePhase
  <2>3. a = Ref0[f]
    BY <1>6, <2>2 DEF OpenFile
  <2>4. a # EMPTY => /\ a \in Pages0(f) /\ pages[a].kind = "inode" /\ a \in Tree0
                     /\ a \notin own[T]
    <3>1. own[T] \cap Tree0 = {}
      BY <1>2 DEF UncommittedPhase, LiveOwn
    <3> QED  BY <1>2, <2>3, <3>1, TreeFacts
  <2>5. NotData(a) /\ Keeps(own, own, vw, vw2, a)
    BY <1>13, <2>4 DEF NotData
  <2>6. Pass(vw2, f, k)' /\ (call.file \in Inodes \/ f # Dir)
    <3>1. a \in Pages0(Dir) => f = Dir
      <4>1. Dir \in Inodes /\ EMPTY \notin Pages0(Dir)
        BY <1>2, TreeFacts, AddrFacts, DirectFacts
      <4>2. \A g, h \in Inodes : g # h => Pages0(g) \cap Pages0(h) = {}
        BY <1>2, TreeFacts
      <4> QED  BY <2>4, <4>1, <4>2
    <3> QED  BY <1>2, <1>4, <2>5, <3>1, PassKept, PassInfo
  <2>7. f \in DOMAIN intent[T]
    BY <1>4, PassInfo DEF FileCommit, DirCommit, Pass
  <2>8. a # EMPTY => a \in MayVote(own, T)
    BY <2>4, <2>7 DEF MayVote
  <2>9. BaseOK(own, vw2, f)'
    <3>1. PICK r : r = call.ino0 /\ r = call'.ino0
      BY <1>8
    <3>2. IsRoot(own, r) /\ BaseRef(own, vw, f, pages[r].ref)
      BY <2>2, <3>1 DEF BaseOK
    <3>3. IsRoot(own, r)' /\ BaseRef(own, vw2, f, pages[r].ref)'
      BY <1>2, <2>5, <2>6, <3>2, RootsKept
    <3> QED  BY <3>1, <3>3 DEF BaseOK, IsRoot, BaseRef, NewFile
  <2>10. /\ OpenFile(own, vw2, t)'
         /\ ContOf(pages, tr[t].ptrs)' = ContOf(pages, tr[t].ptrs)
    <3>1. OpenFile(own, vw, t) /\ tr[t].node = "inode"
      BY <1>11, <2>2
    <3>2. PagesKept(own[t]) /\ vw2[t] \subseteq vw[t] \cup ({a} \ {EMPTY})
      BY <1>8, <1>10, <1>11 DEF PagesKept
    <3> QED  BY <1>2, <1>12, <2>5, <3>1, <3>2, OpenFileKept
  <2>11. OpenFile(own, vw2, T)'
    BY <1>11, <2>10, AtT
  <2>12. CommitInodePhase(own, vw2, f, k, kActive(f, k))'
    BY <1>8, <1>11, <1>12, <2>2, <2>9, <2>10, <2>11 DEF CommitInodePhase, SameFile
  <2>13. MainPhase(own, vw2, kActive(f, k))'
    BY <2>6, <2>12 DEF MainPhase, PassPhase
  <2> QED  BY <1>1, <1>2, <1>7, <1>8, <1>9, <1>10, <2>1, <2>8, <2>13, VoteMain
<1>15. CASE m = kVotZ(f, k) /\ Inode0Phase(own, vw, f, k, m)
  <2>1. /\ kWriteZ(f, k) \in Seq(Ops) /\ Head(kWriteZ(f, k)).op = "writeInode0"
        /\ Rest = kWriteZ(f, k)
    BY <1>2, <1>15, PassFacts DEF Do
  <2>2. /\ IsRoot(own, call.ino0) /\ a = call.ino0
        /\ NewRef(own, vw, f, tr[T].ptrs)
    BY <1>6, <1>15 DEF Inode0Phase
  <2>3. pages[a].kind = "ino0" /\ a \in {Root} \cup own[T]
    BY <2>2 DEF IsRoot
  <2>4. NotData(a) /\ Keeps(own, own, vw, vw2, a)
    BY <1>13, <2>3 DEF NotData
  <2>5. Pass(vw2, f, k)' /\ (call.file \in Inodes \/ f # Dir)
    <3>1. a \notin Pages0(Dir)
      BY <1>2, <2>3, TreeFacts, DirectFacts
    <3> QED  BY <1>2, <1>4, <2>4, <3>1, PassKept, PassInfo
  <2>6. a \in MayVote(own, T)
    BY <2>3 DEF MayVote
  <2>7. IsRoot(own, call.ino0)'
    <3>1. IsRoot(own, a)'
      BY <1>2, <2>2, <2>4, <2>5, RootsKept
    <3> QED  BY <1>8, <2>2, <3>1 DEF IsRoot
  <2>8. NewRef(own, vw2, f, tr[T].ptrs)'
    <3>1. PICK ref : ref = tr[T].ptrs /\ ref = tr'[T'].ptrs
      BY <1>11, <1>12 DEF SameFile
    <3>2. NewRef(own, vw2, f, ref)'
      BY <1>2, <2>2, <2>4, <2>5, <3>1, NewRefKept
    <3> QED  BY <3>1, <3>2 DEF NewRef
  <2>9. tr'[T'].inoAddr = call'.ino0
    BY <1>6, <1>8, <1>11, <1>12, <2>2 DEF SameFile
  <2>10. Inode0Phase(own, vw2, f, k, kWriteZ(f, k))'
    BY <2>7, <2>8, <2>9 DEF Inode0Phase
  <2>11. MainPhase(own, vw2, kWriteZ(f, k))'
    BY <2>5, <2>10 DEF MainPhase, PassPhase
  <2> QED  BY <1>1, <1>2, <1>7, <1>8, <1>9, <1>10, <2>1, <2>6, <2>11, VoteMain
<1> QED  BY <1>4, <1>14, <1>15

LEMMA VotStep ==
  ASSUME Direct, TransInv, Vot
  PROVE  TransInv'
BY VotBetween, VotNodeStep DEF Vot, Doing

-----------------------------------------------------------------------------
(* Pages written before the commit.                                        *)

(* The page that is written next belongs to nobody.                        *)
LEMMA FreshPage ==
  ASSUME NEW own \in Owned, NEW vw \in Owned, NEW X, NEW m,
         TypeInv, TreeKept, T \in Tids,
         Running(own, vw, <<>>, X, m), UncommittedPhase(own, vw, X, m),
         FreePages > 0
  PROVE  /\ NextAddr \in Addr /\ NextAddr \notin Tree0
         /\ \A u \in Tids : NextAddr \notin own[u]
<1>1. NextAddr \in Addr \ Valid
  BY NextAddrFree
<1>2. \A u \in Tids : LiveOwn(own, u)
  BY DEF Running, OthersOK, Dying, Stable, UncommittedPhase
<1>3. \A u \in Tids : own[u] \subseteq Valid
  BY <1>2 DEF LiveOwn, Valid, Owned, AddrSets
<1>4. Tree0 \subseteq Valid
  BY TreeFacts DEF TreeKept, Valid
<1> QED  BY <1>1, <1>3, <1>4

(* What allocAndWriteBlockTid_actualWrite() does: with a header, setting   *)
(* the address is left to do.                                              *)
PutBy(kind, ref, r, ops, a, H) ==
  /\ a = NextAddr /\ FreePages > 0
  /\ pages' = [pages EXCEPT ![a] = Page(kind, ref, tr[T].prev)]
  /\ obs' = obs \ {a} /\ UNCHANGED <<saved, marked, intent>>
  /\ tr' \in [Tids -> TrSet] /\ \A u \in Tids \ {T} : tr'[u] = tr[u]
  /\ tr'[T].prev \in {a, r.prev} /\ tr'[T].vots = r.vots
  /\ tr'[T].ino = r.ino /\ tr'[T].inoAddr = r.inoAddr
  /\ tr'[T].node = r.node /\ tr'[T].ptrs = r.ptrs
  /\ todo' = H \o ops
  /\ H = <<>> \/ H = <<Todo("find"), Do("prev", NoInode, a)>>

LEMMA PagePut ==
  ASSUME NEW kind, NEW ref, NEW r \in TrSet, NEW r2, NEW ops \in Seq(Ops),
         TypeInv, T \in Tids, NextAddr \in Addr, r2 = [tr EXCEPT ![T] = r],
         WritePage(kind, ref, r2, ops), Op.op # "lastVots"
  PROVE  \E a \in Addr, H \in Seq(Ops) : PutBy(kind, ref, r, ops, a, H)
<1>1. PICK a \in Addr : a = NextAddr
  OBVIOUS
<1>2. /\ FreePages > 0 /\ pages' = [pages EXCEPT ![a] = Page(kind, ref, tr[T].prev)]
      /\ obs' = obs \ {a} /\ UNCHANGED <<saved, marked, intent>>
      /\ \/ tr' = [[tr EXCEPT ![T] = r] EXCEPT ![T].prev = a] /\ todo' = ops
         \/ tr' = [tr EXCEPT ![T] = r]
            /\ todo' = <<Todo("find"), Do("prev", NoInode, a)>> \o ops
  BY <1>1 DEF WritePage
<1>3. tr \in [Tids -> TrSet]
  BY DEF TypeInv
<1>4. PICK q : q = [r EXCEPT !.prev = a]
  OBVIOUS
<1>5. /\ q \in TrSet /\ q.prev = a /\ q.vots = r.vots /\ q.ino = r.ino
      /\ q.inoAddr = r.inoAddr /\ q.node = r.node /\ q.ptrs = r.ptrs
  BY <1>4 DEF TrSet, Addr0
<1>6. [[tr EXCEPT ![T] = r] EXCEPT ![T].prev = a] = [tr EXCEPT ![T] = q]
  BY <1>3, <1>4
<1>7. CASE tr' = [tr EXCEPT ![T] = q] /\ todo' = ops
  <2>1. <<>> \in Seq(Ops) /\ todo' = <<>> \o ops
    BY <1>7, Cat
  <2>2. /\ tr' \in [Tids -> TrSet] /\ \A u \in Tids \ {T} : tr'[u] = tr[u]
        /\ tr'[T] = q
    BY <1>3, <1>5, <1>7
  <2>3. PutBy(kind, ref, r, ops, a, <<>>)
    BY <1>1, <1>2, <1>5, <2>1, <2>2 DEF PutBy
  <2> QED  BY <2>1, <2>3
<1>8. CASE tr' = [tr EXCEPT ![T] = r]
            /\ todo' = <<Todo("find"), Do("prev", NoInode, a)>> \o ops
  <2>1. Todo("find") \in Ops /\ Do("prev", NoInode, a) \in Ops
    <3>1. "prev" \in OpNames /\ NoInode \in Names /\ a \in Args
      BY DEF OpNames, Names, Args, Addr0
    <3> QED  BY <3>1, AllTodos, DoFacts
  <2>2. <<Todo("find"), Do("prev", NoInode, a)>> \in Seq(Ops)
    BY <2>1
  <2>3. /\ tr' \in [Tids -> TrSet] /\ \A u \in Tids \ {T} : tr'[u] = tr[u]
        /\ tr'[T] = r
    BY <1>3, <1>8
  <2>4. PutBy(kind, ref, r, ops, a, <<Todo("find"), Do("prev", NoInode, a)>>)
    BY <1>1, <1>2, <1>8, <2>2, <2>3 DEF PutBy
  <2> QED  BY <2>2, <2>4
<1> QED  BY <1>2, <1>6, <1>7, <1>8

(* The pages written, after page a.                                        *)
WithPage(own, a) == [own EXCEPT ![T] = own[T] \cup {a}]

(* What writing page a does, the votes vw2 being among what may be voted.  *)
Puts(own, own2, vw, vw2, a, kind, ref) ==
  /\ a = NextAddr /\ FreePages > 0
  /\ pages' = [pages EXCEPT ![a] = Page(kind, ref, tr[T].prev)]
  /\ kind # "none" /\ Page(kind, ref, tr[T].prev) \in PageSet
  /\ own2 = WithPage(own, a)
  /\ obs' = obs \ {a} /\ UNCHANGED <<saved, marked, intent>> /\ call'.tid = call.tid
  /\ tr' \in [Tids -> TrSet]
  /\ \A u \in Tids \ {T} : tr'[u] = tr[u] /\ vw2[u] = vw[u]
  /\ tr'[T].prev \in {a, tr[T].prev}
  /\ vw[T] \subseteq vw2[T] /\ vw2[T] \subseteq MayVote(own, T)
  /\ \A i \in 1 .. Len(tr'[T].vots) : tr'[T].vots[i] \in vw2[T]
  /\ kind = "vots" => \A i \in 1 .. Len(ref) : ref[i] \in vw2[T]

LEMMA OwnPlus ==
  ASSUME NEW own \in Owned, NEW own2, NEW a \in Addr, T \in Tids,
         own2 = WithPage(own, a)
  PROVE  /\ own2 \in Owned /\ own2[T] = own[T] \cup {a}
         /\ \A u \in Tids \ {T} : own2[u] = own[u]
<1>1. own[T] \cup {a} \in AddrSets
  BY DEF Owned, AddrSets
<1> QED  BY <1>1 DEF Owned, WithPage

LEMMA PutsFacts ==
  ASSUME NEW own \in Owned, NEW vw \in Owned, NEW own2, NEW vw2 \in Owned,
         NEW X, NEW m, NEW a \in Addr, NEW kind, NEW ref,
         TypeInv, TreeKept, T \in Tids,
         Running(own, vw, <<>>, X, m), UncommittedPhase(own, vw, X, m),
         Puts(own, own2, vw, vw2, a, kind, ref)
  PROVE  /\ own2 \in Owned /\ own2[T] = own[T] \cup {a}
         /\ \A u \in Tids \ {T} : own2[u] = own[u] /\ own2[T] \cap own[u] = {}
         /\ a \notin Tree0 /\ a # EMPTY /\ \A u \in Tids : a \notin own[u]
         /\ SameTree /\ \A u \in Tids : PagesKept(own[u])
         /\ pages'[a] = Page(kind, ref, tr[T].prev) /\ pages' \in [Addr -> PageSet]
         /\ OwnChain(own2, T)' /\ LiveOwn(own2, T)' /\ Votes(own2, vw2, T)'
<1>1. a \notin Tree0 /\ \A u \in Tids : a \notin own[u]
  BY FreshPage DEF Puts
<1>2. /\ own2[T] = own[T] \cup {a} /\ \A u \in Tids \ {T} : own2[u] = own[u]
      /\ own2 \in Owned
  <2>1. own[T] \cup {a} \in AddrSets
    BY DEF Owned, AddrSets
  <2> QED  BY <2>1 DEF Puts, Owned, WithPage
<1>3. /\ pages'[a] = Page(kind, ref, tr[T].prev) /\ pages' \in [Addr -> PageSet]
      /\ \A x \in Addr \ {a} : pages'[x] = pages[x]
  BY DEF Puts, TypeInv
<1>4. \A u \in Tids : PagesKept(own[u])
  <2>1. Tree0 \subseteq Addr /\ \A u \in Tids : own[u] \subseteq Addr
    BY TreeFacts DEF Owned, AddrSets
  <2> QED  BY <1>1, <1>3, <2>1 DEF PagesKept
<1>5. SameTree
  BY SameSaved DEF Puts
<1>6. PICK t \in Tids : t = T /\ t = T'
  BY DEF T, Puts
<1>7. LiveOwn(own, t) /\ Votes(own, vw, t) /\ OwnChain(own, t)
  BY <1>6 DEF UncommittedPhase, Running, Owners
<1>8. \A u \in Tids \ {T} : own2[T] \cap own[u] = {}
  BY <1>1, <1>2 DEF Running, Owners
<1>9. OwnChain(own2, t)'
  <2>1. tr'[t].prev \in own2[t] \cup {EMPTY}
    BY <1>2, <1>6, <1>7 DEF Puts, OwnChain
  <2>2. \A x \in own[t] : pages'[x].prev \in own2[t] \cup {EMPTY}
    BY <1>2, <1>4, <1>6, <1>7 DEF OwnChain, PagesKept
  <2>3. pages'[a].prev = tr[t].prev
    BY <1>3, <1>6 DEF Page
  <2>4. pages'[a].prev \in own2[t] \cup {EMPTY}
    BY <1>2, <1>6, <1>7, <2>3 DEF OwnChain
  <2>5. own2[t] = own[t] \cup {a} /\ own2[t] \subseteq Addr
    BY <1>2, <1>6, <1>7 DEF OwnChain
  <2> QED  BY <2>1, <2>2, <2>4, <2>5 DEF OwnChain
<1>10. LiveOwn(own2, t)'
  <2>1. pages'[a].kind # "none"
    BY <1>3 DEF Page, Puts
  <2>2. \A x \in own[t] : pages'[x].kind # "none"
    BY <1>4, <1>6, <1>7 DEF LiveOwn, PagesKept
  <2>3. own2[t] = own[t] \cup {a} /\ Tree0' = Tree0 /\ obs' = obs \ {a}
    BY <1>2, <1>5, <1>6 DEF SameTree, Puts
  <2> QED  BY <1>1, <1>7, <2>1, <2>2, <2>3 DEF LiveOwn
<1>11. Votes(own2, vw2, t)'
  <2>1. MayVote(own, t) \subseteq MayVote(own2, t)'
    BY <1>2, <1>5, <1>6, MayVoteKept DEF Puts
  <2>2. vw[t] \subseteq vw2[t] /\ vw2[t] \subseteq MayVote(own2, t)'
    BY <1>6, <2>1 DEF Puts
  <2>3. \A x \in own2[t] \ own[t] : pages'[x].kind = "vots" =>
            \A i \in 1 .. Len(pages'[x].ref) : pages'[x].ref[i] \in vw2[t]
    BY <1>2, <1>3, <1>6 DEF Page, Puts
  <2>4. \A i \in 1 .. Len(tr'[t].vots) : tr'[t].vots[i] \in vw2[t]
    BY <1>6 DEF Puts
  <2>5. own[t] \subseteq own2[t] /\ PagesKept(own[t])
    BY <1>2, <1>4, <1>6
  <2> QED  BY <1>5, <1>7, <2>2, <2>3, <2>4, <2>5, VotesKept
<1>12. OwnChain(own2, T)' /\ LiveOwn(own2, T)' /\ Votes(own2, vw2, T)'
  BY <1>6, <1>9, <1>10, <1>11, AtT DEF OwnChain
<1> QED  BY <1>1, <1>2, <1>3, <1>4, <1>5, <1>8, <1>12, AddrFacts

LEMMA WriteMain ==
  ASSUME NEW own \in Owned, NEW vw \in Owned, NEW own2 \in Owned, NEW vw2 \in Owned,
         NEW X \in Seq(Ops), NEW m \in Seq(Ops),
         NEW A2 \in {<<>>, <<Todo("find")>>}, NEW X2 \in Seq(Ops), NEW m2 \in Seq(Ops),
         NEW C \in AddrSets, NEW D \in AddrSets, NEW a \in Addr, NEW kind, NEW ref,
         Direct, TypeInv, TreeKept, Recoverable(C, D), T \in Tids,
         Running(own, vw, <<>>, X, m), UncommittedPhase(own, vw, X, m),
         Puts(own, own2, vw, vw2, a, kind, ref),
         fs' \in FsSet, call' \in CallSet, todo' \in Seq(Ops),
         todo' = A2 \o (X2 \o m2), FsOK(m2)', A2 # <<>> => ~ InWindow(m2)',
         Len(tr'[T].vots) <= VotsPerPage,
         Len(tr'[T].vots) = VotsPerPage => X2 # <<>> /\ Head(X2).op = "votsPage",
         MainPhase(own2, vw2, m2)', Between(own2, vw2, X2)',
         m2 \in {kLast, kSetFs, kCp} => X2 = <<>>
  PROVE  TransInv'
<1>1. /\ SameTree /\ \A u \in Tids : PagesKept(own[u])
      /\ pages' \in [Addr -> PageSet]
      /\ OwnChain(own2, T)' /\ LiveOwn(own2, T)' /\ Votes(own2, vw2, T)'
  BY PutsFacts
<1>2. \A u \in Tids \ {T} : /\ tr'[u] = tr[u] /\ vw2[u] = vw[u] /\ own2[u] = own[u]
                            /\ own2[T] \cap own[u] = {}
  <2>1. \A u \in Tids \ {T} : own2[u] = own[u] /\ own2[T] \cap own[u] = {}
    BY PutsFacts
  <2>2. \A u \in Tids \ {T} : tr'[u] = tr[u] /\ vw2[u] = vw[u]
    BY DEF Puts
  <2> QED  BY <2>1, <2>2
<1>3. UNCHANGED <<saved, marked, intent>> /\ call'.tid = call.tid /\ obs' \subseteq obs
      /\ tr' \in [Tids -> TrSet]
  BY DEF Puts
<1> QED  BY <1>1, <1>2, <1>3, MainStep

LEMMA CatThree ==
  ASSUME NEW s \in Seq(Ops), NEW t \in Seq(Ops), NEW u \in Seq(Ops)
  PROVE  (s \o t) \o u = s \o (t \o u)
BY ConcatAssociative

(* The header after a page of the program.                                 *)
LEMMA WriteHeader ==
  ASSUME NEW own \in Owned, NEW vw \in Owned, NEW own2 \in Owned, NEW vw2 \in Owned,
         NEW X \in Seq(Ops), NEW m \in Seq(Ops), NEW H \in Seq(Ops),
         NEW X2 \in Seq(Ops), NEW m2 \in Seq(Ops),
         NEW C \in AddrSets, NEW D \in AddrSets, NEW a \in Addr, NEW kind, NEW ref,
         Direct, TypeInv, TreeKept, Recoverable(C, D), T \in Tids,
         Running(own, vw, <<>>, X, m), UncommittedPhase(own, vw, X, m),
         Puts(own, own2, vw, vw2, a, kind, ref),
         fs' = fs, call' \in CallSet,
         H = <<>> \/ H = <<Todo("find"), Do("prev", NoInode, a)>>,
         todo' = H \o (X2 \o m2), m \notin {kLast, kSetFs, kCp},
         Head(m2).op \notin {"checkpoint", "lastVots", "setFs"},
         Len(tr'[T].vots) <= VotsPerPage, Len(tr'[T].vots) # VotsPerPage,
         MainPhase(own2, vw2, m2)', Between(own2, vw2, X2)'
  PROVE  TransInv'
<1>1. PICK X3 : X3 = H \o X2
  OBVIOUS
<1>2. X3 \in Seq(Ops) /\ H \o (X2 \o m2) = X3 \o m2
  <2>1. X3 \in Seq(Ops)
    BY <1>1, Cat
  <2>2. H \o (X2 \o m2) = (H \o X2) \o m2
    BY ONLY CatThree, H \in Seq(Ops), X2 \in Seq(Ops), m2 \in Seq(Ops), ZenonT(30)
  <2> QED  BY <1>1, <2>1, <2>2
<1>3. X3 \o m2 \in Seq(Ops) /\ todo' \in Seq(Ops) /\ todo' = <<>> \o (X3 \o m2)
  <2>1. X3 \o m2 \in Seq(Ops) /\ <<>> \in Seq(Ops)
    BY <1>2, Cat
  <2> QED  BY <1>2, <2>1, Cat
<1>4. /\ own2[T] = own[T] \cup {a} /\ SameTree /\ T' = T
  <2>1. T' = T
    BY DEF Puts, T
  <2>2. own2[T] = own[T] \cup {a} /\ SameTree
    BY SameSaved DEF Puts, Owned, WithPage
  <2> QED  BY <2>1, <2>2
<1>5. Between(own2, vw2, X3)'
  <2>1. CASE H = <<>>
    BY <1>1, <2>1, Cat
  <2>2. CASE H = <<Todo("find"), Do("prev", NoInode, a)>>
    <3>1. /\ Todo("find").op = "find" /\ Do("prev", NoInode, a).op = "prev"
          /\ Do("prev", NoInode, a).a = a
      BY DEF Do, Todo
    <3>2. /\ Len(H) = 2 /\ H[1] = Todo("find") /\ H[2] = Do("prev", NoInode, a)
      BY <2>2
    <3>3. /\ Len(X3) = 2 + Len(X2) /\ \A i \in 1 .. 2 : X3[i] = H[i]
          /\ \A i \in 3 .. Len(X3) : X3[i] = X2[i - 2] /\ i - 2 \in 1 .. Len(X2)
      <4>1. Len(H \o X2) = Len(H) + Len(X2) /\ Len(X2) \in Nat
        BY ConcatProperties, LenProperties
      <4>2. \A i \in 1 .. Len(H) + Len(X2) :
               (H \o X2)[i] = IF i <= Len(H) THEN H[i] ELSE X2[i - Len(H)]
        BY ConcatProperties
      <4>3. /\ Len(X3) = 2 + Len(X2)
            /\ \A i \in 1 .. 2 + Len(X2) : X3[i] = IF i <= 2 THEN H[i] ELSE X2[i - 2]
        BY <1>1, <3>2, <4>1, <4>2
      <4>4. \A i \in 3 .. 2 + Len(X2) : i - 2 \in 1 .. Len(X2) /\ ~ (i <= 2)
        BY <4>1
      <4> QED  BY <4>1, <4>3, <4>4
    <3>4. \A i \in 1 .. Len(X3) : i = 1 \/ i = 2 \/ i \in 3 .. Len(X3)
      BY <3>3, LenProperties
    <3>5. a \in own2[T']
      BY <1>4
    <3>6. \A i \in 1 .. Len(X2) :
            \/ X2[i].op \in {"find", "votsPage"}
            \/ X2[i].op = "vot" /\ X2[i].a \in vw2[T'] \cup {EMPTY}
            \/ X2[i].op = "prev" /\ X2[i].a \in own2[T']
      BY DEF Between
    <3>7. \A i \in 1 .. Len(X3) :
            \/ X3[i].op \in {"find", "votsPage"}
            \/ X3[i].op = "vot" /\ X3[i].a \in vw2[T'] \cup {EMPTY}
            \/ X3[i].op = "prev" /\ X3[i].a \in own2[T']
      <4>1. TAKE i \in 1 .. Len(X3)
      <4>2. CASE i = 1
        BY <3>1, <3>2, <3>3, <4>2
      <4>3. CASE i = 2
        BY <3>1, <3>2, <3>3, <3>5, <4>3
      <4>4. CASE i \in 3 .. Len(X3)
        <5>1. PICK j : j = i - 2
          OBVIOUS
        <5>2. X3[i] = X2[j] /\ j \in 1 .. Len(X2)
          BY <3>3, <4>4, <5>1
        <5> QED  BY <3>6, <5>2
      <4> QED  BY <3>4, <4>2, <4>3, <4>4
    <3> QED  BY <3>7 DEF Between
  <2> QED  BY <2>1, <2>2
<1>6. FsOK(m2)'
  <2>1. fs.ino0 = Root /\ fs.closed = EMPTY
    <3>1. FsOK(m) /\ MainPhase(own, vw, m)
      BY DEF Running, UncommittedPhase
    <3>2. fs.closed = EMPTY
      BY <3>1, ClosedFacts, MainHead
    <3>3. ~ InWindow(m)
      BY DEF InWindow
    <3> QED  BY <3>1, <3>2, <3>3 DEF FsOK
  <2> QED  BY <1>4, <2>1, FsQuiet DEF SameTree
<1>7. m2 \notin {kLast, kSetFs, kCp}
  BY EndHeads
<1>8. fs' \in FsSet
  BY DEF TypeInv
<1>9. <<>> \in {<<>>, <<Todo("find")>>}
  OBVIOUS
<1> QED  BY <1>2, <1>3, <1>5, <1>6, <1>7, <1>8, <1>9, WriteMain

(* A page of VOTs is written.                                              *)
LEMMA VotsPageStep ==
  ASSUME Direct, TransInv, VotsPage
  PROVE  TransInv'
<1>1. todo # <<>> /\ Op.op = "votsPage"
  BY DEF VotsPage, Doing
<1>2. PICK own \in Owned, vw \in Owned, X \in Seq(Ops), m \in Seq(Ops),
           C \in AddrSets, D \in AddrSets :
           /\ Running(own, vw, <<>>, X, m) /\ UncommittedPhase(own, vw, X, m)
           /\ T \in Tids /\ Recoverable(C, D) /\ X # <<>>
           /\ Op = Head(X) /\ Rest = Tail(X) \o m /\ Tail(X) \in Seq(Ops)
           /\ Between(own, vw, Tail(X))
           /\ TypeInv /\ TreeKept /\ FsOK(m) /\ MainPhase(own, vw, m)
           /\ m \notin {kLast, kSetFs, kCp}
  BY <1>1, XTodo
<1>3. PICK v : v = tr[T].vots
  OBVIOUS
<1>4. PICK r : r = [tr[T] EXCEPT !.vots = <<>>]
  OBVIOUS
<1>5. tr \in [Tids -> TrSet] /\ tr[T] \in TrSet /\ v \in Seq(Addr) /\ tr[T].prev \in Addr0
  BY <1>2, <1>3 DEF TypeInv, TrSet
<1>6. /\ r \in TrSet /\ r.vots = <<>> /\ r.prev = tr[T].prev /\ r.ino = tr[T].ino
      /\ r.inoAddr = tr[T].inoAddr /\ r.node = tr[T].node /\ r.ptrs = tr[T].ptrs
  <2>1. <<>> \in Seq(Addr)
    OBVIOUS
  <2> QED  BY <1>4, <1>5, <2>1 DEF TrSet
<1>7. PICK r2 : r2 = [tr EXCEPT ![T].vots = <<>>] /\ r2 = [tr EXCEPT ![T] = r]
  BY <1>4, <1>5
<1>8. /\ WritePage("vots", v, r2, Tail(X) \o m) /\ FreePages > 0
      /\ fs' = fs /\ call' = call
  BY <1>2, <1>3, <1>7 DEF VotsPage, Kept, WritePage
<1>9. NextAddr \in Addr /\ Tail(X) \o m \in Seq(Ops)
  BY <1>2, <1>8, FreshPage, Cat
<1>10. PICK a \in Addr, H \in Seq(Ops) :
           /\ a = NextAddr /\ FreePages > 0
           /\ pages' = [pages EXCEPT ![a] = Page("vots", v, tr[T].prev)]
           /\ obs' = obs \ {a} /\ UNCHANGED <<saved, marked, intent>>
           /\ tr' \in [Tids -> TrSet] /\ \A u \in Tids \ {T} : tr'[u] = tr[u]
           /\ tr'[T].prev \in {a, r.prev} /\ tr'[T].vots = r.vots
           /\ tr'[T].ino = r.ino /\ tr'[T].inoAddr = r.inoAddr
           /\ tr'[T].node = r.node /\ tr'[T].ptrs = r.ptrs
           /\ todo' = H \o (Tail(X) \o m)
           /\ H = <<>> \/ H = <<Todo("find"), Do("prev", NoInode, a)>>
  <2>1. \E a \in Addr, H \in Seq(Ops) : PutBy("vots", v, r, Tail(X) \o m, a, H)
    BY <1>1, <1>2, <1>6, <1>7, <1>8, <1>9, PagePut
  <2> QED  BY <2>1 DEF PutBy
<1>11. PICK own2 : own2 = WithPage(own, a)
  OBVIOUS
<1>12. Puts(own, own2, vw, vw, a, "vots", v)
  <2>1. Page("vots", v, tr[T].prev) \in PageSet
    BY <1>5 DEF Page, PageSet
  <2>2. Votes(own, vw, T)
    BY <1>2 DEF UncommittedPhase
  <2>3. \A i \in 1 .. Len(v) : v[i] \in vw[T]
    BY <1>3, <2>2 DEF Votes, VotsOf
  <2>4. vw[T] \subseteq MayVote(own, T)
    BY <2>2 DEF Votes
  <2>5. \A i \in 1 .. Len(tr'[T].vots) : tr'[T].vots[i] \in vw[T]
    BY <1>6, <1>10
  <2> QED  BY <1>6, <1>8, <1>10, <1>11, <2>1, <2>3, <2>4, <2>5 DEF Puts
<1>13. /\ own2 \in Owned /\ own2[T] = own[T] \cup {a} /\ SameTree
       /\ PagesKept(own[T]) /\ Votes(own2, vw, T)'
  BY <1>2, <1>12, PutsFacts
<1>14. Keeps(own, own2, vw, vw, EMPTY) /\ SameFile(T)
  BY <1>6, <1>8, <1>10, <1>13 DEF Keeps, SameFile
<1>15. MainPhase(own2, vw, m)'
  BY <1>2, <1>8, <1>13, <1>14, MainPhaseKept
<1>16. Between(own2, vw, Tail(X))'
  <2>1. T' = T
    BY <1>8 DEF T
  <2> QED  BY <1>2, <1>13, <2>1 DEF Between
<1>17. Head(m).op \notin {"checkpoint", "lastVots", "setFs"}
  BY <1>2, MainHead
<1>18. Len(tr'[T].vots) <= VotsPerPage /\ Len(tr'[T].vots) # VotsPerPage
  <2>1. Len(tr'[T].vots) = 0
    BY <1>6, <1>10
  <2> QED  BY <2>1, TransactionsAssumption
<1>19. call' \in CallSet
  BY <1>2, <1>8 DEF TypeInv
<1>20. fs' = fs /\ todo' = H \o (Tail(X) \o m)
       /\ (H = <<>> \/ H = <<Todo("find"), Do("prev", NoInode, a)>>)
  BY <1>8, <1>10
<1> QED  BY <1>2, <1>12, <1>13, <1>15, <1>16, <1>17, <1>18, <1>19, <1>20, WriteHeader

(* A page that was just written is not voted.                              *)
LEMMA NotVoted ==
  ASSUME NEW own \in Owned, NEW vw \in Owned, NEW own2, NEW vw2 \in Owned,
         NEW X, NEW m, NEW a \in Addr, NEW kind, NEW ref,
         TypeInv, TreeKept, T \in Tids,
         Running(own, vw, <<>>, X, m), UncommittedPhase(own, vw, X, m),
         Puts(own, own2, vw, vw2, a, kind, ref)
  PROVE  a \notin vw2[T] /\ MayVote(own, T) \subseteq own[T] \cup Tree0
<1>1. a \notin Tree0 /\ a \notin own[T]
  BY PutsFacts
<1>2. DOMAIN intent[T] \subseteq Inodes
  BY DEF TypeInv, ChangeSet
<1>3. MayVote(own, T) \subseteq own[T] \cup Tree0
  <2>1. Root \in Tree0 /\ \A f \in Inodes : Pages0(f) \subseteq Tree0
    BY TreeFacts
  <2> QED  BY <1>2, <2>1 DEF MayVote
<1>4. vw2[T] \subseteq MayVote(own, T)
  BY DEF Puts
<1> QED  BY <1>1, <1>3, <1>4

(* The inode is written.                                                   *)
LEMMA WriteActiveStep ==
  ASSUME Direct, TransInv, WriteActive
  PROVE  TransInv'
<1>1. todo # <<>> /\ Op.op = "writeActive" /\ "writeActive" \in MainOps
  BY DEF WriteActive, Doing, MainOps
<1>2. PICK own \in Owned, vw \in Owned, m \in Seq(Ops), C \in AddrSets, D \in AddrSets :
           /\ Running(own, vw, <<>>, <<>>, m) /\ UncommittedPhase(own, vw, <<>>, m)
           /\ T \in Tids /\ Recoverable(C, D)
           /\ todo = m /\ m # <<>> /\ Op = Head(m) /\ Rest = Tail(m)
           /\ TypeInv /\ TreeKept /\ FsOK(m) /\ MainPhase(own, vw, m)
  BY <1>1, MainTodo
<1>3. PassPhase(own, vw, m)
  BY <1>1, <1>2, MainHead
<1>4. PICK f \in Inodes, k \in Seq(Ops) :
        Pass(vw, f, k) /\ m = kActive(f, k) /\ CommitInodePhase(own, vw, f, k, m)
  BY <1>1, <1>2, <1>3, PassOp
<1>5. /\ Op.x = "inode" /\ Rest = kKeep(f, k) /\ kKeep(f, k) \in Seq(Ops)
      /\ Head(kKeep(f, k)).op = "keepInode"
  BY <1>2, <1>4, PassFacts DEF Do, Todo
<1>6. /\ BaseOK(own, vw, f) /\ tr[T].ino = f /\ tr[T].node = "inode"
      /\ OpenFile(own, vw, T) /\ intent[T][f] = ContOf(pages, tr[T].ptrs)
      /\ f = call.file => \A b \in Blocks : tr[T].ptrs[b] = EMPTY
  BY <1>4 DEF CommitInodePhase
<1>7. PICK p : p = tr[T].ptrs
  OBVIOUS
<1>8. p \in [Blocks -> Addr0] /\ Pointers(own, vw, T, p, f)
  BY <1>6, <1>7 DEF OpenFile, PtrsNow
<1>9. NextAddr \in Addr
  <2>1. FreePages > 0
    BY DEF WriteActive, WritePage
  <2> QED  BY <1>2, <2>1, FreshPage
<1>10. PICK r : r = [tr[T] EXCEPT !.inoAddr = NextAddr]
  OBVIOUS
<1>11. tr \in [Tids -> TrSet] /\ tr[T] \in TrSet /\ tr[T].prev \in Addr0
  BY <1>2 DEF TypeInv, TrSet
<1>12. /\ r \in TrSet /\ r.vots = tr[T].vots /\ r.prev = tr[T].prev
       /\ r.inoAddr = NextAddr
  BY <1>9, <1>10, <1>11 DEF TrSet, Addr0
<1>13. PICK r2 : r2 = [tr EXCEPT ![T].inoAddr = NextAddr] /\ r2 = [tr EXCEPT ![T] = r]
  BY <1>10, <1>11
<1>14. /\ WritePage("inode", p, r2, kKeep(f, k)) /\ fs' = fs
       /\ call' = [call EXCEPT !.new["inode"] = NextAddr]
  BY <1>5, <1>7, <1>13 DEF WriteActive, Kept
<1>15. PICK a \in Addr, H \in Seq(Ops) :
           /\ a = NextAddr /\ FreePages > 0
           /\ pages' = [pages EXCEPT ![a] = Page("inode", p, tr[T].prev)]
           /\ obs' = obs \ {a} /\ UNCHANGED <<saved, marked, intent>>
           /\ tr' \in [Tids -> TrSet] /\ \A u \in Tids \ {T} : tr'[u] = tr[u]
           /\ tr'[T].prev \in {a, r.prev} /\ tr'[T].vots = r.vots
           /\ tr'[T].ino = r.ino /\ tr'[T].inoAddr = r.inoAddr
           /\ tr'[T].node = r.node /\ tr'[T].ptrs = r.ptrs
           /\ todo' = H \o kKeep(f, k)
           /\ H = <<>> \/ H = <<Todo("find"), Do("prev", NoInode, a)>>
  <2>1. Op.op # "lastVots" /\ TypeInv /\ T \in Tids
    BY <1>1, <1>2
  <2>2. PICK k2 \in Seq(Ops) : k2 = kKeep(f, k)
    BY <1>5
  <2>3. WritePage("inode", p, r2, k2) /\ r \in TrSet /\ r2 = [tr EXCEPT ![T] = r]
    BY <1>12, <1>13, <1>14, <2>2
  <2>4. \E a \in Addr, H \in Seq(Ops) : PutBy("inode", p, r, k2, a, H)
    BY <1>9, <2>1, <2>3, PagePut
  <2> QED  BY <2>2, <2>4 DEF PutBy
<1>16. /\ call' \in CallSet /\ call'.tid = call.tid /\ call'.file = call.file
       /\ call'.own = call.own /\ call'.ino0 = call.ino0
  <2>1. call \in CallSet /\ "inode" \in Nodes
    BY <1>2, TransactionsAssumption DEF TypeInv
  <2>2. PICK n : n = [call.new EXCEPT !["inode"] = NextAddr]
    OBVIOUS
  <2>3. n \in [Nodes -> Addr0]
    BY <1>9, <2>1, <2>2 DEF CallSet, Addr0
  <2>4. call' = [call EXCEPT !.new = n]
    BY <1>14, <2>1, <2>2 DEF CallSet
  <2> QED  BY <2>1, <2>3, <2>4 DEF CallSet
<1>17. PICK own2 : own2 = WithPage(own, a)
  OBVIOUS
<1>18. Len(tr[T].vots) <= VotsPerPage /\ Len(tr[T].vots) # VotsPerPage
  <2>1. VotsBound(<<>>, <<>>) /\ ~ Dying(<<>>, T)
    BY <1>2 DEF Running, Dying
  <2> QED  BY <1>2, <2>1 DEF VotsBound
<1>19. Puts(own, own2, vw, vw, a, "inode", p)
  <2>1. Page("inode", p, tr[T].prev) \in PageSet
    BY <1>8, <1>11 DEF Page, PageSet
  <2>2. Votes(own, vw, T)
    BY <1>2 DEF UncommittedPhase
  <2>3. vw[T] \subseteq MayVote(own, T)
    BY <2>2 DEF Votes
  <2>4. \A i \in 1 .. Len(tr'[T].vots) : tr'[T].vots[i] \in vw[T]
    BY <1>12, <1>15, <2>2 DEF Votes, VotsOf
  <2> QED  BY <1>12, <1>15, <1>16, <1>17, <2>1, <2>3, <2>4 DEF Puts
<1>20. /\ own2 \in Owned /\ own2[T] = own[T] \cup {a} /\ SameTree
       /\ PagesKept(own[T]) /\ pages'[a] = Page("inode", p, tr[T].prev)
       /\ a # EMPTY /\ a \notin own[T]
  <2>1. /\ own2 \in Owned /\ own2[T] = own[T] \cup {a} /\ SameTree
        /\ PagesKept(own[T])
    <3>1. own2 \in Owned /\ own2[T] = own[T] \cup {a}
      <4>1. T \in Tids
        BY <1>2
      <4> QED  BY <1>17, <4>1, OwnPlus
    <3>2. SameTree
      BY <1>15, SameSaved
    <3>3. PagesKept(own[T])
      BY <1>2, <1>19, PutsFacts
    <3> QED  BY <3>1, <3>2, <3>3
  <2>2. a \notin own[T] /\ a # EMPTY
    BY <1>2, <1>19, PutsFacts
  <2>3. pages'[a] = Page("inode", p, tr[T].prev)
    BY <1>2, <1>15 DEF TypeInv
  <2> QED  BY <2>1, <2>2, <2>3
<1>21. a \notin vw[T]
  BY <1>2, <1>19, NotVoted
<1>22. Keeps(own, own2, vw, vw, EMPTY)
  BY <1>15, <1>16, <1>20 DEF Keeps
<1>23. Pass(vw, f, k)' /\ (call.file \in Inodes \/ f # Dir) /\ NotData(EMPTY)
  BY <1>2, <1>4, <1>22, PassSame
<1>24. PICK t \in Tids : t = T /\ t = T'
  BY <1>2, <1>16 DEF T
<1>25. PICK z : z = call.ino0 /\ z = call'.ino0
  BY <1>16
<1>26. PICK ref : ref = pages[z].ref /\ ref = pages'[z].ref
  <2>1. IsRoot(own, z)
    BY <1>6, <1>25 DEF BaseOK
  <2> QED  BY <1>2, <1>22, <1>23, <2>1, RootsKept
<1>27. IsRoot(own2, z)' /\ BaseRef(own2, vw, f, ref)' /\ BaseRef(own, vw, f, ref)
  <2>1. IsRoot(own, z) /\ BaseRef(own, vw, f, ref)
    BY <1>6, <1>25, <1>26 DEF BaseOK
  <2>2. BaseRef(own2, vw, f, ref)'
    BY <1>2, <1>22, <1>23, <2>1, BaseRefKept
  <2> QED  BY <1>2, <1>22, <1>23, <2>1, <2>2, RootsKept
<1>28. Pointers(own2, vw, t, p, f)' /\ ContOf(pages, p)' = ContOf(pages, p)
  <2>1. PagesKept(own[t]) /\ own[t] \subseteq own2[t] /\ Pointers(own, vw, t, p, f)
        /\ vw[t] \subseteq vw[t] \cup ({EMPTY} \ {EMPTY})
    BY <1>8, <1>20, <1>24
  <2> QED  BY <1>2, <1>20, <1>23, <2>1, PointersKept
<1>29. NewFile(own2, vw, f, a)'
  <2>1. pages'[a].kind = "inode" /\ pages'[a].ref = p
    BY <1>20 DEF Page
  <2>2. Pointers(own2, vw, T, pages[a].ref, f)'
    BY <1>24, <1>28, <2>1 DEF Pointers
  <2>3. intent'[T'][f] = FileCont(pages', a)
    <3>1. intent'[T'][f] = ContOf(pages, p)
      BY <1>6, <1>7, <1>15, <1>24
    <3>2. ContOf(pages', p) = ContOf(pages, p)
      BY <1>28
    <3>3. FileCont(pages', a) = ContOf(pages', p)
      BY <1>20, <2>1 DEF FileCont
    <3> QED  BY <3>1, <3>2, <3>3
  <2>4. a \in own2[T'] \ vw[T']
    BY <1>20, <1>21, <1>24
  <2>5. f = call'.file => \A b \in Blocks : pages'[a].ref[b] = EMPTY
    BY <1>6, <1>7, <1>16, <2>1
  <2> QED  BY <1>20, <2>1, <2>2, <2>3, <2>4, <2>5 DEF NewFile
<1>30. f = Dir => a \notin {EMPTY, ref[call'.file]}
  <2>1. ASSUME f = Dir
        PROVE  ref[call.file] # a
    <3>1. PICK n \in Addr0 : ref = [Ref0 EXCEPT ![call.file] = n]
                              /\ NewFile(own, vw, call.file, n)
      BY <1>27, <2>1 DEF BaseRef
    <3>2. n # a
      BY <1>20, <3>1 DEF NewFile
    <3>3. call.file \in DOMAIN Ref0
      BY <1>2, <1>23, <2>1, TreeFacts
    <3> QED  BY <3>1, <3>2, <3>3
  <2> QED  BY <1>16, <1>20, <2>1
<1>31. KeepPhase(own2, vw, f, k, kKeep(f, k))'
  <2>1. tr'[T'].inoAddr = a
    BY <1>12, <1>15, <1>24
  <2>2. Entered(own2, vw, f, ref, a)'
    BY <1>27, <1>29, <1>30 DEF Entered
  <2>3. Entered(own2, vw, f, pages[call.ino0].ref, tr[T].inoAddr)'
    BY <1>25, <1>26, <2>1, <2>2 DEF Entered, NewFile, BaseRef
  <2>4. IsRoot(own2, call.ino0)'
    BY <1>25, <1>27 DEF IsRoot
  <2> QED  BY <1>20, <2>1, <2>3, <2>4 DEF KeepPhase
<1>32. MainPhase(own2, vw, kKeep(f, k))'
  BY <1>23, <1>31 DEF MainPhase, PassPhase
<1>33. /\ todo' = H \o (<<>> \o kKeep(f, k)) /\ <<>> \in Seq(Ops)
       /\ Between(own2, vw, <<>>)'
  <2>1. <<>> \in Seq(Ops) /\ <<>> \o kKeep(f, k) = kKeep(f, k)
    BY <1>5, Cat
  <2> QED  BY <1>15, <2>1 DEF Between
<1>34. /\ m \notin {kLast, kSetFs, kCp}
       /\ Head(kKeep(f, k)).op \notin {"checkpoint", "lastVots", "setFs"}
       /\ Len(tr'[T].vots) <= VotsPerPage /\ Len(tr'[T].vots) # VotsPerPage
  BY <1>1, <1>2, <1>5, <1>12, <1>15, <1>18, EndHeads
<1>35. fs' = fs /\ (H = <<>> \/ H = <<Todo("find"), Do("prev", NoInode, a)>>)
  BY <1>14, <1>15
<1> QED  BY <1>2, <1>5, <1>16, <1>19, <1>20, <1>32, <1>33, <1>34, <1>35, WriteHeader

(* inode0 is written.                                                      *)
LEMMA WriteInode0Step ==
  ASSUME Direct, TransInv, WriteInode0
  PROVE  TransInv'
<1>1. todo # <<>> /\ Op.op = "writeInode0" /\ "writeInode0" \in MainOps
  BY DEF WriteInode0, Doing, MainOps
<1>2. PICK own \in Owned, vw \in Owned, m \in Seq(Ops), C \in AddrSets, D \in AddrSets :
           /\ Running(own, vw, <<>>, <<>>, m) /\ UncommittedPhase(own, vw, <<>>, m)
           /\ T \in Tids /\ Recoverable(C, D)
           /\ todo = m /\ m # <<>> /\ Op = Head(m) /\ Rest = Tail(m)
           /\ TypeInv /\ TreeKept /\ FsOK(m) /\ MainPhase(own, vw, m)
  BY <1>1, MainTodo
<1>3. PassPhase(own, vw, m)
  BY <1>1, <1>2, MainHead
<1>4. PICK f \in Inodes, k \in Seq(Ops) :
        Pass(vw, f, k) /\ m = kWriteZ(f, k) /\ Inode0Phase(own, vw, f, k, m)
  BY <1>1, <1>2, <1>3, PassOp
<1>5. T \in Tids /\ TypeInv /\ TreeKept
  BY <1>2
<1>6. PICK p : p = tr[T].ptrs
  OBVIOUS
<1>7. NewRef(own, vw, f, p)
  BY <1>4, <1>6 DEF Inode0Phase
<1>8. p \in [Inodes -> Addr0]
  <2>1. PICK base \in [Inodes -> Addr0], n \in Addr0 : p = [base EXCEPT ![f] = n]
    BY <1>7 DEF NewRef
  <2> QED  BY <2>1
<1>9. NextAddr \in Addr
  <2>1. FreePages > 0
    BY DEF WriteInode0, WritePage
  <2> QED  BY <1>2, <2>1, FreshPage
<1>10. PICK r : r = [tr[T] EXCEPT !.inoAddr = NextAddr]
  OBVIOUS
<1>11. tr \in [Tids -> TrSet] /\ tr[T] \in TrSet /\ tr[T].prev \in Addr0
  BY <1>5 DEF TypeInv, TrSet
<1>12. /\ r \in TrSet /\ r.vots = tr[T].vots /\ r.prev = tr[T].prev
       /\ r.inoAddr = NextAddr
  BY <1>9, <1>10, <1>11 DEF TrSet, Addr0
<1>13. PICK r2 : r2 = [tr EXCEPT ![T].inoAddr = NextAddr] /\ r2 = [tr EXCEPT ![T] = r]
  BY <1>10, <1>11
<1>14. Rest = k
  BY <1>2, <1>4, PassFacts
<1>15. PICK m2 : m2 = kNew(NextAddr, k)
  OBVIOUS
<1>16. /\ m2 \in Seq(Ops) /\ Head(m2).op = "newInode0"
  <2>1. NextAddr \in Addr0
    BY <1>9 DEF Addr0
  <2> QED  BY <1>15, <2>1, NewFacts DEF Do
<1>17. WritePage("ino0", p, r2, m2) /\ fs' = fs /\ call' = call
  BY <1>6, <1>13, <1>14, <1>15 DEF WriteInode0, Kept, kNew, Then
<1>18. PICK a \in Addr, H \in Seq(Ops) :
           /\ a = NextAddr /\ FreePages > 0
           /\ pages' = [pages EXCEPT ![a] = Page("ino0", p, tr[T].prev)]
           /\ obs' = obs \ {a} /\ UNCHANGED <<saved, marked, intent>>
           /\ tr' \in [Tids -> TrSet] /\ \A u \in Tids \ {T} : tr'[u] = tr[u]
           /\ tr'[T].prev \in {a, r.prev} /\ tr'[T].vots = r.vots
           /\ tr'[T].ino = r.ino /\ tr'[T].inoAddr = r.inoAddr
           /\ tr'[T].node = r.node /\ tr'[T].ptrs = r.ptrs
           /\ todo' = H \o m2
           /\ H = <<>> \/ H = <<Todo("find"), Do("prev", NoInode, a)>>
  <2>1. Op.op # "lastVots"
    BY <1>1
  <2>2. r \in TrSet
    BY <1>12
  <2>3. r2 = [tr EXCEPT ![T] = r] /\ WritePage("ino0", p, r2, m2) /\ m2 \in Seq(Ops)
    BY <1>13, <1>16, <1>17
  <2>4. \E a \in Addr, H \in Seq(Ops) : PutBy("ino0", p, r, m2, a, H)
    BY <1>5, <1>9, <2>1, <2>2, <2>3, PagePut
  <2> QED  BY <2>4 DEF PutBy
<1>19. PICK own2 : own2 = WithPage(own, a)
  OBVIOUS
<1>20. Len(tr[T].vots) <= VotsPerPage /\ Len(tr[T].vots) # VotsPerPage
  <2>1. VotsBound(<<>>, <<>>) /\ ~ Dying(<<>>, T)
    BY <1>2 DEF Running, Dying
  <2> QED  BY <1>5, <2>1 DEF VotsBound
<1>21. Puts(own, own2, vw, vw, a, "ino0", p)
  <2>1. Page("ino0", p, tr[T].prev) \in PageSet
    BY <1>8, <1>11 DEF Page, PageSet
  <2>2. Votes(own, vw, T)
    BY <1>2 DEF UncommittedPhase
  <2>3. vw[T] \subseteq MayVote(own, T)
    BY <2>2 DEF Votes
  <2>4. \A i \in 1 .. Len(tr'[T].vots) : tr'[T].vots[i] \in vw[T]
    BY <1>12, <1>18, <2>2 DEF Votes, VotsOf
  <2>5. call'.tid = call.tid /\ "ino0" # "none" /\ "ino0" # "vots"
    BY <1>17
  <2> QED  BY <1>12, <1>18, <1>19, <2>1, <2>3, <2>4, <2>5 DEF Puts
<1>22. own2 \in Owned /\ own2[T] = own[T] \cup {a}
  BY <1>5, <1>19, OwnPlus
<1>23. PagesKept(own[T]) /\ a # EMPTY /\ SameTree
  BY <1>2, <1>21, PutsFacts
<1>24. a \notin vw[T]
  BY <1>2, <1>21, NotVoted
<1>25. Keeps(own, own2, vw, vw, EMPTY)
  BY <1>17, <1>18, <1>22, <1>23 DEF Keeps
<1>26. Pass(vw, f, k)' /\ (call.file \in Inodes \/ f # Dir) /\ NotData(EMPTY)
  BY <1>4, <1>5, <1>25, PassSame
<1>27. PICK t \in Tids : t = T /\ t = T'
  BY <1>5, <1>17 DEF T
<1>28. pages'[a].kind = "ino0" /\ pages'[a].ref = p
  BY <1>5, <1>18 DEF TypeInv, Page
<1>29. NewRef(own2, vw, f, p)'
  BY <1>5, <1>7, <1>25, <1>26, NewRefKept
<1>30. NewRef(own2, vw, f, pages[a].ref)'
  BY <1>28, <1>29 DEF NewRef
<1>31. NewRoot(own2, vw, f, a)'
  BY <1>22, <1>24, <1>27, <1>28, <1>30 DEF NewRoot
<1>32. MainPhase(own2, vw, m2)'
  <2>1. m2 = kNew(a, k)
    BY <1>15, <1>18
  <2>2. NewPhase(own2, vw, f, k, m2)'
    BY <1>31, <2>1 DEF NewPhase
  <2> QED  BY <1>26, <2>2 DEF MainPhase, PassPhase
<1>33. /\ todo' = H \o (<<>> \o m2) /\ <<>> \in Seq(Ops)
       /\ Between(own2, vw, <<>>)'
  <2>1. <<>> \in Seq(Ops) /\ <<>> \o m2 = m2
    BY <1>16, Cat
  <2> QED  BY <1>18, <2>1 DEF Between
<1>34. /\ m \notin {kLast, kSetFs, kCp}
       /\ Head(m2).op \notin {"checkpoint", "lastVots", "setFs"}
       /\ Len(tr'[T].vots) <= VotsPerPage /\ Len(tr'[T].vots) # VotsPerPage
  BY <1>1, <1>2, <1>12, <1>16, <1>18, <1>20, EndHeads
<1>35. fs' = fs /\ (H = <<>> \/ H = <<Todo("find"), Do("prev", NoInode, a)>>)
  BY <1>17, <1>18
<1>36. call' \in CallSet
  BY <1>5, <1>17 DEF TypeInv
<1> QED  BY <1>2, <1>16, <1>21, <1>22, <1>32, <1>33, <1>34, <1>35, <1>36, WriteHeader

(* The pointer of a block is set to the page that was written for it.      *)
LEMMA PointerSet ==
  ASSUME NEW own \in Owned, NEW vw \in Owned, NEW own2 \in Owned, NEW vw2 \in Owned,
         NEW a \in Addr, NEW b \in Blocks, NEW p \in [Blocks -> Addr0],
         NEW p2, NEW f \in Inodes,
         TypeInv, TreeKept, T \in Tids, T' = T, SameTree, PagesKept(own[T]),
         Pointers(own, vw, T, p, f), p2 = [p EXCEPT ![b] = a],
         a \notin own[T], a \notin Tree0, a \notin vw2[T],
         own2[T] = own[T] \cup {a}, vw2[T] = vw[T] \cup ({p[b]} \ {EMPTY}),
         pages'[a].kind = "data"
  PROVE  /\ p2 \in [Blocks -> Addr0] /\ Pointers(own2, vw2, T, p2, f)'
<1>1. Pages0(f)' = Pages0(f) /\ Pages0(f) \subseteq Tree0
  BY TreeFacts DEF SameTree
<1>2. a # EMPTY /\ a \in Addr0
  BY AddrFacts DEF Addr0
<1>3. /\ p2 \in [Blocks -> Addr0] /\ p2[b] = a
      /\ \A c \in Blocks \ {b} : p2[c] = p[c]
  BY <1>2
<1>4. \A c \in Blocks : p[c] # EMPTY =>
        /\ p[c] \in (own[T] \cup Pages0(f)) \ vw[T]
        /\ pages[p[c]].kind = "data"
        /\ \A d \in Blocks \ {c} : p[d] # p[c]
  BY DEF Pointers
<1>5. \A c \in Blocks : p[c] # EMPTY => p[c] # a /\ pages'[p[c]] = pages[p[c]]
  BY <1>1, <1>4 DEF PagesKept
<1>6. \A c \in Blocks \ {b} : p2[c] # EMPTY =>
        /\ p2[c] \in (own2[T] \cup Pages0(f)) \ vw2[T]
        /\ pages'[p2[c]].kind = "data"
        /\ p2[c] # p2[b] /\ \A d \in Blocks \ {b, c} : p2[d] # p2[c]
  <2>1. TAKE c \in Blocks \ {b}
  <2>2. HAVE p2[c] # EMPTY
  <2>3. p2[c] = p[c] /\ p[c] # EMPTY /\ p[c] # p[b]
    BY <1>3, <1>4, <2>2
  <2> QED  BY <1>3, <1>4, <1>5, <2>3
<1>7. /\ p2[b] \in (own2[T] \cup Pages0(f)) \ vw2[T]
      /\ pages'[p2[b]].kind = "data"
      /\ \A c \in Blocks \ {b} : p2[c] # p2[b]
  BY <1>2, <1>3, <1>5
<1>8. \A c \in Blocks : p2[c] # EMPTY =>
        /\ p2[c] \in (own2[T] \cup Pages0(f)) \ vw2[T]
        /\ pages'[p2[c]].kind = "data"
        /\ \A d \in Blocks \ {c} : p2[d] # p2[c]
  BY <1>6, <1>7
<1>9. Pointers(own2, vw2, T, p2, f)'
  BY <1>1, <1>8 DEF Pointers
<1> QED  BY <1>3, <1>9

(* A block is written.                                                     *)
LEMMA WriteDataStep ==
  ASSUME Direct, TransInv, WriteData
  PROVE  TransInv'
<1>1. todo # <<>> /\ Op.op = "writeData" /\ "writeData" \in MainOps
  BY DEF WriteData, Doing, MainOps
<1>2. PICK own \in Owned, vw \in Owned, m \in Seq(Ops), C \in AddrSets, D \in AddrSets :
           /\ Running(own, vw, <<>>, <<>>, m) /\ UncommittedPhase(own, vw, <<>>, m)
           /\ T \in Tids /\ Recoverable(C, D)
           /\ todo = m /\ m # <<>> /\ Op = Head(m) /\ Rest = Tail(m)
           /\ TypeInv /\ TreeKept /\ FsOK(m) /\ MainPhase(own, vw, m)
  BY <1>1, MainTodo
<1>3. WritePhase(own, vw, m)
  BY <1>1, <1>2, MainHead
<1>4. PICK b \in Blocks, e \in Values, k \in Seq(Ops) :
           /\ m = kData(b, e, k) /\ tr[T].node = "inode"
           /\ WriteOf(own, vw, k) /\ OpenFile(own, vw, T)
           /\ intent[T][tr[T].ino] = [ContOf(pages, PtrsNow(T)) EXCEPT ![b] = e]
  <2>1. PICK b \in Blocks, e \in Values, k \in Seq(Ops) :
           /\ \/ m = kSeek(b, e, k)
              \/ m = kLoad(b, e, k) /\ tr[T].node = "none"
              \/ m = kData(b, e, k) /\ tr[T].node = "inode"
           /\ WriteOf(own, vw, k) /\ OpenFile(own, vw, T)
           /\ intent[T][tr[T].ino] = [ContOf(pages, PtrsNow(T)) EXCEPT ![b] = e]
    BY <1>3 DEF WritePhase
  <2>2. m # kSeek(b, e, k) /\ m # kLoad(b, e, k)
    BY <1>1, <1>2, DataHeads
  <2> QED  BY <2>1, <2>2
<1>5. T \in Tids /\ TypeInv /\ TreeKept
  BY <1>2
<1>6. Op = Do("writeData", b, e) /\ Rest = k
  BY <1>2, <1>4, DataFacts
<1>7. Op.x = b /\ Op.a = e
  BY <1>6 DEF Do
<1>8. PICK p, v : p = tr[T].ptrs /\ v = p[b]
  OBVIOUS
<1>9. PICK f \in Inodes : f = tr[T].ino
  BY <1>4 DEF OpenFile
<1>10. /\ p \in [Blocks -> Addr0] /\ Pointers(own, vw, T, p, f) /\ PtrsNow(T) = p
  BY <1>4, <1>8, <1>9 DEF OpenFile, PtrsNow
<1>11. NextAddr \in Addr
  <2>1. FreePages > 0
    BY DEF WriteData, WritePage
  <2> QED  BY <1>2, <2>1, FreshPage
<1>12. PICK p2 : p2 = [p EXCEPT ![b] = NextAddr]
  OBVIOUS
<1>13. p2 \in [Blocks -> Addr0]
  BY <1>10, <1>11, <1>12 DEF Addr0
<1>14. PICK r : r = [tr[T] EXCEPT !.ptrs = p2]
  OBVIOUS
<1>15. tr \in [Tids -> TrSet] /\ tr[T] \in TrSet /\ tr[T].prev \in Addr0
  BY <1>5 DEF TypeInv, TrSet
<1>16. /\ r \in TrSet /\ r.vots = tr[T].vots /\ r.prev = tr[T].prev /\ r.ptrs = p2
       /\ r.inoAddr = tr[T].inoAddr /\ r.ino = tr[T].ino /\ r.node = tr[T].node
  BY <1>13, <1>14, <1>15 DEF TrSet
<1>17. PICK r2 : r2 = [tr EXCEPT ![T].ptrs[b] = NextAddr] /\ r2 = [tr EXCEPT ![T] = r]
  BY <1>8, <1>12, <1>14, <1>15
<1>18. PICK X2 : X2 = <<Do("vot", NoInode, v)>>
  OBVIOUS
<1>19. v \in Addr0 /\ Do("vot", NoInode, v) \in Ops
  <2>1. v \in Addr0
    BY <1>8, <1>10
  <2>2. "vot" \in OpNames /\ NoInode \in Names /\ v \in Args
    BY <2>1 DEF OpNames, Names, Args
  <2> QED  BY <2>1, <2>2, DoFacts
<1>20. X2 \in Seq(Ops) /\ Len(X2) = 1 /\ X2[1] = Do("vot", NoInode, v)
  BY <1>18, <1>19
<1>21. PICK ops : ops = X2 \o k
  OBVIOUS
<1>22. ops \in Seq(Ops)
  BY <1>20, <1>21, Cat
<1>23. WritePage("data", e, r2, ops) /\ fs' = fs /\ call' = call
  BY <1>6, <1>7, <1>8, <1>17, <1>18, <1>21 DEF WriteData, Kept
<1>24. PICK a \in Addr, H \in Seq(Ops) :
           /\ a = NextAddr /\ FreePages > 0
           /\ pages' = [pages EXCEPT ![a] = Page("data", e, tr[T].prev)]
           /\ obs' = obs \ {a} /\ UNCHANGED <<saved, marked, intent>>
           /\ tr' \in [Tids -> TrSet] /\ \A u \in Tids \ {T} : tr'[u] = tr[u]
           /\ tr'[T].prev \in {a, r.prev} /\ tr'[T].vots = r.vots
           /\ tr'[T].ino = r.ino /\ tr'[T].inoAddr = r.inoAddr
           /\ tr'[T].node = r.node /\ tr'[T].ptrs = r.ptrs
           /\ todo' = H \o ops
           /\ H = <<>> \/ H = <<Todo("find"), Do("prev", NoInode, a)>>
  <2>1. Op.op # "lastVots"
    BY <1>1
  <2>2. r \in TrSet
    BY <1>16
  <2>3. r2 = [tr EXCEPT ![T] = r] /\ WritePage("data", e, r2, ops)
    BY <1>17, <1>23
  <2>4. \E a \in Addr, H \in Seq(Ops) : PutBy("data", e, r, ops, a, H)
    BY <1>5, <1>11, <1>22, <2>1, <2>2, <2>3, PagePut
  <2> QED  BY <2>4 DEF PutBy
<1>25. PICK own2 : own2 = WithPage(own, a)
  OBVIOUS
<1>26. PICK vw2 : vw2 = [vw EXCEPT ![T] = vw[T] \cup ({v} \ {EMPTY})]
  OBVIOUS
<1>27. /\ vw2 \in Owned /\ vw2[T] = vw[T] \cup ({v} \ {EMPTY})
       /\ \A u \in Tids \ {T} : vw2[u] = vw[u]
  <2>1. vw[T] \cup ({v} \ {EMPTY}) \in AddrSets
    BY <1>5, <1>19 DEF Owned, AddrSets, Addr0
  <2> QED  BY <1>5, <1>26, <2>1 DEF Owned
<1>28. Len(tr[T].vots) <= VotsPerPage /\ Len(tr[T].vots) # VotsPerPage
  <2>1. VotsBound(<<>>, <<>>) /\ ~ Dying(<<>>, T)
    BY <1>2 DEF Running, Dying
  <2> QED  BY <1>5, <2>1 DEF VotsBound
<1>29. f \in DOMAIN intent[T]
  BY <1>4, <1>9 DEF WriteOf, OfFile, DirCommit
<1>30. v # EMPTY => /\ v \in (own[T] \cup Pages0(f)) \ vw[T] /\ pages[v].kind = "data"
                    /\ v \in MayVote(own, T)
  BY <1>8, <1>10, <1>29 DEF Pointers, MayVote
<1>31. Puts(own, own2, vw, vw2, a, "data", e)
  <2>1. Page("data", e, tr[T].prev) \in PageSet
    BY <1>15 DEF Page, PageSet
  <2>2. Votes(own, vw, T)
    BY <1>2 DEF UncommittedPhase
  <2>3. vw[T] \subseteq vw2[T] /\ vw2[T] \subseteq MayVote(own, T)
    BY <1>27, <1>30, <2>2 DEF Votes
  <2>4. \A i \in 1 .. Len(tr'[T].vots) : tr'[T].vots[i] \in vw2[T]
    BY <1>16, <1>24, <2>2, <2>3 DEF Votes, VotsOf
  <2>5. call'.tid = call.tid /\ "data" # "none" /\ "data" # "vots"
    BY <1>23
  <2> QED  BY <1>16, <1>24, <1>25, <1>27, <2>1, <2>3, <2>4, <2>5 DEF Puts
<1>32. own2 \in Owned /\ own2[T] = own[T] \cup {a}
  BY <1>5, <1>25, OwnPlus
<1>33. PagesKept(own[T]) /\ a # EMPTY /\ SameTree /\ a \notin own[T] /\ a \notin Tree0
  <2>1. Running(own, vw, <<>>, <<>>, m) /\ UncommittedPhase(own, vw, <<>>, m)
    BY <1>2
  <2>2. vw2 \in Owned
    BY <1>27
  <2>3. a # EMPTY /\ a \notin Tree0 /\ \A u \in Tids : a \notin own[u]
    BY <1>5, <1>31, <2>1, <2>2, PutsFacts
  <2>4. \A u \in Tids : PagesKept(own[u])
    BY <1>5, <1>31, <2>1, <2>2, PutsFacts
  <2> QED  BY <1>5, <1>24, <2>3, <2>4, SameSaved
<1>34. a \notin vw2[T]
  BY <1>2, <1>27, <1>31, NotVoted
<1>35. Keeps(own, own2, vw, vw2, v)
  BY <1>23, <1>24, <1>27, <1>30, <1>32, <1>33 DEF Keeps
<1>36. T' = T
  BY <1>23 DEF T
<1>37. pages'[a].kind = "data" /\ pages'[a].ref = e
  BY <1>5, <1>24 DEF TypeInv, Page
<1>38. /\ p2 \in [Blocks -> Addr0] /\ Pointers(own2, vw2, T, p2, f)'
       /\ ContOf(pages', p2) = [ContOf(pages, p) EXCEPT ![b] = e]
  <2>1. p2 = [p EXCEPT ![b] = a]
    BY <1>8, <1>12, <1>24
  <2>2. /\ own2 \in Owned /\ own2[T] = own[T] \cup {a}
        /\ vw2 \in Owned /\ vw2[T] = vw[T] \cup ({p[b]} \ {EMPTY})
    BY <1>8, <1>27, <1>32
  <2>3. /\ SameTree /\ PagesKept(own[T]) /\ T' = T /\ Pointers(own, vw, T, p, f)
        /\ p \in [Blocks -> Addr0]
    BY <1>10, <1>33, <1>36
  <2>4. a \notin own[T] /\ a \notin Tree0 /\ a \notin vw2[T]
    BY <1>33, <1>34
  <2>5. /\ p2 \in [Blocks -> Addr0] /\ Pointers(own2, vw2, T, p2, f)'
    BY <1>5, <1>37, <2>1, <2>2, <2>3, <2>4, PointerSet
  <2>6. ContOf(pages', p2) = [ContOf(pages, p) EXCEPT ![b] = e]
    <3>1. ContOf(pages', p2) = [ContOf(pages, p) EXCEPT ![b] = pages'[a].ref]
      <4>1. Pages0(f) \subseteq Tree0
        BY <1>5, TreeFacts
      <4>2. p2[b] = a /\ \A c \in Blocks \ {b} : p2[c] = p[c]
        BY <2>1, <2>3
      <4>3. \A c \in Blocks : p[c] # EMPTY => p[c] # a /\ pages'[p[c]] = pages[p[c]]
        BY <2>3, <2>4, <4>1 DEF PagesKept, Pointers
      <4>4. \A c \in Blocks : (IF p2[c] = EMPTY THEN {} ELSE pages'[p2[c]].ref) =
              IF c = b THEN pages'[a].ref
              ELSE IF p[c] = EMPTY THEN {} ELSE pages[p[c]].ref
        BY <1>33, <4>2, <4>3
      <4> QED  BY <4>4 DEF ContOf
    <3> QED  BY <1>37, <3>1
  <2> QED  BY <2>5, <2>6
<1>39. /\ tr'[T'].ino = f /\ tr'[T'].node = "inode" /\ tr'[T'].ptrs = p2
       /\ tr'[T'].inoAddr = tr[T].inoAddr
  BY <1>4, <1>9, <1>16, <1>24, <1>36
<1>40. OpenFile(own2, vw2, T)'
  <2>1. tr[T].inoAddr = Ref0[f] /\ Ref0' = Ref0
    BY <1>4, <1>9, <1>33 DEF OpenFile, SameTree
  <2>2. PtrsNow(T)' = p2
    BY <1>39 DEF PtrsNow
  <2>3. Pointers(own2, vw2, T, PtrsNow(T), tr[T].ino)'
    BY <1>38, <1>39, <2>2 DEF Pointers
  <2> QED  BY <1>38, <1>39, <2>1, <2>3 DEF OpenFile
<1>41. intent'[T'][f] = ContOf(pages', p2)
  BY <1>4, <1>9, <1>10, <1>24, <1>36, <1>38
<1>42. Votes(own2, vw2, T)'
  BY <1>2, <1>27, <1>31, PutsFacts
<1>43. MainPhase(own2, vw2, k)' /\ Head(k).op \notin {"checkpoint", "lastVots", "setFs"}
  <2>1. CASE k = kRet /\ call.file = NoInode /\ OfFile(T) /\ Root \notin vw[T]
    <3>1. OfFile(T)'
      BY <1>9, <1>24, <1>33, <1>36, <1>39, <2>1 DEF OfFile, SameTree
    <3>5. Root' \notin vw2[T']
      <4>1. own[T] \cap Tree0 = {}
        BY <1>2 DEF UncommittedPhase, LiveOwn
      <4>2. Root \in Tree0 /\ Root \notin Pages0(f)
        BY <1>5, TreeFacts
      <4>3. v = EMPTY \/ v # Root
        BY <1>30, <4>1, <4>2
      <4> QED  BY <1>27, <1>33, <1>36, <2>1, <4>3 DEF SameTree
    <3>2. intent'[T'][tr'[T'].ino] = ContOf(pages', tr'[T'].ptrs)
      BY <1>39, <1>41
    <3>3. InUse(own2, vw2, T)'
      BY <1>39, <1>40, <1>42, <3>1, <3>2, <3>5 DEF InUse
    <3>4. WrittenPhase(own2, vw2, k)'
      BY <1>23, <2>1, <3>3 DEF WrittenPhase
    <3> QED  BY <2>1, <3>4, EndHeads DEF MainPhase
  <2>2. CASE k = kDirCommit /\ DirCommit /\ tr[T].ino = Dir /\ BaseOK(own, vw, Dir)
    <3>1. f = Dir /\ Dir \in Inodes /\ call.file \in Inodes /\ call.file # Dir
      BY <1>9, <2>2, DirectFacts DEF DirCommit
    <3>2. PICK z : z = call.ino0 /\ z = call'.ino0
      BY <1>23
    <3>3. IsRoot(own, z) /\ BaseRef(own, vw, f, pages[z].ref)
      BY <2>2, <3>1, <3>2 DEF BaseOK
    <3>4. IsRoot(own2, z)' /\ BaseRef(own2, vw2, f, pages[z].ref)'
      BY <1>5, <1>35, <3>1, <3>3, RootsKept
    <3>5. BaseOK(own2, vw2, Dir)'
      BY <3>1, <3>2, <3>4 DEF BaseOK, IsRoot, BaseRef, NewFile
    <3>6. DirCommit'
      BY <1>23, <1>24, <2>2, CommitsKept
    <3>7. Pass(vw2, Dir, kLast)'
      BY <3>6 DEF Pass
    <3>8. CommitInodePhase(own2, vw2, Dir, kLast, k)'
      <4>1. intent'[T'][Dir] = ContOf(pages', tr'[T'].ptrs)
        BY <1>39, <1>41, <3>1
      <4>2. Dir # call'.file
        BY <1>23, <3>1
      <4> QED  BY <1>39, <1>40, <2>2, <3>1, <3>5, <4>1, <4>2
                 DEF CommitInodePhase, kDirCommit
    <3>9. MainPhase(own2, vw2, k)'
      BY <3>1, <3>7, <3>8, EndFacts DEF MainPhase, PassPhase
    <3>10. Head(k).op = "commitInode"
      <4>1. kLast \in Seq(Ops)
        BY EndFacts
      <4>2. Head(kCommit(Dir, kLast)) = Todo("commitInode")
        BY <3>1, <4>1, PassFacts
      <4> QED  BY <2>2, <4>2 DEF kDirCommit, Todo, Do
    <3> QED  BY <3>9, <3>10
  <2> QED  BY <1>4, <2>1, <2>2 DEF WriteOf
<1>44. Between(own2, vw2, X2)'
  <2>1. \A i \in 1 .. Len(X2) : X2[i].op = "vot" /\ X2[i].a \in vw2[T'] \cup {EMPTY}
    <3>1. /\ Do("vot", NoInode, v).op = "vot" /\ Do("vot", NoInode, v).a = v
      BY DEF Do
    <3> QED  BY <1>20, <1>27, <1>36, <3>1
  <2> QED  BY <2>1 DEF Between
<1>45. /\ m \notin {kLast, kSetFs, kCp}
       /\ Len(tr'[T].vots) <= VotsPerPage /\ Len(tr'[T].vots) # VotsPerPage
  BY <1>1, <1>2, <1>16, <1>24, <1>28, EndHeads
<1>46. /\ fs' = fs /\ (H = <<>> \/ H = <<Todo("find"), Do("prev", NoInode, a)>>)
       /\ todo' = H \o (X2 \o k)
  BY <1>21, <1>23, <1>24
<1>47. call' \in CallSet
  BY <1>5, <1>23 DEF TypeInv
<1>48. /\ Running(own, vw, <<>>, <<>>, m) /\ UncommittedPhase(own, vw, <<>>, m)
       /\ Recoverable(C, D)
  BY <1>2
<1>49. own2 \in Owned /\ vw2 \in Owned /\ X2 \in Seq(Ops) /\ <<>> \in Seq(Ops)
  BY <1>20, <1>27, <1>32
<1> QED  BY <1>5, <1>31, <1>43, <1>44, <1>45, <1>46, <1>47, <1>48, <1>49, WriteHeader

(* The last VOTs are written; with a header only when the checkpoint that  *)
(* it writes saves the files of the last one.                              *)
LEMMA LastVotsStep ==
  ASSUME Direct, TransInv, LastVots
  PROVE  TransInv'
<1>1. todo # <<>> /\ Op.op = "lastVots" /\ "lastVots" \in MainOps
  BY DEF LastVots, Doing, MainOps
<1>2. PICK own \in Owned, vw \in Owned, m \in Seq(Ops), C \in AddrSets, D \in AddrSets :
           /\ Running(own, vw, <<>>, <<>>, m) /\ UncommittedPhase(own, vw, <<>>, m)
           /\ T \in Tids /\ Recoverable(C, D)
           /\ todo = m /\ m # <<>> /\ Op = Head(m) /\ Rest = Tail(m)
           /\ TypeInv /\ TreeKept /\ FsOK(m) /\ MainPhase(own, vw, m)
  BY <1>1, MainTodo
<1>3. LastPhase(own, vw, m) /\ m = kLast
  BY <1>1, <1>2, MainHead
<1>4. PICK m2 \in Seq(Ops) : m2 = kSetFs /\ Rest = m2 /\ m2 # kLast /\ m2 # kCp
  BY <1>2, <1>3, EndFacts, EndHeads
<1>5. T \in Tids /\ TypeInv /\ TreeKept /\ Recoverable(C, D)
      /\ Running(own, vw, <<>>, <<>>, m) /\ UncommittedPhase(own, vw, <<>>, m)
  BY <1>2
<1>6. fs' = fs /\ call' = call
  BY DEF LastVots, Kept
<1>7. LastPhase(own, vw, m2)
  BY <1>3, <1>4 DEF LastPhase
<1>8. fs.closed = EMPTY
      /\ fs.ino0 = IF InWindow(m2) THEN call.ino0 ELSE Root
  <2>1. m # kCp /\ Head(m).op = "lastVots"
    BY <1>3, EndHeads
  <2>2. fs.closed = EMPTY
    BY <1>2, <2>1, ClosedFacts
  <2>3. InWindow(m) <=> InWindow(m2)
    BY <1>3, <1>4, <2>1 DEF InWindow
  <2> QED  BY <1>2, <2>2, <2>3 DEF FsOK
<1>9. CASE tr[T].vots = <<>>
  <2>1. UNCHANGED <<pages, obs, saved, marked, intent, fs, tr, call>> /\ todo' = m2
    BY <1>4, <1>6, <1>9 DEF LastVots, flashVars
  <2>2. FsOK(m2)
    BY <1>4, <1>8 DEF FsOK
  <2>3. MainPhase(own, vw, m2)
    BY <1>7 DEF MainPhase
  <2> QED  BY <1>5, <2>1, <2>2, <2>3, TodoMain
<1>10. CASE tr[T].vots # <<>>
  <2>1. PICK v \in Seq(Addr) : v = tr[T].vots
    BY <1>5 DEF TypeInv, TrSet
  <2>2. WritePage("vots", v, tr, m2)
    BY <1>4, <1>10, <2>1 DEF LastVots
  <2>3. FreePages > 0
    BY <2>2 DEF WritePage
  <2>4. PICK a \in Addr : a = NextAddr
    BY <1>5, <2>3, FreshPage
  <2>5. tr \in [Tids -> TrSet] /\ tr[T] \in TrSet /\ tr[T].prev \in Addr0
    BY <1>5 DEF TypeInv, TrSet
  <2>6. PICK r : r = [tr[T] EXCEPT !.prev = a]
    OBVIOUS
  <2>7. /\ r \in TrSet /\ r.vots = v /\ r.prev = a
    BY <2>1, <2>5, <2>6 DEF TrSet, Addr0
  <2>8. /\ pages' = [pages EXCEPT ![a] = Page("vots", v, tr[T].prev)]
        /\ obs' = obs \ {a} /\ UNCHANGED <<saved, marked, intent>>
        /\ tr' = [tr EXCEPT ![T].prev = a]
        /\ \/ todo' = m2
           \/ todo' = <<Todo("find")>> \o m2 /\ ~ call.own
    BY <1>1, <2>2, <2>4 DEF WritePage, Direct
  <2>9. tr' = [tr EXCEPT ![T] = r]
    BY <2>5, <2>6, <2>8
  <2>10. tr' \in [Tids -> TrSet] /\ tr'[T] = r /\ \A u \in Tids \ {T} : tr'[u] = tr[u]
    BY <1>5, <2>5, <2>7, <2>9
  <2>11. PICK own2 : own2 = WithPage(own, a)
    OBVIOUS
  <2>12. own2 \in Owned /\ own2[T] = own[T] \cup {a}
    BY <1>5, <2>11, OwnPlus
  <2>13. Puts(own, own2, vw, vw, a, "vots", v)
    <3>1. Page("vots", v, tr[T].prev) \in PageSet
      BY <2>5 DEF Page, PageSet
    <3>2. Votes(own, vw, T)
      BY <1>5 DEF UncommittedPhase
    <3>3. \A i \in 1 .. Len(v) : v[i] \in vw[T]
      BY <2>1, <3>2 DEF Votes, VotsOf
    <3>4. vw[T] \subseteq MayVote(own, T)
      BY <3>2 DEF Votes
    <3>5. \A i \in 1 .. Len(tr'[T].vots) : tr'[T].vots[i] \in vw[T]
      BY <2>7, <2>10, <3>3
    <3> QED  BY <1>6, <2>3, <2>4, <2>7, <2>8, <2>10, <2>11, <3>1, <3>3, <3>4, <3>5 DEF Puts
  <2>14. PagesKept(own[T]) /\ SameTree
    <3>1. \A u \in Tids : PagesKept(own[u])
      BY <1>5, <2>13, PutsFacts
    <3> QED  BY <1>5, <2>8, <3>1, SameSaved
  <2>15. Keeps(own, own2, vw, vw, EMPTY)
    BY <1>6, <2>8, <2>12, <2>14 DEF Keeps
  <2>16. LastPhase(own2, vw, m2)'
    BY <1>5, <1>6, <1>7, <2>15, LastPhaseKept
  <2>17. MainPhase(own2, vw, m2)'
    BY <2>16 DEF MainPhase
  <2>18. FsOK(m2)'
    <3>1. InWindow(m2)' = InWindow(m2) /\ Root' = Root
      BY <1>6, <2>14 DEF InWindow, SameTree
    <3>2. fs'.ino0 = (IF InWindow(m2) THEN call.ino0 ELSE Root) /\ fs'.closed = EMPTY
      BY <1>6, <1>8
    <3> QED  BY <1>4, <1>6, <3>1, <3>2 DEF FsOK
  <2>19. Len(tr'[T].vots) <= VotsPerPage /\ Len(tr'[T].vots) # VotsPerPage
    <3>1. VotsBound(<<>>, <<>>) /\ ~ Dying(<<>>, T)
      BY <1>5 DEF Running, Dying
    <3> QED  BY <1>5, <2>1, <2>7, <2>10, <3>1 DEF VotsBound
  <2>20. fs' \in FsSet /\ call' \in CallSet
    BY <1>5, <1>6 DEF TypeInv
  <2>21. Between(own2, vw, <<>>)'
    BY DEF Between
  <2>22. /\ <<>> \in Seq(Ops) /\ <<>> \o m2 = m2 /\ Todo("find") \in Ops
         /\ <<Todo("find")>> \in Seq(Ops)
    BY Cat, AllTodos
  <2>23. PICK A2 \in {<<>>, <<Todo("find")>>} :
           /\ todo' = A2 \o (<<>> \o m2) /\ todo' \in Seq(Ops)
           /\ A2 # <<>> => ~ call.own
    <3>1. CASE todo' = m2
      BY <2>22, <3>1
    <3>2. CASE todo' = <<Todo("find")>> \o m2 /\ ~ call.own
      BY <2>22, <3>2, Cat
    <3> QED  BY <2>8, <3>1, <3>2
  <2>24. A2 # <<>> => ~ InWindow(m2)'
    BY <1>4, <1>6, <2>23 DEF InWindow
  <2>25. <<>> \in Seq(Ops)
    OBVIOUS
  <2>26. todo' = A2 \o (<<>> \o m2) /\ todo' \in Seq(Ops)
    BY <2>23
  <2>27. Len(tr'[T].vots) = VotsPerPage => <<>> # <<>> /\ Head(<<>>).op = "votsPage"
    BY <2>19
  <2>28. Len(tr'[T].vots) <= VotsPerPage
    BY <2>19
  <2> QED  BY <1>5, <2>12, <2>13, <2>17, <2>18, <2>20, <2>21, <2>24, <2>25,
              <2>26, <2>27, <2>28, WriteMain
<1> QED  BY <1>9, <1>10

=============================================================================

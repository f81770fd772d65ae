--------------------------- MODULE OpenFilesProofs ---------------------------
(***************************************************************************)
(* Theorems of the tables of open files, for every number of users, files, *)
(* descriptors, vnodes, streams and transactions, and for every flags      *)
(* open() is called with.                                                  *)
(*                                                                         *)
(* The invariants of OpenFiles hold each other up, so there is one         *)
(* inductive invariant, and every step is shown to keep it and to do what  *)
(* UncommittedKeepsWriter asks of a step.  An entry that changes does so   *)
(* by Release() or setFentry(): two lemmas say what these do to a pair of  *)
(* tables, and the actions are compositions of them.                       *)
(***************************************************************************)
EXTENDS OpenFiles, FiniteSetTheorems, TLAPS

Entry == [flags : SUBSET {"RDONLY", "WRONLY"}, uid : Users \cup {NoUser},
          offset : 0 .. MaxSize, vnode : Vnodes \cup {VNODE_EMPTY},
          f_type : {"none", "file", "dir"}]
Vnode == [ino : Inos \cup {INO_NUM_EMPTY}, nrefs : 0 .. NFds]
Stream == [fd : Fds \cup {FD_EMPTY}, ino : Inos \cup {INO_NUM_EMPTY}, fresh : BOOLEAN,
           opener : Users \cup {NoUser}]
Tables == [files : [Fds -> Entry], vnodes : [Vnodes -> Vnode]]

(* The entries that refer to a vnode, and the inode number of an entry.    *)
Refs(ram, v) == {fd \in Fds : ram.files[fd].vnode = v}
InoOf(ram, fd) == IF ram.files[fd].vnode = VNODE_EMPTY THEN INO_NUM_EMPTY
                  ELSE ram.vnodes[ram.files[fd].vnode].ino

(* VnodesCounted of a pair of tables.                                      *)
Counted(ram) ==
  \A v \in Vnodes :
    /\ ram.vnodes[v].nrefs = Cardinality(Refs(ram, v))
    /\ (ram.vnodes[v].ino = INO_NUM_EMPTY) = (ram.vnodes[v].nrefs = 0)
    /\ \A w \in Vnodes \ {v} :
         ram.vnodes[v].ino = ram.vnodes[w].ino => ram.vnodes[v].ino = INO_NUM_EMPTY

(* The vnode v may be given to the file: it has it, or it is free and no   *)
(* other vnode is the file's.                                              *)
VnodeIsFor(ram, v, ino) ==
  \/ ram.vnodes[v].ino = ino
  \/ /\ ram.vnodes[v].ino = INO_NUM_EMPTY
     /\ \A w \in Vnodes : ram.vnodes[w].ino # ino

(* A descriptor opened on a directory does not write, and a stream whose   *)
(* own entry is still open has a directory.                                *)
ReadOnlyEntries ==
  /\ \A fd \in Fds : open_files[fd].f_type = "dir" => "WRONLY" \notin open_files[fd].flags
  /\ \A s \in Streams : dirstreams[s].opener # NoUser => dirstreams[s].ino # INO_NUM_EMPTY

(* A file has one transaction.                                             *)
OneTransaction == \A t \in Busy : TidsOf(trans[t]) = {t}

TablesInv ==
  /\ TypeOK
  /\ VnodesCounted
  /\ OpenFilesExist
  /\ WritersExclusive
  /\ OneTransaction
  /\ StreamsFresh
  /\ ReadOnlyEntries

(* What UncommittedKeepsWriter asks of a step, and what is shown of one.   *)
WritersStep ==
  \A t \in Tids, ino \in Inos :
    trans'[t] = ino /\ ~HasWriter(ino)' =>
      trans[t] = ino /\ (HasWriter(ino) => LostStreamClosed(ino))
TransactionsStay == OneTransaction' /\ WritersStep
TablesStep == TablesInv' /\ WritersStep

-----------------------------------------------------------------------------
(* Searches.                                                               *)

(* A set of numbers from a natural number on has a first one.              *)
LEMMA FirstOf ==
  ASSUME NEW S, S \subseteq Nat, S # {}
  PROVE  First(S) \in S /\ \A y \in S : First(S) <= y
<1> DEFINE Less == OpToRel(<, Nat)
<1>1. IsWellFoundedOn(Less, Nat)
  BY NatLessThanWellFounded
<1>2. PICK x \in S : \A y \in S : ~ (<<y, x>> \in Less)
  <2> HIDE DEF Less
  <2> QED  BY <1>1, WFMin
<1>3. \A y \in S : ~ (y < x)
  BY <1>2 DEF OpToRel
<1>4. \E z \in S : \A y \in S : z <= y
  BY <1>3
<1> QED  BY <1>4 DEF First

LEMMA NamesFinite == IsFiniteSet(Names) /\ Cardinality(Names) \in Nat
BY OpenFilesAssumption, FS_Union, FS_CardinalityType DEF OpenFilesAssumption, Names

(* The constants as numbers.                                               *)
LEMMA Sizes ==
  /\ NFds \in Nat \ {0} /\ NVnodes \in Nat \ {0} /\ NStreams \in Nat
  /\ NTids \in Nat \ {0} /\ MaxSize \in Nat \ {0}
  /\ Inos \subseteq Nat \ {0} /\ ROOT \in Inos /\ 0 \in Fds
BY OpenFilesAssumption, NamesFinite
   DEF OpenFilesAssumption, Inos, ROOT, Fds

(* There are inodes for all names: when a name has none, one is free.      *)
LEMMA FreeInodeExists ==
  ASSUME TypeOK, NEW n \in Names, inode[n] = INO_NUM_EMPTY
  PROVE  /\ FreeIno \in Inos \ {ROOT}
         /\ \A m \in Names : inode[m] # FreeIno
<1> DEFINE Rest == 2 .. 1 + Cardinality(Names)
           Used == {m \in Names \ {n} : inode[m] \in Rest}
           f == [m \in Used |-> inode[m]]
           Free == Inos \ ({ROOT} \cup {inode[m] : m \in Names})
<1>1. IsFiniteSet(Rest) /\ Cardinality(Rest) = Cardinality(Names)
  <2> DEFINE top == 1 + Cardinality(Names)
  <2>1. top \in Int /\ Rest = 2 .. top
    BY NamesFinite
  <2> HIDE DEF top, Rest
  <2>2. /\ IsFiniteSet(2 .. top)
        /\ Cardinality(2 .. top) = IF 2 > top THEN 0 ELSE top - 2 + 1
    BY <2>1, FS_Interval
  <2> QED  BY <2>1, <2>2, NamesFinite DEF top
<1>2. IsFiniteSet(Used) /\ Cardinality(Used) <= Cardinality(Names) - 1
  <2>1. IsFiniteSet(Names \ {n}) /\ Cardinality(Names \ {n}) = Cardinality(Names) - 1
    BY NamesFinite, FS_RemoveElement
  <2> QED  BY <2>1, FS_Subset
<1>3. Free # {}
  <2> SUFFICES ASSUME Free = {} PROVE FALSE
    OBVIOUS
  <2>1. \A i \in Rest : \E m \in Used : inode[m] = i
    BY NamesFinite DEF Inos, ROOT, INO_NUM_EMPTY
  <2>2. f \in Surjection(Used, Rest)
    BY <2>1 DEF Surjection
  <2>3. Cardinality(Rest) <= Cardinality(Used)
    <3> HIDE DEF f, Rest, Used
    <3> QED  BY <2>2, <1>2, FS_Surjection
  <2> QED  BY <2>3, <1>1, <1>2, NamesFinite, FS_CardinalityType
<1>4. FreeIno \in Free
  BY <1>3, FirstOf, Sizes DEF FreeIno
<1> QED  BY <1>4

-----------------------------------------------------------------------------
(* What the operators do to a pair of tables.                              *)

LEMMA RefsFinite ==
  ASSUME NEW ram, NEW v
  PROVE  IsFiniteSet(Refs(ram, v)) /\ Cardinality(Refs(ram, v)) \in 0 .. NFds
<1>1. IsFiniteSet(Fds) /\ Cardinality(Fds) = NFds
  BY Sizes, FS_Interval DEF Fds
<1>2. Refs(ram, v) \in SUBSET Fds
  BY DEF Refs
<1> QED  BY <1>1, <1>2, FS_Subset, FS_CardinalityType, Sizes

(* An entry refers to a vnode: the vnode has a file.                       *)
LEMMA ReferredVnode ==
  ASSUME NEW ram \in Tables, Counted(ram), NEW fd \in Fds,
         ram.files[fd].vnode # VNODE_EMPTY
  PROVE  /\ ram.files[fd].vnode \in Vnodes
         /\ InoOf(ram, fd) \in Inos
         /\ ram.vnodes[ram.files[fd].vnode].nrefs \in 1 .. NFds
<1> DEFINE v == ram.files[fd].vnode
<1>1. v \in Vnodes
  BY DEF Tables, Entry
<1>2. Cardinality(Refs(ram, v)) # 0
  <2>1. fd \in Refs(ram, v)
    BY DEF Refs
  <2> QED  BY <2>1, RefsFinite, FS_EmptySet
<1>3. ram.vnodes[v] \in Vnode
  BY <1>1 DEF Tables
<1> QED  BY <1>1, <1>2, <1>3, Sizes DEF Counted, InoOf, Vnode, INO_NUM_EMPTY

(* setFentry() of an empty entry, with a vnode that is right for the file. *)
LEMMA SetEntry ==
  ASSUME NEW ram \in Tables, Counted(ram), NEW fd \in Fds,
         ram.files[fd].vnode = VNODE_EMPTY,
         NEW e \in Entry, e.vnode \in Vnodes,
         NEW ino \in Inos, VnodeIsFor(ram, e.vnode, ino)
  PROVE  LET new == setFentry(ram, fd, e, ino)
         IN  /\ new \in Tables /\ Counted(new)
             /\ new.files = [ram.files EXCEPT ![fd] = e]
             /\ InoOf(new, fd) = ino
             /\ \A x \in Fds \ {fd} : InoOf(new, x) = InoOf(ram, x)
<1> DEFINE v == e.vnode
           new == setFentry(ram, fd, e, ino)
<1>1. v # VNODE_EMPTY
  BY Sizes DEF Vnodes, VNODE_EMPTY
<1>2. /\ new.files = [ram.files EXCEPT ![fd] = e]
      /\ new.vnodes = [ram.vnodes EXCEPT ![v] = [ino |-> ino, nrefs |-> @.nrefs + 1]]
      /\ new = [files |-> new.files, vnodes |-> new.vnodes]
  BY <1>1 DEF setFentry
<1>3. Refs(new, v) = Refs(ram, v) \cup {fd} /\ fd \notin Refs(ram, v)
  BY <1>1, <1>2 DEF Refs, Tables
<1>4. \A w \in Vnodes \ {v} : Refs(new, w) = Refs(ram, w)
  BY <1>1, <1>2, Sizes DEF Refs, Tables, Vnodes, VNODE_EMPTY
<1>5. Cardinality(Refs(new, v)) = Cardinality(Refs(ram, v)) + 1
  BY <1>3, RefsFinite, FS_AddElement
<1>6. new.vnodes[v] = [ino |-> ino, nrefs |-> ram.vnodes[v].nrefs + 1]
  BY <1>2 DEF Tables
<1>7. \A w \in Vnodes \ {v} : new.vnodes[w] = ram.vnodes[w]
  BY <1>2 DEF Tables
<1>8. new.vnodes[v].nrefs = Cardinality(Refs(new, v))
  BY <1>5, <1>6 DEF Counted
<1> HIDE DEF new
<1>9. new.vnodes[v] \in Vnode /\ new.vnodes[v].ino = ino /\ new.vnodes[v].nrefs # 0
  <2>1. Cardinality(Refs(new, v)) \in 0 .. NFds
    BY RefsFinite
  <2>2. Cardinality(Refs(ram, v)) \in 0 .. NFds
    BY RefsFinite
  <2> QED  BY <2>1, <2>2, <1>5, <1>6, <1>8 DEF Vnode
<1>10. new \in Tables
  BY <1>2, <1>7, <1>9 DEF Tables
<1>11. Counted(new)
  <2> SUFFICES ASSUME NEW x \in Vnodes
               PROVE  /\ new.vnodes[x].nrefs = Cardinality(Refs(new, x))
                      /\ (new.vnodes[x].ino = INO_NUM_EMPTY) = (new.vnodes[x].nrefs = 0)
                      /\ \A w \in Vnodes \ {x} :
                           new.vnodes[x].ino = new.vnodes[w].ino
                             => new.vnodes[x].ino = INO_NUM_EMPTY
    BY DEF Counted
  <2>1. CASE x = v
    BY <2>1, <1>7, <1>8, <1>9, Sizes DEF Counted, VnodeIsFor, INO_NUM_EMPTY
  <2>2. CASE x # v
    BY <2>2, <1>4, <1>7, <1>9 DEF Counted, VnodeIsFor
  <2> QED  BY <2>1, <2>2
<1>12. InoOf(new, fd) = ino
  BY <1>1, <1>2, <1>9 DEF InoOf, Tables
<1>13. ASSUME NEW x \in Fds \ {fd} PROVE InoOf(new, x) = InoOf(ram, x)
  <2>1. new.files[x] = ram.files[x]
    BY <1>2 DEF Tables
  <2>2. CASE ram.files[x].vnode = v
    <3>1. ram.vnodes[v].ino = ino
      BY <2>2, <1>1, ReferredVnode, Sizes
         DEF VnodeIsFor, InoOf, INO_NUM_EMPTY
    <3> QED  BY <2>1, <2>2, <3>1, <1>9 DEF InoOf
  <2>3. CASE ram.files[x].vnode # v
    <3>1. ram.files[x].vnode \in Vnodes \cup {VNODE_EMPTY}
      BY DEF Tables, Entry
    <3> QED  BY <3>1, <2>1, <2>3, <1>7 DEF InoOf
  <2> QED  BY <2>2, <2>3
<1> QED  BY <1>2, <1>10, <1>11, <1>12, <1>13 DEF new

(* Release(): the entry is empty, its vnode free if it was the last.       *)
LEMMA ReleaseEntry ==
  ASSUME NEW ram \in Tables, Counted(ram), NEW fd \in Fds,
         ram.files[fd].vnode # VNODE_EMPTY
  PROVE  LET new == Release(ram, fd)
         IN  /\ new \in Tables /\ Counted(new)
             /\ new.files = [ram.files EXCEPT ![fd] = NoEntry]
             /\ InoOf(new, fd) = INO_NUM_EMPTY
             /\ \A x \in Fds \ {fd} : InoOf(new, x) = InoOf(ram, x)
<1> DEFINE v == ram.files[fd].vnode
           old == ram.vnodes[v]
           new == Release(ram, fd)
           last == IF old.nrefs - 1 = 0 THEN NoVnode
                   ELSE [ino |-> old.ino, nrefs |-> old.nrefs - 1]
<1>1. v \in Vnodes /\ v # VNODE_EMPTY /\ old.nrefs \in 1 .. NFds /\ old.ino \in Inos
  BY ReferredVnode, Sizes DEF InoOf, VNODE_EMPTY, Vnodes
<1>2. old = [ino |-> old.ino, nrefs |-> old.nrefs]
  BY <1>1 DEF Tables, Vnode
<1>3. /\ new.files = [ram.files EXCEPT ![fd] = NoEntry]
      /\ new.vnodes = [ram.vnodes EXCEPT ![v] = last]
      /\ new = [files |-> new.files, vnodes |-> new.vnodes]
  BY DEF Release
<1> HIDE DEF new
<1>4. new.vnodes[v] = last /\ \A w \in Vnodes \ {v} : new.vnodes[w] = ram.vnodes[w]
  <2> HIDE DEF last
  <2> QED  BY <1>1, <1>3 DEF Tables
<1>5. NoEntry \in Entry /\ NoEntry.vnode = VNODE_EMPTY
  BY Sizes DEF NoEntry, Entry
<1>6. \A x \in Fds : new.files[x] = IF x = fd THEN NoEntry ELSE ram.files[x]
  BY <1>3 DEF Tables
<1>7. Refs(new, v) = Refs(ram, v) \ {fd} /\ fd \in Refs(ram, v)
  BY <1>1, <1>5, <1>6 DEF Refs
<1>8. \A w \in Vnodes \ {v} : Refs(new, w) = Refs(ram, w)
  BY <1>5, <1>6, Sizes DEF Refs, Vnodes, VNODE_EMPTY
<1>9. Cardinality(Refs(new, v)) = old.nrefs - 1
  <2>1. Cardinality(Refs(ram, v)) = old.nrefs
    BY <1>1 DEF Counted
  <2>2. Cardinality(Refs(ram, v) \ {fd}) = Cardinality(Refs(ram, v)) - 1
    <3>1. \A S, x : IsFiniteSet(S) /\ x \in S => Cardinality(S \ {x}) = Cardinality(S) - 1
      BY FS_RemoveElement
    <3> QED  BY <3>1, <1>7, RefsFinite
  <2> QED  BY <2>1, <2>2, <1>7
<1>10. last \in Vnode /\ last.nrefs = old.nrefs - 1 /\ last.ino \in {old.ino, INO_NUM_EMPTY}
       /\ (last.ino = INO_NUM_EMPTY) = (last.nrefs = 0)
  BY <1>1, Sizes DEF Vnode, NoVnode, INO_NUM_EMPTY
<1>11. new \in Tables
  <2>1. new.files \in [Fds -> Entry]
    BY <1>3, <1>5 DEF Tables
  <2>2. new.vnodes \in [Vnodes -> Vnode]
    <3> HIDE DEF last
    <3> QED  BY <1>1, <1>3, <1>4, <1>10 DEF Tables
  <2> QED  BY <2>1, <2>2, <1>3 DEF Tables
<1> HIDE DEF last
<1>12. Counted(new)
  <2> SUFFICES ASSUME NEW x \in Vnodes
               PROVE  /\ new.vnodes[x].nrefs = Cardinality(Refs(new, x))
                      /\ (new.vnodes[x].ino = INO_NUM_EMPTY) = (new.vnodes[x].nrefs = 0)
                      /\ \A w \in Vnodes \ {x} :
                           new.vnodes[x].ino = new.vnodes[w].ino
                             => new.vnodes[x].ino = INO_NUM_EMPTY
    BY DEF Counted
  <2>1. CASE x = v
    BY <2>1, <1>1, <1>4, <1>9, <1>10 DEF Counted
  <2>2. CASE x # v
    BY <2>2, <1>1, <1>4, <1>8, <1>10 DEF Counted
  <2> QED  BY <2>1, <2>2
<1>13. InoOf(new, fd) = INO_NUM_EMPTY
  BY <1>5, <1>6 DEF InoOf
<1>14. ASSUME NEW x \in Fds \ {fd} PROVE InoOf(new, x) = InoOf(ram, x)
  <2>1. CASE ram.files[x].vnode = v
    <3>1. x \in Refs(new, v)
      BY <2>1, <1>6 DEF Refs
    <3>2. last.nrefs # 0
      BY <3>1, <1>9, <1>10, RefsFinite, FS_EmptySet
    <3>3. last.ino = old.ino
      BY <3>2, <1>10
    <3> QED  BY <3>3, <2>1, <1>1, <1>4, <1>6 DEF InoOf
  <2>2. CASE ram.files[x].vnode # v
    <3>1. ram.files[x].vnode \in Vnodes \cup {VNODE_EMPTY}
      BY DEF Tables, Entry
    <3> QED  BY <3>1, <2>2, <1>4, <1>6 DEF InoOf
  <2> QED  BY <2>1, <2>2
<1> QED  BY <1>3, <1>11, <1>12, <1>13, <1>14 DEF new

(* The tables of a state.                                                  *)
LEMMA RamTables ==
  ASSUME TypeOK
  PROVE  /\ Ram \in Tables
         /\ VnodesCounted <=> Counted(Ram)
         /\ \A fd : GET_FILE_ID_BY_FD(fd) = InoOf(Ram, fd)
         /\ Ram.files = open_files /\ Ram.vnodes = vnodes
BY DEF TypeOK, Ram, Tables, Entry, Vnode, VnodesCounted, Counted, Refs, InoOf,
       GET_FILE_ID_BY_FD, IS_OPEN_FILE_ENTRY_EMPTY

(* VnodeFor() is the file's vnode, or a free one nothing refers to.        *)
LEMMA VnodeFound ==
  ASSUME TypeOK, VnodesCounted, NEW ino \in Inos, VnodeFor(ino) # VNODE_EMPTY
  PROVE  /\ VnodeFor(ino) \in Vnodes
         /\ VnodeIsFor(Ram, VnodeFor(ino), ino)
         /\ getVnodeByInodeNum(ino) = VNODE_EMPTY
              => \A fd \in Fds : open_files[fd].vnode # VnodeFor(ino)
<1> DEFINE V(i) == {v \in Vnodes : vnodes[v].ino = i}
<1>1. \A i : V(i) # {} => First(V(i)) \in V(i)
  BY FirstOf, Sizes DEF Vnodes
<1>2. \A i : getVnodeByInodeNum(i) = IF V(i) = {} THEN VNODE_EMPTY ELSE First(V(i))
  BY DEF getVnodeByInodeNum
<1>3. \A i : V(i) # {} => First(V(i)) # VNODE_EMPTY
  <2>1. \A v \in Vnodes : v # VNODE_EMPTY
    BY Sizes DEF Vnodes, VNODE_EMPTY
  <2> QED  BY <1>1, <2>1
<1>4. CASE V(ino) # {}
  <2>1. VnodeFor(ino) = First(V(ino)) /\ getVnodeByInodeNum(ino) # VNODE_EMPTY
    BY <1>2, <1>3, <1>4 DEF VnodeFor
  <2> QED  BY <2>1, <1>1, <1>4 DEF VnodeIsFor, Ram
<1>5. CASE V(ino) = {}
  <2>1. VnodeFor(ino) = First(V(INO_NUM_EMPTY)) /\ V(INO_NUM_EMPTY) # {}
    BY <1>2, <1>3, <1>5 DEF VnodeFor
  <2>2. VnodeFor(ino) \in V(INO_NUM_EMPTY)
    BY <1>1, <2>1
  <2>3. \A fd \in Fds : open_files[fd].vnode # VnodeFor(ino)
    <3>1. Cardinality(Refs(Ram, VnodeFor(ino))) = 0
      BY <2>2, RamTables DEF Counted
    <3>2. Refs(Ram, VnodeFor(ino)) = {}
      BY <3>1, RefsFinite, FS_EmptySet
    <3> QED  BY <3>2 DEF Refs, Ram
  <2> QED  BY <2>2, <2>3, <1>5 DEF VnodeIsFor, Ram
<1> QED  BY <1>4, <1>5

(* getFreeOpenFileEntry() finds an empty entry.                            *)
LEMMA EntryFound ==
  ASSUME getFreeOpenFileEntry # FD_EMPTY
  PROVE  /\ getFreeOpenFileEntry \in Fds
         /\ IS_OPEN_FILE_ENTRY_EMPTY(getFreeOpenFileEntry)
<1> DEFINE F == {fd \in Fds : IS_OPEN_FILE_ENTRY_EMPTY(fd)}
<1>1. F # {} /\ getFreeOpenFileEntry = First(F)
  BY DEF getFreeOpenFileEntry
<1>2. First(F) \in F
  BY <1>1, FirstOf, Sizes DEF Fds
<1> QED  BY <1>1, <1>2

-----------------------------------------------------------------------------
(* What a step does to an entry: it keeps it, up to the offset, or empties *)
(* it.                                                                     *)
SameEntry(fd) ==
  /\ open_files'[fd].vnode = open_files[fd].vnode
  /\ open_files'[fd].uid = open_files[fd].uid
  /\ open_files'[fd].flags = open_files[fd].flags
  /\ open_files'[fd].f_type = open_files[fd].f_type
  /\ open_files[fd] = NoEntry => open_files'[fd] = NoEntry
Kept(fd)    == SameEntry(fd) /\ GET_FILE_ID_BY_FD(fd)' = GET_FILE_ID_BY_FD(fd)
Emptied(fd) == open_files'[fd] = NoEntry /\ GET_FILE_ID_BY_FD(fd)' = INO_NUM_EMPTY

(* The tables after a step are as they should be.                          *)
TablesRight ==
  /\ open_files \in [Fds -> Entry] /\ vnodes \in [Vnodes -> Vnode]
  /\ VnodesCounted /\ WritersExclusive

LEMMA TablesAreRight == TypeOK /\ VnodesCounted /\ WritersExclusive => TablesRight
BY DEF TypeOK, TablesRight, Entry, Vnode

(* The rest of TypeOK.                                                     *)
OtherTypes ==
  /\ dirstreams \in [Streams -> Stream]
  /\ mutex \in BOOLEAN
  /\ creating \in [Users -> Names \cup {NoName}]
  /\ syncing \in [user : Users \cup {NoUser}, fd : Fds]
  /\ inode \in [Names -> Inos \cup {INO_NUM_EMPTY}]
  /\ size \in [Inos -> 0 .. MaxSize] /\ durable \in [Inos -> 0 .. MaxSize]
  /\ trans \in [Tids -> Inos \cup {INO_NUM_EMPTY}]

LEMMA TypeParts == /\ TablesRight /\ OtherTypes => TypeOK
                   /\ TypeOK => OtherTypes
BY DEF TypeOK, TablesRight, OtherTypes, Entry, Vnode, Stream

(* The same of the next state.                                             *)
LEMMA NextTypeParts == TablesRight' /\ OtherTypes' => TypeOK'
BY DEF TypeOK, TablesRight, OtherTypes, Entry, Vnode, Stream

(* Two tables that make a state's, primed.                                 *)
LEMMA NewTables ==
  ASSUME NEW ram \in Tables, Counted(ram), SetRam(ram)
  PROVE  /\ open_files' \in [Fds -> Entry] /\ vnodes' \in [Vnodes -> Vnode]
         /\ VnodesCounted'
         /\ \A fd : GET_FILE_ID_BY_FD(fd)' = InoOf(ram, fd)
BY DEF SetRam, Tables, VnodesCounted, Counted, Refs, InoOf,
       GET_FILE_ID_BY_FD, IS_OPEN_FILE_ENTRY_EMPTY

(* read(), write(), lseek() and the calls that leave the tables alone.     *)
LEMMA OffsetsChange ==
  ASSUME TablesRight, open_files' \in [Fds -> Entry], vnodes' = vnodes,
         \A fd \in Fds : SameEntry(fd)
  PROVE  TablesRight' /\ \A fd \in Fds : Kept(fd)
<1>1. \A v \in Vnodes : {fd \in Fds : open_files'[fd].vnode = v}
                          = {fd \in Fds : open_files[fd].vnode = v}
  BY DEF SameEntry
<1>2. VnodesCounted'
  BY <1>1 DEF TablesRight, VnodesCounted
<1>3. WritersExclusive'
  BY DEF TablesRight, WritersExclusive, IS_OPEN_FILE_ENTRY_EMPTY, SameEntry
<1>4. \A fd \in Fds : Kept(fd)
  BY DEF Kept, SameEntry, GET_FILE_ID_BY_FD, IS_OPEN_FILE_ENTRY_EMPTY
<1> QED  BY <1>2, <1>3, <1>4 DEF TablesRight

LEMMA TablesUnchanged ==
  ASSUME TablesRight, UNCHANGED <<open_files, vnodes>>
  PROVE  TablesRight' /\ \A fd \in Fds : Kept(fd)
<1>1. \A fd \in Fds : SameEntry(fd)
  BY DEF SameEntry
<1> QED  BY <1>1, OffsetsChange DEF TablesRight

(* close(), closedir()                                                     *)
LEMMA EntryReleased ==
  ASSUME TypeOK, TablesRight, NEW fd \in Fds, ~IS_OPEN_FILE_ENTRY_EMPTY(fd),
         SetRam(Release(Ram, fd))
  PROVE  TablesRight' /\ Emptied(fd) /\ \A x \in Fds \ {fd} : Kept(x)
<1> DEFINE new == Release(Ram, fd)
<1>1. /\ new \in Tables /\ Counted(new)
      /\ new.files = [open_files EXCEPT ![fd] = NoEntry]
      /\ InoOf(new, fd) = INO_NUM_EMPTY
      /\ \A x \in Fds \ {fd} : InoOf(new, x) = InoOf(Ram, x)
  BY RamTables, ReleaseEntry DEF TablesRight, IS_OPEN_FILE_ENTRY_EMPTY
<1> HIDE DEF new
<1>2. /\ open_files' \in [Fds -> Entry] /\ vnodes' \in [Vnodes -> Vnode]
      /\ VnodesCounted'
      /\ \A x : GET_FILE_ID_BY_FD(x)' = InoOf(new, x)
  BY <1>1, NewTables DEF new
<1>3. open_files' = [open_files EXCEPT ![fd] = NoEntry]
  BY <1>1 DEF SetRam, new
<1>4. open_files'[fd] = NoEntry /\ \A x \in Fds \ {fd} : open_files'[x] = open_files[x]
  BY <1>3 DEF TablesRight
<1>5. WritersExclusive'
  <2> SUFFICES ASSUME NEW x \in Fds, NEW y \in Fds \ {x},
                      ~IS_OPEN_FILE_ENTRY_EMPTY(x)',
                      open_files'[x].vnode = open_files'[y].vnode,
                      "WRONLY" \in open_files'[x].flags
               PROVE  /\ open_files'[y].uid = open_files'[x].uid
                      /\ "WRONLY" \notin open_files'[y].flags
    BY DEF WritersExclusive
  <2>1. x # fd /\ y # fd
    BY <1>4 DEF NoEntry, IS_OPEN_FILE_ENTRY_EMPTY
  <2> QED  BY <2>1, <1>4 DEF TablesRight, WritersExclusive, IS_OPEN_FILE_ENTRY_EMPTY
<1>6. Emptied(fd)
  BY <1>1, <1>2, <1>4 DEF Emptied
<1>7. ASSUME NEW x \in Fds \ {fd} PROVE Kept(x)
  BY <1>1, <1>2, <1>4, RamTables DEF Kept, SameEntry
<1> QED  BY <1>2, <1>5, <1>6, <1>7 DEF TablesRight

(* open(), creat() and opendir() of a file, when they are not refused.     *)
LEMMA EntryOpened ==
  ASSUME TypeOK, TablesRight, NEW u \in Users, NEW ino \in Inos, NEW flags,
         flags \cap {"RDONLY", "WRONLY"} # {}, NEW f_type \in {"file", "dir"},
         NEW sz \in 0 .. MaxSize, ~OpenRefused(u, ino, flags, f_type),
         setOpenFentry(u, ino, flags, f_type, sz)
  PROVE  \E fd \in Fds :
           /\ fd = getFreeOpenFileEntry /\ IS_OPEN_FILE_ENTRY_EMPTY(fd)
           /\ TablesRight'
           /\ open_files'[fd].uid = u /\ open_files'[fd].f_type = f_type
           /\ open_files'[fd].flags = flags \cap {"RDONLY", "WRONLY"}
           /\ GET_FILE_ID_BY_FD(fd)' = ino
           /\ \A x \in Fds \ {fd} : Kept(x)
<1>1. VnodeFor(ino) # VNODE_EMPTY /\ getFreeOpenFileEntry # FD_EMPTY
  BY DEF OpenRefused
<1>2. PICK fd \in Fds : fd = getFreeOpenFileEntry /\ IS_OPEN_FILE_ENTRY_EMPTY(fd)
  BY <1>1, EntryFound
<1> DEFINE e == NewEntry(u, ino, flags, f_type, sz)
           new == setFentry(Ram, fd, e, ino)
<1>3. /\ VnodeFor(ino) \in Vnodes /\ VnodeIsFor(Ram, VnodeFor(ino), ino)
      /\ getVnodeByInodeNum(ino) = VNODE_EMPTY
           => \A x \in Fds : open_files[x].vnode # VnodeFor(ino)
  BY <1>1, VnodeFound DEF TablesRight
<1>4. /\ e.vnode = VnodeFor(ino) /\ e.uid = u /\ e.f_type = f_type
      /\ e.flags = flags \cap {"RDONLY", "WRONLY"}
      /\ e \in Entry
  BY <1>3, Sizes DEF NewEntry, Entry
<1>5. SetRam(new)
  BY <1>2 DEF setOpenFentry
<1> HIDE DEF e
<1>6. /\ new \in Tables /\ Counted(new)
      /\ new.files = [open_files EXCEPT ![fd] = e]
      /\ InoOf(new, fd) = ino
      /\ \A x \in Fds \ {fd} : InoOf(new, x) = InoOf(Ram, x)
  <2>1. /\ Ram \in Tables /\ Counted(Ram) /\ Ram.files[fd].vnode = VNODE_EMPTY
        /\ Ram.files = open_files
    BY <1>2, RamTables DEF TablesRight, IS_OPEN_FILE_ENTRY_EMPTY
  <2>2. e \in Entry /\ e.vnode \in Vnodes /\ VnodeIsFor(Ram, e.vnode, ino)
    BY <1>3, <1>4
  <2> QED  BY <2>1, <2>2, SetEntry
<1> HIDE DEF new
<1>7. /\ open_files' \in [Fds -> Entry] /\ vnodes' \in [Vnodes -> Vnode]
      /\ VnodesCounted'
      /\ \A x : GET_FILE_ID_BY_FD(x)' = InoOf(new, x)
  BY <1>5, <1>6, NewTables
<1>8. open_files' = [open_files EXCEPT ![fd] = e]
  BY <1>5, <1>6 DEF SetRam
<1>9. open_files'[fd] = e /\ \A x \in Fds \ {fd} : open_files'[x] = open_files[x]
  BY <1>2, <1>8 DEF TablesRight
<1>10. WritersExclusive'
  <2>1. ASSUME NEW x \in Fds \ {fd}, open_files[x].vnode = e.vnode,
               "WRONLY" \in flags \/ "WRONLY" \in open_files[x].flags
        PROVE  /\ open_files[x].uid = u
               /\ "WRONLY" \in flags => "WRONLY" \notin open_files[x].flags
               /\ "WRONLY" \in open_files[x].flags => "WRONLY" \notin flags
    <3>1. ~isFlagsConflict(u, VnodeFor(ino), flags)
      BY <1>3, <1>4, <2>1 DEF OpenRefused
    <3> QED  BY <3>1, <2>1, <1>4 DEF isFlagsConflict
  <2> SUFFICES ASSUME NEW x \in Fds, NEW y \in Fds \ {x},
                      ~IS_OPEN_FILE_ENTRY_EMPTY(x)',
                      open_files'[x].vnode = open_files'[y].vnode,
                      "WRONLY" \in open_files'[x].flags
               PROVE  /\ open_files'[y].uid = open_files'[x].uid
                      /\ "WRONLY" \notin open_files'[y].flags
    BY DEF WritersExclusive
  <2>2. CASE x = fd
    BY <2>1, <2>2, <1>4, <1>9
  <2>3. CASE y = fd
    BY <2>1, <2>3, <1>4, <1>9
  <2>4. CASE x # fd /\ y # fd
    BY <2>4, <1>9 DEF TablesRight, WritersExclusive, IS_OPEN_FILE_ENTRY_EMPTY
  <2> QED  BY <2>2, <2>3, <2>4
<1>11. ASSUME NEW x \in Fds \ {fd} PROVE Kept(x)
  BY <1>6, <1>7, <1>9, RamTables, <1>2
     DEF Kept, SameEntry, TablesRight, IS_OPEN_FILE_ENTRY_EMPTY, NoEntry
<1>12. TablesRight'
  BY <1>7, <1>10 DEF TablesRight
<1> QED  BY <1>2, <1>4, <1>6, <1>7, <1>9, <1>11, <1>12

-----------------------------------------------------------------------------
(* What the other conjuncts need of a step.                                *)

NamesOpened(fd) ==
  \/ GET_FILE_ID_BY_FD(fd)' = ROOT /\ open_files'[fd].f_type = "dir"
  \/ /\ GET_FILE_ID_BY_FD(fd)' # INO_NUM_EMPTY
     /\ \E n \in Names : /\ inode'[n] = GET_FILE_ID_BY_FD(fd)'
                         /\ TypeOf(n) = open_files'[fd].f_type

(* No open file loses its name.                                            *)
LEMMA FilesStillExist ==
  ASSUME OpenFilesExist,
         \A fd \in Fds : Kept(fd) \/ Emptied(fd) \/ NamesOpened(fd),
         \A n \in Names : inode[n] \in OpenInos => inode'[n] = inode[n]
  PROVE  OpenFilesExist'
<1> SUFFICES ASSUME NEW fd \in Fds
             PROVE  \/ /\ GET_FILE_ID_BY_FD(fd)' = INO_NUM_EMPTY
                       /\ open_files'[fd] = NoEntry
                    \/ NamesOpened(fd)
  BY DEF OpenFilesExist, NamesOpened, TypeOf
<1>1. CASE Kept(fd)
  <2>1. GET_FILE_ID_BY_FD(fd)' = GET_FILE_ID_BY_FD(fd)
    BY <1>1 DEF Kept
  <2>2. GET_FILE_ID_BY_FD(fd) # INO_NUM_EMPTY => GET_FILE_ID_BY_FD(fd) \in OpenInos
    BY DEF OpenInos
  <2> QED  BY <1>1, <2>1, <2>2 DEF OpenFilesExist, NamesOpened, Kept, SameEntry
<1>2. CASE Emptied(fd)
  BY <1>2 DEF Emptied
<1> QED  BY <1>1, <1>2

Shrinks == \A t \in Tids : trans'[t] \in {trans[t], INO_NUM_EMPTY}

(* A writer is given up only when its file has no transaction, or by       *)
(* closedir() of a stream that lost its entry.                             *)
LEMMA WritersStay ==
  ASSUME OneTransaction, Shrinks,
         \A fd \in Fds :
           \/ Kept(fd)
           \/ "WRONLY" \notin open_files[fd].flags
           \/ \A t \in Tids : trans'[t] # GET_FILE_ID_BY_FD(fd)
           \/ LostStreamClosed(GET_FILE_ID_BY_FD(fd))
  PROVE  TransactionsStay
<1>1. OneTransaction'
  <2> SUFFICES ASSUME NEW t \in Tids, trans'[t] # INO_NUM_EMPTY
               PROVE  {s \in Tids : trans'[s] = trans'[t]} = {t}
    BY DEF OneTransaction, Busy, TidsOf
  <2>1. trans'[t] = trans[t] /\ t \in Busy
    BY DEF Shrinks, Busy
  <2>2. {s \in Tids : trans[s] = trans[t]} = {t}
    BY <2>1 DEF OneTransaction, TidsOf
  <2> QED  BY <2>1, <2>2 DEF Shrinks
<1>2. WritersStep
  <2> SUFFICES ASSUME NEW t \in Tids, NEW ino \in Inos, trans'[t] = ino, ~HasWriter(ino)'
               PROVE  trans[t] = ino /\ (HasWriter(ino) => LostStreamClosed(ino))
    BY DEF WritersStep
  <2>1. trans[t] = ino
    BY Sizes DEF Shrinks, INO_NUM_EMPTY
  <2>2. ASSUME HasWriter(ino) PROVE LostStreamClosed(ino)
    <3>1. PICK fd \in Fds : GET_FILE_ID_BY_FD(fd) = ino /\ "WRONLY" \in open_files[fd].flags
      BY <2>2 DEF HasWriter
    <3>2. ~Kept(fd)
      BY <3>1 DEF HasWriter, Kept, SameEntry
    <3> QED  BY <3>1, <3>2
  <2> QED  BY <2>1, <2>2
<1> QED  BY <1>1, <1>2 DEF TransactionsStay

StreamKept(s) == /\ dirstreams'[s] = dirstreams[s]
                 /\ \E fd \in Fds : fd = dirstreams[s].fd /\ Kept(fd)

(* The streams that hold their entry after a step held it before.          *)
LEMMA StreamsStay ==
  ASSUME StreamsFresh, ReadOnlyEntries,
         \A fd \in Fds :
           \/ Kept(fd)
           \/ open_files'[fd].f_type = "dir" => "WRONLY" \notin open_files'[fd].flags,
         \A s \in Streams : dirstreams'[s].opener # NoUser => StreamKept(s)
  PROVE  StreamsFresh' /\ ReadOnlyEntries'
<1>1. ASSUME NEW s \in Streams, dirstreams'[s].opener # NoUser
      PROVE  /\ GET_FILE_ID_BY_FD(dirstreams[s].fd)' = dirstreams'[s].ino
             /\ dirstreams'[s].fresh
             /\ verifyDirstream(dirstreams[s].opener, s)'
             /\ "WRONLY" \notin open_files'[dirstreams'[s].fd].flags
             /\ \A r \in Streams \ {s} :
                  dirstreams'[r].opener # NoUser => dirstreams'[r].fd # dirstreams'[s].fd
  <2>1. PICK fd \in Fds : fd = dirstreams[s].fd /\ Kept(fd)
    BY <1>1 DEF StreamKept
  <2>2. dirstreams'[s] = dirstreams[s] /\ dirstreams[s].opener # NoUser
    BY <1>1 DEF StreamKept
  <2>3. /\ GET_FILE_ID_BY_FD(fd) = dirstreams[s].ino /\ dirstreams[s].fresh
        /\ fd # FD_EMPTY /\ open_files[fd].uid = dirstreams[s].opener
        /\ "WRONLY" \notin open_files[fd].flags
        /\ \A r \in Streams \ {s} : dirstreams[r].opener # NoUser => dirstreams[r].fd # fd
    BY <2>1, <2>2 DEF StreamsFresh, verifyDirstream
  <2>4. \A r \in Streams \ {s} : dirstreams'[r].opener # NoUser => dirstreams'[r].fd # fd
    BY <2>3 DEF StreamKept
  <2>5. GET_FILE_ID_BY_FD(fd)' = dirstreams'[s].ino
    BY <2>1, <2>2, <2>3 DEF Kept
  <2>6. open_files'[fd].uid = dirstreams[s].opener /\ "WRONLY" \notin open_files'[fd].flags
    BY <2>1, <2>3 DEF Kept, SameEntry
  <2> QED  BY <2>1, <2>2, <2>3, <2>4, <2>5, <2>6 DEF verifyDirstream
<1>2. StreamsFresh'
  BY <1>1 DEF StreamsFresh
<1>3. ReadOnlyEntries'
  BY DEF ReadOnlyEntries, StreamKept, Kept, SameEntry
<1> QED  BY <1>2, <1>3

(* The entry of a stream that holds it is not empty.                       *)
LEMMA StreamEntryOpen ==
  ASSUME TablesInv, NEW s \in Streams, dirstreams[s].opener # NoUser
  PROVE  /\ dirstreams[s].fd \in Fds
         /\ ~IS_OPEN_FILE_ENTRY_EMPTY(dirstreams[s].fd)
         /\ dirstreams[s].ino \in OpenInos
BY DEF TablesInv, TypeOK, StreamsFresh, verifyDirstream, ReadOnlyEntries, OpenInos,
       GET_FILE_ID_BY_FD

(* A step on the disk, with no more than the offset of an entry changed.   *)
LEMMA DiskStep ==
  ASSUME TablesInv, open_files' \in [Fds -> Entry], \A fd \in Fds : SameEntry(fd),
         UNCHANGED <<vnodes, dirstreams, inode>>, Shrinks
  PROVE  /\ TablesRight'
         /\ OpenFilesExist' /\ TransactionsStay /\ StreamsFresh' /\ ReadOnlyEntries'
<1>1. TablesRight' /\ \A fd \in Fds : Kept(fd)
  BY TablesAreRight, OffsetsChange DEF TablesInv
<1>2. OpenFilesExist'
  BY <1>1, FilesStillExist DEF TablesInv
<1>3. TransactionsStay
  BY <1>1, WritersStay DEF TablesInv
<1>4. StreamsFresh' /\ ReadOnlyEntries'
  BY <1>1, StreamEntryOpen, StreamsStay DEF TablesInv, StreamKept
<1> QED  BY <1>1, <1>2, <1>3, <1>4

(* Aborting and committing: what is on the disk.                           *)
LEMMA Settled ==
  ASSUME TypeOK, NEW S \in SUBSET Tids, NEW done \in SUBSET Inos,
         NEW lost \in SUBSET Inos, Settle(S, done, lost)
  PROVE  /\ size' \in [Inos -> 0 .. MaxSize] /\ durable' \in [Inos -> 0 .. MaxSize]
         /\ trans' \in [Tids -> Inos \cup {INO_NUM_EMPTY}]
         /\ Shrinks
         /\ \A t \in Tids : trans'[t] \notin done \cup lost
<1>1. 0 \notin Inos
  BY Sizes
<1>2. /\ size \in [Inos -> 0 .. MaxSize] /\ durable \in [Inos -> 0 .. MaxSize]
      /\ trans \in [Tids -> Inos \cup {INO_NUM_EMPTY}]
  BY DEF TypeOK
<1> DEFINE gone == {trans[t] : t \in S} \cup lost
           kept == [i \in Inos |-> IF i \in gone THEN durable[i] ELSE size[i]]
<1>3. kept \in [Inos -> 0 .. MaxSize]
  BY <1>2
<1>4. /\ size' = kept
      /\ durable' = [i \in Inos |-> IF i \in done THEN kept[i] ELSE durable[i]]
      /\ trans' = [t \in Tids |-> IF t \in S \/ trans[t] \in done \cup lost
                                  THEN INO_NUM_EMPTY ELSE trans[t]]
  BY DEF Settle
<1> HIDE DEF kept
<1>5. durable' \in [Inos -> 0 .. MaxSize]
  BY <1>2, <1>3, <1>4
<1>6. /\ trans' \in [Tids -> Inos \cup {INO_NUM_EMPTY}]
      /\ Shrinks
      /\ \A t \in Tids : trans'[t] \notin done \cup lost
  BY <1>1, <1>2, <1>4 DEF Shrinks, INO_NUM_EMPTY
<1> QED  BY <1>3, <1>4, <1>5, <1>6

(* commitTransaction(), whether it fails or not, ends the transaction.     *)
LEMMA Committed ==
  ASSUME TypeOK, NEW ino \in Inos, NEW ok \in BOOLEAN, Commit(ino, ok)
  PROVE  /\ size' \in [Inos -> 0 .. MaxSize] /\ durable' \in [Inos -> 0 .. MaxSize]
         /\ trans' \in [Tids -> Inos \cup {INO_NUM_EMPTY}]
         /\ Shrinks
         /\ \A t \in Tids : trans'[t] # ino
<1>1. CASE TidsOf(ino) = {}
  <2>1. UNCHANGED <<size, durable, trans>>
    BY <1>1 DEF Commit
  <2> QED  BY <1>1, <2>1 DEF TypeOK, Shrinks, TidsOf
<1>2. CASE TidsOf(ino) # {}
  <2>1. PICK S \in Abortable(TidsOf(ino)) :
          Settle(S, IF ok THEN {ino} ELSE {}, IF ok THEN {} ELSE {ino})
    BY <1>2 DEF Commit
  <2>2. S \in SUBSET Tids
    BY DEF Abortable, Busy
  <2> DEFINE done == IF ok THEN {ino} ELSE {}
             lost == IF ok THEN {} ELSE {ino}
  <2>3. done \in SUBSET Inos /\ lost \in SUBSET Inos /\ done \cup lost = {ino}
    OBVIOUS
  <2>4. Settle(S, done, lost)
    BY <2>1, Zenon
  <2> HIDE DEF done, lost
  <2> QED  BY <2>2, <2>3, <2>4, Settled
<1> QED  BY <1>1, <1>2

(* An entry that is not empty has a file.                                  *)
LEMMA OpenEntryFile ==
  ASSUME TablesInv, NEW fd \in Fds, ~IS_OPEN_FILE_ENTRY_EMPTY(fd)
  PROVE  GET_FILE_ID_BY_FD(fd) \in Inos
BY RamTables, ReferredVnode DEF TablesInv, IS_OPEN_FILE_ENTRY_EMPTY

(* An entry without a vnode is as init_file_entry() leaves it.             *)
LEMMA EmptyEntry ==
  ASSUME TablesInv, NEW fd \in Fds, IS_OPEN_FILE_ENTRY_EMPTY(fd)
  PROVE  open_files[fd] = NoEntry
<1>1. GET_FILE_ID_BY_FD(fd) = INO_NUM_EMPTY
  BY DEF GET_FILE_ID_BY_FD
<1> QED  BY <1>1, Sizes DEF TablesInv, OpenFilesExist, ROOT, INO_NUM_EMPTY

-----------------------------------------------------------------------------
(* The actions.                                                            *)

(* The parts of the invariant, after a step.                               *)
LEMMA NextParts ==
  TablesRight' /\ OtherTypes' /\ OpenFilesExist' /\ TransactionsStay
  /\ StreamsFresh' /\ ReadOnlyEntries' => TablesStep
BY NextTypeParts DEF TablesInv, TablesRight, TransactionsStay, TablesStep

(* open() and opendir() of a file of a name, or of the root directory.     *)
LEMMA OpenedByName ==
  ASSUME TablesInv, NEW u \in Users, NEW ino \in Inos, NEW flags,
         flags \cap {"RDONLY", "WRONLY"} # {}, NEW f_type \in {"file", "dir"},
         NEW sz \in 0 .. MaxSize, ~OpenRefused(u, ino, flags, f_type),
         setOpenFentry(u, ino, flags, f_type, sz),
         \/ ino = ROOT /\ f_type = "dir"
         \/ \E n \in Names : inode[n] = ino /\ TypeOf(n) = f_type,
         UNCHANGED <<inode, trans>>
  PROVE  /\ TablesRight' /\ OpenFilesExist' /\ TransactionsStay
         /\ \E fd \in Fds :
              /\ fd = getFreeOpenFileEntry /\ IS_OPEN_FILE_ENTRY_EMPTY(fd)
              /\ open_files'[fd].flags = flags \cap {"RDONLY", "WRONLY"}
              /\ open_files'[fd].uid = u
              /\ GET_FILE_ID_BY_FD(fd)' = ino
              /\ open_files'[fd].f_type = "dir" => "WRONLY" \notin open_files'[fd].flags
              /\ \A x \in Fds \ {fd} : Kept(x)
<1>1. PICK fd \in Fds :
        /\ fd = getFreeOpenFileEntry /\ IS_OPEN_FILE_ENTRY_EMPTY(fd)
        /\ TablesRight'
        /\ open_files'[fd].uid = u /\ open_files'[fd].f_type = f_type
        /\ open_files'[fd].flags = flags \cap {"RDONLY", "WRONLY"}
        /\ GET_FILE_ID_BY_FD(fd)' = ino
        /\ \A x \in Fds \ {fd} : Kept(x)
  BY EntryOpened, TablesAreRight DEF TablesInv
<1>2. NamesOpened(fd)
  BY <1>1, Sizes DEF NamesOpened, INO_NUM_EMPTY
<1>3. OpenFilesExist'
  BY <1>1, <1>2, FilesStillExist DEF TablesInv
<1>4. Shrinks
  BY DEF Shrinks
<1>5. "WRONLY" \notin open_files[fd].flags
  BY <1>1, EmptyEntry DEF NoEntry
<1>6. TransactionsStay
  BY <1>1, <1>4, <1>5, WritersStay DEF TablesInv
<1>7. f_type = "dir" => "WRONLY" \notin flags
  BY DEF OpenRefused
<1> QED  BY <1>1, <1>3, <1>6, <1>7

LEMMA OpenStep ==
  ASSUME TablesInv, NEW u \in Users, Open(u) PROVE TablesStep
<1>1. PICK n \in Names, flags \in OpenFlags :
        \/ /\ flags \cap {"RDONLY", "WRONLY"} = {}
           /\ mutex' = TRUE
           /\ UNCHANGED <<tables, creating, disk>>
        \/ /\ flags \cap {"RDONLY", "WRONLY"} # {}
           /\ n \in Files /\ inode[n] = INO_NUM_EMPTY /\ "CREAT" \in flags
           /\ creating' = [creating EXCEPT ![u] = n]
           /\ UNCHANGED <<tables, mutex, disk>>
        \/ /\ flags \cap {"RDONLY", "WRONLY"} # {}
           /\ inode[n] # INO_NUM_EMPTY
           /\ setOpenFentry(u, inode[n], flags, TypeOf(n), size[inode[n]])
           /\ UNCHANGED <<dirstreams, mutex, creating, disk>>
  BY DEF Open
<1>2. UNCHANGED <<dirstreams, syncing, disk>>
  BY <1>1 DEF Open, tables
<1>3. mutex' \in BOOLEAN /\ creating' \in [Users -> Names \cup {NoName}]
  BY <1>1 DEF TablesInv, TypeOK
<1>4. ASSUME UNCHANGED <<open_files, vnodes>> PROVE TablesStep
  <2>1. open_files' \in [Fds -> Entry] /\ \A fd \in Fds : SameEntry(fd)
    BY <1>4, TablesAreRight DEF TablesInv, TablesRight, SameEntry
  <2>2. Shrinks
    BY <1>2 DEF disk, Shrinks
  <2>3. OtherTypes'
    BY <1>2, <1>3, TypeParts DEF TablesInv, OtherTypes, disk
  <2> QED  BY <1>2, <1>4, <2>1, <2>2, <2>3, DiskStep, NextParts DEF disk
<1>5. ASSUME ~OpenRefused(u, inode[n], flags, TypeOf(n)),
             flags \cap {"RDONLY", "WRONLY"} # {}, inode[n] # INO_NUM_EMPTY,
             setOpenFentry(u, inode[n], flags, TypeOf(n), size[inode[n]])
      PROVE  TablesStep
  <2>1. inode[n] \in Inos /\ TypeOf(n) \in {"file", "dir"}
    BY <1>5 DEF TablesInv, TypeOK, TypeOf
  <2>2. size[inode[n]] \in 0 .. MaxSize
    BY <2>1 DEF TablesInv, TypeOK
  <2>3. /\ TablesRight' /\ OpenFilesExist' /\ TransactionsStay
        /\ \E fd \in Fds :
             /\ fd = getFreeOpenFileEntry /\ IS_OPEN_FILE_ENTRY_EMPTY(fd)
             /\ open_files'[fd].f_type = "dir" => "WRONLY" \notin open_files'[fd].flags
             /\ \A x \in Fds \ {fd} : Kept(x)
    BY <1>2, <1>5, <2>1, <2>2, OpenedByName DEF disk
  <2>4. StreamsFresh' /\ ReadOnlyEntries'
    BY <1>2, <2>3, StreamEntryOpen, StreamsStay DEF TablesInv, StreamKept
  <2>5. OtherTypes'
    BY <1>2, <1>3, TypeParts DEF TablesInv, OtherTypes, disk
  <2> QED  BY <2>3, <2>4, <2>5, NextParts
<1>6. CASE UNCHANGED <<open_files, vnodes>>
  BY <1>4, <1>6
<1>7. CASE /\ flags \cap {"RDONLY", "WRONLY"} # {}
           /\ inode[n] # INO_NUM_EMPTY
           /\ setOpenFentry(u, inode[n], flags, TypeOf(n), size[inode[n]])
  <2>1. CASE OpenRefused(u, inode[n], flags, TypeOf(n))
    BY <1>4, <1>7, <2>1 DEF setOpenFentry
  <2>2. CASE ~OpenRefused(u, inode[n], flags, TypeOf(n))
    BY <1>5, <1>7, <2>2
  <2> QED  BY <2>1, <2>2
<1> QED  BY <1>1, <1>6, <1>7 DEF tables

(* Rewriting the directory changes no stream that holds its entry: the     *)
(* directory is not open.                                                  *)
LEMMA StreamsOfOthers ==
  ASSUME TablesInv, ROOT \notin OpenInos, DirectoryRewritten
  PROVE  /\ dirstreams' \in [Streams -> Stream]
         /\ \A s \in Streams : dirstreams'[s].opener # NoUser => dirstreams'[s] = dirstreams[s]
<1>1. ASSUME NEW s \in Streams
      PROVE  /\ dirstreams'[s] \in Stream
             /\ dirstreams'[s].opener # NoUser => dirstreams'[s] = dirstreams[s]
  <2>1. dirstreams'[s] = [dirstreams[s] EXCEPT
                            !.fresh = dirstreams[s].fresh /\ dirstreams[s].ino # ROOT]
    BY DEF DirectoryRewritten
  <2>2. dirstreams[s] \in Stream
    BY TypeParts DEF TablesInv, OtherTypes
  <2>3. dirstreams[s].opener # NoUser => dirstreams[s].ino # ROOT
    BY StreamEntryOpen
  <2> QED  BY <2>1, <2>2, <2>3 DEF Stream
<1> QED  BY <1>1 DEF DirectoryRewritten

(* createNewFile() up to setOpenFentry(): the new file is not open.        *)
LEMMA NewFile ==
  ASSUME TablesInv, NEW n \in Names, ~CreateRefused(n), NEW S \in Abortable({}),
         Created(n, FreeIno, S)
  PROVE  /\ FreeIno \in Inos /\ inode'[n] = FreeIno /\ Shrinks
         /\ \A m \in Names : inode[m] \in OpenInos => inode'[m] = inode[m]
         /\ \A s \in Streams : dirstreams'[s].opener # NoUser => dirstreams'[s] = dirstreams[s]
         /\ dirstreams' \in [Streams -> Stream]
         /\ inode' \in [Names -> Inos \cup {INO_NUM_EMPTY}]
         /\ size' \in [Inos -> 0 .. MaxSize] /\ durable' \in [Inos -> 0 .. MaxSize]
         /\ trans' \in [Tids -> Inos \cup {INO_NUM_EMPTY}]
<1>1. inode[n] = INO_NUM_EMPTY /\ ROOT \notin OpenInos
  BY DEF CreateRefused, verifyFileNotOpen
<1>2. FreeIno \in Inos
  BY <1>1, FreeInodeExists DEF TablesInv
<1>3. OtherTypes
  BY TypeParts DEF TablesInv
<1>4. /\ inode' = [inode EXCEPT ![n] = FreeIno]
      /\ durable' = [durable EXCEPT ![FreeIno] = 0]
      /\ trans' = [t \in Tids |-> IF t \in S THEN INO_NUM_EMPTY ELSE trans[t]]
      /\ DirectoryRewritten
  BY DEF Created
<1>5. size' \in [Inos -> 0 .. MaxSize]
  BY <1>3, Sizes DEF Created, OtherTypes
<1>6. durable' \in [Inos -> 0 .. MaxSize]
  <2>1. 0 \in 0 .. MaxSize /\ durable \in [Inos -> 0 .. MaxSize]
    BY <1>3, Sizes DEF OtherTypes
  <2> QED  BY <1>4, <2>1
<1>7. trans' \in [Tids -> Inos \cup {INO_NUM_EMPTY}] /\ Shrinks
  BY <1>3, <1>4 DEF OtherTypes, Shrinks
<1>8. /\ inode' \in [Names -> Inos \cup {INO_NUM_EMPTY}] /\ inode'[n] = FreeIno
      /\ \A m \in Names : inode[m] \in OpenInos => inode'[m] = inode[m]
  BY <1>1, <1>2, <1>3, <1>4 DEF OtherTypes, OpenInos
<1> QED  BY <1>1, <1>2, <1>4, <1>5, <1>6, <1>7, <1>8, StreamsOfOthers

LEMMA CreatStep ==
  ASSUME TablesInv, NEW u \in Users, Creat(u) PROVE TablesStep
<1>1. PICK n \in Names : createNewFile(u, n)
  BY DEF Creat, TablesInv, TypeOK
<1>2. /\ UNCHANGED <<mutex, syncing>>
      /\ creating' \in [Users -> Names \cup {NoName}]
  BY DEF Creat, TablesInv, TypeOK
<1>3. OtherTypes /\ TablesRight
  BY TypeParts, TablesAreRight DEF TablesInv
<1>4. ASSUME UNCHANGED <<open_files, vnodes, dirstreams, inode>>, Shrinks,
             size' \in [Inos -> 0 .. MaxSize], durable' \in [Inos -> 0 .. MaxSize],
             trans' \in [Tids -> Inos \cup {INO_NUM_EMPTY}]
      PROVE  TablesStep
  <2>1. open_files' \in [Fds -> Entry] /\ \A fd \in Fds : SameEntry(fd)
    BY <1>3, <1>4 DEF TablesRight, SameEntry
  <2>2. OtherTypes'
    BY <1>2, <1>3, <1>4 DEF OtherTypes
  <2> QED  BY <1>4, <2>1, <2>2, DiskStep, NextParts
<1>5. CASE CreateRefused(n) /\ UNCHANGED <<tables, disk>>
  <2>1. UNCHANGED <<open_files, vnodes, dirstreams, inode, size, durable, trans>>
    BY <1>5 DEF tables, disk
  <2> QED  BY <2>1, <1>3, <1>4 DEF Shrinks, OtherTypes
<1>6. ASSUME NEW S \in Abortable({}), Settle(S, {}, {}), UNCHANGED <<tables, inode>>
      PROVE  TablesStep
  <2>1. S \in SUBSET Tids /\ {} \in SUBSET Inos
    BY DEF Abortable, Busy
  <2>2. UNCHANGED <<open_files, vnodes, dirstreams, inode>>
    BY <1>6 DEF tables
  <2> QED  BY <1>4, <1>6, <2>1, <2>2, Settled DEF TablesInv
<1>7. ASSUME ~CreateRefused(n), NEW S \in Abortable({}), Created(n, FreeIno, S),
             IF n \in Dirs THEN UNCHANGED <<open_files, vnodes>>
             ELSE setOpenFentry(u, FreeIno, {"CREAT", "WRONLY"}, "file", 0)
      PROVE  TablesStep
  <2>1. /\ FreeIno \in Inos /\ inode'[n] = FreeIno /\ Shrinks
        /\ \A m \in Names : inode[m] \in OpenInos => inode'[m] = inode[m]
        /\ \A s \in Streams : dirstreams'[s].opener # NoUser => dirstreams'[s] = dirstreams[s]
        /\ OtherTypes'
    BY <1>2, <1>3, <1>7, NewFile DEF OtherTypes
  <2>2. ASSUME UNCHANGED <<open_files, vnodes>> PROVE TablesStep
    <3>1. TablesRight' /\ \A fd \in Fds : Kept(fd)
      BY <1>3, <2>2, TablesUnchanged
    <3>2. OpenFilesExist' /\ TransactionsStay
      BY <2>1, <3>1, FilesStillExist, WritersStay DEF TablesInv
    <3>3. StreamsFresh' /\ ReadOnlyEntries'
      BY <2>1, <3>1, StreamEntryOpen, StreamsStay DEF TablesInv, StreamKept
    <3> QED  BY <2>1, <3>1, <3>2, <3>3, NextParts
  <2>3. ASSUME n \notin Dirs, ~OpenRefused(u, FreeIno, {"CREAT", "WRONLY"}, "file"),
               setOpenFentry(u, FreeIno, {"CREAT", "WRONLY"}, "file", 0)
        PROVE  TablesStep
    <3>1. {"CREAT", "WRONLY"} \cap {"RDONLY", "WRONLY"} # {} /\ 0 \in 0 .. MaxSize
      BY Sizes
    <3>2. PICK fd \in Fds :
            /\ IS_OPEN_FILE_ENTRY_EMPTY(fd)
            /\ TablesRight'
            /\ open_files'[fd].f_type = "file"
            /\ GET_FILE_ID_BY_FD(fd)' = FreeIno
            /\ \A x \in Fds \ {fd} : Kept(x)
      BY <1>3, <2>1, <2>3, <3>1, EntryOpened DEF TablesInv
    <3>3. NamesOpened(fd)
      BY <2>1, <2>3, <3>2, Sizes DEF NamesOpened, TypeOf, INO_NUM_EMPTY
    <3>4. OpenFilesExist'
      BY <2>1, <3>2, <3>3, FilesStillExist DEF TablesInv
    <3>5. "WRONLY" \notin open_files[fd].flags
      BY <3>2, EmptyEntry DEF NoEntry
    <3>6. TransactionsStay
      BY <2>1, <3>2, <3>5, WritersStay DEF TablesInv
    <3>7. StreamsFresh' /\ ReadOnlyEntries'
      BY <2>1, <3>2, StreamEntryOpen, StreamsStay DEF TablesInv, StreamKept
    <3> QED  BY <2>1, <3>2, <3>4, <3>6, <3>7, NextParts
  <2> QED  BY <1>7, <2>2, <2>3 DEF setOpenFentry
<1> QED  BY <1>1, <1>5, <1>6, <1>7 DEF createNewFile

(* unlink() and rmdir()                                                    *)
LEMMA RemoveStep ==
  ASSUME TablesInv, NEW u \in Users, Remove(u) PROVE TablesStep
<1>1. PICK n \in Names : /\ RemoveAllowed(n)
                         /\ inode' = [inode EXCEPT ![n] = INO_NUM_EMPTY]
                         /\ size' = [size EXCEPT ![inode[n]] =
                                       IF TidsOf(inode[n]) = {} THEN 0 ELSE @]
                         /\ durable' = [durable EXCEPT ![inode[n]] = 0]
  BY DEF Remove
<1>2. inode[n] \notin OpenInos /\ ROOT \notin OpenInos
  BY <1>1 DEF RemoveAllowed, verifyFileNotOpen
<1>3. UNCHANGED <<open_files, vnodes, mutex, creating, syncing, trans>> /\ DirectoryRewritten
  BY DEF Remove
<1>4. OtherTypes /\ TablesRight
  BY TypeParts, TablesAreRight DEF TablesInv
<1>5. TablesRight' /\ \A fd \in Fds : Kept(fd)
  BY <1>3, <1>4, TablesUnchanged
<1>6. \A m \in Names : inode[m] \in OpenInos => inode'[m] = inode[m]
  BY <1>1, <1>2, <1>4 DEF OtherTypes
<1>7. Shrinks
  BY <1>3 DEF Shrinks
<1>8. OpenFilesExist' /\ TransactionsStay
  BY <1>5, <1>6, <1>7, FilesStillExist, WritersStay DEF TablesInv
<1>9. /\ dirstreams' \in [Streams -> Stream]
      /\ \A s \in Streams : dirstreams'[s].opener # NoUser => dirstreams'[s] = dirstreams[s]
  BY <1>2, <1>3, StreamsOfOthers
<1>10. OtherTypes'
  <2>1. 0 \in 0 .. MaxSize
    BY Sizes
  <2>2. inode' \in [Names -> Inos \cup {INO_NUM_EMPTY}]
    BY <1>1, <1>4 DEF OtherTypes
  <2>3. size' \in [Inos -> 0 .. MaxSize] /\ durable' \in [Inos -> 0 .. MaxSize]
    BY <1>1, <1>4, <2>1 DEF OtherTypes
  <2> QED  BY <1>3, <1>4, <1>9, <2>2, <2>3 DEF OtherTypes
<1>11. StreamsFresh' /\ ReadOnlyEntries'
  BY <1>5, <1>9, StreamEntryOpen, StreamsStay DEF TablesInv, StreamKept
<1> QED  BY <1>5, <1>8, <1>10, <1>11, NextParts

(* getTidByFileId() of a file that has a transaction, or when one is free. *)
LEMMA TidFound ==
  ASSUME NEW ino, TidsOf(ino) # {} \/ Busy # Tids
  PROVE  /\ TidFor(ino) \in Tids
         /\ TidsOf(ino) # {} => TidFor(ino) \in TidsOf(ino)
<1> DEFINE T == IF TidsOf(ino) # {} THEN TidsOf(ino) ELSE Tids \ Busy
<1>1. T # {} /\ T \subseteq Tids
  BY DEF TidsOf, Busy
<1>2. First(T) \in T
  BY <1>1, FirstOf, Sizes DEF Tids
<1> QED  BY <1>1, <1>2 DEF TidFor

LEMMA WriteStep ==
  ASSUME TablesInv, NEW u \in Users, Write(u) PROVE TablesStep
<1>1. PICK fd \in Fds, n \in 0 .. MaxSize :
        /\ WriteAllowed(u, fd)
        /\ open_files[fd].offset + n <= MaxSize
        /\ \E S \in Abortable({TidFor(GET_FILE_ID_BY_FD(fd))}) :
             (n > 0 /\ Written(fd, n, S)) \/ WriteFailed(fd, n, S)
  BY DEF Write
<1>2. UNCHANGED <<vnodes, dirstreams, creating, syncing, inode>>
  BY DEF Write
<1> DEFINE ino == GET_FILE_ID_BY_FD(fd)
<1>3. /\ ~IS_OPEN_FILE_ENTRY_EMPTY(fd) /\ ino \in Inos
      /\ "WRONLY" \in open_files[fd].flags
  BY <1>1, OpenEntryFile DEF WriteAllowed, verifyFd
<1>4. PICK S \in SUBSET Tids :
        /\ TidFor(ino) \notin S
        /\ (n > 0 /\ Written(fd, n, S)) \/ WriteFailed(fd, n, S)
  BY <1>1 DEF Abortable, Busy
<1>5. OtherTypes /\ TablesRight
  BY TypeParts, TablesAreRight DEF TablesInv
<1>6. open_files[fd] \in Entry /\ open_files[fd].offset + n \in 0 .. MaxSize
  BY <1>1, <1>5, Sizes DEF TablesRight, Entry
<1>7. open_files' = [open_files EXCEPT ![fd].offset = open_files[fd].offset + n]
  BY <1>4 DEF Written, WriteFailed
<1>8. open_files' \in [Fds -> Entry] /\ \A x \in Fds : SameEntry(x)
  <2>1. /\ open_files'[fd] = [open_files[fd] EXCEPT !.offset = open_files[fd].offset + n]
        /\ \A x \in Fds \ {fd} : open_files'[x] = open_files[x]
    BY <1>5, <1>7 DEF TablesRight
  <2>2. open_files'[fd] \in Entry
    BY <1>6, <2>1 DEF Entry
  <2>3. open_files' \in [Fds -> Entry]
    BY <1>5, <1>7, <2>1, <2>2 DEF TablesRight
  <2>4. SameEntry(fd)
    BY <1>3, <1>6, <2>1 DEF SameEntry, Entry, NoEntry, IS_OPEN_FILE_ENTRY_EMPTY
  <2> QED  BY <2>1, <2>3, <2>4 DEF SameEntry
<1>9. TablesRight' /\ \A x \in Fds : Kept(x)
  BY <1>2, <1>5, <1>8, OffsetsChange
<1>10. OpenFilesExist' /\ StreamsFresh' /\ ReadOnlyEntries'
  <2>1. OpenFilesExist'
    BY <1>2, <1>9, FilesStillExist DEF TablesInv
  <2> QED  BY <1>2, <1>9, <2>1, StreamEntryOpen, StreamsStay DEF TablesInv, StreamKept
<1>11. CASE WriteFailed(fd, n, S)
  <2>1. Settle(S, {}, {ino}) /\ mutex' \in BOOLEAN
    BY <1>11 DEF WriteFailed
  <2>2. /\ size' \in [Inos -> 0 .. MaxSize] /\ durable' \in [Inos -> 0 .. MaxSize]
        /\ trans' \in [Tids -> Inos \cup {INO_NUM_EMPTY}]
        /\ Shrinks
    BY <1>3, <2>1, Settled DEF TablesInv
  <2>3. OtherTypes'
    BY <1>2, <1>5, <2>1, <2>2 DEF OtherTypes
  <2>4. TransactionsStay
    BY <1>9, <2>2, WritersStay DEF TablesInv
  <2> QED  BY <1>9, <1>10, <2>3, <2>4, NextParts
<1>12. CASE Written(fd, n, S)
  <2> DEFINE me == TidFor(ino)
  <2>1. /\ trans' = [t \in Tids |-> IF t \in S THEN INO_NUM_EMPTY
                                    ELSE IF t = me THEN ino ELSE trans[t]]
        /\ UNCHANGED <<durable, mutex>>
    BY <1>12 DEF Written
  <2>2. size' \in [Inos -> 0 .. MaxSize]
    BY <1>5, <1>6, <1>12 DEF Written, OtherTypes
  <2>3. me \in Tids /\ (TidsOf(ino) # {} => me \in TidsOf(ino))
    BY <1>1, TidFound DEF WriteAllowed
  <2> HIDE DEF me
  <2>4. trans' \in [Tids -> Inos \cup {INO_NUM_EMPTY}]
    BY <1>3, <1>5, <2>1 DEF OtherTypes
  <2>5. OtherTypes'
    BY <1>2, <1>5, <2>1, <2>2, <2>4 DEF OtherTypes
  <2>6. TidsOf(ino) \subseteq {me}
    <3> SUFFICES ASSUME NEW t \in TidsOf(ino) PROVE t = me
      OBVIOUS
    <3>1. me \in TidsOf(ino) /\ trans[me] = ino /\ me \in Busy
      BY <1>3, <2>3, Sizes DEF TidsOf, Busy, INO_NUM_EMPTY
    <3> QED  BY <3>1 DEF TablesInv, OneTransaction
  <2>7. OneTransaction'
    <3> SUFFICES ASSUME NEW t \in Tids, trans'[t] # INO_NUM_EMPTY
                 PROVE  {s \in Tids : trans'[s] = trans'[t]} = {t}
      BY DEF OneTransaction, Busy, TidsOf
    <3>1. t \notin S
      BY <2>1
    <3>2. CASE t = me
      <4>1. trans'[t] = ino
        BY <2>1, <3>1, <3>2
      <4> QED  BY <1>3, <2>1, <2>6, <3>2, <4>1, Sizes DEF TidsOf, INO_NUM_EMPTY
    <3>3. CASE t # me
      <4>1. trans'[t] = trans[t] /\ t \in Busy
        BY <2>1, <3>1, <3>3 DEF Busy
      <4>2. {s \in Tids : trans[s] = trans[t]} = {t} /\ trans[t] # ino
        BY <2>6, <3>3, <4>1 DEF TidsOf, TablesInv, OneTransaction
      <4> QED  BY <2>1, <3>1, <3>3, <4>1, <4>2
    <3> QED  BY <3>2, <3>3
  <2>8. WritersStep
    <3> SUFFICES ASSUME NEW t \in Tids, NEW i \in Inos, trans'[t] = i, ~HasWriter(i)'
                 PROVE  trans[t] = i /\ ~HasWriter(i)
      BY DEF WritersStep
    <3>1. i # ino
      BY <1>3, <1>9 DEF HasWriter, Kept, SameEntry
    <3>2. trans[t] = i
      BY <2>1, <3>1, Sizes DEF INO_NUM_EMPTY
    <3>3. ~HasWriter(i)
      BY <1>9 DEF HasWriter, Kept, SameEntry
    <3> QED  BY <3>2, <3>3
  <2>9. TransactionsStay
    BY <2>7, <2>8 DEF TransactionsStay
  <2> QED  BY <1>9, <1>10, <2>5, <2>9, NextParts
<1> QED  BY <1>4, <1>11, <1>12

(* read() and lseek() move the offset within the file.                     *)
LEMMA OffsetStep ==
  ASSUME TablesInv, NEW fd \in Fds, ~IS_OPEN_FILE_ENTRY_EMPTY(fd),
         NEW o \in 0 .. size[GET_FILE_ID_BY_FD(fd)],
         open_files' = [open_files EXCEPT ![fd].offset = o],
         UNCHANGED <<vnodes, dirstreams, mutex, creating, syncing, disk>>
  PROVE  TablesStep
<1>1. OtherTypes /\ TablesRight
  BY TypeParts, TablesAreRight DEF TablesInv
<1>2. o \in 0 .. MaxSize
  BY <1>1, OpenEntryFile, Sizes DEF OtherTypes
<1>3. /\ open_files'[fd] = [open_files[fd] EXCEPT !.offset = o]
      /\ \A x \in Fds \ {fd} : open_files'[x] = open_files[x]
  BY <1>1 DEF TablesRight
<1>4. open_files[fd] \in Entry
  BY <1>1 DEF TablesRight
<1>5. open_files'[fd] \in Entry
  BY <1>2, <1>3, <1>4 DEF Entry
<1>6. open_files' \in [Fds -> Entry]
  BY <1>1, <1>3, <1>5 DEF TablesRight
<1>7. \A x \in Fds : SameEntry(x)
  BY <1>3, <1>4 DEF SameEntry, Entry, NoEntry, IS_OPEN_FILE_ENTRY_EMPTY
<1>8. UNCHANGED <<inode, size, durable, trans>>
  BY DEF disk
<1>9. Shrinks /\ OtherTypes'
  BY <1>1, <1>8 DEF Shrinks, OtherTypes
<1> QED  BY <1>6, <1>7, <1>8, <1>9, DiskStep, NextParts

LEMMA ReadStep ==
  ASSUME TablesInv, NEW u \in Users, Read(u) \/ Lseek(u) PROVE TablesStep
<1>1. UNCHANGED <<vnodes, dirstreams, mutex, creating, syncing, disk>>
  BY DEF Read, Lseek
<1>2. CASE Lseek(u)
  BY <1>1, <1>2, OffsetStep DEF Lseek, verifyFd
<1>3. CASE Read(u)
  <2>1. PICK fd \in Fds, n \in 1 .. MaxSize :
          /\ verifyFd(u, fd)
          /\ open_files[fd].offset <= size[GET_FILE_ID_BY_FD(fd)]
          /\ open_files' = [open_files EXCEPT ![fd].offset = ReadEnd(fd, n)]
    BY <1>3 DEF Read
  <2>2. open_files[fd].offset \in Nat /\ n \in Nat
    BY <2>1, TablesAreRight DEF TablesInv, TablesRight, Entry
  <2>3. size[GET_FILE_ID_BY_FD(fd)] \in Nat
    BY <2>1, OpenEntryFile, Sizes DEF TablesInv, TypeOK, verifyFd
  <2>4. ReadEnd(fd, n) \in 0 .. size[GET_FILE_ID_BY_FD(fd)]
    BY <2>1, <2>2, <2>3 DEF ReadEnd
  <2> QED  BY <1>1, <2>1, <2>4, OffsetStep DEF verifyFd
<1> QED  BY <1>2, <1>3

(* A commit changes the disk only.                                         *)
LEMMA CommitStep ==
  ASSUME TablesInv, NEW ino \in Inos, NEW ok \in BOOLEAN, Commit(ino, ok),
         UNCHANGED <<open_files, vnodes, dirstreams, creating, inode>>,
         mutex' \in BOOLEAN, syncing' \in [user : Users \cup {NoUser}, fd : Fds]
  PROVE  TablesStep
<1>1. OtherTypes /\ TablesRight
  BY TypeParts, TablesAreRight DEF TablesInv
<1>2. /\ size' \in [Inos -> 0 .. MaxSize] /\ durable' \in [Inos -> 0 .. MaxSize]
      /\ trans' \in [Tids -> Inos \cup {INO_NUM_EMPTY}]
      /\ Shrinks
  BY Committed DEF TablesInv
<1>3. open_files' \in [Fds -> Entry] /\ \A x \in Fds : SameEntry(x)
  BY <1>1 DEF TablesRight, SameEntry
<1>4. OtherTypes'
  BY <1>1, <1>2 DEF OtherTypes
<1> QED  BY <1>2, <1>3, <1>4, DiskStep, NextParts

(* A call that changes neither tables nor disk.                            *)
LEMMA QuietStep ==
  ASSUME TablesInv, UNCHANGED <<tables, creating, disk>>,
         mutex' \in BOOLEAN, syncing' \in [user : Users \cup {NoUser}, fd : Fds]
  PROVE  TablesStep
<1>1. OtherTypes /\ TablesRight
  BY TypeParts, TablesAreRight DEF TablesInv
<1>2. UNCHANGED <<open_files, vnodes, dirstreams, creating, inode, size, durable, trans>>
  BY DEF tables, disk
<1>3. open_files' \in [Fds -> Entry] /\ \A x \in Fds : SameEntry(x)
  BY <1>1, <1>2 DEF TablesRight, SameEntry
<1>4. OtherTypes' /\ Shrinks
  BY <1>1, <1>2 DEF OtherTypes, Shrinks
<1> QED  BY <1>2, <1>3, <1>4, DiskStep, NextParts

(* What close() and dup2() do about the transaction of a writer.           *)
LEMMA WriterCommitted ==
  ASSUME TablesInv, NEW fd \in Fds, ~IS_OPEN_FILE_ENTRY_EMPTY(fd),
         NEW ok \in BOOLEAN, CommitIfWriter(fd, ok)
  PROVE  /\ size' \in [Inos -> 0 .. MaxSize] /\ durable' \in [Inos -> 0 .. MaxSize]
         /\ trans' \in [Tids -> Inos \cup {INO_NUM_EMPTY}]
         /\ Shrinks
         /\ \/ "WRONLY" \notin open_files[fd].flags
            \/ \A t \in Tids : trans'[t] # GET_FILE_ID_BY_FD(fd)
<1>1. CASE "WRONLY" \in open_files[fd].flags
  <2>1. Commit(GET_FILE_ID_BY_FD(fd), ok) /\ GET_FILE_ID_BY_FD(fd) \in Inos
    BY <1>1, OpenEntryFile DEF CommitIfWriter
  <2> QED  BY <2>1, Committed DEF TablesInv
<1>2. CASE "WRONLY" \notin open_files[fd].flags
  <2>1. UNCHANGED <<size, durable, trans>>
    BY <1>2 DEF CommitIfWriter
  <2> QED  BY <1>2, <2>1 DEF TablesInv, TypeOK, Shrinks
<1> QED  BY <1>1, <1>2

(* close(), dup2() and closedir() of another stream: the streams that      *)
(* still hold their entry have another one.                                *)
LEMMA StreamsKeepEntry ==
  ASSUME TablesInv, NEW fd \in Fds
  PROVE  /\ EntryGone(fd) \in [Streams -> Stream]
         /\ \A s \in Streams : EntryGone(fd)[s].opener # NoUser =>
              EntryGone(fd)[s] = dirstreams[s] /\ dirstreams[s].fd \in Fds \ {fd}
<1>1. ASSUME NEW s \in Streams
      PROVE  /\ EntryGone(fd)[s] \in Stream
             /\ EntryGone(fd)[s].opener # NoUser =>
                  EntryGone(fd)[s] = dirstreams[s] /\ dirstreams[s].fd # fd
  <2>1. EntryGone(fd)[s] =
          IF dirstreams[s].fd # fd THEN dirstreams[s]
          ELSE [dirstreams[s] EXCEPT !.fresh = FALSE, !.opener = NoUser]
    BY DEF EntryGone
  <2>2. dirstreams[s] \in Stream
    BY TypeParts DEF TablesInv, OtherTypes
  <2> QED  BY <2>1, <2>2 DEF Stream
<1>2. EntryGone(fd) \in [Streams -> Stream]
  BY <1>1 DEF EntryGone
<1> QED  BY <1>1, <1>2, StreamEntryOpen

LEMMA CloseStep ==
  ASSUME TablesInv, NEW u \in Users, Close(u) PROVE TablesStep
<1>1. PICK fd \in Fds, ok \in BOOLEAN :
        /\ verifyFd(u, fd)
        /\ CommitIfWriter(fd, ok)
        /\ IF ok THEN SetRam(Release(Ram, fd)) /\ dirstreams' = EntryGone(fd)
           ELSE UNCHANGED <<open_files, vnodes, dirstreams>>
  BY DEF Close, tables
<1>2. UNCHANGED <<mutex, creating, syncing, inode>>
  BY DEF Close
<1>3. OtherTypes /\ TablesRight
  BY TypeParts, TablesAreRight DEF TablesInv
<1>4. /\ size' \in [Inos -> 0 .. MaxSize] /\ durable' \in [Inos -> 0 .. MaxSize]
      /\ trans' \in [Tids -> Inos \cup {INO_NUM_EMPTY}]
      /\ Shrinks
      /\ \/ "WRONLY" \notin open_files[fd].flags
         \/ \A t \in Tids : trans'[t] # GET_FILE_ID_BY_FD(fd)
  BY <1>1, WriterCommitted DEF verifyFd
<1>5. OtherTypes'
  <2>1. dirstreams' \in [Streams -> Stream]
    BY <1>1, <1>3, StreamsKeepEntry DEF OtherTypes
  <2> QED  BY <1>2, <1>3, <1>4, <2>1 DEF OtherTypes
<1>6. CASE ~ok
  <2>1. open_files' \in [Fds -> Entry] /\ \A x \in Fds : SameEntry(x)
    BY <1>1, <1>3, <1>6 DEF TablesRight, SameEntry
  <2> QED  BY <1>1, <1>2, <1>4, <1>5, <1>6, <2>1, DiskStep, NextParts
<1>7. CASE ok
  <2>1. TablesRight' /\ Emptied(fd) /\ \A x \in Fds \ {fd} : Kept(x)
    BY <1>1, <1>3, <1>7, EntryReleased DEF verifyFd, TablesInv
  <2>2. OpenFilesExist' /\ TransactionsStay
    BY <1>2, <1>4, <2>1, FilesStillExist, WritersStay DEF TablesInv
  <2>3. StreamsFresh' /\ ReadOnlyEntries'
    <3>1. open_files'[fd].f_type # "dir"
      BY <2>1 DEF Emptied, NoEntry
    <3>2. \A s \in Streams : dirstreams'[s].opener # NoUser => StreamKept(s)
      BY <1>1, <1>7, <2>1, StreamsKeepEntry DEF StreamKept
    <3> QED  BY <2>1, <3>1, <3>2, StreamsStay DEF TablesInv
  <2> QED  BY <1>5, <2>1, <2>2, <2>3, NextParts
<1> QED  BY <1>6, <1>7

LEMMA FsyncStep ==
  ASSUME TablesInv, NEW u \in Users, Fsync(u) PROVE TablesStep
<1>1. PICK fd \in Fds, ok \in BOOLEAN :
        verifyFd(u, fd) /\ Commit(GET_FILE_ID_BY_FD(fd), ok)
  BY DEF Fsync
<1>2. UNCHANGED <<tables, mutex, creating, syncing, inode>>
  BY DEF Fsync
<1>3. GET_FILE_ID_BY_FD(fd) \in Inos
  BY <1>1, OpenEntryFile DEF verifyFd
<1> QED  BY <1>1, <1>2, <1>3, CommitStep DEF tables, TablesInv, TypeOK

(* sync(): each entry is an fsync().                                       *)
LEMMA FirstOpen ==
  ASSUME NEW fd, OpenFrom(fd) # {} PROVE First(OpenFrom(fd)) \in Fds
<1>1. OpenFrom(fd) \subseteq Fds /\ Fds \subseteq Nat
  BY Sizes DEF OpenFrom, Fds
<1> QED  BY <1>1, FirstOf

LEMMA SyncEntryStep ==
  ASSUME TablesInv, NEW u \in Users \cup {NoUser}, NEW fd \in Fds, SyncEntry(u, fd)
  PROVE  TablesStep
<1>1. NoSync \in [user : Users \cup {NoUser}, fd : Fds]
  BY Sizes DEF NoSync
<1>2. SyncNext(u, fd + 1) \/ SyncDone =>
        /\ mutex' \in BOOLEAN
        /\ syncing' \in [user : Users \cup {NoUser}, fd : Fds]
  <2>1. CASE SyncDone
    BY <1>1, <2>1 DEF SyncDone
  <2>2. ASSUME SyncNext(u, fd + 1), OpenFrom(fd + 1) # {}
        PROVE  /\ mutex' = TRUE
               /\ syncing' \in [user : Users \cup {NoUser}, fd : Fds]
    <3>1. PICK next \in Fds : next = First(OpenFrom(fd + 1))
      BY <2>2, FirstOpen
    <3>2. mutex' = TRUE /\ syncing' = [user |-> u, fd |-> next]
      BY <2>2, <3>1 DEF SyncNext
    <3> QED  BY <3>2
  <2> QED  BY <2>1, <2>2 DEF SyncNext
<1>3. UNCHANGED <<tables, creating, inode>>
  BY DEF SyncEntry
<1>4. /\ mutex' \in BOOLEAN
      /\ syncing' \in [user : Users \cup {NoUser}, fd : Fds]
  BY <1>2 DEF SyncEntry
<1>5. CASE UNCHANGED <<size, durable, trans>>
  BY <1>3, <1>4, <1>5, QuietStep DEF disk
<1>6. ASSUME NEW ok \in BOOLEAN, verifyFd(u, fd), Commit(GET_FILE_ID_BY_FD(fd), ok)
      PROVE  TablesStep
  <2>1. GET_FILE_ID_BY_FD(fd) \in Inos
    BY <1>6, OpenEntryFile DEF verifyFd
  <2> QED  BY <1>3, <1>4, <1>6, <2>1, CommitStep DEF tables
<1> QED  BY <1>5, <1>6 DEF SyncEntry

LEMMA SyncStep ==
  ASSUME TablesInv, (\E u \in Users : SyncStart(u)) \/ SyncGoesOn PROVE TablesStep
<1>1. ASSUME NEW u \in Users, SyncStart(u) PROVE TablesStep
  BY <1>1, FirstOpen, SyncEntryStep DEF SyncStart
<1>2. CASE SyncGoesOn
  <2>1. syncing.user \in Users \cup {NoUser} /\ syncing.fd \in Fds
    BY DEF TablesInv, TypeOK
  <2> QED  BY <1>2, <2>1, SyncEntryStep DEF SyncGoesOn
<1> QED  BY <1>1, <1>2

(* opendir(): the first free stream gets the new entry.                    *)
LEMMA OpendirStep ==
  ASSUME TablesInv, NEW u \in Users, Opendir(u) PROVE TablesStep
<1>1. PICK ino \in {ROOT} \cup ({inode[n] : n \in Dirs} \ {INO_NUM_EMPTY}) :
        /\ ~OpenRefused(u, ino, {"RDONLY"}, "dir")
        /\ setOpenFentry(u, ino, {"RDONLY"}, "dir", 0)
        /\ dirstreams' = [dirstreams EXCEPT ![First(FreeStreams)] =
                            [fd |-> getFreeOpenFileEntry, ino |-> ino, fresh |-> TRUE,
                             opener |-> u]]
  BY DEF Opendir
<1>2. UNCHANGED <<mutex, creating, syncing, disk>> /\ FreeStreams # {}
  BY DEF Opendir
<1>3. UNCHANGED <<inode, size, durable, trans>>
  BY <1>2 DEF disk
<1>4. OtherTypes
  BY TypeParts DEF TablesInv
<1>5. /\ ino \in Inos
      /\ \/ ino = ROOT
         \/ \E n \in Names : inode[n] = ino /\ TypeOf(n) = "dir"
  BY <1>4, Sizes DEF OtherTypes, Names, TypeOf
<1>6. {"RDONLY"} \cap {"RDONLY", "WRONLY"} = {"RDONLY"} /\ 0 \in 0 .. MaxSize
  BY Sizes
<1>7. /\ TablesRight' /\ OpenFilesExist' /\ TransactionsStay
      /\ \E fd \in Fds :
           /\ fd = getFreeOpenFileEntry /\ IS_OPEN_FILE_ENTRY_EMPTY(fd)
           /\ open_files'[fd].flags = {"RDONLY"} \cap {"RDONLY", "WRONLY"}
           /\ open_files'[fd].uid = u
           /\ GET_FILE_ID_BY_FD(fd)' = ino
           /\ open_files'[fd].f_type = "dir" => "WRONLY" \notin open_files'[fd].flags
           /\ \A x \in Fds \ {fd} : Kept(x)
  BY <1>1, <1>3, <1>5, <1>6, OpenedByName
<1>8. PICK fd \in Fds :
           /\ fd = getFreeOpenFileEntry /\ IS_OPEN_FILE_ENTRY_EMPTY(fd)
           /\ open_files'[fd].flags = {"RDONLY"} /\ open_files'[fd].uid = u
           /\ GET_FILE_ID_BY_FD(fd)' = ino
           /\ \A x \in Fds \ {fd} : Kept(x)
  BY <1>6, <1>7
<1>9. PICK new \in Streams : new = First(FreeStreams) /\ dirstreams[new].fd = FD_EMPTY
  <2>1. FreeStreams \subseteq Nat
    BY Sizes DEF FreeStreams, Streams
  <2> QED  BY <1>2, <2>1, FirstOf DEF FreeStreams
<1>10. /\ dirstreams'[new] = [fd |-> fd, ino |-> ino, fresh |-> TRUE,
                              opener |-> u]
       /\ \A s \in Streams \ {new} : dirstreams'[s] = dirstreams[s]
       /\ dirstreams' \in [Streams -> Stream]
  BY <1>1, <1>4, <1>5, <1>8, <1>9 DEF OtherTypes, Stream
<1>11. ASSUME NEW s \in Streams \ {new}, dirstreams'[s].opener # NoUser
       PROVE  \E x \in Fds \ {fd} : x = dirstreams[s].fd /\ Kept(x)
  BY <1>8, <1>10, <1>11, StreamEntryOpen
<1>12. fd # FD_EMPTY
  BY Sizes DEF Fds, FD_EMPTY
<1>13. StreamsFresh'
  <2> SUFFICES ASSUME NEW s \in Streams, dirstreams'[s].opener # NoUser
               PROVE  /\ GET_FILE_ID_BY_FD(dirstreams[s].fd)' = dirstreams'[s].ino
                      /\ dirstreams'[s].fresh
                      /\ dirstreams'[s].fd # FD_EMPTY
                      /\ open_files'[dirstreams'[s].fd].uid = dirstreams'[s].opener
                      /\ "WRONLY" \notin open_files'[dirstreams'[s].fd].flags
                      /\ \A r \in Streams \ {s} :
                           dirstreams'[r].opener # NoUser => dirstreams'[r].fd # dirstreams'[s].fd
    BY DEF StreamsFresh, verifyDirstream
  <2>1. CASE s = new
    BY <2>1, <1>8, <1>10, <1>11, <1>12
  <2>2. CASE s # new
    <3>1. PICK x \in Fds \ {fd} : x = dirstreams[s].fd /\ Kept(x)
      BY <2>2, <1>11
    <3>2. dirstreams'[s] = dirstreams[s]
      BY <2>2, <1>10
    <3>3. /\ GET_FILE_ID_BY_FD(x) = dirstreams[s].ino /\ dirstreams[s].fresh
          /\ x # FD_EMPTY /\ open_files[x].uid = dirstreams[s].opener
          /\ "WRONLY" \notin open_files[x].flags
          /\ \A r \in Streams \ {s} : dirstreams[r].opener # NoUser => dirstreams[r].fd # x
      BY <3>1, <3>2 DEF TablesInv, StreamsFresh, verifyDirstream
    <3>4. \A r \in Streams \ {s} : dirstreams'[r].opener # NoUser => dirstreams'[r].fd # x
      BY <3>1, <3>3, <1>10
    <3> QED  BY <3>1, <3>2, <3>3, <3>4 DEF Kept, SameEntry
  <2> QED  BY <2>1, <2>2
<1>14. ReadOnlyEntries'
  <2>1. \A x \in Fds : open_files'[x].f_type = "dir" => "WRONLY" \notin open_files'[x].flags
    BY <1>8 DEF TablesInv, ReadOnlyEntries, Kept, SameEntry
  <2>2. \A s \in Streams : dirstreams'[s].opener # NoUser => dirstreams'[s].ino # INO_NUM_EMPTY
    BY <1>5, <1>10, Sizes DEF TablesInv, ReadOnlyEntries, INO_NUM_EMPTY
  <2> QED  BY <2>1, <2>2 DEF ReadOnlyEntries
<1>15. OtherTypes'
  BY <1>2, <1>3, <1>4, <1>10 DEF OtherTypes
<1> QED  BY <1>7, <1>13, <1>14, <1>15, NextParts

(* closedir() of a stream that holds its entry gives up a reader; what the *)
(* descriptor of another one names may be a writer.                        *)
LEMMA ClosedirStep ==
  ASSUME TablesInv, NEW u \in Users, Closedir(u) PROVE TablesStep
<1>1. PICK d \in Streams :
        /\ verifyDirstream(u, d)
        /\ SetRam(Release(Ram, dirstreams[d].fd))
        /\ dirstreams' = [EntryGone(dirstreams[d].fd) EXCEPT ![d] = NoStream]
  BY DEF Closedir
<1>2. UNCHANGED <<mutex, creating, syncing, inode, size, durable, trans>>
  BY DEF Closedir, disk
<1>3. OtherTypes /\ TablesRight
  BY TypeParts, TablesAreRight DEF TablesInv
<1>4. PICK fd \in Fds : fd = dirstreams[d].fd /\ ~IS_OPEN_FILE_ENTRY_EMPTY(fd)
  <2>1. dirstreams[d].fd \in Fds /\ open_files[dirstreams[d].fd].uid \in Users
    BY <1>1, <1>3 DEF OtherTypes, Stream, verifyDirstream
  <2> QED  BY <2>1, EmptyEntry, OpenFilesAssumption
           DEF OpenFilesAssumption, NoEntry, NoUser
<1>5. TablesRight' /\ Emptied(fd) /\ \A x \in Fds \ {fd} : Kept(x)
  BY <1>1, <1>3, <1>4, EntryReleased DEF TablesInv
<1>6. /\ dirstreams'[d] = NoStream
      /\ \A s \in Streams \ {d} : dirstreams'[s] = EntryGone(fd)[s]
      /\ dirstreams' \in [Streams -> Stream]
  <2>1. EntryGone(fd) \in [Streams -> Stream] /\ NoStream \in Stream
    BY StreamsKeepEntry DEF NoStream, Stream
  <2> QED  BY <1>1, <1>4, <2>1
<1>7. "WRONLY" \notin open_files[fd].flags \/ LostStreamClosed(GET_FILE_ID_BY_FD(fd))
  <2>1. CASE dirstreams[d].opener # NoUser
    BY <1>4, <2>1 DEF TablesInv, StreamsFresh
  <2>2. CASE dirstreams[d].opener = NoUser
    BY <1>1, <1>4, <1>6, <2>2 DEF verifyDirstream, LostStreamClosed, NoStream
  <2> QED  BY <2>1, <2>2
<1>8. Shrinks
  BY <1>2 DEF Shrinks
<1>9. OpenFilesExist' /\ TransactionsStay
  BY <1>2, <1>5, <1>7, <1>8, FilesStillExist, WritersStay DEF TablesInv
<1>10. \A s \in Streams : dirstreams'[s].opener # NoUser => StreamKept(s)
  BY <1>5, <1>6, StreamsKeepEntry DEF StreamKept, NoStream
<1>11. StreamsFresh' /\ ReadOnlyEntries'
  <2>1. open_files'[fd].f_type # "dir"
    BY <1>5 DEF Emptied, NoEntry
  <2> QED  BY <1>5, <1>10, <2>1, StreamsStay DEF TablesInv
<1>12. OtherTypes'
  BY <1>2, <1>3, <1>6 DEF OtherTypes
<1> QED  BY <1>5, <1>9, <1>11, <1>12, NextParts

(* dup() and dup2(): the entry new, empty by now, becomes a second one of  *)
(* the file of old.                                                        *)
LEMMA EntryDuplicated ==
  ASSUME TypeOK, TablesRight, NEW u \in Users, NEW old \in Fds, NEW new \in Fds \ {old},
         ~IS_OPEN_FILE_ENTRY_EMPTY(old), open_files[old].uid = u,
         ~isFlagsConflict(u, open_files[old].vnode, open_files[old].flags),
         NEW ram \in Tables, Counted(ram), ram.files[new].vnode = VNODE_EMPTY,
         \A x \in Fds \ {new} :
           ram.files[x] = open_files[x] /\ InoOf(ram, x) = GET_FILE_ID_BY_FD(x),
         SetRam(setFentry(ram, new, open_files[old], GET_FILE_ID_BY_FD(old)))
  PROVE  /\ TablesRight'
         /\ open_files'[new] = open_files[old]
         /\ GET_FILE_ID_BY_FD(new)' = GET_FILE_ID_BY_FD(old)
         /\ \A x \in Fds \ {new} : Kept(x)
<1> DEFINE f == open_files[old]
           ino == GET_FILE_ID_BY_FD(old)
           after == setFentry(ram, new, f, ino)
<1>1. f \in Entry /\ f.vnode \in Vnodes /\ ino \in Inos /\ VnodeIsFor(ram, f.vnode, ino)
  <2>1. ram.files[old] = f /\ InoOf(ram, old) = ino /\ f.vnode # VNODE_EMPTY
    BY DEF IS_OPEN_FILE_ENTRY_EMPTY
  <2>2. f.vnode \in Vnodes /\ ino \in Inos
    BY <2>1, ReferredVnode
  <2>3. ram.vnodes[f.vnode].ino = ino
    BY <2>1 DEF InoOf
  <2> QED  BY <2>2, <2>3 DEF TablesRight, VnodeIsFor
<1> HIDE DEF f, ino
<1>2. /\ after \in Tables /\ Counted(after)
      /\ after.files = [ram.files EXCEPT ![new] = f]
      /\ InoOf(after, new) = ino
      /\ \A x \in Fds \ {new} : InoOf(after, x) = InoOf(ram, x)
  BY <1>1, SetEntry
<1>3. SetRam(after)
  BY DEF f, ino
<1> HIDE DEF after
<1>4. /\ open_files' \in [Fds -> Entry] /\ vnodes' \in [Vnodes -> Vnode]
      /\ VnodesCounted'
      /\ \A x : GET_FILE_ID_BY_FD(x)' = InoOf(after, x)
  BY <1>2, <1>3, NewTables
<1>5. open_files'[new] = f /\ \A x \in Fds \ {new} : open_files'[x] = open_files[x]
  BY <1>2, <1>3 DEF SetRam, Tables
<1>6. WritersExclusive'
  <2> SUFFICES ASSUME NEW x \in Fds, NEW y \in Fds \ {x},
                      ~IS_OPEN_FILE_ENTRY_EMPTY(x)',
                      open_files'[x].vnode = open_files'[y].vnode,
                      "WRONLY" \in open_files'[x].flags
               PROVE  /\ open_files'[y].uid = open_files'[x].uid
                      /\ "WRONLY" \notin open_files'[y].flags
    BY DEF WritersExclusive
  <2>1. "WRONLY" \notin f.flags
    BY DEF isFlagsConflict, f
  <2>2. x # new
    BY <1>5, <2>1
  <2>3. CASE y = new
    <3>1. open_files[x].vnode = f.vnode /\ "WRONLY" \in open_files[x].flags /\ x # old
      BY <1>5, <2>1, <2>2, <2>3 DEF f
    <3>2. f.uid = open_files[x].uid
      BY <3>1 DEF TablesRight, WritersExclusive, IS_OPEN_FILE_ENTRY_EMPTY, f
    <3> QED  BY <1>5, <2>1, <2>2, <2>3, <3>2
  <2>4. CASE y # new
    BY <1>5, <2>2, <2>4 DEF TablesRight, WritersExclusive, IS_OPEN_FILE_ENTRY_EMPTY
  <2> QED  BY <2>3, <2>4
<1>7. ASSUME NEW x \in Fds \ {new} PROVE Kept(x)
  BY <1>2, <1>4, <1>5 DEF Kept, SameEntry
<1>8. TablesRight'
  BY <1>4, <1>6 DEF TablesRight
<1>9. open_files'[new] = open_files[old]
  BY <1>5 DEF f
<1>10. GET_FILE_ID_BY_FD(new)' = GET_FILE_ID_BY_FD(old)
  BY <1>2, <1>4 DEF ino
<1> QED  BY <1>7, <1>8, <1>9, <1>10

LEMMA DupStep ==
  ASSUME TablesInv, NEW u \in Users, Dup(u) PROVE TablesStep
<1>1. PICK old \in Fds, new \in Fds, ok \in BOOLEAN :
        /\ old # new /\ verifyFd(u, old)
        /\ ~isFlagsConflict(u, open_files[old].vnode, open_files[old].flags)
        /\ \/ /\ IS_OPEN_FILE_ENTRY_EMPTY(new) /\ ok
              /\ SetRam(setFentry(Ram, new, open_files[old], GET_FILE_ID_BY_FD(old)))
              /\ UNCHANGED <<dirstreams, size, durable, trans>>
           \/ /\ verifyFd(u, new) /\ CommitIfWriter(new, ok)
              /\ IF ok THEN /\ SetRam(setFentry(Release(Ram, new), new, open_files[old],
                                                GET_FILE_ID_BY_FD(old)))
                            /\ dirstreams' = EntryGone(new)
                 ELSE UNCHANGED <<open_files, vnodes, dirstreams>>
  BY DEF Dup, tables
<1>2. UNCHANGED <<mutex, creating, syncing, inode>>
  BY DEF Dup
<1>3. OtherTypes /\ TablesRight /\ TypeOK
  BY TypeParts, TablesAreRight DEF TablesInv
<1>4. Ram \in Tables /\ Counted(Ram)
  BY <1>3, RamTables DEF TablesRight
<1>5. /\ size' \in [Inos -> 0 .. MaxSize] /\ durable' \in [Inos -> 0 .. MaxSize]
      /\ trans' \in [Tids -> Inos \cup {INO_NUM_EMPTY}]
      /\ Shrinks
      /\ \/ "WRONLY" \notin open_files[new].flags
         \/ \A t \in Tids : trans'[t] # GET_FILE_ID_BY_FD(new)
  <2>1. CASE IS_OPEN_FILE_ENTRY_EMPTY(new)
    <3>1. "WRONLY" \notin open_files[new].flags
      BY <2>1, EmptyEntry DEF NoEntry
    <3> QED  BY <1>1, <1>3, <2>1, <3>1 DEF OtherTypes, Shrinks, verifyFd
  <2>2. CASE ~IS_OPEN_FILE_ENTRY_EMPTY(new)
    BY <1>1, <2>2, WriterCommitted
  <2> QED  BY <2>1, <2>2
<1>6. OtherTypes' /\ (dirstreams' = dirstreams \/ dirstreams' = EntryGone(new))
  <2>1. dirstreams' = dirstreams \/ dirstreams' = EntryGone(new)
    BY <1>1
  <2>2. dirstreams' \in [Streams -> Stream]
    BY <1>3, <2>1, StreamsKeepEntry DEF OtherTypes
  <2> QED  BY <1>2, <1>3, <1>5, <2>1, <2>2 DEF OtherTypes
<1>7. ASSUME NEW ram \in Tables, Counted(ram), ram.files[new].vnode = VNODE_EMPTY,
             \A x \in Fds \ {new} :
               ram.files[x] = open_files[x] /\ InoOf(ram, x) = GET_FILE_ID_BY_FD(x),
             SetRam(setFentry(ram, new, open_files[old], GET_FILE_ID_BY_FD(old))),
             IS_OPEN_FILE_ENTRY_EMPTY(new) \/ dirstreams' = EntryGone(new)
      PROVE  TablesStep
  <2>1. /\ TablesRight'
        /\ open_files'[new] = open_files[old]
        /\ GET_FILE_ID_BY_FD(new)' = GET_FILE_ID_BY_FD(old)
        /\ \A x \in Fds \ {new} : Kept(x)
    BY <1>1, <1>3, <1>7, EntryDuplicated DEF verifyFd
  <2>2. GET_FILE_ID_BY_FD(old) \in Inos /\ GET_FILE_ID_BY_FD(old) \in OpenInos
    BY <1>1, OpenEntryFile, Sizes DEF verifyFd, OpenInos, INO_NUM_EMPTY
  <2>3. NamesOpened(new)
    BY <1>2, <2>1, <2>2, Sizes
       DEF NamesOpened, TablesInv, OpenFilesExist, INO_NUM_EMPTY
  <2>4. OpenFilesExist' /\ TransactionsStay
    BY <1>2, <1>5, <2>1, <2>3, FilesStillExist, WritersStay DEF TablesInv
  <2>5. StreamsFresh' /\ ReadOnlyEntries'
    <3>1. open_files'[new].f_type = "dir" => "WRONLY" \notin open_files'[new].flags
      BY <2>1 DEF TablesInv, ReadOnlyEntries
    <3>2. \A s \in Streams : dirstreams'[s].opener # NoUser =>
            dirstreams'[s] = dirstreams[s] /\ dirstreams[s].fd \in Fds \ {new}
      BY <1>6, <1>7, StreamEntryOpen, StreamsKeepEntry
    <3>3. \A s \in Streams : dirstreams'[s].opener # NoUser => StreamKept(s)
      BY <2>1, <3>2 DEF StreamKept
    <3> QED  BY <2>1, <3>1, <3>3, StreamsStay DEF TablesInv
  <2> QED  BY <1>6, <2>1, <2>4, <2>5, NextParts
<1>8. CASE IS_OPEN_FILE_ENTRY_EMPTY(new)
  <2>1. SetRam(setFentry(Ram, new, open_files[old], GET_FILE_ID_BY_FD(old)))
    BY <1>1, <1>8 DEF verifyFd
  <2>2. /\ Ram.files[new].vnode = VNODE_EMPTY
        /\ \A x \in Fds \ {new} :
             Ram.files[x] = open_files[x] /\ InoOf(Ram, x) = GET_FILE_ID_BY_FD(x)
    BY <1>3, <1>8, RamTables DEF IS_OPEN_FILE_ENTRY_EMPTY
  <2> QED  BY <1>4, <1>7, <1>8, <2>1, <2>2
<1>9. CASE ~IS_OPEN_FILE_ENTRY_EMPTY(new) /\ ok
  <2> DEFINE ram == Release(Ram, new)
  <2>1. /\ ram \in Tables /\ Counted(ram)
        /\ ram.files = [open_files EXCEPT ![new] = NoEntry]
        /\ \A x \in Fds \ {new} : InoOf(ram, x) = InoOf(Ram, x)
    BY <1>3, <1>4, <1>9, RamTables, ReleaseEntry DEF IS_OPEN_FILE_ENTRY_EMPTY
  <2>2. /\ SetRam(setFentry(ram, new, open_files[old], GET_FILE_ID_BY_FD(old)))
        /\ dirstreams' = EntryGone(new)
    BY <1>1, <1>9
  <2> HIDE DEF ram
  <2>3. /\ ram.files[new].vnode = VNODE_EMPTY
        /\ \A x \in Fds \ {new} :
             ram.files[x] = open_files[x] /\ InoOf(ram, x) = GET_FILE_ID_BY_FD(x)
    BY <1>3, <2>1, RamTables DEF TablesRight, NoEntry
  <2> QED  BY <1>7, <2>1, <2>2, <2>3
<1>10. CASE ~IS_OPEN_FILE_ENTRY_EMPTY(new) /\ ~ok
  <2>1. open_files' \in [Fds -> Entry] /\ \A x \in Fds : SameEntry(x)
    BY <1>1, <1>3, <1>10 DEF TablesRight, SameEntry
  <2> QED  BY <1>1, <1>2, <1>5, <1>6, <1>10, <2>1, DiskStep, NextParts
<1> QED  BY <1>8, <1>9, <1>10

-----------------------------------------------------------------------------
(* Empty tables are right: at the start, and when the file system is       *)
(* mounted again.                                                          *)
LEMMA EmptyTables ==
  ASSUME open_files' = [fd \in Fds |-> NoEntry], vnodes' = [v \in Vnodes |-> NoVnode],
         dirstreams' = [s \in Streams |-> NoStream],
         trans' = [t \in Tids |-> INO_NUM_EMPTY], OtherTypes'
  PROVE  TablesStep
<1>1. NoEntry \in Entry /\ NoVnode \in Vnode /\ NoEntry.vnode = VNODE_EMPTY
  BY Sizes DEF NoEntry, Entry, NoVnode, Vnode
<1>2. \A v \in Vnodes : {fd \in Fds : open_files'[fd].vnode = v} = {}
  BY <1>1, Sizes DEF Vnodes, VNODE_EMPTY
<1>3. VnodesCounted'
  BY <1>2, FS_EmptySet DEF VnodesCounted, NoVnode
<1>4. WritersExclusive' /\ OpenFilesExist'
  BY <1>1 DEF WritersExclusive, OpenFilesExist, IS_OPEN_FILE_ENTRY_EMPTY, GET_FILE_ID_BY_FD
<1>5. TablesRight'
  BY <1>1, <1>3, <1>4 DEF TablesRight
<1>6. TransactionsStay
  <2>1. \A t \in Tids : trans'[t] \notin Inos
    BY Sizes DEF INO_NUM_EMPTY
  <2> QED  BY <2>1 DEF TransactionsStay, OneTransaction, WritersStep, Busy
<1>7. StreamsFresh' /\ ReadOnlyEntries'
  BY DEF StreamsFresh, ReadOnlyEntries, NoStream, NoEntry
<1> QED  BY <1>4, <1>5, <1>6, <1>7, NextParts

LEMMA RemountStep ==
  ASSUME TablesInv, Remount PROVE TablesStep
<1>1. OtherTypes'
  BY Sizes DEF Remount, TablesInv, TypeOK, OtherTypes, NoStream, Stream
<1> QED  BY <1>1, EmptyTables DEF Remount

LEMMA InitTables == Init => TablesInv
<1> SUFFICES ASSUME Init PROVE TablesInv
  OBVIOUS
<1>1. NoEntry \in Entry /\ NoVnode \in Vnode /\ NoEntry.vnode = VNODE_EMPTY
  BY Sizes DEF NoEntry, Entry, NoVnode, Vnode
<1>2. \A v \in Vnodes : {fd \in Fds : open_files[fd].vnode = v} = {}
  BY <1>1, Sizes DEF Init, Vnodes, VNODE_EMPTY
<1>3. VnodesCounted
  BY <1>2, FS_EmptySet DEF Init, VnodesCounted, NoVnode
<1>4. WritersExclusive /\ OpenFilesExist
  BY <1>1 DEF Init, WritersExclusive, OpenFilesExist, IS_OPEN_FILE_ENTRY_EMPTY,
              GET_FILE_ID_BY_FD
<1>5. OtherTypes
  <2>1. 0 \in 0 .. MaxSize /\ 0 \in Fds
    BY Sizes
  <2>2. NoSync \in [user : Users \cup {NoUser}, fd : Fds]
    BY <2>1 DEF NoSync
  <2>3. NoStream \in Stream
    BY DEF NoStream, Stream
  <2>4. size \in [Inos -> 0 .. MaxSize] /\ durable \in [Inos -> 0 .. MaxSize]
    BY <2>1 DEF Init
  <2> QED  BY <2>2, <2>3, <2>4 DEF Init, OtherTypes
<1>6. TypeOK
  BY <1>1, <1>3, <1>4, <1>5, TypeParts DEF Init, TablesRight
<1>7. OneTransaction /\ StreamsFresh /\ ReadOnlyEntries
  BY DEF Init, OneTransaction, Busy, StreamsFresh, ReadOnlyEntries, NoStream, NoEntry
<1> QED  BY <1>3, <1>4, <1>6, <1>7 DEF TablesInv

(* Every step keeps the invariant, and the writers of what is uncommitted. *)
LEMMA NextTables == TablesInv /\ [Next]_vars => TablesStep
<1> SUFFICES ASSUME TablesInv, [Next]_vars PROVE TablesStep
  OBVIOUS
<1>1. ASSUME NEW u \in Users, Open(u) PROVE TablesStep
  BY <1>1, OpenStep
<1>2. ASSUME NEW u \in Users, Creat(u) PROVE TablesStep
  BY <1>2, CreatStep
<1>3. ASSUME NEW u \in Users, Remove(u) PROVE TablesStep
  BY <1>3, RemoveStep
<1>4. ASSUME NEW u \in Users, Write(u) PROVE TablesStep
  BY <1>4, WriteStep
<1>5. ASSUME NEW u \in Users, Read(u) \/ Lseek(u) PROVE TablesStep
  BY <1>5, ReadStep
<1>6. ASSUME NEW u \in Users, Close(u) PROVE TablesStep
  BY <1>6, CloseStep
<1>7. ASSUME NEW u \in Users, Fsync(u) PROVE TablesStep
  BY <1>7, FsyncStep
<1>8. ASSUME NEW u \in Users, Dup(u) PROVE TablesStep
  BY <1>8, DupStep
<1>9. CASE (\E u \in Users : SyncStart(u)) \/ SyncGoesOn
  BY <1>9, SyncStep
<1>10. ASSUME NEW u \in Users, Opendir(u) PROVE TablesStep
  BY <1>10, OpendirStep
<1>11. ASSUME NEW u \in Users, Closedir(u) PROVE TablesStep
  BY <1>11, ClosedirStep
<1>12. CASE Remount
  BY <1>12, RemountStep
<1>13. CASE UNCHANGED vars
  <2>1. UNCHANGED <<tables, mutex, creating, syncing, disk>>
    BY <1>13 DEF vars
  <2> QED  BY <2>1, QuietStep DEF TablesInv, TypeOK
<1> QED  BY <1>1, <1>2, <1>3, <1>4, <1>5, <1>6, <1>7, <1>8, <1>9, <1>10, <1>11,
            <1>12, <1>13 DEF Next

(* The tables refer to each other as they should after every call and      *)
(* every step of creat(), write() and sync(): what the rest follows from.  *)
THEOREM TablesInvariant == Spec => []TablesInv
<1>1. TablesInv /\ [Next]_vars => TablesInv'
  BY NextTables DEF TablesStep
<1> QED  BY <1>1, InitTables, PTL DEF Spec

(***************************************************************************)
(* The tables have their types: no reference count passes the number of    *)
(* entries, no offset or size the bound, sync() stays within the entries.  *)
(***************************************************************************)
THEOREM TablesTyped == Spec => []TypeOK
<1>1. TablesInv => TypeOK
  BY DEF TablesInv
<1> QED  BY <1>1, TablesInvariant, PTL

(***************************************************************************)
(* close(), dup(), dup2(), opendir() and closedir() keep nReferences equal *)
(* to the number of entries of the vnode, and no file has two vnodes.      *)
(***************************************************************************)
THEOREM ReferencesCounted == Spec => []VnodesCounted
<1>1. TablesInv => VnodesCounted
  BY DEF TablesInv
<1> QED  BY <1>1, TablesInvariant, PTL

(* unlink() never removes, and creat() never reuses, an open file.         *)
THEOREM OpenFilesKept == Spec => []OpenFilesExist
<1>1. TablesInv => OpenFilesExist
  BY DEF TablesInv
<1> QED  BY <1>1, TablesInvariant, PTL

(* The conflict checks of open(), creat() and dup() keep a writer alone.   *)
THEOREM OneWriter == Spec => []WritersExclusive
<1>1. TablesInv => WritersExclusive
  BY DEF TablesInv
<1> QED  BY <1>1, TablesInvariant, PTL

(***************************************************************************)
(* close(), dup2(), failing calls and other users leave an open            *)
(* transaction a descriptor to commit it through, and write() begins none  *)
(* without: only closedir() of a stream whose own entry was closed before  *)
(* it gives the writer up.                                                 *)
(***************************************************************************)
THEOREM TransactionsOwned == Spec => UncommittedKeepsWriter
<1>1. TablesInv /\ [Next]_vars => WritersStep
  BY NextTables DEF TablesStep
<1>2. WritersStep => [\A t \in Tids, ino \in Inos :
                        trans'[t] = ino /\ ~HasWriter(ino)' =>
                          trans[t] = ino /\ (HasWriter(ino) => LostStreamClosed(ino))]_vars
  BY DEF WritersStep
<1> QED  BY <1>1, <1>2, TablesInvariant, PTL DEF Spec, UncommittedKeepsWriter

(***************************************************************************)
(* Until close(), dup2() or closedir() of another stream gives up the      *)
(* entry that opendir() made, the stream's descriptor is on its directory, *)
(* read only and of the opener, and the inode address it reads through is  *)
(* that of the directory.  Nothing is claimed of a stream that lost its    *)
(* entry: the code lets the caller close the descriptor of dirfd().        *)
(***************************************************************************)
THEOREM HeldStreamsFresh == Spec => []StreamsFresh
<1>1. TablesInv => StreamsFresh
  BY DEF TablesInv
<1> QED  BY <1>1, TablesInvariant, PTL

=============================================================================

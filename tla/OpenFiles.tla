----------------------------- MODULE OpenFiles -----------------------------
(***************************************************************************)
(* The calls of the file system on its tables in RAM: open file entries,   *)
(* vnodes, directory streams, the mutex, and what they share with the      *)
(* files and transactions below.                                           *)
(*                                                                         *)
(* Every call takes the mutex, so a call is one step.  Two are not: open() *)
(* releases the mutex before it calls creat(), and sync() is modelled      *)
(* entry by entry.  When the mutex is held a call returns -1 and changes   *)
(* nothing.  A write or a commit may fail in the layers below; when pages  *)
(* are scarce it first aborts other transactions, the lowest one first.    *)
(*                                                                         *)
(* All names are in the root directory.  Sizes and offsets count blocks;   *)
(* the position in a directory is left out.                                *)
(***************************************************************************)
EXTENDS Integers, FiniteSets

CONSTANTS
  Users,            (* user ids, one process each                          *)
  Files, Dirs,      (* names of regular files and of directories           *)
  OpenFlags,        (* the flags open() is called with                     *)
  NFds,             (* FS_MAX_OPEN_FILES                                   *)
  NVnodes,          (* FS_MAX_VNODES                                       *)
  NStreams,         (* FS_MAX_OPEN_DIRESTREAMS                             *)
  NTids,            (* FS_MAX_N_TRANSACTIONS                               *)
  MaxSize           (* bound: blocks of a file                             *)

ASSUME OpenFilesAssumption ==
  /\ {NFds, NVnodes, NTids, MaxSize} \subseteq Nat \ {0} /\ NStreams \in Nat
  /\ IsFiniteSet(Files) /\ IsFiniteSet(Dirs) /\ Files \cap Dirs = {}
  /\ "none" \notin Users       (* no user id is UID_EMPTY                  *)
  /\ OpenFlags \subseteq SUBSET {"RDONLY", "WRONLY", "APPEND", "CREAT", "EXCL"}

VARIABLES
  open_files,       (* fd -> open file entry                               *)
  vnodes,           (* index -> inode number and references                *)
  dirstreams,       (* index -> fd, the directory's inode address, history *)
  mutex,            (* whether it is held                                  *)
  creating,         (* user -> the name open() is about to creat()         *)
  syncing,          (* the user in sync() and the entry it has come to     *)
  inode,            (* name -> inode number, INO_NUM_EMPTY if none         *)
  size, durable,    (* inode number -> size now, and as committed          *)
  trans             (* tid -> inode number of the file it writes           *)

tables == <<open_files, vnodes, dirstreams>>
disk   == <<inode, size, durable, trans>>
vars   == <<tables, mutex, creating, syncing, disk>>

-----------------------------------------------------------------------------
INO_NUM_EMPTY == 0
ROOT          == 1
VNODE_EMPTY   == -1
FD_EMPTY      == -1
NoUser        == "none"
NoName        == "none"

Names   == Files \cup Dirs
Fds     == 0 .. NFds - 1
Vnodes  == 0 .. NVnodes - 1
Streams == 0 .. NStreams - 1
Tids    == 0 .. NTids - 1
Inos    == 1 .. 1 + Cardinality(Names)

First(S) == CHOOSE x \in S : \A y \in S : x <= y

(* init_file_entry(), init_vnode(), init_dirstream()                       *)
NoEntry  == [flags |-> {}, uid |-> NoUser, offset |-> 0,
             vnode |-> VNODE_EMPTY, f_type |-> "none"]
NoVnode  == [ino |-> INO_NUM_EMPTY, nrefs |-> 0]
NoStream == [fd |-> FD_EMPTY, ino |-> INO_NUM_EMPTY, fresh |-> FALSE,
             opener |-> NoUser]
NoSync   == [user |-> NoUser, fd |-> 0]

IS_OPEN_FILE_ENTRY_EMPTY(fd) == open_files[fd].vnode = VNODE_EMPTY

GET_FILE_ID_BY_FD(fd) ==
  IF IS_OPEN_FILE_ENTRY_EMPTY(fd) THEN INO_NUM_EMPTY
  ELSE vnodes[open_files[fd].vnode].ino

OpenInos == {GET_FILE_ID_BY_FD(fd) : fd \in Fds} \ {INO_NUM_EMPTY}

verifyFd(u, fd) == ~IS_OPEN_FILE_ENTRY_EMPTY(fd) /\ open_files[fd].uid = u

verifyFileNotOpen(ino) == ino \notin OpenInos

(* The user of the entry that the stream's descriptor names by now.        *)
verifyDirstream(u, s) ==
  dirstreams[s].fd # FD_EMPTY /\ open_files[dirstreams[s].fd].uid = u

(* The vnode of a file, else a free one, else VNODE_EMPTY.                 *)
getVnodeByInodeNum(ino) ==
  LET V == {v \in Vnodes : vnodes[v].ino = ino}
  IN  IF V = {} THEN VNODE_EMPTY ELSE First(V)

VnodeFor(ino) ==
  IF getVnodeByInodeNum(ino) # VNODE_EMPTY THEN getVnodeByInodeNum(ino)
  ELSE getVnodeByInodeNum(INO_NUM_EMPTY)

getFreeOpenFileEntry ==
  LET F == {fd \in Fds : IS_OPEN_FILE_ENTRY_EMPTY(fd)}
  IN  IF F = {} THEN FD_EMPTY ELSE First(F)

(* A reader conflicts with another user's writer, a writer with any other  *)
(* writer and with another user's reader.                                  *)
WritersOnlyConflict(u, v, flags) ==
  \E fd \in Fds :
    /\ open_files[fd].vnode = v
    /\ "WRONLY" \in flags /\ "WRONLY" \in open_files[fd].flags
isFlagsConflict(u, v, flags) ==
  \E fd \in Fds :
    /\ open_files[fd].vnode = v
    /\ \/ /\ "RDONLY" \in flags
          /\ "WRONLY" \in open_files[fd].flags /\ open_files[fd].uid # u
       \/ /\ "WRONLY" \in flags
          /\ open_files[fd].uid # u \/ "WRONLY" \in open_files[fd].flags

-----------------------------------------------------------------------------
(* Entries and vnodes change together.                                     *)

Ram == [files |-> open_files, vnodes |-> vnodes]

setFentry(ram, fd, entry, ino) ==
  [files  |-> [ram.files EXCEPT ![fd] = entry],
   vnodes |-> IF entry.vnode = VNODE_EMPTY THEN ram.vnodes
              ELSE [ram.vnodes EXCEPT ![entry.vnode] =
                      [ino |-> ino, nrefs |-> @.nrefs + 1]]]

(* The end of closeUtil(), and init_dirstream(): the entry is emptied, and *)
(* its vnode when no other entry refers to it.                             *)
ReleaseKeepsVnode(ram, fd) ==
  [files  |-> [ram.files EXCEPT ![fd] = NoEntry],
   vnodes |-> [ram.vnodes EXCEPT ![ram.files[fd].vnode].nrefs = @ - 1]]
Release(ram, fd) ==
  LET v == ram.files[fd].vnode
      left == ram.vnodes[v].nrefs - 1
  IN  [files  |-> [ram.files EXCEPT ![fd] = NoEntry],
       vnodes |-> [ram.vnodes EXCEPT ![v] =
                     IF left = 0 THEN NoVnode ELSE [ino |-> @.ino, nrefs |-> left]]]

SetRam(ram) == open_files' = ram.files /\ vnodes' = ram.vnodes

(* No code tells a stream that its entry is gone; its descriptor stays.    *)
(* The fields fresh and opener are history, of a stream whose entry is     *)
(* still the one of opendir(): whether its inode address is current, and   *)
(* who called opendir().                                                   *)
EntryGone(fd) ==
  [s \in Streams |->
     IF dirstreams[s].fd # fd THEN dirstreams[s]
     ELSE [dirstreams[s] EXCEPT !.fresh = FALSE, !.opener = NoUser]]

(* setOpenFentry() fails on the flags, on a conflict, or when a table is   *)
(* full.                                                                   *)
OpenRefused(u, ino, flags, f_type) ==
  \/ {"CREAT", "EXCL"} \subseteq flags
  \/ f_type = "dir" /\ "WRONLY" \in flags
  \/ "APPEND" \in flags /\ "WRONLY" \notin flags
  \/ /\ getVnodeByInodeNum(ino) # VNODE_EMPTY
     /\ isFlagsConflict(u, VnodeFor(ino), flags)
  \/ VnodeFor(ino) = VNODE_EMPTY
  \/ getFreeOpenFileEntry = FD_EMPTY

(* Of the flags, read(), write() and the conflicts look at the access only.*)
NewEntry(u, ino, flags, f_type, sz) ==
  [flags |-> flags \cap {"RDONLY", "WRONLY"}, uid |-> u,
   offset |-> IF "APPEND" \in flags THEN sz ELSE 0,
   vnode |-> VnodeFor(ino), f_type |-> f_type]

setOpenFentry(u, ino, flags, f_type, sz) ==
  IF OpenRefused(u, ino, flags, f_type) THEN UNCHANGED <<open_files, vnodes>>
  ELSE SetRam(setFentry(Ram, getFreeOpenFileEntry,
                        NewEntry(u, ino, flags, f_type, sz), ino))

-----------------------------------------------------------------------------
(* Transactions, as the layer below treats them.                           *)

Busy == {t \in Tids : trans[t] # INO_NUM_EMPTY}
TidsOf(ino) == {t \in Tids : trans[t] = ino}

(* handleMinPages() of a call with transactions own: the others it aborts. *)
Abortable(own) ==
  {S \in SUBSET (Busy \ own) : \A t \in S, x \in Busy \ own : x < t => x \in S}

(* The aborted files shrink to what is committed; done is the file that    *)
(* the call commits, lost the one whose transaction it aborts itself.      *)
Settle(aborted, done, lost) ==
  LET gone == {trans[t] : t \in aborted} \cup lost
      kept == [i \in Inos |-> IF i \in gone THEN durable[i] ELSE size[i]]
  IN  /\ trans' = [t \in Tids |-> IF t \in aborted \/ trans[t] \in done \cup lost
                                  THEN INO_NUM_EMPTY ELSE trans[t]]
      /\ size' = kept
      /\ durable' = [i \in Inos |-> IF i \in done THEN kept[i] ELSE durable[i]]

(* commitTransaction() of a file, if it has a transaction.                 *)
Commit(ino, ok) ==
  IF TidsOf(ino) = {} THEN ok /\ UNCHANGED <<size, durable, trans>>
  ELSE \E S \in Abortable(TidsOf(ino)) :
         Settle(S, IF ok THEN {ino} ELSE {}, IF ok THEN {} ELSE {ino})

-----------------------------------------------------------------------------
Init ==
  /\ open_files = [fd \in Fds |-> NoEntry]
  /\ vnodes = [v \in Vnodes |-> NoVnode]
  /\ dirstreams = [s \in Streams |-> NoStream]
  /\ mutex = FALSE
  /\ creating = [u \in Users |-> NoName]
  /\ syncing = NoSync
  /\ inode = [n \in Names |-> INO_NUM_EMPTY]
  /\ size = [i \in Inos |-> 0] /\ durable = size
  /\ trans = [t \in Tids |-> INO_NUM_EMPTY]

(* FS_MUTEX_LOCK() by a process that is in no other call.                  *)
Calls(u) == ~mutex /\ creating[u] = NoName

TypeOf(n) == IF n \in Dirs THEN "dir" ELSE "file"

(* createNewFile() up to its commit, and the file it makes.                *)
CreateInOpenDirectory(n) == Busy = Tids \/ inode[n] # INO_NUM_EMPTY
CreateRefused(n) ==
  \/ Busy = Tids
  \/ inode[n] # INO_NUM_EMPTY
  \/ ~verifyFileNotOpen(ROOT)

FreeIno == First(Inos \ ({ROOT} \cup {inode[n] : n \in Names}))

(* The directory gets a new inode page: an address kept in a stream is old.*)
DirectoryRewritten ==
  dirstreams' = [s \in Streams |->
                   [dirstreams[s] EXCEPT !.fresh = @ /\ dirstreams[s].ino # ROOT]]

Created(n, ino, S) ==
  LET gone == {trans[t] : t \in S}
  IN  /\ inode' = [inode EXCEPT ![n] = ino]
      /\ size' = [i \in Inos |-> IF i \in gone THEN durable[i] ELSE size[i]]
      /\ durable' = [durable EXCEPT ![ino] = 0]
      /\ trans' = [t \in Tids |-> IF t \in S THEN INO_NUM_EMPTY ELSE trans[t]]
      /\ DirectoryRewritten

createNewFile(u, n) ==
  \/ /\ CreateRefused(n)
     /\ UNCHANGED <<tables, disk>>
  \/ /\ ~CreateRefused(n)
     /\ \E S \in Abortable({}) : Settle(S, {}, {})
     /\ UNCHANGED <<tables, inode>>
  \/ /\ ~CreateRefused(n)
     /\ \E S \in Abortable({}) : Created(n, FreeIno, S)
     /\ IF n \in Dirs THEN UNCHANGED <<open_files, vnodes>>
        ELSE setOpenFentry(u, FreeIno, {"CREAT", "WRONLY"}, "file", 0)

(***************************************************************************)
(* nandfs_open().  Without RDONLY or WRONLY it returns with the mutex held.*)
(***************************************************************************)
Open(u) ==
  /\ Calls(u)
  /\ \E n \in Names, flags \in OpenFlags :
       \/ /\ flags \cap {"RDONLY", "WRONLY"} = {}
          /\ mutex' = TRUE
          /\ UNCHANGED <<tables, creating, disk>>
       \/ /\ flags \cap {"RDONLY", "WRONLY"} # {}
          /\ n \in Files /\ inode[n] = INO_NUM_EMPTY /\ "CREAT" \in flags
          /\ creating' = [creating EXCEPT ![u] = n]
          /\ UNCHANGED <<tables, mutex, disk>>
       \/ /\ flags \cap {"RDONLY", "WRONLY"} # {}
          /\ inode[n] # INO_NUM_EMPTY
          /\ setOpenFentry(u, inode[n], flags, TypeOf(n), size[inode[n]])
          /\ UNCHANGED <<dirstreams, mutex, creating, disk>>
  /\ UNCHANGED syncing

(* creat(), called by the user or by open(), and mkdir().                  *)
Creat(u) ==
  /\ ~mutex
  /\ \/ /\ creating[u] # NoName /\ createNewFile(u, creating[u])
        /\ creating' = [creating EXCEPT ![u] = NoName]
     \/ /\ Calls(u) /\ \E n \in Names : createNewFile(u, n)
        /\ UNCHANGED creating
  /\ UNCHANGED <<mutex, syncing>>

(* removeFile() for unlink() and rmdir(); the transaction is T_TYPE_UNLINK *)
(* and may write without aborting others.  A transaction that closedir()   *)
(* left behind stays with the inode number, and has a size of its own.     *)
RemoveOpenFile(n) == inode[n] # INO_NUM_EMPTY /\ Busy # Tids /\ verifyFileNotOpen(ROOT)
RemoveAllowed(n) ==
  /\ inode[n] # INO_NUM_EMPTY
  /\ Busy # Tids
  /\ verifyFileNotOpen(ROOT)
  /\ verifyFileNotOpen(inode[n])

Remove(u) ==
  /\ Calls(u)
  /\ \E n \in Names : /\ RemoveAllowed(n)
                      /\ inode' = [inode EXCEPT ![n] = INO_NUM_EMPTY]
                      /\ size' = [size EXCEPT ![inode[n]] =
                                    IF TidsOf(inode[n]) = {} THEN 0 ELSE @]
                      /\ durable' = [durable EXCEPT ![inode[n]] = 0]
  /\ DirectoryRewritten
  /\ UNCHANGED <<open_files, vnodes, mutex, creating, syncing, trans>>

(***************************************************************************)
(* write(): a transaction is found or begun for the file.  An error at the *)
(* first block aborts it and releases the mutex; WRITE_VERIFY at a later   *)
(* block aborts it too, with the offset moved and the mutex still held; n  *)
(* is how far the offset moves.                                            *)
(***************************************************************************)
WriteAllowed(u, fd) ==
  /\ verifyFd(u, fd)
  /\ "WRONLY" \in open_files[fd].flags
  /\ open_files[fd].offset <= size[GET_FILE_ID_BY_FD(fd)]
  /\ TidsOf(GET_FILE_ID_BY_FD(fd)) # {} \/ Busy # Tids

(* getTidByFileId()                                                        *)
TidFor(ino) == First(IF TidsOf(ino) # {} THEN TidsOf(ino) ELSE Tids \ Busy)

Written(fd, n, S) ==
  LET ino == GET_FILE_ID_BY_FD(fd)
      end == open_files[fd].offset + n
      gone == {trans[t] : t \in S}
  IN  /\ open_files' = [open_files EXCEPT ![fd].offset = end]
      /\ trans' = [t \in Tids |-> IF t \in S THEN INO_NUM_EMPTY
                                  ELSE IF t = TidFor(ino) THEN ino ELSE trans[t]]
      /\ size' = [i \in Inos |-> IF i \in gone THEN durable[i]
                                 ELSE IF i = ino /\ end > size[i] THEN end ELSE size[i]]
      /\ UNCHANGED <<durable, mutex>>

WriteFailed(fd, n, S) ==
  /\ Settle(S, {}, {GET_FILE_ID_BY_FD(fd)})
  /\ open_files' = [open_files EXCEPT ![fd].offset = @ + n]
  /\ mutex' = (n > 0)

Write(u) ==
  /\ Calls(u)
  /\ \E fd \in Fds, n \in 0 .. MaxSize :
       /\ WriteAllowed(u, fd)
       /\ open_files[fd].offset + n <= MaxSize
       /\ \E S \in Abortable({TidFor(GET_FILE_ID_BY_FD(fd))}) :
            (n > 0 /\ Written(fd, n, S)) \/ WriteFailed(fd, n, S)
  /\ UNCHANGED <<vnodes, dirstreams, creating, syncing, inode>>

(* read() stops at the end of the file; lseek() stays within it.           *)
ReadPastEnd(fd, n) == open_files[fd].offset + n
ReadEnd(fd, n) ==
  LET sz == size[GET_FILE_ID_BY_FD(fd)]
  IN  IF open_files[fd].offset + n > sz THEN sz ELSE open_files[fd].offset + n

Read(u) ==
  /\ Calls(u)
  /\ \E fd \in Fds, n \in 1 .. MaxSize :
       /\ verifyFd(u, fd) /\ "RDONLY" \in open_files[fd].flags
       /\ open_files[fd].f_type # "dir"
       /\ open_files[fd].offset <= size[GET_FILE_ID_BY_FD(fd)]
       /\ open_files' = [open_files EXCEPT ![fd].offset = ReadEnd(fd, n)]
  /\ UNCHANGED <<vnodes, dirstreams, mutex, creating, syncing, disk>>

Lseek(u) ==
  /\ Calls(u)
  /\ \E fd \in Fds :
       /\ verifyFd(u, fd) /\ open_files[fd].f_type # "dir"
       /\ \E o \in 0 .. size[GET_FILE_ID_BY_FD(fd)] :
            open_files' = [open_files EXCEPT ![fd].offset = o]
  /\ UNCHANGED <<vnodes, dirstreams, mutex, creating, syncing, disk>>

(***************************************************************************)
(* close(): a writer's transaction is committed first; when that fails the *)
(* entry stays open.  Any descriptor of the user is closed, also one that  *)
(* dirfd() returned.                                                       *)
(***************************************************************************)
CloseWithoutCommit(fd, ok) == ok /\ UNCHANGED <<size, durable, trans>>
CommitIfWriter(fd, ok) ==
  IF "WRONLY" \in open_files[fd].flags THEN Commit(GET_FILE_ID_BY_FD(fd), ok)
  ELSE ok /\ UNCHANGED <<size, durable, trans>>

Close(u) ==
  /\ Calls(u)
  /\ \E fd \in Fds, ok \in BOOLEAN :
       /\ verifyFd(u, fd)
       /\ CommitIfWriter(fd, ok)
       /\ IF ok THEN SetRam(Release(Ram, fd)) /\ dirstreams' = EntryGone(fd)
          ELSE UNCHANGED tables
  /\ UNCHANGED <<mutex, creating, syncing, inode>>

Fsync(u) ==
  /\ Calls(u)
  /\ \E fd \in Fds, ok \in BOOLEAN :
       verifyFd(u, fd) /\ Commit(GET_FILE_ID_BY_FD(fd), ok)
  /\ UNCHANGED <<tables, mutex, creating, syncing, inode>>

(***************************************************************************)
(* dup() and dup2() with different descriptors; new is closed first.  A    *)
(* writer's entry is in conflict with itself.                              *)
(***************************************************************************)
Dup(u) ==
  /\ Calls(u)
  /\ \E old \in Fds, new \in Fds, ok \in BOOLEAN :
       LET f == open_files[old]
           Duplicate(ram) == SetRam(setFentry(ram, new, f, GET_FILE_ID_BY_FD(old)))
       IN  /\ old # new /\ verifyFd(u, old)
           /\ ~isFlagsConflict(u, f.vnode, f.flags)
           /\ \/ /\ IS_OPEN_FILE_ENTRY_EMPTY(new) /\ ok
                 /\ Duplicate(Ram) /\ UNCHANGED <<dirstreams, size, durable, trans>>
              \/ /\ verifyFd(u, new) /\ CommitIfWriter(new, ok)
                 /\ IF ok THEN Duplicate(Release(Ram, new)) /\ dirstreams' = EntryGone(new)
                    ELSE UNCHANGED tables
  /\ UNCHANGED <<mutex, creating, syncing, inode>>

(***************************************************************************)
(* sync() goes through the open entries and calls fsyncUtil(), until one   *)
(* fails: an error of a commit, or an entry of another user.               *)
(***************************************************************************)
OpenFrom(fd) == {x \in Fds : x >= fd /\ ~IS_OPEN_FILE_ENTRY_EMPTY(x)}

SyncDone == syncing' = NoSync /\ mutex' = FALSE
SyncNext(u, fd) ==
  IF OpenFrom(fd) = {} THEN SyncDone
  ELSE syncing' = [user |-> u, fd |-> First(OpenFrom(fd))] /\ mutex' = TRUE

SyncEntry(u, fd) ==
  /\ \/ /\ ~verifyFd(u, fd)
        /\ SyncDone /\ UNCHANGED <<size, durable, trans>>
     \/ /\ verifyFd(u, fd)
        /\ Commit(GET_FILE_ID_BY_FD(fd), TRUE) /\ SyncNext(u, fd + 1)
     \/ /\ verifyFd(u, fd)
        /\ Commit(GET_FILE_ID_BY_FD(fd), FALSE) /\ SyncDone
  /\ UNCHANGED <<tables, creating, inode>>

SyncStart(u) == Calls(u) /\ OpenFrom(0) # {} /\ SyncEntry(u, First(OpenFrom(0)))
SyncGoesOn   == syncing # NoSync /\ SyncEntry(syncing.user, syncing.fd)

(***************************************************************************)
(* opendir() and closedir().  A stream keeps its descriptor, and the       *)
(* address of the inode it was opened with.  closedir() gives up whatever  *)
(* entry the descriptor names by now, without a commit.                    *)
(***************************************************************************)
FreeStreams == {s \in Streams : dirstreams[s].fd = FD_EMPTY}

Opendir(u) ==
  /\ Calls(u) /\ FreeStreams # {} /\ getFreeOpenFileEntry # FD_EMPTY
  /\ \E ino \in {ROOT} \cup ({inode[n] : n \in Dirs} \ {INO_NUM_EMPTY}) :
       /\ ~OpenRefused(u, ino, {"RDONLY"}, "dir")
       /\ setOpenFentry(u, ino, {"RDONLY"}, "dir", 0)
       /\ dirstreams' = [dirstreams EXCEPT ![First(FreeStreams)] =
                           [fd |-> getFreeOpenFileEntry, ino |-> ino, fresh |-> TRUE,
                            opener |-> u]]
  /\ UNCHANGED <<mutex, creating, syncing, disk>>

Closedir(u) ==
  /\ Calls(u)
  /\ \E s \in Streams :
       /\ verifyDirstream(u, s)
       /\ SetRam(Release(Ram, dirstreams[s].fd))
       /\ dirstreams' = [EntryGone(dirstreams[s].fd) EXCEPT ![s] = NoStream]
  /\ UNCHANGED <<mutex, creating, syncing, disk>>

(* unmount() takes no mutex; the boot after it deletes the transactions.   *)
Remount ==
  /\ open_files' = [fd \in Fds |-> NoEntry]
  /\ vnodes' = [v \in Vnodes |-> NoVnode]
  /\ dirstreams' = [s \in Streams |-> NoStream]
  /\ syncing = NoSync
  /\ mutex' = FALSE
  /\ size' = durable /\ trans' = [t \in Tids |-> INO_NUM_EMPTY]
  /\ UNCHANGED <<creating, syncing, inode, durable>>

Next ==
  \/ \E u \in Users :
       \/ Open(u) \/ Creat(u) \/ Remove(u)
       \/ Write(u) \/ Read(u) \/ Lseek(u) \/ Close(u) \/ Fsync(u) \/ Dup(u)
       \/ SyncStart(u) \/ Opendir(u) \/ Closedir(u)
  \/ SyncGoesOn
  \/ Remount

Spec == Init /\ [][Next]_vars

-----------------------------------------------------------------------------
(* Properties.                                                             *)

TypeOK ==
  /\ open_files \in [Fds -> [flags : SUBSET {"RDONLY", "WRONLY"},
                             uid : Users \cup {NoUser}, offset : 0 .. MaxSize,
                             vnode : Vnodes \cup {VNODE_EMPTY},
                             f_type : {"none", "file", "dir"}]]
  /\ vnodes \in [Vnodes -> [ino : Inos \cup {INO_NUM_EMPTY}, nrefs : 0 .. NFds]]
  /\ dirstreams \in [Streams -> [fd : Fds \cup {FD_EMPTY},
                                 ino : Inos \cup {INO_NUM_EMPTY}, fresh : BOOLEAN,
                                 opener : Users \cup {NoUser}]]
  /\ mutex \in BOOLEAN
  /\ creating \in [Users -> Names \cup {NoName}]
  /\ syncing \in [user : Users \cup {NoUser}, fd : Fds]
  /\ inode \in [Names -> Inos \cup {INO_NUM_EMPTY}]
  /\ size \in [Inos -> 0 .. MaxSize] /\ durable \in [Inos -> 0 .. MaxSize]
  /\ trans \in [Tids -> Inos \cup {INO_NUM_EMPTY}]

(***************************************************************************)
(* A vnode counts the open entries that refer to it, exists exactly while  *)
(* there are some, and is the only one of its file: close(), dup2(),       *)
(* opendir() and closedir() keep nReferences in step with open_files[].    *)
(***************************************************************************)
VnodesCounted ==
  \A v \in Vnodes :
    /\ vnodes[v].nrefs = Cardinality({fd \in Fds : open_files[fd].vnode = v})
    /\ (vnodes[v].ino = INO_NUM_EMPTY) = (vnodes[v].nrefs = 0)
    /\ \A w \in Vnodes \ {v} :
         vnodes[v].ino = vnodes[w].ino => vnodes[v].ino = INO_NUM_EMPTY

(***************************************************************************)
(* An open descriptor names a file that exists and is of the type it was   *)
(* opened with: unlink() never removes a file under a descriptor, and an   *)
(* inode number is not given to a new file while an old one is open.       *)
(***************************************************************************)
OpenFilesExist ==
  \A fd \in Fds :
    LET ino == GET_FILE_ID_BY_FD(fd)
    IN  \/ ino = INO_NUM_EMPTY /\ open_files[fd] = NoEntry
        \/ ino = ROOT /\ open_files[fd].f_type = "dir"
        \/ /\ ino # INO_NUM_EMPTY
           /\ \E n \in Names : inode[n] = ino /\ TypeOf(n) = open_files[fd].f_type

(***************************************************************************)
(* A file that is being written belongs to one user: it has one descriptor *)
(* open for writing and none of another user.                              *)
(***************************************************************************)
WritersExclusive ==
  \A x \in Fds : \A y \in Fds \ {x} :
    /\ ~IS_OPEN_FILE_ENTRY_EMPTY(x) /\ open_files[x].vnode = open_files[y].vnode
    /\ "WRONLY" \in open_files[x].flags
    => open_files[y].uid = open_files[x].uid /\ "WRONLY" \notin open_files[y].flags

(***************************************************************************)
(* Uncommitted data keeps a descriptor that can commit it: the writer of a *)
(* file with an open transaction is not given up by close(), dup2(), a     *)
(* failing call or another user, and no transaction begins without one.    *)
(* What can leave it behind is closedir() of a stream whose own entry was  *)
(* closed before it, and whose descriptor is a writer's by now.            *)
(***************************************************************************)
HasWriter(ino) ==
  \E fd \in Fds : GET_FILE_ID_BY_FD(fd) = ino /\ "WRONLY" \in open_files[fd].flags
LostStreamClosed(ino) ==
  \E s \in Streams : /\ dirstreams[s].fd # FD_EMPTY /\ dirstreams[s].opener = NoUser
                     /\ GET_FILE_ID_BY_FD(dirstreams[s].fd) = ino
                     /\ dirstreams'[s].fd = FD_EMPTY
UncommittedKeepsWriter ==
  [][\A t \in Tids, ino \in Inos :
       trans'[t] = ino /\ ~HasWriter(ino)' =>
         trans[t] = ino /\ (HasWriter(ino) => LostStreamClosed(ino))]_vars

(***************************************************************************)
(* A directory stream reads the directory through the inode address it     *)
(* took in opendir().  As long as no close(), dup2() or closedir() of      *)
(* another stream gave up the entry of opendir(), it is on that directory, *)
(* read only, of the opener, and creat() and unlink() did not make the     *)
(* address stale; no two streams have such an entry in common.             *)
(***************************************************************************)
StreamsFresh ==
  \A s \in Streams :
    dirstreams[s].opener # NoUser =>
      /\ GET_FILE_ID_BY_FD(dirstreams[s].fd) = dirstreams[s].ino
      /\ dirstreams[s].fresh
      /\ verifyDirstream(dirstreams[s].opener, s)
      /\ "WRONLY" \notin open_files[dirstreams[s].fd].flags
      /\ \A r \in Streams \ {s} :
           dirstreams[r].opener # NoUser => dirstreams[r].fd # dirstreams[s].fd

=============================================================================

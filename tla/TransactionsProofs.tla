-------------------------- MODULE TransactionsProofs --------------------------
(***************************************************************************)
(* Aborts, checkpoints, commits, power failures and boots keep the         *)
(* invariant of TransactionsInvariant, and so does every call; from it,    *)
(* the types, what files read as, that no page of the last checkpoint's    *)
(* files is lost, and that commits are atomic.                             *)
(***************************************************************************)
EXTENDS TransactionsInvariant

(* A call is running, or none is, but no boot.                             *)
IsRunning == \E own, vw \in Owned, A, X, m \in Seq(Ops) : Running(own, vw, A, X, m)

-----------------------------------------------------------------------------
(* A step of which the running transaction sees nothing.                   *)

LEMMA UncommittedSame ==
  ASSUME NEW own, NEW own2, NEW vw, NEW vw2, NEW X, NEW m,
         Direct, TypeInv, TreeKept, T \in Tids, LeavesAlone(own, own2, vw, vw2, T),
         obs' \cap own[T] \subseteq obs, call' = call, UncommittedPhase(own, vw, X, m)
  PROVE  UncommittedPhase(own2, vw2, X, m)'
<1>1. PICK t \in Tids : t = T /\ t = T'
  BY DEF T
<1>2. LiveOwn(own2, t)'
  BY <1>1 DEF UncommittedPhase, LiveOwn, LeavesAlone, SameTree, PagesKept
<1>3. Votes(own, vw, t) /\ LeavesAlone(own, own2, vw, vw2, t)
  BY <1>1 DEF UncommittedPhase
<1>4. Votes(own2, vw2, t)'
  <2>1. vw2[t] \subseteq MayVote(own2, t)'
    BY <1>3, MayVoteKept DEF Votes, LeavesAlone
  <2>2. \A i \in 1 .. Len(tr'[t].vots) : tr'[t].vots[i] \in vw2[t]
    BY <1>3 DEF Votes, VotsOf, LeavesAlone
  <2> QED  BY <1>3, <2>1, <2>2, VotesKept DEF LeavesAlone
<1>5. LiveOwn(own2, T)' /\ Votes(own2, vw2, T)'
  BY <1>1, <1>2, <1>4, AtT
<1>6. Keeps(own, own2, vw, vw2, EMPTY) /\ SameFile(T)
  BY DEF Keeps, LeavesAlone, SameFile
<1>7. MainPhase(own2, vw2, m)'
  <2>1. MainPhase(own, vw, m) /\ Votes(own2, vw2, T)'
    BY <1>5 DEF UncommittedPhase
  <2> QED  BY <1>6, <2>1, MainPhaseKept
<1>8. Between(own2, vw2, X)'
  <2>1. Between(own, vw, X)
    BY DEF UncommittedPhase
  <2> QED  BY <1>1, <2>1 DEF Between, LeavesAlone
<1> QED  BY <1>5, <1>7, <1>8 DEF UncommittedPhase

LEMMA RestSame ==
  ASSUME NEW own, NEW own2, NEW vw, NEW vw2, NEW X, NEW m,
         Direct, TypeInv, TreeKept, T \in Tids, LeavesAlone(own, own2, vw, vw2, T),
         obs' \cap own[T] \subseteq obs, call'.tid = call.tid, RestPhase(own, vw, X, m)
  PROVE  RestPhase(own2, vw2, X, m)'
<1>1. PICK t \in Tids : t = T /\ t = T'
  BY DEF T
<1>2. Stable(own, vw, t)
  BY <1>1 DEF RestPhase
<1>3. Stable(own2, vw2, t)'
  BY <1>1, <1>2, StableKept
<1>4. Stable(own2, vw2, T)'
  BY <1>1, <1>3, AtT
<1> QED  BY <1>1, <1>4 DEF RestPhase

(* Nothing changes but what is left of the call.                           *)
LEMMA TodoSame ==
  ASSUME UNCHANGED <<pages, obs, saved, marked, fs, tr, call, intent>>,
         TypeInv, TreeKept, todo' \in Seq(Ops)
  PROVE  /\ TypeInv' /\ TreeKept' /\ SameTree
         /\ \A C, D : Recoverable(C, D) => Recoverable(C, D)'
         /\ \A own, vw, t : LeavesAlone(own, own, vw, vw, t)
         /\ \A own, t : OwnChain(own, t) => OwnChain(own, t)'
         /\ \A m : InWindow(m)' <=> InWindow(m)
         /\ \A m : FsOK(m) => FsOK(m)'
<1>1. SameTree
  BY SameSaved
<1>2. TypeInv'
  BY DEF TypeInv
<1>3. TreeKept' /\ \A C, D : Recoverable(C, D) => Recoverable(C, D)'
  BY FlashKept DEF PagesKept, TreeKept
<1>4. \A own, vw, t : LeavesAlone(own, own, vw, vw, t)
  BY <1>1 DEF LeavesAlone, PagesKept
<1>5. \A own, t : OwnChain(own, t) => OwnChain(own, t)'
  BY DEF OwnChain
<1>6. \A m : InWindow(m)' <=> InWindow(m)
  BY DEF InWindow
<1>7. \A m : FsOK(m) => FsOK(m)'
  BY <1>1, <1>6 DEF FsOK, SameTree, T
<1> QED  BY <1>1, <1>2, <1>3, <1>4, <1>5, <1>6, <1>7

(* A page is written before the commit, and with the file system's copy of *)
(* inode0's address in it only by the last VOTs of fsync() and close().    *)
LEMMA WriteTodo ==
  ASSUME Direct, TransInv, IsWrite
  PROVE  \E own, vw \in Owned, X, m \in Seq(Ops), C, D \in AddrSets :
           /\ Running(own, vw, <<>>, X, m) /\ UncommittedPhase(own, vw, X, m)
           /\ T \in Tids /\ Recoverable(C, D) /\ TypeInv /\ TreeKept
           /\ todo = X \o m /\ fs.closed = EMPTY
           /\ LastVotsMayFail => ~ InWindow(m) /\ fs.ino0 = Root
<1>1. PICK C \in AddrSets, D \in AddrSets : Recoverable(C, D)
  BY DEF TransInv
<1>2. todo # <<>> /\ Op.op \in {"writeData", "writeActive", "write", "writeInode",
                         "writeInode0", "votsPage", "lastVots"}
  BY DEF IsWrite
<1>3. CASE \E own, vw \in Owned, A, X, m \in Seq(Ops) : Running(own, vw, A, X, m)
  <2>1. PICK own \in Owned, vw \in Owned, A \in Seq(Ops), X \in Seq(Ops), m \in Seq(Ops) :
          Running(own, vw, A, X, m)
    BY <1>3
  <2>2. /\ A = <<>> /\ T \in Tids /\ UncommittedPhase(own, vw, X, m)
        /\ X = <<>> => m # <<>> /\ Op = Head(m)
    BY <1>2, <2>1, RunningHead
  <2>3. Shape(A, X, m) /\ FsOK(m)
    BY <2>1 DEF Running
  <2>4. todo = X \o m
    BY <2>2, <2>3, Cat DEF Shape
  <2>5. MainPhase(own, vw, m) /\ (m \in {kLast, kSetFs, kCp} => X = <<>>)
    BY <2>2 DEF UncommittedPhase
  <2>6. X = <<>> => Head(m).op \notin {"checkpoint", "setFs"}
    BY <1>2, <2>2
  <2>7. m # kCp /\ m # kSetFs
    BY <2>5, <2>6, EndHeads
  <2>8. fs.closed = EMPTY
    <3>1. SUFFICES ASSUME fs.closed # EMPTY
                   PROVE  FALSE
      OBVIOUS
    <3>2. Head(m).op \in {"checkpoint", "walk", "find", "finish", "vots"}
      BY <2>3, <3>1, ClosedFacts
    <3>3. Head(m).op = "checkpoint" /\ m = kCp
      BY <2>5, <3>2, MainHead
    <3> QED  BY <2>7, <3>3
  <2>9. ASSUME LastVotsMayFail
        PROVE  ~ InWindow(m) /\ fs.ino0 = Root
    <3>1. ~ (Op.op = "lastVots" /\ call.own)
      BY <2>9 DEF LastVotsMayFail, Direct
    <3>2. ~ (m = kLast /\ call.own)
      BY <2>2, <2>5, <3>1, EndHeads
    <3> QED  BY <2>3, <2>7, <3>2 DEF InWindow, FsOK
  <2>10. TypeInv /\ TreeKept /\ Running(own, vw, <<>>, X, m)
    BY <2>1, <2>2 DEF TransInv
  <2> QED  BY <1>1, <2>2, <2>4, <2>8, <2>9, <2>10
<1>4. CASE \E C2, D2 \in AddrSets, Y \in Seq(Ops) : BootingFrom(C2, D2, Y)
  <2>1. PICK C2 \in AddrSets, D2 \in AddrSets, Y \in Seq(Ops) : BootingFrom(C2, D2, Y)
    BY <1>4
  <2> QED  BY <1>2, <2>1, BootHead
<1> QED  BY <1>3, <1>4 DEF TransInv

(* What is left of a call changes to an abort of w and the rest.           *)
LEMMA StartAbort ==
  ASSUME NEW own \in Owned, NEW vw \in Owned, NEW w \in Tids,
         NEW X \in Seq(Ops), NEW m \in Seq(Ops),
         NEW X2 \in Seq(Ops), NEW m2 \in Seq(Ops),
         NEW C \in AddrSets, NEW D \in AddrSets,
         Direct, TypeInv, TreeKept, Recoverable(C, D), T \in Tids,
         Running(own, vw, <<>>, X, m), UncommittedPhase(own, vw, X, m),
         UNCHANGED <<pages, obs, saved, marked, fs, tr, call, intent>>,
         todo' = AbortOps(w) \o (X2 \o m2), ~ InWindow(m2), FsOK(m2),
         \/ w = T /\ X2 = <<>> /\ m2 \in {kRet, kAgain(T)}
         \/ w # T /\ X2 = X /\ m2 = m
  PROVE  TransInv'
<1>1. PICK A2 : A2 = AbortOps(w)
  OBVIOUS
<1>2. /\ A2 \in Seq(Ops) /\ A2 # <<>> /\ IsAbort(A2)
      /\ Head(A2).op = "delete" /\ Head(A2).a = w
  <2>1. /\ AbortTails(w) \subseteq Seq(Ops) \ {<<>>}
        /\ Head(A2) = Do("delete", NoInode, w)
    BY <1>1, AbortFacts
  <2>2. A2 \in AbortTails(w) /\ IsAbort(A2)
    BY <1>1 DEF AbortTails, IsAbort
  <2> QED  BY <2>1, <2>2 DEF Do
<1>3. \A t : Dying(A2, t) <=> t = w
  BY <1>2 DEF Dying
<1>4. todo' \in Seq(Ops)
  <2>1. X2 \o m2 \in Seq(Ops)
    BY Cat
  <2> QED  BY <1>1, <1>2, <2>1, Cat
<1>5. /\ TypeInv' /\ TreeKept' /\ SameTree /\ Recoverable(C, D)'
      /\ \A u \in Tids : LeavesAlone(own, own, vw, vw, u)
      /\ ~ InWindow(m2)' /\ FsOK(m2)'
  BY <1>4, TodoSame
<1>6. \A u \in Tids \ {T} : /\ Stable(own, vw, u) /\ obs' \cap own[u] \subseteq obs
                            /\ LeavesAlone(own, own, vw, vw, u)
  BY <1>5 DEF Running, OthersOK, Dying
<1>7. LiveOwn(own, T) /\ LiveOwn(own, w)
  BY <1>6 DEF UncommittedPhase, Stable
<1>8. \A t \in Tids : Dying(A2, t) => own[t] \cap Tree0' = {}
  BY <1>3, <1>5, <1>7 DEF LiveOwn, SameTree
<1>9. OwnChain(own, T)'
  <2>1. PICK t \in Tids : t = T /\ t = T'
    BY DEF T
  <2>2. OwnChain(own, t)'
    BY TodoSame, <1>4 DEF Running, Owners
  <2> QED  BY <2>1, <2>2 DEF OwnChain
<1>10. VotsBound(A2, X2)'
  <2>1. SUFFICES ASSUME NEW t \in Tids
                 PROVE  /\ Len(tr[t].vots) <= VotsPerPage
                        /\ Len(tr[t].vots) = VotsPerPage =>
                             Dying(A2, t) \/ (t = T /\ X2 # <<>> /\ Head(X2).op = "votsPage")
    BY DEF VotsBound, T, Dying
  <2>2. /\ Len(tr[t].vots) <= VotsPerPage
        /\ Len(tr[t].vots) = VotsPerPage => t = T /\ X # <<>> /\ Head(X).op = "votsPage"
    BY DEF Running, VotsBound, Dying
  <2> QED  BY <1>3, <2>2
<1>11. MineOK(own, vw, A2, X2, m2)'
  <2>1. T' = T /\ \A t : Dying(A2, t)' <=> t = w
    BY <1>3 DEF T, Dying
  <2>2. CASE w = T
    <3>1. kAgain(T)' = kAgain(T)
      BY <2>1 DEF kAgain, AbortOps
    <3> QED  BY <2>1, <2>2, <3>1 DEF MineOK
  <2>3. CASE w # T
    <3>1. LeavesAlone(own, own, vw, vw, T) /\ obs' \cap own[T] \subseteq obs /\ call' = call
      BY <1>5
    <3>2. UncommittedPhase(own, vw, X, m)'
      BY <3>1, UncommittedSame
    <3> QED  BY <2>1, <2>3, <3>2 DEF MineOK
  <2> QED  BY <2>2, <2>3
<1>12. Owners(own) /\ \A u \in Tids \ {T} : own[T] \cap own[u] = {}
  BY DEF Running, Owners
<1> QED  BY <1>1, <1>2, <1>5, <1>6, <1>8, <1>9, <1>10, <1>11, <1>12, Settle

LEMMA AbortOtherStep ==
  ASSUME Direct, TransInv, AbortOther
  PROVE  TransInv'
<1>1. IsWrite /\ LastVotsMayFail
  BY DEF AbortOther
<1>2. PICK own \in Owned, vw \in Owned, X \in Seq(Ops), m \in Seq(Ops),
           C \in AddrSets, D \in AddrSets :
           /\ Running(own, vw, <<>>, X, m) /\ UncommittedPhase(own, vw, X, m)
           /\ T \in Tids /\ Recoverable(C, D) /\ TypeInv /\ TreeKept
           /\ todo = X \o m /\ fs.closed = EMPTY
           /\ LastVotsMayFail => ~ InWindow(m) /\ fs.ino0 = Root
  BY <1>1, WriteTodo
<1>3. PICK w : w = First(Others)
  OBVIOUS
<1>4. w \in Tids /\ w # T
  <2>1. Others \in SUBSET Tids /\ Others # {}
    BY DEF Others, AbortOther
  <2>2. First(Others) \in Others
    BY <2>1, FirstFacts
  <2> QED  BY <1>3, <2>2 DEF Others
<1>5. /\ UNCHANGED <<pages, obs, saved, marked, fs, tr, call, intent>>
      /\ todo' = AbortOps(w) \o (X \o m)
  BY <1>2, <1>3 DEF AbortOther, Kept, flashVars
<1>6. ~ InWindow(m) /\ FsOK(m)
  BY <1>1, <1>2 DEF Running
<1> QED  BY <1>2, <1>4, <1>5, <1>6, StartAbort

LEMMA WriteErrorStep ==
  ASSUME Direct, TransInv, WriteError
  PROVE  TransInv'
<1>1. IsWrite /\ LastVotsMayFail
  BY DEF WriteError
<1>2. PICK own \in Owned, vw \in Owned, X \in Seq(Ops), m \in Seq(Ops),
           C \in AddrSets, D \in AddrSets :
           /\ Running(own, vw, <<>>, X, m) /\ UncommittedPhase(own, vw, X, m)
           /\ T \in Tids /\ Recoverable(C, D) /\ TypeInv /\ TreeKept
           /\ todo = X \o m /\ fs.closed = EMPTY
           /\ LastVotsMayFail => ~ InWindow(m) /\ fs.ino0 = Root
  BY <1>1, WriteTodo
<1>3. PICK w \in Tids : w = T
  BY <1>2
<1>4. AbortOps(w) \in Seq(Ops) /\ kRet \in Seq(Ops) /\ kAgain(w) \in Seq(Ops)
  BY AbortFacts, RetFacts DEF AbortTails
<1>5. /\ UNCHANGED <<pages, obs, saved, marked, fs, tr, call, intent>>
      /\ \E m2 \in {kRet, kAgain(w)} : todo' = AbortOps(w) \o m2
  <2>1. todo' = ErrorOps /\ UNCHANGED <<pages, obs, saved, marked, fs, tr, call, intent>>
    BY DEF WriteError, Kept, flashVars
  <2>2. ~ (Op.op = "lastVots" /\ call.own)
    BY <1>1 DEF LastVotsMayFail, Direct
  <2>3. \/ todo' = (AbortOps(w) \o AbortOps(w)) \o kRet
        \/ todo' = AbortOps(w) \o kRet
    BY <1>3, <2>1, <2>2 DEF ErrorOps, kRet
  <2>4. (AbortOps(w) \o AbortOps(w)) \o kRet = AbortOps(w) \o kAgain(w)
    <3>1. PICK A \in Seq(Ops) : A = AbortOps(w)
      BY <1>4
    <3>2. (A \o A) \o kRet = A \o (A \o kRet)
      BY <1>4, CatThree, ZenonT(30)
    <3> QED  BY <3>1, <3>2 DEF kAgain
  <2> QED  BY <2>1, <2>3, <2>4
<1>6. PICK m2 \in {kRet, kAgain(w)} : todo' = AbortOps(w) \o m2
  BY <1>5
<1>7. m2 \in Seq(Ops) /\ Head(m2).op \in {"return", "delete"}
  <2>1. Head(kAgain(w)) = Do("delete", NoInode, w)
    BY <1>4, AbortFacts, Cat, RetFacts DEF kAgain
  <2> QED  BY <1>4, <2>1, EndHeads DEF Do
<1>8. ~ InWindow(m2) /\ FsOK(m2)
  <2>1. ~ InWindow(m2)
    BY <1>7, WindowFacts
  <2>2. m2 # kCp /\ fs.closed = EMPTY /\ fs.ino0 = Root
    BY <1>1, <1>2, <1>7, EndHeads
  <2> QED  BY <2>1, <2>2 DEF FsOK
<1>9. todo' = AbortOps(w) \o (<<>> \o m2) /\ <<>> \in Seq(Ops)
  BY <1>6, <1>7, Cat
<1>10. m2 \in {kRet, kAgain(T)}
  BY <1>3
<1> QED  BY <1>2, <1>3, <1>5, <1>7, <1>8, <1>9, <1>10, StartAbort

-----------------------------------------------------------------------------
(* abortTransaction().                                                     *)

LEMMA EmptyFacts ==
  ASSUME Direct
  PROVE  EmptyTr \in TrSet /\ NoChange \in ChangeSet /\ DOMAIN NoChange = {}
<1>1. NoChange \in [{} -> Contents] /\ DOMAIN NoChange = {}
  BY DEF NoChange
<1>2. NoChange \in ChangeSet
  BY <1>1 DEF ChangeSet
<1>3. NoPointers("inode") \in [Blocks -> Addr0]
  BY DirectFacts DEF Addr0
<1>4. EmptyTr \in TrSet
  BY <1>3 DEF EmptyTr, TrSet, NoInode, T_TYPE_EMPTY, Addr0
<1> QED  BY <1>1, <1>2, <1>4

LEMMA AbortSettle ==
  ASSUME NEW own \in Owned, NEW own2 \in Owned, NEW vw \in Owned, NEW w \in Tids,
         NEW A \in Seq(Ops), NEW X \in Seq(Ops), NEW m \in Seq(Ops),
         NEW A2 \in Seq(Ops), NEW C \in AddrSets, NEW D \in AddrSets,
         Direct, TypeInv, TreeKept, Recoverable(C, D), TypeInv',
         Running(own, vw, A, X, m), todo # <<>>, Dying(A, w),
         UNCHANGED <<pages, saved, fs, call>>,
         obs' \subseteq obs \cup own[w], marked' \subseteq marked \cup own[w],
         \A u \in Tids \ {w} : /\ tr'[u] = tr[u] /\ intent'[u] = intent[u]
                               /\ own2[u] = own[u],
         own2[w] \subseteq own[w], OwnChain(own2, w)',
         DOMAIN intent'[w] \subseteq DOMAIN intent[w],
         todo' = A2 \o (X \o m), IsAbort(A2),
         \/ \A t : Dying(A2, t) <=> t = w
         \/ Unused(own2, w)' /\ \A t : ~ Dying(A2, t),
         Len(tr'[w].vots) <= VotsPerPage
  PROVE  TransInv'
<1>1. /\ Shape(A, X, m) /\ FsOK(m) /\ VotsBound(A, X) /\ Owners(own)
      /\ OthersOK(own, vw, A) /\ T \in Tids /\ MineOK(own, vw, A, X, m) /\ A # <<>>
  BY DEF Running, Shape, Dying
<1>2. T' = T /\ \A t : Dying(A, t) <=> t = w
  BY DEF T, Dying
<1>3. own[w] \cap Tree0 = {} /\ \A t \in Tids : OwnChain(own, t)
  BY <1>1 DEF OthersOK, Owners
<1>4. SameTree /\ TreeKept' /\ Recoverable(C, D)'
  <2>1. PagesKept({}) /\ Tree0 \cap (obs' \cup marked') = {}
    BY <1>3 DEF PagesKept, TreeKept
  <2> QED  BY <2>1, FlashKept, SameSaved
<1>5. \A u \in Tids \ {w} : /\ LeavesAlone(own, own2, vw, vw, u)
                            /\ obs' \cap own[u] \subseteq obs
                            /\ own2[w] \cap own[u] = {}
  BY <1>1, <1>4 DEF LeavesAlone, PagesKept, Owners
<1>6. Owners(own2)'
  <2>1. \A u \in Tids \ {w} :
           /\ own2[u] = own[u] /\ tr'[u] = tr[u] /\ intent'[u] = intent[u]
           /\ PagesKept(own[u]) /\ own2[w] \cap own[u] = {}
           /\ DOMAIN intent'[w] \cap DOMAIN intent[u] = {}
    BY <1>1, <1>5 DEF LeavesAlone, Owners
  <2> QED  BY <1>1, <2>1, OwnersKept
<1>7. OthersOK(own2, vw, A2)'
  <2>1. \A u \in Tids \ {w} : u # T => Stable(own2, vw, u)'
    <3>1. SUFFICES ASSUME NEW u \in Tids \ {w}, u # T
                   PROVE  Stable(own2, vw, u)'
      OBVIOUS
    <3>2. Stable(own, vw, u)
      BY <1>1, <1>2, <3>1 DEF OthersOK
    <3> QED  BY <1>5, <3>2, StableKept
  <2>2. (\A t : Dying(A2, t)' <=> t = w) \/ (Stable(own2, vw, w)' /\ \A t : ~ Dying(A2, t)')
    BY DEF Stable, Unused, LiveOwn, Dying
  <2>3. \A t \in Tids : Dying(A2, t)' => own2[t] \cap Tree0' = {}
    BY <1>3, <1>4, <2>2 DEF SameTree
  <2> QED  BY <1>2, <2>1, <2>2, <2>3 DEF OthersOK
<1>8. Shape(A2, X, m)' /\ FsOK(m)'
  <2>1. ~ InWindow(m) /\ ~ InWindow(m)' /\ m # kCp
    BY <1>1 DEF Shape, InWindow
  <2>2. FsOK(m)'
    BY <1>1, <1>4, <2>1 DEF FsOK, SameTree
  <2> QED  BY <1>1, <1>2, <2>1, <2>2 DEF Shape
<1>9. VotsBound(A2, X)'
  <2>1. SUFFICES ASSUME NEW t \in Tids
                 PROVE  /\ Len(tr'[t].vots) <= VotsPerPage
                        /\ Len(tr'[t].vots) = VotsPerPage =>
                             Dying(A2, t) \/ (t = T /\ X # <<>> /\ Head(X).op = "votsPage")
    BY <1>2 DEF VotsBound, Dying
  <2>2. CASE t # w
    BY <1>1, <1>2, <2>2 DEF VotsBound
  <2>3. CASE t = w
    <3>1. Unused(own2, w)' => tr'[w].vots = <<>>
      BY DEF Unused, EmptyTr
    <3>2. VotsPerPage # 0 /\ Len(<<>>) = 0
      BY TransactionsAssumption
    <3> QED  BY <2>3, <3>1, <3>2
  <2> QED  BY <2>2, <2>3
<1>10. MineOK(own2, vw, A2, X, m)'
  <2>1. CASE w = T
    <3>1. X = <<>> /\ m \in {kRet, kAgain(T)}
      BY <1>1, <1>2, <2>1 DEF MineOK
    <3>2. kAgain(T)' = kAgain(T)
      BY <1>2 DEF kAgain, AbortOps
    <3>3. CASE \A t : Dying(A2, t) <=> t = w
      BY <1>2, <2>1, <3>1, <3>2, <3>3 DEF MineOK, Dying
    <3>4. CASE Unused(own2, w)' /\ \A t : ~ Dying(A2, t)
      <4>1. Stable(own2, vw, w)'
        BY <3>4 DEF Stable, Unused, LiveOwn
      <4>2. PICK t \in Tids : t = w /\ t = T'
        BY <1>2, <2>1
      <4>3. Stable(own2, vw, t)'
        BY <4>1, <4>2
      <4>4. Stable(own2, vw, T)'
        BY <4>2, <4>3, AtT
      <4>5. RestPhase(own2, vw, X, m)'
        BY <3>1, <3>2, <4>4 DEF RestPhase
      <4>6. ~ Dying(A2, T)'
        BY <3>4 DEF Dying
      <4> QED  BY <4>5, <4>6 DEF MineOK
    <3> QED  BY <3>3, <3>4
  <2>2. CASE w # T
    <3>1. ~ Dying(A2, T)' /\ ~ Dying(A, T)
      BY <1>2, <2>2 DEF Dying
    <3>2. RestPhase(own, vw, X, m) \/ UncommittedPhase(own, vw, X, m)
      BY <1>1, <3>1 DEF MineOK
    <3>3. LeavesAlone(own, own2, vw, vw, T) /\ obs' \cap own[T] \subseteq obs
      BY <1>1, <1>5, <2>2
    <3>4. RestPhase(own, vw, X, m) => RestPhase(own2, vw, X, m)'
      BY <1>1, <3>3, RestSame
    <3>5. UncommittedPhase(own, vw, X, m) => UncommittedPhase(own2, vw, X, m)'
      BY <1>1, <3>3, UncommittedSame
    <3> QED  BY <3>1, <3>2, <3>4, <3>5 DEF MineOK
  <2> QED  BY <2>1, <2>2
<1>11. Running(own2, vw, A2, X, m)'
  BY <1>6, <1>7, <1>8, <1>9, <1>10 DEF Running
<1> QED  BY <1>4, <1>11 DEF TransInv

(* A page is deleted, or a transaction initialised, by an abort.           *)
LEMMA AbortTodo ==
  ASSUME Direct, TransInv, todo # <<>>, Op.op \in {"delete", "init"}
  PROVE  \E own, vw \in Owned, A, X, m \in Seq(Ops), C, D \in AddrSets, w \in Tids :
           /\ Running(own, vw, A, X, m) /\ Recoverable(C, D) /\ TypeInv /\ TreeKept
           /\ todo = A \o (X \o m) /\ Rest = Tail(A) \o (X \o m)
           /\ w = Op.a /\ \A t : Dying(A, t) <=> t = w
           /\ IsAbort(A) /\ IsAbort(Tail(A)) /\ Tail(A) \in Seq(Ops)
           /\ Tail(A) # <<>>
           /\ Op.op = "delete" => /\ Head(Tail(A)) = Do("init", NoInode, w)
           /\ Op.op = "init" => Head(Tail(A)) = Todo("checkpoint")
<1>1. PICK C \in AddrSets, D \in AddrSets : Recoverable(C, D)
  BY DEF TransInv
<1>2. TypeInv /\ TreeKept
  BY DEF TransInv
<1>3. ASSUME NEW own \in Owned, NEW vw \in Owned, NEW A \in Seq(Ops), NEW X \in Seq(Ops),
             NEW m \in Seq(Ops), Running(own, vw, A, X, m), A # <<>>
      PROVE  \E w \in Tids :
           /\ todo = A \o (X \o m) /\ Rest = Tail(A) \o (X \o m)
           /\ w = Op.a /\ \A t : Dying(A, t) <=> t = w
           /\ IsAbort(A) /\ IsAbort(Tail(A)) /\ Tail(A) \in Seq(Ops)
           /\ Tail(A) # <<>>
           /\ Op.op = "delete" => /\ Head(Tail(A)) = Do("init", NoInode, w)
           /\ Op.op = "init" => Head(Tail(A)) = Todo("checkpoint")
  <2>1. Shape(A, X, m) /\ IsAbort(A) /\ todo = A \o (X \o m)
    BY <1>3 DEF Running, Shape
  <2>2. Op = Head(A) /\ Rest = Tail(A) \o (X \o m) /\ Tail(A) \in Seq(Ops)
    BY <1>3, <2>1, TodoParts
  <2>3. IsAbort(Tail(A))
    BY <1>3, <2>1, AbortParts
  <2>4. PICK w \in Tids :
              \/ Head(A) = Do("delete", NoInode, w) /\ Tail(A) # <<>>
                 /\ Head(Tail(A)) = Do("init", NoInode, w)
              \/ Head(A) = Do("init", NoInode, w) /\ Tail(A) # <<>>
                 /\ Head(Tail(A)) = Todo("checkpoint")
    <3>1. Head(A) # Todo("checkpoint") /\ Head(A) # Todo("find")
      BY <2>2, AllTodos
    <3> QED  BY <1>3, <2>1, <3>1, AbortParts
  <2>5. w = Op.a /\ \A t : Dying(A, t) <=> t = w
    BY <1>3, <2>2, <2>4 DEF Do, Dying
  <2>6. /\ Op.op = "delete" => /\ Head(Tail(A)) = Do("init", NoInode, w)
        /\ Op.op = "init" => Head(Tail(A)) = Todo("checkpoint")
    BY <2>2, <2>4 DEF Do
  <2> QED  BY <2>1, <2>2, <2>3, <2>4, <2>5, <2>6
<1>4. CASE \E own, vw \in Owned, A, X, m \in Seq(Ops) : Running(own, vw, A, X, m)
  <2>1. PICK own \in Owned, vw \in Owned, A \in Seq(Ops), X \in Seq(Ops), m \in Seq(Ops) :
          Running(own, vw, A, X, m)
    BY <1>4
  <2>2. CASE A # <<>>
    <3>1. PICK w \in Tids :
           /\ todo = A \o (X \o m) /\ Rest = Tail(A) \o (X \o m)
           /\ w = Op.a /\ \A t : Dying(A, t) <=> t = w
           /\ IsAbort(A) /\ IsAbort(Tail(A)) /\ Tail(A) \in Seq(Ops)
           /\ Tail(A) # <<>>
           /\ Op.op = "delete" => /\ Head(Tail(A)) = Do("init", NoInode, w)
           /\ Op.op = "init" => Head(Tail(A)) = Todo("checkpoint")
      BY <1>3, <2>1, <2>2
    <3> QED  BY <1>1, <1>2, <2>1, <3>1
  <2>3. CASE A = <<>>
    <3>1. T \in Tids /\ m = kAgain(T) /\ todo = m /\ RestPhase(own, vw, X, m)
      <4>1. X = <<>>
        BY <2>1, <2>3, RunningHead
      <4>2. T \in Tids /\ todo = m
        BY <2>1, <2>3, <4>1, RunningHead
      <4> QED  BY <2>1, <2>3, <4>1, <4>2, RunningHead
    <3>2. PICK t \in Tids : t = T
      BY <3>1
    <3>3. PICK B : B = AbortOps(t)
      OBVIOUS
    <3>4. /\ B \in Seq(Ops) /\ B # <<>> /\ IsAbort(B) /\ kRet \in Seq(Ops) /\ <<>> \in Seq(Ops)
          /\ Head(B).op = "delete" /\ Head(B).a = t /\ \A u : Dying(B, u) <=> u = t
      <4>1. B \in Seq(Ops) /\ B # <<>> /\ IsAbort(B) /\ Head(B) = Do("delete", NoInode, t)
        BY <3>3, AbortFacts DEF AbortTails, IsAbort
      <4> QED  BY <4>1, RetFacts DEF Dying, Do
    <3>5. todo = B \o (<<>> \o kRet)
      BY <3>1, <3>2, <3>3, <3>4, Cat DEF kAgain
    <3>6. Shape(A, X, m) /\ FsOK(m) /\ VotsBound(A, X) /\ Owners(own) /\ OthersOK(own, vw, A)
          /\ X = <<>> /\ Stable(own, vw, T)
      BY <2>1, <3>1 DEF Running, RestPhase
    <3>7. Head(m).op = "delete"
      <4>1. Head(kAgain(t)) = Do("delete", NoInode, t)
        BY <3>3, <3>4, AbortFacts, Cat, RetFacts DEF kAgain
      <4> QED  BY <3>1, <3>2, <4>1 DEF Do
    <3>8. ~ InWindow(m) /\ ~ InWindow(kRet) /\ kRet # kCp /\ fs.closed = EMPTY
      BY <3>6, <3>7, WindowFacts, ClosedFacts, EndHeads
    <3>9. FsOK(kRet) /\ Shape(B, <<>>, kRet)
      BY <3>1, <3>4, <3>5, <3>6, <3>8 DEF FsOK, Shape
    <3>10. VotsBound(B, <<>>)
      BY <2>3, <3>6 DEF VotsBound, Dying
    <3>11. OthersOK(own, vw, B) /\ MineOK(own, vw, B, <<>>, kRet)
      BY <2>3, <3>2, <3>4, <3>6 DEF OthersOK, MineOK, Dying, Stable, LiveOwn
    <3>12. Running(own, vw, B, <<>>, kRet)
      BY <3>6, <3>9, <3>10, <3>11 DEF Running
    <3>13. PICK w \in Tids :
           /\ todo = B \o (<<>> \o kRet) /\ Rest = Tail(B) \o (<<>> \o kRet)
           /\ w = Op.a /\ \A u : Dying(B, u) <=> u = w
           /\ IsAbort(B) /\ IsAbort(Tail(B)) /\ Tail(B) \in Seq(Ops)
           /\ Tail(B) # <<>>
           /\ Op.op = "delete" => /\ Head(Tail(B)) = Do("init", NoInode, w)
           /\ Op.op = "init" => Head(Tail(B)) = Todo("checkpoint")
      <4>1. B \in Seq(Ops) /\ <<>> \in Seq(Ops) /\ kRet \in Seq(Ops) /\ B # <<>>
        BY <3>4
      <4> QED  BY <1>3, <2>1, <3>12, <4>1
    <3>14. B \in Seq(Ops) /\ <<>> \in Seq(Ops) /\ kRet \in Seq(Ops)
      BY <3>4
    <3> QED  BY <1>1, <1>2, <2>1, <3>12, <3>13, <3>14
  <2> QED  BY <2>2, <2>3
<1>5. CASE \E C2, D2 \in AddrSets, Y \in Seq(Ops) : BootingFrom(C2, D2, Y)
  <2>1. PICK C2 \in AddrSets, D2 \in AddrSets, Y \in Seq(Ops) : BootingFrom(C2, D2, Y)
    BY <1>5
  <2> QED  BY <2>1, BootHead
<1> QED  BY <1>4, <1>5 DEF TransInv

LEMMA DeletePageStep ==
  ASSUME Direct, TransInv, DeletePage
  PROVE  TransInv'
<1>1. todo # <<>> /\ Op.op = "delete"
  BY DEF DeletePage, Doing
<1>2. PICK own \in Owned, vw \in Owned, A \in Seq(Ops), X \in Seq(Ops), m \in Seq(Ops),
           C \in AddrSets, D \in AddrSets, w \in Tids :
           /\ Running(own, vw, A, X, m) /\ Recoverable(C, D) /\ TypeInv /\ TreeKept
           /\ todo = A \o (X \o m) /\ Rest = Tail(A) \o (X \o m)
           /\ w = Op.a /\ \A t : Dying(A, t) <=> t = w
           /\ IsAbort(A) /\ IsAbort(Tail(A)) /\ Tail(A) \in Seq(Ops)
           /\ Tail(A) # <<>>
           /\ Op.op = "delete" => /\ Head(Tail(A)) = Do("init", NoInode, w)
           /\ Op.op = "init" => Head(Tail(A)) = Todo("checkpoint")
  BY <1>1, AbortTodo
<1>3. UNCHANGED <<pages, saved, fs, call, intent>>
  BY DEF DeletePage, Kept
<1>4. OwnChain(own, w) /\ Len(tr[w].vots) <= VotsPerPage
  BY <1>2 DEF Running, Owners, VotsBound
<1>5. CASE tr[w].prev = EMPTY
  <2>1. todo' = Tail(A) \o (X \o m) /\ UNCHANGED <<obs, marked, tr>>
    BY <1>2, <1>5 DEF DeletePage
  <2>2. todo' \in Seq(Ops)
    BY <1>2, <2>1, Cat
  <2>3. TypeInv'
    BY <1>2, <1>3, <2>1, <2>2 DEF TypeInv
  <2>4. \A t : Dying(Tail(A), t) <=> t = w
    BY <1>1, <1>2 DEF Dying, Do
  <2>5. OwnChain(own, w)'
    BY <1>3, <1>4, <2>1 DEF OwnChain
  <2> QED  BY <1>1, <1>2, <1>3, <1>4, <2>1, <2>3, <2>4, <2>5, AbortSettle
<1>6. CASE tr[w].prev # EMPTY
  <2>1. PICK a, p : a = tr[w].prev /\ p = pages[a].prev
    OBVIOUS
  <2>2. a \in own[w] /\ a \in Addr /\ p \in own[w] \cup {EMPTY} /\ p \in Addr0
    BY <1>4, <1>6, <2>1 DEF OwnChain, Addr0
  <2>3. /\ obs' = obs \cup {a} /\ marked' = marked \cup {a} /\ todo' = todo
        /\ tr' = [tr EXCEPT ![w].prev = p]
    BY <1>2, <1>6, <2>1 DEF DeletePage, Mark
  <2>4. /\ tr' \in [Tids -> TrSet] /\ \A u \in Tids \ {w} : tr'[u] = tr[u]
        /\ tr'[w].prev = p /\ tr'[w].vots = tr[w].vots
    <3>1. tr \in [Tids -> TrSet] /\ tr[w] \in TrSet
      BY <1>2 DEF TypeInv
    <3>2. PICK r : r = [tr[w] EXCEPT !.prev = p]
      OBVIOUS
    <3>3. r \in TrSet
      BY <2>2, <3>1, <3>2 DEF TrSet
    <3>4. r.prev = p /\ r.vots = tr[w].vots
      BY <3>1, <3>2 DEF TrSet
    <3>5. tr' = [tr EXCEPT ![w] = r]
      BY <2>3, <3>1, <3>2
    <3> QED  BY <3>1, <3>3, <3>4, <3>5
  <2>5. TypeInv'
    BY <1>2, <1>3, <2>2, <2>3, <2>4 DEF TypeInv
  <2>6. OwnChain(own, w)'
    BY <1>3, <1>4, <2>2, <2>4 DEF OwnChain
  <2>7. todo' = A \o (X \o m) /\ Dying(A, w)
    BY <1>2, <2>3
  <2>8. /\ obs' \subseteq obs \cup own[w] /\ marked' \subseteq marked \cup own[w]
        /\ Len(tr'[w].vots) <= VotsPerPage
    BY <1>4, <2>2, <2>3, <2>4
  <2>9. \A u \in Tids \ {w} : tr'[u] = tr[u] /\ intent'[u] = intent[u] /\ own[u] = own[u]
    BY <1>3, <2>4
  <2>10. DOMAIN intent'[w] \subseteq DOMAIN intent[w]
    BY <1>3
  <2> QED  BY <1>1, <1>2, <1>3, <2>5, <2>6, <2>7, <2>8, <2>9, <2>10, AbortSettle
<1> QED  BY <1>5, <1>6

LEMMA InitTransactionStep ==
  ASSUME Direct, TransInv, InitTransaction
  PROVE  TransInv'
<1>1. todo # <<>> /\ Op.op = "init"
  BY DEF InitTransaction, Doing
<1>2. PICK own \in Owned, vw \in Owned, A \in Seq(Ops), X \in Seq(Ops), m \in Seq(Ops),
           C \in AddrSets, D \in AddrSets, w \in Tids :
           /\ Running(own, vw, A, X, m) /\ Recoverable(C, D) /\ TypeInv /\ TreeKept
           /\ todo = A \o (X \o m) /\ Rest = Tail(A) \o (X \o m)
           /\ w = Op.a /\ \A t : Dying(A, t) <=> t = w
           /\ IsAbort(A) /\ IsAbort(Tail(A)) /\ Tail(A) \in Seq(Ops)
           /\ Tail(A) # <<>>
           /\ Op.op = "delete" => /\ Head(Tail(A)) = Do("init", NoInode, w)
           /\ Op.op = "init" => Head(Tail(A)) = Todo("checkpoint")
  BY <1>1, AbortTodo
<1>3. /\ UNCHANGED <<pages, obs, saved, marked, fs, call>>
      /\ tr' = [tr EXCEPT ![w] = EmptyTr] /\ intent' = [intent EXCEPT ![w] = NoChange]
      /\ todo' = Tail(A) \o (X \o m)
  BY <1>2 DEF InitTransaction, Kept, flashVars
<1>4. PICK own2 : own2 = [own EXCEPT ![w] = {}]
  OBVIOUS
<1>5. own2 \in Owned /\ own2[w] = {} /\ \A u \in Tids \ {w} : own2[u] = own[u]
  <2>1. {} \in AddrSets
    BY DEF AddrSets
  <2> QED  BY <1>4, <2>1 DEF Owned
<1>6. EmptyTr \in TrSet /\ NoChange \in ChangeSet /\ DOMAIN NoChange = {}
  BY EmptyFacts
<1>7. /\ tr' \in [Tids -> TrSet] /\ tr'[w] = EmptyTr /\ \A u \in Tids \ {w} : tr'[u] = tr[u]
      /\ intent' \in [Tids -> ChangeSet] /\ intent'[w] = NoChange
      /\ \A u \in Tids \ {w} : intent'[u] = intent[u]
  BY <1>2, <1>3, <1>6 DEF TypeInv
<1>8. TypeInv'
  <2>1. todo' \in Seq(Ops)
    BY <1>2, <1>3, Cat
  <2> QED  BY <1>2, <1>3, <1>7, <2>1 DEF TypeInv
<1>9. Unused(own2, w)' /\ OwnChain(own2, w)'
  <2>1. EmptyTr' = EmptyTr /\ NoChange' = NoChange /\ EmptyTr.prev = EMPTY
    BY DEF EmptyTr, NoPointers, NoChange
  <2> QED  BY <1>5, <1>7, <2>1 DEF Unused, OwnChain
<1>10. Len(tr'[w].vots) <= VotsPerPage
  BY <1>7, TransactionsAssumption DEF EmptyTr
<1>11. \A t : ~ Dying(Tail(A), t)
  BY <1>1, <1>2, AllTodos DEF Dying
<1>12. DOMAIN intent'[w] \subseteq DOMAIN intent[w] /\ own2[w] \subseteq own[w] /\ Dying(A, w)
  BY <1>2, <1>5, <1>6, <1>7
<1> QED  BY <1>1, <1>2, <1>3, <1>5, <1>7, <1>8, <1>9, <1>10, <1>11, <1>12, AbortSettle

-----------------------------------------------------------------------------
(* Checkpoints, and headers that findNextFreePage() writes, of the files   *)
(* of the last checkpoint.                                                 *)

LEMMA SaveAgain ==
  ASSUME NEW C, NEW D, TypeInv, TreeKept, fs.ino0 = Root, WriteCheckpoint,
         UNCHANGED <<pages, obs, tr>>,
         Closed(pages, C), Closed(pages, D), fs.closed \in C \cup {EMPTY},
         \A t \in Tids : tr[t].prev \in D \cup {EMPTY, fs.closed},
         D \cap Tree0 = {},
         \A a \in C : pages[a].kind = "vots" =>
           /\ a \notin Tree0
           /\ \A i \in 1 .. Len(pages[a].ref) : pages[a].ref[i] \notin Tree0
  PROVE  SameTree /\ TreeKept' /\ Recoverable(C, D)'
<1>1. /\ SameTree /\ GoodTree(saved.pages, Root)'
      /\ saved' = [pages |-> pages, obs |-> obs, fs |-> SavedFs]
  BY SameAgain
<1>2. saved'.pages = pages /\ saved'.obs = obs /\ saved'.fs = SavedFs /\ marked' = {}
  BY <1>1 DEF WriteCheckpoint
<1>3. SavedFs.closed = fs.closed /\ \A t \in Tids : SavedFs.last[t] = tr[t].prev
  BY DEF SavedFs, TypeInv, FsSet
<1>4. TreeKept'
  BY <1>1, <1>2 DEF TreeKept, SameTree
<1>5. Recoverable(C, D)'
  BY <1>1, <1>2, <1>3 DEF Recoverable, SameTree, Closed
<1> QED  BY <1>1, <1>4, <1>5

LEMMA SavedTypes ==
  ASSUME TypeInv, WriteCheckpoint, UNCHANGED <<pages, obs, tr, call>>,
         todo' \in Seq(Ops), intent' \in [Tids -> ChangeSet]
  PROVE  /\ TypeInv' /\ fs'.ino0 = fs.ino0 /\ fs'.closed = fs.closed
         /\ saved' = [pages |-> pages, obs |-> obs, fs |-> SavedFs]
         /\ saved'.fs = fs' /\ saved'.pages = pages /\ saved'.obs = obs /\ marked' = {}
<1>1. /\ fs' = SavedFs /\ marked' = {}
      /\ saved' = [pages |-> pages, obs |-> obs, fs |-> SavedFs]
  BY DEF WriteCheckpoint
<1>2. \A t \in Tids : tr[t].prev \in Addr0
  BY DEF TypeInv, TrSet
<1>3. SavedFs \in FsSet /\ SavedFs.ino0 = fs.ino0 /\ SavedFs.closed = fs.closed
  BY <1>2 DEF SavedFs, TypeInv, FsSet
<1>4. saved' \in [pages : [Addr -> PageSet], obs : SUBSET Addr, fs : FsSet]
  BY <1>1, <1>3 DEF TypeInv
<1> QED  BY <1>1, <1>3, <1>4 DEF TypeInv

LEMMA WalkSame ==
  ASSUME NEW own, NEW X, NEW m, SameTree, UNCHANGED <<pages, tr, call, intent>>,
         fs'.closed = fs.closed, WalkPhase(own, X, m)
  PROVE  WalkPhase(own, X, m)'
<1>1. PICK t : t = T /\ t = T'
  BY DEF T
<1>2. \A a : Forsaken(own, a) => Forsaken(own, a)'
  BY <1>1 DEF Forsaken, SameTree
<1>3. NoChange' = NoChange
  BY DEF NoChange
<1> QED  BY <1>1, <1>2, <1>3 DEF WalkPhase

(* The last checkpoint's files are saved again, or nothing is.             *)
LEMMA CalmStep ==
  ASSUME NEW own \in Owned, NEW vw \in Owned,
         NEW A \in Seq(Ops), NEW X \in Seq(Ops), NEW m \in Seq(Ops),
         NEW A2 \in Seq(Ops), NEW X2 \in Seq(Ops), NEW m2 \in Seq(Ops),
         NEW C \in AddrSets, NEW D \in AddrSets,
         Direct, TypeInv, TreeKept, Recoverable(C, D), T \in Tids,
         Running(own, vw, A, X, m), \A t : ~ Dying(A, t),
         UNCHANGED <<pages, obs, tr, call, intent>>,
         UNCHANGED <<fs, saved, marked>> \/ (WriteCheckpoint /\ fs.ino0 = Root),
         fs.closed = EMPTY \/ WalkPhase(own, X, m),
         todo' = A2 \o (X2 \o m2), IsAbort(A2), \A t : ~ Dying(A2, t),
         A2 # <<>> => ~ InWindow(m2), FsOK(m2), m2 # kCp,
         X2 # X => Head(X).op # "votsPage",
         X = <<>> => X2 = <<>>, MineOK(own, vw, A2, X2, m2)
  PROVE  TransInv'
<1>1. /\ Owners(own) /\ VotsBound(A, X) /\ MineOK(own, vw, A, X, m)
      /\ \A u \in Tids \ {T} : Stable(own, vw, u)
  BY DEF Running, OthersOK
<1>2. todo' \in Seq(Ops)
  <2>1. X2 \o m2 \in Seq(Ops)
    BY Cat
  <2> QED  BY <2>1, Cat
<1>3. TypeInv' /\ fs'.ino0 = fs.ino0 /\ fs'.closed = fs.closed
  <2>1. CASE UNCHANGED <<fs, saved, marked>>
    BY <1>2, <2>1 DEF TypeInv
  <2>2. CASE WriteCheckpoint
    <3>1. intent' \in [Tids -> ChangeSet]
      BY DEF TypeInv
    <3> QED  BY <1>2, <2>2, <3>1, SavedTypes
  <2> QED  BY <2>1, <2>2
<1>4. \A u \in Tids : /\ OwnChain(own, u) /\ own[u] \subseteq Addr
                      /\ ~ WalkPhase(own, X, m) \/ u # T => own[u] \cap Tree0 = {}
  BY <1>1 DEF Owners, OwnChain, Stable, LiveOwn, MineOK, RestPhase, UncommittedPhase
<1>5. SameTree /\ TreeKept' /\ \E C2, D2 \in AddrSets : Recoverable(C2, D2)'
  <2>1. CASE UNCHANGED <<fs, saved, marked>>
    BY <2>1, SameSaved, FlashKept DEF PagesKept, TreeKept
  <2>2. CASE WriteCheckpoint /\ fs.ino0 = Root /\ ~ WalkPhase(own, X, m)
    <3>1. PICK D2 : D2 = UNION {own[u] : u \in Tids}
      OBVIOUS
    <3>2. {} \in AddrSets /\ D2 \in AddrSets
      BY <1>4, <3>1 DEF AddrSets
    <3>3. Closed(pages, {}) /\ Closed(pages, D2)
      BY <1>4, <3>1, <3>2 DEF Closed, OwnChain
    <3>4. \A t \in Tids : tr[t].prev \in D2 \cup {EMPTY, fs.closed}
      BY <1>4, <3>1 DEF OwnChain
    <3>5. D2 \cap Tree0 = {} /\ fs.closed \in {} \cup {EMPTY}
      BY <1>4, <2>2, <3>1
    <3>6. SameTree /\ TreeKept' /\ Recoverable({}, D2)'
      BY <2>2, <3>3, <3>4, <3>5, SaveAgain
    <3> QED  BY <3>2, <3>6
  <2>3. CASE WriteCheckpoint /\ fs.ino0 = Root /\ WalkPhase(own, X, m)
    <3>1. PICK C2, D2 : C2 = own[T] /\ D2 = UNION {own[u] : u \in Tids \ {T}}
      OBVIOUS
    <3>2. C2 \in AddrSets /\ D2 \in AddrSets
      BY <1>4, <3>1 DEF AddrSets
    <3>3. Closed(pages, C2) /\ Closed(pages, D2)
      BY <1>4, <3>1, <3>2 DEF Closed, OwnChain
    <3>4. fs.closed = tr[T].prev /\ fs.closed \in C2 \cup {EMPTY}
      BY <1>4, <2>3, <3>1 DEF WalkPhase, OwnChain
    <3>5. \A t \in Tids : tr[t].prev \in D2 \cup {EMPTY, fs.closed}
      BY <1>4, <3>1, <3>4 DEF OwnChain
    <3>6. D2 \cap Tree0 = {}
      BY <1>4, <3>1
    <3>7. \A a \in C2 : pages[a].kind = "vots" =>
           /\ a \notin Tree0
           /\ \A i \in 1 .. Len(pages[a].ref) : pages[a].ref[i] \notin Tree0
      BY <2>3, <3>1 DEF WalkPhase, Forsaken
    <3>8. SameTree /\ TreeKept' /\ Recoverable(C2, D2)'
      BY <2>3, <3>3, <3>4, <3>5, <3>6, <3>7, SaveAgain
    <3> QED  BY <3>2, <3>8
  <2> QED  BY <2>1, <2>2, <2>3
<1>6. PICK C2 \in AddrSets, D2 \in AddrSets : Recoverable(C2, D2)'
  BY <1>5
<1>7. \A u \in Tids : LeavesAlone(own, own, vw, vw, u) /\ obs' \cap own[u] \subseteq obs
  BY <1>5 DEF LeavesAlone, PagesKept
<1>8. OwnChain(own, T)'
  <2>1. PICK t \in Tids : t = T /\ t = T'
    BY DEF T
  <2>2. OwnChain(own, t)'
    BY <1>4 DEF OwnChain
  <2> QED  BY <2>1, <2>2 DEF OwnChain
<1>9. /\ ~ (InWindow(m2)') <=> ~ InWindow(m2)
      /\ FsOK(m2)'
  BY <1>3, <1>5 DEF InWindow, FsOK, SameTree
<1>10. VotsBound(A2, X2)'
  <2>1. SUFFICES ASSUME NEW t \in Tids
                 PROVE  /\ Len(tr[t].vots) <= VotsPerPage
                        /\ Len(tr[t].vots) = VotsPerPage =>
                             t = T /\ X2 # <<>> /\ Head(X2).op = "votsPage"
    BY DEF VotsBound, T, Dying
  <2>2. /\ Len(tr[t].vots) <= VotsPerPage
        /\ Len(tr[t].vots) = VotsPerPage => t = T /\ X # <<>> /\ Head(X).op = "votsPage"
    BY <1>1 DEF VotsBound
  <2> QED  BY <2>2
<1>11. MineOK(own, vw, A2, X2, m2)'
  <2>1. ~ Dying(A2, T)'
    BY DEF Dying
  <2>2. CASE RestPhase(own, vw, X2, m2)
    <3>1. RestPhase(own, vw, X2, m2)'
      BY <1>7, <2>2, RestSame
    <3> QED  BY <2>1, <3>1 DEF MineOK
  <2>3. CASE UncommittedPhase(own, vw, X2, m2)
    <3>1. UncommittedPhase(own, vw, X2, m2)'
      BY <1>7, <2>3, UncommittedSame
    <3> QED  BY <2>1, <3>1 DEF MineOK
  <2>4. CASE A2 = <<>> /\ WalkPhase(own, X2, m2)
    BY <1>3, <1>5, <2>4, WalkSame DEF MineOK
  <2> QED  BY <2>2, <2>3, <2>4 DEF MineOK
<1>12. /\ \A u \in Tids \ {T} : own[T] \cap own[u] = {}
       /\ DOMAIN intent'[T] \subseteq DOMAIN intent[T]
       /\ \A t \in Tids : Dying(A2, t) => own[t] \cap Tree0' = {}
       /\ call'.tid = call.tid
  BY <1>1 DEF Owners
<1> QED  BY <1>1, <1>3, <1>5, <1>6, <1>7, <1>8, <1>9, <1>10, <1>11, <1>12, Settle

LEMMA CalmAbort ==
  ASSUME NEW own \in Owned, NEW vw \in Owned,
         NEW A \in Seq(Ops), NEW X \in Seq(Ops), NEW m \in Seq(Ops),
         NEW C \in AddrSets, NEW D \in AddrSets,
         Direct, TypeInv, TreeKept, Recoverable(C, D), todo # <<>>,
         Running(own, vw, A, X, m), A # <<>>, Op.op \in {"checkpoint", "find"},
         UNCHANGED <<pages, obs, tr, call, intent>>, todo' = Rest,
         UNCHANGED <<fs, saved, marked>> \/ WriteCheckpoint
  PROVE  TransInv'
<1>1. /\ Shape(A, X, m) /\ FsOK(m) /\ MineOK(own, vw, A, X, m) /\ T \in Tids
      /\ IsAbort(A) /\ ~ InWindow(m)
  BY DEF Running, Shape
<1>2. Op = Head(A) /\ Rest = Tail(A) \o (X \o m) /\ Tail(A) \in Seq(Ops)
  <2>1. Shape(A, X, m) /\ todo # <<>>
    BY <1>1
  <2>2. \/ /\ A # <<>> /\ Op = Head(A) /\ Rest = Tail(A) \o (X \o m)
           /\ Tail(A) \in Seq(Ops)
        \/ A = <<>>
    BY <2>1, TodoParts
  <2> QED  BY <2>2
<1>3. \A t : ~ Dying(A, t)
  BY <1>2 DEF Dying
<1>4. IsAbort(Tail(A)) /\ \A t : ~ Dying(Tail(A), t)
  <2>1. \/ Head(A) = Todo("checkpoint") /\ Tail(A) # <<>> /\ Head(Tail(A)) = Todo("find")
        \/ Head(A) = Todo("find") /\ Tail(A) = <<>>
    <3>1. \A u : Head(A) # Do("delete", NoInode, u) /\ Head(A) # Do("init", NoInode, u)
      BY <1>2 DEF Do
    <3> QED  BY <1>1, <3>1, AbortParts
  <2>2. \A t : ~ Dying(Tail(A), t)
    BY <2>1, AllTodos DEF Dying
  <2> QED  BY <1>1, <2>2, AbortParts
<1>5. RestPhase(own, vw, X, m) \/ UncommittedPhase(own, vw, X, m)
  BY <1>1, <1>3 DEF MineOK
<1>6. fs.closed = EMPTY
  <2>1. SUFFICES ASSUME fs.closed # EMPTY
                 PROVE  FALSE
    OBVIOUS
  <2>2. /\ m # <<>> /\ m # kCp2 /\ m # kFind2
        /\ Head(m).op \in {"checkpoint", "walk", "find", "finish", "vots"}
    BY <1>1, <2>1, ClosedFacts
  <2>3. ASSUME RestPhase(own, vw, X, m)
        PROVE  FALSE
    <3>1. Head(kAgain(T)).op = "delete"
      <4>1. Head(kAgain(T)) = Do("delete", NoInode, T)
        BY <1>1, AbortFacts, Cat, RetFacts DEF kAgain, AbortTails
      <4> QED  BY <4>1 DEF Do
    <3> QED  BY <2>2, <2>3, <3>1, EndHeads DEF RestPhase
  <2>4. ASSUME UncommittedPhase(own, vw, X, m)
        PROVE  FALSE
    <3>1. m = kCp
      BY <2>2, <2>4, MainHead DEF UncommittedPhase
    <3> QED  BY <1>1, <3>1 DEF InWindow
  <2> QED  BY <1>5, <2>3, <2>4
<1>7. UNCHANGED <<fs, saved, marked>> \/ (WriteCheckpoint /\ fs.ino0 = Root)
  BY <1>1 DEF FsOK
<1>8. MineOK(own, vw, Tail(A), X, m)
  BY <1>4, <1>5 DEF MineOK
<1>9. m # kCp /\ todo' = Tail(A) \o (X \o m)
  BY <1>1, <1>2 DEF InWindow
<1> QED  BY <1>1, <1>2, <1>3, <1>4, <1>6, <1>7, <1>8, <1>9, CalmStep

LEMMA FindStep ==
  ASSUME Direct, TransInv, FindNextFreePage,
         IsRunning
  PROVE  TransInv'
<1>1. /\ todo # <<>> /\ Op.op = "find" /\ todo' = Rest
      /\ UNCHANGED <<pages, obs, tr, call, intent>>
      /\ UNCHANGED <<fs, saved, marked>> \/ WriteCheckpoint
  BY DEF FindNextFreePage, Doing, Kept
<1>2. PICK own \in Owned, vw \in Owned, A \in Seq(Ops), X \in Seq(Ops), m \in Seq(Ops) :
        Running(own, vw, A, X, m)
  BY DEF IsRunning
<1>3. PICK C \in AddrSets, D \in AddrSets : Recoverable(C, D)
  BY DEF TransInv
<1>4. TypeInv /\ TreeKept /\ FsOK(m) /\ <<>> \in Seq(Ops) /\ IsAbort(<<>>)
      /\ \A t : ~ Dying(<<>>, t)
  BY <1>2 DEF TransInv, Running, IsAbort, Dying
<1>5. CASE A # <<>>
  BY <1>1, <1>2, <1>3, <1>4, <1>5, CalmAbort
<1>6. CASE A = <<>> /\ X # <<>>
  <2>1. /\ T \in Tids /\ Op = Head(X) /\ Rest = <<>> \o (Tail(X) \o m) /\ Tail(X) \in Seq(Ops)
    <3>1. Shape(A, X, m) /\ todo # <<>>
      BY <1>1, <1>2 DEF Running
    <3>2. /\ T \in Tids
          /\ A # <<>> \/ X = <<>> \/ (/\ Op = Head(X) /\ Rest = A \o (Tail(X) \o m)
                                      /\ Tail(X) \in Seq(Ops))
      BY <3>1, TodoParts
    <3> QED  BY <1>6, <3>2
  <2>2. UncommittedPhase(own, vw, X, m) /\ Between(own, vw, Tail(X))
    BY <1>1, <1>2, <1>6, RunningHead
  <2>3. m \notin {kLast, kSetFs, kCp} /\ MainPhase(own, vw, m)
    BY <1>6, <2>2 DEF UncommittedPhase
  <2>4. ~ InWindow(m)
    BY <2>3 DEF InWindow
  <2>5. fs.closed = EMPTY
    <3>1. SUFFICES ASSUME fs.closed # EMPTY
                   PROVE  FALSE
      OBVIOUS
    <3>2. Head(m).op \in {"checkpoint", "walk", "find", "finish", "vots"}
      BY <1>4, <3>1, ClosedFacts
    <3> QED  BY <2>3, <3>2, MainHead
  <2>6. UNCHANGED <<fs, saved, marked>> \/ (WriteCheckpoint /\ fs.ino0 = Root)
    BY <1>1, <1>4, <2>4 DEF FsOK
  <2>7. MineOK(own, vw, <<>>, Tail(X), m)
    BY <1>4, <2>2, <2>3 DEF MineOK, UncommittedPhase
  <2>8. Running(own, vw, <<>>, X, m) /\ Head(X).op # "votsPage"
    BY <1>1, <1>2, <1>6, <2>1
  <2>9. todo' = <<>> \o (Tail(X) \o m)
    BY <1>1, <2>1
  <2> QED  BY <1>1, <1>3, <1>4, <1>6, <2>1, <2>3, <2>5, <2>6, <2>7, <2>8, <2>9, CalmStep
<1>7. CASE A = <<>> /\ X = <<>>
  <2>1. T \in Tids /\ todo = m /\ Rest = Tail(m) /\ Op = Head(m)
    BY <1>1, <1>2, <1>7, RunningHead
  <2>2. \/ RestPhase(own, vw, X, m) /\ m = kFind2
        \/ WalkPhase(own, X, m) /\ m = kFind
    <3>1. \/ RestPhase(own, vw, X, m) /\ (m = kFind2 \/ Op.op # "find")
          \/ WalkPhase(own, X, m) /\ (m = kFind \/ Op.op # "find")
          \/ Op.op # "find"
      <4>1. /\ T \in Tids /\ MineOK(own, vw, A, X, m)
        BY <1>1, <1>2, RunningHead
      <4>2. Op = Head(m)
        BY <2>1
      <4>3. RestPhase(own, vw, X, m) \/ UncommittedPhase(own, vw, X, m) \/ WalkPhase(own, X, m)
        BY <1>7, <4>1 DEF MineOK, Dying
      <4>4. UncommittedPhase(own, vw, X, m) => Op.op # "find"
        BY <4>2, MainHead DEF UncommittedPhase
      <4>5. WalkPhase(own, X, m) => m = kFind \/ Op.op # "find"
        <5>1. own[T] \cup {EMPTY} \subseteq Addr0
          BY <4>1 DEF Owned, AddrSets, Addr0
        <5> QED  BY <4>2, <5>1, EndHeads DEF WalkPhase
      <4>6. RestPhase(own, vw, X, m) => m = kFind2 \/ Op.op # "find"
        <5>1. Head(kAgain(T)) = Do("delete", NoInode, T)
          BY <4>1, AbortFacts, Cat, RetFacts DEF kAgain, AbortTails
        <5>2. Head(kAgain(T)).op = "delete"
          BY <5>1 DEF Do
        <5>3. m # <<>>
          BY <1>1, <2>1
        <5> QED  BY <4>2, <5>2, <5>3, EndHeads DEF RestPhase
      <4> QED  BY <4>3, <4>4, <4>5, <4>6
    <3> QED  BY <1>1, <3>1
  <2>3. ~ InWindow(m) /\ ~ InWindow(kRet) /\ ~ InWindow(kFinish)
    <3>1. Head(kFind2).op = "find" /\ Head(kFind).op = "find"
          /\ Head(kRet).op = "return" /\ Head(kFinish).op = "finish"
      BY EndHeads
    <3> QED  BY <2>2, <3>1, WindowFacts
  <2>4. UNCHANGED <<fs, saved, marked>> \/ (WriteCheckpoint /\ fs.ino0 = Root)
    BY <1>1, <1>4, <2>3 DEF FsOK
  <2>5. Running(own, vw, <<>>, <<>>, m)
    BY <1>2, <1>7
  <2>6. CASE RestPhase(own, vw, X, m) /\ m = kFind2
    <3>1. todo' = kRet /\ kRet \in Seq(Ops) /\ kRet # kCp
      BY <1>1, <2>1, <2>6, EndFacts, RetFacts, EndHeads
    <3>2. fs.closed = EMPTY
      BY <1>4, <2>6, ClosedFacts
    <3>3. FsOK(kRet)
      BY <1>4, <2>3, <3>1, <3>2 DEF FsOK
    <3>4. MineOK(own, vw, <<>>, <<>>, kRet)
      BY <1>4, <1>7, <2>6 DEF MineOK, RestPhase
    <3>5. todo' = <<>> \o (<<>> \o kRet)
      BY <3>1, Cat
    <3> QED  BY <1>1, <1>3, <1>4, <2>1, <2>4, <2>5, <3>1, <3>2, <3>3, <3>4, <3>5, CalmStep
  <2>7. CASE WalkPhase(own, X, m) /\ m = kFind
    <3>1. todo' = kFinish /\ kFinish \in Seq(Ops) /\ kFinish # kCp
      BY <1>1, <2>1, <2>7, EndFacts, EndHeads
    <3>2. WalkPhase(own, <<>>, m) /\ WalkPhase(own, <<>>, kFinish)
      BY <1>7, <2>7 DEF WalkPhase
    <3>3. FsOK(kFinish)
      BY <1>4, <2>3, <3>1 DEF FsOK
    <3>4. MineOK(own, vw, <<>>, <<>>, kFinish)
      BY <3>2 DEF MineOK
    <3>5. todo' = <<>> \o (<<>> \o kFinish)
      BY <3>1, Cat
    <3> QED  BY <1>1, <1>3, <1>4, <2>1, <2>4, <2>5, <3>1, <3>2, <3>3, <3>4, <3>5, CalmStep
  <2> QED  BY <2>2, <2>6, <2>7
<1> QED  BY <1>5, <1>6, <1>7

-----------------------------------------------------------------------------
(* The first checkpoint of commitTransaction().                            *)

(* What inode0 holds when it is committed.                                 *)
LEMMA CommitRef ==
  ASSUME NEW own \in Owned, NEW vw \in Owned, NEW f \in Inodes, NEW r,
         Direct, TypeInv, TreeKept, T \in Tids,
         Pass(vw, f, kLast), NewRoot(own, vw, f, r)
  PROVE  /\ r \in Addr /\ pages[r].ref \in [Inodes -> Addr0] /\ pages[r].ref[Dir] # EMPTY
         /\ \A g \in DOMAIN intent[T] : g \in Inodes /\ NewFile(own, vw, g, pages[r].ref[g])
         /\ \A g \in Inodes \ DOMAIN intent[T] : pages[r].ref[g] = Ref0[g]
         /\ \A g, h \in DOMAIN intent[T] :
              g # h => /\ call.file \in {g, h}
                       /\ pages[r].ref[g] # pages[r].ref[h]
<1>1. \/ FileCommit(f)
      \/ f = Dir /\ DirCommit
  <2>1. \A e \in Values : kLast # kDir(e)
    <3>1. \A e \in Values : Head(kDir(e)).op = "turnToDir"
      BY DirFacts DEF Todo, Do
    <3> QED  BY <3>1, EndHeads
  <2> QED  BY <2>1 DEF Pass
<1>2. r \in Addr /\ pages[r].kind = "ino0" /\ NewRef(own, vw, f, pages[r].ref)
  BY DEF NewRoot, Owned, AddrSets
<1>3. PICK ref : ref = pages[r].ref
  OBVIOUS
<1>4. PICK base \in [Inodes -> Addr0], n \in Addr0 :
        ref = [base EXCEPT ![f] = n] /\ Entered(own, vw, f, base, n)
  BY <1>2, <1>3 DEF NewRef
<1>5. /\ ref \in [Inodes -> Addr0] /\ ref[f] = n /\ \A g \in Inodes \ {f} : ref[g] = base[g]
      /\ NewFile(own, vw, f, n) /\ BaseRef(own, vw, f, base)
      /\ f = Dir => n # EMPTY /\ n # base[call.file]
  BY <1>4 DEF Entered
<1>6. Ref0 \in [Inodes -> Addr0] /\ Ref0[Dir] # EMPTY /\ Dir \in Inodes /\ Dir \notin Files
      /\ Files \subseteq Inodes
  BY TreeFacts, DirectFacts
<1>7. CASE FileCommit(f)
  <2>1. f # Dir /\ base = Ref0 /\ DOMAIN intent[T] = {f}
    BY <1>5, <1>6, <1>7 DEF FileCommit, BaseRef
  <2> QED  BY <1>2, <1>3, <1>5, <1>6, <2>1
<1>8. CASE f = Dir /\ DirCommit
  <2>1. PICK c : c = call.file
    OBVIOUS
  <2>2. c \in Inodes /\ c # Dir /\ DOMAIN intent[T] = {c, Dir}
    BY <1>6, <1>8, <2>1 DEF DirCommit
  <2>3. PICK x \in Addr0 : base = [Ref0 EXCEPT ![c] = x] /\ NewFile(own, vw, c, x)
    BY <1>5, <1>8, <2>1 DEF BaseRef
  <2>4. ref[c] = x /\ base[c] = x /\ \A g \in Inodes \ {c, Dir} : ref[g] = Ref0[g]
    BY <1>5, <1>6, <1>8, <2>2, <2>3
  <2>5. NewFile(own, vw, c, ref[c]) /\ NewFile(own, vw, Dir, ref[Dir]) /\ ref[Dir] # EMPTY
        /\ ref[Dir] # ref[c]
    BY <1>5, <1>8, <2>1, <2>3, <2>4
  <2> QED  BY <1>2, <1>3, <1>5, <1>6, <2>1, <2>2, <2>4, <2>5
<1> QED  BY <1>1, <1>7, <1>8

LEMMA CommitTree ==
  ASSUME NEW own \in Owned, NEW vw \in Owned, NEW f \in Inodes, NEW r,
         Direct, TypeInv, TreeKept, T \in Tids, LiveOwn(own, T), Votes(own, vw, T),
         Pass(vw, f, kLast), NewRoot(own, vw, f, r)
  PROVE  /\ r \in Addr /\ GoodTree(pages, r)
         /\ Tree(pages, r) \subseteq (own[T] \cup Tree0) \ vw[T]
         /\ \A a \in Tree(pages, r) : pages[a].kind \in {"ino0", "inode", "data"}
         /\ \A g \in Inodes \ DOMAIN intent[T] : pages[r].ref[g] = Ref0[g]
         /\ \A g \in Inodes :
              FileCont(pages, pages[r].ref[g]) =
                IF g \in DOMAIN intent[T] THEN intent[T][g] ELSE Cont0(g)
<1>1. PICK ref, G : ref = pages[r].ref /\ G = DOMAIN intent[T]
  OBVIOUS
<1>2. /\ r \in Addr /\ ref \in [Inodes -> Addr0] /\ ref[Dir] # EMPTY
      /\ \A g \in G : g \in Inodes /\ NewFile(own, vw, g, ref[g])
      /\ \A g \in Inodes \ G : ref[g] = Ref0[g]
      /\ \A g, h \in G : g # h => call.file \in {g, h} /\ ref[g] # ref[h]
  BY <1>1, CommitRef
<1>3. /\ own[T] \cap Tree0 = {} /\ own[T] \subseteq Addr
      /\ vw[T] \subseteq own[T] \cup {Root} \cup UNION {Pages0(g) : g \in G}
  BY <1>1 DEF LiveOwn, Votes, MayVote, Owned, AddrSets
<1>4. \A g \in Inodes \ G : /\ FilePages(pages, ref[g]) = Pages0(g)
                            /\ GoodFile(pages, ref[g])
                            /\ FileCont(pages, ref[g]) = Cont0(g)
                            /\ Pages0(g) \cap vw[T] = {}
  <2>1. SUFFICES ASSUME NEW g \in Inodes \ G
                 PROVE  /\ FilePages(pages, ref[g]) = Pages0(g)
                        /\ GoodFile(pages, ref[g])
                        /\ FileCont(pages, ref[g]) = Cont0(g)
                        /\ Pages0(g) \cap vw[T] = {}
    OBVIOUS
  <2>2. ref[g] = Ref0[g]
    BY <1>2
  <2>3. /\ FilePages(pages, Ref0[g]) = Pages0(g) /\ GoodFile(pages, Ref0[g])
        /\ FileCont(pages, Ref0[g]) = Cont0(g) /\ Pages0(g) \subseteq Tree0 \ {Root}
    BY TreeFacts
  <2>4. \A h \in G : Pages0(g) \cap Pages0(h) = {}
    BY <1>2, TreeFacts
  <2> QED  BY <1>3, <2>2, <2>3, <2>4
<1>5. \A g \in G : /\ FilePages(pages, ref[g]) \subseteq (own[T] \cup Pages0(g)) \ vw[T]
                   /\ GoodFile(pages, ref[g])
                   /\ FileCont(pages, ref[g]) = intent[T][g]
                   /\ \A a \in FilePages(pages, ref[g]) :
                        \/ a = ref[g] /\ pages[a].kind = "inode"
                        \/ pages[a].kind = "data" /\ call.file # g
  <2>1. SUFFICES ASSUME NEW g \in G
                 PROVE  /\ FilePages(pages, ref[g]) \subseteq (own[T] \cup Pages0(g)) \ vw[T]
                        /\ GoodFile(pages, ref[g])
                        /\ FileCont(pages, ref[g]) = intent[T][g]
                        /\ \A a \in FilePages(pages, ref[g]) :
                             \/ a = ref[g] /\ pages[a].kind = "inode"
                             \/ pages[a].kind = "data" /\ call.file # g
    OBVIOUS
  <2>2. NewFile(own, vw, g, ref[g])
    BY <1>2
  <2>3. PICK n : n = ref[g]
    OBVIOUS
  <2>4. CASE n = EMPTY
    BY <2>2, <2>3, <2>4 DEF NewFile, FilePages, GoodFile
  <2>5. CASE n # EMPTY
    <3>1. /\ n \in own[T] \ vw[T] /\ pages[n].kind = "inode"
          /\ Pointers(own, vw, T, pages[n].ref, g)
          /\ g = call.file => \A b \in Blocks : pages[n].ref[b] = EMPTY
      BY <2>2, <2>3, <2>5 DEF NewFile
    <3> QED  BY <2>2, <2>3, <2>5, <3>1 DEF NewFile, Pointers, FilePages, GoodFile
  <2> QED  BY <2>4, <2>5
<1>6. /\ r \in own[T] \ vw[T] /\ pages[r].kind = "ino0"
  BY DEF NewRoot
<1>7. \A g \in Inodes : FilePages(pages, ref[g]) \subseteq (own[T] \cup Pages0(g)) \ vw[T]
  BY <1>4, <1>5
<1>8. \A g \in Inodes : Pages0(g) \subseteq Tree0
  BY TreeFacts
<1>9. \A g, h \in Inodes : g # h => FilePages(pages, ref[g]) \cap FilePages(pages, ref[h]) = {}
  <2>1. SUFFICES ASSUME NEW g \in Inodes, NEW h \in Inodes, g # h
                 PROVE  FilePages(pages, ref[g]) \cap FilePages(pages, ref[h]) = {}
    OBVIOUS
  <2>2. Pages0(g) \cap Pages0(h) = {}
    BY <2>1, TreeFacts
  <2>3. CASE g \notin G \/ h \notin G
    <3>1. \/ FilePages(pages, ref[g]) = Pages0(g)
          \/ FilePages(pages, ref[h]) = Pages0(h)
      BY <1>4, <2>3
    <3> QED  BY <1>3, <1>7, <1>8, <2>2, <3>1
  <2>4. CASE g \in G /\ h \in G
    <3>1. call.file \in {g, h} /\ ref[g] # ref[h]
      BY <1>2, <2>1, <2>4
    <3> QED  BY <1>5, <2>4, <3>1
  <2> QED  BY <2>3, <2>4
<1>10. \A g \in Inodes : GoodFile(pages, ref[g])
  BY <1>4, <1>5
<1>11. GoodTree(pages, r)
  BY <1>1, <1>2, <1>6, <1>9, <1>10 DEF GoodTree
<1>12. Tree(pages, r) \subseteq (own[T] \cup Tree0) \ vw[T]
  BY <1>1, <1>6, <1>7, <1>8 DEF Tree
<1>13. \A a \in Tree(pages, r) : pages[a].kind \in {"ino0", "inode", "data"}
  <2>1. \A g \in Inodes : \A a \in Pages0(g) : pages[a].kind \in {"inode", "data"}
    BY TreeFacts
  <2>2. \A g \in Inodes : \A a \in FilePages(pages, ref[g]) : pages[a].kind \in {"inode", "data"}
    BY <1>4, <1>5, <2>1
  <2> QED  BY <1>1, <1>6, <2>2 DEF Tree
<1> QED  BY <1>1, <1>2, <1>4, <1>5, <1>11, <1>12, <1>13

(* What the checkpoint saves: the new inode0.                              *)
LEMMA CommitPoint ==
  ASSUME NEW own \in Owned, NEW vw \in Owned,
         Direct, TypeInv, TreeKept, T \in Tids, FsOK(kCp),
         UncommittedPhase(own, vw, <<>>, kCp), WriteCheckpoint, UNCHANGED pages
  PROVE  /\ Root' \in Addr /\ fs.ino0 = Root' /\ fs.closed = tr[T].prev
         /\ GoodTree(saved.pages, Root)'
         /\ Tree0' \subseteq (own[T] \cup Tree0) \ vw[T]
         /\ \A a \in Tree0' : pages[a].kind \in {"ino0", "inode", "data"}
         /\ \A g \in Inodes \ DOMAIN intent[T] : Ref0'[g] = Ref0[g] /\ Pages0(g)' = Pages0(g)
         /\ \A g \in Inodes :
              Cont0(g)' = IF g \in DOMAIN intent[T] THEN intent[T][g] ELSE Cont0(g)
<1>1. PICK r : r = call.ino0
  OBVIOUS
<1>2. fs.ino0 = r /\ fs.closed = tr[T].prev
  BY <1>1 DEF FsOK, InWindow
<1>3. PICK f \in Inodes : Pass(vw, f, kLast) /\ NewRoot(own, vw, f, r)
  <2>1. MainPhase(own, vw, kCp)
    BY DEF UncommittedPhase
  <2>2. LastPhase(own, vw, kCp)
    BY <2>1, EndHeads, MainHead
  <2> QED  BY <1>1, <2>2 DEF LastPhase
<1>4. /\ r \in Addr /\ GoodTree(pages, r)
      /\ Tree(pages, r) \subseteq (own[T] \cup Tree0) \ vw[T]
      /\ \A a \in Tree(pages, r) : pages[a].kind \in {"ino0", "inode", "data"}
      /\ \A g \in Inodes \ DOMAIN intent[T] : pages[r].ref[g] = Ref0[g]
      /\ \A g \in Inodes :
           FileCont(pages, pages[r].ref[g]) =
             IF g \in DOMAIN intent[T] THEN intent[T][g] ELSE Cont0(g)
  BY <1>3, CommitTree DEF UncommittedPhase
<1>5. PICK P : P = pages
  OBVIOUS
<1>6. saved'.pages = P /\ Root' = r
  <2>1. saved'.pages = pages /\ saved'.fs = SavedFs
    BY DEF WriteCheckpoint
  <2>2. SavedFs.ino0 = fs.ino0
    BY DEF TypeInv, FsSet, SavedFs
  <2> QED  BY <1>2, <1>5, <2>1, <2>2 DEF Root
<1>7. Ref0' = P[r].ref /\ Tree0' = Tree(P, r)
  BY <1>6 DEF Ref0, Tree0, Tree, FilePages
<1>8. \A g \in Inodes : Pages0(g)' = FilePages(P, P[r].ref[g])
                        /\ Cont0(g)' = FileCont(P, P[r].ref[g])
  BY <1>6, <1>7 DEF Pages0, Cont0, FilePages, FileCont, ContOf
<1>9. GoodTree(saved.pages, Root)'
  BY <1>4, <1>5, <1>6, GoodTreeNext
<1>10. \A g \in Inodes \ DOMAIN intent[T] : Ref0'[g] = Ref0[g] /\ Pages0(g)' = Pages0(g)
  <2>1. \A g \in Inodes : FilePages(P, Ref0[g]) = Pages0(g)
    BY <1>5, TreeFacts
  <2> QED  BY <1>4, <1>5, <1>7, <1>8, <2>1
<1> QED  BY <1>2, <1>4, <1>5, <1>6, <1>7, <1>8, <1>9, <1>10

(* Other transactions go on with the new tree: their files are the same.   *)
LEMMA OthersSurvive ==
  ASSUME NEW own, NEW vw, NEW u, TypeInv, TreeKept, UNCHANGED <<pages, obs, tr>>,
         intent'[u] = intent[u], Tree0' \cap own[u] = {}, pages[Root'].kind = "ino0",
         \A g \in DOMAIN intent[u] : Ref0'[g] = Ref0[g] /\ Pages0(g)' = Pages0(g),
         Stable(own, vw, u)
  PROVE  Stable(own, vw, u)'
<1>1. LiveOwn(own, u)'
  BY DEF Stable, LiveOwn
<1>2. CASE Unused(own, u)
  BY <1>1, <1>2 DEF Stable, Unused
<1>3. CASE InUse(own, vw, u)
  <2>1. PICK f : f = tr[u].ino
    OBVIOUS
  <2>2. f \in Files /\ DOMAIN intent[u] = {f} /\ Ref0[f] # EMPTY /\ tr[u].node = "inode"
        /\ tr[u].inoAddr = Ref0[f] /\ Root \notin vw[u]
    BY <1>3, <2>1 DEF InUse, OfFile, OpenFile
  <2>3. Ref0'[f] = Ref0[f] /\ Pages0(f)' = Pages0(f)
    BY <2>2
  <2>4. OfFile(u)'
    BY <2>1, <2>2, <2>3 DEF OfFile
  <2>5. OpenFile(own, vw, u)'
    <3>1. Pointers(own, vw, u, tr[u].ptrs, f) /\ tr[u].ptrs \in [Blocks -> Addr0]
          /\ f \in Inodes
      BY <1>3, <2>1, <2>2 DEF InUse, OpenFile, PtrsNow
    <3>2. Pointers(own, vw, u, tr[u].ptrs, f)'
      BY <3>1, <2>1, <2>3 DEF Pointers
    <3>3. PtrsNow(u)' = tr[u].ptrs
      BY <2>2 DEF PtrsNow
    <3> QED  BY <2>1, <2>2, <2>3, <3>1, <3>2, <3>3 DEF OpenFile, Pointers
  <2>6. Votes(own, vw, u)'
    <3>1. VotsOf(own, u) \subseteq vw[u] /\ VotsOf(own, u)' = VotsOf(own, u)
      BY <1>3 DEF InUse, Votes, VotsOf
    <3>2. vw[u] \subseteq own[u] \cup Pages0(f)
      BY <1>3, <2>2 DEF InUse, Votes, MayVote
    <3>3. own[u] \cup Pages0(f) \subseteq MayVote(own, u)'
      BY <2>2, <2>3 DEF MayVote
    <3> QED  BY <3>1, <3>2, <3>3 DEF Votes
  <2>7. intent'[u][f] = ContOf(pages, tr[u].ptrs)'
    BY <1>3, <2>1 DEF InUse, ContOf
  <2>8. Root' \notin vw[u]
    <3>1. vw[u] \subseteq own[u] \cup Pages0(f)
      BY <1>3, <2>2 DEF InUse, Votes, MayVote
    <3>2. \A a \in Pages0(f) : pages[a].kind \in {"inode", "data"}
      <4>1. f \in Inodes
        BY <2>2 DEF Inodes
      <4> QED  BY <4>1, TreeFacts
    <3>3. Root' \in Tree0'
      BY DEF Tree0, Tree
    <3> QED  BY <3>1, <3>2, <3>3
  <2> QED  BY <1>1, <2>1, <2>2, <2>4, <2>5, <2>6, <2>7, <2>8 DEF Stable, InUse
<1> QED  BY <1>2, <1>3 DEF Stable

(* The first checkpoint of commitTransaction() makes the transaction's     *)
(* files those of the last checkpoint.                                     *)
LEMMA CommitStep1 ==
  ASSUME NEW own \in Owned, NEW vw \in Owned,
         Direct, TypeInv, TreeKept, T \in Tids,
         Running(own, vw, <<>>, <<>>, kCp), UncommittedPhase(own, vw, <<>>, kCp),
         WriteCheckpoint, UNCHANGED <<pages, obs, tr, call>>,
         todo' = kWalk, intent' = [intent EXCEPT ![T] = NoChange]
  PROVE  TransInv'
<1>0. T' = T /\ T' \in Tids
  BY DEF T
<1>1. /\ FsOK(kCp) /\ Owners(own) /\ VotsBound(<<>>, <<>>)
      /\ \A u \in Tids \ {T} : Stable(own, vw, u)
  BY DEF Running, OthersOK, Dying
<1>2. /\ LiveOwn(own, T) /\ Votes(own, vw, T)
  BY DEF UncommittedPhase
<1>3. /\ Root' \in Addr /\ fs.ino0 = Root' /\ fs.closed = tr[T].prev
      /\ GoodTree(saved.pages, Root)'
      /\ Tree0' \subseteq (own[T] \cup Tree0) \ vw[T]
      /\ \A a \in Tree0' : pages[a].kind \in {"ino0", "inode", "data"}
      /\ \A g \in Inodes \ DOMAIN intent[T] : Ref0'[g] = Ref0[g] /\ Pages0(g)' = Pages0(g)
  BY <1>1, CommitPoint
<1>4. TypeInv' /\ fs'.ino0 = fs.ino0 /\ fs'.closed = fs.closed
      /\ saved' = [pages |-> pages, obs |-> obs, fs |-> SavedFs]
      /\ saved'.fs = fs' /\ saved'.pages = pages /\ saved'.obs = obs /\ marked' = {}
  <2>1. todo' \in Seq(Ops)
    BY EndFacts
  <2>2. intent' \in [Tids -> ChangeSet]
    <3>1. intent \in [Tids -> ChangeSet] /\ NoChange \in ChangeSet
      BY EmptyFacts DEF TypeInv
    <3> QED  BY <3>1
  <2> QED  BY <2>1, <2>2, SavedTypes
<1>5. TreeKept'
  <2>1. Tree0' \cap (obs' \cup saved'.obs \cup marked') = {}
    <3>1. own[T] \cap obs = {} /\ Tree0 \cap obs = {}
      BY <1>2 DEF LiveOwn, TreeKept
    <3> QED  BY <1>3, <1>4, <3>1
  <2> QED  BY <1>3, <1>4, <2>1 DEF TreeKept
<1>6. DOMAIN NoChange = {} /\ intent'[T] = NoChange /\ \A u \in Tids \ {T} : intent'[u] = intent[u]
  <2>1. intent \in [Tids -> ChangeSet] /\ DOMAIN NoChange = {}
    BY EmptyFacts DEF TypeInv
  <2> QED  BY <2>1
<1>7. /\ own[T] \in AddrSets
      /\ \A u \in Tids : own[u] \subseteq Addr /\ tr[u].prev \in own[u] \cup {EMPTY}
                         /\ \A a \in own[u] : pages[a].prev \in own[u] \cup {EMPTY}
      /\ \A u \in Tids \ {T} : own[u] \cap own[T] = {} /\ own[u] \cap Tree0 = {}
                               /\ DOMAIN intent[u] \cap DOMAIN intent[T] = {}
  <2>1. \A u \in Tids \ {T} : own[u] \cap Tree0 = {}
    BY <1>1 DEF Stable, LiveOwn
  <2> QED  BY <1>1, <2>1 DEF Owners, OwnChain, Owned
<1>8. \A u \in Tids \ {T} : own[u] \cap Tree0' = {}
  BY <1>3, <1>7
<1>9. PICK C, D : C = own[T] /\ D = UNION {own[u] : u \in Tids \ {T}}
  OBVIOUS
<1>10. C \in AddrSets /\ D \in AddrSets
  BY <1>7, <1>9 DEF AddrSets
<1>11. Recoverable(C, D)'
  <2>1. Closed(pages, C) /\ Closed(pages, D)
    BY <1>7, <1>9 DEF Closed
  <2>2. saved'.fs.closed \in C \cup {EMPTY}
    BY <1>3, <1>4, <1>7, <1>9
  <2>3. \A t \in Tids : saved'.fs.last[t] \in D \cup {EMPTY, saved'.fs.closed}
    <3>1. \A t \in Tids : SavedFs.last[t] = tr[t].prev
      BY DEF SavedFs, TypeInv, FsSet
    <3>2. \A t \in Tids : tr[t].prev \in D \cup {EMPTY, fs.closed}
      BY <1>3, <1>7, <1>9
    <3> QED  BY <1>4, <3>1, <3>2
  <2>4. D \cap Tree0' = {}
    BY <1>8, <1>9
  <2>5. \A a \in C : pages[a].kind = "vots" =>
          /\ a \notin Tree0'
          /\ \A i \in 1 .. Len(pages[a].ref) : pages[a].ref[i] \notin Tree0'
    BY <1>2, <1>3, <1>9 DEF Votes, VotsOf
  <2> QED  BY <1>4, <2>1, <2>2, <2>3, <2>4, <2>5 DEF Recoverable, Closed
<1>12. \A u \in Tids \ {T} : Stable(own, vw, u)'
  <2>1. SUFFICES ASSUME NEW u \in Tids \ {T}
                 PROVE  Stable(own, vw, u)'
    OBVIOUS
  <2>2. pages[Root'].kind = "ino0"
    BY <1>3, <1>4 DEF GoodTree
  <2>3. \A g \in DOMAIN intent[u] : Ref0'[g] = Ref0[g] /\ Pages0(g)' = Pages0(g)
    <3>1. DOMAIN intent[u] \subseteq Inodes
      BY DEF TypeInv, ChangeSet
    <3> QED  BY <1>3, <1>7, <3>1
  <2> QED  BY <1>1, <1>6, <1>8, <2>2, <2>3, OthersSurvive
<1>13. WalkPhase(own, <<>>, kWalk)'
  <2>1. \A a \in own[T] : pages[a].kind = "vots" =>
          /\ a \in Addr \ (Tree0' \cup UNION {own[u] : u \in Tids \ {T}})
          /\ \A i \in 1 .. Len(pages[a].ref) :
               pages[a].ref[i] \in Addr \ (Tree0' \cup UNION {own[u] : u \in Tids \ {T}})
    <3>1. SUFFICES ASSUME NEW a \in own[T], pages[a].kind = "vots"
                   PROVE  /\ a \in Addr \ (Tree0' \cup UNION {own[u] : u \in Tids \ {T}})
                          /\ \A i \in 1 .. Len(pages[a].ref) :
                               pages[a].ref[i] \in
                                 Addr \ (Tree0' \cup UNION {own[u] : u \in Tids \ {T}})
      OBVIOUS
    <3>2. a \in Addr \ (Tree0' \cup UNION {own[u] : u \in Tids \ {T}})
      BY <1>3, <1>7, <3>1
    <3>3. \A i \in 1 .. Len(pages[a].ref) : pages[a].ref[i] \in vw[T]
      BY <1>2, <3>1 DEF Votes, VotsOf
    <3>4. vw[T] \subseteq own[T] \cup Tree0
      <4>1. \A g \in DOMAIN intent[T] : Pages0(g) \subseteq Tree0
        <5>1. DOMAIN intent[T] \subseteq Inodes
          BY DEF TypeInv, ChangeSet
        <5> QED  BY <5>1, TreeFacts
      <4> QED  BY <1>2, <4>1, TreeFacts DEF Votes, MayVote
    <3>5. vw[T] \subseteq Addr
      BY DEF Owned, AddrSets
    <3> QED  BY <1>3, <1>7, <3>2, <3>3, <3>4, <3>5
  <2>2. fs'.closed = tr'[T].prev
    BY <1>3, <1>4
  <2>3. intent'[T'] = NoChange /\ fs'.closed = tr'[T'].prev
    BY <1>0, <1>6, <2>2
  <2>4. \A a \in own[T'] : pages'[a].kind = "vots" =>
          /\ a \in Addr \ (Tree0' \cup UNION {own[u] : u \in Tids \ {T'}})
          /\ \A i \in 1 .. Len(pages'[a].ref) :
               pages'[a].ref[i] \in Addr \ (Tree0' \cup UNION {own[u] : u \in Tids \ {T'}})
    BY <1>0, <2>1
  <2> QED  BY <2>3, <2>4 DEF WalkPhase, Forsaken
<1>14. Running(own, vw, <<>>, <<>>, kWalk)'
  <2>1. Shape(<<>>, <<>>, kWalk)'
    <3>1. kWalk \in Seq(Ops) /\ todo' = <<>> \o (<<>> \o kWalk)
      BY EndFacts, Cat
    <3> QED  BY <1>0, <3>1 DEF Shape, IsAbort
  <2>2. FsOK(kWalk)'
    <3>1. ~ InWindow(kWalk)' /\ kWalk # kCp
      <4>1. kWalk # kCp /\ kWalk # kLast /\ kWalk # kSetFs
        BY EndHeads
      <4> QED  BY <4>1 DEF InWindow
    <3>2. fs'.ino0 = Root'
      BY <1>3, <1>4
    <3> QED  BY <3>1, <3>2 DEF FsOK
  <2>3. VotsBound(<<>>, <<>>)'
    BY <1>1 DEF VotsBound, Dying
  <2>4. Owners(own)'
    BY <1>1, <1>6, <1>7 DEF Owners, OwnChain
  <2>5. OthersOK(own, vw, <<>>)'
    BY <1>0, <1>12 DEF OthersOK, Dying
  <2>6. MineOK(own, vw, <<>>, <<>>, kWalk)'
    BY <1>13 DEF MineOK
  <2> QED  BY <2>1, <2>2, <2>3, <2>4, <2>5, <2>6 DEF Running
<1>15. \E C2, D2 \in AddrSets : Recoverable(C2, D2)'
  BY <1>10, <1>11
<1>16. \E own2, vw2 \in Owned, A, X, m \in Seq(Ops) : Running(own2, vw2, A, X, m)'
  <2>1. <<>> \in Seq(Ops) /\ kWalk \in Seq(Ops)
    BY EndFacts
  <2> QED  BY <1>14, <2>1
<1> QED  BY <1>4, <1>5, <1>15, <1>16 DEF TransInv

LEMMA CheckpointStep ==
  ASSUME Direct, TransInv, Checkpoint,
         IsRunning
  PROVE  TransInv'
<1>1. /\ todo # <<>> /\ Op.op = "checkpoint" /\ todo' = Rest
      /\ UNCHANGED <<pages, obs, tr, call>> /\ WriteCheckpoint
      /\ intent' = IF Rest # <<>> /\ Head(Rest).op = "walk"
                   THEN [intent EXCEPT ![T] = NoChange] ELSE intent
  BY DEF Checkpoint, Doing, Kept
<1>2. PICK own \in Owned, vw \in Owned, A \in Seq(Ops), X \in Seq(Ops), m \in Seq(Ops) :
        Running(own, vw, A, X, m)
  BY DEF IsRunning
<1>3. PICK C \in AddrSets, D \in AddrSets : Recoverable(C, D)
  BY DEF TransInv
<1>4. TypeInv /\ TreeKept /\ FsOK(m) /\ <<>> \in Seq(Ops) /\ IsAbort(<<>>)
      /\ (\A t : ~ Dying(<<>>, t)) /\ Shape(A, X, m)
  BY <1>2 DEF TransInv, Running, IsAbort, Dying
<1>5. CASE A # <<>>
  <2>1. /\ Op = Head(A) /\ Rest = Tail(A) \o (X \o m) /\ Tail(A) \in Seq(Ops)
    <3>1. Shape(A, X, m) /\ todo # <<>>
      BY <1>1, <1>4
    <3>2. \/ (/\ A # <<>> /\ Op = Head(A) /\ Rest = Tail(A) \o (X \o m)
              /\ Tail(A) \in Seq(Ops))
          \/ A = <<>>
      BY <3>1, TodoParts
    <3> QED  BY <1>5, <3>2
  <2>2. Tail(A) # <<>> /\ Head(Tail(A)) = Todo("find")
    <3>1. IsAbort(A)
      BY <1>4 DEF Shape
    <3>2. PICK u \in Tids :
              \/ Head(A) = Do("delete", NoInode, u) /\ Tail(A) # <<>>
                 /\ Head(Tail(A)) = Do("init", NoInode, u)
              \/ Head(A) = Do("init", NoInode, u) /\ Tail(A) # <<>>
                 /\ Head(Tail(A)) = Todo("checkpoint")
              \/ Head(A) = Todo("checkpoint") /\ Tail(A) # <<>>
                 /\ Head(Tail(A)) = Todo("find")
              \/ Head(A) = Todo("find") /\ Tail(A) = <<>>
      BY <1>5, <3>1, AbortParts
    <3>3. /\ Do("delete", NoInode, u).op = "delete" /\ Do("init", NoInode, u).op = "init"
          /\ Todo("find").op = "find"
      BY DEF Do, Todo
    <3> QED  BY <1>1, <2>1, <3>2, <3>3
  <2>3. Head(Rest) = Todo("find")
    <3>1. X \o m \in Seq(Ops)
      BY <1>2
    <3> QED  BY <2>1, <2>2, <3>1, Cat
  <2>4. intent' = intent
    <3>1. Todo("find").op = "find"
      BY DEF Todo, Do
    <3> QED  BY <1>1, <2>3, <3>1
  <2> QED  BY <1>1, <1>2, <1>3, <1>4, <1>5, <2>4, CalmAbort
<1>6. CASE A = <<>> /\ X # <<>>
  <2>1. Op.op \in {"find", "votsPage", "vot", "prev", "mark"}
    BY <1>1, <1>2, <1>6, RunningHead
  <2> QED  BY <1>1, <2>1
<1>7. CASE A = <<>> /\ X = <<>>
  <2>1. T \in Tids /\ todo = m /\ Rest = Tail(m) /\ Op = Head(m)
    BY <1>1, <1>2, <1>7, RunningHead
  <2>2. \/ RestPhase(own, vw, X, m) /\ m = kCp2
        \/ UncommittedPhase(own, vw, X, m) /\ m = kCp
    <3>1. MineOK(own, vw, A, X, m)
      BY <2>1, <1>2 DEF Running
    <3>2. RestPhase(own, vw, X, m) \/ UncommittedPhase(own, vw, X, m) \/ WalkPhase(own, X, m)
      BY <1>7, <3>1 DEF MineOK, Dying
    <3>3. UncommittedPhase(own, vw, X, m) => m = kCp
      BY <1>1, <2>1, MainHead DEF UncommittedPhase
    <3>4. ~ WalkPhase(own, X, m)
      <4>1. own[T] \cup {EMPTY} \subseteq Addr0
        BY <2>1 DEF Owned, AddrSets, Addr0
      <4> QED  BY <1>1, <2>1, <4>1, EndHeads DEF WalkPhase
    <3>5. RestPhase(own, vw, X, m) => m = kCp2
      <4>1. Head(kAgain(T)) = Do("delete", NoInode, T)
        BY <2>1, AbortFacts, Cat, RetFacts DEF kAgain, AbortTails
      <4>2. Head(kAgain(T)).op = "delete"
        BY <4>1 DEF Do
      <4>3. m # <<>>
        BY <1>1, <2>1
      <4> QED  BY <1>1, <2>1, <4>2, <4>3, EndHeads DEF RestPhase
    <3> QED  BY <3>2, <3>3, <3>4, <3>5
  <2>3. Running(own, vw, <<>>, <<>>, m)
    BY <1>2, <1>7
  <2>4. CASE RestPhase(own, vw, X, m) /\ m = kCp2
    <3>1. Rest = kFind2 /\ kFind2 \in Seq(Ops) /\ kFind2 # kCp /\ Head(kFind2).op = "find"
      BY <2>1, <2>4, EndFacts, EndHeads
    <3>2. intent' = intent
      BY <1>1, <3>1
    <3>3. ~ InWindow(m) /\ ~ InWindow(kFind2)
      <4>1. m # <<>> /\ Head(m).op = "checkpoint" /\ m = kCp2
        BY <2>4, EndFacts, EndHeads
      <4> QED  BY <3>1, <4>1, WindowFacts
    <3>4. fs.closed = EMPTY
      BY <1>4, <2>4, ClosedFacts
    <3>5. FsOK(kFind2) /\ fs.ino0 = Root
      BY <1>4, <3>1, <3>3, <3>4 DEF FsOK
    <3>6. MineOK(own, vw, <<>>, <<>>, kFind2)
      BY <1>4, <1>7, <2>4 DEF MineOK, RestPhase
    <3>7. todo' = <<>> \o (<<>> \o kFind2)
      BY <1>1, <3>1, Cat
    <3> QED  BY <1>1, <1>3, <1>4, <2>1, <2>3, <3>1, <3>2, <3>4, <3>5, <3>6, <3>7, CalmStep
  <2>5. CASE UncommittedPhase(own, vw, X, m) /\ m = kCp
    <3>1. Rest = kWalk /\ kWalk # <<>> /\ Head(kWalk).op = "walk"
      BY <2>1, <2>5, EndFacts, EndHeads
    <3>2. intent' = [intent EXCEPT ![T] = NoChange] /\ todo' = kWalk
      BY <1>1, <3>1
    <3>3. Running(own, vw, <<>>, <<>>, kCp) /\ UncommittedPhase(own, vw, <<>>, kCp)
      BY <1>7, <2>3, <2>5
    <3> QED  BY <1>1, <1>4, <2>1, <3>2, <3>3, CommitStep1
  <2> QED  BY <2>2, <2>4, <2>5
<1> QED  BY <1>5, <1>6, <1>7

-----------------------------------------------------------------------------
(* handleTransactionVOTs() and the end of a commit.                        *)

(* Pages are marked that are in no file, or the transaction ends.          *)
WalkMove(own, vw, own2, X2, m2) ==
  /\ UNCHANGED <<pages, saved, call, intent>>
  /\ obs' \subseteq Addr /\ marked' \subseteq Addr
  /\ \A a \in obs' \cup marked' : a \in obs \cup marked \/ Forsaken(own, a)
  /\ \A u \in Tids \ {T} : \A a \in own[u] : a \in obs' => a \in obs
  /\ \A u \in Tids \ {T} : tr'[u] = tr[u] /\ own2[u] = own[u]
  /\ own2[T] \subseteq own[T] /\ OwnChain(own2, T)'
  /\ tr' \in [Tids -> TrSet] /\ fs' \in FsSet /\ todo' \in Seq(Ops)
  /\ todo' = X2 \o m2 /\ FsOK(m2)'
  /\ Len(tr'[T].vots) <= VotsPerPage /\ Len(tr'[T].vots) # VotsPerPage
  /\ MineOK(own2, vw, <<>>, X2, m2)'

LEMMA WalkSettle ==
  ASSUME NEW own \in Owned, NEW vw \in Owned, NEW own2 \in Owned,
         NEW X \in Seq(Ops), NEW m \in Seq(Ops), NEW X2 \in Seq(Ops), NEW m2 \in Seq(Ops),
         NEW C \in AddrSets, NEW D \in AddrSets,
         Direct, TypeInv, TreeKept, Recoverable(C, D), T \in Tids,
         Running(own, vw, <<>>, X, m), WalkMove(own, vw, own2, X2, m2)
  PROVE  TransInv'
<1>0. WalkMove(own, vw, own2, X2, m2)
  OBVIOUS
<1> USE <1>0 DEF WalkMove
<1>1. TypeInv'
  BY DEF TypeInv
<1>2. /\ Owners(own) /\ VotsBound(<<>>, X) /\ \A u \in Tids \ {T} : Stable(own, vw, u)
  BY DEF Running, OthersOK, Dying
<1>3. TreeKept' /\ Recoverable(C, D)'
  <2>1. PagesKept({}) /\ Tree0 \cap (obs' \cup marked') = {}
    BY DEF PagesKept, Forsaken, TreeKept
  <2> QED  BY <2>1, FlashKept
<1>4. SameTree
  BY SameSaved
<1>5. \A u \in Tids \ {T} : LeavesAlone(own, own2, vw, vw, u) /\ obs' \cap own[u] \subseteq obs
  BY <1>4 DEF LeavesAlone, PagesKept
<1>6. \A u \in Tids \ {T} : own2[T] \cap own[u] = {}
  BY <1>2 DEF Owners
<1>7. VotsBound(<<>>, X2)'
  <2>1. PICK t : t = T /\ t = T'
    BY DEF T
  <2>2. \A u \in Tids \ {t} : Len(tr'[u].vots) <= VotsPerPage /\ Len(tr'[u].vots) # VotsPerPage
    BY <1>2, <2>1 DEF VotsBound, Dying
  <2>3. Len(tr'[t].vots) <= VotsPerPage /\ Len(tr'[t].vots) # VotsPerPage
    BY <2>1
  <2> QED  BY <2>2, <2>3 DEF VotsBound
<1>8. <<>> \in Seq(Ops) /\ IsAbort(<<>>) /\ (\A t \in Tids : ~ Dying(<<>>, t))
      /\ call'.tid = call.tid /\ DOMAIN intent'[T] \subseteq DOMAIN intent[T]
  BY DEF IsAbort, Dying
<1>9. todo' = <<>> \o (X2 \o m2)
  BY Cat
<1> HIDE DEF T
<1> QED  BY <1>1, <1>2, <1>3, <1>5, <1>6, <1>7, <1>8, <1>9, Settle

LEMMA WalkTodo ==
  ASSUME Direct, TransInv, todo # <<>>, Op.op \in {"walk", "vots", "mark", "finish"},
         IsRunning
  PROVE  \E own, vw \in Owned, X, m \in Seq(Ops), C, D \in AddrSets :
           /\ Running(own, vw, <<>>, X, m) /\ WalkPhase(own, X, m)
           /\ T \in Tids /\ Recoverable(C, D) /\ TypeInv /\ TreeKept
           /\ OwnChain(own, T) /\ FsOK(m)
           /\ Len(tr[T].vots) <= VotsPerPage /\ Len(tr[T].vots) # VotsPerPage
           /\ \/ /\ X # <<>> /\ Op.op = "mark" /\ Forsaken(own, Op.a)
                 /\ Rest = Tail(X) \o m /\ Tail(X) \in Seq(Ops)
                 /\ WalkPhase(own, Tail(X), m)
              \/ /\ X = <<>> /\ Rest = Tail(m) /\ Op = Head(m)
                 /\ \/ m = kWalk /\ Op.op = "walk"
                    \/ m = kFinish /\ Op.op = "finish"
                    \/ Op.op = "vots" /\ \E a \in own[T] \cup {EMPTY} : m = kVots(a)
<1>1. PICK own \in Owned, vw \in Owned, A \in Seq(Ops), X \in Seq(Ops), m \in Seq(Ops) :
        Running(own, vw, A, X, m)
  BY DEF IsRunning
<1>2. PICK C \in AddrSets, D \in AddrSets : Recoverable(C, D)
  BY DEF TransInv
<1>3. A = <<>> /\ T \in Tids
  <2>1. T \in Tids /\ (A = <<>> \/ Op.op \in {"delete", "init", "checkpoint", "find"})
    BY <1>1, RunningHead
  <2> QED  BY <2>1
<1>4. Running(own, vw, <<>>, X, m)
  BY <1>1, <1>3
<1>5. \/ /\ X # <<>> /\ Op.op = "mark" /\ Forsaken(own, Op.a) /\ WalkPhase(own, X, m)
         /\ Rest = Tail(X) \o m /\ Tail(X) \in Seq(Ops)
         /\ WalkPhase(own, Tail(X), m)
      \/ /\ X = <<>> /\ Rest = Tail(m) /\ Op = Head(m) /\ WalkPhase(own, X, m)
         /\ \/ m = kWalk /\ Op.op = "walk"
            \/ m = kFinish /\ Op.op = "finish"
            \/ Op.op = "vots" /\ \E a \in own[T] \cup {EMPTY} : m = kVots(a)
  <2>1. CASE X # <<>>
    <3>1. /\ Rest = <<>> \o (Tail(X) \o m) /\ Tail(X) \in Seq(Ops)
          /\ \/ Op.op \in {"find", "votsPage", "vot", "prev"}
             \/ /\ WalkPhase(own, X, m) /\ WalkPhase(own, Tail(X), m)
                /\ Op.op = "mark" /\ Forsaken(own, Op.a)
      BY <1>1, <1>3, <2>1, RunningHead
    <3>2. Rest = Tail(X) \o m
      BY <3>1, Cat
    <3> QED  BY <2>1, <3>1, <3>2
  <2>2. CASE X = <<>>
    <3>1. T \in Tids /\ todo = m /\ Rest = Tail(m) /\ Op = Head(m)
      BY <1>1, <1>3, <2>2, RunningHead
    <3>2. MineOK(own, vw, A, X, m)
      BY <1>1, <1>3 DEF Running
    <3>3. RestPhase(own, vw, X, m) \/ UncommittedPhase(own, vw, X, m) \/ WalkPhase(own, X, m)
      BY <1>3, <3>2 DEF MineOK, Dying
    <3>4. ~ UncommittedPhase(own, vw, X, m)
      BY <3>1, MainHead DEF UncommittedPhase
    <3>5. ~ RestPhase(own, vw, X, m)
      <4>1. Head(kAgain(T)) = Do("delete", NoInode, T)
        BY <3>1, AbortFacts, Cat, RetFacts DEF kAgain, AbortTails
      <4>2. Head(kAgain(T)).op = "delete"
        BY <4>1 DEF Do
      <4>3. m # <<>>
        BY <3>1
      <4> QED  BY <3>1, <4>2, <4>3, EndHeads DEF RestPhase
    <3>6. WalkPhase(own, X, m)
      BY <3>3, <3>4, <3>5
    <3>7. /\ m \in {kWalk, kFind, kFinish} \cup {kVots(a) : a \in own[T] \cup {EMPTY}}
      BY <3>6 DEF WalkPhase
    <3>8. \/ m = kWalk /\ Op.op = "walk"
          \/ m = kFinish /\ Op.op = "finish"
          \/ Op.op = "vots" /\ \E a \in own[T] \cup {EMPTY} : m = kVots(a)
      <4>1. own[T] \cup {EMPTY} \subseteq Addr0
        BY <1>3 DEF Owned, AddrSets, Addr0
      <4> QED  BY <3>1, <3>7, <4>1, EndHeads
    <3> QED  BY <2>2, <3>1, <3>6, <3>8
  <2> QED  BY <2>1, <2>2
<1>6. OwnChain(own, T) /\ FsOK(m) /\ VotsBound(<<>>, X)
  BY <1>3, <1>4 DEF Running, Owners
<1>7. Len(tr[T].vots) <= VotsPerPage /\ Len(tr[T].vots) # VotsPerPage
  <2>1. X # <<>> => Head(X).op = "mark"
    <3>1. X # <<>> => 1 \in 1 .. Len(X) /\ Head(X) = X[1]
      BY EmptySeq
    <3> QED  BY <1>5, <3>1 DEF WalkPhase
  <2> QED  BY <1>3, <1>6, <2>1 DEF VotsBound, Dying
<1>8. TypeInv /\ TreeKept
  BY DEF TransInv
<1> QED  BY <1>2, <1>3, <1>4, <1>5, <1>6, <1>7, <1>8

LEMMA WalkQuiet ==
  ASSUME NEW own \in Owned, NEW vw \in Owned, NEW X \in Seq(Ops), NEW m \in Seq(Ops),
         NEW X2 \in Seq(Ops), NEW m2 \in Seq(Ops), NEW C \in AddrSets, NEW D \in AddrSets,
         Direct, TypeInv, TreeKept, Recoverable(C, D), T \in Tids,
         Running(own, vw, <<>>, X, m), WalkPhase(own, X2, m2),
         UNCHANGED <<pages, obs, saved, marked, fs, tr, call, intent>>,
         todo' = X2 \o m2, FsOK(m), m2 \in {kFind} \cup {kVots(a) : a \in Addr0},
         Head(m).op \in {"walk", "vots"}, OwnChain(own, T),
         Len(tr[T].vots) <= VotsPerPage, Len(tr[T].vots) # VotsPerPage
  PROVE  TransInv'
<1>1. todo' \in Seq(Ops)
  BY Cat
<1>2. OwnChain(own, T)'
  BY DEF OwnChain, T
<1>3. MineOK(own, vw, <<>>, X2, m2)'
  <2>1. WalkPhase(own, X2, m2)'
    <3>1. Tree0' = Tree0
      BY SameSaved DEF SameTree
    <3> QED  BY <3>1 DEF WalkPhase, Forsaken, T
  <2> QED  BY <2>1 DEF MineOK
<1>4. FsOK(m2)'
  <2>1. ~ InWindow(m) /\ ~ InWindow(m2) /\ m2 # kCp
    <3>1. Head(m2).op \in {"find", "vots"}
      BY EndHeads
    <3> QED  BY <3>1, EndHeads, WindowFacts
  <2>2. ~ InWindow(m2)'
    BY <2>1 DEF InWindow
  <2>3. fs'.ino0 = Root'
    BY <2>1 DEF FsOK, Root
  <2> QED  BY <2>1, <2>2, <2>3 DEF FsOK
<1>5. /\ obs' \subseteq Addr /\ marked' \subseteq Addr /\ tr' \in [Tids -> TrSet] /\ fs' \in FsSet
  BY DEF TypeInv
<1>6. /\ UNCHANGED <<pages, saved, call, intent>>
      /\ \A a \in obs' \cup marked' : a \in obs \cup marked \/ Forsaken(own, a)
      /\ \A u \in Tids \ {T} : \A a \in own[u] : a \in obs' => a \in obs
      /\ \A u \in Tids \ {T} : tr'[u] = tr[u] /\ own[u] = own[u]
      /\ own[T] \subseteq own[T] /\ Len(tr'[T].vots) <= VotsPerPage
      /\ Len(tr'[T].vots) # VotsPerPage
  OBVIOUS
<1>7. WalkMove(own, vw, own, X2, m2)
  BY <1>1, <1>2, <1>3, <1>4, <1>5, <1>6 DEF WalkMove
<1> QED  BY <1>7, WalkSettle

LEMMA StartWalkStep ==
  ASSUME Direct, TransInv, StartWalk,
         IsRunning
  PROVE  TransInv'
<1>1. /\ todo # <<>> /\ Op.op = "walk"
      /\ todo' = <<Do("vots", NoInode, tr[T].prev)>> \o Rest
      /\ UNCHANGED <<pages, obs, saved, marked, fs, tr, call, intent>>
  BY DEF StartWalk, Doing, Kept, flashVars
<1>2. PICK own \in Owned, vw \in Owned, X \in Seq(Ops), m \in Seq(Ops),
           C \in AddrSets, D \in AddrSets :
           /\ Running(own, vw, <<>>, X, m) /\ WalkPhase(own, X, m)
           /\ T \in Tids /\ Recoverable(C, D) /\ TypeInv /\ TreeKept
           /\ OwnChain(own, T) /\ FsOK(m)
           /\ Len(tr[T].vots) <= VotsPerPage /\ Len(tr[T].vots) # VotsPerPage
           /\ \/ /\ X # <<>> /\ Op.op = "mark" /\ Forsaken(own, Op.a)
                 /\ Rest = Tail(X) \o m /\ Tail(X) \in Seq(Ops)
                 /\ WalkPhase(own, Tail(X), m)
              \/ /\ X = <<>> /\ Rest = Tail(m) /\ Op = Head(m)
                 /\ \/ m = kWalk /\ Op.op = "walk"
                    \/ m = kFinish /\ Op.op = "finish"
                    \/ Op.op = "vots" /\ \E a \in own[T] \cup {EMPTY} : m = kVots(a)
  BY <1>1, WalkTodo
<1>3. X = <<>> /\ m = kWalk /\ Rest = kFind
  BY <1>1, <1>2, EndFacts
<1>4. PICK a \in own[T] \cup {EMPTY} : a = tr[T].prev
  BY <1>2 DEF OwnChain
<1>5. a \in Addr0
  BY <1>2, <1>4 DEF Owned, AddrSets, Addr0
<1>6. todo' = <<>> \o kVots(a) /\ kVots(a) \in Seq(Ops) /\ <<>> \in Seq(Ops)
  BY <1>1, <1>3, <1>4, <1>5, VotsFacts, Cat DEF kVots, Then
<1>7. WalkPhase(own, <<>>, kVots(a))
  BY <1>2, <1>3, <1>4 DEF WalkPhase
<1>8. Head(m).op = "walk" /\ kVots(a) \in {kFind} \cup {kVots(b) : b \in Addr0}
  BY <1>3, <1>5, EndHeads
<1> QED  BY <1>1, <1>2, <1>6, <1>7, <1>8, WalkQuiet

LEMMA WalkVotsRunning ==
  ASSUME Direct, TransInv, WalkVots,
         IsRunning
  PROVE  TransInv'
<1>1. /\ todo # <<>> /\ Op.op = "vots"
      /\ UNCHANGED <<pages, obs, saved, marked, fs, tr, call, intent>>
      /\ \/ Op.a = EMPTY /\ todo' = Rest
         \/ /\ Op.a # EMPTY /\ pages[Op.a].kind # "vots"
            /\ todo' = <<Do("vots", NoInode, pages[Op.a].prev)>> \o Rest
         \/ /\ Op.a # EMPTY /\ pages[Op.a].kind = "vots"
            /\ todo' = Marks(Append(pages[Op.a].ref, Op.a)) \o
                       <<Do("vots", NoInode, pages[Op.a].prev)>> \o Rest
  BY DEF WalkVots, Doing, Kept, flashVars
<1>2. PICK own \in Owned, vw \in Owned, X \in Seq(Ops), m \in Seq(Ops),
           C \in AddrSets, D \in AddrSets :
           /\ Running(own, vw, <<>>, X, m) /\ WalkPhase(own, X, m)
           /\ T \in Tids /\ Recoverable(C, D) /\ TypeInv /\ TreeKept
           /\ OwnChain(own, T) /\ FsOK(m)
           /\ Len(tr[T].vots) <= VotsPerPage /\ Len(tr[T].vots) # VotsPerPage
           /\ \/ /\ X # <<>> /\ Op.op = "mark" /\ Forsaken(own, Op.a)
                 /\ Rest = Tail(X) \o m /\ Tail(X) \in Seq(Ops)
                 /\ WalkPhase(own, Tail(X), m)
              \/ /\ X = <<>> /\ Rest = Tail(m) /\ Op = Head(m)
                 /\ \/ m = kWalk /\ Op.op = "walk"
                    \/ m = kFinish /\ Op.op = "finish"
                    \/ Op.op = "vots" /\ \E a \in own[T] \cup {EMPTY} : m = kVots(a)
  BY <1>1, WalkTodo
<1>3. PICK a \in own[T] \cup {EMPTY} : m = kVots(a)
  BY <1>1, <1>2
<1>4. X = <<>> /\ Rest = Tail(m) /\ Op = Head(m)
  BY <1>1, <1>2
<1>5. a \in Addr0 /\ (a # EMPTY => a \in Addr) /\ own[T] \subseteq Addr
  BY <1>2 DEF Owned, AddrSets, Addr0
<1>6. Op.a = a /\ Rest = kFind /\ Head(m).op = "vots"
  <2>1. Tail(kVots(a)) = kFind
    BY <1>5, VotsFacts
  <2>2. Head(kVots(a)).op = "vots" /\ Head(kVots(a)).a = a
    BY <1>5, EndHeads
  <2> QED  BY <1>3, <1>4, <2>1, <2>2
<1>7. <<>> \in Seq(Ops) /\ kFind \in Seq(Ops)
  BY EndFacts
<1>8. CASE a = EMPTY
  <2>1. todo' = <<>> \o kFind
    BY <1>1, <1>6, <1>7, <1>8, Cat
  <2>2. WalkPhase(own, <<>>, kFind)
    BY <1>2 DEF WalkPhase
  <2>3. kFind \in {kFind} \cup {kVots(b) : b \in Addr0}
    OBVIOUS
  <2> QED  BY <1>1, <1>2, <1>6, <1>7, <2>1, <2>2, <2>3, WalkQuiet
<1>9. CASE a # EMPTY
  <2>1. PICK p \in own[T] \cup {EMPTY} : p = pages[a].prev
    BY <1>2, <1>9 DEF OwnChain
  <2>2. p \in Addr0 /\ a \in Addr
    BY <1>5, <1>9, <2>1 DEF Addr0
  <2>3. kVots(p) \in Seq(Ops) /\ kVots(p) = <<Do("vots", NoInode, p)>> \o kFind
        /\ kVots(p) \in {kFind} \cup {kVots(b) : b \in Addr0}
    BY <2>2, VotsFacts DEF kVots, Then
  <2>4. CASE pages[a].kind # "vots"
    <3>1. todo' = <<>> \o kVots(p)
      <4>1. todo' = <<Do("vots", NoInode, p)>> \o kFind
        BY <1>1, <1>6, <1>9, <2>1, <2>4
      <4> QED  BY <1>7, <2>3, <4>1, Cat
    <3>2. WalkPhase(own, <<>>, kVots(p))
      BY <1>2 DEF WalkPhase
    <3> QED  BY <1>1, <1>2, <1>6, <1>7, <2>3, <3>1, <3>2, WalkQuiet
  <2>5. CASE pages[a].kind = "vots"
    <3>1. PICK s : s = Append(pages[a].ref, a)
      OBVIOUS
    <3>2. pages[a].ref \in Seq(Addr)
      BY <1>2, <2>2, <2>5, PageTypes DEF TypeInv
    <3>3. s \in Seq(Addr) /\ \A i \in 1 .. Len(s) : Forsaken(own, s[i])
      <4>1. /\ Forsaken(own, a)
            /\ \A i \in 1 .. Len(pages[a].ref) : Forsaken(own, pages[a].ref[i])
        BY <1>2, <1>9, <2>5 DEF WalkPhase
      <4>2. PICK w \in Seq(Addr) : w = pages[a].ref
        BY <3>2
      <4>3. Append(w, a) \in Seq(Addr) /\ Len(Append(w, a)) = Len(w) + 1
        BY <2>2
      <4>4. \A i \in 1 .. Len(w) + 1 :
              Append(w, a)[i] = IF i = Len(w) + 1 THEN a ELSE w[i]
        BY <2>2
      <4>5. Len(w) \in Nat
        OBVIOUS
      <4>6. \A i \in 1 .. Len(w) + 1 : i \in 1 .. Len(w) \/ i = Len(w) + 1
        BY <4>5
      <4> HIDE DEF Forsaken
      <4>7. s \in Seq(Addr) /\ Len(s) = Len(w) + 1
            /\ \A i \in 1 .. Len(w) + 1 : s[i] = IF i = Len(w) + 1 THEN a ELSE w[i]
        BY <3>1, <4>2, <4>3, <4>4
      <4> QED  BY <4>1, <4>2, <4>6, <4>7
    <3>4. PICK Y : Y = Marks(s)
      OBVIOUS
    <3>5. /\ Y \in Seq(Ops) /\ Len(Y) = Len(s)
          /\ \A i \in 1 .. Len(Y) : Y[i].op = "mark" /\ Forsaken(own, Y[i].a)
      <4>1. \A i \in 1 .. Len(s) : s[i] \in Addr /\ Len(s) \in Nat
        BY <3>3
      <4>2. \A b \in Addr : /\ Do("mark", NoInode, b) \in Ops
                            /\ Do("mark", NoInode, b).op = "mark"
                            /\ Do("mark", NoInode, b).a = b
        BY DEF Do, Ops, OpNames, Names, Addr0
      <4>3. Y = [i \in 1 .. Len(s) |-> Do("mark", NoInode, s[i])] /\ Len(s) \in Nat
        BY <3>3, <3>4 DEF Marks
      <4>4. Y \in [1 .. Len(s) -> Ops]
        BY <4>1, <4>2, <4>3
      <4>5. Y \in Seq(Ops) /\ Len(Y) = Len(s)
        BY <4>3, <4>4
      <4>6. \A i \in 1 .. Len(s) : Y[i] = Do("mark", NoInode, s[i])
        BY <4>3
      <4> QED  BY <3>3, <4>1, <4>2, <4>5, <4>6
    <3>6. todo' = Y \o kVots(p)
      <4>1. todo' = (Y \o <<Do("vots", NoInode, p)>>) \o kFind
        BY <1>1, <1>6, <1>9, <2>1, <2>5, <3>1, <3>4
      <4>2. <<Do("vots", NoInode, p)>> \in Seq(Ops)
        <5>1. Do("vots", NoInode, p) \in Ops
          BY <2>2 DEF Do, Ops, OpNames, Names
        <5> QED  BY <5>1
      <4>3. PICK one \in Seq(Ops) : one = <<Do("vots", NoInode, p)>>
        BY <4>2
      <4>4. Y \in Seq(Ops) /\ kFind \in Seq(Ops)
        BY <1>7, <3>5
      <4>5. (Y \o one) \o kFind = Y \o (one \o kFind)
        <5>1. PICK y \in Seq(Ops), k \in Seq(Ops) : y = Y /\ k = kFind
          BY <4>4
        <5>2. (y \o one) \o k = y \o (one \o k)
          BY CatThree
        <5> QED  BY <5>1, <5>2
      <4>6. kVots(p) = one \o kFind
        BY <2>3, <4>3
      <4>7. todo' = (Y \o one) \o kFind
        BY <4>1, <4>3
      <4> QED  BY <4>5, <4>6, <4>7
    <3>7. WalkPhase(own, Y, kVots(p))
      BY <1>2, <3>5 DEF WalkPhase
    <3> QED  BY <1>1, <1>2, <1>6, <2>3, <3>5, <3>6, <3>7, WalkQuiet
  <2> QED  BY <2>4, <2>5
<1> QED  BY <1>8, <1>9

LEMMA MarkRunning ==
  ASSUME Direct, TransInv, MarkVot,
         IsRunning
  PROVE  TransInv'
<1>1. /\ todo # <<>> /\ Op.op = "mark" /\ todo' = Rest
      /\ obs' = obs \cup {Op.a} /\ marked' = marked \cup {Op.a}
      /\ UNCHANGED <<pages, saved, fs, tr, call, intent>>
  BY DEF MarkVot, Doing, Kept, Mark
<1>2. PICK own \in Owned, vw \in Owned, X \in Seq(Ops), m \in Seq(Ops),
           C \in AddrSets, D \in AddrSets :
           /\ Running(own, vw, <<>>, X, m) /\ WalkPhase(own, X, m)
           /\ T \in Tids /\ Recoverable(C, D) /\ TypeInv /\ TreeKept
           /\ OwnChain(own, T) /\ FsOK(m)
           /\ Len(tr[T].vots) <= VotsPerPage /\ Len(tr[T].vots) # VotsPerPage
           /\ \/ /\ X # <<>> /\ Op.op = "mark" /\ Forsaken(own, Op.a)
                 /\ Rest = Tail(X) \o m /\ Tail(X) \in Seq(Ops)
                 /\ WalkPhase(own, Tail(X), m)
              \/ /\ X = <<>> /\ Rest = Tail(m) /\ Op = Head(m)
                 /\ \/ m = kWalk /\ Op.op = "walk"
                    \/ m = kFinish /\ Op.op = "finish"
                    \/ Op.op = "vots" /\ \E a \in own[T] \cup {EMPTY} : m = kVots(a)
  BY <1>1, WalkTodo
<1>3. /\ Forsaken(own, Op.a) /\ Rest = Tail(X) \o m /\ Tail(X) \in Seq(Ops)
      /\ WalkPhase(own, Tail(X), m)
  BY <1>1, <1>2
<1>4. PICK a \in Addr : a = Op.a /\ Forsaken(own, a)
  BY <1>3 DEF Forsaken
<1>20. PICK Y \in Seq(Ops) : Y = Tail(X)
  BY <1>3
<1>5. todo' = Y \o m /\ todo' \in Seq(Ops)
  BY <1>1, <1>3, <1>20, Cat
<1>6. OwnChain(own, T)'
  BY <1>1, <1>2 DEF OwnChain, T
<1>7. MineOK(own, vw, <<>>, Y, m)'
  <2>1. WalkPhase(own, Y, m)'
    <3>1. Tree0' = Tree0
      BY <1>1, SameSaved DEF SameTree
    <3> QED  BY <1>1, <1>3, <1>20, <3>1 DEF WalkPhase, Forsaken, T
  <2> QED  BY <2>1 DEF MineOK
<1>8. FsOK(m)'
  BY <1>1, <1>2 DEF FsOK, InWindow, Root, T
<1>9. /\ obs' \subseteq Addr /\ marked' \subseteq Addr /\ tr' \in [Tids -> TrSet] /\ fs' \in FsSet
  BY <1>1, <1>2, <1>4 DEF TypeInv
<1>10. /\ UNCHANGED <<pages, saved, call, intent>>
       /\ \A b \in obs' \cup marked' : b \in obs \cup marked \/ Forsaken(own, b)
       /\ \A u \in Tids \ {T} : \A b \in own[u] : b \in obs' => b \in obs
       /\ \A u \in Tids \ {T} : tr'[u] = tr[u] /\ own[u] = own[u]
       /\ own[T] \subseteq own[T] /\ Len(tr'[T].vots) <= VotsPerPage
       /\ Len(tr'[T].vots) # VotsPerPage
  <2>1. \A u \in Tids \ {T} : a \notin own[u]
    BY <1>4 DEF Forsaken
  <2> QED  BY <1>1, <1>2, <1>4, <2>1
<1>11. /\ Running(own, vw, <<>>, X, m) /\ T \in Tids /\ Recoverable(C, D)
       /\ TypeInv /\ TreeKept
  BY <1>2, <1>3
<1>12. WalkMove(own, vw, own, Y, m)
  BY <1>5, <1>6, <1>7, <1>8, <1>9, <1>10 DEF WalkMove
<1> QED  BY <1>11, <1>12, WalkSettle

LEMMA FinishStep ==
  ASSUME Direct, TransInv, Finish,
         IsRunning
  PROVE  TransInv'
<1>1. /\ todo # <<>> /\ Op.op = "finish" /\ todo' = Rest
      /\ tr' = [tr EXCEPT ![T] = EmptyTr]
      /\ fs' = [fs EXCEPT !.closed = EMPTY, !.last[T] = EMPTY]
      /\ UNCHANGED <<pages, obs, saved, marked, call, intent>>
  BY DEF Finish, Doing, Kept, flashVars
<1>2. PICK own \in Owned, vw \in Owned, X \in Seq(Ops), m \in Seq(Ops),
           C \in AddrSets, D \in AddrSets :
           /\ Running(own, vw, <<>>, X, m) /\ WalkPhase(own, X, m)
           /\ T \in Tids /\ Recoverable(C, D) /\ TypeInv /\ TreeKept
           /\ OwnChain(own, T) /\ FsOK(m)
           /\ Len(tr[T].vots) <= VotsPerPage /\ Len(tr[T].vots) # VotsPerPage
           /\ \/ /\ X # <<>> /\ Op.op = "mark" /\ Forsaken(own, Op.a)
                 /\ Rest = Tail(X) \o m /\ Tail(X) \in Seq(Ops)
                 /\ WalkPhase(own, Tail(X), m)
              \/ /\ X = <<>> /\ Rest = Tail(m) /\ Op = Head(m)
                 /\ \/ m = kWalk /\ Op.op = "walk"
                    \/ m = kFinish /\ Op.op = "finish"
                    \/ Op.op = "vots" /\ \E a \in own[T] \cup {EMPTY} : m = kVots(a)
  BY <1>1, WalkTodo
<1>3. X = <<>> /\ m = kFinish /\ Rest = kCp2
  BY <1>1, <1>2, EndFacts
<1>4. kCp2 \in Seq(Ops) /\ <<>> \in Seq(Ops) /\ todo' = <<>> \o kCp2 /\ todo' \in Seq(Ops)
  BY <1>1, <1>3, EndFacts, Cat
<1>5. PICK own2 : own2 = [own EXCEPT ![T] = {}]
  OBVIOUS
<1>6. own2 \in Owned /\ own2[T] = {} /\ \A u \in Tids \ {T} : own2[u] = own[u]
  BY <1>2, <1>5 DEF Owned, AddrSets
<1>7. /\ tr' \in [Tids -> TrSet] /\ tr'[T] = EmptyTr /\ \A u \in Tids \ {T} : tr'[u] = tr[u]
  <2>1. tr \in [Tids -> TrSet] /\ EmptyTr \in TrSet
    BY <1>2, EmptyFacts DEF TypeInv
  <2> QED  BY <1>1, <1>2, <2>1
<1>8. fs' \in FsSet /\ fs'.ino0 = fs.ino0 /\ fs'.closed = EMPTY
  <2>1. fs \in FsSet
    BY <1>2 DEF TypeInv
  <2> QED  BY <1>1, <1>2, <2>1 DEF FsSet, Addr0
<1>9. EmptyTr.prev = EMPTY /\ EmptyTr.vots = <<>> /\ Len(<<>>) = 0 /\ VotsPerPage \in Nat \ {0}
  BY TransactionsAssumption DEF EmptyTr
<1>10. PICK t \in Tids : t = T /\ t = T'
  BY <1>1, <1>2 DEF T
<1>11. OwnChain(own2, T)'
  BY <1>6, <1>7, <1>9, <1>10 DEF OwnChain
<1>12. FsOK(kCp2)'
  <2>1. Head(kFinish).op = "finish" /\ Head(kCp2).op = "checkpoint" /\ kCp2 # kCp
        /\ Head(kCp).op = "checkpoint" /\ Head(kLast).op = "lastVots"
        /\ Head(kSetFs).op = "setFs"
    BY EndHeads
  <2>2. fs.ino0 = Root
    BY <1>2, <1>3, <2>1 DEF FsOK, InWindow
  <2>3. ~ InWindow(kCp2)'
    BY <2>1 DEF InWindow
  <2> QED  BY <1>1, <1>8, <2>1, <2>2, <2>3 DEF FsOK, Root
<1>13. MineOK(own2, vw, <<>>, <<>>, kCp2)'
  <2>1. intent'[T] = NoChange
    BY <1>1, <1>2 DEF WalkPhase
  <2>2. Stable(own2, vw, t)'
    BY <1>6, <1>7, <1>10, <2>1 DEF Stable, Unused, LiveOwn
  <2>3. Stable(own2, vw, T)'
    BY <1>10, <2>2, AtT
  <2>4. RestPhase(own2, vw, <<>>, kCp2)'
    BY <2>3 DEF RestPhase
  <2> QED  BY <2>4 DEF MineOK, Dying
<1>14. /\ UNCHANGED <<pages, saved, call, intent>>
       /\ obs' \subseteq Addr /\ marked' \subseteq Addr
       /\ \A b \in obs' \cup marked' : b \in obs \cup marked \/ Forsaken(own, b)
       /\ \A u \in Tids \ {T} : \A b \in own[u] : b \in obs' => b \in obs
       /\ \A u \in Tids \ {T} : tr'[u] = tr[u] /\ own2[u] = own[u]
       /\ own2[T] \subseteq own[T] /\ Len(tr'[T].vots) <= VotsPerPage
       /\ Len(tr'[T].vots) # VotsPerPage
  BY <1>1, <1>2, <1>6, <1>7, <1>9 DEF TypeInv
<1>15. /\ Running(own, vw, <<>>, X, m) /\ T \in Tids /\ Recoverable(C, D)
       /\ TypeInv /\ TreeKept
  BY <1>2
<1>16. own2 \in Owned /\ tr' \in [Tids -> TrSet] /\ fs' \in FsSet
  BY <1>6, <1>7, <1>8
<1>17. PICK k \in Seq(Ops), X2 \in Seq(Ops) : k = kCp2 /\ X2 = <<>>
  BY <1>4
<1>18. todo' = X2 \o k /\ FsOK(k)' /\ MineOK(own2, vw, <<>>, X2, k)'
  BY <1>4, <1>12, <1>13, <1>17
<1>19. WalkMove(own, vw, own2, X2, k)
  BY <1>4, <1>11, <1>14, <1>16, <1>18 DEF WalkMove
<1> QED  BY <1>15, <1>16, <1>19, WalkSettle

-----------------------------------------------------------------------------
(* Between calls.                                                          *)

AtRest(own, vw) ==
  /\ todo = <<>> /\ fs.ino0 = Root /\ fs.closed = EMPTY
  /\ \A t \in Tids : OwnChain(own, t) /\ Stable(own, vw, t)
  /\ \A t \in Tids : Len(tr[t].vots) <= VotsPerPage /\ Len(tr[t].vots) # VotsPerPage
  /\ \A t, u \in Tids : t # u => /\ own[t] \cap own[u] = {}
                                 /\ DOMAIN intent[t] \cap DOMAIN intent[u] = {}

LEMMA RestRuns ==
  ASSUME NEW own \in Owned, NEW vw \in Owned, AtRest(own, vw)
  PROVE  Running(own, vw, <<>>, <<>>, <<>>)
<1>1. <<>> \o (<<>> \o <<>>) = <<>> /\ <<>> \in Seq(Ops)
  BY Cat
<1>2. ~ InWindow(<<>>) /\ <<>> # kCp
  BY EndFacts DEF InWindow
<1>3. Shape(<<>>, <<>>, <<>>)
  BY <1>1 DEF AtRest, Shape, IsAbort
<1>4. FsOK(<<>>)
  BY <1>2 DEF AtRest, FsOK
<1>5. VotsBound(<<>>, <<>>)
  BY DEF AtRest, VotsBound
<1>6. Owners(own)
  BY DEF AtRest, Owners
<1>7. OthersOK(own, vw, <<>>)
  BY DEF AtRest, OthersOK, Dying
<1>8. T \in Tids => MineOK(own, vw, <<>>, <<>>, <<>>)
  BY DEF AtRest, MineOK, RestPhase, Dying
<1> QED  BY <1>3, <1>4, <1>5, <1>6, <1>7, <1>8 DEF Running

LEMMA RestRunsNext ==
  ASSUME NEW own \in Owned, NEW vw \in Owned, AtRest(own, vw)'
  PROVE  Running(own, vw, <<>>, <<>>, <<>>)'
<1>1. <<>> \o (<<>> \o <<>>) = <<>> /\ <<>> \in Seq(Ops)
  BY Cat
<1>2. ~ InWindow(<<>>)' /\ <<>> # kCp
  BY EndFacts DEF InWindow
<1>3. Shape(<<>>, <<>>, <<>>)'
  BY <1>1 DEF AtRest, Shape, IsAbort
<1>4. FsOK(<<>>)'
  BY <1>2 DEF AtRest, FsOK
<1>5. VotsBound(<<>>, <<>>)'
  BY DEF AtRest, VotsBound
<1>6. Owners(own)'
  BY DEF AtRest, Owners
<1>7. OthersOK(own, vw, <<>>)'
  BY DEF AtRest, OthersOK, Dying
<1>8. T' \in Tids => MineOK(own, vw, <<>>, <<>>, <<>>)'
  <2>1. PICK t : t = T'
    OBVIOUS
  <2>2. t \in Tids => Stable(own, vw, t)'
    BY DEF AtRest
  <2>3. t \in Tids => Stable(own, vw, T)'
    BY <2>1, <2>2, AtT
  <2> QED  BY <2>1, <2>3 DEF MineOK, RestPhase, Dying
<1> QED  BY <1>3, <1>4, <1>5, <1>6, <1>7, <1>8 DEF Running

LEMMA RestNext ==
  ASSUME NEW own \in Owned, NEW vw \in Owned, NEW C \in AddrSets, NEW D \in AddrSets,
         TypeInv', TreeKept', Recoverable(C, D)', AtRest(own, vw)'
  PROVE  TransInv'
<1>1. Running(own, vw, <<>>, <<>>, <<>>)' /\ <<>> \in Seq(Ops)
  BY RestRunsNext
<1> QED  BY <1>1 DEF TransInv

(* The call returns.                                                       *)
LEMMA ReturnStep ==
  ASSUME Direct, TransInv, Return, IsRunning
  PROVE  TransInv'
<1>1. /\ todo # <<>> /\ Op.op = "return" /\ todo' = <<>> /\ call' = NoCall
      /\ UNCHANGED <<pages, obs, saved, marked, fs, tr, intent>>
  BY DEF Return, Doing, Kept, flashVars
<1>2. PICK own \in Owned, vw \in Owned, A \in Seq(Ops), X \in Seq(Ops), m \in Seq(Ops) :
        Running(own, vw, A, X, m)
  BY DEF IsRunning
<1>3. PICK C \in AddrSets, D \in AddrSets : Recoverable(C, D)
  BY DEF TransInv
<1>4. TypeInv /\ TreeKept /\ FsOK(m) /\ MineOK(own, vw, A, X, m) /\ T \in Tids
      /\ OthersOK(own, vw, A) /\ Owners(own) /\ VotsBound(A, X)
  <2>1. T \in Tids
    BY <1>1, <1>2, RunningHead
  <2> QED  BY <1>2, <2>1 DEF TransInv, Running
<1>5. A = <<>> /\ X = <<>> /\ m = kRet
  <2>1. A = <<>> \/ Op.op \in {"delete", "init", "checkpoint", "find"}
    BY <1>1, <1>2, RunningHead
  <2>2. A = <<>>
    BY <1>1, <2>1
  <2>3. X = <<>> \/ Op.op \in {"find", "votsPage", "vot", "prev", "mark"}
    BY <1>1, <1>2, <2>2, RunningHead
  <2>4. X = <<>>
    BY <1>1, <2>3
  <2>5. m # <<>> /\ Op = Head(m)
    BY <1>1, <1>2, <2>2, <2>4, RunningHead
  <2>6. RestPhase(own, vw, X, m) \/ UncommittedPhase(own, vw, X, m) \/ WalkPhase(own, X, m)
    BY <1>4, <2>2 DEF MineOK, Dying
  <2>7. UncommittedPhase(own, vw, X, m) => m = kRet
    BY <1>1, <2>5, MainHead DEF UncommittedPhase
  <2>8. RestPhase(own, vw, X, m) => m = kRet
    <3>1. Head(kAgain(T)) = Do("delete", NoInode, T)
      BY <1>4, AbortFacts, Cat, RetFacts DEF kAgain, AbortTails
    <3>2. Head(kAgain(T)).op = "delete"
      BY <3>1 DEF Do
    <3> QED  BY <1>1, <2>5, <3>2, EndHeads DEF RestPhase
  <2>9. ~ WalkPhase(own, X, m)
    <3>1. own[T] \cup {EMPTY} \subseteq Addr0
      BY <1>4 DEF Owned, AddrSets, Addr0
    <3> QED  BY <1>1, <2>5, <3>1, EndHeads DEF WalkPhase
  <2> QED  BY <2>2, <2>4, <2>6, <2>7, <2>8, <2>9
<1>6. \A t \in Tids : Stable(own, vw, t)
  <2>1. Stable(own, vw, T)
    <3>1. RestPhase(own, vw, X, m) \/ UncommittedPhase(own, vw, X, m) \/ WalkPhase(own, X, m)
      BY <1>4, <1>5 DEF MineOK, Dying
    <3>2. ~ WalkPhase(own, X, m)
      <4>1. own[T] \cup {EMPTY} \subseteq Addr0
        BY <1>4 DEF Owned, AddrSets, Addr0
      <4> QED  BY <1>5, <4>1, EndHeads DEF WalkPhase
    <3>3. ASSUME UncommittedPhase(own, vw, X, m) PROVE Stable(own, vw, T)
      <4>1. WrittenPhase(own, vw, m)
        <5>1. MainPhase(own, vw, m) /\ Head(m).op = "return"
          BY <1>5, <3>3, EndHeads DEF UncommittedPhase
        <5> QED  BY <5>1, MainHead
      <4> QED  BY <3>3, <4>1 DEF WrittenPhase, UncommittedPhase, Stable
    <3> QED  BY <3>1, <3>2, <3>3 DEF RestPhase
  <2> QED  BY <1>4, <1>5, <2>1 DEF OthersOK, Dying
<1>7. fs.closed = EMPTY /\ fs.ino0 = Root
  <2>1. Head(m).op = "return"
    BY <1>5, EndHeads
  <2> QED  BY <1>4, <2>1, ClosedFacts, WindowFacts DEF FsOK
<1>8. TypeInv' /\ TreeKept' /\ Recoverable(C, D)'
  <2>1. TypeInv'
    <3>1. NoCall \in CallSet
      BY DEF NoCall, CallSet, Addr0, EMPTY, NoInode
    <3>2. <<>> \in Seq(Ops)
      OBVIOUS
    <3> QED  BY <1>1, <1>4, <3>1, <3>2 DEF TypeInv
  <2>2. PagesKept({}) /\ Tree0 \cap (obs' \cup marked') = {}
    BY <1>1, <1>4 DEF PagesKept, TreeKept
  <2> QED  BY <1>1, <1>3, <1>4, <2>1, <2>2, FlashKept
<1>9. AtRest(own, vw)'
  <2>1. SameTree
    BY <1>1, SameSaved
  <2>2. \A t \in Tids : Stable(own, vw, t)'
    <3>1. SUFFICES ASSUME NEW t \in Tids PROVE Stable(own, vw, t)'
      OBVIOUS
    <3>2. LeavesAlone(own, own, vw, vw, t) /\ obs' \cap own[t] \subseteq obs
      BY <1>1, <2>1 DEF LeavesAlone, PagesKept
    <3> QED  BY <1>4, <1>6, <3>2, StableKept
  <2>3. \A t \in Tids : Len(tr[t].vots) <= VotsPerPage /\ Len(tr[t].vots) # VotsPerPage
    BY <1>4, <1>5 DEF VotsBound, Dying
  <2>4. fs'.ino0 = Root' /\ fs'.closed = EMPTY
    BY <1>1, <1>7, <2>1 DEF SameTree
  <2> QED  BY <1>1, <1>4, <2>2, <2>3, <2>4 DEF AtRest, Owners, OwnChain
<1> QED  BY <1>8, <1>9, RestNext

-----------------------------------------------------------------------------
(* A power failure, and the boot.                                          *)

LEMMA BootRuns ==
  ASSUME NEW C \in AddrSets, NEW D \in AddrSets, NEW Y \in Seq(Ops),
         TypeInv', TreeKept', Recoverable(C, D)', BootingFrom(C, D, Y)'
  PROVE  TransInv'
BY DEF TransInv

LEMMA BootProgram ==
  ASSUME NEW C, NEW dels, dels = [t \in 1 .. Cardinality(Tids) |-> Do("bootDelete", NoInode, t - 1)]
  PROVE  /\ <<Todo("find"), Todo("bootVots")>> \o dels \in Seq(Ops)
         /\ BootOps(C, <<Todo("find"), Todo("bootVots")>> \o dels)
<1>1. PICK n \in Nat : n = Cardinality(Tids) /\ Tids = 0 .. n - 1
  BY TransactionsAssumption, FS_CardinalityType
<1>2. \A t \in 1 .. n : /\ t - 1 \in Tids /\ Do("bootDelete", NoInode, t - 1) \in Ops
                        /\ Do("bootDelete", NoInode, t - 1).op = "bootDelete"
                        /\ Do("bootDelete", NoInode, t - 1).a = t - 1
  <2>1. SUFFICES ASSUME NEW t \in 1 .. n
                 PROVE  /\ t - 1 \in Tids /\ Do("bootDelete", NoInode, t - 1) \in Ops
                        /\ Do("bootDelete", NoInode, t - 1).op = "bootDelete"
                        /\ Do("bootDelete", NoInode, t - 1).a = t - 1
    OBVIOUS
  <2>2. t - 1 \in Tids
    <3>1. t \in Nat /\ 1 <= t /\ t <= n
      BY <2>1
    <3>2. t - 1 \in 0 .. n - 1
      BY <3>1
    <3> QED  BY <1>1, <3>2
  <2>3. PICK u \in Tids : u = t - 1
    BY <2>2
  <2>4. u \in Args /\ NoInode \in Names /\ "bootDelete" \in OpNames
    BY DEF Args, Names, OpNames
  <2>5. /\ Do("bootDelete", NoInode, u) \in Ops
        /\ Do("bootDelete", NoInode, u).op = "bootDelete"
        /\ Do("bootDelete", NoInode, u).a = u
    BY <2>4, DoFacts
  <2> QED  BY <2>3, <2>5
<1>3. dels \in Seq(Ops) /\ Len(dels) = n
      /\ \A i \in 1 .. n : dels[i] = Do("bootDelete", NoInode, i - 1)
  <2>1. dels = [t \in 1 .. n |-> Do("bootDelete", NoInode, t - 1)]
    BY <1>1
  <2>2. dels \in [1 .. n -> Ops]
    BY <1>2, <2>1
  <2>3. dels \in Seq(Ops)
    BY <1>1, <2>2
  <2>4. Len(dels) = n
    BY <1>1, <2>2, <2>3
  <2> QED  BY <2>1, <2>3, <2>4
<1>4. Todo("find") \in Ops /\ Todo("bootVots") \in Ops
      /\ Todo("find").op = "find" /\ Todo("bootVots").op = "bootVots"
  BY AllTodos
<1>5. PICK h \in Seq(Ops) : h = <<Todo("find"), Todo("bootVots")>> /\ Len(h) = 2
                            /\ h[1] = Todo("find") /\ h[2] = Todo("bootVots")
  <2>1. PICK x \in Ops, y \in Ops : x = Todo("find") /\ y = Todo("bootVots")
    BY <1>4
  <2>2. <<x, y>> \in Seq(Ops) /\ Len(<<x, y>>) = 2 /\ <<x, y>>[1] = x /\ <<x, y>>[2] = y
    OBVIOUS
  <2> QED  BY <2>1, <2>2
<1>6. h \o dels \in Seq(Ops) /\ Len(h \o dels) = 2 + n
      /\ \A i \in 1 .. 2 + n : (h \o dels)[i] = IF i <= 2 THEN h[i] ELSE dels[i - 2]
  <2>1. PICK d \in Seq(Ops) : d = dels /\ Len(d) = n
    BY <1>3
  <2>2. /\ h \o d \in Seq(Ops) /\ Len(h \o d) = Len(h) + Len(d)
        /\ \A i \in 1 .. Len(h) + Len(d) : (h \o d)[i] = IF i <= Len(h) THEN h[i] ELSE d[i - Len(h)]
    BY ConcatProperties
  <2> QED  BY <1>5, <2>1, <2>2
<1>7. ASSUME NEW i \in 1 .. 2 + n
      PROVE  \/ (h \o dels)[i].op \in {"find", "bootVots"}
             \/ (h \o dels)[i].op = "bootDelete" /\ (h \o dels)[i].a \in Tids
  <2>1. CASE i <= 2
    <3>1. i = 1 \/ i = 2
      BY <1>7, <2>1
    <3>2. (h \o dels)[i] = h[i]
      BY <1>6, <1>7, <2>1
    <3> QED  BY <1>4, <1>5, <3>1, <3>2
  <2>2. CASE i > 2
    <3>1. i - 2 \in 1 .. n /\ ~ (i <= 2)
      BY <1>7, <2>2
    <3>2. PICK j \in 1 .. n : j = i - 2
      BY <3>1
    <3>3. (h \o dels)[i] = dels[j]
      BY <1>6, <1>7, <3>1, <3>2
    <3>4. dels[j] = Do("bootDelete", NoInode, j - 1)
      BY <1>3
    <3>5. /\ j - 1 \in Tids /\ Do("bootDelete", NoInode, j - 1).op = "bootDelete"
          /\ Do("bootDelete", NoInode, j - 1).a = j - 1
      BY <1>2, <3>2
    <3>6. (h \o dels)[i] = Do("bootDelete", NoInode, j - 1)
      BY <3>3, <3>4
    <3> QED  BY <3>5, <3>6
  <2>3. i <= 2 \/ i > 2
    BY <1>7
  <2> QED  BY <2>1, <2>2, <2>3
<1> QED  BY <1>5, <1>6, <1>7 DEF BootOps

LEMMA PowerFailureStep ==
  ASSUME Direct, TransInv, PowerFailure
  PROVE  TransInv'
<1>1. TypeInv /\ TreeKept
  BY DEF TransInv
<1>2. PICK C \in AddrSets, D \in AddrSets : Recoverable(C, D)
  BY DEF TransInv
<1>3. /\ pages' = saved.pages /\ fs' = saved.fs /\ UNCHANGED <<saved, marked>>
      /\ tr' = [t \in Tids |-> EmptyTr] /\ call' = NoCall
      /\ intent' = [t \in Tids |-> NoChange]
  BY DEF PowerFailure
<1>4. obs' \subseteq saved.obs \cup marked
  BY DEF PowerFailure
<1>5. PICK dels : dels = [t \in 1 .. Cardinality(Tids) |-> Do("bootDelete", NoInode, t - 1)]
  OBVIOUS
<1>6. PICK Y \in Seq(Ops) : Y = <<Todo("find"), Todo("bootVots")>> \o dels /\ BootOps(C, Y)
  BY <1>5, BootProgram
<1>7. todo' = Y \o <<Todo("bootEnd")>>
  BY <1>5, <1>6 DEF PowerFailure
<1>8. EmptyTr \in TrSet /\ NoChange \in ChangeSet
  BY EmptyFacts
<1>9. TypeInv'
  <2>1. todo' \in Seq(Ops)
    <3>1. <<Todo("bootEnd")>> \in Seq(Ops)
      BY AllTodos
    <3> QED  BY <1>7, <3>1, Cat
  <2>2. pages' \in [Addr -> PageSet] /\ obs' \subseteq Addr /\ marked' \subseteq Addr /\ fs' \in FsSet
    BY <1>1, <1>3, <1>4 DEF TypeInv
  <2>3. tr' \in [Tids -> TrSet] /\ intent' \in [Tids -> ChangeSet]
    BY <1>3, <1>8
  <2>4. call' \in CallSet
    BY <1>3 DEF NoCall, CallSet, Addr0, EMPTY, NoInode
  <2> QED  BY <1>1, <1>3, <2>1, <2>2, <2>3, <2>4 DEF TypeInv
<1>10. SameTree
  BY <1>3, SameSaved
<1>11. TreeKept'
  <2>1. GoodTree(saved.pages, Root)'
    <3>1. PICK P, r : P = saved.pages /\ r = Root
      OBVIOUS
    <3>2. GoodTree(P, r) /\ saved'.pages = P /\ Root' = r
      BY <1>1, <1>3, <3>1 DEF TreeKept, Root
    <3> QED  BY <3>2, GoodTreeNext
  <2> QED  BY <1>1, <1>3, <1>4, <1>10, <2>1 DEF TreeKept, SameTree
<1>12. Recoverable(C, D)'
  BY <1>2, <1>3, <1>10 DEF Recoverable, SameTree, Closed
<1>13. BootingFrom(C, D, Y)'
  <2>1. BootOps(C, Y)'
    BY <1>6, <1>10 DEF BootOps, SameTree
  <2>2. fs'.ino0 = Root'
    BY <1>3 DEF Root
  <2>3. /\ fs'.closed \in C \cup {EMPTY}
        /\ \A t \in Tids : fs'.last[t] \in D \cup {EMPTY, fs'.closed}
    BY <1>2, <1>3 DEF Recoverable
  <2>4. \A t \in Tids : tr'[t] = EmptyTr /\ intent'[t] = NoChange
    BY <1>3
  <2> QED  BY <1>3, <1>7, <1>12, <2>1, <2>2, <2>3, <2>4 DEF BootingFrom
<1> QED  BY <1>9, <1>11, <1>12, <1>13, BootRuns

IsBooting == \E C, D \in AddrSets, Y \in Seq(Ops) : BootingFrom(C, D, Y)

(* What a step of a boot changes.                                          *)
BootMove(C, D, Y2) ==
  /\ UNCHANGED <<pages, saved, tr, call, intent>>
  /\ \A a \in obs' \cup marked' : a \in obs \cup marked \/ a \in Addr \ Tree0
  /\ fs' \in FsSet /\ fs'.ino0 = fs.ino0 /\ fs'.closed \in C \cup {EMPTY}
  /\ \A t \in Tids : fs'.last[t] \in D \cup {EMPTY, fs'.closed}
  /\ todo' = Y2 \o <<Todo("bootEnd")>> /\ BootOps(C, Y2)

LEMMA BootSettle ==
  ASSUME NEW C \in AddrSets, NEW D \in AddrSets, NEW Y \in Seq(Ops), NEW Y2 \in Seq(Ops),
         TypeInv, TreeKept, BootingFrom(C, D, Y), BootMove(C, D, Y2)
  PROVE  TransInv'
<1>1. SameTree
  BY SameSaved DEF BootMove
<1>2. TreeKept' /\ Recoverable(C, D)'
  <2>1. PagesKept({}) /\ Tree0 \cap (obs' \cup marked') = {}
    BY DEF PagesKept, TreeKept, BootMove
  <2>2. Recoverable(C, D) /\ saved' = saved
    BY DEF BootingFrom, BootMove
  <2> QED  BY <2>1, <2>2, FlashKept
<1>3. TypeInv'
  <2>1. todo' \in Seq(Ops)
    <3>1. <<Todo("bootEnd")>> \in Seq(Ops)
      BY AllTodos
    <3>2. Y2 \o <<Todo("bootEnd")>> \in Seq(Ops)
      BY <3>1, Cat
    <3> QED  BY <3>2 DEF BootMove
  <2>2. obs' \subseteq Addr /\ marked' \subseteq Addr
    BY DEF BootMove, TypeInv
  <2> QED  BY <2>1, <2>2 DEF BootMove, TypeInv
<1>4. BootingFrom(C, D, Y2)'
  <2>1. BootOps(C, Y2)'
    BY <1>1 DEF BootMove, BootOps, SameTree
  <2>2. /\ pages' = saved'.pages /\ fs'.ino0 = Root'
        /\ \A t \in Tids : tr'[t] = EmptyTr /\ intent'[t] = NoChange
    BY <1>1 DEF BootingFrom, BootMove, SameTree
  <2> QED  BY <1>2, <2>1, <2>2 DEF BootingFrom, BootMove
<1> QED  BY <1>2, <1>3, <1>4, BootRuns

LEMMA BootCat ==
  ASSUME NEW C, NEW s \in Seq(Ops), NEW t \in Seq(Ops), BootOps(C, s), BootOps(C, t)
  PROVE  s \o t \in Seq(Ops) /\ BootOps(C, s \o t)
<1>1. /\ s \o t \in Seq(Ops) /\ Len(s \o t) = Len(s) + Len(t)
      /\ \A i \in 1 .. Len(s) + Len(t) : (s \o t)[i] = IF i <= Len(s) THEN s[i] ELSE t[i - Len(s)]
  BY ConcatProperties
<1>2. Len(s) \in Nat /\ Len(t) \in Nat
  OBVIOUS
<1>3. \A i \in 1 .. Len(s) + Len(t) :
        \/ \E j \in 1 .. Len(s) : (s \o t)[i] = s[j]
        \/ \E j \in 1 .. Len(t) : (s \o t)[i] = t[j]
  <2>1. SUFFICES ASSUME NEW i \in 1 .. Len(s) + Len(t)
                 PROVE  \/ \E j \in 1 .. Len(s) : (s \o t)[i] = s[j]
                        \/ \E j \in 1 .. Len(t) : (s \o t)[i] = t[j]
    OBVIOUS
  <2>2. CASE i <= Len(s)
    <3>1. i \in 1 .. Len(s) /\ (s \o t)[i] = s[i]
      BY <1>1, <1>2, <2>1, <2>2
    <3> QED  BY <3>1
  <2>3. CASE ~ (i <= Len(s))
    <3>1. i - Len(s) \in 1 .. Len(t) /\ (s \o t)[i] = t[i - Len(s)]
      BY <1>1, <1>2, <2>1, <2>3
    <3> QED  BY <3>1
  <2> QED  BY <2>2, <2>3
<1> QED  BY <1>1, <1>3 DEF BootOps

LEMMA BootTodo ==
  ASSUME Direct, TransInv, IsBooting
  PROVE  \E C, D \in AddrSets, Y \in Seq(Ops) :
           /\ BootingFrom(C, D, Y) /\ TypeInv /\ TreeKept /\ todo # <<>>
           /\ \/ Y = <<>> /\ Op.op = "bootEnd" /\ Rest = <<>>
              \/ /\ Y # <<>> /\ Rest = Tail(Y) \o <<Todo("bootEnd")>>
                 /\ Tail(Y) \in Seq(Ops) /\ BootOps(C, Tail(Y))
                 /\ \/ Op.op \in {"find", "bootVots"}
                    \/ Op.op = "bootDelete" /\ Op.a \in Tids
                    \/ Op.op = "vots" /\ Op.a \in C \cup {EMPTY}
                    \/ Op.op = "mark" /\ Op.a \in Addr \ Tree0
<1>1. PICK C \in AddrSets, D \in AddrSets, Y \in Seq(Ops) : BootingFrom(C, D, Y)
  BY DEF IsBooting
<1>2. /\ todo # <<>>
      /\ \/ Y = <<>> /\ Op.op = "bootEnd" /\ Rest = <<>>
         \/ /\ Y # <<>> /\ Op = Head(Y) /\ Rest = Tail(Y) \o <<Todo("bootEnd")>>
            /\ Tail(Y) \in Seq(Ops) /\ BootOps(C, Tail(Y))
            /\ \/ Op.op \in {"find", "bootVots"}
               \/ Op.op = "bootDelete" /\ Op.a \in Tids
               \/ Op.op = "vots" /\ Op.a \in C \cup {EMPTY}
               \/ Op.op = "mark" /\ Op.a \in Addr \ Tree0
  BY <1>1, BootHead
<1> QED  BY <1>1, <1>2 DEF TransInv

(* The search for a free page that ends sequencingBooting().               *)
LEMMA BootFindStep ==
  ASSUME Direct, TransInv, FindNextFreePage, IsBooting
  PROVE  TransInv'
<1>1. /\ Op.op = "find" /\ todo' = Rest
      /\ UNCHANGED <<pages, obs, tr, call, intent>>
      /\ UNCHANGED <<fs, saved, marked>> \/ WriteCheckpoint
  BY DEF FindNextFreePage, Doing, Kept
<1>2. PICK C \in AddrSets, D \in AddrSets, Y \in Seq(Ops) :
           /\ BootingFrom(C, D, Y) /\ TypeInv /\ TreeKept /\ todo # <<>>
           /\ \/ Y = <<>> /\ Op.op = "bootEnd" /\ Rest = <<>>
              \/ /\ Y # <<>> /\ Rest = Tail(Y) \o <<Todo("bootEnd")>>
                 /\ Tail(Y) \in Seq(Ops) /\ BootOps(C, Tail(Y))
                 /\ \/ Op.op \in {"find", "bootVots"}
                    \/ Op.op = "bootDelete" /\ Op.a \in Tids
                    \/ Op.op = "vots" /\ Op.a \in C \cup {EMPTY}
                    \/ Op.op = "mark" /\ Op.a \in Addr \ Tree0
  BY BootTodo
<1>3. todo' = Tail(Y) \o <<Todo("bootEnd")>> /\ Tail(Y) \in Seq(Ops) /\ BootOps(C, Tail(Y))
  BY <1>1, <1>2
<1>4. /\ Recoverable(C, D) /\ pages = saved.pages /\ fs.ino0 = Root
      /\ \A t \in Tids : tr[t] = EmptyTr /\ intent[t] = NoChange
      /\ fs.closed \in C \cup {EMPTY}
      /\ \A t \in Tids : fs.last[t] \in D \cup {EMPTY, fs.closed}
  BY <1>2 DEF BootingFrom
<1>5. CASE UNCHANGED <<fs, saved, marked>>
  <2>1. BootMove(C, D, Tail(Y))
    BY <1>1, <1>2, <1>3, <1>4, <1>5 DEF BootMove, TypeInv
  <2> QED  BY <1>2, <1>3, <2>1, BootSettle
<1>6. CASE WriteCheckpoint
  <2>1. /\ Closed(pages, C) /\ Closed(pages, D) /\ D \cap Tree0 = {}
        /\ \A a \in C : pages[a].kind = "vots" =>
             /\ a \notin Tree0
             /\ \A i \in 1 .. Len(pages[a].ref) : pages[a].ref[i] \notin Tree0
    BY <1>4 DEF Recoverable
  <2>2. \A t \in Tids : tr[t].prev = EMPTY
    BY <1>4 DEF EmptyTr
  <2>3. \A t \in Tids : tr[t].prev \in D \cup {EMPTY, fs.closed}
    BY <2>2
  <2>4. SameTree /\ TreeKept' /\ Recoverable(C, D)'
    <3>1. /\ TypeInv /\ TreeKept /\ fs.ino0 = Root /\ WriteCheckpoint
          /\ UNCHANGED <<pages, obs, tr>>
      BY <1>1, <1>2, <1>4, <1>6
    <3> QED  BY <1>4, <2>1, <2>3, <3>1, SaveAgain
  <2>5. PICK Z \in Seq(Ops) : Z = Tail(Y)
    BY <1>3
  <2>6. todo' \in Seq(Ops)
    <3>1. <<Todo("bootEnd")>> \in Seq(Ops)
      BY AllTodos
    <3> QED  BY <1>3, <2>5, <3>1, Cat
  <2>7. /\ TypeInv' /\ fs'.ino0 = fs.ino0 /\ fs'.closed = fs.closed
        /\ saved'.fs = fs' /\ saved'.pages = pages
    BY <1>1, <1>2, <1>6, <2>6, SavedTypes DEF TypeInv
  <2>8. \A t \in Tids : fs'.last[t] = EMPTY
    <3>1. \A t \in Tids : SavedFs.last[t] = tr[t].prev
      BY <1>2 DEF SavedFs, TypeInv, FsSet
    <3> QED  BY <1>6, <2>2, <3>1 DEF WriteCheckpoint
  <2>9. BootingFrom(C, D, Z)'
    <3>1. BootOps(C, Z)'
      BY <1>3, <2>4, <2>5 DEF BootOps, SameTree
    <3>2. fs'.ino0 = Root'
      BY <1>4, <2>4, <2>7 DEF SameTree
    <3> QED  BY <1>1, <1>3, <1>4, <2>4, <2>5, <2>7, <2>8, <3>1, <3>2 DEF BootingFrom
  <2> QED  BY <2>4, <2>7, <2>9, BootRuns
<1> QED  BY <1>1, <1>5, <1>6

LEMMA BootVotsStep ==
  ASSUME Direct, TransInv, BootVots, IsBooting
  PROVE  TransInv'
<1>1. /\ Op.op = "bootVots" /\ todo' = <<Do("vots", NoInode, fs.closed)>> \o Rest
      /\ UNCHANGED <<pages, obs, saved, marked, fs, tr, call, intent>>
  BY DEF BootVots, Doing, Kept, flashVars
<1>2. PICK C \in AddrSets, D \in AddrSets, Y \in Seq(Ops) :
           /\ BootingFrom(C, D, Y) /\ TypeInv /\ TreeKept /\ todo # <<>>
           /\ \/ Y = <<>> /\ Op.op = "bootEnd" /\ Rest = <<>>
              \/ /\ Y # <<>> /\ Rest = Tail(Y) \o <<Todo("bootEnd")>>
                 /\ Tail(Y) \in Seq(Ops) /\ BootOps(C, Tail(Y))
                 /\ \/ Op.op \in {"find", "bootVots"}
                    \/ Op.op = "bootDelete" /\ Op.a \in Tids
                    \/ Op.op = "vots" /\ Op.a \in C \cup {EMPTY}
                    \/ Op.op = "mark" /\ Op.a \in Addr \ Tree0
  BY BootTodo
<1>3. Rest = Tail(Y) \o <<Todo("bootEnd")>> /\ Tail(Y) \in Seq(Ops) /\ BootOps(C, Tail(Y))
  BY <1>1, <1>2
<1>4. PICK c \in C \cup {EMPTY} : c = fs.closed
  BY <1>2 DEF BootingFrom
<1>5. PICK one \in Seq(Ops) : one = <<Do("vots", NoInode, c)>> /\ BootOps(C, one)
  <2>1. c \in Args /\ NoInode \in Names /\ "vots" \in OpNames
    BY <1>4 DEF Args, Names, OpNames, AddrSets, Addr0
  <2>2. Do("vots", NoInode, c) \in Ops /\ Do("vots", NoInode, c).op = "vots"
        /\ Do("vots", NoInode, c).a = c
    BY <2>1, DoFacts
  <2>3. PICK d \in Ops : d = Do("vots", NoInode, c) /\ d.op = "vots" /\ d.a = c
    BY <2>2
  <2>4. <<d>> \in Seq(Ops) /\ Len(<<d>>) = 1 /\ <<d>>[1] = d
    OBVIOUS
  <2>5. BootOps(C, <<d>>)
    BY <1>4, <2>3, <2>4 DEF BootOps
  <2> QED  BY <2>3, <2>4, <2>5
<1>6a. PICK e \in Seq(Ops) : e = <<Todo("bootEnd")>>
  <2>1. PICK d \in Ops : d = Todo("bootEnd")
    BY AllTodos
  <2>2. <<d>> \in Seq(Ops)
    OBVIOUS
  <2> QED  BY <2>1, <2>2
<1>6b. PICK Z \in Seq(Ops) : Z = Tail(Y)
  BY <1>3
<1>6. Z = Tail(Y) /\ e = <<Todo("bootEnd")>> /\ BootOps(C, Z)
  BY <1>3, <1>6a, <1>6b
<1>7. one \o Z \in Seq(Ops) /\ BootOps(C, one \o Z)
  BY <1>5, <1>6, BootCat
<1>8. todo' = (one \o Z) \o <<Todo("bootEnd")>>
  <2>1. (one \o Z) \o e = one \o (Z \o e)
    BY CatThree
  <2> QED  BY <1>1, <1>3, <1>4, <1>5, <1>6, <2>1
<1>9. /\ fs' \in FsSet /\ fs'.ino0 = fs.ino0 /\ fs'.closed \in C \cup {EMPTY}
      /\ \A t \in Tids : fs'.last[t] \in D \cup {EMPTY, fs'.closed}
  BY <1>1, <1>2 DEF BootingFrom, TypeInv
<1>10. BootMove(C, D, one \o Z)
  BY <1>1, <1>7, <1>8, <1>9 DEF BootMove
<1> QED  BY <1>2, <1>7, <1>10, BootSettle

LEMMA BootMarkStep ==
  ASSUME Direct, TransInv, MarkVot, IsBooting
  PROVE  TransInv'
<1>1. /\ Op.op = "mark" /\ todo' = Rest
      /\ obs' = obs \cup {Op.a} /\ marked' = marked \cup {Op.a}
      /\ UNCHANGED <<pages, saved, fs, tr, call, intent>>
  BY DEF MarkVot, Doing, Kept, Mark
<1>2. PICK C \in AddrSets, D \in AddrSets, Y \in Seq(Ops) :
           /\ BootingFrom(C, D, Y) /\ TypeInv /\ TreeKept /\ todo # <<>>
           /\ \/ Y = <<>> /\ Op.op = "bootEnd" /\ Rest = <<>>
              \/ /\ Y # <<>> /\ Rest = Tail(Y) \o <<Todo("bootEnd")>>
                 /\ Tail(Y) \in Seq(Ops) /\ BootOps(C, Tail(Y))
                 /\ \/ Op.op \in {"find", "bootVots"}
                    \/ Op.op = "bootDelete" /\ Op.a \in Tids
                    \/ Op.op = "vots" /\ Op.a \in C \cup {EMPTY}
                    \/ Op.op = "mark" /\ Op.a \in Addr \ Tree0
  BY BootTodo
<1>3. Rest = Tail(Y) \o <<Todo("bootEnd")>> /\ Tail(Y) \in Seq(Ops) /\ BootOps(C, Tail(Y))
      /\ Op.a \in Addr \ Tree0
  BY <1>1, <1>2
<1>4. /\ fs' \in FsSet /\ fs'.ino0 = fs.ino0 /\ fs'.closed \in C \cup {EMPTY}
      /\ \A t \in Tids : fs'.last[t] \in D \cup {EMPTY, fs'.closed}
  BY <1>1, <1>2 DEF BootingFrom, TypeInv
<1>5. BootMove(C, D, Tail(Y))
  BY <1>1, <1>3, <1>4 DEF BootMove
<1> QED  BY <1>2, <1>3, <1>5, BootSettle

LEMMA BootDeleteStep ==
  ASSUME Direct, TransInv, BootDelete, IsBooting
  PROVE  TransInv'
<1>1. /\ Op.op = "bootDelete" /\ UNCHANGED <<pages, saved, tr, call, intent>>
      /\ IF IsClosed(Op.a) \/ fs.last[Op.a] = EMPTY
         THEN /\ fs' = [fs EXCEPT !.last[Op.a] = EMPTY]
              /\ todo' = Rest
              /\ UNCHANGED <<obs, marked>>
         ELSE /\ obs' = obs \cup {fs.last[Op.a]} /\ marked' = marked \cup {fs.last[Op.a]}
              /\ fs' = [fs EXCEPT !.last[Op.a] = pages[fs.last[Op.a]].prev]
              /\ UNCHANGED todo
  BY DEF BootDelete, Doing, Kept, Mark
<1>2. PICK C \in AddrSets, D \in AddrSets, Y \in Seq(Ops) :
           /\ BootingFrom(C, D, Y) /\ TypeInv /\ TreeKept /\ todo # <<>>
           /\ \/ Y = <<>> /\ Op.op = "bootEnd" /\ Rest = <<>>
              \/ /\ Y # <<>> /\ Rest = Tail(Y) \o <<Todo("bootEnd")>>
                 /\ Tail(Y) \in Seq(Ops) /\ BootOps(C, Tail(Y))
                 /\ \/ Op.op \in {"find", "bootVots"}
                    \/ Op.op = "bootDelete" /\ Op.a \in Tids
                    \/ Op.op = "vots" /\ Op.a \in C \cup {EMPTY}
                    \/ Op.op = "mark" /\ Op.a \in Addr \ Tree0
  BY BootTodo
<1>3. Rest = Tail(Y) \o <<Todo("bootEnd")>> /\ Tail(Y) \in Seq(Ops) /\ BootOps(C, Tail(Y))
      /\ Op.a \in Tids
  BY <1>1, <1>2
<1>4. PICK t \in Tids : t = Op.a
  BY <1>3
<1>5. /\ Recoverable(C, D) /\ pages = saved.pages
      /\ fs.closed \in C \cup {EMPTY} /\ fs \in FsSet
      /\ \A u \in Tids : fs.last[u] \in D \cup {EMPTY, fs.closed}
      /\ todo = Y \o <<Todo("bootEnd")>> /\ BootOps(C, Y)
  BY <1>2 DEF BootingFrom, TypeInv
<1>6. PICK a \in D \cup {EMPTY, fs.closed} : a = fs.last[t]
  BY <1>5
<1>7. CASE IsClosed(t) \/ a = EMPTY
  <2>1. fs' = [fs EXCEPT !.last[t] = EMPTY] /\ todo' = Rest /\ UNCHANGED <<obs, marked>>
    BY <1>1, <1>4, <1>6, <1>7
  <2>2. /\ fs' \in FsSet /\ fs'.ino0 = fs.ino0 /\ fs'.closed = fs.closed
        /\ fs'.last = [fs.last EXCEPT ![t] = EMPTY]
    BY <1>5, <2>1 DEF FsSet, Addr0
  <2>3. \A u \in Tids : fs'.last[u] \in D \cup {EMPTY, fs'.closed}
    BY <1>5, <2>2 DEF FsSet
  <2>4. BootMove(C, D, Tail(Y))
    BY <1>1, <1>3, <1>5, <2>1, <2>2, <2>3 DEF BootMove
  <2> QED  BY <1>2, <1>3, <2>4, BootSettle
<1>8. CASE ~ (IsClosed(t) \/ a = EMPTY)
  <2>1. /\ obs' = obs \cup {a} /\ marked' = marked \cup {a}
        /\ fs' = [fs EXCEPT !.last[t] = pages[a].prev] /\ todo' = todo
    BY <1>1, <1>4, <1>6, <1>8
  <2>2. a \in D /\ D \subseteq Addr /\ D \cap Tree0 = {}
    BY <1>5, <1>6, <1>8 DEF IsClosed, Recoverable, Closed
  <2>3. PICK p \in D \cup {EMPTY} : p = pages[a].prev
    BY <1>5, <2>2 DEF Recoverable, Closed
  <2>4. /\ fs' \in FsSet /\ fs'.ino0 = fs.ino0 /\ fs'.closed = fs.closed
        /\ fs'.last = [fs.last EXCEPT ![t] = p]
    BY <1>5, <2>1, <2>2, <2>3 DEF FsSet, Addr0
  <2>5. \A u \in Tids : fs'.last[u] \in D \cup {EMPTY, fs'.closed}
    BY <1>5, <2>3, <2>4 DEF FsSet
  <2>6. BootMove(C, D, Y)
    BY <1>1, <1>5, <2>1, <2>2, <2>4, <2>5 DEF BootMove
  <2> QED  BY <1>2, <2>6, BootSettle
<1> QED  BY <1>7, <1>8

LEMMA BootWalkStep ==
  ASSUME Direct, TransInv, WalkVots, IsBooting
  PROVE  TransInv'
<1>1. /\ Op.op = "vots"
      /\ UNCHANGED <<pages, obs, saved, marked, fs, tr, call, intent>>
      /\ \/ Op.a = EMPTY /\ todo' = Rest
         \/ /\ Op.a # EMPTY /\ pages[Op.a].kind # "vots"
            /\ todo' = <<Do("vots", NoInode, pages[Op.a].prev)>> \o Rest
         \/ /\ Op.a # EMPTY /\ pages[Op.a].kind = "vots"
            /\ todo' = Marks(Append(pages[Op.a].ref, Op.a)) \o
                       <<Do("vots", NoInode, pages[Op.a].prev)>> \o Rest
  BY DEF WalkVots, Doing, Kept, flashVars
<1>2. PICK C \in AddrSets, D \in AddrSets, Y \in Seq(Ops) :
           /\ BootingFrom(C, D, Y) /\ TypeInv /\ TreeKept /\ todo # <<>>
           /\ \/ Y = <<>> /\ Op.op = "bootEnd" /\ Rest = <<>>
              \/ /\ Y # <<>> /\ Rest = Tail(Y) \o <<Todo("bootEnd")>>
                 /\ Tail(Y) \in Seq(Ops) /\ BootOps(C, Tail(Y))
                 /\ \/ Op.op \in {"find", "bootVots"}
                    \/ Op.op = "bootDelete" /\ Op.a \in Tids
                    \/ Op.op = "vots" /\ Op.a \in C \cup {EMPTY}
                    \/ Op.op = "mark" /\ Op.a \in Addr \ Tree0
  BY BootTodo
<1>3. Rest = Tail(Y) \o <<Todo("bootEnd")>> /\ Tail(Y) \in Seq(Ops) /\ BootOps(C, Tail(Y))
  BY <1>1, <1>2
<1>4. PICK a \in C \cup {EMPTY} : a = Op.a
  BY <1>1, <1>2
<1>5a. PICK e \in Seq(Ops) : e = <<Todo("bootEnd")>>
  <2>1. PICK d \in Ops : d = Todo("bootEnd")
    BY AllTodos
  <2>2. <<d>> \in Seq(Ops)
    OBVIOUS
  <2> QED  BY <2>1, <2>2
<1>5b. PICK Z \in Seq(Ops) : Z = Tail(Y)
  BY <1>3
<1>5. /\ Z = Tail(Y) /\ e = <<Todo("bootEnd")>> /\ BootOps(C, Z) /\ Rest = Z \o e
  BY <1>3, <1>5a, <1>5b
<1>6. /\ fs' \in FsSet /\ fs'.ino0 = fs.ino0 /\ fs'.closed \in C \cup {EMPTY}
      /\ \A t \in Tids : fs'.last[t] \in D \cup {EMPTY, fs'.closed}
  BY <1>1, <1>2 DEF BootingFrom, TypeInv
<1>7. SUFFICES ASSUME TRUE
               PROVE  \E H \in Seq(Ops) : BootOps(C, H) /\ todo' = H \o Rest
  <2>1. ASSUME NEW H \in Seq(Ops), BootOps(C, H), todo' = H \o Rest
        PROVE  TransInv'
    <3>1. H \o Z \in Seq(Ops) /\ BootOps(C, H \o Z)
      BY <1>5, <2>1, BootCat
    <3>2. todo' = (H \o Z) \o <<Todo("bootEnd")>>
      <4>1. (H \o Z) \o e = H \o (Z \o e)
        BY CatThree
      <4> QED  BY <1>5, <2>1, <4>1
    <3>3. BootMove(C, D, H \o Z)
      BY <1>1, <1>6, <3>1, <3>2 DEF BootMove
    <3> QED  BY <1>2, <3>1, <3>3, BootSettle
  <2> QED  BY <2>1
<1>8. CASE a = EMPTY
  <2>1. Rest \in Seq(Ops) /\ <<>> \in Seq(Ops) /\ BootOps(C, <<>>)
    BY <1>5, Cat DEF BootOps
  <2> QED  BY <1>1, <1>4, <1>8, <2>1, Cat
<1>9. CASE a # EMPTY
  <2>1. Recoverable(C, D) /\ pages = saved.pages /\ a \in C
    BY <1>2, <1>9 DEF BootingFrom
  <2>2. PICK p \in C \cup {EMPTY} : p = pages[a].prev
    BY <2>1 DEF Recoverable, Closed
  <2>3. PICK one \in Seq(Ops) : one = <<Do("vots", NoInode, p)>> /\ BootOps(C, one)
    <3>1. p \in Args /\ NoInode \in Names /\ "vots" \in OpNames
      BY <2>2 DEF Args, Names, OpNames, AddrSets, Addr0
    <3>2. Do("vots", NoInode, p) \in Ops /\ Do("vots", NoInode, p).op = "vots"
          /\ Do("vots", NoInode, p).a = p
      BY <3>1, DoFacts
    <3>3. PICK d \in Ops : d = Do("vots", NoInode, p) /\ d.op = "vots" /\ d.a = p
      BY <3>2
    <3>4. <<d>> \in Seq(Ops) /\ Len(<<d>>) = 1 /\ <<d>>[1] = d
      OBVIOUS
    <3>5. BootOps(C, <<d>>)
      BY <2>2, <3>3, <3>4 DEF BootOps
    <3> QED  BY <3>3, <3>4, <3>5
  <2>4. CASE pages[a].kind # "vots"
    BY <1>1, <1>4, <1>9, <2>2, <2>3, <2>4
  <2>5. CASE pages[a].kind = "vots"
    <3>1. PICK s : s = Append(pages[a].ref, a)
      OBVIOUS
    <3>2. a \in Addr /\ pages[a].ref \in Seq(Addr)
      <4>1. a \in Addr
        BY <2>1 DEF Recoverable, Closed
      <4> QED  BY <1>2, <2>5, <4>1, PageTypes DEF TypeInv
    <3>3. s \in Seq(Addr) /\ \A i \in 1 .. Len(s) : s[i] \in Addr \ Tree0
      <4>1. /\ a \notin Tree0
            /\ \A i \in 1 .. Len(pages[a].ref) : pages[a].ref[i] \notin Tree0
        BY <2>1, <2>5 DEF Recoverable
      <4>2. PICK w \in Seq(Addr) : w = pages[a].ref
        BY <3>2
      <4>3. Append(w, a) \in Seq(Addr) /\ Len(Append(w, a)) = Len(w) + 1
        BY <3>2
      <4>4. \A i \in 1 .. Len(w) + 1 :
              Append(w, a)[i] = IF i = Len(w) + 1 THEN a ELSE w[i]
        BY <3>2
      <4>5. Len(w) \in Nat
        OBVIOUS
      <4>6. \A i \in 1 .. Len(w) + 1 : i \in 1 .. Len(w) \/ i = Len(w) + 1
        BY <4>5
      <4>7. s \in Seq(Addr) /\ Len(s) = Len(w) + 1
            /\ \A i \in 1 .. Len(w) + 1 : s[i] = IF i = Len(w) + 1 THEN a ELSE w[i]
        BY <3>1, <4>2, <4>3, <4>4
      <4>8. \A i \in 1 .. Len(w) : w[i] \in Addr
        OBVIOUS
      <4> QED  BY <3>2, <4>1, <4>2, <4>6, <4>7, <4>8
    <3>4. PICK M : M = Marks(s)
      OBVIOUS
    <3>5. M \in Seq(Ops) /\ BootOps(C, M)
      <4>1. \A i \in 1 .. Len(s) : s[i] \in Addr /\ Len(s) \in Nat
        BY <3>3
      <4>2. \A b \in Addr : /\ Do("mark", NoInode, b) \in Ops
                            /\ Do("mark", NoInode, b).op = "mark"
                            /\ Do("mark", NoInode, b).a = b
        BY DEF Do, Ops, OpNames, Names, Addr0
      <4>3. M = [i \in 1 .. Len(s) |-> Do("mark", NoInode, s[i])] /\ Len(s) \in Nat
        BY <3>3, <3>4 DEF Marks
      <4>4. PICK n \in Nat : n = Len(s)
        BY <3>3
      <4>4a. M \in [1 .. n -> Ops]
        BY <4>1, <4>2, <4>3, <4>4
      <4>4b. M \in Seq(Ops)
        BY <4>4a
      <4>4c. Len(M) = n
        BY <4>4a
      <4>5. M \in Seq(Ops) /\ Len(M) = Len(s)
        BY <4>4, <4>4b, <4>4c
      <4>6. \A i \in 1 .. Len(s) : M[i] = Do("mark", NoInode, s[i])
        BY <4>3
      <4>7. \A i \in 1 .. Len(M) : M[i].op = "mark" /\ M[i].a \in Addr \ Tree0
        BY <3>3, <4>1, <4>2, <4>5, <4>6
      <4> QED  BY <4>5, <4>7 DEF BootOps
    <3>6. M \o one \in Seq(Ops) /\ BootOps(C, M \o one)
      BY <2>3, <3>5, BootCat
    <3>7. todo' = (M \o one) \o Rest
      BY <1>1, <1>4, <1>9, <2>2, <2>3, <2>5, <3>1, <3>4
    <3> QED  BY <3>6, <3>7
  <2> QED  BY <2>4, <2>5
<1> QED  BY <1>8, <1>9

LEMMA BootEndStep ==
  ASSUME Direct, TransInv, BootEnd, IsBooting
  PROVE  TransInv'
<1>1. /\ Op.op = "bootEnd" /\ todo' = Rest /\ fs' = [fs EXCEPT !.closed = EMPTY]
      /\ UNCHANGED <<pages, obs, saved, marked, tr, call, intent>>
  BY DEF BootEnd, Doing, Kept, flashVars
<1>2. PICK C \in AddrSets, D \in AddrSets, Y \in Seq(Ops) :
           /\ BootingFrom(C, D, Y) /\ TypeInv /\ TreeKept /\ todo # <<>>
           /\ \/ Y = <<>> /\ Op.op = "bootEnd" /\ Rest = <<>>
              \/ /\ Y # <<>> /\ Rest = Tail(Y) \o <<Todo("bootEnd")>>
                 /\ Tail(Y) \in Seq(Ops) /\ BootOps(C, Tail(Y))
                 /\ \/ Op.op \in {"find", "bootVots"}
                    \/ Op.op = "bootDelete" /\ Op.a \in Tids
                    \/ Op.op = "vots" /\ Op.a \in C \cup {EMPTY}
                    \/ Op.op = "mark" /\ Op.a \in Addr \ Tree0
  BY BootTodo
<1>3. todo' = <<>> /\ <<>> \in Seq(Ops)
  BY <1>1, <1>2
<1>4. /\ Recoverable(C, D) /\ fs.ino0 = Root
      /\ \A t \in Tids : tr[t] = EmptyTr /\ intent[t] = NoChange
  BY <1>2 DEF BootingFrom
<1>5. fs' \in FsSet /\ fs'.ino0 = fs.ino0 /\ fs'.closed = EMPTY
  BY <1>1, <1>2 DEF TypeInv, FsSet, Addr0
<1>6. TypeInv' /\ TreeKept' /\ Recoverable(C, D)' /\ SameTree
  <2>1. TypeInv'
    BY <1>1, <1>2, <1>3, <1>5 DEF TypeInv
  <2>2. PagesKept({}) /\ Tree0 \cap (obs' \cup marked') = {}
    BY <1>1, <1>2 DEF PagesKept, TreeKept
  <2> QED  BY <1>1, <1>2, <1>4, <2>1, <2>2, FlashKept, SameSaved
<1>7. PICK own \in Owned : \A t \in Tids : own[t] = {}
  <2>1. [t \in Tids |-> {}] \in Owned
    BY DEF Owned, AddrSets
  <2> QED  BY <2>1
<1>8. /\ EmptyTr.prev = EMPTY /\ EmptyTr.vots = <<>> /\ Len(<<>>) = 0
      /\ VotsPerPage \in Nat \ {0} /\ DOMAIN NoChange = {}
  BY TransactionsAssumption, EmptyFacts DEF EmptyTr
<1>9. AtRest(own, own)'
  <2>1. \A t \in Tids : OwnChain(own, t)'
    BY <1>1, <1>4, <1>7, <1>8 DEF OwnChain
  <2>2. \A t \in Tids : Stable(own, own, t)'
    BY <1>1, <1>4, <1>7 DEF Stable, LiveOwn, Unused
  <2>3. fs'.ino0 = Root'
    BY <1>4, <1>5, <1>6 DEF SameTree
  <2>4. \A t \in Tids : Len(tr'[t].vots) <= VotsPerPage /\ Len(tr'[t].vots) # VotsPerPage
    BY <1>1, <1>4, <1>8
  <2>5. \A t, u \in Tids : t # u => /\ own[t] \cap own[u] = {}
                                    /\ DOMAIN intent'[t] \cap DOMAIN intent'[u] = {}
    BY <1>1, <1>4, <1>7, <1>8
  <2> QED  BY <1>3, <1>5, <2>1, <2>2, <2>3, <2>4, <2>5 DEF AtRest
<1> QED  BY <1>6, <1>9, RestNext

-----------------------------------------------------------------------------
(* The programs of the calls.                                              *)

LEMMA ThenCat ==
  ASSUME NEW x \in Ops, NEW s \in Seq(Ops), NEW t \in Seq(Ops)
  PROVE  Then(x, s) \o t = Then(x, s \o t)
<1>1. <<x>> \in Seq(Ops)
  OBVIOUS
<1> QED  BY <1>1, CatThree DEF Then

Three(x, y, z) == <<x, y, z>>
Nine(a, b, c, d, e, f, g, h, i) == <<a, b, c, d, e, f, g, h, i>>
AreOps(x, y, z) == x \in Ops /\ y \in Ops /\ z \in Ops

LEMMA ThreeThen ==
  ASSUME NEW x, NEW y, NEW z, AreOps(x, y, z), NEW s \in Seq(Ops)
  PROVE  Three(x, y, z) \o s = Then(x, Then(y, Then(z, s)))
<1>0. x \in Ops /\ y \in Ops /\ z \in Ops
  BY DEF AreOps
<1>1. <<x>> \in Seq(Ops) /\ <<y, z>> \in Seq(Ops) /\ <<x, y, z>> \in Seq(Ops)
  BY <1>0
<1>2. <<x>> \o <<y, z>> = <<x, y, z>>
  <2>1. /\ <<x>> \o <<y, z>> \in Seq(Ops) /\ Len(<<x>> \o <<y, z>>) = 3
        /\ (<<x>> \o <<y, z>>)[1] = x /\ (<<x>> \o <<y, z>>)[2] = y
        /\ (<<x>> \o <<y, z>>)[3] = z
    BY <1>0, <1>1, ConcatProperties
  <2>2. /\ Len(<<x, y, z>>) = 3
        /\ <<x, y, z>>[1] = x /\ <<x, y, z>>[2] = y /\ <<x, y, z>>[3] = z
    OBVIOUS
  <2>3. \A i \in 1 .. 3 : (<<x>> \o <<y, z>>)[i] = <<x, y, z>>[i]
    BY <2>1, <2>2
  <2> QED  BY <1>1, <2>1, <2>2, <2>3, SeqEqual
<1>3. <<x, y, z>> \o s = <<x>> \o (<<y, z>> \o s)
  BY <1>1, <1>2, CatThree
<1>4. <<y, z>> \o s = Then(y, Then(z, s))
  BY <1>0, TwoThen
<1> QED  BY <1>1, <1>2, <1>3, <1>4 DEF Then, Three

LEMMA TheThree ==
  ASSUME NEW x, NEW y, NEW z, AreOps(x, y, z)
  PROVE  /\ Three(x, y, z) = Then(x, Then(y, <<z>>))
         /\ Three(x, y, z) \in Seq(Ops)
<1>1. /\ <<x, y, z>> \in Seq(Ops) /\ <<>> \in Seq(Ops) /\ <<z>> \in Seq(Ops)
  BY DEF AreOps
<1>2. \A n \in Seq(Ops) : Three(x, y, z) \o n = Then(x, Then(y, Then(z, n)))
  BY ThreeThen
<1>3. Three(x, y, z) \o <<>> = Then(x, Then(y, Then(z, <<>>)))
  BY <1>1, <1>2
<1>4. <<x, y, z>> \o <<>> = <<x, y, z>> /\ <<z>> \o <<>> = <<z>>
  BY <1>1, ConcatEmptySeq
<1>5. Then(z, <<>>) = <<z>>
  BY <1>4 DEF Then
<1> QED  BY <1>1, <1>3, <1>4, <1>5 DEF Three

(* A list of nine is made of three lists of three.                         *)
LEMMA NineThen ==
  ASSUME NEW a, NEW b, NEW c, NEW d, NEW e, NEW f, NEW g, NEW h, NEW i,
         AreOps(a, b, c), AreOps(d, e, f), AreOps(g, h, i)
  PROVE  Nine(a, b, c, d, e, f, g, h, i)
           = Then(a, Then(b, Then(c, Then(d, Then(e, Then(f, Then(g, Then(h, <<i>>))))))))
<1>1. /\ <<a, b, c>> \in Seq(Ops) /\ Len(<<a, b, c>>) = 3
      /\ <<a, b, c>>[1] = a /\ <<a, b, c>>[2] = b /\ <<a, b, c>>[3] = c
  BY DEF AreOps
<1>2. /\ <<d, e, f>> \in Seq(Ops) /\ Len(<<d, e, f>>) = 3
      /\ <<d, e, f>>[1] = d /\ <<d, e, f>>[2] = e /\ <<d, e, f>>[3] = f
  BY DEF AreOps
<1>3. /\ <<g, h, i>> \in Seq(Ops) /\ Len(<<g, h, i>>) = 3
      /\ <<g, h, i>>[1] = g /\ <<g, h, i>>[2] = h /\ <<g, h, i>>[3] = i
  BY DEF AreOps
<1>4. PICK u \in Seq(Ops) : u = <<d, e, f>> \o <<g, h, i>>
  BY <1>2, <1>3, Cat
<1>5. Len(u) = 6 /\ u[1] = d /\ u[2] = e /\ u[3] = f /\ u[4] = g /\ u[5] = h /\ u[6] = i
  BY <1>2, <1>3, <1>4, ConcatProperties
<1>6. PICK v \in Seq(Ops) : v = <<a, b, c>> \o u
  BY <1>1, Cat
<1>7. /\ Len(v) = 9 /\ v[1] = a /\ v[2] = b /\ v[3] = c /\ v[4] = d /\ v[5] = e
      /\ v[6] = f /\ v[7] = g /\ v[8] = h /\ v[9] = i
  <2>1. PICK t \in Seq(Ops) : t = <<a, b, c>>
    BY <1>1
  <2>2. Len(t) = 3 /\ t[1] = a /\ t[2] = b /\ t[3] = c
    BY <1>1, <2>1
  <2>3. Len(v) = 9 /\ \A j \in 1 .. 9 : v[j] = IF j <= 3 THEN t[j] ELSE u[j - 3]
    <3>1. Len(t \o u) = Len(t) + Len(u)
      BY ConcatProperties
    <3>2. \A j \in 1 .. Len(t) + Len(u) :
            (t \o u)[j] = IF j <= Len(t) THEN t[j] ELSE u[j - Len(t)]
      BY ConcatProperties
    <3> QED  BY <1>5, <1>6, <2>1, <2>2, <3>1, <3>2
  <2>4. v[1] = t[1] /\ v[2] = t[2] /\ v[3] = t[3]
    BY <2>3
  <2>5. v[4] = u[1] /\ v[5] = u[2] /\ v[6] = u[3]
    BY <2>3
  <2>6. v[7] = u[4] /\ v[8] = u[5] /\ v[9] = u[6]
    BY <2>3
  <2> QED  BY <1>5, <2>2, <2>3, <2>4, <2>5, <2>6
<1>8. PICK w : w = <<a, b, c, d, e, f, g, h, i>>
  OBVIOUS
<1>8a. w \in Seq(Ops)
  BY <1>8 DEF AreOps
<1>9. /\ Len(w) = 9 /\ w[1] = a /\ w[2] = b /\ w[3] = c /\ w[4] = d /\ w[5] = e
      /\ w[6] = f /\ w[7] = g /\ w[8] = h /\ w[9] = i
  BY <1>8
<1>10. \A j \in 1 .. 9 : v[j] = w[j]
  <2>1. \A j \in 1 .. 9 : \/ j = 1 \/ j = 2 \/ j = 3 \/ j = 4 \/ j = 5
                          \/ j = 6 \/ j = 7 \/ j = 8 \/ j = 9
    OBVIOUS
  <2> QED  BY <1>7, <1>9, <2>1
<1>11. v = w
  BY <1>7, <1>8a, <1>9, <1>10, SeqEqual
<1>12. <<g, h, i>> = Then(g, Then(h, <<i>>))
  <2>1. Three(g, h, i) = Then(g, Then(h, <<i>>))
    BY TheThree
  <2> QED  BY <2>1 DEF Three
<1>13. u = Then(d, Then(e, Then(f, <<g, h, i>>)))
  <2>1. PICK t \in Seq(Ops) : t = <<g, h, i>>
    BY <1>3
  <2>2. Three(d, e, f) \o t = Then(d, Then(e, Then(f, t)))
    BY ThreeThen
  <2> QED  BY <1>4, <2>1, <2>2 DEF Three
<1>14. v = Then(a, Then(b, Then(c, u)))
  <2>1. Three(a, b, c) \o u = Then(a, Then(b, Then(c, u)))
    BY ThreeThen
  <2> QED  BY <1>6, <2>1 DEF Three
<1> QED  BY <1>8, <1>11, <1>12, <1>13, <1>14 DEF Nine

LEMMA InodeOps ==
  ASSUME Direct, NEW f \in Inodes, NEW k \in Seq(Ops)
  PROVE  /\ commitInodeToInode0(f) \in Seq(Ops)
         /\ commitInodeToInode0(f) \o k = kLoadZ(f, k)
         /\ <<Todo("commitInode"), Todo("keepInode")>> \in Seq(Ops)
         /\ (<<Todo("commitInode"), Todo("keepInode")>> \o commitInodeToInode0(f)) \o k
              = kCommit(f, k)
<1>1. PICK x \in Ops, y \in Ops, z \in Ops :
        /\ x = Do("loadInode0", f, EMPTY) /\ y = Do("votNode", "inode", EMPTY)
        /\ z = Do("writeInode0", f, EMPTY)
  <2>1. f \in Names /\ "inode" \in Names /\ EMPTY \in Args
    BY DEF Names, Args, Addr0, Direct
  <2>2. {"loadInode0", "votNode", "writeInode0"} \subseteq OpNames
    BY DEF OpNames
  <2>3. Do("loadInode0", f, EMPTY) \in Ops
    BY <2>1, <2>2, DoFacts
  <2>4. Do("votNode", "inode", EMPTY) \in Ops
    BY <2>1, <2>2, DoFacts
  <2>5. Do("writeInode0", f, EMPTY) \in Ops
    BY <2>1, <2>2, DoFacts
  <2> QED  BY <2>3, <2>4, <2>5
<1>2. PICK s \in Seq(Ops) : s = <<x, y, z>> /\ s \o k = Then(x, Then(y, Then(z, k)))
  <2>1. <<x, y, z>> \in Seq(Ops)
    OBVIOUS
  <2>2. Three(x, y, z) \o k = Then(x, Then(y, Then(z, k)))
    <3>1. AreOps(x, y, z)
      BY DEF AreOps
    <3> QED  BY <3>1, ThreeThen
  <2> QED  BY <2>1, <2>2 DEF Three
<1>3. s = commitInodeToInode0(f)
  BY <1>1, <1>2 DEF commitInodeToInode0
<1>4. s \o k = kLoadZ(f, k)
  BY <1>1, <1>2 DEF kLoadZ, kVotZ, kWriteZ
<1>5. PICK c \in Ops, d \in Ops : c = Todo("commitInode") /\ d = Todo("keepInode")
  BY AllTodos
<1>5a. <<c, d>> \in Seq(Ops)
  OBVIOUS
<1>6. PICK p : p = <<c, d>> /\ p \in Seq(Ops)
  BY <1>5a
<1>6a. \A q \in Seq(Ops) : p \o q = Then(c, Then(d, q))
  BY <1>6, TwoThen, ZenonT(30)
<1>7. (p \o s) \o k = p \o (s \o k)
  BY CatThree
<1>8. s \o k \in Seq(Ops)
  BY Cat
<1>9. p \o (s \o k) = Then(c, Then(d, s \o k))
  BY <1>6a, <1>8
<1>10. (p \o s) \o k = kCommit(f, k)
  BY <1>4, <1>5, <1>7, <1>9 DEF kCommit, kKeep
<1> QED  BY <1>3, <1>4, <1>5, <1>6, <1>10

LEMMA CommitOps ==
  ASSUME Direct, NEW f \in Inodes
  PROVE  commitTransaction(f) = kCommit(f, kLast) /\ kLast \in Seq(Ops)
<1>1. PICK a \in Ops, b \in Ops, c \in Ops, d \in Ops, e \in Ops, g \in Ops, h \in Ops :
        /\ a = Todo("lastVots") /\ b = Todo("setFs") /\ c = Todo("checkpoint")
        /\ d = Todo("walk") /\ e = Todo("find") /\ g = Todo("finish") /\ h = Todo("return")
  BY AllTodos
<1>2. Nine(a, b, c, d, e, g, c, e, h)
        = Then(a, Then(b, Then(c, Then(d, Then(e, Then(g, Then(c, Then(e, <<h>>))))))))
  <2>1. AreOps(a, b, c) /\ AreOps(d, e, g) /\ AreOps(c, e, h)
    BY DEF AreOps
  <2> QED  BY <2>1, NineThen
<1>3. <<a, b, c, d, e, g, c, e, h>> = kLast
  BY <1>1, <1>2 DEF Nine, kLast, kSetFs, kCp, kWalk, kFind, kFinish, kCp2, kFind2, kRet
<1>4. kLast \in Seq(Ops)
  BY EndFacts
<1>5. (<<Todo("commitInode"), Todo("keepInode")>> \o commitInodeToInode0(f)) \o kLast
        = kCommit(f, kLast)
  BY <1>4, InodeOps
<1> QED  BY <1>1, <1>3, <1>4, <1>5 DEF commitTransaction

LEMMA DirProgram ==
  ASSUME Direct, NEW f \in Inodes, NEW e \in Values
  PROVE  /\ (<<Todo("commitInode"), Todo("keepInode")>> \o commitInodeToInode0(f))
              \o DirOps(e) = kCommit(f, kDir(e))
         /\ commitInodeToInode0(f) \o DirOps(e) = kLoadZ(f, kDir(e))
         /\ DirOps(e) = kDir(e) /\ kDir(e) \in Seq(Ops)
<1>1. Dir \in Inodes /\ "b0" \in Blocks
  BY DirectFacts
<1>2. commitTransaction(Dir) = kDirCommit /\ kDirCommit \in Seq(Ops)
  BY <1>1, CommitOps, DirFacts DEF kDirCommit
<1>3. PICK x \in Ops, y \in Ops, z \in Ops :
        /\ x = Todo("turnToDir") /\ y = Do("seek", "b0", EMPTY)
        /\ z = Do("writeData", "b0", e)
  <2>1. "b0" \in Names /\ EMPTY \in Args /\ e \in Args
    BY <1>1 DEF Names, Args, Addr0
  <2>2. {"seek", "writeData"} \subseteq OpNames
    BY DEF OpNames
  <2>3. Do("seek", "b0", EMPTY) \in Ops
    BY <2>1, <2>2, DoFacts
  <2>4. Do("writeData", "b0", e) \in Ops
    BY <2>1, <2>2, DoFacts
  <2> QED  BY <2>3, <2>4, AllTodos
<1>4. PICK q \in Seq(Ops) : q = kDirCommit
  BY <1>2
<1>5. Three(x, y, z) \o q = Then(x, Then(y, Then(z, q)))
  <2>1. AreOps(x, y, z)
    BY DEF AreOps
  <2> QED  BY <2>1, ThreeThen
<1>6. DirOps(e) = kDir(e)
  BY <1>2, <1>3, <1>4, <1>5 DEF Three, DirOps, kDir, kSeek, kData
<1>7. kDir(e) \in Seq(Ops)
  BY DirFacts
<1> QED  BY <1>6, <1>7, InodeOps

LEMMA WriteOps ==
  ASSUME Direct, NEW b \in Blocks, NEW e \in Values
  PROVE  <<Do("seek", b, EMPTY), Do("writeData", b, e), Todo("return")>> = kSeek(b, e, kRet)
<1>1. PICK x \in Ops, y \in Ops, z \in Ops :
        /\ x = Do("seek", b, EMPTY) /\ y = Do("writeData", b, e) /\ z = Todo("return")
  <2>1. b \in Names /\ EMPTY \in Args /\ e \in Args
    BY DEF Names, Args, Addr0
  <2>2. {"seek", "writeData"} \subseteq OpNames
    BY DEF OpNames
  <2>3. Do("seek", b, EMPTY) \in Ops
    BY <2>1, <2>2, DoFacts
  <2>4. Do("writeData", b, e) \in Ops
    BY <2>1, <2>2, DoFacts
  <2> QED  BY <2>3, <2>4, AllTodos
<1>2. Three(x, y, z) = Then(x, Then(y, <<z>>))
  <2>1. AreOps(x, y, z)
    BY DEF AreOps
  <2> QED  BY <2>1, TheThree
<1> QED  BY <1>1, <1>2 DEF Three, kSeek, kData, kRet
-----------------------------------------------------------------------------
(* Calls.                                                                  *)

(* No call runs: every transaction is unused or in use.                    *)
LEMMA Resting ==
  ASSUME Direct, TransInv, todo = <<>>
  PROVE  /\ TypeInv /\ TreeKept
         /\ \E own, vw \in Owned, C, D \in AddrSets : AtRest(own, vw) /\ Recoverable(C, D)
<1>1. PICK C \in AddrSets, D \in AddrSets : Recoverable(C, D)
  BY DEF TransInv
<1>2. IsRunning
  <2>1. ASSUME NEW C0 \in AddrSets, NEW D0 \in AddrSets, NEW Y \in Seq(Ops),
               BootingFrom(C0, D0, Y)
        PROVE  FALSE
    BY <2>1, BootHead
  <2> QED  BY <2>1 DEF TransInv, IsRunning
<1>3. PICK own \in Owned, vw \in Owned, A \in Seq(Ops), X \in Seq(Ops), m \in Seq(Ops) :
        Running(own, vw, A, X, m)
  BY <1>2 DEF IsRunning
<1>4. A = <<>> /\ X = <<>> /\ m = <<>>
  <2>1. todo = A \o (X \o m)
    BY <1>3 DEF Running, Shape
  <2>2. X \o m \in Seq(Ops)
    BY Cat
  <2>3. A = <<>>
    BY <2>1, <2>2, Cat
  <2>4. X \o m = <<>>
    BY <2>1, <2>2, <2>3, Cat
  <2>5. X = <<>>
    BY <2>4, Cat
  <2> QED  BY <2>3, <2>4, <2>5, Cat
<1>5. T \in Tids => Stable(own, vw, T)
  <2>1. ASSUME T \in Tids PROVE Stable(own, vw, T)
    <3>1. MineOK(own, vw, A, X, m)
      BY <1>3, <2>1 DEF Running
    <3>2. RestPhase(own, vw, X, m) \/ UncommittedPhase(own, vw, X, m) \/ WalkPhase(own, X, m)
      BY <1>4, <3>1 DEF MineOK, Dying
    <3>3. ~ UncommittedPhase(own, vw, X, m)
      BY <1>4, MainHead DEF UncommittedPhase
    <3>4. ~ WalkPhase(own, X, m)
      <4>1. \A a \in Addr0 : kVots(a) # <<>>
        BY VotsFacts
      <4>2. own[T] \cup {EMPTY} \subseteq Addr0
        BY <2>1 DEF Owned, AddrSets, Addr0
      <4> QED  BY <1>4, <4>1, <4>2, EndFacts DEF WalkPhase
    <3> QED  BY <3>2, <3>3, <3>4 DEF RestPhase
  <2> QED  BY <2>1
<1>6. /\ FsOK(m) /\ VotsBound(A, X) /\ Owners(own) /\ OthersOK(own, vw, A)
  BY <1>3 DEF Running
<1>7. \A t \in Tids : Stable(own, vw, t)
  BY <1>4, <1>5, <1>6 DEF OthersOK, Dying
<1>8. \A t \in Tids : Len(tr[t].vots) <= VotsPerPage /\ Len(tr[t].vots) # VotsPerPage
  BY <1>4, <1>6 DEF VotsBound, Dying
<1>9. fs.ino0 = Root /\ fs.closed = EMPTY
  BY <1>4, <1>6, ClosedFacts, WindowFacts DEF FsOK
<1>10. AtRest(own, vw)
  BY <1>6, <1>7, <1>8, <1>9 DEF AtRest, Owners
<1> QED  BY <1>1, <1>10 DEF TransInv

(* What a call leaves alone: the transactions but t.                       *)
CallMove(own, vw, vw2, t, X, m) ==
  /\ AtRest(own, vw)
  /\ UNCHANGED <<pages, obs, saved, marked, fs>>
  /\ tr' \in [Tids -> TrSet] /\ call' \in CallSet /\ intent' \in [Tids -> ChangeSet]
  /\ call'.tid = t /\ tr'[t].prev = tr[t].prev /\ tr'[t].vots = tr[t].vots
  /\ \A u \in Tids \ {t} : /\ vw2[u] = vw[u] /\ tr'[u] = tr[u] /\ intent'[u] = intent[u]
                           /\ DOMAIN intent'[t] \cap DOMAIN intent[u] = {}
  /\ todo' = X \o m
  /\ m # <<>> /\ Head(m).op \notin {"checkpoint", "lastVots", "setFs"}
  /\ Votes(own, vw2, t)' /\ MainPhase(own, vw2, m)' /\ Between(own, vw2, X)'

LEMMA CallRuns ==
  ASSUME NEW own \in Owned, NEW vw \in Owned, NEW vw2 \in Owned, NEW t \in Tids,
         NEW X \in Seq(Ops), NEW m \in Seq(Ops), NEW C \in AddrSets, NEW D \in AddrSets,
         Direct, TypeInv, TreeKept, Recoverable(C, D), CallMove(own, vw, vw2, t, X, m)
  PROVE  TransInv'
<1>1. /\ AtRest(own, vw) /\ UNCHANGED <<pages, obs, saved, marked, fs>>
      /\ tr' \in [Tids -> TrSet] /\ call' \in CallSet /\ intent' \in [Tids -> ChangeSet]
      /\ call'.tid = t /\ tr'[t].prev = tr[t].prev /\ tr'[t].vots = tr[t].vots
      /\ \A u \in Tids \ {t} : /\ vw2[u] = vw[u] /\ tr'[u] = tr[u]
                               /\ intent'[u] = intent[u]
                               /\ DOMAIN intent'[t] \cap DOMAIN intent[u] = {}
      /\ todo' = X \o m
      /\ m # <<>> /\ Head(m).op \notin {"checkpoint", "lastVots", "setFs"}
      /\ Votes(own, vw2, t)' /\ MainPhase(own, vw2, m)' /\ Between(own, vw2, X)'
  BY DEF CallMove
<1>2. SameTree
  BY <1>1, SameSaved
<1>3. TypeInv'
  <2>1. X \o m \in Seq(Ops)
    BY Cat
  <2> QED  BY <1>1, <2>1 DEF TypeInv
<1>4. TreeKept' /\ Recoverable(C, D)'
  <2>1. PagesKept({}) /\ Tree0 \cap (obs' \cup marked') = {}
    BY <1>1 DEF PagesKept, TreeKept
  <2> QED  BY <1>1, <2>1, FlashKept
<1>5. T' = t
  BY <1>1 DEF T
<1>6. \A u \in Tids \ {t} : Stable(own, vw2, u)'
  <2>1. SUFFICES ASSUME NEW u \in Tids \ {t} PROVE Stable(own, vw2, u)'
    OBVIOUS
  <2>2. LeavesAlone(own, own, vw, vw2, u) /\ obs' \cap own[u] \subseteq obs
    BY <1>1, <1>2 DEF LeavesAlone, PagesKept
  <2>3. Stable(own, vw, u)
    BY <1>1 DEF AtRest
  <2> QED  BY <2>2, <2>3, StableKept
<1>7. m \notin {kLast, kSetFs, kCp}
  BY <1>1, EndHeads
<1>8. UncommittedPhase(own, vw2, X, m)'
  <2>1. LiveOwn(own, t)'
    <3>1. LiveOwn(own, t)
      BY <1>1 DEF AtRest, Stable
    <3> QED  BY <1>1, <1>2, <3>1 DEF LiveOwn, SameTree
  <2>2. LiveOwn(own, T)' /\ Votes(own, vw2, T)'
    BY <1>1, <1>5, <2>1, AtT
  <2> QED  BY <1>1, <1>7, <2>2 DEF UncommittedPhase
<1>9. ~ InWindow(m)' /\ m # kCp
  BY <1>7 DEF InWindow
<1>10. Shape(<<>>, X, m)'
  <2>1. X \o m \in Seq(Ops) /\ <<>> \o (X \o m) = X \o m /\ <<>> \in Seq(Ops)
    BY Cat
  <2> QED  BY <1>1, <1>5, <2>1 DEF Shape, IsAbort
<1>11. FsOK(m)'
  <2>1. fs'.ino0 = Root' /\ fs'.closed = EMPTY
    BY <1>1, <1>2 DEF AtRest, SameTree
  <2> QED  BY <1>9, <2>1 DEF FsOK
<1>12. VotsBound(<<>>, X)'
  <2>1. \A u \in Tids : tr'[u].vots = tr[u].vots
    BY <1>1
  <2> QED  BY <1>1, <2>1 DEF VotsBound, AtRest
<1>13. Owners(own)'
  <2>1. \A u \in Tids : OwnChain(own, u) /\ tr'[u].prev = tr[u].prev
    BY <1>1 DEF AtRest
  <2>2. \A u \in Tids : OwnChain(own, u)'
    BY <1>1, <2>1 DEF OwnChain
  <2>3. \A u, w \in Tids : u # w => own[u] \cap own[w] = {}
    BY <1>1 DEF AtRest
  <2>4. \A u, w \in Tids : u # w => DOMAIN intent[u] \cap DOMAIN intent[w] = {}
    BY <1>1 DEF AtRest
  <2>5. \A u, w \in Tids : u # w => DOMAIN intent'[u] \cap DOMAIN intent'[w] = {}
    BY <1>1, <2>4
  <2> QED  BY <2>2, <2>3, <2>5 DEF Owners
<1>14. OthersOK(own, vw2, <<>>)'
  BY <1>5, <1>6 DEF OthersOK, Dying
<1>15. MineOK(own, vw2, <<>>, X, m)'
  BY <1>8 DEF MineOK, Dying
<1>16. Running(own, vw2, <<>>, X, m)' /\ <<>> \in Seq(Ops)
  BY <1>10, <1>11, <1>12, <1>13, <1>14, <1>15 DEF Running
<1> QED  BY <1>3, <1>4, <1>16 DEF TransInv

(* Between calls: the files of the checkpoint are those of the flash, and  *)
(* a transaction is unused or of a regular file.                           *)
LEMMA IdleFacts ==
  ASSUME NEW own \in Owned, NEW vw \in Owned, Direct, TypeInv, TreeKept, AtRest(own, vw)
  PROVE  /\ \A f \in Inodes : /\ ContentsOf(pages, obs, fs.ino0, f) = Cont0(f)
                              /\ InodeAddr(pages, fs.ino0, f) = Ref0[f]
                              /\ Cont0(f) \in Contents
                              /\ Ref0[f] # EMPTY => Cont0(f) \in Filled
         /\ \A t \in Tids : tr[t].ino = NoInode => Unused(own, t)
         /\ \A t \in Tids : tr[t].ino # NoInode => InUse(own, vw, t)
<1>1. \A f \in Inodes : /\ ContentsOf(pages, obs, fs.ino0, f) = Cont0(f)
                        /\ InodeAddr(pages, fs.ino0, f) = Ref0[f]
                        /\ Cont0(f) \in Contents
                        /\ Ref0[f] # EMPTY => Cont0(f) \in Filled
  <2>1. PICK P, r, gone : P = pages /\ r = Root /\ gone = obs
    OBVIOUS
  <2>2. /\ GoodTree(P, r) /\ Tree(P, r) \cap gone = {} /\ P \in [Addr -> PageSet]
        /\ P[r].ref = Ref0
    BY <2>1, TreeFacts DEF TreeKept, TypeInv
  <2>3. \A f \in Inodes : /\ ContentsOf(P, gone, r, f) = FileCont(P, P[r].ref[f])
                          /\ InodeAddr(P, r, f) = P[r].ref[f]
                          /\ FileCont(P, P[r].ref[f]) \in Contents
    BY <2>2, ContentsOfTree
  <2>3a. \A f \in Inodes : P[r].ref[f] # EMPTY => FileCont(P, P[r].ref[f]) \in Filled
    BY <2>2, FilledTree
  <2>4. \A f \in Inodes : FileCont(P, Ref0[f]) = Cont0(f)
    BY <2>1, TreeFacts
  <2>5. fs.ino0 = r
    BY <2>1 DEF AtRest
  <2> QED  BY <2>1, <2>2, <2>3, <2>3a, <2>4, <2>5
<1>2. \A t \in Tids : Unused(own, t) \/ InUse(own, vw, t)
  BY DEF AtRest, Stable
<1>3. \A t \in Tids : Unused(own, t) => tr[t].ino = NoInode
  BY DEF Unused, EmptyTr
<1>4. \A t \in Tids : InUse(own, vw, t) => tr[t].ino # NoInode
  <2>1. NoInode \notin Files
    BY TransactionsAssumption DEF NoInode
  <2> QED  BY <2>1 DEF InUse, OfFile
<1> QED  BY <1>1, <1>2, <1>3, <1>4

(* fsync() and close().                                                    *)
LEMMA CommitCall ==
  ASSUME Direct, TransInv, NEW f \in Files, Commit(f)
  PROVE  TransInv'
<1>1. todo = <<>> /\ TidsOf(f) # {}
  BY DEF Commit, Called, Ready
<1>2. TypeInv /\ TreeKept
  BY <1>1, Resting
<1>3. PICK own \in Owned, vw \in Owned, C \in AddrSets, D \in AddrSets :
        AtRest(own, vw) /\ Recoverable(C, D)
  BY <1>1, Resting
<1>4. PICK t \in Tids : t = First(TidsOf(f)) /\ tr[t].ino = f
  <2>1. First(TidsOf(f)) \in TidsOf(f)
    BY <1>1, FirstFacts DEF TidsOf
  <2> QED  BY <2>1 DEF TidsOf
<1>5. PICK r : r = [tr[t] EXCEPT !.isCommiting = TRUE]
  OBVIOUS
<1>5a. tr[t] \in TrSet
  BY <1>2 DEF TypeInv
<1>6. r \in TrSet
  BY <1>5, <1>5a DEF TrSet
<1>7. /\ r.ino = tr[t].ino /\ r.prev = tr[t].prev /\ r.inoAddr = tr[t].inoAddr
      /\ r.vots = tr[t].vots /\ r.node = tr[t].node /\ r.ptrs = tr[t].ptrs
  BY <1>5, <1>5a DEF TrSet
<1>8. tr' = [tr EXCEPT ![t] = r]
  BY <1>2, <1>4, <1>5 DEF Commit, TypeInv, TrSet
<1>9. /\ tr' \in [Tids -> TrSet] /\ tr'[t] = r /\ \A u \in Tids \ {t} : tr'[u] = tr[u]
  BY <1>2, <1>6, <1>8 DEF TypeInv
<1>10. UNCHANGED <<pages, obs, saved, marked, fs, intent>>
  BY DEF Commit, flashVars
<1>11. /\ call' \in CallSet /\ call'.tid = t /\ call'.ino0 = Root /\ call'.own = TRUE
       /\ call'.file = NoInode
  <2>1. call' = [NoCall EXCEPT !.tid = t, !.ino0 = fs.ino0, !.own = TRUE]
    BY <1>4 DEF Commit
  <2>2. t \in Nat
    <3>1. Cardinality(Tids) \in Nat
      BY TransactionsAssumption, FS_CardinalityType
    <3>2. t \in 0 .. Cardinality(Tids) - 1
      BY TransactionsAssumption
    <3> QED  BY <3>1, <3>2
  <2>3. fs.ino0 = Root /\ fs.ino0 \in Addr0
    BY <1>2, <1>3 DEF AtRest, TypeInv, FsSet, Addr0
  <2> QED  BY <2>1, <2>2, <2>3 DEF NoCall, CallSet, Addr0
<1>12. PICK m \in Seq(Ops) : m = kCommit(f, kLast) /\ todo' = m /\ kLast \in Seq(Ops)
  <2>1. f \in Inodes
    BY DEF Inodes
  <2>2. commitTransaction(f) = kCommit(f, kLast) /\ kLast \in Seq(Ops)
    BY <2>1, CommitOps
  <2>3. kCommit(f, kLast) \in Seq(Ops)
    BY <2>1, <2>2, PassFacts
  <2> QED  BY <2>2, <2>3 DEF Commit
<1>13. SameTree /\ T' = t
  BY <1>10, <1>11, SameSaved DEF T
<1>14. InUse(own, vw, t) /\ f \in Inodes /\ f # Dir
  <2>1. tr[t].ino # NoInode
    BY <1>4, TransactionsAssumption DEF NoInode
  <2> QED  BY <1>2, <1>3, <2>1, IdleFacts, DirectFacts
<1>15. OpenFile(own, vw, t)'
  <2>1. SameFile(t) /\ PagesKept(own[t]) /\ NotData(EMPTY)
    BY <1>7, <1>9, <1>10 DEF SameFile, PagesKept, NotData
  <2>2. vw[t] \subseteq vw[t] \cup ({EMPTY} \ {EMPTY})
    OBVIOUS
  <2> QED  BY <1>2, <1>13, <1>14, <2>1, <2>2, OpenFileKept DEF InUse
<1>16. Votes(own, vw, t)'
  <2>1. Votes(own, vw, t) /\ MayVote(own, t) \subseteq MayVote(own, t)'
    <3>1. intent'[t] = intent[t] /\ own[t] \subseteq own[t]
      BY <1>10
    <3> QED  BY <1>2, <1>13, <1>14, <3>1, MayVoteKept DEF InUse
  <2>2. VotsOf(own, t)' = VotsOf(own, t)
    BY <1>7, <1>9, <1>10 DEF VotsOf
  <2> QED  BY <2>1, <2>2 DEF Votes
<1>17. MainPhase(own, vw, m)'
  <2>1. Pass(vw, f, kLast)'
    <3>1. DOMAIN intent'[T'] = {f}
      BY <1>4, <1>10, <1>13, <1>14 DEF InUse, OfFile
    <3> QED  BY <1>11, <3>1 DEF Pass, FileCommit
  <2>2. BaseOK(own, vw, f)'
    <3>1. pages'[Root].kind = "ino0" /\ pages'[Root].ref = Ref0
      BY <1>2, <1>10, TreeFacts
    <3>2. pages'[call'.ino0].kind = "ino0" /\ pages'[call'.ino0].ref = Ref0' /\ Root' = Root
      BY <1>11, <1>13, <3>1 DEF SameTree
    <3> QED  BY <1>11, <1>14, <3>2 DEF BaseOK, IsRoot, BaseRef
  <2>3. CommitInodePhase(own, vw, f, kLast, m)'
    <3>1. OpenFile(own, vw, T)'
      BY <1>13, <1>15, AtT
    <3>2. tr'[T'].ino = f /\ tr'[T'].node = "inode" /\ tr'[T'].ptrs = tr[t].ptrs
      BY <1>4, <1>7, <1>9, <1>13, <1>14 DEF InUse
    <3>3. intent'[T'][f] = ContOf(pages, tr[t].ptrs)
      BY <1>4, <1>10, <1>13, <1>14 DEF InUse
    <3>4. intent'[T'][f] = ContOf(pages, tr[T].ptrs)'
      BY <1>10, <3>2, <3>3 DEF ContOf
    <3>5. f # call'.file
      BY <1>11, TransactionsAssumption DEF NoInode
    <3> QED  BY <1>12, <2>2, <3>1, <3>2, <3>4, <3>5 DEF CommitInodePhase
  <2> QED  BY <1>12, <1>14, <2>1, <2>3 DEF MainPhase, PassPhase
<1>18. m # <<>> /\ Head(m).op \notin {"checkpoint", "lastVots", "setFs"}
  <2>1. m # <<>> /\ Head(m) = Todo("commitInode")
    BY <1>12, <1>14, PassFacts
  <2> QED  BY <2>1, AllTodos
<1>18a. <<>> \in Seq(Ops)
  OBVIOUS
<1>19. PICK X \in Seq(Ops) : X = <<>>
  BY <1>18a
<1>20. todo' = X \o m /\ Between(own, vw, X)'
  BY <1>12, <1>19, Cat DEF Between
<1>21. \A u \in Tids \ {t} : DOMAIN intent'[t] \cap DOMAIN intent[u] = {}
  BY <1>3, <1>10 DEF AtRest
<1>22. intent' \in [Tids -> ChangeSet]
  BY <1>2, <1>10 DEF TypeInv
<1>23. CallMove(own, vw, vw, t, X, m)
  BY <1>3, <1>7, <1>9, <1>10, <1>11, <1>16, <1>17, <1>18, <1>20, <1>21, <1>22 DEF CallMove
<1> QED  BY <1>2, <1>3, <1>23, CallRuns

(* nandfs_write() of block b.                                              *)
LEMMA WriteCall ==
  ASSUME Direct, TransInv, NEW f \in Files, NEW b \in Blocks, NEW v \in Data, Write(f, b, v)
  PROVE  TransInv'
<1>1. todo = <<>> /\ Exists(f) /\ TidsOf(f) \cup FreeTids # {}
  BY DEF Write, Called, Ready
<1>2. TypeInv /\ TreeKept
  BY <1>1, Resting
<1>3. PICK own \in Owned, vw \in Owned, C \in AddrSets, D \in AddrSets :
        AtRest(own, vw) /\ Recoverable(C, D)
  BY <1>1, Resting
<1>4. f \in Inodes /\ f # Dir /\ f # NoInode
  BY TransactionsAssumption, DirectFacts DEF NoInode
<1>5. /\ InodeAddr(pages, fs.ino0, f) = Ref0[f] /\ Ref0[f] \in Addr0 /\ Ref0[f] # EMPTY
      /\ ContentsOf(pages, obs, fs.ino0, f) = Cont0(f) /\ Cont0(f) \in Contents
  <2>1. Ref0 \in [Inodes -> Addr0]
    BY <1>2, TreeFacts
  <2> QED  BY <1>1, <1>2, <1>3, <1>4, <2>1, IdleFacts DEF Exists
<1>6. PICK t \in Tids :
        /\ t = IF TidsOf(f) # {} THEN First(TidsOf(f)) ELSE First(FreeTids)
        /\ TidsOf(f) # {} => tr[t].ino = f
        /\ TidsOf(f) = {} => tr[t].ino = NoInode
  <2>1. TidsOf(f) # {} => First(TidsOf(f)) \in TidsOf(f)
    BY FirstFacts DEF TidsOf
  <2>2. TidsOf(f) = {} => First(FreeTids) \in FreeTids
    BY <1>1, FirstFacts DEF FreeTids
  <2> QED  BY <2>1, <2>2 DEF TidsOf, FreeTids, IS_TRANSACTION_EMPTY
<1>7. PICK i \in Addr0 : i = IF TidsOf(f) # {} THEN tr[t].inoAddr ELSE Ref0[f]
  BY <1>2, <1>5 DEF TypeInv, TrSet
<1>8. PICK r : r = [tr[t] EXCEPT !.type = T_TYPE_WRITE, !.ino = f, !.inoAddr = i]
  OBVIOUS
<1>9. r \in TrSet
  <2>1. tr[t] \in TrSet
    BY <1>2 DEF TypeInv
  <2>2. PICK r1 : r1 = [tr[t] EXCEPT !.type = T_TYPE_WRITE]
    OBVIOUS
  <2>3. r1 \in TrSet
    BY <2>1, <2>2 DEF TrSet
  <2>4. PICK r2 : r2 = [r1 EXCEPT !.ino = f]
    OBVIOUS
  <2>5. r2 \in TrSet
    BY <1>4, <2>3, <2>4 DEF TrSet
  <2>6. [r2 EXCEPT !.inoAddr = i] \in TrSet
    BY <2>5 DEF TrSet
  <2>7. r = [r2 EXCEPT !.inoAddr = i]
    BY <1>8, <2>2, <2>4
  <2> QED  BY <2>6, <2>7
<1>10. /\ r.ino = f /\ r.prev = tr[t].prev /\ r.inoAddr = i
       /\ r.vots = tr[t].vots /\ r.node = tr[t].node /\ r.ptrs = tr[t].ptrs
  BY <1>2, <1>8 DEF TypeInv, TrSet
<1>11. tr' = [tr EXCEPT ![t] = r]
  <2>1. tr' = [tr EXCEPT ![t].type = T_TYPE_WRITE, ![t].ino = f,
                 ![t].inoAddr = IF TidsOf(f) # {} THEN @ ELSE InodeAddr(pages, fs.ino0, f)]
    BY <1>6 DEF Write
  <2> QED  BY <1>2, <1>5, <1>7, <1>8, <2>1 DEF TypeInv, TrSet
<1>12. tr' \in [Tids -> TrSet] /\ tr'[t] = r /\ \A u \in Tids \ {t} : tr'[u] = tr[u]
  BY <1>2, <1>9, <1>11 DEF TypeInv
<1>13. UNCHANGED <<pages, obs, saved, marked, fs>>
  BY DEF Write, flashVars
<1>14. call' \in CallSet /\ call'.tid = t /\ call'.file = NoInode
  <2>1. call' = [NoCall EXCEPT !.tid = t]
    BY <1>6 DEF Write
  <2>2. t \in Nat
    <3>1. Cardinality(Tids) \in Nat
      BY TransactionsAssumption, FS_CardinalityType
    <3>2. t \in 0 .. Cardinality(Tids) - 1
      BY TransactionsAssumption
    <3> QED  BY <3>1, <3>2
  <2> QED  BY <2>1, <2>2 DEF NoCall, CallSet, Addr0
<1>15. PICK e \in Values : e = {v}
  BY DEF Values, Vals
<1>16. PICK m \in Seq(Ops) : m = kSeek(b, e, kRet) /\ todo' = m /\ kRet \in Seq(Ops)
  <2>1. kRet \in Seq(Ops)
    BY RetFacts
  <2>2. todo' = kSeek(b, e, kRet)
    BY <1>15, WriteOps DEF Write
  <2>3. kSeek(b, e, kRet) \in Seq(Ops)
    BY <2>1, DataFacts
  <2> QED  BY <2>1, <2>2, <2>3
<1>17. SameTree /\ T' = t
  BY <1>13, <1>14, SameSaved DEF T
<1>18. \E vw2 \in Owned :
         /\ \A u \in Tids \ {t} : vw2[u] = vw[u]
         /\ Root \notin vw2[t] /\ OpenFile(own, vw2, t)' /\ Votes(own, vw2, t)'
         /\ DOMAIN intent'[t] = {f} /\ intent' \in [Tids -> ChangeSet]
         /\ \A u \in Tids \ {t} : intent'[u] = intent[u] /\ f \notin DOMAIN intent[u]
         /\ intent'[t][f] = [ContOf(pages, PtrsNow(t))' EXCEPT ![b] = e]
  <2>1. PICK d : d = [SeenBy(t, f) EXCEPT ![b] = e]
    OBVIOUS
  <2>2. intent' = [intent EXCEPT ![t] = [g \in DOMAIN intent[t] \cup {f} |->
                     IF g = f THEN d ELSE intent[t][g]]]
    BY <1>6, <1>15, <2>1 DEF Write, Intends
  <2>3. \A u \in Tids \ {t} : intent'[u] = intent[u]
    BY <1>2, <2>2 DEF TypeInv
  <2>4. ASSUME DOMAIN intent[t] \subseteq {f}, SeenBy(t, f) \in Contents
        PROVE  /\ DOMAIN intent'[t] = {f} /\ intent' \in [Tids -> ChangeSet]
               /\ intent'[t][f] = d
    <3>1. PICK c : c = [g \in {f} |-> d]
      OBVIOUS
    <3>2. intent' = [intent EXCEPT ![t] = c]
      <4>1. DOMAIN intent[t] \cup {f} = {f}
        BY <2>4
      <4>2. [g \in {f} |-> IF g = f THEN d ELSE intent[t][g]] = c
        BY <3>1
      <4> QED  BY <2>2, <4>1, <4>2
    <3>3. d \in Contents
      <4>1. e \in SUBSET (Files \cup Data \cup {"lost", "none"})
        BY <1>15
      <4> QED  BY <2>1, <2>4, <4>1 DEF Contents
    <3>4. c \in [{f} -> Contents] /\ {f} \in SUBSET Inodes
      BY <1>4, <3>1, <3>3
    <3>5. c \in ChangeSet
      BY <3>4 DEF ChangeSet
    <3> QED  BY <1>2, <3>1, <3>2, <3>5 DEF TypeInv
  <2>5. CASE TidsOf(f) # {}
    <3>1. tr[t].ino = f /\ i = tr[t].inoAddr /\ InUse(own, vw, t)
      BY <1>2, <1>3, <1>4, <1>6, <1>7, <2>5, IdleFacts
    <3>2. DOMAIN intent[t] = {f} /\ SeenBy(t, f) = ContOf(pages, tr[t].ptrs)
      BY <3>1 DEF InUse, OfFile, SeenBy
    <3>3. SeenBy(t, f) \in Contents
      <4>1. intent[t][f] \in Contents
        <5>1. PICK S \in SUBSET Inodes : intent[t] \in [S -> Contents]
          BY <1>2 DEF TypeInv, ChangeSet
        <5> QED  BY <3>2, <5>1
      <4> QED  BY <3>2, <4>1 DEF SeenBy
    <3>4. /\ DOMAIN intent'[t] = {f} /\ intent' \in [Tids -> ChangeSet]
          /\ intent'[t][f] = d
      BY <2>4, <3>2, <3>3
    <3>5. OpenFile(own, vw, t)'
      <4>1. SameFile(t) /\ PagesKept(own[t]) /\ NotData(EMPTY)
        BY <1>10, <1>12, <1>13, <3>1 DEF SameFile, PagesKept, NotData
      <4>2. vw[t] \subseteq vw[t] \cup ({EMPTY} \ {EMPTY})
        OBVIOUS
      <4> QED  BY <1>2, <1>17, <3>1, <4>1, <4>2, OpenFileKept DEF InUse
    <3>6. Votes(own, vw, t)'
      <4>1. MayVote(own, t)' = own[t] \cup {Root} \cup Pages0(f)
        BY <1>4, <1>17, <3>4 DEF MayVote, SameTree
      <4>2. MayVote(own, t) = own[t] \cup {Root} \cup Pages0(f)
        BY <3>2 DEF MayVote
      <4>3. VotsOf(own, t)' = VotsOf(own, t)
        BY <1>10, <1>12, <1>13 DEF VotsOf
      <4> QED  BY <3>1, <4>1, <4>2, <4>3 DEF Votes, InUse
    <3>7. ContOf(pages, PtrsNow(t))' = SeenBy(t, f)
      <4>1. PtrsNow(t)' = tr[t].ptrs
        BY <1>10, <1>12, <3>1 DEF PtrsNow, InUse
      <4> QED  BY <1>13, <3>2, <4>1 DEF ContOf
    <3>8. \A u \in Tids \ {t} : f \notin DOMAIN intent[u]
      BY <1>3, <3>2 DEF AtRest
    <3> QED  BY <2>1, <2>3, <3>1, <3>4, <3>5, <3>6, <3>7, <3>8 DEF InUse
  <2>6. CASE TidsOf(f) = {}
    <3>1. i = Ref0[f] /\ Unused(own, t)
      BY <1>2, <1>3, <1>4, <1>6, <1>7, <2>6, IdleFacts
    <3>2. /\ tr[t].node = "none" /\ tr[t].vots = <<>> /\ own[t] = {}
          /\ DOMAIN intent[t] = {}
      BY <3>1 DEF Unused, EmptyTr, NoChange
    <3>3. SeenBy(t, f) = Cont0(f)
      BY <1>5, <3>2 DEF SeenBy
    <3>4. /\ DOMAIN intent'[t] = {f} /\ intent' \in [Tids -> ChangeSet]
          /\ intent'[t][f] = d
      BY <1>5, <2>4, <3>2, <3>3
    <3>5. PICK vw2 \in Owned : vw2 = [vw EXCEPT ![t] = {}]
      BY DEF Owned, AddrSets
    <3>6. vw2[t] = {} /\ \A u \in Tids \ {t} : vw2[u] = vw[u]
      BY <3>5 DEF Owned
    <3>7. PtrsNow(t)' = pages[Ref0[f]].ref
      <4>1. tr'[t].node = "none" /\ tr'[t].inoAddr = Ref0[f]
        BY <1>10, <1>12, <3>1, <3>2
      <4> QED  BY <1>5, <1>13, <4>1 DEF PtrsNow, ReadNode
    <3>8. /\ FilePages(pages, Ref0[f]) = Pages0(f) /\ FileCont(pages, Ref0[f]) = Cont0(f)
          /\ GoodFile(pages, Ref0[f]) /\ pages[Ref0[f]].ref \in [Blocks -> Addr0]
      BY <1>2, <1>4, <1>5, TreeFacts
    <3>9. OpenFile(own, vw2, t)'
      <4>1. tr'[t].ino = f /\ tr'[t].inoAddr = Ref0'[f] /\ tr'[t].node = "none"
        BY <1>10, <1>12, <1>17, <3>1, <3>2 DEF SameTree
      <4>2. Pointers(own, vw2, t, pages[Ref0[f]].ref, f)
        BY <1>5, <3>6, <3>8 DEF Pointers, GoodFile, FilePages
      <4>3. Pointers(own, vw2, t, pages[Ref0[f]].ref, f)'
        <5>1. PICK q : q = pages[Ref0[f]].ref
          OBVIOUS
        <5>2. Pointers(own, vw2, t, q, f)'
          BY <1>4, <1>13, <1>17, <4>2, <5>1 DEF Pointers, SameTree
        <5>3. pages'[Ref0'[f]].ref = q
          BY <1>13, <1>17, <5>1 DEF SameTree
        <5> QED  BY <5>2, <5>3
      <4>4. Pointers(own, vw2, t, PtrsNow(t), f)'
        <5>1. PICK q : q = pages[Ref0[f]].ref
          OBVIOUS
        <5>2. pages'[Ref0'[f]].ref = q /\ PtrsNow(t)' = q
          BY <1>13, <1>17, <3>7, <5>1 DEF SameTree
        <5>3. Pointers(own, vw2, t, q, f)'
          BY <4>3, <5>2
        <5> QED  BY <5>2, <5>3
      <4> QED  BY <1>4, <4>1, <4>4 DEF OpenFile
    <3>10. Votes(own, vw2, t)'
      <4>1. VotsOf(own, t)' = {}
        <5>1. tr'[t].vots = <<>>
          BY <1>10, <1>12, <3>2
        <5> QED  BY <3>2, <5>1 DEF VotsOf
      <4> QED  BY <3>6, <4>1 DEF Votes
    <3>11. ContOf(pages, PtrsNow(t))' = SeenBy(t, f)
      <4>1. ContOf(pages, PtrsNow(t))' = ContOf(pages, pages[Ref0[f]].ref)
        BY <1>13, <3>7 DEF ContOf
      <4> QED  BY <1>5, <3>3, <3>8, <4>1 DEF FileCont
    <3>12. \A u \in Tids \ {t} : f \notin DOMAIN intent[u]
      <4>1. SUFFICES ASSUME NEW u \in Tids \ {t} PROVE f \notin DOMAIN intent[u]
        OBVIOUS
      <4>2. tr[u].ino # f
        BY <2>6 DEF TidsOf
      <4>3. Unused(own, u) => DOMAIN intent[u] = {}
        BY DEF Unused, NoChange
      <4>4. InUse(own, vw, u) => DOMAIN intent[u] = {tr[u].ino}
        BY DEF InUse, OfFile
      <4> QED  BY <1>3, <4>2, <4>3, <4>4 DEF AtRest, Stable
    <3> QED  BY <2>1, <2>3, <3>4, <3>6, <3>9, <3>10, <3>11, <3>12
  <2> QED  BY <2>5, <2>6
<1>19. PICK vw2 \in Owned :
         /\ \A u \in Tids \ {t} : vw2[u] = vw[u]
         /\ Root \notin vw2[t] /\ OpenFile(own, vw2, t)' /\ Votes(own, vw2, t)'
         /\ DOMAIN intent'[t] = {f} /\ intent' \in [Tids -> ChangeSet]
         /\ \A u \in Tids \ {t} : intent'[u] = intent[u] /\ f \notin DOMAIN intent[u]
         /\ intent'[t][f] = [ContOf(pages, PtrsNow(t))' EXCEPT ![b] = e]
  BY <1>18
<1>20. MainPhase(own, vw2, m)'
  <2>1. WriteOf(own, vw2, kRet)'
    <3>1. OfFile(T)'
      <4>1. tr'[T'].ino = f /\ DOMAIN intent'[T'] = {f} /\ Ref0'[f] # EMPTY
        BY <1>5, <1>10, <1>12, <1>17, <1>19 DEF SameTree
      <4> QED  BY <4>1 DEF OfFile
    <3>2. Root' \notin vw2[T']
      BY <1>17, <1>19 DEF SameTree
    <3> QED  BY <1>14, <3>1, <3>2 DEF WriteOf
  <2>2. OpenFile(own, vw2, T)'
    BY <1>17, <1>19, AtT
  <2>3. intent'[T'][tr'[T'].ino] = [ContOf(pages, PtrsNow(T))' EXCEPT ![b] = e]
    <3>1. PtrsNow(T)' = PtrsNow(t)'
      BY <1>17 DEF PtrsNow
    <3>2. ContOf(pages, PtrsNow(T))' = ContOf(pages, PtrsNow(t))'
      BY <3>1 DEF ContOf
    <3> QED  BY <1>10, <1>12, <1>17, <1>19, <3>2
  <2>4. WritePhase(own, vw2, m)'
    BY <1>16, <2>1, <2>2, <2>3 DEF WritePhase
  <2> QED  BY <2>4 DEF MainPhase
<1>21. m # <<>> /\ Head(m).op \notin {"checkpoint", "lastVots", "setFs"}
  BY <1>16, DataHeads
<1>22. <<>> \in Seq(Ops)
  OBVIOUS
<1>23. PICK X \in Seq(Ops) : X = <<>>
  BY <1>22
<1>24. todo' = X \o m /\ Between(own, vw2, X)'
  BY <1>16, <1>23, Cat DEF Between
<1>25. CallMove(own, vw, vw2, t, X, m)
  BY <1>3, <1>10, <1>12, <1>13, <1>14, <1>19, <1>20, <1>21, <1>24 DEF CallMove
<1> QED  BY <1>2, <1>3, <1>25, CallRuns

(* A call that changes file f and the directory, with unused transaction t.*)
LEMMA DirCall ==
  ASSUME NEW own \in Owned, NEW vw \in Owned, Direct, TypeInv, TreeKept, AtRest(own, vw),
         NEW f \in Files, FreeTids # {}, \A u \in Tids : tr[u].ino # f \/ Ref0[f] = EMPTY
  PROVE  /\ f \in Inodes /\ f # Dir /\ f # NoInode
         /\ First(FreeTids) \in Tids /\ Unused(own, First(FreeTids))
         /\ First(FreeTids) \in Nat
         /\ \A u \in Tids : {f, Dir} \cap DOMAIN intent[u] = {}
         /\ SeenBy(First(FreeTids), Dir) = Cont0(Dir) /\ Entries = Cont0(Dir)["b0"]
         /\ Cont0(Dir) \in Contents /\ Cont0(Dir) \in Filled
         /\ fs.ino0 = Root
         /\ pages[Root].kind = "ino0" /\ pages[Root].ref = Ref0 /\ Root \in Addr
         /\ Pages0(f) \cap Pages0(Dir) = {} /\ Pages0(f) \in AddrSets
         /\ InodeAddr(pages, fs.ino0, f) = Ref0[f] /\ Ref0[f] \in Addr0
<1>1. f \in Inodes /\ Dir \in Inodes /\ f # Dir /\ f # NoInode
  BY TransactionsAssumption, DirectFacts DEF NoInode
<1>2. PICK t \in Tids : t = First(FreeTids) /\ tr[t].ino = NoInode
  <2>1. First(FreeTids) \in FreeTids
    BY FirstFacts DEF FreeTids
  <2> QED  BY <2>1 DEF FreeTids, IS_TRANSACTION_EMPTY
<1>3. Unused(own, t)
  BY <1>2, IdleFacts
<1>4. t \in Nat
  <2>1. Cardinality(Tids) \in Nat
    BY TransactionsAssumption, FS_CardinalityType
  <2>2. t \in 0 .. Cardinality(Tids) - 1
    BY TransactionsAssumption
  <2> QED  BY <2>1, <2>2
<1>5. \A u \in Tids : {f, Dir} \cap DOMAIN intent[u] = {}
  <2>1. SUFFICES ASSUME NEW u \in Tids PROVE {f, Dir} \cap DOMAIN intent[u] = {}
    OBVIOUS
  <2>2. Unused(own, u) => DOMAIN intent[u] = {}
    BY DEF Unused, NoChange
  <2>3. InUse(own, vw, u) => /\ DOMAIN intent[u] = {tr[u].ino} /\ tr[u].ino \in Files
                             /\ Ref0[tr[u].ino] # EMPTY
    BY DEF InUse, OfFile
  <2>4. Dir \notin Files
    BY TransactionsAssumption
  <2> QED  BY <2>2, <2>3, <2>4 DEF AtRest, Stable
<1>6. SeenBy(t, Dir) = Cont0(Dir) /\ Entries = Cont0(Dir)["b0"] /\ Cont0(Dir) \in Contents
      /\ Cont0(Dir) \in Filled
  <2>0. Ref0[Dir] # EMPTY
    BY TreeFacts
  <2>1. ContentsOf(pages, obs, fs.ino0, Dir) = Cont0(Dir) /\ Cont0(Dir) \in Contents
        /\ Cont0(Dir) \in Filled
    BY <1>1, <2>0, IdleFacts
  <2> QED  BY <1>5, <2>1 DEF SeenBy, Entries
<1>7. /\ pages[Root].kind = "ino0" /\ pages[Root].ref = Ref0 /\ Root \in Addr
      /\ Pages0(f) \cap Pages0(Dir) = {} /\ Pages0(f) \in AddrSets
      /\ Ref0 \in [Inodes -> Addr0]
  <2>1. /\ pages[Root].kind = "ino0" /\ pages[Root].ref = Ref0 /\ Root \in Addr
        /\ Ref0 \in [Inodes -> Addr0] /\ Tree0 \subseteq Addr
    BY TreeFacts
  <2>2. Pages0(f) \cap Pages0(Dir) = {}
    BY <1>1, TreeFacts
  <2>3. Pages0(f) \subseteq Tree0
    BY <1>1, TreeFacts
  <2> QED  BY <2>1, <2>2, <2>3 DEF AddrSets
<1>8. InodeAddr(pages, fs.ino0, f) = Ref0[f] /\ Ref0[f] \in Addr0 /\ fs.ino0 = Root
  BY <1>1, <1>7, IdleFacts DEF AtRest
<1> QED  BY <1>1, <1>2, <1>3, <1>4, <1>5, <1>6, <1>7, <1>8

(* createNewFile().                                                        *)
LEMMA CreateCall ==
  ASSUME Direct, TransInv, NEW f \in Files, Create(f)
  PROVE  TransInv'
<1>1. todo = <<>> /\ ~ Exists(f) /\ FreeTids # {}
  BY DEF Create, Called, Ready
<1>2. TypeInv /\ TreeKept
  BY <1>1, Resting
<1>3. PICK own \in Owned, vw \in Owned, C \in AddrSets, D \in AddrSets :
        AtRest(own, vw) /\ Recoverable(C, D)
  BY <1>1, Resting
<1>4. Ref0[f] = EMPTY
  <2>1. f \in Inodes
    BY DirectFacts
  <2> QED  BY <1>1, <1>2, <1>3, <2>1, IdleFacts DEF Exists
<1>5. \A u \in Tids : tr[u].ino # f \/ Ref0[f] = EMPTY
  BY <1>4
<1>6. PICK t \in Tids :
        /\ t = First(FreeTids) /\ Unused(own, t) /\ t \in Nat
        /\ f \in Inodes /\ f # Dir /\ f # NoInode
        /\ SeenBy(t, Dir) = Cont0(Dir)
  BY <1>1, <1>2, <1>3, <1>5, DirCall
<1>7. /\ \A u \in Tids : {f, Dir} \cap DOMAIN intent[u] = {}
      /\ Entries = Cont0(Dir)["b0"] /\ Cont0(Dir) \in Contents /\ fs.ino0 = Root
      /\ Cont0(Dir) \in Filled
      /\ pages[Root].kind = "ino0" /\ pages[Root].ref = Ref0 /\ Root \in Addr
  BY <1>1, <1>2, <1>3, <1>5, DirCall
<1>8. "b0" \in Blocks /\ Dir \in Inodes /\ NoPointers("inode") = [b \in Blocks |-> EMPTY]
  BY DirectFacts
<1>9. PICK e \in Values : e = Cont0(Dir)["b0"] \cup {f}
  BY <1>7, <1>8 DEF Filled, Values, Vals
<1>10. PICK r : r = [EmptyTr EXCEPT !.type = T_TYPE_WRITE, !.ino = f, !.node = "inode"]
  OBVIOUS
<1>11. /\ r \in TrSet /\ r.ino = f /\ r.prev = EMPTY /\ r.inoAddr = EMPTY
       /\ r.vots = <<>> /\ r.node = "inode" /\ r.ptrs = [b \in Blocks |-> EMPTY]
  <2>1. PICK r1 : r1 = [EmptyTr EXCEPT !.type = T_TYPE_WRITE]
    OBVIOUS
  <2>2. r1 \in TrSet
    BY <2>1, EmptyFacts DEF TrSet
  <2>3. PICK r2 : r2 = [r1 EXCEPT !.ino = f]
    OBVIOUS
  <2>4. r2 \in TrSet
    BY <1>6, <2>2, <2>3 DEF TrSet
  <2>5. [r2 EXCEPT !.node = "inode"] \in TrSet
    BY <2>4 DEF TrSet
  <2>6. r = [r2 EXCEPT !.node = "inode"]
    BY <1>10, <2>1, <2>3
  <2> QED  BY <1>8, <1>10, <2>5, <2>6 DEF EmptyTr
<1>12. tr' = [tr EXCEPT ![t] = r]
  <2>1. tr' = [tr EXCEPT ![t].type = T_TYPE_WRITE, ![t].ino = f, ![t].node = "inode"]
    BY <1>6 DEF Create
  <2>2. tr[t] = EmptyTr
    BY <1>6 DEF Unused
  <2> QED  BY <1>2, <1>10, <2>1, <2>2 DEF TypeInv, TrSet
<1>13. tr' \in [Tids -> TrSet] /\ tr'[t] = r /\ \A u \in Tids \ {t} : tr'[u] = tr[u]
  BY <1>2, <1>11, <1>12 DEF TypeInv
<1>14. UNCHANGED <<pages, obs, saved, marked, fs>>
  BY DEF Create, flashVars
<1>15. /\ call' \in CallSet /\ call'.tid = t /\ call'.file = f /\ call'.own = FALSE
       /\ call'.ino0 = Root
  <2>1. call' = [NoCall EXCEPT !.tid = t, !.ino0 = fs.ino0, !.file = f]
    BY <1>6 DEF Create
  <2> QED  BY <1>6, <1>7, <2>1 DEF NoCall, CallSet, Addr0
<1>16. SameTree /\ T' = t
  BY <1>14, <1>15, SameSaved DEF T
<1>17. PICK c : c = [i \in {f, Dir} |-> IF i = f THEN [b \in Blocks |-> {}]
                                       ELSE [Cont0(Dir) EXCEPT !["b0"] = e]]
  OBVIOUS
<1>18. intent' = [intent EXCEPT ![t] = c]
  <2>1. intent' = [intent EXCEPT ![t] =
                     [i \in {f, Dir} |->
                        IF i = f THEN [b \in Blocks |-> {}]
                        ELSE [SeenBy(t, Dir) EXCEPT !["b0"] = @ \cup {f}]]]
    BY <1>6 DEF Create
  <2>2. [SeenBy(t, Dir) EXCEPT !["b0"] = @ \cup {f}] = [Cont0(Dir) EXCEPT !["b0"] = e]
    BY <1>6, <1>7, <1>8, <1>9 DEF Contents
  <2> QED  BY <1>17, <2>1, <2>2
<1>19. /\ c \in ChangeSet /\ DOMAIN c = {f, Dir} /\ c[f] = [b \in Blocks |-> {}]
       /\ c[Dir] = [Cont0(Dir) EXCEPT !["b0"] = e]
  <2>1. [b \in Blocks |-> {}] \in Contents
    BY DEF Contents
  <2>2. [Cont0(Dir) EXCEPT !["b0"] = e] \in Contents
    <3>1. e \in SUBSET (Files \cup Data \cup {"lost", "none"})
      BY <1>7, <1>8, <1>9 DEF Contents
    <3> QED  BY <1>7, <3>1 DEF Contents
  <2>3. c \in [{f, Dir} -> Contents] /\ {f, Dir} \in SUBSET Inodes
    BY <1>6, <1>8, <1>17, <2>1, <2>2
  <2> QED  BY <1>6, <1>17, <2>3 DEF ChangeSet
<1>20. /\ intent' \in [Tids -> ChangeSet] /\ intent'[t] = c
       /\ \A u \in Tids \ {t} : intent'[u] = intent[u]
  BY <1>2, <1>18, <1>19 DEF TypeInv
<1>21. \A u \in Tids \ {t} : DOMAIN intent'[t] \cap DOMAIN intent[u] = {}
  BY <1>7, <1>19, <1>20
<1>22. PICK k \in Seq(Ops) : k = kDir(e)
  BY DirProgram, <1>6
<1>23. PICK m \in Seq(Ops) : m = kCommit(f, k) /\ todo' = m
  <2>1. todo' = (<<Todo("commitInode"), Todo("keepInode")>> \o commitInodeToInode0(f))
                \o DirOps(e)
    BY <1>7, <1>9 DEF Create
  <2>2. todo' = kCommit(f, k)
    BY <1>6, <1>22, <2>1, DirProgram
  <2>3. kCommit(f, k) \in Seq(Ops)
    BY <1>6, PassFacts
  <2> QED  BY <2>2, <2>3
<1>24. PICK vw2 \in Owned : vw2 = [vw EXCEPT ![t] = {}]
  BY DEF Owned, AddrSets
<1>25. vw2[t] = {} /\ \A u \in Tids \ {t} : vw2[u] = vw[u]
  BY <1>24 DEF Owned
<1>26. own[t] = {} /\ tr[t].prev = EMPTY /\ tr[t].vots = <<>>
  BY <1>6 DEF Unused, EmptyTr
<1>27. Votes(own, vw2, t)'
  <2>1. VotsOf(own, t)' = {}
    <3>1. tr'[t].vots = <<>>
      BY <1>11, <1>13
    <3> QED  BY <1>26, <3>1 DEF VotsOf
  <2> QED  BY <1>25, <2>1 DEF Votes
<1>28. MainPhase(own, vw2, m)'
  <2>1. Pass(vw2, f, k)'
    <3>1. DirCommit'
      BY <1>6, <1>15, <1>16, <1>19, <1>20 DEF DirCommit
    <3>2. DirIntent(vw2, e)'
      BY <1>8, <1>16, <1>19, <1>20, <1>25 DEF DirIntent, SameTree
    <3> QED  BY <1>15, <1>22, <3>1, <3>2 DEF Pass
  <2>2. BaseOK(own, vw2, f)'
    <3>1. pages'[call'.ino0].kind = "ino0" /\ pages'[call'.ino0].ref = Ref0' /\ Root' = Root
      BY <1>7, <1>14, <1>15, <1>16 DEF SameTree
    <3> QED  BY <1>6, <1>15, <3>1 DEF BaseOK, IsRoot, BaseRef
  <2>3. OpenFile(own, vw2, t)'
    <3>1. tr'[t].ino = f /\ tr'[t].node = "inode" /\ tr'[t].inoAddr = Ref0'[f]
          /\ tr'[t].ptrs = [b \in Blocks |-> EMPTY]
      BY <1>4, <1>6, <1>11, <1>13, <1>16 DEF SameTree
    <3>2. PtrsNow(t)' = [b \in Blocks |-> EMPTY]
      BY <3>1 DEF PtrsNow
    <3>3. Pointers(own, vw2, t, PtrsNow(t), f)'
      BY <3>2 DEF Pointers
    <3>4. tr'[t].ptrs \in [Blocks -> Addr0]
      BY <3>1 DEF Addr0
    <3> QED  BY <1>6, <3>1, <3>3, <3>4 DEF OpenFile
  <2>4. CommitInodePhase(own, vw2, f, k, m)'
    <3>1. OpenFile(own, vw2, T)'
      BY <1>16, <2>3, AtT
    <3>2. tr'[T'].ino = f /\ tr'[T'].node = "inode"
          /\ tr'[T'].ptrs = [b \in Blocks |-> EMPTY]
      BY <1>11, <1>13, <1>16
    <3>3. intent'[T'][f] = [b \in Blocks |-> {}]
      BY <1>16, <1>19, <1>20
    <3>4. intent'[T'][f] = ContOf(pages, tr[T].ptrs)'
      BY <3>2, <3>3 DEF ContOf
    <3> QED  BY <1>23, <2>2, <3>1, <3>2, <3>4 DEF CommitInodePhase
  <2> QED  BY <1>6, <2>1, <2>4 DEF MainPhase, PassPhase
<1>29. m # <<>> /\ Head(m).op \notin {"checkpoint", "lastVots", "setFs"}
  <2>1. m # <<>> /\ Head(m) = Todo("commitInode")
    BY <1>6, <1>23, PassFacts
  <2> QED  BY <2>1, AllTodos
<1>30. <<>> \in Seq(Ops)
  OBVIOUS
<1>31. PICK X \in Seq(Ops) : X = <<>>
  BY <1>30
<1>32. todo' = X \o m /\ Between(own, vw2, X)'
  BY <1>23, <1>31, Cat DEF Between
<1>33. CallMove(own, vw, vw2, t, X, m)
  BY <1>3, <1>11, <1>13, <1>14, <1>15, <1>20, <1>21, <1>25, <1>26, <1>27, <1>28, <1>29, <1>32
     DEF CallMove
<1> QED  BY <1>2, <1>3, <1>33, CallRuns

(* votFile() votes pages of the file, or nothing.                          *)
LEMMA VotFileOps ==
  ASSUME Direct, NEW ino, NEW S \in AddrSets,
         \A x \in Blocks \cup Nodes : AddrOf(pages, ino, x) \in S \cup {EMPTY}
  PROVE  /\ votFile(ino) \in Seq(Ops)
         /\ \A i \in 1 .. Len(votFile(ino)) :
              votFile(ino)[i].op = "vot" /\ votFile(ino)[i].a \in S \cup {EMPTY}
<1>1. PICK all : all = <<"inode">> \o FileOrder
  OBVIOUS
<1>2. PICK n \in Nat : n = Len(all)
  <2>1. PICK L : L = {"inode", "b0", "b1", "indirect", "b2", "leaf", "double",
                      "b3", "leaf3", "double3", "triple"}
    OBVIOUS
  <2>2. FileOrder \in Seq(L)
    BY <2>1 DEF FileOrder
  <2>3. <<"inode">> \in Seq(L)
    BY <2>1
  <2>4. all \in Seq(L)
    BY <1>1, <2>2, <2>3
  <2> QED  BY <2>4
<1>3. PICK at : at = [i \in 1 .. n |-> IF all[i] \in Blocks \cup Nodes
                                       THEN AddrOf(pages, ino, all[i]) ELSE EMPTY]
  OBVIOUS
<1>4. \A i \in 1 .. n : at[i] \in S \cup {EMPTY}
  BY <1>3
<1>5. PICK V : V = [i \in 1 .. n |-> Do("vot", NoInode, at[i])]
  OBVIOUS
<1>6. V = votFile(ino)
  BY <1>1, <1>2, <1>3, <1>5 DEF votFile
<1>7. \A a \in S \cup {EMPTY} : /\ Do("vot", NoInode, a) \in Ops
                               /\ Do("vot", NoInode, a).op = "vot"
                               /\ Do("vot", NoInode, a).a = a
  <2>1. \A a \in S \cup {EMPTY} : a \in Addr0
    BY DEF AddrSets, Addr0
  <2> QED  BY <2>1 DEF Do, Ops, OpNames, Names
<1>8. V \in [1 .. n -> Ops]
  BY <1>4, <1>5, <1>7
<1>9. V \in Seq(Ops)
  BY <1>8
<1>10. Len(V) = n
  BY <1>8
<1>11. \A i \in 1 .. n : V[i].op = "vot" /\ V[i].a \in S \cup {EMPTY}
  BY <1>4, <1>5, <1>7
<1> QED  BY <1>6, <1>9, <1>10, <1>11

(* removeFile().                                                           *)
LEMMA UnlinkCall ==
  ASSUME Direct, TransInv, NEW f \in Files, Unlink(f)
  PROVE  TransInv'
<1>1. todo = <<>> /\ Exists(f) /\ FreeTids # {} /\ TidsOf(f) = {}
  BY DEF Unlink, Called, Ready
<1>2. TypeInv /\ TreeKept
  BY <1>1, Resting
<1>3. PICK own \in Owned, vw \in Owned, C \in AddrSets, D \in AddrSets :
        AtRest(own, vw) /\ Recoverable(C, D)
  BY <1>1, Resting
<1>4. Ref0[f] # EMPTY
  <2>1. f \in Inodes
    BY DirectFacts
  <2> QED  BY <1>1, <1>2, <1>3, <2>1, IdleFacts DEF Exists
<1>5. \A u \in Tids : tr[u].ino # f \/ Ref0[f] = EMPTY
  BY <1>1 DEF TidsOf
<1>6. PICK t \in Tids :
        /\ t = First(FreeTids) /\ Unused(own, t) /\ t \in Nat
        /\ f \in Inodes /\ f # Dir /\ f # NoInode
        /\ SeenBy(t, Dir) = Cont0(Dir)
  BY <1>1, <1>2, <1>3, <1>5, DirCall
<1>7. /\ \A u \in Tids : {f, Dir} \cap DOMAIN intent[u] = {}
      /\ Entries = Cont0(Dir)["b0"] /\ Cont0(Dir) \in Contents /\ fs.ino0 = Root
      /\ Cont0(Dir) \in Filled
      /\ pages[Root].kind = "ino0" /\ pages[Root].ref = Ref0 /\ Root \in Addr
      /\ Pages0(f) \cap Pages0(Dir) = {} /\ Pages0(f) \in AddrSets
      /\ InodeAddr(pages, fs.ino0, f) = Ref0[f] /\ Ref0[f] \in Addr0
  BY <1>1, <1>2, <1>3, <1>5, DirCall
<1>8. "b0" \in Blocks /\ Dir \in Inodes /\ NoPointers("inode") = [b \in Blocks |-> EMPTY]
  BY DirectFacts
<1>9. PICK e \in Values : e = Cont0(Dir)["b0"] \ {f}
  BY <1>7, <1>8 DEF Filled, Values, Vals
<1>10. PICK r : r = [EmptyTr EXCEPT !.type = T_TYPE_UNLINK, !.ino = f]
  OBVIOUS
<1>11. r \in TrSet /\ r.prev = EMPTY /\ r.vots = <<>>
  <2>1. PICK r1 : r1 = [EmptyTr EXCEPT !.type = T_TYPE_UNLINK]
    OBVIOUS
  <2>2. r1 \in TrSet
    BY <2>1, EmptyFacts DEF TrSet
  <2>3. [r1 EXCEPT !.ino = f] \in TrSet
    BY <1>6, <2>2 DEF TrSet
  <2>4. r = [r1 EXCEPT !.ino = f]
    BY <1>10, <2>1
  <2> QED  BY <1>10, <2>3, <2>4 DEF EmptyTr
<1>12. tr' = [tr EXCEPT ![t] = r]
  <2>1. tr' = [tr EXCEPT ![t].type = T_TYPE_UNLINK, ![t].ino = f]
    BY <1>6 DEF Unlink
  <2>2. tr[t] = EmptyTr
    BY <1>6 DEF Unused
  <2> QED  BY <1>2, <1>10, <2>1, <2>2 DEF TypeInv, TrSet
<1>13. tr' \in [Tids -> TrSet] /\ tr'[t] = r /\ \A u \in Tids \ {t} : tr'[u] = tr[u]
  BY <1>2, <1>11, <1>12 DEF TypeInv
<1>14. UNCHANGED <<pages, obs, saved, marked, fs>>
  BY DEF Unlink, flashVars
<1>15. /\ call' \in CallSet /\ call'.tid = t /\ call'.file = f /\ call'.own = FALSE
       /\ call'.ino0 = Root
       /\ call'.inode = EMPTY
  <2>1. call' = [NoCall EXCEPT !.tid = t, !.ino0 = fs.ino0, !.file = f]
    BY <1>6 DEF Unlink
  <2> QED  BY <1>6, <1>7, <2>1 DEF NoCall, CallSet, Addr0
<1>16. SameTree /\ T' = t
  BY <1>14, <1>15, SameSaved DEF T
<1>17. PICK c : c = [i \in {f, Dir} |-> IF i = f THEN NoFile
                                       ELSE [Cont0(Dir) EXCEPT !["b0"] = e]]
  OBVIOUS
<1>18. intent' = [intent EXCEPT ![t] = c]
  <2>1. intent' = [intent EXCEPT ![t] =
                     [i \in {f, Dir} |->
                        IF i = f THEN NoFile
                        ELSE [SeenBy(t, Dir) EXCEPT !["b0"] = @ \ {f}]]]
    BY <1>6 DEF Unlink
  <2>2. [SeenBy(t, Dir) EXCEPT !["b0"] = @ \ {f}] = [Cont0(Dir) EXCEPT !["b0"] = e]
    BY <1>6, <1>7, <1>8, <1>9 DEF Contents
  <2> QED  BY <1>17, <2>1, <2>2
<1>19. /\ c \in ChangeSet /\ DOMAIN c = {f, Dir} /\ c[f] = NoFile
       /\ c[Dir] = [Cont0(Dir) EXCEPT !["b0"] = e]
  <2>1. NoFile \in Contents
    BY DEF Contents, NoFile
  <2>2. [Cont0(Dir) EXCEPT !["b0"] = e] \in Contents
    <3>1. e \in SUBSET (Files \cup Data \cup {"lost", "none"})
      BY <1>7, <1>8, <1>9 DEF Contents
    <3> QED  BY <1>7, <3>1 DEF Contents
  <2>3. c \in [{f, Dir} -> Contents] /\ {f, Dir} \in SUBSET Inodes
    BY <1>6, <1>8, <1>17, <2>1, <2>2
  <2> QED  BY <1>6, <1>17, <2>3 DEF ChangeSet
<1>20. /\ intent' \in [Tids -> ChangeSet] /\ intent'[t] = c
       /\ \A u \in Tids \ {t} : intent'[u] = intent[u]
  BY <1>2, <1>18, <1>19 DEF TypeInv
<1>21. \A u \in Tids \ {t} : DOMAIN intent'[t] \cap DOMAIN intent[u] = {}
  BY <1>7, <1>19, <1>20
<1>22. PICK k \in Seq(Ops) : k = kDir(e)
  BY DirProgram, <1>6
<1>23. PICK X \in Seq(Ops), m \in Seq(Ops) :
         /\ X = votFile(Ref0[f]) /\ m = kLoadZ(f, k) /\ todo' = X \o m
         /\ \A i \in 1 .. Len(X) : X[i].op = "vot" /\ X[i].a \in Pages0(f) \cup {EMPTY}
  <2>1. PICK X : X = votFile(Ref0[f])
    OBVIOUS
  <2>2. \A x \in Blocks \cup Nodes : AddrOf(pages, Ref0[f], x) \in Pages0(f) \cup {EMPTY}
    <3>1. FilePages(pages, Ref0[f]) = Pages0(f)
      BY <1>2, <1>6, TreeFacts
    <3>2. AddrOf(pages, Ref0[f], "inode") \in Pages0(f)
      <4>1. AddrOf(pages, Ref0[f], "inode") = Ref0[f]
        BY AddrOfInode
      <4> QED  BY <1>4, <3>1, <4>1 DEF FilePages
    <3>3. \A b \in Blocks : AddrOf(pages, Ref0[f], b) \in Pages0(f) \cup {EMPTY}
      <4>1. SUFFICES ASSUME NEW b \in Blocks
                     PROVE  AddrOf(pages, Ref0[f], b) \in Pages0(f) \cup {EMPTY}
        OBVIOUS
      <4>2. AddrOf(pages, Ref0[f], b) = Pointed(pages, Ref0[f], "inode", b)
        BY AddrOfBlock
      <4> QED  BY <1>4, <3>1, <4>2 DEF Pointed, FilePages
    <3> QED  BY <3>2, <3>3 DEF Direct
  <2>3. X \in Seq(Ops)
        /\ \A i \in 1 .. Len(X) : X[i].op = "vot" /\ X[i].a \in Pages0(f) \cup {EMPTY}
    <3>1. PICK S \in AddrSets : S = Pages0(f)
      BY <1>7
    <3> QED  BY <2>1, <2>2, <3>1, VotFileOps
  <2>4. PICK y \in Seq(Ops), z \in Seq(Ops) : y = commitInodeToInode0(f) /\ z = DirOps(e)
    BY <1>6, InodeOps, DirProgram
  <2>5. todo' = (X \o y) \o z
    BY <1>7, <1>9, <2>1, <2>4 DEF Unlink
  <2>6. (X \o y) \o z = X \o (y \o z)
    BY <2>3, CatThree
  <2>7. y \o z = kLoadZ(f, k)
    BY <1>6, <1>22, <2>4, DirProgram
  <2>8. kLoadZ(f, k) \in Seq(Ops)
    BY <1>6, PassFacts
  <2> QED  BY <2>1, <2>3, <2>5, <2>6, <2>7, <2>8
<1>24. PICK vw2 \in Owned : vw2 = [vw EXCEPT ![t] = Pages0(f)]
  BY <1>7 DEF Owned
<1>25. vw2[t] = Pages0(f) /\ \A u \in Tids \ {t} : vw2[u] = vw[u]
  BY <1>24 DEF Owned
<1>26. own[t] = {} /\ tr[t].prev = EMPTY /\ tr[t].vots = <<>>
  BY <1>6 DEF Unused, EmptyTr
<1>27. Votes(own, vw2, t)'
  <2>1. VotsOf(own, t)' = {}
    <3>1. tr'[t].vots = <<>>
      BY <1>11, <1>13
    <3> QED  BY <1>26, <3>1 DEF VotsOf
  <2>2. f \in DOMAIN intent'[t] /\ Pages0(f)' = Pages0(f)
    BY <1>6, <1>16, <1>19, <1>20 DEF SameTree
  <2>3. Pages0(f) \subseteq MayVote(own, t)'
    BY <2>2 DEF MayVote
  <2> QED  BY <1>25, <2>1, <2>3 DEF Votes
<1>28. MainPhase(own, vw2, m)'
  <2>1. Pass(vw2, f, k)'
    <3>1. DirCommit'
      BY <1>6, <1>15, <1>16, <1>19, <1>20 DEF DirCommit
    <3>2. DirIntent(vw2, e)'
      BY <1>6, <1>7, <1>8, <1>16, <1>19, <1>20, <1>25 DEF DirIntent, SameTree
    <3> QED  BY <1>15, <1>22, <3>1, <3>2 DEF Pass
  <2>2. IsRoot(own, call.ino0)' /\ pages'[call'.ino0].ref = Ref0'
    <3>1. pages'[call'.ino0].kind = "ino0" /\ pages'[call'.ino0].ref = Ref0' /\ Root' = Root
      BY <1>7, <1>14, <1>15, <1>16 DEF SameTree
    <3> QED  BY <1>15, <3>1 DEF IsRoot
  <2>3. Entered(own, vw2, f, pages[call.ino0].ref, call.inode)'
    <3>1. BaseRef(own, vw2, f, pages[call.ino0].ref)'
      BY <1>6, <2>2 DEF BaseRef
    <3>2. NewFile(own, vw2, f, call.inode)'
      <4>1. intent'[T'][f] = NoFile /\ call'.inode = EMPTY /\ call'.file = f
        BY <1>15, <1>16, <1>19, <1>20
      <4> QED  BY <4>1 DEF NewFile, FileCont
    <3> QED  BY <1>6, <3>1, <3>2 DEF Entered
  <2>4. LoadPhase(own, vw2, f, k, m)'
    BY <1>23, <2>2, <2>3 DEF LoadPhase
  <2> QED  BY <1>6, <2>1, <2>4 DEF MainPhase, PassPhase
<1>29. m # <<>> /\ Head(m).op \notin {"checkpoint", "lastVots", "setFs"}
  <2>1. m # <<>> /\ Head(m) = Do("loadInode0", f, EMPTY)
    BY <1>6, <1>23, PassFacts
  <2> QED  BY <2>1 DEF Do
<1>32. todo' = X \o m /\ Between(own, vw2, X)'
  BY <1>16, <1>23, <1>25 DEF Between
<1>33. CallMove(own, vw, vw2, t, X, m)
  BY <1>3, <1>11, <1>13, <1>14, <1>15, <1>20, <1>21, <1>25, <1>26, <1>27, <1>28, <1>29, <1>32
     DEF CallMove
<1> QED  BY <1>2, <1>3, <1>33, CallRuns

-----------------------------------------------------------------------------
(* All steps.                                                              *)

(* What a call and a boot do first.                                        *)
LEMMA HeadOps ==
  ASSUME Direct, TransInv
  PROVE  /\ IsRunning \/ IsBooting
         /\ IsBooting => /\ todo # <<>>
                         /\ Op.op \in {"find", "bootVots", "bootDelete", "vots", "mark",
                                       "bootEnd"}
         /\ IsRunning => \/ todo = <<>>
                         \/ Op.op \notin {"read", "write", "writeInode", "bootVots",
                                          "bootDelete", "bootEnd"}
<1>1. IsRunning \/ IsBooting
  BY DEF TransInv, IsRunning, IsBooting
<1>2. ASSUME IsBooting
      PROVE  /\ todo # <<>>
             /\ Op.op \in {"find", "bootVots", "bootDelete", "vots", "mark", "bootEnd"}
  BY <1>2, BootTodo
<1>3. ASSUME IsRunning, todo # <<>>
      PROVE  Op.op \notin {"read", "write", "writeInode", "bootVots", "bootDelete", "bootEnd"}
  <2>1. PICK own \in Owned, vw \in Owned, A \in Seq(Ops), X \in Seq(Ops), m \in Seq(Ops) :
          Running(own, vw, A, X, m)
    BY <1>3 DEF IsRunning
  <2>2. \/ Op.op \in {"delete", "init", "checkpoint", "find"}
        \/ Op.op \in {"find", "votsPage", "vot", "prev", "mark"}
        \/ Op.op \in {"return", "find", "checkpoint", "delete"}
        \/ Op.op \in {"commitInode", "votNode", "writeActive", "keepInode",
                      "loadInode0", "writeInode0", "newInode0", "lastVots",
                      "setFs", "checkpoint", "turnToDir", "seek", "load",
                      "writeData", "return"}
        \/ Op.op \in {"walk", "find", "finish", "vots"}
    BY <1>3, <2>1, RunningHead
  <2> QED  BY <2>2
<1> QED  BY <1>1, <1>2, <1>3

LEMMA WriteStepKeeps ==
  ASSUME Direct, TransInv, WriteStep
  PROVE  TransInv'
<1>1. ~ WriteUpper /\ ~ WriteInode
  BY HeadOps DEF WriteUpper, WriteInode, Doing
<1> QED  BY <1>1, WriteDataStep, WriteActiveStep, WriteInode0Step, VotsPageStep,
            LastVotsStep DEF WriteStep

LEMMA CommitStepKeeps ==
  ASSUME Direct, TransInv, CommitStep
  PROVE  TransInv'
<1>1. ~ ReadUpper
  BY HeadOps DEF ReadUpper, Doing
<1>2. ASSUME StartWalk \/ Finish \/ Return PROVE IsRunning
  <2>1. todo # <<>> /\ Op.op \in {"walk", "finish", "return"}
    BY <1>2 DEF StartWalk, Finish, Return, Doing
  <2> QED  BY <2>1, HeadOps
<1>3. CASE StartWalk
  BY <1>2, <1>3, StartWalkStep
<1>4. CASE Finish
  BY <1>2, <1>4, FinishStep
<1>5. CASE Return
  BY <1>2, <1>5, ReturnStep
<1>6. CASE WalkVots
  BY <1>6, HeadOps, WalkVotsRunning, BootWalkStep
<1>7. CASE MarkVot
  BY <1>7, HeadOps, MarkRunning, BootMarkStep
<1> QED  BY <1>1, <1>3, <1>4, <1>5, <1>6, <1>7, CommitInodeOpStep, KeepInodeStep,
            LoadInode0Step, NewInode0Step, SetFsStep DEF CommitStep

LEMMA StepKeeps ==
  ASSUME Direct, TransInv, Step
  PROVE  TransInv'
<1>1. CASE Checkpoint
  <2>1. IsRunning
    BY <1>1, HeadOps DEF Checkpoint, Doing
  <2> QED  BY <1>1, <2>1, CheckpointStep
<1>2. CASE FindNextFreePage
  BY <1>2, HeadOps, FindStep, BootFindStep
<1>3. ASSUME BootVots \/ BootDelete \/ BootEnd PROVE IsBooting
  <2>1. todo # <<>> /\ Op.op \in {"bootVots", "bootDelete", "bootEnd"}
    BY <1>3 DEF BootVots, BootDelete, BootEnd, Doing
  <2> QED  BY <2>1, HeadOps
<1>4. CASE BootVots
  BY <1>3, <1>4, BootVotsStep
<1>5. CASE BootDelete
  BY <1>3, <1>5, BootDeleteStep
<1>6. CASE BootEnd
  BY <1>3, <1>6, BootEndStep
<1> QED  BY <1>1, <1>2, <1>4, <1>5, <1>6, WriteStepKeeps, CommitStepKeeps, SetPrevStep,
            VotStep, AbortOtherStep, WriteErrorStep, DeletePageStep, InitTransactionStep,
            SeekStep, LoadStep, TurnToDirStep DEF Step

LEMMA NextKeeps ==
  ASSUME Direct, TransInv, Next
  PROVE  TransInv'
<1>1. CASE Call
  BY <1>1, WriteCall, CommitCall, CreateCall, UnlinkCall DEF Call
<1> QED  BY <1>1, StepKeeps, PowerFailureStep DEF Next

LEMMA StutterKeeps ==
  ASSUME Direct, TransInv, UNCHANGED vars
  PROVE  TransInv'
<1>1. UNCHANGED <<pages, obs, saved, marked, fs, tr, call, intent, todo>>
  BY DEF vars
<1>2. TypeInv /\ TreeKept /\ todo' \in Seq(Ops)
  BY <1>1 DEF TransInv, TypeInv
<1>3. CASE IsBooting
  <2>1. PICK C \in AddrSets, D \in AddrSets, Y \in Seq(Ops) : BootingFrom(C, D, Y)
    BY <1>3 DEF IsBooting
  <2>2. BootMove(C, D, Y)
    BY <1>1, <1>2, <2>1 DEF BootMove, BootingFrom, TypeInv
  <2> QED  BY <1>2, <2>1, <2>2, BootSettle
<1>4. CASE IsRunning
  <2>1. PICK own \in Owned, vw \in Owned, A \in Seq(Ops), X \in Seq(Ops), m \in Seq(Ops) :
          Running(own, vw, A, X, m)
    BY <1>4 DEF IsRunning
  <2>2. /\ TypeInv' /\ TreeKept' /\ SameTree
        /\ \A C, D : Recoverable(C, D) => Recoverable(C, D)'
        /\ \A t : LeavesAlone(own, own, vw, vw, t)
        /\ \A t : OwnChain(own, t) => OwnChain(own, t)'
        /\ InWindow(m)' <=> InWindow(m)
        /\ FsOK(m) => FsOK(m)'
    BY <1>1, <1>2, TodoSame
  <2>3. \E C, D \in AddrSets : Recoverable(C, D)'
    BY <2>2 DEF TransInv
  <2>4. /\ Shape(A, X, m) /\ FsOK(m) /\ VotsBound(A, X)
        /\ Owners(own) /\ OthersOK(own, vw, A)
        /\ T \in Tids => MineOK(own, vw, A, X, m)
    BY <2>1 DEF Running
  <2>5. T' = T
    BY <1>1 DEF T
  <2>6. Shape(A, X, m)' /\ FsOK(m)' /\ VotsBound(A, X)'
    BY <1>1, <2>2, <2>4, <2>5 DEF Shape, VotsBound
  <2>7. Owners(own)'
    BY <1>1, <2>2, <2>4 DEF Owners
  <2>8. OthersOK(own, vw, A)'
    <3>1. \A t \in Tids : Stable(own, vw, t) => Stable(own, vw, t)'
      <4>1. SUFFICES ASSUME NEW t \in Tids, Stable(own, vw, t) PROVE Stable(own, vw, t)'
        OBVIOUS
      <4>2. LeavesAlone(own, own, vw, vw, t) /\ obs' \cap own[t] \subseteq obs
        BY <1>1, <2>2
      <4> QED  BY <1>2, <4>1, <4>2, StableKept
    <3> QED  BY <2>2, <2>4, <2>5, <3>1 DEF OthersOK, SameTree
  <2>9. T' \in Tids => MineOK(own, vw, A, X, m)'
    <3>1. SUFFICES ASSUME T \in Tids PROVE MineOK(own, vw, A, X, m)'
      BY <2>5
    <3>2. LeavesAlone(own, own, vw, vw, T) /\ obs' \cap own[T] \subseteq obs
      BY <1>1, <2>2
    <3>3. RestPhase(own, vw, X, m) => RestPhase(own, vw, X, m)'
      BY <1>1, <1>2, <3>1, <3>2, RestSame
    <3>4. UncommittedPhase(own, vw, X, m) => UncommittedPhase(own, vw, X, m)'
      BY <1>1, <1>2, <3>1, <3>2, UncommittedSame
    <3>5. WalkPhase(own, X, m) => WalkPhase(own, X, m)'
      BY <1>1, <2>2, WalkSame
    <3>6. kAgain(T)' = kAgain(T)
      BY <2>5 DEF kAgain
    <3>7. MineOK(own, vw, A, X, m)
      BY <2>4, <3>1
    <3> QED  BY <2>5, <3>3, <3>4, <3>5, <3>6, <3>7 DEF MineOK
  <2>10. Running(own, vw, A, X, m)'
    BY <2>6, <2>7, <2>8, <2>9 DEF Running
  <2> QED  BY <2>2, <2>3, <2>10 DEF TransInv
<1> QED  BY <1>3, <1>4, HeadOps

(* The flash at first: inode0, the root directory and the existing files,  *)
(* each with an inode without blocks.                                      *)
LEMMA InitialFlash ==
  ASSUME Direct
  PROVE  /\ InitialPages \in [Addr -> PageSet]
         /\ 3 \in Addr /\ GoodTree(InitialPages, 3)
         /\ InitialFs \in FsSet
<1> DEFINE first(f) == 3 + CHOOSE i \in DOMAIN Existing : Existing[i] = f
           files    == {Existing[i] : i \in DOMAIN Existing}
           last     == 3 + Len(Existing)
           zero     == [i \in Inodes |-> IF i = Dir THEN 2
                                         ELSE IF i \in files THEN first(i) ELSE EMPTY]
           root     == [NoPointers("inode") EXCEPT !["b0"] = 1]
           P        == InitialPages
<1>1. /\ Len(Existing) \in Nat /\ Capacity \in Nat /\ Capacity >= last
      /\ DOMAIN Existing = 1 .. Len(Existing) /\ files \subseteq Files
  BY TransactionsAssumption
<1>2. \A f \in files : /\ first(f) \in 4 .. last
                       /\ \A g \in files : first(f) = first(g) => f = g
  <2>1. \A f \in files : \E i \in DOMAIN Existing : Existing[i] = f
    OBVIOUS
  <2>2. \A f \in files : /\ first(f) - 3 \in DOMAIN Existing
                         /\ Existing[first(f) - 3] = f
    <3>1. SUFFICES ASSUME NEW f \in files
                   PROVE  first(f) - 3 \in DOMAIN Existing /\ Existing[first(f) - 3] = f
      OBVIOUS
    <3>2. PICK i : i = CHOOSE j \in DOMAIN Existing : Existing[j] = f
      OBVIOUS
    <3>3. i \in DOMAIN Existing /\ Existing[i] = f
      BY <2>1, <3>2, Zenon
    <3>4. first(f) = 3 + i /\ i \in Nat
      BY <1>1, <3>2, <3>3
    <3>5. first(f) - 3 = i
      BY <3>4
    <3> QED  BY <3>3, <3>5
  <2> HIDE DEF first
  <2>3. \A f \in files : first(f) - 3 \in 1 .. Len(Existing) /\ Existing[first(f) - 3] = f
    BY <1>1, <2>2
  <2>4. \A f \in files : first(f) \in Int
    <3>1. \A f \in files : \E i \in DOMAIN Existing : first(f) = 3 + i
      <4>1. SUFFICES ASSUME NEW f \in files PROVE \E i \in DOMAIN Existing : first(f) = 3 + i
        OBVIOUS
      <4>2. PICK i : i = CHOOSE j \in DOMAIN Existing : Existing[j] = f
        OBVIOUS
      <4>3. i \in DOMAIN Existing
        BY <2>1, <4>2, Zenon
      <4> QED  BY <4>2, <4>3 DEF first
    <3> QED  BY <1>1, <3>1
  <2>5. \A f \in files : first(f) \in 4 .. last
    BY <1>1, <2>3, <2>4
  <2>6. \A f, g \in files : first(f) = first(g) => f = g
    BY <2>3
  <2> QED  BY <2>5, <2>6
<1> HIDE DEF first, files
<1>3. 1 \in Addr /\ 2 \in Addr /\ 3 \in Addr /\ 4 .. last \subseteq Addr
  BY <1>1 DEF Addr
<1>4. P = [a \in Addr |->
             CASE a = 1 -> Page("data", files, EMPTY)
               [] a = 2 -> Page("inode", root, 1)
               [] a = 3 -> Page("ino0", zero, 2)
               [] a \in 4 .. last -> Page("inode", NoPointers("inode"), EMPTY)
               [] OTHER -> NoPage]
  BY DEF InitialPages, first, files
<1> HIDE DEF P, root, zero, last
<1>5. \A a \in Addr : \/ P[a] = Page("data", files, EMPTY)
                      \/ P[a] = Page("inode", root, 1)
                      \/ P[a] = Page("ino0", zero, 2)
                      \/ P[a] = Page("inode", NoPointers("inode"), EMPTY)
                      \/ P[a] = NoPage
  <2>1. SUFFICES ASSUME NEW a \in Addr
                 PROVE  \/ P[a] = Page("data", files, EMPTY)
                        \/ P[a] = Page("inode", root, 1)
                        \/ P[a] = Page("ino0", zero, 2)
                        \/ P[a] = Page("inode", NoPointers("inode"), EMPTY)
                        \/ P[a] = NoPage
    BY Zenon
  <2>2. CASE a = 1
    BY <1>4, <2>2
  <2>3. CASE a = 2
    BY <1>4, <2>3
  <2>4. CASE a = 3
    BY <1>4, <2>4
  <2>5. CASE a \notin {1, 2, 3} /\ a \in 4 .. last
    BY <1>4, <2>5
  <2>6. CASE a \notin {1, 2, 3} /\ a \notin 4 .. last
    BY <1>4, <2>6
  <2> QED  BY <2>2, <2>3, <2>4, <2>5, <2>6
<1>6. P[1] = Page("data", files, EMPTY)
  BY <1>3, <1>4
<1>7. P[2] = Page("inode", root, 1)
  BY <1>3, <1>4
<1>8. P[3] = Page("ino0", zero, 2)
  BY <1>3, <1>4
<1>9. \A a \in 4 .. last : P[a] = Page("inode", NoPointers("inode"), EMPTY)
  <2>1. SUFFICES ASSUME NEW a \in 4 .. last
                 PROVE  P[a] = Page("inode", NoPointers("inode"), EMPTY)
    OBVIOUS
  <2>2. a # 1 /\ a # 2 /\ a # 3 /\ a \in Addr
    BY <1>3
  <2> QED  BY <1>4, <2>2
<1>10. root \in [Blocks -> Addr0] /\ root["b0"] = 1 /\ \A b \in Blocks \ {"b0"} : root[b] = EMPTY
  BY <1>3, DirectFacts DEF root, Addr0
<1>11. zero \in [Inodes -> Addr0]
  BY <1>2, <1>3 DEF zero, Addr0
<1>12. P \in [Addr -> PageSet]
  <2>1. files \in Values
    BY <1>1 DEF Values, Vals
  <2>2. 1 \in Addr0 /\ 2 \in Addr0 /\ EMPTY \in Addr0
    BY <1>3 DEF Addr0
  <2>3. Page("data", files, EMPTY) \in PageSet
    BY <2>1, <2>2 DEF Page, PageSet
  <2>4. Page("inode", root, 1) \in PageSet
    BY <1>10, <2>2 DEF Page, PageSet
  <2>5. Page("ino0", zero, 2) \in PageSet
    BY <1>11, <2>2 DEF Page, PageSet
  <2>6. Page("inode", NoPointers("inode"), EMPTY) \in PageSet
    BY <2>2, DirectFacts DEF Page, PageSet
  <2>7. NoPage \in PageSet
    BY DEF PageSet
  <2>8. \A a \in Addr : P[a] \in PageSet
    BY <1>5, <2>3, <2>4, <2>5, <2>6, <2>7
  <2> QED  BY <1>4, <2>8
<1>13. P[3].kind = "ino0" /\ P[3].ref = zero
  BY <1>8 DEF Page
<1>14. zero[Dir] = 2 /\ \A f \in Files : zero[f] \in 4 .. last \cup {EMPTY}
  <2>1. Dir \in Inodes /\ Files \subseteq Inodes /\ Dir \notin Files
    BY DirectFacts
  <2>2. zero[Dir] = 2
    BY <2>1 DEF zero
  <2>3. \A f \in Files : zero[f] = IF f \in files THEN first(f) ELSE EMPTY
    BY <2>1 DEF zero
  <2> QED  BY <1>2, <2>2, <2>3
<1>15. /\ P[2].kind = "inode" /\ P[2].ref = root /\ P[1].kind = "data"
       /\ \A a \in 4 .. last : P[a].kind = "inode" /\ P[a].ref = [b \in Blocks |-> EMPTY]
  BY <1>6, <1>7, <1>9, DirectFacts DEF Page
<1>16. \A f \in Inodes : GoodFile(P, zero[f])
  <2>1. GoodFile(P, 2)
    BY <1>10, <1>15 DEF GoodFile, EMPTY
  <2>2. \A a \in 4 .. last : GoodFile(P, a)
    BY <1>15 DEF GoodFile
  <2>3. GoodFile(P, EMPTY)
    BY DEF GoodFile
  <2> QED  BY <1>14, <2>1, <2>2, <2>3 DEF Inodes
<1>17. \A f, g \in Inodes : f # g => FilePages(P, zero[f]) \cap FilePages(P, zero[g]) = {}
  <2>1. FilePages(P, 2) \subseteq {1, 2}
    <3>1. \A b \in Blocks : root[b] \in {1, EMPTY}
      BY <1>10
    <3> QED  BY <1>15, <3>1 DEF FilePages
  <2>2. \A f \in Files : FilePages(P, zero[f]) \subseteq {zero[f]} \ {EMPTY}
    BY <1>14, <1>15 DEF FilePages
  <2>3. \A f, g \in Files : f # g /\ zero[f] # EMPTY => zero[f] # zero[g]
    <3>1. Files \subseteq Inodes /\ Dir \notin Files
      BY DirectFacts
    <3>2. \A f \in Files : zero[f] = IF f \in files THEN first(f) ELSE EMPTY
      BY <3>1 DEF zero
    <3> QED  BY <1>2, <3>2
  <2>4. \A f \in Files : {zero[f]} \ {EMPTY} \subseteq 4 .. last
    BY <1>14
  <2>5. \A f \in Files : FilePages(P, zero[f]) \cap FilePages(P, zero[Dir]) = {}
    <3>1. {1, 2} \cap (4 .. last) = {}
      OBVIOUS
    <3> QED  BY <1>14, <2>1, <2>2, <2>4, <3>1
  <2>6. \A f, g \in Files : f # g => FilePages(P, zero[f]) \cap FilePages(P, zero[g]) = {}
    BY <2>2, <2>3
  <2> QED  BY <2>5, <2>6 DEF Inodes
<1>18. GoodTree(P, 3)
  <2>1. P[3].ref[Dir] # EMPTY
    BY <1>13, <1>14 DEF EMPTY
  <2> QED  BY <1>3, <1>13, <1>16, <1>17, <2>1 DEF GoodTree
<1>19. InitialFs \in FsSet
  BY <1>3 DEF InitialFs, FsSet, Addr0
<1> QED  BY <1>3, <1>12, <1>18, <1>19 DEF P

(* Before the first call nothing is open, and the checkpoint is the flash. *)
LEMMA InitInv ==
  ASSUME Direct, Init
  PROVE  TransInv
<1>1. /\ pages = InitialPages /\ obs = {} /\ marked = {} /\ fs = InitialFs
      /\ saved = [pages |-> InitialPages, obs |-> {}, fs |-> InitialFs]
      /\ tr = [t \in Tids |-> EmptyTr] /\ todo = <<>> /\ call = NoCall
      /\ intent = [t \in Tids |-> NoChange]
  BY DEF Init
<1>2. /\ saved.pages = InitialPages /\ saved.fs = InitialFs /\ saved.obs = {}
      /\ Root = 3
  BY <1>1 DEF Root, InitialFs
<1>3. TypeInv
  <2>1. tr \in [Tids -> TrSet] /\ intent \in [Tids -> ChangeSet]
    BY <1>1, EmptyFacts
  <2>2. call \in CallSet
    BY <1>1 DEF NoCall, CallSet, Addr0, NoInode
  <2>3. todo \in Seq(Ops)
    BY <1>1, Cat
  <2>4. /\ pages \in [Addr -> PageSet] /\ obs \subseteq Addr /\ marked \subseteq Addr
        /\ fs \in FsSet
    BY <1>1, InitialFlash
  <2>5. saved \in [pages : [Addr -> PageSet], obs : SUBSET Addr, fs : FsSet]
    BY <1>1, InitialFlash
  <2> QED  BY <2>1, <2>2, <2>3, <2>4, <2>5 DEF TypeInv
<1>4. TreeKept
  BY <1>1, <1>2, InitialFlash DEF TreeKept
<1>5. PICK none \in AddrSets : none = {}
  BY DEF AddrSets
<1>6. Recoverable(none, none)
  BY <1>2, <1>5 DEF Recoverable, Closed, InitialFs
<1>7. PICK own \in Owned : own = [t \in Tids |-> {}]
  BY DEF Owned, AddrSets
<1>8. \A t \in Tids : tr[t] = EmptyTr /\ intent[t] = NoChange /\ own[t] = {}
  BY <1>1, <1>7
<1>9. AtRest(own, own)
  <2>1. todo = <<>> /\ fs.ino0 = Root /\ fs.closed = EMPTY
    BY <1>1, <1>2 DEF InitialFs
  <2>2. ASSUME NEW t \in Tids PROVE OwnChain(own, t) /\ Stable(own, own, t)
    <3>1. tr[t] = EmptyTr /\ intent[t] = NoChange /\ own[t] = {} /\ EmptyTr.prev = EMPTY
      BY <1>8 DEF EmptyTr
    <3>2. tr[t].prev = EMPTY
      BY <3>1
    <3>3. OwnChain(own, t)
      BY <3>1, <3>2 DEF OwnChain
    <3>4. LiveOwn(own, t) /\ Unused(own, t)
      BY <3>1 DEF LiveOwn, Unused
    <3> QED  BY <3>3, <3>4 DEF Stable
  <2>3. \A t \in Tids : Len(tr[t].vots) <= VotsPerPage /\ Len(tr[t].vots) # VotsPerPage
    <3>1. EmptyTr.vots = <<>> /\ VotsPerPage \in Nat \ {0}
      BY TransactionsAssumption DEF EmptyTr
    <3>2. Len(EmptyTr.vots) = 0
      BY <3>1
    <3> QED  BY <1>8, <3>1, <3>2
  <2>4. \A t, u \in Tids : t # u => /\ own[t] \cap own[u] = {}
                                    /\ DOMAIN intent[t] \cap DOMAIN intent[u] = {}
    BY <1>8, EmptyFacts
  <2> QED  BY <2>1, <2>2, <2>3, <2>4 DEF AtRest
<1>10. Running(own, own, <<>>, <<>>, <<>>) /\ <<>> \in Seq(Ops)
  BY <1>9, RestRuns
<1> QED  BY <1>3, <1>4, <1>6, <1>10 DEF TransInv

(* The invariant, of calls, aborts, headers, power failures and boots:     *)
(* the files of the last checkpoint are kept as they are on the flash,     *)
(* what a boot marks is not theirs, and every transaction votes only pages *)
(* it wrote or replaces.                                                   *)
THEOREM InvariantHolds ==
  ASSUME Direct
  PROVE  Spec => []TransInv
<1>1. Init => TransInv
  BY InitInv
<1>2. TransInv /\ [Next]_vars => TransInv'
  BY NextKeeps, StutterKeeps
<1> QED  BY <1>1, <1>2, PTL DEF Spec

-----------------------------------------------------------------------------
(* What follows from the invariant.                                        *)

(* In the window before a checkpoint fs.ino0 is the new inode0.            *)
LEMMA WindowRoot ==
  ASSUME NEW own \in Owned, NEW vw \in Owned, NEW A \in Seq(Ops), NEW X \in Seq(Ops),
         NEW m \in Seq(Ops), Direct, TypeInv, Running(own, vw, A, X, m), InWindow(m)
  PROVE  call.ino0 \in Addr /\ pages[call.ino0].kind = "ino0"
<1>1. m \in {kCp, kLast, kSetFs} /\ m # <<>>
      /\ Head(m).op \in {"checkpoint", "lastVots", "setFs"}
  BY WindowFacts
<1>2. A = <<>> /\ todo = X \o m
  <2>1. A = <<>> /\ todo = A \o (X \o m)
    BY DEF Running, Shape
  <2>2. X \o m \in Seq(Ops)
    BY Cat
  <2> QED  BY <2>1, <2>2, Cat
<1>3. todo # <<>>
  BY <1>1, <1>2, Cat
<1>4. T \in Tids /\ MineOK(own, vw, A, X, m)
  BY <1>3, RunningHead
<1>5. UncommittedPhase(own, vw, X, m)
  <2>1. RestPhase(own, vw, X, m) \/ UncommittedPhase(own, vw, X, m) \/ WalkPhase(own, X, m)
    BY <1>2, <1>4 DEF MineOK, Dying
  <2>2. ~ WalkPhase(own, X, m)
    <3>1. own[T] \cup {EMPTY} \subseteq Addr0
      BY <1>4 DEF Owned, AddrSets, Addr0
    <3> QED  BY <1>1, <3>1, EndHeads DEF WalkPhase
  <2>3. ~ RestPhase(own, vw, X, m)
    <3>1. Head(kAgain(T)) = Do("delete", NoInode, T)
      BY <1>4, AbortFacts, Cat, RetFacts DEF kAgain, AbortTails
    <3>2. Head(kAgain(T)).op = "delete"
      BY <3>1 DEF Do
    <3> QED  BY <1>1, <3>2, EndHeads DEF RestPhase
  <2> QED  BY <2>1, <2>2, <2>3
<1>6. LastPhase(own, vw, m)
  <2>1. MainPhase(own, vw, m)
    BY <1>5 DEF UncommittedPhase
  <2> QED  BY <1>1, <2>1, EndHeads, MainHead
<1>7. call.ino0 \in own[T] /\ pages[call.ino0].kind = "ino0"
  BY <1>6 DEF LastPhase, NewRoot
<1> QED  BY <1>4, <1>7 DEF Owned, AddrSets

LEMMA TypesOfRun ==
  ASSUME Direct, TransInv
  PROVE  TypeOK
<1>1. TypeInv /\ TreeKept
  BY DEF TransInv
<1>2. /\ obs \subseteq Addr /\ marked \subseteq Addr
      /\ \A a \in Addr : pages[a].prev \in Addr \cup {EMPTY}
  BY <1>1, PageTypes DEF TypeInv, Addr0
<1>3. \A t \in Tids : /\ tr[t].prev \in Addr \cup {EMPTY}
                      /\ tr[t].node \in Nodes \cup {"none"}
                      /\ Len(tr[t].vots) \in Nat /\ VotsPerPage \in Nat \ {0}
  <2>1. \A t \in Tids : tr[t] \in TrSet
    BY <1>1 DEF TypeInv
  <2>2. \A t \in Tids : tr[t].vots \in Seq(Addr)
    BY <2>1 DEF TrSet
  <2>3. \A t \in Tids : tr[t].prev \in Addr0 /\ tr[t].node \in {"none", "inode"}
    BY <2>1 DEF TrSet
  <2> QED  BY <2>2, <2>3, TransactionsAssumption DEF Direct, Addr0
<1>4. Root \in Addr /\ pages[Root].kind = "ino0"
  BY <1>1, TreeFacts
<1>5. /\ fs.ino0 \in Addr /\ pages[fs.ino0].kind = "ino0"
      /\ \A t \in Tids : Len(tr[t].vots) <= VotsPerPage
  <2>1. ASSUME NEW own \in Owned, NEW vw \in Owned, NEW A \in Seq(Ops), NEW X \in Seq(Ops),
               NEW m \in Seq(Ops), Running(own, vw, A, X, m)
        PROVE  /\ fs.ino0 \in Addr /\ pages[fs.ino0].kind = "ino0"
               /\ \A t \in Tids : Len(tr[t].vots) <= VotsPerPage
    <3>1. FsOK(m) /\ VotsBound(A, X)
      BY <2>1 DEF Running
    <3>2. fs.ino0 \in Addr /\ pages[fs.ino0].kind = "ino0"
      BY <1>1, <1>4, <2>1, <3>1, WindowRoot DEF FsOK
    <3> QED  BY <3>1, <3>2 DEF VotsBound
  <2>2. ASSUME NEW C \in AddrSets, NEW D \in AddrSets, NEW Y \in Seq(Ops),
               BootingFrom(C, D, Y)
        PROVE  /\ fs.ino0 \in Addr /\ pages[fs.ino0].kind = "ino0"
               /\ \A t \in Tids : Len(tr[t].vots) <= VotsPerPage
    <3>1. fs.ino0 = Root /\ \A t \in Tids : tr[t] = EmptyTr
      BY <2>2 DEF BootingFrom
    <3>2. Len(EmptyTr.vots) = 0
      <4>1. EmptyTr.vots = <<>>
        BY DEF EmptyTr
      <4> QED  BY <4>1
    <3> QED  BY <1>3, <1>4, <3>1, <3>2
  <2> QED  BY <2>1, <2>2 DEF TransInv
<1>6. Ready => \A t \in Tids : Len(tr[t].vots) < VotsPerPage
  <2>1. SUFFICES ASSUME Ready PROVE \A t \in Tids : Len(tr[t].vots) < VotsPerPage
    OBVIOUS
  <2>2. PICK own \in Owned, vw \in Owned, C \in AddrSets, D \in AddrSets :
          AtRest(own, vw) /\ Recoverable(C, D)
    BY <2>1, Resting DEF Ready
  <2>3. \A t \in Tids : Len(tr[t].vots) <= VotsPerPage /\ Len(tr[t].vots) # VotsPerPage
    BY <2>2 DEF AtRest
  <2> QED  BY <1>3, <2>3
<1> QED  BY <1>2, <1>3, <1>5, <1>6 DEF TypeOK

(* The type of the state; writeVot() leaves no full buffer behind a call.  *)
THEOREM TypeCorrect ==
  ASSUME Direct
  PROVE  Spec => []TypeOK
<1>1. TransInv => TypeOK
  BY TypesOfRun
<1> QED  BY <1>1, InvariantHolds, PTL

(* What a boot would recover is the files of the last checkpoint.          *)
LEMMA DurableFiles ==
  ASSUME Direct, TypeInv, TreeKept
  PROVE  /\ Durable \in [Inodes -> Contents]
         /\ \A f \in Inodes : Durable[f] = Cont0(f)
         /\ \A f \in Inodes : Durable[f] = NoFile \/ Durable[f] \in Filled
<1>1. PICK P, r, gone : P = saved.pages /\ r = Root /\ gone = saved.obs \cup marked
  OBVIOUS
<1>2. /\ GoodTree(P, r) /\ Tree(P, r) \cap gone = {} /\ P \in [Addr -> PageSet]
      /\ P[r].ref = Ref0
  BY <1>1 DEF TreeKept, TypeInv, Tree0, Ref0
<1>3. ASSUME NEW f \in Inodes
      PROVE  /\ ContentsOf(P, gone, r, f) = FileCont(P, P[r].ref[f])
             /\ FileCont(P, P[r].ref[f]) \in Contents
  BY <1>2, ContentsOfTree
<1>4. \A f \in Inodes : Cont0(f) = FileCont(P, P[r].ref[f])
  BY <1>1, <1>2 DEF Cont0
<1>5. Durable = [f \in Inodes |-> ContentsOf(P, gone, r, f)]
  BY <1>1 DEF Durable, Root
<1>6. \A f \in Inodes : Durable[f] = NoFile \/ Durable[f] \in Filled
  <2>1. \A f \in Inodes : P[r].ref[f] # EMPTY => FileCont(P, P[r].ref[f]) \in Filled
    BY <1>2, FilledTree
  <2> QED  BY <1>3, <1>5, <2>1 DEF FileCont
<1> QED  BY <1>3, <1>4, <1>5, <1>6

LEMMA ReadsOfRun ==
  ASSUME Direct, TransInv
  PROVE  ReadsBack
<1>1. SUFFICES ASSUME Ready, NEW f \in Inodes
               PROVE  IF TidsOf(f) # {}
                      THEN \A b \in Blocks : ReadOf(First(TidsOf(f)), b) =
                                             intent[First(TidsOf(f))][f][b]
                      ELSE ContentsOf(pages, obs, fs.ino0, f) = Durable[f]
  BY DEF ReadsBack
<1>2. TypeInv /\ TreeKept
  BY <1>1, Resting DEF Ready
<1>3. PICK own \in Owned, vw \in Owned, C \in AddrSets, D \in AddrSets :
        AtRest(own, vw) /\ Recoverable(C, D)
  BY <1>1, Resting DEF Ready
<1>4. ContentsOf(pages, obs, fs.ino0, f) = Durable[f]
  BY <1>2, <1>3, IdleFacts, DurableFiles
<1>5. ASSUME TidsOf(f) # {}, NEW b \in Blocks
      PROVE  ReadOf(First(TidsOf(f)), b) = intent[First(TidsOf(f))][f][b]
  <2>1. PICK t \in Tids : t = First(TidsOf(f)) /\ tr[t].ino = f
    <3>1. First(TidsOf(f)) \in TidsOf(f)
      BY <1>5, FirstFacts DEF TidsOf
    <3> QED  BY <3>1 DEF TidsOf
  <2>2. InUse(own, vw, t) /\ LiveOwn(own, t)
    <3>1. tr[t].ino # NoInode
      BY <2>1, DirectFacts DEF NoInode
    <3> QED  BY <1>2, <1>3, <3>1, IdleFacts DEF AtRest, Stable
  <2>3. /\ tr[t].node = "inode" /\ intent[t][f] = ContOf(pages, tr[t].ptrs)
        /\ Pointers(own, vw, t, tr[t].ptrs, f)
    BY <2>1, <2>2 DEF InUse, OpenFile, PtrsNow
  <2>4. ReadOf(t, b) = IF tr[t].ptrs[b] = EMPTY THEN {}
                       ELSE IF tr[t].ptrs[b] \in obs THEN Lost
                       ELSE pages[tr[t].ptrs[b]].ref
    BY <2>3, DirectFacts DEF ReadOf
  <2>5. tr[t].ptrs[b] # EMPTY => tr[t].ptrs[b] \notin obs
    <3>1. Pages0(f) \subseteq Tree0 /\ Tree0 \cap obs = {}
      BY <1>2, TreeFacts DEF TreeKept
    <3>2. own[t] \cap obs = {}
      BY <2>2 DEF LiveOwn
    <3> QED  BY <2>3, <3>1, <3>2 DEF Pointers
  <2> QED  BY <2>1, <2>3, <2>4, <2>5 DEF ContOf
<1> QED  BY <1>4, <1>5

(* Between calls every file reads as it was last written through its open  *)
(* transaction, else as committed: no abort, header, boot or commit of     *)
(* another file changes what nandfs_read() returns.                        *)
THEOREM FilesReadBack ==
  ASSUME Direct
  PROVE  Spec => []ReadsBack
<1>1. TransInv => ReadsBack
  BY ReadsOfRun
<1> QED  BY <1>1, InvariantHolds, PTL

(* No page that a boot needs for the files of the last checkpoint is       *)
(* obsolete: every commit, abort and boot marks pages of no file of it.    *)
(* What marks lost pages is not a value of the files.                      *)
THEOREM CommittedPagesKept ==
  ASSUME Direct, "lost" \notin Files \cup Data
  PROVE  Spec => []CommittedReadable
<1>1. TransInv => CommittedReadable
  <2>1. SUFFICES ASSUME TransInv, NEW f \in Inodes, NEW b \in Blocks
                 PROVE  Durable[f][b] # Lost
    BY DEF CommittedReadable
  <2>2. Durable[f] = NoFile \/ Durable[f] \in Filled
    BY <2>1, DurableFiles DEF TransInv
  <2>3. NoFile[b] # Lost
    BY DEF NoFile, Lost
  <2>4. Lost \notin Values
    BY DEF Lost, Values, Vals
  <2> QED  BY <2>2, <2>3, <2>4 DEF Filled
<1> QED  BY <1>1, InvariantHolds, PTL

-----------------------------------------------------------------------------
(* Every step is one of AtomicCommit, or none.                             *)

LEMMA DurableNext ==
  ASSUME Direct, TypeInv', TreeKept'
  PROVE  /\ Durable' \in [Inodes -> Contents]
         /\ \A f \in Inodes : Durable'[f] = Cont0(f)'
<1>1. PICK P, r, gone : P = saved'.pages /\ r = Root' /\ gone = saved'.obs \cup marked'
  OBVIOUS
<1>2. /\ GoodTree(P, r) /\ Tree(P, r) \cap gone = {} /\ P \in [Addr -> PageSet]
      /\ P[r].ref = Ref0'
  <2>1. GoodTree(P, r)
    <3>1. /\ Root' \in Addr /\ saved'.pages[Root'].kind = "ino0"
          /\ saved'.pages[Root'].ref[Dir] # EMPTY
          /\ \A f \in Inodes : GoodFile(saved.pages, saved.pages[Root].ref[f])'
          /\ \A f, g \in Inodes : f # g =>
               FilePages(saved.pages, saved.pages[Root].ref[f])'
                 \cap FilePages(saved.pages, saved.pages[Root].ref[g])' = {}
      BY DEF TreeKept, GoodTree
    <3>2. ASSUME NEW f \in Inodes PROVE GoodFile(P, P[r].ref[f])
      <4>1. PICK n : n = P[r].ref[f]
        OBVIOUS
      <4>2. saved'.pages[Root'].ref[f] = n
        BY <1>1, <4>1
      <4>3. GoodFile(saved.pages, saved.pages[Root].ref[f])'
        BY <3>1
      <4>4. n # EMPTY =>
              /\ P[n].kind = "inode"
              /\ \A b \in Blocks : P[n].ref[b] # EMPTY =>
                   /\ P[P[n].ref[b]].kind = "data"
                   /\ \A c \in Blocks \ {b} : P[n].ref[c] # P[n].ref[b]
        BY <1>1, <4>2, <4>3 DEF GoodFile
      <4> QED  BY <4>1, <4>4 DEF GoodFile
    <3>3. \A f \in Inodes : FilePages(saved.pages, saved.pages[Root].ref[f])'
                              = FilePages(P, P[r].ref[f])
      BY <1>1 DEF FilePages
    <3> QED  BY <1>1, <3>1, <3>2, <3>3 DEF GoodTree
  <2>2. Tree0' = Tree(P, r)
    BY <1>1 DEF Tree0, Tree, FilePages
  <2>3. Tree(P, r) \cap gone = {}
    BY <1>1, <2>2 DEF TreeKept
  <2> QED  BY <1>1, <2>1, <2>3 DEF TypeInv, Ref0
<1>3. ASSUME NEW f \in Inodes
      PROVE  /\ ContentsOf(P, gone, r, f) = FileCont(P, P[r].ref[f])
             /\ FileCont(P, P[r].ref[f]) \in Contents
  BY <1>2, ContentsOfTree
<1>4. \A f \in Inodes : Cont0(f)' = FileCont(P, P[r].ref[f])
  BY <1>1, <1>2 DEF Cont0, FileCont, ContOf
<1>5. Durable' = [f \in Inodes |-> ContentsOf(P, gone, r, f)]
  BY <1>1 DEF Durable, Root
<1> QED  BY <1>3, <1>4, <1>5

LEMMA DurableSame ==
  ASSUME Direct, TypeInv, TreeKept, TypeInv', TreeKept', SameTree
  PROVE  Durable' = Durable
<1>1. /\ Durable \in [Inodes -> Contents] /\ Durable' \in [Inodes -> Contents]
      /\ \A f \in Inodes : Durable[f] = Cont0(f) /\ Durable'[f] = Cont0(f)'
  BY DurableFiles, DurableNext
<1>2. \A f \in Inodes : Cont0(f)' = Cont0(f)
  BY DEF SameTree
<1> QED  BY <1>1, <1>2

(* A checkpoint saves the files of the last one again, or is the one of a  *)
(* commit.                                                                 *)
LEMMA CheckpointCases ==
  ASSUME Direct, TransInv, Checkpoint
  PROVE  \/ intent' = intent /\ SameTree
         \/ /\ T \in Tids /\ intent' = [intent EXCEPT ![T] = NoChange]
            /\ \A g \in Inodes :
                 Cont0(g)' = IF g \in DOMAIN intent[T] THEN intent[T][g] ELSE Cont0(g)
<1>1. /\ todo # <<>> /\ Op.op = "checkpoint"
      /\ UNCHANGED <<pages, obs, tr, call>> /\ WriteCheckpoint
      /\ intent' = IF Rest # <<>> /\ Head(Rest).op = "walk"
                   THEN [intent EXCEPT ![T] = NoChange] ELSE intent
  BY DEF Checkpoint, Doing, Kept
<1>2. IsRunning
  BY <1>1, HeadOps
<1>3. PICK own \in Owned, vw \in Owned, A \in Seq(Ops), X \in Seq(Ops), m \in Seq(Ops) :
        Running(own, vw, A, X, m)
  BY <1>2 DEF IsRunning
<1>4. TypeInv /\ TreeKept /\ FsOK(m) /\ Shape(A, X, m)
  BY <1>3 DEF TransInv, Running
<1>5. CASE A # <<>>
  <2>1. /\ Op = Head(A) /\ Rest = Tail(A) \o (X \o m) /\ Tail(A) \in Seq(Ops)
        /\ ~ InWindow(m)
    <3>1. \/ (/\ A # <<>> /\ Op = Head(A) /\ Rest = Tail(A) \o (X \o m)
              /\ Tail(A) \in Seq(Ops))
          \/ A = <<>>
      BY <1>1, <1>4, TodoParts
    <3>2. ~ InWindow(m)
      BY <1>4, <1>5 DEF Shape
    <3> QED  BY <1>5, <3>1, <3>2
  <2>2. Tail(A) # <<>> /\ Head(Tail(A)) = Todo("find")
    <3>1. IsAbort(A)
      BY <1>4 DEF Shape
    <3>2. PICK u \in Tids :
              \/ Head(A) = Do("delete", NoInode, u) /\ Tail(A) # <<>>
                 /\ Head(Tail(A)) = Do("init", NoInode, u)
              \/ Head(A) = Do("init", NoInode, u) /\ Tail(A) # <<>>
                 /\ Head(Tail(A)) = Todo("checkpoint")
              \/ Head(A) = Todo("checkpoint") /\ Tail(A) # <<>>
                 /\ Head(Tail(A)) = Todo("find")
              \/ Head(A) = Todo("find") /\ Tail(A) = <<>>
      BY <1>5, <3>1, AbortParts
    <3>3. /\ Do("delete", NoInode, u).op = "delete" /\ Do("init", NoInode, u).op = "init"
          /\ Todo("find").op = "find"
      BY DEF Do, Todo
    <3> QED  BY <1>1, <2>1, <3>2, <3>3
  <2>3. Head(Rest) = Todo("find")
    <3>1. X \o m \in Seq(Ops)
      BY Cat
    <3> QED  BY <2>1, <2>2, <3>1, Cat
  <2>4. intent' = intent
    <3>1. Todo("find").op = "find"
      BY DEF Todo, Do
    <3> QED  BY <1>1, <2>3, <3>1
  <2>5. fs.ino0 = Root
    BY <1>4, <2>1 DEF FsOK
  <2> QED  BY <1>1, <1>4, <2>4, <2>5, SameAgain
<1>6. CASE A = <<>> /\ X # <<>>
  <2>1. Op.op \in {"find", "votsPage", "vot", "prev", "mark"}
    BY <1>1, <1>3, <1>6, RunningHead
  <2> QED  BY <1>1, <2>1
<1>7. CASE A = <<>> /\ X = <<>>
  <2>1. T \in Tids /\ todo = m /\ Rest = Tail(m) /\ Op = Head(m)
    BY <1>1, <1>3, <1>7, RunningHead
  <2>2. \/ RestPhase(own, vw, X, m) /\ m = kCp2
        \/ UncommittedPhase(own, vw, X, m) /\ m = kCp
    <3>1. MineOK(own, vw, A, X, m)
      BY <2>1, <1>3 DEF Running
    <3>2. RestPhase(own, vw, X, m) \/ UncommittedPhase(own, vw, X, m) \/ WalkPhase(own, X, m)
      BY <1>7, <3>1 DEF MineOK, Dying
    <3>3. UncommittedPhase(own, vw, X, m) => m = kCp
      BY <1>1, <2>1, MainHead DEF UncommittedPhase
    <3>4. ~ WalkPhase(own, X, m)
      <4>1. own[T] \cup {EMPTY} \subseteq Addr0
        BY <2>1 DEF Owned, AddrSets, Addr0
      <4> QED  BY <1>1, <2>1, <4>1, EndHeads DEF WalkPhase
    <3>5. RestPhase(own, vw, X, m) => m = kCp2
      <4>1. Head(kAgain(T)) = Do("delete", NoInode, T)
        BY <2>1, AbortFacts, Cat, RetFacts DEF kAgain, AbortTails
      <4>2. Head(kAgain(T)).op = "delete"
        BY <4>1 DEF Do
      <4>3. m # <<>>
        BY <1>1, <2>1
      <4> QED  BY <1>1, <2>1, <4>2, <4>3, EndHeads DEF RestPhase
    <3> QED  BY <3>2, <3>3, <3>4, <3>5
  <2>3. CASE m = kCp2
    <3>1. Rest = kFind2 /\ Head(kFind2).op = "find"
      BY <2>1, <2>3, EndFacts, EndHeads
    <3>2. intent' = intent
      BY <1>1, <3>1
    <3>3. ~ InWindow(m)
      BY <2>3, WindowFacts
    <3>4. fs.ino0 = Root
      BY <1>4, <3>3 DEF FsOK
    <3> QED  BY <1>1, <1>4, <3>2, <3>4, SameAgain
  <2>4. CASE UncommittedPhase(own, vw, X, m) /\ m = kCp
    <3>1. Rest = kWalk /\ kWalk # <<>> /\ Head(kWalk).op = "walk"
      BY <2>1, <2>4, EndFacts, EndHeads
    <3>2. intent' = [intent EXCEPT ![T] = NoChange]
      BY <1>1, <3>1
    <3>3. FsOK(kCp) /\ UncommittedPhase(own, vw, <<>>, kCp)
      BY <1>4, <1>7, <2>4
    <3> QED  BY <1>1, <1>4, <2>1, <3>2, <3>3, CommitPoint
  <2> QED  BY <2>2, <2>3, <2>4
<1> QED  BY <1>5, <1>6, <1>7

(* A header saves the files of the last checkpoint again.                  *)
LEMMA HeaderSaves ==
  ASSUME Direct, TransInv, FindNextFreePage
  PROVE  intent' = intent /\ SameTree
<1>1. /\ todo # <<>> /\ Op.op = "find" /\ UNCHANGED <<pages, obs, tr, call, intent>>
      /\ saved' = saved \/ WriteCheckpoint
  BY DEF FindNextFreePage, Doing, Kept
<1>2. TypeInv /\ TreeKept
  BY DEF TransInv
<1>3. fs.ino0 = Root
  <2>1. ASSUME NEW own \in Owned, NEW vw \in Owned, NEW A \in Seq(Ops), NEW X \in Seq(Ops),
               NEW m \in Seq(Ops), Running(own, vw, A, X, m)
        PROVE  fs.ino0 = Root
    <3>1. ~ InWindow(m)
      <4>1. CASE A # <<>>
        BY <2>1, <4>1 DEF Running, Shape
      <4>2. CASE A = <<>> /\ X # <<>>
        <5>1. UncommittedPhase(own, vw, X, m)
          BY <1>1, <2>1, <4>2, RunningHead
        <5>2. m \notin {kLast, kSetFs, kCp}
          BY <4>2, <5>1 DEF UncommittedPhase
        <5> QED  BY <5>2, WindowFacts
      <4>3. CASE A = <<>> /\ X = <<>>
        <5>1. Op = Head(m)
          BY <1>1, <2>1, <4>3, RunningHead
        <5> QED  BY <1>1, <5>1, WindowFacts
      <4> QED  BY <4>1, <4>2, <4>3
    <3> QED  BY <2>1, <3>1 DEF Running, FsOK
  <2>2. ASSUME NEW C \in AddrSets, NEW D \in AddrSets, NEW Y \in Seq(Ops),
               BootingFrom(C, D, Y)
        PROVE  fs.ino0 = Root
    BY <2>2 DEF BootingFrom
  <2> QED  BY <2>1, <2>2 DEF TransInv
<1> QED  BY <1>1, <1>2, <1>3, SameAgain, SameSaved

(* The other steps leave the saved files and the intended contents alone.  *)
LEMMA QuietStep ==
  ASSUME Step, ~ Checkpoint, ~ FindNextFreePage, ~ InitTransaction
  PROVE  saved' = saved /\ intent' = intent
<1>1. ASSUME WriteStep PROVE saved' = saved /\ intent' = intent
  <2>1. CASE WriteData
    BY <2>1 DEF WriteData, WritePage
  <2>2. CASE WriteActive
    BY <2>2 DEF WriteActive, WritePage
  <2>3. CASE WriteUpper
    BY <2>3 DEF WriteUpper, WritePage
  <2>4. CASE WriteInode
    BY <2>4 DEF WriteInode, WritePage
  <2>5. CASE WriteInode0
    BY <2>5 DEF WriteInode0, WritePage
  <2>6. CASE VotsPage
    BY <2>6 DEF VotsPage, WritePage
  <2>7. CASE LastVots
    BY <2>7 DEF LastVots, WritePage, flashVars
  <2> QED  BY <1>1, <2>1, <2>2, <2>3, <2>4, <2>5, <2>6, <2>7 DEF WriteStep
<1>2. ASSUME CommitStep PROVE saved' = saved /\ intent' = intent
  BY <1>2 DEF CommitStep, CommitInodeOp, ReadUpper, KeepInode, LoadInode0, NewInode0,
              SetFs, StartWalk, WalkVots, MarkVot, Finish, Return, Kept, flashVars
<1> QED
  BY <1>1, <1>2 DEF Step, SetPrev, Vot, AbortOther, WriteError, DeletePage, Seek, Load,
                    TurnToDir, BootVots, BootDelete, BootEnd, Kept, flashVars

(* A call that changes what transaction t intends.                         *)
LEMMA Intends1 ==
  ASSUME TypeInv', NEW t \in Tids, Durable' = Durable,
         \A u \in Tids \ {t} : intent'[u] = intent[u]
  PROVE  Atomic!Intend(t)
<1>1. intent' \in [Tids -> ChangeSet]
  BY DEF TypeInv
<1>2. intent'[t] \in ChangeSet
  BY <1>1
<1>3. PICK S \in SUBSET Inodes : intent'[t] \in [S -> Contents]
  BY <1>2 DEF ChangeSet
<1>4. Atomic!IsChange(intent'[t])
  BY <1>3 DEF Atomic!IsChange
<1> QED  BY <1>1, <1>4 DEF Atomic!Intend

LEMMA CallIntends ==
  ASSUME Direct, TypeInv, Call
  PROVE  /\ saved' = saved
         /\ \/ intent' = intent
            \/ \E t \in Tids : \A u \in Tids \ {t} : intent'[u] = intent[u]
<1>1. DOMAIN intent = Tids
  BY DEF TypeInv
<1>2. ASSUME NEW f \in Files, NEW b \in Blocks, NEW v \in Data, Write(f, b, v)
      PROVE  /\ saved' = saved
             /\ \E t \in Tids : \A u \in Tids \ {t} : intent'[u] = intent[u]
  <2>1. PICK t : t = IF TidsOf(f) # {} THEN First(TidsOf(f)) ELSE First(FreeTids)
    OBVIOUS
  <2>2. t \in Tids
    <3>1. TidsOf(f) # {} => First(TidsOf(f)) \in Tids
      BY FirstFacts DEF TidsOf
    <3>2. FreeTids # {} => First(FreeTids) \in Tids
      BY FirstFacts DEF FreeTids
    <3> QED  BY <1>2, <2>1, <3>1, <3>2 DEF Write
  <2>3. Intends(t, f, [SeenBy(t, f) EXCEPT ![b] = {v}])
    BY <1>2, <2>1 DEF Write
  <2> QED  BY <1>1, <1>2, <2>2, <2>3 DEF Write, Intends, flashVars
<1>3. ASSUME NEW f \in Files, Commit(f) PROVE saved' = saved /\ intent' = intent
  BY <1>3 DEF Commit, flashVars
<1>4. FreeTids # {} => First(FreeTids) \in Tids
  BY FirstFacts DEF FreeTids
<1>5. ASSUME NEW f \in Files, Create(f)
      PROVE  /\ saved' = saved
             /\ \E t \in Tids : \A u \in Tids \ {t} : intent'[u] = intent[u]
  BY <1>1, <1>4, <1>5 DEF Create, flashVars
<1>6. ASSUME NEW f \in Files, Unlink(f)
      PROVE  /\ saved' = saved
             /\ \E t \in Tids : \A u \in Tids \ {t} : intent'[u] = intent[u]
  BY <1>1, <1>4, <1>6 DEF Unlink, flashVars
<1> QED  BY <1>2, <1>3, <1>5, <1>6 DEF Call

(* A step of Transactions is a step of AtomicCommit, or changes neither    *)
(* what a boot recovers nor what transactions intend.                      *)
LEMMA NextIsAtomic ==
  ASSUME Direct, TransInv, TransInv', Next
  PROVE  Atomic!AtomicNext \/ UNCHANGED <<Durable, intent>>
<1>1. TypeInv /\ TreeKept /\ TypeInv' /\ TreeKept'
  BY DEF TransInv
<1>2. SameTree => Durable' = Durable
  BY <1>1, DurableSame
<1>3. saved' = saved => Durable' = Durable
  BY <1>2, SameSaved
<1>4. intent = [t \in Tids |-> intent[t]] /\ DOMAIN intent = Tids
  BY <1>1 DEF TypeInv
<1>5. CASE Checkpoint
  <2>1. CASE intent' = intent /\ SameTree
    BY <1>2, <2>1
  <2>2. CASE /\ T \in Tids /\ intent' = [intent EXCEPT ![T] = NoChange]
             /\ \A g \in Inodes :
                  Cont0(g)' = IF g \in DOMAIN intent[T] THEN intent[T][g] ELSE Cont0(g)
    <3>1. PICK t \in Tids : t = T
      BY <2>2
    <3>2. /\ Durable' \in [Inodes -> Contents]
          /\ \A g \in Inodes : Durable'[g] = Cont0(g)' /\ Durable[g] = Cont0(g)
      BY <1>1, DurableFiles, DurableNext
    <3>3. \A g \in Inodes :
            Durable'[g] = IF g \in DOMAIN intent[t] THEN intent[t][g] ELSE Durable[g]
      BY <2>2, <3>1, <3>2
    <3>4. Durable' = [g \in Inodes |-> IF g \in DOMAIN intent[t] THEN intent[t][g]
                                       ELSE Durable[g]]
      BY <3>2, <3>3
    <3>5. intent' = [intent EXCEPT ![t] = Atomic!NoChange]
      BY <2>2, <3>1 DEF NoChange, Atomic!NoChange
    <3>6. Atomic!Commit(t)
      BY <3>4, <3>5 DEF Atomic!Commit
    <3> QED  BY <3>1, <3>6 DEF Atomic!AtomicNext
  <2> QED  BY <1>5, <2>1, <2>2, CheckpointCases
<1>6. CASE FindNextFreePage
  BY <1>2, <1>6, HeaderSaves
<1>7. CASE InitTransaction
  <2>1. PICK S \in SUBSET Tids : S = {Op.a} \cap Tids
    OBVIOUS
  <2>2. intent' = [intent EXCEPT ![Op.a] = NoChange] /\ saved' = saved
    BY <1>7 DEF InitTransaction, Kept, flashVars
  <2>3. intent' = [t \in Tids |-> IF t \in S THEN Atomic!NoChange ELSE intent[t]]
    BY <1>4, <2>1, <2>2 DEF NoChange, Atomic!NoChange
  <2>4. Atomic!Drop(S)
    BY <1>3, <2>2, <2>3 DEF Atomic!Drop
  <2> QED  BY <2>4 DEF Atomic!AtomicNext
<1>8. CASE Step /\ ~ Checkpoint /\ ~ FindNextFreePage /\ ~ InitTransaction
  BY <1>3, <1>8, QuietStep
<1>9. CASE Call
  <2>1. Durable' = Durable
    BY <1>1, <1>3, <1>9, CallIntends
  <2>2. CASE intent' = intent
    BY <2>1, <2>2
  <2>3. CASE \E t \in Tids : \A u \in Tids \ {t} : intent'[u] = intent[u]
    <3>1. PICK t \in Tids : \A u \in Tids \ {t} : intent'[u] = intent[u]
      BY <2>3
    <3>2. Atomic!Intend(t)
      BY <1>1, <2>1, <3>1, Intends1
    <3> QED  BY <3>2 DEF Atomic!AtomicNext
  <2> QED  BY <1>1, <1>9, <2>2, <2>3, CallIntends
<1>10. CASE PowerFailure
  <2>1. intent' = [t \in Tids |-> NoChange] /\ saved' = saved
    BY <1>10 DEF PowerFailure
  <2>2. intent' = [t \in Tids |-> IF t \in Tids THEN Atomic!NoChange ELSE intent[t]]
    BY <2>1 DEF NoChange, Atomic!NoChange
  <2>3. Atomic!Drop(Tids)
    BY <1>3, <2>1, <2>2 DEF Atomic!Drop
  <2> QED  BY <2>3 DEF Atomic!AtomicNext
<1> QED  BY <1>5, <1>6, <1>7, <1>8, <1>9, <1>10 DEF Next

LEMMA InitIsAtomic ==
  ASSUME Direct, Init
  PROVE  Atomic!AtomicInit
<1>1. TypeInv /\ TreeKept
  BY InitInv DEF TransInv
<1>2. intent = [t \in Tids |-> Atomic!NoChange]
  BY DEF Init, NoChange, Atomic!NoChange
<1> QED  BY <1>1, <1>2, DurableFiles DEF Atomic!AtomicInit

(* Every behaviour is one of AtomicCommit: what a boot recovers changes    *)
(* only by the first checkpoint of commitTransaction(), then to exactly    *)
(* what the calls of that transaction wrote, for the file, the directory   *)
(* and inode0 together.                                                    *)
THEOREM CommitsAtomic ==
  ASSUME Direct
  PROVE  Spec => CommitsAreAtomic
<1>1. Init => Atomic!AtomicInit
  BY InitIsAtomic
<1>2. TransInv /\ TransInv' /\ [Next]_vars => [Atomic!AtomicNext]_<<Durable, intent>>
  <2>1. SUFFICES ASSUME TransInv, TransInv', [Next]_vars
                 PROVE  Atomic!AtomicNext \/ UNCHANGED <<Durable, intent>>
    OBVIOUS
  <2>2. CASE Next
    BY <2>1, <2>2, NextIsAtomic
  <2>3. CASE UNCHANGED vars
    <3>1. saved' = saved /\ intent' = intent /\ marked' = marked
      BY <2>3 DEF vars
    <3> QED  BY <3>1 DEF Durable
  <2> QED  BY <2>1, <2>2, <2>3
<1> QED
  BY <1>1, <1>2, InvariantHolds, PTL DEF Spec, CommitsAreAtomic, Atomic!AtomicSpec

=============================================================================

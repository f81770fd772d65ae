---------------------------- MODULE AtomicCommit ----------------------------
(***************************************************************************)
(* What the transactions of the file system promise, without pages: every  *)
(* open transaction has the contents it intends for the files it changes,  *)
(* and the durable contents change only when a transaction is committed,   *)
(* then for all its files at once.  Transactions may be dropped at any     *)
(* time: by an error, for lack of free pages, by a power failure.          *)
(***************************************************************************)
CONSTANTS Tids, Inodes, Contents

VARIABLES
  durable,          (* what a boot would recover: contents of every inode  *)
  intent            (* contents intended by every open transaction         *)

(* A change: new contents of some inodes.                                  *)
IsChange(c) == /\ DOMAIN c \subseteq Inodes
               /\ \A i \in DOMAIN c : c[i] \in Contents
NoChange == [i \in {} |-> {}]

AtomicInit ==
  /\ durable \in [Inodes -> Contents]
  /\ intent = [t \in Tids |-> NoChange]

Intend(t) ==
  /\ DOMAIN intent' = Tids /\ IsChange(intent'[t])
  /\ \A u \in Tids \ {t} : intent'[u] = intent[u]
  /\ UNCHANGED durable

Commit(t) ==
  /\ durable' = [i \in Inodes |-> IF i \in DOMAIN intent[t] THEN intent[t][i]
                                  ELSE durable[i]]
  /\ intent' = [intent EXCEPT ![t] = NoChange]

Drop(T) ==
  /\ intent' = [t \in Tids |-> IF t \in T THEN NoChange ELSE intent[t]]
  /\ UNCHANGED durable

AtomicNext ==
  \/ \E t \in Tids : Intend(t) \/ Commit(t)
  \/ \E T \in SUBSET Tids : Drop(T)

AtomicSpec == AtomicInit /\ [][AtomicNext]_<<durable, intent>>
=============================================================================

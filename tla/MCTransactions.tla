--------------------------- MODULE MCTransactions ---------------------------
(* Instances of Transactions for TLC.                                      *)
EXTENDS Transactions

OneFile == <<"f">>

(* Files with direct blocks only.                                          *)
DirectBlocks == {"b0"}
DirectNodes  == {"inode"}

(* Files with indirect, double and triple indirect blocks.                 *)
TripleBlocks == {"b0", "b1", "b2", "b3"}
TripleNodes  == {"inode", "indirect", "double", "leaf",
                 "triple", "double3", "leaf3"}

(* What points to what.                                                    *)
PointedBy ==
  [b0 |-> "inode", indirect |-> "inode", double |-> "inode", triple |-> "inode",
   b1 |-> "indirect", leaf |-> "double", b2 |-> "leaf",
   double3 |-> "triple", leaf3 |-> "double3", b3 |-> "leaf3"]
=============================================================================

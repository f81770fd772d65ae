---------------------------- MODULE MCOpenFiles ----------------------------
(***************************************************************************)
(* Two users, two files in the root directory and two streams over it;     *)
(* tables of two entries and two vnodes.                                   *)
(***************************************************************************)
EXTENDS OpenFiles, TLC

FlagSets == {{}, {"RDONLY"}, {"RDONLY", "WRONLY", "APPEND", "CREAT"}}

NameSymmetry == Permutations(Users) \cup Permutations(Files)
=============================================================================

------------------------------ MODULE MCSeqBoot ------------------------------
(***************************************************************************)
(* The instances of the recovery: slots of two EUs of three pages, so      *)
(* that a copy back moves several pages, with two data segments.           *)
(***************************************************************************)
EXTENDS SeqBoot
=============================================================================

---------------------------- MODULE MCSequencing ----------------------------
(***************************************************************************)
(* The instances of the sequencing layer.  A slot has at least two EUs; it *)
(* has three where a reserve slot must offer an EU beside its header and   *)
(* the copy-back EU.  Slots 0 and 1 hold the first two data segments, slot *)
(* 2 is the first empty slot and slot 3 the reserve when NSlots is 4.      *)
(***************************************************************************)
EXTENDS SequencingProperties

NoBadEus == {}

(* A data EU that one reserve EU can replace.                              *)
OneBadEu == {<<1, 1>>}

(* A reserve slot without a spare EU, and a bad first EU to move it to.    *)
BadReserveEu == {<<3, 1>>, <<2, 0>>}
=============================================================================

---------------------------- MODULE MCGnosStake ----------------------------
(***************************************************************************)
(* GnosStake on small instances.                                           *)
(***************************************************************************)
EXTENDS GnosStake

=============================================================================

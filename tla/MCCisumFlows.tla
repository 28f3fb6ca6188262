---------------------------- MODULE MCCisumFlows ----------------------------
(***************************************************************************)
(* CisumFlows on small instances.                                          *)
(***************************************************************************)
EXTENDS CisumFlows, TLC

UserSymmetry == Permutations(Users) \cup Permutations(Urls) \cup Permutations(Hashes)

=============================================================================

---------------------------- MODULE MCTbaAccount ----------------------------
(***************************************************************************)
(* TbaAccount on small instances.                                          *)
(***************************************************************************)
EXTENDS TbaAccount, TLC

UserSymmetry == Permutations(Users)

(* A unit of one NFT, or one of each of two in one transfer.               *)
OneUnit(nid) == [nid |-> nid, amount |-> 1]
UnitVectors == {<<OneUnit(nid)>> : nid \in Nids}
               \cup {<<OneUnit(m), OneUnit(n)>> : m, n \in Nids}

=============================================================================

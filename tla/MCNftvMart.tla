----------------------------- MODULE MCNftvMart -----------------------------
(***************************************************************************)
(* NftvMart on small instances.                                            *)
(***************************************************************************)
EXTENDS NftvMart, TLC

UserSymmetry == Permutations(Users)

OneUnit(nid) == [nid |-> nid, amount |-> 1]
SingleVectors == {<<OneUnit(nid)>> : nid \in Nids}
PairVectors == SingleVectors \cup {<<OneUnit(1), OneUnit(2)>>}

Fees(p, c, s) ==
  LET receiver == CHOOSE a \in FeeAccounts : TRUE
  IN  [platform_bp |-> p, creator_bp |-> c, stake_bp |-> s,
       platform_account |-> receiver, stake_account |-> receiver]

(* Of four basis points: one to each receiver, all four, or no setting.    *)
SomeFees == {Fees(1, 1, 1)}
WholeFees == {Fees(1, 2, 1)}
AllFees == SomeFees \cup WholeFees
NoFeeConfs == {}

=============================================================================

---------------------------- MODULE MCMartStake ----------------------------
(***************************************************************************)
(* MartStake on a small instance.                                          *)
(***************************************************************************)
EXTENDS MartStake

(* Of four basis points, one is the stake fee, as the deployment sets it   *)
(* up: the market's stake account is gnos.stake.                           *)
StakeFees == {[platform_bp |-> 0, creator_bp |-> 0, stake_bp |-> 1,
               platform_account |-> NoName, stake_account |-> StakeAccount]}

NoVectors == {}

=============================================================================

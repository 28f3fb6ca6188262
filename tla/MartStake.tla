------------------------------ MODULE MartStake ------------------------------
(***************************************************************************)
(* nftv.mart and gnos.stake together: the stake fee of a sale is a         *)
(* transfer of the payment token to the stake account of the fee           *)
(* configuration, and when that is gnos.stake its notification handler     *)
(* runs inside the sale.                                                   *)
(*                                                                         *)
(* The plan of an NFT belongs to whoever get_nft_controller finds in       *)
(* gnos.ntoken, the same account that the market pays a royalty to.        *)
(***************************************************************************)
EXTENDS NftvMart

CONSTANTS
  StakeAccount,   \* the account gnos.stake, one of FeeAccounts
  MaxAsset,       \* asset::max_amount
  Precision,      \* reward_precision
  PaySupply       \* units of each payment token in existence, at most MaxAsset

VARIABLES plans, positions, held, unbacked   \* gnos.stake

stakevars == <<plans, positions, held, unbacked>>
sysvars == <<allvars, stakevars>>

GS == INSTANCE GnosStake WITH
        Accounts <- Users \cup {Mart}, Nfts <- Nids, Tokens <- PayTokens,
        MaxAmount <- MaxAsset, Supply <- PaySupply, MaxUnbacked <- 0,
        controller <- [nid \in Nids |-> Creator(nid)]

SysInit == MartInit /\ GS!NoPlans

StakeShare(o) == Portion(orders[o].price, fee.stake_bp)

(* The sale's transfer with memo "gnos stake fee", which gnos.stake takes  *)
(* for neither a stake nor a reward.                                       *)
PayStakeFee(o) ==
  IF fee.stake_account = StakeAccount /\ StakeShare(o) > 0
  THEN GS!TransferOther(orders[o].pay_token, StakeShare(o))
  ELSE UNCHANGED stakevars

BuyAndPayFee(o, buyer) == Buy(o, buyer) /\ PayStakeFee(o)

(* What people do with gnos.stake.                                         *)
StakeNext ==
  \/ \E nid \in Nids, st, rt \in PayTokens : GS!Createplan(nid, st, rt)
  \/ \E a \in Users, nid \in Nids, t \in PayTokens, q \in 1 .. PaySupply :
       GS!TransferStake(a, nid, t, q) \/ GS!TransferReward(a, nid, t, q)
  \/ \E a \in Users, nid \in Nids, q \in 1 .. PaySupply : GS!Unstake(a, nid, q)
  \/ \E a \in Users, nid \in Nids : GS!Claim(a, nid)

SysNext ==
  \/ \E o \in 1 .. MaxOrders, a \in Users : BuyAndPayFee(o, a)
  \/ (OffersNext \/ OthersNext) /\ UNCHANGED stakevars
  \/ UNCHANGED allvars /\ StakeNext

SysSpec == SysInit /\ [][SysNext]_sysvars

-----------------------------------------------------------------------------
(* gnos.stake lets "only nft owner or nftv.mart" fund a reward: a stake    *)
(* fee in the reward token of the NFT's plan, sent to gnos.stake by the    *)
(* market, is reward of that plan.                                         *)
StakeFeeIsReward ==
  [][\A o \in Listed :
       LET nid == orders[o].nid
       IN  /\ orders'[o].status = "sold"
           /\ fee.stake_account = StakeAccount
           /\ nid \in DOMAIN plans
           /\ plans[nid].reward_token = orders[o].pay_token
           => plans'[nid].total_reward = plans[nid].total_reward + StakeShare(o)]_sysvars

=============================================================================

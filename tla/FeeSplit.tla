------------------------------ MODULE FeeSplit ------------------------------
(***************************************************************************)
(* How nftv.mart splits a price: platform, creator and stake each get      *)
(* their basis points of it, rounded down, and the seller gets the rest.   *)
(* SellerAmount_own_portion is the mistake of rounding the seller's part   *)
(* down as well.                                                           *)
(***************************************************************************)
EXTENDS Integers

CONSTANT BasisPoints   \* the whole, 10000

ASSUME BasisPointsAssumption == BasisPoints \in Nat \ {0}

(* What the split uses of a fee configuration are three uint16_t.           *)
IsFeeConf(conf) == {conf.platform_bp, conf.creator_bp, conf.stake_bp} \subseteq Nat

(* setfee and distribute_fees: the sum may be the whole.                   *)
ValidFees(conf) == conf.platform_bp + conf.creator_bp + conf.stake_bp <= BasisPoints

Portion(price, bp) == (price * bp) \div BasisPoints

SellerAmount_own_portion(price, conf) ==
  Portion(price, BasisPoints - conf.platform_bp - conf.creator_bp - conf.stake_bp)

SellerAmount(price, conf) ==
  price - Portion(price, conf.platform_bp) - Portion(price, conf.creator_bp)
        - Portion(price, conf.stake_bp)

=============================================================================

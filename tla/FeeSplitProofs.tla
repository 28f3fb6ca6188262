--------------------------- MODULE FeeSplitProofs ---------------------------
(***************************************************************************)
(* The fee arithmetic of nftv.mart for every price and every setting that  *)
(* setfee accepts.                                                         *)
(***************************************************************************)
EXTENDS FeeSplit, TLAPS

(* Rounding down never gives more than the basis points ask for.           *)
LEMMA PortionBound ==
  ASSUME NEW price \in Nat, NEW bp \in 0 .. BasisPoints
  PROVE  /\ Portion(price, bp) \in Nat
         /\ BasisPoints * Portion(price, bp) <= price * bp
<1> DEFINE n == price * bp
<1>1. BasisPoints \in Nat /\ BasisPoints > 0
  BY BasisPointsAssumption
<1>2. n \in Nat
  BY <1>1
<1> HIDE DEF n
<1>3. /\ n \div BasisPoints \in Nat
      /\ BasisPoints * (n \div BasisPoints) <= n
  BY <1>1, <1>2
<1>4. QED
  BY <1>3 DEF Portion, n

(* Three portions of at most the whole together take at most the price: the*)
(* check "invalid settlement result" of distribute_fees never fails, and   *)
(* the shares add up to the price whatever is lost to rounding.            *)
THEOREM SettlementIsValid ==
  ASSUME NEW price \in Nat, NEW conf, IsFeeConf(conf), ValidFees(conf)
  PROVE  /\ SellerAmount(price, conf) \in 0 .. price
         /\ BasisPoints * SellerAmount(price, conf) >=
              price * (BasisPoints - conf.platform_bp - conf.creator_bp - conf.stake_bp)
<1> DEFINE p == conf.platform_bp
           c == conf.creator_bp
           s == conf.stake_bp
           P == Portion(price, p)
           C == Portion(price, c)
           S == Portion(price, s)
           B == BasisPoints
<1>1. B \in Nat /\ B > 0
  BY BasisPointsAssumption
<1>3. p + c + s <= B
  BY DEF ValidFees
<1>2. p \in 0 .. B /\ c \in 0 .. B /\ s \in 0 .. B
  <2>1. p \in Nat /\ c \in Nat /\ s \in Nat
    BY DEF IsFeeConf
  <2>2. QED
    BY <1>1, <1>3, <2>1
<1>4. /\ P \in Nat /\ C \in Nat /\ S \in Nat
      /\ B * P <= price * p /\ B * C <= price * c /\ B * S <= price * s
  BY <1>2, PortionBound
<1>5. SellerAmount(price, conf) = price - P - C - S
  BY DEF SellerAmount
<1> HIDE DEF p, c, s, P, C, S, B
<1>6. price * p + price * c + price * s = price * (p + c + s)
  BY <1>1, <1>2
<1>7. B * (price - P - C - S) >= price * (B - p - c - s)
  <2>1. B * (price - P - C - S) = B * price - B * P - B * C - B * S
    BY <1>1, <1>4
  <2>2. price * (B - p - c - s) = B * price - price * p - price * c - price * s
    BY <1>1, <1>2
  <2>3. /\ B * price \in Int /\ B * P \in Int /\ B * C \in Int /\ B * S \in Int
        /\ price * p \in Int /\ price * c \in Int /\ price * s \in Int
    BY <1>1, <1>2, <1>4
  <2>4. QED
    BY <1>4, <2>1, <2>2, <2>3
<1>8. price * (B - p - c - s) >= 0
  BY <1>1, <1>2, <1>3
<1>9. price - P - C - S >= 0
  <2>1. price - P - C - S \in Int
    BY <1>4
  <2>2. B * (price - P - C - S) >= 0
    <3>1. B * (price - P - C - S) \in Int /\ price * (B - p - c - s) \in Int
      BY <1>1, <1>2, <2>1
    <3>2. QED
      BY <1>7, <1>8, <3>1
  <2>3. \A x \in Int : B * x >= 0 => x >= 0
    BY <1>1
  <2>4. QED
    BY <2>1, <2>2, <2>3
<1>10. QED
  BY <1>4, <1>5, <1>7, <1>9 DEF p, c, s, B

=============================================================================

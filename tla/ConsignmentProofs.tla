-------------------------- MODULE ConsignmentProofs --------------------------
(***************************************************************************)
(* The promise that Consignment makes about deals.                         *)
(***************************************************************************)
EXTENDS Consignment, SequenceTheorems, TLAPS

TypedDeals == deals \in Seq(Deal)

(* Ending deal d with some buyer, or none, keeps the terms of all deals.   *)
LEMMA EndingKeepsTerms ==
  ASSUME TypedDeals, NEW d \in Open, NEW ended \in Deal,
         ended.good = deals[d].good, ended.amount = deals[d].amount,
         ended.seller = deals[d].seller,
         deals' = [deals EXCEPT ![d] = ended]
  PROVE  TypedDeals' /\ DealsKept
<1>1. d \in 1 .. Len(deals) /\ deals[d].state = "open"
  BY DEF Open, TypedDeals
<1>2. deals' \in Seq(Deal)
  BY <1>1, ExceptSeq DEF TypedDeals
<1>3. DOMAIN deals' = DOMAIN deals
  OBVIOUS
<1>4. \A e \in DOMAIN deals : deals'[e] = IF e = d THEN ended ELSE deals[e]
  OBVIOUS
<1>5. QED
  BY <1>1, <1>2, <1>3, <1>4 DEF TypedDeals, DealsKept

(* Returning goods ends one deal and keeps every deal's terms.             *)
LEMMA ReturnStep ==
  ASSUME TypedDeals, NEW d \in DOMAIN deals, Return(d)
  PROVE  TypedDeals' /\ DealsKept
<1> DEFINE ended == [deals[d] EXCEPT !.state = "returned"]
<1>1. d \in Open /\ deals[d] \in Deal
  BY DEF Return, TypedDeals
<1>2. ended \in Deal
  BY <1>1 DEF Deal
<1>3. /\ ended.good = deals[d].good /\ ended.amount = deals[d].amount
      /\ ended.seller = deals[d].seller
  BY <1>1 DEF Deal
<1>4. deals' = [deals EXCEPT ![d] = ended]
  BY DEF Return
<1> HIDE DEF ended
<1>5. QED
  BY <1>1, <1>2, <1>3, <1>4, EndingKeepsTerms

(* Delivering goods ends one deal and keeps every deal's terms.            *)
LEMMA DeliverStep ==
  ASSUME TypedDeals, NEW d \in DOMAIN deals, NEW buyer \in Parties, Deliver(d, buyer)
  PROVE  TypedDeals' /\ DealsKept
<1> DEFINE ended == [deals[d] EXCEPT !.state = "delivered", !.buyer = buyer]
<1>1. d \in Open /\ deals[d] \in Deal
  BY DEF Deliver, TypedDeals
<1>2. ended \in Deal
  BY <1>1 DEF Deal
<1>3. /\ ended.good = deals[d].good /\ ended.amount = deals[d].amount
      /\ ended.seller = deals[d].seller
  BY <1>1 DEF Deal
<1>4. deals' = [deals EXCEPT ![d] = ended]
  BY <1>1 DEF Deliver, TypedDeals, Deal
<1> HIDE DEF ended
<1>5. QED
  BY <1>1, <1>2, <1>3, <1>4, EndingKeepsTerms

(* A new deal changes no earlier one.                                      *)
LEMMA ConsignStep ==
  ASSUME TypedDeals, NEW seller \in Parties, NEW good \in Goods, NEW boxed \in BOOLEAN,
         NEW amount \in 1 .. holdings[seller][good],
         Consign(seller, good, amount, boxed)
  PROVE  TypedDeals' /\ DealsKept
<1> DEFINE deal == [good |-> good, amount |-> amount, boxed |-> boxed,
                    seller |-> seller, state |-> "open", buyer |-> NoParty]
<1>1. deal \in Deal
  BY DEF Deal
<1>2. deals' = Append(deals, deal)
  BY DEF Consign
<1> HIDE DEF deal
<1>3. /\ deals' \in Seq(Deal) /\ Len(deals') = Len(deals) + 1
      /\ \A d \in 1 .. Len(deals) : deals'[d] = deals[d]
  BY <1>1, <1>2, AppendProperties DEF TypedDeals
<1>4. DOMAIN deals = 1 .. Len(deals) /\ DOMAIN deals' = 1 .. Len(deals')
  BY <1>3 DEF TypedDeals
<1>5. Len(deals) \in Nat
  BY DEF TypedDeals
<1>6. QED
  BY <1>3, <1>4, <1>5 DEF TypedDeals, DealsKept

(* No step changes the terms of a deal or one that has ended.              *)
LEMMA DealsStep ==
  ASSUME TypedDeals, [Next]_vars
  PROVE  TypedDeals' /\ DealsKept
<1>1. CASE UNCHANGED deals
  BY <1>1 DEF TypedDeals, DealsKept
<1>2. CASE Elsewhere
  BY <1>1, <1>2 DEF Elsewhere
<1>3. CASE UNCHANGED vars
  BY <1>1, <1>3 DEF vars
<1>4. QED
  BY <1>2, <1>3, ConsignStep, ReturnStep, DeliverStep DEF Next

(* Whatever is consigned ends with its seller or with one buyer, for good: *)
(* what every implementation of Consignment inherits.                      *)
THEOREM DealsAreSettledForGood == Spec => DealsAreFinal
<1>1. Init => TypedDeals
  BY DEF Init, TypedDeals
<1>2. TypedDeals /\ [Next]_vars => TypedDeals' /\ DealsKept
  BY DealsStep
<1>3. QED
  BY <1>1, <1>2, PTL DEF Spec, DealsAreFinal

=============================================================================

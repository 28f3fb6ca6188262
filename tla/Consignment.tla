----------------------------- MODULE Consignment -----------------------------
(***************************************************************************)
(* What nftv.mart promises, without saying how: units of a good are left   *)
(* on consignment, alone or as the key of a box.  They end either with the *)
(* one who left them or with one buyer, and a box that is on offer stays   *)
(* shut: what is in it does not change until the deal has ended.           *)
(*                                                                         *)
(* How units reach the parties or leave them by other ways, and what       *)
(* happens to boxes that are not on offer, is left open.                   *)
(***************************************************************************)
EXTENDS Integers, Sequences

CONSTANTS
  Parties,   \* sellers and buyers
  NoParty,   \* stands for the buyer of a deal that has none
  Goods

VARIABLES
  deals,     \* all deals ever made
  holdings,  \* holdings[p][g]: the units of good g in the hands of party p
  boxes,     \* boxes[g]: what is in the box that g opens
  keepers    \* keepers[g]: who may open that box, or NoParty

vars == <<deals, holdings, boxes, keepers>>

Deal == [good : Goods, amount : Nat \ {0}, boxed : BOOLEAN, seller : Parties,
         state : {"open", "returned", "delivered"}, buyer : Parties \cup {NoParty}]

Open == {d \in DOMAIN deals : deals[d].state = "open"}

Shut == {deals[d].good : d \in {e \in Open : deals[e].boxed}}

Init == deals = << >>

(* One party's units of one good change by so much, and nothing else moves.*)
Gains(party, good, amount) ==
  holdings' = [holdings EXCEPT ![party][good] = @ + amount]

Consign(seller, good, amount, boxed) ==
  /\ deals' = Append(deals, [good |-> good, amount |-> amount, boxed |-> boxed,
                             seller |-> seller, state |-> "open", buyer |-> NoParty])
  /\ holdings[seller][good] >= amount
  /\ Gains(seller, good, -amount)
  /\ boxed => keepers[good] = seller /\ good \notin Shut
  /\ UNCHANGED <<boxes, keepers>>

Return(d) ==
  /\ d \in Open
  /\ deals' = [deals EXCEPT ![d].state = "returned"]
  /\ Gains(deals[d].seller, deals[d].good, deals[d].amount)
  /\ UNCHANGED <<boxes, keepers>>

(* The buyer of a key becomes the keeper of the box.                       *)
Deliver(d, buyer) ==
  /\ d \in Open
  /\ deals' = [deals EXCEPT ![d].state = "delivered", ![d].buyer = buyer]
  /\ Gains(buyer, deals[d].good, deals[d].amount)
  /\ keepers' = IF deals[d].boxed THEN [keepers EXCEPT ![deals[d].good] = buyer]
                                  ELSE keepers
  /\ UNCHANGED boxes

(* Anything that leaves the deals alone, and the boxes on offer shut.      *)
Elsewhere ==
  /\ UNCHANGED deals
  /\ \A good \in Shut : boxes'[good] = boxes[good] /\ keepers'[good] = keepers[good]

Next ==
  \/ \E seller \in Parties, good \in Goods, boxed \in BOOLEAN :
       \E amount \in 1 .. holdings[seller][good] : Consign(seller, good, amount, boxed)
  \/ \E d \in DOMAIN deals : Return(d) \/ \E buyer \in Parties : Deliver(d, buyer)
  \/ Elsewhere

Spec == Init /\ [][Next]_vars

-----------------------------------------------------------------------------
(* A step leaves every deal with its terms, and an ended one as it is.     *)
DealsKept ==
  \A d \in DOMAIN deals :
    /\ d \in DOMAIN deals'
    /\ deals[d].state # "open" => deals'[d] = deals[d]
    /\ deals'[d].good = deals[d].good /\ deals'[d].amount = deals[d].amount
    /\ deals'[d].seller = deals[d].seller

(* Every deal that has ended is settled for good, with its seller or with  *)
(* one buyer, and its terms never change: nothing is sold twice.           *)
DealsAreFinal == [][DealsKept]_vars

=============================================================================

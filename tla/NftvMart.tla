------------------------------ MODULE NftvMart ------------------------------
(***************************************************************************)
(* The contract nftv.mart: sales of single NFTs and of bundles, that is a  *)
(* TBA's root NFT together with what the TBA contains.  The module extends *)
(* TbaAccount, so that its behaviours are those of gnos.ntoken, tba.reg,   *)
(* tba.account and nftv.mart together.                                     *)
(*                                                                         *)
(* The manifest that listbundle stores is kept in the order that refers to *)
(* it: the contract stores one per order and never changes it, and the     *)
(* hash comparison in buy is between two copies of the same value.         *)
(*                                                                         *)
(* External: payments.  A buyer has the price; a token contract refuses a  *)
(* transfer of nothing, to the sender, or to a name that is no account.    *)
(*                                                                         *)
(* An operator named X_y, defined before X, is X with the plausible        *)
(* mistake y: a mutant, which some property of the module must refute.     *)
(***************************************************************************)
EXTENDS TbaAccount, FeeSplit

CONSTANTS
  PayTokens,   \* token contracts offered as payment
  Prices,      \* prices asked
  FeeConfs,    \* the fee configurations setfee installs
  FeeAccounts, \* accounts that take part as receivers of fees only
  IpOwners,    \* the names setipowner installs
  MaxOrders    \* bound on the number of orders

VARIABLES
  orders,     \* the orders, by order id
  paytokens,  \* the enabled payment tokens
  fee,        \* the fee configuration
  funds       \* balance of nftv.mart in payment tokens (external)

martvars == <<orders, paytokens, fee, funds>>
allvars == <<vars, martvars>>

NoFees == [platform_bp |-> 0, creator_bp |-> 0, stake_bp |-> 0,
           platform_account |-> NoName, stake_account |-> NoName]

ASSUME NftvMartAssumption ==
  /\ Prices \subseteq Nat
  /\ \A conf \in FeeConfs :
       /\ IsFeeConf(conf)
       /\ {conf.platform_account, conf.stake_account} \subseteq Names \cup FeeAccounts
  /\ FeeAccounts \cap Names = {}
  /\ IpOwners \subseteq Names
  /\ MaxOrders \in Nat

Item == [what : Nids \cup {Coin}, amount : 1 .. Supply + MaxCoins]
Manifests == UNION { [ids -> Item] : ids \in SUBSET (1 .. MaxAssetId) }

Order == [sale_type : {"nft_only", "tba_bundle"}, nid : Nids, amount : 1 .. Supply,
          manifest : Manifests, seller : Users, pay_token : PayTokens,
          price : Prices, status : {"listed", "sold", "cancelled"},
          buyer : Users \cup {NoName}]

MartTypeOK ==
  /\ TypeOK
  /\ orders \in Seq(Order) /\ Len(orders) <= MaxOrders
  /\ paytokens \subseteq PayTokens
  /\ fee \in FeeConfs \cup {NoFees}
  /\ funds = 0

MartInit ==
  /\ Init
  /\ orders = << >>
  /\ paytokens = {}
  /\ fee = NoFees
  /\ funds = 0

Listed == {o \in DOMAIN orders : orders[o].status = "listed"}
IsBundle(o) == orders[o].sale_type = "tba_bundle"

-----------------------------------------------------------------------------
(* Listing: the units sold move into escrow.                               *)

Escrow(seller, nid, amount) ==
  NT!Transfer(seller, Mart, [n \in {nid} |-> amount])

Placed(order) ==
  /\ Len(orders) < MaxOrders
  /\ orders' = Append(orders, order)

ListNft(seller, nid, amount, pay_token, price) ==
  /\ pay_token \in paytokens
  /\ price > 0
  /\ Escrow(seller, nid, amount)
  /\ Placed([sale_type |-> "nft_only", nid |-> nid, amount |-> amount,
             manifest |-> << >>, seller |-> seller, pay_token |-> pay_token,
             price |-> price, status |-> "listed", buyer |-> NoName])
  /\ UNCHANGED <<tbavars, paytokens, fee, funds>>

(* build_manifest: what the market stores of the deliverables.             *)
Manifest(tba) ==
  [id \in Deliverables(tba) |->
     [what |-> assets[id].what, amount |-> assets[id].amount]]

(* The inline freezeassets acts under the market's own authority.          *)
Listbundle(seller, tba, pay_token, price) ==
  /\ pay_token \in paytokens
  /\ price > 0
  /\ tba \in DOMAIN tbas
  /\ tbas[tba].status = "active"
  /\ tbas[tba].owner = seller
  /\ HasManifest(tba)
  /\ CanFreeze(tba, Deliverables(tba), TRUE)
  /\ assets' = Frozen(Deliverables(tba), TRUE)
  /\ Escrow(seller, tba, tbas[tba].root_amount)
  /\ Placed([sale_type |-> "tba_bundle", nid |-> tba,
             amount |-> tbas[tba].root_amount, manifest |-> Manifest(tba),
             seller |-> seller, pay_token |-> pay_token, price |-> price,
             status |-> "listed", buyer |-> NoName])
  /\ UNCHANGED <<tbas, coins, manifests, paytokens, fee, funds>>

-----------------------------------------------------------------------------
(* Ending an order.                                                        *)

CanUnfreeze(o) == CanFreeze(orders[o].nid, DOMAIN orders[o].manifest, FALSE)

(* The assets of a bundle are unfrozen, under the market's authority.      *)
Released_kept(o) == assets

Released(o) == IF IsBundle(o) THEN Frozen(DOMAIN orders[o].manifest, FALSE) ELSE assets

CanHandOver(o, to) ==
  NT!CanTransfer(Mart, to, [n \in {orders[o].nid} |-> orders[o].amount])

(* The units leave escrow.                                                 *)
HandOver_balance(o, to) ==
  NT!Transfer(Mart, to, [n \in {orders[o].nid} |-> accounts[Mart][n]])

HandOver(o, to) ==
  NT!Transfer(Mart, to, [n \in {orders[o].nid} |-> orders[o].amount])

CanCancel(o) ==
  /\ IsBundle(o) => CanUnfreeze(o)
  /\ CanHandOver(o, orders[o].seller)

(* By the seller.                                                          *)
Cancel(o) ==
  /\ o \in Listed
  /\ CanCancel(o)
  /\ assets' = Released(o)
  /\ HandOver(o, orders[o].seller)
  /\ orders' = [orders EXCEPT ![o].status = "cancelled"]
  /\ UNCHANGED <<tbas, coins, manifests, paytokens, fee, funds>>

Creator(nid) ==
  IF tokenstats[nid].ipowner = NoName THEN tokenstats[nid].issuer
                                      ELSE tokenstats[nid].ipowner

(* distribute_fees: the transfers out of a sale.  The seller's is sent     *)
(* even when it is of nothing; a royalty of the seller's own is merged.    *)
Payouts(o) ==
  LET price == orders[o].price
      share(memo, to, amount) == [memo |-> memo, to |-> to, amount |-> amount]
      fees  == {share("creator", Creator(orders[o].nid), Portion(price, fee.creator_bp)),
                share("platform", fee.platform_account, Portion(price, fee.platform_bp)),
                share("stake", fee.stake_account, Portion(price, fee.stake_bp))}
  IN  {share("seller", orders[o].seller, SellerAmount(price, fee))}
        \cup {f \in fees : f.amount > 0}

(* A payment token accepts a transfer from the market.                     *)
Payable(payout) ==
  payout.amount > 0 /\ payout.to \in (Accounts \cup FeeAccounts) \ {Mart}

CanBuy(o, buyer) ==
  /\ orders[o].pay_token \in paytokens
  /\ ValidFees(fee)
  /\ \A payout \in Payouts(o) : Payable(payout)
  /\ IsBundle(o) => CanUnfreeze(o) /\ orders[o].nid \in DOMAIN tbas
  /\ CanHandOver(o, buyer)

NewTbas_kept(o, buyer) == tbas

NewTbas(o, buyer) ==
  IF IsBundle(o) THEN [tbas EXCEPT ![orders[o].nid].owner = buyer] ELSE tbas

Buy(o, buyer) ==
  /\ o \in Listed
  /\ CanBuy(o, buyer)
  /\ funds' = funds + orders[o].price - Total([p \in Payouts(o) |-> p.amount])
  /\ assets' = Released(o)
  /\ tbas' = NewTbas(o, buyer)
  /\ HandOver(o, buyer)
  /\ orders' = [orders EXCEPT ![o].status = "sold", ![o].buyer = buyer]
  /\ UNCHANGED <<coins, manifests, paytokens, fee>>

-----------------------------------------------------------------------------
(* The market's own settings, and the IP owner set in gnos.ntoken.         *)

Setfee(conf) ==
  /\ ValidFees(conf)
  /\ fee' = conf
  /\ UNCHANGED <<vars, orders, paytokens, funds>>

Setpaytoken(token, enabled) ==
  /\ paytokens' = IF enabled THEN paytokens \cup {token} ELSE paytokens \ {token}
  /\ UNCHANGED <<vars, orders, fee, funds>>

SetIpOwner(nid, name) ==
  /\ NT!Setipowner(nid, name)
  /\ UNCHANGED <<tbavars, martvars>>

-----------------------------------------------------------------------------
OffersNext ==
  \/ \E a \in Users, nid \in Nids, q \in 1 .. Supply, t \in PayTokens, p \in Prices :
       ListNft(a, nid, q, t, p)
  \/ \E a \in Users, tba \in Nids, t \in PayTokens, p \in Prices : Listbundle(a, tba, t, p)
  \/ \E o \in 1 .. MaxOrders : Cancel(o)
  \/ \E conf \in FeeConfs : Setfee(conf)
  \/ \E t \in PayTokens, enabled \in BOOLEAN : Setpaytoken(t, enabled)
  \/ \E nid \in Nids, name \in IpOwners : SetIpOwner(nid, name)

SalesNext == \E o \in 1 .. MaxOrders, a \in Users : Buy(o, a)

OthersNext == Next /\ UNCHANGED martvars

SystemNext == OffersNext \/ SalesNext \/ OthersNext

MartSpec == MartInit /\ [][SystemNext]_allvars

-----------------------------------------------------------------------------
(* Properties.                                                             *)

(* Every listed order is covered: the market holds at least the units of   *)
(* all the orders that are listed, together.                               *)
EscrowCovers ==
  \A nid \in Nids :
    Total([o \in {l \in Listed : orders[l].nid = nid} |-> orders[o].amount])
      <= accounts[Mart][nid]

(* The asset row still is what the item of the manifest says.              *)
Matches(o, id) ==
  /\ id \in DOMAIN assets
  /\ assets[id].tba = orders[o].nid
  /\ assets[id].what = orders[o].manifest[id].what
  /\ assets[id].amount = orders[o].manifest[id].amount

(* While a bundle is listed, everything in its manifest stays in the TBA,  *)
(* unchanged and frozen, and nothing deliverable is missing from it.       *)
BundleIntact ==
  \A o \in Listed : IsBundle(o) =>
    /\ \A id \in DOMAIN orders[o].manifest : Matches(o, id) /\ assets[id].frozen
    /\ Deliverables(orders[o].nid) = DOMAIN orders[o].manifest

(* A seller can always get the NFT back: no state of the other contracts   *)
(* makes cancel fail.                                                      *)
CancelReturns == \A o \in Listed : CanCancel(o)

(* Whoever buys a bundle gets all of it: the root NFT and the TBA, with    *)
(* the assets of the manifest in it, unfrozen.                             *)
BuyerGetsManifest ==
  [][\A o \in Listed :
       orders'[o].status = "sold" /\ IsBundle(o) =>
         /\ tbas'[orders[o].nid].owner = orders'[o].buyer
         /\ accounts'[orders'[o].buyer][orders[o].nid] >= orders[o].amount
         /\ \A id \in DOMAIN orders[o].manifest : Matches(o, id)' /\ ~assets'[id].frozen]_allvars

(* A sale pays out exactly its price: the market neither keeps a part nor  *)
(* pays from what belongs to others.                                       *)
MarketKeepsNothing == [][funds' = funds]_allvars

(* What the market does, seen as consignment: an order is a deal, a TBA is *)
(* a box and the owner recorded in tba.reg its keeper.                     *)
DealOf(order) ==
  [good |-> order.nid, amount |-> order.amount,
   boxed |-> order.sale_type = "tba_bundle", seller |-> order.seller,
   state |-> CASE order.status = "listed" -> "open"
               [] order.status = "cancelled" -> "returned"
               [] order.status = "sold" -> "delivered",
   buyer |-> order.buyer]

Deals == [o \in DOMAIN orders |-> DealOf(orders[o])]

Holdings == [u \in Users |-> accounts[u]]

Boxes ==
  [nid \in Nids |->
     {[id |-> id, what |-> assets[id].what, amount |-> assets[id].amount,
       settlement_mode |-> assets[id].settlement_mode] : id \in AssetsOf(nid)}]

Keepers == [nid \in Nids |-> IF nid \in DOMAIN tbas THEN tbas[nid].owner ELSE NoName]

C == INSTANCE Consignment WITH
       Parties <- Users, NoParty <- NoName, Goods <- Nids,
       deals <- Deals, holdings <- Holdings, boxes <- Boxes, keepers <- Keepers

(* The market implements Consignment: whatever the other contracts do, a   *)
(* listed NFT or bundle goes back whole to its seller or over whole to its *)
(* buyer, once, and what is in a bundle on offer does not change.          *)
ImplementsConsignment == C!Spec

(* Every order whose payment token is enabled can be bought by anyone with *)
(* the price.                                                              *)
ListedIsBuyable ==
  \A o \in Listed : orders[o].pay_token \in paytokens =>
    \A buyer \in Users : CanBuy(o, buyer)

=============================================================================

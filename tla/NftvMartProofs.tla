--------------------------- MODULE NftvMartProofs ---------------------------
(***************************************************************************)
(* What nftv.mart promises, for any number of users, NFTs and orders.      *)
(*                                                                         *)
(* The orders are covered, the market keeps nothing of a price, and what   *)
(* tba.account promises stays true with the market beside it, whatever     *)
(* number of units the NFTs have.  What a bundle promises needs NFTs that  *)
(* are unique: a seller who holds a second unit of the root NFT keeps the  *)
(* control of a TBA that is on offer.                                      *)
(***************************************************************************)
EXTENDS NftvMart, TbaAccountProofs, FeeSplitProofs, SequenceTheorems

(* What the constants of the market are assumed to be.                     *)
LEMMA MartConstants ==
  /\ Prices \subseteq Nat /\ MaxOrders \in Nat /\ IpOwners \subseteq Names
  /\ \A conf \in FeeConfs \cup {NoFees} : IsFeeConf(conf)
  /\ Mart \in Accounts /\ Mart # Custody /\ Mart \notin Users
<1>1. IsFeeConf(NoFees)
  BY DEF IsFeeConf, NoFees
<1>2. QED
  BY <1>1, NftvMartAssumption, Constants

-----------------------------------------------------------------------------
(* The orders.                                                             *)

Slots == 1 .. MaxOrders

Orders == {s \in Seq(Order) : Len(s) <= MaxOrders}

(* What one order holds in escrow of a NFT while it is listed.             *)
Held(list, o, nid) ==
  IF o \in DOMAIN list /\ list[o].status = "listed" /\ list[o].nid = nid
  THEN list[o].amount ELSE 0

(* What all listed orders hold, as EscrowCovers says it, for any orders.   *)
Escrowed(list, nid) ==
  Total([o \in {l \in {k \in DOMAIN list : list[k].status = "listed"} :
                  list[l].nid = nid} |-> list[o].amount])

(* The fields of an order.                                                 *)
LEMMA OrderFields ==
  ASSUME NEW list \in Orders
  PROVE  /\ DOMAIN list \subseteq Slots /\ DOMAIN list = 1 .. Len(list)
         /\ Len(list) \in Nat /\ Len(list) <= MaxOrders
         /\ \A o \in DOMAIN list :
              /\ list[o] \in Order
              /\ list[o].nid \in Nids /\ list[o].amount \in 1 .. Supply
              /\ list[o].amount \in Nat \ {0}
              /\ list[o].seller \in Users /\ list[o].price \in Nat
              /\ list[o].manifest \in Manifests
              /\ list[o].sale_type \in {"nft_only", "tba_bundle"}
              /\ list[o].status \in {"listed", "sold", "cancelled"}
<1>1. list \in Seq(Order) /\ Len(list) <= MaxOrders
  BY DEF Orders
<1>2. list \in [1 .. Len(list) -> Order] /\ Len(list) \in Nat
  <2> HIDE DEF Order
  <2>1. QED
    BY <1>1
<1>3. DOMAIN list \subseteq Slots
  BY <1>1, <1>2, MartConstants DEF Slots
<1>4. ASSUME NEW o \in DOMAIN list
      PROVE  /\ list[o] \in Order
             /\ list[o].nid \in Nids /\ list[o].amount \in 1 .. Supply
             /\ list[o].amount \in Nat \ {0}
             /\ list[o].seller \in Users /\ list[o].price \in Nat
             /\ list[o].manifest \in Manifests
             /\ list[o].sale_type \in {"nft_only", "tba_bundle"}
             /\ list[o].status \in {"listed", "sold", "cancelled"}
  <2>1. list[o] \in Order
    BY <1>2
  <2>2. /\ list[o].nid \in Nids /\ list[o].amount \in 1 .. Supply
        /\ list[o].seller \in Users /\ list[o].price \in Prices
        /\ list[o].manifest \in Manifests
        /\ list[o].sale_type \in {"nft_only", "tba_bundle"}
        /\ list[o].status \in {"listed", "sold", "cancelled"}
    BY <2>1 DEF Order
  <2>3. list[o].amount \in Nat \ {0}
    BY <2>2, Constants
  <2>4. list[o].price \in Nat
    BY <2>2, MartConstants
  <2>5. QED
    BY <2>1, <2>2, <2>3, <2>4
<1>5. QED
  BY <1>1, <1>2, <1>3, <1>4

(* Every slot is a row of a column of which the escrow is the total.       *)
LEMMA EscrowColumn ==
  ASSUME NEW list \in Orders, NEW nid
  PROVE  /\ IsFiniteSet(Slots)
         /\ [o \in Slots |-> Held(list, o, nid)] \in [Slots -> Nat]
         /\ Escrowed(list, nid) = Total([o \in Slots |-> Held(list, o, nid)])
         /\ Escrowed(list, nid) \in Nat
<1> DEFINE T == {l \in {k \in DOMAIN list : list[k].status = "listed"} : list[l].nid = nid}
           f == [o \in T |-> list[o].amount]
           g == [o \in Slots |-> Held(list, o, nid)]
<1>1. IsFiniteSet(Slots)
  BY MartConstants, FS_Interval DEF Slots
<1>2. T \in SUBSET Slots
  BY OrderFields
<1>3. f \in [T -> Nat]
  BY OrderFields
<1>4. g \in [Slots -> Nat]
  <2>1. \A o \in Slots : Held(list, o, nid) \in Nat
    BY OrderFields DEF Held
  <2>2. QED
    BY <2>1
<1>5. \A o \in T : g[o] = f[o]
  BY <1>2 DEF Held
<1>6. \A o \in Slots \ T : g[o] = 0
  BY DEF Held
<1>7. Escrowed(list, nid) = Total(f)
  BY DEF Escrowed
<1> HIDE DEF T, f, g
<1>8. Total(g) = Total(f)
  BY <1>2, <1>3, <1>4, <1>5, <1>6, TotalExtended
<1>9. Total(g) \in Nat
  BY <1>1, <1>4, TotalType
<1>10. QED
  BY <1>1, <1>4, <1>7, <1>8, <1>9 DEF g

(* Two listed orders for one NFT are two rows of the escrow.               *)
LEMMA EscrowBoundsTwo ==
  ASSUME NEW list \in Orders, NEW o \in DOMAIN list, NEW x \in DOMAIN list, o # x,
         list[o].status = "listed", list[x].status = "listed", list[o].nid = list[x].nid
  PROVE  list[o].amount + list[x].amount <= Escrowed(list, list[o].nid)
<1> DEFINE f == [s \in Slots |-> Held(list, s, list[o].nid)]
<1>1. /\ IsFiniteSet(Slots) /\ f \in [Slots -> Nat]
      /\ Escrowed(list, list[o].nid) = Total(f)
  BY EscrowColumn
<1>2. /\ o \in Slots /\ f[o] = list[o].amount
      /\ x \in Slots /\ f[x] = list[x].amount
  BY OrderFields DEF Held
<1> HIDE DEF f
<1>3. f[o] + f[x] <= Total(f)
  BY <1>1, <1>2, TotalBoundsTwoRows
<1>4. QED
  BY <1>1, <1>2, <1>3

(* Changing one order changes the escrow by what it holds.                 *)
LEMMA EscrowChange ==
  ASSUME NEW list \in Orders, NEW changed \in Orders, NEW o \in Slots, NEW nid,
         \A other \in Slots \ {o} : Held(changed, other, nid) = Held(list, other, nid)
  PROVE  Escrowed(changed, nid) + Held(list, o, nid)
           = Escrowed(list, nid) + Held(changed, o, nid)
<1> DEFINE f == [s \in Slots |-> Held(list, s, nid)]
           g == [s \in Slots |-> Held(changed, s, nid)]
<1>1. /\ IsFiniteSet(Slots) /\ f \in [Slots -> Nat] /\ g \in [Slots -> Nat]
      /\ Escrowed(list, nid) = Total(f) /\ Escrowed(changed, nid) = Total(g)
  BY EscrowColumn
<1>2. /\ \A other \in Slots \ {o} : g[other] = f[other]
      /\ f[o] = Held(list, o, nid) /\ g[o] = Held(changed, o, nid)
  OBVIOUS
<1> HIDE DEF f, g
<1>3. Total(g) + f[o] = Total(f) + g[o]
  BY <1>1, <1>2, TotalUpdate
<1>4. QED
  BY <1>1, <1>2, <1>3

(* A listed order is one row of the escrow.                                *)
LEMMA EscrowBounds ==
  ASSUME NEW list \in Orders, NEW o \in DOMAIN list, list[o].status = "listed"
  PROVE  list[o].amount <= Escrowed(list, list[o].nid)
<1> DEFINE f == [s \in Slots |-> Held(list, s, list[o].nid)]
<1>1. /\ IsFiniteSet(Slots) /\ f \in [Slots -> Nat]
      /\ Escrowed(list, list[o].nid) = Total(f)
  BY EscrowColumn
<1>2. o \in Slots /\ f[o] = list[o].amount
  BY OrderFields DEF Held
<1> HIDE DEF f
<1>3. QED
  BY <1>1, <1>2, TotalBoundsRow

(* The orders longer are those of list and then the new one.               *)
LongerBy(list, order, longer) ==
  /\ longer \in Orders /\ Len(longer) = Len(list) + 1 /\ longer[Len(longer)] = order
  /\ \A o \in DOMAIN list : o \in DOMAIN longer /\ longer[o] = list[o]
  /\ Escrowed(longer, order.nid) = Escrowed(list, order.nid) + order.amount
  /\ \A nid : nid # order.nid => Escrowed(longer, nid) = Escrowed(list, nid)

(* A new order holds its units, and no other order is concerned.           *)
LEMMA EscrowPlaced ==
  ASSUME NEW list \in Orders, NEW order \in Order, order.status = "listed",
         Len(list) < MaxOrders, NEW longer, longer = Append(list, order)
  PROVE  LongerBy(list, order, longer)
<1> DEFINE last == Len(list) + 1
<1>1. list \in Seq(Order) /\ Len(list) \in Nat /\ DOMAIN list = 1 .. Len(list)
  BY OrderFields DEF Orders
<1>2. /\ longer \in Seq(Order) /\ Len(longer) = last /\ longer[last] = order
      /\ \A o \in 1 .. Len(list) : longer[o] = list[o]
  <2> HIDE DEF Order
  <2>1. QED
    BY <1>1
<1>3. longer \in Orders /\ DOMAIN longer = 1 .. last /\ last \in Slots
  BY <1>1, <1>2, MartConstants, OrderFields DEF Orders, Slots
<1>4. /\ \A nid : Held(list, last, nid) = 0
      /\ Held(longer, last, order.nid) = order.amount
      /\ \A nid : nid # order.nid => Held(longer, last, nid) = 0
      /\ \A nid : \A o \in Slots \ {last} : Held(longer, o, nid) = Held(list, o, nid)
  <2>1. last \notin DOMAIN list /\ last \in DOMAIN longer
    BY <1>1, <1>3
  <2>2. \A o \in Slots \ {last} : o \in DOMAIN longer <=> o \in DOMAIN list
    BY <1>1, <1>3 DEF Slots
  <2>3. QED
    BY <1>1, <1>2, <2>1, <2>2 DEF Held
<1>5. \A nid : Escrowed(longer, nid) \in Nat /\ Escrowed(list, nid) \in Nat
  BY <1>3, EscrowColumn
<1>6. \A nid : Escrowed(longer, nid) + Held(list, last, nid)
                 = Escrowed(list, nid) + Held(longer, last, nid)
  BY <1>3, <1>4, EscrowChange
<1>7. order.amount \in Nat
  BY Constants DEF Order
<1> HIDE DEF last
<1>8. QED
  <2>1. Escrowed(longer, order.nid) = Escrowed(list, order.nid) + order.amount
    <3>1. Escrowed(longer, order.nid) + 0 = Escrowed(list, order.nid) + order.amount
      BY <1>4, <1>6
    <3>2. QED
      BY <1>5, <3>1
  <2>2. ASSUME NEW nid, nid # order.nid
        PROVE  Escrowed(longer, nid) = Escrowed(list, nid)
    <3>1. Escrowed(longer, nid) + 0 = Escrowed(list, nid) + 0
      BY <1>4, <1>6, <2>2
    <3>2. QED
      BY <1>5, <3>1
  <2>3. QED
    BY <1>1, <1>2, <1>3, <2>1, <2>2 DEF last, LongerBy

(* The orders changed are those of list but for order o.                   *)
ChangedAt(list, o, order, changed) ==
  /\ changed \in Orders /\ Len(changed) = Len(list) /\ DOMAIN changed = DOMAIN list
  /\ changed[o] = order /\ \A other \in DOMAIN list \ {o} : changed[other] = list[other]
  /\ Escrowed(changed, list[o].nid) + list[o].amount = Escrowed(list, list[o].nid)
  /\ \A nid : nid # list[o].nid => Escrowed(changed, nid) = Escrowed(list, nid)

(* An order that ends releases what it held.                               *)
LEMMA EscrowEnded ==
  ASSUME NEW list \in Orders, NEW o \in DOMAIN list, list[o].status = "listed",
         NEW order \in Order, order.status # "listed",
         NEW changed, changed = [list EXCEPT ![o] = order]
  PROVE  ChangedAt(list, o, order, changed)
<1>1. list \in Seq(Order) /\ Len(list) \in Nat /\ DOMAIN list = 1 .. Len(list)
      /\ Len(list) <= MaxOrders /\ o \in Slots /\ list[o].amount \in Nat
  BY OrderFields DEF Orders
<1>2. /\ changed \in Seq(Order) /\ Len(changed) = Len(list) /\ DOMAIN changed = DOMAIN list
      /\ changed[o] = order /\ \A other \in DOMAIN list \ {o} : changed[other] = list[other]
  <2> HIDE DEF Order
  <2>1. QED
    BY <1>1
<1>3. changed \in Orders
  BY <1>1, <1>2 DEF Orders
<1>4. /\ Held(list, o, list[o].nid) = list[o].amount
      /\ \A nid : nid # list[o].nid => Held(list, o, nid) = 0
      /\ \A nid : Held(changed, o, nid) = 0
      /\ \A nid : \A other \in Slots \ {o} : Held(changed, other, nid) = Held(list, other, nid)
  BY <1>2 DEF Held
<1>5. \A nid : Escrowed(changed, nid) \in Nat /\ Escrowed(list, nid) \in Nat
  BY <1>3, EscrowColumn
<1>6. \A nid : Escrowed(changed, nid) + Held(list, o, nid)
                 = Escrowed(list, nid) + Held(changed, o, nid)
  BY <1>1, <1>3, <1>4, EscrowChange
<1>7. Escrowed(changed, list[o].nid) + list[o].amount = Escrowed(list, list[o].nid)
  <2>1. Escrowed(changed, list[o].nid) + list[o].amount = Escrowed(list, list[o].nid) + 0
    BY <1>4, <1>6
  <2>2. QED
    BY <1>5, <2>1
<1>8. ASSUME NEW nid, nid # list[o].nid
      PROVE  Escrowed(changed, nid) = Escrowed(list, nid)
  <2>1. Escrowed(changed, nid) + 0 = Escrowed(list, nid) + 0
    BY <1>4, <1>6, <1>8
  <2>2. Escrowed(changed, nid) \in Nat /\ Escrowed(list, nid) \in Nat
    BY <1>5
  <2>3. QED
    BY <2>1, <2>2
<1>9. QED
  BY <1>2, <1>3, <1>7, <1>8 DEF ChangedAt

-----------------------------------------------------------------------------
(* The invariant.                                                          *)

MartSettings ==
  /\ paytokens \subseteq PayTokens
  /\ fee \in FeeConfs \cup {NoFees}
  /\ funds = 0

MartInv ==
  /\ TbaInv
  /\ orders \in Orders
  /\ MartSettings
  /\ EscrowCovers

(* The invariant is of the model's types.                                  *)
LEMMA MartInvTypes == MartInv => MartTypeOK
BY TbaInvTypes DEF MartInv, MartSettings, Orders, MartTypeOK

(* Every listed order is covered, in the terms of the lemmas.              *)
LEMMA EscrowHolds ==
  ASSUME MartInv
  PROVE  /\ \A nid \in Nids : Escrowed(orders, nid) <= accounts[Mart][nid]
         /\ \A nid \in Nids : Escrowed(orders, nid) \in Nat /\ accounts[Mart][nid] \in Nat
<1>1. \A nid \in Nids : Escrowed(orders, nid) <= accounts[Mart][nid]
  BY DEF MartInv, EscrowCovers, Escrowed, Listed
<1>2. \A nid \in Nids : accounts[Mart][nid] \in Nat
  BY LedgerFacts, MartConstants DEF MartInv
<1>3. \A nid \in Nids : Escrowed(orders, nid) \in Nat
  BY EscrowColumn DEF MartInv
<1>4. QED
  BY <1>1, <1>2, <1>3

(* What every step has to show of the escrow, from the moves it makes.     *)
LEMMA EscrowFollows ==
  ASSUME \A nid \in Nids : Escrowed(orders', nid) <= accounts'[Mart][nid]
  PROVE  EscrowCovers'
BY DEF EscrowCovers, Escrowed, Listed

(* A listed order has its fields and its units.                            *)
LEMMA ListedOrder ==
  ASSUME MartInv, NEW o \in Listed
  PROVE  /\ o \in DOMAIN orders /\ orders[o].status = "listed" /\ orders[o] \in Order
         /\ orders[o].nid \in Nids /\ orders[o].amount \in 1 .. Supply
         /\ orders[o].amount \in Nat \ {0}
         /\ orders[o].seller \in Users /\ orders[o].price \in Nat
         /\ orders[o].manifest \in Manifests
         /\ orders[o].sale_type \in {"nft_only", "tba_bundle"}
         /\ orders[o].amount <= accounts[Mart][orders[o].nid]
<1>1. orders \in Orders /\ o \in DOMAIN orders /\ orders[o].status = "listed"
  BY DEF Listed, MartInv
<1>2. /\ orders[o] \in Order
      /\ orders[o].nid \in Nids /\ orders[o].amount \in 1 .. Supply
      /\ orders[o].amount \in Nat \ {0}
      /\ orders[o].seller \in Users /\ orders[o].price \in Nat
      /\ orders[o].manifest \in Manifests
      /\ orders[o].sale_type \in {"nft_only", "tba_bundle"}
  BY <1>1, OrderFields
<1>3. orders[o].amount <= Escrowed(orders, orders[o].nid)
  BY <1>1, EscrowBounds
<1>4. orders[o].amount <= accounts[Mart][orders[o].nid]
  <2>1. /\ Escrowed(orders, orders[o].nid) <= accounts[Mart][orders[o].nid]
        /\ Escrowed(orders, orders[o].nid) \in Nat /\ accounts[Mart][orders[o].nid] \in Nat
    BY <1>2, EscrowHolds
  <2>2. QED
    BY <1>2, <1>3, <2>1
<1>5. QED
  BY <1>1, <1>2, <1>4

-----------------------------------------------------------------------------
(* Units in and out of escrow.                                             *)

(* q units of one NFT change hands.                                        *)
OneMoved(from, to, nid, q) ==
  /\ Ledger!LedgerInv' /\ DeploymentLasts' /\ from # to /\ nid \in Nids
  /\ UNCHANGED <<tokenstats, whitelist>>
  /\ accounts[from][nid] >= q
  /\ accounts'[from][nid] = accounts[from][nid] - q
  /\ accounts'[to][nid] = accounts[to][nid] + q
  /\ \A n \in Nids \ {nid} : /\ accounts'[from][n] = accounts[from][n]
                             /\ accounts'[to][n] = accounts[to][n]
  /\ \A a \in Accounts \ {from, to}, n \in Nids : accounts'[a][n] = accounts[a][n]

(* One transfer moves one vector from one account to another.              *)
LEMMA OneTransfer ==
  ASSUME TbaInv, NEW from \in Accounts, NEW to \in Accounts, NEW nid \in Nids,
         NEW q \in 1 .. Supply, NT!Transfer(from, to, [n \in {nid} |-> q])
  PROVE  OneMoved(from, to, nid, q)
<1> DEFINE units == [n \in {nid} |-> q]
<1>1. accounts[from][nid] >= q
  BY DEF NT!Transfer, NT!CanTransfer, NT!CanSub
<1>2. NT!Transfer(from, to, units)
  OBVIOUS
<1>3. /\ units \in Ledger!AssetVectors
      /\ NT!Quantity(units, nid) = q
      /\ \A n \in Nids \ {nid} : NT!Quantity(units, n) = 0
  BY UnitsOfOne
<1> HIDE DEF units
<1>4. /\ Ledger!LedgerInv' /\ DeploymentLasts' /\ UNCHANGED <<tokenstats, whitelist>>
      /\ MovedUnits(from, to, units)
  BY <1>2, <1>3, Transfers
<1>5. \A n \in Nids : accounts[from][n] \in Nat /\ accounts[to][n] \in Nat
  BY LedgerFacts
<1>6. QED
  BY <1>1, <1>3, <1>4, <1>5 DEF OneMoved, MovedUnits

(* What the market does to the rows, TBAs and balances is a step under     *)
(* which everything that tba.account promises stays true.                  *)
LEMMA MartOnTba ==
  ASSUME MartInv, NEW from \in Accounts \ {Custody}, NEW to \in Accounts \ {Custody},
         NEW nid \in Nids, NEW q, OneMoved(from, to, nid, q),
         NEW ids, NEW state \in BOOLEAN, assets' = Frozen(ids, state) \/ assets' = assets,
         TbasAreTyped', UNCHANGED <<coins, manifests>>
  PROVE  TbaInv' /\ LeavesToHolder /\ RowsKept
<1>1. TbaInv /\ manifests' \in 0 .. MaxManifests
  BY DEF MartInv, TbaInv
<1>2. assets' \in Rows /\ RowsKept
  <2>1. "deliverable" \in Modes
    BY DEF Modes
  <2>2. QED
    BY <1>1, <2>1, RowsRetagged
<1>3. \A n \in Nids : accounts'[Custody][n] = accounts[Custody][n]
  BY Constants DEF OneMoved
<1>4. QED
  BY <1>1, <1>2, <1>3, KeepingStep DEF OneMoved, CoinsGrow

(* A new order and the units that arrive for it.                           *)
LEMMA PlacedStep ==
  ASSUME MartInv, NEW order \in Order, order.status = "listed", Placed(order),
         OneMoved(order.seller, Mart, order.nid, order.amount)
  PROVE  orders' \in Orders /\ EscrowCovers' /\ LongerBy(orders, order, orders')
<1> DEFINE longer == orders'
<1>0. /\ orders \in Orders /\ longer = Append(orders, order) /\ Len(orders) < MaxOrders
  BY DEF Placed, MartInv
<1> HIDE DEF longer
<1>1. LongerBy(orders, order, longer)
  BY <1>0, EscrowPlaced
<1> USE DEF LongerBy, longer
<1>2. order.amount \in Nat
  BY Constants DEF Order
<1>3. \A nid \in Nids : Escrowed(orders', nid) <= accounts'[Mart][nid]
  <2> TAKE nid \in Nids
  <2>1. /\ Escrowed(orders, nid) <= accounts[Mart][nid]
        /\ Escrowed(orders, nid) \in Nat /\ accounts[Mart][nid] \in Nat
    BY EscrowHolds
  <2>2. CASE nid = order.nid
    BY <1>1, <1>2, <2>1, <2>2 DEF OneMoved
  <2>3. CASE nid # order.nid
    BY <1>1, <2>1, <2>3 DEF OneMoved
  <2>4. QED
    BY <2>2, <2>3
<1>4. QED
  BY <1>1, <1>3, EscrowFollows

(* An order that ends and the units that leave with it.                    *)
LEMMA EndedStep ==
  ASSUME MartInv, NEW o \in Listed, NEW order \in Order, order.status # "listed",
         orders' = [orders EXCEPT ![o] = order],
         NEW to, OneMoved(Mart, to, orders[o].nid, orders[o].amount)
  PROVE  orders' \in Orders /\ EscrowCovers' /\ ChangedAt(orders, o, order, orders')
<1>1. /\ o \in DOMAIN orders /\ orders[o].status = "listed"
      /\ orders[o].amount \in Nat \ {0} /\ orders[o].nid \in Nids
  BY ListedOrder
<1> DEFINE changed == orders'
<1>2. ChangedAt(orders, o, order, changed)
  <2>1. orders \in Orders /\ changed = [orders EXCEPT ![o] = order]
    BY DEF MartInv
  <2> HIDE DEF changed
  <2>2. QED
    BY <1>1, <2>1, EscrowEnded
<1> USE DEF ChangedAt
<1>3. \A nid \in Nids : Escrowed(orders', nid) <= accounts'[Mart][nid]
  <2> TAKE nid \in Nids
  <2>1. /\ Escrowed(orders, nid) <= accounts[Mart][nid]
        /\ Escrowed(orders, nid) \in Nat /\ accounts[Mart][nid] \in Nat
        /\ Escrowed(orders', nid) \in Nat
    BY <1>2, EscrowHolds, EscrowColumn
  <2>2. CASE nid = orders[o].nid
    BY <1>1, <1>2, <2>1, <2>2 DEF OneMoved
  <2>3. CASE nid # orders[o].nid
    BY <1>2, <2>1, <2>3 DEF OneMoved
  <2>4. QED
    BY <2>2, <2>3
<1>4. QED
  BY <1>2, <1>3, EscrowFollows

-----------------------------------------------------------------------------
(* The steps of the market.                                                *)

(* What every step of the system does.                                     *)
StaysRight == MartInv' /\ LeavesToHolder /\ funds' = funds

(* A step that places an order.                                            *)
Offered(order) ==
  /\ order \in Order /\ order.status = "listed" /\ order.buyer = NoName
  /\ LongerBy(orders, order, orders')
  /\ OneMoved(order.seller, Mart, order.nid, order.amount)
  /\ UNCHANGED <<tbas, coins>> /\ RowsKept /\ StaysRight

(* A step that ends order o, which becomes order, and hands its units over.*)
Concluded(o, order, to) ==
  /\ order \in Order
  /\ ChangedAt(orders, o, order, orders')
  /\ OneMoved(Mart, to, orders[o].nid, orders[o].amount)
  /\ UNCHANGED coins /\ RowsKept /\ StaysRight

NftOrder(seller, nid, amount, pay_token, price) ==
  [sale_type |-> "nft_only", nid |-> nid, amount |-> amount,
   manifest |-> << >>, seller |-> seller, pay_token |-> pay_token,
   price |-> price, status |-> "listed", buyer |-> NoName]

BundleOrder(seller, tba, pay_token, price) ==
  [sale_type |-> "tba_bundle", nid |-> tba,
   amount |-> tbas[tba].root_amount, manifest |-> Manifest(tba),
   seller |-> seller, pay_token |-> pay_token, price |-> price,
   status |-> "listed", buyer |-> NoName]

(* People and the market are not tba.account.                              *)
LEMMA Outside ==
  /\ \A a \in Users : a \in Accounts \ {Custody} /\ a # Mart
  /\ Mart \in Accounts \ {Custody}
BY Constants

(* A single NFT is listed.                                                 *)
LEMMA ListNftStep ==
  ASSUME MartInv, NEW a \in Users, NEW nid \in Nids, NEW q \in 1 .. Supply,
         NEW t \in PayTokens, NEW p \in Prices, ListNft(a, nid, q, t, p)
  PROVE  Offered(NftOrder(a, nid, q, t, p))
<1> DEFINE order == NftOrder(a, nid, q, t, p)
<1>1. << >> \in Manifests
  <2>1. {} \in SUBSET (1 .. MaxAssetId) /\ << >> \in [{} -> Item]
    OBVIOUS
  <2>2. QED
    BY <2>1 DEF Manifests
<1>2. /\ order \in Order /\ order.status = "listed" /\ order.buyer = NoName
      /\ order.seller = a /\ order.nid = nid /\ order.amount = q
  BY <1>1 DEF NftOrder, Order
<1>3. NT!Transfer(a, Mart, [n \in {nid} |-> q]) /\ Placed(order)
  BY DEF ListNft, Escrow, NftOrder
<1>4. UNCHANGED <<tbas, assets, coins, manifests, paytokens, fee, funds>>
  BY DEF ListNft, tbavars
<1> HIDE DEF order
<1>5. OneMoved(a, Mart, nid, q)
  BY <1>3, Outside, OneTransfer DEF MartInv
<1>6. TbasAreTyped'
  BY <1>4 DEF MartInv, TbaInv, TbasAreTyped
<1>7. TbaInv' /\ LeavesToHolder /\ RowsKept
  <2>1. assets' = Frozen({}, TRUE) \/ assets' = assets
    BY <1>4
  <2>2. TRUE \in BOOLEAN
    OBVIOUS
  <2>3. UNCHANGED <<coins, manifests>>
    BY <1>4
  <2>4. QED
    BY <1>5, <1>6, <2>1, <2>2, <2>3, Outside, MartOnTba
<1>8. orders' \in Orders /\ EscrowCovers' /\ LongerBy(orders, order, orders')
  BY <1>2, <1>3, <1>5, PlacedStep
<1>9. MartSettings'
  BY <1>4 DEF MartInv, MartSettings
<1>10. StaysRight
  BY <1>4, <1>7, <1>8, <1>9 DEF StaysRight, MartInv
<1>11. Offered(order)
  BY <1>2, <1>4, <1>5, <1>7, <1>8, <1>10 DEF Offered
<1>12. QED
  BY <1>11 DEF order

(* What is deliverable in a TBA makes a manifest.                          *)
LEMMA ManifestIsTyped ==
  ASSUME TbaInv, NEW tba
  PROVE  /\ Manifest(tba) \in Manifests /\ DOMAIN Manifest(tba) = Deliverables(tba)
         /\ Deliverables(tba) \subseteq DOMAIN assets
         /\ \A id \in Deliverables(tba) : /\ assets[id].tba = tba
                                          /\ Manifest(tba)[id].what = assets[id].what
                                          /\ Manifest(tba)[id].amount = assets[id].amount
<1>1. /\ Deliverables(tba) \subseteq DOMAIN assets
      /\ \A id \in Deliverables(tba) : assets[id].tba = tba
  BY DEF Deliverables, AssetsOf
<1>2. assets \in Rows
  BY DEF TbaInv
<1>3. \A id \in Deliverables(tba) :
        /\ id \in 1 .. MaxAssetId
        /\ [what |-> assets[id].what, amount |-> assets[id].amount] \in Item
  <2> TAKE id \in Deliverables(tba)
  <2>1. /\ id \in Ids /\ assets[id].what \in Nids \cup {Coin}
        /\ assets[id].amount \in 1 .. Supply + MaxCoins
    BY <1>1, <1>2, RowFields
  <2>2. QED
    BY <2>1 DEF Item, Ids
<1>4. Manifest(tba) \in [Deliverables(tba) -> Item]
  BY <1>3 DEF Manifest
<1>5. Deliverables(tba) \in SUBSET (1 .. MaxAssetId)
  BY <1>3
<1>6. Manifest(tba) \in Manifests
  BY <1>4, <1>5 DEF Manifests
<1>7. QED
  BY <1>1, <1>6 DEF Manifest

(* A bundle is listed, and its assets are frozen with it.                  *)
LEMMA ListbundleStep ==
  ASSUME MartInv, NEW a \in Users, NEW tba \in Nids,
         NEW t \in PayTokens, NEW p \in Prices, Listbundle(a, tba, t, p)
  PROVE  Offered(BundleOrder(a, tba, t, p))
<1> DEFINE order == BundleOrder(a, tba, t, p)
           q     == tbas[tba].root_amount
<1>1. q \in 1 .. Supply
  BY DEF Listbundle, MartInv, TbaInv, TbasAreTyped, Tba
<1>2. Manifest(tba) \in Manifests
  BY ManifestIsTyped DEF MartInv
<1>3. /\ order \in Order /\ order.status = "listed" /\ order.buyer = NoName
      /\ order.seller = a /\ order.nid = tba /\ order.amount = q
  BY <1>1, <1>2 DEF BundleOrder, Order
<1>4. NT!Transfer(a, Mart, [n \in {tba} |-> q]) /\ Placed(order)
  BY DEF Listbundle, Escrow, BundleOrder
<1>5. /\ assets' = Frozen(Deliverables(tba), TRUE)
      /\ UNCHANGED <<tbas, coins, manifests, paytokens, fee, funds>>
  BY DEF Listbundle
<1> HIDE DEF order, q
<1>6. OneMoved(a, Mart, tba, q)
  BY <1>1, <1>4, Outside, OneTransfer DEF MartInv
<1>7. TbasAreTyped'
  BY <1>5 DEF MartInv, TbaInv, TbasAreTyped
<1>8. TbaInv' /\ LeavesToHolder /\ RowsKept
  <2>1. TRUE \in BOOLEAN /\ UNCHANGED <<coins, manifests>>
    BY <1>5
  <2>2. QED
    BY <1>5, <1>6, <1>7, <2>1, Outside, MartOnTba
<1>9. orders' \in Orders /\ EscrowCovers' /\ LongerBy(orders, order, orders')
  BY <1>3, <1>4, <1>6, PlacedStep
<1>10. MartSettings'
  BY <1>5 DEF MartInv, MartSettings
<1>11. StaysRight
  BY <1>5, <1>8, <1>9, <1>10 DEF StaysRight, MartInv
<1>12. Offered(order)
  BY <1>3, <1>5, <1>6, <1>8, <1>9, <1>11 DEF Offered
<1>13. QED
  BY <1>12 DEF order

(* What becomes of an order that ends.                                     *)
Cancelled(o) == [orders[o] EXCEPT !.status = "cancelled"]

Sold(o, buyer) == [orders[o] EXCEPT !.status = "sold", !.buyer = buyer]

(* An order ends with its terms.                                           *)
LEMMA EndedOrders ==
  ASSUME MartInv, NEW o \in Listed, NEW buyer \in Users
  PROVE  /\ Cancelled(o) \in Order /\ Cancelled(o).status = "cancelled"
         /\ Cancelled(o).buyer = orders[o].buyer
         /\ Sold(o, buyer) \in Order /\ Sold(o, buyer).status = "sold"
         /\ Sold(o, buyer).buyer = buyer
         /\ \A order \in {Cancelled(o), Sold(o, buyer)} :
              /\ order.status # "listed"
              /\ order.nid = orders[o].nid /\ order.amount = orders[o].amount
              /\ order.sale_type = orders[o].sale_type /\ order.seller = orders[o].seller
              /\ order.manifest = orders[o].manifest
<1>1. orders[o] \in Order /\ o \in DOMAIN orders
  BY ListedOrder
<1> DEFINE C1 == [orders[o] EXCEPT !.status = "cancelled"]
           S1 == [orders[o] EXCEPT !.status = "sold", !.buyer = buyer]
<1>2. /\ C1 \in Order /\ C1.status = "cancelled" /\ C1.buyer = orders[o].buyer
      /\ C1.nid = orders[o].nid /\ C1.amount = orders[o].amount
      /\ C1.sale_type = orders[o].sale_type /\ C1.seller = orders[o].seller
      /\ C1.manifest = orders[o].manifest
  BY <1>1 DEF Order
<1>3. /\ S1 \in Order /\ S1.status = "sold" /\ S1.buyer = buyer
      /\ S1.nid = orders[o].nid /\ S1.amount = orders[o].amount
      /\ S1.sale_type = orders[o].sale_type /\ S1.seller = orders[o].seller
      /\ S1.manifest = orders[o].manifest
  BY <1>1 DEF Order
<1>4. Cancelled(o) = C1 /\ Sold(o, buyer) = S1
  BY DEF Cancelled, Sold
<1> HIDE DEF C1, S1
<1>5. QED
  BY <1>2, <1>3, <1>4

(* The assets of a bundle are unfrozen, if it is one.                      *)
LEMMA ReleasedRows ==
  ASSUME NEW o, assets' = Released(o)
  PROVE  \E ids : assets' = Frozen(ids, FALSE) \/ assets' = assets
BY DEF Released

(* The seller takes an order back.                                         *)
LEMMA CancelStep ==
  ASSUME MartInv, NEW o, Cancel(o)
  PROVE  o \in Listed /\ Concluded(o, Cancelled(o), orders[o].seller)
<1> DEFINE order  == Cancelled(o)
           seller == orders[o].seller
<1>1. o \in Listed
  BY DEF Cancel
<1>2. /\ orders[o].nid \in Nids /\ orders[o].amount \in 1 .. Supply
      /\ orders[o].amount \in Nat \ {0} /\ seller \in Users /\ orders[o] \in Order
  BY <1>1, ListedOrder
<1>3. order \in Order /\ order.status # "listed"
  BY <1>1, <1>2, EndedOrders
<1>4. orders' = [orders EXCEPT ![o] = order]
  BY DEF Cancel, Cancelled
<1>5. /\ NT!Transfer(Mart, seller, [n \in {orders[o].nid} |-> orders[o].amount])
      /\ assets' = Released(o)
      /\ UNCHANGED <<tbas, coins, manifests, paytokens, fee, funds>>
  BY DEF Cancel, HandOver
<1> HIDE DEF order, seller
<1>6. OneMoved(Mart, seller, orders[o].nid, orders[o].amount)
  BY <1>2, <1>5, Outside, OneTransfer DEF MartInv
<1>7. TbasAreTyped'
  BY <1>5 DEF MartInv, TbaInv, TbasAreTyped
<1>8. TbaInv' /\ LeavesToHolder /\ RowsKept
  <2>1. PICK ids : assets' = Frozen(ids, FALSE) \/ assets' = assets
    BY <1>5, ReleasedRows
  <2>2. FALSE \in BOOLEAN /\ UNCHANGED <<coins, manifests>>
    BY <1>5
  <2>3. QED
    BY <1>2, <1>6, <1>7, <2>1, <2>2, Outside, MartOnTba
<1>9. orders' \in Orders /\ EscrowCovers' /\ ChangedAt(orders, o, order, orders')
  BY <1>1, <1>3, <1>4, <1>6, EndedStep
<1>10. MartSettings'
  BY <1>5 DEF MartInv, MartSettings
<1>11. StaysRight
  BY <1>5, <1>8, <1>9, <1>10 DEF StaysRight, MartInv
<1>12. Concluded(o, order, seller)
  BY <1>3, <1>5, <1>6, <1>8, <1>9, <1>11 DEF Concluded
<1>13. QED
  BY <1>1, <1>12 DEF order, seller

AllDiffer(w, x, y, z) == w # x /\ w # y /\ w # z /\ x # y /\ x # z /\ y # z

AddsUp(f, w, x, y, z) == Total(f) = f[w] + f[x] + f[y] + f[z]

(* The shares of a price, those of nothing included, add up to it.         *)
LEMMA FourShares ==
  ASSUME NEW w, NEW x, NEW y, NEW z,
         AllDiffer(w, x, y, z), NEW S, S = {w, x, y, z}, NEW f \in [S -> Nat]
  PROVE  AddsUp(f, w, x, y, z)
<1> USE DEF AllDiffer
<1> DEFINE f0 == [s \in S |-> 0]
           f1 == [f0 EXCEPT ![w] = f[w]]
           f2 == [f1 EXCEPT ![x] = f[x]]
           f3 == [f2 EXCEPT ![y] = f[y]]
<1>1. IsFiniteSet(S)
  <2>1. IsFiniteSet({w}) /\ IsFiniteSet({x}) /\ IsFiniteSet({y}) /\ IsFiniteSet({z})
    BY FS_Singleton
  <2>2. IsFiniteSet({w} \cup {x})
    BY <2>1, FS_AddElement
  <2>3. IsFiniteSet({w} \cup {x} \cup {y})
    BY <2>2, FS_AddElement
  <2>4. IsFiniteSet({w} \cup {x} \cup {y} \cup {z})
    BY <2>3, FS_AddElement
  <2>5. S = {w} \cup {x} \cup {y} \cup {z}
    OBVIOUS
  <2>6. QED
    BY <2>4, <2>5
<1>2. /\ w \in S /\ x \in S /\ y \in S /\ z \in S
      /\ f \in [S -> Nat] /\ f0 \in [S -> Nat] /\ f1 \in [S -> Nat]
      /\ f2 \in [S -> Nat] /\ f3 \in [S -> Nat]
  OBVIOUS
<1>3. /\ \A s \in S : f0[s] = 0
      /\ f1[w] = f[w] /\ \A s \in S \ {w} : f1[s] = f0[s]
      /\ f2[x] = f[x] /\ \A s \in S \ {x} : f2[s] = f1[s]
      /\ f3[y] = f[y] /\ \A s \in S \ {y} : f3[s] = f2[s]
      /\ \A s \in S \ {z} : f[s] = f3[s]
      /\ f0[w] = 0 /\ f1[x] = 0 /\ f2[y] = 0 /\ f3[z] = 0
  OBVIOUS
<1>4. f[w] \in Nat /\ f[x] \in Nat /\ f[y] \in Nat /\ f[z] \in Nat
  OBVIOUS
<1> HIDE DEF f0, f1, f2, f3
<1>5. Total(f0) = 0
  BY <1>2, <1>3, TotalZero
<1>6. Total(f1) + f0[w] = Total(f0) + f1[w]
  BY <1>1, <1>2, <1>3, TotalUpdate
<1>7. Total(f2) + f1[x] = Total(f1) + f2[x]
  BY <1>1, <1>2, <1>3, TotalUpdate
<1>8. Total(f3) + f2[y] = Total(f2) + f3[y]
  BY <1>1, <1>2, <1>3, TotalUpdate
<1>9. Total(f) + f3[z] = Total(f3) + f[z]
  BY <1>1, <1>2, <1>3, TotalUpdate
<1>10. Total(f1) \in Nat /\ Total(f2) \in Nat /\ Total(f3) \in Nat /\ Total(f) \in Nat
  BY <1>1, <1>2, TotalType
<1>11. QED
  BY <1>3, <1>4, <1>5, <1>6, <1>7, <1>8, <1>9, <1>10 DEF AddsUp

Share(memo, to, amount) == [memo |-> memo, to |-> to, amount |-> amount]

(* Everything that a sale pays out is the price.                           *)
LEMMA PayoutsAddUp ==
  ASSUME MartInv, NEW o \in Listed, ValidFees(fee)
  PROVE  Total([p \in Payouts(o) |-> p.amount]) = orders[o].price
<1> DEFINE price == orders[o].price
           P == Portion(price, fee.platform_bp)
           K == Portion(price, fee.creator_bp)
           S == Portion(price, fee.stake_bp)
           V == SellerAmount(price, fee)
           v == Share("seller", orders[o].seller, V)
           k == Share("creator", Creator(orders[o].nid), K)
           p == Share("platform", fee.platform_account, P)
           s == Share("stake", fee.stake_account, S)
           all == {v, k, p, s}
           f   == [x \in all |-> x.amount]
           g   == [x \in Payouts(o) |-> x.amount]
<1>1. price \in Nat
  BY ListedOrder
<1>2. IsFeeConf(fee)
  BY MartConstants DEF MartInv, MartSettings
<1>3. V \in Nat /\ V = price - P - K - S
  <2>1. V \in 0 .. price
    BY <1>1, <1>2, SettlementIsValid
  <2>2. QED
    BY <1>1, <2>1 DEF SellerAmount
<1>4. P \in Nat /\ K \in Nat /\ S \in Nat
  <2>1. /\ fee.platform_bp \in Nat /\ fee.creator_bp \in Nat /\ fee.stake_bp \in Nat
    BY <1>2 DEF IsFeeConf
  <2>2. /\ fee.platform_bp \in 0 .. BasisPoints /\ fee.creator_bp \in 0 .. BasisPoints
        /\ fee.stake_bp \in 0 .. BasisPoints
    BY <2>1, BasisPointsAssumption DEF ValidFees
  <2>3. QED
    BY <1>1, <2>2, PortionBound
<1>5. Payouts(o) = {v} \cup {x \in {k, p, s} : x.amount > 0}
  BY DEF Payouts, Share
<1> HIDE DEF price, P, K, S, V
<1>6. /\ v # k /\ v # p /\ v # s /\ k # p /\ k # s /\ p # s
      /\ v.amount = V /\ k.amount = K /\ p.amount = P /\ s.amount = S
  <2>1. /\ v.memo = "seller" /\ k.memo = "creator" /\ p.memo = "platform" /\ s.memo = "stake"
    BY DEF Share
  <2>2. v # k /\ v # p /\ v # s /\ k # p /\ k # s /\ p # s
    <3> HIDE DEF v, k, p, s
    <3>1. QED
      BY <2>1
  <2>3. QED
    BY <2>2 DEF Share
<1> HIDE DEF v, k, p, s
<1>7. f \in [all -> Nat]
  BY <1>3, <1>4, <1>6
<1>8. f[v] = V /\ f[k] = K /\ f[p] = P /\ f[s] = S
  BY <1>6
<1>9. Total(f) = f[v] + f[k] + f[p] + f[s]
  <2>1. all = {v, k, p, s}
    OBVIOUS
  <2> HIDE DEF all, f, g
  <2>2. AllDiffer(v, k, p, s)
    BY <1>6 DEF AllDiffer
  <2>3. AddsUp(f, v, k, p, s)
    BY <1>7, <2>1, <2>2, FourShares
  <2>4. QED
    BY <2>3 DEF AddsUp
<1>10. Payouts(o) \in SUBSET all
  BY <1>5
<1>11. g \in [Payouts(o) -> Nat]
  BY <1>3, <1>4, <1>5, <1>6
<1>12. \A x \in Payouts(o) : f[x] = g[x]
  BY <1>10
<1>13. \A x \in all \ Payouts(o) : f[x] = 0
  BY <1>3, <1>4, <1>5, <1>6
<1> HIDE DEF f, g, all
<1>14. Total(f) = Total(g)
  BY <1>7, <1>10, <1>11, <1>12, <1>13, TotalExtended
<1>15. Total(g) = price
  BY <1>1, <1>3, <1>4, <1>8, <1>9, <1>14
<1>16. QED
  BY <1>15 DEF g, price

(* The new owner of a TBA is a person.                                     *)
LEMMA NewOwner ==
  ASSUME MartInv, NEW o \in Listed, NEW buyer \in Users, IsBundle(o) => orders[o].nid \in DOMAIN tbas
  PROVE  /\ DOMAIN NewTbas(o, buyer) = DOMAIN tbas
         /\ NewTbas(o, buyer) \in [DOMAIN tbas -> Tba]
         /\ \A nid \in DOMAIN tbas :
              /\ NewTbas(o, buyer)[nid].root_amount = tbas[nid].root_amount
              /\ NewTbas(o, buyer)[nid].status = tbas[nid].status
              /\ IF IsBundle(o) /\ nid = orders[o].nid
                 THEN NewTbas(o, buyer)[nid].owner = buyer
                 ELSE NewTbas(o, buyer)[nid] = tbas[nid]
<1>1. tbas \in [DOMAIN tbas -> Tba]
  BY DEF MartInv, TbaInv, TbasAreTyped
<1>2. CASE ~IsBundle(o)
  BY <1>1, <1>2 DEF NewTbas
<1>3. CASE IsBundle(o)
  <2> DEFINE nid == orders[o].nid
             row == [tbas[nid] EXCEPT !.owner = buyer]
  <2>1. nid \in DOMAIN tbas
    BY <1>3
  <2>2. /\ row \in Tba /\ row.owner = buyer
        /\ row.root_amount = tbas[nid].root_amount /\ row.status = tbas[nid].status
    BY <1>1, <2>1 DEF Tba
  <2>3. NewTbas(o, buyer) = [tbas EXCEPT ![nid] = row]
    BY <1>3 DEF NewTbas
  <2> HIDE DEF row, nid
  <2>4. QED
    BY <1>1, <1>3, <2>1, <2>2, <2>3 DEF nid
<1>4. QED
  BY <1>2, <1>3

(* An order is bought: its price is paid out in full.                      *)
LEMMA BuyStep ==
  ASSUME MartInv, NEW o, NEW buyer \in Users, Buy(o, buyer)
  PROVE  o \in Listed /\ Concluded(o, Sold(o, buyer), buyer)
<1> DEFINE order == Sold(o, buyer)
<1>1. o \in Listed
  BY DEF Buy
<1>2. /\ orders[o].nid \in Nids /\ orders[o].amount \in 1 .. Supply
      /\ orders[o].amount \in Nat \ {0} /\ orders[o] \in Order /\ orders[o].price \in Nat
  BY <1>1, ListedOrder
<1>3. order \in Order /\ order.status # "listed"
  BY <1>1, <1>2, EndedOrders
<1>4. orders' = [orders EXCEPT ![o] = order]
  <2>1. orders' = [orders EXCEPT ![o].status = "sold", ![o].buyer = buyer]
    BY DEF Buy
  <2>2. orders \in Orders /\ o \in DOMAIN orders
    BY <1>1, ListedOrder DEF MartInv
  <2>3. QED
    BY <2>1, <2>2 DEF Sold
<1>5. /\ NT!Transfer(Mart, buyer, [n \in {orders[o].nid} |-> orders[o].amount])
      /\ assets' = Released(o)
      /\ UNCHANGED <<coins, manifests, paytokens, fee>>
  BY DEF Buy, HandOver
<1> HIDE DEF order
<1>6. OneMoved(Mart, buyer, orders[o].nid, orders[o].amount)
  BY <1>2, <1>5, Outside, OneTransfer DEF MartInv
<1>7. TbasAreTyped'
  <2>1. tbas' = NewTbas(o, buyer) /\ (IsBundle(o) => orders[o].nid \in DOMAIN tbas)
    BY DEF Buy, CanBuy
  <2>2. DOMAIN tbas' = DOMAIN tbas /\ tbas' \in [DOMAIN tbas -> Tba]
    BY <1>1, <2>1, NewOwner
  <2>3. QED
    BY <2>2 DEF TbasAreTyped, MartInv, TbaInv
<1>8. TbaInv' /\ LeavesToHolder /\ RowsKept
  <2>1. PICK ids : assets' = Frozen(ids, FALSE) \/ assets' = assets
    BY <1>5, ReleasedRows
  <2>2. FALSE \in BOOLEAN /\ UNCHANGED <<coins, manifests>>
    BY <1>5
  <2>3. QED
    BY <1>2, <1>6, <1>7, <2>1, <2>2, Outside, MartOnTba
<1>9. orders' \in Orders /\ EscrowCovers' /\ ChangedAt(orders, o, order, orders')
  BY <1>1, <1>3, <1>4, <1>6, EndedStep
<1>10. funds' = funds /\ funds = 0
  <2>1. Total([p \in Payouts(o) |-> p.amount]) = orders[o].price
    BY <1>1, PayoutsAddUp DEF Buy, CanBuy
  <2>2. funds' = funds + orders[o].price - Total([p \in Payouts(o) |-> p.amount])
    BY DEF Buy
  <2>3. funds = 0
    BY DEF MartInv, MartSettings
  <2>4. QED
    BY <1>2, <2>1, <2>2, <2>3
<1>11. MartSettings'
  BY <1>5, <1>10 DEF MartInv, MartSettings
<1>12. StaysRight
  BY <1>8, <1>9, <1>10, <1>11 DEF StaysRight, MartInv
<1>13. Concluded(o, order, buyer)
  BY <1>3, <1>5, <1>6, <1>8, <1>9, <1>12 DEF Concluded
<1>14. QED
  BY <1>1, <1>13 DEF order

-----------------------------------------------------------------------------
(* The steps of the others.                                                *)

(* Nobody but the market takes units from it.                              *)
LEMMA NobodyTakes ==
  ASSUME TbaInv, [Next]_vars
  PROVE  \A n \in Nids : accounts'[Mart][n] >= accounts[Mart][n]
<1>1. Mart \in Accounts /\ Mart \notin Users /\ Mart # Custody /\ Custody \in Accounts
  BY Constants
<1>2. \A n \in Nids : accounts[Mart][n] \in Nat
  BY <1>1, LedgerFacts
<1>3. ASSUME NEW from \in Users, NEW to \in Accounts, NEW v \in Vectors,
             NT!Transfer(from, to, Amounts(v))
      PROVE  \A n \in Nids : accounts'[Mart][n] >= accounts[Mart][n]
  <2>1. from \in Accounts /\ from # Mart /\ NT!CanTransfer(from, to, Amounts(v))
    BY <1>3, Constants DEF NT!Transfer
  <2>2. Amounts(v) \in Ledger!AssetVectors
    BY <2>1, VectorIsUnits
  <2>3. MovedUnits(from, to, Amounts(v))
    BY <1>3, <2>1, <2>2, Transfers
  <2>4. TAKE n \in Nids
  <2>5. /\ NT!Quantity(Amounts(v), n) \in Nat /\ accounts[Mart][n] \in Nat
        /\ \/ accounts'[Mart][n] = accounts[Mart][n] + NT!Quantity(Amounts(v), n)
           \/ accounts'[Mart][n] = accounts[Mart][n]
    BY <1>1, <1>2, <2>1, <2>3 DEF MovedUnits
  <2>6. QED
    BY <2>5
<1>4. CASE UNCHANGED accounts
  BY <1>2, <1>4
<1>5. CASE NTokenNext
  <2>1. CASE \E from \in Users, to \in Users \cup {Mart}, v \in Vectors :
               TransferNft(from, to, v)
    BY <1>3, <2>1, Constants DEF TransferNft
  <2>2. CASE \E nid \in Nids, q \in 1 .. Supply : NT!Issue(nid, q) \/ NT!Retire(nid, q)
    <3>1. \A n \in Nids : accounts'[Mart][n] = accounts[Mart][n]
      BY <2>2, IssueNftStep
    <3>2. QED
      BY <1>2, <3>1
  <2>3. QED
    BY <1>5, <2>1, <2>2 DEF NTokenNext, IssueNft, RetireNft
<1>6. CASE \E a \in Users, tba \in Nids, v \in Vectors : DepositNft(a, tba, v)
  BY <1>1, <1>3, <1>6 DEF DepositNft
<1>7. CASE \E tba \in Nids, id \in 1 .. MaxAssetId : Withdraw(tba, id)
  <2>1. PICK tba \in Nids, id \in 1 .. MaxAssetId : Withdraw(tba, id)
    BY <1>7
  <2> DEFINE owner == tbas[tba].owner
             what  == assets[id].what
             q     == assets[id].amount
  <2>2. tba \in DOMAIN tbas /\ id \in DOMAIN assets /\ PayOut(owner, assets[id])
    BY <2>1 DEF Withdraw, OwnerInControl
  <2>3. owner \in Users /\ owner \in Accounts /\ owner # Mart
    BY <2>2, Constants DEF TbaInv, TbasAreTyped, Tba
  <2>4. what \in Nids \cup {Coin} /\ q \in Nat \ {0}
    BY <2>2, RowFields DEF TbaInv
  <2>5. CASE what = Coin
    BY <1>4, <2>2, <2>5 DEF PayOut, ntvars
  <2>6. CASE what # Coin
    <3> DEFINE units == [n \in {what} |-> q]
    <3>1. NT!Transfer(Custody, owner, units) /\ what \in Nids
      BY <2>2, <2>4, <2>6 DEF PayOut
    <3>2. q \in 1 .. Supply
      <4>1. q <= accounts[Custody][what]
        BY <3>1 DEF NT!Transfer, NT!CanTransfer, NT!CanSub
      <4>2. accounts[Custody][what] \in 0 .. Supply
        BY <1>1, <3>1, LedgerFacts
      <4>3. QED
        BY <2>4, <4>1, <4>2, Constants
    <3> HIDE DEF owner, what, q
    <3>3. OneMoved(Custody, owner, what, q)
      BY <1>1, <2>3, <3>1, <3>2, OneTransfer
    <3>4. \A n \in Nids : accounts'[Mart][n] = accounts[Mart][n]
      BY <1>1, <2>3, <3>3 DEF OneMoved
    <3>5. QED
      BY <1>2, <3>4
  <2>7. QED
    BY <2>5, <2>6
<1>8. CASE UNCHANGED ntvars
  BY <1>4, <1>8 DEF ntvars
<1>9. QED
  BY <1>4, <1>5, <1>6, <1>7, <1>8
     DEF Next, TbaNext, vars, Createtba, Setstatus, Deposittoken, Setmode, FreezeOwn,
         Genmanifest, SendCoins

(* Steps that leave the orders and the escrow alone.                       *)
LEMMA AsideStep ==
  ASSUME MartInv, TbaInv', LeavesToHolder, MartSettings', orders' = orders,
         \A n \in Nids : accounts'[Mart][n] >= accounts[Mart][n]
  PROVE  StaysRight
<1>1. \A nid \in Nids : Escrowed(orders', nid) <= accounts'[Mart][nid]
  <2> TAKE nid \in Nids
  <2>1. /\ Escrowed(orders, nid) <= accounts[Mart][nid]
        /\ Escrowed(orders, nid) \in Nat /\ accounts[Mart][nid] \in Nat
        /\ accounts'[Mart][nid] >= accounts[Mart][nid]
    BY EscrowHolds
  <2>2. accounts'[Mart][nid] \in Nat
    <3>1. NT!TypeOK' /\ (NT!Created = Nids)'
      BY SameTypes, PTL DEF TbaInv, DeploymentLasts, Ledger!LedgerInv
    <3>2. QED
      BY <3>1, MartConstants, Constants DEF NT!TypeOK
  <2>3. orders' = orders
    OBVIOUS
  <2>4. QED
    BY <2>1, <2>2, <2>3
<1>2. EscrowCovers'
  BY <1>1, EscrowFollows
<1>3. orders' \in Orders /\ funds' = funds
  BY DEF MartInv, MartSettings
<1>4. QED
  BY <1>2, <1>3 DEF StaysRight, MartInv

(* Steps of the contracts beneath, by themselves, and stutters.            *)
LEMMA OthersStep ==
  ASSUME MartInv, OthersNext \/ UNCHANGED allvars
  PROVE  StaysRight /\ UNCHANGED <<orders, paytokens, fee, funds>> /\ [Next]_vars
<1>1. UNCHANGED <<orders, paytokens, fee, funds>> /\ [Next]_vars /\ TbaInv
  BY DEF OthersNext, martvars, allvars, MartInv
<1>2. TbaInv' /\ LeavesToHolder
  BY <1>1, TbaStep
<1>3. \A n \in Nids : accounts'[Mart][n] >= accounts[Mart][n]
  BY <1>1, NobodyTakes
<1>4. MartSettings'
  BY <1>1 DEF MartInv, MartSettings
<1>5. QED
  BY <1>1, <1>2, <1>3, <1>4, AsideStep

(* The settings of the market, and the IP owner of a token.                *)
SettingNext ==
  \/ \E conf \in FeeConfs : Setfee(conf)
  \/ \E t \in PayTokens, enabled \in BOOLEAN : Setpaytoken(t, enabled)
  \/ \E nid \in Nids, name \in IpOwners : SetIpOwner(nid, name)

(* Changing a setting moves no order, no unit and no coin.                 *)
LEMMA SettingStep ==
  ASSUME MartInv, SettingNext
  PROVE  StaysRight /\ UNCHANGED <<orders, accounts, tbas, assets, coins, manifests, funds>>
<1>1. /\ UNCHANGED <<orders, accounts, tbas, assets, coins, manifests, funds>>
      /\ UNCHANGED whitelist
  BY DEF SettingNext, Setfee, Setpaytoken, SetIpOwner, NT!Setipowner, NT!roles,
         vars, tbavars, martvars
<1>2. MartSettings'
  BY DEF SettingNext, Setfee, Setpaytoken, SetIpOwner, martvars, MartInv, MartSettings
<1>3. TbaInv
  BY DEF MartInv
<1>4. Ledger!LedgerInv' /\ DeploymentLasts'
  <2>1. CASE UNCHANGED tokenstats
    BY <1>1, <1>3, <2>1, LedgerUnchanged DEF ntvars
  <2>2. CASE \E nid \in Nids, name \in IpOwners : NT!Setipowner(nid, name)
    <3>1. PICK nid \in Nids, name \in Names : NT!Setipowner(nid, name)
      BY <2>2, MartConstants
    <3>2. Ledger!Setipowner(nid, name)
      BY <3>1 DEF NT!Setipowner, Ledger!Setipowner, NT!roles, Ledger!roles,
                  NT!Created, Ledger!Created
    <3>3. Ledger!AdminNext
      BY <3>2 DEF Ledger!AdminNext
    <3>4. Ledger!LedgerInv'
      BY <1>3, <3>3, LedgerConstants, Ledger!SettingsInv DEF TbaInv
    <3>5. tokenstats' = [tokenstats EXCEPT ![nid].ipowner = name]
      BY <3>1 DEF NT!Setipowner
    <3>6. tokenstats \in [Nids -> NT!Stat]
      BY <1>3, LedgerFacts
    <3>7. /\ DOMAIN tokenstats' = DOMAIN tokenstats
          /\ \A n \in Nids : tokenstats'[n].issuer = tokenstats[n].issuer
      BY <3>5, <3>6 DEF NT!Stat
    <3>8. QED
      BY <1>1, <1>3, <3>4, <3>7 DEF TbaInv, DeploymentLasts, NT!Created
  <2>3. QED
    BY <2>1, <2>2 DEF SettingNext, Setfee, Setpaytoken, SetIpOwner, vars
<1>5. /\ TbasAreTyped' /\ manifests' \in 0 .. MaxManifests
      /\ assets' \in Rows /\ RowsKept
  BY <1>1, <1>3 DEF TbaInv, TbasAreTyped, RowsKept
<1>6. TbaInv' /\ LeavesToHolder
  BY <1>1, <1>3, <1>4, <1>5, KeepingStep DEF CoinsGrow
<1>7. \A n \in Nids : accounts'[Mart][n] >= accounts[Mart][n]
  <2>1. \A n \in Nids : accounts[Mart][n] \in Nat
    BY <1>3, MartConstants, LedgerFacts
  <2>2. QED
    BY <1>1, <2>1
<1>8. StaysRight
  BY <1>1, <1>2, <1>6, <1>7, AsideStep
<1>9. QED
  BY <1>1, <1>8

-----------------------------------------------------------------------------
(* The system.                                                             *)

(* No order to start with.                                                 *)
LEMMA MartStart == MartInit => MartInv
<1> SUFFICES ASSUME MartInit PROVE MartInv
  OBVIOUS
<1>1. TbaInv
  BY TbaInit DEF MartInit
<1>2. orders \in Orders
  <2>1. orders \in Seq(Order) /\ Len(orders) = 0
    <3> HIDE DEF Order
    <3>1. QED
      BY DEF MartInit
  <2>2. QED
    BY <2>1, MartConstants DEF Orders
<1>3. MartSettings
  BY DEF MartInit, MartSettings
<1>4. EscrowCovers
  <2>1. \A nid \in Nids : [o \in {l \in Listed : orders[l].nid = nid} |-> orders[o].amount]
                            \in [{} -> Nat]
    BY DEF MartInit, Listed
  <2>2. \A nid \in Nids : accounts[Mart][nid] \in Nat
    BY <1>1, MartConstants, LedgerFacts
  <2>3. \A nid \in Nids :
          Total([o \in {l \in Listed : orders[l].nid = nid} |-> orders[o].amount]) = 0
    BY <2>1, TotalZero
  <2>4. QED
    BY <2>2, <2>3 DEF EscrowCovers
<1>5. QED
  BY <1>1, <1>2, <1>3, <1>4 DEF MartInv

(* What a step of the system may be.                                       *)
OfferStep ==
  \/ \E a \in Users, nid \in Nids, q \in 1 .. Supply, t \in PayTokens, p \in Prices :
       ListNft(a, nid, q, t, p) /\ Offered(NftOrder(a, nid, q, t, p))
  \/ \E a \in Users, tba \in Nids, t \in PayTokens, p \in Prices :
       Listbundle(a, tba, t, p) /\ Offered(BundleOrder(a, tba, t, p))

EndStep ==
  \E o \in Listed :
    \/ Cancel(o) /\ Concluded(o, Cancelled(o), orders[o].seller)
    \/ \E buyer \in Users : Buy(o, buyer) /\ Concluded(o, Sold(o, buyer), buyer)

(* Every step of the system is one of the steps above.                     *)
LEMMA MartSteps ==
  ASSUME MartInv, [SystemNext]_allvars
  PROVE  OfferStep \/ EndStep \/ SettingNext \/ OthersNext \/ UNCHANGED allvars
<1>1. CASE \E a \in Users, nid \in Nids, q \in 1 .. Supply, t \in PayTokens, p \in Prices :
             ListNft(a, nid, q, t, p)
  BY <1>1, ListNftStep DEF OfferStep
<1>2. CASE \E a \in Users, tba \in Nids, t \in PayTokens, p \in Prices :
             Listbundle(a, tba, t, p)
  BY <1>2, ListbundleStep DEF OfferStep
<1>3. CASE \E o \in 1 .. MaxOrders : Cancel(o)
  BY <1>3, CancelStep DEF EndStep
<1>4. CASE \E o \in 1 .. MaxOrders, a \in Users : Buy(o, a)
  BY <1>4, BuyStep DEF EndStep
<1>5. QED
  BY <1>1, <1>2, <1>3, <1>4 DEF SystemNext, OffersNext, SalesNext, SettingNext

(* Every step keeps the invariant, the funds and what is in custody.       *)
LEMMA MartStep == MartInv /\ [SystemNext]_allvars => StaysRight
<1> SUFFICES ASSUME MartInv, [SystemNext]_allvars PROVE StaysRight
  OBVIOUS
<1>1. CASE OfferStep
  BY <1>1 DEF OfferStep, Offered
<1>2. CASE EndStep
  BY <1>2 DEF EndStep, Concluded
<1>3. CASE SettingNext \/ OthersNext \/ UNCHANGED allvars
  BY <1>3, SettingStep, OthersStep
<1>4. QED
  BY <1>1, <1>2, <1>3, MartSteps

(* The invariant of the market holds in every state.                       *)
LEMMA MartInvHolds == MartSpec => []MartInv
<1>1. MartInv /\ [SystemNext]_allvars => MartInv'
  BY MartStep DEF StaysRight
<1>2. QED
  BY <1>1, MartStart, PTL DEF MartSpec

(* The orders, the settings and everything beneath keep their types.       *)
THEOREM MartIsTyped == MartSpec => []MartTypeOK
BY MartInvHolds, MartInvTypes, PTL

(* The market holds at least what its listed orders need, together.        *)
THEOREM EscrowStaysCovered == MartSpec => []EscrowCovers
<1>1. MartInv => EscrowCovers
  BY DEF MartInv
<1>2. QED
  BY <1>1, MartInvHolds, PTL

(* distribute_fees pays out the price of every sale, no more and no less,  *)
(* whoever the receivers are and whatever the rounding of the shares.      *)
THEOREM MarketPaysOut == MartSpec => MarketKeepsNothing
<1>1. MartInv /\ [SystemNext]_allvars => [funds' = funds]_allvars
  BY MartStep DEF StaysRight
<1>2. QED
  BY <1>1, MartInvHolds, PTL DEF MartSpec, MarketKeepsNothing

(* freezeassets and the new owner of a sale notwithstanding, tba.account   *)
(* holds exactly what its rows say.                                        *)
THEOREM MarketKeepsCustodyExact == MartSpec => []CustodyIsExact
<1>1. MartInv => CustodyIsExact
  BY DEF MartInv, TbaInv
<1>2. QED
  BY <1>1, MartInvHolds, PTL

(* The market takes nothing out of a TBA, and moves no asset to another.   *)
THEOREM MarketWithdrawsNothing == MartSpec => OnlyHolderWithdraws
<1>1. MartInv /\ [SystemNext]_allvars => [LeavesToHolder]_vars
  BY MartStep DEF StaysRight
<1>2. QED
  BY <1>1, MartInvHolds, PTL DEF MartSpec, OnlyHolderWithdraws

(* What is in escrow can be handed to any person, whatever that person     *)
(* holds already: the whitelist has the market on it, and the balances     *)
(* cannot exceed the supply.                                               *)
LEMMA EscrowIsPayable ==
  ASSUME MartInv, NEW o \in Listed, NEW to \in Users
  PROVE  CanHandOver(o, to)
<1> DEFINE nid   == orders[o].nid
           q     == orders[o].amount
           units == [n \in {nid} |-> q]
<1>1. nid \in Nids /\ q \in Nat \ {0} /\ q <= accounts[Mart][nid]
  BY ListedOrder
<1>2. to \in Accounts /\ Mart \in Accounts /\ to # Mart
  BY Constants
<1>3. /\ accounts[Mart][nid] \in Nat /\ accounts[to][nid] \in Nat
      /\ accounts[Mart][nid] + accounts[to][nid] <= Supply
  BY <1>1, <1>2, LedgerFacts DEF MartInv
<1>4. accounts[to][nid] + q <= Supply
  BY <1>1, <1>3, Constants
<1>5. nid \in NT!Created /\ NT!WhitelistAllows(Mart, to)
  BY <1>1 DEF MartInv, TbaInv, DeploymentLasts, NT!WhitelistAllows
<1>6. DOMAIN units = {nid} /\ units[nid] = q
  OBVIOUS
<1>7. CanHandOver(o, to) <=> NT!CanTransfer(Mart, to, units)
  BY DEF CanHandOver
<1> HIDE DEF units, nid, q
<1>8. NT!CanTransfer(Mart, to, units)
  BY <1>1, <1>2, <1>3, <1>4, <1>5, <1>6 DEF NT!CanTransfer, NT!CanSub, NT!CanAdd
<1>9. QED
  BY <1>7, <1>8

-----------------------------------------------------------------------------
(* Bundles.                                                                *)

(* What BundleIntact says of one bundle.                                   *)
Whole(o) ==
  /\ \A id \in DOMAIN orders[o].manifest : Matches(o, id) /\ assets[id].frozen
  /\ Deliverables(orders[o].nid) = DOMAIN orders[o].manifest

(* Nobody can hold as many units of the root as the market does.           *)
MoreThanHalf(o) == 2 * orders[o].amount > Supply

BundleRoots ==
  \A o \in Listed : IsBundle(o) =>
    /\ orders[o].nid \in DOMAIN tbas
    /\ tbas[orders[o].nid].root_amount = orders[o].amount

BundlesWhole == \A o \in Listed : IsBundle(o) /\ MoreThanHalf(o) => Whole(o)

BundleInv == MartInv /\ BundleRoots /\ BundlesWhole

(* The orders that are on offer after a step.                              *)
StillListed(o) == o \in Listed /\ orders'[o] = orders[o]

(* What is on offer afterwards was on offer before or is new.              *)
LEMMA ListedAfter ==
  ASSUME MartInv
  PROVE  /\ UNCHANGED orders => \A x \in Listed' : StillListed(x)
         /\ \A order : LongerBy(orders, order, orders') =>
              \A x \in Listed' : StillListed(x) \/ orders'[x] = order
         /\ \A o \in Listed : \A order :
              ChangedAt(orders, o, order, orders') /\ order.status # "listed" =>
                \A x \in Listed' : StillListed(x) /\ x # o
<1>1. UNCHANGED orders => \A x \in Listed' : StillListed(x)
  BY DEF Listed, StillListed
<1>2. ASSUME NEW order, LongerBy(orders, order, orders'), NEW x \in Listed'
      PROVE  StillListed(x) \/ orders'[x] = order
  <2>1. /\ DOMAIN orders = 1 .. Len(orders) /\ Len(orders) \in Nat
        /\ DOMAIN orders' = 1 .. Len(orders') /\ Len(orders') = Len(orders) + 1
    BY <1>2, OrderFields DEF MartInv, LongerBy
  <2>2. x \in DOMAIN orders \/ x = Len(orders')
    BY <2>1 DEF Listed
  <2>3. QED
    BY <1>2, <2>2 DEF Listed, StillListed, LongerBy
<1>3. ASSUME NEW o \in Listed, NEW order, ChangedAt(orders, o, order, orders'),
             order.status # "listed", NEW x \in Listed'
      PROVE  StillListed(x) /\ x # o
  BY <1>3 DEF Listed, StillListed, ChangedAt
<1>4. QED
  BY <1>1, <1>2, <1>3

(* The TBAs of the system stay, with their root amounts.                   *)
RootsLast ==
  \A tba \in DOMAIN tbas : /\ tba \in DOMAIN tbas'
                           /\ tbas'[tba].root_amount = tbas[tba].root_amount

(* A step that ends no order keeps the roots where they are.               *)
LEMMA RootsStay ==
  ASSUME MartInv, [SystemNext]_allvars
  PROVE  RootsLast
<1>1. CASE OfferStep
  BY <1>1 DEF OfferStep, Offered, RootsLast
<1>2. CASE EndStep
  <2>1. PICK o \in Listed : \/ Cancel(o)
                            \/ \E buyer \in Users : Buy(o, buyer)
    BY <1>2 DEF EndStep
  <2>2. CASE Cancel(o)
    BY <2>2 DEF Cancel, RootsLast
  <2>3. CASE \E buyer \in Users : Buy(o, buyer)
    <3>1. PICK buyer \in Users : Buy(o, buyer)
      BY <2>3
    <3>2. /\ tbas' = NewTbas(o, buyer)
          /\ IsBundle(o) => orders[o].nid \in DOMAIN tbas
      BY <3>1 DEF Buy, CanBuy
    <3>3. QED
      BY <3>2, NewOwner DEF RootsLast
  <2>4. QED
    BY <2>1, <2>2, <2>3
<1>3. CASE SettingNext
  BY <1>3, SettingStep DEF RootsLast
<1>4. CASE OthersNext \/ UNCHANGED allvars
  <2>1. [Next]_vars /\ TbaInv
    BY <1>4, OthersStep DEF MartInv
  <2>2. QED
    BY <2>1, TbasStay DEF TbasLast, RootsLast
<1>5. QED
  BY <1>1, <1>2, <1>3, <1>4, MartSteps

(* A bundle on offer is of a TBA with that root amount.                    *)
LEMMA BundleRootsStep ==
  ASSUME MartInv, BundleRoots, [SystemNext]_allvars
  PROVE  BundleRoots'
<1>1. RootsLast
  BY RootsStay
<1>2. ASSUME NEW x \in Listed', StillListed(x), IsBundle(x)'
      PROVE  /\ orders'[x].nid \in DOMAIN tbas'
             /\ tbas'[orders'[x].nid].root_amount = orders'[x].amount
  BY <1>1, <1>2 DEF BundleRoots, StillListed, IsBundle, RootsLast
<1>3. CASE \A x \in Listed' : StillListed(x)
  BY <1>2, <1>3 DEF BundleRoots
<1>4. CASE OfferStep
  <2>1. CASE \E a \in Users, nid \in Nids, q \in 1 .. Supply, t \in PayTokens, p \in Prices :
               Offered(NftOrder(a, nid, q, t, p))
    <3>1. PICK a \in Users, nid \in Nids, q \in 1 .. Supply, t \in PayTokens, p \in Prices :
            Offered(NftOrder(a, nid, q, t, p))
      BY <2>1
    <3>2. \A x \in Listed' : StillListed(x) \/ orders'[x] = NftOrder(a, nid, q, t, p)
      BY <3>1, ListedAfter DEF Offered
    <3>3. NftOrder(a, nid, q, t, p).sale_type # "tba_bundle"
      BY DEF NftOrder
    <3>4. QED
      BY <1>2, <3>2, <3>3 DEF BundleRoots, IsBundle
  <2>2. CASE \E a \in Users, tba \in Nids, t \in PayTokens, p \in Prices :
               Listbundle(a, tba, t, p) /\ Offered(BundleOrder(a, tba, t, p))
    <3>1. PICK a \in Users, tba \in Nids, t \in PayTokens, p \in Prices :
            Listbundle(a, tba, t, p) /\ Offered(BundleOrder(a, tba, t, p))
      BY <2>2
    <3>2. \A x \in Listed' : StillListed(x) \/ orders'[x] = BundleOrder(a, tba, t, p)
      BY <3>1, ListedAfter DEF Offered
    <3>3. /\ BundleOrder(a, tba, t, p).nid = tba
          /\ BundleOrder(a, tba, t, p).amount = tbas[tba].root_amount
      BY DEF BundleOrder
    <3>4. tba \in DOMAIN tbas
      BY <3>1 DEF Listbundle
    <3>5. QED
      BY <1>1, <1>2, <3>2, <3>3, <3>4 DEF BundleRoots, RootsLast
  <2>3. QED
    BY <1>4, <2>1, <2>2 DEF OfferStep
<1>5. CASE EndStep
  <2>1. \A x \in Listed' : StillListed(x)
    BY <1>5, ListedAfter, ListedOrder, EndedOrders DEF EndStep, Concluded
  <2>2. QED
    BY <1>3, <2>1
<1>6. CASE SettingNext \/ OthersNext \/ UNCHANGED allvars
  <2>1. UNCHANGED orders
    BY <1>6, SettingStep, OthersStep
  <2>2. QED
    BY <1>3, <2>1, ListedAfter
<1>7. QED
  BY <1>4, <1>5, <1>6, MartSteps

(* The market holds more than half of the units of the root.               *)
LEMMA NobodyElseHoldsHalf ==
  ASSUME MartInv, BundleRoots, NEW o \in Listed, IsBundle(o), MoreThanHalf(o)
  PROVE  /\ ~ OwnerInControl(accounts, orders[o].nid)
         /\ \A a \in Users : ~ (accounts[a][orders[o].nid] >= orders[o].amount)
         /\ \A x \in Listed \ {o} : orders[x].nid = orders[o].nid => ~ IsBundle(x)
<1> DEFINE tba == orders[o].nid
           q   == orders[o].amount
<1>1. /\ tba \in Nids /\ q \in Nat \ {0} /\ q <= accounts[Mart][tba]
      /\ tba \in DOMAIN tbas /\ tbas[tba].root_amount = q
      /\ 2 * q > Supply /\ Supply \in Nat
  BY ListedOrder, Constants DEF BundleRoots, MoreThanHalf
<1>2. ASSUME NEW a \in Users
      PROVE  ~ (accounts[a][tba] >= q)
  <2>1. a \in Accounts /\ Mart \in Accounts /\ a # Mart
    BY Constants
  <2>2. /\ accounts[Mart][tba] \in Nat /\ accounts[a][tba] \in Nat
        /\ accounts[Mart][tba] + accounts[a][tba] <= Supply
    BY <1>1, <2>1, LedgerFacts DEF MartInv
  <2> HIDE DEF q, tba
  <2>3. QED
    BY <1>1, <2>2
<1>3. ~ OwnerInControl(accounts, tba)
  <2>1. tbas[tba].owner \in Users
    BY <1>1 DEF MartInv, TbaInv, TbasAreTyped, Tba
  <2>2. QED
    BY <1>1, <1>2, <2>1 DEF OwnerInControl
<1>4. ASSUME NEW x \in Listed \ {o}, orders[x].nid = tba, IsBundle(x)
      PROVE  FALSE
  <2>1. orders[x].amount = q
    BY <1>1, <1>4 DEF BundleRoots
  <2>2. orders[o].amount + orders[x].amount <= Escrowed(orders, tba)
    BY <1>4, EscrowBoundsTwo DEF MartInv, Listed
  <2>3. /\ Escrowed(orders, tba) <= accounts[Mart][tba]
        /\ Escrowed(orders, tba) \in Nat /\ accounts[Mart][tba] \in Nat
    BY <1>1, EscrowHolds
  <2>4. accounts[Mart][tba] \in 0 .. Supply
    BY <1>1, LedgerFacts, MartConstants DEF MartInv
  <2> HIDE DEF q, tba
  <2>5. QED
    BY <1>1, <2>1, <2>2, <2>3, <2>4 DEF q
<1>5. QED
  BY <1>2, <1>3, <1>4

(* A bundle stays whole as long as nobody touches the rows of its TBA.     *)
LEMMA WholeKept ==
  ASSUME NEW x \in Listed, orders'[x] = orders[x], Whole(x), RowsOfKept(orders[x].nid)
  PROVE  Whole(x)'
<1>1. \A id \in DOMAIN orders[x].manifest :
        /\ id \in DOMAIN assets /\ assets[id].tba = orders[x].nid
        /\ assets[id].what = orders[x].manifest[id].what
        /\ assets[id].amount = orders[x].manifest[id].amount /\ assets[id].frozen
  BY DEF Whole, Matches
<1>2. \A id \in DOMAIN orders[x].manifest : id \in DOMAIN assets' /\ assets'[id] = assets[id]
  BY <1>1 DEF RowsOfKept
<1>3. Deliverables(orders[x].nid)' = Deliverables(orders[x].nid)
  BY DEF Deliverables, AssetsOf, RowsOfKept
<1>4. QED
  BY <1>1, <1>2, <1>3 DEF Whole, Matches

(* What freezeassets changes.                                              *)
LEMMA FrozenRows ==
  ASSUME TbaInv, NEW ids, NEW state \in BOOLEAN, assets' = Frozen(ids, state)
  PROVE  /\ DOMAIN assets' = DOMAIN assets
         /\ \A id \in DOMAIN assets :
              /\ assets'[id].tba = assets[id].tba /\ assets'[id].what = assets[id].what
              /\ assets'[id].amount = assets[id].amount
              /\ assets'[id].settlement_mode = assets[id].settlement_mode
              /\ id \in ids => assets'[id].frozen = state
              /\ id \notin ids => assets'[id] = assets[id]
<1>1. \A id \in DOMAIN assets : assets[id] \in Asset
  BY RowFields DEF TbaInv
<1> DEFINE row(id) == [assets[id] EXCEPT !.frozen = state]
<1>2. \A id \in DOMAIN assets :
        /\ row(id).tba = assets[id].tba /\ row(id).what = assets[id].what
        /\ row(id).amount = assets[id].amount
        /\ row(id).settlement_mode = assets[id].settlement_mode /\ row(id).frozen = state
  BY <1>1 DEF Asset
<1>3. assets' = [id \in DOMAIN assets |-> IF id \in ids THEN row(id) ELSE assets[id]]
  BY DEF Frozen
<1> HIDE DEF row
<1>4. QED
  BY <1>2, <1>3

(* A bundle is whole when it is listed.                                    *)
LEMMA ListedWhole ==
  ASSUME MartInv, NEW a, NEW tba, NEW t, NEW p, Listbundle(a, tba, t, p),
         NEW x, orders'[x] = BundleOrder(a, tba, t, p)
  PROVE  Whole(x)'
<1>1. TbaInv /\ assets' = Frozen(Deliverables(tba), TRUE)
  BY DEF MartInv, Listbundle
<1>2. orders'[x].manifest = Manifest(tba) /\ orders'[x].nid = tba
  BY DEF BundleOrder
<1>3. /\ DOMAIN Manifest(tba) = Deliverables(tba)
      /\ Deliverables(tba) \subseteq DOMAIN assets
      /\ \A id \in Deliverables(tba) : /\ assets[id].tba = tba
                                       /\ Manifest(tba)[id].what = assets[id].what
                                       /\ Manifest(tba)[id].amount = assets[id].amount
  BY <1>1, ManifestIsTyped
<1>4. /\ DOMAIN assets' = DOMAIN assets
      /\ \A id \in DOMAIN assets :
           /\ assets'[id].tba = assets[id].tba /\ assets'[id].what = assets[id].what
           /\ assets'[id].amount = assets[id].amount
           /\ assets'[id].settlement_mode = assets[id].settlement_mode
           /\ id \in Deliverables(tba) => assets'[id].frozen = TRUE
  BY <1>1, FrozenRows
<1>5. Deliverables(tba)' = Deliverables(tba)
  BY <1>4 DEF Deliverables, AssetsOf
<1>6. \A id \in Deliverables(tba) : Matches(x, id)' /\ assets'[id].frozen
  BY <1>2, <1>3, <1>4 DEF Matches
<1>7. QED
  BY <1>2, <1>3, <1>5, <1>6 DEF Whole

(* Freezing or unfreezing rows of another TBA keeps the rows of this one.  *)
LEMMA FrozenElsewhere ==
  ASSUME TbaInv, NEW ids, NEW state \in BOOLEAN, assets' = Frozen(ids, state),
         NEW tba, \A id \in ids : assets[id].tba # tba
  PROVE  RowsOfKept(tba)
BY FrozenRows DEF RowsOfKept

(* What a release changes is in the TBA of the order that ends.            *)
LEMMA ReleasedElsewhere ==
  ASSUME MartInv, NEW o, IsBundle(o) => CanUnfreeze(o), assets' = Released(o),
         NEW tba, IsBundle(o) => orders[o].nid # tba
  PROVE  RowsOfKept(tba)
<1>1. CASE ~ IsBundle(o)
  BY <1>1 DEF Released, RowsOfKept
<1>2. CASE IsBundle(o)
  <2>1. /\ assets' = Frozen(DOMAIN orders[o].manifest, FALSE) /\ FALSE \in BOOLEAN
        /\ \A id \in DOMAIN orders[o].manifest : assets[id].tba = orders[o].nid
    BY <1>2 DEF Released, CanUnfreeze, CanFreeze
  <2>2. QED
    BY <1>2, <2>1, FrozenElsewhere DEF MartInv
<1>3. QED
  BY <1>1, <1>2

(* No step touches what is in a bundle on offer that goes on being offered.*)
LEMMA OfferStaysShut ==
  ASSUME MartInv, BundleRoots, [SystemNext]_allvars,
         NEW x \in Listed, StillListed(x), x \in Listed', IsBundle(x), MoreThanHalf(x)
  PROVE  RowsOfKept(orders[x].nid)
<1> DEFINE T == orders[x].nid
<1>1. /\ ~ OwnerInControl(accounts, T)
      /\ \A a \in Users : ~ (accounts[a][T] >= orders[x].amount)
      /\ \A o \in Listed \ {x} : orders[o].nid = T => ~ IsBundle(o)
  BY NobodyElseHoldsHalf
<1>2. T \in Nids /\ T \in DOMAIN tbas /\ tbas[T].root_amount = orders[x].amount
  BY ListedOrder DEF BundleRoots
<1> HIDE DEF T
<1>3. CASE UNCHANGED assets
  BY <1>3 DEF RowsOfKept, T
<1>4. CASE OfferStep
  <2>1. CASE \E a \in Users, tba \in Nids, t \in PayTokens, p \in Prices :
               Listbundle(a, tba, t, p) /\ Offered(BundleOrder(a, tba, t, p))
    <3>1. PICK a \in Users, tba \in Nids, t \in PayTokens, p \in Prices :
            Listbundle(a, tba, t, p) /\ Offered(BundleOrder(a, tba, t, p))
      BY <2>1
    <3>2. accounts[a][tba] >= tbas[tba].root_amount
      BY <3>1 DEF Offered, OneMoved, BundleOrder
    <3>3. tba # T
      BY <1>1, <1>2, <3>2
    <3>4. /\ assets' = Frozen(Deliverables(tba), TRUE) /\ TRUE \in BOOLEAN
          /\ \A id \in Deliverables(tba) : assets[id].tba = tba
      BY <3>1 DEF Listbundle, Deliverables, AssetsOf
    <3>5. QED
      BY <3>3, <3>4, FrozenElsewhere DEF T, MartInv
  <2>2. CASE \E a \in Users, nid \in Nids, q \in 1 .. Supply, t \in PayTokens, p \in Prices :
               ListNft(a, nid, q, t, p)
    BY <1>3, <2>2 DEF ListNft, tbavars
  <2>3. QED
    BY <1>4, <2>1, <2>2 DEF OfferStep
<1>5. CASE EndStep
  <2>1. PICK o \in Listed : \/ Cancel(o) /\ Concluded(o, Cancelled(o), orders[o].seller)
                            \/ \E buyer \in Users : /\ Buy(o, buyer)
                                                    /\ Concluded(o, Sold(o, buyer), buyer)
    BY <1>5 DEF EndStep
  <2>2. (IsBundle(o) => CanUnfreeze(o)) /\ assets' = Released(o)
    BY <2>1 DEF Cancel, CanCancel, Buy, CanBuy
  <2>3. x # o
    BY <2>1, ListedAfter, ListedOrder, EndedOrders DEF Concluded
  <2>4. QED
    BY <1>1, <2>2, <2>3, ReleasedElsewhere DEF T
<1>6. CASE SettingNext
  BY <1>3, <1>6, SettingStep
<1>7. CASE OthersNext \/ UNCHANGED allvars
  <2>1. [Next]_vars /\ TbaInv /\ MartInv'
    BY <1>7, OthersStep DEF MartInv, StaysRight
  <2>2. PairsFit'
    BY <2>1, PairsAlwaysFit, PTL DEF MartInv
  <2>3. accounts'[Mart][T] >= accounts[Mart][T]
    BY <1>2, <2>1, NobodyTakes
  <2>4. ~ OwnerInControl(accounts', T)
    <3> DEFINE owner == tbas[T].owner
    <3>1. owner \in Users
      BY <1>2, <2>1 DEF TbaInv, TbasAreTyped, Tba
    <3>2. owner \in Accounts /\ Mart \in Accounts /\ owner # Mart
      BY <3>1, Constants
    <3>3. /\ accounts'[Mart][T] \in Nat /\ accounts'[owner][T] \in Nat
          /\ accounts'[Mart][T] + accounts'[owner][T] <= Supply
      BY <1>2, <2>2, <3>2 DEF PairsFit
    <3>4. /\ accounts[Mart][T] \in Nat /\ accounts[Mart][T] >= orders[x].amount
          /\ orders[x].amount \in Nat /\ 2 * orders[x].amount > Supply /\ Supply \in Nat
      BY <1>2, <2>1, <3>2, LedgerFacts, ListedOrder, Constants DEF MoreThanHalf, T
    <3>5. ~ (accounts'[owner][T] >= orders[x].amount)
      BY <2>3, <3>3, <3>4
    <3>6. QED
      BY <1>2, <3>5 DEF OwnerInControl
  <2>5. RowsOfKept(T)
    BY <1>1, <1>2, <2>1, <2>4, ShutTbas
  <2>6. QED
    BY <2>5 DEF T
<1>8. QED
  BY <1>4, <1>5, <1>6, <1>7, MartSteps

(* A bundle on offer stays whole.                                          *)
LEMMA BundlesWholeStep ==
  ASSUME BundleInv, [SystemNext]_allvars
  PROVE  BundlesWhole'
<1> USE DEF BundleInv
<1>1. ASSUME NEW x \in Listed', StillListed(x), IsBundle(x)', MoreThanHalf(x)'
      PROVE  Whole(x)'
  <2>1. x \in Listed /\ IsBundle(x) /\ MoreThanHalf(x) /\ orders'[x] = orders[x]
    BY <1>1 DEF StillListed, IsBundle, MoreThanHalf
  <2>2. RowsOfKept(orders[x].nid)
    BY <1>1, <2>1, OfferStaysShut
  <2>3. Whole(x)
    BY <2>1 DEF BundlesWhole
  <2>4. QED
    BY <2>1, <2>2, <2>3, WholeKept
<1>2. CASE \A x \in Listed' : StillListed(x)
  BY <1>1, <1>2 DEF BundlesWhole
<1>3. CASE OfferStep
  <2>1. CASE \E a \in Users, nid \in Nids, q \in 1 .. Supply, t \in PayTokens, p \in Prices :
               Offered(NftOrder(a, nid, q, t, p))
    <3>1. PICK a \in Users, nid \in Nids, q \in 1 .. Supply, t \in PayTokens, p \in Prices :
            Offered(NftOrder(a, nid, q, t, p))
      BY <2>1
    <3>2. \A x \in Listed' : StillListed(x) \/ orders'[x] = NftOrder(a, nid, q, t, p)
      BY <3>1, ListedAfter DEF Offered
    <3>3. NftOrder(a, nid, q, t, p).sale_type # "tba_bundle"
      BY DEF NftOrder
    <3>4. QED
      BY <1>1, <3>2, <3>3 DEF BundlesWhole, IsBundle
  <2>2. CASE \E a \in Users, tba \in Nids, t \in PayTokens, p \in Prices :
               Listbundle(a, tba, t, p) /\ Offered(BundleOrder(a, tba, t, p))
    <3>1. PICK a \in Users, tba \in Nids, t \in PayTokens, p \in Prices :
            Listbundle(a, tba, t, p) /\ Offered(BundleOrder(a, tba, t, p))
      BY <2>2
    <3>2. \A x \in Listed' : StillListed(x) \/ orders'[x] = BundleOrder(a, tba, t, p)
      BY <3>1, ListedAfter DEF Offered
    <3>3. QED
      BY <1>1, <3>1, <3>2, ListedWhole DEF BundlesWhole
  <2>3. QED
    BY <1>3, <2>1, <2>2 DEF OfferStep
<1>4. CASE EndStep
  <2>1. \A x \in Listed' : StillListed(x)
    BY <1>4, ListedAfter, ListedOrder, EndedOrders DEF EndStep, Concluded
  <2>2. QED
    BY <1>2, <2>1
<1>5. CASE SettingNext \/ OthersNext \/ UNCHANGED allvars
  <2>1. UNCHANGED orders
    BY <1>5, SettingStep, OthersStep
  <2>2. QED
    BY <1>2, <2>1, ListedAfter
<1>6. QED
  BY <1>3, <1>4, <1>5, MartSteps

(* Nothing is on offer when the market starts.                             *)
LEMMA BundleStart == MartInit => BundleInv
<1>1. MartInit => Listed = {}
  BY DEF MartInit, Listed
<1>2. QED
  BY <1>1, MartStart DEF BundleInv, BundleRoots, BundlesWhole

(* Every step keeps bundles at their roots and whole.                      *)
LEMMA BundleStep == BundleInv /\ [SystemNext]_allvars => BundleInv'
BY MartStep, BundleRootsStep, BundlesWholeStep DEF BundleInv, StaysRight

(* The invariant of bundles holds in every state.                          *)
LEMMA BundleInvHolds == MartSpec => []BundleInv
BY BundleStart, BundleStep, PTL DEF MartSpec

-----------------------------------------------------------------------------
(* What the market promises of bundles.                                    *)

(* A bundle with more than half of the units of its root stays whole for   *)
(* as long as it is listed, whatever the seller, the other owners and the  *)
(* registry do.                                                            *)
THEOREM BundlesStayWhole ==
  MartSpec => [](\A o \in Listed : IsBundle(o) /\ MoreThanHalf(o) => Whole(o))
<1>1. BundleInv => \A o \in Listed : IsBundle(o) /\ MoreThanHalf(o) => Whole(o)
  BY DEF BundleInv, BundlesWhole
<1>2. QED
  BY <1>1, BundleInvHolds, PTL

(* Of a NFT that is unique every sale is of all units.                     *)
LEMMA UniqueIsMost ==
  ASSUME Supply = 1, MartInv, NEW o \in Listed
  PROVE  MoreThanHalf(o)
<1>1. orders[o].amount \in Nat \ {0}
  BY ListedOrder
<1>2. QED
  BY <1>1 DEF MoreThanHalf

(* Bundles of which nobody else can hold the root.  Where every NFT is     *)
(* unique, and where there are no bundles, these are all that are listed.  *)
MajorityBundles == \A o \in Listed : IsBundle(o) => MoreThanHalf(o)

(* Where every NFT is unique, a bundle has all there is of its root.       *)
LEMMA UniqueIsMajority ==
  ASSUME Supply = 1  PROVE MartInv => MajorityBundles
BY UniqueIsMost DEF MajorityBundles

(* Where every NFT is unique, everything in the manifest of a listed bundle*)
(* stays in its TBA, unchanged and frozen.                                 *)
THEOREM UniqueBundlesAreIntact == ASSUME Supply = 1 PROVE MartSpec => []BundleIntact
<1>1. BundleInv => BundleIntact
  BY UniqueIsMost DEF BundleInv, BundlesWhole, BundleIntact, Whole
<1>2. QED
  BY <1>1, BundleInvHolds, PTL

(* A single NFT can be taken back at any time, however many units of it    *)
(* there are, and so can a bundle with more than half of the root.         *)
LEMMA CancelIsOpen ==
  ASSUME BundleInv, NEW o \in Listed, IsBundle(o) => MoreThanHalf(o)
  PROVE  CanCancel(o)
<1>1. CanHandOver(o, orders[o].seller)
  BY EscrowIsPayable, ListedOrder DEF BundleInv
<1>2. ASSUME IsBundle(o) PROVE CanUnfreeze(o)
  <2>1. Whole(o)
    BY <1>2 DEF BundleInv, BundlesWhole
  <2>2. QED
    BY <2>1 DEF Whole, Matches, CanUnfreeze, CanFreeze
<1>3. QED
  BY <1>1, <1>2 DEF CanCancel

(* A seller can always cancel an order and have the unit back: a single    *)
(* NFT whatever its supply, a bundle with more than half of its root's     *)
(* units.  What the people, tba.account and tba.reg did in between makes   *)
(* no check of nftoken::transfer or of freezeassets fail, the whitelist    *)
(* being empty or the two custodians, as it is deployed.                   *)
THEOREM SellersGetBack ==
  MartSpec => [](\A o \in Listed : (IsBundle(o) => MoreThanHalf(o)) => CanCancel(o))
<1>1. BundleInv => \A o \in Listed : (IsBundle(o) => MoreThanHalf(o)) => CanCancel(o)
  BY CancelIsOpen
<1>2. QED
  BY <1>1, BundleInvHolds, PTL

(* Where every NFT is unique, no state of the other contracts makes a      *)
(* seller's cancel fail.                                                   *)
THEOREM UniqueOrdersCanBeCancelled == ASSUME Supply = 1 PROVE MartSpec => []CancelReturns
<1>1. BundleInv => CancelReturns
  BY UniqueIsMost, CancelIsOpen DEF BundleInv, CancelReturns
<1>2. QED
  BY <1>1, BundleInvHolds, PTL

(* A whole bundle goes over to its buyer as the manifest says, unfrozen.   *)
LEMMA SoldWhole ==
  ASSUME MartInv, NEW o \in Listed, IsBundle(o), Whole(o),
         NEW buyer \in Users, Buy(o, buyer), Concluded(o, Sold(o, buyer), buyer)
  PROVE  /\ tbas'[orders[o].nid].owner = orders'[o].buyer
         /\ accounts'[orders'[o].buyer][orders[o].nid] >= orders[o].amount
         /\ \A id \in DOMAIN orders[o].manifest : Matches(o, id)' /\ ~assets'[id].frozen
<1>1. orders'[o] = Sold(o, buyer)
  BY DEF Concluded, ChangedAt
<1>2. /\ orders'[o].buyer = buyer /\ orders'[o].nid = orders[o].nid
      /\ orders'[o].manifest = orders[o].manifest
  BY <1>1, EndedOrders
<1>3. tbas'[orders[o].nid].owner = buyer
  <2>1. tbas' = NewTbas(o, buyer) /\ orders[o].nid \in DOMAIN tbas
    BY DEF Buy, CanBuy
  <2>2. QED
    BY <2>1, NewOwner
<1>4. accounts'[buyer][orders[o].nid] >= orders[o].amount
  <2>1. orders[o].nid \in Nids /\ orders[o].amount \in Nat \ {0} /\ buyer \in Accounts
    BY ListedOrder, Constants
  <2>2. accounts[buyer][orders[o].nid] \in Nat
    BY <2>1, LedgerFacts DEF MartInv
  <2>3. accounts'[buyer][orders[o].nid] = accounts[buyer][orders[o].nid] + orders[o].amount
    BY DEF Concluded, OneMoved
  <2>4. QED
    BY <2>1, <2>2, <2>3
<1>5. assets' = Frozen(DOMAIN orders[o].manifest, FALSE) /\ FALSE \in BOOLEAN
  BY DEF Buy, Released
<1>6. \A id \in DOMAIN orders[o].manifest :
        /\ id \in DOMAIN assets /\ assets[id].tba = orders[o].nid
        /\ assets[id].what = orders[o].manifest[id].what
        /\ assets[id].amount = orders[o].manifest[id].amount
  BY DEF Whole, Matches
<1>7. \A id \in DOMAIN orders[o].manifest :
        /\ id \in DOMAIN assets' /\ assets'[id].tba = orders[o].nid
        /\ assets'[id].what = orders[o].manifest[id].what
        /\ assets'[id].amount = orders[o].manifest[id].amount
        /\ assets'[id].frozen = FALSE
  <2> DEFINE ids == DOMAIN orders[o].manifest
  <2>1. TbaInv /\ assets' = Frozen(ids, FALSE) /\ FALSE \in BOOLEAN
    BY <1>5 DEF MartInv
  <2> HIDE DEF ids
  <2>2. /\ DOMAIN assets' = DOMAIN assets
        /\ \A id \in DOMAIN assets :
             /\ assets'[id].tba = assets[id].tba /\ assets'[id].what = assets[id].what
             /\ assets'[id].amount = assets[id].amount
             /\ assets'[id].settlement_mode = assets[id].settlement_mode
             /\ id \in ids => assets'[id].frozen = FALSE
             /\ id \notin ids => assets'[id] = assets[id]
    BY <2>1, FrozenRows
  <2>3. QED
    BY <1>6, <2>2 DEF ids
<1>8. \A id \in DOMAIN orders[o].manifest : Matches(o, id)' /\ ~assets'[id].frozen
  BY <1>2, <1>7 DEF Matches
<1>9. QED
  BY <1>2, <1>3, <1>4, <1>8

(* The step that sells order o is a buy of that order.                     *)
LEMMA OnlyBuySells ==
  ASSUME MartInv, [SystemNext]_allvars, NEW o \in Listed, orders'[o].status = "sold"
  PROVE  \E buyer \in Users : Buy(o, buyer) /\ Concluded(o, Sold(o, buyer), buyer)
<1>1. orders[o].status = "listed" /\ o \in DOMAIN orders
  BY ListedOrder
<1>2. CASE OfferStep
  BY <1>1, <1>2 DEF OfferStep, Offered, LongerBy
<1>3. CASE EndStep
  <2>1. PICK e \in Listed :
          \/ Cancel(e) /\ Concluded(e, Cancelled(e), orders[e].seller)
          \/ \E buyer \in Users : Buy(e, buyer) /\ Concluded(e, Sold(e, buyer), buyer)
    BY <1>3 DEF EndStep
  <2>2. CASE e = o
    <3>1. CASE Concluded(e, Cancelled(e), orders[e].seller)
      <4>1. orders'[o] = Cancelled(o)
        BY <2>2, <3>1 DEF Concluded, ChangedAt
      <4>2. PICK u : u \in Users
        BY ListedOrder
      <4>3. Cancelled(o).status = "cancelled"
        BY <4>2, EndedOrders
      <4>4. QED
        BY <4>1, <4>3
    <3>2. QED
      BY <2>1, <2>2, <3>1
  <2>3. CASE e # o
    BY <1>1, <2>1, <2>3 DEF Concluded, ChangedAt
  <2>4. QED
    BY <2>2, <2>3
<1>4. CASE SettingNext \/ OthersNext \/ UNCHANGED allvars
  BY <1>1, <1>4, SettingStep, OthersStep
<1>5. QED
  BY <1>2, <1>3, <1>4, MartSteps

(* As long as nothing but majority bundles is listed, whatever the supply, *)
(* whoever buys a bundle becomes the owner of the TBA, holds its root, and *)
(* finds all of the manifest in it, unfrozen.                              *)
THEOREM MajorityBundlesAreDelivered ==
  MartSpec /\ []MajorityBundles => BuyerGetsManifest
<1> DEFINE Delivered ==
             \A o \in Listed :
               orders'[o].status = "sold" /\ IsBundle(o) =>
                 /\ tbas'[orders[o].nid].owner = orders'[o].buyer
                 /\ accounts'[orders'[o].buyer][orders[o].nid] >= orders[o].amount
                 /\ \A id \in DOMAIN orders[o].manifest : Matches(o, id)' /\ ~assets'[id].frozen
<1>1. BundleInv /\ MajorityBundles /\ [SystemNext]_allvars => Delivered
  <2> SUFFICES ASSUME BundleInv, MajorityBundles, [SystemNext]_allvars, NEW o \in Listed,
                      orders'[o].status = "sold", IsBundle(o)
               PROVE  /\ tbas'[orders[o].nid].owner = orders'[o].buyer
                      /\ accounts'[orders'[o].buyer][orders[o].nid] >= orders[o].amount
                      /\ \A id \in DOMAIN orders[o].manifest :
                           Matches(o, id)' /\ ~assets'[id].frozen
    OBVIOUS
  <2>1. Whole(o)
    BY DEF MajorityBundles, BundleInv, BundlesWhole
  <2>2. PICK buyer \in Users : Buy(o, buyer) /\ Concluded(o, Sold(o, buyer), buyer)
    BY OnlyBuySells DEF BundleInv
  <2>3. QED
    BY <2>1, <2>2, SoldWhole DEF BundleInv
<1>2. MartSpec /\ []MajorityBundles => [][Delivered]_allvars
  <2> HIDE DEF Delivered
  <2>1. QED
    BY <1>1, BundleInvHolds, PTL DEF MartSpec
<1>3. QED
  BY <1>2 DEF BuyerGetsManifest, Delivered

(* Where every NFT is unique, every buyer gets what the manifest says.     *)
THEOREM UniqueBundlesAreDelivered ==
  ASSUME Supply = 1 PROVE MartSpec => BuyerGetsManifest
BY UniqueIsMajority, MartInvHolds, MajorityBundlesAreDelivered, PTL

(* Sales do not close a ring: the market moves no asset between TBAs.      *)
LEMMA NoRingOnSale ==
  ASSUME Supply = 1, MartInv, MartInv', NoCustodyRing, [SystemNext]_allvars
  PROVE  NoCustodyRing'
<1>1. ASSUME RowsKept, DOMAIN tbas' = DOMAIN tbas
      PROVE  NoCustodyRing'
  <2>1. \A tba : InsideOf(tba)' = InsideOf(tba)
    BY <1>1 DEF InsideOf, RowsKept
  <2>2. QED
    BY <1>1, <2>1 DEF NoCustodyRing
<1>2. CASE OfferStep
  BY <1>1, <1>2 DEF OfferStep, Offered
<1>3. CASE EndStep
  <2>1. PICK o \in Listed :
          \/ Cancel(o) /\ Concluded(o, Cancelled(o), orders[o].seller)
          \/ \E buyer \in Users : Buy(o, buyer) /\ Concluded(o, Sold(o, buyer), buyer)
    BY <1>3 DEF EndStep
  <2>2. RowsKept
    BY <2>1 DEF Concluded
  <2>3. DOMAIN tbas' = DOMAIN tbas
    <3>1. CASE Cancel(o)
      BY <3>1 DEF Cancel
    <3>2. CASE \E buyer \in Users : Buy(o, buyer)
      <4>1. PICK buyer \in Users : Buy(o, buyer)
        BY <3>2
      <4>2. tbas' = NewTbas(o, buyer) /\ (IsBundle(o) => orders[o].nid \in DOMAIN tbas)
        BY <4>1 DEF Buy, CanBuy
      <4>3. QED
        BY <4>2, NewOwner
    <3>3. QED
      BY <2>1, <3>1, <3>2
  <2>4. QED
    BY <1>1, <2>2, <2>3
<1>4. CASE SettingNext
  BY <1>1, <1>4, SettingStep DEF RowsKept
<1>5. CASE OthersNext \/ UNCHANGED allvars
  <2>1. [Next]_vars
    BY <1>5, OthersStep
  <2>2. QED
    BY <2>1, NoNewRing DEF MartInv
<1>6. QED
  BY <1>2, <1>3, <1>4, <1>5, MartSteps

(* Selling TBAs that contain other roots never closes a ring of them.      *)
THEOREM NoRingIsTraded == ASSUME Supply = 1 PROVE MartSpec => []NoCustodyRing
<1>1. MartInit => NoCustodyRing
  BY DEF MartInit, Init, NoCustodyRing
<1>2. MartInv /\ MartInv' /\ NoCustodyRing /\ [SystemNext]_allvars => NoCustodyRing'
  BY NoRingOnSale
<1>3. QED
  BY <1>1, <1>2, MartInvHolds, PTL DEF MartSpec

-----------------------------------------------------------------------------
(* The market implements Consignment.                                      *)

(* Orders, seen as deals, are a sequence of them.                          *)
LEMMA DealsAreTyped ==
  ASSUME NEW list \in Orders, NEW seen, seen = [o \in DOMAIN list |-> DealOf(list[o])]
  PROVE  /\ seen \in Seq(C!Deal) /\ Len(seen) = Len(list)
         /\ DOMAIN seen = 1 .. Len(list)
         /\ \A o \in DOMAIN list : seen[o] = DealOf(list[o]) /\ seen[o] \in C!Deal
<1>1. \A o \in DOMAIN list : DealOf(list[o]) \in C!Deal
  <2> TAKE o \in DOMAIN list
  <2>1. /\ list[o] \in Order /\ list[o].amount \in Nat \ {0}
    BY OrderFields
  <2>2. /\ list[o].nid \in Nids /\ list[o].seller \in Users
        /\ list[o].buyer \in Users \cup {NoName}
        /\ list[o].status \in {"listed", "sold", "cancelled"}
        /\ (list[o].sale_type = "tba_bundle") \in BOOLEAN
    BY <2>1 DEF Order
  <2>3. QED
    BY <2>1, <2>2 DEF DealOf, C!Deal
<1>2. DOMAIN list = 1 .. Len(list) /\ Len(list) \in Nat
  BY OrderFields
<1>3. seen \in [1 .. Len(list) -> C!Deal]
  BY <1>1, <1>2
<1> HIDE DEF C!Deal
<1>4. seen \in Seq(C!Deal) /\ Len(seen) = Len(list)
  BY <1>2, <1>3
<1>5. QED
  BY <1>1, <1>2, <1>4

(* A new order is a new deal.                                              *)
LEMMA DealAdded ==
  ASSUME MartInv, MartInv', NEW order \in Order, LongerBy(orders, order, orders')
  PROVE  Deals' = Append(Deals, DealOf(order))
<1> DEFINE seen  == Deals
           after == Deals'
           deal  == DealOf(order)
<1>1. /\ orders \in Orders /\ orders' \in Orders /\ Len(orders) \in Nat
      /\ DOMAIN orders = 1 .. Len(orders) /\ DOMAIN orders' = 1 .. Len(orders')
      /\ Len(orders') = Len(orders) + 1
  BY OrderFields DEF MartInv, LongerBy
<1>2. /\ seen \in Seq(C!Deal) /\ Len(seen) = Len(orders)
      /\ \A o \in DOMAIN orders : seen[o] = DealOf(orders[o])
  BY <1>1, DealsAreTyped DEF Deals
<1>3. /\ after \in Seq(C!Deal) /\ Len(after) = Len(orders')
      /\ \A o \in DOMAIN orders' : after[o] = DealOf(orders'[o]) /\ after[o] \in C!Deal
  <2> DEFINE list == orders'
  <2>1. list \in Orders /\ after = [o \in DOMAIN list |-> DealOf(list[o])]
    BY <1>1 DEF Deals, DealOf
  <2> HIDE DEF list, after
  <2>2. /\ after \in Seq(C!Deal) /\ Len(after) = Len(list)
        /\ DOMAIN after = 1 .. Len(list)
        /\ \A o \in DOMAIN list : after[o] = DealOf(list[o]) /\ after[o] \in C!Deal
    BY <2>1, DealsAreTyped
  <2>3. QED
    BY <2>2 DEF list
<1> HIDE DEF seen, after
<1>4. /\ after[Len(orders')] = deal
      /\ \A o \in 1 .. Len(orders) : after[o] = seen[o]
  BY <1>1, <1>2, <1>3 DEF LongerBy
<1>5. deal \in C!Deal
  BY <1>1, <1>3, <1>4
<1> HIDE DEF deal
<1>6. /\ Append(seen, deal) \in Seq(C!Deal) /\ Len(Append(seen, deal)) = Len(seen) + 1
      /\ \A o \in 1 .. Len(seen) : Append(seen, deal)[o] = seen[o]
      /\ Append(seen, deal)[Len(seen) + 1] = deal
  BY <1>2, <1>5, AppendProperties
<1> DEFINE more == Append(seen, deal)
<1>7. /\ more \in Seq(C!Deal) /\ Len(more) = Len(after)
      /\ \A o \in 1 .. Len(after) : more[o] = after[o]
  BY <1>1, <1>2, <1>3, <1>4, <1>6
<1> HIDE DEF more
<1>8. after = more
  BY <1>3, <1>7, SeqEqual
<1>9. QED
  BY <1>8 DEF after, more, seen, deal

(* An order that ends is a deal that does.                                 *)
LEMMA DealEnded ==
  ASSUME MartInv, NEW o \in Listed, NEW order, ChangedAt(orders, o, order, orders')
  PROVE  Deals' = [Deals EXCEPT ![o] = DealOf(order)]
<1>1. o \in DOMAIN orders
  BY DEF Listed
<1>2. /\ DOMAIN orders' = DOMAIN orders /\ orders'[o] = order
      /\ \A other \in DOMAIN orders \ {o} : orders'[other] = orders[other]
  BY DEF ChangedAt
<1>3. Deals' = [x \in DOMAIN orders' |-> DealOf(orders'[x])]
  BY DEF Deals, DealOf
<1>4. QED
  BY <1>1, <1>2, <1>3 DEF Deals

(* The deal of a listed order is open, and one for a bundle is boxed.      *)
LEMMA OpenDeals ==
  ASSUME MartInv
  PROVE  /\ C!Open = Listed /\ DOMAIN Deals = DOMAIN orders
         /\ \A o \in Listed : /\ Deals[o].good = orders[o].nid
                              /\ Deals[o].amount = orders[o].amount
                              /\ Deals[o].seller = orders[o].seller
                              /\ Deals[o].boxed <=> IsBundle(o)
         /\ C!Shut = {orders[o].nid : o \in {x \in Listed : IsBundle(x)}}
<1>1. orders \in Orders
  BY DEF MartInv
<1>2. \A o \in DOMAIN orders : orders[o].status \in {"listed", "sold", "cancelled"}
  BY <1>1, OrderFields
<1>3. /\ DOMAIN Deals = DOMAIN orders
      /\ \A o \in DOMAIN orders :
           /\ Deals[o].good = orders[o].nid /\ Deals[o].amount = orders[o].amount
           /\ Deals[o].seller = orders[o].seller
           /\ Deals[o].boxed = (orders[o].sale_type = "tba_bundle")
           /\ Deals[o].state = "open" <=> orders[o].status = "listed"
  BY <1>2 DEF Deals, DealOf
<1>4. C!Open = Listed
  BY <1>3 DEF C!Open, Listed
<1>5. \A o \in Listed : /\ Deals[o].good = orders[o].nid
                        /\ Deals[o].boxed <=> IsBundle(o)
  BY <1>3 DEF Listed, IsBundle
<1>6. C!Shut = {orders[o].nid : o \in {x \in Listed : IsBundle(x)}}
  BY <1>4, <1>5 DEF C!Shut
<1>7. QED
  BY <1>3, <1>4, <1>5, <1>6 DEF Listed

(* What a person gets from the market or gives to it.                      *)
LEMMA HoldingsMove ==
  ASSUME MartInv, MartInv', NEW u \in Users, NEW nid \in Nids, NEW q \in Int,
         accounts'[u][nid] = accounts[u][nid] + q,
         \A n \in Nids \ {nid} : accounts'[u][n] = accounts[u][n],
         \A a \in Users \ {u}, n \in Nids : accounts'[a][n] = accounts[a][n]
  PROVE  C!Gains(u, nid, q)
<1> DEFINE after == accounts'
<1>1. accounts \in [Accounts -> [Nids -> 0 .. Supply]]
  BY LedgerFacts DEF MartInv
<1>2. after \in [Accounts -> [Nids -> 0 .. Supply]]
  <2>1. NT!TypeOK' /\ (NT!Created = Nids)'
    BY SameTypes, PTL DEF MartInv, TbaInv, DeploymentLasts, Ledger!LedgerInv
  <2>2. QED
    BY <2>1 DEF NT!TypeOK
<1>3. Users \subseteq Accounts
  BY Constants
<1>4. /\ after[u][nid] = accounts[u][nid] + q
      /\ \A n \in Nids \ {nid} : after[u][n] = accounts[u][n]
      /\ \A a \in Users \ {u}, n \in Nids : after[a][n] = accounts[a][n]
  OBVIOUS
<1> HIDE DEF after
<1>5. \A a \in Users : accounts[a] \in [Nids -> 0 .. Supply] /\ after[a] \in [Nids -> 0 .. Supply]
  BY <1>1, <1>2, <1>3
<1>6. \A a \in Users \ {u} : after[a] = accounts[a]
  BY <1>4, <1>5
<1>7. after[u] = [accounts[u] EXCEPT ![nid] = @ + q]
  BY <1>4, <1>5
<1>8. [a \in Users |-> after[a]] = [Holdings EXCEPT ![u][nid] = @ + q]
  BY <1>6, <1>7 DEF Holdings
<1>9. QED
  BY <1>8 DEF C!Gains, Holdings, after

(* A box is unchanged where the rows of its TBA are, freezes apart.        *)
LEMMA BoxesStay ==
  /\ (/\ DOMAIN assets' = DOMAIN assets
      /\ \A id \in DOMAIN assets :
           /\ assets'[id].tba = assets[id].tba /\ assets'[id].what = assets[id].what
           /\ assets'[id].amount = assets[id].amount
           /\ assets'[id].settlement_mode = assets[id].settlement_mode)
     => UNCHANGED Boxes
  /\ \A nid \in Nids : RowsOfKept(nid) => Boxes'[nid] = Boxes[nid]
<1> DEFINE Box(nid) == {[id |-> id, what |-> assets[id].what, amount |-> assets[id].amount,
                        settlement_mode |-> assets[id].settlement_mode] : id \in AssetsOf(nid)}
<1>1. Boxes = [nid \in Nids |-> Box(nid)] /\ Boxes' = [nid \in Nids |-> Box(nid)']
  BY DEF Boxes
<1>2. ASSUME DOMAIN assets' = DOMAIN assets,
             \A id \in DOMAIN assets :
               /\ assets'[id].tba = assets[id].tba /\ assets'[id].what = assets[id].what
               /\ assets'[id].amount = assets[id].amount
               /\ assets'[id].settlement_mode = assets[id].settlement_mode
      PROVE  UNCHANGED Boxes
  <2>1. \A nid : AssetsOf(nid)' = AssetsOf(nid)
    BY <1>2 DEF AssetsOf
  <2>2. \A nid : \A id \in AssetsOf(nid) :
          /\ assets'[id].what = assets[id].what /\ assets'[id].amount = assets[id].amount
          /\ assets'[id].settlement_mode = assets[id].settlement_mode
    BY <1>2 DEF AssetsOf
  <2>3. \A nid : Box(nid)' = Box(nid)
    BY <2>1, <2>2
  <2> HIDE DEF Box
  <2>4. QED
    BY <1>1, <2>3
<1>3. ASSUME NEW nid \in Nids, RowsOfKept(nid)
      PROVE  Boxes'[nid] = Boxes[nid]
  <2>1. /\ AssetsOf(nid)' = AssetsOf(nid)
        /\ \A id \in AssetsOf(nid) : assets'[id] = assets[id]
    BY <1>3 DEF AssetsOf, RowsOfKept
  <2>2. Box(nid)' = Box(nid)
    BY <2>1
  <2> HIDE DEF Box
  <2>3. QED
    BY <1>1, <2>2
<1>4. QED
  BY <1>2, <1>3

(* Listing hands units over to the market, and shuts the box of a bundle.  *)
LEMMA ConsignStep ==
  ASSUME BundleInv, MartInv', NEW order \in Order, Offered(order),
         UNCHANGED Boxes,
         order.sale_type = "tba_bundle" =>
           /\ order.nid \in DOMAIN tbas /\ tbas[order.nid].owner = order.seller
           /\ tbas[order.nid].root_amount = order.amount,
         MajorityBundles
  PROVE  C!Next
<1> DEFINE a   == order.seller
           nid == order.nid
           q   == order.amount
           boxed == order.sale_type = "tba_bundle"
<1>1. /\ MartInv /\ LongerBy(orders, order, orders') /\ OneMoved(a, Mart, nid, q)
      /\ order.status = "listed" /\ order.buyer = NoName /\ UNCHANGED tbas
  BY DEF Offered, BundleInv
<1>2. /\ a \in Users /\ nid \in Nids /\ q \in Nat \ {0} /\ boxed \in BOOLEAN
      /\ a # Mart /\ a \in Accounts
  BY Constants DEF Order
<1>3. DealOf(order) = [good |-> nid, amount |-> q, boxed |-> boxed, seller |-> a,
                       state |-> "open", buyer |-> NoName]
  BY <1>1 DEF DealOf
<1>4. Deals' = Append(Deals, [good |-> nid, amount |-> q, boxed |-> boxed, seller |-> a,
                              state |-> "open", buyer |-> NoName])
  BY <1>1, <1>3, DealAdded
<1>5. Holdings[a] = accounts[a] /\ accounts[a][nid] >= q /\ accounts[a][nid] \in Nat
  BY <1>1, <1>2, LedgerFacts DEF Holdings, OneMoved, MartInv
<1>6. C!Gains(a, nid, -q)
  <2>1. /\ accounts'[a][nid] = accounts[a][nid] - q
        /\ \A n \in Nids \ {nid} : accounts'[a][n] = accounts[a][n]
        /\ \A b \in Users \ {a}, n \in Nids : accounts'[b][n] = accounts[b][n]
    BY <1>1, Constants DEF OneMoved
  <2> HIDE DEF a, nid, q
  <2>2. accounts'[a][nid] = accounts[a][nid] + (-q) /\ -q \in Int
    BY <1>2, <1>5, <2>1
  <2>3. QED
    BY <1>1, <1>2, <2>1, <2>2, HoldingsMove
<1>7. boxed => Keepers[nid] = a /\ nid \notin C!Shut
  <2> SUFFICES ASSUME boxed PROVE Keepers[nid] = a /\ nid \notin C!Shut
    OBVIOUS
  <2>1. nid \in DOMAIN tbas /\ tbas[nid].owner = a /\ tbas[nid].root_amount = q
    OBVIOUS
  <2>2. Keepers[nid] = a
    BY <1>2, <2>1 DEF Keepers
  <2>3. ASSUME NEW x \in Listed, IsBundle(x), orders[x].nid = nid PROVE FALSE
    <3>1. orders[x].amount = q
      BY <2>1, <2>3 DEF BundleInv, BundleRoots
    <3>2. MoreThanHalf(x)
      BY <2>3 DEF MajorityBundles
    <3>3. ~ (accounts[a][nid] >= q)
      BY <1>1, <1>2, <2>3, <3>1, <3>2, NobodyElseHoldsHalf DEF BundleInv
    <3>4. QED
      BY <1>5, <3>3
  <2>4. QED
    BY <1>1, <2>2, <2>3, OpenDeals
<1>8. UNCHANGED <<Boxes, Keepers>>
  BY <1>1 DEF Keepers
<1> HIDE DEF a, nid, q, boxed
<1>9. C!Consign(a, nid, q, boxed)
  BY <1>4, <1>5, <1>6, <1>7, <1>8 DEF C!Consign
<1>10. q \in 1 .. Holdings[a][nid]
  BY <1>2, <1>5
<1>11. QED
  BY <1>2, <1>9, <1>10 DEF C!Next

(* Ending an order hands its units over to its seller or its buyer.        *)
LEMMA HandedOver ==
  ASSUME MartInv, MartInv', NEW o \in Listed, NEW to \in Users,
         OneMoved(Mart, to, orders[o].nid, orders[o].amount)
  PROVE  C!Gains(to, orders[o].nid, orders[o].amount)
<1>1. orders[o].amount \in Int /\ orders[o].nid \in Nids
  BY ListedOrder
<1>2. \A b \in Users : b \in Accounts /\ b # Mart
  BY Constants
<1>3. QED
  BY <1>1, <1>2, HoldingsMove DEF OneMoved

(* Cancelling an order returns the deal to who left it.                    *)
LEMMA CancelReturnsDeal ==
  ASSUME MartInv, MartInv', NEW o \in Listed, Cancel(o),
         Concluded(o, Cancelled(o), orders[o].seller), UNCHANGED Boxes
  PROVE  C!Next
<1>1. orders[o].seller \in Users /\ o \in DOMAIN orders
  BY ListedOrder
<1>2. /\ o \in C!Open /\ o \in DOMAIN Deals /\ Deals[o].good = orders[o].nid
      /\ Deals[o].amount = orders[o].amount /\ Deals[o].seller = orders[o].seller
  BY <1>1, OpenDeals
<1>3. Deals' = [Deals EXCEPT ![o].state = "returned"]
  <2>1. Deals' = [Deals EXCEPT ![o] = DealOf(Cancelled(o))]
    BY DealEnded DEF Concluded
  <2>2. DealOf(Cancelled(o)) = [Deals[o] EXCEPT !.state = "returned"]
    <3>1. /\ Cancelled(o).status = "cancelled" /\ Cancelled(o).buyer = orders[o].buyer
          /\ Cancelled(o).nid = orders[o].nid /\ Cancelled(o).amount = orders[o].amount
          /\ Cancelled(o).sale_type = orders[o].sale_type
          /\ Cancelled(o).seller = orders[o].seller
      BY <1>1, EndedOrders
    <3>2. Deals[o] = DealOf(orders[o])
      BY <1>1 DEF Deals
    <3>3. QED
      BY <3>1, <3>2 DEF DealOf
  <2>3. QED
    BY <2>1, <2>2
<1>4. C!Gains(Deals[o].seller, Deals[o].good, Deals[o].amount)
  BY <1>1, <1>2, HandedOver DEF Concluded
<1>5. UNCHANGED <<Boxes, Keepers>>
  BY DEF Cancel, Keepers
<1>6. C!Return(o)
  BY <1>2, <1>3, <1>4, <1>5 DEF C!Return
<1>7. QED
  BY <1>2, <1>6 DEF C!Next

(* Buying an order delivers the deal to the buyer.                         *)
LEMMA BuyDeliversDeal ==
  ASSUME MartInv, MartInv', NEW o \in Listed, NEW buyer \in Users, Buy(o, buyer),
         Concluded(o, Sold(o, buyer), buyer), UNCHANGED Boxes
  PROVE  C!Next
<1>1. o \in DOMAIN orders /\ orders[o].nid \in Nids
  BY ListedOrder
<1>2. /\ o \in C!Open /\ o \in DOMAIN Deals /\ Deals[o].good = orders[o].nid
      /\ Deals[o].amount = orders[o].amount /\ (Deals[o].boxed <=> IsBundle(o))
  BY <1>1, OpenDeals
<1>3. Deals' = [Deals EXCEPT ![o].state = "delivered", ![o].buyer = buyer]
  <2>1. Deals' = [Deals EXCEPT ![o] = DealOf(Sold(o, buyer))]
    BY DealEnded DEF Concluded
  <2>2. DealOf(Sold(o, buyer)) = [Deals[o] EXCEPT !.state = "delivered", !.buyer = buyer]
    <3>1. /\ Sold(o, buyer).status = "sold" /\ Sold(o, buyer).buyer = buyer
          /\ Sold(o, buyer).nid = orders[o].nid /\ Sold(o, buyer).amount = orders[o].amount
          /\ Sold(o, buyer).sale_type = orders[o].sale_type
          /\ Sold(o, buyer).seller = orders[o].seller
      BY <1>1, EndedOrders
    <3>2. Deals[o] = DealOf(orders[o])
      BY <1>1 DEF Deals
    <3>3. DealOf(Sold(o, buyer)) =
            [good |-> orders[o].nid, amount |-> orders[o].amount,
             boxed |-> orders[o].sale_type = "tba_bundle", seller |-> orders[o].seller,
             state |-> "delivered", buyer |-> buyer]
      BY <3>1 DEF DealOf
    <3>4. PICK state, was :
            Deals[o] = [good |-> orders[o].nid, amount |-> orders[o].amount,
                        boxed |-> orders[o].sale_type = "tba_bundle",
                        seller |-> orders[o].seller, state |-> state, buyer |-> was]
      BY <3>2 DEF DealOf
    <3> DEFINE once == [Deals[o] EXCEPT !.state = "delivered"]
    <3>5. once = [good |-> orders[o].nid, amount |-> orders[o].amount,
                  boxed |-> orders[o].sale_type = "tba_bundle",
                  seller |-> orders[o].seller, state |-> "delivered", buyer |-> was]
      BY ONLY <3>4
    <3>6. [Deals[o] EXCEPT !.state = "delivered", !.buyer = buyer]
            = [once EXCEPT !.buyer = buyer]
      OBVIOUS
    <3> HIDE DEF once
    <3>7. [once EXCEPT !.buyer = buyer] =
            [good |-> orders[o].nid, amount |-> orders[o].amount,
             boxed |-> orders[o].sale_type = "tba_bundle", seller |-> orders[o].seller,
             state |-> "delivered", buyer |-> buyer]
      BY ONLY <3>5
    <3>8. QED
      BY <3>3, <3>6, <3>7
  <2>3. QED
    BY <1>2, <2>1, <2>2
<1>4. C!Gains(buyer, Deals[o].good, Deals[o].amount)
  BY <1>1, <1>2, HandedOver DEF Concluded
<1>5. Keepers' = IF Deals[o].boxed THEN [Keepers EXCEPT ![Deals[o].good] = buyer] ELSE Keepers
  <2>1. tbas' = NewTbas(o, buyer) /\ (IsBundle(o) => orders[o].nid \in DOMAIN tbas)
    BY DEF Buy, CanBuy
  <2>2. /\ DOMAIN tbas' = DOMAIN tbas
        /\ \A nid \in DOMAIN tbas :
             IF IsBundle(o) /\ nid = orders[o].nid
             THEN tbas'[nid].owner = buyer
             ELSE tbas'[nid] = tbas[nid]
    BY <2>1, NewOwner
  <2>3. CASE IsBundle(o)
    <3>1. Keepers' = [Keepers EXCEPT ![orders[o].nid] = buyer]
      BY <1>1, <2>1, <2>2, <2>3 DEF Keepers
    <3>2. QED
      BY <1>2, <2>3, <3>1
  <2>4. CASE ~ IsBundle(o)
    <3>1. Keepers' = Keepers
      BY <2>2, <2>4 DEF Keepers
    <3>2. QED
      BY <1>2, <2>4, <3>1
  <2>5. QED
    BY <2>3, <2>4
<1>6. C!Deliver(o, buyer)
  BY <1>2, <1>3, <1>4, <1>5 DEF C!Deliver
<1>7. QED
  BY <1>2, <1>6 DEF C!Next

(* Whatever the others do, what is on offer is left alone.                 *)
LEMMA ElsewhereStep ==
  ASSUME BundleInv, [SystemNext]_allvars, OthersNext \/ UNCHANGED allvars, MajorityBundles
  PROVE  C!Next
<1>1. MartInv /\ UNCHANGED orders /\ [Next]_vars /\ TbaInv
  BY OthersStep DEF BundleInv, MartInv
<1>2. UNCHANGED Deals
  BY <1>1 DEF Deals
<1>3. ASSUME NEW x \in Listed, IsBundle(x)
      PROVE  /\ Boxes'[orders[x].nid] = Boxes[orders[x].nid]
             /\ Keepers'[orders[x].nid] = Keepers[orders[x].nid]
  <2>1. x \in Listed' /\ StillListed(x) /\ MoreThanHalf(x) /\ orders[x].nid \in Nids
    BY <1>1, <1>3, ListedOrder DEF Listed, StillListed, MajorityBundles
  <2>2. RowsOfKept(orders[x].nid)
    BY <1>1, <1>3, <2>1, OfferStaysShut DEF BundleInv
  <2>3. Boxes'[orders[x].nid] = Boxes[orders[x].nid]
    BY <2>1, <2>2, BoxesStay
  <2>4. orders[x].nid \in DOMAIN tbas
    BY <1>3 DEF BundleInv, BundleRoots
  <2>5. /\ orders[x].nid \in DOMAIN tbas'
        /\ tbas'[orders[x].nid].owner = tbas[orders[x].nid].owner
    BY <1>1, <2>4, TbasStay DEF TbasLast
  <2>6. Keepers'[orders[x].nid] = Keepers[orders[x].nid]
    BY <2>1, <2>4, <2>5 DEF Keepers
  <2>7. QED
    BY <2>3, <2>6
<1>4. \A good \in C!Shut : Boxes'[good] = Boxes[good] /\ Keepers'[good] = Keepers[good]
  BY <1>1, <1>3, OpenDeals
<1>5. C!Elsewhere
  BY <1>2, <1>4 DEF C!Elsewhere
<1>6. QED
  BY <1>5 DEF C!Next

(* Every step of the system is one of Consignment.                         *)
LEMMA ConsignmentStep ==
  ASSUME BundleInv, MartInv', [SystemNext]_allvars, MajorityBundles
  PROVE  C!Next
<1>1. MartInv
  BY DEF BundleInv
<1>2. CASE OfferStep
  <2>1. CASE \E a \in Users, nid \in Nids, q \in 1 .. Supply, t \in PayTokens, p \in Prices :
               ListNft(a, nid, q, t, p) /\ Offered(NftOrder(a, nid, q, t, p))
    <3>1. PICK a \in Users, nid \in Nids, q \in 1 .. Supply, t \in PayTokens, p \in Prices :
            ListNft(a, nid, q, t, p) /\ Offered(NftOrder(a, nid, q, t, p))
      BY <2>1
    <3> DEFINE order == NftOrder(a, nid, q, t, p)
    <3>2. order \in Order /\ Offered(order) /\ order.sale_type # "tba_bundle"
      BY <3>1 DEF NftOrder, Offered
    <3>3. UNCHANGED Boxes
      <4>1. assets' = assets
        BY <3>1 DEF ListNft, tbavars
      <4>2. QED
        BY <4>1, BoxesStay
    <3> HIDE DEF order
    <3>4. QED
      BY <3>2, <3>3, ConsignStep
  <2>2. CASE \E a \in Users, tba \in Nids, t \in PayTokens, p \in Prices :
               Listbundle(a, tba, t, p) /\ Offered(BundleOrder(a, tba, t, p))
    <3>1. PICK a \in Users, tba \in Nids, t \in PayTokens, p \in Prices :
            Listbundle(a, tba, t, p) /\ Offered(BundleOrder(a, tba, t, p))
      BY <2>2
    <3> DEFINE order == BundleOrder(a, tba, t, p)
    <3>2. /\ order \in Order /\ Offered(order)
          /\ order.nid \in DOMAIN tbas /\ tbas[order.nid].owner = order.seller
          /\ tbas[order.nid].root_amount = order.amount
      BY <3>1 DEF BundleOrder, Offered, Listbundle
    <3>3. UNCHANGED Boxes
      <4>1. assets' = Frozen(Deliverables(tba), TRUE) /\ TRUE \in BOOLEAN
        BY <3>1 DEF Listbundle
      <4>2. QED
        BY <1>1, <4>1, FrozenRows, BoxesStay DEF MartInv
    <3> HIDE DEF order
    <3>4. QED
      BY <3>2, <3>3, ConsignStep
  <2>3. QED
    BY <1>2, <2>1, <2>2 DEF OfferStep
<1>3. CASE EndStep
  <2>1. PICK o \in Listed :
          \/ Cancel(o) /\ Concluded(o, Cancelled(o), orders[o].seller)
          \/ \E buyer \in Users : Buy(o, buyer) /\ Concluded(o, Sold(o, buyer), buyer)
    BY <1>3 DEF EndStep
  <2>2. UNCHANGED Boxes
    <3>1. assets' = Released(o)
      BY <2>1 DEF Cancel, Buy
    <3>2. PICK ids : assets' = Frozen(ids, FALSE) \/ assets' = assets
      BY <3>1, ReleasedRows
    <3>3. FALSE \in BOOLEAN
      OBVIOUS
    <3>4. QED
      BY <1>1, <3>2, <3>3, FrozenRows, BoxesStay DEF MartInv
  <2>3. QED
    BY <1>1, <2>1, <2>2, CancelReturnsDeal, BuyDeliversDeal
<1>4. CASE SettingNext
  <2>1. UNCHANGED <<orders, tbas, assets>>
    BY <1>1, <1>4, SettingStep
  <2>2. UNCHANGED <<Deals, Boxes, Keepers>>
    BY <2>1 DEF Deals, Boxes, AssetsOf, Keepers
  <2>3. C!Elsewhere
    BY <2>2 DEF C!Elsewhere
  <2>4. QED
    BY <2>3 DEF C!Next
<1>5. CASE OthersNext \/ UNCHANGED allvars
  BY <1>5, ElsewhereStep
<1>6. QED
  BY <1>1, <1>2, <1>3, <1>4, <1>5, MartSteps

(* As long as nothing but majority bundles is listed, whatever the supply  *)
(* and the singles, the market implements Consignment: every deal ends     *)
(* with its seller or with one buyer, and a box on offer stays shut.       *)
THEOREM MajoritySalesAreConsignment ==
  MartSpec /\ []MajorityBundles => ImplementsConsignment
<1>1. MartInit => C!Init
  BY DEF MartInit, C!Init, Deals
<1>2. BundleInv /\ BundleInv' /\ MajorityBundles /\ [SystemNext]_allvars => [C!Next]_C!vars
  BY ConsignmentStep DEF BundleInv
<1>3. QED
  BY <1>1, <1>2, BundleInvHolds, PTL DEF MartSpec, ImplementsConsignment, C!Spec

(* Where every NFT is unique, the market implements Consignment.           *)
THEOREM UniqueSalesAreConsignment ==
  ASSUME Supply = 1 PROVE MartSpec => ImplementsConsignment
BY UniqueIsMajority, MartInvHolds, MajoritySalesAreConsignment, PTL

=============================================================================
